-------------------------- MODULE MCMissionControl --------------------------
(* Instances of MissionControl for TLC.                                    *)
EXTENDS MissionControl

Cmd(id, action, t) == [id |-> id, action |-> action, task |-> t]

\* The second task waits for the first and the fourth, above the policy, for the second;
\* the third is independent.
MCDependencies == [t \in Tasks |-> CASE t = 2 -> {1} [] t = 4 -> {2} [] OTHER -> {}]
MCAuthority    == [t \in Tasks |-> IF t = 4 THEN 3 ELSE 2]
MCNeeds        == [t \in Tasks |-> IF t = 1 THEN {"local_node_offline"} ELSE {}]
MCCommands     == {Cmd(1, "pause_mission", 1), Cmd(2, "resume_mission", 1), Cmd(3, "cancel_task", 1),
                   Cmd(4, "cancel_mission", 1)}
=============================================================================

--------------------------- MODULE MissionControl ---------------------------
(***************************************************************************)
(* The mission queue of Mission Control (mission_control.py): a DAG of     *)
(* tasks that are leased to workers by priority, retried a bounded number  *)
(* of times, blocked while the environment lacks what they need, and       *)
(* stopped by operators, by the deadline or because only the owner may     *)
(* authorize them.                                                         *)
(*                                                                         *)
(* Every function takes the mission state and returns a new one, which     *)
(* save_state puts in the place of the old one, atomically: a step here is *)
(* a call and its save, before anything it returned is acted upon.  A      *)
(* process that dies earlier has changed nothing, and one that dies later  *)
(* leaves leases nobody works on.  Nothing in the repository calls the     *)
(* functions in a loop, so any order of calls is taken, and workers report *)
(* late and again.  The owners of a group are one worker; notifications    *)
(* and the digest chain of events, which no decision reads, are left out.  *)
(***************************************************************************)
EXTENDS Integers, FiniteSets

CONSTANTS
    Tasks,           \* numbered in the order of (-priority, task_id)
    Dependencies,    \* task -> the tasks it depends on
    Authority,       \* task -> its authority level
    MissionAuthority,
    MaxAuthority,    \* policy.max_task_authority
    MaxAttempts,     \* the smaller one of task and policy
    MaxParallel,     \* the smaller one of mission and policy
    Timeout,         \* of a lease
    Deadline,        \* of the mission
    Conditions,      \* what can block a task: circuits, limits, stale data, no owner
    Needs,           \* task -> the conditions that block it
    Failures,        \* kinds of failure: "transient", "persistent", "fatal"
    Commands,        \* the commands operators send: id, action, task
    MaxEvents,       \* bound: changes of conditions
    MaxClock         \* bound: end of time

ASSUME TasksAssumption ==
    /\ Tasks \subseteq Nat /\ IsFiniteSet(Tasks)
    /\ Dependencies \in [Tasks -> SUBSET Tasks]
    /\ Authority \in [Tasks -> 0..4] /\ MissionAuthority \in 0..4 /\ MaxAuthority \in 0..3
    /\ Needs \in [Tasks -> SUBSET Conditions]
ASSUME LimitsAssumption ==
    MaxAttempts \in Nat \ {0} /\ MaxParallel \in Nat \ {0} /\ Timeout \in Nat \ {0} /\ Deadline \in Nat \ {0}
ASSUME CommandsAssumption ==
    Commands \subseteq [id : Nat, action : {"pause_mission", "resume_mission", "cancel_mission", "cancel_task"},
                        task : Tasks]

VARIABLES
    now,       \* the clock
    env,       \* the conditions that hold: circuits open, node offline, ...
    status,    \* the mission, as it was saved last
    task,      \* its tasks
    done,      \* processed_commands, of operators
    issued,    \* history: leases handed to workers
    reported,  \* history: <<lease, outcome>> of the reports workers made
    events     \* number of changes of conditions

mission == <<status, task, done>>
clock   == <<now, env>>
history == <<issued, reported>>
vars    == <<clock, mission, history, events>>

-----------------------------------------------------------------------------
Active   == {"LEASED", "RUNNING"}
Terminal == {"DONE", "CANCELLED", "FAILED"}
NoTime   == -1

\* attempt counts leases; leased is the time of the current one, which lease_id,
\* lease_expires_at, assigned_owner and dispatch_key stand and fall with.
Fresh(t) ==
    [status  |-> IF Authority[t] >= 4 THEN "OWNER_REQUIRED" ELSE "PENDING",
     attempt |-> 0, leased |-> NoTime,
     reason  |-> IF Authority[t] >= 4 THEN "owner_required" ELSE "none"]

\* lease_id is a digest of the task, the attempt and the time.
Lease(t, attempt, time) == <<t, attempt, time>>

\* create_mission
Init ==
    /\ now = 0
    /\ env \in SUBSET Conditions
    /\ status = IF MissionAuthority >= 4 THEN "OWNER_REQUIRED" ELSE "PENDING"
    /\ task = [t \in Tasks |-> Fresh(t)]
    /\ done = {}
    /\ issued = {}
    /\ reported = {}
    /\ events = 0

Tick == now < MaxClock /\ now' = now + 1 /\ UNCHANGED <<env, mission, history, events>>

\* A circuit opens or closes, the local node goes or returns, a limit is reached, ...
Change(c) ==
    /\ events < MaxEvents /\ events' = events + 1
    /\ env' = IF c \in env THEN env \ {c} ELSE env \cup {c}
    /\ UNCHANGED <<now, mission, history>>

-----------------------------------------------------------------------------
\* _refresh_mission_status: the status of a mission that had status s, with tasks k.
RefreshedStatus(s, k) ==
    LET statuses == {k[t].status : t \in Tasks}
    IN  IF s \in {"CANCELLED", "PAUSED"} THEN s
        ELSE IF statuses = {"DONE"} THEN "DONE"
        ELSE IF "OWNER_REQUIRED" \in statuses THEN "OWNER_REQUIRED"
        ELSE IF "FAILED" \in statuses THEN "FAILED"
        ELSE IF statuses \cap Active # {} THEN "RUNNING"
        ELSE IF "BLOCKED" \in statuses THEN "BLOCKED"
        ELSE IF statuses \cap {"READY", "PENDING"} # {} THEN "READY"
        ELSE s

\* A call that changes the tasks to k and refreshes the mission.
Becomes(k) == task' = k /\ status' = RefreshedStatus(status, k)

-----------------------------------------------------------------------------
(* schedule                                                                *)

\* Mutant of DepsDone: a dependency that is over counts as done.
DepsOver(k, t) == \A d \in Dependencies[t] : k[d].status \in Terminal

DepsDone(k, t) == \A d \in Dependencies[t] : k[d].status = "DONE"

\* _blocking_reason: the first one, in a fixed order, of those that hold.
Blocking(t) == env \cap Needs[t]
Reason(t)   == IF Blocking(t) = {} THEN "none" ELSE CHOOSE c \in Conditions : c \in Blocking(t)

\* Mutant of Reviewed: the authority of a task is not compared with the policy.
ReviewedAnyAuthority(k, t) ==
    IF k[t].status \in {"READY", "BLOCKED"} \/ (k[t].status = "PENDING" /\ DepsDone(k, t))
    THEN [k[t] EXCEPT !.status = IF Blocking(t) = {} THEN "READY" ELSE "BLOCKED", !.reason = Reason(t)]
    ELSE k[t]

\* The first loop of schedule, for one task: it becomes ready, blocked or ready again.
Reviewed(k, t) ==
    IF k[t].status \in {"READY", "BLOCKED"} \/ (k[t].status = "PENDING" /\ DepsDone(k, t))
    THEN IF Authority[t] > MaxAuthority
         THEN [k[t] EXCEPT !.status = "OWNER_REQUIRED", !.reason = "task_owner_required"]
         ELSE [k[t] EXCEPT !.status = IF Blocking(t) = {} THEN "READY" ELSE "BLOCKED",
                           !.reason = Reason(t)]
    ELSE k[t]

ActiveTasks(k) == {t \in Tasks : k[t].status \in Active}

Exhausted(k, t) == k[t].attempt >= MaxAttempts

\* Ready tasks the second loop leases before it comes to t.
Ahead(k, t) == {u \in Tasks : u < t /\ k[u].status = "READY" /\ ~Exhausted(k, u)}

\* Mutant of Reached: only the leases that are already out are counted.
ReachedByActive(k, t) == k[t].status = "READY" /\ Cardinality(ActiveTasks(k)) < MaxParallel

\* The second loop comes to the ready task t before the limit stops it.
Reached(k, t) ==
    /\ k[t].status = "READY"
    /\ Cardinality(ActiveTasks(k)) + Cardinality(Ahead(k, t)) < MaxParallel

Leased(k) == {t \in Tasks : Reached(k, t) /\ ~Exhausted(k, t)}

\* The second loop, for one task: it is leased or fails.
Assigned(k, t) ==
    CASE t \in Leased(k) -> [status |-> "LEASED", attempt |-> k[t].attempt + 1, leased |-> now, reason |-> "none"]
      [] Reached(k, t) /\ Exhausted(k, t) -> [k[t] EXCEPT !.status = "FAILED", !.reason = "retry_exhausted"]
      [] OTHER -> k[t]

Schedulable == status \notin {"DONE", "CANCELLED", "FAILED", "OWNER_REQUIRED", "PAUSED"}

Due == now >= Deadline

\* schedule after the deadline.
MissDeadline ==
    /\ Schedulable /\ Due
    /\ status' = "FAILED"
    /\ task' = [t \in Tasks |-> IF task[t].status \in Terminal THEN task[t]
                                ELSE [task[t] EXCEPT !.status = "FAILED", !.reason = "mission_deadline_exceeded"]]
    /\ UNCHANGED <<clock, done, history, events>>

\* schedule before it: both loops, and the leases are handed out.
Schedule ==
    /\ Schedulable /\ ~Due
    /\ LET ready == [t \in Tasks |-> Reviewed(task, t)]
       IN  /\ Becomes([t \in Tasks |-> Assigned(ready, t)])
           /\ issued' = issued \cup {Lease(t, ready[t].attempt + 1, now) : t \in Leased(ready)}
    /\ UNCHANGED <<clock, done, reported, events>>

-----------------------------------------------------------------------------
(* mark_running and record_result, called with any lease that was issued.  *)

\* Mutant of Holds: the lease of a report is not compared.
HoldsAny(t, l) == task[t].leased # NoTime

\* l is the lease the task t holds.
Holds(t, l) == task[t].leased # NoTime /\ l = Lease(t, task[t].attempt, task[t].leased)

MarkRunning(t, l) ==
    /\ task[t].status = "LEASED" /\ Holds(t, l)
    /\ Becomes([task EXCEPT ![t].status = "RUNNING"])
    /\ UNCHANGED <<clock, done, history, events>>

\* The report of a worker is accepted; any other one raises and changes nothing.
Report(l, outcome) ==
    /\ reported' = reported \cup {<<l, outcome>>}
    /\ UNCHANGED <<clock, done, issued, events>>

Succeed(t, l) ==
    /\ task[t].status \in Active /\ Holds(t, l)
    /\ Becomes([task EXCEPT ![t].status = "DONE", ![t].leased = NoTime, ![t].reason = "none"])
    /\ Report(l, "success")

Retriable(t, failure) == failure = "transient" /\ task[t].attempt < MaxAttempts

Fail(t, l, failure) ==
    /\ task[t].status \in Active /\ Holds(t, l)
    /\ LET after == CASE Retriable(t, failure) -> [status |-> "READY", reason |-> "none"]
                      [] failure = "fatal"     -> [status |-> "FAILED", reason |-> "fatal"]
                      [] OTHER                 -> [status |-> "BLOCKED", reason |-> "root_cause_required"]
       IN  Becomes([task EXCEPT ![t].status = after.status, ![t].leased = NoTime, ![t].reason = after.reason])
    /\ Report(l, failure)

-----------------------------------------------------------------------------
(* apply_command                                                           *)

Stopped(k) ==
    IF k.status \in Terminal THEN k ELSE [k EXCEPT !.status = "CANCELLED", !.leased = NoTime]

\* The mission after pause_mission, resume_mission and cancel_mission.
StatusAfter(action) ==
    CASE action = "pause_mission" /\ status \notin Terminal -> "PAUSED"
      [] action = "resume_mission" /\ status = "PAUSED"    -> "READY"
      [] action = "cancel_mission" /\ status # "DONE"      -> "CANCELLED"
      [] OTHER                                             -> status

\* A command that was processed is answered with the state as it is.
Command(c) ==
    /\ c.id \notin done
    /\ LET stopped == CASE c.action = "cancel_task"                        -> {c.task}
                        [] c.action = "cancel_mission" /\ status # "DONE" -> Tasks
                        [] OTHER                                          -> {}
           k == [t \in Tasks |-> IF t \in stopped THEN Stopped(task[t]) ELSE task[t]]
           s == IF c.action = "cancel_task" THEN RefreshedStatus(status, k) ELSE StatusAfter(c.action)
       IN  status' = s /\ task' = k
    /\ done' = done \cup {c.id}
    /\ UNCHANGED <<clock, history, events>>

-----------------------------------------------------------------------------
(* reconcile_restart                                                       *)

\* Mutant of Expired: leases do not outlive the process.
AnyLease(k) == k.status \in Active

Expired(k) == k.status \in Active /\ k.leased + Timeout <= now

\* The loop of reconcile_restart, for one task.
Reconciled(t) ==
    CASE Expired(task[t]) /\ task[t].attempt < MaxAttempts ->
            [task[t] EXCEPT !.status = "READY", !.leased = NoTime]
      [] Expired(task[t]) /\ task[t].attempt >= MaxAttempts ->
            [task[t] EXCEPT !.status = "FAILED", !.leased = NoTime, !.reason = "retry_exhausted"]
      [] task[t].status = "BLOCKED" /\ task[t].reason \in Conditions /\ Blocking(t) = {} ->
            [task[t] EXCEPT !.status = "READY", !.reason = "none"]
      [] OTHER -> task[t]

\* After a restart, or any time a process likes.
Restart == Becomes([t \in Tasks |-> Reconciled(t)]) /\ UNCHANGED <<clock, done, history, events>>

-----------------------------------------------------------------------------
Next ==
    \/ Tick \/ (\E c \in Conditions : Change(c))
    \/ MissDeadline \/ Schedule
    \/ \E l \in issued :
          \/ MarkRunning(l[1], l) \/ Succeed(l[1], l)
          \/ \E failure \in Failures : Fail(l[1], l, failure)
    \/ \E c \in Commands : Command(c)
    \/ Restart

Spec == Init /\ [][Next]_vars

-----------------------------------------------------------------------------
Reasons == Conditions \cup {"none", "owner_required", "task_owner_required", "retry_exhausted", "mission_deadline_exceeded",
                            "fatal", "root_cause_required"}

TaskStates ==
    [status  : {"PENDING", "READY", "BLOCKED", "OWNER_REQUIRED"} \cup Active \cup Terminal,
     attempt : 0..MaxAttempts, leased : Int, reason : Reasons]

MissionStatuses == {"PENDING", "READY", "RUNNING", "BLOCKED", "OWNER_REQUIRED", "PAUSED"} \cup Terminal

\* Every part of the state has its type; attempts stay within the retry budget.
TypeOK ==
    /\ now \in Nat /\ env \subseteq Conditions /\ events \in Nat
    /\ status \in MissionStatuses /\ task \in [Tasks -> TaskStates] /\ done \subseteq Nat
    /\ issued \subseteq Tasks \X Nat \X Nat
    /\ reported \subseteq issued \X (Failures \cup {"success"})

\* "Parallel leases are capped by both mission and policy ceilings": after any
\* sequence of passes, reports, cancels and restarts.
LeasesWithinLimit == Cardinality(ActiveTasks(task)) <= MaxParallel

\* A task is worked on or done only when what it depends on is done, and only with
\* authority the policy may grant.
WorkIsAllowed ==
    \A t \in Tasks : task[t].status \in Active \cup {"DONE"} =>
        /\ \A d \in Dependencies[t] : task[d].status = "DONE"
        /\ Authority[t] <= MaxAuthority

\* What the mission claims is true of its tasks: DONE when all are done, CANCELLED
\* when nothing is left to run.
StatusIsTrue ==
    /\ status = "DONE" => \A t \in Tasks : task[t].status = "DONE"
    /\ status = "CANCELLED" => \A t \in Tasks : task[t].status \in Terminal

\* A task is done because the worker of its last attempt said so: no late, repeated
\* or refused report of another attempt, and no restart, makes it done.
DoneIsReported ==
    \A t \in Tasks : task[t].status = "DONE" =>
        \E r \in reported : r[2] = "success" /\ r[1][1] = t /\ r[1][2] = task[t].attempt

\* What is displayed as finished is finished: the status of the mission is true of its
\* tasks, and the status of a task is what its last worker reported.
ClaimsAreTrue == StatusIsTrue /\ DoneIsReported

\* "On restart, an expired lease is never assumed successful" - and one that has
\* not expired is never given away: a later attempt of a task is leased only when
\* the earlier one has reported or its time is over, whatever restarts and passes
\* come in between.
Over(l) == (\E r \in reported : r[1] = l) \/ l[3] + Timeout <= now

AttemptsDoNotOverlap ==
    [][\A l \in issued' \ issued : \A m \in issued : m[1] = l[1] /\ m[2] < l[2] => Over(m)]_vars

\* "Persistent/unknown failures become blocked for root-cause handling"
\* (docs/architecture/ADR-018-mission-control-task-engine.md:28): such a task is
\* not leased again by the scheduler.
NoBlindRetry ==
    [][Schedule => \A t \in Tasks :
          task[t].status = "BLOCKED" /\ task[t].reason = "root_cause_required" => task'[t].status # "LEASED"]_vars

\* "L4 is owner-required" (ADR-018:51): nothing of a mission that only the owner
\* may authorize is leased.
OwnerMissionsWait == MissionAuthority >= 4 => issued = {}
=============================================================================

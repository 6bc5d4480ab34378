--------------------------- MODULE OfflineCourier ---------------------------
(***************************************************************************)
(* The offline courier (offline_agent_courier.py): a task leased to the    *)
(* laptop is exported as a signed bundle, carried there by hand, executed, *)
(* and its result carried back and imported.  Media are copied, executed   *)
(* again and carried late; meanwhile the manager goes on with the task: it *)
(* expires leases, triages, leases to other workers, verifies and starts   *)
(* over when the definition of the task has changed.                       *)
(*                                                                         *)
(* Export and import load the runtime file, work on what they read and     *)
(* save the whole of it, without a lock and in steps of their own here.  A *)
(* pass of the manager does the same and is one step.                      *)
(*                                                                         *)
(* One task is modelled, with what the passes of the manager do to the     *)
(* fields the courier reads; AgentManager models the passes themselves,    *)
(* for workers that are dispatched to GitHub and are here "cloud".  Bundle *)
(* formats, signatures and digests are taken as intact.                    *)
(***************************************************************************)
EXTENDS Integers, Sequences, FiniteSets

CONSTANTS
    Lease,        \* length of a lease, DEFAULT_LEASE_MINUTES
    OfflineLease, \* offline_courier_lease_minutes
    Alone,        \* nobody saves the runtime file while a courier command is under way
    MaxLeases,    \* bound: leases issued
    MaxImports,   \* bound: results imported
    MaxClock      \* bound: end of time

ASSUME CourierAssumption ==
    Lease \in Nat \ {0} /\ OfflineLease \in Nat \ {0} /\ Alone \in BOOLEAN /\ MaxLeases \in Nat /\ MaxImports \in Nat

VARIABLES
    now,
    task,      \* the task in the runtime file
    command,   \* the courier command under way, and the task as it was loaded
    last,      \* the number of leases issued; a lease_id is the number it was issued as
    bundles,   \* leases whose dispatch bundle is on some medium
    results,   \* <<lease, outcome>> of the result bundles on their way back
    imported,  \* history: the leases and outcomes of the imports that were accepted
    stale,     \* history: leases the manager found expired
    fence      \* history: the end of the lease that was exported last

courierVars == <<now, task, command, last, bundles, results, imported, stale, fence>>
media   == <<bundles, results>>
records == <<imported, stale, fence>>
manager == <<command, media, imported, fence>>   \* what the manager leaves alone

-----------------------------------------------------------------------------
Active == {"LEASED", "RUNNING", "VERIFYING"}
None   == 0    \* no lease, no dispatch, no digest
Never  == -1   \* no lease_expires_at

Fresh == [status |-> "READY", worker |-> "none", producer |-> "none", lease |-> None, expires |-> Never,
          dispatch |-> None, digest |-> None, offline |-> FALSE,
          retried |-> FALSE, analysis |-> FALSE, evidence |-> FALSE]

NoCommand == [op |-> "none", task |-> Fresh, result |-> <<None, "none">>, at |-> Never]

CourierInit ==
    /\ now = 0
    /\ task = Fresh /\ command = NoCommand
    /\ last = 0
    /\ bundles = {} /\ results = {}
    /\ imported = <<>> /\ stale = {} /\ fence = 0

Tick == now < MaxClock /\ now' = now + 1 /\ UNCHANGED <<task, last, stale, manager>>

-----------------------------------------------------------------------------
(* The manager.                                                            *)

\* Where it matters, a pass keeps clear of courier commands.
Clear == Alone => command.op = "none"

\* merge_definition, after the definition of the task has changed.
Redefine ==
    /\ Clear
    /\ task' = Fresh
    /\ UNCHANGED <<now, last, stale, manager>>

\* k, leased to w under a new lease_id.
LeasedTo(k, status, w) == [k EXCEPT !.status = status, !.worker = w, !.lease = last + 1, !.expires = now + Lease]

\* assign_ready_tasks
Assign(w) ==
    /\ Clear /\ task.status = "READY" /\ last < MaxLeases
    /\ task' = [LeasedTo(task, "LEASED", w) EXCEPT !.producer = w]
    /\ last' = last + 1
    /\ UNCHANGED <<now, stale, manager>>

\* dispatch_pending, which leaves the courier's workers out.
Dispatch ==
    /\ Clear /\ task.status \in Active /\ task.worker = "cloud" /\ task.dispatch # task.lease
    /\ task' = [task EXCEPT !.status = IF @ = "LEASED" THEN "RUNNING" ELSE @,
                            !.dispatch = task.lease, !.expires = now + Lease]
    /\ UNCHANGED <<now, last, stale, manager>>

\* Another worker than the producer of k; the cloud has several.
Verifiers(k) == IF k.producer = "laptop" THEN {"cloud"} ELSE {"laptop", "cloud"}

\* record_result on k, with request_verification; nobody may be free to verify.
Record(k, outcome) ==
    \/ outcome = "failure" /\ task' = [k EXCEPT !.status = "TRIAGE"] /\ UNCHANGED last
    \/ /\ outcome = "success" /\ k.status = "VERIFYING"
       /\ task' = [k EXCEPT !.status = "DONE"] /\ UNCHANGED last
    \/ /\ outcome = "success" /\ k.status # "VERIFYING"
       /\ \/ task' = [k EXCEPT !.status = "BLOCKED", !.evidence = TRUE] /\ UNCHANGED last
          \/ /\ last < MaxLeases /\ last' = last + 1
             /\ \E w \in Verifiers(k) : task' = [LeasedTo(k, "VERIFYING", w) EXCEPT !.evidence = TRUE]

\* poll_results finds the artifact of the lease of a cloud worker.
Poll(outcome) ==
    /\ Clear /\ task.status \in {"RUNNING", "VERIFYING"} /\ task.worker = "cloud" /\ task.dispatch = task.lease
    /\ Record(task, outcome)
    /\ UNCHANGED <<now, stale, manager>>

\* expire_stale_leases
Expire ==
    /\ Clear /\ task.status \in Active /\ task.expires <= now
    /\ task' = [task EXCEPT !.status = "TRIAGE", !.worker = "none", !.expires = Never]
    /\ stale' = stale \cup {task.lease}
    /\ UNCHANGED <<now, last, manager>>

\* route_triage: one direct retry, an analyst - never the laptop - or nobody is free.
Triage ==
    /\ Clear /\ task.status = "TRIAGE" /\ last < MaxLeases
    /\ \/ ~task.retried /\ task' = [task EXCEPT !.status = "READY", !.retried = TRUE] /\ UNCHANGED last
       \/ task' = [LeasedTo(task, "RUNNING", "cloud") EXCEPT !.analysis = TRUE] /\ last' = last + 1
       \/ task' = [task EXCEPT !.status = "BLOCKED"] /\ UNCHANGED last
    /\ UNCHANGED <<now, stale, manager>>

\* recover_completed_root_cause_analysis
Requeue ==
    /\ Clear /\ task.analysis /\ task.evidence /\ task.status \in {"VERIFYING", "BLOCKED"}
    /\ task' = [task EXCEPT !.status = "READY", !.worker = "none", !.lease = None, !.expires = Never,
                            !.dispatch = None, !.analysis = FALSE, !.evidence = FALSE]
    /\ UNCHANGED <<now, last, stale, manager>>

-----------------------------------------------------------------------------
(* The courier.                                                            *)

\* The task has no other dispatch and no other export.
Exportable ==
    /\ task.status \in {"LEASED", "RUNNING"} /\ task.worker = "laptop"
    /\ task.dispatch \in {None, task.lease} /\ task.digest \in {None, task.lease}

\* A command has loaded the runtime and its checks are done.
Loads(op, r) == command' = [op |-> op, task |-> task, result |-> r, at |-> now]

\* export_task; again, with a new end of the lease, as often as one likes.
Export ==
    /\ command.op = "none" /\ Exportable
    /\ Loads("export", <<None, "none">>)
    /\ UNCHANGED <<now, task, last, media, records>>

\* The bundle is on its medium.
WriteBundle ==
    /\ command.op = "export"
    /\ bundles' = bundles \cup {command.task.lease}
    /\ command' = [command EXCEPT !.op = "written"]
    /\ UNCHANGED <<now, task, last, results, records>>

\* The runtime is saved as it was loaded, with the task exported.
SaveExport ==
    /\ command.op = "written"
    /\ LET k == command.task
       IN  task' = [k EXCEPT !.status = "RUNNING", !.dispatch = k.lease, !.digest = k.lease, !.offline = TRUE,
                             !.expires = now + OfflineLease]
    /\ fence' = now + OfflineLease
    /\ command' = NoCommand
    /\ UNCHANGED <<now, last, media, imported, stale>>

\* execute_bundle, of any copy and at any time.
Execute(l, outcome) ==
    /\ l \in bundles
    /\ results' = results \cup {<<l, outcome>>}
    /\ UNCHANGED <<now, task, command, last, bundles, records>>

\* Mutant of InTime: a lease counts until the manager looks.
InTimeAlways == task.expires # Never

InTime == task.expires # Never /\ task.expires > now

\* What import_result and ingest_result ask of the result bundle r.
Accepts(r) ==
    /\ task.offline /\ r[1] = task.digest /\ InTime
    /\ r[1] = task.lease /\ r[1] = task.dispatch /\ task.worker = "laptop"

\* import_result, as far as the record of the result.
Import(r) ==
    /\ command.op = "none" /\ Accepts(r) /\ Len(imported) < MaxImports
    /\ Loads("import", r)
    /\ UNCHANGED <<now, task, last, media, records>>

SaveImport ==
    /\ command.op = "import"
    /\ Record(command.task, command.result[2])
    /\ imported' = Append(imported, command.result)
    /\ command' = NoCommand
    /\ UNCHANGED <<now, media, stale, fence>>

\* A command dies before it has saved the runtime; a bundle it wrote remains.
CommandDies ==
    /\ command.op # "none"
    /\ command' = NoCommand
    /\ UNCHANGED <<now, task, last, media, records>>

-----------------------------------------------------------------------------
Outcomes == {"success", "failure"}

CourierNext ==
    \/ Tick \/ Dispatch \/ Expire \/ Triage \/ Requeue \/ Redefine
    \/ \E w \in {"laptop", "cloud"} : Assign(w)
    \/ \E outcome \in Outcomes : Poll(outcome)
    \/ Export \/ WriteBundle \/ SaveExport \/ SaveImport \/ CommandDies
    \/ \E l \in bundles, outcome \in Outcomes : Execute(l, outcome)
    \/ \E r \in results : Import(r)

CourierSpec == CourierInit /\ [][CourierNext]_courierVars

-----------------------------------------------------------------------------
TaskStatuses == {"READY", "TRIAGE", "BLOCKED", "DONE"} \cup Active

\* The tasks there can be after n leases with bundles bs on media.
Tasks(n, bs) ==
    [status : TaskStatuses, worker : {"none", "laptop", "cloud"}, producer : {"none", "laptop", "cloud"},
     lease : 0..n, expires : Int, dispatch : 0..n, digest : {None} \cup bs,
     offline : BOOLEAN, retried : BOOLEAN, analysis : BOOLEAN, evidence : BOOLEAN]

\* Every part of the state has its type; what the runtime calls exported is on a medium.
CourierTypeOK ==
    /\ now \in Nat /\ last \in Nat /\ fence \in Nat
    /\ task \in Tasks(last, bundles)
    /\ command \in [op : {"none", "export", "written", "import"}, task : Tasks(last, bundles),
                   result : ({None} \cup bundles) \X (Outcomes \cup {"none"}), at : Int]
    /\ command.op = "written" => command.task.lease \in bundles
    /\ command.op = "import" => command.result \in results
    /\ bundles \subseteq 1..last /\ results \subseteq bundles \X Outcomes
    /\ imported \in Seq(bundles \X Outcomes) /\ stale \subseteq 1..last

\* "Fenced": whatever copies are carried back when, a result is imported only for the
\* newest lease of the task, if it was there before that lease was over, and before
\* the manager gave it up - never into the work of another worker or into a
\* verification.
ImportsAreCurrent ==
    [][imported' # imported =>
          LET l == imported'[Len(imported')][1] IN l = last /\ l \notin stale /\ command.at < fence]_courierVars

\* "replayed result bundle is rejected after first import"
\* (tests/test_offline_agent_courier.py:164).  A failure leaves lease, worker and expiry as
\* they are, and import_result asks for no status: its bundle is imported again.
ResultsAreImportedOnce == \A m, n \in DOMAIN imported : imported[m] = imported[n] => m = n
=============================================================================

---------------------------- MODULE AgentManager ----------------------------
(***************************************************************************)
(* The capability-aware agent manager: the five-minute coordinator job     *)
(* (fast-agent-coordinator.yml) that polls worker results, advances the    *)
(* mission DAG and dispatches new leases, and the workers that execute a   *)
(* lease and upload one result artifact for it.                            *)
(*                                                                         *)
(* A job restores the cached runtime, runs agent_transport --mode poll,    *)
(* agent_manager_runner and agent_transport --mode dispatch, each of which *)
(* reads the runtime file and rewrites it as its last act, and saves the   *)
(* cache even when a step failed.  Jobs never overlap (concurrency group), *)
(* but workers upload at any time, calls to GitHub fail after taking       *)
(* effect, and a runner that is lost takes its runtime file with it.       *)
(*                                                                         *)
(* Tasks are the generic ones: not numerical Research, not source-system   *)
(* development or economic review, not verifier-only QA.  Routing scores   *)
(* and priorities are abstracted: any eligible worker may be the best one. *)
(***************************************************************************)
EXTENDS Integers, FiniteSets, FiniteSetsExt

CONSTANTS
    Tasks,             \* tasks of the mission definition
    Workers,           \* enabled workers
    Nobody,            \* no worker
    Dependencies,      \* task -> tasks it depends on
    CanDo,             \* task -> workers eligible for it but for their load
    Verifiers,         \* workers with verifier = true
    Analysts,          \* workers with the two root-cause capabilities
    Capacity,          \* worker -> max_concurrent_tasks
    MaxParallel,       \* policy.max_parallel_tasks
    OwnerTasks,        \* L4 tasks (authority 4)
    BoundedRecovery,   \* DETERMINISTIC_SPECIALIZED_RECOVERY_WORKLOADS
    FailureClasses,    \* failure classes workers report
    RejectedResults,   \* BOOLEAN: may an artifact be one that ingest_result rejects
    MaxFaults          \* bound: failed, late, lost or repeated things in a run

ASSUME WorkersAssumption  == Nobody \notin Workers
ASSUME RoutingAssumption  == /\ Dependencies \in [Tasks -> SUBSET Tasks]
                             /\ CanDo \in [Tasks -> SUBSET Workers]
                             /\ Verifiers \subseteq Workers
                             /\ Analysts \subseteq Workers
ASSUME CapacityAssumption == /\ Capacity \in [Workers -> Nat \ {0}]
                             /\ MaxParallel \in Nat \ {0}
                             /\ MaxFaults \in Nat
ASSUME TasksAssumption    == /\ IsFiniteSet(Tasks)
                             /\ OwnerTasks \subseteq Tasks
                             /\ BoundedRecovery \subseteq Tasks
                             /\ FailureClasses \subseteq {"transient", "specialized", "other"}

VARIABLES
    cache,      \* durable runtime: the tasks as the last job saved them
    file,       \* agent_manager_runtime.json on the runner
    config,     \* the tasks as the running step holds them in memory
    pc,         \* step of the coordinator job
    todo,       \* tasks the loop of the running step has not reached
    renewed,    \* tasks leased during this job, whose lease cannot be stale yet
    grants,     \* history: lease -> the worker and the role it was issued for
    posted,     \* leases whose worker run was started at GitHub
    artifacts,  \* lease -> newest result artifact uploaded for it
    faults      \* number of faults so far

vars == <<cache, file, config, pc, todo, renewed, grants, posted, artifacts, faults>>
jobVars    == <<cache, pc, todo, renewed>>
workerVars == <<posted, artifacts>>

-----------------------------------------------------------------------------
(* Tasks and leases.  A lease is <<task, n>>; a task record holds n.       *)

NoLease == 0
Leases  == Tasks \X (Nat \ {0})

Active   == {"LEASED", "RUNNING", "VERIFYING"}
Statuses == Active \cup {"PENDING", "READY", "TRIAGE", "BLOCKED", "DONE", "OWNER_REQUIRED"}
Reasons  == {"none", "owner", "no_verifier", "no_analyst", "specialized"}
Roles    == {"work", "verify", "rca"}

TaskRecord ==
    [status   : Statuses,
     worker   : Workers \cup {Nobody},      \* assigned_worker
     producer : Workers \cup {Nobody},
     verifier : Workers \cup {Nobody},
     lease    : Nat,                        \* lease_id
     dispatch : Nat,                        \* dispatch_id: the lease it was made for
     rca      : BOOLEAN,                    \* triage_mode = "root_cause_first"
     failure  : FailureClasses \cup {"none"},
     retries  : 0..1,                       \* transient_retries
     evidence : Nat,                        \* result_evidence: the lease it came from
     findings : Nat,                        \* triage_evidence: the lease it came from
     blocked  : Reasons]                    \* blocked_reason

Result == [outcome : {"success"}, class : {"none"}]
          \cup [outcome : {"failure"}, class : FailureClasses]
          \cup [outcome : {"rejected"}, class : {"none"}]

Fresh == [status |-> "PENDING", worker |-> Nobody, producer |-> Nobody, verifier |-> Nobody,
          lease |-> NoLease, dispatch |-> NoLease, rca |-> FALSE, failure |-> "none",
          retries |-> 0, evidence |-> NoLease, findings |-> NoLease, blocked |-> "none"]

ActiveTasks(c) == {t \in Tasks : c[t].status \in Active}

\* active_worker_load(config, exclude_task)
Load(c, w, exclude) == Cardinality({t \in ActiveTasks(c) \ exclude : c[t].worker = w})

\* The leases the tasks of c hold.
Held(c) == {<<t, c[t].lease>> : t \in {u \in Tasks : c[u].lease # NoLease}}

\* uuid4: a lease that no runtime and no worker run has ever seen.
Seen       == posted \cup Held(cache) \cup Held(file) \cup Held(config)
NewLease(t) == 1 + Max({NoLease} \cup {l[2] : l \in {m \in Seen : m[1] = t}})

\* A task given a new lease for worker w: lease_id, heartbeat_at, lease_expires_at.
Leased(c, t, w, status) ==
    [c[t] EXCEPT !.status = status, !.worker = w, !.lease = NewLease(t)]

\* Record what the new leases of the tasks of S are for, as c grants them.
Grant(S, c, roleOf) ==
    LET new == {<<t, NewLease(t)>> : t \in S}
    IN  grants' = [l \in new \cup (Seen \cap DOMAIN grants) |->
                      IF l \in new THEN [worker |-> c[l[1]].worker, role |-> roleOf[l[1]]]
                      ELSE grants[l]]

Init ==
    /\ cache = [t \in Tasks |-> Fresh]
    /\ file = cache
    /\ config = cache
    /\ pc = "idle"
    /\ todo = {}
    /\ renewed = {}
    /\ grants = [l \in {} |-> {}]
    /\ posted = {}
    /\ artifacts = [l \in {} |-> {}]
    /\ faults = 0

Fault(n) == faults + n <= MaxFaults /\ faults' = faults + n

-----------------------------------------------------------------------------
(* Passes of agent_manager.cycle and agent_manager_runner over the tasks.  *)

\* enforce_owner_boundaries
EnforceOwner(c) ==
    [t \in Tasks |->
        IF t \in OwnerTasks
        THEN [c[t] EXCEPT !.status = "OWNER_REQUIRED", !.blocked = "owner",
                          !.worker = Nobody, !.lease = NoLease]
        ELSE c[t]]

\* recover_completed_root_cause_analysis: an analysed task is work again.
AnalysisCompleted(r) ==
    /\ r.rca
    /\ r.status \in {"VERIFYING", "BLOCKED"}
    /\ r.evidence # NoLease

RecoverAnalysed(c) ==
    [t \in Tasks |->
        IF AnalysisCompleted(c[t])
        THEN [c[t] EXCEPT !.status = "READY", !.worker = Nobody, !.verifier = Nobody,
                          !.lease = NoLease, !.dispatch = NoLease, !.rca = FALSE,
                          !.findings = c[t].evidence, !.evidence = NoLease,
                          !.blocked = "none"]
        ELSE c[t]]

\* recover_bounded_specialized_reasoning
RecoverBounded(c) ==
    [t \in Tasks |->
        IF /\ t \in BoundedRecovery
           /\ c[t].failure = "specialized"
           /\ c[t].status = "BLOCKED"
           /\ c[t].blocked = "specialized"
        THEN [c[t] EXCEPT !.status = "READY", !.blocked = "none", !.rca = FALSE]
        ELSE c[t]]

\* block_unroutable_specialized_reasoning
BlockSpecialized(c) ==
    [t \in Tasks |->
        IF /\ c[t].failure = "specialized"
           /\ t \notin BoundedRecovery
           /\ c[t].status \in {"TRIAGE", "READY", "BLOCKED"}
           /\ ~(c[t].status = "BLOCKED" /\ c[t].blocked = "specialized")
        THEN [c[t] EXCEPT !.status = "BLOCKED", !.blocked = "specialized", !.rca = FALSE,
                          !.worker = Nobody, !.verifier = Nobody,
                          !.lease = NoLease, !.dispatch = NoLease]
        ELSE c[t]]

\* expire_stale_leases, for the leases in late: lease_id is kept.
Expire(c, late) ==
    [t \in Tasks |->
        IF t \in late THEN [c[t] EXCEPT !.status = "TRIAGE", !.worker = Nobody] ELSE c[t]]

\* route_triage: one direct retry after a transient failure, else an analyst
\* that is not the producer, else BLOCKED.
RetriesDirectly(r) == r.failure = "transient" /\ r.retries < 1

Triaged(c) == {t \in Tasks : c[t].status = "TRIAGE" /\ ~RetriesDirectly(c[t])}

AnalystsFor(c, t) == Analysts \ {c[t].producer}

RouteTriage(c, analyst) ==
    [t \in Tasks |->
        IF c[t].status # "TRIAGE" THEN c[t]
        ELSE IF RetriesDirectly(c[t])
        THEN [c[t] EXCEPT !.status = "READY", !.retries = 1]
        ELSE IF analyst[t] = Nobody
        THEN [c[t] EXCEPT !.status = "BLOCKED", !.blocked = "no_analyst"]
        ELSE [Leased(c, t, analyst[t], "RUNNING") EXCEPT !.rca = TRUE]]

\* Which analysts the loop over the tasks may end up with: nobody is loaded
\* beyond its capacity, and a task is left without only if all are full.
AnalystChoices(c) ==
    {a \in [Triaged(c) -> Workers \cup {Nobody}] :
        \A t \in Triaged(c) :
            \/ /\ a[t] \in AnalystsFor(c, t)
               /\ Load(RouteTriage(c, a), a[t], {}) <= Capacity[a[t]]
            \/ /\ a[t] = Nobody
               /\ \A w \in AnalystsFor(c, t) : Load(RouteTriage(c, a), w, {}) >= Capacity[w]}

\* Mutant of ReleaseReady: a dependency that is being verified counts as done.
ReleaseOnUnverified(c) ==
    [t \in Tasks |->
        IF c[t].status = "PENDING" /\ \A d \in Dependencies[t] : c[d].status \in {"VERIFYING", "DONE"}
        THEN [c[t] EXCEPT !.status = "READY"]
        ELSE c[t]]

\* release_ready_tasks
ReleaseReady(c) ==
    [t \in Tasks |->
        IF c[t].status = "PENDING" /\ \A d \in Dependencies[t] : c[d].status = "DONE"
        THEN [c[t] EXCEPT !.status = "READY"]
        ELSE c[t]]

\* assign_ready_tasks: new work leases, up to max_parallel_tasks active tasks.
Ready(c) == {t \in Tasks : c[t].status = "READY"}

AssignReady(c, worker) ==
    [t \in Tasks |->
        IF t \in Ready(c) /\ worker[t] # Nobody
        THEN [Leased(c, t, worker[t], "LEASED") EXCEPT !.producer = worker[t]]
        ELSE c[t]]

WorkerChoices(c) ==
    {a \in [Ready(c) -> Workers \cup {Nobody}] :
        LET d == AssignReady(c, a)
        IN  /\ \A t \in Ready(c) : a[t] # Nobody =>
                   a[t] \in CanDo[t] /\ Load(d, a[t], {}) <= Capacity[a[t]]
            /\ d # c => Cardinality(ActiveTasks(d)) <= MaxParallel
            /\ \A t \in Ready(c) : a[t] = Nobody =>
                   \/ Cardinality(ActiveTasks(d)) >= MaxParallel
                   \/ \A w \in CanDo[t] : Load(d, w, {}) >= Capacity[w]}

-----------------------------------------------------------------------------
(* The coordinator job.                                                    *)

\* actions/cache/restore, then agent_transport --mode poll loads the runtime.
RESULT_WAITING == {"RUNNING", "VERIFYING"}

Awaited(c) == {t \in Tasks : /\ c[t].status \in RESULT_WAITING
                             /\ c[t].dispatch # NoLease
                             /\ c[t].dispatch = c[t].lease}

StartJob ==
    /\ pc = "idle"
    /\ pc' = "poll"
    /\ file' = cache
    /\ config' = EnforceOwner(cache)
    /\ todo' = Awaited(config')
    /\ UNCHANGED <<cache, renewed, grants, workerVars, faults>>

Lease(t) == <<t, config[t].lease>>
HasArtifact(t, outcome) == Lease(t) \in DOMAIN artifacts /\ artifacts[Lease(t)].outcome = outcome

\* find_result found no artifact named after the lease.
PollNothing(t) ==
    /\ pc = "poll" /\ t \in todo
    /\ Lease(t) \notin DOMAIN artifacts
    /\ todo' = todo \ {t}
    /\ UNCHANGED <<cache, pc, renewed, file, config, grants, workerVars, faults>>

\* ingest_result -> record_result(outcome = failure)
PollFailure(t) ==
    /\ pc = "poll" /\ t \in todo
    /\ HasArtifact(t, "failure")
    /\ config' = [config EXCEPT ![t].status = "TRIAGE",
                                ![t].failure = artifacts[Lease(t)].class]
    /\ todo' = todo \ {t}
    /\ UNCHANGED <<cache, pc, renewed, file, grants, workerVars, faults>>

\* ingest_result -> record_result(outcome = success) of a verifying lease.
PollVerified(t) ==
    /\ pc = "poll" /\ t \in todo
    /\ HasArtifact(t, "success")
    /\ config[t].status = "VERIFYING"
    /\ config' = [config EXCEPT ![t].status = "DONE"]
    /\ todo' = todo \ {t}
    /\ UNCHANGED <<cache, pc, renewed, file, grants, workerVars, faults>>

\* Mutant of VerifiersFor: the load of the verifiers is not looked at.
VerifiersOfAnyLoad(t) == (CanDo[t] \cap Verifiers) \ {config[t].producer}

\* Mutant of VerifiersFor: the producer may verify its own work.
VerifiersWithProducer(t) == {w \in CanDo[t] \cap Verifiers : Load(config, w, {t}) < Capacity[w]}

\* eligible_workers(verifier_only = True), the task's own lease not counted.
VerifiersFor(t) ==
    {w \in (CanDo[t] \cap Verifiers) \ {config[t].producer} : Load(config, w, {t}) < Capacity[w]}

\* ingest_result -> record_result(success) -> request_verification: a new
\* lease for a verifier, or BLOCKED.
PollProduced(t) ==
    /\ pc = "poll" /\ t \in todo
    /\ HasArtifact(t, "success")
    /\ config[t].status # "VERIFYING"
    /\ LET produced == [config EXCEPT ![t].evidence = config[t].lease]
       IN  \/ /\ VerifiersFor(t) = {}
              /\ config' = [produced EXCEPT ![t].status = "BLOCKED", ![t].blocked = "no_verifier"]
              /\ UNCHANGED <<grants, renewed>>
           \/ \E w \in VerifiersFor(t) :
              /\ config' = [produced EXCEPT ![t] =
                                [Leased(produced, t, w, "VERIFYING") EXCEPT !.verifier = w]]
              /\ Grant({t}, config', [x \in {t} |-> "verify"])
              /\ renewed' = renewed \cup {t}
    /\ todo' = todo \ {t}
    /\ UNCHANGED <<cache, pc, file, workerVars, faults>>

\* ingest_result rejects the artifact, or a call of find_result to GitHub
\* raises: the step ends without _save.
PollRaises(t) ==
    /\ pc = "poll" /\ t \in todo
    /\ IF HasArtifact(t, "rejected") THEN UNCHANGED faults ELSE Fault(1)
    /\ pc' = "save"
    /\ config' = file
    /\ todo' = {}
    /\ renewed' = {}
    /\ UNCHANGED <<cache, file, grants, workerVars>>

EndPoll ==
    /\ pc = "poll" /\ todo = {}
    /\ pc' = "manage"
    /\ file' = config
    /\ UNCHANGED <<cache, todo, renewed, config, grants, workerVars, faults>>

\* Mutant of Undispatched: a task is dispatched once, not once per lease.
NeverDispatched(c) == {t \in Tasks : /\ c[t].status \in Active
                                     /\ c[t].lease # NoLease
                                     /\ c[t].worker # Nobody
                                     /\ c[t].dispatch = NoLease}

\* agent_transport --mode dispatch: leases without a dispatch of their own.
Undispatched(c) == {t \in Tasks : /\ c[t].status \in Active
                                  /\ c[t].lease # NoLease
                                  /\ c[t].worker # Nobody
                                  /\ c[t].dispatch # c[t].lease}

\* agent_manager_runner.main before am.cycle, and its first passes.
Repaired(c) == EnforceOwner(BlockSpecialized(RecoverBounded(RecoverAnalysed(c))))

\* agent_manager_runner.main; late are the leases found stale.
Manage ==
    /\ pc = "manage"
    /\ \E late \in SUBSET (ActiveTasks(Repaired(file)) \ renewed) :
          LET c == Expire(Repaired(file), late)
          IN  /\ Fault(Cardinality(late))
              /\ \E analyst \in AnalystChoices(c) :
                    LET d == ReleaseReady(RouteTriage(c, analyst))
                        analysed == {t \in Triaged(c) : analyst[t] # Nobody}
                    IN  \E worker \in WorkerChoices(d) :
                           LET assigned == {t \in Ready(d) : worker[t] # Nobody}
                           IN  /\ config' = AssignReady(d, worker)
                               /\ Grant(analysed \cup assigned, config',
                                        [t \in Tasks |-> IF t \in analysed THEN "rca" ELSE "work"])
    /\ file' = config'
    /\ pc' = "dispatch"
    /\ todo' = Undispatched(config')
    /\ renewed' = {}
    /\ UNCHANGED <<cache, workerVars>>

\* The manager step fails, as when a call of the research gate to GitHub
\* does: the runtime file stays, later steps are skipped, the cache is saved.
ManageRaises ==
    /\ pc = "manage"
    /\ Fault(1)
    /\ pc' = "save"
    /\ renewed' = {}
    /\ UNCHANGED <<cache, todo, file, config, grants, workerVars>>

\* Mutant of DispatchTask: the worker run is started under the previous dispatch_id.
DispatchPreviousId(t) ==
    /\ pc = "dispatch" /\ t \in todo
    /\ posted' = posted \cup {<<t, config[t].dispatch>>}
    /\ config' = [config EXCEPT ![t].dispatch = config[t].lease,
                                ![t].status = IF @ = "LEASED" THEN "RUNNING" ELSE @]
    /\ todo' = todo \ {t}
    /\ UNCHANGED <<cache, pc, renewed, file, grants, artifacts, faults>>

\* dispatch_task
DispatchTask(t) ==
    /\ pc = "dispatch" /\ t \in todo
    /\ posted' = posted \cup {Lease(t)}
    /\ config' = [config EXCEPT ![t].dispatch = config[t].lease,
                                ![t].status = IF @ = "LEASED" THEN "RUNNING" ELSE @]
    /\ todo' = todo \ {t}
    /\ UNCHANGED <<cache, pc, renewed, file, grants, artifacts, faults>>

\* The POST of dispatch_task raises, before or after it took effect; nothing
\* of the loop is saved.
DispatchRaises(t) ==
    /\ pc = "dispatch" /\ t \in todo
    /\ Fault(1)
    /\ posted' \in {posted, posted \cup {Lease(t)}}
    /\ pc' = "save"
    /\ config' = file
    /\ todo' = {}
    /\ UNCHANGED <<cache, renewed, file, grants, artifacts>>

EndDispatch ==
    /\ pc = "dispatch" /\ todo = {}
    /\ pc' = "save"
    /\ file' = config
    /\ UNCHANGED <<cache, todo, renewed, config, grants, workerVars, faults>>

\* actions/cache/save, if: always()
SaveCache ==
    /\ pc = "save"
    /\ pc' = "idle"
    /\ cache' = file
    /\ UNCHANGED <<todo, renewed, file, config, grants, workerVars, faults>>

\* The runner is lost with everything it did not put into the cache.
RunnerLost ==
    /\ pc # "idle"
    /\ Fault(1)
    /\ pc' = "idle"
    /\ file' = cache
    /\ config' = cache
    /\ todo' = {}
    /\ renewed' = {}
    /\ UNCHANGED <<cache, grants, workerVars>>

-----------------------------------------------------------------------------
(* A worker run uploads its result; a run that was dispatched twice, or is *)
(* run again, uploads another one, and find_result takes the newest.       *)
Upload(l, result) ==
    /\ l \in posted
    /\ result.outcome = "rejected" => RejectedResults
    /\ faults' = faults + (IF result.outcome = "success" THEN 0 ELSE 1)
                        + (IF l \in DOMAIN artifacts THEN 1 ELSE 0)
    /\ faults' <= MaxFaults
    /\ artifacts' = [m \in DOMAIN artifacts \cup {l} |-> IF m = l THEN result ELSE artifacts[m]]
    /\ UNCHANGED <<jobVars, file, config, grants, posted>>

Poll == \E t \in Tasks : \/ PollNothing(t) \/ PollFailure(t) \/ PollVerified(t)
                         \/ PollProduced(t) \/ PollRaises(t)

Dispatch == \E t \in Tasks : DispatchTask(t) \/ DispatchRaises(t)

Coordinator ==
    \/ StartJob
    \/ Poll
    \/ EndPoll
    \/ Manage
    \/ ManageRaises
    \/ Dispatch
    \/ EndDispatch
    \/ SaveCache
    \/ RunnerLost

Next == Coordinator \/ \E l \in posted, result \in Result : Upload(l, result)

Spec == Init /\ [][Next]_vars

\* The workflow runs every five minutes and its steps end; a started worker
\* run uploads some result.
Fairness ==
    /\ WF_vars(StartJob \/ Poll \/ EndPoll \/ Manage \/ EndDispatch \/ SaveCache
               \/ \E t \in Tasks : DispatchTask(t))
    /\ \A t \in Tasks :
          WF_vars(\E l \in posted \ DOMAIN artifacts, result \in Result :
                      l[1] = t /\ Upload(l, result))

FairSpec == Spec /\ Fairness

-----------------------------------------------------------------------------
(* Properties.                                                             *)

Configs == {cache, file, config}

TypeOK ==
    /\ cache \in [Tasks -> TaskRecord]
    /\ file \in [Tasks -> TaskRecord]
    /\ config \in [Tasks -> TaskRecord]
    /\ pc \in {"idle", "poll", "manage", "dispatch", "save"}
    /\ todo \subseteq Tasks
    /\ renewed \subseteq Tasks
    /\ grants \in [DOMAIN grants -> [worker : Workers, role : Roles]]
    /\ posted \cup UNION {Held(c) : c \in Configs} \subseteq DOMAIN grants
    /\ DOMAIN grants \subseteq Leases
    /\ DOMAIN artifacts \subseteq posted
    /\ artifacts \in [DOMAIN artifacts -> Result]
    /\ faults \in 0..MaxFaults

\* Leases of every kind together (work, verification, root-cause analysis)
\* never load a worker beyond max_concurrent_tasks, and never keep more than
\* max_parallel_tasks in progress, triage included.
WorkersWithinCapacity ==
    \A c \in Configs :
        /\ \A w \in Workers : Load(c, w, {}) <= Capacity[w]
        /\ Cardinality({t \in Tasks : c[t].status \in Active \cup {"TRIAGE"}}) <= MaxParallel

\* A task is DONE only on the result of a work lease, accepted by a verify
\* lease that another worker held: neither an analysis nor a superseded
\* lease's result completes it.
IndependentlyVerified ==
    \A c \in Configs : \A t \in Tasks : c[t].status = "DONE" =>
        LET produced == <<t, c[t].evidence>>
            verified == <<t, c[t].lease>>
        IN  /\ {produced, verified} \subseteq DOMAIN artifacts
            /\ grants[produced].role = "work"
            /\ grants[verified].role = "verify"
            /\ grants[produced].worker # grants[verified].worker

\* No task is worked on before everything it depends on is verified, whatever
\* state a lost runner rolls the runtime back to.
DependenciesFirst ==
    \A c \in Configs : \A t \in Tasks :
        c[t].status \notin {"PENDING", "OWNER_REQUIRED"} =>
            \A d \in Dependencies[t] : c[d].status = "DONE"

\* "Turn successful RCA work back into original-task work instead of false
\* completion": what is filed as triage evidence is the result of an analysis.
FindingsAreAnalyses ==
    \A t \in Tasks : cache[t].findings # NoLease =>
        grants[<<t, cache[t].findings>>].role = "rca"

\* A task nothing more will happen to without an owner or a new definition.
Settled(t) ==
    \/ cache[t].status \in {"DONE", "OWNER_REQUIRED", "BLOCKED"}
    \/ cache[t].status = "PENDING"
       /\ \E d \in Dependencies[t] : cache[d].status \in {"OWNER_REQUIRED", "BLOCKED", "PENDING"}

\* Every task settles: no lease, lost runner, late or repeated result keeps it
\* in progress forever.
EveryTaskSettles == \A t \in Tasks : <>[]Settled(t)

\* "At least every five minutes, the coordinator must inspect active work":
\* the manager step keeps running.
ManagerKeepsRunning == []<>(pc = "manage")
=============================================================================

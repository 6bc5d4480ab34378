# NEXUS research automation: TLA+ models, checks and proofs

NEXUS (the repository this directory belongs to) is a research, backtest and
paper-trading platform whose core is not numerical but *custodial*: missions of
tasks are kept in a durable store, leased to workers, fenced, independently
verified and paid for under a hard budget; jobs go through a queue on the local
node; and the Paper journal is written by exactly one of two laptops, on which a
desk and a protective-exit loop share it. This project models those custodial
parts in TLA+, checks small instances of them with TLC and proves the central
properties for every instance with TLAPS.

`PROJECT.json` lists the components, the runs, the mutants that show each
property can fail, the hazards, the theorems, and for every definition the source
lines it models.

## 1. Inventory

Paths are relative to the repository root. "Hard" names what makes the part
difficult to test.

| Component | State | Operations | Hard | Correct when |
|---|---|---|---|---|
| **Durable state store** `phase5_state_store.py` | SQLite table of snapshots of a mission: generation, parent, digests, kind, quarantine list | `load_current`, `compare_and_swap`, `recover_to_previous_valid` | concurrent supervisors, rows damaged in place, recoveries of recoveries | no acknowledged update is lost, a quarantined generation stays out, damage shows |
| **Durable runner** `phase5_durable_runner.py` | a process's loaded payload; the summary file | `cycle_durable`, `recover_durable` | read and write in different transactions, crash between commit and summary | a cycle acts as one atomic update; a summary names a committed state |
| **Agent manager** `agent_manager.py`, `agent_manager_runner.py` | the task records of the runtime file: status, lease, producer, verifier, triage fields | `cycle` (expire, triage, release, assign), `record_result`, the recoveries of the runner | late, lost and repeated results, expiring leases, one retry budget for three kinds of lease | capacity, dependencies, independence of verification, every task settles |
| **Agent transport** `agent_transport.py`, coordinator workflow, `scripts/agent_task_executor.py` | the cached runtime, dispatch ids, artifacts at GitHub | poll, ingest, dispatch, restore and save of the cache | calls that fail after taking effect, lost runners, malformed artifacts | one broken task does not stop the others |
| **Attempt fencing** `phase5_attempts.py` | fence generation, active attempt, attempt history of a task | `begin_attempt`, `accept_result` | superseded workers, repeated results, recovery of the store | only the newest attempt's result is accepted, once |
| **Typed verification** `phase5_verification.py` | verification evidence of a task | `build_verification_manifest`, `accept_verification` | manifests older than the registry or the mission | a task completes only on a passing, current, independent manifest |
| **Mission contract** `phase5_mission_contract.py` | mission revision, spec digests | `merge_compatible_runtime` | runtime state carried over to a changed task | authority granted for one spec is never used for another |
| **Paid-provider budget** `deepseek_provider.py` | the usage ledger, its sentinel, a kernel lock | `chat` = reserve, send, reconcile | processes dying between the steps, power loss, month end | the cap holds; unsettled requests stay reserved |
| **External Paper arbiter** `nexus_external_paper_arbiter.py` | SQLite: epoch, permit, used nonces | `issue`, `current`, `observe` | slow or lying controller, lost answers, repeated requests | leases are disjoint, the peer is off |
| **Paper writer fence** `nexus_paper_writer_fence.py` | fence-state file and lock file of a laptop; the guard of a process | `acquire_writer_guard`, `assert_authority` | processes of one laptop racing, unsynced rename | one guard per epoch, retired guards stay retired |
| **Paper runtime and journal** `product_runtime.py`, `product_control_runtime.py`, `paper_event_store.py`, `paper_execution.py`, `deterministic_risk.py` | the event journal, its temporary file and its replay | account, orders, session and kill switch | whole-journal rewrite under a lock of one process, deaths between write and rename, exits dated in the past | the journal is a log that only grows, and lawful at every record |
| **Protective-exit loop** `nexus_product_paper_protective_exit*.py` | cursor file, positions read at the start of a cycle | `run_cycle`, `evaluate_protective_exit` | a replay of candles beside a desk that trades, cursors that lag, cycles that raise again and again | every exit has a candle of its own position, no touch is forgotten |
| **Mission control** `mission_control.py` | missions: tasks, leases, attempts, commands | `create_mission`, `schedule`, `mark_running`, `record_result`, `apply_command`, `reconcile_restart` | late reports, restarts, commands in any order, the deadline | limits and dependencies hold, what is claimed is true, attempts do not overlap |
| **Local task queue** `task_queue.py` | directories of job files, a lock file, running commands | `enqueue`, `acquire_lock`, `run_one`, `worker` | a worker killed anywhere leaves its lock, its job or its command; commands may hang | commands do not overlap, no job runs twice, a fault strands one job at most |
| **Offline courier** `offline_agent_courier.py` | offline fields of a task, bundles on media | `export_task`, `execute_bundle`, `import_result` | copied and late media, leases that end while a bundle travels, half-done commands, a manager that saves the same file | a result is imported for the newest lease, in time |
| Verified execution cycle `nexus_verified_execution_cycle.py` | none between runs | `run_cycle` | - | one straight-line behaviour of `Phase5Attempts` |
| Nexus event store `nexus_event_store.py` | hash-chained event file | `append` | read-validate-replace without a lock of its own | as the Paper journal: only with one writer |

The other components (registries, gap repair, orchestrators, trading loops,
validators, servers, collectors, research code, backup tools, workflows) are in
`PROJECT.json` with the reason they are left out.

How the parts interact:

```
  coordinator job (every 5 min)            supervisors / operators
  poll -> manager -> dispatch              cycle_durable / recover_durable
     |  cached runtime file                      |  generations
  AgentManager ----- same cycle() ----->  Phase5StateStore  (implements MissionRegister)
     |  leases, artifacts                        |  one task of the payload
     |                                    Phase5Attempts (fencing + verification)
     +-- GitHub runs, paid provider (DeepSeekBudget)
     +-- laptop, media by hand (OfflineCourier)

  PaperWriterFence (implements SingleWriter)     MissionControl: a queue of missions
     |  authorizes every write of                TaskQueue: shell jobs of the node
  PaperJournal (implements PaperLog): desk and protective-exit loop
```

* `Phase5StateStore` shows that a whole read-modify-write cycle is one atomic
  update. `Phase5Attempts` uses exactly that: each of its steps is one durable
  update of the task, and its `Recover` is the store's recovery.
* `AgentManager` models what a cycle computes, around the file-based runtime of the
  workflow, where there is no compare-and-swap but a concurrency group.
* `PaperWriterFence` ends in the write of `ProductRuntime._write_events`;
  `PaperJournal` is what happens inside that write and around it on one laptop.
* `OfflineCourier` takes one task of the manager's runtime, with what the passes of
  `AgentManager` do to the fields the courier reads.
* `MissionControl` and `TaskQueue` share no state with the others.

## 2. Modules

| Module | Models | Lines of the source it reads |
|---|---|---|
| `Phase5StateStore` | store and runner, crashes, damage | `phase5_state_store.py`, `phase5_durable_runner.py` |
| `MissionRegister` | abstract: one mission state, updated atomically | what `Phase5StateStore` promises |
| `AgentManager` | coordinator job, manager passes, workers | `agent_manager*.py`, `agent_transport.py`, `fast-agent-coordinator.yml`, `agent_task_executor.py` |
| `Phase5Attempts` | one task: attempts, results, manifests, revisions, recoveries | `phase5_attempts.py`, `phase5_verification.py`, `phase5_mission_contract.py` |
| `DeepSeekBudget` | ledger, lock, fsyncs, charges, months | `deepseek_provider.py` |
| `PaperWriterFence` | arbiter, controller, laptops, guards | `nexus_external_paper_arbiter.py`, `nexus_paper_writer_fence.py` |
| `SingleWriter` | abstract: an epoch has one owner, who alone writes | what `PaperWriterFence` promises |
| `PaperJournal` | journal, desk, protective-exit loop, crashes and failing writes | `product_runtime.py`, `product_control_runtime.py`, `paper_event_store.py`, `paper_execution.py`, `deterministic_risk.py`, `nexus_product_paper_protective_exit*.py` |
| `PaperLog` | abstract: a log in order of time that grows by one record | what `PaperJournal` promises |
| `MissionControl` | one mission, its workers, operators and clock | `mission_control.py` |
| `TaskQueue` | directories, lock, workers, commands | `task_queue.py` |
| `OfflineCourier` | one task, bundles and results on media, the manager's passes | `offline_agent_courier.py`, `agent_manager*.py`, `agent_transport.py` |
| `MC*` | instances for TLC | |
| `*Proofs` | theorems and proofs: `Phase5Proofs` of store and attempts, `HandoffProofs` of queue and courier, the others of the module they name | |
| `FiniteTheorems` | facts about sets of numbers and finite sets, and sums, that the proofs share | |

**Phase5StateStore.** `rows` is the table, `tip` the newest generation, and
`pc`, `expected`, `view`, `record` the local state of each process. A payload is the
set of supervisor updates in it, so that "lost" has a meaning. A store method is one
SQLite transaction and therefore one action, with one action per outcome
(`CompareAndSwap`, `CompareAndSwapNoop`, `CompareAndSwapFails`); a cycle is several,
with crashes anywhere between. `Valid` is `_validate_row` with its recursion up the
parent chain, written as the existence of a closed set of rows so that it needs no
recursion. Damage is `Rot` (the row no longer parses or no longer matches its
digest) and `Rewrite` (payload and digest replaced consistently). Digests are
injective; the size limit and the JSON strictness rules are part of "not canonical".

**AgentManager.** The runtime exists three times, as in the job: `cache` (durable
between jobs), `file` (on the runner) and `config` (in the memory of the running
step). A step that raises leaves `file` as it was, and the cache is saved
regardless (`if: always()`); a lost runner loses `file`. Each pass of `cycle` is an
operator from task records to task records, and `Manage` composes them in the order
of `main`. Routing scores are abstracted to a choice among eligible workers that
respects the load. Lease ids are numbers, new to everything that still refers to
one. Numerical Research tasks, source-system development, economic reviews and
verifier-only QA tasks go through code of their own that is not modelled.

**Phase5Attempts.** One task record, its durable past, the registry and the
manifests in flight. `issued`, `newest` and `accepted` are history. An attempt id is
the tuple of what is hashed into it. A rejected call raises before it changed
anything and is no step.

**DeepSeekBudget.** `ledger` is what processes read, `durable` what a power loss
leaves, and `save_ledger` is the sequence replace, fsync, sentinel it is in the code,
under the lock. `Charge` is the provider's side: it charges when the request is
sent, whether or not the answer arrives. Amounts are small integers.

**PaperWriterFence.** A transaction of the arbiter (`txn`) is open from
`BEGIN IMMEDIATE` to commit or rollback, with the call of the controller in the
middle, and time passes anywhere. The controller may act and report less than it was asked,
fail, or repeat an old observation; the checks of `observe` are `Observed`. Each
process goes from a loaded permit (`proof`) through lock, fence state and rename to a
guard (`receipt`), and revalidates before each write. `synced` is what a power loss
leaves of the fence state. The local clocks are arbitrary: the freshness check may
refuse at any time and never needs to be right. Signatures are unforgeable; the
checkpoint binding can only deny and is left out. In the repository the arbiter is
deployed with `unavailable_fence`, which refuses every request, and the guard is an
opt-in of `ProductRuntime`: the model is of the code with a controller provisioned.

**PaperJournal.** Two programs, `desk` and `guard`, each one writer because the
threads of a program exclude each other through the lock of its runtime. A call is
three steps: decide on the replay of the journal read (`Propose`), write the longer journal
to `paper-events.tmp` (`Stage`), rename it (`Commit`); it dies or raises anywhere.
`OneWriter` is the documented rule that two Paper writers are never active; nothing
in the code excludes the second program, so the rule is a constant. A record stands for the
events of one command. A cycle of the guard is `BeginCycle`, then `Cycle` step by step over
the candles of one symbol after another, with the positions read at its start
(`seen`) and the cursor saved at its end. Whatever makes `run_cycle` raise before that - a
refused exit (`RefuseExit`), too many candles or a fetch that fails (`AbandonCycle`) - loses
what the cycle has seen, and the loop starts again from the old cursor. Money, fees and prices are abstracted to "a
candle touches or does not", and the daily-loss and drawdown limits are left out.

**MissionControl.** Every function takes the state of a mission and returns a new one that is saved
atomically, so an action is a call with its save. Nothing in the repository calls
the functions in a loop: `Next` takes every order of calls, reports come late and
twice (`issued` keeps every lease ever handed out), conditions of the environment come and go, and
`Restart` is `reconcile_restart`. Tasks are numbered in the scheduler's order.
Notifications with their acknowledgement, the digest chain and the projection decide nothing and are left out.

**TaskQueue.** One action per effect on the directories (`Take`, `Mark`, `Begin`,
`Write`, `Publish`), because a worker may raise, be interrupted or be killed between any
two, and also just after it made the lock file (`StartDies`). A killed worker leaves its
command running: `children` are commands, `worker` are workers. A command may take for ever:
`subprocess.run` has no timeout, and no fairness is assumed of `End`.

**OfflineCourier.** `bundles` and `results` are what is on some medium; they are
only added to, since media are copied. `export` and `import` load the runtime file, work on
what they loaded and save the whole of it, without a lock: `Export`, `WriteBundle`,
`SaveExport` and `Import`, `SaveImport`, with deaths in between. A pass of the manager does
the same but is one step here. `Alone` says whether the passes keep clear of the commands;
nothing in the code makes them, so it is a constant. `Redefine` is `merge_definition` after
the definition of the task changed: its export is forgotten. `imported`, `stale` and `fence`
are history.

## 3. Runs

| Run | Bounds | Shows |
|---|---|---|
| `store_damage` | 2 processes, 2 updates, 2 damages of which 1 is a rewrite | `NoLostUpdate`, `QuarantineIsFinal`, `DamageShowsInDescendants`, `SummaryReportsCommitted`, refinement of `MissionRegister` |
| `manager_parallel` | 2 tasks, 2 workers (capacity 2 and 1), 2 faults, rejected artifacts | `WorkersWithinCapacity`, `IndependentlyVerified` |
| `manager_chain` | 3 tasks in a chain, the last an owner task, 3 workers, 1 fault, no malformed artifact, fairness | `DependenciesFirst`, `EveryTaskSettles` |
| `attempts_fencing` | 2 attempts, 2 leases, 2 results, 2 specs, 2 domains, 1 revision, 1 recovery | fences until a recovery, one result per attempt, proven completion, current decisions |
| `budget_cap` | 2 processes, 3 requests, 2 months, any 2 of 6 kinds of fault | `CapHolds`, `SentIsReserved` |
| `fence_failover` | 2 processes on one laptop, 1 on the other, 2 requests, clock to 4 with leases of 2 | `LeaseIsExclusive`, single grant, guards, refinement of `SingleWriter` |
| `paper_desk` | 2 symbols, 5 kinds of order and the kill switch, 3 calls and faults, clock to 6 with candles of 2, cycles of 2 candles | `HistoryIsLawful`, `ExitEvidenceIsOwn`, `NoTouchForgotten`, refinement of `PaperLog` |
| `mission_queue` | 4 tasks, 3 in a chain, its last above the authority of the policy, 2 attempts, limit 1, 4 commands, 2 kinds of failure, clock to 2 | `LeasesWithinLimit`, `WorkIsAllowed`, `ClaimsAreTrue`, `AttemptsDoNotOverlap` |
| `task_queue` | 2 workers, 3 jobs, 2 faults, fairness of each worker | `OneCommandAtATime`, `RanOnce`, `FaultsStrandJobs`, `EveryJobEnds` |
| `courier_fenced` | leases of 1, offline of 2, 3 leases, 2 imports, clock to 4, manager and courier apart | `ImportsAreCurrent` |
| `manager_findings`, `mission_retry` | as `manager_parallel` and `mission_queue` | violated: see section 4 |

Why these bounds are enough to be interesting. Two processes suffice for every race
in the code, which is always between one reader or writer and another. In the store
the number of generations is bounded by the updates and the damages (a cycle that
adds nothing is a no-op, a recovery needs damage): two updates and two damages give
recoveries of recoveries. In the manager a fault is a failure, a lost runner, a stale
lease, a raised call or a repeated result; two of them interleave two leases of one
task, and capacity 2 beside capacity 1 makes work, verification and analysis compete.
In the attempts two attempts make one superseded, and a revision plus a recovery make
a manifest stale in each way. In the budget a routine request of 2 under a cap of
4 with a reserve of 1 makes both the cap and the reserve bind. In the fence the clock
lets one lease expire and another begin, and two processes on one laptop race for the
same permit. In the journal the limits (2 per position, 3 in all) make the second
symbol compete with the first, and three calls allow open, reversal and a crash under a
cycle that already read the positions; three candles close, one more than a cycle takes. The
kill switch is only thrown there, and the session stays open; the proofs take every control. In the mission two attempts make one stale, and a limit of 1
makes the tasks compete; the task above the policy's authority comes last in its chain, so that the
mission runs until then. With two faults the queue loses a worker and the one after it.
The courier sees a lease expire, a second one after a change of the definition, and two
results of one bundle. Larger instances are what the proofs are for.

TLAPS proves the type invariant of every module; the runs of the manager, the budget and the
journal check it as well.

`CHECK_DEADLOCK FALSE` is set where a bound ends the run (attempts out of room,
requests used up, clock at its end, every job ended) or the system is done. The store
and the manager can always step.

Symmetry is used in safety runs only, over processes, leases, evidence, workers and
domains that no definition distinguishes.

Every property has a mutant: a changed guard or operator of the model (dropped
comparison, missing check, wrong set) for which TLC finds that very property
violated. Mutants stand next to the definition they change.

### Fairness

* `AgentManager!FairSpec`: weak fairness of the coordinator job as a whole and of
  the upload of some result for each task's started runs. The workflow is scheduled
  every five minutes, each step of it ends within the job's timeout, and a worker run
  ends with an upload step that runs always. Nothing is assumed of faults, and
  nothing makes the job start at any particular time after a lease expired.
* `PaperJournal!FairSpec`: weak fairness of a begun call of the desk, and of the
  guard with its loop. A call is straight-line code, and the loop sleeps and runs again.
  Used by the two configurations of section 4 about exits that never come.
* `TaskQueue!FairSpec`: weak fairness of what a worker that was started does in turn
  (`Work`), which is straight-line code. Nothing is assumed of commands, which have no timeout
  (`task_queue.py:91`), of faults, or of somebody who starts workers. `EveryJobEnds` names
  what else it takes, in its statement: that commands end (`CommandsEnd`) and that workers
  are started again and again (`WorkersReturn`). The code sees to neither; one command
  that hangs stops the queue.
* `DeepSeekBudget!FairSpec`: strong fairness for each process to get on, since a
  process polls for the kernel lock, which is free again and again. Used by
  `MCDeepSeekBudget_rollover` of section 4.

No other module states liveness: the store, the attempts, the fence, mission control and the courier
are driven by callers whose scheduling the code does not promise. Nothing in the repository, for one,
calls `schedule` in a loop.

## 4. What the code does against what it says

Each of these configurations checks one property, taken from what the repository says - a document, a
comment, a test or the purpose it states of a function - and TLC finds it violated. The first two are
among the runs, with their findings in `PROJECT.json`; the others stand beside the modules and are
run by hand (`tlc -config MC<module>_<name>.cfg MC<module>`).

| Configuration | Property | What happens |
|---|---|---|
| `MCAgentManager_findings` | `FindingsAreAnalyses` | `agent_manager_runner.py:132`: `triage_mode` outlives the analysis it was set for. An analysis lease fails transiently, the task is retried directly as *work*, and the producer's result is filed as the root-cause analysis, erased and done again. Against: "Turn successful RCA work back into original-task work" (`agent_manager_runner.py:129`) |
| `MCMissionControl_retry` | `NoBlindRetry` | `mission_control.py:460`: a task blocked as `root_cause_required` becomes READY in the next pass and is leased again, until its attempts are used up. Against: "Persistent/unknown failures become blocked for root-cause handling" (ADR-018:28) |
| `MCAgentManager_wedge` | `ManagerKeepsRunning` | `agent_transport.py:562`: one artifact that `ingest_result` rejects ends the poll step of this and of every later job before the manager step; all tasks stop. `EveryTaskSettles` is therefore only claimed, in `manager_chain`, where no artifact is malformed. Against: "At least every five minutes, the coordinator must inspect active work" (`docs/operations/NEXUS_GLOBAL_AGENT_MANAGER_POLICY.md:27`) |
| `MCPaperJournal_wedge` | `TouchedPositionIsClosed` | `paper_event_store.py:394`: an exit carries the time of its candle; once anything was journaled after it, the exit is out of order and refused for ever, and the position stays open. Against: "Hold or fully close an existing Paper position" (`nexus_product_paper_protective_exit.py:139`) |
| `MCPaperJournal_window` | `TouchedPositionIsClosed` | `nexus_product_paper_protective_exit_loop.py:167`: a cycle with more than 1000 candles to look at raises before it saves its cursor; the next one has as many or more, and no exit is ever tried. Against: the same sentence |
| `MCPaperJournal_overlap` | `GuardOnlyReduces` | `product_runtime.py:277`: without the one-writer rule, which no code enforces, the desk closes and opens while an exit is staged; the later rename brings the closed position back. Against: "Protective guard authority is reduce/close only" (`docs/architecture/NEXUS_MASTER_SYSTEM_MAP.md:34`) |
| `MCPhase5Attempts_recovered` | `LowerFencesStayStale` | `phase5_attempts.py:130`: the fence counter is in the payload, a recovery takes it back, and a superseded attempt is current again; `FencesHoldUntilRecovery`, proved, is what remains true. Against: "Results from any lower fence are permanently stale" (`phase5_attempts.py:97`) |
| `MCDeepSeekBudget_rollover` | `DefiniteUsageIsCommitted` | `deepseek_provider.py:144`: after the month ended with a request in flight the ledger does not load; an unambiguous answer is never committed, and every later reservation is refused. Against: "commit actual spend and release the reservation" (`docs/architecture/ADR-AI-PROVIDER-BUDGET.md:34`) |
| `MCMissionControl_owner` | `OwnerMissionsWait` | `mission_control.py:415`: a mission of level 4 starts as OWNER_REQUIRED; the first restart refreshes that to READY, and the next pass leases its tasks. Against: "L4 is owner-required" (ADR-018:51), "Policy cannot autonomously authorize L4" (ADR-018:23) |
| `MCOfflineCourier_overlap` | `ImportsAreCurrent` where manager and courier are not apart | `offline_agent_courier.py:282`: a pass between the load and the save of an export is undone, and a lease that was given up is in force again. Against: "The bounded lease expiry is therefore the fencing deadline" (`offline_agent_courier.py:170`) |
| `MCOfflineCourier_replay` | `ResultsAreImportedOnce` | `offline_agent_courier.py:244`: a failed import leaves lease, worker and expiry as they are, `import_result` asks for no status, and the same bundle is imported again. Against: `tests/test_offline_agent_courier.py:164`, which replays a successful result |

Also met, and without a property: a mission whose tasks are partly done and partly
cancelled is in no terminal state until its deadline makes it FAILED; a FAILED mission
can become DONE through pause, resume and a restart; a verification leased to the
laptop is never executed, because the courier exports only LEASED and RUNNING tasks
and the poll leaves courier workers out; a courier task whose lease expired and that is leased
again cannot be exported, because it still carries the digest of the first export
(`offline_agent_courier.py:133`), until its definition changes; a failed typed verification stays on the task
(`phase5_verification.py:323`), so that every later decision is a conflict; and a command
that cannot be started strands its job in `running/`, and one that hangs stops the queue.

## 5. Proofs

All theorems hold for every value of the constants that meets the named assumptions
of the module. Finiteness is assumed where the model adds up or counts: the tasks of a
mission (`TasksAssumption` of `AgentManager`), the processes that share a ledger
(`ProcsAssumption` of `DeepSeekBudget`) and the symbols whose positions make up the exposure
(`SizesAssumption` of `PaperJournal`); of each the code holds finitely many. Nowhere
else is anything assumed finite, and no bound is assumed small.

Each `*Proofs` module holds the theorems of one or two modules. `FiniteTheorems` holds what
several of them need: smallest and largest elements, induction over subsets, and sums. The
library's induction theorems take an operator as a parameter, which the provers cannot
instantiate; these facts are stated about *sets* instead (`SubsetInduction`: a set of subsets
that contains a subset whenever it contains all smaller ones contains all), and any property
turns into the set of what has it. So the sums of the budget and the journal, the replay of a
journal and the ancestors of a row, all recursive functions, are within reach.

**Store** (`Phase5Proofs`). The inductive invariant is

```
HistoryInv == TypeOK /\ HistoryIntact /\ NoLostUpdate /\ QuarantineIsFinal
```

`HistoryIntact` is the strengthening: a stored row is the inserted one or its rotten
form, and a cycle in progress holds the payload committed under the generation it will compare
with. It is needed because compare-and-swap compares *generation numbers*: without it
nothing links the number to the payload the process read. Two lemmas carry
the proof: validity is only ever lost (`ValidityOnlyLost`), and a valid row is the
committed one (`ValidIsCommitted`). From it `UpdatesSurvive`, `QuarantineStays`, and
`StoreIsRegister`: `Spec => ImplementsRegister`, each commit
mapping to `Advance`, each recovery to `Restore`, everything else to a stutter. The
register has an `intact` bit that the rewriting of a row together with its digest
clears; after that it promises only to grow. `EvidenceIsHonest` adds that what a store call
returned is `Honest` from its transaction on, although the summary is written later
(`SummaryInv`); the no-op of compare-and-swap returns what it finds in the table, so kinds
must be undamaged and a valid payload the committed one. `DamageIsNoticed` follows a
damaged row up the chain: the smallest generation that would validate in spite of it has a
parent that is damaged or validates in spite of it, and its `parent_sha` tells (`ValidChainIntact`).
It needs that recorded parents are older (`ParentsInv`), so that `Ancestors` is what its
recursion says (`AncestorsOf`).

**Attempts** (`Phase5Proofs`). `CompletionProven` uses `ProvenInv`: not only
the task but every state it can be recovered to is proven, which is what survives a
recovery and a revision. `FencesAreFinal` and `ResultsAreUnique` use `FenceInv`, in
force until the first recovery (`UntilRecovery`): the active attempt is the newest
issued; attempts are numbered by their place; nothing issued under the active lease has a
higher fence, so that a new attempt's identity is really new (`NewIdentity`); and an
accepted result has left its record no longer `ISSUED`. `DecisionsCurrent` needs only
`AttemptsTypeOK` and that every other step keeps the decision the task has (`DecisionKept`).

**Fence** (`PaperWriterFenceProofs`), in four invariants:

* `Typed` = `TypeOK` and what an accepted observation established (`Admitted`).
* `OwnerInv`: whoever has a permit runs on the machine of the newest epoch's owner;
  once the controller acted in a transaction no process of the other machine is left,
  and none can obtain a permit until the transaction ends, because the database is
  locked. It gives `WriterIsSingle : Spec => ImplementsSingleWriter`, at whatever
  speed the commit comes.
* `LeaseInv`: the hold on the other machine outlasts the newest lease. It gives
  `LeasesAreExclusive` (from `LeasesAreDisjoint` and `PeerStaysOff`) and `RequestsAreGrantedOnce`.
* `GuardInv`: acceptance excludes acceptance on one machine, and a guard is never
  newer than the fence state. It gives `GuardsAreUnique` and `RetiredStayRetired`, in spite of
  the rename that a loss of power may undo: every process of the machine dies with it.

**Journal** (`PaperJournalProofs`). `JournalIsLog` assumes `OneWriter`. `WriterInv`
follows a proposed journal from the read to the rename: it is the journal on disk with one new
record, in order of time, because nobody else can be writing; what is renamed is what was
staged.

`HistoryLawful` does *not* assume it. `JournalInv` says that every journal there is - on disk,
staged by whichever program, or inside a call - is `Lawful`, so that it does not matter whose
rename comes last: a record is checked against the journal it is appended to. `ExitEvidenceOwn`
and `TouchesRemembered` do need `OneWriter`; without it an exit and a close can both
be built on one position (`MCPaperJournal_overlap`). `OwnInv` relates what the loop
remembers to the journal: only closed candles are touched, so a touch never appears behind a
cursor; the cursor file and the memory of a cycle pass no touched candle of a position that
is still the one they were read for (`Remembers`); the positions a cycle has seen are those of
the journal, or closed, or replaced by ones opened after the candle it looks at, and then
an exit would be older than the last record, and replay refuses it (`Follows`). A record
about to be written is new to the cycle and the cursor (`Newer`). `Replay` is a recursive function over
places; that the replay of a longer journal is one `Reduce` further (`ReplayStep`) is
proved by induction over sets of places. The exposure is a sum over symbols, of which a
trade changes one term (`SumChanges`).

**Mission** (`MissionControlProofs`), for any tasks, dependencies, priorities and
limits. `Inv == LeasesWithinLimit /\ ReleasedInOrder /\ StatusIsTrue /\ DoneIsReported`:
`ReleasedInOrder` - whatever is ready, leased or done has its dependencies done - is
stronger than `WorkIsAllowed` because a ready task is leased without asking again. `OneAttemptAtATime`
rests on `LeasesAreCurrent`: a lease that is not over is the one its task holds, and
its task is worked on or done.

**Manager** (`AgentManagerProofs`), for any finite set of tasks, any dependencies,
workers, capacities and faults. `Inv` says of each of the three copies of the runtime
- cache, file, and the configuration a step holds - that it is `Good`. `Good` has three parts:

* `AllSound`, what each record says: a lease was granted, to the producer if it is for
  work; a task that is finished or is being verified was produced under a work lease,
  answered, and is verified under a lease of another worker;
* `Ordered`: a task past its release has its dependencies done;
* `Within`: the limits on the leases, per worker and in all.

The copies differ, so each has to be `Good` by itself: a lost runner puts the cache back, a
step that raises puts the file back. What the grants and artifacts say of older leases must
stay true when new ones are issued, hence the lemmas that new leases are new (`NewLease` is a
maximum over a finite set) and that kept grants keep a copy `Good`. `LoopInv` says that the
tasks a loop has still to visit are as the loop found them. The passes of `Manage` are taken
one by one: most only let a record rest (`RestGood`), routing and assignment lease within
the limits (`RoutedWithin`, `AssignedWithin`). From `Inv` come `CapacityRespected`,
`VerifiedIndependently`, `DependenciesComeFirst` and `TypeCorrect`.

**Queue** (`HandoffProofs`), for any numbers of workers, jobs and faults. `Inv` says
of each worker where its job is, what the file says and whether its command runs
(`WorkerOK`, `CommandOK`), and that without the lock no command runs. `FaultsAreContained`
counts: a fault strands at most the job of its worker, and no other step strands any.

**Courier** (`HandoffProofs`), for any lengths of leases. `ImportsCurrent` assumes `Alone`; without
it `ImportsAreCurrent` is false (`MCOfflineCourier_overlap`), and only `CourierTypeCorrect` remains.
`CourierInv` adds to `CourierTypeOK` that an active task and a command under way have a lease
(`Working`) and, given `Alone`, `Fenced`: a lease that was given up has no expiry and its
task is not active (`GivenUp`), a task that still has the lease that was exported ends at
`fence` (`Exported`), and what a command has loaded is what the runtime still says (`Held`).

**Budget** (`DeepSeekBudgetProofs`), for any processes, requests, months and faults.
`Inv` says that whoever writes has the lock, that the requests of the processes differ,
that nothing is sent before the sentinel is on disk, and that both the file and what a
loss of power leaves of it cover, besides `SentIsReserved`, whatever is about to be sent
(`Covers`). The sentinel is what carries the proof over a deleted ledger: without it
`load_ledger` would start from a fresh one. The cap (`CapNeverExceeded`) needs the amounts too: `Figures`
(what is in a ledger is typed, and the reservation of a call in progress is of the call's
amount) and `Money`, which has three parts. `Reservations`: what the calls in progress hold is
reserved in the file and in what a loss of power leaves of it, and is within the budget, the
routine part within what the reserve slice leaves. `Charges`: nothing is billed in a month
to come, nor before the sentinel. And as long as no call was charged more than it had
reserved, what was billed *and may still be billed* is covered by the ledger and within the
budget (`Balanced`): the ledger of an earlier month covers with its reservations only, because
what was spent belongs to that month (and it is replaced only when nothing is in flight).
The sums are `SumFunctionOnSet`; what they do when one term changes or goes is proved
in `FiniteTheorems`.

**Only model-checked.** Every invariant and every safety property of a passing run is stated
by a theorem. Liveness (`EveryTaskSettles`, `EveryJobEnds`) stays with TLC: TLAPS does not prove
liveness under fairness or `ENABLED`.

## 6. What is not modelled

* Wording, evidence texts, events and summaries, except the runner's summary file.
* Cryptography: digests are injective, signatures unforgeable.
* Within one laptop, the window between the last `assert_authority` and the rename of
  the journal. Between laptops it is covered, since the peer is off.
* Float rounding in the budget, and the pricing table.
* `nexus_event_store.append`: the whole file read, extended and replaced as in
  `PaperJournal`, without a lock of its own.
* `nexus_verified_execution_cycle.run_cycle`: one pass over a task built in memory, a
  single behaviour of `Phase5Attempts`; nothing is kept between runs.
* That a command of the local queue ends, and that anybody starts its workers: conditions of
  `EveryJobEnds`.
* Passes of the manager in the middle of one another and of a courier command at once: the
  coordinator's passes exclude each other by a concurrency group, and `MCOfflineCourier_overlap` has
  each pass as one step.
* Collectors, backtests and strategy research, which are most of the repository's
  lines: numerical computation and downloads in straight-line programs, about which a
  state machine has nothing to say.
* The other components listed as not modelled in `PROJECT.json`, with their reasons.

## 7. Plan

The order puts first what other parts rest on, and what fails silently.

1. *Done.* Store, runner and their refinement; attempts and verification; manager and
   transport; budget; writer fence and its refinement; Paper journal with the
   protective-exit loop and its refinement; mission control; task queue; offline courier.
2. *Proofs to add*: an abstract ledger that the budget implements, with the charges of the
   provider as its steps; the manager's passes composed with the courier's steps, whose
   interface each of the two modules states on its own.
3. *Modelling to consider*: the isolated Paper tranche ledger
   (`nexus_isolated_paper_tranche_ledger.py`), the locks of the gap repair
   (`gap_repair_checkpoint.py`), and the specialised paths of the manager
   (numerical Research tasks, verifier-only QA tasks).

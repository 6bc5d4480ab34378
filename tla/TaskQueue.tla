----------------------------- MODULE TaskQueue -----------------------------
(***************************************************************************)
(* The local task queue (task_queue.py): jobs are files in pending/, which *)
(* one worker at a time moves to running/, executes and moves to done/ or  *)
(* failed/.  The worker of the moment is the one that created worker.lock. *)
(*                                                                         *)
(* A step is one effect on the directories: between two of them a worker   *)
(* can raise or be interrupted, which releases the lock on the way out, or *)
(* be killed, which leaves the lock, the job and the command it started as *)
(* they are.                                                               *)
(***************************************************************************)
EXTENDS Integers, FiniteSets

CONSTANTS
    Workers,    \* processes that run worker(), one after the other or at once
    NoWorker,
    Jobs,       \* numbered in the order of their file names
    MaxFaults   \* bound: workers that raise, are interrupted or are killed

ASSUME QueueAssumption == Jobs \subseteq Nat /\ IsFiniteSet(Jobs) /\ NoWorker \notin Workers

VARIABLES
    dir,        \* the directory the file of a job is in
    saved,      \* the status in the file
    lock,       \* the worker that created worker.lock, NoWorker without the file
    worker,     \* what a worker does, with which job, and how its command ended
    children,   \* jobs whose command is running
    began,      \* history: how often the command of a job was started
    outcomes,   \* history: <<job, outcome>> of commands that ended
    faults

files   == <<dir, saved, lock>>
history == <<children, began, outcomes>>
vars    == <<files, worker, history, faults>>

-----------------------------------------------------------------------------
Off == [pc |-> "off", job |-> -1, outcome |-> "none"]

Init ==
    /\ dir = [j \in Jobs |-> "none"] /\ saved = [j \in Jobs |-> "none"]
    /\ lock = NoWorker
    /\ worker = [w \in Workers |-> Off]
    /\ children = {} /\ began = [j \in Jobs |-> 0] /\ outcomes = {}
    /\ faults = 0

At(w, pc) == worker[w].pc = pc
Goes(w, pc) == worker' = [worker EXCEPT ![w].pc = pc]

\* enqueue: the name is new, and the file appears in pending/ complete.
Enqueue(j) ==
    /\ dir[j] = "none"
    /\ dir' = [dir EXCEPT ![j] = "pending"] /\ saved' = [saved EXCEPT ![j] = "pending"]
    /\ UNCHANGED <<lock, worker, history, faults>>

Locked == lock # NoWorker

\* acquire_lock, which raises while the file exists.
Start(w) ==
    /\ At(w, "off") /\ ~Locked
    /\ lock' = w
    /\ Goes(w, "looking")
    /\ UNCHANGED <<dir, saved, history, faults>>

\* acquire_lock has created the file, and the write of the process id fails or an
\* interrupt comes before the try: the process ends and nobody removes the file.
StartDies(w) ==
    /\ At(w, "off") /\ ~Locked /\ faults < MaxFaults
    /\ faults' = faults + 1
    /\ lock' = w
    /\ UNCHANGED <<dir, saved, worker, history>>

\* Mutant of Waiting: jobs that were left in running/ are taken again.
WaitingAgain == {j \in Jobs : dir[j] \in {"pending", "running"}}

\* Mutant of Waiting: the newest file is left for later.
WaitingButNewest == {j \in Jobs : dir[j] = "pending" /\ \E i \in Jobs : i > j}

Waiting == {j \in Jobs : dir[j] = "pending"}

\* release_lock on the way out.
Release(w) == lock' = NoWorker /\ worker' = [worker EXCEPT ![w] = Off]

\* Mutant of Leave: the worker that finds nothing returns before the try.
LeaveLocked(w) ==
    /\ At(w, "looking") /\ Waiting = {}
    /\ worker' = [worker EXCEPT ![w] = Off]
    /\ UNCHANGED <<files, history, faults>>

\* Nothing is pending and the worker ends; without --once it looks again later.
Leave(w) ==
    /\ At(w, "looking") /\ Waiting = {}
    /\ Release(w)
    /\ UNCHANGED <<dir, saved, history, faults>>

\* next_task, and run_one up to the move: the first file in the order of names.
Take(w) ==
    /\ At(w, "looking") /\ Waiting # {}
    /\ LET j == CHOOSE j \in Waiting : \A i \in Waiting : j <= i
       IN  /\ dir' = [dir EXCEPT ![j] = "running"]
           /\ worker' = [worker EXCEPT ![w].pc = "taken", ![w].job = j]
    /\ UNCHANGED <<saved, lock, history, faults>>

Mark(w) ==
    /\ At(w, "taken")
    /\ saved' = [saved EXCEPT ![worker[w].job] = "running"]
    /\ Goes(w, "marked")
    /\ UNCHANGED <<dir, lock, history, faults>>

\* subprocess.run starts the command, unless that raises: see Raise.
Begin(w) ==
    /\ At(w, "marked")
    /\ children' = children \cup {worker[w].job}
    /\ began' = [began EXCEPT ![worker[w].job] = @ + 1]
    /\ Goes(w, "waiting")
    /\ UNCHANGED <<files, outcomes, faults>>

\* The command ends; its worker, if there still is one, has the return code.
End(j, outcome) ==
    /\ j \in children
    /\ children' = children \ {j}
    /\ outcomes' = outcomes \cup {<<j, outcome>>}
    /\ worker' = [w \in Workers |-> IF At(w, "waiting") /\ worker[w].job = j
                                    THEN [worker[w] EXCEPT !.pc = "ended", !.outcome = outcome] ELSE worker[w]]
    /\ UNCHANGED <<files, began, faults>>

Write(w) ==
    /\ At(w, "ended")
    /\ saved' = [saved EXCEPT ![worker[w].job] = worker[w].outcome]
    /\ Goes(w, "written")
    /\ UNCHANGED <<dir, lock, history, faults>>

\* The file moves to done/ or failed/; with --once the worker ends.
Publish(w) ==
    /\ At(w, "written")
    /\ dir' = [dir EXCEPT ![worker[w].job] = worker[w].outcome]
    /\ \/ Release(w)
       \/ worker' = [worker EXCEPT ![w] = [Off EXCEPT !.pc = "looking"]] /\ UNCHANGED lock
    /\ UNCHANGED <<saved, history, faults>>

\* An exception or an interrupt in the try: no such command, a full disk, Ctrl-C.  The worker
\* releases the lock, and subprocess.run kills a command it was waiting for.
Raise(w) ==
    /\ ~At(w, "off") /\ faults < MaxFaults
    /\ faults' = faults + 1
    /\ Release(w)
    /\ children' = IF At(w, "waiting") THEN children \ {worker[w].job} ELSE children
    /\ UNCHANGED <<dir, saved, began, outcomes>>

\* Mutant of Kill: the lock goes with its process.
KillReleasing(w) ==
    /\ ~At(w, "off") /\ faults < MaxFaults
    /\ faults' = faults + 1
    /\ Release(w)
    /\ UNCHANGED <<dir, saved, history>>

\* The worker dies at once; its command goes on alone.
Kill(w) ==
    /\ ~At(w, "off") /\ faults < MaxFaults
    /\ faults' = faults + 1
    /\ worker' = [worker EXCEPT ![w] = Off]
    /\ UNCHANGED <<files, history>>

\* The steps a process takes of itself once it has the lock.
Work(w) == Take(w) \/ Mark(w) \/ Begin(w) \/ Write(w) \/ Publish(w)

Next ==
    \/ \E j \in Jobs : Enqueue(j) \/ \E outcome \in {"done", "failed"} : End(j, outcome)
    \/ \E w \in Workers : Start(w) \/ StartDies(w) \/ Work(w) \/ Leave(w) \/ Raise(w) \/ Kill(w)

Spec == Init /\ [][Next]_vars

\* A live process goes on.  Nothing is assumed of commands, which run without a
\* timeout, nor of whoever starts workers.
FairSpec == Spec /\ \A w \in Workers : WF_vars(Work(w))

-----------------------------------------------------------------------------
Statuses == {"none", "pending", "running", "done", "failed"}

\* Every part of the state has its type, and every live worker has the lock.
TypeOK ==
    /\ dir \in [Jobs -> Statuses] /\ saved \in [Jobs -> Statuses]
    /\ lock \in Workers \cup {NoWorker} /\ \A w \in Workers : ~At(w, "off") => lock = w
    /\ worker \in [Workers -> [pc : {"off", "looking", "taken", "marked", "waiting", "ended", "written"},
                               job : Jobs \cup {-1}, outcome : {"none", "done", "failed"}]]
    /\ children \subseteq Jobs /\ began \in [Jobs -> Nat]
    /\ outcomes \subseteq Jobs \X {"done", "failed"}
    /\ faults \in Nat

\* "Single-worker": commands never overlap, although one of them may have lost its
\* worker and another worker may be started at any time.
OneCommandAtATime == Cardinality(children) <= 1

\* A job whose file is in done/ or failed/ was executed exactly once, ended that way,
\* and its file says so; no job is ever executed twice, whatever died in between.
RanOnce ==
    \A j \in Jobs :
        /\ began[j] <= 1
        /\ dir[j] \in {"done", "failed"} => began[j] = 1 /\ saved[j] = dir[j] /\ <<j, dir[j]>> \in outcomes

\* What nothing in the code repairs: a lock whose worker is gone, and a job in
\* running/ that no worker works on.
Stranded(j) == dir[j] = "running" /\ \A w \in Workers : worker[w].job # j
Orphaned    == Locked /\ \A w \in Workers : At(w, "off")

\* Only a fault leaves such a thing, and one fault leaves at most one stranded job.
FaultsStrandJobs ==
    /\ Orphaned => faults > 0
    /\ Cardinality({j \in Jobs : Stranded(j)}) <= faults

\* What the code does not see to itself: that every command ends, and that workers
\* are started again and again.
CommandsEnd   == \A j \in Jobs : []<>(j \notin children)
WorkersReturn == []<>Locked

\* Where commands end and workers return, an enqueued job ends, unless a fault has
\* stranded it or left its lock behind.
EveryJobEnds ==
    CommandsEnd /\ WorkersReturn =>
        \A j \in Jobs : dir[j] = "pending" ~> dir[j] \in {"done", "failed"} \/ Stranded(j) \/ Orphaned
=============================================================================

---------------------------- MODULE HandoffProofs ----------------------------
(***************************************************************************)
(* Proofs about the two ways in which work is handed to a laptop that the  *)
(* manager does not reach: the local task queue, for any number of         *)
(* workers, jobs and faults, and the offline courier, for any lengths of   *)
(* leases and any number of leases, imports and ticks; that imports are     *)
(* current is proved where no other process saves the runtime file while   *)
(* a courier command is under way.                                         *)
(***************************************************************************)
EXTENDS TaskQueue, OfflineCourier, FiniteSetTheorems, WellFoundedInduction, TLAPS

USE DEF files, history

-----------------------------------------------------------------------------
(* The invariant.                                                          *)

Idle == {"off", "looking"}
Busy == {"taken", "marked", "waiting", "ended", "written"}

\* A worker and its job: how far it is, the file and the history tell the same.
WorkerOK(w) ==
    /\ worker[w].pc \in Idle => worker[w].job = -1
    /\ worker[w].pc \in Busy => worker[w].job \in Jobs /\ dir[worker[w].job] = "running"
    /\ worker[w].pc \in {"taken", "marked"} => began[worker[w].job] = 0
    /\ worker[w].pc \in {"waiting", "ended", "written"} => began[worker[w].job] = 1
    /\ worker[w].pc \in {"ended", "written"} =>
          worker[w].outcome \in {"done", "failed"} /\ <<worker[w].job, worker[w].outcome>> \in outcomes
    /\ worker[w].pc = "written" => saved[worker[w].job] = worker[w].outcome

\* A command runs only while its worker waits for it, or all are locked out.
CommandOK(w) ==
    /\ worker[w].pc = "waiting" => children = {worker[w].job}
    /\ worker[w].pc \notin {"off", "waiting"} => children = {}

Inv ==
    /\ \A w \in Workers : WorkerOK(w) /\ CommandOK(w)
    /\ ~Locked => children = {}
    /\ \A i, j \in children : i = j
    /\ \A j \in Jobs : dir[j] \in {"none", "pending"} => began[j] = 0
    /\ RanOnce

\* The only live worker is the one that has the lock.
LEMMA OneIsLive ==
    ASSUME TypeOK, NEW w \in Workers, NEW v \in Workers, ~At(w, "off"), v # w
    PROVE  At(v, "off")
BY DEF TypeOK

\* Nothing is running at the start.
LEMMA InitInv == Init => TypeOK /\ Inv
<1> SUFFICES ASSUME Init  PROVE TypeOK /\ Inv
  OBVIOUS
<1>1. \A w \in Workers : worker[w] = Off
  BY DEF Init
<1>2. TypeOK
  BY <1>1 DEF Init, TypeOK, Statuses, At, Off
<1>3. \A w \in Workers : WorkerOK(w) /\ CommandOK(w)
  BY <1>1 DEF WorkerOK, CommandOK, Idle, Busy, Off, Init
<1>4. RanOnce /\ children = {} /\ \A j \in Jobs : began[j] = 0
  BY DEF Init, RanOnce
<1> QED  BY <1>2, <1>3, <1>4 DEF Inv

-----------------------------------------------------------------------------
(* TypeOK.                                                                 *)

\* The first file in the order of names.
LEMMA LeastExists ==
    ASSUME NEW S \in SUBSET Nat, S # {}
    PROVE  \E m \in S : \A u \in S : m <= u
<1> DEFINE R == OpToRel(<, Nat)
<1>1. PICK m \in S : \A u \in S : ~(<<u, m>> \in R)
  <2> HIDE DEF R
  <2>1. IsWellFoundedOn(R, Nat)
    BY NatLessThanWellFounded DEF R
  <2> QED  BY <2>1, WFMin, Zenon
<1>2. \A u \in S : u < m => <<u, m>> \in R
  BY DEF OpToRel
<1>3. \A u \in S : u \in Nat /\ m \in Nat
  OBVIOUS
<1>4. \A u \in S : m <= u
  <2>1. \A u \in S : ~(u < m)
    <3> HIDE DEF R
    <3> QED  BY <1>1, <1>2, Zenon
  <2> QED  BY <2>1, <1>3
<1> QED  BY <1>4

\* The job a worker takes was pending.
LEMMA TakesWaiting ==
    ASSUME NEW w \in Workers, Take(w)
    PROVE  \E j \in Jobs : /\ dir[j] = "pending" /\ dir' = [dir EXCEPT ![j] = "running"]
                           /\ worker' = [worker EXCEPT ![w].pc = "taken", ![w].job = j]
<1> DEFINE Least == CHOOSE j \in Waiting : \A i \in Waiting : j <= i
<1>1. Waiting \in SUBSET Nat /\ Waiting # {}
  BY QueueAssumption DEF Take, Waiting
<1>2. PICK m \in Waiting : \A u \in Waiting : m <= u
  BY <1>1, LeastExists
<1>3. Least \in Waiting
  BY <1>2
<1>4. /\ dir' = [dir EXCEPT ![Least] = "running"]
      /\ worker' = [worker EXCEPT ![w].pc = "taken", ![w].job = Least]
  BY DEF Take
<1>5. Least \in Jobs /\ dir[Least] = "pending"
  BY <1>3 DEF Waiting
<1> HIDE DEF Least
<1> QED  BY <1>4, <1>5

\* What the actions of a live worker do to the records of the workers.
LEMMA WorkerMoves ==
    ASSUME TypeOK, Inv, NEW w \in Workers,
           \/ Start(w) \/ Take(w) \/ Mark(w) \/ Begin(w) \/ Write(w) \/ Publish(w) \/ Leave(w) \/ Raise(w) \/ Kill(w) \/ StartDies(w)
    PROVE  /\ worker' \in [Workers -> [pc : {"off", "looking", "taken", "marked", "waiting", "ended", "written"},
                               job : Jobs \cup {-1}, outcome : {"none", "done", "failed"}]]
           /\ \A v \in Workers \ {w} : worker'[v] = worker[v] /\ At(v, "off")
<1>1. \A v \in Workers \ {w} : At(v, "off")
  <2>1. CASE Start(w) \/ StartDies(w)
    BY <2>1, QueueAssumption DEF Start, StartDies, TypeOK, Locked
  <2>2. CASE ~At(w, "off")
    BY <2>2, OneIsLive
  <2> QED  BY <2>1, <2>2 DEF Take, Mark, Begin, Write, Publish, Leave, Raise, Kill, StartDies, At
<1>2. CASE Take(w)
  <2>1. PICK j \in Jobs : worker' = [worker EXCEPT ![w].pc = "taken", ![w].job = j]
    BY <1>2, TakesWaiting
  <2> QED  BY <1>1, <2>1 DEF TypeOK
<1>3. CASE Publish(w)
  BY <1>1, <1>3 DEF Publish, Release, Off, TypeOK
<1>4. CASE Start(w) \/ Mark(w) \/ Begin(w) \/ Write(w)
  BY <1>1, <1>4 DEF Start, Mark, Begin, Write, Goes, TypeOK
<1>5. CASE Leave(w) \/ Raise(w) \/ Kill(w) \/ StartDies(w)
  BY <1>1, <1>5 DEF Leave, Raise, Kill, StartDies, Release, Off, TypeOK
<1> QED  BY <1>2, <1>3, <1>4, <1>5

\* TypeOK is inductive.
LEMMA NextTypeOK == TypeOK /\ Inv /\ [Next]_vars => TypeOK'
<1> SUFFICES ASSUME TypeOK, Inv, [Next]_vars  PROVE TypeOK'
  OBVIOUS
<1> DEFINE Records == [pc : {"off", "looking", "taken", "marked", "waiting", "ended", "written"},
                       job : Jobs \cup {-1}, outcome : {"none", "done", "failed"}]
<1>0. /\ worker \in [Workers -> Records] /\ lock \in Workers \cup {NoWorker}
      /\ \A w \in Workers : ~At(w, "off") => lock = w
  BY DEF TypeOK
<1>1. ASSUME NEW j \in Jobs, Enqueue(j)  PROVE TypeOK'
  BY <1>1 DEF Enqueue, TypeOK, Statuses, At
<1>2. ASSUME NEW j \in Jobs, NEW o \in {"done", "failed"}, End(j, o)  PROVE TypeOK'
  <2>1. \A w \in Workers : /\ worker'[w] \in Records
                           /\ worker'[w].pc = "off" <=> worker[w].pc = "off"
    BY <1>0, <1>2 DEF End, At
  <2>2. worker' \in [Workers -> Records]
    BY <2>1, <1>2 DEF End
  <2>3. \A w \in Workers : ~At(w, "off")' => lock' = w
    BY <2>1, <1>0, <1>2 DEF End, At
  <2>4. UNCHANGED <<dir, saved, lock, began, faults>>
    BY <1>2 DEF End
  <2>5. children' \subseteq Jobs /\ outcomes' \subseteq Jobs \X {"done", "failed"}
    <3>1. <<j, o>> \in Jobs \X {"done", "failed"}
      BY <1>2
    <3>2. children' = children \ {j} /\ outcomes' = outcomes \cup {<<j, o>>}
      BY <1>2 DEF End
    <3> QED  BY <3>1, <3>2 DEF TypeOK
  <2>6. dir' \in [Jobs -> Statuses] /\ saved' \in [Jobs -> Statuses] /\ began' \in [Jobs -> Nat]
    BY <2>4 DEF TypeOK
  <2>7. lock' \in Workers \cup {NoWorker} /\ faults' \in Nat
    BY <2>4 DEF TypeOK
  <2> QED  BY <2>2, <2>3, <2>5, <2>6, <2>7 DEF TypeOK
<1>3. ASSUME NEW w \in Workers, Start(w) \/ Take(w) \/ Mark(w) \/ Begin(w) \/ Write(w) \/ Publish(w) \/ Leave(w) \/ Raise(w) \/ Kill(w) \/ StartDies(w)
      PROVE  TypeOK'
  <2>1. worker' \in [Workers -> Records] /\ \A v \in Workers \ {w} : At(v, "off")'
    BY <1>3, WorkerMoves DEF At
  <2>2. lock' \in Workers \cup {NoWorker} /\ (~At(w, "off")' => lock' = w)
    BY <1>0, <1>3 DEF Start, Take, Mark, Begin, Write, Publish, Leave, Raise, Kill, StartDies, Release, Off, At
  <2>3. dir' \in [Jobs -> Statuses] /\ saved' \in [Jobs -> Statuses]
    <3>1. CASE Take(w)
      BY <3>1, TakesWaiting DEF Take, TypeOK, Statuses
    <3>2. CASE ~Take(w)
      <4>1. worker[w].outcome \in {"none", "done", "failed"}
        BY <1>0
      <4> QED  BY <1>3, <3>2, <4>1 DEF Start, Mark, Begin, Write, Publish, Leave, Raise, Kill, StartDies, TypeOK, Statuses
    <3> QED  BY <3>1, <3>2
  <2>4. children' \subseteq Jobs /\ began' \in [Jobs -> Nat] /\ outcomes' \subseteq Jobs \X {"done", "failed"}
    <3>1. CASE Begin(w)
      <4>1. worker[w].job \in Jobs
        BY <3>1 DEF Begin, Inv, WorkerOK, Busy, At
      <4> QED  BY <3>1, <4>1 DEF Begin, TypeOK
    <3> QED  BY <1>3, <3>1 DEF Start, Take, Mark, Write, Publish, Leave, Raise, Kill, StartDies, TypeOK
  <2>5. faults' \in Nat
    BY <1>3 DEF Start, Take, Mark, Begin, Write, Publish, Leave, Raise, Kill, StartDies, TypeOK
  <2> QED  BY <2>1, <2>2, <2>3, <2>4, <2>5 DEF TypeOK
<1>4. CASE UNCHANGED vars
  BY <1>4 DEF vars, TypeOK, At
<1> QED  BY <1>1, <1>2, <1>3, <1>4 DEF Next, Work

-----------------------------------------------------------------------------
(* Inv.                                                                    *)

\* Inv after a step of the worker w, from what the step does to its own job.
LEMMA OwnStep ==
    ASSUME TypeOK, Inv, NEW w \in Workers,
           \A v \in Workers \ {w} : worker'[v] = worker[v] /\ At(v, "off"),
           WorkerOK(w)', CommandOK(w)', RanOnce',
           lock' = NoWorker => children' = {},
           \A i, j \in children' : i = j,
           \A j \in Jobs : dir'[j] \in {"none", "pending"} => began'[j] = 0
    PROVE  Inv'
<1>1. ASSUME NEW v \in Workers \ {w}  PROVE WorkerOK(v)' /\ CommandOK(v)'
  <2>1. worker'[v] = worker[v] /\ worker[v].pc = "off"
    BY <1>1 DEF At
  <2>2. worker[v].job = -1
    BY <2>1 DEF Inv, WorkerOK, Idle
  <2> QED  BY <2>1, <2>2 DEF WorkerOK, CommandOK, Idle, Busy
<1>2. \A v \in Workers : (WorkerOK(v) /\ CommandOK(v))'
  BY <1>1
<1> QED  BY <1>2 DEF Inv, Locked

LEMMA EnqueueInv == ASSUME TypeOK, Inv, NEW j \in Jobs, Enqueue(j)  PROVE Inv'
<1>0. /\ dir' = [dir EXCEPT ![j] = "pending"] /\ saved' = [saved EXCEPT ![j] = "pending"] /\ dir[j] = "none"
      /\ UNCHANGED <<lock, worker, children, began, outcomes>>
  BY DEF Enqueue
<1>1. ASSUME NEW w \in Workers  PROVE WorkerOK(w)' /\ CommandOK(w)'
  <2>1. WorkerOK(w) /\ CommandOK(w)
    BY DEF Inv
  <2>2. worker[w].pc \in Busy => worker[w].job # j
    BY <1>0, <2>1 DEF WorkerOK
  <2>3. worker[w].pc \in Busy => dir'[worker[w].job] = dir[worker[w].job] /\ saved'[worker[w].job] = saved[worker[w].job]
    BY <1>0, <2>1, <2>2 DEF WorkerOK, TypeOK
  <2> QED  BY <1>0, <2>1, <2>3 DEF WorkerOK, CommandOK, Busy, Idle
<1>2. RanOnce'
  BY <1>0 DEF RanOnce, Inv, TypeOK
<1>3. \A i \in Jobs : dir'[i] \in {"none", "pending"} => began'[i] = 0
  BY <1>0 DEF Inv, TypeOK
<1> QED  BY <1>0, <1>1, <1>2, <1>3 DEF Inv, Locked

LEMMA EndInv == ASSUME TypeOK, Inv, NEW j \in Jobs, NEW o \in {"done", "failed"}, End(j, o)  PROVE Inv'
<1>0. /\ j \in children /\ children' = children \ {j} /\ outcomes' = outcomes \cup {<<j, o>>}
      /\ worker' = [w \in Workers |-> IF At(w, "waiting") /\ worker[w].job = j
                                      THEN [worker[w] EXCEPT !.pc = "ended", !.outcome = o] ELSE worker[w]]
      /\ UNCHANGED <<dir, saved, lock, began>>
  BY DEF End
<1>1. children' = {}
  BY <1>0 DEF Inv
<1>2. ASSUME NEW w \in Workers  PROVE WorkerOK(w)' /\ CommandOK(w)'
  <2>1. WorkerOK(w) /\ CommandOK(w)
    BY DEF Inv
  <2>2. CASE At(w, "waiting")
    <3>1. worker[w].job = j
      BY <2>1, <2>2, <1>0 DEF CommandOK, At
    <3>2. worker'[w].pc = "ended" /\ worker'[w].job = j /\ worker'[w].outcome = o
      BY <1>0, <2>2, <3>1 DEF TypeOK
    <3>3. dir[j] = "running" /\ began[j] = 1
      BY <2>1, <2>2, <3>1 DEF WorkerOK, At, Busy
    <3>4. <<j, o>> \in outcomes' /\ dir'[j] = "running" /\ began'[j] = 1
      BY <1>0, <3>3
    <3>5. WorkerOK(w)'
      BY <3>2, <3>4 DEF WorkerOK, Idle, Busy
    <3> QED  BY <1>1, <3>2, <3>5 DEF CommandOK
  <2>3. CASE ~At(w, "waiting")
    <3>1. worker'[w] = worker[w]
      BY <1>0, <2>3
    <3> QED  BY <1>0, <1>1, <2>1, <2>3, <3>1 DEF WorkerOK, CommandOK, Idle, Busy, At
  <2> QED  BY <2>2, <2>3
<1>3. RanOnce'
  BY <1>0 DEF RanOnce, Inv
<1> QED  BY <1>0, <1>1, <1>2, <1>3 DEF Inv, Locked

\* A worker that takes no job of its own and disturbs none.
LEMMA LookingInv ==
    ASSUME TypeOK, Inv, NEW w \in Workers, Start(w) \/ Leave(w) \/ Raise(w) \/ Kill(w) \/ StartDies(w)
    PROVE  Inv'
<1>1. \A v \in Workers \ {w} : worker'[v] = worker[v] /\ At(v, "off")
  BY WorkerMoves
<1>2. worker'[w].pc \in Idle /\ worker'[w].job = -1 /\ UNCHANGED <<dir, saved, began, outcomes>>
  <2>1. CASE Start(w)
    BY <2>1 DEF Start, Goes, At, Inv, WorkerOK, Idle, TypeOK
  <2>2. CASE Leave(w) \/ Raise(w) \/ Kill(w)
    BY <2>2 DEF Leave, Raise, Kill, Release, Off, Idle, TypeOK
  <2>3. CASE StartDies(w)
    BY <2>3 DEF StartDies, At, Inv, WorkerOK, Idle
  <2> QED  BY <2>1, <2>2, <2>3
<1>3. children' \subseteq children /\ (lock' = NoWorker => children' = {}) /\ (worker'[w].pc = "looking" => children' = {})
  <2>1. CASE Start(w)
    <3>1. children = {} /\ lock' = w /\ UNCHANGED children
      BY <2>1 DEF Start, Inv
    <3> QED  BY <3>1
  <2>2. CASE Leave(w)
    <3>1. children = {} /\ UNCHANGED children
      BY <2>2 DEF Leave, Inv, CommandOK, At
    <3> QED  BY <3>1
  <2>3. CASE Raise(w)
    <3>1. children' = {}
      BY <2>3 DEF Raise, Inv, CommandOK, At
    <3> QED  BY <3>1
  <2>4. CASE Kill(w)
    <3>1. UNCHANGED <<children, lock>> /\ worker'[w].pc = "off"
      BY <2>4 DEF Kill, Off, TypeOK
    <3> QED  BY <3>1 DEF Inv, Locked
  <2>5. CASE StartDies(w)
    <3>1. children = {} /\ lock' = w /\ UNCHANGED children
      BY <2>5 DEF StartDies, Inv
    <3> QED  BY <3>1
  <2> QED  BY <2>1, <2>2, <2>3, <2>4, <2>5
<1>4. WorkerOK(w)' /\ CommandOK(w)' /\ RanOnce'
  BY <1>2, <1>3 DEF WorkerOK, CommandOK, Idle, Busy, RanOnce, Inv
<1> QED  BY <1>1, <1>2, <1>3, <1>4, OwnStep DEF Inv

LEMMA TakeInv == ASSUME TypeOK, Inv, NEW w \in Workers, Take(w)  PROVE Inv'
<1>1. \A v \in Workers \ {w} : worker'[v] = worker[v] /\ At(v, "off")
  BY WorkerMoves
<1>2. PICK j \in Jobs : /\ dir[j] = "pending" /\ dir' = [dir EXCEPT ![j] = "running"]
                        /\ worker' = [worker EXCEPT ![w].pc = "taken", ![w].job = j]
  BY TakesWaiting
<1>3. UNCHANGED <<saved, lock, children, began, outcomes>> /\ At(w, "looking")
  BY DEF Take
<1>4. worker'[w].pc = "taken" /\ worker'[w].job = j
  BY <1>2 DEF TypeOK
<1>5. children = {} /\ began[j] = 0 /\ dir'[j] = "running"
  BY <1>2, <1>3 DEF Inv, CommandOK, At, TypeOK
<1>6. WorkerOK(w)' /\ CommandOK(w)'
  BY <1>3, <1>4, <1>5 DEF WorkerOK, CommandOK, Idle, Busy
<1>7. RanOnce' /\ \A i \in Jobs : dir'[i] \in {"none", "pending"} => began'[i] = 0
  BY <1>2, <1>3 DEF RanOnce, Inv, TypeOK
<1> QED  BY <1>1, <1>3, <1>5, <1>6, <1>7, OwnStep

LEMMA MarkInv == ASSUME TypeOK, Inv, NEW w \in Workers, Mark(w)  PROVE Inv'
<1> DEFINE j == worker[w].job
<1>1. \A v \in Workers \ {w} : worker'[v] = worker[v] /\ At(v, "off")
  BY WorkerMoves
<1>2. /\ j \in Jobs /\ dir[j] = "running" /\ began[j] = 0 /\ children = {}
      /\ saved' = [saved EXCEPT ![j] = "running"] /\ UNCHANGED <<dir, lock, children, began, outcomes>>
  BY DEF Mark, Inv, WorkerOK, CommandOK, Busy, At
<1>3. worker'[w].pc = "marked" /\ worker'[w].job = j
  BY DEF Mark, Goes, TypeOK
<1>4. WorkerOK(w)' /\ CommandOK(w)'
  BY <1>2, <1>3 DEF WorkerOK, CommandOK, Idle, Busy
<1>5. RanOnce'
  BY <1>2 DEF RanOnce, Inv, TypeOK
<1> QED  BY <1>1, <1>2, <1>4, <1>5, OwnStep DEF Inv

LEMMA BeginInv == ASSUME TypeOK, Inv, NEW w \in Workers, Begin(w)  PROVE Inv'
<1> DEFINE j == worker[w].job
<1>1. \A v \in Workers \ {w} : worker'[v] = worker[v] /\ At(v, "off")
  BY WorkerMoves
<1>2. /\ j \in Jobs /\ dir[j] = "running" /\ began[j] = 0 /\ children = {} /\ lock # NoWorker
      /\ children' = {j} /\ began' = [began EXCEPT ![j] = @ + 1] /\ UNCHANGED <<dir, saved, lock, outcomes>>
  BY QueueAssumption DEF Begin, Inv, WorkerOK, CommandOK, Busy, At, TypeOK
<1>3. worker'[w].pc = "waiting" /\ worker'[w].job = j
  BY DEF Begin, Goes, TypeOK
<1>4. began'[j] = 1 /\ \A i \in Jobs \ {j} : began'[i] = began[i]
  BY <1>2 DEF TypeOK
<1>5. WorkerOK(w)' /\ CommandOK(w)'
  BY <1>2, <1>3, <1>4 DEF WorkerOK, CommandOK, Idle, Busy
<1>6. RanOnce' /\ \A i \in Jobs : dir'[i] \in {"none", "pending"} => began'[i] = 0
  BY <1>2, <1>4 DEF RanOnce, Inv
<1> QED  BY <1>1, <1>2, <1>5, <1>6, OwnStep

LEMMA WriteInv == ASSUME TypeOK, Inv, NEW w \in Workers, Write(w)  PROVE Inv'
<1> DEFINE j == worker[w].job
           o == worker[w].outcome
<1>1. \A v \in Workers \ {w} : worker'[v] = worker[v] /\ At(v, "off")
  BY WorkerMoves
<1>2. /\ j \in Jobs /\ dir[j] = "running" /\ began[j] = 1 /\ children = {}
      /\ o \in {"done", "failed"} /\ <<j, o>> \in outcomes
      /\ saved' = [saved EXCEPT ![j] = o] /\ UNCHANGED <<dir, lock, children, began, outcomes>>
  BY DEF Write, Inv, WorkerOK, CommandOK, Busy, At
<1>3. worker'[w].pc = "written" /\ worker'[w].job = j /\ worker'[w].outcome = o
  BY DEF Write, Goes, TypeOK
<1>4. saved'[j] = o
  BY <1>2 DEF TypeOK
<1>5. WorkerOK(w)' /\ CommandOK(w)'
  BY <1>2, <1>3, <1>4 DEF WorkerOK, CommandOK, Idle, Busy
<1>6. RanOnce'
  BY <1>2 DEF RanOnce, Inv, TypeOK
<1> QED  BY <1>1, <1>2, <1>5, <1>6, OwnStep DEF Inv

LEMMA PublishInv == ASSUME TypeOK, Inv, NEW w \in Workers, Publish(w)  PROVE Inv'
<1> DEFINE j == worker[w].job
           o == worker[w].outcome
<1>1. \A v \in Workers \ {w} : worker'[v] = worker[v] /\ At(v, "off")
  BY WorkerMoves
<1>2. /\ j \in Jobs /\ began[j] = 1 /\ children = {} /\ saved[j] = o
      /\ o \in {"done", "failed"} /\ <<j, o>> \in outcomes
      /\ dir' = [dir EXCEPT ![j] = o] /\ UNCHANGED <<saved, children, began, outcomes>>
  BY DEF Publish, Inv, WorkerOK, CommandOK, Busy, At
<1>3. worker'[w].pc \in Idle /\ worker'[w].job = -1
  BY DEF Publish, Release, Off, Idle, TypeOK
<1>4. WorkerOK(w)' /\ CommandOK(w)'
  BY <1>2, <1>3 DEF WorkerOK, CommandOK, Idle, Busy
<1>5. RanOnce' /\ \A i \in Jobs : dir'[i] \in {"none", "pending"} => began'[i] = 0
  BY <1>2 DEF RanOnce, Inv, TypeOK
<1> QED  BY <1>1, <1>2, <1>4, <1>5, OwnStep

\* Inv is inductive.
LEMMA NextInv == TypeOK /\ Inv /\ [Next]_vars => Inv'
<1> SUFFICES ASSUME TypeOK, Inv, [Next]_vars  PROVE Inv'
  OBVIOUS
<1>1. CASE UNCHANGED vars
  BY <1>1 DEF vars, Inv, WorkerOK, CommandOK, RanOnce, Locked
<1> QED
  BY <1>1, EnqueueInv, EndInv, LookingInv, TakeInv, MarkInv, BeginInv, WriteInv, PublishInv DEF Next, Work

-----------------------------------------------------------------------------
(* The theorems.                                                           *)

\* The invariant holds in every reachable state.
LEMMA Invariant == Spec => [](TypeOK /\ Inv)
<1>1. TypeOK /\ Inv /\ [Next]_vars => (TypeOK /\ Inv)'
  BY NextTypeOK, NextInv
<1> QED  BY InitInv, <1>1, PTL DEF Spec

\* The queue's state keeps its types, and every live worker has the lock: O_EXCL
\* lets one worker in, and only its owner removes the file.
THEOREM TypeCorrect == Spec => []TypeOK
BY Invariant, PTL

\* At no time do two commands run, although a killed worker leaves its command
\* running and other workers are started.
THEOREM CommandsAreSerial == Spec => []OneCommandAtATime
<1>1. TypeOK /\ Inv => OneCommandAtATime
  <2> SUFFICES ASSUME Inv  PROVE OneCommandAtATime
    OBVIOUS
  <2>1. CASE children = {}
    BY <2>1, FS_EmptySet DEF OneCommandAtATime
  <2>2. CASE children # {}
    <3>1. PICK j \in children : children = {j}
      BY <2>2 DEF Inv
    <3>2. Cardinality({j}) = 1
      BY FS_Singleton
    <3> QED  BY <3>1, <3>2 DEF OneCommandAtATime
  <2> QED  BY <2>1, <2>2
<1> QED  BY Invariant, <1>1, PTL

\* No job is executed twice, and a job in done/ or failed/ was executed once and
\* ended that way, wherever workers died or raised.
THEOREM JobsRunOnce == Spec => []RanOnce
<1>1. TypeOK /\ Inv => RanOnce
  BY DEF Inv
<1> QED  BY Invariant, <1>1, PTL

-----------------------------------------------------------------------------
(* What faults leave behind.                                               *)

StrandedJobs == {j \in Jobs : Stranded(j)}

\* A step that is no fault strands no job and leaves no lock behind.
LEMMA StepStrandsNone ==
    ASSUME TypeOK, Inv, [Next]_vars, ~\E w \in Workers : Raise(w) \/ Kill(w) \/ StartDies(w)
    PROVE  StrandedJobs' \subseteq StrandedJobs /\ faults' = faults /\ (Orphaned' => Orphaned)
<1> SUFFICES /\ \A i \in Jobs : Stranded(i)' => Stranded(i)
             /\ faults' = faults /\ (Orphaned' => Orphaned)
  BY DEF StrandedJobs
<1>0. \A i \in Jobs : i # -1
  BY QueueAssumption
<1>1. ASSUME NEW j \in Jobs, Enqueue(j)
      PROVE  (\A i \in Jobs : Stranded(i)' => Stranded(i)) /\ faults' = faults /\ (Orphaned' => Orphaned)
  BY <1>1 DEF Enqueue, Stranded, Orphaned, Locked, At, TypeOK
<1>2. ASSUME NEW j \in Jobs, NEW o \in {"done", "failed"}, End(j, o)
      PROVE  (\A i \in Jobs : Stranded(i)' => Stranded(i)) /\ faults' = faults /\ (Orphaned' => Orphaned)
  <2>1. \A w \in Workers : worker'[w].job = worker[w].job /\ (worker'[w].pc = "off" => worker[w].pc = "off")
    BY <1>2 DEF End, TypeOK, At
  <2>2. UNCHANGED <<dir, lock, faults>>
    BY <1>2 DEF End
  <2> QED  BY <2>1, <2>2 DEF Stranded, Orphaned, Locked, At
<1>3. ASSUME NEW w \in Workers, Start(w) \/ Leave(w)
      PROVE  (\A i \in Jobs : Stranded(i)' => Stranded(i)) /\ faults' = faults /\ (Orphaned' => Orphaned)
  <2>1. worker[w].job = -1 /\ \A v \in Workers \ {w} : worker'[v] = worker[v]
    BY <1>3, WorkerMoves DEF Start, Leave, At, Inv, WorkerOK, Idle
  <2>2. UNCHANGED <<dir, faults>> /\ ~Orphaned'
    BY <1>3 DEF Start, Leave, Release, Goes, Orphaned, Locked, At, TypeOK
  <2> QED  BY <1>0, <2>1, <2>2 DEF Stranded
<1>4. ASSUME NEW w \in Workers, Mark(w) \/ Begin(w) \/ Write(w)
      PROVE  (\A i \in Jobs : Stranded(i)' => Stranded(i)) /\ faults' = faults /\ (Orphaned' => Orphaned)
  <2>1. \A v \in Workers : worker'[v].job = worker[v].job
    BY <1>4 DEF Mark, Begin, Write, Goes, TypeOK
  <2>2. UNCHANGED <<dir, faults>> /\ worker'[w].pc # "off"
    BY <1>4 DEF Mark, Begin, Write, Goes, TypeOK
  <2> QED  BY <2>1, <2>2 DEF Stranded, Orphaned, At
<1>5. ASSUME NEW w \in Workers, Take(w)
      PROVE  (\A i \in Jobs : Stranded(i)' => Stranded(i)) /\ faults' = faults /\ (Orphaned' => Orphaned)
  <2>1. PICK j \in Jobs : /\ dir' = [dir EXCEPT ![j] = "running"]
                          /\ worker' = [worker EXCEPT ![w].pc = "taken", ![w].job = j]
    BY <1>5, TakesWaiting
  <2>2. worker'[w].job = j /\ worker'[w].pc = "taken" /\ worker[w].job = -1
    <3>1. worker[w].job = -1
      BY <1>5 DEF Take, At, Inv, WorkerOK, Idle
    <3>2. worker'[w].job = j /\ worker'[w].pc = "taken"
      BY <2>1 DEF TypeOK
    <3> QED  BY <3>1, <3>2
  <2>3. ASSUME NEW i \in Jobs, Stranded(i)'  PROVE Stranded(i)
    <3>1. i # j
      BY <2>2, <2>3 DEF Stranded
    <3>2. dir[i] = "running"
      BY <2>1, <2>3, <3>1 DEF Stranded, TypeOK
    <3>3. \A v \in Workers : worker[v].job # i
      BY <1>0, <2>1, <2>2, <2>3 DEF Stranded, TypeOK
    <3> QED  BY <3>2, <3>3 DEF Stranded
  <2> QED  BY <1>5, <2>2, <2>3 DEF Take, Orphaned, At
<1>6. ASSUME NEW w \in Workers, Publish(w)
      PROVE  (\A i \in Jobs : Stranded(i)' => Stranded(i)) /\ faults' = faults /\ (Orphaned' => Orphaned)
  <2>1. /\ worker[w].job \in Jobs /\ worker[w].outcome \in {"done", "failed"} /\ worker[w].pc # "off"
        /\ dir' = [dir EXCEPT ![worker[w].job] = worker[w].outcome] /\ UNCHANGED faults
        /\ \A v \in Workers \ {w} : worker'[v] = worker[v]
    BY <1>6, WorkerMoves DEF Publish, At, Inv, WorkerOK, Busy
  <2>2. ASSUME NEW i \in Jobs, Stranded(i)'  PROVE Stranded(i)
    <3>1. i # worker[w].job /\ dir[i] = "running"
      BY <2>1, <2>2 DEF Stranded, TypeOK
    <3> QED  BY <2>1, <2>2, <3>1 DEF Stranded
  <2>3. ~Orphaned'
    BY <1>6 DEF Publish, Release, Off, Orphaned, Locked, At, TypeOK
  <2> QED  BY <2>1, <2>2, <2>3
<1>7. CASE UNCHANGED vars
  BY <1>7 DEF vars, Stranded, Orphaned, Locked, At
<1> QED  BY <1>1, <1>2, <1>3, <1>4, <1>5, <1>6, <1>7 DEF Next, Work

\* A fault strands at most the job of its worker.
LEMMA FaultStrandsOne ==
    ASSUME TypeOK, Inv, NEW w \in Workers, Raise(w) \/ Kill(w) \/ StartDies(w)
    PROVE  StrandedJobs' \subseteq StrandedJobs \cup {worker[w].job} /\ faults' = faults + 1
<1>1. \A v \in Workers \ {w} : worker'[v] = worker[v]
  BY WorkerMoves
<1>2. dir' = dir /\ faults' = faults + 1
  BY DEF Raise, Kill, StartDies
<1>3. ASSUME NEW i \in Jobs, Stranded(i)', i # worker[w].job  PROVE Stranded(i)
  BY <1>1, <1>2, <1>3 DEF Stranded
<1> QED  BY <1>2, <1>3 DEF StrandedJobs

LEMMA NextStrands == TypeOK /\ Inv /\ FaultsStrandJobs /\ [Next]_vars /\ TypeOK' => FaultsStrandJobs'
<1> SUFFICES ASSUME TypeOK, Inv, FaultsStrandJobs, [Next]_vars, TypeOK'  PROVE FaultsStrandJobs'
  OBVIOUS
<1>1. IsFiniteSet(StrandedJobs) /\ Cardinality(StrandedJobs) \in Nat
  BY QueueAssumption, FS_Subset, FS_CardinalityType DEF StrandedJobs
<1>2. Cardinality(StrandedJobs) <= faults /\ faults \in Nat
  BY DEF StrandedJobs, FaultsStrandJobs, TypeOK
<1>3. CASE \E w \in Workers : Raise(w) \/ Kill(w) \/ StartDies(w)
  <2>1. PICK w \in Workers : Raise(w) \/ Kill(w) \/ StartDies(w)
    BY <1>3
  <2> DEFINE More == StrandedJobs \cup {worker[w].job}
  <2>2. StrandedJobs' \subseteq More /\ faults' = faults + 1
    BY <2>1, FaultStrandsOne
  <2>3. IsFiniteSet(More) /\ Cardinality(More) <= Cardinality(StrandedJobs) + 1 /\ Cardinality(More) \in Nat
    <3>1. IsFiniteSet(More) /\ Cardinality(More) = IF worker[w].job \in StrandedJobs THEN Cardinality(StrandedJobs)
                                                   ELSE Cardinality(StrandedJobs) + 1
      BY <1>1, FS_AddElement
    <3> QED  BY <1>1, <3>1
  <2>4. Cardinality(StrandedJobs') <= Cardinality(More) /\ Cardinality(StrandedJobs') \in Nat
    <3> HIDE DEF More
    <3> QED  BY <2>2, <2>3, FS_Subset, FS_CardinalityType
  <2>5. Cardinality(StrandedJobs') <= faults' /\ faults' > 0
    <3> HIDE DEF More
    <3> QED  BY <1>1, <1>2, <2>2, <2>3, <2>4
  <2> QED  BY <2>5 DEF FaultsStrandJobs, StrandedJobs
<1>4. CASE ~\E w \in Workers : Raise(w) \/ Kill(w) \/ StartDies(w)
  <2>1. StrandedJobs' \subseteq StrandedJobs /\ faults' = faults /\ (Orphaned' => Orphaned)
    BY <1>4, StepStrandsNone
  <2>2. Cardinality(StrandedJobs') <= Cardinality(StrandedJobs) /\ Cardinality(StrandedJobs') \in Nat
    BY <1>1, <2>1, FS_Subset, FS_CardinalityType
  <2>3. Cardinality(StrandedJobs') <= faults'
    BY <1>1, <1>2, <2>1, <2>2
  <2> QED  BY <2>1, <2>3 DEF FaultsStrandJobs, StrandedJobs
<1> QED  BY <1>3, <1>4

\* Only a fault leaves a lock without a worker, and n faults leave at most n jobs
\* that nothing takes up again.
THEOREM FaultsAreContained == Spec => []FaultsStrandJobs
<1>1. Init => FaultsStrandJobs
  <2> SUFFICES ASSUME Init  PROVE FaultsStrandJobs
    OBVIOUS
  <2>1. {j \in Jobs : Stranded(j)} = {} /\ ~Orphaned /\ faults = 0
    BY DEF Init, Stranded, Orphaned, Locked
  <2>2. Cardinality({j \in Jobs : Stranded(j)}) = 0
    BY <2>1, FS_EmptySet
  <2> QED  BY <2>1, <2>2 DEF FaultsStrandJobs
<1>2. TypeOK /\ Inv /\ TypeOK' /\ FaultsStrandJobs /\ [Next]_vars => FaultsStrandJobs'
  BY NextStrands
<1> QED  BY Invariant, <1>1, <1>2, PTL DEF Spec

-----------------------------------------------------------------------------
(* The offline courier.                                                    *)

USE DEF manager, media, records, courierVars, None, Never

-----------------------------------------------------------------------------
(* Types.                                                                  *)

\* Whoever works on the task has a lease, and so has whoever exports it.
Working ==
    /\ task.status \in Active => task.lease # None
    /\ command.op \in {"export", "written"} => command.task.lease # None

Media ==
    /\ now \in Nat /\ last \in Nat /\ fence \in Nat
    /\ bundles \subseteq 1..last /\ results \subseteq bundles \X Outcomes
    /\ imported \in Seq(bundles \X Outcomes) /\ stale \subseteq 1..last

CommandOf(n, bs) == [op : {"none", "export", "written", "import"}, task : Tasks(n, bs),
                     result : ({None} \cup bs) \X (Outcomes \cup {"none"}), at : Int]

Carried ==
    /\ command.op = "written" => command.task.lease \in bundles
    /\ command.op = "import" => command.result \in results

LEMMA TypeParts == CourierTypeOK <=> task \in Tasks(last, bundles) /\ command \in CommandOf(last, bundles) /\ Carried /\ Media
BY DEF CourierTypeOK, CommandOf, Carried, Media

LEMMA TypeNext ==
    CourierTypeOK' <=> task' \in Tasks(last', bundles') /\ command' \in CommandOf(last', bundles') /\ Carried' /\ Media'
BY DEF CourierTypeOK, CommandOf, Carried, Media

\* More leases and more bundles leave a task and a command well formed.
LEMMA TasksGrow ==
    ASSUME NEW n \in Nat, NEW m \in Nat, n <= m, NEW bs, NEW cs, bs \subseteq cs
    PROVE  Tasks(n, bs) \subseteq Tasks(m, cs) /\ CommandOf(n, bs) \subseteq CommandOf(m, cs)
<1>1. 0..n \subseteq 0..m /\ {None} \cup bs \subseteq {None} \cup cs
  OBVIOUS
<1>2. Tasks(n, bs) \subseteq Tasks(m, cs)
  BY <1>1 DEF Tasks
<1>3. ({None} \cup bs) \X (Outcomes \cup {"none"}) \subseteq ({None} \cup cs) \X (Outcomes \cup {"none"})
  BY <1>1
<1>4. CommandOf(n, bs) \subseteq CommandOf(m, cs)
  BY <1>2, <1>3 DEF CommandOf
<1> QED  BY <1>2, <1>4

LEMMA FreshType == ASSUME NEW n \in Nat, NEW bs PROVE Fresh \in Tasks(n, bs) /\ NoCommand \in CommandOf(n, bs)
<1>1. Fresh \in Tasks(n, bs)
  BY DEF Fresh, Tasks, TaskStatuses
<1>2. NoCommand \in CommandOf(n, bs)
  BY <1>1 DEF NoCommand, CommandOf
<1> QED  BY <1>1, <1>2

LEMMA CourierInitType == CourierInit => CourierTypeOK /\ Working
<1> SUFFICES ASSUME CourierInit  PROVE CourierTypeOK /\ Working
  OBVIOUS
<1>1. task \in Tasks(last, bundles) /\ command \in CommandOf(last, bundles)
  BY FreshType DEF CourierInit
<1>2. Carried /\ Media /\ Working
  BY DEF CourierInit, Carried, Media, Working, NoCommand, Fresh, Active
<1> QED  BY <1>1, <1>2, TypeParts

\* A step that leaves command and media alone, from what it does to the task.
LEMMA TaskStep ==
    ASSUME CourierTypeOK, Working, UNCHANGED <<command, bundles, results, imported>>,
           last' \in {last, last + 1}, stale' \subseteq 1..last', now' \in Nat, fence' \in Nat,
           task' \in Tasks(last', bundles), task'.status \in Active => task'.lease # None
    PROVE  CourierTypeOK' /\ Working'
<1>1. last \in Nat /\ last' \in Nat /\ last <= last' /\ command \in CommandOf(last, bundles) /\ Carried /\ Media
  BY TypeParts DEF Media
<1>2. command' \in CommandOf(last', bundles')
  BY <1>1, TasksGrow
<1>3. Carried' /\ Media' /\ Working'
  BY <1>1 DEF Carried, Media, Working
<1> QED  BY <1>2, <1>3, TypeNext

\* A task that is leased gets its type from the next lease.
LEMMA LeasedType ==
    ASSUME CourierTypeOK, NEW k \in Tasks(last, bundles), NEW s \in TaskStatuses, NEW w \in {"laptop", "cloud"}
    PROVE  /\ LeasedTo(k, s, w) \in Tasks(last + 1, bundles)
           /\ LeasedTo(k, s, w).status = s /\ LeasedTo(k, s, w).lease = last + 1
           /\ LeasedTo(k, s, w).digest = k.digest /\ LeasedTo(k, s, w).worker = w
<1>1. now + Lease \in Int /\ last \in Nat
  BY CourierAssumption DEF CourierTypeOK
<1>2. k.dispatch \in 0..(last + 1) /\ last + 1 \in 0..(last + 1)
  BY <1>1 DEF Tasks
<1>3. LeasedTo(k, s, w) = [k EXCEPT !.status = s, !.worker = w, !.lease = last + 1, !.expires = now + Lease]
  BY DEF LeasedTo
<1>4. LeasedTo(k, s, w) \in Tasks(last + 1, bundles)
  BY <1>1, <1>2, <1>3 DEF Tasks
<1>5. /\ LeasedTo(k, s, w).status = s /\ LeasedTo(k, s, w).lease = last + 1
      /\ LeasedTo(k, s, w).digest = k.digest /\ LeasedTo(k, s, w).worker = w
  BY <1>3 DEF Tasks
<1> QED  BY <1>4, <1>5

\* What the record of a result makes of a task.
LEMMA RecordType ==
    ASSUME CourierTypeOK, NEW k \in Tasks(last, bundles), NEW o \in Outcomes, Record(k, o)
    PROVE  /\ last' \in {last, last + 1} /\ task' \in Tasks(last', bundles) /\ task'.digest = k.digest
           /\ \/ last' = last + 1 /\ task'.lease = last'
              \/ /\ last' = last /\ task'.lease = k.lease /\ task'.worker = k.worker
                 /\ task'.expires = k.expires /\ task'.status \notin Active
<1>0. last \in Nat
  BY DEF CourierTypeOK
<1>1. ASSUME NEW s \in {"TRIAGE", "DONE", "BLOCKED"}, NEW e \in BOOLEAN, task' = [k EXCEPT !.status = s, !.evidence = e], last' = last
      PROVE  /\ task' \in Tasks(last', bundles) /\ task'.lease = k.lease /\ task'.worker = k.worker
             /\ task'.expires = k.expires /\ task'.digest = k.digest /\ task'.status = s /\ s \notin Active
  BY <1>1 DEF Tasks, TaskStatuses, Active
<1>2. CASE (task' = [k EXCEPT !.status = "TRIAGE"] \/ task' = [k EXCEPT !.status = "DONE"]) /\ last' = last
  <2>1. /\ k.evidence \in BOOLEAN
        /\ \/ task' = [k EXCEPT !.status = "TRIAGE", !.evidence = k.evidence]
           \/ task' = [k EXCEPT !.status = "DONE", !.evidence = k.evidence]
    BY <1>2 DEF Tasks
  <2> QED  BY <1>1, <1>2, <2>1
<1>3. CASE task' = [k EXCEPT !.status = "BLOCKED", !.evidence = TRUE] /\ last' = last
  BY <1>1, <1>3
<1>4. ASSUME NEW w \in Verifiers(k), task' = [LeasedTo(k, "VERIFYING", w) EXCEPT !.evidence = TRUE], last' = last + 1
      PROVE  task' \in Tasks(last', bundles) /\ task'.lease = last' /\ task'.digest = k.digest
  <2>1. w \in {"laptop", "cloud"} /\ "VERIFYING" \in TaskStatuses
    BY <1>4 DEF Verifiers, TaskStatuses, Active
  <2>2. /\ LeasedTo(k, "VERIFYING", w) \in Tasks(last + 1, bundles)
        /\ LeasedTo(k, "VERIFYING", w).lease = last + 1 /\ LeasedTo(k, "VERIFYING", w).digest = k.digest
    BY <2>1, LeasedType
  <2> QED  BY <1>4, <2>2 DEF Tasks
<1> QED  BY <1>0, <1>2, <1>3, <1>4 DEF Record

-----------------------------------------------------------------------------
(* What holds where no other process saves the runtime under a command.    *)

\* A lease the manager gave up is neither worked on nor in time.
GivenUp == task.lease \in stale => task.expires = Never /\ task.status \notin Active

\* The task still has the lease that was exported: it ends at the fence, and only
\* the laptop has had it.
Exported == task.lease # None /\ task.digest = task.lease =>
                task.worker \in {"laptop", "none"} /\ task.expires \in {Never, fence}

\* What a command has loaded is what the runtime still says.
Held ==
    command.op # "none" =>
        /\ command.task = task
        /\ command.op \in {"export", "written"} => Exportable
        /\ command.op = "import" => /\ command.result[1] = task.digest /\ command.result[1] = task.lease
                                    /\ task.lease \notin stale /\ command.at < fence

Fenced == task.lease \in {None, last} /\ GivenUp /\ Exported /\ Held

\* A new lease is none the courier or the manager has seen, and without a lease
\* there is nothing to say.
LEMMA OtherLease ==
    ASSUME CourierTypeOK, Fenced, Alone, Clear, UNCHANGED <<command, stale>>,
           \/ last' = last + 1 /\ task'.lease = last' /\ task'.digest = task.digest
           \/ task'.lease = None /\ last' = last
    PROVE  Fenced'
<1>1. last + 1 # None /\ last + 1 # task.digest /\ last + 1 \notin stale /\ None \notin stale
  BY DEF CourierTypeOK, Tasks
<1>2. Held'
  BY DEF Held, Clear
<1> QED  BY <1>1, <1>2 DEF Fenced, GivenUp, Exported

\* The task keeps its lease and is not worked on.
LEMMA SameLease ==
    ASSUME Fenced, Alone, Clear, UNCHANGED <<command, last, fence>>,
           task'.lease = task.lease, task'.digest = task.digest, task'.status \notin Active,
           \/ stale' = stale /\ task'.worker = task.worker /\ task'.expires = task.expires
           \/ task'.worker = "none" /\ task'.expires = Never
    PROVE  Fenced'
<1>1. Held'
  BY DEF Held, Clear
<1> QED  BY <1>1 DEF Fenced, GivenUp, Exported

-----------------------------------------------------------------------------
(* The passes of the manager.                                              *)

CourierInv == CourierTypeOK /\ Working /\ (Alone => Fenced)

LEMMA CourierInitInv == CourierInit => CourierInv
<1> SUFFICES ASSUME CourierInit  PROVE CourierInv
  OBVIOUS
<1>1. CourierTypeOK /\ Working
  BY CourierInitType
<1>2. Fenced
  BY DEF CourierInit, Fenced, GivenUp, Exported, Held, NoCommand, Fresh
<1> QED  BY <1>1, <1>2 DEF CourierInv

LEMMA TickInv == ASSUME CourierInv, Tick  PROVE CourierInv'
<1>1. now + 1 \in Nat /\ task \in Tasks(last, bundles) /\ Media /\ UNCHANGED <<task, command, bundles, results, imported, last, stale, fence>>
  BY TypeParts DEF Tick, CourierInv, Media
<1>2. CourierTypeOK' /\ Working'
  BY <1>1, TaskStep DEF Tick, CourierInv, Working, Media
<1> QED  BY <1>1, <1>2 DEF CourierInv, Fenced, GivenUp, Exported, Held, Exportable

\* A pass that leaves the media alone, from its type and from what it does to the lease.
LEMMA PassInv ==
    ASSUME CourierInv, UNCHANGED <<now, command, bundles, results, imported, fence>>,
           last' \in {last, last + 1}, stale' \subseteq 1..last',
           task' \in Tasks(last', bundles), task'.status \in Active => task'.lease # None,
           Alone => Fenced'
    PROVE  CourierInv'
<1>1. now' \in Nat /\ fence' \in Nat
  BY DEF CourierInv, CourierTypeOK
<1>2. CourierTypeOK' /\ Working'
  BY <1>1, TaskStep DEF CourierInv
<1> QED  BY <1>2 DEF CourierInv

\* What every pass starts from.
LEMMA Passing ==
    ASSUME CourierInv
    PROVE  /\ task \in Tasks(last, bundles) /\ Media /\ CourierTypeOK /\ (Alone => Fenced)
           /\ last \in Nat /\ stale \subseteq 1..last /\ stale \subseteq 1..(last + 1)
BY TypeParts DEF CourierInv, Media

LEMMA AssignInv == ASSUME CourierInv, NEW w \in {"laptop", "cloud"}, Assign(w)  PROVE CourierInv'
<1>1. /\ task' = [LeasedTo(task, "LEASED", w) EXCEPT !.producer = w] /\ last' = last + 1
      /\ UNCHANGED <<now, stale, command, bundles, results, imported, fence>> /\ Clear
  BY DEF Assign
<1>2. /\ LeasedTo(task, "LEASED", w) \in Tasks(last + 1, bundles)
      /\ LeasedTo(task, "LEASED", w).lease = last + 1 /\ LeasedTo(task, "LEASED", w).digest = task.digest
  BY Passing, LeasedType DEF TaskStatuses, Active
<1>3. task' \in Tasks(last', bundles) /\ task'.lease = last' /\ task'.digest = task.digest /\ task'.lease # None
  BY <1>1, <1>2, Passing DEF Tasks
<1>4. Alone => Fenced'
  BY <1>1, <1>3, OtherLease, Passing
<1> QED  BY <1>1, <1>3, <1>4, Passing, PassInv

LEMMA DispatchInv == ASSUME CourierInv, Dispatch  PROVE CourierInv'
<1>1. PICK s \in Active : task' = [task EXCEPT !.status = s, !.dispatch = task.lease, !.expires = now + Lease]
  BY DEF Dispatch, Active
<1>2. /\ UNCHANGED <<now, last, command, stale, bundles, results, imported, fence>> /\ Clear
      /\ task.status \in Active /\ task.worker = "cloud"
  BY DEF Dispatch
<1>3. task.lease \in 0..last /\ now + Lease \in Int /\ s \in TaskStatuses
  BY <1>1, Passing, CourierAssumption DEF Tasks, Media, TaskStatuses
<1>4. task' \in Tasks(last', bundles) /\ task'.lease = task.lease /\ task'.digest = task.digest
  BY <1>1, <1>2, <1>3, Passing DEF Tasks
<1>5. task.lease # None
  BY <1>2 DEF CourierInv, Working
<1>6. ASSUME Alone  PROVE Fenced'
  <2>1. task.lease \notin stale /\ task.digest # task.lease
    BY <1>2, <1>5, <1>6, Passing DEF Fenced, GivenUp, Exported
  <2>2. Held'
    BY <1>2, <1>6 DEF Held, Clear
  <2>3. task.lease \in {None, last}
    BY <1>6, Passing DEF Fenced
  <2> QED  BY <1>2, <1>4, <2>1, <2>2, <2>3 DEF Fenced, GivenUp, Exported
<1> QED  BY <1>2, <1>4, <1>5, <1>6, Passing, PassInv

LEMMA PollInv == ASSUME CourierInv, NEW o \in Outcomes, Poll(o)  PROVE CourierInv'
<1>1. Record(task, o) /\ UNCHANGED <<now, command, stale, bundles, results, imported, fence>> /\ Clear
  BY DEF Poll
<1>2. /\ last' \in {last, last + 1} /\ task' \in Tasks(last', bundles) /\ task'.digest = task.digest
      /\ \/ last' = last + 1 /\ task'.lease = last'
         \/ /\ last' = last /\ task'.lease = task.lease /\ task'.worker = task.worker
            /\ task'.expires = task.expires /\ task'.status \notin Active
  BY <1>1, Passing, RecordType
<1>3. Alone => Fenced'
  BY <1>1, <1>2, Passing, OtherLease, SameLease
<1>4. stale' \subseteq 1..last' /\ (task'.status \in Active => task'.lease # None)
  BY <1>1, <1>2, Passing
<1> QED  BY <1>1, <1>2, <1>3, <1>4, PassInv

LEMMA ExpireInv == ASSUME CourierInv, Expire  PROVE CourierInv'
<1>1. /\ task' = [task EXCEPT !.status = "TRIAGE", !.worker = "none", !.expires = Never] /\ stale' = stale \cup {task.lease}
      /\ UNCHANGED <<now, last, command, bundles, results, imported, fence>> /\ Clear /\ task.status \in Active
  BY DEF Expire
<1>2. /\ task' \in Tasks(last', bundles) /\ task'.lease = task.lease /\ task'.digest = task.digest
      /\ task'.worker = "none" /\ task'.expires = Never /\ task'.status = "TRIAGE"
  <2>1. "TRIAGE" \in TaskStatuses /\ Never \in Int
    BY DEF TaskStatuses
  <2> QED  BY <1>1, <2>1, Passing DEF Tasks
<1>3. task.lease \in 1..last
  BY <1>1, Passing DEF CourierInv, Working, Tasks
<1>4. Alone => Fenced'
  BY <1>1, <1>2, Passing, SameLease DEF Active
<1>5. stale' \subseteq 1..last' /\ task'.status \notin Active
  BY <1>1, <1>2, <1>3, Passing DEF Active
<1> QED  BY <1>1, <1>2, <1>4, <1>5, PassInv

LEMMA TriageInv == ASSUME CourierInv, Triage  PROVE CourierInv'
<1>1. UNCHANGED <<now, stale, command, bundles, results, imported, fence>> /\ Clear
  BY DEF Triage
<1>2. ASSUME NEW s \in {"READY", "BLOCKED"}, NEW r \in BOOLEAN, task' = [task EXCEPT !.status = s, !.retried = r], last' = last
      PROVE  CourierInv'
  <2>1. /\ task' \in Tasks(last', bundles) /\ task'.lease = task.lease /\ task'.digest = task.digest
        /\ task'.worker = task.worker /\ task'.expires = task.expires /\ task'.status \notin Active
    BY <1>2, Passing DEF Tasks, TaskStatuses, Active
  <2>2. Alone => Fenced'
    BY <1>1, <1>2, <2>1, Passing, SameLease
  <2> QED  BY <1>1, <1>2, <2>1, <2>2, Passing, PassInv
<1>3. CASE task' = [LeasedTo(task, "RUNNING", "cloud") EXCEPT !.analysis = TRUE] /\ last' = last + 1
  <2> DEFINE L == LeasedTo(task, "RUNNING", "cloud")
  <2>1. L \in Tasks(last + 1, bundles) /\ L.lease = last + 1 /\ L.digest = task.digest
    BY Passing, LeasedType DEF TaskStatuses, Active
  <2>2. task' \in Tasks(last', bundles) /\ task'.lease = last' /\ task'.digest = task.digest /\ task'.lease # None
    <3>1. task' = [L EXCEPT !.analysis = TRUE] /\ last' = last + 1 /\ last \in Nat
      BY <1>3, Passing
    <3> HIDE DEF L
    <3>2. task' \in Tasks(last + 1, bundles)
      BY <2>1, <3>1 DEF Tasks
    <3>3. task'.lease = L.lease /\ task'.digest = L.digest
      BY <2>1, <3>1 DEF Tasks
    <3> QED  BY <2>1, <3>1, <3>2, <3>3
  <2>3. Alone => Fenced'
    BY <1>1, <1>3, <2>2, Passing, OtherLease
  <2> QED  BY <1>1, <1>3, <2>2, <2>3, Passing, PassInv
<1>4. CASE task' = [task EXCEPT !.status = "READY", !.retried = TRUE] /\ last' = last
  BY <1>2, <1>4
<1>5. CASE task' = [task EXCEPT !.status = "BLOCKED"] /\ last' = last
  <2>1. task' = [task EXCEPT !.status = "BLOCKED", !.retried = task.retried] /\ task.retried \in BOOLEAN
    BY <1>5, Passing DEF Tasks
  <2> QED  BY <1>2, <1>5, <2>1
<1> QED  BY <1>3, <1>4, <1>5 DEF Triage

LEMMA RequeueInv == ASSUME CourierInv, Requeue  PROVE CourierInv'
<1>1. /\ task' = [task EXCEPT !.status = "READY", !.worker = "none", !.lease = None, !.expires = Never,
                             !.dispatch = None, !.analysis = FALSE, !.evidence = FALSE]
      /\ UNCHANGED <<now, last, stale, command, bundles, results, imported, fence>> /\ Clear
  BY DEF Requeue
<1>2. task' \in Tasks(last', bundles) /\ task'.lease = None /\ task'.status = "READY"
  <2>1. "READY" \in TaskStatuses /\ Never \in Int /\ None \in 0..last
    BY Passing DEF TaskStatuses
  <2> QED  BY <1>1, <2>1, Passing DEF Tasks
<1>3. Alone => Fenced'
  BY <1>1, <1>2, Passing, OtherLease
<1> QED  BY <1>1, <1>2, <1>3, Passing, PassInv DEF Active

LEMMA RedefineInv == ASSUME CourierInv, Redefine  PROVE CourierInv'
<1>1. task' = Fresh /\ UNCHANGED <<now, last, stale, command, bundles, results, imported, fence>> /\ Clear
  BY DEF Redefine
<1>2. task' \in Tasks(last', bundles) /\ task'.lease = None /\ task'.status = "READY"
  BY <1>1, Passing, FreshType DEF Fresh
<1>3. Alone => Fenced'
  BY <1>1, <1>2, Passing, OtherLease
<1> QED  BY <1>1, <1>2, <1>3, Passing, PassInv DEF Active

-----------------------------------------------------------------------------
(* The courier.                                                            *)

\* A command starts from what the runtime says.
LEMMA LoadInv ==
    ASSUME CourierInv, UNCHANGED <<now, task, last, bundles, results, imported, stale, fence>>,
           NEW op \in {"export", "import"}, NEW r \in ({None} \cup bundles) \X (Outcomes \cup {"none"}), Loads(op, r),
           op = "export" => Exportable,
           op = "import" => r \in results /\ Accepts(r)
    PROVE  CourierInv'
<1>1. command' = [op |-> op, task |-> task, result |-> r, at |-> now] /\ now \in Int
  BY Passing DEF Loads, Media
<1>2. command' \in CommandOf(last', bundles')
  BY <1>1, Passing DEF CommandOf
<1>3. Carried' /\ Media'
  BY <1>1, Passing DEF Carried, Media
<1>4. CourierTypeOK'
  BY <1>2, <1>3, Passing, TypeNext
<1>5. Working'
  BY <1>1 DEF CourierInv, Working, Exportable, Active
<1>6. ASSUME Alone  PROVE Fenced'
  <2>1. GivenUp /\ Exported /\ task.lease \in {None, last}
    BY <1>6, Passing DEF Fenced
  <2>2. CASE op = "export"
    <3>1. Held'
      BY <1>1, <2>2 DEF Held, Exportable
    <3> QED  BY <2>1, <3>1 DEF Fenced, GivenUp, Exported
  <2>3. CASE op = "import"
    <3>1. r \in bundles \X Outcomes /\ bundles \subseteq 1..last /\ task.expires \in Int /\ now \in Nat
      BY <2>3, Passing DEF Media, Tasks
    <3>2. r[1] = task.digest /\ r[1] = task.lease /\ task.expires # Never /\ task.expires > now /\ r[1] # None
      BY <2>3, <3>1 DEF Accepts, InTime
    <3>3. task.lease \notin stale /\ now < fence
      BY <2>1, <3>1, <3>2 DEF GivenUp, Exported
    <3>4. Held'
      BY <1>1, <2>3, <3>2, <3>3 DEF Held
    <3> QED  BY <2>1, <3>4 DEF Fenced, GivenUp, Exported
  <2> QED  BY <2>2, <2>3
<1> QED  BY <1>4, <1>5, <1>6 DEF CourierInv

LEMMA ExportInv == ASSUME CourierInv, Export  PROVE CourierInv'
<1>1. <<None, "none">> \in ({None} \cup bundles) \X (Outcomes \cup {"none"})
  OBVIOUS
<1>2. Loads("export", <<None, "none">>) /\ Exportable
  BY DEF Export
<1>3. UNCHANGED <<now, task, last, bundles, results, imported, stale, fence>>
  BY DEF Export
<1> QED  BY <1>1, <1>2, <1>3, LoadInv

LEMMA ImportInv == ASSUME CourierInv, NEW r \in results, Import(r)  PROVE CourierInv'
<1>1. r \in ({None} \cup bundles) \X (Outcomes \cup {"none"})
  BY Passing DEF Media
<1>2. Loads("import", r) /\ Accepts(r)
  BY DEF Import
<1>3. UNCHANGED <<now, task, last, bundles, results, imported, stale, fence>>
  BY DEF Import
<1> QED  BY <1>1, <1>2, <1>3, LoadInv

\* More bundles on media leave what was carried back and imported well formed.
LEMMA MoreBundles ==
    ASSUME Media, NEW l \in 1..last
    PROVE  LET bs == bundles \cup {l}
           IN  bs \subseteq 1..last /\ results \subseteq bs \X Outcomes /\ imported \in Seq(bs \X Outcomes)
<1> DEFINE bs == bundles \cup {l}
<1>1. bs \subseteq 1..last /\ results \subseteq bs \X Outcomes
  BY DEF Media
<1>2. imported \in Seq(bundles \X Outcomes) /\ bundles \X Outcomes \subseteq bs \X Outcomes
  BY DEF Media
<1>3. imported \in Seq(bs \X Outcomes)
  <2> HIDE DEF bs
  <2> DEFINE old == bundles \X Outcomes  new == bs \X Outcomes
  <2>1. imported \in Seq(old) /\ old \subseteq new
    BY <1>2
  <2> HIDE DEF old, new
  <2>2. imported \in Seq(new)
    BY <2>1
  <2> QED  BY <2>2 DEF new
<1> QED  BY <1>1, <1>3

LEMMA WriteBundleInv == ASSUME CourierInv, WriteBundle  PROVE CourierInv'
<1>1. /\ command.op = "export" /\ command' = [command EXCEPT !.op = "written"] /\ bundles' = bundles \cup {command.task.lease}
      /\ UNCHANGED <<now, task, last, results, imported, stale, fence>>
  BY DEF WriteBundle
<1>2. command \in CommandOf(last, bundles) /\ command.task \in Tasks(last, bundles)
  BY TypeParts DEF CourierInv, CommandOf
<1>3. command.task.lease \in 1..last
  BY <1>1, <1>2, Passing DEF CourierInv, Working, Tasks
<1>4. bundles' \subseteq 1..last /\ results \subseteq bundles' \X Outcomes /\ imported \in Seq(bundles' \X Outcomes)
  BY <1>1, <1>3, Passing, MoreBundles
<1>5. Media'
  BY <1>1, <1>4, Passing DEF Media
<1>6. task' \in Tasks(last', bundles') /\ command \in CommandOf(last', bundles')
  <2>1. bundles \subseteq bundles' /\ last \in Nat /\ last <= last
    BY <1>1, Passing
  <2>2. Tasks(last, bundles) \subseteq Tasks(last, bundles') /\ CommandOf(last, bundles) \subseteq CommandOf(last, bundles')
    BY <2>1, TasksGrow
  <2> QED  BY <1>1, <1>2, <2>2, Passing
<1>7. /\ command' \in CommandOf(last', bundles') /\ command'.op = "written" /\ command'.task = command.task
      /\ command'.result = command.result /\ command'.at = command.at
  BY <1>1, <1>6 DEF CommandOf
<1>8. CourierTypeOK' /\ Working'
  BY <1>1, <1>3, <1>5, <1>6, <1>7, TypeNext DEF Carried, CourierInv, Working
<1>9. ASSUME Alone  PROVE Fenced'
  <2>1. Held'
    BY <1>1, <1>7, <1>9 DEF CourierInv, Fenced, Held, Exportable
  <2> QED  BY <1>1, <1>9, <2>1 DEF CourierInv, Fenced, GivenUp, Exported
<1> QED  BY <1>8, <1>9 DEF CourierInv

\* A command is over and the runtime is saved or not.
LEMMA OverInv ==
    ASSUME CourierInv, command' = NoCommand, UNCHANGED <<now, bundles, results>>,
           last' \in {last, last + 1}, stale' = stale, fence' \in Nat,
           task' \in Tasks(last', bundles), task'.status \in Active => task'.lease # None,
           imported' \in Seq(bundles \X Outcomes),
           Alone => task'.lease \in {None, last'} /\ GivenUp' /\ Exported'
    PROVE  CourierInv'
<1>1. last' \in Nat /\ now' \in Nat /\ stale' \subseteq 1..last'
  BY Passing DEF Media
<1>2. command' \in CommandOf(last', bundles') /\ command'.op = "none"
  BY <1>1, FreshType DEF NoCommand
<1>3. Carried' /\ Working' /\ Held'
  BY <1>2 DEF Carried, Working, Held
<1>4. bundles \subseteq 1..last' /\ results \subseteq bundles \X Outcomes
  BY <1>1, Passing DEF Media
<1>5. Media'
  BY <1>1, <1>4 DEF Media
<1>6. CourierTypeOK'
  BY <1>2, <1>3, <1>5, TypeNext
<1> QED  BY <1>3, <1>6 DEF CourierInv, Fenced

LEMMA SaveExportInv == ASSUME CourierInv, SaveExport  PROVE CourierInv'
<1> DEFINE k == command.task
<1>1. /\ command.op = "written" /\ command' = NoCommand /\ fence' = now + OfflineLease
      /\ task' = [k EXCEPT !.status = "RUNNING", !.dispatch = k.lease, !.digest = k.lease, !.offline = TRUE,
                           !.expires = now + OfflineLease]
      /\ UNCHANGED <<now, last, bundles, results, imported, stale>>
  BY DEF SaveExport
<1>2. k \in Tasks(last, bundles) /\ k.lease \in bundles /\ k.lease # None
  BY <1>1, TypeParts DEF CourierInv, CommandOf, Carried, Working
<1>3. now + OfflineLease \in Nat /\ now + OfflineLease \in Int /\ imported \in Seq(bundles \X Outcomes)
  BY Passing, CourierAssumption DEF Media
<1>4. /\ task' \in Tasks(last', bundles) /\ task'.lease = k.lease /\ task'.digest = k.lease /\ task'.worker = k.worker
      /\ task'.expires = fence'
  <2>1. "RUNNING" \in TaskStatuses /\ k.lease \in 0..last
    BY <1>2 DEF TaskStatuses, Active, Tasks
  <2> QED  BY <1>1, <1>2, <1>3, <2>1 DEF Tasks
<1>5. ASSUME Alone  PROVE task'.lease \in {None, last'} /\ GivenUp' /\ Exported'
  <2>1. k = task /\ Exportable /\ task.lease \in {None, last} /\ GivenUp
    BY <1>1, <1>5 DEF CourierInv, Fenced, Held
  <2>2. task.worker = "laptop" /\ task.lease \notin stale
    BY <2>1 DEF Exportable, GivenUp, Active
  <2> QED  BY <1>1, <1>4, <2>1, <2>2 DEF GivenUp, Exported
<1> QED  BY <1>1, <1>2, <1>3, <1>4, <1>5, OverInv

LEMMA ExecuteInv == ASSUME CourierInv, NEW l \in bundles, NEW o \in Outcomes, Execute(l, o)  PROVE CourierInv'
<1>1. UNCHANGED <<now, task, command, last, bundles, imported, stale, fence>> /\ results' = results \cup {<<l, o>>}
  BY DEF Execute
<1>2. Media' /\ results \subseteq results'
  BY <1>1, Passing DEF Media
<1>3. Carried' /\ task' \in Tasks(last', bundles') /\ command' \in CommandOf(last', bundles')
  BY <1>1, <1>2, TypeParts DEF CourierInv, Carried
<1>4. CourierTypeOK' /\ Working'
  BY <1>1, <1>2, <1>3, TypeNext DEF CourierInv, Working
<1> QED  BY <1>1, <1>4 DEF CourierInv, Fenced, GivenUp, Exported, Held, Exportable

LEMMA SaveImportInv == ASSUME CourierInv, SaveImport  PROVE CourierInv'
<1> DEFINE k == command.task
           r == command.result
<1>1. /\ command.op = "import" /\ command' = NoCommand /\ Record(k, r[2]) /\ imported' = Append(imported, r)
      /\ UNCHANGED <<now, bundles, results, stale, fence>>
  BY DEF SaveImport
<1>2. k \in Tasks(last, bundles) /\ r \in results /\ r \in bundles \X Outcomes /\ r[2] \in Outcomes
  BY <1>1, TypeParts DEF CourierInv, CommandOf, Carried, Media
<1>3. imported' \in Seq(bundles \X Outcomes) /\ fence' \in Nat
  BY <1>1, <1>2, Passing DEF Media
<1>4. /\ last' \in {last, last + 1} /\ task' \in Tasks(last', bundles) /\ task'.digest = k.digest
      /\ \/ last' = last + 1 /\ task'.lease = last'
         \/ /\ last' = last /\ task'.lease = k.lease /\ task'.worker = k.worker
            /\ task'.expires = k.expires /\ task'.status \notin Active
  BY <1>1, <1>2, Passing, RecordType
<1>5. task'.status \in Active => task'.lease # None
  BY <1>4, Passing
<1>6. ASSUME Alone  PROVE task'.lease \in {None, last'} /\ GivenUp' /\ Exported'
  <2>1. k = task /\ task.lease \in {None, last} /\ GivenUp /\ Exported
    BY <1>1, <1>6 DEF CourierInv, Fenced, Held
  <2>2. CASE last' = last + 1 /\ task'.lease = last'
    <3>1. last + 1 # task.digest /\ last + 1 \notin stale
      BY Passing DEF Tasks, Media
    <3> QED  BY <1>1, <1>4, <2>1, <2>2, <3>1 DEF GivenUp, Exported
  <2>3. CASE /\ last' = last /\ task'.lease = k.lease /\ task'.worker = k.worker
             /\ task'.expires = k.expires /\ task'.status \notin Active
    BY <1>1, <1>4, <2>1, <2>3 DEF GivenUp, Exported
  <2> QED  BY <1>4, <2>2, <2>3
<1> QED  BY <1>1, <1>3, <1>4, <1>5, <1>6, OverInv

LEMMA CommandDiesInv == ASSUME CourierInv, CommandDies  PROVE CourierInv'
<1>1. command' = NoCommand /\ UNCHANGED <<now, task, last, bundles, results, imported, stale, fence>>
  BY DEF CommandDies
<1>2. fence' \in Nat /\ imported' \in Seq(bundles \X Outcomes) /\ task' \in Tasks(last', bundles)
  BY <1>1, Passing DEF Media
<1>3. task'.status \in Active => task'.lease # None
  BY <1>1 DEF CourierInv, Working
<1>4. Alone => task'.lease \in {None, last'} /\ GivenUp' /\ Exported'
  BY <1>1 DEF CourierInv, Fenced, GivenUp, Exported
<1> QED  BY <1>1, <1>2, <1>3, <1>4, OverInv

-----------------------------------------------------------------------------
(* The theorems.                                                           *)

LEMMA CourierNextInv == CourierInv /\ [CourierNext]_courierVars => CourierInv'
<1> SUFFICES ASSUME CourierInv, [CourierNext]_courierVars  PROVE CourierInv'
  OBVIOUS
<1>1. CASE UNCHANGED courierVars
  <2>1. UNCHANGED <<now, task, command, last, bundles, results, imported, stale, fence>>
    BY <1>1
  <2>2. task' \in Tasks(last', bundles') /\ command' \in CommandOf(last', bundles') /\ Carried' /\ Media'
    BY <2>1, TypeParts DEF CourierInv, Carried, Media
  <2>3. CourierTypeOK'
    BY <2>2, TypeNext
  <2> QED  BY <2>1, <2>3 DEF CourierInv, Working, Fenced, GivenUp, Exported, Held, Exportable
<1> QED
  BY <1>1, TickInv, AssignInv, DispatchInv, PollInv, ExpireInv, TriageInv, RequeueInv, RedefineInv, ExportInv,
     WriteBundleInv, SaveExportInv, ExecuteInv, ImportInv, SaveImportInv, CommandDiesInv DEF CourierNext

LEMMA CourierInvariant == CourierSpec => []CourierInv
BY CourierInitInv, CourierNextInv, PTL DEF CourierSpec

\* Bundles, results, the task and what a command has loaded of it stay well formed,
\* also when commands die half-way and when other processes save the runtime under
\* them: what the runtime calls exported is on a medium.
THEOREM CourierTypeCorrect == CourierSpec => []CourierTypeOK
<1>1. CourierInv => CourierTypeOK
  BY DEF CourierInv
<1> QED  BY CourierInvariant, <1>1, PTL

\* Where no other process saves the runtime under a command: whatever copies of
\* bundles are executed and carried back when, a result is imported only for the
\* newest lease, if it came in time and before the manager gave the lease up.
THEOREM ImportsCurrent == ASSUME Alone PROVE CourierSpec => ImportsAreCurrent
<1>1. ASSUME CourierInv, [CourierNext]_courierVars, imported' # imported
      PROVE  LET l == imported'[Len(imported')][1] IN l = last /\ l \notin stale /\ command.at < fence
  <2>1. SaveImport
    BY <1>1 DEF CourierNext, Tick, Dispatch, Expire, Triage, Requeue, Redefine, Assign, Poll, Export, WriteBundle,
                SaveExport, Execute, Import, CommandDies
  <2>2. command.op = "import" /\ imported' = Append(imported, command.result) /\ imported \in Seq(bundles \X Outcomes)
    BY <1>1, <2>1, Passing DEF SaveImport, Media
  <2>3. imported'[Len(imported')] = command.result
    BY <2>2
  <2>4. /\ command.result[1] = task.lease /\ task.lease \notin stale /\ command.at < fence
        /\ task.lease \in {None, last}
    BY <1>1, <2>2 DEF CourierInv, Fenced, Held
  <2>5. command.result[1] # None
    BY <1>1, <2>2, TypeParts DEF CourierInv, Carried, Media
  <2> QED  BY <2>3, <2>4, <2>5
<1>2. CourierInv /\ [CourierNext]_courierVars => [imported' # imported =>
          LET l == imported'[Len(imported')][1] IN l = last /\ l \notin stale /\ command.at < fence]_courierVars
  BY <1>1
<1> QED  BY CourierInvariant, <1>2, PTL DEF CourierSpec, ImportsAreCurrent
=============================================================================

----------------------- MODULE PaperWriterFenceProofs -----------------------
(* Proofs about PaperWriterFence.                                           *)
EXTENDS PaperWriterFence, TLAPS

-----------------------------------------------------------------------------
(* Types.                                                                  *)

\* What observe has established when its observation is accepted.
Admitted ==
    txn.issued # 0 =>
        /\ txn.issued < txn.expires
        /\ txn.seen.fenced /\ txn.seen.at >= txn.started
        /\ txn.seen.hold >= txn.expires + Margin

Typed == TypeOK /\ Admitted

\* Transaction, field by field.
LEMMA TransactionFields ==
    /\ \A t \in Transaction :
          /\ t = [request |-> t.request, proc |-> t.proc, writer |-> t.writer,
                  started |-> t.started, expires |-> t.expires, seen |-> t.seen,
                  issued |-> t.issued]
          /\ t.request \in Nat /\ t.proc \in Procs \cup {Nobody} /\ t.writer \in Writers
          /\ t.started \in Nat /\ t.expires \in Nat /\ t.issued \in Nat
          /\ t.seen \in Observation
          /\ t.seen.fenced \in BOOLEAN /\ t.seen.at \in Int /\ t.seen.hold \in Int
    /\ NoTransaction \in Transaction
    /\ NoTransaction.proc = Nobody /\ NoTransaction.request = 0 /\ NoTransaction.issued = 0
  BY DEF Transaction, Observation, NoTransaction, NoObservation, Writers

LEMMA PowerOffType ==
    ASSUME TypeOK, NEW m \in Writers, PowerOff(m), permits' = permits
    PROVE  /\ on' \in [Writers -> BOOLEAN]
           /\ pc' \in [Procs -> Places]
           /\ proof' \in [Procs -> 0..Epoch']
           /\ receipt' \in [Procs -> 0..Epoch']
           /\ file' \in [Writers -> 0..Epoch']
           /\ synced' \in [Writers -> 0..Epoch']
<1>1. Epoch \in Nat /\ Epoch' = Epoch
  BY DEF TypeOK, Epoch
<1>2. on' \in [Writers -> BOOLEAN]
  BY DEF TypeOK, PowerOff
<1>3. /\ pc' \in [Procs -> Places]
      /\ proof' \in [Procs -> 0..Epoch]
      /\ receipt' \in [Procs -> 0..Epoch]
  BY <1>1 DEF TypeOK, PowerOff, Dead, Places
<1>4. file' \in [Writers -> 0..Epoch]
  BY <1>1 DEF TypeOK, PowerOff
<1>5. synced' \in [Writers -> 0..Epoch]
  BY <1>1, <1>4 DEF TypeOK, PowerOff
<1> QED
  BY <1>1, <1>2, <1>3, <1>4, <1>5

LEMMA TypeStep ==
    ASSUME Typed, [Next]_vars
    PROVE  Typed'
<1> USE DEF Typed, powerVars, arbiterVars, procVars, fileVars
<1>e. Epoch \in Nat /\ now \in Nat
  BY DEF TypeOK, Epoch
<1>f. /\ txn \in Transaction /\ txn.request \in Nat /\ txn.writer \in Writers
      /\ txn.started \in Nat /\ txn.expires \in Nat /\ txn.issued \in Nat
      /\ txn.seen.fenced \in BOOLEAN /\ txn.seen.at \in Int /\ txn.seen.hold \in Int
  BY TransactionFields DEF TypeOK
<1>h. HoldRequested \in Int
  BY <1>f, TimeAssumption DEF HoldRequested
<1>1. ASSUME NEW r \in DOMAIN requests, NEW ttl \in Ttls, BeginIssue(r, ttl)
      PROVE  Typed'
  <2>1. r \in Nat /\ requests[r] \in Writers /\ ttl \in Nat
    BY TimeAssumption DEF TypeOK
  <2>2. txn' \in Transaction /\ txn'.proc = Nobody /\ txn'.issued = 0
    BY <1>1, <1>e, <2>1 DEF BeginIssue, Transaction, NoObservation, Observation
  <2> QED
    BY <1>1, <2>2 DEF BeginIssue, TypeOK, Epoch, Admitted
<1>2. ASSUME NEW p \in Procs, BeginCurrent(p)
      PROVE  Typed'
  <2>1. permits[Epoch].expires \in Nat /\ Machine[p] \in Writers
    <3>1. Epoch \in 1..Len(permits)
      BY <1>2, <1>e DEF BeginCurrent, LeaseIsActive, Epoch
    <3>2. permits[Epoch] \in Permit
      BY <3>1 DEF TypeOK
    <3> QED
      BY <3>2, MachineAssumption DEF Permit
  <2>2. txn' \in Transaction /\ txn'.request = 0 /\ txn'.issued = 0
    BY <1>2, <1>e, <2>1 DEF BeginCurrent, Transaction, NoObservation, Observation
  <2>3. pc' \in [Procs -> Places]
    BY <1>2 DEF BeginCurrent, TypeOK, Places
  <2> QED
    BY <1>2, <2>2, <2>3 DEF BeginCurrent, TypeOK, Epoch, Admitted
<1>3. ASSUME FencePeer
      PROVE  Typed'
  <2> DEFINE m == Other(txn.writer)
  <2>1. m \in Writers
    BY DEF Other, Writers
  <2>2. PICK h \in {txn.expires - 1, HoldRequested} :
           /\ hold' = [hold EXCEPT ![m] = IF @ < h THEN h ELSE @]
           /\ txn' = [txn EXCEPT !.seen = [fenced |-> TRUE, at |-> now, hold |-> h]]
           /\ PowerOff(m)
    BY <1>3 DEF FencePeer
  <2>3. txn \in Transaction /\ h \in Int /\ txn.seen = NoObservation
    BY <1>3, <1>f, <1>h DEF FencePeer
  <2>4. hold' \in [Writers -> Int]
    BY <2>1, <2>2, <2>3 DEF TypeOK
  <2>5. [fenced |-> TRUE, at |-> now, hold |-> h] \in Observation
    BY <2>3, <1>e DEF Observation
  <2>6. /\ txn' \in Transaction
        /\ txn'.proc = txn.proc /\ txn'.request = txn.request /\ txn'.issued = txn.issued
    BY <2>2, <2>3, <2>5 DEF Transaction
  <2>7. txn.issued = 0
    BY <2>3 DEF Admitted, NoObservation
  <2>8. UNCHANGED <<now, arbiterVars, lock, wrote>>
    BY <1>3 DEF FencePeer
  <2>9. /\ on' \in [Writers -> BOOLEAN]
        /\ pc' \in [Procs -> Places]
        /\ proof' \in [Procs -> 0..Epoch']
        /\ receipt' \in [Procs -> 0..Epoch']
        /\ file' \in [Writers -> 0..Epoch']
        /\ synced' \in [Writers -> 0..Epoch']
    BY <2>1, <2>2, <2>8, PowerOffType
  <2> QED
    BY <2>4, <2>6, <2>7, <2>8, <2>9 DEF TypeOK, Epoch, Admitted
<1>4. ASSUME FenceFails
      PROVE  Typed'
  <2>1. txn \in Transaction /\ HoldRequested \in Int /\ txn.seen = NoObservation
    BY <1>4, <1>f, <1>h DEF FenceFails
  <2> DEFINE idle == [fenced |-> FALSE, at |-> now, hold |-> HoldRequested]
             old == [fenced |-> TRUE, at |-> txn.started - 1, hold |-> HoldRequested]
  <2>o. idle \in Observation /\ old \in Observation
    BY <1>e, <1>f, <1>h DEF Observation
  <2>2. PICK seen \in Observation : txn' = [txn EXCEPT !.seen = seen]
    BY <1>4, <2>o DEF FenceFails
  <2>3. /\ txn' \in Transaction
        /\ txn'.proc = txn.proc /\ txn'.request = txn.request /\ txn'.issued = txn.issued
    BY <2>1, <2>2 DEF Transaction
  <2>4. txn.issued = 0
    BY <2>1 DEF Admitted, NoObservation
  <2> QED
    BY <1>4, <2>3, <2>4 DEF FenceFails, TypeOK, Epoch, Admitted
<1>5. ASSUME Observe
      PROVE  Typed'
  <2>1. txn \in Transaction
    BY DEF TypeOK
  <2>2. /\ txn' \in Transaction
        /\ txn'.proc = txn.proc /\ txn'.request = txn.request /\ txn'.issued = now
        /\ txn'.expires = txn.expires /\ txn'.started = txn.started /\ txn'.seen = txn.seen
    BY <1>5, <1>e, <2>1 DEF Observe, Transaction
  <2>3. Admitted'
    BY <1>5, <1>e, <2>1, <2>2, TransactionFields DEF Observe, Observed, Admitted
  <2> QED
    BY <1>5, <2>2, <2>3 DEF Observe, TypeOK, Epoch
<1>6. ASSUME CommitIssue
      PROVE  Typed'
  <2> DEFINE permit == [writer |-> txn.writer, request |-> txn.request,
                        issued |-> txn.issued, expires |-> txn.expires]
  <2>1. permit \in Permit /\ txn.request \in Nat
    BY TransactionFields DEF TypeOK, Permit
  <2>2. permits' = Append(permits, permit) /\ permits' \in Seq(Permit) /\ Epoch' = Epoch + 1
    BY <1>6, <2>1 DEF CommitIssue, TypeOK, Epoch
  <2>3. permit.issued < permit.expires
    BY <1>6 DEF CommitIssue, Admitted
  <2>4. \A e \in 1..Epoch' : permits'[e].issued < permits'[e].expires
    BY <1>e, <2>2, <2>3 DEF TypeOK, Epoch
  <2>5. /\ proof \in [Procs -> 0..Epoch'] /\ receipt \in [Procs -> 0..Epoch']
        /\ file \in [Writers -> 0..Epoch'] /\ synced \in [Writers -> 0..Epoch']
    BY <1>e, <2>2 DEF TypeOK
  <2>6. used' \subseteq Nat
    BY <1>6, <2>1 DEF CommitIssue, TypeOK
  <2>7. Admitted'
    BY <1>6, TransactionFields DEF CommitIssue, Admitted
  <2> QED
    BY <1>6, <2>2, <2>4, <2>5, <2>6, <2>7, TransactionFields DEF CommitIssue, TypeOK
<1>7. ASSUME AnswerCurrent
      PROVE  Typed'
  <2>1. Epoch' = Epoch /\ Epoch \in 0..Epoch /\ 0 \in 0..Epoch
    BY <1>7, <1>e DEF AnswerCurrent, Epoch
  <2>2. proof' \in [Procs -> 0..Epoch]
    BY <1>7, <2>1 DEF AnswerCurrent, TypeOK
  <2>3. pc' \in [Procs -> Places]
    BY <1>7 DEF AnswerCurrent, TypeOK, Places
  <2> QED
    BY <1>7, <2>1, <2>2, <2>3, TransactionFields DEF AnswerCurrent, TypeOK, Admitted
<1>8. ASSUME Abort
      PROVE  Typed'
  <2>1. pc' \in [Procs -> Places]
    BY <1>8 DEF Abort, TypeOK, Places
  <2> QED
    BY <1>8, <2>1, TransactionFields DEF Abort, TypeOK, Admitted, Epoch
<1>9. ASSUME NEW p \in Procs, Process(p)
      PROVE  Typed'
  <2>1. CASE Accept(p)
    BY <2>1, <1>e DEF Accept, TypeOK, Epoch, Admitted, Places
  <2>2. CASE Record(p)
    BY <2>2, <1>e, MachineAssumption DEF Record, TypeOK, Epoch, Admitted, Places
  <2>3. CASE Acquire(p)
    BY <2>3, <1>e DEF Acquire, TypeOK, Epoch, Admitted, Places
  <2>4. CASE AssertAuthority(p)
    BY <2>4, <1>e DEF AssertAuthority, TypeOK, Epoch, Admitted, Places
  <2>5. CASE Refuse(p)
    BY <2>5, <1>e DEF Refuse, TypeOK, Epoch, Admitted, Places
  <2>6. CASE Write(p)
    <3>1. <<Epoch, Machine[p]>> \in Nat \X Writers
      BY <1>e, MachineAssumption
    <3>2. wrote' \subseteq Nat \X Writers
      BY <2>6, <3>1 DEF Write, TypeOK
    <3>3. pc' \in [Procs -> Places]
      BY <2>6 DEF Write, TypeOK, Places
    <3> QED
      BY <2>6, <3>2, <3>3 DEF Write, TypeOK, Epoch, Admitted
  <2>7. CASE Die(p)
    BY <2>7, <1>e DEF Die, Dead, TypeOK, Epoch, Admitted, Places
  <2> QED
    BY <1>9, <2>1, <2>2, <2>3, <2>4, <2>5, <2>6, <2>7 DEF Process
<1>10. ASSUME NEW m \in Writers, SendRequest(m) \/ LosePower(m) \/ PowerOn(m) \/ Sync(m) \/ Review(m)
       PROVE  Typed'
  <2>1. CASE SendRequest(m)
    BY <2>1, <1>e DEF SendRequest, TypeOK, Epoch, Admitted
  <2>2. CASE LosePower(m)
    BY <2>2, <1>e, PowerOffType DEF LosePower, TypeOK, Epoch, Admitted
  <2>3. CASE PowerOn(m)
    BY <2>3, <1>e DEF PowerOn, TypeOK, Epoch, Admitted
  <2>4. CASE Sync(m)
    BY <2>4, <1>e DEF Sync, TypeOK, Epoch, Admitted
  <2>5. CASE Review(m)
    BY <2>5, <1>e DEF Review, TypeOK, Epoch, Admitted
  <2> QED
    BY <1>10, <2>1, <2>2, <2>3, <2>4, <2>5
<1>11. CASE Tick
  BY <1>11, <1>e DEF Tick, TypeOK, Epoch, Admitted
<1>12. CASE UNCHANGED vars
  BY <1>12 DEF vars, TypeOK, Epoch, Admitted
<1> QED
  BY <1>1, <1>2, <1>3, <1>4, <1>5, <1>6, <1>7, <1>8, <1>9, <1>10, <1>11, <1>12
  DEF Next, Arbiter

LEMMA TypeInit == Init => Typed
  BY MachineAssumption, TimeAssumption
  DEF Init, Typed, TypeOK, Epoch, Admitted, Transaction, NoTransaction, NoObservation,
      Observation, Writers, Places

\* Permits, transactions, guards and files stay well formed, whatever the clocks,
\* the controller and the power do.
THEOREM TypeCorrect == Spec => []TypeOK
<1>1. Typed /\ [Next]_vars => Typed'
  BY TypeStep
<1>2. Typed => TypeOK
  BY DEF Typed
<1> QED
  BY <1>1, <1>2, TypeInit, PTL DEF Spec

-----------------------------------------------------------------------------
(* One owner.                                                              *)

\* A process with a permit runs on the machine of the owner of the newest epoch;
\* a process waiting for one has the open transaction; and once the controller
\* has acted in a transaction, no process of the other machine is left, and none
\* gets a permit until the transaction ends.
OwnerInv ==
    /\ \A p \in Procs : pc[p] \notin {"idle", "loading"} =>
          Epoch > 0 /\ permits[Epoch].writer = Machine[p]
    /\ \A p \in Procs : pc[p] = "loading" => txn.proc = p
    /\ \A p \in Procs : txn.proc = p =>
          /\ Epoch > 0 /\ permits[Epoch].writer = Machine[p] /\ txn.writer = Machine[p]
          /\ pc[p] \in {"idle", "loading", "reloading"}
    /\ txn.seen.fenced /\ txn.seen.at >= txn.started =>
          \A p \in Procs : Machine[p] = Other(txn.writer) => pc[p] = "idle"

\* A step that begins or repeats nothing keeps OwnerInv: it leaves the arbiter
\* alone, and processes that do not idle afterwards did not idle before.
LEMMA OwnerKept ==
    ASSUME OwnerInv, UNCHANGED <<permits, txn>>,
           \A p \in Procs : \/ pc'[p] = pc[p]
                            \/ pc'[p] = "idle"
                            \/ /\ pc[p] \notin {"idle", "loading", "reloading"}
                               /\ pc'[p] # "loading"
    PROVE  OwnerInv'
  BY DEF OwnerInv, Epoch

LEMMA OwnerStep ==
    ASSUME Typed, OwnerInv, [Next]_vars
    PROVE  OwnerInv'
<1> USE DEF powerVars, arbiterVars, procVars, fileVars
<1>t. TypeOK /\ Admitted /\ Epoch \in Nat
  BY DEF Typed, TypeOK, Epoch
<1>f. /\ txn \in Transaction /\ txn.writer \in Writers /\ txn.proc \in Procs \cup {Nobody}
      /\ txn.started \in Nat /\ txn.seen.fenced \in BOOLEAN /\ txn.seen.at \in Int
  BY <1>t, TransactionFields DEF TypeOK
<1>c. pc \in [Procs -> Places]
  BY <1>t DEF TypeOK
<1>1. ASSUME NEW r \in DOMAIN requests, NEW ttl \in Ttls, BeginIssue(r, ttl)
      PROVE  OwnerInv'
  <2>1. txn'.proc = Nobody /\ ~txn'.seen.fenced /\ txn = NoTransaction
    BY <1>1 DEF BeginIssue, NoObservation
  <2>2. \A p \in Procs : pc[p] # "loading"
    BY <2>1, TransactionFields, WritersAssumption DEF OwnerInv
  <2> QED
    BY <1>1, <2>1, <2>2, WritersAssumption DEF BeginIssue, OwnerInv, Epoch
<1>2. ASSUME NEW p \in Procs, BeginCurrent(p)
      PROVE  OwnerInv'
  <2>1. txn'.proc = p /\ txn'.writer = Machine[p] /\ ~txn'.seen.fenced /\ txn = NoTransaction
    BY <1>2 DEF BeginCurrent, NoObservation
  <2>2. \A q \in Procs : pc[q] # "loading"
    BY <2>1, TransactionFields, WritersAssumption DEF OwnerInv
  <2>3. Epoch' = Epoch /\ permits' = permits /\ Epoch > 0 /\ permits[Epoch].writer = Machine[p]
    BY <1>2 DEF BeginCurrent, LeaseIsActive, Epoch
  <2>4. /\ \A q \in Procs \ {p} : pc'[q] = pc[q]
        /\ pc'[p] \in {"loading", "reloading"}
        /\ pc'[p] = "loading" => pc[p] = "idle"
    BY <1>2, <1>c DEF BeginCurrent
  <2> QED
    BY <2>1, <2>2, <2>3, <2>4 DEF OwnerInv
<1>3. ASSUME FencePeer
      PROVE  OwnerInv'
  <2> DEFINE m == Other(txn.writer)
  <2>1. /\ txn'.proc = txn.proc /\ txn'.writer = txn.writer
        /\ PowerOff(m) /\ permits' = permits /\ Epoch' = Epoch
    BY <1>3, <1>f DEF FencePeer, Transaction, Epoch
  <2>2. \A q \in Procs : pc'[q] = IF Machine[q] = m THEN "idle" ELSE pc[q]
    BY <2>1 DEF PowerOff, Dead
  <2> QED
    BY <2>1, <2>2 DEF OwnerInv
<1>4. ASSUME FenceFails
      PROVE  OwnerInv'
  <2>1. /\ txn'.proc = txn.proc /\ txn'.writer = txn.writer /\ txn'.started = txn.started
        /\ ~txn'.seen.fenced \/ txn'.seen.at = txn.started - 1
        /\ UNCHANGED <<permits, pc, Epoch>>
    BY <1>4, <1>f DEF FenceFails, Transaction, Epoch
  <2> QED
    BY <2>1, <1>f DEF OwnerInv
<1>5. ASSUME Observe
      PROVE  OwnerInv'
  <2>1. /\ txn'.proc = txn.proc /\ txn'.writer = txn.writer /\ txn'.started = txn.started
        /\ txn'.seen = txn.seen
        /\ UNCHANGED <<permits, pc, Epoch>>
    BY <1>5, <1>f DEF Observe, Transaction, Epoch
  <2> QED
    BY <2>1 DEF OwnerInv
<1>6. ASSUME CommitIssue
      PROVE  OwnerInv'
  <2>1. /\ permits' = Append(permits, [writer |-> txn.writer, request |-> txn.request,
                                       issued |-> txn.issued, expires |-> txn.expires])
        /\ txn' = NoTransaction /\ pc' = pc
    BY <1>6 DEF CommitIssue
  <2>2. Epoch' = Epoch + 1 /\ permits'[Epoch'].writer = txn.writer
    BY <2>1, <1>t DEF Epoch, TypeOK
  <2>3. \A p \in Procs : Machine[p] = Other(txn.writer) => pc[p] = "idle"
    BY <1>6, <1>t DEF CommitIssue, Admitted, OwnerInv
  <2>4. txn.proc = Nobody
    BY <1>6, <1>t DEF CommitIssue, TypeOK
  <2>5. \A p \in Procs : pc[p] # "loading"
    BY <2>4, WritersAssumption DEF OwnerInv
  <2>6. \A p \in Procs : Machine[p] = txn.writer \/ Machine[p] = Other(txn.writer)
    BY <1>f, MachineAssumption DEF Other, Writers
  <2>7. txn'.proc = Nobody /\ ~txn'.seen.fenced
    BY <2>1 DEF NoTransaction, NoObservation
  <2>8. \A p \in Procs : pc'[p] # "idle" => Machine[p] = permits'[Epoch'].writer
    BY <2>1, <2>2, <2>3, <2>6
  <2>9. Epoch' > 0 /\ \A p \in Procs : pc'[p] # "loading" /\ txn'.proc # p
    BY <2>1, <2>2, <2>5, <2>7, <1>t, WritersAssumption
  <2> QED
    BY <2>7, <2>8, <2>9 DEF OwnerInv
<1>7. ASSUME AnswerCurrent
      PROVE  OwnerInv'
  <2> DEFINE p == txn.proc
  <2>1. p \in Procs /\ txn' = NoTransaction /\ permits' = permits /\ Epoch' = Epoch
    BY <1>7, <1>f DEF AnswerCurrent, Epoch
  <2>2. /\ \A q \in Procs \ {p} : pc'[q] = pc[q]
        /\ pc'[p] # "loading"
    BY <1>7, <1>c, <2>1 DEF AnswerCurrent
  <2>3. Epoch > 0 /\ permits[Epoch].writer = Machine[p]
    BY <2>1 DEF OwnerInv
  <2>4. \A q \in Procs : pc'[q] # "loading"
    BY <2>2 DEF OwnerInv
  <2>5. txn'.proc = Nobody /\ ~txn'.seen.fenced
    BY <2>1 DEF NoTransaction, NoObservation
  <2> QED
    BY <2>1, <2>2, <2>3, <2>4, <2>5, WritersAssumption DEF OwnerInv
<1>8. ASSUME Abort
      PROVE  OwnerInv'
  <2>1. /\ txn' = NoTransaction /\ permits' = permits /\ Epoch' = Epoch
        /\ pc' = [q \in Procs |-> CASE pc[q] = "loading"   -> "idle"
                                    [] pc[q] = "reloading" -> "guard"
                                    [] OTHER               -> pc[q]]
    BY <1>8 DEF Abort, Epoch
  <2>2. \A q \in Procs : /\ pc'[q] # "loading"
                         /\ pc'[q] # "idle" => pc[q] \notin {"idle", "loading"}
    BY <2>1
  <2>3. txn'.proc = Nobody /\ ~txn'.seen.fenced
    BY <2>1 DEF NoTransaction, NoObservation
  <2> QED
    BY <2>1, <2>2, <2>3, WritersAssumption DEF OwnerInv
<1>9. ASSUME NEW p \in Procs, Process(p)
      PROVE  OwnerInv'
  <2>1. /\ UNCHANGED <<permits, txn>>
        /\ \A q \in Procs : \/ pc'[q] = pc[q]
                            \/ pc'[q] = "idle"
                            \/ /\ pc[q] \notin {"idle", "loading", "reloading"}
                               /\ pc'[q] # "loading"
    BY <1>9, <1>c DEF Process, Accept, Record, Acquire, AssertAuthority, Refuse, Write, Die, Dead
  <2> QED
    BY <2>1, OwnerKept
<1>10. ASSUME NEW m \in Writers, SendRequest(m) \/ LosePower(m) \/ PowerOn(m) \/ Sync(m) \/ Review(m)
       PROVE  OwnerInv'
  <2>1. UNCHANGED <<permits, txn>> /\ \A q \in Procs : pc'[q] = pc[q] \/ pc'[q] = "idle"
    BY <1>10 DEF SendRequest, LosePower, PowerOff, Dead, PowerOn, Sync, Review
  <2> QED
    BY <2>1, OwnerKept
<1>11. CASE Tick
  BY <1>11, OwnerKept DEF Tick
<1>12. CASE UNCHANGED vars
  BY <1>12, OwnerKept DEF vars
<1> QED
  BY <1>1, <1>2, <1>3, <1>4, <1>5, <1>6, <1>7, <1>8, <1>9, <1>10, <1>11, <1>12
  DEF Next, Arbiter

LEMMA OwnerInit == Init => OwnerInv
  BY WritersAssumption DEF Init, OwnerInv, NoTransaction, NoObservation, Epoch

\* Every step is a takeover, a write by the owner of the newest epoch, or
\* changes nothing of either.
LEMMA SingleStep ==
    ASSUME Typed, OwnerInv, [Next]_vars
    PROVE  [Single!Next]_<<Epoch, Owner, wrote>>
<1> USE DEF powerVars, arbiterVars, procVars, fileVars
<1>t. TypeOK /\ Epoch \in Nat
  BY DEF Typed, TypeOK, Epoch
<1>1. CASE CommitIssue
  <2>1. /\ permits' = Append(permits, [writer |-> txn.writer, request |-> txn.request,
                                       issued |-> txn.issued, expires |-> txn.expires])
        /\ wrote' = wrote
    BY <1>1 DEF CommitIssue
  <2>2. txn.writer \in Writers
    BY <1>t, TransactionFields DEF TypeOK
  <2>3. Epoch' = Epoch + 1 /\ Owner' = txn.writer
    BY <2>1, <1>t DEF Epoch, Owner, TypeOK
  <2>4. Single!TakeOver(txn.writer)
    BY <2>1, <2>3 DEF Single!TakeOver
  <2> QED
    BY <2>2, <2>4 DEF Single!Next
<1>2. ASSUME NEW p \in Procs, Write(p)
      PROVE  [Single!Next]_<<Epoch, Owner, wrote>>
  <2>1. Owner = Machine[p] /\ Owner # Nobody
    BY <1>2, WritersAssumption, MachineAssumption DEF Write, OwnerInv, Owner
  <2>2. wrote' = wrote \cup {<<Epoch, Owner>>} /\ UNCHANGED <<Epoch, Owner>>
    BY <1>2, <2>1 DEF Write, Epoch, Owner
  <2>3. Single!Write
    BY <2>1, <2>2 DEF Single!Write
  <2> QED
    BY <2>3 DEF Single!Next
<1>3. CASE ~CommitIssue /\ \A p \in Procs : ~Write(p)
  <2>1. UNCHANGED <<permits, wrote>>
    BY <1>3 DEF Next, Arbiter, BeginIssue, BeginCurrent, FencePeer, FenceFails, Observe,
                AnswerCurrent, Abort, Process, Accept, Record, Acquire, AssertAuthority, Refuse,
                Die, SendRequest, LosePower, PowerOn, Sync, Review, Tick, vars
  <2> QED
    BY <2>1 DEF Epoch, Owner
<1> QED
  BY <1>1, <1>2, <1>3

\* The laptops together implement a single writer, whatever the controller
\* reports, however late permits and writes are, and whenever power fails.
THEOREM WriterIsSingle == Spec => ImplementsSingleWriter
<1>1. Init => Single!Init
  BY DEF Init, Single!Init, Epoch, Owner
<1>2. Typed /\ OwnerInv /\ [Next]_vars => (Typed /\ OwnerInv)'
  BY TypeStep, OwnerStep
<1>3. Typed /\ OwnerInv /\ [Next]_vars => [Single!Next]_(Single!vars)
  BY SingleStep DEF Single!vars
<1> QED
  BY <1>1, <1>2, <1>3, TypeInit, OwnerInit, PTL
  DEF Spec, ImplementsSingleWriter, Single!SingleWriterSpec

-----------------------------------------------------------------------------
(* Leases and the peer.                                                    *)

\* A machine whose restart is inhibited is off; the hold on the other machine
\* outlasts the newest lease, and what a fresh report says; leases and nonces of
\* an open transaction come after those that were granted.
LeaseInv ==
    /\ \A m \in Writers : now < hold[m] => ~on[m]
    /\ Epoch > 0 => hold[Other(permits[Epoch].writer)] >= permits[Epoch].expires
    /\ txn.seen.fenced /\ txn.seen.at >= txn.started =>
          hold[Other(txn.writer)] >= txn.seen.hold
    /\ txn.issued # 0 => txn.issued >= txn.started
    /\ txn.request # 0 =>
          /\ txn.request \notin used
          /\ \A e \in 1..Epoch : permits[e].expires <= txn.started
    /\ \A e \in 1..Epoch : permits[e].request \in used
    /\ LeasesDisjoint
    /\ RequestsGrantOnce

LEMMA LeaseStep ==
    ASSUME Typed, LeaseInv, [Next]_vars
    PROVE  LeaseInv'
<1> USE DEF powerVars, arbiterVars, procVars, fileVars
<1>t. TypeOK /\ Admitted /\ Epoch \in Nat /\ now \in Nat
  BY DEF Typed, TypeOK, Epoch
<1>f. /\ txn \in Transaction /\ txn.writer \in Writers /\ txn.proc \in Procs \cup {Nobody}
      /\ txn.started \in Nat /\ txn.expires \in Nat /\ txn.request \in Nat /\ txn.issued \in Nat
      /\ txn.seen.fenced \in BOOLEAN /\ txn.seen.at \in Int /\ txn.seen.hold \in Int
  BY <1>t, TransactionFields DEF TypeOK
<1>h. hold \in [Writers -> Int] /\ on \in [Writers -> BOOLEAN]
  BY <1>t DEF TypeOK
<1>p. \A e \in 1..Epoch : /\ permits[e] \in Permit /\ permits[e].writer \in Writers
                          /\ permits[e].issued \in Nat /\ permits[e].expires \in Nat
                          /\ permits[e].issued < permits[e].expires
  <2> TAKE e \in 1..Epoch
  <2>1. permits[e] \in Permit /\ permits[e].issued < permits[e].expires
    BY <1>t DEF TypeOK, Epoch
  <2> QED
    BY <2>1 DEF Permit
<1>o. \A w \in Writers : Other(w) \in Writers
  BY DEF Other, Writers
\* Steps that leave permits, transactions and nonces alone.
<1>k. ASSUME UNCHANGED <<permits, used, txn, hold>>, now' = now \/ now' = now + 1,
             \A m \in Writers : now' < hold[m] /\ on'[m] => on[m]
      PROVE  LeaseInv'
  BY <1>k, <1>t, <1>h DEF LeaseInv, Epoch, LeasesDisjoint, RequestsGrantOnce
<1>1. ASSUME NEW r \in DOMAIN requests, NEW ttl \in Ttls, BeginIssue(r, ttl)
      PROVE  LeaseInv'
  <2>1. /\ txn'.request = r /\ r \notin used /\ txn'.started = now
        /\ ~txn'.seen.fenced /\ txn'.issued = 0
        /\ UNCHANGED <<permits, used, hold, on, now>>
    BY <1>1 DEF BeginIssue, Grantable, NoObservation
  <2>2. Epoch > 0 => permits[Epoch].expires <= now
    BY <1>1, <1>p, <1>t DEF BeginIssue, Grantable, LeaseIsActive
  <2>3. \A e \in 1..Epoch : permits[e].expires <= now
    <3> TAKE e \in 1..Epoch
    <3>1. CASE e = Epoch
      BY <3>1, <2>2, <1>t
    <3>2. CASE e < Epoch
      <4>1. permits[e].expires <= permits[Epoch].issued /\ Epoch \in 1..Epoch
        BY <3>2, <1>t DEF LeaseInv, LeasesDisjoint
      <4> QED
        BY <4>1, <2>2, <1>p, <1>t
    <3> QED
      BY <3>1, <3>2, <1>t
  <2> QED
    BY <2>1, <2>3 DEF LeaseInv, Epoch, LeasesDisjoint, RequestsGrantOnce
<1>2. ASSUME NEW p \in Procs, BeginCurrent(p)
      PROVE  LeaseInv'
  <2>1. /\ txn'.request = 0 /\ ~txn'.seen.fenced /\ txn'.issued = 0
        /\ UNCHANGED <<permits, used, hold, on, now>>
    BY <1>2 DEF BeginCurrent, NoObservation
  <2> QED
    BY <2>1 DEF LeaseInv, Epoch, LeasesDisjoint, RequestsGrantOnce
<1>3. ASSUME FencePeer
      PROVE  LeaseInv'
  <2> DEFINE m == Other(txn.writer)
  <2>1. PICK h \in {txn.expires - 1, HoldRequested} :
           /\ hold' = [hold EXCEPT ![m] = IF @ < h THEN h ELSE @]
           /\ txn' = [txn EXCEPT !.seen = [fenced |-> TRUE, at |-> now, hold |-> h]]
           /\ PowerOff(m)
    BY <1>3 DEF FencePeer
  <2>2. h \in Int /\ m \in Writers
    BY <1>f, <1>o, TimeAssumption DEF HoldRequested
  <2>3. /\ txn'.writer = txn.writer /\ txn'.request = txn.request /\ txn'.issued = txn.issued
        /\ txn'.started = txn.started /\ txn'.seen.hold = h
    BY <2>1, <1>f DEF Transaction
  <2>4. /\ \A w \in Writers : hold'[w] >= hold[w] /\ hold'[w] \in Int
        /\ hold'[m] >= h /\ \A w \in Writers \ {m} : hold'[w] = hold[w]
    BY <2>1, <2>2, <1>h
  <2>5. ~on'[m] /\ \A w \in Writers \ {m} : on'[w] = on[w]
    BY <2>1, <2>2, <1>h DEF PowerOff
  <2>6. UNCHANGED <<permits, used, now, Epoch>>
    BY <1>3 DEF FencePeer, Epoch
  <2>7. \A w \in Writers : now' < hold'[w] => ~on'[w]
    BY <2>4, <2>5, <2>6 DEF LeaseInv
  <2>8. Epoch > 0 => hold'[Other(permits[Epoch].writer)] >= permits[Epoch].expires
    <3> HAVE Epoch > 0
    <3>1. permits[Epoch].expires \in Nat /\ Other(permits[Epoch].writer) \in Writers
      BY <1>p, <1>o, <1>t
    <3> QED
      BY <3>1, <2>4, <1>h DEF LeaseInv
  <2> QED
    BY <2>3, <2>4, <2>6, <2>7, <2>8 DEF LeaseInv, LeasesDisjoint, RequestsGrantOnce
<1>4. ASSUME FenceFails
      PROVE  LeaseInv'
  <2>1. /\ txn'.writer = txn.writer /\ txn'.request = txn.request /\ txn'.issued = txn.issued
        /\ txn'.started = txn.started
        /\ ~txn'.seen.fenced \/ txn'.seen.at = txn.started - 1
        /\ UNCHANGED <<permits, used, hold, on, now, Epoch>>
    BY <1>4, <1>f DEF FenceFails, Transaction, Epoch
  <2> QED
    BY <2>1, <1>f DEF LeaseInv, LeasesDisjoint, RequestsGrantOnce
<1>5. ASSUME Observe
      PROVE  LeaseInv'
  <2>1. /\ txn'.writer = txn.writer /\ txn'.request = txn.request /\ txn'.issued = now
        /\ txn'.started = txn.started /\ txn'.seen = txn.seen
        /\ UNCHANGED <<permits, used, hold, on, now, Epoch>>
    BY <1>5, <1>f DEF Observe, Transaction, Epoch
  <2>2. now >= txn.started
    BY <1>5, <1>f, <1>t DEF Observe, Observed
  <2> QED
    BY <2>1, <2>2 DEF LeaseInv, LeasesDisjoint, RequestsGrantOnce
<1>6. ASSUME CommitIssue
      PROVE  LeaseInv'
  <2> DEFINE permit == [writer |-> txn.writer, request |-> txn.request,
                        issued |-> txn.issued, expires |-> txn.expires]
  <2>1. /\ permits' = Append(permits, permit) /\ used' = used \cup {txn.request}
        /\ txn' = NoTransaction /\ UNCHANGED <<hold, on, now>>
    BY <1>6 DEF CommitIssue
  <2>2. /\ Epoch' = Epoch + 1 /\ permits'[Epoch'] = permit
        /\ \A e \in 1..Epoch : permits'[e] = permits[e]
    BY <2>1, <1>t DEF Epoch, TypeOK
  <2>3. /\ txn.request \notin used
        /\ \A e \in 1..Epoch : permits[e].expires <= txn.issued
    BY <1>6, <1>f, <1>p DEF CommitIssue, LeaseInv
  <2>4. hold[Other(txn.writer)] >= txn.expires
    <3>1. txn.seen.fenced /\ txn.seen.at >= txn.started /\ txn.seen.hold >= txn.expires + Margin
      BY <1>6, <1>t DEF CommitIssue, Admitted
    <3>2. hold[Other(txn.writer)] \in Int
      BY <1>h, <1>o, <1>f
    <3> QED
      BY <3>1, <3>2, <1>f, TimeAssumption DEF LeaseInv
  <2>5. \A e \in 1..Epoch' : e \in 1..Epoch \/ e = Epoch'
    BY <2>2, <1>t
  <2>6. LeasesDisjoint'
    BY <2>2, <2>3, <2>5, <1>t DEF LeaseInv, LeasesDisjoint
  <2>7. RequestsGrantOnce'
    BY <2>2, <2>3, <2>5, <1>t DEF LeaseInv, RequestsGrantOnce
  <2>8. \A e \in 1..Epoch' : permits'[e].request \in used'
    <3> TAKE e \in 1..Epoch'
    <3>1. CASE e \in 1..Epoch
      <4>1. permits'[e] = permits[e] /\ permits[e].request \in used
        BY <3>1, <2>2 DEF LeaseInv
      <4> QED
        BY <4>1, <2>1
    <3>2. CASE e = Epoch'
      <4>1. permits'[e].request = txn.request
        BY <3>2, <2>2
      <4> QED
        BY <4>1, <2>1
    <3> QED
      BY <3>1, <3>2, <2>5
  <2>9. txn'.request = 0 /\ ~txn'.seen.fenced /\ txn'.issued = 0
    BY <2>1 DEF NoTransaction, NoObservation
  <2>10. permits'[Epoch'].writer = txn.writer /\ permits'[Epoch'].expires = txn.expires
    BY <2>2
  <2>11. hold'[Other(permits'[Epoch'].writer)] >= permits'[Epoch'].expires
    BY <2>1, <2>4, <2>10
  <2>12. \A m \in Writers : now' < hold'[m] => ~on'[m]
    BY <2>1 DEF LeaseInv
  <2> QED
    BY <2>6, <2>7, <2>8, <2>9, <2>11, <2>12 DEF LeaseInv
<1>7. ASSUME AnswerCurrent \/ Abort
      PROVE  LeaseInv'
  <2>1. /\ txn'.request = 0 /\ ~txn'.seen.fenced /\ txn'.issued = 0
        /\ UNCHANGED <<permits, used, hold, on, now>>
    BY <1>7 DEF AnswerCurrent, Abort, NoTransaction, NoObservation
  <2> QED
    BY <2>1 DEF LeaseInv, Epoch, LeasesDisjoint, RequestsGrantOnce
<1>8. ASSUME NEW p \in Procs, Process(p)
      PROVE  LeaseInv'
  <2>1. UNCHANGED <<permits, used, txn, hold, on, now>>
    BY <1>8 DEF Process, Accept, Record, Acquire, AssertAuthority, Refuse, Write, Die
  <2> QED
    BY <2>1, <1>k
<1>9. ASSUME NEW m \in Writers, SendRequest(m) \/ LosePower(m) \/ PowerOn(m) \/ Sync(m) \/ Review(m)
      PROVE  LeaseInv'
  <2>1. UNCHANGED <<permits, used, txn, hold, now>>
    BY <1>9 DEF SendRequest, LosePower, PowerOn, Sync, Review
  <2>2. \A w \in Writers : now < hold[w] /\ on'[w] => on[w]
    BY <1>9, <1>h, <1>t DEF SendRequest, LosePower, PowerOff, PowerOn, Sync, Review
  <2> QED
    BY <2>1, <2>2, <1>k
<1>10. CASE Tick
  <2>1. UNCHANGED <<permits, used, txn, hold, on>> /\ now' = now + 1
    BY <1>10 DEF Tick
  <2> QED
    BY <2>1, <1>k
<1>11. CASE UNCHANGED vars
  BY <1>11, <1>k DEF vars
<1> QED
  BY <1>1, <1>2, <1>3, <1>4, <1>5, <1>6, <1>7, <1>8, <1>9, <1>10, <1>11 DEF Next, Arbiter

LEMMA LeaseInit == Init => LeaseInv
  BY DEF Init, LeaseInv, LeasesDisjoint, RequestsGrantOnce, NoTransaction, NoObservation, Epoch

\* Leases never overlap, however long controllers and services take and whoever
\* asks.
THEOREM LeasesAreDisjoint == Spec => []LeasesDisjoint
<1>1. Typed /\ LeaseInv /\ [Next]_vars => (Typed /\ LeaseInv)'
  BY TypeStep, LeaseStep
<1>2. LeaseInv => LeasesDisjoint
  BY DEF LeaseInv
<1> QED
  BY <1>1, <1>2, TypeInit, LeaseInit, PTL DEF Spec

\* A request is granted once, however often it is delivered.
THEOREM RequestsAreGrantedOnce == Spec => []RequestsGrantOnce
<1>1. Typed /\ LeaseInv /\ [Next]_vars => (Typed /\ LeaseInv)'
  BY TypeStep, LeaseStep
<1>2. LeaseInv => RequestsGrantOnce
  BY DEF LeaseInv
<1> QED
  BY <1>1, <1>2, TypeInit, LeaseInit, PTL DEF Spec

\* While a lease is active, the machine of the other writer is off.
THEOREM PeerStaysOff == Spec => []PeerIsOff
<1>1. Typed /\ LeaseInv /\ [Next]_vars => (Typed /\ LeaseInv)'
  BY TypeStep, LeaseStep
<1>2. Typed /\ LeaseInv => PeerIsOff
  <2> SUFFICES ASSUME Typed, LeaseInv, LeaseIsActive
               PROVE  ~on[Other(permits[Epoch].writer)]
    BY DEF PeerIsOff
  <2>1. /\ Epoch > 0 /\ Epoch \in 1..Len(permits) /\ now \in Nat
        /\ now < permits[Epoch].expires
    BY DEF LeaseIsActive, Typed, TypeOK, Epoch
  <2>2. permits[Epoch] \in Permit
    BY <2>1 DEF Typed, TypeOK
  <2>3. Other(permits[Epoch].writer) \in Writers /\ permits[Epoch].expires \in Nat
    BY <2>2 DEF Permit, Other, Writers
  <2>4. hold[Other(permits[Epoch].writer)] \in Int
    BY <2>3 DEF Typed, TypeOK
  <2> QED
    BY <2>1, <2>3, <2>4 DEF LeaseInv
<1> QED
  BY <1>1, <1>2, TypeInit, LeaseInit, PTL DEF Spec

\* No other lease is in force beside an active one, and the other machine cannot run.
THEOREM LeasesAreExclusive == Spec => []LeaseIsExclusive
BY LeasesAreDisjoint, PeerStaysOff, PTL DEF LeaseIsExclusive

-----------------------------------------------------------------------------
(* Guards.                                                                 *)

Accepting == {"accepting", "recorded"}
Guarding  == {"guard", "reloading", "recheck", "authorized"}

Twin(p, q) == p # q /\ Machine[p] = Machine[q]

\* The lock file keeps processes of a machine out of each other's acceptance; a
\* guard is no newer than the fence state, and older than an epoch just recorded.
GuardInv ==
    /\ \A p \in Procs : receipt[p] # 0 => pc[p] \in Guarding
    /\ \A p \in Procs : pc[p] \in Accepting => lock[Machine[p]]
    /\ \A p, q \in Procs : Twin(p, q) => ~(pc[p] \in Accepting /\ pc[q] \in Accepting)
    /\ \A p \in Procs : pc[p] = "accepting" => proof[p] > file[Machine[p]]
    /\ \A p \in Procs : pc[p] = "recorded" => proof[p] = file[Machine[p]]
    /\ \A p \in Procs : receipt[p] <= file[Machine[p]]
    /\ \A p, q \in Procs : Twin(p, q) /\ pc[p] = "recorded" => receipt[q] < file[Machine[q]]
    /\ \A p, q \in Procs : Twin(p, q) /\ receipt[p] # 0 => receipt[p] # receipt[q]

\* What GuardInv needs of the variables it is about.
GuardTypes ==
    /\ pc \in [Procs -> Places]
    /\ proof \in [Procs -> Nat] /\ receipt \in [Procs -> Nat]
    /\ file \in [Writers -> Nat] /\ lock \in [Writers -> BOOLEAN]

LEMMA GuardTyped == Typed => GuardTypes
  BY DEF Typed, TypeOK, GuardTypes, Epoch

\* Processes that die, with or without their machine.
LEMMA GuardDeath ==
    ASSUME GuardTypes, GuardInv, NEW S \in SUBSET Procs, Dead(S), lock' = lock,
           \A p \in Procs \ S : file'[Machine[p]] = file[Machine[p]],
           file' \in [Writers -> Nat]
    PROVE  GuardInv'
<1>1. \A p \in S : pc'[p] = "idle" /\ proof'[p] = 0 /\ receipt'[p] = 0
  BY DEF Dead
<1>2. \A p \in Procs \ S : pc'[p] = pc[p] /\ proof'[p] = proof[p] /\ receipt'[p] = receipt[p]
  BY DEF Dead
<1>3. \A p \in Procs : file'[Machine[p]] \in Nat
  BY MachineAssumption
<1>4. \A p \in Procs : pc'[p] \in Accepting => p \notin S
  BY <1>1 DEF Accepting
<1>5. \A p \in Procs : receipt'[p] # 0 => p \notin S
  BY <1>1
<1>6. \A p \in Procs : receipt'[p] <= file'[Machine[p]]
  BY <1>1, <1>2, <1>3 DEF GuardInv
<1>7. \A p, q \in Procs : Twin(p, q) /\ pc'[p] = "recorded" => receipt'[q] < file'[Machine[q]]
  <2> TAKE p, q \in Procs
  <2> HAVE Twin(p, q) /\ pc'[p] = "recorded"
  <2>1. p \notin S /\ pc[p] = "recorded" /\ file'[Machine[q]] = file[Machine[q]]
    BY <1>2, <1>4 DEF Twin, Accepting
  <2>2. receipt[q] < file[Machine[q]] /\ receipt[q] \in Nat /\ file[Machine[q]] \in Nat
    BY <2>1, MachineAssumption DEF GuardInv, GuardTypes
  <2> QED
    BY <1>1, <1>2, <2>1, <2>2
<1>8. \A p, q \in Procs : Twin(p, q) /\ receipt'[p] # 0 => receipt'[p] # receipt'[q]
  BY <1>1, <1>2 DEF GuardInv
<1> QED
  BY <1>1, <1>2, <1>4, <1>5, <1>6, <1>7, <1>8 DEF GuardInv, Accepting

\* Steps that leave guards and files alone, and begin no acceptance.
LEMMA GuardKept ==
    ASSUME GuardInv, UNCHANGED <<receipt, file, lock>>,
           \A p \in Procs :
              \/ pc'[p] = pc[p] /\ (pc[p] \in Accepting => proof'[p] = proof[p])
              \/ pc'[p] \notin Accepting /\ (pc[p] \in Guarding => pc'[p] \in Guarding)
    PROVE  GuardInv'
  BY DEF GuardInv, Accepting

LEMMA GuardStep ==
    ASSUME Typed, OwnerInv, GuardInv, [Next]_vars
    PROVE  GuardInv'
<1> USE DEF powerVars, arbiterVars, procVars, fileVars
<1>t. GuardTypes /\ TypeOK
  BY GuardTyped DEF Typed
<1>m. \A p \in Procs : Machine[p] \in Writers
  BY MachineAssumption
<1>1. CASE \/ \E r \in DOMAIN requests, ttl \in Ttls : BeginIssue(r, ttl)
           \/ FenceFails \/ Observe \/ CommitIssue
           \/ \E m \in Writers : SendRequest(m) \/ PowerOn(m) \/ Sync(m)
           \/ Tick \/ UNCHANGED vars
  <2>1. UNCHANGED <<procVars, file, lock>>
    BY <1>1 DEF BeginIssue, FenceFails, Observe, CommitIssue, SendRequest, PowerOn, Sync, Tick, vars
  <2> QED
    BY <2>1, GuardKept
<1>2. ASSUME NEW p \in Procs, BeginCurrent(p)
      PROVE  GuardInv'
  <2>1. /\ UNCHANGED <<proof, receipt, file, lock>>
        /\ \A q \in Procs : \/ pc'[q] = pc[q]
                            \/ pc[q] = "idle" /\ pc'[q] = "loading"
                            \/ pc[q] = "guard" /\ pc'[q] = "reloading"
    BY <1>2, <1>t DEF BeginCurrent, GuardTypes
  <2> QED
    BY <2>1, GuardKept DEF Accepting, Guarding
<1>3. ASSUME AnswerCurrent
      PROVE  GuardInv'
  <2> DEFINE p == txn.proc
  <2>1. p \in Procs /\ pc[p] \in {"idle", "loading", "reloading"}
    BY <1>3, <1>t, TransactionFields DEF AnswerCurrent, TypeOK, OwnerInv
  <2>2. /\ UNCHANGED <<receipt, file, lock>>
        /\ \A q \in Procs \ {p} : pc'[q] = pc[q] /\ proof'[q] = proof[q]
        /\ \/ pc[p] = "idle" /\ pc'[p] = "idle"
           \/ pc[p] = "loading" /\ pc'[p] = "proof"
           \/ pc[p] = "reloading" /\ pc'[p] = "recheck"
    BY <1>3, <1>t, <2>1 DEF AnswerCurrent, GuardTypes
  <2> QED
    BY <2>2, GuardKept DEF Accepting, Guarding
<1>4. ASSUME Abort
      PROVE  GuardInv'
  <2>1. /\ UNCHANGED <<proof, receipt, file, lock>>
        /\ \A q \in Procs : \/ pc'[q] = pc[q]
                            \/ pc[q] = "loading" /\ pc'[q] = "idle"
                            \/ pc[q] = "reloading" /\ pc'[q] = "guard"
    BY <1>4 DEF Abort
  <2> QED
    BY <2>1, GuardKept DEF Accepting, Guarding
<1>5. ASSUME NEW m \in Writers, PowerOff(m), lock' = lock
      PROVE  GuardInv'
  <2> DEFINE S == {p \in Procs : Machine[p] = m}
  <2>1. \A p \in Procs \ S : file'[Machine[p]] = file[Machine[p]]
    BY <1>5, <1>t, <1>m DEF PowerOff, GuardTypes
  <2>2. file' \in [Writers -> Nat]
    <3>1. synced[m] \in Nat
      BY <1>t DEF TypeOK, Epoch
    <3> QED
      BY <1>5, <1>t, <3>1 DEF PowerOff, GuardTypes
  <2> QED
    BY <1>5, <1>t, <2>1, <2>2, GuardDeath DEF PowerOff
<1>6. CASE FencePeer \/ \E m \in Writers : LosePower(m)
  <2>1. \E m \in Writers : PowerOff(m)
    BY <1>6 DEF FencePeer, LosePower, Other, Writers
  <2>2. lock' = lock
    BY <1>6 DEF FencePeer, LosePower
  <2> QED
    BY <2>1, <2>2, <1>5
<1>7. ASSUME NEW m \in Writers, Review(m)
      PROVE  GuardInv'
  <2>1. UNCHANGED <<pc, proof, receipt, file>> /\ lock' = [lock EXCEPT ![m] = FALSE]
    BY <1>7 DEF Review
  <2>2. \A p \in Procs : pc[p] \in Accepting => Machine[p] # m
    BY <1>7 DEF Review, Accepting
  <2>3. \A p \in Procs : pc[p] \in Accepting => lock'[Machine[p]]
    BY <2>1, <2>2, <1>t, <1>m DEF GuardInv, GuardTypes
  <2> QED
    BY <2>1, <2>3 DEF GuardInv
<1>8. ASSUME NEW p \in Procs, Process(p)
      PROVE  GuardInv'
  <2> DEFINE m == Machine[p]
  <2>m. m \in Writers
    BY <1>m
  <2>1. CASE Accept(p)
    <3>1. /\ UNCHANGED <<proof, receipt, file>>
          /\ ~lock[m] /\ lock' = [lock EXCEPT ![m] = TRUE] /\ proof[p] > file[m]
          /\ pc[p] = "proof" /\ pc' = [pc EXCEPT ![p] = "accepting"]
      BY <2>1 DEF Accept, Exclusive
    <3>2. pc'[p] = "accepting" /\ \A q \in Procs \ {p} : pc'[q] = pc[q]
      BY <3>1, <1>t DEF GuardTypes
    <3>3. \A w \in Writers : lock[w] => lock'[w]
      BY <3>1, <1>t DEF GuardTypes
    <3>4. lock'[m]
      BY <3>1, <1>t, <2>m DEF GuardTypes
    <3>5. receipt[p] = 0
      BY <3>1 DEF GuardInv, Guarding
    <3>6. \A q \in Procs : Twin(p, q) => pc[q] \notin Accepting
      BY <3>1 DEF GuardInv, Twin
    <3> QED
      BY <3>1, <3>2, <3>3, <3>4, <3>5, <3>6, <1>m DEF GuardInv, Twin, Accepting
  <2>2. CASE Record(p)
    <3>1. /\ UNCHANGED <<proof, receipt, lock>>
          /\ file' = [file EXCEPT ![m] = proof[p]]
          /\ pc[p] = "accepting" /\ pc' = [pc EXCEPT ![p] = "recorded"]
      BY <2>2 DEF Record
    <3>2. pc'[p] = "recorded" /\ \A q \in Procs \ {p} : pc'[q] = pc[q]
      BY <3>1, <1>t DEF GuardTypes
    <3>3. /\ file'[m] = proof[p] /\ file[m] < proof[p]
          /\ \A w \in Writers \ {m} : file'[w] = file[w]
      BY <3>1, <1>t, <2>m DEF GuardInv, GuardTypes
    <3>4. \A q \in Procs : Twin(p, q) => pc[q] \notin Accepting
      BY <3>1 DEF GuardInv, Accepting
    <3>5. receipt[p] = 0
      BY <3>1 DEF GuardInv, Guarding
    <3>6. \A q \in Procs : receipt[q] \in Nat /\ file[Machine[q]] \in Nat /\ proof[q] \in Nat
      BY <1>t, <1>m DEF GuardTypes
    <3>7. \A q \in Procs : Machine[q] = m => receipt'[q] < file'[Machine[q]]
      BY <3>1, <3>3, <3>6 DEF GuardInv
    <3>8. \A q \in Procs : receipt'[q] <= file'[Machine[q]]
      BY <3>1, <3>3, <3>6, <3>7, <1>m DEF GuardInv
    <3>9. \A q, r \in Procs : Twin(q, r) /\ pc'[q] = "recorded" => receipt'[r] < file'[Machine[r]]
      <4> TAKE q, r \in Procs
      <4> HAVE Twin(q, r) /\ pc'[q] = "recorded"
      <4>1. CASE Machine[r] = m
        BY <4>1, <3>7
      <4>2. CASE Machine[r] # m
        <5>1. pc[q] = "recorded"
          BY <4>2, <3>2 DEF Twin
        <5> QED
          BY <5>1, <4>2, <3>1, <3>3, <1>m DEF GuardInv
      <4> QED
        BY <4>1, <4>2
    <3>10. \A q \in Procs \ {p} : pc[q] \in Accepting => Machine[q] # m
      BY <3>4 DEF Twin
    <3>11. \A q \in Procs : /\ pc'[q] = "accepting" => proof'[q] > file'[Machine[q]]
                            /\ pc'[q] = "recorded" => proof'[q] = file'[Machine[q]]
      BY <3>1, <3>2, <3>3, <3>10, <1>m DEF GuardInv, Accepting
    <3>12. \A q, r \in Procs : Twin(q, r) => ~(pc'[q] \in Accepting /\ pc'[r] \in Accepting)
      BY <3>1, <3>2 DEF GuardInv, Accepting
    <3>13. \A q \in Procs : /\ receipt'[q] # 0 => pc'[q] \in Guarding
                            /\ pc'[q] \in Accepting => lock'[Machine[q]]
      BY <3>1, <3>2, <3>5 DEF GuardInv, Accepting
    <3> QED
      BY <3>1, <3>8, <3>9, <3>11, <3>12, <3>13 DEF GuardInv
  <2>3. CASE Acquire(p)
    <3>1. /\ UNCHANGED <<proof, file>>
          /\ lock' = [lock EXCEPT ![m] = FALSE]
          /\ receipt' = [receipt EXCEPT ![p] = proof[p]]
          /\ pc[p] = "recorded" /\ pc' = [pc EXCEPT ![p] = "guard"]
      BY <2>3 DEF Acquire
    <3>2. pc'[p] = "guard" /\ \A q \in Procs \ {p} : pc'[q] = pc[q]
      BY <3>1, <1>t DEF GuardTypes
    <3>3. /\ receipt'[p] = file[m]
          /\ \A q \in Procs \ {p} : receipt'[q] = receipt[q]
      BY <3>1, <1>t DEF GuardInv, GuardTypes
    <3>4. \A q \in Procs \ {p} : pc[q] \in Accepting => Machine[q] # m
      BY <3>1 DEF GuardInv, Accepting, Twin
    <3>5. \A q \in Procs : pc'[q] \in Accepting => q # p /\ pc[q] \in Accepting /\ Machine[q] # m
      BY <3>2, <3>4 DEF Accepting
    <3>6. \A q \in Procs : pc'[q] \in Accepting => lock'[Machine[q]]
      BY <3>1, <3>5, <1>t, <1>m DEF GuardInv, GuardTypes
    <3>7. \A q \in Procs : Twin(p, q) => receipt[q] < file[m]
      BY <3>1 DEF GuardInv, Twin
    <3>8. \A q \in Procs : receipt[q] \in Nat /\ file[Machine[q]] \in Nat
      BY <1>t, <1>m DEF GuardTypes
    <3>9. \A q, r \in Procs : Twin(q, r) /\ receipt'[q] # 0 => receipt'[q] # receipt'[r]
      <4> TAKE q, r \in Procs
      <4> HAVE Twin(q, r) /\ receipt'[q] # 0
      <4>1. CASE q = p
        BY <4>1, <3>3, <3>7, <3>8 DEF Twin
      <4>2. CASE r = p
        <5>1. receipt[q] < file[m]
          BY <4>2, <3>7 DEF Twin
        <5> QED
          BY <5>1, <4>2, <3>3, <3>8 DEF Twin
      <4>3. CASE q # p /\ r # p
        BY <4>3, <3>3 DEF GuardInv
      <4> QED
        BY <4>1, <4>2, <4>3
    <3>10. \A q \in Procs : receipt'[q] <= file'[Machine[q]]
      BY <3>1, <3>3, <3>8 DEF GuardInv
    <3>11. \A q, r \in Procs : Twin(q, r) /\ pc'[q] = "recorded" => receipt'[r] < file'[Machine[r]]
      <4> TAKE q, r \in Procs
      <4> HAVE Twin(q, r) /\ pc'[q] = "recorded"
      <4>1. pc[q] = "recorded" /\ r # p
        BY <3>2, <3>5 DEF Twin, Accepting
      <4> QED
        BY <4>1, <3>1, <3>3 DEF GuardInv
    <3>12. \A q \in Procs : receipt'[q] # 0 => pc'[q] \in Guarding
      BY <3>2, <3>3 DEF GuardInv, Guarding
    <3> QED
      BY <3>1, <3>2, <3>5, <3>6, <3>9, <3>10, <3>11, <3>12 DEF GuardInv, Accepting
  <2>4. CASE AssertAuthority(p) \/ Write(p)
    <3>1. /\ UNCHANGED <<proof, receipt, file, lock>>
          /\ \A q \in Procs : \/ pc'[q] = pc[q]
                              \/ pc[q] \in Guarding /\ pc'[q] \in Guarding
      BY <2>4, <1>t DEF AssertAuthority, Write, GuardTypes, Guarding
    <3> QED
      BY <3>1, GuardKept DEF Accepting, Guarding
  <2>5. CASE Refuse(p)
    <3>1. /\ UNCHANGED <<proof, receipt, file>>
          /\ pc[p] \in {"proof", "accepting", "recheck"}
          /\ pc'[p] = IF pc[p] = "recheck" THEN "guard" ELSE "idle"
          /\ \A q \in Procs \ {p} : pc'[q] = pc[q]
          /\ lock' = IF pc[p] = "accepting" THEN [lock EXCEPT ![m] = FALSE] ELSE lock
      BY <2>5, <1>t DEF Refuse, GuardTypes
    <3>2. \A q \in Procs : pc'[q] \in Accepting => q # p /\ pc[q] = pc'[q]
      BY <3>1 DEF Accepting
    <3>3. pc[p] = "accepting" => \A q \in Procs \ {p} : pc[q] \in Accepting => Machine[q] # m
      BY <3>1 DEF GuardInv, Accepting, Twin
    <3>4. \A q \in Procs : pc'[q] \in Accepting => lock'[Machine[q]]
      BY <3>1, <3>2, <3>3, <1>t, <1>m DEF GuardInv, GuardTypes
    <3>5. \A q \in Procs : receipt'[q] # 0 => pc'[q] \in Guarding
      BY <3>1 DEF GuardInv, Guarding
    <3> QED
      BY <3>1, <3>2, <3>4, <3>5 DEF GuardInv, Accepting
  <2>6. CASE Die(p)
    BY <2>6, <1>t, GuardDeath DEF Die, GuardTypes
  <2> QED
    BY <1>8, <2>1, <2>2, <2>3, <2>4, <2>5, <2>6 DEF Process
<1> QED
  BY <1>1, <1>2, <1>3, <1>4, <1>6, <1>7, <1>8 DEF Next, Arbiter

LEMMA GuardInit == Init => GuardInv
  BY MachineAssumption DEF Init, GuardInv, Guarding, Accepting

\* No two processes ever have a guard of the same epoch.
THEOREM GuardsAreUnique == Spec => []OneGuardPerEpoch
<1> DEFINE Inv == Typed /\ OwnerInv /\ GuardInv
<1>1. Init => Inv
  BY TypeInit, OwnerInit, GuardInit
<1>2. Inv /\ [Next]_vars => Inv'
  BY TypeStep, OwnerStep, GuardStep
<1>3. Inv => OneGuardPerEpoch
  <2> SUFFICES ASSUME Inv, NEW p \in Procs, NEW q \in Procs, p # q, receipt[p] # 0,
                      receipt[p] = receipt[q]
               PROVE  FALSE
    BY DEF OneGuardPerEpoch
  <2>1. pc[p] \in Guarding /\ pc[q] \in Guarding
    BY DEF GuardInv
  <2>2. Machine[p] = Machine[q]
    BY <2>1 DEF OwnerInv, Guarding
  <2> QED
    BY <2>2 DEF GuardInv, Twin
<1> QED
  BY <1>1, <1>2, <1>3, PTL DEF Spec

\* No check passes for a guard once a newer one was acquired on its machine.
THEOREM RetiredStayRetired == Spec => RetiredGuardsStayRetired
<1> DEFINE Inv == Typed /\ OwnerInv /\ GuardInv
           Retired == \A p, q \in Procs :
                         /\ Machine[p] = Machine[q]
                         /\ pc[p] # "authorized" /\ pc'[p] = "authorized"
                         => receipt[q] <= receipt[p]
<1>1. Init => Inv
  BY TypeInit, OwnerInit, GuardInit
<1>2. Inv /\ [Next]_vars => Inv'
  BY TypeStep, OwnerStep, GuardStep
<1>3. Inv /\ [Next]_vars => [Retired]_vars
  <2> SUFFICES ASSUME Inv, Next, NEW p \in Procs, NEW q \in Procs, Machine[p] = Machine[q],
                      pc[p] # "authorized", pc'[p] = "authorized"
               PROVE  receipt[q] <= receipt[p]
    OBVIOUS
  <2>t. pc \in [Procs -> Places]
    BY GuardTyped DEF GuardTypes
  <2>1. AssertAuthority(p)
    <3>1. \A r \in Procs : AssertAuthority(r) => r = p
      BY <2>t DEF AssertAuthority
    <3>2. \E r \in Procs : AssertAuthority(r)
      BY <2>t DEF Next, Arbiter, Process, BeginIssue, BeginCurrent, FencePeer, FenceFails, Observe,
                  CommitIssue, AnswerCurrent, Abort, Accept, Record, Acquire, Refuse, Write, Die,
                  Dead, SendRequest, LosePower, PowerOff, PowerOn, Sync, Review, Tick, procVars
    <3> QED
      BY <3>1, <3>2
  <2>2. file[Machine[p]] = receipt[p]
    BY <2>1 DEF AssertAuthority, StillOwner
  <2> QED
    BY <2>2 DEF GuardInv
<1> QED
  BY <1>1, <1>2, <1>3, PTL DEF Spec, RetiredGuardsStayRetired
=============================================================================

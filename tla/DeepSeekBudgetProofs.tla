------------------------ MODULE DeepSeekBudgetProofs ------------------------
(***************************************************************************)
(* Proofs about the paid-provider budget, for any processes, amounts and   *)
(* numbers of requests, faults and months.                                 *)
(***************************************************************************)
EXTENDS DeepSeekBudget, FiniteTheorems, FiniteSetTheorems, TLAPS

USE DEF vars, diskVars, historyVars

-----------------------------------------------------------------------------
(* The invariant of the reservations.                                      *)

Places == Saving \cup {"idle", "ready", "answered"}
Calls  == [id : Nat, amount : Nat, blocker : BOOLEAN, usage : Int]

\* A ledger is a record of these fields.
IsLedger(l) == l = [month |-> l.month, spent |-> l.spent, inflight |-> l.inflight]

Typed ==
    /\ IsLedger(ledger) /\ IsLedger(durable) /\ sentinel \in BOOLEAN
    /\ pc \in [Procs -> Places] /\ call \in [Procs -> Calls] /\ ids \in Nat

\* Requests that are on the way to the provider.
Sending(p) == pc[p] \in {"ready", "answered"}

\* Whoever writes has the lock.
LockHeld == \A p \in Procs : pc[p] \in Saving => lock = p

\* No two processes are at the same request, and every one was numbered.
CallsDiffer ==
    /\ \A p \in Procs : call[p].id <= ids
    /\ \A p, q \in Procs : pc[p] # "idle" /\ pc[q] # "idle" /\ call[p].id = call[q].id => p = q

\* Nothing is sent before the sentinel is on disk.
SentinelFirst == posted # {} \/ (\E p \in Procs : Sending(p)) => sentinel

\* l, if it is a file, has whatever is to be sent or was sent and is not settled.
Covers(l) ==
    l # NoLedger =>
        /\ posted \ settled \subseteq InFlight(l)
        /\ \A p \in Procs : Sending(p) \/ pc[p] = "reserve.mark" => call[p].id \in InFlight(l)

\* A reservation that is being written is in the file already, if there is one.
Written == \A p \in Procs : pc[p] = "reserve.sync" /\ ledger # NoLedger => call[p].id \in InFlight(ledger)

Inv == Typed /\ LockHeld /\ CallsDiffer /\ SentinelFirst /\ Covers(ledger) /\ Covers(durable) /\ Written

LEMMA NoLedgerIsLedger == IsLedger(NoLedger) /\ InFlight(NoLedger) = {}
BY DEF IsLedger, NoLedger, InFlight

LEMMA NoCallIsCall == NoCall \in Calls /\ NoCall.id = 0
BY DEF NoCall, Calls

LEMMA InitInv == Init => Inv
<1> SUFFICES ASSUME Init  PROVE Inv
  OBVIOUS
<1>1. Typed
  BY NoLedgerIsLedger, NoCallIsCall DEF Init, Typed, Places
<1>2. \A p \in Procs : pc[p] = "idle" /\ call[p].id = 0
  BY DEF Init, NoCall
<1> QED  BY <1>1, <1>2 DEF Init, Inv, LockHeld, CallsDiffer, SentinelFirst, Covers, Written, Sending, Saving

-----------------------------------------------------------------------------
(* Steps that end the call of a process and leave the files alone.         *)

LEMMA LeaveInv ==
    ASSUME Inv, NEW p \in Procs, Leave(p), UNCHANGED <<ledger, durable, settled, ids>>,
           sentinel => sentinel', sentinel' \in BOOLEAN,
           posted \subseteq posted', posted' # posted => Sending(p) /\ posted' = posted \cup {call[p].id}
    PROVE  Inv'
<1>1. pc' = [pc EXCEPT ![p] = "idle"] /\ call' = [call EXCEPT ![p] = NoCall]
  BY DEF Leave, Goto
<1>2. Typed'
  BY <1>1, NoCallIsCall DEF Inv, Typed, Places, IsLedger
<1>3. /\ pc'[p] = "idle" /\ call'[p].id = 0
      /\ \A q \in Procs : q # p => pc'[q] = pc[q] /\ call'[q] = call[q]
  BY <1>1 DEF Inv, Typed, NoCall
<1>4. LockHeld'
  BY <1>3 DEF Inv, LockHeld, Leave, Saving
<1>5. CallsDiffer'
  BY <1>3 DEF Inv, Typed, CallsDiffer
<1>6. SentinelFirst'
  BY <1>3 DEF Inv, SentinelFirst, Sending
<1>7. Covers(ledger)' /\ Covers(durable)' /\ Written'
  BY <1>3 DEF Inv, Covers, Written, Sending, InFlight
<1> QED  BY <1>2, <1>4, <1>5, <1>6, <1>7 DEF Inv

LEMMA SentinelIsBoolean == Inv => sentinel \in BOOLEAN
BY DEF Inv, Typed

LEMMA SaveFailsInv == ASSUME Inv, NEW p \in Procs, SaveFails(p)  PROVE Inv'
<1>1. Leave(p) /\ UNCHANGED <<ledger, durable, sentinel, posted, settled, ids>>
  BY DEF SaveFails
<1> QED  BY <1>1, SentinelIsBoolean, LeaveInv

LEMMA PostAmbiguousInv == ASSUME Inv, NEW p \in Procs, NEW u \in Usages, PostAmbiguous(p, u)  PROVE Inv'
<1>1. /\ Leave(p) /\ UNCHANGED <<ledger, durable, sentinel, settled, ids>>
      /\ Sending(p) /\ posted' = posted \cup {call[p].id}
  BY DEF PostAmbiguous, Charge, Sending
<1> QED  BY <1>1, SentinelIsBoolean, LeaveInv

LEMMA ReconcileRaisesInv == ASSUME Inv, NEW p \in Procs, ReconcileRaises(p)  PROVE Inv'
<1>1. Leave(p) /\ UNCHANGED <<ledger, durable, sentinel, posted, settled, ids>>
  BY DEF ReconcileRaises
<1> QED  BY <1>1, SentinelIsBoolean, LeaveInv

LEMMA LockTimeoutInv == ASSUME Inv, NEW p \in Procs, LockTimeout(p)  PROVE Inv'
<1>1. Leave(p) /\ UNCHANGED <<ledger, durable, sentinel, posted, settled, ids>>
  BY DEF LockTimeout
<1> QED  BY <1>1, SentinelIsBoolean, LeaveInv

LEMMA DieInv == ASSUME Inv, NEW p \in Procs, Die(p)  PROVE Inv'
<1>1. Leave(p) /\ UNCHANGED <<ledger, durable, sentinel, posted, settled, ids>>
  BY DEF Die
<1> QED  BY <1>1, SentinelIsBoolean, LeaveInv

-----------------------------------------------------------------------------
(* Steps of a call that goes on.                                           *)

\* What load_ledger returns has everything the file has.
LEMMA LoadedCovers ==
    ASSUME Inv, lock = Nobody, ~LoadRaises
    PROVE  /\ IsLedger(Loaded)
           /\ posted \ settled \subseteq InFlight(Loaded)
           /\ \A p \in Procs : pc[p] # "idle" => Sending(p) /\ call[p].id \in InFlight(Loaded)
<1>1. ASSUME NEW p \in Procs, pc[p] # "idle"  PROVE Sending(p)
  BY <1>1, ProcsAssumption DEF Inv, Typed, Places, LockHeld, Sending
<1>2. IsLedger(Fresh)
  BY DEF Fresh, IsLedger, NoLedger
<1>3. CASE ledger = NoLedger
  <2>1. ~sentinel
    BY <1>3 DEF LoadRaises
  <2>2. posted = {} /\ \A p \in Procs : ~Sending(p)
    BY <2>1 DEF Inv, SentinelFirst
  <2> QED  BY <1>1, <1>2, <1>3, <2>2 DEF Loaded
<1>4. CASE ledger # NoLedger /\ ledger.month # month
  <2>1. InFlight(ledger) = {}
    BY <1>4 DEF LoadRaises
  <2>2. posted \ settled = {} /\ \A p \in Procs : ~Sending(p)
    BY <1>4, <2>1 DEF Inv, Covers
  <2> QED  BY <1>1, <1>2, <1>4, <2>2 DEF Loaded
<1>5. CASE ledger # NoLedger /\ ledger.month = month
  BY <1>1, <1>5 DEF Loaded, Inv, Typed, Covers
<1> QED  BY <1>3, <1>4, <1>5

LEMMA ReserveInv ==
    ASSUME Inv, NEW p \in Procs, NEW a \in Amounts, NEW b \in BOOLEAN, Reserve(p, a, b)
    PROVE  Inv'
<1>1. /\ pc' = [pc EXCEPT ![p] = "reserve.sync"] /\ ids' = ids + 1 /\ lock' = p
      /\ call' = [call EXCEPT ![p] = [id |-> ids + 1, amount |-> a, blocker |-> b, usage |-> 0]]
      /\ UNCHANGED <<durable, sentinel, posted, settled>>
      /\ pc[p] = "idle" /\ lock = Nobody /\ ~LoadRaises
  BY DEF Reserve, Goto
<1>2. IsLedger(ledger') /\ InFlight(ledger') = InFlight(Loaded) \cup {ids + 1}
  <2>1. PICK f : f = [r \in InFlight(Loaded) \cup {ids'} |-> IF r = ids' THEN a ELSE Loaded.inflight[r]]
    OBVIOUS
  <2>2. ledger' = [Loaded EXCEPT !.inflight = f]
    BY <2>1 DEF Reserve
  <2>3. ledger' = [month |-> Loaded.month, spent |-> Loaded.spent, inflight |-> f]
    BY <1>1, <2>2, LoadedCovers DEF IsLedger
  <2>4. DOMAIN f = InFlight(Loaded) \cup {ids + 1}
    BY <1>1, <2>1
  <2> QED  BY <2>3, <2>4 DEF IsLedger, InFlight
<1>3. Typed'
  BY <1>1, <1>2, AmountsAssumption DEF Inv, Typed, Places, Saving, Calls, IsLedger
<1>4. /\ pc'[p] = "reserve.sync" /\ call'[p].id = ids + 1
      /\ \A q \in Procs : q # p => pc'[q] = pc[q] /\ call'[q] = call[q]
  BY <1>1 DEF Inv, Typed
<1>5. \A q \in Procs : q # p => pc'[q] \notin Saving
  BY <1>1, <1>4, LoadedCovers DEF Sending, Saving
<1>6. LockHeld'
  BY <1>1, <1>5 DEF LockHeld
<1>7. CallsDiffer'
  BY <1>1, <1>4 DEF Inv, Typed, CallsDiffer, Calls
<1>8. SentinelFirst'
  BY <1>1, <1>4 DEF Inv, SentinelFirst, Sending
<1>9. Covers(ledger)' /\ Written'
  BY <1>1, <1>2, <1>4, <1>5, LoadedCovers DEF Covers, Written, Sending, Saving
<1>10. Covers(durable)'
  BY <1>1, <1>4 DEF Inv, Covers, Sending, InFlight
<1> QED  BY <1>3, <1>6, <1>7, <1>8, <1>9, <1>10 DEF Inv

LEMMA SyncLedgerInv == ASSUME Inv, NEW p \in Procs, SyncLedger(p)  PROVE Inv'
<1> DEFINE next == IF pc[p] = "reserve.sync" THEN "reserve.mark" ELSE "settle.mark"
<1>1. /\ pc' = [pc EXCEPT ![p] = next] /\ durable' = ledger /\ ledger # NoLedger
      /\ UNCHANGED <<ledger, sentinel, lock, call, posted, settled, ids>>
      /\ pc[p] \in {"reserve.sync", "settle.sync"}
  BY DEF SyncLedger, Goto
<1>2. Typed'
  BY <1>1 DEF Inv, Typed, Places, Saving, IsLedger
<1>3. pc'[p] = next /\ \A q \in Procs : q # p => pc'[q] = pc[q]
  BY <1>1 DEF Inv, Typed
<1>4. LockHeld' /\ CallsDiffer' /\ SentinelFirst'
  BY <1>1, <1>3 DEF Inv, LockHeld, CallsDiffer, SentinelFirst, Sending, Saving
<1>5. Covers(ledger)' /\ Covers(durable)' /\ Written'
  BY <1>1, <1>3 DEF Inv, Covers, Written, Sending, InFlight
<1> QED  BY <1>2, <1>4, <1>5 DEF Inv

LEMMA SyncSentinelInv == ASSUME Inv, NEW p \in Procs, SyncSentinel(p)  PROVE Inv'
<1>1. CASE pc[p] = "settle.mark"
  <2>1. Leave(p) /\ UNCHANGED <<ledger, durable, posted, settled, ids>> /\ sentinel' = TRUE
    BY <1>1 DEF SyncSentinel
  <2> QED  BY <2>1, LeaveInv
<1>2. CASE pc[p] = "reserve.mark"
  <2>1. /\ pc' = [pc EXCEPT ![p] = "ready"] /\ sentinel' = TRUE
        /\ UNCHANGED <<ledger, durable, call, posted, settled, ids>>
    BY <1>2 DEF SyncSentinel, Goto
  <2>2. Typed'
    BY <2>1 DEF Inv, Typed, Places, IsLedger
  <2>3. pc'[p] = "ready" /\ \A q \in Procs : q # p => pc'[q] = pc[q]
    BY <2>1 DEF Inv, Typed
  <2>4. \A q \in Procs : pc[q] \in Saving => q = p
    BY <1>2 DEF Inv, LockHeld, Saving
  <2>5. LockHeld' /\ CallsDiffer' /\ SentinelFirst'
    BY <1>2, <2>1, <2>3, <2>4 DEF Inv, LockHeld, CallsDiffer, SentinelFirst, Saving
  <2>6. Covers(ledger)' /\ Covers(durable)' /\ Written'
    BY <1>2, <2>1, <2>3 DEF Inv, Covers, Written, Sending, InFlight
  <2> QED  BY <2>2, <2>5, <2>6 DEF Inv
<1> QED  BY <1>1, <1>2 DEF SyncSentinel

LEMMA PostAnsweredInv == ASSUME Inv, NEW p \in Procs, NEW u \in Usages, PostAnswered(p, u)  PROVE Inv'
<1>1. /\ pc' = [pc EXCEPT ![p] = "answered"] /\ call' = [call EXCEPT ![p].usage = u]
      /\ posted' = posted \cup {call[p].id} /\ pc[p] = "ready"
      /\ UNCHANGED <<ledger, durable, sentinel, lock, settled, ids>>
  BY DEF PostAnswered, Goto, Charge
<1>2. u \in Int
  BY DEF Usages
<1>3. Typed'
  BY <1>1, <1>2 DEF Inv, Typed, Places, Calls, IsLedger
<1>4. pc'[p] = "answered" /\ (\A q \in Procs : q # p => pc'[q] = pc[q]) /\ \A q \in Procs : call'[q].id = call[q].id
  BY <1>1 DEF Inv, Typed, Calls
<1>5. LockHeld' /\ CallsDiffer' /\ SentinelFirst'
  BY <1>1, <1>4 DEF Inv, LockHeld, CallsDiffer, SentinelFirst, Sending, Saving
<1>6. Covers(ledger)' /\ Covers(durable)' /\ Written'
  BY <1>1, <1>4 DEF Inv, Covers, Written, Sending, InFlight
<1> QED  BY <1>3, <1>5, <1>6 DEF Inv

LEMMA ReconcileInv == ASSUME Inv, NEW p \in Procs, Reconcile(p)  PROVE Inv'
<1>1. /\ pc' = [pc EXCEPT ![p] = "settle.sync"] /\ lock' = p
      /\ settled' = settled \cup {call[p].id} /\ ledger' = Settled(Loaded, call[p])
      /\ UNCHANGED <<durable, sentinel, call, posted, ids>>
      /\ pc[p] = "answered" /\ lock = Nobody /\ ~LoadRaises
  BY DEF Reconcile, Goto
<1>2. IsLedger(ledger') /\ InFlight(ledger') = InFlight(Loaded) \ {call[p].id}
  <2>1. PICK f : f = Release(Loaded, call[p].id)
    OBVIOUS
  <2>2. ledger' = [Loaded EXCEPT !.spent = @ + call[p].usage, !.inflight = f]
    BY <1>1, <2>1 DEF Settled
  <2>3. ledger' = [month |-> Loaded.month, spent |-> Loaded.spent + call[p].usage, inflight |-> f]
    BY <1>1, <2>2, LoadedCovers DEF IsLedger
  <2>4. DOMAIN f = InFlight(Loaded) \ {call[p].id}
    BY <2>1 DEF Release
  <2> QED  BY <2>3, <2>4 DEF IsLedger, InFlight
<1>3. Typed'
  BY <1>1, <1>2 DEF Inv, Typed, Places, Saving, IsLedger
<1>4. pc'[p] = "settle.sync" /\ \A q \in Procs : q # p => pc'[q] = pc[q]
  BY <1>1 DEF Inv, Typed
<1>5. \A q \in Procs : q # p => pc'[q] \notin Saving
  BY <1>1, <1>4, LoadedCovers DEF Sending, Saving
<1>6. LockHeld' /\ CallsDiffer' /\ SentinelFirst'
  BY <1>1, <1>4, <1>5 DEF Inv, LockHeld, CallsDiffer, SentinelFirst, Sending
<1>7. \A q \in Procs : q # p /\ pc[q] # "idle" => call[q].id # call[p].id
  BY <1>1 DEF Inv, CallsDiffer
<1>8. Covers(ledger)' /\ Written'
  BY <1>1, <1>2, <1>4, <1>5, <1>7, LoadedCovers DEF Covers, Written, Sending, Saving
<1>9. Covers(durable)'
  BY <1>1, <1>4 DEF Inv, Covers, Sending, InFlight
<1> QED  BY <1>3, <1>6, <1>8, <1>9 DEF Inv

-----------------------------------------------------------------------------
(* What happens to the machine.                                            *)

LEMMA PowerLossInv == ASSUME Inv, PowerLoss  PROVE Inv'
<1>1. /\ \A p \in Procs : pc'[p] = "idle" /\ call'[p].id = 0
      /\ ledger' \in {durable, ledger} /\ durable' = ledger'
      /\ UNCHANGED <<sentinel, posted, settled, ids>>
  BY DEF PowerLoss, NoCall
<1>2. Typed'
  BY <1>1 DEF PowerLoss, Inv, Typed, Places, Calls, NoCall, IsLedger
<1> QED  BY <1>1, <1>2 DEF Inv, Typed, LockHeld, CallsDiffer, SentinelFirst, Covers, Written, Sending, Saving, InFlight

LEMMA DeleteInv == ASSUME Inv, Delete  PROVE Inv'
<1>1. Typed'
  BY NoLedgerIsLedger DEF Delete, Inv, Typed
<1> QED  BY <1>1 DEF Delete, Inv, LockHeld, CallsDiffer, SentinelFirst, Covers, Written, Sending

-----------------------------------------------------------------------------
(* What was sent stays reserved.                                           *)

LEMMA NextInv == Inv /\ [Next]_vars => Inv'
<1> SUFFICES ASSUME Inv, [Next]_vars  PROVE Inv'
  OBVIOUS
<1>1. CASE NewMonth \/ UNCHANGED vars
  BY <1>1 DEF NewMonth, Inv, Typed, LockHeld, CallsDiffer, SentinelFirst, Covers, Written, Sending, InFlight, IsLedger
<1> QED
  BY <1>1, ReserveInv, SyncLedgerInv, SyncSentinelInv, PostAnsweredInv, ReconcileInv, ReconcileRaisesInv,
     SaveFailsInv, PostAmbiguousInv, LockTimeoutInv, DieInv, PowerLossInv, DeleteInv DEF Next, Proceed

\* "Ambiguous requests keep their reservation quarantined": whichever processes die,
\* writes fail and files are lost or deleted, and whatever month it is, no ledger that
\* can be read has forgotten a request that was sent and not settled.
THEOREM SentStaysReserved == Spec => []SentIsReserved
<1>1. Inv => SentIsReserved
  BY DEF Inv, Covers, SentIsReserved
<1> QED  BY InitInv, NextInv, <1>1, PTL DEF Spec

-----------------------------------------------------------------------------
(* Ledgers and what reserving and settling do to them.                     *)

\* What a ledger that was written for ids requests says.
Books(l) == l \in Ledgers /\ InFlight(l) \subseteq 1..ids /\ l.month <= month /\ Committed(l) <= MonthlyBudget

LEMMA BookIs ==
    ASSUME NEW l \in Ledgers
    PROVE  /\ l.month \in 0..MaxMonths /\ l.spent \in Nat /\ InFlight(l) \in SUBSET Requests
           /\ l.inflight \in [InFlight(l) -> Amounts] /\ IsFiniteSet(InFlight(l))
           /\ \A r \in InFlight(l) : l.inflight[r] \in Nat
           /\ Reserved(l) = SumFunctionOnSet(l.inflight, InFlight(l))
           /\ Reserved(l) \in Nat /\ Committed(l) \in Nat /\ IsLedger(l)
<1>1. PICK R \in SUBSET Requests : l.inflight \in [R -> Amounts]
  BY DEF Ledgers
<1>2. InFlight(l) = R
  BY <1>1 DEF InFlight
<1>3. IsFiniteSet(R)
  <2>1. IsFiniteSet(Requests)
    BY BoundsAssumption, FS_Interval DEF Requests
  <2> QED  BY <1>1, <2>1, FS_Subset
<1>4. \A r \in R : l.inflight[r] \in Nat
  BY <1>1, AmountsAssumption
<1>5. Reserved(l) = SumFunctionOnSet(l.inflight, R)
  BY <1>2 DEF Reserved, SumFunction, InFlight
<1>6. Reserved(l) \in Nat
  BY <1>3, <1>4, <1>5, SumNat
<1>7. l.month \in 0..MaxMonths /\ l.spent \in Nat /\ IsLedger(l)
  BY DEF Ledgers, IsLedger
<1>8. Committed(l) \in Nat
  BY <1>6, <1>7 DEF Committed
<1> QED  BY <1>1, <1>2, <1>3, <1>4, <1>5, <1>6, <1>7, <1>8

\* A ledger without reservations.
LEMMA EmptyBooks ==
    ASSUME NEW m \in 0..MaxMonths
    PROVE  LET l == [NoLedger EXCEPT !.month = m]
           IN  l \in Ledgers /\ InFlight(l) = {} /\ Reserved(l) = 0 /\ Committed(l) = 0 /\ l.month = m
<1> DEFINE l == [NoLedger EXCEPT !.month = m]
<1>1. l.month = m /\ l.spent = 0 /\ l.inflight = [r \in {} |-> 0] /\ IsLedger(l)
  BY DEF NoLedger, IsLedger
<1> HIDE DEF l
<1>2. l.inflight \in [{} -> Amounts] /\ {} \in SUBSET Requests /\ DOMAIN l.inflight = {}
  BY <1>1
<1>3. l \in Ledgers
  <2>1. [month |-> m, spent |-> 0, inflight |-> l.inflight] \in Ledgers
    BY <1>2 DEF Ledgers
  <2> QED  BY <1>1, <2>1 DEF IsLedger
<1>4. Reserved(l) = 0
  <2>1. SumFunctionOnSet(l.inflight, {}) = 0
    BY FS_EmptySet, SumZero
  <2> QED  BY <1>2, <1>3, <2>1, BookIs DEF InFlight
<1>5. Committed(l) = 0
  BY <1>1, <1>4 DEF Committed
<1>6. InFlight(l) = {}
  BY <1>2 DEF InFlight
<1> QED  BY <1>1, <1>3, <1>4, <1>5, <1>6 DEF l

\* _reserve adds the amount of the request to what is reserved.
LEMMA BookReserves ==
    ASSUME NEW l \in Ledgers, NEW r \in Requests, r \notin InFlight(l), NEW a \in Amounts, NEW k,
           k = [l EXCEPT !.inflight = [q \in InFlight(l) \cup {r} |-> IF q = r THEN a ELSE l.inflight[q]]]
    PROVE  /\ k \in Ledgers /\ InFlight(k) = InFlight(l) \cup {r} /\ k.month = l.month
           /\ Reserved(k) = Reserved(l) + a /\ Committed(k) = Committed(l) + a
           /\ k.inflight[r] = a /\ \A q \in InFlight(l) : k.inflight[q] = l.inflight[q]
<1> DEFINE f == [q \in InFlight(l) \cup {r} |-> IF q = r THEN a ELSE l.inflight[q]]
<1>0. /\ l.month \in 0..MaxMonths /\ l.spent \in Nat /\ InFlight(l) \in SUBSET Requests
      /\ l.inflight \in [InFlight(l) -> Amounts] /\ IsFiniteSet(InFlight(l))
      /\ \A q \in InFlight(l) : l.inflight[q] \in Nat
      /\ Reserved(l) = SumFunctionOnSet(l.inflight, InFlight(l)) /\ Reserved(l) \in Nat /\ IsLedger(l)
  BY BookIs
<1>1. SumFunction(f) = Reserved(l) + a
  <2>1. a \in Int /\ \A q \in InFlight(l) : l.inflight[q] \in Int
    BY <1>0, AmountsAssumption
  <2>2. SumFunction(f) = SumFunctionOnSet(l.inflight, InFlight(l)) + a
    <3> DEFINE S == InFlight(l)  g == l.inflight
    <3>1. IsFiniteSet(S) /\ r \notin S /\ a \in Int /\ \A q \in S : g[q] \in Int
      BY <1>0, <2>1
    <3>2. DOMAIN f = S \cup {r} /\ f[r] = a /\ \A q \in S : f[q] = g[q]
      BY <3>1
    <3> HIDE DEF S, g, f
    <3>3. IsFiniteSet(S \cup {r}) /\ (S \cup {r}) \ {r} = S
      BY <3>1, FS_AddElement
    <3>4. \A q \in S \cup {r} : f[q] \in Int
      BY <3>1, <3>2
    <3>5. SumFunctionOnSet(f, S \cup {r}) = f[r] + SumFunctionOnSet(f, (S \cup {r}) \ {r})
      BY <3>3, <3>4, SumOf
    <3>6. SumFunctionOnSet(f, S) = SumFunctionOnSet(g, S) /\ SumFunctionOnSet(g, S) \in Int
      BY <3>1, <3>2, SumSame, SumOf
    <3>7. SumFunction(f) = SumFunctionOnSet(f, S \cup {r})
      BY <3>2 DEF SumFunction
    <3>8. SumFunctionOnSet(f, S \cup {r}) = f[r] + SumFunctionOnSet(f, S)
      BY <3>3, <3>5
    <3>9. f[r] = a /\ a \in Int
      BY <3>1, <3>2
    <3>10. SumFunction(f) = a + SumFunctionOnSet(g, S)
      BY <3>6, <3>7, <3>8, <3>9
    <3>11. a + SumFunctionOnSet(g, S) = SumFunctionOnSet(g, S) + a
      BY <3>6, <3>9
    <3> QED  BY <3>10, <3>11 DEF S, g
  <2> QED  BY <1>0, <2>2
<1>2. DOMAIN f = InFlight(l) \cup {r} /\ f \in [InFlight(l) \cup {r} -> Amounts]
  BY <1>0
<1>3. f[r] = a /\ \A q \in InFlight(l) : f[q] = l.inflight[q]
  OBVIOUS
<1>4. k = [month |-> l.month, spent |-> l.spent, inflight |-> f]
  <2>1. k = [l EXCEPT !.inflight = f]
    OBVIOUS
  <2> HIDE DEF f
  <2> QED  BY <1>0, <2>1 DEF IsLedger
<1> HIDE DEF f
<1>5. k.month = l.month /\ k.spent = l.spent /\ k.inflight = f
  BY <1>4
<1>6. k \in Ledgers
  <2>1. InFlight(l) \cup {r} \in SUBSET Requests
    BY <1>0
  <2> QED  BY <1>0, <1>2, <1>4, <2>1 DEF Ledgers
<1>7. Reserved(k) = Reserved(l) + a /\ InFlight(k) = InFlight(l) \cup {r}
  BY <1>1, <1>2, <1>5 DEF Reserved, InFlight
<1>8. Committed(k) = Committed(l) + a
  <2>1. a \in Nat
    BY AmountsAssumption
  <2> QED  BY <1>0, <1>5, <1>7, <2>1 DEF Committed
<1> QED  BY <1>3, <1>5, <1>6, <1>7, <1>8 DEF f

\* _reconcile puts the usage in the place of the reservation.
LEMMA BookSettles ==
    ASSUME NEW l \in Ledgers, NEW c, c.id \in InFlight(l), c.usage \in Nat
    PROVE  LET k == Settled(l, c)
           IN  /\ k \in Ledgers /\ InFlight(k) = InFlight(l) \ {c.id} /\ k.month = l.month
               /\ Reserved(k) = Reserved(l) - l.inflight[c.id]
               /\ Committed(k) = Committed(l) - l.inflight[c.id] + c.usage
               /\ \A q \in InFlight(k) : k.inflight[q] = l.inflight[q]
<1> DEFINE f == Release(l, c.id)
           k == Settled(l, c)
<1>0. /\ l.month \in 0..MaxMonths /\ l.spent \in Nat /\ InFlight(l) \in SUBSET Requests
      /\ l.inflight \in [InFlight(l) -> Amounts] /\ IsFiniteSet(InFlight(l))
      /\ \A q \in InFlight(l) : l.inflight[q] \in Nat
      /\ Reserved(l) = SumFunctionOnSet(l.inflight, InFlight(l)) /\ Reserved(l) \in Nat /\ IsLedger(l)
  BY BookIs
<1>1. SumFunction(f) = Reserved(l) - l.inflight[c.id]
  <2>1. \A q \in InFlight(l) : l.inflight[q] \in Int
    BY <1>0
  <2>2. SumFunction([q \in InFlight(l) \ {c.id} |-> l.inflight[q]]) = SumFunctionOnSet(l.inflight, InFlight(l)) - l.inflight[c.id]
    BY <1>0, <2>1, SumDrops
  <2> QED  BY <1>0, <2>2 DEF Release
<1>2. /\ DOMAIN f = InFlight(l) \ {c.id} /\ f \in [InFlight(l) \ {c.id} -> Amounts]
      /\ \A q \in InFlight(l) \ {c.id} : f[q] = l.inflight[q]
  BY <1>0 DEF Release
<1> HIDE DEF f
<1>3. k = [month |-> l.month, spent |-> l.spent + c.usage, inflight |-> f]
  <2>1. k = [l EXCEPT !.spent = l.spent + c.usage, !.inflight = f]
    BY DEF Settled, f
  <2> HIDE DEF k
  <2> QED  BY <1>0, <2>1 DEF IsLedger
<1>4. k.month = l.month /\ k.spent = l.spent + c.usage /\ k.inflight = f
  BY <1>3
<1>5. k \in Ledgers
  <2>1. InFlight(l) \ {c.id} \in SUBSET Requests
    BY <1>0
  <2> QED  BY <1>0, <1>2, <1>3, <2>1 DEF Ledgers
<1> HIDE DEF k
<1>6. Reserved(k) = Reserved(l) - l.inflight[c.id] /\ InFlight(k) = InFlight(l) \ {c.id}
  BY <1>1, <1>2, <1>4 DEF Reserved, InFlight
<1>7. Committed(k) = Committed(l) - l.inflight[c.id] + c.usage
  BY <1>0, <1>4, <1>6 DEF Committed
<1> QED  BY <1>2, <1>4, <1>5, <1>6, <1>7 DEF k

-----------------------------------------------------------------------------
(* The figures of the ledger and of the calls.                             *)

\* The reservations that the ledger holds for calls that go on, and those that a loss
\* of power would leave.
AtLedger  == {"reserve.sync", "reserve.mark", "ready", "answered"}
AtDurable == AtLedger \ {"reserve.sync"}

CallType == [id : 0..MaxRequests, amount : Amounts \cup {0}, blocker : BOOLEAN, usage : Nat]

\* A call that goes on has a number and an amount, which is the one in the ledger; it
\* has a usage once it was answered, and then it was sent.
InCall(p) ==
    pc[p] # "idle" =>
        /\ call[p].id \in 1..ids /\ call[p].amount \in Amounts
        /\ pc[p] = "answered" => call[p].id \in posted
        /\ pc[p] \in AtLedger \ {"answered"} => call[p].usage = 0
        /\ call[p].id \in InFlight(ledger) => ledger.inflight[call[p].id] = call[p].amount

History ==
    /\ month \in Months /\ billed \in [Months -> Nat] /\ routine \in [Months -> Nat]
    /\ settled \subseteq posted /\ posted \subseteq 1..ids
    /\ exceeded \in BOOLEAN

Figures ==
    /\ Books(ledger) /\ Books(durable)
    /\ lock \in Procs \cup {Nobody} /\ call \in [Procs -> CallType]
    /\ History /\ ids \in 0..MaxRequests /\ faults \in 0..MaxFaults
    /\ \A p \in Procs : InCall(p)

LEMMA NoLedgerBooks == ASSUME Figures  PROVE Books(NoLedger) /\ InFlight(NoLedger) = {} /\ Reserved(NoLedger) = 0
<1>1. [NoLedger EXCEPT !.month = 0] = NoLedger /\ 0 \in 0..MaxMonths
  BY BoundsAssumption DEF NoLedger
<1>2. NoLedger \in Ledgers /\ InFlight(NoLedger) = {} /\ Reserved(NoLedger) = 0 /\ Committed(NoLedger) = 0 /\ NoLedger.month = 0
  BY <1>1, EmptyBooks
<1> QED  BY <1>2, AmountsAssumption DEF Books, Figures, History, Months

LEMMA FiguresInit == Init => Figures
<1> SUFFICES ASSUME Init  PROVE Figures
  OBVIOUS
<1>1. [NoLedger EXCEPT !.month = 0] = NoLedger /\ 0 \in 0..MaxMonths
  BY BoundsAssumption DEF NoLedger
<1>2. NoLedger \in Ledgers /\ InFlight(NoLedger) = {} /\ Committed(NoLedger) = 0 /\ NoLedger.month = 0
  BY <1>1, EmptyBooks
<1>3. Books(ledger) /\ Books(durable)
  BY <1>2, AmountsAssumption DEF Init, Books
<1>4. NoCall \in CallType
  BY BoundsAssumption DEF NoCall, CallType
<1>5. History
  <2>1. month \in Months
    BY BoundsAssumption DEF Init, Months
  <2> QED  BY <2>1 DEF Init, History
<1> QED  BY <1>3, <1>4, <1>5, BoundsAssumption DEF Init, Figures, InCall

\* The ledger that load_ledger returns.
LEMMA LoadedBooks ==
    ASSUME Figures
    PROVE  /\ Loaded \in Ledgers /\ InFlight(Loaded) \subseteq 1..ids /\ Loaded.month = month
           /\ Committed(Loaded) <= MonthlyBudget
           /\ \A r \in InFlight(Loaded) : r \in InFlight(ledger) /\ ledger.inflight[r] = Loaded.inflight[r]
<1>1. month \in 0..MaxMonths /\ month \in Nat
  BY BoundsAssumption DEF Figures, History, Months
<1>2. Fresh \in Ledgers /\ InFlight(Fresh) = {} /\ Committed(Fresh) = 0 /\ Fresh.month = month
  BY <1>1, EmptyBooks DEF Fresh
<1>3. CASE ledger = NoLedger \/ ledger.month # month
  BY <1>2, <1>3, AmountsAssumption DEF Loaded
<1>4. CASE ~(ledger = NoLedger \/ ledger.month # month)
  BY <1>4 DEF Loaded, Figures, Books
<1> QED  BY <1>3, <1>4

LEMMA CallLeaves ==
    ASSUME Figures, Inv, NEW p \in Procs, Leave(p), UNCHANGED <<ledger, ids>>, posted \subseteq posted'
    PROVE  lock' \in Procs \cup {Nobody} /\ call' \in [Procs -> CallType] /\ \A q \in Procs : InCall(q)'
<1>1. pc' = [pc EXCEPT ![p] = "idle"] /\ call' = [call EXCEPT ![p] = NoCall]
  BY DEF Leave, Goto
<1>2. NoCall \in CallType
  BY BoundsAssumption DEF NoCall, CallType
<1>3. lock' \in Procs \cup {Nobody} /\ call' \in [Procs -> CallType]
  BY <1>1, <1>2 DEF Leave, Figures
<1>4. pc'[p] = "idle" /\ \A q \in Procs : q # p => pc'[q] = pc[q] /\ call'[q] = call[q]
  BY <1>1 DEF Inv, Typed
<1>5. \A q \in Procs : InCall(q)'
  BY <1>4 DEF Figures, InCall, InFlight
<1> QED  BY <1>3, <1>5

LEMMA ChargeHistory ==
    ASSUME Figures, NEW p \in Procs, pc[p] = "ready", NEW u \in Nat, Charge(p, u), month' = month, ids' = ids
    PROVE  History' /\ posted' = posted \cup {call[p].id}
<1>1. call[p].id \in 1..ids
  BY DEF Figures, InCall
<1>2. billed' \in [Months -> Nat] /\ routine' \in [Months -> Nat]
  BY DEF Charge, Figures, History
<1> QED  BY <1>1, <1>2 DEF Charge, Figures, History

LEMMA LeaveFigures ==
    ASSUME Figures, Inv, NEW p \in Procs, Leave(p), UNCHANGED <<ledger, durable, ids, month>>,
           posted \subseteq posted', History', faults' \in 0..MaxFaults
    PROVE  Figures'
<1>1. lock' \in Procs \cup {Nobody} /\ call' \in [Procs -> CallType] /\ \A q \in Procs : InCall(q)'
  BY CallLeaves
<1>2. Books(ledger)' /\ Books(durable)'
  BY DEF Figures, Books, InFlight, Committed, Reserved
<1> QED  BY <1>1, <1>2 DEF Figures

LEMMA FaultCounts == ASSUME Figures, NEW k, Fault(k)  PROVE faults' \in 0..MaxFaults
BY BoundsAssumption DEF Fault, Figures

\* The steps that end a call.
LEMMA EndFigures ==
    ASSUME Figures, Inv, NEW p \in Procs, SaveFails(p) \/ ReconcileRaises(p) \/ LockTimeout(p) \/ Die(p)
    PROVE  Figures'
<1>1. Leave(p) /\ UNCHANGED <<diskVars, month, historyVars, ids>>
  BY DEF SaveFails, ReconcileRaises, LockTimeout, Die
<1>2. faults' \in 0..MaxFaults
  BY FaultCounts DEF SaveFails, ReconcileRaises, LockTimeout, Die, Figures
<1>3. History'
  BY <1>1 DEF Figures, History
<1> QED  BY <1>1, <1>2, <1>3, LeaveFigures

LEMMA PostAmbiguousFigures ==
    ASSUME Figures, Inv, NEW p \in Procs, NEW u \in Usages, PostAmbiguous(p, u)
    PROVE  Figures'
<1>1. u \in Nat
  BY DEF Usages
<1>2. Leave(p) /\ UNCHANGED <<ledger, durable, ids, month>> /\ faults' \in 0..MaxFaults
  BY FaultCounts DEF PostAmbiguous
<1>3. History' /\ posted \subseteq posted'
  BY <1>1, <1>2, ChargeHistory DEF PostAmbiguous
<1> QED  BY <1>2, <1>3, LeaveFigures

LEMMA PostAnsweredFigures ==
    ASSUME Figures, Inv, NEW p \in Procs, NEW u \in Usages, PostAnswered(p, u)
    PROVE  Figures'
<1>1. u \in Nat
  BY DEF Usages
<1>2. /\ pc[p] = "ready" /\ Charge(p, u) /\ call' = [call EXCEPT ![p].usage = u] /\ pc' = [pc EXCEPT ![p] = "answered"]
      /\ UNCHANGED <<ledger, durable, lock, month, ids, faults>>
  BY DEF PostAnswered, Goto
<1>3. History' /\ posted' = posted \cup {call[p].id}
  BY <1>1, <1>2, ChargeHistory
<1>4. call[p] \in CallType
  BY DEF Figures
<1>5. /\ call' \in [Procs -> CallType] /\ call'[p] = [call[p] EXCEPT !.usage = u]
      /\ call'[p].id = call[p].id /\ call'[p].amount = call[p].amount
      /\ \A q \in Procs : q # p => call'[q] = call[q]
  BY <1>1, <1>2, <1>4 DEF Figures, CallType
<1>6. pc'[p] = "answered" /\ \A q \in Procs : q # p => pc'[q] = pc[q]
  BY <1>2 DEF Inv, Typed
<1>7. \A q \in Procs : InCall(q)'
  BY <1>2, <1>3, <1>5, <1>6 DEF Figures, InCall, InFlight
<1>8. Books(ledger)' /\ Books(durable)'
  BY <1>2 DEF Figures, Books, InFlight, Committed, Reserved
<1> QED  BY <1>2, <1>3, <1>5, <1>7, <1>8 DEF Figures

LEMMA ReserveFigures ==
    ASSUME Figures, Inv, NEW p \in Procs, NEW a \in Amounts, NEW b \in BOOLEAN, Reserve(p, a, b)
    PROVE  Figures'
<1>1. /\ pc' = [pc EXCEPT ![p] = "reserve.sync"] /\ lock' = p /\ ids' = ids + 1
      /\ call' = [call EXCEPT ![p] = [id |-> ids + 1, amount |-> a, blocker |-> b, usage |-> 0]]
      /\ ledger' = [Loaded EXCEPT !.inflight = [r \in InFlight(Loaded) \cup {ids + 1} |->
                                                   IF r = ids + 1 THEN a ELSE Loaded.inflight[r]]]
      /\ ids < MaxRequests /\ Fits(Loaded, a, b)
      /\ UNCHANGED <<durable, sentinel, month, billed, routine, posted, settled, exceeded, faults>>
  BY DEF Reserve, Goto
<1>2. ids' \in 0..MaxRequests /\ ids + 1 \in Requests /\ ids \in Nat
  BY <1>1, BoundsAssumption DEF Figures, Requests
<1>3. /\ Loaded \in Ledgers /\ InFlight(Loaded) \subseteq 1..ids /\ Loaded.month = month
      /\ Committed(Loaded) <= MonthlyBudget
      /\ \A r \in InFlight(Loaded) : r \in InFlight(ledger) /\ ledger.inflight[r] = Loaded.inflight[r]
  BY LoadedBooks
<1>4. ids + 1 \notin InFlight(Loaded)
  BY <1>2, <1>3
<1>5. /\ ledger' \in Ledgers /\ InFlight(ledger') = InFlight(Loaded) \cup {ids + 1} /\ ledger'.month = Loaded.month
      /\ Committed(ledger') = Committed(Loaded) + a
      /\ ledger'.inflight[ids + 1] = a /\ \A q \in InFlight(Loaded) : ledger'.inflight[q] = Loaded.inflight[q]
  <2> DEFINE l == Loaded  r == ids + 1
  <2>1. l \in Ledgers /\ r \in Requests /\ r \notin InFlight(l)
    BY <1>2, <1>3, <1>4
  <2>2. ledger' = [l EXCEPT !.inflight = [q \in InFlight(l) \cup {r} |-> IF q = r THEN a ELSE l.inflight[q]]]
    BY <1>1
  <2> HIDE DEF l, r
  <2>3. /\ ledger' \in Ledgers /\ InFlight(ledger') = InFlight(l) \cup {r} /\ ledger'.month = l.month
        /\ Committed(ledger') = Committed(l) + a
        /\ ledger'.inflight[r] = a /\ \A q \in InFlight(l) : ledger'.inflight[q] = l.inflight[q]
    BY <2>1, <2>2, BookReserves
  <2> QED  BY <2>3 DEF l, r
<1>6. Committed(Loaded) \in Nat /\ a \in Nat /\ month \in Nat
  BY <1>3, BookIs, AmountsAssumption DEF Figures, History, Months
<1>7. Books(ledger)'
  <2>1. Committed(ledger') <= MonthlyBudget
    BY <1>1, <1>5, <1>6, AmountsAssumption DEF Fits
  <2>2. InFlight(ledger') \subseteq 1..ids'
    BY <1>1, <1>2, <1>3, <1>5
  <2>3. ledger'.month <= month'
    BY <1>1, <1>3, <1>5, <1>6
  <2> QED  BY <1>5, <2>1, <2>2, <2>3 DEF Books
<1>8. Books(durable)'
  BY <1>1, <1>2 DEF Figures, Books
<1>9. /\ call' \in [Procs -> CallType]
      /\ pc'[p] = "reserve.sync" /\ call'[p] = [id |-> ids + 1, amount |-> a, blocker |-> b, usage |-> 0]
      /\ \A q \in Procs : q # p => pc'[q] = pc[q] /\ call'[q] = call[q]
  BY <1>1, <1>2 DEF Figures, CallType, Inv, Typed, Requests
<1>10. \A q \in Procs : InCall(q)'
  <2>1. InCall(p)'
    BY <1>1, <1>2, <1>5, <1>9 DEF InCall
  <2>2. ASSUME NEW q \in Procs, q # p, pc[q] # "idle"
        PROVE  /\ call[q].id \in 1..ids /\ call[q].id \in 1..ids'
               /\ call[q].id \in InFlight(ledger') => ledger'.inflight[call[q].id] = call[q].amount
    <3>1. call[q].id \in 1..ids /\ (call[q].id \in InFlight(ledger) => ledger.inflight[call[q].id] = call[q].amount)
      BY <2>2 DEF Figures, InCall
    <3>2. call[q].id # ids + 1
      BY <1>2, <3>1
    <3>3. call[q].id \in 1..ids'
      BY <1>1, <1>2, <3>1
    <3>4. call[q].id \in InFlight(ledger') => call[q].id \in InFlight(Loaded)
      BY <1>5, <3>2
    <3> QED  BY <1>3, <1>5, <3>1, <3>3, <3>4
  <2>3. ASSUME NEW q \in Procs, q # p  PROVE InCall(q)'
    BY <1>1, <1>9, <2>2, <2>3 DEF Figures, InCall
  <2> QED  BY <2>1, <2>3
<1>11. History'
  BY <1>1, <1>2 DEF Figures, History
<1> QED  BY <1>1, <1>2, <1>7, <1>8, <1>9, <1>10, <1>11 DEF Figures

LEMMA ReconcileFigures ==
    ASSUME Figures, Inv, NEW p \in Procs, Reconcile(p)
    PROVE  Figures'
<1>1. /\ pc' = [pc EXCEPT ![p] = "settle.sync"] /\ lock' = p /\ settled' = settled \cup {call[p].id}
      /\ ledger' = Settled(Loaded, call[p]) /\ pc[p] = "answered"
      /\ call[p].id \in InFlight(Loaded) /\ call[p].usage <= Loaded.inflight[call[p].id]
      /\ UNCHANGED <<durable, call, month, billed, routine, posted, exceeded, ids, faults>>
  BY DEF Reconcile, Goto
<1>2. /\ Loaded \in Ledgers /\ InFlight(Loaded) \subseteq 1..ids /\ Loaded.month = month
      /\ Committed(Loaded) <= MonthlyBudget
      /\ \A r \in InFlight(Loaded) : r \in InFlight(ledger) /\ ledger.inflight[r] = Loaded.inflight[r]
  BY LoadedBooks
<1>3. call[p].usage \in Nat
  BY DEF Figures, CallType
<1>4. /\ ledger' \in Ledgers /\ InFlight(ledger') = InFlight(Loaded) \ {call[p].id} /\ ledger'.month = Loaded.month
      /\ Committed(ledger') = Committed(Loaded) - Loaded.inflight[call[p].id] + call[p].usage
      /\ \A q \in InFlight(ledger') : ledger'.inflight[q] = Loaded.inflight[q]
  BY <1>1, <1>2, <1>3, BookSettles
<1>5. Books(ledger)'
  <2>1. Committed(Loaded) \in Nat /\ Loaded.inflight[call[p].id] \in Nat
    BY <1>1, <1>2, BookIs
  <2>2. Committed(ledger') <= MonthlyBudget
    BY <1>1, <1>2, <1>3, <1>4, <2>1, AmountsAssumption
  <2>3. month \in Nat
    BY DEF Figures, History, Months
  <2> QED  BY <1>1, <1>2, <1>4, <2>2, <2>3 DEF Books
<1>6. Books(durable)'
  BY <1>1 DEF Figures, Books
<1>7. pc'[p] = "settle.sync" /\ \A q \in Procs : q # p => pc'[q] = pc[q]
  BY <1>1 DEF Inv, Typed
<1>8. \A q \in Procs : InCall(q)'
  <2>1. \A q \in Procs : pc'[q] # "idle" => pc[q] # "idle"
    BY <1>1, <1>7
  <2>2. \A r \in InFlight(ledger') : r \in InFlight(ledger) /\ ledger'.inflight[r] = ledger.inflight[r]
    BY <1>2, <1>4
  <2>3. "settle.sync" \notin AtLedger /\ "settle.sync" # "answered"
    BY DEF AtLedger
  <2> QED  BY <1>1, <1>7, <2>1, <2>2, <2>3 DEF Figures, InCall
<1>9. History'
  BY <1>1 DEF Figures, History, InCall
<1> QED  BY <1>1, <1>5, <1>6, <1>8, <1>9 DEF Figures

LEMMA SyncFigures ==
    ASSUME Figures, Inv, NEW p \in Procs, SyncLedger(p) \/ SyncSentinel(p)
    PROVE  Figures'
<1>1. CASE SyncSentinel(p) /\ pc[p] = "settle.mark"
  <2>1. Leave(p) /\ UNCHANGED <<ledger, durable, month, historyVars, ids, faults>>
    BY <1>1 DEF SyncSentinel
  <2>2. History' /\ faults' \in 0..MaxFaults
    BY <2>1 DEF Figures, History
  <2> QED  BY <2>1, <2>2, LeaveFigures
<1>2. ASSUME NEW place \in Places, pc' = [pc EXCEPT ![p] = place], pc[p] \in Saving, place # "answered",
             place \in AtLedger => pc[p] \in AtLedger,
             lock' \in {Nobody, lock}, durable' \in {ledger, durable},
             UNCHANGED <<ledger, call, month, historyVars, ids, faults>>
      PROVE  Figures'
  <2>1. pc'[p] = place /\ \A q \in Procs : q # p => pc'[q] = pc[q]
    BY <1>2 DEF Inv, Typed
  <2>2. pc[p] # "idle" /\ pc[p] # "answered"
    BY <1>2 DEF Saving
  <2>3. \A q \in Procs : InCall(q)'
    BY <1>2, <2>1, <2>2 DEF Figures, InCall
  <2>4. Books(ledger)' /\ Books(durable)'
    BY <1>2 DEF Figures, Books
  <2>5. History'
    BY <1>2 DEF Figures, History
  <2> QED  BY <1>2, <2>3, <2>4, <2>5 DEF Figures
<1>3. CASE SyncSentinel(p) /\ pc[p] = "reserve.mark"
  <2>1. /\ pc' = [pc EXCEPT ![p] = "ready"] /\ lock' = Nobody
        /\ UNCHANGED <<ledger, durable, call, month, historyVars, ids, faults>>
    BY <1>3 DEF SyncSentinel, Goto
  <2>2. "ready" \in Places /\ "ready" \in AtLedger /\ pc[p] \in AtLedger /\ pc[p] \in Saving
    BY <1>3 DEF Places, AtLedger, Saving
  <2> QED  BY <1>2, <2>1, <2>2
<1>4. CASE SyncLedger(p) /\ pc[p] = "reserve.sync"
  <2>1. /\ pc' = [pc EXCEPT ![p] = "reserve.mark"] /\ durable' = ledger
        /\ UNCHANGED <<ledger, lock, call, month, historyVars, ids, faults>>
    BY <1>4 DEF SyncLedger, Goto
  <2>2. "reserve.mark" \in Places /\ "reserve.mark" \in AtLedger /\ pc[p] \in AtLedger /\ pc[p] \in Saving
    BY <1>4 DEF Places, AtLedger, Saving
  <2> QED  BY <1>2, <2>1, <2>2
<1>5. CASE SyncLedger(p) /\ pc[p] = "settle.sync"
  <2>1. /\ pc' = [pc EXCEPT ![p] = "settle.mark"] /\ durable' = ledger
        /\ UNCHANGED <<ledger, lock, call, month, historyVars, ids, faults>>
    BY <1>5 DEF SyncLedger, Goto
  <2>2. "settle.mark" \in Places /\ "settle.mark" \notin AtLedger /\ pc[p] \in Saving
    BY <1>5 DEF Places, AtLedger, Saving
  <2> QED  BY <1>2, <2>1, <2>2
<1> QED  BY <1>1, <1>3, <1>4, <1>5 DEF SyncLedger, SyncSentinel

LEMMA MachineFigures ==
    ASSUME Figures, Inv, PowerLoss \/ Delete \/ NewMonth \/ UNCHANGED vars
    PROVE  Figures'
<1>1. CASE PowerLoss
  <2>1. NoCall \in CallType
    BY BoundsAssumption DEF NoCall, CallType
  <2>2. History' /\ faults' \in 0..MaxFaults
    BY <1>1, FaultCounts DEF PowerLoss, Figures, History
  <2>3. Books(ledger)' /\ Books(durable)'
    BY <1>1 DEF PowerLoss, Figures, Books
  <2> QED  BY <1>1, <2>1, <2>2, <2>3 DEF PowerLoss, Figures, InCall
<1>2. CASE Delete
  <2>1. Books(NoLedger) /\ InFlight(NoLedger) = {}
    BY NoLedgerBooks
  <2>2. Books(ledger)' /\ Books(durable)'
    BY <1>2, <2>1 DEF Delete, Books
  <2>3. History' /\ faults' \in 0..MaxFaults
    BY <1>2, FaultCounts DEF Delete, Figures, History
  <2>4. \A q \in Procs : InCall(q)'
    BY <1>2, <2>1 DEF Delete, Figures, InCall
  <2> QED  BY <1>2, <2>2, <2>3, <2>4 DEF Delete, Figures
<1>3. CASE NewMonth
  <2>1. month' = month + 1 /\ month' \in Months /\ month \in Nat
    BY <1>3, BoundsAssumption DEF NewMonth, Figures, History, Months
  <2>2. History'
    BY <1>3, <2>1 DEF NewMonth, Figures, History
  <2>3. \A l \in {ledger, durable} : l.month \in Nat
    BY BookIs DEF Figures, Books
  <2>4. Books(ledger)' /\ Books(durable)'
    BY <1>3, <2>1, <2>3 DEF NewMonth, Figures, Books
  <2> QED  BY <1>3, <2>2, <2>4 DEF NewMonth, Figures, InCall
<1>4. CASE UNCHANGED vars
  BY <1>4 DEF Figures, History, Books, InCall
<1> QED  BY <1>1, <1>2, <1>3, <1>4

LEMMA FiguresNext == ASSUME Figures, Inv, [Next]_vars  PROVE Figures'
BY ReserveFigures, SyncFigures, PostAnsweredFigures, PostAmbiguousFigures, ReconcileFigures, EndFigures, MachineFigures
   DEF Next, Proceed

\* Every variable keeps its type, and the ledger never commits more than the budget.
\* It matters for the cap that load_ledger, _reserve and _reconcile only ever see a
\* ledger whose figures add up.
THEOREM TypeCorrect == Spec => []TypeOK
<1>1. Init => Inv /\ Figures
  BY InitInv, FiguresInit
<1>2. Inv /\ Figures /\ [Next]_vars => Inv' /\ Figures'
  BY NextInv, FiguresNext
<1>3. Inv /\ Figures => TypeOK
  BY DEF Inv, Typed, Places, Figures, History, Books, CallType, TypeOK
<1> QED  BY <1>1, <1>2, <1>3, PTL DEF Spec

-----------------------------------------------------------------------------
(* What is reserved for the calls that go on, and what they may still      *)
(* spend of it.                                                            *)

\* The calls of P and C in the places Q, with a blocker flag in B: the amount of one,
\* what is left of it after its usage, and the sums of both.
Hold(P, C, Q, B, p) == IF P[p] \in Q /\ C[p].blocker \in B THEN C[p].amount ELSE 0
Owe(P, C, Q, B, p)  == IF P[p] \in Q /\ C[p].blocker \in B THEN C[p].amount - C[p].usage ELSE 0
Held(P, C, Q, B) == SumFunctionOnSet([p \in Procs |-> Hold(P, C, Q, B, p)], Procs)
Debt(P, C, Q, B) == SumFunctionOnSet([p \in Procs |-> Owe(P, C, Q, B, p)], Procs)

Within(C) == \A p \in Procs : C[p].usage <= C[p].amount

LEMMA Parts ==
    ASSUME NEW P, NEW C \in [Procs -> CallType], NEW Q, NEW B, NEW p \in Procs
    PROVE  /\ Hold(P, C, Q, B, p) \in Nat /\ Owe(P, C, Q, B, p) \in Int
           /\ Owe(P, C, Q, B, p) <= Hold(P, C, Q, B, p)
           /\ Within(C) => Owe(P, C, Q, B, p) \in Nat
<1>1. C[p].amount \in Nat /\ C[p].usage \in Nat
  <2>1. C[p] \in CallType
    OBVIOUS
  <2>2. C[p].amount \in Amounts \cup {0} /\ C[p].usage \in Nat
    BY <2>1 DEF CallType
  <2>3. \A a \in Amounts \cup {0} : a \in Nat
    BY AmountsAssumption
  <2> QED  BY <2>2, <2>3
<1>2. Within(C) => C[p].usage <= C[p].amount
  BY DEF Within
<1> QED  BY <1>1, <1>2 DEF Hold, Owe

LEMMA Totals ==
    ASSUME NEW P, NEW C \in [Procs -> CallType], NEW Q, NEW B
    PROVE  /\ Held(P, C, Q, B) \in Nat /\ Debt(P, C, Q, B) \in Int
           /\ Debt(P, C, Q, B) <= Held(P, C, Q, B)
           /\ Within(C) => Debt(P, C, Q, B) \in Nat
<1> DEFINE h == [p \in Procs |-> Hold(P, C, Q, B, p)]
           o == [p \in Procs |-> Owe(P, C, Q, B, p)]
<1>1. \A p \in Procs : h[p] \in Nat /\ h[p] \in Int /\ o[p] \in Int /\ o[p] <= h[p] /\ (Within(C) => o[p] \in Nat)
  BY Parts
<1>2. Held(P, C, Q, B) = SumFunctionOnSet(h, Procs) /\ Debt(P, C, Q, B) = SumFunctionOnSet(o, Procs)
  BY DEF Held, Debt
<1> HIDE DEF h, o
<1>3. SumFunctionOnSet(h, Procs) \in Nat
  BY <1>1, SumNat, ProcsAssumption
<1>4. SumFunctionOnSet(o, Procs) \in Int
  BY <1>1, SumOf, ProcsAssumption
<1>5. SumFunctionOnSet(o, Procs) <= SumFunctionOnSet(h, Procs)
  BY <1>1, SumGrows, ProcsAssumption
<1>6. Within(C) => SumFunctionOnSet(o, Procs) \in Nat
  BY <1>1, SumNat, ProcsAssumption
<1> QED  BY <1>2, <1>3, <1>4, <1>5, <1>6

\* Fewer places and fewer kinds of calls.
LEMMA Narrower ==
    ASSUME NEW P, NEW C \in [Procs -> CallType], NEW Q, NEW B, NEW R \in SUBSET Q, NEW D \in SUBSET B
    PROVE  /\ Held(P, C, R, D) <= Held(P, C, Q, B)
           /\ Within(C) => Debt(P, C, R, D) <= Debt(P, C, Q, B)
<1>1. Held(P, C, R, D) <= Held(P, C, Q, B)
  <2> DEFINE f == [p \in Procs |-> Hold(P, C, R, D, p)]
             g == [p \in Procs |-> Hold(P, C, Q, B, p)]
  <2>1. \A p \in Procs : f[p] \in Int /\ g[p] \in Int /\ f[p] <= g[p]
    <3> SUFFICES ASSUME NEW p \in Procs
                 PROVE  Hold(P, C, R, D, p) \in Int /\ Hold(P, C, Q, B, p) \in Int
                        /\ Hold(P, C, R, D, p) <= Hold(P, C, Q, B, p)
      OBVIOUS
    <3>1. Hold(P, C, R, D, p) \in Nat /\ Hold(P, C, Q, B, p) \in Nat
      BY Parts
    <3>2. Hold(P, C, R, D, p) = 0 \/ Hold(P, C, R, D, p) = Hold(P, C, Q, B, p)
      BY DEF Hold
    <3> QED  BY <3>1, <3>2
  <2>2. Held(P, C, R, D) = SumFunctionOnSet(f, Procs) /\ Held(P, C, Q, B) = SumFunctionOnSet(g, Procs)
    BY DEF Held
  <2> HIDE DEF f, g
  <2> QED  BY <2>1, <2>2, SumGrows, ProcsAssumption
<1>2. ASSUME Within(C)  PROVE Debt(P, C, R, D) <= Debt(P, C, Q, B)
  <2> DEFINE f == [p \in Procs |-> Owe(P, C, R, D, p)]
             g == [p \in Procs |-> Owe(P, C, Q, B, p)]
  <2>1. \A p \in Procs : f[p] \in Int /\ g[p] \in Int /\ f[p] <= g[p]
    <3> SUFFICES ASSUME NEW p \in Procs
                 PROVE  Owe(P, C, R, D, p) \in Int /\ Owe(P, C, Q, B, p) \in Int
                        /\ Owe(P, C, R, D, p) <= Owe(P, C, Q, B, p)
      OBVIOUS
    <3>1. Owe(P, C, R, D, p) \in Nat /\ Owe(P, C, Q, B, p) \in Nat
      BY <1>2, Parts
    <3>2. Owe(P, C, R, D, p) = 0 \/ Owe(P, C, R, D, p) = Owe(P, C, Q, B, p)
      BY DEF Owe
    <3> QED  BY <3>1, <3>2
  <2>2. Debt(P, C, R, D) = SumFunctionOnSet(f, Procs) /\ Debt(P, C, Q, B) = SumFunctionOnSet(g, Procs)
    BY DEF Debt
  <2> HIDE DEF f, g
  <2> QED  BY <2>1, <2>2, SumGrows, ProcsAssumption
<1> QED  BY <1>1, <1>2

\* One process moves, and its call with it.
LEMMA OneProcess ==
    ASSUME NEW P, NEW C \in [Procs -> CallType], NEW P2, NEW C2 \in [Procs -> CallType], NEW p \in Procs,
           \A q \in Procs : q # p => P2[q] = P[q] /\ C2[q] = C[q], NEW Q, NEW B
    PROVE  /\ Held(P2, C2, Q, B) = Held(P, C, Q, B) - Hold(P, C, Q, B, p) + Hold(P2, C2, Q, B, p)
           /\ Debt(P2, C2, Q, B) = Debt(P, C, Q, B) - Owe(P, C, Q, B, p) + Owe(P2, C2, Q, B, p)
<1>1. Held(P2, C2, Q, B) = Held(P, C, Q, B) - Hold(P, C, Q, B, p) + Hold(P2, C2, Q, B, p)
  <2> DEFINE f == [q \in Procs |-> Hold(P, C, Q, B, q)]
             g == [q \in Procs |-> Hold(P2, C2, Q, B, q)]
  <2>1. \A q \in Procs : f[q] \in Int /\ g[q] \in Int
    BY Parts
  <2>2. \A q \in Procs : q # p => g[q] = f[q]
    BY DEF Hold
  <2>3. Held(P, C, Q, B) = SumFunctionOnSet(f, Procs) /\ Held(P2, C2, Q, B) = SumFunctionOnSet(g, Procs)
    BY DEF Held
  <2>4. f[p] = Hold(P, C, Q, B, p) /\ g[p] = Hold(P2, C2, Q, B, p)
    OBVIOUS
  <2> HIDE DEF f, g
  <2>5. SumFunctionOnSet(g, Procs) = SumFunctionOnSet(f, Procs) - f[p] + g[p]
    BY <2>1, <2>2, SumChanges, ProcsAssumption
  <2> QED  BY <2>3, <2>4, <2>5
<1>2. Debt(P2, C2, Q, B) = Debt(P, C, Q, B) - Owe(P, C, Q, B, p) + Owe(P2, C2, Q, B, p)
  <2> DEFINE f == [q \in Procs |-> Owe(P, C, Q, B, q)]
             g == [q \in Procs |-> Owe(P2, C2, Q, B, q)]
  <2>1. \A q \in Procs : f[q] \in Int /\ g[q] \in Int
    BY Parts
  <2>2. \A q \in Procs : q # p => g[q] = f[q]
    BY DEF Owe
  <2>3. Debt(P, C, Q, B) = SumFunctionOnSet(f, Procs) /\ Debt(P2, C2, Q, B) = SumFunctionOnSet(g, Procs)
    BY DEF Debt
  <2>4. f[p] = Owe(P, C, Q, B, p) /\ g[p] = Owe(P2, C2, Q, B, p)
    OBVIOUS
  <2> HIDE DEF f, g
  <2>5. SumFunctionOnSet(g, Procs) = SumFunctionOnSet(f, Procs) - f[p] + g[p]
    BY <2>1, <2>2, SumChanges, ProcsAssumption
  <2> QED  BY <2>3, <2>4, <2>5
<1> QED  BY <1>1, <1>2

\* Nobody is in the places.
LEMMA NobodyThere ==
    ASSUME NEW P, NEW C, NEW Q, NEW B, \A p \in Procs : P[p] \notin Q
    PROVE  Held(P, C, Q, B) = 0 /\ Debt(P, C, Q, B) = 0
<1> DEFINE h == [p \in Procs |-> Hold(P, C, Q, B, p)]
           o == [p \in Procs |-> Owe(P, C, Q, B, p)]
<1>1. \A p \in Procs : h[p] = 0 /\ o[p] = 0
  BY DEF Hold, Owe
<1>2. Held(P, C, Q, B) = SumFunctionOnSet(h, Procs) /\ Debt(P, C, Q, B) = SumFunctionOnSet(o, Procs)
  BY DEF Held, Debt
<1> HIDE DEF h, o
<1>3. SumFunctionOnSet(h, Procs) = 0 /\ SumFunctionOnSet(o, Procs) = 0
  BY <1>1, SumZero, ProcsAssumption
<1> QED  BY <1>2, <1>3

HeldAll(P, C)     == Held(P, C, AtLedger, BOOLEAN)
HeldSynced(P, C)  == Held(P, C, AtDurable, BOOLEAN)
HeldRoutine(P, C) == Held(P, C, AtLedger, {FALSE})
OwedAll(P, C)     == Debt(P, C, AtLedger, BOOLEAN)
OwedSynced(P, C)  == Debt(P, C, AtDurable, BOOLEAN)
OwedRoutine(P, C) == Debt(P, C, AtLedger, {FALSE})

Figured(P, C) ==
    /\ HeldAll(P, C) \in Nat /\ HeldSynced(P, C) \in Nat /\ HeldRoutine(P, C) \in Nat
    /\ OwedAll(P, C) \in Int /\ OwedSynced(P, C) \in Int /\ OwedRoutine(P, C) \in Int
    /\ HeldSynced(P, C) <= HeldAll(P, C) /\ HeldRoutine(P, C) <= HeldAll(P, C)
    /\ OwedAll(P, C) <= HeldAll(P, C) /\ OwedSynced(P, C) <= HeldSynced(P, C) /\ OwedRoutine(P, C) <= HeldRoutine(P, C)
    /\ Within(C) => /\ 0 <= OwedSynced(P, C) /\ OwedSynced(P, C) <= OwedAll(P, C)
                    /\ 0 <= OwedRoutine(P, C) /\ OwedRoutine(P, C) <= OwedAll(P, C)

LEMMA SixFigures == ASSUME NEW P, NEW C \in [Procs -> CallType]  PROVE Figured(P, C)
<1>1. /\ HeldAll(P, C) \in Nat /\ HeldSynced(P, C) \in Nat /\ HeldRoutine(P, C) \in Nat
      /\ OwedAll(P, C) \in Int /\ OwedSynced(P, C) \in Int /\ OwedRoutine(P, C) \in Int
      /\ OwedAll(P, C) <= HeldAll(P, C) /\ OwedSynced(P, C) <= HeldSynced(P, C) /\ OwedRoutine(P, C) <= HeldRoutine(P, C)
      /\ Within(C) => 0 <= OwedSynced(P, C) /\ 0 <= OwedRoutine(P, C)
  BY Totals DEF HeldAll, HeldSynced, HeldRoutine, OwedAll, OwedSynced, OwedRoutine
<1>2. /\ AtDurable \in SUBSET AtLedger /\ AtLedger \in SUBSET AtLedger
      /\ {FALSE} \in SUBSET BOOLEAN /\ BOOLEAN \in SUBSET BOOLEAN
  BY DEF AtDurable
<1>3. /\ HeldSynced(P, C) <= HeldAll(P, C) /\ HeldRoutine(P, C) <= HeldAll(P, C)
      /\ Within(C) => OwedSynced(P, C) <= OwedAll(P, C) /\ OwedRoutine(P, C) <= OwedAll(P, C)
  BY <1>2, Narrower DEF HeldAll, HeldSynced, HeldRoutine, OwedAll, OwedSynced, OwedRoutine
<1> QED  BY <1>1, <1>3 DEF Figured

\* The calls of one process in the six figures.
LEMMA CallCounts ==
    ASSUME NEW P, NEW C \in [Procs -> CallType], NEW p \in Procs
    PROVE  /\ P[p] \in AtLedger =>
                 /\ Hold(P, C, AtLedger, BOOLEAN, p) = C[p].amount
                 /\ Owe(P, C, AtLedger, BOOLEAN, p) = C[p].amount - C[p].usage
                 /\ Hold(P, C, AtLedger, {FALSE}, p) = (IF C[p].blocker THEN 0 ELSE C[p].amount)
                 /\ Owe(P, C, AtLedger, {FALSE}, p) = (IF C[p].blocker THEN 0 ELSE C[p].amount - C[p].usage)
           /\ P[p] \in AtDurable =>
                 /\ Hold(P, C, AtDurable, BOOLEAN, p) = C[p].amount
                 /\ Owe(P, C, AtDurable, BOOLEAN, p) = C[p].amount - C[p].usage
           /\ P[p] \notin AtLedger =>
                 \A B \in {BOOLEAN, {FALSE}} : Hold(P, C, AtLedger, B, p) = 0 /\ Owe(P, C, AtLedger, B, p) = 0
           /\ P[p] \notin AtDurable =>
                 Hold(P, C, AtDurable, BOOLEAN, p) = 0 /\ Owe(P, C, AtDurable, BOOLEAN, p) = 0
<1>1. C[p].blocker \in BOOLEAN
  <2>1. C[p] \in CallType
    OBVIOUS
  <2> QED  BY <2>1 DEF CallType
<1> QED  BY <1>1 DEF Hold, Owe

LEMMA Moves ==
    ASSUME NEW P, NEW C \in [Procs -> CallType], NEW P2, NEW C2 \in [Procs -> CallType], NEW p \in Procs,
           \A q \in Procs : q # p => P2[q] = P[q] /\ C2[q] = C[q]
    PROVE  /\ HeldAll(P2, C2) = HeldAll(P, C) - Hold(P, C, AtLedger, BOOLEAN, p) + Hold(P2, C2, AtLedger, BOOLEAN, p)
           /\ HeldSynced(P2, C2) = HeldSynced(P, C) - Hold(P, C, AtDurable, BOOLEAN, p) + Hold(P2, C2, AtDurable, BOOLEAN, p)
           /\ HeldRoutine(P2, C2) = HeldRoutine(P, C) - Hold(P, C, AtLedger, {FALSE}, p) + Hold(P2, C2, AtLedger, {FALSE}, p)
           /\ OwedAll(P2, C2) = OwedAll(P, C) - Owe(P, C, AtLedger, BOOLEAN, p) + Owe(P2, C2, AtLedger, BOOLEAN, p)
           /\ OwedSynced(P2, C2) = OwedSynced(P, C) - Owe(P, C, AtDurable, BOOLEAN, p) + Owe(P2, C2, AtDurable, BOOLEAN, p)
           /\ OwedRoutine(P2, C2) = OwedRoutine(P, C) - Owe(P, C, AtLedger, {FALSE}, p) + Owe(P2, C2, AtLedger, {FALSE}, p)
BY OneProcess DEF HeldAll, HeldSynced, HeldRoutine, OwedAll, OwedSynced, OwedRoutine

-----------------------------------------------------------------------------
(* The cap.                                                                *)

\* What the ledger says of the month m: all of it if it is the ledger of that month,
\* and of an older ledger, which a load will replace, the reservations.
Cover(l, m) == IF l.month = m THEN Committed(l) ELSE Reserved(l)

\* What is held for the calls that go on is reserved in the ledger.
Reservations ==
    /\ ledger # NoLedger => HeldAll(pc, call) <= Reserved(ledger)
    /\ durable # NoLedger => HeldSynced(pc, call) <= Reserved(durable)
    /\ HeldAll(pc, call) <= MonthlyBudget
    /\ HeldRoutine(pc, call) <= MonthlyBudget - ReserveSlice

Charges ==
    \A m \in Months :
        /\ m > month => billed[m] = 0
        /\ ~sentinel => billed[m] = 0
        /\ routine[m] <= billed[m]

\* What was charged in the month and what the calls that go on may still be charged are
\* within the ledger and the budget.
Balanced ==
    /\ ledger # NoLedger => billed[month] + OwedAll(pc, call) <= Cover(ledger, month)
    /\ durable # NoLedger => billed[month] + OwedSynced(pc, call) <= Cover(durable, month)
    /\ billed[month] + OwedAll(pc, call) <= MonthlyBudget
    /\ routine[month] + OwedRoutine(pc, call) <= MonthlyBudget - ReserveSlice

Capped == \A m \in Months : billed[m] <= MonthlyBudget /\ routine[m] <= MonthlyBudget - ReserveSlice

Money == Reservations /\ Charges /\ (~exceeded => Within(call) /\ Balanced /\ Capped)

LEMMA MoneyInit == Init => Money
<1> SUFFICES ASSUME Init  PROVE Money
  OBVIOUS
<1>1. \A p \in Procs : pc[p] \notin AtLedger /\ pc[p] \notin AtDurable /\ call[p].usage <= call[p].amount
  BY DEF Init, AtLedger, AtDurable, NoCall
<1>2. /\ HeldAll(pc, call) = 0 /\ HeldSynced(pc, call) = 0 /\ HeldRoutine(pc, call) = 0
      /\ OwedAll(pc, call) = 0 /\ OwedSynced(pc, call) = 0 /\ OwedRoutine(pc, call) = 0
  BY <1>1, NobodyThere DEF HeldAll, HeldSynced, HeldRoutine, OwedAll, OwedSynced, OwedRoutine
<1>3. ledger = NoLedger /\ durable = NoLedger /\ \A m \in Months : billed[m] = 0 /\ routine[m] = 0
  BY DEF Init
<1>4. month \in Months
  BY BoundsAssumption DEF Init, Months
<1> QED  BY <1>1, <1>2, <1>3, <1>4, AmountsAssumption DEF Money, Reservations, Charges, Balanced, Capped, Within

\* The figures of the present state that the arithmetic below needs.
LEMMA FiguresAreNumbers ==
    ASSUME Figures
    PROVE  /\ Figured(pc, call) /\ month \in Months /\ month \in Nat
           /\ \A m \in Months : billed[m] \in Nat /\ routine[m] \in Nat
           /\ \A l \in {ledger, durable} :
                 /\ Reserved(l) \in Nat /\ Committed(l) \in Nat /\ Cover(l, month) \in Nat
                 /\ Cover(l, month) <= Committed(l) /\ Reserved(l) <= Committed(l)
                 /\ Committed(l) <= MonthlyBudget
<1>1. ASSUME NEW l \in {ledger, durable}
      PROVE  /\ Reserved(l) \in Nat /\ Committed(l) \in Nat /\ Cover(l, month) \in Nat
             /\ Cover(l, month) <= Committed(l) /\ Reserved(l) <= Committed(l)
             /\ Committed(l) <= MonthlyBudget
  <2>1. l \in Ledgers /\ Committed(l) <= MonthlyBudget
    BY DEF Figures, Books
  <2>2. Reserved(l) \in Nat /\ l.spent \in Nat /\ Committed(l) \in Nat
    BY <2>1, BookIs
  <2>3. Reserved(l) <= Committed(l)
    BY <2>2 DEF Committed
  <2> QED  BY <2>1, <2>2, <2>3 DEF Cover
<1>2. Figured(pc, call)
  BY SixFigures DEF Figures
<1>3. month \in Months /\ month \in Nat
  BY DEF Figures, History, Months
<1>4. \A m \in Months : billed[m] \in Nat /\ routine[m] \in Nat
  BY DEF Figures, History
<1> QED  BY <1>1, <1>2, <1>3, <1>4

\* A step that leaves the ledgers and the month alone and adds nothing to what is held
\* or may be charged.
LEMMA LighterMoney ==
    ASSUME Figures, Figures', Money, UNCHANGED <<ledger, durable, month>>, Charges',
           HeldAll(pc', call') <= HeldAll(pc, call), HeldSynced(pc', call') <= HeldSynced(pc, call),
           HeldRoutine(pc', call') <= HeldRoutine(pc, call),
           ~exceeded' =>
               /\ ~exceeded /\ Within(call')
               /\ billed'[month] + OwedAll(pc', call') <= billed[month] + OwedAll(pc, call)
               /\ billed'[month] + OwedSynced(pc', call') <= billed[month] + OwedSynced(pc, call)
               /\ routine'[month] + OwedRoutine(pc', call') <= routine[month] + OwedRoutine(pc, call)
               /\ \A m \in Months : m # month => billed'[m] = billed[m] /\ routine'[m] = routine[m]
    PROVE  Money'
<1>1. Figured(pc', call')
  BY SixFigures DEF Figures
<1>2. \A m \in Months : billed'[m] \in Nat /\ routine'[m] \in Nat
  BY DEF Figures, History
<1>3. /\ Figured(pc, call) /\ month \in Months
      /\ \A m \in Months : billed[m] \in Nat /\ routine[m] \in Nat
      /\ \A l \in {ledger, durable} : Reserved(l) \in Nat /\ Cover(l, month) \in Nat
  BY FiguresAreNumbers
<1>4. Reservations'
  BY <1>1, <1>3, AmountsAssumption DEF Money, Reservations, Figured
<1>5. ASSUME ~exceeded'  PROVE Within(call') /\ Balanced' /\ Capped'
  <2>1. Balanced
    BY <1>5 DEF Money
  <2>2. billed'[month] \in Nat /\ routine'[month] \in Nat /\ billed[month] \in Nat /\ routine[month] \in Nat
    BY <1>2, <1>3
  <2>3. Balanced'
    BY <1>1, <1>3, <1>5, <2>1, <2>2, AmountsAssumption DEF Balanced, Figured
  <2>4. 0 <= OwedAll(pc', call') /\ 0 <= OwedRoutine(pc', call')
    BY <1>1, <1>5 DEF Figured
  <2>5. billed'[month] <= MonthlyBudget /\ routine'[month] <= MonthlyBudget - ReserveSlice
    BY <1>1, <2>2, <2>3, <2>4, AmountsAssumption DEF Balanced, Figured
  <2>6. Capped'
    BY <1>5, <2>5 DEF Money, Capped
  <2> QED  BY <1>5, <2>3, <2>6
<1> QED  BY <1>4, <1>5 DEF Money

\* A call that ends takes its amount along.
LEMMA LeaveTotals ==
    ASSUME Figures, Figures', Inv, NEW p \in Procs, Leave(p)
    PROVE  /\ HeldAll(pc', call') <= HeldAll(pc, call) /\ HeldSynced(pc', call') <= HeldSynced(pc, call)
           /\ HeldRoutine(pc', call') <= HeldRoutine(pc, call)
           /\ Within(call) =>
                 /\ Within(call')
                 /\ OwedAll(pc', call') <= OwedAll(pc, call) /\ OwedSynced(pc', call') <= OwedSynced(pc, call)
                 /\ OwedRoutine(pc', call') <= OwedRoutine(pc, call)
           /\ pc[p] = "ready" =>
                 /\ OwedAll(pc', call') = OwedAll(pc, call) - call[p].amount
                 /\ OwedSynced(pc', call') = OwedSynced(pc, call) - call[p].amount
                 /\ ~call[p].blocker => OwedRoutine(pc', call') = OwedRoutine(pc, call) - call[p].amount
<1>1. pc'[p] = "idle" /\ call'[p] = NoCall /\ \A q \in Procs : q # p => pc'[q] = pc[q] /\ call'[q] = call[q]
  BY DEF Leave, Goto, Inv, Typed
<1>2. call \in [Procs -> CallType] /\ call' \in [Procs -> CallType]
  BY DEF Figures
<1>3. pc'[p] \notin AtLedger /\ pc'[p] \notin AtDurable
  BY <1>1 DEF AtLedger, AtDurable
<1>4. /\ Hold(pc', call', AtLedger, BOOLEAN, p) = 0 /\ Owe(pc', call', AtLedger, BOOLEAN, p) = 0
      /\ Hold(pc', call', AtLedger, {FALSE}, p) = 0 /\ Owe(pc', call', AtLedger, {FALSE}, p) = 0
      /\ Hold(pc', call', AtDurable, BOOLEAN, p) = 0 /\ Owe(pc', call', AtDurable, BOOLEAN, p) = 0
  BY <1>2, <1>3, CallCounts
<1>5. /\ HeldAll(pc', call') = HeldAll(pc, call) - Hold(pc, call, AtLedger, BOOLEAN, p) + 0
      /\ HeldSynced(pc', call') = HeldSynced(pc, call) - Hold(pc, call, AtDurable, BOOLEAN, p) + 0
      /\ HeldRoutine(pc', call') = HeldRoutine(pc, call) - Hold(pc, call, AtLedger, {FALSE}, p) + 0
      /\ OwedAll(pc', call') = OwedAll(pc, call) - Owe(pc, call, AtLedger, BOOLEAN, p) + 0
      /\ OwedSynced(pc', call') = OwedSynced(pc, call) - Owe(pc, call, AtDurable, BOOLEAN, p) + 0
      /\ OwedRoutine(pc', call') = OwedRoutine(pc, call) - Owe(pc, call, AtLedger, {FALSE}, p) + 0
  BY <1>1, <1>2, <1>4, Moves
<1>6. \A Q \in {AtLedger, AtDurable}, B \in {BOOLEAN, {FALSE}} :
        /\ Hold(pc, call, Q, B, p) \in Nat /\ Owe(pc, call, Q, B, p) \in Int
        /\ Within(call) => Owe(pc, call, Q, B, p) \in Nat
  BY <1>2, Parts
<1>7. Figured(pc, call)
  BY FiguresAreNumbers
<1>8. Within(call) => Within(call')
  BY <1>1 DEF Within, NoCall
<1>9. ASSUME pc[p] = "ready"
      PROVE  /\ Owe(pc, call, AtLedger, BOOLEAN, p) = call[p].amount
             /\ Owe(pc, call, AtDurable, BOOLEAN, p) = call[p].amount
             /\ ~call[p].blocker => Owe(pc, call, AtLedger, {FALSE}, p) = call[p].amount
  <2>1. pc[p] \in AtLedger /\ pc[p] \in AtDurable /\ pc[p] # "idle" /\ pc[p] # "answered"
    BY <1>9 DEF AtLedger, AtDurable
  <2>2. call[p].usage = 0 /\ call[p].amount \in Amounts
    BY <2>1 DEF Figures, InCall
  <2>3. call[p].amount \in Nat
    BY <2>2, AmountsAssumption
  <2> QED  BY <1>2, <2>1, <2>2, <2>3, CallCounts
<1>10. /\ HeldAll(pc', call') <= HeldAll(pc, call) /\ HeldSynced(pc', call') <= HeldSynced(pc, call)
       /\ HeldRoutine(pc', call') <= HeldRoutine(pc, call)
       /\ Within(call) =>
             /\ OwedAll(pc', call') <= OwedAll(pc, call) /\ OwedSynced(pc', call') <= OwedSynced(pc, call)
             /\ OwedRoutine(pc', call') <= OwedRoutine(pc, call)
  BY <1>5, <1>6, <1>7 DEF Figured
<1>11. pc[p] = "ready" =>
          /\ OwedAll(pc', call') = OwedAll(pc, call) - call[p].amount
          /\ OwedSynced(pc', call') = OwedSynced(pc, call) - call[p].amount
          /\ ~call[p].blocker => OwedRoutine(pc', call') = OwedRoutine(pc, call) - call[p].amount
  BY <1>5, <1>6, <1>7, <1>9 DEF Figured
<1> QED  BY <1>8, <1>10, <1>11

LEMMA EndMoney ==
    ASSUME Figures, Figures', Inv, Money, NEW p \in Procs, SaveFails(p) \/ ReconcileRaises(p) \/ LockTimeout(p) \/ Die(p)
    PROVE  Money'
<1>1. Leave(p) /\ UNCHANGED <<diskVars, month, historyVars, ids>>
  BY DEF SaveFails, ReconcileRaises, LockTimeout, Die
<1>2. UNCHANGED <<ledger, durable, month, sentinel, billed, routine, exceeded>>
  BY <1>1 DEF diskVars, historyVars
<1>3. Charges'
  BY <1>2 DEF Money, Charges
<1>4. Figured(pc, call) /\ Figured(pc', call')
  BY SixFigures DEF Figures
<1>5. billed[month] \in Nat /\ routine[month] \in Nat
  BY FiguresAreNumbers
<1>6. ~exceeded' => Within(call)
  BY <1>2 DEF Money
<1>7. ~exceeded' =>
         /\ ~exceeded /\ Within(call')
         /\ billed'[month] + OwedAll(pc', call') <= billed[month] + OwedAll(pc, call)
         /\ billed'[month] + OwedSynced(pc', call') <= billed[month] + OwedSynced(pc, call)
         /\ routine'[month] + OwedRoutine(pc', call') <= routine[month] + OwedRoutine(pc, call)
  BY <1>1, <1>2, <1>4, <1>5, <1>6, LeaveTotals DEF Figured
<1> QED  BY <1>1, <1>2, <1>3, <1>7, LeaveTotals, LighterMoney

\* What a charge does to the history.
LEMMA ChargeMoney ==
    ASSUME Figures, Inv, Money, NEW p \in Procs, pc[p] = "ready", NEW u \in Nat, Charge(p, u),
           UNCHANGED <<month, sentinel>>
    PROVE  /\ Charges' /\ billed'[month] = billed[month] + u
           /\ routine'[month] = (IF call[p].blocker THEN routine[month] ELSE routine[month] + u)
           /\ \A m \in Months : m # month => billed'[m] = billed[m] /\ routine'[m] = routine[m]
           /\ ~exceeded' => ~exceeded /\ u <= call[p].amount
<1>1. /\ billed' = [billed EXCEPT ![month] = @ + u]
      /\ routine' = IF call[p].blocker THEN routine ELSE [routine EXCEPT ![month] = @ + u]
      /\ exceeded' = (exceeded \/ u > call[p].amount)
  BY DEF Charge
<1>2. month \in Months /\ month \in Nat /\ billed \in [Months -> Nat] /\ routine \in [Months -> Nat]
  BY FiguresAreNumbers DEF Figures, History
<1>3. /\ billed'[month] = billed[month] + u
      /\ \A m \in Months : m # month => billed'[m] = billed[m] /\ routine'[m] = routine[m]
      /\ routine'[month] = (IF call[p].blocker THEN routine[month] ELSE routine[month] + u)
  BY <1>1, <1>2
<1>4. sentinel
  BY DEF Inv, SentinelFirst, Sending
<1>5. ASSUME NEW m \in Months
      PROVE  (m > month' => billed'[m] = 0) /\ routine'[m] <= billed'[m]
  <2>1. billed[m] \in Nat /\ routine[m] \in Nat /\ routine[m] <= billed[m] /\ (m > month => billed[m] = 0)
    BY <1>2 DEF Money, Charges
  <2>2. m = month => ~(m > month) /\ routine'[m] <= billed'[m]
    BY <1>2, <1>3, <2>1
  <2>3. m # month => (m > month => billed'[m] = 0) /\ routine'[m] <= billed'[m]
    BY <1>3, <2>1
  <2> QED  BY <2>2, <2>3
<1>6. Charges'
  BY <1>4, <1>5 DEF Charges
<1>7. ~exceeded' => ~exceeded /\ u <= call[p].amount
  <2>1. exceeded' = (exceeded \/ u > call[p].amount)
    BY <1>1
  <2>2. call[p].amount \in Nat
    <3>1. call[p] \in CallType
      BY DEF Figures
    <3>2. call[p].amount \in Amounts \cup {0}
      BY <3>1 DEF CallType
    <3>3. \A a \in Amounts \cup {0} : a \in Nat
      BY AmountsAssumption
    <3> QED  BY <3>2, <3>3
  <2>3. u > call[p].amount \/ u <= call[p].amount
    BY <2>2
  <2> QED  BY <2>1, <2>3, Zenon
<1> QED  BY <1>3, <1>6, <1>7

LEMMA PostAmbiguousMoney ==
    ASSUME Figures, Figures', Inv, Money, NEW p \in Procs, NEW u \in Usages, PostAmbiguous(p, u)
    PROVE  Money'
<1>1. /\ pc[p] = "ready" /\ u <= call[p].amount /\ Charge(p, u) /\ Leave(p) /\ u \in Nat
      /\ UNCHANGED <<ledger, durable, sentinel, month>>
  BY DEF PostAmbiguous, Usages, diskVars
<1>2. /\ Charges' /\ billed'[month] = billed[month] + u
      /\ routine'[month] = (IF call[p].blocker THEN routine[month] ELSE routine[month] + u)
      /\ \A m \in Months : m # month => billed'[m] = billed[m] /\ routine'[m] = routine[m]
      /\ ~exceeded' => ~exceeded /\ u <= call[p].amount
  BY <1>1, ChargeMoney
<1>3. Figured(pc, call) /\ Figured(pc', call')
  BY SixFigures DEF Figures
<1>4. billed[month] \in Nat /\ routine[month] \in Nat
  BY FiguresAreNumbers
<1>5. /\ HeldAll(pc', call') <= HeldAll(pc, call) /\ HeldSynced(pc', call') <= HeldSynced(pc, call)
      /\ HeldRoutine(pc', call') <= HeldRoutine(pc, call)
      /\ Within(call) => Within(call') /\ OwedRoutine(pc', call') <= OwedRoutine(pc, call)
      /\ OwedAll(pc', call') = OwedAll(pc, call) - call[p].amount
      /\ OwedSynced(pc', call') = OwedSynced(pc, call) - call[p].amount
      /\ ~call[p].blocker => OwedRoutine(pc', call') = OwedRoutine(pc, call) - call[p].amount
  BY <1>1, LeaveTotals
<1>6. call[p].amount \in Nat
  BY <1>1, AmountsAssumption DEF Figures, InCall
<1>7. ASSUME ~exceeded'
      PROVE  /\ ~exceeded /\ Within(call')
             /\ billed'[month] + OwedAll(pc', call') <= billed[month] + OwedAll(pc, call)
             /\ billed'[month] + OwedSynced(pc', call') <= billed[month] + OwedSynced(pc, call)
             /\ routine'[month] + OwedRoutine(pc', call') <= routine[month] + OwedRoutine(pc, call)
  <2>1. ~exceeded /\ Within(call) /\ Within(call')
    BY <1>2, <1>5, <1>7 DEF Money
  <2>2. /\ billed'[month] + OwedAll(pc', call') <= billed[month] + OwedAll(pc, call)
        /\ billed'[month] + OwedSynced(pc', call') <= billed[month] + OwedSynced(pc, call)
    BY <1>1, <1>2, <1>3, <1>4, <1>5, <1>6 DEF Figured
  <2>3. routine'[month] + OwedRoutine(pc', call') <= routine[month] + OwedRoutine(pc, call)
    BY <1>1, <1>2, <1>3, <1>4, <1>5, <1>6, <2>1 DEF Figured
  <2> QED  BY <2>1, <2>2, <2>3
<1> QED  BY <1>1, <1>2, <1>5, <1>7, LighterMoney

\* An answered call owes what is left of its amount after the usage that was charged.
LEMMA PostAnsweredMoney ==
    ASSUME Figures, Figures', Inv, Money, NEW p \in Procs, NEW u \in Usages, PostAnswered(p, u)
    PROVE  Money'
<1>1. /\ pc[p] = "ready" /\ Charge(p, u) /\ u \in Nat /\ call' = [call EXCEPT ![p].usage = u]
      /\ pc' = [pc EXCEPT ![p] = "answered"] /\ UNCHANGED <<ledger, durable, sentinel, month>>
  BY DEF PostAnswered, Usages, diskVars, Goto
<1>2. /\ Charges' /\ billed'[month] = billed[month] + u
      /\ routine'[month] = (IF call[p].blocker THEN routine[month] ELSE routine[month] + u)
      /\ \A m \in Months : m # month => billed'[m] = billed[m] /\ routine'[m] = routine[m]
      /\ ~exceeded' => ~exceeded /\ u <= call[p].amount
  BY <1>1, ChargeMoney
<1>3. Figured(pc, call) /\ Figured(pc', call')
  BY SixFigures DEF Figures
<1>4. billed[month] \in Nat /\ routine[month] \in Nat
  BY FiguresAreNumbers
<1>5. call \in [Procs -> CallType] /\ call' \in [Procs -> CallType] /\ call[p] \in CallType
  BY DEF Figures
<1>6. call[p].amount \in Nat /\ call[p].usage = 0
  BY <1>1, AmountsAssumption DEF Figures, InCall, AtLedger
<1>7. /\ call'[p].usage = u /\ call'[p].amount = call[p].amount /\ call'[p].blocker = call[p].blocker
      /\ pc'[p] = "answered" /\ \A q \in Procs : q # p => pc'[q] = pc[q] /\ call'[q] = call[q]
  BY <1>1, <1>5 DEF CallType, Inv, Typed
<1>8. pc[p] \in AtLedger /\ pc'[p] \in AtLedger /\ pc[p] \in AtDurable /\ pc'[p] \in AtDurable
  BY <1>1, <1>7 DEF AtLedger, AtDurable
<1> DEFINE a == call[p].amount  b == call[p].blocker
<1>9. /\ Hold(pc, call, AtLedger, BOOLEAN, p) = a /\ Owe(pc, call, AtLedger, BOOLEAN, p) = a - 0
      /\ Hold(pc, call, AtLedger, {FALSE}, p) = (IF b THEN 0 ELSE a)
      /\ Owe(pc, call, AtLedger, {FALSE}, p) = (IF b THEN 0 ELSE a - 0)
      /\ Hold(pc, call, AtDurable, BOOLEAN, p) = a /\ Owe(pc, call, AtDurable, BOOLEAN, p) = a - 0
  BY <1>5, <1>6, <1>8, CallCounts
<1>10. /\ Hold(pc', call', AtLedger, BOOLEAN, p) = a /\ Owe(pc', call', AtLedger, BOOLEAN, p) = a - u
       /\ Hold(pc', call', AtLedger, {FALSE}, p) = (IF b THEN 0 ELSE a)
       /\ Owe(pc', call', AtLedger, {FALSE}, p) = (IF b THEN 0 ELSE a - u)
       /\ Hold(pc', call', AtDurable, BOOLEAN, p) = a /\ Owe(pc', call', AtDurable, BOOLEAN, p) = a - u
  BY <1>5, <1>7, <1>8, CallCounts
<1>11. /\ HeldAll(pc', call') = HeldAll(pc, call) - a + a
       /\ HeldSynced(pc', call') = HeldSynced(pc, call) - a + a
       /\ HeldRoutine(pc', call') = HeldRoutine(pc, call) - (IF b THEN 0 ELSE a) + (IF b THEN 0 ELSE a)
       /\ OwedAll(pc', call') = OwedAll(pc, call) - (a - 0) + (a - u)
       /\ OwedSynced(pc', call') = OwedSynced(pc, call) - (a - 0) + (a - u)
       /\ OwedRoutine(pc', call') = OwedRoutine(pc, call) - (IF b THEN 0 ELSE a - 0) + (IF b THEN 0 ELSE a - u)
  BY <1>5, <1>7, <1>9, <1>10, Moves
<1>12. /\ HeldAll(pc', call') <= HeldAll(pc, call) /\ HeldSynced(pc', call') <= HeldSynced(pc, call)
       /\ HeldRoutine(pc', call') <= HeldRoutine(pc, call)
  BY <1>3, <1>6, <1>11 DEF Figured
<1>13. ASSUME ~exceeded'
       PROVE  /\ ~exceeded /\ Within(call')
              /\ billed'[month] + OwedAll(pc', call') <= billed[month] + OwedAll(pc, call)
              /\ billed'[month] + OwedSynced(pc', call') <= billed[month] + OwedSynced(pc, call)
              /\ routine'[month] + OwedRoutine(pc', call') <= routine[month] + OwedRoutine(pc, call)
  <2>1. ~exceeded /\ Within(call) /\ u <= call[p].amount
    BY <1>2, <1>13 DEF Money
  <2>2. Within(call')
    BY <1>7, <2>1 DEF Within
  <2>3. /\ billed'[month] + OwedAll(pc', call') <= billed[month] + OwedAll(pc, call)
        /\ billed'[month] + OwedSynced(pc', call') <= billed[month] + OwedSynced(pc, call)
    BY <1>1, <1>2, <1>3, <1>4, <1>6, <1>11 DEF Figured
  <2>4. routine'[month] + OwedRoutine(pc', call') <= routine[month] + OwedRoutine(pc, call)
    BY <1>1, <1>2, <1>3, <1>4, <1>6, <1>11 DEF Figured
  <2> QED  BY <2>1, <2>2, <2>3, <2>4
<1> QED  BY <1>1, <1>2, <1>12, <1>13, LighterMoney

\* A process that goes on saving holds what it held; only what is synced may change.
LEMMA SavingTotals ==
    ASSUME NEW P, NEW P2, NEW C \in [Procs -> CallType], NEW p \in Procs, \A q \in Procs : q # p => P2[q] = P[q],
           P[p] \in AtLedger <=> P2[p] \in AtLedger
    PROVE  /\ HeldAll(P2, C) = HeldAll(P, C) /\ HeldRoutine(P2, C) = HeldRoutine(P, C)
           /\ OwedAll(P2, C) = OwedAll(P, C) /\ OwedRoutine(P2, C) = OwedRoutine(P, C)
           /\ (P[p] \in AtDurable <=> P2[p] \in AtDurable) =>
                 HeldSynced(P2, C) = HeldSynced(P, C) /\ OwedSynced(P2, C) = OwedSynced(P, C)
<1>1. \A B \in {BOOLEAN, {FALSE}} : /\ Hold(P2, C, AtLedger, B, p) = Hold(P, C, AtLedger, B, p)
                                    /\ Owe(P2, C, AtLedger, B, p) = Owe(P, C, AtLedger, B, p)
  BY DEF Hold, Owe
<1>2. (P[p] \in AtDurable <=> P2[p] \in AtDurable) =>
         /\ Hold(P2, C, AtDurable, BOOLEAN, p) = Hold(P, C, AtDurable, BOOLEAN, p)
         /\ Owe(P2, C, AtDurable, BOOLEAN, p) = Owe(P, C, AtDurable, BOOLEAN, p)
  BY DEF Hold, Owe
<1>3. Figured(P, C)
  BY SixFigures
<1>4. /\ HeldAll(P2, C) = HeldAll(P, C) - Hold(P, C, AtLedger, BOOLEAN, p) + Hold(P2, C, AtLedger, BOOLEAN, p)
      /\ HeldSynced(P2, C) = HeldSynced(P, C) - Hold(P, C, AtDurable, BOOLEAN, p) + Hold(P2, C, AtDurable, BOOLEAN, p)
      /\ HeldRoutine(P2, C) = HeldRoutine(P, C) - Hold(P, C, AtLedger, {FALSE}, p) + Hold(P2, C, AtLedger, {FALSE}, p)
      /\ OwedAll(P2, C) = OwedAll(P, C) - Owe(P, C, AtLedger, BOOLEAN, p) + Owe(P2, C, AtLedger, BOOLEAN, p)
      /\ OwedSynced(P2, C) = OwedSynced(P, C) - Owe(P, C, AtDurable, BOOLEAN, p) + Owe(P2, C, AtDurable, BOOLEAN, p)
      /\ OwedRoutine(P2, C) = OwedRoutine(P, C) - Owe(P, C, AtLedger, {FALSE}, p) + Owe(P2, C, AtLedger, {FALSE}, p)
  BY Moves
<1>5. \A Q \in {AtLedger, AtDurable}, B \in {BOOLEAN, {FALSE}} :
        Hold(P, C, Q, B, p) \in Nat /\ Owe(P, C, Q, B, p) \in Int
  BY Parts
<1> QED  BY <1>1, <1>2, <1>3, <1>4, <1>5 DEF Figured

LEMMA SyncSentinelMoney ==
    ASSUME Figures, Figures', Inv, Money, NEW p \in Procs, SyncSentinel(p)
    PROVE  Money'
<1>1. sentinel' = TRUE /\ UNCHANGED <<ledger, durable, month, billed, routine, exceeded>>
  BY DEF SyncSentinel, historyVars
<1>2. Charges'
  BY <1>1 DEF Money, Charges
<1>3. Figured(pc, call) /\ Figured(pc', call')
  BY SixFigures DEF Figures
<1>4. billed[month] \in Nat /\ routine[month] \in Nat
  BY FiguresAreNumbers
<1>5. /\ HeldAll(pc', call') <= HeldAll(pc, call) /\ HeldSynced(pc', call') <= HeldSynced(pc, call)
      /\ HeldRoutine(pc', call') <= HeldRoutine(pc, call)
      /\ Within(call) =>
            /\ Within(call')
            /\ OwedAll(pc', call') <= OwedAll(pc, call) /\ OwedSynced(pc', call') <= OwedSynced(pc, call)
            /\ OwedRoutine(pc', call') <= OwedRoutine(pc, call)
  <2>1. CASE pc[p] = "settle.mark"
    BY <2>1, LeaveTotals DEF SyncSentinel
  <2>2. CASE pc[p] = "reserve.mark"
    <3>1. pc' = [pc EXCEPT ![p] = "ready"] /\ call' = call
      BY <2>2 DEF SyncSentinel, Goto
    <3>2. "ready" \in Places /\ "ready" \in AtLedger /\ "ready" \in AtDurable /\ pc[p] \in AtLedger /\ pc[p] \in AtDurable
      BY <2>2 DEF Places, AtLedger, AtDurable
    <3>3. pc'[p] = "ready" /\ (\A q \in Procs : q # p => pc'[q] = pc[q]) /\ call \in [Procs -> CallType]
      BY <3>1 DEF Inv, Typed, Figures
    <3>4. /\ HeldAll(pc', call) = HeldAll(pc, call) /\ HeldRoutine(pc', call) = HeldRoutine(pc, call)
          /\ OwedAll(pc', call) = OwedAll(pc, call) /\ OwedRoutine(pc', call) = OwedRoutine(pc, call)
          /\ HeldSynced(pc', call) = HeldSynced(pc, call) /\ OwedSynced(pc', call) = OwedSynced(pc, call)
      BY <3>2, <3>3, SavingTotals
    <3> QED  BY <1>3, <3>1, <3>4 DEF Figured
  <2> QED  BY <2>1, <2>2 DEF SyncSentinel
<1>6. ~exceeded' =>
         /\ ~exceeded /\ Within(call')
         /\ billed'[month] + OwedAll(pc', call') <= billed[month] + OwedAll(pc, call)
         /\ billed'[month] + OwedSynced(pc', call') <= billed[month] + OwedSynced(pc, call)
         /\ routine'[month] + OwedRoutine(pc', call') <= routine[month] + OwedRoutine(pc, call)
  <2>1. ~exceeded' => ~exceeded /\ Within(call)
    BY <1>1 DEF Money
  <2> QED  BY <1>1, <1>3, <1>4, <1>5, <2>1 DEF Figured
<1> QED  BY <1>1, <1>2, <1>5, <1>6, LighterMoney

\* What the ledger says becomes what a loss of power leaves.
LEMMA SyncLedgerMoney ==
    ASSUME Figures, Figures', Inv, Money, NEW p \in Procs, SyncLedger(p)
    PROVE  Money'
<1>1. /\ ledger # NoLedger /\ durable' = ledger /\ call' = call
      /\ UNCHANGED <<ledger, sentinel, month, billed, routine, exceeded>>
  BY DEF SyncLedger, historyVars
<1>2. PICK place \in Places : pc' = [pc EXCEPT ![p] = place] /\ (pc[p] \in AtLedger <=> place \in AtLedger)
  <2>1. CASE pc[p] = "reserve.sync"
    <3>1. "reserve.mark" \in Places /\ "reserve.mark" \in AtLedger /\ pc[p] \in AtLedger
      BY <2>1 DEF Places, Saving, AtLedger
    <3> QED  BY <2>1, <3>1 DEF SyncLedger, Goto
  <2>2. CASE pc[p] = "settle.sync"
    <3>1. "settle.mark" \in Places /\ "settle.mark" \notin AtLedger /\ pc[p] \notin AtLedger
      BY <2>2 DEF Places, Saving, AtLedger
    <3> QED  BY <2>2, <3>1 DEF SyncLedger, Goto
  <2> QED  BY <2>1, <2>2 DEF SyncLedger
<1>3. /\ HeldAll(pc', call') = HeldAll(pc, call) /\ HeldRoutine(pc', call') = HeldRoutine(pc, call)
      /\ OwedAll(pc', call') = OwedAll(pc, call) /\ OwedRoutine(pc', call') = OwedRoutine(pc, call)
  <2>1. /\ (\A q \in Procs : q # p => pc'[q] = pc[q]) /\ call \in [Procs -> CallType]
        /\ pc[p] \in AtLedger <=> pc'[p] \in AtLedger
    BY <1>2 DEF Inv, Typed, Figures
  <2>2. /\ HeldAll(pc', call) = HeldAll(pc, call) /\ HeldRoutine(pc', call) = HeldRoutine(pc, call)
        /\ OwedAll(pc', call) = OwedAll(pc, call) /\ OwedRoutine(pc', call) = OwedRoutine(pc, call)
    BY <2>1, SavingTotals
  <2> QED  BY <1>1, <2>2
<1>4. Figured(pc', call')
  BY SixFigures DEF Figures
<1>5. /\ Figured(pc, call) /\ month \in Months /\ billed[month] \in Nat /\ routine[month] \in Nat
      /\ Reserved(ledger) \in Nat /\ Cover(ledger, month) \in Nat
  BY FiguresAreNumbers
<1>6. Reservations'
  BY <1>1, <1>3, <1>4, <1>5 DEF Money, Reservations, Figured
<1>7. Charges'
  BY <1>1 DEF Money, Charges
<1>8. ASSUME ~exceeded'  PROVE Within(call') /\ Balanced' /\ Capped'
  <2>1. Within(call) /\ Balanced /\ Capped
    BY <1>1, <1>8 DEF Money
  <2>2. OwedSynced(pc', call') <= OwedAll(pc', call')
    BY <1>1, <1>4, <2>1 DEF Figured
  <2>3. Balanced'
    BY <1>1, <1>3, <1>4, <1>5, <2>1, <2>2 DEF Balanced, Figured
  <2> QED  BY <1>1, <2>1, <2>3 DEF Capped
<1> QED  BY <1>6, <1>7, <1>8 DEF Money

\* The ledger that a locked process loads holds what the calls that go on hold, and
\* covers what was charged.
LEMMA LoadedMoney ==
    ASSUME Figures, Inv, Money, lock = Nobody, ~LoadRaises
    PROVE  /\ HeldAll(pc, call) <= Reserved(Loaded) /\ Reserved(Loaded) <= Committed(Loaded)
           /\ Reserved(Loaded) \in Nat /\ Committed(Loaded) \in Nat
           /\ ~exceeded => billed[month] + OwedAll(pc, call) <= Committed(Loaded)
<1>1. \A p \in Procs : pc[p] \notin Saving
  BY ProcsAssumption DEF Inv, LockHeld
<1>2. /\ Figured(pc, call) /\ month \in Months /\ month \in Nat /\ billed[month] \in Nat
      /\ Reserved(ledger) \in Nat /\ Committed(ledger) \in Nat /\ Reserved(ledger) <= Committed(ledger)
  BY FiguresAreNumbers
<1>3. CASE ~(ledger = NoLedger \/ ledger.month # month)
  <2>1. Loaded = ledger /\ ledger # NoLedger /\ Cover(ledger, month) = Committed(ledger)
    BY <1>3 DEF Loaded, Cover
  <2> QED  BY <1>2, <2>1 DEF Money, Reservations, Balanced
<1>4. CASE ledger = NoLedger \/ ledger.month # month
  <2>1. Loaded = Fresh /\ month \in 0..MaxMonths
    BY <1>2, <1>4 DEF Loaded, Months
  <2>2. Reserved(Loaded) = 0 /\ Committed(Loaded) = 0
    BY <2>1, EmptyBooks DEF Fresh
  <2>3. HeldAll(pc, call) = 0 /\ (~exceeded => billed[month] + OwedAll(pc, call) <= 0)
    <3>1. CASE ledger = NoLedger
      <4>1. ~sentinel
        BY <3>1 DEF LoadRaises
      <4>2. \A p \in Procs : pc[p] \notin AtLedger
        BY <1>1, <4>1 DEF Inv, SentinelFirst, Sending, AtLedger, Saving
      <4>3. HeldAll(pc, call) = 0 /\ OwedAll(pc, call) = 0
        BY <4>2, NobodyThere DEF HeldAll, OwedAll
      <4>4. billed[month] = 0
        BY <1>2, <4>1 DEF Money, Charges
      <4> QED  BY <4>3, <4>4
    <3>2. CASE ledger # NoLedger
      <4>1. ledger.month # month /\ InFlight(ledger) = {}
        BY <1>4, <3>2 DEF LoadRaises
      <4>2. Reserved(ledger) = 0
        <5>1. ledger \in Ledgers
          BY DEF Figures, Books
        <5>2. Reserved(ledger) = SumFunctionOnSet(ledger.inflight, {})
          BY <4>1, <5>1, BookIs
        <5> QED  BY <5>2, FS_EmptySet, SumZero
      <4>3. HeldAll(pc, call) <= 0 /\ Cover(ledger, month) = 0
        BY <3>2, <4>1, <4>2 DEF Money, Reservations, Cover
      <4> QED  BY <1>2, <3>2, <4>3 DEF Money, Balanced, Figured
    <3> QED  BY <3>1, <3>2
  <2> QED  BY <2>2, <2>3
<1> QED  BY <1>3, <1>4

\* _reserve: what is held and what may be charged grow by the amount, and so does the
\* ledger, which has room for it.
LEMMA ReserveMoney ==
    ASSUME Figures, Figures', Inv, Money, NEW p \in Procs, NEW a \in Amounts, NEW b \in BOOLEAN, Reserve(p, a, b)
    PROVE  Money'
<1>1. /\ lock = Nobody /\ ~LoadRaises /\ Fits(Loaded, a, b) /\ pc[p] = "idle"
      /\ UNCHANGED <<durable, sentinel, month, billed, routine, exceeded>>
  BY DEF Reserve, historyVars
<1>2. /\ HeldAll(pc, call) <= Reserved(Loaded) /\ Reserved(Loaded) <= Committed(Loaded)
      /\ Reserved(Loaded) \in Nat /\ Committed(Loaded) \in Nat
      /\ ~exceeded => billed[month] + OwedAll(pc, call) <= Committed(Loaded)
  BY <1>1, LoadedMoney
<1>3. /\ Reserved(ledger') = Reserved(Loaded) + a /\ Committed(ledger') = Committed(Loaded) + a
      /\ ledger'.month = month
  <2> DEFINE l == Loaded  r == ids + 1
  <2>1. l \in Ledgers /\ InFlight(l) \subseteq 1..ids /\ l.month = month
    BY LoadedBooks
  <2>2. l \in Ledgers /\ r \in Requests /\ r \notin InFlight(l)
    BY <2>1, BoundsAssumption DEF Reserve, Figures, Requests
  <2>3. ledger' = [l EXCEPT !.inflight = [q \in InFlight(l) \cup {r} |-> IF q = r THEN a ELSE l.inflight[q]]]
    BY DEF Reserve
  <2> HIDE DEF l, r
  <2>4. /\ ledger' \in Ledgers /\ InFlight(ledger') = InFlight(l) \cup {r} /\ ledger'.month = l.month
        /\ Reserved(ledger') = Reserved(l) + a /\ Committed(ledger') = Committed(l) + a
        /\ ledger'.inflight[r] = a /\ \A q \in InFlight(l) : ledger'.inflight[q] = l.inflight[q]
    BY <2>2, <2>3, BookReserves
  <2> QED  BY <2>1, <2>4 DEF l
<1>4. /\ call \in [Procs -> CallType] /\ call' \in [Procs -> CallType] /\ pc'[p] = "reserve.sync"
      /\ call'[p] = [id |-> ids + 1, amount |-> a, blocker |-> b, usage |-> 0]
      /\ \A q \in Procs : q # p => pc'[q] = pc[q] /\ call'[q] = call[q]
  BY DEF Reserve, Goto, Figures, Inv, Typed
<1>5. pc[p] \notin AtLedger /\ pc[p] \notin AtDurable /\ pc'[p] \in AtLedger /\ pc'[p] \notin AtDurable
  BY <1>1, <1>4 DEF AtLedger, AtDurable
<1>6. a \in Nat /\ call'[p].amount = a /\ call'[p].usage = 0 /\ call'[p].blocker = b
  BY <1>4, AmountsAssumption
<1>7. /\ Hold(pc, call, AtLedger, BOOLEAN, p) = 0 /\ Owe(pc, call, AtLedger, BOOLEAN, p) = 0
      /\ Hold(pc, call, AtLedger, {FALSE}, p) = 0 /\ Owe(pc, call, AtLedger, {FALSE}, p) = 0
      /\ Hold(pc, call, AtDurable, BOOLEAN, p) = 0 /\ Owe(pc, call, AtDurable, BOOLEAN, p) = 0
  BY <1>4, <1>5, CallCounts
<1>8. /\ Hold(pc', call', AtLedger, BOOLEAN, p) = a /\ Owe(pc', call', AtLedger, BOOLEAN, p) = a - 0
      /\ Hold(pc', call', AtLedger, {FALSE}, p) = (IF b THEN 0 ELSE a)
      /\ Owe(pc', call', AtLedger, {FALSE}, p) = (IF b THEN 0 ELSE a - 0)
      /\ Hold(pc', call', AtDurable, BOOLEAN, p) = 0 /\ Owe(pc', call', AtDurable, BOOLEAN, p) = 0
  BY <1>4, <1>5, <1>6, CallCounts
<1>9. /\ HeldAll(pc', call') = HeldAll(pc, call) - 0 + a
      /\ HeldSynced(pc', call') = HeldSynced(pc, call) - 0 + 0
      /\ HeldRoutine(pc', call') = HeldRoutine(pc, call) - 0 + (IF b THEN 0 ELSE a)
      /\ OwedAll(pc', call') = OwedAll(pc, call) - 0 + (a - 0)
      /\ OwedSynced(pc', call') = OwedSynced(pc, call) - 0 + 0
      /\ OwedRoutine(pc', call') = OwedRoutine(pc, call) - 0 + (IF b THEN 0 ELSE a - 0)
  BY <1>4, <1>7, <1>8, Moves
<1>10. /\ Figured(pc, call) /\ month \in Months /\ billed[month] \in Nat /\ routine[month] \in Nat
       /\ routine[month] <= billed[month]
  BY FiguresAreNumbers DEF Money, Charges
<1>11. Committed(Loaded) + a <= MonthlyBudget /\ (~b => Committed(Loaded) + a <= MonthlyBudget - ReserveSlice)
  BY <1>1, <1>2, <1>6, AmountsAssumption DEF Fits
<1>12. Reservations'
  <2>1. HeldAll(pc', call') <= Reserved(ledger') /\ HeldAll(pc', call') <= MonthlyBudget
    BY <1>2, <1>3, <1>6, <1>9, <1>10, <1>11, AmountsAssumption DEF Figured
  <2>2. durable' # NoLedger => HeldSynced(pc', call') <= Reserved(durable')
    BY <1>1, <1>9, <1>10 DEF Money, Reservations, Figured
  <2>3. HeldRoutine(pc', call') <= MonthlyBudget - ReserveSlice
    <3>1. CASE b
      <4>1. HeldRoutine(pc', call') = HeldRoutine(pc, call)
        BY <1>9, <1>10, <3>1 DEF Figured
      <4> QED  BY <4>1 DEF Money, Reservations
    <3>2. CASE ~b
      <4>1. HeldRoutine(pc', call') = HeldRoutine(pc, call) + a
        BY <1>6, <1>9, <1>10, <3>2 DEF Figured
      <4> QED  BY <1>2, <1>6, <1>10, <1>11, <3>2, <4>1, AmountsAssumption DEF Figured
    <3> QED  BY <3>1, <3>2
  <2> QED  BY <2>1, <2>2, <2>3 DEF Reservations
<1>13. Charges'
  BY <1>1 DEF Money, Charges
<1>14. ASSUME ~exceeded'  PROVE Within(call') /\ Balanced' /\ Capped'
  <2>1. Within(call) /\ Balanced /\ Capped /\ ~exceeded
    BY <1>1, <1>14 DEF Money
  <2>2. Within(call')
    BY <1>4, <1>6, <2>1 DEF Within
  <2>3. billed[month] + OwedAll(pc', call') <= Committed(Loaded) + a
    BY <1>2, <1>6, <1>9, <1>10, <2>1 DEF Figured
  <2>4. billed[month] + OwedAll(pc', call') <= Cover(ledger', month) /\ billed[month] + OwedAll(pc', call') <= MonthlyBudget
    <3>1. OwedAll(pc', call') \in Int
      BY <1>6, <1>9, <1>10 DEF Figured
    <3>2. Cover(ledger', month) = Committed(Loaded) + a
      BY <1>3 DEF Cover
    <3> QED  BY <1>2, <1>6, <1>10, <1>11, <2>3, <3>1, <3>2, AmountsAssumption
  <2>5. durable # NoLedger => billed[month] + OwedSynced(pc', call') <= Cover(durable, month)
    BY <1>9, <1>10, <2>1 DEF Balanced, Figured
  <2>6. routine[month] + OwedRoutine(pc', call') <= MonthlyBudget - ReserveSlice
    <3>1. CASE b
      <4>1. OwedRoutine(pc', call') = OwedRoutine(pc, call)
        BY <1>9, <1>10, <3>1 DEF Figured
      <4> QED  BY <2>1, <4>1 DEF Balanced
    <3>2. CASE ~b
      <4>1. OwedRoutine(pc', call') = OwedRoutine(pc, call) + a
        BY <1>6, <1>9, <1>10, <3>2 DEF Figured
      <4>2. routine[month] + OwedRoutine(pc, call) <= Committed(Loaded)
        BY <1>2, <1>10, <2>1 DEF Figured
      <4> QED  BY <1>2, <1>6, <1>10, <1>11, <3>2, <4>1, <4>2, AmountsAssumption DEF Figured
    <3> QED  BY <3>1, <3>2
  <2>7. Balanced'
    BY <1>1, <2>4, <2>5, <2>6 DEF Balanced
  <2> QED  BY <1>1, <2>1, <2>2, <2>7 DEF Capped
<1> QED  BY <1>12, <1>13, <1>14 DEF Money

\* _reconcile: the call and its reservation leave together, and what was charged for it
\* is now spent.
LEMMA ReconcileMoney ==
    ASSUME Figures, Figures', Inv, Money, NEW p \in Procs, Reconcile(p)
    PROVE  Money'
<1>1. /\ lock = Nobody /\ ~LoadRaises /\ pc[p] = "answered" /\ call[p].id \in InFlight(Loaded)
      /\ ledger' = Settled(Loaded, call[p])
      /\ UNCHANGED <<durable, sentinel, month, call, billed, routine, exceeded>>
  BY DEF Reconcile
<1>2. /\ Loaded \in Ledgers /\ Loaded.month = month
      /\ \A r \in InFlight(Loaded) : r \in InFlight(ledger) /\ ledger.inflight[r] = Loaded.inflight[r]
  BY LoadedBooks
<1>3. /\ HeldAll(pc, call) <= Reserved(Loaded) /\ Reserved(Loaded) \in Nat /\ Committed(Loaded) \in Nat
      /\ ~exceeded => billed[month] + OwedAll(pc, call) <= Committed(Loaded)
  BY <1>1, LoadedMoney
<1> DEFINE a == call[p].amount  u == call[p].usage  b == call[p].blocker
<1>4. call \in [Procs -> CallType] /\ u \in Nat /\ a \in Nat
  <2>1. call \in [Procs -> CallType] /\ call[p] \in CallType /\ a \in Amounts
    BY <1>1 DEF Figures, InCall
  <2> QED  BY <2>1, AmountsAssumption DEF CallType
<1>5. Loaded.inflight[call[p].id] = a
  BY <1>1, <1>2 DEF Figures, InCall
<1>6. /\ Reserved(ledger') = Reserved(Loaded) - a /\ ledger'.month = month
      /\ Committed(ledger') = Committed(Loaded) - a + u
  <2>1. /\ ledger' \in Ledgers /\ InFlight(ledger') = InFlight(Loaded) \ {call[p].id} /\ ledger'.month = Loaded.month
        /\ Reserved(ledger') = Reserved(Loaded) - Loaded.inflight[call[p].id]
        /\ Committed(ledger') = Committed(Loaded) - Loaded.inflight[call[p].id] + call[p].usage
        /\ \A q \in InFlight(ledger') : ledger'.inflight[q] = Loaded.inflight[q]
    BY <1>1, <1>2, <1>4, BookSettles
  <2> QED  BY <1>2, <1>5, <2>1
<1>7. pc'[p] = "settle.sync" /\ \A q \in Procs : q # p => pc'[q] = pc[q] /\ call'[q] = call[q]
  BY DEF Reconcile, Goto, Inv, Typed
<1>8. pc[p] \in AtLedger /\ pc[p] \in AtDurable /\ pc'[p] \notin AtLedger /\ pc'[p] \notin AtDurable
  BY <1>1, <1>7 DEF AtLedger, AtDurable
<1>9. /\ Hold(pc, call, AtLedger, BOOLEAN, p) = a /\ Owe(pc, call, AtLedger, BOOLEAN, p) = a - u
      /\ Hold(pc, call, AtLedger, {FALSE}, p) = (IF b THEN 0 ELSE a)
      /\ Owe(pc, call, AtLedger, {FALSE}, p) = (IF b THEN 0 ELSE a - u)
      /\ Hold(pc, call, AtDurable, BOOLEAN, p) = a /\ Owe(pc, call, AtDurable, BOOLEAN, p) = a - u
  BY <1>4, <1>8, CallCounts
<1>10. call' \in [Procs -> CallType]
  BY DEF Figures
<1>11. /\ Hold(pc', call', AtLedger, BOOLEAN, p) = 0 /\ Owe(pc', call', AtLedger, BOOLEAN, p) = 0
       /\ Hold(pc', call', AtLedger, {FALSE}, p) = 0 /\ Owe(pc', call', AtLedger, {FALSE}, p) = 0
       /\ Hold(pc', call', AtDurable, BOOLEAN, p) = 0 /\ Owe(pc', call', AtDurable, BOOLEAN, p) = 0
  BY <1>8, <1>10, CallCounts
<1>12. /\ HeldAll(pc', call') = HeldAll(pc, call) - a + 0
       /\ HeldSynced(pc', call') = HeldSynced(pc, call) - a + 0
       /\ HeldRoutine(pc', call') = HeldRoutine(pc, call) - (IF b THEN 0 ELSE a) + 0
       /\ OwedAll(pc', call') = OwedAll(pc, call) - (a - u) + 0
       /\ OwedSynced(pc', call') = OwedSynced(pc, call) - (a - u) + 0
       /\ OwedRoutine(pc', call') = OwedRoutine(pc, call) - (IF b THEN 0 ELSE a - u) + 0
  BY <1>4, <1>7, <1>9, <1>10, <1>11, Moves
<1>13. /\ Figured(pc, call) /\ month \in Months /\ billed[month] \in Nat /\ routine[month] \in Nat
       /\ Reserved(durable) \in Nat /\ Cover(durable, month) \in Nat
  BY FiguresAreNumbers
<1> HIDE DEF a, u, b
<1>14. Reservations'
  <2>1. HeldAll(pc', call') <= Reserved(ledger') /\ HeldAll(pc', call') <= MonthlyBudget
    BY <1>3, <1>4, <1>6, <1>12, <1>13, AmountsAssumption DEF Money, Reservations, Figured
  <2>2. durable' # NoLedger => HeldSynced(pc', call') <= Reserved(durable')
    BY <1>1, <1>4, <1>12, <1>13 DEF Money, Reservations, Figured
  <2>3. HeldRoutine(pc', call') <= MonthlyBudget - ReserveSlice
    BY <1>4, <1>12, <1>13, AmountsAssumption DEF Money, Reservations, Figured
  <2> QED  BY <2>1, <2>2, <2>3 DEF Reservations
<1>15. Charges'
  BY <1>1 DEF Money, Charges
<1>16. ASSUME ~exceeded'  PROVE Within(call') /\ Balanced' /\ Capped'
  <2>1. Within(call) /\ Balanced /\ Capped /\ ~exceeded
    BY <1>1, <1>16 DEF Money
  <2>2. Within(call') /\ u <= a
    BY <1>1, <2>1 DEF Within, u, a
  <2>3. billed[month] + OwedAll(pc', call') <= Cover(ledger', month)
    <3>1. Cover(ledger', month) = Committed(Loaded) - a + u
      BY <1>6 DEF Cover
    <3>2. OwedAll(pc', call') = OwedAll(pc, call) - a + u
      BY <1>4, <1>12, <1>13 DEF Figured
    <3> QED  BY <1>3, <1>4, <1>13, <2>1, <3>1, <3>2 DEF Figured
  <2>4. durable # NoLedger => billed[month] + OwedSynced(pc', call') <= Cover(durable, month)
    BY <1>4, <1>12, <1>13, <2>1, <2>2 DEF Balanced, Figured
  <2>5. billed[month] + OwedAll(pc', call') <= MonthlyBudget
    BY <1>4, <1>12, <1>13, <2>1, <2>2, AmountsAssumption DEF Balanced, Figured
  <2>6. routine[month] + OwedRoutine(pc', call') <= MonthlyBudget - ReserveSlice
    BY <1>4, <1>12, <1>13, <2>1, <2>2, AmountsAssumption DEF Balanced, Figured
  <2>7. Balanced'
    BY <1>1, <2>3, <2>4, <2>5, <2>6 DEF Balanced
  <2> QED  BY <1>1, <2>1, <2>2, <2>7 DEF Capped
<1> QED  BY <1>14, <1>15, <1>16 DEF Money

\* When every process dies nothing is held any more, and either version of the ledger
\* covers what was charged.
LEMMA PowerLossMoney ==
    ASSUME Figures, Figures', Inv, Money, PowerLoss
    PROVE  Money'
<1>1. /\ ledger' \in {durable, ledger} /\ durable' = ledger'
      /\ UNCHANGED <<sentinel, month, billed, routine, exceeded>>
      /\ \A p \in Procs : pc'[p] = "idle" /\ call'[p] = NoCall
  BY DEF PowerLoss, historyVars
<1>2. \A p \in Procs : pc'[p] \notin AtLedger /\ pc'[p] \notin AtDurable
  BY <1>1 DEF AtLedger, AtDurable
<1>3. /\ HeldAll(pc', call') = 0 /\ HeldSynced(pc', call') = 0 /\ HeldRoutine(pc', call') = 0
      /\ OwedAll(pc', call') = 0 /\ OwedSynced(pc', call') = 0 /\ OwedRoutine(pc', call') = 0
  BY <1>2, NobodyThere DEF HeldAll, HeldSynced, HeldRoutine, OwedAll, OwedSynced, OwedRoutine
<1>4. /\ Figured(pc, call) /\ month \in Months /\ billed[month] \in Nat /\ routine[month] \in Nat
      /\ \A l \in {ledger, durable} : Reserved(l) \in Nat /\ Cover(l, month) \in Nat
  BY FiguresAreNumbers
<1>5. Reservations'
  BY <1>1, <1>3, <1>4, AmountsAssumption DEF Reservations
<1>6. Charges'
  BY <1>1 DEF Money, Charges
<1>7. ASSUME ~exceeded'  PROVE Within(call') /\ Balanced' /\ Capped'
  <2>1. Within(call) /\ Balanced /\ Capped
    BY <1>1, <1>7 DEF Money
  <2>2. Within(call')
    BY <1>1 DEF Within, NoCall
  <2>3. \A l \in {ledger, durable} : l # NoLedger => billed[month] <= Cover(l, month)
    BY <1>4, <2>1 DEF Balanced, Figured
  <2>4. billed[month] <= MonthlyBudget /\ routine[month] <= MonthlyBudget - ReserveSlice
    BY <1>4, <2>1 DEF Capped
  <2>5. Balanced'
    BY <1>1, <1>3, <1>4, <2>3, <2>4 DEF Balanced
  <2> QED  BY <1>1, <2>1, <2>2, <2>5 DEF Capped
<1> QED  BY <1>5, <1>6, <1>7 DEF Money

\* Nothing was charged yet in a new month, and the reservations go on into it.
LEMMA NewMonthMoney ==
    ASSUME Figures, Figures', Money, NewMonth
    PROVE  Money'
<1>1. month' = month + 1 /\ UNCHANGED <<ledger, durable, sentinel, pc, call, billed, routine, exceeded>>
  BY DEF NewMonth, diskVars, historyVars
<1>2. /\ Figured(pc, call) /\ month \in Nat
      /\ \A m \in Months : billed[m] \in Nat /\ routine[m] \in Nat
      /\ \A l \in {ledger, durable} : Reserved(l) \in Nat
  BY FiguresAreNumbers
<1>3. month' \in Months
  BY DEF Figures, History
<1>4. \A m \in Months : m \in Nat
  BY DEF Months
<1>5. billed[month'] = 0 /\ routine[month'] = 0
  <2>1. billed[month'] = 0 /\ routine[month'] <= billed[month']
    BY <1>1, <1>2, <1>3 DEF Money, Charges
  <2> QED  BY <1>2, <1>3, <2>1
<1>6. Reservations'
  BY <1>1 DEF Money, Reservations
<1>7. Charges'
  BY <1>1, <1>2, <1>4 DEF Money, Charges
<1>8. \A l \in {ledger, durable} : Cover(l, month') = Reserved(l)
  <2>1. \A l \in {ledger, durable} : l.month \in Nat /\ l.month <= month
    BY BookIs DEF Figures, Books
  <2> QED  BY <1>1, <1>2, <2>1 DEF Cover
<1>9. Balanced'
  BY <1>1, <1>2, <1>5, <1>8, AmountsAssumption DEF Money, Reservations, Balanced, Figured
<1> QED  BY <1>1, <1>6, <1>7, <1>9 DEF Money, Capped

LEMMA DeleteMoney == ASSUME Figures, Money, Delete  PROVE Money'
<1>1. /\ ledger' = NoLedger /\ durable' = NoLedger
      /\ UNCHANGED <<sentinel, month, pc, call, billed, routine, exceeded>>
  BY DEF Delete, historyVars
<1> QED  BY <1>1 DEF Money, Reservations, Charges, Balanced, Capped

LEMMA MoneyNext == ASSUME Figures, Figures', Inv, Money, [Next]_vars  PROVE Money'
<1>1. CASE UNCHANGED vars
  BY <1>1 DEF vars, diskVars, historyVars, Money, Reservations, Charges, Balanced, Capped
<1> QED  BY <1>1, ReserveMoney, SyncLedgerMoney, SyncSentinelMoney, PostAnsweredMoney, PostAmbiguousMoney,
            ReconcileMoney, EndMoney, PowerLossMoney, DeleteMoney, NewMonthMoney DEF Next, Proceed

\* What the provider charges in a month stays within MONTHLY_BUDGET_USD, what it charges
\* for routine work leaves RESERVE_USD, and the ledger - before a loss of power and after
\* it - never understates the charges of its month, unless a charge exceeded the worst
\* case of its request.
THEOREM CapNeverExceeded == Spec => []CapHolds
<1>1. Init => Inv /\ Figures /\ Money
  BY InitInv, FiguresInit, MoneyInit
<1>2. Inv /\ Figures /\ Money /\ [Next]_vars => Inv' /\ Figures' /\ Money'
  BY NextInv, FiguresNext, MoneyNext
<1>3. Inv /\ Figures /\ Money => CapHolds
  <2> SUFFICES ASSUME Figures, Money, ~exceeded
               PROVE  /\ \A m \in Months : billed[m] <= MonthlyBudget /\ routine[m] <= MonthlyBudget - ReserveSlice
                      /\ \A l \in {ledger, durable} : l # NoLedger /\ l.month = month => billed[month] <= Committed(l)
    BY DEF CapHolds
  <2>1. Within(call) /\ Balanced /\ Capped
    BY DEF Money
  <2>2. /\ Figured(pc, call) /\ month \in Months /\ billed[month] \in Nat
        /\ \A l \in {ledger, durable} : Cover(l, month) \in Nat /\ Committed(l) \in Nat /\ Cover(l, month) <= Committed(l)
    BY FiguresAreNumbers
  <2>3. \A l \in {ledger, durable} : l # NoLedger => billed[month] <= Cover(l, month)
    BY <2>1, <2>2 DEF Balanced, Figured
  <2>4. \A l \in {ledger, durable} : l # NoLedger => billed[month] <= Committed(l)
    BY <2>2, <2>3
  <2> QED  BY <2>1, <2>4 DEF Capped
<1> QED  BY <1>1, <1>2, <1>3, PTL DEF Spec
=============================================================================

--------------------------- MODULE DeepSeekBudget ---------------------------
(***************************************************************************)
(* The reservation ledger of deepseek_provider.py: every paid request      *)
(* reserves its worst-case cost in one ledger file, under a kernel lock    *)
(* and durably, before anything is sent, and its actual cost replaces the  *)
(* reservation afterwards.                                                 *)
(*                                                                         *)
(* Several processes call chat() concurrently.  They die at any point, the *)
(* machine loses power and with it what was not fsynced, a request is      *)
(* charged although no usable answer comes back, an fsync fails, the       *)
(* ledger file is deleted, and months end in the middle of all this.       *)
(*                                                                         *)
(* Amounts are small integers; rounding and the tolerance of the float     *)
(* comparisons are abstracted away.                                        *)
(***************************************************************************)
EXTENDS Integers, FiniteSets, FiniteSetsExt, Functions

CONSTANTS
    Procs,
    Amounts,          \* worst-case reservations of the possible requests
    MonthlyBudget,    \* MONTHLY_BUDGET_USD
    ReserveSlice,     \* RESERVE_USD
    Overrun,          \* how far the provider may exceed a reservation
    Faults,           \* kinds of faults that may happen
    MaxFaults,        \* bound: number of faults
    MaxRequests,      \* bound: requests reserved
    MaxMonths         \* bound: months

ASSUME AmountsAssumption == Amounts \subseteq Nat /\ MonthlyBudget \in Nat
                            /\ ReserveSlice \in 0..MonthlyBudget /\ Overrun \in Nat
ASSUME BoundsAssumption  == MaxFaults \in Nat /\ MaxRequests \in Nat /\ MaxMonths \in Nat \ {0}
ASSUME FaultsAssumption  == Faults \subseteq {"death", "power", "fsync", "ambiguous", "timeout", "delete"}

VARIABLES
    ledger,      \* usage.json as processes read it
    durable,     \* usage.json as it is after a loss of power
    sentinel,    \* usage.json.initialized exists
    lock,        \* holder of the kernel lock
    pc,          \* where each process is in chat()
    call,        \* the request of each process
    month,       \* the present UTC month
    billed,      \* history: month -> what the provider charged in it
    routine,     \* history: month -> what it charged for routine requests
    posted,      \* history: requests that were sent
    settled,     \* history: requests whose reservation was released
    exceeded,    \* history: a charge exceeded its reservation
    ids,         \* number of requests reserved so far
    faults       \* number of faults so far

diskVars    == <<ledger, durable, sentinel>>
historyVars == <<billed, routine, posted, settled, exceeded>>
vars == <<diskVars, lock, pc, call, month, historyVars, ids, faults>>

-----------------------------------------------------------------------------
Requests == 1..MaxRequests
Months   == 1..MaxMonths
Nobody   == "nobody"

ASSUME ProcsAssumption == Nobody \notin Procs /\ IsFiniteSet(Procs)

NoLedger == [month |-> 0, spent |-> 0, inflight |-> [r \in {} |-> 0]]
NoCall   == [id |-> 0, amount |-> 0, blocker |-> FALSE, usage |-> 0]

\* _fresh_ledger
Fresh == [NoLedger EXCEPT !.month = month]

InFlight(l)  == DOMAIN l.inflight
Reserved(l)  == SumFunction(l.inflight)
Committed(l) == l.spent + Reserved(l)

\* Mutant of LoadRaises: a new month resets the ledger, whatever is in flight.
LoadRaisesIfMissing == ledger = NoLedger /\ sentinel

\* load_ledger raises: the file is gone, or the month ended with requests in flight.
LoadRaises ==
    \/ ledger = NoLedger /\ sentinel
    \/ ledger # NoLedger /\ ledger.month # month /\ InFlight(ledger) # {}

\* load_ledger
Loaded == IF ledger = NoLedger \/ ledger.month # month THEN Fresh ELSE ledger

Init ==
    /\ ledger = NoLedger
    /\ durable = NoLedger
    /\ sentinel = FALSE
    /\ lock = Nobody
    /\ pc = [p \in Procs |-> "idle"]
    /\ call = [p \in Procs |-> NoCall]
    /\ month = 1
    /\ billed = [m \in Months |-> 0]
    /\ routine = [m \in Months |-> 0]
    /\ posted = {}
    /\ settled = {}
    /\ exceeded = FALSE
    /\ ids = 0
    /\ faults = 0

Goto(p, place) == pc' = [pc EXCEPT ![p] = place]

\* chat() ends for p, normally or with an exception.
Leave(p) ==
    /\ Goto(p, "idle")
    /\ call' = [call EXCEPT ![p] = NoCall]
    /\ lock' = IF lock = p THEN Nobody ELSE lock

Fault(kind) == kind \in Faults /\ faults < MaxFaults /\ faults' = faults + 1

-----------------------------------------------------------------------------
(* _reserve: lock, load, check the cap, os.replace the ledger.             *)

\* Mutant of Fits: reservations of other requests are not counted.
FitsSpent(l, amount, blocker) ==
    l.spent + amount <= (IF blocker THEN MonthlyBudget ELSE MonthlyBudget - ReserveSlice)

\* Mutant of Fits: routine work may use the reserve.
FitsBudget(l, amount, blocker) == Committed(l) + amount <= MonthlyBudget

Fits(l, amount, blocker) ==
    Committed(l) + amount <= (IF blocker THEN MonthlyBudget ELSE MonthlyBudget - ReserveSlice)

Reserve(p, amount, blocker) ==
    /\ pc[p] = "idle"
    /\ lock = Nobody
    /\ ids < MaxRequests
    /\ ~LoadRaises
    /\ Fits(Loaded, amount, blocker)
    /\ ids' = ids + 1
    /\ call' = [call EXCEPT ![p] = [id |-> ids', amount |-> amount, blocker |-> blocker, usage |-> 0]]
    /\ ledger' = [Loaded EXCEPT !.inflight =
                     [r \in InFlight(Loaded) \cup {ids'} |->
                         IF r = ids' THEN amount ELSE Loaded.inflight[r]]]
    /\ lock' = p
    /\ Goto(p, "reserve.sync")
    /\ UNCHANGED <<durable, sentinel, month, historyVars, faults>>

Saving == {"reserve.sync", "reserve.mark", "settle.sync", "settle.mark"}

\* save_ledger: fsync of the replaced file and of its directory.
SyncLedger(p) ==
    /\ pc[p] \in {"reserve.sync", "settle.sync"}
    /\ ledger # NoLedger
    /\ durable' = ledger
    /\ Goto(p, IF pc[p] = "reserve.sync" THEN "reserve.mark" ELSE "settle.mark")
    /\ UNCHANGED <<ledger, sentinel, lock, call, month, historyVars, ids, faults>>

\* save_ledger: the synced sentinel; the lock is released on return.
SyncSentinel(p) ==
    /\ pc[p] \in {"reserve.mark", "settle.mark"}
    /\ sentinel' = TRUE
    /\ IF pc[p] = "reserve.mark"
       THEN Goto(p, "ready") /\ lock' = Nobody /\ UNCHANGED call
       ELSE Leave(p)
    /\ UNCHANGED <<ledger, durable, month, historyVars, ids, faults>>

\* An OSError of save_ledger; what os.replace did stays done.
SaveFails(p) ==
    /\ pc[p] \in Saving
    /\ IF ledger = NoLedger THEN faults' = faults ELSE Fault("fsync")
    /\ Leave(p)
    /\ UNCHANGED <<diskVars, month, historyVars, ids>>

-----------------------------------------------------------------------------
(* post_authorized_json, and what the provider charges for it.             *)

Charge(p, usage) ==
    /\ billed' = [billed EXCEPT ![month] = @ + usage]
    /\ routine' = IF call[p].blocker THEN routine
                  ELSE [routine EXCEPT ![month] = @ + usage]
    /\ posted' = posted \cup {call[p].id}
    /\ exceeded' = (exceeded \/ usage > call[p].amount)
    /\ UNCHANGED settled

PostAnswered(p, usage) ==
    /\ pc[p] = "ready"
    /\ usage <= call[p].amount + Overrun
    /\ Charge(p, usage)
    /\ call' = [call EXCEPT ![p].usage = usage]
    /\ Goto(p, "answered")
    /\ UNCHANGED <<diskVars, lock, month, ids, faults>>

\* Timeout, transport failure, or an answer without usable usage: AmbiguousCharge.
PostAmbiguous(p, usage) ==
    /\ pc[p] = "ready"
    /\ Fault("ambiguous")
    /\ usage <= call[p].amount
    /\ Charge(p, usage)
    /\ Leave(p)
    /\ UNCHANGED <<diskVars, month, ids>>

-----------------------------------------------------------------------------
(* _reconcile                                                              *)
Release(l, r) == [q \in InFlight(l) \ {r} |-> l.inflight[q]]

Settled(l, c) == [l EXCEPT !.spent = @ + c.usage, !.inflight = Release(l, c.id)]

Reconcile(p) ==
    /\ pc[p] = "answered"
    /\ lock = Nobody
    /\ ~LoadRaises
    /\ call[p].id \in InFlight(Loaded)
    /\ call[p].usage <= Loaded.inflight[call[p].id]
    /\ ledger' = Settled(Loaded, call[p])
    /\ settled' = settled \cup {call[p].id}
    /\ lock' = p
    /\ Goto(p, "settle.sync")
    /\ UNCHANGED <<durable, sentinel, call, month, billed, routine, posted, exceeded, ids, faults>>

\* The ledger does not load, has lost the reservation, or the reservation was
\* exceeded and is quarantined: an exception, and nothing is released.
ReconcileRaises(p) ==
    /\ pc[p] = "answered"
    /\ lock = Nobody
    /\ \/ LoadRaises
       \/ call[p].id \notin InFlight(Loaded)
       \/ call[p].id \in InFlight(Loaded) /\ call[p].usage > Loaded.inflight[call[p].id]
    /\ Leave(p)
    /\ UNCHANGED <<diskVars, month, historyVars, ids, faults>>

\* The lock is not obtained before the deadline.
LockTimeout(p) ==
    /\ pc[p] = "answered"
    /\ lock # Nobody
    /\ Fault("timeout")
    /\ Leave(p)
    /\ UNCHANGED <<diskVars, month, historyVars, ids>>

-----------------------------------------------------------------------------
\* A process dies; the kernel releases its lock.
Die(p) ==
    /\ pc[p] # "idle"
    /\ Fault("death")
    /\ Leave(p)
    /\ UNCHANGED <<diskVars, month, historyVars, ids>>

\* Every process dies, and what was not synced may be lost.
PowerLoss ==
    /\ Fault("power")
    /\ pc' = [p \in Procs |-> "idle"]
    /\ call' = [p \in Procs |-> NoCall]
    /\ lock' = Nobody
    /\ ledger' \in {durable, ledger}
    /\ durable' = ledger'
    /\ UNCHANGED <<sentinel, month, historyVars, ids>>

\* Somebody deletes usage.json.
Delete ==
    /\ Fault("delete")
    /\ ledger # NoLedger
    /\ ledger' = NoLedger
    /\ durable' = NoLedger
    /\ UNCHANGED <<sentinel, lock, pc, call, month, historyVars, ids>>

NewMonth ==
    /\ month < MaxMonths
    /\ month' = month + 1
    /\ UNCHANGED <<diskVars, lock, pc, call, historyVars, ids, faults>>

Usages == 0..(Max(Amounts) + Overrun)

\* What a process does next unless something goes wrong.
Proceed(p) ==
    \/ SyncLedger(p)
    \/ SyncSentinel(p)
    \/ \E usage \in Usages : PostAnswered(p, usage)
    \/ Reconcile(p)
    \/ ReconcileRaises(p)

Next ==
    \/ \E p \in Procs, amount \in Amounts, blocker \in BOOLEAN : Reserve(p, amount, blocker)
    \/ \E p \in Procs :
          \/ Proceed(p)
          \/ SaveFails(p)
          \/ \E usage \in Usages : PostAmbiguous(p, usage)
          \/ LockTimeout(p)
          \/ Die(p)
    \/ PowerLoss
    \/ Delete
    \/ NewMonth

Spec == Init /\ [][Next]_vars

\* A process that neither dies nor waits for the lock in vain gets on.
FairSpec == Spec /\ \A p \in Procs : SF_vars(Proceed(p))

-----------------------------------------------------------------------------
(* Properties.                                                             *)

Ledgers == [month : 0..MaxMonths, spent : Nat,
            inflight : UNION {[R -> Amounts] : R \in SUBSET Requests}]

TypeOK ==
    /\ {ledger, durable} \subseteq Ledgers
    /\ Committed(ledger) <= MonthlyBudget
    /\ sentinel \in BOOLEAN
    /\ lock \in Procs \cup {Nobody}
    /\ pc \in [Procs -> Saving \cup {"idle", "ready", "answered"}]
    /\ call \in [Procs -> [id : 0..MaxRequests, amount : Amounts \cup {0}, blocker : BOOLEAN, usage : Nat]]
    /\ month \in Months
    /\ billed \in [Months -> Nat]
    /\ routine \in [Months -> Nat]
    /\ settled \subseteq posted /\ posted \subseteq 1..ids
    /\ exceeded \in BOOLEAN
    /\ ids \in 0..MaxRequests
    /\ faults \in 0..MaxFaults

\* "It may never exceed the monthly cap": what the provider charges in a month
\* stays within MONTHLY_BUDGET_USD, what it charges for routine work leaves
\* RESERVE_USD, and the ledger - before a loss of power and after it, whichever
\* writes were cut off - never understates the charges of its month; unless the
\* provider charged more than the worst case of a request.
CapHolds ==
    ~exceeded =>
        /\ \A m \in Months : billed[m] <= MonthlyBudget /\ routine[m] <= MonthlyBudget - ReserveSlice
        /\ \A l \in {ledger, durable} : l # NoLedger /\ l.month = month => billed[month] <= Committed(l)

\* "Ambiguous requests keep their reservation quarantined": while there is a
\* ledger, before a loss of power and after it, a request that was sent and not
\* settled is in flight in it, into later months too.
SentIsReserved ==
    \A l \in {ledger, durable} : l # NoLedger => posted \ settled \subseteq InFlight(l)

\* "If reconciliation is unambiguous and actual cost is within the reservation,
\* commit actual spend and release the reservation."
DefiniteUsageIsCommitted ==
    \A p \in Procs, r \in Requests :
        (pc[p] = "answered" /\ call[p].id = r /\ call[p].usage <= call[p].amount)
            ~> r \in settled
=============================================================================

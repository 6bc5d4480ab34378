-------------------------- MODULE PaperWriterFence --------------------------
(***************************************************************************)
(* Fenced failover of the Paper writer: the external arbiter that issues   *)
(* short-lived writer permits (nexus_external_paper_arbiter.py), the power *)
(* fencing controller it commands, and on each laptop the processes that   *)
(* acquire a writer guard and revalidate it before every write             *)
(* (nexus_paper_writer_fence.py).                                          *)
(*                                                                         *)
(* A transaction of the arbiter's database holds its write lock while the  *)
(* controller acts, so the transactions are serial, but requests arrive    *)
(* late and repeatedly, answers arrive late, the controller fails, reports *)
(* old observations or holds too short, machines lose power and processes  *)
(* die at any point, and the renamed state file of a machine that loses    *)
(* power may be the older one.  The clocks of the laptops are arbitrary:   *)
(* a local freshness check may pass or fail at any time.                   *)
(*                                                                         *)
(* Signatures are unforgeable and permits intact; a permit is named by its *)
(* epoch.  The checkpoint binding is left out: it can only deny.           *)
(***************************************************************************)
EXTENDS Integers, Sequences, FiniteSets

CONSTANTS
    Primary, Failover,  \* PRIMARY_WRITER, FAILOVER_WRITER
    Nobody,             \* no writer
    Procs,              \* processes on the laptops
    Machine,            \* process -> laptop it runs on
    Ttls,               \* ttl_ms of the requests
    Margin,             \* the 5000 ms a hold must outlast the lease
    MaxAge,             \* the 30000 ms an observation may be old
    MaxRequests,        \* bound: permit requests
    MaxTime             \* bound: the clock

Writers == {Primary, Failover}

ASSUME WritersAssumption == Primary # Failover /\ Nobody \notin Writers \cup Procs
ASSUME MachineAssumption == Machine \in [Procs -> Writers]
ASSUME TimeAssumption    == /\ Ttls \subseteq Nat \ {0}
                            /\ Margin \in Nat /\ MaxAge \in Nat
                            /\ MaxRequests \in Nat /\ MaxTime \in Nat

VARIABLES
    now,        \* clock of the arbiter and the controller
    on,         \* machine has power
    hold,       \* the controller inhibits a restart of the machine until then
    requests,   \* requests sent: the writer each is for (its nonce is its index)
    used,       \* used_nonces
    permits,    \* authority: every permit issued, by epoch; the last is permit_json
    txn,        \* the open transaction of the arbiter
    pc,         \* where each process is
    proof,      \* the epoch of the permit a process loaded
    receipt,    \* the epoch of the permit a guard was acquired with
    file,       \* last_accepted_epoch in the fence state of each machine
    synced,     \* what is left of it after a loss of power
    lock,       \* the .lock file next to it exists
    wrote       \* history: the newest epoch and the machine at each write

powerVars   == <<on, hold>>
arbiterVars == <<requests, used, permits>>
procVars    == <<pc, proof, receipt>>
fileVars    == <<file, synced, lock>>
vars == <<now, powerVars, arbiterVars, txn, procVars, fileVars, wrote>>

-----------------------------------------------------------------------------
Other(w) == IF w = Primary THEN Failover ELSE Primary

Permit == [writer : Writers, request : Nat, issued : Nat, expires : Nat]
Epoch  == Len(permits)

Observation == [fenced : BOOLEAN, at : Int, hold : Int]
NoObservation == [fenced |-> FALSE, at |-> -1, hold |-> -1]

Transaction ==
    [request : Nat, proc : Procs \cup {Nobody}, writer : Writers,
     started : Nat, expires : Nat, seen : Observation, issued : Nat]

NoTransaction ==
    [request |-> 0, proc |-> Nobody, writer |-> Primary,
     started |-> 0, expires |-> 0, seen |-> NoObservation, issued |-> 0]

\* Where a process that dies, or whose machine loses power, ends up.
Dead(S) ==
    /\ pc' = [p \in Procs |-> IF p \in S THEN "idle" ELSE pc[p]]
    /\ proof' = [p \in Procs |-> IF p \in S THEN 0 ELSE proof[p]]
    /\ receipt' = [p \in Procs |-> IF p \in S THEN 0 ELSE receipt[p]]

Init ==
    /\ now = 1
    /\ on = [m \in Writers |-> TRUE]
    /\ hold = [m \in Writers |-> 0]
    /\ requests = <<>>
    /\ used = {}
    /\ permits = <<>>
    /\ txn = NoTransaction
    /\ pc = [p \in Procs |-> "idle"]
    /\ proof = [p \in Procs |-> 0]
    /\ receipt = [p \in Procs |-> 0]
    /\ file = [m \in Writers |-> 0]
    /\ synced = file
    /\ lock = [m \in Writers |-> FALSE]
    /\ wrote = {}

-----------------------------------------------------------------------------
(* The arbiter.                                                            *)

SendRequest(m) ==
    /\ on[m]
    /\ Len(requests) < MaxRequests
    /\ requests' = Append(requests, m)
    /\ UNCHANGED <<now, powerVars, used, permits, txn, procVars, fileVars, wrote>>

LeaseIsActive == Epoch > 0 /\ now < permits[Epoch].expires

\* Mutant of Grantable: an unexpired lease of the other writer may be displaced.
DisplacesPeer(r) == r \notin used

\* Mutant of Grantable: the nonce is not looked up.
IgnoresNonce(r) == ~LeaseIsActive

\* issue, up to the call of the controller: the request is not denied.
Grantable(r) == ~LeaseIsActive /\ r \notin used

BeginIssue(r, ttl) ==
    /\ txn = NoTransaction
    /\ Grantable(r)
    /\ txn' = [request |-> r, proc |-> Nobody, writer |-> requests[r],
               started |-> now, expires |-> now + ttl,
               seen |-> NoObservation, issued |-> 0]
    /\ UNCHANGED <<now, powerVars, arbiterVars, procVars, fileVars, wrote>>

\* current, up to the call of the controller, for the permit_loader of p: to
\* acquire a guard, or to revalidate the one it has.
BeginCurrent(p) ==
    /\ txn = NoTransaction
    /\ on[Machine[p]]
    /\ pc[p] \in {"idle", "guard"}
    /\ LeaseIsActive
    /\ permits[Epoch].writer = Machine[p]
    /\ pc' = [pc EXCEPT ![p] = IF @ = "idle" THEN "loading" ELSE "reloading"]
    /\ txn' = [request |-> 0, proc |-> p, writer |-> Machine[p],
               started |-> now, expires |-> permits[Epoch].expires,
               seen |-> NoObservation, issued |-> 0]
    /\ UNCHANGED <<now, powerVars, arbiterVars, proof, receipt, fileVars, wrote>>

\* A machine without power, and what is left on its disk.
PowerOff(m) ==
    /\ on' = [on EXCEPT ![m] = FALSE]
    /\ Dead({p \in Procs : Machine[p] = m})
    /\ file' \in {file, [file EXCEPT ![m] = synced[m]]}
    /\ synced' = [synced EXCEPT ![m] = file'[m]]

\* The hold observe() asks the controller for.
HoldRequested == txn.expires + Margin

\* The controller powers the other machine off and inhibits its restart, perhaps
\* for less than it was asked to.
FencePeer ==
    /\ txn # NoTransaction
    /\ txn.seen = NoObservation
    /\ LET m == Other(txn.writer)
       IN  \E h \in {txn.expires - 1, HoldRequested} :
              /\ hold' = [hold EXCEPT ![m] = IF @ < h THEN h ELSE @]
              /\ txn' = [txn EXCEPT !.seen = [fenced |-> TRUE, at |-> now, hold |-> h]]
              /\ PowerOff(m)
    /\ UNCHANGED <<now, arbiterVars, lock, wrote>>

\* The controller does not act, and reports so, or repeats an old observation.
FenceFails ==
    /\ txn # NoTransaction
    /\ txn.seen = NoObservation
    /\ \E seen \in {[fenced |-> FALSE, at |-> now, hold |-> HoldRequested],
                    [fenced |-> TRUE, at |-> txn.started - 1, hold |-> HoldRequested]} :
           txn' = [txn EXCEPT !.seen = seen]
    /\ UNCHANGED <<now, powerVars, arbiterVars, procVars, fileVars, wrote>>

\* Mutant of Observed: whatever the controller reports is taken for fenced.
AnyReport == txn.seen # NoObservation /\ now < txn.expires

\* The report is positive, fresh, long enough, and in time.
Observed ==
    /\ txn.seen.fenced
    /\ txn.seen.at \in txn.started..now
    /\ now - txn.seen.at <= MaxAge
    /\ txn.seen.hold >= txn.expires + Margin
    /\ now < txn.expires

\* observe returns; the clock is not read again in this transaction.
Observe ==
    /\ txn.seen # NoObservation
    /\ txn.issued = 0
    /\ Observed
    /\ txn' = [txn EXCEPT !.issued = now]
    /\ UNCHANGED <<now, powerVars, arbiterVars, procVars, fileVars, wrote>>

\* issue, after the observation: the nonce and the signed permit are committed,
\* however long that takes; the answer may be lost.
CommitIssue ==
    /\ txn.request # 0
    /\ txn.issued # 0
    /\ used' = used \cup {txn.request}
    /\ permits' = Append(permits, [writer |-> txn.writer, request |-> txn.request,
                                   issued |-> txn.issued, expires |-> txn.expires])
    /\ txn' = NoTransaction
    /\ UNCHANGED <<now, powerVars, requests, procVars, fileVars, wrote>>

\* current, after the observation: the permit reaches the process that asked, if
\* it lives.
AnswerCurrent ==
    /\ txn.proc # Nobody
    /\ txn.issued # 0
    /\ LET p == txn.proc
       IN  /\ proof' = [proof EXCEPT ![p] = IF pc[p] = "idle" THEN 0 ELSE Epoch]
           /\ pc' = [pc EXCEPT ![p] = CASE @ = "loading"   -> "proof"
                                        [] @ = "reloading" -> "recheck"
                                        [] OTHER           -> @]
    /\ txn' = NoTransaction
    /\ UNCHANGED <<now, powerVars, arbiterVars, receipt, fileVars, wrote>>

\* The observation is denied, the service dies, or its answer is lost.
Abort ==
    /\ txn # NoTransaction
    /\ txn' = NoTransaction
    /\ pc' = [p \in Procs |-> CASE pc[p] = "loading"   -> "idle"
                                [] pc[p] = "reloading" -> "guard"
                                [] OTHER               -> pc[p]]
    /\ UNCHANGED <<now, powerVars, arbiterVars, proof, receipt, fileVars, wrote>>

-----------------------------------------------------------------------------
(* verify_and_record_writer_permit and acquire_writer_guard.               *)

\* Mutant of Exclusive: the lock file is not looked at.
AnyNumber(m) == TRUE

\* O_CREAT | O_EXCL of the lock file.
Exclusive(m) == ~lock[m]

\* The lock file, the fence state and the permit against it.
Accept(p) ==
    /\ pc[p] = "proof"
    /\ Exclusive(Machine[p])
    /\ proof[p] > file[Machine[p]]
    /\ lock' = [lock EXCEPT ![Machine[p]] = TRUE]
    /\ pc' = [pc EXCEPT ![p] = "accepting"]
    /\ UNCHANGED <<now, powerVars, arbiterVars, txn, proof, receipt, file, synced, wrote>>

\* os.replace of the fence state.
Record(p) ==
    /\ pc[p] = "accepting"
    /\ file' = [file EXCEPT ![Machine[p]] = proof[p]]
    /\ pc' = [pc EXCEPT ![p] = "recorded"]
    /\ UNCHANGED <<now, powerVars, arbiterVars, txn, proof, receipt, synced, lock, wrote>>

\* The lock file goes and the guard is returned.
Acquire(p) ==
    /\ pc[p] = "recorded"
    /\ lock' = [lock EXCEPT ![Machine[p]] = FALSE]
    /\ receipt' = [receipt EXCEPT ![p] = proof[p]]
    /\ pc' = [pc EXCEPT ![p] = "guard"]
    /\ UNCHANGED <<now, powerVars, arbiterVars, txn, proof, file, synced, wrote>>

\* Mutant of StillOwner: the fence state of the machine is not read again.
ProofIsReceipt(p) == proof[p] = receipt[p]

\* The proof and the fence state are those the guard was acquired with.
StillOwner(p) == file[Machine[p]] = receipt[p] /\ proof[p] = receipt[p]

\* assert_authority returns TRUE.
AssertAuthority(p) ==
    /\ pc[p] = "recheck"
    /\ StillOwner(p)
    /\ pc' = [pc EXCEPT ![p] = "authorized"]
    /\ UNCHANGED <<now, powerVars, arbiterVars, txn, proof, receipt, fileVars, wrote>>

\* A check raises: the permit is stale for the local clock or the fence state,
\* another acceptance holds the lock, or the state cannot be written.
Refuse(p) ==
    /\ pc[p] \in {"proof", "accepting", "recheck"}
    /\ pc' = [pc EXCEPT ![p] = IF @ = "recheck" THEN "guard" ELSE "idle"]
    /\ lock' = IF pc[p] = "accepting" THEN [lock EXCEPT ![Machine[p]] = FALSE] ELSE lock
    /\ UNCHANGED <<now, powerVars, arbiterVars, txn, proof, receipt, file, synced, wrote>>

\* The write that was authorized.
Write(p) ==
    /\ pc[p] = "authorized"
    /\ wrote' = wrote \cup {<<Epoch, Machine[p]>>}
    /\ pc' = [pc EXCEPT ![p] = "guard"]
    /\ UNCHANGED <<now, powerVars, arbiterVars, txn, proof, receipt, fileVars>>

-----------------------------------------------------------------------------
(* Time, power and processes.                                              *)
Tick ==
    /\ now < MaxTime
    /\ now' = now + 1
    /\ UNCHANGED <<powerVars, arbiterVars, txn, procVars, fileVars, wrote>>

LosePower(m) ==
    /\ on[m]
    /\ PowerOff(m)
    /\ UNCHANGED <<now, hold, arbiterVars, txn, lock, wrote>>

PowerOn(m) ==
    /\ ~on[m]
    /\ now >= hold[m]
    /\ on' = [on EXCEPT ![m] = TRUE]
    /\ UNCHANGED <<now, hold, arbiterVars, txn, procVars, fileVars, wrote>>

Die(p) ==
    /\ pc[p] # "idle"
    /\ Dead({p})
    /\ UNCHANGED <<now, powerVars, arbiterVars, txn, fileVars, wrote>>

\* The operating system writes the renamed file back.
Sync(m) ==
    /\ synced[m] # file[m]
    /\ synced' = [synced EXCEPT ![m] = file[m]]
    /\ UNCHANGED <<now, powerVars, arbiterVars, txn, procVars, file, lock, wrote>>

\* "stale lock requires review": an operator removes it.
Review(m) ==
    /\ lock[m]
    /\ \A p \in Procs : Machine[p] = m => pc[p] \notin {"accepting", "recorded"}
    /\ lock' = [lock EXCEPT ![m] = FALSE]
    /\ UNCHANGED <<now, powerVars, arbiterVars, txn, procVars, file, synced, wrote>>

Arbiter ==
    \/ \E r \in DOMAIN requests, ttl \in Ttls : BeginIssue(r, ttl)
    \/ \E p \in Procs : BeginCurrent(p)
    \/ FencePeer
    \/ FenceFails
    \/ Observe
    \/ CommitIssue
    \/ AnswerCurrent
    \/ Abort

Process(p) ==
    \/ Accept(p)
    \/ Record(p)
    \/ Acquire(p)
    \/ AssertAuthority(p)
    \/ Refuse(p)
    \/ Write(p)
    \/ Die(p)

Next ==
    \/ Arbiter
    \/ \E p \in Procs : Process(p)
    \/ \E m \in Writers : SendRequest(m) \/ LosePower(m) \/ PowerOn(m) \/ Sync(m) \/ Review(m)
    \/ Tick

Spec == Init /\ [][Next]_vars

-----------------------------------------------------------------------------
(* Properties.                                                             *)

Places == {"idle", "loading", "proof", "accepting", "recorded", "guard",
           "reloading", "recheck", "authorized"}

TypeOK ==
    /\ now \in Nat
    /\ on \in [Writers -> BOOLEAN]
    /\ hold \in [Writers -> Int]
    /\ requests \in Seq(Writers)
    /\ used \subseteq Nat
    /\ permits \in Seq(Permit)
    /\ \A e \in 1..Epoch : permits[e].issued < permits[e].expires
    /\ txn \in Transaction
    /\ txn.proc # Nobody => txn.request = 0
    /\ pc \in [Procs -> Places]
    /\ proof \in [Procs -> 0..Epoch]
    /\ receipt \in [Procs -> 0..Epoch]
    /\ file \in [Writers -> 0..Epoch]
    /\ synced \in [Writers -> 0..Epoch]
    /\ lock \in [Writers -> BOOLEAN]
    /\ wrote \subseteq Nat \X Writers

\* "There is one active lease at a time": the leases of different epochs do not
\* overlap on the clock of the arbiter, whoever they are for and however long
\* the controller took.
LeasesDisjoint ==
    \A e, f \in 1..Epoch : e < f => permits[e].expires <= permits[f].issued

\* "The controller must positively stop the peer and inhibit restart through the
\* lease plus a safety margin": as long as a lease is active, the machine of the
\* other writer is without power.
PeerIsOff == LeaseIsActive => ~on[Other(permits[Epoch].writer)]

\* Whoever has a lease is alone: no other lease is in force, and the machine that
\* could have the next one cannot run.
LeaseIsExclusive == LeasesDisjoint /\ PeerIsOff

\* A request that is repeated or delayed by the network is granted once.
RequestsGrantOnce ==
    \A e, f \in 1..Epoch : permits[e].request = permits[f].request => e = f

\* No two live processes of a machine have acquired a guard of the same epoch,
\* although both may have loaded its permit.
OneGuardPerEpoch ==
    \A p, q \in Procs : p # q /\ receipt[p] # 0 => receipt[p] # receipt[q]

\* "A newer accepted epoch retires this guard": no check passes for a guard while
\* a process of the same machine has acquired a newer one, whatever permit the
\* older one proved in between.
RetiredGuardsStayRetired ==
    [][\A p, q \in Procs :
          /\ Machine[p] = Machine[q]
          /\ pc[p] # "authorized" /\ pc'[p] = "authorized"
          => receipt[q] <= receipt[p]]_vars

\* The laptops together are a single writer, whose epochs have one owner each.
Owner == IF Epoch = 0 THEN Nobody ELSE permits[Epoch].writer

Single == INSTANCE SingleWriter WITH epoch <- Epoch, owner <- Owner

ImplementsSingleWriter == Single!SingleWriterSpec
=============================================================================

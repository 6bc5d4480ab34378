-------------------------- MODULE Phase5StateStore --------------------------
(***************************************************************************)
(* The durable mission state of Phase 5: the append-only SQLite snapshot   *)
(* table of phase5_state_store.py, driven by the supervisors and operators *)
(* that run phase5_durable_runner.py against one mission.                  *)
(*                                                                         *)
(* A mission payload is abstracted to the set of supervisor updates whose  *)
(* effect it carries; a cycle reads a payload and adds one update.  Every  *)
(* method of the store runs in one SQLite transaction, so it is one step;  *)
(* a cycle is load_current, then compare_and_swap, then the summary file,  *)
(* with anything happening in between, a crash of the process included.    *)
(*                                                                         *)
(* Stored rows can be damaged in place.  "rot" leaves text that is no      *)
(* canonical JSON object with the recorded digest; "rewrite" replaces      *)
(* payload and digest consistently, as a manual repair of the file would.  *)
(***************************************************************************)
EXTENDS Integers, FiniteSets

CONSTANTS
    Procs,        \* supervisor and operator processes
    Updates,      \* effects a supervisor cycle can add to the mission
    Garbage,      \* stored text that is not a canonical JSON object
    Faults,       \* kinds of in-place damage that may happen
    MaxDamage,    \* bound: how many times a stored row is damaged
    MaxRewrites   \* bound: how many rows are rewritten

ASSUME GarbageAssumption == \A payload \in SUBSET Updates : Garbage # payload
ASSUME FaultsAssumption  == Faults \subseteq {"rot", "rewrite"}
ASSUME DamageAssumption  == MaxDamage \in Nat

VARIABLES
    rows,         \* the snapshots table: generation -> row
    tip,          \* newest stored generation, None when the table is empty
    pc,           \* where each process is in its run
    expected,     \* the generation a process passes to its store call
    view,         \* the payload a process loaded
    record,       \* the StateRecord a store call returned to a process
    summary,      \* phase5_durable_summary.json
    committed,    \* history: every row as it was inserted
    edited,       \* history: generations rewritten in place
    damages       \* number of damages so far

storeVars == <<rows, tip, committed>>
procVars  == <<pc, expected, view, record>>
faultVars == <<edited, damages>>
vars      == <<storeVars, procVars, summary, faultVars>>

-----------------------------------------------------------------------------
None     == -1
Payloads == SUBSET Updates
Texts    == {Garbage} \cup Payloads

\* SHA-256 of the stored text, taken to be injective.
Digest(text) == <<"sha256", text>>
Digests      == {Digest(t) : t \in Texts}
NoDigest     == <<>>

Row == [kind        : {"normal", "recovery"},
        payload     : Texts,
        sha         : Digests,
        parent      : Int,
        parent_sha  : Digests \cup {NoDigest},
        quarantined : SUBSET Nat]

Record   == [generation : Int, kind : {"normal", "recovery"}, payload : Payloads]
NoRecord == [generation |-> None, kind |-> "normal", payload |-> {}]

-----------------------------------------------------------------------------
(* Validation of a stored row.                                             *)

\* Digest, strict JSON, object root and canonical form of the row itself.
ContentOk(rs, g) ==
    /\ rs[g].sha = Digest(rs[g].payload)
    /\ rs[g].payload # Garbage

\* Mutant of LineageOk: the parent's digest is not compared.
LineageShapeOnly(rs, g) ==
    g > 0 => rs[g].parent \in 0..(g - 1)

\* The row's own lineage fields and the digest it records for its parent.
LineageOk(rs, g) ==
    IF g = 0
    THEN /\ rs[g].parent = None
         /\ rs[g].parent_sha = NoDigest
         /\ rs[g].kind = "normal"
         /\ rs[g].quarantined = {}
    ELSE /\ rs[g].parent \in 0..(g - 1)
         /\ rs[g].parent_sha = rs[rs[g].parent].sha
         /\ IF rs[g].kind = "normal"
            THEN rs[g].parent = g - 1 /\ rs[g].quarantined = {}
            ELSE /\ rs[g].quarantined # {}
                 /\ \A q \in rs[g].quarantined : rs[g].parent < q /\ q < g

\* S is the row g together with every row the recursion of _validate_row visits.
ValidLineage(rs, g, S) ==
    /\ g \in S
    /\ \A h \in S : /\ ContentOk(rs, h)
                    /\ LineageOk(rs, h)
                    /\ h > 0 => rs[h].parent \in S

Valid(rs, g) == \E S \in SUBSET (0..g) : ValidLineage(rs, g, S)

\* Mutant of IsNewestValidBefore: any valid older generation will do.
IsSomeValidBefore(rs, g, v) == v \in 0..(g - 1) /\ Valid(rs, v)

\* The newest valid generation older than g, the answer of the reversed scan.
IsNewestValidBefore(rs, g, v) ==
    /\ v \in 0..(g - 1)
    /\ Valid(rs, v)
    /\ \A h \in (v + 1)..(g - 1) : ~Valid(rs, h)

-----------------------------------------------------------------------------
Init ==
    /\ rows = [g \in {} |-> {}]
    /\ committed = [g \in {} |-> {}]
    /\ tip = None
    /\ pc = [p \in Procs |-> "idle"]
    /\ expected = [p \in Procs |-> None]
    /\ view = [p \in Procs |-> {}]
    /\ record = [p \in Procs |-> NoRecord]
    /\ summary = NoRecord
    /\ edited = {}
    /\ damages = 0

\* A process that ends, normally or on an exception, forgets its locals.
Forget(p) ==
    /\ pc' = [pc EXCEPT ![p] = "idle"]
    /\ expected' = [expected EXCEPT ![p] = None]
    /\ view' = [view EXCEPT ![p] = {}]
    /\ record' = [record EXCEPT ![p] = NoRecord]

\* INSERT INTO snapshots ... at generation tip + 1, then COMMIT.
Insert(row) ==
    /\ tip' = tip + 1
    /\ rows' = [g \in 0..(tip + 1) |-> IF g = tip + 1 THEN row ELSE rows[g]]
    /\ committed' = [g \in 0..(tip + 1) |-> IF g = tip + 1 THEN row ELSE committed[g]]

\* The store call of p returned r; what is left to p is the summary file.
Return(p, r) ==
    /\ pc' = [pc EXCEPT ![p] = "summarize"]
    /\ record' = [record EXCEPT ![p] = r]
    /\ UNCHANGED <<expected, view>>

(* cycle_durable: load_current and merge_compatible_runtime.               *)
LoadCurrent(p) ==
    /\ pc[p] = "idle"
    /\ tip = None \/ Valid(rows, tip)          \* else StateCorruption ends the run
    /\ pc' = [pc EXCEPT ![p] = "cycling"]
    /\ expected' = [expected EXCEPT ![p] = tip]
    /\ view' = [view EXCEPT ![p] = IF tip = None THEN {} ELSE rows[tip].payload]
    /\ UNCHANGED <<storeVars, record, summary, faultVars>>

(* cycle_durable: am.cycle adds update u, compare_and_swap stores it.      *)
CasRow(p, u) ==
    [kind        |-> "normal",
     payload     |-> view[p] \cup {u},
     sha         |-> Digest(view[p] \cup {u}),
     parent      |-> tip,
     parent_sha  |-> IF tip = None THEN NoDigest ELSE rows[tip].sha,
     quarantined |-> {}]

\* Mutant of CasRaises: the expected generation is not compared.
CasRaisesOnCorruption(p) == tip # None /\ ~Valid(rows, tip)

\* Generation moved on (StateConflict), or the tip no longer validates.
CasRaises(p) ==
    \/ tip # expected[p]
    \/ tip # None /\ ~Valid(rows, tip)

\* The digest of the stored payload is the digest of the new one.
CasIsNoop(p, u) == tip # None /\ rows[tip].sha = Digest(view[p] \cup {u})

CompareAndSwapFails(p) ==
    /\ pc[p] = "cycling"
    /\ CasRaises(p)
    /\ Forget(p)
    /\ UNCHANGED <<storeVars, summary, faultVars>>

\* Mutant of CompareAndSwapNoop: the next generation number is reported.
NoopReportsNewGeneration(p, u) ==
    /\ pc[p] = "cycling"
    /\ ~CasRaises(p)
    /\ CasIsNoop(p, u)
    /\ Return(p, [generation |-> tip + 1, kind |-> "normal", payload |-> view[p] \cup {u}])
    /\ UNCHANGED <<storeVars, summary, faultVars>>

CompareAndSwapNoop(p, u) ==
    /\ pc[p] = "cycling"
    /\ ~CasRaises(p)
    /\ CasIsNoop(p, u)
    /\ Return(p, [generation |-> tip, kind |-> rows[tip].kind, payload |-> rows[tip].payload])
    /\ UNCHANGED <<storeVars, summary, faultVars>>

CompareAndSwap(p, u) ==
    /\ pc[p] = "cycling"
    /\ ~CasRaises(p)
    /\ ~CasIsNoop(p, u)
    /\ Insert(CasRow(p, u))
    /\ Return(p, [generation |-> tip + 1, kind |-> "normal", payload |-> view[p] \cup {u}])
    /\ UNCHANGED <<summary, faultVars>>

(* recover_durable: the operator names the tip it saw, then the store      *)
(* appends a recovery row.                                                 *)
ObserveTip(p) ==
    /\ pc[p] = "idle"
    /\ tip # None
    /\ pc' = [pc EXCEPT ![p] = "recovering"]
    /\ expected' = [expected EXCEPT ![p] = tip]
    /\ UNCHANGED <<storeVars, view, record, summary, faultVars>>

\* Another tip, a tip that validates, or no older generation that does.
RecoveryRaises(p) ==
    \/ tip # expected[p]
    \/ Valid(rows, tip)
    \/ \A v \in 0..(tip - 1) : ~Valid(rows, v)

RecoverFails(p) ==
    /\ pc[p] = "recovering"
    /\ RecoveryRaises(p)
    /\ Forget(p)
    /\ UNCHANGED <<storeVars, summary, faultVars>>

RecoveryRow(v) ==
    [kind        |-> "recovery",
     payload     |-> rows[v].payload,
     sha         |-> rows[v].sha,
     parent      |-> v,
     parent_sha  |-> rows[v].sha,
     quarantined |-> (v + 1)..tip]

RecoverToPreviousValid(p) ==
    /\ pc[p] = "recovering"
    /\ ~RecoveryRaises(p)
    /\ \E v \in 0..(tip - 1) :
          /\ IsNewestValidBefore(rows, tip, v)
          /\ Insert(RecoveryRow(v))
          /\ Return(p, [generation |-> tip + 1, kind |-> "recovery", payload |-> rows[v].payload])
    /\ UNCHANGED <<summary, faultVars>>

(* atomic_json(summary_path, evidence), after the transaction committed.   *)
WriteSummary(p) ==
    /\ pc[p] = "summarize"
    /\ summary' = record[p]
    /\ Forget(p)
    /\ UNCHANGED <<storeVars, faultVars>>

Crash(p) ==
    /\ pc[p] # "idle"
    /\ Forget(p)
    /\ UNCHANGED <<storeVars, summary, faultVars>>

(* In-place damage of a stored row; inserted rows are otherwise immutable. *)
Rot(g) ==
    /\ "rot" \in Faults
    /\ rows[g].payload # Garbage
    /\ rows' = [rows EXCEPT ![g].payload = Garbage]
    /\ UNCHANGED edited

Rewrite(g, text) ==
    /\ "rewrite" \in Faults
    /\ Cardinality(edited) < MaxRewrites
    /\ rows[g].payload # text
    /\ rows' = [rows EXCEPT ![g].payload = text, ![g].sha = Digest(text)]
    /\ edited' = edited \cup {g}

Damage(g) ==
    /\ damages < MaxDamage
    /\ damages' = damages + 1
    /\ Rot(g) \/ \E text \in Payloads : Rewrite(g, text)
    /\ UNCHANGED <<tip, committed, procVars, summary>>

-----------------------------------------------------------------------------
Cycle(p) ==
    \/ LoadCurrent(p)
    \/ CompareAndSwapFails(p)
    \/ \E u \in Updates : CompareAndSwapNoop(p, u) \/ CompareAndSwap(p, u)

Recovery(p) == ObserveTip(p) \/ RecoverFails(p) \/ RecoverToPreviousValid(p)

Next ==
    \/ \E p \in Procs : Cycle(p) \/ Recovery(p) \/ WriteSummary(p) \/ Crash(p)
    \/ \E g \in 0..tip : Damage(g)

Spec == Init /\ [][Next]_vars

-----------------------------------------------------------------------------
(* Properties.                                                             *)

\* Every variable has its type, and the table is gapless from generation 0.
TypeOK ==
    /\ tip \in Nat \cup {None}
    /\ rows \in [0..tip -> Row]
    /\ committed \in [0..tip -> Row]
    /\ pc \in [Procs -> {"idle", "cycling", "recovering", "summarize"}]
    /\ expected \in [Procs -> Nat \cup {None}]
    /\ view \in [Procs -> Texts \ {Garbage}]   \* that is, Payloads
    /\ record \in [Procs -> Record]
    /\ summary \in Record
    /\ edited \in SUBSET Nat
    /\ damages \in 0..MaxDamage

\* compare_and_swap and recover_to_previous_valid lose no acknowledged update:
\* what generation h carried is carried by every later generation g, unless a
\* recovery row up to g lists h as quarantined.  (Rows rewritten by hand with a
\* matching digest are outside what the store can notice.)
NoLostUpdate ==
    edited = {} =>
        \A g \in 0..tip : \A h \in 0..g :
            \/ committed[h].payload \subseteq committed[g].payload
            \/ \E r \in (h + 1)..g : h \in committed[r].quarantined

\* recover_to_previous_valid quarantines only generations that do not validate,
\* and such a generation never validates again: later recoveries and loads
\* cannot resurrect it.
QuarantineIsFinal ==
    edited = {} =>
        \A r \in 0..tip : \A q \in committed[r].quarantined : ~Valid(rows, q)

\* What makes NoLostUpdate and QuarantineIsFinal inductive.  As long as nothing
\* was rewritten, a stored row is the row that was inserted or its rotten form;
\* inserted rows carry the digest of their payload and quarantine only older
\* generations; and a cycle holds the payload that was committed under the
\* generation it will pass to compare_and_swap.
HistoryIntact ==
    edited = {} =>
        /\ \A g \in 0..tip :
              /\ rows[g] \in {committed[g], [committed[g] EXCEPT !.payload = Garbage]}
              /\ committed[g].payload # Garbage
              /\ committed[g].quarantined \subseteq 0..(g - 1)
        /\ \A p \in Procs : pc[p] = "cycling" =>
              /\ expected[p] <= tip
              /\ view[p] = IF expected[p] = None THEN {} ELSE committed[expected[p]].payload

\* No evidence file reports a generation, transition kind or payload that the
\* store did not commit, whatever happens between the commit and atomic_json.
SummaryReportsCommitted ==
    summary # NoRecord =>
        /\ summary.generation \in 0..tip
        /\ summary.kind = committed[summary.generation].kind
        /\ edited = {} => summary.payload = committed[summary.generation].payload

\* Generations g descends from, by the recorded parent fields.
Ancestors(rs) ==
    LET anc[g \in DOMAIN rs] ==
            IF rs[g].parent = None THEN {} ELSE {rs[g].parent} \cup anc[rs[g].parent]
    IN  anc

\* _validate_row checks the whole parent chain: any in-place damage to a row,
\* a consistent rewrite included, invalidates every descendant of the row.
DamageShowsInDescendants ==
    [][\A c \in 0..tip : Valid(rows, c) /\ Valid(rows', c) =>
          \A a \in Ancestors(rows)[c] : rows'[a] = rows[a]]_vars

\* The committed payloads are an atomically updated register: every cycle adds
\* its update to the state immediately before it, although it read that state
\* in an earlier transaction.  After a row was rewritten by hand, consistently
\* with its digest, only the append-only half of that promise is left.
Register == INSTANCE MissionRegister
                WITH states <- [g \in 0..tip |-> committed[g].payload], last <- tip,
                     intact <- (edited = {})

ImplementsRegister == Register!RegisterSpec
=============================================================================

----------------------------- MODULE Phase5Proofs -----------------------------
(***************************************************************************)
(* Proofs about the durable state of a mission: the snapshot store, for    *)
(* any number of processes, updates and damages, and the attempts, results *)
(* and decisions of a task, for any sets of workers, domains and specs and *)
(* any number of revisions and recoveries.                                 *)
(***************************************************************************)
EXTENDS Phase5StateStore, Phase5Attempts, FiniteTheorems, FiniteSetTheorems, TLAPS

(* What a process holds is a payload.                                      *)
LEMMA ViewIsPayload == Texts \ {Garbage} = Payloads
BY GarbageAssumption DEF Texts, Payloads

(* The rows the two writers insert are rows.                               *)
LEMMA CasRowType ==
    ASSUME TypeOK, NEW p \in Procs, NEW u \in Updates
    PROVE  CasRow(p, u) \in Row
<1>1. view[p] \cup {u} \in Payloads
    BY ViewIsPayload DEF TypeOK, Payloads
<1>2. view[p] \cup {u} \in Texts
    BY <1>1 DEF Texts
<1>3. tip # None => rows[tip] \in Row
    BY DEF TypeOK, None
<1>4. Digest(view[p] \cup {u}) \in Digests
    BY <1>2 DEF Digests
<1>5. tip \in Int
    BY DEF TypeOK, None
<1>6. (IF tip = None THEN NoDigest ELSE rows[tip].sha) \in Digests \cup {NoDigest}
    BY <1>3 DEF Row
<1>. QED
    BY <1>2, <1>4, <1>5, <1>6 DEF CasRow, Row

LEMMA RecoveryRowType ==
    ASSUME TypeOK, NEW v \in 0..(tip - 1)
    PROVE  RecoveryRow(v) \in Row
<1>1. tip \in Nat /\ v \in 0..tip /\ rows[v] \in Row
    BY DEF TypeOK, None
<1>. QED
    BY <1>1 DEF RecoveryRow, Row

(* INSERT keeps both the table and its history well typed.                 *)
LEMMA InsertType ==
    ASSUME TypeOK, NEW row \in Row, Insert(row)
    PROVE  /\ tip' \in Nat \cup {None}
           /\ rows' \in [0..tip' -> Row]
           /\ committed' \in [0..tip' -> Row]
<1>1. tip + 1 \in Nat
    BY DEF TypeOK, None
<1>2. \A g \in 0..(tip + 1) : g # tip + 1 => g \in 0..tip
    BY <1>1 DEF TypeOK, None
<1>. QED
    BY <1>1, <1>2 DEF TypeOK, Insert

(* A validated row carries a payload, never garbage.                       *)
LEMMA ValidPayload ==
    ASSUME TypeOK, NEW g \in 0..tip, Valid(rows, g)
    PROVE  rows[g].payload \in Payloads
<1>1. PICK S \in SUBSET (0..g) : ValidLineage(rows, g, S)
    BY DEF Valid
<1>2. ContentOk(rows, g)
    BY <1>1 DEF ValidLineage
<1>3. rows[g] \in Row
    BY DEF TypeOK
<1>. QED
    BY <1>2, <1>3 DEF ContentOk, Row, Texts

-----------------------------------------------------------------------------
(* What a store call returns is a record.                                  *)
LEMMA ForgetType ==
    ASSUME TypeOK, NEW p \in Procs, Forget(p)
    PROVE  /\ pc' \in [Procs -> {"idle", "cycling", "recovering", "summarize"}]
           /\ expected' \in [Procs -> Nat \cup {None}]
           /\ view' \in [Procs -> Texts \ {Garbage}]
           /\ record' \in [Procs -> Record]
<1>1. {} \in Payloads
    BY DEF Payloads
<1>2. NoRecord \in Record
    BY <1>1 DEF NoRecord, Record, None
<1>. QED
    BY <1>1, <1>2, ViewIsPayload DEF TypeOK, Forget

LEMMA ReturnType ==
    ASSUME TypeOK, NEW p \in Procs, NEW r \in Record, Return(p, r)
    PROVE  /\ pc' \in [Procs -> {"idle", "cycling", "recovering", "summarize"}]
           /\ expected' \in [Procs -> Nat \cup {None}]
           /\ view' \in [Procs -> Texts \ {Garbage}]
           /\ record' \in [Procs -> Record]
BY DEF TypeOK, Return

(* Damage keeps the shape of the table.                                    *)
LEMMA DamageType ==
    ASSUME TypeOK, NEW g \in 0..tip, Damage(g)
    PROVE  TypeOK'
<1>1. rows[g] \in Row /\ tip \in Nat /\ g \in Nat
    BY DEF TypeOK, None
<1>2. damages' \in 0..MaxDamage
    BY DamageAssumption DEF TypeOK, Damage
<1>3. rows' \in [0..tip -> Row] /\ edited' \in SUBSET Nat
    <2>1. CASE Rot(g)
        <3>1. Garbage \in Texts
            BY DEF Texts
        <3>2. [rows[g] EXCEPT !.payload = Garbage] \in Row
            BY <1>1, <3>1 DEF Row
        <3>. QED
            BY <2>1, <3>2 DEF TypeOK, Rot
    <2>2. ASSUME NEW text \in Payloads, Rewrite(g, text)
          PROVE  rows' \in [0..tip -> Row] /\ edited' \in SUBSET Nat
        <3>1. text \in Texts /\ Digest(text) \in Digests
            BY DEF Texts, Digests
        <3>2. [rows[g] EXCEPT !.payload = text, !.sha = Digest(text)] \in Row
            BY <1>1, <3>1 DEF Row
        <3>3. rows' = [rows EXCEPT ![g] = [rows[g] EXCEPT !.payload = text, !.sha = Digest(text)]]
            BY <2>2, <1>1 DEF Rewrite, TypeOK, Row
        <3>. QED
            BY <2>2, <1>1, <3>2, <3>3 DEF TypeOK, Rewrite
    <2>. QED
        BY <2>1, <2>2 DEF Damage
<1>. QED
    BY <1>2, <1>3 DEF TypeOK, Damage, procVars

(* One step per action.                                                    *)
LEMMA TypeStep ==
    ASSUME TypeOK, [Next]_vars
    PROVE  TypeOK'
<1>. USE DEF storeVars, procVars, faultVars
<1>1. ASSUME NEW p \in Procs, LoadCurrent(p)
      PROVE  TypeOK'
    <2>1. tip # None => rows[tip].payload \in Payloads
        BY <1>1, ValidPayload DEF LoadCurrent, TypeOK, None
    <2>2. (IF tip = None THEN {} ELSE rows[tip].payload) \in Payloads
        BY <2>1 DEF Payloads
    <2>. QED
        BY <1>1, <2>2, ViewIsPayload DEF TypeOK, LoadCurrent
<1>2. ASSUME NEW p \in Procs, CompareAndSwapFails(p)
      PROVE  TypeOK'
    BY <1>2, ForgetType DEF TypeOK, CompareAndSwapFails
<1>3. ASSUME NEW p \in Procs, NEW u \in Updates, CompareAndSwapNoop(p, u)
      PROVE  TypeOK'
    <2>1. tip \in 0..tip /\ tip \in Nat /\ Valid(rows, tip) /\ rows[tip] \in Row
        BY <1>3 DEF CompareAndSwapNoop, CasIsNoop, CasRaises, TypeOK, None
    <2>2. [generation |-> tip, kind |-> rows[tip].kind, payload |-> rows[tip].payload] \in Record
        BY <2>1, ValidPayload DEF Record, Row
    <2>. QED
        BY <1>3, <2>2, ReturnType DEF TypeOK, CompareAndSwapNoop
<1>4. ASSUME NEW p \in Procs, NEW u \in Updates, CompareAndSwap(p, u)
      PROVE  TypeOK'
    <2>1. [generation |-> tip + 1, kind |-> "normal", payload |-> view[p] \cup {u}] \in Record
        BY ViewIsPayload DEF Record, TypeOK, Payloads, None
    <2>. QED
        BY <1>4, <2>1, CasRowType, InsertType, ReturnType DEF TypeOK, CompareAndSwap
<1>5. ASSUME NEW p \in Procs, ObserveTip(p)
      PROVE  TypeOK'
    BY <1>5 DEF TypeOK, ObserveTip
<1>6. ASSUME NEW p \in Procs, RecoverFails(p)
      PROVE  TypeOK'
    BY <1>6, ForgetType DEF TypeOK, RecoverFails
<1>7. ASSUME NEW p \in Procs, RecoverToPreviousValid(p)
      PROVE  TypeOK'
    <2>1. PICK v \in 0..(tip - 1) :
              /\ IsNewestValidBefore(rows, tip, v)
              /\ Insert(RecoveryRow(v))
              /\ Return(p, [generation |-> tip + 1, kind |-> "recovery", payload |-> rows[v].payload])
        BY <1>7 DEF RecoverToPreviousValid
    <2>2. v \in 0..tip /\ tip + 1 \in Int
        BY DEF TypeOK, None
    <2>3. [generation |-> tip + 1, kind |-> "recovery", payload |-> rows[v].payload] \in Record
        BY <2>1, <2>2, ValidPayload DEF Record, IsNewestValidBefore
    <2>. QED
        BY <1>7, <2>1, <2>3, RecoveryRowType, InsertType, ReturnType
        DEF TypeOK, RecoverToPreviousValid
<1>8. ASSUME NEW p \in Procs, WriteSummary(p)
      PROVE  TypeOK'
    BY <1>8, ForgetType DEF TypeOK, WriteSummary
<1>9. ASSUME NEW p \in Procs, Crash(p)
      PROVE  TypeOK'
    BY <1>9, ForgetType DEF TypeOK, Crash
<1>10. CASE UNCHANGED vars
    BY <1>10 DEF TypeOK, vars
<1>. QED
    BY <1>1, <1>2, <1>3, <1>4, <1>5, <1>6, <1>7, <1>8, <1>9, <1>10, DamageType
    DEF Next, Cycle, Recovery

(* Every run of the supervisors and operators keeps the table well typed   *)
(* and gapless.                                                            *)
THEOREM TypeCorrect == Spec => []TypeOK
<1>1. Init => TypeOK
    <2>1. {} \in Payloads /\ 0..None = {}
        BY DEF Payloads, None
    <2>2. NoRecord \in Record
        BY <2>1 DEF NoRecord, Record, None
    <2>3. {} \in Texts \ {Garbage}
        BY <2>1, ViewIsPayload
    <2>. QED
        BY <2>1, <2>2, <2>3, DamageAssumption DEF Init, TypeOK
<1>. QED
    BY <1>1, TypeStep, PTL DEF Spec

-----------------------------------------------------------------------------
(* Validity under the steps of the system.                                 *)

(* Validation of g looks only at g and older rows, and only at what rot    *)
(* cannot improve: if every row up to g is unchanged or has become garbage,*)
(* a generation that validates now validated before.                       *)
LEMMA ValidityOnlyLost ==
    ASSUME NEW old, NEW new, NEW g \in Nat,
           \A h \in 0..g : \/ new[h] = old[h]
                           \/ /\ new[h].payload = Garbage
                              /\ new[h].sha = old[h].sha,
           Valid(new, g)
    PROVE  Valid(old, g)
<1>1. PICK S \in SUBSET (0..g) : ValidLineage(new, g, S)
    BY DEF Valid
<1>2. \A h \in S : new[h] = old[h]
    BY <1>1 DEF ValidLineage, ContentOk
<1>3. \A h \in S : h > 0 => new[h].parent \in S
    BY <1>1 DEF ValidLineage
<1>4. ASSUME NEW h \in S
      PROVE  ContentOk(old, h) /\ LineageOk(old, h) /\ (h > 0 => old[h].parent \in S)
    <2>1. ContentOk(new, h) /\ LineageOk(new, h) /\ h \in 0..g
        BY <1>1 DEF ValidLineage
    <2>2. ContentOk(old, h)
        BY <1>2, <2>1 DEF ContentOk
    <2>3. CASE h = 0
        BY <1>2, <2>1, <2>2, <2>3 DEF LineageOk
    <2>4. CASE h # 0
        <3>1. h > 0 /\ old[h] = new[h]
            BY <1>2, <2>1, <2>4
        <3>2. old[h].parent \in S /\ old[old[h].parent] = new[new[h].parent]
            BY <1>2, <1>3, <3>1
        <3>. QED
            BY <2>1, <2>2, <2>4, <3>1, <3>2 DEF LineageOk
    <2>. QED
        BY <2>3, <2>4
<1>5. ValidLineage(old, g, S)
    BY <1>1, <1>4 DEF ValidLineage
<1>. QED
    BY <1>5 DEF Valid

LEMMA ValidNotGarbage ==
    ASSUME NEW rs, NEW g, Valid(rs, g)
    PROVE  rs[g].payload # Garbage /\ rs[g].sha = Digest(rs[g].payload)
<1>1. PICK S \in SUBSET (0..g) : ValidLineage(rs, g, S)
    BY DEF Valid
<1>. QED
    BY <1>1 DEF ValidLineage, ContentOk

-----------------------------------------------------------------------------
(* The inductive invariant.                                                *)
HistoryInv == TypeOK /\ HistoryIntact /\ NoLostUpdate /\ QuarantineIsFinal

(* A validated row is the row that was inserted.                           *)
LEMMA ValidIsCommitted ==
    ASSUME HistoryInv, edited = {}, NEW g \in 0..tip, Valid(rows, g)
    PROVE  rows[g] = committed[g]
<1>1. rows[g].payload # Garbage
    BY ValidNotGarbage
<1>2. committed[g] \in Row
    BY DEF HistoryInv, TypeOK
<1>3. [committed[g] EXCEPT !.payload = Garbage].payload = Garbage
    BY <1>2 DEF Row
<1>. QED
    BY <1>1, <1>3 DEF HistoryInv, HistoryIntact

(* Appending a row keeps HistoryInv when the row is garbage-free, drops    *)
(* nothing of the tip but what it quarantines, and quarantines only what   *)
(* does not validate.                                                      *)
LEMMA InsertKeepsHistory ==
    ASSUME HistoryInv, edited = {}, NEW row \in Row, Insert(row), UNCHANGED edited,
           row.payload # Garbage,
           row.quarantined \subseteq 0..tip,
           \A q \in row.quarantined : ~Valid(rows, q),
           \A h \in 0..tip : \/ committed[h].payload \subseteq row.payload
                             \/ h \in row.quarantined
                             \/ \E r \in (h + 1)..tip : h \in committed[r].quarantined
    PROVE  NoLostUpdate' /\ QuarantineIsFinal'
           /\ \A g \in 0..tip' :
                 /\ rows'[g] \in {committed'[g], [committed'[g] EXCEPT !.payload = Garbage]}
                 /\ committed'[g].payload # Garbage
                 /\ committed'[g].quarantined \subseteq 0..(g - 1)
<1>. DEFINE n == tip + 1
<1>0. tip \in Nat \cup {-1}
    BY DEF HistoryInv, TypeOK, None
<1>1. n \in Nat /\ tip \in Int /\ n - 1 = tip /\ tip' = n
    BY <1>0 DEF Insert
<1>2. \A g \in 0..tip : g \in 0..n /\ g # n /\ rows'[g] = rows[g] /\ committed'[g] = committed[g]
    BY <1>1 DEF Insert
<1>3. n \in 0..n /\ rows'[n] = row /\ committed'[n] = row
    BY <1>1 DEF Insert
<1>4. \A g \in 0..n : g = n \/ g \in 0..tip
    BY <1>1
<1>. HIDE DEF n
<1>5. NoLostUpdate'
    <2>. SUFFICES ASSUME NEW g \in 0..n, NEW h \in 0..g
                  PROVE  \/ committed'[h].payload \subseteq committed'[g].payload
                         \/ \E r \in (h + 1)..g : h \in committed'[r].quarantined
        BY <1>1 DEF NoLostUpdate
    <2>1. CASE g \in 0..tip
        <3>1. h \in 0..tip /\ h \in Nat /\ \A r \in (h + 1)..g : r \in 0..tip
            BY <2>1, <1>1
        <3>. QED
            BY <2>1, <3>1, <1>2 DEF HistoryInv, NoLostUpdate
    <2>2. CASE g = n /\ h = n
        BY <2>2
    <2>3. CASE g = n /\ h \in 0..tip
        <3>1. CASE committed[h].payload \subseteq row.payload
            BY <3>1, <2>3, <1>2, <1>3
        <3>2. CASE h \in row.quarantined
            <4>1. n \in (h + 1)..g
                BY <2>3, <1>1
            <4>. QED
                BY <4>1, <3>2, <1>3
        <3>3. CASE \E r \in (h + 1)..tip : h \in committed[r].quarantined
            <4>1. PICK r \in (h + 1)..tip : h \in committed[r].quarantined
                BY <3>3
            <4>2. r \in (h + 1)..g /\ r \in 0..tip
                BY <2>3, <1>1
            <4>. QED
                BY <4>1, <4>2, <1>2
        <3>. QED
            BY <2>3, <3>1, <3>2, <3>3
    <2>. QED
        BY <2>1, <2>2, <2>3, <1>1, <1>4
<1>6. QuarantineIsFinal'
    <2>. SUFFICES ASSUME NEW r \in 0..n, NEW q \in committed'[r].quarantined, Valid(rows', q)
                  PROVE  FALSE
        BY <1>1 DEF QuarantineIsFinal
    <2>1. q \in 0..tip /\ ~Valid(rows, q)
        <3>1. CASE r = n
            BY <3>1, <1>3
        <3>2. CASE r \in 0..tip
            <4>1. q \in committed[r].quarantined /\ q \in 0..(r - 1)
                BY <3>2, <1>2 DEF HistoryInv, HistoryIntact
            <4>. QED
                BY <4>1, <3>2, <1>1 DEF HistoryInv, QuarantineIsFinal
        <3>. QED
            BY <3>1, <3>2, <1>4
    <2>2. q \in Nat /\ \A h \in 0..q : rows'[h] = rows[h]
        BY <2>1, <1>1, <1>2
    <2>. QED
        BY <2>1, <2>2, ValidityOnlyLost
<1>7. ASSUME NEW g \in 0..n
      PROVE  /\ rows'[g] \in {committed'[g], [committed'[g] EXCEPT !.payload = Garbage]}
             /\ committed'[g].payload # Garbage
             /\ committed'[g].quarantined \subseteq 0..(g - 1)
    BY <1>1, <1>2, <1>3, <1>4 DEF HistoryInv, HistoryIntact
<1>. QED
    BY <1>1, <1>5, <1>6, <1>7

(* A normal commit extends exactly the committed state before it.          *)
LEMMA CasExtendsTip ==
    ASSUME HistoryInv, edited = {}, NEW p \in Procs, NEW u \in Updates, CompareAndSwap(p, u)
    PROVE  view[p] = IF tip = None THEN {} ELSE committed[tip].payload
BY DEF HistoryInv, HistoryIntact, CompareAndSwap, CasRaises

(* Steps that leave the table alone.                                       *)
LEMMA UntouchedHistory ==
    ASSUME HistoryInv, UNCHANGED <<storeVars, edited>>,
           \A p \in Procs : pc'[p] = "cycling" =>
               \/ /\ pc[p] = "cycling"
                  /\ expected'[p] = expected[p]
                  /\ view'[p] = view[p]
               \/ /\ expected'[p] = tip
                  /\ tip # None => Valid(rows, tip)
                  /\ view'[p] = IF tip = None THEN {} ELSE rows[tip].payload
    PROVE  HistoryIntact' /\ NoLostUpdate' /\ QuarantineIsFinal'
<1>1. NoLostUpdate' /\ QuarantineIsFinal'
    BY DEF HistoryInv, NoLostUpdate, QuarantineIsFinal, storeVars
<1>2. ASSUME edited = {}, NEW p \in Procs, pc'[p] = "cycling"
      PROVE  /\ expected'[p] <= tip
             /\ view'[p] = IF expected'[p] = None THEN {} ELSE committed[expected'[p]].payload
    <2>1. tip \in Int /\ tip <= tip /\ (tip # None => tip \in 0..tip)
        BY DEF HistoryInv, TypeOK, None
    <2>2. CASE pc[p] = "cycling" /\ expected'[p] = expected[p] /\ view'[p] = view[p]
        BY <1>2, <2>2 DEF HistoryInv, HistoryIntact
    <2>3. CASE /\ expected'[p] = tip
               /\ tip # None => Valid(rows, tip)
               /\ view'[p] = IF tip = None THEN {} ELSE rows[tip].payload
        BY <1>2, <2>1, <2>3, ValidIsCommitted
    <2>. QED
        BY <1>2, <2>2, <2>3
<1>. QED
    BY <1>1, <1>2 DEF HistoryInv, HistoryIntact, storeVars

LEMMA DamageKeepsHistory ==
    ASSUME HistoryInv, NEW g \in 0..tip, Damage(g)
    PROVE  HistoryIntact' /\ NoLostUpdate' /\ QuarantineIsFinal'
<1>1. CASE Rot(g)
    <2>1. tip \in Nat /\ rows \in [0..tip -> Row] /\ committed \in [0..tip -> Row]
        BY DEF HistoryInv, TypeOK, None
    <2>2. \A h \in 0..tip : h # g => rows'[h] = rows[h]
        BY <1>1, <2>1 DEF Rot
    <2>3. rows'[g] = [rows[g] EXCEPT !.payload = Garbage]
        BY <1>1, <2>1 DEF Rot
    <2>4. rows'[g].payload = Garbage /\ rows'[g].sha = rows[g].sha
        BY <2>1, <2>3 DEF Row
    <2>5. NoLostUpdate'
        BY <1>1 DEF Rot, Damage, HistoryInv, NoLostUpdate
    <2>6. QuarantineIsFinal'
        <3>. SUFFICES ASSUME edited = {}, NEW r \in 0..tip, NEW q \in committed[r].quarantined,
                             Valid(rows', q)
                      PROVE  FALSE
            BY <1>1 DEF QuarantineIsFinal, Rot, Damage
        <3>1. q \in 0..(r - 1) /\ ~Valid(rows, q)
            BY DEF HistoryInv, HistoryIntact, QuarantineIsFinal
        <3>2. q \in Nat /\ \A h \in 0..q : h \in 0..tip
            BY <3>1, <2>1
        <3>3. \A h \in 0..q : \/ rows'[h] = rows[h]
                              \/ rows'[h].payload = Garbage /\ rows'[h].sha = rows[h].sha
            BY <2>2, <2>4, <3>2
        <3>4. Valid(rows, q)
            BY <3>2, <3>3, ValidityOnlyLost
        <3>. QED
            BY <3>1, <3>4
    <2>7. HistoryIntact'
        <3>1. edited = {} => rows'[g] \in {committed[g], [committed[g] EXCEPT !.payload = Garbage]}
            BY <2>1, <2>3 DEF HistoryInv, HistoryIntact, Row
        <3>. QED
            BY <1>1, <2>2, <3>1 DEF HistoryInv, HistoryIntact, Rot, Damage, procVars
    <2>. QED
        BY <2>5, <2>6, <2>7
<1>2. CASE \E text \in Payloads : Rewrite(g, text)
    <2>1. edited' # {}
        BY <1>2 DEF Rewrite
    <2>. QED
        BY <2>1 DEF HistoryIntact, NoLostUpdate, QuarantineIsFinal
<1>. QED
    BY <1>1, <1>2 DEF Damage

LEMMA HistoryStep ==
    ASSUME HistoryInv, [Next]_vars
    PROVE  HistoryInv'
<1>. USE DEF faultVars
<1>1. TypeOK'
    BY TypeStep DEF HistoryInv
<1>2. ASSUME NEW p \in Procs,
             LoadCurrent(p) \/ CompareAndSwapFails(p) \/ ObserveTip(p) \/ RecoverFails(p)
             \/ WriteSummary(p) \/ Crash(p) \/ \E u \in Updates : CompareAndSwapNoop(p, u)
      PROVE  HistoryIntact' /\ NoLostUpdate' /\ QuarantineIsFinal'
    <2>1. UNCHANGED <<storeVars, edited>>
        BY <1>2 DEF LoadCurrent, CompareAndSwapFails, ObserveTip, RecoverFails, WriteSummary,
                    Crash, CompareAndSwapNoop
    <2>2. pc \in [Procs -> {"idle", "cycling", "recovering", "summarize"}]
          /\ expected \in [Procs -> Nat \cup {None}] /\ view \in [Procs -> Texts \ {Garbage}]
        BY DEF HistoryInv, TypeOK
    <2>3. CASE LoadCurrent(p)
        BY <2>1, <2>2, <2>3, UntouchedHistory DEF LoadCurrent
    <2>4. CASE CompareAndSwapFails(p) \/ RecoverFails(p) \/ WriteSummary(p) \/ Crash(p)
        BY <2>1, <2>2, <2>4, UntouchedHistory
        DEF CompareAndSwapFails, RecoverFails, WriteSummary, Crash, Forget
    <2>5. CASE ObserveTip(p)
        BY <2>1, <2>2, <2>5, UntouchedHistory DEF ObserveTip
    <2>6. CASE \E u \in Updates : CompareAndSwapNoop(p, u)
        BY <2>1, <2>2, <2>6, UntouchedHistory DEF CompareAndSwapNoop, Return
    <2>. QED
        BY <1>2, <2>3, <2>4, <2>5, <2>6
<1>3. ASSUME NEW p \in Procs, NEW u \in Updates, CompareAndSwap(p, u)
      PROVE  HistoryIntact' /\ NoLostUpdate' /\ QuarantineIsFinal'
    <2>1. CASE edited # {}
        BY <1>3, <2>1 DEF CompareAndSwap, HistoryIntact, NoLostUpdate, QuarantineIsFinal
    <2>2. CASE edited = {}
        <3>1. Insert(CasRow(p, u)) /\ UNCHANGED edited /\ CasRow(p, u) \in Row
            BY <1>3, CasRowType DEF CompareAndSwap, HistoryInv
        <3>2. CasRow(p, u).payload = view[p] \cup {u} /\ CasRow(p, u).quarantined = {}
            BY DEF CasRow
        <3>3. view[p] \cup {u} # Garbage
            BY GarbageAssumption, ViewIsPayload DEF HistoryInv, TypeOK, Payloads
        <3>4. ASSUME NEW h \in 0..tip
              PROVE  \/ committed[h].payload \subseteq CasRow(p, u).payload
                     \/ \E r \in (h + 1)..tip : h \in committed[r].quarantined
            <4>1. tip \in 0..tip /\ tip # None /\ h \in 0..tip
                BY DEF HistoryInv, TypeOK, None
            <4>2. view[p] = committed[tip].payload
                BY <1>3, <2>2, <4>1, CasExtendsTip
            <4>. QED
                BY <2>2, <3>2, <4>1, <4>2 DEF HistoryInv, NoLostUpdate
        <3>5. NoLostUpdate' /\ QuarantineIsFinal'
              /\ \A g \in 0..tip' :
                    /\ rows'[g] \in {committed'[g], [committed'[g] EXCEPT !.payload = Garbage]}
                    /\ committed'[g].payload # Garbage
                    /\ committed'[g].quarantined \subseteq 0..(g - 1)
            BY <2>2, <3>1, <3>2, <3>3, <3>4, InsertKeepsHistory
        <3>6. ASSUME NEW x \in Procs, pc'[x] = "cycling"
              PROVE  /\ expected'[x] <= tip'
                     /\ view'[x] = IF expected'[x] = None THEN {} ELSE committed'[expected'[x]].payload
            <4>1. pc[x] = "cycling" /\ expected'[x] = expected[x] /\ view'[x] = view[x]
                BY <1>3, <3>6 DEF CompareAndSwap, Return, HistoryInv, TypeOK
            <4>2. expected[x] <= tip /\ expected[x] \in Nat \cup {None} /\ tip \in Nat \cup {None}
                BY <2>2, <4>1 DEF HistoryInv, HistoryIntact, TypeOK
            <4>3. expected[x] # None => committed'[expected[x]] = committed[expected[x]]
                BY <3>1, <4>2 DEF Insert, None
            <4>4. tip' = tip + 1
                BY <3>1 DEF Insert
            <4>. QED
                BY <2>2, <4>1, <4>2, <4>3, <4>4 DEF HistoryInv, HistoryIntact, None
        <3>. QED
            BY <3>5, <3>6 DEF HistoryIntact
    <2>. QED
        BY <2>1, <2>2
<1>4. ASSUME NEW p \in Procs, RecoverToPreviousValid(p)
      PROVE  HistoryIntact' /\ NoLostUpdate' /\ QuarantineIsFinal'
    <2>1. CASE edited # {}
        BY <1>4, <2>1 DEF RecoverToPreviousValid, HistoryIntact, NoLostUpdate, QuarantineIsFinal
    <2>2. CASE edited = {}
        <3>1. PICK v \in 0..(tip - 1) :
                  /\ IsNewestValidBefore(rows, tip, v)
                  /\ Insert(RecoveryRow(v))
                  /\ pc' = [pc EXCEPT ![p] = "summarize"] /\ UNCHANGED <<expected, view, edited>>
            BY <1>4 DEF RecoverToPreviousValid, Return
        <3>2. tip \in Nat /\ v \in Nat /\ v < tip /\ v \in 0..tip
            BY DEF HistoryInv, TypeOK, None
        <3>3. RecoveryRow(v) \in Row
            BY RecoveryRowType DEF HistoryInv
        <3>4. rows[v] = committed[v] /\ rows[v].payload # Garbage
            BY <2>2, <3>1, <3>2, ValidIsCommitted, ValidNotGarbage DEF IsNewestValidBefore
        <3>5. RecoveryRow(v).payload = committed[v].payload /\ RecoveryRow(v).payload # Garbage
              /\ RecoveryRow(v).quarantined = (v + 1)..tip
            BY <3>4 DEF RecoveryRow
        <3>6. \A q \in (v + 1)..tip : ~Valid(rows, q)
            <4>1. ~Valid(rows, tip)
                BY <1>4 DEF RecoverToPreviousValid, RecoveryRaises
            <4>2. \A q \in (v + 1)..tip : q = tip \/ q \in (v + 1)..(tip - 1)
                BY <3>2
            <4>. QED
                BY <3>1, <4>1, <4>2 DEF IsNewestValidBefore
        <3>7. ASSUME NEW h \in 0..tip
              PROVE  \/ committed[h].payload \subseteq RecoveryRow(v).payload
                     \/ h \in RecoveryRow(v).quarantined
                     \/ \E r \in (h + 1)..tip : h \in committed[r].quarantined
            <4>1. CASE h \in 0..v
                <5>1. \/ committed[h].payload \subseteq committed[v].payload
                      \/ \E r \in (h + 1)..v : h \in committed[r].quarantined
                    BY <2>2, <3>2, <4>1 DEF HistoryInv, NoLostUpdate
                <5>2. \A r \in (h + 1)..v : r \in (h + 1)..tip
                    BY <3>2, <4>1
                <5>. QED
                    BY <3>5, <5>1, <5>2
            <4>2. CASE h \in (v + 1)..tip
                BY <3>5, <4>2
            <4>. QED
                BY <3>2, <4>1, <4>2
        <3>8. (v + 1)..tip \subseteq 0..tip
            BY <3>2
        <3>9. NoLostUpdate' /\ QuarantineIsFinal'
              /\ \A g \in 0..tip' :
                    /\ rows'[g] \in {committed'[g], [committed'[g] EXCEPT !.payload = Garbage]}
                    /\ committed'[g].payload # Garbage
                    /\ committed'[g].quarantined \subseteq 0..(g - 1)
            BY <2>2, <3>1, <3>3, <3>5, <3>6, <3>7, <3>8, InsertKeepsHistory
        <3>10. ASSUME NEW x \in Procs, pc'[x] = "cycling"
               PROVE  /\ expected'[x] <= tip'
                      /\ view'[x] = IF expected'[x] = None THEN {} ELSE committed'[expected'[x]].payload
            <4>1. pc[x] = "cycling" /\ expected'[x] = expected[x] /\ view'[x] = view[x]
                BY <3>1, <3>10 DEF HistoryInv, TypeOK
            <4>2. expected[x] <= tip /\ expected[x] \in Nat \cup {None}
                BY <2>2, <4>1 DEF HistoryInv, HistoryIntact, TypeOK
            <4>3. expected[x] # None => committed'[expected[x]] = committed[expected[x]]
                BY <3>1, <3>2, <4>2 DEF Insert, None
            <4>4. tip' = tip + 1
                BY <3>1 DEF Insert
            <4>. QED
                BY <2>2, <3>2, <4>1, <4>2, <4>3, <4>4 DEF HistoryInv, HistoryIntact, None
        <3>. QED
            BY <3>9, <3>10 DEF HistoryIntact
    <2>. QED
        BY <2>1, <2>2
<1>5. CASE UNCHANGED vars
    <2>1. UNCHANGED <<storeVars, edited>> /\ UNCHANGED <<pc, expected, view>>
        BY <1>5 DEF vars, procVars
    <2>. QED
        BY <1>1, <2>1, UntouchedHistory DEF HistoryInv
<1>. QED
    BY <1>1, <1>2, <1>3, <1>4, <1>5, DamageKeepsHistory DEF Next, Cycle, Recovery, HistoryInv

(* The inductive invariant holds throughout, whatever interleaves.         *)
THEOREM HistoryInvariant == Spec => []HistoryInv
<1>1. Init => HistoryIntact /\ NoLostUpdate /\ QuarantineIsFinal
    BY DEF Init, HistoryIntact, NoLostUpdate, QuarantineIsFinal, None
<1>2. Init /\ TypeOK => HistoryInv
    BY <1>1 DEF HistoryInv
<1>. QED
    BY <1>2, TypeCorrect, HistoryStep, PTL DEF Spec

(* No acknowledged update is lost, for any number of racing supervisors,   *)
(* recoveries, crashes and rotten rows.                                    *)
THEOREM UpdatesSurvive == Spec => []NoLostUpdate
<1>1. HistoryInv => NoLostUpdate
    BY DEF HistoryInv
<1>. QED
    BY <1>1, HistoryInvariant, PTL

(* A quarantined generation never validates again.                         *)
THEOREM QuarantineStays == Spec => []QuarantineIsFinal
<1>1. HistoryInv => QuarantineIsFinal
    BY DEF HistoryInv
<1>. QED
    BY <1>1, HistoryInvariant, PTL

-----------------------------------------------------------------------------
(* Refinement: as long as no row was rewritten by hand, the committed      *)
(* payloads behave as an atomically updated register.                      *)
LEMMA RegisterStep ==
    ASSUME HistoryInv, [Next]_vars
    PROVE  [Register!RegisterNext]_(Register!registerVars)
<1>. DEFINE states == [g \in 0..tip |-> committed[g].payload]
<1>0. TypeOK /\ tip \in Nat \cup {None}
    BY DEF HistoryInv, TypeOK
<1>1. ASSUME NEW row, Insert(row)
      PROVE  tip' = tip + 1 /\ states' = [i \in 0..(tip + 1) |-> IF i = tip + 1 THEN row.payload ELSE states[i]]
    <2>1. tip' = tip + 1
        BY <1>1 DEF Insert
    <2>2. \A i \in 0..(tip + 1) : i # tip + 1 => i \in 0..tip
        BY <1>0 DEF None
    <2>3. \A i \in 0..(tip + 1) :
              committed'[i].payload = IF i = tip + 1 THEN row.payload ELSE states[i]
        BY <1>1, <2>2 DEF Insert
    <2>. QED
        BY <2>1, <2>3
<1>2. ASSUME NEW p \in Procs, NEW u \in Updates, CompareAndSwap(p, u)
      PROVE  Register!RegisterNext
    <2>1. /\ Insert(CasRow(p, u))
          /\ CasRow(p, u).payload = view[p] \cup {u}
          /\ edited' = edited
        BY <1>2 DEF CompareAndSwap, CasRow, faultVars
    <2>2. Register!Push(view[p] \cup {u})
        BY <1>1, <2>1 DEF Register!Push
    <2>3. CASE edited = {}
        <3>1. view[p] = IF tip = -1 THEN {} ELSE states[tip]
            BY <1>0, <1>2, <2>3, CasExtendsTip DEF None
        <3>2. Register!Advance(u)
            BY <2>2, <3>1 DEF Register!Advance, Register!Push
        <3>. QED
            BY <2>1, <2>3, <3>2 DEF Register!RegisterNext, Register!Vouched
    <2>4. CASE edited # {}
        <3>1. view[p] \cup {u} \in SUBSET Updates
            BY <1>0, ViewIsPayload DEF TypeOK, Payloads
        <3>. QED
            BY <2>1, <2>2, <2>4, <3>1 DEF Register!RegisterNext, Register!Unvouched, Register!Push
    <2>. QED
        BY <2>3, <2>4
<1>3. ASSUME NEW p \in Procs, RecoverToPreviousValid(p)
      PROVE  Register!RegisterNext
    <2>1. PICK v \in 0..(tip - 1) : IsNewestValidBefore(rows, tip, v) /\ Insert(RecoveryRow(v))
        BY <1>3 DEF RecoverToPreviousValid
    <2>2. v \in 0..tip /\ Valid(rows, v) /\ edited' = edited
        BY <1>0, <1>3, <2>1 DEF None, IsNewestValidBefore, RecoverToPreviousValid, faultVars
    <2>3. Register!Push(rows[v].payload)
        <3>1. RecoveryRow(v).payload = rows[v].payload
            BY DEF RecoveryRow
        <3>. QED
            BY <1>1, <2>1, <3>1 DEF Register!Push
    <2>4. CASE edited = {}
        <3>1. rows[v].payload = states[v]
            BY <1>0, <2>2, <2>4, ValidIsCommitted
        <3>2. Register!Restore(v)
            BY <2>3, <3>1 DEF Register!Restore, Register!Push
        <3>. QED
            BY <2>1, <2>2, <2>4, <3>2 DEF Register!RegisterNext, Register!Vouched
    <2>5. CASE edited # {}
        <3>1. rows[v].payload \in SUBSET Updates
            BY <1>0, <2>2, ValidPayload DEF Payloads
        <3>. QED
            BY <2>2, <2>3, <2>5, <3>1 DEF Register!RegisterNext, Register!Unvouched, Register!Push
    <2>. QED
        BY <2>4, <2>5
<1>4. ASSUME UNCHANGED <<tip, committed, edited>>
      PROVE  UNCHANGED Register!registerVars
    BY <1>4 DEF Register!registerVars
<1>5. ASSUME NEW g \in 0..tip, Damage(g)
      PROVE  [Register!RegisterNext]_(Register!registerVars)
    <2>1. CASE Rot(g)
        BY <1>4, <1>5, <2>1 DEF Damage, Rot
    <2>2. CASE \E text \in Payloads : Rewrite(g, text)
        <3>1. edited' # {} /\ UNCHANGED <<tip, committed>>
            BY <1>5, <2>2 DEF Damage, Rewrite
        <3>2. states' = states
            BY <3>1
        <3>. QED
            BY <3>1, <3>2 DEF Register!RegisterNext, Register!Unvouched
    <2>. QED
        BY <1>5, <2>1, <2>2 DEF Damage
<1>. QED
    BY <1>2, <1>3, <1>4, <1>5
    DEF Next, vars, storeVars, faultVars, Cycle, Recovery, LoadCurrent, CompareAndSwapFails,
        CompareAndSwapNoop, ObserveTip, RecoverFails, WriteSummary, Crash

(* compare_and_swap makes the read-modify-write of a whole cycle atomic.   *)
THEOREM StoreIsRegister == Spec => ImplementsRegister
<1>1. Init => Register!RegisterInit
    BY DEF Init, Register!RegisterInit, None
<1>. QED
    BY <1>1, HistoryInvariant, RegisterStep, PTL
    DEF Spec, ImplementsRegister, Register!RegisterSpec

-----------------------------------------------------------------------------
(* What the evidence file reports.                                         *)

\* r is NoRecord or names a generation up to last with the kind, and when the
\* table is clean the payload, that log lists for it.
Honest(r, last, log, clean) ==
    /\ r.generation \in 0..last
    /\ r.kind = log[r.generation].kind
    /\ clean => r.payload = log[r.generation].payload

\* The strengthening of SummaryReportsCommitted: a record a store call returned
\* is honest from the transaction on, and no damage changes the kind of a row.
SummaryInv ==
    /\ HistoryInv
    /\ \A g \in 0..tip : rows[g].kind = committed[g].kind
    /\ \A p \in Procs : pc[p] = "summarize" => Honest(record[p], tip, committed, edited = {})
    /\ summary # NoRecord => Honest(summary, tip, committed, edited = {})

(* Committed rows stay, and a rewritten table stays rewritten.             *)
LEMMA HistoryGrows ==
    ASSUME TypeOK, [Next]_vars
    PROVE  /\ tip' \in Int
           /\ \A g \in 0..tip : g \in 0..tip' /\ committed'[g] = committed[g]
           /\ edited' = {} => edited = {}
<1>. USE DEF storeVars, procVars, faultVars
<1>1. tip \in Nat \cup {-1}
    BY DEF TypeOK, None
<1>2. ASSUME NEW row, Insert(row)
      PROVE  tip' \in Int /\ \A g \in 0..tip : g \in 0..tip' /\ committed'[g] = committed[g]
    <2>1. tip' = tip + 1 /\ \A g \in 0..tip : g \in 0..(tip + 1) /\ g # tip + 1
        BY <1>1, <1>2 DEF Insert
    <2>. QED
        BY <1>1, <1>2, <2>1 DEF Insert
<1>3. ASSUME UNCHANGED <<tip, committed>>
      PROVE  tip' \in Int /\ \A g \in 0..tip : g \in 0..tip' /\ committed'[g] = committed[g]
    BY <1>1, <1>3
<1>4. ASSUME NEW p \in Procs, NEW u \in Updates, CompareAndSwap(p, u)
      PROVE  Insert(CasRow(p, u)) /\ edited' = edited
    BY <1>4 DEF CompareAndSwap
<1>5. ASSUME NEW p \in Procs, RecoverToPreviousValid(p)
      PROVE  edited' = edited /\ \E v \in 0..(tip - 1) : Insert(RecoveryRow(v))
    BY <1>5 DEF RecoverToPreviousValid
<1>6. ASSUME NEW g \in 0..tip, Damage(g)
      PROVE  UNCHANGED <<tip, committed>> /\ (edited' = {} => edited = {})
    BY <1>6 DEF Damage, Rot, Rewrite
<1>7. \/ UNCHANGED <<tip, committed, edited>>
      \/ \E p \in Procs : \/ \E u \in Updates : CompareAndSwap(p, u)
                          \/ RecoverToPreviousValid(p)
      \/ \E g \in 0..tip : Damage(g)
    BY DEF Next, vars, Cycle, Recovery, LoadCurrent, CompareAndSwapFails, CompareAndSwapNoop,
           ObserveTip, RecoverFails, WriteSummary, Crash
<1>. QED
    BY <1>2, <1>3, <1>4, <1>5, <1>6, <1>7

LEMMA HonestyLasts ==
    ASSUME TypeOK, [Next]_vars, NEW r, Honest(r, tip, committed, edited = {})
    PROVE  Honest(r, tip', committed', edited' = {})
BY HistoryGrows DEF Honest

(* The kinds in the table are the kinds that were inserted.                *)
LEMMA KindsStay ==
    ASSUME TypeOK, [Next]_vars, \A g \in 0..tip : rows[g].kind = committed[g].kind
    PROVE  \A g \in 0..tip' : rows'[g].kind = committed'[g].kind
<1>. USE DEF storeVars, procVars, faultVars
<1>1. tip \in Nat \cup {-1}
    BY DEF TypeOK, None
<1>2. ASSUME NEW row, Insert(row)
      PROVE  \A g \in 0..tip' : rows'[g].kind = committed'[g].kind
    <2>1. tip' = tip + 1 /\ \A g \in 0..(tip + 1) : g = tip + 1 \/ g \in 0..tip
        BY <1>1, <1>2 DEF Insert
    <2>. QED
        BY <1>2, <2>1 DEF Insert
<1>3. ASSUME NEW g \in 0..tip, Damage(g)
      PROVE  UNCHANGED <<tip, committed>> /\ \A h \in 0..tip : rows'[h].kind = rows[h].kind
    <2>1. rows \in [0..tip -> Row]
        BY DEF TypeOK
    <2>. QED
        BY <1>3, <2>1 DEF Damage, Rot, Rewrite, Row
<1>4. \/ UNCHANGED <<tip, committed, rows>>
      \/ \E p \in Procs : \/ \E u \in Updates : Insert(CasRow(p, u))
                          \/ \E v \in 0..(tip - 1) : Insert(RecoveryRow(v))
      \/ \E g \in 0..tip : Damage(g)
    BY DEF Next, vars, Cycle, Recovery, LoadCurrent, CompareAndSwapFails, CompareAndSwapNoop,
           ObserveTip, RecoverFails, WriteSummary, Crash, CompareAndSwap, RecoverToPreviousValid
<1>. QED
    BY <1>2, <1>3, <1>4

(* What the three returning store calls report.                            *)
LEMMA ReturnHonest ==
    ASSUME SummaryInv, NEW p \in Procs,
           \/ \E u \in Updates : CompareAndSwapNoop(p, u) \/ CompareAndSwap(p, u)
           \/ RecoverToPreviousValid(p)
    PROVE  /\ pc' = [pc EXCEPT ![p] = "summarize"]
           /\ Honest(record'[p], tip', committed', edited' = {})
           /\ \A x \in Procs : x # p => record'[x] = record[x]
           /\ UNCHANGED summary
<1>. USE DEF storeVars, procVars, faultVars
<1>1. TypeOK /\ HistoryInv /\ record \in [Procs -> Record] /\ tip \in Nat \cup {-1}
    BY DEF SummaryInv, HistoryInv, TypeOK, None
<1>2. ASSUME NEW u \in Updates, CompareAndSwapNoop(p, u)
      PROVE  Honest(record'[p], tip', committed', edited' = {})
    <2>1. tip \in 0..tip /\ Valid(rows, tip) /\ rows[tip].kind = committed[tip].kind
        BY <1>1, <1>2 DEF CompareAndSwapNoop, CasIsNoop, CasRaises, None, SummaryInv
    <2>2. edited = {} => rows[tip].payload = committed[tip].payload
        BY <1>1, <2>1, ValidIsCommitted
    <2>3. record'[p] = [generation |-> tip, kind |-> rows[tip].kind, payload |-> rows[tip].payload]
          /\ UNCHANGED <<tip, committed, edited>>
        BY <1>1, <1>2 DEF CompareAndSwapNoop, Return
    <2>. QED
        BY <2>1, <2>2, <2>3 DEF Honest
<1>3. ASSUME NEW u \in Updates, CompareAndSwap(p, u)
      PROVE  Honest(record'[p], tip', committed', edited' = {})
    <2>1. record'[p] = [generation |-> tip + 1, kind |-> "normal", payload |-> view[p] \cup {u}]
          /\ Insert(CasRow(p, u))
        BY <1>1, <1>3 DEF CompareAndSwap, Return
    <2>2. tip' = tip + 1 /\ tip + 1 \in 0..(tip + 1) /\ committed'[tip + 1] = CasRow(p, u)
        BY <1>1, <2>1 DEF Insert
    <2>3. CasRow(p, u).kind = "normal" /\ CasRow(p, u).payload = view[p] \cup {u}
        BY DEF CasRow
    <2>. QED
        BY <2>1, <2>2, <2>3 DEF Honest
<1>4. ASSUME RecoverToPreviousValid(p)
      PROVE  Honest(record'[p], tip', committed', edited' = {})
    <2>1. PICK v \in 0..(tip - 1) :
              /\ Insert(RecoveryRow(v))
              /\ Return(p, [generation |-> tip + 1, kind |-> "recovery", payload |-> rows[v].payload])
        BY <1>4 DEF RecoverToPreviousValid
    <2>2. record'[p] = [generation |-> tip + 1, kind |-> "recovery", payload |-> rows[v].payload]
        BY <1>1, <2>1 DEF Return
    <2>3. tip' = tip + 1 /\ tip + 1 \in 0..(tip + 1) /\ committed'[tip + 1] = RecoveryRow(v)
        BY <1>1, <2>1 DEF Insert
    <2>4. RecoveryRow(v).kind = "recovery" /\ RecoveryRow(v).payload = rows[v].payload
        BY DEF RecoveryRow
    <2>. QED
        BY <2>2, <2>3, <2>4 DEF Honest
<1>5. /\ pc' = [pc EXCEPT ![p] = "summarize"] /\ UNCHANGED summary
      /\ \E r : record' = [record EXCEPT ![p] = r]
    BY DEF CompareAndSwapNoop, CompareAndSwap, RecoverToPreviousValid, Return
<1>6. \A x \in Procs : x # p => record'[x] = record[x]
    BY <1>1, <1>5
<1>. QED
    BY <1>2, <1>3, <1>4, <1>5, <1>6

LEMMA SummaryStep ==
    ASSUME SummaryInv, [Next]_vars
    PROVE  SummaryInv'
<1>. USE DEF storeVars, procVars, faultVars
<1>1. TypeOK /\ HistoryInv /\ pc \in [Procs -> {"idle", "cycling", "recovering", "summarize"}]
    BY DEF SummaryInv, HistoryInv, TypeOK
<1>2. HistoryInv'
    BY <1>1, HistoryStep
<1>3. \A g \in 0..tip' : rows'[g].kind = committed'[g].kind
    BY <1>1, KindsStay DEF SummaryInv
<1>4. \A r : Honest(r, tip, committed, edited = {}) => Honest(r, tip', committed', edited' = {})
    BY <1>1, HonestyLasts
<1>5. CASE \E p \in Procs : \/ \E u \in Updates : CompareAndSwapNoop(p, u) \/ CompareAndSwap(p, u)
                            \/ RecoverToPreviousValid(p)
    <2>1. PICK p \in Procs :
              /\ pc' = [pc EXCEPT ![p] = "summarize"]
              /\ Honest(record'[p], tip', committed', edited' = {})
              /\ \A x \in Procs : x # p => record'[x] = record[x]
              /\ UNCHANGED summary
        BY <1>5, ReturnHonest
    <2>2. \A x \in Procs : pc'[x] = "summarize" => Honest(record'[x], tip', committed', edited' = {})
        BY <1>1, <1>4, <2>1 DEF SummaryInv
    <2>3. summary' # NoRecord => Honest(summary', tip', committed', edited' = {})
        BY <1>4, <2>1 DEF SummaryInv
    <2>. QED
        BY <1>2, <1>3, <2>2, <2>3 DEF SummaryInv
<1>6. ASSUME NEW p \in Procs,
             \/ LoadCurrent(p) \/ CompareAndSwapFails(p) \/ ObserveTip(p)
             \/ RecoverFails(p) \/ WriteSummary(p) \/ Crash(p)
      PROVE  SummaryInv'
    <2>1. \A x \in Procs : pc'[x] = "summarize" => pc[x] = "summarize" /\ record'[x] = record[x]
        BY <1>1, <1>6 DEF LoadCurrent, CompareAndSwapFails, ObserveTip, RecoverFails, WriteSummary,
                          Crash, Forget, TypeOK
    <2>2. \/ summary' = summary
          \/ pc[p] = "summarize" /\ summary' = record[p]
        BY <1>6 DEF LoadCurrent, CompareAndSwapFails, ObserveTip, RecoverFails, WriteSummary, Crash
    <2>3. \A x \in Procs : pc'[x] = "summarize" => Honest(record'[x], tip', committed', edited' = {})
        BY <1>4, <2>1 DEF SummaryInv
    <2>4. summary' # NoRecord => Honest(summary', tip', committed', edited' = {})
        BY <1>4, <2>2 DEF SummaryInv
    <2>. QED
        BY <1>2, <1>3, <2>3, <2>4 DEF SummaryInv
<1>7. CASE UNCHANGED procVars /\ UNCHANGED summary
    <2>1. \A x \in Procs : pc'[x] = "summarize" => Honest(record'[x], tip', committed', edited' = {})
        BY <1>4, <1>7 DEF SummaryInv
    <2>2. summary' # NoRecord => Honest(summary', tip', committed', edited' = {})
        BY <1>4, <1>7 DEF SummaryInv
    <2>. QED
        BY <1>2, <1>3, <2>1, <2>2 DEF SummaryInv
<1>. QED
    BY <1>5, <1>6, <1>7 DEF Next, vars, Cycle, Recovery, Damage

(* The evidence file reports what the store committed, for any number of   *)
(* processes and whatever happens between the commit and atomic_json.      *)
THEOREM EvidenceIsHonest == Spec => []SummaryReportsCommitted
<1>1. Init /\ HistoryInv => SummaryInv
    <2>. SUFFICES ASSUME Init, HistoryInv  PROVE SummaryInv
        OBVIOUS
    <2>1. 0..tip = {} /\ summary = NoRecord /\ \A p \in Procs : pc[p] = "idle"
        BY DEF Init, None
    <2>. QED
        BY <2>1 DEF SummaryInv
<1>2. SummaryInv => SummaryReportsCommitted
    BY DEF SummaryInv, SummaryReportsCommitted, Honest
<1>. QED
    BY <1>1, <1>2, SummaryStep, HistoryInvariant, PTL DEF Spec

-----------------------------------------------------------------------------
(* Damage of a row and the generations that descend from it.               *)

(* Ancestors is what its recursion says, on a table whose rows name older  *)
(* parents.                                                                *)
Ancestry(rs, n, f) ==
    f = [g \in 0..n |-> IF rs[g].parent = None THEN {} ELSE {rs[g].parent} \cup f[rs[g].parent]]

LEMMA AncestryExists ==
    ASSUME NEW rs, NEW n \in Nat,
           \A g \in 0..n : rs[g].parent = None \/ rs[g].parent \in 0..(g - 1)
    PROVE  \E f : Ancestry(rs, n, f)
<1>. DEFINE Bad == {m \in 0..n : ~\E f : Ancestry(rs, m, f)}
<1>. SUFFICES ASSUME Bad # {}  PROVE FALSE
    OBVIOUS
<1>1. PICK m \in Bad : \A v \in Bad : m <= v
    <2>1. Bad \in SUBSET Nat
        OBVIOUS
    <2>. HIDE DEF Bad
    <2>. QED
        BY <2>1, SmallestNumber
<1>2. m \in 0..n /\ ~\E f : Ancestry(rs, m, f)
    OBVIOUS
<1>3. ASSUME NEW h, Ancestry(rs, m - 1, h)
      PROVE  FALSE
    <2>. DEFINE top == IF rs[m].parent = None THEN {} ELSE {rs[m].parent} \cup h[rs[m].parent]
                f == [g \in 0..m |-> IF g = m THEN top ELSE h[g]]
    <2>1. \A g \in 0..(m - 1) :
              h[g] = IF rs[g].parent = None THEN {} ELSE {rs[g].parent} \cup h[rs[g].parent]
        BY <1>3 DEF Ancestry
    <2>2. \A g \in 0..m : rs[g].parent # None => rs[g].parent \in 0..(m - 1) /\ rs[g].parent \in 0..m
                                                 /\ rs[g].parent # m
        BY <1>2
    <2>3. \A g \in 0..m : rs[g].parent # None => f[rs[g].parent] = h[rs[g].parent]
        BY <2>2
    <2>4. \A g \in 0..m : g = m \/ g \in 0..(m - 1)
        BY <1>2
    <2>5. ASSUME NEW g \in 0..m
          PROVE  f[g] = IF rs[g].parent = None THEN {} ELSE {rs[g].parent} \cup f[rs[g].parent]
        <3>. HIDE DEF f
        <3>1. f[g] = IF g = m THEN top ELSE h[g]
            BY DEF f
        <3>. QED
            BY <2>1, <2>3, <2>4, <3>1
    <2>6. f = [g \in 0..m |-> f[g]]
        OBVIOUS
    <2>7. Ancestry(rs, m, f)
        <3>. HIDE DEF f
        <3>. QED
            BY <2>5, <2>6 DEF Ancestry
    <2>. QED
        BY <1>2, <2>7
<1>4. m = 0
    <2>1. ASSUME m # 0  PROVE FALSE
        <3>1. m - 1 \in 0..n /\ ~(m <= m - 1)
            BY <1>2, <2>1
        <3>2. m - 1 \notin Bad
            BY <1>1, <3>1
        <3>3. \E h : Ancestry(rs, m - 1, h)
            BY <3>1, <3>2
        <3>. QED
            BY <1>3, <3>3
    <2>. QED
        BY <2>1
<1>5. Ancestry(rs, m - 1, [g \in {} |-> {}])
    BY <1>4 DEF Ancestry
<1>. QED
    BY <1>3, <1>5

LEMMA AncestorsOf ==
    ASSUME NEW rs, NEW n \in Nat, DOMAIN rs = 0..n,
           \A g \in 0..n : rs[g].parent = None \/ rs[g].parent \in 0..(g - 1)
    PROVE  \A g \in 0..n : Ancestors(rs)[g] =
               IF rs[g].parent = None THEN {} ELSE {rs[g].parent} \cup Ancestors(rs)[rs[g].parent]
<1>1. PICK f : Ancestry(rs, n, f)
    BY AncestryExists
<1>2. Ancestry(rs, n, Ancestors(rs))
    BY <1>1 DEF Ancestors, Ancestry
<1>. HIDE DEF Ancestors
<1>. QED
    BY <1>2 DEF Ancestry

(* The parents recorded in the table are older generations; damage leaves  *)
(* them alone.                                                             *)
OlderParents(rs, last) ==
    \A g \in 0..last : rs[g].parent = None \/ rs[g].parent \in 0..(g - 1)

LEMMA DigestInjective ==
    ASSUME NEW s, NEW t, Digest(s) = Digest(t)
    PROVE  s = t
<1>1. <<"sha256", s>>[2] = <<"sha256", t>>[2]
    BY Zenon DEF Digest
<1>. QED
    BY <1>1

LEMMA DamagedRow ==
    ASSUME TypeOK, NEW g \in 0..tip, Damage(g)
    PROVE  /\ \A h \in 0..tip : h # g => rows'[h] = rows[h]
           /\ \A h \in 0..tip : rows'[h].parent = rows[h].parent
           /\ rows'[g].payload = rows[g].payload /\ rows'[g].sha = rows[g].sha => rows'[g] = rows[g]
<1>1. rows \in [0..tip -> Row]
    BY DEF TypeOK
<1>2. \A h \in 0..tip : h # g => rows'[h] = rows[h]
    BY <1>1 DEF Damage, Rot, Rewrite
<1>3. CASE Rot(g)
    <2>1. rows'[g] = [rows[g] EXCEPT !.payload = Garbage]
        BY <1>1, <1>3 DEF Rot
    <2>2. rows[g] \in Row
        BY <1>1
    <2>3. rows'[g].parent = rows[g].parent /\ rows'[g].payload = Garbage
        BY <2>1, <2>2 DEF Row
    <2>. QED
        BY <1>2, <1>3, <2>3 DEF Rot
<1>4. ASSUME NEW text \in Payloads, Rewrite(g, text)
      PROVE  rows'[g].parent = rows[g].parent /\ rows'[g].payload # rows[g].payload
    <2>1. rows' = [rows EXCEPT ![g] = [rows[g] EXCEPT !.payload = text, !.sha = Digest(text)]]
        BY <1>4, <1>1 DEF Rewrite, Row
    <2>2. rows'[g] = [rows[g] EXCEPT !.payload = text, !.sha = Digest(text)]
        BY <1>1, <2>1
    <2>3. rows[g] \in Row
        BY <1>1
    <2>4. rows'[g].parent = rows[g].parent /\ rows'[g].payload = text
        BY <2>2, <2>3 DEF Row
    <2>. QED
        BY <1>4, <2>4 DEF Rewrite
<1>. QED
    BY <1>2, <1>3, <1>4 DEF Damage

LEMMA ParentsStep ==
    ASSUME TypeOK, [Next]_vars, OlderParents(rows, tip)
    PROVE  OlderParents(rows', tip')
<1>. USE DEF storeVars, procVars, faultVars
<1>1. tip \in Nat \cup {-1} /\ rows \in [0..tip -> Row]
    BY DEF TypeOK, None
<1>2. ASSUME NEW row, Insert(row),
             row.parent = tip \/ row.parent \in 0..(tip - 1)
      PROVE  OlderParents(rows', tip')
    <2>1. tip' = tip + 1 /\ \A g \in 0..(tip + 1) : g = tip + 1 \/ g \in 0..tip
        BY <1>1, <1>2 DEF Insert
    <2>2. rows'[tip + 1] = row /\ \A g \in 0..tip : rows'[g] = rows[g]
        BY <1>1, <1>2 DEF Insert
    <2>3. row.parent = None \/ row.parent \in 0..((tip + 1) - 1)
        BY <1>1, <1>2 DEF None
    <2>. QED
        BY <1>1, <2>1, <2>2, <2>3 DEF OlderParents
<1>3. ASSUME NEW g \in 0..tip, Damage(g)
      PROVE  OlderParents(rows', tip')
    <2>. QED
        BY <1>1, <1>3, DamagedRow DEF OlderParents, Damage
<1>4. ASSUME NEW p \in Procs, NEW u \in Updates, CompareAndSwap(p, u)
      PROVE  OlderParents(rows', tip')
    <2>1. Insert(CasRow(p, u)) /\ CasRow(p, u).parent = tip
        BY <1>4 DEF CompareAndSwap, CasRow
    <2>. QED
        BY <1>2, <2>1
<1>5. ASSUME NEW p \in Procs, RecoverToPreviousValid(p)
      PROVE  OlderParents(rows', tip')
    <2>1. PICK v \in 0..(tip - 1) : Insert(RecoveryRow(v))
        BY <1>5 DEF RecoverToPreviousValid
    <2>2. RecoveryRow(v).parent = v
        BY DEF RecoveryRow
    <2>. QED
        BY <1>2, <2>1, <2>2
<1>6. \/ UNCHANGED <<tip, rows>>
      \/ \E p \in Procs : \/ \E u \in Updates : CompareAndSwap(p, u)
                          \/ RecoverToPreviousValid(p)
      \/ \E g \in 0..tip : Damage(g)
    BY DEF Next, vars, Cycle, Recovery, LoadCurrent, CompareAndSwapFails, CompareAndSwapNoop,
           ObserveTip, RecoverFails, WriteSummary, Crash
<1>. QED
    BY <1>3, <1>4, <1>5, <1>6

(* The parent of a row that validates validates.                           *)
LEMMA ParentValid ==
    ASSUME NEW rs, NEW c \in Nat, Valid(rs, c), rs[c].parent # None
    PROVE  /\ c > 0
           /\ rs[c].parent \in 0..(c - 1)
           /\ Valid(rs, rs[c].parent)
           /\ rs[c].parent_sha = rs[rs[c].parent].sha
<1>1. PICK S \in SUBSET (0..c) : ValidLineage(rs, c, S)
    BY DEF Valid
<1>2. LineageOk(rs, c) /\ c \in S /\ (c > 0 => rs[c].parent \in S)
    BY <1>1 DEF ValidLineage
<1>3. c > 0 /\ rs[c].parent \in 0..(c - 1) /\ rs[c].parent_sha = rs[rs[c].parent].sha
    BY <1>2 DEF LineageOk
<1>. DEFINE b == rs[c].parent
            T == S \cap (0..b)
<1>4. b \in T /\ T \in SUBSET (0..b) /\ b \in Nat
    BY <1>2, <1>3
<1>5. ASSUME NEW h \in T
      PROVE  ContentOk(rs, h) /\ LineageOk(rs, h) /\ (h > 0 => rs[h].parent \in T)
    <2>1. ContentOk(rs, h) /\ LineageOk(rs, h) /\ (h > 0 => rs[h].parent \in S) /\ h \in 0..b
        BY <1>1 DEF ValidLineage
    <2>2. h > 0 => rs[h].parent \in 0..(h - 1)
        BY <2>1, <1>4 DEF LineageOk
    <2>. QED
        BY <1>4, <2>1, <2>2
<1>6. ValidLineage(rs, b, T)
    <2>. HIDE DEF T, b
    <2>. QED
        BY <1>4, <1>5 DEF ValidLineage
<1>7. Valid(rs, b)
    <2>. HIDE DEF T, b
    <2>. QED
        BY <1>4, <1>6 DEF Valid
<1>. QED
    BY <1>3, <1>7

(* Where two tables differ in one row only, and in its payload or digest   *)
(* if at all, a generation that validates in both has the same ancestors'  *)
(* rows in both.                                                           *)
OneRowDiffers(old, new, n, d) ==
    /\ DOMAIN old = 0..n
    /\ OlderParents(old, n)
    /\ \A h \in 0..n : h # d => new[h] = old[h]
    /\ \A h \in 0..n : new[h].parent = old[h].parent
    /\ new[d].payload = old[d].payload /\ new[d].sha = old[d].sha => new[d] = old[d]

LEMMA ValidChainIntact ==
    ASSUME NEW old, NEW new, NEW n \in Nat, NEW d \in 0..n, OneRowDiffers(old, new, n, d),
           NEW c \in 0..n, Valid(old, c), Valid(new, c)
    PROVE  \A a \in Ancestors(old)[c] : new[a] = old[a]
<1>. DEFINE Same(g) == \A a \in Ancestors(old)[g] : new[a] = old[a]
            Bad == {g \in 0..n : Valid(old, g) /\ Valid(new, g) /\ ~Same(g)}
<1>. SUFFICES ASSUME Bad # {}  PROVE FALSE
    OBVIOUS
<1>. USE DEF OneRowDiffers
<1>1. \A g \in 0..n : Ancestors(old)[g] =
          IF old[g].parent = None THEN {} ELSE {old[g].parent} \cup Ancestors(old)[old[g].parent]
    BY AncestorsOf DEF OlderParents
<1>. HIDE DEF Ancestors
<1>2. PICK m \in Bad : \A v \in Bad : m <= v
    <2>1. Bad \in SUBSET Nat
        OBVIOUS
    <2>. HIDE DEF Bad
    <2>. QED
        BY <2>1, SmallestNumber
<1>3. m \in 0..n /\ m \in Nat /\ Valid(old, m) /\ Valid(new, m) /\ ~Same(m)
    OBVIOUS
<1>. DEFINE b == old[m].parent
<1>4. b # None
    BY <1>1, <1>3
<1>5. /\ b \in 0..(m - 1) /\ Valid(old, b) /\ old[m].parent_sha = old[b].sha
      /\ new[m].parent = b /\ Valid(new, b) /\ new[m].parent_sha = new[b].sha
    BY <1>3, <1>4, ParentValid
<1>6. b \in 0..n /\ b \in Nat /\ b # m /\ ~(m <= b)
    BY <1>3, <1>5
<1>7. Same(b)
    <2>1. b \notin Bad
        <3>. HIDE DEF b, Bad
        <3>. QED
            BY <1>2, <1>6
    <2>. QED
        BY <1>5, <1>6, <2>1
<1>8. new[b] = old[b]
    <2>1. CASE b # d
        BY <1>6, <2>1
    <2>2. CASE b = d
        <3>1. new[m] = old[m]
            BY <1>3, <1>6, <2>2
        <3>2. new[b].sha = old[b].sha
            BY <1>5, <3>1
        <3>3. new[b].sha = Digest(new[b].payload) /\ old[b].sha = Digest(old[b].payload)
            <4>. HIDE DEF b
            <4>. QED
                BY <1>5, ValidNotGarbage
        <3>4. new[b].payload = old[b].payload
            <4>. HIDE DEF b
            <4>. QED
                BY <3>2, <3>3, DigestInjective
        <3>. QED
            BY <2>2, <3>2, <3>4
    <2>. QED
        BY <2>1, <2>2
<1>9. Same(m)
    <2>1. Ancestors(old)[m] = {b} \cup Ancestors(old)[b]
        BY <1>1, <1>3, <1>4
    <2>. QED
        BY <1>7, <1>8, <2>1
<1>. QED
    BY <1>3, <1>9

\* No step hides damage from the generations that descend from it.
ParentsInv == TypeOK /\ OlderParents(rows, tip)

LEMMA DamageShows ==
    ASSUME ParentsInv, [Next]_vars,
           NEW c \in 0..tip, Valid(rows, c), Valid(rows', c)
    PROVE  \A a \in Ancestors(rows)[c] : rows'[a] = rows[a]
<1>. USE DEF storeVars, procVars, faultVars
<1>1. tip \in Nat /\ c \in 0..tip /\ rows \in [0..tip -> Row] /\ OlderParents(rows, tip)
    BY DEF ParentsInv, TypeOK, None
<1>2. CASE \A h \in 0..tip : rows'[h] = rows[h]
    <2>1. OneRowDiffers(rows, rows', tip, 0)
        BY <1>1, <1>2 DEF OneRowDiffers
    <2>. QED
        BY <1>1, <2>1, ValidChainIntact
<1>3. ASSUME NEW g \in 0..tip, Damage(g)
      PROVE  \A a \in Ancestors(rows)[c] : rows'[a] = rows[a]
    <2>1. OneRowDiffers(rows, rows', tip, g)
        BY <1>1, <1>3, DamagedRow DEF OneRowDiffers, ParentsInv
    <2>. QED
        BY <1>1, <2>1, ValidChainIntact
<1>4. ASSUME NEW row, Insert(row)
      PROVE  \A h \in 0..tip : rows'[h] = rows[h]
    BY <1>1, <1>4 DEF Insert
<1>5. \/ UNCHANGED rows
      \/ \E p \in Procs : \/ \E u \in Updates : Insert(CasRow(p, u))
                          \/ \E v \in 0..(tip - 1) : Insert(RecoveryRow(v))
      \/ \E g \in 0..tip : Damage(g)
    BY DEF Next, vars, Cycle, Recovery, LoadCurrent, CompareAndSwapFails, CompareAndSwapNoop,
           ObserveTip, RecoverFails, WriteSummary, Crash, CompareAndSwap, RecoverToPreviousValid
<1>. QED
    BY <1>2, <1>3, <1>4, <1>5

(* _validate_row checks the whole parent chain, so in-place damage to a    *)
(* row, a rewrite with a matching digest included, invalidates every       *)
(* generation that descends from it.                                       *)
THEOREM DamageIsNoticed == Spec => DamageShowsInDescendants
<1>1. Init => OlderParents(rows, tip)
    BY DEF Init, OlderParents, None
<1>2. ParentsInv /\ [Next]_vars => ParentsInv'
    <2>. SUFFICES ASSUME ParentsInv, [Next]_vars  PROVE ParentsInv'
        OBVIOUS
    <2>1. TypeOK' /\ OlderParents(rows', tip')
        BY TypeStep, ParentsStep DEF ParentsInv
    <2>. QED
        BY <2>1 DEF ParentsInv, OlderParents
<1>3. Spec => []ParentsInv
    <2>1. Init /\ TypeOK => ParentsInv
        BY <1>1 DEF ParentsInv
    <2>. QED
        BY <1>2, <2>1, TypeCorrect, PTL DEF Spec
<1>4. ParentsInv /\ [Next]_vars => [\A c \in 0..tip : Valid(rows, c) /\ Valid(rows', c) =>
          \A a \in Ancestors(rows)[c] : rows'[a] = rows[a]]_vars
    BY DamageShows
<1>. QED
    BY <1>3, <1>4, PTL DEF Spec, DamageShowsInDescendants

-----------------------------------------------------------------------------
(* Attempts, results and decisions.                                        *)

USE DEF registry, history

-----------------------------------------------------------------------------
(* Lemmas about the updates of a task.                                     *)

\* An attempt that is begun makes a well-typed task out of a well-typed one.
LEMMA BegunIsTask ==
    ASSUME AttemptsTypeOK, NEW w \in Workers, NEW l \in Leases, NEW src \in Sources
    PROVE  /\ NextAttempt(w, l, src) \in Attempt
           /\ Superseded(task) \in Seq(AttemptRecord)
           /\ Len(Superseded(task)) = Len(task.history)
<1>1. task \in Task /\ task.history \in Seq(AttemptRecord) /\ task.spec \in Specs /\ task.fence \in Nat
  BY DEF AttemptsTypeOK, Task
<1>2. NextAttempt(w, l, src) \in Attempt
  BY <1>1 DEF NextAttempt, Attempt
<1>3. \A k \in DOMAIN task.history : Superseded(task)[k] \in AttemptRecord
  <2> TAKE k \in DOMAIN task.history
  <2>1. task.history[k] \in AttemptRecord
    BY <1>1
  <2>2. [task.history[k] EXCEPT !.status = "SUPERSEDED"] \in AttemptRecord
    BY <2>1 DEF AttemptRecord
  <2> QED
    BY <2>1, <2>2 DEF Superseded
<1>4. DOMAIN Superseded(task) = 1..Len(task.history)
  BY <1>1 DEF Superseded
<1>5. Superseded(task) \in [1..Len(task.history) -> AttemptRecord]
  BY <1>1, <1>3, <1>4 DEF Superseded
<1> QED
  BY <1>1, <1>2, <1>4, <1>5

\* Storing a result in a record of the history keeps the task well typed.
LEMMA IngestedIsTask ==
    ASSUME AttemptsTypeOK, NEW k \in DOMAIN task.history, NEW e \in Evidence
    PROVE  LET t == [task EXCEPT !.history[k].status = "INGESTED", !.history[k].result = e]
           IN  /\ t \in Task
               /\ t.history = [task.history EXCEPT ![k] =
                                  [@ EXCEPT !.status = "INGESTED", !.result = e]]
               /\ Len(t.history) = Len(task.history)
               /\ t.spec = task.spec /\ t.status = task.status /\ t.fence = task.fence
               /\ t.active = task.active /\ t.verification = task.verification
<1> DEFINE t == [task EXCEPT !.history[k].status = "INGESTED", !.history[k].result = e]
           r == [task.history[k] EXCEPT !.status = "INGESTED", !.result = e]
           h == [task.history EXCEPT ![k] = r]
<1>1. task \in Task /\ task.history \in Seq(AttemptRecord)
  BY DEF AttemptsTypeOK, Task
<1>2. task.history[k] \in AttemptRecord
  BY <1>1
<1>3. r \in AttemptRecord
  BY <1>2 DEF AttemptRecord
<1>4. h \in Seq(AttemptRecord) /\ Len(h) = Len(task.history)
  BY <1>1, <1>3
<1>5. t = [task EXCEPT !.history = h]
  BY <1>1 DEF Task
<1>6. t.history = h /\ t \in Task
  BY <1>1, <1>4, <1>5 DEF Task
<1> QED
  BY <1>1, <1>4, <1>5, <1>6 DEF Task

\* Merging a task into a mission definition keeps it well typed.
LEMMA MergedIsTask ==
    ASSUME NEW old \in Task, NEW s \in Specs, Len(old.history) <= MaxAttempts
    PROVE  Merge(old, s) \in Task /\ Len(Merge(old, s).history) <= MaxAttempts
  BY BoundsAssumption DEF Merge, Fresh, Task

-----------------------------------------------------------------------------
(* Types.                                                                  *)

\* Committing a well-typed task keeps every durable state well typed, and
\* within the attempt limit.
Bounded == \A i \in DOMAIN past : Len(past[i].history) <= MaxAttempts

LEMMA CommitType ==
    ASSUME AttemptsTypeOK, Bounded, NEW t \in Task, Len(t.history) <= MaxAttempts, Commit(t)
    PROVE  /\ task' \in Task
           /\ Len(task'.history) <= MaxAttempts
           /\ past' \in Seq(Task)
           /\ Bounded'
  BY DEF AttemptsTypeOK, Commit, Bounded

\* The types, and the bound of every durable state, are inductive.
LEMMA AttemptsTypeStep ==
    ASSUME AttemptsTypeOK, Bounded, [AttemptsNext]_attemptsVars
    PROVE  AttemptsTypeOK' /\ Bounded'
<1>1. ASSUME NEW w \in Workers, NEW l \in Leases, NEW src \in Sources, BeginAttempt(w, l, src)
      PROVE  AttemptsTypeOK' /\ Bounded'
  <2> DEFINE a == NextAttempt(w, l, src)
             r == [id |-> a, status |-> "ISSUED", result |-> NoResult]
             t == [task EXCEPT !.status = "RUNNING", !.fence = a.fence, !.active = a,
                               !.history = Append(Superseded(task), r)]
  <2>1. a \in Attempt /\ Superseded(task) \in Seq(AttemptRecord) /\ Len(Superseded(task)) = Len(task.history)
    BY BegunIsTask
  <2>2. a.fence \in Nat
    BY <2>1 DEF Attempt
  <2>3. r \in AttemptRecord
    BY <2>1 DEF AttemptRecord
  <2>4. Append(Superseded(task), r) \in Seq(AttemptRecord)
        /\ Len(Append(Superseded(task), r)) = Len(task.history) + 1
    BY <2>1, <2>3
  <2>5. t \in Task /\ Len(t.history) = Len(task.history) + 1
    BY <2>1, <2>2, <2>4 DEF AttemptsTypeOK, Task
  <2>6. Len(t.history) <= MaxAttempts
    <3>1. Len(task.history) \in Nat
      BY DEF AttemptsTypeOK, Task
    <3> QED
      BY <1>1, <2>5, <3>1, BoundsAssumption DEF BeginAttempt, HasRoom
  <2>7. Commit(t) /\ issued' = issued \cup {a} /\ newest' = a
    BY <1>1 DEF BeginAttempt
  <2>8. task' \in Task /\ Len(task'.history) <= MaxAttempts /\ past' \in Seq(Task) /\ Bounded'
    BY <2>5, <2>6, <2>7, CommitType
  <2> QED
    BY <1>1, <2>1, <2>7, <2>8 DEF BeginAttempt, AttemptsTypeOK
<1>2. ASSUME NEW a \in issued, NEW e \in Evidence, AcceptResult(a, e)
      PROVE  AttemptsTypeOK' /\ Bounded'
  <2>1. PICK k \in DOMAIN task.history :
           Commit([task EXCEPT !.history[k].status = "INGESTED", !.history[k].result = e])
    BY <1>2 DEF AcceptResult
  <2> DEFINE t == [task EXCEPT !.history[k].status = "INGESTED", !.history[k].result = e]
  <2>2. t \in Task /\ Len(t.history) = Len(task.history)
    BY IngestedIsTask
  <2>3. task' \in Task /\ Len(task'.history) <= MaxAttempts /\ past' \in Seq(Task) /\ Bounded'
    BY <2>1, <2>2, CommitType DEF AttemptsTypeOK
  <2> QED
    BY <1>2, <2>3 DEF AcceptResult, AttemptsTypeOK
<1>3. ASSUME NEW w \in Workers, NEW e \in Evidence, NEW pass \in BOOLEAN, BuildManifest(w, e, pass)
      PROVE  AttemptsTypeOK' /\ Bounded'
  <2> DEFINE m == [attempt |-> task.active, result |-> e,
                   producer_domain |-> domain[task.active.worker],
                   mission_revision |-> mission_revision,
                   verifier |-> w, verifier_domain |-> domain[w], pass |-> pass]
  <2>1. task.active \in Attempt
    BY <1>3 DEF BuildManifest, AttemptsTypeOK, Task
  <2>2. m \in Manifest
    BY <2>1 DEF AttemptsTypeOK, Manifest, Attempt
  <2> QED
    BY <1>3, <2>2 DEF BuildManifest, AttemptsTypeOK, Bounded
<1>4. ASSUME NEW m \in manifests, AcceptVerification(m)
      PROVE  AttemptsTypeOK' /\ Bounded'
  <2> DEFINE t == [task EXCEPT !.verification = m, !.status = IF m.pass THEN "DONE" ELSE "BLOCKED"]
  <2>1. t \in Task /\ t.history = task.history
    BY DEF AttemptsTypeOK, Task
  <2>2. Commit(t)
    BY <1>4 DEF AcceptVerification
  <2>3. task' \in Task /\ Len(task'.history) <= MaxAttempts /\ past' \in Seq(Task) /\ Bounded'
    BY <2>1, <2>2, CommitType DEF AttemptsTypeOK
  <2> QED
    BY <1>4, <2>3 DEF AcceptVerification, AttemptsTypeOK
<1>5. ASSUME NEW s \in Specs, ReviseMission(s)
      PROVE  AttemptsTypeOK' /\ Bounded'
  <2>1. task' \in Task /\ Len(task'.history) <= MaxAttempts /\ past' \in Seq(Task) /\ Bounded'
    BY <1>5, MergedIsTask, CommitType DEF ReviseMission, AttemptsTypeOK
  <2> QED
    BY <1>5, <2>1, BoundsAssumption DEF ReviseMission, Revision, AttemptsTypeOK
<1>6. ASSUME NEW w \in Workers, ReviseRegistry(w)
      PROVE  AttemptsTypeOK' /\ Bounded'
  BY <1>6, BoundsAssumption DEF ReviseRegistry, Revision, AttemptsTypeOK, Bounded
<1>7. ASSUME NEW i \in DOMAIN past, Recover(i)
      PROVE  AttemptsTypeOK' /\ Bounded'
  <2>1. past \in Seq(Task) /\ i \in 1..Len(past) /\ past[i] \in Task /\ task.spec \in Specs
    <3>1. past \in Seq(Task) /\ task \in Task
      BY DEF AttemptsTypeOK
    <3>2. task.spec \in Specs
      BY <3>1 DEF Task
    <3>3. i \in 1..Len(past) /\ past[i] \in Task
      BY <3>1
    <3> QED
      BY <3>1, <3>2, <3>3
  <2>2. task' \in Task /\ Len(task'.history) <= MaxAttempts
    BY <1>7, <2>1, MergedIsTask DEF Recover, Bounded
  <2>3. past' \in Seq(Task) /\ \A j \in DOMAIN past' : j \in DOMAIN past /\ past'[j] = past[j]
    BY <1>7, <2>1 DEF Recover
  <2>4. Bounded'
    BY <2>3 DEF Bounded
  <2> QED
    BY <1>7, <2>2, <2>3, <2>4, BoundsAssumption DEF Recover, AttemptsTypeOK
<1>8. CASE UNCHANGED attemptsVars
  BY <1>8 DEF attemptsVars, AttemptsTypeOK, Bounded
<1> QED
  BY <1>1, <1>2, <1>3, <1>4, <1>5, <1>6, <1>7, <1>8 DEF AttemptsNext

\* The task is well typed and within MAX_TASK_ATTEMPTS, whatever is begun,
\* accepted, revised or recovered.
THEOREM AttemptsTypeCorrect == AttemptsSpec => [](AttemptsTypeOK /\ Bounded)
<1>1. AttemptsInit => AttemptsTypeOK /\ Bounded
  BY BoundsAssumption DEF AttemptsInit, AttemptsTypeOK, Bounded, Fresh, Task
<1>2. AttemptsTypeOK /\ Bounded /\ [AttemptsNext]_attemptsVars => AttemptsTypeOK' /\ Bounded'
  BY AttemptsTypeStep
<1> QED
  BY <1>1, <1>2, PTL DEF AttemptsSpec

-----------------------------------------------------------------------------
(* Completion.                                                             *)

\* What CompletionIsProven says of the task, for any durable state, together
\* with what makes it inductive: an ingested record is an accepted result.
Proven(t) ==
    /\ \A k \in DOMAIN t.history : t.history[k].status = "INGESTED" =>
          [attempt |-> t.history[k].id, result |-> t.history[k].result] \in accepted
    /\ t.status = "DONE" =>
          LET m == t.verification
          IN  /\ m # NoManifest
              /\ m.pass
              /\ m.attempt = t.active
              /\ m.attempt.spec = t.spec
              /\ [attempt |-> m.attempt, result |-> m.result] \in accepted
              /\ m.verifier # m.attempt.worker
              /\ t.spec \in CrossDomain => m.verifier_domain # m.producer_domain

ProvenInv ==
    /\ AttemptsTypeOK
    /\ Bounded
    /\ Proven(task)
    /\ \A i \in DOMAIN past : Proven(past[i])

\* A commit keeps the durable states proven.
LEMMA CommitProven ==
    ASSUME ProvenInv, past' = Append(past, task), accepted \subseteq accepted'
    PROVE  \A i \in DOMAIN past' : Proven(past[i])'
<1>1. past \in Seq(Task)
  BY DEF ProvenInv, AttemptsTypeOK
<1> TAKE i \in DOMAIN past'
<1>2. past'[i] = task \/ (i \in DOMAIN past /\ past'[i] = past[i])
  BY <1>1
<1>3. CASE past'[i] = task
  BY <1>3 DEF ProvenInv, Proven
<1>4. CASE i \in DOMAIN past /\ past'[i] = past[i]
  BY <1>4 DEF ProvenInv, Proven
<1> QED
  BY <1>2, <1>3, <1>4

\* A task merged into a mission definition is proven if it was.
LEMMA MergedProven ==
    ASSUME NEW old, NEW s, Proven(old)
    PROVE  Proven(Merge(old, s))
  BY DEF Proven, Merge, Fresh

LEMMA ProvenStep ==
    ASSUME ProvenInv, [AttemptsNext]_attemptsVars
    PROVE  ProvenInv'
<1> USE DEF ProvenInv
<1>t. AttemptsTypeOK' /\ Bounded'
  BY AttemptsTypeStep
<1>c. \A i \in DOMAIN past : Proven(past[i])
  BY DEF ProvenInv
<1>1. ASSUME NEW w \in Workers, NEW l \in Leases, NEW src \in Sources, BeginAttempt(w, l, src)
      PROVE  ProvenInv'
  <2> DEFINE a == NextAttempt(w, l, src)
             r == [id |-> a, status |-> "ISSUED", result |-> NoResult]
             h == Append(Superseded(task), r)
  <2>1. /\ task' = [task EXCEPT !.status = "RUNNING", !.fence = a.fence, !.active = a, !.history = h]
        /\ past' = Append(past, task)
        /\ accepted' = accepted
    BY <1>1 DEF BeginAttempt, Commit
  <2>2. Superseded(task) \in Seq(AttemptRecord) /\ Len(Superseded(task)) = Len(task.history)
    BY BegunIsTask
  <2>3. task \in Task /\ task.history \in Seq(AttemptRecord)
    BY DEF AttemptsTypeOK, Task
  <2>4. task'.history = h /\ task'.status = "RUNNING"
    BY <2>1, <2>3 DEF Task
  <2>5. ASSUME NEW k \in DOMAIN h, h[k].status = "INGESTED"
        PROVE  [attempt |-> h[k].id, result |-> h[k].result] \in accepted
    <3>1. CASE k = Len(task.history) + 1
      <4>1. h[k] = r
        BY <3>1, <2>2
      <4> QED
        BY <4>1, <2>5
    <3>2. CASE k \in DOMAIN task.history
      <4>1. h[k] = Superseded(task)[k]
        BY <3>2, <2>2, <2>3
      <4>2. h[k] = task.history[k] \/ h[k] = [task.history[k] EXCEPT !.status = "SUPERSEDED"]
        BY <4>1, <3>2 DEF Superseded
      <4>3. task.history[k] \in AttemptRecord
        BY <3>2, <2>3
      <4>4. h[k] = task.history[k]
        BY <4>2, <4>3, <2>5 DEF AttemptRecord
      <4> QED
        BY <4>4, <3>2, <2>5 DEF Proven
    <3> QED
      BY <3>1, <3>2, <2>2, <2>3
  <2>6. Proven(task)'
    BY <2>1, <2>4, <2>5 DEF Proven
  <2> QED
    BY <2>1, <2>6, <1>t, CommitProven
<1>2. ASSUME NEW b \in issued, NEW e \in Evidence, AcceptResult(b, e)
      PROVE  ProvenInv'
  <2>1. PICK k \in DOMAIN task.history :
           /\ IsCurrent(task, k)
           /\ Commit([task EXCEPT !.history[k].status = "INGESTED", !.history[k].result = e])
    BY <1>2 DEF AcceptResult
  <2>2. b = task.history[k].id /\ accepted' = accepted \cup {[attempt |-> b, result |-> e]}
    BY <1>2, <2>1 DEF AcceptResult, ResultIsCurrent, IsCurrent
  <2> DEFINE r == [task.history[k] EXCEPT !.status = "INGESTED", !.result = e]
  <2>3. /\ task'.history = [task.history EXCEPT ![k] = r]
        /\ task'.spec = task.spec /\ task'.status = task.status
        /\ task'.active = task.active /\ task'.verification = task.verification
        /\ past' = Append(past, task)
    BY <2>1, IngestedIsTask DEF Commit
  <2>4. task.history \in Seq(AttemptRecord) /\ task.history[k] \in AttemptRecord
    BY DEF AttemptsTypeOK, Task
  <2>5. r.id = b /\ r.result = e
    BY <2>2, <2>4 DEF AttemptRecord
  <2>6. ASSUME NEW j \in DOMAIN task'.history, task'.history[j].status = "INGESTED"
        PROVE  [attempt |-> task'.history[j].id, result |-> task'.history[j].result] \in accepted'
    <3>1. CASE j = k
      BY <3>1, <2>2, <2>3, <2>4, <2>5
    <3>2. CASE j # k
      BY <3>2, <2>2, <2>3, <2>4, <2>6 DEF Proven
    <3> QED
      BY <3>1, <3>2
  <2>7. Proven(task)'
    BY <2>2, <2>3, <2>6 DEF Proven
  <2> QED
    BY <2>2, <2>3, <2>7, <1>t, CommitProven
<1>3. ASSUME NEW w \in Workers, NEW e \in Evidence, NEW pass \in BOOLEAN, BuildManifest(w, e, pass)
      PROVE  ProvenInv'
  BY <1>3, <1>t DEF BuildManifest, Proven
<1>4. ASSUME NEW m \in manifests, AcceptVerification(m)
      PROVE  ProvenInv'
  <2>1. /\ task' = [task EXCEPT !.verification = m, !.status = IF m.pass THEN "DONE" ELSE "BLOCKED"]
        /\ past' = Append(past, task)
        /\ accepted' = accepted
    BY <1>4 DEF AcceptVerification, Commit
  <2>2. task \in Task /\ m \in Manifest
    BY DEF AttemptsTypeOK
  <2>3. /\ task'.history = task.history /\ task'.spec = task.spec /\ task'.active = task.active
        /\ task'.verification = m
        /\ task'.status = "DONE" => m.pass
    BY <2>1, <2>2 DEF Task
  <2>4. PICK k \in DOMAIN task.history :
           /\ IsCurrent(task, k)
           /\ task.history[k].status = "INGESTED"
           /\ task.history[k].id = m.attempt
           /\ task.history[k].result = m.result
           /\ m.attempt.spec = task.spec
    BY <1>4 DEF AcceptVerification, ManifestValid, IsSubject
  <2>5. m.attempt = task.active /\ [attempt |-> m.attempt, result |-> m.result] \in accepted
    BY <2>4 DEF Proven, IsCurrent
  <2>6. /\ m.verifier # m.attempt.worker
        /\ task.spec \in CrossDomain => m.verifier_domain # m.producer_domain
    BY <1>4 DEF AcceptVerification, ManifestValid, Eligible
  <2>7. Proven(task)'
    BY <2>1, <2>2, <2>3, <2>4, <2>5, <2>6, ManifestAssumption DEF Proven
  <2> QED
    BY <2>1, <2>7, <1>t, CommitProven
<1>5. ASSUME NEW s \in Specs, ReviseMission(s)
      PROVE  ProvenInv'
  <2>1. task' = Merge(task, s) /\ past' = Append(past, task) /\ accepted' = accepted
    BY <1>5 DEF ReviseMission, Commit, history
  <2>2. Proven(task)'
    <3>1. Proven(Merge(task, s))
      BY MergedProven
    <3> QED
      BY <2>1, <3>1 DEF Proven
  <2> QED
    BY <2>1, <2>2, <1>t, CommitProven
<1>6. ASSUME NEW w \in Workers, ReviseRegistry(w)
      PROVE  ProvenInv'
  BY <1>6, <1>t DEF ReviseRegistry, Proven
<1>7. ASSUME NEW i \in DOMAIN past, Recover(i)
      PROVE  ProvenInv'
  <2>1. task' = Merge(past[i], task.spec) /\ past' = SubSeq(past, 1, i - 1) /\ accepted' = accepted
    BY <1>7 DEF Recover, history
  <2>2. past \in Seq(Task)
    BY DEF AttemptsTypeOK
  <2>3. \A j \in DOMAIN past' : j \in DOMAIN past /\ past'[j] = past[j]
    BY <2>1, <2>2
  <2>4. Proven(task)'
    <3>1. Proven(Merge(past[i], task.spec))
      BY <1>c, MergedProven
    <3> QED
      BY <2>1, <3>1 DEF Proven
  <2>5. \A j \in DOMAIN past' : Proven(past[j])'
    <3> TAKE j \in DOMAIN past'
    <3>1. Proven(past[j]) /\ past'[j] = past[j]
      BY <1>c, <2>3
    <3> QED
      BY <2>1, <3>1 DEF Proven
  <2> QED
    BY <2>4, <2>5, <1>t
<1>8. CASE UNCHANGED attemptsVars
  BY <1>8, <1>t DEF attemptsVars, Proven
<1> QED
  BY <1>1, <1>2, <1>3, <1>4, <1>5, <1>6, <1>7, <1>8 DEF AttemptsNext

\* A completed task carries a passing, independent manifest on the accepted
\* result of its active attempt, through every supersession, revision of the
\* mission or the registry, and recovery.
THEOREM CompletionProven == AttemptsSpec => []CompletionIsProven
<1>1. AttemptsInit => ProvenInv
  BY BoundsAssumption DEF AttemptsInit, ProvenInv, AttemptsTypeOK, Bounded, Proven, Fresh, Task
<1>2. ProvenInv /\ [AttemptsNext]_attemptsVars => ProvenInv'
  BY ProvenStep
<1>3. ProvenInv => CompletionIsProven
  BY DEF ProvenInv, Proven, CompletionIsProven
<1> QED
  BY <1>1, <1>2, <1>3, PTL DEF AttemptsSpec

-----------------------------------------------------------------------------
(* Fencing, until an earlier state of the task is recovered.               *)

\* The active attempt is the newest one; nothing issued under its lease has a
\* higher fence, so an identity is never issued twice; attempts are numbered by
\* their place; and once a result of the active attempt was accepted, its
\* record is no longer ISSUED.
FenceInv ==
    /\ AttemptsTypeOK
    /\ Bounded
    /\ task.active \in {NoAttempt, newest}
    /\ \A k \in DOMAIN task.history : task.history[k].id.number = k
    /\ \A x \in accepted : x.attempt \in issued
    /\ task.active # NoAttempt =>
          \A b \in issued : b.lease = task.active.lease => b.fence <= task.fence
    /\ \A x \in accepted : \A k \in DOMAIN task.history :
          x.attempt = task.active /\ IsCurrent(task, k) => task.history[k].status = "INGESTED"
    /\ \A x, y \in accepted : x.attempt = y.attempt => x.result = y.result

\* The identity of an attempt about to be begun is new.
LEMMA NewIdentity ==
    ASSUME FenceInv, NEW w \in Workers, NEW l \in Leases, NEW src \in Sources, Leasable(l)
    PROVE  /\ NextAttempt(w, l, src) \notin issued
           /\ \A b \in issued : b.lease = l => b.fence <= task.fence
<1>1. task \in Task /\ issued \subseteq Attempt /\ task.fence \in Nat
  BY DEF FenceInv, AttemptsTypeOK, Task
<1>2. \A b \in issued : b.lease = l => b.fence <= task.fence
  BY DEF FenceInv, Leasable
<1>3. NextAttempt(w, l, src).lease = l /\ NextAttempt(w, l, src).fence = task.fence + 1
  BY DEF NextAttempt
<1>4. ~(task.fence + 1 <= task.fence)
  BY <1>1
<1> QED
  BY <1>2, <1>3, <1>4

LEMMA FenceStep ==
    ASSUME FenceInv, [AttemptsNext]_attemptsVars, \A i \in DOMAIN past : ~Recover(i)
    PROVE  FenceInv' /\ \A x \in accepted' \ accepted : x.attempt = newest
<1>t. AttemptsTypeOK' /\ Bounded'
  BY AttemptsTypeStep DEF FenceInv
<1>h. task \in Task /\ task.history \in Seq(AttemptRecord)
  BY DEF FenceInv, AttemptsTypeOK, Task
<1> DEFINE Goal == FenceInv' /\ \A x \in accepted' \ accepted : x.attempt = newest
<1>1. ASSUME NEW w \in Workers, NEW l \in Leases, NEW src \in Sources, BeginAttempt(w, l, src)
      PROVE  Goal
  <2> DEFINE a == NextAttempt(w, l, src)
             r == [id |-> a, status |-> "ISSUED", result |-> NoResult]
             h == Append(Superseded(task), r)
  <2>1. /\ task' = [task EXCEPT !.status = "RUNNING", !.fence = a.fence, !.active = a, !.history = h]
        /\ issued' = issued \cup {a} /\ newest' = a /\ accepted' = accepted
    BY <1>1 DEF BeginAttempt, Commit
  <2>2. task'.history = h /\ task'.active = a /\ task'.fence = a.fence
    BY <2>1, <1>h DEF Task
  <2>3. /\ a \in Attempt /\ a.number = Len(task.history) + 1
        /\ a.fence = task.fence + 1 /\ a.lease = l /\ task.fence \in Nat
    BY BegunIsTask, <1>h DEF FenceInv, NextAttempt, Task
  <2>4. a \notin issued /\ \A b \in issued : b.lease = l => b.fence <= task.fence
    BY <1>1, NewIdentity DEF BeginAttempt
  <2>5. \A k \in DOMAIN h : h[k].id.number = k
    <3>1. Superseded(task) \in Seq(AttemptRecord) /\ Len(Superseded(task)) = Len(task.history)
      BY BegunIsTask DEF FenceInv
    <3> TAKE k \in DOMAIN h
    <3>2. CASE k = Len(task.history) + 1
      <4>1. h[k] = r
        BY <3>1, <3>2
      <4> QED
        BY <4>1, <3>2, <2>3
    <3>3. CASE k \in DOMAIN task.history
      <4>1. h[k] = Superseded(task)[k]
        BY <3>1, <3>3, <1>h
      <4>2. task.history[k] \in AttemptRecord /\ task.history[k].id.number = k
        BY <3>3, <1>h DEF FenceInv
      <4>3. h[k].id = task.history[k].id
        BY <4>1, <4>2, <3>3 DEF Superseded, AttemptRecord
      <4> QED
        BY <4>2, <4>3
    <3> QED
      BY <3>1, <3>2, <3>3, <1>h
  <2>6. \A b \in issued' : b.lease = task'.active.lease => b.fence <= task'.fence
    <3> TAKE b \in issued'
    <3>1. CASE b = a
      BY <3>1, <2>2, <2>3
    <3>2. CASE b \in issued
      <4>1. b.fence \in Nat
        BY <3>2 DEF FenceInv, AttemptsTypeOK, Attempt
      <4> QED
        BY <3>2, <4>1, <2>2, <2>3, <2>4
    <3> QED
      BY <3>1, <3>2, <2>1
  <2>7. \A x \in accepted' : x.attempt \in issued /\ x.attempt # task'.active
    BY <2>1, <2>2, <2>4 DEF FenceInv
  <2>8. \A x, y \in accepted' : x.attempt = y.attempt => x.result = y.result
    BY <2>1 DEF FenceInv
  <2> QED
    BY <1>t, <2>1, <2>2, <2>5, <2>6, <2>7, <2>8 DEF FenceInv
<1>2. ASSUME NEW b \in issued, NEW e \in Evidence, AcceptResult(b, e)
      PROVE  Goal
  <2>1. PICK k \in DOMAIN task.history :
           /\ IsCurrent(task, k)
           /\ task.history[k].status = "ISSUED"
           /\ Commit([task EXCEPT !.history[k].status = "INGESTED", !.history[k].result = e])
    BY <1>2 DEF AcceptResult, Ingestible
  <2>2. /\ b = task.active /\ task.active # NoAttempt
        /\ accepted' = accepted \cup {[attempt |-> b, result |-> e]}
        /\ issued' = issued /\ newest' = newest
    BY <1>2 DEF AcceptResult, ResultIsCurrent
  <2> DEFINE r == [task.history[k] EXCEPT !.status = "INGESTED", !.result = e]
  <2>3. /\ task'.history = [task.history EXCEPT ![k] = r]
        /\ task'.fence = task.fence /\ task'.active = task.active
    BY <2>1, IngestedIsTask DEF Commit, FenceInv
  <2>4. task.history[k] \in AttemptRecord
    BY <1>h
  <2>5. r.id = task.history[k].id /\ r.status = "INGESTED"
    BY <2>4 DEF AttemptRecord
  <2>6. \A j \in DOMAIN task'.history : task'.history[j].id = task.history[j].id
    BY <2>3, <2>5, <1>h
  <2>7. \A j \in DOMAIN task'.history : task'.history[j].id.number = j
    BY <2>3, <2>6 DEF FenceInv
  <2>8. \A j \in DOMAIN task'.history :
           task'.history[j].id = task'.active => task'.history[j].status = "INGESTED"
    <3> TAKE j \in DOMAIN task'.history
    <3> HAVE task'.history[j].id = task'.active
    <3>1. j \in DOMAIN task.history /\ k \in DOMAIN task.history
          /\ task.history[j].id = task.history[k].id
      BY <2>1, <2>3, <2>6 DEF IsCurrent
    <3>2. j = k
      BY <3>1 DEF FenceInv
    <3> QED
      BY <3>1, <3>2, <2>3, <2>5
  <2>9. \A x \in accepted : x.attempt # b
    BY <2>1, <2>2 DEF FenceInv
  <2>10. \A x, y \in accepted' : x.attempt = y.attempt => x.result = y.result
    BY <2>2, <2>9 DEF FenceInv
  <2> QED
    BY <1>t, <2>2, <2>3, <2>7, <2>8, <2>10 DEF FenceInv, IsCurrent
<1>3. ASSUME NEW w \in Workers, NEW e \in Evidence, NEW pass \in BOOLEAN, BuildManifest(w, e, pass)
      PROVE  Goal
  BY <1>3, <1>t DEF BuildManifest, FenceInv, IsCurrent
<1>4. ASSUME NEW m \in manifests, AcceptVerification(m)
      PROVE  Goal
  <2>1. /\ task' = [task EXCEPT !.verification = m, !.status = IF m.pass THEN "DONE" ELSE "BLOCKED"]
        /\ accepted' = accepted /\ issued' = issued /\ newest' = newest
    BY <1>4 DEF AcceptVerification, Commit
  <2>2. task'.history = task.history /\ task'.fence = task.fence /\ task'.active = task.active
    BY <2>1, <1>h DEF Task
  <2> QED
    BY <1>t, <2>1, <2>2 DEF FenceInv, IsCurrent
<1>5. ASSUME NEW s \in Specs, ReviseMission(s)
      PROVE  Goal
  <2>1. /\ task' = Merge(task, s)
        /\ accepted' = accepted /\ issued' = issued /\ newest' = newest
    BY <1>5 DEF ReviseMission, Commit
  <2>2. CASE task' = task
    BY <1>t, <2>1, <2>2 DEF FenceInv, IsCurrent
  <2>3. CASE task' = Fresh(s)
    <3>1. task'.history = <<>> /\ task'.active = NoAttempt
      BY <2>3 DEF Fresh
    <3> QED
      BY <1>t, <2>1, <3>1 DEF FenceInv
  <2> QED
    BY <2>1, <2>2, <2>3 DEF Merge
<1>6. ASSUME NEW w \in Workers, ReviseRegistry(w)
      PROVE  Goal
  BY <1>6, <1>t DEF ReviseRegistry, FenceInv, IsCurrent
<1>7. CASE UNCHANGED attemptsVars
  BY <1>7, <1>t DEF attemptsVars, FenceInv, IsCurrent
<1> QED
  BY <1>1, <1>2, <1>3, <1>4, <1>5, <1>6, <1>7 DEF AttemptsNext

\* FenceInv holds until the first recovery.
UntilRecovery == AttemptsTypeOK /\ Bounded /\ (recoveries = 0 => FenceInv)

LEMMA UntilInit == AttemptsInit => UntilRecovery
  BY BoundsAssumption
  DEF AttemptsInit, UntilRecovery, FenceInv, AttemptsTypeOK, Bounded, Fresh, Task

LEMMA UntilStep ==
    ASSUME UntilRecovery, [AttemptsNext]_attemptsVars
    PROVE  /\ UntilRecovery'
           /\ recoveries = 0 => \A x \in accepted' \ accepted : x.attempt = newest
<1>1. AttemptsTypeOK' /\ Bounded'
  BY AttemptsTypeStep DEF UntilRecovery
<1>2. CASE \E i \in DOMAIN past : Recover(i)
  <2>1. recoveries \in Nat /\ recoveries' = recoveries + 1 /\ accepted' = accepted
    BY <1>2, BoundsAssumption DEF Recover, UntilRecovery, AttemptsTypeOK, history
  <2>2. recoveries' # 0
    BY <2>1
  <2> QED
    BY <1>1, <2>1, <2>2 DEF UntilRecovery
<1>3. CASE ~\E i \in DOMAIN past : Recover(i)
  <2>1. recoveries' = recoveries
    BY <1>3 DEF AttemptsNext, attemptsVars, BeginAttempt, AcceptResult, BuildManifest, AcceptVerification,
                ReviseMission, ReviseRegistry
  <2>2. CASE recoveries = 0
    BY <1>1, <1>3, <2>2, FenceStep DEF UntilRecovery
  <2>3. CASE recoveries # 0
    BY <1>1, <2>1, <2>3 DEF UntilRecovery
  <2> QED
    BY <2>2, <2>3
<1> QED
  BY <1>2, <1>3

\* Until an earlier state is recovered, a result is accepted for the attempt
\* issued last only: every lower fence is stale for good.
THEOREM FencesAreFinal == AttemptsSpec => FencesHoldUntilRecovery
<1>1. UntilRecovery /\ [AttemptsNext]_attemptsVars => UntilRecovery'
  BY UntilStep
<1>2. UntilRecovery /\ [AttemptsNext]_attemptsVars =>
          [recoveries = 0 => \A x \in accepted' \ accepted : x.attempt = newest]_attemptsVars
  BY UntilStep
<1> QED
  BY <1>1, <1>2, UntilInit, PTL DEF AttemptsSpec, FencesHoldUntilRecovery

\* Until an earlier state is recovered, no attempt ever has two accepted
\* results, however often and in whatever versions they are delivered.
THEOREM ResultsAreUnique == AttemptsSpec => []OneResultPerAttempt
<1>1. UntilRecovery /\ [AttemptsNext]_attemptsVars => UntilRecovery'
  BY UntilStep
<1>2. UntilRecovery => OneResultPerAttempt
  BY DEF UntilRecovery, FenceInv, OneResultPerAttempt
<1> QED
  BY <1>1, <1>2, UntilInit, PTL DEF AttemptsSpec

-----------------------------------------------------------------------------
(* Decisions.                                                              *)

\* A step that neither recovers a state nor records a manifest keeps the decision of
\* the task or drops it.
LEMMA DecisionKept ==
    ASSUME AttemptsTypeOK, [AttemptsNext]_attemptsVars, ~\E i \in DOMAIN past : Recover(i), ~\E m \in manifests : AcceptVerification(m)
    PROVE  task'.verification \in {task.verification, NoManifest}
<1>0. task \in Task
  BY DEF AttemptsTypeOK
<1>1. ASSUME NEW w \in Workers, NEW l \in Leases, NEW src \in Sources, BeginAttempt(w, l, src)
      PROVE  task'.verification = task.verification
  <2> DEFINE a == NextAttempt(w, l, src)
             h == Append(Superseded(task), [id |-> a, status |-> "ISSUED", result |-> NoResult])
  <2>1. task' = [task EXCEPT !.status = "RUNNING", !.fence = a.fence, !.active = a, !.history = h]
    BY <1>1 DEF BeginAttempt, Commit
  <2> HIDE DEF a, h
  <2> QED  BY <1>0, <2>1 DEF Task
<1>2. ASSUME NEW a \in issued, NEW e \in Evidence, AcceptResult(a, e)
      PROVE  task'.verification = task.verification
  <2>1. PICK k \in DOMAIN task.history :
           task' = [task EXCEPT !.history[k].status = "INGESTED", !.history[k].result = e]
    BY <1>2 DEF AcceptResult, Commit
  <2> QED  BY <2>1, IngestedIsTask
<1>3. ASSUME NEW s \in Specs, ReviseMission(s)
      PROVE  task'.verification \in {task.verification, NoManifest}
  BY <1>3 DEF ReviseMission, Commit, Merge, Fresh
<1>4. CASE UNCHANGED task
  BY <1>4
<1> QED
  BY <1>1, <1>2, <1>3, <1>4 DEF AttemptsNext, attemptsVars, BuildManifest, ReviseRegistry

\* A decision is taken on the registry and the mission of the moment at which it is
\* recorded, however old the manifest is; nothing but a recovery brings back another.
THEOREM DecisionsCurrent == AttemptsSpec => DecisionsAreCurrent
<1> DEFINE Current(m) ==
        \/ recoveries' # recoveries
        \/ /\ m.mission_revision = mission_revision /\ m.verifier \in verifiers
           /\ m.verifier_domain = domain[m.verifier] /\ m.producer_domain = domain[m.attempt.worker]
<1>1. ASSUME AttemptsTypeOK, [AttemptsNext]_attemptsVars, NEW m \in manifests, m = task'.verification, m # task.verification
      PROVE  Current(m)
  <2>1. CASE \E i \in DOMAIN past : Recover(i)
    BY <2>1, BoundsAssumption DEF Recover, AttemptsTypeOK
  <2>2. CASE \E n \in manifests : AcceptVerification(n)
    <3>1. PICK n \in manifests : AcceptVerification(n)
      BY <2>2
    <3>2. task' = [task EXCEPT !.verification = n, !.status = IF n.pass THEN "DONE" ELSE "BLOCKED"]
      BY <3>1 DEF AcceptVerification, Commit
    <3>3. n = m
      BY <1>1, <3>2 DEF AttemptsTypeOK, Task
    <3> QED  BY <3>1, <3>3 DEF AcceptVerification, ManifestValid, Eligible
  <2>3. m # NoManifest
    BY <1>1, ManifestAssumption DEF AttemptsTypeOK
  <2> QED  BY <1>1, <2>1, <2>2, <2>3, DecisionKept
<1>2. AttemptsTypeOK /\ [AttemptsNext]_attemptsVars =>
        [\A m \in manifests : m = task'.verification /\ m # task.verification =>
              \/ recoveries' # recoveries
              \/ /\ m.mission_revision = mission_revision
                 /\ m.verifier \in verifiers
                 /\ m.verifier_domain = domain[m.verifier]
                 /\ m.producer_domain = domain[m.attempt.worker]]_attemptsVars
  BY <1>1
<1> QED
  BY <1>2, AttemptsTypeCorrect, PTL DEF DecisionsAreCurrent, AttemptsSpec
=============================================================================

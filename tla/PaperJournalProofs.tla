------------------------- MODULE PaperJournalProofs -------------------------
(***************************************************************************)
(* Proofs about the Paper journal, for any symbols, orders, candles,       *)
(* limits and faults.                                                      *)
(*                                                                         *)
(*   With one writer at a time the journal is an append-only log.  The     *)
(*   proof follows the life of a proposed journal: it is the journal on    *)
(*   disk with one new record, in order of time, from the moment the call  *)
(*   reads until it renames, because nobody else can be writing.           *)
(*                                                                         *)
(*   Whoever writes, every journal on disk or in memory is lawful.         *)
(*                                                                         *)
(*   With one writer at a time, exits close the position they are about,   *)
(*   and the cursor of the guard forgets no touch.                         *)
(***************************************************************************)
EXTENDS PaperJournal, FiniteTheorems, FiniteSetTheorems, TLAPS

-----------------------------------------------------------------------------
(* The journal as a log.                                                   *)

Kinds    == {"account"} \cup Trades \cup Controls
Recorded == [id : Nat, at : Int, kind : Kinds, symbol : Int, quantity : Int, candle : Int]

\* j is the journal with one more record.
Extends(j, r) ==
    /\ j = Append(journal, r)
    /\ \A i \in DOMAIN journal : journal[i].id # r.id
    /\ journal # <<>> => journal[Len(journal)].at <= r.at
    /\ r.id <= calls

Writing(a) == call[a].pc # "idle"

\* The part of the state the argument needs: a typed journal with known ids,
\* one call at a time, and what a call holds.
WriterInv ==
    /\ now \in Int
    /\ calls \in Nat
    /\ journal \in Seq(Recorded)
    /\ \A i \in DOMAIN journal : journal[i].id <= calls
    /\ call \in [Programs -> [pc : {"idle", "stage", "commit"}, updated : Seq(Recorded)]]
    /\ \A a, b \in Programs : Writing(a) /\ Writing(b) => a = b
    /\ \A a \in Programs : Writing(a) => \E r \in Recorded : Extends(call[a].updated, r)
    /\ \A a \in Programs : call[a].pc = "commit" => staged = call[a].updated \/ staged = NoFile

\* The last record of an extended sequence, and its length.
LEMMA AppendLast ==
    ASSUME NEW S, NEW s \in Seq(S), NEW e \in S
    PROVE  /\ Append(s, e) \in Seq(S)
           /\ Append(s, e) # <<>>
           /\ Len(Append(s, e)) = Len(s) + 1
           /\ Append(s, e)[Len(Append(s, e))] = e
           /\ Last(Append(s, e)) = e
           /\ DOMAIN Append(s, e) = 1..(Len(s) + 1)
           /\ \A i \in DOMAIN s : Append(s, e)[i] = s[i]
           /\ DOMAIN s = 1..Len(s)
BY DEF Last

LEMMA InitWriter == Init => WriterInv
BY DEF Init, WriterInv, NoCall, Writing, Programs

\* A call that proposes a record, whichever program makes it.
LEMMA ProposeKeepsWriter ==
    ASSUME OneWriter, WriterInv,
           NEW a \in Programs, NEW at \in Int, NEW kind \in Kinds, NEW symbol \in Int,
           NEW quantity \in Int, NEW candle \in Int,
           MayEnter(a), journal # <<>> => journal[Len(journal)].at <= at,
           Propose(a, at, kind, symbol, quantity, candle),
           UNCHANGED <<now, journal, staged>>
    PROVE  WriterInv'
<1>0. Record(calls + 1, at, kind, symbol, quantity, candle) \in Recorded
  BY DEF WriterInv, Record, Recorded
<1>1. PICK r \in Recorded : r = Record(calls + 1, at, kind, symbol, quantity, candle)
  BY <1>0
<1>2. call' = [call EXCEPT ![a] = [pc |-> "stage", updated |-> Append(journal, r)]] /\ calls' = calls + 1
  BY <1>1 DEF Propose
<1>3. \A b \in Programs : ~Writing(b)
  BY DEF MayEnter, Writing
<1>4. Append(journal, r) \in Seq(Recorded)
  BY <1>1, AppendLast DEF WriterInv
<1>5. call' \in [Programs -> [pc : {"idle", "stage", "commit"}, updated : Seq(Recorded)]]
  BY <1>2, <1>4 DEF WriterInv
<1>6. \A b \in Programs : Writing(b)' => b = a
  BY <1>2, <1>3, <1>5 DEF Writing, WriterInv
<1>7. Extends(call[a].updated, r)'
  <2>1. r.id = calls + 1 /\ r.at = at
    BY <1>1 DEF Record
  <2>2. call'[a].updated = Append(journal, r) /\ journal' = journal
    BY <1>2 DEF WriterInv
  <2> QED
    BY <1>2, <2>1, <2>2 DEF Extends, WriterInv
<1>8. \A b \in Programs : call'[b].pc # "commit"
  BY <1>2, <1>3 DEF Writing, WriterInv
<1>9. \A i \in DOMAIN journal : journal[i].id <= calls'
  <2> SUFFICES ASSUME NEW i \in DOMAIN journal PROVE journal[i].id <= calls'
    OBVIOUS
  <2>1. journal \in Seq(Recorded)
    BY DEF WriterInv
  <2>2. journal[i].id \in Nat
    <3>1. journal[i] \in Recorded
      BY <2>1
    <3> QED  BY <3>1 DEF Recorded
  <2>3. journal[i].id <= calls /\ calls \in Nat
    BY DEF WriterInv
  <2> QED
    BY <1>2, <2>2, <2>3
<1>10. \A b \in Programs : Writing(b)' => \E q \in Recorded : Extends(call[b].updated, q)'
  BY <1>6, <1>7
<1>11. now' \in Int /\ calls' \in Nat /\ journal' = journal
  BY <1>2 DEF WriterInv
<1> QED
  BY <1>5, <1>6, <1>8, <1>9, <1>10, <1>11 DEF WriterInv

\* A program that leaves its call, without a rename.
LEMMA LeaveKeepsWriter ==
    ASSUME WriterInv, NEW a \in Programs, Leave(a),
           staged' = staged \/ staged' = NoFile,
           UNCHANGED <<now, journal, calls>>
    PROVE  WriterInv'
<1>1. call' = [call EXCEPT ![a] = NoCall]
  BY DEF Leave
<1>2. call' \in [Programs -> [pc : {"idle", "stage", "commit"}, updated : Seq(Recorded)]]
  BY <1>1 DEF WriterInv, NoCall
<1>3. \A b \in Programs : Writing(b)' => b # a /\ call'[b] = call[b] /\ Writing(b)
  BY <1>1 DEF WriterInv, Writing, NoCall
<1>4. \A b \in Programs : Writing(b)' => \E r \in Recorded : Extends(call[b].updated, r)'
  BY <1>3 DEF WriterInv, Extends
<1>5. \A b \in Programs : call'[b].pc = "commit" => staged' = call'[b].updated \/ staged' = NoFile
  BY <1>3 DEF WriterInv, Writing
<1> QED
  BY <1>2, <1>3, <1>4, <1>5 DEF WriterInv, Writing, Extends

\* What a rename does: it adds the record of its call, and nobody else is writing.
LEMMA CommitAppends ==
    ASSUME WriterInv, NEW a \in Programs, Commit(a)
    PROVE  \E r \in Recorded :
              /\ Extends(journal', r)
              /\ acked' = acked \cup {r.id}
              /\ journal' \in Seq(Recorded)
              /\ \A i \in DOMAIN journal' : journal'[i].id <= calls
              /\ journal' # <<>>
              /\ journal'[Len(journal')] = r
<1>1. PICK r \in Recorded : Extends(call[a].updated, r)
  BY DEF Commit, WriterInv, Writing
<1>2. journal' = Append(journal, r)
  BY <1>1 DEF Commit, WriterInv, Extends
<1>3. acked' = acked \cup {r.id}
  BY <1>1, AppendLast DEF Commit, WriterInv, Extends
<1>4. \A i \in DOMAIN journal' : journal'[i].id <= calls
  BY <1>1, <1>2, AppendLast DEF WriterInv, Extends
<1> QED
  BY <1>1, <1>2, <1>3, <1>4, AppendLast DEF WriterInv, Extends

LEMMA CommitKeepsWriter ==
    ASSUME WriterInv, NEW a \in Programs, Commit(a)
    PROVE  WriterInv'
<1>1. \A b \in Programs : ~Writing(b)' 
  BY DEF Commit, Leave, WriterInv, Writing, NoCall
<1>2. call' \in [Programs -> [pc : {"idle", "stage", "commit"}, updated : Seq(Recorded)]]
  BY DEF Commit, Leave, WriterInv, NoCall
<1>3. journal' \in Seq(Recorded) /\ \A i \in DOMAIN journal' : journal'[i].id <= calls
  BY CommitAppends
<1>4. now' = now /\ calls' = calls
  BY DEF Commit, marketVars
<1> QED
  BY <1>1, <1>2, <1>3, <1>4 DEF WriterInv, Writing

LEMMA StageKeepsWriter ==
    ASSUME WriterInv, NEW a \in Programs, Stage(a)
    PROVE  WriterInv'
<1>1. /\ call' = [call EXCEPT ![a].pc = "commit"] /\ staged' = call[a].updated
      /\ UNCHANGED <<now, journal, calls>> /\ Writing(a)
  BY DEF Stage, marketVars, Writing
<1>2. call' \in [Programs -> [pc : {"idle", "stage", "commit"}, updated : Seq(Recorded)]]
  BY <1>1 DEF WriterInv
<1>3. \A b \in Programs : call'[b].updated = call[b].updated /\ (Writing(b)' <=> Writing(b))
  BY <1>1 DEF WriterInv, Writing
<1>4. \A b \in Programs : Writing(b)' => \E r \in Recorded : Extends(call[b].updated, r)'
  BY <1>1, <1>3 DEF WriterInv, Extends
<1>5. \A b \in Programs : call'[b].pc = "commit" => b = a
  BY <1>1, <1>3 DEF WriterInv, Writing
<1> QED
  BY <1>1, <1>2, <1>3, <1>4, <1>5 DEF WriterInv, Writing

\* Everything else leaves the journal and the calls alone.
LEMMA RestKeepsWriter ==
    ASSUME WriterInv, now' \in Int, UNCHANGED <<journal, staged, call, calls>>
    PROVE  WriterInv'
BY DEF WriterInv, Writing, Extends

\* Only a rename changes the journal or acknowledges anything.
Quiet == UNCHANGED <<journal, acked>>

LEMMA NextKeepsWriter ==
    ASSUME OneWriter, WriterInv, [Next]_vars
    PROVE  WriterInv' /\ (Quiet \/ \E a \in Programs : Commit(a))
<1>0. "account" \in Kinds /\ "exit" \in Kinds /\ NoSymbol \in Int /\ 0 \in Int /\ "guard" \in Programs /\ "desk" \in Programs
  BY DEF NoSymbol, Programs, Kinds, Trades
<1>. PICK t \in Int : t = now
  BY DEF WriterInv
<1>1. CASE Tick
  <2>1. now' \in Int /\ UNCHANGED <<journal, staged, call, calls>> /\ Quiet
    BY <1>1 DEF Tick, WriterInv, guardVars, Quiet
  <2> QED  BY <2>1, RestKeepsWriter
<1>2. ASSUME NEW order \in Orders, SubmitOrder(order)  PROVE WriterInv' /\ Quiet
  <2>0. order \in [kind : {"open", "reduce", "close", "reverse"}, symbol : Symbols, quantity : Nat \ {0}]
    BY OrdersAssumption
  <2>1. order.kind \in Kinds /\ order.symbol \in Int /\ order.quantity \in Int
    <3>1. order.kind \in {"open", "reduce", "close", "reverse"} /\ order.symbol \in Symbols
          /\ order.quantity \in Nat \ {0}
      BY <2>0
    <3>2. order.kind \in Kinds
      BY <3>1 DEF Kinds, Trades
    <3>3. order.symbol \in Int
      <4>1. \A n \in Nat : n \in Int
        BY SMT
      <4>2. order.symbol \in Nat
        BY <3>1, SizesAssumption, Zenon DEF SizesAssumption
      <4> QED  BY <4>1, <4>2, Zenon
    <3>4. order.quantity \in Int
      BY <3>1
    <3> QED  BY <3>2, <3>3, <3>4
  <2>2. MayEnter("desk") /\ (journal # <<>> => journal[Len(journal)].at <= t)
        /\ UNCHANGED <<now, journal, staged>> /\ Quiet
    BY <1>2 DEF SubmitOrder, DeskCall, InOrder, Last, marketVars, Quiet
  <2>3. Propose("desk", t, order.kind, order.symbol, order.quantity, 0)
    BY <1>2 DEF SubmitOrder
  <2> QED  BY <1>0, <2>1, <2>2, <2>3, ProposeKeepsWriter DEF WriterInv
<1>3. ASSUME NEW kind \in Controls, SetControl(kind)  PROVE WriterInv' /\ Quiet
  <2>1. MayEnter("desk") /\ (journal # <<>> => journal[Len(journal)].at <= t)
        /\ UNCHANGED <<now, journal, staged>> /\ Quiet /\ kind \in Kinds
    BY <1>3 DEF Kinds, SetControl, DeskCall, InOrder, Last, marketVars, Quiet
  <2>2. Propose("desk", t, kind, NoSymbol, 0, 0)
    BY <1>3 DEF SetControl
  <2> QED  BY <1>0, <2>1, <2>2, ProposeKeepsWriter DEF WriterInv
<1>4. ASSUME NEW a \in Programs, OpenAccount(a)  PROVE WriterInv' /\ Quiet
  <2>1. MayEnter(a) /\ journal = <<>> /\ UNCHANGED <<now, journal, staged>> /\ Quiet
    BY <1>4 DEF OpenAccount, marketVars, Quiet
  <2>2. Propose(a, t, "account", NoSymbol, 0, 0)
    BY <1>4 DEF OpenAccount
  <2> QED  BY <1>0, <2>1, <2>2, ProposeKeepsWriter DEF WriterInv
<1>5. ASSUME NEW a \in Programs, Stage(a)  PROVE WriterInv' /\ Quiet
  BY <1>5, StageKeepsWriter DEF Stage, Quiet
<1>6. ASSUME NEW a \in Programs, Commit(a)  PROVE WriterInv'
  BY <1>6, CommitKeepsWriter
<1>7. ASSUME NEW a \in Programs, Raise(a) \/ Crash(a)  PROVE WriterInv' /\ Quiet
  BY <1>7, LeaveKeepsWriter DEF Raise, Crash, marketVars, Quiet
<1>8. ASSUME NEW s \in Symbols, NEW c \in Candles, Exit(s, c)  PROVE WriterInv' /\ Quiet
  <2>1. s \in Int /\ c \in Int /\ CloseOf(c) \in Int
    BY SizesAssumption DEF Candles, CloseOf
  <2>2. MayEnter("guard") /\ (journal # <<>> => journal[Len(journal)].at <= CloseOf(c))
        /\ UNCHANGED <<now, journal, staged>> /\ Quiet
    BY <1>8 DEF Exit, MustExit, Checking, CanExit, InOrder, Last, marketVars, Quiet
  <2>3. Propose("guard", CloseOf(c), "exit", s, 0, c)
    BY <1>8 DEF Exit
  <2> QED  BY <1>0, <2>1, <2>2, <2>3, ProposeKeepsWriter
<1>9. CASE BeginCycle \/ AbandonCycle \/ EndCycle
            \/ (\E s \in Symbols, c \in Candles : Hold(s, c) \/ RefuseExit(s, c))
  <2>1. now' = now /\ UNCHANGED <<journal, staged, call, calls>> /\ Quiet
    BY <1>9 DEF BeginCycle, AbandonCycle, EndCycle, Hold, RefuseExit, marketVars, Quiet
  <2> QED  BY <2>1, RestKeepsWriter DEF WriterInv
<1>10. CASE UNCHANGED vars
  <2>1. now' = now /\ UNCHANGED <<journal, staged, call, calls>> /\ Quiet
    BY <1>10 DEF vars, marketVars, Quiet
  <2> QED  BY <2>1, RestKeepsWriter DEF WriterInv
<1> QED
  BY <1>1, <1>2, <1>3, <1>4, <1>5, <1>6, <1>7, <1>8, <1>9, <1>10 DEF Next, Write, Cycle

LEMMA WriterInvariant == ASSUME OneWriter PROVE Spec => []WriterInv
<1>1. Init => WriterInv
  BY InitWriter
<1>2. WriterInv /\ [Next]_vars => WriterInv'
  BY NextKeepsWriter
<1> QED
  BY <1>1, <1>2, PTL DEF Spec

\* A step of the two programs is a step of the log, or changes nothing of it.
LEMMA StepIsAppend ==
    ASSUME OneWriter, WriterInv, [Next]_vars
    PROVE  [Log!Next]_<<journal, acked>>
<1>1. CASE Quiet
  BY <1>1 DEF Quiet
<1>2. ASSUME NEW a \in Programs, Commit(a)  PROVE Log!Next
  <2>1. PICK r \in Recorded :
           /\ Extends(journal', r) /\ acked' = acked \cup {r.id}
           /\ journal' # <<>> /\ journal'[Len(journal')] = r
    BY <1>2, CommitAppends
  <2>2. Log!Accept(r)
    BY <2>1 DEF Log!Accept, Log!IdsOf, Extends
  <2> QED  BY <2>1, <2>2 DEF Log!Next
<1> QED
  BY <1>1, <1>2, NextKeepsWriter

\* With one writer at a time the journal is an append-only log in order of time
\* that keeps whatever was acknowledged (_write_events rewrites the whole file at
\* every call), for any orders, candles and faults.
THEOREM JournalIsLog == ASSUME OneWriter PROVE Spec => ImplementsPaperLog
<1>1. Init => Log!Init
  BY DEF Init, Log!Init
<1>2. Spec => []WriterInv
  BY WriterInvariant
<1>3. WriterInv /\ [Next]_vars => [Log!Next]_<<journal, acked>>
  BY StepIsAppend
<1> QED
  BY <1>1, <1>2, <1>3, PTL DEF Spec, ImplementsPaperLog, Log!Spec

-----------------------------------------------------------------------------
(* The replay of a journal, record by record.                              *)

Blank == [positions |-> [s \in Symbols |-> NoPosition], session |-> FALSE, killed |-> FALSE]

\* g[s] is the replay of the records of q with their places in s, for the sets of
\* places s within D.
Replays(q, D, g) ==
    g = [s \in SUBSET D |-> IF s = {} THEN Blank ELSE LET x == Max(s) IN Reduce(g[s \ {x}], q[x])]

Places(D) == D \subseteq Nat /\ IsFiniteSet(D)

LEMMA MaxIsIn == ASSUME NEW S, Places(S), S # {}  PROVE Max(S) \in S /\ S \ {Max(S)} # S
<1>1. \E m \in S : \A u \in S : u <= m
  BY LargestExists DEF Places
<1>2. \E m \in S : \A u \in S : m >= u
  BY <1>1 DEF Places
<1> QED  BY <1>2 DEF Max

\* A finite set of numbers that is not empty has a smallest element.
LEMMA MinIsIn == ASSUME NEW S \in SUBSET Nat, IsFiniteSet(S), S # {}  PROVE Min(S) \in S /\ \A u \in S : Min(S) <= u
<1> DEFINE Below(m) == {v \in S : v < m}
           Q == {Below(m) : m \in S}
<1>1. Q \subseteq SUBSET S /\ Q # {}
  OBVIOUS
<1>2. PICK T \in Q : \A U \in SUBSET T : U # T => U \notin Q
  <2> HIDE DEF Q
  <2> QED  BY <1>1, SmallestSubset
<1>3. PICK m \in S : T = Below(m)
  BY <1>2
<1>4. ASSUME NEW w \in S, w < m  PROVE FALSE
  <2>0. w \in Nat /\ m \in Nat /\ \A v \in S : v \in Nat
    OBVIOUS
  <2>1. w \in Below(m) /\ w \notin Below(w) /\ Below(w) \subseteq Below(m)
    <3>1. w \in Below(m) /\ w \notin Below(w)
      BY <1>4, <2>0
    <3>2. ASSUME NEW v \in S, v < w  PROVE v < m
      BY <1>4, <2>0, <3>2
    <3> QED  BY <3>1, <3>2
  <2>2. Below(w) \in Q
    OBVIOUS
  <2> HIDE DEF Below, Q
  <2> QED  BY <1>2, <1>3, <2>1, <2>2
<1>5. \A u \in S : m <= u
  BY <1>4
<1> QED  BY <1>5 DEF Min

\* Two such functions agree on the places where the records do.
LEMMA ReplaysAgree ==
    ASSUME NEW q, NEW p, NEW D, NEW E, NEW g, NEW h, Replays(q, D, g), Replays(p, E, h),
           Places(D), NEW S, S \subseteq D \cap E, \A i \in S : q[i] = p[i]
    PROVE  g[S] = h[S]
<1> DEFINE P == {u \in SUBSET S : g[u] = h[u]}
<1>0. Places(S)
  BY FS_Subset DEF Places
<1>1. ASSUME NEW u \in SUBSET S, \A v \in SUBSET u : v # u => v \in P  PROVE u \in P
  <2> DEFINE x == Max(u)
  <2>1. /\ g[u] = IF u = {} THEN Blank ELSE Reduce(g[u \ {x}], q[x])
        /\ h[u] = IF u = {} THEN Blank ELSE Reduce(h[u \ {x}], p[x])
    <3>1. u \in SUBSET D /\ u \in SUBSET E
      OBVIOUS
    <3> QED  BY <3>1 DEF Replays
  <2>2. u # {} => x \in u /\ u \ {x} # u
    <3>1. Places(u)
      BY <1>0, FS_Subset DEF Places
    <3> QED  BY <3>1, MaxIsIn
  <2> HIDE DEF x
  <2>3. u # {} => g[u \ {x}] = h[u \ {x}] /\ q[x] = p[x]
    <3>1. u \ {x} \in SUBSET u
      OBVIOUS
    <3> QED  BY <1>1, <2>2, <3>1
  <2> QED  BY <2>1, <2>3
<1> HIDE DEF P
<1>2. \A u \in SUBSET S : u \in P
  BY <1>0, <1>1, SubsetInduction DEF Places
<1> QED  BY <1>2 DEF P

LEMMA ReplaysExist ==
    ASSUME NEW q, NEW D, Places(D)
    PROVE  \E g : Replays(q, D, g)
<1> DEFINE P == {T \in SUBSET D : \E g : Replays(q, T, g)}
<1>1. ASSUME NEW T \in SUBSET D, \A U \in SUBSET T : U # T => U \in P  PROVE T \in P
  <2> DEFINE G(U) == CHOOSE g : Replays(q, U, g)
             val(s) == IF s = {} THEN Blank ELSE LET x == Max(s) IN Reduce(G(s \ {x})[s \ {x}], q[x])
             g == [s \in SUBSET T |-> val(s)]
  <2>1. \A U \in SUBSET T : U # T => Replays(q, U, G(U))
    BY <1>1
  <2>p. \A s \in SUBSET T : Places(s)
    BY FS_Subset DEF Places
  <2>2. ASSUME NEW s \in SUBSET T, NEW x \in s  PROVE g[s \ {x}] = G(s \ {x})[s \ {x}]
    <3> DEFINE w == s \ {x}
    <3>1. w \in SUBSET T /\ w # T
      OBVIOUS
    <3>2. Replays(q, w, G(w))
      BY <2>1, <3>1
    <3>3. G(w)[w] = IF w = {} THEN Blank ELSE LET y == Max(w) IN Reduce(G(w)[w \ {y}], q[y])
      <4> HIDE DEF G, w
      <4> QED  BY <3>2 DEF Replays
    <3>4. CASE w # {}
      <4> DEFINE y == Max(w)
      <4>0. Places(w) /\ y \in w /\ w \ {y} # w
        BY <2>p, <3>1, <3>4, MaxIsIn
      <4> HIDE DEF y
      <4>1. w \ {y} \in SUBSET T /\ w \ {y} # T
        BY <3>1, <4>0
      <4>2. Replays(q, w \ {y}, G(w \ {y}))
        BY <2>1, <4>1
      <4>3. w \ {y} \subseteq w \cap (w \ {y})
        OBVIOUS
      <4>4. G(w)[w \ {y}] = G(w \ {y})[w \ {y}]
        <5> HIDE DEF G, w
        <5> QED  BY <3>2, <4>0, <4>2, <4>3, ReplaysAgree
      <4>5. g[w] = Reduce(G(w \ {y})[w \ {y}], q[y])
        <5> HIDE DEF G
        <5> QED  BY <3>1, <3>4 DEF y
      <4> QED  BY <3>3, <3>4, <4>4, <4>5 DEF y
    <3>5. CASE w = {}
      BY <3>3, <3>5
    <3> QED  BY <3>4, <3>5
  <2>3. \A s \in SUBSET T : val(s) = IF s = {} THEN Blank ELSE LET x == Max(s) IN Reduce(g[s \ {x}], q[x])
    <3> TAKE s \in SUBSET T
    <3>1. CASE s # {}
      <4> DEFINE x == Max(s)
      <4>1. x \in s
        BY <3>1, <2>p, MaxIsIn
      <4>2. g[s \ {x}] = G(s \ {x})[s \ {x}]
        <5> HIDE DEF G, g, x
        <5> QED  BY <2>2, <4>1
      <4> HIDE DEF G, g
      <4> QED  BY <3>1, <4>2
    <3> QED  BY <3>1
  <2>4. Replays(q, T, g)
    <3> DEFINE rhs(s) == IF s = {} THEN Blank ELSE LET x == Max(s) IN Reduce(g[s \ {x}], q[x])
    <3>1. \A s \in SUBSET T : val(s) = rhs(s)
      BY <2>3
    <3>2. [s \in SUBSET T |-> val(s)] = [s \in SUBSET T |-> rhs(s)]
      <4> HIDE DEF val, rhs
      <4> QED  BY <3>1
    <3>3. g = [s \in SUBSET T |-> rhs(s)]
      BY <3>2
    <3> HIDE DEF g
    <3> QED  BY <3>3 DEF Replays
  <2> QED  BY <2>4
<1> HIDE DEF P
<1>2. \A T \in SUBSET D : T \in P
  BY <1>1, SubsetInduction DEF Places
<1> QED  BY <1>2 DEF P, Places

\* The replay of a journal as such a function.
LEMMA ReplayIs ==
    ASSUME NEW q
    PROVE  Replay(q) = (CHOOSE g : Replays(q, DOMAIN q, g))[DOMAIN q]
BY DEF Replay, FoldLeft, MapThenFoldSet, Replays, Blank

LEMMA ReplayEmpty == Replay(<<>>) = Blank
<1> DEFINE G == CHOOSE g : Replays(<<>>, {}, g)
<1>1. DOMAIN <<>> = {}
  OBVIOUS
<1>2. Replay(<<>>) = G[{}]
  BY <1>1, ReplayIs
<1>3. Places({})
  BY FS_EmptySet DEF Places
<1>4. Replays(<<>>, {}, G)
  BY <1>3, ReplaysExist
<1> HIDE DEF G
<1> QED  BY <1>2, <1>4 DEF Replays

\* A journal is replayed by the replay of all but its last record, and then that.
LEMMA ReplayStep ==
    ASSUME NEW S, NEW j \in Seq(S), NEW r \in S
    PROVE  Replay(Append(j, r)) = Reduce(Replay(j), r)
<1> DEFINE k == Append(j, r)
           n == Len(j) + 1
           G == CHOOSE g : Replays(k, 1..n, g)
           H == CHOOSE g : Replays(j, 1..Len(j), g)
<1>1. /\ DOMAIN j = 1..Len(j) /\ DOMAIN k = 1..n /\ n \in Nat /\ Len(j) \in Nat
      /\ k[n] = r /\ \A i \in 1..Len(j) : k[i] = j[i]
  BY AppendLast
<1>2. Places(1..n) /\ Places(1..Len(j))
  BY <1>1, FS_Interval DEF Places
<1>3. Replays(k, 1..n, G) /\ Replays(j, 1..Len(j), H)
  BY <1>2, ReplaysExist
<1>4. Replay(k) = G[1..n] /\ Replay(j) = H[1..Len(j)]
  BY <1>1, ReplayIs
<1>5. Max(1..n) = n /\ (1..n) \ {n} = 1..Len(j) /\ 1..n # {}
  <2>1. n \in 1..n /\ \A y \in 1..n : n >= y
    BY <1>1
  <2>2. \A x \in 1..n : (\A y \in 1..n : x >= y) => x = n
    BY <1>1
  <2>3. Max(1..n) = n
    <3> HIDE DEF n
    <3> QED  BY <2>1, <2>2 DEF Max
  <2> QED  BY <1>1, <2>1, <2>3
<1> HIDE DEF G, H, k, n
<1>6. G[1..n] = Reduce(G[1..Len(j)], k[n])
  <2>1. 1..n \in SUBSET (1..n)
    OBVIOUS
  <2>2. G[1..n] = Reduce(G[(1..n) \ {Max(1..n)}], k[Max(1..n)])
    BY <1>3, <1>5, <2>1 DEF Replays
  <2> QED  BY <1>5, <2>2
<1>7. G[1..Len(j)] = H[1..Len(j)]
  <2>1. 1..Len(j) \subseteq (1..n) \cap (1..Len(j))
    BY <1>1 DEF n
  <2>2. \A i \in 1..Len(j) : k[i] = j[i]
    BY <1>1
  <2> DEFINE D == 1..n
             E == 1..Len(j)
  <2>3. Replays(k, D, G) /\ Replays(j, E, H) /\ Places(D) /\ E \subseteq D \cap E /\ \A i \in E : k[i] = j[i]
    BY <1>2, <1>3, <2>1, <2>2
  <2> HIDE DEF D, E
  <2>4. G[E] = H[E]
    BY <2>3, ReplaysAgree
  <2> QED  BY <2>4 DEF E
<1> QED  BY <1>1, <1>4, <1>6, <1>7 DEF k

\* The prefixes of a journal that grows by one record.
LEMMA PrefixOf ==
    ASSUME NEW S, NEW j \in Seq(S), NEW r \in S
    PROVE  /\ SubSeq(Append(j, r), 1, Len(j)) = j
           /\ SubSeq(Append(j, r), 1, Len(j) + 1) = Append(j, r)
           /\ \A i \in 0..Len(j) : SubSeq(Append(j, r), 1, i) = SubSeq(j, 1, i)
           /\ SubSeq(j, 1, Len(j)) = j
OBVIOUS

-----------------------------------------------------------------------------
(* What every journal on disk or in memory is like, whoever wrote it.      *)

States(n) ==
    [positions : [Symbols -> [id : 0..n, at : 0..MaxClock, quantity : Nat]],
     session : BOOLEAN, killed : BOOLEAN]

\* What is held is of some quantity, has an id, and was opened before the last record.
HeldWell(S, last) ==
    \A s \in Symbols : S.positions[s] # NoPosition =>
        LET p == S.positions[s] IN p.id # 0 /\ p.quantity # 0 /\ p.at <= last

\* What HistoryIsLawful says of the record at a place of j.
LawfulAt(j, i) ==
    /\ j[i].kind = "account" <=> i = 1
    /\ j[i].kind \in Trades => j[i].symbol \in Symbols /\ Tradable(Replay(SubSeq(j, 1, i - 1)))
    /\ Exposure(Replay(SubSeq(j, 1, i))) <= MaxExposure

\* A journal of n calls.
Lawful(j, n) ==
    /\ j \in Seq(RecordsOf(1..n))
    /\ Replay(j) \in States(n)
    /\ j # <<>> => HeldWell(Replay(j), Last(j).at)
    /\ \A i \in DOMAIN j : LawfulAt(j, i)

\* A trade that the risk gates accept, in the state S.
LegalTrade(S, r) ==
    LET p == S.positions[r.symbol]
    IN  /\ r.symbol \in Symbols /\ Tradable(S)
        /\ \/ /\ (r.kind = "open" /\ p = NoPosition) \/ r.kind = "reverse"
              /\ r.quantity # 0 /\ Exposure(S) + r.quantity <= MaxExposure
           \/ r.kind = "reduce" /\ Reducible(p, r.quantity)
           \/ r.kind \in {"close", "exit"}

\* A record that a call may add to j.
Legal(j, r) ==
    /\ r.kind = "account" <=> j = <<>>
    /\ InOrder(j, r.at)
    /\ r.kind \in Trades => LegalTrade(Replay(j), r)

LEMMA TypesOfReplay ==
    ASSUME NEW n \in Nat, NEW S \in States(n), NEW s \in Symbols
    PROVE  /\ S.positions[s] \in [id : 0..n, at : 0..MaxClock, quantity : Nat]
           /\ S.positions[s].id \in Nat /\ S.positions[s].at \in Nat /\ S.positions[s].quantity \in Nat
           /\ S.positions \in [Symbols -> [id : 0..n, at : 0..MaxClock, quantity : Nat]]
           /\ S.session \in BOOLEAN /\ S.killed \in BOOLEAN
<1>1. S.positions[s] \in [id : 0..n, at : 0..MaxClock, quantity : Nat]
  BY DEF States
<1>2. \A x \in 0..n : x \in Nat
  OBVIOUS
<1>3. \A x \in 0..MaxClock : x \in Nat
  BY BoundsAssumption
<1> QED  BY <1>1, <1>2, <1>3 DEF States

LEMMA RecordTypes ==
    ASSUME NEW n \in Nat, NEW r \in RecordsOf(1..n)
    PROVE  /\ r.id \in 1..n /\ r.id \in Nat /\ r.id # 0
           /\ r.at \in 0..MaxClock /\ r.at \in Nat
           /\ r.kind \in {"account"} \cup Trades \cup Controls
           /\ r.quantity \in Nat /\ r.candle \in Candles
<1>1. r.id \in 1..n /\ r.at \in 0..MaxClock
  BY DEF RecordsOf
<1>2. r.kind \in {"account"} \cup Trades \cup Controls /\ r.quantity \in Nat /\ r.candle \in Candles
  BY DEF RecordsOf
<1>3. \A x \in 1..n : x \in Nat /\ x # 0
  OBVIOUS
<1>4. \A x \in 0..MaxClock : x \in Nat
  BY BoundsAssumption
<1> QED  BY <1>1, <1>2, <1>3, <1>4

\* The position of a symbol after a legal record.
LEMMA PositionStep ==
    ASSUME NEW n \in Nat, NEW S \in States(n), NEW r \in RecordsOf(1..n),
           r.kind \in Trades => LegalTrade(S, r)
    PROVE  /\ Reduce(S, r) \in States(n)
           /\ \A s \in Symbols :
                 LET p == S.positions[s]
                     e == Reduce(S, r).positions[s]
                 IN  \/ e = p
                     \/ /\ s = r.symbol /\ r.kind \in Trades
                        /\ \/ e = NoPosition
                           \/ e.id = r.id /\ e.at = r.at /\ e.quantity = r.quantity /\ e.quantity # 0
                           \/ e.id = p.id /\ e.at = p.at /\ e.quantity # 0 /\ p # NoPosition /\ e.quantity <= p.quantity
<1> DEFINE T == Reduce(S, r)
           PositionType == [id : 0..n, at : 0..MaxClock, quantity : Nat]
<1>0. /\ r.id \in 0..n /\ r.at \in 0..MaxClock /\ r.quantity \in Nat /\ NoPosition \in PositionType
  <2>1. 0 \in 0..MaxClock /\ \A x \in 1..n : x \in 0..n
    BY BoundsAssumption
  <2> QED  BY <2>1, RecordTypes DEF NoPosition
<1>1. T.session \in BOOLEAN /\ T.killed \in BOOLEAN
  BY DEF Reduce, States
<1>2. CASE r.kind \notin Trades
  <2>1. T.positions = S.positions
    BY <1>2 DEF Reduce
  <2> QED  BY <1>1, <2>1 DEF States, Reduce
<1>3. CASE r.kind \in Trades
  <2> DEFINE p == S.positions[r.symbol]
             e == PositionAfter(p, r)
  <2>1. T.positions = [S.positions EXCEPT ![r.symbol] = e] /\ r.symbol \in Symbols
    BY <1>3 DEF Reduce, LegalTrade
  <2>2. p \in PositionType /\ p.quantity \in Nat
    BY <2>1, TypesOfReplay
  <2>3. /\ e \in PositionType
        /\ \/ e = NoPosition
           \/ e.id = r.id /\ e.at = r.at /\ e.quantity = r.quantity /\ e.quantity # 0
           \/ e.id = p.id /\ e.at = p.at /\ e.quantity # 0 /\ p # NoPosition /\ e.quantity <= p.quantity
    <3>1. CASE r.kind \in {"open", "reverse"}
      <4>1. e = [id |-> r.id, at |-> r.at, quantity |-> r.quantity] /\ r.quantity # 0
        BY <1>3, <3>1 DEF PositionAfter, LegalTrade
      <4> QED  BY <4>1, <1>0
    <3>2. CASE r.kind = "reduce"
      <4>1. e = [p EXCEPT !.quantity = @ - r.quantity]
        BY <3>2 DEF PositionAfter
      <4>2. p # NoPosition /\ r.quantity < p.quantity
        BY <1>3, <3>2 DEF LegalTrade, Reducible
      <4>3. p.quantity - r.quantity \in Nat /\ p.quantity - r.quantity # 0 /\ p.quantity - r.quantity <= p.quantity
        <5>1. \A x, y \in Nat : y < x => x - y \in Nat /\ x - y # 0 /\ x - y <= x
          OBVIOUS
        <5> HIDE DEF p
        <5> QED  BY <1>0, <2>2, <4>2, <5>1
      <4>4. e = [id |-> p.id, at |-> p.at, quantity |-> p.quantity - r.quantity]
        BY <4>1, <2>2
      <4> QED  BY <2>2, <4>2, <4>3, <4>4
    <3>3. CASE r.kind \in {"close", "exit"}
      <4>1. e = NoPosition
        BY <3>3 DEF PositionAfter
      <4> QED  BY <4>1, <1>0
    <3> QED  BY <1>3, <3>1, <3>2, <3>3 DEF Trades
  <2> HIDE DEF e
  <2>4. T.positions \in [Symbols -> PositionType]
    BY <2>1, <2>3 DEF States
  <2>5. \A s \in Symbols : T.positions[s] = IF s = r.symbol THEN e ELSE S.positions[s]
    BY <2>1 DEF States
  <2>6. T \in States(n)
    BY <1>1, <2>4 DEF States, Reduce
  <2> HIDE DEF T
  <2> QED  BY <1>3, <2>3, <2>5, <2>6 DEF T
<1> QED  BY <1>2, <1>3

\* The exposure after a legal record.
LEMMA ExposureStep ==
    ASSUME NEW n \in Nat, NEW S \in States(n), NEW r \in RecordsOf(1..n),
           r.kind \in Trades => LegalTrade(S, r), Exposure(S) <= MaxExposure
    PROVE  Exposure(Reduce(S, r)) <= MaxExposure
<1> DEFINE T == Reduce(S, r)
           f == [s \in Symbols |-> S.positions[s].quantity]
           g == [s \in Symbols |-> T.positions[s].quantity]
<1>1. Exposure(S) = SumFunctionOnSet(f, Symbols) /\ Exposure(T) = SumFunctionOnSet(g, Symbols)
  BY DEF Exposure, SumFunction
<1>2. T \in States(n)
  BY PositionStep
<1>3. \A s \in Symbols : f[s] \in Int /\ f[s] \in Nat /\ g[s] \in Int /\ g[s] \in Nat
  <2>1. \A s \in Symbols : S.positions[s].quantity \in Nat /\ T.positions[s].quantity \in Nat
    BY <1>2, TypesOfReplay
  <2> HIDE DEF T
  <2> QED  BY <2>1
<1>4. IsFiniteSet(Symbols) /\ MaxExposure \in Int
  BY SizesAssumption, LimitsAssumption
<1>5. \A s \in Symbols : s # r.symbol \/ r.kind \notin Trades => g[s] = f[s]
  <2>1. \A s \in Symbols : s # r.symbol \/ r.kind \notin Trades => T.positions[s] = S.positions[s]
    BY PositionStep
  <2> HIDE DEF T
  <2> QED  BY <2>1
<1>6. CASE r.kind \notin Trades
  <2> HIDE DEF f, g, T
  <2>1. SumFunctionOnSet(f, Symbols) = SumFunctionOnSet(g, Symbols)
    BY <1>3, <1>4, <1>5, <1>6, SumSame
  <2> QED  BY <1>1, <2>1 DEF T
<1>7. CASE r.kind \in Trades
  <2> DEFINE s == r.symbol
             E == SumFunctionOnSet(f, Symbols)
             F == SumFunctionOnSet(g, Symbols)
  <2>1. s \in Symbols /\ LegalTrade(S, r)
    BY <1>7 DEF LegalTrade
  <2>2. F = E - f[s] + g[s] /\ E \in Int
    <3>1. \A x \in Symbols : f[x] \in Int /\ g[x] \in Int /\ (x # s => g[x] = f[x])
      BY <1>3, <1>5
    <3>2. s \in Symbols
      BY <2>1
    <3> HIDE DEF f, g, s
    <3>3. F = E - f[s] + g[s]
      BY <1>4, <3>1, <3>2, SumChanges
    <3>4. E \in Int
      BY <1>4, <3>1, SumOf
    <3> QED  BY <3>3, <3>4
  <2>3. E <= MaxExposure /\ f[s] \in Nat /\ g[s] \in Nat /\ r.quantity \in Nat
    BY <1>1, <1>3, <2>1, RecordTypes
  <2>4. g[s] = PositionAfter(S.positions[s], r).quantity
    <3>1. T.positions = [S.positions EXCEPT ![s] = PositionAfter(S.positions[s], r)]
      BY <1>7 DEF Reduce
    <3>2. T.positions[s] = PositionAfter(S.positions[s], r)
      BY <3>1, <2>1 DEF States
    <3> HIDE DEF T, s
    <3> QED  BY <2>1, <3>2
  <2>5. g[s] <= f[s] \/ (g[s] = r.quantity /\ E + r.quantity <= MaxExposure)
    <3>1. CASE r.kind \in {"open", "reverse"}
      <4>1. PositionAfter(S.positions[s], r).quantity = r.quantity
        BY <3>1 DEF PositionAfter
      <4>2. Exposure(S) + r.quantity <= MaxExposure
        BY <3>1, <2>1 DEF LegalTrade
      <4> QED  BY <1>1, <2>4, <4>1, <4>2
    <3>2. CASE r.kind \notin {"open", "reverse"}
      <4>1. \/ T.positions[s] = S.positions[s]
            \/ T.positions[s] = NoPosition
            \/ T.positions[s].quantity <= S.positions[s].quantity
        <5>1. r.kind = "reduce" \/ r.kind \in {"close", "exit"}
          BY <1>7, <3>2 DEF Trades
        <5>2. T.positions[s] = PositionAfter(S.positions[s], r)
          BY <1>7, <2>1 DEF Reduce, States
        <5>3. CASE r.kind \in {"close", "exit"}
          BY <5>2, <5>3 DEF PositionAfter
        <5>4. CASE r.kind = "reduce"
          <6> DEFINE p == S.positions[s]
          <6>1. p \in [id : 0..n, at : 0..MaxClock, quantity : Nat]
            BY <2>1, TypesOfReplay
          <6>2. T.positions[s] = [p EXCEPT !.quantity = @ - r.quantity]
            BY <5>2, <5>4 DEF PositionAfter
          <6>3. T.positions[s].quantity = p.quantity - r.quantity
            <7> HIDE DEF p, T
            <7> QED  BY <6>1, <6>2
          <6>4. \A x, y \in Nat : x - y <= x
            OBVIOUS
          <6>5. p.quantity \in Nat
            BY <6>1
          <6> HIDE DEF p, T
          <6> QED  BY <2>3, <6>3, <6>4, <6>5 DEF p
        <5> QED  BY <5>1, <5>3, <5>4
      <4>2. f[s] = S.positions[s].quantity /\ g[s] = T.positions[s].quantity
        <5> HIDE DEF T, s
        <5> QED  BY <2>1
      <4>3. NoPosition.quantity = 0
        BY DEF NoPosition
      <4> HIDE DEF T, s, f, g
      <4> QED  BY <2>3, <4>1, <4>2, <4>3
    <3> QED  BY <3>1, <3>2
  <2> HIDE DEF E, F, f, g, s
  <2>6. F <= MaxExposure
    BY <1>4, <2>2, <2>3, <2>5
  <2> HIDE DEF T
  <2> QED  BY <1>1, <2>6 DEF F, T
<1> QED  BY <1>6, <1>7

\* More calls: the same journals are lawful.
LEMMA LawfulLater ==
    ASSUME NEW n \in Nat, NEW m \in Nat, n <= m
    PROVE  /\ RecordsOf(1..n) \subseteq RecordsOf(1..m)
           /\ Seq(RecordsOf(1..n)) \subseteq Seq(RecordsOf(1..m))
           /\ States(n) \subseteq States(m)
           /\ \A j : Lawful(j, n) => Lawful(j, m)
<1>1. \A x : (x \in 1..n => x \in 1..m) /\ (x \in 0..n => x \in 0..m)
  OBVIOUS
<1>2. RecordsOf(1..n) \subseteq RecordsOf(1..m)
  BY <1>1 DEF RecordsOf
<1>3. States(n) \subseteq States(m)
  <2>1. ASSUME NEW S \in States(n)  PROVE S \in States(m)
    <3>1. \A s \in Symbols : S.positions[s] \in [id : 0..m, at : 0..MaxClock, quantity : Nat]
      BY <1>1 DEF States
    <3> QED  BY <3>1 DEF States
  <2> QED  BY <2>1
<1>4. Seq(RecordsOf(1..n)) \subseteq Seq(RecordsOf(1..m))
  <2> DEFINE A == RecordsOf(1..n)
             B == RecordsOf(1..m)
  <2> HIDE DEF A, B
  <2>1. A \subseteq B
    BY <1>2 DEF A, B
  <2>2. ASSUME NEW j \in Seq(A)  PROVE j \in Seq(B)
    BY <2>1
  <2> QED  BY <2>2 DEF A, B
<1> QED  BY <1>2, <1>3, <1>4 DEF Lawful

LEMMA LawfulEmpty == ASSUME NEW n \in Nat  PROVE Lawful(<<>>, n)
<1>1. Blank \in States(n)
  BY BoundsAssumption DEF Blank, States, NoPosition
<1>2. DOMAIN <<>> = {} /\ <<>> \in Seq(RecordsOf(1..n))
  OBVIOUS
<1> QED  BY <1>1, <1>2, ReplayEmpty DEF Lawful

\* A lawful journal with one legal record more.
LEMMA LawfulGrows ==
    ASSUME NEW n \in Nat, NEW j, Lawful(j, n), NEW r \in RecordsOf(1..n), Legal(j, r)
    PROVE  Lawful(Append(j, r), n)
<1> DEFINE k == Append(j, r)
           S == Replay(j)
           l == Len(j)
<1>0. j \in Seq(RecordsOf(1..n)) /\ S \in States(n) /\ l \in Nat
  BY DEF Lawful
<1>1. /\ k \in Seq(RecordsOf(1..n)) /\ k # <<>> /\ Last(k) = r /\ DOMAIN k = 1..(l + 1) /\ k[l + 1] = r
      /\ DOMAIN j = 1..l /\ \A i \in DOMAIN j : k[i] = j[i]
  BY <1>0, AppendLast
<1>2. Replay(k) = Reduce(S, r)
  BY <1>0, ReplayStep
<1>3. r.kind \in Trades => LegalTrade(S, r)
  BY DEF Legal
<1>4. Replay(k) \in States(n)
  BY <1>0, <1>2, <1>3, PositionStep
<1>5. HeldWell(Replay(k), r.at)
  <2> SUFFICES ASSUME NEW s \in Symbols, Replay(k).positions[s] # NoPosition
               PROVE  LET e == Replay(k).positions[s] IN e.id # 0 /\ e.quantity # 0 /\ e.at <= r.at
    BY DEF HeldWell
  <2> DEFINE e == Replay(k).positions[s]
             p == S.positions[s]
  <2>1. /\ r.at \in Nat /\ r.id # 0
        /\ p \in [id : 0..n, at : 0..MaxClock, quantity : Nat] /\ p.at \in Nat
    BY <1>0, RecordTypes, TypesOfReplay
  <2>2. p # NoPosition => p.id # 0 /\ p.quantity # 0 /\ p.at <= r.at
    <3>1. CASE j = <<>>
      BY <3>1, ReplayEmpty DEF Blank
    <3>2. CASE j # <<>>
      <4>1. Last(j).at <= r.at /\ HeldWell(S, Last(j).at)
        BY <3>2 DEF Legal, InOrder, Lawful
      <4>2. Last(j).at \in Nat
        <5>1. Last(j) \in RecordsOf(1..n)
          BY <1>0, <3>2 DEF Last
        <5> QED  BY <5>1, RecordTypes
      <4>3. p # NoPosition => p.id # 0 /\ p.quantity # 0 /\ p.at <= Last(j).at
        BY <4>1 DEF HeldWell
      <4> HIDE DEF p
      <4> QED  BY <2>1, <4>1, <4>2, <4>3
    <3> QED  BY <3>1, <3>2
  <2>3. \/ e = p
        \/ e = NoPosition
        \/ e.id = r.id /\ e.at = r.at /\ e.quantity # 0
        \/ e.id = p.id /\ e.at = p.at /\ e.quantity # 0 /\ p # NoPosition
    BY <1>0, <1>2, <1>3, PositionStep
  <2> HIDE DEF e, p
  <2>4. e # NoPosition => e.id # 0 /\ e.quantity # 0 /\ e.at <= r.at
    BY <2>1, <2>2, <2>3
  <2> QED  BY <2>4 DEF e
<1>6. ASSUME NEW i \in 1..l  PROVE LawfulAt(k, i)
  <2>1. LawfulAt(j, i) /\ k[i] = j[i] /\ i \in 0..l /\ i - 1 \in 0..l
    BY <1>0, <1>1 DEF Lawful
  <2>2. SubSeq(k, 1, i) = SubSeq(j, 1, i) /\ SubSeq(k, 1, i - 1) = SubSeq(j, 1, i - 1)
    BY <1>0, <2>1, PrefixOf
  <2> HIDE DEF k
  <2> QED  BY <2>1, <2>2 DEF LawfulAt
<1>7. LawfulAt(k, l + 1)
  <2>1. SubSeq(k, 1, l + 1) = k /\ SubSeq(k, 1, (l + 1) - 1) = j
    <3>1. (l + 1) - 1 = l /\ l \in 0..l
      BY <1>0
    <3>2. SubSeq(k, 1, l) = j /\ SubSeq(k, 1, l + 1) = k
      BY <1>0, PrefixOf
    <3> HIDE DEF k, l
    <3> QED  BY <3>1, <3>2
  <2>2. Exposure(S) <= MaxExposure
    <3>1. CASE j = <<>>
      <4> DEFINE f == [s \in Symbols |-> NoPosition.quantity]
      <4>1. Exposure(Blank) = SumFunctionOnSet([s \in Symbols |-> Blank.positions[s].quantity], Symbols)
        BY DEF Exposure, SumFunction
      <4>2. [s \in Symbols |-> Blank.positions[s].quantity] = f /\ \A s \in Symbols : f[s] = 0
        BY DEF Blank, NoPosition
      <4>3. Exposure(Blank) = 0
        <5> HIDE DEF f
        <5> QED  BY <4>1, <4>2, SumZero, SizesAssumption
      <4> QED  BY <3>1, <4>3, ReplayEmpty, LimitsAssumption
    <3>2. CASE j # <<>>
      <4>1. l \in DOMAIN j /\ SubSeq(j, 1, l) = j
        BY <1>0, <1>1, <3>2, PrefixOf
      <4> QED  BY <4>1 DEF Lawful, LawfulAt
    <3> QED  BY <3>1, <3>2
  <2>3. Exposure(Replay(k)) <= MaxExposure
    BY <1>0, <1>2, <1>3, <2>2, ExposureStep
  <2>4. r.kind = "account" <=> l + 1 = 1
    <3>1. l = 0 <=> j = <<>>
      BY <1>0
    <3> QED  BY <1>0, <3>1 DEF Legal
  <2>5. r.kind \in Trades => r.symbol \in Symbols /\ Tradable(S)
    BY <1>3 DEF LegalTrade
  <2> HIDE DEF k, l
  <2> QED  BY <1>1, <2>1, <2>3, <2>4, <2>5 DEF LawfulAt
<1>8. \A i \in DOMAIN k : LawfulAt(k, i)
  <2>1. \A i \in 1..(l + 1) : i \in 1..l \/ i = l + 1
    BY <1>0
  <2> HIDE DEF k, l
  <2> QED  BY <1>1, <1>6, <1>7, <2>1
<1> HIDE DEF k, S
<1> QED  BY <1>1, <1>4, <1>5, <1>8 DEF Lawful, k

-----------------------------------------------------------------------------
(* Candles and the clock.                                                  *)

LEMMA DivMod ==
    ASSUME NEW k \in Nat \ {0}, NEW t \in Int
    PROVE  t \div k \in Int /\ t % k \in 0..(k - 1) /\ t = k * (t \div k) + (t % k)
OBVIOUS

\* Two multiples differ by a step at least.
LEMMA StepApart ==
    ASSUME NEW k \in Nat \ {0}, NEW a \in Int, NEW b \in Int, k * a < k * b
    PROVE  k * a + k <= k * b
<1> DEFINE d == b - (a + 1)
<1>1. d \in Nat
  OBVIOUS
<1>2. k * d >= 0
  BY <1>1
<1>3. k * b = k * a + k + k * d
  OBVIOUS
<1> QED  BY <1>2, <1>3

LEMMA CandleIs ==
    ASSUME NEW c \in Candles
    PROVE  c \in Nat /\ c \div CandleStep \in Int /\ c = CandleStep * (c \div CandleStep)
<1>1. CandleStep \in Nat \ {0} /\ c \in 0..MaxClock /\ c % CandleStep = 0
  BY SizesAssumption DEF Candles
<1>2. c \in Nat /\ c \in Int
  BY <1>1, BoundsAssumption
<1>3. c \div CandleStep \in Int /\ c = CandleStep * (c \div CandleStep) + (c % CandleStep)
  BY <1>1, <1>2, DivMod
<1>4. CandleStep * (c \div CandleStep) \in Int
  BY <1>1, <1>3
<1> QED  BY <1>1, <1>2, <1>3, <1>4

LEMMA CandlesApart ==
    ASSUME NEW c \in Candles, NEW e \in Candles, c < e
    PROVE  c + CandleStep <= e
<1>1. CandleStep \in Nat \ {0}
  BY SizesAssumption
<1>2. PICK a \in Int : c = CandleStep * a
  BY CandleIs
<1>3. PICK b \in Int : e = CandleStep * b
  BY CandleIs
<1> QED  BY <1>1, <1>2, <1>3, StepApart

\* The last candle that is closed at time t.
LEMMA LastClosedIs ==
    ASSUME NEW t \in Nat
    PROVE  /\ LastClosed(t) \in Int /\ LastClosed(t) + CandleStep <= t
           /\ \A c \in Candles : c <= LastClosed(t) <=> c + CandleStep <= t
<1>1. CandleStep \in Nat \ {0}
  BY SizesAssumption
<1> DEFINE k == CandleStep
           q == t \div k
<1>2. q \in Int /\ t = k * q + (t % k) /\ t % k \in 0..(k - 1)
  BY <1>1, DivMod
<1>3. LastClosed(t) = k * q - k /\ k * q \in Int
  BY <1>1, <1>2 DEF LastClosed
<1> HIDE DEF q
<1>4. k * q <= t /\ t < k * q + k
  BY <1>1, <1>2, <1>3
<1>5. ASSUME NEW c \in Candles  PROVE c <= LastClosed(t) <=> c + k <= t
  <2>1. PICK a \in Int : c = k * a
    BY CandleIs
  <2>2. c \in Nat
    BY CandleIs
  <2>3. ASSUME c + k <= t  PROVE c + k <= k * q
    <3>1. k * q < k * a => k * q + k <= k * a
      BY <1>1, <1>2, <2>1, StepApart
    <3>2. k * q < k * (a + 1) => k * q + k <= k * (a + 1)
      BY <1>1, <1>2, <2>1, StepApart
    <3>3. k * (a + 1) = c + k
      BY <1>1, <2>1
    <3> QED  BY <1>1, <1>3, <1>4, <2>2, <2>3, <3>2, <3>3
  <2> QED  BY <1>1, <1>3, <1>4, <2>2, <2>3
<1>6. LastClosed(t) \in Int /\ LastClosed(t) + k <= t
  BY <1>1, <1>3, <1>4
<1> QED  BY <1>5, <1>6

\* The candle that closes with a tick.
LEMMA TickCandle ==
    ASSUME NEW t \in 0..MaxClock, t < MaxClock, (t + 1) % CandleStep = 0
    PROVE  t + 1 - CandleStep \in Candles
<1>1. CandleStep \in Nat \ {0} /\ t \in Nat /\ t + 1 \in 0..MaxClock
  BY SizesAssumption, BoundsAssumption
<1> DEFINE k == CandleStep
           q == (t + 1) \div k
<1>2. q \in Int /\ t + 1 = k * q
  <2>1. t + 1 \in Int
    BY <1>1
  <2>2. q \in Int /\ t + 1 = k * q + ((t + 1) % k)
    BY <1>1, <2>1, DivMod
  <2>3. k * q \in Int
    BY <1>1, <2>2
  <2> QED  BY <2>2, <2>3
<1> HIDE DEF q
<1>3. k <= k * q
  <2>1. k * 0 < k * q
    BY <1>1, <1>2
  <2>2. k * 0 + k <= k * q
    BY <1>1, <1>2, <2>1, StepApart
  <2> QED  BY <1>1, <2>2
<1>4. t + 1 - k = k * (q - 1)
  BY <1>1, <1>2
<1>5. (k * (q - 1)) % k = 0
  <2>1. \A x \in Int : (k * x) % k = 0
    BY <1>1
  <2> QED  BY <1>2, <2>1
<1>6. (t + 1 - k) % k = 0
  BY <1>4, <1>5
<1>7. t + 1 - k \in 0..MaxClock
  <2>1. k <= t + 1 /\ t + 1 <= MaxClock /\ MaxClock \in Nat
    BY <1>1, <1>2, <1>3, BoundsAssumption
  <2> QED  BY <1>1, <2>1
<1> QED  BY <1>6, <1>7 DEF Candles

-----------------------------------------------------------------------------
(* The invariant that needs no rule: whatever is on disk or in a call is   *)
(* lawful, because a record is only ever added to a lawful journal.        *)

PositionsUpTo(n) == [Symbols -> [id : 0..n, at : 0..MaxClock, quantity : Nat]]
MemoriesUpTo(n)  == [Symbols -> [id : 0..n, last : Int]]

CycleType(n) ==
    [pc : {"off", "check"}, last : Int, todo : SUBSET Symbols, seen : PositionsUpTo(n), memory : MemoriesUpTo(n)]

CallType(n) == [pc : {"idle", "stage", "commit"}, updated : Seq(RecordsOf(1..n))]

CallsLawful(C, n) ==
    /\ C \in [Programs -> CallType(n)]
    /\ \A a \in Programs : Lawful(C[a].updated, n) /\ (C[a].pc # "idle" => C[a].updated # <<>>)

CycleOK(c, n) ==
    /\ c \in CycleType(n)
    /\ c.pc = "off" => c.todo = {}
    /\ c.pc = "check" => c.last + CandleStep <= now

JournalInv ==
    /\ calls \in Nat /\ events \in 0..MaxEvents /\ acked \subseteq 1..calls
    /\ now \in 0..MaxClock /\ touches \subseteq Symbols \X Candles
    /\ CycleOK(cycle, calls) /\ cursor \in MemoriesUpTo(calls)
    /\ Lawful(journal, calls) /\ Lawful(staged, calls) /\ CallsLawful(call, calls)

LEMMA InitJournal == Init => JournalInv
<1> SUFFICES ASSUME Init PROVE JournalInv
  OBVIOUS
<1>1. calls = 0 /\ events = 0 /\ acked = {} /\ now = 0 /\ touches = {} /\ journal = <<>> /\ staged = <<>>
  BY DEF Init, NoFile
<1>2. 0 \in 0..MaxEvents /\ 0 \in 0..MaxClock
  BY BoundsAssumption
<1>3. Lawful(<<>>, 0)
  BY LawfulEmpty
<1>4. CallsLawful(call, 0)
  <2>1. call = [a \in Programs |-> [pc |-> "idle", updated |-> <<>>]]
    BY DEF Init, NoCall
  <2>2. <<>> \in Seq(RecordsOf(1..0))
    OBVIOUS
  <2> QED  BY <1>3, <2>1, <2>2 DEF CallsLawful, CallType
<1>5. CycleOK(cycle, 0) /\ cursor \in MemoriesUpTo(0)
  <2>1. /\ cursor = [s \in Symbols |-> [id |-> 0, last |-> 0]]
        /\ cycle = [pc |-> "off", last |-> 0, todo |-> {},
                    seen |-> [s \in Symbols |-> [id |-> 0, at |-> 0, quantity |-> 0]],
                    memory |-> [s \in Symbols |-> [id |-> 0, last |-> 0]]]
    BY DEF Init, NoCycle, NoPosition
  <2>2. /\ [s \in Symbols |-> [id |-> 0, last |-> 0]] \in MemoriesUpTo(0)
        /\ [s \in Symbols |-> [id |-> 0, at |-> 0, quantity |-> 0]] \in PositionsUpTo(0)
    BY <1>2 DEF MemoriesUpTo, PositionsUpTo
  <2> QED  BY <2>1, <2>2 DEF CycleOK, CycleType
<1> QED  BY <1>1, <1>2, <1>3, <1>4, <1>5 DEF JournalInv

\* The types of a number of calls hold for a larger one.
LEMMA TypesLater ==
    ASSUME NEW n \in Nat, NEW m \in Nat, n <= m
    PROVE  /\ MemoriesUpTo(n) \subseteq MemoriesUpTo(m)
           /\ PositionsUpTo(n) \subseteq PositionsUpTo(m)
           /\ CycleType(n) \subseteq CycleType(m)
           /\ CallType(n) \subseteq CallType(m)
<1>1. \A x \in 0..n : x \in 0..m
  OBVIOUS
<1>2. MemoriesUpTo(n) \subseteq MemoriesUpTo(m)
  <2>1. [id : 0..n, last : Int] \subseteq [id : 0..m, last : Int]
    BY <1>1
  <2> QED  BY <2>1 DEF MemoriesUpTo
<1>3. PositionsUpTo(n) \subseteq PositionsUpTo(m)
  <2>1. [id : 0..n, at : 0..MaxClock, quantity : Nat] \subseteq [id : 0..m, at : 0..MaxClock, quantity : Nat]
    BY <1>1
  <2> QED  BY <2>1 DEF PositionsUpTo
<1>4. CycleType(n) \subseteq CycleType(m)
  BY <1>2, <1>3 DEF CycleType
<1>5. CallType(n) \subseteq CallType(m)
  BY LawfulLater DEF CallType
<1> QED  BY <1>2, <1>3, <1>4, <1>5

\* A call proposes a legal record.
LEMMA ProposeKeepsJournal ==
    ASSUME JournalInv, NEW a \in Programs, NEW at \in 0..MaxClock, NEW kind \in Kinds,
           NEW symbol \in Symbols \cup {NoSymbol}, NEW quantity \in Nat, NEW candle \in Candles,
           Legal(journal, Record(calls + 1, at, kind, symbol, quantity, candle)),
           Propose(a, at, kind, symbol, quantity, candle), events' \in 0..MaxEvents,
           UNCHANGED <<now, touches, journal, staged, cycle, cursor, acked>>
    PROVE  JournalInv'
<1> DEFINE r == Record(calls + 1, at, kind, symbol, quantity, candle)
           m == calls + 1
<1>0. calls \in Nat /\ m \in Nat /\ calls <= m
  BY DEF JournalInv
<1>1. r \in RecordsOf(1..m)
  <2>1. m \in 1..m
    BY <1>0
  <2> QED  BY <2>1 DEF RecordsOf, Record, Kinds
<1>2. calls' = m /\ call' = [call EXCEPT ![a] = [pc |-> "stage", updated |-> Append(journal, r)]]
  BY DEF Propose
<1>3. \A j : Lawful(j, calls) => Lawful(j, m)
  BY <1>0, LawfulLater
<1>4. Lawful(journal, m) /\ Lawful(staged, m) /\ Legal(journal, r)
  BY <1>3 DEF JournalInv
<1> HIDE DEF r, m
<1>5. Lawful(Append(journal, r), m)
  BY <1>0, <1>1, <1>4, LawfulGrows
<1>6. Append(journal, r) # <<>> /\ Append(journal, r) \in Seq(RecordsOf(1..m))
  BY <1>1, <1>4, AppendLast DEF Lawful
<1>7. CallsLawful(call', m)
  <2>1. call \in [Programs -> CallType(calls)] /\ CallType(calls) \subseteq CallType(m)
    BY <1>0, TypesLater DEF JournalInv, CallsLawful
  <2>2. [pc |-> "stage", updated |-> Append(journal, r)] \in CallType(m)
    BY <1>6 DEF CallType
  <2>3. call' \in [Programs -> CallType(m)]
    BY <1>2, <2>1, <2>2
  <2>4. ASSUME NEW b \in Programs  PROVE Lawful(call'[b].updated, m) /\ (call'[b].pc # "idle" => call'[b].updated # <<>>)
    <3>1. CASE b = a
      <4>1. call'[b] = [pc |-> "stage", updated |-> Append(journal, r)]
        BY <1>2, <2>1, <3>1
      <4> QED  BY <4>1, <1>5, <1>6
    <3>2. CASE b # a
      <4>1. call'[b] = call[b]
        BY <1>2, <2>1, <3>2
      <4> QED  BY <4>1, <1>3 DEF JournalInv, CallsLawful
    <3> QED  BY <3>1, <3>2
  <2> QED  BY <2>3, <2>4 DEF CallsLawful
<1>8. CycleOK(cycle, calls)' /\ cursor' \in MemoriesUpTo(m)
  <2>1. cycle \in CycleType(m) /\ cursor \in MemoriesUpTo(m)
    BY <1>0, TypesLater DEF JournalInv, CycleOK
  <2>2. now' = now /\ cycle' = cycle /\ cursor' = cursor
    OBVIOUS
  <2> QED  BY <1>2, <2>1, <2>2 DEF JournalInv, CycleOK
<1>9. acked' \subseteq 1..m
  <2>1. \A x \in 1..calls : x \in 1..m
    BY <1>0
  <2> QED  BY <2>1 DEF JournalInv
<1> QED  BY <1>0, <1>2, <1>4, <1>7, <1>8, <1>9 DEF JournalInv

LEMMA LeaveKeepsCalls ==
    ASSUME calls \in Nat, CallsLawful(call, calls), NEW a \in Programs, Leave(a), calls' = calls
    PROVE  CallsLawful(call, calls)'
<1>1. call' = [call EXCEPT ![a] = NoCall]
  BY DEF Leave
<1>2. NoCall \in CallType(calls) /\ Lawful(NoCall.updated, calls) /\ NoCall.pc = "idle"
  <2>1. <<>> \in Seq(RecordsOf(1..calls))
    OBVIOUS
  <2> QED  BY <2>1, LawfulEmpty DEF NoCall, CallType
<1> QED  BY <1>1, <1>2 DEF CallsLawful

LEMMA StageKeepsJournal == ASSUME JournalInv, NEW a \in Programs, Stage(a)  PROVE JournalInv'
<1>1. /\ call' = [call EXCEPT ![a].pc = "commit"] /\ staged' = call[a].updated
      /\ call[a].pc = "stage"
      /\ UNCHANGED <<now, touches, journal, cycle, cursor, acked, calls, events>>
  BY DEF Stage, marketVars, guardVars
<1>2. call \in [Programs -> CallType(calls)]
  BY DEF JournalInv, CallsLawful
<1>3. call' \in [Programs -> CallType(calls)]
      /\ \A b \in Programs : call'[b].updated = call[b].updated /\ (call'[b].pc # "idle" => call[b].pc # "idle")
  BY <1>1, <1>2 DEF CallType
<1>4. CallsLawful(call', calls)
  BY <1>3 DEF JournalInv, CallsLawful
<1>5. Lawful(staged', calls)
  BY <1>1 DEF JournalInv, CallsLawful
<1> QED  BY <1>1, <1>4, <1>5 DEF JournalInv, CycleOK

\* The memory of the cycle after a candle of a symbol.
LEMMA MemoryStep ==
    ASSUME NEW n, NEW c \in CycleType(n), NEW s \in Symbols, NEW last \in Int, NEW todo \in SUBSET Symbols
    PROVE  /\ [c EXCEPT !.memory[s] = [id |-> c.seen[s].id, last |-> last]] \in CycleType(n)
           /\ [c EXCEPT !.todo = todo, !.memory[s] = [id |-> c.seen[s].id, last |-> last]] \in CycleType(n)
<1>1. c.seen[s].id \in 0..n /\ c.memory \in MemoriesUpTo(n)
  BY DEF CycleType, PositionsUpTo
<1>2. [c.memory EXCEPT ![s] = [id |-> c.seen[s].id, last |-> last]] \in MemoriesUpTo(n)
  BY <1>1 DEF MemoriesUpTo
<1>3. c.pc \in {"off", "check"} /\ c.last \in Int /\ c.todo \in SUBSET Symbols /\ c.seen \in PositionsUpTo(n)
  BY DEF CycleType
<1>4. c = [pc |-> c.pc, last |-> c.last, todo |-> c.todo, seen |-> c.seen, memory |-> c.memory]
  BY DEF CycleType
<1> DEFINE m == [c.memory EXCEPT ![s] = [id |-> c.seen[s].id, last |-> last]]
<1>5. [c EXCEPT !.memory = m] \in CycleType(n) /\ [c EXCEPT !.todo = todo, !.memory = m] \in CycleType(n)
  <2> HIDE DEF m
  <2> QED  BY <1>2, <1>3, <1>4 DEF CycleType, m
<1> QED  BY <1>5

LEMMA CommitKeepsJournal == ASSUME JournalInv, NEW a \in Programs, Commit(a)  PROVE JournalInv'
<1>1. /\ journal' = staged /\ staged' = <<>> /\ Leave(a) /\ call[a].pc # "idle"
      /\ acked' = acked \cup {Last(call[a].updated).id}
      /\ UNCHANGED <<now, touches, cursor, calls, events>>
  BY DEF Commit, NoFile, marketVars
<1>2. calls \in Nat
  BY DEF JournalInv
<1> DEFINE u == call[a].updated
           r == Last(u)
<1>3. u # <<>> /\ Lawful(u, calls)
  BY <1>1 DEF JournalInv, CallsLawful
<1>4. Len(u) \in DOMAIN u /\ r = u[Len(u)] /\ r \in RecordsOf(1..calls)
  <2>1. u \in Seq(RecordsOf(1..calls))
    BY <1>3 DEF Lawful
  <2> HIDE DEF u
  <2> QED  BY <1>3, <2>1 DEF Last
<1>5. r.kind = "exit" => r.symbol \in Symbols
  <2>1. LawfulAt(u, Len(u))
    BY <1>3, <1>4 DEF Lawful
  <2> QED  BY <1>4, <2>1 DEF LawfulAt, Trades
<1>6. acked' \subseteq 1..calls
  <2>1. r.id \in 1..calls
    BY <1>2, <1>4, RecordTypes
  <2> QED  BY <1>1, <2>1 DEF JournalInv
<1>7. CycleOK(cycle', calls)
  <2>1. CASE r.kind = "exit"
    <3>1. cycle' = [cycle EXCEPT !.todo = @ \ {r.symbol},
                           !.memory[r.symbol] = [id |-> cycle.seen[r.symbol].id, last |-> r.candle]]
      BY <2>1 DEF Commit, AfterExit
    <3>2. r.candle \in Int
      BY <1>2, <1>4, RecordTypes, CandleIs
    <3>3. cycle \in CycleType(calls)
      BY DEF JournalInv, CycleOK
    <3> DEFINE t == cycle.todo \ {r.symbol}
    <3>4. t \in SUBSET Symbols
      BY <3>3 DEF CycleType
    <3>5. cycle' = [cycle EXCEPT !.todo = t,
                           !.memory[r.symbol] = [id |-> cycle.seen[r.symbol].id, last |-> r.candle]]
      BY <3>1
    <3>6. cycle'.pc = cycle.pc /\ cycle'.todo \subseteq cycle.todo /\ cycle'.last = cycle.last
      BY <3>3, <3>5 DEF CycleType
    <3> HIDE DEF t, r
    <3>7. cycle' \in CycleType(calls)
      BY <1>5, <2>1, <3>2, <3>3, <3>4, <3>5, MemoryStep
    <3> QED  BY <3>6, <3>7 DEF JournalInv, CycleOK
  <2>2. CASE r.kind # "exit"
    <3>1. cycle' = cycle
      BY <2>2 DEF Commit
    <3> QED  BY <3>1 DEF JournalInv
  <2> QED  BY <2>1, <2>2
<1>8. Lawful(journal', calls) /\ Lawful(staged', calls)
  BY <1>1, <1>2, LawfulEmpty DEF JournalInv
<1>9. CallsLawful(call', calls)
  BY <1>1, <1>2, LeaveKeepsCalls DEF JournalInv
<1> QED  BY <1>1, <1>6, <1>7, <1>8, <1>9 DEF JournalInv, CycleOK

\* A cycle that is off.
LEMMA NoCycleOK == ASSUME NEW n \in Nat  PROVE CycleOK(NoCycle, n) /\ CycleOK(NoCycle, n)'
<1>1. 0 \in 0..n /\ 0 \in 0..MaxClock
  BY BoundsAssumption
<1>2. [s \in Symbols |-> NoPosition] \in PositionsUpTo(n) /\ [s \in Symbols |-> [id |-> 0, last |-> 0]] \in MemoriesUpTo(n)
  BY <1>1 DEF NoPosition, PositionsUpTo, MemoriesUpTo
<1>3. NoCycle \in CycleType(n)
  BY <1>2 DEF NoCycle, CycleType
<1> QED  BY <1>3 DEF CycleOK, NoCycle

\* A call is abandoned.
LEMMA AbandonKeepsJournal ==
    ASSUME JournalInv, NEW a \in Programs, Leave(a), staged' = staged \/ staged' = NoFile,
           cycle' = cycle \/ cycle' = NoCycle, events' \in 0..MaxEvents,
           UNCHANGED <<now, touches, journal, cursor, acked, calls>>
    PROVE  JournalInv'
<1>1. calls \in Nat
  BY DEF JournalInv
<1>2. CallsLawful(call, calls)'
  BY LeaveKeepsCalls DEF JournalInv
<1>3. Lawful(staged', calls)
  BY <1>1, LawfulEmpty DEF JournalInv, NoFile
<1>4. CycleOK(cycle', calls)
  BY <1>1, NoCycleOK DEF JournalInv
<1> QED  BY <1>2, <1>3, <1>4 DEF JournalInv, CycleOK

LEMMA ZeroIsCandle == 0 \in Candles
<1>1. \A k \in Nat \ {0} : 0 % k = 0
  OBVIOUS
<1> QED  BY <1>1, SizesAssumption, BoundsAssumption DEF Candles

LEMMA TickKeepsJournal == ASSUME JournalInv, Tick  PROVE JournalInv'
<1>1. now' = now + 1 /\ now < MaxClock /\ UNCHANGED <<journal, staged, call, cycle, cursor, acked, calls, events>>
  BY DEF Tick, guardVars
<1>2. now \in 0..MaxClock /\ now' \in 0..MaxClock /\ now \in Int
  BY <1>1, BoundsAssumption DEF JournalInv
<1>3. touches' \subseteq Symbols \X Candles
  <2>1. CASE (now + 1) % CandleStep = 0
    <3>1. PICK hit \in SUBSET Exposed : touches' = touches \cup (hit \X {now + 1 - CandleStep})
      BY <2>1 DEF Tick
    <3>2. now + 1 - CandleStep \in Candles
      BY <1>1, <1>2, <2>1, TickCandle
    <3>3. Exposed \subseteq Symbols
      BY DEF Exposed, Held
    <3> QED  BY <3>1, <3>2, <3>3 DEF JournalInv
  <2>2. CASE (now + 1) % CandleStep # 0
    BY <2>2 DEF Tick, JournalInv
  <2> QED  BY <2>1, <2>2
<1>4. CycleOK(cycle, calls)'
  <2>1. cycle.pc = "check" => cycle.last + CandleStep <= now /\ cycle.last \in Int
    BY DEF JournalInv, CycleOK, CycleType
  <2>2. cycle.pc = "check" => cycle.last + CandleStep <= now + 1
    BY <1>2, <2>1, SizesAssumption
  <2> QED  BY <1>1, <2>2 DEF JournalInv, CycleOK
<1> QED  BY <1>1, <1>2, <1>3, <1>4 DEF JournalInv

\* Steps of the guard that leave the journal alone.
LEMMA GuardKeepsJournal ==
    ASSUME JournalInv, CycleOK(cycle', calls), cursor' \in MemoriesUpTo(calls),
           UNCHANGED <<now, touches, journal, staged, call, acked, calls>>, events' \in 0..MaxEvents
    PROVE  JournalInv'
BY DEF JournalInv, CycleOK

LEMMA BeginCycleKeepsJournal == ASSUME JournalInv, BeginCycle  PROVE JournalInv'
<1>1. /\ cycle' = [pc |-> "check", last |-> LastClosed(now), todo |-> Held(Replay(journal)),
                   seen |-> Replay(journal).positions, memory |-> cursor]
      /\ UNCHANGED <<now, touches, journal, staged, call, cursor, acked, calls, events>>
  BY DEF BeginCycle, marketVars
<1>2. now \in Nat
  BY BoundsAssumption DEF JournalInv
<1>3. LastClosed(now) \in Int /\ LastClosed(now) + CandleStep <= now
  BY <1>2, LastClosedIs
<1>4. Replay(journal).positions \in PositionsUpTo(calls) /\ Held(Replay(journal)) \in SUBSET Symbols
  BY DEF JournalInv, Lawful, States, PositionsUpTo, Held
<1>5. CycleOK(cycle', calls)
  <2>1. cycle' \in CycleType(calls)
    BY <1>1, <1>3, <1>4 DEF CycleType, JournalInv
  <2> QED  BY <1>1, <1>3, <2>1 DEF CycleOK
<1> QED  BY <1>1, <1>5, GuardKeepsJournal DEF JournalInv

LEMMA HoldKeepsJournal ==
    ASSUME JournalInv, NEW s \in Symbols, NEW c \in Candles, Hold(s, c)  PROVE JournalInv'
<1>1. /\ cycle' = [cycle EXCEPT !.memory[s] = [id |-> cycle.seen[s].id, last |-> c]]
      /\ UNCHANGED <<now, touches, journal, staged, call, cursor, acked, calls, events>>
  BY DEF Hold, marketVars
<1>2. cycle \in CycleType(calls) /\ c \in Int
  BY CandleIs DEF JournalInv, CycleOK
<1>3. cycle' \in CycleType(calls)
  BY <1>1, <1>2, MemoryStep
<1>4. cycle'.pc = cycle.pc /\ cycle'.todo = cycle.todo /\ cycle'.last = cycle.last
  BY <1>1, <1>2 DEF CycleType
<1>5. CycleOK(cycle', calls)
  BY <1>3, <1>4 DEF JournalInv, CycleOK
<1> QED  BY <1>1, <1>5, GuardKeepsJournal DEF JournalInv

\* What a cycle looks at is closed.
LEMMA CheckedIsClosed ==
    ASSUME JournalInv, NEW s \in Symbols, NEW c \in Candles, Checking(s, c)
    PROVE  cycle.pc = "check" /\ c <= cycle.last /\ c + CandleStep <= now /\ c = NextCandle(cycle, s)
           /\ cycle.last \in Int
<1>1. now \in Nat /\ CandleStep \in Nat /\ c \in Nat
  BY BoundsAssumption, SizesAssumption, CandleIs DEF JournalInv
<1>2. Pending(cycle) # {} /\ s = Min(Pending(cycle)) /\ c = NextCandle(cycle, s)
  BY DEF Checking
<1>3. Pending(cycle) \subseteq Symbols /\ IsFiniteSet(Pending(cycle)) /\ Pending(cycle) \subseteq Nat
  <2>1. Pending(cycle) \subseteq Symbols
    BY DEF Pending, JournalInv, CycleOK, CycleType
  <2> QED  BY <2>1, FS_Subset, SizesAssumption
<1>4. s \in Pending(cycle)
  BY <1>2, <1>3, MinIsIn
<1>5. s \in cycle.todo /\ c <= cycle.last
  BY <1>2, <1>4 DEF Pending
<1>6. cycle.pc = "check" /\ cycle.last \in Int /\ cycle.last + CandleStep <= now
  BY <1>5 DEF JournalInv, CycleOK, CycleType
<1> QED  BY <1>1, <1>2, <1>5, <1>6

\* The calls that propose a record have made sure that it is legal.
LEMMA OpenAccountIsLegal ==
    ASSUME JournalInv, NEW a \in Programs, OpenAccount(a)  PROVE JournalInv'
<1>1. /\ journal = <<>> /\ Propose(a, now, "account", NoSymbol, 0, 0)
      /\ UNCHANGED <<now, touches, journal, staged, cycle, cursor, acked, events>>
  BY DEF OpenAccount, marketVars, guardVars
<1>2. Legal(journal, Record(calls + 1, now, "account", NoSymbol, 0, 0))
  BY <1>1 DEF Legal, InOrder, Record, Trades
<1>3. "account" \in Kinds /\ now \in 0..MaxClock /\ events' \in 0..MaxEvents
  BY <1>1 DEF Kinds, JournalInv
<1> QED  BY <1>1, <1>2, <1>3, ZeroIsCandle, ProposeKeepsJournal

LEMMA EventCounts == ASSUME JournalInv, Happens  PROVE events' \in 0..MaxEvents
<1>1. events \in 0..MaxEvents /\ events < MaxEvents /\ events' = events + 1 /\ MaxEvents \in Nat
  BY BoundsAssumption DEF JournalInv, Happens
<1> QED  BY <1>1

LEMMA SetControlIsLegal ==
    ASSUME JournalInv, NEW kind \in Controls, SetControl(kind)  PROVE JournalInv'
<1>1. /\ journal # <<>> /\ InOrder(journal, now) /\ Happens
      /\ Propose("desk", now, kind, NoSymbol, 0, 0)
      /\ UNCHANGED <<now, touches, journal, staged, cycle, cursor, acked>>
  BY DEF SetControl, DeskCall, marketVars, guardVars
<1>2. kind # "account" /\ kind \notin Trades
  BY ControlsAssumption DEF Trades
<1>3. Legal(journal, Record(calls + 1, now, kind, NoSymbol, 0, 0))
  BY <1>1, <1>2 DEF Legal, Record
<1>4. kind \in Kinds /\ now \in 0..MaxClock /\ "desk" \in Programs
  BY DEF Kinds, JournalInv, Programs
<1> QED  BY <1>1, <1>3, <1>4, ZeroIsCandle, EventCounts, ProposeKeepsJournal

LEMMA SubmitOrderIsLegal ==
    ASSUME JournalInv, NEW order \in Orders, SubmitOrder(order)  PROVE JournalInv'
<1> PICK kind, symbol, quantity : kind = order.kind /\ symbol = order.symbol /\ quantity = order.quantity
  OBVIOUS
<1>1. /\ journal # <<>> /\ InOrder(journal, now) /\ Happens
      /\ Accepts(Replay(journal), kind, symbol, quantity)
      /\ Propose("desk", now, kind, symbol, quantity, 0)
      /\ UNCHANGED <<now, touches, journal, staged, cycle, cursor, acked>>
  BY DEF SubmitOrder, DeskCall, marketVars, guardVars
<1>2. /\ kind \in {"open", "reduce", "close", "reverse"} /\ symbol \in Symbols
      /\ quantity \in Nat /\ quantity # 0
  BY OrdersAssumption
<1>3. LegalTrade(Replay(journal), Record(calls + 1, now, kind, symbol, quantity, 0))
  BY <1>1, <1>2 DEF LegalTrade, Record, Accepts, WithinLimits
<1>4. Legal(journal, Record(calls + 1, now, kind, symbol, quantity, 0))
  BY <1>1, <1>2, <1>3 DEF Legal, Record
<1>5. kind \in Kinds /\ symbol \in Symbols \cup {NoSymbol} /\ now \in 0..MaxClock /\ "desk" \in Programs
  BY <1>2 DEF Kinds, Trades, JournalInv, Programs
<1> QED  BY <1>1, <1>2, <1>4, <1>5, ZeroIsCandle, EventCounts, ProposeKeepsJournal

LEMMA ExitIsLegal ==
    ASSUME JournalInv, NEW s \in Symbols, NEW c \in Candles, Exit(s, c)  PROVE JournalInv'
<1>1. /\ Checking(s, c) /\ Tradable(Replay(journal)) /\ InOrder(journal, CloseOf(c))
      /\ Replay(journal).positions[s] # NoPosition
      /\ Propose("guard", CloseOf(c), "exit", s, 0, c)
      /\ UNCHANGED <<now, touches, journal, staged, cycle, cursor, acked, events>>
  BY DEF Exit, MustExit, CanExit, marketVars, guardVars
<1>2. journal # <<>>
  BY <1>1, ReplayEmpty DEF Blank
<1>3. LegalTrade(Replay(journal), Record(calls + 1, CloseOf(c), "exit", s, 0, c))
  BY <1>1 DEF LegalTrade, Record
<1>4. Legal(journal, Record(calls + 1, CloseOf(c), "exit", s, 0, c))
  BY <1>1, <1>2, <1>3 DEF Legal, Record
<1>5. CloseOf(c) \in 0..MaxClock
  <2>1. c + CandleStep <= now /\ c \in Nat /\ CandleStep \in Nat \ {0} /\ now \in 0..MaxClock /\ MaxClock \in Nat
    BY <1>1, CheckedIsClosed, CandleIs, SizesAssumption, BoundsAssumption DEF JournalInv
  <2> QED  BY <2>1 DEF CloseOf
<1>6. "exit" \in Kinds /\ "guard" \in Programs /\ events' \in 0..MaxEvents
  BY <1>1 DEF Kinds, Trades, Programs, JournalInv
<1> QED  BY <1>1, <1>4, <1>5, <1>6, ProposeKeepsJournal

LEMMA NextKeepsJournal == JournalInv /\ [Next]_vars => JournalInv'
<1> SUFFICES ASSUME JournalInv, [Next]_vars  PROVE JournalInv'
  OBVIOUS
<1>0. calls \in Nat /\ CycleOK(cycle, calls) /\ cursor \in MemoriesUpTo(calls)
  BY DEF JournalInv
<1>1. CASE Tick
  BY <1>1, TickKeepsJournal
<1>2. ASSUME NEW order \in Orders, SubmitOrder(order)  PROVE JournalInv'
  BY <1>2, SubmitOrderIsLegal
<1>3. ASSUME NEW kind \in Controls, SetControl(kind)  PROVE JournalInv'
  BY <1>3, SetControlIsLegal
<1>4. ASSUME NEW a \in Programs, OpenAccount(a)  PROVE JournalInv'
  BY <1>4, OpenAccountIsLegal
<1>5. ASSUME NEW a \in Programs, Stage(a)  PROVE JournalInv'
  BY <1>5, StageKeepsJournal
<1>6. ASSUME NEW a \in Programs, Commit(a)  PROVE JournalInv'
  BY <1>6, CommitKeepsJournal
<1>7. ASSUME NEW a \in Programs, Raise(a)  PROVE JournalInv'
  <2>1. /\ Leave(a) /\ staged' = NoFile /\ (cycle' = cycle \/ cycle' = NoCycle)
        /\ UNCHANGED <<now, touches, journal, cursor, acked, calls>>
        /\ Happens \/ UNCHANGED events
    BY <1>7 DEF Raise, marketVars
  <2>2. events' \in 0..MaxEvents
    BY <2>1, EventCounts DEF JournalInv
  <2> QED  BY <2>1, <2>2, AbandonKeepsJournal
<1>8. ASSUME NEW a \in Programs, Crash(a)  PROVE JournalInv'
  <2>1. /\ Leave(a) /\ staged' = staged /\ (cycle' = cycle \/ cycle' = NoCycle) /\ Happens
        /\ UNCHANGED <<now, touches, journal, cursor, acked, calls>>
    BY <1>8 DEF Crash, marketVars
  <2> QED  BY <2>1, EventCounts, AbandonKeepsJournal
<1>9. CASE BeginCycle
  BY <1>9, BeginCycleKeepsJournal
<1>10. CASE EndCycle
  <2>1. /\ cycle' = NoCycle /\ cursor' = cycle.memory
        /\ UNCHANGED <<now, touches, journal, staged, call, acked, calls, events>>
    BY <1>10 DEF EndCycle, marketVars
  <2>2. cursor' \in MemoriesUpTo(calls) /\ CycleOK(cycle', calls)
    BY <1>0, <2>1, NoCycleOK DEF CycleOK, CycleType
  <2> QED  BY <2>1, <2>2, GuardKeepsJournal DEF JournalInv
<1>11. ASSUME NEW s \in Symbols, NEW c \in Candles, Hold(s, c)  PROVE JournalInv'
  BY <1>11, HoldKeepsJournal
<1>12. ASSUME NEW s \in Symbols, NEW c \in Candles, Exit(s, c)  PROVE JournalInv'
  BY <1>12, ExitIsLegal
<1>13. ASSUME NEW s \in Symbols, NEW c \in Candles, RefuseExit(s, c)  PROVE JournalInv'
  <2>1. /\ cycle' = NoCycle /\ cursor' = cursor
        /\ UNCHANGED <<now, touches, journal, staged, call, acked, calls, events>>
    BY <1>13 DEF RefuseExit, AfterRefusal, marketVars
  <2> QED  BY <1>0, <2>1, NoCycleOK, GuardKeepsJournal DEF JournalInv
<1>14. CASE AbandonCycle
  <2>1. /\ cycle' = NoCycle /\ cursor' = cursor
        /\ UNCHANGED <<now, touches, journal, staged, call, acked, calls>>
        /\ Happens \/ UNCHANGED events
    BY <1>14 DEF AbandonCycle, marketVars
  <2>2. events' \in 0..MaxEvents
    BY <2>1, EventCounts DEF JournalInv
  <2> QED  BY <1>0, <2>1, <2>2, NoCycleOK, GuardKeepsJournal
<1>15. CASE UNCHANGED vars
  <2>1. UNCHANGED <<now, touches, journal, staged, call, cycle, cursor, acked, calls, events>>
    BY <1>15 DEF vars, marketVars, guardVars
  <2> QED  BY <1>0, <2>1, GuardKeepsJournal DEF JournalInv
<1> QED
  BY <1>1, <1>2, <1>3, <1>4, <1>5, <1>6, <1>7, <1>8, <1>9, <1>10, <1>11, <1>12, <1>13, <1>14, <1>15 DEF Next, Write, Cycle

LEMMA JournalInvariant == Spec => []JournalInv
<1>1. Init => JournalInv
  BY InitJournal
<1>2. JournalInv /\ [Next]_vars => JournalInv'
  BY NextKeepsJournal
<1> QED  BY <1>1, <1>2, PTL DEF Spec

\* The files and what the programs hold are of their types, whoever writes, and a
\* position that a journal replays to is of a quantity.
THEOREM TypeCorrect == Spec => []TypeOK
<1>1. JournalInv => TypeOK
  <2> SUFFICES ASSUME JournalInv PROVE TypeOK
    OBVIOUS
  <2>1. /\ journal \in Seq(RecordsOf(1..calls)) /\ staged \in Seq(RecordsOf(1..calls))
        /\ call \in [Programs -> CallType(calls)]
    BY DEF JournalInv, Lawful, CallsLawful
  <2>2. /\ cycle.pc \in {"off", "check"} /\ cycle.last \in Int /\ cycle.todo \subseteq Symbols
        /\ cycle.memory \in Memories /\ cursor \in Memories
    BY DEF JournalInv, CycleOK, CycleType, Memories, MemoriesUpTo
  <2>3. \A s \in Held(Replay(journal)) : Replay(journal).positions[s].quantity \in Nat \ {0}
    <3> SUFFICES ASSUME NEW s \in Symbols, Replay(journal).positions[s] # NoPosition
                 PROVE  Replay(journal).positions[s].quantity \in Nat \ {0}
      BY DEF Held
    <3>1. journal # <<>>
      BY ReplayEmpty DEF Blank
    <3>2. Replay(journal).positions[s].quantity # 0
      BY <3>1 DEF JournalInv, Lawful, HeldWell
    <3>3. Replay(journal).positions[s].quantity \in Nat
      BY TypesOfReplay DEF JournalInv, Lawful
    <3> QED  BY <3>2, <3>3
  <2> QED  BY <2>1, <2>2, <2>3 DEF TypeOK, JournalInv, CallType
<1> QED  BY <1>1, JournalInvariant, PTL

\* In whatever interleaving of the two programs, crashes and failing writes, the
\* journal reads as a lawful one: opened once, trades only while trading was allowed,
\* and the exposure within its limit at every record (evaluate_risk is asked about a
\* snapshot, but that snapshot is a prefix of what is renamed).
THEOREM HistoryLawful == Spec => []HistoryIsLawful
<1>1. JournalInv => HistoryIsLawful
  BY DEF JournalInv, Lawful, LawfulAt, HistoryIsLawful, Before, After
<1> QED  BY <1>1, JournalInvariant, PTL

-----------------------------------------------------------------------------
(* The exits and the cursor, with one writer at a time.                    *)

Pos == Replay(journal).positions

\* The touches T that are due for a position p of s.
Due(T, s, p) == {c \in Candles : c >= FirstFull(p.at) /\ <<s, c>> \in T}

\* An exit closes a position at the first of its touches.
OwnExit(T, S, r) ==
    LET p == S.positions[r.symbol]
    IN  p # NoPosition /\ r.candle \in Due(T, r.symbol, p) /\ \A c \in Due(T, r.symbol, p) : r.candle <= c

OwnExits(T, j) == \A i \in DOMAIN j : j[i].kind = "exit" => OwnExit(T, Replay(SubSeq(j, 1, i - 1)), j[i])

\* What the memory m (of the cycle or the cursor file) has passed is closed, and is
\* no touch of an open position in P.
Remembers(m, P, T, t) ==
    \A s \in Symbols :
        /\ m[s].id # 0 => m[s].last \in Candles /\ m[s].last + CandleStep <= t
        /\ P[s] # NoPosition /\ m[s].id = P[s].id => \A c \in Due(T, s, P[s]) : c > m[s].last

\* The positions a cycle c has seen are the present ones, or were closed, or others
\* were opened since, after the candles the cycle looks at.
Follows(c, P) ==
    c.pc = "check" => \A s \in Symbols :
        \/ P[s] = NoPosition
        \/ P[s].id = c.seen[s].id /\ P[s].at = c.seen[s].at
        \/ P[s].id # c.seen[s].id /\ P[s].at >= c.last + CandleStep

\* The record r that is about to be written is new to the cycle c and the cursor m.
Newer(c, m, r) ==
    /\ \A s \in Symbols : c.seen[s].id < r.id /\ c.memory[s].id < r.id /\ m[s].id < r.id
    /\ c.pc = "check" /\ r.kind # "exit" => r.at >= c.last + CandleStep

Closed(T, t) == \A s \in Symbols, c \in Candles : <<s, c>> \in T => c + CandleStep <= t

OwnInv ==
    /\ Closed(touches, now)
    /\ Remembers(cursor, Pos, touches, now) /\ Remembers(cycle.memory, Pos, touches, now)
    /\ OwnExits(touches, journal)
    /\ Follows(cycle, Pos)
    /\ \A a \in Programs : Writing(a) =>
          OwnExits(touches, call[a].updated) /\ Newer(cycle, cursor, Last(call[a].updated))

\* Only the candle that closes now is added, and nothing has passed it.
LEMMA TickKeepsOwn ==
    ASSUME JournalInv, OwnInv, Tick  PROVE OwnInv'
<1>1. now' = now + 1 /\ now < MaxClock /\ UNCHANGED <<journal, staged, call, cycle, cursor>>
  BY DEF Tick, guardVars
<1>2. now \in 0..MaxClock /\ now \in Nat /\ CandleStep \in Nat \ {0}
  BY BoundsAssumption, SizesAssumption DEF JournalInv
<1> DEFINE n == now + 1 - CandleStep
<1>3. /\ \A x : x \in touches => x \in touches'
      /\ \A s, c : <<s, c>> \in touches' => <<s, c>> \in touches \/ c = n
  <2>1. CASE (now + 1) % CandleStep = 0
    <3>1. PICK hit \in SUBSET Exposed : touches' = touches \cup (hit \X {now + 1 - CandleStep})
      BY <2>1 DEF Tick
    <3> QED  BY <3>1
  <2>2. CASE (now + 1) % CandleStep # 0
    BY <2>2 DEF Tick
  <2> QED  BY <2>1, <2>2
<1>4. Closed(touches', now')
  <2> SUFFICES ASSUME NEW s \in Symbols, NEW c \in Candles, <<s, c>> \in touches'
               PROVE  c + CandleStep <= now + 1
    BY <1>1 DEF Closed
  <2>1. <<s, c>> \in touches => c + CandleStep <= now
    BY DEF OwnInv, Closed
  <2>2. c \in Nat
    BY CandleIs
  <2> QED  BY <1>2, <1>3, <2>1, <2>2
<1>5. ASSUME NEW s \in Symbols, NEW p, NEW c \in Due(touches', s, p)
      PROVE  c \in Nat /\ (c \in Due(touches, s, p) \/ c = n)
  BY <1>3, <1>5, CandleIs DEF Due
<1>6. ASSUME NEW m, Remembers(m, Pos, touches, now)  PROVE Remembers(m, Pos, touches', now')
  <2> SUFFICES ASSUME NEW s \in Symbols
               PROVE  /\ m[s].id # 0 => m[s].last \in Candles /\ m[s].last + CandleStep <= now + 1
                      /\ Pos[s] # NoPosition /\ m[s].id = Pos[s].id =>
                            \A c \in Due(touches', s, Pos[s]) : c > m[s].last
    BY <1>1 DEF Remembers
  <2>1. /\ m[s].id # 0 => m[s].last \in Candles /\ m[s].last + CandleStep <= now
        /\ Pos[s] # NoPosition /\ m[s].id = Pos[s].id => \A c \in Due(touches, s, Pos[s]) : c > m[s].last
    BY <1>6 DEF Remembers
  <2>2. m[s].id # 0 => m[s].last \in Nat
    BY <2>1, CandleIs
  <2>3. Pos[s] # NoPosition => Pos[s].id # 0
    BY ReplayEmpty DEF Pos, JournalInv, Lawful, HeldWell, Blank
  <2>4. m[s].id # 0 => n > m[s].last /\ m[s].last + CandleStep <= now + 1
    BY <1>2, <2>1, <2>2
  <2> HIDE DEF n
  <2> QED  BY <1>5, <2>1, <2>3, <2>4
<1>7. ASSUME NEW j, Lawful(j, calls), OwnExits(touches, j)  PROVE OwnExits(touches', j)
  <2> SUFFICES ASSUME NEW i \in DOMAIN j, j[i].kind = "exit"
               PROVE  OwnExit(touches', Replay(SubSeq(j, 1, i - 1)), j[i])
    BY DEF OwnExits
  <2> DEFINE p == Replay(SubSeq(j, 1, i - 1)).positions[j[i].symbol]
             s == j[i].symbol
             e == j[i].candle
  <2>1. p # NoPosition /\ e \in Due(touches, s, p) /\ \A c \in Due(touches, s, p) : e <= c
    BY <1>7 DEF OwnExits, OwnExit
  <2>2. s \in Symbols
    BY <1>7 DEF Lawful, LawfulAt, Trades
  <2> HIDE DEF p, s, e
  <2>3. e \in Due(touches', s, p) /\ e \in Candles /\ <<s, e>> \in touches /\ e \in Nat
    BY <1>3, <2>1, CandleIs DEF Due
  <2>4. e <= n
    BY <1>2, <2>2, <2>3 DEF OwnInv, Closed
  <2>5. \A c \in Due(touches', s, p) : e <= c
    BY <1>5, <2>1, <2>2, <2>4
  <2> QED  BY <2>1, <2>3, <2>5 DEF OwnExit, p, s, e
<1>8. /\ Remembers(cursor, Pos, touches', now') /\ Remembers(cycle.memory, Pos, touches', now')
      /\ OwnExits(touches', journal)
      /\ \A a \in Programs : Writing(a) => OwnExits(touches', call[a].updated)
  BY <1>6, <1>7 DEF OwnInv, JournalInv, CallsLawful
<1> QED  BY <1>1, <1>4, <1>8 DEF OwnInv, Pos, Writing

\* A journal with one record more, which is no exit, or an own one.
LEMMA OwnGrows ==
    ASSUME NEW T, NEW n, NEW j \in Seq(RecordsOf(1..n)), NEW r \in RecordsOf(1..n), OwnExits(T, j),
           r.kind = "exit" => OwnExit(T, Replay(j), r)
    PROVE  OwnExits(T, Append(j, r))
<1> DEFINE k == Append(j, r)
           l == Len(j)
<1>1. /\ l \in Nat /\ DOMAIN j = 1..l /\ DOMAIN k = 1..(l + 1) /\ k[l + 1] = r
      /\ \A i \in DOMAIN j : k[i] = j[i]
  BY AppendLast
<1> SUFFICES ASSUME NEW i \in DOMAIN k, k[i].kind = "exit"
             PROVE  OwnExit(T, Replay(SubSeq(k, 1, i - 1)), k[i])
  BY DEF OwnExits
<1>2. CASE i \in 1..l
  <2>1. i - 1 \in 0..l
    BY <1>1, <1>2
  <2>2. SubSeq(k, 1, i - 1) = SubSeq(j, 1, i - 1)
    BY <2>1, PrefixOf
  <2>3. k[i] = j[i] /\ i \in DOMAIN j
    BY <1>1, <1>2
  <2> HIDE DEF k
  <2> QED  BY <2>2, <2>3 DEF OwnExits
<1>3. CASE i = l + 1
  <2>1. i - 1 = l
    BY <1>1, <1>3
  <2>2. SubSeq(k, 1, i - 1) = j
    BY <2>1, PrefixOf
  <2> HIDE DEF k
  <2> QED  BY <1>1, <1>3, <2>2
<1>4. i \in 1..l \/ i = l + 1
  BY <1>1
<1> QED  BY <1>2, <1>3, <1>4

\* A call proposes a record: nobody else is writing, and the record is new.
LEMMA ProposeKeepsOwn ==
    ASSUME JournalInv, OwnInv, OneWriter, NEW a \in Programs, MayEnter(a), NEW at \in 0..MaxClock, NEW kind \in Kinds,
           NEW symbol \in Symbols \cup {NoSymbol}, NEW quantity \in Nat, NEW candle \in Candles,
           Propose(a, at, kind, symbol, quantity, candle),
           UNCHANGED <<now, touches, journal, cycle, cursor>>,
           kind # "exit" => at = now,
           kind = "exit" => OwnExit(touches, Replay(journal), Record(calls + 1, at, kind, symbol, quantity, candle))
    PROVE  OwnInv'
<1> DEFINE r == Record(calls + 1, at, kind, symbol, quantity, candle)
           m == calls + 1
<1>0. calls \in Nat /\ m \in Nat /\ calls <= m /\ m \in 1..m
  BY DEF JournalInv
<1>1. r \in RecordsOf(1..m) /\ r.id = m /\ r.kind = kind /\ r.at = at
  BY <1>0 DEF RecordsOf, Record, Kinds
<1>2. call' = [call EXCEPT ![a] = [pc |-> "stage", updated |-> Append(journal, r)]]
      /\ call \in [Programs -> CallType(calls)]
  BY DEF Propose, JournalInv, CallsLawful
<1>3. \A b \in Programs : ~Writing(b)
  BY DEF MayEnter, Writing
<1>4. \A b \in Programs : Writing(b)' => b = a
  BY <1>2, <1>3 DEF Writing
<1>5. call'[a].updated = Append(journal, r)
  BY <1>2
<1>6. journal \in Seq(RecordsOf(1..m))
  BY <1>0, LawfulLater DEF JournalInv, Lawful
<1>7. kind = "exit" => OwnExit(touches, Replay(journal), r)
  OBVIOUS
<1> HIDE DEF r
<1>8. Last(call'[a].updated) = r
  BY <1>1, <1>5, <1>6, AppendLast
<1>9. OwnExits(touches, Append(journal, r))
  <2> HIDE DEF m
  <2>1. OwnExits(touches, journal)
    BY DEF OwnInv
  <2> QED  BY <1>1, <1>6, <1>7, <2>1, OwnGrows
<1>10. Newer(cycle, cursor, r)
  <2>1. \A s \in Symbols : cycle.seen[s].id \in 0..calls /\ cycle.memory[s].id \in 0..calls /\ cursor[s].id \in 0..calls
    BY DEF JournalInv, CycleOK, CycleType, PositionsUpTo, MemoriesUpTo
  <2>2. \A x \in 0..calls : x < m
    BY <1>0
  <2>3. cycle.pc = "check" => now >= cycle.last + CandleStep
    <3>1. cycle.pc = "check" => cycle.last + CandleStep <= now /\ cycle.last \in Int
      BY DEF JournalInv, CycleOK, CycleType
    <3>2. now \in Int /\ CandleStep \in Int
      BY BoundsAssumption, SizesAssumption DEF JournalInv
    <3> QED  BY <3>1, <3>2
  <2> QED  BY <1>1, <2>1, <2>2, <2>3 DEF Newer
<1>11. Closed(touches, now) /\ Remembers(cursor, Pos, touches, now) /\ Remembers(cycle.memory, Pos, touches, now)
       /\ OwnExits(touches, journal) /\ Follows(cycle, Pos)
  BY DEF OwnInv
<1>12. touches' = touches /\ now' = now /\ journal' = journal /\ cycle' = cycle /\ cursor' = cursor /\ Pos' = Pos
  BY DEF Pos
<1>13. \A b \in Programs : Writing(b)' =>
           OwnExits(touches', call'[b].updated) /\ Newer(cycle', cursor', Last(call'[b].updated))
  BY <1>4, <1>5, <1>8, <1>9, <1>10, <1>12
<1> QED  BY <1>11, <1>12, <1>13 DEF OwnInv

\* The positions after a rename.
LEMMA CommitPositions ==
    ASSUME JournalInv, WriterInv, NEW a \in Programs, Commit(a), NEW s \in Symbols
    PROVE  LET r == Last(call[a].updated) IN
           /\ \/ Pos'[s] = Pos[s]
              \/ Pos'[s] = NoPosition
              \/ r.kind # "exit" /\ Pos'[s].id = r.id /\ Pos'[s].at = r.at
              \/ Pos'[s].id = Pos[s].id /\ Pos'[s].at = Pos[s].at /\ Pos[s] # NoPosition
           /\ r.kind = "exit" => Pos'[r.symbol] = NoPosition
<1>1. journal' = call[a].updated /\ Writing(a)
  BY DEF Commit, WriterInv, Writing
<1>2. PICK r \in Recorded : call[a].updated = Append(journal, r)
  BY <1>1 DEF WriterInv, Extends
<1>3. journal \in Seq(Recorded)
  BY DEF WriterInv
<1>4. Last(call[a].updated) = r /\ Append(journal, r) # <<>>
  BY <1>2, <1>3, AppendLast
<1>5. Replay(journal') = Reduce(Replay(journal), r)
  BY <1>1, <1>2, <1>3, ReplayStep
<1>6. Replay(journal) \in States(calls) /\ Replay(journal') \in States(calls) /\ calls \in Nat
      /\ HeldWell(Replay(journal'), Last(journal').at)
  BY <1>1, <1>2, <1>4 DEF JournalInv, Lawful, CallsLawful
<1>7. r.kind = "exit" => r.symbol \in Symbols
  <2> DEFINE u == call[a].updated
  <2>1. Len(u) \in DOMAIN u /\ u[Len(u)] = r
    BY <1>2, <1>3, AppendLast
  <2>2. LawfulAt(u, Len(u))
    BY <2>1 DEF JournalInv, CallsLawful, Lawful
  <2> QED  BY <2>1, <2>2 DEF LawfulAt, Trades
<1> DEFINE p == Pos[s]
           e == Pos'[s]
<1>8. Replay(journal).positions \in [Symbols -> [id : 0..calls, at : 0..MaxClock, quantity : Nat]]
      /\ p \in [id : 0..calls, at : 0..MaxClock, quantity : Nat]
  BY <1>6, TypesOfReplay DEF Pos
<1>9. e = p \/ e = PositionAfter(p, r)
  BY <1>5, <1>8 DEF Reduce, Pos
<1>10. r.kind = "exit" => Pos'[r.symbol] = NoPosition
  <2>1. r.kind = "exit" => Pos' = [Pos EXCEPT ![r.symbol] = PositionAfter(@, r)]
    BY <1>5 DEF Reduce, Pos, Trades
  <2>2. r.kind = "exit" => PositionAfter(Pos[r.symbol], r) = NoPosition
    BY DEF PositionAfter
  <2> QED  BY <1>7, <1>8, <2>1, <2>2 DEF Pos
<1>11. e # NoPosition => e.id # 0
  BY <1>6 DEF HeldWell, Pos
<1>12. \/ e = p \/ e = NoPosition
       \/ r.kind # "exit" /\ e.id = r.id /\ e.at = r.at
       \/ e.id = p.id /\ e.at = p.at /\ p # NoPosition
  <2> HIDE DEF e, p
  <2>1. CASE e = PositionAfter(p, r) /\ r.kind \in {"open", "reverse"}
    <3>1. e = [id |-> r.id, at |-> r.at, quantity |-> r.quantity]
      BY <2>1 DEF PositionAfter
    <3> QED  BY <2>1, <3>1
  <2>2. CASE e = PositionAfter(p, r) /\ r.kind = "reduce"
    <3>1. e = [p EXCEPT !.quantity = @ - r.quantity]
      BY <2>2 DEF PositionAfter
    <3>2. e.id = p.id /\ e.at = p.at
      BY <1>8, <3>1
    <3>3. p = NoPosition => p.id = 0
      BY DEF NoPosition
    <3> QED  BY <1>11, <3>2, <3>3
  <2>3. CASE e = PositionAfter(p, r) /\ r.kind \notin {"open", "reverse", "reduce"}
    <3>1. e = NoPosition
      BY <2>3 DEF PositionAfter
    <3> QED  BY <3>1
  <2> QED  BY <1>9, <2>1, <2>2, <2>3
<1> QED  BY <1>4, <1>10, <1>12

LEMMA CommitKeepsOwn ==
    ASSUME JournalInv, WriterInv, OwnInv, NEW a \in Programs, Commit(a)
    PROVE  OwnInv'
<1> DEFINE r == Last(call[a].updated)
<1>1. /\ journal' = call[a].updated /\ Writing(a) /\ Leave(a)
      /\ UNCHANGED <<now, touches, cursor>>
      /\ r.kind = "exit" => AfterExit(r)
      /\ r.kind # "exit" => cycle' = cycle
  BY DEF Commit, WriterInv, Writing, marketVars
<1>2. OwnExits(touches, journal') /\ Newer(cycle, cursor, r) /\ Follows(cycle, Pos) /\ Closed(touches, now)
      /\ Remembers(cursor, Pos, touches, now) /\ Remembers(cycle.memory, Pos, touches, now)
  BY <1>1 DEF OwnInv
<1>3. \A b \in Programs : ~Writing(b)'
  BY <1>1 DEF Leave, WriterInv, Writing, NoCall
<1>4. \A s \in Symbols :
         \/ Pos'[s] = Pos[s] \/ Pos'[s] = NoPosition
         \/ r.kind # "exit" /\ Pos'[s].id = r.id /\ Pos'[s].at = r.at
         \/ Pos'[s].id = Pos[s].id /\ Pos'[s].at = Pos[s].at /\ Pos[s] # NoPosition
  BY CommitPositions
<1>5. r.kind = "exit" => Pos'[r.symbol] = NoPosition
  <2>1. r.kind = "exit" => r.symbol \in Symbols
    <3> DEFINE u == call[a].updated
    <3>1. u # <<>> /\ Lawful(u, calls)
      BY <1>1 DEF JournalInv, CallsLawful, Writing
    <3>2. Len(u) \in DOMAIN u /\ r = u[Len(u)]
      <4>1. u \in Seq(RecordsOf(1..calls))
        BY <3>1 DEF Lawful
      <4> HIDE DEF u
      <4> QED  BY <3>1, <4>1 DEF Last, u
    <3> QED  BY <3>1, <3>2 DEF Lawful, LawfulAt, Trades
  <2> QED  BY <2>1, CommitPositions
<1>6. cycle \in CycleType(calls) /\ cursor \in MemoriesUpTo(calls) /\ r \in RecordsOf(1..calls) /\ calls \in Nat
  <2>1. call[a].updated \in Seq(RecordsOf(1..calls)) /\ call[a].updated # <<>>
    BY <1>1 DEF JournalInv, CallsLawful, Lawful, Writing
  <2>2. r \in RecordsOf(1..calls)
    <3> DEFINE u == call[a].updated
    <3> HIDE DEF u
    <3>1. u \in Seq(RecordsOf(1..calls)) /\ u # <<>>
      BY <2>1 DEF u
    <3>2. Last(u) \in RecordsOf(1..calls)
      BY <3>1 DEF Last
    <3> QED  BY <3>2 DEF u
  <2> QED  BY <2>2 DEF JournalInv, CycleOK
<1> HIDE DEF r
<1>7. ASSUME NEW m \in MemoriesUpTo(calls), Remembers(m, Pos, touches, now), \A s \in Symbols : m[s].id < r.id
      PROVE  Remembers(m, Pos', touches, now)
  <2> SUFFICES ASSUME NEW s \in Symbols, Pos'[s] # NoPosition, m[s].id = Pos'[s].id, NEW c \in Due(touches, s, Pos'[s])
               PROVE  c > m[s].last
    BY <1>7 DEF Remembers
  <2>1. m[s].id # r.id
    <3>1. m[s].id \in 0..calls /\ r.id \in Nat
      BY <1>6, RecordTypes DEF MemoriesUpTo
    <3>2. m[s].id \in Nat /\ m[s].id < r.id
      BY <1>6, <1>7, <3>1
    <3> QED  BY <3>1, <3>2
  <2>2. Pos[s] # NoPosition /\ m[s].id = Pos[s].id /\ Pos'[s].at = Pos[s].at
    BY <1>4, <2>1
  <2>3. c \in Due(touches, s, Pos[s])
    BY <2>2 DEF Due
  <2> QED  BY <1>7, <2>2, <2>3 DEF Remembers
<1>8. Remembers(cursor, Pos', touches, now) /\ Remembers(cycle.memory, Pos', touches, now)
  <2>1. cycle.memory \in MemoriesUpTo(calls)
    BY <1>6 DEF CycleType
  <2>2. \A s \in Symbols : cycle.memory[s].id < r.id /\ cursor[s].id < r.id
    BY <1>2 DEF Newer
  <2> QED  BY <1>2, <1>6, <1>7, <2>1, <2>2
<1>9. Follows(cycle, Pos')
  <2> SUFFICES ASSUME cycle.pc = "check", NEW s \in Symbols
               PROVE  \/ Pos'[s] = NoPosition
                      \/ Pos'[s].id = cycle.seen[s].id /\ Pos'[s].at = cycle.seen[s].at
                      \/ Pos'[s].id # cycle.seen[s].id /\ Pos'[s].at >= cycle.last + CandleStep
    BY DEF Follows
  <2>1. \/ Pos[s] = NoPosition
        \/ Pos[s].id = cycle.seen[s].id /\ Pos[s].at = cycle.seen[s].at
        \/ Pos[s].id # cycle.seen[s].id /\ Pos[s].at >= cycle.last + CandleStep
    BY <1>2 DEF Follows
  <2>2. r.id # cycle.seen[s].id
    <3>1. cycle.seen[s].id \in 0..calls /\ r.id \in Nat
      BY <1>6, RecordTypes DEF CycleType, PositionsUpTo
    <3>2. cycle.seen[s].id \in Nat /\ cycle.seen[s].id < r.id
      BY <1>2, <1>6, <3>1 DEF Newer
    <3> QED  BY <3>1, <3>2
  <2>3. r.kind # "exit" => r.at >= cycle.last + CandleStep
    BY <1>2 DEF Newer
  <2> QED  BY <1>4, <2>1, <2>2, <2>3
<1>10. Follows(cycle', Pos') /\ Remembers(cycle'.memory, Pos', touches, now)
  <2>1. CASE r.kind # "exit"
    BY <1>1, <1>8, <1>9, <2>1
  <2>2. CASE r.kind = "exit"
    <3> DEFINE x == r.symbol
               m == [cycle.memory EXCEPT ![x] = [id |-> cycle.seen[x].id, last |-> r.candle]]
    <3>1. cycle'.pc = cycle.pc /\ cycle'.last = cycle.last /\ cycle'.seen = cycle.seen /\ cycle'.memory = m
      BY <1>1, <1>6, <2>2 DEF AfterExit, CycleType
    <3>2. Follows(cycle', Pos')
      BY <1>9, <3>1 DEF Follows
    <3>3. \A s \in Symbols : m[s] = IF s = x THEN [id |-> cycle.seen[x].id, last |-> r.candle] ELSE cycle.memory[s]
      BY <1>6 DEF CycleType, MemoriesUpTo
    <3>4. r.candle \in Candles /\ r.candle + CandleStep <= now
      <4> DEFINE u == call[a].updated
      <4>1. u # <<>> /\ Lawful(u, calls) /\ OwnExits(touches, u)
        BY <1>1, <1>2 DEF JournalInv, CallsLawful, Writing
      <4>2. Len(u) \in DOMAIN u /\ r = u[Len(u)]
        <5>1. u \in Seq(RecordsOf(1..calls))
          BY <4>1 DEF Lawful
        <5> HIDE DEF u
        <5>2. Len(u) \in DOMAIN u /\ Last(u) = u[Len(u)]
          BY <4>1, <5>1 DEF Last
        <5> QED  BY <5>2 DEF r, u
      <4>3. r.symbol \in Symbols
        BY <2>2, <4>1, <4>2 DEF Lawful, LawfulAt, Trades
      <4>4. r.candle \in Candles /\ <<r.symbol, r.candle>> \in touches
        BY <2>2, <4>1, <4>2 DEF OwnExits, OwnExit, Due
      <4> QED  BY <1>2, <4>3, <4>4 DEF Closed
    <3>5. Remembers(m, Pos', touches, now)
      <4> SUFFICES ASSUME NEW s \in Symbols
                   PROVE  /\ m[s].id # 0 => m[s].last \in Candles /\ m[s].last + CandleStep <= now
                          /\ Pos'[s] # NoPosition /\ m[s].id = Pos'[s].id =>
                                \A c \in Due(touches, s, Pos'[s]) : c > m[s].last
        BY DEF Remembers
      <4>1. CASE s # x
        <5>1. m[s] = cycle.memory[s]
          BY <3>3, <4>1
        <5> HIDE DEF m
        <5> QED  BY <1>8, <5>1 DEF Remembers
      <4>2. CASE s = x
        <5>1. m[s].last = r.candle /\ Pos'[s] = NoPosition
          BY <1>5, <2>2, <3>3, <4>2
        <5> HIDE DEF m
        <5> QED  BY <3>4, <5>1
      <4> QED  BY <4>1, <4>2
    <3> HIDE DEF m
    <3> QED  BY <3>1, <3>2, <3>5
  <2> QED  BY <2>1, <2>2
<1>11. Closed(touches, now)' /\ OwnExits(touches', journal') /\ Remembers(cursor', Pos', touches', now')
       /\ Remembers(cycle'.memory, Pos', touches', now') /\ Follows(cycle', Pos')
  BY <1>1, <1>2, <1>8, <1>10 DEF Closed
<1> QED  BY <1>3, <1>11 DEF OwnInv

\* No touch of the position a cycle has seen comes before the candle it looks at.
LEMMA NextIsFirst ==
    ASSUME JournalInv, OwnInv, NEW s \in Symbols, NEW c \in Candles, Checking(s, c),
           Pos[s] # NoPosition, Pos[s].id = cycle.seen[s].id
    PROVE  /\ c >= FirstFull(Pos[s].at)
           /\ \A e \in Due(touches, s, Pos[s]) : c <= e
<1>1. cycle.pc = "check" /\ c = NextCandle(cycle, s)
  BY CheckedIsClosed
<1>2. Pos[s].at = cycle.seen[s].at
  BY <1>1 DEF OwnInv, Follows
<1> DEFINE m == cycle.memory[s]
           first == FirstFull(Pos[s].at)
<1>3. c = IF m.id = Pos[s].id /\ m.last + CandleStep > first THEN m.last + CandleStep ELSE first
  BY <1>1, <1>2 DEF NextCandle
<1>4. c \in Nat /\ first \in Int /\ CandleStep \in Nat
  <2>1. Pos[s].at \in Nat
    BY TypesOfReplay DEF JournalInv, Lawful, Pos
  <2>2. CandleStep \in Nat \ {0}
    BY SizesAssumption
  <2>3. (Pos[s].at + CandleStep - 1) \div CandleStep \in Int
    BY <2>1, <2>2
  <2>4. first \in Int
    BY <2>2, <2>3 DEF FirstFull
  <2> QED  BY <2>2, <2>4, CandleIs
<1>5. m.id = Pos[s].id => m.last \in Candles /\ \A e \in Due(touches, s, Pos[s]) : e > m.last
  <2>1. Pos[s].id # 0
    BY ReplayEmpty DEF Pos, JournalInv, Lawful, HeldWell, Blank
  <2> QED  BY <2>1 DEF OwnInv, Remembers
<1>6. ASSUME NEW e \in Due(touches, s, Pos[s])  PROVE c <= e
  <2>1. e \in Candles /\ e \in Nat /\ e >= first
    BY CandleIs DEF Due
  <2>2. m.id = Pos[s].id => m.last + CandleStep <= e
    <3>1. m.id = Pos[s].id => m.last \in Candles /\ m.last \in Nat /\ m.last < e
      BY <1>5, <2>1, CandleIs
    <3> HIDE DEF m
    <3> QED  BY <2>1, <3>1, CandlesApart
  <2> HIDE DEF m, first
  <2> QED  BY <1>3, <1>4, <2>1, <2>2
<1>7. c >= first
  <2>1. m.id = Pos[s].id => m.last \in Nat
    BY <1>5, CandleIs
  <2> HIDE DEF m, first
  <2> QED  BY <1>3, <1>4, <2>1
<1> QED  BY <1>6, <1>7

LEMMA HoldKeepsOwn ==
    ASSUME JournalInv, OwnInv, OneWriter, NEW s \in Symbols, NEW c \in Candles, Hold(s, c)
    PROVE  OwnInv'
<1>1. /\ Checking(s, c)
      /\ Pos[s] = NoPosition \/ <<s, c>> \notin touches
      /\ cycle' = [cycle EXCEPT !.memory[s] = [id |-> cycle.seen[s].id, last |-> c]]
      /\ UNCHANGED <<now, touches, journal, call, cursor>>
  BY DEF Hold, marketVars, Pos
<1>2. \A b \in Programs : ~Writing(b)
  BY <1>1 DEF Checking, MayEnter, Writing
<1>3. cycle \in CycleType(calls)
  BY DEF JournalInv, CycleOK
<1> DEFINE m == [cycle.memory EXCEPT ![s] = [id |-> cycle.seen[s].id, last |-> c]]
<1>4. cycle'.pc = cycle.pc /\ cycle'.last = cycle.last /\ cycle'.seen = cycle.seen /\ cycle'.memory = m
  BY <1>1, <1>3 DEF CycleType
<1>5. \A x \in Symbols : m[x] = IF x = s THEN [id |-> cycle.seen[s].id, last |-> c] ELSE cycle.memory[x]
  BY <1>3 DEF CycleType, MemoriesUpTo
<1> HIDE DEF m
<1>6. Remembers(m, Pos, touches, now)
  <2> SUFFICES ASSUME NEW x \in Symbols
               PROVE  /\ m[x].id # 0 => m[x].last \in Candles /\ m[x].last + CandleStep <= now
                      /\ Pos[x] # NoPosition /\ m[x].id = Pos[x].id =>
                            \A e \in Due(touches, x, Pos[x]) : e > m[x].last
    BY DEF Remembers
  <2>1. CASE x # s
    <3>1. m[x] = cycle.memory[x]
      BY <1>5, <2>1
    <3> QED  BY <3>1 DEF OwnInv, Remembers
  <2>2. CASE x = s
    <3>1. m[x].id = cycle.seen[s].id /\ m[x].last = c
      BY <1>5, <2>2
    <3>2. c + CandleStep <= now
      BY <1>1, CheckedIsClosed
    <3>3. ASSUME Pos[s] # NoPosition, Pos[s].id = cycle.seen[s].id, NEW e \in Due(touches, s, Pos[s])
          PROVE  e > c
      <4>1. c <= e /\ e \in Candles /\ <<s, e>> \in touches
        BY <1>1, <3>3, NextIsFirst DEF Due
      <4>2. e # c /\ e \in Nat /\ c \in Nat
        BY <1>1, <3>3, <4>1, CandleIs
      <4> QED  BY <4>1, <4>2
    <3> QED  BY <2>2, <3>1, <3>2, <3>3
  <2> QED  BY <2>1, <2>2
<1>7. Follows(cycle', Pos)
  BY <1>4 DEF OwnInv, Follows
<1>8. Pos' = Pos /\ \A b \in Programs : ~Writing(b)'
  BY <1>1, <1>2 DEF Pos, Writing
<1> QED  BY <1>1, <1>4, <1>6, <1>7, <1>8 DEF OwnInv, Closed

\* A position that was opened since the cycle began is out of its reach: its record
\* is later than the close of the candle.
LEMMA ExitIsOwn ==
    ASSUME JournalInv, OwnInv, NEW s \in Symbols, NEW c \in Candles, MustExit(s, c), CanExit(s, c), NEW n
    PROVE  OwnExit(touches, Replay(journal), Record(n, CloseOf(c), "exit", s, 0, c))
<1>1. /\ Checking(s, c) /\ Pos[s] # NoPosition /\ <<s, c>> \in touches /\ InOrder(journal, CloseOf(c))
  BY DEF MustExit, CanExit, Pos
<1>2. cycle.pc = "check" /\ c <= cycle.last /\ cycle.last \in Int
  BY <1>1, CheckedIsClosed
<1>3. Pos[s].id = cycle.seen[s].id
  <2> SUFFICES ASSUME Pos[s].at >= cycle.last + CandleStep  PROVE FALSE
    BY <1>1, <1>2 DEF OwnInv, Follows
  <2>1. journal # <<>>
    BY <1>1, ReplayEmpty DEF Pos, Blank
  <2>2. Pos[s].at <= Last(journal).at /\ Last(journal).at <= CloseOf(c)
    BY <1>1, <2>1 DEF JournalInv, Lawful, HeldWell, Pos, InOrder
  <2>3. Pos[s].at \in Nat
    BY TypesOfReplay DEF JournalInv, Lawful, Pos
  <2>4. Last(journal).at \in Nat
    <3>1. Last(journal) \in RecordsOf(1..calls) /\ calls \in Nat
      BY <2>1 DEF Last, JournalInv, Lawful
    <3> QED  BY <3>1, RecordTypes
  <2>5. c \in Nat /\ CandleStep \in Nat
    BY CandleIs, SizesAssumption
  <2> QED  BY <1>2, <2>2, <2>3, <2>4, <2>5 DEF CloseOf
<1>4. c \in Due(touches, s, Pos[s]) /\ \A e \in Due(touches, s, Pos[s]) : c <= e
  BY <1>1, <1>3, NextIsFirst DEF Due
<1> QED  BY <1>1, <1>4 DEF OwnExit, Record, Pos

\* The cycle ends, with or without saving its cursor, or a call is abandoned.
LEMMA AbandonKeepsOwn ==
    ASSUME JournalInv, OwnInv, UNCHANGED <<now, touches, journal>>,
           \A b \in Programs : call'[b] = call[b] \/ call'[b] = NoCall,
           \/ cycle' = cycle /\ cursor' = cursor
           \/ cycle' = NoCycle /\ cursor' \in {cursor, cycle.memory}
    PROVE  OwnInv'
<1>1. \A b \in Programs : Writing(b)' => Writing(b) /\ call'[b] = call[b]
  BY DEF Writing, NoCall
<1>2. Pos' = Pos
  BY DEF Pos
<1>3. /\ Closed(touches, now) /\ Remembers(cursor, Pos, touches, now) /\ Remembers(cycle.memory, Pos, touches, now)
      /\ OwnExits(touches, journal) /\ Follows(cycle, Pos)
      /\ \A b \in Programs : Writing(b) =>
          OwnExits(touches, call[b].updated) /\ Newer(cycle, cursor, Last(call[b].updated))
  BY DEF OwnInv
<1>4. CASE cycle' = cycle /\ cursor' = cursor
  BY <1>1, <1>2, <1>3, <1>4 DEF OwnInv
<1>5. CASE cycle' = NoCycle /\ cursor' \in {cursor, cycle.memory}
  <2>1. Remembers(NoCycle.memory, Pos, touches, now)
    <3>1. \A s \in Symbols : Pos[s] # NoPosition => Pos[s].id # 0
      BY ReplayEmpty DEF Pos, JournalInv, Lawful, HeldWell, Blank
    <3>2. \A s \in Symbols : NoCycle.memory[s].id = 0
      BY DEF NoCycle
    <3> QED  BY <3>1, <3>2 DEF Remembers
  <2>2. Follows(NoCycle, Pos)
    BY DEF Follows, NoCycle
  <2>3. ASSUME NEW b \in Programs, Writing(b)  PROVE Newer(NoCycle, cursor', Last(call[b].updated))
    <3> DEFINE r == Last(call[b].updated)
    <3>1. Newer(cycle, cursor, r)
      BY <1>3, <2>3
    <3>2. r.id \in Nat /\ r.id # 0
      <4> DEFINE u == call[b].updated
      <4>1. u \in Seq(RecordsOf(1..calls)) /\ u # <<>> /\ calls \in Nat
        BY <2>3 DEF JournalInv, CallsLawful, Lawful, Writing
      <4> HIDE DEF u
      <4>2. Last(u) \in RecordsOf(1..calls)
        BY <4>1 DEF Last
      <4>3. Last(u).id \in Nat /\ Last(u).id # 0
        BY <4>1, <4>2, RecordTypes
      <4> QED  BY <4>3 DEF u
    <3> HIDE DEF r
    <3>3. \A s \in Symbols : NoCycle.seen[s].id = 0 /\ NoCycle.memory[s].id = 0 /\ NoCycle.pc = "off"
      BY DEF NoCycle, NoPosition
    <3>4. 0 < r.id
      BY <3>2
    <3>5. \A s \in Symbols : cursor'[s].id < r.id
      BY <1>5, <3>1 DEF Newer
    <3>6. Newer(NoCycle, cursor', r)
      <4>1. NoCycle.pc # "check"
        BY DEF NoCycle
      <4> QED  BY <3>3, <3>4, <3>5, <4>1 DEF Newer
    <3> QED  BY <3>6 DEF r
  <2>4. Remembers(cursor', Pos, touches, now)
    BY <1>3, <1>5
  <2> QED  BY <1>1, <1>2, <1>3, <1>5, <2>1, <2>2, <2>3, <2>4 DEF OwnInv
<1> QED  BY <1>4, <1>5

LEMMA StageKeepsOwn == ASSUME JournalInv, OwnInv, NEW a \in Programs, Stage(a)  PROVE OwnInv'
<1>1. /\ call' = [call EXCEPT ![a].pc = "commit"] /\ call[a].pc = "stage"
      /\ UNCHANGED <<now, touches, journal, cycle, cursor>>
  BY DEF Stage, marketVars, guardVars
<1>2. \A b \in Programs : (Writing(b)' => Writing(b)) /\ call'[b].updated = call[b].updated
  BY <1>1 DEF Writing, JournalInv, CallsLawful, CallType
<1>3. Pos' = Pos
  BY <1>1 DEF Pos
<1> QED  BY <1>1, <1>2, <1>3 DEF OwnInv

LEMMA BeginCycleKeepsOwn == ASSUME JournalInv, OwnInv, OneWriter, BeginCycle  PROVE OwnInv'
<1>1. /\ cycle' = [pc |-> "check", last |-> LastClosed(now), todo |-> Held(Replay(journal)),
                   seen |-> Pos, memory |-> cursor]
      /\ MayEnter("guard")
      /\ UNCHANGED <<now, touches, journal, call, cursor>>
  BY DEF BeginCycle, marketVars, Pos
<1>2. \A b \in Programs : ~Writing(b)'
  BY <1>1 DEF MayEnter, Writing
<1>3. Pos' = Pos
  BY <1>1 DEF Pos
<1>4. Follows(cycle', Pos)
  BY <1>1 DEF Follows
<1>5. cycle'.memory = cursor
  BY <1>1
<1> QED  BY <1>1, <1>2, <1>3, <1>4, <1>5 DEF OwnInv

LEMMA InitOwn == Init => OwnInv
<1> SUFFICES ASSUME Init PROVE OwnInv
  OBVIOUS
<1>1. /\ touches = {} /\ journal = <<>> /\ cycle = NoCycle /\ cursor = [s \in Symbols |-> [id |-> 0, last |-> 0]]
      /\ \A b \in Programs : ~Writing(b)
  BY DEF Init, Writing, NoCall
<1>2. Closed(touches, now) /\ Follows(cycle, Pos)
  BY <1>1 DEF Closed, Follows, NoCycle
<1>3. OwnExits(touches, journal)
  BY <1>1 DEF OwnExits
<1>4. \A s \in Symbols : Pos[s] = NoPosition /\ cursor[s].id = 0 /\ cycle.memory[s].id = 0
  BY <1>1, ReplayEmpty DEF Pos, Blank, NoCycle
<1>5. Remembers(cursor, Pos, touches, now) /\ Remembers(cycle.memory, Pos, touches, now)
  BY <1>4 DEF Remembers
<1> QED  BY <1>1, <1>2, <1>3, <1>5 DEF OwnInv

LEMMA NextKeepsOwn ==
    ASSUME OneWriter, JournalInv, WriterInv, OwnInv, [Next]_vars
    PROVE  OwnInv'
<1>0. calls \in Nat /\ now \in 0..MaxClock /\ "guard" \in Programs /\ "desk" \in Programs /\ 0 \in Nat
      /\ NoSymbol \in Symbols \cup {NoSymbol}
  BY DEF JournalInv, Programs
<1>1. CASE Tick
  BY <1>1, TickKeepsOwn
<1>2. ASSUME NEW order \in Orders, SubmitOrder(order)  PROVE OwnInv'
  <2> PICK kind, symbol, quantity : kind = order.kind /\ symbol = order.symbol /\ quantity = order.quantity
    OBVIOUS
  <2>1. /\ MayEnter("desk") /\ Propose("desk", now, kind, symbol, quantity, 0)
        /\ UNCHANGED <<now, touches, journal, cycle, cursor>>
    BY <1>2 DEF SubmitOrder, DeskCall, marketVars, guardVars
  <2>2. kind \in Kinds /\ kind # "exit" /\ symbol \in Symbols /\ quantity \in Nat
    BY OrdersAssumption DEF Kinds, Trades
  <2> QED  BY <1>0, <2>1, <2>2, ZeroIsCandle, ProposeKeepsOwn
<1>3. ASSUME NEW kind \in Controls, SetControl(kind)  PROVE OwnInv'
  <2>1. /\ MayEnter("desk") /\ Propose("desk", now, kind, NoSymbol, 0, 0)
        /\ UNCHANGED <<now, touches, journal, cycle, cursor>>
    BY <1>3 DEF SetControl, DeskCall, marketVars, guardVars
  <2>2. kind \in Kinds /\ kind # "exit"
    BY ControlsAssumption DEF Kinds
  <2> QED  BY <1>0, <2>1, <2>2, ZeroIsCandle, ProposeKeepsOwn
<1>4. ASSUME NEW a \in Programs, OpenAccount(a)  PROVE OwnInv'
  <2>1. /\ MayEnter(a) /\ Propose(a, now, "account", NoSymbol, 0, 0)
        /\ UNCHANGED <<now, touches, journal, cycle, cursor>>
    BY <1>4 DEF OpenAccount, marketVars, guardVars
  <2>2. "account" \in Kinds
    BY DEF Kinds
  <2> QED  BY <1>0, <2>1, <2>2, ZeroIsCandle, ProposeKeepsOwn
<1>5. ASSUME NEW a \in Programs, Stage(a)  PROVE OwnInv'
  BY <1>5, StageKeepsOwn
<1>6. ASSUME NEW a \in Programs, Commit(a)  PROVE OwnInv'
  BY <1>6, CommitKeepsOwn
<1>7. ASSUME NEW a \in Programs, Raise(a) \/ Crash(a)  PROVE OwnInv'
  <2>1. /\ Leave(a) /\ cursor' = cursor /\ (cycle' = cycle \/ cycle' = NoCycle)
        /\ UNCHANGED <<now, touches, journal>>
    BY <1>7 DEF Raise, Crash, marketVars
  <2>2. \A b \in Programs : call'[b] = call[b] \/ call'[b] = NoCall
    BY <2>1 DEF Leave, JournalInv, CallsLawful
  <2> QED  BY <2>1, <2>2, AbandonKeepsOwn
<1>8. CASE BeginCycle
  BY <1>8, BeginCycleKeepsOwn
<1>9. CASE EndCycle
  <2>1. cycle' = NoCycle /\ cursor' = cycle.memory /\ UNCHANGED <<now, touches, journal, call>>
    BY <1>9 DEF EndCycle, marketVars
  <2> QED  BY <2>1, AbandonKeepsOwn
<1>10. ASSUME NEW s \in Symbols, NEW c \in Candles, Hold(s, c)  PROVE OwnInv'
  BY <1>10, HoldKeepsOwn
<1>11. ASSUME NEW s \in Symbols, NEW c \in Candles, Exit(s, c)  PROVE OwnInv'
  <2>1. /\ MustExit(s, c) /\ CanExit(s, c) /\ Propose("guard", CloseOf(c), "exit", s, 0, c)
        /\ UNCHANGED <<now, touches, journal, cycle, cursor>>
    BY <1>11 DEF Exit, marketVars, guardVars
  <2>2. MayEnter("guard") /\ Checking(s, c)
    BY <2>1 DEF MustExit, Checking
  <2>3. OwnExit(touches, Replay(journal), Record(calls + 1, CloseOf(c), "exit", s, 0, c))
    BY <2>1, ExitIsOwn
  <2>4. CloseOf(c) \in 0..MaxClock
    <3>1. c + CandleStep <= now /\ c \in Nat /\ CandleStep \in Nat \ {0} /\ MaxClock \in Nat
      BY <2>2, CheckedIsClosed, CandleIs, SizesAssumption, BoundsAssumption
    <3> QED  BY <1>0, <3>1 DEF CloseOf
  <2>5. "exit" \in Kinds /\ s \in Symbols \cup {NoSymbol}
    BY DEF Kinds, Trades
  <2> QED  BY <1>0, <2>1, <2>2, <2>3, <2>4, <2>5, ProposeKeepsOwn
<1>12. ASSUME NEW s \in Symbols, NEW c \in Candles, RefuseExit(s, c)  PROVE OwnInv'
  <2>1. cycle' = NoCycle /\ cursor' = cursor /\ UNCHANGED <<now, touches, journal, call>>
    BY <1>12 DEF RefuseExit, AfterRefusal, marketVars
  <2> QED  BY <2>1, AbandonKeepsOwn
<1>13. CASE AbandonCycle
  <2>1. cycle' = NoCycle /\ cursor' = cursor /\ UNCHANGED <<now, touches, journal, call>>
    BY <1>13 DEF AbandonCycle, marketVars
  <2> QED  BY <2>1, AbandonKeepsOwn
<1>14. CASE UNCHANGED vars
  <2>1. cycle' = cycle /\ cursor' = cursor /\ UNCHANGED <<now, touches, journal, call>>
    BY <1>14 DEF vars, marketVars, guardVars
  <2> QED  BY <2>1, AbandonKeepsOwn
<1> QED
  BY <1>1, <1>2, <1>3, <1>4, <1>5, <1>6, <1>7, <1>8, <1>9, <1>10, <1>11, <1>12, <1>13, <1>14 DEF Next, Write, Cycle

LEMMA OwnInvariant == ASSUME OneWriter PROVE Spec => []OwnInv
<1>1. Init => OwnInv
  BY InitOwn
<1>2. JournalInv /\ WriterInv /\ OwnInv /\ [Next]_vars => OwnInv'
  BY NextKeepsOwn
<1>3. Spec => []JournalInv /\ []WriterInv
  BY JournalInvariant, WriterInvariant
<1> QED  BY <1>1, <1>2, <1>3, PTL DEF Spec

\* What the properties call the due touches.
LEMMA DueIs ==
    ASSUME JournalInv, OwnInv, NEW s \in Symbols, NEW p
    PROVE  DueTouches(s, p) = Due(touches, s, p)
<1>1. now \in Nat
  BY BoundsAssumption DEF JournalInv
<1>2. \A c \in Candles : <<s, c>> \in touches => c <= LastClosed(now)
  BY <1>1, LastClosedIs DEF OwnInv, Closed
<1> QED  BY <1>2 DEF DueTouches, Due

\* With one writer at a time, every exit closes the position its candle belongs to, at
\* the first full candle that touched it, although the guard decides on positions it
\* read before and the desk may have closed, reversed or reopened them since
\* (ProductRuntime.replay, which compares the times, is all that keeps them apart).
THEOREM ExitEvidenceOwn == ASSUME OneWriter PROVE Spec => []ExitEvidenceIsOwn
<1>1. JournalInv /\ OwnInv => ExitEvidenceIsOwn
  <2> SUFFICES ASSUME JournalInv, OwnInv, NEW i \in DOMAIN journal, journal[i].kind = "exit"
               PROVE  LET p == Before(i).positions[journal[i].symbol]
                          due == DueTouches(journal[i].symbol, p)
                      IN  p # NoPosition /\ journal[i].candle \in due /\ \A c \in due : journal[i].candle <= c
    BY DEF ExitEvidenceIsOwn
  <2>1. OwnExit(touches, Before(i), journal[i])
    BY DEF OwnInv, OwnExits, Before
  <2>2. journal[i].symbol \in Symbols
    BY DEF JournalInv, Lawful, LawfulAt, Trades
  <2> QED  BY <2>1, <2>2, DueIs DEF OwnExit
<1> QED  BY <1>1, JournalInvariant, OwnInvariant, PTL

\* With one writer at a time, the cursor that the guard saves never passes a candle that
\* touched the open position, whatever crashes, fails or raises between.
THEOREM TouchesRemembered == ASSUME OneWriter PROVE Spec => []NoTouchForgotten
<1>1. JournalInv /\ OwnInv => NoTouchForgotten
  <2> SUFFICES ASSUME JournalInv, OwnInv, NEW s \in Symbols, Pos[s] # NoPosition, cursor[s].id = Pos[s].id
               PROVE  \A c \in DueTouches(s, Pos[s]) : c > cursor[s].last
    BY DEF NoTouchForgotten, Pos
  <2> QED  BY DueIs DEF OwnInv, Remembers
<1> QED  BY <1>1, JournalInvariant, OwnInvariant, PTL
=============================================================================

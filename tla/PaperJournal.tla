---------------------------- MODULE PaperJournal ----------------------------
(***************************************************************************)
(* The Paper journal of a laptop and the two programs that write it:       *)
(*                                                                         *)
(*   "desk"   ProductRuntime in the product server: orders and controls    *)
(*            (product_runtime.py, product_control_runtime.py);            *)
(*   "guard"  the protective-exit loop, which replays closed candles       *)
(*            against the open positions and closes those whose stop or    *)
(*            target was touched (nexus_product_paper_protective_exit*.py).*)
(*                                                                         *)
(* Every call reads the whole journal, decides on its replay, writes the   *)
(* longer journal to the shared file paper-events.tmp and renames it over  *)
(* the journal.  The threads of a program exclude each other through the   *)
(* lock of their ProductRuntime, so a program is one writer here.  Nothing *)
(* in the code excludes the other program; OneWriter is the rule of the    *)
(* documents that two Paper writers are never active, kept or not.         *)
(*                                                                         *)
(* One record stands for all the events of one command, which share a time *)
(* and are written together.  Prices and money are abstracted away: a      *)
(* position is its quantity, a candle either touches the protection of a   *)
(* position on its symbol or not, and orders that the risk gate refuses    *)
(* for a reason of money, or for the side, change nothing.                 *)
(***************************************************************************)
EXTENDS Integers, Sequences, FiniteSets, FiniteSetsExt, SequencesExt

CONSTANTS
    Symbols,          \* numbered in the order of their names
    Orders,           \* the orders that are submitted: kind, symbol, quantity
    MaxPosition,      \* 10% of the equity, in the same unit
    MaxExposure,      \* 30% of the equity
    CandleStep,       \* length of a candle in ticks of the clock
    MaxWindow,        \* candles a cycle looks at for one position, 1000
    OneWriter,        \* calls of the two programs never overlap
    Controls,         \* which controls the desk uses
    Faults,           \* kinds of faults: "crash", "disk", "fetch"
    MaxEvents,        \* bound: calls of the desk and faults together
    MaxClock          \* bound: end of time

ASSUME SizesAssumption == Symbols \subseteq Nat /\ IsFiniteSet(Symbols) /\ CandleStep \in Nat \ {0}
ASSUME LimitsAssumption == MaxPosition \in Nat /\ MaxExposure \in Nat /\ MaxWindow \in Nat
ASSUME BoundsAssumption == MaxEvents \in Nat /\ MaxClock \in Nat
ASSUME OrdersAssumption ==
    Orders \subseteq [kind : {"open", "reduce", "close", "reverse"}, symbol : Symbols, quantity : Nat \ {0}]
ASSUME WriterAssumption == OneWriter \in BOOLEAN
ASSUME ControlsAssumption == Controls \subseteq {"session_open", "session_close", "kill", "unkill"}

VARIABLES
    now,         \* the clock
    touches,     \* environment: <<symbol, opening time>> of the closed candles that touch
    journal,     \* paper-events.jsonl
    staged,      \* paper-events.tmp
    call,        \* the call in progress in each program
    cycle,       \* the cycle of the guard in progress
    cursor,      \* the cursor file of the guard
    acked,       \* history: records whose call returned
    calls,       \* number of calls that reached the journal
    events       \* number of calls of the desk and of faults

marketVars == <<now, touches>>
guardVars  == <<cycle, cursor>>
vars == <<marketVars, journal, staged, call, guardVars, acked, calls, events>>

-----------------------------------------------------------------------------
Programs == {"desk", "guard"}

Trades == {"open", "reduce", "close", "reverse", "exit"}

NoFile     == <<>>      \* a file that was written is not empty
NoSymbol   == -1
NoPosition == [id |-> 0, at |-> 0, quantity |-> 0]
NoCall     == [pc |-> "idle", updated |-> <<>>]
NoCycle    == [pc |-> "off", last |-> 0, todo |-> {}, seen |-> [s \in Symbols |-> NoPosition],
               memory |-> [s \in Symbols |-> [id |-> 0, last |-> 0]]]

Record(id, at, kind, symbol, quantity, candle) ==
    [id |-> id, at |-> at, kind |-> kind, symbol |-> symbol, quantity |-> quantity, candle |-> candle]

-----------------------------------------------------------------------------
(* The replay of a journal.                                                *)

\* The position after a trade.
PositionAfter(p, r) ==
    CASE r.kind \in {"open", "reverse"} -> [id |-> r.id, at |-> r.at, quantity |-> r.quantity]
      [] r.kind = "reduce"              -> [p EXCEPT !.quantity = @ - r.quantity]
      [] OTHER                          -> NoPosition

\* reduce_event
Reduce(state, r) ==
    [positions |-> IF r.kind \in Trades
                   THEN [state.positions EXCEPT ![r.symbol] = PositionAfter(@, r)]
                   ELSE state.positions,
     session   |-> r.kind \in {"account", "session_open"} \/ (state.session /\ r.kind # "session_close"),
     killed    |-> r.kind = "kill" \/ (state.killed /\ r.kind # "unkill")]

\* replay
Replay(j) ==
    FoldLeft(Reduce, [positions |-> [s \in Symbols |-> NoPosition], session |-> FALSE, killed |-> FALSE], j)

Held(state)     == {s \in Symbols : state.positions[s] # NoPosition}
Exposure(state) == SumFunction([s \in Symbols |-> state.positions[s].quantity])
Tradable(state) == state.session /\ ~state.killed

\* Mutant of InOrder: replay no longer compares the times of events.
InAnyOrder(j, at) == TRUE

\* The check of replay on the times of events, for a record added to j.
InOrder(j, at) == j # <<>> => Last(j).at <= at

\* Mutant of Reducible: a reduction may take more than is held.
ReducibleByAny(p, quantity) == p # NoPosition

\* Conditions of a reduction and of a close.
Reducible(p, quantity) == p # NoPosition /\ quantity < p.quantity

\* The limits of evaluate_risk.
WithinLimits(state, symbol, quantity) ==
    /\ state.positions[symbol].quantity + quantity <= MaxPosition
    /\ Exposure(state) + quantity <= MaxExposure

\* The risk gates and the checks of execute_paper_command.
Accepts(state, kind, symbol, quantity) ==
    LET p == state.positions[symbol]
    IN  /\ Tradable(state)
        /\ \/ kind = "open" /\ p = NoPosition /\ WithinLimits(state, symbol, quantity)
           \/ kind = "reverse" /\ p # NoPosition /\ quantity = p.quantity
                               /\ WithinLimits(state, symbol, quantity)
           \/ kind = "reduce" /\ Reducible(p, quantity)
           \/ kind = "close" /\ p # NoPosition /\ quantity = p.quantity

-----------------------------------------------------------------------------
Init ==
    /\ now = 0
    /\ touches = {}
    /\ journal = <<>>
    /\ staged = NoFile
    /\ call = [a \in Programs |-> NoCall]
    /\ cycle = NoCycle
    /\ cursor = [s \in Symbols |-> [id |-> 0, last |-> 0]]
    /\ acked = {}
    /\ calls = 0
    /\ events = 0

\* Symbols with a position, committed or about to be.
Exposed == Held(Replay(journal)) \cup UNION {Held(Replay(call[a].updated)) : a \in Programs}

\* Time passes; when a candle closes, it has touched the protection of some of the
\* positions (what it is to other symbols, nobody asks).  The clock starts with
\* the account.
Tick ==
    /\ journal # <<>>
    /\ now < MaxClock
    /\ now' = now + 1
    /\ IF (now + 1) % CandleStep = 0
       THEN \E hit \in SUBSET Exposed : touches' = touches \cup (hit \X {now + 1 - CandleStep})
       ELSE UNCHANGED touches
    /\ UNCHANGED <<journal, staged, call, guardVars, acked, calls, events>>

-----------------------------------------------------------------------------
(* A call that writes the journal, in three steps.                         *)

\* Mutant of MayEnter: the documented rule is not kept.
MayEnterBeside(a) == call[a].pc = "idle"

\* The lock of the program is free; under the documented rule that two Paper
\* writers are never active, the other program is not writing either.
MayEnter(a) == call[a].pc = "idle" /\ (OneWriter => \A b \in Programs : call[b].pc = "idle")

\* The call has decided to add a record to the journal it read.
Propose(a, at, kind, symbol, quantity, candle) ==
    /\ calls' = calls + 1
    /\ call' = [call EXCEPT ![a] =
                  [pc |-> "stage",
                   updated |-> Append(journal, Record(calls + 1, at, kind, symbol, quantity, candle))]]

\* _ensure_account of a runtime that finds the journal empty.
OpenAccount(a) ==
    /\ journal = <<>>
    /\ MayEnter(a)
    /\ Propose(a, now, "account", NoSymbol, 0, 0)
    /\ UNCHANGED <<marketVars, journal, staged, guardVars, acked, events>>

Happens == events < MaxEvents /\ events' = events + 1

DeskCall ==
    /\ journal # <<>>
    /\ Happens
    /\ MayEnter("desk")
    /\ InOrder(journal, now)
    /\ UNCHANGED <<marketVars, journal, staged, guardVars, acked>>

\* submit_paper_order of an order that is accepted; a rejected one changes nothing.
SubmitOrder(order) ==
    /\ DeskCall
    /\ Accepts(Replay(journal), order.kind, order.symbol, order.quantity)
    /\ Propose("desk", now, order.kind, order.symbol, order.quantity, 0)

\* set_session and set_kill_switch.
SetControl(kind) ==
    /\ DeskCall
    /\ Propose("desk", now, kind, NoSymbol, 0, 0)

\* _write_events: the temporary file is written and synced.
Stage(a) ==
    /\ call[a].pc = "stage"
    /\ staged' = call[a].updated
    /\ call' = [call EXCEPT ![a].pc = "commit"]
    /\ UNCHANGED <<marketVars, journal, guardVars, acked, calls, events>>

Leave(a) == call' = [call EXCEPT ![a] = NoCall]

\* Where the guard goes on after its exit was committed.
AfterExit(r) ==
    cycle' = [cycle EXCEPT !.todo = @ \ {r.symbol},
                           !.memory[r.symbol] = [id |-> cycle.seen[r.symbol].id, last |-> r.candle]]

\* _write_events: os.replace, and the call returns.
Commit(a) ==
    /\ call[a].pc = "commit"
    /\ staged # NoFile
    /\ journal' = staged
    /\ staged' = NoFile
    /\ acked' = acked \cup {Last(call[a].updated).id}
    /\ Leave(a)
    /\ IF Last(call[a].updated).kind = "exit" THEN AfterExit(Last(call[a].updated)) ELSE UNCHANGED cycle
    /\ UNCHANGED <<marketVars, cursor, calls, events>>

\* The call raises: the disk failed, or the other program has renamed or
\* removed the temporary file.  What is left of that file is removed.
Raise(a) ==
    /\ \/ call[a].pc # "idle" /\ "disk" \in Faults /\ Happens
       \/ call[a].pc = "commit" /\ staged = NoFile /\ UNCHANGED events
    /\ staged' = NoFile
    /\ Leave(a)
    /\ cycle' = IF a = "guard" THEN NoCycle ELSE cycle
    /\ UNCHANGED <<marketVars, journal, cursor, acked, calls>>

\* The program dies in a call or a cycle; the temporary file stays.
Crash(a) ==
    /\ call[a] # NoCall \/ (a = "guard" /\ cycle # NoCycle)
    /\ "crash" \in Faults /\ Happens
    /\ Leave(a)
    /\ cycle' = IF a = "guard" THEN NoCycle ELSE cycle
    /\ UNCHANGED <<marketVars, journal, staged, cursor, acked, calls>>

-----------------------------------------------------------------------------
(* The protective-exit loop.                                               *)

\* Opening and closing time of candles.
CloseOf(candle) == candle + CandleStep - 1
FirstFull(at)   == ((at + CandleStep - 1) \div CandleStep) * CandleStep
LastClosed(t)   == (t \div CandleStep - 1) * CandleStep

\* The candle to look at next for a symbol of the cycle c.
NextCandle(c, s) ==
    LET p == c.seen[s]
        m == c.memory[s]
    IN  IF m.id = p.id /\ m.last + CandleStep > FirstFull(p.at) THEN m.last + CandleStep ELSE FirstFull(p.at)

\* Symbols of the cycle c with closed candles it has not looked at.
Pending(c) == {s \in c.todo : NextCandle(c, s) <= c.last}

\* The closed candles to look at for a symbol of the cycle c.
Window(c, s) == (c.last - NextCandle(c, s)) \div CandleStep + 1

\* run_cycle takes the positions and reads its cursor.  Without a candle to look
\* at it changes nothing, and is no step.
BeginCycle ==
    /\ cycle = NoCycle
    /\ MayEnter("guard")
    /\ LET state == Replay(journal)
       IN  cycle' = [pc |-> "check", last |-> LastClosed(now), todo |-> Held(state),
                     seen |-> state.positions, memory |-> cursor]
    /\ Pending(cycle') # {}
    /\ UNCHANGED <<marketVars, journal, staged, call, cursor, acked, calls, events>>

\* The guard looks at this candle of the first symbol it has not finished.
Checking(s, candle) ==
    /\ Pending(cycle) # {} /\ s = Min(Pending(cycle))
    /\ candle = NextCandle(cycle, s) /\ Window(cycle, s) <= MaxWindow
    /\ call["guard"] = NoCall
    /\ MayEnter("guard")

\* evaluate_protective_exit: no position any more, or its protection was not touched.
Hold(s, candle) ==
    /\ Checking(s, candle)
    /\ Replay(journal).positions[s] = NoPosition \/ <<s, candle>> \notin touches
    /\ cycle' = [cycle EXCEPT !.memory[s] = [id |-> cycle.seen[s].id, last |-> candle]]
    /\ UNCHANGED <<marketVars, journal, staged, call, cursor, acked, calls, events>>

\* evaluate_protective_exit must close the position it finds.
MustExit(s, candle) ==
    /\ Checking(s, candle)
    /\ Replay(journal).positions[s] # NoPosition
    /\ <<s, candle>> \in touches

\* Mutant of CanExit: the gate of a reducing exit does not ask for the controls.
CanExitAlways(s, candle) == InOrder(journal, CloseOf(candle))

\* The gate of _risk_reducing_exit, and the replay of the longer journal: the
\* exit happened when the candle closed.
CanExit(s, candle) == Tradable(Replay(journal)) /\ InOrder(journal, CloseOf(candle))

\* evaluate_protective_exit closes the whole position.
Exit(s, candle) ==
    /\ MustExit(s, candle) /\ CanExit(s, candle)
    /\ Propose("guard", CloseOf(candle), "exit", s, 0, candle)
    /\ UNCHANGED <<marketVars, journal, staged, guardVars, acked, events>>

\* Mutant of AfterRefusal: the loop goes on with the next candle.
SkipRefused(s, candle) == cycle' = [cycle EXCEPT !.memory[s] = [id |-> cycle.seen[s].id, last |-> candle]]

\* The exception leaves run_cycle before the cursor is saved.
AfterRefusal(s, candle) == cycle' = NoCycle

\* evaluate_protective_exit raises.
RefuseExit(s, candle) ==
    /\ MustExit(s, candle) /\ ~CanExit(s, candle)
    /\ AfterRefusal(s, candle)
    /\ UNCHANGED <<marketVars, journal, staged, call, cursor, acked, calls, events>>

\* run_cycle raises on its way through the positions, and what it has seen is lost:
\* there are too many candles to look at, or the fetch fails or brings other ones.
AbandonCycle ==
    /\ Pending(cycle) # {} /\ call["guard"] = NoCall
    /\ \/ Window(cycle, Min(Pending(cycle))) > MaxWindow /\ UNCHANGED events
       \/ "fetch" \in Faults /\ Happens
    /\ cycle' = NoCycle
    /\ UNCHANGED <<marketVars, journal, staged, call, cursor, acked, calls>>

\* run_cycle saves its cursor and ends.
EndCycle ==
    /\ cycle.pc = "check" /\ Pending(cycle) = {} /\ call["guard"] = NoCall
    /\ cursor' = cycle.memory
    /\ cycle' = NoCycle
    /\ UNCHANGED <<marketVars, journal, staged, call, acked, calls, events>>

-----------------------------------------------------------------------------
Candles == {c \in 0..MaxClock : c % CandleStep = 0}

Write(a) == OpenAccount(a) \/ Stage(a) \/ Commit(a) \/ Raise(a)

Cycle ==
    \/ BeginCycle \/ AbandonCycle \/ EndCycle
    \/ \E s \in Symbols, c \in Candles : Hold(s, c) \/ Exit(s, c) \/ RefuseExit(s, c)

Next ==
    \/ Tick
    \/ \E order \in Orders : SubmitOrder(order)
    \/ \E kind \in Controls : SetControl(kind)
    \/ \E a \in Programs : Write(a) \/ Crash(a)
    \/ Cycle

Spec == Init /\ [][Next]_vars

\* A call that was begun goes on, and the loop runs again and again (its while True,
\* line 224).  Nobody has to submit an order, and time need not pass.
FairSpec ==
    /\ Spec
    /\ WF_vars(Stage("desk") \/ Commit("desk") \/ Raise("desk"))
    /\ WF_vars(Stage("guard") \/ Commit("guard") \/ Raise("guard") \/ Cycle)

-----------------------------------------------------------------------------
RecordsOf(ids) ==
    [id : ids, at : 0..MaxClock, kind : {"account"} \cup Trades \cup Controls,
     symbol : Symbols \cup {NoSymbol}, quantity : Nat, candle : Candles]

Memories == [Symbols -> [id : 0..calls, last : Int]]

\* Every file and local state has its type; a position that is held is of something.
TypeOK ==
    /\ now \in 0..MaxClock
    /\ touches \subseteq Symbols \X Candles
    /\ journal \in Seq(RecordsOf(1..calls))
    /\ staged \in Seq(RecordsOf(1..calls))
    /\ call \in [Programs -> [pc : {"idle", "stage", "commit"}, updated : Seq(RecordsOf(1..calls))]]
    /\ cycle.pc \in {"off", "check"} /\ cycle.last \in Int /\ cycle.todo \subseteq Symbols
    /\ cycle.memory \in Memories /\ cursor \in Memories
    /\ acked \subseteq 1..calls
    /\ calls \in Nat /\ events \in 0..MaxEvents
    /\ \A s \in Held(Replay(journal)) : Replay(journal).positions[s].quantity \in Nat \ {0}

Before(i) == Replay(SubSeq(journal, 1, i - 1))
After(i)  == Replay(SubSeq(journal, 1, i))

\* The candles that are due for a position and touched its protection.
DueTouches(s, p) == {c \in Candles : c >= FirstFull(p.at) /\ c <= LastClosed(now) /\ <<s, c>> \in touches}

\* Whoever wrote the journal, in whatever interleaving: read from the start it
\* opens the account once, trades only while the session is open and the kill
\* switch off, and never holds more than the limits (evaluate_risk and
\* _risk_reducing_exit are asked about a snapshot, long before the rename).
HistoryIsLawful ==
    \A i \in DOMAIN journal :
        /\ journal[i].kind = "account" <=> i = 1
        /\ journal[i].kind \in Trades => Tradable(Before(i))
        /\ Exposure(After(i)) <= MaxExposure

\* An exit closes the position its candle belongs to: the candle began after the
\* position was opened, touched it, and no earlier full candle did.  The guard works
\* on positions and a cursor it read before, while the desk closes, reverses and
\* reopens; only the order of times in replay stands between.
ExitEvidenceIsOwn ==
    \A i \in DOMAIN journal : journal[i].kind = "exit" =>
        LET p == Before(i).positions[journal[i].symbol]
            due == DueTouches(journal[i].symbol, p)
        IN  p # NoPosition /\ journal[i].candle \in due /\ \A c \in due : journal[i].candle <= c

\* The cursor file never passes a candle that touched the open position, so no
\* crash, failed write or exception makes the guard forget a stop.
NoTouchForgotten ==
    \A s \in Symbols :
        LET p == Replay(journal).positions[s]
        IN  p # NoPosition /\ cursor[s].id = p.id =>
                \A c \in DueTouches(s, p) : c > cursor[s].last

\* With one writer the journal is an append-only log in order of time that keeps
\* every acknowledged record, although it is rewritten as a whole through one
\* shared temporary file.
Log == INSTANCE PaperLog WITH log <- journal

ImplementsPaperLog == Log!Spec

\* The positions whose protection was touched, in a replayed state.
Touched(state) == {s \in Held(state) : DueTouches(s, state.positions[s]) # {}}

\* "Hold or fully close an existing Paper position from one verified closed candle"
\* (nexus_product_paper_protective_exit.py:139): a touched position is closed or
\* trading has been stopped.  Not where an event was journaled after the candle, nor
\* where the loop was off for more than MaxWindow candles: the cycle raises each time.
TouchedPositionIsClosed ==
    \A s \in Symbols : s \in Touched(Replay(journal)) ~>
                           s \notin Touched(Replay(journal)) \/ ~Tradable(Replay(journal))

\* "Protective guard authority is reduce/close only"
\* (docs/architecture/NEXUS_MASTER_SYSTEM_MAP.md:34): a commit of the guard
\* leaves no position larger, and brings none back.
GuardOnlyReduces ==
    [][Commit("guard") => \A s \in Symbols :
          Replay(journal').positions[s].quantity <= Replay(journal).positions[s].quantity]_vars
=============================================================================

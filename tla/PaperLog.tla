------------------------------ MODULE PaperLog ------------------------------
(***************************************************************************)
(* What the Paper journal promises: a log in order of time that only ever  *)
(* grows by one complete record, each record once, and that contains       *)
(* whatever was acknowledged to a caller.                                  *)
(***************************************************************************)
EXTENDS Naturals, Sequences

VARIABLES
    log,                \* a record has an id and the time at which it happened
    acked               \* ids of the records whose writer was told "accepted"

IdsOf(l) == {l[i].id : i \in DOMAIN l}

Init == log = <<>> /\ acked = {}

\* The record r is added at the end; its writer is told, or dies before.
Accept(r) ==
    /\ r.id \notin IdsOf(log)
    /\ log # <<>> => log[Len(log)].at <= r.at
    /\ log' = Append(log, r)
    /\ acked' \in {acked, acked \cup {r.id}}

\* Some record is added: it is the last one afterwards.
Next ==
    /\ log' # <<>>
    /\ Accept(log'[Len(log')])

Spec == Init /\ [][Next]_<<log, acked>>
=============================================================================

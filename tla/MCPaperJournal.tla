--------------------------- MODULE MCPaperJournal ---------------------------
(* Instances of PaperJournal for TLC.                                      *)
EXTENDS PaperJournal

Order(kind, symbol, quantity) == [kind |-> kind, symbol |-> symbol, quantity |-> quantity]

MCOrders == {Order("open", 1, 2), Order("reduce", 1, 1), Order("close", 1, 2),
             Order("reverse", 1, 1), Order("open", 2, 1)}

\* A position that is opened once and left to the guard.
MCOneOrder == {Order("open", 1, 2)}
=============================================================================

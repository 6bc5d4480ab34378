---------------------------- MODULE SingleWriter ----------------------------
(* What the arbiter and the writer guards together promise: every epoch has *)
(* one owner, and only the owner of the newest epoch writes.                *)
EXTENDS Integers

CONSTANTS Writers, Nobody

VARIABLES
    epoch,      \* the newest epoch
    owner,      \* its owner
    wrote       \* who wrote while which epoch was the newest

vars == <<epoch, owner, wrote>>

Init == epoch = 0 /\ owner = Nobody /\ wrote = {}

TakeOver(w) ==
    /\ epoch' = epoch + 1
    /\ owner' = w
    /\ UNCHANGED wrote

Write ==
    /\ owner # Nobody
    /\ wrote' = wrote \cup {<<epoch, owner>>}
    /\ UNCHANGED <<epoch, owner>>

Next == Write \/ \E w \in Writers : TakeOver(w)

SingleWriterSpec == Init /\ [][Next]_vars
=============================================================================

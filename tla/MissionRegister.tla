-------------------------- MODULE MissionRegister --------------------------
(***************************************************************************)
(* What the durable state promises its supervisors: one mission state that *)
(* is read and updated atomically.  A new state either adds one update to  *)
(* the state immediately before it, or restores some earlier state.  Once  *)
(* a stored state was rewritten behind its back the register can no longer *)
(* vouch for what a new state holds, only that the old ones are kept.      *)
(***************************************************************************)
EXTENDS Integers

CONSTANT Updates

VARIABLES
    states,       \* every state of the mission, in order
    last,         \* index of the current state, -1 before the first
    intact        \* no stored state was rewritten from outside

registerVars == <<states, last, intact>>

Push(state) ==
    /\ last' = last + 1
    /\ states' = [i \in 0..(last + 1) |-> IF i = last + 1 THEN state ELSE states[i]]

Advance(u) == Push((IF last = -1 THEN {} ELSE states[last]) \cup {u})

Restore(i) == Push(states[i])

RegisterInit == states = [i \in {} |-> {}] /\ last = -1 /\ intact = TRUE

Vouched ==
    /\ intact /\ intact'
    /\ \/ \E u \in Updates : Advance(u)
       \/ \E i \in 0..(last - 1) : Restore(i)

Unvouched ==
    /\ ~intact'
    /\ \/ UNCHANGED <<states, last>>
       \/ \E state \in SUBSET Updates : Push(state)

RegisterNext == Vouched \/ Unvouched

RegisterSpec == RegisterInit /\ [][RegisterNext]_registerVars
=============================================================================

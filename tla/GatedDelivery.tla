---------------------------- MODULE GatedDelivery ----------------------------
(***************************************************************************)
(* What the delivery pipeline promises, without its stages, counters and   *)
(* human nodes: N gates in a row.  A gate accepts only work every earlier  *)
(* gate has accepted; work is redone by taking acceptances back from some  *)
(* gate on; nothing is delivered before all the gates have accepted it.    *)
(***************************************************************************)
EXTENDS Integers

CONSTANT N \* the number of gates

VARIABLES
    accepted, \* the gates that have accepted the work as it stands
    outcome   \* "open", "delivered" or "cancelled"

vars == <<accepted, outcome>>

Init == accepted = {} /\ outcome = "open"

Accept(k) ==
    /\ outcome = "open"
    /\ accepted = 1 .. k - 1
    /\ accepted' = 1 .. k
    /\ UNCHANGED outcome

\* The work after the first k gates is done again.
Redo(k) ==
    /\ outcome = "open"
    /\ accepted' = accepted \cap (1 .. k)
    /\ UNCHANGED outcome

Deliver ==
    /\ outcome = "open"
    /\ accepted = 1 .. N
    /\ outcome' = "delivered"
    /\ UNCHANGED accepted

Cancel ==
    /\ outcome = "open"
    /\ outcome' = "cancelled"
    /\ UNCHANGED accepted

\* A run that ended is invoked again and owes every acceptance anew.
Reopen ==
    /\ outcome # "open"
    /\ outcome' = "open"
    /\ accepted' = {}

Next ==
    \/ \E k \in 1 .. N : Accept(k)
    \/ \E k \in 0 .. N : Redo(k)
    \/ Deliver
    \/ Cancel
    \/ Reopen

Spec == Init /\ [][Next]_vars

\* The promise: the gates accept in order, and a delivery has them all.
DeliveredWithEveryGate ==
    /\ \E k \in 0 .. N : accepted = 1 .. k
    /\ outcome = "delivered" => accepted = 1 .. N
=============================================================================

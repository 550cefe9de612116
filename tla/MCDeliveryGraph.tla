--------------------------- MODULE MCDeliveryGraph ---------------------------
(* Instances of DeliveryGraph for TLC: which gates may object. *)
EXTENDS DeliveryGraph

AllGates == Gates

\* One gate of each kind of rework: a question, a decision, its own stage,
\* development, and the two that go back to planning.
EveryRework == {"intake", "scope", "architecture", "tests", "operational", "release"}
=============================================================================

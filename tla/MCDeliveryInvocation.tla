------------------------- MODULE MCDeliveryInvocation -------------------------
(* DeliveryInvocation with the recursion limit of the code.                  *)
EXTENDS DeliveryInvocation

\* The gates of the longest ways back: one cycle of each takes 5, 6, 8 and 10
\* supersteps.  A run without cycles takes 16.
LateGates == {"qa", "security", "operational", "release"}
=============================================================================

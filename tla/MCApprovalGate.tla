---------------------------- MODULE MCApprovalGate ----------------------------
(* ApprovalGate with two persons who decide. *)
EXTENDS ApprovalGate

CONSTANTS p1, p2
MCCalls == {p1, p2}
=============================================================================

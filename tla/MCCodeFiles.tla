------------------------------ MODULE MCCodeFiles ------------------------------
(***************************************************************************)
(* Two agents at once, one of them executed twice, and a second round      *)
(* in which the first agent answers again.                                 *)
(***************************************************************************)
EXTENDS CodeFiles

MCRounds == <<{1, 2}, {1}>>
MCLists == [t \in Tasks |-> IF t = <<1, 2>> THEN {<<p, p>> : p \in Paths} ELSE {<<p>> : p \in Paths}]
MCMaxExecutions == [t \in Tasks |-> IF t = <<1, 1>> THEN 2 ELSE 1]
=============================================================================

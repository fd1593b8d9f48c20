------------------------------ MODULE MCToolRun ------------------------------
(* ToolRun with two hosts, which are interchangeable.                       *)
EXTENDS ToolRun, TLC

CONSTANTS a, b

MCHost == {a, b}

Symmetry == Permutations(MCHost)
=============================================================================

----------------------------- MODULE MCXhciCmd ------------------------------
(* Instance of XhciCmd for TLC: two callers, so that one can hold slotlock *)
(* or cmdlock while the other and the recover task wait on it.             *)
EXTENDS XhciCmd, TLC

CONSTANTS p1, p2

MCCallers == {p1, p2}
MCSymmetry == Permutations(MCCallers)
=============================================================================

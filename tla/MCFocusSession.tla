--------------------------- MODULE MCFocusSession ---------------------------
(* Instances of FocusSession for TLC. *)
EXTENDS FocusSession, TLC

CONSTANTS fieldA, fieldB

TwoFields == {fieldA, fieldB}
Symmetry  == Permutations(TwoFields)
=============================================================================

---------------------------- MODULE MCKeyRouter ----------------------------
(* Instances of KeyRouter for TLC: keys are model values, and the two Ctrl *)
(* keys are interchangeable.                                               *)
EXTENDS KeyRouter, TLC

CONSTANTS Ctrl, RightCtrl, Shift, Super, A, V

Ctrls == Permutations({Ctrl, RightCtrl})

=============================================================================

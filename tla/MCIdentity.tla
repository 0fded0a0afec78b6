----------------------------- MODULE MCIdentity -----------------------------
(* Model values and bounds for Identity. *)
EXTENDS Identity
=============================================================================

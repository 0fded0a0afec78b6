----------------------------- MODULE InputFocus -----------------------------
(***************************************************************************)
(* What the daemon promises a text field, whatever the compositor, the     *)
(* engine and the connection do: a composition lives only inside one       *)
(* uninterrupted focus, it is begun and extended only through a usable     *)
(* grab, and a grab becomes usable only by having its own keymap           *)
(* confirmed.  FocusSession is shown to implement this module.             *)
(***************************************************************************)

VARIABLES
    focused,     \* the daemon treats the field as its own
    composing,   \* an engine composition is in flight
    grab         \* the keyboard grab as the field's user experiences it

vars == <<focused, composing, grab>>

Grab == {"none", "waiting", "usable", "broken"}

TypeOK == focused \in BOOLEAN /\ composing \in BOOLEAN /\ grab \in Grab

Init == ~focused /\ ~composing /\ grab = "none"

(* A grab is built anew, dropped, or kept; it is never swapped for an      *)
(* unconfirmed one while it is usable.                                     *)
Rebuilt == grab' \in {"none", "broken", grab} \cup (IF grab = "usable" THEN {} ELSE {"waiting"})

Focus == ~focused /\ focused' /\ ~composing' /\ Rebuilt
Blur  == focused /\ ~focused' /\ ~composing' /\ Rebuilt

(* The keymap the compositor sends for this very grab. *)
Confirm == grab \in {"waiting", "broken"} /\ grab' = "usable" /\ UNCHANGED <<focused, composing>>

(* A connection loss, a failure or a recovery, the focus staying as it is. *)
Regrab == Rebuilt /\ UNCHANGED <<focused, composing>>

Compose == focused /\ grab = "usable" /\ composing' /\ UNCHANGED <<focused, grab>>

EndComposition == composing /\ ~composing' /\ UNCHANGED <<focused, grab>>

Next == Focus \/ Blur \/ Confirm \/ Regrab \/ Compose \/ EndComposition

Spec == Init /\ [][Next]_vars
=============================================================================

--------------------------- MODULE FocusController ---------------------------
(***************************************************************************)
(* The pure focus controller of src/src/engine/focus_controller.c: the     *)
(* facts one event-loop tick recorded are reduced to a desired state, and  *)
(* the desired state is compared with the live resources to give a set of  *)
(* effects.  The module has no variables: FocusSession applies the         *)
(* effects to the frontend.                                                *)
(***************************************************************************)

(* TypioWlGrabWant: does the session want a keyboard grab. *)
Want == {"NONE", "SOFT_PAUSE", "YES"}

(* TypioWlGrabResourceState: grab and virtual-keyboard keymap as one resource. *)
Resource == {"ABSENT", "NEEDS_KEYMAP", "READY", "BROKEN"}

(* TypioWlInputFacts, without im_done_serial, which only tracing reads. *)
Facts == [im_activate_seen       : BOOLEAN,
          im_deactivate_seen     : BOOLEAN,
          im_done_had_activate   : BOOLEAN,
          im_done_had_deactivate : BOOLEAN,
          connection_alive       : BOOLEAN,
          suspend_gap_detected   : BOOLEAN,
          engine_present         : BOOLEAN]

(* TypioWlDesiredState; the three booleans are edges, true for one tick. *)
Desired == [grab : Want, focus_in : BOOLEAN, focus_out : BOOLEAN, reactivate : BOOLEAN]

NothingDesired == [grab |-> "NONE", focus_in |-> FALSE, focus_out |-> FALSE, reactivate |-> FALSE]

(* TypioWlEffectSet: the set of the flags that are true. *)
Effect == {"destroy_grab", "create_grab", "scrub_generation", "send_focus_in", "send_focus_out",
           "discard_composition", "clear_preedit", "commit", "reactivate"}

-----------------------------------------------------------------------------
(* reduce: facts -> desired *)

Activated(facts)   == facts.im_activate_seen \/ facts.im_done_had_activate
Deactivated(facts) == facts.im_deactivate_seen \/ facts.im_done_had_deactivate

(* Mutant: the deactivate of a batched move wins. *)
GrabWantDeactivateFirst(facts, prev) ==
    CASE ~facts.connection_alive \/ facts.suspend_gap_detected -> "NONE"
      [] Deactivated(facts) -> "SOFT_PAUSE"
      [] Activated(facts)   -> IF facts.engine_present THEN "YES" ELSE "NONE"
      [] OTHER              -> prev.grab

(* A hard boundary wins; then activation, before deactivation, so that a   *)
(* move batched into one done reads as a reactivation; else no change.     *)
GrabWant(facts, prev) ==
    CASE ~facts.connection_alive \/ facts.suspend_gap_detected -> "NONE"
      [] Activated(facts)   -> IF facts.engine_present THEN "YES" ELSE "NONE"
      [] Deactivated(facts) -> "SOFT_PAUSE"
      [] OTHER              -> prev.grab

Reduce(facts, prev) ==
    LET want == GrabWant(facts, prev)
    IN  [grab       |-> want,
         focus_in   |-> want = "YES" /\ prev.grab # "YES",
         focus_out  |-> want # "YES" /\ prev.grab = "YES",
         reactivate |-> want = "YES" /\ prev.grab = "YES" /\ facts.im_done_had_activate]

-----------------------------------------------------------------------------
(* diff: desired and actual -> effects *)

(* Mutant: the teardown forgets the grab object. *)
TeardownKeepingGrab(desired, resource) ==
    IF desired.grab = "NONE" /\ resource # "ABSENT"
    THEN {"scrub_generation", "discard_composition", "clear_preedit", "commit"}
    ELSE {}

Teardown(desired, resource) ==
    IF desired.grab = "NONE" /\ resource # "ABSENT"
    THEN {"destroy_grab", "scrub_generation", "discard_composition", "clear_preedit", "commit"}
    ELSE {}

Creation(desired, resource) ==
    IF desired.grab \in {"YES", "SOFT_PAUSE"} /\ resource = "ABSENT"
    THEN {"create_grab", "scrub_generation"}
    ELSE {}

BrokenRecovery(desired, resource) ==
    IF desired.grab = "YES" /\ resource = "BROKEN"
    THEN {"destroy_grab", "create_grab", "scrub_generation"}
    ELSE {}

(* Mutants: the composition, or the client's preedit, survives the defocus. *)
DefocusKeepingComposition(desired) ==
    IF desired.focus_out THEN {"send_focus_out", "clear_preedit", "commit"} ELSE {}
DefocusKeepingPreedit(desired) ==
    IF desired.focus_out THEN {"send_focus_out", "discard_composition"} ELSE {}

(* Leaving a field abandons its composition and blanks its preedit. *)
Defocus(desired) ==
    IF desired.focus_out
    THEN {"send_focus_out", "discard_composition", "clear_preedit", "commit"}
    ELSE {}

Diff(desired, resource) ==
    Teardown(desired, resource)
      \cup Creation(desired, resource)
      \cup BrokenRecovery(desired, resource)
      \cup (IF desired.focus_in THEN {"send_focus_in"} ELSE {})
      \cup Defocus(desired)
      \cup (IF desired.reactivate THEN {"reactivate"} ELSE {})

-----------------------------------------------------------------------------
(* The guard predicates over a snapshot of the live resources. *)

CanRouteKeys(focused, resource)    == focused /\ resource = "READY"
CanRouteModifiers(resource)        == resource \in {"NEEDS_KEYMAP", "READY"}
IsTransitioning(focused, resource) == focused /\ resource # "READY"

=============================================================================

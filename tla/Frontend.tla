------------------------------ MODULE Frontend ------------------------------
(***************************************************************************)
(* TypioWlFrontend as a record, and the C functions that mutate it as      *)
(* operators from record to record: the virtual-keyboard bridge, the       *)
(* keyboard grab, the session, the controller's effects and the teardown   *)
(* of the connection.  A handler composes the operators of the calls it    *)
(* makes.  Texts are abstracted to the field they were typed for, and      *)
(* generation counters to whether the keymap's equals the active one.      *)
(***************************************************************************)
EXTENDS FocusController, Naturals

CONSTANTS
    Field,            \* the text fields of the client applications
    NoField,
    GuardThreshold    \* GUARD_FAILSAFE_THRESHOLD

ASSUME NoFieldAssumption == NoField \notin Field
ASSUME ThresholdAssumption == GuardThreshold \in Nat \ {0}

MaybeField == Field \cup {NoField}

Frontend ==
    [running  : BOOLEAN,
     session  : BOOLEAN,                                  \* session and its context exist
     focused  : BOOLEAN,                                  \* typio_input_context_is_focused
     comp     : MaybeField,                               \* field the composition began in
     target   : MaybeField,                               \* field of the latest activate
     ui       : {"IDLE", "DIRTY", "RETRY"},               \* panel_schedule_state
     last     : MaybeField,                               \* session->last_preedit_text
     shown    : MaybeField,                               \* preedit in force at the compositor
     serial   : {"zero", "exact", "behind", "off", "chance"}, \* im_serial against the dones sent
     kb       : {"absent", "grabbed", "released"},        \* keyboard, and keyboard->grab
     xkb      : BOOLEAN,                                  \* keyboard->xkb_state
     vkObj    : BOOLEAN,                                  \* vk->vk
     vk       : Resource,                                 \* vk->state
     current  : BOOLEAN,                                  \* keymap_generation = active_generation
     deadline : {"none", "armed", "expired"},             \* keymap_deadline_ms
     armed    : BOOLEAN,                                  \* watchdog
     streak   : 0..GuardThreshold]                        \* guard_reject_press_streak

-----------------------------------------------------------------------------
(* bridge.c: the virtual keyboard *)

ReleaseGrab(f) == IF f.kb = "grabbed" THEN [f EXCEPT !.kb = "released"] ELSE f

VkSetState(f, s) ==
    [f EXCEPT !.vk = s, !.deadline = IF s = "NEEDS_KEYMAP" THEN @ ELSE "none"]

(* Mutant: the wait has no deadline. *)
VkExpectKeymapForEver(f) == IF f.vkObj THEN VkSetState(f, "NEEDS_KEYMAP") ELSE f

(* Mutant: a keyboard that is ready already is not made to wait. *)
VkExpectKeymapUnlessReady(f) ==
    IF f.vkObj /\ f.vk # "READY"
    THEN [VkSetState(f, "NEEDS_KEYMAP") EXCEPT !.deadline = "armed"] ELSE f

VkExpectKeymap(f) ==
    IF f.vkObj THEN [VkSetState(f, "NEEDS_KEYMAP") EXCEPT !.deadline = "armed"] ELSE f

VkCancelKeymapWait(f) ==
    CASE f.vk # "NEEDS_KEYMAP" -> f
      [] f.vk = "NEEDS_KEYMAP" /\ f.current  -> VkSetState(f, "READY")
      [] f.vk = "NEEDS_KEYMAP" /\ ~f.current -> [f EXCEPT !.deadline = "none"]

VkTriggerFailSafe(f) ==
    IF f.running THEN [ReleaseGrab(f) EXCEPT !.running = FALSE] ELSE f

(* What asking typio_wl_vk_is_ready does to the frontend. *)
VkIsReady(f) ==
    LET p == IF f.vkObj /\ f.vk = "NEEDS_KEYMAP" /\ f.current
             THEN VkSetState(f, "READY") ELSE f
    IN  IF p.vk = "BROKEN" THEN VkTriggerFailSafe(p) ELSE p

(* Mutant: the deadline is never acted on. *)
VkHealthCheckNever(f) == f

VkHealthCheck(f) ==
    IF f.running /\ f.kb = "grabbed" /\ f.vk = "NEEDS_KEYMAP" /\ f.deadline = "expired"
    THEN VkTriggerFailSafe(f) ELSE f

VkForwardKeymap(f, dup) ==
    CASE ~f.vkObj        -> f
      [] f.vkObj /\ dup  -> VkSetState([f EXCEPT !.current = TRUE], "READY")
      [] f.vkObj /\ ~dup -> VkSetState(f, "BROKEN")

-----------------------------------------------------------------------------
(* keyboard.c: the grab.  Per-key tracking is the key router's. *)

KeyboardCreate(f, ok) ==
    [f EXCEPT !.kb = IF ok THEN "grabbed" ELSE "absent",
              !.xkb = FALSE, !.current = FALSE, !.armed = TRUE, !.streak = 0]

KeyboardDestroy(f) ==
    IF f.kb = "absent" THEN f
    ELSE [f EXCEPT !.kb = "absent", !.xkb = FALSE, !.armed = FALSE, !.streak = 0]

(* Mutant: pausing takes the grab away. *)
KeyboardPauseByDestroying(f) == KeyboardDestroy(f)

KeyboardPause(f) == IF f.kb = "absent" THEN f ELSE [f EXCEPT !.streak = 0]

-----------------------------------------------------------------------------
(* input_method.c: session, preedit and commit *)

CancelUiTracking(f) == [f EXCEPT !.ui = "IDLE", !.last = NoField]

(* No done was received, all of them were, or some are still under way; a  *)
(* count that began with an earlier connection is off, or right by chance. *)
SerialAccepted(f) == f.serial \in {"exact", "chance"}

(* typio_wl_set_preedit then typio_wl_commit.  The code skips the commit at *)
(* zero; the compositor compares the serial with the dones it has sent and  *)
(* leaves its state alone when they differ.                                 *)
CommitPreedit(f, text) == IF SerialAccepted(f) THEN [f EXCEPT !.shown = text] ELSE f

DiscardComposition(f) == [CancelUiTracking(f) EXCEPT !.comp = NoField]

-----------------------------------------------------------------------------
(* focus_effects.c *)

Observe(f) == IF f.kb = "absent" THEN "ABSENT" ELSE f.vk

HardResetKeyboard(f) == VkIsReady(VkCancelKeymapWait(KeyboardDestroy(f)))

(* Mutant: the context is not told. *)
FocusOutKeepingFocus(f) == KeyboardPause(f)

FocusOut(f) == KeyboardPause([f EXCEPT !.focused = FALSE])

(* The anchor probe of focus_in and reactivate commits an empty preedit. *)
ProbeAnchor(f) == IF f.session THEN CommitPreedit(f, NoField) ELSE f

FocusIn(f) == [f EXCEPT !.focused = TRUE]

ScrubGeneration(f) == [f EXCEPT !.current = FALSE]

When(effect, effects, after, before) == IF effect \in effects THEN after ELSE before

Apply(f, effects, ok) ==
    LET f1 == When("discard_composition", effects, IF f.session THEN DiscardComposition(f) ELSE f, f)
        f2 == When("send_focus_out", effects, IF f1.session THEN FocusOut(f1) ELSE f1, f1)
        f3 == When("destroy_grab", effects, HardResetKeyboard(f2), f2)
        f4 == When("commit", effects, IF f3.session THEN CommitPreedit(f3, NoField) ELSE f3, f3)
        f5 == When("scrub_generation", effects, ScrubGeneration(f4), f4)
        f6 == When("create_grab", effects, VkExpectKeymap(KeyboardCreate(f5, ok)), f5)
        f7 == When("send_focus_in", effects, ProbeAnchor(f6), f6)
        f8 == When("send_focus_in", effects, IF f7.session THEN FocusIn(f7) ELSE f7, f7)
    IN  When("reactivate", effects, ProbeAnchor(f8), f8)

-----------------------------------------------------------------------------
(* frontend.c and frontend_bind.c: losing and rebuilding the connection *)

WaylandUnbind(f) ==
    LET k == KeyboardDestroy(f)
    IN  IF k.vkObj THEN [VkSetState(k, "ABSENT") EXCEPT !.vkObj = FALSE] ELSE k

(* The context keeps its focus and composition; im_serial keeps counting.  *)
Disconnected(f) ==
    [WaylandUnbind(f) EXCEPT !.armed = FALSE, !.current = FALSE, !.shown = NoField,
                             !.serial = IF @ = "zero" THEN "zero" ELSE "off"]

VkBound(f, outcome) == VkSetState([f EXCEPT !.vkObj = outcome = "NEEDS_KEYMAP"], outcome)

FrontendDestroy(f) ==
    [WaylandUnbind(f) EXCEPT !.running = FALSE, !.session = FALSE, !.focused = FALSE,
                             !.comp = NoField, !.armed = FALSE, !.shown = NoField]

=============================================================================

--------------------------- MODULE FrontendProofs ---------------------------
(***************************************************************************)
(* What the C functions of Frontend leave alone and what they establish.   *)
(* One lemma per function; FocusSessionProofs cites them by name.          *)
(***************************************************************************)
EXTENDS Frontend, TLAPS

(* The fields the focus invariants speak of, in two groups: what the text  *)
(* field sees, and the keyboard grab with its virtual keyboard.            *)
SameContext(f, g) ==
    /\ g.session = f.session
    /\ g.focused = f.focused
    /\ g.comp = f.comp
    /\ g.shown = f.shown
    /\ g.serial = f.serial

SameGrab(f, g) ==
    /\ g.kb = f.kb
    /\ g.vkObj = f.vkObj
    /\ g.vk = f.vk
    /\ g.current = f.current
    /\ g.deadline = f.deadline

(* The same but for the preedit in force at the compositor. *)
SameButShown(f, g) ==
    /\ g.session = f.session
    /\ g.focused = f.focused
    /\ g.comp = f.comp
    /\ g.serial = f.serial

-----------------------------------------------------------------------------
(* The controller. *)

(* reduce() returns a well-formed desired state. *)
LEMMA ReduceType ==
    ASSUME NEW fs \in Facts, NEW p \in Desired
    PROVE  Reduce(fs, p) \in Desired
  BY DEF Facts, Desired, Want, Reduce, GrabWant, Activated, Deactivated

(* reduce() raises the focus edges exactly when the wanted grab enters or  *)
(* leaves YES, and reaches YES only from YES or on an activate.            *)
LEMMA ReduceEdges ==
    ASSUME NEW fs \in Facts, NEW p \in Desired
    PROVE  /\ Reduce(fs, p).focus_in  <=> Reduce(fs, p).grab = "YES" /\ p.grab # "YES"
           /\ Reduce(fs, p).focus_out <=> Reduce(fs, p).grab # "YES" /\ p.grab = "YES"
           /\ Reduce(fs, p).grab = "YES" => p.grab = "YES" \/ Activated(fs)
           /\ Reduce(fs, p).reactivate => Reduce(fs, p).grab = "YES" /\ p.grab = "YES"
  BY DEF Facts, Desired, Want, Reduce, GrabWant, Activated, Deactivated

(* Which desired state and resource raise each effect of diff(). *)
LEMMA DiffEffects ==
    ASSUME NEW d \in Desired, NEW r \in Resource
    PROVE  /\ "send_focus_in" \in Diff(d, r) <=> d.focus_in
           /\ "send_focus_out" \in Diff(d, r) <=> d.focus_out
           /\ "reactivate" \in Diff(d, r) <=> d.reactivate
           /\ d.focus_out => "discard_composition" \in Diff(d, r) /\ "commit" \in Diff(d, r)
           /\ "discard_composition" \in Diff(d, r) => d.grab # "YES" \/ d.focus_out
           /\ "destroy_grab" \in Diff(d, r)
                <=> \/ d.grab = "NONE" /\ r # "ABSENT"
                    \/ d.grab = "YES" /\ r = "BROKEN"
           /\ "create_grab" \in Diff(d, r)
                <=> \/ d.grab # "NONE" /\ r = "ABSENT"
                    \/ d.grab = "YES" /\ r = "BROKEN"
           /\ "scrub_generation" \in Diff(d, r)
                <=> "destroy_grab" \in Diff(d, r) \/ "create_grab" \in Diff(d, r)
  BY DEF Desired, Want, Resource, Diff, Teardown, Creation, BrokenRecovery, Defocus

-----------------------------------------------------------------------------
(* The virtual keyboard and the grab. *)

(* release_grab changes the grab object only. *)
LEMMA ReleaseGrabFacts ==
    ASSUME NEW f \in Frontend
    PROVE  /\ ReleaseGrab(f) \in Frontend
           /\ SameContext(f, ReleaseGrab(f))
           /\ ReleaseGrab(f).kb = IF f.kb = "grabbed" THEN "released" ELSE f.kb
           /\ SameGrab([f EXCEPT !.kb = ReleaseGrab(f).kb], ReleaseGrab(f))
  BY DEF Frontend, ReleaseGrab, SameContext, SameGrab

(* set_state clears the deadline of every state but NEEDS_KEYMAP. *)
LEMMA VkSetStateFacts ==
    ASSUME NEW f \in Frontend, NEW s \in Resource
    PROVE  /\ VkSetState(f, s) \in Frontend
           /\ SameContext(f, VkSetState(f, s))
           /\ VkSetState(f, s).vk = s
           /\ VkSetState(f, s).kb = f.kb
           /\ VkSetState(f, s).vkObj = f.vkObj
           /\ VkSetState(f, s).current = f.current
           /\ s = "NEEDS_KEYMAP" => VkSetState(f, s).deadline = f.deadline
  BY DEF Frontend, VkSetState, SameContext

(* expect_keymap arms the deadline of the wait it begins. *)
LEMMA VkExpectKeymapFacts ==
    ASSUME NEW f \in Frontend
    PROVE  /\ VkExpectKeymap(f) \in Frontend
           /\ SameContext(f, VkExpectKeymap(f))
           /\ VkExpectKeymap(f).kb = f.kb
           /\ VkExpectKeymap(f).vkObj = f.vkObj
           /\ VkExpectKeymap(f).current = f.current
           /\ f.vkObj => /\ VkExpectKeymap(f).vk = "NEEDS_KEYMAP"
                         /\ VkExpectKeymap(f).deadline = "armed"
           /\ ~f.vkObj => VkExpectKeymap(f) = f
  <1> DEFINE g == VkSetState(f, "NEEDS_KEYMAP")
  <1>1. /\ g \in Frontend
        /\ SameContext(f, g)
        /\ g.vk = "NEEDS_KEYMAP" /\ g.kb = f.kb /\ g.vkObj = f.vkObj /\ g.current = f.current
    BY VkSetStateFacts DEF Resource
  <1>2. VkExpectKeymap(f) = IF f.vkObj THEN [g EXCEPT !.deadline = "armed"] ELSE f
    BY DEF VkExpectKeymap
  <1> HIDE DEF g
  <1>3. QED
    BY <1>1, <1>2 DEF Frontend, SameContext

(* cancel_keymap_wait never promotes a keymap of another generation. *)
LEMMA VkCancelKeymapWaitFacts ==
    ASSUME NEW f \in Frontend
    PROVE  /\ VkCancelKeymapWait(f) \in Frontend
           /\ SameContext(f, VkCancelKeymapWait(f))
           /\ VkCancelKeymapWait(f).kb = f.kb
           /\ VkCancelKeymapWait(f).vkObj = f.vkObj
           /\ VkCancelKeymapWait(f).current = f.current
           /\ VkCancelKeymapWait(f).vk
                = IF f.vk = "NEEDS_KEYMAP" /\ f.current THEN "READY" ELSE f.vk
  BY ZenonT(60) DEF Frontend, VkSetState, VkCancelKeymapWait, Resource, SameContext

(* The fail-safe stops the daemon and releases the grab, nothing else. *)
LEMMA VkTriggerFailSafeFacts ==
    ASSUME NEW f \in Frontend
    PROVE  /\ VkTriggerFailSafe(f) \in Frontend
           /\ SameContext(f, VkTriggerFailSafe(f))
           /\ VkTriggerFailSafe(f).kb
                = IF f.running /\ f.kb = "grabbed" THEN "released" ELSE f.kb
           /\ SameGrab([f EXCEPT !.kb = VkTriggerFailSafe(f).kb], VkTriggerFailSafe(f))
  <1>1. CASE ~f.running
    BY <1>1 DEF Frontend, VkTriggerFailSafe, SameContext, SameGrab
  <1>2. CASE f.running
    <2> DEFINE g == ReleaseGrab(f)
    <2>1. /\ g \in Frontend
          /\ SameContext(f, g)
          /\ g.kb = IF f.kb = "grabbed" THEN "released" ELSE f.kb
          /\ SameGrab([f EXCEPT !.kb = g.kb], g)
      BY ReleaseGrabFacts
    <2>2. VkTriggerFailSafe(f) = [g EXCEPT !.running = FALSE]
      BY <1>2 DEF VkTriggerFailSafe
    <2> HIDE DEF g
    <2>3. VkTriggerFailSafe(f) \in Frontend
      BY <2>1, <2>2, ZenonT(60) DEF Frontend
    <2>4. SameContext(f, VkTriggerFailSafe(f))
      BY <2>1, <2>2 DEF Frontend, SameContext
    <2>5. VkTriggerFailSafe(f).kb = g.kb
      BY <2>1, <2>2 DEF Frontend
    <2>6. SameGrab([f EXCEPT !.kb = g.kb], VkTriggerFailSafe(f))
      BY <2>1, <2>2 DEF Frontend, SameGrab
    <2>7. QED
      BY <1>2, <2>1, <2>3, <2>4, <2>5, <2>6
  <1>3. QED
    BY <1>1, <1>2

(* Asking is_ready may promote the keymap of this generation, or stop the
   daemon; it never touches focus or composition. *)
LEMMA VkIsReadyFacts ==
    ASSUME NEW f \in Frontend
    PROVE  /\ VkIsReady(f) \in Frontend
           /\ SameContext(f, VkIsReady(f))
           /\ VkIsReady(f).kb \in {f.kb, "released"}
           /\ f.kb = "absent" => VkIsReady(f).kb = "absent"
           /\ VkIsReady(f).kb # f.kb => f.kb = "grabbed" /\ f.vk = "BROKEN"
           /\ VkIsReady(f).vkObj = f.vkObj
           /\ VkIsReady(f).current = f.current
           /\ VkIsReady(f).vk
                = IF f.vkObj /\ f.vk = "NEEDS_KEYMAP" /\ f.current THEN "READY" ELSE f.vk
           /\ VkIsReady(f).vk = f.vk => VkIsReady(f).deadline = f.deadline
  <1> DEFINE p == IF f.vkObj /\ f.vk = "NEEDS_KEYMAP" /\ f.current
                  THEN VkSetState(f, "READY") ELSE f
  <1>1. /\ p \in Frontend
        /\ SameContext(f, p)
        /\ p.kb = f.kb /\ p.vkObj = f.vkObj /\ p.current = f.current
        /\ p.vk = IF f.vkObj /\ f.vk = "NEEDS_KEYMAP" /\ f.current THEN "READY" ELSE f.vk
        /\ p.vk = f.vk => p = f
    BY VkSetStateFacts DEF Resource, SameContext
  <1>2. VkIsReady(f) = IF p.vk = "BROKEN" THEN VkTriggerFailSafe(p) ELSE p
    BY DEF VkIsReady
  <1> HIDE DEF p
  <1>3. CASE p.vk # "BROKEN"
    BY <1>1, <1>2, <1>3
  <1>4. CASE p.vk = "BROKEN"
    <2>1. /\ SameContext(p, VkIsReady(f))
          /\ VkIsReady(f) \in Frontend
          /\ VkIsReady(f).kb = IF p.running /\ p.kb = "grabbed" THEN "released" ELSE p.kb
          /\ SameGrab([p EXCEPT !.kb = VkIsReady(f).kb], VkIsReady(f))
      BY <1>1, <1>2, <1>4, VkTriggerFailSafeFacts
    <2>2. p = f
      BY <1>1, <1>4
    <2>3. QED
      BY <1>1, <1>4, <2>1, <2>2 DEF SameGrab, SameContext, Frontend
  <1>5. QED
    BY <1>3, <1>4

(* The health check either does nothing or is the fail-safe. *)
LEMMA VkHealthCheckFacts ==
    ASSUME NEW f \in Frontend
    PROVE  /\ VkHealthCheck(f) \in Frontend
           /\ SameContext(f, VkHealthCheck(f))
           /\ VkHealthCheck(f).kb \in {f.kb, "released"}
           /\ f.kb = "absent" => VkHealthCheck(f).kb = "absent"
           /\ SameGrab([f EXCEPT !.kb = VkHealthCheck(f).kb], VkHealthCheck(f))
  <1>1. CASE VkHealthCheck(f) = f
    BY <1>1 DEF Frontend, SameContext, SameGrab
  <1>2. CASE VkHealthCheck(f) = VkTriggerFailSafe(f)
    BY <1>2, VkTriggerFailSafeFacts
  <1>3. QED
    BY <1>1, <1>2 DEF VkHealthCheck

(* A keymap event makes a present virtual keyboard READY for this generation,
   or BROKEN when its descriptor cannot be duplicated. *)
LEMMA VkForwardKeymapFacts ==
    ASSUME NEW f \in Frontend, NEW dup \in BOOLEAN
    PROVE  /\ VkForwardKeymap(f, dup) \in Frontend
           /\ SameContext(f, VkForwardKeymap(f, dup))
           /\ VkForwardKeymap(f, dup).kb = f.kb
           /\ VkForwardKeymap(f, dup).vkObj = f.vkObj
           /\ ~f.vkObj => VkForwardKeymap(f, dup) = f
           /\ f.vkObj => \/ /\ VkForwardKeymap(f, dup).vk = "READY"
                            /\ VkForwardKeymap(f, dup).current
                         \/ VkForwardKeymap(f, dup).vk = "BROKEN"
  <1> DEFINE h == [f EXCEPT !.current = TRUE]
  <1>1. /\ h \in Frontend /\ SameContext(f, h)
        /\ h.current /\ h.kb = f.kb /\ h.vkObj = f.vkObj
    BY DEF Frontend, SameContext
  <1>2. VkForwardKeymap(f, dup) = IF ~f.vkObj THEN f
                                  ELSE IF dup THEN VkSetState(h, "READY")
                                  ELSE VkSetState(f, "BROKEN")
    BY DEF VkForwardKeymap, Frontend
  <1> HIDE DEF h
  <1>3. QED
    BY <1>1, <1>2, VkSetStateFacts DEF Resource, SameContext

(* A new grab starts with no keymap of its generation. *)
LEMMA KeyboardCreateFacts ==
    ASSUME NEW f \in Frontend, NEW ok \in BOOLEAN
    PROVE  /\ KeyboardCreate(f, ok) \in Frontend
           /\ SameContext(f, KeyboardCreate(f, ok))
           /\ KeyboardCreate(f, ok).kb = IF ok THEN "grabbed" ELSE "absent"
           /\ ~KeyboardCreate(f, ok).current
           /\ KeyboardCreate(f, ok).vkObj = f.vkObj
           /\ KeyboardCreate(f, ok).vk = f.vk
           /\ KeyboardCreate(f, ok).deadline = f.deadline
  <1>1. 0 \in 0..GuardThreshold
    BY ThresholdAssumption
  <1>2. KeyboardCreate(f, ok) \in Frontend
    BY <1>1, ZenonT(60) DEF Frontend, KeyboardCreate
  <1>3. QED
    BY <1>2 DEF Frontend, KeyboardCreate, SameContext

(* Destroying the keyboard leaves no grab. *)
LEMMA KeyboardDestroyFacts ==
    ASSUME NEW f \in Frontend
    PROVE  /\ KeyboardDestroy(f) \in Frontend
           /\ SameContext(f, KeyboardDestroy(f))
           /\ KeyboardDestroy(f).kb = "absent"
           /\ SameGrab([f EXCEPT !.kb = "absent"], KeyboardDestroy(f))
  <1>1. 0 \in 0..GuardThreshold
    BY ThresholdAssumption
  <1>2. KeyboardDestroy(f) \in Frontend
    <2>1. CASE f.kb = "absent"
      BY <2>1 DEF KeyboardDestroy
    <2>2. CASE f.kb # "absent"
      <3>1. KeyboardDestroy(f) = [f EXCEPT !.kb = "absent", !.xkb = FALSE, !.armed = FALSE,
                                           !.streak = 0]
        BY <2>2 DEF KeyboardDestroy
      <3>2. QED
        BY <1>1, <3>1, ZenonT(60) DEF Frontend
    <2>3. QED
      BY <2>1, <2>2
  <1>3. KeyboardDestroy(f).kb = "absent"
    BY DEF Frontend, KeyboardDestroy
  <1>4. SameContext(f, KeyboardDestroy(f))
    BY DEF Frontend, KeyboardDestroy, SameContext
  <1>5. SameGrab([f EXCEPT !.kb = "absent"], KeyboardDestroy(f))
    BY DEF Frontend, KeyboardDestroy, SameGrab
  <1>6. QED
    BY <1>2, <1>3, <1>4, <1>5

(* A soft pause keeps the grab. *)
LEMMA KeyboardPauseFacts ==
    ASSUME NEW f \in Frontend
    PROVE  /\ KeyboardPause(f) \in Frontend
           /\ SameContext(f, KeyboardPause(f))
           /\ SameGrab(f, KeyboardPause(f))
  BY ThresholdAssumption DEF Frontend, KeyboardPause, SameContext, SameGrab

(* After a hard reset nothing is grabbed. *)
LEMMA HardResetFacts ==
    ASSUME NEW f \in Frontend
    PROVE  /\ HardResetKeyboard(f) \in Frontend
           /\ SameContext(f, HardResetKeyboard(f))
           /\ HardResetKeyboard(f).kb = "absent"
           /\ HardResetKeyboard(f).vkObj = f.vkObj
           /\ HardResetKeyboard(f).current = f.current
           /\ HardResetKeyboard(f).vk
                = IF f.vk = "NEEDS_KEYMAP" /\ f.current THEN "READY" ELSE f.vk
  <1> DEFINE g == KeyboardDestroy(f)
             h == VkCancelKeymapWait(g)
  <1>1. /\ g \in Frontend
        /\ SameContext(f, g)
        /\ g.kb = "absent" /\ g.vkObj = f.vkObj /\ g.vk = f.vk /\ g.current = f.current
    BY KeyboardDestroyFacts DEF SameGrab, Frontend
  <1> HIDE DEF g
  <1>2. /\ h \in Frontend
        /\ SameContext(f, h)
        /\ h.kb = "absent" /\ h.vkObj = f.vkObj /\ h.current = f.current
        /\ h.vk = IF f.vk = "NEEDS_KEYMAP" /\ f.current THEN "READY" ELSE f.vk
    BY <1>1, VkCancelKeymapWaitFacts DEF SameContext
  <1>3. HardResetKeyboard(f) = VkIsReady(h)
    BY DEF HardResetKeyboard, g, h
  <1> HIDE DEF h
  <1>4. QED
    BY <1>2, <1>3, VkIsReadyFacts DEF SameContext

-----------------------------------------------------------------------------
(* The session and the context. *)

(* A commit changes only the preedit in force at the compositor. *)
LEMMA CommitPreeditFacts ==
    ASSUME NEW f \in Frontend, NEW text \in MaybeField
    PROVE  /\ CommitPreedit(f, text) \in Frontend
           /\ SameGrab(f, CommitPreedit(f, text))
           /\ CommitPreedit(f, text).shown = IF SerialAccepted(f) THEN text ELSE f.shown
           /\ SameButShown(f, CommitPreedit(f, text))
  <1>1. CASE SerialAccepted(f)
    BY <1>1 DEF Frontend, CommitPreedit, SameGrab, SameButShown
  <1>2. CASE ~SerialAccepted(f)
    BY <1>2 DEF CommitPreedit, SameGrab, SameButShown
  <1>3. QED
    BY <1>1, <1>2

(* Cancelling the pending UI forgets what was last sent. *)
LEMMA CancelUiTrackingFacts ==
    ASSUME NEW f \in Frontend
    PROVE  /\ CancelUiTracking(f) \in Frontend
           /\ SameContext(f, CancelUiTracking(f))
           /\ SameGrab(f, CancelUiTracking(f))
  BY DEF Frontend, MaybeField, CancelUiTracking, SameContext, SameGrab

(* Discarding drops the composition with its pending UI. *)
LEMMA DiscardCompositionFacts ==
    ASSUME NEW f \in Frontend
    PROVE  /\ DiscardComposition(f) \in Frontend
           /\ SameGrab(f, DiscardComposition(f))
           /\ DiscardComposition(f).comp = NoField
           /\ DiscardComposition(f).session = f.session
           /\ DiscardComposition(f).focused = f.focused
           /\ DiscardComposition(f).shown = f.shown
           /\ DiscardComposition(f).serial = f.serial
  <1> DEFINE g == CancelUiTracking(f)
  <1>1. g \in Frontend /\ SameContext(f, g) /\ SameGrab(f, g)
    BY CancelUiTrackingFacts
  <1>2. DiscardComposition(f) = [g EXCEPT !.comp = NoField]
    BY DEF DiscardComposition
  <1> HIDE DEF g
  <1>3. QED
    BY <1>1, <1>2 DEF Frontend, MaybeField, SameContext, SameGrab

(* focus_out defocuses the context and keeps the grab. *)
LEMMA FocusOutFacts ==
    ASSUME NEW f \in Frontend
    PROVE  /\ FocusOut(f) \in Frontend
           /\ SameGrab(f, FocusOut(f))
           /\ FocusOut(f).focused = FALSE
           /\ FocusOut(f).session = f.session
           /\ FocusOut(f).comp = f.comp
           /\ FocusOut(f).shown = f.shown
           /\ FocusOut(f).serial = f.serial
  <1> DEFINE g == [f EXCEPT !.focused = FALSE]
  <1>1. /\ g \in Frontend /\ SameGrab(f, g)
        /\ g.focused = FALSE
        /\ g.session = f.session /\ g.comp = f.comp /\ g.shown = f.shown /\ g.serial = f.serial
    BY DEF Frontend, SameGrab
  <1>2. FocusOut(f) = KeyboardPause(g)
    BY DEF FocusOut
  <1> HIDE DEF g
  <1>3. QED
    BY <1>1, <1>2, KeyboardPauseFacts DEF SameGrab, SameContext

(* The anchor probe can only blank the displayed preedit. *)
LEMMA ProbeAnchorFacts ==
    ASSUME NEW f \in Frontend
    PROVE  /\ ProbeAnchor(f) \in Frontend
           /\ SameGrab(f, ProbeAnchor(f))
           /\ SameButShown(f, ProbeAnchor(f))
           /\ ProbeAnchor(f).shown \in {f.shown, NoField}
  BY CommitPreeditFacts DEF MaybeField, ProbeAnchor, SameGrab, SameButShown

-----------------------------------------------------------------------------
(* typio_wl_focus_apply_effects. *)

(* What the effects do to the grab: a destroyed one is gone, a created one *)
(* waits for its keymap with a deadline, and an untouched one is as it was. *)
GrabApplied(f, g, E, ok) ==
    /\ "create_grab" \in E =>
         /\ g.kb = IF ok THEN "grabbed" ELSE "absent"
         /\ f.vkObj => g.vk = "NEEDS_KEYMAP" /\ g.deadline = "armed"
    /\ "create_grab" \notin E /\ "destroy_grab" \in E => g.kb = "absent"
    /\ "create_grab" \notin E /\ "destroy_grab" \notin E =>
         g.kb = f.kb /\ g.vk = f.vk /\ g.deadline = f.deadline
    /\ "create_grab" \notin E \/ ~f.vkObj =>
         g.vk = IF "destroy_grab" \in E /\ f.vk = "NEEDS_KEYMAP" /\ f.current
                THEN "READY" ELSE f.vk
    /\ "create_grab" \notin E /\ "scrub_generation" \notin E =>
         g.current = f.current

(* What the effects do to the context: they abandon the composition, move  *)
(* the focus and blank the preedit, each only for an existing session.     *)
ContextApplied(f, g, E) ==
    /\ g.session = f.session
    /\ g.serial = f.serial
    /\ g.vkObj = f.vkObj
    /\ g.focused = IF f.session /\ "send_focus_in" \in E THEN TRUE
                   ELSE IF f.session /\ "send_focus_out" \in E THEN FALSE
                   ELSE f.focused
    /\ g.comp = IF f.session /\ "discard_composition" \in E THEN NoField ELSE f.comp
    /\ g.shown \in {f.shown, NoField}
    /\ f.session /\ "commit" \in E /\ SerialAccepted(f) => g.shown = NoField

(* apply: the effects of one tick give exactly the focus, grab, composition
   and display that the effect set names (focus_effects.c:186-279). *)
LEMMA ApplyFacts ==
    ASSUME NEW f \in Frontend, NEW E \in SUBSET Effect, NEW ok \in BOOLEAN,
           "send_focus_out" \in E => "send_focus_in" \notin E
    PROVE  /\ Apply(f, E, ok) \in Frontend
           /\ ContextApplied(f, Apply(f, E, ok), E)
           /\ GrabApplied(f, Apply(f, E, ok), E, ok)
  <1> DEFINE f1 == When("discard_composition", E, IF f.session THEN DiscardComposition(f) ELSE f, f)
             f2 == When("send_focus_out", E, IF f1.session THEN FocusOut(f1) ELSE f1, f1)
             f3 == When("destroy_grab", E, HardResetKeyboard(f2), f2)
             f4 == When("commit", E, IF f3.session THEN CommitPreedit(f3, NoField) ELSE f3, f3)
             f5 == When("scrub_generation", E, ScrubGeneration(f4), f4)
             f6 == When("create_grab", E, VkExpectKeymap(KeyboardCreate(f5, ok)), f5)
             f7 == When("send_focus_in", E, ProbeAnchor(f6), f6)
             f8 == When("send_focus_in", E, IF f7.session THEN FocusIn(f7) ELSE f7, f7)
             f9 == When("reactivate", E, ProbeAnchor(f8), f8)
  <1>1. /\ f1 \in Frontend
        /\ SameGrab(f, f1)
        /\ f1.session = f.session /\ f1.serial = f.serial
        /\ f1.focused = f.focused /\ f1.shown = f.shown
        /\ f1.comp = IF f.session /\ "discard_composition" \in E THEN NoField ELSE f.comp
    BY DiscardCompositionFacts DEF When, SameGrab
  <1> HIDE DEF f1
  <1>2. /\ f2 \in Frontend
        /\ SameGrab(f, f2)
        /\ f2.session = f.session /\ f2.serial = f.serial
        /\ f2.comp = f1.comp /\ f2.shown = f.shown
        /\ f2.focused = IF f.session /\ "send_focus_out" \in E THEN FALSE ELSE f.focused
    <2>1. CASE "send_focus_out" \in E /\ f1.session
      <3>1. f2 = FocusOut(f1)
        BY <2>1 DEF When
      <3> HIDE DEF f2
      <3>2. QED
        BY <1>1, <2>1, <3>1, FocusOutFacts DEF SameGrab
    <2>2. CASE ~("send_focus_out" \in E /\ f1.session)
      <3>1. f2 = f1
        BY <2>2 DEF When
      <3> HIDE DEF f2
      <3>2. QED
        BY <1>1, <2>2, <3>1
    <2>3. QED
      BY <2>1, <2>2
  <1> HIDE DEF f2
  <1>3. /\ f3 \in Frontend
        /\ SameContext(f2, f3)
        /\ f3.vkObj = f.vkObj
        /\ f3.kb = IF "destroy_grab" \in E THEN "absent" ELSE f.kb
        /\ f3.current = f.current
        /\ "destroy_grab" \notin E => f3.deadline = f.deadline
        /\ f3.vk = IF "destroy_grab" \in E /\ f.vk = "NEEDS_KEYMAP" /\ f.current
                   THEN "READY" ELSE f.vk
    <2>1. CASE "destroy_grab" \in E
      BY <1>2, <2>1, HardResetFacts DEF When, SameGrab
    <2>2. CASE "destroy_grab" \notin E
      BY <1>2, <2>2 DEF When, SameContext, SameGrab
    <2>3. QED
      BY <2>1, <2>2
  <1> HIDE DEF f3
  <1>4. /\ f4 \in Frontend
        /\ SameGrab(f3, f4)
        /\ f4.session = f.session /\ f4.serial = f.serial
        /\ f4.comp = f1.comp /\ f4.focused = f2.focused
        /\ f4.shown \in {f.shown, NoField}
        /\ f.session /\ "commit" \in E /\ SerialAccepted(f) => f4.shown = NoField
    <2>1. CASE "commit" \in E /\ f3.session
      <3>1. f4 = CommitPreedit(f3, NoField)
        BY <2>1 DEF When
      <3> HIDE DEF f4
      <3>2. /\ f4 \in Frontend
            /\ SameGrab(f3, f4)
            /\ SameButShown(f3, f4)
            /\ f4.shown = IF SerialAccepted(f3) THEN NoField ELSE f3.shown
        BY <1>3, <3>1, CommitPreeditFacts DEF MaybeField
      <3>3. f3.shown = f.shown /\ f3.serial = f.serial /\ f3.session = f.session
        BY <1>2, <1>3 DEF SameContext
      <3>4. SerialAccepted(f3) <=> SerialAccepted(f)
        BY <3>3 DEF SerialAccepted
      <3>5. QED
        BY <1>2, <1>3, <3>2, <3>3, <3>4 DEF SameContext, SameButShown
    <2>2. CASE ~("commit" \in E /\ f3.session)
      <3>1. f4 = f3
        BY <2>2 DEF When
      <3> HIDE DEF f4
      <3>2. QED
        BY <1>2, <1>3, <2>2, <3>1 DEF SameContext, SameGrab
    <2>3. QED
      BY <2>1, <2>2
  <1> HIDE DEF f4
  <1>5. /\ f5 \in Frontend
        /\ SameContext(f4, f5)
        /\ f5.kb = f4.kb /\ f5.vkObj = f4.vkObj /\ f5.vk = f4.vk /\ f5.deadline = f4.deadline
        /\ "scrub_generation" \notin E => f5.current = f4.current
    <2>1. CASE "scrub_generation" \in E
      <3>1. f5 = [f4 EXCEPT !.current = FALSE]
        BY <2>1 DEF When, ScrubGeneration
      <3> HIDE DEF f5
      <3>2. QED
        BY <1>4, <2>1, <3>1 DEF Frontend, SameContext
    <2>2. CASE "scrub_generation" \notin E
      BY <1>4, <2>2 DEF When, SameContext
    <2>3. QED
      BY <2>1, <2>2
  <1> HIDE DEF f5
  <1>6. /\ f6 \in Frontend
        /\ SameContext(f4, f6)
        /\ f6.vkObj = f.vkObj
        /\ "create_grab" \notin E => f6 = f5
        /\ "create_grab" \in E =>
              /\ f6.kb = IF ok THEN "grabbed" ELSE "absent"
              /\ f.vkObj => f6.vk = "NEEDS_KEYMAP" /\ f6.deadline = "armed"
              /\ ~f.vkObj => f6.vk = f5.vk
    <2> DEFINE c == KeyboardCreate(f5, ok)
    <2>1. /\ c \in Frontend
          /\ SameContext(f5, c)
          /\ c.kb = IF ok THEN "grabbed" ELSE "absent"
          /\ c.vkObj = f5.vkObj /\ c.vk = f5.vk
      BY <1>5, KeyboardCreateFacts
    <2>2. f6 = IF "create_grab" \in E THEN VkExpectKeymap(c) ELSE f5
      BY DEF When
    <2> HIDE DEF c, f6
    <2>3. f5.vkObj = f.vkObj
      BY <1>3, <1>4, <1>5 DEF SameGrab
    <2>4. QED
      BY <1>5, <2>1, <2>2, <2>3, VkExpectKeymapFacts DEF SameContext
  <1> HIDE DEF f6
  <1>7. /\ f7 \in Frontend
        /\ SameGrab(f6, f7)
        /\ SameButShown(f6, f7)
        /\ f7.shown \in {f6.shown, NoField}
    BY <1>6, ProbeAnchorFacts DEF When, SameButShown, SameGrab
  <1> HIDE DEF f7
  <1>8. /\ f8 \in Frontend
        /\ SameGrab(f7, f8)
        /\ f8.session = f7.session /\ f8.comp = f7.comp /\ f8.shown = f7.shown
        /\ f8.serial = f7.serial
        /\ f8.focused = IF "send_focus_in" \in E /\ f7.session THEN TRUE ELSE f7.focused
    <2>1. CASE "send_focus_in" \in E /\ f7.session
      <3>1. f8 = [f7 EXCEPT !.focused = TRUE]
        BY <2>1 DEF When, FocusIn
      <3> HIDE DEF f8
      <3>2. QED
        BY <1>7, <2>1, <3>1 DEF Frontend, SameGrab
    <2>2. CASE ~("send_focus_in" \in E /\ f7.session)
      BY <1>7, <2>2 DEF When, SameGrab
    <2>3. QED
      BY <2>1, <2>2
  <1> HIDE DEF f8
  <1>9. /\ f9 \in Frontend
        /\ SameGrab(f8, f9)
        /\ SameButShown(f8, f9)
        /\ f9.shown \in {f8.shown, NoField}
    BY <1>8, ProbeAnchorFacts DEF When, SameButShown, SameGrab
  <1>10. Apply(f, E, ok) = f9
    BY Zenon DEF Apply, f1, f2, f3, f4, f5, f6, f7, f8, f9
  <1> HIDE DEF f9
  <1>11. /\ f7.session = f.session
         /\ f9.session = f.session /\ f9.serial = f.serial
         /\ f9.comp = f1.comp /\ f9.focused = f8.focused
         /\ f7.focused = f2.focused
         /\ f9.shown \in {f4.shown, NoField}
    BY <1>4, <1>5, <1>6, <1>7, <1>8, <1>9 DEF SameContext, SameButShown
  <1>12. /\ f9.vkObj = f.vkObj
         /\ SameGrab(f6, f9)
    BY <1>6, <1>7, <1>8, <1>9 DEF SameGrab
  <1>13. /\ f5.vkObj = f.vkObj /\ f5.kb = f3.kb /\ f5.vk = f3.vk /\ f5.deadline = f3.deadline
         /\ "scrub_generation" \notin E => f5.current = f3.current
    BY <1>3, <1>4, <1>5 DEF SameGrab
  <1>14. ContextApplied(f, f9, E)
    BY <1>1, <1>2, <1>4, <1>8, <1>11, <1>12 DEF ContextApplied
  <1>15. GrabApplied(f, f9, E, ok)
    BY <1>3, <1>6, <1>12, <1>13 DEF GrabApplied, SameGrab
  <1>16. QED
    BY <1>9, <1>10, <1>14, <1>15

-----------------------------------------------------------------------------
(* Losing and rebuilding the connection. *)

(* Unbinding leaves no grab and no virtual keyboard. *)
LEMMA WaylandUnbindFacts ==
    ASSUME NEW f \in Frontend
    PROVE  /\ WaylandUnbind(f) \in Frontend
           /\ SameContext(f, WaylandUnbind(f))
           /\ WaylandUnbind(f).kb = "absent"
           /\ WaylandUnbind(f).vkObj = FALSE
           /\ WaylandUnbind(f).vk = IF f.vkObj THEN "ABSENT" ELSE f.vk
  <1> DEFINE k == KeyboardDestroy(f)
             h == VkSetState(k, "ABSENT")
  <1>1. /\ k \in Frontend
        /\ SameContext(f, k)
        /\ k.kb = "absent" /\ k.vkObj = f.vkObj /\ k.vk = f.vk
    BY KeyboardDestroyFacts DEF SameGrab, Frontend
  <1> HIDE DEF k
  <1>2. /\ h \in Frontend
        /\ SameContext(f, h)
        /\ h.kb = "absent" /\ h.vk = "ABSENT"
    BY <1>1, VkSetStateFacts DEF Resource, SameContext
  <1>3. WaylandUnbind(f) = IF k.vkObj THEN [h EXCEPT !.vkObj = FALSE] ELSE k
    BY DEF WaylandUnbind, k, h
  <1> HIDE DEF h
  <1>4. CASE k.vkObj
    <2>1. WaylandUnbind(f) = [h EXCEPT !.vkObj = FALSE]
      BY <1>3, <1>4
    <2>2. WaylandUnbind(f) \in Frontend
      BY <1>2, <2>1, ZenonT(60) DEF Frontend
    <2>3. SameContext(f, WaylandUnbind(f))
      BY <1>2, <2>1 DEF Frontend, SameContext
    <2>4. WaylandUnbind(f).kb = "absent" /\ WaylandUnbind(f).vk = "ABSENT"
          /\ WaylandUnbind(f).vkObj = FALSE
      BY <1>2, <2>1 DEF Frontend
    <2>5. QED
      BY <1>1, <1>4, <2>2, <2>3, <2>4
  <1>5. CASE ~k.vkObj
    <2>1. k.vkObj = FALSE
      BY <1>1, <1>5 DEF Frontend
    <2>2. QED
      BY <1>1, <1>3, <2>1
  <1>6. QED
    BY <1>4, <1>5

(* Losing the connection leaves no grab and no preedit in force, and keeps
   the context's focus and composition; what was counted counts no more. *)
LEMMA DisconnectedFacts ==
    ASSUME NEW f \in Frontend
    PROVE  /\ Disconnected(f) \in Frontend
           /\ Disconnected(f).session = f.session
           /\ Disconnected(f).focused = f.focused
           /\ Disconnected(f).comp = f.comp
           /\ Disconnected(f).shown = NoField
           /\ Disconnected(f).serial # "behind"
           /\ Disconnected(f).kb = "absent"
           /\ Disconnected(f).vkObj = FALSE
           /\ Disconnected(f).vk = IF f.vkObj THEN "ABSENT" ELSE f.vk
  <1> DEFINE u == WaylandUnbind(f)
  <1>1. /\ u \in Frontend
        /\ SameContext(f, u)
        /\ u.kb = "absent" /\ u.vkObj = FALSE
        /\ u.vk = IF f.vkObj THEN "ABSENT" ELSE f.vk
    BY WaylandUnbindFacts
  <1> DEFINE s == IF u.serial = "zero" THEN "zero" ELSE "off"
  <1>2. Disconnected(f) = [u EXCEPT !.armed = FALSE, !.current = FALSE, !.shown = NoField,
                                    !.serial = s]
    BY DEF Disconnected
  <1>3. /\ s \in {"zero", "exact", "behind", "off", "chance"} /\ s # "behind"
        /\ NoField \in MaybeField
    BY DEF MaybeField
  <1> HIDE DEF u, s
  <1>4. Disconnected(f) \in Frontend
    <2> DEFINE v == [u EXCEPT !.armed = FALSE, !.current = FALSE]
    <2>1. v \in Frontend
      BY <1>1 DEF Frontend
    <2>2. Disconnected(f) = [v EXCEPT !.shown = NoField, !.serial = s]
      BY <1>2
    <2> HIDE DEF v
    <2>3. [v EXCEPT !.shown = NoField, !.serial = s] \in Frontend
      BY <1>3, <2>1 DEF Frontend
    <2>4. QED
      BY <2>2, <2>3
  <1>5. /\ Disconnected(f).session = u.session /\ Disconnected(f).focused = u.focused
        /\ Disconnected(f).comp = u.comp /\ Disconnected(f).kb = u.kb
        /\ Disconnected(f).vkObj = u.vkObj /\ Disconnected(f).vk = u.vk
        /\ Disconnected(f).shown = NoField /\ Disconnected(f).serial = s
    BY <1>1, <1>2 DEF Frontend
  <1>6. QED
    BY <1>1, <1>3, <1>4, <1>5 DEF SameContext

(* Binding gives the virtual keyboard the state of its outcome. *)
LEMMA VkBoundFacts ==
    ASSUME NEW f \in Frontend, NEW outcome \in {"NEEDS_KEYMAP", "BROKEN", "ABSENT"}
    PROVE  /\ VkBound(f, outcome) \in Frontend
           /\ SameContext(f, VkBound(f, outcome))
           /\ VkBound(f, outcome).kb = f.kb
           /\ VkBound(f, outcome).vkObj = (outcome = "NEEDS_KEYMAP")
           /\ VkBound(f, outcome).vk = outcome
  <1> DEFINE g == [f EXCEPT !.vkObj = outcome = "NEEDS_KEYMAP"]
  <1>1. /\ g \in Frontend
        /\ SameContext(f, g)
        /\ g.kb = f.kb /\ g.vkObj = (outcome = "NEEDS_KEYMAP")
    BY DEF Frontend, SameContext
  <1>2. VkBound(f, outcome) = VkSetState(g, outcome)
    BY DEF VkBound
  <1> HIDE DEF g
  <1>3. QED
    BY <1>1, <1>2, VkSetStateFacts DEF Resource, SameContext

(* The destroyed frontend has no grab, focus, composition or preedit. *)
LEMMA FrontendDestroyFacts ==
    ASSUME NEW f \in Frontend
    PROVE  /\ FrontendDestroy(f) \in Frontend
           /\ FrontendDestroy(f).focused = FALSE
           /\ FrontendDestroy(f).comp = NoField
           /\ FrontendDestroy(f).shown = NoField
           /\ FrontendDestroy(f).kb = "absent"
           /\ FrontendDestroy(f).vkObj = FALSE
           /\ FrontendDestroy(f).vk = IF f.vkObj THEN "ABSENT" ELSE f.vk
  <1> DEFINE u == WaylandUnbind(f)
  <1>1. /\ u \in Frontend
        /\ u.kb = "absent" /\ u.vkObj = FALSE
        /\ u.vk = IF f.vkObj THEN "ABSENT" ELSE f.vk
    BY WaylandUnbindFacts
  <1>2. FrontendDestroy(f) = [u EXCEPT !.running = FALSE, !.session = FALSE, !.focused = FALSE,
                                       !.comp = NoField, !.armed = FALSE, !.shown = NoField]
    BY DEF FrontendDestroy
  <1> HIDE DEF u
  <1> DEFINE v == [u EXCEPT !.running = FALSE, !.session = FALSE, !.focused = FALSE]
  <1>3. /\ v \in Frontend
        /\ v.focused = FALSE
        /\ v.kb = u.kb /\ v.vkObj = u.vkObj /\ v.vk = u.vk
    BY <1>1 DEF Frontend
  <1>4. FrontendDestroy(f) = [v EXCEPT !.comp = NoField, !.armed = FALSE, !.shown = NoField]
    BY <1>2
  <1> HIDE DEF v
  <1> DEFINE w == [v EXCEPT !.comp = NoField, !.armed = FALSE]
  <1>5. /\ w \in Frontend
        /\ w.focused = v.focused /\ w.comp = NoField
        /\ w.kb = v.kb /\ w.vkObj = v.vkObj /\ w.vk = v.vk
    BY <1>3, ZenonT(60) DEF Frontend, MaybeField
  <1>6. FrontendDestroy(f) = [w EXCEPT !.shown = NoField]
    BY <1>4
  <1> HIDE DEF w
  <1>7. FrontendDestroy(f) \in Frontend
    BY <1>5, <1>6 DEF Frontend, MaybeField
  <1>8. QED
    BY <1>1, <1>3, <1>5, <1>6 DEF Frontend

=============================================================================

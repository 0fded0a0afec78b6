------------------------- MODULE FocusSessionProofs -------------------------
(***************************************************************************)
(* Theorems about FocusSession, for any fields, wire capacity, retry limit, *)
(* fault set and traffic: type correctness, the safety invariants of the    *)
(* focus session, the soft pause, and the refinement of InputFocus.        *)
(***************************************************************************)
EXTENDS FocusSession, FrontendProofs, SequenceTheorems

-----------------------------------------------------------------------------
(* The wire. *)

(* An event that carries no field is a message. *)
LEMMA PlainType ==
    ASSUME NEW t \in {"activate", "deactivate", "done", "unavailable", "discarded",
                      "keymap", "modifiers", "key"}
    PROVE  Plain(t) \in Message
  BY DEF Plain, Message, GrabEvent, MaybeField

(* Discarding the events of a destroyed grab keeps the queue's shape. *)
LEMMA DiscardedType ==
    ASSUME NEW w \in Seq(Message)
    PROVE  Discarded(w) \in Seq(Message)
  <1>1. PICK n \in Nat : w \in [1..n -> Message]
    BY SeqDef
  <1>2. Discarded(w) \in [1..n -> Message]
    BY <1>1, PlainType DEF Discarded
  <1>3. QED
    BY <1>2, SeqDef

(* Discarding the events of a dead grab leaves a sequence of messages. *)
LEMMA WireAfterType ==
    ASSUME NEW w \in Seq(Message), NEW f
    PROVE  WireAfter(f, w) \in Seq(Message)
  BY DiscardedType DEF WireAfter

(* What the compositor sends is queued behind what it has sent before. *)
LEMMA SendType ==
    ASSUME TypeOK, NEW events \in Seq(Message), Send(events)
    PROVE  wire' \in Seq(Message)
  BY DEF TypeOK, Send

(* A listener runs on the first queued event and takes it off the queue. *)
LEMMA DeliveredType ==
    ASSUME TypeOK, wire # <<>>, Delivered
    PROVE  Head(wire) \in Message /\ wire' \in Seq(Message)
  <1>1. Head(wire) \in Message /\ Tail(wire) \in Seq(Message)
    BY HeadTailProperties DEF TypeOK
  <1>2. QED
    BY <1>1, WireAfterType DEF Delivered

-----------------------------------------------------------------------------
(* The key listener. *)

(* What no key can do, whatever the engine answers: change the focus or    *)
(* rebuild the grab.  A composition begins or grows only in a focused      *)
(* context behind a ready grab, and never in the step that releases it.    *)
KeyHandled(f, g) ==
    /\ g \in Frontend
    /\ g.session = f.session /\ g.focused = f.focused /\ g.serial = f.serial
    /\ g.comp \in {f.comp, NoField} \/ (f.focused /\ f.kb # "absent" /\ f.vk = "READY")
    /\ g.comp = f.comp \/ g.kb = f.kb
    /\ g.shown \in {f.shown, NoField}
    /\ g.kb \in {f.kb, "released"} /\ (f.kb = "absent" => g.kb = "absent")
    /\ g.vkObj = f.vkObj /\ g.vk = f.vk /\ g.current = f.current /\ g.deadline = f.deadline

(* The guard's fail-safe leaves the focus and the composition alone. *)
LEMMA StoppedFacts ==
    ASSUME NEW f \in Frontend
    PROVE  KeyHandled(f, Stopped(f))
  <1> DEFINE g == ReleaseGrab(f)
  <1>1. /\ g \in Frontend
        /\ SameContext(f, g)
        /\ g.kb = IF f.kb = "grabbed" THEN "released" ELSE f.kb
        /\ g.vkObj = f.vkObj /\ g.vk = f.vk /\ g.current = f.current /\ g.deadline = f.deadline
    BY ReleaseGrabFacts DEF SameGrab, Frontend
  <1>2. Stopped(f) = [g EXCEPT !.running = FALSE]
    BY DEF Stopped
  <1> HIDE DEF g
  <1>3. Stopped(f) \in Frontend
    BY <1>1, <1>2, ZenonT(60) DEF Frontend
  <1>4. QED
    BY <1>1, <1>2, <1>3 DEF Frontend, SameContext, KeyHandled

(* A routed key that reaches the engine starts a new reject streak. *)
LEMMA StreakReset ==
    ASSUME NEW f \in Frontend, NEW n \in 0..GuardThreshold
    PROVE  /\ KeyHandled(f, [f EXCEPT !.streak = n])
           /\ SameContext(f, [f EXCEPT !.streak = n])
           /\ SameGrab(f, [f EXCEPT !.streak = n])
  BY DEF Frontend, KeyHandled, SameContext, SameGrab

(* A rejected key never begins or keeps a composition it did not find. *)
LEMMA RejectedFacts ==
    ASSUME NEW f \in Frontend, NEW n \in RejectedStreaks(f)
    PROVE  KeyHandled(f, Rejected(f, n))
  <1> DEFINE noted == [f EXCEPT !.streak = n]
  <1>1. n \in 0..GuardThreshold
    BY ThresholdAssumption DEF RejectedStreaks, Frontend
  <1>2. KeyHandled(f, noted) /\ SameContext(f, noted) /\ SameGrab(f, noted)
    BY <1>1, StreakReset
  <1>3. Rejected(f, n) \in {noted, Stopped(noted)}
    BY DEF Rejected
  <1> HIDE DEF noted
  <1>4. noted \in Frontend /\ KeyHandled(noted, Stopped(noted))
    BY <1>2, StoppedFacts DEF KeyHandled
  <1>5. QED
    BY <1>2, <1>3, <1>4 DEF KeyHandled, SameContext, SameGrab

(* What the engine does with a key keeps the frontend a frontend, and its
   focus and grab as they were unless the fail-safe stops the daemon. *)
LEMMA EngineResultsFacts ==
    ASSUME NEW f \in Frontend, NEW g \in EngineResults(f),
           f.focused, f.kb # "absent", f.vk = "READY"
    PROVE  KeyHandled(f, g)
  <1> DEFINE cleared == [f EXCEPT !.comp = NoField]
             begun == [f EXCEPT !.comp = IF f.comp = NoField THEN f.target ELSE f.comp,
                                !.ui = "DIRTY"]
             ended == [f EXCEPT !.comp = NoField, !.ui = "DIRTY"]
             committed == CommitPreedit(cleared, NoField)
  <1>1. KeyHandled(f, begun)
    BY DEF Frontend, KeyHandled
  <1>2. KeyHandled(f, ended)
    BY ZenonT(60) DEF Frontend, MaybeField, KeyHandled
  <1>3. KeyHandled(f, cleared)
    BY DEF Frontend, MaybeField, KeyHandled
  <1>4. KeyHandled(f, CancelUiTracking(committed))
    <2> HIDE DEF cleared
    <2>1. cleared \in Frontend
      BY <1>3 DEF KeyHandled
    <2>2. /\ committed \in Frontend
          /\ SameGrab(cleared, committed)
          /\ SameButShown(cleared, committed)
          /\ committed.shown \in {cleared.shown, NoField}
      BY <2>1, CommitPreeditFacts DEF MaybeField
    <2> HIDE DEF committed
    <2>3. /\ CancelUiTracking(committed) \in Frontend
          /\ SameContext(committed, CancelUiTracking(committed))
          /\ SameGrab(committed, CancelUiTracking(committed))
      BY <2>2, CancelUiTrackingFacts
    <2>4. QED
      BY <1>3, <2>2, <2>3 DEF KeyHandled, SameGrab, SameButShown, SameContext
  <1>5. KeyHandled(f, VkIsReady(f))
    <2>1. VkIsReady(f).vk = f.vk
      BY VkIsReadyFacts
    <2>2. QED
      BY <2>1, VkIsReadyFacts DEF KeyHandled, SameContext
  <1>6. KeyHandled(f, CommitPreedit(f, NoField))
    BY CommitPreeditFacts, ZenonT(60) DEF MaybeField, KeyHandled, SameGrab, SameButShown
  <1>7. g \in {begun, ended, CancelUiTracking(committed), VkIsReady(f), CommitPreedit(f, NoField)}
    BY DEF EngineResults
  <1> HIDE DEF begun, ended, committed
  <1>8. QED
    BY <1>1, <1>2, <1>4, <1>5, <1>6, <1>7

(* on_key: every outcome keeps the type, and touches the composition only
   when the context is focused (the guard of can_route_keys). *)
LEMMA KeyResultsFacts ==
    ASSUME NEW f \in Frontend, NEW g \in KeyResults(f)
    PROVE  KeyHandled(f, g)
  <1> DEFINE reset == [f EXCEPT !.streak = 0]
  <1>1. KeyHandled(f, reset) /\ SameContext(f, reset) /\ SameGrab(f, reset)
    BY StreakReset, ThresholdAssumption
  <1>2. CASE ~f.xkb
    BY <1>2 DEF KeyResults, KeyHandled
  <1>3. CASE f.xkb /\ f.session /\ CanRouteKeys(f.focused, Observe(f))
    <2>1. f.focused /\ f.kb # "absent" /\ f.vk = "READY"
      BY <1>3 DEF CanRouteKeys, Observe
    <2>2. g \in EngineResults(reset)
      BY <1>3, <2>1 DEF KeyResults, CanRouteKeys
    <2> HIDE DEF reset
    <2>3. KeyHandled(reset, g)
      BY <1>1, <2>1, <2>2, EngineResultsFacts, ZenonT(60) DEF KeyHandled, SameGrab
    <2>4. QED
      BY <1>1, <2>1, <2>3 DEF KeyHandled, SameContext, SameGrab
  <1>4. CASE f.xkb /\ ~f.focused /\ Observe(f) = "READY"
    <2>1. g = VkIsReady(reset)
      BY <1>4 DEF KeyResults, CanRouteKeys
    <2>2. f.vk = "READY"
      BY <1>4 DEF Observe
    <2> HIDE DEF reset
    <2>3. /\ reset \in Frontend /\ reset.vk = "READY"
          /\ g.vk = reset.vk
      BY <1>1, <2>1, <2>2, VkIsReadyFacts DEF KeyHandled
    <2>4. KeyHandled(reset, g)
      BY <2>1, <2>3, VkIsReadyFacts DEF KeyHandled, SameContext
    <2>5. QED
      BY <1>1, <2>4, <1>4 DEF KeyHandled, SameContext, SameGrab
  <1>5. CASE \E n \in RejectedStreaks(f) : g = Rejected(f, n)
    BY <1>5, RejectedFacts
  <1>6. QED
    BY <1>2, <1>3, <1>4, <1>5 DEF KeyResults

(* The panel flush blanks or shows the composition, and moves nothing else. *)
LEMMA UpdateTextUiFacts ==
    ASSUME NEW f \in Frontend, NEW result \in {"IDLE", "RETRY"}
    PROVE  /\ UpdateTextUi(f, result) \in Frontend
           /\ SameButShown(f, UpdateTextUi(f, result))
           /\ SameGrab(f, UpdateTextUi(f, result))
           /\ UpdateTextUi(f, result).shown # f.shown => SerialAccepted(f)
  <1> DEFINE sent == IF f.last # f.comp THEN CommitPreedit(f, f.comp) ELSE f
  <1>1. f.comp \in MaybeField
    BY DEF Frontend
  <1>2. /\ sent \in Frontend
        /\ SameButShown(f, sent) /\ SameGrab(f, sent)
        /\ sent.shown # f.shown => SerialAccepted(f)
    BY <1>1, CommitPreeditFacts DEF SameButShown, SameGrab
  <1>3. UpdateTextUi(f, result) = [sent EXCEPT !.ui = result, !.last = f.comp]
    BY DEF UpdateTextUi
  <1> HIDE DEF sent
  <1>4. UpdateTextUi(f, result) \in Frontend
    <2> DEFINE text == f.comp
    <2>1. sent \in Frontend /\ text \in MaybeField
      BY <1>1, <1>2
    <2>2. UpdateTextUi(f, result) = [sent EXCEPT !.ui = result, !.last = text]
      BY <1>3
    <2> HIDE DEF text
    <2>3. [sent EXCEPT !.ui = result, !.last = text] \in Frontend
      BY <2>1 DEF Frontend
    <2>4. QED
      BY <2>2, <2>3
  <1>5. /\ SameButShown(sent, UpdateTextUi(f, result))
        /\ SameGrab(sent, UpdateTextUi(f, result))
        /\ UpdateTextUi(f, result).shown = sent.shown
    BY <1>2, <1>3 DEF Frontend, SameButShown, SameGrab
  <1>6. QED
    BY <1>2, <1>4, <1>5 DEF SameButShown, SameGrab

-----------------------------------------------------------------------------
(* Type correctness. *)

(* The facts the pipeline reduces are facts, with the engine flag filled in. *)
LEMMA FactsType ==
    ASSUME NEW gap \in BOOLEAN, NEW present \in BOOLEAN, NEW fs \in Facts
    PROVE  /\ [NoFacts EXCEPT !.suspend_gap_detected = gap] \in Facts
           /\ [fs EXCEPT !.engine_present = present] \in Facts
           /\ ClassifyDone(fs) \in Facts
  BY DEF Facts, NoFacts, ClassifyDone

(* One reduce, diff and apply keeps the types of the frontend and of
   focus_prev_desired. *)
LEMMA PipelineType ==
    ASSUME TypeOK
    PROVE  /\ [facts EXCEPT !.engine_present = engine] \in Facts
           /\ Observe(fe) \in Resource
           /\ PipelineDesired \in Desired
           /\ PipelineEffects \in SUBSET Effect
  <1>1. [facts EXCEPT !.engine_present = engine] \in Facts
    BY FactsType DEF TypeOK
  <1>2. Observe(fe) \in Resource
    BY DEF TypeOK, Observe, Frontend, Resource
  <1>3. PipelineDesired \in Desired
    BY <1>1, ReduceType DEF TypeOK, PipelineDesired
  <1>4. PipelineEffects \in SUBSET Effect
    BY DEF PipelineEffects, Diff, Teardown, Creation, BrokenRecovery, Defocus, Effect
  <1>5. QED
    BY <1>1, <1>2, <1>3, <1>4

(* A tick never both focuses and defocuses. *)
LEMMA PipelineExclusive ==
    ASSUME TypeOK
    PROVE  "send_focus_out" \in PipelineEffects => "send_focus_in" \notin PipelineEffects
  <1>1. /\ "send_focus_out" \in PipelineEffects <=> PipelineDesired.focus_out
        /\ "send_focus_in" \in PipelineEffects <=> PipelineDesired.focus_in
    BY PipelineType, DiffEffects DEF PipelineEffects
  <1>2. /\ PipelineDesired.focus_in => PipelineDesired.grab = "YES"
        /\ PipelineDesired.focus_out => PipelineDesired.grab # "YES"
    BY PipelineType, ReduceEdges DEF TypeOK, PipelineDesired
  <1>3. QED
    BY <1>1, <1>2

(* The frontend main() creates satisfies the invariant, whatever became of
   the virtual keyboard. *)
LEMMA FreshFacts ==
    ASSUME NEW outcome \in VkOutcome
    PROVE  /\ Fresh(outcome) \in Frontend
           /\ outcome \in {"NEEDS_KEYMAP", "BROKEN", "ABSENT"}
           /\ Fresh(outcome).focused = FALSE
           /\ Fresh(outcome).session = FALSE
           /\ Fresh(outcome).comp = NoField
           /\ Fresh(outcome).shown = NoField
           /\ Fresh(outcome).serial = "zero"
           /\ Fresh(outcome).kb = "absent"
           /\ Fresh(outcome).vkObj = (outcome = "NEEDS_KEYMAP")
           /\ Fresh(outcome).vk = outcome
  <1> DEFINE new == [running |-> TRUE, session |-> FALSE, focused |-> FALSE, comp |-> NoField,
             target |-> NoField, ui |-> "IDLE", last |-> NoField, shown |-> NoField,
             serial |-> "zero", kb |-> "absent", xkb |-> FALSE,
             vkObj |-> FALSE, vk |-> "ABSENT", current |-> FALSE, deadline |-> "none",
             armed |-> FALSE, streak |-> 0]
  <1>1. 0 \in 0..GuardThreshold
    BY ThresholdAssumption
  <1>2. new \in Frontend
    BY <1>1 DEF Frontend, MaybeField, Resource
  <1>3. /\ new.focused = FALSE /\ new.session = FALSE
        /\ new.comp = NoField /\ new.shown = NoField /\ new.kb = "absent"
        /\ new.serial = "zero"
    OBVIOUS
  <1>4. outcome \in {"NEEDS_KEYMAP", "BROKEN", "ABSENT"}
    BY DEF VkOutcome
  <1>5. Fresh(outcome) = VkBound(new, outcome)
    BY DEF Fresh
  <1> HIDE DEF new
  <1>6. QED
    BY <1>2, <1>3, <1>4, <1>5, VkBoundFacts DEF SameContext

(* The initial states have the type of the frontend and the loop. *)
LEMMA TypeInit == Init => TypeOK
  <1> SUFFICES ASSUME Init PROVE TypeOK
    OBVIOUS
  <1>1. fe \in Frontend
    BY FreshFacts, ZenonT(60) DEF Init
  <1>2. NoFacts \in Facts /\ NothingDesired \in Desired
    BY DEF NoFacts, Facts, NothingDesired, Desired, Want
  <1>3. <<>> \in Seq(Message) /\ 0 \in 0..MaxAttempts
    BY AttemptsAssumption
  <1>4. power \in [gap : BOOLEAN, logind : BOOLEAN, cooldown : BOOLEAN]
    BY DEF Init
  <1>5. QED
    BY <1>1, <1>2, <1>3, <1>4 DEF Init, TypeOK, Location, MaybeField

(* TypeOK is not inductive by itself: that a failed bind keeps the count   *)
(* of attempts within its limit follows from the look the retry loop took  *)
(* before it tried.                                                        *)
AttemptLeft == pc = "binding" => attempt < MaxAttempts

(* The steps of the loop. *)
LEMMA LoopType == TypeOK /\ AttemptLeft /\ Loop => TypeOK'
  <1> SUFFICES ASSUME TypeOK, AttemptLeft, Loop PROVE TypeOK'
    OBVIOUS
  <1> USE DEF TypeOK
  <1>1. CASE LoopTop
    <2>1. Fires(power.gap) \in BOOLEAN
      BY DEF Fires
    <2>2. facts' \in Facts
      BY <1>1, <2>1, FactsType DEF LoopTop
    <2>3. power' \in [gap : BOOLEAN, logind : BOOLEAN, cooldown : BOOLEAN]
      BY <1>1 DEF LoopTop
    <2>4. QED
      BY <1>1, <2>2, <2>3 DEF LoopTop, Location
  <1>2. CASE LoopStops \/ PrepareAndFlush \/ BuildPollSet \/ PollReady \/ PollInterrupted
    BY <1>2, ZenonT(60) DEF LoopStops, PrepareAndFlush, BuildPollSet, PollReady, PollInterrupted, Location
  <1>3. CASE PollTimeout
    BY <1>3, VkHealthCheckFacts, WireAfterType DEF PollTimeout, Location
  <1>4. CASE DispatchEnds
    BY <1>4 DEF DispatchEnds, Location
  <1>5. CASE LogindResume
    <2>1. facts' \in Facts
      BY <1>5 DEF LogindResume, Fires, Facts
    <2>2. power' \in [gap : BOOLEAN, logind : BOOLEAN, cooldown : BOOLEAN]
      BY <1>5 DEF LogindResume
    <2>3. QED
      BY <1>5, <2>1, <2>2 DEF LogindResume, Location
  <1>6. CASE RunPipeline
    <2>1. PICK ok \in BOOLEAN : fe' = Apply(fe, PipelineEffects, ok)
      BY <1>6 DEF RunPipeline, MaySucceed
    <2>2. fe' \in Frontend
      BY <2>1, PipelineType, PipelineExclusive, ApplyFacts
    <2>3. prev' \in Desired /\ wire' \in Seq(Message)
      BY <1>6, PipelineType, DiscardedType, WireAfterType DEF RunPipeline
    <2>4. owed' \in BOOLEAN
      BY <1>6 DEF RunPipeline
    <2>5. QED
      BY <1>6, <2>2, <2>3, <2>4 DEF RunPipeline, Location
  <1>7. CASE HealthCheck
    BY <1>7, VkHealthCheckFacts, WireAfterType, ZenonT(60) DEF HealthCheck, Location
  <1>8. CASE FlushPanel
    <2>1. fe' \in Frontend
      BY <1>8, UpdateTextUiFacts DEF FlushPanel
    <2>2. wsi' \in BOOLEAN
      BY <1>8 DEF FlushPanel
    <2>3. QED
      BY <1>8, <2>1, <2>2 DEF FlushPanel, Location
  <1>9. CASE ConnectionLost
    <2>1. fe' \in Frontend
      BY <1>9, DisconnectedFacts DEF ConnectionLost
    <2>2. <<>> \in Seq(Message) /\ 0 \in 0..MaxAttempts
      BY AttemptsAssumption
    <2>3. QED
      BY <1>9, <2>1, <2>2 DEF ConnectionLost, Location, MaybeField
  <1>10. CASE RetryConnect
    BY <1>10 DEF RetryConnect, Location
  <1>11. CASE GiveUp
    <2>1. fe' \in Frontend
      BY <1>11 DEF GiveUp, Frontend
    <2>2. QED
      BY <1>11, <2>1 DEF GiveUp, Location
  <1>12. CASE BindFails
    <2>1. attempt + 1 \in 0..MaxAttempts
      BY <1>12, AttemptsAssumption DEF BindFails, AttemptLeft
    <2>2. QED
      BY <1>12, <2>1 DEF BindFails, Location
  <1>13. CASE BindObjects
    <2>1. fe' \in Frontend
      BY <1>13, VkBoundFacts DEF BindObjects, VkOutcome
    <2>2. QED
      BY <1>13, <2>1 DEF BindObjects, Location
  <1>14. CASE Reconnected
    <2>1. fe' \in Frontend
      BY <1>14 DEF Reconnected, ResumeLoop, Frontend
    <2>2. QED
      BY <1>14, <2>1 DEF Reconnected, Location
  <1>15. CASE Destroy
    <2>1. fe' \in Frontend
      BY <1>15, FrontendDestroyFacts DEF Destroy
    <2>2. <<>> \in Seq(Message)
      OBVIOUS
    <2>3. QED
      BY <1>15, <2>1, <2>2 DEF Destroy, Location, MaybeField
  <1>16. QED
    BY <1>1, <1>2, <1>3, <1>4, <1>5, <1>6, <1>7, <1>8, <1>9, <1>10, <1>11, <1>12, <1>13, <1>14,
       <1>15 DEF Loop

(* Counting a done changes the count alone. *)
LEMMA CountDoneFacts ==
    ASSUME NEW f \in Frontend, NEW w, NEW g \in CountDone(f, w)
    PROVE  /\ g \in Frontend
           /\ SameGrab(f, g)
           /\ g.session = f.session /\ g.focused = f.focused /\ g.comp = f.comp
           /\ g.shown = f.shown /\ g.running = f.running
           /\ g.serial # "zero"
           /\ g.serial = "behind" => Has("done", w)
  <1> DEFINE counted == IF f.serial = "zero" THEN "exact" ELSE f.serial
  <1>1. counted \in {"exact", "behind", "off", "chance"}
    BY DEF Frontend
  <1>2. PICK s \in Compared(counted, w) : g = [f EXCEPT !.serial = s]
    BY DEF CountDone
  <1> HIDE DEF counted
  <1>3. s \in {"exact", "behind", "off", "chance"} /\ (s = "behind" => Has("done", w))
    BY <1>1, <1>2 DEF Compared
  <1>4. QED
    BY <1>2, <1>3 DEF Frontend, SameGrab

(* What the compositor sends moves its own side of the input method: the   *)
(* preedit in force and how the daemon's count compares, and nothing else. *)
OnlyDisplay(f, g) ==
    /\ g \in Frontend
    /\ SameGrab(f, g)
    /\ g.session = f.session /\ g.focused = f.focused /\ g.comp = f.comp
    /\ g.running = f.running
    /\ g.shown \in {f.shown, NoField}
    /\ g.serial = "zero" <=> f.serial = "zero"

(* Sending events is such a move. *)
LEMMA SentFacts ==
    ASSUME NEW f \in Frontend, NEW events, NEW g \in Sent(f, events)
    PROVE  /\ OnlyDisplay(f, g)
           /\ g.serial = "behind" =>
                \/ Has("done", events) /\ Has("done", wire \o events)
                \/ f.serial = "behind"
  <1> DEFINE kept == IF Has("activate", events) THEN NoField ELSE f.shown
             counts == IF Has("done", events) THEN Compared(f.serial, wire \o events)
                       ELSE {f.serial}
  <1>1. kept \in MaybeField /\ kept \in {f.shown, NoField}
    BY DEF Frontend, MaybeField
  <1>2. PICK s \in counts : g = [f EXCEPT !.serial = s, !.shown = kept]
    BY DEF Sent
  <1>3. /\ s \in {"zero", "exact", "behind", "off", "chance"}
        /\ s = "zero" <=> f.serial = "zero"
        /\ s = "behind" => \/ Has("done", events) /\ Has("done", wire \o events)
                           \/ f.serial = "behind"
    BY <1>2 DEF Compared, Frontend
  <1> HIDE DEF kept, counts
  <1> DEFINE h == [f EXCEPT !.serial = s]
  <1>4. /\ h \in Frontend /\ SameGrab(f, h)
        /\ h.session = f.session /\ h.focused = f.focused /\ h.comp = f.comp
        /\ h.running = f.running /\ h.serial = s
    BY <1>3 DEF Frontend, SameGrab
  <1>5. g = [h EXCEPT !.shown = kept]
    BY <1>2
  <1> HIDE DEF h
  <1>6. /\ g \in Frontend /\ SameGrab(h, g)
        /\ g.session = h.session /\ g.focused = h.focused /\ g.comp = h.comp
        /\ g.running = h.running /\ g.serial = h.serial /\ g.shown = kept
    BY <1>1, <1>4, <1>5 DEF Frontend, SameGrab
  <1>7. QED
    BY <1>1, <1>3, <1>4, <1>6 DEF OnlyDisplay, SameGrab

(* Every step of the compositor is one, and leaves the loop where it is.   *)
LEMMA CompositorFrame ==
    ASSUME TypeOK, Compositor
    PROVE  OnlyDisplay(fe, fe') /\ pc' = pc /\ facts' = facts /\ prev' = prev /\ eintr' = eintr
  <1>1. fe \in Frontend
    BY DEF TypeOK
  <1>2. CASE \E events : Send(events)
    BY <1>1, <1>2, SentFacts DEF Send
  <1>3. CASE CompositorDies
    BY <1>1, <1>3 DEF CompositorDies, OnlyDisplay, SameGrab
  <1>4. QED
    BY <1>2, <1>3 DEF Compositor, EnterField, LeaveField, MoveField, SwitchField, TextUpdate,
         Unavailable, SendKeymap, SendKey, SendModifiers

(* An activate names the field the session is for. *)
LEMMA ActivatedType ==
    ASSUME NEW f \in Frontend, NEW field \in MaybeField
    PROVE  [f EXCEPT !.session = TRUE, !.target = field] \in Frontend
  <1> DEFINE g == [f EXCEPT !.session = TRUE]
  <1>1. g \in Frontend
    BY DEF Frontend
  <1>2. [f EXCEPT !.session = TRUE, !.target = field] = [g EXCEPT !.target = field]
    OBVIOUS
  <1> HIDE DEF g
  <1>3. QED
    BY <1>1, <1>2 DEF Frontend

(* The listeners. *)
LEMMA DispatchType == TypeOK /\ Dispatch => TypeOK'
  <1> SUFFICES ASSUME TypeOK, Dispatch PROVE TypeOK'
    OBVIOUS
  <1>1. PICK t : Dispatching(t)
    BY DEF Dispatch, ImActivate, ImDeactivate, ImDone, ImUnavailable, DropDiscarded, OnKeymap,
           OnModifiers, OnKey
  <1>2. Delivered
    BY DEF Dispatch, ImActivate, ImDeactivate, ImDone, ImUnavailable, DropDiscarded, OnKeymap,
           OnModifiers, OnKey
  <1>3. Head(wire) \in Message /\ wire' \in Seq(Message)
    BY <1>1, <1>2, DeliveredType DEF Dispatching
  <1>4. fe' \in Frontend /\ facts' \in Facts
    <2> USE DEF TypeOK
    <2>1. CASE ImActivate
      <3> DEFINE g == CancelUiTracking(fe)
      <3>1. g \in Frontend
        BY CancelUiTrackingFacts
      <3>2. Head(wire).field \in MaybeField
        BY <1>3 DEF Message
      <3> DEFINE h == [g EXCEPT !.session = TRUE, !.target = Head(wire).field]
      <3>3. h \in Frontend
        BY <3>1, <3>2, ActivatedType
      <3>4. fe' \in Frontend
        BY <2>1, <3>3 DEF ImActivate
      <3>5. facts' \in Facts
        BY <2>1 DEF ImActivate, Facts
      <3>6. QED
        BY <3>4, <3>5
    <2>2. CASE ImDeactivate
      BY <2>2 DEF ImDeactivate, Facts
    <2>3. CASE ImDone
      <3>1. fe' \in Frontend
        BY <2>3, CountDoneFacts DEF ImDone
      <3>2. facts' \in Facts
        BY <2>3, FactsType DEF ImDone
      <3>3. QED
        BY <3>1, <3>2
    <2>4. CASE ImUnavailable
      BY <2>4 DEF ImUnavailable, Frontend
    <2>5. CASE DropDiscarded
      BY <2>5 DEF DropDiscarded
    <2>6. CASE OnKeymap
      <3>1. PICK dup \in BOOLEAN, compiled \in BOOLEAN :
              fe' = [VkForwardKeymap(fe, dup) EXCEPT !.xkb = @ \/ compiled]
        BY <2>6 DEF OnKeymap, MaySucceed
      <3>2. VkForwardKeymap(fe, dup) \in Frontend
        BY VkForwardKeymapFacts
      <3>3. fe' \in Frontend
        BY <3>1, <3>2, ZenonT(60) DEF Frontend
      <3>4. QED
        BY <2>6, <3>3 DEF OnKeymap
    <2>7. CASE OnModifiers
      BY <2>7, VkIsReadyFacts DEF OnModifiers
    <2>8. CASE OnKey
      BY <2>8, KeyResultsFacts, StoppedFacts DEF OnKey, KeyHandled
    <2>9. QED
      BY <2>1, <2>2, <2>3, <2>4, <2>5, <2>6, <2>7, <2>8 DEF Dispatch
  <1>5. QED
    BY <1>1, <1>3, <1>4 DEF TypeOK, Dispatching

(* The compositor. *)
LEMMA CompositorType == TypeOK /\ Compositor => TypeOK'
  <1> SUFFICES ASSUME TypeOK, Compositor PROVE TypeOK'
    OBVIOUS
  <1>1. \A t \in {"deactivate", "done", "unavailable", "keymap", "modifiers", "key"} :
          Plain(t) \in Message
    BY PlainType
  <1>2. \A f \in Field : Activate(f) \in Message
    BY DEF Activate, Message, MaybeField
  <1>3. ASSUME NEW events \in Seq(Message), Send(events),
               editing' \in MaybeField, owed' \in BOOLEAN
        PROVE  TypeOK'
    <2>1. wire' \in Seq(Message)
      BY <1>3, SendType
    <2>2. fe' \in Frontend
      BY CompositorFrame DEF OnlyDisplay
    <2>3. QED
      BY <1>3, <2>1, <2>2 DEF TypeOK, Send
  <1>4. CASE EnterField \/ SwitchField
    <2>1. PICK f \in Field : Send(<<Activate(f), Plain("done")>>) /\ editing' = f
      BY <1>4 DEF EnterField, SwitchField
    <2>2. <<Activate(f), Plain("done")>> \in Seq(Message)
      BY <1>1, <1>2
    <2>3. editing' \in MaybeField /\ owed' \in BOOLEAN
      BY <1>4, <2>1 DEF EnterField, SwitchField, MaybeField, TypeOK
    <2>4. QED
      BY <1>3, <2>1, <2>2, <2>3
  <1>5. CASE MoveField
    <2>1. PICK f \in Field : /\ Send(<<Plain("deactivate"), Activate(f), Plain("done")>>)
                             /\ editing' = f
      BY <1>5 DEF MoveField
    <2>2. <<Plain("deactivate"), Activate(f), Plain("done")>> \in Seq(Message)
      BY <1>1, <1>2
    <2>3. editing' \in MaybeField /\ owed' \in BOOLEAN
      BY <1>5, <2>1 DEF MoveField, MaybeField, TypeOK
    <2>4. QED
      BY <1>3, <2>1, <2>2, <2>3
  <1>6. CASE LeaveField
    <2>1. <<Plain("deactivate"), Plain("done")>> \in Seq(Message)
      BY <1>1
    <2>2. editing' \in MaybeField /\ owed' \in BOOLEAN
      BY <1>6 DEF LeaveField, MaybeField, TypeOK
    <2>3. QED
      BY <1>3, <1>6, <2>1, <2>2 DEF LeaveField
  <1>7. CASE TextUpdate \/ Unavailable \/ SendKeymap \/ SendKey \/ SendModifiers
    <2>1. PICK t \in {"done", "unavailable", "keymap", "key", "modifiers"} : Send(<<Plain(t)>>)
      BY <1>7 DEF TextUpdate, Unavailable, SendKeymap, SendKey, SendModifiers
    <2>2. <<Plain(t)>> \in Seq(Message)
      BY <1>1
    <2>3. editing' \in MaybeField /\ owed' \in BOOLEAN
      BY <1>7 DEF TextUpdate, Unavailable, SendKeymap, SendKey, SendModifiers, TypeOK
    <2>4. QED
      BY <1>3, <2>1, <2>2, <2>3
  <1>8. CASE CompositorDies
    BY <1>8 DEF CompositorDies, MaybeField, TypeOK
  <1>9. QED
    BY <1>4, <1>5, <1>6, <1>7, <1>8 DEF Compositor

(* The clocks, logind, signals and the engine. *)
LEMMA OthersType ==
    TypeOK /\ (PollOther \/ EngineChanges \/ Sleep \/ CooldownEnds \/ DeadlinePasses \/ Signal
                 \/ Ended \/ UNCHANGED vars) => TypeOK'
  <1> SUFFICES ASSUME TypeOK,
                      PollOther \/ EngineChanges \/ Sleep \/ CooldownEnds \/ DeadlinePasses
                        \/ Signal \/ Ended \/ UNCHANGED vars
               PROVE  TypeOK'
    OBVIOUS
  <1> USE DEF TypeOK
  <1>1. CASE PollOther \/ EngineChanges
    BY <1>1, ZenonT(60) DEF PollOther, EngineChanges, Location
  <1>2. CASE Sleep \/ CooldownEnds
    <2>1. power' \in [gap : BOOLEAN, logind : BOOLEAN, cooldown : BOOLEAN]
      BY <1>2 DEF Sleep, CooldownEnds
    <2>2. QED
      BY <1>2, <2>1, ZenonT(60) DEF Sleep, CooldownEnds
  <1>3. CASE DeadlinePasses
    <2>1. fe' = [fe EXCEPT !.deadline = "expired"]
      BY <1>3 DEF DeadlinePasses
    <2>2. fe' \in Frontend
      BY <2>1 DEF Frontend
    <2>3. QED
      BY <1>3, <2>2 DEF DeadlinePasses
  <1>4. CASE Signal
    <2>1. fe' = [fe EXCEPT !.running = FALSE]
      BY <1>4 DEF Signal
    <2>2. fe' \in Frontend
      BY <2>1 DEF Frontend
    <2>3. QED
      BY <1>4, <2>2 DEF Signal
  <1>5. CASE Ended \/ UNCHANGED vars
    BY <1>5 DEF Ended, vars
  <1>6. QED
    BY <1>1, <1>2, <1>3, <1>4, <1>5

(* While the loop binds, the retry limit has not been reached: the guard of
   typio_wl_reconnect_should_retry survives until the attempt is counted. *)
LEMMA AttemptLeftStep == TypeOK /\ AttemptLeft /\ [Next]_vars => AttemptLeft'
  BY DEF AttemptLeft, Next, vars, Loop, Dispatch, Compositor, Dispatching, Send,
         LoopTop, LoopStops, PrepareAndFlush, BuildPollSet, PollReady, PollTimeout,
         PollInterrupted, DispatchEnds, LogindResume, RunPipeline, HealthCheck, FlushPanel,
         ConnectionLost, RetryConnect, GiveUp, BindFails, BindObjects, Reconnected, Destroy,
         ImActivate, ImDeactivate, ImDone, ImUnavailable, DropDiscarded, OnKeymap, OnModifiers,
         OnKey, EnterField, LeaveField, MoveField, SwitchField, TextUpdate, Unavailable,
         SendKeymap, SendKey, SendModifiers, CompositorDies, PollOther, EngineChanges, Sleep,
         CooldownEnds, DeadlinePasses, Signal, Ended

(* Every step keeps the types, given that bound on the attempt counter. *)
LEMMA TypeStep == TypeOK /\ AttemptLeft /\ [Next]_vars => TypeOK' /\ AttemptLeft'
  BY LoopType, DispatchType, CompositorType, OthersType, AttemptLeftStep DEF Next

(* Every variable keeps its type, and the reconnect loop never exceeds its *)
(* limit of attempts.                                                      *)
THEOREM TypeCorrect == Spec => []TypeOK
  <1>1. Init => TypeOK /\ AttemptLeft
    BY TypeInit DEF Init, AttemptLeft
  <1>2. QED
    BY <1>1, TypeStep, PTL DEF Spec

-----------------------------------------------------------------------------
(* The inductive invariant.  The properties hold because of facts they do  *)
(* not state: nothing is in force before the first done, an activate the   *)
(* loop still remembers made a session, the state of the virtual keyboard  *)
(* says whether it exists, and nothing is grabbed while the connection is  *)
(* down.                                                                   *)

Sound(f) ==
    /\ f.comp # NoField => f.focused
    /\ f.serial = "zero" => f.shown = NoField
    /\ f.kb = "grabbed" /\ f.vk = "READY" => f.current
    /\ f.kb = "grabbed" /\ f.vk = "NEEDS_KEYMAP" => f.deadline # "none"
    /\ f.vkObj => f.vk # "ABSENT"
    /\ ~f.vkObj => f.vk \in {"ABSENT", "BROKEN"}

SessionBacksFocus ==
    pc # "dead" /\ (prev.grab = "YES" \/ Activated(facts)) => fe.session

NoGrabWhileDown == pc \in {"backoff", "binding", "bound"} => fe.kb = "absent"

Inductive ==
    /\ TypeOK
    /\ AttemptLeft
    /\ Sound(fe)
    /\ FocusMatchesWant
    /\ SessionBacksFocus
    /\ NoGrabUnwanted
    /\ NoGrabWhileDown

(* The initial states satisfy the inductive invariant. *)
LEMMA InductiveInit == Init => Inductive
  <1> SUFFICES ASSUME Init PROVE Inductive
    OBVIOUS
  <1>1. PICK outcome \in VkOutcome : fe = Fresh(outcome)
    BY DEF Init
  <1>2. /\ fe.focused = FALSE /\ fe.comp = NoField /\ fe.shown = NoField
        /\ fe.kb = "absent" /\ fe.vkObj = (outcome = "NEEDS_KEYMAP") /\ fe.vk = outcome
        /\ outcome \in {"NEEDS_KEYMAP", "BROKEN", "ABSENT"}
    BY <1>1, FreshFacts
  <1>3. Sound(fe)
    BY <1>2 DEF Sound
  <1>4. TypeOK /\ AttemptLeft
    BY TypeInit DEF Init, AttemptLeft
  <1>5. prev.grab = "NONE" /\ ~Activated(facts)
    BY DEF Init, NothingDesired, NoFacts, Activated
  <1>6. QED
    BY <1>2, <1>3, <1>4, <1>5
       DEF Inductive, FocusMatchesWant, SessionBacksFocus, NoGrabUnwanted, NoGrabWhileDown

(* A step that leaves the frontend to a key or a failed health check.      *)
LEMMA HandledStep ==
    ASSUME Inductive, TypeOK', AttemptLeft', KeyHandled(fe, fe'), prev' = prev,
           pc' \in {"backoff", "binding", "bound"} => pc \in {"backoff", "binding", "bound"},
           pc = "dead" => pc' = "dead",
           Activated(facts') => Activated(facts)
    PROVE  Inductive'
  <1>1. Sound(fe')
    BY DEF Inductive, Sound, KeyHandled, TypeOK, Frontend
  <1>2. FocusMatchesWant'
    BY DEF Inductive, FocusMatchesWant, KeyHandled
  <1>3. SessionBacksFocus'
    BY DEF Inductive, SessionBacksFocus, KeyHandled
  <1>4. NoGrabUnwanted'
    BY DEF Inductive, NoGrabUnwanted, KeyHandled
  <1>5. NoGrabWhileDown'
    BY DEF Inductive, NoGrabWhileDown, KeyHandled
  <1>6. QED
    BY <1>1, <1>2, <1>3, <1>4, <1>5 DEF Inductive

(* Stopping or resuming the loop changes nothing the invariant speaks of. *)
LEMMA RunningFacts ==
    ASSUME NEW f \in Frontend, NEW b \in BOOLEAN
    PROVE  KeyHandled(f, [f EXCEPT !.running = b])
  BY DEF KeyHandled, Frontend

(* Nothing the invariant speaks of has changed. *)
LEMMA UnchangedHandled ==
    ASSUME TypeOK, fe' = fe
    PROVE  KeyHandled(fe, fe')
  BY DEF TypeOK, KeyHandled

(* The keymap-deadline check only ever takes the grab away. *)
LEMMA HealthCheckHandled ==
    ASSUME NEW f \in Frontend
    PROVE  KeyHandled(f, VkHealthCheck(f))
  <1>1. /\ VkHealthCheck(f).vkObj = f.vkObj /\ VkHealthCheck(f).vk = f.vk
        /\ VkHealthCheck(f).current = f.current /\ VkHealthCheck(f).deadline = f.deadline
    BY VkHealthCheckFacts DEF SameGrab, Frontend
  <1>2. QED
    BY <1>1, VkHealthCheckFacts DEF SameContext, KeyHandled

(* The tick: the focus follows the wanted grab, the composition and the    *)
(* preedit follow the focus, and the grab is rebuilt or dropped whole.     *)
LEMMA RunPipelineStep ==
    ASSUME Inductive, TypeOK', RunPipeline
    PROVE  Inductive'
  <1> DEFINE d == PipelineDesired
             E == PipelineEffects
  <1>1. PICK ok \in BOOLEAN : fe' = Apply(fe, E, ok)
    BY DEF RunPipeline, MaySucceed
  <1>2. TypeOK
    BY DEF Inductive
  <1>3. /\ "send_focus_in" \in E <=> d.focus_in
        /\ "send_focus_out" \in E <=> d.focus_out
        /\ d.focus_out => "discard_composition" \in E /\ "commit" \in E
        /\ "destroy_grab" \in E
             <=> \/ d.grab = "NONE" /\ Observe(fe) # "ABSENT"
                 \/ d.grab = "YES" /\ Observe(fe) = "BROKEN"
        /\ "create_grab" \in E
             <=> \/ d.grab # "NONE" /\ Observe(fe) = "ABSENT"
                 \/ d.grab = "YES" /\ Observe(fe) = "BROKEN"
        /\ "scrub_generation" \in E <=> "destroy_grab" \in E \/ "create_grab" \in E
    <2>1. d \in Desired /\ Observe(fe) \in Resource /\ E = Diff(d, Observe(fe))
      BY <1>2, PipelineType DEF PipelineEffects
    <2> HIDE DEF d, E
    <2>2. QED
      BY <2>1, DiffEffects
  <1>4. /\ d.focus_in  <=> d.grab = "YES" /\ prev.grab # "YES"
        /\ d.focus_out <=> d.grab # "YES" /\ prev.grab = "YES"
        /\ d.grab = "YES" => prev.grab = "YES" \/ Activated(facts)
    <2>1. Activated([facts EXCEPT !.engine_present = engine]) <=> Activated(facts)
      BY <1>2 DEF TypeOK, Facts, Activated
    <2>2. QED
      BY <1>2, <2>1, PipelineType, ReduceEdges DEF TypeOK, PipelineDesired
  <1>5. ContextApplied(fe, fe', E) /\ GrabApplied(fe, fe', E, ok)
    BY <1>1, <1>2, PipelineType, PipelineExclusive, ApplyFacts DEF TypeOK
  <1>6. pc = "aux" /\ pc' = "post" /\ prev' = d /\ facts' = facts
    BY DEF RunPipeline
  <1> HIDE DEF d, E
  <1>7. fe.focused <=> prev.grab = "YES"
    BY <1>6 DEF Inductive, FocusMatchesWant
  <1>8. (prev.grab = "YES" \/ Activated(facts)) => fe.session
    BY <1>6 DEF Inductive, SessionBacksFocus
  <1>9. fe'.focused <=> d.grab = "YES"
    BY <1>3, <1>4, <1>5, <1>7, <1>8 DEF ContextApplied
  <1>10. fe'.comp # NoField => fe'.focused
    BY <1>3, <1>4, <1>5, <1>7, <1>8, <1>9 DEF Inductive, Sound, ContextApplied
  <1>11. fe'.serial = "zero" => fe'.shown = NoField
    BY <1>5 DEF Inductive, Sound, ContextApplied
  <1>12. /\ fe'.kb = "grabbed" /\ fe'.vk = "READY" => fe'.current
         /\ fe'.kb = "grabbed" /\ fe'.vk = "NEEDS_KEYMAP" => fe'.deadline # "none"
         /\ fe'.vkObj => fe'.vk # "ABSENT"
         /\ ~fe'.vkObj => fe'.vk \in {"ABSENT", "BROKEN"}
    <2>1. CASE "create_grab" \in E
      BY <1>2, <1>5, <2>1 DEF GrabApplied, ContextApplied, Inductive, Sound, TypeOK, Frontend
    <2>2. CASE "create_grab" \notin E /\ "destroy_grab" \in E
      BY <1>2, <1>5, <2>2 DEF GrabApplied, ContextApplied, Inductive, Sound, TypeOK, Frontend
    <2>3. CASE "create_grab" \notin E /\ "destroy_grab" \notin E
      BY <1>2, <1>3, <1>5, <2>3 DEF GrabApplied, ContextApplied, Inductive, Sound, TypeOK, Frontend
    <2>4. QED
      BY <2>1, <2>2, <2>3
  <1>13. d.grab = "NONE" /\ fe'.vk # "ABSENT" => fe'.kb = "absent"
    <2>1. CASE Observe(fe) = "ABSENT"
      BY <1>3, <1>5, <2>1 DEF GrabApplied, Observe
    <2>2. CASE Observe(fe) # "ABSENT"
      BY <1>3, <1>5, <2>2 DEF GrabApplied
    <2>3. QED
      BY <2>1, <2>2
  <1>14. Sound(fe)'
    BY <1>10, <1>11, <1>12 DEF Sound
  <1>15. QED
    BY <1>4, <1>5, <1>6, <1>8, <1>9, <1>13, <1>14
       DEF ContextApplied, Inductive, AttemptLeft, FocusMatchesWant, SessionBacksFocus, NoGrabUnwanted,
           NoGrabWhileDown

(* The rest of the loop. *)
LEMMA LoopStep ==
    ASSUME Inductive, TypeOK', AttemptLeft', Loop
    PROVE  Inductive'
  <1>1. TypeOK /\ fe \in Frontend
    BY DEF Inductive, TypeOK
  <1>2. CASE \/ LoopStops \/ PrepareAndFlush \/ BuildPollSet \/ PollReady \/ PollInterrupted
            \/ DispatchEnds
    BY <1>1, <1>2, UnchangedHandled, HandledStep
       DEF LoopStops, PrepareAndFlush, BuildPollSet, PollReady, PollInterrupted, DispatchEnds
  <1>3. CASE LoopTop
    <2>1. ~Activated(facts')
      BY <1>3 DEF LoopTop, NoFacts, Activated
    <2>2. QED
      BY <1>1, <1>3, <2>1, UnchangedHandled, HandledStep DEF LoopTop
  <1>4. CASE PollTimeout \/ HealthCheck
    BY <1>1, <1>4, HealthCheckHandled, HandledStep DEF PollTimeout, HealthCheck
  <1>5. CASE LogindResume
    <2>1. Activated(facts') <=> Activated(facts)
      BY <1>1, <1>5 DEF LogindResume, TypeOK, Facts, Activated
    <2>2. QED
      BY <1>1, <1>5, <2>1, UnchangedHandled, HandledStep DEF LogindResume
  <1>6. CASE RunPipeline
    BY <1>6, RunPipelineStep
  <1>7. CASE FlushPanel
    <2>1. CASE UNCHANGED <<fe, wsi>>
      BY <1>1, <1>7, <2>1, UnchangedHandled, HandledStep DEF FlushPanel
    <2>2. CASE ~UNCHANGED <<fe, wsi>>
      <3>1. /\ fe.focused
            /\ SameButShown(fe, fe') /\ SameGrab(fe, fe')
            /\ fe'.shown # fe.shown => SerialAccepted(fe)
        BY <1>1, <1>7, <2>2, UpdateTextUiFacts DEF FlushPanel
      <3>2. Sound(fe)'
        BY <3>1 DEF Inductive, Sound, SameButShown, SameGrab, SerialAccepted
      <3>3. prev' = prev /\ facts' = facts /\ pc = "flush" /\ pc' = "top"
        BY <1>7 DEF FlushPanel
      <3>4. QED
        BY <3>1, <3>2, <3>3
           DEF Inductive, FocusMatchesWant, SessionBacksFocus, NoGrabUnwanted, NoGrabWhileDown,
               SameButShown, SameGrab
    <2>3. QED
      BY <2>1, <2>2
  <1>8. CASE ConnectionLost
    <2>1. /\ fe'.session = fe.session /\ fe'.focused = fe.focused /\ fe'.comp = fe.comp
          /\ fe'.shown = NoField /\ fe'.kb = "absent" /\ fe'.vkObj = FALSE
          /\ fe'.vk = IF fe.vkObj THEN "ABSENT" ELSE fe.vk
      BY <1>1, <1>8, DisconnectedFacts DEF ConnectionLost
    <2>2. prev' = prev /\ facts' = facts /\ pc # "dead"
      BY <1>8 DEF ConnectionLost
    <2>3. Sound(fe)'
      BY <2>1 DEF Inductive, Sound
    <2>4. QED
      BY <2>1, <2>2, <2>3
         DEF Inductive, FocusMatchesWant, SessionBacksFocus, NoGrabUnwanted, NoGrabWhileDown
  <1>9. CASE RetryConnect \/ BindFails
    BY <1>1, <1>9, UnchangedHandled, HandledStep DEF RetryConnect, BindFails
  <1>10. CASE GiveUp \/ Reconnected
    <2>1. KeyHandled(fe, fe')
      <3>1. PICK b \in BOOLEAN : fe' = [fe EXCEPT !.running = b]
        BY <1>10 DEF GiveUp, Reconnected, ResumeLoop
      <3>2. fe \in Frontend
        BY DEF Inductive, TypeOK
      <3>3. QED
        BY <3>1, <3>2, RunningFacts
    <2>2. QED
      BY <1>10, <2>1, HandledStep DEF GiveUp, Reconnected
  <1>11. CASE BindObjects
    <2>1. PICK outcome \in VkOutcome : fe' = VkBound(fe, outcome)
      BY <1>11 DEF BindObjects
    <2>2. outcome \in {"NEEDS_KEYMAP", "BROKEN", "ABSENT"}
      BY DEF VkOutcome
    <2>3. /\ SameContext(fe, fe') /\ fe'.kb = fe.kb
          /\ fe'.vkObj = (outcome = "NEEDS_KEYMAP") /\ fe'.vk = outcome
      BY <1>1, <2>1, <2>2, VkBoundFacts
    <2>4. fe.kb = "absent" /\ prev' = prev /\ facts' = facts /\ pc = "binding" /\ pc' = "bound"
      BY <1>11 DEF BindObjects, Inductive, NoGrabWhileDown
    <2>5. Sound(fe)'
      BY <2>2, <2>3, <2>4 DEF Inductive, Sound, SameContext
    <2>6. QED
      BY <2>3, <2>4, <2>5
         DEF Inductive, FocusMatchesWant, SessionBacksFocus, NoGrabUnwanted, NoGrabWhileDown,
             SameContext
  <1>12. CASE Destroy
    <2>1. /\ fe'.focused = FALSE /\ fe'.comp = NoField /\ fe'.shown = NoField
          /\ fe'.kb = "absent" /\ fe'.vkObj = FALSE
          /\ fe'.vk = IF fe.vkObj THEN "ABSENT" ELSE fe.vk
      BY <1>1, <1>12, FrontendDestroyFacts DEF Destroy
    <2>2. Sound(fe)'
      BY <2>1 DEF Inductive, Sound
    <2>3. pc' = "dead"
      BY <1>12 DEF Destroy
    <2>4. QED
      BY <2>1, <2>2, <2>3
         DEF Inductive, FocusMatchesWant, SessionBacksFocus, NoGrabUnwanted, NoGrabWhileDown
  <1>13. QED
    BY <1>2, <1>3, <1>4, <1>5, <1>6, <1>7, <1>8, <1>9, <1>10, <1>11, <1>12 DEF Loop

(* The listeners. *)
LEMMA DispatchStep ==
    ASSUME Inductive, TypeOK', AttemptLeft', Dispatch
    PROVE  Inductive'
  <1>1. TypeOK /\ fe \in Frontend /\ facts \in Facts
    BY DEF Inductive, TypeOK
  <1>2. pc' = pc /\ prev' = prev /\ pc \in {"prepare", "dispatch", "bound"}
    BY DEF Dispatch, Dispatching, ImActivate, ImDeactivate, ImDone, ImUnavailable, DropDiscarded,
           OnKeymap, OnModifiers, OnKey
  <1>3. CASE ImActivate
    <2>1. CASE UNCHANGED <<fe, facts>>
      BY <1>1, <1>2, <2>1, UnchangedHandled, HandledStep
    <2>2. CASE ~UNCHANGED <<fe, facts>>
      <3> DEFINE g == CancelUiTracking(fe)
      <3>1. g \in Frontend /\ SameContext(fe, g) /\ SameGrab(fe, g)
        BY <1>1, CancelUiTrackingFacts
      <3>2. fe' = [g EXCEPT !.session = TRUE, !.target = Head(wire).field]
        BY <1>3, <2>2 DEF ImActivate
      <3> HIDE DEF g
      <3>3. /\ SameButShown([fe EXCEPT !.session = TRUE], fe') /\ SameGrab(fe, fe')
            /\ fe'.shown = fe.shown /\ fe'.session
        BY <1>1, <3>1, <3>2 DEF Frontend, SameContext, SameButShown, SameGrab
      <3>4. fe'.focused = fe.focused /\ fe'.comp = fe.comp /\ fe'.serial = fe.serial
        BY <1>1, <3>3 DEF SameButShown, Frontend
      <3>5. Sound(fe)'
        BY <3>3, <3>4 DEF Inductive, Sound, SameGrab
      <3>6. QED
        BY <1>2, <3>3, <3>4, <3>5
           DEF Inductive, FocusMatchesWant, SessionBacksFocus, NoGrabUnwanted, NoGrabWhileDown,
               SameGrab
    <2>3. QED
      BY <2>1, <2>2
  <1>4. CASE ImDeactivate
    <2>1. Activated(facts') <=> Activated(facts)
      BY <1>1, <1>4 DEF ImDeactivate, Facts, Activated
    <2>2. fe' = fe
      BY <1>4 DEF ImDeactivate
    <2>3. QED
      BY <1>1, <1>2, <2>1, <2>2, UnchangedHandled, HandledStep
  <1>5. CASE ImDone
    <2>1. Activated(facts') => Activated(facts)
      BY <1>1, <1>5 DEF ImDone, ClassifyDone, Facts, Activated
    <2>2. /\ SameGrab(fe, fe')
          /\ fe'.session = fe.session /\ fe'.focused = fe.focused /\ fe'.comp = fe.comp
          /\ fe'.serial # "zero"
      BY <1>1, <1>5, CountDoneFacts DEF ImDone
    <2>3. Sound(fe)'
      BY <2>2 DEF Inductive, Sound, SameGrab
    <2>4. QED
      BY <1>2, <2>1, <2>2, <2>3
         DEF Inductive, FocusMatchesWant, SessionBacksFocus, NoGrabUnwanted, NoGrabWhileDown,
             SameGrab
  <1>6. CASE ImUnavailable
    <2>1. KeyHandled(fe, fe') /\ facts' = facts
      BY <1>1, <1>6 DEF ImUnavailable, KeyHandled, Frontend
    <2>2. QED
      BY <1>2, <2>1, HandledStep
  <1>7. CASE DropDiscarded
    BY <1>1, <1>2, <1>7, UnchangedHandled, HandledStep DEF DropDiscarded
  <1>8. CASE OnKeymap
    <2>1. PICK dup \in BOOLEAN, compiled \in BOOLEAN :
            fe' = [VkForwardKeymap(fe, dup) EXCEPT !.xkb = @ \/ compiled]
      BY <1>8 DEF OnKeymap, MaySucceed
    <2> DEFINE g == VkForwardKeymap(fe, dup)
    <2>2. /\ g \in Frontend /\ SameContext(fe, g)
          /\ g.kb = fe.kb /\ g.vkObj = fe.vkObj
          /\ ~fe.vkObj => g = fe
          /\ fe.vkObj => (g.vk = "READY" /\ g.current) \/ g.vk = "BROKEN"
      BY <1>1, VkForwardKeymapFacts
    <2>3. fe' = [g EXCEPT !.xkb = g.xkb \/ compiled]
      BY <2>1
    <2> HIDE DEF g
    <2>4. SameContext(g, fe') /\ SameGrab(g, fe')
      BY <2>2, <2>3 DEF SameContext, SameGrab, Frontend
    <2>5. /\ SameContext(fe, fe')
          /\ fe'.kb = fe.kb /\ fe'.vkObj = fe.vkObj
          /\ ~fe.vkObj => SameGrab(fe, fe')
          /\ fe.vkObj => (fe'.vk = "READY" /\ fe'.current) \/ fe'.vk = "BROKEN"
      BY <2>2, <2>4 DEF SameContext, SameGrab
    <2>6. Sound(fe)'
      BY <2>5 DEF Inductive, Sound, SameContext, SameGrab
    <2>7. NoGrabUnwanted'
      BY <1>2, <2>5 DEF Inductive, NoGrabUnwanted, Sound, SameGrab
    <2>8. facts' = facts
      BY <1>8 DEF OnKeymap
    <2>9. QED
      BY <1>2, <2>5, <2>6, <2>7, <2>8
         DEF Inductive, FocusMatchesWant, SessionBacksFocus, NoGrabWhileDown, SameContext
  <1>9. CASE OnModifiers
    <2>1. fe' = VkIsReady(fe) /\ facts' = facts
      BY <1>9 DEF OnModifiers
    <2>2. /\ SameContext(fe, fe')
          /\ fe'.kb \in {fe.kb, "released"} /\ (fe.kb = "absent" => fe'.kb = "absent")
          /\ fe'.vkObj = fe.vkObj /\ fe'.current = fe.current
          /\ fe'.vk = IF fe.vkObj /\ fe.vk = "NEEDS_KEYMAP" /\ fe.current
                     THEN "READY" ELSE fe.vk
          /\ fe'.vk = fe.vk => fe'.deadline = fe.deadline
      BY <1>1, <2>1, VkIsReadyFacts
    <2>3. Sound(fe)'
      BY <2>2 DEF Inductive, Sound, SameContext
    <2>4. NoGrabUnwanted'
      BY <1>2, <2>2 DEF Inductive, NoGrabUnwanted
    <2>5. QED
      BY <1>2, <2>1, <2>2, <2>3, <2>4
         DEF Inductive, FocusMatchesWant, SessionBacksFocus, NoGrabWhileDown, SameContext
  <1>10. CASE OnKey
    <2>1. KeyHandled(fe, fe') /\ facts' = facts
      BY <1>1, <1>10, KeyResultsFacts, StoppedFacts DEF OnKey
    <2>2. QED
      BY <1>2, <2>1, HandledStep
  <1>11. QED
    BY <1>3, <1>4, <1>5, <1>6, <1>7, <1>8, <1>9, <1>10 DEF Dispatch

(* The environment. *)
LEMMA EnvironmentStep ==
    ASSUME Inductive, TypeOK', AttemptLeft',
           \/ Compositor \/ PollOther \/ EngineChanges \/ Sleep \/ CooldownEnds
           \/ DeadlinePasses \/ Signal \/ Ended \/ UNCHANGED vars
    PROVE  Inductive'
  <1>1. TypeOK /\ fe \in Frontend
    BY DEF Inductive, TypeOK
  <1>0. CASE Compositor
    <2>1. OnlyDisplay(fe, fe') /\ pc' = pc /\ facts' = facts /\ prev' = prev
      BY <1>0, <1>1, CompositorFrame
    <2>2. Sound(fe)'
      BY <2>1 DEF Inductive, Sound, OnlyDisplay, SameGrab
    <2>3. QED
      BY <2>1, <2>2
         DEF Inductive, FocusMatchesWant, SessionBacksFocus, NoGrabUnwanted, NoGrabWhileDown,
             OnlyDisplay, SameGrab
  <1>2. CASE EngineChanges \/ Sleep \/ CooldownEnds \/ Ended \/ UNCHANGED vars
    <2>1. fe' = fe /\ facts' = facts /\ prev' = prev /\ pc' = pc
      BY <1>2 DEF EngineChanges, Sleep, CooldownEnds, Ended, vars
    <2>2. QED
      BY <1>1, <2>1, UnchangedHandled, HandledStep, SMTT(60)
  <1>3. CASE PollOther
    BY <1>1, <1>3, UnchangedHandled, HandledStep DEF PollOther
  <1>4. CASE Signal
    <2>1. KeyHandled(fe, fe')
      BY <1>1, <1>4 DEF Signal, KeyHandled, Frontend
    <2>2. QED
      BY <1>4, <2>1, HandledStep DEF Signal
  <1>5. CASE DeadlinePasses
    <2>1. /\ SameContext(fe, fe')
          /\ fe'.kb = fe.kb /\ fe'.vkObj = fe.vkObj /\ fe'.vk = fe.vk /\ fe'.current = fe.current
          /\ fe'.deadline = "expired"
          /\ facts' = facts /\ prev' = prev /\ pc' = pc
      BY <1>1, <1>5 DEF DeadlinePasses, SameContext, Frontend
    <2>2. Sound(fe)'
      BY <2>1 DEF Inductive, Sound, SameContext
    <2>3. QED
      BY <2>1, <2>2
         DEF Inductive, FocusMatchesWant, SessionBacksFocus, NoGrabUnwanted, NoGrabWhileDown,
             SameContext
  <1>6. QED
    BY <1>0, <1>2, <1>3, <1>4, <1>5

(* Every step of the loop, a listener or the environment keeps the inductive
   invariant. *)
LEMMA InductiveStep == Inductive /\ [Next]_vars => Inductive'
  <1> SUFFICES ASSUME Inductive, [Next]_vars PROVE Inductive'
    OBVIOUS
  <1>1. TypeOK' /\ AttemptLeft'
    BY TypeStep DEF Inductive
  <1>2. QED
    BY <1>1, LoopStep, DispatchStep, EnvironmentStep DEF Next

(* The inductive invariant holds in every reachable state. *)
THEOREM Invariance == Spec => []Inductive
  BY InductiveInit, InductiveStep, PTL DEF Spec

-----------------------------------------------------------------------------
(* The safety properties, for every value of the constants. *)

(* The context is focused exactly when the controller last wanted the grab. *)
THEOREM FocusCorrect == Spec => []FocusMatchesWant
  <1>1. Inductive => FocusMatchesWant
    BY DEF Inductive
  <1>2. QED
    BY <1>1, Invariance, PTL

(* The engine holds a composition only for a focused context. *)
THEOREM CompositionCorrect == Spec => []ComposeOnlyFocused
  <1>1. Inductive => ComposeOnlyFocused
    BY DEF Inductive, Sound, ComposeOnlyFocused
  <1>2. QED
    BY <1>1, Invariance, PTL

(* A grab is ready only by a keymap of its own generation. *)
THEOREM ReadinessCorrect == Spec => []NoStaleReady
  <1>1. Inductive => NoStaleReady
    BY DEF Inductive, Sound, NoStaleReady
  <1>2. QED
    BY <1>1, Invariance, PTL

(* A grab waiting for its keymap is under a deadline. *)
THEOREM DeadlineCorrect == Spec => []KeymapWaitIsBounded
  <1>1. Inductive => KeymapWaitIsBounded
    BY DEF Inductive, Sound, KeymapWaitIsBounded
  <1>2. QED
    BY <1>1, Invariance, PTL

(* A tick that wants no grab leaves none. *)
THEOREM GrabCorrect == Spec => []NoGrabUnwanted
  <1>1. Inductive => NoGrabUnwanted
    BY DEF Inductive
  <1>2. QED
    BY <1>1, Invariance, PTL



-----------------------------------------------------------------------------
(* Action properties.  Only the tick moves the desired state. *)

(* A tick that ends in a soft pause finds a live grab neither absent nor   *)
(* unwanted, so diff() neither creates nor destroys one.                   *)
LEMMA SoftPauseTick ==
    ASSUME Inductive, RunPipeline,
           fe.kb = "grabbed", fe.vk \in {"NEEDS_KEYMAP", "READY"}, prev'.grab = "SOFT_PAUSE"
    PROVE  fe'.kb = "grabbed"
  <1> DEFINE d == PipelineDesired
             E == PipelineEffects
  <1>1. TypeOK /\ fe.vk # "ABSENT"
    BY DEF Inductive, Sound
  <1>2. PICK ok \in BOOLEAN : fe' = Apply(fe, E, ok)
    BY DEF RunPipeline, MaySucceed
  <1>3. GrabApplied(fe, fe', E, ok)
    BY <1>1, <1>2, PipelineType, PipelineExclusive, ApplyFacts DEF TypeOK
  <1>4. d \in Desired /\ Observe(fe) \in Resource /\ E = Diff(d, Observe(fe))
    BY <1>1, PipelineType DEF PipelineEffects
  <1>5. d.grab = "SOFT_PAUSE" /\ Observe(fe) # "ABSENT"
    BY <1>1 DEF RunPipeline, Observe
  <1> HIDE DEF d, E
  <1>6. "create_grab" \notin E /\ "destroy_grab" \notin E
    BY <1>4, <1>5, DiffEffects
  <1>7. QED
    BY <1>3, <1>6 DEF GrabApplied

(* Losing the field for a moment keeps the keyboard grab: no step that moves *)
(* the desired state to a soft pause takes a grab away that waits for its    *)
(* keymap or has it, whatever facts the tick coalesced                       *)
(* (focus_controller.c:103-118, focus_effects.c:186-279).                    *)
THEOREM SoftPauseCorrect == Spec => SoftPauseKeepsGrab
  <1>1. ASSUME Inductive, [Next]_vars
        PROVE  [fe.kb = "grabbed" /\ fe.vk \in {"NEEDS_KEYMAP", "READY"}
                  /\ prev' # prev /\ prev'.grab = "SOFT_PAUSE"
                  => fe'.kb = "grabbed"]_vars
    <2>1. CASE RunPipeline
      BY <1>1, <2>1, SoftPauseTick
    <2>2. CASE UNCHANGED vars
      BY <2>2
    <2>3. CASE Next /\ ~RunPipeline
      <3>1. prev' = prev
        BY <2>3 DEF Next, Loop, Dispatch, Compositor, Dispatching, Send,
             LoopTop, LoopStops, PrepareAndFlush, BuildPollSet, PollReady, PollTimeout,
             PollInterrupted, DispatchEnds, LogindResume, HealthCheck, FlushPanel,
             ConnectionLost, RetryConnect, GiveUp, BindFails, BindObjects, Reconnected, Destroy,
             ImActivate, ImDeactivate, ImDone, ImUnavailable, DropDiscarded, OnKeymap, OnModifiers,
             OnKey, EnterField, LeaveField, MoveField, SwitchField, TextUpdate, Unavailable,
             SendKeymap, SendKey, SendModifiers, CompositorDies, PollOther, EngineChanges, Sleep,
             CooldownEnds, DeadlinePasses, Signal, Ended, vars
      <3>2. QED
        BY <3>1, SMTT(60)
    <2>4. QED
      BY <1>1, <2>1, <2>2, <2>3
  <1>2. QED
    BY <1>1, Invariance, PTL DEF Spec, SoftPauseKeepsGrab

-----------------------------------------------------------------------------
(* The queue and the grab.  libwayland drops the events of a destroyed     *)
(* proxy, so no listener of an earlier grab runs; that a key can only act  *)
(* on a live grab rests on it, and it is a fact about every step that      *)
(* takes a grab away.                                                      *)

Quiet(w) == \A i \in DOMAIN w : w[i].type \notin GrabEvent

NoEventOfDeadGrab == fe.kb # "grabbed" => Quiet(wire)

(* A queue whose grab events were dropped holds none. *)
LEMMA DiscardedIsQuiet ==
    ASSUME NEW w
    PROVE  Quiet(Discarded(w))
  <1> SUFFICES ASSUME NEW i \in DOMAIN Discarded(w)
               PROVE  Discarded(w)[i].type \notin GrabEvent
    BY DEF Quiet
  <1>1. i \in DOMAIN w
    BY DEF Discarded
  <1>2. Discarded(w)[i] = IF w[i].type \in GrabEvent THEN Plain("discarded") ELSE w[i]
    BY <1>1 DEF Discarded
  <1>3. QED
    BY <1>2 DEF Plain, GrabEvent

(* What a step leaves of the queue when it leaves no grab. *)
LEMMA WireAfterIsQuiet ==
    ASSUME NEW w, NEW f, f.kb # "grabbed"
    PROVE  Quiet(WireAfter(f, w))
  BY DiscardedIsQuiet DEF WireAfter

(* What is queued behind a quiet queue decides whether it stays quiet. *)
LEMMA AppendIsQuiet ==
    ASSUME NEW w \in Seq(Message), NEW events \in Seq(Message), Quiet(w), Quiet(events)
    PROVE  Quiet(w \o events)
  <1>1. \A i \in 1..Len(w \o events) :
          (w \o events)[i] = IF i <= Len(w) THEN w[i] ELSE events[i - Len(w)]
    BY ConcatProperties
  <1>2. \A i \in 1..Len(w \o events) : i > Len(w) => i - Len(w) \in 1..Len(events)
    BY ConcatProperties
  <1>3. DOMAIN (w \o events) = 1..Len(w \o events) /\ DOMAIN w = 1..Len(w)
          /\ DOMAIN events = 1..Len(events)
    BY ConcatProperties
  <1>4. QED
    BY <1>1, <1>2, <1>3 DEF Quiet

(* The compositor queues grab events for a live grab only. *)
LEMMA CompositorQuiet ==
    ASSUME TypeOK, NoEventOfDeadGrab, Compositor
    PROVE  NoEventOfDeadGrab'
  <1>1. \A t \in {"deactivate", "done", "unavailable"} :
          Plain(t) \in Message /\ Plain(t).type \notin GrabEvent
    BY PlainType DEF Plain, GrabEvent
  <1>2. \A f \in Field : Activate(f) \in Message /\ Activate(f).type \notin GrabEvent
    BY DEF Activate, Message, MaybeField, GrabEvent
  <1>0. fe'.kb = fe.kb
    BY CompositorFrame DEF OnlyDisplay, SameGrab
  <1>3. ASSUME NEW events \in Seq(Message), Send(events), Quiet(events)
        PROVE  NoEventOfDeadGrab'
    BY <1>0, <1>3, AppendIsQuiet DEF Send, NoEventOfDeadGrab, TypeOK
  <1>4. CASE EnterField \/ SwitchField
    <2>1. PICK f \in Field : Send(<<Activate(f), Plain("done")>>)
      BY <1>4 DEF EnterField, SwitchField
    <2> DEFINE events == <<Activate(f), Plain("done")>>
    <2>2. events \in Seq(Message) /\ Quiet(events)
      BY <1>1, <1>2 DEF Quiet
    <2>3. QED
      BY <1>3, <2>1, <2>2
  <1>5. CASE MoveField
    <2>1. PICK f \in Field : Send(<<Plain("deactivate"), Activate(f), Plain("done")>>)
      BY <1>5 DEF MoveField
    <2> DEFINE events == <<Plain("deactivate"), Activate(f), Plain("done")>>
    <2>2. events \in Seq(Message) /\ Quiet(events)
      BY <1>1, <1>2 DEF Quiet
    <2>3. QED
      BY <1>3, <2>1, <2>2
  <1>6. CASE LeaveField
    <2> DEFINE events == <<Plain("deactivate"), Plain("done")>>
    <2>1. events \in Seq(Message) /\ Quiet(events)
      BY <1>1 DEF Quiet
    <2>2. Send(events)
      BY <1>6 DEF LeaveField
    <2>3. QED
      BY <1>3, <2>1, <2>2
  <1>7. CASE TextUpdate \/ Unavailable
    <2>1. PICK t \in {"done", "unavailable"} : Send(<<Plain(t)>>)
      BY <1>7 DEF TextUpdate, Unavailable
    <2> DEFINE events == <<Plain(t)>>
    <2>2. events \in Seq(Message) /\ Quiet(events)
      BY <1>1 DEF Quiet
    <2>3. QED
      BY <1>3, <2>1, <2>2
  <1>8. CASE SendKeymap \/ SendKey \/ SendModifiers
    BY <1>0, <1>8 DEF SendKeymap, SendKey, SendModifiers, NoEventOfDeadGrab
  <1>9. CASE CompositorDies
    BY <1>9 DEF CompositorDies, NoEventOfDeadGrab
  <1>10. QED
    BY <1>4, <1>5, <1>6, <1>7, <1>8, <1>9 DEF Compositor

(* Every step that takes a grab away drops what was queued for it. *)
LEMMA QuietStep ==
    ASSUME Inductive, Inductive', NoEventOfDeadGrab, [Next]_vars
    PROVE  NoEventOfDeadGrab'
  <1>1. TypeOK /\ fe \in Frontend
    BY DEF Inductive, TypeOK
  <1>2. CASE Compositor
    BY <1>1, <1>2, CompositorQuiet
  <1>3. CASE Dispatch
    <2>1. Delivered
      BY <1>3 DEF Dispatch, ImActivate, ImDeactivate, ImDone, ImUnavailable, DropDiscarded,
                  OnKeymap, OnModifiers, OnKey
    <2>2. QED
      BY <2>1, WireAfterIsQuiet DEF Delivered, NoEventOfDeadGrab
  <1>4. CASE PollTimeout \/ HealthCheck
    BY <1>4, WireAfterIsQuiet DEF PollTimeout, HealthCheck, NoEventOfDeadGrab
  <1>5. CASE RunPipeline
    BY <1>5, WireAfterIsQuiet, DiscardedIsQuiet DEF RunPipeline, NoEventOfDeadGrab
  <1>6. CASE ConnectionLost \/ Destroy
    BY <1>6 DEF ConnectionLost, Destroy, NoEventOfDeadGrab, Quiet
  <1>7. CASE FlushPanel
    <2>1. \/ fe' = fe
          \/ \E result \in {"IDLE", "RETRY"} : fe' = UpdateTextUi(fe, result)
      BY <1>7 DEF FlushPanel
    <2>2. fe'.kb = fe.kb
      BY <1>1, <2>1, UpdateTextUiFacts DEF SameButShown, SameGrab
    <2>3. wire' = wire
      BY <1>7 DEF FlushPanel
    <2>4. QED
      BY <2>2, <2>3 DEF NoEventOfDeadGrab
  <1>8. CASE BindObjects
    <2>1. fe'.kb = fe.kb /\ wire' = wire
      BY <1>1, <1>8, VkBoundFacts DEF BindObjects, VkOutcome
    <2>2. QED
      BY <2>1 DEF NoEventOfDeadGrab
  <1>9. CASE GiveUp \/ Reconnected \/ DeadlinePasses \/ Signal
    <2>1. fe'.kb = fe.kb /\ wire' = wire
      BY <1>1, <1>9 DEF GiveUp, Reconnected, ResumeLoop, DeadlinePasses, Signal, Frontend
    <2>2. QED
      BY <2>1 DEF NoEventOfDeadGrab
  <1>10. CASE \/ LoopTop \/ LoopStops \/ PrepareAndFlush \/ BuildPollSet
              \/ PollReady \/ PollInterrupted \/ PollOther
              \/ DispatchEnds \/ LogindResume \/ RetryConnect \/ BindFails
              \/ EngineChanges \/ Sleep \/ CooldownEnds \/ Ended \/ UNCHANGED vars
    <2>1. fe' = fe /\ wire' = wire
      BY <1>10 DEF LoopTop, LoopStops, PrepareAndFlush, BuildPollSet, PollReady, PollInterrupted,
           PollOther, DispatchEnds, LogindResume, RetryConnect, BindFails, EngineChanges, Sleep,
           CooldownEnds, Ended, vars
    <2>2. QED
      BY <2>1 DEF NoEventOfDeadGrab
  <1>11. QED
    BY <1>2, <1>3, <1>4, <1>5, <1>6, <1>7, <1>8, <1>9, <1>10 DEF Next, Loop

(* No queued event of a destroyed grab ever reaches a listener. *)
THEOREM QueueFollowsGrab == Spec => []NoEventOfDeadGrab
  <1>1. Init => NoEventOfDeadGrab
    BY DEF Init, NoEventOfDeadGrab, Quiet
  <1>2. Inductive /\ Inductive' /\ NoEventOfDeadGrab /\ [Next]_vars => NoEventOfDeadGrab'
    BY QuietStep
  <1>3. QED
    BY <1>1, <1>2, Invariance, PTL DEF Spec

-----------------------------------------------------------------------------
(* The preedit in force at the compositor.  A count that is behind has a   *)
(* done on its way to it; so the clear that goes with a loss of focus is   *)
(* refused only where DisplayFollowsFocus says.                            *)

BehindIsUnderWay == pc # "dead" /\ fe.serial = "behind" => Has("done", wire)

(* The events of a destroyed grab are dropped and no done with them. *)
LEMMA DoneSurvives ==
    ASSUME NEW w, NEW f, Has("done", w)
    PROVE  Has("done", Discarded(w)) /\ Has("done", WireAfter(f, w))
  <1>1. PICK i \in DOMAIN w : w[i].type = "done"
    BY DEF Has
  <1>2. DOMAIN Discarded(w) = DOMAIN w /\ Discarded(w)[i] = w[i]
    BY <1>1 DEF Discarded, GrabEvent
  <1>3. Has("done", Discarded(w))
    BY <1>1, <1>2 DEF Has
  <1>4. QED
    BY <1>3 DEF WireAfter

(* What is queued stays queued behind new events. *)
LEMMA HasAfterAppend ==
    ASSUME NEW w \in Seq(Message), NEW events \in Seq(Message), NEW t, Has(t, w)
    PROVE  Has(t, w \o events)
  <1>1. PICK i \in 1..Len(w) : w[i].type = t
    BY DEF Has
  <1>2. i \in DOMAIN (w \o events) /\ (w \o events)[i] = w[i]
    BY <1>1, ConcatProperties
  <1>3. QED
    BY <1>1, <1>2 DEF Has

(* Taking an event of another kind off the queue leaves the dones there. *)
LEMMA HasAfterTail ==
    ASSUME NEW w \in Seq(Message), w # <<>>, NEW t, Has(t, w), Head(w).type # t
    PROVE  Has(t, Tail(w))
  <1>1. PICK i \in 1..Len(w) : w[i].type = t
    BY DEF Has
  <1>2. i # 1 /\ Len(w) \in Nat
    BY <1>1, LenProperties
  <1>3. /\ Len(Tail(w)) = Len(w) - 1
        /\ \A j \in 1..Len(Tail(w)) : Tail(w)[j] = w[j + 1]
        /\ Tail(w) \in Seq(Message)
    BY HeadTailProperties
  <1>4. i - 1 \in 1..Len(Tail(w)) /\ (i - 1) + 1 = i
    BY <1>1, <1>2, <1>3
  <1>5. Tail(w)[i - 1] = w[i] /\ i - 1 \in DOMAIN Tail(w)
    BY <1>3, <1>4, LenProperties
  <1>6. QED
    BY <1>1, <1>5 DEF Has

(* What a step that is not the tick may do to the preedit in force.        *)
DisplayKept(f, g) ==
    \/ g.shown = NoField
    \/ g.focused
    \/ g.shown = f.shown /\ g.focused = f.focused

(* The rest of the loop leaves the count alone and shows a preedit only in *)
(* a focused field.                                                        *)
LEMMA LoopDisplay ==
    ASSUME Inductive, Loop, ~RunPipeline
    PROVE  /\ DisplayKept(fe, fe')
           /\ pc' # "dead" /\ fe'.serial = "behind" => fe.serial = "behind" /\ pc # "dead"
           /\ \/ wire' = wire \/ wire' = WireAfter(fe', wire)
              \/ fe'.serial # "behind" \/ pc' = "dead"
  <1>1. TypeOK /\ fe \in Frontend
    BY DEF Inductive, TypeOK
  <1>2. CASE \/ LoopTop \/ LoopStops \/ PrepareAndFlush \/ BuildPollSet \/ PollReady
             \/ PollInterrupted \/ DispatchEnds \/ LogindResume \/ RetryConnect \/ BindFails
    <2>1. fe' = fe /\ wire' = wire /\ pc # "dead"
      BY <1>2 DEF LoopTop, LoopStops, PrepareAndFlush, BuildPollSet, PollReady, PollInterrupted,
           DispatchEnds, LogindResume, RetryConnect, BindFails
    <2>2. QED
      BY <2>1 DEF DisplayKept
  <1>3. CASE PollTimeout \/ HealthCheck
    <2>1. fe' = VkHealthCheck(fe) /\ wire' = WireAfter(fe', wire) /\ pc # "dead"
      BY <1>3 DEF PollTimeout, HealthCheck
    <2>2. SameContext(fe, fe')
      BY <1>1, <2>1, VkHealthCheckFacts
    <2>3. QED
      BY <2>1, <2>2 DEF SameContext, DisplayKept
  <1>4. CASE FlushPanel
    <2>1. wire' = wire /\ pc # "dead"
      BY <1>4 DEF FlushPanel
    <2>2. CASE UNCHANGED <<fe, wsi>>
      BY <2>1, <2>2 DEF DisplayKept
    <2>3. CASE ~UNCHANGED <<fe, wsi>>
      <3>1. fe.focused /\ SameButShown(fe, fe')
        BY <1>1, <1>4, <2>3, UpdateTextUiFacts DEF FlushPanel
      <3>2. QED
        BY <2>1, <3>1 DEF SameButShown, DisplayKept
    <2>4. QED
      BY <2>2, <2>3
  <1>5. CASE ConnectionLost
    BY <1>1, <1>5, DisconnectedFacts DEF ConnectionLost, DisplayKept
  <1>6. CASE GiveUp \/ Reconnected
    <2>1. /\ fe'.focused = fe.focused /\ fe'.shown = fe.shown /\ fe'.serial = fe.serial
          /\ wire' = wire /\ pc # "dead"
      BY <1>1, <1>6 DEF GiveUp, Reconnected, ResumeLoop, Frontend
    <2>2. QED
      BY <2>1 DEF DisplayKept
  <1>7. CASE BindObjects
    <2>1. SameContext(fe, fe') /\ wire' = wire /\ pc # "dead"
      BY <1>1, <1>7, VkBoundFacts DEF BindObjects, VkOutcome
    <2>2. QED
      BY <2>1 DEF SameContext, DisplayKept
  <1>8. CASE Destroy
    BY <1>1, <1>8, FrontendDestroyFacts DEF Destroy, DisplayKept
  <1>9. QED
    BY <1>2, <1>3, <1>4, <1>5, <1>6, <1>7, <1>8 DEF Loop

(* So do the listeners, but for the done that is counted.                  *)
LEMMA DispatchDisplay ==
    ASSUME Inductive, Dispatch
    PROVE  /\ DisplayKept(fe, fe')
           /\ pc # "dead" /\ wire # <<>> /\ wire' = WireAfter(fe', Tail(wire))
           /\ fe'.serial = "behind" =>
                \/ Has("done", Tail(wire))
                \/ fe.serial = "behind" /\ Head(wire).type # "done"
  <1>1. TypeOK /\ fe \in Frontend
    BY DEF Inductive, TypeOK
  <1>2. /\ pc \in {"prepare", "dispatch", "bound"} /\ wire # <<>>
        /\ wire' = WireAfter(fe', Tail(wire))
    BY DEF Dispatch, Dispatching, Delivered, ImActivate, ImDeactivate, ImDone, ImUnavailable,
           DropDiscarded, OnKeymap, OnModifiers, OnKey
  <1>3. CASE ImDone
    BY <1>1, <1>2, <1>3, CountDoneFacts DEF ImDone, DisplayKept
  <1>4. ASSUME ~ImDone
        PROVE  /\ Head(wire).type # "done"
               /\ fe'.serial = fe.serial /\ fe'.focused = fe.focused
               /\ fe'.shown \in {fe.shown, NoField}
    <2>1. Head(wire).type # "done"
      BY <1>4 DEF Dispatch, Dispatching, ImActivate, ImDeactivate, ImUnavailable, DropDiscarded,
                  OnKeymap, OnModifiers, OnKey
    <2>2. CASE ImActivate
      <3> DEFINE g == CancelUiTracking(fe)
      <3>1. fe' = fe \/ fe' = [g EXCEPT !.session = TRUE, !.target = Head(wire).field]
        BY <2>2 DEF ImActivate
      <3>2. g \in Frontend /\ SameContext(fe, g)
        BY <1>1, CancelUiTrackingFacts
      <3> HIDE DEF g
      <3>3. QED
        BY <2>1, <3>1, <3>2 DEF Frontend, SameContext
    <2>3. CASE ImDeactivate \/ ImUnavailable \/ DropDiscarded
      BY <1>1, <2>1, <2>3 DEF ImDeactivate, ImUnavailable, DropDiscarded, Frontend
    <2>4. CASE OnKeymap
      <3>1. PICK dup \in BOOLEAN, compiled \in BOOLEAN :
              fe' = [VkForwardKeymap(fe, dup) EXCEPT !.xkb = @ \/ compiled]
        BY <2>4 DEF OnKeymap, MaySucceed
      <3> DEFINE g == VkForwardKeymap(fe, dup)
      <3>2. g \in Frontend /\ SameContext(fe, g)
        BY <1>1, VkForwardKeymapFacts
      <3>3. fe' = [g EXCEPT !.xkb = g.xkb \/ compiled]
        BY <3>1
      <3> HIDE DEF g
      <3>4. QED
        BY <2>1, <3>2, <3>3 DEF Frontend, SameContext
    <2>5. CASE OnModifiers
      BY <1>1, <2>1, <2>5, VkIsReadyFacts DEF OnModifiers, SameContext
    <2>6. CASE OnKey
      BY <1>1, <2>1, <2>6, KeyResultsFacts, StoppedFacts DEF OnKey, KeyHandled
    <2>7. QED
      BY <1>4, <2>2, <2>3, <2>4, <2>5, <2>6 DEF Dispatch
  <1>5. QED
    BY <1>2, <1>3, <1>4 DEF DisplayKept

(* Nor does anyone else show a preedit, or make a count old without a done.  *)
LEMMA EnvironmentDisplay ==
    ASSUME Inductive,
           \/ Compositor \/ PollOther \/ EngineChanges \/ Sleep \/ CooldownEnds
           \/ DeadlinePasses \/ Signal \/ Ended \/ UNCHANGED vars
    PROVE  /\ DisplayKept(fe, fe')
           /\ BehindIsUnderWay => BehindIsUnderWay'
  <1>1. TypeOK /\ fe \in Frontend
    BY DEF Inductive, TypeOK
  <1>2. CASE Compositor
    <2>1. OnlyDisplay(fe, fe') /\ pc' = pc
      BY <1>1, <1>2, CompositorFrame
    <2>2. CASE CompositorDies
      BY <2>1, <2>2 DEF CompositorDies, DisplayKept, BehindIsUnderWay
    <2>3. ASSUME NEW events \in Seq(Message), Send(events)
          PROVE  BehindIsUnderWay => BehindIsUnderWay'
      <3>1. /\ wire \in Seq(Message) /\ wire' = wire \o events
            /\ fe'.serial = "behind" =>
                 \/ Has("done", events) /\ Has("done", wire \o events)
                 \/ fe.serial = "behind"
        BY <1>1, <2>3, SentFacts DEF Send, TypeOK
      <3>2. QED
        BY <2>1, <2>3, <3>1, HasAfterAppend DEF BehindIsUnderWay
    <2>4. CompositorDies \/ \E events \in Seq(Message) : Send(events)
      <3>1. \A t \in {"deactivate", "done", "unavailable", "keymap", "modifiers", "key"} :
              Plain(t) \in Message
        BY PlainType
      <3>2. \A f \in Field : Activate(f) \in Message
        BY DEF Activate, Message, MaybeField
      <3>3. CASE EnterField \/ SwitchField
        <4>1. PICK f \in Field : Send(<<Activate(f), Plain("done")>>)
          BY <3>3 DEF EnterField, SwitchField
        <4>2. <<Activate(f), Plain("done")>> \in Seq(Message)
          BY <3>1, <3>2
        <4>3. QED
          BY <4>1, <4>2
      <3>4. CASE MoveField
        <4>1. PICK f \in Field : Send(<<Plain("deactivate"), Activate(f), Plain("done")>>)
          BY <3>4 DEF MoveField
        <4>2. <<Plain("deactivate"), Activate(f), Plain("done")>> \in Seq(Message)
          BY <3>1, <3>2
        <4>3. QED
          BY <4>1, <4>2
      <3>5. CASE LeaveField
        <4>1. <<Plain("deactivate"), Plain("done")>> \in Seq(Message)
          BY <3>1
        <4>2. QED
          BY <3>5, <4>1 DEF LeaveField
      <3>6. CASE TextUpdate \/ Unavailable \/ SendKeymap \/ SendKey \/ SendModifiers
        <4>1. PICK t \in {"done", "unavailable", "keymap", "key", "modifiers"} : Send(<<Plain(t)>>)
          BY <3>6 DEF TextUpdate, Unavailable, SendKeymap, SendKey, SendModifiers
        <4>2. <<Plain(t)>> \in Seq(Message)
          BY <3>1
        <4>3. QED
          BY <4>1, <4>2
      <3>7. QED
        BY <1>2, <3>3, <3>4, <3>5, <3>6 DEF Compositor
    <2>5. QED
      BY <2>1, <2>2, <2>3, <2>4 DEF OnlyDisplay, DisplayKept
  <1>3. CASE PollOther \/ EngineChanges \/ Sleep \/ CooldownEnds \/ Ended \/ UNCHANGED vars
    <2>1. fe' = fe /\ wire' = wire /\ (pc' # "dead" => pc # "dead")
      BY <1>3 DEF PollOther, EngineChanges, Sleep, CooldownEnds, Ended, vars
    <2>2. QED
      BY <2>1 DEF DisplayKept, BehindIsUnderWay
  <1>4. CASE DeadlinePasses \/ Signal
    <2>1. /\ fe'.focused = fe.focused /\ fe'.shown = fe.shown /\ fe'.serial = fe.serial
          /\ wire' = wire /\ pc' = pc
      BY <1>1, <1>4 DEF DeadlinePasses, Signal, Frontend
    <2>2. QED
      BY <2>1 DEF DisplayKept, BehindIsUnderWay
  <1>5. QED
    BY <1>2, <1>3, <1>4

(* The tick counts nothing, and with the focus it takes the preedit away   *)
(* unless the compositor refuses.                                          *)
LEMMA TickDisplay ==
    ASSUME Inductive, Inductive', RunPipeline
    PROVE  /\ fe'.serial = fe.serial /\ pc # "dead" /\ pc' # "dead"
           /\ wire' = Discarded(wire) \/ wire' = WireAfter(fe', wire)
           /\ fe'.shown # NoField => fe.shown # NoField
           /\ fe.focused /\ ~fe'.focused /\ fe'.shown # NoField => ~SerialAccepted(fe)
  <1> DEFINE d == PipelineDesired
             E == PipelineEffects
  <1>1. PICK ok \in BOOLEAN : fe' = Apply(fe, E, ok)
    BY DEF RunPipeline, MaySucceed
  <1>2. TypeOK
    BY DEF Inductive
  <1>3. d \in Desired /\ Observe(fe) \in Resource /\ E = Diff(d, Observe(fe))
    BY <1>2, PipelineType DEF PipelineEffects
  <1>4. d.focus_out <=> d.grab # "YES" /\ prev.grab = "YES"
    BY <1>2, PipelineType, ReduceEdges DEF TypeOK, PipelineDesired
  <1>5. ContextApplied(fe, fe', E)
    BY <1>1, <1>2, PipelineType, PipelineExclusive, ApplyFacts DEF TypeOK
  <1>6. /\ pc = "aux" /\ pc' = "post" /\ prev' = d
        /\ wire' = Discarded(wire) \/ wire' = WireAfter(fe', wire)
    BY DEF RunPipeline
  <1> HIDE DEF d, E
  <1>7. d.focus_out => "commit" \in E
    BY <1>3, DiffEffects
  <1>8. /\ fe.focused <=> prev.grab = "YES"
        /\ fe'.focused <=> d.grab = "YES"
        /\ prev.grab = "YES" => fe.session
    BY <1>6 DEF Inductive, FocusMatchesWant, SessionBacksFocus
  <1>9. QED
    BY <1>4, <1>5, <1>6, <1>7, <1>8 DEF ContextApplied

(* A count is behind only while a done is on its way. *)
LEMMA BehindStep ==
    ASSUME Inductive, Inductive', BehindIsUnderWay, [Next]_vars
    PROVE  BehindIsUnderWay'
  <1>1. CASE Loop /\ ~RunPipeline
    BY <1>1, LoopDisplay, DoneSurvives DEF BehindIsUnderWay
  <1>2. CASE RunPipeline
    BY <1>2, TickDisplay, DoneSurvives DEF BehindIsUnderWay
  <1>3. CASE Dispatch
    <2>1. fe'.serial = "behind" => Has("done", Tail(wire))
      BY <1>3, DispatchDisplay, HasAfterTail DEF BehindIsUnderWay, Inductive, TypeOK
    <2>2. QED
      BY <1>3, <2>1, DispatchDisplay, DoneSurvives DEF BehindIsUnderWay
  <1>4. QED
    BY <1>1, <1>2, <1>3, EnvironmentDisplay DEF Next

(* A preedit outlives the focus it belongs to only where the compositor    *)
(* refuses the clear that goes with every loss of focus: a done was under   *)
(* way, or the count began with an earlier connection (input_method.c:295, *)
(* focus_effects.c:229).  Nothing else leaves one behind, and nobody shows  *)
(* one outside a focused field.                                             *)
THEOREM DisplayCorrect == Spec => DisplayFollowsFocus
  <1>1. Init => BehindIsUnderWay
    <2> SUFFICES ASSUME Init PROVE BehindIsUnderWay
      OBVIOUS
    <2>1. PICK outcome \in VkOutcome : fe = Fresh(outcome)
      BY DEF Init
    <2>2. fe.serial = "zero"
      BY <2>1, FreshFacts
    <2>3. QED
      BY <2>2 DEF BehindIsUnderWay
  <1>2. ASSUME Inductive, Inductive', BehindIsUnderWay, [Next]_vars
        PROVE  [ShownOnlyFocused /\ ~ShownOnlyFocused'
                  => Has("done", wire) \/ fe.serial \in {"off", "chance"}]_vars
    <2> SUFFICES ASSUME ShownOnlyFocused, fe'.shown # NoField, ~fe'.focused
                 PROVE  Has("done", wire) \/ fe.serial \in {"off", "chance"}
      BY DEF ShownOnlyFocused
    <2>1. CASE RunPipeline
      <3>1. fe.shown # NoField /\ fe.focused /\ ~SerialAccepted(fe) /\ pc # "dead"
        BY <1>2, <2>1, TickDisplay DEF ShownOnlyFocused
      <3>2. fe.serial \in {"behind", "off"}
        BY <1>2, <3>1 DEF Inductive, Sound, TypeOK, Frontend, SerialAccepted
      <3>3. QED
        BY <1>2, <3>1, <3>2 DEF BehindIsUnderWay
    <2>2. CASE ~RunPipeline
      <3>1. DisplayKept(fe, fe')
        BY <1>2, <2>2, LoopDisplay, DispatchDisplay, EnvironmentDisplay DEF Next
      <3>2. QED
        BY <3>1 DEF DisplayKept, ShownOnlyFocused
    <2>3. QED
      BY <2>1, <2>2
  <1>3. Inductive /\ Inductive' /\ BehindIsUnderWay /\ [Next]_vars => BehindIsUnderWay'
    BY BehindStep
  <1>4. QED
    BY <1>1, <1>2, <1>3, Invariance, PTL DEF Spec, DisplayFollowsFocus

-----------------------------------------------------------------------------
(* The refinement: what the daemon does to a field is what InputFocus      *)
(* promises.  The abstract state is read off the frontend alone, so the    *)
(* steps are compared as pairs of frontends.                               *)

GrabOf(f) ==
    CASE f.kb # "grabbed" -> "none"
      [] f.kb = "grabbed" /\ f.vk = "NEEDS_KEYMAP" -> "waiting"
      [] f.kb = "grabbed" /\ f.vk = "READY" -> "usable"
      [] f.kb = "grabbed" /\ f.vk \in {"BROKEN", "ABSENT"} -> "broken"

SameField(f, g) == g.focused = f.focused /\ (g.comp # NoField <=> f.comp # NoField)

RebuiltFrom(f, g) ==
    GrabOf(g) \in {"none", "broken", GrabOf(f)}
                    \cup (IF GrabOf(f) = "usable" THEN {} ELSE {"waiting"})

(* The steps of InputFocus, or none, seen on two frontends. *)
Promised(f, g) ==
    \/ ~f.focused /\ g.focused /\ g.comp = NoField /\ RebuiltFrom(f, g)
    \/ f.focused /\ ~g.focused /\ g.comp = NoField /\ RebuiltFrom(f, g)
    \/ SameField(f, g) /\ RebuiltFrom(f, g)
    \/ SameField(f, g) /\ GrabOf(f) \in {"waiting", "broken"} /\ GrabOf(g) = "usable"
    \/ f.focused /\ g.focused /\ GrabOf(f) = "usable" /\ GrabOf(g) = "usable" /\ g.comp # NoField
    \/ g.focused = f.focused /\ GrabOf(g) = GrabOf(f) /\ f.comp # NoField /\ g.comp = NoField

(* How a grab looks to the field, state by state. *)
LEMMA GrabOfFacts ==
    ASSUME NEW f \in Frontend
    PROVE  /\ GrabOf(f) = "none" <=> f.kb # "grabbed"
           /\ GrabOf(f) = "waiting" <=> f.kb = "grabbed" /\ f.vk = "NEEDS_KEYMAP"
           /\ GrabOf(f) = "usable" <=> f.kb = "grabbed" /\ f.vk = "READY"
           /\ GrabOf(f) = "broken" <=> f.kb = "grabbed" /\ f.vk \in {"BROKEN", "ABSENT"}
           /\ GrabOf(f) \in {"none", "waiting", "usable", "broken"}
  BY DEF GrabOf, Frontend, Resource

(* A step that moves the frontend as promised is a step of InputFocus. *)
LEMMA PromisedIsStep ==
    ASSUME TypeOK, TypeOK', Promised(fe, fe')
    PROVE  Promise!Next
  <1>1. GrabSeen = GrabOf(fe) /\ GrabSeen' = GrabOf(fe')
    BY DEF GrabSeen, GrabOf
  <1>2. fe.focused \in BOOLEAN /\ fe'.focused \in BOOLEAN
    BY DEF TypeOK, Frontend
  <1>3. RebuiltFrom(fe, fe') => Promise!Rebuilt
    BY <1>1 DEF RebuiltFrom, Promise!Rebuilt
  <1>4. CASE ~fe.focused /\ fe'.focused /\ fe'.comp = NoField /\ RebuiltFrom(fe, fe')
    BY <1>3, <1>4 DEF Promise!Next, Promise!Focus
  <1>5. CASE fe.focused /\ ~fe'.focused /\ fe'.comp = NoField /\ RebuiltFrom(fe, fe')
    BY <1>3, <1>5 DEF Promise!Next, Promise!Blur
  <1>6. CASE SameField(fe, fe') /\ RebuiltFrom(fe, fe')
    BY <1>2, <1>3, <1>6 DEF Promise!Next, Promise!Regrab, SameField
  <1>7. CASE SameField(fe, fe') /\ GrabOf(fe) \in {"waiting", "broken"} /\ GrabOf(fe') = "usable"
    BY <1>1, <1>2, <1>7 DEF Promise!Next, Promise!Confirm, SameField
  <1>8. CASE /\ fe.focused /\ fe'.focused
             /\ GrabOf(fe) = "usable" /\ GrabOf(fe') = "usable" /\ fe'.comp # NoField
    BY <1>1, <1>2, <1>8 DEF Promise!Next, Promise!Compose
  <1>9. CASE /\ fe'.focused = fe.focused /\ GrabOf(fe') = GrabOf(fe)
             /\ fe.comp # NoField /\ fe'.comp = NoField
    BY <1>1, <1>2, <1>9 DEF Promise!Next, Promise!EndComposition
  <1>10. QED
    BY <1>4, <1>5, <1>6, <1>7, <1>8, <1>9 DEF Promised

(* A key, a failed health check or a stop: the composition grows behind a  *)
(* usable grab or ends, or the grab is released.                           *)
LEMMA HandledIsPromised ==
    ASSUME NEW f \in Frontend, NEW g, KeyHandled(f, g), f.kb = "grabbed" \/ g.comp = f.comp
    PROVE  Promised(f, g)
  <1>1. g \in Frontend /\ g.focused = f.focused /\ g.vk = f.vk /\ g.kb \in {f.kb, "released"}
    BY DEF KeyHandled
  <1>2. CASE g.comp = f.comp
    <2>1. GrabOf(g) \in {GrabOf(f), "none"}
      BY <1>1 DEF GrabOf
    <2>2. QED
      BY <1>1, <1>2, <2>1 DEF Promised, SameField, RebuiltFrom
  <1>3. CASE g.comp # f.comp /\ g.comp = NoField
    BY <1>1, <1>3 DEF Promised, GrabOf, KeyHandled
  <1>4. CASE g.comp # f.comp /\ g.comp # NoField
    <2>1. f.focused /\ f.kb = "grabbed" /\ f.vk = "READY" /\ g.kb = f.kb
      BY <1>4 DEF KeyHandled
    <2>2. GrabOf(f) = "usable" /\ GrabOf(g) = "usable"
      BY <1>1, <2>1, GrabOfFacts
    <2>3. QED
      BY <1>1, <1>4, <2>1, <2>2 DEF Promised
  <1>5. QED
    BY <1>2, <1>3, <1>4

(* A frontend whose field and grab look the same has made no step. *)
LEMMA UnmovedIsPromised ==
    ASSUME NEW f, NEW g, g.focused = f.focused, g.comp = f.comp, g.kb = f.kb, g.vk = f.vk
    PROVE  Promised(f, g)
  BY DEF Promised, SameField, RebuiltFrom, GrabOf

(* The tick focuses, defocuses or keeps the field, and never swaps a usable *)
(* grab for one that waits: a grab is created only where none was, or where *)
(* the old one was broken.                                                  *)
LEMMA TickIsPromised ==
    ASSUME Inductive, Inductive', RunPipeline
    PROVE  Promised(fe, fe')
  <1> DEFINE d == PipelineDesired
             E == PipelineEffects
  <1>1. PICK ok \in BOOLEAN : fe' = Apply(fe, E, ok)
    BY DEF RunPipeline, MaySucceed
  <1>2. TypeOK /\ Sound(fe) /\ Sound(fe')
    BY DEF Inductive
  <1>3. d \in Desired /\ Observe(fe) \in Resource /\ E = Diff(d, Observe(fe))
    BY <1>2, PipelineType DEF PipelineEffects
  <1>4. ContextApplied(fe, fe', E) /\ GrabApplied(fe, fe', E, ok)
    BY <1>1, <1>2, PipelineType, PipelineExclusive, ApplyFacts DEF TypeOK
  <1>5. pc = "aux" /\ pc' = "post" /\ prev' = d
    BY DEF RunPipeline
  <1> HIDE DEF d, E
  <1>6. /\ "create_grab" \in E => Observe(fe) \in {"ABSENT", "BROKEN"}
        /\ "discard_composition" \in E => d.grab # "YES" \/ d.focus_out
    BY <1>3, DiffEffects
  <1>7. d.focus_out => d.grab # "YES"
    <2>1. [facts EXCEPT !.engine_present = engine] \in Facts /\ prev \in Desired
      BY <1>2, PipelineType DEF TypeOK
    <2>2. QED
      BY <2>1, ReduceEdges DEF d, PipelineDesired
  <1>8. fe \in Frontend /\ fe' \in Frontend
    BY DEF Inductive, TypeOK
  <1>9. RebuiltFrom(fe, fe')
    <2>1. CASE "create_grab" \in E
      <3>1. GrabOf(fe) # "usable"
        BY <1>6, <1>8, <2>1, GrabOfFacts DEF Observe
      <3>2. GrabOf(fe') # "usable"
        BY <1>2, <1>4, <1>8, <2>1, GrabOfFacts DEF GrabApplied, Sound
      <3>3. QED
        BY <1>8, <3>1, <3>2, GrabOfFacts DEF RebuiltFrom
    <2>2. CASE "create_grab" \notin E /\ "destroy_grab" \in E
      BY <1>4, <1>8, <2>2, GrabOfFacts DEF GrabApplied, RebuiltFrom
    <2>3. CASE "create_grab" \notin E /\ "destroy_grab" \notin E
      BY <1>4, <2>3 DEF GrabApplied, RebuiltFrom, GrabOf
    <2>4. QED
      BY <2>1, <2>2, <2>3
  <1>10. /\ fe.comp # NoField => fe.focused
         /\ fe'.comp # NoField => fe'.focused
    BY <1>2 DEF Sound
  <1>11. fe'.comp \in {fe.comp, NoField}
    BY <1>4 DEF ContextApplied
  <1>12. CASE fe'.focused # fe.focused
    <2>1. fe'.comp = NoField
      BY <1>8, <1>10, <1>11, <1>12 DEF Frontend
    <2>2. QED
      BY <1>8, <1>9, <1>12, <2>1 DEF Promised, Frontend
  <1>13. CASE fe'.focused = fe.focused
    <2>1. fe'.focused <=> d.grab = "YES"
      BY <1>5 DEF Inductive, FocusMatchesWant
    <2>2. fe.focused => "discard_composition" \notin E
      BY <1>6, <1>7, <1>13, <2>1
    <2>3. SameField(fe, fe')
      BY <1>4, <1>10, <1>11, <1>13, <2>2 DEF SameField, ContextApplied
    <2>4. QED
      BY <1>9, <2>3 DEF Promised
  <1>14. QED
    BY <1>12, <1>13

(* The rest of the loop. *)
LEMMA LoopIsPromised ==
    ASSUME Inductive, Inductive', Loop
    PROVE  Promised(fe, fe')
  <1>1. TypeOK /\ fe \in Frontend /\ Sound(fe)
    BY DEF Inductive, TypeOK
  <1>2. CASE \/ LoopTop \/ LoopStops \/ PrepareAndFlush \/ BuildPollSet \/ PollReady
             \/ PollInterrupted \/ DispatchEnds \/ LogindResume \/ RetryConnect \/ BindFails
    <2>1. fe' = fe
      BY <1>2 DEF LoopTop, LoopStops, PrepareAndFlush, BuildPollSet, PollReady, PollInterrupted,
           DispatchEnds, LogindResume, RetryConnect, BindFails
    <2>2. QED
      BY <2>1, UnmovedIsPromised
  <1>3. CASE PollTimeout \/ HealthCheck
    <2>1. fe' = VkHealthCheck(fe)
      BY <1>3 DEF PollTimeout, HealthCheck
    <2>2. KeyHandled(fe, fe') /\ fe'.comp = fe.comp
      BY <1>1, <2>1, HealthCheckHandled, VkHealthCheckFacts DEF SameContext
    <2>3. QED
      BY <1>1, <2>2, HandledIsPromised
  <1>4. CASE RunPipeline
    BY <1>4, TickIsPromised
  <1>5. CASE FlushPanel
    <2>1. \/ fe' = fe
          \/ \E result \in {"IDLE", "RETRY"} : fe' = UpdateTextUi(fe, result)
      BY <1>5 DEF FlushPanel
    <2>2. fe'.focused = fe.focused /\ fe'.comp = fe.comp /\ fe'.kb = fe.kb /\ fe'.vk = fe.vk
      BY <1>1, <2>1, UpdateTextUiFacts DEF SameGrab, SameButShown
    <2>3. QED
      BY <2>2, UnmovedIsPromised
  <1>6. CASE ConnectionLost
    <2>1. SameField(fe, fe') /\ GrabOf(fe') = "none"
      BY <1>1, <1>6, DisconnectedFacts DEF ConnectionLost, SameField, GrabOf
    <2>2. QED
      BY <2>1 DEF Promised, RebuiltFrom
  <1>7. CASE GiveUp \/ Reconnected
    <2>1. fe'.focused = fe.focused /\ fe'.comp = fe.comp /\ fe'.kb = fe.kb /\ fe'.vk = fe.vk
      BY <1>1, <1>7 DEF GiveUp, Reconnected, ResumeLoop, Frontend
    <2>2. QED
      BY <2>1, UnmovedIsPromised
  <1>8. CASE BindObjects
    <2>1. SameContext(fe, fe') /\ fe'.kb = fe.kb
      BY <1>1, <1>8, VkBoundFacts DEF BindObjects, VkOutcome
    <2>2. fe.kb = "absent"
      BY <1>8 DEF BindObjects, Inductive, NoGrabWhileDown
    <2>3. GrabOf(fe) = "none" /\ GrabOf(fe') = "none"
      BY <2>1, <2>2 DEF GrabOf
    <2>4. QED
      BY <2>1, <2>3 DEF Promised, SameField, RebuiltFrom, SameContext
  <1>9. CASE Destroy
    <2>1. fe'.focused = FALSE /\ fe'.comp = NoField /\ GrabOf(fe') = "none"
      BY <1>1, <1>9, FrontendDestroyFacts, ZenonT(60) DEF Destroy, GrabOf
    <2>2. QED
      BY <1>1, <2>1 DEF Promised, SameField, RebuiltFrom, Sound, Frontend
  <1>10. QED
    BY <1>2, <1>3, <1>4, <1>5, <1>6, <1>7, <1>8, <1>9 DEF Loop

(* The listeners: a queued key finds the grab it was sent for. *)
LEMMA DispatchIsPromised ==
    ASSUME Inductive, Inductive', NoEventOfDeadGrab, Dispatch
    PROVE  Promised(fe, fe')
  <1>1. TypeOK /\ fe \in Frontend /\ fe' \in Frontend
    BY DEF Inductive, TypeOK
  <1>2. CASE ImActivate
    <2>1. fe' = fe \/ fe' = [CancelUiTracking(fe) EXCEPT !.session = TRUE,
                                                         !.target = Head(wire).field]
      BY <1>2 DEF ImActivate
    <2> DEFINE g == CancelUiTracking(fe)
    <2>2. g \in Frontend /\ SameContext(fe, g) /\ SameGrab(fe, g)
      BY <1>1, CancelUiTrackingFacts
    <2>3. fe' = fe \/ fe' = [g EXCEPT !.session = TRUE, !.target = Head(wire).field]
      BY <2>1
    <2> HIDE DEF g
    <2>4. fe'.focused = fe.focused /\ fe'.comp = fe.comp /\ fe'.kb = fe.kb /\ fe'.vk = fe.vk
      BY <2>2, <2>3, ZenonT(60) DEF Frontend, SameContext, SameGrab
    <2>5. QED
      BY <2>4, UnmovedIsPromised
  <1>3. CASE ImDeactivate \/ ImDone \/ ImUnavailable \/ DropDiscarded
    <2>1. fe'.focused = fe.focused /\ fe'.comp = fe.comp /\ fe'.kb = fe.kb /\ fe'.vk = fe.vk
      BY <1>1, <1>3, CountDoneFacts
         DEF ImDeactivate, ImDone, ImUnavailable, DropDiscarded, SameGrab, Frontend
    <2>2. QED
      BY <2>1, UnmovedIsPromised
  <1>4. CASE OnKeymap
    <2>1. PICK dup \in BOOLEAN, compiled \in BOOLEAN :
            fe' = [VkForwardKeymap(fe, dup) EXCEPT !.xkb = @ \/ compiled]
      BY <1>4 DEF OnKeymap, MaySucceed
    <2> DEFINE g == VkForwardKeymap(fe, dup)
    <2>2. /\ g \in Frontend /\ SameContext(fe, g) /\ g.kb = fe.kb
          /\ ~fe.vkObj => g = fe
          /\ fe.vkObj => g.vk \in {"READY", "BROKEN"}
      BY <1>1, VkForwardKeymapFacts
    <2>3. fe' = [g EXCEPT !.xkb = g.xkb \/ compiled]
      BY <2>1
    <2> HIDE DEF g
    <2>4. /\ fe'.focused = fe.focused /\ fe'.comp = fe.comp /\ fe'.kb = fe.kb
          /\ fe'.vk = fe.vk \/ fe'.vk \in {"READY", "BROKEN"}
      BY <1>1, <2>2, <2>3 DEF Frontend, SameContext
    <2>5. SameField(fe, fe')
      BY <2>4 DEF SameField
    <2>6. \/ GrabOf(fe') \in {GrabOf(fe), "broken"}
          \/ GrabOf(fe') = "usable" /\ GrabOf(fe) # "none"
      BY <1>1, <2>4, GrabOfFacts
    <2>7. QED
      BY <1>1, <2>5, <2>6, GrabOfFacts DEF Promised, RebuiltFrom
  <1>5. CASE OnModifiers
    <2>1. fe' = VkIsReady(fe)
      BY <1>5 DEF OnModifiers
    <2>2. /\ SameContext(fe, fe')
          /\ fe'.kb \in {fe.kb, "released"}
          /\ \/ fe'.vk = fe.vk
             \/ fe.vk = "NEEDS_KEYMAP" /\ fe'.vk = "READY"
      BY <1>1, <2>1, VkIsReadyFacts
    <2>3. SameField(fe, fe')
      BY <2>2 DEF SameField, SameContext
    <2>4. \/ GrabOf(fe') \in {GrabOf(fe), "none"}
          \/ GrabOf(fe') = "usable" /\ GrabOf(fe) = "waiting"
      BY <1>1, <2>2, GrabOfFacts
    <2>5. QED
      BY <2>3, <2>4 DEF Promised, RebuiltFrom
  <1>6. CASE OnKey
    <2>1. KeyHandled(fe, fe')
      BY <1>1, <1>6, KeyResultsFacts, StoppedFacts DEF OnKey
    <2>2. wire # <<>> /\ Head(wire).type = "key"
      BY <1>6 DEF OnKey, Dispatching
    <2>3. fe.kb = "grabbed"
      BY <1>1, <2>2 DEF NoEventOfDeadGrab, Quiet, GrabEvent, TypeOK
    <2>4. QED
      BY <1>1, <2>1, <2>3, HandledIsPromised
  <1>7. QED
    BY <1>2, <1>3, <1>4, <1>5, <1>6 DEF Dispatch

(* Every step of the loop, a listener or the environment is a step of      *)
(* InputFocus, or changes nothing there.                                   *)
LEMMA StepIsPromised ==
    ASSUME Inductive, Inductive', NoEventOfDeadGrab, [Next]_vars
    PROVE  Promised(fe, fe')
  <1>1. fe \in Frontend
    BY DEF Inductive, TypeOK
  <1>2. CASE Loop
    BY <1>2, LoopIsPromised
  <1>3. CASE Dispatch
    BY <1>3, DispatchIsPromised
  <1>0. CASE Compositor
    <2>1. fe'.focused = fe.focused /\ fe'.comp = fe.comp /\ fe'.kb = fe.kb /\ fe'.vk = fe.vk
      BY <1>0, CompositorFrame DEF Inductive, OnlyDisplay, SameGrab
    <2>2. QED
      BY <2>1, UnmovedIsPromised
  <1>4. CASE PollOther \/ EngineChanges \/ Sleep \/ CooldownEnds \/ Ended \/ UNCHANGED vars
    <2>1. fe' = fe
      BY <1>4 DEF EngineChanges, PollOther, Sleep, CooldownEnds, Ended, vars
    <2>2. QED
      BY <2>1, UnmovedIsPromised, SMTT(60)
  <1>5. CASE DeadlinePasses \/ Signal
    <2>1. fe'.focused = fe.focused /\ fe'.comp = fe.comp /\ fe'.kb = fe.kb /\ fe'.vk = fe.vk
      BY <1>1, <1>5 DEF DeadlinePasses, Signal, Frontend
    <2>2. QED
      BY <2>1, UnmovedIsPromised
  <1>6. QED
    BY <1>0, <1>2, <1>3, <1>4, <1>5 DEF Next

(* The daemon starts with no focus, no composition and no grab. *)
LEMMA InitIsPromised == Init => Promise!Init
  <1> SUFFICES ASSUME Init PROVE Promise!Init
    OBVIOUS
  <1>1. PICK outcome \in VkOutcome : fe = Fresh(outcome)
    BY DEF Init
  <1>2. fe.focused = FALSE /\ fe.comp = NoField /\ fe.kb = "absent"
    BY <1>1, FreshFacts
  <1>3. QED
    BY <1>2 DEF Promise!Init, GrabSeen

(* The event loop implements InputFocus: for any fields, engine, compositor *)
(* and faults, a composition lives inside one uninterrupted focus and is    *)
(* begun and extended only through a grab whose own keymap was confirmed.   *)
THEOREM Refinement == Spec => KeepsPromise
  <1>1. Inductive /\ Inductive' /\ NoEventOfDeadGrab /\ [Next]_vars => [Promise!Next]_Promise!vars
    BY StepIsPromised, PromisedIsStep DEF Inductive
  <1>2. QED
    BY <1>1, InitIsPromised, Invariance, QueueFollowsGrab, PTL DEF Spec, KeepsPromise, Promise!Spec

-----------------------------------------------------------------------------
(* Liveness: a grab whose keymap never comes is let go.  Once the deadline *)
(* has passed the loop goes round at most once more: poll returns, the     *)
(* iteration runs to its health check, and the grab is released, or the    *)
(* frontend that holds it is destroyed.                                    *)

Waiting == fe.kb = "grabbed" /\ fe.vk = "NEEDS_KEYMAP"
Overdue == Waiting /\ fe.deadline = "expired"

(* A destroyed frontend holds no grab, and poll is only interrupted by a   *)
(* signal that has stopped the loop.                                       *)
EndsAreFinal ==
    /\ pc = "dead" => fe.kb = "absent"
    /\ eintr => pc = "poll" /\ ~fe.running

(* The order in which the loop passes its places, while a grab waits.      *)
Turn ==
    \/ pc' = pc /\ (pc = "top" /\ ~fe.running => ~fe'.running)
    \/ pc = "flush" /\ pc' = "top"
    \/ pc = "top" /\ fe.running /\ pc' = "prepare"
    \/ pc = "top" /\ ~fe.running /\ pc' = "exit"
    \/ pc = "prepare" /\ pc' = "build"
    \/ pc = "build" /\ pc' = "poll"
    \/ pc = "poll" /\ pc' = "dispatch"
    \/ pc = "poll" /\ pc' = "top" /\ ~fe'.running
    \/ pc = "dispatch" /\ pc' = "aux"
    \/ pc = "aux" /\ pc' = "post"
    \/ pc = "post" /\ pc' = "exit"

(* An overdue health check lets the grab go while the loop runs.           *)
LEMMA OverdueCheck ==
    ASSUME NEW f \in Frontend, f.vk = "NEEDS_KEYMAP", f.deadline = "expired", f.running
    PROVE  VkHealthCheck(f).kb # "grabbed"
  <1>1. CASE f.kb = "grabbed"
    <2>1. VkHealthCheck(f) = VkTriggerFailSafe(f)
      BY <1>1 DEF VkHealthCheck
    <2>2. QED
      BY <2>1, VkTriggerFailSafeFacts
  <1>2. CASE f.kb # "grabbed"
    BY <1>2, VkHealthCheckFacts DEF Frontend
  <1>3. QED
    BY <1>1, <1>2

(* The environment moves no program counter and no deadline but forward.   *)
LEMMA EnvironmentTurns ==
    ASSUME TypeOK,
           \/ Compositor \/ PollOther \/ EngineChanges \/ Sleep \/ CooldownEnds
           \/ DeadlinePasses \/ Signal \/ Ended \/ UNCHANGED vars
    PROVE  /\ fe'.kb = fe.kb /\ fe'.vk = fe.vk /\ fe'.running \in BOOLEAN
           /\ fe.deadline = "expired" => fe'.deadline = "expired"
           /\ fe'.running => fe.running
           /\ pc' = pc \/ (pc = "poll" /\ pc' = "dispatch" /\ ~eintr)
           /\ eintr' => eintr \/ (pc = "poll" /\ pc' = "poll" /\ ~fe'.running)
  <1>1. fe \in Frontend /\ fe.running \in BOOLEAN /\ eintr \in BOOLEAN
    BY DEF TypeOK, Frontend
  <1>0. CASE Compositor
    <2>1. OnlyDisplay(fe, fe') /\ pc' = pc /\ eintr' = eintr
      BY <1>0, CompositorFrame
    <2>2. QED
      BY <1>1, <2>1 DEF OnlyDisplay, SameGrab
  <1>2. CASE EngineChanges \/ Sleep \/ CooldownEnds \/ Ended \/ UNCHANGED vars
    <2>1. fe' = fe /\ pc' = pc /\ eintr' = eintr
      BY <1>2 DEF EngineChanges, Sleep, CooldownEnds, Ended, vars
    <2>2. QED
      BY <1>1, <2>1
  <1>3. CASE PollOther
    BY <1>1, <1>3 DEF PollOther
  <1>4. CASE DeadlinePasses
    <2>1. /\ fe'.kb = fe.kb /\ fe'.vk = fe.vk /\ fe'.running = fe.running
          /\ fe'.deadline = "expired"
      BY <1>1, <1>4 DEF DeadlinePasses, Frontend
    <2>2. pc' = pc /\ eintr' = eintr
      BY <1>4 DEF DeadlinePasses
    <2>3. QED
      BY <1>1, <2>1, <2>2
  <1>5. CASE Signal
    <2>1. /\ fe'.kb = fe.kb /\ fe'.vk = fe.vk /\ fe'.running = FALSE
          /\ fe'.deadline = fe.deadline
      BY <1>1, <1>5 DEF Signal, Frontend
    <2>2. pc' = pc /\ eintr' = (pc = "poll")
      BY <1>5 DEF Signal
    <2>3. QED
      BY <2>1, <2>2
  <1>6. QED
    BY <1>0, <1>2, <1>3, <1>4, <1>5

(* No listener of the input method or the grab runs the loop on or moves   *)
(* the deadline of a wait it does not end.                                 *)
LEMMA DispatchTurns ==
    ASSUME Inductive, Inductive', Dispatch
    PROVE  /\ pc' = pc /\ pc \in {"prepare", "dispatch", "bound"} /\ eintr' = eintr
           /\ Waiting /\ Waiting' => fe'.deadline = fe.deadline
  <1>1. TypeOK /\ fe \in Frontend
    BY DEF Inductive, TypeOK
  <1>2. pc' = pc /\ eintr' = eintr /\ pc \in {"prepare", "dispatch", "bound"}
    BY DEF Dispatch, Dispatching, ImActivate, ImDeactivate, ImDone, ImUnavailable, DropDiscarded,
           OnKeymap, OnModifiers, OnKey
  <1> SUFFICES ASSUME Waiting, Waiting'
               PROVE  fe'.deadline = fe.deadline
    BY <1>2
  <1>3. CASE ImActivate
    <2> DEFINE g == CancelUiTracking(fe)
    <2>1. fe' = fe \/ fe' = [g EXCEPT !.session = TRUE, !.target = Head(wire).field]
      BY <1>3 DEF ImActivate
    <2>2. g \in Frontend /\ SameGrab(fe, g)
      BY <1>1, CancelUiTrackingFacts
    <2> HIDE DEF g
    <2>3. QED
      BY <2>1, <2>2 DEF Frontend, SameGrab
  <1>4. CASE ImDeactivate \/ ImDone \/ ImUnavailable \/ DropDiscarded
    BY <1>1, <1>4, CountDoneFacts
       DEF ImDeactivate, ImDone, ImUnavailable, DropDiscarded, SameGrab, Frontend
  <1>5. CASE OnKeymap
    <2>1. PICK dup \in BOOLEAN, compiled \in BOOLEAN :
            fe' = [VkForwardKeymap(fe, dup) EXCEPT !.xkb = @ \/ compiled]
      BY <1>5 DEF OnKeymap, MaySucceed
    <2> DEFINE g == VkForwardKeymap(fe, dup)
    <2>2. /\ g \in Frontend
          /\ ~fe.vkObj => g = fe
          /\ fe.vkObj => g.vk \in {"READY", "BROKEN"}
      BY <1>1, VkForwardKeymapFacts
    <2>3. fe' = [g EXCEPT !.xkb = g.xkb \/ compiled]
      BY <2>1
    <2> HIDE DEF g
    <2>4. fe'.vk = g.vk /\ fe'.deadline = g.deadline
      BY <2>2, <2>3 DEF Frontend
    <2>5. QED
      BY <2>2, <2>4 DEF Waiting
  <1>6. CASE OnModifiers
    <2>1. fe' = VkIsReady(fe)
      BY <1>6 DEF OnModifiers
    <2>2. VkIsReady(fe).vk = fe.vk => VkIsReady(fe).deadline = fe.deadline
      BY <1>1, VkIsReadyFacts
    <2>3. QED
      BY <2>1, <2>2 DEF Waiting
  <1>7. CASE OnKey
    <2>1. KeyHandled(fe, fe')
      BY <1>1, <1>7, KeyResultsFacts, StoppedFacts DEF OnKey
    <2>2. QED
      BY <2>1 DEF KeyHandled
  <1>8. QED
    BY <1>3, <1>4, <1>5, <1>6, <1>7 DEF Dispatch

(* A destroyed frontend stays without a grab, and the loop does not resume *)
(* behind an interruption.                                                 *)
LEMMA EndsStep ==
    ASSUME Inductive, Inductive', EndsAreFinal, [Next]_vars
    PROVE  EndsAreFinal'
  <1>1. TypeOK /\ fe \in Frontend
    BY DEF Inductive, TypeOK
  <1>2. CASE Loop
    <2>1. CASE PollInterrupted \/ PollReady \/ PollTimeout
      BY <2>1 DEF PollInterrupted, PollReady, PollTimeout, EndsAreFinal
    <2>2. CASE Destroy
      BY <1>1, <2>2, FrontendDestroyFacts DEF Destroy, EndsAreFinal
    <2>3. CASE ~(PollInterrupted \/ PollReady \/ PollTimeout \/ Destroy)
      <3>1. pc # "poll" /\ pc' # "dead" /\ eintr' = eintr
        BY <1>2, <2>3 DEF Loop, LoopTop, LoopStops, PrepareAndFlush, BuildPollSet, DispatchEnds,
                          LogindResume, RunPipeline, HealthCheck, FlushPanel, ConnectionLost,
                          RetryConnect, GiveUp, BindFails, BindObjects, Reconnected
      <3>2. QED
        BY <3>1 DEF EndsAreFinal
    <2>4. QED
      BY <2>1, <2>2, <2>3
  <1>3. CASE Dispatch
    BY <1>3, DispatchTurns DEF EndsAreFinal
  <1>4. CASE \/ Compositor \/ PollOther \/ EngineChanges \/ Sleep \/ CooldownEnds
             \/ DeadlinePasses \/ Signal \/ Ended \/ UNCHANGED vars
    BY <1>1, <1>4, EnvironmentTurns DEF EndsAreFinal
  <1>5. QED
    BY <1>2, <1>3, <1>4 DEF Next

(* It starts neither destroyed nor interrupted. *)
LEMMA EndsInvariant == Spec => []EndsAreFinal
  <1>1. Init => EndsAreFinal
    BY DEF Init, EndsAreFinal
  <1>2. QED
    BY <1>1, EndsStep, Invariance, PTL DEF Spec

(* An overdue grab that a step does not take away stays overdue, and the   *)
(* loop has not turned back.                                               *)
LEMMA OverdueStep ==
    ASSUME Inductive, Inductive', EndsAreFinal, [Next]_vars, Overdue, Waiting'
    PROVE  Overdue' /\ Turn
  <1>1. TypeOK /\ fe \in Frontend
    BY DEF Inductive, TypeOK
  <1>2. pc \notin {"backoff", "binding", "bound", "dead"}
    BY DEF Overdue, Waiting, Inductive, NoGrabWhileDown, EndsAreFinal
  <1>3. CASE Dispatch
    <2>1. pc' = pc /\ pc # "top" /\ fe'.deadline = fe.deadline
      BY <1>3, DispatchTurns DEF Overdue
    <2>2. QED
      BY <2>1 DEF Overdue, Turn
  <1>4. CASE \/ Compositor \/ PollOther \/ EngineChanges \/ Sleep \/ CooldownEnds
             \/ DeadlinePasses \/ Signal \/ Ended \/ UNCHANGED vars
    BY <1>1, <1>4, EnvironmentTurns DEF Overdue, Turn
  <1>5. CASE \/ LoopTop \/ LoopStops \/ PrepareAndFlush \/ BuildPollSet \/ PollReady
             \/ DispatchEnds \/ LogindResume
    <2>1. fe' = fe
      BY <1>5 DEF LoopTop, LoopStops, PrepareAndFlush, BuildPollSet, PollReady, DispatchEnds,
                  LogindResume
    <2>2. Turn
      BY <1>5, <2>1 DEF LoopTop, LoopStops, PrepareAndFlush, BuildPollSet, PollReady,
                        DispatchEnds, LogindResume, Turn
    <2>3. QED
      BY <2>1, <2>2 DEF Overdue
  <1>6. CASE PollInterrupted
    BY <1>6 DEF PollInterrupted, EndsAreFinal, Overdue, Turn
  <1>7. CASE PollTimeout \/ HealthCheck
    <2>1. fe' = VkHealthCheck(fe)
      BY <1>7 DEF PollTimeout, HealthCheck
    <2>2. ~fe.running
      BY <1>1, <2>1, OverdueCheck DEF Overdue, Waiting
    <2>3. fe' = fe
      BY <2>1, <2>2 DEF VkHealthCheck
    <2>4. Turn
      BY <1>7, <2>2, <2>3 DEF PollTimeout, HealthCheck, Turn
    <2>5. QED
      BY <2>3, <2>4 DEF Overdue
  <1>8. CASE RunPipeline
    <2> DEFINE E == PipelineEffects
    <2>1. PICK ok \in BOOLEAN : fe' = Apply(fe, E, ok)
      BY <1>8 DEF RunPipeline, MaySucceed
    <2>2. GrabApplied(fe, fe', E, ok)
      BY <1>1, <2>1, PipelineType, PipelineExclusive, ApplyFacts DEF TypeOK
    <2>3. "create_grab" \notin E
      <3>1. Observe(fe) = "NEEDS_KEYMAP"
        BY DEF Overdue, Waiting, Observe
      <3>2. PipelineDesired \in Desired /\ Observe(fe) \in Resource
        BY <1>1, PipelineType
      <3>3. QED
        BY <3>1, <3>2, DiffEffects DEF PipelineEffects
    <2> HIDE DEF E
    <2>4. fe'.deadline = fe.deadline
      BY <2>2, <2>3 DEF GrabApplied, Waiting
    <2>5. QED
      BY <1>8, <2>4 DEF RunPipeline, Overdue, Turn
  <1>9. CASE FlushPanel
    <2>1. CASE UNCHANGED <<fe, wsi>>
      BY <1>9, <2>1 DEF FlushPanel, Overdue, Turn
    <2>2. CASE ~UNCHANGED <<fe, wsi>>
      <3>1. SameGrab(fe, fe')
        BY <1>1, <1>9, <2>2, UpdateTextUiFacts DEF FlushPanel
      <3>2. QED
        BY <1>9, <3>1 DEF SameGrab, FlushPanel, Overdue, Turn
    <2>3. QED
      BY <2>1, <2>2
  <1>10. CASE ConnectionLost \/ Destroy
    BY <1>1, <1>10, DisconnectedFacts, FrontendDestroyFacts DEF ConnectionLost, Destroy, Waiting
  <1>11. CASE RetryConnect \/ GiveUp \/ BindFails \/ BindObjects \/ Reconnected
    BY <1>2, <1>11 DEF RetryConnect, GiveUp, BindFails, BindObjects, Reconnected
  <1>12. QED
    BY <1>3, <1>4, <1>5, <1>6, <1>7, <1>8, <1>9, <1>10, <1>11 DEF Next, Loop

(* An overdue grab at one of the loop's places, and the end of the wait.   *)
At(place) == Overdue /\ pc = place
Stopping == At("top") /\ ~fe.running
Over == fe.kb # "grabbed" \/ fe.vk # "NEEDS_KEYMAP"

(* From place to place, as long as the grab waits. *)
LEMMA NextPlace ==
    ASSUME Inductive, Inductive', EndsAreFinal, [Next]_vars
    PROVE  /\ At("exit") => (At("exit") \/ Over)'
           /\ Stopping => (Stopping \/ At("exit") \/ Over)'
           /\ At("post") => (At("post") \/ At("exit") \/ Over)'
           /\ At("aux") => (At("aux") \/ At("post") \/ Over)'
           /\ At("dispatch") => (At("dispatch") \/ At("aux") \/ Over)'
           /\ At("poll") => (At("poll") \/ At("dispatch") \/ Stopping \/ Over)'
           /\ At("build") => (At("build") \/ At("poll") \/ Over)'
           /\ At("prepare") => (At("prepare") \/ At("build") \/ Over)'
           /\ At("top") => (At("top") \/ At("prepare") \/ At("exit") \/ Over)'
           /\ At("flush") => (At("flush") \/ At("top") \/ Over)'
  <1>1. Over' <=> ~Waiting'
    BY DEF Over, Waiting
  <1>2. QED
    BY <1>1, OverdueStep DEF At, Stopping, Turn

(* Nothing waits where the connection is down or the frontend is gone, and *)
(* a wait that is overdue makes poll return.                               *)
LEMMA WhereItWaits ==
    ASSUME Inductive, EndsAreFinal
    PROVE  /\ Overdue => \/ At("top") \/ At("prepare") \/ At("build") \/ At("poll")
                         \/ At("dispatch") \/ At("aux") \/ At("post") \/ At("flush") \/ At("exit")
           /\ At("poll") => pc = "poll" /\ Woken
           /\ Waiting /\ fe.deadline # "armed" => Overdue
  <1>1. Waiting => pc \notin {"backoff", "binding", "bound", "dead"}
    BY DEF Waiting, Inductive, NoGrabWhileDown, EndsAreFinal
  <1>2. pc \in Location
    BY DEF Inductive, TypeOK
  <1>3. Overdue => \/ At("top") \/ At("prepare") \/ At("build") \/ At("poll")
                   \/ At("dispatch") \/ At("aux") \/ At("post") \/ At("flush") \/ At("exit")
    BY <1>1, <1>2 DEF Overdue, At, Location
  <1>4. At("poll") => pc = "poll" /\ Woken
    BY DEF At, Overdue, Waiting, Woken, TimeoutDue
  <1>5. Waiting /\ fe.deadline # "armed" => Overdue
    BY DEF Waiting, Overdue, Inductive, Sound, TypeOK, Frontend
  <1>6. QED
    BY <1>3, <1>4, <1>5

(* A grab whose keymap never comes is let go: for any compositor, any      *)
(* signals, engine and failed calls, if only time passes and the loop does *)
(* not rest, its wait ends.                                                *)
THEOREM KeymapWaitsEnd == FairSpec => KeymapWaitEnds
  <1>1. Inductive /\ Inductive' /\ EndsAreFinal /\ [Next]_vars =>
           /\ At("exit") => (At("exit") \/ Over)'
           /\ Stopping => (Stopping \/ At("exit") \/ Over)'
           /\ At("post") => (At("post") \/ At("exit") \/ Over)'
           /\ At("aux") => (At("aux") \/ At("post") \/ Over)'
           /\ At("dispatch") => (At("dispatch") \/ At("aux") \/ Over)'
           /\ At("poll") => (At("poll") \/ At("dispatch") \/ Stopping \/ Over)'
           /\ At("build") => (At("build") \/ At("poll") \/ Over)'
           /\ At("prepare") => (At("prepare") \/ At("build") \/ Over)'
           /\ At("top") => (At("top") \/ At("prepare") \/ At("exit") \/ Over)'
           /\ At("flush") => (At("flush") \/ At("top") \/ Over)'
    BY NextPlace
  <1>2. /\ At("exit") => ~(pc # "exit")
        /\ Stopping => ~(pc # "top")
        /\ At("post") => ~(pc # "post")
        /\ At("aux") => ~(pc # "aux")
        /\ At("dispatch") => ~(pc # "dispatch")
        /\ At("build") => ~(pc # "build")
        /\ At("prepare") => ~(pc # "prepare")
        /\ At("top") => ~(pc # "top")
        /\ At("flush") => ~(pc # "flush")
    BY DEF At, Stopping
  <1>3. FairSpec => (At("exit") ~> Over)
    BY <1>1, <1>2, Invariance, EndsInvariant, PTL DEF FairSpec, Fairness, Leaves, Spec
  <1>4. FairSpec => (Stopping ~> Over)
    BY <1>1, <1>2, <1>3, Invariance, EndsInvariant, PTL DEF FairSpec, Fairness, Leaves, Spec
  <1>5. FairSpec => (At("post") ~> Over)
    BY <1>1, <1>2, <1>3, Invariance, EndsInvariant, PTL DEF FairSpec, Fairness, Leaves, Spec
  <1>6. FairSpec => (At("aux") ~> Over)
    BY <1>1, <1>2, <1>5, Invariance, EndsInvariant, PTL DEF FairSpec, Fairness, Leaves, Spec
  <1>7. FairSpec => (At("dispatch") ~> Over)
    BY <1>1, <1>2, <1>6, Invariance, EndsInvariant, PTL DEF FairSpec, Fairness, Leaves, Spec
  <1>8. FairSpec => (At("poll") ~> Over)
    BY <1>1, <1>4, <1>7, WhereItWaits, Invariance, EndsInvariant, PTL
       DEF FairSpec, Fairness, Spec
  <1>9. FairSpec => (At("build") ~> Over)
    BY <1>1, <1>2, <1>8, Invariance, EndsInvariant, PTL DEF FairSpec, Fairness, Leaves, Spec
  <1>10. FairSpec => (At("prepare") ~> Over)
    BY <1>1, <1>2, <1>9, Invariance, EndsInvariant, PTL DEF FairSpec, Fairness, Leaves, Spec
  <1>11. FairSpec => (At("top") ~> Over)
    BY <1>1, <1>2, <1>3, <1>10, Invariance, EndsInvariant, PTL
       DEF FairSpec, Fairness, Leaves, Spec
  <1>12. FairSpec => (At("flush") ~> Over)
    BY <1>1, <1>2, <1>11, Invariance, EndsInvariant, PTL DEF FairSpec, Fairness, Leaves, Spec
  <1>13. FairSpec => (Overdue ~> Over)
    BY <1>3, <1>5, <1>6, <1>7, <1>8, <1>9, <1>10, <1>11, <1>12, WhereItWaits,
       Invariance, EndsInvariant, PTL DEF FairSpec
  <1>14. Waiting \/ Over
    BY DEF Waiting, Over
  <1>15. FairSpec => (Waiting ~> Over)
    BY <1>13, <1>14, WhereItWaits, Invariance, EndsInvariant, PTL DEF FairSpec, Fairness
  <1>16. KeymapWaitEnds <=> (Waiting ~> Over)
    BY DEF KeymapWaitEnds, Waiting, Over
  <1>17. QED
    BY <1>15, <1>16, PTL
=============================================================================

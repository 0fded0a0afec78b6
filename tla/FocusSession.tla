---------------------------- MODULE FocusSession ----------------------------
(***************************************************************************)
(* The Wayland event loop (src/src/wayland/event_loop.c) on one thread:    *)
(* the input-method and keyboard-grab listeners record facts, the focus    *)
(* controller converges the frontend once per tick, the panel flush sends  *)
(* the preedit, and a lost connection is rebuilt.  The compositor, the     *)
(* user, the clock, logind and signals act between any two steps.          *)
(***************************************************************************)
EXTENDS Frontend, Sequences

CONSTANTS
    WireCap,          \* bound: events the compositor has sent, not yet dispatched
    MaxAttempts,      \* the limit of typio_wl_reconnect_should_retry
    Faults,           \* which calls may fail
    Traffic           \* which optional environment events occur

ASSUME WireCapAssumption == WireCap \in Nat
ASSUME AttemptsAssumption == MaxAttempts \in Nat
ASSUME EnvironmentAssumption ==
    /\ Faults \subseteq {"session", "grab", "dup", "xkb", "no_vk", "null_vk", "retry"}
    /\ Traffic \subseteq {"move", "switch", "update", "modifiers", "resume", "restart", "stop",
                          "unavailable", "engine", "split", "wsi", "emergency", "delete"}

VARIABLES
    pc,        \* where the loop is
    fe,        \* TypioWlFrontend
    facts,     \* frontend->focus_facts
    prev,      \* frontend->focus_prev_desired
    wire,      \* events sent by the compositor and not yet dispatched
    editing,   \* compositor: the field that has text-input focus
    owed,      \* compositor: a grab whose keymap it has not yet sent
    sock,      \* the display socket: up, hup (the peer is gone) or down
    attempt,   \* reconnect attempts made
    wsi,       \* a panel present left default-queue events undispatched
    power,     \* suspend detection
    engine,    \* an active keyboard engine is registered
    stop,      \* SIGINT or SIGTERM was delivered
    eintr      \* ... while the loop was inside poll()

vars == <<pc, fe, facts, prev, wire, editing, owed, sock, attempt, wsi, power, engine, stop, eintr>>

Location == {"top", "prepare", "build", "poll", "dispatch", "aux", "post", "flush",
             "backoff", "binding", "bound", "exit", "dead"}

GrabEvent == {"keymap", "modifiers", "key"}
Message == [type  : {"activate", "deactivate", "done", "unavailable", "discarded"} \cup GrabEvent,
            field : MaybeField]
Plain(type) == [type |-> type, field |-> NoField]

NoFacts == [im_activate_seen |-> FALSE, im_deactivate_seen |-> FALSE,
            im_done_had_activate |-> FALSE, im_done_had_deactivate |-> FALSE,
            connection_alive |-> TRUE, suspend_gap_detected |-> FALSE, engine_present |-> FALSE]

VkOutcome == {"NEEDS_KEYMAP"} \cup (IF "null_vk" \in Faults THEN {"BROKEN"} ELSE {})
                              \cup (IF "no_vk" \in Faults THEN {"ABSENT"} ELSE {})
MaySucceed(call) == IF call \in Faults THEN BOOLEAN ELSE {TRUE}

(* libwayland drops what is still queued for a destroyed proxy: once the   *)
(* grab is gone or replaced its events run no listener.                    *)
Discarded(w) ==
    [i \in DOMAIN w |-> IF w[i].type \in GrabEvent THEN Plain("discarded") ELSE w[i]]
WireAfter(f, w) == IF f.kb = "grabbed" THEN w ELSE Discarded(w)

Has(type, w) == \E i \in DOMAIN w : w[i].type = type

(* How im_serial compares with the dones sent when w is still under way. *)
Compared(serial, w) ==
    CASE serial = "zero"               -> {"zero"}
      [] serial \in {"exact", "behind"} -> {IF Has("done", w) THEN "behind" ELSE "exact"}
      [] serial \in {"off", "chance"}   -> {"off"} \cup (IF Has("done", w) THEN {"chance"} ELSE {})

Fresh(outcome) ==
    VkBound([running |-> TRUE, session |-> FALSE, focused |-> FALSE, comp |-> NoField,
             target |-> NoField, ui |-> "IDLE", last |-> NoField, shown |-> NoField,
             serial |-> "zero", kb |-> "absent", xkb |-> FALSE,
             vkObj |-> FALSE, vk |-> "ABSENT", current |-> FALSE, deadline |-> "none",
             armed |-> FALSE, streak |-> 0], outcome)

Init ==
    /\ pc = "top" /\ \E outcome \in VkOutcome : fe = Fresh(outcome)
    /\ facts = NoFacts /\ prev = NothingDesired
    /\ wire = <<>> /\ editing = NoField /\ owed = FALSE /\ sock = "up"
    /\ attempt = 0 /\ wsi = FALSE /\ engine = TRUE
    /\ power = [gap |-> FALSE, logind |-> FALSE, cooldown |-> FALSE]
    /\ stop = FALSE /\ eintr = FALSE

-----------------------------------------------------------------------------
(* The head of one iteration: facts cleared, resume tick, prepare, flush. *)

(* typio_wl_resume_signal_tick and resume_signal_match both end in         *)
(* resume_signal_fire, which a recent firing of either suppresses.         *)
Fires(detected) == detected /\ ~power.cooldown

LoopTop ==
    /\ pc = "top" /\ fe.running
    /\ facts' = [NoFacts EXCEPT !.suspend_gap_detected = Fires(power.gap)]
    /\ power' = [power EXCEPT !.gap = FALSE, !.cooldown = @ \/ power.gap]
    /\ pc' = "prepare"
    /\ UNCHANGED <<fe, prev, wire, editing, owed, sock, attempt, wsi, engine, stop, eintr>>

LoopStops ==
    /\ pc = "top" /\ ~fe.running
    /\ pc' = "exit"
    /\ UNCHANGED <<fe, facts, prev, wire, editing, owed, sock, attempt, wsi, power, engine, stop, eintr>>

(* wl_display_prepare_read succeeds, and the flush reaches the socket. *)
PrepareAndFlush ==
    /\ pc = "prepare"
    /\ pc' = "build" /\ wsi' = FALSE
    /\ UNCHANGED <<fe, facts, prev, wire, editing, owed, sock, attempt, power, engine, stop, eintr>>

BuildPollSet ==
    /\ pc = "build"
    /\ pc' = "poll"
    /\ UNCHANGED <<fe, facts, prev, wire, editing, owed, sock, attempt, wsi, power, engine, stop, eintr>>

-----------------------------------------------------------------------------
(* poll() *)

DisplayReadable == wire # <<>> \/ sock = "hup"

(* Which of the loop's own deadlines bounds poll and has passed. *)
TimeoutDue ==
    \/ fe.ui = "RETRY" /\ fe.session /\ fe.focused
    \/ fe.vk = "NEEDS_KEYMAP" /\ fe.deadline = "expired"

PollReady ==
    /\ pc = "poll" /\ ~eintr /\ (DisplayReadable \/ power.logind)
    /\ pc' = "dispatch"
    /\ UNCHANGED <<fe, facts, prev, wire, editing, owed, sock, attempt, wsi, power, engine, stop, eintr>>

(* A client of the daemon, a timer or the configuration watch wakes it.    *)
PollOther ==
    /\ pc = "poll" /\ ~eintr /\ ~DisplayReadable /\ ~power.logind
    /\ pc' = "dispatch"
    /\ UNCHANGED <<fe, facts, prev, wire, editing, owed, sock, attempt, wsi, power, engine, stop, eintr>>

PollTimeout ==
    /\ pc = "poll" /\ ~eintr /\ ~DisplayReadable /\ ~power.logind /\ TimeoutDue
    /\ fe' = VkHealthCheck(fe)
    /\ wire' = WireAfter(fe', wire)
    /\ pc' = "top"
    /\ UNCHANGED <<facts, prev, editing, owed, sock, attempt, wsi, power, engine, stop, eintr>>

PollInterrupted ==
    /\ pc = "poll" /\ eintr
    /\ eintr' = FALSE /\ pc' = "top"
    /\ UNCHANGED <<fe, facts, prev, wire, editing, owed, sock, attempt, wsi, power, engine, stop>>

-----------------------------------------------------------------------------
(* Listeners.  Events run in order, wherever the default queue is          *)
(* dispatched: after poll, in prepare_read's retry loop when something     *)
(* else queued them, and in the identity provider's bind roundtrip.        *)

Dispatching(type) ==
    /\ pc \in {"prepare", "dispatch", "bound"} /\ (pc = "prepare" => wsi)
    /\ wire # <<>> /\ Head(wire).type = type
    /\ UNCHANGED <<pc, prev, editing, owed, sock, attempt, wsi, power, engine, stop, eintr>>

Delivered == wire' = WireAfter(fe', Tail(wire))

ImActivate ==
    /\ Dispatching("activate")
    /\ \E created \in MaySucceed("session") :
         IF fe.session \/ created
         THEN /\ fe' = [CancelUiTracking(fe) EXCEPT !.session = TRUE, !.target = Head(wire).field]
              /\ facts' = [facts EXCEPT !.im_activate_seen = TRUE]
         ELSE UNCHANGED <<fe, facts>>
    /\ Delivered

ImDeactivate ==
    /\ Dispatching("deactivate")
    /\ facts' = [facts EXCEPT !.im_deactivate_seen = TRUE]
    /\ UNCHANGED fe
    /\ Delivered

(* im_serial counts the dones received over all connections. *)
CountDone(f, w) ==
    {[f EXCEPT !.serial = s] : s \in Compared(IF f.serial = "zero" THEN "exact" ELSE f.serial, w)}

(* Mutant: the done commits the activate only. *)
DoneForgetsDeactivate(fs) ==
    [fs EXCEPT !.im_done_had_activate = fs.im_activate_seen,
               !.im_activate_seen = FALSE, !.im_deactivate_seen = FALSE]

(* The done batch overwrites both batch flags with what was seen since the *)
(* previous done.                                                          *)
ClassifyDone(fs) ==
    [fs EXCEPT !.im_done_had_activate = fs.im_activate_seen,
               !.im_done_had_deactivate = fs.im_deactivate_seen,
               !.im_activate_seen = FALSE, !.im_deactivate_seen = FALSE]

ImDone ==
    /\ Dispatching("done")
    /\ fe' \in CountDone(fe, Tail(wire))
    /\ facts' = IF fe.session THEN ClassifyDone(facts) ELSE facts
    /\ Delivered

ImUnavailable ==
    /\ Dispatching("unavailable")
    /\ fe' = [fe EXCEPT !.running = FALSE]
    /\ UNCHANGED facts
    /\ Delivered

DropDiscarded ==
    /\ Dispatching("discarded")
    /\ UNCHANGED <<fe, facts>>
    /\ Delivered

OnKeymap ==
    /\ Dispatching("keymap")
    /\ \E dup \in MaySucceed("dup"), compiled \in MaySucceed("xkb") :
         fe' = [VkForwardKeymap(fe, dup) EXCEPT !.xkb = @ \/ compiled]
    /\ UNCHANGED facts
    /\ Delivered

OnModifiers ==
    /\ Dispatching("modifiers")
    /\ fe' = VkIsReady(fe)
    /\ UNCHANGED facts
    /\ Delivered

(* What an engine may do with a key that reaches it: extend or clear its   *)
(* composition, commit text, delete surrounding text, or decline the key.  *)
EngineResults(f) ==
    {[f EXCEPT !.comp = IF @ = NoField THEN f.target ELSE @, !.ui = "DIRTY"],
     [f EXCEPT !.comp = NoField, !.ui = "DIRTY"],
     CancelUiTracking(CommitPreedit([f EXCEPT !.comp = NoField], NoField)),
     VkIsReady(f)}
      \cup (IF "delete" \in Traffic THEN {CommitPreedit(f, NoField)} ELSE {})

Stopped(f) == [ReleaseGrab(f) EXCEPT !.running = FALSE]

(* guard_note_reject, for a release, a press inside the streak's window,   *)
(* and a press outside it.                                                 *)
RejectedStreaks(f) ==
    {f.streak, 1, IF f.streak < GuardThreshold THEN f.streak + 1 ELSE f.streak}

Rejected(f, streak) ==
    LET noted == [f EXCEPT !.streak = streak]
    IN  IF streak >= GuardThreshold /\ ~IsTransitioning(f.focused, Observe(f))
        THEN Stopped(noted) ELSE noted

(* Mutant: a key is routed whatever the state of the grab is. *)
KeyResultsUnguarded(f) ==
    CASE ~f.xkb -> {f}
      [] f.xkb /\ f.session -> EngineResults([f EXCEPT !.streak = 0])
      [] OTHER -> {Rejected(f, streak) : streak \in RejectedStreaks(f)}

(* on_key: routed to the engine, passed through while paused, or rejected. *)
KeyResults(f) ==
    CASE ~f.xkb -> {f}
      [] f.xkb /\ f.session /\ CanRouteKeys(f.focused, Observe(f)) ->
           EngineResults([f EXCEPT !.streak = 0])
      [] f.xkb /\ ~f.focused /\ Observe(f) = "READY" -> {VkIsReady([f EXCEPT !.streak = 0])}
      [] OTHER -> {Rejected(f, streak) : streak \in RejectedStreaks(f)}

OnKey ==
    /\ Dispatching("key")
    /\ \/ fe' \in KeyResults(fe)
       \/ "emergency" \in Traffic /\ fe.xkb /\ fe' = Stopped(fe)
    /\ UNCHANGED facts
    /\ Delivered

-----------------------------------------------------------------------------
(* The tail of one iteration. *)

(* One read takes whole batches unless "split" lets it end anywhere. *)
DispatchEnds ==
    /\ pc = "dispatch"
    /\ \/ wire = <<>> \/ "split" \in Traffic
       \/ ~facts.im_activate_seen /\ ~facts.im_deactivate_seen
    /\ pc' = "aux"
    /\ UNCHANGED <<fe, facts, prev, wire, editing, owed, sock, attempt, wsi, power, engine, stop, eintr>>

(* resume_signal_match through the logind aux handler. *)
LogindResume ==
    /\ pc = "aux" /\ power.logind
    /\ facts' = [facts EXCEPT !.suspend_gap_detected = @ \/ Fires(TRUE)]
    /\ power' = [power EXCEPT !.logind = FALSE, !.cooldown = TRUE]
    /\ UNCHANGED <<pc, fe, prev, wire, editing, owed, sock, attempt, wsi, engine, stop, eintr>>

(* A status-bus or IPC request switches or unloads the keyboard engine.    *)
EngineChanges ==
    /\ pc = "aux" /\ "engine" \in Traffic
    /\ engine' = ~engine
    /\ UNCHANGED <<pc, fe, facts, prev, wire, editing, owed, sock, attempt, wsi, power, stop, eintr>>

PipelineDesired == Reduce([facts EXCEPT !.engine_present = engine], prev)
PipelineEffects == Diff(PipelineDesired, Observe(fe))

RunPipeline ==
    /\ pc = "aux"
    /\ \E ok \in MaySucceed("grab") : fe' = Apply(fe, PipelineEffects, ok)
    /\ prev' = PipelineDesired
    /\ wire' = IF "destroy_grab" \in PipelineEffects THEN Discarded(wire) ELSE WireAfter(fe', wire)
    /\ owed' = (owed \/ "create_grab" \in PipelineEffects)
    /\ pc' = "post"
    /\ UNCHANGED <<facts, editing, sock, attempt, wsi, power, engine, stop, eintr>>

HealthCheck ==
    /\ pc = "post"
    /\ fe' = VkHealthCheck(fe)
    /\ wire' = WireAfter(fe', wire)
    /\ pc' = IF fe'.running THEN "flush" ELSE "exit"
    /\ UNCHANGED <<facts, prev, editing, owed, sock, attempt, wsi, power, engine, stop, eintr>>

(* update_wayland_text_ui: the panel, then the preedit if it changed since *)
(* the daemon last sent it.                                                *)
UpdateTextUi(f, result) ==
    LET sent == IF f.last # f.comp THEN CommitPreedit(f, f.comp) ELSE f
    IN  [sent EXCEPT !.ui = result, !.last = f.comp]

FlushPanel ==
    /\ pc = "flush"
    /\ IF fe.ui # "IDLE" /\ fe.session /\ fe.focused
       THEN /\ \E result \in {"IDLE"} \cup (IF "retry" \in Faults THEN {"RETRY"} ELSE {}) :
                 fe' = UpdateTextUi(fe, result)
            /\ wsi' \in (IF "wsi" \in Traffic THEN BOOLEAN ELSE {FALSE})
       ELSE UNCHANGED <<fe, wsi>>
    /\ pc' = "top"
    /\ UNCHANGED <<facts, prev, wire, editing, owed, sock, attempt, power, engine, stop, eintr>>

-----------------------------------------------------------------------------
(* typio_wl_frontend_reconnect, called when a flush or a read failed. *)

ConnectionLost ==
    /\ sock = "hup" /\ pc \in {"prepare", "dispatch"}
    /\ fe' = Disconnected(fe)
    /\ wire' = <<>> /\ editing' = NoField /\ owed' = FALSE /\ sock' = "down"
    /\ attempt' = 0 /\ pc' = "backoff"
    /\ UNCHANGED <<facts, prev, wsi, power, engine, stop, eintr>>

(* Mutant: an off-by-one in the retry limit. *)
RetryConnectOnceMore ==
    /\ pc = "backoff" /\ fe.running /\ attempt <= MaxAttempts
    /\ pc' = "binding"
    /\ UNCHANGED <<fe, facts, prev, wire, editing, owed, sock, attempt, wsi, power, engine, stop, eintr>>

(* One turn of the retry loop up to the second look at running. *)
RetryConnect ==
    /\ pc = "backoff" /\ fe.running /\ attempt < MaxAttempts
    /\ pc' = "binding"
    /\ UNCHANGED <<fe, facts, prev, wire, editing, owed, sock, attempt, wsi, power, engine, stop, eintr>>

GiveUp ==
    /\ pc = "backoff" /\ (~fe.running \/ attempt >= MaxAttempts)
    /\ fe' = [fe EXCEPT !.running = FALSE]
    /\ pc' = "exit"
    /\ UNCHANGED <<facts, prev, wire, editing, owed, sock, attempt, wsi, power, engine, stop, eintr>>

BindFails ==
    /\ pc = "binding"
    /\ attempt' = attempt + 1 /\ pc' = "backoff"
    /\ UNCHANGED <<fe, facts, prev, wire, editing, owed, sock, wsi, power, engine, stop, eintr>>

(* Connected, listeners set, virtual keyboard created; the identity        *)
(* provider's roundtrip may now dispatch input-method events.              *)
BindObjects ==
    /\ pc = "binding"
    /\ \E outcome \in VkOutcome : fe' = VkBound(fe, outcome)
    /\ sock' = "up" /\ pc' = "bound"
    /\ UNCHANGED <<facts, prev, wire, editing, owed, attempt, wsi, power, engine, stop, eintr>>

ResumeLoop(f) == [f EXCEPT !.running = TRUE]

Reconnected ==
    /\ pc = "bound"
    /\ fe' = ResumeLoop(fe)
    /\ pc' = "top"
    /\ UNCHANGED <<facts, prev, wire, editing, owed, sock, attempt, wsi, power, engine, stop, eintr>>

Destroy ==
    /\ pc = "exit"
    /\ fe' = FrontendDestroy(fe)
    /\ wire' = <<>> /\ editing' = NoField /\ owed' = FALSE /\ sock' = "down"
    /\ pc' = "dead"
    /\ UNCHANGED <<facts, prev, attempt, wsi, power, engine, stop, eintr>>

Ended == pc = "dead" /\ UNCHANGED vars

-----------------------------------------------------------------------------
(* The environment. *)

Connected == sock = "up" /\ pc \notin {"exit", "dead"}

(* Sending a done makes the daemon's count old, and an activate resets the *)
(* preedit (protocols/input-method-unstable-v2.xml, commit and activate).  *)
Sent(f, events) ==
    LET counts == IF Has("done", events) THEN Compared(f.serial, wire \o events) ELSE {f.serial}
    IN  {[f EXCEPT !.serial = s, !.shown = IF Has("activate", events) THEN NoField ELSE @] :
            s \in counts}

Send(events) ==
    /\ Connected /\ Len(wire) + Len(events) <= WireCap
    /\ wire' = wire \o events
    /\ fe' \in Sent(fe, events)
    /\ UNCHANGED <<pc, facts, prev, sock, attempt, wsi, power, engine, stop, eintr>>

Activate(f) == [type |-> "activate", field |-> f]

EnterField ==
    /\ editing = NoField
    /\ \E f \in Field : Send(<<Activate(f), Plain("done")>>) /\ editing' = f
    /\ UNCHANGED owed

LeaveField ==
    /\ editing # NoField
    /\ Send(<<Plain("deactivate"), Plain("done")>>) /\ editing' = NoField
    /\ UNCHANGED owed

(* One batch that leaves a field and enters a field. *)
MoveField ==
    /\ editing # NoField /\ "move" \in Traffic
    /\ \E f \in Field :
         Send(<<Plain("deactivate"), Activate(f), Plain("done")>>) /\ editing' = f
    /\ UNCHANGED owed

(* The client re-enables text input without leaving it. *)
SwitchField ==
    /\ editing # NoField /\ "switch" \in Traffic
    /\ \E f \in Field : Send(<<Activate(f), Plain("done")>>) /\ editing' = f
    /\ UNCHANGED owed

(* Surrounding text or content type changed: a done with no (de)activate.  *)
TextUpdate ==
    /\ editing # NoField /\ "update" \in Traffic
    /\ Send(<<Plain("done")>>)
    /\ UNCHANGED <<editing, owed>>

Unavailable ==
    /\ "unavailable" \in Traffic
    /\ Send(<<Plain("unavailable")>>)
    /\ UNCHANGED <<editing, owed>>

SendKeymap ==
    /\ owed /\ fe.kb = "grabbed"
    /\ Send(<<Plain("keymap")>>) /\ owed' = FALSE
    /\ UNCHANGED editing

SendKey ==
    /\ ~owed /\ fe.kb = "grabbed"
    /\ Send(<<Plain("key")>>)
    /\ UNCHANGED <<editing, owed>>

SendModifiers ==
    /\ ~owed /\ fe.kb = "grabbed" /\ "modifiers" \in Traffic
    /\ Send(<<Plain("modifiers")>>)
    /\ UNCHANGED <<editing, owed>>

CompositorDies ==
    /\ "restart" \in Traffic /\ Connected
    /\ sock' = "hup" /\ editing' = NoField
    /\ UNCHANGED <<pc, fe, facts, prev, wire, owed, attempt, wsi, power, engine, stop, eintr>>

(* The machine sleeps and wakes: the clocks now disagree, and logind       *)
(* signals the wake-up if its bus is there.                                *)
Sleep ==
    /\ "resume" \in Traffic /\ pc # "dead"
    /\ \E signalled \in BOOLEAN :
         power' = [power EXCEPT !.gap = TRUE, !.logind = @ \/ signalled]
    /\ UNCHANGED <<pc, fe, facts, prev, wire, editing, owed, sock, attempt, wsi, engine, stop, eintr>>

CooldownEnds ==
    /\ power.cooldown
    /\ power' = [power EXCEPT !.cooldown = FALSE]
    /\ UNCHANGED <<pc, fe, facts, prev, wire, editing, owed, sock, attempt, wsi, engine, stop, eintr>>

DeadlinePasses ==
    /\ fe.deadline = "armed"
    /\ fe' = [fe EXCEPT !.deadline = "expired"]
    /\ UNCHANGED <<pc, facts, prev, wire, editing, owed, sock, attempt, wsi, power, engine, stop, eintr>>

(* typio_signal_handler: it clears running, and interrupts poll only if    *)
(* the loop is already inside it.                                          *)
Signal ==
    /\ "stop" \in Traffic /\ ~stop /\ pc # "dead"
    /\ stop' = TRUE /\ fe' = [fe EXCEPT !.running = FALSE]
    /\ eintr' = (pc = "poll")
    /\ UNCHANGED <<pc, facts, prev, wire, editing, owed, sock, attempt, wsi, power, engine>>

-----------------------------------------------------------------------------
Dispatch == ImActivate \/ ImDeactivate \/ ImDone \/ ImUnavailable \/ DropDiscarded
              \/ OnKeymap \/ OnModifiers \/ OnKey

(* The steps the loop takes without waiting for anything. *)
Loop == LoopTop \/ LoopStops \/ PrepareAndFlush \/ BuildPollSet
          \/ PollReady \/ PollTimeout \/ PollInterrupted
          \/ DispatchEnds \/ LogindResume \/ RunPipeline \/ HealthCheck \/ FlushPanel
          \/ ConnectionLost \/ RetryConnect \/ GiveUp \/ BindFails \/ BindObjects \/ Reconnected
          \/ Destroy

Compositor == EnterField \/ LeaveField \/ MoveField \/ SwitchField \/ TextUpdate \/ Unavailable
                \/ SendKeymap \/ SendKey \/ SendModifiers \/ CompositorDies

Next == Loop \/ Dispatch \/ PollOther \/ EngineChanges \/ Compositor
          \/ Sleep \/ CooldownEnds \/ DeadlinePasses \/ Signal \/ Ended

Spec == Init /\ [][Next]_vars

(* The loop never rests except in poll, and there only until something     *)
(* wakes it: a read has an end, and so has the work after it.  Queued      *)
(* events are dispatched, and time passes.  Nothing is asked of the        *)
(* compositor.                                                             *)
Woken == eintr \/ DisplayReadable \/ power.logind \/ TimeoutDue
Leaves(place) == []<>(pc # place)
Fairness == /\ Leaves("top") /\ Leaves("prepare") /\ Leaves("build") /\ Leaves("dispatch")
            /\ Leaves("aux") /\ Leaves("post") /\ Leaves("flush")
            /\ Leaves("backoff") /\ Leaves("binding") /\ Leaves("bound") /\ Leaves("exit")
            /\ []<>~(pc = "poll" /\ Woken)
            /\ SF_vars(Dispatch)
            /\ []<>(fe.deadline # "armed")

FairSpec == Spec /\ Fairness

-----------------------------------------------------------------------------
(* Properties *)

TypeOK ==
    /\ pc \in Location
    /\ fe \in Frontend
    /\ facts \in Facts
    /\ prev \in Desired
    /\ wire \in Seq(Message)
    /\ editing \in MaybeField
    /\ owed \in BOOLEAN
    /\ sock \in {"up", "hup", "down"}
    /\ attempt \in 0..MaxAttempts
    /\ wsi \in BOOLEAN
    /\ power \in [gap : BOOLEAN, logind : BOOLEAN, cooldown : BOOLEAN]
    /\ engine \in BOOLEAN
    /\ stop \in BOOLEAN
    /\ eintr \in BOOLEAN

(* The context is focused exactly when the last desired state wanted the   *)
(* grab: no focus_in or focus_out edge is lost or sent twice, whatever     *)
(* facts were coalesced, lost or cut by a reconnect.                       *)
FocusMatchesWant == pc # "dead" => (fe.focused <=> prev.grab = "YES")

(* The engine holds a composition only for a focused context: every way a  *)
(* field can be lost discards it, and no key reaches the engine outside.   *)
ComposeOnlyFocused == fe.comp # NoField => fe.focused

(* A live grab is ready only with a keymap of its own generation: readiness *)
(* of an earlier grab never carries over.                                  *)
NoStaleReady == fe.kb = "grabbed" /\ fe.vk = "READY" => fe.current

(* A live grab that waits for its keymap always has a deadline running.    *)
KeymapWaitIsBounded ==
    fe.kb = "grabbed" /\ fe.vk = "NEEDS_KEYMAP" => fe.deadline # "none"

(* A preedit is in force at the compositor past the focus it belongs to    *)
(* only where the clear that goes with every loss of focus met a done      *)
(* under way, or a count of an earlier connection: it is then refused.     *)
ShownOnlyFocused == fe.shown # NoField => fe.focused
DisplayFollowsFocus ==
    [][ShownOnlyFocused /\ ~ShownOnlyFocused'
          => Has("done", wire) \/ fe.serial \in {"off", "chance"}]_vars

(* After a tick that wanted no grab there is none, in any virtual-keyboard *)
(* state the controller can observe.                                       *)
NoGrabUnwanted == prev.grab = "NONE" /\ fe.vk # "ABSENT" => fe.kb = "absent"

(* A soft pause never takes a grab away that waits for its keymap or has   *)
(* it.  Of one whose keymap failed nothing is said: what the code and its  *)
(* documentation want of it is not the same.                               *)
SoftPauseKeepsGrab ==
    [][fe.kb = "grabbed" /\ fe.vk \in {"NEEDS_KEYMAP", "READY"}
         /\ prev' # prev /\ prev'.grab = "SOFT_PAUSE"
          => fe'.kb = "grabbed"]_vars

(* A composition belongs to the field the daemon was last activated for.   *)
CompositionStaysInField == fe.comp # NoField /\ pc = "top" => fe.comp = fe.target

(* If the compositor settles in a field, or in none, and the machine stays *)
(* awake, the daemon settles there too or has stopped.                     *)
Awake == ~power.gap /\ ~power.logind
FocusConverges ==
    \A f \in Field : <>[](editing = f /\ Awake) => <>[](fe.focused \/ ~fe.running)
BlurConverges == <>[](editing = NoField) => <>[](~fe.focused)

(* A grab never waits for its keymap for ever. *)
KeymapWaitEnds ==
    (fe.kb = "grabbed" /\ fe.vk = "NEEDS_KEYMAP")
       ~> (fe.kb # "grabbed" \/ fe.vk # "NEEDS_KEYMAP")

-----------------------------------------------------------------------------
(* The promise of InputFocus, as this module keeps it. *)

GrabSeen ==
    CASE fe.kb # "grabbed" -> "none"
      [] fe.kb = "grabbed" /\ fe.vk = "NEEDS_KEYMAP" -> "waiting"
      [] fe.kb = "grabbed" /\ fe.vk = "READY" -> "usable"
      [] fe.kb = "grabbed" /\ fe.vk \in {"BROKEN", "ABSENT"} -> "broken"

Promise == INSTANCE InputFocus
             WITH focused <- fe.focused, composing <- fe.comp # NoField, grab <- GrabSeen

(* Every step of the loop is a step of InputFocus or changes nothing there. *)
KeepsPromise == Promise!Spec

=============================================================================

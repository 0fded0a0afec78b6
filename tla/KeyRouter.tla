----------------------------- MODULE KeyRouter -----------------------------
(***************************************************************************)
(* What happens to a key that reaches the keyboard grab: on_key and the    *)
(* other grab listeners, the chord arbiter, the router, per-key tracking   *)
(* and the repeat timer, between a user's fingers, the engine and the      *)
(* application.  The focus controller appears as its effects on the grab;  *)
(* FocusSession models it, the broken keymap path and the guard's failsafe.*)
(* Times, keysyms, lock modifiers and unicode values are left out, and ALT *)
(* is a second SUPER.  The host is one record and the C functions are      *)
(* operators from record to record; the loops of the arbiter over its      *)
(* buffer run from the queue "todo" while everything else waits.           *)
(***************************************************************************)
EXTENDS Naturals, Sequences

CONSTANTS
    CtrlKey, ShiftKey, SuperKey,  \* the keys of each modifier
    PlainKey,                     \* all other keys
    EnterKey,                     \* those that are Return or keypad Enter
    NavKey,                       \* those the candidate guard may reserve
    PttKey, PttMods,              \* the binding of voice_ptt
    ExitKey,                      \* the keysym of the exit binding, Ctrl+Shift+...
    NoKey,
    MaxBuffered,                  \* TYPIO_ARBITER_MAX_BUFFERED
    Traffic                       \* which optional behaviours of the environment occur

Mod == {"CTRL", "SHIFT", "SUPER"}
Blocking == {"CTRL", "SUPER"}
Chord == {"CTRL", "SHIFT"}        \* switch_language
ExitMods == {"CTRL", "SHIFT"}
ModifierKey == CtrlKey \cup ShiftKey \cup SuperKey
Key == ModifierKey \cup PlainKey

ASSUME KeyAssumption ==
    /\ NoKey \notin Key /\ PlainKey \cap ModifierKey = {}
    /\ CtrlKey \cap ShiftKey = {} /\ CtrlKey \cap SuperKey = {} /\ ShiftKey \cap SuperKey = {}
    /\ EnterKey \subseteq PlainKey /\ NavKey \subseteq PlainKey
    /\ PttKey \subseteq PlainKey /\ ExitKey \subseteq PlainKey /\ PttMods \subseteq Mod
ASSUME BufferAssumption == MaxBuffered \in Nat \ {0}
ASSUME TrafficAssumption ==
    Traffic \subseteq {"straddle", "orphan", "tap", "mixed", "unready", "reset", "layout"}

(* What a key stands for in physical_modifiers. *)
ModOf(k) == {m \in Mod : \/ m = "CTRL" /\ k \in CtrlKey
                         \/ m = "SHIFT" /\ k \in ShiftKey
                         \/ m = "SUPER" /\ k \in SuperKey}
ModsOf(keys) == {m \in Mod : \E k \in keys : m \in ModOf(k)}

(* The tracking states a press can leave behind.  RELEASED_PENDING is      *)
(* overwritten by the reset that follows it in every handler, and nothing  *)
(* assigns SUPPRESSED_STARTUP or BASIC_PASSTHROUGH.                        *)
Track == {"IDLE", "FORWARDED", "APP_SHORTCUT", "ENGINE_NOT_READY", "VOICE_PTT", "VOICE_PTT_UNAVAIL"}

Event == [press : BOOLEAN, key : Key, mods : SUBSET Mod]

Host ==
    [grab   : {"absent", "waiting", "ready", "released", "dead"},
     focus  : BOOLEAN,                \* typio_input_context_is_focused
     young  : BOOLEAN,                \* within the guard window of the grab's creation
     phys   : SUBSET Mod,             \* physical_modifiers
     xkb    : SUBSET Mod,             \* effective modifiers of xkb_state
     saw    : BOOLEAN,                \* saw_blocking_modifier
     repeat : Key \cup {NoKey},       \* repeat_key while repeating
     track  : [Key -> Track],         \* tracker->states
     owned  : SUBSET Key,             \* generations[key] = active_generation
     owns   : BOOLEAN,                \* active_generation_owned_keys
     buffer : Seq(Event),             \* the arbiter; BUFFERING while it is not empty
     todo   : Seq(Event),             \* events the arbiter's loop has yet to route
     ready  : BOOLEAN,                \* the engine's availability
     cands  : BOOLEAN,                \* candidates are shown
     heard  : SUBSET Key,             \* input context: presses processed, no release yet
     voice  : BOOLEAN,                \* voice session: recording
     down   : SUBSET Key]             \* application: keys it was told are down

VARIABLES
    h,        \* the host, the engine and the application
    held,     \* user: keys physically down
    direct,   \* compositor: keys whose press it gave to the application itself
    owed      \* compositor: a modifiers event follows the last key event

vars == <<h, held, direct, owed>>

-----------------------------------------------------------------------------
(* bridge.c and tracker.c *)

Forward(f, k, press) == [f EXCEPT !.down = IF press THEN @ \cup {k} ELSE @ \ {k}]

Claim(f, k) == [f EXCEPT !.owned = @ \cup {k}, !.owns = TRUE]

ClearTracking(f, k) == [f EXCEPT !.track[k] = "IDLE", !.owned = @ \ {k}]

ForwardedKeys(f) == {k \in Key : f.track[k] \in {"FORWARDED", "APP_SHORTCUT"}}

ReleaseForwarded(f) == [f EXCEPT !.down = @ \ ForwardedKeys(f)]

(* Mutant: the generations survive a boundary. *)
TrackingResetStates(f) == [f EXCEPT !.track = [k \in Key |-> "IDLE"]]

TrackingReset(f) == [f EXCEPT !.track = [k \in Key |-> "IDLE"], !.owned = {}]

-----------------------------------------------------------------------------
(* router.c: a press and a release, given the answer of the engine.  An    *)
(* engine that processes a key may show or withdraw its candidates.        *)

Answer == [handled : BOOLEAN, cands : BOOLEAN]

Reserved(f, k) == f.cands /\ k \in NavKey

AskPress(f, k, a) == [f EXCEPT !.heard = @ \cup {k}, !.cands = a.cands]
AskRelease(f, k, a) == [f EXCEPT !.heard = @ \ {k}, !.cands = a.cands]

IsPtt(k, mods) == k \in PttKey /\ PttMods \subseteq mods

IsAppShortcut(k, mods) == k \notin ModifierKey /\ mods \cap Blocking # {}

RouteFresh(f, e, a, available) ==
    LET k == e.key
        asked == AskPress(f, k, a)
    IN  CASE IsPtt(k, e.mods) ->
               IF available THEN [f EXCEPT !.voice = TRUE, !.track[k] = "VOICE_PTT"]
                            ELSE [f EXCEPT !.track[k] = "VOICE_PTT_UNAVAIL"]
          [] ~IsPtt(k, e.mods) /\ ~f.ready -> [f EXCEPT !.track[k] = "ENGINE_NOT_READY"]
          [] ~IsPtt(k, e.mods) /\ f.ready /\ IsAppShortcut(k, e.mods) ->
               IF a.handled THEN [asked EXCEPT !.track[k] = "IDLE"]
                            ELSE [Forward(asked, k, TRUE) EXCEPT !.track[k] = "APP_SHORTCUT"]
          [] ~IsPtt(k, e.mods) /\ f.ready /\ ~IsAppShortcut(k, e.mods) ->
               IF a.handled \/ Reserved(asked, k) THEN asked
               ELSE [Forward(asked, k, TRUE) EXCEPT !.track[k] = "FORWARDED"]

RoutePress(f, e, a, available) ==
    LET k == e.key
    IN  CASE f.track[k] = "APP_SHORTCUT" ->
               IF f.phys \cap Blocking # {} THEN Forward(f, k, TRUE) ELSE f
          [] f.track[k] = "FORWARDED" -> Forward(f, k, TRUE)
          [] OTHER -> RouteFresh(Claim(f, k), e, a, available)

(* An idle release of a key the grab never saw pressed. *)
RouteOrphan(f, e) ==
    LET cleanup == /\ e.key \notin ModifierKey
                   /\ f.young \/ e.key \in EnterKey \/ f.saw \/ e.mods \cap Blocking # {}
    IN  ClearTracking(IF cleanup THEN Forward(f, e.key, FALSE) ELSE f, e.key)

RouteRelease(f, e, a) ==
    LET k == e.key
        cleared == ClearTracking(f, k)
        asked == AskRelease(cleared, k, a)
    IN  CASE f.track[k] \in {"ENGINE_NOT_READY", "VOICE_PTT_UNAVAIL"} -> cleared
          [] f.track[k] = "VOICE_PTT"    -> [cleared EXCEPT !.voice = FALSE]
          [] f.track[k] = "APP_SHORTCUT" -> Forward(cleared, k, FALSE)
          [] f.track[k] = "FORWARDED"    ->
               IF ~a.handled /\ Reserved(asked, k) THEN asked ELSE Forward(asked, k, FALSE)
          [] f.track[k] = "IDLE" -> IF k \in f.owned THEN asked ELSE RouteOrphan(f, e)

-----------------------------------------------------------------------------
(* repeat.c *)

RepeatStop(f) == [f EXCEPT !.repeat = NoKey]

(* Mutant: a key the engine was not ready for repeats as well. *)
RepeatMaybeStartAnyState(f, e) ==
    IF e.key \notin ModifierKey /\ e.mods \cap Blocking = {}
    THEN [f EXCEPT !.repeat = e.key] ELSE f

(* Modifier keys do not repeat in the keymap. *)
RepeatMaybeStart(f, e) ==
    IF /\ e.key \notin ModifierKey /\ e.mods \cap Blocking = {}
       /\ f.track[e.key] # "ENGINE_NOT_READY"
    THEN [f EXCEPT !.repeat = e.key] ELSE f

StopRepeatOf(f, k) == IF f.repeat = k THEN RepeatStop(f) ELSE f

ProcessKeyPress(f, e, a, available) == RepeatMaybeStart(RoutePress(f, e, a, available), e)
ProcessKeyRelease(f, e, a) == RouteRelease(StopRepeatOf(f, e.key), e, a)

(* typio_wl_keyboard_dispatch_repeat, its route guard already passed. *)
DispatchRepeat(f, a) ==
    LET k == f.repeat
        asked == AskPress(f, k, a)
    IN  CASE f.track[k] = "APP_SHORTCUT" ->
               IF f.phys \cap Blocking = {} THEN RepeatStop(f) ELSE Forward(f, k, TRUE)
          [] f.track[k] = "FORWARDED" -> Forward(f, k, TRUE)
          [] f.track[k] = "ENGINE_NOT_READY" -> RepeatStop(f)
          [] OTHER -> IF a.handled \/ Reserved(asked, k) THEN asked
                      ELSE [Forward(asked, k, TRUE) EXCEPT !.track[k] = "FORWARDED"]

-----------------------------------------------------------------------------
(* arbiter.c *)

Buffering(f) == f.buffer # <<>>

StartsBuffering(f, k) ==
    ModOf(k) \cap Chord # {} /\ Chord \subseteq f.phys /\ f.phys \subseteq Chord

(* The passed-through or replayed events go to the router one by one. *)
Pass(f, e) == [f EXCEPT !.todo = Append(f.buffer, e), !.buffer = <<>>]

(* Mutant: the buffer's capacity is not checked. *)
BufferPushUnchecked(f, e) == [f EXCEPT !.buffer = Append(@, e)]

BufferPush(f, e) ==
    IF Len(f.buffer) < MaxBuffered THEN [f EXCEPT !.buffer = Append(@, e)] ELSE f

Orphans(f) == {k \in Key : /\ f.track[k] = "FORWARDED"
                           /\ \E i \in DOMAIN f.buffer : /\ ~f.buffer[i].press
                                                         /\ f.buffer[i].key = k}

(* Mutant: the keys forwarded before the chord are left down. *)
ReleaseNoOrphans(f) == f

ReleaseOrphanedKeys(f) ==
    [f EXCEPT !.down = @ \ Orphans(f), !.owned = @ \ Orphans(f),
              !.track = [k \in Key |-> IF k \in Orphans(f) THEN "IDLE" ELSE @[k]]]

(* The chord is complete: the composition is reset and the language moves  *)
(* on, in the same input context.                                          *)
ArbiterConsume(f) ==
    [ReleaseOrphanedKeys(f) EXCEPT !.buffer = <<>>, !.cands = FALSE]

ArbiterPress(f, e) ==
    CASE ~Buffering(f) -> IF StartsBuffering(f, e.key) THEN BufferPush(f, e) ELSE Pass(f, e)
      [] Buffering(f)  ->
           IF \/ ModOf(e.key) \cap Chord = {} \/ ~(f.phys \subseteq Chord)
              \/ Len(f.buffer) >= MaxBuffered - 1
           THEN Pass(f, e) ELSE BufferPush(f, e)

ArbiterRelease(f, e) ==
    IF ~Buffering(f) \/ ~(f.phys \subseteq Chord) THEN Pass(f, e)
    ELSE IF f.phys \cap Chord = {} THEN ArbiterConsume(BufferPush(f, e))
         ELSE BufferPush(f, e)

-----------------------------------------------------------------------------
(* keyboard.c *)

(* modifiers.c: the modifiers an event is routed with. *)
EffectiveModifiers(f, k, press) ==
    LET mods == f.phys \cup (IF f.owns THEN {} ELSE f.xkb \cap Blocking)
    IN  IF press THEN mods \cup ModOf(k) ELSE mods \ ModOf(k)

IsExit(k, mods) == k \in ExitKey /\ ExitMods \subseteq mods

(* on_key.  Without an xkb_state it does nothing. *)
OnKey(f, k, press) ==
    LET mods == EffectiveModifiers(f, k, press)
        e == [press |-> press, key |-> k, mods |-> mods]
        noted == [f EXCEPT !.phys = IF press THEN @ \cup ModOf(k) ELSE @ \ ModOf(k)]
    IN  CASE f.grab # "ready" -> f
          [] f.grab = "ready" /\ press /\ IsExit(k, mods) -> [f EXCEPT !.grab = "released"]
          [] f.grab = "ready" /\ ~(press /\ IsExit(k, mods)) /\ ~f.focus -> Forward(f, k, press)
          [] f.grab = "ready" /\ ~(press /\ IsExit(k, mods)) /\ f.focus ->
               IF press THEN ArbiterPress(noted, e) ELSE ArbiterRelease(noted, e)

OnModifiers(f, mods) ==
    [f EXCEPT !.xkb = mods, !.saw = @ \/ mods \cap Blocking # {},
              !.repeat = IF f.xkb \cap Blocking # mods \cap Blocking THEN NoKey ELSE @]

(* A keymap makes the virtual keyboard ready and gives a new xkb_state. *)
OnKeymap(f) == [f EXCEPT !.grab = "ready", !.xkb = {}]

KeyboardCreate(f) ==
    [TrackingReset(f) EXCEPT !.grab = "waiting", !.young = TRUE, !.phys = {}, !.xkb = {},
                             !.saw = FALSE, !.repeat = NoKey, !.buffer = <<>>, !.owns = FALSE]

KeyboardDestroy(f) ==
    [TrackingReset(RepeatStop(ReleaseForwarded(f))) EXCEPT
        !.grab = "absent", !.young = FALSE, !.phys = {}, !.xkb = {}, !.saw = FALSE,
        !.buffer = <<>>, !.owns = FALSE]

(* Mutant: the arbitration state survives the pause. *)
KeyboardPauseKeepingModifiers(f) ==
    [TrackingReset(RepeatStop(ReleaseForwarded(f))) EXCEPT !.xkb = {}]

(* Mutant: the arbiter is not reset. *)
KeyboardPauseKeepingBuffer(f) ==
    [TrackingReset(RepeatStop(ReleaseForwarded(f))) EXCEPT !.xkb = {}, !.phys = {}, !.saw = FALSE]

(* Mutant: what was forwarded is released but stays tracked. *)
KeyboardPauseKeepingTracking(f) ==
    [RepeatStop(ReleaseForwarded(f)) EXCEPT
        !.xkb = {}, !.phys = {}, !.saw = FALSE, !.buffer = <<>>]

(* Mutant: the repeat timer keeps running in a pause. *)
KeyboardPauseKeepingRepeat(f) ==
    [TrackingReset(ReleaseForwarded(f)) EXCEPT
        !.xkb = {}, !.phys = {}, !.saw = FALSE, !.buffer = <<>>]

KeyboardPause(f) ==
    [TrackingReset(RepeatStop(ReleaseForwarded(f))) EXCEPT
        !.xkb = {}, !.phys = {}, !.saw = FALSE, !.buffer = <<>>]

(* focus_effects.c: the composition is discarded and the engine told of    *)
(* the focus before the keyboard is paused.                                *)
FocusOut(f) ==
    LET left == [f EXCEPT !.focus = FALSE, !.cands = FALSE, !.heard = {}]
    IN  IF f.grab = "absent" THEN left ELSE KeyboardPause(left)

FocusIn(f) ==
    [(IF f.grab = "absent" THEN KeyboardCreate(f) ELSE f) EXCEPT !.focus = TRUE]

HardReset(f) == KeyboardDestroy(IF f.focus THEN FocusOut(f) ELSE f)

-----------------------------------------------------------------------------
(* Steps of the host. *)

Init ==
    /\ h = [grab |-> "absent", focus |-> FALSE, young |-> FALSE, phys |-> {}, xkb |-> {},
            saw |-> FALSE, repeat |-> NoKey, track |-> [k \in Key |-> "IDLE"], owned |-> {},
            owns |-> FALSE, buffer |-> <<>>, todo |-> <<>>, ready |-> TRUE, cands |-> FALSE,
            heard |-> {}, voice |-> FALSE, down |-> {}]
    /\ held = {} /\ direct = {} /\ owed = FALSE

Idle == h.todo = <<>>
Alive == h.grab \in {"absent", "waiting", "ready"}

(* One turn of the arbiter's loop, or its pass-through. *)
RouteNextPress ==
    /\ ~Idle /\ Head(h.todo).press
    /\ \E a \in Answer, available \in BOOLEAN :
         h' = ProcessKeyPress([h EXCEPT !.todo = Tail(@)], Head(h.todo), a, available)
    /\ UNCHANGED <<held, direct, owed>>

RouteNextRelease ==
    /\ ~Idle /\ ~Head(h.todo).press
    /\ \E a \in Answer :
         h' = ProcessKeyRelease([h EXCEPT !.todo = Tail(@)], Head(h.todo), a)
    /\ UNCHANGED <<held, direct, owed>>

RepeatFires ==
    /\ Idle /\ h.repeat # NoKey /\ Alive
    /\ \E a \in Answer :
         h' = IF h.focus /\ h.grab = "ready" THEN DispatchRepeat(h, a) ELSE RepeatStop(h)
    /\ UNCHANGED <<held, direct, owed>>

ReceiveKeymap ==
    /\ Idle /\ \/ h.grab = "waiting"
               \/ h.grab = "ready" /\ "layout" \in Traffic
    /\ h' = OnKeymap(h)
    /\ owed' = TRUE
    /\ UNCHANGED <<held, direct>>

ReceiveModifiers ==
    /\ Idle /\ owed /\ h.grab = "ready"
    /\ h' = OnModifiers(h, ModsOf(held))
    /\ owed' = FALSE
    /\ UNCHANGED <<held, direct>>

(* The controller's ticks.  Unless "straddle", a field is entered only     *)
(* when the application has no key down.                                   *)
EnterField ==
    /\ Idle /\ Alive /\ ~h.focus
    /\ h.down = {} \/ "straddle" \in Traffic
    /\ h' = FocusIn(h)
    /\ UNCHANGED <<held, direct, owed>>

LeaveField ==
    /\ Idle /\ Alive /\ h.focus
    /\ h' = FocusOut(h)
    /\ UNCHANGED <<held, direct, owed>>

(* A resume, or a field entered while no engine is registered. *)
LoseGrab ==
    /\ Idle /\ h.grab \in {"waiting", "ready"} /\ "reset" \in Traffic
    /\ h' = HardReset(h)
    /\ owed' = FALSE
    /\ UNCHANGED <<held, direct>>

(* The loop ends after the emergency exit; the keyboard is destroyed.      *)
Teardown ==
    /\ Idle /\ h.grab = "released"
    /\ h' = [KeyboardDestroy(h) EXCEPT !.grab = "dead", !.focus = FALSE]
    /\ UNCHANGED <<held, direct, owed>>

GuardWindowEnds ==
    /\ Idle /\ h.young
    /\ h' = [h EXCEPT !.young = FALSE]
    /\ UNCHANGED <<held, direct, owed>>

EngineAvailability ==
    /\ Idle /\ "unready" \in Traffic
    /\ h' = [h EXCEPT !.ready = ~@]
    /\ UNCHANGED <<held, direct, owed>>

-----------------------------------------------------------------------------
(* The user and the compositor.  A modifiers event comes before the next   *)
(* key; with no grab a key goes to the application.                        *)

Grabbed == h.grab \in {"waiting", "ready"}
Settled == Idle /\ (owed => ~Grabbed)

(* "tap": a key of a chord under arbitration is pressed again.  "mixed": a *)
(* modifier is pressed while a plain key is down.                          *)
MayPress(k) ==
    /\ Buffering(h) => "tap" \in Traffic \/ \A i \in DOMAIN h.buffer : h.buffer[i].key # k
    /\ k \in ModifierKey => "mixed" \in Traffic \/ held \cap PlainKey = {}

PressKey(k) ==
    /\ Settled /\ k \notin held /\ MayPress(k)
    /\ held' = held \cup {k}
    /\ owed' = (Grabbed /\ k \in ModifierKey)
    /\ IF Grabbed THEN h' = OnKey(h, k, TRUE) /\ UNCHANGED direct
       ELSE h' = Forward(h, k, TRUE) /\ direct' = direct \cup {k}

(* The release of a key the compositor gave to the application itself goes *)
(* there too; "orphan": or to the grab.                                    *)
ReleaseKey(k) ==
    /\ Settled /\ k \in held
    /\ held' = held \ {k} /\ direct' = direct \ {k}
    /\ owed' = (Grabbed /\ k \in ModifierKey)
    /\ \/ Grabbed /\ (k \in direct => "orphan" \in Traffic) /\ h' = OnKey(h, k, FALSE)
       \/ (~Grabbed \/ k \in direct) /\ h' = Forward(h, k, FALSE)

Press == \E k \in Key : PressKey(k)
Release == \E k \in Key : ReleaseKey(k)

Next == RouteNextPress \/ RouteNextRelease \/ RepeatFires \/ ReceiveKeymap \/ ReceiveModifiers
          \/ EnterField \/ LeaveField \/ LoseGrab \/ Teardown \/ GuardWindowEnds
          \/ EngineAvailability \/ Press \/ Release

Spec == Init /\ [][Next]_vars

-----------------------------------------------------------------------------
(* Properties *)

TypeOK ==
    /\ h \in Host /\ Len(h.buffer) <= MaxBuffered
    /\ held \subseteq Key /\ direct \subseteq Key
    /\ owed \in BOOLEAN

(* A modifier the host believes held in a focused field is held by the     *)
(* user: pauses, rebuilt grabs and arbitration leave no phantom behind.    *)
NoPhantomModifier == h.focus /\ h.grab = "ready" => h.phys \subseteq ModsOf(held)

(* A chord stays undecided only while the user holds part of it and no     *)
(* other modifier: no event waits in the buffer without one that will      *)
(* decide it.                                                              *)
UndecidedIsHeld == Buffering(h) => h.phys \cap Chord # {} /\ h.phys \subseteq Chord

(* A key tracked as given to the application is down there, so that the    *)
(* release it will be sent is never one too many.  The emergency exit gives *)
(* the grab up before the keyboard is destroyed: in between the release is  *)
(* the compositor's.                                                       *)
TrackedIsDown == h.grab # "released" => ForwardedKeys(h) \subseteq h.down

(* The input context is given a release only after the press, in the same  *)
(* focus: what was pressed elsewhere never reaches an engine.              *)
EngineReleaseMatches ==
    \A k \in h.owned : h.track[k] \in {"IDLE", "FORWARDED"} => k \in h.heard

Pending(events, k) == \E i \in DOMAIN events : ~events[i].press /\ events[i].key = k
ReleasePending(k) == Pending(h.buffer, k) \/ Pending(h.todo, k)

(* The key that repeats is held, or its release is still being arbitrated, *)
(* until the emergency exit, after which no repeat is dispatched.          *)
HeldRepeats ==
    h.repeat # NoKey /\ h.grab # "released" => h.repeat \in held \/ ReleasePending(h.repeat)

(* The arbiter discards a completed chord, and what its full buffer has no *)
(* room for.                                                               *)
Swallows ==
    /\ Buffering(h) /\ h'.todo = <<>>
    /\ h'.buffer = <<>> \/ (Len(h.buffer) = MaxBuffered /\ h'.buffer = h.buffer)

(* No repeat starts without a key that is held, and none outlives its key, *)
(* through pauses, rebuilt grabs and replayed chords, but when the arbiter *)
(* swallows the release: then it goes on with no key held.                 *)
RepeatIsHeld == [][HeldRepeats /\ ~Swallows => HeldRepeats']_vars

(* While the grab is alive, a key taken while the engine was not ready     *)
(* neither repeats nor reaches the application.                            *)
NotReadyIsQuiet ==
    h.grab = "ready" =>
        \A k \in Key : h.track[k] = "ENGINE_NOT_READY" => k # h.repeat /\ k \notin h.down

(* The application believes down only what the user holds, or what the     *)
(* arbiter is about to release.                                            *)
NoStuckKey == \A k \in h.down : k \in held \/ ReleasePending(k)

=============================================================================

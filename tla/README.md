# A TLA+ model of typiod-wayland

typiod-wayland is a Wayland input-method daemon. It grabs the keyboard of the
text field that is being edited, feeds the keys to an input engine, shows the
engine's composition in the field and its candidates in a popup, and passes
every other key on to the application. This directory holds a model of the
daemon in TLA+, the TLC configurations that check it on small instances, and
proofs, checked by TLAPS, of what holds on every instance.

Paths below are relative to the repository's root (`src/engine/...` is the
daemon's own source directory; in `PROJECT.json` it has one more `src/`).

## Inventory

The daemon runs one event loop on one thread. A watchdog thread, PipeWire's
capture thread and signal handlers are the only other actors inside the
process; the compositor, logind, PipeWire, IPC clients, the file system and the
user act from outside.

| component | state it keeps | operations | hard behaviour | what makes it correct |
|---|---|---|---|---|
| Focus controller (`engine/focus_controller.c`) | none (pure) | `reduce`, `diff`, `classify_done`, guard predicates | coalesced, split and contradictory facts | edges are neither lost nor doubled; converging is idempotent |
| Focus effects (`wayland/focus_effects.c`) | none | `observe`, `hard_reset`, `apply` | order of eight effects, each of which may fail or stop the daemon | focus, composition, grab and display stay together |
| Event loop (`wayland/event_loop.c`) | `focus_facts`, `focus_prev_desired`, `running` | prepare, poll, dispatch, handlers, pipeline, flush, recover | early `continue`s, events dispatched outside the tick, signals | no fact is dropped, a stop ends the loop, no busy loop |
| Input-method session (`wayland/input_method.c`) | pending and current text state, last preedit, serial | the seven protocol events, composition and commit callbacks, deferred flush | batches, serial of a commit, stale UI | the display is the engine's composition |
| Keyboard grab (`wayland/keyboard/keyboard.c`, `xkb.c`) | the grab object, xkb state, reject streak | create, destroy, pause, release, keymap, key, modifiers | keys queued across a grab's end, guard fail-safe | no key reaches the engine outside a ready, focused grab |
| Virtual-keyboard bridge (`wayland/keyboard/bridge.c`) | state, keymap generation, deadline | expect, cancel, is_ready, health check, forward, fail-safe | readiness of an older generation, deadline races | READY means a keymap of this grab; waiting is bounded |
| Frontend lifecycle (`wayland/frontend*.c`) | everything Wayland | new, run, stop, reconnect, destroy | connection lost with a composition in flight, stop during reconnect | preserved state fits the rebuilt objects |
| Reconnect backoff (`engine/backoff.c`) | none | delay, should_retry | overflow of the shift | delays grow and are capped |
| Key router, arbiter, repeat, tracker (`wayland/keyboard/`, `engine/boundary.c`, `engine/startup.c`, `wayland/candidate_guard.c`) | per-key state and generation, arbiter buffer, repeat timer | press, release, chord arbitration, replay, repeat | focus changes between press and release, full buffer, stale repeat | the application sees balanced presses and releases |
| Resume detection (`engine/logind/resume.c`) | cooldown, gap clock, D-Bus match | tick, match, fire, reconnect | two sources for one resume | each suspend is reported exactly once |
| Watchdog (`wayland/watchdog.c`) | heartbeat, stage, armed, stop (atomics) | heartbeat, stage, arm, thread | second thread reads four atomics separately | only a stuck loop is killed |
| Foreign identity (`wayland/foreign/identity.c`) | toplevels, remembered engines | bind (roundtrip), done, closed, restore, remember | events before the identity is known | an engine is remembered for its own application |
| Panel scheduling and indicator (`wayland/panel_*.c`, `wayland/indicator.c`, `ui/state.c`) | owner of the popup, anchor generations, schedule state, timer | queue, show, hide, probe, flush, retry | stale anchor, retry, cooldown | the popup shows its owner's current content |
| Panel rendering (`ui/panel/`) | geometry, visible, selection, status; Vulkan objects, glyph atlas, font cache | update, show and hide status, refresh, present | frames that fail or are not taken | what is shown is what was last asked for, or is retried |
| UDS server (`ipc/uds_server.c`) | 16 client slots, read and write buffers, topics | accept, read, reply, subscribe, emit | partial sends, descriptor reuse, close while answering | frames are delivered whole and in order |
| IPC bus, TIP protocol (`ipc/ipc_bus.c`, `tip_*.c`) | none of their own | decode, dispatch, publish | | one answer per request |
| State service (`state/service.c`) | none of its own | configuration, engine, language, mode methods | one step of several fails | a failed method changes nothing |
| State controller (`state/controller.c`) | snapshot, listeners | notify_*, sync, add and remove listener | broadcast re-entrancy, order of refresh | a listener never sees half a change |
| Engine loader (`engine_loader.c`) | registered plug-ins | load, unload, reload | failure between unload and load | a failed reload keeps a usable engine |
| Configuration watch (`wayland/runtime_config.c`) | inotify watches, debounce timer | refresh, re-arm, handle, reload | directory replaced, coalescing | the last change is loaded |
| Voice capture (`audio/pw_capture.c`) | `capturing`, sample buffer | start, stop, process, state changed | PipeWire's thread | samples of one capture are not mixed with another's |
| Health, notifications (`notify/`) | rate-limit slots | check, send, coalesce | full table, failed send | a warning is not lost to the limiter |
| Tray (`tray/`) | bus name, icon, menu | register, owner changed, events | watcher restarts | the icon is registered with the current watcher |
| Application, CLI (`app.c`, `cli.c`) | options, flags | wiring, signal handler, callbacks | signal at any instruction | a signal stops the daemon |

The components interact by direct calls on the loop's thread. The exceptions
are what the models are about: the compositor's events are queued and
dispatched in batches; `running` is written by a signal handler; facts are
recorded by listeners and consumed by the tick; effects are decided from a
snapshot and applied by calls that change what the snapshot showed; the
watchdog and PipeWire run on threads of their own.

## Modules

```
FocusController     pure: reduce, diff, classify, guard predicates
   ^ EXTENDS
Frontend            TypioWlFrontend as a record; the C functions that mutate it as operators
   ^ EXTENDS                                       InputFocus   the promise to a text field
FocusSession        the loop, listeners, reconnect, environment --INSTANCE--^
   ^ EXTENDS                       ^ EXTENDS
MCFocusSession (TLC)        FocusSessionProofs (TLAPS) -- EXTENDS --> FrontendProofs

KeyRouter           the life of a key between fingers, engine and application
   ^ EXTENDS                 ^ EXTENDS
MCKeyRouter (TLC)     KeyRouterProofs <-- EXTENDS -- KeyRouterTypingProofs (TLAPS)

StateController     snapshot, icon and badge, tray item, notifications (operators)
   ^ EXTENDS                 ^ EXTENDS
   |                  StateControllerProofs (TLAPS)
   |                         ^ EXTENDS
ControlPlane <-- EXTENDS -- ControlPlaneProofs (TLAPS)
   ^ EXTENDS        bus requests, tray menu, engine loader, configuration, process life
MCControlPlane (TLC)

PanelUi (MCPanelUi; PanelUiProofs)   UdsServer (MCUdsServer; UdsServerProofs)   Identity (MCIdentity)
```

**FocusController** translates `focus_controller.c` function by function:
`GrabWant` and `Reduce` are `typio_wl_focus_reduce`; `Teardown`, `Creation`,
`BrokenRecovery` and `Defocus` are the branches of `typio_wl_focus_diff`, and an
effect set is the set of flags that are true.

**Frontend** is `TypioWlFrontend` with what it owns, as one record. Texts are
abstracted to the field they were typed for, so that "the preedit of the
previous field" can be told from "the preedit of this field". The two
generation counters (`tracker->active_generation`, `vk->keymap_generation`)
are only ever compared for equality, so they are kept as `current`; their wrap
after 2^32 grabs is ignored. `serial` says how `im_serial`, the count of `done`s
received over all connections, relates to the number the present compositor has *sent*:
none was received ("zero"), all were ("exact"), some are under way ("behind"), or the count began
with an earlier connection and is wrong ("off") or right by chance ("chance"). The compositor
takes a commit only if the two numbers are equal (`SerialAccepted`), so a commit that
crosses a `done` is dropped; `shown` is the preedit that is in force there. `VkIsReady` is a query in the C code that
changes state (it promotes READY, and stops the daemon on BROKEN), and is an
operator from frontend to frontend here. A handler composes the operators of the
calls it makes, in the order it makes them: `Apply` is
`typio_wl_focus_effects_apply` line by line.

**FocusSession** is the loop. `pc` is the stage of one iteration:

```
top -> prepare -> build -> poll -> dispatch* -> aux* -> post -> flush -> top
                             \-> top (timeout, EINTR: no pipeline)
prepare/dispatch -> backoff -> binding -> bound -> top      (connection lost)
top/post/backoff -> exit -> dead
```

`wire` is the queue of events the compositor has sent and the client library
has not dispatched. Listeners run where the default queue is dispatched: in
`dispatch`, in `prepare` if the panel's presentation (Vulkan's window-system
code reads the same socket) has left events queued, and in `bound`, inside the
roundtrip of the identity provider. When a grab is destroyed its queued events
are dropped, as libwayland does for destroyed proxies (`Discarded`).
`editing`, `owed` and `sock` are the compositor's side; `power` is logind, the
clock gap and the cooldown the two detectors share; `eintr` is the signal that
interrupts `poll`. The events of a keyboard that was overwritten
without being destroyed count as the current one's.

The environment's actions send only what the protocol allows: a field is left
before another is entered, a batch ends with `done`, a grab gets its keymap
before its keys. What each run lets the environment do is `Traffic`, and which
calls may fail is `Faults`.

**KeyRouter** is what FocusSession leaves out: what becomes of one key after it
reached the grab. `h` is the host (keyboard object, tracker, arbiter, repeat
timer) with the engine and the application at its two ends; `down` is what the
application was told is down. `held`, `direct` and `owed` are the fingers and the
compositor. The C functions are operators from host to host, named after them:
`OnKey` decides between exit, pass-through and the arbiter; `ArbiterPress` and
`ArbiterRelease` between buffering, consuming and replaying; `RoutePress` and
`RouteRelease` between engine, application, voice and nothing. An event the arbiter
lets through is put in `todo` and routed by `RouteNextPress` or `RouteNextRelease`
before anything else happens, which is the loop of `arbiter_replay` cut into its
turns so that each turn has its own answer of the engine. The focus controller is
here only what it does to a keyboard: `EnterField`, `LeaveField`, `LoseGrab`. Keys are classes
of model values; Alt, which the code treats as it treats Super, is not a key of its
own; lock modifiers, times and unicode values do not occur. `RELEASED_PENDING`,
`SUPPRESSED_STARTUP` and `BASIC_PASSTHROUGH` are no states of the model because no
handler leaves a key in them: the first is overwritten by the reset that follows
it, the other two are never assigned.

**InputFocus** is the abstract promise, in three variables and six actions: a
composition lives inside one uninterrupted focus, it is begun and extended only
through a usable grab, and a grab becomes usable only by a confirmation of its
own keymap. `KeepsPromise` states that FocusSession implements it, with
`focused`, "a composition exists" and `GrabSeen` for its variables.

**UdsServer** is `uds_server.c` between the kernel's queues and clients that
connect, ask, stall, half-read and hang up. `slot` is `srv->clients`, a record with
the code's fields each (`wild` is the subscription to everything); `conn` has the two
sockets of each connection and the kernel's queues between them. A byte stream is a sequence of cells, each of
which names its frame and its place in it, so that a lost, doubled or misplaced byte is seen and
no byte is spelled. `EpollWait` takes a batch of ready descriptors, and each of
`DispatchListener` and `DispatchClient` acts on what the batch said,
also when an earlier entry of the same batch closed or reused the descriptor. The loops are
cut into their turns, `Accept` for one connection and `ParseFrame` for one frame, between which clients go
on and the process may be killed. When a client is closed while its own request is
answered, the turn of the parser ends with a move of minus four bytes: the process
is gone (`Die`). The request handler is outside this file and is taken to answer at once, to
subscribe its client or to change state that is announced to all (`Emit`). A subscription to more than 16
topics would be cut off (`uds_server.c:506`); the protocol has six. Three fields of a
connection are not the code's: `owed` is what the protocol has promised the client and the client has not read,
`answered` counts the replies it has read whole, and `asked` is its own record of its topics.

**StateController** and **ControlPlane** are everything that changes engines,
languages and configuration from outside the keyboard. StateController has the
controller's snapshot, the tray item and the last notification of each topic as
fields of one record `w`, and a C function is an operator from `w` to `w`; a
broadcast calls the bus's listener and the tray's callback in the order of the
list. ControlPlane has the callers: `Request` is one request on the bus, dispatched
to the operator of its method; `MenuClick` and `IconClick` the tray;
`EngineMode`, `EngineIcon` the engines' reports; `HandleConfigWatch` and
`DispatchConfigReload` the inotify watch and its debounce timer; `Start`,
`RunWayland`, `Leave`, `Finish` the life of the process, with the order in which
`typio_app_shutdown` frees what refers to each other, and an `execv` that may fail (`Exits`). A save may fail
and no caller looks: `conf.unsaved` remembers it until memory and file are the same again. A handler that can fail is an
operator from `w` to a *set* of outcomes. `LoadDirs` says what loading directory
after directory into an empty registry leaves, in place of the loop: every
acceptable name once, those of an earlier directory first. libtypio's registry (which engine
serves which language, what cycling chooses, what is saved) and the tray host
are external, modelled from how `src/` uses them.

**PanelUi** is the popup: `panel_coordinator.c` (owner, queue of one, anchor),
`indicator.c`, `panel_scheduler.c` and the state of `panel.c`. `woken` is the part of
the loop that matters to it: the flush at the end of an iteration is
reached only when `poll` returned for a descriptor. A geometry is the picture it
depicts; `screen` is what the compositor shows. It assumes that the panel exists and
that events come by the iteration's own dispatch (those that `prepare` dispatches
early are in FocusSession); the probe's commit is in Frontend. Three things may go wrong on the way to
the screen: a frame fails; the compositor releases no image (`stalled`) and the frame is to be done
again; or the surface is lost (`LoseSurface`), which only a frame finds out, and which it repairs before drawing
or, found at its presentation, by asking for another. The indicator's timer may be missing from the
start, since nobody looks at what its creation returns. An error of the voice session is a status like its
states (`VoiceEvent`), except that no change of state goes with it.

**Identity** is the toplevel list and the engine remembered per application. The
listener of a handle is added with the provider as its data, and the model does with
each callback what that pointer makes of it; therefore only a violation run uses
it.

## What the runs check

Five modules are instantiated for TLC by the passing runs. In `MCFocusSession`, `MaxAttempts` is 1 (two turns of the
retry loop: one bind that fails and the give-up, or one that succeeds),
`GuardThreshold` is 2 instead of 8 (a streak below, at and reset from the
limit), `WireCap` is 2 to 4: three events hold the longest batch
(deactivate, activate, done), four hold two consecutive batches, which is what it
takes to overwrite one batch with another. Two fields are enough to tell "this
field" from "another one". These are bounds on the environment, not on the
program, whose state is finite.

| run | states | shows |
|---|---|---|
| `faults` | 2.30 M | failing session, grab, dup, xkb, virtual-keyboard and panel calls, reads that end inside a batch, signals, and a compositor that dies at any point: `TypeOK`, `FocusMatchesWant`, `KeymapWaitIsBounded`, `DisplayFollowsFocus`, `SoftPauseKeepsGrab`, `KeepsPromise` |
| `suspend` | 763 k | resume at any point, engine switches, early dispatch: `NoGrabUnwanted`, `NoStaleReady`, `ComposeOnlyFocused` |
| `settle` | 10 k | liveness over batched moves and re-enables, and no other traffic: `FocusConverges`, `BlurConverges`, `KeymapWaitEnds` |
| `keys` | 4.18 M | two Ctrl keys, Shift and a plain, reserved key; all traffic but a change of the engine's availability: `TypeOK`, `NoPhantomModifier`, `UndecidedIsHeld`, `TrackedIsDown`, `EngineReleaseMatches`, `RepeatIsHeld` |
| `typing` | 556 k | three modifiers and a key that is Return, push-to-talk and exit key at once, without the traffic under which the code loses a release (below): `NoStuckKey`, `NotReadyIsQuiet` |
| `ipc` | 4.07 M | three clients and two slots, requests that subscribe or change what is announced, a notification of the daemon's own, full buffers, failing start and epoll, a kill: `TypeOK`, `StreamIsPromised`, `AnsweredInOrder`, `SlotsMatch` |
| `control` | 1.11 M | two operations of any kind between start and restart, saves and an exec that fail: `TypeOK`, `SnapshotIsRegistry`, `SubscribersKnow`, `TrayShowsState`, `BadgeIsOfLanguage`, `HostIsCurrent`, `NotifiedAreAlive`, `ConfigIsCurrent`, `RefusedChangesNothing`, `RestartIsCarriedOut` |
| `desk` | 431 k | every event that touches the popup, lost surfaces, failing and stalled frames, a missing timer: `TypeOK`, `PanelIsOwned`, `IndicatorIsTimed`, `VoiceStatusEnds`, `PendingResolves`, `RetryEnds` |

In `MCKeyRouter` one key stands for each class in `typing`. `keys` has two Ctrl keys, which are
interchangeable (the symmetry `Ctrls`), because a chord of three is what it takes for a
release to be consumed while its key repeats. `MaxBuffered` is 3 in `keys` and 5 in `typing` instead
of 8. With 3 the last slot that a press may take
and the one that only a release takes are told apart, and the buffer fills in one chord;
5 holds a press of both chord keys and a release of each of the three modifiers, which is
what `NoStuckKey` is proved to need. In `keys` the plain key is the exit key too, so that
the emergency exit comes at every point of a chord; after it `TrackedIsDown` and
`HeldRepeats` say nothing until the keyboard is destroyed, because the loop dispatches
no key in between (`running` is false). `Traffic` says what the
user and the compositor do: press a chord's key again (`tap`), press a modifier over a
plain key (`mixed`), enter a field with a key down (`straddle`), send the grab
the release of a key the application got (`orphan`); and whether the engine may be
unready, the grab be lost, the layout change.

The passing runs of `MCFocusSession` have one field, because none of their properties compares
fields; `composition_leak` has two.

In `ipc` three connections meet two slots, so that one is refused and a slot is
used again: the first client asks twice without waiting for its answer (two requests are
the fewest that have an order), the second once, the third never (it takes a slot and leaves
it). The sockets hold one cell, the read buffer two and the write buffer three against frames
of one and two, so that frames arrive and leave in pieces and overflow. A request that
neither subscribes nor changes anything is not asked: it is answered like a change nobody
subscribed to. In
`MCControlPlane` two operations (`MaxOps`) are what it takes for one to meet what
another left; the catalogue has one engine with an icon of its own, one that serves a
language, a voice engine, a language that is a layout only, and a manifest that asks
for what the host lacks. In `MCPanelUi` the state is finite without a bound;
a composition goes on with a list or without, so that one list, one label, one voice state and
one error are enough to tell owner from owner and what is drawn from what was asked for; `panel_wait` has two lists.

Deadlock is checked where the system never rests: in the runs of `MCFocusSession`,
`MCKeyRouter` and `MCPanelUi` something can always step. It is not checked in `ipc` and
`ipc_limit` (all clients may have left a server that waits), `control` (the process
may have ended and its budget of operations be spent) and `identity` (nothing is said
of the process once it wrote out of place).

**Fairness.** `FairSpec` of FocusSession asks that the loop leaves every place
but poll, which includes that a read ends, and poll itself when something wakes it (`Leaves`,
`Woken`); that queued events are dispatched (`SF` on `Dispatch`, which alternates with
the end of the read); and that a deadline passes. It asks nothing of the
compositor, the user, clients of the daemon or the power button: `PollOther`,
`EngineChanges`, `Sleep`, `Signal` and every compositor action may never happen.
ControlPlane's `Fair` asks that the loop tests its flag after a wait and that the exit
path, which waits for nothing, comes to its end. UdsServer's `Fair` asks that
the server dispatches what is ready; `PatientSpec` adds a client that
goes on sending and reading, which `LegalIsAnswered` presupposes. PanelUi's `Fair`
asks that an iteration that was woken ends and that time passes;
`PendingResolves` adds, in its own hypothesis, that the loop goes on being woken, as does `RetryEnds`,
and `PendingResolvesAlone` shows that it has to, even if the indicator's timer fires (`TimedSpec`). Where liveness is proved, fairness
is written without ENABLED: in ControlPlane as what `WF_vars` stands for, `[]<>~ENABLED <<A>>_vars \/ []<><<A>>_vars`,
with ENABLED replaced by the condition it comes to; in PanelUi, where the action itself ends that
condition, as `[]<>` of its negation; for the loop of FocusSession as the places it leaves again and
again. TLC found the first two equal to their `WF_vars` on the states of `control` and of `desk` (without failing frames), and FocusSession's
implied by `WF_vars(Loop)`, `SF_vars(DispatchEnds)` and `WF_vars(DeadlinePasses)` on `settle`.

### Where the code and its words differ

Each of these runs checks one property that a comment or a document of the
repository states, and TLC finds a behaviour of the code that violates it. The
quotations are in `PROJECT.json`.

| run | property | what happens |
|---|---|---|
| `composition_leak` | `CompositionStaysInField` | two batches of one read (leave A, enter B) look like a re-enable: A's composition goes on in B |
| `identity` | `TracksToplevels` | binding the toplevel list and hearing of one title, identifier or app_id frees a pointer that is not one |
| `ipc_limit` | `LegalIsAnswered` | a frame below the documented 1 MiB but above the 8 KiB read buffer is taken for the end of the stream |
| `panel_wait` | `PendingResolvesAlone` | an iteration whose poll times out skips the flush: a popup past its deadline waits for another descriptor, and poll returns at once meanwhile |

The passing runs leave out what is known to break their properties: `settle` has no
`update` and no `resume`, `typing` has no `tap`, `mixed` or `straddle`, and no passing run asks `BlurConverges` of split reads,
where a deactivate and its `done` are read in two ticks, the first of which clears
the fact before the second commits it. So `FocusConverges` and `BlurConverges` say nothing of an activate that is
followed by a plain `done`, of a resume, or of a read that ends inside a batch.

Where a property can name the case in which the code fails, it does so instead of leaving
the case out of its run: `DisplayFollowsFocus` a clear that is refused, `SoftPauseKeepsGrab` a BROKEN grab,
`RepeatIsHeld` a release that is swallowed, `IndicatorIsTimed` a missing timer, `VoiceStatusEnds`
an error, `RetryEnds` a loop that nothing wakes, `TrayShowsState` the status of a language that has no
engine, `ConfigIsCurrent` a setting that was not saved, `RestartIsCarriedOut` a failing `execv`. Each
exception is one of the disagreements below.

Further disagreements, met while modelling, are not kept as runs. Those that name a
property were reproduced by TLC with one more element of `Traffic`; the others
follow from the lines they quote or, where a module maps them, from its comments.
In the focus and key path:

- a resume drops the grab, and nothing takes it back before the next activate
  (`FocusConverges` with `"resume"`; `input-method-session.md:255-259`;
  `focus_controller.c:91`);
- commits on the new connection carry the old connection's serial
  (`internal.h:266-269`; `frontend.c:341`);
- recovering from BROKEN asks `is_ready`, which stops the daemon
  (`focus_controller.c:147`; `focus_effects.c:158`);
- four taps of Shift under a held Ctrl fill the arbiter's buffer, Ctrl's release is
  dropped, and Ctrl stays down in the application (`NoStuckKey` with `"tap"` and a
  buffer of 8; `arbiter.c:12`, `36`);
- a key passed through during a pause is released in the next field, where its
  release counts as an orphan and is consumed (`"straddle"`; `startup.h:8-9`;
  `router.c:650`);
- the key of a shortcut, released inside a chord that completes, is not released
  in the application, and its next press is swallowed (`"mixed"`;
  `arbiter.c:69-70`, `90`);
- a key that repeats and whose release is consumed with a completed chord is released in
  the application, but its repeat goes on with no key held (`arbiter.c:61-90`; `Swallows` in `RepeatIsHeld`: TLC finds
  `HeldRepeats` violated as an invariant of `keys`);
- a commit that crosses a `done` is dropped, and what it carried is not sent again: the clear of a
  defocus leaves the preedit in force in the field that was left, until the next activate
  (`input_method.c:295-316`; `focus_effects.c:229`; TLC finds `ShownOnlyFocused` violated with split reads and no
  other traffic), and a preedit counts as sent (`last_preedit_text`) that never was;
- an activate batch followed by a plain `done` in one read is overwritten, and the
  field is never focused (`input_method.c:439-441`, `428`);
- SIGTERM during the bind of a reconnect is overwritten by `running = true`
  (`frontend.c:378`, `392`);
- the release of a forwarded key may be taken by the candidate guard, and the key
  sticks (`input-method-session.md:300-301`; `router.c:744`);
- recording never stops when the field is left while the push-to-talk key is down,
  and a repeat of that key (bound without a modifier) reaches the engine or the application and loses the
  stop (`input-method-session.md:304-305`; `router.c:594`, `repeat.c:230`);
- application shortcuts are offered to the engine before they bypass it
  (`input-method-session.md:302`; `router.c:462`), and a re-sent press of a held
  key is not dropped but claims the new generation (`:213-219`; `router.c:366`);
- a re-enable keeps the composition and blanks the client's preedit
  (`focus-controller.md:84-87`; `panel_coordinator.c:120`);
- a signal between the loop's test of `running` and `poll` is slept through
  (`wayland/frontend.h:50-56`; `event_loop.c:442`, `476`);
- BROKEN under a soft pause keeps the grab, as `SoftPauseKeepsGrab` leaves open
  (`focus-controller.md:120`; `focus_controller.c:148`);
- a resume recorded before a poll that times out or is interrupted is dropped
  (`frontend.c:120-122`; `event_loop.c:492`);
- the desired state survives the loss of the connection
  (`input-method-session.md:260-263`; `event_loop.c:458`), and an activate
  dispatched in the bind's roundtrip is cleared by the next tick;
- without a virtual keyboard `observe` says ABSENT and each tick creates another
  keyboard over the last (`focus-controller.md:19`; `focus_effects.c:119`);
- a grab that could not be created leaves an expired deadline that nothing
  clears, and `poll` returns at once for ever (`event_loop.c:305-309`, `339`);
- the watchdog counts from a heartbeat that `poll` does not refresh, so a work stage
  entered straight from a long poll may be killed after the next two equal samples
  and not after three seconds of it (`watchdog.c:126-141`; `event_loop.c:354`, `391`);
- the watchdog stays armed through a soft pause (`watchdog.md:50-54`;
  `keyboard.c:275`), and an activate without an engine does not focus the context
  (`focus_controller.h:58-61`; `focus_controller.c:86`);
- a composition does not survive a soft pause (`input-method-session.md:79`),
  the reduction runs after the auxiliary handlers (`focus-controller.md:60-65`),
  and NEEDS_KEYMAP does not become BROKEN on timeout: the daemon stops
  (`focus-controller.md:107`).

On the control bus and the tray:

- after A, B, A the icon A reported before is shown again
  (`state/controller.c:66-70`: "Stale across engine changes, so gated on
  !engine_changed"), and the mode of the engine before stays in the snapshot after a
  switch;
- a language without a keyboard engine leaves the tray Passive when it is chosen while no engine
  is active, since a change of language alone does not renew the status (`tray/bus.c:448-451`;
  `435-438`: a layout-only language counts as active), or when the change of engine
  precedes the refresh of the language; TLC finds the tray item Passive under such a language in four
  steps. At start such a language has no badge (`Sync`);
- a setting or a choice of engine whose save fails is answered as done, and is lost at the next reload
  (`service.c:255`, `287`, `583`, `693` ignore what `typio_instance_save_config` returns; TLC reaches the loss
  in five states);
- a restart is lost if `execv` fails, which searches no PATH for `argv[0]`: the process ends with code 1
  (`app.c:830-832`);
- `engine.reload` does not look into `--engine-dir` (`service.c:823-825`;
  `ipc-protocol.md:109`: "rescans the configured engine_dirs");
- a menu click acts on the list as it is, not as the host showed it
  (`sni.c:502-567`); a badge that cannot be drawn leaves the old one
  (`sni.c:774-777`); a registration that fails, or a watcher that is replaced
  without a change of owner, is not tried again;
- a signal before the frontend exists is lost (`app.c:65-75`); cycling is not saved
  while choosing is; a save overwrites the user's edit that is not loaded yet; an edit
  between the instance's start and the watch's is missed; a directory made anew
  after the watch was re-armed in vain is never watched (`runtime_config.c:100-135`);
- `language.changed` carries the voice engine of before; `config.unset` does not tell
  the engine, and `config.reload` on the bus does not refresh the frontend;
- a client that closes between `epoll_wait` and the answer to it ends the daemon (the
  parser goes on with a length of zero, `uds_server.c:256`); a hang-up is acted on
  before the requests sent before it are read; a second daemon takes the path from
  the first; a start that fails closes descriptor 0.

On the popup:

- after a frame that was not taken, the geometry counts as drawn, and the retry
  with the same selection returns without drawing: the list before it stays on the screen
  (`panel.c:194-197`; `panel.c:258-262`: "the frontend keeps the update pending and re-presents
  the newest candidate state once presentation resumes");
- an indicator that fails or must retry has taken the candidate list down and is
  not tried again; with no other event a waiting indicator is taken down by its own
  timer without having been shown;
- an indicator is shown at its deadline without a caret, which ADR-0017 has dropped
  "rather than shown at a stale location";
- a rescaling draws the candidates under whatever owner the popup has; a queued or
  kept label is shown after its mode has changed; a switch of engine hides the list and
  keeps the snapshot; the anchor stays ready across a reconnect; an activation cancels a
  scheduled update, so the list of a composition that ended may stay; without its timer
  (`frontend.c:308` ignores the failure) an indicator never ends;
- an error of the voice session, which no change of state follows, is a status that nothing takes down but
  what is shown next (`frontend.c:196-200`);
- after the voice session ended while the list was shown with its status, a rescaling draws the
  status once more, since `panel->status_text` is kept, until the end of the iteration;
- a frame that finds its surface lost at the presentation is to be retried (`surface.c:512-516`), but the
  poll that waits 16 ms for that only times out, and the retry waits for whatever wakes the loop next.

## What is proved

Eight modules hold theorems, for every value of the constants that the modules'
named assumptions allow: any keys, fields, lists, engines and manifests, any bounds,
any subset of the faults and of the traffic. Each component has one inductive
invariant, from which its safety theorems follow; TLC checked each invariant on the
component's run before it was proved. In `PROJECT.json`, "theorems" pairs each
theorem with the property of the run that it states.

| module | theorems |
|---|---|
| `FocusSessionProofs` (with `FrontendProofs`) | `TypeCorrect`, `FocusCorrect`, `CompositionCorrect`, `DisplayCorrect`, `ReadinessCorrect`, `DeadlineCorrect`, `GrabCorrect`, `SoftPauseCorrect`, `QueueFollowsGrab`, `Refinement`; liveness: `KeymapWaitsEnd` |
| `KeyRouterProofs` | `TypeCorrect`, `NoModifierIsPhantom`, `NoChordIsForgotten`, `NoReleaseTooMany`, `ReleasesMatchPresses`, `RepeatsEndWithTheirKey` |
| `KeyRouterTypingProofs` | `NoKeyIsStuck`, `OnlyHeldKeysRepeat`, `UnreadyKeysStayQuiet`, all three under `Ordinary` |
| `PanelUiProofs` | `TypeCorrect`, `PopupHasOwner`, `IndicatorHasTimer`, `VoiceStatusIsTakenDown`; liveness: `PendingIsResolved`, `RetriesEnd` |
| `UdsServerProofs` | `TypeCorrect`, `EveryClientOneSlot`, `StreamsCarryPromises`, `AnswersFollowRequests` for replies that fit |
| `ControlPlaneProofs` (with `StateControllerProofs`) | `TypeCorrect`, `SnapshotStaysTrue`, `SubscribersStayInformed`, `TrayStaysTrue`, `BadgeFollowsLanguage`, `HostStaysCurrent`, `NoDeadListener`, `FileIsInUse`, `RefusalsAreVoid`; liveness: `RestartsAreCarriedOut` |

### The focus path

Assumed: `NoField` is not a field, the threshold is positive, the bounds are
naturals, faults and traffic are of the named kinds.

*Types.* `TypeOK` is not inductive: `BindFails` adds one to `attempt` and has
forgotten that the limit was tested when the bind began. `AttemptLeft` remembers
it.

*Safety.* None of the state properties is inductive alone, and each needs
something the others say:

- `Sound(fe)` gathers what is true of the frontend by itself: a composition only in a
  focused context; no preedit in force before the first `done`; READY only with a current keymap; waiting only
  under a deadline; and the virtual keyboard's state saying whether the object exists (otherwise
  `observe` could report ABSENT for a grab that lives).
- `SessionBacksFocus`: whoever is, or is about to be, wanted has a session.
  Without it `apply` would skip `focus_in` while `prev` records YES, which breaks
  `FocusMatchesWant`. It ranges over the facts because an activate recorded now is
  reduced only later in the tick.
- `NoGrabWhileDown`: between losing and rebuilding a connection no keyboard
  exists, so that a new virtual keyboard in state NEEDS_KEYMAP, which has no
  deadline, does not meet a live grab.

`Inductive` is their conjunction with `TypeOK`, `AttemptLeft`,
`FocusMatchesWant` and `NoGrabUnwanted`. The steps go through facts about the
operators: `ApplyFacts` says what an effect set does to focus, composition,
display and grab, for any set that does not both focus and defocus;
`PipelineExclusive` says the controller never asks for that; `KeyHandled` says
what any number of listeners may do to a frontend and is shared by keys, the
health check and the loop's own steps.

*Display.* `DisplayCorrect` is about a step: one after which a preedit is in force outside its field. Only a
defocus can be that step, since a preedit is sent from a focused context and to its own field; and the defocus sends a clear, which
is dropped only if the count is off or behind. That a count that is behind has its `done` in the wire
(`BehindIsUnderWay`) is the invariant this needs: no step takes a `done` from the wire but the one that counts it.

*Refinement.* `Refinement` shows that every step of the loop, the listeners, the
reconnect and the environment is a step of `InputFocus` or a stutter under the mapping
of `KeepsPromise`. `Promised(f, g)` is the abstract step as a relation between two frontends
(`PromisedIsStep` connects the two), so that each handler can be looked at by itself.
Two facts were missing for it. A key can extend a composition only through a live
grab, so a queued key must find the grab it was sent to: `NoEventOfDeadGrab`, proved
invariant as `QueueFollowsGrab`, where the steps that drop or rebuild a grab have to
discard its queue. And one listener may not both change the composition and
bring the grab down, since the abstraction has no such step: a conjunct of `KeyHandled`.

*Soft pause.* `SoftPauseCorrect` is about a tick: `diff` from any previous desired state to
SOFT_PAUSE contains no effect that destroys a grab, and no effect that could fail
in a way that does.

*Liveness.* `KeymapWaitsEnd` follows an overdue grab once round the loop. `OverdueStep` says that a step
which does not end the wait leaves it overdue and takes the loop from its place to the next
(`Turn`), never back: no listener, tick or signal rearms the deadline of a grab that still waits.
So poll, which the deadline itself wakes, is left for the dispatch, and the health
check after it releases the grab; or the loop has been stopped, and destroys the frontend. It needs
`EndsAreFinal`: a poll that a signal interrupts starts no further iteration.

### The key path

Assumed: the classes of keys are disjoint where the code's masks are, `NoKey` is not a
key, at least one event can be buffered.

`IInv` of `KeyRouterProofs` says, key by key (`Balanced`), what the tracker, `down` and the
context agree on; that an unfocused field or a grab that waits for its keymap has a
blank keyboard (`Steady`); that a withheld chord has a physical modifier of it and no other
(`Undecided`); that a key which the compositor gave to the application (`direct`) is unknown
to tracker, repeat and queues; and that `physical_modifiers` counts fingers that
went through the grab, not all fingers (`Physical`: without `\ direct` it is not inductive,
since a direct key is released behind the router's back). A press or release is
followed through the C functions in lemmas named after them, each of which says
what the call does to its own key and that it leaves every other one alone
(`Near`), and the replay of the arbiter one event at a time.

`RepeatsEndWithTheirKey` is an action property: `HeldRepeats` itself is not invariant, and the steps that may break it
are those of the arbiter that drop events (`Swallows`).

The three theorems of `KeyRouterTypingProofs` (`OnlyHeldKeysRepeat` is `HeldRepeats` without that exception) do not hold of all traffic (see the
disagreements below), so they carry a hypothesis. `Ordinary` says: a field is entered
with no key down in the application, no release comes for a key the application got,
no key is struck twice within a chord, no modifier goes down over a plain key, no key is
reserved for candidates; there are finitely many modifiers, and the buffer has room for
a press of each Ctrl and Shift key and a release of each modifier. The engine, the grab
and the layout may come and go. The run `typing` satisfies it. The code's buffer has eight
places (`arbiter.h:22`), which is enough for two Ctrl and two Shift keys, or for one of
each with four other modifiers; with all eight modifier keys of a keyboard it is not,
and a release may be dropped. The argument (`Live`) is a promise for each key
that is down in the application: it is held, or its release is on its way through
the buffer or the replay; that the release is not dropped comes from counting the
buffered events (`Distinct`: each key's press and release at most once) against its capacity.

### The popup

Assumed: the texts of labels, voice states and errors are different, and none of them is
"nothing". `IInv` says that panel and screen agree (`Drawn`), that what is visible has an
owner, a focused context if it is the candidate list and an armed timer, if the process could make one, if it
is the indicator (`Owned`), and that of an idle voice session the popup shows no state as its status, and none has the
place in the queue (`Silent`, which needs that no such text is left to be drawn again, `Mute`). A frame may be taken, refused or fail at each drawing, so each
drawing operator is shown to keep `Good` for all its outcomes.

*Liveness.* `Timely` (who waits for a caret waits for one of a generation that exists, and only a focused
context has an update to come) joins the invariant. With it, `PendingIsResolved` is a chain of two states, young and old: time makes
the young old, the next iteration takes the old away, and no step in between makes it young again
(`Ages`: asking again for a popup that waits keeps its deadline, which every handler is
shown to respect in a lemma `...Lasts`). `RetriesEnd` needs that a woken iteration, which stays woken until its flush
(`WokenUntilFlush`), leaves an update to come only if the compositor stalls or the surface is lost anew; that the loop is woken is
the property's hypothesis. The temporal step
is propositional, since fairness names no ENABLED.

### The control plane

Assumed: the engine directories are a sequence of directories (and the directories a reload looks
into as well), names are finitely many and cover the manifests, `Language` lists its languages, among which is not
`None`, and an
edit of the file leaves settings or garbage.

`IInv` has three phases. `Served`: the loop runs, the controller's snapshot, the tray item, the subscribers'
last notifications and the host's menu agree with the registry (`Agree`, `MenuIs`). `Starting`: the
registry is filled and nobody has been told. `Over`: on the way out or gone, where only types and the
lifetimes of listeners are kept. The agreement is broken inside a switch (`Halfway`: the
registry has changed, the controller has not been told) and is proved restored by the notification, whatever
was displayed before: `StateControllerProofs` goes from the tray's primitives up to each
`notify_*`, and each lemma names the parts of `w` that a call changes. `HostKnows` is
the part that is easy to get wrong: what a host shows is the item, *or the signal about
the part that differs has been sent and not yet been read*; it has to survive a host that
appears, a watcher that restarts and a menu click. `RefusalsAreVoid` is the action property: a reply that
refuses leaves everything else as it was.

*Liveness.* `Goes` says how the process may go on in one step: it is steered while it runs (an
order to restart comes with the order to stop and is never taken back), starts without
orders, keeps them on the way out, and ends as they say. Every lemma about a handler therefore also says
what becomes of `app`. `OrdersStopTheLoop` is the invariant that follows; `RestartsAreCarriedOut` goes
from an order over the way out to the `execv` or to its failure, by the fairness of `Leave` and of `Finish`.

### The socket server

Assumed: buffers, queue and slot table hold at least one, sizes are naturals, requests
are of the three kinds. Connections, topics, requests and all sizes are arbitrary, and so are the
faults.

`Good` pairs slots and connections (`Linked`): a slot is free or has exactly one open connection, and a
connection is open in exactly one slot, waits for accept (`Queued`), has ended (`Ended`)
or was never made. Two facts carry it through accept: there is one descriptor more than there are slots, so
that a fresh one exists (`FreeFd`, by the pigeonhole), and a descriptor in no slot is no
connection's. `MovesGood` is then the argument for every later step: whatever the server
does, each pair goes on as it was or both its halves are let go (`Successor`), and no pair is made.

`Served` is the invariant of one pair. `StreamIsPromised` is nearly inductive: what is owed is
what the kernel has followed by what the slot has yet to send. It needs `KnowsTopics`, that
the slot's subscription is what the client asked for, or a notification would be
sent and not owed; and a closed slot must keep what the kernel has a prefix of what is owed
(`GoneIsLeft`). `AnsweredInOrder` alone is not inductive: that the
next request in the buffer bears the next number follows only if the buffer, the kernel's queue and what the
client has yet to write form *whole frames* together, each cell in its place (`Whole`), however they are cut; and
the `h` of the property, the last request taken, must be the same one for answers and
requests (`Answering`, `Asking`). The lemmas before it are about such queues: what ends where
when a frame is appended (`EndsOfJoin`, `WholeJoin`), or when a front is dropped
(`EndsOfDrop`, `WholeDrop`), and what this does to numbering (`NumberedJoin`, `NumberedDropOne`).
`Line` is the listen queue: a connection waits in it once, and those in it are those that wait.

`AnswersFollowRequests` has a hypothesis, `ReplySize \subseteq 0..MaxFrame`: `client_send_frame` drops
a longer frame and the request it answers has been taken (`uds_server.c:187`), so
with longer replies the property is false. The other three theorems need no such hypothesis.

### Only model-checked

- `FocusConverges` and `BlurConverges`: they need the fairness of `Dispatch`, a disjunction whose
  ENABLED the provers do not reach, and an induction on the length of the wire.

## What is not modelled, and the plan

`PROJECT.json` lists every component with its status and every hazard met in
the code; those without a property say why. What is left, in order of importance:

1. **ResumeSignal**, **Watchdog** and **PwCapture**: two detectors and one
   cooldown; two threads and four atomics; PipeWire's thread and one flag.
2. Notifications and backoff, as pure operators.

Out of scope: drawing, layout and font handling (a layout is plain data of the CPU
and looks glyph slots up when a frame is drawn, so an eviction between two frames
harms nothing), JSON and D-Bus marshalling, command-line parsing, logging and
tracing, and the voice session itself, which is libtypio's. Within the modelled part these are left out: surrounding text and content type,
the preedit's text, voice results committed by a callback, the modifier masks
forwarded or carried to the virtual keyboard, what a key reserved for the
candidates selects, and the mode remembered for an application. FocusSession,
KeyRouter and PanelUi are not composed: what a key does to the grab is in the first,
what becomes of the key in the second, what becomes of the popup in the third; each
takes the others' effects as events that may come at any time.

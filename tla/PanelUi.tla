------------------------------- MODULE PanelUi -------------------------------
(***************************************************************************)
(* The one popup of the input method and who owns it: candidate lists,     *)
(* mode indicators and the voice status compete for it, wait for a caret   *)
(* to be placed at, and are drawn by a compositor that may not take frames *)
(* for a while.  A handler is an operator from the record w of the state   *)
(* to the set of its outcomes.                                             *)
(***************************************************************************)
EXTENDS Naturals

CONSTANTS
    List,       \* what a candidate list may hold
    Selected,   \* the candidates that may be selected
    Label,      \* labels of modes
    Voice,      \* states of the voice session that have a text
    Error,      \* texts of its errors
    None,
    Events,     \* those of the environment's events that happen
    Failing     \* whether a frame, or the creation of a timer, may fail

ASSUME NamesAssumption ==
    /\ None \notin List \cup Selected \cup Label \cup Voice \cup Error /\ "idle" \notin Voice
    /\ Label \cap (Voice \cup Error) = {} /\ Voice \cap Error = {}

VARIABLES
    focused,    \* the input context is
    snapshot,   \* session->candidate_snapshot: [list, selected], or None when it is empty
    schedule,   \* panel_schedule_state: "idle", "dirty" or "retry"
    owner,      \* ui_owner: "none", "candidate", "indicator" or "voice"
    pending,    \* the positioned popup that waits: [owner, text, due], due when it has for long enough
    anchor,     \* [known, ready, caret]: a generation exists, its anchor is ready, it has a caret
    indicator,  \* [timer, armed, pending]: it has a timer, which runs, and a label kept for the next focus
    panel,      \* [visible, geom, selected, status, lost]: geom is what the geometry depicts,
                \* lost that the swapchain no longer fits the surface
    screen,     \* what the compositor shows, or None
    voice,      \* the voice session: "idle" or one of Voice
    stalled,    \* the compositor takes no frames
    woken       \* a descriptor ended the poll, so the iteration ends in a flush

vars == <<focused, snapshot, schedule, owner, pending, anchor, indicator, panel, screen, voice, stalled, woken>>
Ui == [focused |-> focused, snapshot |-> snapshot, schedule |-> schedule, owner |-> owner, pending |-> pending,
       anchor |-> anchor, indicator |-> indicator, panel |-> panel, screen |-> screen]
Become(ws) ==
    \E w \in ws : /\ focused' = w.focused /\ snapshot' = w.snapshot /\ schedule' = w.schedule
                  /\ owner' = w.owner /\ pending' = w.pending /\ anchor' = w.anchor
                  /\ indicator' = w.indicator /\ panel' = w.panel /\ screen' = w.screen

NoPending == [owner |-> "none", text |-> None, due |-> FALSE]
Spoken == Voice \cup Error
Positioned == {NoPending} \cup [owner : {"indicator"}, text : Label, due : BOOLEAN]
                          \cup [owner : {"voice"}, text : Spoken, due : BOOLEAN]
NewPanel == [visible |-> FALSE, geom |-> None, selected |-> None, status |-> None, lost |-> FALSE]
Aux == Label \cup Spoken \cup {None}
Picture == [list : List \cup {None}, aux : Aux]
Screen == [list : List \cup {None}, aux : Aux, selected : Selected \cup {None}]
Panel == [visible : BOOLEAN, geom : Picture \cup {None}, selected : Selected \cup {None},
          status : Aux, lost : BOOLEAN]
Snapshot == [list : List, selected : Selected] \cup {None}
UiState ==
    [focused : BOOLEAN, snapshot : Snapshot, schedule : {"idle", "dirty", "retry"},
     owner : {"none", "candidate", "indicator", "voice"}, pending : Positioned,
     anchor : [known : BOOLEAN, ready : BOOLEAN, caret : BOOLEAN],
     indicator : [timer : BOOLEAN, armed : BOOLEAN, pending : Label \cup {None}],
     panel : Panel, screen : Screen \cup {None}]

ASSUME NothingAssumption == None \notin Picture \cup Screen

TypeOK ==
    /\ Ui \in UiState /\ voice \in Voice \cup {"idle"} /\ stalled \in BOOLEAN /\ woken \in BOOLEAN
    /\ anchor.ready => anchor.known
    /\ panel.visible => screen # None /\ panel.selected = screen.selected
    /\ ~panel.visible => screen = None /\ panel.selected = None

Init ==
    /\ focused = FALSE /\ snapshot = None /\ schedule = "idle" /\ owner = "none" /\ pending = NoPending
    /\ anchor = [known |-> FALSE, ready |-> FALSE, caret |-> FALSE]
    /\ \E timer \in {TRUE, ~Failing} : indicator = [timer |-> timer, armed |-> FALSE, pending |-> None]
    /\ panel = NewPanel /\ screen = None
    /\ voice = "idle" /\ stalled = FALSE /\ woken = FALSE

(***************************************************************************)
(* The panel: one surface, which shows a list or a text.                   *)
(***************************************************************************)
PanelHideKeepingSelection(w) ==
    IF ~w.panel.visible THEN w ELSE [w EXCEPT !.panel.visible = FALSE, !.panel.geom = None, !.screen = None]
PanelHide(w) ==
    IF ~w.panel.visible THEN w
    ELSE [w EXCEPT !.panel.visible = FALSE, !.panel.selected = None, !.panel.geom = None, !.screen = None]

Ok(w) == [ui |-> w, result |-> "ok"]
Retry(w) == [ui |-> w, result |-> "retry"]
Fail(w) == [ui |-> w, result |-> "fail"]

(* A picture that is already drawn is not drawn again.  Otherwise its      *)
(* geometry replaces the old one before the frame is presented, and stays  *)
(* whatever becomes of the frame.  A compositor that releases no image     *)
(* makes it wait, unless a rebuilt swapchain still has one; a lost surface *)
(* is found out and rebuilt either before the frame, which is then drawn,  *)
(* or when it is presented, which is then to be done again.                *)
PanelRender(w, picture, sel) ==
    IF w.panel.geom = picture /\ w.panel.selected = sel /\ w.panel.visible THEN {Ok(w)}
    ELSE LET laid == [w EXCEPT !.panel.geom = picture]
             rebuilt == [laid EXCEPT !.panel.lost = FALSE]
             shown == [rebuilt EXCEPT !.panel.selected = sel, !.panel.visible = TRUE,
                                      !.screen = [list |-> picture.list, aux |-> picture.aux, selected |-> sel]]
         IN  {Ok(shown)} \cup {Retry(x) : x \in (IF stalled THEN {laid} ELSE {})
                                             \cup (IF w.panel.lost THEN {rebuilt} ELSE {})}
                         \cup {Fail(x) : x \in IF Failing THEN {w, laid, rebuilt} ELSE {}}

(* With no list the status takes its place; with neither the panel hides.  *)
UpdateContent(w, list, sel) ==
    IF list = None /\ w.panel.status = None THEN {Ok(PanelHide(w))}
    ELSE PanelRender(w, [list |-> list, aux |-> IF list = None THEN w.panel.status ELSE None], sel)
PanelUpdate(w) ==
    IF w.snapshot = None THEN UpdateContent(w, None, None)
    ELSE UpdateContent(w, w.snapshot.list, w.snapshot.selected)
PanelShowStatus(w, text) == UpdateContent([w EXCEPT !.panel.status = text], None, None)
PanelHideStatus(w) == PanelHide([w EXCEPT !.panel.status = None])

(***************************************************************************)
(* The coordinator.                                                        *)
(***************************************************************************)
CancelPending(w) == [w EXCEPT !.pending = NoPending]
ResetAnchor(w) == [w EXCEPT !.anchor = [known |-> TRUE, ready |-> FALSE, caret |-> FALSE]]
MarkAnchorReady(w) == [w EXCEPT !.anchor.ready = w.anchor.known]

HideKeepingPending(w, who) ==
    IF w.owner # who THEN w
    ELSE [(IF who = "candidate" THEN PanelHide(w) ELSE PanelHideStatus(w)) EXCEPT !.owner = "none"]
Hide(w, who) == HideKeepingPending(IF w.pending.owner = who THEN CancelPending(w) ELSE w, who)

(* The wait goes on from where it began unless another takes the place.    *)
QueueFromNow(w, who, text) ==
    IF ~w.focused THEN Fail(w)
    ELSE Ok([w EXCEPT !.pending = [owner |-> who, text |-> text, due |-> FALSE]])
QueuePositionedUi(w, who, text) ==
    IF ~w.focused THEN Fail(w)
    ELSE Ok([w EXCEPT !.pending = [owner |-> who, text |-> text, due |-> w.pending.owner = who /\ w.pending.due]])

ShowCandidates(w) ==
    IF w.snapshot = None THEN {Ok(Hide(w, "candidate"))}
    ELSE LET free == CancelPending(w)
             mine == IF w.owner = "candidate" THEN free ELSE PanelHideStatus(free)
         IN  PanelUpdate([mine EXCEPT !.owner = "candidate"])

(* One that waits to be placed counts as shown.                            *)
ShowStatusUnowned(w, who, text) ==
    IF ~w.anchor.ready THEN {QueuePositionedUi(w, who, text)}
    ELSE LET free == CancelPending(w)
         IN  PanelShowStatus(IF w.owner = who THEN free ELSE PanelHide(free), text)
ShowStatus(w, who, text) ==
    {IF r.result = "ok" /\ w.anchor.ready THEN [r EXCEPT !.ui.owner = who] ELSE r : r \in ShowStatusUnowned(w, who, text)}

(***************************************************************************)
(* The indicator of the mode.                                              *)
(***************************************************************************)
ShowIndicatorUntimed(w, text) ==
    {IF r.result = "ok" THEN [r.ui EXCEPT !.indicator.pending = None]
     ELSE [r.ui EXCEPT !.indicator.pending = text] : r \in ShowStatus(w, "indicator", text)}
ShowIndicator(w, text) ==
    {IF r.result = "ok" THEN [r.ui EXCEPT !.indicator.armed = r.ui.indicator.timer, !.indicator.pending = None]
     ELSE [r.ui EXCEPT !.indicator.pending = text] : r \in ShowStatus(w, "indicator", text)}
HideIndicator(w) == [Hide(w, "indicator") EXCEPT !.indicator.armed = FALSE]

(* Without a language and an engine there is no label.                     *)
ShowIndicatorForState(w) == {w} \cup UNION {ShowIndicator(w, l) : l \in Label}

(* A mode without a label shows nothing; a label kept from before goes     *)
(* first; a quiet mode, or recent typing, shows none.                      *)
ShowIndicatorOnFocus(w) ==
    {w} \cup (IF w.indicator.pending # None
              THEN ShowIndicator([w EXCEPT !.indicator.pending = None], w.indicator.pending)
              ELSE ShowIndicatorForState(w))

(***************************************************************************)
(* The events.  Each comes by a descriptor and wakes the loop.             *)
(***************************************************************************)
Happens(event) == event \in Events /\ woken' = TRUE /\ UNCHANGED stalled
Quietly == UNCHANGED voice

(* The composition callback: a list, or its end.                           *)
Composition ==
    /\ Happens("composition") /\ focused /\ Quietly
    /\ \E s \in Snapshot : Become({[Ui EXCEPT !.snapshot = s, !.schedule = "dirty"]})

CancelUiTracking(w) == [w EXCEPT !.schedule = "idle"]
Commit ==
    /\ Happens("commit") /\ focused /\ Quietly
    /\ Become({CancelUiTracking([Hide(Ui, "candidate") EXCEPT !.snapshot = None])})

(* The engine is switched.                                                 *)
OnEngineChange ==
    /\ Happens("engine") /\ Quietly
    /\ Become(ShowIndicatorForState(CancelUiTracking(Hide(Ui, "candidate"))))
OnModeChange == Happens("mode") /\ Quietly /\ Become(ShowIndicatorForState(Ui))

ImActivate == Happens("activate") /\ Quietly /\ Become({CancelUiTracking(HideIndicator(Ui))})

(* The effects of the focus controller, as far as the popup goes.  The     *)
(* engine may or may not report the end of the composition it abandons.    *)
FocusIn ==
    /\ Happens("focus") /\ ~focused /\ Quietly
    /\ Become(ShowIndicatorOnFocus([ResetAnchor(Ui) EXCEPT !.focused = TRUE]))
Reactivate ==
    /\ Happens("activate") /\ focused /\ Quietly /\ Become(ShowIndicatorForState(ResetAnchor(Ui)))
FocusOut ==
    /\ Happens("focus") /\ focused /\ Quietly
    /\ Become({[CancelUiTracking(Hide([Ui EXCEPT !.snapshot = s], "candidate")) EXCEPT !.focused = FALSE] :
                  s \in {None, snapshot}})

(* The voice session changes its state, or reports an error, in any state. *)
VoiceEvent ==
    /\ Happens("voice")
    /\ \/ voice' = "idle" /\ Become({Hide(Ui, "voice")})
       \/ voice' \in Voice /\ Become({r.ui : r \in ShowStatus(Ui, "voice", voice')})
       \/ voice' = voice /\ Become(UNION {{r.ui : r \in ShowStatus(Ui, "voice", e)} : e \in Error})

TextInputRectangle ==
    Happens("caret") /\ Quietly /\ Become({MarkAnchorReady([Ui EXCEPT !.anchor.caret = TRUE])})

(* Another scale: what is visible is drawn anew, whoever owns it.          *)
PanelRefresh(w) == IF w.panel.visible THEN {r.ui : r \in PanelUpdate(w)} ELSE {w}
ScaleChange == Happens("scale") /\ Quietly /\ Become(PanelRefresh([Ui EXCEPT !.panel.geom = None]))

InvalidateConfig == Happens("config") /\ Quietly /\ Become({[Ui EXCEPT !.panel.geom = None]})

(* A lost connection takes the panel with it and brings a new one; nothing *)
(* else is reset.                                                          *)
Reconnect == Happens("reconnect") /\ Quietly /\ Become({[Ui EXCEPT !.panel = NewPanel, !.screen = None]})

(* The surface is lost: only a frame finds it out.                         *)
LoseSurface ==
    "lose" \in Events /\ ~panel.lost /\ UNCHANGED <<voice, stalled, woken>>
    /\ Become({[Ui EXCEPT !.panel.lost = TRUE]})

(* The compositor stops releasing frames, or releases them, which is an    *)
(* event on the socket.                                                    *)
StallOrResume ==
    /\ "stall" \in Events /\ stalled' = ~stalled /\ woken' = (woken \/ stalled) /\ UNCHANGED voice /\ Become({Ui})

(* Any other descriptor of the poll set.                                   *)
OtherWakes == Happens("other") /\ ~woken /\ Quietly /\ Become({Ui})

(***************************************************************************)
(* The event loop.                                                         *)
(***************************************************************************)
Elapse ==
    /\ pending.owner # "none" /\ ~pending.due
    /\ UNCHANGED <<voice, stalled, woken>> /\ Become({[Ui EXCEPT !.pending.due = TRUE]})

IndicatorTimer ==
    /\ indicator.armed /\ woken' = TRUE /\ UNCHANGED <<voice, stalled>> /\ Become({HideIndicator(Ui)})

(* The popup that waits is shown once its anchor is ready.  When it has    *)
(* waited long enough a caret known from before will do, and an indicator  *)
(* needs none; anything else is dropped.                                   *)
ShowPending(w) ==
    LET w2 == CancelPending(w)
    IN  IF w.pending.owner = "indicator" THEN ShowIndicator(w2, w.pending.text)
        ELSE {r.ui : r \in ShowStatus(w2, w.pending.owner, w.pending.text)}
FlushPositioned(w) ==
    IF w.pending.owner = "none" THEN {w}
    ELSE IF w.anchor.ready THEN ShowPending(w)
    ELSE IF ~w.pending.due THEN {w}
    ELSE IF w.anchor.caret \/ w.pending.owner = "indicator"
    THEN ShowPending(MarkAnchorReady(w))
    ELSE {CancelPending(w)}

(* A retry stays scheduled; anything else ends the update.                 *)
Complete(result) == IF result = "retry" THEN "retry" ELSE "idle"
UpdateTextUi(w) ==
    {LET done == [r.ui EXCEPT !.schedule = Complete(r.result)]
     IN  IF r.result = "ok" /\ w.snapshot # None THEN MarkAnchorReady(done) ELSE done :
        r \in ShowCandidates(w)}
FlushScheduledWhenDirty(w) == IF w.schedule = "dirty" /\ w.focused THEN UpdateTextUi(w) ELSE {w}
FlushScheduled(w) == IF w.schedule # "idle" /\ w.focused THEN UpdateTextUi(w) ELSE {w}

(* The end of an iteration.  A poll that only times out, be it for a wait  *)
(* that is over or for a retry, starts the next iteration before it.       *)
FlushPendingPanel ==
    /\ woken /\ woken' = FALSE
    /\ UNCHANGED <<voice, stalled>> /\ Become(UNION {FlushScheduled(w) : w \in FlushPositioned(Ui)})

Next ==
    \/ Composition \/ Commit \/ OnEngineChange \/ OnModeChange \/ VoiceEvent
    \/ ImActivate \/ FocusIn \/ Reactivate \/ FocusOut \/ TextInputRectangle
    \/ ScaleChange \/ InvalidateConfig \/ Reconnect \/ LoseSurface \/ StallOrResume \/ OtherWakes
    \/ Elapse \/ IndicatorTimer \/ FlushPendingPanel

(* An iteration that was woken comes to its end, and time passes; nothing  *)
(* is asked of the descriptors.  FlushPendingPanel alone ends what was     *)
(* woken, and Elapse can always end a wait that is not over: what is asked *)
(* is their weak fairness, without its ENABLED.                            *)
Fair ==
    /\ []<>~woken
    /\ []<>~(pending.owner # "none" /\ ~pending.due)
Spec == Init /\ [][Next]_vars /\ Fair
TimedSpec == Spec /\ WF_vars(IndicatorTimer)

(***************************************************************************)
(* Properties.                                                             *)
(***************************************************************************)
(* Whatever is on the screen has an owner that can take it down, and the   *)
(* candidate list is that of a focused context.                            *)
PanelIsOwned == (panel.visible => owner # "none") /\ (owner = "candidate" => focused)

(* An indicator on the screen is going to be taken down by its timer, if   *)
(* the process could make one: it goes on without (frontend.c ignores what *)
(* typio_wl_frontend_init_indicator returns).                              *)
IndicatorIsTimed == owner = "indicator" /\ panel.visible => indicator.armed \/ ~indicator.timer

(* No state of the voice session outlives it as the voice's status,        *)
(* neither on the screen nor waiting for its place.  An error may: nothing *)
(* takes it down but what is shown next.                                   *)
VoiceStatusEnds ==
    voice = "idle" => /\ owner = "voice" /\ panel.visible => screen.aux \notin Voice
                      /\ pending.owner = "voice" => pending.text \in Error

(* A popup that waits for a caret is shown or dropped as long as the loop  *)
(* goes on being woken, whatever the client sends and however often the    *)
(* popup is asked for again.                                               *)
Waits(who) == pending.owner = who
PendingResolves == []<>woken => \A who \in {"indicator", "voice"} : Waits(who) ~> ~Waits(who)

(* It is so without another event (event_loop.c: "Bound the wait so it     *)
(* resolves on the probe deadline even if no other fd activity arrives").  *)
PendingResolvesAlone == \A who \in {"indicator", "voice"} : Waits(who) ~> ~Waits(who)

(* An update of the list that could not be drawn is finished once frames   *)
(* are taken, unless the surface is lost again before.  It takes a loop    *)
(* that goes on being woken: the poll that waits for the retry only times  *)
(* out.                                                                    *)
RetryEnds ==
    []<>woken => (schedule # "idle" /\ focused ~> schedule = "idle" \/ ~focused \/ stalled \/ panel.lost)
=============================================================================

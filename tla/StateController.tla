--------------------------- MODULE StateController ---------------------------
(***************************************************************************)
(* The state controller, the single snapshot of "what is active", and the  *)
(* two listeners that pass its changes on: the control bus to its          *)
(* subscribers, the tray to the desktop's tray host.                       *)
(* Everything here runs inside one callback of the event loop, broadcasts  *)
(* and listeners included, so each function is an operator on a record w   *)
(* with the fields reg (libtypio's registry), conf, ctl, told, tray, news  *)
(* and app.  Names stand for themselves; an icon is [kind, of].            *)
(***************************************************************************)
EXTENDS Naturals, Sequences

CONSTANTS
    Catalog,     \* engine name -> [kind, icon, speaks], as its manifest says
    Renders      \* the languages whose badge can be rasterised

Name == DOMAIN Catalog
None == "none"
Icon(kind, of) == [kind |-> kind, of |-> of]
NoIcon == Icon("none", None)
On == Icon("generic", "typio-keyboard-symbolic")
Off == Icon("generic", "typio-keyboard-off-symbolic")
NoMode == [of |-> None, icon |-> NoIcon]

Nothing == [engine |-> None, voice |-> None, lang |-> None, icon |-> NoIcon, badge |-> None,
            active |-> FALSE, mode |-> NoMode]
Untold == [engine |-> <<None, None>>, language |-> <<None, None, None>>, status |-> NoMode]
NewTray == [engine |-> None, status |-> "Passive", icon |-> Off, badge |-> None, overlay |-> None,
            tip |-> [lang |-> None, engine |-> None, voice |-> None, mode |-> NoMode],
            registered |-> FALSE]
Signals == {"NewIcon", "NewStatus", "NewOverlayIcon", "NewToolTip", "LayoutUpdated"}

(***************************************************************************)
(* The tray item.  A change is signalled to the host only once the watcher *)
(* knows of the item.                                                      *)
(***************************************************************************)
EmitSignal(w, sig) == IF w.tray.registered THEN [w EXCEPT !.news = @ \cup {sig}] ELSE w

SetStatus(w, status) ==
    IF w.tray.status = status THEN w ELSE EmitSignal([w EXCEPT !.tray.status = status], "NewStatus")

(* A named icon supersedes a badge, also when the name stays the same.     *)
SetIconSignalsOnNewName(w, icon) ==
    LET proposed == IF icon = NoIcon THEN On ELSE icon
        set == [w EXCEPT !.tray.icon = proposed, !.tray.badge = None]
    IN  IF w.tray.icon = proposed THEN set ELSE EmitSignal(set, "NewIcon")
SetIcon(w, icon) ==
    LET proposed == IF icon = NoIcon THEN On ELSE icon
    IN  IF w.tray.icon = proposed /\ w.tray.badge = None THEN w
        ELSE EmitSignal([w EXCEPT !.tray.icon = proposed, !.tray.badge = None], "NewIcon")

(* A badge that cannot be rendered leaves everything as it is.             *)
SetBadge(w, badge) ==
    IF w.tray.badge = badge \/ badge \notin Renders \cup {None} THEN w
    ELSE EmitSignal([w EXCEPT !.tray.badge = badge], "NewIcon")

SetOverlayIcon(w, icon) ==
    IF w.tray.overlay = icon THEN w ELSE EmitSignal([w EXCEPT !.tray.overlay = icon], "NewOverlayIcon")

RefreshTooltip(w) ==
    EmitSignal([w EXCEPT !.tray.tip = [lang |-> w.ctl.lang, engine |-> w.ctl.engine,
                                       voice |-> w.ctl.voice, mode |-> w.ctl.mode]], "NewToolTip")

UpdateEngine(w, engine, active) ==
    SetStatus(EmitSignal(EmitSignal([w EXCEPT !.tray.engine = engine], "LayoutUpdated"), "NewToolTip"),
              IF active THEN "Active" ELSE "Passive")

ApplyIcon(w) == IF w.ctl.badge # None THEN SetBadge(w, w.ctl.badge) ELSE SetIcon(w, w.ctl.icon)
ApplyOverlay(w) ==
    SetOverlayIcon(w, IF w.ctl.voice = None THEN None ELSE "audio-input-microphone-symbolic")

(* All of it, as on a change of engine or icon and at start-up.            *)
UpdateTray(w) ==
    RefreshTooltip(UpdateEngine(ApplyOverlay(ApplyIcon(w)), w.ctl.engine,
                                w.ctl.active \/ w.ctl.lang # None))

TrayCallbackKeepingTooltip(w, change) ==
    CASE change \in {"engine", "voice", "icon"} -> UpdateTray(w)
      [] change = "language" -> ApplyIcon(w)
      [] change = "status"   -> RefreshTooltip(w)
TrayCallback(w, change) ==
    CASE change \in {"engine", "voice", "icon"} -> UpdateTray(w)
      [] change = "language" -> RefreshTooltip(ApplyIcon(w))
      [] change = "status"   ->
            RefreshTooltip(IF w.ctl.mode.icon # NoIcon THEN SetIcon(w, w.ctl.mode.icon) ELSE w)

(***************************************************************************)
(* The control bus: told is the last payload of each topic.  Payloads are  *)
(* read from the registry at the time, the status from the snapshot.       *)
(***************************************************************************)
EnginePayload(w) == <<w.reg.kb, w.reg.voice>>
LanguagePayload(w) == <<w.reg.lang, w.reg.kb, w.reg.voice>>

IpcListenerDeafToVoice(w, change) ==
    CASE change = "engine" -> [w EXCEPT !.told.engine = EnginePayload(w)]
      [] change = "language" -> [w EXCEPT !.told.language = LanguagePayload(w)]
      [] change = "status" -> [w EXCEPT !.told.status = w.ctl.mode]
      [] OTHER -> w
IpcListener(w, change) ==
    CASE change \in {"engine", "voice"} -> [w EXCEPT !.told.engine = EnginePayload(w)]
      [] change = "language" -> [w EXCEPT !.told.language = LanguagePayload(w)]
      [] change = "status" -> [w EXCEPT !.told.status = w.ctl.mode]
      [] change = "icon" -> w

(* Listeners run in the order they were added; the service's does nothing. *)
(* One that outlived its object would be called all the same.              *)
Broadcast(w, change) ==
    IF ~(w.app.listeners \subseteq w.app.alive) THEN [w EXCEPT !.app.dangling = TRUE]
    ELSE LET bus == IF "bus" \in w.app.listeners THEN IpcListener(w, change) ELSE w
         IN  IF "tray" \in w.app.listeners THEN TrayCallback(bus, change) ELSE bus

(***************************************************************************)
(* The controller.                                                         *)
(***************************************************************************)
LanguageIconSet(w, lang) == \E s \in w.conf.mem : s.what = "icon" /\ s.of = lang

(* The language-first chain of icons: the first layer that applies.        *)
Layered(w, engine, changed, lang) ==
    LET own == IF engine = None THEN NoIcon ELSE Catalog[engine].icon
        generic == IF engine = None THEN Off ELSE On
        layers == <<[is |-> ~changed /\ w.reg.dyn # NoIcon, icon |-> w.reg.dyn, badge |-> None],
                    [is |-> own # NoIcon, icon |-> own, badge |-> None],
                    [is |-> lang # None /\ LanguageIconSet(w, lang), icon |-> Icon("language", lang), badge |-> None],
                    [is |-> lang # None, icon |-> On, badge |-> lang],
                    [is |-> TRUE, icon |-> generic, badge |-> None]>>
        n == CHOOSE k \in 1..5 : layers[k].is /\ \A j \in 1..(k - 1) : ~layers[j].is
    IN  [w EXCEPT !.ctl.icon = layers[n].icon, !.ctl.badge = layers[n].badge]

ResolveFromSnapshot(w, engine, changed) == Layered(w, engine, changed, w.ctl.lang)
ResolveStatusIcon(w, engine, changed) == Layered(w, engine, changed, w.reg.lang)

(* A language has no callback of its own: every engine callback looks.     *)
RefreshLanguageBetweenTwo(w) ==
    IF w.reg.lang = w.ctl.lang \/ (w.ctl.lang # None /\ w.reg.kb = None) THEN w
    ELSE Broadcast([w EXCEPT !.ctl.lang = w.reg.lang], "language")
RefreshLanguage(w) ==
    IF w.reg.lang = w.ctl.lang THEN w
    ELSE Broadcast([w EXCEPT !.ctl.lang = w.reg.lang], "language")

NotifyEngineChanged(w, engine) ==
    LET changed == w.ctl.engine = None \/ engine # w.ctl.engine
        resolved == ResolveStatusIcon(w, engine, changed)
    IN  RefreshLanguage(Broadcast([resolved EXCEPT !.ctl.engine = engine,
                                                   !.ctl.active = w.reg.kb # None], "engine"))

NotifyVoiceEngineChanged(w, engine) ==
    RefreshLanguage(Broadcast([w EXCEPT !.ctl.voice = engine], "voice"))

NotifyStatusChanged(w, mode) ==
    LET set == [w EXCEPT !.ctl.mode = mode]
    IN  Broadcast(IF mode.icon = NoIcon THEN set
                  ELSE [set EXCEPT !.ctl.icon = mode.icon, !.ctl.badge = None], "status")

NotifyStatusIconChanged(w, icon) ==
    LET set == [w EXCEPT !.ctl.icon = icon]
    IN  Broadcast(IF icon = NoIcon THEN set ELSE [set EXCEPT !.ctl.badge = None], "icon")

(* The snapshot made afresh, which knows neither badges nor language icons *)
(* and forgets the mode; then every kind of change is broadcast.           *)
Sync(w) ==
    LET own == IF w.reg.kb = None THEN NoIcon ELSE Catalog[w.reg.kb].icon
        icon == IF w.reg.dyn # NoIcon THEN w.reg.dyn
                ELSE IF own # NoIcon THEN own ELSE IF w.reg.kb # None THEN On ELSE Off
        fresh == [w EXCEPT !.ctl = [w.ctl EXCEPT !.engine = w.reg.kb, !.voice = w.reg.voice,
                                                 !.active = w.reg.kb # None, !.icon = icon,
                                                 !.mode = NoMode, !.lang = w.reg.lang]]
    IN  Broadcast(Broadcast(Broadcast(Broadcast(fresh, "engine"), "voice"), "language"), "icon")
=============================================================================

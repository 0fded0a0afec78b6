------------------------ MODULE StateControllerProofs ------------------------
(***************************************************************************)
(* What a notification of the state controller leaves behind, whatever the *)
(* catalogue of engines: lemmas on the operators of StateController, from  *)
(* the tray's primitives up to the notifications, for the proofs about the *)
(* handlers that call them.                                                *)
(***************************************************************************)
EXTENDS StateController, TLAPS

Record(r, fields) == r = [f \in fields |-> r[f]]
Shaped(w) ==
    /\ Record(w, {"reg", "conf", "watch", "ctl", "told", "tray", "news", "host", "app", "reply"})
    /\ Record(w.reg, {"loaded", "lang", "kb", "voice", "dyn"})
    /\ Record(w.conf, {"mem", "fe", "disk", "unsaved"})
    /\ Record(w.watch, {"dir", "on", "seen", "self", "pending", "blind"})
    /\ Record(w.ctl, {"engine", "voice", "lang", "icon", "badge", "active", "mode"})
    /\ Record(w.told, {"engine", "language", "status"})
    /\ Record(w.tray, {"engine", "status", "icon", "badge", "overlay", "tip", "registered"})
    /\ Record(w.host, {"there", "knows", "icon", "badge", "status", "overlay", "tip", "menu"})
    /\ Record(w.app, {"phase", "alive", "listeners", "hooked", "stop", "restart", "signal", "code", "dangling"})

(* While the application is up, its listeners are alive, the bus and the   *)
(* tray listen as long as they live, and so does the controller.           *)
Wired(w) ==
    /\ w.app.listeners \subseteq w.app.alive /\ "controller" \in w.app.alive /\ ~w.app.dangling
    /\ w.app.alive \subseteq {"controller"} \cup w.app.listeners
    /\ w.app.listeners \subseteq {"service", "bus", "tray"}

TrayTyped(w) == w.tray.status \in {"Passive", "Active"} /\ w.news \subseteq Signals

(* What a host that knows the item shows of it, but for the part of its    *)
(* menu that is the registry's, which is MenuIs.                           *)
HostShows(w) ==
    /\ w.tray.registered /\ "tray" \in w.app.listeners
    /\ "NewIcon" \notin w.news => /\ w.host.badge = w.tray.badge
                                  /\ w.host.icon = IF w.tray.badge # None THEN NoIcon ELSE w.tray.icon
    /\ "NewStatus" \notin w.news => w.host.status = w.tray.status
    /\ "NewOverlayIcon" \notin w.news => w.host.overlay = w.tray.overlay
    /\ "NewToolTip" \notin w.news => w.host.tip = w.tray.tip
    /\ "LayoutUpdated" \notin w.news => w.host.menu.kb = w.tray.engine
HostKnows(w) == w.host.knows => HostShows(w)
MenuIs(w) ==
    w.host.knows /\ "LayoutUpdated" \notin w.news
       => w.host.menu.lang = w.reg.lang /\ w.host.menu.voice = w.reg.voice

Base(w) == Shaped(w) /\ TrayTyped(w) /\ Wired(w) /\ HostKnows(w)

(* The agreement of registry, snapshot, subscribers and tray item.         *)
SnapshotIs(w) ==
    /\ w.ctl.engine = w.reg.kb /\ w.ctl.voice = w.reg.voice /\ w.ctl.lang = w.reg.lang
    /\ w.ctl.active = (w.reg.kb # None)
Told(w) ==
    "bus" \in w.app.listeners =>
       w.told.engine = EnginePayload(w) /\ w.told.language[1] = w.reg.lang /\ w.told.status = w.ctl.mode
IconIs(w) ==
    /\ w.ctl.badge \in Renders => w.tray.badge = w.ctl.badge
    /\ w.ctl.badge = None => w.tray.badge = None /\ w.tray.icon = IF w.ctl.icon = NoIcon THEN On ELSE w.ctl.icon
Tip(w) == [lang |-> w.ctl.lang, engine |-> w.ctl.engine, voice |-> w.ctl.voice, mode |-> w.ctl.mode]
BarIs(w) ==
    /\ w.tray.engine = w.ctl.engine /\ (w.tray.overlay = None <=> w.ctl.voice = None)
    /\ w.ctl.active \/ w.ctl.lang = None => w.tray.status = IF w.ctl.active THEN "Active" ELSE "Passive"
TrayIs(w) == "tray" \in w.app.listeners => IconIs(w) /\ BarIs(w) /\ w.tray.tip = Tip(w)
BadgeIs(w) == w.ctl.badge # None => w.ctl.badge = w.reg.lang

Agree(w) == SnapshotIs(w) /\ Told(w) /\ TrayIs(w) /\ BadgeIs(w)

(***************************************************************************)
(* The tray item.  A step of it changes the item and the signals sent.     *)
(***************************************************************************)
Apart(w, v) ==
    /\ v.reg = w.reg /\ v.conf = w.conf /\ v.watch = w.watch
    /\ v.host = w.host /\ v.app = w.app /\ v.reply = w.reply
TrayStep(w, v) ==
    /\ Shaped(v) /\ Apart(w, v) /\ v.ctl = w.ctl /\ v.told = w.told
    /\ v.tray.registered = w.tray.registered /\ w.news \subseteq v.news
    /\ TrayTyped(w) => TrayTyped(v)
    /\ HostKnows(w) => HostKnows(v)

(* Two calls on the tray item in a row are one. *)
LEMMA TrayStepsCompose ==
    ASSUME NEW u, NEW v, NEW w, TrayStep(u, v), TrayStep(v, w)
    PROVE  TrayStep(u, w)
  BY DEF TrayStep, Apart

(* Setting the status sets the status and signals it. *)
LEMMA SetStatusStep ==
    ASSUME NEW w, Shaped(w), NEW status \in {"Passive", "Active"},
           NEW v, v = SetStatus(w, status)
    PROVE  /\ TrayStep(w, v) /\ v.tray.status = status /\ v.tray.engine = w.tray.engine /\ v.tray.icon = w.tray.icon
           /\ v.tray.badge = w.tray.badge /\ v.tray.overlay = w.tray.overlay /\ v.tray.tip = w.tray.tip
  BY ZenonT(60) DEF SetStatus, EmitSignal, Shaped, Record, TrayStep, Apart, TrayTyped, Signals, HostKnows, HostShows


(* Setting the icon clears the badge, which was drawn over the icon before. *)
LEMMA SetIconStep ==
    ASSUME NEW w, Shaped(w), NEW icon, NEW v, v = SetIcon(w, icon)
    PROVE  /\ TrayStep(w, v) /\ v.tray.engine = w.tray.engine /\ v.tray.status = w.tray.status
           /\ v.tray.icon = (IF icon = NoIcon THEN On ELSE icon)
           /\ v.tray.badge = None /\ v.tray.overlay = w.tray.overlay /\ v.tray.tip = w.tray.tip
  BY ZenonT(60) DEF SetIcon, EmitSignal, Shaped, Record, TrayStep, Apart, TrayTyped, Signals, HostKnows, HostShows

(* Setting a badge that can be drawn sets it. *)
LEMMA SetBadgeStep ==
    ASSUME NEW w, Shaped(w), NEW badge, NEW v, v = SetBadge(w, badge)
    PROVE  /\ TrayStep(w, v) /\ v.tray.engine = w.tray.engine /\ v.tray.status = w.tray.status
           /\ badge \in Renders => v.tray.badge = badge
           /\ v.tray.overlay = w.tray.overlay /\ v.tray.tip = w.tray.tip
  BY ZenonT(60) DEF SetBadge, EmitSignal, Shaped, Record, TrayStep, Apart, TrayTyped, Signals, HostKnows, HostShows

(* Setting the overlay sets the overlay. *)
LEMMA SetOverlayStep ==
    ASSUME NEW w, Shaped(w), NEW icon, NEW v, v = SetOverlayIcon(w, icon)
    PROVE  /\ TrayStep(w, v) /\ v.tray.engine = w.tray.engine /\ v.tray.status = w.tray.status
           /\ v.tray.icon = w.tray.icon /\ v.tray.badge = w.tray.badge
           /\ v.tray.overlay = icon /\ v.tray.tip = w.tray.tip
  BY ZenonT(60) DEF SetOverlayIcon, EmitSignal, Shaped, Record, TrayStep, Apart, TrayTyped, Signals, HostKnows, HostShows

(* The tooltip is made of the state as it is. *)
LEMMA RefreshTooltipStep ==
    ASSUME NEW w, Shaped(w), NEW v, v = RefreshTooltip(w)
    PROVE  /\ TrayStep(w, v) /\ v.tray.engine = w.tray.engine /\ v.tray.status = w.tray.status
           /\ v.tray.icon = w.tray.icon /\ v.tray.badge = w.tray.badge
           /\ v.tray.overlay = w.tray.overlay /\ v.tray.tip = Tip(w)
  BY ZenonT(60) DEF RefreshTooltip, EmitSignal, Tip, Shaped, Record, TrayStep, Apart, TrayTyped, Signals, HostKnows, HostShows

(* The engine's name goes with a new layout, which makes the host read the *)
(* menu again.                                                             *)
LEMMA UpdateEngineStep ==
    ASSUME NEW w, Shaped(w), NEW engine, NEW active, NEW v, v = UpdateEngine(w, engine, active)
    PROVE  /\ TrayStep(w, v) /\ v.tray.engine = engine
           /\ v.tray.status = (IF active THEN "Active" ELSE "Passive")
           /\ v.tray.icon = w.tray.icon /\ v.tray.badge = w.tray.badge
           /\ v.tray.overlay = w.tray.overlay /\ v.tray.tip = w.tray.tip
           /\ w.tray.registered => "LayoutUpdated" \in v.news
<1> DEFINE named == [w EXCEPT !.tray.engine = engine]
           laid == EmitSignal(named, "LayoutUpdated")
           tipped == EmitSignal(laid, "NewToolTip")
<1>1. /\ TrayStep(w, tipped) /\ tipped.tray.engine = engine
      /\ tipped.tray.icon = w.tray.icon /\ tipped.tray.badge = w.tray.badge
      /\ tipped.tray.overlay = w.tray.overlay /\ tipped.tray.tip = w.tray.tip
      /\ w.tray.registered => "LayoutUpdated" \in tipped.news
  BY ZenonT(60) DEF EmitSignal, Shaped, Record, TrayStep, Apart, TrayTyped, Signals, HostKnows, HostShows
<1> DEFINE status == IF active THEN "Active" ELSE "Passive"
<1>2. status \in {"Passive", "Active"} /\ v = SetStatus(tipped, status)
  BY DEF UpdateEngine
<1> HIDE DEF tipped, status
<1>3. /\ TrayStep(tipped, v) /\ v.tray.status = status /\ v.tray.engine = tipped.tray.engine
      /\ v.tray.icon = tipped.tray.icon /\ v.tray.badge = tipped.tray.badge
      /\ v.tray.overlay = tipped.tray.overlay /\ v.tray.tip = tipped.tray.tip
  BY <1>1, <1>2, SetStatusStep DEF TrayStep
<1>4. TrayStep(w, v) /\ tipped.news \subseteq v.news
  BY <1>1, <1>3, TrayStepsCompose DEF TrayStep
<1> QED
  BY <1>1, <1>3, <1>4 DEF status


(* Applying the icon makes icon and badge those of the snapshot.           *)
LEMMA ApplyIconStep ==
    ASSUME NEW w, Shaped(w), NEW v, v = ApplyIcon(w)
    PROVE  /\ TrayStep(w, v) /\ IconIs(v) /\ v.tray.engine = w.tray.engine /\ v.tray.status = w.tray.status
           /\ v.tray.overlay = w.tray.overlay /\ v.tray.tip = w.tray.tip
<1>1. CASE w.ctl.badge # None
  <2>1. v = SetBadge(w, w.ctl.badge)
    BY <1>1 DEF ApplyIcon
  <2> QED
    BY <1>1, <2>1, SetBadgeStep DEF IconIs, TrayStep
<1>2. CASE w.ctl.badge = None
  <2>1. v = SetIcon(w, w.ctl.icon)
    BY <1>2 DEF ApplyIcon
  <2> QED
    BY <1>2, <2>1, SetIconStep DEF IconIs, TrayStep
<1> QED
  BY <1>1, <1>2

(* A full update makes the whole item that of the snapshot and its menu    *)
(* new.                                                                    *)
LEMMA UpdateTrayStep ==
    ASSUME NEW w, Shaped(w), NEW v, v = UpdateTray(w)
    PROVE  /\ TrayStep(w, v) /\ IconIs(v) /\ BarIs(v) /\ v.tray.tip = Tip(v)
           /\ w.tray.registered => "LayoutUpdated" \in v.news
<1> DEFINE a == ApplyIcon(w)
           b == ApplyOverlay(a)
           active == w.ctl.active \/ w.ctl.lang # None
           c == UpdateEngine(b, w.ctl.engine, active)
<1>1. TrayStep(w, a) /\ IconIs(a)
  BY ApplyIconStep
<1> HIDE DEF a
<1>2. /\ TrayStep(a, b) /\ b.tray.icon = a.tray.icon /\ b.tray.badge = a.tray.badge
      /\ b.tray.overlay = IF a.ctl.voice = None THEN None ELSE "audio-input-microphone-symbolic"
  BY <1>1, SetOverlayStep DEF ApplyOverlay, TrayStep
<1> HIDE DEF b, active
<1>3. /\ TrayStep(b, c) /\ c.tray.icon = b.tray.icon /\ c.tray.badge = b.tray.badge
      /\ c.tray.overlay = b.tray.overlay /\ c.tray.engine = w.ctl.engine
      /\ c.tray.status = (IF active THEN "Active" ELSE "Passive")
      /\ b.tray.registered => "LayoutUpdated" \in c.news
  BY <1>2, UpdateEngineStep DEF TrayStep
<1>4. v = RefreshTooltip(c)
  BY DEF UpdateTray, a, b, active
<1> HIDE DEF c
<1>5. /\ TrayStep(c, v) /\ v.tray.engine = c.tray.engine /\ v.tray.status = c.tray.status /\ v.tray.icon = c.tray.icon
      /\ v.tray.badge = c.tray.badge /\ v.tray.overlay = c.tray.overlay /\ v.tray.tip = Tip(c)
  BY <1>3, <1>4, RefreshTooltipStep DEF TrayStep
<1>6. TrayStep(w, b) /\ TrayStep(b, v)
  BY <1>1, <1>2, <1>3, <1>5, TrayStepsCompose
<1>7. TrayStep(w, v)
  BY <1>6, TrayStepsCompose
<1>8. v.ctl = w.ctl /\ a.ctl = w.ctl /\ c.ctl = w.ctl /\ c.news \subseteq v.news
      /\ b.tray.registered = w.tray.registered
  BY <1>1, <1>2, <1>3, <1>5 DEF TrayStep
<1>9. IconIs(v)
  BY <1>1, <1>2, <1>3, <1>5, <1>8 DEF IconIs
<1>10. BarIs(v)
  BY <1>2, <1>3, <1>5, <1>8 DEF BarIs, None, active
<1>11. v.tray.tip = Tip(v)
  BY <1>5, <1>8 DEF Tip
<1> QED
  BY <1>3, <1>7, <1>8, <1>9, <1>10, <1>11

(* What the tray's listener makes of each kind of change.                  *)
Changes == {"engine", "voice", "icon", "language", "status"}

(* The tray updates in full on a change of engine, voice engine or icon. *)
LEMMA TrayUpdated ==
    ASSUME NEW w, Shaped(w), NEW change \in {"engine", "voice", "icon"}, NEW v, v = TrayCallback(w, change)
    PROVE  /\ TrayStep(w, v) /\ IconIs(v) /\ BarIs(v) /\ v.tray.tip = Tip(v)
           /\ w.tray.registered => "LayoutUpdated" \in v.news
<1>1. v = UpdateTray(w)
  BY DEF TrayCallback
<1> QED
  BY <1>1, UpdateTrayStep

(* On a change of language it renews icon and tooltip only. *)
LEMMA TrayHearsLanguage ==
    ASSUME NEW w, Shaped(w), NEW v, v = TrayCallback(w, "language")
    PROVE  /\ TrayStep(w, v) /\ IconIs(v) /\ v.tray.tip = Tip(v)
           /\ v.tray.engine = w.tray.engine /\ v.tray.overlay = w.tray.overlay /\ v.tray.status = w.tray.status
<1> DEFINE a == ApplyIcon(w)
<1>1. v = RefreshTooltip(a)
  BY DEF TrayCallback
<1>2. /\ TrayStep(w, a) /\ IconIs(a) /\ a.tray.engine = w.tray.engine
      /\ a.tray.overlay = w.tray.overlay /\ a.tray.status = w.tray.status
  BY ApplyIconStep
<1> HIDE DEF a
<1>3. /\ TrayStep(a, v) /\ v.tray.engine = a.tray.engine /\ v.tray.icon = a.tray.icon
      /\ v.tray.status = a.tray.status /\ v.tray.badge = a.tray.badge /\ v.tray.overlay = a.tray.overlay /\ v.tray.tip = Tip(a)
  BY <1>1, <1>2, RefreshTooltipStep DEF TrayStep
<1> QED
  BY <1>2, <1>3, TrayStepsCompose DEF IconIs, Tip, TrayStep

(* On a change of mode it renews icon and tooltip only. *)
LEMMA TrayHearsStatus ==
    ASSUME NEW w, Shaped(w), NEW v, v = TrayCallback(w, "status"),
           w.ctl.mode.icon # NoIcon => w.ctl.icon = w.ctl.mode.icon /\ w.ctl.badge = None
    PROVE  /\ TrayStep(w, v) /\ v.tray.tip = Tip(v)
           /\ v.tray.engine = w.tray.engine /\ v.tray.overlay = w.tray.overlay /\ v.tray.status = w.tray.status
           /\ w.ctl.mode.icon # NoIcon \/ IconIs(w) => IconIs(v)
<1> DEFINE a == IF w.ctl.mode.icon # NoIcon THEN SetIcon(w, w.ctl.mode.icon) ELSE w
<1>1. v = RefreshTooltip(a)
  BY DEF TrayCallback
<1>2. /\ TrayStep(w, a) /\ a.tray.engine = w.tray.engine
      /\ a.tray.overlay = w.tray.overlay /\ a.tray.status = w.tray.status
      /\ w.ctl.mode.icon # NoIcon \/ IconIs(w) => IconIs(a)
  <2>1. CASE w.ctl.mode.icon # NoIcon
    <3>1. a = SetIcon(w, w.ctl.icon)
      BY <2>1
    <3> HIDE DEF a
    <3>2. /\ TrayStep(w, a) /\ a.tray.engine = w.tray.engine
          /\ a.tray.overlay = w.tray.overlay /\ a.tray.status = w.tray.status
      BY <3>1, SetIconStep
    <3>3. a.tray.icon = (IF w.ctl.icon = NoIcon THEN On ELSE w.ctl.icon) /\ a.tray.badge = None
      BY <3>1, SetIconStep
    <3>4. a.ctl = w.ctl /\ w.ctl.badge = None
      BY <2>1, <3>2 DEF TrayStep
    <3>5. IconIs(a)
      BY <3>3, <3>4 DEF IconIs
    <3> QED
      BY <3>2, <3>5
  <2>2. CASE ~(w.ctl.mode.icon # NoIcon)
    BY <2>2 DEF TrayStep, Apart
  <2> QED
    BY <2>1, <2>2
<1> HIDE DEF a
<1>3. /\ TrayStep(a, v) /\ v.tray.engine = a.tray.engine /\ v.tray.icon = a.tray.icon
      /\ v.tray.status = a.tray.status /\ v.tray.badge = a.tray.badge /\ v.tray.overlay = a.tray.overlay /\ v.tray.tip = Tip(a)
  BY <1>1, <1>2, RefreshTooltipStep DEF TrayStep
<1>4. v.ctl = a.ctl
  BY <1>3 DEF TrayStep
<1>5. IconIs(a) => IconIs(v)
  BY <1>3, <1>4 DEF IconIs
<1>6. v.tray.tip = Tip(v)
  BY <1>3, <1>4 DEF Tip
<1> QED
  BY <1>2, <1>3, <1>5, <1>6, TrayStepsCompose


(***************************************************************************)
(* A broadcast, to the bus and then to the tray, of those that listen.     *)
(***************************************************************************)
LEMMA IpcListenerStep ==
    ASSUME NEW w, Shaped(w), NEW change \in Changes, NEW v, v = IpcListener(w, change)
    PROVE  /\ Shaped(v) /\ Apart(w, v) /\ v.ctl = w.ctl /\ v.tray = w.tray /\ v.news = w.news
           /\ v.told.engine = IF change \in {"engine", "voice"} THEN EnginePayload(w) ELSE w.told.engine
           /\ v.told.language = IF change = "language" THEN LanguagePayload(w) ELSE w.told.language
           /\ v.told.status = IF change = "status" THEN w.ctl.mode ELSE w.told.status
  BY ZenonT(60) DEF IpcListener, Changes, Shaped, Record, Apart

(* What any broadcast leaves alone, and what subscribers hear.             *)
BroadcastOf(w, v, change) ==
    /\ Base(v) /\ Apart(w, v) /\ v.ctl = w.ctl
    /\ v.tray.registered = w.tray.registered /\ w.news \subseteq v.news
    /\ IF "bus" \in w.app.listeners
       THEN /\ v.told.engine = IF change \in {"engine", "voice"} THEN EnginePayload(w) ELSE w.told.engine
            /\ v.told.language = IF change = "language" THEN LanguagePayload(w) ELSE w.told.language
            /\ v.told.status = IF change = "status" THEN w.ctl.mode ELSE w.told.status
       ELSE v.told = w.told

(* A broadcast reaches the bus's listener first and the tray with the same *)
(* snapshot.                                                               *)
LEMMA BroadcastHeard ==
    ASSUME NEW w, Base(w), NEW change \in Changes, NEW v, v = Broadcast(w, change),
           change = "status" /\ w.ctl.mode.icon # NoIcon => w.ctl.icon = w.ctl.mode.icon /\ w.ctl.badge = None
    PROVE  /\ BroadcastOf(w, v, change)
           /\ \E bus : /\ Shaped(bus) /\ bus.ctl = w.ctl /\ bus.tray = w.tray
                       /\ bus.news = w.news /\ bus.app = w.app
                       /\ v = IF "tray" \in w.app.listeners THEN TrayCallback(bus, change) ELSE bus
<1> DEFINE bus == IF "bus" \in w.app.listeners THEN IpcListener(w, change) ELSE w
           Heard(x) == IF "bus" \in w.app.listeners
                       THEN /\ x.engine = IF change \in {"engine", "voice"} THEN EnginePayload(w) ELSE w.told.engine
                            /\ x.language = IF change = "language" THEN LanguagePayload(w) ELSE w.told.language
                            /\ x.status = IF change = "status" THEN w.ctl.mode ELSE w.told.status
                       ELSE x = w.told
<1>1. v = IF "tray" \in w.app.listeners THEN TrayCallback(bus, change) ELSE bus
  <2>1. w.app.listeners \subseteq w.app.alive
    <3>1. Wired(w)
      BY DEF Base
    <3>2. QED
      BY <3>1 DEF Wired
  <2> DEFINE heard == IF "tray" \in w.app.listeners THEN TrayCallback(bus, change) ELSE bus
             broken == [w EXCEPT !.app.dangling = TRUE]
  <2>2. v = IF ~(w.app.listeners \subseteq w.app.alive) THEN broken ELSE heard
    BY ZenonT(60) DEF Broadcast
  <2> HIDE DEF heard, broken
  <2>3. v = heard
    BY <2>1, <2>2
  <2>4. QED
    BY <2>3 DEF heard
<1>2. /\ Shaped(bus) /\ Apart(w, bus) /\ bus.ctl = w.ctl /\ bus.tray = w.tray /\ bus.news = w.news
  BY IpcListenerStep DEF Base, Apart
<1>3. Heard(bus.told)
  BY IpcListenerStep DEF Base
<1> HIDE DEF bus
<1>4. TrayTyped(bus) /\ HostKnows(bus)
  BY <1>2 DEF Base, TrayTyped, HostKnows, HostShows, Apart
<1>5. TrayStep(bus, TrayCallback(bus, change))
  <2>1. CASE change \in {"engine", "voice", "icon"}
    BY <1>2, <2>1, TrayUpdated
  <2>2. CASE change = "language"
    BY <1>2, <2>2, TrayHearsLanguage
  <2>3. CASE change = "status"
    BY <1>2, <2>3, TrayHearsStatus
  <2> QED
    BY <2>1, <2>2, <2>3 DEF Changes
<1>6. TrayStep(bus, v)
  <2>1. TrayStep(bus, bus)
    BY <1>2 DEF TrayStep, Apart
  <2> QED
    BY <1>1, <1>5, <2>1
<1> HIDE DEF Heard
<1>7. Base(v) /\ Apart(w, v) /\ v.ctl = w.ctl
      /\ v.tray.registered = w.tray.registered /\ w.news \subseteq v.news /\ Heard(v.told)
  BY <1>2, <1>3, <1>4, <1>6 DEF Base, TrayStep, Apart, Wired
<1>8. BroadcastOf(w, v, change)
  BY <1>7 DEF BroadcastOf, Heard
<1>9. bus.app = w.app
  BY <1>2 DEF Apart
<1> QED
  BY <1>1, <1>2, <1>8, <1>9

(* A change of engine or icon brings the whole item up to date.            *)
LEMMA BroadcastUpdates ==
    ASSUME NEW w, Base(w), NEW change \in {"engine", "voice", "icon"}, NEW v, v = Broadcast(w, change)
    PROVE  /\ BroadcastOf(w, v, change) /\ TrayIs(v) /\ MenuIs(v)
<1>1. change \in Changes
  BY DEF Changes
<1>2. BroadcastOf(w, v, change)
  BY <1>1, BroadcastHeard
<1>3. PICK bus : /\ Shaped(bus) /\ bus.ctl = w.ctl /\ bus.tray = w.tray
                 /\ bus.news = w.news /\ bus.app = w.app
                 /\ v = IF "tray" \in w.app.listeners THEN TrayCallback(bus, change) ELSE bus
  BY <1>1, BroadcastHeard
<1>4. CASE "tray" \in w.app.listeners
  <2>1. IconIs(v) /\ BarIs(v) /\ v.tray.tip = Tip(v) /\ (bus.tray.registered => "LayoutUpdated" \in v.news)
    BY <1>3, <1>4, TrayUpdated
  <2>2. v.host.knows => v.tray.registered
    BY <1>2 DEF BroadcastOf, Base, HostKnows, HostShows
  <2>3. v.tray.registered = bus.tray.registered
    BY <1>2, <1>3 DEF BroadcastOf
  <2> QED
    BY <1>2, <2>1, <2>2, <2>3 DEF TrayIs, MenuIs
<1>5. CASE "tray" \notin w.app.listeners
  BY <1>2, <1>5 DEF BroadcastOf, Base, HostKnows, HostShows, TrayIs, MenuIs, Apart
<1> QED
  BY <1>2, <1>4, <1>5

(* After a change of language is broadcast, tray and menu are those of the *)
(* snapshot.                                                               *)
LEMMA BroadcastLanguage ==
    ASSUME NEW w, Base(w), NEW v, v = Broadcast(w, "language"),
           "tray" \in w.app.listeners => BarIs(w), MenuIs(w)
    PROVE  /\ BroadcastOf(w, v, "language") /\ TrayIs(v) /\ MenuIs(v)
<1>1. "language" \in Changes
  BY DEF Changes
<1>2. BroadcastOf(w, v, "language")
  BY <1>1, BroadcastHeard
<1>3. PICK bus : /\ Shaped(bus) /\ bus.ctl = w.ctl /\ bus.tray = w.tray
                 /\ bus.news = w.news /\ bus.app = w.app
                 /\ v = IF "tray" \in w.app.listeners THEN TrayCallback(bus, "language") ELSE bus
  BY <1>1, BroadcastHeard
<1>4. MenuIs(v)
  BY <1>2 DEF BroadcastOf, MenuIs, Apart
<1>5. CASE "tray" \in w.app.listeners
  <2>1. /\ IconIs(v) /\ v.tray.tip = Tip(v)
        /\ v.tray.engine = w.tray.engine /\ v.tray.overlay = w.tray.overlay /\ v.tray.status = w.tray.status
    BY <1>3, <1>5, TrayHearsLanguage
  <2>2. v.ctl = w.ctl
    BY <1>2 DEF BroadcastOf
  <2> QED
    BY <1>2, <1>4, <1>5, <2>1, <2>2 DEF TrayIs, BarIs
<1>6. CASE "tray" \notin w.app.listeners
  BY <1>2, <1>4, <1>6 DEF BroadcastOf, TrayIs, Apart
<1> QED
  BY <1>5, <1>6


(* After a change of mode is broadcast, they are too. *)
LEMMA BroadcastStatus ==
    ASSUME NEW w, Base(w), NEW v, v = Broadcast(w, "status"), MenuIs(w),
           w.ctl.mode.icon # NoIcon => w.ctl.icon = w.ctl.mode.icon /\ w.ctl.badge = None,
           "tray" \in w.app.listeners => BarIs(w) /\ (w.ctl.mode.icon # NoIcon \/ IconIs(w))
    PROVE  /\ BroadcastOf(w, v, "status") /\ TrayIs(v) /\ MenuIs(v)
<1>1. "status" \in Changes
  BY DEF Changes
<1>2. BroadcastOf(w, v, "status")
  BY <1>1, BroadcastHeard
<1>3. PICK bus : /\ Shaped(bus) /\ bus.ctl = w.ctl /\ bus.tray = w.tray
                 /\ bus.news = w.news /\ bus.app = w.app
                 /\ v = IF "tray" \in w.app.listeners THEN TrayCallback(bus, "status") ELSE bus
  BY <1>1, BroadcastHeard
<1>4. MenuIs(v)
  BY <1>2 DEF BroadcastOf, MenuIs, Apart
<1>5. CASE "tray" \in w.app.listeners
  <2>1. v = TrayCallback(bus, "status")
    BY <1>3, <1>5
  <2>2. bus.ctl.mode.icon # NoIcon \/ IconIs(bus)
    BY <1>3, <1>5 DEF IconIs
  <2>3. /\ IconIs(v) /\ v.tray.tip = Tip(v)
        /\ v.tray.engine = w.tray.engine /\ v.tray.overlay = w.tray.overlay /\ v.tray.status = w.tray.status
    BY <1>3, <2>1, <2>2, TrayHearsStatus
  <2>4. v.ctl = w.ctl
    BY <1>2 DEF BroadcastOf
  <2> QED
    BY <1>2, <1>4, <1>5, <2>3, <2>4 DEF TrayIs, BarIs
<1>6. CASE "tray" \notin w.app.listeners
  BY <1>2, <1>4, <1>6 DEF BroadcastOf, TrayIs, Apart
<1> QED
  BY <1>5, <1>6

(***************************************************************************)
(* The notifications.  What a handler relies on: after one, registry,      *)
(* snapshot, subscribers and tray item agree.                              *)
(***************************************************************************)
Notified(w, v) == Base(v) /\ Apart(w, v) /\ Agree(v) /\ MenuIs(v)

(* The icon chain ends in a layer that always applies, and only its badge  *)
(* of the language given ends up in the snapshot.                          *)
Iconed(w, v, lang) ==
    /\ Shaped(v) /\ Apart(w, v) /\ v.told = w.told /\ v.tray = w.tray /\ v.news = w.news
    /\ v.ctl.engine = w.ctl.engine /\ v.ctl.voice = w.ctl.voice /\ v.ctl.lang = w.ctl.lang
    /\ v.ctl.active = w.ctl.active /\ v.ctl.mode = w.ctl.mode
    /\ v.ctl.badge # None => v.ctl.badge = lang

(* The layers choose icon and badge only; a badge, if any, is the          *)
(* language's.                                                             *)
LEMMA LayeredIs ==
    ASSUME NEW w, Shaped(w), NEW engine, NEW changed, NEW lang
    PROVE  Iconed(w, Layered(w, engine, changed, lang), lang)
<1> DEFINE own == IF engine = None THEN NoIcon ELSE Catalog[engine].icon
           generic == IF engine = None THEN Off ELSE On
           layers == <<[is |-> ~changed /\ w.reg.dyn # NoIcon, icon |-> w.reg.dyn, badge |-> None],
                    [is |-> own # NoIcon, icon |-> own, badge |-> None],
                    [is |-> lang # None /\ LanguageIconSet(w, lang), icon |-> Icon("language", lang), badge |-> None],
                    [is |-> lang # None, icon |-> On, badge |-> lang],
                    [is |-> TRUE, icon |-> generic, badge |-> None]>>
           First(k) == layers[k].is /\ \A j \in 1..(k - 1) : ~layers[j].is
           n == CHOOSE k \in 1..5 : First(k)
<1>1. \A k \in 1..5 : layers[k].badge # None => layers[k].badge = lang
  OBVIOUS
<1>2. layers[5].is
  OBVIOUS
<1> DEFINE v == [w EXCEPT !.ctl.icon = layers[n].icon, !.ctl.badge = layers[n].badge]
<1>3. Layered(w, engine, changed, lang) = v
  BY DEF Layered
<1> HIDE DEF layers
<1>4. \E k \in 1..5 : First(k)
  <2>1. CASE layers[1].is
    <3>1. First(1)
      BY <2>1
    <3> QED
      BY <3>1
  <2>2. CASE ~layers[1].is /\ layers[2].is
    <3>1. First(2)
      BY <2>2
    <3> QED
      BY <3>1
  <2>3. CASE ~layers[1].is /\ ~layers[2].is /\ layers[3].is
    <3>1. First(3)
      BY <2>3
    <3> QED
      BY <3>1
  <2>4. CASE ~layers[1].is /\ ~layers[2].is /\ ~layers[3].is /\ layers[4].is
    <3>1. First(4)
      BY <2>4
    <3> QED
      BY <3>1
  <2>5. CASE ~layers[1].is /\ ~layers[2].is /\ ~layers[3].is /\ ~layers[4].is
    <3>1. First(5)
      BY <1>2, <2>5
    <3> QED
      BY <3>1
  <2> QED
    BY <2>1, <2>2, <2>3, <2>4, <2>5
<1>5. n \in 1..5
  <2> HIDE DEF First
  <2> QED
    BY <1>4
<1> HIDE DEF n
<1>6. Iconed(w, v, lang)
  BY <1>1, <1>5 DEF Iconed, Shaped, Record, Apart
<1> HIDE DEF v
<1> QED
  BY <1>3, <1>6


(* The language is looked at last: if it moved, its own broadcast brings   *)
(* the rest into line.  The item's status it leaves, which is therefore    *)
(* right as long as no language is given up.                               *)
LEMMA LanguageRefreshed ==
    ASSUME NEW w, Base(w), NEW v, v = RefreshLanguage(w), TrayIs(w), MenuIs(w), BadgeIs(w),
           w.reg.lang = None => w.ctl.lang = None,
           w.ctl.engine = w.reg.kb, w.ctl.voice = w.reg.voice, w.ctl.active = (w.reg.kb # None),
           "bus" \in w.app.listeners => /\ w.told.engine = EnginePayload(w) /\ w.told.status = w.ctl.mode
                                        /\ w.told.language[1] = w.ctl.lang
    PROVE  Notified(w, v)
<1>1. CASE w.reg.lang = w.ctl.lang
  <2>1. v = w
    BY <1>1 DEF RefreshLanguage
  <2>2. SnapshotIs(w) /\ Told(w)
    BY <1>1 DEF SnapshotIs, Told
  <2> QED
    BY <2>1, <2>2 DEF Notified, Apart, Agree
<1>2. CASE w.reg.lang # w.ctl.lang
  <2> DEFINE set == [w EXCEPT !.ctl.lang = w.reg.lang]
  <2>1. v = Broadcast(set, "language")
    BY <1>2 DEF RefreshLanguage
  <2>2. /\ Shaped(set) /\ Apart(w, set) /\ set.told = w.told /\ set.tray = w.tray /\ set.news = w.news
        /\ set.ctl.engine = w.ctl.engine /\ set.ctl.voice = w.ctl.voice /\ set.ctl.active = w.ctl.active
        /\ set.ctl.mode = w.ctl.mode /\ set.ctl.badge = w.ctl.badge /\ set.ctl.icon = w.ctl.icon
        /\ set.ctl.lang = w.reg.lang
    BY DEF Base, Shaped, Record, Apart
  <2> HIDE DEF set
  <2>3. Base(set) /\ MenuIs(set) /\ ("tray" \in set.app.listeners => BarIs(set))
    BY <2>2 DEF Base, TrayTyped, Wired, HostKnows, HostShows, MenuIs, TrayIs, BarIs, Apart
  <2>4. BroadcastOf(set, v, "language") /\ TrayIs(v) /\ MenuIs(v)
    BY <2>1, <2>3, BroadcastLanguage
  <2>5. v.ctl = set.ctl /\ Apart(w, v)
    BY <2>2, <2>4 DEF BroadcastOf, Apart
  <2>6. SnapshotIs(v) /\ BadgeIs(v)
    BY <2>2, <2>5 DEF SnapshotIs, BadgeIs, Apart
  <2>7. Told(v)
    <3>1. LanguagePayload(set)[1] = set.reg.lang
      BY DEF LanguagePayload
    <3>2. EnginePayload(v) = EnginePayload(w)
      BY <2>5 DEF EnginePayload, Apart
    <3> QED
      BY <2>2, <2>4, <2>5, <3>1, <3>2 DEF BroadcastOf, Told, Apart
  <2> QED
    BY <2>4, <2>5, <2>6, <2>7 DEF Notified, Agree, BroadcastOf
<1> QED
  BY <1>1, <1>2

(* A change of engine, and with it perhaps of language.                    *)
LEMMA EngineNotified ==
    ASSUME NEW w, Base(w), w.ctl.voice = w.reg.voice, w.reg.lang = None => w.ctl.lang = None,
           "bus" \in w.app.listeners => w.told.language[1] = w.ctl.lang /\ w.told.status = w.ctl.mode,
           NEW v, v = NotifyEngineChanged(w, w.reg.kb)
    PROVE  Notified(w, v)
<1> DEFINE changed == w.ctl.engine = None \/ w.reg.kb # w.ctl.engine
           resolved == ResolveStatusIcon(w, w.reg.kb, changed)
           set == [resolved EXCEPT !.ctl.engine = w.reg.kb, !.ctl.active = w.reg.kb # None]
           heard == Broadcast(set, "engine")
<1>2. v = RefreshLanguage(heard)
  BY DEF NotifyEngineChanged
<1>1. Iconed(w, resolved, w.reg.lang)
  BY LayeredIs DEF Base, ResolveStatusIcon
<1> HIDE DEF resolved
<1>3. /\ Shaped(set) /\ Apart(w, set) /\ set.told = w.told /\ set.tray = w.tray /\ set.news = w.news
      /\ set.ctl.engine = w.reg.kb /\ set.ctl.voice = w.ctl.voice /\ set.ctl.active = (w.reg.kb # None)
      /\ set.ctl.mode = w.ctl.mode /\ set.ctl.badge = resolved.ctl.badge /\ set.ctl.lang = w.ctl.lang
  BY <1>1, ZenonT(60) DEF Iconed, Shaped, Record, Apart
<1> HIDE DEF set
<1>4. Base(set)
  BY <1>3 DEF Base, TrayTyped, Wired, HostKnows, HostShows, Apart
<1>5. BroadcastOf(set, heard, "engine") /\ TrayIs(heard) /\ MenuIs(heard)
  BY <1>4, BroadcastUpdates
<1> HIDE DEF heard
<1>6. heard.ctl = set.ctl /\ Apart(set, heard) /\ Base(heard)
  BY <1>5 DEF BroadcastOf
<1>7. BadgeIs(heard)
  BY <1>1, <1>3, <1>6 DEF Iconed, BadgeIs, Apart
<1>8. EnginePayload(heard) = EnginePayload(set)
  BY <1>6 DEF EnginePayload, Apart
<1>9. "bus" \in heard.app.listeners =>
           /\ heard.told.engine = EnginePayload(heard) /\ heard.told.status = heard.ctl.mode
           /\ heard.told.language[1] = heard.ctl.lang
  BY <1>3, <1>5, <1>6, <1>8 DEF BroadcastOf, Apart
<1>10. /\ heard.ctl.engine = heard.reg.kb /\ heard.ctl.voice = heard.reg.voice
       /\ heard.ctl.active = (heard.reg.kb # None) /\ (heard.reg.lang = None => heard.ctl.lang = None)
  BY <1>3, <1>6 DEF Apart
<1>11. Notified(heard, v)
  BY <1>2, <1>5, <1>6, <1>7, <1>9, <1>10, LanguageRefreshed
<1> QED
  BY <1>3, <1>6, <1>11 DEF Notified, Apart

(* A change of voice engine.                                               *)
LEMMA VoiceNotified ==
    ASSUME NEW w, Base(w), w.ctl.engine = w.reg.kb, w.ctl.lang = w.reg.lang,
           w.ctl.active = (w.reg.kb # None), BadgeIs(w),
           "bus" \in w.app.listeners => w.told.language[1] = w.ctl.lang /\ w.told.status = w.ctl.mode,
           NEW v, v = NotifyVoiceEngineChanged(w, w.reg.voice)
    PROVE  Notified(w, v)
<1> DEFINE set == [w EXCEPT !.ctl.voice = w.reg.voice]
           heard == Broadcast(set, "voice")
<1>1. v = RefreshLanguage(heard)
  BY DEF NotifyVoiceEngineChanged
<1>2. /\ Shaped(set) /\ Apart(w, set) /\ set.told = w.told /\ set.tray = w.tray /\ set.news = w.news
      /\ set.ctl.engine = w.ctl.engine /\ set.ctl.voice = w.reg.voice /\ set.ctl.active = w.ctl.active
      /\ set.ctl.mode = w.ctl.mode /\ set.ctl.badge = w.ctl.badge /\ set.ctl.lang = w.ctl.lang
  BY SMTT(60) DEF Base, Shaped, Record, Apart
<1> HIDE DEF set
<1>3. Base(set)
  BY <1>2 DEF Base, TrayTyped, Wired, HostKnows, HostShows, Apart
<1>4. BroadcastOf(set, heard, "voice") /\ TrayIs(heard) /\ MenuIs(heard)
  BY <1>3, BroadcastUpdates
<1> HIDE DEF heard
<1>5. heard.ctl = set.ctl /\ Apart(set, heard) /\ Base(heard)
  BY <1>4 DEF BroadcastOf
<1>6. BadgeIs(heard)
  BY <1>2, <1>5 DEF BadgeIs, Apart
<1>7. EnginePayload(heard) = EnginePayload(set)
  BY <1>5 DEF EnginePayload, Apart
<1>8. "bus" \in heard.app.listeners =>
           /\ heard.told.engine = EnginePayload(heard) /\ heard.told.status = heard.ctl.mode
           /\ heard.told.language[1] = heard.ctl.lang
  BY <1>2, <1>4, <1>5, <1>7 DEF BroadcastOf, Apart
<1>9. /\ heard.ctl.engine = heard.reg.kb /\ heard.ctl.voice = heard.reg.voice
      /\ heard.ctl.active = (heard.reg.kb # None) /\ heard.ctl.lang = heard.reg.lang
  BY <1>2, <1>5 DEF Apart
<1>10. Notified(heard, v)
  BY <1>1, <1>4, <1>5, <1>6, <1>8, <1>9, LanguageRefreshed
<1> QED
  BY <1>2, <1>5, <1>10 DEF Notified, Apart

(* The active engine's mode, which has a message and an icon of its own.   *)
LEMMA StatusNotified ==
    ASSUME NEW w, Base(w), Agree(w), MenuIs(w), NEW mode, NEW v, v = NotifyStatusChanged(w, mode)
    PROVE  Notified(w, v)
<1> DEFINE plain == [w EXCEPT !.ctl.mode = mode]
           set == IF mode.icon = NoIcon THEN plain
                  ELSE [plain EXCEPT !.ctl.icon = mode.icon, !.ctl.badge = None]
<1>1. v = Broadcast(set, "status")
  BY DEF NotifyStatusChanged
<1>2. /\ Shaped(set) /\ Apart(w, set) /\ set.told = w.told /\ set.tray = w.tray /\ set.news = w.news
      /\ set.ctl.engine = w.ctl.engine /\ set.ctl.voice = w.ctl.voice /\ set.ctl.active = w.ctl.active
      /\ set.ctl.mode = mode /\ set.ctl.lang = w.ctl.lang
  BY ZenonT(60) DEF Base, Shaped, Record, Apart
<1>3. IF mode.icon = NoIcon THEN set.ctl.icon = w.ctl.icon /\ set.ctl.badge = w.ctl.badge
      ELSE set.ctl.icon = mode.icon /\ set.ctl.badge = None
  BY DEF Base, Shaped, Record
<1> HIDE DEF set
<1>4. Base(set) /\ MenuIs(set)
  BY <1>2 DEF Base, TrayTyped, Wired, HostKnows, HostShows, MenuIs, Apart
<1>5. "tray" \in set.app.listeners => BarIs(set) /\ (set.ctl.mode.icon # NoIcon \/ IconIs(set))
  BY <1>2, <1>3 DEF Agree, TrayIs, BarIs, IconIs, Apart
<1>6. BroadcastOf(set, v, "status") /\ TrayIs(v) /\ MenuIs(v)
  BY <1>1, <1>2, <1>3, <1>4, <1>5, BroadcastStatus
<1>7. v.ctl = set.ctl /\ Apart(set, v) /\ Base(v)
  BY <1>6 DEF BroadcastOf
<1>8. SnapshotIs(v) /\ BadgeIs(v)
  BY <1>2, <1>3, <1>7 DEF Agree, SnapshotIs, BadgeIs, Apart
<1>9. EnginePayload(v) = EnginePayload(w)
  BY <1>2, <1>7 DEF EnginePayload, Apart
<1>10. Told(v)
  BY <1>2, <1>6, <1>7, <1>9 DEF Agree, Told, BroadcastOf, Apart
<1> QED
  BY <1>2, <1>6, <1>7, <1>8, <1>10 DEF Notified, Agree, Apart

(* Its icon, which a handler has put into the registry before.             *)
LEMMA IconNotified ==
    ASSUME NEW w, Base(w), SnapshotIs(w), Told(w), BadgeIs(w), NEW icon,
           NEW v, v = NotifyStatusIconChanged(w, icon)
    PROVE  Notified(w, v)
<1> DEFINE plain == [w EXCEPT !.ctl.icon = icon]
           set == IF icon = NoIcon THEN plain ELSE [plain EXCEPT !.ctl.badge = None]
<1>1. v = Broadcast(set, "icon")
  BY DEF NotifyStatusIconChanged
<1>2. /\ Shaped(set) /\ Apart(w, set) /\ set.told = w.told /\ set.tray = w.tray /\ set.news = w.news
      /\ set.ctl.engine = w.ctl.engine /\ set.ctl.voice = w.ctl.voice /\ set.ctl.active = w.ctl.active
      /\ set.ctl.mode = w.ctl.mode /\ set.ctl.lang = w.ctl.lang /\ set.ctl.badge \in {w.ctl.badge, None}
  BY ZenonT(60) DEF Base, Shaped, Record, Apart
<1> HIDE DEF set
<1>3. Base(set)
  BY <1>2 DEF Base, TrayTyped, Wired, HostKnows, HostShows, Apart
<1>4. BroadcastOf(set, v, "icon") /\ TrayIs(v) /\ MenuIs(v)
  BY <1>1, <1>3, BroadcastUpdates
<1>5. v.ctl = set.ctl /\ Apart(set, v) /\ Base(v)
  BY <1>4 DEF BroadcastOf
<1>6. SnapshotIs(v) /\ BadgeIs(v)
  BY <1>2, <1>5 DEF SnapshotIs, BadgeIs, Apart
<1>7. EnginePayload(v) = EnginePayload(w)
  BY <1>2, <1>5 DEF EnginePayload, Apart
<1>8. Told(v)
  BY <1>2, <1>4, <1>5, <1>7 DEF Told, BroadcastOf, Apart
<1> QED
  BY <1>2, <1>4, <1>5, <1>6, <1>8 DEF Notified, Agree, Apart


(* The synchronisation at the start, when there is no badge and no mode    *)
(* has been told.                                                          *)
Blank(w) == w.ctl.badge = None /\ w.told.status = NoMode

(* The synchronisation at start notifies the whole state to those who      *)
(* listen.                                                                 *)
LEMMA SyncNotifies ==
    ASSUME NEW w, Base(w), Blank(w), NEW v, v = Sync(w)
    PROVE  Notified(w, v)
<1> DEFINE own == IF w.reg.kb = None THEN NoIcon ELSE Catalog[w.reg.kb].icon
           icon == IF w.reg.dyn # NoIcon THEN w.reg.dyn
                   ELSE IF own # NoIcon THEN own ELSE IF w.reg.kb # None THEN On ELSE Off
           fresh == [w EXCEPT !.ctl = [w.ctl EXCEPT !.engine = w.reg.kb, !.voice = w.reg.voice,
                                                    !.active = w.reg.kb # None, !.icon = icon,
                                                    !.mode = NoMode, !.lang = w.reg.lang]]
           one == Broadcast(fresh, "engine")
           two == Broadcast(one, "voice")
           three == Broadcast(two, "language")
<1>1. v = Broadcast(three, "icon")
  BY DEF Sync
<1> HIDE DEF icon
<1>2. /\ Shaped(fresh) /\ Apart(w, fresh) /\ fresh.told = w.told /\ fresh.tray = w.tray
      /\ fresh.news = w.news
      /\ fresh.ctl.engine = w.reg.kb /\ fresh.ctl.voice = w.reg.voice /\ fresh.ctl.active = (w.reg.kb # None)
      /\ fresh.ctl.mode = NoMode /\ fresh.ctl.badge = None /\ fresh.ctl.lang = w.reg.lang
  BY ZenonT(60) DEF Base, Blank, Shaped, Record, Apart
<1> HIDE DEF fresh
<1>3. Base(fresh)
  BY <1>2 DEF Base, TrayTyped, Wired, HostKnows, HostShows, Apart
<1>4. BroadcastOf(fresh, one, "engine")
  BY <1>3, BroadcastUpdates
<1> HIDE DEF one
<1>5. Base(one)
  BY <1>4 DEF BroadcastOf
<1>6. BroadcastOf(one, two, "voice") /\ TrayIs(two) /\ MenuIs(two)
  BY <1>5, BroadcastUpdates
<1> HIDE DEF two
<1>7. Base(two)
  BY <1>6 DEF BroadcastOf
<1>8. BroadcastOf(two, three, "language")
  BY <1>6, <1>7, BroadcastLanguage DEF TrayIs
<1> HIDE DEF three
<1>9. Base(three)
  BY <1>8 DEF BroadcastOf
<1>10. BroadcastOf(three, v, "icon") /\ TrayIs(v) /\ MenuIs(v)
  BY <1>1, <1>9, BroadcastUpdates
<1>11. /\ one.ctl = fresh.ctl /\ two.ctl = fresh.ctl /\ three.ctl = fresh.ctl /\ v.ctl = fresh.ctl
       /\ Apart(w, one) /\ Apart(w, two) /\ Apart(w, three) /\ Apart(w, v)
  BY <1>2, <1>4, <1>6, <1>8, <1>10 DEF BroadcastOf, Apart
<1>12. SnapshotIs(v) /\ BadgeIs(v)
  BY <1>2, <1>11 DEF SnapshotIs, BadgeIs, Apart
<1>13. /\ EnginePayload(one) = EnginePayload(w) /\ EnginePayload(fresh) = EnginePayload(w)
       /\ EnginePayload(v) = EnginePayload(w) /\ LanguagePayload(two)[1] = w.reg.lang
  BY <1>2, <1>11 DEF EnginePayload, LanguagePayload, Apart
<1>14. ASSUME "bus" \in w.app.listeners
       PROVE  /\ v.told.engine = EnginePayload(w) /\ v.told.language[1] = w.reg.lang
              /\ v.told.status = NoMode
  <2>1. /\ "bus" \in fresh.app.listeners /\ "bus" \in one.app.listeners
        /\ "bus" \in two.app.listeners /\ "bus" \in three.app.listeners
    BY <1>2, <1>11, <1>14 DEF Apart
  <2>2. one.told.status = NoMode
    BY <1>2, <1>4, <2>1 DEF BroadcastOf, Blank
  <2>3. two.told.status = NoMode /\ two.told.engine = EnginePayload(w)
    BY <1>6, <1>13, <2>1, <2>2 DEF BroadcastOf
  <2>4. /\ three.told.status = NoMode /\ three.told.engine = EnginePayload(w)
        /\ three.told.language[1] = w.reg.lang
    BY <1>8, <1>13, <2>1, <2>3 DEF BroadcastOf
  <2> QED
    BY <1>10, <2>1, <2>4 DEF BroadcastOf
<1>15. Told(v)
  BY <1>2, <1>11, <1>13, <1>14 DEF Told, Apart
<1> QED
  BY <1>10, <1>11, <1>12, <1>15 DEF Notified, Agree, BroadcastOf
=============================================================================

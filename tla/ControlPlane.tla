---------------------------- MODULE ControlPlane ----------------------------
(***************************************************************************)
(* Everything that switches engines and languages from outside the         *)
(* keyboard: requests on the control bus, the tray icon and its menu, the  *)
(* engines themselves and the configuration file, from the start of the    *)
(* process to its end.  libtypio's registry and the desktop's tray host    *)
(* are external.  A handler is an operator from the record w of the state  *)
(* to the set of its outcomes.                                             *)
(***************************************************************************)
EXTENDS StateController, Integers, FiniteSets

CONSTANTS
    Language,          \* the languages, in the order the registry lists them
    Manifest,          \* manifest files: [stem, name, needs, valid, dir]
    HostCapabilities,
    EngineDirs,        \* <<--engine-dir and environment and system>>
    ReloadDirs,        \* those engine.reload looks in
    Setting,           \* configuration entries: [key, what, of]
    Edits,             \* what a user may make of the configuration file
    Mode, Dynamic,     \* modes and status icons engines report
    MaxOps             \* bound: requests, clicks, reports and edits

In(list) == {list[i] : i \in DOMAIN list}
Garbled == {[key |-> "garbled", what |-> "none", of |-> None]}

ASSUME DirAssumption == ReloadDirs \in Seq(In(EngineDirs)) /\ EngineDirs \in Seq(In(EngineDirs))
ASSUME EngineAssumption == IsFiniteSet(Name) /\ \A m \in Manifest : m.name \in Name
ASSUME LanguageAssumption == Language \in Seq(In(Language)) /\ None \notin In(Language)
ASSUME EditAssumption == Edits \subseteq (SUBSET Setting) \cup {Garbled}

NotSeen == [there |-> FALSE, knows |-> FALSE, icon |-> NoIcon, badge |-> None, status |-> None, overlay |-> None,
            tip |-> NewTray.tip,
            menu |-> [langs |-> <<>>, kbs |-> <<>>, voices |-> <<>>, lang |-> None, kb |-> None, voice |-> None]]

VARIABLES
    reg,     \* libtypio's registry: [loaded, lang, kb, voice, dyn]
    conf,    \* the configuration: [mem, fe, disk, unsaved]; fe is what the frontend took from it,
             \* and unsaved that a setting was made but could not be written to the file
    watch,   \* its directory and the watch on it: [dir, on, seen, self, pending, blind],
             \* blind when it was changed behind the watch's back since it was last read
    ctl,     \* TypioStateController
    told,    \* the last notification on each topic
    tray,    \* TypioTray
    news,    \* signals the host has yet to act on
    host,    \* the tray host: whether it is there and knows the item, and what it shows
    app,     \* TypioApp: [phase, alive, listeners, hooked, stop, restart, signal, code, dangling]
    reply,   \* to the request just handled, or None
    ops

vars == <<reg, conf, watch, ctl, told, tray, news, host, app, reply, ops>>
World == [reg |-> reg, conf |-> conf, watch |-> watch, ctl |-> ctl, told |-> told, tray |-> tray,
          news |-> news, host |-> host, app |-> app, reply |-> None]
Become(ws) ==
    \E w \in ws : /\ reg' = w.reg /\ conf' = w.conf /\ watch' = w.watch /\ ctl' = w.ctl /\ told' = w.told
                  /\ tray' = w.tray /\ news' = w.news /\ host' = w.host /\ app' = w.app /\ reply' = w.reply

EmptyRegistry == [loaded |-> <<>>, lang |-> None, kb |-> None, voice |-> None, dyn |-> NoIcon]
NewApp == [phase |-> "down", alive |-> {}, listeners |-> {}, hooked |-> FALSE, stop |-> FALSE,
           restart |-> FALSE, signal |-> FALSE, code |-> 0, dangling |-> FALSE]
Unwatched == [dir |-> TRUE, on |-> FALSE, seen |-> FALSE, self |-> FALSE, pending |-> FALSE, blind |-> FALSE]

TypeOK ==
    /\ reg.lang \in {None} \cup {Language[i] : i \in DOMAIN Language}
    /\ {reg.kb, reg.voice} \ {None} \subseteq {reg.loaded[i] : i \in DOMAIN reg.loaded}
    /\ Cardinality({reg.loaded[i] : i \in DOMAIN reg.loaded}) = Len(reg.loaded)
    /\ conf.mem \subseteq Setting /\ conf.disk \in (SUBSET Setting) \cup {Garbled} /\ conf.unsaved \in BOOLEAN
    /\ tray.status \in {"Passive", "Active"} /\ news \subseteq Signals
    /\ app.phase \in {"down", "exec", "starting", "running", "leaving"}
    /\ app.alive \subseteq {"controller", "service", "bus", "tray"}
    /\ app.listeners \subseteq {"service", "bus", "tray"}

Init ==
    /\ reg = EmptyRegistry /\ ctl = Nothing /\ told = Untold /\ tray = NewTray /\ news = {}
    /\ host = [NotSeen EXCEPT !.there = TRUE] /\ app = NewApp /\ reply = None /\ ops = 0 /\ watch = Unwatched
    /\ \E d \in Edits \ {Garbled} : conf = [mem |-> {}, fe |-> {}, disk |-> d, unsaved |-> FALSE]

(***************************************************************************)
(* libtypio's registry.                                                    *)
(***************************************************************************)
(* What a list holds at the places in at, in its order.                    *)
Kept(list, at) ==
    [k \in 1..Cardinality(at) |-> list[CHOOSE i \in at : Cardinality({j \in at : j <= i}) = k]]

Listed(r, kind) == Kept(r.loaded, {i \in DOMAIN r.loaded : Catalog[r.loaded[i]].kind = kind})
Languages(w) ==
    Kept(Language, {i \in DOMAIN Language :
                       \/ \E s \in w.conf.mem : s.what = "language" /\ s.of = Language[i]
                       \/ \E e \in In(w.reg.loaded) : Language[i] \in Catalog[e].speaks})
Serving(w, lang, kind) ==
    LET speakers == {e \in In(Listed(w.reg, kind)) : lang \in Catalog[e].speaks}
    IN  IF speakers = {} THEN {None} ELSE speakers
Cycled(list, now, step) ==
    LET n == Len(list)
        at == IF now \in In(list) THEN CHOOSE i \in 1..n : list[i] = now ELSE (IF step = 1 THEN n ELSE 1)
    IN  list[((at - 1 + step + n) % n) + 1]

(* The application's callbacks, installed when the frontend is started and *)
(* silent once its controller is gone.                                     *)
Hooked(w) == w.app.hooked /\ "controller" \in w.app.alive
OnEngineChange(w, e) == IF Hooked(w) THEN NotifyEngineChanged(w, e) ELSE w
OnVoiceEngineChange(w, e) == IF Hooked(w) THEN NotifyVoiceEngineChanged(w, e) ELSE w

SetKeyboard(w, e) == OnEngineChange([w EXCEPT !.reg.kb = e], e)
SetVoice(w, e) == OnVoiceEngineChange([w EXCEPT !.reg.voice = e], e)
SetModal(w, e, kind) == IF kind = "voice" THEN SetVoice(w, e) ELSE SetKeyboard(w, e)

(* A language resolves to a keyboard and a voice engine, or to none.  The  *)
(* keyboard's callback is always called, the other perhaps not when the    *)
(* voice engine stays.                                                     *)
SetLanguage(w, lang) ==
    LET resolved == {SetKeyboard([w EXCEPT !.reg.lang = lang], k) : k \in Serving(w, lang, "keyboard")}
        voices == Serving(w, lang, "voice")
    IN  {SetVoice(x, v) : x \in resolved, v \in voices}
        \cup {x \in resolved : w.reg.voice \in voices}

CycleLanguage(w, step) == SetLanguage(w, Cycled(Languages(w), w.reg.lang, step))

(***************************************************************************)
(* The engine loader.                                                      *)
(***************************************************************************)
Disabled(w, e) == \E s \in w.conf.mem : s.what = "disabled" /\ s.of = e

Parsed(m) == m.valid
Negotiated(m) == m.needs \subseteq HostCapabilities
Acceptable(w, m) == Parsed(m) /\ ~Disabled(w, m.name) /\ Negotiated(m)
RegisterOne(w, m) ==
    IF Acceptable(w, m) /\ m.name \notin In(w.reg.loaded)
    THEN [w EXCEPT !.reg.loaded = Append(@, m.name)] ELSE w

Unload(w, e) ==
    LET rest == [w EXCEPT !.reg.loaded = Kept(@, {i \in DOMAIN @ : @[i] # e}),
                          !.reg.kb = IF @ = e THEN None ELSE @, !.reg.voice = IF @ = e THEN None ELSE @]
    IN  IF w.reg.kb = e THEN OnEngineChange(rest, None)
        ELSE IF w.reg.voice = e THEN OnVoiceEngineChange(rest, None) ELSE rest

(* Directories in their order, the files of one in any.  A name that is    *)
(* registered already stays with its first manifest.  The registry is      *)
(* empty before.                                                           *)
LoadDirs(w, dirs) ==
    LET found(e) == {i \in DOMAIN dirs : \E m \in Manifest : m.dir = dirs[i] /\ m.name = e /\ Acceptable(w, m)}
        names == {e \in Name : found(e) # {}}
        places == 1..Cardinality(names)
    IN  {[w EXCEPT !.reg.loaded = list] : list \in {s \in [places -> names] :
            \A i, j \in places : i < j => s[i] # s[j] /\ \E k \in found(s[i]) : \A l \in found(s[j]) : k <= l}}

(* Unload, whatever comes of it; then look for the manifest by its name.   *)
ReloadByName(w, e) ==
    LET found == {i \in DOMAIN ReloadDirs : \E m \in Manifest : m.dir = ReloadDirs[i] /\ m.stem = e}
        first == CHOOSE i \in found : \A j \in found : i <= j
    IN  IF found = {} THEN Unload(w, e)
        ELSE RegisterOne(Unload(w, e), CHOOSE m \in Manifest : m.dir = ReloadDirs[first] /\ m.stem = e)

(***************************************************************************)
(* The state service: w after a request, and how it was answered.          *)
(***************************************************************************)
Done(w) == [w EXCEPT !.reply = "ok"]
Refused(w) == [w EXCEPT !.reply = "invalid params"]
Failed(w) == [w EXCEPT !.reply = "internal error"]

(* Whether the file could be written is not looked at.  A write is an      *)
(* event on the directory.                                                 *)
Unsaved(w) == [w EXCEPT !.conf.unsaved = TRUE]
Written(w) == [w EXCEPT !.conf.disk = w.conf.mem, !.conf.unsaved = FALSE]
SaveUnseen(w) == {Unsaved(w)} \cup (IF w.watch.dir THEN {Written(w)} ELSE {})
Save(w) ==
    {Unsaved(w)} \cup (IF w.watch.dir THEN {[Written(w) EXCEPT !.watch.seen = @ \/ w.watch.on]} ELSE {})

(* Requests that only read answer from the registry and the configuration  *)
(* as they are; those that name something unknown are refused.             *)
Hello(w) == {Done(w)}
DaemonVersion(w) == {Done(w)}
DaemonStatus(w) == {Done(w)}
ConfigGet(w, s) == {Done(w)} \cup (IF s \in w.conf.mem THEN {} ELSE {Refused(w)})
ConfigList(w) == {Done(w)}
ConfigShow(w) == {Done(w)}
EngineList(w) == {Done(w)}
EngineDescribe(w, e) == {IF e \in In(w.reg.loaded) THEN Done(w) ELSE Refused(w)}
LanguageList(w) == {Done(w)}

(* What a command does to its engine is left to EngineMode and EngineIcon. *)
EngineInvoke(w, e) ==
    IF e \in In(w.reg.loaded) THEN {Done(w), Refused(w), Failed(w), [w EXCEPT !.reply = "method not found"]}
    ELSE {Refused(w)}

(* Setting a key replaces its value.  An engine whose key it is hears of   *)
(* it, but not of a key unset.                                             *)
ConfigSet(w, s) ==
    {Failed(w)} \cup {Done(x) : x \in Save([w EXCEPT !.conf.mem = {x \in @ : x.key # s.key} \cup {s}])}
ConfigUnset(w, s) ==
    IF s \notin w.conf.mem THEN {Refused(w)}
    ELSE {Done(x) : x \in Save([w EXCEPT !.conf.mem = @ \ {s}])}
ConfigReload(w) ==
    {IF w.conf.disk = Garbled THEN Failed(w)
     ELSE Done([w EXCEPT !.conf.mem = w.conf.disk, !.conf.unsaved = FALSE])}

(* keyboard.use and voice.use: the verb fixes the kind.                    *)
ModalUseThenCheck(w, e, kind) ==
    IF e \notin In(w.reg.loaded) THEN {Refused(w)}
    ELSE {IF Catalog[e].kind = kind THEN Done(x) ELSE Refused(x) : x \in Save(SetModal(w, e, Catalog[e].kind))}
ModalUse(w, e, kind) ==
    IF e \notin In(Listed(w.reg, kind)) THEN {Refused(w)}
    ELSE {Failed(w)} \cup {Done(x) : x \in Save(SetModal(w, e, kind))}

(* Cycling, unlike using, does not save.                                   *)
ModalCycle(w, kind, step) ==
    LET list == Listed(w.reg, kind)
        now == IF kind = "voice" THEN w.reg.voice ELSE w.reg.kb
    IN  {Failed(w)}
        \cup (IF list = <<>> THEN {}
              ELSE {Done(SetModal(w, Cycled(list, now, step), kind))})

LanguageUse(w, lang) ==
    {Failed(w)}
    \cup (IF lang \in In(Languages(w)) THEN {Done(x) : x \in UNION {Save(y) : y \in SetLanguage(w, lang)}} ELSE {})
LanguageCycle(w, step) ==
    IF Languages(w) = <<>> THEN {Refused(w)}
    ELSE {Failed(w)}
         \cup {Done(x) : x \in CycleLanguage(w, step)}

LoadSingle(w, m) == IF m.stem = None THEN w ELSE RegisterOne(w, m)
EngineLoad(w, m) ==
    {IF LoadSingle(w, m) = w THEN Failed(w) ELSE Done(LoadSingle(w, m))}
EngineUnload(w, e) ==
    {IF e \in In(w.reg.loaded) THEN Done(Unload(w, e)) ELSE Refused(w)}
EngineReload(w, e) ==
    {IF r = Unload(w, e) THEN [r EXCEPT !.reply = "not reloaded"] ELSE Done(r) :
        r \in {ReloadByName(w, e)} \cup {LoadSingle(Unload(w, e), m) : m \in Manifest}}

RequestStop(w) == [w EXCEPT !.app.stop = TRUE]
DaemonStop(w) == {Done(RequestStop(w))}

(***************************************************************************)
(* Handlers as actions.                                                    *)
(***************************************************************************)
Running == app.phase = "running"
Spend == ops < MaxOps /\ ops' = ops + 1
Free == UNCHANGED ops

Ask(ws) == Running /\ "bus" \in app.alive /\ Spend /\ Become(ws)
Request ==
    \/ Ask(Hello(World)) \/ Ask(DaemonVersion(World)) \/ Ask(DaemonStatus(World)) \/ Ask(DaemonStop(World))
    \/ Ask(ConfigList(World)) \/ Ask(ConfigShow(World)) \/ Ask(ConfigReload(World))
    \/ \E s \in Setting : Ask(ConfigGet(World, s)) \/ Ask(ConfigSet(World, s)) \/ Ask(ConfigUnset(World, s))
    \/ Ask(EngineList(World)) \/ Ask(LanguageList(World))
    \/ \E e \in Name : Ask(EngineDescribe(World, e)) \/ Ask(EngineInvoke(World, e))
    \/ \E kind \in {"keyboard", "voice"} :
          \/ \E e \in Name : Ask(ModalUse(World, e, kind))
          \/ \E step \in {1, -1} : Ask(ModalCycle(World, kind, step))
    \/ \E l \in In(Language) : Ask(LanguageUse(World, l))
    \/ \E step \in {1, -1} : Ask(LanguageCycle(World, step))
    \/ \E m \in Manifest : Ask(EngineLoad(World, m))
    \/ \E e \in Name : Ask(EngineUnload(World, e)) \/ Ask(EngineReload(World, e))

(* What the tray asks of the application.  Any switch may fail; where there *)
(* is no language the wheel turns the keyboards.                           *)
MarkRestart(w) == [w EXCEPT !.app.restart = TRUE]
RequestRestart(w) == RequestStop(MarkRestart(w))
CycleFromTray(w, step) ==
    LET kbs == Listed(w.reg, "keyboard")
    IN  IF Languages(w) # <<>> THEN CycleLanguage(w, step)
        ELSE IF kbs = <<>> THEN {} ELSE {SetKeyboard(w, Cycled(kbs, w.reg.kb, step))}
MenuCallback(w, action, of) ==
    CASE action = "quit"     -> {RequestStop(w)}
      [] action = "restart"  -> {RequestRestart(w)}
      [] action \in {"activate", "scroll_down"} -> {w} \cup CycleFromTray(w, 1)
      [] action = "scroll_up" -> {w} \cup CycleFromTray(w, -1)
      [] action = "language" -> {w} \cup SetLanguage(w, of)
      [] action = "engine"   -> {w, SetKeyboard(w, of)}
      [] action = "voice"    -> {w, SetVoice(w, of)}
      [] action \in {"context_menu", "secondary_activate"} -> {w}

Click(ws) == Running /\ "tray" \in app.alive /\ host.knows /\ Spend /\ Become(ws)
IconClick ==
    \E action \in {"activate", "secondary_activate", "context_menu", "scroll_up", "scroll_down"} :
       Click(MenuCallback(World, action, None))

(* A click on the menu sends the number of the item as it was drawn, and   *)
(* the handler looks it up in the lists as they are.                       *)
MenuEvent(action, drawn, list) ==
    \E i \in DOMAIN drawn :
       Click(IF i \in DOMAIN list THEN MenuCallback(World, action, list[i]) ELSE {World})
MenuClick ==
    \/ MenuEvent("language", host.menu.langs, Languages(World))
    \/ MenuEvent("engine", host.menu.kbs, Listed(reg, "keyboard"))
    \/ MenuEvent("voice", host.menu.voices, Listed(reg, "voice"))
    \/ \E action \in {"restart", "quit"} : Click(MenuCallback(World, action, None))

(* The active engine reports its mode or its icon, or that it has none.    *)
EngineMode ==
    \E m \in {x \in Mode : x.of = reg.kb} \cup {NoMode} :
       Running /\ Spend /\ Become({NotifyStatusChanged(World, m)})
EngineIcon ==
    \E d \in {x \in Dynamic : x.of = reg.kb} \cup {NoIcon} :
       Running /\ Spend /\ Become({NotifyStatusIconChanged([World EXCEPT !.reg.dyn = d], d)})

(***************************************************************************)
(* The configuration file and the watch on it.                             *)
(***************************************************************************)
Refreshed(w) ==
    LET read == [w EXCEPT !.conf.mem = w.conf.disk, !.conf.fe = w.conf.disk, !.conf.unsaved = FALSE,
                              !.watch.blind = FALSE]
        wanted == {s.of : s \in {x \in w.conf.disk : x.what = "voice"}}
                     \cap (In(Listed(w.reg, "voice")) \ {w.reg.voice})
    IN  IF wanted = {} THEN read ELSE SetVoice(read, CHOOSE e \in wanted : TRUE)
RuntimeConfigRefresh(w) == IF w.conf.disk = Garbled THEN w ELSE Refreshed(w)

Reload(w) == RuntimeConfigRefresh([w EXCEPT !.watch.pending = FALSE])

(* Someone edits the file, takes its directory away, or puts one back.     *)
Edit ==
    /\ app.phase \in {"starting", "running"} /\ Spend
    /\ \/ /\ watch.dir
          /\ \E d \in Edits : Become({[World EXCEPT !.conf.disk = d, !.watch.seen = @ \/ watch.on,
                                                    !.watch.blind = @ \/ ~watch.on]})
       \/ /\ watch.dir
          /\ Become({[World EXCEPT !.conf.disk = Garbled, !.watch.dir = FALSE, !.watch.on = FALSE,
                                   !.watch.self = watch.on, !.watch.blind = TRUE]})
       \/ /\ ~watch.dir
          /\ \E d \in Edits : Become({[World EXCEPT !.conf.disk = d, !.watch.dir = TRUE, !.watch.blind = TRUE]})

(* Whatever was seen is followed by a reload, after a pause that starts    *)
(* over with every event; at once when there is no timer for it.           *)
HandleConfigWatch ==
    /\ Running /\ (watch.seen \/ watch.self) /\ Free
    /\ LET w == [World EXCEPT !.watch.seen = FALSE, !.watch.self = FALSE,
                              !.watch.on = IF watch.self THEN watch.dir ELSE @]
       IN  Become({[w EXCEPT !.watch.pending = TRUE], Reload(w)})

DispatchConfigReload == Running /\ watch.pending /\ Free /\ Become({Reload(World)})

(***************************************************************************)
(* The watcher and the host.                                               *)
(***************************************************************************)
(* A host that accepts the item reads all of it; one call may fail.        *)
Register(w) ==
    {[w EXCEPT !.tray.registered = FALSE]}
    \cup (IF w.host.there THEN {[w EXCEPT !.tray.registered = TRUE, !.host.knows = TRUE, !.news = Signals]} ELSE {})

(* Its owner comes, goes, or is replaced by another at once.  An item that *)
(* thinks itself registered does not register again.                       *)
WatcherOwnerChanged(w) ==
    IF "tray" \notin w.app.alive THEN {w}
    ELSE IF ~w.host.there THEN {[w EXCEPT !.tray.registered = FALSE]}
    ELSE IF w.tray.registered THEN {w} ELSE Register(w)
HostComesOrGoes ==
    /\ app.phase \in {"down", "running"} /\ Spend
    /\ \E there \in {TRUE, ~host.there} :
          Become(WatcherOwnerChanged([World EXCEPT !.host = [NotSeen EXCEPT !.there = there], !.news = {}]))

(* The host reads what the signals it got announce.                        *)
Layout(w) ==
    [langs |-> Languages(w), kbs |-> Listed(w.reg, "keyboard"), voices |-> Listed(w.reg, "voice"),
     lang |-> w.reg.lang, kb |-> w.tray.engine, voice |-> w.reg.voice]
Shown(h, sigs) ==
    LET Read(sig, new, old) == IF sig \in sigs THEN new ELSE old
    IN  [h EXCEPT !.icon = Read("NewIcon", IF tray.badge # None THEN NoIcon ELSE tray.icon, @),
                  !.badge = Read("NewIcon", tray.badge, @),
                  !.status = Read("NewStatus", tray.status, @),
                  !.overlay = Read("NewOverlayIcon", tray.overlay, @),
                  !.tip = Read("NewToolTip", tray.tip, @),
                  !.menu = Read("LayoutUpdated", Layout(World), @)]
HostReads ==
    /\ host.knows /\ "tray" \in app.alive /\ news # {} /\ Free
    /\ Become({[World EXCEPT !.host = Shown(host, news), !.news = {}]})

(***************************************************************************)
(* The process.                                                            *)
(***************************************************************************)
(* What the registry may start with: an engine, or a language it serves.   *)
Restored(w) ==
    {[w EXCEPT !.reg.kb = k] : k \in {None} \cup In(Listed(w.reg, "keyboard"))}
    \cup UNION {{[w EXCEPT !.reg.lang = l, !.reg.kb = k] : k \in Serving(w, l, "keyboard")} : l \in In(Languages(w))}

InitIpcBus(w) ==
    {w, [w EXCEPT !.app.alive = @ \cup {"service", "bus"}, !.app.listeners = @ \cup {"service", "bus"}]}
InitTray(w) ==
    {w} \cup {UpdateTray(x) : x \in Register([w EXCEPT !.app.alive = @ \cup {"tray"}, !.app.listeners = @ \cup {"tray"}])}

(* typio_app_init, then the bus and the tray of typio_app_run.             *)
Start ==
    /\ app.phase \in {"down", "exec"} /\ Free
    /\ LET read == IF conf.disk = Garbled THEN {} ELSE conf.disk
           w == [World EXCEPT !.conf.mem = read, !.app = [NewApp EXCEPT !.phase = "starting", !.alive = {"controller"}]]
       IN  \E x \in UNION {Restored(y) : y \in LoadDirs(w, EngineDirs)} :
              Become(UNION {InitTray(y) : y \in InitIpcBus(x)})

(* Callbacks, a full synchronisation, and the frontend, which may fail.    *)
RunWayland ==
    /\ app.phase = "starting" /\ Free
    /\ LET synced == Sync([World EXCEPT !.app.hooked = TRUE])
       IN  Become({[synced EXCEPT !.app.phase = "running", !.conf.fe = conf.mem, !.watch.on = watch.dir],
                   [synced EXCEPT !.app.phase = "leaving", !.app.code = 1]})

(* A signal before there is a frontend is noted, and no more.              *)
Signal ==
    /\ app.phase \in {"starting", "running"} /\ ~app.stop /\ Free
    /\ Become({[World EXCEPT !.app.signal = TRUE, !.app.stop = app.phase = "running"]})

(* The loop ends when it is told to, or fails.                             *)
Leave ==
    /\ Running /\ Free
    /\ \E code \in {1} \cup (IF app.stop THEN {0} ELSE {}) :
          Become({[World EXCEPT !.app.phase = "leaving", !.app.code = code,
                                !.watch = [Unwatched EXCEPT !.dir = watch.dir]]})

DestroyRuntimeServices(w) ==
    [w EXCEPT !.app.alive = @ \ {"tray", "bus", "service"}, !.app.listeners = @ \ {"bus"}]
FreeController(w) == [w EXCEPT !.app.alive = @ \ {"controller"}, !.app.listeners = {}]
(* Engines are unloaded on the way, which may be reported.                 *)
FreeInstance(w) == {w, OnEngineChange([w EXCEPT !.reg.kb = None], None)}

AppShutdownInstanceFirst(w) == {FreeController(x) : x \in FreeInstance(DestroyRuntimeServices(w))}
AppShutdown(w) == FreeInstance(FreeController(DestroyRuntimeServices(w)))

(* A restart is an execv, and only after a clean end.  One that fails ends *)
(* the process with a failure.                                             *)
Exits(a) ==
    IF a.restart /\ a.code = 0 THEN {[phase |-> "exec", code |-> 0], [phase |-> "down", code |-> 1]}
    ELSE {[phase |-> "down", code |-> a.code]}
Finish ==
    /\ app.phase = "leaving" /\ Free
    /\ \E w \in AppShutdown(World), exit \in Exits(app) :
          Become({[w EXCEPT !.reg = EmptyRegistry, !.ctl = Nothing, !.tray = NewTray, !.told = Untold, !.news = {},
                            !.conf.mem = {}, !.conf.fe = {}, !.conf.unsaved = FALSE,
                            !.host = [NotSeen EXCEPT !.there = host.there],
                            !.app = [NewApp EXCEPT !.phase = exit.phase, !.code = exit.code,
                                                   !.dangling = w.app.dangling]]})

Next ==
    \/ Start \/ RunWayland \/ Signal \/ Leave \/ Finish
    \/ Request \/ IconClick \/ MenuClick \/ EngineMode \/ EngineIcon
    \/ Edit \/ HandleConfigWatch \/ DispatchConfigReload \/ HostComesOrGoes \/ HostReads

(* The loop tests its flag after every wait; the exit path waits for no    *)
(* one: WF_vars of both, with its ENABLED written out.                     *)
Fair ==
    /\ []<>~(Running /\ app.stop) \/ []<><<app.stop /\ Leave>>_vars
    /\ []<>~(app.phase = "leaving") \/ []<><<Finish>>_vars
Spec == Init /\ [][Next]_vars /\ Fair

(***************************************************************************)
(* Properties.                                                             *)
(***************************************************************************)
(* Between two handlers the snapshot is the registry, whichever path the   *)
(* change took and although a language has no callback of its own.         *)
SnapshotIsRegistry ==
    Running => /\ ctl.engine = reg.kb /\ ctl.voice = reg.voice /\ ctl.lang = reg.lang
               /\ ctl.active = (reg.kb # None)

(* What subscribers were last told is so: the engines, the language, and   *)
(* the mode.                                                               *)
SubscribersKnow ==
    Running /\ "bus" \in app.alive =>
       told.engine = EnginePayload(World) /\ told.language[1] = reg.lang /\ told.status = ctl.mode

(* The tray item is the snapshot, but for two things: a badge that cannot  *)
(* be drawn, and the status where no keyboard engine but a language is     *)
(* active, which a change of language alone does not renew.                *)
TrayShowsState ==
    Running /\ "tray" \in app.alive =>
       /\ tray.engine = ctl.engine /\ (tray.overlay = None <=> ctl.voice = None)
       /\ ctl.active \/ ctl.lang = None => tray.status = IF ctl.active THEN "Active" ELSE "Passive"
       /\ tray.tip = [lang |-> ctl.lang, engine |-> ctl.engine, voice |-> ctl.voice, mode |-> ctl.mode]
       /\ ctl.badge \in Renders => tray.badge = ctl.badge
       /\ ctl.badge = None => tray.badge = None /\ tray.icon = IF ctl.icon = NoIcon THEN On ELSE ctl.icon

(* A badge is that of the active language, never of the one before.        *)
BadgeIsOfLanguage == Running /\ ctl.badge # None => ctl.badge = reg.lang

(* A host that knows the item shows it as it is, or has a signal to come   *)
(* that will make it look.                                                 *)
HostIsCurrent ==
    Running /\ host.knows =>
       /\ Shown(host, Signals \ (news \cup {"LayoutUpdated"})) = host
       /\ "LayoutUpdated" \notin news =>
             host.menu.kb = tray.engine /\ host.menu.lang = reg.lang /\ host.menu.voice = reg.voice

(* No listener outlives its object and is called.                          *)
NotifiedAreAlive == ~app.dangling

(* The configuration in use is the file, unless a reload is on its way,    *)
(* the file changed unwatched, or a setting could not be written, which    *)
(* nobody is told; and the frontend's part of it even then.                *)
ConfigIsCurrent ==
    Running /\ watch.on /\ ~watch.seen /\ ~watch.self /\ ~watch.pending /\ ~watch.blind /\ conf.disk # Garbled
       => (conf.unsaved \/ conf.mem = conf.disk) /\ conf.fe = conf.disk

(* A request that is refused or fails has changed nothing; engine.reload   *)
(* alone may fail half-way.                                                *)
RefusedChangesNothing ==
    [][reply' \in {"invalid params", "internal error", "method not found"}
          => UNCHANGED <<reg, conf, ctl, tray, told, app>>]_vars

(* A restart asked for is carried out, or the process ends with a failure, *)
(* that of its loop or that of the execv; it never ends well without.      *)
RestartIsCarriedOut == Running /\ app.restart ~> app.phase = "exec" \/ app.code = 1
=============================================================================

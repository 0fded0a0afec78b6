------------------------------ MODULE Identity ------------------------------
(***************************************************************************)
(* The focused application: the toplevels the compositor lists, the one    *)
(* taken for focused, and the keyboard engine remembered for its app_id.   *)
(* The listener of a toplevel handle is given the provider, while its      *)
(* title, app_id and identifier callbacks take what they are given for a   *)
(* toplevel: these fields lie where the provider has its list object and   *)
(* the two links of its list of toplevels.                                 *)
(***************************************************************************)
EXTENDS Naturals

CONSTANTS
    Handle,       \* handles of toplevels
    App, Engine,
    None,
    MaxSerial     \* bound: serials given out

VARIABLES
    up,        \* the process runs; nothing is said of it once it wrote out of place
    list,      \* provider->list: "none", "live", or "overwritten"
    toplevel,  \* the recorded toplevels: [handle, app, serial]
    next,      \* next_serial
    told,      \* what the compositor said of each handle it listed: [app, done]
    focused,   \* whether a field is focused
    identity,  \* frontend->current_identity: an app_id, or None
    engine,    \* the active keyboard engine, or None
    prefs      \* the engine stored for each application, or None

vars == <<up, list, toplevel, next, told, focused, identity, engine, prefs>>
provider == <<list, toplevel, next>>
client == <<focused, identity, engine, prefs>>

Init ==
    /\ up = TRUE /\ list = "none" /\ toplevel = {} /\ next = 1 /\ told = << >>
    /\ focused = FALSE /\ identity = None /\ engine = None /\ prefs = [a \in App |-> None]

(* The toplevel of the highest serial.                                     *)
Current(tops) == CHOOSE t \in tops : \A u \in tops : u.serial <= t.serial

Listed == DOMAIN told
Recorded(h) == {t \in toplevel : t.handle = h}

(* Binding drops what is left of an earlier binding, then makes a round    *)
(* trip that brings the list object when the compositor has one.           *)
Bind ==
    /\ up /\ list = "none" /\ list' \in {"none", "live"} /\ toplevel' = {}
    /\ told' = << >> /\ UNCHANGED <<up, next>> /\ UNCHANGED client

(* Unbinding destroys the list object through a pointer that may have been *)
(* overwritten.                                                            *)
Unbind ==
    /\ up /\ up' = (list # "overwritten") /\ list' = "none" /\ toplevel' = {} /\ told' = << >>
    /\ focused' = FALSE /\ identity' = None /\ UNCHANGED <<next, engine, prefs>>

(* An event of the freed list object may do anything.                      *)
MayFail == up' \in {TRUE, list = "live"}

HandleListToplevel(h) ==
    /\ up /\ MayFail /\ list # "none" /\ h \notin Listed /\ next < MaxSerial
    /\ told' = [x \in Listed \cup {h} |-> IF x = h THEN [app |-> None, done |-> FALSE] ELSE told[x]]
    /\ toplevel' = toplevel \cup {[handle |-> h, app |-> None, serial |-> next]}
    /\ next' = next + 1 /\ UNCHANGED list /\ UNCHANGED client

(* The text replaces the list object's pointer, after the object is freed. *)
HandleAppId(h, a) ==
    /\ up /\ h \in Listed /\ told' = [told EXCEPT ![h].app = a]
    /\ list' = "overwritten" /\ UNCHANGED <<up, toplevel, next>> /\ UNCHANGED client

(* A link of the list points inside an object, and freeing it ends the     *)
(* process.                                                                *)
HandleTitle(h) ==
    /\ up /\ h \in Listed /\ up' = FALSE /\ UNCHANGED told /\ UNCHANGED provider /\ UNCHANGED client
HandleIdentifier(h) == HandleTitle(h)

HandleDone(h) ==
    /\ up /\ h \in Listed /\ next < MaxSerial /\ told' = [told EXCEPT ![h].done = TRUE]
    /\ toplevel' = {IF t.handle = h THEN [t EXCEPT !.serial = next] ELSE t : t \in toplevel}
    /\ next' = next + 1 /\ UNCHANGED <<up, list>> /\ UNCHANGED client

HandleClosed(h) ==
    /\ up /\ h \in Listed /\ told' = [x \in Listed \ {h} |-> told[x]]
    /\ toplevel' = toplevel \ Recorded(h) /\ UNCHANGED <<up, list, next>> /\ UNCHANGED client

HandleListFinished ==
    /\ up /\ MayFail /\ list # "none" /\ list' = "none" /\ toplevel' = {} /\ told' = << >>
    /\ UNCHANGED next /\ UNCHANGED client

(* Focus takes the current toplevel's application for the client's, and    *)
(* the engine remembered for it; an application without an app_id is none. *)
QueryCurrent == IF toplevel = {} THEN None ELSE Current(toplevel).app
FocusIn ==
    /\ up /\ ~focused /\ focused' = TRUE /\ identity' = QueryCurrent
    /\ engine' = IF identity' # None /\ prefs[identity'] # None THEN prefs[identity'] ELSE engine
    /\ UNCHANGED <<up, told, prefs>> /\ UNCHANGED provider
FocusOut ==
    /\ up /\ focused /\ focused' = FALSE /\ identity' = None
    /\ UNCHANGED <<up, told, engine, prefs>> /\ UNCHANGED provider

(* A change of the engine is remembered for the identity of the moment.    *)
RememberActiveEngine(e) ==
    /\ up /\ engine' = e
    /\ prefs' = IF identity = None THEN prefs ELSE [prefs EXCEPT ![identity] = e]
    /\ UNCHANGED <<up, told, focused, identity>> /\ UNCHANGED provider

Next ==
    \/ Bind \/ Unbind \/ HandleListFinished \/ FocusIn \/ FocusOut
    \/ \E h \in Handle : \/ HandleListToplevel(h) \/ HandleTitle(h) \/ HandleIdentifier(h)
                         \/ HandleDone(h) \/ HandleClosed(h)
                         \/ \E a \in App : HandleAppId(h, a)
    \/ \E e \in Engine : RememberActiveEngine(e)

Spec == Init /\ [][Next]_vars

(* Being told of toplevels does not end the daemon, and every toplevel the *)
(* compositor described completely is tracked under the app_id it was      *)
(* given (identity.h: the module "tracks every mapped toplevel's app_id /  *)
(* title / identifier").                                                   *)
TracksToplevels ==
    /\ up
    /\ \A h \in Listed : told[h].done /\ told[h].app # None => \E t \in Recorded(h) : t.app = told[h].app
=============================================================================

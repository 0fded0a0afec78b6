--------------------------- MODULE KeyRouterProofs ---------------------------
(***************************************************************************)
(* Theorems about KeyRouter, for any keys, bindings, buffer and traffic:   *)
(* type correctness, no phantom modifier, no undecided chord that nobody   *)
(* holds, tracked keys are down, releases match presses, and repeats end.  *)
(***************************************************************************)
EXTENDS KeyRouter, SequenceTheorems, TLAPS

-----------------------------------------------------------------------------
(* What routing an event of key k does to the host.                        *)

(* It concerns k alone, and neither the grab nor the arbiter. *)
SameGrab(f, g) ==
    /\ g.grab = f.grab /\ g.focus = f.focus /\ g.young = f.young /\ g.phys = f.phys /\ g.xkb = f.xkb
    /\ g.saw = f.saw /\ g.buffer = f.buffer /\ g.todo = f.todo /\ g.ready = f.ready
Elsewhere(f, g, k) ==
    \A j \in Key \ {k} : /\ g.track[j] = f.track[j] /\ (j \in g.owned <=> j \in f.owned)
                         /\ (j \in g.heard <=> j \in f.heard) /\ (j \in g.down <=> j \in f.down)

(* Of a key itself: tracked as given away it is down, and one the engine   *)
(* may be given a release of has been heard.                               *)
Matched(f, k) ==
    /\ f.track[k] \in {"FORWARDED", "APP_SHORTCUT"} => k \in f.down
    /\ k \in f.owned /\ f.track[k] \in {"IDLE", "FORWARDED"} => k \in f.heard

Near(f, g, k) == g \in Host /\ SameGrab(f, g) /\ Elsewhere(f, g, k)
Routed(f, g, k) == Near(f, g, k) /\ (Matched(f, k) => Matched(g, k))

(* Two calls in a row that leave all keys but one alone leave all keys but *)
(* one alone.                                                              *)
LEMMA NearTransitive ==
    ASSUME NEW f, NEW g, NEW x, NEW k, Near(f, g, k), Near(g, x, k)
    PROVE  Near(f, x, k)
  BY DEF Near, SameGrab, Elsewhere

(* The same for calls that route a key. *)
LEMMA RoutedTransitive ==
    ASSUME NEW f, NEW g, NEW x, NEW k, Routed(f, g, k), Routed(g, x, k)
    PROVE  Routed(f, x, k)
  BY NearTransitive DEF Routed

(* The user's part of an event: what a press and a release give the application. *)
LEMMA ForwardFacts ==
    ASSUME NEW f \in Host, NEW k \in Key, NEW press \in BOOLEAN,
           press \/ f.track[k] \notin {"FORWARDED", "APP_SHORTCUT"}
    PROVE  /\ Routed(f, Forward(f, k, press), k)
           /\ Forward(f, k, press).repeat = f.repeat /\ Forward(f, k, press).track = f.track
           /\ Forward(f, k, press).down = IF press THEN f.down \cup {k} ELSE f.down \ {k}
  BY ZenonT(60) DEF Host, Forward, Routed, Near, SameGrab, Elsewhere, Matched

(* Clearing the tracking of a key forgets the key and touches no other. *)
LEMMA ClearTrackingFacts ==
    ASSUME NEW f \in Host, NEW k \in Key
    PROVE  /\ Routed(f, ClearTracking(f, k), k)
           /\ ClearTracking(f, k).repeat = f.repeat /\ ClearTracking(f, k).down = f.down
           /\ ClearTracking(f, k).track[k] = "IDLE" /\ k \notin ClearTracking(f, k).owned
  BY DEF Host, Track, ClearTracking, Routed, Near, SameGrab, Elsewhere, Matched

(* Asking the engine about a release claims nothing and changes no track. *)
LEMMA AskReleaseFacts ==
    ASSUME NEW f \in Host, NEW k \in Key, NEW a \in Answer, k \notin f.owned
    PROVE  /\ Routed(f, AskRelease(f, k, a), k)
           /\ AskRelease(f, k, a).repeat = f.repeat /\ AskRelease(f, k, a).down = f.down
           /\ AskRelease(f, k, a).track = f.track
  BY DEF Host, Answer, AskRelease, Routed, Near, SameGrab, Elsewhere, Matched

(* Asking the engine about a press is remembered, so that its release will *)
(* be offered too.                                                         *)
LEMMA AskPressFacts ==
    ASSUME NEW f \in Host, NEW k \in Key, NEW a \in Answer
    PROVE  /\ Near(f, AskPress(f, k, a), k)
           /\ AskPress(f, k, a).repeat = f.repeat /\ AskPress(f, k, a).down = f.down
           /\ AskPress(f, k, a).track = f.track /\ AskPress(f, k, a).owned = f.owned
           /\ k \in AskPress(f, k, a).heard
  BY DEF Host, Answer, AskPress, Near, SameGrab, Elsewhere

(* A press that is decided anew belongs to the generation of the grab. *)
LEMMA ClaimFacts ==
    ASSUME NEW f \in Host, NEW k \in Key
    PROVE  /\ Near(f, Claim(f, k), k)
           /\ Claim(f, k).repeat = f.repeat /\ Claim(f, k).down = f.down
           /\ Claim(f, k).track = f.track /\ Claim(f, k).heard = f.heard
  BY DEF Host, Claim, Near, SameGrab, Elsewhere

(* A tracking state that is set, and nothing with it. *)
TrackedAs(f, g, k, t) ==
    /\ Near(f, g, k) /\ g.track[k] = t
    /\ g.repeat = f.repeat /\ g.down = f.down /\ g.owned = f.owned /\ g.heard = f.heard

(* Setting a key's track sets that one only. *)
LEMMA TrackedFacts ==
    ASSUME NEW f \in Host, NEW k \in Key, NEW t \in Track
    PROVE  TrackedAs(f, [f EXCEPT !.track[k] = t], k, t)
  BY DEF Host, TrackedAs, Near, SameGrab, Elsewhere

(* Push-to-talk tracks no key. *)
LEMMA VoiceFacts ==
    ASSUME NEW f \in Host, NEW k \in Key, NEW v \in BOOLEAN
    PROVE  TrackedAs(f, [f EXCEPT !.voice = v], k, f.track[k])
  BY DEF Host, TrackedAs, Near, SameGrab, Elsewhere

(* Outcomes of a press that the tracking does not decide: kept for voice or *)
(* an engine that is not ready, heard by the engine, or given away.        *)
Decided(f, g, k) ==
    /\ Near(f, g, k) /\ g.repeat = f.repeat
    /\ \/ g.track[k] \in {"VOICE_PTT", "VOICE_PTT_UNAVAIL", "ENGINE_NOT_READY"} /\ g.down = f.down
       \/ g.track[k] \in {"IDLE", f.track[k]} /\ k \in g.heard /\ g.down = f.down
       \/ g.track[k] = "FORWARDED" /\ k \in g.heard /\ g.down = f.down \cup {k}
       \/ g.track[k] = "APP_SHORTCUT" /\ k \notin ModifierKey /\ g.down = f.down \cup {k}

(* A first press is decided once: to the engine, to the application, or to *)
(* neither.                                                                *)
LEMMA RouteFreshFacts ==
    ASSUME NEW f \in Host, NEW e \in Event, NEW a \in Answer, NEW available \in BOOLEAN,
           NEW k, k = e.key, NEW g, g = RouteFresh(f, e, a, available)
    PROVE  Decided(f, g, k)
  <1> DEFINE asked == AskPress(f, k, a)
             given == Forward(asked, k, TRUE)
  <1>1. k \in Key
    BY DEF Event
  <1>2. /\ Near(f, asked, k) /\ asked.repeat = f.repeat
        /\ asked.down = f.down /\ asked.track = f.track /\ k \in asked.heard
    BY <1>1, AskPressFacts
  <1>3. CASE IsPtt(k, e.mods)
    <2> DEFINE v == [f EXCEPT !.voice = TRUE]
               vt == [v EXCEPT !.track[k] = "VOICE_PTT"]
               ft == [f EXCEPT !.track[k] = "VOICE_PTT_UNAVAIL"]
    <2>1. TrackedAs(f, v, k, f.track[k]) /\ v \in Host
      BY <1>1, VoiceFacts DEF TrackedAs, Near
    <2>2. g = IF available THEN vt ELSE ft
      BY <1>3 DEF RouteFresh
    <2>3. TrackedAs(f, ft, k, "VOICE_PTT_UNAVAIL")
      BY <1>1, TrackedFacts DEF Track
    <2> HIDE DEF v, ft
    <2>4. TrackedAs(v, vt, k, "VOICE_PTT")
      BY <1>1, <2>1, TrackedFacts DEF Track
    <2> HIDE DEF vt
    <2>5. Near(f, vt, k)
      BY <2>1, <2>4, NearTransitive DEF TrackedAs
    <2>6. QED
      BY <2>1, <2>2, <2>3, <2>4, <2>5 DEF Decided, TrackedAs
  <1>4. CASE ~IsPtt(k, e.mods) /\ ~f.ready
    <2>1. g = [f EXCEPT !.track[k] = "ENGINE_NOT_READY"]
      BY <1>4 DEF RouteFresh
    <2>2. TrackedAs(f, g, k, "ENGINE_NOT_READY")
      BY <1>1, <2>1, TrackedFacts DEF Track
    <2>3. QED
      BY <2>2 DEF Decided, TrackedAs
  <1>5. CASE ~IsPtt(k, e.mods) /\ f.ready
    <2> DEFINE idle == [asked EXCEPT !.track[k] = "IDLE"]
               shortcut == [given EXCEPT !.track[k] = "APP_SHORTCUT"]
               forwarded == [given EXCEPT !.track[k] = "FORWARDED"]
    <2>1. asked \in Host
      BY <1>2 DEF Near
    <2>2. IsAppShortcut(k, e.mods) => g = IF a.handled THEN idle ELSE shortcut
      BY <1>5 DEF RouteFresh
    <2>3. ~IsAppShortcut(k, e.mods) => g = IF a.handled \/ Reserved(asked, k) THEN asked ELSE forwarded
      BY <1>5 DEF RouteFresh
    <2>4. IsAppShortcut(k, e.mods) => k \notin ModifierKey
      BY DEF IsAppShortcut
    <2> HIDE DEF asked
    <2>5. TrackedAs(asked, idle, k, "IDLE")
      BY <1>1, <2>1, TrackedFacts DEF Track
    <2>6. /\ Near(asked, given, k) /\ given.repeat = asked.repeat /\ given \in Host
          /\ given.down = asked.down \cup {k} /\ given.heard = asked.heard
      BY <1>1, <2>1, ZenonT(60) DEF Host, Forward, Near, SameGrab, Elsewhere
    <2> HIDE DEF given, idle
    <2>7. TrackedAs(given, shortcut, k, "APP_SHORTCUT") /\ TrackedAs(given, forwarded, k, "FORWARDED")
      BY <1>1, <2>6, TrackedFacts DEF Track
    <2> HIDE DEF shortcut, forwarded
    <2>8. Near(f, idle, k) /\ Near(f, shortcut, k) /\ Near(f, forwarded, k)
      BY <1>2, <2>5, <2>6, <2>7, NearTransitive DEF TrackedAs
    <2>9. Decided(f, idle, k) /\ (Decided(f, shortcut, k) \/ k \in ModifierKey)
      BY <1>2, <2>5, <2>6, <2>7, <2>8 DEF Decided, TrackedAs
    <2>10. Decided(f, asked, k) /\ Decided(f, forwarded, k)
      BY <1>2, <2>5, <2>6, <2>7, <2>8 DEF Decided, TrackedAs
    <2>11. QED
      BY <2>2, <2>3, <2>4, <2>9, <2>10
  <1>6. QED
    BY <1>3, <1>4, <1>5 DEF Host

Given(f, k) == f.track[k] \in {"FORWARDED", "APP_SHORTCUT"}

(* A press of a key the application already has repeats it there at most;  *)
(* any other press is decided anew.                                        *)
LEMMA RoutePressFacts ==
    ASSUME NEW f \in Host, NEW e \in Event, NEW a \in Answer, NEW available \in BOOLEAN,
           NEW k, k = e.key, NEW g, g = RoutePress(f, e, a, available)
    PROVE  /\ Routed(f, g, k) /\ g.repeat = f.repeat
           /\ Given(f, k) => g.track = f.track /\ g.down \in {f.down, f.down \cup {k}}
           /\ ~Given(f, k) => Decided(f, g, k)
  <1> DEFINE c == Claim(f, k)
  <1>1. k \in Key
    BY DEF Event
  <1>2. CASE Given(f, k)
    <2>1. g = f \/ g = Forward(f, k, TRUE)
      BY <1>2 DEF RoutePress, Given
    <2>2. /\ Routed(f, Forward(f, k, TRUE), k) /\ Forward(f, k, TRUE).track = f.track
          /\ Forward(f, k, TRUE).repeat = f.repeat /\ Forward(f, k, TRUE).down = f.down \cup {k}
      BY <1>1, ForwardFacts
    <2>3. Routed(f, f, k)
      BY DEF Routed, Near, SameGrab, Elsewhere
    <2>4. QED
      BY <1>2, <2>1, <2>2, <2>3
  <1>3. CASE ~Given(f, k)
    <2>1. g = RouteFresh(c, e, a, available)
      BY <1>3 DEF RoutePress, Given
    <2>2. Near(f, c, k) /\ c.repeat = f.repeat /\ c.down = f.down /\ c.track = f.track
      BY <1>1, ClaimFacts
    <2> HIDE DEF c
    <2>3. Decided(c, g, k)
      BY <2>1, <2>2, RouteFreshFacts DEF Near
    <2>4. Decided(f, g, k)
      BY <2>2, <2>3, NearTransitive DEF Decided
    <2>5. Matched(g, k)
      BY <1>3, <2>4 DEF Decided, Matched, Given
    <2>6. QED
      BY <1>3, <2>4, <2>5 DEF Decided, Routed
  <1>4. QED
    BY <1>2, <1>3

(* A release without a press goes to the application or nowhere; the key   *)
(* stays idle.                                                             *)
LEMMA RouteOrphanFacts ==
    ASSUME NEW f \in Host, NEW e \in Event, NEW k, k = e.key, f.track[k] = "IDLE",
           NEW g, g = RouteOrphan(f, e)
    PROVE  /\ Routed(f, g, k) /\ g.repeat = f.repeat
           /\ g.track[k] = "IDLE" /\ g.down \in {f.down, f.down \ {k}}
  <1> DEFINE x == Forward(f, k, FALSE)
  <1>1. k \in Key
    BY DEF Event
  <1>2. Routed(f, x, k) /\ x.repeat = f.repeat /\ x.down = f.down \ {k} /\ x \in Host
    BY <1>1, ForwardFacts DEF Routed, Near
  <1>3. g = ClearTracking(x, k) \/ g = ClearTracking(f, k)
    BY DEF RouteOrphan
  <1> HIDE DEF x
  <1>4. /\ Routed(x, ClearTracking(x, k), k) /\ ClearTracking(x, k).repeat = x.repeat
        /\ ClearTracking(x, k).down = x.down /\ ClearTracking(x, k).track[k] = "IDLE"
    BY <1>1, <1>2, ClearTrackingFacts
  <1>5. /\ Routed(f, ClearTracking(f, k), k) /\ ClearTracking(f, k).repeat = f.repeat
        /\ ClearTracking(f, k).down = f.down /\ ClearTracking(f, k).track[k] = "IDLE"
    BY <1>1, ClearTrackingFacts
  <1>6. QED
    BY <1>2, <1>3, <1>4, <1>5, RoutedTransitive

(* A release leaves the key untracked, and takes it from the application   *)
(* that has it unless the candidate guard keeps it.                        *)
LEMMA RouteReleaseFacts ==
    ASSUME NEW f \in Host, NEW e \in Event, NEW a \in Answer,
           NEW k, k = e.key, NEW g, g = RouteRelease(f, e, a)
    PROVE  /\ Routed(f, g, k) /\ g.repeat = f.repeat
           /\ g.track[k] = "IDLE" /\ g.down \in {f.down, f.down \ {k}}
           /\ Given(f, k) /\ NavKey = {} => g.down = f.down \ {k}
  <1> DEFINE x == ClearTracking(f, k)
             asked == AskRelease(x, k, a)
  <1>1. k \in Key
    BY DEF Event
  <1>2. /\ Routed(f, x, k) /\ x.repeat = f.repeat /\ x.down = f.down
        /\ x.track[k] = "IDLE" /\ k \notin x.owned /\ x \in Host
    BY <1>1, ClearTrackingFacts DEF Routed, Near
  <1>3. /\ Routed(f, asked, k) /\ asked.repeat = f.repeat /\ asked.down = f.down
        /\ asked.track[k] = "IDLE" /\ asked \in Host
    <2> HIDE DEF x
    <2>1. /\ Routed(x, asked, k) /\ asked.repeat = x.repeat /\ asked.down = x.down
          /\ asked.track = x.track /\ asked \in Host
      BY <1>1, <1>2, AskReleaseFacts DEF Routed, Near
    <2> HIDE DEF asked
    <2>2. QED
      BY <1>2, <2>1, RoutedTransitive
  <1>4. ASSUME NEW y \in Host, Routed(f, y, k), y.repeat = f.repeat, y.down = f.down, y.track[k] = "IDLE"
        PROVE  LET z == Forward(y, k, FALSE)
               IN  /\ Routed(f, z, k) /\ z.repeat = f.repeat
                   /\ z.track[k] = "IDLE" /\ z.down = f.down \ {k}
    <2> DEFINE z == Forward(y, k, FALSE)
    <2>1. /\ Routed(y, z, k) /\ z.repeat = y.repeat /\ z.track = y.track
          /\ z.down = y.down \ {k}
      BY <1>1, <1>4, ForwardFacts
    <2> HIDE DEF z
    <2>2. Routed(f, z, k)
      BY <1>4, <2>1, RoutedTransitive
    <2>3. QED
      BY <1>4, <2>1, <2>2 DEF z
  <1>5. CASE f.track[k] \in {"ENGINE_NOT_READY", "VOICE_PTT_UNAVAIL"}
    <2>1. g = x
      BY <1>5 DEF RouteRelease
    <2>2. QED
      BY <1>2, <1>5, <2>1 DEF Given
  <1>6. CASE f.track[k] = "VOICE_PTT"
    <2>1. g = [x EXCEPT !.voice = FALSE]
      BY <1>6 DEF RouteRelease
    <2> HIDE DEF x
    <2>2. Routed(x, g, k) /\ g.repeat = x.repeat /\ g.down = x.down /\ g.track = x.track
      BY <1>2, <2>1, ZenonT(60) DEF Host, Routed, Near, SameGrab, Elsewhere, Matched
    <2>3. QED
      BY <1>2, <1>6, <2>2, RoutedTransitive DEF Given
  <1>7. CASE f.track[k] = "APP_SHORTCUT"
    <2>1. g = Forward(x, k, FALSE)
      BY <1>7 DEF RouteRelease
    <2> HIDE DEF x
    <2>2. QED
      BY <1>2, <1>4, <2>1
  <1>8. CASE f.track[k] = "FORWARDED"
    <2>1. g = IF ~a.handled /\ Reserved(asked, k) THEN asked ELSE Forward(asked, k, FALSE)
      BY <1>8 DEF RouteRelease
    <2>2. NavKey = {} => ~Reserved(asked, k)
      BY DEF Reserved
    <2> HIDE DEF x, asked
    <2>3. QED
      BY <1>3, <1>4, <2>1, <2>2
  <1>9. CASE f.track[k] = "IDLE"
    <2>1. g = IF k \in f.owned THEN asked ELSE RouteOrphan(f, e)
      BY <1>9 DEF RouteRelease
    <2> HIDE DEF x, asked
    <2>2. QED
      BY <1>3, <1>9, <2>1, RouteOrphanFacts DEF Given
  <1>10. QED
    BY <1>1, <1>5, <1>6, <1>7, <1>8, <1>9 DEF Host, Track

-----------------------------------------------------------------------------
(* repeat.c *)

(* A press may start the repeat of its own key. *)
LEMMA ProcessKeyPressFacts ==
    ASSUME NEW f \in Host, NEW e \in Event, NEW a \in Answer, NEW available \in BOOLEAN,
           NEW k, k = e.key, NEW g, g = ProcessKeyPress(f, e, a, available)
    PROVE  /\ Routed(f, g, k)
           /\ \/ g.repeat = f.repeat
              \/ g.repeat = k /\ k \notin ModifierKey /\ g.track[k] # "ENGINE_NOT_READY"
           /\ Given(f, k) => g.track = f.track /\ g.down \in {f.down, f.down \cup {k}}
           /\ ~Given(f, k) =>
                 \/ g.track[k] \in {"VOICE_PTT", "VOICE_PTT_UNAVAIL", "ENGINE_NOT_READY"} /\ g.down = f.down
                 \/ g.track[k] \in {"IDLE", f.track[k]} /\ g.down = f.down
                 \/ g.track[k] = "FORWARDED" /\ g.down = f.down \cup {k}
                 \/ g.track[k] = "APP_SHORTCUT" /\ k \notin ModifierKey /\ g.down = f.down \cup {k}
  <1> DEFINE x == RoutePress(f, e, a, available)
             r == [x EXCEPT !.repeat = k]
  <1>1. k \in Key
    BY DEF Event
  <1>2. /\ Routed(f, x, k) /\ x.repeat = f.repeat /\ x \in Host
        /\ Given(f, k) => x.track = f.track /\ x.down \in {f.down, f.down \cup {k}}
        /\ ~Given(f, k) => Decided(f, x, k)
    BY RoutePressFacts DEF Routed, Near
  <1>3. \/ g = x
        \/ g = r /\ k \notin ModifierKey /\ x.track[k] # "ENGINE_NOT_READY"
    BY DEF ProcessKeyPress, RepeatMaybeStart
  <1> HIDE DEF x
  <1>4. /\ Routed(x, r, k) /\ r.track = x.track /\ r.down = x.down /\ r.repeat = k
    BY <1>1, <1>2, ZenonT(60) DEF Host, Routed, Near, SameGrab, Elsewhere, Matched
  <1> HIDE DEF r
  <1>5. Routed(f, g, k) /\ g.track = x.track /\ g.down = x.down
    BY <1>2, <1>3, <1>4, RoutedTransitive
  <1>6. g.repeat = f.repeat \/ (g.repeat = k /\ k \notin ModifierKey /\ g.track[k] # "ENGINE_NOT_READY")
    BY <1>2, <1>3, <1>4
  <1>7. QED
    BY <1>2, <1>5, <1>6 DEF Decided

(* Stopping the repeat stops nothing else. *)
LEMMA RepeatStopFacts ==
    ASSUME NEW f \in Host, NEW k \in Key
    PROVE  /\ Routed(f, RepeatStop(f), k) /\ RepeatStop(f) \in Host /\ RepeatStop(f).repeat = NoKey
           /\ RepeatStop(f).track = f.track /\ RepeatStop(f).down = f.down
  BY DEF Host, RepeatStop, Routed, Near, SameGrab, Elsewhere, Matched

(* A release ends the repeat of its key. *)
LEMMA ProcessKeyReleaseFacts ==
    ASSUME NEW f \in Host, NEW e \in Event, NEW a \in Answer,
           NEW k, k = e.key, NEW g, g = ProcessKeyRelease(f, e, a)
    PROVE  /\ Routed(f, g, k) /\ g.repeat \in {f.repeat, NoKey} /\ g.repeat # k
           /\ g.track[k] = "IDLE" /\ g.down \in {f.down, f.down \ {k}}
           /\ Given(f, k) /\ NavKey = {} => g.down = f.down \ {k}
  <1> DEFINE x == StopRepeatOf(f, k)
  <1>1. k \in Key
    BY DEF Event
  <1>2. /\ Routed(f, x, k) /\ x.track = f.track /\ x.down = f.down
        /\ x.repeat \in {f.repeat, NoKey} /\ x.repeat # k /\ x \in Host
    <2>1. CASE f.repeat = k
      BY <1>1, <2>1, RepeatStopFacts, KeyAssumption DEF StopRepeatOf
    <2>2. CASE f.repeat # k
      BY <2>2 DEF StopRepeatOf, Routed, Near, SameGrab, Elsewhere
    <2>3. QED
      BY <2>1, <2>2
  <1>3. g = RouteRelease(x, e, a)
    BY DEF ProcessKeyRelease
  <1> HIDE DEF x
  <1>4. /\ Routed(x, g, k) /\ g.repeat = x.repeat
        /\ g.track[k] = "IDLE" /\ g.down \in {x.down, x.down \ {k}}
        /\ Given(x, k) /\ NavKey = {} => g.down = x.down \ {k}
    BY <1>2, <1>3, RouteReleaseFacts
  <1>5. QED
    BY <1>2, <1>4, RoutedTransitive DEF Given

(* A repeat that fires is asked again or given away, and goes on or stops. *)
LEMMA DispatchRepeatFacts ==
    ASSUME NEW f \in Host, NEW a \in Answer, NEW k \in Key, k = f.repeat,
           NEW g, g = DispatchRepeat(f, a)
    PROVE  /\ Routed(f, g, k) /\ g.repeat \in {f.repeat, NoKey}
           /\ \/ g.track[k] = f.track[k] /\ g.down = f.down
              \/ g.track[k] = f.track[k] /\ Given(f, k) /\ g.down = f.down \cup {k}
              \/ g.track[k] = "FORWARDED" /\ g.down = f.down \cup {k}
  <1> DEFINE asked == AskPress(f, k, a)
             given == Forward(f, k, TRUE)
             x == Forward(asked, k, TRUE)
             forwarded == [x EXCEPT !.track[k] = "FORWARDED"]
             stopped == RepeatStop(f)
  <1>1. Routed(f, stopped, k) /\ stopped.repeat = NoKey /\ stopped.track = f.track /\ stopped.down = f.down
    BY RepeatStopFacts
  <1>2. /\ Routed(f, given, k) /\ given.repeat = f.repeat /\ given.track = f.track
        /\ given.down = f.down \cup {k}
    BY ForwardFacts
  <1>3. /\ Near(f, asked, k) /\ asked.repeat = f.repeat /\ asked.down = f.down
        /\ asked.track = f.track /\ k \in asked.heard /\ asked \in Host
    BY AskPressFacts DEF Near
  <1>4. \/ g \in {stopped, f}
        \/ g = given /\ Given(f, k)
        \/ g \in {asked, forwarded} /\ ~Given(f, k)
    BY DEF DispatchRepeat, Given
  <1> HIDE DEF asked, given, stopped
  <1>5. /\ Near(asked, x, k) /\ x.repeat = asked.repeat /\ x \in Host
        /\ x.down = asked.down \cup {k} /\ x.heard = asked.heard
    BY <1>3, ZenonT(60) DEF Host, Forward, Near, SameGrab, Elsewhere
  <1> HIDE DEF x
  <1>6. TrackedAs(x, forwarded, k, "FORWARDED")
    BY <1>5, TrackedFacts DEF Track
  <1> HIDE DEF forwarded
  <1>7. /\ Near(f, forwarded, k) /\ forwarded.repeat = f.repeat /\ forwarded.down = f.down \cup {k}
        /\ forwarded.track[k] = "FORWARDED" /\ Matched(forwarded, k)
    BY <1>3, <1>5, <1>6, NearTransitive DEF TrackedAs, Matched
  <1>8. ~Given(f, k) => Matched(asked, k)
    BY <1>3 DEF Matched, Given
  <1>9. Routed(f, f, k)
    BY DEF Routed, Near, SameGrab, Elsewhere
  <1>10. CASE g \in {stopped, f}
    BY <1>1, <1>9, <1>10
  <1>11. CASE g = given /\ Given(f, k)
    BY <1>2, <1>11
  <1>12. CASE g \in {asked, forwarded} /\ ~Given(f, k)
    BY <1>3, <1>7, <1>8, <1>12 DEF Routed
  <1>13. QED
    BY <1>4, <1>10, <1>11, <1>12

-----------------------------------------------------------------------------
(* The invariant.  Blank is the host outside a focused field: it keeps     *)
(* nothing of a key.  Steady adds what every handler may rely on, Sound    *)
(* that an undecided chord is held.                                        *)
Blank(f) ==
    /\ f.track = [k \in Key |-> "IDLE"] /\ f.owned = {} /\ f.buffer = <<>> /\ f.todo = <<>>
    /\ f.phys = {} /\ f.repeat = NoKey

Balanced(f, k) ==
    /\ Given(f, k) /\ f.grab # "released" => k \in f.down
    /\ k \in f.owned /\ f.track[k] \in {"IDLE", "FORWARDED"} => k \in f.heard

Steady(f) ==
    /\ f \in Host /\ Len(f.buffer) <= MaxBuffered
    /\ f.todo # <<>> => f.grab = "ready" /\ f.focus
    /\ f.grab \in {"absent", "dead"} => ~f.focus
    /\ ~f.focus \/ f.grab = "waiting" => Blank(f)
    /\ \A k \in Key : Balanced(f, k)

Undecided(f) == Buffering(f) => f.phys \cap Chord # {} /\ f.phys \subseteq Chord
Sound(f) == Steady(f) /\ Undecided(f)

Presses(events, k) == \E i \in DOMAIN events : events[i].press /\ events[i].key = k

(* A key the compositor gave to the application itself: the host knows     *)
(* nothing of it but a late release.                                       *)
Untouched(f, k) ==
    /\ f.track[k] = "IDLE" /\ f.repeat # k
    /\ ~Presses(f.buffer, k) /\ ~Presses(f.todo, k)

Direct ==
    /\ held \subseteq Key /\ direct \subseteq held
    /\ Grabbed => \A k \in direct : Untouched(h, k)
Physical == h.grab = "ready" /\ h.focus => h.phys \subseteq ModsOf(held \ direct)

IInv == Sound(h) /\ Direct /\ Physical /\ owed \in BOOLEAN

(* The events of a queue that grows at one end and shrinks at the other. *)
LEMMA AppendPresses ==
    ASSUME NEW s \in Seq(Event), NEW e \in Event, NEW k
    PROVE  Presses(Append(s, e), k) <=> Presses(s, k) \/ (e.press /\ e.key = k)
  <1> DEFINE t == Append(s, e)
  <1>1. Len(s) \in Nat /\ DOMAIN s = 1 .. Len(s)
    OBVIOUS
  <1>2. /\ DOMAIN t = 1 .. Len(s) + 1 /\ t[Len(s) + 1] = e
        /\ \A i \in DOMAIN s : t[i] = s[i]
    BY AppendProperties
  <1> HIDE DEF t
  <1>3. Presses(t, k) <=> Presses(s, k) \/ (e.press /\ e.key = k)
    BY <1>1, <1>2 DEF Presses
  <1>4. QED
    BY <1>3 DEF t

(* Queues of events stay queues of events. *)
LEMMA QueueTypes ==
    /\ <<>> \in Seq(Event) /\ Len(<<>>) = 0
    /\ \A s \in Seq(Event), e \in Event : Append(s, e) \in Seq(Event) /\ Len(Append(s, e)) = Len(s) + 1
  OBVIOUS

(* What appending one event does to a queue, position by position. *)
LEMMA AppendFacts ==
    ASSUME NEW s \in Seq(Event), NEW e \in Event, NEW t, t = Append(s, e)
    PROVE  /\ t \in Seq(Event) /\ Len(s) \in Nat /\ Len(t) = Len(s) + 1
           /\ DOMAIN s = 1 .. Len(s) /\ DOMAIN t = 1 .. Len(s) + 1 /\ t[Len(s) + 1] = e
           /\ \A i \in DOMAIN s : t[i] = s[i] /\ i \in DOMAIN t /\ i < Len(s) + 1 /\ i # Len(s) + 1
           /\ \A i \in DOMAIN t : i \in DOMAIN s \/ i = Len(s) + 1
  BY AppendProperties

(* A release waits in the longer queue if it waited before or is the one   *)
(* appended.                                                               *)
LEMMA AppendPending ==
    ASSUME NEW s \in Seq(Event), NEW e \in Event, NEW k
    PROVE  Pending(Append(s, e), k) <=> Pending(s, k) \/ (~e.press /\ e.key = k)
  <1> DEFINE n == Len(s) + 1
             t == Append(s, e)
  <1>1. /\ n \in DOMAIN t /\ t[n] = e
        /\ \A i \in DOMAIN s : t[i] = s[i] /\ i \in DOMAIN t
        /\ \A i \in DOMAIN t : i \in DOMAIN s \/ i = n
    BY AppendFacts
  <1> HIDE DEF n, t
  <1>2. Pending(t, k) <=> Pending(s, k) \/ (~e.press /\ e.key = k)
    BY <1>1 DEF Pending
  <1>3. QED
    BY <1>2 DEF t

(* What is left of a queue presses no key the queue did not. *)
LEMMA TailPresses ==
    ASSUME NEW s \in Seq(Event), s # <<>>, NEW k, Presses(Tail(s), k)
    PROVE  Presses(s, k)
  <1>1. PICK i \in DOMAIN Tail(s) : Tail(s)[i].press /\ Tail(s)[i].key = k
    BY DEF Presses
  <1>2. i + 1 \in DOMAIN s /\ s[i + 1] = Tail(s)[i]
    BY HeadTailProperties
  <1>3. QED
    BY <1>1, <1>2 DEF Presses

(* The first event of a queue is an event, and a press among the queue's   *)
(* presses.                                                                *)
LEMMA HeadPresses ==
    ASSUME NEW s \in Seq(Event), s # <<>>
    PROVE  Head(s) \in Event /\ Tail(s) \in Seq(Event) /\ (Head(s).press => Presses(s, Head(s).key))
  <1>1. Head(s) \in Event /\ Tail(s) \in Seq(Event) /\ Head(s) = s[1] /\ 1 \in DOMAIN s
    BY HeadTailProperties
  <1>2. QED
    BY <1>1 DEF Presses

(* An empty queue presses no key. *)
LEMMA NonePresses == ASSUME NEW k PROVE ~Presses(<<>>, k)
  BY DEF Presses

(* The modifiers of a set of keys grow and shrink with the set. *)
LEMMA ModsOfFacts ==
    ASSUME NEW S, NEW T, NEW k
    PROVE  /\ S \subseteq T => ModsOf(S) \subseteq ModsOf(T)
           /\ ModsOf(S) \cup ModOf(k) \subseteq ModsOf(S \cup {k})
           /\ ModsOf(S) \ ModOf(k) \subseteq ModsOf(S \ {k})
  <1>1. \A j : ModOf(j) \subseteq Mod
    BY DEF ModOf
  <1>2. ASSUME NEW m \in ModsOf(S), m \notin ModOf(k)
        PROVE  m \in ModsOf(S \ {k})
    BY <1>2 DEF ModsOf
  <1>3. ASSUME NEW m \in ModsOf(S) \cup ModOf(k)
        PROVE  m \in ModsOf(S \cup {k})
    BY <1>1, <1>3 DEF ModsOf
  <1>4. S \subseteq T => ModsOf(S) \subseteq ModsOf(T)
    BY DEF ModsOf
  <1>5. QED
    BY <1>2, <1>3, <1>4

(* Routing an event in a focused field keeps the host sound. *)
LEMMA RoutedSound ==
    ASSUME NEW f, Sound(f), f.grab = "ready", f.focus, NEW k \in Key, NEW g, Routed(f, g, k)
    PROVE  Sound(g)
  <1>1. g \in Host /\ SameGrab(f, g) /\ Elsewhere(f, g, k) /\ f \in Host
    BY DEF Routed, Near, Sound, Steady
  <1>2. Balanced(g, k)
    BY <1>1 DEF Sound, Steady, Routed, Matched, Balanced, Given, SameGrab
  <1>3. ASSUME NEW j \in Key \ {k}
        PROVE  Balanced(g, j)
    BY <1>1, <1>3 DEF Sound, Steady, Elsewhere, SameGrab, Balanced, Given
  <1>4. QED
    BY <1>1, <1>2, <1>3 DEF Sound, Steady, SameGrab, Undecided, Buffering

-----------------------------------------------------------------------------
(* arbiter.c.  Arbitrated is what every outcome keeps: only the arbiter's  *)
(* two queues change, and with a completed chord what its orphans are.     *)
SameKeys(f, g) ==
    /\ g.grab = f.grab /\ g.focus = f.focus /\ g.phys = f.phys /\ g.repeat = f.repeat

Arbitrated(f, g, e) ==
    /\ Sound(g) /\ SameKeys(f, g)
    /\ \A j \in Key : Untouched(f, j) /\ (e.press => e.key # j) => Untouched(g, j)

(* A focused grab that routes nothing. *)
Receptive(f) == Steady(f) /\ f.grab = "ready" /\ f.focus /\ f.todo = <<>>

(* Replaying hands on the buffered events, then the one that decided, and  *)
(* touches no key.                                                         *)
LEMMA PassFields ==
    ASSUME NEW f \in Host, NEW e \in Event, NEW g, g = Pass(f, e)
    PROVE  /\ g \in Host /\ g.buffer = <<>> /\ g.todo = Append(f.buffer, e) /\ Len(g.buffer) = 0
           /\ SameKeys(f, g) /\ g.track = f.track /\ g.owned = f.owned /\ g.heard = f.heard
           /\ g.down = f.down
  <1> DEFINE q == Append(f.buffer, e)
             none == <<>>
  <1>1. q \in Seq(Event) /\ none \in Seq(Event) /\ Len(none) = 0
    BY QueueTypes DEF Host
  <1>2. g = [f EXCEPT !.todo = q, !.buffer = none]
    BY DEF Pass
  <1>3. /\ g.buffer = none /\ g.todo = q
        /\ g \in Host /\ SameKeys(f, g) /\ g.track = f.track /\ g.owned = f.owned
        /\ g.heard = f.heard /\ g.down = f.down
    <2> HIDE DEF q, none
    <2>1. QED
      BY <1>1, <1>2, ZenonT(60) DEF Host, SameKeys
  <1>4. QED
    BY <1>1, <1>3

(* Replaying is one of the things the arbiter may do. *)
LEMMA PassFacts ==
    ASSUME NEW f, Receptive(f), NEW e \in Event
    PROVE  Arbitrated(f, Pass(f, e), e)
  <1> DEFINE g == Pass(f, e)
  <1>1. f \in Host /\ f.buffer \in Seq(Event)
    BY DEF Receptive, Steady, Host
  <1>2. /\ g \in Host /\ g.buffer = <<>> /\ g.todo = Append(f.buffer, e) /\ Len(g.buffer) = 0
        /\ SameKeys(f, g) /\ g.track = f.track /\ g.owned = f.owned /\ g.heard = f.heard /\ g.down = f.down
    BY <1>1, PassFields
  <1> HIDE DEF g
  <1>3. ASSUME NEW j \in Key
        PROVE  /\ Balanced(g, j)
               /\ Untouched(f, j) /\ (e.press => e.key # j) => Untouched(g, j)
    BY <1>1, <1>2, AppendPresses, NonePresses DEF Receptive, Steady, Balanced, Given, SameKeys, Untouched
  <1>4. Steady(g)
    BY <1>2, <1>3, BufferAssumption DEF Receptive, Steady, SameKeys
  <1>5. QED
    BY <1>2, <1>3, <1>4 DEF Arbitrated, Sound, Undecided, Buffering, g

(* Buffering adds the event unless the buffer is full, and then drops it. *)
LEMMA BufferPushFacts ==
    ASSUME NEW f, Receptive(f), NEW e \in Event
    PROVE  LET g == BufferPush(f, e)
           IN  /\ Receptive(g) /\ SameKeys(f, g) /\ g.track = f.track /\ g.down = f.down
               /\ g.owned = f.owned /\ g.heard = f.heard
               /\ g.buffer = IF Len(f.buffer) < MaxBuffered THEN Append(f.buffer, e) ELSE f.buffer
               /\ \A j \in Key : Untouched(f, j) /\ (e.press => e.key # j) => Untouched(g, j)
  <1> DEFINE x == [f EXCEPT !.buffer = Append(@, e)]
             g == BufferPush(f, e)
  <1>1. f \in Host /\ f.buffer \in Seq(Event)
    BY DEF Receptive, Steady, Host
  <1>2. /\ g \in Host /\ g.todo = f.todo
        /\ g.buffer = IF Len(f.buffer) < MaxBuffered THEN Append(f.buffer, e) ELSE f.buffer
        /\ SameKeys(f, g) /\ g.track = f.track /\ g.owned = f.owned /\ g.heard = f.heard /\ g.down = f.down
    <2>1. /\ x \in Host /\ x.todo = f.todo /\ x.buffer = Append(f.buffer, e)
          /\ SameKeys(f, x) /\ x.track = f.track /\ x.owned = f.owned /\ x.heard = f.heard /\ x.down = f.down
      <3> DEFINE q == Append(f.buffer, e)
      <3>1. q \in Seq(Event)
        BY <1>1, QueueTypes
      <3>2. x = [f EXCEPT !.buffer = q]
        BY <1>1 DEF Host
      <3>3. /\ x \in Host /\ x.todo = f.todo /\ x.buffer = q
            /\ SameKeys(f, x) /\ x.track = f.track /\ x.owned = f.owned /\ x.heard = f.heard /\ x.down = f.down
        <4> HIDE DEF q, x
        <4>1. QED
          BY <1>1, <3>1, <3>2 DEF Host, SameKeys
      <3>4. QED
        BY <3>3
    <2>2. g = IF Len(f.buffer) < MaxBuffered THEN x ELSE f
      BY DEF BufferPush
    <2> HIDE DEF x, g
    <2>3. QED
      BY <1>1, <2>1, <2>2 DEF SameKeys
  <1>3. Len(g.buffer) <= MaxBuffered
    <2>1. Len(Append(f.buffer, e)) = Len(f.buffer) + 1 /\ Len(f.buffer) \in Nat
      BY <1>1
    <2>2. QED
      BY <1>2, <2>1, BufferAssumption DEF Receptive, Steady
  <1> HIDE DEF g
  <1>4. ASSUME NEW j \in Key
        PROVE  /\ Balanced(g, j)
               /\ Untouched(f, j) /\ (e.press => e.key # j) => Untouched(g, j)
    BY <1>1, <1>2, AppendPresses DEF Receptive, Steady, Balanced, Given, SameKeys, Untouched
  <1>5. Receptive(g)
    BY <1>2, <1>3, <1>4 DEF Receptive, Steady, SameKeys
  <1>6. QED
    BY <1>2, <1>4, <1>5 DEF g

(* A completed chord: the orphans are untracked and released together. *)
LEMMA ConsumeFacts ==
    ASSUME NEW f, Receptive(f), NEW g, g = ArbiterConsume(f)
    PROVE  /\ Sound(g) /\ SameKeys(f, g) /\ g.buffer = <<>> /\ g.todo = <<>>
           /\ g.down = f.down \ Orphans(f)
           /\ \A j \in Key : g.track[j] = IF j \in Orphans(f) THEN "IDLE" ELSE f.track[j]
           /\ \A j \in Key : Untouched(f, j) => Untouched(g, j)
  <1> DEFINE x == ReleaseOrphanedKeys(f)
             o == Orphans(f)
  <1>1. f \in Host
    BY DEF Receptive, Steady
  <1>2. o \subseteq Key
    BY DEF Orphans
  <1> HIDE DEF o
  <1>3. /\ x \in Host /\ SameKeys(f, x) /\ x.down = f.down \ o /\ x.owned = f.owned \ o
        /\ x.heard = f.heard /\ x.todo = f.todo
        /\ \A j \in Key : x.track[j] = IF j \in o THEN "IDLE" ELSE f.track[j]
    <2> DEFINE t == [j \in Key |-> IF j \in o THEN "IDLE" ELSE f.track[j]]
    <2>1. x = [f EXCEPT !.down = f.down \ o, !.owned = f.owned \ o, !.track = t]
      BY <1>1 DEF ReleaseOrphanedKeys, o, Host
    <2>2. t \in [Key -> Track]
      BY <1>1 DEF Host, Track
    <2> HIDE DEF x
    <2>3. x.track = t
      <3> HIDE DEF t
      <3>1. QED
        BY <1>1, <2>1, <2>2 DEF Host
    <2>4. /\ x \in Host /\ SameKeys(f, x) /\ x.down = f.down \ o /\ x.owned = f.owned \ o
          /\ x.heard = f.heard /\ x.todo = f.todo
      <3> HIDE DEF t
      <3>1. QED
        BY <1>1, <1>2, <2>1, <2>2 DEF Host, SameKeys
    <2>5. QED
      BY <2>3, <2>4
  <1> HIDE DEF x
  <1>4. /\ g \in Host /\ SameKeys(f, g) /\ g.down = f.down \ o /\ g.owned = f.owned \ o /\ g.track = x.track
        /\ g.heard = f.heard /\ g.todo = f.todo /\ g.buffer = <<>> /\ Len(g.buffer) = 0
    <2> DEFINE none == <<>>
    <2>1. none \in Seq(Event) /\ Len(none) = 0
      BY QueueTypes
    <2>2. g = [x EXCEPT !.buffer = none, !.cands = FALSE]
      BY DEF ArbiterConsume, x
    <2>3. /\ g.buffer = none /\ g \in Host /\ SameKeys(x, g) /\ g.down = x.down
          /\ g.owned = x.owned /\ g.track = x.track /\ g.heard = x.heard /\ g.todo = x.todo
      <3> HIDE DEF none
      <3>1. QED
        BY <1>3, <2>1, <2>2, ZenonT(60) DEF Host, SameKeys
    <2>4. QED
      BY <1>3, <2>1, <2>3 DEF SameKeys
  <1>5. ASSUME NEW j \in Key
        PROVE  Balanced(g, j) /\ (Untouched(f, j) => Untouched(g, j))
    BY <1>1, <1>3, <1>4, NonePresses
    DEF Receptive, Steady, Balanced, Given, SameKeys, Untouched
  <1>6. Steady(g)
    BY <1>4, <1>5, BufferAssumption DEF Receptive, Steady, SameKeys
  <1>7. QED
    BY <1>3, <1>4, <1>5, <1>6 DEF Sound, Undecided, Buffering, Receptive, o

(* A press is buffered, replayed or passed, and nothing else. *)
LEMMA ArbiterPressFacts ==
    ASSUME NEW f, Receptive(f), NEW e \in Event, e.press, ModOf(e.key) \subseteq f.phys,
           NEW g, g = ArbiterPress(f, e)
    PROVE  Arbitrated(f, g, e)
  <1> DEFINE push == BufferPush(f, e)
  <1>1. Arbitrated(f, Pass(f, e), e)
    BY PassFacts
  <1>2. /\ Receptive(push) /\ SameKeys(f, push)
        /\ \A j \in Key : Untouched(f, j) /\ (e.press => e.key # j) => Untouched(push, j)
    BY BufferPushFacts
  <1>3. \/ g = Pass(f, e)
        \/ g = push /\ ModOf(e.key) \cap Chord # {} /\ f.phys \subseteq Chord
    BY DEF ArbiterPress, StartsBuffering
  <1> HIDE DEF push
  <1>4. CASE g = push /\ ModOf(e.key) \cap Chord # {} /\ f.phys \subseteq Chord
    BY <1>2, <1>4 DEF Arbitrated, Sound, Undecided, Receptive, SameKeys
  <1>5. QED
    BY <1>1, <1>3, <1>4

(* A release is buffered, consumed with its chord, replayed or passed, and *)
(* nothing else.                                                           *)
LEMMA ArbiterReleaseFacts ==
    ASSUME NEW f, Receptive(f), NEW e \in Event, ~e.press,
           NEW g, g = ArbiterRelease(f, e)
    PROVE  Arbitrated(f, g, e)
  <1> DEFINE push == BufferPush(f, e)
             done == ArbiterConsume(push)
  <1>1. Arbitrated(f, Pass(f, e), e)
    BY PassFacts
  <1>2. /\ Receptive(push) /\ SameKeys(f, push)
        /\ \A j \in Key : Untouched(f, j) /\ (e.press => e.key # j) => Untouched(push, j)
    BY BufferPushFacts
  <1>3. \/ g = Pass(f, e)
        \/ g = push /\ f.phys \cap Chord # {} /\ f.phys \subseteq Chord
        \/ g = done
    BY DEF ArbiterRelease
  <1> HIDE DEF push
  <1>4. /\ Sound(done) /\ SameKeys(push, done)
        /\ \A j \in Key : Untouched(push, j) => Untouched(done, j)
    BY <1>2, ConsumeFacts
  <1> HIDE DEF done
  <1>5. CASE g = push /\ f.phys \cap Chord # {} /\ f.phys \subseteq Chord
    BY <1>2, <1>5 DEF Arbitrated, Sound, Undecided, Receptive, SameKeys
  <1>6. CASE g = done
    BY <1>2, <1>4, <1>6 DEF Arbitrated, SameKeys
  <1>7. QED
    BY <1>1, <1>3, <1>5, <1>6

-----------------------------------------------------------------------------
(* keyboard.c *)

LEMMA OnKeyFacts ==
    ASSUME NEW f, Sound(f), f.todo = <<>>, NEW k \in Key, NEW press \in BOOLEAN,
           NEW g, g = OnKey(f, k, press)
    PROVE  /\ Sound(g) /\ g.grab \in {f.grab, "released"} /\ g.focus = f.focus
           /\ g.grab = "ready" /\ g.focus =>
                 g.phys = IF press THEN f.phys \cup ModOf(k) ELSE f.phys \ ModOf(k)
           /\ \A j \in Key : Untouched(f, j) /\ (press => k # j) => Untouched(g, j)
  <1> DEFINE mods == EffectiveModifiers(f, k, press)
             e == [press |-> press, key |-> k, mods |-> mods]
             phys == IF press THEN f.phys \cup ModOf(k) ELSE f.phys \ ModOf(k)
             noted == [f EXCEPT !.phys = phys]
             exit == press /\ IsExit(k, mods)
  <1>1. f \in Host /\ ModOf(k) \subseteq Mod
    BY DEF Sound, Steady, ModOf
  <1>2. e \in Event /\ e.press = press /\ e.key = k
    BY <1>1 DEF Event, EffectiveModifiers, Host
  <1>3. CASE f.grab # "ready"
    <2>1. g = f
      BY <1>3 DEF OnKey
    <2>2. QED
      BY <1>3, <2>1
  <1>4. CASE f.grab = "ready" /\ exit
    <2>1. g = [f EXCEPT !.grab = "released"]
      BY <1>4 DEF OnKey
    <2>2. /\ g \in Host /\ g.grab = "released" /\ g.focus = f.focus /\ g.phys = f.phys /\ g.todo = f.todo
          /\ g.repeat = f.repeat /\ g.track = f.track /\ g.owned = f.owned /\ g.heard = f.heard
          /\ g.buffer = f.buffer
      BY <1>1, <2>1, SMTT(60) DEF Host
    <2>3. Steady(g)
      BY <2>2 DEF Sound, Steady, Blank, Balanced, Given
    <2>4. Undecided(g) /\ \A j \in Key : Untouched(f, j) => Untouched(g, j)
      BY <2>2 DEF Sound, Undecided, Buffering, Untouched
    <2>5. QED
      BY <2>2, <2>3, <2>4 DEF Sound
  <1>5. CASE f.grab = "ready" /\ ~exit /\ ~f.focus
    <2>1. g = Forward(f, k, press)
      BY <1>5 DEF OnKey
    <2>2. /\ g \in Host /\ g.grab = f.grab /\ g.focus = f.focus /\ g.phys = f.phys /\ g.todo = f.todo
          /\ g.repeat = f.repeat /\ g.track = f.track /\ g.owned = f.owned /\ g.heard = f.heard
          /\ g.buffer = f.buffer
      BY <1>1, <2>1 DEF Host, Forward
    <2>3. QED
      BY <1>5, <2>2 DEF Sound, Steady, Blank, Balanced, Given, Undecided, Buffering, Untouched
  <1>6. CASE f.grab = "ready" /\ ~exit /\ f.focus
    <2>1. g = IF press THEN ArbiterPress(noted, e) ELSE ArbiterRelease(noted, e)
      <3>1. noted = [f EXCEPT !.phys = IF press THEN @ \cup ModOf(k) ELSE @ \ ModOf(k)]
        BY <1>1 DEF Host
      <3>2. QED
        BY <1>6, <3>1 DEF OnKey
    <2>2. /\ noted \in Host /\ noted.grab = f.grab /\ noted.focus = f.focus /\ noted.phys = phys
          /\ noted.todo = f.todo /\ noted.repeat = f.repeat /\ noted.track = f.track
          /\ noted.owned = f.owned /\ noted.heard = f.heard /\ noted.down = f.down
          /\ noted.buffer = f.buffer
      <3>1. phys \in SUBSET Mod
        BY <1>1 DEF Host
      <3> HIDE DEF phys
      <3>2. QED
        BY <1>1, <3>1 DEF Host
    <2>3. press => ModOf(k) \subseteq phys
      OBVIOUS
    <2> HIDE DEF noted, e, phys
    <2>4. Receptive(noted) /\ \A j \in Key : Untouched(f, j) => Untouched(noted, j)
      BY <1>6, <2>2 DEF Sound, Steady, Balanced, Given, Receptive, Untouched
    <2>5. Arbitrated(noted, g, e)
      <3>1. CASE press
        <4>1. e.press /\ ModOf(e.key) \subseteq noted.phys /\ g = ArbiterPress(noted, e)
          BY <1>2, <2>1, <2>2, <2>3, <3>1
        <4>2. QED
          BY <1>2, <2>4, <4>1, ArbiterPressFacts
      <3>2. CASE ~press
        <4>1. ~e.press /\ g = ArbiterRelease(noted, e)
          BY <1>2, <2>1, <3>2
        <4>2. QED
          BY <1>2, <2>4, <4>1, ArbiterReleaseFacts
      <3>3. QED
        BY <3>1, <3>2
    <2>6. /\ Sound(g) /\ g.grab = f.grab /\ g.focus = f.focus /\ g.phys = phys
      BY <2>2, <2>5 DEF Arbitrated, SameKeys
    <2>7. ASSUME NEW j \in Key, Untouched(f, j), press => k # j
          PROVE  Untouched(g, j)
      BY <1>2, <2>4, <2>5, <2>7 DEF Arbitrated
    <2>8. QED
      BY <2>6, <2>7 DEF phys
  <1>7. QED
    BY <1>3, <1>4, <1>5, <1>6

(* A keyboard that has just been made satisfies the invariant. *)
LEMMA BlankFacts ==
    ASSUME NEW f \in Host, Blank(f), f.grab \notin {"absent", "dead"} \/ ~f.focus
    PROVE  Sound(f) /\ \A j \in Key : Untouched(f, j)
  BY NonePresses, QueueTypes, KeyAssumption, BufferAssumption
  DEF Blank, Sound, Steady, Balanced, Given, Undecided, Buffering, Untouched

(* A new grab knows nothing of the keys that are down. *)
LEMMA KeyboardCreateFacts ==
    ASSUME NEW f \in Host, f.todo = <<>>, NEW g, g = KeyboardCreate(f)
    PROVE  g \in Host /\ Blank(g) /\ g.grab = "waiting" /\ g.focus = f.focus /\ g.down = f.down
  <1> DEFINE idle == [k \in Key |-> "IDLE"]
             none == <<>>
  <1>1. idle \in [Key -> Track] /\ none \in Seq(Event) /\ f.todo = none
    BY QueueTypes DEF Track
  <1>2. g = [f EXCEPT !.track = idle, !.owned = {}, !.grab = "waiting", !.young = TRUE, !.phys = {},
                      !.xkb = {}, !.saw = FALSE, !.repeat = NoKey, !.buffer = none, !.owns = FALSE]
    BY DEF KeyboardCreate, TrackingReset, Host
  <1>3. /\ g \in Host /\ g.track = idle /\ g.buffer = none /\ g.owned = {} /\ g.todo = none
        /\ g.phys = {} /\ g.repeat = NoKey /\ g.grab = "waiting" /\ g.focus = f.focus /\ g.down = f.down
    <2> HIDE DEF idle, none
    <2>1. QED
      BY <1>1, <1>2, ZenonT(60) DEF Host
  <1>4. QED
    BY <1>3 DEF Blank

(* Leaving a field and giving up the grab release what was given away. *)
LEMMA KeyboardPauseFacts ==
    ASSUME NEW f \in Host, f.todo = <<>>, NEW g, g = KeyboardPause(f)
    PROVE  /\ g \in Host /\ Blank(g) /\ g.grab = f.grab /\ g.focus = f.focus
           /\ g.down = f.down \ ForwardedKeys(f)
  <1> DEFINE idle == [k \in Key |-> "IDLE"]
             none == <<>>
             down == f.down \ ForwardedKeys(f)
  <1>1. idle \in [Key -> Track] /\ none \in Seq(Event) /\ f.todo = none /\ down \in SUBSET Key
    BY QueueTypes DEF Track, Host
  <1>2. g = [f EXCEPT !.down = down, !.track = idle, !.owned = {}, !.phys = {}, !.xkb = {},
                      !.saw = FALSE, !.repeat = NoKey, !.buffer = none]
    BY DEF KeyboardPause, TrackingReset, RepeatStop, ReleaseForwarded, Host
  <1>3. /\ g \in Host /\ g.track = idle /\ g.buffer = none /\ g.owned = {} /\ g.todo = none
        /\ g.phys = {} /\ g.repeat = NoKey /\ g.grab = f.grab /\ g.focus = f.focus /\ g.down = down
    <2> HIDE DEF idle, none, down
    <2>1. QED
      BY <1>1, <1>2, ZenonT(60) DEF Host
  <1>4. QED
    BY <1>3 DEF Blank

(* Destroying the keyboard releases in the application the keys forwarded  *)
(* to it.                                                                  *)
LEMMA KeyboardDestroyFacts ==
    ASSUME NEW f \in Host, f.todo = <<>>, NEW g, g = KeyboardDestroy(f)
    PROVE  /\ g \in Host /\ Blank(g) /\ g.grab = "absent" /\ g.focus = f.focus
           /\ g.down = f.down \ ForwardedKeys(f)
  <1> DEFINE idle == [k \in Key |-> "IDLE"]
             none == <<>>
             down == f.down \ ForwardedKeys(f)
  <1>1. idle \in [Key -> Track] /\ none \in Seq(Event) /\ f.todo = none /\ down \in SUBSET Key
    BY QueueTypes DEF Track, Host
  <1>2. g = [f EXCEPT !.down = down, !.track = idle, !.owned = {}, !.grab = "absent", !.young = FALSE,
                      !.phys = {}, !.xkb = {}, !.saw = FALSE, !.repeat = NoKey, !.buffer = none,
                      !.owns = FALSE]
    BY ZenonT(60) DEF KeyboardDestroy, TrackingReset, RepeatStop, ReleaseForwarded, Host
  <1>3. /\ g \in Host /\ g.track = idle /\ g.buffer = none /\ g.owned = {} /\ g.todo = none
        /\ g.phys = {} /\ g.repeat = NoKey /\ g.grab = "absent" /\ g.focus = f.focus /\ g.down = down
    <2> HIDE DEF idle, none, down
    <2>1. QED
      BY <1>1, <1>2, ZenonT(60) DEF Host
  <1>4. QED
    BY <1>3 DEF Blank


(* focus_effects.c *)
LEMMA FocusOutFacts ==
    ASSUME NEW f, Sound(f), f.todo = <<>>, f.focus, NEW g, g = FocusOut(f)
    PROVE  /\ g \in Host /\ Blank(g) /\ g.grab = f.grab /\ ~g.focus
           /\ g.down = f.down \ ForwardedKeys(f)
  <1> DEFINE left == [f EXCEPT !.focus = FALSE, !.cands = FALSE, !.heard = {}]
  <1>1. f \in Host /\ f.grab # "absent"
    BY DEF Sound, Steady
  <1>2. /\ left \in Host /\ left.todo = f.todo /\ left.grab = f.grab /\ left.focus = FALSE
        /\ left.down = f.down /\ left.track = f.track
    BY <1>1, ZenonT(60) DEF Host
  <1>3. g = KeyboardPause(left)
    BY <1>1 DEF FocusOut
  <1> HIDE DEF left
  <1>4. QED
    BY <1>2, <1>3, KeyboardPauseFacts DEF ForwardedKeys

(* Entering a field starts with a blank keyboard. *)
LEMMA FocusInFacts ==
    ASSUME NEW f, Sound(f), ~f.focus, f.grab \in {"absent", "waiting", "ready"}, NEW g, g = FocusIn(f)
    PROVE  /\ g \in Host /\ Blank(g) /\ g.focus /\ g.down = f.down
           /\ g.grab = IF f.grab = "absent" THEN "waiting" ELSE f.grab
  <1> DEFINE x == IF f.grab = "absent" THEN KeyboardCreate(f) ELSE f
  <1>1. f \in Host /\ Blank(f)
    BY DEF Sound, Steady
  <1>2. /\ x \in Host /\ Blank(x) /\ x.down = f.down
        /\ x.grab = IF f.grab = "absent" THEN "waiting" ELSE f.grab
    BY <1>1, KeyboardCreateFacts DEF Blank
  <1>3. g = [x EXCEPT !.focus = TRUE]
    BY DEF FocusIn
  <1> HIDE DEF x
  <1>4. /\ g \in Host /\ g.focus /\ g.grab = x.grab /\ g.down = x.down /\ g.track = x.track
        /\ g.owned = x.owned /\ g.buffer = x.buffer /\ g.todo = x.todo /\ g.phys = x.phys
        /\ g.repeat = x.repeat
    BY <1>2, <1>3, ZenonT(60) DEF Host
  <1>5. QED
    BY <1>2, <1>4 DEF Blank

(* A hard reset leaves no grab, no focus and no key forwarded. *)
LEMMA HardResetFacts ==
    ASSUME NEW f, Sound(f), f.todo = <<>>, NEW g, g = HardReset(f)
    PROVE  /\ g \in Host /\ Blank(g) /\ g.grab = "absent" /\ ~g.focus
           /\ g.down = f.down \ ForwardedKeys(f)
  <1> DEFINE x == IF f.focus THEN FocusOut(f) ELSE f
  <1>1. f \in Host /\ f.focus \in BOOLEAN
    BY DEF Sound, Steady, Host
  <1>2. x \in Host /\ x.todo = <<>> /\ ~x.focus /\ x.down \ ForwardedKeys(x) = f.down \ ForwardedKeys(f)
    <2>1. CASE f.focus
      <3>1. x \in Host /\ Blank(x) /\ ~x.focus /\ x.down = f.down \ ForwardedKeys(f)
        BY <2>1, FocusOutFacts
      <3>2. ForwardedKeys(x) = {}
        BY <3>1 DEF Blank, ForwardedKeys
      <3>3. QED
        BY <3>1, <3>2 DEF Blank
    <2>2. CASE ~f.focus
      BY <1>1, <2>2
    <2>3. QED
      BY <1>1, <2>1, <2>2
  <1>3. g = KeyboardDestroy(x)
    BY DEF HardReset
  <1> HIDE DEF x
  <1>4. QED
    BY <1>2, <1>3, KeyboardDestroyFacts

-----------------------------------------------------------------------------
(* Every step keeps the invariant. *)

(* A step that leaves the user, and the host blank or as it was for the    *)
(* keys the compositor gave away. *)
LEMMA BlankStep ==
    ASSUME IInv, Blank(h'), h' \in Host, UNCHANGED <<held, direct>>, owed' \in BOOLEAN,
           h'.grab \notin {"absent", "dead"} \/ ~h'.focus
    PROVE  IInv'
  <1>1. Sound(h') /\ \A j \in Key : Untouched(h', j)
    BY BlankFacts
  <1>2. h'.phys = {}
    BY DEF Blank
  <1>3. QED
    BY <1>1, <1>2 DEF IInv, Direct, Physical

(* A step that routes one key of a live grab keeps the invariant. *)
LEMMA RoutedStep ==
    ASSUME IInv, h.grab = "ready", h.focus, NEW f, Sound(f), f.grab = h.grab, f.focus = h.focus,
           f.phys = h.phys, NEW k \in Key, Routed(f, h', k),
           \A j \in direct : Untouched(h', j), UNCHANGED <<held, direct, owed>>
    PROVE  IInv'
  <1>1. Sound(h') /\ h'.phys = h.phys
    BY RoutedSound DEF Routed, Near, SameGrab
  <1>2. QED
    BY <1>1 DEF IInv, Direct, Physical, Routed, Near, SameGrab

(* What is left of the loop's queue when its next event is taken. *)
LEMMA DequeueFacts ==
    ASSUME Sound(h), h.todo # <<>>, NEW f, f = [h EXCEPT !.todo = Tail(@)]
    PROVE  /\ Sound(f) /\ f.grab = "ready" /\ f.focus /\ f.phys = h.phys /\ f.repeat = h.repeat
           /\ h.grab = "ready" /\ h.focus
           /\ f.track = h.track /\ f.buffer = h.buffer /\ f.todo = Tail(h.todo) /\ f.down = h.down
           /\ Head(h.todo) \in Event
           /\ \A j \in Key : Untouched(h, j) =>
                 Untouched(f, j) /\ ~(Head(h.todo).press /\ Head(h.todo).key = j)
  <1> DEFINE t == Tail(h.todo)
  <1>1. h \in Host /\ h.todo \in Seq(Event) /\ h.grab = "ready" /\ h.focus
    BY DEF Sound, Steady, Host
  <1>2. t \in Seq(Event) /\ f = [h EXCEPT !.todo = t]
    BY <1>1, HeadPresses
  <1>3. /\ f \in Host /\ f.todo = t /\ f.grab = h.grab /\ f.focus = h.focus /\ f.phys = h.phys
        /\ f.repeat = h.repeat /\ f.track = h.track /\ f.buffer = h.buffer /\ f.down = h.down
        /\ f.owned = h.owned /\ f.heard = h.heard
    <2> HIDE DEF t
    <2>1. QED
      BY <1>1, <1>2, ZenonT(60) DEF Host
  <1>4. Sound(f)
    BY <1>1, <1>3 DEF Sound, Steady, Balanced, Given, Undecided, Buffering
  <1>5. ASSUME NEW j \in Key, Untouched(h, j)
        PROVE  Untouched(f, j) /\ ~(Head(h.todo).press /\ Head(h.todo).key = j)
    BY <1>1, <1>3, <1>5, HeadPresses, TailPresses, ZenonT(60) DEF Untouched
  <1>6. QED
    BY <1>1, <1>3, <1>4, <1>5, HeadPresses

(* Routing a press keeps the invariant. *)
LEMMA RouteNextPressStep == ASSUME IInv, RouteNextPress PROVE IInv'
  <1> DEFINE e == Head(h.todo)
             k == e.key
             f == [h EXCEPT !.todo = Tail(@)]
  <1>1. /\ Sound(f) /\ f.grab = "ready" /\ f.focus /\ f.phys = h.phys /\ h.grab = "ready" /\ h.focus
        /\ e \in Event /\ e.press /\ k \in Key
        /\ \A j \in Key : Untouched(h, j) => Untouched(f, j) /\ ~(e.press /\ k = j)
    BY DequeueFacts DEF IInv, RouteNextPress, Idle, Event
  <1>2. PICK a \in Answer, available \in BOOLEAN : h' = ProcessKeyPress(f, e, a, available)
    BY DEF RouteNextPress
  <1> HIDE DEF e, f
  <1>3. Routed(f, h', k) /\ h'.repeat \in {f.repeat, k}
    BY <1>1, <1>2, ProcessKeyPressFacts DEF Sound, Steady
  <1>4. ASSUME NEW j \in direct
        PROVE  Untouched(h', j)
    <2>1. j \in Key /\ Untouched(f, j) /\ j # k
      BY <1>1, <1>4 DEF IInv, Direct, Grabbed
    <2>2. QED
      BY <1>3, <2>1 DEF Routed, Near, SameGrab, Elsewhere, Untouched
  <1>5. UNCHANGED <<held, direct, owed>>
    BY DEF RouteNextPress
  <1>6. QED
    BY <1>1, <1>3, <1>4, <1>5, RoutedStep

(* Routing a release keeps the invariant. *)
LEMMA RouteNextReleaseStep == ASSUME IInv, RouteNextRelease PROVE IInv'
  <1> DEFINE e == Head(h.todo)
             k == e.key
             f == [h EXCEPT !.todo = Tail(@)]
  <1>1. /\ Sound(f) /\ f.grab = "ready" /\ f.focus /\ f.phys = h.phys /\ h.grab = "ready" /\ h.focus
        /\ e \in Event /\ k \in Key
        /\ \A j \in Key : Untouched(h, j) => Untouched(f, j)
    BY DequeueFacts DEF IInv, RouteNextRelease, Idle, Event
  <1>2. PICK a \in Answer : h' = ProcessKeyRelease(f, e, a)
    BY DEF RouteNextRelease
  <1> HIDE DEF e, f
  <1>3. Routed(f, h', k) /\ h'.repeat \in {f.repeat, NoKey} /\ h'.track[k] = "IDLE"
    BY <1>1, <1>2, ProcessKeyReleaseFacts DEF Sound, Steady
  <1>4. ASSUME NEW j \in direct
        PROVE  Untouched(h', j)
    <2>1. j \in Key /\ Untouched(f, j)
      BY <1>1, <1>4 DEF IInv, Direct, Grabbed
    <2>2. QED
      BY <1>3, <2>1, KeyAssumption DEF Routed, Near, SameGrab, Elsewhere, Untouched
  <1>5. UNCHANGED <<held, direct, owed>>
    BY DEF RouteNextRelease
  <1>6. QED
    BY <1>1, <1>3, <1>4, <1>5, RoutedStep

(* A step that changes nothing the invariant speaks of, or only stops the repeat. *)
SameForKeys(f, g) ==
    /\ g \in Host /\ g.grab = f.grab /\ g.focus = f.focus /\ g.phys = f.phys
    /\ g.track = f.track /\ g.owned = f.owned /\ g.buffer = f.buffer /\ g.todo = f.todo
    /\ g.heard = f.heard /\ g.down = f.down /\ g.repeat \in {f.repeat, NoKey}

(* A step that leaves the keys alone keeps the invariant. *)
LEMMA QuietStep ==
    ASSUME IInv, SameForKeys(h, h'), UNCHANGED <<held, direct>>, owed' \in BOOLEAN
    PROVE  IInv'
  <1>1. Sound(h')
    BY DEF IInv, SameForKeys, Sound, Steady, Balanced, Given, Undecided, Buffering, Blank
  <1>2. \A j \in Key : Untouched(h, j) => Untouched(h', j)
    BY KeyAssumption DEF SameForKeys, Untouched
  <1>3. QED
    BY <1>1, <1>2 DEF IInv, SameForKeys, Direct, Physical, Grabbed


(* A repeat keeps the invariant. *)
LEMMA RepeatFiresStep == ASSUME IInv, RepeatFires PROVE IInv'
  <1> DEFINE k == h.repeat
  <1>1. /\ h.todo = <<>> /\ k \in Key /\ Sound(h) /\ h \in Host
        /\ UNCHANGED <<held, direct, owed>> /\ owed \in BOOLEAN
    BY DEF RepeatFires, Idle, IInv, Sound, Steady, Host
  <1>2. PICK a \in Answer :
          h' = IF h.focus /\ h.grab = "ready" THEN DispatchRepeat(h, a) ELSE RepeatStop(h)
    BY DEF RepeatFires
  <1>3. CASE h.focus /\ h.grab = "ready"
    <2>1. h' = DispatchRepeat(h, a)
      BY <1>2, <1>3
    <2>2. Routed(h, h', k) /\ h'.repeat \in {k, NoKey}
      BY <1>1, <2>1, DispatchRepeatFacts
    <2>3. ASSUME NEW j \in direct
          PROVE  Untouched(h', j)
      BY <1>1, <1>3, <2>2, <2>3, KeyAssumption
      DEF IInv, Direct, Grabbed, Routed, Near, SameGrab, Elsewhere, Untouched
    <2> HIDE DEF k
    <2>4. QED
      BY <1>1, <1>3, <2>2, <2>3, RoutedStep
  <1>4. CASE ~(h.focus /\ h.grab = "ready")
    <2>1. h' = RepeatStop(h)
      BY <1>2, <1>4
    <2>2. SameForKeys(h, h')
      BY <1>1, <2>1 DEF RepeatStop, SameForKeys, Host
    <2>3. QED
      BY <1>1, <2>2, QuietStep
  <1>5. QED
    BY <1>3, <1>4

(* A keymap keeps the invariant. *)
LEMMA ReceiveKeymapStep == ASSUME IInv, ReceiveKeymap PROVE IInv'
  <1>1. /\ h \in Host /\ h' = [h EXCEPT !.grab = "ready", !.xkb = {}]
        /\ owed' \in BOOLEAN /\ UNCHANGED <<held, direct>>
    BY DEF IInv, Sound, Steady, ReceiveKeymap, OnKeymap
  <1>2. /\ h' \in Host /\ h'.grab = "ready" /\ h'.focus = h.focus /\ h'.phys = h.phys
        /\ h'.track = h.track /\ h'.owned = h.owned /\ h'.buffer = h.buffer /\ h'.todo = h.todo
        /\ h'.heard = h.heard /\ h'.down = h.down /\ h'.repeat = h.repeat
    BY <1>1 DEF Host
  <1>3. CASE h.grab = "waiting"
    <2>1. Blank(h')
      BY <1>2, <1>3 DEF IInv, Sound, Steady, Blank
    <2>2. QED
      BY <1>1, <1>2, <2>1, BlankStep
  <1>4. CASE h.grab = "ready"
    BY <1>1, <1>2, <1>4, QuietStep DEF SameForKeys
  <1>5. QED
    BY <1>3, <1>4 DEF ReceiveKeymap

(* A modifiers event keeps the invariant. *)
LEMMA ReceiveModifiersStep == ASSUME IInv, ReceiveModifiers PROVE IInv'
  <1>1. h \in Host /\ h' = OnModifiers(h, ModsOf(held)) /\ owed' \in BOOLEAN /\ UNCHANGED <<held, direct>>
    BY DEF IInv, Sound, Steady, ReceiveModifiers
  <1>2. ModsOf(held) \in SUBSET Mod
    BY DEF ModsOf
  <1>3. SameForKeys(h, h')
    <2> DEFINE m == ModsOf(held)
               saw == h.saw \/ m \cap Blocking # {}
               r == IF h.xkb \cap Blocking # m \cap Blocking THEN NoKey ELSE h.repeat
    <2>1. saw \in BOOLEAN /\ r \in Key \cup {NoKey} /\ r \in {h.repeat, NoKey} /\ m \in SUBSET Mod
      BY <1>1, <1>2 DEF Host
    <2>2. h' = [h EXCEPT !.xkb = m, !.saw = saw, !.repeat = r]
      BY <1>1 DEF OnModifiers, Host
    <2> HIDE DEF m, saw, r
    <2>3. QED
      BY <1>1, <2>1, <2>2, ZenonT(60) DEF Host, SameForKeys
  <1>4. QED
    BY <1>1, <1>3, QuietStep

(* Entering a field keeps the invariant. *)
LEMMA EnterFieldStep == ASSUME IInv, EnterField PROVE IInv'
  <1>1. /\ Sound(h) /\ ~h.focus /\ h.grab \in {"absent", "waiting", "ready"} /\ h' = FocusIn(h)
        /\ UNCHANGED <<held, direct, owed>>
    BY DEF IInv, EnterField, Alive
  <1>2. h' \in Host /\ Blank(h') /\ h'.grab \in {"waiting", "ready"}
    BY <1>1, FocusInFacts
  <1>3. QED
    BY <1>1, <1>2, BlankStep DEF IInv

(* Leaving a field keeps the invariant. *)
LEMMA LeaveFieldStep == ASSUME IInv, LeaveField PROVE IInv'
  <1>1. Sound(h) /\ h.todo = <<>> /\ h.focus /\ h' = FocusOut(h) /\ UNCHANGED <<held, direct, owed>>
    BY DEF IInv, LeaveField, Idle
  <1>2. h' \in Host /\ Blank(h') /\ ~h'.focus
    BY <1>1, FocusOutFacts
  <1>3. QED
    BY <1>1, <1>2, BlankStep DEF IInv

(* Losing the grab keeps the invariant. *)
LEMMA LoseGrabStep == ASSUME IInv, LoseGrab PROVE IInv'
  <1>1. Sound(h) /\ h.todo = <<>> /\ h' = HardReset(h) /\ UNCHANGED <<held, direct>> /\ owed' = FALSE
    BY DEF IInv, LoseGrab, Idle
  <1>2. h' \in Host /\ Blank(h') /\ ~h'.focus
    BY <1>1, HardResetFacts
  <1>3. QED
    BY <1>1, <1>2, BlankStep

(* A teardown keeps the invariant. *)
LEMMA TeardownStep == ASSUME IInv, Teardown PROVE IInv'
  <1> DEFINE x == KeyboardDestroy(h)
  <1>1. h \in Host /\ h.todo = <<>> /\ UNCHANGED <<held, direct, owed>> /\ owed \in BOOLEAN
    BY DEF IInv, Sound, Steady, Teardown, Idle
  <1>2. h' = [x EXCEPT !.grab = "dead", !.focus = FALSE]
    BY DEF Teardown
  <1>3. x \in Host /\ Blank(x)
    BY <1>1, KeyboardDestroyFacts
  <1> HIDE DEF x
  <1>4. h' \in Host /\ ~h'.focus /\ Blank(h')
    BY <1>2, <1>3, ZenonT(60) DEF Host, Blank
  <1>5. QED
    BY <1>1, <1>4, BlankStep

(* The end of the orphan window keeps the invariant. *)
LEMMA GuardWindowEndsStep == ASSUME IInv, GuardWindowEnds PROVE IInv'
  <1>1. h \in Host /\ h' = [h EXCEPT !.young = FALSE] /\ UNCHANGED <<held, direct, owed>> /\ owed \in BOOLEAN
    BY DEF IInv, Sound, Steady, GuardWindowEnds
  <1>2. SameForKeys(h, h')
    BY <1>1 DEF Host, SameForKeys
  <1>3. QED
    BY <1>1, <1>2, QuietStep

(* An engine that comes or goes keeps the invariant. *)
LEMMA EngineAvailabilityStep == ASSUME IInv, EngineAvailability PROVE IInv'
  <1>1. h \in Host /\ h' = [h EXCEPT !.ready = ~@] /\ UNCHANGED <<held, direct, owed>> /\ owed \in BOOLEAN
    BY DEF IInv, Sound, Steady, EngineAvailability
  <1>2. SameForKeys(h, h')
    BY <1>1, ZenonT(60) DEF Host, SameForKeys
  <1>3. QED
    BY <1>1, <1>2, QuietStep

(* A key that passes the host by. *)
LEMMA ForwardSound ==
    ASSUME NEW f, Sound(f), NEW k \in Key, NEW press \in BOOLEAN, NEW g, g = Forward(f, k, press),
           f.grab \notin {"waiting", "ready"} \/ Untouched(f, k)
    PROVE  Sound(g) /\ SameKeys(f, g) /\ \A j \in Key : Untouched(f, j) => Untouched(g, j)
  <1>1. f \in Host
    BY DEF Sound, Steady
  <1>2. /\ g \in Host /\ g.grab = f.grab /\ g.focus = f.focus /\ g.phys = f.phys /\ g.repeat = f.repeat
        /\ g.track = f.track /\ g.owned = f.owned /\ g.buffer = f.buffer /\ g.todo = f.todo
        /\ g.heard = f.heard /\ \A j \in Key \ {k} : j \in g.down <=> j \in f.down
    BY <1>1 DEF Host, Forward
  <1>3. f.grab \in {"absent", "waiting", "ready", "released", "dead"}
    BY <1>1 DEF Host
  <1>4. ASSUME NEW j \in Key
        PROVE  Balanced(g, j)
    <2>1. CASE j = k
      <3>1. f.grab = "released" \/ f.track[k] = "IDLE"
        BY <1>3 DEF Sound, Steady, Blank, Untouched
      <3>2. QED
        BY <1>2, <2>1, <3>1 DEF Sound, Steady, Balanced, Given
    <2>2. CASE j # k
      BY <1>2, <2>2 DEF Sound, Steady, Balanced, Given
    <2>3. QED
      BY <2>1, <2>2
  <1>5. Sound(g)
    BY <1>2, <1>4 DEF Sound, Steady, Blank, Undecided, Buffering
  <1>6. QED
    BY <1>2, <1>5 DEF SameKeys, Untouched

(* A press by the user keeps the invariant. *)
LEMMA PressKeyStep == ASSUME IInv, NEW k \in Key, PressKey(k) PROVE IInv'
  <1>1. /\ Sound(h) /\ h.todo = <<>> /\ k \notin held /\ held' = held \cup {k} /\ owed' \in BOOLEAN
        /\ held \subseteq Key /\ direct \subseteq held
    BY DEF IInv, Direct, PressKey, Settled, Idle
  <1>2. CASE Grabbed
    <2>1. h' = OnKey(h, k, TRUE) /\ direct' = direct
      BY <1>2 DEF PressKey
    <2>2. /\ Sound(h') /\ h'.grab \in {h.grab, "released"} /\ h'.focus = h.focus
          /\ h'.grab = "ready" /\ h'.focus => h'.phys = h.phys \cup ModOf(k)
          /\ \A j \in Key : Untouched(h, j) /\ k # j => Untouched(h', j)
      BY <1>1, <2>1, OnKeyFacts, ZenonT(60)
    <2>3. Direct'
      BY <1>1, <1>2, <2>1, <2>2 DEF IInv, Direct, Grabbed
    <2>4. Physical'
      <3>1. SUFFICES ASSUME h'.grab = "ready", h'.focus
                     PROVE  h'.phys \subseteq ModsOf(held' \ direct')
        BY DEF Physical
      <3>2. h.phys \subseteq ModsOf(held \ direct) /\ h'.phys = h.phys \cup ModOf(k)
        BY <2>2, <3>1 DEF IInv, Physical
      <3>3. held' \ direct' = (held \ direct) \cup {k}
        BY <1>1, <2>1
      <3>4. QED
        BY <3>2, <3>3, ModsOfFacts
    <2>5. QED
      BY <1>1, <2>2, <2>3, <2>4 DEF IInv
  <1>3. CASE ~Grabbed
    <2>1. h' = Forward(h, k, TRUE) /\ direct' = direct \cup {k}
      BY <1>3 DEF PressKey
    <2>2. Sound(h') /\ SameKeys(h, h')
      BY <1>1, <1>3, <2>1, ForwardSound DEF Grabbed
    <2>3. Direct' /\ Physical'
      BY <1>1, <1>3, <2>1, <2>2 DEF Direct, Physical, Grabbed, SameKeys
    <2>4. QED
      BY <1>1, <2>2, <2>3 DEF IInv
  <1>4. QED
    BY <1>2, <1>3

(* A release by the user keeps the invariant. *)
LEMMA ReleaseKeyStep == ASSUME IInv, NEW k \in Key, ReleaseKey(k) PROVE IInv'
  <1>1. /\ Sound(h) /\ h.todo = <<>> /\ k \in held /\ held' = held \ {k} /\ direct' = direct \ {k}
        /\ owed' \in BOOLEAN /\ held \subseteq Key /\ direct \subseteq held
    BY DEF IInv, Direct, ReleaseKey, Settled, Idle
  <1>2. held' \ direct' = (held \ direct) \ {k}
    BY <1>1
  <1>3. CASE Grabbed /\ h' = OnKey(h, k, FALSE)
    <2>1. /\ Sound(h') /\ h'.grab \in {h.grab, "released"} /\ h'.focus = h.focus
          /\ h'.grab = "ready" /\ h'.focus => h'.phys = h.phys \ ModOf(k)
          /\ \A j \in Key : Untouched(h, j) => Untouched(h', j)
      BY <1>1, <1>3, OnKeyFacts, ZenonT(60)
    <2>2. Direct'
      BY <1>1, <1>3, <2>1 DEF IInv, Direct, Grabbed
    <2>3. Physical'
      <3>1. SUFFICES ASSUME h'.grab = "ready", h'.focus
                     PROVE  h'.phys \subseteq ModsOf(held' \ direct')
        BY DEF Physical
      <3>2. h.phys \subseteq ModsOf(held \ direct) /\ h'.phys = h.phys \ ModOf(k)
        BY <2>1, <3>1 DEF IInv, Physical
      <3>3. QED
        BY <1>2, <3>2, ModsOfFacts
    <2>4. QED
      BY <1>1, <2>1, <2>2, <2>3 DEF IInv
  <1>4. CASE (~Grabbed \/ k \in direct) /\ h' = Forward(h, k, FALSE)
    <2>1. h.grab \notin {"waiting", "ready"} \/ Untouched(h, k)
      BY <1>4 DEF IInv, Direct, Grabbed
    <2>2. Sound(h') /\ SameKeys(h, h') /\ \A j \in Key : Untouched(h, j) => Untouched(h', j)
      BY <1>1, <1>4, <2>1, ForwardSound
    <2>3. Direct'
      BY <1>1, <2>2 DEF IInv, Direct, Grabbed, SameKeys
    <2>4. Physical'
      <3>1. SUFFICES ASSUME h.grab = "ready", h.focus, k \in direct
                     PROVE  h'.phys \subseteq ModsOf(held' \ direct')
        BY <1>4, <2>2 DEF Physical, SameKeys, Grabbed
      <3>2. held' \ direct' = held \ direct
        BY <1>2, <3>1
      <3>3. QED
        BY <2>2, <3>1, <3>2 DEF IInv, Physical, SameKeys
    <2>5. QED
      BY <1>1, <2>2, <2>3, <2>4 DEF IInv
  <1>5. QED
    BY <1>3, <1>4 DEF ReleaseKey

-----------------------------------------------------------------------------
(* The repeat.  A press that waits for the router is of a modifier, which  *)
(* does not repeat, or of a key that is held.                              *)
Waits(f, keys) ==
    /\ \A k \in Key : Presses(f.buffer, k) => k \in ModifierKey
    /\ \A k \in Key : Presses(f.todo, k) => k \in ModifierKey \cup keys

Swallowed(f, g) ==
    /\ Buffering(f) /\ g.todo = <<>>
    /\ g.buffer = <<>> \/ (Len(f.buffer) = MaxBuffered /\ g.buffer = f.buffer)

(* The releases that wait, before an event and after it. *)
Kept(f, g, e) ==
    \A k \in Key : \/ Pending(f.buffer, k)
                   \/ ~e.press /\ e.key = k
                => Pending(g.buffer, k) \/ Pending(g.todo, k)

(* No press waits after the event but the chord's and, of a key that is    *)
(* not a modifier, the event itself; and releases wait unless swallowed.   *)
Queued(f, g, e) ==
    /\ \A k \in Key : Presses(g.buffer, k) => k \in ModifierKey
    /\ \A k \in Key : Presses(g.todo, k) => k \in ModifierKey \/ (e.press /\ k = e.key)
    /\ Swallowed(f, g) \/ Kept(f, g, e)

(* A queue without its first event still holds the other releases. *)
LEMMA TailPending ==
    ASSUME NEW s \in Seq(Event), s # <<>>, NEW k, Pending(s, k)
    PROVE  Pending(Tail(s), k) \/ (~Head(s).press /\ Head(s).key = k)
  <1>1. PICK i \in DOMAIN s : ~s[i].press /\ s[i].key = k
    BY DEF Pending
  <1>2. /\ DOMAIN s = 1 .. Len(s) /\ Len(s) \in Nat /\ Head(s) = s[1]
        /\ \A j \in DOMAIN s : j # 1 => j - 1 \in DOMAIN Tail(s) /\ Tail(s)[j - 1] = s[j]
    BY HeadTailProperties
  <1>3. CASE i = 1
    BY <1>1, <1>2, <1>3
  <1>4. CASE i # 1
    BY <1>1, <1>2, <1>4 DEF Pending
  <1>5. QED
    BY <1>3, <1>4

(* Replayed, every event waits in the loop's queue. *)
LEMMA PassQueued ==
    ASSUME NEW f, Receptive(f), NEW e \in Event,
           \A k \in Key : Presses(f.buffer, k) => k \in ModifierKey
    PROVE  Queued(f, Pass(f, e), e)
  <1> DEFINE g == Pass(f, e)
  <1>1. f \in Host /\ f.buffer \in Seq(Event)
    BY DEF Receptive, Steady, Host
  <1>2. g.buffer = <<>> /\ g.todo = Append(f.buffer, e)
    BY <1>1, PassFields
  <1> HIDE DEF g
  <1>3. ASSUME NEW k \in Key
        PROVE  /\ ~Presses(g.buffer, k)
               /\ Presses(g.todo, k) <=> Presses(f.buffer, k) \/ (e.press /\ e.key = k)
               /\ Pending(g.todo, k) <=> Pending(f.buffer, k) \/ (~e.press /\ e.key = k)
    BY <1>1, <1>2, NonePresses, AppendPresses, AppendPending
  <1>4. QED
    BY <1>3 DEF Queued, Kept, g

(* Buffered, an event waits behind the chord, unless the buffer is full.   *)
LEMMA PushQueued ==
    ASSUME NEW f, Receptive(f), NEW e \in Event, e.press => e.key \in ModifierKey,
           \A k \in Key : Presses(f.buffer, k) => k \in ModifierKey
    PROVE  Queued(f, BufferPush(f, e), e)
  <1> DEFINE g == BufferPush(f, e)
  <1>1. f.buffer \in Seq(Event) /\ f.todo = <<>> /\ Len(f.buffer) <= MaxBuffered
    BY DEF Receptive, Steady, Host
  <1>2. /\ g.todo = <<>>
        /\ g.buffer = IF Len(f.buffer) < MaxBuffered THEN Append(f.buffer, e) ELSE f.buffer
    BY BufferPushFacts DEF Receptive
  <1> HIDE DEF g
  <1>3. \A k \in Key : ~Presses(g.todo, k)
    BY <1>2, NonePresses
  <1>4. CASE Len(f.buffer) < MaxBuffered
    <2>1. ASSUME NEW k \in Key
          PROVE  /\ Presses(g.buffer, k) <=> Presses(f.buffer, k) \/ (e.press /\ e.key = k)
                 /\ Pending(g.buffer, k) <=> Pending(f.buffer, k) \/ (~e.press /\ e.key = k)
      BY <1>1, <1>2, <1>4, AppendPresses, AppendPending
    <2>2. QED
      BY <1>3, <2>1 DEF Queued, Kept, g
  <1>5. CASE ~(Len(f.buffer) < MaxBuffered)
    <2>1. Len(f.buffer) \in Nat /\ Len(f.buffer) = MaxBuffered /\ g.buffer = f.buffer
      BY <1>1, <1>2, <1>5, BufferAssumption
    <2>2. f.buffer # <<>>
      BY <2>1, QueueTypes, BufferAssumption
    <2>3. Swallowed(f, g)
      BY <1>2, <2>1, <2>2 DEF Swallowed, Buffering
    <2>4. QED
      BY <1>3, <2>1, <2>3 DEF Queued, g
  <1>6. QED
    BY <1>4, <1>5

(* A press is replayed with what waits, or buffered if it is of the chord. *)
LEMMA ArbiterPressQueued ==
    ASSUME NEW f, Receptive(f), NEW e \in Event, e.press, NEW g, g = ArbiterPress(f, e),
           \A k \in Key : Presses(f.buffer, k) => k \in ModifierKey
    PROVE  Queued(f, g, e)
  <1>1. \/ g = Pass(f, e)
        \/ g = BufferPush(f, e) /\ ModOf(e.key) \cap Chord # {}
    BY DEF ArbiterPress, StartsBuffering
  <1>2. ModOf(e.key) \cap Chord # {} => e.key \in ModifierKey
    BY DEF ModOf, Chord, ModifierKey
  <1>3. QED
    BY <1>1, <1>2, PassQueued, PushQueued

(* A release is replayed with what waits, buffered, or swallowed with a    *)
(* completed chord.                                                        *)
LEMMA ArbiterReleaseQueued ==
    ASSUME NEW f, Receptive(f), NEW e \in Event, ~e.press, NEW g, g = ArbiterRelease(f, e),
           \A k \in Key : Presses(f.buffer, k) => k \in ModifierKey
    PROVE  Queued(f, g, e)
  <1> DEFINE push == BufferPush(f, e)
             done == ArbiterConsume(push)
  <1>1. g \in {Pass(f, e), push} \/ (g = done /\ Buffering(f))
    BY DEF ArbiterRelease
  <1>2. Receptive(push)
    BY BufferPushFacts
  <1> HIDE DEF push
  <1>3. done.buffer = <<>> /\ done.todo = <<>>
    BY <1>2, ConsumeFacts
  <1> HIDE DEF done
  <1>4. CASE g = done /\ Buffering(f)
    BY <1>3, <1>4, NonePresses DEF Queued, Swallowed
  <1>5. CASE g \in {Pass(f, e), push}
    BY <1>5, PassQueued, PushQueued DEF push
  <1>6. QED
    BY <1>1, <1>4, <1>5

(* A key the grab receives leaves the repeat to the router, and its event  *)
(* in a queue.                                                             *)
Received(f, g, k, press) ==
    /\ g.repeat = f.repeat
    /\ \E e \in Event :
          /\ e.press = press /\ e.key = k
          /\ \/ Queued(f, g, e)
             \/ /\ ~(f.grab = "ready" /\ f.focus) \/ g.grab = "released"
                /\ g.buffer = f.buffer /\ g.todo = f.todo

(* Every key the grab receives is received so. *)
LEMMA OnKeyQueued ==
    ASSUME NEW f, Sound(f), f.todo = <<>>, NEW k \in Key, NEW press \in BOOLEAN,
           NEW g, g = OnKey(f, k, press),
           \A j \in Key : Presses(f.buffer, j) => j \in ModifierKey
    PROVE  Received(f, g, k, press)
  <1> DEFINE mods == EffectiveModifiers(f, k, press)
             e == [press |-> press, key |-> k, mods |-> mods]
             phys == IF press THEN f.phys \cup ModOf(k) ELSE f.phys \ ModOf(k)
             noted == [f EXCEPT !.phys = phys]
             exit == press /\ IsExit(k, mods)
  <1>1. f \in Host /\ ModOf(k) \subseteq Mod
    BY DEF Sound, Steady, ModOf
  <1>2. e \in Event /\ e.press = press /\ e.key = k
    BY <1>1 DEF Event, EffectiveModifiers, Host
  <1>3. CASE f.grab # "ready"
    <2>1. g = f
      BY <1>3 DEF OnKey
    <2>2. QED
      BY <1>2, <1>3, <2>1 DEF Received
  <1>4. CASE f.grab = "ready" /\ exit
    <2>1. g = [f EXCEPT !.grab = "released"]
      BY <1>4 DEF OnKey
    <2>2. g.grab = "released" /\ g.repeat = f.repeat /\ g.buffer = f.buffer /\ g.todo = f.todo
      BY <1>1, <2>1 DEF Host
    <2>3. QED
      BY <1>2, <2>2 DEF Received
  <1>5. CASE f.grab = "ready" /\ ~exit /\ ~f.focus
    <2>1. g = Forward(f, k, press)
      BY <1>5 DEF OnKey
    <2>2. g.repeat = f.repeat /\ g.buffer = f.buffer /\ g.todo = f.todo
      BY <1>1, <2>1 DEF Host, Forward
    <2>3. QED
      BY <1>2, <1>5, <2>2 DEF Received
  <1>6. CASE f.grab = "ready" /\ ~exit /\ f.focus
    <2>1. g = IF press THEN ArbiterPress(noted, e) ELSE ArbiterRelease(noted, e)
      <3>1. noted = [f EXCEPT !.phys = IF press THEN @ \cup ModOf(k) ELSE @ \ ModOf(k)]
        BY <1>1 DEF Host
      <3>2. QED
        BY <1>6, <3>1 DEF OnKey
    <2>2. /\ noted \in Host /\ noted.grab = f.grab /\ noted.focus = f.focus /\ noted.phys = phys
          /\ noted.todo = f.todo /\ noted.repeat = f.repeat /\ noted.track = f.track
          /\ noted.owned = f.owned /\ noted.heard = f.heard /\ noted.down = f.down
          /\ noted.buffer = f.buffer
      <3>1. phys \in SUBSET Mod
        BY <1>1 DEF Host
      <3> HIDE DEF phys
      <3>2. QED
        BY <1>1, <3>1 DEF Host
    <2>3. press => ModOf(k) \subseteq phys
      OBVIOUS
    <2> HIDE DEF noted, e, phys
    <2>4. Receptive(noted)
      BY <1>6, <2>2 DEF Sound, Steady, Balanced, Given, Receptive
    <2>5. SameKeys(noted, g) /\ Queued(noted, g, e)
      <3>1. CASE press
        <4>1. e.press /\ ModOf(e.key) \subseteq noted.phys /\ g = ArbiterPress(noted, e)
          BY <1>2, <2>1, <2>2, <2>3, <3>1
        <4>2. QED
          BY <1>2, <2>2, <2>4, <4>1, ArbiterPressFacts, ArbiterPressQueued DEF Arbitrated
      <3>2. CASE ~press
        <4>1. ~e.press /\ g = ArbiterRelease(noted, e)
          BY <1>2, <2>1, <3>2
        <4>2. QED
          BY <1>2, <2>2, <2>4, <4>1, ArbiterReleaseFacts, ArbiterReleaseQueued DEF Arbitrated
      <3>3. QED
        BY <3>1, <3>2
    <2>6. g.repeat = f.repeat /\ Queued(f, g, e)
      BY <2>2, <2>5 DEF SameKeys, Queued, Kept, Swallowed, Buffering
    <2>7. QED
      BY <1>2, <2>6 DEF Received
  <1>7. QED
    BY <1>3, <1>4, <1>5, <1>6

(* What a step must show of the repeat. *)
RepeatKept == Waits(h, held)' /\ (HeldRepeats /\ ~Swallows => HeldRepeats')

(* A key repeats only in a focused field of a ready grab. *)
LEMMA RepeatsFocused ==
    ASSUME IInv, h.repeat # NoKey, h.grab # "released"
    PROVE  h.grab = "ready" /\ h.focus
  BY DEF IInv, Sound, Steady, Blank, Host

(* A keyboard that forgets its keys repeats none. *)
LEMMA BlankRepeats ==
    ASSUME IInv, EnterField \/ LeaveField \/ LoseGrab \/ Teardown
    PROVE  RepeatKept
  <1> DEFINE x == KeyboardDestroy(h)
  <1>1. Sound(h) /\ h \in Host
    BY DEF IInv, Sound, Steady
  <1>2. CASE EnterField
    <2>1. ~h.focus /\ h.grab \in {"absent", "waiting", "ready"} /\ h' = FocusIn(h)
      BY <1>2 DEF EnterField, Alive
    <2>2. Blank(h')
      BY <1>1, <2>1, FocusInFacts
    <2>3. QED
      BY <2>2, NonePresses DEF Blank, RepeatKept, Waits, HeldRepeats
  <1>3. CASE LeaveField
    <2>1. h.todo = <<>> /\ h.focus /\ h' = FocusOut(h)
      BY <1>3 DEF LeaveField, Idle
    <2>2. Blank(h')
      BY <1>1, <2>1, FocusOutFacts
    <2>3. QED
      BY <2>2, NonePresses DEF Blank, RepeatKept, Waits, HeldRepeats
  <1>4. CASE LoseGrab
    <2>1. h.todo = <<>> /\ h' = HardReset(h)
      BY <1>4 DEF LoseGrab, Idle
    <2>2. Blank(h')
      BY <1>1, <2>1, HardResetFacts
    <2>3. QED
      BY <2>2, NonePresses DEF Blank, RepeatKept, Waits, HeldRepeats
  <1>5. CASE Teardown
    <2>1. h.todo = <<>> /\ h' = [x EXCEPT !.grab = "dead", !.focus = FALSE]
      BY <1>5 DEF Teardown, Idle
    <2>2. x \in Host /\ Blank(x)
      BY <1>1, <2>1, KeyboardDestroyFacts
    <2> HIDE DEF x
    <2>3. h'.buffer = x.buffer /\ h'.todo = x.todo /\ h'.repeat = x.repeat
      BY <2>1, <2>2 DEF Host
    <2>4. QED
      BY <2>2, <2>3, NonePresses DEF Blank, RepeatKept, Waits, HeldRepeats
  <1>6. QED
    BY <1>2, <1>3, <1>4, <1>5

(* A step that leaves the queues and the fingers alone starts no repeat. *)
LEMMA SameRepeats ==
    ASSUME Waits(h, held), UNCHANGED held, h'.buffer = h.buffer, h'.todo = h.todo,
           h'.repeat \in {h.repeat, NoKey}, h.repeat # NoKey /\ h.grab = "released" => h'.grab = "released"
    PROVE  RepeatKept
  BY DEF RepeatKept, Waits, HeldRepeats, ReleasePending

(* Neither does a timer, a keymap, a modifiers event or the engine. *)
LEMMA QuietRepeats ==
    ASSUME IInv, Waits(h, held),
           RepeatFires \/ ReceiveKeymap \/ ReceiveModifiers \/ GuardWindowEnds \/ EngineAvailability
    PROVE  RepeatKept
  <1>1. h \in Host
    BY DEF IInv, Sound, Steady
  <1>2. CASE RepeatFires
    <2> DEFINE k == h.repeat
    <2>1. k \in Key /\ h.grab # "released"
      BY <1>1, <1>2 DEF RepeatFires, Alive, Host
    <2>2. PICK a \in Answer :
            h' = IF h.focus /\ h.grab = "ready" THEN DispatchRepeat(h, a) ELSE RepeatStop(h)
      BY <1>2 DEF RepeatFires
    <2>3. \/ Routed(h, DispatchRepeat(h, a), k) /\ h' = DispatchRepeat(h, a)
          \/ Routed(h, RepeatStop(h), k) /\ h' = RepeatStop(h)
      BY <1>1, <2>1, <2>2, DispatchRepeatFacts, RepeatStopFacts
    <2>4. h'.repeat \in {k, NoKey}
      BY <1>1, <2>1, <2>2, DispatchRepeatFacts, RepeatStopFacts
    <2>5. h'.buffer = h.buffer /\ h'.todo = h.todo
      BY <2>3 DEF Routed, Near, SameGrab
    <2>6. UNCHANGED held
      BY <1>2 DEF RepeatFires
    <2>7. QED
      BY <2>1, <2>4, <2>5, <2>6, SameRepeats
  <1>3. CASE ReceiveKeymap
    <2>1. h' = [h EXCEPT !.grab = "ready", !.xkb = {}] /\ UNCHANGED held /\ h.grab # "released"
      BY <1>3 DEF ReceiveKeymap, OnKeymap
    <2>2. h'.buffer = h.buffer /\ h'.todo = h.todo /\ h'.repeat = h.repeat
      BY <1>1, <2>1 DEF Host
    <2>3. QED
      BY <2>1, <2>2, SameRepeats
  <1>4. CASE ReceiveModifiers
    <2>1. h' = OnModifiers(h, ModsOf(held)) /\ UNCHANGED held /\ h.grab = "ready"
      BY <1>4 DEF ReceiveModifiers
    <2>2. h'.buffer = h.buffer /\ h'.todo = h.todo /\ h'.repeat \in {h.repeat, NoKey}
      BY <1>1, <2>1 DEF Host, OnModifiers
    <2>3. QED
      BY <2>1, <2>2, SameRepeats
  <1>5. CASE GuardWindowEnds \/ EngineAvailability
    <2>1. /\ h' \in {[h EXCEPT !.young = FALSE], [h EXCEPT !.ready = ~@]}
          /\ UNCHANGED held
      BY <1>5 DEF GuardWindowEnds, EngineAvailability
    <2>2. h'.buffer = h.buffer /\ h'.todo = h.todo /\ h'.repeat = h.repeat /\ h'.grab = h.grab
      BY <1>1, <2>1 DEF Host
    <2>3. QED
      BY <2>1, <2>2, SameRepeats
  <1>6. QED
    BY <1>2, <1>3, <1>4, <1>5

(* A press that is routed may start the repeat of its key, which is held.  *)
LEMMA RoutedPressRepeats ==
    ASSUME IInv, Waits(h, held), RouteNextPress
    PROVE  RepeatKept
  <1> DEFINE e == Head(h.todo)
             k == e.key
             f == [h EXCEPT !.todo = Tail(@)]
  <1>1. /\ Sound(f) /\ h.grab = "ready" /\ e \in Event /\ e.press /\ k \in Key
        /\ f.buffer = h.buffer /\ f.todo = Tail(h.todo) /\ f.repeat = h.repeat
    BY DequeueFacts DEF IInv, RouteNextPress, Idle, Event
  <1>2. PICK a \in Answer, available \in BOOLEAN : h' = ProcessKeyPress(f, e, a, available)
    BY DEF RouteNextPress
  <1>3. h.todo \in Seq(Event) /\ h.todo # <<>>
    BY DEF RouteNextPress, Idle, IInv, Sound, Steady, Host
  <1>4. /\ Presses(h.todo, k)
        /\ \A j : Presses(Tail(h.todo), j) => Presses(h.todo, j)
        /\ \A j : Pending(h.todo, j) => Pending(Tail(h.todo), j)
    BY <1>1, <1>3, HeadPresses, TailPresses, TailPending
  <1> HIDE DEF e, f
  <1>5. Routed(f, h', k) /\ (h'.repeat = f.repeat \/ (h'.repeat = k /\ k \notin ModifierKey))
    BY <1>1, <1>2, ProcessKeyPressFacts DEF Sound, Steady
  <1>6. h'.buffer = h.buffer /\ h'.todo = Tail(h.todo)
    BY <1>1, <1>5 DEF Routed, Near, SameGrab
  <1>7. UNCHANGED held
    BY DEF RouteNextPress
  <1>8. Waits(h, held)'
    BY <1>4, <1>6, <1>7 DEF Waits
  <1>9. k \notin ModifierKey => k \in held
    BY <1>1, <1>4 DEF Waits
  <1>10. HeldRepeats => HeldRepeats'
    BY <1>1, <1>4, <1>5, <1>6, <1>7, <1>9 DEF HeldRepeats, ReleasePending
  <1>11. QED
    BY <1>8, <1>10 DEF RepeatKept

(* A release that is routed stops the repeat of its key. *)
LEMMA RoutedReleaseRepeats ==
    ASSUME IInv, Waits(h, held), RouteNextRelease
    PROVE  RepeatKept
  <1> DEFINE e == Head(h.todo)
             k == e.key
             f == [h EXCEPT !.todo = Tail(@)]
  <1>1. /\ Sound(f) /\ h.grab = "ready" /\ e \in Event /\ k \in Key
        /\ f.buffer = h.buffer /\ f.todo = Tail(h.todo) /\ f.repeat = h.repeat
    BY DequeueFacts DEF IInv, RouteNextRelease, Idle, Event
  <1>2. PICK a \in Answer : h' = ProcessKeyRelease(f, e, a)
    BY DEF RouteNextRelease
  <1>3. h.todo \in Seq(Event) /\ h.todo # <<>>
    BY DEF RouteNextRelease, Idle, IInv, Sound, Steady, Host
  <1>4. /\ \A j : Presses(Tail(h.todo), j) => Presses(h.todo, j)
        /\ \A j : Pending(h.todo, j) => Pending(Tail(h.todo), j) \/ j = k
    BY <1>3, TailPresses, TailPending
  <1> HIDE DEF e, f
  <1>5. Routed(f, h', k) /\ h'.repeat \in {f.repeat, NoKey} /\ h'.repeat # k
    BY <1>1, <1>2, ProcessKeyReleaseFacts DEF Sound, Steady
  <1>6. h'.buffer = h.buffer /\ h'.todo = Tail(h.todo)
    BY <1>1, <1>5 DEF Routed, Near, SameGrab
  <1>7. UNCHANGED held
    BY DEF RouteNextRelease
  <1>8. Waits(h, held)'
    BY <1>4, <1>6, <1>7 DEF Waits
  <1>9. HeldRepeats => HeldRepeats'
    BY <1>1, <1>4, <1>5, <1>6, <1>7 DEF HeldRepeats, ReleasePending
  <1>10. QED
    BY <1>8, <1>9 DEF RepeatKept

(* What the user presses joins what is held; what waits, waits on. *)
LEMMA PressKeyRepeats ==
    ASSUME IInv, Waits(h, held), NEW k \in Key, PressKey(k)
    PROVE  RepeatKept
  <1>1. /\ Sound(h) /\ h \in Host /\ h.todo = <<>> /\ held' = held \cup {k}
        /\ \A j \in Key : Presses(h.buffer, j) => j \in ModifierKey
    BY DEF IInv, Sound, Steady, PressKey, Settled, Idle, Waits
  <1>2. CASE Grabbed
    <2>1. h' = OnKey(h, k, TRUE)
      BY <1>2 DEF PressKey
    <2>2. Received(h, h', k, TRUE) /\ h'.repeat = h.repeat
      <3>1. Received(h, h', k, TRUE)
        BY <1>1, <2>1, OnKeyQueued, ZenonT(60)
      <3>2. QED
        BY <3>1 DEF Received
    <2>3. PICK e \in Event :
            /\ e.press = TRUE /\ e.key = k
            /\ \/ Queued(h, h', e)
               \/ /\ ~(h.grab = "ready" /\ h.focus) \/ h'.grab = "released"
                  /\ h'.buffer = h.buffer /\ h'.todo = h.todo
      BY <2>2 DEF Received
    <2>4. Waits(h, held)'
      BY <1>1, <2>3, NonePresses DEF Queued, Waits
    <2>5. ASSUME HeldRepeats, ~Swallows, h'.repeat # NoKey, h'.grab # "released"
          PROVE  h'.repeat \in held' \/ ReleasePending(h.repeat)'
      <3>1. /\ h.grab = "ready" /\ h.focus /\ h.repeat \in Key
            /\ h.repeat \in held \/ ReleasePending(h.repeat)
        BY <1>1, <1>2, <2>2, <2>5, RepeatsFocused DEF Grabbed, HeldRepeats, Host
      <3>2. Kept(h, h', e)
        BY <2>3, <2>5, <3>1 DEF Queued, Swallowed, Swallows
      <3>3. ~Pending(h.todo, h.repeat)
        BY <1>1 DEF Pending
      <3>4. QED
        BY <1>1, <2>2, <3>1, <3>2, <3>3 DEF Kept, ReleasePending
    <2>6. QED
      BY <2>2, <2>4, <2>5 DEF RepeatKept, HeldRepeats, ReleasePending
  <1>3. CASE ~Grabbed
    <2>1. h' = Forward(h, k, TRUE)
      BY <1>3 DEF PressKey
    <2>2. h'.buffer = h.buffer /\ h'.todo = h.todo /\ h'.repeat = h.repeat /\ h'.grab = h.grab
      BY <1>1, <2>1 DEF Host, Forward
    <2>3. Waits(h, held)'
      BY <1>1, <2>2 DEF Waits
    <2>4. QED
      BY <1>1, <2>2, <2>3 DEF RepeatKept, HeldRepeats, ReleasePending
  <1>4. QED
    BY <1>2, <1>3

(* What the user releases waits, but in a chord that swallows it. *)
LEMMA ReleaseKeyRepeats ==
    ASSUME IInv, Waits(h, held), NEW k \in Key, ReleaseKey(k)
    PROVE  RepeatKept
  <1>1. /\ Sound(h) /\ h \in Host /\ h.todo = <<>> /\ held' = held \ {k}
        /\ \A j \in Key : Presses(h.buffer, j) => j \in ModifierKey
    BY DEF IInv, Sound, Steady, ReleaseKey, Settled, Idle, Waits
  <1>2. CASE Grabbed /\ h' = OnKey(h, k, FALSE)
    <2>1. Received(h, h', k, FALSE) /\ h'.repeat = h.repeat
      <3>1. Received(h, h', k, FALSE)
        BY <1>1, <1>2, OnKeyQueued, ZenonT(60)
      <3>2. QED
        BY <3>1 DEF Received
    <2>2. PICK e \in Event :
            /\ e.press = FALSE /\ e.key = k
            /\ \/ Queued(h, h', e)
               \/ /\ ~(h.grab = "ready" /\ h.focus) \/ h'.grab = "released"
                  /\ h'.buffer = h.buffer /\ h'.todo = h.todo
      BY <2>1 DEF Received
    <2>3. Waits(h, held)'
      BY <1>1, <2>2, NonePresses DEF Queued, Waits
    <2>4. ASSUME HeldRepeats, ~Swallows, h'.repeat # NoKey, h'.grab # "released"
          PROVE  h'.repeat \in held' \/ ReleasePending(h.repeat)'
      <3>1. /\ h.grab = "ready" /\ h.focus /\ h.repeat \in Key
            /\ h.repeat \in held \/ ReleasePending(h.repeat)
        BY <1>1, <1>2, <2>1, <2>4, RepeatsFocused DEF Grabbed, HeldRepeats, Host
      <3>2. Kept(h, h', e)
        BY <2>2, <2>4, <3>1 DEF Queued, Swallowed, Swallows
      <3>3. ~Pending(h.todo, h.repeat)
        BY <1>1 DEF Pending
      <3>4. QED
        BY <1>1, <2>1, <2>2, <3>1, <3>2, <3>3 DEF Kept, ReleasePending
    <2>5. QED
      BY <2>1, <2>3, <2>4 DEF RepeatKept, HeldRepeats, ReleasePending
  <1>3. CASE (~Grabbed \/ k \in direct) /\ h' = Forward(h, k, FALSE)
    <2>1. h'.buffer = h.buffer /\ h'.todo = h.todo /\ h'.repeat = h.repeat /\ h'.grab = h.grab
      BY <1>1, <1>3 DEF Host, Forward
    <2>2. Waits(h, held)'
      BY <1>1, <2>1, NonePresses DEF Waits
    <2>3. h.repeat # NoKey /\ h.grab # "released" => h.repeat # k
      <3>1. SUFFICES ASSUME h.repeat # NoKey, h.grab # "released" PROVE h.repeat # k
        OBVIOUS
      <3>2. Grabbed
        BY <3>1, RepeatsFocused DEF Grabbed
      <3>3. QED
        BY <1>3, <3>2 DEF IInv, Direct, Untouched
    <2>4. QED
      BY <1>1, <2>1, <2>2, <2>3 DEF RepeatKept, HeldRepeats, ReleasePending
  <1>4. QED
    BY <1>2, <1>3 DEF ReleaseKey

(* Every step keeps the repeat to a key that is held. *)
LEMMA RepeatStep ==
    ASSUME IInv, Waits(h, held), [Next]_vars
    PROVE  Waits(h, held)' /\ [HeldRepeats /\ ~Swallows => HeldRepeats']_vars
  <1>1. CASE UNCHANGED vars
    BY <1>1 DEF vars, Waits
  <1>2. CASE Next
    <2>1. RepeatKept
      BY <1>2, BlankRepeats, QuietRepeats, RoutedPressRepeats, RoutedReleaseRepeats,
         PressKeyRepeats, ReleaseKeyRepeats
      DEF Next, Press, Release
    <2>2. QED
      BY <2>1 DEF RepeatKept
  <1>3. QED
    BY <1>1, <1>2

-----------------------------------------------------------------------------
(* The theorems. *)

(* A fresh host is blank. *)
LEMMA InvariantInit == ASSUME Init PROVE IInv
  <1>1. h \in Host
    BY QueueTypes DEF Init, Host, Track
  <1>2. Blank(h) /\ h.grab = "absent" /\ ~h.focus
    BY DEF Init, Blank
  <1>3. Sound(h)
    BY <1>1, <1>2, BlankFacts
  <1>4. QED
    BY <1>2, <1>3 DEF Init, IInv, Direct, Physical

(* Every step keeps the invariant. *)
LEMMA InvariantStep == ASSUME IInv, [Next]_vars PROVE IInv'
  <1>1. CASE UNCHANGED vars
    BY <1>1 DEF vars, IInv, Sound, Steady, Undecided, Buffering, Balanced, Given, Blank,
                Direct, Physical, Grabbed, Untouched
  <1>2. CASE Next
    BY <1>2, RouteNextPressStep, RouteNextReleaseStep, RepeatFiresStep, ReceiveKeymapStep,
       ReceiveModifiersStep, EnterFieldStep, LeaveFieldStep, LoseGrabStep, TeardownStep,
       GuardWindowEndsStep, EngineAvailabilityStep, PressKeyStep, ReleaseKeyStep
    DEF Next, Press, Release
  <1>3. QED
    BY <1>1, <1>2

(* The invariant holds at the start and after every step: a fresh host is  *)
(* blank, and each handler of the keyboard keeps it sound.                 *)
THEOREM Invariance == Spec => []IInv
  BY InvariantInit, InvariantStep, PTL DEF Spec

(* Every variable keeps its type, and the arbiter's buffer its capacity.   *)
THEOREM TypeCorrect == Spec => []TypeOK
  <1>1. IInv => TypeOK
    BY DEF IInv, Sound, Steady, Direct, TypeOK
  <1>2. QED
    BY <1>1, Invariance, PTL

(* No pause, rebuilt grab or arbitration leaves physical_modifiers with a  *)
(* modifier that the user does not hold.                                   *)
THEOREM NoModifierIsPhantom == Spec => []NoPhantomModifier
  <1>1. ModsOf(held \ direct) \subseteq ModsOf(held)
    BY DEF ModsOf
  <1>2. IInv => NoPhantomModifier
    BY <1>1 DEF IInv, Physical, NoPhantomModifier
  <1>3. QED
    BY <1>1, <1>2, Invariance, PTL

(* The arbiter never waits for a chord of which the user holds no part. *)
THEOREM NoChordIsForgotten == Spec => []UndecidedIsHeld
  <1>1. IInv => UndecidedIsHeld
    BY DEF IInv, Sound, Undecided, UndecidedIsHeld
  <1>2. QED
    BY <1>1, Invariance, PTL

(* Until the emergency exit, every key tracked as given away is down in    *)
(* the application: its release will not be one too many.                  *)
THEOREM NoReleaseTooMany == Spec => []TrackedIsDown
  <1>1. IInv => TrackedIsDown
    BY DEF IInv, Sound, Steady, Balanced, Given, TrackedIsDown, ForwardedKeys
  <1>2. QED
    BY <1>1, Invariance, PTL

(* An engine is given the release of a key only after its press, in the    *)
(* same focus.                                                             *)
THEOREM ReleasesMatchPresses == Spec => []EngineReleaseMatches
  <1>1. IInv => EngineReleaseMatches
    <2> SUFFICES ASSUME IInv PROVE EngineReleaseMatches
      OBVIOUS
    <2>1. h.owned \subseteq Key /\ \A k \in Key : Balanced(h, k)
      BY DEF IInv, Sound, Steady, Host
    <2>2. QED
      BY <2>1 DEF Balanced, EngineReleaseMatches
  <1>2. QED
    BY <1>1, Invariance, PTL

(* A key that repeats is held, or its release is still under arbitration,  *)
(* until the arbiter swallows the release.                                 *)
THEOREM RepeatsEndWithTheirKey == Spec => RepeatIsHeld
  <1>1. Init => Waits(h, held)
    BY NonePresses DEF Init, Waits
  <1>2. IInv /\ Waits(h, held) /\ [Next]_vars => Waits(h, held)'
    BY RepeatStep
  <1>3. IInv /\ Waits(h, held) /\ [Next]_vars => [HeldRepeats /\ ~Swallows => HeldRepeats']_vars
    BY RepeatStep
  <1>4. QED
    BY <1>1, <1>2, <1>3, Invariance, PTL DEF Spec, RepeatIsHeld
=============================================================================

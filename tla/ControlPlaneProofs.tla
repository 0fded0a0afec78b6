-------------------------- MODULE ControlPlaneProofs --------------------------
(***************************************************************************)
(* The control plane for every catalogue of engines, set of manifests,     *)
(* list of languages and configuration: its invariants, by one inductive   *)
(* invariant IInv that says what holds in each phase of the process, and   *)
(* that a refused request changes nothing.                                 *)
(***************************************************************************)
EXTENDS ControlPlane, StateControllerProofs, FiniteSetTheorems, TLAPS

(***************************************************************************)
(* Kept lists.                                                             *)
(***************************************************************************)
Rank(at, i) == Cardinality({j \in at : j <= i})

(* The ranks of a finite set of numbers are the first ones, each once.     *)
LEMMA RanksCount ==
    ASSUME NEW n \in Nat, NEW at \in SUBSET (1..n)
    PROVE  /\ Cardinality(at) \in Nat
           /\ \A i \in at : Rank(at, i) \in 1..Cardinality(at)
           /\ \A i, j \in at : Rank(at, i) = Rank(at, j) => i = j
           /\ \A k \in 1..Cardinality(at) : \E i \in at : Rank(at, i) = k
<1> DEFINE upto(i) == {j \in at : j <= i}
           C == Cardinality(at)
           f == [i \in at |-> Rank(at, i)]
<1>1. IsFiniteSet(at) /\ C \in Nat
  <2>1. IsFiniteSet(1..n)
    BY FS_Interval
  <2>2. IsFiniteSet(at)
    BY <2>1, FS_Subset
  <2> QED
    BY <2>2, FS_CardinalityType
<1>2. ASSUME NEW i \in at
      PROVE  IsFiniteSet(upto(i)) /\ Rank(at, i) \in 1..C
  <2>1. upto(i) \in SUBSET at /\ i \in upto(i)
    OBVIOUS
  <2>2. IsFiniteSet(upto(i)) /\ Cardinality(upto(i)) <= C
    BY <1>1, <2>1, FS_Subset
  <2>3. Cardinality(upto(i)) \in Nat /\ Cardinality(upto(i)) # 0
    BY <2>1, <2>2, FS_CardinalityType, FS_EmptySet
  <2> QED
    BY <1>1, <2>2, <2>3 DEF Rank
<1>3. ASSUME NEW i \in at, NEW j \in at, i < j
      PROVE  Rank(at, i) # Rank(at, j)
  <2>0. at \subseteq Int
    OBVIOUS
  <2>1. upto(i) \in SUBSET upto(j) /\ j \in upto(j) /\ j \notin upto(i)
    <3>1. i \in Int /\ j \in Int /\ i < j
      BY <1>3, <2>0
    <3>2. \A x \in Int : x <= i => x <= j
      BY <3>1
    <3>3. ~(j <= i) /\ j <= j
      BY <3>1
    <3> QED
      BY <2>0, <3>2, <3>3
  <2>2. upto(i) # upto(j)
    BY <2>1
  <2>3. Cardinality(upto(j)) # Cardinality(upto(i))
    <3>1. IsFiniteSet(upto(j))
      BY <1>2
    <3> HIDE DEF upto
    <3> QED
      BY <2>1, <2>2, <3>1, FS_Subset
  <2> QED
    BY <2>3 DEF Rank
<1>4. \A i, j \in at : Rank(at, i) = Rank(at, j) => i = j
  <2> SUFFICES ASSUME NEW i \in at, NEW j \in at, i # j
               PROVE  Rank(at, i) # Rank(at, j)
    OBVIOUS
  <2> i < j \/ j < i
    OBVIOUS
  <2> QED
    BY <1>3
<1>5. \A k \in 1..C : \E i \in at : Rank(at, i) = k
  <2>1. f \in [at -> 1..C]
    BY <1>2
  <2>2. \A i, j \in at : f[i] = f[j] => i = j
    BY <1>4
  <2>3. f \in Injection(at, 1..C)
    BY <2>1, <2>2 DEF Injection, IsInjective
  <2>4. IsFiniteSet(1..C) /\ Cardinality(1..C) = C
    BY <1>1, FS_Interval
  <2> HIDE DEF f
  <2>5. f \in Surjection(at, 1..C)
    BY <1>1, <2>3, <2>4, FS_Injection
  <2>6. \A k \in 1..C : \E i \in at : f[i] = k
    BY <2>5 DEF Surjection
  <2> QED
    BY <2>6 DEF f
<1> QED
  BY <1>1, <1>2, <1>4, <1>5

(* A non-empty set of positions has a least one: what Least chooses exists. *)
LEMMA LeastIs ==
    ASSUME NEW n \in Nat, NEW at \in SUBSET (1..n), at # {}
    PROVE  \E i \in at : \A j \in at : i <= j
<1>1. IsFiniteSet(at) /\ Cardinality(at) \in Nat
  <2>1. IsFiniteSet(1..n)
    BY FS_Interval
  <2>2. IsFiniteSet(at)
    BY <2>1, FS_Subset
  <2> QED
    BY <2>2, FS_CardinalityType
<1>2. 1 \in 1..Cardinality(at)
  BY <1>1, FS_EmptySet
<1>3. PICK i \in at : Rank(at, i) = 1
  BY <1>2, RanksCount
<1>4. ASSUME NEW j \in at, j <= i
      PROVE  j = i
  <2> DEFINE upto == {k \in at : k <= i}
  <2>1. IsFiniteSet(upto) /\ Cardinality(upto) = 1
    BY <1>1, <1>3, FS_Subset DEF Rank
  <2>2. PICK x : upto = {x}
    <3> HIDE DEF upto
    <3> QED
      BY <2>1, FS_Singleton
  <2>3. i \in upto /\ j \in upto
    BY <1>4
  <2> QED
    BY <2>2, <2>3
<1>5. at \subseteq Int
  OBVIOUS
<1> QED
  BY <1>4, <1>5

(* A kept list has what the list has at the places kept, each place once.  *)
LEMMA KeptIs ==
    ASSUME NEW S, NEW list \in Seq(S), NEW at \in SUBSET DOMAIN list,
           NEW kept, kept = Kept(list, at)
    PROVE  /\ kept \in Seq(S) /\ Len(kept) = Cardinality(at)
           /\ \A k \in DOMAIN kept : \E i \in at : kept[k] = list[i]
           /\ \A i \in at : \E k \in DOMAIN kept : kept[k] = list[i]
           /\ (\A i, j \in DOMAIN list : i # j => list[i] # list[j])
                 => \A k, l \in DOMAIN kept : k # l => kept[k] # kept[l]
<1> DEFINE C == Cardinality(at)
           place(k) == CHOOSE i \in at : Rank(at, i) = k
<1>1. Len(list) \in Nat /\ DOMAIN list = 1..Len(list) /\ \A i \in DOMAIN list : list[i] \in S
  OBVIOUS
<1>2. /\ C \in Nat
      /\ \A i \in at : Rank(at, i) \in 1..C
      /\ \A i, j \in at : Rank(at, i) = Rank(at, j) => i = j
      /\ \A k \in 1..C : \E i \in at : Rank(at, i) = k
  BY <1>1, RanksCount
<1>3. kept = [k \in 1..C |-> list[place(k)]]
  BY DEF Kept, Rank
<1>4. \A k \in 1..C : place(k) \in at /\ Rank(at, place(k)) = k
  BY <1>2
<1>5. \A i \in at : place(Rank(at, i)) = i
  BY <1>2, <1>4
<1> HIDE DEF place, C
<1>6. DOMAIN kept = 1..C /\ \A k \in 1..C : kept[k] = list[place(k)]
  BY <1>3
<1>7. kept \in Seq(S) /\ Len(kept) = C
  <2>1. \A k \in 1..C : kept[k] \in S
    BY <1>1, <1>4, <1>6
  <2>2. kept \in [1..C -> S]
    BY <1>3, <2>1
  <2> QED
    BY <1>2, <2>2
<1>8. \A k \in DOMAIN kept : \E i \in at : kept[k] = list[i]
  BY <1>4, <1>6
<1>9. \A i \in at : \E k \in DOMAIN kept : kept[k] = list[i]
  BY <1>2, <1>5, <1>6
<1>10. ASSUME \A i, j \in DOMAIN list : i # j => list[i] # list[j], NEW k \in DOMAIN kept,
              NEW l \in DOMAIN kept, k # l
       PROVE  kept[k] # kept[l]
  <2>1. place(k) \in DOMAIN list /\ place(l) \in DOMAIN list /\ place(k) # place(l)
    BY <1>4, <1>6, <1>10
  <2> QED
    BY <1>6, <1>10, <2>1
<1> QED
  BY <1>7, <1>8, <1>9, <1>10 DEF C


(***************************************************************************)
(* The registry: no engine twice, each slot with an engine of its kind     *)
(* that is loaded, a language that is listed.                              *)
(***************************************************************************)
Slot(r, e, kind) == e # None => e \in In(r.loaded) /\ Catalog[e].kind = kind
Distinct(list) == \A i, j \in DOMAIN list : i # j => list[i] # list[j]
Registry(r) ==
    /\ r.loaded \in Seq(Name) /\ Distinct(r.loaded)
    /\ Slot(r, r.kb, "keyboard") /\ Slot(r, r.voice, "voice")
    /\ r.lang \in {None} \cup In(Language)

(* A list of the registry's engines of one kind is a list of names, each   *)
(* fit for that slot.                                                      *)
LEMMA ListedIs ==
    ASSUME NEW r, r.loaded \in Seq(Name), NEW kind
    PROVE  /\ Listed(r, kind) \in Seq(Name)
           /\ \A e \in In(Listed(r, kind)) : Slot(r, e, kind)
<1> DEFINE at == {i \in DOMAIN r.loaded : Catalog[r.loaded[i]].kind = kind}
           list == Kept(r.loaded, at)
<1>1. at \in SUBSET DOMAIN r.loaded
  OBVIOUS
<1>2. \A i \in at : r.loaded[i] \in In(r.loaded) /\ Catalog[r.loaded[i]].kind = kind
  BY DEF In
<1> HIDE DEF at
<1>3. list \in Seq(Name) /\ \A k \in DOMAIN list : \E i \in at : list[k] = r.loaded[i]
  BY <1>1, KeptIs
<1>4. Listed(r, kind) = list
  BY DEF Listed, at
<1> HIDE DEF list
<1>5. \A e \in In(list) : \E k \in DOMAIN list : e = list[k]
  BY DEF In
<1>6. \A e \in In(list) : Slot(r, e, kind)
  BY <1>2, <1>3, <1>5 DEF Slot
<1> QED
  BY <1>3, <1>4, <1>6

(* The languages offered are languages, in a list without others. *)
LEMMA LanguagesAre ==
    ASSUME NEW w
    PROVE  Languages(w) \in Seq(In(Language)) /\ In(Languages(w)) \subseteq In(Language)
<1> DEFINE at == {i \in DOMAIN Language :
                       \/ \E s \in w.conf.mem : s.what = "language" /\ s.of = Language[i]
                       \/ \E e \in In(w.reg.loaded) : Language[i] \in Catalog[e].speaks}
           list == Kept(Language, at)
<1>1. at \in SUBSET DOMAIN Language
  OBVIOUS
<1>2. Languages(w) = list
  BY DEF Languages
<1> HIDE DEF at
<1>3. list \in Seq(In(Language)) /\ \A k \in DOMAIN list : \E i \in at : list[k] = Language[i]
  BY <1>1, KeptIs, LanguageAssumption
<1> HIDE DEF list
<1>4. In(list) \subseteq In(Language)
  BY <1>1, <1>3 DEF In
<1> QED
  BY <1>2, <1>3, <1>4

(* Taking the remainder by a positive number stays below it, which keeps a *)
(* cycle's index in its list.                                              *)
LEMMA Remainder ==
    ASSUME NEW x \in Int, NEW n \in Nat \ {0}
    PROVE  x % n \in 0..(n - 1)
  OBVIOUS

(* Cycling a non-empty list, forwards or backwards and from anywhere, stays*)
(* in the list.                                                            *)
LEMMA CycledIs ==
    ASSUME NEW S, NEW list \in Seq(S), list # <<>>, NEW now, NEW step \in {1, -1}
    PROVE  Cycled(list, now, step) \in In(list)
<1> DEFINE n == Len(list)
           at == IF now \in In(list) THEN CHOOSE i \in 1..n : list[i] = now ELSE (IF step = 1 THEN n ELSE 1)
<1>1. n \in Nat /\ n # 0 /\ DOMAIN list = 1..n
  OBVIOUS
<1>2. at \in 1..n
  <2>1. now \in In(list) => \E i \in 1..n : list[i] = now
    BY <1>1 DEF In
  <2> QED
    BY <1>1, <2>1
<1>3. Cycled(list, now, step) = list[((at - 1 + step + n) % n) + 1]
  BY DEF Cycled
<1> HIDE DEF n, at
<1>4. ((at - 1 + step + n) % n) + 1 \in 1..n
  <2> DEFINE x == at - 1 + step + n
  <2>1. x \in Int /\ n \in Nat \ {0}
    BY <1>1, <1>2
  <2> HIDE DEF x
  <2>2. x % n \in 0..(n - 1)
    BY <2>1, Remainder
  <2>3. (x % n) + 1 \in 1..n
    BY <1>1, <2>2
  <2> QED
    BY <2>3 DEF x
<1> QED
  BY <1>1, <1>3, <1>4 DEF In

(* An engine found to serve a language is loaded and fit for the slot asked*)
(* for.                                                                    *)
LEMMA ServingIs ==
    ASSUME NEW w, w.reg.loaded \in Seq(Name), NEW lang, NEW kind, NEW e \in Serving(w, lang, kind)
    PROVE  Slot(w.reg, e, kind)
  BY ListedIs DEF Serving, Slot

(* Taking one engine out of the registry, and adding one.                  *)
Without(list, e) == Kept(list, {i \in DOMAIN list : list[i] # e})

(* Unloading an engine takes that name, and no other, from the list. *)
LEMMA WithoutIs ==
    ASSUME NEW list \in Seq(Name), Distinct(list), NEW e
    PROVE  /\ Without(list, e) \in Seq(Name) /\ Distinct(Without(list, e))
           /\ In(Without(list, e)) = In(list) \ {e}
<1> DEFINE at == {i \in DOMAIN list : list[i] # e}
           rest == Kept(list, at)
<1>1. at \in SUBSET DOMAIN list
  OBVIOUS
<1>2. In(list) \ {e} = {list[i] : i \in at}
  BY DEF In
<1> HIDE DEF at
<1>3. /\ rest \in Seq(Name)
      /\ \A k \in DOMAIN rest : \E i \in at : rest[k] = list[i]
      /\ \A i \in at : \E k \in DOMAIN rest : rest[k] = list[i]
      /\ Distinct(rest)
  BY <1>1, KeptIs DEF Distinct
<1>4. Without(list, e) = rest
  BY DEF Without, at
<1> HIDE DEF rest
<1>5. In(rest) = {list[i] : i \in at}
  BY <1>3 DEF In
<1> QED
  BY <1>2, <1>3, <1>4, <1>5

(* Loading an engine that is not loaded adds one name and doubles none. *)
LEMMA AppendedIs ==
    ASSUME NEW list \in Seq(Name), Distinct(list), NEW e \in Name \ In(list)
    PROVE  /\ Append(list, e) \in Seq(Name) /\ Distinct(Append(list, e))
           /\ In(list) \subseteq In(Append(list, e))
<1>1. /\ Append(list, e) \in Seq(Name) /\ Len(list) \in Nat
      /\ DOMAIN list = 1..Len(list) /\ DOMAIN Append(list, e) = 1..(Len(list) + 1)
      /\ \A i \in 1..Len(list) : Append(list, e)[i] = list[i]
      /\ Append(list, e)[Len(list) + 1] = e
  OBVIOUS
<1>2. \A i \in DOMAIN list : list[i] # e
  BY DEF In
<1>3. Distinct(Append(list, e))
  <2> SUFFICES ASSUME NEW i \in 1..(Len(list) + 1), NEW j \in 1..(Len(list) + 1), i # j
               PROVE  Append(list, e)[i] # Append(list, e)[j]
    BY <1>1 DEF Distinct
  <2>1. CASE i \in 1..Len(list) /\ j \in 1..Len(list)
    BY <1>1, <2>1 DEF Distinct
  <2>2. CASE i \in 1..Len(list) /\ j = Len(list) + 1
    BY <1>1, <1>2, <2>2
  <2>3. CASE j \in 1..Len(list) /\ i = Len(list) + 1
    BY <1>1, <1>2, <2>3
  <2> QED
    BY <1>1, <2>1, <2>2, <2>3
<1>4. In(list) \subseteq In(Append(list, e))
  <2>1. \A i \in DOMAIN list : i \in DOMAIN Append(list, e) /\ Append(list, e)[i] = list[i]
    BY <1>1
  <2> QED
    BY <2>1 DEF In
<1> QED
  BY <1>1, <1>3, <1>4


(***************************************************************************)
(* The inductive invariant.  Handlers work on the record of the state, so  *)
(* it is a predicate on that record, one for each phase of the process.    *)
(***************************************************************************)
(* The configuration and the watch on it: ConfigIsCurrent, what it needs   *)
(* of the watch, and what the start leaves for it.                         *)
Configured(w) ==
    /\ w.conf.mem \subseteq Setting /\ w.conf.disk \in (SUBSET Setting) \cup {Garbled} /\ w.conf.unsaved \in BOOLEAN
    /\ w.watch.on => w.watch.dir /\ w.app.phase = "running"
    /\ w.app.phase = "starting" /\ ~w.watch.blind /\ w.conf.disk # Garbled => w.conf.mem = w.conf.disk
    /\ w.app.phase = "running" /\ w.watch.on /\ ~w.watch.seen /\ ~w.watch.self /\ ~w.watch.pending
          /\ ~w.watch.blind /\ w.conf.disk # Garbled
       => (w.conf.unsaved \/ w.conf.mem = w.conf.disk) /\ w.conf.fe = w.conf.disk

Up(w, phase) == Base(w) /\ Registry(w.reg) /\ Configured(w) /\ w.app.phase = phase
Served(w) == Up(w, "running") /\ w.app.hooked /\ MenuIs(w) /\ Agree(w)
Starting(w) == Up(w, "starting") /\ MenuIs(w) /\ Blank(w)
Over(w) ==
    /\ Shaped(w) /\ TrayTyped(w) /\ Registry(w.reg) /\ Configured(w)
    /\ w.app.alive \subseteq {"controller", "service", "bus", "tray"}
    /\ w.app.listeners \subseteq {"service", "bus", "tray"} /\ ~w.app.dangling
    /\ \/ w.app.phase = "leaving"
       \/ /\ w.app.phase \in {"down", "exec"} /\ w.app.alive = {} /\ ~w.host.knows /\ Blank(w)
          /\ w.reg = EmptyRegistry

Ok(w) == Served(w) \/ Starting(w) \/ Over(w)
IInv == Ok(World)

(***************************************************************************)
(* Switching an engine or the language.                                    *)
(***************************************************************************)
(* In the middle of a switch: what its notification still relies on.       *)
LanguageTold(w) ==
    "bus" \in w.app.listeners => w.told.language[1] = w.ctl.lang /\ w.told.status = w.ctl.mode
Halfway(w) ==
    /\ Up(w, "running") /\ w.app.hooked /\ LanguageTold(w)
    /\ w.reg.lang = None => w.ctl.lang = None

(* A state that serves is also one from which a change may set out. *)
LEMMA ServedIsHalfway ==
    ASSUME NEW w, Served(w)
    PROVE  Halfway(w)
  BY DEF Served, Halfway, LanguageTold, Agree, SnapshotIs, Told

(* Once the controller has notified a change half made, everything agrees  *)
(* again.                                                                  *)
LEMMA NotifiedIsServed ==
    ASSUME NEW w, NEW v, Halfway(w), Notified(w, v)
    PROVE  Served(v)
  BY DEF Halfway, Notified, Apart, Served, Up, Configured

(* The registry's change of keyboard engine, reported to the controller,   *)
(* reaches the snapshot, tray and subscribers.                             *)
LEMMA EngineChange ==
    ASSUME NEW w, Halfway(w), w.ctl.voice = w.reg.voice, NEW v, v = OnEngineChange(w, w.reg.kb)
    PROVE  Served(v) /\ Apart(w, v)
<1>1. v = NotifyEngineChanged(w, w.reg.kb)
  BY DEF OnEngineChange, Hooked, Halfway, Up, Base, Wired
<1>2. Notified(w, v)
  BY <1>1, EngineNotified DEF Halfway, Up, LanguageTold
<1> QED
  BY <1>2, NotifiedIsServed DEF Notified

(* So does its change of voice engine. *)
LEMMA VoiceChange ==
    ASSUME NEW w, Halfway(w), w.ctl.engine = w.reg.kb, w.ctl.lang = w.reg.lang,
           w.ctl.active = (w.reg.kb # None), BadgeIs(w), NEW v, v = OnVoiceEngineChange(w, w.reg.voice)
    PROVE  Served(v) /\ Apart(w, v)
<1>1. v = NotifyVoiceEngineChanged(w, w.reg.voice)
  BY DEF OnVoiceEngineChange, Hooked, Halfway, Up, Base, Wired
<1>2. Notified(w, v)
  BY <1>1, VoiceNotified DEF Halfway, Up, LanguageTold
<1> QED
  BY <1>2, NotifiedIsServed DEF Notified

(* v comes of w by switches and loading of engines alone.                  *)
Switched(w, v) ==
    v.conf = w.conf /\ v.watch = w.watch /\ v.host = w.host /\ v.app = w.app /\ v.reply = w.reply

(* Choosing a loaded keyboard engine leaves a state that serves and only   *)
(* engines switched.                                                       *)
LEMMA KeyboardSet ==
    ASSUME NEW w, Halfway(w), w.ctl.voice = w.reg.voice, NEW e, Slot(w.reg, e, "keyboard"),
           NEW v, v = SetKeyboard(w, e)
    PROVE  /\ Served(v) /\ Switched(w, v)
           /\ v.reg.loaded = w.reg.loaded /\ v.reg.voice = w.reg.voice /\ v.reg.lang = w.reg.lang
<1> DEFINE set == [w EXCEPT !.reg.kb = e]
<1>1. v = OnEngineChange(set, e)
  BY DEF SetKeyboard
<1>2. /\ Shaped(set) /\ Switched(w, set) /\ set.ctl = w.ctl /\ set.told = w.told /\ set.tray = w.tray
      /\ set.news = w.news /\ set.reg.kb = e /\ set.reg.loaded = w.reg.loaded
      /\ set.reg.voice = w.reg.voice /\ set.reg.lang = w.reg.lang
  BY DEF Halfway, Up, Base, Shaped, Record, Switched
<1> HIDE DEF set
<1>3. Base(set)
  BY <1>2 DEF Halfway, Up, Base, TrayTyped, Wired, HostKnows, HostShows, Switched
<1>4. Registry(set.reg)
  BY <1>2 DEF Halfway, Up, Registry, Slot
<1>5. Halfway(set)
  BY <1>2, <1>3, <1>4 DEF Halfway, Up, Configured, LanguageTold, Switched
<1>6. Served(v) /\ Apart(set, v)
  BY <1>1, <1>2, <1>5, EngineChange
<1> QED
  BY <1>2, <1>6 DEF Switched, Apart

(* Choosing a loaded voice engine likewise. *)
LEMMA VoiceSet ==
    ASSUME NEW w, Served(w), NEW e, Slot(w.reg, e, "voice"), NEW v, v = SetVoice(w, e)
    PROVE  Served(v) /\ Switched(w, v)
<1> DEFINE set == [w EXCEPT !.reg.voice = e]
<1>1. v = OnVoiceEngineChange(set, e)
  BY DEF SetVoice
<1>2. /\ Shaped(set) /\ Switched(w, set) /\ set.ctl = w.ctl /\ set.told = w.told /\ set.tray = w.tray
      /\ set.news = w.news /\ set.reg.kb = w.reg.kb /\ set.reg.loaded = w.reg.loaded
      /\ set.reg.voice = e /\ set.reg.lang = w.reg.lang
  BY DEF Served, Up, Base, Shaped, Record, Switched
<1> HIDE DEF set
<1>3. Base(set)
  BY <1>2 DEF Served, Up, Base, TrayTyped, Wired, HostKnows, HostShows, Switched
<1>4. Registry(set.reg)
  BY <1>2 DEF Served, Up, Registry, Slot
<1>5. Halfway(set)
  BY <1>2, <1>3, <1>4, ServedIsHalfway DEF Halfway, Up, Configured, LanguageTold, Switched
<1>6. /\ set.ctl.engine = set.reg.kb /\ set.ctl.lang = set.reg.lang
      /\ set.ctl.active = (set.reg.kb # None) /\ BadgeIs(set)
  BY <1>2 DEF Served, Agree, SnapshotIs, BadgeIs
<1>7. Served(v) /\ Apart(set, v)
  BY <1>1, <1>2, <1>5, <1>6, VoiceChange
<1> QED
  BY <1>2, <1>7 DEF Switched, Apart

(* Choosing a loaded engine for either slot likewise. *)
LEMMA ModalSet ==
    ASSUME NEW w, Served(w), NEW kind \in {"keyboard", "voice"}, NEW e, Slot(w.reg, e, kind),
           NEW v, v = SetModal(w, e, kind)
    PROVE  Served(v) /\ Switched(w, v)
<1>1. CASE kind = "voice"
  BY <1>1, VoiceSet DEF SetModal
<1>2. CASE kind = "keyboard"
  <2>1. Halfway(w) /\ w.ctl.voice = w.reg.voice /\ v = SetKeyboard(w, e)
    BY <1>2, ServedIsHalfway DEF SetModal, Served, Agree, SnapshotIs
  <2> QED
    BY <1>2, <2>1, KeyboardSet
<1> QED
  BY <1>1, <1>2

(* Between the new language and the new engine the snapshot is stale.      *)
LEMMA LanguageSet ==
    ASSUME NEW w, Served(w), NEW lang \in In(Language), NEW v \in SetLanguage(w, lang)
    PROVE  Served(v) /\ Switched(w, v)
<1> DEFINE set == [w EXCEPT !.reg.lang = lang]
           resolved == {SetKeyboard(set, k) : k \in Serving(w, lang, "keyboard")}
           voices == Serving(w, lang, "voice")
<1>1. /\ Shaped(set) /\ Switched(w, set) /\ set.ctl = w.ctl /\ set.told = w.told /\ set.tray = w.tray
      /\ set.news = w.news /\ set.reg.kb = w.reg.kb /\ set.reg.loaded = w.reg.loaded
      /\ set.reg.voice = w.reg.voice /\ set.reg.lang = lang
  BY SMTT(60) DEF Served, Up, Base, Shaped, Record, Switched
<1>2. \/ \E x \in resolved, e \in voices : v = SetVoice(x, e)
      \/ v \in resolved
  BY DEF SetLanguage
<1> HIDE DEF set
<1>3. Base(set)
  BY <1>1 DEF Served, Up, Base, TrayTyped, Wired, HostKnows, HostShows, Switched
<1>4. Registry(set.reg)
  BY <1>1 DEF Served, Up, Registry, Slot
<1>5. Halfway(set) /\ set.ctl.voice = set.reg.voice
  BY <1>1, <1>3, <1>4, ServedIsHalfway, LanguageAssumption DEF Served, Agree, SnapshotIs, Halfway, Up, Configured, LanguageTold, Switched
<1>6. w.reg.loaded \in Seq(Name)
  BY DEF Served, Up, Registry
<1>7. ASSUME NEW x \in resolved
      PROVE  Served(x) /\ Switched(w, x) /\ x.reg.loaded = w.reg.loaded
  <2>1. PICK k \in Serving(w, lang, "keyboard") : x = SetKeyboard(set, k)
    BY <1>7
  <2>2. Slot(set.reg, k, "keyboard")
    BY <1>1, <1>6, ServingIs DEF Slot
  <2>3. Served(x) /\ Switched(set, x) /\ x.reg.loaded = set.reg.loaded
    BY <1>5, <2>1, <2>2, KeyboardSet
  <2> QED
    BY <1>1, <2>3 DEF Switched
<1> HIDE DEF resolved
<1>8. ASSUME NEW x \in resolved, NEW e \in voices, v = SetVoice(x, e)
      PROVE  Served(v) /\ Switched(w, v)
  <2>1. Slot(x.reg, e, "voice")
    BY <1>6, <1>7, ServingIs DEF Slot
  <2>2. Served(v) /\ Switched(x, v)
    BY <1>7, <1>8, <2>1, VoiceSet
  <2> QED
    BY <1>7, <2>2 DEF Switched
<1> QED
  BY <1>2, <1>7, <1>8


(***************************************************************************)
(* Requests.  What one makes of w is served again, and the same as w but   *)
(* for the reply when that is a refusal.                                   *)
(***************************************************************************)
Refusals == {"invalid params", "internal error", "method not found"}
Untouched(w, v) ==
    /\ v.reg = w.reg /\ v.conf = w.conf /\ v.ctl = w.ctl /\ v.tray = w.tray /\ v.told = w.told
    /\ v.app = w.app

(* While the process runs it may be told to stop, and to restart then.     *)
Steered(a, b) ==
    /\ b.phase = a.phase /\ b.code = a.code
    /\ a.restart => b.restart
    /\ a.stop => b.stop
    /\ b.restart => a.restart \/ b.stop

Answered(w, v) ==
    /\ Served(v) /\ (v.reply \in Refusals => Untouched(w, v))
    /\ v.app = w.app \/ Steered(w.app, v.app)

(* Configuration, watch and reply do not matter for the rest.              *)
LEMMA StillServed ==
    ASSUME NEW w, Served(w), NEW v, Shaped(v), Configured(v),
           v.reg = w.reg, v.ctl = w.ctl, v.told = w.told, v.tray = w.tray, v.news = w.news,
           v.host = w.host, v.app = w.app
    PROVE  Served(v)
  BY DEF Served, Up, Base, TrayTyped, Wired, HostKnows, HostShows, MenuIs, Agree, SnapshotIs, Told,
         TrayIs, IconIs, BarIs, Tip, BadgeIs, EnginePayload

(* Writing the reply touches nothing but the reply. *)
LEMMA RepliedIs ==
    ASSUME NEW w, Served(w), NEW r, NEW v, v = [w EXCEPT !.reply = r]
    PROVE  Served(v) /\ Untouched(w, v) /\ v.reply = r
<1>1. Shaped(v) /\ Untouched(w, v) /\ v.news = w.news /\ v.host = w.host /\ v.watch = w.watch /\ v.reply = r
  BY DEF Served, Up, Base, Shaped, Record, Untouched
<1>2. Configured(v)
  BY <1>1 DEF Served, Up, Configured, Untouched
<1> QED
  BY <1>1, <1>2, StillServed DEF Untouched

(* A method that ended in a state that serves may answer that it is done. *)
LEMMA DoneAnswers ==
    ASSUME NEW w, NEW v, Served(v), v.app = w.app \/ Steered(w.app, v.app)
    PROVE  Answered(w, Done(v))
<1>1. Served(Done(v)) /\ Untouched(v, Done(v)) /\ Done(v).reply = "ok"
  BY RepliedIs DEF Done
<1>2. Done(v).app = v.app
  BY <1>1 DEF Untouched
<1> QED
  BY <1>1, <1>2 DEF Answered, Refusals

(* Answering with an error alone leaves everything as it was. *)
LEMMA RefusedAnswers ==
    ASSUME NEW w, Served(w), NEW v \in {Refused(w), Failed(w), [w EXCEPT !.reply = "method not found"]}
    PROVE  Answered(w, v)
<1>1. Served(v) /\ Untouched(w, v)
  BY RepliedIs DEF Refused, Failed
<1> QED
  BY <1>1 DEF Answered, Untouched

(* Saving makes the file what memory holds, and the watch will see it if it*)
(* is on; or it fails, and memory alone has the settings.                  *)
LEMMA SavedIs ==
    ASSUME NEW w, Shaped(w), NEW v \in Save(w)
    PROVE  /\ Shaped(v) /\ v.reg = w.reg /\ v.ctl = w.ctl /\ v.told = w.told /\ v.tray = w.tray
           /\ v.news = w.news /\ v.host = w.host /\ v.app = w.app
           /\ v.conf.mem = w.conf.mem /\ v.watch.on = w.watch.on /\ v.watch.dir = w.watch.dir
           /\ \/ v.conf.unsaved = TRUE /\ v.conf.disk = w.conf.disk /\ v.conf.fe = w.conf.fe /\ v.watch = w.watch
              \/ v.conf.unsaved = FALSE /\ v.conf.disk = w.conf.mem /\ (v.watch.on => v.watch.seen)
<1> DEFINE seen == w.watch.seen \/ w.watch.on
           x == [w EXCEPT !.conf.disk = w.conf.mem, !.conf.unsaved = FALSE, !.watch.seen = seen]
           y == [w EXCEPT !.conf.unsaved = TRUE]
<1>1. v = x \/ v = y
  <2>1. x = [Written(w) EXCEPT !.watch.seen = @ \/ w.watch.on]
    BY DEF Written, Shaped, Record
  <2>2. y = Unsaved(w)
    BY DEF Unsaved
  <2> HIDE DEF x, y
  <2> QED
    BY <2>1, <2>2 DEF Save
<1>2. /\ Shaped(x) /\ x.reg = w.reg /\ x.ctl = w.ctl /\ x.told = w.told /\ x.tray = w.tray
      /\ x.news = w.news /\ x.host = w.host /\ x.app = w.app
      /\ x.conf.mem = w.conf.mem /\ x.conf.disk = w.conf.mem /\ x.conf.unsaved = FALSE
      /\ x.watch.on = w.watch.on /\ x.watch.dir = w.watch.dir
  BY ZenonT(60) DEF Shaped, Record
<1>3. x.watch.seen = seen
  BY DEF Shaped, Record
<1>4. x.watch.on => x.watch.seen
  <2> HIDE DEF x
  <2> QED
    BY <1>2, <1>3
<1>5. /\ Shaped(y) /\ y.reg = w.reg /\ y.ctl = w.ctl /\ y.told = w.told /\ y.tray = w.tray
      /\ y.news = w.news /\ y.host = w.host /\ y.app = w.app /\ y.watch = w.watch
      /\ y.conf.mem = w.conf.mem /\ y.conf.disk = w.conf.disk /\ y.conf.fe = w.conf.fe /\ y.conf.unsaved = TRUE
  BY ZenonT(60) DEF Shaped, Record
<1> HIDE DEF x, y
<1> QED
  BY <1>1, <1>2, <1>4, <1>5

(* A save, of the configuration as it is or with other settings.           *)
LEMMA SaveServes ==
    ASSUME NEW w, Served(w), NEW mem \in SUBSET Setting, NEW x, x \in {w, [w EXCEPT !.conf.mem = mem]},
           NEW v \in Save(x)
    PROVE  Served(v) /\ v.app = w.app
<1>1. /\ Shaped(x) /\ x.reg = w.reg /\ x.ctl = w.ctl /\ x.told = w.told /\ x.tray = w.tray
      /\ x.news = w.news /\ x.host = w.host /\ x.app = w.app /\ x.watch = w.watch
      /\ x.conf.mem \in {w.conf.mem, mem} /\ x.conf.disk = w.conf.disk /\ x.conf.fe = w.conf.fe
  BY SMTT(60) DEF Served, Up, Base, Shaped, Record
<1>2. x.conf.mem \in SUBSET Setting /\ w.conf.disk \in (SUBSET Setting) \cup {Garbled}
  BY <1>1 DEF Served, Up, Configured
<1>3. /\ Shaped(v) /\ v.reg = x.reg /\ v.ctl = x.ctl /\ v.told = x.told /\ v.tray = x.tray
      /\ v.news = x.news /\ v.host = x.host /\ v.app = x.app
      /\ v.conf.mem = x.conf.mem /\ v.watch.on = x.watch.on /\ v.watch.dir = x.watch.dir
      /\ \/ v.conf.unsaved = TRUE /\ v.conf.disk = x.conf.disk /\ v.conf.fe = x.conf.fe /\ v.watch = x.watch
         \/ v.conf.unsaved = FALSE /\ v.conf.disk = x.conf.mem /\ (v.watch.on => v.watch.seen)
  BY <1>1, SavedIs, ZenonT(60)
<1>4. v.app.phase = "running" /\ (v.watch.on => v.watch.dir)
  BY <1>1, <1>3 DEF Served, Up, Configured
<1>5. CASE v.conf.unsaved = TRUE /\ v.conf.disk = x.conf.disk /\ v.conf.fe = x.conf.fe /\ v.watch = x.watch
  <2>1. Configured(v)
    BY <1>1, <1>2, <1>3, <1>4, <1>5, ZenonT(60) DEF Served, Up, Configured
  <2> QED
    BY <1>1, <1>3, <2>1, StillServed
<1>6. CASE v.conf.unsaved = FALSE /\ v.conf.disk = x.conf.mem /\ (v.watch.on => v.watch.seen)
  <2>1. Configured(v)
    BY <1>2, <1>3, <1>4, <1>6 DEF Configured
  <2> QED
    BY <1>1, <1>3, <2>1, StillServed
<1> QED
  BY <1>3, <1>5, <1>6

(* config.set: a key is set in memory and file, or the request fails       *)
(* without effect.                                                         *)
LEMMA ConfigSetAnswers ==
    ASSUME NEW w, Served(w), NEW s \in Setting, NEW v \in ConfigSet(w, s)
    PROVE  Answered(w, v)
<1> DEFINE mem == {x \in w.conf.mem : x.key # s.key} \cup {s}
<1>1. mem \in SUBSET Setting
  BY DEF Served, Up, Configured
<1> DEFINE set == [w EXCEPT !.conf.mem = mem]
<1>2. v = Failed(w) \/ \E x \in Save(set) : v = Done(x)
  BY DEF ConfigSet, Served, Up, Base, Shaped, Record
<1> HIDE DEF mem
<1>3. \A x \in Save(set) : Served(x) /\ x.app = w.app
  BY <1>1, SaveServes
<1> HIDE DEF set
<1> QED
  BY <1>2, <1>3, DoneAnswers, RefusedAnswers

(* config.unset: as config.set. *)
LEMMA ConfigUnsetAnswers ==
    ASSUME NEW w, Served(w), NEW s \in Setting, NEW v \in ConfigUnset(w, s)
    PROVE  Answered(w, v)
<1> DEFINE mem == w.conf.mem \ {s}
<1>1. mem \in SUBSET Setting
  BY DEF Served, Up, Configured
<1> DEFINE set == [w EXCEPT !.conf.mem = mem]
<1>2. v = Refused(w) \/ \E x \in Save(set) : v = Done(x)
  BY DEF ConfigUnset, Served, Up, Base, Shaped, Record
<1> HIDE DEF mem
<1>3. \A x \in Save(set) : Served(x) /\ x.app = w.app
  BY <1>1, SaveServes
<1> HIDE DEF set
<1> QED
  BY <1>2, <1>3, DoneAnswers, RefusedAnswers

(* config.reload: the file becomes what memory holds, or the request fails *)
(* without effect.                                                         *)
LEMMA ConfigReloadAnswers ==
    ASSUME NEW w, Served(w), NEW v \in ConfigReload(w)
    PROVE  Answered(w, v)
<1> DEFINE x == [w EXCEPT !.conf.mem = w.conf.disk, !.conf.unsaved = FALSE]
<1>1. CASE w.conf.disk = Garbled
  BY <1>1, RefusedAnswers DEF ConfigReload
<1>2. CASE w.conf.disk # Garbled
  <2>1. v = Done(x)
    BY <1>2 DEF ConfigReload
  <2>2. /\ Shaped(x) /\ x.reg = w.reg /\ x.ctl = w.ctl /\ x.told = w.told /\ x.tray = w.tray
        /\ x.news = w.news /\ x.host = w.host /\ x.app = w.app /\ x.watch = w.watch
        /\ x.conf.mem = w.conf.disk /\ x.conf.disk = w.conf.disk /\ x.conf.fe = w.conf.fe /\ x.conf.unsaved = FALSE
    BY ZenonT(60) DEF Served, Up, Base, Shaped, Record
  <2> HIDE DEF x
  <2>3. Configured(x)
    BY <1>2, <2>2 DEF Served, Up, Configured
  <2> QED
    BY <2>1, <2>2, <2>3, StillServed, DoneAnswers
<1> QED
  BY <1>1, <1>2


(***************************************************************************)
(* Loading and unloading.                                                  *)
(***************************************************************************)
(* The engines that are loaded, and the icon an engine reports, matter to  *)
(* nobody by themselves.                                                   *)
LEMMA LoadedServes ==
    ASSUME NEW w, Served(w), NEW v, Shaped(v), Registry(v.reg),
           v.reg.kb = w.reg.kb, v.reg.voice = w.reg.voice, v.reg.lang = w.reg.lang,
           v.ctl = w.ctl, v.told = w.told, v.tray = w.tray, v.news = w.news,
           Switched(w, v)
    PROVE  Served(v)
<1>1. Base(v)
  BY DEF Served, Up, Base, TrayTyped, Wired, HostKnows, HostShows, Switched
<1>2. Up(v, "running") /\ v.app.hooked
  BY <1>1 DEF Served, Up, Configured, Switched
<1>3. Agree(v) /\ MenuIs(v)
  BY DEF Served, Agree, SnapshotIs, Told, TrayIs, IconIs, BarIs, Tip, BadgeIs, EnginePayload,
         MenuIs, Switched
<1> QED
  BY <1>2, <1>3 DEF Served

(* Registering one manifest adds at most one engine and may activate it;   *)
(* the state serves.                                                       *)
LEMMA RegisterServes ==
    ASSUME NEW w, Served(w), NEW m \in Manifest, NEW v, v = RegisterOne(w, m)
    PROVE  Served(v) /\ Switched(w, v)
<1>1. CASE v = w
  BY <1>1 DEF Switched
<1>2. CASE v # w
  <2> DEFINE list == Append(w.reg.loaded, m.name)
  <2>1. v = [w EXCEPT !.reg.loaded = list] /\ m.name \in Name \ In(w.reg.loaded)
    BY <1>2, EngineAssumption DEF RegisterOne
  <2>2. w.reg.loaded \in Seq(Name) /\ Distinct(w.reg.loaded)
    BY DEF Served, Up, Registry
  <2>3. list \in Seq(Name) /\ Distinct(list) /\ In(w.reg.loaded) \subseteq In(list)
    BY <2>1, <2>2, AppendedIs
  <2> HIDE DEF list
  <2>4. /\ Shaped(v) /\ Switched(w, v) /\ v.ctl = w.ctl /\ v.told = w.told /\ v.tray = w.tray
        /\ v.news = w.news /\ v.reg.kb = w.reg.kb /\ v.reg.loaded = list
        /\ v.reg.voice = w.reg.voice /\ v.reg.lang = w.reg.lang
    <3>1. Shaped(w)
      BY DEF Served, Up, Base
    <3> DEFINE grown == [w.reg EXCEPT !.loaded = list]
    <3>2. v = [w EXCEPT !.reg = grown]
      BY <2>1
    <3>3. /\ Record(grown, {"loaded", "lang", "kb", "voice", "dyn"}) /\ grown.loaded = list
          /\ grown.kb = w.reg.kb /\ grown.voice = w.reg.voice /\ grown.lang = w.reg.lang
      BY <3>1 DEF Shaped, Record
    <3> HIDE DEF grown
    <3>4. /\ v.reg = grown /\ v.ctl = w.ctl /\ v.told = w.told /\ v.tray = w.tray /\ v.news = w.news
          /\ v.app = w.app /\ v.conf = w.conf /\ v.watch = w.watch /\ v.host = w.host /\ v.reply = w.reply
          /\ Record(v, {"reg", "conf", "watch", "ctl", "told", "tray", "news", "host", "app", "reply"})
      BY <3>1, <3>2 DEF Shaped, Record
    <3>5. Shaped(v)
      BY <3>1, <3>3, <3>4 DEF Shaped
    <3>6. QED
      BY <3>3, <3>4, <3>5 DEF Switched
  <2>5. Registry(v.reg)
    BY <2>3, <2>4 DEF Served, Up, Registry, Slot
  <2> QED
    BY <2>4, <2>5, LoadedServes
<1> QED
  BY <1>1, <1>2

(* No engine is in both slots, so that one callback is enough.             *)
LEMMA UnloadServes ==
    ASSUME NEW w, Served(w), NEW e, NEW v, v = Unload(w, e)
    PROVE  Served(v) /\ Switched(w, v)
<1> DEFINE list == Without(w.reg.loaded, e)
           kb == IF w.reg.kb = e THEN None ELSE w.reg.kb
           voice == IF w.reg.voice = e THEN None ELSE w.reg.voice
           rest == [w EXCEPT !.reg.loaded = list, !.reg.kb = kb, !.reg.voice = voice]
<1>1. Shaped(w)
  BY DEF Served, Up, Base
<1>2. v = IF w.reg.kb = e THEN OnEngineChange(rest, None)
          ELSE IF w.reg.voice = e THEN OnVoiceEngineChange(rest, None) ELSE rest
  <2> DEFINE raw == [w EXCEPT !.reg.loaded = Kept(@, {i \in DOMAIN @ : @[i] # e}),
                              !.reg.kb = IF @ = e THEN None ELSE @, !.reg.voice = IF @ = e THEN None ELSE @]
  <2>1. rest = raw
    BY <1>1 DEF Without, Shaped, Record
  <2>2. v = IF w.reg.kb = e THEN OnEngineChange(raw, None)
            ELSE IF w.reg.voice = e THEN OnVoiceEngineChange(raw, None) ELSE raw
    BY DEF Unload
  <2> HIDE DEF raw, rest
  <2> QED
    BY <2>1, <2>2
<1>3. w.reg.loaded \in Seq(Name) /\ Distinct(w.reg.loaded)
  BY DEF Served, Up, Registry
<1>4. list \in Seq(Name) /\ Distinct(list) /\ In(list) = In(w.reg.loaded) \ {e}
  BY <1>3, WithoutIs
<1> HIDE DEF list
<1>5. /\ Shaped(rest) /\ Switched(w, rest) /\ rest.ctl = w.ctl /\ rest.told = w.told
      /\ rest.tray = w.tray /\ rest.news = w.news
      /\ rest.reg.loaded = list /\ rest.reg.kb = kb /\ rest.reg.voice = voice /\ rest.reg.lang = w.reg.lang
  <2> HIDE DEF kb, voice
  <2> QED
    BY <1>1, ZenonT(60) DEF Shaped, Record, Switched
<1> HIDE DEF rest
<1>6. Registry(rest.reg)
  BY <1>4, <1>5 DEF Served, Up, Registry, Slot
<1>7. Base(rest)
  BY <1>5 DEF Served, Up, Base, TrayTyped, Wired, HostKnows, HostShows, Switched
<1>8. Halfway(rest)
  BY <1>5, <1>6, <1>7, ServedIsHalfway DEF Halfway, Up, Configured, LanguageTold, Switched
<1>9. CASE w.reg.kb = e
  <2>1. rest.reg.kb = None /\ v = OnEngineChange(rest, None)
    BY <1>2, <1>5, <1>9
  <2>2. voice = w.reg.voice
    BY <1>9 DEF Served, Up, Registry, Slot
  <2>3. rest.ctl.voice = rest.reg.voice
    BY <1>5, <2>2 DEF Served, Agree, SnapshotIs
  <2>4. Served(v) /\ Apart(rest, v)
    BY <1>8, <2>1, <2>3, EngineChange
  <2> QED
    BY <1>5, <2>4 DEF Switched, Apart
<1>10. CASE w.reg.kb # e /\ w.reg.voice = e
  <2>1. rest.reg.voice = None /\ v = OnVoiceEngineChange(rest, None) /\ rest.reg.kb = w.reg.kb
    BY <1>2, <1>5, <1>10
  <2>2. /\ rest.ctl.engine = rest.reg.kb /\ rest.ctl.lang = rest.reg.lang
        /\ rest.ctl.active = (rest.reg.kb # None) /\ BadgeIs(rest)
    BY <1>5, <2>1 DEF Served, Agree, SnapshotIs, BadgeIs
  <2>3. Served(v) /\ Apart(rest, v)
    BY <1>8, <2>1, <2>2, VoiceChange
  <2> QED
    BY <1>5, <2>3 DEF Switched, Apart
<1>11. CASE w.reg.kb # e /\ w.reg.voice # e
  <2>1. v = rest /\ rest.reg.kb = w.reg.kb /\ rest.reg.voice = w.reg.voice
    BY <1>2, <1>5, <1>11
  <2> QED
    BY <1>5, <1>6, <2>1, LoadedServes
<1> QED
  BY <1>9, <1>10, <1>11

(* engine.load: the engine is registered, or the request fails without     *)
(* effect.                                                                 *)
LEMMA EngineLoadAnswers ==
    ASSUME NEW w, Served(w), NEW m \in Manifest, NEW v \in EngineLoad(w, m)
    PROVE  Answered(w, v)
<1>1. Served(LoadSingle(w, m)) /\ LoadSingle(w, m).app = w.app
  BY RegisterServes DEF LoadSingle, Switched
<1>2. v = Failed(w) \/ v = Done(LoadSingle(w, m))
  BY DEF EngineLoad
<1> QED
  BY <1>1, <1>2, RefusedAnswers, DoneAnswers

(* engine.unload: the engine leaves list and slots, which fall back to     *)
(* others, and all hear of it.                                             *)
LEMMA EngineUnloadAnswers ==
    ASSUME NEW w, Served(w), NEW e, NEW v \in EngineUnload(w, e)
    PROVE  Answered(w, v)
<1>1. v = Refused(w) \/ v = Done(Unload(w, e))
  BY DEF EngineUnload
<1> DEFINE x == Unload(w, e)
<1>2. Served(x) /\ x.app = w.app
  BY UnloadServes DEF Switched
<1> HIDE DEF x
<1>3. Answered(w, Done(x))
  BY <1>2, DoneAnswers
<1>4. Answered(w, Refused(w))
  BY RefusedAnswers
<1> QED
  BY <1>1, <1>3, <1>4 DEF x

(* engine.reload may leave the engine unloaded, and says so in words that  *)
(* are no refusal.                                                         *)
LEMMA EngineReloadAnswers ==
    ASSUME NEW w, Served(w), NEW e, NEW v \in EngineReload(w, e)
    PROVE  Answered(w, v)
<1> DEFINE unloaded == Unload(w, e)
<1>1. Served(unloaded) /\ unloaded.app = w.app
  BY UnloadServes DEF Switched
<1> HIDE DEF unloaded
<1>2. PICK r : /\ r = ReloadByName(w, e) \/ \E m \in Manifest : r = LoadSingle(unloaded, m)
               /\ v = IF r = unloaded THEN [r EXCEPT !.reply = "not reloaded"] ELSE Done(r)
  BY DEF EngineReload, unloaded
<1>3. r = unloaded \/ \E m \in Manifest : r = RegisterOne(unloaded, m)
  <2>1. CASE \E m \in Manifest : r = LoadSingle(unloaded, m)
    BY <2>1 DEF LoadSingle
  <2>2. CASE r = ReloadByName(w, e)
    <3> DEFINE found == {i \in DOMAIN ReloadDirs : \E m \in Manifest : m.dir = ReloadDirs[i] /\ m.stem = e}
               first == CHOOSE i \in found : \A j \in found : i <= j
    <3>1. CASE found = {}
      BY <2>2, <3>1 DEF ReloadByName, unloaded
    <3>2. CASE found # {}
      <4>1. first \in found
        <5>1. Len(ReloadDirs) \in Nat /\ found \in SUBSET (1..Len(ReloadDirs))
          BY DirAssumption
        <5> HIDE DEF found
        <5> QED
          BY <3>2, <5>1, LeastIs
      <4>2. \E m \in Manifest : m.dir = ReloadDirs[first] /\ m.stem = e
        <5> HIDE DEF first
        <5> QED
          BY <4>1
      <4> DEFINE chosen == CHOOSE m \in Manifest : m.dir = ReloadDirs[first] /\ m.stem = e
      <4>3. chosen \in Manifest
        <5> HIDE DEF first
        <5> QED
          BY <4>2
      <4>4. r = RegisterOne(unloaded, chosen)
        BY <2>2, <3>2 DEF ReloadByName, unloaded
      <4> HIDE DEF chosen
      <4> QED
        BY <4>3, <4>4
    <3> QED
      BY <3>1, <3>2
  <2> QED
    BY <1>2, <2>1, <2>2
<1>4. Served(r) /\ r.app = w.app
  BY <1>1, <1>3, RegisterServes DEF Switched
<1>5. CASE r = unloaded
  <2>1. v = [r EXCEPT !.reply = "not reloaded"]
    BY <1>2, <1>5
  <2>2. Served(v) /\ Untouched(r, v) /\ v.reply = "not reloaded"
    BY <1>4, <2>1, RepliedIs
  <2>3. v.app = w.app
    BY <1>4, <2>2 DEF Untouched
  <2> QED
    BY <2>2, <2>3 DEF Answered, Refusals
<1>6. CASE r # unloaded
  BY <1>2, <1>4, <1>6, DoneAnswers
<1> QED
  BY <1>5, <1>6


(***************************************************************************)
(* The other requests.                                                     *)
(***************************************************************************)
LEMMA AsItIsServes ==
    ASSUME NEW w, Served(w), NEW v \in Save(w)
    PROVE  Served(v) /\ v.app = w.app
<1>1. {} \in SUBSET Setting
  OBVIOUS
<1> QED
  BY <1>1, SaveServes

(* keyboard.use and voice.use: the engine is chosen, or refused because it *)
(* is not loaded.                                                          *)
LEMMA ModalUseAnswers ==
    ASSUME NEW w, Served(w), NEW e, NEW kind \in {"keyboard", "voice"}, NEW v \in ModalUse(w, e, kind)
    PROVE  Answered(w, v)
<1>1. CASE e \notin In(Listed(w.reg, kind))
  BY <1>1, RefusedAnswers DEF ModalUse
<1>2. CASE e \in In(Listed(w.reg, kind))
  <2>1. Slot(w.reg, e, kind)
    BY <1>2, ListedIs DEF Served, Up, Registry
  <2>2. Served(SetModal(w, e, kind)) /\ SetModal(w, e, kind).app = w.app
    BY <2>1, ModalSet DEF Switched
  <2>3. \A x \in Save(SetModal(w, e, kind)) : Served(x) /\ x.app = w.app
    BY <2>2, AsItIsServes
  <2>4. v = Failed(w) \/ \E x \in Save(SetModal(w, e, kind)) : v = Done(x)
    BY <1>2 DEF ModalUse
  <2> QED
    BY <2>3, <2>4, RefusedAnswers, DoneAnswers
<1> QED
  BY <1>1, <1>2

(* keyboard.next, keyboard.prev and their voice twins stay within the      *)
(* engines loaded.                                                         *)
LEMMA ModalCycleAnswers ==
    ASSUME NEW w, Served(w), NEW kind \in {"keyboard", "voice"}, NEW step \in {1, -1},
           NEW v \in ModalCycle(w, kind, step)
    PROVE  Answered(w, v)
<1> DEFINE list == Listed(w.reg, kind)
           now == IF kind = "voice" THEN w.reg.voice ELSE w.reg.kb
           next == Cycled(list, now, step)
<1>1. v = Failed(w) \/ (list # <<>> /\ v = Done(SetModal(w, next, kind)))
  BY DEF ModalCycle
<1>2. list \in Seq(Name) /\ \A e \in In(list) : Slot(w.reg, e, kind)
  BY ListedIs DEF Served, Up, Registry
<1> HIDE DEF list, now
<1>3. list # <<>> => next \in In(list)
  BY <1>2, CycledIs
<1> HIDE DEF next
<1>4. list # <<>> => Served(SetModal(w, next, kind)) /\ SetModal(w, next, kind).app = w.app
  BY <1>2, <1>3, ModalSet DEF Switched
<1> QED
  BY <1>1, <1>4, RefusedAnswers, DoneAnswers

(* language.use: the language and its engines are chosen together, or the  *)
(* request is refused.                                                     *)
LEMMA LanguageUseAnswers ==
    ASSUME NEW w, Served(w), NEW lang, NEW v \in LanguageUse(w, lang)
    PROVE  Answered(w, v)
<1>1. \/ v = Failed(w)
      \/ lang \in In(Languages(w)) /\ \E x \in SetLanguage(w, lang) : \E y \in Save(x) : v = Done(y)
  BY DEF LanguageUse
<1>2. ASSUME NEW x \in SetLanguage(w, lang), lang \in In(Languages(w)), NEW y \in Save(x), v = Done(y)
      PROVE  Answered(w, v)
  <2>1. lang \in In(Language)
    BY <1>2, LanguagesAre
  <2>2. Served(x) /\ x.app = w.app
    BY <1>2, <2>1, LanguageSet DEF Switched
  <2>3. Served(y) /\ y.app = w.app
    BY <2>2, AsItIsServes
  <2> QED
    BY <1>2, <2>3, DoneAnswers
<1> QED
  BY <1>1, <1>2, RefusedAnswers

(* Cycling languages chooses a language of the list with the engines that  *)
(* serve it.                                                               *)
LEMMA CycleLanguageServes ==
    ASSUME NEW w, Served(w), Languages(w) # <<>>, NEW step \in {1, -1}, NEW v \in CycleLanguage(w, step)
    PROVE  Served(v) /\ Switched(w, v)
<1> DEFINE next == Cycled(Languages(w), w.reg.lang, step)
<1>1. next \in In(Languages(w))
  BY LanguagesAre, CycledIs
<1>2. next \in In(Language)
  BY <1>1, LanguagesAre
<1>3. v \in SetLanguage(w, next)
  BY DEF CycleLanguage
<1> HIDE DEF next
<1> QED
  BY <1>2, <1>3, LanguageSet

(* language.next and language.prev: as cycling, or refused when there is no*)
(* language.                                                               *)
LEMMA LanguageCycleAnswers ==
    ASSUME NEW w, Served(w), NEW step \in {1, -1}, NEW v \in LanguageCycle(w, step)
    PROVE  Answered(w, v)
<1>1. \/ v = Refused(w) \/ v = Failed(w)
      \/ Languages(w) # <<>> /\ \E x \in CycleLanguage(w, step) : v = Done(x)
  BY DEF LanguageCycle
<1>2. ASSUME Languages(w) # <<>>, NEW x \in CycleLanguage(w, step)
      PROVE  Answered(w, Done(x))
  <2>1. Served(x) /\ x.app = w.app
    BY <1>2, CycleLanguageServes DEF Switched
  <2> QED
    BY <2>1, DoneAnswers
<1>3. Answered(w, Refused(w)) /\ Answered(w, Failed(w))
  BY RefusedAnswers
<1> QED
  BY <1>1, <1>2, <1>3

(* The application told to stop, or to restart, is served until it leaves. *)
LEMMA StopServes ==
    ASSUME NEW w, Served(w), NEW v \in {RequestStop(w), MarkRestart(w)}
    PROVE  /\ Served(v) /\ v.reply = w.reply /\ v.app.phase = w.app.phase /\ v.app.code = w.app.code
           /\ v = RequestStop(w) => v.app.stop /\ v.app.restart = w.app.restart
           /\ v = MarkRestart(w) => v.app.restart /\ v.app.stop = w.app.stop
<1>0. /\ v.app.code = w.app.code
      /\ v = RequestStop(w) => v.app.stop /\ v.app.restart = w.app.restart
      /\ v = MarkRestart(w) => v.app.restart /\ v.app.stop = w.app.stop
  <2>1. Shaped(w)
    BY DEF Served, Up, Base
  <2>2. CASE v = RequestStop(w)
    <3>1. v.app.stop /\ v.app.restart = w.app.restart /\ v.app.code = w.app.code
      BY <2>1, <2>2 DEF Shaped, Record, RequestStop
    <3>2. v = MarkRestart(w) => v.app.restart
      BY <2>1 DEF Shaped, Record, MarkRestart
    <3>3. v = MarkRestart(w) => v.app.stop = w.app.stop
      BY <2>1 DEF Shaped, Record, MarkRestart
    <3> QED
      BY <3>1, <3>2, <3>3
  <2>3. CASE v = MarkRestart(w)
    <3>1. v.app.restart /\ v.app.stop = w.app.stop /\ v.app.code = w.app.code
      BY <2>1, <2>3 DEF Shaped, Record, MarkRestart
    <3>2. v = RequestStop(w) => v.app.stop
      BY <2>1 DEF Shaped, Record, RequestStop
    <3>3. v = RequestStop(w) => v.app.restart = w.app.restart
      BY <2>1 DEF Shaped, Record, RequestStop
    <3> QED
      BY <3>1, <3>2, <3>3
  <2> QED
    BY <2>2, <2>3
<1>1. /\ Shaped(v) /\ v.reg = w.reg /\ v.conf = w.conf /\ v.watch = w.watch /\ v.ctl = w.ctl
      /\ v.told = w.told /\ v.tray = w.tray /\ v.news = w.news /\ v.host = w.host /\ v.reply = w.reply
      /\ v.app.phase = w.app.phase /\ v.app.alive = w.app.alive /\ v.app.listeners = w.app.listeners
      /\ v.app.hooked = w.app.hooked /\ v.app.dangling = w.app.dangling
  <2>1. Shaped(w)
    BY DEF Served, Up, Base
  <2>2. CASE v = RequestStop(w)
    BY <2>1, <2>2, ZenonT(60) DEF Shaped, Record, RequestStop
  <2>3. CASE v = MarkRestart(w)
    BY <2>1, <2>3, ZenonT(60) DEF Shaped, Record, MarkRestart
  <2> QED
    BY <2>2, <2>3
<1>2. Base(v)
  BY <1>1 DEF Served, Up, Base, TrayTyped, Wired, HostKnows, HostShows
<1>3. Up(v, "running") /\ v.app.hooked
  BY <1>1, <1>2 DEF Served, Up, Configured
<1>4. Agree(v) /\ MenuIs(v)
  BY <1>1 DEF Served, Agree, SnapshotIs, Told, TrayIs, IconIs, BarIs, Tip, BadgeIs, EnginePayload, MenuIs
<1> QED
  BY <1>0, <1>1, <1>3, <1>4 DEF Served

(* A request that only reads, or is refused, changes nothing but the reply. *)
LEMMA ReadingAnswers ==
    ASSUME NEW w, Served(w),
           NEW v \in {Done(w), Refused(w), Failed(w), [w EXCEPT !.reply = "method not found"]}
    PROVE  Answered(w, v)
  BY DoneAnswers, RefusedAnswers

(* daemon.stop only asks the loop to end. *)
LEMMA DaemonStopAnswers ==
    ASSUME NEW w, Served(w), NEW v \in DaemonStop(w)
    PROVE  Answered(w, v)
<1> DEFINE x == RequestStop(w)
<1>1. v = Done(x)
  BY DEF DaemonStop
<1>2. Served(x) /\ Steered(w.app, x.app)
  BY StopServes DEF Steered
<1> HIDE DEF x
<1> QED
  BY <1>1, <1>2, DoneAnswers

(***************************************************************************)
(* The tray.                                                               *)
(***************************************************************************)
LEMMA CycleFromTrayServes ==
    ASSUME NEW w, Served(w), NEW step \in {1, -1}, NEW v \in CycleFromTray(w, step)
    PROVE  Served(v) /\ Switched(w, v)
<1> DEFINE kbs == Listed(w.reg, "keyboard")
           next == Cycled(kbs, w.reg.kb, step)
<1>1. CASE Languages(w) # <<>>
  BY <1>1, CycleLanguageServes DEF CycleFromTray
<1>2. CASE Languages(w) = <<>>
  <2>1. kbs # <<>> /\ v = SetKeyboard(w, next)
    BY <1>2 DEF CycleFromTray
  <2>2. kbs \in Seq(Name) /\ \A e \in In(kbs) : Slot(w.reg, e, "keyboard")
    BY ListedIs DEF Served, Up, Registry
  <2> HIDE DEF kbs
  <2>3. next \in In(kbs)
    BY <2>1, <2>2, CycledIs
  <2> HIDE DEF next
  <2>4. Halfway(w) /\ w.ctl.voice = w.reg.voice
    BY ServedIsHalfway DEF Served, Agree, SnapshotIs
  <2> QED
    BY <2>1, <2>2, <2>3, <2>4, KeyboardSet
<1> QED
  BY <1>1, <1>2

(* What is chosen from the menu is in the list it is looked up in.         *)
Choosable(w, action, of) ==
    CASE action = "language" -> of \in In(Languages(w))
      [] action = "engine" -> of \in In(Listed(w.reg, "keyboard"))
      [] action = "voice" -> of \in In(Listed(w.reg, "voice"))
      [] action \in {"quit", "restart", "activate", "scroll_down", "scroll_up", "context_menu",
                     "secondary_activate"} -> TRUE

(* Every entry of the tray's menu and every click on the icon leaves a     *)
(* state that serves.                                                      *)
LEMMA MenuServes ==
    ASSUME NEW w, Served(w), NEW of,
           NEW action \in {"language", "engine", "voice", "quit", "restart", "activate", "scroll_down",
                           "scroll_up", "context_menu", "secondary_activate"},
           Choosable(w, action, of), NEW v \in MenuCallback(w, action, of)
    PROVE  Served(v) /\ v.reply = w.reply /\ (v.app = w.app \/ Steered(w.app, v.app))
<1>1. w.reg.loaded \in Seq(Name)
  BY DEF Served, Up, Registry
<1>2. CASE action = "quit"
  <2>1. v = RequestStop(w)
    BY <1>2 DEF MenuCallback
  <2> QED
    BY <2>1, StopServes DEF Steered
<1>3. CASE action = "restart"
  <2> DEFINE x == MarkRestart(w)
  <2>1. v = RequestStop(x)
    BY <1>3 DEF MenuCallback, RequestRestart
  <2>2. Served(x) /\ x.reply = w.reply /\ x.app.phase = w.app.phase /\ x.app.code = w.app.code
    BY StopServes
  <2> HIDE DEF x
  <2>3. Served(v) /\ v.reply = x.reply /\ v.app.phase = x.app.phase /\ v.app.code = x.app.code /\ v.app.stop
    BY <2>1, <2>2, StopServes
  <2>4. v.app.restart
    <3>1. x.app.restart
      BY StopServes DEF x
    <3> QED
      BY <2>1, <2>2, <3>1, StopServes
  <2> QED
    BY <2>2, <2>3, <2>4 DEF Steered
<1>4. CASE action \in {"activate", "scroll_down"}
  <2>1. v = w \/ v \in CycleFromTray(w, 1)
    BY <1>4 DEF MenuCallback
  <2> QED
    BY <2>1, CycleFromTrayServes DEF Switched
<1>5. CASE action = "scroll_up"
  <2>1. v = w \/ v \in CycleFromTray(w, -1)
    BY <1>5 DEF MenuCallback
  <2> QED
    BY <2>1, CycleFromTrayServes DEF Switched
<1>6. CASE action = "language"
  <2>1. of \in In(Language) /\ (v = w \/ v \in SetLanguage(w, of))
    BY <1>6, LanguagesAre DEF MenuCallback, Choosable
  <2> QED
    BY <2>1, LanguageSet DEF Switched
<1>7. CASE action = "engine"
  <2>1. Slot(w.reg, of, "keyboard") /\ (v = w \/ v = SetKeyboard(w, of))
    BY <1>1, <1>7, ListedIs DEF MenuCallback, Choosable
  <2>2. Halfway(w) /\ w.ctl.voice = w.reg.voice
    BY ServedIsHalfway DEF Served, Agree, SnapshotIs
  <2> QED
    BY <2>1, <2>2, KeyboardSet DEF Switched
<1>8. CASE action = "voice"
  <2>1. Slot(w.reg, of, "voice") /\ (v = w \/ v = SetVoice(w, of))
    BY <1>1, <1>8, ListedIs DEF MenuCallback, Choosable
  <2> QED
    BY <2>1, VoiceSet DEF Switched
<1>9. CASE action \in {"context_menu", "secondary_activate"}
  BY <1>9 DEF MenuCallback
<1> QED
  BY <1>2, <1>3, <1>4, <1>5, <1>6, <1>7, <1>8, <1>9


(***************************************************************************)
(* What engines report, and the configuration file.                        *)
(***************************************************************************)
LEMMA ModeServes ==
    ASSUME NEW w, Served(w), NEW mode, NEW v, v = NotifyStatusChanged(w, mode)
    PROVE  Served(v) /\ v.reply = w.reply /\ v.app = w.app
<1>1. Notified(w, v)
  BY StatusNotified DEF Served, Up
<1> QED
  BY <1>1, ServedIsHalfway, NotifiedIsServed DEF Notified, Apart

(* An icon reported by the engine reaches the snapshot and the tray. *)
LEMMA IconServes ==
    ASSUME NEW w, Served(w), NEW dyn, NEW v, v = NotifyStatusIconChanged([w EXCEPT !.reg.dyn = dyn], dyn)
    PROVE  Served(v) /\ v.reply = w.reply /\ v.app = w.app
<1> DEFINE set == [w EXCEPT !.reg.dyn = dyn]
<1>1. /\ Shaped(set) /\ Switched(w, set) /\ set.ctl = w.ctl /\ set.told = w.told /\ set.tray = w.tray
      /\ set.news = w.news /\ set.reg.kb = w.reg.kb /\ set.reg.loaded = w.reg.loaded
      /\ set.reg.voice = w.reg.voice /\ set.reg.lang = w.reg.lang
  BY DEF Served, Up, Base, Shaped, Record, Switched
<1> HIDE DEF set
<1>2. Registry(set.reg)
  BY <1>1 DEF Served, Up, Registry, Slot
<1>3. Served(set)
  BY <1>1, <1>2, LoadedServes
<1>4. Notified(set, v)
  BY <1>3, IconNotified DEF Served, Up, Agree, set
<1> QED
  BY <1>1, <1>3, <1>4, ServedIsHalfway, NotifiedIsServed DEF Notified, Apart, Switched

(* x is w but for the watch: a reload makes the configuration the file's   *)
(* again, or leaves it alone when the file cannot be read.                 *)
LEMMA RefreshServes ==
    ASSUME NEW w, Served(w), NEW x, Shaped(x), x.watch.on => x.watch.dir,
           x.reg = w.reg, x.conf = w.conf, x.ctl = w.ctl, x.told = w.told, x.tray = w.tray,
           x.news = w.news, x.host = w.host, x.app = w.app,
           NEW v, v = RuntimeConfigRefresh(x)
    PROVE  Served(v) /\ v.reply = x.reply /\ v.app = w.app
<1>0. w.app.phase = "running"
  BY DEF Served, Up
<1>1. CASE x.conf.disk = Garbled
  <2>1. Configured(x)
    BY <1>0, <1>1 DEF Served, Up, Configured
  <2> QED
    BY <1>1, <2>1, StillServed DEF RuntimeConfigRefresh
<1>2. CASE x.conf.disk # Garbled
  <2> DEFINE read == [x EXCEPT !.conf.mem = x.conf.disk, !.conf.fe = x.conf.disk, !.conf.unsaved = FALSE,
                               !.watch.blind = FALSE]
             wanted == {s.of : s \in {y \in x.conf.disk : y.what = "voice"}}
                          \cap (In(Listed(x.reg, "voice")) \ {x.reg.voice})
             e == CHOOSE n \in wanted : TRUE
  <2>1. v = IF wanted = {} THEN read ELSE SetVoice(read, e)
    BY <1>2 DEF RuntimeConfigRefresh, Refreshed
  <2>2. /\ Shaped(read) /\ read.reg = w.reg /\ read.ctl = w.ctl /\ read.told = w.told /\ read.tray = w.tray
        /\ read.news = w.news /\ read.host = w.host /\ read.app = w.app /\ read.reply = x.reply
        /\ read.conf.mem = w.conf.disk /\ read.conf.disk = w.conf.disk /\ read.conf.fe = w.conf.disk
        /\ read.conf.unsaved = FALSE /\ read.watch.on = x.watch.on /\ read.watch.dir = x.watch.dir
    BY ZenonT(60) DEF Shaped, Record
  <2> HIDE DEF read
  <2>3. w.conf.disk \in SUBSET Setting
    BY <1>2 DEF Served, Up, Configured
  <2>4. Configured(read)
    BY <1>0, <2>2, <2>3 DEF Configured
  <2>5. Served(read)
    BY <2>2, <2>4, StillServed
  <2>6. ASSUME wanted # {}
        PROVE  Slot(read.reg, e, "voice")
    <3>1. e \in In(Listed(x.reg, "voice"))
      BY <2>6
    <3>2. read.reg = x.reg /\ x.reg.loaded \in Seq(Name)
      BY <2>2 DEF Served, Up, Registry
    <3> QED
      BY <3>1, <3>2, ListedIs DEF Slot
  <2> HIDE DEF wanted, e
  <2>7. wanted # {} => Served(v) /\ Switched(read, v)
    BY <2>1, <2>5, <2>6, VoiceSet
  <2> QED
    BY <2>1, <2>2, <2>5, <2>7 DEF Switched
<1> QED
  BY <1>1, <1>2

(* Reloading the configuration makes the file's settings those in use. *)
LEMMA ReloadServes ==
    ASSUME NEW w, Served(w), NEW v, v = Reload(w)
    PROVE  Served(v) /\ v.reply = w.reply /\ v.app = w.app
<1> DEFINE x == [w EXCEPT !.watch.pending = FALSE]
<1>1. v = RuntimeConfigRefresh(x)
  BY DEF Reload
<1>2. /\ Shaped(x) /\ x.reg = w.reg /\ x.conf = w.conf /\ x.ctl = w.ctl /\ x.told = w.told /\ x.tray = w.tray
      /\ x.news = w.news /\ x.host = w.host /\ x.app = w.app /\ x.reply = w.reply
      /\ x.watch.on = w.watch.on /\ x.watch.dir = w.watch.dir
  BY ZenonT(60) DEF Served, Up, Base, Shaped, Record
<1> HIDE DEF x
<1>3. x.watch.on => x.watch.dir
  BY <1>2 DEF Served, Up, Configured
<1> QED
  BY <1>1, <1>2, <1>3, RefreshServes

(* What the watch saw is forgotten as the reload is scheduled, or done.    *)
WatchTaken(w) ==
    [w EXCEPT !.watch.seen = FALSE, !.watch.self = FALSE,
              !.watch.on = IF w.watch.self THEN w.watch.dir ELSE @]

(* Reading the inotify descriptor touches the watch alone. *)
LEMMA WatchTakenIs ==
    ASSUME NEW w, Served(w), NEW x, x = WatchTaken(w)
    PROVE  /\ Shaped(x) /\ x.reg = w.reg /\ x.conf = w.conf /\ x.ctl = w.ctl /\ x.told = w.told
           /\ x.tray = w.tray /\ x.news = w.news /\ x.host = w.host /\ x.app = w.app /\ x.reply = w.reply
           /\ x.watch.on => x.watch.dir
<1> DEFINE on == IF w.watch.self THEN w.watch.dir ELSE w.watch.on
<1>1. on => w.watch.dir
  BY DEF Served, Up, Configured
<1>2. /\ Shaped(x) /\ x.reg = w.reg /\ x.conf = w.conf /\ x.ctl = w.ctl /\ x.told = w.told
      /\ x.tray = w.tray /\ x.news = w.news /\ x.host = w.host /\ x.app = w.app /\ x.reply = w.reply
      /\ x.watch.on = on /\ x.watch.dir = w.watch.dir
  BY ZenonT(60) DEF Served, Up, Base, Shaped, Record, WatchTaken
<1> QED
  BY <1>1, <1>2

(* Noting a change for later, or reloading at once when no timer can be    *)
(* had, keeps the configuration honest.                                    *)
LEMMA WatchServes ==
    ASSUME NEW w, Served(w), NEW v \in {[WatchTaken(w) EXCEPT !.watch.pending = TRUE], Reload(WatchTaken(w))}
    PROVE  Served(v) /\ v.reply = w.reply /\ v.app = w.app
<1> DEFINE x == WatchTaken(w)
<1>1. /\ Shaped(x) /\ x.reg = w.reg /\ x.conf = w.conf /\ x.ctl = w.ctl /\ x.told = w.told
      /\ x.tray = w.tray /\ x.news = w.news /\ x.host = w.host /\ x.app = w.app /\ x.reply = w.reply
      /\ x.watch.on => x.watch.dir
  BY WatchTakenIs
<1>2. v = [x EXCEPT !.watch.pending = TRUE] \/ v = Reload(x)
  OBVIOUS
<1> HIDE DEF x
<1>3. CASE v = [x EXCEPT !.watch.pending = TRUE]
  <2>1. /\ Shaped(v) /\ v.reg = x.reg /\ v.conf = x.conf /\ v.ctl = x.ctl /\ v.told = x.told
        /\ v.tray = x.tray /\ v.news = x.news /\ v.host = x.host /\ v.app = x.app /\ v.reply = x.reply
        /\ v.watch.on = x.watch.on /\ v.watch.dir = x.watch.dir /\ v.watch.pending
    BY <1>1, <1>3, ZenonT(60) DEF Shaped, Record
  <2>2. v.app.phase = "running"
    BY <1>1, <2>1 DEF Served, Up
  <2>3. v.watch.on => v.watch.dir
    BY <1>1, <2>1
  <2>4. Configured(v)
    BY <1>1, <2>1, <2>2, <2>3 DEF Served, Up, Configured
  <2> QED
    BY <1>1, <2>1, <2>4, StillServed
<1>4. CASE v = Reload(x)
  <2> DEFINE y == [x EXCEPT !.watch.pending = FALSE]
  <2>1. v = RuntimeConfigRefresh(y)
    BY <1>4 DEF Reload
  <2>2. /\ Shaped(y) /\ y.reg = x.reg /\ y.conf = x.conf /\ y.ctl = x.ctl /\ y.told = x.told
        /\ y.tray = x.tray /\ y.news = x.news /\ y.host = x.host /\ y.app = x.app /\ y.reply = x.reply
        /\ y.watch.on = x.watch.on /\ y.watch.dir = x.watch.dir
    BY <1>1, ZenonT(60) DEF Shaped, Record
  <2> HIDE DEF y
  <2>3. y.watch.on => y.watch.dir
    BY <1>1, <2>2
  <2> QED
    BY <1>1, <2>1, <2>2, <2>3, RefreshServes
<1> QED
  BY <1>2, <1>3, <1>4


(***************************************************************************)
(* The file changes under the process, and the host comes and goes.        *)
(***************************************************************************)
(* The application is up: it is starting or it is served.                  *)
LEMMA StillUp ==
    ASSUME NEW w, Served(w) \/ Starting(w), NEW v, Shaped(v), Configured(v),
           v.reg = w.reg, v.ctl = w.ctl, v.told = w.told, v.tray = w.tray, v.news = w.news,
           v.host = w.host, v.app = w.app
    PROVE  Ok(v)
<1>1. CASE Served(w)
  BY <1>1, StillServed DEF Ok
<1>2. CASE Starting(w)
  <2>1. Base(v)
    BY <1>2 DEF Starting, Up, Base, TrayTyped, Wired, HostKnows, HostShows
  <2> QED
    BY <1>2, <2>1 DEF Ok, Starting, Up, MenuIs, Blank
<1> QED
  BY <1>1, <1>2

(* A change of the application's flags.                                    *)
LEMMA FlagsKeepUp ==
    ASSUME NEW w, Served(w) \/ Starting(w), NEW v, Shaped(v),
           v.reg = w.reg, v.conf = w.conf, v.watch = w.watch, v.ctl = w.ctl, v.told = w.told,
           v.tray = w.tray, v.news = w.news, v.host = w.host,
           v.app.phase = w.app.phase, v.app.alive = w.app.alive, v.app.listeners = w.app.listeners,
           v.app.hooked = w.app.hooked, v.app.dangling = w.app.dangling
    PROVE  Ok(v)
<1>1. Base(v)
  BY DEF Served, Starting, Up, Base, TrayTyped, Wired, HostKnows, HostShows
<1>2. Configured(v)
  BY DEF Served, Starting, Up, Configured
<1>3. CASE Served(w)
  <2>1. Agree(v) /\ MenuIs(v)
    BY <1>3 DEF Served, Agree, SnapshotIs, Told, TrayIs, IconIs, BarIs, Tip, BadgeIs, EnginePayload, MenuIs
  <2> QED
    BY <1>1, <1>2, <1>3, <2>1 DEF Ok, Served, Up
<1>4. CASE Starting(w)
  BY <1>1, <1>2, <1>4 DEF Ok, Starting, Up, MenuIs, Blank
<1> QED
  BY <1>3, <1>4

(* The file is edited, its directory taken away or put back.               *)
FileEdited(w, d) ==
    [w EXCEPT !.conf.disk = d, !.watch.seen = @ \/ w.watch.on, !.watch.blind = @ \/ ~w.watch.on]
DirTaken(w) ==
    [w EXCEPT !.conf.disk = Garbled, !.watch.dir = FALSE, !.watch.on = FALSE,
              !.watch.self = w.watch.on, !.watch.blind = TRUE]
DirBack(w, d) == [w EXCEPT !.conf.disk = d, !.watch.dir = TRUE, !.watch.blind = TRUE]

(* A user who edits, removes or restores the file or its directory breaks  *)
(* nothing the invariant claims.                                           *)
LEMMA EditIs ==
    ASSUME NEW w, Served(w) \/ Starting(w), NEW v,
           \/ w.watch.dir /\ \E d \in Edits : v = FileEdited(w, d)
           \/ v = DirTaken(w)
           \/ \E d \in Edits : v = DirBack(w, d)
    PROVE  Ok(v) /\ v.reply = w.reply /\ v.app = w.app
<1>1. Shaped(w) /\ Configured(w) /\ w.app.phase \in {"starting", "running"}
  BY DEF Served, Starting, Up, Base
<1>2. ASSUME NEW d \in Edits
      PROVE  d \in (SUBSET Setting) \cup {Garbled}
  BY EditAssumption
<1>3. ASSUME w.watch.dir, NEW d \in Edits, v = FileEdited(w, d)
      PROVE  Ok(v) /\ v.reply = w.reply /\ v.app = w.app
  <2> DEFINE seen == w.watch.seen \/ w.watch.on
             blind == w.watch.blind \/ ~w.watch.on
             x == [w EXCEPT !.conf.disk = d, !.watch.seen = seen, !.watch.blind = blind]
  <2>1. v = x
    BY <1>3 DEF FileEdited
  <2>2. /\ Shaped(x) /\ x.reg = w.reg /\ x.ctl = w.ctl /\ x.told = w.told /\ x.tray = w.tray
        /\ x.news = w.news /\ x.host = w.host /\ x.app = w.app /\ x.reply = w.reply
        /\ x.conf.mem = w.conf.mem /\ x.conf.disk = d /\ x.conf.unsaved = w.conf.unsaved
        /\ x.watch.on = w.watch.on /\ x.watch.dir = w.watch.dir
    BY <1>1, ZenonT(60) DEF Shaped, Record
  <2>3. x.watch.seen = seen /\ x.watch.blind = blind
    BY <1>1 DEF Shaped, Record
  <2> HIDE DEF x
  <2>4. (x.watch.on => x.watch.seen) /\ (~x.watch.on => x.watch.blind)
    BY <2>2, <2>3
  <2>5. Configured(x)
    BY <1>1, <1>2, <1>3, <2>2, <2>4 DEF Configured
  <2> QED
    BY <2>1, <2>2, <2>5, StillUp
<1>4. ASSUME v = DirTaken(w)
      PROVE  Ok(v) /\ v.reply = w.reply /\ v.app = w.app
  <2>1. /\ Shaped(v) /\ v.reg = w.reg /\ v.ctl = w.ctl /\ v.told = w.told /\ v.tray = w.tray
        /\ v.news = w.news /\ v.host = w.host /\ v.app = w.app /\ v.reply = w.reply
        /\ v.conf.mem = w.conf.mem /\ v.conf.disk = Garbled /\ v.conf.unsaved = w.conf.unsaved /\ ~v.watch.on
    BY <1>1, <1>4, ZenonT(60) DEF Shaped, Record, DirTaken
  <2>2. Configured(v)
    BY <1>1, <2>1 DEF Configured
  <2> QED
    BY <2>1, <2>2, StillUp
<1>5. ASSUME NEW d \in Edits, v = DirBack(w, d)
      PROVE  Ok(v) /\ v.reply = w.reply /\ v.app = w.app
  <2>1. /\ Shaped(v) /\ v.reg = w.reg /\ v.ctl = w.ctl /\ v.told = w.told /\ v.tray = w.tray
        /\ v.news = w.news /\ v.host = w.host /\ v.app = w.app /\ v.reply = w.reply
        /\ v.conf.mem = w.conf.mem /\ v.conf.disk = d /\ v.watch.on = w.watch.on /\ v.watch.dir
        /\ v.conf.unsaved = w.conf.unsaved /\ v.watch.blind
    BY <1>1, <1>5, ZenonT(60) DEF Shaped, Record, DirBack
  <2>2. Configured(v)
    BY <1>1, <1>2, <2>1 DEF Configured
  <2> QED
    BY <2>1, <2>2, StillUp
<1> QED
  BY <1>3, <1>4, <1>5

(* An item that registers is known to the host, which reads all of it.     *)
LEMMA RegisterIs ==
    ASSUME NEW w, Shaped(w), TrayTyped(w), "tray" \in w.app.listeners, HostKnows(w), ~w.host.knows,
           NEW v \in Register(w)
    PROVE  /\ Shaped(v) /\ TrayTyped(v) /\ HostKnows(v) /\ MenuIs(v)
           /\ v.reg = w.reg /\ v.conf = w.conf /\ v.watch = w.watch /\ v.ctl = w.ctl /\ v.told = w.told
           /\ v.app = w.app /\ v.reply = w.reply
           /\ v.tray = [w.tray EXCEPT !.registered = v.tray.registered]
<1>1. CASE v = [w EXCEPT !.tray.registered = FALSE]
  BY <1>1, ZenonT(60) DEF Shaped, Record, TrayTyped, HostKnows, HostShows, MenuIs, Signals
<1>2. CASE v = [w EXCEPT !.tray.registered = TRUE, !.host.knows = TRUE, !.news = Signals]
  <2>1. /\ Shaped(v) /\ v.reg = w.reg /\ v.conf = w.conf /\ v.watch = w.watch /\ v.ctl = w.ctl /\ v.told = w.told
        /\ v.app = w.app /\ v.reply = w.reply /\ v.news = Signals
        /\ v.tray = [w.tray EXCEPT !.registered = TRUE]
    BY <1>2 DEF Shaped, Record
  <2>2. v.tray.registered = TRUE /\ v.tray.status = w.tray.status
    BY <2>1 DEF Shaped, Record
  <2>3. TrayTyped(v) /\ HostKnows(v) /\ MenuIs(v)
    BY <2>1, <2>2 DEF TrayTyped, HostKnows, HostShows, MenuIs, Signals
  <2> QED
    BY <2>1, <2>2, <2>3
<1> QED
  BY <1>1, <1>2 DEF Register

HostMoved(w, there) == [w EXCEPT !.host = [NotSeen EXCEPT !.there = there], !.news = {}]

(* A host that comes or goes knows nothing yet and has nothing to be told  *)
(* of.                                                                     *)
LEMMA HostMovedIs ==
    ASSUME NEW w, Shaped(w), NEW there, NEW x, x = HostMoved(w, there)
    PROVE  /\ Shaped(x) /\ x.reg = w.reg /\ x.conf = w.conf /\ x.watch = w.watch /\ x.ctl = w.ctl
           /\ x.told = w.told /\ x.tray = w.tray /\ x.app = w.app /\ x.reply = w.reply
           /\ x.news = {} /\ ~x.host.knows /\ HostKnows(x) /\ MenuIs(x)
  BY ZenonT(60) DEF HostMoved, NotSeen, Shaped, Record, HostKnows, MenuIs

(* A watcher that appears or vanishes leaves an item the new host can read. *)
LEMMA HostServes ==
    ASSUME NEW w, Served(w), NEW there, NEW v \in WatcherOwnerChanged(HostMoved(w, there))
    PROVE  Served(v) /\ v.reply = w.reply /\ v.app = w.app
<1> DEFINE x == HostMoved(w, there)
<1>1. /\ Shaped(x) /\ x.reg = w.reg /\ x.conf = w.conf /\ x.watch = w.watch /\ x.ctl = w.ctl
      /\ x.told = w.told /\ x.tray = w.tray /\ x.app = w.app /\ x.reply = w.reply
      /\ x.news = {} /\ ~x.host.knows /\ HostKnows(x) /\ MenuIs(x)
  BY HostMovedIs DEF Served, Up, Base
<1>2. v \in WatcherOwnerChanged(x)
  OBVIOUS
<1> HIDE DEF x
<1>3. \/ v = x
      \/ v = [x EXCEPT !.tray.registered = FALSE]
      \/ "tray" \in x.app.alive /\ v \in Register(x)
  BY <1>2 DEF WatcherOwnerChanged
<1>4. TrayTyped(x) /\ ("tray" \in x.app.alive => "tray" \in x.app.listeners)
  BY <1>1 DEF Served, Up, Base, TrayTyped, Wired
<1>5. /\ Shaped(v) /\ TrayTyped(v) /\ HostKnows(v) /\ MenuIs(v)
      /\ v.reg = w.reg /\ v.conf = w.conf /\ v.watch = w.watch /\ v.ctl = w.ctl /\ v.told = w.told
      /\ v.app = w.app /\ v.reply = w.reply
      /\ v.tray.engine = w.tray.engine /\ v.tray.icon = w.tray.icon /\ v.tray.badge = w.tray.badge
      /\ v.tray.overlay = w.tray.overlay /\ v.tray.tip = w.tray.tip /\ v.tray.status = w.tray.status
  <2>1. CASE v = x
    BY <1>1, <1>4, <2>1
  <2>2. CASE v = [x EXCEPT !.tray.registered = FALSE]
    BY <1>1, <1>4, <2>2 DEF Shaped, Record, TrayTyped, HostKnows, MenuIs
  <2>3. CASE "tray" \in x.app.alive /\ v \in Register(x)
    <3>1. /\ Shaped(v) /\ TrayTyped(v) /\ HostKnows(v) /\ MenuIs(v)
          /\ v.reg = x.reg /\ v.conf = x.conf /\ v.watch = x.watch /\ v.ctl = x.ctl /\ v.told = x.told
          /\ v.app = x.app /\ v.reply = x.reply
          /\ v.tray = [x.tray EXCEPT !.registered = v.tray.registered]
      BY <1>1, <1>4, <2>3, RegisterIs
    <3>2. /\ v.tray.engine = x.tray.engine /\ v.tray.icon = x.tray.icon /\ v.tray.badge = x.tray.badge
          /\ v.tray.overlay = x.tray.overlay /\ v.tray.tip = x.tray.tip /\ v.tray.status = x.tray.status
      BY <1>1, <3>1 DEF Shaped, Record
    <3> QED
      BY <1>1, <3>1, <3>2
  <2> QED
    BY <1>3, <2>1, <2>2, <2>3
<1>6. Up(v, "running") /\ v.app.hooked
  BY <1>5 DEF Served, Up, Base, Wired, Configured
<1>7. Agree(v)
  BY <1>5 DEF Served, Agree, SnapshotIs, Told, TrayIs, IconIs, BarIs, Tip, BadgeIs, EnginePayload
<1> QED
  BY <1>5, <1>6, <1>7 DEF Served

(* Before the daemon runs, hosts come and go unseen. *)
LEMMA HostMovesUnseen ==
    ASSUME NEW w, Over(w), w.app.phase = "down", NEW there,
           NEW v \in WatcherOwnerChanged(HostMoved(w, there))
    PROVE  Over(v) /\ v.reply = w.reply /\ v.app = w.app
<1> DEFINE x == HostMoved(w, there)
<1>1. /\ Shaped(x) /\ x.reg = w.reg /\ x.conf = w.conf /\ x.watch = w.watch /\ x.ctl = w.ctl
      /\ x.told = w.told /\ x.tray = w.tray /\ x.app = w.app /\ x.reply = w.reply
      /\ x.news = {} /\ ~x.host.knows
  BY HostMovedIs DEF Over
<1> HIDE DEF x
<1>2. w.app.alive = {} /\ Blank(w) /\ w.reg = EmptyRegistry
  BY DEF Over
<1>3. v = x
  BY <1>1, <1>2 DEF WatcherOwnerChanged, x
<1> QED
  BY <1>1, <1>2, <1>3 DEF Over, TrayTyped, Configured, Blank


(* The host reads what it was told of: afterwards it shows the item.       *)
LEMMA HostReadsIs ==
    ASSUME Served(World) \/ Starting(World) \/ Over(World),
           host.knows, "tray" \in app.alive,
           NEW v, v = [World EXCEPT !.host = Shown(host, news), !.news = {}]
    PROVE  Ok(v) /\ v.reply = None /\ v.app = app
<1> DEFINE shown == Shown(host, news)
<1>1. Shaped(World)
  BY DEF Served, Starting, Up, Base, Over
<1>2. /\ Record(shown, {"there", "knows", "icon", "badge", "status", "overlay", "tip", "menu"})
      /\ shown.knows = host.knows
      /\ shown.icon = IF "NewIcon" \in news THEN (IF tray.badge # None THEN NoIcon ELSE tray.icon) ELSE host.icon
      /\ shown.badge = IF "NewIcon" \in news THEN tray.badge ELSE host.badge
      /\ shown.status = IF "NewStatus" \in news THEN tray.status ELSE host.status
      /\ shown.overlay = IF "NewOverlayIcon" \in news THEN tray.overlay ELSE host.overlay
      /\ shown.tip = IF "NewToolTip" \in news THEN tray.tip ELSE host.tip
      /\ shown.menu = IF "LayoutUpdated" \in news THEN Layout(World) ELSE host.menu
  <2>1. Record(host, {"there", "knows", "icon", "badge", "status", "overlay", "tip", "menu"})
    BY <1>1 DEF Shaped, World
  <2> QED
    BY <2>1, ZenonT(60) DEF Shown, Record
<1> HIDE DEF shown
<1>3. /\ v.reg = reg /\ v.conf = conf /\ v.watch = watch /\ v.ctl = ctl /\ v.told = told
      /\ v.tray = tray /\ v.app = app /\ v.reply = None /\ v.news = {} /\ v.host = shown
  BY DEF World, shown
<1>4. Shaped(v)
  <2>1. Record(v, {"reg", "conf", "watch", "ctl", "told", "tray", "news", "host", "app", "reply"})
    BY DEF World, Record
  <2> QED
    BY <1>1, <1>2, <1>3, <2>1 DEF Shaped, World
<1>5. /\ World.reg = reg /\ World.conf = conf /\ World.watch = watch /\ World.ctl = ctl
      /\ World.told = told /\ World.tray = tray /\ World.app = app /\ World.news = news /\ World.host = host
  BY DEF World
<1>6. CASE Served(World) \/ Starting(World)
  <2>1. /\ Layout(World).kb = tray.engine /\ Layout(World).lang = reg.lang
        /\ Layout(World).voice = reg.voice
    BY <1>5 DEF Layout
  <2>2. HostShows(World) /\ (("LayoutUpdated" \notin news) => host.menu.lang = reg.lang /\ host.menu.voice = reg.voice)
    BY <1>5, <1>6 DEF Served, Starting, Up, Base, HostKnows, MenuIs
  <2>3. HostShows(v)
    BY <1>2, <1>3, <1>5, <2>1, <2>2 DEF HostShows
  <2>4. MenuIs(v)
    BY <1>2, <1>3, <2>1, <2>2 DEF MenuIs
  <2>5. Base(v)
    BY <1>3, <1>4, <1>5, <1>6, <2>3 DEF Served, Starting, Up, Base, TrayTyped, Wired, HostKnows, Signals
  <2>6. Configured(v) /\ Registry(v.reg)
    BY <1>3, <1>5, <1>6 DEF Served, Starting, Up, Configured
  <2>7. CASE Served(World)
    <3>1. Agree(v)
      BY <1>3, <1>5, <2>7 DEF Served, Agree, SnapshotIs, Told, TrayIs, IconIs, BarIs, Tip, BadgeIs, EnginePayload
    <3> QED
      BY <1>3, <1>5, <2>4, <2>5, <2>6, <2>7, <3>1 DEF Ok, Served, Up
  <2>8. CASE Starting(World)
    BY <1>3, <1>5, <2>4, <2>5, <2>6, <2>8 DEF Ok, Starting, Up, Blank
  <2> QED
    BY <1>3, <1>6, <2>7, <2>8
<1>7. CASE Over(World)
  <2>1. app.phase = "leaving"
    BY <1>5, <1>7 DEF Over
  <2>2. Over(v)
    BY <1>3, <1>4, <1>5, <1>7, <2>1 DEF Over, TrayTyped, Configured
  <2> QED
    BY <1>3, <2>2 DEF Ok
<1> QED
  BY <1>6, <1>7

(***************************************************************************)
(* The process.                                                            *)
(***************************************************************************)
Begun(w) ==
    [w EXCEPT !.conf.mem = IF w.conf.disk = Garbled THEN {} ELSE w.conf.disk,
              !.app = [NewApp EXCEPT !.phase = "starting", !.alive = {"controller"}]]

(* The registry of an application that starts.                             *)
LEMMA LoadDirsIs ==
    ASSUME NEW w, Shaped(w), NEW dirs, NEW v \in LoadDirs(w, dirs)
    PROVE  \E list : /\ v = [w EXCEPT !.reg.loaded = list] /\ list \in Seq(Name) /\ Distinct(list)
<1> DEFINE found(e) == {i \in DOMAIN dirs : \E m \in Manifest : m.dir = dirs[i] /\ m.name = e /\ Acceptable(w, m)}
           names == {e \in Name : found(e) # {}}
           places == 1..Cardinality(names)
           good == {s \in [places -> names] :
                      \A i, j \in places : i < j => s[i] # s[j] /\ \E k \in found(s[i]) : \A l \in found(s[j]) : k <= l}
<1>0. LoadDirs(w, dirs) = {[w EXCEPT !.reg.loaded = list] : list \in good}
  BY Zenon DEF LoadDirs
<1>1. PICK list \in [places -> names] :
            /\ v = [w EXCEPT !.reg.loaded = list]
            /\ \A i, j \in places : i < j => list[i] # list[j]
  <2>1. good \subseteq [places -> names]
    OBVIOUS
  <2>2. \A s \in good : \A i, j \in places : i < j => s[i] # s[j]
    OBVIOUS
  <2> HIDE DEF good, places, names
  <2> QED
    BY <1>0, <2>1, <2>2
<1>2. Cardinality(names) \in Nat
  BY EngineAssumption, FS_Subset, FS_CardinalityType
<1>3. names \subseteq Name
  OBVIOUS
<1> HIDE DEF names
<1>4. list \in Seq(Name) /\ DOMAIN list = places
  BY <1>1, <1>2, <1>3
<1>5. Distinct(list)
  <2> SUFFICES ASSUME NEW i \in places, NEW j \in places, i # j
               PROVE  list[i] # list[j]
    BY <1>4 DEF Distinct
  <2>1. i < j \/ j < i
    BY <1>2
  <2> QED
    BY <1>1, <2>1
<1> QED
  BY <1>1, <1>4, <1>5

(* From a process that is down, loading, restoring and registering lead to *)
(* a start in which nothing has been announced.                            *)
LEMMA StartIs ==
    ASSUME NEW w, Over(w), w.app.phase \in {"down", "exec"},
           NEW x \in LoadDirs(Begun(w), EngineDirs), NEW y \in Restored(x),
           NEW z \in InitIpcBus(y), NEW v \in InitTray(z)
    PROVE  Starting(v) /\ v.reply = w.reply /\ ~v.app.restart
<1>1. /\ Shaped(w) /\ TrayTyped(w) /\ ~w.host.knows /\ Blank(w) /\ w.reg = EmptyRegistry /\ ~w.watch.on
      /\ w.conf.disk \in (SUBSET Setting) \cup {Garbled} /\ w.conf.unsaved \in BOOLEAN
  BY DEF Over, Configured
<1> DEFINE b == Begun(w)
<1>2. /\ Shaped(b) /\ b.reg = w.reg /\ b.ctl = w.ctl /\ b.told = w.told /\ b.tray = w.tray /\ b.news = w.news
      /\ b.host = w.host /\ b.watch = w.watch /\ b.reply = w.reply /\ b.conf.disk = w.conf.disk
      /\ b.conf.unsaved = w.conf.unsaved
      /\ b.conf.mem = IF w.conf.disk = Garbled THEN {} ELSE w.conf.disk
      /\ b.app.phase = "starting" /\ b.app.alive = {"controller"} /\ b.app.listeners = {} /\ ~b.app.dangling
  BY <1>1, ZenonT(60) DEF Begun, NewApp, Shaped, Record
<1>15. b.app.restart = FALSE
  BY <1>1, ZenonT(60) DEF Begun, NewApp, Shaped, Record
<1>3. x \in LoadDirs(b, EngineDirs)
  OBVIOUS
<1> HIDE DEF b
<1>4. Configured(b)
  BY <1>1, <1>2 DEF Configured
<1>5. PICK list : x = [b EXCEPT !.reg.loaded = list] /\ list \in Seq(Name) /\ Distinct(list)
  BY <1>2, <1>3, LoadDirsIs
<1>6. /\ Shaped(x) /\ Switched(b, x) /\ x.ctl = b.ctl /\ x.told = b.told /\ x.tray = b.tray /\ x.news = b.news
      /\ x.reg.loaded = list /\ x.reg.kb = b.reg.kb /\ x.reg.voice = b.reg.voice /\ x.reg.lang = b.reg.lang
  BY <1>2, <1>5, ZenonT(60) DEF Shaped, Record, Switched
<1>7. b.reg.kb = None /\ b.reg.voice = None /\ b.reg.lang = None
  BY <1>1, <1>2 DEF EmptyRegistry
<1>8. /\ Shaped(y) /\ Switched(b, y) /\ y.ctl = b.ctl /\ y.told = b.told /\ y.tray = b.tray /\ y.news = b.news
      /\ Registry(y.reg)
  <2>1. CASE \E k \in {None} \cup In(Listed(x.reg, "keyboard")) : y = [x EXCEPT !.reg.kb = k]
    <3>1. PICK k \in {None} \cup In(Listed(x.reg, "keyboard")) : y = [x EXCEPT !.reg.kb = k]
      BY <2>1
    <3>2. Slot(x.reg, k, "keyboard")
      BY <1>5, <1>6, ListedIs DEF Slot
    <3>3. /\ Shaped(y) /\ Switched(x, y) /\ y.ctl = x.ctl /\ y.told = x.told /\ y.tray = x.tray /\ y.news = x.news
          /\ y.reg.loaded = x.reg.loaded /\ y.reg.kb = k /\ y.reg.voice = x.reg.voice /\ y.reg.lang = x.reg.lang
      BY <1>6, <3>1, SMTT(60) DEF Shaped, Record, Switched
    <3>4. Registry(y.reg)
      BY <1>5, <1>6, <1>7, <3>2, <3>3 DEF Registry, Slot
    <3> QED
      BY <1>6, <3>3, <3>4 DEF Switched
  <2>2. CASE \E l \in In(Languages(x)) : \E k \in Serving(x, l, "keyboard") :
                y = [x EXCEPT !.reg.lang = l, !.reg.kb = k]
    <3>0. PICK l \in In(Languages(x)) : \E k \in Serving(x, l, "keyboard") :
                y = [x EXCEPT !.reg.lang = l, !.reg.kb = k]
      BY <2>2
    <3>1. PICK k \in Serving(x, l, "keyboard") : y = [x EXCEPT !.reg.lang = l, !.reg.kb = k]
      BY <3>0
    <3>2. Slot(x.reg, k, "keyboard") /\ l \in In(Language)
      BY <1>5, <1>6, ServingIs, LanguagesAre
    <3>3. /\ Shaped(y) /\ Switched(x, y) /\ y.ctl = x.ctl /\ y.told = x.told /\ y.tray = x.tray /\ y.news = x.news
          /\ y.reg.loaded = x.reg.loaded /\ y.reg.kb = k /\ y.reg.voice = x.reg.voice /\ y.reg.lang = l
      BY <1>6, <3>1, ZenonT(60) DEF Shaped, Record, Switched
    <3>4. Registry(y.reg)
      BY <1>5, <1>6, <1>7, <3>2, <3>3 DEF Registry, Slot
    <3> QED
      BY <1>6, <3>3, <3>4 DEF Switched
  <2> QED
    BY <2>1, <2>2 DEF Restored
<1>9. /\ Shaped(z) /\ z.reg = y.reg /\ z.conf = y.conf /\ z.watch = y.watch /\ z.ctl = y.ctl /\ z.told = y.told
      /\ z.tray = y.tray /\ z.news = y.news /\ z.host = y.host /\ z.reply = y.reply
      /\ z.app.phase = "starting" /\ Wired(z) /\ "tray" \notin z.app.alive
  <2>1. /\ y.app.phase = "starting" /\ y.app.alive = {"controller"} /\ y.app.listeners = {} /\ ~y.app.dangling
    BY <1>2, <1>8 DEF Switched
  <2>2. CASE z = y
    BY <1>8, <2>1, <2>2 DEF Wired
  <2>3. CASE z = [y EXCEPT !.app.alive = @ \cup {"service", "bus"}, !.app.listeners = @ \cup {"service", "bus"}]
    <3>1. /\ Shaped(z) /\ z.reg = y.reg /\ z.conf = y.conf /\ z.watch = y.watch /\ z.ctl = y.ctl /\ z.told = y.told
          /\ z.tray = y.tray /\ z.news = y.news /\ z.host = y.host /\ z.reply = y.reply
          /\ z.app.phase = y.app.phase /\ z.app.dangling = y.app.dangling
          /\ z.app.alive = y.app.alive \cup {"service", "bus"}
          /\ z.app.listeners = y.app.listeners \cup {"service", "bus"}
      BY <1>8, <2>3 DEF Shaped, Record
    <3> QED
      BY <2>1, <3>1, SMTT(60) DEF Wired
  <2> QED
    BY <2>2, <2>3 DEF InitIpcBus
<1>16. z.app.restart = FALSE
  <2>1. y.app.restart = FALSE /\ Shaped(y)
    BY <1>8, <1>15 DEF Switched
  <2>2. CASE z = y
    BY <2>1, <2>2
  <2>3. CASE z = [y EXCEPT !.app.alive = @ \cup {"service", "bus"}, !.app.listeners = @ \cup {"service", "bus"}]
    BY <2>1, <2>3 DEF Shaped, Record
  <2> QED
    BY <2>2, <2>3 DEF InitIpcBus
<1>10. /\ TrayTyped(z) /\ ~z.host.knows /\ Blank(z) /\ Registry(z.reg) /\ Configured(z)
       /\ z.reply = w.reply
  BY <1>1, <1>2, <1>4, <1>8, <1>9 DEF TrayTyped, Blank, Switched, Configured
<1>11. CASE v = z
  BY <1>9, <1>10, <1>11, <1>16 DEF Starting, Up, Base, HostKnows, MenuIs
<1>12. CASE v # z
  <2> DEFINE t == [z EXCEPT !.app.alive = @ \cup {"tray"}, !.app.listeners = @ \cup {"tray"}]
  <2>1. PICK u \in Register(t) : v = UpdateTray(u)
    BY <1>12 DEF InitTray
  <2>2. /\ Shaped(t) /\ t.reg = z.reg /\ t.conf = z.conf /\ t.watch = z.watch /\ t.ctl = z.ctl /\ t.told = z.told
        /\ t.tray = z.tray /\ t.news = z.news /\ t.host = z.host /\ t.reply = z.reply
        /\ t.app.phase = z.app.phase /\ t.app.dangling = z.app.dangling
        /\ t.app.alive = z.app.alive \cup {"tray"} /\ t.app.listeners = z.app.listeners \cup {"tray"}
    BY <1>9, ZenonT(60) DEF Shaped, Record
  <2>10. t.app.restart = FALSE
    BY <1>9, <1>16, ZenonT(60) DEF Shaped, Record
  <2> HIDE DEF t
  <2>3. Wired(t) /\ TrayTyped(t) /\ HostKnows(t) /\ ~t.host.knows
    BY <1>9, <1>10, <2>2 DEF Wired, TrayTyped, HostKnows
  <2>4. /\ Shaped(u) /\ TrayTyped(u) /\ HostKnows(u) /\ MenuIs(u)
        /\ u.reg = t.reg /\ u.conf = t.conf /\ u.watch = t.watch /\ u.ctl = t.ctl /\ u.told = t.told
        /\ u.app = t.app /\ u.reply = t.reply
    BY <2>2, <2>3, RegisterIs, ZenonT(60)
  <2>5. TrayStep(u, v)
    BY <2>1, <2>4, UpdateTrayStep
  <2>6. Base(v)
    BY <2>3, <2>4, <2>5 DEF Base, Wired, TrayStep, Apart
  <2>7. MenuIs(v)
    BY <2>4, <2>5 DEF TrayStep, Apart, MenuIs
  <2>8. v.reg = z.reg /\ v.conf = z.conf /\ v.watch = z.watch /\ v.app.phase = z.app.phase /\ v.reply = z.reply
        /\ v.ctl = z.ctl /\ v.told = z.told /\ v.app = t.app
    BY <2>2, <2>4, <2>5 DEF TrayStep, Apart
  <2>9. Registry(v.reg) /\ Configured(v) /\ Blank(v)
    BY <1>10, <2>8 DEF Configured, Blank
  <2> QED
    BY <1>9, <1>10, <2>6, <2>7, <2>8, <2>9, <2>10 DEF Starting, Up
<1> QED
  BY <1>11, <1>12

(* Callbacks and a synchronisation: then it is served, or about to leave.  *)
Opened(w, s) == [s EXCEPT !.app.phase = "running", !.conf.fe = w.conf.mem, !.watch.on = w.watch.dir]
Unopened(s) == [s EXCEPT !.app.phase = "leaving", !.app.code = 1]

(* The first synchronisation announces the state to everyone, or the start *)
(* is given up.                                                            *)
LEMMA RunIs ==
    ASSUME NEW w, Starting(w), NEW s, s = Sync([w EXCEPT !.app.hooked = TRUE]),
           NEW v \in {Opened(w, s), Unopened(s)}
    PROVE  /\ Ok(v) /\ v.reply = w.reply /\ v.app.restart = w.app.restart /\ v.app.stop = w.app.stop
           /\ v.app.phase \in {"running", "leaving"}
<1> DEFINE x == [w EXCEPT !.app.hooked = TRUE]
<1>1. Shaped(w) /\ TrayTyped(w) /\ Wired(w) /\ HostKnows(w) /\ Registry(w.reg) /\ Configured(w)
      /\ w.app.phase = "starting" /\ Blank(w)
  BY DEF Starting, Up, Base
<1>2. /\ Shaped(x) /\ x.reg = w.reg /\ x.conf = w.conf /\ x.watch = w.watch /\ x.ctl = w.ctl
      /\ x.told = w.told /\ x.tray = w.tray /\ x.news = w.news /\ x.host = w.host /\ x.reply = w.reply
      /\ x.app.alive = w.app.alive /\ x.app.listeners = w.app.listeners /\ x.app.hooked
      /\ x.app.dangling = w.app.dangling
  BY <1>1 DEF Shaped, Record
<1>9. x.app.restart = w.app.restart /\ x.app.stop = w.app.stop
  BY <1>1 DEF Shaped, Record
<1>3. s = Sync(x)
  OBVIOUS
<1> HIDE DEF x
<1>4. Base(x) /\ Blank(x)
  BY <1>1, <1>2 DEF Base, TrayTyped, Wired, HostKnows, HostShows, Blank
<1>5. Notified(x, s)
  BY <1>3, <1>4, SyncNotifies
<1>6. Shaped(s) /\ TrayTyped(s) /\ Wired(s) /\ HostKnows(s) /\ Agree(s) /\ MenuIs(s) /\ Apart(x, s)
  BY <1>5 DEF Notified, Base
<1>10. v.app.restart = s.app.restart /\ v.app.stop = s.app.stop
  <2>1. CASE v = Opened(w, s)
    BY <1>6, <2>1, ZenonT(60) DEF Shaped, Record, Opened
  <2>2. CASE v = Unopened(s)
    BY <1>6, <2>2, ZenonT(60) DEF Shaped, Record, Unopened
  <2> QED
    BY <2>1, <2>2
<1>11. v.app.restart = w.app.restart /\ v.app.stop = w.app.stop
  BY <1>6, <1>9, <1>10 DEF Apart
<1>7. CASE v = Opened(w, s)
  <2>1. /\ Shaped(v) /\ v.reg = s.reg /\ v.ctl = s.ctl /\ v.told = s.told /\ v.tray = s.tray
        /\ v.news = s.news /\ v.host = s.host /\ v.reply = s.reply
        /\ v.app.phase = "running" /\ v.app.alive = s.app.alive /\ v.app.listeners = s.app.listeners
        /\ v.app.hooked = s.app.hooked /\ v.app.dangling = s.app.dangling
        /\ v.conf.mem = s.conf.mem /\ v.conf.disk = s.conf.disk /\ v.conf.fe = w.conf.mem
        /\ v.conf.unsaved = s.conf.unsaved
        /\ v.watch.on = w.watch.dir /\ v.watch.dir = s.watch.dir /\ v.watch.blind = s.watch.blind
    BY <1>6, <1>7, ZenonT(60) DEF Shaped, Record, Opened
  <2>2. Base(v)
    <3>1. TrayTyped(v) /\ Wired(v)
      BY <1>6, <2>1 DEF TrayTyped, Wired
    <3>2. HostKnows(v)
      BY <1>6, <2>1 DEF HostKnows, HostShows
    <3> QED
      BY <2>1, <3>1, <3>2 DEF Base
  <2>3. Configured(v)
    BY <1>1, <1>2, <1>6, <2>1 DEF Configured, Apart
  <2>4. Registry(v.reg) /\ v.app.hooked /\ v.reply = w.reply
    BY <1>1, <1>2, <1>6, <2>1 DEF Apart
  <2>5. Agree(v) /\ MenuIs(v)
    BY <1>6, <2>1, ZenonT(60) DEF Agree, SnapshotIs, Told, TrayIs, IconIs, BarIs, Tip, BadgeIs, EnginePayload, MenuIs
  <2> QED
    BY <1>11, <2>1, <2>2, <2>3, <2>4, <2>5 DEF Ok, Served, Up
<1>8. CASE v = Unopened(s)
  <2>1. /\ Shaped(v) /\ v.reg = s.reg /\ v.conf = s.conf /\ v.watch = s.watch /\ v.tray = s.tray
        /\ v.news = s.news /\ v.reply = s.reply
        /\ v.app.phase = "leaving" /\ v.app.alive = s.app.alive /\ v.app.listeners = s.app.listeners
        /\ v.app.dangling = s.app.dangling
    BY <1>6, <1>8, ZenonT(60) DEF Shaped, Record, Unopened
  <2>2. Configured(v) /\ Registry(v.reg) /\ v.reply = w.reply
    BY <1>1, <1>2, <1>6, <2>1 DEF Configured, Apart
  <2> QED
    BY <1>6, <1>11, <2>1, <2>2 DEF Ok, Over, TrayTyped, Wired
<1> QED
  BY <1>7, <1>8

(* A signal is noted, and ends the loop once there is a frontend.          *)
Signalled(w, stop) == [w EXCEPT !.app.signal = TRUE, !.app.stop = stop]
(* A signal changes the two flags only. *)
LEMMA SignalIs ==
    ASSUME NEW w, Served(w) \/ Starting(w), NEW stop, NEW v, v = Signalled(w, stop)
    PROVE  /\ Ok(v) /\ v.reply = w.reply /\ v.app.stop = stop /\ v.app.phase = w.app.phase
           /\ v.app.code = w.app.code /\ v.app.restart = w.app.restart
<1>1. Shaped(w)
  BY DEF Served, Starting, Up, Base
<1>2. /\ Shaped(v) /\ v.reg = w.reg /\ v.conf = w.conf /\ v.watch = w.watch /\ v.ctl = w.ctl
      /\ v.told = w.told /\ v.tray = w.tray /\ v.news = w.news /\ v.host = w.host /\ v.reply = w.reply
      /\ v.app.phase = w.app.phase /\ v.app.alive = w.app.alive /\ v.app.listeners = w.app.listeners
      /\ v.app.hooked = w.app.hooked /\ v.app.dangling = w.app.dangling
  BY <1>1 DEF Shaped, Record, Signalled
<1>3. v.app.stop = stop /\ v.app.code = w.app.code /\ v.app.restart = w.app.restart
  BY <1>1 DEF Shaped, Record, Signalled
<1> QED
  BY <1>2, <1>3, FlagsKeepUp

(* Leaving the loop closes the watch and keeps the exit's reason. *)
Left(w, code) ==
    [w EXCEPT !.app.phase = "leaving", !.app.code = code, !.watch = [Unwatched EXCEPT !.dir = w.watch.dir]]
(* Leaving keeps the order to restart, and closes the watch. *)
LEMMA LeaveIs ==
    ASSUME NEW w, Served(w), NEW code, NEW v, v = Left(w, code)
    PROVE  /\ Over(v) /\ v.reply = w.reply /\ v.app.phase = "leaving" /\ v.app.code = code
           /\ v.app.restart = w.app.restart
<1>1. Shaped(w) /\ TrayTyped(w) /\ Wired(w) /\ Registry(w.reg) /\ Configured(w)
  BY DEF Served, Up, Base
<1>2. /\ Shaped(v) /\ v.reg = w.reg /\ v.conf = w.conf /\ v.tray = w.tray /\ v.news = w.news
      /\ v.reply = w.reply /\ ~v.watch.on
      /\ v.app.phase = "leaving" /\ v.app.alive = w.app.alive /\ v.app.listeners = w.app.listeners
      /\ v.app.dangling = w.app.dangling
  BY <1>1 DEF Left, Shaped, Record, Unwatched
<1>3. v.app.code = code /\ v.app.restart = w.app.restart
  BY <1>1 DEF Left, Shaped, Record
<1> QED
  BY <1>1, <1>2, <1>3 DEF Over, TrayTyped, Wired, Configured

(* The controller goes before the engines are unloaded: nobody is called.  *)
Ended(w, x, exit) ==
    [x EXCEPT !.reg = EmptyRegistry, !.ctl = Nothing, !.tray = NewTray, !.told = Untold, !.news = {},
              !.conf.mem = {}, !.conf.fe = {}, !.conf.unsaved = FALSE,
              !.host = [NotSeen EXCEPT !.there = w.host.there],
              !.app = [NewApp EXCEPT !.phase = exit.phase, !.code = exit.code, !.dangling = x.app.dangling]]

(* The shutdown, in its order, leaves a process that is over and owes      *)
(* nobody.                                                                 *)
LEMMA FinishIs ==
    ASSUME NEW w, Over(w), w.app.phase = "leaving", NEW x \in AppShutdown(w), NEW exit \in Exits(w.app),
           NEW v, v = Ended(w, x, exit)
    PROVE  /\ Over(v) /\ v.reply = w.reply /\ ~v.app.restart /\ v.app.phase \in {"down", "exec"}
           /\ w.app.restart /\ w.app.code \in {0, 1} => v.app.phase = "exec" \/ v.app.code = 1
<1> DEFINE y == FreeController(DestroyRuntimeServices(w))
           z == [y EXCEPT !.reg.kb = None]
<1>1. Shaped(w) /\ Configured(w) /\ ~w.app.dangling
  BY DEF Over
<1>2. /\ Shaped(y) /\ y.conf = w.conf /\ y.watch = w.watch /\ y.reply = w.reply
      /\ y.app.dangling = w.app.dangling /\ "controller" \notin y.app.alive
  BY <1>1, ZenonT(60) DEF Shaped, Record, FreeController, DestroyRuntimeServices
<1>3. x \in FreeInstance(y)
  BY DEF AppShutdown
<1> HIDE DEF y
<1>4. /\ Shaped(z) /\ z.conf = w.conf /\ z.watch = w.watch /\ z.reply = w.reply
      /\ z.app.dangling = w.app.dangling /\ "controller" \notin z.app.alive
  BY <1>2 DEF Shaped, Record
<1>5. OnEngineChange(z, None) = z
  BY <1>4 DEF OnEngineChange, Hooked
<1>6. x = y \/ x = z
  BY <1>3, <1>5 DEF FreeInstance
<1> HIDE DEF z
<1>7. Shaped(x) /\ x.conf = w.conf /\ x.watch = w.watch /\ x.reply = w.reply /\ ~x.app.dangling
  BY <1>1, <1>2, <1>4, <1>6
<1> DEFINE phase == exit.phase
           left == [NewApp EXCEPT !.phase = phase, !.code = exit.code, !.dangling = x.app.dangling]
           away == [NotSeen EXCEPT !.there = w.host.there]
<1>8. /\ phase \in {"down", "exec"}
      /\ v = [x EXCEPT !.reg = EmptyRegistry, !.ctl = Nothing, !.tray = NewTray, !.told = Untold, !.news = {},
                       !.conf.mem = {}, !.conf.fe = {}, !.conf.unsaved = FALSE, !.host = away, !.app = left]
  BY DEF Ended, Exits
<1>15. w.app.restart /\ w.app.code \in {0, 1} => phase = "exec" \/ exit.code = 1
  BY DEF Exits
<1> HIDE DEF phase
<1>16. left.restart = FALSE /\ left.code = exit.code
  BY DEF NewApp
<1>9. /\ Record(left, {"phase", "alive", "listeners", "hooked", "stop", "restart", "signal", "code", "dangling"})
      /\ left.phase = phase /\ left.dangling = x.app.dangling /\ left.alive = {} /\ left.listeners = {}
      /\ Record(away, {"there", "knows", "icon", "badge", "status", "overlay", "tip", "menu"}) /\ ~away.knows
  BY DEF Record, NewApp, NotSeen
<1> HIDE DEF left, away
<1>10. /\ v.reg = EmptyRegistry /\ v.ctl = Nothing /\ v.tray = NewTray /\ v.told = Untold /\ v.news = {}
       /\ v.conf.mem = {} /\ v.conf.fe = {} /\ v.conf.disk = x.conf.disk /\ v.conf.unsaved = FALSE
       /\ v.watch = x.watch
       /\ v.reply = x.reply /\ v.host = away /\ v.app = left
       /\ Record(v, {"reg", "conf", "watch", "ctl", "told", "tray", "news", "host", "app", "reply"})
       /\ Record(v.conf, {"mem", "fe", "disk", "unsaved"})
  <2>1. /\ Record(x, {"reg", "conf", "watch", "ctl", "told", "tray", "news", "host", "app", "reply"})
        /\ Record(x.conf, {"mem", "fe", "disk", "unsaved"})
    BY <1>7 DEF Shaped
  <2>2. Record(v, {"reg", "conf", "watch", "ctl", "told", "tray", "news", "host", "app", "reply"})
    BY <1>8, <2>1 DEF Record
  <2>3. /\ v.reg = EmptyRegistry /\ v.ctl = Nothing /\ v.tray = NewTray /\ v.told = Untold /\ v.news = {}
        /\ v.watch = x.watch /\ v.reply = x.reply /\ v.host = away /\ v.app = left
    BY <1>8, <2>1 DEF Record
  <2>4. /\ v.conf.mem = {} /\ v.conf.fe = {} /\ v.conf.disk = x.conf.disk /\ v.conf.unsaved = FALSE
        /\ Record(v.conf, {"mem", "fe", "disk", "unsaved"})
    <3>1. v.conf = [x.conf EXCEPT !.mem = {}, !.fe = {}, !.unsaved = FALSE]
      BY <1>8, <2>1 DEF Record
    <3> QED
      BY <2>1, <3>1 DEF Record
  <2> QED
    BY <2>2, <2>3, <2>4
<1>11. Shaped(v)
  <2>1. /\ Record(EmptyRegistry, {"loaded", "lang", "kb", "voice", "dyn"})
        /\ Record(Nothing, {"engine", "voice", "lang", "icon", "badge", "active", "mode"})
        /\ Record(Untold, {"engine", "language", "status"})
        /\ Record(NewTray, {"engine", "status", "icon", "badge", "overlay", "tip", "registered"})
    BY DEF Record, EmptyRegistry, Nothing, NewTray, Untold
  <2> QED
    BY <1>7, <1>9, <1>10, <2>1 DEF Shaped
<1>12. Registry(EmptyRegistry)
  BY DEF Registry, EmptyRegistry, Slot, Distinct
<1>13. Configured(v)
  BY <1>1, <1>7, <1>8, <1>9, <1>10 DEF Configured
<1>14. TrayTyped(v) /\ Blank(v) /\ ~v.host.knows
  BY <1>9, <1>10 DEF TrayTyped, Blank, NewTray, Nothing, Untold
<1> QED
  BY <1>7, <1>8, <1>9, <1>10, <1>11, <1>12, <1>13, <1>14, <1>15, <1>16 DEF Over

(***************************************************************************)
(* The actions.                                                            *)
(***************************************************************************)
LEMMA WorldIs ==
    /\ World.reg = reg /\ World.conf = conf /\ World.watch = watch /\ World.ctl = ctl /\ World.told = told
    /\ World.tray = tray /\ World.news = news /\ World.host = host /\ World.app = app /\ World.reply = None
  BY DEF World

(* The reply is the one thing of an outcome the invariant does not see.    *)
LEMMA ReplyForgotten ==
    ASSUME NEW w, Ok(w), NEW v, v = [w EXCEPT !.reply = None]
    PROVE  Ok(v)
<1>1. Shaped(w)
  BY DEF Ok, Served, Starting, Over, Up, Base
<1>2. /\ Shaped(v) /\ v.reg = w.reg /\ v.conf = w.conf /\ v.watch = w.watch /\ v.ctl = w.ctl
      /\ v.told = w.told /\ v.tray = w.tray /\ v.news = w.news /\ v.host = w.host /\ v.app = w.app
  BY <1>1 DEF Shaped, Record
<1>3. CASE Served(w) \/ Starting(w)
  <2>1. Configured(v)
    BY <1>2, <1>3 DEF Served, Starting, Up, Configured
  <2> QED
    BY <1>2, <1>3, <2>1, StillUp
<1>4. CASE Over(w)
  BY <1>2, <1>4 DEF Ok, Over, TrayTyped, Configured, Blank
<1> QED
  BY <1>3, <1>4 DEF Ok

(* A step to one of several good outcomes keeps the invariant. *)
LEMMA BecomesOk ==
    ASSUME NEW ws, \A v \in ws : Ok(v), Become(ws)
    PROVE  IInv'
<1>1. PICK v \in ws : /\ reg' = v.reg /\ conf' = v.conf /\ watch' = v.watch /\ ctl' = v.ctl /\ told' = v.told
                      /\ tray' = v.tray /\ news' = v.news /\ host' = v.host /\ app' = v.app
  BY DEF Become
<1>2. Ok(v)
  BY <1>1
<1>3. Record(v, {"reg", "conf", "watch", "ctl", "told", "tray", "news", "host", "app", "reply"})
  BY <1>2 DEF Ok, Served, Starting, Over, Up, Base, Shaped
<1>4. World' = [v EXCEPT !.reply = None]
  BY <1>1, <1>3 DEF World, Record
<1>5. Ok(World')
  BY <1>2, <1>4, ReplyForgotten
<1> QED
  BY <1>5 DEF IInv

(* How the process goes on: it is steered while it runs, starts without an *)
(* order to restart, keeps its orders until it ends, and ends as they say. *)
Begins(a, b) == a.phase \in {"down", "exec"} /\ b.phase = "starting" /\ ~b.restart
Opens(a, b) ==
    a.phase = "starting" /\ b.phase \in {"running", "leaving"} /\ b.restart = a.restart /\ b.stop = a.stop
Leaves(a, b) == a.phase = "running" /\ b.phase = "leaving" /\ b.restart = a.restart /\ b.code \in {0, 1}
Ends(a, b) ==
    /\ a.phase = "leaving" /\ ~b.restart /\ b.phase \in {"down", "exec"}
    /\ a.restart /\ a.code \in {0, 1} => b.phase = "exec" \/ b.code = 1
Goes(a, b) == Steered(a, b) \/ Begins(a, b) \/ Opens(a, b) \/ Leaves(a, b) \/ Ends(a, b)

(* What a step other than a request may lead to.                           *)
Fine(v) == Ok(v) /\ v.reply = None /\ Goes(app, v.app)

(* It is fine to leave the process alone.                                  *)
LEMMA UnsteeredIsFine ==
    ASSUME NEW v, Ok(v), v.reply = None, v.app = app
    PROVE  Fine(v)
  BY DEF Fine, Goes, Steered

(* A step other than a request, and one that is a request.                 *)
LEMMA Quiet ==
    ASSUME NEW ws, \A v \in ws : Fine(v), Become(ws)
    PROVE  IInv' /\ reply' = None /\ Goes(app, app')
<1>1. IInv'
  BY BecomesOk DEF Fine
<1>2. PICK v \in ws : app' = v.app /\ reply' = v.reply
  BY DEF Become
<1> QED
  BY <1>1, <1>2 DEF Fine

RefusalIsVoid == reply' \in Refusals => UNCHANGED <<reg, conf, ctl, tray, told, app>>

(* A step to one of several proper answers keeps the invariant, and        *)
(* refusals are void.                                                      *)
LEMMA Asked ==
    ASSUME NEW ws, \A v \in ws : Answered(World, v), Become(ws)
    PROVE  IInv' /\ RefusalIsVoid /\ Goes(app, app')
<1>1. IInv'
  BY BecomesOk DEF Answered, Ok
<1>2. RefusalIsVoid
  BY WorldIs DEF Become, Answered, Untouched, RefusalIsVoid
<1>3. PICK v \in ws : app' = v.app
  BY DEF Become
<1>4. v.app = World.app \/ Steered(World.app, v.app)
  BY DEF Answered
<1>5. v.app = app \/ Steered(app, v.app)
  BY <1>4, WorldIs
<1>6. Goes(app, v.app)
  BY <1>5 DEF Goes, Steered
<1> QED
  BY <1>1, <1>2, <1>3, <1>6

(* Which part of the invariant holds in which phase of the process. *)
LEMMA InPhase ==
    ASSUME IInv
    PROVE  /\ app.phase = "running" => Served(World)
           /\ app.phase = "starting" => Starting(World)
           /\ app.phase \in {"down", "exec", "leaving"} => Over(World)
  BY WorldIs DEF IInv, Ok, Served, Starting, Over, Up

(* The invariant holds before the process starts. *)
LEMMA Initially ==
    ASSUME Init
    PROVE  IInv
<1>1. PICK d \in Edits \ {Garbled} : conf = [mem |-> {}, fe |-> {}, disk |-> d, unsaved |-> FALSE]
  BY DEF Init
<1>2. d \in (SUBSET Setting) \cup {Garbled}
  BY EditAssumption
<1>3. Shaped(World)
  BY <1>1, ZenonT(60) DEF Init, World, Shaped, Record, EmptyRegistry, Unwatched, Nothing, Untold, NewTray, NotSeen, NewApp
<1>4. Registry(reg)
  BY DEF Init, Registry, EmptyRegistry, Slot, Distinct
<1>5. TrayTyped(World) /\ Blank(World) /\ ~host.knows
  BY WorldIs DEF Init, TrayTyped, Blank, NewTray, Nothing, Untold, NotSeen
<1>6. /\ app.phase = "down" /\ app.alive = {} /\ app.listeners = {} /\ ~app.dangling /\ ~watch.on
  BY DEF Init, NewApp, Unwatched
<1>7. Configured(World)
  BY <1>1, <1>2, <1>6, WorldIs DEF Configured
<1>8. Over(World)
  BY <1>3, <1>4, <1>5, <1>6, <1>7, WorldIs DEF Over, Init
<1> QED
  BY <1>8 DEF IInv, Ok

(* A request on the bus keeps the invariant, and a refused one changes     *)
(* nothing.                                                                *)
LEMMA RequestStep ==
    ASSUME IInv, Request
    PROVE  IInv' /\ RefusalIsVoid /\ Goes(app, app')
<1>1. Served(World)
  BY InPhase DEF Request, Ask, Running
<1>2. ASSUME NEW ws, Ask(ws), \A v \in ws : Answered(World, v)
      PROVE  IInv' /\ RefusalIsVoid /\ Goes(app, app')
  BY <1>2, Asked DEF Ask
<1>3. CASE \/ Ask(Hello(World)) \/ Ask(DaemonVersion(World)) \/ Ask(DaemonStatus(World))
           \/ Ask(ConfigList(World)) \/ Ask(ConfigShow(World))
           \/ Ask(EngineList(World)) \/ Ask(LanguageList(World))
  <2>1. Ask({Done(World)})
    BY <1>3 DEF Hello, DaemonVersion, DaemonStatus, ConfigList, ConfigShow, EngineList, LanguageList
  <2> QED
    BY <1>1, <1>2, <2>1, ReadingAnswers
<1>4. CASE Ask(DaemonStop(World))
  BY <1>1, <1>2, <1>4, DaemonStopAnswers
<1>5. CASE Ask(ConfigReload(World))
  BY <1>1, <1>2, <1>5, ConfigReloadAnswers
<1>6. ASSUME NEW s \in Setting, Ask(ConfigGet(World, s)) \/ Ask(ConfigSet(World, s)) \/ Ask(ConfigUnset(World, s))
      PROVE  IInv' /\ RefusalIsVoid /\ Goes(app, app')
  <2>1. CASE Ask(ConfigGet(World, s))
    <3>1. \A v \in ConfigGet(World, s) : Answered(World, v)
      BY <1>1, ReadingAnswers DEF ConfigGet
    <3> QED
      BY <1>2, <2>1, <3>1
  <2>2. CASE Ask(ConfigSet(World, s))
    BY <1>1, <1>2, <2>2, ConfigSetAnswers
  <2>3. CASE Ask(ConfigUnset(World, s))
    BY <1>1, <1>2, <2>3, ConfigUnsetAnswers
  <2> QED
    BY <1>6, <2>1, <2>2, <2>3
<1>7. ASSUME NEW e \in Name, Ask(EngineDescribe(World, e)) \/ Ask(EngineInvoke(World, e))
      PROVE  IInv' /\ RefusalIsVoid /\ Goes(app, app')
  <2>1. \A v \in EngineDescribe(World, e) \cup EngineInvoke(World, e) : Answered(World, v)
    BY <1>1, ReadingAnswers DEF EngineDescribe, EngineInvoke
  <2> QED
    BY <1>2, <1>7, <2>1
<1>8. ASSUME NEW kind \in {"keyboard", "voice"}, NEW e \in Name, Ask(ModalUse(World, e, kind))
      PROVE  IInv' /\ RefusalIsVoid /\ Goes(app, app')
  BY <1>1, <1>2, <1>8, ModalUseAnswers
<1>9. ASSUME NEW kind \in {"keyboard", "voice"}, NEW step \in {1, -1}, Ask(ModalCycle(World, kind, step))
      PROVE  IInv' /\ RefusalIsVoid /\ Goes(app, app')
  BY <1>1, <1>2, <1>9, ModalCycleAnswers
<1>10. ASSUME NEW l \in In(Language), Ask(LanguageUse(World, l))
       PROVE  IInv' /\ RefusalIsVoid /\ Goes(app, app')
  BY <1>1, <1>2, <1>10, LanguageUseAnswers
<1>11. ASSUME NEW step \in {1, -1}, Ask(LanguageCycle(World, step))
       PROVE  IInv' /\ RefusalIsVoid /\ Goes(app, app')
  BY <1>1, <1>2, <1>11, LanguageCycleAnswers
<1>12. ASSUME NEW m \in Manifest, Ask(EngineLoad(World, m))
       PROVE  IInv' /\ RefusalIsVoid /\ Goes(app, app')
  BY <1>1, <1>2, <1>12, EngineLoadAnswers
<1>13. ASSUME NEW e \in Name, Ask(EngineUnload(World, e)) \/ Ask(EngineReload(World, e))
       PROVE  IInv' /\ RefusalIsVoid /\ Goes(app, app')
  <2>1. CASE Ask(EngineUnload(World, e))
    BY <1>1, <1>2, <2>1, EngineUnloadAnswers
  <2>2. CASE Ask(EngineReload(World, e))
    BY <1>1, <1>2, <2>2, EngineReloadAnswers
  <2> QED
    BY <1>13, <2>1, <2>2
<1> QED
  BY <1>3, <1>4, <1>5, <1>6, <1>7, <1>8, <1>9, <1>10, <1>11, <1>12, <1>13 DEF Request

(* A click on the tray keeps the invariant. *)
LEMMA ClickStep ==
    ASSUME IInv, IconClick \/ MenuClick
    PROVE  IInv' /\ reply' = None /\ Goes(app, app')
<1> DEFINE clicks == {"language", "engine", "voice", "quit", "restart", "activate", "scroll_down",
                      "scroll_up", "context_menu", "secondary_activate"}
<1>1. Served(World)
  BY InPhase DEF IconClick, MenuClick, MenuEvent, Click, Running
<1>2. ASSUME NEW action \in clicks, NEW of, Choosable(World, action, of),
             Click(MenuCallback(World, action, of))
      PROVE  IInv' /\ reply' = None /\ Goes(app, app')
  <2>1. ASSUME NEW v \in MenuCallback(World, action, of)
        PROVE  Fine(v)
    <3>1. Served(v) /\ v.reply = World.reply /\ (v.app = World.app \/ Steered(World.app, v.app))
      BY <1>1, <1>2, MenuServes
    <3>2. v.reply = None /\ (v.app = app \/ Steered(app, v.app))
      BY <3>1, WorldIs
    <3> QED
      BY <3>1, <3>2, UnsteeredIsFine DEF Ok, Fine, Goes
  <2> QED
    BY <1>2, <2>1, Quiet DEF Click
<1>3. ASSUME NEW action \in {"activate", "secondary_activate", "context_menu", "scroll_up", "scroll_down",
                             "restart", "quit"},
             Click(MenuCallback(World, action, None))
      PROVE  IInv' /\ reply' = None /\ Goes(app, app')
  <2>1. Choosable(World, action, None)
    BY ZenonT(60) DEF Choosable
  <2> QED
    BY <1>2, <1>3, <2>1
<1>4. ASSUME NEW action \in clicks, NEW drawn, NEW list, \A of \in In(list) : Choosable(World, action, of),
             MenuEvent(action, drawn, list)
      PROVE  IInv' /\ reply' = None /\ Goes(app, app')
  <2>1. PICK i \in DOMAIN drawn :
           Click(IF i \in DOMAIN list THEN MenuCallback(World, action, list[i]) ELSE {World})
    BY <1>4 DEF MenuEvent
  <2>2. CASE i \in DOMAIN list
    <3>1. list[i] \in In(list)
      BY <2>2 DEF In
    <3>2. Choosable(World, action, list[i]) /\ Click(MenuCallback(World, action, list[i]))
      BY <1>4, <2>1, <2>2, <3>1
    <3> QED
      BY <1>2, <3>2
  <2>3. CASE i \notin DOMAIN list
    <3>1. Click({World})
      BY <2>1, <2>3
    <3>2. \A v \in {World} : Fine(v)
      BY <1>1, WorldIs, UnsteeredIsFine DEF Ok
    <3> QED
      BY <3>1, <3>2, Quiet DEF Click
  <2> QED
    BY <2>2, <2>3
<1>5. CASE IconClick
  BY <1>3, <1>5 DEF IconClick
<1>6. CASE MenuClick
  <2>1. CASE MenuEvent("language", host.menu.langs, Languages(World))
    <3>1. \A of \in In(Languages(World)) : Choosable(World, "language", of)
      BY DEF Choosable
    <3> QED
      BY <1>4, <2>1, <3>1
  <2>2. CASE MenuEvent("engine", host.menu.kbs, Listed(reg, "keyboard"))
    <3>1. \A of \in In(Listed(reg, "keyboard")) : Choosable(World, "engine", of)
      BY WorldIs DEF Choosable
    <3> QED
      BY <1>4, <2>2, <3>1
  <2>3. CASE MenuEvent("voice", host.menu.voices, Listed(reg, "voice"))
    <3>1. \A of \in In(Listed(reg, "voice")) : Choosable(World, "voice", of)
      BY WorldIs DEF Choosable
    <3> QED
      BY <1>4, <2>3, <3>1
  <2>4. CASE \E action \in {"restart", "quit"} : Click(MenuCallback(World, action, None))
    BY <1>3, <2>4
  <2> QED
    BY <1>6, <2>1, <2>2, <2>3, <2>4 DEF MenuClick
<1> QED
  BY <1>5, <1>6

(* An engine's report of its mode or icon keeps the invariant. *)
LEMMA ReportStep ==
    ASSUME IInv, EngineMode \/ EngineIcon
    PROVE  IInv' /\ reply' = None /\ Goes(app, app')
<1>1. Served(World)
  BY InPhase DEF EngineMode, EngineIcon, Running
<1>2. ASSUME NEW mode, Become({NotifyStatusChanged(World, mode)})
      PROVE  IInv' /\ reply' = None /\ Goes(app, app')
  <2> DEFINE v == NotifyStatusChanged(World, mode)
  <2>1. Served(v) /\ v.reply = None /\ v.app = app
    BY <1>1, ModeServes, WorldIs
  <2> HIDE DEF v
  <2>2. Fine(v)
    BY <2>1, UnsteeredIsFine DEF Ok
  <2> QED
    BY <1>2, <2>2, Quiet DEF v
<1>3. ASSUME NEW d, Become({NotifyStatusIconChanged([World EXCEPT !.reg.dyn = d], d)})
      PROVE  IInv' /\ reply' = None /\ Goes(app, app')
  <2> DEFINE v == NotifyStatusIconChanged([World EXCEPT !.reg.dyn = d], d)
  <2>1. Served(v) /\ v.reply = None /\ v.app = app
    BY <1>1, IconServes, WorldIs
  <2> HIDE DEF v
  <2>2. Fine(v)
    BY <2>1, UnsteeredIsFine DEF Ok
  <2> QED
    BY <1>3, <2>2, Quiet DEF v
<1> QED
  BY <1>2, <1>3 DEF EngineMode, EngineIcon

(* An edit by the user keeps the invariant. *)
LEMMA EditStep ==
    ASSUME IInv, Edit
    PROVE  IInv' /\ reply' = None /\ Goes(app, app')
<1>1. Served(World) \/ Starting(World)
  BY InPhase DEF Edit
<1>2. ASSUME NEW v, \/ watch.dir /\ \E d \in Edits : v = FileEdited(World, d)
                    \/ v = DirTaken(World)
                    \/ \E d \in Edits : v = DirBack(World, d)
      PROVE  Fine(v)
  <2>1. Ok(v) /\ v.reply = None /\ v.app = app
    BY <1>1, <1>2, EditIs, WorldIs
  <2> QED
    BY <2>1, UnsteeredIsFine
<1>3. ASSUME watch.dir, NEW d \in Edits, Become({FileEdited(World, d)})
      PROVE  IInv' /\ reply' = None /\ Goes(app, app')
  <2>1. \A v \in {FileEdited(World, d)} : Fine(v)
    BY <1>2, <1>3
  <2> QED
    BY <1>3, <2>1, Quiet
<1>4. ASSUME Become({DirTaken(World)})
      PROVE  IInv' /\ reply' = None /\ Goes(app, app')
  <2>1. \A v \in {DirTaken(World)} : Fine(v)
    BY <1>2
  <2> QED
    BY <1>4, <2>1, Quiet
<1>5. ASSUME NEW d \in Edits, Become({DirBack(World, d)})
      PROVE  IInv' /\ reply' = None /\ Goes(app, app')
  <2>1. \A v \in {DirBack(World, d)} : Fine(v)
    BY <1>2, SMTT(60)
  <2> QED
    BY <1>5, <2>1, Quiet
<1>6. \/ watch.dir /\ \E d \in Edits : Become({FileEdited(World, d)})
      \/ Become({DirTaken(World)})
      \/ \E d \in Edits : Become({DirBack(World, d)})
  <2>1. World.watch.on = watch.on
    BY WorldIs
  <2> QED
    BY <2>1 DEF Edit, FileEdited, DirTaken, DirBack
<1> QED
  BY <1>3, <1>4, <1>5, <1>6

(* The watch and its debounce timer keep the invariant. *)
LEMMA WatchStep ==
    ASSUME IInv, HandleConfigWatch \/ DispatchConfigReload
    PROVE  IInv' /\ reply' = None /\ Goes(app, app')
<1>1. Served(World)
  BY InPhase DEF HandleConfigWatch, DispatchConfigReload, Running
<1>2. CASE HandleConfigWatch
  <2>1. Become({[WatchTaken(World) EXCEPT !.watch.pending = TRUE], Reload(WatchTaken(World))})
    <3>1. World.watch.self = watch.self /\ World.watch.dir = watch.dir
      BY WorldIs
    <3> QED
      BY <1>2, <3>1 DEF HandleConfigWatch, WatchTaken
  <2>2. \A v \in {[WatchTaken(World) EXCEPT !.watch.pending = TRUE], Reload(WatchTaken(World))} :
           Ok(v) /\ v.reply = None /\ v.app = app
    BY <1>1, WatchServes, WorldIs DEF Ok
  <2> QED
    BY <2>1, <2>2, UnsteeredIsFine, Quiet
<1>3. CASE DispatchConfigReload
  <2>1. \A v \in {Reload(World)} : Fine(v)
    BY <1>1, ReloadServes, UnsteeredIsFine, WorldIs DEF Ok
  <2> QED
    BY <1>3, <2>1, Quiet DEF DispatchConfigReload
<1> QED
  BY <1>2, <1>3

(* A tray host or watcher that comes, goes or reads keeps the invariant. *)
LEMMA HostStep ==
    ASSUME IInv, HostComesOrGoes \/ HostReads
    PROVE  IInv' /\ reply' = None /\ Goes(app, app')
<1>1. CASE HostComesOrGoes
  <2>1. PICK there \in {TRUE, ~host.there} : Become(WatcherOwnerChanged(HostMoved(World, there)))
    BY <1>1 DEF HostComesOrGoes, HostMoved
  <2>2. Served(World) \/ (Over(World) /\ World.app.phase = "down")
    BY <1>1, InPhase, WorldIs DEF HostComesOrGoes
  <2>3. \A v \in WatcherOwnerChanged(HostMoved(World, there)) : Ok(v) /\ v.reply = None /\ v.app = app
    BY <2>2, HostServes, HostMovesUnseen, WorldIs DEF Ok
  <2>4. \A v \in WatcherOwnerChanged(HostMoved(World, there)) : Fine(v)
    BY <2>3, UnsteeredIsFine
  <2> QED
    BY <2>1, <2>4, Quiet
<1>2. CASE HostReads
  <2>1. Served(World) \/ Starting(World) \/ Over(World)
    BY DEF IInv, Ok
  <2>2. \A v \in {[World EXCEPT !.host = Shown(host, news), !.news = {}]} : Fine(v)
    BY <1>2, <2>1, HostReadsIs, UnsteeredIsFine DEF HostReads
  <2> QED
    BY <1>2, <2>2, Quiet DEF HostReads
<1> QED
  BY <1>1, <1>2

(* Start, loop, signal and end of the process keep the invariant. *)
LEMMA ProcessStep ==
    ASSUME IInv, Start \/ RunWayland \/ Signal \/ Leave \/ Finish
    PROVE  IInv' /\ reply' = None /\ Goes(app, app')
<1>1. CASE Start
  <2>1. Over(World) /\ World.app.phase \in {"down", "exec"}
    BY <1>1, InPhase, WorldIs DEF Start
  <2>2. PICK x \in UNION {Restored(y) : y \in LoadDirs(Begun(World), EngineDirs)} :
           Become(UNION {InitTray(z) : z \in InitIpcBus(x)})
    <3>1. World.conf.disk = conf.disk
      BY WorldIs
    <3> QED
      BY <1>1, <3>1 DEF Start, Begun
  <2>3. PICK y \in LoadDirs(Begun(World), EngineDirs) : x \in Restored(y)
    BY <2>2
  <2>4. ASSUME NEW z \in InitIpcBus(x), NEW v \in InitTray(z)
        PROVE  Fine(v)
    <3>1. Starting(v) /\ v.reply = None /\ ~v.app.restart
      BY <2>1, <2>3, <2>4, StartIs, WorldIs
    <3>2. Begins(app, v.app)
      BY <2>1, <3>1, WorldIs DEF Begins, Starting, Up
    <3> QED
      BY <3>1, <3>2 DEF Ok, Fine, Goes
  <2>5. \A v \in UNION {InitTray(z) : z \in InitIpcBus(x)} : Fine(v)
    BY <2>4
  <2> QED
    BY <2>2, <2>5, Quiet
<1>2. CASE RunWayland
  <2> DEFINE s == Sync([World EXCEPT !.app.hooked = TRUE])
             ws == {Opened(World, s), Unopened(s)}
  <2>1. Starting(World)
    BY <1>2, InPhase DEF RunWayland
  <2>2. Become(ws)
    <3>1. World.conf.mem = conf.mem /\ World.watch.dir = watch.dir
      BY WorldIs
    <3> QED
      BY <1>2, <3>1 DEF RunWayland, Opened, Unopened
  <2>3. s = Sync([World EXCEPT !.app.hooked = TRUE])
    OBVIOUS
  <2> HIDE DEF s
  <2>4. \A v \in ws : /\ Ok(v) /\ v.reply = World.reply /\ v.app.restart = World.app.restart
                      /\ v.app.stop = World.app.stop /\ v.app.phase \in {"running", "leaving"}
    BY <2>1, <2>3, RunIs
  <2> HIDE DEF ws
  <2>5. \A v \in ws : Fine(v)
    BY <1>2, <2>4, WorldIs DEF Fine, Goes, Opens, RunWayland
  <2> QED
    BY <2>2, <2>5, Quiet
<1>3. CASE Signal
  <2>1. Served(World) \/ Starting(World)
    BY <1>3, InPhase DEF Signal
  <2> DEFINE stop == app.phase = "running"
             v == Signalled(World, stop)
  <2>2. Become({v})
    BY <1>3 DEF Signal, Signalled
  <2>3. stop \in BOOLEAN
    OBVIOUS
  <2> HIDE DEF stop
  <2>4. /\ Ok(v) /\ v.reply = World.reply /\ v.app.phase = World.app.phase
        /\ v.app.code = World.app.code /\ v.app.restart = World.app.restart
    BY <2>1, SignalIs
  <2> HIDE DEF v
  <2>5. Steered(app, v.app)
    BY <1>3, <2>4, WorldIs DEF Signal, Steered
  <2>6. Fine(v)
    BY <2>4, <2>5, WorldIs DEF Fine, Goes
  <2> QED
    BY <2>2, <2>6, Quiet
<1>4. CASE Leave
  <2>1. Served(World)
    BY <1>4, InPhase DEF Leave, Running
  <2>2. PICK code \in {0, 1} : Become({Left(World, code)})
    <3>1. World.watch.dir = watch.dir
      BY WorldIs
    <3> QED
      BY <1>4, <3>1 DEF Leave, Left
  <2> DEFINE v == Left(World, code)
  <2>3. /\ Over(v) /\ v.reply = World.reply /\ v.app.phase = "leaving" /\ v.app.code = code
        /\ v.app.restart = World.app.restart
    BY <2>1, LeaveIs
  <2> HIDE DEF v
  <2>4. Leaves(app, v.app)
    BY <1>4, <2>3, WorldIs DEF Leaves, Leave, Running
  <2>5. Fine(v)
    BY <2>3, <2>4, WorldIs DEF Ok, Fine, Goes
  <2>6. Become({v})
    BY <2>2 DEF v
  <2> QED
    BY <2>5, <2>6, Quiet
<1>5. CASE Finish
  <2>1. Over(World) /\ World.app.phase = "leaving"
    BY <1>5, InPhase, WorldIs DEF Finish
  <2>2. PICK x \in AppShutdown(World), exit \in Exits(World.app) : Become({Ended(World, x, exit)})
    <3>1. World.host.there = host.there /\ World.app = app
      BY WorldIs
    <3> QED
      BY <1>5, <3>1 DEF Finish, Ended
  <2> DEFINE v == Ended(World, x, exit)
  <2>3. /\ Over(v) /\ v.reply = World.reply /\ ~v.app.restart /\ v.app.phase \in {"down", "exec"}
        /\ World.app.restart /\ World.app.code \in {0, 1} => v.app.phase = "exec" \/ v.app.code = 1
    BY <2>1, FinishIs
  <2>4. Become({v})
    BY <2>2
  <2> HIDE DEF v
  <2>5. Ends(app, v.app)
    BY <2>1, <2>3, WorldIs DEF Ends
  <2>6. Fine(v)
    BY <2>3, <2>5, WorldIs DEF Ok, Fine, Goes
  <2> QED
    BY <2>4, <2>6, Quiet
<1> QED
  BY <1>1, <1>2, <1>3, <1>4, <1>5

(* The loop is left for the way out, and the way out ends.                 *)
LEMMA LeaveOrFinish ==
    ASSUME IInv
    PROVE  /\ Leave => app'.phase = "leaving"
           /\ Finish => app'.phase # "leaving"
<1>2. ASSUME Leave
      PROVE  app'.phase = "leaving"
  <2>1. PICK code : Become({Left(World, code)})
    <3>1. World.watch.dir = watch.dir
      BY WorldIs
    <3> QED
      BY <1>2, <3>1 DEF Leave, Left
  <2>2. Served(World)
    BY <1>2, InPhase DEF Leave, Running
  <2>3. Left(World, code).app.phase = "leaving"
    BY <2>2, LeaveIs
  <2> QED
    BY <2>1, <2>3 DEF Become
<1>3. ASSUME Finish
      PROVE  app'.phase # "leaving"
  <2>1. PICK x \in AppShutdown(World), exit \in Exits(World.app) : Become({Ended(World, x, exit)})
    <3>1. World.host.there = host.there /\ World.app = app
      BY WorldIs
    <3> QED
      BY <1>3, <3>1 DEF Finish, Ended
  <2>2. Over(World) /\ World.app.phase = "leaving"
    BY <1>3, InPhase, WorldIs DEF Finish
  <2>3. Ended(World, x, exit).app.phase \in {"exec", "down"}
    BY <2>2, FinishIs
  <2> QED
    BY <2>1, <2>3 DEF Become
<1> QED
  BY <1>2, <1>3

(* Every step keeps the invariant, and no refused request has an effect. *)
LEMMA Step ==
    ASSUME IInv, [Next]_vars
    PROVE  IInv' /\ (RefusalIsVoid \/ UNCHANGED vars) /\ Goes(app, app')
<1>1. CASE Request
  BY <1>1, RequestStep
<1>2. CASE Start \/ RunWayland \/ Signal \/ Leave \/ Finish
  BY <1>2, ProcessStep DEF RefusalIsVoid, Refusals, None
<1>3. CASE IconClick \/ MenuClick
  BY <1>3, ClickStep DEF RefusalIsVoid, Refusals, None
<1>4. CASE EngineMode \/ EngineIcon
  BY <1>4, ReportStep DEF RefusalIsVoid, Refusals, None
<1>5. CASE Edit
  BY <1>5, EditStep DEF RefusalIsVoid, Refusals, None
<1>6. CASE HandleConfigWatch \/ DispatchConfigReload
  BY <1>6, WatchStep DEF RefusalIsVoid, Refusals, None
<1>7. CASE HostComesOrGoes \/ HostReads
  BY <1>7, HostStep DEF RefusalIsVoid, Refusals, None
<1>8. CASE UNCHANGED vars
  <2>1. World' = World
    BY <1>8 DEF vars, World
  <2>2. app' = app
    BY <1>8 DEF vars
  <2>3. Goes(app, app')
    BY <2>2 DEF Goes, Steered
  <2> QED
    BY <1>8, <2>1, <2>3 DEF IInv
<1> QED
  BY <1>1, <1>2, <1>3, <1>4, <1>5, <1>6, <1>7, <1>8 DEF Next

(***************************************************************************)
(* The theorems.                                                           *)
(***************************************************************************)
(* The inductive invariant holds of every reachable state: registry,       *)
(* snapshot, subscribers, tray and host agree while the loop runs, and are *)
(* as the start expects them when it does not.                             *)
THEOREM Invariance == Spec => []IInv
<1>1. Init => IInv
  BY Initially
<1>2. IInv /\ [Next]_vars => IInv'
  BY Step
<1> QED
  BY <1>1, <1>2, PTL DEF Spec

(* Every variable holds what its part of the program can hold; no engine   *)
(* is in the registry twice, and the slots hold loaded engines.            *)
THEOREM TypeCorrect == Spec => []TypeOK
<1>1. ASSUME IInv
      PROVE  TypeOK
  <2>1. /\ Registry(reg) /\ Configured(World) /\ TrayTyped(World)
        /\ app.alive \subseteq {"controller", "service", "bus", "tray"}
        /\ app.listeners \subseteq {"service", "bus", "tray"}
        /\ app.phase \in {"down", "exec", "starting", "running", "leaving"}
    BY <1>1, WorldIs DEF IInv, Ok, Served, Starting, Over, Up, Base, Wired
  <2>2. Cardinality(In(reg.loaded)) = Len(reg.loaded)
    <3>1. reg.loaded \in Seq(Name) /\ Distinct(reg.loaded)
      BY <2>1 DEF Registry
    <3>2. Len(reg.loaded) \in Nat /\ DOMAIN reg.loaded = 1..Len(reg.loaded)
      BY <3>1
    <3>3. IsFiniteSet(DOMAIN reg.loaded) /\ Cardinality(DOMAIN reg.loaded) = Len(reg.loaded)
      BY <3>2, FS_Interval
    <3> DEFINE places == DOMAIN reg.loaded
               names == In(reg.loaded)
               f == [i \in places |-> reg.loaded[i]]
    <3>4. f \in Bijection(places, names)
      BY <3>1 DEF Bijection, Injection, Surjection, IsInjective, Distinct, In
    <3>5. Cardinality(places) = Cardinality(names)
      <4> HIDE DEF places, names, f
      <4>1. ExistsBijection(places, names)
        BY <3>4 DEF ExistsBijection
      <4>2. IsFiniteSet(places)
        BY <3>3 DEF places
      <4> QED
        BY <4>1, <4>2, FS_Bijection
    <3> QED
      BY <3>3, <3>5
  <2>3. {reg.kb, reg.voice} \ {None} \subseteq In(reg.loaded)
    BY <2>1 DEF Registry, Slot
  <2>4. reg.lang \in {None} \cup In(Language)
    BY <2>1 DEF Registry
  <2>5. /\ conf.mem \subseteq Setting /\ conf.disk \in (SUBSET Setting) \cup {Garbled} /\ conf.unsaved \in BOOLEAN
        /\ tray.status \in {"Passive", "Active"} /\ news \subseteq Signals
    BY <2>1, WorldIs DEF Configured, TrayTyped
  <2> QED
    BY <2>1, <2>2, <2>3, <2>4, <2>5 DEF TypeOK, In
<1> QED
  BY <1>1, Invariance, PTL

(* Between two callbacks of the loop the controller's snapshot is the      *)
(* registry, whatever switched it.                                         *)
THEOREM SnapshotStaysTrue == Spec => []SnapshotIsRegistry
<1>1. ASSUME IInv
      PROVE  SnapshotIsRegistry
  BY <1>1, InPhase, WorldIs DEF SnapshotIsRegistry, Running, Served, Agree, SnapshotIs
<1> QED
  BY <1>1, Invariance, PTL

(* The last notification on each topic of the control bus is what is so.   *)
THEOREM SubscribersStayInformed == Spec => []SubscribersKnow
<1>1. ASSUME IInv
      PROVE  SubscribersKnow
  <2> SUFFICES ASSUME app.phase = "running", "bus" \in app.alive
               PROVE  told.engine = EnginePayload(World) /\ told.language[1] = reg.lang /\ told.status = ctl.mode
    BY DEF SubscribersKnow, Running
  <2>1. Wired(World) /\ Told(World)
    BY <1>1, InPhase DEF Served, Up, Base, Agree
  <2> QED
    BY <2>1, WorldIs DEF Wired, Told
<1> QED
  BY <1>1, Invariance, PTL

(* The tray item is drawn from the snapshot as it is now, but for a badge  *)
(* that cannot be drawn and the status of a language without a keyboard    *)
(* engine.                                                                 *)
THEOREM TrayStaysTrue == Spec => []TrayShowsState
<1>1. ASSUME IInv
      PROVE  TrayShowsState
  <2> SUFFICES ASSUME app.phase = "running", "tray" \in app.alive
               PROVE  /\ tray.engine = ctl.engine /\ (tray.overlay = None <=> ctl.voice = None)
                      /\ tray.tip = [lang |-> ctl.lang, engine |-> ctl.engine, voice |-> ctl.voice, mode |-> ctl.mode]
                      /\ ctl.badge \in Renders => tray.badge = ctl.badge
                      /\ ctl.badge = None => /\ tray.badge = None
                                             /\ tray.icon = IF ctl.icon = NoIcon THEN On ELSE ctl.icon
                      /\ ctl.active \/ ctl.lang = None => tray.status = IF ctl.active THEN "Active" ELSE "Passive"
    BY DEF TrayShowsState, Running
  <2>1. Wired(World) /\ TrayIs(World)
    BY <1>1, InPhase DEF Served, Up, Base, Agree
  <2> QED
    BY <2>1, WorldIs DEF Wired, TrayIs, IconIs, BarIs, Tip
<1> QED
  BY <1>1, Invariance, PTL

(* No badge of a language outlives the switch to another.                  *)
THEOREM BadgeFollowsLanguage == Spec => []BadgeIsOfLanguage
<1>1. ASSUME IInv
      PROVE  BadgeIsOfLanguage
  BY <1>1, InPhase, WorldIs DEF BadgeIsOfLanguage, Running, Served, Agree, BadgeIs
<1> QED
  BY <1>1, Invariance, PTL

(* What a host shows is the item as it is, or a signal is on its way.      *)
THEOREM HostStaysCurrent == Spec => []HostIsCurrent
<1>1. ASSUME IInv
      PROVE  HostIsCurrent
  <2> SUFFICES ASSUME app.phase = "running", host.knows
               PROVE  /\ Shown(host, Signals \ (news \cup {"LayoutUpdated"})) = host
                      /\ "LayoutUpdated" \notin news =>
                            host.menu.kb = tray.engine /\ host.menu.lang = reg.lang /\ host.menu.voice = reg.voice
    BY DEF HostIsCurrent, Running
  <2>1. HostShows(World) /\ MenuIs(World) /\ Shaped(World)
    BY <1>1, InPhase, WorldIs DEF Served, Up, Base, HostKnows
  <2>2. /\ "LayoutUpdated" \notin news =>
              host.menu.kb = tray.engine /\ host.menu.lang = reg.lang /\ host.menu.voice = reg.voice
    BY <2>1, WorldIs DEF HostShows, MenuIs
  <2> DEFINE sigs == Signals \ (news \cup {"LayoutUpdated"})
             shown == Shown(host, sigs)
             fields == {"there", "knows", "icon", "badge", "status", "overlay", "tip", "menu"}
  <2>3. Record(host, fields)
    BY <2>1, WorldIs DEF Shaped
  <2>4. /\ Record(shown, fields) /\ shown.there = host.there /\ shown.knows = host.knows
        /\ shown.icon = IF "NewIcon" \in sigs THEN (IF tray.badge # None THEN NoIcon ELSE tray.icon) ELSE host.icon
        /\ shown.badge = IF "NewIcon" \in sigs THEN tray.badge ELSE host.badge
        /\ shown.status = IF "NewStatus" \in sigs THEN tray.status ELSE host.status
        /\ shown.overlay = IF "NewOverlayIcon" \in sigs THEN tray.overlay ELSE host.overlay
        /\ shown.tip = IF "NewToolTip" \in sigs THEN tray.tip ELSE host.tip
        /\ shown.menu = IF "LayoutUpdated" \in sigs THEN Layout(World) ELSE host.menu
    <3> HIDE DEF sigs
    <3> QED
      BY <2>3, ZenonT(60) DEF Shown, Record
  <2>5. \A sig : sig \in sigs => sig \notin news /\ sig # "LayoutUpdated"
    OBVIOUS
  <2> HIDE DEF sigs, shown
  <2>6. /\ shown.icon = host.icon /\ shown.badge = host.badge /\ shown.status = host.status
        /\ shown.overlay = host.overlay /\ shown.tip = host.tip /\ shown.menu = host.menu
    BY <2>1, <2>4, <2>5, WorldIs DEF HostShows
  <2>7. shown = host
    <3>1. /\ Record(shown, fields) /\ Record(host, fields)
          /\ \A f \in fields : shown[f] = host[f]
      BY <2>3, <2>4, <2>6
    <3> HIDE DEF fields
    <3> QED
      BY <3>1 DEF Record
  <2> QED
    BY <2>2, <2>7 DEF shown, sigs
<1> QED
  BY <1>1, Invariance, PTL

(* No listener is called after its object is gone.                         *)
THEOREM NoDeadListener == Spec => []NotifiedAreAlive
<1>1. ASSUME IInv
      PROVE  NotifiedAreAlive
  BY <1>1, WorldIs DEF NotifiedAreAlive, IInv, Ok, Served, Starting, Over, Up, Base, Wired
<1> QED
  BY <1>1, Invariance, PTL

(* What the file says is in use, or a reload is coming, or a setting could *)
(* not be written.                                                         *)
THEOREM FileIsInUse == Spec => []ConfigIsCurrent
<1>1. ASSUME IInv
      PROVE  ConfigIsCurrent
  BY <1>1, InPhase, WorldIs DEF ConfigIsCurrent, Running, Served, Up, Configured
<1> QED
  BY <1>1, Invariance, PTL

(* A request answered with a refusal or an error left registry,            *)
(* configuration, snapshot, tray and subscribers as they were.             *)
THEOREM RefusalsAreVoid == Spec => RefusedChangesNothing
<1>1. ASSUME IInv, [Next]_vars
      PROVE  [reply' \in {"invalid params", "internal error", "method not found"}
                 => UNCHANGED <<reg, conf, ctl, tray, told, app>>]_vars
  BY <1>1, Step DEF RefusalIsVoid, Refusals
<1> QED
  BY <1>1, Invariance, PTL DEF Spec, RefusedChangesNothing

(* An order to restart comes with the order to stop.                       *)
Obeys == app.phase \in {"starting", "running"} /\ app.restart => app.stop

(* A loop that is to restart the process has been told to stop.            *)
LEMMA OrdersStopTheLoop == Spec => []Obeys
<1>1. Init => Obeys
  BY DEF Init, NewApp, Obeys
<1>2. ASSUME IInv, Obeys, [Next]_vars
      PROVE  Obeys'
  <2>1. Goes(app, app')
    BY <1>2, Step
  <2> QED
    BY <1>2, <2>1 DEF Goes, Steered, Begins, Opens, Leaves, Ends, Obeys
<1> QED
  BY <1>1, <1>2, Invariance, PTL DEF Spec

(* From the order, over the way out, to the end.                           *)
Ordered == Running /\ app.restart
Ending == app.phase = "leaving" /\ app.restart /\ app.code = 0
Settled == app.phase = "exec" \/ app.code = 1
(* An order to restart, given while the loop runs, is followed: the loop   *)
(* sees its flag, the process ends, and then it is replaced, or ends with  *)
(* a failure.                                                              *)
THEOREM RestartsAreCarriedOut == Spec => RestartIsCarriedOut
<1>1. Ordered /\ IInv /\ [Next]_vars => Ordered' \/ Ending' \/ Settled'
  <2> SUFFICES ASSUME Ordered, IInv, [Next]_vars
               PROVE  Ordered' \/ Ending' \/ Settled'
    OBVIOUS
  <2>1. Goes(app, app')
    BY Step
  <2> QED
    BY <2>1 DEF Goes, Steered, Begins, Opens, Leaves, Ends, Ordered, Ending, Settled, Running
<1>2. Ordered /\ IInv /\ <<app.stop /\ Leave>>_vars => Ending' \/ Settled'
  <2> SUFFICES ASSUME Ordered, IInv, Leave
               PROVE  Ending' \/ Settled'
    OBVIOUS
  <2>1. Goes(app, app')
    BY Step DEF Next
  <2>2. app'.phase = "leaving"
    BY LeaveOrFinish
  <2> QED
    BY <2>1, <2>2 DEF Goes, Steered, Begins, Opens, Leaves, Ends, Ordered, Ending, Settled, Running
<1>3. Ordered /\ Obeys => Running /\ app.stop
  BY DEF Ordered, Obeys, Running
<1>4. Ending /\ IInv /\ [Next]_vars => Ending' \/ Settled'
  <2> SUFFICES ASSUME Ending, IInv, [Next]_vars
               PROVE  Ending' \/ Settled'
    OBVIOUS
  <2>1. Goes(app, app')
    BY Step
  <2> QED
    BY <2>1 DEF Goes, Steered, Begins, Opens, Leaves, Ends, Ending, Settled
<1>5. Ending /\ IInv /\ <<Finish>>_vars => Settled'
  <2> SUFFICES ASSUME Ending, IInv, Finish
               PROVE  Settled'
    OBVIOUS
  <2>1. Goes(app, app')
    BY Step DEF Next
  <2>2. app'.phase # "leaving"
    BY LeaveOrFinish
  <2> QED
    BY <2>1, <2>2 DEF Goes, Steered, Begins, Opens, Leaves, Ends, Ending, Settled
<1>6. Ending => app.phase = "leaving"
  BY DEF Ending
<1>7. RestartIsCarriedOut <=> (Ordered ~> Settled)
  BY DEF RestartIsCarriedOut, Ordered, Settled
<1> QED
  BY <1>1, <1>2, <1>3, <1>4, <1>5, <1>6, <1>7, Invariance, OrdersStopTheLoop, PTL DEF Spec, Fair
=============================================================================

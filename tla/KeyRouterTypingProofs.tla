------------------------- MODULE KeyRouterTypingProofs -------------------------
(***************************************************************************)
(* Theorems about KeyRouter under ordinary typing, for any keys and        *)
(* bindings: no key is stuck in the application, only a held key repeats,  *)
(* and a key taken while the engine was not ready stays quiet.  None of    *)
(* them holds of all traffic.                                              *)
(***************************************************************************)
EXTENDS KeyRouterProofs, FiniteSetTheorems

(* Ordinary typing: the engine, the grab and the keymap may come and go,   *)
(* but a field is entered with no key down in the application, no key is   *)
(* struck twice within a chord, no modifier while a plain key is down, and *)
(* the candidate guard reserves none.  The buffer has room for a press of  *)
(* each key of a chord and a release of each modifier.                     *)
Ordinary ==
    /\ Traffic \subseteq {"unready", "reset", "layout"} /\ NavKey = {}
    /\ IsFiniteSet(ModifierKey)
    /\ MaxBuffered >= Cardinality(CtrlKey \cup ShiftKey) + Cardinality(ModifierKey)

-----------------------------------------------------------------------------
(* Queues of events.                                                       *)

(* A key whose press waits is held, or its release waits behind it. *)
Covered(events, keys) ==
    \A i \in DOMAIN events : events[i].press =>
        \/ events[i].key \in keys
        \/ \E j \in DOMAIN events : j > i /\ ~events[j].press /\ events[j].key = events[i].key

PlainLast(events) ==
    \A i \in DOMAIN events : events[i].press /\ events[i].key \notin ModifierKey => i = Len(events)

(* What the arbiter buffers: presses of the chord's keys and releases of   *)
(* modifiers, each once, a release of a key that is no longer held.        *)
Distinct(events, keys) ==
    /\ \A i \in DOMAIN events :
          /\ events[i].key \in ModifierKey
          /\ events[i].press => events[i].key \in CtrlKey \cup ShiftKey
          /\ ~events[i].press => events[i].key \notin keys
    /\ \A i, j \in DOMAIN events :
          events[i].key = events[j].key /\ events[i].press = events[j].press => i = j

(* The keys held after an event. *)
After(e, keys) == IF e.press THEN keys \cup {e.key} ELSE keys \ {e.key}

(* A queue that agrees with the fingers agrees with them after the appended*)
(* event.                                                                  *)
LEMMA AppendCovered ==
    ASSUME NEW s \in Seq(Event), NEW e \in Event, NEW t, t = Append(s, e), NEW keys, Covered(s, keys)
    PROVE  Covered(t, After(e, keys))
  <1> DEFINE n == Len(s) + 1
  <1>1. /\ n \in DOMAIN t /\ t[n] = e
        /\ \A i \in DOMAIN s : t[i] = s[i] /\ i \in DOMAIN t /\ n > i
        /\ \A i \in DOMAIN t : i \in DOMAIN s \/ i = n
    BY AppendFacts
  <1> HIDE DEF n
  <1>2. SUFFICES ASSUME NEW i \in DOMAIN t, t[i].press, t[i].key \notin After(e, keys)
                 PROVE  \E j \in DOMAIN t : j > i /\ ~t[j].press /\ t[j].key = t[i].key
    BY DEF Covered
  <1>3. i \in DOMAIN s /\ t[i] = s[i]
    BY <1>1, <1>2 DEF After
  <1>4. CASE s[i].key \in keys
    BY <1>1, <1>2, <1>3, <1>4 DEF After
  <1>5. CASE s[i].key \notin keys
    BY <1>1, <1>2, <1>3, <1>5 DEF Covered
  <1>6. QED
    BY <1>4, <1>5

(* Chord keys appended once each stay distinct in the queue, so that the   *)
(* buffer has room for them.                                               *)
LEMMA AppendDistinct ==
    ASSUME NEW s \in Seq(Event), NEW e \in Event, NEW t, t = Append(s, e), NEW keys, Distinct(s, keys),
           e.key \in ModifierKey,
           e.press => e.key \in CtrlKey \cup ShiftKey /\ \A i \in DOMAIN s : s[i].key # e.key,
           ~e.press => e.key \in keys
    PROVE  Distinct(t, After(e, keys))
  <1> DEFINE n == Len(s) + 1
  <1>1. /\ n \in DOMAIN t /\ t[n] = e
        /\ \A i \in DOMAIN s : t[i] = s[i] /\ i \in DOMAIN t
        /\ \A i \in DOMAIN t : i \in DOMAIN s \/ i = n
        /\ s \in Seq(Event) /\ t \in Seq(Event)
    BY AppendFacts
  <1> HIDE DEF n
  <1>2. ASSUME NEW i \in DOMAIN s
        PROVE  ~(s[i].key = e.key /\ s[i].press = e.press)
    BY <1>2, e.press \in BOOLEAN DEF Distinct, Event
  <1>3. ASSUME NEW i \in DOMAIN t
        PROVE  /\ t[i].key \in ModifierKey
               /\ t[i].press => t[i].key \in CtrlKey \cup ShiftKey
               /\ ~t[i].press => t[i].key \notin After(e, keys)
    BY <1>1 DEF Distinct, After
  <1>4. ASSUME NEW i \in DOMAIN t, NEW j \in DOMAIN t, t[i].key = t[j].key, t[i].press = t[j].press
        PROVE  i = j
    BY <1>1, <1>2, <1>4 DEF Distinct
  <1>5. QED
    BY <1>3, <1>4 DEF Distinct

(* Of distinct events there are no more than keys to press and to release. *)
LEMMA DistinctFits ==
    ASSUME Ordinary, NEW s \in Seq(Event), NEW keys, Distinct(s, keys)
    PROVE  Len(s) <= MaxBuffered
  <1> DEFINE C == CtrlKey \cup ShiftKey
             D == 1 .. Len(s)
             P == {i \in D : s[i].press}
             R == {i \in D : ~s[i].press}
  <1>1. Len(s) \in Nat /\ DOMAIN s = D
    OBVIOUS
  <1>2. IsFiniteSet(D) /\ Cardinality(D) = Len(s)
    BY <1>1, FS_Interval, SMTT(60)
  <1>3. IsFiniteSet(P) /\ IsFiniteSet(R) /\ P \cup R = D /\ P \cap R = {}
    BY <1>2, FS_Subset
  <1>4. Cardinality(P) \in Nat /\ Cardinality(R) \in Nat
    BY <1>3, FS_CardinalityType
  <1>5. Len(s) = Cardinality(P) + Cardinality(R)
    <2> HIDE DEF P, R, D
    <2>1. Cardinality(P \cup R) = Cardinality(P) + Cardinality(R) - Cardinality(P \cap R)
      BY <1>3, FS_Union
    <2>2. Cardinality(P \cap R) = 0
      BY <1>3, FS_EmptySet
    <2>3. Cardinality(P \cup R) = Len(s)
      BY <1>2, <1>3
    <2>4. QED
      BY <1>4, <2>1, <2>2, <2>3
  <1>6. /\ IsFiniteSet(ModifierKey) /\ IsFiniteSet(C)
        /\ Cardinality(ModifierKey) \in Nat /\ Cardinality(C) \in Nat
    BY FS_Subset, FS_CardinalityType DEF Ordinary, ModifierKey
  <1>7. Cardinality(P) <= Cardinality(C)
    <2> DEFINE f == [i \in P |-> s[i].key]
    <2>1. f \in [P -> C] /\ \A i, j \in P : f[i] = f[j] => i = j
      BY <1>1 DEF Distinct
    <2> HIDE DEF f, P, C
    <2>2. ~(Cardinality(C) < Cardinality(P))
      BY <1>3, <1>6, <2>1, FS_PigeonHole
    <2>3. QED
      BY <1>4, <1>6, <2>2
  <1>8. Cardinality(R) <= Cardinality(ModifierKey)
    <2> DEFINE f == [i \in R |-> s[i].key]
    <2>1. ASSUME NEW i \in D
          PROVE  s[i].press \in BOOLEAN
      <3>1. s[i] \in Event
        BY ElementOfSeq
      <3>2. QED
        BY <3>1 DEF Event
    <2>2. f \in [R -> ModifierKey] /\ \A i, j \in R : f[i] = f[j] => i = j
      BY <1>1, <2>1 DEF Distinct
    <2> HIDE DEF f, R
    <2>3. ~(Cardinality(ModifierKey) < Cardinality(R))
      BY <1>3, <1>6, <2>2, FS_PigeonHole
    <2>4. QED
      BY <1>4, <1>6, <2>3
  <1> HIDE DEF C, P, R
  <1>9. QED
    BY <1>4, <1>5, <1>6, <1>7, <1>8, BufferAssumption DEF Ordinary, C

(* The loop's queue when its first event is taken. *)
LEMMA DequeueQueue ==
    ASSUME NEW s \in Seq(Event), s # <<>>, NEW e, e = Head(s), NEW t, t = Tail(s),
           NEW keys, Covered(s, keys), PlainLast(s)
    PROVE  /\ t \in Seq(Event) /\ Covered(t, keys) /\ PlainLast(t)
           /\ e.press => e.key \in keys \/ Pending(t, e.key)
           /\ e.press /\ e.key \notin ModifierKey => t = <<>>
           /\ \A j : Pending(s, j) => Pending(t, j) \/ (~e.press /\ e.key = j)
  <1> DEFINE n == Len(s)
  <1>1. /\ n \in Nat \ {0} /\ DOMAIN s = 1 .. n /\ e = s[1] /\ t \in Seq(Event) /\ Len(t) = n - 1
        /\ DOMAIN t = 1 .. n - 1 /\ \A i \in DOMAIN t : t[i] = s[i + 1]
    BY HeadTailProperties, EmptySeq
  <1> HIDE DEF n
  <1>2. \A i \in 2 .. n : i - 1 \in DOMAIN t /\ t[i - 1] = s[i]
    BY <1>1
  <1>3. Covered(t, keys)
    <2>1. SUFFICES ASSUME NEW i \in DOMAIN t, t[i].press, t[i].key \notin keys
                   PROVE  \E j \in DOMAIN t : j > i /\ ~t[j].press /\ t[j].key = t[i].key
      BY DEF Covered
    <2>2. i + 1 \in DOMAIN s /\ s[i + 1] = t[i] /\ i \in Nat
      BY <1>1
    <2>3. PICK j \in DOMAIN s : j > i + 1 /\ ~s[j].press /\ s[j].key = t[i].key
      BY <2>1, <2>2 DEF Covered
    <2>4. j - 1 \in DOMAIN t /\ j - 1 > i /\ t[j - 1] = s[j]
      BY <1>1, <1>2, <2>2, <2>3
    <2>5. QED
      BY <2>3, <2>4
  <1>4. PlainLast(t)
    <2>1. SUFFICES ASSUME NEW i \in DOMAIN t, t[i].press, t[i].key \notin ModifierKey
                   PROVE  i = Len(t)
      BY DEF PlainLast
    <2>2. i + 1 \in DOMAIN s /\ s[i + 1] = t[i]
      BY <1>1
    <2>3. i + 1 = Len(s)
      BY <2>1, <2>2 DEF PlainLast
    <2>4. QED
      BY <1>1, <2>3 DEF n
  <1>5. ASSUME NEW j, Pending(s, j)
        PROVE  Pending(t, j) \/ (~e.press /\ e.key = j)
    <2>1. PICK i \in DOMAIN s : ~s[i].press /\ s[i].key = j
      BY <1>5 DEF Pending
    <2>2. CASE i = 1
      BY <1>1, <2>1, <2>2
    <2>3. CASE i # 1
      <3>1. i - 1 \in DOMAIN t /\ t[i - 1] = s[i]
        BY <1>1, <1>2, <2>1, <2>3
      <3>2. QED
        BY <2>1, <3>1 DEF Pending
    <2>4. QED
      BY <2>2, <2>3
  <1>6. e.press => e.key \in keys \/ Pending(t, e.key)
    <2>1. SUFFICES ASSUME e.press, e.key \notin keys
                   PROVE  Pending(t, e.key)
      OBVIOUS
    <2>2. 1 \in DOMAIN s
      BY <1>1
    <2>3. Pending(s, e.key)
      BY <1>1, <2>1, <2>2 DEF Covered, Pending
    <2>4. QED
      BY <1>5, <2>1, <2>3
  <1>7. e.press /\ e.key \notin ModifierKey => t = <<>>
    <2>1. SUFFICES ASSUME e.press, e.key \notin ModifierKey
                   PROVE  t = <<>>
      OBVIOUS
    <2>2. 1 = n
      BY <1>1, <2>1 DEF PlainLast, n
    <2>3. QED
      BY <1>1, <2>2, EmptySeq
  <1>8. QED
    BY <1>1, <1>3, <1>4, <1>5, <1>6, <1>7

-----------------------------------------------------------------------------
(* A focused, ready grab, and the keys the user holds: what is down in the *)
(* application is tracked and will be released, what repeats is held, and  *)
(* the arbiter holds back nothing but a chord.                             *)
GivenAway(f) ==
    /\ f.down \subseteq ForwardedKeys(f)
    /\ \A k \in Key : f.track[k] = "APP_SHORTCUT" => k \notin ModifierKey

Awaited(f, k, keys) == k \in keys \/ Pending(f.buffer, k) \/ Pending(f.todo, k)

Repeating(f, keys) ==
    f.repeat # NoKey =>
        /\ f.repeat \notin ModifierKey /\ f.track[f.repeat] # "ENGINE_NOT_READY"
        /\ ~Presses(f.todo, f.repeat) /\ Awaited(f, f.repeat, keys)

Arbitrating(f, keys) ==
    /\ Buffering(f) => keys \cap PlainKey = {}
    /\ Covered(f.buffer, keys) /\ Distinct(f.buffer, keys)

Live(f, keys) ==
    /\ GivenAway(f) /\ \A k \in f.down : Awaited(f, k, keys)
    /\ Repeating(f, keys) /\ Arbitrating(f, keys)
    /\ Covered(f.todo, keys) /\ PlainLast(f.todo)

(* The empty queue agrees with any fingers. *)
LEMMA EmptyQueue ==
    ASSUME NEW keys
    PROVE  /\ Covered(<<>>, keys) /\ PlainLast(<<>>) /\ Distinct(<<>>, keys)
           /\ \A k : ~Pending(<<>>, k) /\ ~Presses(<<>>, k)
  BY DEF Covered, PlainLast, Distinct, Pending, Presses

(* A blank keyboard with nothing down in the application owes no release. *)
LEMMA BlankLive ==
    ASSUME NEW f \in Host, Blank(f), f.down = {}, NEW keys
    PROVE  Live(f, keys)
  BY EmptyQueue
  DEF Blank, Live, GivenAway, Awaited, Repeating, Arbitrating, Buffering

(* Stopping the repeat owes no release. *)
LEMMA SameLive ==
    ASSUME NEW f, NEW g, NEW keys, Live(f, keys), g.down = f.down, g.track = f.track,
           g.buffer = f.buffer, g.todo = f.todo, g.repeat \in {f.repeat, NoKey}
    PROVE  Live(g, keys)
  BY DEF Live, GivenAway, Awaited, Repeating, Arbitrating, Buffering, ForwardedKeys

(* A key is plain or a modifier. *)
LEMMA PlainOrModifier == \A k \in Key : k \in PlainKey <=> k \notin ModifierKey
  BY KeyAssumption DEF Key

(* The modifiers of a chord are Ctrl and Shift keys. *)
LEMMA ChordKey == \A k \in Key : ModOf(k) \cap Chord # {} => k \in CtrlKey \cup ShiftKey /\ k \in ModifierKey
  BY DEF ModOf, Chord, ModifierKey

(* Nothing in the arbiter's buffer is of a plain key. *)
LEMMA PendingModifier ==
    ASSUME NEW s, NEW keys, Distinct(s, keys), NEW k, Pending(s, k) \/ Presses(s, k)
    PROVE  k \in ModifierKey
  BY DEF Distinct, Pending, Presses

-----------------------------------------------------------------------------
(* The arbiter. *)

LEMMA PassLive ==
    ASSUME NEW f, Receptive(f), NEW keys, Live(f, keys), NEW e \in Event, NEW g, g = Pass(f, e),
           e.press => e.key \notin keys
    PROVE  Live(g, After(e, keys))
  <1> DEFINE next == After(e, keys)
  <1>1. f \in Host /\ f.buffer \in Seq(Event) /\ f.todo = <<>> /\ e.press \in BOOLEAN
    BY DEF Receptive, Steady, Host, Event
  <1>2. /\ g.buffer = <<>> /\ g.todo = Append(f.buffer, e) /\ g.track = f.track /\ g.down = f.down
        /\ g.repeat = f.repeat
    BY <1>1, PassFields, ZenonT(60) DEF SameKeys
  <1>3. Covered(f.buffer, keys) /\ Distinct(f.buffer, keys) /\ GivenAway(f) /\ Repeating(f, keys)
    BY DEF Live, Arbitrating
  <1>4. \A k : ~Pending(f.todo, k) /\ ~Pending(g.buffer, k)
    BY <1>1, <1>2, EmptyQueue
  <1>5. ASSUME NEW k, Awaited(f, k, keys)
        PROVE  Awaited(g, k, next)
    <2>1. Pending(g.todo, k) <=> Pending(f.buffer, k) \/ (~e.press /\ e.key = k)
      BY <1>1, <1>2, AppendPending
    <2>2. k \in keys => k \in next \/ (~e.press /\ e.key = k)
      BY DEF After
    <2>3. QED
      BY <1>4, <1>5, <2>1, <2>2 DEF Awaited
  <1>6. GivenAway(g) /\ \A k \in g.down : Awaited(g, k, next)
    BY <1>2, <1>5 DEF Live, GivenAway, ForwardedKeys
  <1>7. Repeating(g, next)
    <2>1. SUFFICES ASSUME g.repeat # NoKey
                   PROVE  /\ g.repeat \notin ModifierKey /\ g.track[g.repeat] # "ENGINE_NOT_READY"
                          /\ ~Presses(g.todo, g.repeat) /\ Awaited(g, g.repeat, next)
      BY DEF Repeating
    <2>2. /\ g.repeat \notin ModifierKey /\ g.track[g.repeat] # "ENGINE_NOT_READY"
          /\ Awaited(f, g.repeat, keys)
      BY <1>2, <1>3, <2>1 DEF Repeating
    <2>3. g.repeat \in keys
      BY <1>3, <1>4, <2>2, PendingModifier DEF Awaited
    <2>4. ~Presses(g.todo, g.repeat)
      BY <1>1, <1>2, <1>3, <2>2, <2>3, AppendPresses, PendingModifier
    <2>5. QED
      BY <1>5, <2>2, <2>4
  <1>8. Arbitrating(g, next)
    BY <1>2, EmptyQueue DEF Arbitrating, Buffering
  <1>9. Covered(g.todo, next)
    BY <1>1, <1>2, <1>3, AppendCovered
  <1>10. PlainLast(g.todo)
    <2> DEFINE n == Len(f.buffer) + 1
               t == g.todo
    <2>1. /\ Len(t) = n /\ \A i \in DOMAIN t : i \in DOMAIN f.buffer \/ i = n
          /\ \A i \in DOMAIN f.buffer : t[i] = f.buffer[i]
      BY <1>1, <1>2, AppendFacts
    <2> HIDE DEF n, t
    <2>2. QED
      BY <1>3, <2>1 DEF PlainLast, Distinct, t
  <1> HIDE DEF next
  <1>11. QED
    BY <1>6, <1>7, <1>8, <1>9, <1>10 DEF Live, next

(* Within its room, the buffer loses no event, so every key down still has *)
(* its release to come.                                                    *)
LEMMA PushLive ==
    ASSUME Ordinary, NEW f, Receptive(f), NEW keys, Live(f, keys), NEW e \in Event,
           NEW g, g = BufferPush(f, e), keys \cap PlainKey = {}, e.key \in ModifierKey,
           e.press => /\ e.key \in CtrlKey \cup ShiftKey /\ e.key \notin keys
                      /\ \A i \in DOMAIN f.buffer : f.buffer[i].key # e.key,
           ~e.press => e.key \in keys
    PROVE  Live(g, After(e, keys)) /\ Receptive(g) /\ SameKeys(f, g)
  <1> DEFINE next == After(e, keys)
             t == Append(f.buffer, e)
  <1>1. f \in Host /\ f.buffer \in Seq(Event) /\ f.todo = <<>> /\ e.press \in BOOLEAN
    BY DEF Receptive, Steady, Host, Event
  <1>2. Covered(f.buffer, keys) /\ Distinct(f.buffer, keys) /\ GivenAway(f) /\ Repeating(f, keys)
    BY DEF Live, Arbitrating
  <1>3. t \in Seq(Event) /\ Covered(t, next) /\ Distinct(t, next)
    BY <1>1, <1>2, AppendFacts, AppendCovered, AppendDistinct
  <1>4. Len(f.buffer) < MaxBuffered
    <2>1. Len(t) = Len(f.buffer) + 1 /\ Len(f.buffer) \in Nat
      BY <1>1, AppendFacts
    <2> HIDE DEF t, next
    <2>2. Len(t) <= MaxBuffered
      BY <1>3, DistinctFits
    <2>3. QED
      BY <2>1, <2>2, BufferAssumption
  <1>5. /\ Receptive(g) /\ SameKeys(f, g) /\ g.track = f.track /\ g.down = f.down
        /\ g.buffer = t /\ g.todo = <<>> /\ g.repeat = f.repeat
    <2>1. /\ Receptive(g) /\ SameKeys(f, g) /\ g.track = f.track /\ g.down = f.down
          /\ g.buffer = IF Len(f.buffer) < MaxBuffered THEN t ELSE f.buffer
      BY BufferPushFacts
    <2>2. QED
      BY <1>4, <2>1 DEF Receptive, SameKeys
  <1>6. \A k : Pending(t, k) <=> Pending(f.buffer, k) \/ (~e.press /\ e.key = k)
    BY <1>1, AppendPending
  <1>7. \A k : ~Pending(<<>>, k) /\ ~Presses(<<>>, k)
    BY EmptyQueue
  <1> HIDE DEF t
  <1>8. ASSUME NEW k, Awaited(f, k, keys)
        PROVE  Awaited(g, k, next)
    BY <1>1, <1>5, <1>6, <1>7, <1>8 DEF Awaited, After
  <1>9. GivenAway(g) /\ \A k \in g.down : Awaited(g, k, next)
    BY <1>5, <1>8 DEF Live, GivenAway, ForwardedKeys
  <1>10. Repeating(g, next)
    BY <1>2, <1>5, <1>7, <1>8 DEF Repeating
  <1>11. Arbitrating(g, next)
    <2>1. next \cap PlainKey = {}
      BY KeyAssumption DEF After
    <2>2. QED
      BY <1>3, <1>5, <2>1 DEF Arbitrating
  <1>12. Covered(g.todo, next) /\ PlainLast(g.todo)
    BY <1>5, EmptyQueue
  <1> HIDE DEF next
  <1>13. QED
    BY <1>5, <1>9, <1>10, <1>11, <1>12 DEF Live, next

(* A completed chord releases the keys whose release it drops. *)
LEMMA ConsumeLive ==
    ASSUME NEW f, Receptive(f), NEW keys, Live(f, keys), NEW g, g = ArbiterConsume(f)
    PROVE  Live(g, keys)
  <1>1. /\ SameKeys(f, g) /\ g.buffer = <<>> /\ g.todo = <<>> /\ g.down = f.down \ Orphans(f)
        /\ \A j \in Key : g.track[j] = IF j \in Orphans(f) THEN "IDLE" ELSE f.track[j]
        /\ f \in Host /\ f.todo = <<>> /\ f.down \subseteq Key /\ f.repeat \in Key \cup {NoKey}
    BY ConsumeFacts DEF Receptive, Steady, Host
  <1>2. Distinct(f.buffer, keys) /\ GivenAway(f) /\ Repeating(f, keys)
    BY DEF Live, Arbitrating
  <1>3. \A k : ~Pending(<<>>, k) /\ ~Presses(<<>>, k)
    BY EmptyQueue
  <1>4. ASSUME NEW k \in g.down
        PROVE  k \in keys /\ k \in ForwardedKeys(g)
    <2>1. k \in Key /\ k \in f.down /\ k \notin Orphans(f) /\ g.track[k] = f.track[k]
      BY <1>1, <1>4
    <2>2. k \in ForwardedKeys(f) /\ (k \in ModifierKey => f.track[k] = "FORWARDED")
      BY <1>2, <2>1 DEF GivenAway, ForwardedKeys
    <2>3. ~Pending(f.buffer, k)
      BY <1>2, <2>1, <2>2, PendingModifier DEF Orphans, Pending
    <2>4. k \in keys
      BY <1>1, <1>3, <2>1, <2>3 DEF Live, Awaited
    <2>5. QED
      BY <2>1, <2>2, <2>4 DEF ForwardedKeys
  <1>5. GivenAway(g)
    BY <1>1, <1>2, <1>4 DEF GivenAway
  <1>6. Repeating(g, keys)
    <2>1. SUFFICES ASSUME f.repeat # NoKey
                   PROVE  Repeating(g, keys)
      BY <1>1 DEF SameKeys, Repeating
    <2>2. f.repeat \in keys
      BY <1>1, <1>2, <1>3, <2>1, PendingModifier DEF Repeating, Awaited
    <2>3. QED
      BY <1>1, <1>2, <1>3, <2>1, <2>2 DEF Repeating, Awaited, SameKeys
  <1>7. Arbitrating(g, keys) /\ Covered(g.todo, keys) /\ PlainLast(g.todo)
    BY <1>1, EmptyQueue DEF Arbitrating, Buffering
  <1>8. QED
    BY <1>4, <1>5, <1>6, <1>7 DEF Live, Awaited

(* A press through the arbiter leaves every key down with a release to     *)
(* come.                                                                   *)
LEMMA ArbiterPressLive ==
    ASSUME Ordinary, NEW f, Receptive(f), NEW keys, Live(f, keys), NEW e \in Event, e.press,
           NEW g, g = ArbiterPress(f, e), e.key \notin keys,
           \A i \in DOMAIN f.buffer : f.buffer[i].key # e.key,
           e.key \in ModifierKey => keys \cap PlainKey = {}
    PROVE  Live(g, After(e, keys))
  <1>1. \/ g = Pass(f, e)
        \/ g = BufferPush(f, e) /\ ModOf(e.key) \cap Chord # {}
    BY DEF ArbiterPress, StartsBuffering
  <1>2. e.key \in Key
    BY DEF Event
  <1>3. QED
    BY <1>1, <1>2, ChordKey, PassLive, PushLive

(* A release through the arbiter is kept, replayed or consumed with the    *)
(* presses of its chord.                                                   *)
LEMMA ArbiterReleaseLive ==
    ASSUME Ordinary, NEW f, Receptive(f), NEW keys, Live(f, keys), NEW e \in Event, ~e.press,
           NEW g, g = ArbiterRelease(f, e), e.key \in keys
    PROVE  Live(g, After(e, keys))
  <1> DEFINE push == BufferPush(f, e)
  <1>1. \/ g = Pass(f, e)
        \/ Buffering(f) /\ g \in {push, ArbiterConsume(push)}
    BY DEF ArbiterRelease
  <1>2. CASE g = Pass(f, e)
    BY <1>2, PassLive
  <1>3. CASE Buffering(f) /\ g \in {push, ArbiterConsume(push)}
    <2>1. keys \cap PlainKey = {} /\ e.key \in ModifierKey
      BY <1>3, PlainOrModifier DEF Live, Arbitrating, Event
    <2>2. Live(push, After(e, keys)) /\ Receptive(push)
      BY <2>1, PushLive
    <2> HIDE DEF push
    <2>3. QED
      BY <1>3, <2>2, ConsumeLive
  <1>4. QED
    BY <1>1, <1>2, <1>3

-----------------------------------------------------------------------------
(* The invariant of ordinary typing.  Outside a focused, ready grab what   *)
(* is down in the application is held; between the emergency exit and the  *)
(* end, what the arbiter held back is released with what is tracked.       *)
Typed ==
    /\ h.grab = "ready" /\ h.focus => Live(h, held)
    /\ ~h.focus \/ h.grab = "waiting" => h.down \subseteq held
    /\ h.grab = "released" =>
         \A k \in h.down : k \in held \/ (Pending(h.buffer, k) /\ k \in ForwardedKeys(h))
    /\ Grabbed => direct = {}
    /\ h.grab = "waiting" => h.down = {}
    /\ h.grab = "absent" => direct \subseteq h.down

TypingInv == IInv /\ Typed

(* A step within a focused, ready grab. *)
LEMMA LiveStep ==
    ASSUME h'.grab = "ready", h'.focus, Live(h', held'), direct' = {}
    PROVE  Typed'
  BY DEF Typed, Grabbed

(* A step that leaves the field, or the grab. *)
LEMMA HeldStep ==
    ASSUME Typed, ~h'.focus, h'.down \subseteq held', UNCHANGED direct, h'.grab # "released",
           \/ h'.grab \in {"absent", "dead"} /\ (h'.grab = "absent" => direct = {})
           \/ Grabbed /\ h'.grab = h.grab /\ (h'.grab = "waiting" => h'.down = {})
    PROVE  Typed'
  BY DEF Typed, Grabbed

(* Routing a press keeps every key down under a finger or under a release  *)
(* to come.                                                                *)
LEMMA RouteNextPressTyped == ASSUME Ordinary, TypingInv, RouteNextPress PROVE Typed'
  <1> DEFINE e == Head(h.todo)
             k == e.key
             t == Tail(h.todo)
             f == [h EXCEPT !.todo = Tail(@)]
  <1>1. /\ f \in Host /\ f.repeat = h.repeat /\ h.grab = "ready" /\ h.focus /\ f.grab = "ready" /\ f.focus
        /\ f.track = h.track /\ f.buffer = h.buffer /\ f.todo = t /\ f.down = h.down
        /\ e \in Event /\ e.press /\ k \in Key /\ h.todo \in Seq(Event) /\ h.todo # <<>>
        /\ h.down \subseteq Key /\ h.repeat \in Key \cup {NoKey}
    BY DequeueFacts, ZenonT(60) DEF TypingInv, IInv, Sound, Steady, Host, RouteNextPress, Idle, Event
  <1>2. Live(h, held) /\ direct = {} /\ UNCHANGED <<held, direct>>
    BY <1>1 DEF TypingInv, Typed, Grabbed, RouteNextPress
  <1>3. /\ Covered(t, held) /\ PlainLast(t) /\ (k \in held \/ Pending(t, k))
        /\ k \notin ModifierKey => t = <<>>
        /\ \A j : Pending(h.todo, j) => Pending(t, j)
    BY <1>1, <1>2, DequeueQueue, ZenonT(60) DEF Live
  <1>4. Presses(h.todo, k) /\ \A j : Presses(t, j) => Presses(h.todo, j)
    BY <1>1, HeadPresses, TailPresses
  <1>5. PICK a \in Answer, available \in BOOLEAN : h' = ProcessKeyPress(f, e, a, available)
    BY DEF RouteNextPress
  <1> HIDE DEF e, f, t
  <1>6. /\ Routed(f, h', k)
        /\ \/ h'.repeat = f.repeat
           \/ h'.repeat = k /\ k \notin ModifierKey /\ h'.track[k] # "ENGINE_NOT_READY"
        /\ Given(f, k) => h'.track = f.track /\ h'.down \in {f.down, f.down \cup {k}}
        /\ ~Given(f, k) =>
              \/ h'.track[k] \in {"VOICE_PTT", "VOICE_PTT_UNAVAIL", "ENGINE_NOT_READY"} /\ h'.down = f.down
              \/ h'.track[k] \in {"IDLE", f.track[k]} /\ h'.down = f.down
              \/ h'.track[k] = "FORWARDED" /\ h'.down = f.down \cup {k}
              \/ h'.track[k] = "APP_SHORTCUT" /\ k \notin ModifierKey /\ h'.down = f.down \cup {k}
    BY <1>1, <1>5, ProcessKeyPressFacts
  <1>7. /\ h'.grab = "ready" /\ h'.focus /\ h'.buffer = h.buffer /\ h'.todo = t
        /\ \A j \in Key \ {k} : h'.track[j] = h.track[j] /\ (j \in h'.down <=> j \in h.down)
    BY <1>1, <1>6 DEF Routed, Near, SameGrab, Elsewhere
  <1>8. ASSUME NEW j, Awaited(h, j, held)
        PROVE  Awaited(h', j, held)
    BY <1>3, <1>7, <1>8 DEF Awaited
  <1>9. Awaited(h', k, held)
    BY <1>3, <1>7 DEF Awaited
  <1>10. ASSUME NEW j \in h'.down
         PROVE  j \in ForwardedKeys(h') /\ Awaited(h', j, held)
    <2>1. j \in Key
      BY <1>1, <1>6, <1>10 DEF Routed, Near, Host
    <2>2. CASE j # k
      BY <1>2, <1>7, <1>8, <1>10, <2>1, <2>2 DEF Live, GivenAway, ForwardedKeys
    <2>3. CASE j = k
      <3>1. ~Given(f, k) => k \notin f.down
        BY <1>1, <1>2 DEF Live, GivenAway, ForwardedKeys, Given
      <3>2. Given(h', k)
        BY <1>6, <1>10, <2>3, <3>1 DEF Given
      <3>3. QED
        BY <1>9, <2>1, <2>3, <3>2 DEF ForwardedKeys, Given
    <2>4. QED
      BY <2>2, <2>3
  <1>11. \A j \in Key : h'.track[j] = "APP_SHORTCUT" => j \notin ModifierKey
    BY <1>1, <1>2, <1>6, <1>7 DEF Live, GivenAway, Given
  <1>12. Repeating(h', held)
    <2>1. CASE h'.repeat = h.repeat
      <3>1. h.repeat # NoKey => h.repeat # k /\ h'.track[h.repeat] = h.track[h.repeat]
        BY <1>1, <1>2, <1>4, <1>7 DEF Live, Repeating
      <3>2. QED
        BY <1>2, <1>4, <1>7, <1>8, <2>1, <3>1 DEF Live, Repeating
    <2>2. CASE h'.repeat = k /\ k \notin ModifierKey /\ h'.track[k] # "ENGINE_NOT_READY"
      <3>1. ~Presses(h'.todo, k)
        BY <1>3, <1>7, <2>2, NonePresses
      <3>2. QED
        BY <1>9, <2>2, <3>1 DEF Repeating
    <2>3. QED
      BY <1>1, <1>6, <2>1, <2>2
  <1>13. Arbitrating(h', held)
    BY <1>2, <1>7 DEF Live, Arbitrating, Buffering
  <1>14. Live(h', held)
    BY <1>3, <1>7, <1>10, <1>11, <1>12, <1>13 DEF Live, GivenAway
  <1>15. QED
    BY <1>2, <1>7, <1>14, LiveStep

(* Routing a release does. *)
LEMMA RouteNextReleaseTyped == ASSUME Ordinary, TypingInv, RouteNextRelease PROVE Typed'
  <1> DEFINE e == Head(h.todo)
             k == e.key
             t == Tail(h.todo)
             f == [h EXCEPT !.todo = Tail(@)]
  <1>1. /\ f \in Host /\ f.repeat = h.repeat /\ h.grab = "ready" /\ h.focus /\ f.grab = "ready" /\ f.focus
        /\ f.track = h.track /\ f.buffer = h.buffer /\ f.todo = t /\ f.down = h.down
        /\ e \in Event /\ k \in Key /\ h.todo \in Seq(Event) /\ h.todo # <<>>
        /\ h.down \subseteq Key /\ h.repeat \in Key \cup {NoKey}
    BY DequeueFacts DEF TypingInv, IInv, Sound, Steady, Host, RouteNextRelease, Idle, Event
  <1>2. Live(h, held) /\ direct = {} /\ UNCHANGED <<held, direct>>
    BY <1>1 DEF TypingInv, Typed, Grabbed, RouteNextRelease
  <1>3. /\ Covered(t, held) /\ PlainLast(t)
        /\ \A j : Pending(h.todo, j) /\ j # k => Pending(t, j)
    <2>1. Covered(h.todo, held) /\ PlainLast(h.todo)
      BY <1>2 DEF Live
    <2>2. /\ Covered(t, held) /\ PlainLast(t)
          /\ \A j : Pending(h.todo, j) => Pending(t, j) \/ (~e.press /\ e.key = j)
      BY <1>1, <2>1, DequeueQueue, ZenonT(60)
    <2>3. QED
      BY <2>2
  <1>4. \A j : Presses(t, j) => Presses(h.todo, j)
    BY <1>1, TailPresses
  <1>5. PICK a \in Answer : h' = ProcessKeyRelease(f, e, a)
    BY DEF RouteNextRelease
  <1> HIDE DEF e, f, t
  <1>6. /\ Routed(f, h', k) /\ h'.repeat \in {f.repeat, NoKey} /\ h'.repeat # k
        /\ h'.track[k] = "IDLE" /\ h'.down \in {f.down, f.down \ {k}}
        /\ Given(f, k) => h'.down = f.down \ {k}
    BY <1>1, <1>5, ProcessKeyReleaseFacts DEF Ordinary
  <1>7. /\ h'.grab = "ready" /\ h'.focus /\ h'.buffer = h.buffer /\ h'.todo = t
        /\ \A j \in Key \ {k} : h'.track[j] = h.track[j] /\ (j \in h'.down <=> j \in h.down)
    BY <1>1, <1>6 DEF Routed, Near, SameGrab, Elsewhere
  <1>8. ASSUME NEW j, Awaited(h, j, held), j # k
        PROVE  Awaited(h', j, held)
    BY <1>3, <1>7, <1>8 DEF Awaited
  <1>9. k \notin h'.down
    <2>1. CASE Given(f, k)
      BY <1>6, <2>1
    <2>2. CASE ~Given(f, k)
      <3>1. k \notin h.down
        BY <1>1, <1>2, <2>2 DEF Live, GivenAway, ForwardedKeys, Given
      <3>2. QED
        BY <1>1, <1>6, <3>1
    <2>3. QED
      BY <2>1, <2>2
  <1>10. ASSUME NEW j \in h'.down
         PROVE  j \in ForwardedKeys(h') /\ Awaited(h', j, held)
    <2>1. j \in Key /\ j # k /\ j \in h.down
      BY <1>1, <1>6, <1>9, <1>10
    <2>2. QED
      BY <1>2, <1>7, <1>8, <2>1 DEF Live, GivenAway, ForwardedKeys
  <1>11. \A j \in Key : h'.track[j] = "APP_SHORTCUT" => j \notin ModifierKey
    BY <1>2, <1>6, <1>7 DEF Live, GivenAway
  <1>12. Repeating(h', held)
    <2>1. SUFFICES ASSUME h'.repeat # NoKey PROVE Repeating(h', held)
      BY DEF Repeating
    <2>2. h'.repeat = h.repeat /\ h.repeat \in Key \ {k}
      BY <1>1, <1>6, <2>1
    <2>3. QED
      BY <1>2, <1>4, <1>7, <1>8, <2>2 DEF Live, Repeating
  <1>13. Arbitrating(h', held)
    BY <1>2, <1>7 DEF Live, Arbitrating, Buffering
  <1>14. Live(h', held)
    BY <1>3, <1>7, <1>10, <1>11, <1>12, <1>13 DEF Live, GivenAway
  <1>15. QED
    BY <1>2, <1>7, <1>14, LiveStep

(* A repeat does. *)
LEMMA RepeatFiresTyped == ASSUME Ordinary, TypingInv, RepeatFires PROVE Typed'
  <1> DEFINE k == h.repeat
  <1>1. /\ h.todo = <<>> /\ k \in Key /\ h \in Host /\ UNCHANGED <<held, direct>>
    BY DEF RepeatFires, Idle, TypingInv, IInv, Sound, Steady, Host
  <1>2. PICK a \in Answer :
          h' = IF h.focus /\ h.grab = "ready" THEN DispatchRepeat(h, a) ELSE RepeatStop(h)
    BY DEF RepeatFires
  <1>3. CASE h.focus /\ h.grab = "ready"
    <2>1. h' = DispatchRepeat(h, a)
      BY <1>2, <1>3
    <2>2. /\ Routed(h, h', k) /\ h'.repeat \in {k, NoKey}
          /\ \/ h'.track[k] = h.track[k] /\ h'.down = h.down
             \/ h'.track[k] = h.track[k] /\ Given(h, k) /\ h'.down = h.down \cup {k}
             \/ h'.track[k] = "FORWARDED" /\ h'.down = h.down \cup {k}
      BY <1>1, <2>1, DispatchRepeatFacts
    <2>3. /\ h'.grab = "ready" /\ h'.focus /\ h'.buffer = h.buffer /\ h'.todo = h.todo
          /\ \A j \in Key \ {k} : h'.track[j] = h.track[j] /\ (j \in h'.down <=> j \in h.down)
          /\ h'.down \subseteq Key
      BY <1>3, <2>2 DEF Routed, Near, SameGrab, Elsewhere, Host
    <2>4. Live(h, held) /\ direct = {}
      BY <1>3 DEF TypingInv, Typed, Grabbed
    <2>5. \A j : Awaited(h, j, held) => Awaited(h', j, held)
      BY <2>3 DEF Awaited
    <2>6. k # NoKey /\ Awaited(h', k, held) /\ h.track[k] # "ENGINE_NOT_READY" /\ k \notin ModifierKey
      BY <1>1, <2>4, <2>5, KeyAssumption DEF Live, Repeating
    <2>7. ASSUME NEW j \in h'.down
          PROVE  j \in ForwardedKeys(h') /\ Awaited(h', j, held)
      <3>1. CASE j # k
        BY <2>3, <2>4, <2>5, <2>7, <3>1 DEF Live, GivenAway, ForwardedKeys
      <3>2. CASE j = k
        BY <1>1, <2>2, <2>4, <2>6, <2>7, <3>2 DEF Live, GivenAway, ForwardedKeys, Given
      <3>3. QED
        BY <3>1, <3>2
    <2>8. \A j \in Key : h'.track[j] = "APP_SHORTCUT" => j \notin ModifierKey
      BY <2>2, <2>3, <2>4, <2>6 DEF Live, GivenAway
    <2>9. Repeating(h', held)
      BY <2>2, <2>3, <2>4, <2>5, <2>6 DEF Live, Repeating
    <2>10. Arbitrating(h', held) /\ Covered(h'.todo, held) /\ PlainLast(h'.todo)
      BY <2>3, <2>4 DEF Live, Arbitrating, Buffering
    <2>11. Live(h', held)
      BY <2>7, <2>8, <2>9, <2>10 DEF Live, GivenAway
    <2>12. QED
      BY <1>1, <2>3, <2>4, <2>11, LiveStep
  <1>4. CASE ~(h.focus /\ h.grab = "ready")
    <2>1. /\ h'.grab = h.grab /\ h'.focus = h.focus /\ h'.down = h.down
          /\ h'.buffer = h.buffer /\ h'.track = h.track
      BY <1>1, <1>2, <1>4 DEF RepeatStop, Host
    <2>2. QED
      BY <1>1, <1>4, <2>1 DEF TypingInv, Typed, Grabbed, ForwardedKeys
  <1>5. QED
    BY <1>3, <1>4


(* A key that reaches a focused, ready grab: the emergency exit, or the    *)
(* arbiter's. *)
LEMMA OnKeyLive ==
    ASSUME Ordinary, NEW f, Sound(f), f.todo = <<>>, f.grab = "ready", f.focus,
           NEW keys, Live(f, keys), NEW k \in Key, NEW press \in BOOLEAN, NEW g, g = OnKey(f, k, press),
           press => /\ k \notin keys /\ \A i \in DOMAIN f.buffer : f.buffer[i].key # k
                    /\ k \in ModifierKey => keys \cap PlainKey = {},
           ~press => k \in keys
    PROVE  \/ press /\ g.grab = "released" /\ g.focus /\ g.down = f.down /\ g.buffer = f.buffer /\ g.track = f.track
           \/ g.grab = "ready" /\ g.focus /\ Live(g, IF press THEN keys \cup {k} ELSE keys \ {k})
  <1> DEFINE mods == EffectiveModifiers(f, k, press)
             e == [press |-> press, key |-> k, mods |-> mods]
             phys == IF press THEN f.phys \cup ModOf(k) ELSE f.phys \ ModOf(k)
             noted == [f EXCEPT !.phys = phys]
             exit == press /\ IsExit(k, mods)
             next == IF press THEN keys \cup {k} ELSE keys \ {k}
  <1>1. f \in Host /\ ModOf(k) \subseteq Mod
    BY DEF Sound, Steady, ModOf
  <1>2. e \in Event /\ e.press = press /\ e.key = k
    BY <1>1 DEF Event, EffectiveModifiers, Host
  <1>3. CASE exit
    <2>1. g = [f EXCEPT !.grab = "released"]
      BY <1>3 DEF OnKey
    <2>2. QED
      BY <1>1, <1>3, <2>1, ZenonT(60) DEF Host
  <1>4. CASE ~exit
    <2>1. g = IF press THEN ArbiterPress(noted, e) ELSE ArbiterRelease(noted, e)
      <3>1. noted = [f EXCEPT !.phys = IF press THEN @ \cup ModOf(k) ELSE @ \ ModOf(k)]
        BY <1>1 DEF Host
      <3>2. QED
        BY <1>4, <3>1 DEF OnKey
    <2>2. /\ noted \in Host /\ noted.grab = f.grab /\ noted.focus = f.focus /\ noted.phys = phys
          /\ noted.todo = f.todo /\ noted.repeat = f.repeat /\ noted.track = f.track
          /\ noted.owned = f.owned /\ noted.heard = f.heard /\ noted.down = f.down
          /\ noted.buffer = f.buffer
      <3>1. phys \in SUBSET Mod
        BY <1>1 DEF Host
      <3> HIDE DEF phys
      <3>2. QED
        BY <1>1, <3>1 DEF Host
    <2>3. press => ModOf(k) \subseteq phys
      OBVIOUS
    <2> HIDE DEF noted, phys
    <2>4. Receptive(noted)
      BY <2>2 DEF Sound, Steady, Balanced, Given, Receptive
    <2>5. Live(noted, keys)
      BY <2>2, SameLive
    <2>6. After(e, keys) = next
      BY <1>2 DEF After
    <2> HIDE DEF e, next
    <2>7. CASE press
      <3>1. /\ g = ArbiterPress(noted, e) /\ e.press /\ e.key \notin keys /\ ModOf(e.key) \subseteq noted.phys
            /\ \A i \in DOMAIN noted.buffer : noted.buffer[i].key # e.key
            /\ e.key \in ModifierKey => keys \cap PlainKey = {}
        BY <1>2, <2>1, <2>2, <2>3, <2>7
      <3>2. Live(g, next)
        BY <1>2, <2>4, <2>5, <2>6, <3>1, ArbiterPressLive
      <3>3. Arbitrated(noted, g, e)
        BY <1>2, <2>4, <3>1, ArbiterPressFacts
      <3>4. QED
        BY <2>2, <3>2, <3>3 DEF Arbitrated, SameKeys, next
    <2>8. CASE ~press
      <3>1. g = ArbiterRelease(noted, e) /\ ~e.press /\ e.key \in keys
        BY <1>2, <2>1, <2>8
      <3>2. Live(g, next)
        BY <1>2, <2>4, <2>5, <2>6, <3>1, ArbiterReleaseLive
      <3>3. Arbitrated(noted, g, e)
        BY <1>2, <2>4, <3>1, ArbiterReleaseFacts
      <3>4. QED
        BY <2>2, <3>2, <3>3 DEF Arbitrated, SameKeys, next
    <2>9. QED
      BY <2>7, <2>8
  <1>5. QED
    BY <1>3, <1>4

(* A press by the user does. *)
LEMMA PressKeyTyped == ASSUME Ordinary, TypingInv, NEW k \in Key, PressKey(k) PROVE Typed'
  <1>1. /\ Sound(h) /\ h.todo = <<>> /\ h \in Host /\ k \notin held /\ held' = held \cup {k}
        /\ ~h.focus => Blank(h)
    BY DEF TypingInv, IInv, Sound, Steady, PressKey, Settled, Idle
  <1>2. CASE h.grab = "ready" /\ h.focus
    <2>1. h' = OnKey(h, k, TRUE) /\ direct' = direct /\ direct = {}
      BY <1>2 DEF PressKey, Grabbed, TypingInv, Typed
    <2>2. Live(h, held)
      BY <1>2 DEF TypingInv, Typed
    <2>3. /\ \A i \in DOMAIN h.buffer : h.buffer[i].key # k
          /\ k \in ModifierKey => held \cap PlainKey = {}
      BY <1>1 DEF PressKey, MayPress, Buffering, Ordinary
    <2>4. \/ h'.grab = "released" /\ h'.focus /\ h'.down = h.down /\ h'.buffer = h.buffer /\ h'.track = h.track
          \/ h'.grab = "ready" /\ h'.focus /\ Live(h', held \cup {k})
      BY <1>1, <1>2, <2>1, <2>2, <2>3, OnKeyLive, ZenonT(60)
    <2>5. CASE h'.grab = "released" /\ h'.focus /\ h'.down = h.down /\ h'.buffer = h.buffer /\ h'.track = h.track
      <3>1. \A j \in h.down : (j \in held \/ Pending(h.buffer, j)) /\ j \in ForwardedKeys(h)
        BY <1>1, <2>2, EmptyQueue DEF Live, GivenAway, Awaited
      <3>2. QED
        BY <1>1, <2>5, <3>1 DEF Typed, Grabbed, ForwardedKeys
    <2>6. CASE h'.grab = "ready" /\ h'.focus /\ Live(h', held \cup {k})
      BY <1>1, <2>1, <2>6, LiveStep
    <2>7. QED
      BY <2>4, <2>5, <2>6
  <1>3. CASE h.grab = "ready" /\ ~h.focus
    <2>1. /\ h' = OnKey(h, k, TRUE) /\ direct' = direct /\ direct = {} /\ h.down \subseteq held
      BY <1>3 DEF PressKey, Grabbed, TypingInv, Typed
    <2>2. h' \in {Forward(h, k, TRUE), [h EXCEPT !.grab = "released"]}
      BY <1>3, <2>1 DEF OnKey
    <2>3. /\ h'.grab \in {"ready", "released"} /\ ~h'.focus /\ h'.down \subseteq held'
      BY <1>1, <1>3, <2>1, <2>2, ZenonT(60) DEF Host, Forward
    <2>4. QED
      BY <2>1, <2>3 DEF Typed, Grabbed
  <1>4. CASE h.grab = "waiting"
    <2>1. h' = h /\ direct' = direct
      BY <1>4 DEF PressKey, Grabbed, OnKey
    <2>2. QED
      BY <1>1, <1>4, <2>1 DEF TypingInv, Typed, Grabbed
  <1>5. CASE ~Grabbed
    <2>1. h' = Forward(h, k, TRUE) /\ direct' = direct \cup {k}
      BY <1>5 DEF PressKey
    <2>2. /\ h'.grab = h.grab /\ h'.focus = h.focus /\ h'.down = h.down \cup {k}
          /\ h'.buffer = h.buffer /\ h'.track = h.track
      BY <1>1, <2>1 DEF Host, Forward
    <2>3. QED
      BY <1>1, <1>5, <2>1, <2>2 DEF TypingInv, Typed, Grabbed, ForwardedKeys
  <1>6. QED
    BY <1>2, <1>3, <1>4, <1>5, <1>1 DEF Grabbed

(* A release by the user does. *)
LEMMA ReleaseKeyTyped == ASSUME Ordinary, TypingInv, NEW k \in Key, ReleaseKey(k) PROVE Typed'
  <1>1. /\ Sound(h) /\ h.todo = <<>> /\ h \in Host /\ k \in held /\ held' = held \ {k}
        /\ direct' = direct \ {k}
        /\ ~h.focus => Blank(h)
    BY DEF TypingInv, IInv, Sound, Steady, ReleaseKey, Settled, Idle
  <1>2. Grabbed => direct = {} /\ direct' = {} /\ h' = OnKey(h, k, FALSE)
    BY <1>1 DEF ReleaseKey, TypingInv, Typed
  <1>3. CASE h.grab = "ready" /\ h.focus
    <2>1. Live(h, held)
      BY <1>3 DEF TypingInv, Typed
    <2>2. h'.grab = "ready" /\ h'.focus /\ Live(h', held \ {k})
      BY <1>1, <1>2, <1>3, <2>1, OnKeyLive DEF Grabbed
    <2>3. QED
      BY <1>1, <1>2, <1>3, <2>2, LiveStep DEF Grabbed
  <1>4. CASE h.grab = "ready" /\ ~h.focus
    <2>1. h' = Forward(h, k, FALSE) /\ h.down \subseteq held
      BY <1>2, <1>4 DEF Grabbed, OnKey, TypingInv, Typed
    <2>2. h'.grab = "ready" /\ ~h'.focus /\ h'.down \subseteq held'
      BY <1>1, <1>4, <2>1 DEF Host, Forward
    <2>3. QED
      BY <1>2, <1>4, <2>2 DEF Typed, Grabbed
  <1>5. CASE h.grab = "waiting"
    <2>1. h' = h
      BY <1>2, <1>5 DEF Grabbed, OnKey
    <2>2. QED
      BY <1>1, <1>2, <1>5, <2>1 DEF TypingInv, Typed, Grabbed
  <1>6. CASE ~Grabbed
    <2>1. h' = Forward(h, k, FALSE)
      BY <1>6 DEF ReleaseKey
    <2>2. /\ h'.grab = h.grab /\ h'.focus = h.focus /\ h'.down = h.down \ {k}
          /\ h'.buffer = h.buffer /\ h'.track = h.track
      BY <1>1, <2>1 DEF Host, Forward
    <2>3. ~h.focus => h'.down \subseteq held'
      BY <1>1, <2>2 DEF TypingInv, Typed
    <2>4. ASSUME h.grab = "released", NEW j \in h'.down
          PROVE  j \in held' \/ (Pending(h'.buffer, j) /\ j \in ForwardedKeys(h'))
      BY <1>1, <2>2, <2>4 DEF TypingInv, Typed, ForwardedKeys
    <2>5. h.grab = "absent" => direct' \subseteq h'.down
      BY <1>1, <2>2 DEF TypingInv, Typed
    <2>6. h'.grab = "released" =>
            \A j \in h'.down : j \in held' \/ (Pending(h'.buffer, j) /\ j \in ForwardedKeys(h'))
      BY <2>2, <2>4
    <2>7. h'.grab \notin {"waiting", "ready"}
      BY <1>6, <2>2 DEF Grabbed
    <2>8. QED
      BY <2>2, <2>3, <2>5, <2>6, <2>7 DEF Typed, Grabbed
  <1>7. QED
    BY <1>1, <1>3, <1>4, <1>5, <1>6 DEF Grabbed

(* A keymap does. *)
LEMMA ReceiveKeymapTyped == ASSUME Ordinary, TypingInv, ReceiveKeymap PROVE Typed'
  <1>1. /\ h \in Host /\ h' = [h EXCEPT !.grab = "ready", !.xkb = {}] /\ UNCHANGED <<held, direct>>
        /\ h.grab \in {"waiting", "ready"} /\ (h.grab = "waiting" => Blank(h))
    BY DEF TypingInv, IInv, Sound, Steady, ReceiveKeymap, OnKeymap
  <1>2. /\ h' \in Host /\ h'.grab = "ready" /\ h'.focus = h.focus /\ h'.phys = h.phys
        /\ h'.track = h.track /\ h'.owned = h.owned /\ h'.buffer = h.buffer /\ h'.todo = h.todo
        /\ h'.down = h.down /\ h'.repeat = h.repeat
    BY <1>1 DEF Host
  <1>3. h.focus => Live(h', held)
    <2>1. CASE h.grab = "waiting"
      BY <1>1, <1>2, <2>1, BlankLive, ZenonT(60) DEF Blank, TypingInv, Typed
    <2>2. CASE h.grab = "ready"
      BY <1>2, <2>2, SameLive DEF TypingInv, Typed
    <2>3. QED
      BY <1>1, <2>1, <2>2
  <1>4. QED
    BY <1>1, <1>2, <1>3 DEF TypingInv, Typed, Grabbed

(* A modifiers event does. *)
LEMMA ReceiveModifiersTyped == ASSUME Ordinary, TypingInv, ReceiveModifiers PROVE Typed'
  <1>1. h \in Host /\ h' = OnModifiers(h, ModsOf(held)) /\ UNCHANGED <<held, direct>> /\ h.grab = "ready"
    BY DEF TypingInv, IInv, Sound, Steady, ReceiveModifiers
  <1>2. /\ h'.grab = h.grab /\ h'.focus = h.focus /\ h'.down = h.down /\ h'.track = h.track
        /\ h'.buffer = h.buffer /\ h'.todo = h.todo /\ h'.repeat \in {h.repeat, NoKey}
    BY <1>1 DEF Host, OnModifiers
  <1>3. h.focus => Live(h', held)
    BY <1>1, <1>2, SameLive DEF TypingInv, Typed
  <1>4. QED
    BY <1>1, <1>2, <1>3 DEF TypingInv, Typed, Grabbed

(* Entering a field with no key down does. *)
LEMMA EnterFieldTyped == ASSUME Ordinary, TypingInv, EnterField PROVE Typed'
  <1>1. /\ Sound(h) /\ ~h.focus /\ h.grab \in {"absent", "waiting", "ready"} /\ h' = FocusIn(h)
        /\ UNCHANGED <<held, direct>> /\ h.down = {}
    BY DEF TypingInv, IInv, EnterField, Alive, Ordinary
  <1>2. h' \in Host /\ Blank(h') /\ h'.grab \in {"waiting", "ready"} /\ h'.focus /\ h'.down = {}
    BY <1>1, FocusInFacts
  <1>3. direct = {}
    BY <1>1 DEF TypingInv, Typed, Grabbed
  <1>4. Live(h', held')
    BY <1>2, BlankLive
  <1>5. QED
    BY <1>1, <1>2, <1>3, <1>4 DEF Typed, Grabbed

(* What stays down when a focused field is left is held. *)
LEMMA LeftDown ==
    ASSUME TypingInv, h.grab \in {"waiting", "ready"}
    PROVE  h.down \ ForwardedKeys(h) \subseteq held
  BY DEF TypingInv, Typed, Live, GivenAway

(* Leaving a field does. *)
LEMMA LeaveFieldTyped == ASSUME Ordinary, TypingInv, LeaveField PROVE Typed'
  <1>1. /\ Sound(h) /\ h.todo = <<>> /\ h.focus /\ h' = FocusOut(h) /\ UNCHANGED <<held, direct>>
        /\ h.grab \in {"waiting", "ready"}
    BY DEF TypingInv, IInv, LeaveField, Idle, Alive, Sound, Steady
  <1>2. /\ h'.grab = h.grab /\ ~h'.focus /\ h'.down = h.down \ ForwardedKeys(h)
    BY <1>1, FocusOutFacts
  <1>3. h'.grab = "waiting" => h'.down = {}
    BY <1>2 DEF TypingInv, Typed
  <1>4. QED
    BY <1>1, <1>2, <1>3, LeftDown, HeldStep DEF TypingInv, Grabbed

(* Losing the grab does. *)
LEMMA LoseGrabTyped == ASSUME Ordinary, TypingInv, LoseGrab PROVE Typed'
  <1>1. /\ Sound(h) /\ h.todo = <<>> /\ h' = HardReset(h) /\ UNCHANGED <<held, direct>>
        /\ h.grab \in {"waiting", "ready"}
    BY DEF TypingInv, IInv, LoseGrab, Idle
  <1>2. h'.grab = "absent" /\ ~h'.focus /\ h'.down = h.down \ ForwardedKeys(h)
    BY <1>1, HardResetFacts
  <1>3. direct = {}
    BY <1>1 DEF TypingInv, Typed, Grabbed
  <1>4. QED
    BY <1>1, <1>2, <1>3, LeftDown, HeldStep DEF TypingInv

(* A teardown does. *)
LEMMA TeardownTyped == ASSUME Ordinary, TypingInv, Teardown PROVE Typed'
  <1> DEFINE x == KeyboardDestroy(h)
  <1>1. h \in Host /\ h.todo = <<>> /\ UNCHANGED <<held, direct>> /\ h.grab = "released"
    BY DEF TypingInv, IInv, Sound, Steady, Teardown, Idle
  <1>2. h' = [x EXCEPT !.grab = "dead", !.focus = FALSE]
    BY DEF Teardown
  <1>3. x \in Host /\ x.down = h.down \ ForwardedKeys(h)
    BY <1>1, KeyboardDestroyFacts
  <1> HIDE DEF x
  <1>4. h'.grab = "dead" /\ ~h'.focus /\ h'.down = h.down \ ForwardedKeys(h)
    BY <1>2, <1>3 DEF Host
  <1>5. h'.down \subseteq held'
    BY <1>1, <1>4 DEF TypingInv, Typed
  <1>6. QED
    BY <1>1, <1>4, <1>5, HeldStep DEF TypingInv

(* What the keys do not see does. *)
LEMMA UnseenTyped ==
    ASSUME TypingInv, GuardWindowEnds \/ EngineAvailability
    PROVE  Typed'
  <1>1. h \in Host /\ UNCHANGED <<held, direct>>
    BY DEF TypingInv, IInv, Sound, Steady, GuardWindowEnds, EngineAvailability
  <1>2. /\ h'.grab = h.grab /\ h'.focus = h.focus /\ h'.down = h.down /\ h'.track = h.track
        /\ h'.buffer = h.buffer /\ h'.todo = h.todo /\ h'.repeat = h.repeat
    BY <1>1 DEF Host, GuardWindowEnds, EngineAvailability
  <1>3. h.grab = "ready" /\ h.focus => Live(h', held)
    BY <1>2, SameLive DEF TypingInv, Typed
  <1>4. QED
    BY <1>1, <1>2, <1>3 DEF TypingInv, Typed, Grabbed, ForwardedKeys

-----------------------------------------------------------------------------
(* The theorems. *)

LEMMA TypingStep == ASSUME Ordinary, TypingInv, [Next]_vars PROVE TypingInv'
  <1>1. SUFFICES Typed'
    BY InvariantStep DEF TypingInv
  <1>2. CASE UNCHANGED vars
    BY <1>2 DEF vars, TypingInv, Typed, Grabbed
  <1>3. CASE Next
    BY <1>3, RouteNextPressTyped, RouteNextReleaseTyped, RepeatFiresTyped, ReceiveKeymapTyped,
       ReceiveModifiersTyped, EnterFieldTyped, LeaveFieldTyped, LoseGrabTyped, TeardownTyped,
       UnseenTyped, PressKeyTyped, ReleaseKeyTyped
    DEF Next, Press, Release
  <1>4. QED
    BY <1>2, <1>3

(* The invariant of ordinary typing holds at the start and after every step. *)
THEOREM TypingInvariance == ASSUME Ordinary PROVE Spec => []TypingInv
  <1>1. Init => TypingInv
    <2>1. Init => Typed
      BY DEF Init, Typed, Grabbed
    <2>2. QED
      BY <2>1, InvariantInit DEF TypingInv
  <1>2. TypingInv /\ [Next]_vars => TypingInv'
    BY TypingStep
  <1>3. QED
    BY <1>1, <1>2, PTL DEF Spec

(* Under ordinary typing the application never believes down a key that    *)
(* the user has released, but while the arbiter still holds its release.   *)
THEOREM NoKeyIsStuck == ASSUME Ordinary PROVE Spec => []NoStuckKey
  <1>1. TypingInv => NoStuckKey
    <2> SUFFICES ASSUME TypingInv, NEW k \in h.down PROVE k \in held \/ ReleasePending(k)
      BY DEF NoStuckKey
    <2>1. h.grab \in {"absent", "waiting", "ready", "released", "dead"} /\ h.focus \in BOOLEAN
      BY DEF TypingInv, IInv, Sound, Steady, Host
    <2>2. h.grab \in {"absent", "dead"} => ~h.focus
      BY DEF TypingInv, IInv, Sound, Steady
    <2>3. QED
      BY <2>1, <2>2 DEF TypingInv, Typed, Live, Awaited, ReleasePending
  <1>2. QED
    BY <1>1, TypingInvariance, PTL

(* Under ordinary typing nothing is swallowed, and only a key that is held *)
(* repeats, or one whose release the arbiter still holds.                  *)
THEOREM OnlyHeldKeysRepeat == ASSUME Ordinary PROVE Spec => []HeldRepeats
  <1>1. TypingInv => HeldRepeats
    <2> SUFFICES ASSUME TypingInv, h.repeat # NoKey, h.grab # "released"
                 PROVE  h.repeat \in held \/ ReleasePending(h.repeat)
      BY DEF HeldRepeats
    <2>1. h.grab = "ready" /\ h.focus
      BY DEF TypingInv, IInv, Sound, Steady, Blank, Host
    <2>2. QED
      BY <2>1 DEF TypingInv, Typed, Live, Repeating, Awaited, ReleasePending
  <1>2. QED
    BY <1>1, TypingInvariance, PTL

(* Under ordinary typing a key taken while the engine was not ready        *)
(* neither repeats nor reaches the application.                            *)
THEOREM UnreadyKeysStayQuiet == ASSUME Ordinary PROVE Spec => []NotReadyIsQuiet
  <1>1. TypingInv => NotReadyIsQuiet
    <2> SUFFICES ASSUME TypingInv, h.grab = "ready", NEW k \in Key, h.track[k] = "ENGINE_NOT_READY"
                 PROVE  k # h.repeat /\ k \notin h.down
      BY DEF NotReadyIsQuiet
    <2>1. h.focus
      BY DEF TypingInv, IInv, Sound, Steady, Blank, Host
    <2>2. Live(h, held)
      BY <2>1 DEF TypingInv, Typed
    <2>3. QED
      BY <2>2, KeyAssumption DEF Live, GivenAway, Repeating, ForwardedKeys
  <1>2. QED
    BY <1>1, TypingInvariance, PTL
=============================================================================

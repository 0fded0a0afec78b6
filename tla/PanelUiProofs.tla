---------------------------- MODULE PanelUiProofs ----------------------------
(***************************************************************************)
(* Theorems about PanelUi, for any lists, labels, voice states and events, *)
(* and whether or not frames may fail: type correctness, and that what is  *)
(* on the screen has an owner, a timer and a session that will end it.     *)
(***************************************************************************)
EXTENDS PanelUi, TLAPS

-----------------------------------------------------------------------------
(* What every handler keeps.  Drawn relates the panel to the screen; Owned *)
(* says who may have what is on it; Silent that nothing of it is a state   *)
(* of the voice session, and nothing will be that is drawn anew.           *)
Drawn(w) ==
    /\ w.panel.visible => w.screen # None /\ w.panel.selected = w.screen.selected
    /\ ~w.panel.visible => w.screen = None /\ w.panel.selected = None
Timed(w) == w.indicator.armed \/ ~w.indicator.timer
Owned(w) ==
    /\ w.panel.visible => w.owner # "none"
    /\ w.owner = "candidate" => w.focused
    /\ w.owner = "indicator" /\ w.panel.visible => Timed(w)
Sound(w) == w \in UiState /\ (w.anchor.ready => w.anchor.known) /\ Drawn(w)
Good(w) == Sound(w) /\ Owned(w)
Mute(w) == w.panel.status \notin Voice /\ (w.panel.visible => w.screen.aux \notin Voice)
Silent(w) ==
    /\ w.pending.owner = "voice" => w.pending.text \in Error
    /\ w.owner = "voice" /\ w.panel.visible => Mute(w)

(* What is asked for comes to its end.  What waits does so for a caret of  *)
(* a generation that exists, and only a focused context has an update of   *)
(* the list to come.                                                       *)
Timely(w) ==
    /\ w.focused \/ w.pending.owner # "none" => w.anchor.known
    /\ w.schedule # "idle" => w.focused

(* A popup that has waited long enough has still done so when it is asked  *)
(* for again.                                                              *)
Overdue(w, who) == w.pending.owner = who /\ w.pending.due
Ages(w, x) == \A who \in {"indicator", "voice"} :
                  Overdue(w, who) /\ x.pending.owner = who => Overdue(x, who)

(* What a handler leaves alone that schedules no update of the list:       *)
(* whatever waits goes on waiting, is over, or is asked for.               *)
Lasts(w, x) ==
    /\ x.schedule \in {w.schedule, "idle"} /\ x.focused = w.focused
    /\ w.anchor.known => x.anchor.known
    /\ x.pending = w.pending \/ x.pending.owner = "none" \/ w.focused
    /\ Ages(w, x)

IInv == Good(Ui) /\ Timely(Ui) /\ (voice = "idle" => Silent(Ui))
          /\ voice \in Voice \cup {"idle"} /\ stalled \in BOOLEAN /\ woken \in BOOLEAN

(* What a handler of the panel leaves alone; none of them loses a surface. *)
SamePopup(w, x) ==
    /\ x.panel.lost => w.panel.lost
    /\ x.focused = w.focused /\ x.snapshot = w.snapshot /\ x.schedule = w.schedule /\ x.owner = w.owner
    /\ x.pending = w.pending /\ x.anchor = w.anchor /\ x.indicator = w.indicator

(* How an attempt to draw may end. *)
Outcome == [ui : UiState, result : {"ok", "retry", "fail"}]

(* Hiding leaves nothing on the screen. *)
LEMMA PanelHideFacts ==
    ASSUME NEW w, Sound(w)
    PROVE  /\ Sound(PanelHide(w)) /\ SamePopup(w, PanelHide(w)) /\ ~PanelHide(w).panel.visible
           /\ PanelHide(w).panel.status = w.panel.status
  <1> DEFINE x == [w EXCEPT !.panel.visible = FALSE, !.panel.selected = None, !.panel.geom = None, !.screen = None]
  <1>1. x \in UiState
    BY DEF Sound, UiState, Panel
  <1>2. SamePopup(w, x) /\ Drawn(x) /\ ~x.panel.visible /\ x.panel.status = w.panel.status
    BY DEF Sound, UiState, Panel, Drawn, SamePopup
  <1>3. PanelHide(w) = IF w.panel.visible THEN x ELSE w
    BY DEF PanelHide
  <1> HIDE DEF x
  <1>4. QED
    BY <1>1, <1>2, <1>3 DEF Sound, SamePopup

(* Hiding the status takes the panel down and leaves the owner alone. *)
LEMMA PanelHideStatusFacts ==
    ASSUME NEW w, Sound(w)
    PROVE  Sound(PanelHideStatus(w)) /\ SamePopup(w, PanelHideStatus(w)) /\ ~PanelHideStatus(w).panel.visible
  <1> DEFINE bare == [w EXCEPT !.panel.status = None]
  <1>1. Sound(bare) /\ SamePopup(w, bare)
    BY DEF Sound, UiState, Panel, Aux, Drawn, SamePopup
  <1>2. QED
    BY <1>1, PanelHideFacts DEF PanelHideStatus, SamePopup

(* A frame that is taken is on the screen; one that is not changes neither *)
(* what is shown nor whether anything is. *)
LEMMA PanelRenderFacts ==
    ASSUME NEW w, Sound(w), NEW picture \in Picture, NEW sel \in Selected \cup {None},
           NEW r \in PanelRender(w, picture, sel)
    PROVE  /\ r \in Outcome /\ Sound(r.ui) /\ SamePopup(w, r.ui)
           /\ r.result = "ok" => r.ui.panel.visible
           /\ r.result # "ok" => r.ui.panel.visible = w.panel.visible
           /\ r.result = "retry" => stalled \/ w.panel.lost
           /\ Mute(w) /\ picture.aux \notin Voice => Mute(r.ui)
  <1> DEFINE laid == [w EXCEPT !.panel.geom = picture]
             rebuilt == [laid EXCEPT !.panel.lost = FALSE]
             drawn == [list |-> picture.list, aux |-> picture.aux, selected |-> sel]
             shown == [rebuilt EXCEPT !.panel.selected = sel, !.panel.visible = TRUE, !.screen = drawn]
  <1>1. /\ Sound(laid) /\ SamePopup(w, laid) /\ laid.panel.visible = w.panel.visible
        /\ laid.panel.status = w.panel.status /\ laid.screen = w.screen
    BY DEF Sound, UiState, Panel, Drawn, SamePopup
  <1> HIDE DEF laid
  <1>2. /\ Sound(rebuilt) /\ SamePopup(w, rebuilt) /\ rebuilt.panel.visible = w.panel.visible
        /\ rebuilt.panel.status = w.panel.status /\ rebuilt.screen = w.screen
    BY <1>1, ZenonT(60) DEF Sound, UiState, Panel, Drawn, SamePopup
  <1> HIDE DEF rebuilt
  <1>3. drawn \in Screen /\ drawn # None /\ drawn.aux = picture.aux
    BY NothingAssumption DEF Picture, Screen
  <1>4. /\ Sound(shown) /\ SamePopup(w, shown) /\ shown.panel.visible
        /\ shown.panel.status = w.panel.status /\ shown.screen = drawn
    BY <1>2, <1>3, ZenonT(60) DEF Sound, UiState, Panel, Drawn, SamePopup
  <1>5. PanelRender(w, picture, sel) =
          IF w.panel.geom = picture /\ w.panel.selected = sel /\ w.panel.visible THEN {Ok(w)}
          ELSE {Ok(shown)} \cup {Retry(x) : x \in (IF stalled THEN {laid} ELSE {})
                                                 \cup (IF w.panel.lost THEN {rebuilt} ELSE {})}
                           \cup {Fail(x) : x \in IF Failing THEN {w, laid, rebuilt} ELSE {}}
    BY DEF PanelRender, laid, rebuilt
  <1> HIDE DEF shown, drawn
  <1>6. \/ r = Ok(w) /\ w.panel.visible
        \/ r = Ok(shown)
        \/ (r = Retry(laid) \/ r = Retry(rebuilt)) /\ (stalled \/ w.panel.lost)
        \/ r = Fail(w) \/ r = Fail(laid) \/ r = Fail(rebuilt)
    BY <1>5
  <1>7. PICK x \in {w, laid, rebuilt, shown}, result \in {"ok", "retry", "fail"} :
           /\ r = [ui |-> x, result |-> result]
           /\ result = "ok" => x.panel.visible
           /\ result # "ok" => x \in {w, laid, rebuilt}
           /\ result = "retry" => stalled \/ w.panel.lost
    BY <1>4, <1>6 DEF Ok, Retry, Fail
  <1>8. Sound(x) /\ SamePopup(w, x) /\ (x \in {w, laid, rebuilt} => x.panel.visible = w.panel.visible)
    BY <1>1, <1>2, <1>4, <1>7 DEF SamePopup
  <1>9. Mute(w) /\ picture.aux \notin Voice => Mute(x)
    BY <1>1, <1>2, <1>3, <1>4, <1>7 DEF Mute
  <1>10. QED
    BY <1>7, <1>8, <1>9 DEF Outcome, Sound

(* A picture of content is drawn or refused; without content nothing is. *)
LEMMA UpdateContentFacts ==
    ASSUME NEW w, Sound(w), NEW list \in List \cup {None}, NEW sel \in Selected \cup {None},
           NEW r \in UpdateContent(w, list, sel)
    PROVE  /\ r \in Outcome /\ Sound(r.ui) /\ SamePopup(w, r.ui)
           /\ ~r.ui.panel.visible \/ w.panel.visible \/ r.result = "ok"
           /\ r.result = "ok" /\ (list # None \/ w.panel.status # None) => r.ui.panel.visible
           /\ r.result = "retry" => stalled \/ w.panel.lost
           /\ Mute(w) => Mute(r.ui)
  <1>1. CASE list = None /\ w.panel.status = None
    <2> DEFINE x == PanelHide(w)
    <2>1. Sound(x) /\ SamePopup(w, x) /\ ~x.panel.visible /\ x.panel.status = w.panel.status
      BY PanelHideFacts
    <2>2. r = Ok(x)
      BY <1>1 DEF UpdateContent
    <2> HIDE DEF x
    <2>3. QED
      BY <1>1, <2>1, <2>2 DEF Ok, Sound, Outcome, Mute
  <1>2. CASE ~(list = None /\ w.panel.status = None)
    <2> DEFINE picture == [list |-> list, aux |-> IF list = None THEN w.panel.status ELSE None]
    <2>1. picture \in Picture /\ (Mute(w) => picture.aux \notin Voice)
      BY NamesAssumption DEF Sound, UiState, Panel, Picture, Aux, Mute
    <2>2. r \in PanelRender(w, picture, sel)
      BY <1>2 DEF UpdateContent
    <2> HIDE DEF picture
    <2>3. QED
      BY <2>1, <2>2, PanelRenderFacts DEF SamePopup
  <1>3. QED
    BY <1>1, <1>2

(* Drawing candidates makes the panel visible only when it succeeds, and   *)
(* what is to be done again is so for want of an image or a surface.       *)
LEMMA PanelUpdateFacts ==
    ASSUME NEW w, Sound(w), NEW r \in PanelUpdate(w)
    PROVE  /\ r \in Outcome /\ Sound(r.ui) /\ SamePopup(w, r.ui)
           /\ ~r.ui.panel.visible \/ w.panel.visible \/ r.result = "ok"
           /\ r.result = "retry" => stalled \/ w.panel.lost
           /\ Mute(w) => Mute(r.ui)
  <1>1. CASE w.snapshot = None
    BY <1>1, UpdateContentFacts DEF PanelUpdate
  <1>2. CASE w.snapshot # None
    <2>1. w.snapshot.list \in List /\ w.snapshot.selected \in Selected
      BY <1>2 DEF Sound, UiState, Snapshot
    <2>2. QED
      BY <1>2, <2>1, UpdateContentFacts DEF PanelUpdate
  <1>3. QED
    BY <1>1, <1>2

(* Drawing a label or a voice text makes the panel visible only when it    *)
(* succeeds, and then always.                                              *)
LEMMA PanelShowStatusFacts ==
    ASSUME NEW w, Sound(w), NEW text \in Label \cup Spoken, NEW r \in PanelShowStatus(w, text)
    PROVE  /\ r \in Outcome /\ Sound(r.ui) /\ SamePopup(w, r.ui)
           /\ ~r.ui.panel.visible \/ w.panel.visible \/ r.result = "ok"
           /\ r.result = "ok" => r.ui.panel.visible
           /\ text \notin Voice /\ (w.panel.visible => Mute(w)) => Mute(r.ui)
  <1> DEFINE titled == [w EXCEPT !.panel.status = text]
  <1>1. /\ Sound(titled) /\ SamePopup(w, titled) /\ titled.panel.visible = w.panel.visible
        /\ titled.panel.status = text /\ titled.screen = w.screen
    BY DEF Sound, UiState, Panel, Aux, Drawn, SamePopup
  <1>2. titled.panel.status # None
    BY <1>1, NamesAssumption DEF Spoken
  <1>3. r \in UpdateContent(titled, None, None)
    BY DEF PanelShowStatus
  <1> HIDE DEF titled
  <1>4. text \notin Voice /\ (w.panel.visible => Mute(w)) => Mute(titled)
    BY <1>1 DEF Mute
  <1>5. /\ r \in Outcome /\ Sound(r.ui) /\ SamePopup(titled, r.ui)
        /\ ~r.ui.panel.visible \/ titled.panel.visible \/ r.result = "ok"
        /\ r.result = "ok" => r.ui.panel.visible
        /\ Mute(titled) => Mute(r.ui)
    BY <1>1, <1>2, <1>3, UpdateContentFacts
  <1>6. QED
    BY <1>1, <1>4, <1>5 DEF SamePopup

-----------------------------------------------------------------------------
(* The coordinator. *)

LEMMA CancelPendingFacts ==
    ASSUME NEW w, Good(w)
    PROVE  /\ Good(CancelPending(w)) /\ (Silent(w) => Silent(CancelPending(w)))
           /\ CancelPending(w) = [w EXCEPT !.pending = NoPending]
           /\ CancelPending(w).pending.owner = "none" /\ CancelPending(w).panel = w.panel
  <1> DEFINE x == CancelPending(w)
  <1>1. x \in UiState
    BY DEF Good, Sound, UiState, Positioned, CancelPending
  <1>2. /\ x = [w EXCEPT !.pending = NoPending] /\ x.pending.owner = "none"
        /\ x.panel = w.panel /\ x.screen = w.screen /\ x.owner = w.owner /\ x.focused = w.focused
        /\ x.indicator = w.indicator /\ x.anchor = w.anchor
    BY DEF Good, Sound, UiState, CancelPending, NoPending
  <1> HIDE DEF x
  <1>3. QED
    BY <1>1, <1>2 DEF Good, Sound, Owned, Timed, Drawn, Silent, Mute, x

(* Whoever hides what is its own leaves the popup to nobody, and takes     *)
(* back what it had waiting.                                               *)
LEMMA HideFacts ==
    ASSUME NEW w, Good(w), NEW who \in {"candidate", "indicator", "voice"}
    PROVE  LET x == Hide(w, who)
           IN  /\ Good(x) /\ x.owner # who /\ x.pending.owner # who
               /\ Silent(w) => Silent(x)
               /\ x.focused = w.focused /\ x.indicator = w.indicator /\ x.anchor = w.anchor
               /\ x.pending \in {w.pending, NoPending} /\ x.owner \in {w.owner, "none"}
               /\ x.panel.lost => w.panel.lost
  <1> DEFINE y == IF w.pending.owner = who THEN CancelPending(w) ELSE w
             z == IF who = "candidate" THEN PanelHide(y) ELSE PanelHideStatus(y)
  <1>1. /\ Good(y) /\ (Silent(w) => Silent(y)) /\ y.pending.owner # who
        /\ y.pending \in {w.pending, NoPending} /\ y.focused = w.focused
        /\ y.indicator = w.indicator /\ y.anchor = w.anchor /\ y.owner = w.owner /\ y.panel = w.panel
    BY CancelPendingFacts DEF Good, Sound, UiState
  <1> HIDE DEF y
  <1>2. Sound(z) /\ SamePopup(y, z) /\ ~z.panel.visible
    BY <1>1, PanelHideFacts, PanelHideStatusFacts DEF Good
  <1>3. Hide(w, who) = IF y.owner # who THEN y ELSE [z EXCEPT !.owner = "none"]
    BY DEF Hide, HideKeepingPending, y
  <1> HIDE DEF z
  <1>4. CASE y.owner # who
    BY <1>1, <1>3, <1>4
  <1>5. CASE y.owner = who
    <2> DEFINE x == [z EXCEPT !.owner = "none"]
    <2>1. Sound(x) /\ ~x.panel.visible /\ x.owner = "none"
      BY <1>2 DEF Sound, UiState, Drawn
    <2>2. /\ x.pending = y.pending /\ x.focused = y.focused /\ x.anchor = y.anchor
          /\ x.indicator = y.indicator /\ (x.panel.lost => y.panel.lost)
      BY <1>2 DEF SamePopup, Sound, UiState
    <2> HIDE DEF x
    <2>3. Good(x) /\ (Silent(y) => Silent(x))
      BY <2>1, <2>2 DEF Good, Owned, Silent
    <2>4. QED
      BY <1>1, <1>3, <1>5, <2>1, <2>2, <2>3 DEF x
  <1>6. QED
    BY <1>4, <1>5

(* What can be shown at a caret, and by whom. *)
Shows(who, text) == \/ who = "indicator" /\ text \in Label
                    \/ who = "voice" /\ text \in Spoken

(* Queueing for an anchor shows nothing and changes no owner. *)
LEMMA QueuePositionedUiFacts ==
    ASSUME NEW w, Good(w), NEW who, NEW text, Shows(who, text)
    PROVE  LET r == QueuePositionedUi(w, who, text)
           IN  /\ Good(r.ui) /\ (text \notin Voice /\ Silent(w) => Silent(r.ui))
               /\ r.ui.panel = w.panel /\ r.result \in {"ok", "fail"} /\ r.ui.anchor = w.anchor /\ r.ui.owner = w.owner
               /\ r.ui.indicator = w.indicator
  <1> DEFINE p == [owner |-> who, text |-> text, due |-> w.pending.owner = who /\ w.pending.due]
             x == [w EXCEPT !.pending = p]
  <1>1. w.pending.due \in BOOLEAN
    <2>1. w.pending \in Positioned
      BY DEF Good, Sound, UiState
    <2>2. CASE w.pending = NoPending
      <3>1. NoPending.due = FALSE
        BY DEF NoPending
      <3>2. QED
        BY <2>2, <3>1
    <2>3. CASE w.pending \in [owner : {"indicator"}, text : Label, due : BOOLEAN]
      BY <2>3
    <2>4. CASE w.pending \in [owner : {"voice"}, text : Spoken, due : BOOLEAN]
      BY <2>4
    <2>5. QED
      BY <2>1, <2>2, <2>3, <2>4 DEF Positioned
  <1>2. p \in Positioned /\ p.owner = who /\ p.text = text
    BY <1>1 DEF Positioned, Shows
  <1> HIDE DEF p
  <1>3. /\ Good(x) /\ x.anchor = w.anchor /\ x.owner = w.owner
        /\ x.pending = p /\ x.indicator = w.indicator /\ x.panel = w.panel /\ x.screen = w.screen
    BY <1>2 DEF Good, Sound, Owned, Timed, Drawn, UiState
  <1>4. QueuePositionedUi(w, who, text) = IF ~w.focused THEN Fail(w) ELSE Ok(x)
    BY DEF QueuePositionedUi, p
  <1> HIDE DEF x
  <1>5. QED
    BY <1>2, <1>3, <1>4 DEF Ok, Fail, Silent, Mute, Shows, Spoken

(* Candidates take the popup from whoever has it, in a focused context. *)
LEMMA ShowCandidatesFacts ==
    ASSUME NEW w, Good(w), w.focused, NEW r \in ShowCandidates(w)
    PROVE  Good(r.ui) /\ (Silent(w) => Silent(r.ui))
  <1>1. CASE w.snapshot = None
    BY <1>1, HideFacts DEF ShowCandidates, Ok
  <1>2. CASE w.snapshot # None
    <2> DEFINE free == CancelPending(w)
               mine == IF w.owner = "candidate" THEN free ELSE PanelHideStatus(free)
               own == [mine EXCEPT !.owner = "candidate"]
    <2>1. Good(free) /\ free.owner = w.owner /\ free.focused /\ free.pending.owner = "none"
      BY CancelPendingFacts DEF Good, Sound, UiState
    <2> HIDE DEF free
    <2>2. Sound(mine) /\ mine.focused /\ mine.pending.owner = "none"
      BY <2>1, PanelHideStatusFacts DEF Good, SamePopup
    <2> HIDE DEF mine
    <2>3. /\ Sound(own) /\ own.owner = "candidate" /\ own.focused /\ own.pending.owner = "none"
      BY <2>2 DEF Sound, UiState, Drawn
    <2>4. r \in PanelUpdate(own)
      BY <1>2 DEF ShowCandidates, free, mine
    <2> HIDE DEF own
    <2>5. QED
      BY <2>3, <2>4, PanelUpdateFacts DEF Good, Owned, Silent, SamePopup
  <1>3. QED
    BY <1>1, <1>2

(* A status that is shown belongs to the one who showed it: it is on the   *)
(* screen, or waits to be, and what was there before is gone unless it was *)
(* that one's own.                                                         *)
Shown(w, r, who, text) ==
    /\ Sound(r.ui) /\ r.result \in {"ok", "retry", "fail"}
    /\ r.ui.owner \in {w.owner, who} /\ r.ui.focused = w.focused /\ r.ui.indicator = w.indicator
    /\ r.ui.owner = "candidate" => r.ui.focused
    /\ r.ui.panel.visible => r.ui.owner # "none"
    /\ r.ui.panel.lost => w.panel.lost
    /\ r.result # "ok" \/ ~w.anchor.ready => (r.ui.owner = "indicator" /\ r.ui.panel.visible => Timed(r.ui))
    /\ who = "voice" => (r.ui.owner = "indicator" /\ r.ui.panel.visible => Timed(r.ui))
    /\ text \notin Voice /\ Silent(w) => Silent(r.ui)

(* A status is shown, queued or fails; what is shown is then owned. *)
LEMMA ShowStatusFacts ==
    ASSUME NEW w, Good(w), NEW who, NEW text, Shows(who, text), NEW r \in ShowStatus(w, who, text)
    PROVE  Shown(w, r, who, text)
  <1>1. CASE ~w.anchor.ready
    <2> DEFINE q == QueuePositionedUi(w, who, text)
    <2>1. q.ui.focused = w.focused
      BY DEF Good, Sound, UiState, QueuePositionedUi, Ok, Fail
    <2>2. r = q
      BY <1>1 DEF ShowStatus, ShowStatusUnowned
    <2> HIDE DEF q
    <2>3. QED
      BY <2>1, <2>2, QueuePositionedUiFacts DEF Shown, Good, Owned, q
  <1>2. CASE w.anchor.ready
    <2> DEFINE free == CancelPending(w)
               mine == IF w.owner = who THEN free ELSE PanelHide(free)
    <2>1. /\ Good(free) /\ free.owner = w.owner /\ free.focused = w.focused /\ free.panel = w.panel
          /\ free.pending.owner = "none" /\ free.indicator = w.indicator
          /\ Silent(w) => Silent(free)
      BY CancelPendingFacts DEF Good, Sound, UiState
    <2> HIDE DEF free
    <2>2. /\ Sound(mine) /\ mine.owner = w.owner /\ mine.focused = w.focused
          /\ mine.pending.owner = "none" /\ mine.indicator = w.indicator
          /\ mine.panel.lost => w.panel.lost
          /\ mine.panel.visible => mine = free /\ w.owner = who
      BY <2>1, PanelHideFacts DEF Good, SamePopup
    <2>3. PICK q \in PanelShowStatus(mine, text) : r = IF q.result = "ok" THEN [q EXCEPT !.ui.owner = who] ELSE q
      BY <1>2 DEF ShowStatus, ShowStatusUnowned, free, mine
    <2> HIDE DEF mine
    <2>4. /\ q \in Outcome /\ Sound(q.ui) /\ SamePopup(mine, q.ui)
          /\ ~q.ui.panel.visible \/ mine.panel.visible \/ q.result = "ok"
          /\ text \notin Voice /\ (mine.panel.visible => Mute(mine)) => Mute(q.ui)
      BY <2>2, <2>3, PanelShowStatusFacts DEF Shows
    <2>5. text \notin Voice /\ Silent(w) /\ who = "voice" => Mute(q.ui)
      BY <2>1, <2>2, <2>4 DEF Silent
    <2>6. CASE q.result # "ok"
      <3>1. r = q
        BY <2>3, <2>6
      <3>2. /\ q.ui.owner = w.owner /\ q.ui.focused = w.focused /\ q.ui.indicator = w.indicator
            /\ q.ui.pending.owner = "none" /\ (q.ui.panel.lost => w.panel.lost)
            /\ q.ui.panel.visible => w.panel.visible /\ w.owner = who
        BY <2>1, <2>2, <2>4, <2>6 DEF SamePopup
      <3>3. text \notin Voice /\ Silent(w) => Silent(q.ui)
        BY <2>5, <3>2 DEF Silent
      <3>4. /\ q.ui.owner = "candidate" => q.ui.focused
            /\ q.ui.panel.visible => q.ui.owner # "none"
            /\ q.ui.owner = "indicator" /\ q.ui.panel.visible => Timed(q.ui)
        BY <3>2 DEF Good, Owned, Timed
      <3>5. q.result \in {"ok", "retry", "fail"}
        BY <2>4 DEF Outcome
      <3>6. QED
        BY <2>4, <3>1, <3>2, <3>3, <3>4, <3>5 DEF Shown
    <2>7. CASE q.result = "ok"
      <3> DEFINE x == [q.ui EXCEPT !.owner = who]
      <3>1. r = [ui |-> x, result |-> "ok"]
        BY <2>3, <2>4, <2>7 DEF Outcome
      <3>2. /\ Sound(x) /\ x.owner = who /\ x.focused = mine.focused /\ x.indicator = mine.indicator
            /\ x.pending.owner = "none" /\ x.panel = q.ui.panel /\ x.screen = q.ui.screen
        BY <2>2, <2>4 DEF Sound, UiState, Drawn, SamePopup, Shows
      <3> HIDE DEF x
      <3>3. text \notin Voice /\ Silent(w) => Silent(x)
        BY <2>5, <3>2 DEF Silent, Mute
      <3>4. x.panel.lost => w.panel.lost
        BY <2>2, <2>4, <3>2 DEF SamePopup
      <3>5. QED
        BY <1>2, <2>2, <3>1, <3>2, <3>3, <3>4 DEF Shown, Shows
    <2>8. QED
      BY <2>6, <2>7
  <1>3. QED
    BY <1>1, <1>2

-----------------------------------------------------------------------------
(* The indicator of the mode. *)

(* What a handler makes of the popup, unless it is the voice session's.    *)
Kept(w, x) ==
    Good(x) /\ (Silent(w) => Silent(x)) /\ x.focused = w.focused /\ (x.panel.lost => w.panel.lost)

(* A label is no state of the voice session. *)
LEMMA LabelsAreSilent == ASSUME NEW l \in Label PROVE l \notin Voice
  BY NamesAssumption

(* Showing the indicator starts its timer with it, if it has one. *)
LEMMA ShowIndicatorFacts ==
    ASSUME NEW w, Good(w), NEW text \in Label, NEW x \in ShowIndicator(w, text)
    PROVE  Kept(w, x)
  <1>1. PICK r \in ShowStatus(w, "indicator", text) :
           x = IF r.result = "ok" THEN [r.ui EXCEPT !.indicator.armed = r.ui.indicator.timer, !.indicator.pending = None]
               ELSE [r.ui EXCEPT !.indicator.pending = text]
    BY Zenon DEF ShowIndicator
  <1>2. Shown(w, r, "indicator", text)
    BY <1>1, ShowStatusFacts DEF Shows
  <1>3. CASE r.result = "ok"
    <2> DEFINE armed == [r.ui EXCEPT !.indicator.armed = r.ui.indicator.timer]
               y == [armed EXCEPT !.indicator.pending = None]
    <2>1. /\ Sound(armed) /\ armed.owner = r.ui.owner /\ armed.focused = r.ui.focused /\ armed.panel = r.ui.panel
          /\ armed.pending = r.ui.pending /\ armed.screen = r.ui.screen /\ Timed(armed)
      BY <1>2 DEF Shown, Sound, UiState, Drawn, Timed
    <2>2. x = y
      BY <1>1, <1>3
    <2> HIDE DEF armed
    <2>3. /\ Sound(y) /\ y.owner = r.ui.owner /\ y.focused = r.ui.focused /\ y.panel = r.ui.panel
          /\ y.pending = r.ui.pending /\ y.screen = r.ui.screen /\ Timed(y)
      BY <2>1 DEF Sound, UiState, Drawn, Timed
    <2> HIDE DEF y
    <2>4. QED
      BY <1>2, <2>2, <2>3, LabelsAreSilent DEF Shown, Kept, Good, Owned, Silent, Mute
  <1>4. CASE r.result # "ok"
    <2> DEFINE y == [r.ui EXCEPT !.indicator.pending = text]
    <2>1. /\ Sound(y) /\ y.owner = r.ui.owner /\ y.focused = r.ui.focused /\ y.panel = r.ui.panel
          /\ y.pending = r.ui.pending /\ y.screen = r.ui.screen /\ (Timed(r.ui) => Timed(y))
      BY <1>2 DEF Shown, Sound, UiState, Drawn, Timed
    <2> HIDE DEF y
    <2>2. x = y
      BY <1>1, <1>4 DEF y
    <2>3. QED
      BY <1>2, <1>4, <2>1, <2>2, LabelsAreSilent DEF Shown, Kept, Good, Owned, Silent, Mute
  <1>5. QED
    BY <1>3, <1>4

(* The timer that ends takes the indicator down with it. *)
LEMMA HideIndicatorFacts ==
    ASSUME NEW w, Good(w)
    PROVE  Kept(w, HideIndicator(w))
  <1> DEFINE y == Hide(w, "indicator")
             x == [y EXCEPT !.indicator.armed = FALSE]
  <1>1. /\ Good(y) /\ y.owner # "indicator" /\ (Silent(w) => Silent(y)) /\ y.focused = w.focused
        /\ y.panel.lost => w.panel.lost
    BY HideFacts
  <1>2. HideIndicator(w) = x
    BY DEF HideIndicator
  <1> HIDE DEF y
  <1>3. /\ Sound(x) /\ x.owner = y.owner /\ x.focused = y.focused /\ x.panel = y.panel
        /\ x.pending = y.pending /\ x.screen = y.screen
    BY <1>1, ZenonT(60) DEF Good, Sound, UiState, Drawn
  <1> HIDE DEF x
  <1>4. QED
    BY <1>1, <1>2, <1>3 DEF Kept, Good, Owned, Silent, Mute

(* So does showing it after a change of state. *)
LEMMA ShowIndicatorForStateFacts ==
    ASSUME NEW w, Good(w), NEW x \in ShowIndicatorForState(w)
    PROVE  Kept(w, x)
  <1>1. x = w \/ \E l \in Label : x \in ShowIndicator(w, l)
    BY DEF ShowIndicatorForState
  <1>2. QED
    BY <1>1, ShowIndicatorFacts DEF Kept

(* So does showing it on focus. *)
LEMMA ShowIndicatorOnFocusFacts ==
    ASSUME NEW w, Good(w), NEW x \in ShowIndicatorOnFocus(w)
    PROVE  Kept(w, x)
  <1>1. CASE w.indicator.pending = None
    BY <1>1, ShowIndicatorForStateFacts DEF ShowIndicatorOnFocus, Kept
  <1>2. CASE w.indicator.pending # None
    <2> DEFINE y == [w EXCEPT !.indicator.pending = None]
    <2>1. /\ Sound(y) /\ y.owner = w.owner /\ y.focused = w.focused /\ y.panel = w.panel
          /\ y.screen = w.screen /\ y.pending = w.pending /\ (Timed(w) => Timed(y))
      BY DEF Good, Sound, UiState, Drawn, Timed
    <2>2. w.indicator.pending \in Label
      BY <1>2 DEF Good, Sound, UiState
    <2>3. x = w \/ x \in ShowIndicator(y, w.indicator.pending)
      BY <1>2 DEF ShowIndicatorOnFocus
    <2> HIDE DEF y
    <2>4. Good(y) /\ (Silent(w) => Silent(y))
      BY <2>1 DEF Good, Owned, Silent, Mute
    <2>5. QED
      BY <2>1, <2>2, <2>3, <2>4, ShowIndicatorFacts DEF Kept
  <1>3. QED
    BY <1>1, <1>2

-----------------------------------------------------------------------------
(* The end of an iteration. *)

LEMMA MarkAnchorReadyFacts ==
    ASSUME NEW w, Good(w)
    PROVE  LET x == MarkAnchorReady(w)
           IN  Kept(w, x) /\ x.pending = w.pending /\ x.snapshot = w.snapshot /\ x.owner = w.owner
  <1> DEFINE x == MarkAnchorReady(w)
  <1>1. /\ Sound(x) /\ x.owner = w.owner /\ x.focused = w.focused /\ x.panel = w.panel
        /\ x.indicator = w.indicator /\ x.pending = w.pending /\ x.snapshot = w.snapshot
        /\ x.screen = w.screen
    BY DEF Good, Sound, UiState, Drawn, MarkAnchorReady
  <1> HIDE DEF x
  <1>2. QED
    BY <1>1 DEF Kept, Good, Owned, Timed, Silent, Mute, x

(* The owner that waits has the text that is its own. *)
LEMMA PendingShows ==
    ASSUME NEW w, Good(w), w.pending.owner # "none"
    PROVE  Shows(w.pending.owner, w.pending.text)
  <1>1. w.pending \in Positioned
    BY DEF Good, Sound, UiState
  <1>2. CASE w.pending = NoPending
    <2>1. NoPending.owner = "none"
      BY DEF NoPending
    <2>2. QED
      BY <1>2, <2>1
  <1>3. CASE w.pending \in [owner : {"indicator"}, text : Label, due : BOOLEAN]
    BY <1>3 DEF Shows
  <1>4. CASE w.pending \in [owner : {"voice"}, text : Spoken, due : BOOLEAN]
    BY <1>4 DEF Shows
  <1>5. QED
    BY <1>1, <1>2, <1>3, <1>4 DEF Positioned

(* Showing what waited for its anchor gives it the popup, with its timer. *)
LEMMA ShowPendingFacts ==
    ASSUME NEW w, Good(w), w.pending.owner # "none", NEW x \in ShowPending(w)
    PROVE  Kept(w, x)
  <1> DEFINE free == CancelPending(w)
  <1>1. Good(free) /\ (Silent(w) => Silent(free)) /\ free.focused = w.focused /\ free.panel = w.panel
    BY CancelPendingFacts DEF Good, Sound, UiState
  <1>2. Shows(w.pending.owner, w.pending.text)
    BY PendingShows
  <1>3. CASE w.pending.owner = "indicator"
    <2>1. x \in ShowIndicator(free, w.pending.text) /\ w.pending.text \in Label
      BY <1>2, <1>3 DEF ShowPending, Shows
    <2> HIDE DEF free
    <2>2. QED
      BY <1>1, <2>1, ShowIndicatorFacts DEF Kept
  <1>4. CASE w.pending.owner # "indicator"
    <2>1. w.pending.owner = "voice"
      BY <1>2, <1>4 DEF Shows
    <2>2. PICK r \in ShowStatus(free, "voice", w.pending.text) : x = r.ui
      BY <2>1 DEF ShowPending
    <2> HIDE DEF free
    <2>3. Shown(free, r, "voice", w.pending.text)
      BY <1>1, <1>2, <2>1, <2>2, ShowStatusFacts
    <2>4. Silent(w) => w.pending.text \notin Voice
      BY <2>1, NamesAssumption DEF Silent
    <2>5. QED
      BY <1>1, <2>2, <2>3, <2>4 DEF Shown, Kept, Good, Owned
  <1>5. QED
    BY <1>3, <1>4

(* Resolving what waits keeps owners and timers together. *)
LEMMA FlushPositionedFacts ==
    ASSUME NEW w, Good(w), NEW x \in FlushPositioned(w)
    PROVE  Kept(w, x)
  <1> DEFINE marked == MarkAnchorReady(w)
  <1>1. Kept(w, marked) /\ marked.pending = w.pending
    BY MarkAnchorReadyFacts
  <1>2. Kept(w, CancelPending(w))
    BY CancelPendingFacts DEF Kept, Good, Sound, UiState
  <1>3. \/ x \in {w, CancelPending(w)}
        \/ w.pending.owner # "none" /\ (x \in ShowPending(w) \/ x \in ShowPending(marked))
    BY DEF FlushPositioned
  <1> HIDE DEF marked
  <1>4. QED
    BY <1>1, <1>2, <1>3, ShowPendingFacts DEF Kept

(* Drawing what was scheduled keeps owners together, and never brings back *)
(* a voice status that has ended.                                          *)
LEMMA FlushScheduledFacts ==
    ASSUME NEW w, Good(w), NEW x \in FlushScheduled(w)
    PROVE  Good(x) /\ (Silent(w) => Silent(x))
  <1>1. CASE x = w
    BY <1>1
  <1>2. CASE w.focused /\ x \in UpdateTextUi(w)
    <2>1. PICK r \in ShowCandidates(w) :
             LET done == [r.ui EXCEPT !.schedule = Complete(r.result)]
             IN  x = IF r.result = "ok" /\ w.snapshot # None THEN MarkAnchorReady(done) ELSE done
      BY <1>2 DEF UpdateTextUi
    <2> DEFINE done == [r.ui EXCEPT !.schedule = Complete(r.result)]
    <2>2. Good(r.ui) /\ (Silent(w) => Silent(r.ui))
      BY <1>2, <2>1, ShowCandidatesFacts
    <2>3. Complete(r.result) \in {"idle", "dirty", "retry"}
      BY DEF Complete
    <2>4. /\ Sound(done) /\ done.owner = r.ui.owner /\ done.focused = r.ui.focused /\ done.panel = r.ui.panel
          /\ done.indicator = r.ui.indicator /\ done.pending = r.ui.pending /\ done.screen = r.ui.screen
      BY <2>2, <2>3 DEF Good, Sound, UiState, Drawn
    <2>5. x \in {done, MarkAnchorReady(done)}
      BY <2>1
    <2> HIDE DEF done
    <2>6. Good(done) /\ (Silent(w) => Silent(done))
      BY <2>2, <2>4 DEF Good, Owned, Timed, Silent, Mute
    <2>7. QED
      BY <2>5, <2>6, MarkAnchorReadyFacts DEF Kept
  <1>3. QED
    BY <1>1, <1>2 DEF FlushScheduled

-----------------------------------------------------------------------------
(* What waits, and what is scheduled, comes to its end. *)

(* A handler that lasts is timely. *)
LEMMA LastsTimely ==
    ASSUME NEW w, NEW x, Lasts(w, x), Timely(w)
    PROVE  Timely(x) /\ Ages(w, x)
  BY DEF Lasts, Timely

(* It may follow one that leaves what waits, and may be followed by one.   *)
LEMMA LastsAfter ==
    ASSUME NEW w, NEW y, NEW x, Lasts(w, y), Lasts(y, x), y.pending = w.pending \/ x.pending = y.pending
    PROVE  Lasts(w, x)
  BY DEF Lasts, Ages, Overdue

(* Nothing new waits: what waited has aged.                                *)
LEMMA SamePendingAges ==
    ASSUME NEW w, NEW x, x.pending = w.pending \/ x.pending.owner = "none"
    PROVE  Ages(w, x)
  BY DEF Ages, Overdue

(* Changes of one field that concern nothing that waits. *)
LEMMA PlainLasts ==
    ASSUME NEW w, Good(w), NEW s \in Snapshot
    PROVE  /\ Lasts(w, w)
           /\ Lasts(w, [w EXCEPT !.snapshot = s]) /\ [w EXCEPT !.snapshot = s].pending = w.pending
           /\ Lasts(w, ResetAnchor(w)) /\ ResetAnchor(w).pending = w.pending /\ ResetAnchor(w).anchor.known
           /\ Lasts(w, CancelUiTracking(w)) /\ CancelUiTracking(w).pending = w.pending
           /\ CancelUiTracking(w).schedule = "idle" /\ CancelUiTracking(w).focused = w.focused
           /\ Lasts(w, MarkAnchorReady(w))
  <1>1. w \in UiState
    BY DEF Good, Sound
  <1>2. /\ ResetAnchor(w).pending = w.pending /\ ResetAnchor(w).anchor.known
        /\ ResetAnchor(w).focused = w.focused /\ ResetAnchor(w).schedule = w.schedule
    BY <1>1 DEF UiState, ResetAnchor
  <1>3. /\ CancelUiTracking(w).pending = w.pending /\ CancelUiTracking(w).focused = w.focused
        /\ CancelUiTracking(w).schedule = "idle" /\ CancelUiTracking(w).anchor = w.anchor
    BY <1>1 DEF UiState, CancelUiTracking
  <1>4. /\ MarkAnchorReady(w).pending = w.pending /\ MarkAnchorReady(w).focused = w.focused
        /\ MarkAnchorReady(w).schedule = w.schedule /\ MarkAnchorReady(w).anchor.known = w.anchor.known
    BY <1>1 DEF UiState, MarkAnchorReady
  <1> DEFINE x == [w EXCEPT !.snapshot = s]
  <1>5. x.pending = w.pending /\ x.focused = w.focused /\ x.schedule = w.schedule /\ x.anchor = w.anchor
    BY <1>1 DEF UiState
  <1> HIDE DEF x
  <1>6. QED
    BY <1>2, <1>3, <1>4, <1>5, SamePendingAges DEF Lasts, x

(* Hiding candidates concerns nothing that waits. *)
LEMMA HideLasts ==
    ASSUME NEW w, Good(w), NEW who \in {"candidate", "indicator", "voice"}
    PROVE  LET x == Hide(w, who)
           IN  /\ Lasts(w, x) /\ x.pending \in {w.pending, NoPending}
               /\ who = "candidate" => x.pending = w.pending
  <1> DEFINE y == IF w.pending.owner = who THEN CancelPending(w) ELSE w
             z == IF who = "candidate" THEN PanelHide(y) ELSE PanelHideStatus(y)
  <1>1. /\ Good(y) /\ y.pending \in {w.pending, NoPending} /\ y.schedule = w.schedule
        /\ y.focused = w.focused /\ y.anchor = w.anchor
        /\ w.pending.owner # who => y.pending = w.pending
    BY CancelPendingFacts DEF Good, Sound, UiState
  <1>2. NoPending.owner = "none"
    BY DEF NoPending
  <1>3. w.pending.owner # "candidate"
    BY PendingShows DEF Shows
  <1> HIDE DEF y
  <1>4. Sound(z) /\ SamePopup(y, z)
    BY <1>1, PanelHideFacts, PanelHideStatusFacts DEF Good
  <1>5. Hide(w, who) = IF y.owner # who THEN y ELSE [z EXCEPT !.owner = "none"]
    BY DEF Hide, HideKeepingPending, y
  <1> HIDE DEF z
  <1> DEFINE x == Hide(w, who)
  <1>6. x.schedule = y.schedule /\ x.focused = y.focused /\ x.anchor = y.anchor /\ x.pending = y.pending
    BY <1>4, <1>5 DEF Sound, UiState, SamePopup
  <1> HIDE DEF x
  <1>7. QED
    BY <1>1, <1>2, <1>3, <1>6, SamePendingAges DEF Lasts, x

(* What is shown or asked for leaves what waits on its way, and shown it   *)
(* waits no more.                                                          *)
LEMMA ShowStatusLasts ==
    ASSUME NEW w, Good(w), NEW who, NEW text, Shows(who, text), NEW r \in ShowStatus(w, who, text)
    PROVE  Lasts(w, r.ui) /\ (w.anchor.ready => r.ui.pending.owner = "none")
  <1>1. CASE ~w.anchor.ready
    <2> DEFINE p == [owner |-> who, text |-> text, due |-> w.pending.owner = who /\ w.pending.due]
               x == [w EXCEPT !.pending = p]
    <2>1. r = IF ~w.focused THEN Fail(w) ELSE Ok(x)
      BY <1>1 DEF ShowStatus, ShowStatusUnowned, QueuePositionedUi
    <2>2. x.schedule = w.schedule /\ x.focused = w.focused /\ x.anchor = w.anchor /\ x.pending = p
      BY DEF Good, Sound, UiState
    <2>3. p.owner = who /\ (Overdue(w, who) => p.due)
      BY DEF Overdue
    <2> HIDE DEF p
    <2>4. Ages(w, x)
      BY <2>2, <2>3 DEF Ages, Overdue
    <2> HIDE DEF x
    <2>5. r.ui = w \/ (w.focused /\ r.ui = x)
      BY <2>1 DEF Ok, Fail
    <2>6. QED
      BY <1>1, <2>2, <2>4, <2>5, SamePendingAges DEF Lasts
  <1>2. CASE w.anchor.ready
    <2> DEFINE free == CancelPending(w)
               mine == IF w.owner = who THEN free ELSE PanelHide(free)
    <2>1. /\ Good(free) /\ free.schedule = w.schedule /\ free.focused = w.focused
          /\ free.pending.owner = "none" /\ free.anchor = w.anchor
      BY CancelPendingFacts DEF Good, Sound, UiState
    <2> HIDE DEF free
    <2>2. Sound(mine) /\ SamePopup(free, mine)
      BY <2>1, PanelHideFacts DEF Good, SamePopup
    <2>3. PICK q \in PanelShowStatus(mine, text) : r = IF q.result = "ok" THEN [q EXCEPT !.ui.owner = who] ELSE q
      BY <1>2 DEF ShowStatus, ShowStatusUnowned, free, mine
    <2> HIDE DEF mine
    <2>4. q \in Outcome /\ SamePopup(mine, q.ui)
      BY <2>2, <2>3, PanelShowStatusFacts DEF Shows
    <2> DEFINE x == [q.ui EXCEPT !.owner = who]
    <2>5. r.ui \in {q.ui, x}
      BY <2>3, <2>4 DEF Outcome
    <2>6. x.schedule = q.ui.schedule /\ x.focused = q.ui.focused /\ x.anchor = q.ui.anchor /\ x.pending = q.ui.pending
      BY <2>4 DEF Outcome, UiState
    <2> HIDE DEF x
    <2>7. /\ r.ui.schedule = w.schedule /\ r.ui.focused = w.focused /\ r.ui.anchor = w.anchor
          /\ r.ui.pending.owner = "none"
      BY <2>1, <2>2, <2>4, <2>5, <2>6 DEF SamePopup
    <2>8. QED
      BY <2>7, SamePendingAges DEF Lasts
  <1>3. QED
    BY <1>1, <1>2

(* So it is with the indicator, *)
LEMMA ShowIndicatorLasts ==
    ASSUME NEW w, Good(w), NEW text \in Label, NEW x \in ShowIndicator(w, text)
    PROVE  Lasts(w, x) /\ (w.anchor.ready => x.pending.owner = "none")
  <1>1. PICK r \in ShowStatus(w, "indicator", text) :
           x = IF r.result = "ok" THEN [r.ui EXCEPT !.indicator.armed = r.ui.indicator.timer, !.indicator.pending = None]
               ELSE [r.ui EXCEPT !.indicator.pending = text]
    BY Zenon DEF ShowIndicator
  <1>2. Lasts(w, r.ui) /\ (w.anchor.ready => r.ui.pending.owner = "none") /\ r.ui \in UiState
    BY <1>1, ShowStatusLasts, ShowStatusFacts DEF Shows, Shown, Sound
  <1>3. /\ x.schedule = r.ui.schedule /\ x.focused = r.ui.focused /\ x.anchor = r.ui.anchor
        /\ x.pending = r.ui.pending
    BY <1>1, <1>2 DEF UiState
  <1>4. QED
    BY <1>2, <1>3 DEF Lasts, Ages, Overdue

(* shown after a change of state *)
LEMMA ShowIndicatorForStateLasts ==
    ASSUME NEW w, Good(w), NEW x \in ShowIndicatorForState(w)
    PROVE  Lasts(w, x)
  <1>1. x = w \/ \E l \in Label : x \in ShowIndicator(w, l)
    BY DEF ShowIndicatorForState
  <1>2. QED
    BY <1>1, ShowIndicatorLasts, SamePendingAges DEF Lasts

(* or on focus. *)
LEMMA ShowIndicatorOnFocusLasts ==
    ASSUME NEW w, Good(w), NEW x \in ShowIndicatorOnFocus(w)
    PROVE  Lasts(w, x)
  <1>1. CASE w.indicator.pending = None
    BY <1>1, ShowIndicatorForStateLasts, SamePendingAges DEF ShowIndicatorOnFocus, Lasts
  <1>2. CASE w.indicator.pending # None
    <2> DEFINE y == [w EXCEPT !.indicator.pending = None]
    <2>1. /\ Sound(y) /\ y.owner = w.owner /\ y.focused = w.focused /\ y.panel = w.panel
          /\ y.pending = w.pending /\ (Timed(w) => Timed(y))
      BY DEF Good, Sound, UiState, Drawn, Timed
    <2>2. y.schedule = w.schedule /\ y.anchor = w.anchor
      BY DEF Good, Sound, UiState
    <2>3. w.indicator.pending \in Label
      BY <1>2 DEF Good, Sound, UiState
    <2>4. x = w \/ x \in ShowIndicator(y, w.indicator.pending)
      BY <1>2 DEF ShowIndicatorOnFocus
    <2> HIDE DEF y
    <2>5. Good(y)
      BY <2>1 DEF Good, Owned
    <2>6. CASE x = w
      BY <2>6, SamePendingAges DEF Lasts
    <2>7. CASE x \in ShowIndicator(y, w.indicator.pending)
      <3>1. Lasts(y, x) /\ Lasts(w, y)
        BY <2>1, <2>2, <2>3, <2>5, <2>7, ShowIndicatorLasts, SamePendingAges DEF Lasts
      <3>2. QED
        BY <2>1, <3>1, LastsAfter
    <2>8. QED
      BY <2>4, <2>6, <2>7
  <1>3. QED
    BY <1>1, <1>2

(* The indicator that is hidden waits no more. *)
LEMMA HideIndicatorLasts ==
    ASSUME NEW w, Good(w)
    PROVE  Lasts(w, HideIndicator(w))
  <1> DEFINE y == Hide(w, "indicator")
             x == [y EXCEPT !.indicator.armed = FALSE]
  <1>1. Good(y) /\ Lasts(w, y)
    BY HideFacts, HideLasts
  <1>2. HideIndicator(w) = x
    BY DEF HideIndicator
  <1> HIDE DEF y
  <1>3. x.schedule = y.schedule /\ x.focused = y.focused /\ x.anchor = y.anchor /\ x.pending = y.pending
    BY <1>1 DEF Good, Sound, UiState
  <1> HIDE DEF x
  <1>4. Lasts(y, x)
    BY <1>3, SamePendingAges DEF Lasts
  <1>5. QED
    BY <1>1, <1>2, <1>3, <1>4, LastsAfter

(* The candidates that are drawn take the place of what waits.  Only a     *)
(* stalled compositor or a lost surface leaves the update scheduled.       *)
LEMMA UpdateTextUiOnward ==
    ASSUME NEW w, Good(w), w.focused, w.anchor.known, NEW x \in UpdateTextUi(w)
    PROVE  /\ x.focused /\ x.anchor.known /\ (x.pending = w.pending \/ x.pending.owner = "none")
           /\ x.schedule = "idle" \/ stalled \/ w.panel.lost
  <1>1. PICK r \in ShowCandidates(w) :
           LET done == [r.ui EXCEPT !.schedule = Complete(r.result)]
           IN  x = IF r.result = "ok" /\ w.snapshot # None THEN MarkAnchorReady(done) ELSE done
    BY DEF UpdateTextUi
  <1>2. /\ r.ui \in UiState /\ r.ui.focused /\ r.ui.anchor = w.anchor
        /\ r.ui.pending = w.pending \/ r.ui.pending.owner = "none"
        /\ r.result = "retry" => stalled \/ w.panel.lost
    <2>1. CASE w.snapshot = None
      <3>1. r = Ok(Hide(w, "candidate"))
        BY <2>1 DEF ShowCandidates
      <3>2. QED
        BY <3>1, HideFacts, HideLasts DEF Ok, Good, Sound
    <2>2. CASE w.snapshot # None
      <3> DEFINE free == CancelPending(w)
                 mine == IF w.owner = "candidate" THEN free ELSE PanelHideStatus(free)
                 own == [mine EXCEPT !.owner = "candidate"]
      <3>1. /\ Good(free) /\ free.focused /\ free.pending.owner = "none" /\ free.anchor = w.anchor
            /\ free.panel = w.panel
        BY CancelPendingFacts DEF Good, Sound, UiState
      <3> HIDE DEF free
      <3>2. /\ Sound(mine) /\ mine.focused /\ mine.pending.owner = "none" /\ mine.anchor = w.anchor
            /\ mine.panel.lost => w.panel.lost
        BY <3>1, PanelHideStatusFacts DEF Good, SamePopup
      <3> HIDE DEF mine
      <3>3. /\ Sound(own) /\ own.focused /\ own.pending.owner = "none" /\ own.anchor = w.anchor
            /\ own.panel = mine.panel
        BY <3>2 DEF Sound, UiState, Drawn
      <3>4. r \in PanelUpdate(own)
        BY <2>2 DEF ShowCandidates, free, mine
      <3> HIDE DEF own
      <3>5. QED
        BY <3>2, <3>3, <3>4, PanelUpdateFacts DEF SamePopup, Sound
    <2>3. QED
      BY <2>1, <2>2
  <1> DEFINE done == [r.ui EXCEPT !.schedule = Complete(r.result)]
  <1>3. /\ done.schedule = Complete(r.result) /\ done.focused = r.ui.focused
        /\ done.anchor = r.ui.anchor /\ done.pending = r.ui.pending /\ done.anchor.known = w.anchor.known
    BY <1>2 DEF UiState
  <1>4. /\ MarkAnchorReady(done).schedule = done.schedule /\ MarkAnchorReady(done).focused = done.focused
        /\ MarkAnchorReady(done).anchor.known = done.anchor.known
        /\ MarkAnchorReady(done).pending = done.pending
    BY <1>2 DEF MarkAnchorReady, UiState
  <1>5. x \in {done, MarkAnchorReady(done)}
    BY <1>1
  <1> HIDE DEF done
  <1>6. Complete(r.result) = "idle" \/ stalled \/ w.panel.lost
    BY <1>2 DEF Complete
  <1>7. QED
    BY <1>2, <1>3, <1>4, <1>5, <1>6

(* What waits is shown once its anchor is ready, and waits on until it has *)
(* done so for long enough: then it is over.                               *)
LEMMA FlushPositionedLasts ==
    ASSUME NEW w, Good(w), Timely(w), NEW x \in FlushPositioned(w)
    PROVE  Lasts(w, x) /\ (w.pending.due => x.pending.owner = "none")
  <1> DEFINE free == CancelPending(w)
             marked == MarkAnchorReady(w)
  <1>1. CASE w.pending.owner = "none"
    BY <1>1, SamePendingAges DEF FlushPositioned, Lasts
  <1>2. CASE w.pending.owner # "none"
    <2>1. ASSUME NEW v, Good(v), v.pending = w.pending, v.anchor.ready, NEW y \in ShowPending(v)
          PROVE  Lasts(v, y) /\ y.pending.owner = "none"
      <3> DEFINE bare == CancelPending(v)
      <3>1. /\ Good(bare) /\ bare.schedule = v.schedule /\ bare.focused = v.focused /\ bare.anchor = v.anchor
        BY <2>1, CancelPendingFacts DEF Good, Sound, UiState
      <3>2. Shows(v.pending.owner, v.pending.text)
        BY <1>2, <2>1, PendingShows
      <3>3. \/ y \in ShowIndicator(bare, v.pending.text) /\ v.pending.text \in Label
            \/ \E r \in ShowStatus(bare, v.pending.owner, v.pending.text) : y = r.ui
        BY <3>2 DEF ShowPending, Shows
      <3> HIDE DEF bare
      <3>4. Lasts(bare, y) /\ y.pending.owner = "none"
        BY <2>1, <3>1, <3>2, <3>3, ShowIndicatorLasts, ShowStatusLasts
      <3>5. QED
        BY <3>1, <3>4, SamePendingAges DEF Lasts
    <2>2. CASE w.anchor.ready
      BY <1>2, <2>1, <2>2 DEF FlushPositioned
    <2>3. CASE ~w.anchor.ready /\ ~w.pending.due
      BY <1>2, <2>3, SamePendingAges DEF FlushPositioned, Lasts
    <2>4. CASE ~w.anchor.ready /\ w.pending.due
      <3>1. x = free \/ x \in ShowPending(marked)
        BY <1>2, <2>4 DEF FlushPositioned
      <3>2. CASE x = free
        <4>1. /\ free.schedule = w.schedule /\ free.focused = w.focused /\ free.anchor = w.anchor
              /\ free.pending.owner = "none"
          BY CancelPendingFacts DEF Good, Sound, UiState
        <4>2. QED
          BY <3>2, <4>1, SamePendingAges DEF Lasts
      <3>3. CASE x \in ShowPending(marked)
        <4>1. Good(marked) /\ marked.pending = w.pending
          BY MarkAnchorReadyFacts DEF Kept
        <4>2. /\ marked.schedule = w.schedule /\ marked.focused = w.focused
              /\ marked.anchor.known = w.anchor.known /\ marked.anchor.ready = w.anchor.known
          BY DEF Good, Sound, UiState, MarkAnchorReady
        <4> HIDE DEF marked
        <4>3. w.anchor.known
          BY <1>2 DEF Timely
        <4>4. Lasts(marked, x) /\ x.pending.owner = "none"
          BY <2>1, <3>3, <4>1, <4>2, <4>3
        <4>5. QED
          BY <4>2, <4>4, SamePendingAges DEF Lasts
      <3>4. QED
        BY <3>1, <3>2, <3>3
    <2>5. QED
      BY <2>2, <2>3, <2>4
  <1>3. QED
    BY <1>1, <1>2

(* An update that was to come has come, or there is no frame for it, or    *)
(* the surface for it was lost.                                            *)
LEMMA FlushScheduledOnward ==
    ASSUME NEW w, Good(w), Timely(w), NEW x \in FlushScheduled(w)
    PROVE  /\ Timely(x) /\ (x.pending = w.pending \/ x.pending.owner = "none")
           /\ x.schedule = "idle" \/ stalled \/ w.panel.lost
  <1>1. CASE w.schedule = "idle"
    BY <1>1 DEF FlushScheduled
  <1>2. CASE w.schedule # "idle"
    BY <1>2, UpdateTextUiOnward DEF FlushScheduled, Timely
  <1>3. QED
    BY <1>1, <1>2

-----------------------------------------------------------------------------
(* Each event and each step of the loop keeps the invariant. *)

LEMMA InitInv == Init => IInv
  <1> SUFFICES ASSUME Init PROVE IInv
    OBVIOUS
  <1>1. Ui \in UiState
    <2>1. NewPanel \in Panel /\ NoPending \in Positioned /\ None \in Snapshot
      BY DEF NewPanel, Panel, Aux, Snapshot, Positioned
    <2>2. indicator \in [timer : BOOLEAN, armed : BOOLEAN, pending : Label \cup {None}]
      <3>1. PICK timer \in {TRUE, ~Failing} : indicator = [timer |-> timer, armed |-> FALSE, pending |-> None]
        BY DEF Init
      <3>2. timer \in BOOLEAN
        BY <3>1
      <3>3. QED
        BY <3>1, <3>2
    <2>3. QED
      BY <2>1, <2>2 DEF Init, Ui, UiState
  <1>2. Drawn(Ui) /\ Owned(Ui) /\ (Ui.anchor.ready => Ui.anchor.known)
    BY DEF Init, Ui, NewPanel, Drawn, Owned, Timed
  <1>3. Silent(Ui)
    BY DEF Init, Ui, NoPending, Silent, Mute
  <1>4. Timely(Ui)
    BY DEF Init, Ui, NoPending, Timely
  <1>5. QED
    BY <1>1, <1>2, <1>3, <1>4 DEF IInv, Good, Sound, Init

(* The state becomes one of the outcomes. *)
LEMMA BecomeFacts ==
    ASSUME NEW ws, ws \subseteq UiState, Become(ws)
    PROVE  Ui' \in ws
  <1>1. PICK w \in ws : /\ focused' = w.focused /\ snapshot' = w.snapshot /\ schedule' = w.schedule
                        /\ owner' = w.owner /\ pending' = w.pending /\ anchor' = w.anchor
                        /\ indicator' = w.indicator /\ panel' = w.panel /\ screen' = w.screen
    BY DEF Become
  <1>2. w \in UiState
    BY <1>1
  <1>3. Ui' = w
    BY <1>1, <1>2 DEF Ui, UiState
  <1>4. QED
    BY <1>1, <1>3

(* A handler's outcomes from the state: each is good, brings no voice back *)
(* and ends nothing early of what waits.                                   *)
Outcomes(ws) == \A x \in ws : Good(x) /\ (Silent(Ui) => Silent(x)) /\ Timely(x) /\ Ages(Ui, x)

(* What a step keeps. *)
StepKeeps == IInv' /\ Ages(Ui, Ui')

(* A step to one of several good outcomes, in which the voice session goes *)
(* on as it was, keeps the invariant.                                      *)
LEMMA BecomeInv ==
    ASSUME IInv, NEW ws, Outcomes(ws), Become(ws), voice' = voice,
           stalled' \in BOOLEAN, woken' \in BOOLEAN
    PROVE  StepKeeps
  <1>1. Ui' \in ws
    BY BecomeFacts DEF Outcomes, Good, Sound
  <1>2. Good(Ui') /\ (Silent(Ui) => Silent(Ui')) /\ Timely(Ui') /\ Ages(Ui, Ui')
    BY <1>1 DEF Outcomes
  <1>3. Good(Ui)' /\ (Silent(Ui) => Silent(Ui)')
    BY <1>2 DEF Good, Sound, Owned, Timed, Drawn, Silent, Mute
  <1>4. Timely(Ui)'
    BY <1>2 DEF Timely
  <1>5. QED
    BY <1>2, <1>3, <1>4 DEF IInv, StepKeeps

(* Changes that concern neither owner, panel nor timer. *)
LEMMA PlainFacts ==
    ASSUME NEW w, Good(w), NEW s \in Snapshot, NEW c \in {"idle", "dirty", "retry"}
    PROVE  /\ Kept(w, [w EXCEPT !.snapshot = s]) /\ Kept(w, [w EXCEPT !.schedule = c])
           /\ Kept(w, ResetAnchor(w)) /\ Kept(w, CancelUiTracking(w))
           /\ [w EXCEPT !.snapshot = s].owner = w.owner /\ CancelUiTracking(w).owner = w.owner
  <1>1. Kept(w, [w EXCEPT !.snapshot = s]) /\ [w EXCEPT !.snapshot = s].owner = w.owner
    BY ZenonT(60) DEF Good, Sound, Owned, Timed, Drawn, UiState, Silent, Mute, Kept
  <1>2. Kept(w, [w EXCEPT !.schedule = c])
    BY ZenonT(60) DEF Good, Sound, Owned, Timed, Drawn, UiState, Silent, Mute, Kept
  <1>3. Kept(w, ResetAnchor(w))
    BY ZenonT(60) DEF Good, Sound, Owned, Timed, Drawn, UiState, Silent, Mute, Kept, ResetAnchor
  <1>4. Kept(w, CancelUiTracking(w)) /\ CancelUiTracking(w).owner = w.owner
    BY ZenonT(60) DEF Good, Sound, Owned, Timed, Drawn, UiState, Silent, Mute, Kept, CancelUiTracking
  <1>5. QED
    BY <1>1, <1>2, <1>3, <1>4

(* No candidates is a candidate snapshot. *)
LEMMA NoneIsSnapshot == None \in Snapshot
  BY DEF Snapshot

(* A composition of the engine keeps the invariant. *)
LEMMA CompositionStep == IInv /\ Composition => StepKeeps
  <1> SUFFICES ASSUME IInv, Composition PROVE StepKeeps
    OBVIOUS
  <1>1. PICK s \in Snapshot : Become({[Ui EXCEPT !.snapshot = s, !.schedule = "dirty"]})
    BY ZenonT(60) DEF Composition
  <1> DEFINE x == [Ui EXCEPT !.snapshot = s]
             y == [x EXCEPT !.schedule = "dirty"]
  <1>2. Good(Ui)
    BY DEF IInv
  <1>3. Kept(Ui, x)
    BY <1>2, PlainFacts
  <1>4. Kept(x, y)
    BY <1>3, PlainFacts DEF Kept
  <1>5. Become({y})
    BY <1>1
  <1>6. y.pending = Ui.pending /\ y.focused = Ui.focused /\ y.anchor = Ui.anchor
    BY <1>2 DEF Good, Sound, UiState
  <1>7. Ui.focused
    BY DEF Composition, Ui
  <1> HIDE DEF x, y
  <1>8. Timely(y) /\ Ages(Ui, y)
    BY <1>6, <1>7, SamePendingAges DEF Timely, IInv
  <1>9. Outcomes({y})
    BY <1>3, <1>4, <1>8 DEF Kept, Outcomes
  <1>10. QED
    BY <1>5, <1>9, BecomeInv DEF Composition, Happens, Quietly, IInv

(* A commit keeps the invariant. *)
LEMMA CommitStep == IInv /\ Commit => StepKeeps
  <1> SUFFICES ASSUME IInv, Commit PROVE StepKeeps
    OBVIOUS
  <1> DEFINE x == Hide(Ui, "candidate")
             y == [x EXCEPT !.snapshot = None]
             z == CancelUiTracking(y)
  <1>1. Good(x) /\ (Silent(Ui) => Silent(x)) /\ Lasts(Ui, x)
    BY HideFacts, HideLasts DEF IInv
  <1>2. Become({z})
    BY DEF Commit
  <1> HIDE DEF x
  <1>3. Kept(x, y) /\ Lasts(x, y) /\ y.pending = x.pending
    BY <1>1, PlainFacts, PlainLasts, NoneIsSnapshot
  <1> HIDE DEF y
  <1>4. Kept(y, z) /\ Lasts(y, z) /\ z.pending = y.pending
    BY <1>3, PlainFacts, PlainLasts, NoneIsSnapshot DEF Kept
  <1> HIDE DEF z
  <1>5. Lasts(Ui, z)
    BY <1>1, <1>3, <1>4, LastsAfter
  <1>6. Outcomes({z})
    BY <1>1, <1>3, <1>4, <1>5, LastsTimely DEF Kept, Outcomes, IInv
  <1>7. QED
    BY <1>2, <1>6, BecomeInv DEF Commit, Happens, Quietly, IInv

(* A switch of engine keeps the invariant. *)
LEMMA OnEngineChangeStep == IInv /\ OnEngineChange => StepKeeps
  <1> SUFFICES ASSUME IInv, OnEngineChange PROVE StepKeeps
    OBVIOUS
  <1> DEFINE x == Hide(Ui, "candidate")
             y == CancelUiTracking(x)
  <1>1. Good(x) /\ (Silent(Ui) => Silent(x)) /\ Lasts(Ui, x) /\ x.pending = Ui.pending
    BY HideFacts, HideLasts DEF IInv
  <1>2. Become(ShowIndicatorForState(y))
    BY DEF OnEngineChange
  <1> HIDE DEF x
  <1>3. Kept(x, y) /\ Lasts(x, y) /\ y.pending = x.pending
    BY <1>1, PlainFacts, PlainLasts, NoneIsSnapshot
  <1> HIDE DEF y
  <1>4. Lasts(Ui, y) /\ y.pending = Ui.pending
    BY <1>1, <1>3, LastsAfter
  <1>5. Outcomes(ShowIndicatorForState(y))
    <2> SUFFICES ASSUME NEW v \in ShowIndicatorForState(y)
                 PROVE  Good(v) /\ (Silent(Ui) => Silent(v)) /\ Timely(v) /\ Ages(Ui, v)
      BY DEF Outcomes
    <2>1. Kept(y, v) /\ Lasts(y, v)
      BY <1>3, ShowIndicatorForStateFacts, ShowIndicatorForStateLasts DEF Kept
    <2>2. Lasts(Ui, v)
      BY <1>4, <2>1, LastsAfter
    <2>3. QED
      BY <1>1, <1>3, <2>1, <2>2, LastsTimely DEF Kept, IInv
  <1>6. QED
    BY <1>2, <1>5, BecomeInv DEF OnEngineChange, Happens, Quietly, IInv

(* A change of mode keeps the invariant. *)
LEMMA OnModeChangeStep == IInv /\ OnModeChange => StepKeeps
  <1> SUFFICES ASSUME IInv, OnModeChange PROVE StepKeeps
    OBVIOUS
  <1>1. Outcomes(ShowIndicatorForState(Ui))
    BY ShowIndicatorForStateFacts, ShowIndicatorForStateLasts, LastsTimely DEF Kept, Outcomes, IInv
  <1>2. QED
    BY <1>1, BecomeInv DEF OnModeChange, Happens, Quietly, IInv

(* An activate keeps the invariant. *)
LEMMA ImActivateStep == IInv /\ ImActivate => StepKeeps
  <1> SUFFICES ASSUME IInv, ImActivate PROVE StepKeeps
    OBVIOUS
  <1> DEFINE x == HideIndicator(Ui)
             y == CancelUiTracking(x)
  <1>1. Kept(Ui, x) /\ Lasts(Ui, x)
    BY HideIndicatorFacts, HideIndicatorLasts DEF IInv
  <1>2. Become({y})
    BY DEF ImActivate
  <1> HIDE DEF x
  <1>3. Kept(x, y) /\ Lasts(x, y) /\ y.pending = x.pending
    BY <1>1, PlainFacts, PlainLasts, NoneIsSnapshot DEF Kept
  <1> HIDE DEF y
  <1>4. Lasts(Ui, y)
    BY <1>1, <1>3, LastsAfter
  <1>5. Outcomes({y})
    BY <1>1, <1>3, <1>4, LastsTimely DEF Kept, Outcomes, IInv
  <1>6. QED
    BY <1>2, <1>5, BecomeInv DEF ImActivate, Happens, Quietly, IInv

(* Focusing keeps the invariant. *)
LEMMA FocusInStep == IInv /\ FocusIn => StepKeeps
  <1> SUFFICES ASSUME IInv, FocusIn PROVE StepKeeps
    OBVIOUS
  <1> DEFINE x == ResetAnchor(Ui)
             y == [x EXCEPT !.focused = TRUE]
  <1>1. Kept(Ui, x) /\ Lasts(Ui, x) /\ x.pending = Ui.pending /\ x.anchor.known
    BY PlainFacts, PlainLasts, NoneIsSnapshot DEF IInv
  <1>2. Become(ShowIndicatorOnFocus(y))
    BY DEF FocusIn
  <1> HIDE DEF x
  <1>3. Good(y) /\ (Silent(x) => Silent(y))
    BY <1>1 DEF Kept, Good, Sound, Owned, Timed, Drawn, UiState, Silent, Mute
  <1>4. y.pending = x.pending /\ y.focused /\ y.anchor = x.anchor
    BY <1>1 DEF Kept, Good, Sound, UiState
  <1> HIDE DEF y
  <1>5. Timely(y)
    BY <1>1, <1>4 DEF Timely
  <1>6. Outcomes(ShowIndicatorOnFocus(y))
    <2> SUFFICES ASSUME NEW v \in ShowIndicatorOnFocus(y)
                 PROVE  Good(v) /\ (Silent(Ui) => Silent(v)) /\ Timely(v) /\ Ages(Ui, v)
      BY DEF Outcomes
    <2>1. Kept(y, v) /\ Lasts(y, v)
      BY <1>3, ShowIndicatorOnFocusFacts, ShowIndicatorOnFocusLasts
    <2>2. Timely(v) /\ Ages(y, v)
      BY <1>5, <2>1, LastsTimely
    <2>3. QED
      BY <1>1, <1>3, <1>4, <2>1, <2>2 DEF Kept, Ages, Overdue
  <1>7. QED
    BY <1>2, <1>6, BecomeInv DEF FocusIn, Happens, Quietly, IInv

(* A reactivation keeps the invariant. *)
LEMMA ReactivateStep == IInv /\ Reactivate => StepKeeps
  <1> SUFFICES ASSUME IInv, Reactivate PROVE StepKeeps
    OBVIOUS
  <1> DEFINE x == ResetAnchor(Ui)
  <1>1. Kept(Ui, x) /\ Lasts(Ui, x) /\ x.pending = Ui.pending
    BY PlainFacts, PlainLasts, NoneIsSnapshot DEF IInv
  <1>2. Become(ShowIndicatorForState(x))
    BY DEF Reactivate
  <1> HIDE DEF x
  <1>3. Outcomes(ShowIndicatorForState(x))
    <2> SUFFICES ASSUME NEW v \in ShowIndicatorForState(x)
                 PROVE  Good(v) /\ (Silent(Ui) => Silent(v)) /\ Timely(v) /\ Ages(Ui, v)
      BY DEF Outcomes
    <2>1. Kept(x, v) /\ Lasts(x, v)
      BY <1>1, ShowIndicatorForStateFacts, ShowIndicatorForStateLasts DEF Kept
    <2>2. Lasts(Ui, v)
      BY <1>1, <2>1, LastsAfter
    <2>3. QED
      BY <1>1, <2>1, <2>2, LastsTimely DEF Kept, IInv
  <1>4. QED
    BY <1>2, <1>3, BecomeInv DEF Reactivate, Happens, Quietly, IInv

(* Losing the focus keeps the invariant. *)
LEMMA FocusOutStep == IInv /\ FocusOut => StepKeeps
  <1> SUFFICES ASSUME IInv, FocusOut PROVE StepKeeps
    OBVIOUS
  <1> DEFINE x(s) == [Ui EXCEPT !.snapshot = s]
             y(s) == Hide(x(s), "candidate")
             z(s) == CancelUiTracking(y(s))
             out(s) == [z(s) EXCEPT !.focused = FALSE]
  <1>1. Become({out(s) : s \in {None, snapshot}})
    BY DEF FocusOut
  <1>2. ASSUME NEW s \in {None, snapshot}
        PROVE  Good(out(s)) /\ (Silent(Ui) => Silent(out(s))) /\ Timely(out(s)) /\ Ages(Ui, out(s))
    <2>1. s \in Snapshot
      BY <1>2 DEF IInv, Good, Sound, Ui, UiState, Snapshot
    <2>2. Kept(Ui, x(s)) /\ Lasts(Ui, x(s)) /\ x(s).pending = Ui.pending
      BY <2>1, PlainFacts, PlainLasts DEF IInv
    <2> HIDE DEF x
    <2>3. /\ Good(y(s)) /\ (Silent(x(s)) => Silent(y(s))) /\ y(s).owner # "candidate"
          /\ Lasts(x(s), y(s)) /\ y(s).pending = x(s).pending
      BY <2>2, HideFacts, HideLasts DEF Kept
    <2> HIDE DEF y
    <2>4. /\ Kept(y(s), z(s)) /\ z(s).owner # "candidate" /\ z(s).schedule = "idle"
          /\ Lasts(y(s), z(s)) /\ z(s).pending = y(s).pending
      BY <2>3, PlainFacts, PlainLasts, NoneIsSnapshot
    <2> HIDE DEF z
    <2>5. Good(out(s)) /\ (Silent(z(s)) => Silent(out(s)))
      BY <2>4 DEF Kept, Good, Sound, Owned, Timed, Drawn, UiState, Silent, Mute
    <2>6. Timely(z(s))
      BY <2>2, <2>3, <2>4, LastsTimely DEF IInv
    <2>7. /\ out(s).pending = z(s).pending /\ out(s).schedule = "idle"
          /\ out(s).anchor = z(s).anchor /\ ~out(s).focused
      BY <2>4 DEF Kept, Good, Sound, UiState
    <2> HIDE DEF out
    <2>8. Timely(out(s)) /\ Ages(Ui, out(s))
      BY <2>2, <2>3, <2>4, <2>6, <2>7, SamePendingAges DEF Timely
    <2>9. QED
      BY <2>2, <2>3, <2>4, <2>5, <2>8 DEF Kept
  <1> HIDE DEF out
  <1>3. Outcomes({out(s) : s \in {None, snapshot}})
    BY <1>2 DEF Outcomes
  <1>4. QED
    BY <1>1, <1>3, BecomeInv DEF FocusOut, Happens, Quietly, IInv

(* The voice session takes its status down before it is idle. *)
LEMMA VoiceEventStep == IInv /\ VoiceEvent => StepKeeps
  <1> SUFFICES ASSUME IInv, VoiceEvent PROVE StepKeeps
    OBVIOUS
  <1>1. stalled' \in BOOLEAN /\ woken' \in BOOLEAN
    BY DEF VoiceEvent, Happens, IInv
  <1>2. CASE voice' = "idle" /\ Become({Hide(Ui, "voice")})
    <2> DEFINE x == Hide(Ui, "voice")
    <2>1. Good(x) /\ Silent(x) /\ Timely(x) /\ Ages(Ui, x)
      BY HideFacts, HideLasts, LastsTimely DEF IInv, Silent, Mute
    <2> HIDE DEF x
    <2>2. Ui' = x
      BY <1>2, <2>1, BecomeFacts DEF Good, Sound, x
    <2>3. Good(Ui)' /\ Silent(Ui)'
      BY <2>1, <2>2 DEF Good, Sound, Owned, Timed, Drawn, Silent, Mute
    <2>4. Timely(Ui)' /\ Ages(Ui, Ui')
      BY <2>1, <2>2 DEF Timely
    <2>5. QED
      BY <1>1, <1>2, <2>3, <2>4 DEF IInv, StepKeeps
  <1>3. CASE voice' \in Voice /\ Become({r.ui : r \in ShowStatus(Ui, "voice", voice')})
    <2> DEFINE ws == {r.ui : r \in ShowStatus(Ui, "voice", voice')}
    <2>1. \A x \in ws : Good(x) /\ Timely(x) /\ Ages(Ui, x)
      <3> SUFFICES ASSUME NEW r \in ShowStatus(Ui, "voice", voice')
                   PROVE  Good(r.ui) /\ Timely(r.ui) /\ Ages(Ui, r.ui)
        OBVIOUS
      <3>1. Shown(Ui, r, "voice", voice') /\ Lasts(Ui, r.ui)
        BY <1>3, ShowStatusFacts, ShowStatusLasts DEF IInv, Shows, Spoken
      <3>2. Timely(r.ui) /\ Ages(Ui, r.ui)
        BY <3>1, LastsTimely DEF IInv
      <3>3. QED
        BY <3>1, <3>2 DEF Shown, Good, Owned, Timed
    <2>2. Become(ws)
      BY <1>3
    <2> HIDE DEF ws
    <2>3. Ui' \in ws
      BY <2>1, <2>2, BecomeFacts DEF Good, Sound
    <2>4. Good(Ui') /\ Timely(Ui') /\ Ages(Ui, Ui')
      BY <2>1, <2>3
    <2>5. Good(Ui)'
      BY <2>4 DEF Good, Sound, Owned, Timed, Drawn
    <2>6. Timely(Ui)'
      BY <2>4 DEF Timely
    <2>7. voice' # "idle"
      BY <1>3, NamesAssumption
    <2>8. QED
      BY <1>1, <1>3, <2>4, <2>5, <2>6, <2>7 DEF IInv, StepKeeps
  <1>4. CASE voice' = voice /\ Become(UNION {{r.ui : r \in ShowStatus(Ui, "voice", e)} : e \in Error})
    <2> DEFINE ws == UNION {{r.ui : r \in ShowStatus(Ui, "voice", e)} : e \in Error}
    <2>1. Outcomes(ws)
      <3> SUFFICES ASSUME NEW e \in Error, NEW r \in ShowStatus(Ui, "voice", e)
                   PROVE  Good(r.ui) /\ (Silent(Ui) => Silent(r.ui)) /\ Timely(r.ui) /\ Ages(Ui, r.ui)
        BY DEF Outcomes
      <3>1. Shown(Ui, r, "voice", e) /\ Lasts(Ui, r.ui)
        BY ShowStatusFacts, ShowStatusLasts DEF IInv, Shows, Spoken
      <3>2. Timely(r.ui) /\ Ages(Ui, r.ui)
        BY <3>1, LastsTimely DEF IInv
      <3>3. e \notin Voice
        BY NamesAssumption
      <3>4. QED
        BY <3>1, <3>2, <3>3 DEF Shown, Good, Owned, Timed
    <2>2. Become(ws)
      BY <1>4
    <2> HIDE DEF ws
    <2>3. QED
      BY <1>1, <1>4, <2>1, <2>2, BecomeInv
  <1>5. QED
    BY <1>2, <1>3, <1>4 DEF VoiceEvent

(* A caret rectangle keeps the invariant. *)
LEMMA TextInputRectangleStep == IInv /\ TextInputRectangle => StepKeeps
  <1> SUFFICES ASSUME IInv, TextInputRectangle PROVE StepKeeps
    OBVIOUS
  <1> DEFINE x == [Ui EXCEPT !.anchor.caret = TRUE]
             y == MarkAnchorReady(x)
  <1>1. Kept(Ui, x)
    BY DEF IInv, Kept, Good, Sound, Owned, Timed, Drawn, UiState, Silent, Mute
  <1>2. Become({y})
    BY DEF TextInputRectangle
  <1>3. x.pending = Ui.pending /\ x.schedule = Ui.schedule /\ x.anchor.known = Ui.anchor.known
    BY DEF IInv, Good, Sound, UiState
  <1> HIDE DEF x
  <1>4. Kept(x, y) /\ Lasts(x, y)
    BY <1>1, MarkAnchorReadyFacts, PlainLasts, NoneIsSnapshot DEF Kept
  <1> HIDE DEF y
  <1>5. Lasts(Ui, x)
    BY <1>1, <1>3, SamePendingAges DEF Kept, Lasts
  <1>6. Lasts(Ui, y)
    BY <1>3, <1>4, <1>5, LastsAfter
  <1>7. Outcomes({y})
    BY <1>1, <1>4, <1>6, LastsTimely DEF Kept, Outcomes, IInv
  <1>8. QED
    BY <1>2, <1>7, BecomeInv DEF TextInputRectangle, Happens, Quietly, IInv

(* What is visible may be drawn anew by anyone who owns it. *)
LEMMA PanelRefreshFacts ==
    ASSUME NEW w, Good(w), NEW x \in PanelRefresh(w)
    PROVE  Kept(w, x) /\ Lasts(w, x)
  <1>1. CASE x = w
    BY <1>1, PlainLasts, NoneIsSnapshot DEF Kept
  <1>2. CASE w.panel.visible /\ \E r \in PanelUpdate(w) : x = r.ui
    <2>1. Sound(x) /\ SamePopup(w, x)
      BY <1>2, PanelUpdateFacts DEF Good
    <2>2. Mute(w) => Mute(x)
      BY <1>2, PanelUpdateFacts DEF Good
    <2>3. (Silent(w) => Silent(x)) /\ Owned(x)
      BY <1>2, <2>1, <2>2 DEF Good, Owned, Timed, SamePopup, Silent
    <2>4. Kept(w, x)
      BY <2>1, <2>3 DEF Kept, Good, SamePopup
    <2>5. Lasts(w, x)
      BY <2>1, SamePendingAges DEF Lasts, SamePopup
    <2>6. QED
      BY <2>4, <2>5
  <1>3. QED
    BY <1>1, <1>2 DEF PanelRefresh

(* Forgetting what was drawn changes no owner. *)
LEMMA ForgottenGeometry ==
    ASSUME IInv
    PROVE  LET x == [Ui EXCEPT !.panel.geom = None]
           IN  Kept(Ui, x) /\ Lasts(Ui, x) /\ x.pending = Ui.pending
  <1> DEFINE x == [Ui EXCEPT !.panel.geom = None]
  <1>1. Kept(Ui, x)
    BY DEF IInv, Kept, Good, Sound, Owned, Timed, Drawn, UiState, Panel, Silent, Mute
  <1>2. /\ x.pending = Ui.pending /\ x.focused = Ui.focused /\ x.schedule = Ui.schedule
        /\ x.anchor = Ui.anchor
    BY DEF IInv, Good, Sound, UiState
  <1> HIDE DEF x
  <1>3. QED
    BY <1>1, <1>2, SamePendingAges DEF Lasts, x

(* A rescaling keeps the invariant. *)
LEMMA ScaleChangeStep == IInv /\ ScaleChange => StepKeeps
  <1> SUFFICES ASSUME IInv, ScaleChange PROVE StepKeeps
    OBVIOUS
  <1> DEFINE x == [Ui EXCEPT !.panel.geom = None]
  <1>1. Kept(Ui, x) /\ Lasts(Ui, x) /\ x.pending = Ui.pending
    BY ForgottenGeometry
  <1>2. Become(PanelRefresh(x))
    BY DEF ScaleChange
  <1> HIDE DEF x
  <1>3. Outcomes(PanelRefresh(x))
    BY <1>1, PanelRefreshFacts, LastsAfter, LastsTimely DEF Kept, Outcomes, IInv
  <1>4. QED
    BY <1>2, <1>3, BecomeInv DEF ScaleChange, Happens, Quietly, IInv

(* A change of configuration keeps the invariant. *)
LEMMA InvalidateConfigStep == IInv /\ InvalidateConfig => StepKeeps
  <1> SUFFICES ASSUME IInv, InvalidateConfig PROVE StepKeeps
    OBVIOUS
  <1>1. Outcomes({[Ui EXCEPT !.panel.geom = None]})
    BY ForgottenGeometry, LastsTimely DEF Kept, Outcomes, IInv
  <1>2. QED
    BY <1>1, BecomeInv DEF InvalidateConfig, Happens, Quietly, IInv

(* The panel that a lost connection takes with it leaves nothing visible. *)
LEMMA ReconnectStep == IInv /\ Reconnect => StepKeeps
  <1> SUFFICES ASSUME IInv, Reconnect PROVE StepKeeps
    OBVIOUS
  <1> DEFINE x == [Ui EXCEPT !.panel = NewPanel, !.screen = None]
  <1>1. NewPanel \in Panel /\ ~NewPanel.visible /\ ~NewPanel.lost /\ NewPanel.selected = None
    BY DEF Panel, NewPanel, Aux
  <1>2. Become({x})
    BY DEF Reconnect
  <1>3. /\ x \in UiState /\ x.pending = Ui.pending /\ x.focused = Ui.focused /\ x.schedule = Ui.schedule
        /\ x.anchor = Ui.anchor /\ x.owner = Ui.owner /\ x.panel = NewPanel /\ x.screen = None
    BY <1>1 DEF IInv, Good, Sound, UiState
  <1> HIDE DEF x
  <1>4. Kept(Ui, x)
    BY <1>1, <1>3 DEF IInv, Kept, Good, Sound, Owned, Drawn, Silent
  <1>5. Lasts(Ui, x)
    BY <1>3, SamePendingAges DEF Lasts
  <1>6. Outcomes({x})
    BY <1>4, <1>5, LastsTimely DEF Kept, Outcomes, IInv
  <1>7. QED
    BY <1>2, <1>6, BecomeInv DEF Reconnect, Happens, Quietly, IInv

(* A surface that is lost keeps the invariant. *)
LEMMA LoseSurfaceStep == IInv /\ LoseSurface => StepKeeps
  <1> SUFFICES ASSUME IInv, LoseSurface PROVE StepKeeps
    OBVIOUS
  <1> DEFINE x == [Ui EXCEPT !.panel.lost = TRUE]
  <1>1. /\ Sound(x) /\ x.owner = Ui.owner /\ x.focused = Ui.focused /\ x.indicator = Ui.indicator
        /\ x.pending = Ui.pending /\ x.screen = Ui.screen /\ x.schedule = Ui.schedule /\ x.anchor = Ui.anchor
        /\ x.panel.visible = Ui.panel.visible /\ x.panel.status = Ui.panel.status
    BY DEF IInv, Good, Sound, UiState, Panel, Drawn
  <1>2. Become({x})
    BY DEF LoseSurface
  <1> HIDE DEF x
  <1>3. Good(x) /\ (Silent(Ui) => Silent(x)) /\ Timely(x) /\ Ages(Ui, x)
    BY <1>1, SamePendingAges DEF IInv, Good, Owned, Timed, Silent, Mute, Timely
  <1>4. Outcomes({x})
    BY <1>3 DEF Outcomes
  <1>5. QED
    BY <1>2, <1>4, BecomeInv DEF LoseSurface, IInv

(* A compositor that stalls and a loop that is woken keep the invariant. *)
LEMMA StillStep == IInv /\ (StallOrResume \/ OtherWakes) => StepKeeps
  <1> SUFFICES ASSUME IInv, StallOrResume \/ OtherWakes PROVE StepKeeps
    OBVIOUS
  <1>1. Outcomes({Ui})
    BY SamePendingAges DEF Outcomes, IInv
  <1>2. Become({Ui}) /\ voice' = voice
    BY DEF StallOrResume, OtherWakes, Quietly
  <1>3. stalled' \in BOOLEAN /\ woken' \in BOOLEAN
    BY DEF StallOrResume, OtherWakes, Happens, IInv
  <1>4. QED
    BY <1>1, <1>2, <1>3, BecomeInv

(* The passing of time keeps the invariant. *)
LEMMA ElapseStep == IInv /\ Elapse => StepKeeps
  <1> SUFFICES ASSUME IInv, Elapse PROVE StepKeeps
    OBVIOUS
  <1> DEFINE x == [Ui EXCEPT !.pending.due = TRUE]
             p == [pending EXCEPT !.due = TRUE]
  <1>1. pending \in Positioned /\ pending.owner # "none"
    BY DEF IInv, Good, Sound, Ui, UiState, Elapse
  <1>2. p \in Positioned /\ p.owner = pending.owner /\ p.text = pending.text
    <2>1. CASE pending = NoPending
      <3>1. NoPending.owner = "none"
        BY DEF NoPending
      <3>2. QED
        BY <1>1, <2>1, <3>1
    <2>2. CASE pending \in [owner : {"indicator"}, text : Label, due : BOOLEAN]
      BY <2>2 DEF Positioned
    <2>3. CASE pending \in [owner : {"voice"}, text : Spoken, due : BOOLEAN]
      BY <2>3 DEF Positioned
    <2>4. QED
      BY <1>1, <2>1, <2>2, <2>3 DEF Positioned
  <1>3. x = [Ui EXCEPT !.pending = p]
    BY DEF Ui
  <1> HIDE DEF p, x
  <1>4. Kept(Ui, x)
    <2>1. /\ x \in UiState /\ x.pending = p /\ x.focused = Ui.focused /\ x.indicator = Ui.indicator
          /\ x.anchor = Ui.anchor /\ x.owner = Ui.owner /\ x.panel = Ui.panel /\ x.screen = Ui.screen
      BY <1>2, <1>3 DEF IInv, Good, Sound, UiState
    <2>2. Ui.pending = pending
      BY DEF Ui
    <2>3. QED
      BY <1>2, <2>1, <2>2 DEF IInv, Kept, Good, Sound, Owned, Timed, Drawn, Silent, Mute
  <1>5. Become({x})
    BY DEF Elapse, x
  <1>6. x.pending = p /\ x.focused = focused /\ x.schedule = schedule /\ x.anchor = anchor
    BY <1>3 DEF Ui
  <1>7. p.due
    BY <1>1 DEF Positioned, NoPending, p
  <1>8. Timely(x) /\ Ages(Ui, x)
    BY <1>1, <1>2, <1>6, <1>7 DEF Timely, Ages, Overdue, IInv, Ui
  <1>9. Outcomes({x})
    BY <1>4, <1>8 DEF Kept, Outcomes
  <1>10. QED
    BY <1>5, <1>9, BecomeInv DEF Elapse, IInv

(* The indicator's timer keeps the invariant. *)
LEMMA IndicatorTimerStep == IInv /\ IndicatorTimer => StepKeeps
  <1> SUFFICES ASSUME IInv, IndicatorTimer PROVE StepKeeps
    OBVIOUS
  <1>1. Outcomes({HideIndicator(Ui)})
    BY HideIndicatorFacts, HideIndicatorLasts, LastsTimely DEF Kept, Outcomes, IInv
  <1>2. QED
    BY <1>1, BecomeInv DEF IndicatorTimer, IInv

(* The flush at the end of an iteration keeps the invariant.  What has     *)
(* waited long enough waits no more, and no update is still to come unless *)
(* no frame is taken or the surface was lost.                              *)
LEMMA FlushPendingPanelStep ==
    IInv /\ FlushPendingPanel =>
        StepKeeps /\ (pending.due => pending'.owner = "none") /\ (schedule' = "idle" \/ stalled \/ panel.lost)
  <1> SUFFICES ASSUME IInv, FlushPendingPanel
               PROVE  StepKeeps /\ (pending.due => pending'.owner = "none") /\ (schedule' = "idle" \/ stalled \/ panel.lost)
    OBVIOUS
  <1> DEFINE ws == UNION {FlushScheduled(w) : w \in FlushPositioned(Ui)}
  <1>1. ASSUME NEW x \in ws
        PROVE  /\ Good(x) /\ (Silent(Ui) => Silent(x)) /\ Timely(x) /\ Ages(Ui, x)
               /\ Ui.pending.due => x.pending.owner = "none"
               /\ x.schedule = "idle" \/ stalled \/ Ui.panel.lost
    <2>1. PICK w \in FlushPositioned(Ui) : x \in FlushScheduled(w)
      BY <1>1
    <2>2. Kept(Ui, w) /\ Lasts(Ui, w) /\ (Ui.pending.due => w.pending.owner = "none")
      BY <2>1, FlushPositionedFacts, FlushPositionedLasts DEF IInv
    <2>3. Timely(w)
      BY <2>2, LastsTimely DEF IInv
    <2>4. Good(x) /\ (Silent(w) => Silent(x))
      BY <2>1, <2>2, FlushScheduledFacts DEF Kept
    <2>5. /\ Timely(x) /\ (x.pending = w.pending \/ x.pending.owner = "none")
          /\ x.schedule = "idle" \/ stalled \/ w.panel.lost
      BY <2>1, <2>2, <2>3, FlushScheduledOnward DEF Kept
    <2>6. QED
      BY <2>2, <2>4, <2>5 DEF Kept, Lasts, Ages, Overdue
  <1>2. Become(ws)
    BY DEF FlushPendingPanel
  <1> HIDE DEF ws
  <1>3. Outcomes(ws)
    BY <1>1 DEF Outcomes
  <1>4. Ui' \in ws
    BY <1>1, <1>2, BecomeFacts DEF Good, Sound
  <1>5. (Ui.pending.due => Ui'.pending.owner = "none") /\ (Ui'.schedule = "idle" \/ stalled \/ Ui.panel.lost)
    BY <1>1, <1>4
  <1>6. QED
    BY <1>2, <1>3, <1>5, BecomeInv DEF FlushPendingPanel, IInv, Ui

(* Every step keeps the invariant. *)
LEMMA NextInv == IInv /\ [Next]_vars => StepKeeps
  <1> SUFFICES ASSUME IInv, [Next]_vars PROVE StepKeeps
    OBVIOUS
  <1>1. CASE Next
    BY <1>1, CompositionStep, CommitStep, OnEngineChangeStep, OnModeChangeStep, VoiceEventStep,
       ImActivateStep, FocusInStep, ReactivateStep, FocusOutStep, TextInputRectangleStep,
       ScaleChangeStep, InvalidateConfigStep, ReconnectStep, LoseSurfaceStep, StillStep, ElapseStep,
       IndicatorTimerStep, FlushPendingPanelStep DEF Next
  <1>2. CASE UNCHANGED vars
    <2>1. Ui' = Ui
      BY <1>2 DEF vars, Ui
    <2>2. Good(Ui)' /\ (Silent(Ui) => Silent(Ui)') /\ Timely(Ui)' /\ Ages(Ui, Ui')
      BY <2>1, SamePendingAges DEF IInv, Good, Sound, Owned, Timed, Drawn, Silent, Mute, Timely
    <2>3. QED
      BY <1>2, <2>2 DEF vars, IInv, StepKeeps
  <1>3. QED
    BY <1>1, <1>2

(* The inductive invariant holds in every reachable state. *)
THEOREM Invariance == Spec => []IInv
  <1>1. IInv /\ [Next]_vars => IInv'
    BY NextInv DEF StepKeeps
  <1>2. QED
    BY <1>1, InitInv, PTL DEF Spec

(* Every variable keeps to its type, a popup's text is of its owner's      *)
(* kind, an anchor is ready only of a known generation, and the panel's    *)
(* idea of what it shows is what the screen shows.                         *)
THEOREM TypeCorrect == Spec => []TypeOK
  <1>1. IInv => TypeOK
    BY DEF IInv, Good, Sound, Drawn, Ui, TypeOK
  <1>2. QED
    BY <1>1, Invariance, PTL

(* Whatever is on the screen has an owner that can take it down, and a     *)
(* candidate list belongs to a focused context.                            *)
THEOREM PopupHasOwner == Spec => []PanelIsOwned
  <1>1. IInv => PanelIsOwned
    BY DEF IInv, Good, Owned, Timed, Ui, PanelIsOwned
  <1>2. QED
    BY <1>1, Invariance, PTL

(* An indicator on the screen has a running timer, unless the process      *)
(* could make none.                                                        *)
THEOREM IndicatorHasTimer == Spec => []IndicatorIsTimed
  <1>1. IInv => IndicatorIsTimed
    BY DEF IInv, Good, Owned, Timed, Ui, IndicatorIsTimed
  <1>2. QED
    BY <1>1, Invariance, PTL

(* An idle voice session has none of its states on the screen as its       *)
(* status, and none waiting: at most an error.                             *)
THEOREM VoiceStatusIsTakenDown == Spec => []VoiceStatusEnds
  <1>1. IInv => VoiceStatusEnds
    BY DEF IInv, Silent, Mute, Ui, VoiceStatusEnds
  <1>2. QED
    BY <1>1, Invariance, PTL

-----------------------------------------------------------------------------
(* What is promised to happen.  Each proof names what holds until it does, *)
(* and the step of the loop, taken again and again, that makes it happen.  *)

(* A popup that waits, and has not for long enough or has.                 *)
Young(who) == Waits(who) /\ ~pending.due
Old(who) == Waits(who) /\ pending.due

(* An iteration that was woken ends in a flush. *)
LEMMA WokenUntilFlush == woken /\ [Next]_vars => woken' \/ <<FlushPendingPanel>>_vars
  BY ZenonT(60) DEF Next, vars, FlushPendingPanel, Happens, Composition, Commit, OnEngineChange, OnModeChange,
     VoiceEvent, ImActivate, FocusIn, Reactivate, FocusOut, TextInputRectangle, ScaleChange,
     InvalidateConfig, Reconnect, LoseSurface, StallOrResume, OtherWakes, Elapse, IndicatorTimer

(* A popup that waits is shown or dropped as long as the loop is woken:    *)
(* what has waited long enough is not made to wait anew by being asked for *)
(* again, and the next iteration's flush is the end of it.                 *)
LEMMA WaitEnds ==
    ASSUME NEW who \in {"indicator", "voice"}
    PROVE  Spec => ([]<>woken => (Waits(who) ~> ~Waits(who)))
  <1>1. IInv /\ Young(who) /\ [Next]_vars => (Young(who) \/ Old(who) \/ ~Waits(who))'
    BY DEF Young, Old
  <1>2. Young(who) => pending.owner # "none" /\ ~pending.due
    BY DEF Young, Waits
  <1>3. IInv /\ Old(who) /\ [Next]_vars => (Old(who) \/ ~Waits(who))'
    BY NextInv DEF StepKeeps, Ages, Overdue, Old, Waits, Ui
  <1>4. IInv /\ Old(who) /\ <<FlushPendingPanel>>_vars => ~Waits(who)'
    BY FlushPendingPanelStep DEF Old, Waits
  <1>5. woken /\ [Next]_vars => woken' \/ <<FlushPendingPanel>>_vars
    BY WokenUntilFlush
  <1>6. Waits(who) <=> Young(who) \/ Old(who)
    BY DEF Young, Old
  <1>7. QED
    BY <1>1, <1>2, <1>3, <1>4, <1>5, <1>6, Invariance, PTL DEF Spec, Fair

(* A popup that waits for a caret is shown or dropped as long as the loop  *)
(* goes on being woken, whatever the client sends and however often it is  *)
(* asked for again.                                                        *)
THEOREM PendingIsResolved == Spec => PendingResolves
  BY WaitEnds DEF PendingResolves

(* An update of the list that could not be drawn is finished once frames   *)
(* are taken, or its context has lost the focus, unless the surface is     *)
(* lost again before, as long as the loop goes on being woken.             *)
THEOREM RetriesEnd == Spec => RetryEnds
  <1> DEFINE Goal == schedule = "idle" \/ ~focused \/ stalled \/ panel.lost
  <1>1. IInv /\ ~Goal /\ <<FlushPendingPanel>>_vars => Goal'
    BY FlushPendingPanelStep DEF FlushPendingPanel
  <1>2. schedule # "idle" /\ focused => Goal \/ ~Goal
    OBVIOUS
  <1> HIDE DEF Goal
  <1>3. woken /\ [Next]_vars => woken' \/ <<FlushPendingPanel>>_vars
    BY WokenUntilFlush
  <1>4. Spec => ([]<>woken => (schedule # "idle" /\ focused ~> Goal))
    BY <1>1, <1>2, <1>3, Invariance, PTL DEF Spec, Fair
  <1>5. QED
    BY <1>4 DEF Goal, RetryEnds
=============================================================================

--------------------------- MODULE UdsServerProofs ---------------------------
(***************************************************************************)
(* Theorems about UdsServer, for any clients, requests, sizes of frames,   *)
(* of buffers and of the slot table: type correctness, one slot for every  *)
(* open connection, streams that carry what was promised, and answers in   *)
(* the order of the requests.                                              *)
(***************************************************************************)
EXTENDS UdsServer, SequenceTheorems, FiniteSetTheorems, NaturalsInduction, TLAPS

-----------------------------------------------------------------------------
(* Types. *)
RequestFrame == [kind : {"request"}, id : Nat, of : Request, size : Nat]
ReplyFrame == [kind : {"reply"}, id : Nat, size : Nat]
NoteFrame == [kind : {"note"}, topic : Topic \cup {Shutdown}, size : Nat]
RequestCell == RequestFrame \X Nat
AnswerCell == (ReplyFrame \cup NoteFrame) \X Nat

SlotType ==
    [fd : {NoFd} \cup Fds, wild : BOOLEAN, topics : SUBSET Topic,
     rbuf : Seq(RequestCell), wbuf : Seq(AnswerCell), wpos : Nat]
ConnType ==
    [cl : {"new", "open", "closed"}, sv : {"none", "queued", "open", "closed"}, fd : {NoFd} \cup Fds,
     inq : Seq(RequestCell), outq : Seq(AnswerCell), sent : Nat, left : Seq(RequestCell),
     owed : Seq(AnswerCell), answered : Nat, asked : SUBSET (Topic \cup {Shutdown})]
SlotOk(sl) ==
    sl \in SlotType /\ Len(sl.rbuf) <= ReadBuf /\ Len(sl.wbuf) <= WriteBuf /\ sl.wpos <= Len(sl.wbuf)
ConnOk(co) == co \in ConnType /\ co.cl # "new" /\ Len(co.inq) <= SockBuf /\ Len(co.outq) <= SockBuf

(* Every cell of q stands in a whole frame, in its place. *)
Whole(q) ==
    \A i \in 1..Len(q) :
       /\ q[i][2] \in 0..q[i][1].size /\ q[i][2] < i /\ i - q[i][2] + q[i][1].size <= Len(q)
       /\ \A j \in 0..q[i][1].size : q[i - q[i][2] + j] = <<q[i][1], j>>

Prefix(p, q) == \E n \in 0..Len(q) : p = Take(q, n)
Pending(l) == l.co.outq \o Unsent(l.sl)
Requests(l) == l.sl.rbuf \o l.co.inq \o l.co.left

(* The requests up to h have been taken, and answered or the answer is     *)
(* owed; those after h are still to be read.  A reply over MaxFrame is     *)
(* dropped, so that this takes replies which fit.                          *)
Fits == ReplySize \subseteq 0..MaxFrame
Answering(co, h) == h \in co.answered..co.sent /\ Numbered(co.owed, "reply", co.answered, h)
Asking(q, h, sent) == Whole(q) /\ Numbered(q, "request", h, sent)
KnowsTopics(l) == \A t \in Topic \cup {Shutdown} : t \in l.co.asked <=> ClientMatchesTopic(l.sl, t)

(* A connection that the server holds in a slot. *)
Link == [sl : SlotType, co : ConnType]
LinkOk(l) == l \in Link /\ SlotOk(l.sl) /\ ConnOk(l.co)
Served(l) ==
    /\ LinkOk(l) /\ l.co.sv = "open" /\ l.sl.fd \in Fds /\ l.co.fd = l.sl.fd
    /\ l.co.cl = "open" =>
          /\ l.co.owed = Pending(l) /\ KnowsTopics(l)
          /\ Fits => \E h \in Nat : Answering(l.co, h) /\ Asking(Requests(l), h, l.co.sent)
(* One that it has closed. *)
Ended(co) ==
    /\ ConnOk(co) /\ co.sv = "closed" /\ co.fd = NoFd
    /\ co.cl = "open" => Prefix(co.outq, co.owed) /\ (Fits => \E h \in Nat : Answering(co, h))
(* One that waits for accept. *)
Queued(co) ==
    /\ ConnOk(co) /\ co.sv = "queued" /\ co.fd = NoFd /\ co.answered = 0
    /\ co.outq = <<>> /\ co.owed = <<>> /\ co.asked = {}
    /\ co.cl = "open" => Asking(co.inq \o co.left, 0, co.sent)
Unserved(co) == co = FreeConn \/ Ended(co) \/ Queued(co)

State == [slot : [Slots -> SlotType], conn : [Conn -> ConnType]]
Linked(s, i, c) == s.slot[i].fd # NoFd /\ s.conn[c].sv = "open" /\ s.conn[c].fd = s.slot[i].fd
LinkAt(s, i, c) == [sl |-> s.slot[i], co |-> s.conn[c]]
Good(s) ==
    /\ s \in State
    /\ \A i \in Slots : s.slot[i] = FreeSlot \/ \E c \in Conn : Linked(s, i, c)
    /\ \A c \in Conn : Unserved(s.conn[c]) \/ \E i \in Slots : Linked(s, i, c)
    /\ \A i \in Slots, c \in Conn : Linked(s, i, c) =>
          /\ Served(LinkAt(s, i, c))
          /\ \A j \in Slots : Linked(s, j, c) => j = i
          /\ \A d \in Conn : Linked(s, i, d) => d = c

Line ==
    /\ queue \in Seq(Conn) /\ Len(queue) <= Backlog
    /\ \A i, j \in 1..Len(queue) : queue[i] = queue[j] => i = j
    /\ \A c \in Conn : conn[c].sv = "queued" <=> \E i \in 1..Len(queue) : queue[i] = c
Batch ==
    /\ job \in [todo : SUBSET ({Incoming} \cup [fd : Fds, hup : BOOLEAN]), at : 0..Accepting]
    /\ job.at \in Slots => slot[job.at].fd # NoFd

IInv ==
    /\ Good(S) /\ Line /\ Batch
    /\ up \in BOOLEAN /\ path \in {"free", "ours", "stale"}
    /\ ~up => job = Rest /\ queue = <<>> /\ \A i \in Slots : slot[i] = FreeSlot


-----------------------------------------------------------------------------
(* Sequences.                                                              *)

(* What Take and Drop return, place by place, and that they part a queue.  *)
LEMMA PartFacts ==
    ASSUME NEW X, NEW q \in Seq(X), NEW n \in 0..Len(q)
    PROVE  /\ Take(q, n) \in Seq(X) /\ Len(Take(q, n)) = n /\ \A i \in 1..n : Take(q, n)[i] = q[i]
           /\ Drop(q, n) \in Seq(X) /\ Len(Drop(q, n)) = Len(q) - n
           /\ \A i \in 1..(Len(q) - n) : Drop(q, n)[i] = q[n + i]
           /\ Take(q, n) \o Drop(q, n) = q
<1>1. Len(q) \in Nat /\ n \in Nat /\ n <= Len(q) /\ \A i \in 1..Len(q) : q[i] \in X
  BY LenProperties, ElementOfSeq
<1>2. /\ Take(q, n) \in Seq(X) /\ Len(Take(q, n)) = IF 1 <= n THEN n - 1 + 1 ELSE 0
      /\ \A i \in 1..(n - 1 + 1) : Take(q, n)[i] = q[1 + i - 1]
  <2>1. \A i \in 1..n : q[i] \in X
    BY <1>1
  <2>2. QED
    BY <1>1, <2>1, SubSeqProperties DEF Take
<1>3. /\ Drop(q, n) \in Seq(X) /\ Len(Drop(q, n)) = IF n + 1 <= Len(q) THEN Len(q) - (n + 1) + 1 ELSE 0
      /\ \A i \in 1..(Len(q) - (n + 1) + 1) : Drop(q, n)[i] = q[n + 1 + i - 1]
  <2>1. \A i \in (n + 1)..Len(q) : q[i] \in X
    BY <1>1
  <2>2. QED
    BY <1>1, <2>1, SubSeqProperties DEF Drop
<1>4. Take(q, n) \o Drop(q, n) = q
  <2>1. Take(q, n) \o Drop(q, n) = SubSeq(q, 1, Len(q))
    <3>1. 1 \in 1..(Len(q) + 1) /\ n \in (1 - 1)..Len(q) /\ Len(q) \in n..Len(q)
      BY <1>1
    <3>2. SubSeq(q, 1, n) \o SubSeq(q, n + 1, Len(q)) = SubSeq(q, 1, Len(q))
      BY <3>1, ConcatAdjacentSubSeq
    <3>3. QED
      BY <3>2 DEF Take, Drop
  <2>2. QED
    BY <2>1, SubSeqFull
<1>5. QED
  BY <1>1, <1>2, <1>3, <1>4

(* What a concatenation returns, place by place. *)
LEMMA JoinFacts ==
    ASSUME NEW X, NEW q \in Seq(X), NEW r \in Seq(X)
    PROVE  /\ q \o r \in Seq(X) /\ Len(q) \in Nat /\ Len(r) \in Nat /\ Len(q \o r) = Len(q) + Len(r)
           /\ \A i \in 1..Len(q) : (q \o r)[i] = q[i]
           /\ \A i \in 1..Len(r) : (q \o r)[Len(q) + i] = r[i]
<1>1. Len(q) \in Nat /\ Len(r) \in Nat
  BY LenProperties
<1>2. /\ q \o r \in Seq(X) /\ Len(q \o r) = Len(q) + Len(r)
      /\ \A i \in 1..(Len(q) + Len(r)) : (q \o r)[i] = IF i <= Len(q) THEN q[i] ELSE r[i - Len(q)]
  BY ConcatProperties
<1>3. QED
  BY <1>1, <1>2

(* What is dropped from the front is not what is appended at the end.      *)
LEMMA DropOfJoin ==
    ASSUME NEW X, NEW q \in Seq(X), NEW r \in Seq(X), NEW n \in 0..Len(q)
    PROVE  Drop(q \o r, n) = Drop(q, n) \o r
<1> DEFINE t == q \o r
           d == Drop(q, n)
           u == Drop(t, n)
           v == d \o r
<1>1. /\ t \in Seq(X) /\ Len(q) \in Nat /\ Len(r) \in Nat /\ Len(t) = Len(q) + Len(r)
      /\ \A i \in 1..Len(q) : t[i] = q[i]
      /\ \A i \in 1..Len(r) : t[Len(q) + i] = r[i]
  BY JoinFacts
<1>2. d \in Seq(X) /\ Len(d) = Len(q) - n /\ \A i \in 1..(Len(q) - n) : d[i] = q[n + i]
  BY PartFacts
<1> HIDE DEF t, d
<1>3. n \in Nat /\ n <= Len(q) /\ n \in 0..Len(t)
  BY <1>1
<1>4. u \in Seq(X) /\ Len(u) = Len(t) - n /\ \A i \in 1..(Len(t) - n) : u[i] = t[n + i]
  BY <1>1, <1>3, PartFacts, ZenonT(60)
<1>5. /\ v \in Seq(X) /\ Len(v) = Len(d) + Len(r)
      /\ \A i \in 1..Len(d) : v[i] = d[i]
      /\ \A i \in 1..Len(r) : v[Len(d) + i] = r[i]
  <2>1. d \in Seq(X)
    BY <1>2
  <2>2. QED
    BY <2>1, JoinFacts
<1> HIDE DEF u, v
<1>6. Len(u) = Len(q) + Len(r) - n /\ Len(v) = Len(u)
  BY <1>1, <1>2, <1>3, <1>4, <1>5
<1>7. ASSUME NEW i \in 1..Len(u)
      PROVE  u[i] = v[i]
  <2>1. CASE i <= Len(d)
    <3>1. i \in 1..Len(d) /\ n + i \in 1..Len(q) /\ i \in 1..(Len(q) - n)
      BY <2>1, <1>1, <1>2, <1>3, <1>6, SMTT(60)
    <3>2. QED
      BY <3>1, <1>1, <1>2, <1>4, <1>5, <1>6, ZenonT(60)
  <2>2. CASE i > Len(d)
    <3>1. PICK j \in 1..Len(r) : i = Len(d) + j
      <4>1. i - Len(d) \in 1..Len(r) /\ i = Len(d) + (i - Len(d))
        BY <2>2, <1>1, <1>2, <1>3, <1>6
      <4>2. QED
        BY <4>1
    <3>2. n + i = Len(q) + j
      BY <3>1, <1>1, <1>2, <1>3
    <3>3. u[i] = t[n + i]
      BY <1>1, <1>3, <1>4, <1>6
    <3>4. QED
      BY <3>1, <3>2, <3>3, <1>1, <1>5
  <2>3. QED
    BY <2>1, <2>2, <1>1, <1>2, <1>3, <1>6
<1>8. u = v
  BY <1>4, <1>5, <1>6, <1>7, SeqEqual
<1>9. QED
  BY <1>8 DEF t, d, u, v

(* Dropping n and then m is dropping n + m. *)
LEMMA DropOfDrop ==
    ASSUME NEW X, NEW q \in Seq(X), NEW n \in 0..Len(q), NEW m \in 0..(Len(q) - n)
    PROVE  Drop(Drop(q, n), m) = Drop(q, n + m)
<1> DEFINE d == Drop(q, n)
           u == Drop(d, m)
           v == Drop(q, n + m)
<1>1. Len(q) \in Nat /\ n \in Nat /\ m \in Nat /\ n + m \in 0..Len(q) /\ Len(q) - n - m = Len(q) - (n + m)
  BY LenProperties
<1>2. d \in Seq(X) /\ Len(d) = Len(q) - n
  BY PartFacts
<1>3. \A i \in 1..(Len(q) - n) : d[i] = q[n + i]
  BY PartFacts, SMTT(60)
<1>4. v \in Seq(X) /\ Len(v) = Len(q) - (n + m)
  BY <1>1, PartFacts, ZenonT(60)
<1>5. \A i \in 1..(Len(q) - (n + m)) : v[i] = q[n + m + i]
  <2> DEFINE k == n + m
  <2>1. k \in 0..Len(q)
    BY <1>1
  <2> HIDE DEF k
  <2>2. \A i \in 1..(Len(q) - k) : Drop(q, k)[i] = q[k + i]
    BY <2>1, PartFacts
  <2>3. QED
    BY <2>2 DEF k
<1> HIDE DEF d, v
<1>6. m \in 0..Len(d)
  BY <1>2
<1>7. u \in Seq(X) /\ Len(u) = Len(d) - m
  BY <1>2, <1>6, PartFacts, ZenonT(60)
<1>8. \A i \in 1..(Len(d) - m) : u[i] = d[m + i]
  BY <1>2, <1>6, PartFacts
<1> HIDE DEF u
<1>9. Len(u) = Len(v)
  BY <1>1, <1>2, <1>4, <1>7
<1>10. ASSUME NEW i \in 1..Len(u)
       PROVE  u[i] = v[i]
  <2>1. /\ i \in 1..(Len(d) - m) /\ i \in 1..(Len(q) - (n + m))
        /\ m + i \in 1..(Len(q) - n) /\ n + (m + i) = n + m + i
    BY <1>1, <1>2, <1>7
  <2>2. u[i] = d[m + i]
    BY <2>1, <1>8
  <2>3. d[m + i] = q[n + (m + i)]
    BY <2>1, <1>3
  <2>4. v[i] = q[n + m + i]
    BY <2>1, <1>5
  <2>5. QED
    BY <2>1, <2>2, <2>3, <2>4
<1>11. u = v
  BY <1>4, <1>7, <1>9, <1>10, SeqEqual
<1>12. QED
  BY <1>11 DEF d, u, v

(* The cells of a frame: its prefix, then its body. *)
LEMMA CellsFacts ==
    ASSUME NEW F, NEW f \in F, f.size \in Nat
    PROVE  /\ Cells(f) \in Seq(F \X Nat) /\ Len(Cells(f)) = f.size + 1
           /\ \A i \in 1..(f.size + 1) : Cells(f)[i] = <<f, i - 1>>
           /\ Take(Cells(f), 1) \in Seq(F \X Nat) /\ Drop(Cells(f), 1) \in Seq(F \X Nat)
           /\ Take(Cells(f), 1) \o Drop(Cells(f), 1) = Cells(f)
<1>1. Cells(f) \in [1..(f.size + 1) -> F \X Nat]
  BY DEF Cells
<1>2. f.size + 1 \in Nat
  OBVIOUS
<1>3. Cells(f) \in Seq(F \X Nat)
  BY <1>1, <1>2, SeqDef
<1>4. Len(Cells(f)) = f.size + 1
  BY <1>1, <1>2, <1>3, LenProperties
<1>5. 1 \in 0..Len(Cells(f))
  BY <1>2, <1>4
<1>6. /\ Take(Cells(f), 1) \in Seq(F \X Nat) /\ Drop(Cells(f), 1) \in Seq(F \X Nat)
      /\ Take(Cells(f), 1) \o Drop(Cells(f), 1) = Cells(f)
  BY <1>3, <1>5, PartFacts
<1>7. \A i \in 1..(f.size + 1) : Cells(f)[i] = <<f, i - 1>>
  BY DEF Cells
<1>8. QED
  BY <1>3, <1>4, <1>6, <1>7


-----------------------------------------------------------------------------
(* Frames in a queue.                                                      *)

With(q, f) == q \o Cells(f)
Extended(t, q, f, kind) ==
    /\ Ends(t, kind) = Ends(q, kind) \cup (IF f.kind = kind THEN {Len(t)} ELSE {})
    /\ \A i \in Ends(q, kind) : i < Len(t) /\ t[i] = q[i]
    /\ Len(t) \in Nat /\ t[Len(t)][1] = f

(* One frame appended: it ends where the queue ends. *)
LEMMA EndsOfJoin ==
    ASSUME NEW F, NEW q \in Seq(F \X Nat), NEW f \in F, f.size \in Nat, NEW kind,
           NEW t, t = With(q, f)
    PROVE  Extended(t, q, f, kind)
<1> DEFINE c == Cells(f)
<1>1. c \in Seq(F \X Nat) /\ Len(c) = f.size + 1 /\ \A i \in 1..(f.size + 1) : c[i] = <<f, i - 1>>
  BY CellsFacts
<1> HIDE DEF c
<1>2. /\ t \in Seq(F \X Nat) /\ Len(q) \in Nat /\ Len(t) = Len(q) + Len(c)
      /\ \A i \in 1..Len(q) : t[i] = q[i]
      /\ \A i \in 1..Len(c) : t[Len(q) + i] = c[i]
  <2>1. t = q \o c
    BY DEF c, With
  <2>2. c \in Seq(F \X Nat)
    BY <1>1
  <2>3. QED
    BY <2>1, <2>2, JoinFacts
<1>3. Len(q) \in Nat /\ f.size \in Nat /\ Len(t) = Len(q) + f.size + 1 /\ Len(t) \in Nat
  BY <1>1, <1>2
<1>4. ASSUME NEW i \in (Len(q) + 1)..Len(t)
      PROVE  t[i] = <<f, i - Len(q) - 1>>
  <2>1. PICK j \in 1..(f.size + 1) : i = Len(q) + j
    <3>1. i - Len(q) \in 1..(f.size + 1) /\ i = Len(q) + (i - Len(q))
      BY <1>3
    <3>2. QED
      BY <3>1
  <2>2. t[Len(q) + j] = c[j] /\ c[j] = <<f, j - 1>> /\ i - Len(q) - 1 = j - 1
    <3>1. j \in 1..Len(c) /\ i - Len(q) - 1 = j - 1
      BY <1>1, <1>2, <2>1
    <3>2. t[Len(q) + j] = c[j]
      BY <3>1, <1>2
    <3>3. c[j] = <<f, j - 1>>
      BY <1>1
    <3>4. QED
      BY <3>1, <3>2, <3>3
  <2>3. QED
    BY <2>1, <2>2
<1>5. t[Len(t)][1] = f
  <2>1. Len(t) \in (Len(q) + 1)..Len(t)
    BY <1>3
  <2>2. t[Len(t)] = <<f, Len(t) - Len(q) - 1>>
    BY <2>1, <1>4
  <2>3. QED
    BY <2>2
<1>6. ASSUME NEW i \in Ends(q, kind)
      PROVE  i \in 1..Len(q) /\ i < Len(t) /\ t[i] = q[i]
  <2>1. i \in 1..Len(q)
    BY DEF Ends
  <2>2. i < Len(t)
    BY <2>1, <1>3, SMTT(60)
  <2>3. QED
    BY <2>1, <2>2, <1>2
<1>7. ASSUME NEW i \in 1..Len(t)
      PROVE  i \in Ends(t, kind) <=> i \in Ends(q, kind) \/ (f.kind = kind /\ i = Len(t))
  <2>1. CASE i \in 1..Len(q)
    <3>1. t[i] = q[i]
      BY <2>1, <1>2
    <3>2. i # Len(t)
      BY <2>1, <1>3
    <3>3. QED
      BY <2>1, <3>1, <3>2 DEF Ends
  <2>2. CASE i \notin 1..Len(q)
    <3>1. t[i] = <<f, i - Len(q) - 1>>
      <4>1. i \in (Len(q) + 1)..Len(t)
        BY <2>2, <1>3
      <4>2. QED
        BY <4>1, <1>4
    <3>2. i - Len(q) - 1 = f.size <=> i = Len(t)
      <4>1. i \in Nat
        OBVIOUS
      <4>2. QED
        BY <4>1, <1>3, SMTT(60)
    <3>3. i \notin Ends(q, kind)
      BY <2>2 DEF Ends
    <3>4. t[i][1] = f /\ t[i][2] = i - Len(q) - 1
      BY <3>1
    <3>5. QED
      BY <3>2, <3>3, <3>4 DEF Ends
  <2>3. QED
    BY <2>1, <2>2
<1>8. Ends(t, kind) \subseteq 1..Len(t) /\ Ends(q, kind) \subseteq 1..Len(t) /\ Len(t) \in 1..Len(t)
  BY <1>2, <1>3 DEF Ends
<1>9. Ends(t, kind) = Ends(q, kind) \cup (IF f.kind = kind THEN {Len(t)} ELSE {})
  BY <1>7, <1>8
<1>10. QED
  BY <1>3, <1>5, <1>6, <1>9 DEF Extended

(* A further frame takes the next number of its kind. *)
LEMMA NumberedJoin ==
    ASSUME NEW F, NEW q \in Seq(F \X Nat), NEW f \in F, f.size \in Nat,
           NEW kind, f.kind = kind, NEW t, t = With(q, f),
           NEW lo \in Nat, NEW hi \in Nat, lo <= hi, f.id = hi + 1, Numbered(q, kind, lo, hi)
    PROVE  Numbered(t, kind, lo, hi + 1)
<1> Extended(t, q, f, kind)
  BY EndsOfJoin
<1>1. /\ Ends(t, kind) = Ends(q, kind) \cup {Len(t)}
      /\ \A i \in Ends(q, kind) : i < Len(t) /\ t[i] = q[i]
      /\ Len(t) \in Nat /\ t[Len(t)][1] = f
  BY DEF Extended
<1>2. {q[i][1].id : i \in Ends(q, kind)} = (lo + 1)..hi
  BY DEF Numbered
<1>3. \A i, j \in Ends(q, kind) : i < j => q[i][1].id < q[j][1].id
  BY DEF Numbered
<1>4. {t[i][1].id : i \in Ends(t, kind)} = (lo + 1)..hi \cup {hi + 1}
  <2>1. {t[i][1].id : i \in Ends(t, kind)} = {q[i][1].id : i \in Ends(q, kind)} \cup {f.id}
    <3> DEFINE A == {t[i][1].id : i \in Ends(t, kind)}
               B == {q[i][1].id : i \in Ends(q, kind)}
    <3>1. t[Len(t)][1].id = f.id /\ \A i \in Ends(q, kind) : t[i][1].id = q[i][1].id
      BY <1>1
    <3>2. \A i \in Ends(t, kind) : t[i][1].id \in B \cup {f.id}
      BY <3>1, <1>1
    <3>3. \A i \in Ends(q, kind) : q[i][1].id \in A
      BY <3>1, <1>1
    <3>4. f.id \in A
      BY <3>1, <1>1
    <3>5. A \subseteq B \cup {f.id}
      BY <3>2
    <3>6. B \subseteq A
      BY <3>3, ZenonT(60)
    <3> HIDE DEF A, B
    <3>7. A = B \cup {f.id}
      BY <3>4, <3>5, <3>6
    <3>8. QED
      BY <3>7 DEF A, B
  <2>2. QED
    BY <1>2, <2>1
<1>5. (lo + 1)..hi \cup {hi + 1} = (lo + 1)..(hi + 1)
  OBVIOUS
<1>6. ASSUME NEW i \in Ends(t, kind), NEW j \in Ends(t, kind), i < j
      PROVE  t[i][1].id < t[j][1].id
  <2>1. Ends(q, kind) \subseteq Nat
    BY LenProperties DEF Ends
  <2>2. i \in Ends(q, kind) /\ t[i] = q[i]
    BY <1>1, <1>6, <2>1, SMTT(60)
  <2>3. q[i][1].id \in (lo + 1)..hi
    BY <1>2, <2>2
  <2>4. CASE j \in Ends(q, kind)
    BY <2>2, <2>4, <1>1, <1>3, <1>6
  <2>5. CASE j = Len(t)
    BY <2>2, <2>3, <2>5, <1>1, SMTT(60)
  <2>6. QED
    BY <2>4, <2>5, <1>1
<1>7. QED
  BY <1>4, <1>5, <1>6 DEF Numbered

(* A frame of another kind takes none. *)
LEMMA NumberedBeside ==
    ASSUME NEW F, NEW q \in Seq(F \X Nat), NEW f \in F, f.size \in Nat,
           NEW kind, f.kind # kind, NEW t, t = With(q, f),
           NEW lo, NEW hi, Numbered(q, kind, lo, hi)
    PROVE  Numbered(t, kind, lo, hi)
<1> Extended(t, q, f, kind)
  BY EndsOfJoin
<1>1. /\ Ends(t, kind) = Ends(q, kind)
      /\ \A i \in Ends(q, kind) : t[i] = q[i]
  BY DEF Extended
<1>2. {t[i][1].id : i \in Ends(t, kind)} = {q[i][1].id : i \in Ends(q, kind)}
  BY <1>1
<1>3. QED
  BY <1>1, <1>2, ZenonT(60) DEF Numbered

(* What is left of a queue when its front is gone. *)
LEMMA EndsOfDrop ==
    ASSUME NEW X, NEW q \in Seq(X), NEW n \in 0..Len(q), NEW kind, NEW t, t = Drop(q, n)
    PROVE  /\ Ends(t, kind) = {i \in 1..(Len(q) - n) : n + i \in Ends(q, kind)}
           /\ \A i \in Ends(t, kind) : t[i] = q[n + i]
           /\ \A i \in Ends(q, kind) : i \in 1..Len(q) /\ (i > n => i - n \in Ends(t, kind) /\ t[i - n] = q[i])
<1>1. Len(t) = Len(q) - n /\ \A i \in 1..(Len(q) - n) : t[i] = q[n + i]
  BY PartFacts, ZenonT(60)
<1>2. Len(q) \in Nat /\ n \in Nat /\ n <= Len(q)
  BY LenProperties
<1>3. \A i \in 1..(Len(q) - n) : n + i \in 1..Len(q)
  BY <1>2
<1>4. Ends(t, kind) = {i \in 1..(Len(q) - n) : n + i \in Ends(q, kind)}
  <2>1. ASSUME NEW i \in 1..(Len(q) - n)
        PROVE  i \in Ends(t, kind) <=> n + i \in Ends(q, kind)
    BY <1>1, <1>3 DEF Ends
  <2>2. Ends(t, kind) \subseteq 1..(Len(q) - n)
    BY <1>1 DEF Ends
  <2>3. QED
    BY <2>1, <2>2
<1>5. ASSUME NEW i \in Ends(q, kind)
      PROVE  i \in 1..Len(q) /\ (i > n => i - n \in Ends(t, kind) /\ t[i - n] = q[i])
  <2>1. i \in 1..Len(q)
    BY DEF Ends
  <2>2. i > n => i - n \in 1..(Len(q) - n) /\ n + (i - n) = i
    BY <2>1, <1>2
  <2>3. QED
    BY <2>1, <2>2, <1>1, <1>4
<1>6. QED
  BY <1>1, <1>4, <1>5

(* Dropping a front in which no frame of the kind ends drops no number. *)
LEMMA NumberedDropNone ==
    ASSUME NEW X, NEW q \in Seq(X), NEW n \in 0..Len(q), NEW kind, NEW lo, NEW hi,
           Numbered(q, kind, lo, hi), \A i \in Ends(q, kind) : i > n
    PROVE  Numbered(Drop(q, n), kind, lo, hi)
<1> DEFINE t == Drop(q, n)
<1>1. /\ Ends(t, kind) = {i \in 1..(Len(q) - n) : n + i \in Ends(q, kind)}
      /\ \A i \in Ends(t, kind) : t[i] = q[n + i]
      /\ \A i \in Ends(q, kind) : i - n \in Ends(t, kind) /\ t[i - n] = q[i]
  BY EndsOfDrop
<1> HIDE DEF t
<1>2. {t[i][1].id : i \in Ends(t, kind)} = {q[i][1].id : i \in Ends(q, kind)}
  BY <1>1
<1>3. ASSUME NEW i \in Ends(t, kind), NEW j \in Ends(t, kind), i < j
      PROVE  t[i][1].id < t[j][1].id
  <2>1. n + i \in Ends(q, kind) /\ n + j \in Ends(q, kind) /\ n + i < n + j
    BY <1>1, <1>3, LenProperties
  <2>2. QED
    BY <2>1, <1>1 DEF Numbered
<1>4. Numbered(t, kind, lo, hi)
  BY <1>2, <1>3 DEF Numbered
<1>5. QED
  BY <1>4 DEF t

(* Dropping a front at whose end, and only there, a frame of the kind ends *)
(* drops the lowest number.                                                *)
LEMMA NumberedDropOne ==
    ASSUME NEW X, NEW q \in Seq(X), NEW n \in 1..Len(q), NEW kind, NEW lo \in Nat, NEW hi \in Nat,
           Numbered(q, kind, lo, hi), n \in Ends(q, kind), \A i \in Ends(q, kind) : i >= n
    PROVE  /\ q[n][1].id = lo + 1 /\ lo + 1 <= hi
           /\ Numbered(Drop(q, n), kind, lo + 1, hi)
<1> DEFINE t == Drop(q, n)
<1>1. /\ Ends(t, kind) = {i \in 1..(Len(q) - n) : n + i \in Ends(q, kind)}
      /\ \A i \in Ends(t, kind) : t[i] = q[n + i]
      /\ \A i \in Ends(q, kind) : i \in 1..Len(q) /\ (i > n => i - n \in Ends(t, kind) /\ t[i - n] = q[i])
  <2>1. n \in 0..Len(q)
    OBVIOUS
  <2>2. QED
    BY <2>1, EndsOfDrop
<1> HIDE DEF t
<1>2. Len(q) \in Nat /\ n \in Nat
  BY LenProperties
<1>3. {q[i][1].id : i \in Ends(q, kind)} = (lo + 1)..hi
  BY DEF Numbered
<1>4. \A i, j \in Ends(q, kind) : i < j => q[i][1].id < q[j][1].id
  BY DEF Numbered
<1>5. q[n][1].id \in (lo + 1)..hi
  BY <1>3
<1>6. q[n][1].id = lo + 1
  <2>1. lo + 1 \in (lo + 1)..hi
    BY <1>5
  <2>2. PICK i \in Ends(q, kind) : q[i][1].id = lo + 1
    BY <2>1, <1>3
  <2>3. i = n \/ q[n][1].id < q[i][1].id
    BY <1>1, <1>2, <1>4
  <2>4. QED
    BY <1>5, <2>2, <2>3
<1>7. {t[i][1].id : i \in Ends(t, kind)} = (lo + 2)..hi
  <2>1. ASSUME NEW i \in Ends(t, kind)
        PROVE  t[i][1].id \in (lo + 2)..hi
    <3>1. n + i \in Ends(q, kind) /\ n < n + i /\ t[i] = q[n + i]
      BY <1>1, <1>2
    <3>2. q[n + i][1].id \in (lo + 1)..hi /\ q[n][1].id < q[n + i][1].id
      BY <3>1, <1>3, <1>4
    <3>3. QED
      BY <3>1, <3>2, <1>6
  <2>2. ASSUME NEW m \in (lo + 2)..hi
        PROVE  \E i \in Ends(t, kind) : t[i][1].id = m
    <3>1. PICK i \in Ends(q, kind) : q[i][1].id = m
      <4>1. m \in (lo + 1)..hi
        OBVIOUS
      <4>2. QED
        BY <4>1, <1>3
    <3>2. i # n /\ i >= n /\ i \in 1..Len(q)
      BY <3>1, <1>1, <1>6
    <3>3. QED
      BY <3>1, <3>2, <1>1, <1>2, SMTT(60)
  <2>3. QED
    BY <2>1, <2>2
<1>8. ASSUME NEW i \in Ends(t, kind), NEW j \in Ends(t, kind), i < j
      PROVE  t[i][1].id < t[j][1].id
  <2>1. n + i \in Ends(q, kind) /\ n + j \in Ends(q, kind) /\ n + i < n + j
    BY <1>1, <1>2, <1>8
  <2>2. QED
    BY <2>1, <1>1, <1>4
<1>9. Numbered(t, kind, lo + 1, hi)
  <2>1. lo + 1 + 1 = lo + 2
    OBVIOUS
  <2>2. QED
    BY <2>1, <1>7, <1>8 DEF Numbered
<1>10. QED
  BY <1>5, <1>6, <1>9 DEF t

(* A queue of whole frames stays one when a frame is appended. *)
LEMMA WholeJoin ==
    ASSUME NEW F, \A g \in F : g.size \in Nat, NEW q \in Seq(F \X Nat), NEW f \in F,
           Whole(q), NEW t, t = With(q, f)
    PROVE  Whole(t)
<1>0. f.size \in Nat
  OBVIOUS
<1> DEFINE c == Cells(f)
<1>1. c \in Seq(F \X Nat) /\ Len(c) = f.size + 1 /\ \A i \in 1..(f.size + 1) : c[i] = <<f, i - 1>>
  BY <1>0, CellsFacts
<1> HIDE DEF c
<1>2. /\ t \in Seq(F \X Nat) /\ Len(q) \in Nat /\ Len(t) = Len(q) + f.size + 1
      /\ \A i \in 1..Len(q) : t[i] = q[i]
      /\ \A i \in 1..(f.size + 1) : t[Len(q) + i] = <<f, i - 1>>
  <2>1. t = q \o c
    BY DEF c, With
  <2>2. c \in Seq(F \X Nat)
    BY <1>1
  <2>3. /\ t \in Seq(F \X Nat) /\ Len(q) \in Nat /\ Len(t) = Len(q) + Len(c)
        /\ \A i \in 1..Len(q) : t[i] = q[i]
        /\ \A i \in 1..Len(c) : t[Len(q) + i] = c[i]
    BY <2>1, <2>2, JoinFacts
  <2>4. \A i \in 1..(f.size + 1) : t[Len(q) + i] = <<f, i - 1>>
    BY <2>3, <1>1
  <2>5. Len(t) = Len(q) + f.size + 1
    BY <2>3, <1>0, <1>1
  <2>6. QED
    BY <2>3, <2>4, <2>5
<1>3. SUFFICES ASSUME NEW i \in 1..Len(t)
               PROVE  /\ t[i][2] \in 0..t[i][1].size /\ t[i][2] < i
                      /\ i - t[i][2] + t[i][1].size <= Len(t)
                      /\ \A j \in 0..t[i][1].size : t[i - t[i][2] + j] = <<t[i][1], j>>
  BY DEF Whole
<1>4. CASE i \in 1..Len(q)
  <2>0. \A j \in 0..q[i][1].size : q[i - q[i][2] + j] = <<q[i][1], j>>
    BY <1>4 DEF Whole
  <2>1. q[i][2] \in 0..q[i][1].size /\ q[i][2] < i /\ i - q[i][2] + q[i][1].size <= Len(q)
    BY <1>4 DEF Whole
  <2>2. q[i] \in F \X Nat /\ q[i][2] \in Nat /\ q[i][1].size \in Nat
    BY <1>4, ElementOfSeq
  <2>3. t[i] = q[i]
    BY <1>2, <1>4
  <2> DEFINE k == q[i][2]
             z == q[i][1].size
             n == Len(q)
             m == Len(t)
  <2>4. /\ i \in Nat /\ i >= 1 /\ i <= n /\ n \in Nat /\ m \in Nat /\ m >= n
        /\ k \in Nat /\ z \in Nat /\ k <= z /\ k < i /\ i - k + z <= n
    <3>1. n \in Nat /\ m = n + f.size + 1
      BY <1>2
    <3>2. i \in Nat /\ i >= 1 /\ i <= n
      BY <1>4, <3>1
    <3>3. m \in Nat /\ m >= n
      BY <1>0, <3>1
    <3>4. k \in Nat /\ z \in Nat /\ k <= z /\ k < i /\ i - k + z <= n
      BY <2>1, <2>2
    <3>5. QED
      BY <3>1, <3>2, <3>3, <3>4
  <2> HIDE DEF k, z, n, m
  <2>5. i - k + z <= m /\ \A j \in 0..z : i - k + j \in 1..n
    BY <2>4
  <2>6. \A j \in 0..q[i][1].size : t[i - q[i][2] + j] = q[i - q[i][2] + j]
    BY <2>5, <1>2 DEF k, z, n
  <2>7. i - q[i][2] + q[i][1].size <= Len(t)
    BY <2>5 DEF k, z, m
  <2>8. QED
    BY <2>0, <2>1, <2>3, <2>6, <2>7
<1>5. CASE i \notin 1..Len(q)
  <2>1. PICK k \in 1..(f.size + 1) : i = Len(q) + k
    <3>1. Len(q) \in Nat /\ Len(t) = Len(q) + f.size + 1
      BY <1>2
    <3>2. i - Len(q) \in 1..(f.size + 1) /\ i = Len(q) + (i - Len(q))
      BY <1>0, <1>5, <3>1
    <3>3. QED
      BY <3>2
  <2>2. t[i] = <<f, k - 1>>
    BY <1>2, <2>1
  <2>3. t[i][1] = f /\ t[i][2] = k - 1
    BY <2>2
  <2>4. k - 1 \in 0..f.size /\ k - 1 < i /\ i - (k - 1) + f.size <= Len(t)
    <3>1. Len(q) \in Nat /\ k \in Nat /\ k >= 1 /\ k <= f.size + 1 /\ Len(t) = Len(q) + f.size + 1 /\ i = Len(q) + k
      BY <1>0, <1>2, <2>1
    <3>2. QED
      BY <1>0, <3>1, SMTT(60)
  <2>5. ASSUME NEW j \in 0..f.size
        PROVE  t[i - (k - 1) + j] = <<f, j>>
    <3>1. Len(q) \in Nat
      BY <1>2
    <3>2. j + 1 \in 1..(f.size + 1) /\ i - (k - 1) + j = Len(q) + (j + 1) /\ (j + 1) - 1 = j
      BY <1>0, <2>1, <3>1
    <3>3. t[Len(q) + (j + 1)] = <<f, (j + 1) - 1>>
      BY <3>2, <1>2
    <3>4. QED
      BY <3>2, <3>3
  <2>6. QED
    BY <2>3, <2>4, <2>5
<1>6. QED
  BY <1>4, <1>5

(* The frame at the front: where it ends, nothing else ending before, and  *)
(* that what follows it is whole.                                          *)
Front(q, f) ==
    /\ q[f.size + 1] = <<f, f.size>> /\ f.size + 1 \in 1..Len(q)
    /\ \A kind : \A i \in Ends(q, kind) : i >= f.size + 1
    /\ Whole(Drop(q, f.size + 1))

(* The frame at the front of whole frames is one, and nothing ends before it does. *)
LEMMA WholeDrop ==
    ASSUME NEW F, \A g \in F : g.size \in Nat, NEW q \in Seq(F \X Nat), Whole(q), q # <<>>,
           NEW f, f = q[1][1]
    PROVE  Front(q, f)
<1> DEFINE n == f.size + 1
<1>1. Len(q) \in Nat /\ 1 \in 1..Len(q) /\ q[1] \in F \X Nat /\ f.size \in Nat
  <2>1. Len(q) \in Nat /\ 1 \in 1..Len(q)
    BY EmptySeq, LenProperties
  <2>2. q[1] \in F \X Nat
    BY <2>1, ElementOfSeq
  <2>3. QED
    BY <2>1, <2>2
<1>2. /\ q[1][2] \in 0..q[1][1].size /\ q[1][2] < 1 /\ 1 - q[1][2] + q[1][1].size <= Len(q)
      /\ \A j \in 0..q[1][1].size : q[1 - q[1][2] + j] = <<q[1][1], j>>
  BY <1>1 DEF Whole
<1>3. q[1][2] = 0
  BY <1>1, <1>2
<1>4. n \in 1..Len(q) /\ \A j \in 0..f.size : q[1 + j] = <<f, j>>
  <2>1. \A j \in 0..f.size : q[1 + j] = <<f, j>>
    BY <1>2, <1>3
  <2>2. QED
    BY <2>1, <1>1, <1>2, <1>3
<1>5. q[n] = <<f, f.size>>
  <2>1. f.size \in 0..f.size /\ n = 1 + f.size
    BY <1>1
  <2>2. QED
    BY <2>1, <1>4
<1>6. ASSUME NEW kind, NEW i \in Ends(q, kind)
      PROVE  i >= n
  <2>1. SUFFICES ASSUME i < n
                 PROVE  FALSE
    BY <1>1, <1>4, SMTT(60) DEF Ends
  <2>2. i - 1 \in 0..f.size /\ i - 1 # f.size /\ i = 1 + (i - 1)
    BY <2>1, <1>1, SMTT(60) DEF Ends
  <2>3. q[1 + (i - 1)] = <<f, i - 1>>
    BY <2>2, <1>4
  <2>4. q[i][1] = f /\ q[i][2] = i - 1
    BY <2>2, <2>3, SMTT(60)
  <2>5. QED
    BY <2>2, <2>4 DEF Ends
<1> HIDE DEF n
<1>7. /\ Drop(q, n) \in Seq(F \X Nat) /\ Len(Drop(q, n)) = Len(q) - n
      /\ \A i \in 1..(Len(q) - n) : Drop(q, n)[i] = q[n + i]
  <2>1. n \in 0..Len(q)
    BY <1>1, <1>4
  <2>2. QED
    BY <2>1, PartFacts
<1> DEFINE t == Drop(q, n)
<1>8. Whole(t)
  <2>1. SUFFICES ASSUME NEW i \in 1..Len(t)
                 PROVE  /\ t[i][2] \in 0..t[i][1].size /\ t[i][2] < i
                        /\ i - t[i][2] + t[i][1].size <= Len(t)
                        /\ \A j \in 0..t[i][1].size : t[i - t[i][2] + j] = <<t[i][1], j>>
    BY DEF Whole
  <2> DEFINE m == n + i
             g == q[m][1]
             k == q[m][2]
  <2>2. m \in 1..Len(q) /\ t[i] = q[m]
    <3>1. i \in 1..(Len(q) - n) /\ m \in 1..Len(q)
      BY <1>1, <1>4, <1>7
    <3>2. QED
      BY <3>1, <1>7
  <2>0. \A j \in 0..g.size : q[m - k + j] = <<g, j>>
    BY <2>2 DEF Whole
  <2>3. k \in 0..g.size /\ k < m /\ m - k + g.size <= Len(q)
    BY <2>2 DEF Whole
  <2>4. q[m] \in F \X Nat /\ k \in Nat /\ g.size \in Nat
    BY <2>2, ElementOfSeq, SMTT(60)
  <2>5. /\ n \in Nat /\ i \in Nat /\ m \in Nat /\ m = n + i /\ Len(q) \in Nat
        /\ Len(t) = Len(q) - n /\ n <= Len(q) /\ i >= 1
    <3>1. Len(q) \in Nat /\ n \in 1..Len(q) /\ Len(t) = Len(q) - n
      BY <1>1, <1>4, <1>7
    <3>2. QED
      BY <3>1, SMTT(60)
  <2> HIDE DEF g, k, m, t
  <2>6. k < i
    <3>1. SUFFICES ASSUME k >= i
                   PROVE  FALSE
      BY <2>4, <2>5
    <3>2. PICK j \in 0..g.size : m - k + j = n /\ j < k
      <4> DEFINE z == g.size
      <4>0. k \in Nat /\ z \in Nat /\ k <= z
        BY <2>3, <2>4
      <4> HIDE DEF z
      <4>1. k - i \in 0..z /\ m - k + (k - i) = n /\ k - i < k
        <5>1. n \in Nat /\ i \in Nat /\ m = n + i /\ i >= 1
          BY <2>5
        <5>2. QED
          BY <3>1, <4>0, <5>1
      <4>2. QED
        BY <4>1 DEF z
    <3>3. q[n] = <<g, j>>
      BY <2>0, <3>2
    <3>4. g = f /\ j = f.size
      BY <3>3, <1>5
    <3>5. QED
      BY <3>2, <3>4, <2>3, <2>4, SMTT(60)
  <2>7. i - k + g.size <= Len(t)
    <3> DEFINE z == g.size
               a == Len(q)
               b == Len(t)
    <3>1. /\ k \in Nat /\ z \in Nat /\ n \in Nat /\ i \in Nat /\ a \in Nat
          /\ m = n + i /\ b = a - n /\ m - k + z <= a
      BY <2>3, <2>4, <2>5
    <3> HIDE DEF z, a, b
    <3>2. i - k + z <= b
      BY <3>1
    <3>3. QED
      BY <3>2 DEF z, b
  <2>8. ASSUME NEW j \in 0..g.size
        PROVE  t[i - k + j] = <<g, j>>
    <3>1. i - k + j \in 1..(Len(q) - n) /\ n + (i - k + j) = m - k + j
      <4>1. j \in Nat /\ j <= g.size /\ i - k + g.size <= Len(q) - n
        BY <2>4, <2>5, <2>7
      <4>2. i - k + j \in Int /\ i - k + j >= 1
        BY <4>1, <2>4, <2>5, <2>6
      <4>3. i - k + j <= Len(q) - n
        <5> DEFINE z == g.size
                   b == Len(q) - n
        <5>1. k \in Nat /\ z \in Nat /\ i \in Nat /\ b \in Int /\ j \in Nat /\ j <= z /\ i - k + z <= b
          BY <4>1, <2>4, <2>5, SMTT(60)
        <5> HIDE DEF z, b
        <5>2. i - k + j <= b
          BY <5>1
        <5>3. QED
          BY <5>2 DEF b
      <4>4. n + (i - k + j) = m - k + j
        BY <4>1, <2>4, <2>5
      <4>5. QED
        BY <4>2, <4>3, <4>4, <2>5
    <3>2. t[i - k + j] = q[n + (i - k + j)]
      BY <3>1, <1>7 DEF t
    <3>3. QED
      BY <3>1, <3>2, <2>0
  <2>9. t[i][1] = g /\ t[i][2] = k
    BY <2>2 DEF g, k
  <2>10. QED
    BY <2>3, <2>6, <2>7, <2>8, <2>9
<1>9. QED
  BY <1>4, <1>5, <1>6, <1>8 DEF Front, n

(* Nothing is a prefix of nothing. *)
LEMMA EmptyIsPrefix == Prefix(<<>>, <<>>)
<1>1. <<>> \in Seq(Nat) /\ Len(<<>>) = 0
  BY EmptySeq
<1>2. Len(Take(<<>>, 0)) = 0 /\ Take(<<>>, 0) \in Seq(Nat)
  <2>1. 0 \in 0..Len(<<>>)
    BY <1>1
  <2>2. \A q \in Seq(Nat) : \A n \in 0..Len(q) : Take(q, n) \in Seq(Nat) /\ Len(Take(q, n)) = n
    BY PartFacts
  <2>3. QED
    BY <1>1, <2>1, <2>2
<1>3. Take(<<>>, 0) = <<>>
  BY <1>2, EmptySeq
<1>4. QED
  BY <1>1, <1>3 DEF Prefix

(* A prefix is what a concatenation begins with. *)
LEMMA PrefixIsPart ==
    ASSUME NEW X, NEW p \in Seq(X), NEW q \in Seq(X)
    PROVE  Prefix(p, q) <=> \E w \in Seq(X) : q = p \o w
<1>1. ASSUME NEW n \in 0..Len(q), p = Take(q, n)
      PROVE  \E w \in Seq(X) : q = p \o w
  <2>1. Drop(q, n) \in Seq(X) /\ Take(q, n) \o Drop(q, n) = q
    BY PartFacts
  <2>2. QED
    BY <1>1, <2>1
<1>2. ASSUME NEW w \in Seq(X), q = p \o w
      PROVE  Prefix(p, q)
  <2>1. /\ Len(p) \in Nat /\ Len(w) \in Nat /\ Len(q) = Len(p) + Len(w)
        /\ \A i \in 1..Len(p) : q[i] = p[i]
    BY <1>2, JoinFacts
  <2>2. Len(p) \in 0..Len(q)
    BY <2>1
  <2>3. Take(q, Len(p)) \in Seq(X) /\ Len(Take(q, Len(p))) = Len(p) /\ \A i \in 1..Len(p) : Take(q, Len(p))[i] = q[i]
    BY <2>2, PartFacts
  <2>4. p = Take(q, Len(p))
    BY <2>1, <2>3, SeqEqual
  <2>5. QED
    BY <2>2, <2>4 DEF Prefix
<1>3. QED
  BY <1>1, <1>2 DEF Prefix

(* A prefix stays one of anything longer. *)
LEMMA PrefixJoin ==
    ASSUME NEW X, NEW p \in Seq(X), NEW q \in Seq(X), NEW r \in Seq(X), Prefix(p, q)
    PROVE  Prefix(p, q \o r)
<1>1. PICK w \in Seq(X) : q = p \o w
  BY PrefixIsPart
<1>2. w \o r \in Seq(X) /\ q \o r \in Seq(X)
  BY ConcatProperties
<1>3. (p \o w) \o r = p \o (w \o r)
  BY ConcatAssociative, SMTT(60)
<1>4. QED
  BY <1>1, <1>2, <1>3, PrefixIsPart

(* The rest of a prefix, its first cell gone, is one of the rest. *)
LEMMA PrefixDrop ==
    ASSUME NEW X, NEW p \in Seq(X), NEW q \in Seq(X), p # <<>>, Prefix(p, q)
    PROVE  q # <<>> /\ Tail(p) = Drop(p, 1) /\ Prefix(Tail(p), Drop(q, 1))
<1>1. PICK w \in Seq(X) : q = p \o w
  BY PrefixIsPart
<1>2. Len(p) \in Nat \ {0} /\ Len(w) \in Nat /\ Len(q) = Len(p) + Len(w)
  <2>1. Len(p) \in Nat \ {0}
    BY EmptySeq
  <2>2. QED
    BY <1>1, <2>1, JoinFacts
<1>3. 1 \in 0..Len(p) /\ 1 \in 0..Len(q)
  BY <1>2
<1>4. Tail(p) = Drop(p, 1) /\ Drop(p, 1) \in Seq(X)
  <2>1. Tail(p) = SubSeq(p, 2, Len(p))
    BY TailIsSubSeq
  <2>2. Drop(p, 1) \in Seq(X)
    BY <1>3, PartFacts
  <2>3. QED
    BY <2>1, <2>2 DEF Drop
<1>5. Drop(p \o w, 1) = Drop(p, 1) \o w
  BY <1>3, DropOfJoin
<1>6. Drop(q, 1) \in Seq(X)
  BY <1>3, PartFacts
<1>7. Prefix(Tail(p), Drop(q, 1))
  BY <1>1, <1>4, <1>5, <1>6, PrefixIsPart
<1>8. q # <<>>
  BY <1>2, EmptySeq
<1>9. QED
  BY <1>4, <1>7, <1>8

-----------------------------------------------------------------------------
(* What is sent to one client.                                             *)

(* After sending, with p what was to be written: all of it is, in order,   *)
(* on its way or in the buffer; or the slot was closed and a prefix is.    *)
SameClient(co, d) ==
    /\ d.cl = co.cl /\ d.sent = co.sent /\ d.left = co.left
    /\ d.owed = co.owed /\ d.answered = co.answered /\ d.asked = co.asked
SameServer(l, v) ==
    /\ v.sl.fd = l.sl.fd /\ v.sl.wild = l.sl.wild /\ v.sl.topics = l.sl.topics /\ v.sl.rbuf = l.sl.rbuf
    /\ v.co.sv = l.co.sv /\ v.co.fd = l.co.fd /\ v.co.inq = l.co.inq
Kept(l, v, p) == LinkOk(v) /\ SameClient(l.co, v.co) /\ SameServer(l, v) /\ Pending(v) = p
Gone(l, v, p) ==
    /\ v \in Link /\ v.sl = FreeSlot /\ ConnOk(v.co) /\ SameClient(l.co, v.co)
    /\ v.co.sv = "closed" /\ v.co.fd = NoFd /\ Prefix(v.co.outq, p)
Delivered(l, v, p) == Kept(l, v, p) \/ Gone(l, v, p)

(* The sizes are numbers, and every buffer takes something. *)
LEMMA SizeFacts ==
    /\ MaxClients \in Nat /\ MaxClients >= 1 /\ ReadBuf \in Nat /\ ReadBuf >= 1
    /\ WriteBuf \in Nat /\ WriteBuf >= 1 /\ SockBuf \in Nat /\ SockBuf >= 1
    /\ Backlog \in Nat /\ MaxFrame \in Nat /\ ReplySize \subseteq Nat
BY SizeAssumption

(* A free slot is a slot, with empty buffers and no descriptor. *)
LEMMA FreeSlotOk == SlotOk(FreeSlot) /\ FreeSlot \in SlotType /\ FreeSlot.fd = NoFd
<1>1. <<>> \in Seq(RequestCell) /\ <<>> \in Seq(AnswerCell) /\ Len(<<>>) = 0
  BY EmptySeq
<1>2. QED
  BY <1>1, SizeFacts DEF SlotOk, SlotType, FreeSlot, NoFd

(* A connection not made yet is a connection, which the server does not know. *)
LEMMA FreeConnType == FreeConn \in ConnType /\ FreeConn.sv = "none" /\ FreeConn.cl = "new"
<1>1. <<>> \in Seq(RequestCell) /\ <<>> \in Seq(AnswerCell)
  BY EmptySeq
<1>2. QED
  BY <1>1 DEF ConnType, FreeConn, NoFd

(* The queues of a link have their types. *)
LEMMA LinkFacts ==
    ASSUME NEW l, LinkOk(l)
    PROVE  /\ l.sl \in SlotType /\ l.co \in ConnType /\ l = [sl |-> l.sl, co |-> l.co]
           /\ l.co.outq \in Seq(AnswerCell) /\ Len(l.co.outq) \in Nat /\ Len(l.co.outq) <= SockBuf
           /\ l.sl.wbuf \in Seq(AnswerCell) /\ l.sl.wpos \in 0..Len(l.sl.wbuf)
           /\ Unsent(l.sl) \in Seq(AnswerCell) /\ Pending(l) \in Seq(AnswerCell)
<1>1. l.sl \in SlotType /\ l.co \in ConnType /\ l = [sl |-> l.sl, co |-> l.co]
  BY DEF LinkOk, Link
<1>2. l.co.outq \in Seq(AnswerCell) /\ l.sl.wbuf \in Seq(AnswerCell) /\ l.sl.wpos \in Nat
  BY <1>1 DEF SlotType, ConnType
<1>3. Len(l.co.outq) \in Nat /\ Len(l.sl.wbuf) \in Nat
  BY <1>2, LenProperties
<1>4. Len(l.co.outq) <= SockBuf /\ l.sl.wpos \in 0..Len(l.sl.wbuf)
  BY <1>2, <1>3 DEF LinkOk, SlotOk, ConnOk
<1>5. Unsent(l.sl) \in Seq(AnswerCell)
  BY <1>2, <1>4, PartFacts DEF Unsent
<1>6. Pending(l) \in Seq(AnswerCell)
  BY <1>2, <1>5, ConcatProperties DEF Pending
<1>7. QED
  BY <1>1, <1>2, <1>3, <1>4, <1>5, <1>6

(* Closing keeps what the kernel has, which is how it begins. *)
LEMMA CloseFacts ==
    ASSUME NEW l, LinkOk(l), NEW r \in Seq(AnswerCell), NEW v, v = CloseClient(l)
    PROVE  Gone(l, v, Pending(l) \o r)
<1>1. /\ l.sl \in SlotType /\ l.co \in ConnType /\ l.co.outq \in Seq(AnswerCell)
      /\ Unsent(l.sl) \in Seq(AnswerCell) /\ Pending(l) \in Seq(AnswerCell)
  BY LinkFacts
<1>2. Prefix(l.co.outq, Pending(l))
  BY <1>1, PrefixIsPart DEF Pending
<1>3. Prefix(l.co.outq, Pending(l) \o r)
  BY <1>1, <1>2, PrefixJoin
<1>4. <<>> \in Seq(RequestCell) /\ Len(<<>>) = 0
  BY EmptySeq
<1>5. v.sl = FreeSlot /\ v.co = HungUp(l.co) /\ v = [sl |-> v.sl, co |-> v.co]
  BY DEF CloseClient
<1>6. /\ v.co \in ConnType /\ v.co.sv = "closed" /\ v.co.fd = NoFd /\ v.co.inq = <<>>
      /\ SameClient(l.co, v.co) /\ v.co.outq = l.co.outq
  BY <1>1, <1>4, <1>5, ZenonT(60) DEF HungUp, ConnType, SameClient, NoFd
<1>7. ConnOk(v.co)
  BY <1>4, <1>6, SizeFacts DEF ConnOk, LinkOk, SameClient
<1>8. v \in Link
  BY <1>5, <1>6, FreeSlotOk DEF Link
<1>9. QED
  BY <1>3, <1>5, <1>6, <1>7, <1>8 DEF Gone

(* send: what was unsent moves, in order, as far as there is room. *)
LEMMA WriteFacts ==
    ASSUME NEW l, LinkOk(l), NEW v, v = ClientWrite(l)
    PROVE  Delivered(l, v, Pending(l))
<1> DEFINE b == l.sl.wbuf
           k == l.sl.wpos
           unsent == Drop(b, k)
           room == SockBuf - Len(l.co.outq)
           n == Least(room, Len(unsent))
           q == l.co.outq \o Take(unsent, n)
           out == [l EXCEPT !.co.outq = @ \o Take(unsent, n)]
<1>1. /\ l.sl \in SlotType /\ l.co \in ConnType /\ l = [sl |-> l.sl, co |-> l.co]
      /\ l.co.outq \in Seq(AnswerCell) /\ room \in Nat /\ Len(l.co.outq) \in Nat
      /\ b \in Seq(AnswerCell) /\ k \in 0..Len(b) /\ Len(b) \in Nat
      /\ unsent \in Seq(AnswerCell) /\ Len(unsent) \in Nat /\ Len(unsent) = Len(b) - k
      /\ Pending(l) = l.co.outq \o unsent
  <2>1. /\ l.sl \in SlotType /\ l.co \in ConnType /\ l = [sl |-> l.sl, co |-> l.co]
        /\ l.co.outq \in Seq(AnswerCell) /\ Len(l.co.outq) \in Nat /\ Len(l.co.outq) <= SockBuf
        /\ b \in Seq(AnswerCell) /\ k \in 0..Len(b)
    BY LinkFacts
  <2>2. unsent \in Seq(AnswerCell) /\ Len(unsent) = Len(b) - k
    BY <2>1, PartFacts
  <2>3. Len(b) \in Nat /\ Len(unsent) \in Nat /\ room \in Nat
    <3>1. Len(b) \in Nat
      BY <2>1, LenProperties
    <3>2. Len(unsent) \in Nat
      BY <2>2, LenProperties
    <3>3. room \in Nat
      BY <2>1, SizeFacts, SMTT(60)
    <3>4. QED
      BY <3>1, <3>2, <3>3
  <2>4. QED
    BY <2>1, <2>2, <2>3 DEF Pending, Unsent
<1>2. v = IF unsent = <<>> THEN l
          ELSE IF l.co.cl = "closed" THEN CloseClient(l)
          ELSE IF n < Len(unsent) THEN [out EXCEPT !.sl.wpos = @ + n]
          ELSE [out EXCEPT !.sl.wpos = 0, !.sl.wbuf = <<>>]
  BY DEF ClientWrite
<1>3. CASE unsent = <<>>
  BY <1>2, <1>3 DEF Delivered, Kept, SameClient, SameServer
<1>4. CASE unsent # <<>> /\ l.co.cl = "closed"
  <2>1. Pending(l) \in Seq(AnswerCell) /\ <<>> \in Seq(AnswerCell)
    BY LinkFacts, EmptySeq
  <2>2. Gone(l, v, Pending(l) \o <<>>)
    BY <1>2, <1>4, <2>1, CloseFacts
  <2>3. Pending(l) \o <<>> = Pending(l)
    BY <2>1, ConcatEmptySeq
  <2>4. QED
    BY <2>2, <2>3 DEF Delivered
<1>5. CASE unsent # <<>> /\ l.co.cl # "closed"
  <2>1. n \in 0..Len(unsent) /\ n <= room /\ n \in Nat
    BY <1>1 DEF Least
  <2> HIDE DEF n, unsent
  <2>2. /\ Take(unsent, n) \in Seq(AnswerCell) /\ Len(Take(unsent, n)) = n
        /\ Drop(unsent, n) \in Seq(AnswerCell) /\ Len(Drop(unsent, n)) = Len(unsent) - n
        /\ Take(unsent, n) \o Drop(unsent, n) = unsent
    <3>1. unsent \in Seq(AnswerCell) /\ n \in 0..Len(unsent)
      BY <1>1, <2>1
    <3>2. QED
      BY <3>1, PartFacts
  <2>3. q \in Seq(AnswerCell) /\ Len(q) = Len(l.co.outq) + n
    <3>1. l.co.outq \in Seq(AnswerCell) /\ Take(unsent, n) \in Seq(AnswerCell) /\ Len(Take(unsent, n)) = n
      BY <1>1, <2>2
    <3>2. q \in Seq(AnswerCell) /\ Len(q) = Len(l.co.outq) + Len(Take(unsent, n))
      BY <3>1, ConcatProperties
    <3>3. QED
      BY <3>1, <3>2
  <2>4. q \o Drop(unsent, n) = Pending(l)
    <3>1. /\ l.co.outq \in Seq(AnswerCell) /\ Take(unsent, n) \in Seq(AnswerCell)
          /\ Drop(unsent, n) \in Seq(AnswerCell)
      BY <1>1, <2>2
    <3> DEFINE o == l.co.outq
               t == Take(unsent, n)
               d == Drop(unsent, n)
    <3> HIDE DEF o, t, d
    <3>2. (o \o t) \o d = o \o (t \o d)
      <4>1. o \in Seq(AnswerCell) /\ t \in Seq(AnswerCell) /\ d \in Seq(AnswerCell)
        BY <3>1 DEF o, t, d
      <4>2. QED
        BY <4>1, ConcatAssociative, SMTT(60)
    <3>3. QED
      BY <3>2, <1>1, <2>2 DEF o, t, d
  <2>5. Len(q) <= SockBuf
    <3> DEFINE a == Len(l.co.outq)
               b2 == Len(q)
    <3>1. a \in Nat /\ b2 = a + n /\ n \in Nat /\ n <= SockBuf - a
      BY <2>1, <2>3, <1>1
    <3> HIDE DEF a, b2
    <3>2. b2 <= SockBuf
      BY <3>1, SizeFacts
    <3>3. QED
      BY <3>2 DEF b2
  <2>6. out.sl = l.sl /\ out.co = [l.co EXCEPT !.outq = q] /\ out = [sl |-> out.sl, co |-> out.co]
    <3>1. l.co \in ConnType /\ l = [sl |-> l.sl, co |-> l.co]
      BY <1>1
    <3>2. out = [l EXCEPT !.co = [l.co EXCEPT !.outq = q]]
      BY <3>1
    <3> HIDE DEF out
    <3>3. QED
      BY <3>1, <3>2
  <2> HIDE DEF q, out
  <2>7. /\ out.co \in ConnType /\ ConnOk(out.co) /\ SameClient(l.co, out.co) /\ out.co.outq = q
        /\ out.co.sv = l.co.sv /\ out.co.fd = l.co.fd /\ out.co.inq = l.co.inq
    <3>1. out.co \in ConnType /\ out.co.outq = q
      BY <1>1, <2>3, <2>6 DEF ConnType
    <3>2. /\ SameClient(l.co, out.co)
          /\ out.co.sv = l.co.sv /\ out.co.fd = l.co.fd /\ out.co.inq = l.co.inq
      BY <1>1, <2>6 DEF ConnType, SameClient
    <3>3. QED
      BY <3>1, <3>2, <2>5 DEF LinkOk, ConnOk, SameClient
  <2>8. CASE n < Len(unsent)
    <3>1. v = [out EXCEPT !.sl.wpos = @ + n]
      BY <1>2, <1>5, <2>8
    <3>2. v.co = out.co /\ v.sl = [l.sl EXCEPT !.wpos = @ + n] /\ v = [sl |-> v.sl, co |-> v.co]
      BY <3>1, <2>6
    <3>3. k \in Nat /\ k + n \in Nat /\ k + n <= Len(b)
      BY <1>1, <2>1, <2>8, SMTT(60)
    <3>4. /\ v.sl \in SlotType /\ v.sl.wbuf = b /\ v.sl.wpos = k + n
          /\ v.sl.fd = l.sl.fd /\ v.sl.wild = l.sl.wild /\ v.sl.topics = l.sl.topics /\ v.sl.rbuf = l.sl.rbuf
      BY <3>2, <3>3, <1>1 DEF SlotType
    <3>5. SlotOk(v.sl)
      BY <3>3, <3>4 DEF SlotOk, LinkOk
    <3>6. Unsent(v.sl) = Drop(unsent, n)
      <4>1. n \in 0..(Len(b) - k)
        BY <1>1, <2>1
      <4>2. Drop(Drop(b, k), n) = Drop(b, k + n)
        BY <4>1, <1>1, DropOfDrop
      <4>3. QED
        BY <4>2, <3>4 DEF Unsent, unsent
    <3>7. Pending(v) = Pending(l)
      BY <2>4, <2>7, <3>2, <3>6 DEF Pending
    <3>8. LinkOk(v)
      BY <2>7, <3>2, <3>4, <3>5 DEF LinkOk, Link
    <3>9. QED
      BY <2>7, <3>2, <3>4, <3>7, <3>8 DEF Delivered, Kept, SameServer
  <2>9. CASE ~(n < Len(unsent))
    <3>1. v = [out EXCEPT !.sl.wpos = 0, !.sl.wbuf = <<>>]
      BY <1>2, <1>5, <2>9
    <3>2. v.co = out.co /\ v.sl = [l.sl EXCEPT !.wpos = 0, !.wbuf = <<>>] /\ v = [sl |-> v.sl, co |-> v.co]
      BY <3>1, <2>6
    <3>3. <<>> \in Seq(AnswerCell) /\ Len(<<>>) = 0
      BY EmptySeq
    <3>4. /\ v.sl \in SlotType /\ v.sl.wbuf = <<>> /\ v.sl.wpos = 0
          /\ v.sl.fd = l.sl.fd /\ v.sl.wild = l.sl.wild /\ v.sl.topics = l.sl.topics /\ v.sl.rbuf = l.sl.rbuf
      <4>1. l.sl \in SlotType /\ <<>> \in Seq(AnswerCell) /\ v.sl = [l.sl EXCEPT !.wpos = 0, !.wbuf = <<>>]
        BY <3>2, <3>3, <1>1
      <4> DEFINE e == <<>>
      <4>2. e \in Seq(AnswerCell) /\ v.sl = [l.sl EXCEPT !.wpos = 0, !.wbuf = e]
        BY <4>1
      <4> HIDE DEF e
      <4>3. v.sl = [fd |-> l.sl.fd, wild |-> l.sl.wild, topics |-> l.sl.topics, rbuf |-> l.sl.rbuf,
                    wbuf |-> e, wpos |-> 0]
        BY <4>1, <4>2 DEF SlotType
      <4>4. v.sl \in SlotType
        BY <4>1, <4>2, <4>3 DEF SlotType
      <4>5. QED
        BY <4>3, <4>4 DEF e
    <3>5. SlotOk(v.sl)
      BY <3>3, <3>4, SizeFacts DEF SlotOk, LinkOk
    <3>6. Unsent(v.sl) = Drop(unsent, n)
      <4>1. n = Len(unsent)
        BY <1>1, <2>1, <2>9
      <4>2. Len(Drop(unsent, n)) = 0
        BY <4>1, <2>2, <1>1
      <4>3. Drop(unsent, n) = <<>>
        BY <4>2, <2>2, EmptySeq
      <4>4. 0 \in 0..Len(<<>>)
        BY <3>3
      <4>5. Drop(<<>>, 0) \in Seq(AnswerCell) /\ Len(Drop(<<>>, 0)) = Len(<<>>) - 0
        BY <4>4, <3>3, PartFacts, ZenonT(60)
      <4>6. Drop(<<>>, 0) = <<>>
        BY <4>5, <3>3, EmptySeq
      <4>7. QED
        BY <4>3, <4>6, <3>4 DEF Unsent
    <3>7. Pending(v) = Pending(l)
      BY <2>4, <2>7, <3>2, <3>6 DEF Pending
    <3>8. LinkOk(v)
      BY <2>7, <3>2, <3>4, <3>5 DEF LinkOk, Link
    <3>9. QED
      BY <2>7, <3>2, <3>4, <3>7, <3>8 DEF Delivered, Kept, SameServer
  <2>10. QED
    BY <2>8, <2>9
<1>6. QED
  BY <1>3, <1>4, <1>5

(* What is delivered after a step that sends nothing is delivered.  *)
LEMMA DeliveredAfter ==
    ASSUME NEW l, NEW m, NEW v, NEW p, SameClient(l.co, m.co), SameServer(l, m), Delivered(m, v, p)
    PROVE  Delivered(l, v, p)
BY DEF Delivered, Kept, Gone, SameClient, SameServer

(* What fits in the buffer follows what is unsent. *)
LEMMA EnqueueFacts ==
    ASSUME NEW l, LinkOk(l), NEW cells \in Seq(AnswerCell), NEW v, v = ClientEnqueue(l, cells)
    PROVE  Delivered(l, v, Pending(l) \o cells)
<1>1. CASE Len(l.sl.wbuf) + Len(cells) > WriteBuf
  <2>1. v = CloseClient(l)
    BY <1>1 DEF ClientEnqueue
  <2>2. QED
    BY <2>1, CloseFacts DEF Delivered
<1>2. CASE ~(Len(l.sl.wbuf) + Len(cells) > WriteBuf)
  <2> DEFINE m == [l EXCEPT !.sl.wbuf = @ \o cells]
             b == l.sl.wbuf \o cells
  <2>1. v = ClientWrite(m)
    BY <1>2 DEF ClientEnqueue
  <2>2. /\ l.sl \in SlotType /\ l.co \in ConnType /\ l = [sl |-> l.sl, co |-> l.co]
        /\ l.co.outq \in Seq(AnswerCell) /\ l.sl.wbuf \in Seq(AnswerCell)
        /\ l.sl.wpos \in 0..Len(l.sl.wbuf) /\ Unsent(l.sl) \in Seq(AnswerCell)
    BY LinkFacts
  <2>3. b \in Seq(AnswerCell) /\ Len(b) = Len(l.sl.wbuf) + Len(cells) /\ Len(cells) \in Nat /\ Len(l.sl.wbuf) \in Nat
    BY <2>2, JoinFacts
  <2>4. m = [l EXCEPT !.sl = [l.sl EXCEPT !.wbuf = b]]
    BY <2>2
  <2> HIDE DEF m
  <2>5. m.co = l.co /\ m.sl = [l.sl EXCEPT !.wbuf = b] /\ m = [sl |-> m.sl, co |-> m.co]
    BY <2>2, <2>4
  <2> HIDE DEF b
  <2>6. /\ m.sl = [fd |-> l.sl.fd, wild |-> l.sl.wild, topics |-> l.sl.topics, rbuf |-> l.sl.rbuf,
                   wbuf |-> b, wpos |-> l.sl.wpos]
        /\ m.sl \in SlotType
    <3>1. m.sl = [fd |-> l.sl.fd, wild |-> l.sl.wild, topics |-> l.sl.topics, rbuf |-> l.sl.rbuf,
                  wbuf |-> b, wpos |-> l.sl.wpos]
      BY <2>2, <2>5 DEF SlotType
    <3>2. QED
      BY <2>2, <2>3, <3>1 DEF SlotType
  <2>7. SlotOk(m.sl)
    <3>1. Len(b) <= WriteBuf /\ l.sl.wpos <= Len(b)
      BY <1>2, <2>2, <2>3, SizeFacts, SMTT(60)
    <3>2. QED
      BY <3>1, <2>6 DEF LinkOk, SlotOk
  <2>8. LinkOk(m)
    BY <2>2, <2>5, <2>6, <2>7 DEF LinkOk, Link
  <2>9. SameClient(l.co, m.co) /\ SameServer(l, m)
    BY <2>5, <2>6 DEF SameClient, SameServer
  <2>10. Pending(m) = Pending(l) \o cells
    <3>1. Drop(b, l.sl.wpos) = Drop(l.sl.wbuf, l.sl.wpos) \o cells
      BY <2>2, DropOfJoin DEF b
    <3>2. Unsent(m.sl) = Unsent(l.sl) \o cells
      BY <3>1, <2>6 DEF Unsent
    <3> DEFINE o == l.co.outq
               u == Unsent(l.sl)
    <3>3. o \in Seq(AnswerCell) /\ u \in Seq(AnswerCell)
      BY <2>2
    <3> HIDE DEF o, u
    <3>4. (o \o u) \o cells = o \o (u \o cells)
      BY <3>3, ConcatAssociative, SMTT(60)
    <3>5. QED
      BY <3>2, <3>4, <2>5 DEF Pending, o, u
  <2>11. Delivered(m, v, Pending(m))
    BY <2>1, <2>8, WriteFacts
  <2>12. QED
    BY <2>9, <2>10, <2>11, DeliveredAfter
<1>3. QED
  BY <1>1, <1>2

(* A frame is sent whole, prefix and body, or the slot is closed on the way. *)
AnswerFrame == ReplyFrame \cup NoteFrame

(* Of a frame over the limit nothing is sent (client_send_frame, 182-197). *)
LEMMA SendFrameFacts ==
    ASSUME NEW l, LinkOk(l), l.sl.fd # NoFd, NEW f \in AnswerFrame, NEW v, v = ClientSendFrame(l, f)
    PROVE  Delivered(l, v, IF f.size > MaxFrame THEN Pending(l) ELSE With(Pending(l), f))
<1>1. CASE f.size > MaxFrame
  BY <1>1 DEF ClientSendFrame, Delivered, Kept, SameClient, SameServer
<1>2. CASE ~(f.size > MaxFrame)
  <2> DEFINE c == Cells(f)
             t == Take(c, 1)
             d == Drop(c, 1)
             head == ClientEnqueue(l, t)
  <2>1. v = IF Closed(head.sl) THEN head ELSE ClientEnqueue(head, d)
    BY <1>2 DEF ClientSendFrame
  <2>2. c \in Seq(AnswerCell) /\ t \in Seq(AnswerCell) /\ d \in Seq(AnswerCell) /\ t \o d = c
    <3>1. f.size \in Nat
      BY DEF AnswerFrame, ReplyFrame, NoteFrame
    <3>2. QED
      BY <3>1, CellsFacts DEF AnswerCell, AnswerFrame
  <2>3. Pending(l) \in Seq(AnswerCell) /\ With(Pending(l), f) = Pending(l) \o c
    BY LinkFacts DEF With
  <2> HIDE DEF c, t, d, head
  <2>4. Pending(l) \o t \in Seq(AnswerCell)
    BY <2>2, <2>3, ConcatProperties
  <2>5. (Pending(l) \o t) \o d = Pending(l) \o c
    <3> DEFINE p == Pending(l)
    <3>1. p \in Seq(AnswerCell)
      BY <2>3
    <3> HIDE DEF p
    <3>2. t \in Seq(AnswerCell) /\ d \in Seq(AnswerCell)
      BY <2>2
    <3>3. (p \o t) \o d = p \o (t \o d)
      BY <3>1, <3>2, ConcatAssociative, SMTT(60)
    <3>4. QED
      BY <2>2, <3>3 DEF p
  <2>6. Delivered(l, head, Pending(l) \o t)
    BY <2>2, EnqueueFacts DEF head
  <2>7. CASE Gone(l, head, Pending(l) \o t)
    <3>1. v = head
      BY <2>1, <2>7 DEF Gone, Closed, FreeSlot
    <3>2. Prefix(head.co.outq, Pending(l) \o t) /\ head.co.outq \in Seq(AnswerCell)
      BY <2>7 DEF Gone, ConnOk, ConnType
    <3>3. Prefix(head.co.outq, (Pending(l) \o t) \o d)
      BY <2>2, <2>4, <3>2, PrefixJoin
    <3>4. Gone(l, v, Pending(l) \o c)
      BY <2>5, <2>7, <3>1, <3>3 DEF Gone
    <3>5. QED
      BY <1>2, <2>3, <3>4 DEF Delivered
  <2>8. CASE Kept(l, head, Pending(l) \o t)
    <3>1. v = ClientEnqueue(head, d)
      BY <2>1, <2>8 DEF Kept, SameServer, Closed
    <3>2. LinkOk(head) /\ SameClient(l.co, head.co) /\ SameServer(l, head) /\ Pending(head) = Pending(l) \o t
      BY <2>8 DEF Kept
    <3>3. Delivered(head, v, Pending(head) \o d)
      BY <2>2, <3>1, <3>2, EnqueueFacts
    <3>4. Delivered(l, v, Pending(l) \o c)
      BY <2>5, <3>2, <3>3, DeliveredAfter
    <3>5. QED
      BY <1>2, <2>3, <3>4
  <2>9. QED
    BY <2>6, <2>7, <2>8 DEF Delivered
<1>3. QED
  BY <1>1, <1>2

-----------------------------------------------------------------------------
(* Requests and replies.                                                   *)

LEMMA FrameFacts ==
    /\ \A f \in RequestFrame : f.size \in Nat /\ f.id \in Nat /\ f.kind = "request"
    /\ \A f \in ReplyFrame : f.size \in Nat /\ f.id \in Nat /\ f.kind = "reply" /\ f \in AnswerFrame
    /\ \A f \in NoteFrame : f.size \in Nat /\ f.kind = "note" /\ f.topic \in Topic \cup {Shutdown} /\ f \in AnswerFrame
    /\ \A f \in AnswerFrame : f.size \in Nat
BY DEF RequestFrame, ReplyFrame, NoteFrame, AnswerFrame

(* The first request of a queue is the next one to answer. *)
LEMMA AskingDrop ==
    ASSUME NEW q \in Seq(RequestCell), NEW h \in Nat, NEW sent \in Nat, Asking(q, h, sent), q # <<>>,
           NEW g, g = q[1][1]
    PROVE  /\ g.id = h + 1 /\ h + 1 <= sent /\ g.size + 1 \in 1..Len(q)
           /\ Asking(Drop(q, g.size + 1), h + 1, sent)
<1>1. Len(q) \in Nat /\ 1 \in 1..Len(q)
  BY EmptySeq, LenProperties
<1>2. q[1] \in RequestCell
  BY <1>1, ElementOfSeq
<1>3. g \in RequestFrame /\ g.size \in Nat /\ g.kind = "request"
  BY <1>2, FrameFacts DEF RequestCell
<1>4. Front(q, g)
  <2>1. q \in Seq(RequestFrame \X Nat) /\ Whole(q) /\ \A f \in RequestFrame : f.size \in Nat
    BY FrameFacts DEF RequestCell, Asking
  <2>2. QED
    BY <2>1, WholeDrop
<1> DEFINE n == g.size + 1
<1>5. n \in 1..Len(q) /\ q[n] = <<g, g.size>> /\ Whole(Drop(q, n)) /\ \A i \in Ends(q, "request") : i >= n
  BY <1>4 DEF Front
<1> HIDE DEF n
<1>6. n \in Ends(q, "request") /\ q[n][1] = g
  BY <1>3, <1>5 DEF Ends
<1>7. Numbered(q, "request", h, sent)
  BY DEF Asking
<1>8. q[n][1].id = h + 1 /\ h + 1 <= sent /\ Numbered(Drop(q, n), "request", h + 1, sent)
  BY <1>5, <1>6, <1>7, NumberedDropOne
<1>9. QED
  BY <1>5, <1>6, <1>8 DEF Asking, n

(* A new request takes the next number. *)
LEMMA AskingJoin ==
    ASSUME NEW q \in Seq(RequestCell), NEW h \in Nat, NEW sent \in Nat, h <= sent, Asking(q, h, sent),
           NEW f \in RequestFrame, f.id = sent + 1, NEW t, t = With(q, f)
    PROVE  Asking(t, h, sent + 1)
<1>1. q \in Seq(RequestFrame \X Nat) /\ Whole(q) /\ \A g \in RequestFrame : g.size \in Nat
  BY FrameFacts DEF RequestCell, Asking
<1>2. f.size \in Nat /\ f.kind = "request" /\ Numbered(q, "request", h, sent)
  BY FrameFacts DEF Asking
<1>3. Whole(t)
  BY <1>1, WholeJoin
<1>4. Numbered(t, "request", h, sent + 1)
  BY <1>1, <1>2, NumberedJoin
<1>5. QED
  BY <1>3, <1>4 DEF Asking

(* What becomes owed is answered in turn, or is no answer. *)
LEMMA AnsweringJoin ==
    ASSUME NEW co \in ConnType, NEW d \in ConnType, NEW h \in Nat, Answering(co, h), NEW f \in AnswerFrame,
           d.owed = With(co.owed, f), d.answered = co.answered, d.sent = co.sent
    PROVE  /\ f.kind = "note" => Answering(d, h)
           /\ f.kind = "reply" /\ f.id = h + 1 /\ h + 1 <= co.sent => Answering(d, h + 1)
<1>1. co.owed \in Seq(AnswerFrame \X Nat) /\ co.answered \in Nat /\ co.sent \in Nat /\ f.size \in Nat
  BY FrameFacts DEF ConnType, AnswerCell, AnswerFrame
<1>2. Numbered(co.owed, "reply", co.answered, h) /\ h \in co.answered..co.sent
  BY DEF Answering
<1> DEFINE t == d.owed
           q == co.owed
           a == co.answered
<1>3. t = With(q, f) /\ q \in Seq(AnswerFrame \X Nat) /\ a \in Nat /\ a <= h /\ Numbered(q, "reply", a, h)
  BY <1>1, <1>2
<1> HIDE DEF t, q, a
<1>4. ASSUME f.kind = "note"
      PROVE  Numbered(t, "reply", a, h)
  <2>1. f.kind # "reply"
    BY <1>4
  <2>2. QED
    BY <1>1, <1>3, <2>1, NumberedBeside
<1>5. ASSUME f.kind = "reply", f.id = h + 1
      PROVE  Numbered(t, "reply", a, h + 1)
  BY <1>1, <1>3, <1>5, NumberedJoin
<1>6. ASSUME h + 1 <= co.sent
      PROVE  h + 1 \in d.answered..d.sent
  BY <1>1, <1>2, <1>6
<1>7. QED
  BY <1>2, <1>4, <1>5, <1>6 DEF Answering, t, a

-----------------------------------------------------------------------------
(* What becomes of a client the server holds.                              *)

(* p is what the client is owed. *)
Owing(l, p) ==
    /\ l.co.sv = "open" /\ l.sl.fd \in Fds /\ l.co.fd = l.sl.fd
    /\ l.co.cl = "open" =>
          /\ l.co.owed = p /\ KnowsTopics(l)
          /\ Fits => \E h \in Nat : Answering(l.co, h) /\ Asking(Requests(l), h, l.co.sent)
Left(v) == v \in Link /\ v.sl = FreeSlot /\ Ended(v.co)
Successor(l, v) == (Served(v) /\ v.sl.fd = l.sl.fd) \/ Left(v)

(* No slot has a descriptor that means there is none. *)
LEMMA FdFacts == NoFd \notin Fds /\ FreeSlot.fd = NoFd /\ Fds \subseteq Nat
BY SizeFacts DEF NoFd, Fds, FreeSlot

(* A slot that is closed has left its client with a prefix of what it is owed. *)
LEMMA GoneIsLeft ==
    ASSUME NEW l, NEW v, NEW p, Gone(l, v, p),
           l.co.cl = "open" => l.co.owed = p /\ (Fits => \E h \in Nat : Answering(l.co, h))
    PROVE  Left(v)
<1>1. /\ v \in Link /\ v.sl = FreeSlot /\ ConnOk(v.co) /\ SameClient(l.co, v.co)
      /\ v.co.sv = "closed" /\ v.co.fd = NoFd /\ Prefix(v.co.outq, p)
  BY DEF Gone
<1>2. /\ v.co.cl = l.co.cl /\ v.co.sent = l.co.sent /\ v.co.owed = l.co.owed /\ v.co.answered = l.co.answered
  BY <1>1 DEF SameClient
<1>3. \A h \in Nat : Answering(l.co, h) => Answering(v.co, h)
  BY <1>2 DEF Answering
<1>4. ASSUME v.co.cl = "open"
      PROVE  Prefix(v.co.outq, v.co.owed) /\ (Fits => \E h \in Nat : Answering(v.co, h))
  BY <1>1, <1>2, <1>3, <1>4
<1>5. Ended(v.co)
  BY <1>1, <1>4 DEF Ended
<1>6. QED
  BY <1>1, <1>5 DEF Left

(* One that is not goes on as before. *)
LEMMA KeptIsOwing ==
    ASSUME NEW l, NEW v, NEW p, Kept(l, v, p), Owing(l, p)
    PROVE  Served(v) /\ v.sl.fd = l.sl.fd /\ v.sl.rbuf = l.sl.rbuf
<1>1. LinkOk(v) /\ SameClient(l.co, v.co) /\ SameServer(l, v) /\ Pending(v) = p
  BY DEF Kept
<1>2. /\ v.co.cl = l.co.cl /\ v.co.sent = l.co.sent /\ v.co.owed = l.co.owed /\ v.co.answered = l.co.answered
      /\ v.co.left = l.co.left /\ v.co.asked = l.co.asked
      /\ v.sl.fd = l.sl.fd /\ v.sl.wild = l.sl.wild /\ v.sl.topics = l.sl.topics /\ v.sl.rbuf = l.sl.rbuf
      /\ v.co.sv = l.co.sv /\ v.co.fd = l.co.fd /\ v.co.inq = l.co.inq
  BY <1>1 DEF SameClient, SameServer
<1>3. \A h \in Nat : Answering(l.co, h) => Answering(v.co, h)
  BY <1>2 DEF Answering
<1>4. Requests(v) = Requests(l)
  BY <1>2 DEF Requests
<1>5. KnowsTopics(l) => KnowsTopics(v)
  BY <1>2 DEF KnowsTopics, ClientMatchesTopic
<1>6. ASSUME v.co.cl = "open"
      PROVE  /\ v.co.owed = Pending(v) /\ KnowsTopics(v)
             /\ Fits => \E h \in Nat : Answering(v.co, h) /\ Asking(Requests(v), h, v.co.sent)
  <2>1. /\ l.co.owed = p /\ KnowsTopics(l)
        /\ Fits => \E h \in Nat : Answering(l.co, h) /\ Asking(Requests(l), h, l.co.sent)
    BY <1>2, <1>6 DEF Owing
  <2>2. v.co.owed = Pending(v) /\ KnowsTopics(v)
    BY <1>1, <1>2, <1>5, <2>1
  <2>3. ASSUME Fits
        PROVE  \E h \in Nat : Answering(v.co, h) /\ Asking(Requests(v), h, v.co.sent)
    <3>1. PICK h \in Nat : Answering(l.co, h) /\ Asking(Requests(l), h, l.co.sent)
      BY <2>1, <2>3
    <3>2. Answering(v.co, h) /\ Asking(Requests(v), h, v.co.sent)
      BY <3>1, <1>2, <1>3, <1>4
    <3>3. QED
      BY <3>2
  <2>4. QED
    BY <2>2, <2>3
<1>7. v.co.sv = "open" /\ v.sl.fd \in Fds /\ v.co.fd = v.sl.fd
  BY <1>2 DEF Owing
<1>8. Served(v)
  BY <1>1, <1>6, <1>7 DEF Served
<1>9. QED
  BY <1>2, <1>8

(* A client that got what it was owed, or its slot closed, is served on or left. *)
LEMMA DeliveredServes ==
    ASSUME NEW l, NEW v, NEW p, Delivered(l, v, p), Owing(l, p)
    PROVE  Successor(l, v) /\ (v.sl.fd # NoFd => v.sl.rbuf = l.sl.rbuf)
<1>1. CASE Kept(l, v, p)
  BY <1>1, KeptIsOwing DEF Successor
<1>2. CASE Gone(l, v, p)
  <2>1. l.co.cl = "open" => l.co.owed = p /\ (Fits => \E h \in Nat : Answering(l.co, h))
    BY DEF Owing
  <2>2. Left(v)
    BY <1>2, <2>1, GoneIsLeft
  <2>3. v.sl.fd = NoFd
    BY <2>2, FdFacts DEF Left
  <2>4. QED
    BY <2>2, <2>3 DEF Successor
<1>3. QED
  BY <1>1, <1>2 DEF Delivered

(* To be served is to have the types, and to be owed what is pending. *)
LEMMA ServedIsOwing ==
    ASSUME NEW l
    PROVE  Served(l) <=> LinkOk(l) /\ Owing(l, Pending(l))
BY DEF Served, Owing

(* Draining and closing. *)
LEMMA DrainFacts ==
    ASSUME NEW l, Served(l), NEW v, v = Drain(l)
    PROVE  Successor(l, v)
<1>1. LinkOk(l) /\ Owing(l, Pending(l))
  BY ServedIsOwing
<1>2. v = ClientWrite(l)
  BY DEF Drain
<1>3. Delivered(l, v, Pending(l))
  BY <1>1, <1>2, WriteFacts
<1>4. QED
  BY <1>1, <1>3, DeliveredServes

(* A client that is closed is left (close_client, 131-145). *)
LEMMA CloseLeaves ==
    ASSUME NEW l, Served(l), NEW v, v = CloseClient(l)
    PROVE  Left(v)
<1>1. LinkOk(l) /\ Owing(l, Pending(l))
  BY ServedIsOwing
<1>2. <<>> \in Seq(AnswerCell) /\ Pending(l) \in Seq(AnswerCell)
  BY <1>1, EmptySeq, LinkFacts
<1>3. Gone(l, v, Pending(l) \o <<>>)
  BY <1>1, <1>2, CloseFacts
<1>4. Gone(l, v, Pending(l))
  BY <1>2, <1>3, ConcatEmptySeq
<1>5. l.co.cl = "open" => l.co.owed = Pending(l) /\ (Fits => \E h \in Nat : Answering(l.co, h))
  BY <1>1 DEF Owing
<1>6. QED
  BY <1>4, <1>5, GoneIsLeft

(* Promising changes what is owed and nothing else. *)
Promises(l, m, f) ==
    /\ LinkOk(m) /\ m.sl = l.sl /\ SameServer(l, m) /\ Pending(m) = Pending(l)
    /\ m.co.cl = l.co.cl /\ m.co.sent = l.co.sent /\ m.co.left = l.co.left
    /\ m.co.answered = l.co.answered /\ m.co.asked = l.co.asked
    /\ m.co.owed = IF l.co.cl = "open" /\ f.size <= MaxFrame THEN With(l.co.owed, f) ELSE l.co.owed

(* A promise to a client that stays is a frame more that it is owed. *)
LEMMA PromiseFacts ==
    ASSUME NEW l, LinkOk(l), NEW f \in AnswerFrame, NEW m, m = [l EXCEPT !.co = Promise(@, f)]
    PROVE  Promises(l, m, f)
<1>1. l.sl \in SlotType /\ l.co \in ConnType /\ l = [sl |-> l.sl, co |-> l.co]
  BY LinkFacts
<1>2. m.sl = l.sl /\ m.co = Promise(l.co, f) /\ m = [sl |-> m.sl, co |-> m.co]
  BY <1>1
<1>3. CASE l.co.cl = "open" /\ f.size <= MaxFrame
  <2> DEFINE o == With(l.co.owed, f)
  <2>1. o \in Seq(AnswerCell)
    <3>1. l.co.owed \in Seq(AnswerCell) /\ f.size \in Nat
      BY <1>1, FrameFacts DEF ConnType
    <3>2. Cells(f) \in Seq(AnswerFrame \X Nat)
      BY <3>1, CellsFacts
    <3>3. Cells(f) \in Seq(AnswerCell)
      BY <3>2 DEF AnswerFrame, AnswerCell
    <3>4. QED
      BY <3>1, <3>3, ConcatProperties DEF With
  <2>2. m.co = [l.co EXCEPT !.owed = o]
    BY <1>2, <1>3 DEF Promise, With
  <2> HIDE DEF o
  <2>3. m.co \in ConnType /\ m.co.owed = o
    BY <1>1, <2>1, <2>2 DEF ConnType
  <2>4. /\ m.co.cl = l.co.cl /\ m.co.sv = l.co.sv /\ m.co.fd = l.co.fd /\ m.co.inq = l.co.inq
        /\ m.co.outq = l.co.outq /\ m.co.sent = l.co.sent /\ m.co.left = l.co.left
        /\ m.co.answered = l.co.answered /\ m.co.asked = l.co.asked
    BY <1>1, <2>2 DEF ConnType
  <2>5. LinkOk(m)
    BY <1>2, <2>3, <2>4 DEF LinkOk, Link, ConnOk
  <2>6. QED
    BY <1>2, <1>3, <2>3, <2>4, <2>5 DEF Promises, SameServer, Pending, o
<1>4. CASE ~(l.co.cl = "open" /\ f.size <= MaxFrame)
  <2>1. m = l
    BY <1>1, <1>2, <1>4 DEF Promise
  <2>2. QED
    BY <1>4, <2>1 DEF Promises, SameServer
<1>5. QED
  BY <1>3, <1>4

(* A notification leaves a client served, whether or not it is for it. *)
LEMMA NotifyFacts ==
    ASSUME NEW l, Served(l), NEW f \in NoteFrame, NEW v, v = Notify(l, f)
    PROVE  Successor(l, v) /\ (v.sl.fd # NoFd => v.sl.rbuf = l.sl.rbuf)
<1>1. LinkOk(l) /\ Owing(l, Pending(l)) /\ l.sl.fd # NoFd
  BY ServedIsOwing, FdFacts DEF Owing
<1>2. f \in AnswerFrame /\ f.kind = "note" /\ f.size \in Nat /\ f.topic \in Topic \cup {Shutdown}
  BY FrameFacts
<1>3. l = [l EXCEPT !.co = l.co]
  BY <1>1, LinkFacts
<1>4. CASE f.topic \in l.co.asked
  <2> DEFINE m == [l EXCEPT !.co = Promise(@, f)]
             p == IF f.size > MaxFrame THEN Pending(m) ELSE With(Pending(m), f)
  <2>1. Promises(l, m, f)
    BY <1>1, <1>2, PromiseFacts
  <2>2. v = IF ClientMatchesTopic(l.sl, f.topic) THEN ClientSendFrame(m, f) ELSE m
    BY <1>4 DEF Notify
  <2> HIDE DEF m
  <2>3. LinkOk(m) /\ m.sl.fd # NoFd
    BY <2>1, <1>1 DEF Promises
  <2>4. CASE l.co.cl = "open" \/ ClientMatchesTopic(l.sl, f.topic)
    <3>1. v = ClientSendFrame(m, f)
      BY <1>1, <1>2, <1>4, <2>2, <2>4 DEF Owing, KnowsTopics
    <3>2. Delivered(m, v, p)
      BY <1>2, <2>3, <3>1, SendFrameFacts
    <3>3. Owing(m, p)
      <4>1. m.co.sv = "open" /\ m.sl.fd \in Fds /\ m.co.fd = m.sl.fd
        BY <1>1, <2>1 DEF Promises, SameServer, Owing
      <4>2. ASSUME m.co.cl = "open"
            PROVE  /\ m.co.owed = p /\ KnowsTopics(m)
                   /\ Fits => \E h \in Nat : Answering(m.co, h) /\ Asking(Requests(m), h, m.co.sent)
        <5>1. l.co.cl = "open" /\ l.co.owed = Pending(l) /\ KnowsTopics(l)
          BY <1>1, <2>1, <4>2 DEF Promises, Owing
        <5>2. m.co.owed = p
          <6>1. f.size \in Nat /\ MaxFrame \in Nat
            BY <1>2, SizeFacts
          <6>2. f.size <= MaxFrame <=> ~(f.size > MaxFrame)
            BY <6>1
          <6>3. QED
            BY <6>2, <2>1, <5>1 DEF Promises
        <5>3. KnowsTopics(m)
          BY <2>1, <5>1 DEF Promises, KnowsTopics
        <5>4. Requests(m) = Requests(l)
          BY <2>1 DEF Promises, SameServer, Requests
        <5>5. ASSUME NEW h \in Nat, Answering(l.co, h)
              PROVE  Answering(m.co, h)
          <6>1. CASE m.co.owed = With(l.co.owed, f)
            <7>1. l.co \in ConnType /\ m.co \in ConnType /\ m.co.answered = l.co.answered /\ m.co.sent = l.co.sent
              BY <1>1, <2>1, LinkFacts DEF Promises
            <7>2. QED
              BY <1>2, <5>5, <6>1, <7>1, AnsweringJoin
          <6>2. CASE m.co.owed = l.co.owed
            BY <2>1, <5>5, <6>2 DEF Promises, Answering
          <6>3. QED
            BY <2>1, <6>1, <6>2 DEF Promises
        <5>6. ASSUME Fits
              PROVE  \E h \in Nat : Answering(m.co, h) /\ Asking(Requests(m), h, m.co.sent)
          <6>1. PICK h \in Nat : Answering(l.co, h) /\ Asking(Requests(l), h, l.co.sent)
            BY <1>1, <5>1, <5>6 DEF Owing
          <6>2. Answering(m.co, h) /\ Asking(Requests(m), h, m.co.sent)
            BY <2>1, <5>4, <5>5, <6>1 DEF Promises
          <6>3. QED
            BY <6>2
        <5>7. QED
          BY <5>2, <5>3, <5>6
      <4>3. QED
        BY <4>1, <4>2 DEF Owing
    <3> HIDE DEF p
    <3>4. Successor(m, v) /\ (v.sl.fd # NoFd => v.sl.rbuf = m.sl.rbuf)
      BY <3>2, <3>3, DeliveredServes
    <3>5. QED
      BY <2>1, <3>4 DEF Promises, Successor
  <2>5. CASE ~(l.co.cl = "open" \/ ClientMatchesTopic(l.sl, f.topic))
    <3>1. m = [l EXCEPT !.co = l.co]
      BY <2>5, <1>3 DEF m, Promise
    <3>2. v = l
      BY <2>2, <2>5, <3>1, <1>3
    <3>3. QED
      BY <3>2 DEF Successor
  <2>6. QED
    BY <2>4, <2>5
<1>5. CASE f.topic \notin l.co.asked
  <2>1. v = IF ClientMatchesTopic(l.sl, f.topic) THEN ClientSendFrame(l, f) ELSE l
    <3>1. [l EXCEPT !.co = IF f.topic \in l.co.asked THEN Promise(@, f) ELSE @] = l
      BY <1>3, <1>5
    <3>2. QED
      BY <3>1 DEF Notify
  <2>2. CASE ~ClientMatchesTopic(l.sl, f.topic)
    BY <2>1, <2>2 DEF Successor
  <2>3. CASE ClientMatchesTopic(l.sl, f.topic)
    <3> DEFINE p == IF f.size > MaxFrame THEN Pending(l) ELSE With(Pending(l), f)
    <3>1. v = ClientSendFrame(l, f)
      BY <2>1, <2>3
    <3>2. Delivered(l, v, p)
      BY <1>1, <1>2, <3>1, SendFrameFacts
    <3>3. Owing(l, p)
      BY <1>1, <1>2, <1>5, <2>3 DEF Owing, KnowsTopics
    <3> HIDE DEF p
    <3>4. QED
      BY <3>2, <3>3, DeliveredServes
  <2>4. QED
    BY <2>2, <2>3
<1>6. QED
  BY <1>4, <1>5

(* A subscription tells the slot what the client asks for. *)
LEMMA SubscribeFacts ==
    ASSUME NEW l, Served(l), NEW ts, ts \subseteq Topic, NEW v, v = Subscribe(l, ts)
    PROVE  Served(v) /\ v.sl.fd = l.sl.fd /\ v.sl.rbuf = l.sl.rbuf
<1>1. LinkOk(l) /\ Owing(l, Pending(l))
  BY ServedIsOwing
<1>2. l.sl \in SlotType /\ l.co \in ConnType /\ l = [sl |-> l.sl, co |-> l.co]
  BY <1>1, LinkFacts
<1> DEFINE asked == IF ts = {} THEN Topic \cup {Shutdown} ELSE ts
           wild == (ts = {})
<1>3. /\ v.sl = [l.sl EXCEPT !.wild = wild, !.topics = ts]
      /\ v.co = [l.co EXCEPT !.asked = asked]
      /\ v = [sl |-> v.sl, co |-> v.co]
  <2>1. v = [l EXCEPT !.sl = [l.sl EXCEPT !.wild = wild, !.topics = ts], !.co = [l.co EXCEPT !.asked = asked]]
    BY <1>2 DEF Subscribe
  <2>2. QED
    BY <1>2, <2>1
<1>4. wild \in BOOLEAN /\ asked \subseteq Topic \cup {Shutdown} /\ \A t \in Topic \cup {Shutdown} : t \in asked <=> wild \/ t \in ts
  OBVIOUS
<1> HIDE DEF wild, asked
<1>5. /\ v.sl = [fd |-> l.sl.fd, wild |-> wild, topics |-> ts, rbuf |-> l.sl.rbuf,
                 wbuf |-> l.sl.wbuf, wpos |-> l.sl.wpos]
      /\ v.sl \in SlotType
  <2>1. v.sl = [fd |-> l.sl.fd, wild |-> wild, topics |-> ts, rbuf |-> l.sl.rbuf,
                wbuf |-> l.sl.wbuf, wpos |-> l.sl.wpos]
    BY <1>2, <1>3 DEF SlotType
  <2>2. QED
    BY <1>2, <1>4, <2>1 DEF SlotType
<1>6. /\ v.co \in ConnType /\ v.co.asked = asked
      /\ v.co.cl = l.co.cl /\ v.co.sv = l.co.sv /\ v.co.fd = l.co.fd /\ v.co.inq = l.co.inq
      /\ v.co.outq = l.co.outq /\ v.co.sent = l.co.sent /\ v.co.left = l.co.left
      /\ v.co.answered = l.co.answered /\ v.co.owed = l.co.owed
  BY <1>2, <1>3, <1>4, ZenonT(60) DEF ConnType
<1>7. LinkOk(v)
  BY <1>1, <1>3, <1>5, <1>6 DEF LinkOk, Link, SlotOk, ConnOk
<1>8. Pending(v) = Pending(l) /\ Requests(v) = Requests(l) /\ KnowsTopics(v)
  <2>1. Pending(v) = Pending(l) /\ Requests(v) = Requests(l)
    <3>1. v.sl.wbuf = l.sl.wbuf /\ v.sl.wpos = l.sl.wpos /\ v.sl.rbuf = l.sl.rbuf
      BY <1>5
    <3>2. v.co.outq = l.co.outq /\ v.co.inq = l.co.inq /\ v.co.left = l.co.left
      BY <1>6
    <3>3. Pending(v) = Pending(l)
      BY <3>1, <3>2 DEF Pending, Unsent
    <3>4. Requests(v) = Requests(l)
      BY <3>1, <3>2 DEF Requests
    <3>5. QED
      BY <3>3, <3>4
  <2>2. KnowsTopics(v)
    BY <1>4, <1>5, <1>6 DEF KnowsTopics, ClientMatchesTopic
  <2>3. QED
    BY <2>1, <2>2
<1>9. \A h \in Nat : Answering(l.co, h) => Answering(v.co, h)
  BY <1>6 DEF Answering
<1>10. Owing(v, Pending(v))
  <2>1. v.co.sv = "open" /\ v.sl.fd \in Fds /\ v.co.fd = v.sl.fd
    BY <1>1, <1>5, <1>6 DEF Owing
  <2>2. ASSUME v.co.cl = "open"
        PROVE  /\ v.co.owed = Pending(v)
               /\ Fits => \E h \in Nat : Answering(v.co, h) /\ Asking(Requests(v), h, v.co.sent)
    <3>1. /\ l.co.owed = Pending(l)
          /\ Fits => \E h \in Nat : Answering(l.co, h) /\ Asking(Requests(l), h, l.co.sent)
      BY <1>1, <1>6, <2>2 DEF Owing
    <3>2. ASSUME NEW h \in Nat, Answering(l.co, h) /\ Asking(Requests(l), h, l.co.sent)
          PROVE  Answering(v.co, h) /\ Asking(Requests(v), h, v.co.sent)
      BY <1>6, <1>8, <1>9, <3>2
    <3>3. v.co.owed = Pending(v)
      BY <1>6, <1>8, <3>1, SMTT(60)
    <3>4. QED
      BY <3>1, <3>2, <3>3
  <2>3. QED
    BY <1>8, <2>1, <2>2 DEF Owing
<1>11. QED
  BY <1>5, <1>7, <1>10, ServedIsOwing

(* Replacing the end of a queue's front. *)
LEMMA DropOfRequests ==
    ASSUME NEW l, l.sl \in SlotType, l.co \in ConnType, NEW n \in 0..Len(l.sl.rbuf)
    PROVE  /\ Drop(l.sl.rbuf, n) \in Seq(RequestCell) /\ Len(Drop(l.sl.rbuf, n)) = Len(l.sl.rbuf) - n
           /\ Drop(Requests(l), n) = Drop(l.sl.rbuf, n) \o l.co.inq \o l.co.left
           /\ Requests(l) \in Seq(RequestCell) /\ n \in 0..Len(Requests(l))
<1> DEFINE r == l.sl.rbuf
           a == l.co.inq
           b == l.co.left
<1>1. r \in Seq(RequestCell) /\ a \in Seq(RequestCell) /\ b \in Seq(RequestCell)
  BY DEF SlotType, ConnType
<1>2. n \in 0..Len(r)
  OBVIOUS
<1>3. Requests(l) = (r \o a) \o b
  BY DEF Requests
<1> HIDE DEF r, a, b
<1>4. Drop(r, n) \in Seq(RequestCell) /\ Len(Drop(r, n)) = Len(r) - n
  BY <1>1, <1>2, PartFacts
<1>5. r \o a \in Seq(RequestCell) /\ Len(r \o a) = Len(r) + Len(a) /\ Len(r) \in Nat /\ Len(a) \in Nat
  BY <1>1, JoinFacts
<1>6. (r \o a) \o b \in Seq(RequestCell) /\ Len((r \o a) \o b) = Len(r \o a) + Len(b) /\ Len(b) \in Nat
  BY <1>1, <1>5, JoinFacts
<1>7. n \in 0..Len(r \o a) /\ n \in 0..Len((r \o a) \o b)
  BY <1>2, <1>5, <1>6
<1>8. Drop((r \o a) \o b, n) = Drop(r \o a, n) \o b
  BY <1>1, <1>5, <1>7, DropOfJoin
<1>9. Drop(r \o a, n) = Drop(r, n) \o a
  BY <1>1, <1>2, DropOfJoin
<1>10. QED
  BY <1>3, <1>4, <1>6, <1>7, <1>8, <1>9 DEF r, a, b

(* The first request answered and, with it, taken from the buffer. *)
AtFront(b, g) == b # <<>> /\ g = b[1][1] /\ Len(b) > g.size
NextRequest(l, g) == AtFront(l.sl.rbuf, g)
Consumed(l, n) == [l EXCEPT !.sl.rbuf = Drop(@, n)]
Replied(l, v, w) == Left(v) \/ (v.sl.fd # NoFd /\ Served(w) /\ w.sl.fd = l.sl.fd)

(* It is the one the reply answers: what is asked after it stays asked in order. *)
LEMMA AnswerFacts ==
    ASSUME NEW l, Served(l), NEW g, NextRequest(l, g),
           NEW f \in ReplyFrame, f.id = g.id, f.size \in ReplySize,
           NEW n, n = g.size + 1, NEW v, v = Answer(l, f), NEW w, w = Consumed(v, n)
    PROVE  Replied(l, v, w)
<1>0. l.sl.rbuf # <<>> /\ g = l.sl.rbuf[1][1] /\ Len(l.sl.rbuf) > g.size
  BY DEF NextRequest, AtFront
<1>1. LinkOk(l) /\ Owing(l, Pending(l)) /\ l.sl.fd # NoFd
  BY ServedIsOwing, FdFacts DEF Owing
<1>2. f \in AnswerFrame /\ f.kind = "reply" /\ f.size \in Nat /\ (Fits => f.size <= MaxFrame)
  BY FrameFacts DEF Fits
<1>3. l.sl \in SlotType /\ l.co \in ConnType
  BY <1>1, LinkFacts
<1> DEFINE r == l.sl.rbuf
<1>4. r \in Seq(RequestCell) /\ Len(r) \in Nat /\ 1 \in 1..Len(r) /\ g \in RequestFrame /\ g.size \in Nat
  <2>1. r \in Seq(RequestCell)
    BY <1>3 DEF SlotType
  <2>2. Len(r) \in Nat /\ 1 \in 1..Len(r)
    BY <1>0, <2>1, EmptySeq, LenProperties
  <2>3. r[1] \in RequestCell
    BY <2>1, <2>2, ElementOfSeq
  <2>4. g \in RequestFrame
    BY <1>0, <2>3 DEF RequestCell
  <2>5. QED
    BY <2>1, <2>2, <2>4, FrameFacts
<1>5. n \in 0..Len(l.sl.rbuf) /\ n \in 1..Len(r)
  <2>1. Len(r) > g.size /\ r = l.sl.rbuf
    BY <1>0
  <2> HIDE DEF r
  <2>2. n \in 1..Len(r) /\ n \in 0..Len(r)
    BY <1>4, <2>1
  <2>3. QED
    BY <2>1, <2>2
<1> DEFINE d == Drop(r, n)
<1>6. /\ d \in Seq(RequestCell) /\ Len(d) <= Len(r)
      /\ Drop(Requests(l), n) = d \o l.co.inq \o l.co.left /\ Requests(l) \in Seq(RequestCell)
  <2>1. /\ d \in Seq(RequestCell) /\ Len(d) = Len(r) - n
        /\ Drop(Requests(l), n) = d \o l.co.inq \o l.co.left /\ Requests(l) \in Seq(RequestCell)
    BY <1>3, <1>5, DropOfRequests
  <2>2. Len(d) <= Len(r)
    <3> DEFINE a == Len(r)
               b == Len(d)
    <3>1. a \in Nat /\ n \in 1..a /\ b = a - n
      BY <2>1, <1>4, <1>5
    <3> HIDE DEF a, b
    <3>2. b <= a
      BY <3>1
    <3>3. QED
      BY <3>2 DEF a, b
  <2>3. QED
    BY <2>1, <2>2
<1> DEFINE m == [l EXCEPT !.co = Promise(@, f)]
           p == IF f.size > MaxFrame THEN Pending(m) ELSE With(Pending(m), f)
<1>7. Promises(l, m, f)
  BY <1>1, <1>2, PromiseFacts
<1>8. v = ClientSendFrame(m, f)
  BY DEF Answer
<1> HIDE DEF m
<1>9. LinkOk(m) /\ m.sl.fd # NoFd /\ m.sl = l.sl
  BY <1>1, <1>7 DEF Promises
<1>10. Delivered(m, v, p)
  BY <1>2, <1>8, <1>9, SendFrameFacts
<1>11. ASSUME l.co.cl = "open"
       PROVE  m.co.owed = p /\ KnowsTopics(m)
  <2>1. f.size <= MaxFrame <=> ~(f.size > MaxFrame)
    BY <1>2, SizeFacts
  <2>2. l.co.owed = Pending(l) /\ KnowsTopics(l)
    BY <1>1, <1>11 DEF Owing
  <2>3. m.co.owed = p
    BY <1>7, <1>11, <2>1, <2>2 DEF Promises
  <2>4. KnowsTopics(m)
    BY <1>7, <2>2 DEF Promises, KnowsTopics
  <2>5. QED
    BY <2>3, <2>4
(* The reply takes the number of the request. *)
<1>12. ASSUME l.co.cl = "open", Fits
       PROVE  \E h \in Nat : Answering(m.co, h) /\ Asking(d \o l.co.inq \o l.co.left, h, l.co.sent)
  <2>1. PICK h \in Nat : Answering(l.co, h) /\ Asking(Requests(l), h, l.co.sent)
    BY <1>1, <1>12 DEF Owing
  <2>2. l.co.sent \in Nat
    BY <1>3 DEF ConnType
  <2>3. Requests(l) # <<>> /\ Requests(l)[1] = r[1]
    <3> DEFINE a == l.co.inq
               b == l.co.left
    <3>1. a \in Seq(RequestCell) /\ b \in Seq(RequestCell)
      BY <1>3 DEF ConnType
    <3>2. Requests(l) = (r \o a) \o b
      BY DEF Requests
    <3> HIDE DEF a, b, r
    <3>3. r \o a \in Seq(RequestCell) /\ Len(r \o a) = Len(r) + Len(a) /\ Len(a) \in Nat /\ (r \o a)[1] = r[1]
      BY <1>4, <3>1, JoinFacts
    <3>4. 1 \in 1..Len(r \o a)
      BY <1>4, <3>3
    <3>5. Len((r \o a) \o b) = Len(r \o a) + Len(b) /\ Len(b) \in Nat /\ ((r \o a) \o b)[1] = (r \o a)[1]
      BY <3>1, <3>3, <3>4, JoinFacts
    <3>6. Requests(l) # <<>>
      BY <1>4, <3>2, <3>3, <3>5, EmptySeq
    <3>7. QED
      BY <3>2, <3>3, <3>5, <3>6
  <2>4. g = Requests(l)[1][1]
    BY <1>0, <2>3, SMTT(60)
  <2>5. g.id = h + 1 /\ h + 1 <= l.co.sent /\ Asking(Drop(Requests(l), n), h + 1, l.co.sent)
    BY <1>6, <2>1, <2>2, <2>3, <2>4, AskingDrop, ZenonT(60)
  <2>6. Answering(m.co, h + 1)
    <3>1. l.co \in ConnType /\ m.co \in ConnType /\ m.co.answered = l.co.answered /\ m.co.sent = l.co.sent
      BY <1>3, <1>7, <1>9, LinkFacts DEF Promises
    <3>2. m.co.owed = With(l.co.owed, f)
      BY <1>2, <1>7, <1>12 DEF Promises
    <3>3. QED
      BY <1>2, <2>1, <2>5, <3>1, <3>2, AnsweringJoin
  <2>7. Asking(d \o l.co.inq \o l.co.left, h + 1, l.co.sent)
    BY <1>6, <2>5
  <2>8. h + 1 \in Nat
    OBVIOUS
  <2> HIDE DEF d
  <2>9. QED
    BY <2>6, <2>7, <2>8
<1> HIDE DEF p
<1>13. CASE Gone(m, v, p)
  <2>1. m.co.cl = "open" => m.co.owed = p /\ (Fits => \E h \in Nat : Answering(m.co, h))
    BY <1>7, <1>11, <1>12 DEF Promises
  <2>2. QED
    BY <1>13, <2>1, GoneIsLeft DEF Replied
<1>14. CASE Kept(m, v, p)
  <2>1. LinkOk(v) /\ SameClient(m.co, v.co) /\ SameServer(m, v) /\ Pending(v) = p
    BY <1>14 DEF Kept
  <2>2. v.sl \in SlotType /\ v.co \in ConnType /\ v = [sl |-> v.sl, co |-> v.co] /\ v.sl.rbuf = r
    BY <1>9, <2>1, LinkFacts DEF SameServer
  <2> HIDE DEF r, d
  <2>3. w.co = v.co /\ w.sl = [v.sl EXCEPT !.rbuf = d] /\ w = [sl |-> w.sl, co |-> w.co]
    <3>1. w = [v EXCEPT !.sl = [v.sl EXCEPT !.rbuf = d]]
      BY <2>2 DEF d, Consumed
    <3>2. QED
      BY <2>2, <3>1
  <2>4. /\ w.sl \in SlotType /\ w.sl.rbuf = d /\ w.sl.fd = v.sl.fd /\ w.sl.wild = v.sl.wild
        /\ w.sl.topics = v.sl.topics /\ w.sl.wbuf = v.sl.wbuf /\ w.sl.wpos = v.sl.wpos
    BY <1>6, <2>2, <2>3 DEF SlotType
  <2>5. LinkOk(w)
    <3>1. Len(d) <= ReadBuf
      <4>1. Len(r) <= ReadBuf
        BY <2>1, <2>2 DEF LinkOk, SlotOk
      <4>2. Len(d) \in Nat
        BY <1>6, LenProperties, SMTT(60)
      <4>3. QED
        BY <1>4, <1>6, <4>1, <4>2, SizeFacts
    <3>2. QED
      BY <2>1, <2>3, <2>4, <3>1 DEF LinkOk, Link, SlotOk
  <2>6. Pending(w) = p
    BY <2>1, <2>3, <2>4 DEF Pending, Unsent
  <2>7. Requests(w) = d \o l.co.inq \o l.co.left
    BY <1>7, <2>1, <2>3, <2>4, ZenonT(60) DEF Promises, SameServer, SameClient, Requests
  <2>8. /\ w.co.sv = "open" /\ w.sl.fd \in Fds /\ w.co.fd = w.sl.fd /\ w.sl.fd = l.sl.fd /\ v.sl.fd # NoFd
    <3>1. l.co.sv = "open" /\ l.sl.fd \in Fds /\ l.co.fd = l.sl.fd
      BY <1>1 DEF Owing
    <3>2. m.co.sv = l.co.sv /\ m.co.fd = l.co.fd /\ m.sl = l.sl
      BY <1>7 DEF Promises, SameServer
    <3>3. v.co.sv = m.co.sv /\ v.co.fd = m.co.fd /\ v.sl.fd = m.sl.fd
      BY <2>1 DEF SameServer
    <3>4. QED
      BY <1>1, <2>3, <2>4, <3>1, <3>2, <3>3
  <2>9. ASSUME w.co.cl = "open"
        PROVE  /\ w.co.owed = p /\ KnowsTopics(w)
               /\ Fits => \E h \in Nat : Answering(w.co, h) /\ Asking(Requests(w), h, w.co.sent)
    <3>1. l.co.cl = "open" /\ w.co.sent = l.co.sent /\ w.co.owed = m.co.owed /\ w.co.asked = m.co.asked
          /\ w.co.answered = m.co.answered /\ w.co.sent = m.co.sent
      BY <1>7, <2>1, <2>3, <2>9 DEF Promises, SameClient
    <3>2. w.co.owed = p /\ KnowsTopics(m)
      BY <1>11, <3>1
    <3>3. KnowsTopics(w)
      BY <2>1, <2>4, <3>1, <3>2 DEF KnowsTopics, SameServer, ClientMatchesTopic
    <3>4. \A h \in Nat : Answering(m.co, h) => Answering(w.co, h)
      BY <3>1 DEF Answering
    <3>5. QED
      BY <1>12, <2>7, <3>1, <3>2, <3>3, <3>4
  <2>10. Owing(w, Pending(w))
    BY <2>6, <2>8, <2>9 DEF Owing
  <2>11. QED
    BY <2>5, <2>8, <2>10, ServedIsOwing DEF Replied
<1>15. QED
  BY <1>10, <1>13, <1>14 DEF Delivered

-----------------------------------------------------------------------------
(* The server.                                                             *)

(* What a connection the server does not hold, and a slot in use, are not. *)
LEMMA GoodFacts ==
    ASSUME NEW s, Good(s)
    PROVE  /\ s \in State /\ s.slot \in [Slots -> SlotType] /\ s.conn \in [Conn -> ConnType]
           /\ s = [slot |-> s.slot, conn |-> s.conn]
           /\ \A c \in Conn, i \in Slots : Unserved(s.conn[c]) => ~Linked(s, i, c)
           /\ \A c \in Conn, i \in Slots : s.slot[i] = FreeSlot => ~Linked(s, i, c)
           /\ \A i \in Slots : s.slot[i].fd # NoFd => \E c \in Conn : Linked(s, i, c)
           /\ \A c \in Conn : s.conn[c].sv = "open" => \E i \in Slots : Linked(s, i, c)
<1>1. \A co : Unserved(co) => co.sv # "open"
  BY FreeConnType DEF Unserved, Ended, Queued
<1>2. s \in State /\ s.slot \in [Slots -> SlotType] /\ s.conn \in [Conn -> ConnType] /\ s = [slot |-> s.slot, conn |-> s.conn]
  BY DEF Good, State
<1>3. QED
  BY <1>1, <1>2, FdFacts DEF Good, Linked

(* A client is found by its slot, and its slot by the client. *)
LEMMA AtFacts ==
    ASSUME NEW s, Good(s), NEW i \in Slots, NEW c \in Conn, Linked(s, i, c)
    PROVE  ConnOf(s, i) = c /\ SlotOf(s, c) = i /\ At(s, i) = LinkAt(s, i, c)
<1>1. /\ \A j \in Slots : Linked(s, j, c) => j = i
      /\ \A d \in Conn : Linked(s, i, d) => d = c
  BY DEF Good
<1>2. s.slot[i].fd # NoFd /\ s.conn[c].sv = "open" /\ s.conn[c].fd = s.slot[i].fd
  BY DEF Linked
<1>3. \A d \in Conn : s.conn[d].sv = "open" /\ s.conn[d].fd = s.slot[i].fd <=> d = c
  BY <1>1, <1>2 DEF Linked
<1>4. \A j \in Slots : s.slot[j].fd = s.conn[c].fd <=> j = i
  BY <1>1, <1>2 DEF Linked
<1>5. ConnOf(s, i) = c
  BY <1>3 DEF ConnOf
<1>6. SlotOf(s, c) = i
  BY <1>4 DEF SlotOf
<1>7. QED
  BY <1>5, <1>6 DEF At, LinkAt

(* A state in which every client the server held is served on or left, and *)
(* nothing else is held.                                                   *)
Moves(s, t) ==
    /\ t \in State
    /\ \A i \in Slots, c \in Conn : Linked(s, i, c) => Successor(LinkAt(s, i, c), LinkAt(t, i, c))
    /\ \A i \in Slots : s.slot[i] = FreeSlot => t.slot[i] = FreeSlot
    /\ \A c \in Conn : Unserved(s.conn[c]) => Unserved(t.conn[c])

(* Such a state is good when the one before it was. *)
LEMMA MovesGood ==
    ASSUME NEW s, Good(s), NEW t, Moves(s, t)
    PROVE  Good(t)
<1>1. t \in State
  BY DEF Moves
<1>2. \A co : Unserved(co) => co.sv # "open"
  BY FreeConnType DEF Unserved, Ended, Queued
<1>3. \A i \in Slots : s.slot[i] = FreeSlot \/ \E c \in Conn : Linked(s, i, c)
  BY DEF Good
<1>4. \A c \in Conn : Unserved(s.conn[c]) \/ \E i \in Slots : Linked(s, i, c)
  BY DEF Good
<1>5. \A i, j \in Slots, c, d \in Conn : Linked(s, i, c) => (Linked(s, j, c) => j = i) /\ (Linked(s, i, d) => d = c)
  BY DEF Good
(* The pairs that go on. *)
<1>6. ASSUME NEW i \in Slots, NEW c \in Conn, Linked(s, i, c)
      PROVE  \/ Served(LinkAt(t, i, c)) /\ t.slot[i].fd = s.slot[i].fd /\ Linked(t, i, c)
             \/ t.slot[i] = FreeSlot /\ Ended(t.conn[c])
  <2>1. Successor(LinkAt(s, i, c), LinkAt(t, i, c))
    BY <1>6 DEF Moves
  <2>2. CASE Served(LinkAt(t, i, c)) /\ t.slot[i].fd = s.slot[i].fd
    BY <2>2, <1>6, FdFacts DEF Served, LinkAt, Linked
  <2>3. CASE Left(LinkAt(t, i, c))
    BY <2>3 DEF Left, LinkAt
  <2>4. QED
    BY <2>1, <2>2, <2>3 DEF Successor, LinkAt
<1>7. ASSUME NEW i \in Slots, NEW c \in Conn, Linked(t, i, c)
      PROVE  Linked(s, i, c)
  <2>1. s.slot[i] # FreeSlot
    BY <1>7, FdFacts DEF Moves, Linked
  <2>2. PICK d \in Conn : Linked(s, i, d)
    BY <2>1, <1>3
  <2>3. t.conn[c].sv = "open" /\ ~Unserved(t.conn[c])
    BY <1>2, <1>7 DEF Linked
  <2>4. PICK j \in Slots : Linked(s, j, c)
    BY <2>3, <1>4 DEF Moves
  <2>5. t.slot[i].fd = s.slot[i].fd
    BY <2>2, <1>6, <1>7, FdFacts DEF Linked
  <2>6. t.slot[j].fd = s.slot[j].fd /\ Linked(t, j, c)
    BY <2>3, <2>4, <1>6 DEF Unserved
  <2>7. Linked(s, j, d)
    BY <2>2, <2>4, <2>5, <2>6, <1>7 DEF Linked
  <2>8. d = c
    BY <2>4, <2>7, <1>5
  <2>9. QED
    BY <2>2, <2>8
<1>8. \A i \in Slots : t.slot[i] = FreeSlot \/ \E c \in Conn : Linked(t, i, c)
  BY <1>3, <1>6 DEF Moves
<1>9. \A c \in Conn : Unserved(t.conn[c]) \/ \E i \in Slots : Linked(t, i, c)
  BY <1>4, <1>6 DEF Moves, Unserved
<1>10. ASSUME NEW i \in Slots, NEW c \in Conn, Linked(t, i, c)
       PROVE  /\ Served(LinkAt(t, i, c))
              /\ \A j \in Slots : Linked(t, j, c) => j = i
              /\ \A d \in Conn : Linked(t, i, d) => d = c
  <2>1. Linked(s, i, c)
    BY <1>7, <1>10
  <2>2. t.slot[i] # FreeSlot
    BY <1>10, FdFacts DEF Linked
  <2>3. Served(LinkAt(t, i, c))
    BY <1>6, <2>1, <2>2
  <2>4. QED
    BY <1>5, <1>7, <2>1, <2>3
<1>11. QED
  BY <1>1, <1>8, <1>9, <1>10 DEF Good

(* What the server does to its clients leaves the others alone, and those  *)
(* that wait for accept waiting.                                           *)
Advances(s, t) == Moves(s, t) /\ \A c \in Conn : Unserved(s.conn[c]) => t.conn[c] = s.conn[c]
Waiting(s, t) == \A c \in Conn : t.conn[c].sv = "queued" <=> s.conn[c].sv = "queued"

(* Such a state is good too, and nobody has left the line of accept. *)
LEMMA AdvancesGood ==
    ASSUME NEW s, Good(s), NEW t, Advances(s, t)
    PROVE  Good(t) /\ Waiting(s, t)
<1>1. Good(t)
  BY MovesGood DEF Advances
<1>2. ASSUME NEW c \in Conn
      PROVE  t.conn[c].sv = "queued" <=> s.conn[c].sv = "queued"
  <2>1. CASE Unserved(s.conn[c])
    BY <2>1 DEF Advances
  <2>2. CASE \E i \in Slots : Linked(s, i, c)
    <3>1. PICK i \in Slots : Linked(s, i, c)
      BY <2>2
    <3>2. Successor(LinkAt(s, i, c), LinkAt(t, i, c))
      BY <3>1 DEF Advances, Moves
    <3>3. t.conn[c].sv \in {"open", "closed"}
      BY <3>2 DEF Successor, Served, Left, Ended, LinkAt
    <3>4. QED
      BY <3>1, <3>3 DEF Linked
  <2>3. QED
    BY <2>1, <2>2 DEF Good
<1>3. QED
  BY <1>1, <1>2 DEF Waiting

(* What follows a client has the types of a slot and a connection. *)
LEMMA LinkTypes ==
    ASSUME NEW v, NEW l, Successor(l, v)
    PROVE  v.sl \in SlotType /\ v.co \in ConnType /\ v = [sl |-> v.sl, co |-> v.co]
BY LinkFacts DEF Successor, Served, Left, Link

(* One client replaced. *)
LEMMA PutFacts ==
    ASSUME NEW s, Good(s), NEW i \in Slots, NEW c \in Conn, Linked(s, i, c),
           NEW v, Successor(LinkAt(s, i, c), v), NEW t, t = Put(s, i, v)
    PROVE  /\ Good(t) /\ Waiting(s, t)
           /\ t.slot = [s.slot EXCEPT ![i] = v.sl] /\ t.conn = [s.conn EXCEPT ![c] = v.co]
           /\ t.slot[i] = v.sl /\ t.conn[c] = v.co /\ t = [slot |-> t.slot, conn |-> t.conn]
<1>1. v.sl \in SlotType /\ v.co \in ConnType /\ v = [sl |-> v.sl, co |-> v.co]
  BY LinkTypes
<1>2. s.slot \in [Slots -> SlotType] /\ s.conn \in [Conn -> ConnType] /\ s = [slot |-> s.slot, conn |-> s.conn]
  BY GoodFacts
<1>3. ConnOf(s, i) = c
  BY AtFacts
<1>4. /\ t.slot = [s.slot EXCEPT ![i] = v.sl] /\ t.conn = [s.conn EXCEPT ![c] = v.co]
      /\ t = [slot |-> t.slot, conn |-> t.conn]
  <2>1. t = [s EXCEPT !.slot = [s.slot EXCEPT ![i] = v.sl], !.conn = [s.conn EXCEPT ![c] = v.co]]
    BY <1>2, <1>3 DEF Put
  <2>2. QED
    BY <1>2, <2>1
<1>5. t \in State /\ t.slot[i] = v.sl /\ t.conn[c] = v.co
  BY <1>1, <1>2, <1>4 DEF State
<1>6. ASSUME NEW j \in Slots, NEW d \in Conn, Linked(s, j, d)
      PROVE  Successor(LinkAt(s, j, d), LinkAt(t, j, d))
  <2>1. CASE j = i
    <3>1. d = c
      BY <1>6, <2>1 DEF Good
    <3>2. LinkAt(t, j, d) = v
      BY <1>1, <1>5, <2>1, <3>1 DEF LinkAt
    <3>3. QED
      BY <2>1, <3>1, <3>2
  <2>2. CASE j # i
    <3>1. d # c
      BY <1>6, <2>2 DEF Good
    <3>2. LinkAt(t, j, d) = LinkAt(s, j, d)
      BY <1>2, <1>4, <2>2, <3>1 DEF LinkAt
    <3>3. Served(LinkAt(s, j, d))
      BY <1>6 DEF Good
    <3>4. QED
      BY <3>2, <3>3 DEF Successor
  <2>3. QED
    BY <2>1, <2>2
<1>7. \A j \in Slots : s.slot[j] = FreeSlot => t.slot[j] = FreeSlot
  <2>1. s.slot[i] # FreeSlot
    BY FdFacts DEF Linked
  <2>2. QED
    BY <1>2, <1>4, <2>1
<1>8. \A d \in Conn : Unserved(s.conn[d]) => t.conn[d] = s.conn[d]
  <2>1. ~Unserved(s.conn[c])
    BY GoodFacts
  <2>2. QED
    BY <1>2, <1>4, <2>1
<1>9. Advances(s, t)
  BY <1>5, <1>6, <1>7, <1>8 DEF Advances, Moves
<1>10. QED
  BY <1>4, <1>5, <1>9, AdvancesGood

(* What of it the steps need. *)
LEMMA PutGood ==
    ASSUME NEW s, Good(s), NEW i \in Slots, NEW c \in Conn, Linked(s, i, c),
           NEW v, Successor(LinkAt(s, i, c), v), NEW t, t = Put(s, i, v)
    PROVE  Good(t) /\ Waiting(s, t) /\ t.slot[i] = v.sl
<1>1. /\ Good(t) /\ Waiting(s, t)
      /\ t.slot = [s.slot EXCEPT ![i] = v.sl] /\ t.conn = [s.conn EXCEPT ![c] = v.co]
      /\ t.slot[i] = v.sl /\ t.conn[c] = v.co /\ t = [slot |-> t.slot, conn |-> t.conn]
  BY PutFacts
<1>2. QED
  BY <1>1

(* A notification for everyone. *)
LEMMA EmitFacts ==
    ASSUME NEW s, Good(s), NEW topic \in Topic \cup {Shutdown}, NEW z \in ReplySize, NEW t, t = Emit(s, topic, z)
    PROVE  /\ Good(t) /\ Waiting(s, t)
           /\ \A i \in Slots, c \in Conn : Linked(s, i, c) /\ t.slot[i].fd # NoFd => t.slot[i].rbuf = s.slot[i].rbuf
<1> DEFINE f == [kind |-> "note", topic |-> topic, size |-> z]
<1>1. f \in NoteFrame
  BY SizeFacts DEF NoteFrame
<1>2. /\ t.slot = [i \in Slots |-> IF Closed(s.slot[i]) THEN s.slot[i] ELSE Notify(At(s, i), f).sl]
      /\ t.conn = [c \in Conn |-> IF s.conn[c].sv = "open" THEN Notify(At(s, SlotOf(s, c)), f).co ELSE s.conn[c]]
      /\ t = [slot |-> t.slot, conn |-> t.conn]
  BY DEF Emit
<1> HIDE DEF f
<1>3. ASSUME NEW i \in Slots, NEW c \in Conn, Linked(s, i, c)
      PROVE  /\ Successor(LinkAt(s, i, c), LinkAt(t, i, c))
             /\ t.slot[i].fd # NoFd => t.slot[i].rbuf = s.slot[i].rbuf
  <2> DEFINE l == LinkAt(s, i, c)
             v == Notify(l, f)
  <2>1. SlotOf(s, c) = i /\ At(s, i) = l
    BY <1>3, AtFacts
  <2>2. Served(l) /\ l.sl = s.slot[i]
    BY <1>3 DEF Good, LinkAt
  <2>3. t.slot[i] = v.sl /\ t.conn[c] = v.co
    BY <1>2, <1>3, <2>1 DEF Linked, Closed
  <2> HIDE DEF l
  <2>4. Successor(l, v) /\ (v.sl.fd # NoFd => v.sl.rbuf = l.sl.rbuf)
    BY <1>1, <2>2, NotifyFacts
  <2> HIDE DEF v
  <2>5. v = LinkAt(t, i, c)
    BY <2>3, <2>4, LinkTypes DEF LinkAt
  <2>6. QED
    BY <2>2, <2>3, <2>4, <2>5 DEF l
<1>4. \A i \in Slots : s.slot[i] = FreeSlot => t.slot[i] = FreeSlot
  BY <1>2, FdFacts DEF Closed
<1>5. \A c \in Conn : Unserved(s.conn[c]) => t.conn[c] = s.conn[c]
  <2>1. \A co : Unserved(co) => co.sv # "open"
    BY FreeConnType DEF Unserved, Ended, Queued
  <2>2. QED
    BY <1>2, <2>1
<1>6. t \in State
  <2>1. s.slot \in [Slots -> SlotType] /\ s.conn \in [Conn -> ConnType]
    BY GoodFacts
  <2>2. ASSUME NEW i \in Slots
        PROVE  t.slot[i] \in SlotType
    <3>1. CASE s.slot[i] = FreeSlot
      BY <1>4, <3>1, FreeSlotOk
    <3>2. CASE s.slot[i] # FreeSlot
      <4>1. PICK c \in Conn : Linked(s, i, c)
        BY <3>2 DEF Good
      <4>2. Successor(LinkAt(s, i, c), LinkAt(t, i, c))
        BY <1>3, <4>1
      <4>3. QED
        BY <4>2, LinkTypes DEF LinkAt
    <3>3. QED
      BY <3>1, <3>2
  <2>3. ASSUME NEW c \in Conn
        PROVE  t.conn[c] \in ConnType
    <3>1. CASE Unserved(s.conn[c])
      BY <1>5, <2>1, <3>1
    <3>2. CASE ~Unserved(s.conn[c])
      <4>1. PICK i \in Slots : Linked(s, i, c)
        BY <3>2 DEF Good
      <4>2. Successor(LinkAt(s, i, c), LinkAt(t, i, c))
        BY <1>3, <4>1
      <4>3. QED
        BY <4>2, LinkTypes DEF LinkAt
    <3>3. QED
      BY <3>1, <3>2
  <2>4. QED
    BY <1>2, <2>2, <2>3 DEF State
<1>7. Advances(s, t)
  BY <1>3, <1>4, <1>5, <1>6 DEF Advances, Moves
<1>8. QED
  BY <1>3, <1>7, AdvancesGood

(* Every descriptor closed. *)
LEMMA AllClosedFacts ==
    ASSUME NEW s, Good(s), NEW t, t = [slot |-> [i \in Slots |-> FreeSlot], conn |-> AllClosed(s.conn)]
    PROVE  Good(t) /\ \A c \in Conn : t.conn[c].sv # "queued"
<1>1. s.conn \in [Conn -> ConnType]
  BY GoodFacts
<1>2. ASSUME NEW co, Unserved(co), co.sv # "none"
      PROVE  Ended(HungUp(co))
  <2> DEFINE d == HungUp(co)
  <2>1. ConnOk(co)
    BY <1>2, FreeConnType DEF Unserved, Ended, Queued
  <2>2. <<>> \in Seq(RequestCell) /\ Len(<<>>) = 0
    BY EmptySeq
  <2>3. /\ d \in ConnType /\ d.sv = "closed" /\ d.fd = NoFd /\ d.inq = <<>> /\ d.outq = co.outq
        /\ SameClient(co, d)
    BY <2>1, <2>2 DEF HungUp, ConnOk, ConnType, SameClient, NoFd
  <2>4. ConnOk(d)
    BY <2>1, <2>2, <2>3, SizeFacts DEF ConnOk, SameClient
  <2>5. \A h \in Nat : Answering(co, h) => Answering(d, h)
    BY <2>3 DEF Answering, SameClient
  <2> HIDE DEF d
  <2>6. CASE Ended(co)
    BY <2>3, <2>4, <2>5, <2>6 DEF Ended, SameClient, d
  <2>7. CASE Queued(co)
    <3>1. Prefix(d.outq, d.owed) /\ Answering(d, 0)
      <4>1. d.outq = <<>> /\ d.owed = <<>> /\ d.answered = 0 /\ d.sent \in Nat
        BY <2>3, <2>7 DEF Queued, SameClient, ConnType
      <4>2. <<>> \in Seq(AnswerCell) /\ <<>> \o <<>> = <<>>
        BY EmptySeq, ConcatEmptySeq
      <4>3. Prefix(d.outq, d.owed)
        BY <4>1, <4>2, EmptyIsPrefix
      <4>4. Ends(<<>>, "reply") = {}
        BY <4>2, EmptySeq DEF Ends
      <4>5. Numbered(<<>>, "reply", 0, 0)
        BY <4>4 DEF Numbered
      <4>6. QED
        BY <4>1, <4>3, <4>5 DEF Answering
    <3>2. QED
      BY <2>3, <2>4, <3>1 DEF Ended, d
  <2>8. QED
    BY <1>2, <2>6, <2>7, FreeConnType DEF Unserved
<1>3. ASSUME NEW c \in Conn
      PROVE  t.conn[c] = FreeConn \/ Ended(t.conn[c])
  <2>1. t.conn[c] = IF s.conn[c].sv = "none" THEN s.conn[c] ELSE HungUp(s.conn[c])
    BY DEF AllClosed
  <2>2. CASE Unserved(s.conn[c])
    <3>1. s.conn[c].sv = "none" => s.conn[c] = FreeConn
      BY <2>2 DEF Unserved, Ended, Queued
    <3>2. QED
      BY <1>2, <2>1, <2>2, <3>1
  <2>3. CASE ~Unserved(s.conn[c])
    <3>1. PICK i \in Slots : Linked(s, i, c)
      BY <2>3 DEF Good
    <3>2. Served(LinkAt(s, i, c)) /\ s.conn[c].sv = "open"
      BY <3>1 DEF Good, Linked
    <3>3. Left(CloseClient(LinkAt(s, i, c)))
      BY <3>2, CloseLeaves
    <3>4. CloseClient(LinkAt(s, i, c)).co = HungUp(s.conn[c])
      BY DEF CloseClient, LinkAt
    <3>5. QED
      BY <2>1, <3>2, <3>3, <3>4 DEF Left
  <2>4. QED
    BY <2>2, <2>3
<1>4. t \in State
  <2>1. \A c \in Conn : t.conn[c] \in ConnType
    BY <1>3, FreeConnType DEF Ended, ConnOk
  <2>2. t.conn = [c \in Conn |-> IF s.conn[c].sv = "none" THEN s.conn[c] ELSE HungUp(s.conn[c])]
    BY DEF AllClosed
  <2>3. t.slot \in [Slots -> SlotType]
    BY FreeSlotOk
  <2>4. t.conn \in [Conn -> ConnType]
    BY <2>1, <2>2
  <2>5. QED
    BY <2>3, <2>4 DEF State
<1>5. \A i \in Slots : t.slot[i] = FreeSlot
  OBVIOUS
<1>6. \A i \in Slots, c \in Conn : ~Linked(t, i, c)
  BY <1>5, FdFacts DEF Linked
<1>7. Good(t)
  BY <1>3, <1>4, <1>5, <1>6 DEF Good, Unserved
<1>8. QED
  BY <1>3, <1>7, FreeConnType DEF Ended

-----------------------------------------------------------------------------
(* The steps of the server.                                                *)

(* What of the invariant is not about clients. *)
Running(t, q) ==
    /\ Good(t)
    /\ q \in Seq(Conn) /\ Len(q) <= Backlog
    /\ \A i, j \in 1..Len(q) : q[i] = q[j] => i = j
    /\ \A c \in Conn : t.conn[c].sv = "queued" <=> \E i \in 1..Len(q) : q[i] = c

(* It makes up the invariant of the clients and of the line. *)
LEMMA RunningNext ==
    ASSUME NEW t, Running(t, queue'), slot' = t.slot, conn' = t.conn
    PROVE  Good(S)' /\ Line'
<1>1. t = [slot |-> t.slot, conn |-> t.conn]
  BY GoodFacts DEF Running
<1>2. S' = t
  BY <1>1 DEF S
<1>3. Good(S)'
  BY <1>2 DEF Running
<1>4. Line'
  BY DEF Running, Line
<1>5. QED
  BY <1>3, <1>4

(* The line is the same when the same connections wait. *)
LEMMA RunningKept ==
    ASSUME IInv, NEW t, Good(t), Waiting(S, t)
    PROVE  Running(t, queue)
BY DEF IInv, Line, Running, Waiting, S

(* S is the slots and the connections. *)
LEMMA SFacts == S.slot = slot /\ S.conn = conn
BY DEF S

(* What is being done is nothing, a slot, or accepting. *)
LEMMA SlotFacts ==
    /\ 0 \notin Slots /\ Accepting \notin Slots
    /\ Accepting \in 0..Accepting /\ 0 \in 0..Accepting /\ Slots \subseteq 0..Accepting
BY SizeFacts DEF Slots, Accepting

(* A batch that is done is one. *)
LEMMA RestFacts ==
    /\ Rest \in [todo : SUBSET ({Incoming} \cup [fd : Fds, hup : BOOLEAN]), at : 0..Accepting]
    /\ Rest.at \notin Slots
BY SlotFacts DEF Rest

(* With nobody waiting the line may be empty. *)
LEMMA EmptyLine ==
    ASSUME NEW t, Good(t), \A c \in Conn : t.conn[c].sv # "queued"
    PROVE  Running(t, <<>>)
<1>1. <<>> \in Seq(Conn) /\ Len(<<>>) = 0
  BY EmptySeq
<1>2. QED
  BY <1>1, SizeFacts DEF Running

(* The process gone, or the server destroyed. *)
LEMMA ClosedNext ==
    ASSUME NEW s, Good(s), slot' = [i \in Slots |-> FreeSlot], conn' = AllClosed(s.conn), queue' = <<>>
    PROVE  Good(S)' /\ Line'
<1> DEFINE t == [slot |-> [i \in Slots |-> FreeSlot], conn |-> AllClosed(s.conn)]
<1>1. Good(t) /\ \A c \in Conn : t.conn[c].sv # "queued"
  BY AllClosedFacts
<1>2. slot' = t.slot /\ conn' = t.conn
  OBVIOUS
<1> HIDE DEF t
<1>3. Running(t, queue')
  BY <1>1, EmptyLine
<1>4. QED
  BY <1>2, <1>3, RunningNext

(* The process dies: of a good state nothing but ended connections remains. *)
LEMMA DieStep ==
    ASSUME NEW s, Good(s), Die(s.conn)
    PROVE  IInv'
<1>1. /\ slot' = [i \in Slots |-> FreeSlot] /\ conn' = AllClosed(s.conn)
      /\ queue' = <<>> /\ job' = Rest /\ up' = FALSE /\ path' = "stale"
  BY DEF Die
<1>2. Good(S)' /\ Line'
  BY <1>1, ClosedNext
<1>3. Batch'
  BY <1>1, RestFacts DEF Batch
<1>4. \A i \in Slots : slot'[i] = FreeSlot
  BY <1>1
<1>5. QED
  BY <1>1, <1>2, <1>3, <1>4 DEF IInv

(* It is killed at any moment. *)
LEMMA KillStep == IInv /\ Kill => IInv'
<1> SUFFICES ASSUME IInv, Kill
             PROVE  IInv'
  OBVIOUS
<1>1. Good(S) /\ Die(S.conn)
  BY SFacts DEF IInv, Kill
<1>2. QED
  BY <1>1, DieStep

(* It announces its end, then closes everyone. *)
LEMMA DestroyStep == IInv /\ Destroy => IInv'
<1> SUFFICES ASSUME IInv, Destroy
             PROVE  IInv'
  OBVIOUS
<1>1. PICK z \in ReplySize : conn' = AllClosed(Emit(S, Shutdown, z).conn)
  BY DEF Destroy
<1>2. /\ slot' = [i \in Slots |-> FreeSlot] /\ queue' = <<>> /\ up' = FALSE /\ path' = "free"
      /\ job' = job /\ job = Rest
  BY DEF Destroy, Idle
<1>3. Good(Emit(S, Shutdown, z))
  <2>1. Good(S) /\ Shutdown \in Topic \cup {Shutdown}
    BY DEF IInv
  <2>2. QED
    BY <2>1, EmitFacts
<1>4. Good(S)' /\ Line'
  BY <1>1, <1>2, <1>3, ClosedNext
<1>5. Batch' /\ \A i \in Slots : slot'[i] = FreeSlot
  BY <1>2, RestFacts DEF Batch
<1>6. QED
  BY <1>2, <1>4, <1>5 DEF IInv

(* A change is announced to those who asked, outside a request. *)
LEMMA AnnounceStep == IInv /\ Announce => IInv'
<1> SUFFICES ASSUME IInv, Announce
             PROVE  IInv'
  OBVIOUS
<1>1. PICK tp \in Topic, z \in ReplySize : Set(Emit(S, tp, z))
  BY DEF Announce
<1> DEFINE t == Emit(S, tp, z)
<1>2. slot' = t.slot /\ conn' = t.conn
  BY <1>1 DEF Set
<1>3. Good(t) /\ Waiting(S, t)
  <2>1. Good(S) /\ tp \in Topic \cup {Shutdown}
    BY DEF IInv
  <2>2. QED
    BY <2>1, EmitFacts
<1> HIDE DEF t
<1>4. queue' = queue /\ job' = job /\ up' = up /\ path' = path /\ up = TRUE /\ job = Rest
  BY DEF Announce, Idle, IInv
<1>5. Good(S)' /\ Line'
  BY <1>2, <1>3, <1>4, RunningKept, RunningNext
<1>6. Batch'
  BY <1>4, RestFacts DEF Batch
<1>7. QED
  BY <1>4, <1>5, <1>6 DEF IInv

(* A server is made, or not; there is no client yet. *)
LEMMA ServerNewStep == IInv /\ ServerNew => IInv'
<1> SUFFICES ASSUME IInv, ServerNew
             PROVE  IInv'
  OBVIOUS
<1>1. /\ slot' = slot /\ conn' = conn /\ queue' = queue /\ job' = job /\ ~up
      /\ up' \in BOOLEAN /\ path' \in {"free", "ours", "stale"}
  BY DEF ServerNew
<1>2. S' = S
  BY <1>1 DEF S
<1>3. QED
  BY <1>1, <1>2 DEF IInv, Line, Batch

(* The batch names descriptors of slots. *)
LEMMA EpollWaitStep == IInv /\ EpollWait => IInv'
<1> SUFFICES ASSUME IInv, EpollWait
             PROVE  IInv'
  OBVIOUS
<1>1. /\ slot' = slot /\ conn' = conn /\ queue' = queue /\ up' = up /\ path' = path /\ up = TRUE
      /\ job' = [todo |-> Ready, at |-> 0]
  BY DEF EpollWait, IInv
<1>2. \A c \in Conn : conn[c].sv = "open" => conn[c].fd \in Fds
  <2>1. SUFFICES ASSUME NEW c \in Conn, conn[c].sv = "open"
                 PROVE  conn[c].fd \in Fds
    OBVIOUS
  <2>2. PICK i \in Slots : Linked(S, i, c)
    BY <2>1, GoodFacts, SFacts DEF IInv
  <2>3. Served(LinkAt(S, i, c))
    BY <2>2 DEF IInv, Good
  <2>4. QED
    BY <2>3, SFacts DEF Served, LinkAt
<1>3. ASSUME NEW e \in Ready
      PROVE  e \in {Incoming} \cup [fd : Fds, hup : BOOLEAN]
  <2>1. CASE e = Incoming
    BY <2>1
  <2>2. CASE e # Incoming
    <3>1. e \in {[fd |-> conn[c].fd, hup |-> conn[c].cl = "closed"] :
             c \in {d \in Conn : conn[d].sv = "open" /\ (conn[d].inq # <<>> \/ conn[d].cl = "closed")}}
      BY <2>2 DEF Ready
    <3>2. PICK c \in Conn : conn[c].sv = "open" /\ e = [fd |-> conn[c].fd, hup |-> conn[c].cl = "closed"]
      BY <3>1
    <3>3. QED
      BY <1>2, <3>2
  <2>3. QED
    BY <2>1, <2>2
<1>4. Batch'
  BY <1>1, <1>3, SlotFacts DEF Batch
<1>5. S' = S
  BY <1>1 DEF S
<1>6. QED
  BY <1>1, <1>4, <1>5 DEF IInv, Line

(* The batch comes to the listener: it accepts from now on. *)
LEMMA DispatchListenerStep == IInv /\ DispatchListener => IInv'
<1> SUFFICES ASSUME IInv, DispatchListener
             PROVE  IInv'
  OBVIOUS
<1>1. /\ slot' = slot /\ conn' = conn /\ queue' = queue /\ up' = up /\ path' = path /\ up = TRUE
      /\ job' = [todo |-> job.todo \ {Incoming}, at |-> Accepting]
  BY DEF DispatchListener, IInv
<1>2. Batch'
  BY <1>1, SlotFacts DEF Batch, IInv
<1>3. S' = S
  BY <1>1 DEF S
<1>4. QED
  BY <1>1, <1>2, <1>3 DEF IInv, Line

(* Nobody is left to accept. *)
LEMMA AcceptEndStep == IInv /\ AcceptEnd => IInv'
<1> SUFFICES ASSUME IInv, AcceptEnd
             PROVE  IInv'
  OBVIOUS
<1>1. /\ slot' = slot /\ conn' = conn /\ queue' = queue /\ up' = up /\ path' = path /\ up = TRUE
      /\ job' = [job EXCEPT !.at = 0]
  BY DEF AcceptEnd, IInv
<1>2. Batch'
  BY <1>1, SlotFacts DEF Batch, IInv
<1>3. S' = S
  BY <1>1 DEF S
<1>4. QED
  BY <1>1, <1>2, <1>3 DEF IInv, Line


(* What fits in the read buffer moves there: to the client nothing changes. *)
LEMMA ReadFacts ==
    ASSUME NEW l, Served(l), NEW n \in 0..Len(l.co.inq), Len(l.sl.rbuf) + n <= ReadBuf,
           NEW v, v = [sl |-> [l.sl EXCEPT !.rbuf = @ \o Take(l.co.inq, n)], co |-> [l.co EXCEPT !.inq = Drop(@, n)]]
    PROVE  Served(v) /\ v.sl.fd = l.sl.fd
<1>1. LinkOk(l) /\ Owing(l, Pending(l))
  BY ServedIsOwing
<1>2. l.sl \in SlotType /\ l.co \in ConnType /\ l = [sl |-> l.sl, co |-> l.co]
  BY <1>1, LinkFacts
<1> DEFINE r == l.sl.rbuf
           a == l.co.inq
           t == Take(a, n)
           d == Drop(a, n)
           rt == r \o t
<1>3. r \in Seq(RequestCell) /\ a \in Seq(RequestCell) /\ l.co.left \in Seq(RequestCell) /\ n \in 0..Len(a)
  BY <1>2 DEF SlotType, ConnType
<1> HIDE DEF r, a
<1>4. t \in Seq(RequestCell) /\ Len(t) = n /\ d \in Seq(RequestCell) /\ Len(d) = Len(a) - n /\ t \o d = a
  BY <1>3, PartFacts
<1>5. Len(r) \in Nat /\ Len(a) \in Nat /\ n \in Nat /\ n <= Len(a)
  BY <1>3, LenProperties
<1> HIDE DEF t, d
<1>6. rt \in Seq(RequestCell) /\ Len(rt) = Len(r) + Len(t)
  BY <1>3, <1>4, ConcatProperties
<1>7. rt \o d = r \o a
  <2>1. (r \o t) \o d = r \o (t \o d)
    <3>1. r \in Seq(RequestCell) /\ t \in Seq(RequestCell) /\ d \in Seq(RequestCell)
      BY <1>3, <1>4
    <3>2. QED
      BY <3>1, ConcatAssociative, SMTT(60)
  <2>2. QED
    BY <1>4, <2>1
<1>8. v.sl = [l.sl EXCEPT !.rbuf = rt] /\ v.co = [l.co EXCEPT !.inq = d] /\ v = [sl |-> v.sl, co |-> v.co]
  BY <1>2 DEF r, a, t, d
<1> HIDE DEF rt
<1>9. /\ v.sl \in SlotType /\ v.sl.rbuf = rt /\ v.sl.fd = l.sl.fd /\ v.sl.wild = l.sl.wild
      /\ v.sl.topics = l.sl.topics /\ v.sl.wbuf = l.sl.wbuf /\ v.sl.wpos = l.sl.wpos
  BY <1>2, <1>6, <1>8 DEF SlotType
<1>10. /\ v.co \in ConnType /\ v.co.inq = d
       /\ v.co.cl = l.co.cl /\ v.co.sv = l.co.sv /\ v.co.fd = l.co.fd
       /\ v.co.outq = l.co.outq /\ v.co.sent = l.co.sent /\ v.co.left = l.co.left
       /\ v.co.answered = l.co.answered /\ v.co.owed = l.co.owed /\ v.co.asked = l.co.asked
  BY <1>2, <1>4, <1>8, ZenonT(60) DEF ConnType
<1>11. LinkOk(v)
  <2>1. Len(rt) <= ReadBuf
    BY <1>4, <1>6 DEF r
  <2>2. Len(d) <= SockBuf
    <3>1. Len(a) <= SockBuf
      BY <1>1 DEF LinkOk, ConnOk, a
    <3>2. QED
      BY <1>4, <1>5, <3>1, SizeFacts, SMTT(60)
  <2>3. QED
    BY <1>1, <1>8, <1>9, <1>10, <2>1, <2>2 DEF LinkOk, Link, SlotOk, ConnOk
<1>12. Requests(v) = Requests(l)
  BY <1>7, <1>9, <1>10, ZenonT(60) DEF Requests, r, a
<1>13. Pending(v) = Pending(l)
  BY <1>9, <1>10 DEF Pending, Unsent
<1>14. KnowsTopics(l) => KnowsTopics(v)
  BY <1>9, <1>10 DEF KnowsTopics, ClientMatchesTopic
<1>15. \A h \in Nat : Answering(l.co, h) => Answering(v.co, h)
  BY <1>10 DEF Answering
<1>16. Owing(v, Pending(v))
  <2>1. v.co.sv = "open" /\ v.sl.fd \in Fds /\ v.co.fd = v.sl.fd
    BY <1>1, <1>9, <1>10 DEF Owing
  <2>2. ASSUME v.co.cl = "open"
        PROVE  /\ v.co.owed = Pending(v) /\ KnowsTopics(v)
               /\ Fits => \E h \in Nat : Answering(v.co, h) /\ Asking(Requests(v), h, v.co.sent)
    <3>1. /\ l.co.owed = Pending(l) /\ KnowsTopics(l)
          /\ Fits => \E h \in Nat : Answering(l.co, h) /\ Asking(Requests(l), h, l.co.sent)
      BY <1>1, <1>10, <2>2 DEF Owing
    <3>2. ASSUME NEW h \in Nat, Answering(l.co, h) /\ Asking(Requests(l), h, l.co.sent)
          PROVE  Answering(v.co, h) /\ Asking(Requests(v), h, v.co.sent)
      BY <1>10, <1>12, <1>15, <3>2
    <3>3. v.co.owed = Pending(v) /\ KnowsTopics(v)
      BY <1>10, <1>13, <1>14, <3>1
    <3>4. QED
      BY <3>1, <3>2, <3>3
  <2>3. QED
    BY <2>1, <2>2 DEF Owing
<1>17. QED
  BY <1>9, <1>11, <1>16, ServedIsOwing

(* A slot in use has its connection. *)
LEMMA HeldFacts ==
    ASSUME NEW s, Good(s), NEW i \in Slots, s.slot[i].fd # NoFd
    PROVE  \E c \in Conn : Linked(s, i, c) /\ ConnOf(s, i) = c /\ At(s, i) = LinkAt(s, i, c) /\ Served(LinkAt(s, i, c))
<1>1. PICK c \in Conn : Linked(s, i, c)
  BY GoodFacts
<1>2. QED
  BY <1>1, AtFacts DEF Good

(* A client's event, as one change of the clients. *)
LEMMA DispatchClientStep == IInv /\ DispatchClient => IInv'
<1> SUFFICES ASSUME IInv, DispatchClient
             PROVE  IInv'
  OBVIOUS
<1>1. queue' = queue /\ up' = up /\ path' = path /\ up = TRUE /\ job.at = 0 /\ Good(S)
  BY ZenonT(60) DEF DispatchClient, IInv
<1>2. PICK e \in job.todo \ {Incoming} :
          LET mine == {i \in Slots : slot[i].fd = e.fd}
              i == Lowest(mine)
              c == ConnOf(S, i)
              n == Least(Len(conn[c].inq), ReadBuf - Len(slot[i].rbuf))
              again == conn[c].inq = <<>> /\ conn[c].cl = "open" /\ Len(slot[i].rbuf) < ReadBuf
              rest == job.todo \ {e}
          IN  \/ /\ mine = {} /\ job' = [job EXCEPT !.todo = rest]
                 /\ UNCHANGED <<slot, conn>>
              \/ /\ mine # {} /\ e.hup
                 /\ job' = [job EXCEPT !.todo = rest] /\ Set(Put(S, i, CloseClient(At(S, i))))
              \/ /\ mine # {} /\ ~e.hup /\ n = 0
                 /\ job' = [job EXCEPT !.todo = rest]
                 /\ Set(Put(S, i, IF again THEN Drain(At(S, i)) ELSE CloseClient(At(S, i))))
              \/ /\ mine # {} /\ ~e.hup /\ n > 0
                 /\ job' = [todo |-> rest, at |-> i]
                 /\ slot' = [slot EXCEPT ![i].rbuf = @ \o Take(conn[c].inq, n)]
                 /\ conn' = [conn EXCEPT ![c].inq = Drop(@, n)]
  BY ZenonT(60) DEF DispatchClient
<1> DEFINE mine == {i \in Slots : slot[i].fd = e.fd}
           i == Lowest(mine)
           rest == job.todo \ {e}
<1>3. /\ job \in [todo : SUBSET ({Incoming} \cup [fd : Fds, hup : BOOLEAN]), at : 0..Accepting]
      /\ e.fd \in Fds /\ rest \in SUBSET ({Incoming} \cup [fd : Fds, hup : BOOLEAN])
  BY DEF IInv, Batch
<1>4. CASE mine = {}
  <2>1. slot' = slot /\ conn' = conn /\ job' = [job EXCEPT !.todo = rest]
    BY <1>2, <1>4, ZenonT(60)
  <2>2. S' = S
    BY <2>1 DEF S
  <2>3. Batch'
    BY <1>1, <1>3, <2>1, SlotFacts DEF Batch
  <2>4. QED
    BY <1>1, <2>1, <2>2, <2>3, SMTT(60) DEF IInv, Line
<1>5. CASE mine # {}
  <2>1. PICK j \in Slots : slot[j].fd = e.fd
    BY <1>5
  <2>2. slot[j].fd # NoFd
    BY <1>3, <2>1, FdFacts
  <2>3. PICK c \in Conn : /\ Linked(S, j, c) /\ ConnOf(S, j) = c
                          /\ At(S, j) = LinkAt(S, j, c) /\ Served(LinkAt(S, j, c))
    BY <1>1, <2>2, HeldFacts, SFacts
  <2>4. \A k \in mine : k = j
    BY <1>1, <2>1, <2>3, SFacts DEF Good, Linked
  <2>5. i = j
    <3>1. j \in mine /\ \A m \in mine : j <= m
      BY <2>1, <2>4, SlotFacts, SizeFacts, SMTT(60) DEF Slots
    <3>2. QED
      BY <2>4, <3>1 DEF Lowest
  <2> DEFINE l == LinkAt(S, j, c)
             n == Least(Len(conn[c].inq), ReadBuf - Len(slot[j].rbuf))
             again == conn[c].inq = <<>> /\ conn[c].cl = "open" /\ Len(slot[j].rbuf) < ReadBuf
  <2>6. \/ /\ job' = [job EXCEPT !.todo = rest] /\ Set(Put(S, j, CloseClient(l)))
        \/ /\ n = 0 /\ job' = [job EXCEPT !.todo = rest]
           /\ Set(Put(S, j, IF again THEN Drain(l) ELSE CloseClient(l)))
        \/ /\ n > 0 /\ job' = [todo |-> rest, at |-> j]
           /\ slot' = [slot EXCEPT ![j].rbuf = @ \o Take(conn[c].inq, n)]
           /\ conn' = [conn EXCEPT ![c].inq = Drop(@, n)]
    BY <1>2, <1>5, <2>3, <2>5, ZenonT(60)
  <2> HIDE DEF mine, i, again
  <2>7. l.sl = slot[j] /\ l.co = conn[c] /\ Served(l)
    BY <2>3, SFacts DEF LinkAt
  <2>8. Successor(l, CloseClient(l)) /\ Successor(l, Drain(l))
    BY <2>7, CloseLeaves, DrainFacts DEF Successor
  <2>9. CASE ~(n > 0 /\ job' = [todo |-> rest, at |-> j])
    <3>1. PICK v : Successor(l, v) /\ Set(Put(S, j, v)) /\ job' = [job EXCEPT !.todo = rest]
      BY <2>6, <2>8, <2>9
    <3> DEFINE t == Put(S, j, v)
    <3>2. slot' = t.slot /\ conn' = t.conn
      BY <3>1 DEF Set
    <3>3. Good(t) /\ Waiting(S, t)
      BY <1>1, <2>3, <3>1, PutFacts
    <3> HIDE DEF t
    <3>4. Good(S)' /\ Line'
      BY <1>1, <3>2, <3>3, RunningKept, RunningNext
    <3>5. Batch'
      BY <1>1, <1>3, <3>1, SlotFacts DEF Batch
    <3>6. QED
      BY <1>1, <3>4, <3>5 DEF IInv
  <2>10. CASE n > 0 /\ job' = [todo |-> rest, at |-> j]
    <3> DEFINE v == [sl |-> [l.sl EXCEPT !.rbuf = @ \o Take(l.co.inq, n)], co |-> [l.co EXCEPT !.inq = Drop(@, n)]]
               t == Put(S, j, v)
    <3>1. n \in 0..Len(l.co.inq) /\ Len(l.sl.rbuf) + n <= ReadBuf
      <4>1. Len(l.sl.rbuf) \in Nat /\ Len(l.co.inq) \in Nat /\ Len(l.sl.rbuf) <= ReadBuf
        <5>1. l.sl.rbuf \in Seq(RequestCell) /\ l.co.inq \in Seq(RequestCell)
          BY <2>7 DEF Served, LinkOk, SlotOk, ConnOk, SlotType, ConnType
        <5>2. Len(l.sl.rbuf) <= ReadBuf
          BY <2>7 DEF Served, LinkOk, SlotOk
        <5>3. QED
          BY <5>1, <5>2, LenProperties
      <4> DEFINE a == Len(conn[c].inq)
                 b == Len(slot[j].rbuf)
      <4>2. a \in Nat /\ b \in Nat /\ b <= ReadBuf
        BY <2>7, <4>1
      <4>3. n = Least(a, ReadBuf - b)
        OBVIOUS
      <4> HIDE DEF a, b, n
      <4>4. n \in 0..a /\ b + n <= ReadBuf
        BY <4>2, <4>3, SizeFacts DEF Least
      <4>5. QED
        BY <2>7, <4>4 DEF a, b
    <3> HIDE DEF n
    <3>2. Served(v) /\ v.sl.fd = l.sl.fd
      <4> HIDE DEF l
      <4>1. QED
        BY <2>7, <3>1, ReadFacts
    <3>3. slot' = [slot EXCEPT ![j] = v.sl] /\ conn' = [conn EXCEPT ![c] = v.co]
      <4>1. S.slot \in [Slots -> SlotType] /\ S.conn \in [Conn -> ConnType]
        BY <1>1, GoodFacts, SMTT(60)
      <4>2. slot' = [slot EXCEPT ![j].rbuf = @ \o Take(conn[c].inq, n)] /\ conn' = [conn EXCEPT ![c].inq = Drop(@, n)]
        <5>1. job' # [job EXCEPT !.todo = rest]
          <6>1. [job EXCEPT !.todo = rest].at = 0
            BY <1>1, <1>3
          <6>2. job'.at = j /\ j # 0
            BY <2>10, SlotFacts
          <6>3. QED
            BY <6>1, <6>2
        <5>2. QED
          BY <2>6, <5>1 DEF n
      <4>3. QED
        BY <2>7, <4>1, <4>2, SFacts
    <3> HIDE DEF v
    <3>4. /\ Good(t) /\ Waiting(S, t) /\ t.slot[j] = v.sl
          /\ t.slot = [S.slot EXCEPT ![j] = v.sl] /\ t.conn = [S.conn EXCEPT ![c] = v.co]
      <4>1. Successor(l, v)
        BY <3>2 DEF Successor
      <4>2. QED
        BY <1>1, <2>3, <4>1, PutFacts
    <3> HIDE DEF t
    <3>5. slot' = t.slot /\ conn' = t.conn
      BY <3>3, <3>4, SFacts
    <3>6. Good(S)' /\ Line'
      BY <1>1, <3>4, <3>5, RunningKept, RunningNext
    <3>7. Batch'
      <4>1. slot'[j].fd # NoFd
        BY <2>2, <2>7, <3>2, <3>4, <3>5
      <4>2. job' = [todo |-> rest, at |-> j] /\ j \in 0..Accepting
        BY <2>10, SlotFacts
      <4>3. QED
        BY <1>3, <4>1, <4>2 DEF Batch
    <3>8. QED
      BY <1>1, <3>6, <3>7 DEF IInv
  <2>11. QED
    BY <2>9, <2>10
<1>6. QED
  BY <1>4, <1>5

(* What is parsed belongs to a connection. *)
LEMMA ParsingFacts ==
    ASSUME IInv, Parsing
    PROVE  /\ up = TRUE /\ Good(S) /\ job.at \in Slots /\ S.slot[job.at].fd # NoFd
           /\ job \in [todo : SUBSET ({Incoming} \cup [fd : Fds, hup : BOOLEAN]), at : 0..Accepting]
BY SFacts DEF IInv, Batch, Parsing

(* Nothing whole is left in the buffer, or its first frame is too long. *)
LEMMA ParseEndStep == IInv /\ ParseEnd => IInv'
<1> SUFFICES ASSUME IInv, ParseEnd
             PROVE  IInv'
  OBVIOUS
<1>1. Parsing
  BY DEF ParseEnd
<1>2. /\ up = TRUE /\ Good(S) /\ job.at \in Slots /\ S.slot[job.at].fd # NoFd
      /\ job \in [todo : SUBSET ({Incoming} \cup [fd : Fds, hup : BOOLEAN]), at : 0..Accepting]
  BY <1>1, ParsingFacts
<1>3. /\ queue' = queue /\ up' = up /\ path' = path /\ job' = [job EXCEPT !.at = 0]
      /\ Set(Put(S, job.at, IF Oversized THEN CloseClient(At(S, job.at)) ELSE Drain(At(S, job.at))))
  BY DEF ParseEnd
<1> DEFINE i == job.at
           v == IF Oversized THEN CloseClient(At(S, i)) ELSE Drain(At(S, i))
           t == Put(S, i, v)
<1>4. slot' = t.slot /\ conn' = t.conn
  BY <1>3 DEF Set
<1> HIDE DEF i
<1>5. PICK c \in Conn : Linked(S, i, c) /\ At(S, i) = LinkAt(S, i, c) /\ Served(LinkAt(S, i, c))
  BY <1>2, HeldFacts DEF i
<1>6. Successor(LinkAt(S, i, c), v)
  <2> DEFINE l == LinkAt(S, i, c)
  <2>1. Served(l) /\ v = IF Oversized THEN CloseClient(l) ELSE Drain(l)
    BY <1>5
  <2> HIDE DEF l, v
  <2>2. CASE v = CloseClient(l)
    BY <2>1, <2>2, CloseLeaves DEF Successor
  <2>3. CASE v = Drain(l)
    BY <2>1, <2>3, DrainFacts DEF l
  <2>4. QED
    BY <2>1, <2>2, <2>3 DEF l
<1> HIDE DEF v
<1>7. Good(t) /\ Waiting(S, t)
  BY <1>2, <1>5, <1>6, PutFacts DEF i
<1> HIDE DEF t
<1>8. Good(S)' /\ Line'
  BY <1>3, <1>4, <1>7, RunningKept, RunningNext
<1>9. Batch'
  BY <1>2, <1>3, SlotFacts DEF Batch
<1>10. QED
  BY <1>2, <1>3, <1>8, <1>9 DEF IInv

(* The request a slot has complete, and what handling it does first. *)
AskedAt(s, i, f) == s.slot[i].fd # NoFd /\ AtFront(s.slot[i].rbuf, f)
Effects(s, i, f, z) ==
    IF f.of.op = "act" THEN Emit(s, CHOOSE t \in f.of.topics : TRUE, z)
    ELSE IF f.of.op = "subscribe" THEN Put(s, i, Subscribe(At(s, i), f.of.topics)) ELSE s
Reply(f, z) == [kind |-> "reply", id |-> f.id, size |-> z]

(* What stands in a buffer is a client's request. *)
LEMMA FrontIsRequest ==
    ASSUME NEW b \in Seq(RequestCell), NEW f, AtFront(b, f)
    PROVE  /\ f \in RequestFrame /\ f.of \in Request /\ f.id \in Nat
           /\ f.of.topics \subseteq Topic /\ (f.of.op = "act" => f.of.topics # {})
<1>1. b # <<>> /\ f = b[1][1]
  BY DEF AtFront
<1>2. 1 \in 1..Len(b)
  BY <1>1, EmptySeq, LenProperties
<1>3. b[1] \in RequestCell
  BY <1>2, ElementOfSeq
<1>4. f \in RequestFrame
  BY <1>1, <1>3 DEF RequestCell
<1>5. QED
  BY <1>4, RequestAssumption DEF RequestFrame

(* The effects leave the request where it is, or its client has left. *)
LEMMA EffectsFacts ==
    ASSUME NEW s, Good(s), NEW i \in Slots, NEW f, AskedAt(s, i, f), NEW z \in ReplySize,
           NEW d, d = Effects(s, i, f, z)
    PROVE  f \in RequestFrame /\ Good(d) /\ Waiting(s, d) /\ (Closed(d.slot[i]) \/ AskedAt(d, i, f))
<1>1. s.slot[i].fd # NoFd /\ AtFront(s.slot[i].rbuf, f) /\ s.slot[i].rbuf \in Seq(RequestCell)
  BY GoodFacts DEF AskedAt, SlotType
<1>2. /\ f \in RequestFrame /\ f.of \in Request /\ f.of.topics \subseteq Topic
      /\ (f.of.op = "act" => f.of.topics # {})
  BY <1>1, FrontIsRequest
<1>3. PICK c \in Conn : Linked(s, i, c) /\ At(s, i) = LinkAt(s, i, c) /\ Served(LinkAt(s, i, c))
  BY <1>1, HeldFacts
<1>4. Good(d) /\ Waiting(s, d) /\ (d.slot[i].fd # NoFd => d.slot[i].rbuf = s.slot[i].rbuf)
  <2>1. CASE f.of.op = "act"
    <3> DEFINE tp == CHOOSE x \in f.of.topics : TRUE
    <3>1. d = Emit(s, tp, z)
      BY <2>1 DEF Effects
    <3>2. tp \in Topic \cup {Shutdown}
      BY <1>2, <2>1
    <3> HIDE DEF tp
    <3>3. /\ Good(d) /\ Waiting(s, d)
          /\ \A j \in Slots, k \in Conn : Linked(s, j, k) /\ d.slot[j].fd # NoFd => d.slot[j].rbuf = s.slot[j].rbuf
      BY <3>1, <3>2, EmitFacts
    <3>4. QED
      BY <1>3, <3>3
  <2>2. CASE f.of.op = "subscribe"
    <3> DEFINE l == LinkAt(s, i, c)
               v == Subscribe(l, f.of.topics)
    <3>1. d = Put(s, i, v)
      BY <1>3, <2>2 DEF Effects
    <3>2. Served(l) /\ l.sl = s.slot[i]
      BY <1>3 DEF LinkAt
    <3>3. Served(v) /\ v.sl.fd = l.sl.fd /\ v.sl.rbuf = l.sl.rbuf
      <4> HIDE DEF l
      <4>1. QED
        BY <1>2, <3>2, SubscribeFacts
    <3> HIDE DEF v
    <3>4. Good(d) /\ Waiting(s, d) /\ d.slot[i] = v.sl
      <4>1. Successor(l, v)
        BY <3>3 DEF Successor
      <4> HIDE DEF l
      <4>2. Linked(s, i, c) /\ LinkAt(s, i, c) = l
        BY <1>3 DEF l
      <4>3. QED
        BY <3>1, <4>1, <4>2, PutGood
    <3> HIDE DEF l
    <3>5. QED
      BY <3>2, <3>3, <3>4
  <2>3. CASE f.of.op # "act" /\ f.of.op # "subscribe"
    BY <2>3 DEF Effects, Waiting
  <2>4. QED
    BY <2>1, <2>2, <2>3
<1>5. AskedAt(d, i, f) \/ Closed(d.slot[i])
  BY <1>1, <1>4 DEF AskedAt, Closed
<1>6. QED
  BY <1>2, <1>4, <1>5

(* Taking what was answered from a client just put back is putting back    *)
(* the client without it.                                                  *)
LEMMA ConsumePut ==
    ASSUME NEW d, Good(d), NEW i \in Slots, NEW c \in Conn, ConnOf(d, i) = c, NEW v \in Link, NEW t, t = Put(d, i, v),
           NEW f, NEW u, u = Consume(t, i, f), NEW w, w = Consumed(v, f.size + 1)
    PROVE  t.slot[i] = v.sl /\ u = Put(d, i, w) /\ w.sl.fd = v.sl.fd
<1> DEFINE n == f.size + 1
           a == d.slot
           k == [d.conn EXCEPT ![c] = v.co]
           x == v.sl
           y == [x EXCEPT !.rbuf = Drop(@, n)]
<1>1. a \in [Slots -> SlotType] /\ d.conn \in [Conn -> ConnType] /\ d = [slot |-> a, conn |-> d.conn]
  BY GoodFacts
<1>2. x \in SlotType /\ v.co \in ConnType /\ v = [sl |-> x, co |-> v.co]
  BY DEF Link
<1>3. w = [sl |-> y, co |-> v.co]
  <2>1. w = [v EXCEPT !.sl = y]
    BY DEF Consumed
  <2> HIDE DEF x, y
  <2>2. QED
    BY <1>2, <2>1
<1>4. y.fd = x.fd
  <2> HIDE DEF x, n
  <2>1. QED
    BY <1>2 DEF SlotType
<1> HIDE DEF x
<1>5. t = [slot |-> [a EXCEPT ![i] = x], conn |-> k]
  <2>1. t = [d EXCEPT !.slot = [a EXCEPT ![i] = x], !.conn = k]
    BY DEF Put, x
  <2> HIDE DEF a, k
  <2>2. QED
    BY <1>1, <2>1
<1> HIDE DEF a, k, y, n
<1>6. t.slot = [a EXCEPT ![i] = x] /\ t.slot[i] = x
  BY <1>1, <1>5
<1>7. u = [slot |-> [a EXCEPT ![i] = y], conn |-> k]
  <2> DEFINE b == t.slot
             e == [b EXCEPT ![i] = [b[i] EXCEPT !.rbuf = Drop(@, n)]]
  <2>1. u = [t EXCEPT !.slot = e]
    BY DEF Consume, n
  <2>2. e = [b EXCEPT ![i] = y]
    BY <1>6 DEF y
  <2> HIDE DEF e
  <2>3. e = [a EXCEPT ![i] = y]
    <3> HIDE DEF b
    <3>1. b = [a EXCEPT ![i] = x]
      BY <1>6 DEF b
    <3>2. QED
      BY <1>1, <2>2, <3>1
  <2> HIDE DEF b
  <2>4. QED
    BY <1>5, <2>1, <2>3
<1>8. Put(d, i, w) = [slot |-> [a EXCEPT ![i] = y], conn |-> k]
  <2>1. w.sl = y /\ w.co = v.co
    BY <1>3
  <2>2. Put(d, i, w) = [d EXCEPT !.slot = [a EXCEPT ![i] = y], !.conn = k]
    BY <2>1 DEF Put, a, k
  <2>3. QED
    BY <1>1, <2>2
<1>9. QED
  BY <1>3, <1>4, <1>6, <1>7, <1>8 DEF x

(* The reply and the end of the request in the buffer are one step, after  *)
(* which the client is served as before or has left.                       *)
LEMMA ReplyFacts ==
    ASSUME NEW d, Good(d), NEW i \in Slots, NEW f \in RequestFrame, AskedAt(d, i, f),
           NEW g \in ReplyFrame, g.id = f.id, g.size \in ReplySize,
           NEW t, t = Put(d, i, Answer(At(d, i), g)), NEW u, u = Consume(t, i, f)
    PROVE  \/ Closed(t.slot[i]) /\ Good(t)
           \/ ~Closed(t.slot[i]) /\ Good(u) /\ Waiting(d, u) /\ u.slot[i].fd # NoFd
<1>1. d.slot[i].fd # NoFd /\ AtFront(d.slot[i].rbuf, f)
  BY DEF AskedAt
<1>2. PICK c \in Conn : /\ Linked(d, i, c) /\ ConnOf(d, i) = c
                        /\ At(d, i) = LinkAt(d, i, c) /\ Served(LinkAt(d, i, c))
  BY <1>1, HeldFacts
<1> DEFINE l == LinkAt(d, i, c)
           v == Answer(l, g)
           w == Consumed(v, f.size + 1)
<1>3. Served(l) /\ l.sl = d.slot[i] /\ NextRequest(l, f)
  BY <1>1, <1>2 DEF LinkAt, NextRequest
<1>4. t = Put(d, i, v)
  BY <1>2
<1>5. Linked(d, i, c) /\ LinkAt(d, i, c) = l
  BY <1>2
<1> HIDE DEF l
<1>6. Replied(l, v, w)
  BY <1>3, AnswerFacts
<1>7. v \in Link
  <2>1. LinkOk(l) /\ l.sl.fd # NoFd /\ g \in AnswerFrame
    BY <1>1, <1>3, FrameFacts DEF Served
  <2> DEFINE m == [l EXCEPT !.co = Promise(@, g)]
             q == IF g.size > MaxFrame THEN Pending(m) ELSE With(Pending(m), g)
  <2>2. Promises(l, m, g)
    BY <2>1, PromiseFacts
  <2>3. v = ClientSendFrame(m, g)
    BY DEF Answer
  <2> HIDE DEF m, v
  <2>4. LinkOk(m) /\ m.sl.fd # NoFd
    BY <2>1, <2>2 DEF Promises
  <2>5. Delivered(m, v, q)
    BY <2>1, <2>3, <2>4, SendFrameFacts
  <2> HIDE DEF q
  <2>6. QED
    BY <2>5 DEF Delivered, Kept, Gone, LinkOk
<1> HIDE DEF v
<1>8. t.slot[i] = v.sl /\ u = Put(d, i, w) /\ w.sl.fd = v.sl.fd
  BY <1>2, <1>4, <1>7, ConsumePut
<1> HIDE DEF w
<1>9. CASE Left(v)
  <2>1. Successor(l, v)
    BY <1>9 DEF Successor
  <2>2. Good(t)
    BY <1>4, <1>5, <2>1, PutGood
  <2>3. Closed(t.slot[i])
    BY <1>8, <1>9, FdFacts DEF Left, Closed
  <2>4. QED
    BY <2>2, <2>3
<1>10. CASE v.sl.fd # NoFd /\ Served(w) /\ w.sl.fd = l.sl.fd
  <2>1. Successor(l, w)
    BY <1>10 DEF Successor
  <2>2. Good(u) /\ Waiting(d, u) /\ u.slot[i] = w.sl
    BY <1>5, <1>8, <2>1, PutGood
  <2>3. QED
    BY <1>8, <1>10, <2>2 DEF Closed
<1>11. QED
  BY <1>6, <1>9, <1>10 DEF Replied

(* A complete frame: its effects, then its reply. *)
LEMMA HandleFacts ==
    ASSUME NEW s, Good(s), NEW i \in Slots, NEW f, AskedAt(s, i, f), NEW z \in ReplySize,
           NEW t, t = Handle(s, i, f, z), NEW u, u = Consume(t, i, f)
    PROVE  \/ Closed(t.slot[i]) /\ Good(t)
           \/ ~Closed(t.slot[i]) /\ Good(u) /\ Waiting(s, u) /\ u.slot[i].fd # NoFd
<1> DEFINE d == Effects(s, i, f, z)
           g == Reply(f, z)
<1>1. t = IF Closed(d.slot[i]) THEN d ELSE Put(d, i, Answer(At(d, i), g))
  BY DEF Handle, Effects, Reply
<1> HIDE DEF d
<1>2. f \in RequestFrame /\ Good(d) /\ Waiting(s, d) /\ (Closed(d.slot[i]) \/ AskedAt(d, i, f))
  BY EffectsFacts DEF d
<1>3. CASE Closed(d.slot[i])
  BY <1>1, <1>2, <1>3
<1>4. CASE ~Closed(d.slot[i])
  <2>1. g \in ReplyFrame /\ g.id = f.id /\ g.size \in ReplySize
    BY <1>2, SizeFacts DEF Reply, ReplyFrame, RequestFrame
  <2> HIDE DEF g
  <2>2. t = Put(d, i, Answer(At(d, i), g)) /\ AskedAt(d, i, f)
    BY <1>1, <1>2, <1>4
  <2>3. \/ Closed(t.slot[i]) /\ Good(t)
        \/ ~Closed(t.slot[i]) /\ Good(u) /\ Waiting(d, u) /\ u.slot[i].fd # NoFd
    BY <1>2, <2>1, <2>2, ReplyFacts
  <2>4. QED
    BY <1>2, <2>3 DEF Waiting
<1>5. QED
  BY <1>3, <1>4

(* A request is handled, answered and taken, or the process dies of it. *)
LEMMA ParseFrameStep == IInv /\ ParseFrame => IInv'
<1> SUFFICES ASSUME IInv, ParseFrame
             PROVE  IInv'
  OBVIOUS
<1>1. Parsing
  BY DEF ParseFrame
<1>2. /\ up = TRUE /\ Good(S) /\ job.at \in Slots /\ S.slot[job.at].fd # NoFd
      /\ job \in [todo : SUBSET ({Incoming} \cup [fd : Fds, hup : BOOLEAN]), at : 0..Accepting]
  BY <1>1, ParsingFacts
<1> DEFINE i == job.at
           f == Buffer[1][1]
<1>3. PICK z \in ReplySize :
         LET s == Handle(S, i, f, z)
         IN  IF Closed(s.slot[i]) THEN Die(s.conn)
             ELSE Set(Consume(s, i, f)) /\ UNCHANGED <<queue, job, up, path, notes>>
  BY DEF ParseFrame
<1>4. AskedAt(S, i, f)
  BY <1>2, SFacts DEF ParseFrame, Complete, Buffer, AskedAt, AtFront
<1> DEFINE t == Handle(S, i, f, z)
           u == Consume(t, i, f)
<1>5. /\ t = Handle(S, i, f, z) /\ u = Consume(t, i, f)
      /\ IF Closed(t.slot[i]) THEN Die(t.conn)
         ELSE Set(u) /\ UNCHANGED <<queue, job, up, path, notes>>
  BY <1>3
<1> HIDE DEF f, t, u
<1>6. \/ Closed(t.slot[i]) /\ Good(t)
      \/ ~Closed(t.slot[i]) /\ Good(u) /\ Waiting(S, u) /\ u.slot[i].fd # NoFd
  <2>1. Good(S) /\ i \in Slots /\ S.slot[i].fd # NoFd
    BY <1>2
  <2>2. t = Handle(S, i, f, z) /\ u = Consume(t, i, f)
    BY <1>5
  <2> HIDE DEF i
  <2>3. QED
    BY <1>4, <2>1, <2>2, HandleFacts
<1>7. CASE Closed(t.slot[i]) /\ Good(t)
  BY <1>5, <1>7, DieStep
<1>8. CASE ~Closed(t.slot[i]) /\ Good(u) /\ Waiting(S, u) /\ u.slot[i].fd # NoFd
  <2>1. slot' = u.slot /\ conn' = u.conn /\ queue' = queue /\ job' = job /\ up' = up /\ path' = path
    BY <1>5, <1>8 DEF Set
  <2>2. Good(S)' /\ Line'
    BY <1>8, <2>1, RunningKept, RunningNext
  <2>3. Batch'
    BY <1>2, <1>8, <2>1 DEF Batch
  <2>4. QED
    BY <1>2, <2>1, <2>2, <2>3 DEF IInv
<1>9. QED
  BY <1>6, <1>7, <1>8


(* Numbers have a lowest. *)
LEMMA LowestFacts ==
    ASSUME NEW ns, ns \subseteq Nat, ns # {}
    PROVE  Lowest(ns) \in ns
<1> DEFINE R == OpToRel(<, Nat)
<1>1. IsWellFoundedOn(R, Nat)
  BY NatLessThanWellFounded
<1>2. \A x, y \in Nat : <<y, x>> \in R <=> y < x
  BY DEF OpToRel
<1> HIDE DEF R
<1>3. PICK n \in ns : \A m \in ns : ~(<<m, n>> \in R)
  BY <1>1, WFMin
<1>4. ASSUME NEW m \in ns
      PROVE  n <= m
  <2>1. m \in Nat /\ n \in Nat /\ ~(<<m, n>> \in R)
    BY <1>3
  <2>2. ~(m < n)
    BY <2>1, <1>2, Zenon
  <2>3. QED
    BY <2>1, <2>2
<1>5. \E k \in ns : \A m \in ns : k <= m
  BY <1>4
<1>6. QED
  BY <1>5, Zenon DEF Lowest

(* There is one descriptor more than there are slots. *)
LEMMA FreeFd ==
    ASSUME NEW sl \in [Slots -> SlotType]
    PROVE  Fds \ {sl[j].fd : j \in Slots} # {}
<1>1. SUFFICES ASSUME \A d \in Fds : \E j \in Slots : sl[j].fd = d
               PROVE  FALSE
  OBVIOUS
<1> DEFINE f == [d \in Fds |-> CHOOSE j \in Slots : sl[j].fd = d]
<1>2. f \in [Fds -> Slots] /\ \A d \in Fds : sl[f[d]].fd = d
  BY <1>1
<1> HIDE DEF f
<1>3. MaxClients \in Nat /\ 1 \in Int /\ MaxClients \in Int /\ MaxClients + 1 \in Int /\ MaxClients >= 1
  BY SizeFacts
<1>4. IsFiniteSet(Slots) /\ Cardinality(Slots) = MaxClients
  <2>1. /\ IsFiniteSet(1..MaxClients)
        /\ Cardinality(1..MaxClients) = IF 1 > MaxClients THEN 0 ELSE MaxClients - 1 + 1
    BY <1>3, FS_Interval
  <2>2. QED
    BY <2>1, <1>3 DEF Slots
<1>5. IsFiniteSet(Fds) /\ Cardinality(Fds) = MaxClients + 1
  <2>1. /\ IsFiniteSet(1..(MaxClients + 1))
        /\ Cardinality(1..(MaxClients + 1)) = IF 1 > MaxClients + 1 THEN 0 ELSE MaxClients + 1 - 1 + 1
    BY <1>3, FS_Interval
  <2>2. QED
    BY <2>1, <1>3 DEF Fds
<1>6. \E x, y \in Fds : x # y /\ f[x] = f[y]
  <2>1. Cardinality(Slots) < Cardinality(Fds)
    BY <1>3, <1>4, <1>5
  <2>2. QED
    BY <1>2, <1>4, <1>5, <2>1, FS_PigeonHole
<1>7. QED
  BY <1>2, <1>6

-----------------------------------------------------------------------------
(* Accepting a connection, and what the clients do, each a change of one   *)
(* connection.                                                             *)

(* One connection changes, as it may where it stands, and no slot does. *)
LEMMA ConnMoves ==
    ASSUME NEW s, Good(s), NEW c \in Conn, NEW co \in ConnType,
           Unserved(s.conn[c]) => Unserved(co),
           \A i \in Slots : Linked(s, i, c) => Served([sl |-> s.slot[i], co |-> co]),
           NEW t, t = [slot |-> s.slot, conn |-> [s.conn EXCEPT ![c] = co]]
    PROVE  Good(t)
<1>1. /\ s.slot \in [Slots -> SlotType] /\ s.conn \in [Conn -> ConnType]
      /\ \A i \in Slots, d \in Conn : Linked(s, i, d) => Served(LinkAt(s, i, d))
  BY GoodFacts DEF Good
<1>2. t.slot = s.slot /\ t.conn[c] = co /\ \A d \in Conn : d # c => t.conn[d] = s.conn[d]
  BY <1>1
<1>3. t \in State
  BY <1>1 DEF State
<1>4. ASSUME NEW i \in Slots, NEW d \in Conn, Linked(s, i, d)
      PROVE  Successor(LinkAt(s, i, d), LinkAt(t, i, d))
  <2>1. LinkAt(t, i, d).sl.fd = LinkAt(s, i, d).sl.fd
    BY <1>2 DEF LinkAt
  <2>2. Served(LinkAt(t, i, d))
    <3>1. CASE d = c
      <4>1. Served([sl |-> s.slot[i], co |-> co])
        BY <1>4, <3>1
      <4>2. QED
        BY <1>2, <3>1, <4>1 DEF LinkAt
    <3>2. CASE d # c
      <4>1. LinkAt(t, i, d) = LinkAt(s, i, d)
        BY <1>2, <3>2 DEF LinkAt
      <4>2. QED
        BY <1>1, <1>4, <4>1
    <3>3. QED
      BY <3>1, <3>2
  <2>3. QED
    BY <2>1, <2>2 DEF Successor
<1>5. \A d \in Conn : Unserved(s.conn[d]) => Unserved(t.conn[d])
  BY <1>2
<1>6. Moves(s, t)
  BY <1>2, <1>3, <1>4, <1>5 DEF Moves
<1>7. QED
  BY <1>6, MovesGood

(* A free slot takes a connection that waited, with a descriptor that no   *)
(* slot has.                                                               *)
LEMMA LinkMade ==
    ASSUME NEW s, Good(s), NEW i \in Slots, s.slot[i] = FreeSlot, NEW c \in Conn, Unserved(s.conn[c]),
           NEW l, Served(l), \A j \in Slots : s.slot[j].fd # l.sl.fd,
           NEW t, t = [slot |-> [s.slot EXCEPT ![i] = l.sl], conn |-> [s.conn EXCEPT ![c] = l.co]]
    PROVE  Good(t)
<1>1. /\ s.slot \in [Slots -> SlotType] /\ s.conn \in [Conn -> ConnType]
      /\ \A j \in Slots : ~Linked(s, j, c)
      /\ \A d \in Conn : ~Linked(s, i, d)
  BY GoodFacts
<1>2. /\ l.sl \in SlotType /\ l.co \in ConnType /\ l = [sl |-> l.sl, co |-> l.co]
      /\ l.sl.fd # NoFd /\ l.co.sv = "open" /\ l.co.fd = l.sl.fd
  BY LinkFacts, FdFacts DEF Served
<1>3. /\ t.slot[i] = l.sl /\ \A j \in Slots : j # i => t.slot[j] = s.slot[j]
      /\ t.conn[c] = l.co /\ \A d \in Conn : d # c => t.conn[d] = s.conn[d]
  BY <1>1
<1>4. t \in State
  BY <1>1, <1>2 DEF State
(* No connection had the descriptor. *)
<1>5. ASSUME NEW d \in Conn, d # c, s.conn[d].sv = "open"
      PROVE  s.conn[d].fd # l.sl.fd
  <2>1. PICK j \in Slots : Linked(s, j, d)
    BY <1>5, GoodFacts
  <2>2. QED
    BY <2>1 DEF Linked
<1>6. Linked(t, i, c) /\ LinkAt(t, i, c) = l
  BY <1>2, <1>3 DEF Linked, LinkAt
<1>7. ASSUME NEW j \in Slots, NEW d \in Conn, Linked(t, j, d)
      PROVE  (j = i /\ d = c) \/ (j # i /\ d # c /\ Linked(s, j, d))
  BY <1>2, <1>3, <1>5, <1>7 DEF Linked
<1>8. ASSUME NEW j \in Slots, NEW d \in Conn, Linked(s, j, d)
      PROVE  Linked(t, j, d) /\ LinkAt(t, j, d) = LinkAt(s, j, d)
  <2>1. j # i /\ d # c
    BY <1>1, <1>8
  <2>2. QED
    BY <1>3, <1>8, <2>1 DEF Linked, LinkAt
<1>9. \A j \in Slots : t.slot[j] = FreeSlot \/ \E d \in Conn : Linked(t, j, d)
  <2>1. SUFFICES ASSUME NEW j \in Slots, j # i
                 PROVE  t.slot[j] = FreeSlot \/ \E d \in Conn : Linked(t, j, d)
    BY <1>6
  <2>2. s.slot[j] = FreeSlot \/ \E d \in Conn : Linked(s, j, d)
    BY DEF Good
  <2>3. QED
    BY <1>3, <1>8, <2>1, <2>2
<1>10. \A d \in Conn : Unserved(t.conn[d]) \/ \E j \in Slots : Linked(t, j, d)
  <2>1. SUFFICES ASSUME NEW d \in Conn, d # c
                 PROVE  Unserved(t.conn[d]) \/ \E j \in Slots : Linked(t, j, d)
    BY <1>6
  <2>2. Unserved(s.conn[d]) \/ \E j \in Slots : Linked(s, j, d)
    BY DEF Good
  <2>3. QED
    BY <1>3, <1>8, <2>1, <2>2
<1>11. ASSUME NEW j \in Slots, NEW d \in Conn, Linked(t, j, d)
       PROVE  /\ Served(LinkAt(t, j, d))
              /\ \A k \in Slots : Linked(t, k, d) => k = j
              /\ \A e \in Conn : Linked(t, j, e) => e = d
  <2>1. CASE j = i /\ d = c
    BY <1>6, <1>7, <2>1
  <2>2. CASE j # i /\ d # c /\ Linked(s, j, d)
    <3>1. /\ Served(LinkAt(s, j, d))
          /\ \A k \in Slots : Linked(s, k, d) => k = j
          /\ \A e \in Conn : Linked(s, j, e) => e = d
      BY <2>2 DEF Good
    <3>2. LinkAt(t, j, d) = LinkAt(s, j, d)
      BY <1>8, <2>2
    <3>3. QED
      BY <1>7, <2>2, <3>1, <3>2
  <2>3. QED
    BY <1>7, <1>11, <2>1, <2>2
<1>12. QED
  BY <1>4, <1>9, <1>10, <1>11 DEF Good

(* No reply has been made, and none is owed. *)
LEMMA NothingOwed ==
    ASSUME NEW co, co.owed = <<>>, co.answered = 0, co.sent \in Nat
    PROVE  Answering(co, 0)
<1>1. Ends(<<>>, "reply") = {}
  BY EmptySeq DEF Ends
<1>2. Numbered(<<>>, "reply", 0, 0)
  BY <1>1 DEF Numbered
<1>3. QED
  BY <1>2 DEF Answering

(* A connection that waited and is refused has got nothing. *)
LEMMA RefusedEnds ==
    ASSUME NEW co, Queued(co), NEW d, d = Refuse(co)
    PROVE  Ended(d)
<1>1. <<>> \in Seq(RequestCell) /\ <<>> \in Seq(AnswerCell) /\ Len(<<>>) = 0 /\ <<>> \o <<>> = <<>>
  BY EmptySeq, ConcatEmptySeq
<1>2. co \in ConnType /\ ConnOk(co)
  BY DEF Queued, ConnOk
<1>3. /\ d \in ConnType /\ d.sv = "closed" /\ d.inq = <<>> /\ d.cl = co.cl /\ d.fd = co.fd
      /\ d.outq = co.outq /\ d.owed = co.owed /\ d.answered = co.answered /\ d.sent = co.sent
  BY <1>1, <1>2 DEF Refuse, ConnType
<1>4. ConnOk(d)
  BY <1>1, <1>2, <1>3, SizeFacts DEF ConnOk
<1>5. d.outq = <<>> /\ d.owed = <<>> /\ d.answered = 0 /\ d.sent \in Nat /\ d.fd = NoFd
  BY <1>2, <1>3 DEF Queued, ConnType
<1>6. Prefix(d.outq, d.owed)
  <2>1. <<>> \in Seq(AnswerCell) /\ <<>> \o <<>> = <<>>
    BY <1>1
  <2>2. Prefix(<<>>, <<>>)
    BY <2>1, PrefixIsPart
  <2>3. QED
    BY <1>5, <2>2
<1>7. Answering(d, 0) /\ 0 \in Nat
  BY <1>5, NothingOwed
<1>8. QED
  BY <1>3, <1>4, <1>5, <1>6, <1>7 DEF Ended

(* One that is accepted is served from nothing. *)
LEMMA AcceptedServed ==
    ASSUME NEW co, Queued(co), NEW fd \in Fds,
           NEW l, l = [sl |-> [FreeSlot EXCEPT !.fd = fd, !.rbuf = <<>>, !.wbuf = <<>>, !.wpos = 0],
                       co |-> [co EXCEPT !.sv = "open", !.fd = fd]]
    PROVE  Served(l) /\ l.sl.fd = fd
<1>1. <<>> \in Seq(RequestCell) /\ <<>> \in Seq(AnswerCell) /\ Len(<<>>) = 0 /\ <<>> \o <<>> = <<>>
  BY EmptySeq, ConcatEmptySeq
<1>2. co \in ConnType /\ ConnOk(co)
  BY DEF Queued, ConnOk
<1>3. /\ l.sl = [fd |-> fd, wild |-> FALSE, topics |-> {}, rbuf |-> <<>>, wbuf |-> <<>>, wpos |-> 0]
      /\ l.sl \in SlotType /\ l.sl.fd = fd /\ l.sl.rbuf = <<>> /\ l.sl.wbuf = <<>> /\ l.sl.wpos = 0
  BY <1>1 DEF FreeSlot, SlotType
<1>4. /\ l.co \in ConnType /\ l.co.sv = "open" /\ l.co.fd = fd /\ l.co.cl = co.cl /\ l.co.inq = co.inq
      /\ l.co.outq = co.outq /\ l.co.owed = co.owed /\ l.co.answered = co.answered /\ l.co.sent = co.sent
      /\ l.co.left = co.left /\ l.co.asked = co.asked
  BY <1>2 DEF ConnType
<1>5. LinkOk(l)
  <2>1. SlotOk(l.sl)
    <3>1. Len(l.sl.rbuf) = 0 /\ Len(l.sl.wbuf) = 0 /\ l.sl.wpos = 0
      BY <1>1, <1>3, Zenon
    <3>2. QED
      BY <1>3, <3>1, SizeFacts DEF SlotOk
  <2>2. ConnOk(l.co)
    BY <1>2, <1>4 DEF ConnOk
  <2>3. QED
    BY <2>1, <2>2, <1>3, <1>4 DEF LinkOk, Link
<1>6. /\ l.co.outq = <<>> /\ l.co.owed = <<>> /\ l.co.answered = 0 /\ l.co.asked = {}
      /\ l.co.sent \in Nat /\ l.co.inq \in Seq(RequestCell) /\ l.co.left \in Seq(RequestCell)
  BY <1>2, <1>4 DEF Queued, ConnType
<1>7. l.co.owed = Pending(l)
  <2>1. l.sl.wbuf \in Seq(AnswerCell) /\ 0 \in 0..Len(l.sl.wbuf) /\ l.sl.wbuf = <<>> /\ l.sl.wpos = 0
    <3>1. l.sl.wbuf = <<>> /\ l.sl.wpos = 0
      BY <1>3
    <3>2. 0 \in 0..Len(<<>>)
      BY <1>1
    <3>3. QED
      BY <1>1, <3>1, <3>2
  <2>2. Drop(l.sl.wbuf, 0) \in Seq(AnswerCell) /\ Len(Drop(l.sl.wbuf, 0)) = Len(l.sl.wbuf) - 0
    BY <2>1, PartFacts
  <2>3. Drop(l.sl.wbuf, 0) = <<>>
    BY <1>1, <2>1, <2>2, EmptySeq
  <2>4. QED
    BY <1>1, <1>6, <2>1, <2>3 DEF Pending, Unsent
<1>8. KnowsTopics(l)
  BY <1>3, <1>6 DEF KnowsTopics, ClientMatchesTopic
<1>9. Answering(l.co, 0)
  BY <1>6, NothingOwed
<1>10. Requests(l) = l.co.inq \o l.co.left
  <2>1. <<>> \o (l.co.inq \o l.co.left) = l.co.inq \o l.co.left
    <3>1. l.co.inq \o l.co.left \in Seq(RequestCell)
      BY <1>6, ConcatProperties
    <3>2. QED
      BY <3>1, ConcatEmptySeq
  <2>2. (<<>> \o l.co.inq) \o l.co.left = <<>> \o (l.co.inq \o l.co.left)
    BY <1>1, <1>6, ConcatAssociative, SMTT(60)
  <2>3. QED
    BY <1>3, <2>1, <2>2 DEF Requests
<1>11. l.co.cl = "open" => Asking(Requests(l), 0, l.co.sent)
  BY <1>4, <1>10 DEF Queued
<1>12. QED
  BY <1>3, <1>4, <1>5, <1>7, <1>8, <1>9, <1>11 DEF Served

(* The first in the line has left it. *)
LEMMA FirstFacts ==
    ASSUME IInv, queue # <<>>, NEW c, c = Head(queue)
    PROVE  /\ c \in Conn /\ Queued(conn[c])
           /\ \A t : /\ Good(t) /\ t.conn[c].sv # "queued"
                     /\ \A d \in Conn : d # c => t.conn[d].sv = conn[d].sv
                     => Running(t, Tail(queue))
<1>1. /\ queue \in Seq(Conn) /\ Len(queue) <= Backlog
      /\ \A i, j \in 1..Len(queue) : queue[i] = queue[j] => i = j
      /\ \A d \in Conn : conn[d].sv = "queued" <=> \E i \in 1..Len(queue) : queue[i] = d
  BY DEF IInv, Line
<1> DEFINE q == Tail(queue)
<1>2. /\ Head(queue) \in Conn /\ q \in Seq(Conn) /\ Len(q) = Len(queue) - 1
      /\ Head(queue) = queue[1] /\ \A i \in 1..Len(q) : q[i] = queue[i + 1]
  BY <1>1, HeadTailProperties, ElementOfSeq, EmptySeq
<1>3. Len(queue) \in Nat /\ Len(queue) >= 1 /\ 1 \in 1..Len(queue) /\ Len(q) \in Nat
  BY <1>1, <1>2, EmptySeq, LenProperties
<1> HIDE DEF q
<1>4. c \in Conn /\ queue[1] = c /\ conn[c].sv = "queued"
  BY <1>1, <1>2, <1>3
<1>5. Queued(conn[c])
  <2>1. Unserved(S.conn[c]) \/ \E i \in Slots : Linked(S, i, c)
    BY <1>4 DEF IInv, Good
  <2>2. QED
    BY <1>4, <2>1, SFacts, FreeConnType DEF Linked, Unserved, Ended
<1>6. ASSUME NEW t, Good(t), t.conn[c].sv # "queued", \A d \in Conn : d # c => t.conn[d].sv = conn[d].sv
      PROVE  Running(t, q)
  <2>1. ASSUME NEW i \in 1..Len(q), NEW j \in 1..Len(q), q[i] = q[j]
        PROVE  i = j
    <3>1. i + 1 \in 1..Len(queue) /\ j + 1 \in 1..Len(queue)
      BY <1>2, <1>3
    <3>2. queue[i + 1] = queue[j + 1]
      BY <1>2, <2>1
    <3>3. i + 1 = j + 1
      BY <1>1, <3>1, <3>2
    <3>4. QED
      BY <3>3
  <2>2. ASSUME NEW i \in 1..Len(q)
        PROVE  q[i] # c /\ q[i] \in Conn /\ conn[q[i]].sv = "queued"
    <3>1. i + 1 \in 1..Len(queue) /\ i + 1 # 1 /\ queue[i + 1] = q[i] /\ q[i] \in Conn
      BY <1>2, <1>3, ElementOfSeq
    <3>2. QED
      BY <1>1, <1>3, <1>4, <3>1
  <2>3. ASSUME NEW d \in Conn, d # c, conn[d].sv = "queued"
        PROVE  \E i \in 1..Len(q) : q[i] = d
    <3>1. PICK k \in 1..Len(queue) : queue[k] = d
      BY <1>1, <2>3
    <3>2. k # 1
      BY <1>4, <2>3, <3>1
    <3>3. k - 1 \in 1..Len(q) /\ (k - 1) + 1 = k
      BY <1>2, <1>3, <3>2
    <3>4. q[k - 1] = d
      BY <1>2, <3>1, <3>3
    <3>5. QED
      BY <3>3, <3>4
  <2>4. ASSUME NEW d \in Conn
        PROVE  t.conn[d].sv = "queued" <=> \E i \in 1..Len(q) : q[i] = d
    <3>1. CASE d = c
      BY <1>6, <2>2, <3>1
    <3>2. CASE d # c
      BY <1>6, <2>2, <2>3, <3>2
    <3>3. QED
      BY <3>1, <3>2
  <2>5. Len(q) <= Backlog
    BY <1>1, <1>2, <1>3, SizeFacts
  <2>6. QED
    BY <1>2, <1>6, <2>1, <2>4, <2>5 DEF Running
<1>7. QED
  BY <1>4, <1>5, <1>6 DEF q

(* A free slot and a free descriptor are found. *)
LEMMA FreeFacts ==
    ASSUME NEW sl \in [Slots -> SlotType], NEW fd, fd = Lowest(Fds \ {sl[j].fd : j \in Slots}),
           NEW i, {j \in Slots : Closed(sl[j])} # {}, i = Lowest({j \in Slots : Closed(sl[j])})
    PROVE  /\ fd \in Fds /\ \A j \in Slots : sl[j].fd # fd
           /\ i \in Slots /\ sl[i].fd = NoFd
<1> DEFINE fds == Fds \ {sl[j].fd : j \in Slots}
           free == {j \in Slots : Closed(sl[j])}
<1>1. fds # {} /\ fds \subseteq Nat
  BY FreeFd, FdFacts
<1>2. free # {} /\ free \subseteq Nat
  BY SizeFacts DEF Slots
<1>3. Lowest(fds) \in fds
  <2> HIDE DEF fds
  <2>1. QED
    BY <1>1, LowestFacts
<1>4. Lowest(free) \in free
  <2> HIDE DEF free
  <2>1. QED
    BY <1>2, LowestFacts
<1>5. QED
  BY <1>3, <1>4 DEF Closed

(* A connection is refused, or takes a slot, unless epoll_ctl fails. *)
LEMMA AcceptStep == IInv /\ Accept => IInv'
<1> SUFFICES ASSUME IInv, Accept
             PROVE  IInv'
  OBVIOUS
<1> DEFINE c == Head(queue)
           free == {j \in Slots : Closed(slot[j])}
           i == Lowest(free)
           fd == Lowest(Fds \ {slot[j].fd : j \in Slots})
           l == [sl |-> [slot[i] EXCEPT !.fd = fd, !.rbuf = <<>>, !.wbuf = <<>>, !.wpos = 0],
                 co |-> [conn[c] EXCEPT !.sv = "open", !.fd = fd]]
<1>1. /\ up = TRUE /\ job.at = Accepting /\ queue # <<>> /\ queue' = Tail(queue)
      /\ job' = job /\ up' = up /\ path' = path
  BY DEF Accept, IInv
<1>2. \/ conn' = [conn EXCEPT ![c] = Refuse(@)] /\ slot' = slot
      \/ /\ free # {}
         /\ \E ok \in IF "epoll" \in Faults THEN BOOLEAN ELSE {TRUE} :
               /\ slot' = [slot EXCEPT ![i] = (IF ok THEN l ELSE CloseClient(l)).sl]
               /\ conn' = [conn EXCEPT ![c] = (IF ok THEN l ELSE CloseClient(l)).co]
  BY DEF Accept
<1>3. Good(S) /\ slot \in [Slots -> SlotType] /\ conn \in [Conn -> ConnType]
  BY GoodFacts, SFacts DEF IInv
<1>4. /\ c \in Conn /\ Queued(conn[c]) /\ Unserved(S.conn[c])
      /\ \A t : /\ Good(t) /\ t.conn[c].sv # "queued"
                /\ \A d \in Conn : d # c => t.conn[d].sv = conn[d].sv
                => Running(t, Tail(queue))
  BY <1>1, FirstFacts, SFacts DEF Unserved
<1>5. \A j \in Slots : ~Linked(S, j, c)
  BY <1>3, <1>4, GoodFacts
<1>6. Batch'
  BY <1>1, SlotFacts DEF Batch, IInv
<1> HIDE DEF c
(* What remains: the new state is good. *)
<1>7. ASSUME NEW t, Good(t), slot' = t.slot, conn' = t.conn, t.conn[c].sv # "queued",
             \A d \in Conn : d # c => t.conn[d].sv = conn[d].sv
      PROVE  IInv'
  <2>1. Running(t, queue')
    BY <1>1, <1>4, <1>7
  <2>2. Good(S)' /\ Line'
    BY <1>7, <2>1, RunningNext
  <2>3. QED
    BY <1>1, <1>6, <2>2 DEF IInv
<1>8. ASSUME NEW co, Ended(co), slot' = slot, conn' = [conn EXCEPT ![c] = co]
      PROVE  IInv'
  <2> DEFINE t == [slot |-> S.slot, conn |-> [S.conn EXCEPT ![c] = co]]
  <2>1. co \in ConnType /\ Unserved(co) /\ co.sv # "queued"
    BY <1>8 DEF Ended, ConnOk, Unserved
  <2>2. Good(t)
    BY <1>3, <1>4, <1>5, <2>1, ConnMoves
  <2>3. t.slot = slot' /\ t.conn = conn' /\ t.conn[c] = co /\ \A d \in Conn : d # c => t.conn[d] = conn[d]
    BY <1>3, <1>4, <1>8, SFacts
  <2> HIDE DEF t
  <2>4. QED
    BY <1>7, <2>1, <2>2, <2>3
<1>9. CASE conn' = [conn EXCEPT ![c] = Refuse(@)] /\ slot' = slot
  <2>1. Ended(Refuse(conn[c]))
    BY <1>4, RefusedEnds
  <2>2. QED
    BY <1>8, <1>9, <2>1
<1>10. ASSUME free # {}, NEW ok, /\ slot' = [slot EXCEPT ![i] = (IF ok THEN l ELSE CloseClient(l)).sl]
                                 /\ conn' = [conn EXCEPT ![c] = (IF ok THEN l ELSE CloseClient(l)).co]
       PROVE  IInv'
  <2>1. fd \in Fds /\ (\A j \in Slots : slot[j].fd # fd) /\ i \in Slots /\ slot[i].fd = NoFd
    BY <1>3, <1>10, FreeFacts
  <2> HIDE DEF fd, i
  <2>2. slot[i] = FreeSlot
    BY <1>3, <2>1, SFacts DEF Good, Linked
  <2>3. Served(l) /\ l.sl.fd = fd
    BY <1>4, <2>1, <2>2, AcceptedServed, ZenonT(60)
  <2>4. l.co.sv = "open"
    BY <2>3 DEF Served
  <2> HIDE DEF l
  <2>5. CASE ok
    <3> DEFINE t == [slot |-> [S.slot EXCEPT ![i] = l.sl], conn |-> [S.conn EXCEPT ![c] = l.co]]
    <3>1. S.slot[i] = FreeSlot /\ \A j \in Slots : S.slot[j].fd # l.sl.fd
      BY <2>1, <2>2, <2>3, SFacts
    <3>2. Good(t)
      BY <1>3, <1>4, <2>1, <2>3, <3>1, LinkMade
    <3>3. t.slot = slot' /\ t.conn = conn' /\ t.conn[c] = l.co /\ \A d \in Conn : d # c => t.conn[d] = conn[d]
      BY <1>3, <1>4, <1>10, <2>5, SFacts
    <3> HIDE DEF t
    <3>4. QED
      BY <1>7, <2>4, <3>2, <3>3
  <2>6. CASE ~ok
    <3>1. Left(CloseClient(l))
      BY <2>3, CloseLeaves
    <3>2. CloseClient(l).sl = slot[i] /\ Ended(CloseClient(l).co)
      BY <2>2, <3>1 DEF Left
    <3>3. slot' = slot /\ conn' = [conn EXCEPT ![c] = CloseClient(l).co]
      BY <1>3, <1>10, <2>1, <2>6, <3>2
    <3>4. QED
      BY <1>8, <3>2, <3>3
  <2>7. QED
    BY <2>5, <2>6
<1>11. QED
  BY <1>2, <1>9, <1>10

(* A step of a client that leaves the server's end as it was. *)
LEMMA ClientNext ==
    ASSUME IInv, NEW c \in Conn, NEW co \in ConnType, co.sv = conn[c].sv,
           Unserved(conn[c]) => Unserved(co),
           \A i \in Slots : Linked(S, i, c) => Served([sl |-> slot[i], co |-> co]),
           conn' = [conn EXCEPT ![c] = co],
           slot' = slot, queue' = queue, job' = job, up' = up, path' = path
    PROVE  IInv'
<1> DEFINE t == [slot |-> S.slot, conn |-> [S.conn EXCEPT ![c] = co]]
<1>1. Good(S) /\ conn \in [Conn -> ConnType]
  BY GoodFacts, SFacts DEF IInv
<1>2. Good(t)
  BY <1>1, SFacts, ConnMoves
<1>3. t.slot = slot' /\ t.conn = conn' /\ \A d \in Conn : t.conn[d].sv = conn[d].sv
  BY <1>1, SFacts
<1> HIDE DEF t
<1>4. Waiting(S, t)
  BY <1>3, SFacts DEF Waiting
<1>5. Good(S)' /\ Line'
  BY <1>2, <1>3, <1>4, RunningKept, RunningNext
<1>6. Batch'
  BY DEF IInv, Batch
<1>7. QED
  BY <1>5, <1>6 DEF IInv

(* The head of one queue moved to the end of another. *)
LEMMA ShiftFacts ==
    ASSUME NEW X, NEW a \in Seq(X), NEW b \in Seq(X), b # <<>>,
           NEW p, p = Append(a, Head(b)), NEW q, q = Tail(b)
    PROVE  p \in Seq(X) /\ Len(p) = Len(a) + 1 /\ q \in Seq(X) /\ p \o q = a \o b
<1>1. /\ Head(b) \in X /\ q \in Seq(X) /\ Len(q) = Len(b) - 1 /\ \A i \in 1..Len(q) : q[i] = b[i + 1]
      /\ Head(b) = b[1] /\ Len(b) \in Nat /\ Len(b) # 0 /\ Len(a) \in Nat
  BY HeadTailProperties, EmptySeq, LenProperties
<1>2. /\ p \in Seq(X) /\ Len(p) = Len(a) + 1
      /\ \A i \in 1..Len(a) : p[i] = a[i]
      /\ p[Len(a) + 1] = b[1]
  <2>1. \A i \in 1..(Len(a) + 1) : p[i] = IF i <= Len(a) THEN a[i] ELSE Head(b)
    BY <1>1, AppendProperties
  <2>2. p \in Seq(X) /\ Len(p) = Len(a) + 1
    BY <1>1, AppendProperties
  <2>3. QED
    BY <1>1, <2>1, <2>2
<1> DEFINE u == p \o q
           v == a \o b
<1>3. /\ u \in Seq(X) /\ Len(u) = Len(p) + Len(q)
      /\ \A i \in 1..Len(p) : u[i] = p[i]
      /\ \A i \in 1..Len(q) : u[Len(p) + i] = q[i]
  BY <1>1, <1>2, JoinFacts, SMTT(60)
<1>4. /\ v \in Seq(X) /\ Len(v) = Len(a) + Len(b)
      /\ \A i \in 1..Len(a) : v[i] = a[i]
      /\ \A i \in 1..Len(b) : v[Len(a) + i] = b[i]
  BY JoinFacts
<1> HIDE DEF u, v
<1>5. Len(u) = Len(v)
  BY <1>1, <1>2, <1>3, <1>4
<1>6. ASSUME NEW i \in 1..Len(u)
      PROVE  u[i] = v[i]
  <2>1. CASE i <= Len(a)
    <3>1. i \in 1..Len(a) /\ i \in 1..Len(p)
      BY <1>1, <1>2, <2>1
    <3>2. QED
      BY <1>2, <1>3, <1>4, <3>1
  <2>2. CASE i = Len(a) + 1
    <3>1. i \in 1..Len(p) /\ 1 \in 1..Len(b)
      BY <1>1, <1>2, <2>2
    <3>2. u[i] = b[1]
      BY <1>2, <1>3, <2>2, <3>1
    <3>3. v[i] = b[1]
      BY <1>4, <2>2, <3>1
    <3>4. QED
      BY <3>2, <3>3
  <2>3. CASE i > Len(a) + 1
    <3> DEFINE k == i - Len(p)
    <3>1. k \in 1..Len(q) /\ i = Len(p) + k /\ k + 1 \in 1..Len(b) /\ i = Len(a) + (k + 1)
      BY <1>1, <1>2, <1>3, <2>3
    <3> HIDE DEF k
    <3>2. u[i] = q[k]
      BY <1>3, <3>1
    <3>3. v[i] = b[k + 1]
      BY <1>4, <3>1
    <3>4. QED
      BY <1>1, <3>1, <3>2, <3>3
  <2>4. QED
    BY <1>1, <2>1, <2>2, <2>3
<1>7. u = v
  BY <1>3, <1>4, <1>5, <1>6, SeqEqual
<1>8. QED
  BY <1>1, <1>2, <1>7 DEF u, v

(* A connection made anew waits for accept, with nothing said. *)
LEMMA NewQueued ==
    ASSUME NEW co, co = [FreeConn EXCEPT !.cl = "open", !.sv = "queued"]
    PROVE  co \in ConnType /\ Queued(co) /\ co.sv = "queued"
<1>1. <<>> \in Seq(RequestCell) /\ <<>> \in Seq(AnswerCell) /\ Len(<<>>) = 0 /\ <<>> \o <<>> = <<>>
  BY EmptySeq, ConcatEmptySeq
<1>3. co \in ConnType
  BY FreeConnType DEF ConnType
<1>4. /\ co.cl = "open" /\ co.sv = "queued" /\ co.fd = NoFd /\ co.answered = 0 /\ co.sent = 0
      /\ co.inq = <<>> /\ co.outq = <<>> /\ co.owed = <<>> /\ co.asked = {} /\ co.left = <<>>
  <2>1. co.cl = "open" /\ co.sv = "queued"
    BY FreeConnType DEF ConnType
  <2>2. QED
    BY <2>1 DEF FreeConn
<1>5. ConnOk(co)
  <2>1. Len(co.inq) = 0 /\ Len(co.outq) = 0
    BY <1>1, <1>4, Zenon
  <2>2. QED
    BY <1>3, <1>4, <2>1, SizeFacts DEF ConnOk
<1>6. Asking(<<>>, 0, 0)
  <2>1. Ends(<<>>, "request") = {}
    BY <1>1 DEF Ends
  <2>2. Numbered(<<>>, "request", 0, 0)
    BY <2>1 DEF Numbered
  <2>3. Whole(<<>>)
    BY <1>1 DEF Whole
  <2>4. QED
    BY <2>2, <2>3 DEF Asking
<1>7. co.inq \o co.left = <<>>
  BY <1>1, <1>4
<1>8. QED
  BY <1>3, <1>4, <1>5, <1>6, <1>7 DEF Queued

(* A new connection joins the line. *)
LEMMA ConnectStep == ASSUME IInv, NEW c \in Conn, Connect(c) PROVE IInv'
<1> DEFINE co == [FreeConn EXCEPT !.cl = "open", !.sv = "queued"]
           t == [slot |-> S.slot, conn |-> [S.conn EXCEPT ![c] = co]]
           q == Append(queue, c)
<1>1. /\ up /\ Len(queue) < Backlog /\ (conn[c].cl = "new" \/ conn[c].sv = "closed")
      /\ conn' = [conn EXCEPT ![c] = co] /\ queue' = q
      /\ slot' = slot /\ job' = job /\ up' = up /\ path' = path
  BY DEF Connect
<1>2. Good(S) /\ conn \in [Conn -> ConnType]
  BY GoodFacts, SFacts DEF IInv
<1>3. co \in ConnType /\ Queued(co) /\ co.sv = "queued"
  BY NewQueued
<1>4. \A i \in Slots : ~Linked(S, i, c)
  BY <1>1, <1>2, SFacts DEF Good, Served, LinkOk, LinkAt, ConnOk, Linked
<1>5. conn[c].sv # "queued"
  <2>1. Unserved(conn[c])
    BY <1>2, <1>4, SFacts DEF Good
  <2>2. QED
    BY <1>1, <2>1, FreeConnType DEF Unserved, Queued, ConnOk, Ended
<1> HIDE DEF co
<1>6. Good(t)
  BY <1>2, <1>3, <1>4, ConnMoves DEF Unserved
<1>7. t.slot = slot' /\ t.conn = conn' /\ t.conn[c] = co /\ \A d \in Conn : d # c => t.conn[d] = conn[d]
  BY <1>1, <1>2, SFacts
<1>8. /\ queue \in Seq(Conn) /\ Len(queue) \in Nat
      /\ \A i, j \in 1..Len(queue) : queue[i] = queue[j] => i = j
      /\ \A d \in Conn : conn[d].sv = "queued" <=> \E i \in 1..Len(queue) : queue[i] = d
  BY LenProperties DEF IInv, Line
<1>9. /\ q \in Seq(Conn) /\ Len(q) = Len(queue) + 1
      /\ \A i \in 1..Len(queue) : q[i] = queue[i]
      /\ q[Len(queue) + 1] = c
  <2>1. \A i \in 1..(Len(queue) + 1) : q[i] = IF i <= Len(queue) THEN queue[i] ELSE c
    BY <1>8, AppendProperties
  <2>2. q \in Seq(Conn) /\ Len(q) = Len(queue) + 1
    BY <1>8, AppendProperties
  <2>3. QED
    BY <1>8, <2>1, <2>2
<1> HIDE DEF q, t
<1>10. \A i \in 1..Len(queue) : queue[i] # c
  BY <1>5, <1>8
<1>11. ASSUME NEW i \in 1..Len(q), NEW j \in 1..Len(q), q[i] = q[j]
       PROVE  i = j
  <2>1. /\ i \in 1..Len(queue) \/ i = Len(queue) + 1
        /\ j \in 1..Len(queue) \/ j = Len(queue) + 1
    BY <1>8, <1>9
  <2>2. QED
    BY <1>8, <1>9, <1>10, <1>11, <2>1
<1>12. ASSUME NEW d \in Conn
       PROVE  t.conn[d].sv = "queued" <=> \E i \in 1..Len(q) : q[i] = d
  <2>1. Len(queue) + 1 \in 1..Len(q) /\ \A i \in 1..Len(q) : i \in 1..Len(queue) \/ i = Len(queue) + 1
    BY <1>8, <1>9
  <2>2. \A i \in 1..Len(queue) : i \in 1..Len(q)
    BY <1>8, <1>9
  <2>3. CASE d = c
    BY <1>3, <1>7, <1>9, <2>1, <2>3
  <2>4. CASE d # c
    <3>1. t.conn[d].sv = conn[d].sv
      BY <1>7, <2>4
    <3>2. (\E i \in 1..Len(q) : q[i] = d) <=> \E i \in 1..Len(queue) : queue[i] = d
      BY <1>9, <2>1, <2>2, <2>4
    <3>3. QED
      BY <1>8, <3>1, <3>2
  <2>5. QED
    BY <2>3, <2>4
<1>13. Len(q) <= Backlog
  BY <1>1, <1>8, <1>9, SizeFacts
<1>14. Running(t, q)
  BY <1>6, <1>9, <1>11, <1>12, <1>13 DEF Running
<1>15. Good(S)' /\ Line'
  BY <1>1, <1>7, <1>14, RunningNext
<1>16. Batch'
  BY <1>1 DEF IInv, Batch
<1>17. QED
  BY <1>1, <1>15, <1>16 DEF IInv

(* Writing a cell of a request, the next or the first of a new one, asks   *)
(* on from what was asked.                                                 *)
AsksOn(co, d) ==
    /\ d.cl = co.cl /\ d.sv = co.sv /\ d.fd = co.fd /\ d.outq = co.outq /\ d.owed = co.owed
    /\ d.answered = co.answered /\ d.asked = co.asked /\ co.sent <= d.sent
    /\ \A r \in Seq(RequestCell), h \in Nat :
          h <= co.sent /\ Asking(r \o co.inq \o co.left, h, co.sent) => Asking(r \o d.inq \o d.left, h, d.sent)
Sends(co, d) ==
    \/ co.left # <<>> /\ d = [co EXCEPT !.inq = Append(@, Head(co.left)), !.left = Tail(@)]
    \/ /\ co.left = <<>>
       /\ \E r \in Request :
             LET f == [kind |-> "request", id |-> co.sent + 1, of |-> r, size |-> r.size]
             IN  d = [co EXCEPT !.sent = @ + 1, !.left = Tail(Cells(f)), !.inq = Append(@, Head(Cells(f)))]

(* It keeps the bounds, too. *)
LEMMA SendFacts ==
    ASSUME NEW co, ConnOk(co), Len(co.inq) < SockBuf, NEW d, Sends(co, d)
    PROVE  ConnOk(d) /\ AsksOn(co, d)
<1>1. /\ co \in ConnType /\ co.inq \in Seq(RequestCell) /\ co.left \in Seq(RequestCell) /\ co.sent \in Nat
      /\ Len(co.inq) \in Nat /\ Len(co.outq) <= SockBuf /\ co.cl # "new"
  <2>1. co \in ConnType /\ co.inq \in Seq(RequestCell) /\ co.left \in Seq(RequestCell) /\ co.sent \in Nat
    BY DEF ConnOk, ConnType
  <2>2. QED
    BY <2>1, LenProperties DEF ConnOk
(* b is what the cell is taken from. *)
<1>2. ASSUME NEW b \in Seq(RequestCell), b # <<>>, NEW n \in Nat,
             d.inq = Append(co.inq, Head(b)), d.left = Tail(b), d.sent = n,
             d = [co EXCEPT !.inq = Append(@, Head(b)), !.left = Tail(b), !.sent = n]
      PROVE  /\ ConnOk(d)
             /\ d.cl = co.cl /\ d.sv = co.sv /\ d.fd = co.fd /\ d.outq = co.outq /\ d.owed = co.owed
             /\ d.answered = co.answered /\ d.asked = co.asked
             /\ \A r \in Seq(RequestCell) : r \o d.inq \o d.left = (r \o co.inq) \o b
  <2>1. /\ d.inq \in Seq(RequestCell) /\ Len(d.inq) = Len(co.inq) + 1 /\ d.left \in Seq(RequestCell)
        /\ d.inq \o d.left = co.inq \o b
    <3>1. /\ co.inq \in Seq(RequestCell) /\ b \in Seq(RequestCell) /\ b # <<>>
          /\ d.inq = Append(co.inq, Head(b)) /\ d.left = Tail(b)
      BY <1>1, <1>2
    <3>2. QED
      BY <3>1, ShiftFacts, SMTT(60)
  <2>2. /\ d.cl = co.cl /\ d.sv = co.sv /\ d.fd = co.fd /\ d.outq = co.outq /\ d.owed = co.owed
        /\ d.answered = co.answered /\ d.asked = co.asked
    BY <1>1, <1>2 DEF ConnType
  <2>3. d \in ConnType
    <3> DEFINE p == Append(co.inq, Head(b))
               q == Tail(b)
    <3>1. p \in Seq(RequestCell) /\ q \in Seq(RequestCell)
      BY <1>2, <2>1
    <3> HIDE DEF p, q
    <3>2. d = [co EXCEPT !.inq = p, !.left = q, !.sent = n]
      BY <1>2 DEF p, q
    <3>3. QED
      BY <1>1, <3>1, <3>2 DEF ConnType
  <2>4. ConnOk(d)
    BY <1>1, <2>1, <2>2, <2>3, SizeFacts DEF ConnOk
  <2>5. ASSUME NEW r \in Seq(RequestCell)
        PROVE  r \o d.inq \o d.left = (r \o co.inq) \o b
    <3> DEFINE x == d.inq
               y == d.left
               z == co.inq
    <3>1. r \in Seq(RequestCell) /\ x \in Seq(RequestCell) /\ y \in Seq(RequestCell)
      BY <2>1
    <3>2. r \in Seq(RequestCell) /\ z \in Seq(RequestCell) /\ b \in Seq(RequestCell) /\ x \o y = z \o b
      BY <1>1, <1>2, <2>1
    <3> HIDE DEF x, y, z
    <3>3. (r \o x) \o y = r \o (x \o y)
      BY <3>1, ConcatAssociative, SMTT(60)
    <3>4. (r \o z) \o b = r \o (z \o b)
      BY <3>2, ConcatAssociative, SMTT(60)
    <3>5. (r \o x) \o y = (r \o z) \o b
      BY <3>2, <3>3, <3>4
    <3>6. QED
      BY <3>5 DEF x, y, z
  <2>6. QED
    BY <2>2, <2>4, <2>5
<1>3. CASE co.left # <<>> /\ d = [co EXCEPT !.inq = Append(@, Head(co.left)), !.left = Tail(@)]
  <2>1. /\ d.inq = Append(co.inq, Head(co.left)) /\ d.left = Tail(co.left) /\ d.sent = co.sent
        /\ d = [co EXCEPT !.inq = Append(@, Head(co.left)), !.left = Tail(co.left), !.sent = co.sent]
    BY <1>1, <1>3 DEF ConnType
  <2>2. /\ ConnOk(d)
        /\ d.cl = co.cl /\ d.sv = co.sv /\ d.fd = co.fd /\ d.outq = co.outq /\ d.owed = co.owed
        /\ d.answered = co.answered /\ d.asked = co.asked
        /\ \A r \in Seq(RequestCell) : r \o d.inq \o d.left = (r \o co.inq) \o co.left
    BY <1>1, <1>2, <1>3, <2>1
  <2>3. ASSUME NEW r \in Seq(RequestCell), NEW h \in Nat, Asking(r \o co.inq \o co.left, h, co.sent)
        PROVE  Asking(r \o d.inq \o d.left, h, d.sent)
    BY <2>1, <2>2, <2>3
  <2>4. QED
    BY <1>1, <2>1, <2>2, <2>3 DEF AsksOn
<1>4. CASE /\ co.left = <<>>
           /\ \E r \in Request :
                 LET f == [kind |-> "request", id |-> co.sent + 1, of |-> r, size |-> r.size]
                 IN  d = [co EXCEPT !.sent = @ + 1, !.left = Tail(Cells(f)), !.inq = Append(@, Head(Cells(f)))]
  <2>1. PICK k \in Request :
           LET f == [kind |-> "request", id |-> co.sent + 1, of |-> k, size |-> k.size]
           IN  d = [co EXCEPT !.sent = @ + 1, !.left = Tail(Cells(f)), !.inq = Append(@, Head(Cells(f)))]
    BY <1>4
  <2> DEFINE f == [kind |-> "request", id |-> co.sent + 1, of |-> k, size |-> k.size]
             b == Cells(f)
             n == co.sent + 1
  <2>2. n \in Nat /\ f \in RequestFrame /\ f.id = n /\ f.size \in Nat
    BY <1>1, RequestAssumption DEF RequestFrame
  <2>3. d = [co EXCEPT !.sent = n, !.left = Tail(b), !.inq = Append(@, Head(b))]
    BY <2>1
  <2> HIDE DEF f
  <2>4. b \in Seq(RequestCell) /\ b # <<>>
    <3>1. b \in Seq(RequestFrame \X Nat) /\ Len(b) = f.size + 1
      BY <2>2, CellsFacts
    <3>2. b # <<>>
      BY <2>2, <3>1, EmptySeq
    <3>3. QED
      BY <3>1, <3>2 DEF RequestCell
  <2> HIDE DEF b, n
  <2>5. /\ d.inq = Append(co.inq, Head(b)) /\ d.left = Tail(b) /\ d.sent = n
        /\ d = [co EXCEPT !.inq = Append(@, Head(b)), !.left = Tail(b), !.sent = n]
    BY <1>1, <2>3 DEF ConnType
  <2>6. /\ ConnOk(d)
        /\ d.cl = co.cl /\ d.sv = co.sv /\ d.fd = co.fd /\ d.outq = co.outq /\ d.owed = co.owed
        /\ d.answered = co.answered /\ d.asked = co.asked
        /\ \A r \in Seq(RequestCell) : r \o d.inq \o d.left = (r \o co.inq) \o b
    BY <1>2, <2>2, <2>4, <2>5
  <2>7. ASSUME NEW r \in Seq(RequestCell), NEW h \in Nat, h <= co.sent, Asking(r \o co.inq \o co.left, h, co.sent)
        PROVE  Asking(r \o d.inq \o d.left, h, d.sent)
    <3> DEFINE q == r \o co.inq
    <3>1. q \in Seq(RequestCell)
      BY <1>1, ConcatProperties
    <3>2. q \o <<>> = q
      BY <3>1, ConcatEmptySeq
    <3>3. Asking(q, h, co.sent)
      BY <1>4, <2>7, <3>2
    <3>4. r \o d.inq \o d.left = With(q, f)
      BY <2>6 DEF With, b
    <3> HIDE DEF q
    <3>5. Asking(With(q, f), h, co.sent + 1)
      BY <1>1, <2>2, <2>7, <3>1, <3>3, AskingJoin DEF n
    <3>6. QED
      BY <2>5, <3>4, <3>5 DEF n
  <2>8. co.sent <= d.sent
    BY <1>1, <2>5 DEF n
  <2>9. QED
    BY <2>6, <2>7, <2>8 DEF AsksOn
<1>5. QED
  BY <1>3, <1>4 DEF Sends

(* A client writes a cell. *)
LEMMA SendStep == ASSUME IInv, NEW c \in Conn, Send(c) PROVE IInv'
<1> DEFINE co == conn[c]
<1>1. /\ co.cl = "open" /\ co.sv # "closed" /\ Len(co.inq) < SockBuf
      /\ slot' = slot /\ queue' = queue /\ job' = job /\ up' = up /\ path' = path
  BY DEF Send
<1>2. Good(S) /\ conn \in [Conn -> ConnType] /\ co \in ConnType
  BY GoodFacts, SFacts, SMTT(60) DEF IInv
<1>3. PICK d : Sends(co, d) /\ conn' = [conn EXCEPT ![c] = d]
  <2>1. CASE /\ co.left # <<>>
             /\ conn' = [conn EXCEPT ![c].inq = Append(@, Head(co.left)), ![c].left = Tail(@)]
    <3> DEFINE d == [co EXCEPT !.inq = Append(@, Head(co.left)), !.left = Tail(@)]
    <3>1. conn' = [conn EXCEPT ![c] = d]
      BY <1>2, <2>1
    <3>2. QED
      BY <2>1, <3>1 DEF Sends
  <2>2. CASE /\ co.left = <<>>
             /\ \E r \in Request :
                   LET f == [kind |-> "request", id |-> co.sent + 1, of |-> r, size |-> r.size]
                   IN  conn' = [conn EXCEPT ![c].sent = @ + 1, ![c].left = Tail(Cells(f)),
                                            ![c].inq = Append(@, Head(Cells(f)))]
    <3>1. PICK r \in Request :
             LET f == [kind |-> "request", id |-> co.sent + 1, of |-> r, size |-> r.size]
             IN  conn' = [conn EXCEPT ![c].sent = @ + 1, ![c].left = Tail(Cells(f)),
                                      ![c].inq = Append(@, Head(Cells(f)))]
      BY <2>2
    <3> DEFINE f == [kind |-> "request", id |-> co.sent + 1, of |-> r, size |-> r.size]
               d == [co EXCEPT !.sent = @ + 1, !.left = Tail(Cells(f)), !.inq = Append(@, Head(Cells(f)))]
    <3>2. conn' = [conn EXCEPT ![c] = d]
      BY <1>2, <3>1
    <3>3. Sends(co, d)
      BY <2>2 DEF Sends
    <3>4. QED
      BY <3>2, <3>3
  <2>3. QED
    BY <2>1, <2>2 DEF Send
<1> HIDE DEF co
(* Where it asked in order, it goes on to. *)
<1>4. ASSUME ConnOk(co)
      PROVE  ConnOk(d) /\ d \in ConnType /\ AsksOn(co, d)
  BY <1>1, <1>3, <1>4, SendFacts DEF ConnOk
<1>5. ASSUME NEW i \in Slots, Linked(S, i, c)
      PROVE  ConnOk(co) /\ Served([sl |-> slot[i], co |-> d])
  <2> DEFINE l == [sl |-> slot[i], co |-> co]
             v == [sl |-> slot[i], co |-> d]
  <2>1. Served(l)
    BY <1>2, <1>5, SFacts DEF Good, LinkAt, co
  <2>2. LinkOk(l) /\ ConnOk(co) /\ slot[i] \in SlotType /\ slot[i].rbuf \in Seq(RequestCell)
    BY <2>1 DEF Served, LinkOk, Link, SlotType
  <2>3. ConnOk(d) /\ d \in ConnType /\ AsksOn(co, d)
    BY <1>4, <2>2
  <2>4. LinkOk(v)
    BY <2>2, <2>3 DEF LinkOk, Link
  <2>5. /\ d.cl = co.cl /\ d.sv = co.sv /\ d.fd = co.fd /\ d.outq = co.outq /\ d.owed = co.owed
        /\ d.answered = co.answered /\ d.asked = co.asked /\ co.sent <= d.sent
        /\ co.sent \in Nat /\ d.sent \in Nat /\ co.answered \in Nat
    BY <1>2, <2>3 DEF AsksOn, ConnType
  <2>6. v.co.owed = Pending(v) /\ KnowsTopics(v)
    <3>1. co.owed = Pending(l) /\ KnowsTopics(l)
      BY <1>1, <2>1 DEF Served
    <3>2. Pending(v) = Pending(l)
      BY <2>5 DEF Pending
    <3>3. KnowsTopics(v)
      BY <2>5, <3>1 DEF KnowsTopics
    <3>4. QED
      BY <2>5, <3>1, <3>2, <3>3
  <2>7. ASSUME Fits
        PROVE  \E h \in Nat : Answering(d, h) /\ Asking(Requests(v), h, d.sent)
    <3>1. PICK h \in Nat : Answering(co, h) /\ Asking(Requests(l), h, co.sent)
      BY <1>1, <2>1, <2>7 DEF Served
    <3>2. h <= co.sent
      BY <2>5, <3>1 DEF Answering
    <3>3. Answering(d, h)
      BY <2>5, <3>1 DEF Answering
    <3>4. Asking(slot[i].rbuf \o co.inq \o co.left, h, co.sent)
      BY <3>1 DEF Requests
    <3>5. Asking(slot[i].rbuf \o d.inq \o d.left, h, d.sent)
      BY <2>2, <2>3, <3>2, <3>4 DEF AsksOn
    <3>6. Asking(Requests(v), h, d.sent)
      BY <3>5 DEF Requests
    <3>7. QED
      BY <3>3, <3>6
  <2>8. Served(v)
    <3>1. co.sv = "open" /\ slot[i].fd \in Fds /\ co.fd = slot[i].fd
      BY <2>1 DEF Served
    <3>2. QED
      BY <2>4, <2>5, <2>6, <2>7, <3>1 DEF Served
  <2>9. QED
    BY <2>2, <2>8
<1>6. ASSUME Unserved(co)
      PROVE  ConnOk(co) /\ Unserved(d)
  <2>1. Queued(co)
    BY <1>1, <1>6, FreeConnType DEF Unserved, Ended
  <2>2. ConnOk(d) /\ d \in ConnType /\ AsksOn(co, d) /\ ConnOk(co)
    BY <1>4, <2>1 DEF Queued
  <2>3. Asking(d.inq \o d.left, 0, d.sent)
    <3>1. <<>> \in Seq(RequestCell) /\ 0 \in Nat /\ co.sent \in Nat /\ 0 <= co.sent
      BY <1>2, EmptySeq DEF ConnType
    <3>2. <<>> \o co.inq = co.inq /\ <<>> \o d.inq = d.inq
      <4>1. co.inq \in Seq(RequestCell) /\ d.inq \in Seq(RequestCell)
        BY <1>2, <2>2 DEF ConnType
      <4>2. QED
        BY <4>1, ConcatEmptySeq
    <3>3. Asking(<<>> \o co.inq \o co.left, 0, co.sent)
      BY <1>1, <2>1, <3>2 DEF Queued
    <3>4. Asking(<<>> \o d.inq \o d.left, 0, d.sent)
      BY <2>2, <3>1, <3>3 DEF AsksOn
    <3>5. QED
      BY <3>2, <3>4
  <2>4. QED
    BY <2>1, <2>2, <2>3 DEF Queued, AsksOn, Unserved
<1>7. ConnOk(co)
  <2>1. Unserved(co) \/ \E i \in Slots : Linked(S, i, c)
    BY <1>2, SFacts DEF Good, co
  <2>2. QED
    BY <1>5, <1>6, <2>1
<1>8. d \in ConnType /\ d.sv = co.sv
  BY <1>4, <1>7 DEF AsksOn
<1>9. QED
  BY <1>1, <1>3, <1>5, <1>6, <1>8, ClientNext DEF co

(* What a client reads is the first it is owed: a reply read whole is the  *)
(* next it has an answer to.                                               *)
Receives(co, d) ==
    d = [co EXCEPT !.outq = Tail(@), !.owed = Drop(@, 1),
                   !.answered = @ + (IF co.owed # <<>> /\ EndsReply(co.owed[1]) THEN 1 ELSE 0)]

(* Its answers are numbered on from those it has. *)
LEMMA ReceiveFacts ==
    ASSUME NEW co, ConnOk(co), co.outq # <<>>, co.owed # <<>>, NEW d, Receives(co, d)
    PROVE  /\ ConnOk(d) /\ d.outq = Tail(co.outq) /\ d.owed = Drop(co.owed, 1)
           /\ d.cl = co.cl /\ d.sv = co.sv /\ d.fd = co.fd /\ d.sent = co.sent /\ d.asked = co.asked
           /\ d.inq = co.inq /\ d.left = co.left
           /\ \A h \in Nat : Answering(co, h) => Answering(d, h)
<1> DEFINE w == co.owed
           a == co.answered
           b == a + (IF w # <<>> /\ EndsReply(w[1]) THEN 1 ELSE 0)
           r == Drop(w, 1)
           q == Tail(co.outq)
<1>1. /\ co \in ConnType /\ w \in Seq(AnswerCell) /\ co.outq \in Seq(AnswerCell) /\ a \in Nat /\ co.sent \in Nat
      /\ Len(co.outq) <= SockBuf /\ Len(co.inq) <= SockBuf /\ co.cl # "new"
  BY DEF ConnOk, ConnType
<1>2. q \in Seq(AnswerCell) /\ Len(q) = Len(co.outq) - 1 /\ Len(co.outq) \in Nat
  BY <1>1, HeadTailProperties, LenProperties
<1>3. d = [co EXCEPT !.outq = q, !.owed = r, !.answered = b]
  BY DEF Receives
<1>4. w # <<>> /\ b \in Nat
  BY <1>1
<1> HIDE DEF w, b
<1>5. Len(w) \in Nat /\ 1 \in 1..Len(w) /\ 1 \in 0..Len(w) /\ r \in Seq(AnswerCell)
  <2>1. Len(w) \in Nat /\ Len(w) # 0
    BY <1>1, <1>4, EmptySeq, LenProperties
  <2>2. 1 \in 1..Len(w) /\ 1 \in 0..Len(w)
    BY <2>1
  <2>3. QED
    BY <1>1, <2>1, <2>2, PartFacts
<1>6. w[1] \in AnswerCell
  BY <1>1, <1>5, ElementOfSeq
<1>7. /\ d.outq = q /\ d.owed = r /\ d.answered = b
      /\ d.cl = co.cl /\ d.sv = co.sv /\ d.fd = co.fd /\ d.sent = co.sent /\ d.asked = co.asked
      /\ d.inq = co.inq /\ d.left = co.left
  BY <1>1, <1>3 DEF ConnType
<1> HIDE DEF q, r
<1>8. d \in ConnType
  BY <1>1, <1>2, <1>3, <1>4, <1>5 DEF ConnType
<1>9. ConnOk(d)
  <2>1. Len(q) <= SockBuf
    BY <1>1, <1>2, SizeFacts
  <2>2. QED
    BY <1>1, <1>7, <1>8, <2>1 DEF ConnOk
<1>10. ASSUME NEW h \in Nat, h \in a..co.sent, Numbered(w, "reply", a, h)
       PROVE  h \in b..co.sent /\ Numbered(r, "reply", b, h)
  <2>1. \A i \in Ends(w, "reply") : i \in 1..Len(w) /\ i >= 1
    BY <1>5 DEF Ends
  <2>2. 1 \in Ends(w, "reply") <=> EndsReply(w[1])
    BY <1>5 DEF Ends, EndsReply
  <2>3. CASE 1 \in Ends(w, "reply")
    <3>1. a + 1 <= h /\ Numbered(Drop(w, 1), "reply", a + 1, h)
      BY <1>1, <1>5, <1>10, <2>1, <2>3, NumberedDropOne
    <3>2. b = a + 1
      BY <1>4, <2>2, <2>3 DEF b
    <3>3. h \in b..co.sent
      BY <1>1, <1>10, <3>1, <3>2
    <3>4. QED
      BY <3>1, <3>2, <3>3 DEF r
  <2>4. CASE 1 \notin Ends(w, "reply")
    <3>1. \A i \in Ends(w, "reply") : i > 1
      BY <1>5, <2>1, <2>4
    <3>2. Numbered(Drop(w, 1), "reply", a, h)
      BY <1>1, <1>5, <1>10, <3>1, NumberedDropNone
    <3>3. b = a
      BY <1>1, <1>4, <2>2, <2>4 DEF b
    <3>4. QED
      BY <1>10, <3>2, <3>3 DEF r
  <2>5. QED
    BY <2>3, <2>4
<1>11. \A h \in Nat : Answering(co, h) => Answering(d, h)
  BY <1>7, <1>10 DEF Answering, w
<1>12. QED
  BY <1>7, <1>9, <1>11 DEF q, r, w

(* A client reads a cell. *)
LEMMA ReceiveStep == ASSUME IInv, NEW c \in Conn, Receive(c) PROVE IInv'
<1> DEFINE co == conn[c]
           d == [co EXCEPT !.outq = Tail(@), !.owed = Drop(@, 1),
                           !.answered = @ + (IF co.owed # <<>> /\ EndsReply(co.owed[1]) THEN 1 ELSE 0)]
<1>1. /\ co.cl = "open" /\ co.outq # <<>>
      /\ slot' = slot /\ queue' = queue /\ job' = job /\ up' = up /\ path' = path
  BY DEF Receive
<1>2. Good(S) /\ conn \in [Conn -> ConnType] /\ co \in ConnType
  BY GoodFacts, SFacts DEF IInv
<1>3. conn' = [conn EXCEPT ![c] = d]
  BY <1>2 DEF Receive
<1>4. Receives(co, d)
  BY DEF Receives
<1> HIDE DEF co, d
<1>5. ASSUME NEW i \in Slots, Linked(S, i, c)
      PROVE  ConnOk(d) /\ d.sv = co.sv /\ Served([sl |-> slot[i], co |-> d])
  <2> DEFINE l == [sl |-> slot[i], co |-> co]
             v == [sl |-> slot[i], co |-> d]
             u == Unsent(slot[i])
             p == co.outq
  <2>1. Served(l)
    BY <1>2, <1>5, SFacts DEF Good, LinkAt, co
  <2>2. LinkOk(l) /\ ConnOk(co) /\ slot[i] \in SlotType
    BY <2>1 DEF Served, LinkOk, Link
  <2>3. /\ p \in Seq(AnswerCell) /\ u \in Seq(AnswerCell) /\ p # <<>> /\ Pending(l) = p \o u
        /\ co.owed = Pending(l) /\ KnowsTopics(l)
    <3>1. l.co.outq \in Seq(AnswerCell) /\ Unsent(l.sl) \in Seq(AnswerCell)
      BY <2>2, LinkFacts
    <3>2. l.co.owed = Pending(l) /\ KnowsTopics(l)
      BY <1>1, <2>1 DEF Served
    <3>3. QED
      BY <1>1, <3>1, <3>2 DEF Pending
  <2> HIDE DEF p, u
  <2>4. Len(p) \in Nat /\ 1 \in 0..Len(p) /\ Tail(p) = Drop(p, 1) /\ p \o u # <<>>
    <3>1. Len(p) \in Nat /\ Len(p) # 0
      BY <2>3, EmptySeq, LenProperties
    <3>2. Tail(p) = SubSeq(p, 2, Len(p))
      BY <2>3, TailIsSubSeq
    <3>3. p \o u # <<>>
      BY <2>3, ConcatEqualIffEmpty
    <3>4. QED
      BY <3>1, <3>2, <3>3 DEF Drop
  <2>5. Drop(p \o u, 1) = Tail(p) \o u
    BY <2>3, <2>4, DropOfJoin, ZenonT(60)
  <2>6. co.owed # <<>> /\ co.outq # <<>>
    BY <2>3, <2>4 DEF p
  <2>7. /\ ConnOk(d) /\ d.outq = Tail(co.outq) /\ d.owed = Drop(co.owed, 1)
        /\ d.cl = co.cl /\ d.sv = co.sv /\ d.fd = co.fd /\ d.sent = co.sent /\ d.asked = co.asked
        /\ d.inq = co.inq /\ d.left = co.left
        /\ \A h \in Nat : Answering(co, h) => Answering(d, h)
    BY <1>4, <2>2, <2>6, ReceiveFacts
  <2>8. LinkOk(v)
    BY <2>2, <2>7 DEF LinkOk, Link, ConnOk
  <2>9. d.owed = Pending(v) /\ KnowsTopics(v)
    <3>1. d.owed = Tail(p) \o u
      BY <2>3, <2>5, <2>7
    <3>2. Pending(v) = Tail(p) \o u
      BY <2>7 DEF Pending, p, u
    <3>3. KnowsTopics(v)
      BY <2>3, <2>7 DEF KnowsTopics
    <3>4. QED
      BY <3>1, <3>2, <3>3
  <2>10. Requests(v) = Requests(l)
    BY <2>7 DEF Requests
  <2>11. ASSUME Fits
         PROVE  \E h \in Nat : Answering(d, h) /\ Asking(Requests(v), h, d.sent)
    <3>1. PICK h \in Nat : Answering(co, h) /\ Asking(Requests(l), h, co.sent)
      BY <1>1, <2>1, <2>11 DEF Served
    <3>2. Answering(d, h) /\ Asking(Requests(v), h, d.sent)
      BY <2>7, <2>10, <3>1
    <3>3. QED
      BY <3>2
  <2>12. Served(v)
    <3>1. co.sv = "open" /\ slot[i].fd \in Fds /\ co.fd = slot[i].fd
      BY <2>1 DEF Served
    <3>2. QED
      BY <2>7, <2>8, <2>9, <2>11, <3>1 DEF Served
  <2>13. QED
    BY <2>7, <2>12
<1>6. ASSUME Unserved(co)
      PROVE  ConnOk(d) /\ d.sv = co.sv /\ Unserved(d)
  <2>1. Ended(co)
    BY <1>1, <1>6, FreeConnType DEF Unserved, Queued
  <2>2. co.outq \in Seq(AnswerCell) /\ co.owed \in Seq(AnswerCell) /\ Prefix(co.outq, co.owed) /\ ConnOk(co)
    BY <1>1, <1>2, <2>1 DEF Ended, ConnType
  <2>3. co.owed # <<>> /\ Prefix(Tail(co.outq), Drop(co.owed, 1))
    BY <1>1, <2>2, PrefixDrop
  <2>4. /\ ConnOk(d) /\ d.outq = Tail(co.outq) /\ d.owed = Drop(co.owed, 1)
        /\ d.cl = co.cl /\ d.sv = co.sv /\ d.fd = co.fd
        /\ \A h \in Nat : Answering(co, h) => Answering(d, h)
    BY <1>1, <1>4, <2>2, <2>3, ReceiveFacts
  <2>5. Ended(d)
    BY <1>1, <2>1, <2>3, <2>4 DEF Ended
  <2>6. QED
    BY <2>4, <2>5 DEF Unserved
<1>7. ConnOk(d) /\ d.sv = co.sv
  <2>1. Unserved(co) \/ \E i \in Slots : Linked(S, i, c)
    BY <1>2, SFacts DEF Good, co
  <2>2. QED
    BY <1>5, <1>6, <2>1
<1>8. d \in ConnType
  BY <1>7 DEF ConnOk
<1>9. QED
  BY <1>1, <1>3, <1>5, <1>6, <1>7, <1>8, ClientNext DEF co

(* A client hangs up: what the server has of it stands, and is promised to *)
(* nobody.                                                                 *)
LEMMA HangUpStep == ASSUME IInv, NEW c \in Conn, HangUp(c) PROVE IInv'
<1> DEFINE co == conn[c]
           d == [co EXCEPT !.cl = "closed", !.outq = <<>>, !.left = <<>>, !.owed = <<>>, !.asked = {}]
<1>1. /\ co.cl = "open" /\ conn' = [conn EXCEPT ![c] = d]
      /\ slot' = slot /\ queue' = queue /\ job' = job /\ up' = up /\ path' = path
  BY DEF HangUp
<1>2. Good(S) /\ conn \in [Conn -> ConnType] /\ co \in ConnType
  BY GoodFacts, SFacts DEF IInv
<1>3. <<>> \in Seq(RequestCell) /\ <<>> \in Seq(AnswerCell) /\ Len(<<>>) = 0
  BY EmptySeq
<1>4. /\ d \in ConnType /\ d.cl = "closed" /\ d.sv = co.sv /\ d.fd = co.fd /\ d.inq = co.inq
      /\ d.outq = <<>> /\ d.owed = <<>> /\ d.asked = {} /\ d.answered = co.answered
  BY <1>2, <1>3 DEF ConnType
<1> HIDE DEF co, d
<1>5. ConnOk(co) => ConnOk(d)
  <2>1. Len(d.outq) = 0
    BY <1>3, <1>4, Zenon
  <2>2. QED
    BY <1>4, <2>1, SizeFacts DEF ConnOk
<1>6. ASSUME NEW i \in Slots, Linked(S, i, c)
      PROVE  Served([sl |-> slot[i], co |-> d])
  <2>1. Served([sl |-> slot[i], co |-> co])
    BY <1>2, <1>6, SFacts DEF Good, LinkAt, co
  <2>2. LinkOk([sl |-> slot[i], co |-> co])
    BY <2>1 DEF Served
  <2>3. LinkOk([sl |-> slot[i], co |-> d])
    BY <1>4, <1>5, <2>2 DEF LinkOk, Link
  <2>4. QED
    BY <1>4, <2>1, <2>3 DEF Served
<1>7. ASSUME Unserved(co)
      PROVE  Unserved(d)
  <2>1. Ended(co) \/ Queued(co)
    BY <1>1, <1>7, FreeConnType DEF Unserved
  <2>2. QED
    BY <1>4, <1>5, <2>1 DEF Ended, Queued, Unserved
<1>8. QED
  BY <1>1, <1>4, <1>6, <1>7, ClientNext DEF co

-----------------------------------------------------------------------------
(* The invariant.                                                          *)

(* Before the server exists there is nothing. *)
LEMMA InitIInv == Init => IInv
<1> SUFFICES ASSUME Init
             PROVE  IInv
  OBVIOUS
<1>1. /\ slot = [i \in Slots |-> FreeSlot] /\ conn = [c \in Conn |-> FreeConn]
      /\ queue = <<>> /\ job = Rest /\ up = FALSE /\ path = "free"
  BY DEF Init
<1>2. \A i \in Slots, c \in Conn : ~Linked(S, i, c)
  BY <1>1, FdFacts, SFacts DEF Linked
<1>3. S \in State
  BY <1>1, FreeSlotOk, FreeConnType DEF S, State
<1>4. Good(S)
  BY <1>1, <1>2, <1>3, SFacts DEF Good, Unserved
<1>5. Line
  <2>1. <<>> \in Seq(Conn) /\ Len(<<>>) = 0
    BY EmptySeq
  <2>2. queue \in Seq(Conn) /\ Len(queue) = 0 /\ 1..Len(queue) = {}
    BY <1>1, <2>1
  <2>3. \A c \in Conn : conn[c].sv # "queued"
    BY <1>1, FreeConnType
  <2>4. QED
    BY <2>2, <2>3, SizeFacts DEF Line
<1>6. Batch
  BY <1>1, RestFacts DEF Batch
<1>7. QED
  BY <1>1, <1>4, <1>5, <1>6 DEF IInv

(* Every step keeps it, one lemma for each action. *)
LEMMA NextIInv == IInv /\ [Next]_vars => IInv'
<1> SUFFICES ASSUME IInv, [Next]_vars
             PROVE  IInv'
  OBVIOUS
<1>1. CASE Server
  BY <1>1, EpollWaitStep, DispatchListenerStep, AcceptStep, AcceptEndStep, DispatchClientStep, ParseEndStep,
     ParseFrameStep DEF Server
<1>2. CASE ServerNew
  BY <1>2, ServerNewStep
<1>3. CASE Destroy
  BY <1>3, DestroyStep
<1>4. CASE Announce
  BY <1>4, AnnounceStep
<1>5. CASE Kill
  BY <1>5, KillStep
<1>6. ASSUME NEW c \in Conn, Client(c)
      PROVE  IInv'
  <2>1. CASE Connect(c)
    BY <2>1, ConnectStep
  <2>2. CASE Send(c)
    BY <2>2, SendStep
  <2>3. CASE Receive(c)
    BY <2>3, ReceiveStep
  <2>4. CASE HangUp(c)
    BY <2>4, HangUpStep
  <2>5. QED
    BY <1>6, <2>1, <2>2, <2>3, <2>4 DEF Client
<1>7. CASE UNCHANGED vars
  <2>1. /\ slot' = slot /\ conn' = conn /\ queue' = queue /\ job' = job /\ up' = up /\ path' = path
    BY <1>7 DEF vars
  <2>2. S' = S
    BY <2>1 DEF S
  <2>3. QED
    BY <2>1, <2>2 DEF IInv, Line, Batch
<1>8. QED
  BY <1>1, <1>2, <1>3, <1>4, <1>5, <1>6, <1>7 DEF Next

(* The inductive invariant: every slot in use has one open connection and  *)
(* the other way round, its streams are what was promised and its requests *)
(* are numbered on; the others wait in the line of listen, once each, or   *)
(* have ended with a prefix of what they were promised.                    *)
THEOREM Invariance == Spec => []IInv
<1>1. Init => IInv
  BY InitIInv
<1>2. IInv /\ [Next]_vars => IInv'
  BY NextIInv
<1>3. QED
  BY <1>1, <1>2, PTL DEF Spec

-----------------------------------------------------------------------------
(* What it says.                                                           *)

(* Where a connection stands. *)
LEMMA Standing ==
    ASSUME IInv, NEW c \in Conn
    PROVE  \/ Unserved(conn[c])
           \/ \E i \in Slots : /\ Linked(S, i, c) /\ SlotOf(S, c) = i
                               /\ Served([sl |-> slot[i], co |-> conn[c]])
<1>1. Good(S)
  BY DEF IInv
<1>2. SUFFICES ASSUME NEW i \in Slots, Linked(S, i, c)
               PROVE  SlotOf(S, c) = i /\ Served([sl |-> slot[i], co |-> conn[c]])
  BY <1>1, SFacts DEF Good
<1>3. SlotOf(S, c) = i
  BY <1>1, <1>2, AtFacts
<1>4. Served(LinkAt(S, i, c))
  BY <1>1, <1>2 DEF Good
<1>5. QED
  BY <1>3, <1>4, SFacts DEF LinkAt

(* The buffers of a slot and of the kernel, the line and the batch keep    *)
(* their bounds (uds_server.c, 169-220).                                   *)
THEOREM TypeCorrect == Spec => []TypeOK
<1>1. IInv => TypeOK
  <2> SUFFICES ASSUME IInv
               PROVE  TypeOK
    OBVIOUS
  <2>1. ASSUME NEW i \in Slots
        PROVE  SlotOk(slot[i])
    <3>1. slot[i] = FreeSlot \/ \E c \in Conn : Linked(S, i, c)
      BY SFacts DEF IInv, Good
    <3>2. CASE slot[i] = FreeSlot
      BY <3>2, FreeSlotOk
    <3>3. CASE \E c \in Conn : Linked(S, i, c)
      <4>1. PICK c \in Conn : Linked(S, i, c)
        BY <3>3
      <4>2. Served(LinkAt(S, i, c))
        BY <4>1 DEF IInv, Good
      <4>3. QED
        BY <4>2, SFacts DEF Served, LinkOk, LinkAt
    <3>4. QED
      BY <3>1, <3>2, <3>3
  <2>2. ASSUME NEW c \in Conn
        PROVE  conn[c] \in ConnType /\ Len(conn[c].inq) <= SockBuf /\ Len(conn[c].outq) <= SockBuf
    <3>1. CASE conn[c] = FreeConn
      <4>1. Len(<<>>) = 0
        BY EmptySeq
      <4>2. FreeConn.inq = <<>> /\ FreeConn.outq = <<>>
        BY DEF FreeConn
      <4>3. QED
        BY <3>1, <4>1, <4>2, FreeConnType, SizeFacts
    <3>2. CASE ConnOk(conn[c])
      BY <3>2 DEF ConnOk
    <3>3. QED
      BY <3>1, <3>2, Standing DEF Unserved, Ended, Queued, Served, LinkOk
  <2>3. Len(queue) <= Backlog /\ job.at \in 0..Accepting
    BY DEF IInv, Line, Batch
  <2>4. up \in BOOLEAN /\ path \in {"free", "ours", "stale"}
    BY DEF IInv
  <2>5. \A i \in Slots : slot[i].fd \in {NoFd} \cup Fds /\ slot[i].topics \subseteq Topic
    BY <2>1 DEF SlotOk, SlotType
  <2>6. \A i \in Slots : Len(slot[i].rbuf) <= ReadBuf /\ Len(slot[i].wbuf) <= WriteBuf /\ slot[i].wpos <= Len(slot[i].wbuf)
    BY <2>1 DEF SlotOk
  <2>7. \A c \in Conn : conn[c].cl \in {"new", "open", "closed"} /\ conn[c].sv \in {"none", "queued", "open", "closed"}
    BY <2>2 DEF ConnType
  <2>8. QED
    BY <2>2, <2>3, <2>4, <2>5, <2>6, <2>7 DEF TypeOK
<1>2. QED
  BY <1>1, Invariance, PTL

(* No descriptor is lost and none is shared: a slot in use has one open    *)
(* connection, which is in no other (accept, epoll_ctl's failure, close    *)
(* and the death of the process; uds_server.c, 131-145 and 414-458).       *)
THEOREM EveryClientOneSlot == Spec => []SlotsMatch
<1>1. IInv => SlotsMatch
  <2> SUFFICES ASSUME IInv
               PROVE  SlotsMatch
    OBVIOUS
  <2>1. Good(S)
    BY DEF IInv
  <2>2. ASSUME NEW i \in Slots, NEW c \in Conn, Linked(S, i, c)
        PROVE  /\ conn[c].fd # NoFd
               /\ {j \in Slots : slot[j].fd = conn[c].fd} = {i}
               /\ {d \in Conn : conn[d].sv = "open" /\ conn[d].fd = slot[i].fd} = {c}
    <3>1. /\ \A j \in Slots : Linked(S, j, c) => j = i
          /\ \A d \in Conn : Linked(S, i, d) => d = c
      BY <2>1, <2>2 DEF Good
    <3>2. slot[i].fd # NoFd /\ conn[c].sv = "open" /\ conn[c].fd = slot[i].fd
      BY <2>2, SFacts DEF Linked
    <3>3. \A j \in Slots : slot[j].fd = conn[c].fd <=> j = i
      BY <3>1, <3>2, SFacts DEF Linked
    <3>4. \A d \in Conn : conn[d].sv = "open" /\ conn[d].fd = slot[i].fd <=> d = c
      BY <3>1, <3>2, SFacts DEF Linked
    <3>5. QED
      BY <3>2, <3>3, <3>4
  <2>3. \A x : Cardinality({x}) = 1
    BY FS_Singleton
  <2>4. ASSUME NEW c \in Conn, conn[c].sv = "open"
        PROVE  conn[c].fd # NoFd /\ Cardinality({i \in Slots : slot[i].fd = conn[c].fd}) = 1
    <3>1. PICK i \in Slots : Linked(S, i, c)
      BY <2>1, <2>4, GoodFacts, SFacts
    <3>2. QED
      BY <2>2, <2>3, <3>1
  <2>5. ASSUME NEW i \in Slots, slot[i].fd # NoFd
        PROVE  Cardinality({c \in Conn : conn[c].sv = "open" /\ conn[c].fd = slot[i].fd}) = 1
    <3>1. PICK c \in Conn : Linked(S, i, c)
      BY <2>1, <2>5, GoodFacts, SFacts
    <3>2. QED
      BY <2>2, <2>3, <3>1
  <2>6. QED
    BY <2>4, <2>5 DEF SlotsMatch
<1>2. QED
  BY <1>1, Invariance, PTL

(* The streams are never out of step: a client reads what it was promised, *)
(* in order and nothing missing, though writes stop halfway at any cell    *)
(* and notifications come between replies (uds_server.c, 147-197, 527-555).*)
THEOREM StreamsCarryPromises == Spec => []StreamIsPromised
<1>1. IInv => StreamIsPromised
  <2> SUFFICES ASSUME IInv, NEW c \in Conn, conn[c].cl = "open"
               PROVE  IF conn[c].sv = "open" THEN conn[c].owed = conn[c].outq \o Unsent(slot[SlotOf(S, c)])
                      ELSE \E n \in 0..Len(conn[c].owed) : conn[c].outq = Take(conn[c].owed, n)
    BY DEF StreamIsPromised
  <2>1. CASE Ended(conn[c])
    BY <2>1 DEF Ended, Prefix
  <2>2. CASE Queued(conn[c])
    <3>1. <<>> \in Seq(AnswerCell) /\ <<>> \o <<>> = <<>>
      BY EmptySeq, ConcatEmptySeq
    <3>2. Prefix(<<>>, <<>>)
      BY <3>1, PrefixIsPart
    <3>3. conn[c].sv = "queued" /\ Prefix(conn[c].outq, conn[c].owed)
      BY <2>2, <3>2 DEF Queued
    <3>4. QED
      BY <3>3 DEF Prefix
  <2>3. CASE \E i \in Slots : /\ Linked(S, i, c) /\ SlotOf(S, c) = i
                              /\ Served([sl |-> slot[i], co |-> conn[c]])
    BY <2>3 DEF Served, Pending
  <2>4. QED
    BY <2>1, <2>2, <2>3, Standing, FreeConnType DEF Unserved
<1>2. QED
  BY <1>1, Invariance, PTL

(* Replies that fit in a frame come in the order of the requests, one for  *)
(* each: a request without its answer is still to be read, or its answer   *)
(* is under way, and not both (uds_server.c, 199-262).  A longer reply is  *)
(* dropped by send_frame, which the hypothesis rules out.                  *)
THEOREM AnswersFollowRequests ==
    ASSUME ReplySize \subseteq 0..MaxFrame
    PROVE  Spec => []AnsweredInOrder
<1>1. IInv => AnsweredInOrder
  <2> SUFFICES ASSUME IInv, NEW c \in Conn, conn[c].cl = "open"
               PROVE  \E h \in conn[c].answered..conn[c].sent :
                         /\ Numbered(conn[c].owed, "reply", conn[c].answered, h)
                         /\ conn[c].sv # "closed" => Numbered(Unread(c), "request", h, conn[c].sent)
    BY DEF AnsweredInOrder
  <2>1. Fits
    BY DEF Fits
  <2>2. CASE Ended(conn[c])
    BY <2>1, <2>2 DEF Ended, Answering
  <2>3. CASE Queued(conn[c])
    <3>1. /\ conn[c] \in ConnType /\ conn[c].sv = "queued"
          /\ Asking(conn[c].inq \o conn[c].left, 0, conn[c].sent)
      BY <2>3 DEF Queued, ConnOk
    <3>2. Answering(conn[c], 0)
      BY <2>3, <3>1, NothingOwed DEF Queued, ConnType
    <3>3. Unread(c) = conn[c].inq \o conn[c].left
      <4>1. <<>> \o conn[c].inq = conn[c].inq
        BY <3>1, ConcatEmptySeq DEF ConnType
      <4>2. QED
        BY <3>1, <4>1 DEF Unread
    <3>4. QED
      BY <3>1, <3>2, <3>3 DEF Answering, Asking
  <2>4. CASE \E i \in Slots : /\ Linked(S, i, c) /\ SlotOf(S, c) = i
                              /\ Served([sl |-> slot[i], co |-> conn[c]])
    <3>1. PICK i \in Slots : SlotOf(S, c) = i /\ Served([sl |-> slot[i], co |-> conn[c]])
      BY <2>4
    <3>2. PICK h \in Nat : /\ Answering(conn[c], h)
                           /\ Asking(Requests([sl |-> slot[i], co |-> conn[c]]), h, conn[c].sent)
      BY <2>1, <3>1 DEF Served
    <3>3. Unread(c) = Requests([sl |-> slot[i], co |-> conn[c]])
      BY <3>1 DEF Unread, Requests, Served
    <3>4. QED
      BY <3>2, <3>3 DEF Answering, Asking
  <2>5. QED
    BY <2>2, <2>3, <2>4, Standing, FreeConnType DEF Unserved
<1>2. QED
  BY <1>1, Invariance, PTL
=============================================================================

----------------------------- MODULE UdsServer -----------------------------
(***************************************************************************)
(* The UNIX socket server of the control bus: client slots, framing, write *)
(* buffering and subscriptions, between the kernel's socket queues and     *)
(* clients that connect, talk, stall and hang up as they please.           *)
(* A byte stream is a sequence of cells <<frame, i>>: cell 0 is the length *)
(* prefix (taken to arrive whole), cells 1..size the body.  JSON is left   *)
(* out; the request handler answers at once and may subscribe its client   *)
(* or change state that is announced to subscribers.                       *)
(***************************************************************************)
EXTENDS Naturals, Sequences, FiniteSets

CONSTANTS
    Conn,          \* connections; one that both ends closed may be made anew
    Foreign,       \* those of another user
    Topic,
    Request,       \* [op, topics, size]: what a client may ask
    ReplySize,     \* sizes of replies and notifications
    MaxRequests,   \* bound: the requests of each connection
    MaxNotes,      \* bound: notifications no request caused
    Backlog,       \* TYPIO_UDS_BACKLOG
    MaxClients,    \* TYPIO_UDS_MAX_CLIENTS
    ReadBuf, WriteBuf, MaxFrame,   \* in cells
    SockBuf,       \* the kernel's buffer of each direction, in cells
    Faults         \* which of "start", "epoll", "kill" occur

ASSUME SizeAssumption ==
    /\ {Backlog, MaxClients, ReadBuf, WriteBuf, SockBuf} \subseteq Nat \ {0}
    /\ ReplySize \subseteq Nat /\ {MaxFrame, MaxNotes} \subseteq Nat /\ MaxRequests \in [Conn -> Nat]
ASSUME RequestAssumption ==
    \A r \in Request : /\ r.op \in {"act", "subscribe", "call"} /\ r.size \in Nat
                       /\ r.topics \subseteq Topic /\ (r.op = "act" => r.topics # {})
ASSUME FaultAssumption == Faults \subseteq {"start", "epoll", "kill"}

Shutdown == "daemon.shuttingDown"
NoFd == 0                    \* -1 in the code
Listener == 0                \* the listening descriptor, as an epoll event
Fds == 1..(MaxClients + 1)
Slots == 1..MaxClients
Accepting == MaxClients + 1  \* what is being done, if no slot is being parsed

(* A frame is a request, [kind, id, of, size], a reply, [kind, id, size],  *)
(* or a note, [kind, topic, size].                                         *)
Cells(f) == [i \in 1..(f.size + 1) |-> <<f, i - 1>>]
Take(q, n) == SubSeq(q, 1, n)
Drop(q, n) == SubSeq(q, n + 1, Len(q))
Least(a, b) == IF a < b THEN a ELSE b
Lowest(ns) == CHOOSE n \in ns : \A m \in ns : n <= m

VARIABLES
    slot,    \* srv->clients
    conn,    \* the two ends of each connection and the kernel's queues between
    queue,   \* connections the kernel holds for accept
    job,     \* the epoll batch: events left, and the slot being parsed (or 0)
    up,      \* the server exists
    path,    \* the socket path: "free", "ours", "stale"
    notes    \* notifications no request caused

vars == <<slot, conn, queue, job, up, path, notes>>

FreeSlot == [fd |-> NoFd, wild |-> FALSE, topics |-> {}, rbuf |-> <<>>, wbuf |-> <<>>, wpos |-> 0]
FreeConn == [cl |-> "new", sv |-> "none", fd |-> NoFd, inq |-> <<>>, outq |-> <<>>,
             sent |-> 0, left |-> <<>>, owed |-> <<>>, answered |-> 0, asked |-> {}]
Rest == [todo |-> {}, at |-> 0]

TypeOK ==
    /\ \A i \in Slots : /\ slot[i].fd \in {NoFd} \cup Fds /\ slot[i].topics \subseteq Topic
                        /\ Len(slot[i].rbuf) <= ReadBuf /\ Len(slot[i].wbuf) <= WriteBuf
                        /\ slot[i].wpos <= Len(slot[i].wbuf)
    /\ \A c \in Conn : /\ conn[c].cl \in {"new", "open", "closed"}
                       /\ conn[c].sv \in {"none", "queued", "open", "closed"}
                       /\ Len(conn[c].inq) <= SockBuf /\ Len(conn[c].outq) <= SockBuf
    /\ Len(queue) <= Backlog /\ job.at \in 0..Accepting
    /\ up \in BOOLEAN /\ path \in {"free", "ours", "stale"}

Init ==
    /\ slot = [i \in Slots |-> FreeSlot] /\ conn = [c \in Conn |-> FreeConn]
    /\ queue = <<>> /\ job = Rest /\ up = FALSE /\ path = "free" /\ notes = 0

(***************************************************************************)
(* The helpers for one client, as operators on l = [sl, co]: its slot and  *)
(* the connection behind it.                                               *)
(***************************************************************************)
Closed(sl) == sl.fd = NoFd
HungUp(co) == [co EXCEPT !.sv = "closed", !.inq = <<>>, !.fd = NoFd]

CloseClientKeepingSubscription(l) ==
    [sl |-> [FreeSlot EXCEPT !.wild = l.sl.wild, !.topics = l.sl.topics], co |-> HungUp(l.co)]
CloseClient(l) == [sl |-> FreeSlot, co |-> HungUp(l.co)]

(* send: as much as the socket takes, EPIPE when the peer has closed.  The *)
(* buffer starts over only when all of it was sent.                        *)
ClientWrite(l) ==
    LET unsent == Drop(l.sl.wbuf, l.sl.wpos)
        n == Least(SockBuf - Len(l.co.outq), Len(unsent))
        out == [l EXCEPT !.co.outq = @ \o Take(unsent, n)]
    IN  IF unsent = <<>> THEN l
        ELSE IF l.co.cl = "closed" THEN CloseClient(l)
        ELSE IF n < Len(unsent) THEN [out EXCEPT !.sl.wpos = @ + n]
        ELSE [out EXCEPT !.sl.wpos = 0, !.sl.wbuf = <<>>]

ClientEnqueueUnchecked(l, cells) == ClientWrite([l EXCEPT !.sl.wbuf = @ \o cells])
ClientEnqueue(l, cells) ==
    IF Len(l.sl.wbuf) + Len(cells) > WriteBuf THEN CloseClient(l)
    ELSE ClientWrite([l EXCEPT !.sl.wbuf = @ \o cells])

(* The prefix, then the body, each sent at once.                           *)
ClientSendFrame(l, f) ==
    IF f.size > MaxFrame THEN l
    ELSE LET head == ClientEnqueue(l, Take(Cells(f), 1))
         IN  IF Closed(head.sl) THEN head ELSE ClientEnqueue(head, Drop(Cells(f), 1))

(* owed: what the protocol has promised a connection and its client has    *)
(* not read.                                                               *)
Promise(co, f) ==
    IF co.cl = "open" /\ f.size <= MaxFrame THEN [co EXCEPT !.owed = @ \o Cells(f)] ELSE co
Answer(l, f) == ClientSendFrame([l EXCEPT !.co = Promise(@, f)], f)

(* No topics stand for all of them.  asked is the client's own record.     *)
Subscribe(l, ts) ==
    [l EXCEPT !.sl.wild = (ts = {}), !.sl.topics = ts,
              !.co.asked = IF ts = {} THEN Topic \cup {Shutdown} ELSE ts]

ClientMatchesTopic(sl, t) == sl.wild \/ t \in sl.topics
Notify(l, f) ==
    LET promised == [l EXCEPT !.co = IF f.topic \in l.co.asked THEN Promise(@, f) ELSE @]
    IN  IF ClientMatchesTopic(l.sl, f.topic) THEN ClientSendFrame(promised, f) ELSE promised

(***************************************************************************)
(* The server, as operators on s = [slot, conn].                           *)
(***************************************************************************)
ConnOf(s, i) == CHOOSE c \in Conn : s.conn[c].sv = "open" /\ s.conn[c].fd = s.slot[i].fd
SlotOf(s, c) == CHOOSE i \in Slots : s.slot[i].fd = s.conn[c].fd
At(s, i) == [sl |-> s.slot[i], co |-> s.conn[ConnOf(s, i)]]
Put(s, i, l) == [s EXCEPT !.slot[i] = l.sl, !.conn[ConnOf(s, i)] = l.co]

(* One client after the other; what is sent to one is no concern of the    *)
(* next.                                                                   *)
Emit(s, t, z) ==
    LET f == [kind |-> "note", topic |-> t, size |-> z]
    IN  [slot |-> [i \in Slots |-> IF Closed(s.slot[i]) THEN s.slot[i] ELSE Notify(At(s, i), f).sl],
         conn |-> [c \in Conn |-> IF s.conn[c].sv = "open" THEN Notify(At(s, SlotOf(s, c)), f).co
                                                           ELSE s.conn[c]]]

(* The handler: announce a change, or subscribe; then the reply.           *)
Handle(s, i, f, z) ==
    LET did == IF f.of.op = "act" THEN Emit(s, CHOOSE t \in f.of.topics : TRUE, z)
               ELSE IF f.of.op = "subscribe" THEN Put(s, i, Subscribe(At(s, i), f.of.topics)) ELSE s
    IN  IF Closed(did.slot[i]) THEN did
        ELSE Put(did, i, Answer(At(did, i), [kind |-> "reply", id |-> f.id, size |-> z]))

ConsumeNothing(s, i, f) == s
Consume(s, i, f) == [s EXCEPT !.slot[i].rbuf = Drop(@, f.size + 1)]

(***************************************************************************)
(* The server's steps.                                                     *)
(***************************************************************************)
S == [slot |-> slot, conn |-> conn]
Set(e) == \E s \in {e} : slot' = s.slot /\ conn' = s.conn
Idle == job = Rest

AllClosed(cs) == [c \in Conn |-> IF cs[c].sv = "none" THEN cs[c] ELSE HungUp(cs[c])]

(* The process is gone: every descriptor closes, the socket file stays.    *)
Die(cs) ==
    /\ slot' = [i \in Slots |-> FreeSlot] /\ conn' = AllClosed(cs)
    /\ queue' = <<>> /\ job' = Rest /\ up' = FALSE /\ path' = "stale"
    /\ UNCHANGED notes

Kill == "kill" \in Faults /\ up /\ Die(conn)

(* typio_uds_server_new: a socket file nobody answers on is removed first; *)
(* a failure destroys the half-made server, and the file with it.          *)
ServerNew ==
    /\ ~up /\ path # "ours"
    /\ \E ok \in IF "start" \in Faults THEN BOOLEAN ELSE {TRUE} :
          up' = ok /\ path' = IF ok THEN "ours" ELSE "free"
    /\ UNCHANGED <<slot, conn, queue, job, notes>>

(* typio_ipc_bus_destroy: announce, then close every client and the file.  *)
Destroy ==
    /\ up /\ Idle
    /\ \E z \in ReplySize : conn' = AllClosed(Emit(S, Shutdown, z).conn)
    /\ slot' = [i \in Slots |-> FreeSlot]
    /\ queue' = <<>> /\ up' = FALSE /\ path' = "free"
    /\ UNCHANGED <<job, notes>>

(* A change outside a request, such as an engine chosen by a shortcut.     *)
Announce ==
    /\ up /\ Idle /\ notes < MaxNotes /\ notes' = notes + 1
    /\ \E t \in Topic, z \in ReplySize : Set(Emit(S, t, z))
    /\ UNCHANGED <<queue, job, up, path>>

(* epoll_wait: which descriptors are ready, and which have hung up, now.   *)
Incoming == [fd |-> Listener, hup |-> FALSE]
Ready ==
    (IF queue # <<>> THEN {Incoming} ELSE {})
    \cup {[fd |-> conn[c].fd, hup |-> conn[c].cl = "closed"] :
             c \in {d \in Conn : conn[d].sv = "open" /\ (conn[d].inq # <<>> \/ conn[d].cl = "closed")}}

EpollWait ==
    /\ up /\ Idle /\ Ready # {}
    /\ job' = [todo |-> Ready, at |-> 0]
    /\ UNCHANGED <<slot, conn, queue, up, path, notes>>

(* The listener's event: accept until none is left, those included that    *)
(* come meanwhile.                                                         *)
DispatchListener ==
    /\ up /\ job.at = 0 /\ Incoming \in job.todo
    /\ job' = [todo |-> job.todo \ {Incoming}, at |-> Accepting]
    /\ UNCHANGED <<slot, conn, queue, up, path, notes>>

RefuseWithoutClosing(co) == [co EXCEPT !.sv = "open"]
Refuse(co) == [co EXCEPT !.sv = "closed", !.inq = <<>>]

(* A slot is set afresh but for its subscription.  epoll_ctl may fail.     *)
Accept ==
    /\ up /\ job.at = Accepting /\ queue # <<>>
    /\ queue' = Tail(queue)
    /\ LET c == Head(queue)
           free == {i \in Slots : Closed(slot[i])}
           i == Lowest(free)
           fd == Lowest(Fds \ {slot[j].fd : j \in Slots})
           l == [sl |-> [slot[i] EXCEPT !.fd = fd, !.rbuf = <<>>, !.wbuf = <<>>, !.wpos = 0],
                 co |-> [conn[c] EXCEPT !.sv = "open", !.fd = fd]]
       IN  \/ /\ c \in Foreign \/ free = {}
              /\ conn' = [conn EXCEPT ![c] = Refuse(@)] /\ UNCHANGED slot
           \/ /\ c \notin Foreign /\ free # {}
              /\ \E ok \in IF "epoll" \in Faults THEN BOOLEAN ELSE {TRUE} :
                    /\ slot' = [slot EXCEPT ![i] = (IF ok THEN l ELSE CloseClient(l)).sl]
                    /\ conn' = [conn EXCEPT ![c] = (IF ok THEN l ELSE CloseClient(l)).co]
    /\ UNCHANGED <<job, up, path, notes>>

AcceptEnd ==
    /\ up /\ job.at = Accepting /\ queue = <<>>
    /\ job' = [job EXCEPT !.at = 0]
    /\ UNCHANGED <<slot, conn, queue, up, path, notes>>

(* What is left of an event once its frames are parsed: the drain.         *)
Drain(l) == ClientWrite(l)

(* A client's event.  recv reads what fits; 0 bytes, be it for the end of  *)
(* the stream or for want of room, close.                                  *)
DispatchClient ==
    /\ up /\ job.at = 0
    /\ \E e \in job.todo \ {Incoming} :
          LET mine == {i \in Slots : slot[i].fd = e.fd}
              i == Lowest(mine)
              c == ConnOf(S, i)
              n == Least(Len(conn[c].inq), ReadBuf - Len(slot[i].rbuf))
              again == conn[c].inq = <<>> /\ conn[c].cl = "open" /\ Len(slot[i].rbuf) < ReadBuf
              rest == job.todo \ {e}
          IN  \/ /\ mine = {} /\ job' = [job EXCEPT !.todo = rest]
                 /\ UNCHANGED <<slot, conn>>
              \/ /\ mine # {} /\ e.hup
                 /\ job' = [job EXCEPT !.todo = rest] /\ Set(Put(S, i, CloseClient(At(S, i))))
              \/ /\ mine # {} /\ ~e.hup /\ n = 0
                 /\ job' = [job EXCEPT !.todo = rest]
                 /\ Set(Put(S, i, IF again THEN Drain(At(S, i)) ELSE CloseClient(At(S, i))))
              \/ /\ mine # {} /\ ~e.hup /\ n > 0
                 /\ job' = [todo |-> rest, at |-> i]
                 /\ slot' = [slot EXCEPT ![i].rbuf = @ \o Take(conn[c].inq, n)]
                 /\ conn' = [conn EXCEPT ![c].inq = Drop(@, n)]
    /\ UNCHANGED <<queue, up, path, notes>>

(* One turn of the loop over the read buffer: nothing complete is left, a  *)
(* prefix over the limit, or a frame.  When answering it closed the slot,  *)
(* the turn ends with memmove of (0 - 4) bytes: the process is gone.       *)
Parsing == up /\ job.at \in Slots
Buffer == slot[job.at].rbuf
Oversized == Buffer # <<>> /\ Buffer[1][1].size > MaxFrame
Complete == Buffer # <<>> /\ Len(Buffer) > Buffer[1][1].size

ParseEnd ==
    /\ Parsing /\ (Oversized \/ ~Complete)
    /\ job' = [job EXCEPT !.at = 0]
    /\ LET l == At(S, job.at) IN Set(Put(S, job.at, IF Oversized THEN CloseClient(l) ELSE Drain(l)))
    /\ UNCHANGED <<queue, up, path, notes>>

ParseFrame ==
    /\ Parsing /\ ~Oversized /\ Complete
    /\ \E z \in ReplySize :
       LET f == Buffer[1][1]
       IN \E s \in {Handle(S, job.at, f, z)} :
              IF Closed(s.slot[job.at]) THEN Die(s.conn)
              ELSE Set(Consume(s, job.at, f)) /\ UNCHANGED <<queue, job, up, path, notes>>

(***************************************************************************)
(* The clients.                                                            *)
(***************************************************************************)
Connect(c) ==
    /\ up /\ Len(queue) < Backlog
    /\ conn[c].cl = "new" \/ (conn[c].cl = "closed" /\ conn[c].sv = "closed")
    /\ conn' = [conn EXCEPT ![c] = [FreeConn EXCEPT !.cl = "open", !.sv = "queued"]]
    /\ queue' = Append(queue, c)
    /\ UNCHANGED <<slot, job, up, path, notes>>

(* The next cell of a request; pending is what the client has yet to write *)
(* of the one it is in.                                                    *)
Send(c) ==
    /\ conn[c].cl = "open" /\ conn[c].sv # "closed" /\ Len(conn[c].inq) < SockBuf
    /\ \/ /\ conn[c].left # <<>>
          /\ conn' = [conn EXCEPT ![c].inq = Append(@, Head(conn[c].left)), ![c].left = Tail(@)]
       \/ /\ conn[c].left = <<>> /\ conn[c].sent < MaxRequests[c]
          /\ \E r \in Request :
                LET f == [kind |-> "request", id |-> conn[c].sent + 1, of |-> r, size |-> r.size]
                IN  conn' = [conn EXCEPT ![c].sent = @ + 1, ![c].left = Tail(Cells(f)),
                                         ![c].inq = Append(@, Head(Cells(f)))]
    /\ UNCHANGED <<slot, queue, job, up, path, notes>>

(* What is read is no longer owed.                                         *)
EndsReply(cell) == cell[1].kind = "reply" /\ cell[2] = cell[1].size
Receive(c) ==
    /\ conn[c].cl = "open" /\ conn[c].outq # <<>>
    /\ conn' = [conn EXCEPT ![c].outq = Tail(@), ![c].owed = Drop(@, 1),
                            ![c].answered = @ + (IF conn[c].owed # <<>> /\ EndsReply(conn[c].owed[1]) THEN 1 ELSE 0)]
    /\ UNCHANGED <<slot, queue, job, up, path, notes>>

HangUp(c) ==
    /\ conn[c].cl = "open"
    /\ conn' = [conn EXCEPT ![c] = [@ EXCEPT !.cl = "closed", !.outq = <<>>, !.left = <<>>,
                                              !.owed = <<>>, !.asked = {}]]
    /\ UNCHANGED <<slot, queue, job, up, path, notes>>

Server == EpollWait \/ DispatchListener \/ Accept \/ AcceptEnd \/ DispatchClient \/ ParseEnd \/ ParseFrame
Client(c) == Connect(c) \/ Send(c) \/ Receive(c) \/ HangUp(c)
Next == Server \/ ServerNew \/ Destroy \/ Announce \/ Kill \/ \E c \in Conn : Client(c)

(* The event loop always gets back to the bus: WF_vars(Server), with its   *)
(* ENABLED written out.  A client owes nothing,                            *)
Fair ==
    LET ready == up /\ (~Idle \/ Ready # {})
    IN  []<>~ready \/ []<><<Server>>_vars
Spec == Init /\ [][Next]_vars /\ Fair

(* except, here, to write the request it began and to read what it gets.   *)
PatientSpec == Spec /\ \A c \in Conn : WF_vars(Receive(c)) /\ WF_vars(conn[c].left # <<>> /\ Send(c))

(***************************************************************************)
(* Properties.                                                             *)
(***************************************************************************)
(* What the kernel holds for a client and what its slot has yet to send    *)
(* are, in this order and nothing missing or doubled, what it was promised *)
(* and has not read: replies to its own requests and notes on the topics   *)
(* it asked for.  A connection the server closed ends early.               *)
Unsent(sl) == Drop(sl.wbuf, sl.wpos)
StreamIsPromised ==
    \A c \in Conn : conn[c].cl = "open" =>
       IF conn[c].sv = "open" THEN conn[c].owed = conn[c].outq \o Unsent(slot[SlotOf(S, c)])
       ELSE \E n \in 0..Len(conn[c].owed) : conn[c].outq = Take(conn[c].owed, n)

(* The frames of a kind that end in q are numbered from lo + 1 to hi.      *)
Ends(q, kind) == {i \in 1..Len(q) : q[i][1].kind = kind /\ q[i][2] = q[i][1].size}
Numbered(q, kind, lo, hi) ==
    /\ {q[i][1].id : i \in Ends(q, kind)} = (lo + 1)..hi
    /\ \A i, j \in Ends(q, kind) : i < j => q[i][1].id < q[j][1].id

(* A client's requests are answered once each, in the order it made them,  *)
(* also when several arrive in one read or one in several: a request it    *)
(* has no answer to is owed one or is still to be read, and not both.      *)
Unread(c) ==
    (IF conn[c].sv = "open" THEN slot[SlotOf(S, c)].rbuf ELSE <<>>) \o conn[c].inq \o conn[c].left
AnsweredInOrder ==
    \A c \in Conn : conn[c].cl = "open" =>
       \E h \in conn[c].answered..conn[c].sent :
          /\ Numbered(conn[c].owed, "reply", conn[c].answered, h)
          /\ conn[c].sv # "closed" => Numbered(Unread(c), "request", h, conn[c].sent)

(* No descriptor is lost: the connections the server holds open are those  *)
(* of its slots, one each.                                                 *)
SlotsMatch ==
    /\ \A c \in Conn : conn[c].sv = "open" =>
          conn[c].fd # NoFd /\ Cardinality({i \in Slots : slot[i].fd = conn[c].fd}) = 1
    /\ \A i \in Slots : slot[i].fd # NoFd =>
          Cardinality({c \in Conn : conn[c].sv = "open" /\ conn[c].fd = slot[i].fd}) = 1

(* Frames of up to MaxFrame are legal: while the server runs, such a       *)
(* request is answered, if its client stays and reads.                     *)
LegalIsAnswered ==
    \A c \in Conn :
       conn[c].sent = 1 /\ conn[c].left = <<>>
          ~> conn[c].answered = 1 \/ conn[c].cl = "closed" \/ ~up
=============================================================================

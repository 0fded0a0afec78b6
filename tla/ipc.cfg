SPECIFICATION Spec
CONSTANTS
    Talker = Talker
    Caller = Caller
    Guest = Guest
    Conn = {Talker, Caller, Guest}
    Foreign = {}
    Topic = {"t"}
    Request <- SmallRequests
    ReplySize = {1}
    MaxRequests <- TwoOneNone
    MaxNotes = 1
    Backlog = 1
    MaxClients = 2
    ReadBuf = 2
    WriteBuf = 3
    MaxFrame = 3
    SockBuf = 1
    Faults = {"start", "epoll", "kill"}
INVARIANT TypeOK StreamIsPromised AnsweredInOrder SlotsMatch
CHECK_DEADLOCK FALSE

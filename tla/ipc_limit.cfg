SPECIFICATION PatientSpec
CONSTANTS
    Talker = Talker
    Caller = Caller
    Guest = Guest
    Conn = {Caller}
    Foreign = {}
    Topic = {"t"}
    Request <- LegalRequests
    ReplySize = {1}
    MaxRequests <- TwoOneNone
    MaxNotes = 0
    Backlog = 1
    MaxClients = 1
    ReadBuf = 2
    WriteBuf = 4
    MaxFrame = 3
    SockBuf = 2
    Faults = {}
PROPERTY LegalIsAnswered
CHECK_DEADLOCK FALSE

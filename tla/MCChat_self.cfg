\* What a newcomer is told of its own arrival.
SPECIFICATION Spec
CONSTANTS
    c1 = c1  c2 = c2  c3 = c3
    a = a  b = b  d = d
    Client <- TwoClients
    Byte <- Bytes3
    Letter <- Letters2
    Line <- OneByte
    MaxLines = 2
    Window = 1
    Backlog = 1
    HistoryLen = 2
    InOrder = TRUE
    Faults = FALSE
    SplitReply = FALSE
    Fd <- ThreeFds
    Listener = 3
    FD_SETSIZE = 4
    BufSize = 2
    ReqRoom = 2
    NoClient = NoClient
    NoHistory = NoHistory
INVARIANT
    AnnouncedToOthers
CHECK_DEADLOCK FALSE

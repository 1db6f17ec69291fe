\* A name lookup may fail while a message is handled.
SPECIFICATION FairSpec
CONSTANTS
    c1 = c1  c2 = c2  c3 = c3
    a = a  b = b  d = d
    Client <- TwoClients
    Byte <- Bytes3
    Letter <- Letters2
    Line <- OneByte
    MaxLines = 1
    Window = 1
    Backlog = 1
    HistoryLen = 2
    InOrder = TRUE
    Faults = TRUE
    SplitReply = FALSE
    Fd <- ThreeFds
    Listener = 3
    FD_SETSIZE = 4
    BufSize = 2
    ReqRoom = 2
    NoClient = NoClient
    NoHistory = NoHistory
PROPERTY
    ReceivedIsForwarded
CHECK_DEADLOCK FALSE

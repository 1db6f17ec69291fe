\* Two clients, a web server that answers: what must happen in the end.
SPECIFICATION FairSpec
CONSTANTS
    c1 = c1  c2 = c2  c3 = c3
    a = a  b = b  d = d
    Client <- TwoClients
    Byte <- Bytes2
    Letter <- Letters1
    Line <- OneByte
    MaxLines = 2
    Window = 1
    Backlog = 1
    HistoryLen = 1
    InOrder = FALSE
    Faults = FALSE
    SplitReply = TRUE
    Fd <- ThreeFds
    Listener = 3
    FD_SETSIZE = 4
    BufSize = 2
    ReqRoom = 1
    NoClient = NoClient
    NoHistory = NoHistory
PROPERTIES
    EverythingRead
    NewcomersAdmitted
    HungUpReleased
CHECK_DEADLOCK FALSE

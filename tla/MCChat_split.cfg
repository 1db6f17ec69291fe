\* The history arrives in two packets.
SPECIFICATION Spec
CONSTANTS
    c1 = c1  c2 = c2  c3 = c3
    a = a  b = b  d = d
    Client <- TwoClients
    Byte <- Bytes3
    Letter <- Letters2
    Line <- OneByte
    MaxLines = 2
    Window = 1
    Backlog = 1
    HistoryLen = 2
    InOrder = TRUE
    Faults = FALSE
    SplitReply = TRUE
    Fd <- ThreeFds
    Listener = 3
    FD_SETSIZE = 4
    BufSize = 2
    ReqRoom = 2
    NoClient = NoClient
    NoHistory = NoHistory
INVARIANT
    WelcomeIsCurrent
CHECK_DEADLOCK FALSE

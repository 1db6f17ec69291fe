\* Two clients whose lines recv cuts anywhere; a web server that keeps order.
SPECIFICATION Spec
CONSTANTS
    c1 = c1  c2 = c2  c3 = c3
    a = a  b = b  d = d
    Client <- TwoClients
    Byte <- Bytes3
    Letter <- Letters2
    Line <- Lines
    MaxLines = 2
    Window = 1
    Backlog = 1
    HistoryLen = 2
    InOrder = TRUE
    Faults = FALSE
    SplitReply = FALSE
    Fd <- ThreeFds
    Listener = 3
    FD_SETSIZE = 4
    BufSize = 2
    ReqRoom = 2
    NoClient = NoClient
    NoHistory = NoHistory
SYMMETRY ClientSymmetry2
INVARIANT
    HistoryMeetsChat
    WelcomeIsCurrent
CHECK_DEADLOCK FALSE

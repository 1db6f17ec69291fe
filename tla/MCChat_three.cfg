\* Three clients and one message, no faults.
SPECIFICATION Spec
CONSTANTS
    c1 = c1  c2 = c2  c3 = c3
    a = a  b = b  d = d
    Client <- ThreeClients
    Byte <- Bytes2
    Letter <- Letters1
    Line <- OneByte
    MaxLines = 1
    Window = 1
    Backlog = 1
    HistoryLen = 1
    InOrder = TRUE
    Faults = FALSE
    SplitReply = FALSE
    Fd <- FourFds
    Listener = 3
    FD_SETSIZE = 5
    BufSize = 2
    ReqRoom = 2
    NoClient = NoClient
    NoHistory = NoHistory
SYMMETRY ClientSymmetry3
INVARIANTS
    MasterTracksSockets
    ReadyStaysReady
    NoEcho
PROPERTIES
    ImplementsChatRoom
    StillSelectServer
CHECK_DEADLOCK FALSE

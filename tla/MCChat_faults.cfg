\* Two clients; lookups, connects and recvs may fail, HTTP is split and reordered.
SPECIFICATION Spec
CONSTANTS
    c1 = c1  c2 = c2  c3 = c3
    a = a  b = b  d = d
    Client <- TwoClients
    Byte <- Bytes2
    Letter <- Letters1
    Line <- TwoBytes
    MaxLines = 2
    Window = 1
    Backlog = 1
    HistoryLen = 1
    InOrder = FALSE
    Faults = TRUE
    SplitReply = TRUE
    Fd <- ThreeFds
    Listener = 3
    FD_SETSIZE = 4
    BufSize = 2
    ReqRoom = 1
    NoClient = NoClient
    NoHistory = NoHistory
SYMMETRY ClientSymmetry2
INVARIANTS
    TypeOK
    MasterTracksSockets
    StoredOnce
    HistoryJoinsChat
    WelcomeIsFresh
PROPERTY
    ImplementsChatRoom
CHECK_DEADLOCK FALSE

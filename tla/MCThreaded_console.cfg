\* Two clients, messages and console lines of a few bytes.
SPECIFICATION Spec
CONSTANTS
    c1 = c1  c2 = c2
    Client <- MCClient
    Fd <- MCFd
    Listener = 0
    BufSize = 3
    LineLengths <- MCLineLengths
    MaxTyped = 2
    Console = Console
    NUL = NUL
    NoClient = NoClient
INVARIANT
    NeverToOurselves
CHECK_DEADLOCK FALSE

\* The short programs, three processes at a time, two addresses for each.
SPECIFICATION Spec
CONSTANTS
    p1 = p1  p2 = p2  p3 = p3
    a = a  b = b  d = d
    Proc <- Procs
    Cast <- Plays
    Addresses = 2
    Number <- Numbers
    Rounds = 2
    Byte <- Bytes
    Letter <- Letters
    NUL = NUL
    Message <- Messages
    Nobody = Nobody
INVARIANTS
    TypeOK
    NoSocketLeft
    FilterKeepsLetters
PROPERTIES
    ExchangeEnds
    AskerAnswered
CHECK_DEADLOCK FALSE

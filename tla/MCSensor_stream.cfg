\* Two senders, a lossy network that may deliver one datagram twice.
SPECIFICATION FairSpec
CONSTANTS
    s1 = s1  s2 = s2
    Sender <- MCSender
    Field <- OneField
    Value <- MCValue
    MaxNet = 2
    MaxDoubled = 1
    Loss = TRUE
    Amounts <- MCAmounts
    Timeouts <- MCTimeouts
    Garbage <- OneGarbage
    Lowest <- MCLowest
    Highest = 9
    NaN = NaN
    NoSender = NoSender
    BufferLines = 1
    Counts <- MCAmounts
INVARIANTS
    TypeOK
    RoundsCounted
    EveryPacketConfirmed
    PacketsOnRecord
    ExtremesEnclose
PROPERTIES
    SessionEnds
    SenderAnswered
CHECK_DEADLOCK FALSE

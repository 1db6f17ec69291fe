\* One sender, no faults: what is in receivedPackets.csv at the end.
SPECIFICATION Spec
CONSTANTS
    s1 = s1  s2 = s2
    Sender <- OneSender
    Field <- OneField
    Value <- MCValue
    MaxNet = 1
    MaxDoubled = 0
    Loss = FALSE
    Amounts <- MCAmounts
    Timeouts <- MCTimeouts
    Garbage <- MCGarbage
    Lowest <- MCLowest
    Highest = 9
    NaN = NaN
    NoSender = NoSender
    BufferLines = 1
    Counts <- MCAmounts
INVARIANT
    StreamOnRecord
CHECK_DEADLOCK FALSE

\* One sender, no faults: what the statistics are made of.
SPECIFICATION Spec
CONSTANTS
    s1 = s1  s2 = s2
    Sender <- OneSender
    Field <- OneField
    Value <- MCValue
    MaxNet = 1
    MaxDoubled = 0
    Loss = FALSE
    Amounts <- MCAmounts
    Timeouts <- MCTimeouts
    Garbage <- MCGarbage
    Lowest <- MCLowest
    Highest = 9
    NaN = NaN
    NoSender = NoSender
    BufferLines = 1
    Counts <- MCAmounts
INVARIANT
    StatisticsRight
CHECK_DEADLOCK FALSE

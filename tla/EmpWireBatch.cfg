SPECIFICATION WireSpec
CONSTANTS
    RingSize = 3
    BufSize = 2
    SockSize = 3
    LowWater = 1
    Typings <- OneTyping
    Batches <- TwoBatches
    MaxInterrupts = 1
    MaxBatches = 1
INVARIANT BatchEofKeepsSession
CHECK_DEADLOCK FALSE

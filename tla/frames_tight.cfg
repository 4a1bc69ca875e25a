SPECIFICATION FairSpec
CONSTANTS
    m1 = m1
    m2 = m2
    m3 = m3
    Corrupt = corrupt
    Size <- Sizes
    Message = {m1, m2, m3}
    HeaderLen = 1
    SendBuffer = 2
    Chunk = 2
    MaxPayload = 2
INVARIANT SentInOrder
INVARIANT DeliveredInOrder
PROPERTY Arrives
CHECK_DEADLOCK FALSE

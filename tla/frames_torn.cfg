SPECIFICATION Spec
CONSTANTS
    m1 = m1
    m2 = m2
    m3 = m3
    Corrupt = corrupt
    Size <- Sizes
    Message = {m1, m2}
    HeaderLen = 1
    SendBuffer = 2
    Chunk = 2
    MaxPayload = 3
INVARIANT FramesWhole
CHECK_DEADLOCK FALSE

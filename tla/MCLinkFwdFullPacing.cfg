SPECIFICATION Spec
CONSTANTS
    f1 = f1
    f2 = f2
    f3 = f3
    Frames = {f1, f2, f3}
    PayloadLen <- FullSize
    MaxQueuedBytes = 65536
    BitsPerMicrosecond = 100
    Microsecond = 1000
    Configs <- Pacing
    NoMatch = NoMatch
    Horizon = 1
INVARIANT PacedAtLinkRate
CHECK_DEADLOCK FALSE

SPECIFICATION FairSpec
CONSTANTS
    f1 = f1
    f2 = f2
    f3 = f3
    Frames = {f1, f2, f3}
    PayloadLen <- MCPayloadLen
    MaxQueuedBytes = 1
    BitsPerMicrosecond = 8
    Microsecond = 1
    Configs <- MCConfigs
    NoMatch = NoMatch
    Horizon = 1
INVARIANTS AccountingExact NeverEarly VerdictHonoured
PROPERTIES EarliestFirst ImplementsLossyLink EveryFrameSettles
CHECK_DEADLOCK FALSE

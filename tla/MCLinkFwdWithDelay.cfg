SPECIFICATION FairSpec
CONSTANTS
    Frames = {f1, f2, f3}
    OneWayDelay = 2
    InitialTimer = 4
    Horizon = 5
INVARIANTS TypeOK TimerArmed NeverEarly
PROPERTY ImplementsFifoLink
CHECK_DEADLOCK FALSE

SPECIFICATION PortSpec
CONSTANTS
    PortWriters = {w1, w2}
    MaxNotifications = 1
    MaxRouted = 3
INVARIANT DroppedIsGone
CHECK_DEADLOCK FALSE

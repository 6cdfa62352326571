SPECIFICATION Spec
CONSTANTS
    Closers = {c1, c2}
    RouterPorts = {"right"}
    MaxFrames = 2
    Wrapped = {"left"}
    ManyPackets = 1
PROPERTY DrainedWhenDone
CHECK_DEADLOCK FALSE

SPECIFICATION Spec
CONSTANTS
    Modes = {TRUE}
    ServerIP = "10.0.0.1"
    NameSets = {{}}
    Domain = "ndt0.local"
    MaxChunks = 2
    Window = 1
INVARIANT TLSRuns
CHECK_DEADLOCK FALSE

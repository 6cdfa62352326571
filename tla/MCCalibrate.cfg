SPECIFICATION FairSpec
CONSTANTS
    Modes = {TRUE, FALSE}
    ServerIP = "10.0.0.1"
    NameSets = {{}, {"ndt0.local"}}
    Domain = "ndt0.local"
    MaxChunks = 6
    Window = 3
INVARIANTS SamplesAddUp ErrorMeansNoResult
PROPERTIES EveryRunEnds
CHECK_DEADLOCK FALSE

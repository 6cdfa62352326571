SPECIFICATION FairSpec
CONSTANTS
    ReflectedTTL = 60
    SeqSpace = 8
    RandomSize = 2
    NotDNS = NotDNS
    NoMatch = NoMatch
    NoName = NoName
    BadAddress = BadAddress
    Canonical <- MCCanonical
    t1 = t1
    t2 = t2
    Threads = {t1, t2}
    Workloads <- MCWorkloads
    MaxSilence = 1
    MaxPackets = 3
INVARIANTS InspectionBudget OnlySilentFlowsForgotten RulesInForceApply
           SpoofedContinuesStream OnlyOffendingHelloDropped
PROPERTIES PolicySticks EveryInspectionReturns
CHECK_DEADLOCK FALSE

SPECIFICATION Spec
CONSTANTS
    ReflectedTTL = 60
    SeqSpace = 8
    RandomSize = 2
    NotDNS = NotDNS
    NoMatch = NoMatch
    NoName = NoName
    BadAddress = BadAddress
    Canonical <- MCCanonical
    t1 = t1
    t2 = t2
    Threads = {t1, t2}
    Workloads <- Collision
    MaxSilence = 1
    MaxPackets = 3
INVARIANT OneFlowPerRecord
CHECK_DEADLOCK FALSE

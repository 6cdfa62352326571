SPECIFICATION FairSpec
CONSTANTS
    c1 = c1
    c2 = c2
    Calls = {c1, c2}
    Dialers = {c2}
    Host <- MCHost
    HasDeadline = {c1}
    Cancellable = {c2}
    Ports = {1}
    Ids <- MCIds
    Canonical <- MCCanonical
    NoName = NoName
    Questions <- MCQuestions
    Literals = {"10.0.0.9"}
    Start <- MCStart
    Changes <- MCChanges
    BadAddress = BadAddress
    MaxChanges = 1
INVARIANTS LookupHonest
PROPERTIES ContextEndsTheCall RoundTripEnds
CHECK_DEADLOCK FALSE

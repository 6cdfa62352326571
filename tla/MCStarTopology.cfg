SPECIFICATION FairStarSpec
CONSTANTS
    ReflectedTTL = 2
    SeqSpace = 8
    NotDNS = NotDNS
    Ports <- MCPorts
    Peer <- MCPeer
    Frames <- MCFrames
    Routes <- MCRoutes
    Initial <- MCInitial
    NoPort = NoPort
    Unserializable <- MCUnserializable
    Wirings = {"hand", "star"}
    Offers <- MCOffers
INVARIANTS LifetimeSpent SpoofedBeforeReply
PROPERTIES EveryPacketLeaves ReachableOnceAdded EveryTopologyCloses
CHECK_DEADLOCK FALSE

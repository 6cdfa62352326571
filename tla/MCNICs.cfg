SPECIFICATION NICsFairSpec
CONSTANTS
    Writers = {w1, w2, w3}
    Injectors = {w1}
    QueueSize = 2
    ChanSize = 2
    Unreadable = {2}
    MaxPackets = 4
    PortWriters = {w1, w2, w3}
    MaxNotifications = 2
    MaxRouted = 4
    Closers = {c1, c2}
    RouterPorts = {"right"}
    MaxFrames = 2
    Wrapped = {"left"}
    ManyPackets = 1
INVARIANTS
    OneNoticePerPacket NotifyNeverBlocks
    OnlyDropsUnannounced PortReadInOrder
    CloseMeansStopped ForwardedInOrder CaptureFaithful
PROPERTIES
    EveryPacketRead CloseStopsEveryone AnnouncedIsServed
    EveryCloseReturns ChannelKeepsDraining
CHECK_DEADLOCK FALSE

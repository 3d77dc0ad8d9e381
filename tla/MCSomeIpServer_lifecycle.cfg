\* A UDP server in a multicast group with TP; two versions of a service.
SPECIFICATION FairSpec
CONSTANTS
    i1 = i1
    i2 = i2
    k1 = k1
    Services = {i1}
    Instances = {i1, i2}
    Keys = {k1}
    Key <- OnePair
    Events = {e1}
    Publishers = {p1}
    NoEvent = NoEvent
    Methods = {m1}
    MaxReceivers = 2
    Group = TRUE
    MaxMessages = 1
    WithTp = TRUE
    MaxStarts = 2
    MaxStops = 2
    MaxManaged = 2
CHECK_DEADLOCK FALSE
INVARIANTS TypeOK RunningMeansUp NativeIsKnown OffersAnnounced OnlyKnownPublished OpenAreTracked
PROPERTIES StopLeavesNothing StreamEnds

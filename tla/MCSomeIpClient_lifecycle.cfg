\* Over TCP or UDP in a multicast group, with TP, two user threads, two services and one
\* event group; a stop that is followed by a start.
SPECIFICATION FairSpec
CONSTANTS
    i1 = i1
    i2 = i2
    s1 = s1
    s2 = s2
    Remote = TRUE
    MaxMessages = 0
    Group = TRUE
    Instances = {i1, i2}
    Service <- OneEach
    MaxFinds = 2
    Groups = {g1}
    NoGroup = NoGroup
    Users = {u1, u2}
    WithTp = TRUE
    MaxStarts = 2
    MaxStops = 1
    MaxAsks = 2
CHECK_DEADLOCK FALSE
INVARIANTS TypeOK  LinkMirrored OwnResults OpenAreFed GroupsSubscribed
 

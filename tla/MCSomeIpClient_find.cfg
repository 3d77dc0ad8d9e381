\* Two threads that look for two services.
SPECIFICATION Spec
CONSTANTS
    i1 = i1
    i2 = i2
    s1 = s1
    s2 = s2
    Group = FALSE
    Remote = TRUE
    MaxMessages = 0
    Instances = {i1, i2}
    Service <- OneEach
    MaxFinds = 2
    Groups = {g1}
    NoGroup = NoGroup
    Users = {u1, u2}
    WithTp = FALSE
    MaxStarts = 1
    MaxStops = 0
    MaxAsks = 2
CHECK_DEADLOCK FALSE
INVARIANT FindReturnsOwn

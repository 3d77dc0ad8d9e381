\* Three calls and an event; a counter of three values, so that it wraps.
SPECIFICATION Spec
CONSTANTS
    c1 = c1
    c2 = c2
    c3 = c3
    Calls = {c1, c2, c3}
    Events = {e1}
    Size = 3
SYMMETRY CallSymmetry
CHECK_DEADLOCK FALSE
INVARIANTS TypeOK DistinctCounters InStep

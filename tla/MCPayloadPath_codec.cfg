\* Bytes of four values, payloads of two values at the ends of their types.
SPECIFICATION Spec
CONSTANTS
    Base = 4
    Half = 4
    Values <- MCValues
    Blobs <- MCBlobs
    Headers <- MCHeaders
    MaxItems = 2
    MaxChecked = 6
CHECK_DEADLOCK FALSE
INVARIANTS RoundTrip CrcSound Carried

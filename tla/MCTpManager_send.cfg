\* Payloads of up to five segments; native segments shorter and longer than the
\* mtu, so that the passes of line 92 run out in some of them.
SPECIFICATION Spec
CONSTANTS
    Mtu = 3
    MaxLength = 13
    NativeSizes = {1, 2, 3, 4}
    HasNative = {TRUE, FALSE}
CHECK_DEADLOCK FALSE
INVARIANTS TypeOK Runs FallbackComplete ExactlyOnce

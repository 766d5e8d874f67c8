SPECIFICATION Spec
CONSTANTS
    Payload = {p1, p2}
    NoPayload = NoPayload
    Writers = {w1, w2}
    Readers = {r1, r2}
    MaxWrites = 2
    MaxDeviceWrites = 2
SYMMETRY Symmetry
CHECK_DEADLOCK FALSE
INVARIANTS TypeOK WindowOne Order NeverStalled InOrder WakeupsCover
PROPERTIES PipeSpec

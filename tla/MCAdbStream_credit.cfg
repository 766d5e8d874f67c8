SPECIFICATION LiveSpec
CONSTANTS
    Payload = {p1, p2}
    NoPayload = NoPayload
    Writers = {w1, w2}
    Readers = {r1}
    MaxWrites = 2
    MaxDeviceWrites = 1
CHECK_DEADLOCK FALSE
PROPERTIES TakenReachesDevice

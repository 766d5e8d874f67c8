SPECIFICATION LiveSpec
CONSTANTS
    PayloadSizes = {0, 1, 2, 3, 4}
    PacketSize = 2
    MaxPayloadSize = 4
    EmptyAfter = {2}
    Fails = {"ERROR", "NO_DEVICE"}
    SubmitFails = {"message", "payload"}
    MaxPackets = 3
CHECK_DEADLOCK FALSE
INVARIANTS TypeOK HeardIsWritten KeepsReceiving
PROPERTIES WrittenIsHeard

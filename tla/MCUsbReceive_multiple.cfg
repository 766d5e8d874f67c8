SPECIFICATION Spec
CONSTANTS
    PayloadSizes = {0, 2}
    PacketSize = 2
    MaxPayloadSize = 4
    EmptyAfter = {}
    Fails = {}
    SubmitFails = {}
    MaxPackets = 2
CHECK_DEADLOCK FALSE
INVARIANTS DataLengthIsLength

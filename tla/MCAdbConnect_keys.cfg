SPECIFICATION Spec
CONSTANTS
    NumKeys = 2
    KeyFiles = {"ok"}
    PublicKeys = {"none"}
    SystemTypes = {"device"}
    Greetings <- Current
    Tokens = {"full"}
    MinVersion = 1
    OwnVersion = 2
    MaxPayloadV1 = 2
    OutOfRange <- Garbage
    SpuriousWakeups = FALSE
    MaxConnects = 2
CHECK_DEADLOCK FALSE
INVARIANTS EveryKeyTried

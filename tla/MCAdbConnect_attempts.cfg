SPECIFICATION LiveSpec
CONSTANTS
    NumKeys = 2
    KeyFiles = {"unreadable", "cannotSign", "ok"}
    PublicKeys = {"none", "unreadable", "ok"}
    SystemTypes = {"device"}
    Greetings <- AllGreetings
    Tokens = {"full", "empty", "bare"}
    MinVersion = 1
    OwnVersion = 2
    MaxPayloadV1 = 2
    OutOfRange <- Garbage
    SpuriousWakeups = TRUE
    MaxConnects = 2
CHECK_DEADLOCK FALSE
INVARIANTS TypeOK OfferOrder AnnouncedIsRead
PROPERTIES  AnswerEndsWait

SPECIFICATION LiveSpec
CONSTANTS
    p1 = p1
    p2 = p2
    p3 = p3
    t1 = t1
    t2 = t2
    Packets = {p1, p2, p3}
    WithPayload = {p1, p2}
    Transports = {t1, t2}
    TransportOf <- OnTwo
    SubmitFails = {"message", "payload"}
    Statuses = {"COMPLETED", "ERROR"}
CHECK_DEADLOCK FALSE
INVARIANTS TypeOK CallbackDataLive ToldOnce SentMeansOk Framed NothingLeft
PROPERTIES SendReturns

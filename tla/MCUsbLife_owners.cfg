SPECIFICATION Spec
CONSTANTS
    b1 = b1
    b2 = b2
    c1 = c1
    c2 = c2
    Callers = {c1, c2}
    Bases = {b1, b2}
    Nobody = Nobody
    Devices <- SomeDevices
    Opened <- UsualDevices
SYMMETRY Symmetry
CHECK_DEADLOCK FALSE
INVARIANTS TypeOK FoundRight ClaimHasOwner ListenerHasTransport

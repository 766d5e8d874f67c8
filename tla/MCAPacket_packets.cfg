SPECIFICATION Spec
CONSTANTS
    b1 = b1
    b2 = b2
    b3 = b3
    o1 = o1
    o2 = o2
    Locals = {o1, o2}
    Buffers = {b1, b2}
    NoBuffer = NoBuffer
    MaxSize = 2
    Byte = {0, 1}
    Modulus = 2
    Versions = {0, 1}
    SkipChecksum = 1
    Shrinks = FALSE
SYMMETRY Symmetry
CHECK_DEADLOCK FALSE
INVARIANTS TypeOK Ownership SentIsValid ChangeIsNoticed
PROPERTIES LostByMoveOnly

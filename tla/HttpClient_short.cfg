CONSTANTS
    a = a
    b = b
    Byte <- MCByte
    Responses <- MCResponses
    Stack <- MCStack
    Beyond <- MCBeyond
    BufSize = 2
    MaxAddress = 2

SPECIFICATION Spec

INVARIANTS
    ZeroMeansAll


CHECK_DEADLOCK FALSE

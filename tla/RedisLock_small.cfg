CONSTANTS
    Thread = {t1, t2}
    Command <- LockCommand
    NoCall = NoCall
    Error = Error
    Store <- LockStore
    Empty = NoToken
    NoToken = NoToken
    Reply <- MCReply
    Apply <- LockApply
    Retries = 1
    Limits <- MCLimits
    NoSocket = NoSocket
    NoConnection = NoConnection
    MaxFaults = 1
    MaxRounds = 1

SPECIFICATION EndlessSpec

INVARIANTS
    Leases
    HeldUntilLapsed
    NoOrphans

PROPERTIES
    CallsKept
    LockingEnds


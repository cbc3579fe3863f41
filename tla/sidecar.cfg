SPECIFICATION FairSpec
CONSTANTS
    Threads = {w1, w2}
    Sockets = {c1, c2}
    PoolSize = 1
    NoSocket = NoSocket
    Requests <- AllRequests
    NoRequest = NoRequest
    NoAnswer = NoAnswer
INVARIANTS
    TypeOK
    VerdictSound
    PoolAccounted
PROPERTIES
    KeepsContract
    StaysUp
    CallsEnd

SPECIFICATION Spec
CONSTANTS
    Workers = {w1, w2, w3}
    Sessions = {s1, s2, s3, s4}
    Subjects = {}
    NoSession = NoSession
    NoSubject = NoSubject
    Absent = Absent
    MAX_SESSIONS = 0
    Linearizable = TRUE
    MaxDrift = 0
SYMMETRY Symmetry
INVARIANTS
    CapacityBound
    CapacityInv

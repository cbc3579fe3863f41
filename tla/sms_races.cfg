SPECIFICATION Spec
CONSTANTS
    Workers = {w1, w2}
    Sessions = {s1, s2}
    Subjects = {x1, x2}
    NoSession = NoSession
    NoSubject = NoSubject
    Absent = Absent
    MAX_SESSIONS = 1
    Linearizable = FALSE
    MaxDrift = 1
SYMMETRY Symmetry
INVARIANTS
    OfferedInv

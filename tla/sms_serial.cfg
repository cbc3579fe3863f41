SPECIFICATION Spec
CONSTANTS
    Workers = {w1}
    Sessions = {s1, s2, s3}
    Subjects = {x1, x2}
    NoSession = NoSession
    NoSubject = NoSubject
    Absent = Absent
    MAX_SESSIONS = 1
    Linearizable = FALSE
    MaxDrift = 0
PROPERTIES
    KeepsPromise

SPECIFICATION Spec
CONSTANTS
    Workers = {w1, w2}
    Sessions = {s1}
    Subjects = {x1}
    NoSession = NoSession
    NoSubject = NoSubject
    Absent = Absent
    MAX_SESSIONS = 1
    Linearizable = TRUE
    MaxDrift = 0
PROPERTIES
    SubjectNotErased

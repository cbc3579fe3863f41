SPECIFICATION Spec
CONSTANTS
    Workers = {w1, w2}
    Sessions = {s1, s2}
    NoSession = NoSession
    NoSubject = NoSubject
    Absent = Absent
    MAX_SESSIONS = 1
    Linearizable = TRUE
    MaxDrift = 0
    u1 = u1
    u2 = u2
    u3 = u3
    d1 = d1
    d2 = d2
    Usernames = {u1}
    Dids = {d1, d2}
    NoUser = NoUser
    NoDid = NoDid
    Missing = Missing
    IllTyped = IllTyped
    n1 = n1
    Names = {n1}
    Joined <- JoinedName
    NoRequest = NoRequest
    Requests <- RivalRequests
    ImportedUsers <- NewUser
    Profiles = {"local"}
    SerialSignIns = TRUE
SYMMETRY RivalSymmetry
PROPERTIES
    DidKept
    KeepsContract

\* Two requests that overlap over two accounts, two challenges and two sessions.
CONSTANTS
    Accounts = {a1, a2}
    Challenges = {c1, c2}
    Sessions = {s1, s2}
    Keys = {k1, k2}
    Requests = {r1, r2}
    None = None
    MaxAttempts = 2
SPECIFICATION Spec
INVARIANTS
    SessionProvesContact
PROPERTIES
    RefinesOneTimeCode
SYMMETRY Symmetry
CHECK_DEADLOCK FALSE

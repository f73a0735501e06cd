CONSTANTS
    Requests = {r1, r2}
    Passwords = {p1, p2}
    FirstPassword = p1
    MaximumAttempts = 2
    LockoutSeconds = 1
    MaximumAge = 0
    Times = {0, 1}
    MaxSessions = 2
    MaxChanges = 1
SPECIFICATION Spec
SYMMETRY MCSymmetry
INVARIANT GuessesAreBounded
PROPERTIES
    SessionsOpenUnderTheCurrentPassword
    ChangeEndsEarlierSessions

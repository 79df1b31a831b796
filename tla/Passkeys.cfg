SPECIFICATION Spec
CONSTANTS
    c1 = c1
    c2 = c2
    c3 = c3
    k1 = k1
    k2 = k2
    s1 = s1
    s2 = s2
    Challenges = {c1, c2, c3}
    Credentials = {k1, k2}
    Slots = {s1, s2}
    MaxCount = 3
    MaxEdits = 2
    MaxAttempts = 2
    NoChallenge = NoChallenge
    NoCredential = NoCredential
SYMMETRY Symmetric
INVARIANTS
    ChallengeIsUsedOnce
PROPERTIES
    CounterAdvances
    EditNeedsVerification
CHECK_DEADLOCK FALSE

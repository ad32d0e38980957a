CONSTANTS
    Tokens = {t1, t2}
    Salts = {s1, s2}
    Visits = {v1, v2}
    Lifetime = 1
    MaxPause = 1
    MaxTime = 3
    Difficulty6Threshold = 0
    Difficulty7Threshold = 1
    DifficultyCooldown = 30
    Absent = Absent
SPECIFICATION FairSpec
INVARIANT AcceptedOnce
PROPERTY SaltsForgotten
PROPERTY DifficultyRecovers

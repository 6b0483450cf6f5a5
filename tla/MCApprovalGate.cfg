CONSTANTS
    Approvals = {a1}
    Actions = {x1}
    Sessions = {s1, s2}
    Nil = Nil
    Rest = Rest
    TTL = 1
    GRACE = 1
    CAP = 1
    PRUNE = 0
    MaxDeferrals = 1
SPECIFICATION FairSpec
INVARIANTS
    TypeOK
    FrozenIsQuiet
    LettersHonest
    ApprovalsReachable
PROPERTIES
    NoEarlyLastCall
    DecidesOnce
    SettledIfHeard
CHECK_DEADLOCK FALSE

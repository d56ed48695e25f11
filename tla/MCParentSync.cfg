SPECIFICATION FairSpec
CONSTANTS
    s1 = s1
    s2 = s2
    t1 = t1
    m = m
    p = p
    q = q
    Certificates = {s1, t1, s2}
    Round <- SlowRound
    Author <- SlowAuthor
    Parents <- SlowParents
    Headers = {m}
    Tips = {s2}
    Peers = {p, q}
    Holds <- SlowHolds
    SyncRetryNodes = 1
    GcDepth = 1
    MaxLosses = 1
    CommitBound = 3
INVARIANTS MissingIsRequested
PROPERTIES CatchesUpUnlessCollected
CHECK_DEADLOCK FALSE

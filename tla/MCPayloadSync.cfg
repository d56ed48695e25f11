SPECIFICATION FairSpec
CONSTANTS
    a = a
    b = b
    c = c
    g = g
    h = h
    d1 = d1
    Workers = {a, b, c}
    Commanded = {b}
    Digests = {d1}
    Holds <- OneHolds
    SyncRetryNodes = 1
    GcDepth = 1
    MaxRound <- Rounds
    MaxLosses = 1
    Name = a
    Headers = {g, h}
    Round <- TwoRounds
    Author <- SameAuthor
    Payload <- SameBatch
    Orphans = {g}
INVARIANTS PendingIsRecent NoRequestLeftBehind
PROPERTIES EventuallySynchronized LoopsBackUnlessLost
CHECK_DEADLOCK FALSE

SPECIFICATION Spec
CONSTANTS
    a = a
    b = b
    c = c
    d = d
    MaxChained = 53
    MaxFree = 15
    MaxRound = 9
    GcDepth = 3
    MaxResend = 1
    MaxRestart = 1
    Authorities <- MCAuthorities
    Keys <- MCKeys
    Stake <- MCStake
    DigestOrder <- MCDigestOrder
    Dags <- MCDags
    DirectSlots = {2, 4, 6}
CONSTRAINT Scope
INVARIANTS
    WholeHistory
    LeaderAgreement
    TotalOrder
    CommittedOnce
    DependenciesCommitted
CHECK_DEADLOCK FALSE

SPECIFICATION Spec
CONSTANTS
    a = a
    b = b
    c = c
    d = d
    MaxChained = 0
    MaxFree = 0
    MaxRound = 9
    GcDepth = 3
    MaxResend = 0
    MaxRestart = 0
    Authorities <- MCAuthorities
    Keys <- MCKeys
    Stake <- MCStake
    DigestOrder <- MCDigestOrder
    Dags <- MCDags
    DirectSlots = {2, 4, 6}
CONSTRAINT Scope
INVARIANTS CommittedRoundsIncrease
CHECK_DEADLOCK FALSE

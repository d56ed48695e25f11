SPECIFICATION FairSpec
CONSTANTS
    b1 = b1
    b2 = b2
    Keys <- MCKeys
    Faults = 2
    MaxRound = 4
    Horizon = 28
    Scores <- MCScores
    name = 5
    Batches <- MCBatches
    HeaderSize = 2
    PauseBatches = TRUE
CONSTRAINT Followed
INVARIANTS OneHeaderPerRound ParentsOfPreviousRound NoDigestLost
PROPERTIES ParentsAreUsed ExactlyFaultsSilent LeadersPerWindow

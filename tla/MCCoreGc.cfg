SPECIFICATION RestartSpec
CONSTANTS
    Authorities <- MCAuthorities
    Stake <- MCStake
    Faulty <- MCFaulty
    Headers <- MCHeaders
    author <- MCAuthor
    round <- MCRound
    parents <- MCParents
    payload <- MCPayload
    Batches = {"batch"}
    FaultyHeaders <- MCFaultyHeaders
    FaultyCertificates <- Chain
    GcDepth = 2
    MaxRestartRound = 1
    NoHeader = NoHeader
CONSTRAINT Paced
INVARIANTS
    ProposerParents
    VotedIsHeld
CHECK_DEADLOCK FALSE

SPECIFICATION Spec
CONSTANTS
    Authorities <- MCAuthorities
    Stake <- MCStake
    Faulty <- MCFaulty
    Headers <- MCHeaders
    author <- MCAuthor
    round <- MCRound
    parents <- MCParents
    payload <- MCPayload
    Batches = {"batch"}
    FaultyHeaders <- MCFaultyHeaders
    FaultyCertificates <- MCFaultyCertificates
    GcDepth = 50
    NoHeader = NoHeader
INVARIANTS
    TypeOK
    VoteOnce
    CertificateUniqueness
    CertifiedHistory
    CertifiedIsAvailable
    CausalDelivery
CHECK_DEADLOCK FALSE

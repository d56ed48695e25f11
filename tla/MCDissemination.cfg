SPECIFICATION FairSpec
CONSTANTS
    Authorities = {name, a, late, c}
    Stake <- OneEach
    name = name
    a = a
    c = c
    Name = name
    addresses <- Addresses
    late = late
    Faulty = {c}
    ChannelSize = 1
    ConnectionSize = 1
    MaxBatches = 2
CONSTRAINT LeftOut
INVARIANTS ProposableIsHeld VotableIsStored
PROPERTIES SealedIsReported
CHECK_DEADLOCK FALSE

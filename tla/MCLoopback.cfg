SPECIFICATION FairSpec
CONSTANTS
    h1 = h1
    h2 = h2
    h3 = h3
    h4 = h4
    c1 = c1
    g = g
    h = h
    c = c
    Headers = {h1, h2, h3, h4}
    Certificates = {c1}
    Id <- MCId
    Lacks <- MCLacks
    Round <- MCRound
    ChannelCapacity = 1
    GcBound = 2
    NoItem = NoItem
CONSTRAINTS InOrder ByTwo
INVARIANTS NoEarlyWaitCycle
PROPERTIES ProcessedUnlessFull
CHECK_DEADLOCK FALSE

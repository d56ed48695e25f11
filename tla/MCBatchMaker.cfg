SPECIFICATION FairSpec
CONSTANTS
    BatchSize = 3
    Delay = 2
    ChannelSize = 1
    Connections = 2
    MaxTransactions = 4
    MaxRound = 2
INVARIANTS TransactionsPreserved PausesWhileSilent BoundedDelay
PROPERTIES EventuallySealed
CHECK_DEADLOCK FALSE

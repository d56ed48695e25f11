SPECIFICATION FairSpec
CONSTANTS
    MaxMessages = 3
    ChannelSize = 2
    MaxCuts = 2
INVARIANTS AckedIsDelivered
PROPERTIES ImplementsReliableDelivery EventuallyAcknowledged
CHECK_DEADLOCK FALSE

SPECIFICATION FairSpec
CONSTANTS
    Keys = {k1, k2}
    Values = {v1, v2}
    Calls = {c1, c2}
    None = None
    Error = Error
    ChannelSize = 3
    MaxWrites = 3
PROPERTIES NotifiedOfWrite ImplementsNotifyStore
CHECK_DEADLOCK FALSE

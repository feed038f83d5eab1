SPECIFICATION ServerFairSpec
CONSTANTS
    Threshold = 3
    MaxRequests = 3
INVARIANTS
    ServerTypeOK
    ReadyTracksFailures
    WithdrawnForGood
    Drained
PROPERTIES
    Exits
    Recovers
    OutageSeen
    AskingEnds

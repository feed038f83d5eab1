SPECIFICATION FairSpec
CONSTANTS
    LndTimeout = 60
    Retries = 3
    Delay = 1
    Latency = 1
    MaxDecode = 2
INVARIANTS
    AnswersInTime
PROPERTIES
    CallSpec
    ClearedTimerIsSilent
    Answered

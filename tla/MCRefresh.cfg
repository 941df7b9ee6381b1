SPECIFICATION FairSpec
CONSTANTS
    u1 = u1
    u2 = u2
    NoRecord = NoRecord
    Urls = {u1, u2}
    Gap = 1
    Intervals = {1, 2}
    RetryAfters = {0, 3}
    MaxTime = 4
INVARIANT RecordsSound
PROPERTIES ServersRespected DueIsAsked


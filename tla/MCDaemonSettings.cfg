SPECIFICATION FairSpec
CONSTANTS
    s1 = s1
    s2 = s2
    s3 = s3
    u1 = u1
    u2 = u2
    p1 = p1
    p2 = p2
    a = a
    b = b
    NoId = NoId
    NoProfile = NoProfile
    NoConfig = NoConfig
    Ids = {s1}
    Urls = {u1, u2}
    UrlOf <- OneSub
    Contents = {p1, p2}
    Choices = {a}
    FirstChoice = a
    TailscalePresent = TRUE
INVARIANTS
    TypeOK
    RunsWhatItShows
    AckedIsStored
    HostFollowsSettings
PROPERTY RestoreComesUp

SPECIFICATION Spec
CONSTANTS
    s1 = s1
    s2 = s2
    s3 = s3
    u1 = u1
    u2 = u2
    p1 = p1
    p2 = p2
    a = a
    b = b
    NoId = NoId
    NoProfile = NoProfile
    NoConfig = NoConfig
    Ids = {s1, s2, s3}
    Urls = {u1, u2}
    UrlOf <- Shared
    Contents = {p1}
    Choices = {a}
    FirstChoice = a
    TailscalePresent = FALSE
INVARIANTS ListSound StatusPushed

SPECIFICATION FairSpec
CONSTANTS
    loop = loop
    c1 = c1
    None = None
    Procs = {loop, c1}
    Loop = loop
    Limit = 64
    MaxRequests = 2
INVARIANTS DirectNeedsConsent ListTells FewWait
PROPERTY DownloadsEnd

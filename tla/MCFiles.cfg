SPECIFICATION FairSpec
CONSTANTS
    Clients = {p1, p2}
    Values = {0, 1, 2}
    Invalid = {2}
    MaxEdits = 3
    MaxFaults = 1
INVARIANTS TypeOK SavesWhatRuns NoLostEdit
PROPERTY EditsSettle
CHECK_DEADLOCK FALSE

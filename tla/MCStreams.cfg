SPECIFICATION Spec
CONSTANTS
    s1 = s1
    s2 = s2
    None = None
    Sessions = {s1}
    GroupSets = {"a", "b"}
    NoGroups = "none"
    Queue = 3
    MaxCalls = 2
    MaxOps = 2
    Patient = TRUE
INVARIANTS MirrorsDaemon PanelFollows

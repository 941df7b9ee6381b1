SPECIFICATION FairSpec
CONSTANTS
    Installs <- MCInstalls
    Worlds <- MCWorlds
    MaxVersion = 2
    MaxFaults = 2
INVARIANTS OneProxy FailedRestores TakenOver
PROPERTIES DataKept Resumes
CHECK_DEADLOCK FALSE

SPECIFICATION Spec
CONSTANTS
    Installs <- MCInstalls
    Worlds <- MCWorlds
    MaxVersion = 2
    MaxFaults = 2
INVARIANT RestoresTailscale
CHECK_DEADLOCK FALSE

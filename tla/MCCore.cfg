SPECIFICATION FairSpec
CONSTANTS
    c1 = c1
    c2 = c2
    NoConfig = NoConfig
    Configs = {c1, c2}
    MaxGeneration = 4
INVARIANTS ReportsWhatRuns StoppedIsQuiet
PROPERTIES DrainsEnd DrainSparesRunning KeepsContract

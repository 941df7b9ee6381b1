SPECIFICATION RoutingSpec
CONSTANTS
    Docs <- MCDocs
    Documents <- MCDocuments
    Leaves <- MCLeaves
    Settings <- MCSettings
    Targets <- MCTargets
    Names = {n1}
    MaxProxies = 6
    MaxRules = 3
    Ids = {i1, i2}
    NoCat = none
SYMMETRY Alike
INVARIANTS RulesStored ListingTrue RulesFit BuildResolves EditsSound

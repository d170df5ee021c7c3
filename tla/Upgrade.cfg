SPECIFICATION Spec
CONSTANTS
    NULL = NULL
    En <- MCEn
    Info <- MCInfo
    Defaults <- MCDefaults
    Legacy <- MCLegacy
    SecurityRule <- MCSecurityRule
    Seeds <- MCSeeds
    Databases <- Upgrades
    Regions = {"Xianggang", "Riben"}
    Services = {"AI", "Own"}
    Policies <- MCPolicies
    NewRules <- MCNewRules
    NewSources <- MCNewSources
    Actions <- MCActions
    Pages = {p1, p2}
    MaxOpen = 2
    MaxEdits = 1
    MaxStops = 1
SYMMETRY PageSymmetry
CHECK_DEADLOCK FALSE
INVARIANTS ServedIsSound OrderOnceRepaired
PROPERTIES DeletedStayDeleted OwnRowsKept RepairsOnlyDangling UpgradeKeepsServing MergeLosesNothing

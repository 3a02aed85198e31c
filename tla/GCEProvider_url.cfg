\* Every mapping of MCGCEProvider, against spec 3's acceptance rule.
CONSTANT Configs <- MCConfigs
SPECIFICATION Spec
INVARIANT ConstructionMatchesSpec
CHECK_DEADLOCK FALSE

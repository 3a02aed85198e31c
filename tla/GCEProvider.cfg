\* Construction, Setup and Start with and without an instance group.
CONSTANT Configs <- MCConfigs
SPECIFICATION Spec
INVARIANT TypeOK
INVARIANT ConstructionRefusesOnlySpecErrors
INVARIANT SetupLooksUpResolved
INVARIANT DeliveredInstanceSound
INVARIANT PollersLeakOnlyAfterCtx
\* A provider that failed to build or set up, and a Start that returned,
\* are final.
CHECK_DEADLOCK FALSE

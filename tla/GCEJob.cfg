\* A job on a provider without INSTANCE_GROUP, AUTO_IMPLODE at its default.
CONSTANTS
    GroupModes = {FALSE}
    UploadRetries <- MCUploadRetries
    ExitCodes <- MCExitCodes
    AutoImplode = TRUE
SPECIFICATION Spec
INVARIANT TypeOK
INVARIANT NoLeakedInstance
INVARIANT LeaksOnlyAfterCtx
INVARIANT RunsOnlyOurScript
 
INVARIANT RunResultFaithful
INVARIANT StopNilMeansDeleted
PROPERTY BootRefinement
PROPERTY OrphanedOnlyByFault
\* A job ends once Start has failed or Stop has returned.
CHECK_DEADLOCK FALSE

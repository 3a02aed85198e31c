CONSTANTS
    UploadRetries <- MCUploadRetries
    ExitCodes <- MCExitCodes
    AutoImplode = TRUE
SPECIFICATION Spec
INVARIANT StaleMeansReused
CHECK_DEADLOCK FALSE

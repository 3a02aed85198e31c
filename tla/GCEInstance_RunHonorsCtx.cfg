\* Without AUTO_IMPLODE nothing ends a hung build once the context is done.
CONSTANTS
    UploadRetries <- MCUploadRetries
    ExitCodes <- MCExitCodes
    AutoImplode = FALSE
SPECIFICATION Spec
PROPERTY RunHonorsCtx
CHECK_DEADLOCK FALSE

CONSTANTS
    UploadRetries <- MCUploadRetries
    ExitCodes <- MCExitCodes
    AutoImplode = TRUE
SPECIFICATION Spec
PROPERTY StaleNotRetried
CHECK_DEADLOCK FALSE

\* With an instance group, the first wait does not select on errChan.
CONSTANTS
    GroupModes = {TRUE}
    ICModes <- MCICModes
SPECIFICATION Spec
PROPERTY InsertFailureSurfaces
CHECK_DEADLOCK FALSE

\* With an instance group, Start returns an Instances.Get error without
\* setting abandonedStart.
CONSTANTS
    GroupModes = {TRUE}
    ICModes <- MCICModes
SPECIFICATION Spec
INVARIANT NoLeakedInstance
CHECK_DEADLOCK FALSE

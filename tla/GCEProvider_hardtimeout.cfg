\* The working mapping, with HARD_TIMEOUT_MINUTES negative or left unset.
CONSTANT Configs <- MCHardTimeoutConfigs
SPECIFICATION Spec
PROPERTY InstanceSelfTerminates
CHECK_DEADLOCK FALSE

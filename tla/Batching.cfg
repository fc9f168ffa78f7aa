SPECIFICATION Spec
CONSTANTS
  Configs <- SmallConfigs
INVARIANT NoCaseIsDropped
CHECK_DEADLOCK FALSE

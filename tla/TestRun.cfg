SPECIFICATION Spec
CONSTANTS
  Configs <- SmallConfigs
INVARIANTS
  LastIsKept
  PassIsDeserved
  PhasesFit
  CasesAreSeenOnce
CHECK_DEADLOCK FALSE

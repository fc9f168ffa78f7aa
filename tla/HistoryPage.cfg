SPECIFICATION MCSpec
CONSTANTS
  None = None
  Runs = {1, 2}
  Results <- SmallResults
  PageSize = 1
  DevMode = TRUE
  MaxClicks = 3
INVARIANTS
  TypeOK
  NoSpinnerForNothing
  ShownStateIsServers
  ResultIsOfSelected
  StylesRestored
CHECK_DEADLOCK FALSE

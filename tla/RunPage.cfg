SPECIFICATION FairSpec
CONSTANTS
  Missing = Missing
  Workers <- TwoWorkers
  MaxLines = 3
  MaxUpsets = 3
  Disturbances = {"cancel", "drop", "restart", "refuse", "collide", "sync"}
ACTION_CONSTRAINT FewLinesAndUpsets
INVARIANTS
  TypeOK
  NothingRunsUnseen
  VerdictIsTheRuns
  LogIsComplete
  CancelHitsShownRun
PROPERTY StreamsEnd
CHECK_DEADLOCK FALSE

SPECIFICATION FairSpec
CONSTANTS
  Servers = {"vsock", "serial"}
  N = 3
  ConnectTimeout = 5
  IoTimeout = 2
  Grace = 1
  Slack = 1
  MaxTime = 24
CONSTRAINT ThirdIsQuick
INVARIANTS
  TypeOK
  AnswerIsComplete
  AnswerInTime
PROPERTIES
  ImplementsBarrier
  ThreadsEnd
CHECK_DEADLOCK FALSE

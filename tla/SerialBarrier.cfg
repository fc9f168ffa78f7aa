SPECIFICATION Spec
CONSTANTS
  Servers = {"serial"}
  N = 2
  ConnectTimeout = 1
  IoTimeout = 2
  Grace = 1
  Slack = 1
  MaxTime = 23
INVARIANT AllConfiguredFirst
CHECK_DEADLOCK FALSE

SPECIFICATION Spec
CONSTANTS
  v1 = v1
  v2 = v2
  biz = biz
  iso1 = iso1
  staged = staged
  r1 = r1
  h1 = h1
  h2 = h2
  Runs = {r1}
  Vms = {v1, v2, biz}
  Isos = {iso1}
  Foreign = {biz}
  PreStaged = {}
  Prefixes = {"nettest", "probe"}
  PrefixOf <- OnePrefix
  Configs <- RealConfigs
  ErrorCodes = {4}
  MaxPhases = 2
  Handlers = {h1, h2}
  Quiesced = TRUE
  Events = {"cancel", "delete", "restart"}
SYMMETRY VmSymmetry
ACTION_CONSTRAINT SecondForOvf
INVARIANTS
  RegistryCoversLive
  ShownCleanMeansGone
  ForeignVmsSurvive
PROPERTIES
  CleanupAnswerIsTrue

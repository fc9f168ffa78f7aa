SPECIFICATION Spec
CONSTANTS
  v1 = v1
  v2 = v2
  biz = biz
  iso1 = iso1
  staged = staged
  r1 = r1
  h1 = h1
  h2 = h2
  Runs = {r1}
  Vms = {v1, v2}
  Isos = {staged}
  Foreign = {}
  PreStaged = {staged}
  Prefixes = {"nettest"}
  PrefixOf <- OnePrefix
  Configs <- MixedConfigs
  ErrorCodes = {4}
  MaxPhases = 1
  Handlers = {h1}
  Quiesced = FALSE
  Events = {"cancel", "delete", "restart"}
SYMMETRY VmSymmetry
ACTION_CONSTRAINT OneVmBesideIso
INVARIANTS
  TypeOK
  OutcomesAgree
  MemoryCoversLive
  ReportedRunRegisteredAll
  RetainedForTroubleshooting

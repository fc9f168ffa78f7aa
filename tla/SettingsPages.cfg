SPECIFICATION Spec
CONSTANTS
  c1 = c1
  c2 = c2
  s1 = s1
  s2 = s2
  r1 = r1
  r2 = r2
  disk = disk
  iso = iso
  secret = secret
  tuned = tuned
  NoName = NoName
  BlankRule = BlankRule
  Unset = Unset
  Cases = {c1, c2}
  Names = {s1, s2}
  Stored0 <- SmallSuites
  Rules = {r1, r2}
  StoredRules0 <- SmallRules
  Paths = {disk, iso}
  Settings = {tuned}
  Passwords = {secret}
  Config0 <- SmallConfig
  MaxClicks = 3
INVARIANTS
  ShownSuitesAreStored
  UploadIsKept
PROPERTIES
  OneSuiteChanges
  NoRuleIsLost
CHECK_DEADLOCK FALSE

SPECIFICATION FairSpec
CONSTANTS
  p1 = p1
  a = a
  b = b
  v1 = v1
  v2 = v2
  d1 = d1
  s1 = s1
  ticket1 = ticket1
  token1 = token1
  None = None
  Blank = Blank
  Untagged = Untagged
  Places = {p1}
  Portgroups = {a, b}
  Vlans = {v1, v2}
  Data = {d1}
  Sessions = {s1}
  Tickets = {ticket1}
  Tokens = {token1}
  BlindPolls = 1
  SdkPolls = 1
  Tables <- SmallTables
  Files <- OneFile
  Inventories <- SmallInventories
  MaxEdits = 1
INVARIANTS
  TypeOK
  ListsAreCurrent
  SyncIsIdempotent
PROPERTIES
  SyncKeepsUserRows
  SyncEnds
ACTION_CONSTRAINT AuthWhenItMatters
CHECK_DEADLOCK FALSE

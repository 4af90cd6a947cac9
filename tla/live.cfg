\* Two fair commands; no symmetry, which liveness checking does not allow.
CONSTANTS
  Procs = {p1, p2}
  Names = {orders}
  Ids = {i1}
  Refs = {r1, r2}
  MaxRevision = 2
  MaxOwned = 1
  NoProc = NoProc
  NoName = NoName
  NoRow = NoRow
  NoRef = NoRef
SPECIFICATION FairSpec
PROPERTIES
  CommandsEnd

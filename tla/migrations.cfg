\* Two kantrip versions, one of which knows one migration more; any contents.
CONSTANTS
  p1 = p1
  p2 = p2
  Procs = {p1, p2}
  Latest <- Versions
  MaxSequence = 2
  NoHistory = NoHistory
  Other = Other
  NoProc = NoProc
SPECIFICATION Spec
INVARIANTS
  WritesKnownSchema
PROPERTIES
  MigratesWhole
  BackedUpFirst

\* Two commands, two profile names, three references.
CONSTANTS
  Procs = {p1, p2}
  Names = {orders, audit}
  Ids = {i1, i2}
  Refs = {r1, r2, r3}
  MaxRevision = 2
  MaxOwned = 2
  NoProc = NoProc
  NoName = NoName
  NoRow = NoRow
  NoRef = NoRef
SPECIFICATION Spec
CONSTRAINT FewOwed
SYMMETRY Symmetry
INVARIANTS
  IInv
  NoUntrackedSecret
  LiveSecretsPresent
  ExitHonest
  ResolveReadsOneGeneration
PROPERTIES
  NoLostUpdate
  RepairSettles
  ImplementsProfileStore

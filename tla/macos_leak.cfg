\* One reference; a batch dies with its process.
CONSTANTS
  Refs = {r1}
  MaxPieces = 3
  UnlockAttempts = 3
  Orphans = FALSE
  NoRef = NoRef
SPECIFICATION Spec
SYMMETRY Symmetry
INVARIANTS
  DiscardedIsGone

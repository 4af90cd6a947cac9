\* Two references of up to three pieces; a killed process may leave its batch running.
CONSTANTS
  Refs = {r1, r2}
  MaxPieces = 3
  UnlockAttempts = 3
  Orphans = TRUE
  NoRef = NoRef
SPECIFICATION Spec
SYMMETRY Symmetry
INVARIANTS
  StoredReadsWhole
  RetiredIsGone
  RefusedOnce
  StoredInSecuredVault

\* Two references, both providers, with and without a terminal.
CONSTANTS
  Refs = {r1, r2}
  NoRef = NoRef
SPECIFICATION Spec
SYMMETRY Symmetry
INVARIANTS
  AskedOnce
  DefaultIsKept
  StoredUnderPassword
  StoredIsKept

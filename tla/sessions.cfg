\* Two sessions, two cleaners and one doctor, one scan killed.
CONSTANTS
  Sessions = {s1, s2}
  Cleaners = {c1, c2}
  Doctors = {d1}
  ScanLimit = 1
  MaxDeaths = 1
  Owner = Owner
  NoOne = NoOne
  NoSession = NoSession
SPECIFICATION Spec
SYMMETRY Symmetry
INVARIANTS
  StartNeverContended
  CloseNeverDisturbed
PROPERTIES
  ActiveIsAlive
  ImplementsSessionStore

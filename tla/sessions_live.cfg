\* Two sessions, one fair cleaner; no scan is killed.
CONSTANTS
  Sessions = {s1, s2}
  Cleaners = {c1}
  Doctors = {}
  ScanLimit = 2
  MaxDeaths = 0
  Owner = Owner
  NoOne = NoOne
  NoSession = NoSession
SPECIFICATION FairSpec
PROPERTIES
  IntactIsRemoved

\* One session that may crash at any point, one fair cleaner.
CONSTANTS
  Sessions = {s1}
  Cleaners = {c1}
  Doctors = {}
  ScanLimit = 2
  MaxDeaths = 0
  Owner = Owner
  NoOne = NoOne
  NoSession = NoSession
SPECIFICATION FairSpec
PROPERTIES
  CrashIsCleanedUp

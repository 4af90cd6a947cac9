\* One profile name, up to two profiles under it, up to two edits of each.
CONSTANTS
  None = None
  AddRequests <- MCAddRequests
  EditRequests <- MCEditRequests
  OtherRequests <- MCOtherRequests
  MaxRevision = 3
  MaxIdentities = 2
SPECIFICATION Spec
INVARIANTS
  VaultExact
  EarlyCheckIsSound
PROPERTIES
  NothingLost
  JudgedBeforeStored
  KeepsUnasked
  AskedIsDone
CHECK_DEADLOCK FALSE

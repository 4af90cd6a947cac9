\* As profiles.cfg: the claim that a profile which passed the rules fits the schema.
CONSTANTS
  None = None
  AddRequests <- MCAddRequests
  EditRequests <- MCEditRequests
  OtherRequests <- MCOtherRequests
  MaxRevision = 3
  MaxIdentities = 2
SPECIFICATION Spec
INVARIANT NoInternalError
CHECK_DEADLOCK FALSE

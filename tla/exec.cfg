\* Every request, one session, up to three forwarded signals; the end of a
\* session and of its processes is a terminal state.
CONSTANTS
  MaxSignals = 3
  Own = s1
  Forgotten = Forgotten
SPECIFICATION FairSpec
INVARIANTS
  GroupIsOver
  TerminalGivenBack
  ChildKeepsItsFiles
  FilesFit
  GateIsEnough
  SameAnswer
PROPERTIES
  KillIsEarned
  CallEnds
CHECK_DEADLOCK FALSE

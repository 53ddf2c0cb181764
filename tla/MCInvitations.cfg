\* Two clients that can make each other one invitation each, or two the same
\* way.
SPECIFICATION FairSpec
CONSTANTS
  Clients = {c1, c2}
  Invitations = {v1, v2}
  Requests <- WithoutDecline
  NULL = NULL
INVARIANTS
  RefsAreExact
  GameFitsState
  DepartedSourceLeavesNothingOpen
  ResultsAreFinal
PROPERTIES
  LivesAsPromised
  ServiceEndsUnlessLeaked
\* A thread that meets a mutex that inv_close() kept hangs.
CHECK_DEADLOCK FALSE

\* Service threads and two termination signals, which may strike any thread anywhere,
\* also in the handler of the other.  Fair, without symmetry.
SPECIFICATION FairSpec
CONSTANTS
  Clients = {c1, c2}
  MAX_CLIENTS = 2
  Users = {}
  MaxStarts = 2
  AcceptMayFail = TRUE
  Main = Main
  NULL = NULL
  Garbage = Garbage
INVARIANTS
  CriticalSections
  NoLostWakeup
PROPERTIES
  SweepReachesAll
  ImplementsContract
  EndedConnectionsAreCleanedUp
  ShutdownWaitsForLateOrTakenAway
\* A handler that strikes in a critical section waits for its own lock.
CHECK_DEADLOCK FALSE

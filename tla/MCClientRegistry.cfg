\* Service threads alone: one connection more than slots, and two users.
SPECIFICATION Spec
CONSTANTS
  Clients = {c1, c2, c3}
  MAX_CLIENTS = 2
  Users = {u1, u2}
  MaxStarts = 0
  AcceptMayFail = TRUE
  Main = Main
  NULL = NULL
  Garbage = Garbage
INVARIANTS
  TypeOK
  RegistryIsExact
  RefsAreCounted
  LookupIsRightWhileNoneLeaves
\* Connections may stay open for ever.
CHECK_DEADLOCK FALSE
SYMMETRY ConnectionSymmetry

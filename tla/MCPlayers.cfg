\* Two threads and three names: they post results of the same two players, list
\* them, or share one.
SPECIFICATION FairSpec
CONSTANTS
  Clients = {c1, c2}
  Players <- Names
  PLAYER_INITIAL_RATING = 0
  Gains <- Points
  MaxResults = 2
  NULL = NULL
INVARIANTS
  RefsAreExact
  RatingsBalance
PROPERTIES
  ThreadsGetOn
CHECK_DEADLOCK FALSE

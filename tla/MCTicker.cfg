\* Every race for the list of watchers: three starts, so that a watcher is
\* inserted before another one, and quit or ^C at any time.
CONSTANTS
  Watchers = {w1, w2}
  Cli = Cli
  ListHead = ListHead
  NULL = NULL
  Children = {c1, c2, c3}
  Unset = Unset
  Commands <- StartsAndQuit
  MaxLines = 3
  Writers = {}
  Interrupts = TRUE
SPECIFICATION Spec
SYMMETRY Symmetry
INVARIANTS
  ListIsSound
  ChildrenAreWatched
  NoFeedIsLeftBehind
PROPERTY
  OnlyTheDeadAreDropped

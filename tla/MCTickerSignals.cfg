\* What signals promise: no input, no output and no death is overlooked.
CONSTANTS
  Watchers = {w1, w2}
  Cli = Cli
  ListHead = ListHead
  NULL = NULL
  Children = {c1, c2}
  Unset = Unset
  Commands <- NoQuit
  MaxLines = 2
  Writers = {c1}
  Interrupts = FALSE
SPECIFICATION FairSpec
PROPERTY
  SignalsAreServed

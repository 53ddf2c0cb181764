SPECIFICATION Spec
CONSTANTS
  PageRows = 32
  MaxPages = 1
  NUM_QUICK_LISTS = 1
  QUICK_LIST_MAX = 2
  NUM_FREE_LISTS = 3
  Sizes = {8}
  Alignments = {}
  Data = {}
  MaxHeld = 3
INVARIANTS
  CallsReturn
CHECK_DEADLOCK FALSE

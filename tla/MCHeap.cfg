SPECIFICATION Spec
CONSTANTS
  PageRows = 10
  MaxPages = 2
  NUM_QUICK_LISTS = 2
  QUICK_LIST_MAX = 2
  NUM_FREE_LISTS = 3
  Sizes <- SomeSizes
  Alignments = {4, 8, 16}
  Data = {4}
  MaxHeld = 3
INVARIANTS
  HeapIsSound
PROPERTIES
  RegionsKeepTheirContents
CHECK_DEADLOCK FALSE

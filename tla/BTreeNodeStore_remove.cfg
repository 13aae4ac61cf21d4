\* Remove saves on one-cell nodes with one- and two-fragment keys and on
\* two-cell interior nodes, within four records of two slots each.
CONSTANTS
  NB_CELL = 2
  KEY_SIZE = 10
  Keys <- MCKeys
  Ptrs = {1}
  ChildIds = {1}
  MaxCells = 2
  MaxListLen = 3
  MaxRecords = 4
  NodeChoices <- RemoveNodes
  Edits = {"remove"}
  IOMayFail = FALSE
SPECIFICATION Spec
INVARIANT RemoveKeepsStore
CHECK_DEADLOCK FALSE

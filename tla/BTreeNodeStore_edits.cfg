\* One-cell leaf and interior nodes with one- and two-fragment keys, then
\* remove, add and append saves, within four records of two slots each.
CONSTANTS
  NB_CELL = 2
  KEY_SIZE = 10
  Keys <- MCKeys
  Ptrs = {1}
  ChildIds = {1}
  MaxCells = 2
  MaxListLen = 3
  MaxRecords = 4
  NodeChoices <- OneCellNodes
  Edits = {"remove", "add", "append"}
  IOMayFail = FALSE
SPECIFICATION Spec
INVARIANTS TypeOK ChainsWellFormed FreeListWellFormed
PROPERTY OtherNodesUntouched
CHECK_DEADLOCK FALSE

\* Records-manager saves may fail: save_all_node_records stops at the first
\* failing save, after any subset of the pool.  One-cell leaves with short
\* keys and list appends keep the store's other bugs out of the inputs.
CONSTANTS
  NB_CELL = 2
  KEY_SIZE = 10
  Keys <- MCShortKeys
  Ptrs = {1}
  ChildIds = {1}
  MaxCells = 2
  MaxListLen = 3
  MaxRecords = 4
  NodeChoices <- OneCellLeaves
  Edits = {"append"}
  IOMayFail = TRUE
SPECIFICATION Spec
PROPERTY AbortKeepsNodes
CHECK_DEADLOCK FALSE

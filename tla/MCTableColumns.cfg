\* Rows of one cell and of three, the third row open.
SPECIFICATION TableSpec
CONSTANTS
  Cellspecs <- Textcells
  MaxRows = 3
  MaxCols = 3
  Winwidths = {100}
CHECK_DEADLOCK FALSE
INVARIANT ColumnsApart

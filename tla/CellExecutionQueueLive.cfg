SPECIFICATION FairSpec
CONSTANTS
    a1 = a1
    a2 = a2
    b1 = b1
    x1 = x1
    cellA = cellA
    cellB = cellB
    NoItem = NoItem
    CellItems = {a1, b1}
    CodeItems = {x1}
    ResumedItems = {a1}
    NotebookCells = {cellA, cellB}
    CellOf <- MCCellOfTwo
    AllowErrors = {cellB}
    Hooks = {"restart"}
PROPERTIES
    ForcedCancelReturns
    QueuedItemSettles
CHECK_DEADLOCK FALSE

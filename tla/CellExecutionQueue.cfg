SPECIFICATION Spec
CONSTANTS
    a1 = a1
    a2 = a2
    b1 = b1
    x1 = x1
    cellA = cellA
    cellB = cellB
    NoItem = NoItem
    CellItems = {a1, a2, b1}
    CodeItems = {x1}
    ResumedItems = {a1}
    NotebookCells = {cellA, cellB}
    CellOf <- MCCellOf
    AllowErrors = {cellB}
    Hooks = {"interrupt"}
INVARIANTS
    TypeOK
    OneAtATime
    InOrder
    StopOnError
    DoneMeansDrained
    NoCellStartedTwice
    CellQueuedOnce
PROPERTIES
    NothingStartsAfterCancel
    ImplementsSerialExecution
CHECK_DEADLOCK FALSE

SPECIFICATION Spec
CONSTANTS
    a1 = a1
    a2 = a2
    b1 = b1
    cellA = cellA
    cellB = cellB
    d1 = d1
    None = None
    Cells = {cellA, cellB}
    Executions = {a1, b1}
    CellOf <- MCCellOf
    Background = {b1}
    Displays = {d1}
    Restored <- MCRestored
    Scenarios <- MCScenarios
    MaxMessages = 4
INVARIANTS
    TypeOK
    NoOutputRefused
PROPERTIES
    ImplementsNotebookOutputs
CHECK_DEADLOCK FALSE

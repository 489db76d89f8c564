SPECIFICATION Spec
CONSTANTS
    a1 = a1
    a2 = a2
    b1 = b1
    cellA = cellA
    cellB = cellB
    d1 = d1
    None = None
    Cells = {cellA, cellB}
    Executions = {a1, a2, b1}
    CellOf <- MCCellOfAgain
    Background = {a1}
    Displays = {d1}
    Restored <- MCRestored
    Scenarios <- MCText
    MaxMessages = 3
INVARIANTS
    NoOutputRefused
CHECK_DEADLOCK FALSE

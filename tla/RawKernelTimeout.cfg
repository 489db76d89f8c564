SPECIFICATION Spec
CONSTANTS
    MaxProcesses = 1
    None = None
INVARIANTS
    TimeoutReported
CHECK_DEADLOCK FALSE

SPECIFICATION Spec
CONSTANTS
    u1 = u1
    u2 = u2
    q1 = q1
    x1 = x1
    r1 = r1
    r2 = r2
    d1 = d1
    NoCall = NoCall
    UserStarts = {u1, u2}
    QuietStarts = {}
    CodeStarts = {}
    Restarts = {}
    Disposals = {d1}
    MayDie = {}
INVARIANTS
    FailedStartLeavesNoSession
CHECK_DEADLOCK FALSE

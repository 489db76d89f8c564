SPECIFICATION FairSpec
CONSTANTS
    u1 = u1
    u2 = u2
    q1 = q1
    x1 = x1
    r1 = r1
    r2 = r2
    d1 = d1
    NoCall = NoCall
    UserStarts = {u1}
    QuietStarts = {}
    CodeStarts = {x1}
    Restarts = {r1}
    Disposals = {}
    MayDie = {}
PROPERTIES
    CallsEnd
CHECK_DEADLOCK FALSE

SPECIFICATION FairSpec
CONSTANTS
    u1 = u1
    u2 = u2
    q1 = q1
    x1 = x1
    r1 = r1
    r2 = r2
    d1 = d1
    NoCall = NoCall
    UserStarts = {u1}
    QuietStarts = {q1}
    CodeStarts = {}
    Restarts = {r1}
    Disposals = {d1}
    MayDie = {}
INVARIANTS
    TypeOK
    DisposedHasNoSession
    SharedSession
    NoSessionLost
PROPERTIES
    CallsEnd
CHECK_DEADLOCK FALSE

SPECIFICATION Services
CONSTANTS
    u1 = u1
    q1 = q1
    x1 = x1
    d1 = d1
    NoCall = NoCall
    UserStarts = {u1}
    QuietStarts = {q1}
    CodeStarts = {x1}
    Restarts = {}
    Disposals = {d1}
    MayDie = {u1, q1, x1}
    None = None
    Listeners = {l1, l2}
    WithThis = {l2}
    Events = {e1, e2, e3}
    Cells = {a}
    Resumed = {r}
    Codes = {x, y}
    Documents = {d}
    Runs = {r1, r2}
    Users = {b1}
    Quiet = {b2}
    ConnectorRestarts = {b3}
    Interrupts = {b3}
    MaxConnected = 2
    Notebooks = {n1, n2}
    Connections = {c1, c2}
    Remote = {c2}
    MaxKernels = 3
    Script <- MCScript
    MaxProcesses = 3
INVARIANTS
    ServicesTypeOK
    NoDeadSession
    InProgressMeansHandling
    EventsInOrder
    NoListenerMissed
    ExecutionKnown
    OneStart
    KernelMapsAgree
    NoOrphanKernel
    DeactivationWaits
    NoWidgetOutputLost
    NoWidgetOutputTwice
    OneProcess
    StatusAgrees
    NothingLeft
PROPERTIES
    AnnouncedOnce
    ReplacedStartsNoCell
    HandlersFirst
    EverythingServed
    ExitStopsNoOther
    NobodyWaits
CHECK_DEADLOCK FALSE

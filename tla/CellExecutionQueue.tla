------------------------- MODULE CellExecutionQueue -------------------------
(***************************************************************************)
(* One CellExecutionQueue of a notebook                                    *)
(* (src/kernels/execution/cellExecutionQueue.ts) with the CellExecution    *)
(* and CodeExecution objects it holds (cellExecution.ts, codeExecution.ts) *)
(* and the calls NotebookKernelExecution makes on it (kernelExecution.ts). *)
(*                                                                         *)
(* The extension host runs JavaScript on one thread: an action is what     *)
(* runs between two awaits.  The queue's loop is an async function whose   *)
(* program counter is loop; the value "head" stands for the top of the     *)
(* while loop, which is reached and left without an await, so every other  *)
(* handler is disabled there (Quiescent).                                  *)
(*                                                                         *)
(* The kernel, its session promise and VS Code are the environment.        *)
(***************************************************************************)
EXTENDS Integers, Sequences, FiniteSets, SequencesExt

CONSTANTS
    CellItems,    \* the CellExecution objects that may be queued
    CodeItems,    \* the CodeExecution objects that may be queued (third-party code)
    ResumedItems, \* the cells queued by resumeCell: a server's kernel is executing them
    NotebookCells,\* the cells of the notebook
    CellOf,       \* the notebook cell a CellExecution executes
    AllowErrors,  \* the notebook cells tagged raises-exception
    Hooks,        \* the hooks of the kernel that may cancel the queue
    NoItem        \* lastCellExecution before the first iteration

Items == CellItems \cup CodeItems

ASSUME ConstantsAssumption ==
    /\ CellItems \cap CodeItems = {}
    /\ ResumedItems \subseteq CellItems
    /\ CellOf \in [CellItems -> NotebookCells]
    /\ AllowErrors \subseteq NotebookCells
    /\ Hooks \subseteq {"interrupt", "restart"}
    /\ NoItem \notin Items

VARIABLES
    session,          \* the session promise: "pending", "open" or "failed"
    kernelDead,       \* the session's status is dead or terminating
    notebookIsClosed, \* notebook.isClosed
    deletedCells,     \* notebook cells whose document is closed
    queue,            \* queueOfItemsToExecute
    failed,           \* cancelledOrCompletedWithErrors
    loop,             \* where executeQueuedCells / start is
    current,          \* itemToExecute, which is also lastCellExecution
    sawClosed,        \* the local notebookClosed of executeQueuedCells
    started,          \* items whose request went to the kernel
    acked,            \* cells whose NotebookCellExecution was started by a kernel message
    completed,        \* items with _completed
    cancelHandled,    \* items with cancelHandled
    result,           \* the deferred _result / _done of every item
    interrupting,     \* code items whose cancel() awaits kernel.interrupt()
    calls,            \* outside calls of cancel() that have not returned
    waiting,          \* the items the Promise.all of each caller waits for
    enqueued,         \* history: the items in the order they were queued
    cancelled,        \* history: an outside cancel() was called
    threw             \* history: the resumed cells whose start() threw

envVars   == <<session, kernelDead, notebookIsClosed, deletedCells>>
queueVars == <<queue, failed>>
loopVars  == <<loop, current, sawClosed>>
itemVars  == <<started, acked, completed, cancelHandled, result, interrupting>>
callVars  == <<calls, waiting>>
histVars  == <<enqueued, cancelled, threw>>
vars == <<envVars, queueVars, loopVars, itemVars, callVars, histVars>>

\* The outside callers of cancel(): onWillInterrupt does not force; onWillRestart
\* and onWillCancel ("restart") and the closing of the notebook ("close") do.
OutsideCallers == {"interrupt", "restart", "close"}
Callers == OutsideCallers \cup {"loop"}
\* Mutant: a restart waits for the running cell, as an interrupt does.
ForcedMutant(caller) == FALSE

Forced(caller) == caller \in {"restart", "close"}

LoopStates ==
    {"idle", "session", "head", "running", "threw", "cancel", "cancelCells", "stopped", "done"}
Results == {"pending", "resolved", "rejected"}

EnvTypeOK ==
    /\ session \in {"pending", "open", "failed"}
    /\ kernelDead \in BOOLEAN
    /\ notebookIsClosed \in BOOLEAN
    /\ deletedCells \subseteq NotebookCells

QueueTypeOK == queue \in Seq(Items) /\ failed \in BOOLEAN

LoopTypeOK ==
    /\ loop \in LoopStates
    /\ current \in Items \cup {NoItem}
    /\ sawClosed \in BOOLEAN

ItemTypeOK ==
    /\ started \subseteq Items
    /\ acked \subseteq CellItems
    /\ completed \subseteq Items
    /\ cancelHandled \subseteq Items
    /\ result \in [Items -> Results]
    /\ interrupting \subseteq CodeItems

CallTypeOK ==
    /\ calls \subseteq OutsideCallers
    /\ waiting \in [Callers -> SUBSET Items]

HistTypeOK == enqueued \in Seq(Items) /\ cancelled \in BOOLEAN /\ threw \subseteq ResumedItems

TypeOK ==
    EnvTypeOK /\ QueueTypeOK /\ LoopTypeOK /\ ItemTypeOK /\ CallTypeOK /\ HistTypeOK

Init ==
    /\ session = "pending"
    /\ kernelDead = FALSE
    /\ notebookIsClosed = FALSE
    /\ deletedCells = {}
    /\ queue = <<>>
    /\ failed = FALSE
    /\ loop = "idle"
    /\ current = NoItem
    /\ sawClosed = FALSE
    /\ started = {}
    /\ acked = {}
    /\ completed = {}
    /\ cancelHandled = {}
    /\ result = [i \in Items |-> "pending"]
    /\ interrupting = {}
    /\ calls = {}
    /\ waiting = [c \in Callers |-> {}]
    /\ enqueued = <<>>
    /\ cancelled = FALSE
    /\ threw = {}

-----------------------------------------------------------------------------
(* Promises and sequences *)

Quiescent == loop # "head"

Settled(i) == result[i] # "pending"

\* Deferred.resolve and Deferred.reject: the first one counts.
Settling(S, outcome) ==
    [i \in Items |-> IF i \in S /\ ~Settled(i) THEN outcome ELSE result[i]]

FirstPosition(q, i) ==
    CHOOSE p \in DOMAIN q : q[p] = i /\ \A r \in 1..(p - 1) : q[r] # i

\* Mutant: an item that was executed stays in the queue.
WithoutFirstMutant(q, i) == q

\* splice(indexOf(item), 1), which does nothing when the item is not there.
WithoutFirst(q, i) ==
    IF i \in ToSet(q) THEN RemoveAt(q, FirstPosition(q, i)) ELSE q

CodePositions(q) == {p \in DOMAIN q : q[p] \in CodeItems}

\* The increasing enumeration of a finite set of positions (a set of one function).
Enumerations(P) ==
    {f \in [1..Cardinality(P) -> P] : \A m, n \in 1..Cardinality(P) : m < n => f[m] < f[n]}

-----------------------------------------------------------------------------
(* cancel() of one item *)

\* Mutant: code that has not been started is not cancelled.
DequeuedMutant(S, forced) ==
    {i \in (S \cap CellItems) \ (cancelHandled \cup completed) :
        i \in started => forced \/ i \notin acked}

\* The items whose cancel() ends them at once: nothing was sent to the kernel, or
\* it is a cell and either force is used or the kernel has not acknowledged it.
Dequeued(S, forced) ==
    {i \in S \ (cancelHandled \cup completed) :
        i \in started => i \in CellItems /\ (forced \/ i \notin acked)}

\* The items whose cancel() has to wait: a cell for its result, code for the
\* interrupt of the kernel it asks for.
Awaited(S, forced) == (S \ (cancelHandled \cup completed)) \ Dequeued(S, forced)

\* Mutant: the cancel() of a cell interrupts the kernel as well.
CancelItemsMutant(S, forced) ==
    LET ended == Dequeued(S, forced) IN
    /\ cancelHandled' = cancelHandled \cup ended
    /\ completed' = completed \cup (ended \cap CellItems)
    /\ result' = Settling(ended, "resolved")
    /\ interrupting' = interrupting \cup Awaited(S, forced)
    /\ UNCHANGED <<started, acked>>

CancelItems(S, forced) ==
    LET ended == Dequeued(S, forced) IN
    /\ cancelHandled' = cancelHandled \cup ended
    /\ completed' = completed \cup (ended \cap CellItems)
    /\ result' = Settling(ended, "resolved")
    /\ interrupting' = interrupting \cup (Awaited(S, forced) \cap CodeItems)
    /\ UNCHANGED <<started, acked>>

\* The Promise.all of a caller of cancel() or cancelQueuedCells() has settled.
AwaitOver(c) ==
    \A i \in waiting[c] : IF i \in CellItems THEN Settled(i) ELSE i \notin interrupting

-----------------------------------------------------------------------------
(* Queueing: getOrCreateCellExecutionQueue followed by enqueue or resumeCell *)

\* Mutant: a queue that has run dry is used again.
AcceptingMutant == ~failed

\* A queue that failed, or that has run dry, is replaced by a new one; what is
\* queued on this one is its first item or arrives while others are pending.
Accepting == loop = "idle" \/ (queue # <<>> /\ ~failed)

\* Mutant: only the cell being executed is recognized.
InQueueMutant(cell) == current \in CellItems /\ CellOf[current] = cell

\* A cell that is in the queue is not queued again: enqueue returns the execution it has.
InQueue(cell) == \E i \in ToSet(queue) \cap CellItems : CellOf[i] = cell

\* Mutant: what is queued last is executed first.
EnqueueMutant(i) ==
    /\ Quiescent
    /\ Accepting
    /\ i \notin ToSet(enqueued)
    /\ i \in CellItems => ~InQueue(CellOf[i])
    /\ queue' = <<i>> \o queue
    /\ enqueued' = Append(enqueued, i)
    /\ loop' = IF loop = "idle" THEN "session" ELSE loop
    /\ UNCHANGED <<failed, current, sawClosed, cancelled, threw, itemVars, callVars, envVars>>

Enqueue(i) ==
    /\ Quiescent
    /\ Accepting
    /\ i \notin ToSet(enqueued)
    /\ i \in CellItems => ~InQueue(CellOf[i])
    /\ queue' = Append(queue, i)
    /\ enqueued' = Append(enqueued, i)
    /\ loop' = IF loop = "idle" THEN "session" ELSE loop
    /\ UNCHANGED <<failed, current, sawClosed, cancelled, threw, itemVars, callVars, envVars>>

-----------------------------------------------------------------------------
(* cancel() of the queue, from outside *)

Cancel(c) ==
    /\ Quiescent
    /\ loop # "idle"
    /\ c \in Hooks \ calls
    /\ failed' = TRUE
    /\ cancelled' = TRUE
    /\ calls' = calls \cup {c}
    /\ waiting' = [waiting EXCEPT ![c] = Awaited(ToSet(queue), Forced(c))]
    /\ CancelItems(ToSet(queue), Forced(c))
    /\ UNCHANGED <<queue, enqueued, threw, loopVars, envVars>>

CancelReturns(c) ==
    /\ Quiescent
    /\ c \in calls
    /\ AwaitOver(c)
    /\ queue' = <<>>
    /\ calls' = calls \ {c}
    /\ waiting' = [waiting EXCEPT ![c] = {}]
    /\ UNCHANGED <<failed, loopVars, itemVars, envVars, histVars>>

\* The token of queueCode is cancelled by the extension that queued the code.
TokenCancelled(i) ==
    /\ Quiescent
    /\ i \in ToSet(enqueued) \cap CodeItems
    /\ i \notin cancelHandled \cup completed \cup interrupting
    /\ CancelItems({i}, FALSE)
    /\ UNCHANGED <<queueVars, loopVars, callVars, envVars, histVars>>

\* kernel.interrupt(), which cancel() awaits without a time-out, has settled: cancel() of the code item disposes the request,
\* which rejects its done promise unless the kernel has replied by now.
CodeInterrupted(i) ==
    /\ Quiescent
    /\ i \in interrupting
    /\ interrupting' = interrupting \ {i}
    /\ completed' = completed \cup {i}
    /\ result' = Settling({i}, "rejected")
    /\ UNCHANGED <<started, acked, cancelHandled, queueVars, loopVars, callVars, envVars, histVars>>

\* A cell is deleted: its document closes, which ends its execution if it was started.
DeleteCell(cell) ==
    /\ Quiescent
    /\ cell \notin deletedCells
    /\ deletedCells' = deletedCells \cup {cell}
    /\ LET ended == {i \in (started \cap CellItems) \ completed : CellOf[i] = cell} IN
         /\ completed' = completed \cup ended
         /\ result' = Settling(ended, "resolved")
    /\ UNCHANGED <<session, kernelDead, notebookIsClosed, started, acked, cancelHandled,
                   interrupting, queueVars, loopVars, callVars, histVars>>

\* The notebook is closed: every document closes, and unless the queue has failed
\* and is empty its items are cancelled by force.
CloseNotebook ==
    LET ended   == (started \cap CellItems) \ completed
        pending == ToSet(queue) \ ended IN
    /\ Quiescent
    /\ ~notebookIsClosed
    /\ notebookIsClosed' = TRUE
    /\ deletedCells' = NotebookCells
    /\ completed' = completed \cup ended \cup (Dequeued(pending, TRUE) \cap CellItems)
    /\ result' = Settling(ended \cup Dequeued(pending, TRUE), "resolved")
    /\ cancelHandled' = cancelHandled \cup Dequeued(pending, TRUE)
    /\ interrupting' = interrupting \cup (Awaited(pending, TRUE) \cap CodeItems)
    /\ IF loop # "idle" /\ (~failed \/ queue # <<>>)
         THEN /\ failed' = TRUE
              /\ cancelled' = TRUE
              /\ calls' = calls \cup {"close"}
              /\ waiting' = [waiting EXCEPT !["close"] = Awaited(pending, TRUE)]
         ELSE UNCHANGED <<failed, cancelled, callVars>>
    /\ UNCHANGED <<session, kernelDead, queue, loopVars, started, acked, enqueued, threw>>

-----------------------------------------------------------------------------
(* The kernel and its session *)

SessionSettles ==
    /\ Quiescent
    /\ session = "pending"
    /\ session' \in {"open", "failed"}
    /\ UNCHANGED <<kernelDead, notebookIsClosed, deletedCells, queueVars, loopVars, itemVars,
                   callVars, histVars>>

KernelDies ==
    /\ Quiescent
    /\ session = "open"
    /\ ~kernelDead
    /\ kernelDead' = TRUE
    /\ UNCHANGED <<session, notebookIsClosed, deletedCells, queueVars, loopVars, itemVars,
                   callVars, histVars>>

\* The first message for a cell's request.
Acknowledge(i) ==
    /\ Quiescent
    /\ ~kernelDead
    /\ i \in (started \cap CellItems) \ (completed \cup acked)
    /\ acked' = acked \cup {i}
    /\ UNCHANGED <<started, completed, cancelHandled, result, interrupting, queueVars, loopVars,
                   callVars, envVars, histVars>>

\* The request ends: a reply, or an error because the kernel died or was restarted.  The
\* handler of a resumed cell completes it either way.  A late reply changes nothing.
Reply(i) ==
    /\ Quiescent
    /\ i \in started
    /\ completed' = completed \cup {i}
    /\ \E outcome \in {"resolved", "rejected"} :
          /\ kernelDead /\ i \notin ResumedItems => outcome = "rejected"
          /\ result' = Settling({i}, outcome)
    /\ UNCHANGED <<started, acked, cancelHandled, interrupting, queueVars, loopVars, callVars,
                   envVars, histVars>>

-----------------------------------------------------------------------------
(* The loop *)

\* The loop awaits cancel() (state = "cancel") or cancelQueuedCells().
AwaitCancel(S, state) ==
    /\ loop' = state
    /\ waiting' = [waiting EXCEPT !["loop"] = Awaited(S, FALSE)]
    /\ CancelItems(S, FALSE)
    /\ calls' = calls

SessionReady ==
    /\ loop = "session"
    /\ session = "open"
    /\ loop' = "head"
    /\ UNCHANGED <<current, sawClosed, queueVars, itemVars, callVars, envVars, histVars>>

\* The await of the session throws: the catch of start() cancels the cells and ends.
SessionLost ==
    /\ loop = "session"
    /\ session = "failed"
    /\ failed' = TRUE
    /\ AwaitCancel(ToSet(queue) \cap CellItems, "stopped")
    /\ UNCHANGED <<queue, current, sawClosed, envVars, histVars>>

LoopExit ==
    /\ loop = "head"
    /\ queue = <<>>
    /\ loop' = "done"
    /\ UNCHANGED <<current, sawClosed, queueVars, itemVars, callVars, envVars, histVars>>

\* The loop goes on to the next item.
NextItem ==
    /\ loop' = "head"
    /\ UNCHANGED <<callVars, itemVars>>

\* Mutant: the failure of an item does not stop the queue.
BailMutant(i, ok, closed) == closed \/ failed

\* Whether an outcome stops the queue.
Bail(i, ok, closed) ==
    closed \/ failed \/ (~ok /\ ~(i \in CellItems /\ CellOf[i] \in AllowErrors))

\* From the removal of item i to the end of the loop's body.
Conclude(i, ok, closed) ==
    LET rest  == WithoutFirst(queue, i)
        cells == ToSet(rest) \cap CellItems
        codes == ToSet(rest) \cap CodeItems
        bail  == Bail(i, ok, closed)
        mixed == bail /\ cells # {} /\ codes # {}
        all   == ~mixed /\ (kernelDead \/ (bail /\ (closed \/ cells # {}))) IN
    /\ sawClosed' = closed
    /\ queue' = rest
    /\ failed' = (failed \/ bail \/ all)
    /\ \/ mixed /\ AwaitCancel(cells, "cancelCells")
       \/ all   /\ AwaitCancel(ToSet(rest), "cancel")
       \/ ~mixed /\ ~all /\ NextItem

\* A cell of a closed notebook, or of a queue that has failed, is passed over.
Skipped(i) == i \in CellItems /\ (notebookIsClosed \/ failed)

LoopSkip ==
    /\ loop = "head"
    /\ queue # <<>>
    /\ Skipped(Head(queue))
    /\ current' = Head(queue)
    /\ Conclude(Head(queue), TRUE, sawClosed \/ notebookIsClosed)
    /\ UNCHANGED <<envVars, histVars>>

\* start() of an item: it was cancelled, its cell is gone, the session has no kernel, or
\* the item is sent.  A resumed cell is not sent: its execution is acknowledged already.
StartItem(i) ==
    IF i \in cancelHandled THEN UNCHANGED itemVars
    ELSE \/ /\ i \in CellItems /\ CellOf[i] \in deletedCells
            /\ result' = Settling({i}, "resolved")
            /\ UNCHANGED <<started, acked, completed, cancelHandled, interrupting>>
         \/ /\ i \in CellItems => CellOf[i] \notin deletedCells
            /\ i \notin ResumedItems
            /\ result' = Settling({i}, "rejected")
            /\ completed' = completed \cup ({i} \cap CellItems)
            /\ UNCHANGED <<started, acked, cancelHandled, interrupting>>
         \/ /\ i \in CellItems => CellOf[i] \notin deletedCells
            /\ started' = started \cup {i}
            /\ acked' = acked \cup ({i} \cap ResumedItems)
            /\ UNCHANGED <<completed, cancelHandled, result, interrupting>>

LoopStart ==
    /\ loop = "head"
    /\ queue # <<>>
    /\ ~Skipped(Head(queue))
    /\ current' = Head(queue)
    /\ loop' = "running"
    /\ StartItem(Head(queue))
    /\ UNCHANGED <<sawClosed, queueVars, callVars, envVars, histVars>>

\* resume() throws when the session has no kernel: nothing settles the cell's result.
ResumeThrows ==
    /\ loop = "head"
    /\ queue # <<>>
    /\ ~Skipped(Head(queue))
    /\ Head(queue) \in ResumedItems \ cancelHandled
    /\ current' = Head(queue)
    /\ loop' = "threw"
    /\ threw' = threw \cup {Head(queue)}
    /\ UNCHANGED <<sawClosed, enqueued, cancelled, queueVars, itemVars, callVars, envVars>>

\* Mutant: the loop does not await the item it started.
ItemDoneMutant ==
    /\ loop = "running"
    /\ Conclude(current, TRUE, sawClosed)
    /\ UNCHANGED <<current, envVars, histVars>>

\* The promise of start() settles, with success or not.
Succeeded == loop = "running" /\ (current \in CellItems => result[current] = "resolved")

\* The promise of start() settles.  That of a code item never rejects (a second start()
\* of the same code may, but it is only met when the queue has failed already).
ItemDone ==
    /\ (loop = "running" /\ Settled(current)) \/ loop = "threw"
    /\ Conclude(current, Succeeded, sawClosed)
    /\ UNCHANGED <<current, envVars, histVars>>

\* cancel() returns to the loop, which breaks.
LoopCancelled ==
    /\ loop = "cancel"
    /\ AwaitOver("loop")
    /\ queue' = <<>>
    /\ loop' = "done"
    /\ waiting' = [waiting EXCEPT !["loop"] = {}]
    /\ UNCHANGED <<failed, current, sawClosed, calls, itemVars, envVars, histVars>>

\* Mutant: cancelQueuedCells clears the queue as cancel() does.
RequeueMutant == queue' = <<>>

\* cancelQueuedCells appends the code items of the queue to the queue.
Requeue == \E f \in Enumerations(CodePositions(queue)) :
               queue' = queue \o [k \in 1..Cardinality(CodePositions(queue)) |-> queue[f[k]]]

\* cancelQueuedCells returns to the loop: the dead kernel check ends its body.
CellsCancelled ==
    /\ loop = "cancelCells"
    /\ AwaitOver("loop")
    /\ Requeue
    /\ \/ kernelDead /\ AwaitCancel(ToSet(queue), "cancel")
       \/ /\ ~kernelDead
          /\ loop' = "head"
          /\ waiting' = [waiting EXCEPT !["loop"] = {}]
          /\ UNCHANGED <<calls, itemVars>>
    /\ UNCHANGED <<failed, current, sawClosed, envVars, histVars>>

\* cancelQueuedCells returns to the catch of start(): nothing runs the queue any more.
Stopped ==
    /\ loop = "stopped"
    /\ AwaitOver("loop")
    /\ Requeue
    /\ loop' = "done"
    /\ waiting' = [waiting EXCEPT !["loop"] = {}]
    /\ UNCHANGED <<failed, current, sawClosed, calls, itemVars, envVars, histVars>>

-----------------------------------------------------------------------------

Loop ==
    \/ SessionReady \/ SessionLost
    \/ LoopExit \/ LoopSkip \/ LoopStart \/ ResumeThrows \/ ItemDone
    \/ LoopCancelled \/ CellsCancelled \/ Stopped

Next ==
    \/ \E i \in Items : Enqueue(i) \/ Reply(i)
    \/ \E i \in CellItems : Acknowledge(i)
    \/ \E i \in CodeItems : TokenCancelled(i) \/ CodeInterrupted(i)
    \/ \E c \in OutsideCallers : Cancel(c) \/ CancelReturns(c)
    \/ \E cell \in NotebookCells : DeleteCell(cell)
    \/ CloseNotebook
    \/ SessionSettles
    \/ KernelDies
    \/ Loop

Spec == Init /\ [][Next]_vars

\* Continuations whose promise has settled run.
EventLoopFairness ==
    /\ WF_vars(Loop)
    /\ \A c \in OutsideCallers : WF_vars(CancelReturns(c))

\* The kernel answers interrupt requests.  CodeExecution.cancel awaits kernel.interrupt()
\* without a time-out, so the event loop alone does not guarantee it.
InterruptFairness == \A i \in CodeItems : WF_vars(CodeInterrupted(i))

\* The session promise settles, and the kernel ends every request.
KernelFairness ==
    /\ WF_vars(SessionSettles)
    /\ \A i \in Items : WF_vars(Reply(i))
    /\ InterruptFairness

FairSpec == Spec /\ EventLoopFairness
AnsweringSpec == FairSpec /\ KernelFairness

-----------------------------------------------------------------------------
(* Safety *)

Before(i, j) == \E m, n \in DOMAIN enqueued : m < n /\ enqueued[m] = i /\ enqueued[n] = j

\* The queue executes one item at a time: an item that was sent to the kernel and has
\* no result yet is the one the loop awaits (the serial await in executeQueuedCells),
\* whatever cancels, duplicates and closed documents did to the queue meanwhile.
OneAtATime ==
    \A i \in started : ~Settled(i) => loop = "running" /\ current = i

\* Items are processed in the order they were queued (cellExecutionQueue.ts, class
\* comment): when an item has been started, the ones queued before it have a result.
\* Excepted are cells passed over because their notebook is closed, and resumed cells
\* whose start threw: nothing settles either.
InOrder ==
    \A i, j \in Items :
        Before(i, j) /\ j \in started
            => Settled(i) \/ i \in threw \/ (i \in CellItems /\ notebookIsClosed)

\* A cell that failed without raises-exception stops the cells queued behind it.
StopOnError ==
    \A i, j \in CellItems :
        Before(i, j) /\ result[i] = "rejected" /\ CellOf[i] \notin AllowErrors => j \notin started

\* Once the loop has ended nothing is left in the queue: it is never started again,
\* so a leftover would never run.  (After a failed session code is left: see CodeSettles.)
DoneMeansDrained == loop = "done" => queue = <<>> \/ session = "failed"

\* CellExecution.start never meets a cell it has started (the error logged there).
NoCellStartedTwice ==
    loop = "head" /\ queue # <<>> /\ Head(queue) \in CellItems => Head(queue) \notin started

\* A notebook cell is at most once in the queue.
CellQueuedOnce ==
    \A m, n \in DOMAIN queue :
        queue[m] \in CellItems /\ queue[n] \in CellItems /\ CellOf[queue[m]] = CellOf[queue[n]]
            => m = n

\* "if Cell1 completes then Cell2 should not start (it must be cancelled before hand)"
\* (kernelExecution.ts, onWillInterrupt): after an interrupt, a restart or the closing of
\* the notebook reached the queue, no item of it is sent to the kernel any more.
NothingStartsAfterCancel == [][cancelled => started' = started]_vars

\* CodeExecution.start logs "this should never happen" when it meets code it has started.
NoCodeStartedTwice ==
    loop = "head" /\ queue # <<>> /\ Head(queue) \in CodeItems => Head(queue) \notin started

-----------------------------------------------------------------------------
(* Liveness *)

\* A forced cancel (a restart, a closed notebook) that waits for no code returns, although
\* the kernel never answers: it waits for no cell.  For code it awaits the interrupt it
\* requests, so it returns when interrupt requests are answered, whatever is not.
ForcedCancelReturns ==
    LET forced == {"restart", "close"} IN
    /\ \A c \in forced : c \in calls /\ waiting[c] \cap interrupting = {} ~> c \notin calls
    /\ InterruptFairness => \A c \in forced : c \in calls ~> c \notin calls

\* When the kernel ends every request, every cell queued in an open notebook, and all code
\* queued on an open session, gets a result, so that executeCell and executeCode end: all
\* but a resumed cell for which the session has no kernel, whose start throws.
QueuedItemSettles ==
    KernelFairness =>
        \A i \in Items :
            i \in ToSet(queue) /\ ~notebookIsClosed /\ (i \in CellItems \/ session = "open")
                ~> Settled(i) \/ i \in threw

\* executeCode completes "when the execution is complete": all queued code gets a result.
CodeSettles == \A i \in CodeItems : i \in ToSet(queue) ~> Settled(i)

\* "If cells are cancelled, they are not processed, & that too counts as completion":
\* every queued cell gets a result.
CellSettles == \A i \in CellItems : i \in ToSet(queue) ~> Settled(i)
=============================================================================

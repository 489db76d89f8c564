# A TLA+ development for the DarkPyonix notebook extension

The repository is a fork of the Jupyter extension of VS Code. Its core logic is in
`src/src/kernels`: it starts kernels, keeps one session per notebook, queues the cells a
user runs and the code other extensions submit, and copes with interrupts, restarts,
dying kernels and closing notebooks. All of it is JavaScript on the one thread of the
extension host, so there are no data races, and all of its difficulty is in what happens
*between two awaits*: another handler runs, and what was read before the await is old.

In every module here **an action is what runs between two awaits**. An async function
is a program counter; an `await` of a promise is a state in which other actions are
enabled; what runs synchronously on several objects (an event and its listeners, the
`cancel()` of every item of a queue) is one action.

## 1. Inventory

| component (under `src/src/`) | state it keeps | operations | hard part | what makes it correct |
|---|---|---|---|---|
| **cell execution queue** `kernels/execution/cellExecutionQueue.ts` | `queueOfItemsToExecute`, `cancelledOrCompletedWithErrors`, `lastCellExecution`, the loop | `queueCell`, `queueCode`, `resumeCell`, `cancel`, `cancelQueuedCells`, `start`, `executeQueuedCells` | the loop awaits an item while everything else edits the queue | one item at a time, in order; errors and cancels stop the rest; everything queued gets a result |
| **cell execution** `…/cellExecution.ts` | `started`, `_completed`, `cancelHandled`, deferred result, VS Code's execution | `start`, `resume`, `cancel`, completions | cancel before / after the request, before / after the kernel's first message; the document closes | settles once; is sent once |
| **code execution** `…/codeExecution.ts` | the same for third-party code | `start`, `cancel` (which interrupts the kernel), `dispose` | the reply races with the interrupt | settles |
| **notebook executions** `kernels/kernelExecution.ts` | the queue of each notebook, its hooks on the kernel | `executeCell`, `resumeCellExecution`, `executeCode`, `cancel`, the `will…` hooks | which queue is used when the old one has failed or run dry; who awaits the handlers of the start | the old queue starts no cell; handlers run first; everything ends |
| **kernel** `kernels/kernel.ts` | session and its promise, `startCancellation`, `_restartPromise`, `_interruptPromise`, post-start event, `_disposing` | `start`, `restart`, `interrupt`, `dispose`, `createJupyterSession`, `initializeAfterStart` | these four run over each other; shared promises are cleared by several of them | one live session; a disposed kernel has none; callers return |
| **kernel providers** `kernels/kernelProvider.*.ts` | kernels by notebook, pending disposals | `getOrCreate`, replacement, `dispose`, removal of a server | disposal is asynchronous and the new kernel exists before the old one is gone | one kernel per notebook |
| **raw sessions** `kernels/raw/session`, `kernels/raw/launcher` | process, sockets, status, `isDisposing` | `start`, `restart` (swaps the process), `dispose`, exit of the process | exit during restart, late messages of the old process | no status or message of an old process reaches the new one |
| **Jupyter sessions** `kernels/jupyter/session`, `kernels/common` | wrapped JupyterLab session | `restart`, `waitForIdle`, `shutdown` | restart waits for idle with a timeout | a session no one uses is shut down |
| **Jupyter servers, connections** `kernels/jupyter/launcher`, `…/connection` | one start promise, addresses, registered providers | start, retry, remove | callers share one start that fails | a failed start is not cached |
| **messages of a cell** `…/cellExecutionMessageHandler.ts`, `cellExecutionCreator.ts` | outputs, `clear_output`, display ids, the execution wrapper | iopub handling, creation and end of the wrapper | updates of outputs are queued and late | outputs belong to their own execution |
| **last executions** `…/lastCellExecutionTracker.ts` | remembered message ids | track, resume, delete | window reload while a cell executes | a resumed cell is not queued as new |
| **monitors** `kernels/kernelAutoReConnectMonitor.ts`, `…RestartMonitor`, `…CrashMonitor` | progress shown per kernel | status changes | status events out of order | shown once, removed |
| **async utilities** `platform/common/utils/{async,promises,events}.ts` | deferreds, promise chains, asynchronous events | `fireAsync`, `chainFinally`, `raceTimeout` | cancelled delivery, re-entrance | every listener is called once |
| **controllers, connector** `notebooks/controllers` | controller of each notebook, pending starts | select, connect, retry | start fails while another controller is selected | cells run on the selected kernel |
| **interactive window** `interactive-window` | promise chains of execution and insertion | submit, restart, close | cells added while the kernel restarts | order of submission |
| **extension API** `standalone/api` | wrapped kernels, access | `executeCode`, start hooks | code submitted from the start hook | `executeCode` returns |
| **ipywidgets** `notebooks/controllers/ipywidgets`, `webviews/webview-side/ipywidgets`, `kernels/common/kernelSocketWrapper.ts` | message hooks of both sides, what each awaits of the other | hooks of the socket, mirrored requests, message hooks | kernel and webview wait for each other | an output is shown once; every message is released |
| finders, dependencies, errors, variables, debugging, export, webviews, platform, telemetry | caches, user interface | | | |

How they interact. `VSCodeNotebookController` gets the notebook's kernel from the
provider (through `kernelConnector`, which starts it), and calls `executeCell` of the
`NotebookKernelExecution` that belongs to it. That awaits `kernel.start()`, creates a
queue or takes the present one, and pushes a `CellExecution`; the queue's loop awaits the
session promise and then each item. A `CellExecution` sends the request over the session
and settles when the reply and the outputs are in. The kernel calls the *hooks*
`NotebookKernelExecution` registered: `willInterrupt`, `willRestart` and `willCancel`
cancel the queue, and the kernel awaits them. The session's `onDidDispose` and status
events lead back into the kernel; kernel death is seen by the queue as a status it reads
after each item. Third-party extensions enter through `executeCode`, and through the
asynchronous event `onPostInitialized`, whose handlers the kernel's `start` awaits.

The hazards that follow are listed, at their lines, in `PROJECT.json`; each names the
properties that would catch it going wrong, or says why none does.

## 2. Plan

What the plan held, in its order, and where it stands:

1. **`CellExecutionQueue`**, **`SerialExecution`** (what the queue promises),
   **`CellQueueRefinement`** (the one implements the other), **`CellExecutionQueue_proofs`**.
   Done: every safety property of the queue, and the refinement, are theorems; liveness is
   left to TLC.
2. **`KernelLifecycle`** and **`KernelLifecycle_proofs`**: start, restart, dispose, death
   of the session, the post-start event. Done for one restart and one disposal; every safety
   property is a theorem, under the hypotheses it needs.
3. **`CellOutputs`**, **`NotebookOutputs`** (what the cells promise to show),
   **`CellOutputsRefinement`**: the messages of a cell and the wrappers they edit it through. Done,
   with **`CellOutputs_proofs`**; the refinement is left to TLC.
4. **`NotebookKernelExecution`**: several queues of one notebook while its kernel starts, restarts
   and its handlers execute code. Done, with **`NotebookKernelExecution_proofs`**; it took in the start
   hook that was a module of its own in the plan.
5. **`AsyncEmitter`**, **`KernelProvider`**, **`RawKernelConnection`**, **`WidgetMessages`**,
   **`LastExecution`**, **`KernelConnector`**. Done, checked together by **`MCServices`**. The raw
   connection, the notebook and the widgets are proved in modules of their own
   (**`RawKernelConnection_proofs`**, **`NotebookKernelExecution_proofs`**, **`WidgetMessages_proofs`**), which
   **`Services_proofs`** lifts to the services; the provider, the emitter, the connector and `LastExecution`
   are proved there. Every safety property and every type invariant is a theorem. Left to TLC: liveness and the
   refinement of `CellOutputs`.

A module of interrupts (`_interruptPromise`) was dropped: interrupts that overlap return each other's
result (`kernel.ts:301`), and what an interrupt does to the queue has been done by then.

## 3. `CellExecutionQueue`

The state of one queue object, of the items it holds, and of what they see of the world.

| model | code |
|---|---|
| `queue`, `failed` | `queueOfItemsToExecute`, `cancelledOrCompletedWithErrors` |
| `loop` | where the promise of `start()` is: `idle` (not yet called), `session` (awaits the session), `head` (top of the `while`), `running` (awaits the item), `cancel` / `cancelCells` / `stopped` (awaits `cancel()`, `cancelQueuedCells()`, the latter in the `catch`), `done` |
| `started`, `acked`, `completed`, `cancelHandled`, `result` | fields of the items; `acked` is `execution.started` of VS Code's execution, which `cancel()` of a cell reads |
| `interrupting` | code items whose `cancel()` awaits `kernel.interrupt()` |
| `calls`, `waiting` | `cancel()` called from outside (`onWillInterrupt`, `onWillRestart`/`onWillCancel`, the close handler) and the items each `Promise.all` waits for |
| `session`, `kernelDead`, `notebookIsClosed`, `deletedCells` | environment |
| `enqueued`, `cancelled`, `threw` | history variables, read by properties only |

`head` is reached and left without an await, so all other handlers are disabled there
(`Quiescent`); every other action may run between any two steps of the loop. The loop's
body after an item is one operator, `Conclude`: remove the item, decide whether to stop,
cancel the cells or everything, go on. `Enqueue` stands for `queueCell`, `queueCode` and
`resumeCell` together with `getOrCreateCellExecutionQueue`, which refuses a queue that
failed or is empty: this module is about one queue, so what is queued after that belongs
to the next one. `Init` has no session yet, because the first item may be queued
before it (`resumeCellExecution`). A cell of `ResumedItems` was queued by `resumeCell`: the
kernel is executing it, so its start sends nothing and acknowledges it at once, and it does not
look whether the kernel is dead. When the session has no kernel its start throws
(`ResumeThrows`, `cellExecution.ts:200`), and nothing settles its result; `threw` is the history of that.
A `Reply` may come late, for a cell that `cancel()` has completed already: it changes nothing.

Abstracted: outputs, execution order numbers, timing, telemetry, and whether an
ended request failed in the kernel or in the connection (both are `rejected`). A second
`start()` of a code item is modelled as harmless because it is only met on a queue that
has failed already, so its outcome decides nothing.

### What the runs show

| run | instance | shows |
|---|---|---|
| `queue` | two executions of cell A (the first may be one that is resumed), one of cell B that may raise, one code item; cancels of an interrupt (1,082,592 states) | serial execution, order, stop on error, drained at the end, nothing starts after a cancel, no cell is started or queued twice; the queue implements `SerialExecution` |
| `queue_live` | A resumed, B, code; cancels of a restart (174,471 states) | with the event loop alone fair, the cancel of a restart or a closing notebook returns though the kernel never answers, unless code is executing whose interrupt it then awaits, and that too when interrupts are answered; when the kernel answers everything, whatever is queued in an open notebook gets a result, but for a resumed cell whose start threw |
| `code_twice` | A, B, code | **violated**: code is started twice |
| `code_lost` | A, B, code; the kernel answers | **violated**: code is never settled when the session promise rejects |
| `cell_lost` | A, B, code; the kernel answers | **violated**: a cell queued after the notebook closed is never settled |

Bounds. Every item is queued at most once (`i \notin ToSet(enqueued)`): an execution object is
created per call, so a repetition is another item, and the two executions of cell A are the smallest
case of it. Two cells and one code item are enough for an item running, one in front of and one
behind it, code among cells, and items with and without `raises-exception`; a duplicate needs the
second execution of A. Only code doubles (`Requeue`), and only once per bail-out, of which there is
one per item, so the queue stays short. Each outside caller has one call of `cancel()` at a time, as
the kernel's hooks do; it may be repeated. `Hooks` bounds who calls: the hook of an interrupt
(`cancel(false)`), of a restart (`cancel(true)`), or both; the closing of the notebook is always
possible. The runs with one hook ask what one hook decides; the instance of `queue` with both hooks
has 2,192,146 states and was checked too. No state constraint is used. `CHECK_DEADLOCK FALSE`: a
queue whose work is done stops.

The three findings:

* `cancelQueuedCells` filters the code items out of the queue and *pushes* them to the same
  queue (`cellExecutionQueue.ts:154`), so code is in it twice and
  `CodeExecution.start` meets code it started ("this should never happen").
* The `catch` of `start` cancels the cells only (`:186`): `executeCode` never completes
  when the session fails, against `api.d.ts`.
* A cell in a closed notebook, or in a failed queue, is passed over without settling its
  result (`:215`): for a cell that was not cancelled before, `executeCell` waits for ever.

### Fairness

`EventLoopFairness`: each continuation of the loop, and of a `cancel()` whose promises have
settled, is run in the end, which is what the event loop of Node does. Nothing else is assumed by
the specification. `InterruptFairness` is a hypothesis of the second half of `ForcedCancelReturns`: an interrupt request
that the `cancel()` of code awaits settles. The event loop does not guarantee that: `codeExecution.ts:129`
awaits `kernel.interrupt()` itself, without the time-out that `interruptExecution` has. A signal and the
request of a server settle, but a raw kernel whose `interrupt_mode` is `message` is sent a request on its shell
channel (`rawKernelConnection.node.ts:369`), which a silent kernel does not answer.
`KernelFairness` is assumed where a property is about what the kernel answers (`QueuedItemSettles` has it
as its hypothesis): the session
promise settles (launch has time-outs), and a request ends, with a reply, or with an error
when the kernel dies, interrupt requests among them. No fairness is assumed of users, of VS Code, or of death.

### What is proved

`SequenceLemmas` has facts on removal and order in sequences; `CellExecutionQueue_proofs`
has, for all values of the constants that satisfy `ConstantsAssumption`:

* `TypeCorrect`: `Spec => []TypeOK`. `TypeOK` is inductive; one lemma per group of
  operators (`CancelItems`, `Settling`, `Conclude`, `Requeue`), one step per action.
* `OneItemAtATime`: `Spec => []OneAtATime`. `OneAtATime` is inductive given `TypeOK`: the only
  action that starts an item does so at `head`, where by the invariant nothing unsettled
  is started, and only a settled item lets the loop leave `running`.
* `NothingStarts`: `Spec => NothingStartsAfterCancel`. The invariant (`CancelInv`) says
  that once an outside cancel was called the queue has failed, so that no cell is started,
  and that every code item still in the queue is handled, completed or started. It needs the
  way `cancel()` splits the items (`Dequeued`, `Awaited`) to cover the queue.
* `Drained`: `Spec => []DoneMeansDrained`, with the invariant that a queue in its last
  await, or finished, no longer accepts items.

* `QueuedOnce`: `Spec => []CellQueuedOnce`. Each step leaves the queue, appends an item that was
  not in it, takes the first position of an item out, or puts the code behind the rest
  (`QueueStep`); only the last repeats positions, and those of code.
* `StartedInOrder`: `Spec => []InOrder`, and `NeverStartedTwice`: `Spec => []NoCellStartedTwice`, from one
  invariant, `OrderInv`. An item that is queued and has no result is in the queue, unless
  a cancel emptied that (`Kept`), and behind what was queued before it, whatever the code does that
  `Requeue` moves behind the cells, or it is a resumed cell whose start threw (`ThrewLeaves`: it leaves the queue
when the loop is done with that start, and was never sent) (`QueueInOrder`: one position of the earlier item stands before every
  position of the later one). A cell that was started leaves the queue in the step that ends it
  (`CellLeaves`). `SettledInv` and `FailedInv` say which sets hold settled items, and that a
  queue that failed holds no cell to start.
* `ErrorStops`: `Spec => []StopOnError`. `ErrorInv`: a cell that was rejected is the one the loop
  awaits, or the queue has failed.
* `QueueImplementsSerialExecution`: `Spec => ImplementsSerialExecution`, the safety of the refinement
  mapping of `CellQueueRefinement`. Every action maps to a submission, a start, an end or a withdrawal of
  `SerialExecution`, or to a stutter; `OrderInv` is what makes the head that starts the next in line.

Only model-checked: liveness (fairness and `ENABLED` are outside the prover).

## 4. `KernelLifecycle`

One `BaseKernel`, the calls of `start`, `restart` and `dispose` made on it, and the
attempts of `createJupyterSession` those calls begin.

| model | code |
|---|---|
| `sessionPromise`, `session` | `_jupyterSessionPromise`, `_session`; a promise and a session are named after the call that made them |
| `attempt[c]` | where the `createJupyterSession` of call `c` is: `tracking` (awaits telemetry), `creating` (`sessionCreator.create`), `cutOff` (the same, its token cancelled), `didStart` (awaits the hooks), `initializing` (start-up code, kernel info, `waitForIdle`), then `resolved` or `rejected` |
| `sessionState`, `hooked` | the session object and `hookedSessionForEvents` |
| `tokenCancelled` | whether the present `startCancellation` is cancelled |
| `ignoreDisposed` | `_ignoreJupyterSessionDisposedErrors` |
| `postInit`, `inProgress`, `fired`, `handling` | `_postInitializedOnStartPromise`, `_isPostInitializedInProgress`, the events fired so far, those with handlers still running |
| `pc`, `waitsFor`, `waitsEvent` | the await each call is at, and what it awaits; `stuck` awaits the end of a session that is already disposed and will not say so again (`disposeAsync`) |
| `handlerOf` | the event whose handler made the call: `executeCode` from inside `onPostInitialized` |
| `announced` | history: sessions that had their event |

Actions and code, in the order of a start: `Start` and `CodeStart` are `start()` up to its first await
(`StartSession`: token, disposing check, shared promise); `Track`, `Create`, `DidStart`, `Initialized`
are the stretches of `createJupyterSession` and `initializeAfterStart`, with their failures in
the same actions, in `InitializeThrows` and in `NotIdle`; `Joined` is what each caller does when
the promise has settled (`triggerOnDidStartKernel`, `Fire`), `EventHandled` the end of `fireAsync`.
A restart is `Restart`, `Hooked`, `RestartSession`, `SessionRestarts`, `Restarted`,
`RestartDidStart`, `Reinitialized`, or, when it fails, `RestartFailed`, `Killed`; a disposal is
`Dispose`, `DisposeContinues`, `Closed`. `Gone` is a session's disposal, with the listener
(`OnDidDispose`) that runs in it.

Order of microtasks. What runs because an awaited promise has settled (`Ready`) comes
before anything the outside does (`Quiescent`). When an attempt fails, the caller that
made it cancels the token and clears the promise before the other callers see the
rejection, because its reaction is registered first; `AttemptFails` does both at once.

Abstracted. `_restartPromise` is the set of restarts at `restarting`, which
`SessionRestarts` moves together. A token is its effect: cancelling it makes the creations under way
`cutOff`, and that is remembered when the kernel replaces its token. A creation that is
cut off shuts down its session itself, and throws. What `initializeAfterStart` asks of
the kernel may fail at any time. The `waitForIdle` that fails has shut the session down
before it throws; the second it may wait for the shutdown changes nothing the kernel reads.
One listener of the start event, as the kernel's provider registers one: an event is handled
when that is. With several listeners the shared delivery queue of `AsyncEmitter` matters,
which is `AsyncEmitter`'s subject.

### What the runs show

| run | instance | shows |
|---|---|---|
| `kernel` | a start, one without user interface, a restart, a disposal (7,485 states) | one session is shared, none is lost alive, a disposed kernel has none and never gets one; every call ends |
| `services` (section 6) | a start, a quiet one, one of `executeCode` (also from the event's handler), a disposal; sessions die at any time | the kernel keeps no dead session; the event comes once per session; `isPostInitializedInProgress` is true only while it is handled; every call ends |
| `session_leaked` | two starts, a disposal | **violated**: a start that fails after its session was created leaves it alive |
| `handler_blocked` | a start, a restart, an `executeCode` from the handler | **violated**: that handler waits for itself |

Bounds. `UserStarts`, `QuietStarts`, `CodeStarts`, `Restarts` and `Disposals` are the calls made;
each call is made once, so they are all that bounds the model. The quiet start is the automatic one;
the user's start shares its attempt, finds its session, or comes after it failed, and a restart may
make a third attempt. The theorems below hold for any number of starts. Two disposals would be one,
as the second gets the promise of the first. `MayDie` names the sessions that may die without being
asked to. It is empty where restarts are: with a death in the right moment two starts can each have
a session (the `catch` of the first clears the promise of the second), so `SharedSession` is a
property of kernels that do not die, and is stated for those. Two concurrent restarts break it in
the same way. `CHECK_DEADLOCK FALSE`: when the calls have been made the system stops.

Fairness. Continuations run (the event loop). An attempt goes on: telemetry and hooks settle,
`create()` and `waitForIdle` have launch time-outs, and `initializing` ends with one outcome
or the other. A session that is asked to go goes (`shutdownImplementation` waits a second at most).
`session.restart()` settles. Handlers of the event finish when the calls they made
have: that is an assumption about other extensions, without which `start` ends for no one.
Nothing is assumed of users and of death.

The findings. *Leaked*: `createJupyterSession` throws at `:653` when the kernel was disposed meanwhile
(or when a request failed) and no one disposes the session, although the factory is
careful to shut down what is "not needed" (`jupyterKernelSessionFactory.ts:118`). *Blocked*: the
`finally` of the first event clears the flag of the second.

### What is proved

`KernelLifecycle_proofs`, for every set of calls that satisfies `LifecycleAssumption`:

* `KernelTypeCorrect`: `Spec => []TypeOK`, which is inductive; one step per action.
* `DisposedStays`: `Spec => []DisposedHasNoSession`, for any restarts and deaths. A promise
  or a session is set only behind a check of `disposing`. The invariant adds what a
  disposal may be waiting for, so that no settled promise but its own moves it.
* `SessionShared`: `[](SharedSession /\ NoSessionLost /\ NoDeadSession)`, assuming `Undisturbed`: no
  session dies unasked, and at most one restart. Any number of starts may run. Neither is
  inductive: whether clearing the promise strands a session depends on who else waits for
  what. `SessionInv` adds that the promise is that of the attempt under way or of
  the session (`PromiseKept`), that the session is alive (`SessionLives`), that a disposal waits
  for the only promise there may be (`DisposingInv`), that only a failed restart and a
  disposal end sessions, and that the kernel ignores their end meanwhile (`EndInv`), and what
  a restart may rely on at each await (`RestartInv`): when the attempt it waited for
  was rejected, or its restart failed, no other attempt is under way, because its
  continuation comes before anything else. One lemma per kind of step.
* `SessionKept`: `[]NoSessionLost`, under the same hypothesis.
* `DeathNoticed`: `[]NoDeadSession` assuming there is no restart, with any deaths: the kernel
  listens to every session before it becomes its own, and ignores the end of sessions only
  while it is being disposed.
* `InProgressHandled`: `Spec => []InProgressMeansHandling`, for any restarts and deaths: the flag is
  set only in the step that fires an event, and the end of any handler clears it. (That
  the end of the first event's handler clears the flag of the second is the finding *blocked*.)
* `EventOnce`: `Spec => AnnouncedOnce`, assuming there is no restart, with any deaths.
  `AnnouncedInv`: the sessions that were announced are those of attempts that succeeded, while the
  kernel keeps one of them it keeps `_postInitializedOnStartPromise`, which holds the other starts
  back, and an attempt that has not begun was announced by nobody.

The assumptions are needed: TLC finds `SharedSession` violated with deaths or with two
restarts, and a restart announces its session again. Only model-checked: liveness.

## 5. `CellOutputs`

What the cells of a notebook show of the kernel's messages: `CellExecutionMessageHandler`, its
service, `CellOutputDisplayIdTracker` and the wrappers of `CellExecutionCreator`, through which every
edit goes. The hard part is that a handler edits `cell.outputs` through VS Code, which shows the edits
later, while the handler goes on reading it, and that text of background threads comes when its cell is
done, or another executes, or the cell is about to be executed again.

| model | code |
|---|---|
| `exec`, `handler`, `active` | how far an execution is, `messageHandlers`, `activeNotebookCellExecution` |
| `task` | the `NotebookCellExecutionWrapper` of an execution: created lazily, started by the first message (which clears the cell), ended |
| `acknowledged`, `clearOnNext`, `lastStream`, `reattached` | fields of the handlers |
| `tracked`, `lastDisplay` | the display-id tracker's maps |
| `outputs`, `pending` | `cell.outputs` and the edits VS Code has not shown, one group per message |
| `sent`, `refused` | history: the messages, and those whose edits an ended task refused |

A message is one action (its handler has no await): `Stream`, `AddToCellData` (results, errors,
displays), `Clear`, `ClearWait`, `Update`, `UpdateMetadata`, `Status`. `Queue`, `Start`, `Done` are the
execution's; `EditsShown` and `UserClears` are VS Code's, with the tracker's listeners in them. An
output is identified by the message that made it, and its items by the messages whose data they show.

**`NotebookOutputs`** is what users are promised: outputs in the order sent, each once; a clear
empties the cell at once or with the next output; an update changes the display it names where it
is. **`CellOutputsRefinement`** maps each output of a stream to one entry per message, and each edit to
the change it makes. Where the code promises less, the abstract specification says so by name:

* `kept`: an update of a display that comes from a cell that does not execute, between a request and
  its acknowledgement, starts the wrapper of the cell being executed, whose old outputs are then not cleared.
* `forgotten`: a change event that reports a cell empty drops display ids, also ones tracked since
  (`cellDisplayIdTracker.ts:42`), and ones that are in another cell by now: later updates are ignored.
* `torn`: an update that changes the metadata puts back `cell.outputs` as it is then
  (`:1189`, whose comment calls it unsafe), so outputs on their way, and stream text that follows in
  them, are lost.

| run | instance | shows |
|---|---|---|
| `outputs` | cells A and B executed once, B printing on in the background, one display id, four messages, seven scenarios of message kinds, A possibly resumed (336,483 states) | no output is refused, the active task is that of the executing cell, and `CellOutputs` implements `NotebookOutputs` |
| `output_refused` | A, printing in the background, is executed again; text only | **violated**: text of the earlier execution ends the task of the next |

Bounds. Four messages are the fewest in which text goes on in an output that a clear,
a display and an update have been at. A behaviour has one scenario, a set of message kinds, because
most kinds interact with few others (displays with `clear_output(wait)` and updates, 375,017 states, were checked once); all kinds together with five messages are beyond five minutes.
A resumed cell only prints text: with displays or clears before its first text the order is not kept,
since that text goes on in `cell.outputs[0]` (`:994`, whose comment says the last output), which lags.
`CHECK_DEADLOCK FALSE`: a kernel stops printing.

Proved (`CellOutputs_proofs`), for any cells, executions, displays and number of messages. `TypeOK`
(`OutputsTypeCorrect`), from `OutputsInv`: after n messages, whatever is shown, on its way or remembered
(`lastStream`, `tracked`) names messages up to n only, and every edit that is on its way is one of a cell with
outputs of that type (`Grouped`), so the edits VS Code shows at once keep it whatever their number is: what every edit
keeps, a sequence of them keeps (`ApplyAllKeeps`, by its first edit that would not). `NoOutputRefused`
(`NoOutputIsRefused`) when no cell that prints on in the background is executed again (`NotAgain`, as in the run
`outputs`; `output_refused` shows that it must be assumed): a task is open from its creation
until its execution is done (`TasksOpen`), and a message of an execution that is done finds the task of the
execution that runs or makes one of its own, never another of its cell (`RunningTask`). Only model-checked: the refinement,
whose mapping is itself a fold over the edits on their way.

The finding. *Refused*: `createTemporaryTask` takes whatever wrapper the cell has, also that of its
next, queued execution, starts it, and ends it: all outputs of that execution are refused.

## 6. The parts beside the queue, and `MCServices`

Seven smaller modules, each of one component. They share no state in the code that both would change
(one sees another through a call's answer), so `MCServices` makes one instance of all: a behaviour
chooses a component in its initial state and takes that component's steps. The run `services` has
598,302 states. Fairness is one `WF` per component, of the disjunction of its fair steps. A
component makes only finitely many of them (but for `Spins`, below), so none stays enabled for ever
under it. Every fair step is a continuation of the event loop, an answer of a process, a kernel or a
webview that is there, or a time-out, and in `KernelConnector` also the user's answer to a dialog (to restart
a dead kernel, to choose another one), which the code awaits for as long as it takes. Otherwise nothing is
assumed of users, nor of exits and deaths. `NobodyWaits`
is one property for all: `[]<>` of a state in which no call waits. `CHECK_DEADLOCK FALSE`: a
component whose calls have been made stops.

### `NotebookKernelExecution`

`kernel`, `handling`: how far the kernel is, and whether handlers of its start event run
(`isPostInitializedInProgress`); `present`: the queue of `documentExecutions`, and `replaced`: the ones it was
before whose loops go on, with what each awaits; `state` of the executions. `ExecuteCell` awaits the
start, then `QueueCell`; `ResumeCellExecution` queues at once, and the queue awaits; `ExecuteCode`
awaits the handlers unless they run. A failed or empty queue is replaced (`Enqueue`).
One cell, one resumed cell, two codes, one interrupt after another, one restart; two cells
(239,873 states) were checked once.

* `ReplacedStartsNoCell`: two loops may send to one kernel, but the old one sends code only.
* `HandlersFirst`: the user's cells wait for the handlers of the first start.
* `EverythingServed` (liveness) excepts `Blocked`: when a resumed cell, or code queued before the
  kernel was up, is first in the queue and awaits the handlers, and a handler executes code, that code is
  behind it, and both wait for ever. The comment at `kernelExecution.ts:222` says a
  handler's code need not wait; it does not await the *start*, but the queue it joins does.

Here starts and restarts succeed, and the kernel is not restarted while it is started or handlers
run, so the window between `onWillRestart`'s reading of the queue (`:337`) and its cancel is not in it.

Proved (`NotebookKernelExecution_proofs`), for any cells and code, from `QueuesInv`: what is
in a queue was queued, in no other, and only its first runs (`Placed`); what is queued or runs is in a queue
(`Held`); and a queue that was replaced, or has failed, holds no cell to start (`NoCellLeft`),
as cells are cancelled in the step in which the loop sees the failure. `EachInOneQueue` is the
type invariant; `ReplacedIsDone` is `ReplacedStartsNoCell`. `HandlersComeFirst` (`HandlersFirst`)
adds `CellsWait`: before the first handlers end the user's cells are not queued. It
needs `Cells \cap (Resumed \cup Codes) = {}`: an execution is made by one of `executeCell`,
`resumeCellExecution` and `executeCode`.

### `LastExecution`

The file of executions that a reloaded window resumes. `chain` is `chainedPromises`: each operation
reads the file (`OperationReads`), then writes it (`OperationWrites`). `runs` says what the kernel
and the user know of each execution: it was sent, or announced and therefore tracked, and it is over in
one of several ways, of which `Execute`, `Announced`, `Returned`, `Failed` and `Reload` decide.

`ExecutionKnown`: when the chain is empty, what a notebook executes (`tracked`, `left` after a reload) is
known with its cell's index, and what returned and was deleted (`returned`), or was never announced
(`cancelled`), is not known. Executions that are over and of which it says nothing, since the code leaves their entry
in the file, where a reload finds it:

* `late`: the execution returned before the kernel announced it (the cell was cancelled), so its deletion (`:146`)
  found no entry, and it is tracked afterwards (`:123`);
* `failed`: `executeCell` threw, or VS Code was exiting, and nothing is deleted
  (`vscodeNotebookController.ts:628` and `:635`);
* `kept`: it returned, and the window was reloaded before the deletion in the chain had been written; or it was
  left by a reload, and another execution of the notebook followed, which forgets it without deletion.

Its entry is replaced by that of the next execution that is announced. The others are a notebook whose cells
moved (its index is then another's), one whose server was removed, and `overtaken`: what is recalled is read
beside the chain, and keeps older entries. Each exception was found necessary. One document, two runs, one reload (173,544 states
alone); with the states of an earlier version two documents were checked once (10.0 million states). Assumed:
the kernel announces executions in order, serially per notebook; one window, whole
writes, nothing too old, and the session there when `executeCell` returns. `staleState` is assigned before the
write is awaited; the model does both at once. Two windows
have a chain each, on one file, and can overwrite each other: not covered.

Proved (`ServicesExecutionKnown` in `Services_proofs`): `ExecutionKnown`, for any notebooks and
executions, with the exceptions above. When the chain is empty, the file must hold what every earlier operation meant it to; the
invariant (`TrackerInv`) says so of the operations still in the chain. Each names an execution that was
announced, with its cell's index (`OperationsName`, `FileNames`). What is tracked is written by the last
operation of its notebook, or is in the file and nothing of its notebook is to come (`TrackedWritten`,
`LeftInFile`); it needs that a notebook executes one cell at a time (`OneBusy`). What has returned is
deleted behind whatever writes it (`ReturnedDeleted`), and after a reload is not in the file, unless it is `kept`; what
was never announced is never written (`Named`, `Written`). And what an operation has read is still what the
file holds (`ReadIsFile`), because each follows the other; what is kept in memory is that as well, unless
older entries were kept (`StaleIsFile`). TLC checked `TrackerInv` first.

### `KernelConnector`

Calls of a notebook share a cached attempt (`connectionsByNotebook`) that starts a kernel, asks the
user about a dead one, and on an error may go on with another kernel. `OneStart`: without restarts
and interrupts of the user, only one attempt at a time starts the notebook's kernel. `AllConnected`,
part of `NobodyWaits`: every call has an answer, but for `Spins`: a call without user interface that
finds a kernel dead whose session is there connects again and again, in promises only, so that
nothing else runs (`kernelConnector.ts:243`, against the comment at `:223`). Also met: a second call
that waits throws `KernelDeadError` while the first still asks the user (`:230`); a call that joins
an attempt gets that attempt's kernel connection, whatever its own was; and `getOrCreate` may return
a kernel whose disposal awaits its start, so that the retry is cancelled. One user call, one quiet
call, one restart or interrupt, two kernels (that a kernel may not be trusted, which fails an attempt at once, is left
out); two user calls with a quiet one and three kernels
(51,710 states), and with a restart (434,336), were checked with liveness once.

Proved (`ServicesOneStart` in `Services_proofs`): `OneStart`, for any calls, kernels and errors. The invariant
(`ConnectorInv`): until the user restarts or interrupts the kernel, what starts it is the attempt in
the cache. An attempt leaves the cache when it has failed, or when it is done and its kernel is disposed;
and a call makes another only when the cache is empty, holds an attempt that is done, or the call restarts or
interrupts. It does not matter which of the unused attempts becomes the new one, so the bound
`Attempts` is no hypothesis.

Its types (`ConnectorTypes`): the cached attempt is one that has not failed, and an attempt that has not failed
has a kernel that was created. Here the bound matters: there are two attempts more than calls, and calls are
finitely many (`CallsAssumption`), so one is always unused (`SomeUnused`) and a new attempt overwrites none
that is awaited.

### `AsyncEmitter`

Kernels fire their events through one emitter whose `fireAsync` calls share one delivery queue: one
may deliver what another queued, and what a cancelled one left. `EventsInOrder` and `NoListenerMissed`
hold all the same, and every `fireAsync` ends. Two listeners, one with a `thisArg` (which
cannot unsubscribe: the set holds its bound function), three events.

Proved (`ServicesEventsInOrder`, `ServicesNobodyMissed` in `Services_proofs`), for any listeners and events, without fairness.
For the order: what was delivered and what is queued behind it (`Sent`) has, for each listener,
the events as they were fired, and is all that is expected; delivery only moves the border between
the two. That nobody is missed: entries of an event whose call has returned are in the queue only
when it was cancelled (`LeftInv`), as a loop ends with an empty queue or a cancellation. Each event is fired once
(`FiredOnce`), so no entry of the queue was delivered before (`NoneTwice`): its event would come before itself.

### `KernelProvider`

Kernels by notebook and by id, replacement, closing notebooks, removed servers, deactivation. A
kernel is disposed asynchronously, after its successor is in the maps. `KernelMapsAgree`,
`NoOrphanKernel`, and `DeactivationWaits`: `dispose()` of the provider awaits a list of kernels as if
they were promises (`:119`), and only `AsyncDisposableRegistry`, which knows every kernel, waits. Two
notebooks, a local and a remote connection, three kernels.

Proved (`ServicesMapsAgree`, `ServicesNoOrphan`, `ServicesDeactivation` in `Services_proofs`), for any
notebooks, connections and number of kernels, from `ProviderInv`.
The kernels of `byNotebook` are those of `byId` after every listener and
replacement, and none of them is disposed (`MapsStep`). Of the live kernels, one whose
server was not removed is that of its open notebook, because `GetOrCreate` and the closing of a
notebook dispose the kernel they replace or forget (`OrphanStep`). The registry awaits
every kernel there is, and none is created afterwards (`DeactivationInv`).

### `WidgetMessages`

Two copies of a JupyterLab kernel connection, one in the extension, one in the webview, each with
message hooks that must be registered and removed between the same two messages. The socket's chains
(`sendChain`, `msgChain`) wait for the webview: for a mirrored request, for a message of an output
widget to be handled in full; the webview waits for the extension's answer to a hook.
`NoWidgetOutputLost`, `NoWidgetOutputTwice`, and `NothingBlocked` within `NobodyWaits`. An output is shown
twice in two cases that the property names: the extension asked about it before the webview had it
(`late`), or its request had captured and released before (`ReleasedBefore`): a hook that waits for its removal is
kept when it is registered again (`ipyWidgetMessageDispatcher.ts:550`), and removed then (`:605`). Of the
hooks of one request only the current is modelled, not the stack of those it replaced (`kernel.ts:351`, `:384` of the
webview): a capture in a capture counts as that capture, and its outputs after the first release fall under `ReleasedBefore`. TLC finds
the second with a script of its own: three captured outputs, a release, another capture and an output.

`MCScript` is two requests that capture output, one of which creates a widget meanwhile; one restart.
Assumed of what is outside: messages are FIFO each way, the webview's promises run before its next message unless it
awaits a model or a hook, JupyterLab handles the future's hook, then comms, then the iopub signal,
the dispatcher subscribed before the first request, and a restart drops the old socket. Messages of
widgets to the kernel and the webview's start are not modelled.

Proved (`WidgetMessages_proofs`): `NoWidgetOutputLost`, for any script of the kernel. The
invariant (`WidgetInv`) follows each message (`AllSomewhere`): the socket's chain hands its head to the
connection (`HandedOver`), which shows it or waits for its hook; then the message stays the connection's first,
so a result cannot drop another (`ChainsInv`). A result that keeps an output from the cell is `Honest`: the
webview records one only for an output its widget took (`Taken`), and answers an unknown message with true.
It does not need that the two sides agree on the hooks.

`NoWidgetOutputTwice` does, and is proved for any script that follows the kernel's protocol (`Protocol`: one
request after the other, and an output widget captures and releases while it is open), any order of delivery
between the two sides, and a restart at any time. The invariant is `Agreed`. At any time there are places in the
script: the extension has `handled` messages up to one, `passed` them on up to another and `sent` them to
the webview up to a third, and the webview has handled those before `n` and received those before `t`
(`AgreedAt`, whose other three parameters say which messages a restart cut out: those of the old socket that
still arrive). What each side has registered is what the messages up to its place ask for:
`HooksAt(n, ...)` of the webview, `Registered` of the extension, whose hook is there, or has asked about the message
that releases it, or has nothing left to ask about.
Between the two places the operations are on their way (`Replies`, `Posts`, `HeldInv`), and a message that captures or
releases is awaited in full, as its widget is open (`OutputsInv`), so the extension does not pass it on
before the hook is registered (`RegisteredInv`). The webview knows a request before its messages
(`Knows`: the mirrored request is awaited), and the extension asks about a message after it posted it, and once
(`Asked`). So a hook that is called for a message says what the widget took. There is one lemma for each
kind of step and conjunct; a restart (`AgreedNext` by way of `ChainsRestart`) puts the places of the extension at the end
of what was emitted, and the webview's messages of the old socket before a gap.

### `RawKernelConnection`

A kernel process without a server: `start`, `restart` (which swaps the process), `shutdown`,
`dispose`, the session that owns it, and the exit of the process at any time. `OneProcess`,
`StatusAgrees`, `NothingLeft`, `ExitStopsNoOther`. `StatusAgrees` and `NothingLeft` except a restart
that overtakes a shutdown (`overlapped`): it resets the flags of the shutdown (`:294`), whose end
then marks the new kernel as shut down. Three processes: the first, one restarted, one more. The run
`raw_timeout` (**violated**): a start that times out is reported as a kernel that exited, because
its own `catch` disposes the process, whose exit event sets `kernelExitedError` (`:218`).

Proved (`RawKernelConnection_proofs`), for any number of processes: the four properties, from one
invariant (`RawInv`) over the connection, its processes and its sockets. `Sound`: which process is
the connection's and which that of its start, and that no other runs, with the socket and the exit
handler of that process; it holds whatever overtakes what, so `OneProcess` has no exception. Unless
a restart overtook a shutdown: `Serving` says what a shutdown that is under way, or has ended, has
done, `Noticed` that the exit of a process whose start succeeded has begun one, and `Ending` what is
left while the session is released. `Fresh` is the state before there is a session. `RawTypeCorrect` adds that what the connection and its
owner await is a process that was spawned (`AwaitedInv`). The handlers are
functions from states to states, so each has a lemma that says what it does (`DisposeProcessDoes`,
`CancelStartDoes`, ...), and steps are proved from those.

### `Services_proofs`

A step of the services is a step of one component, or leaves its variables as they are, so what is
proved of a component's initial states and steps holds of `Services`: one lemma (`ProviderSteps`,
...) and one theorem for each property of the run. `ServicesTypeCorrect` is `ServicesTypeOK`, the types of the
components, each from its invariant. No fairness is used. Five assumptions on the
constants, which TLC evaluates: `NoneAssumption` (`None` is not the number of a kernel, process or
message), `ExecutionsAssumption` (above), `ScriptAssumption` (the kernel emits a sequence of
messages about requests numbered from 1), `ProtocolAssumption` (`Protocol`, above) and `CallsAssumption` (the calls of
a notebook for its kernel are finitely many).

## 7. Findings, and other disagreements

Seven runs of `PROJECT.json` are expected to fail, one finding each: `code_twice`, `code_lost`, `cell_lost`
(section 3), `session_leaked`, `handler_blocked` (section 4), `output_refused` (section 5), `raw_timeout`
(section 6). What else was met is named in the specification that would otherwise be violated:
`kept`, `forgotten`, `torn` in `NotebookOutputs`, `Blocked`, `Spins`, `late`, `ReleasedBefore`, `overtaken`, the
states `late`, `failed` and `kept` of `LastExecution`, `overlapped`, and in `CellExecutionQueue`:

* `threw`: a resumed cell whose session has no kernel throws (`cellExecution.ts:200`) without settling its result,
  so whoever awaits it waits for ever;
* `InterruptFairness`: the comment of `cancel(forced)` says that a forced cancel does not wait, "just kill it"
  (`cellExecutionQueue.ts:131`), but with code executing it awaits `kernel.interrupt()`, so a restart waits
  for a silent kernel that is interrupted by message.

Each of these exceptions is necessary: without it TLC finds the property violated.

## 8. Proved, checked, assumed

| | by TLAPS, for all constants | by TLC, on the instances above |
|---|---|---|
| queue | `TypeOK`, `OneAtATime`, `NothingStartsAfterCancel`, `DoneMeansDrained`, `CellQueuedOnce`, `InOrder`, `NoCellStartedTwice`, `StopOnError`, `ImplementsSerialExecution` | liveness |
| kernel | `TypeOK`, `DisposedHasNoSession`, `SharedSession`, `NoSessionLost`, `NoDeadSession`, `InProgressMeansHandling`, `AnnouncedOnce` | liveness |
| outputs | `TypeOK`, `NoOutputRefused` (`NotAgain`) | the refinement |
| notebook | its `TypeOK`, `ReplacedStartsNoCell`, `HandlersFirst` | `EverythingServed` |
| provider | types, `KernelMapsAgree`, `NoOrphanKernel`, `DeactivationWaits` | |
| emitter | types, `EventsInOrder`, `NoListenerMissed` | its calls end |
| raw connection | types, `OneProcess`, `StatusAgrees`, `NothingLeft`, `ExitStopsNoOther` | nobody waits for ever |
| connector | types, `OneStart` | every call has an answer |
| last execution | `ExecutionKnown` | |
| widgets | types, `NoWidgetOutputLost`, `NoWidgetOutputTwice` (`Protocol`) | nothing blocks |

The proofs rest on `ConstantsAssumption` of the queue and of the outputs, `LifecycleAssumption`, `NoneAssumption`,
`ExecutionsAssumption`, `ScriptAssumption`, `ProtocolAssumption` and `CallsAssumption`, and, for `SessionShared`, `SessionKept`, `DeathNoticed`, `EventOnce` and
`NoOutputIsRefused`, on the hypotheses named in them. Liveness under fairness is TLC's alone, as the prover has no
`ENABLED`. So is the refinement of the outputs: it compares what a fold over the edits on their way
computes before and after each step.

## 9. What is not modelled

The components marked `not_modelled` in `PROJECT.json`, each with its reason: most are requests to
VS Code, to the file system or to processes, user interface, or data without concurrent state. Of the
repository's lines most are these (web views, telemetry, tests, the API of Python environments, test
data), so the map covers a small part of them, and the greater part of `kernels/` where state is kept
between awaits.

Of the components that are modelled in part: output streams of `executeCode`, internal code
(`executeHidden` and the `executeSilently` requests, which bypass the queue), timing of cells,
time-outs of the interrupt and its shared promise, comm messages and input requests of cells, the
ports the raw launcher reserves (`UsedPorts`, from which those of a failed launch are not removed),
third-party kernels of the connector and the provider. Monitors that show messages when a kernel
reconnects, restarts or crashes, the finder of remote kernels and the storage of server addresses
have small hazards of their own (a message shown twice, an old list) that no module covers.

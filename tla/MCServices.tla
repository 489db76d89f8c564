----------------------------- MODULE MCServices -----------------------------
(***************************************************************************)
(* One instance for TLC of the parts beside the execution queue: a kernel  *)
(* whose sessions may die (KernelLifecycle), the event emitter, the        *)
(* executions of a notebook while its kernel starts, those remembered for  *)
(* a reload, the provider's kernels and the calls connected to them, the   *)
(* messages of widgets and a raw kernel connection.                        *)
(* These share no state, so a behaviour of all of them shows no more than  *)
(* its projections: each behaviour takes the steps of one component.       *)
(***************************************************************************)
EXTENDS KernelLifecycle, Sequences, SequencesExt

CONSTANTS
    u1, q1, x1, d1,
    None,
    Listeners, WithThis, Events,
    Cells, Resumed, Codes,
    Documents, Runs,
    Users, Quiet, ConnectorRestarts, Interrupts, MaxConnected,
    Notebooks, Connections, Remote, MaxKernels,
    Script,
    MaxProcesses

\* Kernels, processes and messages are numbered; None is the one there is not.
ASSUME NoneAssumption == None \notin Nat

\* A cell is executed by the user or resumed, and is not code.
ASSUME ExecutionsAssumption == Cells \cap (Resumed \cup Codes) = {}

\* What the kernel emits: a sequence of messages about requests, which are numbered from 1.
ASSUME ScriptAssumption == Script \in Seq([request : Nat \ {0}, kind : STRING])

VARIABLES
    component,   \* the component whose steps are taken
    \* AsyncEmitter
    listeners, deliveryQueue, fire, cancelled, firedEvents, expected, delivered,
    \* NotebookKernelExecution
    kernel, kernelRestarted, handlersRun, handlersCode, present, replaced, executionState,
    \* LastExecution
    runs, cellOf, index, file, staleState, chain, read, recalling, removedServers, reloaded, moved,
    overtaken,
    \* KernelConnector
    closed, connected, attempts, cached, calls, disableUI,
    \* KernelProvider
    openNotebooks, kernels, phase, byNotebook, byId, pending, removed, registry, awaited,
    \* WidgetMessages
    requested, mirroring, posted, emitted, msgChain, awaits, kernelChain, hooking, dispatcher,
    toWebview, toExtension, webview, restarted, discarded, captured, shown, late,
    \* RawKernelConnection
    raw, procs, openSockets, owner, overlapped

Emitter == INSTANCE AsyncEmitter WITH queue <- deliveryQueue, fired <- firedEvents
Notebook == INSTANCE NotebookKernelExecution
    WITH restarted <- kernelRestarted, handling <- handlersRun, handlers <- handlersCode,
         state <- executionState
Tracker == INSTANCE LastExecution
Connector == INSTANCE KernelConnector
    WITH kernels <- connected, Restarts <- ConnectorRestarts, MaxKernels <- MaxConnected
Provider == INSTANCE KernelProvider WITH open <- openNotebooks
Widgets == INSTANCE WidgetMessages
Raw == INSTANCE RawKernelConnection WITH open <- openSockets

\* It emits messages about one request after the other, and of output widgets that are open.
ASSUME ProtocolAssumption == Widgets!Protocol

\* The notebook's calls for its kernel are finitely many.
ASSUME CallsAssumption == IsFiniteSet(Connector!Calls)

emitterVars == <<listeners, deliveryQueue, fire, cancelled, firedEvents, expected, delivered>>
notebookVars == <<kernel, kernelRestarted, handlersRun, handlersCode, present, replaced,
                  executionState>>
trackerVars == <<runs, cellOf, index, file, staleState, chain, read, recalling, removedServers,
                 reloaded, moved, overtaken>>
connectorVars == <<closed, connected, attempts, cached, calls, disableUI>>
providerVars == <<openNotebooks, kernels, phase, byNotebook, byId, pending, removed, registry,
                  awaited>>
widgetVars == <<requested, mirroring, posted, emitted, msgChain, awaits, kernelChain, hooking,
                dispatcher, toWebview, toExtension, webview, restarted, discarded, captured,
                shown, late>>
rawVars == <<raw, procs, openSockets, owner, overlapped>>
allVars == <<component, vars, emitterVars, notebookVars, trackerVars, connectorVars,
             providerVars, widgetVars, rawVars>>

ServicesInit ==
    /\ component \in {"kernel", "emitter", "notebook", "tracker", "connector", "provider",
                     "widgets", "raw"}
    /\ Init /\ Emitter!Init /\ Notebook!Init /\ Tracker!Init /\ Connector!Init
    /\ Provider!Init /\ Widgets!Init /\ Raw!Init

ServicesNext ==
    /\ UNCHANGED component
    /\ \/ /\ component = "kernel" /\ Next
          /\ UNCHANGED <<emitterVars, notebookVars, trackerVars, connectorVars,
                         providerVars, widgetVars, rawVars>>
       \/ /\ component = "emitter" /\ Emitter!Next
          /\ UNCHANGED <<vars, notebookVars, trackerVars, connectorVars,
                         providerVars, widgetVars, rawVars>>
       \/ /\ component = "notebook" /\ Notebook!Next
          /\ UNCHANGED <<vars, emitterVars, trackerVars, connectorVars,
                         providerVars, widgetVars, rawVars>>
       \/ /\ component = "tracker" /\ Tracker!Next
          /\ UNCHANGED <<vars, emitterVars, notebookVars, connectorVars,
                         providerVars, widgetVars, rawVars>>
       \/ /\ component = "connector" /\ Connector!Next
          /\ UNCHANGED <<vars, emitterVars, notebookVars, trackerVars,
                         providerVars, widgetVars, rawVars>>
       \/ /\ component = "provider" /\ Provider!Next
          /\ UNCHANGED <<vars, emitterVars, notebookVars, trackerVars,
                         connectorVars, widgetVars, rawVars>>
       \/ /\ component = "widgets" /\ Widgets!Next
          /\ UNCHANGED <<vars, emitterVars, notebookVars, trackerVars,
                         connectorVars, providerVars, rawVars>>
       \/ /\ component = "raw" /\ Raw!Next
          /\ UNCHANGED <<vars, emitterVars, notebookVars, trackerVars,
                         connectorVars, providerVars, widgetVars>>

KernelFairStep ==
    \/ \E c \in Calls : Continuation(c) \/ Progress(c) \/ (sessionState[c] = "dying" /\ Gone(c))
    \/ \E n \in handling : EventHandled(n)

\* A component has finitely many fair steps: fairness of their disjunction leaves none
\* enabled for ever, as fairness of each would.
ServicesFairness ==
    /\ WF_vars(component = "kernel" /\ KernelFairStep)
    /\ WF_emitterVars(component = "emitter" /\ Emitter!FairStep)
    /\ WF_notebookVars(component = "notebook" /\ Notebook!FairStep)
    /\ WF_connectorVars(component = "connector" /\ Connector!FairStep)
    /\ WF_widgetVars(component = "widgets" /\ Widgets!FairStep)
    /\ WF_rawVars(component = "raw" /\ Raw!FairStep)

Services == ServicesInit /\ [][ServicesNext]_allVars /\ ServicesFairness

-----------------------------------------------------------------------------
(* What the kernel emits *)

Emits(r, kinds) == [i \in DOMAIN kinds |-> [request |-> r, kind |-> kinds[i]]]

\* Two requests that capture outputs; the second creates a widget while it does.
MCScript ==
    Emits(1, <<"open", "capture", "print", "release", "print">>)
    \o Emits(2, <<"open", "capture", "create", "print", "release", "print", "close">>)

-----------------------------------------------------------------------------
(* The properties of the components; those of the kernel have their own names *)

\* The types of all components: a listener subscribed once is called once, an entry of the
\* queue was not delivered, a hook that is awaited belongs to the message being handled.
ServicesTypeOK ==
    /\ TypeOK /\ Emitter!TypeOK /\ Notebook!TypeOK /\ Connector!TypeOK /\ Provider!TypeOK
    /\ Widgets!TypeOK /\ Raw!TypeOK

\* AsyncEmitter: a listener is called with the events in the order they were fired.
EventsInOrder == Emitter!InOrder

\* AsyncEmitter: who was subscribed when an event was fired has been called with it when
\* its fireAsync returns, unless it was cancelled.
NoListenerMissed == Emitter!NobodyMissed

\* NotebookKernelExecution: a queue that was replaced starts no cell.
ReplacedStartsNoCell == Notebook!ReplacedStartsNoCell

\* NotebookKernelExecution: the handlers of the first start run before the user's cells.
HandlersFirst == Notebook!HandlersFirst

\* NotebookKernelExecution: everything that was executed ends, unless a handler's code is
\* behind an execution that awaits the handlers.
EverythingServed == []<>Notebook!AllServed

\* LastExecution: what a notebook executes is known, also when the window is loaded again, and
\* an execution whose entry was deleted, or never announced, is not.
ExecutionKnown == Tracker!ExecutionKnown

\* KernelConnector: one attempt at a time starts the notebook's kernel.
OneStart == Connector!OneStart

\* KernelProvider: kernelsByNotebook and kernelsById agree and hold no disposed kernel.
KernelMapsAgree == Provider!MapsAgree

\* KernelProvider: a kernel nobody disposes is that of its notebook.
NoOrphanKernel == Provider!NoOrphan

\* KernelProvider: deactivation waits for every session to be closed.
DeactivationWaits == Provider!DeactivationWaits

\* WidgetMessages: an output is shown in the cell or captured by a widget.
NoWidgetOutputLost == Widgets!NoOutputLost

\* WidgetMessages: an output a widget captured is not shown in the cell as well, unless the
\* extension asked about it too early or its request captures for another time.
NoWidgetOutputTwice == Widgets!NoOutputTwice

\* RawKernelConnection: one process runs that nobody disposes, that of the connection.
OneProcess == Raw!OneProcess

\* RawKernelConnection: the status tells whether the kernel's process runs.
StatusAgrees == Raw!StatusAgrees

\* RawKernelConnection: a session that was released leaves no process and no socket.
NothingLeft == Raw!NothingLeft

\* RawKernelConnection: the exit of a process stops no other.
ExitStopsNoOther == Raw!ExitStopsNoOther

\* Nobody waits for ever: calls of the kernel return or throw though sessions die, every
\* fireAsync returns, every call of the connector gets its kernel or an error, widgets block
\* no request and no message, and a session that is released leaves no process.
NobodyWaits ==
    []<>(/\ \A c \in Calls : pc[c] \in {"idle"} \cup Ended
         /\ Emitter!AllReturned
         /\ Connector!AllConnected
         /\ Widgets!NothingBlocked
         /\ Raw!AllReleased)
=============================================================================

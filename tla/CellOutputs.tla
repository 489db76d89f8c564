----------------------------- MODULE CellOutputs -----------------------------
(***************************************************************************)
(* How the outputs of the cells of one notebook follow the messages of the *)
(* kernel: CellExecutionMessageHandler, its service and                    *)
(* CellOutputDisplayIdTracker, with the wrappers of CellExecutionCreator   *)
(* through which every edit of an output goes                              *)
(* (src/kernels/execution).                                                *)
(*                                                                         *)
(* A handler runs without an await, so a message is one action.  VS Code   *)
(* shows the edits later: pending holds the edits of each message, and     *)
(* EditsShown applies the oldest ones and fires one change event.          *)
(*                                                                         *)
(* An output is identified by the message that created it; its items are   *)
(* the messages whose data it shows, several only for a stream.            *)
(***************************************************************************)
EXTENDS Integers, Sequences, FiniteSets, SequencesExt

CONSTANTS
    Cells,        \* the cells of the notebook
    Executions,   \* the executions of them
    CellOf,       \* the cell of an execution
    Background,   \* executions whose threads print on when they are done
    Displays,     \* display ids
    Restored,     \* the outputs each cell has at first
    Scenarios,    \* bound: the messages one behaviour has, and what is resumed in it
    MaxMessages,  \* bound: messages the kernel sends
    None

Streams == {"out", "err"}

Kinds == Streams \cup
    {"busy", "result", "clear", "wait", "display", "update", "metadata"}

ASSUME ConstantsAssumption ==
    /\ CellOf \in [Executions -> Cells]
    /\ Background \subseteq Executions
    /\ MaxMessages \in Nat
    /\ \A s \in Scenarios : s.kinds \subseteq Kinds /\ s.resumed \subseteq Executions
    /\ Restored \in [Cells -> Seq([id : {0}, stream : Streams \cup {""},
                                  display : Displays \cup {None}, items : Seq({0})])]
    /\ None \notin Executions \cup Displays

VARIABLES
    exec,         \* an execution is "new", "queued", "running" or "done"
    task,         \* its NotebookCellExecutionWrapper: "none", "created", "started", "ended"
    active,       \* activeNotebookCellExecution
    handler,      \* messageHandlers: the execution whose handler a cell has
    acknowledged, \* executions whose handler has a startTime
    clearOnNext,  \* handlers' clearOutputOnNextUpdateToOutput
    lastStream,   \* handlers' lastUsedStreamOutput
    reattached,   \* handlers' streamsReAttachedToExecutingCell
    tracked,      \* displayIdCellOutputMappingPerDocument
    lastDisplay,  \* cellToDisplayIdMapping
    outputs,      \* cell.outputs
    pending,      \* the edits VS Code has not shown yet, one group per message
    kinds,        \* the kinds of messages the kernel sends, which never change
    resumed,      \* executions resumed after the window was reloaded (no request)
    sent,         \* history: the messages that reached a handler
    refused       \* history: messages whose edits an ended task refused

execVars    == <<exec, task, active>>
handlerVars == <<handler, acknowledged, clearOnNext, lastStream, reattached>>
trackerVars == <<tracked, lastDisplay>>
historyVars == <<kinds, resumed, sent, refused>>
vars == <<execVars, handlerVars, trackerVars, outputs, pending, historyVars>>

-----------------------------------------------------------------------------
(* Outputs and edits of outputs *)

Number == Len(sent) + 1

NewOutput(stream, d) ==
    [id |-> Number, stream |-> stream, display |-> d, items |-> <<Number>>]

AppendOutput(c, o)  == [op |-> "append", cell |-> c, outputs |-> <<o>>]
ReplaceOutput(c, s) == [op |-> "replace", cell |-> c, outputs |-> s]
ClearOutput(c)      == ReplaceOutput(c, <<>>)
AppendItems(c, id)  == [op |-> "appendItems", cell |-> c, id |-> id, item |-> Number]
ReplaceItems(c, id) == [op |-> "replaceItems", cell |-> c, id |-> id, item |-> Number]

\* An edit of the items of an output that is gone changes nothing.
WithItems(s, edit) ==
    LET p == SelectInSeq(s, LAMBDA o : o.id = edit.id)
    IN  CASE p = 0 -> s
          [] p # 0 /\ edit.op = "appendItems"  -> [s EXCEPT ![p].items = Append(@, edit.item)]
          [] p # 0 /\ edit.op = "replaceItems" -> [s EXCEPT ![p].items = <<edit.item>>]

Apply(state, edit) ==
    [state EXCEPT ![edit.cell] =
        CASE edit.op = "append"  -> @ \o edit.outputs
          [] edit.op = "replace" -> edit.outputs
          [] OTHER               -> WithItems(@, edit)]

ApplyAll(state, edits) ==
    LET After[k \in 0..Len(edits)] == IF k = 0 THEN state ELSE Apply(After[k - 1], edits[k])
    IN  After[Len(edits)]

-----------------------------------------------------------------------------
(* Tasks: a wrapper is named by the execution that created it; None is a   *)
(* task created and ended within one message.                              *)

Init ==
    /\ exec = [e \in Executions |-> "new"]
    /\ task = [e \in Executions |-> "none"]
    /\ active = None
    /\ handler = [c \in Cells |-> None]
    /\ acknowledged = {}
    /\ clearOnNext = {}
    /\ lastStream = [c \in Cells |-> None]
    /\ reattached = {}
    /\ tracked = [d \in Displays |-> None]
    /\ lastDisplay = [c \in Cells |-> None]
    /\ outputs = Restored
    /\ pending = <<>>
    /\ \E s \in Scenarios : kinds = s.kinds /\ resumed = s.resumed
    /\ sent = <<>>
    /\ refused = {}

Running(e) == exec[e] = "running"

\* Mutant: the wrapper stays in the creator's map when it ends.
WrappersMutant(c) == {e \in Executions : CellOf[e] = c /\ task[e] # "none"}

\* CellExecutionCreator.get: the wrapper of a cell that has not ended.
Wrappers(c) == {e \in Executions : CellOf[e] = c /\ task[e] \in {"created", "started"}}

\* createTemporaryTask and getOrCreateExecutionTask: the task that edits outputs for a
\* message of execution e; own: it must belong to e's cell.
Task(e, own) ==
    CASE Running(e) -> e
      [] ~Running(e) /\ active # None /\ (own => CellOf[active] = CellOf[e]) -> active
      [] OTHER -> IF Wrappers(CellOf[e]) = {} THEN None
                  ELSE CHOOSE w \in Wrappers(CellOf[e]) : TRUE

\* endTemporaryTask ends the task createTemporaryTask took from the creator.
Temporary(e, own) == ~Running(e) /\ Task(e, own) # active

Refuses(t) == t # None /\ task[t] = "ended"

\* The task state before the edits: the first message of a running execution starts its
\* task, which clears the outputs unless the execution was resumed.
Acknowledges(e) == e \notin acknowledged /\ Running(e) /\ task[e] = "created"

Opening(e) ==
    IF Acknowledges(e) /\ e \notin resumed THEN <<ClearOutput(CellOf[e])>> ELSE <<>>

\* start() of a wrapper taken as a temporary task clears the outputs of its cell as well.
TemporaryStart(t) ==
    IF t # None /\ task[t] = "created" /\ t \notin resumed
    THEN <<ClearOutput(CellOf[t])>> ELSE <<>>

\* A message without edits.
Quiet(e) ==
    /\ task' = IF Acknowledges(e) THEN [task EXCEPT ![e] = "started"] ELSE task
    /\ pending' = IF Opening(e) = <<>> THEN pending ELSE Append(pending, Opening(e))
    /\ UNCHANGED refused

\* A message with edits made through its task.
Edit(e, own, edits) ==
    LET t     == Task(e, own)
        group == Opening(e) \o (IF Temporary(e, own) THEN TemporaryStart(t) ELSE <<>>) \o edits
    IN  IF Refuses(t)
        THEN /\ refused' = refused \cup {Number}
             /\ UNCHANGED <<task, pending>>
        ELSE /\ pending' = Append(pending, group)
             /\ task' = IF t = None THEN task
                        ELSE [task EXCEPT ![t] = IF Temporary(e, own) THEN "ended" ELSE "started"]
             /\ UNCHANGED refused

Message(e, kind, d) ==
    /\ Len(sent) < MaxMessages
    /\ kind \in kinds
    /\ handler[CellOf[e]] = e
    /\ Running(e) \/ (exec[e] = "done" /\ e \in Background)
    /\ sent' = Append(sent, [cell |-> CellOf[e], kind |-> kind, display |-> d])
    /\ acknowledged' = acknowledged \cup {e}
    /\ UNCHANGED <<exec, active, handler, outputs, kinds, resumed>>

-----------------------------------------------------------------------------
(* The life of an execution *)

\* CellExecution's constructor creates the wrapper.  A cell is in the queue once.
Queue(e) ==
    /\ exec[e] = "new"
    /\ \A f \in Executions : CellOf[f] = CellOf[e] => exec[f] \in {"new", "done"}
    /\ exec' = [exec EXCEPT ![e] = "queued"]
    /\ task' = [task EXCEPT ![e] = "created"]
    /\ UNCHANGED <<active, handlerVars, trackerVars, outputs, pending, historyVars>>

\* Mutant: a cell is started while another executes.
StartMutant(e) ==
    /\ exec[e] = "queued"
    /\ exec' = [exec EXCEPT ![e] = "running"]
    /\ active' = e
    /\ handler' = [handler EXCEPT ![CellOf[e]] = e]
    /\ UNCHANGED <<task, acknowledged, clearOnNext, lastStream, reattached, trackerVars, outputs,
                   pending, historyVars>>

\* start and resume: the request is sent, the handler of an earlier execution of the cell
\* is disposed and a new one listens.  The task of a resumed cell is started at once.
Start(e) ==
    /\ exec[e] = "queued"
    /\ \A f \in Executions : ~Running(f)
    /\ exec' = [exec EXCEPT ![e] = "running"]
    /\ active' = e
    /\ handler' = [handler EXCEPT ![CellOf[e]] = e]
    /\ clearOnNext' = clearOnNext \ {CellOf[e]}
    /\ lastStream' = [lastStream EXCEPT ![CellOf[e]] = None]
    /\ reattached' = reattached \ {CellOf[e]}
    /\ task' = IF e \in resumed /\ task[e] = "created"
               THEN [task EXCEPT ![e] = "started"] ELSE task
    /\ UNCHANGED <<acknowledged, trackerVars, outputs, pending, historyVars>>

\* request.done, or what marks a resumed execution as over: endCellExecution, endCellTask.
Done(e) ==
    /\ Running(e)
    /\ e \in acknowledged \cup resumed
    /\ exec' = [exec EXCEPT ![e] = "done"]
    /\ task' = [task EXCEPT ![e] = "ended"]
    /\ active' = None
    /\ lastStream' = IF e \in resumed THEN lastStream
                     ELSE [lastStream EXCEPT ![CellOf[e]] = None]
    /\ UNCHANGED <<handler, acknowledged, clearOnNext, reattached, trackerVars, outputs,
                   pending, historyVars>>

-----------------------------------------------------------------------------
(* The messages of the kernel *)

\* clearOutputIfNecessary
ClearIfNecessary(c) == IF c \in clearOnNext THEN <<ClearOutput(c)>> ELSE <<>>

\* The flag is reset after the task has accepted the clear.
FlagAfter(e, c) ==
    clearOnNext' = IF Refuses(Task(e, TRUE)) THEN clearOnNext ELSE clearOnNext \ {c}

Forget(c) == lastStream' = [lastStream EXCEPT ![c] = None]

\* status: only the acknowledgement matters.
Status(e) ==
    /\ Message(e, "busy", None)
    /\ Quiet(e)
    /\ UNCHANGED <<clearOnNext, lastStream, reattached, trackerVars>>

\* handleStreamMessage.  The first text of a resumed execution goes on in what the cell
\* has, when its last output is the same stream.
Resumable(e, stream) ==
    LET s == outputs[CellOf[e]] IN
    /\ e \in resumed
    /\ CellOf[e] \notin reattached
    /\ lastStream[CellOf[e]] = None
    /\ s # <<>>
    /\ Last(s).stream = stream

StreamOf(e, stream) ==
    IF Resumable(e, stream) THEN [stream |-> stream, id |-> outputs[CellOf[e]][1].id]
    ELSE lastStream[CellOf[e]]

Stream(e, stream) ==
    LET c     == CellOf[e]
        clear == c \in clearOnNext
        used  == IF clear THEN None ELSE StreamOf(e, stream)
        more  == used # None /\ used.stream = stream
        new   == [stream |-> stream, id |-> Number]
    IN  /\ Message(e, stream, None)
        /\ reattached' = reattached \cup {c}
        /\ FlagAfter(e, c)
        /\ \/ /\ more
              /\ Edit(e, TRUE, <<AppendItems(c, used.id)>>)
              /\ lastStream' = [lastStream EXCEPT ![c] = used]
           \/ /\ ~more
              /\ Edit(e, TRUE, IF clear
                               THEN <<ClearOutput(c), ReplaceOutput(c, <<NewOutput(stream, None)>>)>>
                               ELSE <<AppendOutput(c, NewOutput(stream, None))>>)
              /\ lastStream' = [lastStream EXCEPT ![c] =
                                   IF clear /\ Refuses(Task(e, TRUE)) THEN None ELSE new]
        /\ UNCHANGED trackerVars

\* addToCellData: execute_result, display_data, error.  A display id is tracked unless the
\* clear before it was refused.
Track(c, d, id) ==
    /\ tracked' = [tracked EXCEPT ![d] = [cell |-> c, id |-> id]]
    /\ lastDisplay' = [lastDisplay EXCEPT ![c] = d]

\* Mutant: the stream before the output is still the last one used.
AddToCellDataMutant(e, kind, d) ==
    LET c == CellOf[e] IN
    /\ Message(e, kind, d)
    /\ Edit(e, TRUE, ClearIfNecessary(c) \o <<AppendOutput(c, NewOutput("", d))>>)
    /\ FlagAfter(e, c)
    /\ IF d = None THEN UNCHANGED trackerVars ELSE Track(c, d, Number)
    /\ UNCHANGED <<lastStream, reattached>>

AddToCellData(e, kind, d) ==
    LET c == CellOf[e] IN
    /\ Message(e, kind, d)
    /\ Edit(e, TRUE, ClearIfNecessary(c) \o <<AppendOutput(c, NewOutput("", d))>>)
    /\ FlagAfter(e, c)
    /\ Forget(c)
    /\ IF d = None \/ (c \in clearOnNext /\ Refuses(Task(e, TRUE)))
       THEN UNCHANGED trackerVars ELSE Track(c, d, Number)
    /\ UNCHANGED reattached

\* handleClearOutput
Clear(e) ==
    /\ Message(e, "clear", None)
    /\ Edit(e, TRUE, <<ClearOutput(CellOf[e])>>)
    /\ Forget(CellOf[e])
    /\ UNCHANGED <<clearOnNext, reattached, trackerVars>>

ClearWait(e) ==
    /\ Message(e, "wait", None)
    /\ Quiet(e)
    /\ clearOnNext' = clearOnNext \cup {CellOf[e]}
    /\ UNCHANGED <<lastStream, reattached, trackerVars>>

\* handleUpdateDisplayDataMessage.  The execution of one cell may update an output of
\* another.  When the metadata changes as well, all outputs the cell has by now are put
\* back with the new one among them.
Update(e, d) ==
    /\ Message(e, "update", d)
    /\ IF tracked[d] = None THEN Quiet(e) /\ UNCHANGED trackerVars
       ELSE /\ Edit(e, FALSE, <<ReplaceItems(tracked[d].cell, tracked[d].id)>>)
            /\ IF Refuses(Task(e, FALSE)) THEN UNCHANGED trackerVars
               ELSE Track(tracked[d].cell, d, tracked[d].id)
    /\ UNCHANGED <<clearOnNext, lastStream, reattached>>

WithDisplay(s, d, o) == [p \in DOMAIN s |-> IF s[p].display = d THEN o ELSE s[p]]

UpdateMetadata(e, d) ==
    /\ Message(e, "metadata", d)
    /\ IF tracked[d] = None THEN Quiet(e) /\ UNCHANGED trackerVars
       ELSE LET c == tracked[d].cell IN
            /\ Edit(e, FALSE, <<ReplaceOutput(c, WithDisplay(outputs[c], d, NewOutput("", d)))>>)
            /\ IF Refuses(Task(e, FALSE)) THEN UNCHANGED trackerVars
               ELSE Track(c, d, Number)
    /\ UNCHANGED <<clearOnNext, lastStream, reattached>>

-----------------------------------------------------------------------------
(* VS Code *)

\* The listeners of onDidChangeNotebookDocument, for cells that are empty now.
SeenEmpty(cells) ==
    /\ lastStream' = [c \in Cells |-> IF c \in cells THEN None ELSE lastStream[c]]
    /\ tracked' = [d \in Displays |->
                      IF \E c \in cells : lastDisplay[c] = d THEN None ELSE tracked[d]]
    /\ lastDisplay' = [c \in Cells |-> IF c \in cells THEN None ELSE lastDisplay[c]]

\* The oldest edits are shown.  The event reports the outputs of the cells that changed.
EditsShown ==
    \E k \in 1..Len(pending) :
        LET edits == FlattenSeq(SubSeq(pending, 1, k))
            after == ApplyAll(outputs, edits)
        IN  /\ outputs' = after
            /\ pending' = SubSeq(pending, k + 1, Len(pending))
            /\ SeenEmpty({c \in Cells :
                   /\ after[c] = <<>>
                   /\ \/ outputs[c] # <<>>
                      \/ \E p \in DOMAIN edits : edits[p].cell = c /\ edits[p].op = "append"})
            /\ UNCHANGED <<execVars, handler, acknowledged, clearOnNext, reattached, historyVars>>

\* The user clears the outputs of a cell.
UserClears(c) ==
    /\ outputs[c] # <<>>
    /\ outputs' = [outputs EXCEPT ![c] = <<>>]
    /\ SeenEmpty({c})
    /\ UNCHANGED <<execVars, handler, acknowledged, clearOnNext, reattached, pending, historyVars>>

-----------------------------------------------------------------------------

Next ==
    \/ \E e \in Executions :
          \/ Queue(e) \/ Start(e) \/ Done(e)
          \/ Status(e) \/ Clear(e) \/ ClearWait(e)
          \/ \E stream \in Streams : Stream(e, stream)
          \/ AddToCellData(e, "result", None)
          \/ \E d \in Displays : AddToCellData(e, "display", d) \/ Update(e, d) \/ UpdateMetadata(e, d)
    \/ EditsShown
    \/ \E c \in Cells : UserClears(c)

Spec == Init /\ [][Next]_vars

-----------------------------------------------------------------------------
(* Properties *)

OutputsType == [id : 0..MaxMessages, stream : Streams \cup {""},
                display : Displays \cup {None}, items : Seq(0..MaxMessages)]

\* The fields keep their types, and activeNotebookCellExecution is the task of the cell that
\* executes, as the comment of that map says.
TypeOK ==
    /\ exec \in [Executions -> {"new", "queued", "running", "done"}]
    /\ task \in [Executions -> {"none", "created", "started", "ended"}]
    /\ active \in Executions \cup {None}
    /\ \A e \in Executions : Running(e) <=> active = e
    /\ \A c \in Cells : handler[c] # None => exec[handler[c]] \in {"running", "done"}
    /\ acknowledged \subseteq Executions
    /\ clearOnNext \subseteq Cells
    /\ reattached \subseteq Cells
    /\ \A c \in Cells : lastStream[c] # None =>
           lastStream[c] \in [stream : Streams, id : 0..Len(sent)]
    /\ \A d \in Displays : tracked[d] # None => tracked[d] \in [cell : Cells, id : 1..Len(sent)]
    /\ lastDisplay \in [Cells -> Displays \cup {None}]
    /\ \A c \in Cells : outputs[c] \in Seq(OutputsType)
    /\ \A p \in DOMAIN pending : pending[p] # <<>>
    /\ refused \subseteq 1..Len(sent)

\* No output is refused: the task a handler edits the outputs with has not ended, also for
\* text of background threads that arrives when the cell is done, for which
\* getOrCreateExecutionTask creates a temporary task.
NoOutputRefused == refused = {}
=============================================================================

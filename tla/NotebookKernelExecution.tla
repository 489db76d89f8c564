----------------------- MODULE NotebookKernelExecution -----------------------
(***************************************************************************)
(* The executions of one notebook (src/kernels/kernelExecution.ts): its    *)
(* queues, of which one is in use, and the start of the kernel they wait   *)
(* for.  A queue that is empty or has failed is replaced, though its loop  *)
(* may go on.  When the kernel has started or restarted, handlers of       *)
(* extensions run, and may execute code themselves.                        *)
(*                                                                         *)
(* CellExecutionQueue models one queue, and KernelLifecycle the start, in  *)
(* detail.  Here starts and restarts succeed, and a kernel is not          *)
(* restarted while handlers run.                                           *)
(***************************************************************************)
EXTENDS Integers, Sequences, SequencesExt

CONSTANTS
    Cells,     \* executed by the user
    Resumed,   \* cells whose execution is resumed after a reload of the window
    Codes      \* executed by other extensions

Executions == Cells \cup Resumed \cup Codes

VARIABLES
    kernel,     \* "none", "starting", "up", "restarting" or "restarted" (the event is to be fired)
    restarted,  \* it was restarted (bound: once)
    handling,   \* isPostInitializedInProgress: handlers run
    handlers,   \* the code they executed
    present,    \* the queue of documentExecutions (empty before there is one): items, failed, and
                \* whether the session it awaits comes with the "session", with the end of the
                \* "handlers", or is there ("nothing")
    replaced,   \* the queues it was before whose loops go on
    state       \* of executions: "idle", "starting" (awaits the kernel), "queued", "running",
                \* "failed" or "done"

vars == <<kernel, restarted, handling, handlers, present, replaced, state>>

Init ==
    /\ kernel = "none" /\ restarted = FALSE
    /\ handling = FALSE /\ handlers = {}
    /\ present = [items |-> <<>>, failed |-> FALSE, awaits |-> "nothing"] /\ replaced = {}
    /\ state = [i \in Executions |-> "idle"]

Queues == replaced \cup {present}

KernelStarted(c) == state[c] = "starting" /\ kernel \in {"up", "restarted"} /\ ~handling

SessionThere(q) ==
    /\ kernel \in {"up", "restarted"}
    /\ q.awaits = "session" \/ (q.awaits = "handlers" /\ ~handling)

\* What awaited the session goes on before anything comes from outside.
Quiescent == (\A c \in Cells : ~KernelStarted(c)) /\ \A q \in Queues : ~SessionThere(q)

-----------------------------------------------------------------------------
(* Executing                                                               *)

\* Queues that are empty and not in use are forgotten.
Kept(qs) == {q \in qs : q.items # <<>>}

\* getOrCreateCellExecutionQueue, and what is queued.
Enqueue(i, awaits) ==
    /\ \/ /\ present.items # <<>> /\ ~present.failed
          /\ present' = [present EXCEPT !.items = Append(@, i)]
          /\ UNCHANGED replaced
       \/ /\ present.items = <<>> \/ present.failed
          /\ present' = [items |-> <<i>>, failed |-> FALSE, awaits |-> awaits]
          /\ replaced' = Kept(replaced \cup {present})
    /\ state' = [state EXCEPT ![i] = "queued"]

\* kernel.start()
Start == kernel' = IF kernel = "none" THEN "starting" ELSE kernel

\* Mutant: the cell is queued without awaiting the kernel.
ExecuteCellMutant(c) ==
    /\ Quiescent /\ state[c] = "idle"
    /\ Start
    /\ Enqueue(c, "handlers")
    /\ UNCHANGED <<restarted, handling, handlers>>

\* executeCell waits for the kernel, and for the handlers, before it queues the cell.
ExecuteCell(c) ==
    /\ Quiescent /\ state[c] = "idle"
    /\ Start
    /\ state' = [state EXCEPT ![c] = "starting"]
    /\ UNCHANGED <<restarted, handling, handlers, present, replaced>>

QueueCell(c) ==
    /\ KernelStarted(c)
    /\ Enqueue(c, "session")
    /\ UNCHANGED <<kernel, restarted, handling, handlers>>

ResumeCellExecution(c) ==
    /\ Quiescent /\ state[c] = "idle"
    /\ Start
    /\ Enqueue(c, "handlers")
    /\ UNCHANGED <<restarted, handling, handlers>>

\* Mutant: code executed by a handler awaits the handlers.
ExecuteCodeMutant(x) ==
    /\ Quiescent /\ state[x] = "idle" /\ kernel # "none"
    /\ Enqueue(x, "handlers")
    /\ handlers' \in {handlers, IF handling THEN handlers \cup {x} ELSE handlers}
    /\ UNCHANGED <<kernel, restarted, handling>>

\* executeCode, once the user has started the kernel.  While handlers run it does not await
\* them, whoever executes it.
ExecuteCode(x) ==
    /\ Quiescent /\ state[x] = "idle" /\ kernel # "none"
    /\ Enqueue(x, IF handling THEN "session" ELSE "handlers")
    /\ handlers' \in {handlers, IF handling THEN handlers \cup {x} ELSE handlers}
    /\ UNCHANGED <<kernel, restarted, handling>>

-----------------------------------------------------------------------------
(* The loop of a queue                                                     *)

\* A queue of the notebook becomes r.
QueueBecomes(q, r) ==
    \/ q = present /\ present' = r /\ UNCHANGED replaced
    \/ q # present /\ replaced' = Kept((replaced \ {q}) \cup {r}) /\ UNCHANGED present

LoopBegins(q) ==
    /\ SessionThere(q)
    /\ QueueBecomes(q, [q EXCEPT !.awaits = "nothing"])
    /\ UNCHANGED <<kernel, restarted, handling, handlers, state>>

AtItem(q, states) ==
    q.awaits = "nothing" /\ q.items # <<>> /\ state[Head(q.items)] \in states

ExecuteHead(q) ==
    /\ AtItem(q, {"queued"})
    /\ state' = [state EXCEPT ![Head(q.items)] = "running"]
    /\ UNCHANGED <<kernel, restarted, handling, handlers, present, replaced>>

\* The kernel has executed it; only cells fail.
Executed(i) ==
    /\ state[i] = "running"
    /\ \E outcome \in IF i \in Codes THEN {"done"} ELSE {"done", "failed"} :
          state' = [state EXCEPT ![i] = outcome]
    /\ UNCHANGED <<kernel, restarted, handling, handlers, present, replaced>>

Cancelled(items) == [i \in Executions |-> IF i \in items /\ state[i] = "queued" THEN "done" ELSE state[i]]

Fails(q) == q.failed \/ state[Head(q.items)] = "failed"

\* Mutant: cells behind one that failed are not cancelled when there is code.
NextItemMutant(q) ==
    /\ AtItem(q, {"done", "failed"})
    /\ LET rest == Tail(q.items)
           stops == Fails(q) /\ ToSet(rest) \cap Codes = {}
       IN  /\ QueueBecomes(q, [q EXCEPT !.items = IF stops THEN <<>> ELSE rest, !.failed = Fails(q)])
           /\ state' = [Cancelled(IF stops THEN ToSet(rest) ELSE {}) EXCEPT ![Head(q.items)] = "done"]
    /\ UNCHANGED <<kernel, restarted, handling, handlers>>

\* The loop goes on.  After a failure cells are cancelled, and the queue is emptied when there
\* is nothing else in it; else they are passed over, as code is executed still.
NextItem(q) ==
    /\ AtItem(q, {"done", "failed"})
    /\ LET rest == Tail(q.items)
           stops == Fails(q) /\ ToSet(rest) \cap Codes = {}
       IN  /\ QueueBecomes(q, [q EXCEPT !.items = IF stops THEN <<>> ELSE rest, !.failed = Fails(q)])
           /\ state' = [Cancelled(IF Fails(q) THEN ToSet(rest) \ Codes ELSE {})
                            EXCEPT ![Head(q.items)] = "done"]
    /\ UNCHANGED <<kernel, restarted, handling, handlers>>

-----------------------------------------------------------------------------
(* The kernel                                                              *)

\* Its session has been created, and the event is fired.
SessionCreated ==
    /\ kernel = "starting"
    /\ kernel' = "up" /\ handling' = TRUE
    /\ UNCHANGED <<restarted, handlers, present, replaced, state>>

\* Handlers end when the code they executed has.
HandlersEnd ==
    /\ handling
    /\ \A x \in handlers : state[x] = "done"
    /\ handling' = FALSE /\ handlers' = {}
    /\ UNCHANGED <<kernel, restarted, present, replaced, state>>

\* cancel() of the queue in use: the loop ends with what runs.
Cancel == [present EXCEPT !.failed = TRUE,
                          !.items = IF @ # <<>> /\ state[Head(@)] # "queued" THEN <<Head(@)>> ELSE <<>>]

\* onWillInterrupt
Interrupt ==
    /\ Quiescent
    /\ present.items # <<>>
    /\ present' = Cancel
    /\ state' = Cancelled(ToSet(present.items))
    /\ UNCHANGED <<kernel, restarted, handling, handlers, replaced>>

\* onWillRestart cancels the queue in use, and the requests of all end with the session.
Restart ==
    /\ Quiescent
    /\ kernel = "up" /\ ~handling /\ ~restarted
    /\ kernel' = "restarting" /\ restarted' = TRUE
    /\ present' = Cancel
    /\ LET items == ToSet(present.items)
       IN  state' = [i \in Executions |->
                        CASE state[i] = "running" /\ i \notin items \cup Codes -> "failed"
                          [] state[i] = "running" \/ (state[i] = "queued" /\ i \in items) -> "done"
                          [] OTHER -> state[i]]
    /\ UNCHANGED <<handling, handlers, replaced>>

SessionRestarted ==
    /\ kernel = "restarting"
    /\ kernel' = "restarted"
    /\ UNCHANGED <<restarted, handling, handlers, present, replaced, state>>

\* The event is fired once more.
EventFired ==
    /\ kernel = "restarted"
    /\ Quiescent
    /\ kernel' = "up" /\ handling' = TRUE
    /\ UNCHANGED <<restarted, handlers, present, replaced, state>>

Next ==
    \/ \E c \in Cells : ExecuteCell(c) \/ QueueCell(c)
    \/ \E c \in Resumed : ResumeCellExecution(c)
    \/ \E x \in Codes : ExecuteCode(x)
    \/ \E q \in Queues : LoopBegins(q) \/ ExecuteHead(q) \/ NextItem(q)
    \/ \E i \in Executions : Executed(i)
    \/ SessionCreated \/ HandlersEnd
    \/ Interrupt \/ Restart \/ SessionRestarted \/ EventFired

\* Promises are run, the kernel answers, and handlers end.
FairStep ==
    \/ \E c \in Cells : QueueCell(c)
    \/ \E q \in Queues : LoopBegins(q) \/ ExecuteHead(q) \/ NextItem(q)
    \/ \E i \in Executions : Executed(i)
    \/ SessionCreated \/ HandlersEnd \/ SessionRestarted \/ EventFired

Spec == Init /\ [][Next]_vars /\ WF_vars(FairStep)

-----------------------------------------------------------------------------
(* Properties                                                              *)

\* Every execution that is queued is in one queue.
TypeOK ==
    /\ kernel \in {"none", "starting", "up", "restarting", "restarted"}
    /\ handlers \subseteq Codes
    /\ \A i \in Executions : state[i] \in {"queued", "running"} =>
          \E q \in Queues : \A p \in Queues : i \in ToSet(p.items) <=> p = q

\* A queue that was replaced starts no cell any more: its loop executes code only, beside
\* the cells of the queue that replaced it.
ReplacedStartsNoCell ==
    [][\A q \in replaced : \A c \in ToSet(q.items) \ Codes :
          state[c] = "queued" => state'[c] # "running"]_vars

\* No cell of the user starts before the handlers of the kernel's first start have ended:
\* "in case we need to allow extensions to run code before the initial user-triggered
\* execution" (kernelExecution.ts).
HandlersFirst ==
    [][\A c \in Cells : state[c] # "running" /\ state'[c] = "running"
          => restarted \/ ~handling]_vars

\* The first of a queue, code or a resumed cell, awaits the handlers, and the code of a
\* handler is behind it: they wait for each other.
Blocked ==
    \E q \in Queues : /\ handling /\ q.awaits = "handlers"
                      /\ ToSet(q.items) \cap handlers # {}
                      /\ Head(q.items) \notin Cells \cup handlers

\* Everything that was executed has ended, and so have the handlers: so it comes to be,
\* unless they are blocked.
AllServed ==
    Blocked \/ (~handling /\ \A i \in Executions : state[i] \in {"idle", "done"})
=============================================================================

------------------------ MODULE CellQueueRefinement ------------------------
(***************************************************************************)
(* CellExecutionQueue implements SerialExecution: an item is pending while *)
(* it is in the queue with neither a request nor a result, and running     *)
(* from its request to its result.                                         *)
(***************************************************************************)
EXTENDS CellExecutionQueue

PendingItems == {i \in ToSet(queue) \ started : ~Settled(i)}
RunningItems == {i \in started : ~Settled(i)}

Serial == INSTANCE SerialExecution
              WITH submitted <- enqueued, pending <- PendingItems, running <- RunningItems

\* The queue processes the items one at a time, in the order they were queued, and what
\* was cancelled or dropped never runs: the promise of the class comment of
\* CellExecutionQueue, whatever the interleaving of replies, interrupts, restarts, deleted
\* cells and a closing notebook.
ImplementsSerialExecution == Serial!Spec
=============================================================================

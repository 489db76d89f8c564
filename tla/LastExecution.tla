---------------------------- MODULE LastExecution ----------------------------
(***************************************************************************)
(* The executions on remote kernels that are remembered, so that a window  *)
(* that is loaded again goes on with them (LastCellExecutionTracker).  A   *)
(* file holds the last of each notebook.  It is read and written by        *)
(* operations that follow each other in a chain of promises; what is       *)
(* recalled is read beside them, and kept.                                 *)
(*                                                                         *)
(* A kernel executes one cell at a time.  One window uses the file, whose  *)
(* writes are whole, and nothing in it is too old.                         *)
(***************************************************************************)
EXTENDS Integers, Sequences, SequencesExt, Functions

CONSTANTS
    Documents,    \* notebooks
    Runs,         \* executions
    None

DocumentCells == Documents \X {1, 2}
Document(cell) == cell[1]

VARIABLES
    runs,      \* of executions: "idle", "sent", "tracked" (the kernel has announced it) and,
               \* when executeCell is over, "cancelled" (before the announcement; "late" once
               \* announced), "returned" or "failed" (it threw); "left" is still executed
               \* when the window was reloaded, "kept" is over and its entry stays
    cellOf,    \* their cells
    index,     \* of cells
    file, staleState,   \* entries of the notebooks: the execution and the index of its cell
    chain,     \* chainedPromises: the operations to come, the first being under way
    read,      \* the file's entries it has read
    recalling, \* what getLastTrackedCellExecution has read
    removedServers, reloaded,
    moved, overtaken   \* history: of cells, and whether older entries were kept

trackerVars == <<runs, cellOf, index, file, staleState, chain, read, recalling, removedServers,
                 reloaded, moved, overtaken>>

NoEntries == [d \in Documents |-> None]

Init ==
    /\ runs = [r \in Runs |-> "idle"] /\ cellOf = [r \in Runs |-> None]
    /\ index = [c \in DocumentCells |-> c[2]]
    /\ file = NoEntries /\ staleState = NoEntries
    /\ chain = <<>> /\ read = None /\ recalling = None
    /\ removedServers = {} /\ reloaded = FALSE
    /\ moved = {} /\ overtaken = FALSE

Busy(document) ==
    \E r \in Runs : runs[r] \in {"sent", "tracked"} /\ Document(cellOf[r]) = document

Chained(op) == chain' = Append(chain, op)

\* The kernel announces what it executes in turn, and of a cell only the last is tracked.
Unannounced(cells) ==
    [r \in Runs |-> IF runs[r] = "cancelled" /\ cellOf[r] \in cells THEN "returned" ELSE runs[r]]

\* trackCellExecution, and the request that is sent.  An execution that was left is then no
\* longer the last, but nothing deletes its entry.
Execute(r, cell) ==
    /\ runs[r] = "idle" /\ ~Busy(Document(cell)) /\ Document(cell) \notin removedServers
    /\ runs' = [s \in Runs |->
                   CASE s = r -> "sent"
                     [] runs[s] = "left" /\ Document(cellOf[s]) = Document(cell) -> "kept"
                     [] OTHER -> Unannounced({cell})[s]]
    /\ cellOf' = [cellOf EXCEPT ![r] = cell]
    /\ UNCHANGED <<index, file, staleState, chain, read, recalling, removedServers, reloaded,
                   moved, overtaken>>

\* The kernel tells the execution count: trackLastExecution.
Announced(r) ==
    /\ runs[r] \in {"sent", "cancelled"}
    /\ runs' = [Unannounced({c \in DocumentCells : c[1] = Document(cellOf[r])})
                   EXCEPT ![r] = IF runs[r] = "sent" THEN "tracked" ELSE "late"]
    /\ Chained([does |-> "track", document |-> Document(cellOf[r]),
                entry |-> [run |-> r, index |-> index[cellOf[r]]]])
    /\ UNCHANGED <<cellOf, index, file, staleState, read, recalling, removedServers, reloaded,
                   moved, overtaken>>

\* executeCell returns: deleteTrackedCellExecution.
Returned(r) ==
    /\ runs[r] \in {"sent", "tracked"}
    /\ runs' = [runs EXCEPT ![r] = IF @ = "sent" THEN "cancelled" ELSE "returned"]
    /\ Chained([does |-> "delete", document |-> Document(cellOf[r]), cell |-> cellOf[r]])
    /\ UNCHANGED <<cellOf, index, file, staleState, read, recalling, removedServers, reloaded,
                   moved, overtaken>>

\* executeCell throws (the cell failed), or VS Code is exiting: nothing is deleted.
Failed(r) ==
    /\ runs[r] \in {"sent", "tracked"}
    /\ runs' = [runs EXCEPT ![r] = IF @ = "sent" THEN "cancelled" ELSE "failed"]
    /\ UNCHANGED <<cellOf, index, file, staleState, chain, read, recalling, removedServers, reloaded,
                   moved, overtaken>>

\* onDidRemoveServers
ServerRemoved(document) ==
    /\ document \notin removedServers
    /\ removedServers' = removedServers \cup {document}
    /\ Chained([does |-> "remove", document |-> document])
    /\ UNCHANGED <<runs, cellOf, index, file, staleState, read, recalling, reloaded, moved, overtaken>>

OperationReads ==
    /\ chain # <<>> /\ read = None
    /\ read' = file
    /\ UNCHANGED <<runs, cellOf, index, file, staleState, chain, recalling, removedServers, reloaded,
                   moved, overtaken>>

\* The entry of the notebook that an operation writes; a cell's index is its index by then.
Entry(op) ==
    LET entry == read[op.document]
    IN  CASE op.does = "track" -> op.entry
          [] op.does = "remove" -> None
          [] op.does = "delete" -> IF entry # None /\ entry.index = index[op.cell] THEN None ELSE entry

\* Mutant: the next operation has read the file before this one writes it.
OperationWritesMutant ==
    /\ read # None
    /\ file' = [read EXCEPT ![Head(chain).document] = Entry(Head(chain))]
    /\ staleState' = IF file' = read THEN staleState ELSE file'
    /\ chain' = Tail(chain)
    /\ read' = IF chain' = <<>> THEN None ELSE read
    /\ UNCHANGED <<runs, cellOf, index, recalling, removedServers, reloaded, moved, overtaken>>

\* A deletion that finds no entry throws, which the chain ignores.  staleState is assigned
\* before the write is awaited; here the two are one step (bound).
OperationWrites ==
    /\ read # None
    /\ file' = [read EXCEPT ![Head(chain).document] = Entry(Head(chain))]
    /\ staleState' = IF file' = read /\ Head(chain).does # "track" THEN staleState ELSE file'
    /\ chain' = Tail(chain)
    /\ read' = None
    /\ UNCHANGED <<runs, cellOf, index, recalling, removedServers, reloaded, moved, overtaken>>

\* getLastTrackedCellExecution, which needs the file when it knows no entry.
Recalls(document) ==
    /\ recalling = None /\ staleState[document] = None
    /\ recalling' = file
    /\ UNCHANGED <<runs, cellOf, index, file, staleState, chain, read, removedServers, reloaded,
                   moved, overtaken>>

Recalled ==
    /\ recalling # None
    /\ staleState' = recalling /\ recalling' = None
    /\ overtaken' = (overtaken \/ recalling # file)
    /\ UNCHANGED <<runs, cellOf, index, file, chain, read, removedServers, reloaded, moved>>

CellsMove(document) ==
    /\ document \notin moved /\ moved' = moved \cup {document}
    /\ index' = [c \in DocumentCells |-> IF c[1] = document THEN 3 - index[c] ELSE index[c]]
    /\ UNCHANGED <<runs, cellOf, file, staleState, chain, read, recalling, removedServers, reloaded,
                   overtaken>>

\* The file's entry of the notebook is that of the execution.
Holds(r) == LET entry == file[Document(cellOf[r])] IN entry # None /\ entry.run = r

\* The window is loaded again (bound: once), and knows of its executions what the file holds:
\* the operations to come are lost.
Reload ==
    /\ ~reloaded /\ reloaded' = TRUE
    /\ runs' = [r \in Runs |->
                   CASE runs[r] \in {"sent", "cancelled"} -> "returned"
                     [] runs[r] = "tracked" -> IF Holds(r) THEN "left" ELSE "returned"
                     [] runs[r] = "returned" -> IF Holds(r) THEN "kept" ELSE "returned"
                     [] OTHER -> runs[r]]
    /\ chain' = <<>> /\ read' = None /\ recalling' = None
    /\ staleState' = NoEntries /\ overtaken' = FALSE
    /\ UNCHANGED <<cellOf, index, file, removedServers, moved>>

Next ==
    \/ \E r \in Runs, cell \in DocumentCells : Execute(r, cell)
    \/ \E r \in Runs : Announced(r) \/ Returned(r) \/ Failed(r)
    \/ \E d \in Documents : ServerRemoved(d) \/ Recalls(d) \/ CellsMove(d)
    \/ OperationReads \/ OperationWrites \/ Recalled \/ Reload

Spec == Init /\ [][Next]_trackerVars

-----------------------------------------------------------------------------
(* Properties                                                              *)

\* What is known of a notebook's last execution.
Known(document) == IF staleState[document] # None THEN staleState[document] ELSE file[document]

\* When the chain has come to its end, what a notebook executes is known with its cell, also
\* after the window was loaded again, and what is over and was deleted, or was never
\* announced, is not.  Known though over are those whose entry nothing deletes: announced when
\* they were over ("late"), failed, or deleted too late for a reload or not at all after one
\* ("kept").  Excepted are notebooks whose cells moved or whose server was removed, and
\* windows that kept older entries.
ExecutionKnown ==
    chain = <<>> =>
        \A r \in Runs :
            LET d == Document(cellOf[r])
            IN  cellOf[r] # None /\ d \notin moved \cup removedServers /\ ~overtaken =>
                    /\ runs[r] \in {"tracked", "left"} => Known(d) = [run |-> r, index |-> index[cellOf[r]]]
                    /\ runs[r] \in {"cancelled", "returned"} => Known(d) = None \/ Known(d).run # r
=============================================================================

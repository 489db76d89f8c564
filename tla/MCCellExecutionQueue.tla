------------------------ MODULE MCCellExecutionQueue ------------------------
(* Instances of CellExecutionQueue for TLC. *)
EXTENDS CellQueueRefinement

CONSTANTS a1, a2, b1, x1, cellA, cellB

\* Cell A may be executed twice; A and B are the notebook's cells; B may raise.
MCCellOf == (a1 :> cellA) @@ (a2 :> cellA) @@ (b1 :> cellB)

\* Each cell executed once.
MCCellOfTwo == (a1 :> cellA) @@ (b1 :> cellB)
=============================================================================

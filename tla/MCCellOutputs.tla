---------------------------- MODULE MCCellOutputs ----------------------------
(* Instances of CellOutputs for TLC. *)
EXTENDS CellOutputsRefinement

CONSTANTS a1, a2, b1, cellA, cellB, d1

\* Cell B prints on in the background.
MCCellOf == (a1 :> cellA) @@ (b1 :> cellB)

\* Cell A prints in the background and is executed again.
MCCellOfAgain == (a1 :> cellA) @@ (a2 :> cellA) @@ (b1 :> cellB)

MCText == {[kinds |-> {"out"}, resumed |-> {}]}

\* What a cell prints, how it clears, and what updates do to what is printed.  A resumed
\* cell prints text.
MCScenarios ==
    {[kinds |-> k, resumed |-> {}] :
        k \in {{"out", "err"}, {"out", "clear", "wait"}, {"busy", "result"},
               {"display", "update", "clear"}, {"display", "metadata", "out"}, {"display", "wait"}}}
    \cup {[kinds |-> {"out", "err"}, resumed |-> {a1}]}

\* Cell A has the text it had printed before the window was reloaded.
MCRestored ==
    (cellA :> <<[id |-> 0, stream |-> "out", display |-> None, items |-> <<0>>]>>)
    @@ (cellB :> <<>>)
=============================================================================

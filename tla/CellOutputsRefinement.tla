------------------------ MODULE CellOutputsRefinement ------------------------
(***************************************************************************)
(* CellOutputs implements NotebookOutputs: an output is shown as one entry *)
(* for every message of a stream and as one entry otherwise, and an edit   *)
(* is the change it makes to these entries.                                *)
(***************************************************************************)
EXTENDS CellOutputs

Entry(n, d) == [key |-> n, content |-> n, display |-> d]

EntriesOf(o) ==
    IF o.stream = "" THEN <<[key |-> o.id, content |-> o.items[1], display |-> o.display]>>
    ELSE [p \in DOMAIN o.items |-> Entry(o.items[p], None)]

ShownEntries(s) == FlattenSeq([p \in DOMAIN s |-> EntriesOf(s[p])])

ChangeOf(edit) ==
    LET c == edit.cell IN
    CASE edit.op = "append"       -> [op |-> "add", cell |-> c, entries |-> ShownEntries(edit.outputs)]
      [] edit.op = "replace"      -> [op |-> "put", cell |-> c, entries |-> ShownEntries(edit.outputs)]
      [] edit.op = "appendItems"  -> [op |-> "add", cell |-> c, entries |-> <<Entry(edit.item, None)>>]
      [] edit.op = "replaceItems" ->
            [op |-> "change", cell |-> c, key |-> edit.id, content |-> edit.item]

ShownCells(state) == [c \in Cells |-> ShownEntries(state[c])]

\* The outputs before edit number q of group number p is applied.
Before(p, q) ==
    ApplyAll(outputs, FlattenSeq(SubSeq(pending, 1, p - 1)) \o SubSeq(pending[p], 1, q - 1))

HasOutput(s, id) == \E k \in DOMAIN s : s[k].id = id

\* Text for an output that is gone changes nothing.
IsLost(p, q) ==
    LET edit == pending[p][q] IN
    edit.op = "appendItems" /\ ~HasOutput(Before(p, q)[edit.cell], edit.id)

\* Cells whose text goes on in an output that will be gone.
Torn ==
    LET after == ApplyAll(outputs, FlattenSeq(pending))
    IN  {c \in Cells : lastStream[c] # None /\ ~HasOutput(after[c], lastStream[c].id)}

ChangesOf(p) ==
    FlattenSeq([q \in DOMAIN pending[p] |->
                   IF IsLost(p, q) THEN <<>> ELSE <<ChangeOf(pending[p][q])>>])

Inbox == [p \in DOMAIN pending |-> ChangesOf(p)]

Fresh == {CellOf[e] : e \in {f \in Executions \ resumed : Running(f) /\ task[f] = "created"}}

Displayed ==
    [d \in Displays |-> IF tracked[d] = None THEN None
                        ELSE [cell |-> tracked[d].cell, key |-> tracked[d].id]]

Abstract == INSTANCE NotebookOutputs
                WITH shown <- ShownCells(outputs), inbox <- Inbox, sent <- sent, fresh <- Fresh,
                     waiting <- clearOnNext, torn <- Torn, displayed <- Displayed,
                     Restored <- ShownCells(Restored)

\* The outputs of every cell are those the kernel sent, in the order it sent them, cleared
\* and updated when it says so, although edits lag behind messages, text is merged into the
\* stream output used last, background threads print while other cells execute and the user
\* clears outputs: what the handlers of CellExecutionMessageHandler are for.
ImplementsNotebookOutputs == Abstract!Spec
=============================================================================

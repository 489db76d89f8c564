--------------------------- MODULE NotebookOutputs ---------------------------
(***************************************************************************)
(* What the cells of a notebook promise to show of the messages a kernel   *)
(* sends: the outputs of a cell appear in the order they were sent, each   *)
(* once; clear_output empties the cell, at once or with the next output;   *)
(* an update replaces the content of the display it names, where it is.    *)
(*                                                                         *)
(* Messages are sent to an inbox of changes and shown later, so what is    *)
(* shown lags behind.  An output is an entry: key is the message that      *)
(* created it and content the message whose data it shows.                 *)
(***************************************************************************)
EXTENDS Integers, Sequences, SequencesExt

CONSTANTS
    Cells,      \* the cells of the notebook
    Displays,   \* display ids
    Restored,   \* the entries each cell shows at first
    None        \* no display, no entry

VARIABLES
    shown,      \* the entries of each cell
    inbox,      \* groups of changes that are not shown yet, oldest first
    sent,       \* the messages sent: the cell each belongs to, its kind and display id
    fresh,      \* cells whose outputs the next message of their execution clears
    waiting,    \* cells to be cleared with their next output: clear_output(wait)
    torn,       \* cells that may lose text, after an update of metadata
    displayed   \* the entry an update of each display id changes

vars == <<shown, inbox, sent, fresh, waiting, torn, displayed>>

Entry(n, d) == [key |-> n, content |-> n, display |-> d]

Add(c, n, d)    == [op |-> "add", cell |-> c, entries |-> <<Entry(n, d)>>]
Put(c, entries) == [op |-> "put", cell |-> c, entries |-> entries]
Clear(c)        == Put(c, <<>>)
Change(c, k, n) == [op |-> "change", cell |-> c, key |-> k, content |-> n]

\* The entry with key k shows the content of message n.
Changed(entries, k, n) ==
    LET p == SelectInSeq(entries, LAMBDA e : e.key = k)
    IN  IF p = 0 THEN entries ELSE [entries EXCEPT ![p].content = n]

\* Message n takes the place of the entries with display id d.
Replaced(entries, d, n) ==
    [p \in DOMAIN entries |-> IF entries[p].display = d THEN Entry(n, d) ELSE entries[p]]

Effect(state, change) ==
    [state EXCEPT ![change.cell] =
        CASE change.op = "add"    -> @ \o change.entries
          [] change.op = "put"    -> change.entries
          [] change.op = "change" -> Changed(@, change.key, change.content)]

EffectAll(state, changes) ==
    LET After[k \in 0..Len(changes)] ==
            IF k = 0 THEN state ELSE Effect(After[k - 1], changes[k])
    IN  After[Len(changes)]

Init ==
    /\ shown = Restored
    /\ inbox = <<>>
    /\ sent = <<>>
    /\ fresh = {}
    /\ waiting = {}
    /\ torn = {}
    /\ displayed = [d \in Displays |-> None]

\* An execution of the cell is sent to the kernel.
Begin(c) ==
    /\ fresh' = fresh \cup {c}
    /\ waiting' = waiting \ {c}
    /\ UNCHANGED <<shown, inbox, sent, displayed>>

Opening(c) == IF c \in fresh THEN <<Clear(c)>> ELSE <<>>

Number == Len(sent) + 1

\* A message of cell c makes these changes; the first one of an execution empties the cell.
Sent(c, kind, d, changes) ==
    LET group == Opening(c) \o changes IN
    /\ sent' = Append(sent, [cell |-> c, kind |-> kind, display |-> d])
    /\ inbox' = IF group = <<>> THEN inbox ELSE Append(inbox, group)
    /\ UNCHANGED shown

TextLost(c, kind) ==
    /\ sent' = Append(sent, [cell |-> c, kind |-> kind, display |-> None])
    /\ inbox' = Append(inbox, Opening(c))
    /\ UNCHANGED shown

\* An output, after the clear that was waiting for it.
Outputs(c, d) ==
    IF c \notin waiting THEN {<<Add(c, Number, d)>>}
    ELSE {<<Clear(c), Add(c, Number, d)>>, <<Clear(c), Put(c, <<Entry(Number, d)>>)>>}

Text(c, kind) ==
    /\ \/ \E changes \in Outputs(c, None) : Sent(c, kind, None, changes)
       \/ c \in torn /\ TextLost(c, kind)
    /\ fresh' = fresh \ {c}
    /\ waiting' = waiting \ {c}
    /\ UNCHANGED displayed

Display(c, d) ==
    /\ \E changes \in Outputs(c, d) : Sent(c, "display", d, changes)
    /\ fresh' = fresh \ {c}
    /\ waiting' = waiting \ {c}
    /\ displayed' = [displayed EXCEPT ![d] = [cell |-> c, key |-> Number]]

ClearOutput(c) ==
    /\ Sent(c, "clear", None, <<Clear(c)>>)
    /\ fresh' = fresh \ {c}
    /\ UNCHANGED <<waiting, displayed>>

ClearWithNext(c) ==
    /\ Sent(c, "wait", None, <<>>)
    /\ fresh' = fresh \ {c}
    /\ waiting' = waiting \cup {c}
    /\ UNCHANGED displayed

\* A message without outputs.
Status(c) ==
    /\ Sent(c, "busy", None, <<>>)
    /\ fresh' = fresh \ {c}
    /\ UNCHANGED <<waiting, displayed>>

\* An update of a display, which may be in another cell.  It is ignored when nobody has
\* displayed it or it was forgotten.  When it comes from a cell that does not execute, the
\* cell that was just sent to the kernel may keep its outputs.
Update(c, d) ==
    /\ LET e == displayed[d] IN
       \/ /\ e = None
          /\ Sent(c, "update", d, <<>>)
       \/ /\ e # None
          /\ Sent(c, "update", d, <<Change(e.cell, e.key, Number)>>)
    /\ \E kept \in SUBSET fresh : fresh' = (fresh \ {c}) \ kept
    /\ UNCHANGED <<waiting, displayed>>

\* An update of the metadata as well puts back all outputs its cell shows: what was sent
\* and is not shown yet is lost, with the text that goes on in it.
UpdateMetadata(c, d) ==
    /\ LET e == displayed[d] IN
       \/ /\ e = None
          /\ Sent(c, "metadata", d, <<>>)
          /\ UNCHANGED displayed
       \/ /\ e # None
          /\ Sent(c, "metadata", d, <<Put(e.cell, Replaced(shown[e.cell], d, Number))>>)
          /\ displayed' = [displayed EXCEPT ![d].key = Number]
    /\ torn' \subseteq torn \cup (IF inbox = <<>> THEN {} ELSE Cells)
    /\ \E kept \in SUBSET fresh : fresh' = (fresh \ {c}) \ kept
    /\ UNCHANGED waiting

\* When a cell is seen empty the displays that ever were in it may be forgotten.
SeenEmpty(cells) ==
    LET past == {d \in Displays : \E p \in DOMAIN sent :
                    sent[p].display = d /\ sent[p].cell \in cells}
    IN  \E forgotten \in SUBSET past :
            displayed' = [d \in Displays |-> IF d \in forgotten THEN None ELSE displayed[d]]

\* The oldest groups are shown together.
Show ==
    \E k \in 1..Len(inbox) :
        LET changes == FlattenSeq(SubSeq(inbox, 1, k))
            outputs == EffectAll(shown, changes)
        IN  /\ shown' = outputs
            /\ inbox' = SubSeq(inbox, k + 1, Len(inbox))
            /\ SeenEmpty({c \in Cells : /\ outputs[c] = <<>>
                                        /\ \E p \in DOMAIN changes : changes[p].cell = c})
            /\ UNCHANGED <<sent, fresh, waiting>>

\* The user clears a cell.  Text of it that was on its way may be lost.
WithoutText(group, c) ==
    SelectSeq(group, LAMBDA change : ~(change.op = "add" /\ change.cell = c))

UserClears(c) ==
    /\ shown' = [shown EXCEPT ![c] = <<>>]
    /\ \E lost \in SUBSET DOMAIN inbox :
           inbox' = [p \in DOMAIN inbox |->
                        IF p \in lost THEN WithoutText(inbox[p], c) ELSE inbox[p]]
    /\ SeenEmpty({c})
    /\ UNCHANGED <<sent, fresh, waiting>>

\* A torn cell is mended by its next output, a clear or the end of its execution.
Mending == torn' \subseteq torn

End == UNCHANGED <<shown, inbox, sent, fresh, waiting, displayed>>

Next ==
    \/ /\ Mending
       /\ \/ \E c \in Cells :
                \/ Begin(c) \/ ClearOutput(c) \/ ClearWithNext(c) \/ Status(c) \/ UserClears(c)
                \/ \E kind \in {"out", "err", "result"} : Text(c, kind)
                \/ \E d \in Displays : Display(c, d) \/ Update(c, d)
          \/ Show
          \/ End
    \/ \E c \in Cells, d \in Displays : UpdateMetadata(c, d)

Spec == Init /\ [][Next]_vars
=============================================================================

--------------------------- MODULE SerialExecution ---------------------------
(***************************************************************************)
(* What a notebook's execution queue promises to those who submit work to  *)
(* it: items run one at a time, in the order of submission; an item that   *)
(* has not been started may be withdrawn (cancelled), and then it never    *)
(* runs.                                                                   *)
(***************************************************************************)
EXTENDS Naturals, Sequences, SequencesExt

CONSTANT Items

VARIABLES
    submitted,  \* the items in the order of their submission
    pending,    \* the submitted items that may still be started
    running     \* the item being executed (a set of at most one)

vars == <<submitted, pending, running>>

Init ==
    /\ submitted = <<>>
    /\ pending = {}
    /\ running = {}

SubmittedBefore(i, j) ==
    \E m, n \in DOMAIN submitted : m < n /\ submitted[m] = i /\ submitted[n] = j

Submit(i) ==
    /\ i \notin ToSet(submitted)
    /\ submitted' = Append(submitted, i)
    /\ pending' = pending \cup {i}
    /\ UNCHANGED running

Start(i) ==
    /\ running = {}
    /\ i \in pending
    /\ \A j \in pending \ {i} : SubmittedBefore(i, j)
    /\ running' = {i}
    /\ pending' = pending \ {i}
    /\ UNCHANGED submitted

\* The running item ends, or items are withdrawn, or both at once (a forced cancel).
End ==
    /\ running' \subseteq running
    /\ pending' \subseteq pending
    /\ UNCHANGED submitted

Next == (\E i \in Items : Submit(i) \/ Start(i)) \/ End

Spec == Init /\ [][Next]_vars
=============================================================================

---------------------- MODULE CellExecutionQueue_proofs ----------------------
(***************************************************************************)
(* Theorems about CellExecutionQueue, for every set of cells and code, and *)
(* the proof that it implements SerialExecution.                           *)
(***************************************************************************)
EXTENDS CellQueueRefinement, SequenceLemmas

-----------------------------------------------------------------------------
(* The sequences of the queue *)

\* indexOf(item) is a position of the item when the queue has one.
LEMMA FirstPositionIs ==
    ASSUME NEW S, NEW q \in Seq(S), NEW i \in ToSet(q)
    PROVE  FirstPosition(q, i) \in 1..Len(q) /\ q[FirstPosition(q, i)] = i
<1> DEFINE T == {p \in DOMAIN q : q[p] = i}
<1>1. DOMAIN q = 1..Len(q) /\ Len(q) \in Nat
  BY LenProperties
<1>2. PICK p \in T : \A r \in T : p <= r
  <2>1. T \subseteq Nat /\ T # {}
    BY <1>1 DEF ToSet
  <2> QED
    BY <2>1, LeastNatural
<1>3. p \in DOMAIN q /\ q[p] = i /\ \A r \in 1..(p - 1) : q[r] # i
  BY <1>1, <1>2
<1> QED
  BY <1>1, <1>3 DEF FirstPosition

\* splice(indexOf(item), 1): what is left was in the queue.
LEMMA WithoutFirstRange ==
    ASSUME NEW S, NEW q \in Seq(S), NEW i
    PROVE  /\ WithoutFirst(q, i) \in Seq(S)
           /\ ToSet(WithoutFirst(q, i)) \subseteq ToSet(q)
<1>1. CASE i \notin ToSet(q)
  BY <1>1 DEF WithoutFirst
<1>2. CASE i \in ToSet(q)
  <2> DEFINE p0 == FirstPosition(q, i)
  <2>1. p0 \in 1..Len(q)
    BY <1>2, FirstPositionIs
  <2>2. RemoveAt(q, p0) \in Seq(S) /\ ToSet(RemoveAt(q, p0)) \subseteq ToSet(q)
    BY <2>1, RemoveAtRange
  <2> QED
    BY <1>2, <2>2 DEF WithoutFirst
<1> QED
  BY <1>1, <1>2

\* cancelQueuedCells adds nothing to the queue that was not in it.
LEMMA RequeueRange ==
    ASSUME queue \in Seq(Items), Requeue
    PROVE  queue' \in Seq(Items) /\ ToSet(queue') = ToSet(queue)
<1> DEFINE P == CodePositions(queue)
           n == Cardinality(P)
<1>1. DOMAIN queue = 1..Len(queue) /\ Len(queue) \in Nat
  BY LenProperties
<1>2. n \in Nat
  <2>1. IsFiniteSet(1..Len(queue))
    BY <1>1, FS_Interval
  <2>2. P \in SUBSET (1..Len(queue))
    BY <1>1 DEF CodePositions
  <2>3. IsFiniteSet(P)
    BY <2>1, <2>2, FS_Subset
  <2> QED
    BY <2>3, FS_CardinalityType
<1>3. PICK f \in Enumerations(P) : queue' = queue \o [k \in 1..n |-> queue[f[k]]]
  BY DEF Requeue
<1> DEFINE again == [k \in 1..n |-> queue[f[k]]]
<1>4. \A k \in 1..n : f[k] \in DOMAIN queue
  BY DEF Enumerations, CodePositions
<1>5. \A k \in 1..n : queue[f[k]] \in Items
  BY <1>1, <1>4, ElementOfSeq
<1>6. again \in Seq(Items) /\ Len(again) = n
  BY <1>2, <1>5
<1>7. ToSet(again) \subseteq ToSet(queue)
  BY <1>4 DEF ToSet
<1>8. queue' = queue \o again
  BY <1>3
<1> HIDE DEF again
<1>9. queue \o again \in Seq(Items) /\ ToSet(queue \o again) = ToSet(queue) \cup ToSet(again)
  BY <1>6, ConcatRange
<1> QED
  BY <1>7, <1>8, <1>9

-----------------------------------------------------------------------------
(* Type correctness *)

\* Settling a deferred keeps a result for every item.
LEMMA SettlingType ==
    ASSUME ItemTypeOK, NEW S, NEW outcome \in Results
    PROVE  Settling(S, outcome) \in [Items -> Results]
  BY DEF ItemTypeOK, Settling

\* Cancelling items of the queue keeps the types, and only items are waited for.
LEMMA CancelItemsType ==
    ASSUME ItemTypeOK, NEW S, S \subseteq Items, NEW forced, CancelItems(S, forced)
    PROVE  ItemTypeOK' /\ Awaited(S, forced) \subseteq Items
<1>1. Dequeued(S, forced) \subseteq Items /\ Awaited(S, forced) \subseteq Items
  BY DEF Dequeued, Awaited
<1>2. result' \in [Items -> Results]
  BY SettlingType DEF CancelItems, Results
<1> QED
  BY <1>1, <1>2 DEF CancelItems, ItemTypeOK

\* So does the loop when it awaits a cancel.
LEMMA AwaitCancelType ==
    ASSUME TypeOK, NEW S, S \subseteq Items, NEW state \in LoopStates, AwaitCancel(S, state)
    PROVE  ItemTypeOK' /\ CallTypeOK' /\ loop' \in LoopStates
<1>1. ItemTypeOK' /\ Awaited(S, FALSE) \subseteq Items
  BY CancelItemsType DEF AwaitCancel, TypeOK
<1>2. CallTypeOK'
  BY <1>1 DEF AwaitCancel, TypeOK, CallTypeOK
<1> QED
  BY <1>1, <1>2 DEF AwaitCancel

\* The end of the loop's body keeps the types; what is left was in the queue.
LEMMA ConcludeType ==
    ASSUME TypeOK, NEW i, NEW ok \in BOOLEAN, NEW closed \in BOOLEAN, Conclude(i, ok, closed)
    PROVE  /\ ItemTypeOK' /\ CallTypeOK' /\ QueueTypeOK'
           /\ loop' \in {"head", "cancel", "cancelCells"}
           /\ sawClosed' \in BOOLEAN
           /\ ToSet(queue') \subseteq ToSet(queue)
           /\ started' = started
<1> DEFINE rest == WithoutFirst(queue, i)
<1>1. queue' = rest /\ rest \in Seq(Items) /\ ToSet(rest) \subseteq ToSet(queue)
  BY WithoutFirstRange DEF Conclude, TypeOK, QueueTypeOK
<1>2. ToSet(rest) \subseteq Items
  BY <1>1, ToSetType
<1>3. failed' \in BOOLEAN /\ sawClosed' \in BOOLEAN
  BY DEF Conclude, TypeOK, QueueTypeOK
<1>4. \/ AwaitCancel(ToSet(rest) \cap CellItems, "cancelCells")
      \/ AwaitCancel(ToSet(rest), "cancel")
      \/ NextItem
  BY DEF Conclude
<1>5. ItemTypeOK' /\ CallTypeOK' /\ loop' \in {"head", "cancel", "cancelCells"} /\ started' = started
  <2>1. CASE AwaitCancel(ToSet(rest) \cap CellItems, "cancelCells")
    <3>1. ItemTypeOK' /\ CallTypeOK'
      BY <2>1, <1>2, AwaitCancelType DEF LoopStates
    <3> QED
      BY <2>1, <3>1 DEF AwaitCancel, CancelItems
  <2>2. CASE AwaitCancel(ToSet(rest), "cancel")
    <3>1. ItemTypeOK' /\ CallTypeOK'
      BY <2>2, <1>2, AwaitCancelType DEF LoopStates
    <3> QED
      BY <2>2, <3>1 DEF AwaitCancel, CancelItems
  <2>3. CASE NextItem
    BY <2>3 DEF NextItem, TypeOK, ItemTypeOK, CallTypeOK, callVars, itemVars
  <2> QED
    BY <1>4, <2>1, <2>2, <2>3
<1> QED
  BY <1>1, <1>3, <1>5 DEF QueueTypeOK

\* Every step keeps the types.
LEMMA TypeStep ==
    ASSUME TypeOK, [Next]_vars
    PROVE  TypeOK'
<1> USE DEF EnvTypeOK, QueueTypeOK, LoopTypeOK, ItemTypeOK, CallTypeOK, HistTypeOK,
            TypeOK, vars, envVars, queueVars, loopVars, itemVars, callVars, histVars
<1> DEFINE inQueue == ToSet(queue) \subseteq Items
<1>0. inQueue
  BY ToSetType
<1>1. ASSUME NEW i \in Items, Enqueue(i) PROVE TypeOK'
  <2>1. queue' \in Seq(Items) /\ enqueued' \in Seq(Items)
    BY <1>1, AppendRange DEF Enqueue
  <2>2. loop' \in LoopStates
    BY <1>1 DEF Enqueue, LoopStates
  <2> QED
    BY <1>1, <2>1, <2>2 DEF Enqueue
<1>2. ASSUME NEW i \in Items, Reply(i) PROVE TypeOK'
  <2>1. result' \in [Items -> Results]
    BY <1>2, SettlingType DEF Reply, Results
  <2> QED
    BY <1>2, <2>1 DEF Reply
<1>3. ASSUME NEW i \in CellItems, Acknowledge(i) PROVE TypeOK'
  BY <1>3 DEF Acknowledge
<1>4. ASSUME NEW i \in CodeItems, TokenCancelled(i) PROVE TypeOK'
  <2>1. ItemTypeOK'
    BY <1>4, CancelItemsType DEF TokenCancelled, Items
  <2> QED
    BY <1>4, <2>1 DEF TokenCancelled
<1>5. ASSUME NEW i \in CodeItems, CodeInterrupted(i) PROVE TypeOK'
  <2>1. result' \in [Items -> Results]
    BY <1>5, SettlingType DEF CodeInterrupted, Results
  <2> QED
    BY <1>5, <2>1 DEF CodeInterrupted, Items
<1>6. ASSUME NEW c \in OutsideCallers, Cancel(c) PROVE TypeOK'
  <2>1. ItemTypeOK' /\ Awaited(ToSet(queue), Forced(c)) \subseteq Items
    BY <1>0, <1>6, CancelItemsType DEF Cancel
  <2>2. CallTypeOK'
    BY <1>6, <2>1 DEF Cancel
  <2> QED
    BY <1>6, <2>1, <2>2 DEF Cancel
<1>7. ASSUME NEW c \in OutsideCallers, CancelReturns(c) PROVE TypeOK'
  BY <1>7, EmptySeq DEF CancelReturns
<1>8. ASSUME NEW cell \in NotebookCells, DeleteCell(cell) PROVE TypeOK'
  <2> DEFINE ended == {i \in (started \cap CellItems) \ completed : CellOf[i] = cell}
  <2>1. completed' = completed \cup ended /\ result' = Settling(ended, "resolved")
    BY <1>8 DEF DeleteCell
  <2>2. result' \in [Items -> Results]
    BY <2>1, SettlingType DEF Results
  <2>3. completed' \subseteq Items
    BY <2>1
  <2> QED
    BY <1>8, <2>2, <2>3 DEF DeleteCell
<1>9. ASSUME CloseNotebook PROVE TypeOK'
  <2> DEFINE ended   == (started \cap CellItems) \ completed
             pending == ToSet(queue) \ ended
  <2>1. result' = Settling(ended \cup Dequeued(pending, TRUE), "resolved")
    BY <1>9 DEF CloseNotebook
  <2>2. result' \in [Items -> Results]
    BY <2>1, SettlingType DEF Results
  <2>3. Dequeued(pending, TRUE) \subseteq Items /\ Awaited(pending, TRUE) \subseteq Items
    BY <1>0 DEF Dequeued, Awaited
  <2>4. /\ completed' = completed \cup ended \cup (Dequeued(pending, TRUE) \cap CellItems)
        /\ cancelHandled' = cancelHandled \cup Dequeued(pending, TRUE)
        /\ interrupting' = interrupting \cup (Awaited(pending, TRUE) \cap CodeItems)
        /\ started' = started /\ acked' = acked
    BY <1>9 DEF CloseNotebook
  <2>5. ItemTypeOK'
    BY <2>2, <2>3, <2>4
  <2>6. CallTypeOK' /\ failed' \in BOOLEAN /\ cancelled' \in BOOLEAN
    <3>1. CASE loop # "idle" /\ (~failed \/ queue # <<>>)
      <4>1. /\ calls' = calls \cup {"close"}
            /\ waiting' = [waiting EXCEPT !["close"] = Awaited(pending, TRUE)]
            /\ failed' = TRUE /\ cancelled' = TRUE
        BY <1>9, <3>1 DEF CloseNotebook
      <4> QED
        BY <2>3, <4>1 DEF OutsideCallers
    <3>2. CASE ~(loop # "idle" /\ (~failed \/ queue # <<>>))
      BY <1>9, <3>2 DEF CloseNotebook
    <3> QED
      BY <3>1, <3>2
  <2>7. /\ EnvTypeOK' /\ queue' \in Seq(Items) /\ LoopTypeOK' /\ enqueued' \in Seq(Items)
        /\ threw' \subseteq ResumedItems
    BY <1>9 DEF CloseNotebook
  <2> QED
    BY <2>5, <2>6, <2>7
<1>10. CASE SessionSettles
  BY <1>10 DEF SessionSettles
<1>11. CASE KernelDies
  BY <1>11 DEF KernelDies
<1>12. CASE SessionReady
  BY <1>12 DEF SessionReady, LoopStates
<1>13. CASE SessionLost
  <2>1. ItemTypeOK' /\ CallTypeOK' /\ loop' \in LoopStates
    BY <1>0, <1>13, AwaitCancelType DEF SessionLost, LoopStates
  <2> QED
    BY <1>13, <2>1 DEF SessionLost
<1>14. CASE LoopExit
  BY <1>14 DEF LoopExit, LoopStates
<1>15. CASE LoopSkip
  <2>1. Head(queue) \in Items
    BY <1>15, HeadInRange DEF LoopSkip
  <2>2. /\ ItemTypeOK' /\ CallTypeOK' /\ QueueTypeOK'
        /\ loop' \in {"head", "cancel", "cancelCells"} /\ sawClosed' \in BOOLEAN
    <3>1. (sawClosed \/ notebookIsClosed) \in BOOLEAN
      OBVIOUS
    <3>2. Conclude(Head(queue), TRUE, sawClosed \/ notebookIsClosed)
      BY <1>15 DEF LoopSkip
    <3> QED
      BY <3>1, <3>2, ConcludeType
  <2> QED
    BY <1>15, <2>1, <2>2 DEF LoopSkip, LoopStates
<1>16. CASE LoopStart
  <2>1. Head(queue) \in Items
    BY <1>16, HeadInRange DEF LoopStart
  <2>2. ItemTypeOK'
    <3>1. /\ Settling({Head(queue)}, "resolved") \in [Items -> Results]
          /\ Settling({Head(queue)}, "rejected") \in [Items -> Results]
      BY SettlingType DEF Results
    <3> QED
      BY <1>16, <2>1, <3>1, ConstantsAssumption DEF LoopStart, StartItem
  <2> QED
    BY <1>16, <2>1, <2>2 DEF LoopStart, LoopStates
<1>17. CASE ItemDone
  <2>1. /\ ItemTypeOK' /\ CallTypeOK' /\ QueueTypeOK'
        /\ loop' \in {"head", "cancel", "cancelCells"} /\ sawClosed' \in BOOLEAN
    <3>1. Succeeded \in BOOLEAN
      BY DEF Succeeded
    <3>2. Conclude(current, Succeeded, sawClosed)
      BY <1>17 DEF ItemDone
    <3> QED
      BY <3>1, <3>2, ConcludeType
  <2> QED
    BY <1>17, <2>1 DEF ItemDone, LoopStates
<1>18. CASE LoopCancelled
  BY <1>18, EmptySeq DEF LoopCancelled, LoopStates
<1>19. CASE CellsCancelled
  <2>1. queue' \in Seq(Items)
    BY <1>19, RequeueRange DEF CellsCancelled
  <2>2. ItemTypeOK' /\ CallTypeOK' /\ loop' \in LoopStates
    <3>1. CASE AwaitCancel(ToSet(queue), "cancel")
      BY <1>0, <3>1, AwaitCancelType DEF LoopStates
    <3>2. CASE ~kernelDead /\ ~AwaitCancel(ToSet(queue), "cancel")
      BY <1>19, <3>2 DEF CellsCancelled, LoopStates
    <3> QED
      BY <1>19, <3>1, <3>2 DEF CellsCancelled
  <2> QED
    BY <1>19, <2>1, <2>2 DEF CellsCancelled
<1>20. CASE Stopped
  <2>1. queue' \in Seq(Items)
    BY <1>20, RequeueRange DEF Stopped
  <2> QED
    BY <1>20, <2>1 DEF Stopped, LoopStates
<1>21. CASE ResumeThrows
  <2>1. Head(queue) \in Items
    BY <1>21, HeadInRange DEF ResumeThrows
  <2> QED
    BY <1>21, <2>1 DEF ResumeThrows, LoopStates
<1>22. CASE UNCHANGED vars
  BY <1>22
<1> QED
  BY <1>1, <1>2, <1>3, <1>4, <1>5, <1>6, <1>7, <1>8, <1>9, <1>10, <1>11, <1>12, <1>13,
     <1>14, <1>15, <1>16, <1>17, <1>18, <1>19, <1>20, <1>21, <1>22 DEF Next, Loop

\* Type correctness: every reachable state of the queue has the types of TypeOK.
THEOREM TypeCorrect == Spec => []TypeOK
<1>1. Init => TypeOK
  BY EmptySeq DEF Init, TypeOK, EnvTypeOK, QueueTypeOK, LoopTypeOK, ItemTypeOK, CallTypeOK,
     HistTypeOK, LoopStates, Results, Callers
<1>2. TypeOK /\ [Next]_vars => TypeOK'
  BY TypeStep
<1> QED
  BY <1>1, <1>2, PTL DEF Spec

-----------------------------------------------------------------------------
(* One item at a time *)

\* A deferred that is settled stays settled.
LEMMA SettlingMonotone ==
    ASSUME ItemTypeOK, NEW S, NEW outcome \in {"resolved", "rejected"},
           result' = Settling(S, outcome), NEW i \in Items, Settled(i)
    PROVE  Settled(i)'
  BY DEF ItemTypeOK, Settling, Settled

\* No step takes a result back.
LEMMA ResultStays ==
    ASSUME TypeOK, [Next]_vars, NEW i \in Items, Settled(i)
    PROVE  Settled(i)'
<1>1. \/ UNCHANGED result
      \/ \E S : \E outcome \in {"resolved", "rejected"} : result' = Settling(S, outcome)
  <2> USE DEF vars, envVars, queueVars, loopVars, itemVars, callVars, histVars
  <2>1. ASSUME NEW j \in Items, NEW ok, NEW closed, Conclude(j, ok, closed)
        PROVE  \/ UNCHANGED result
               \/ \E S : \E outcome \in {"resolved", "rejected"} : result' = Settling(S, outcome)
    BY <2>1 DEF Conclude, AwaitCancel, CancelItems, NextItem
  <2>2. TypeOK /\ LoopSkip => Head(queue) \in Items
    BY HeadInRange DEF LoopSkip, TypeOK, QueueTypeOK
  <2>3. CASE LoopSkip
    BY <2>1, <2>2, <2>3 DEF LoopSkip
  <2>4. CASE ItemDone
    BY <2>4 DEF ItemDone, Conclude, AwaitCancel, CancelItems, NextItem
  <2>5. CASE \E j \in Items : Enqueue(j) \/ Reply(j)
    BY <2>5 DEF Enqueue, Reply
  <2>6. CASE \E j \in CodeItems : TokenCancelled(j) \/ CodeInterrupted(j)
    BY <2>6 DEF TokenCancelled, CodeInterrupted, CancelItems
  <2>7. CASE \E c \in OutsideCallers : Cancel(c) \/ CancelReturns(c)
    BY <2>7 DEF Cancel, CancelReturns, CancelItems
  <2>8. CASE \/ \E j \in CellItems : Acknowledge(j)
             \/ \E cell \in NotebookCells : DeleteCell(cell)
             \/ CloseNotebook
             \/ SessionSettles
             \/ KernelDies
    BY <2>8 DEF Acknowledge, DeleteCell, CloseNotebook, SessionSettles, KernelDies
  <2>9. CASE SessionReady \/ LoopExit \/ LoopCancelled \/ Stopped \/ UNCHANGED vars
    BY <2>9 DEF SessionReady, LoopExit, LoopCancelled, Stopped
  <2>10. CASE SessionLost \/ CellsCancelled
    BY <2>10 DEF SessionLost, CellsCancelled, AwaitCancel, CancelItems
  <2>11. CASE LoopStart \/ ResumeThrows
    BY <2>11 DEF LoopStart, StartItem, ResumeThrows
  <2> QED
    BY <2>3, <2>4, <2>5, <2>6, <2>7, <2>8, <2>9, <2>10, <2>11 DEF Next, Loop
<1>2. CASE UNCHANGED result
  BY <1>2 DEF Settled
<1>3. CASE \E S : \E outcome \in {"resolved", "rejected"} : result' = Settling(S, outcome)
  BY <1>3, SettlingMonotone DEF TypeOK
<1> QED
  BY <1>1, <1>2, <1>3

\* Only LoopStart sends a request; it, ItemDone and the throw change what the loop runs.
LEMMA LoopFrame ==
    ASSUME TypeOK, [Next]_vars, ~LoopStart
    PROVE  /\ started' = started
           /\ ItemDone \/ loop \notin {"running", "threw"} \/ (loop' = loop /\ current' = current)
           /\ loop' = "threw" => loop = "threw" \/ ResumeThrows
<1> USE DEF vars, envVars, queueVars, loopVars, itemVars, callVars, histVars
<1>1. ASSUME NEW j, NEW ok, NEW closed, Conclude(j, ok, closed)
      PROVE  started' = started /\ loop' # "threw"
  BY <1>1 DEF Conclude, AwaitCancel, CancelItems, NextItem
<1>2. CASE LoopSkip \/ ItemDone
  BY <1>1, <1>2 DEF LoopSkip, ItemDone
<1>3. CASE \E j \in Items : Enqueue(j) \/ Reply(j)
  BY <1>3 DEF Enqueue, Reply
<1>4. CASE \E j \in CodeItems : TokenCancelled(j) \/ CodeInterrupted(j)
  BY <1>4 DEF TokenCancelled, CodeInterrupted, CancelItems
<1>5. CASE \E c \in OutsideCallers : Cancel(c) \/ CancelReturns(c)
  BY <1>5 DEF Cancel, CancelReturns, CancelItems
<1>6. CASE \/ \E j \in CellItems : Acknowledge(j)
           \/ \E cell \in NotebookCells : DeleteCell(cell)
           \/ CloseNotebook
           \/ SessionSettles
           \/ KernelDies
  BY <1>6 DEF Acknowledge, DeleteCell, CloseNotebook, SessionSettles, KernelDies
<1>7. CASE SessionReady \/ LoopExit \/ ResumeThrows \/ LoopCancelled \/ Stopped \/ UNCHANGED vars
  BY <1>7 DEF SessionReady, LoopExit, ResumeThrows, LoopCancelled, Stopped
<1>8. CASE SessionLost \/ CellsCancelled
  BY <1>8 DEF SessionLost, CellsCancelled, AwaitCancel, CancelItems
<1> QED
  BY <1>2, <1>3, <1>4, <1>5, <1>6, <1>7, <1>8 DEF Next, Loop

\* Every step keeps the queue serial.
LEMMA OneAtATimeStep ==
    ASSUME TypeOK, OneAtATime, [Next]_vars
    PROVE  OneAtATime'
<1>1. ASSUME NEW i \in Items, ~Settled(i)' PROVE ~Settled(i)
  BY <1>1, ResultStays
<1>2. CASE LoopStart
  <2>1. \A i \in started : Settled(i)
    BY <1>2 DEF LoopStart, OneAtATime
  <2>2. started' \subseteq started \cup {Head(queue)}
    BY <1>2 DEF LoopStart, StartItem, itemVars
  <2>3. loop' = "running" /\ current' = Head(queue)
    BY <1>2 DEF LoopStart
  <2> QED
    BY <1>1, <2>1, <2>2, <2>3 DEF OneAtATime, TypeOK, ItemTypeOK
<1>3. CASE ~LoopStart
  <2>1. started' = started
    BY <1>3, LoopFrame
  <2>2. CASE ItemDone
    BY <1>1, <2>1, <2>2 DEF ItemDone, OneAtATime, TypeOK, ItemTypeOK
  <2>3. CASE loop \notin {"running", "threw"}
    BY <1>1, <2>1, <2>3 DEF OneAtATime, TypeOK, ItemTypeOK
  <2>4. CASE loop' = loop /\ current' = current
    BY <1>1, <2>1, <2>4 DEF OneAtATime, TypeOK, ItemTypeOK
  <2> QED
    BY <1>3, <2>2, <2>3, <2>4, LoopFrame
<1> QED
  BY <1>2, <1>3

\* At most one item is executing, and it is the one the loop awaits, for any cells and
\* code and any interleaving of cancels, interrupts, deleted cells and dying kernels.
THEOREM OneItemAtATime == Spec => []OneAtATime
<1>1. Init => OneAtATime
  BY DEF Init, OneAtATime
<1>2. TypeOK /\ OneAtATime /\ [Next]_vars => OneAtATime'
  BY OneAtATimeStep
<1> QED
  BY <1>1, <1>2, TypeCorrect, PTL DEF Spec

-----------------------------------------------------------------------------
(* Nothing starts after a cancel *)

\* Why nothing starts after a cancel: the queue has failed, so that cells are passed over
\* and nothing is queued, and the code left in the queue was started or cancelled.
CancelInv ==
    /\ completed \cap CodeItems \subseteq started
    /\ interrupting \subseteq started
    /\ cancelled => /\ failed
                    /\ loop # "idle"
                    /\ \A i \in ToSet(queue) \cap CodeItems : i \in started \cup cancelHandled

\* What a cancel of some items does to the sets of CancelInv.
LEMMA CancelItemsSets ==
    ASSUME TypeOK, CancelInv, NEW S, S \subseteq Items, NEW forced \in BOOLEAN,
           CancelItems(S, forced)
    PROVE  /\ completed' \cap CodeItems \subseteq started
           /\ interrupting' \subseteq started
           /\ started' = started
           /\ cancelHandled \subseteq cancelHandled'
           /\ \A i \in S \cap CodeItems : i \in started \cup cancelHandled'
<1>1. /\ cancelHandled' = cancelHandled \cup Dequeued(S, forced)
      /\ completed' = completed \cup (Dequeued(S, forced) \cap CellItems)
      /\ interrupting' = interrupting \cup (Awaited(S, forced) \cap CodeItems)
      /\ started' = started
  BY DEF CancelItems
<1>2. completed' \cap CodeItems \subseteq started
  BY <1>1, ConstantsAssumption DEF CancelInv
<1>3. \A i \in S \cap CodeItems : i \in started \cup cancelHandled \/ i \in Dequeued(S, forced)
  BY DEF Dequeued, CancelInv
<1>4. Awaited(S, forced) \cap CodeItems \subseteq started
  BY DEF Awaited, Dequeued
<1> QED
  BY <1>1, <1>2, <1>3, <1>4 DEF CancelInv

\* The sets of CancelInv after the loop awaits a cancel.
LEMMA AwaitCancelSets ==
    ASSUME TypeOK, CancelInv, NEW S, S \subseteq Items, NEW state, AwaitCancel(S, state)
    PROVE  /\ completed' \cap CodeItems \subseteq started
           /\ interrupting' \subseteq started
           /\ started' = started
           /\ cancelHandled \subseteq cancelHandled'
  BY CancelItemsSets DEF AwaitCancel

\* The sets of CancelInv after the end of the loop's body.
LEMMA ConcludeSets ==
    ASSUME TypeOK, CancelInv, NEW i, NEW ok \in BOOLEAN, NEW closed \in BOOLEAN,
           Conclude(i, ok, closed)
    PROVE  /\ completed' \cap CodeItems \subseteq started
           /\ interrupting' \subseteq started
           /\ started' = started
           /\ cancelHandled \subseteq cancelHandled'
           /\ failed => failed'
<1> DEFINE rest == WithoutFirst(queue, i)
<1>1. ToSet(rest) \subseteq Items
  BY WithoutFirstRange, ToSetType DEF TypeOK, QueueTypeOK
<1>2. \/ AwaitCancel(ToSet(rest) \cap CellItems, "cancelCells")
      \/ AwaitCancel(ToSet(rest), "cancel")
      \/ NextItem
  BY DEF Conclude
<1>3. CASE AwaitCancel(ToSet(rest) \cap CellItems, "cancelCells")
  BY <1>1, <1>3, AwaitCancelSets DEF Conclude
<1>4. CASE AwaitCancel(ToSet(rest), "cancel")
  BY <1>1, <1>4, AwaitCancelSets DEF Conclude
<1>5. CASE NextItem
  BY <1>5 DEF NextItem, itemVars, Conclude, CancelInv
<1> QED
  BY <1>2, <1>3, <1>4, <1>5

\* When the queue was cancelled, a step of the loop sends no request that was not sent.
LEMMA CancelledStart ==
    ASSUME TypeOK, CancelInv, cancelled, LoopStart
    PROVE  started' = started
<1>1. Head(queue) \in Items /\ Head(queue) \in ToSet(queue)
  BY HeadInRange DEF LoopStart, TypeOK, QueueTypeOK
<1>2. Head(queue) \in CodeItems
  BY <1>1 DEF LoopStart, Skipped, CancelInv, Items
<1>3. Head(queue) \in started \cup cancelHandled
  BY <1>1, <1>2 DEF CancelInv
<1> QED
  BY <1>3 DEF LoopStart, StartItem, itemVars

\* Every step keeps CancelInv.
LEMMA CancelStep ==
    ASSUME TypeOK, CancelInv, [Next]_vars
    PROVE  CancelInv'
<1> USE DEF vars, envVars, queueVars, loopVars, itemVars, callVars, histVars
<1>0. ToSet(queue) \subseteq Items
  BY ToSetType DEF TypeOK, QueueTypeOK
<1>1. ASSUME NEW i \in Items, Enqueue(i) PROVE CancelInv'
  <2>1. ~cancelled
    BY <1>1 DEF Enqueue, Accepting, CancelInv
  <2> QED
    BY <1>1, <2>1 DEF Enqueue, CancelInv
<1>2. ASSUME NEW i \in Items, Reply(i) PROVE CancelInv'
  BY <1>2 DEF Reply, CancelInv
<1>3. ASSUME NEW i \in CellItems, Acknowledge(i) PROVE CancelInv'
  BY <1>3 DEF Acknowledge, CancelInv
<1>4. ASSUME NEW i \in CodeItems, TokenCancelled(i) PROVE CancelInv'
  <2>1. {i} \subseteq Items /\ CancelItems({i}, FALSE)
    BY <1>4 DEF TokenCancelled, Items
  <2>2. /\ completed' \cap CodeItems \subseteq started
        /\ interrupting' \subseteq started
        /\ started' = started
        /\ cancelHandled \subseteq cancelHandled'
    BY <2>1, CancelItemsSets
  <2> QED
    BY <1>4, <2>2 DEF TokenCancelled, CancelInv
<1>5. ASSUME NEW i \in CodeItems, CodeInterrupted(i) PROVE CancelInv'
  BY <1>5 DEF CodeInterrupted, CancelInv
<1>6. ASSUME NEW c \in OutsideCallers, Cancel(c) PROVE CancelInv'
  <2>1. Forced(c) \in BOOLEAN
    BY DEF Forced
  <2>2. CancelItems(ToSet(queue), Forced(c))
    BY <1>6 DEF Cancel
  <2>3. /\ completed' \cap CodeItems \subseteq started
        /\ interrupting' \subseteq started
        /\ started' = started
        /\ \A i \in ToSet(queue) \cap CodeItems : i \in started \cup cancelHandled'
    BY <1>0, <2>1, <2>2, CancelItemsSets
  <2> QED
    BY <1>6, <2>3 DEF Cancel, CancelInv
<1>7. ASSUME NEW c \in OutsideCallers, CancelReturns(c) PROVE CancelInv'
  <2>1. ToSet(queue') = {}
    BY <1>7 DEF CancelReturns, ToSet
  <2> QED
    BY <1>7, <2>1 DEF CancelReturns, CancelInv
<1>8. ASSUME NEW cell \in NotebookCells, DeleteCell(cell) PROVE CancelInv'
  <2>1. completed' \cap CodeItems \subseteq completed
    BY <1>8, ConstantsAssumption DEF DeleteCell
  <2> QED
    BY <1>8, <2>1 DEF DeleteCell, CancelInv
<1>9. CASE CloseNotebook
  <2> DEFINE ended   == (started \cap CellItems) \ completed
             pending == ToSet(queue) \ ended
  <2>1. /\ completed' = completed \cup ended \cup (Dequeued(pending, TRUE) \cap CellItems)
        /\ cancelHandled' = cancelHandled \cup Dequeued(pending, TRUE)
        /\ interrupting' = interrupting \cup (Awaited(pending, TRUE) \cap CodeItems)
        /\ started' = started /\ queue' = queue /\ loop' = loop
    BY <1>9 DEF CloseNotebook
  <2>2. completed' \cap CodeItems \subseteq started
    BY <2>1, ConstantsAssumption DEF CancelInv
  <2>3. interrupting' \subseteq started
    <3>1. Awaited(pending, TRUE) \cap CodeItems \subseteq started
      BY DEF Awaited, Dequeued
    <3> QED
      BY <2>1, <3>1 DEF CancelInv
  <2>4. \A i \in ToSet(queue) \cap CodeItems : i \in started \cup cancelHandled'
    <3>1. \A i \in ToSet(queue) \cap CodeItems : i \in pending
      BY ConstantsAssumption
    <3>2. \A i \in pending \cap CodeItems :
             i \in started \cup cancelHandled \/ i \in Dequeued(pending, TRUE)
      BY DEF Dequeued, CancelInv
    <3> QED
      BY <2>1, <3>1, <3>2
  <2>5. cancelled' => failed' /\ loop # "idle"
    BY <1>9 DEF CloseNotebook, CancelInv
  <2> QED
    BY <2>1, <2>2, <2>3, <2>4, <2>5 DEF CancelInv
<1>10. CASE SessionSettles \/ KernelDies
  BY <1>10 DEF SessionSettles, KernelDies, CancelInv
<1>11. CASE SessionReady \/ LoopExit
  BY <1>11 DEF SessionReady, LoopExit, CancelInv
<1>12. CASE SessionLost
  <2>1. ToSet(queue) \cap CellItems \subseteq Items /\ AwaitCancel(ToSet(queue) \cap CellItems, "stopped")
    BY <1>0, <1>12 DEF SessionLost
  <2>2. loop' # "idle"
    BY <2>1 DEF AwaitCancel
  <2>3. /\ completed' \cap CodeItems \subseteq started
        /\ interrupting' \subseteq started
        /\ started' = started
        /\ cancelHandled \subseteq cancelHandled'
    BY <2>1, AwaitCancelSets
  <2> QED
    BY <1>12, <2>2, <2>3 DEF SessionLost, CancelInv
<1>13. ASSUME NEW i, NEW ok \in BOOLEAN, NEW closed \in BOOLEAN, Conclude(i, ok, closed),
              cancelled' = cancelled
       PROVE  CancelInv'
  <2>1. ToSet(queue') \subseteq ToSet(queue) /\ loop' # "idle"
    BY <1>13, ConcludeType
  <2>2. /\ completed' \cap CodeItems \subseteq started
        /\ interrupting' \subseteq started
        /\ started' = started
        /\ cancelHandled \subseteq cancelHandled'
        /\ failed => failed'
    BY <1>13, ConcludeSets
  <2> QED
    BY <1>13, <2>1, <2>2 DEF CancelInv
<1>14. CASE LoopSkip
  <2>1. (sawClosed \/ notebookIsClosed) \in BOOLEAN
    OBVIOUS
  <2>2. Conclude(Head(queue), TRUE, sawClosed \/ notebookIsClosed) /\ cancelled' = cancelled
    BY <1>14 DEF LoopSkip
  <2> QED
    BY <1>13, <2>1, <2>2
<1>15. CASE ItemDone
  <2>1. Succeeded \in BOOLEAN
    BY DEF Succeeded
  <2>2. Conclude(current, Succeeded, sawClosed) /\ cancelled' = cancelled
    BY <1>15 DEF ItemDone
  <2>3. sawClosed \in BOOLEAN
    BY DEF TypeOK, LoopTypeOK
  <2> QED
    BY <1>13, <2>1, <2>2, <2>3
<1>16. CASE LoopStart
  <2>1. /\ cancelled => started' = started
        /\ started \subseteq started'
    BY <1>16, CancelledStart DEF LoopStart, StartItem
  <2>2. completed' \cap CodeItems \subseteq completed /\ interrupting' = interrupting
        /\ cancelHandled' = cancelHandled
    BY <1>16, ConstantsAssumption DEF LoopStart, StartItem
  <2>3. queue' = queue /\ failed' = failed /\ cancelled' = cancelled /\ loop' = "running"
    BY <1>16 DEF LoopStart
  <2> QED
    BY <2>1, <2>2, <2>3 DEF CancelInv
<1>17. CASE LoopCancelled
  <2>1. ToSet(queue') = {}
    BY <1>17 DEF LoopCancelled, ToSet
  <2> QED
    BY <1>17, <2>1 DEF LoopCancelled, CancelInv
<1>18. CASE CellsCancelled
  <2>1. ToSet(queue') = ToSet(queue)
    BY <1>18, RequeueRange DEF CellsCancelled, TypeOK, QueueTypeOK
  <2>2. CASE AwaitCancel(ToSet(queue), "cancel")
    <3>1. loop' # "idle"
      BY <2>2 DEF AwaitCancel
    <3>2. /\ completed' \cap CodeItems \subseteq started
          /\ interrupting' \subseteq started
          /\ started' = started
          /\ cancelHandled \subseteq cancelHandled'
      BY <1>0, <2>2, AwaitCancelSets
    <3> QED
      BY <1>18, <2>1, <3>1, <3>2 DEF CellsCancelled, CancelInv
  <2>3. CASE ~AwaitCancel(ToSet(queue), "cancel")
    BY <1>18, <2>1, <2>3 DEF CellsCancelled, CancelInv
  <2> QED
    BY <2>2, <2>3
<1>19. CASE Stopped
  <2>1. ToSet(queue') = ToSet(queue)
    BY <1>19, RequeueRange DEF Stopped, TypeOK, QueueTypeOK
  <2> QED
    BY <1>19, <2>1 DEF Stopped, CancelInv
<1>20. CASE ResumeThrows \/ UNCHANGED vars
  BY <1>20 DEF ResumeThrows, CancelInv
<1> QED
  BY <1>1, <1>2, <1>3, <1>4, <1>5, <1>6, <1>7, <1>8, <1>9, <1>10, <1>11, <1>12, <1>14, <1>15,
     <1>16, <1>17, <1>18, <1>19, <1>20 DEF Next, Loop

\* Once an interrupt, a restart or the closing of the notebook has reached the queue, no
\* item of it is sent to the kernel, for any cells and code and any interleaving.
THEOREM NothingStarts == Spec => NothingStartsAfterCancel
<1>1. Init => CancelInv
  BY DEF Init, CancelInv
<1>2. TypeOK /\ CancelInv /\ [Next]_vars => CancelInv'
  BY CancelStep
<1>3. TypeOK /\ CancelInv /\ [Next]_vars => [cancelled => started' = started]_vars
  <2> SUFFICES ASSUME TypeOK, CancelInv, [Next]_vars, cancelled
               PROVE  started' = started
    OBVIOUS
  <2> QED
    BY CancelledStart, LoopFrame
<1> QED
  BY <1>1, <1>2, <1>3, TypeCorrect, PTL DEF Spec, NothingStartsAfterCancel

-----------------------------------------------------------------------------
(* The loop ends with an empty queue *)

\* DoneMeansDrained with the reason of its exception: only a failed session ends in "stopped".
DrainInv == DoneMeansDrained /\ (loop = "stopped" => session = "failed")

\* Every step keeps DrainInv.
LEMMA DrainStep ==
    ASSUME TypeOK, DrainInv, [Next]_vars
    PROVE  DrainInv'
<1> USE DEF vars, envVars, queueVars, loopVars, itemVars, callVars, histVars,
            DrainInv, DoneMeansDrained
<1>1. CASE \E i \in Items : Enqueue(i) \/ Reply(i)
  BY <1>1 DEF Enqueue, Accepting, Reply
<1>2. CASE \E i \in CodeItems : TokenCancelled(i) \/ CodeInterrupted(i)
  BY <1>2 DEF TokenCancelled, CodeInterrupted, CancelItems
<1>3. CASE \E c \in OutsideCallers : Cancel(c) \/ CancelReturns(c)
  BY <1>3 DEF Cancel, CancelReturns, CancelItems
<1>4. CASE \/ \E i \in CellItems : Acknowledge(i)
           \/ \E cell \in NotebookCells : DeleteCell(cell)
           \/ CloseNotebook
  BY <1>4 DEF Acknowledge, DeleteCell, CloseNotebook
<1>5. CASE SessionSettles \/ KernelDies
  BY <1>5 DEF SessionSettles, KernelDies
<1>6. CASE \/ SessionReady \/ SessionLost \/ LoopExit \/ LoopStart \/ ResumeThrows
           \/ LoopCancelled
  BY <1>6 DEF SessionReady, SessionLost, AwaitCancel, LoopExit, LoopStart, ResumeThrows,
              LoopCancelled
<1>7. CASE LoopSkip
  <2>1. (sawClosed \/ notebookIsClosed) \in BOOLEAN
    OBVIOUS
  <2>2. Conclude(Head(queue), TRUE, sawClosed \/ notebookIsClosed)
    BY <1>7 DEF LoopSkip
  <2>3. loop' \in {"head", "cancel", "cancelCells"}
    BY <2>1, <2>2, ConcludeType
  <2> QED
    BY <2>3
<1>8. CASE ItemDone
  <2>1. Succeeded \in BOOLEAN /\ sawClosed \in BOOLEAN
    BY DEF Succeeded, TypeOK, LoopTypeOK
  <2>2. Conclude(current, Succeeded, sawClosed)
    BY <1>8 DEF ItemDone
  <2>3. loop' \in {"head", "cancel", "cancelCells"}
    BY <2>1, <2>2, ConcludeType
  <2> QED
    BY <2>3
<1>9. CASE CellsCancelled
  <2>1. loop' \in {"cancel", "head"}
    BY <1>9 DEF CellsCancelled, AwaitCancel
  <2> QED
    BY <2>1
<1>10. CASE Stopped
  BY <1>10 DEF Stopped
<1>11. CASE UNCHANGED vars
  BY <1>11
<1> QED
  BY <1>1, <1>2, <1>3, <1>4, <1>5, <1>6, <1>7, <1>8, <1>9, <1>10, <1>11 DEF Next, Loop

\* Nothing is left behind in a queue whose loop has ended, unless the session failed.
THEOREM Drained == Spec => []DoneMeansDrained
<1>1. Init => DrainInv
  BY DEF Init, DrainInv, DoneMeansDrained
<1>2. TypeOK /\ DrainInv /\ [Next]_vars => DrainInv'
  BY DrainStep
<1>3. DrainInv => DoneMeansDrained
  BY DEF DrainInv
<1> QED
  BY <1>1, <1>2, <1>3, TypeCorrect, PTL DEF Spec

-----------------------------------------------------------------------------
(* What a step does to the queue *)

\* splice(indexOf(item), 1) leaves the queue or takes the first position of the item out.
LEMMA WithoutFirstPositions ==
    ASSUME NEW S, NEW q \in Seq(S), NEW i
    PROVE  \/ i \notin ToSet(q) /\ WithoutFirst(q, i) = q
           \/ \E p \in 1..Len(q) :
                 /\ q[p] = i
                 /\ Len(WithoutFirst(q, i)) = Len(q) - 1
                 /\ \A k \in 1..(Len(q) - 1) :
                       WithoutFirst(q, i)[k] = IF k < p THEN q[k] ELSE q[k+1]
<1>1. CASE i \notin ToSet(q)
  BY <1>1 DEF WithoutFirst
<1>2. CASE i \in ToSet(q)
  <2> DEFINE p0 == FirstPosition(q, i)
  <2>1. p0 \in 1..Len(q) /\ q[p0] = i
    BY <1>2, FirstPositionIs
  <2>2. WithoutFirst(q, i) = RemoveAt(q, p0)
    BY <1>2 DEF WithoutFirst
  <2> HIDE DEF p0
  <2> QED
    BY <2>1, <2>2, RemoveAtElements
<1> QED
  BY <1>1, <1>2

\* cancelQueuedCells keeps the queue and puts code of it behind it.
LEMMA RequeuePositions ==
    ASSUME queue \in Seq(Items), Requeue
    PROVE  /\ Len(queue') >= Len(queue)
           /\ \A k \in 1..Len(queue) : queue'[k] = queue[k]
           /\ \A k \in (Len(queue) + 1)..Len(queue') :
                 \E m \in 1..Len(queue) : queue'[k] = queue[m] /\ queue[m] \in CodeItems
<1> DEFINE P == CodePositions(queue)
           n == Cardinality(P)
<1>1. DOMAIN queue = 1..Len(queue) /\ Len(queue) \in Nat
  BY LenProperties
<1>2. n \in Nat
  <2>1. IsFiniteSet(1..Len(queue))
    BY <1>1, FS_Interval
  <2>2. P \in SUBSET (1..Len(queue))
    BY <1>1 DEF CodePositions
  <2>3. IsFiniteSet(P)
    BY <2>1, <2>2, FS_Subset
  <2> QED
    BY <2>3, FS_CardinalityType
<1>3. PICK f \in Enumerations(P) : queue' = queue \o [k \in 1..n |-> queue[f[k]]]
  BY DEF Requeue
<1> DEFINE again == [k \in 1..n |-> queue[f[k]]]
<1>4. \A k \in 1..n : f[k] \in 1..Len(queue) /\ queue[f[k]] \in CodeItems
  BY <1>1 DEF Enumerations, CodePositions
<1>5. \A k \in 1..n : again[k] = queue[f[k]]
  OBVIOUS
<1>6. again \in Seq(Items) /\ Len(again) = n
  <2>1. \A k \in 1..n : queue[f[k]] \in Items
    BY <1>4 DEF Items
  <2> QED
    BY <1>2, <2>1
<1>7. queue' = queue \o again
  BY <1>3
<1> HIDE DEF again, n
<1>8. /\ Len(queue') = Len(queue) + n
      /\ \A k \in 1..(Len(queue) + n) :
            queue'[k] = IF k <= Len(queue) THEN queue[k] ELSE again[k - Len(queue)]
  BY <1>6, <1>7, ConcatProperties
<1>9. ASSUME NEW k \in (Len(queue) + 1)..Len(queue')
      PROVE  \E m \in 1..Len(queue) : queue'[k] = queue[m] /\ queue[m] \in CodeItems
  <2>1. k - Len(queue) \in 1..n /\ ~(k <= Len(queue)) /\ k \in 1..(Len(queue) + n)
    BY <1>1, <1>2, <1>8
  <2>2. queue'[k] = queue[f[k - Len(queue)]]
    BY <2>1, <1>5, <1>8
  <2> QED
    BY <2>1, <2>2, <1>4
<1> QED
  BY <1>1, <1>2, <1>8, <1>9

\* The item the loop takes out of the queue: a cell passed over, or the awaited item.
Removed(x) ==
    \/ loop = "head" /\ queue # <<>> /\ x = Head(queue) /\ Skipped(x)
    \/ loop = "running" /\ x = current /\ Settled(x)
    \/ loop = "threw" /\ x = current

\* A step that neither queues nor starts an item leaves the queue, empties it, takes an
\* item that was passed over or executed out of it, or puts its code behind it once more.
LEMMA QueueStep ==
    ASSUME TypeOK, [Next]_vars, ~LoopStart, \A i \in Items : ~Enqueue(i)
    PROVE  /\ enqueued' = enqueued /\ started' = started
           /\ \/ queue' = queue
              \/ queue' = <<>> /\ (calls # {} \/ loop = "cancel")
              \/ Requeue /\ loop \in {"cancelCells", "stopped"}
              \/ \E x \in Items \cup {NoItem} : Removed(x) /\ queue' = WithoutFirst(queue, x)
<1> USE DEF vars, envVars, queueVars, loopVars, itemVars, callVars, histVars
<1>1. started' = started
  BY LoopFrame
<1>2. CASE LoopSkip
  <2>1. Head(queue) \in Items /\ Removed(Head(queue))
    BY <1>2, HeadInRange DEF LoopSkip, Removed, TypeOK, QueueTypeOK
  <2> QED
    BY <1>1, <1>2, <2>1 DEF LoopSkip, Conclude
<1>3. CASE ItemDone
  <2>1. current \in Items \cup {NoItem} /\ Removed(current)
    BY <1>3 DEF ItemDone, Removed, TypeOK, LoopTypeOK
  <2> QED
    BY <1>1, <1>3, <2>1 DEF ItemDone, Conclude
<1>4. CASE \E i \in Items : Reply(i)
  BY <1>1, <1>4 DEF Reply
<1>5. CASE \E i \in CodeItems : TokenCancelled(i) \/ CodeInterrupted(i)
  BY <1>1, <1>5 DEF TokenCancelled, CodeInterrupted
<1>6. CASE \E c \in OutsideCallers : Cancel(c) \/ CancelReturns(c)
  BY <1>1, <1>6 DEF Cancel, CancelReturns
<1>7. CASE \/ \E i \in CellItems : Acknowledge(i)
           \/ \E cell \in NotebookCells : DeleteCell(cell)
           \/ CloseNotebook
           \/ SessionSettles
           \/ KernelDies
  BY <1>1, <1>7 DEF Acknowledge, DeleteCell, CloseNotebook, SessionSettles, KernelDies
<1>8. CASE \/ SessionReady \/ SessionLost \/ LoopExit \/ ResumeThrows \/ LoopCancelled
           \/ UNCHANGED vars
  BY <1>1, <1>8 DEF SessionReady, SessionLost, LoopExit, ResumeThrows, LoopCancelled
<1>9. CASE CellsCancelled \/ Stopped
  BY <1>1, <1>9 DEF CellsCancelled, Stopped
<1> QED
  BY <1>2, <1>3, <1>4, <1>5, <1>6, <1>7, <1>8, <1>9 DEF Next, Loop

-----------------------------------------------------------------------------
(* Results, and what has failed *)

\* An item that is completed or whose cancel was handled has a result; whatever has a
\* result, a request or a place in the queue was queued; only code that was sent to the
\* kernel is interrupted; and no cell outlives its notebook's document.
SettledInv ==
    /\ \A i \in completed \cup cancelHandled : Settled(i)
    /\ \A i \in Items : Settled(i) \/ i \in started \/ i \in ToSet(queue) => i \in ToSet(enqueued)
    /\ interrupting \subseteq started
    /\ notebookIsClosed => \A i \in started \cap CellItems : Settled(i)

\* A queue fails at once with its cells: the ones still in it were ended or are executing.
FailedInv ==
    /\ loop = "idle" => queue = <<>> /\ enqueued = <<>> /\ ~failed
    /\ calls # {} \/ loop \in {"cancel", "cancelCells", "stopped"} => failed
    /\ failed => \A i \in ToSet(queue) \cap CellItems : Settled(i) \/ i \in started

\* What a cancel of some items does to results and sets.
LEMMA CancelItemsEnds ==
    ASSUME TypeOK, SettledInv, NEW S, S \subseteq Items, NEW forced \in BOOLEAN,
           CancelItems(S, forced)
    PROVE  /\ \A i \in completed' \cup cancelHandled' : Settled(i)'
           /\ \A i \in S : Settled(i)' \/ i \in started
           /\ \A i \in Items : Settled(i)' => Settled(i) \/ i \in S
           /\ interrupting' \subseteq started
           /\ started' = started
<1>1. /\ cancelHandled' = cancelHandled \cup Dequeued(S, forced)
      /\ completed' = completed \cup (Dequeued(S, forced) \cap CellItems)
      /\ interrupting' = interrupting \cup (Awaited(S, forced) \cap CodeItems)
      /\ result' = Settling(Dequeued(S, forced), "resolved")
      /\ started' = started
  BY DEF CancelItems
<1>2. /\ Dequeued(S, forced) \subseteq S
      /\ Awaited(S, forced) \subseteq started
      /\ \A i \in S : i \in Dequeued(S, forced) \/ i \in completed \cup cancelHandled \/ i \in started
  BY DEF Dequeued, Awaited
<1>3. \A i \in Dequeued(S, forced) : Settled(i)'
  BY <1>1, <1>2 DEF Settling, Settled
<1>4. completed \cup cancelHandled \subseteq Items
  BY DEF TypeOK, ItemTypeOK
<1>5. \A i \in Items : Settled(i) => Settled(i)'
  BY <1>1 DEF Settling, Settled
<1>6. \A i \in completed \cup cancelHandled : Settled(i)'
  BY <1>4, <1>5 DEF SettledInv
<1>7. \A i \in Items : Settled(i)' => Settled(i) \/ i \in S
  BY <1>1, <1>2 DEF Settling, Settled
<1> QED
  BY <1>1, <1>2, <1>3, <1>6, <1>7 DEF SettledInv

\* The same for a cancel the loop awaits.
LEMMA AwaitCancelEnds ==
    ASSUME TypeOK, SettledInv, NEW S, S \subseteq Items, NEW state, AwaitCancel(S, state)
    PROVE  /\ \A i \in completed' \cup cancelHandled' : Settled(i)'
           /\ \A i \in S : Settled(i)' \/ i \in started
           /\ \A i \in Items : Settled(i)' => Settled(i) \/ i \in S
           /\ interrupting' \subseteq started
           /\ started' = started
           /\ calls' = calls /\ loop' = state
  BY CancelItemsEnds DEF AwaitCancel

\* The same for the end of the loop's body, which fails the queue before it cancels.
LEMMA ConcludeEnds ==
    ASSUME TypeOK, SettledInv, FailedInv, NEW x, NEW ok \in BOOLEAN, NEW closed \in BOOLEAN,
           Conclude(x, ok, closed)
    PROVE  /\ \A i \in completed' \cup cancelHandled' : Settled(i)'
           /\ \A i \in Items : Settled(i)' => Settled(i) \/ i \in ToSet(queue)
           /\ interrupting' \subseteq started
           /\ started' = started
           /\ calls' = calls
           /\ ToSet(queue') \subseteq ToSet(queue)
           /\ loop' # "idle"
           /\ failed \/ loop' \in {"cancel", "cancelCells", "stopped"} => failed'
           /\ failed' => \A i \in ToSet(queue') \cap CellItems : Settled(i)' \/ i \in started
<1> DEFINE rest  == WithoutFirst(queue, x)
           cells == ToSet(rest) \cap CellItems
           codes == ToSet(rest) \cap CodeItems
           bail  == Bail(x, ok, closed)
           mixed == bail /\ cells # {} /\ codes # {}
           all   == ~mixed /\ (kernelDead \/ (bail /\ (closed \/ cells # {})))
<1>1. queue' = rest /\ ToSet(rest) \subseteq ToSet(queue)
  BY WithoutFirstRange DEF Conclude, TypeOK, QueueTypeOK
<1>2. ToSet(queue) \subseteq Items
  BY ToSetType DEF TypeOK, QueueTypeOK
<1>3. failed' = (failed \/ bail \/ all)
  BY DEF Conclude
<1>4. failed => bail
  BY DEF Bail
<1>5. CASE mixed /\ AwaitCancel(cells, "cancelCells")
  <2>1. cells \subseteq Items /\ cells \subseteq ToSet(queue)
    BY <1>1, <1>2
  <2> HIDE DEF cells, rest
  <2>2. /\ \A i \in completed' \cup cancelHandled' : Settled(i)'
        /\ \A i \in cells : Settled(i)' \/ i \in started
        /\ \A i \in Items : Settled(i)' => Settled(i) \/ i \in cells
        /\ interrupting' \subseteq started /\ started' = started
        /\ calls' = calls /\ loop' = "cancelCells"
    BY <1>5, <2>1, AwaitCancelEnds
  <2>3. failed'
    BY <1>3, <1>5
  <2> QED
    BY <1>1, <2>1, <2>2, <2>3 DEF cells
<1>6. CASE all /\ AwaitCancel(ToSet(rest), "cancel")
  <2>1. ToSet(rest) \subseteq Items
    BY <1>1, <1>2
  <2> HIDE DEF rest
  <2>2. /\ \A i \in completed' \cup cancelHandled' : Settled(i)'
        /\ \A i \in ToSet(rest) : Settled(i)' \/ i \in started
        /\ \A i \in Items : Settled(i)' => Settled(i) \/ i \in ToSet(rest)
        /\ interrupting' \subseteq started /\ started' = started
        /\ calls' = calls /\ loop' = "cancel"
    BY <1>6, <2>1, AwaitCancelEnds
  <2>3. failed'
    BY <1>3, <1>6
  <2> QED
    BY <1>1, <2>1, <2>2, <2>3
<1>7. CASE ~mixed /\ ~all /\ NextItem
  <2>1. failed' => cells = {}
    BY <1>3, <1>4, <1>7
  <2>2. UNCHANGED <<itemVars, callVars>> /\ loop' = "head"
    BY <1>7 DEF NextItem
  <2>3. /\ result' = result /\ completed' = completed /\ cancelHandled' = cancelHandled
        /\ interrupting' = interrupting /\ started' = started /\ calls' = calls
    BY <2>2 DEF itemVars, callVars
  <2> HIDE DEF rest, cells, mixed, all, bail
  <2>4. failed => failed'
    BY <1>3
  <2>5. failed' => ToSet(queue') \cap CellItems = {}
    BY <1>1, <2>1 DEF cells
  <2>6. \A i : Settled(i)' <=> Settled(i)
    BY <2>3 DEF Settled
  <2>7. loop' \notin {"idle", "cancel", "cancelCells", "stopped"}
    BY <2>2
  <2> QED
    BY <1>1, <2>3, <2>4, <2>5, <2>6, <2>7 DEF SettledInv
<1>8. (mixed /\ AwaitCancel(cells, "cancelCells")) \/ (all /\ AwaitCancel(ToSet(rest), "cancel"))
        \/ (~mixed /\ ~all /\ NextItem)
  BY DEF Conclude
<1> QED
  BY <1>5, <1>6, <1>7, <1>8

\* The end of the loop's body keeps both.
LEMMA ConcludeStep ==
    ASSUME TypeOK, SettledInv, FailedInv, NEW x, NEW ok \in BOOLEAN, NEW closed \in BOOLEAN,
           Conclude(x, ok, closed), UNCHANGED <<envVars, histVars>>, [Next]_vars, loop # "idle"
    PROVE  SettledInv' /\ FailedInv'
<1>1. /\ \A i \in completed' \cup cancelHandled' : Settled(i)'
      /\ \A i \in Items : Settled(i)' => Settled(i) \/ i \in ToSet(queue)
      /\ interrupting' \subseteq started
      /\ started' = started
      /\ calls' = calls
      /\ ToSet(queue') \subseteq ToSet(queue)
      /\ loop' # "idle"
      /\ failed \/ loop' \in {"cancel", "cancelCells", "stopped"} => failed'
      /\ failed' => \A i \in ToSet(queue') \cap CellItems : Settled(i)' \/ i \in started
  BY ConcludeEnds
<1>2. enqueued' = enqueued /\ notebookIsClosed' = notebookIsClosed
  BY DEF envVars, histVars
<1>3. \A i \in started \cap CellItems : Settled(i) => Settled(i)'
  BY ResultStays DEF TypeOK, ItemTypeOK
<1>4. SettledInv'
  BY <1>1, <1>2, <1>3 DEF SettledInv
<1>5. FailedInv'
  BY <1>1, <1>2 DEF FailedInv
<1> QED
  BY <1>4, <1>5

\* Every step keeps SettledInv and FailedInv.
LEMMA SettledStep ==
    ASSUME TypeOK, SettledInv, FailedInv, [Next]_vars
    PROVE  SettledInv' /\ FailedInv'
<1> USE DEF vars, envVars, queueVars, loopVars, itemVars, callVars, histVars
<1>0. ToSet(queue) \subseteq Items /\ \A i \in Items : Settled(i) => Settled(i)'
  BY ToSetType, ResultStays DEF TypeOK, QueueTypeOK
<1>1. ASSUME NEW i \in Items, Enqueue(i) PROVE SettledInv' /\ FailedInv'
  <2>1. /\ ToSet(queue') = ToSet(queue) \cup {i} /\ ToSet(enqueued') = ToSet(enqueued) \cup {i}
        /\ ~failed /\ loop' # "idle"
        /\ loop' \in {"cancel", "cancelCells", "stopped"} => loop' = loop
    BY <1>1, AppendRange DEF Enqueue, Accepting, FailedInv, TypeOK, QueueTypeOK, HistTypeOK
  <2>2. /\ completed' = completed /\ cancelHandled' = cancelHandled /\ result' = result
        /\ started' = started /\ interrupting' = interrupting /\ calls' = calls
        /\ failed' = failed /\ notebookIsClosed' = notebookIsClosed
    BY <1>1 DEF Enqueue
  <2>3. SettledInv'
    BY <2>1, <2>2 DEF SettledInv, Settled
  <2>4. FailedInv'
    BY <2>1, <2>2 DEF FailedInv
  <2> QED
    BY <2>3, <2>4
<1>2. ASSUME NEW i \in Items, Reply(i) PROVE SettledInv' /\ FailedInv'
  <2>1. PICK outcome \in {"resolved", "rejected"} : result' = Settling({i}, outcome)
    BY <1>2 DEF Reply
  <2>2. Settled(i)' /\ \A j \in Items : Settled(j)' => Settled(j) \/ j = i
    BY <2>1 DEF Settling, Settled
  <2>3. /\ completed' = completed \cup {i} /\ i \in started
        /\ completed \cup cancelHandled \cup started \subseteq Items
    BY <1>2 DEF Reply, TypeOK, ItemTypeOK
  <2>4. SettledInv'
    BY <1>0, <1>2, <2>2, <2>3 DEF Reply, SettledInv
  <2> QED
    BY <1>0, <1>2, <2>4 DEF Reply, FailedInv
<1>3. ASSUME NEW i \in CellItems, Acknowledge(i) PROVE SettledInv' /\ FailedInv'
  BY <1>3 DEF Acknowledge, SettledInv, FailedInv, Settled
<1>4. ASSUME NEW i \in CodeItems, TokenCancelled(i) PROVE SettledInv' /\ FailedInv'
  <2>1. {i} \subseteq Items /\ CancelItems({i}, FALSE) /\ i \in ToSet(enqueued)
    BY <1>4 DEF TokenCancelled, Items
  <2>2. /\ \A j \in completed' \cup cancelHandled' : Settled(j)'
        /\ \A j \in Items : Settled(j)' => Settled(j) \/ j \in {i}
        /\ interrupting' \subseteq started
        /\ started' = started
    BY <2>1, CancelItemsEnds
  <2>3. started \subseteq Items
    BY DEF TypeOK, ItemTypeOK
  <2>4. SettledInv'
    BY <1>0, <1>4, <2>1, <2>2, <2>3 DEF TokenCancelled, SettledInv
  <2> QED
    BY <1>0, <1>4, <2>2, <2>4 DEF TokenCancelled, FailedInv
<1>5. ASSUME NEW i \in CodeItems, CodeInterrupted(i) PROVE SettledInv' /\ FailedInv'
  <2>1. Settled(i)' /\ \A j \in Items : Settled(j)' => Settled(j) \/ j = i
    BY <1>5 DEF CodeInterrupted, Settling, Settled, Items
  <2>2. /\ completed' = completed \cup {i} /\ i \in started
        /\ completed \cup cancelHandled \cup started \subseteq Items
    BY <1>5 DEF CodeInterrupted, TypeOK, ItemTypeOK, SettledInv
  <2>3. SettledInv'
    BY <1>0, <1>5, <2>1, <2>2 DEF CodeInterrupted, SettledInv
  <2> QED
    BY <1>0, <1>5, <2>3 DEF CodeInterrupted, FailedInv
<1>6. ASSUME NEW c \in OutsideCallers, Cancel(c) PROVE SettledInv' /\ FailedInv'
  <2>1. Forced(c) \in BOOLEAN /\ CancelItems(ToSet(queue), Forced(c))
    BY <1>6 DEF Forced, Cancel
  <2>2. /\ \A j \in completed' \cup cancelHandled' : Settled(j)'
        /\ \A j \in ToSet(queue) : Settled(j)' \/ j \in started
        /\ \A j \in Items : Settled(j)' => Settled(j) \/ j \in ToSet(queue)
        /\ interrupting' \subseteq started
        /\ started' = started
    BY <1>0, <2>1, CancelItemsEnds
  <2>3. /\ queue' = queue /\ enqueued' = enqueued /\ notebookIsClosed' = notebookIsClosed
        /\ loop' = loop /\ loop # "idle" /\ failed'
    BY <1>6 DEF Cancel
  <2>4. started \subseteq Items
    BY DEF TypeOK, ItemTypeOK
  <2>5. SettledInv'
    BY <1>0, <2>2, <2>3, <2>4 DEF SettledInv
  <2> QED
    BY <2>2, <2>3, <2>5 DEF FailedInv
<1>7. ASSUME NEW c \in OutsideCallers, CancelReturns(c) PROVE SettledInv' /\ FailedInv'
  <2>1. ToSet(queue') = {} /\ queue' = <<>> /\ failed
    BY <1>7 DEF CancelReturns, ToSet, FailedInv
  <2> QED
    BY <1>7, <2>1 DEF CancelReturns, SettledInv, FailedInv, Settled
<1>8. ASSUME NEW cell \in NotebookCells, DeleteCell(cell) PROVE SettledInv' /\ FailedInv'
  <2> DEFINE ended == {i \in (started \cap CellItems) \ completed : CellOf[i] = cell}
  <2>1. completed' = completed \cup ended /\ result' = Settling(ended, "resolved")
    BY <1>8 DEF DeleteCell
  <2>2. ended \subseteq started
    OBVIOUS
  <2> HIDE DEF ended
  <2>3. completed \cup cancelHandled \cup started \subseteq Items
    BY DEF TypeOK, ItemTypeOK
  <2>4. \A i \in ended : Settled(i)'
    BY <2>1, <2>2, <2>3 DEF Settling, Settled
  <2>5. \A i \in Items : Settled(i)' => Settled(i) \/ i \in ended
    BY <2>1 DEF Settling, Settled
  <2>6. SettledInv'
    BY <1>0, <1>8, <2>1, <2>2, <2>3, <2>4, <2>5 DEF DeleteCell, SettledInv
  <2> QED
    BY <1>0, <1>8, <2>6 DEF DeleteCell, FailedInv
<1>9. CASE CloseNotebook
  <2> DEFINE ended   == (started \cap CellItems) \ completed
             pending == ToSet(queue) \ ended
             away    == Dequeued(pending, TRUE)
  <2>1. /\ completed' = completed \cup ended \cup (away \cap CellItems)
        /\ cancelHandled' = cancelHandled \cup away
        /\ interrupting' = interrupting \cup (Awaited(pending, TRUE) \cap CodeItems)
        /\ result' = Settling(ended \cup away, "resolved")
        /\ started' = started /\ queue' = queue /\ loop' = loop /\ enqueued' = enqueued
    BY <1>9 DEF CloseNotebook
  <2>2. /\ ended \subseteq started /\ away \subseteq ToSet(queue)
        /\ Awaited(pending, TRUE) \subseteq started
        /\ \A i \in ToSet(queue) : i \in away \/ i \in completed \cup cancelHandled \/ i \in started
        /\ \A i \in started \cap CellItems : i \in ended \/ i \in completed
    BY DEF Awaited, Dequeued
  <2> HIDE DEF ended, pending, away
  <2>3. completed \cup cancelHandled \cup started \subseteq Items
    BY DEF TypeOK, ItemTypeOK
  <2>4. \A i \in ended \cup away : Settled(i)'
    BY <1>0, <2>1, <2>2, <2>3 DEF Settling, Settled
  <2>5. \A i \in Items : Settled(i)' => Settled(i) \/ i \in ended \/ i \in away
    BY <2>1 DEF Settling, Settled
  <2>6. \A i \in completed' \cup cancelHandled' : Settled(i)'
    BY <1>0, <2>1, <2>3, <2>4 DEF SettledInv
  <2>7. \A i \in started \cap CellItems : Settled(i)'
    BY <2>1, <2>2, <2>6
  <2>8. \A i \in Items : Settled(i)' \/ i \in started' \/ i \in ToSet(queue') => i \in ToSet(enqueued')
    BY <2>1, <2>2, <2>5 DEF SettledInv
  <2>9. interrupting' \subseteq started'
    BY <2>1, <2>2 DEF SettledInv
  <2>10. SettledInv'
    BY <2>1, <2>6, <2>7, <2>8, <2>9 DEF SettledInv
  <2>11. \A i \in ToSet(queue) \cap CellItems : Settled(i)' \/ i \in started
    BY <1>0, <2>1, <2>2, <2>4, <2>6
  <2>12. /\ failed => failed'
         /\ failed' => failed \/ loop # "idle"
         /\ calls' # {} => calls # {} \/ failed'
    BY <1>9 DEF CloseNotebook
  <2>13. FailedInv'
    BY <2>1, <2>11, <2>12 DEF FailedInv
  <2> QED
    BY <2>10, <2>13
<1>10. CASE SessionSettles \/ KernelDies
  BY <1>10 DEF SessionSettles, KernelDies, SettledInv, FailedInv, Settled
<1>11. CASE SessionReady \/ LoopExit
  BY <1>11 DEF SessionReady, LoopExit, SettledInv, FailedInv, Settled
<1>12. CASE SessionLost
  <2> DEFINE S == ToSet(queue) \cap CellItems
  <2>1. AwaitCancel(S, "stopped") /\ S \subseteq Items /\ S \subseteq ToSet(queue)
    BY <1>0, <1>12 DEF SessionLost
  <2> HIDE DEF S
  <2>2. /\ \A i \in completed' \cup cancelHandled' : Settled(i)'
        /\ \A i \in S : Settled(i)' \/ i \in started
        /\ \A i \in Items : Settled(i)' => Settled(i) \/ i \in S
        /\ interrupting' \subseteq started
        /\ started' = started
        /\ calls' = calls /\ loop' = "stopped"
    BY <2>1, AwaitCancelEnds
  <2>3. started \subseteq Items
    BY DEF TypeOK, ItemTypeOK
  <2>4. /\ queue' = queue /\ enqueued' = enqueued /\ notebookIsClosed' = notebookIsClosed /\ failed'
    BY <1>12 DEF SessionLost
  <2>5. SettledInv'
    BY <1>0, <2>1, <2>2, <2>3, <2>4 DEF SettledInv
  <2> QED
    BY <2>2, <2>4, <2>5 DEF FailedInv, S
<1>13. CASE LoopSkip
  <2>1. /\ Conclude(Head(queue), TRUE, sawClosed \/ notebookIsClosed)
        /\ UNCHANGED <<envVars, histVars>> /\ loop # "idle"
    BY <1>13 DEF LoopSkip
  <2>2. (sawClosed \/ notebookIsClosed) \in BOOLEAN
    OBVIOUS
  <2> QED
    BY <2>1, <2>2, ConcludeStep
<1>14. CASE ItemDone
  <2>1. /\ Conclude(current, Succeeded, sawClosed)
        /\ UNCHANGED <<envVars, histVars>> /\ loop # "idle"
    BY <1>14 DEF ItemDone
  <2>2. Succeeded \in BOOLEAN /\ sawClosed \in BOOLEAN
    BY DEF Succeeded, TypeOK, LoopTypeOK
  <2> QED
    BY <2>1, <2>2, ConcludeStep
<1>15. CASE LoopStart
  <2>1. PICK h \in Items : h = Head(queue) /\ h \in ToSet(queue)
    BY <1>15, HeadInRange DEF LoopStart, TypeOK, QueueTypeOK
  <2>2. h \in CellItems => ~notebookIsClosed /\ ~failed
    BY <1>15, <2>1 DEF LoopStart, Skipped
  <2>3. /\ queue' = queue /\ failed' = failed /\ calls' = calls /\ enqueued' = enqueued
        /\ notebookIsClosed' = notebookIsClosed /\ loop' = "running" /\ StartItem(h)
    BY <1>15, <2>1 DEF LoopStart
  <2>4. /\ started \subseteq started' /\ started' \subseteq started \cup {h}
        /\ interrupting' = interrupting /\ cancelHandled' = cancelHandled
        /\ \/ completed' = completed
           \/ completed' = completed \cup ({h} \cap CellItems) /\ result' = Settling({h}, "rejected")
        /\ result' = result \/ result' = Settling({h}, "resolved") \/ result' = Settling({h}, "rejected")
    BY <2>3 DEF StartItem
  <2>5. completed \cup cancelHandled \cup started \subseteq Items
    BY DEF TypeOK, ItemTypeOK
  <2>6. \A i \in Items : Settled(i)' => Settled(i) \/ i = h
    BY <2>4 DEF Settling, Settled
  <2>7. result' = Settling({h}, "rejected") => Settled(h)'
    BY <2>1 DEF Settling, Settled
  <2>8. \A i \in completed' \cup cancelHandled' : Settled(i)'
    <3>1. \A i \in completed \cup cancelHandled : Settled(i)'
      BY <1>0, <2>5 DEF SettledInv
    <3> QED
      BY <2>4, <2>7, <3>1
  <2>9. notebookIsClosed => \A i \in started' \cap CellItems : Settled(i)'
    BY <1>0, <2>2, <2>4, <2>5 DEF SettledInv
  <2>10. SettledInv'
    BY <2>1, <2>3, <2>4, <2>6, <2>8, <2>9 DEF SettledInv
  <2>11. FailedInv'
    BY <1>0, <2>3, <2>4 DEF FailedInv
  <2> QED
    BY <2>10, <2>11
<1>16. CASE LoopCancelled
  <2>1. ToSet(queue') = {} /\ queue' = <<>> /\ failed
    BY <1>16 DEF LoopCancelled, ToSet, FailedInv
  <2> QED
    BY <1>16, <2>1 DEF LoopCancelled, SettledInv, FailedInv, Settled
<1>17. CASE CellsCancelled
  <2>1. /\ ToSet(queue') = ToSet(queue) /\ failed /\ failed' = failed
        /\ enqueued' = enqueued /\ notebookIsClosed' = notebookIsClosed
    BY <1>17, RequeueRange DEF CellsCancelled, TypeOK, QueueTypeOK, FailedInv
  <2>2. started \subseteq Items
    BY DEF TypeOK, ItemTypeOK
  <2>3. CASE AwaitCancel(ToSet(queue), "cancel")
    <3>1. /\ \A i \in completed' \cup cancelHandled' : Settled(i)'
          /\ \A i \in ToSet(queue) : Settled(i)' \/ i \in started
          /\ \A i \in Items : Settled(i)' => Settled(i) \/ i \in ToSet(queue)
          /\ interrupting' \subseteq started
          /\ started' = started
          /\ calls' = calls /\ loop' = "cancel"
      BY <1>0, <2>3, AwaitCancelEnds
    <3>2. SettledInv'
      BY <1>0, <2>1, <2>2, <3>1 DEF SettledInv
    <3> QED
      BY <2>1, <3>1, <3>2 DEF FailedInv
  <2>4. CASE ~AwaitCancel(ToSet(queue), "cancel")
    <3>1. loop' = "head" /\ UNCHANGED <<calls, itemVars>>
      BY <1>17, <2>4 DEF CellsCancelled
    <3> QED
      BY <2>1, <3>1 DEF SettledInv, FailedInv, Settled
  <2> QED
    BY <2>3, <2>4
<1>18. CASE Stopped
  <2>1. ToSet(queue') = ToSet(queue) /\ failed
    BY <1>18, RequeueRange DEF Stopped, TypeOK, QueueTypeOK, FailedInv
  <2> QED
    BY <1>18, <2>1 DEF Stopped, SettledInv, FailedInv, Settled
<1>19. CASE ResumeThrows \/ UNCHANGED vars
  BY <1>19 DEF ResumeThrows, SettledInv, FailedInv, Settled
<1> QED
  BY <1>1, <1>2, <1>3, <1>4, <1>5, <1>6, <1>7, <1>8, <1>9, <1>10, <1>11, <1>12, <1>13, <1>14,
     <1>15, <1>16, <1>17, <1>18, <1>19 DEF Next, Loop

\* So both hold of every behaviour.
LEMMA SettledAlways == Spec => [](SettledInv /\ FailedInv)
<1>1. Init => SettledInv /\ FailedInv
  BY DEF Init, SettledInv, FailedInv, Settled, ToSet
<1>2. TypeOK /\ SettledInv /\ FailedInv /\ [Next]_vars => SettledInv' /\ FailedInv'
  BY SettledStep
<1> QED
  BY <1>1, <1>2, TypeCorrect, PTL DEF Spec

-----------------------------------------------------------------------------
(* The order of the queue *)

\* Removing an item keeps the order of the others: the positions of the rest are an
\* increasing enumeration of positions of the queue that misses one position of the item
\* and no position of another item.
LEMMA WithoutFirstEmbeds ==
    ASSUME NEW S, NEW q \in Seq(S), NEW i
    PROVE  \E from \in [DOMAIN WithoutFirst(q, i) -> DOMAIN q] :
              /\ \A k \in DOMAIN WithoutFirst(q, i) : WithoutFirst(q, i)[k] = q[from[k]]
              /\ \A k, l \in DOMAIN WithoutFirst(q, i) : k < l => from[k] < from[l]
              /\ \A m \in DOMAIN q : q[m] # i => \E k \in DOMAIN WithoutFirst(q, i) : from[k] = m
              /\ i \in ToSet(q) =>
                    \E p \in DOMAIN q : q[p] = i /\ \A k \in DOMAIN WithoutFirst(q, i) : from[k] # p
<1> DEFINE rest == WithoutFirst(q, i)
<1>1. DOMAIN q = 1..Len(q) /\ Len(q) \in Nat
  BY LenProperties
<1>2. CASE i \notin ToSet(q) /\ rest = q
  <2> DEFINE from == [k \in DOMAIN q |-> k]
  <2>1. from \in [DOMAIN rest -> DOMAIN q]
    BY <1>2
  <2>2. \A k, l \in DOMAIN rest : k < l => from[k] < from[l]
    BY <1>1, <1>2
  <2> QED
    BY <1>2, <2>1, <2>2
<1>3. ASSUME NEW p \in 1..Len(q), q[p] = i, Len(rest) = Len(q) - 1,
             \A k \in 1..(Len(q) - 1) : rest[k] = IF k < p THEN q[k] ELSE q[k+1]
      PROVE  \E from \in [DOMAIN rest -> DOMAIN q] :
                /\ \A k \in DOMAIN rest : rest[k] = q[from[k]]
                /\ \A k, l \in DOMAIN rest : k < l => from[k] < from[l]
                /\ \A m \in DOMAIN q : q[m] # i => \E k \in DOMAIN rest : from[k] = m
                /\ \E r \in DOMAIN q : q[r] = i /\ \A k \in DOMAIN rest : from[k] # r
  <2> DEFINE from == [k \in DOMAIN rest |-> IF k < p THEN k ELSE k + 1]
  <2>1. DOMAIN rest = 1..(Len(q) - 1)
    BY <1>3, WithoutFirstRange, LenProperties
  <2> HIDE DEF rest
  <2>2. from \in [DOMAIN rest -> DOMAIN q]
    BY <1>1, <2>1
  <2>3. \A k \in DOMAIN rest : rest[k] = q[from[k]]
    BY <1>3, <2>1
  <2>4. \A k, l \in DOMAIN rest : k < l => from[k] < from[l]
    BY <1>1, <2>1
  <2>5. ASSUME NEW m \in DOMAIN q, q[m] # i PROVE \E k \in DOMAIN rest : from[k] = m
    <3>1. CASE m < p
      BY <1>1, <2>1, <3>1
    <3>2. CASE ~(m < p)
      <4>1. m - 1 \in DOMAIN rest /\ ~(m - 1 < p) /\ (m - 1) + 1 = m
        BY <1>1, <1>3, <2>1, <2>5, <3>2
      <4> QED
        BY <4>1
    <3> QED
      BY <3>1, <3>2
  <2>6. \A k \in DOMAIN rest : from[k] # p
    BY <1>1, <2>1
  <2> HIDE DEF from
  <2> QED
    BY <1>1, <1>3, <2>2, <2>3, <2>4, <2>5, <2>6
<1>4. \/ i \notin ToSet(q) /\ rest = q
      \/ \E p \in 1..Len(q) :
            /\ q[p] = i
            /\ Len(rest) = Len(q) - 1
            /\ \A k \in 1..(Len(q) - 1) : rest[k] = IF k < p THEN q[k] ELSE q[k+1]
  BY WithoutFirstPositions
<1>5. CASE \E p \in 1..Len(q) :
            /\ q[p] = i
            /\ Len(rest) = Len(q) - 1
            /\ \A k \in 1..(Len(q) - 1) : rest[k] = IF k < p THEN q[k] ELSE q[k+1]
  <2> HIDE DEF rest
  <2>1. \E from \in [DOMAIN rest -> DOMAIN q] :
                /\ \A k \in DOMAIN rest : rest[k] = q[from[k]]
                /\ \A k, l \in DOMAIN rest : k < l => from[k] < from[l]
                /\ \A m \in DOMAIN q : q[m] # i => \E k \in DOMAIN rest : from[k] = m
                /\ \E r \in DOMAIN q : q[r] = i /\ \A k \in DOMAIN rest : from[k] # r
    BY <1>3, <1>5
  <2> QED
    BY <2>1 DEF rest
<1> QED
  BY <1>2, <1>4, <1>5

\* A notebook cell stays at most once in the queue.
LEMMA CellQueuedOnceStep ==
    ASSUME TypeOK, CellQueuedOnce, [Next]_vars
    PROVE  CellQueuedOnce'
<1>0. queue \in Seq(Items) /\ DOMAIN queue = 1..Len(queue) /\ Len(queue) \in Nat
  BY LenProperties DEF TypeOK, QueueTypeOK
<1>1. ASSUME NEW i \in Items, Enqueue(i) PROVE CellQueuedOnce'
  <2>1. queue' = Append(queue, i) /\ (i \in CellItems => ~InQueue(CellOf[i]))
    BY <1>1 DEF Enqueue
  <2>2. /\ DOMAIN queue' = 1..(Len(queue) + 1) /\ queue'[Len(queue) + 1] = i
        /\ \A k \in 1..Len(queue) : queue'[k] = queue[k]
    BY <1>0, <2>1, AppendProperties
  <2>3. \A k \in 1..Len(queue) : queue[k] \in CellItems /\ i \in CellItems => CellOf[queue[k]] # CellOf[i]
    BY <1>0, <2>1 DEF InQueue, ToSet
  <2>4. ASSUME NEW m \in DOMAIN queue', NEW n \in DOMAIN queue',
               queue'[m] \in CellItems, queue'[n] \in CellItems, CellOf[queue'[m]] = CellOf[queue'[n]]
        PROVE  m = n
    <3>1. CASE m \in 1..Len(queue) /\ n \in 1..Len(queue)
      BY <1>0, <2>2, <2>4, <3>1 DEF CellQueuedOnce
    <3>2. CASE m = Len(queue) + 1 /\ n \in 1..Len(queue)
      BY <2>2, <2>3, <2>4, <3>2
    <3>3. CASE n = Len(queue) + 1 /\ m \in 1..Len(queue)
      BY <2>2, <2>3, <2>4, <3>3
    <3> QED
      BY <1>0, <2>2, <3>1, <3>2, <3>3
  <2> QED
    BY <2>4 DEF CellQueuedOnce
<1>2. CASE LoopStart \/ queue' = queue
  BY <1>2 DEF LoopStart, queueVars, CellQueuedOnce
<1>3. CASE queue' = <<>>
  BY <1>3 DEF CellQueuedOnce
<1>4. CASE Requeue
  <2>1. queue' \in Seq(Items)
    BY <1>0, <1>4, RequeueRange
  <2>2. DOMAIN queue' = 1..Len(queue') /\ Len(queue') \in Nat
    BY <2>1, LenProperties
  <2>3. \A k \in DOMAIN queue' : queue'[k] \in CellItems => k \in DOMAIN queue /\ queue'[k] = queue[k]
    BY <1>0, <1>4, <2>2, RequeuePositions, ConstantsAssumption
  <2> QED
    BY <2>3 DEF CellQueuedOnce
<1>5. ASSUME NEW x, queue' = WithoutFirst(queue, x) PROVE CellQueuedOnce'
  <2>1. PICK from \in [DOMAIN queue' -> DOMAIN queue] :
           /\ \A k \in DOMAIN queue' : queue'[k] = queue[from[k]]
           /\ \A k, l \in DOMAIN queue' : k < l => from[k] < from[l]
    BY <1>0, <1>5, WithoutFirstEmbeds
  <2>2. queue' \in Seq(Items)
    BY <1>0, <1>5, WithoutFirstRange
  <2>3. DOMAIN queue' = 1..Len(queue') /\ Len(queue') \in Nat
    BY <2>2, LenProperties
  <2>4. ASSUME NEW m \in DOMAIN queue', NEW n \in DOMAIN queue',
               queue'[m] \in CellItems, queue'[n] \in CellItems, CellOf[queue'[m]] = CellOf[queue'[n]]
        PROVE  m = n
    <3>1. from[m] = from[n]
      BY <2>1, <2>4 DEF CellQueuedOnce
    <3> QED
      BY <1>0, <2>1, <2>3, <3>1
  <2> QED
    BY <2>4 DEF CellQueuedOnce
<1> QED
  BY <1>1, <1>2, <1>3, <1>4, <1>5, QueueStep

\* A notebook cell is at most once in the queue, for any cells and any interleaving.
THEOREM QueuedOnce == Spec => []CellQueuedOnce
<1>1. Init => CellQueuedOnce
  BY DEF Init, CellQueuedOnce
<1>2. TypeOK /\ CellQueuedOnce /\ [Next]_vars => CellQueuedOnce'
  BY CellQueuedOnceStep
<1> QED
  BY <1>1, <1>2, TypeCorrect, PTL DEF Spec

\* Every unsettled item that was queued is in the queue, except a cell of a closed notebook
\* (which may be passed over), a resumed cell whose start threw and what a cancel emptied
\* the queue of.
Kept ==
    \A i \in ToSet(enqueued) \ threw :
        ~Settled(i) /\ (i \in CellItems => ~notebookIsClosed)
            => i \in ToSet(queue) \/ (queue = <<>> /\ failed)

\* The queue holds its unsettled items in the order they were queued in: one stands before
\* every position of an item that was queued later.
QueueInOrder ==
    \A i \in ToSet(queue) : \A n \in DOMAIN queue :
        ~Settled(i) /\ Before(i, queue[n]) => \E m \in DOMAIN queue : m < n /\ queue[m] = i

\* A cell that was sent to the kernel leaves the queue when the loop is done with it.
CellLeaves ==
    \A i \in started \cap CellItems : i \in ToSet(queue) => loop = "running" /\ current = i

\* A cell whose start threw was not sent to the kernel, and is in the queue only until the
\* loop, which knows it, is done with it.
ThrewLeaves ==
    /\ threw \subseteq ToSet(enqueued)
    /\ loop = "threw" => current \in threw
    /\ \A i \in threw : i \notin started /\ (i \in ToSet(queue) => loop = "threw" /\ current = i)

\* Why items start in order and none is lost on the way.
OrderInv ==
    /\ OneAtATime
    /\ SettledInv
    /\ FailedInv
    /\ CellQueuedOnce
    /\ Kept
    /\ QueueInOrder
    /\ CellLeaves
    /\ ThrewLeaves
    /\ InOrder

\* Queueing an item puts it behind the ones queued already.
LEMMA BeforeAppend ==
    ASSUME TypeOK, NEW k \in Items, enqueued' = Append(enqueued, k), NEW i, NEW j, Before(i, j)'
    PROVE  Before(i, j) \/ (j = k /\ i \in ToSet(enqueued))
<1>1. /\ DOMAIN enqueued = 1..Len(enqueued) /\ Len(enqueued) \in Nat
      /\ DOMAIN enqueued' = 1..(Len(enqueued) + 1) /\ enqueued'[Len(enqueued) + 1] = k
      /\ \A n \in 1..Len(enqueued) : enqueued'[n] = enqueued[n]
  BY LenProperties, AppendProperties DEF TypeOK, HistTypeOK
<1>2. PICK m \in DOMAIN enqueued', n \in DOMAIN enqueued' :
         m < n /\ enqueued'[m] = i /\ enqueued'[n] = j
  BY DEF Before
<1>3. m \in 1..Len(enqueued) /\ enqueued[m] = i
  BY <1>1, <1>2
<1>4. CASE n \in 1..Len(enqueued)
  BY <1>1, <1>2, <1>3, <1>4 DEF Before
<1>5. CASE n = Len(enqueued) + 1
  BY <1>1, <1>2, <1>3, <1>5 DEF ToSet
<1> QED
  BY <1>1, <1>4, <1>5

\* What stands before something was queued.
LEMMA BeforeQueued ==
    ASSUME TypeOK, NEW i, NEW j, Before(i, j)
    PROVE  i \in ToSet(enqueued) /\ j \in ToSet(enqueued) /\ i \in Items /\ j \in Items
<1>1. i \in ToSet(enqueued) /\ j \in ToSet(enqueued)
  BY DEF Before, ToSet
<1> QED
  BY <1>1, ToSetType DEF TypeOK, HistTypeOK

\* When nothing is queued, what is before what stays the same.
LEMMA BeforeFrame ==
    ASSUME enqueued' = enqueued, NEW i, NEW j
    PROVE  Before(i, j)' <=> Before(i, j)
  BY DEF Before

\* What the loop takes out of the queue has a result, is a cell of a closed notebook or a
\* resumed cell whose start threw.
LEMMA RemovedEnds ==
    ASSUME TypeOK, OrderInv, NEW x, Removed(x)
    PROVE  Settled(x) \/ x \in threw \/ (x \in CellItems /\ notebookIsClosed)
<1>1. CASE loop = "running"
  BY <1>1 DEF Removed
<1>2. CASE loop = "head" /\ queue # <<>> /\ x = Head(queue) /\ Skipped(x)
  <2>1. x \in ToSet(queue) /\ x \in CellItems
    BY <1>2, HeadInRange DEF TypeOK, QueueTypeOK, Skipped
  <2>2. x \notin started \/ Settled(x)
    BY <1>2 DEF OrderInv, OneAtATime
  <2> QED
    BY <1>2, <2>1, <2>2 DEF Skipped, OrderInv, FailedInv
<1>3. CASE loop = "threw" /\ x = current
  BY <1>3 DEF OrderInv, ThrewLeaves
<1> QED
  BY <1>1, <1>2, <1>3 DEF Removed

\* A cell the loop takes out of the queue is not in it any more.
LEMMA RemovedGone ==
    ASSUME TypeOK, CellQueuedOnce, NEW x \in CellItems
    PROVE  x \notin ToSet(WithoutFirst(queue, x))
<1> DEFINE rest == WithoutFirst(queue, x)
<1>1. CASE x \notin ToSet(queue)
  BY <1>1, WithoutFirstRange DEF TypeOK, QueueTypeOK
<1>2. CASE x \in ToSet(queue)
  <2>1. PICK from \in [DOMAIN rest -> DOMAIN queue] :
           /\ \A k \in DOMAIN rest : rest[k] = queue[from[k]]
           /\ \E p \in DOMAIN queue : queue[p] = x /\ \A k \in DOMAIN rest : from[k] # p
    BY <1>2, WithoutFirstEmbeds DEF TypeOK, QueueTypeOK
  <2>2. PICK p \in DOMAIN queue : queue[p] = x /\ \A k \in DOMAIN rest : from[k] # p
    BY <2>1
  <2>3. ASSUME NEW k \in DOMAIN rest, rest[k] = x PROVE FALSE
    <3>1. from[k] \in DOMAIN queue /\ queue[from[k]] = x
      BY <2>1, <2>3
    <3> QED
      BY <2>2, <3>1 DEF CellQueuedOnce
  <2> HIDE DEF rest
  <2> QED
    BY <2>3 DEF ToSet, rest
<1> QED
  BY <1>1, <1>2

\* The order of the queue survives every step but those that queue and start items.
LEMMA QueueInOrderFrame ==
    ASSUME TypeOK, OrderInv, [Next]_vars, ~LoopStart, \A i \in Items : ~Enqueue(i)
    PROVE  QueueInOrder'
<1>0. /\ queue \in Seq(Items) /\ DOMAIN queue = 1..Len(queue) /\ Len(queue) \in Nat
      /\ ToSet(queue) \subseteq Items
  BY LenProperties, ToSetType DEF TypeOK, QueueTypeOK
<1>1. enqueued' = enqueued
  BY QueueStep
<1>2. \A i, j : Before(i, j)' <=> Before(i, j)
  BY <1>1, BeforeFrame
<1>3. \A i \in Items : Settled(i) => Settled(i)'
  BY ResultStays
<1>4. CASE queue' = queue
  BY <1>0, <1>2, <1>3, <1>4 DEF OrderInv, QueueInOrder
<1>5. CASE queue' = <<>>
  BY <1>5 DEF QueueInOrder
<1>6. CASE Requeue
  <2>1. queue' \in Seq(Items) /\ ToSet(queue') = ToSet(queue)
    BY <1>0, <1>6, RequeueRange
  <2>2. DOMAIN queue' = 1..Len(queue') /\ Len(queue') \in Nat
    BY <2>1, LenProperties
  <2>3. /\ Len(queue') >= Len(queue)
        /\ \A k \in 1..Len(queue) : queue'[k] = queue[k]
        /\ \A k \in (Len(queue) + 1)..Len(queue') : \E m \in 1..Len(queue) : queue'[k] = queue[m]
    BY <1>0, <1>6, RequeuePositions
  <2>4. ASSUME NEW i \in ToSet(queue'), NEW n \in DOMAIN queue', ~Settled(i)', Before(i, queue'[n])
        PROVE  \E m \in DOMAIN queue' : m < n /\ queue'[m] = i
    <3>1. i \in ToSet(queue) /\ ~Settled(i)
      BY <1>0, <1>3, <2>1, <2>4
    <3>2. PICK r \in 1..Len(queue) : r <= n /\ queue'[n] = queue[r]
      <4>1. CASE n \in 1..Len(queue)
        BY <2>3, <4>1
      <4>2. CASE n \in (Len(queue) + 1)..Len(queue')
        BY <1>0, <2>3, <4>2
      <4> QED
        BY <1>0, <2>2, <4>1, <4>2
    <3>3. PICK m \in DOMAIN queue : m < r /\ queue[m] = i
      BY <1>0, <2>4, <3>1, <3>2 DEF OrderInv, QueueInOrder
    <3>4. m \in DOMAIN queue' /\ m < n /\ queue'[m] = i
      BY <1>0, <2>2, <2>3, <3>2, <3>3
    <3> QED
      BY <3>4
  <2> QED
    BY <1>2, <2>4 DEF QueueInOrder
<1>7. ASSUME NEW x, Removed(x), queue' = WithoutFirst(queue, x) PROVE QueueInOrder'
  <2>1. PICK from \in [DOMAIN queue' -> DOMAIN queue] :
           /\ \A k \in DOMAIN queue' : queue'[k] = queue[from[k]]
           /\ \A k, l \in DOMAIN queue' : k < l => from[k] < from[l]
           /\ \A m \in DOMAIN queue : queue[m] # x => \E k \in DOMAIN queue' : from[k] = m
    BY <1>0, <1>7, WithoutFirstEmbeds
  <2>2. queue' \in Seq(Items) /\ ToSet(queue') \subseteq ToSet(queue)
    BY <1>0, <1>7, WithoutFirstRange
  <2>3. DOMAIN queue' = 1..Len(queue') /\ Len(queue') \in Nat
    BY <2>2, LenProperties
  <2>4. ASSUME NEW i \in ToSet(queue'), NEW n \in DOMAIN queue', ~Settled(i)', Before(i, queue'[n])
        PROVE  \E m \in DOMAIN queue' : m < n /\ queue'[m] = i
    <3>1. i \in ToSet(queue) /\ i \in Items /\ ~Settled(i)
      BY <1>0, <1>3, <2>2, <2>4
    <3>2. i # x
      <4>1. threw \subseteq CellItems
        BY ConstantsAssumption DEF TypeOK, HistTypeOK
      <4> QED
        BY <1>7, <2>4, <3>1, <4>1, RemovedEnds, RemovedGone DEF OrderInv
    <3>3. PICK m \in DOMAIN queue : m < from[n] /\ queue[m] = i
      BY <2>1, <2>4, <3>1 DEF OrderInv, QueueInOrder
    <3>4. PICK k \in DOMAIN queue' : from[k] = m
      BY <2>1, <3>2, <3>3
    <3>5. from[k] \in Nat /\ from[n] \in Nat /\ from[k] < from[n]
      BY <1>0, <2>1, <3>3, <3>4
    <3>6. k < n
      <4>1. n < k => from[n] < from[k]
        BY <2>1
      <4> QED
        BY <2>3, <3>5, <4>1
    <3> QED
      BY <2>1, <3>3, <3>4, <3>6
  <2> QED
    BY <1>2, <2>4 DEF QueueInOrder
<1> QED
  BY <1>4, <1>5, <1>6, <1>7, QueueStep

\* A closed notebook stays closed, a failed queue stays failed and what threw is not forgotten.
LEMMA FlagsStay ==
    ASSUME TypeOK, [Next]_vars
    PROVE  /\ notebookIsClosed => notebookIsClosed'
           /\ failed => failed'
           /\ threw \subseteq threw' /\ (threw' = threw \/ ResumeThrows)
<1> USE DEF vars, envVars, queueVars, loopVars, itemVars, callVars, histVars
<1>1. CASE LoopSkip \/ ItemDone
  <2>1. ASSUME NEW x, NEW ok, NEW closed, Conclude(x, ok, closed) PROVE failed => failed'
    BY <2>1 DEF Conclude
  <2>2. failed => failed'
    BY <1>1, <2>1 DEF LoopSkip, ItemDone
  <2>3. notebookIsClosed' = notebookIsClosed /\ threw' = threw
    BY <1>1 DEF LoopSkip, ItemDone
  <2> QED
    BY <2>2, <2>3
<1>2. CASE UNCHANGED <<notebookIsClosed, failed, threw>>
  BY <1>2
<1>3. CASE (\E c \in OutsideCallers : Cancel(c)) \/ CloseNotebook
  <2>1. failed => failed'
    BY <1>3 DEF Cancel, CloseNotebook
  <2>2. notebookIsClosed => notebookIsClosed'
    BY <1>3 DEF Cancel, CloseNotebook
  <2>3. threw' = threw
    BY <1>3 DEF Cancel, CloseNotebook
  <2> QED
    BY <2>1, <2>2, <2>3
<1>4. CASE SessionLost
  BY <1>4 DEF SessionLost
<1>5. ASSUME NEW i \in Items, Enqueue(i) \/ Reply(i) PROVE UNCHANGED <<notebookIsClosed, failed, threw>>
  BY <1>5 DEF Enqueue, Reply
<1>6. ASSUME NEW i \in CodeItems, TokenCancelled(i) \/ CodeInterrupted(i)
      PROVE  UNCHANGED <<notebookIsClosed, failed, threw>>
  BY <1>6 DEF TokenCancelled, CodeInterrupted
<1>7. ASSUME NEW c \in OutsideCallers, CancelReturns(c) PROVE UNCHANGED <<notebookIsClosed, failed, threw>>
  BY <1>7 DEF CancelReturns
<1>8. CASE \/ \E i \in CellItems : Acknowledge(i)
           \/ \E cell \in NotebookCells : DeleteCell(cell)
           \/ SessionSettles \/ KernelDies \/ UNCHANGED vars
  <2>1. UNCHANGED <<notebookIsClosed, failed, threw>>
    BY <1>8 DEF Acknowledge, DeleteCell, SessionSettles, KernelDies
  <2> QED
    BY <2>1, <1>2
<1>9. CASE SessionReady \/ LoopExit \/ LoopStart \/ LoopCancelled \/ CellsCancelled \/ Stopped
  <2>1. UNCHANGED <<notebookIsClosed, failed, threw>>
    BY <1>9 DEF SessionReady, LoopExit, LoopStart, LoopCancelled, CellsCancelled, Stopped
  <2> QED
    BY <2>1, <1>2
<1>10. CASE ResumeThrows
  BY <1>10 DEF ResumeThrows
<1> QED
  BY <1>1, <1>2, <1>3, <1>4, <1>5, <1>6, <1>7, <1>8, <1>9, <1>10 DEF Next, Loop

\* So does the presence of what has no result.
LEMMA KeptFrame ==
    ASSUME TypeOK, OrderInv, [Next]_vars, ~LoopStart, \A i \in Items : ~Enqueue(i)
    PROVE  Kept'
<1>0. /\ queue \in Seq(Items) /\ DOMAIN queue = 1..Len(queue) /\ Len(queue) \in Nat
      /\ ToSet(enqueued) \subseteq Items
  BY LenProperties, ToSetType DEF TypeOK, QueueTypeOK, HistTypeOK
<1>1. /\ enqueued' = enqueued
      /\ \/ queue' = queue
         \/ queue' = <<>> /\ (calls # {} \/ loop = "cancel")
         \/ Requeue
         \/ \E x \in Items \cup {NoItem} : Removed(x) /\ queue' = WithoutFirst(queue, x)
  BY QueueStep
<1>2. \A i \in Items : Settled(i) => Settled(i)'
  BY ResultStays
<1>3. (notebookIsClosed => notebookIsClosed') /\ (failed => failed') /\ threw \subseteq threw'
  BY FlagsStay
<1>4. \A i \in ToSet(enqueued) \ threw :
         ~Settled(i)' /\ (i \in CellItems => ~notebookIsClosed')
            => /\ ~Settled(i) /\ (i \in CellItems => ~notebookIsClosed)
               /\ i \in ToSet(queue) \/ (queue = <<>> /\ failed)
  BY <1>0, <1>2, <1>3 DEF OrderInv, Kept
<1>5. CASE queue' = queue
  BY <1>1, <1>3, <1>4, <1>5 DEF Kept
<1>6. CASE queue' = <<>> /\ (calls # {} \/ loop = "cancel")
  BY <1>1, <1>3, <1>4, <1>6 DEF Kept, OrderInv, FailedInv
<1>7. CASE Requeue
  <2>1. ToSet(queue') = ToSet(queue) /\ (queue = <<>> => queue' = <<>>)
    <3>1. queue' \in Seq(Items) /\ ToSet(queue') = ToSet(queue)
      BY <1>0, <1>7, RequeueRange
    <3>2. queue' # <<>> => Head(queue') \in ToSet(queue')
      BY <3>1, HeadInRange
    <3>3. queue = <<>> => ToSet(queue) = {}
      BY DEF ToSet
    <3> QED
      BY <3>1, <3>2, <3>3
  <2> QED
    BY <1>1, <1>3, <1>4, <2>1 DEF Kept
<1>8. ASSUME NEW x, Removed(x), queue' = WithoutFirst(queue, x) PROVE Kept'
  <2>1. \A m \in DOMAIN queue : queue[m] # x => \E k \in DOMAIN queue' : queue'[k] = queue[m]
    BY <1>0, <1>8, WithoutFirstEmbeds
  <2>2. queue = <<>> => queue' = <<>>
    BY <1>8 DEF WithoutFirst, ToSet
  <2>3. ASSUME NEW i \in ToSet(enqueued) \ threw, ~Settled(i)',
               i \in CellItems => ~notebookIsClosed'
        PROVE  i \in ToSet(queue') \/ (queue' = <<>> /\ failed')
    <3>1. i # x
      BY <1>3, <1>4, <1>8, <2>3, RemovedEnds
    <3>2. CASE i \in ToSet(queue)
      BY <2>1, <3>1, <3>2 DEF ToSet
    <3>3. CASE queue = <<>> /\ failed
      BY <1>3, <2>2, <3>3
    <3> QED
      BY <1>4, <2>3, <3>2, <3>3
  <2> QED
    BY <1>1, <1>3, <2>3 DEF Kept
<1> QED
  BY <1>1, <1>5, <1>6, <1>7, <1>8

\* A step that queues nothing puts nothing into the queue that was not in it.
LEMMA QueueShrinks ==
    ASSUME TypeOK, [Next]_vars, ~LoopStart, \A i \in Items : ~Enqueue(i)
    PROVE  ToSet(queue') \subseteq ToSet(queue)
<1>1. queue \in Seq(Items)
  BY DEF TypeOK, QueueTypeOK
<1>2. CASE queue' = <<>>
  BY <1>2 DEF ToSet
<1>3. CASE Requeue
  BY <1>1, <1>3, RequeueRange
<1>4. CASE \E x : queue' = WithoutFirst(queue, x)
  BY <1>1, <1>4, WithoutFirstRange
<1> QED
  BY <1>2, <1>3, <1>4, QueueStep

\* So does the fact that a cell the kernel was sent is in the queue only while it executes.
LEMMA CellLeavesFrame ==
    ASSUME TypeOK, OrderInv, [Next]_vars, ~LoopStart, \A i \in Items : ~Enqueue(i)
    PROVE  CellLeaves'
<1>1. started' = started /\ ToSet(queue') \subseteq ToSet(queue)
  BY QueueStep, QueueShrinks
<1>2. CASE ItemDone
  <2>1. queue' = WithoutFirst(queue, current)
    BY <1>2 DEF ItemDone, Conclude
  <2>2. \A i \in started \cap CellItems : i \in ToSet(queue) => i = current
    BY DEF OrderInv, CellLeaves
  <2>3. current \in CellItems => current \notin ToSet(queue')
    BY <2>1, RemovedGone DEF OrderInv
  <2> QED
    BY <1>1, <2>2, <2>3 DEF CellLeaves
<1>3. CASE ~ItemDone
  BY <1>1, <1>3, LoopFrame DEF OrderInv, CellLeaves
<1> QED
  BY <1>2, <1>3

\* An item that has no result, and whose notebook is open if it is a cell, is followed in
\* the queue by whatever was queued later: nothing of that has been started.
LEMMA InOrderFrame ==
    ASSUME TypeOK, OrderInv, [Next]_vars, ~LoopStart, \A i \in Items : ~Enqueue(i)
    PROVE  InOrder'
<1>1. enqueued' = enqueued /\ started' = started
  BY QueueStep
<1>2. (notebookIsClosed => notebookIsClosed') /\ threw \subseteq threw'
  BY FlagsStay
<1>3. \A i \in Items : Settled(i) => Settled(i)'
  BY ResultStays
<1>4. \A i, j : Before(i, j)' <=> Before(i, j)
  BY <1>1, BeforeFrame
<1> QED
  BY <1>1, <1>2, <1>3, <1>4 DEF OrderInv, InOrder

\* Queueing an item puts it behind everything that has no result yet.
LEMMA OrderEnqueue ==
    ASSUME TypeOK, OrderInv, NEW k \in Items, Enqueue(k)
    PROVE  Kept' /\ QueueInOrder' /\ CellLeaves' /\ ThrewLeaves' /\ InOrder'
<1> USE DEF queueVars, itemVars, envVars, callVars
<1>0. /\ queue \in Seq(Items) /\ enqueued \in Seq(Items)
      /\ DOMAIN queue = 1..Len(queue) /\ Len(queue) \in Nat
  BY LenProperties DEF TypeOK, QueueTypeOK, HistTypeOK
<1>1. /\ queue' = Append(queue, k) /\ enqueued' = Append(enqueued, k) /\ k \notin ToSet(enqueued)
      /\ started' = started /\ notebookIsClosed' = notebookIsClosed /\ failed' = failed
      /\ current' = current /\ threw' = threw /\ (loop # "idle" => loop' = loop)
  BY DEF Enqueue
<1>2. \A i : Settled(i)' <=> Settled(i)
  BY DEF Enqueue, Settled
<1>3. ToSet(queue') = ToSet(queue) \cup {k} /\ ToSet(enqueued') = ToSet(enqueued) \cup {k}
  BY <1>0, <1>1, AppendRange
<1>4. /\ DOMAIN queue' = 1..(Len(queue) + 1) /\ queue'[Len(queue) + 1] = k
      /\ \A n \in 1..Len(queue) : queue'[n] = queue[n]
  BY <1>0, <1>1, AppendProperties
<1>5. k \notin started /\ k \notin ToSet(queue) /\ ~Settled(k)
  BY <1>1 DEF OrderInv, SettledInv
<1>6. \A i \in ToSet(enqueued) \ threw :
         ~Settled(i) /\ (i \in CellItems => ~notebookIsClosed) => i \in ToSet(queue)
  <2>1. CASE loop = "idle"
    BY <2>1 DEF OrderInv, FailedInv, ToSet
  <2>2. CASE queue # <<>> /\ ~failed
    BY <2>2 DEF OrderInv, Kept
  <2> QED
    BY <2>1, <2>2 DEF Enqueue, Accepting
<1>7. Kept'
  BY <1>1, <1>2, <1>3, <1>6 DEF Kept
<1>8. QueueInOrder'
  <2>1. ASSUME NEW i \in ToSet(queue'), NEW n \in DOMAIN queue', NEW j, j = queue'[n],
               ~Settled(i), Before(i, j)'
        PROVE  \E m \in DOMAIN queue' : m < n /\ queue'[m] = i
    <3>1. Before(i, j) \/ (j = k /\ i \in ToSet(enqueued))
      BY <1>1, <2>1, BeforeAppend
    <3>2. CASE n \in 1..Len(queue)
      <4>1. j = queue[n] /\ queue[n] # k
        BY <1>0, <1>4, <1>5, <2>1, <3>2 DEF ToSet
      <4>2. Before(i, queue[n])
        BY <3>1, <4>1
      <4>3. i \in ToSet(queue)
        BY <1>1, <1>3, <2>1, <4>2, BeforeQueued
      <4>4. PICK m \in DOMAIN queue : m < n /\ queue[m] = i
        BY <1>0, <2>1, <3>2, <4>2, <4>3 DEF OrderInv, QueueInOrder
      <4> QED
        BY <1>0, <1>4, <4>4
    <3>3. CASE n = Len(queue) + 1
      <4>1. i \in ToSet(enqueued) /\ i # k
        BY <1>1, <1>4, <2>1, <3>1, <3>3, BeforeQueued
      <4>2. PICK m \in DOMAIN queue : queue[m] = i
        BY <1>3, <2>1, <4>1 DEF ToSet
      <4>3. m \in DOMAIN queue' /\ m < n /\ queue'[m] = i
        BY <1>0, <1>4, <3>3, <4>2
      <4> QED
        BY <4>3
    <3> QED
      BY <1>0, <1>4, <3>2, <3>3
  <2>2. ASSUME NEW i \in ToSet(queue'), NEW n \in DOMAIN queue', ~Settled(i)', Before(i, queue[n])'
        PROVE  \E m \in DOMAIN queue' : m < n /\ queue'[m] = i
    <3>1. ~Settled(i) /\ \E j : j = queue'[n] /\ Before(i, j)'
      BY <1>2, <2>2 DEF Before
    <3> QED
      BY <2>1, <3>1
  <2> QED
    BY <2>2 DEF QueueInOrder
<1>9. CellLeaves'
  <2>1. \A i \in started : i \in ToSet(queue') => i \in ToSet(queue)
    BY <1>3, <1>5
  <2> QED
    BY <1>1, <2>1 DEF OrderInv, CellLeaves
<1>10. InOrder'
  <2>1. ASSUME NEW i \in Items, NEW j \in Items, Before(i, j)', j \in started
        PROVE  Settled(i) \/ i \in threw \/ (i \in CellItems /\ notebookIsClosed)
    <3>1. Before(i, j)
      BY <1>1, <1>5, <2>1, BeforeAppend
    <3> QED
      BY <2>1, <3>1 DEF OrderInv, InOrder
  <2> QED
    BY <1>1, <1>2, <2>1 DEF InOrder
<1>11. ThrewLeaves'
  <2>1. loop' = "threw" => loop = "threw"
    BY DEF Enqueue
  <2> QED
    BY <1>1, <1>3, <2>1 DEF OrderInv, ThrewLeaves
<1> QED
  BY <1>7, <1>8, <1>9, <1>10, <1>11

\* Nothing that was queued before the first item of the queue is still waiting.
LEMMA NothingBeforeHead ==
    ASSUME TypeOK, OrderInv, queue # <<>>, NEW i, ~Settled(i), Before(i, Head(queue)),
           i \in ToSet(queue) \/ (i \notin threw /\ (i \in CellItems => ~notebookIsClosed))
    PROVE  FALSE
<1>1. /\ DOMAIN queue = 1..Len(queue) /\ Len(queue) \in Nat /\ Len(queue) # 0 /\ Head(queue) = queue[1]
  BY LenProperties, EmptySeq, HeadTailProperties DEF TypeOK, QueueTypeOK
<1>2. i \in ToSet(enqueued)
  BY BeforeQueued
<1>3. i \in ToSet(queue)
  BY <1>2 DEF OrderInv, Kept
<1>4. \E m \in DOMAIN queue : m < 1 /\ queue[m] = i
  BY <1>1, <1>3 DEF OrderInv, QueueInOrder
<1> QED
  BY <1>1, <1>4

\* Starting the first item of the queue keeps the order.
LEMMA OrderStart ==
    ASSUME TypeOK, OrderInv, [Next]_vars, LoopStart
    PROVE  Kept' /\ QueueInOrder' /\ CellLeaves' /\ ThrewLeaves' /\ InOrder'
<1>1. PICK h \in Items : h = Head(queue) /\ h \in ToSet(queue)
  BY HeadInRange DEF LoopStart, TypeOK, QueueTypeOK
<1>2. /\ queue' = queue /\ enqueued' = enqueued /\ failed' = failed
      /\ notebookIsClosed' = notebookIsClosed /\ loop' = "running" /\ current' = h
      /\ started' \subseteq started \cup {h} /\ loop = "head" /\ queue # <<>> /\ threw' = threw
  BY <1>1 DEF LoopStart, StartItem, itemVars, queueVars, envVars, histVars
<1>3. \A i \in Items : Settled(i) => Settled(i)'
  BY ResultStays
<1>4. \A i, j : Before(i, j)' <=> Before(i, j)
  BY <1>2, BeforeFrame
<1>5. ToSet(queue) \subseteq Items /\ ToSet(enqueued) \subseteq Items
  BY ToSetType DEF TypeOK, QueueTypeOK, HistTypeOK
<1>6. Kept'
  BY <1>2, <1>3, <1>5 DEF OrderInv, Kept
<1>7. QueueInOrder'
  BY <1>2, <1>3, <1>4, <1>5 DEF OrderInv, QueueInOrder
<1>8. CellLeaves'
  BY <1>2 DEF OrderInv, CellLeaves
<1>9. InOrder'
  <2>1. ASSUME NEW i \in Items, NEW j \in Items, Before(i, j), j \in started'
        PROVE  Settled(i) \/ i \in threw \/ (i \in CellItems /\ notebookIsClosed)
    <3>1. CASE j \in started
      BY <2>1, <3>1 DEF OrderInv, InOrder
    <3>2. CASE j = h
      BY <1>1, <1>2, <2>1, <3>2, NothingBeforeHead
    <3> QED
      BY <1>2, <2>1, <3>1, <3>2
  <2> QED
    BY <1>2, <1>3, <1>4, <2>1 DEF InOrder
<1>10. ThrewLeaves'
  BY <1>1, <1>2 DEF OrderInv, ThrewLeaves
<1> QED
  BY <1>6, <1>7, <1>8, <1>9, <1>10

\* A cell whose start threw stays unsent and leaves the queue.
LEMMA ThrewFrame ==
    ASSUME TypeOK, OrderInv, [Next]_vars, ~LoopStart, \A i \in Items : ~Enqueue(i)
    PROVE  ThrewLeaves'
<1>1. started' = started /\ enqueued' = enqueued /\ ToSet(queue') \subseteq ToSet(queue)
  BY QueueStep, QueueShrinks
<1>2. CASE ResumeThrows
  <2>1. PICK h \in Items : h = Head(queue) /\ h \in ToSet(queue)
    BY <1>2, HeadInRange DEF ResumeThrows, TypeOK, QueueTypeOK
  <2>2. /\ loop = "head" /\ loop' = "threw" /\ current' = h /\ threw' = threw \cup {h}
        /\ h \in CellItems /\ h \in ToSet(enqueued)
    BY <1>2, <2>1, ConstantsAssumption DEF ResumeThrows, OrderInv, SettledInv
  <2>3. h \notin started
    BY <2>1, <2>2 DEF OrderInv, CellLeaves
  <2> QED
    BY <1>1, <2>2, <2>3 DEF OrderInv, ThrewLeaves
<1>3. CASE ItemDone
  <2>1. queue' = WithoutFirst(queue, current) /\ threw' = threw /\ loop' # "threw"
    BY <1>3 DEF ItemDone, Conclude, AwaitCancel, NextItem, histVars
  <2>2. current \in CellItems => current \notin ToSet(queue')
    BY <2>1, RemovedGone DEF OrderInv
  <2>3. threw \subseteq CellItems
    BY ConstantsAssumption DEF TypeOK, HistTypeOK
  <2>4. \A i \in threw : i \notin started /\ (i \in ToSet(queue) => i = current)
    BY DEF OrderInv, ThrewLeaves
  <2>5. \A i \in threw : i \notin started' /\ i \notin ToSet(queue')
    BY <1>1, <2>2, <2>3, <2>4
  <2> QED
    BY <1>1, <2>1, <2>5 DEF OrderInv, ThrewLeaves
<1>4. CASE ~ResumeThrows /\ ~ItemDone
  <2>1. threw' = threw
    BY <1>4, FlagsStay
  <2>2. loop = "threw" => loop' = loop /\ current' = current
    BY <1>4, LoopFrame
  <2>3. loop' = "threw" => loop = "threw"
    BY <1>4, LoopFrame
  <2> QED
    BY <1>1, <2>1, <2>2, <2>3 DEF OrderInv, ThrewLeaves
<1> QED
  BY <1>2, <1>3, <1>4

\* Every step keeps OrderInv.
LEMMA OrderStep ==
    ASSUME TypeOK, OrderInv, [Next]_vars
    PROVE  OrderInv'
<1>1. OneAtATime' /\ SettledInv' /\ FailedInv' /\ CellQueuedOnce'
  BY OneAtATimeStep, SettledStep, CellQueuedOnceStep DEF OrderInv
<1>2. Kept' /\ QueueInOrder' /\ CellLeaves' /\ ThrewLeaves' /\ InOrder'
  BY OrderEnqueue, OrderStart, KeptFrame, QueueInOrderFrame, CellLeavesFrame, ThrewFrame,
     InOrderFrame
<1> QED
  BY <1>1, <1>2 DEF OrderInv

\* OrderInv holds of every behaviour.
LEMMA OrderAlways == Spec => []OrderInv
<1>1. Init => OrderInv
  BY DEF Init, OrderInv, OneAtATime, SettledInv, FailedInv, Settled, CellQueuedOnce, Kept,
         QueueInOrder, CellLeaves, ThrewLeaves, InOrder, Before, ToSet
<1>2. TypeOK /\ OrderInv /\ [Next]_vars => OrderInv'
  BY OrderStep
<1> QED
  BY <1>1, <1>2, TypeCorrect, PTL DEF Spec

\* Items are processed in the order they were queued, for any cells and code and any
\* interleaving of cancels, interrupts, deleted cells and dying kernels: when one has been
\* started, those queued before it have a result, or are cells of a closed notebook or
\* resumed cells whose start threw.
THEOREM StartedInOrder == Spec => []InOrder
<1>1. OrderInv => InOrder
  BY DEF OrderInv
<1> QED
  BY <1>1, OrderAlways, PTL

\* CellExecution.start never meets a cell that was sent to the kernel before.
THEOREM NeverStartedTwice == Spec => []NoCellStartedTwice
<1>1. TypeOK /\ OrderInv => NoCellStartedTwice
  <2> SUFFICES ASSUME TypeOK, OrderInv, loop = "head", queue # <<>>, Head(queue) \in CellItems
               PROVE  Head(queue) \notin started
    BY DEF NoCellStartedTwice
  <2>1. Head(queue) \in ToSet(queue)
    BY HeadInRange DEF TypeOK, QueueTypeOK
  <2> QED
    BY <2>1 DEF OrderInv, CellLeaves
<1> QED
  BY <1>1, OrderAlways, TypeCorrect, PTL

-----------------------------------------------------------------------------
(* A failed cell stops the cells behind it *)

\* A cell that failed, and may not, is the one the loop awaits, or has failed the queue.
ErrorInv ==
    \A i \in CellItems :
        result[i] = "rejected" /\ CellOf[i] \notin AllowErrors
            => failed \/ (loop = "running" /\ current = i)

\* Only a reply, or a start that throws, rejects the promise of a cell.
LEMMA RejectedBy ==
    ASSUME TypeOK, [Next]_vars, NEW i \in CellItems, result'[i] = "rejected"
    PROVE  \/ result[i] = "rejected"
           \/ ~Settled(i) /\ (Reply(i) \/ (LoopStart /\ i = Head(queue)))
<1> USE DEF vars, envVars, queueVars, loopVars, itemVars, callVars, histVars
<1>0. i \in Items /\ i \notin CodeItems
  BY ConstantsAssumption DEF Items
<1>1. \A S : result' = Settling(S, "resolved") => result[i] = "rejected"
  BY <1>0 DEF Settling, TypeOK, ItemTypeOK, Results
<1>2. \A x, outcome : result' = Settling({x}, outcome) =>
                        result[i] = "rejected" \/ (~Settled(i) /\ x = i)
  BY <1>0 DEF Settling, TypeOK, ItemTypeOK, Results
<1>3. ASSUME NEW x, NEW ok, NEW closed, Conclude(x, ok, closed) PROVE result[i] = "rejected"
  BY <1>1, <1>3 DEF Conclude, AwaitCancel, CancelItems, NextItem
<1>4. CASE UNCHANGED result
  BY <1>4
<1>5. CASE LoopSkip \/ ItemDone
  BY <1>3, <1>5 DEF LoopSkip, ItemDone
<1>6. ASSUME NEW x \in Items, Reply(x)
      PROVE  result[i] = "rejected" \/ (~Settled(i) /\ Reply(i))
  BY <1>2, <1>6 DEF Reply
<1>7. CASE \E x \in CodeItems : TokenCancelled(x)
  BY <1>1, <1>7 DEF TokenCancelled, CancelItems
<1>8. CASE \E x \in CodeItems : CodeInterrupted(x)
  BY <1>0, <1>2, <1>8 DEF CodeInterrupted
<1>9. CASE (\E c \in OutsideCallers : Cancel(c)) \/ (\E cell \in NotebookCells : DeleteCell(cell))
            \/ CloseNotebook \/ SessionLost
  <2>1. \E S : result' = Settling(S, "resolved")
    BY <1>9 DEF Cancel, CancelItems, DeleteCell, CloseNotebook, SessionLost, AwaitCancel
  <2> QED
    BY <1>1, <2>1
<1>10. CASE CellsCancelled
  BY <1>1, <1>10 DEF CellsCancelled, AwaitCancel, CancelItems
<1>11. CASE LoopStart
  <2>1. PICK h : h = Head(queue)
    OBVIOUS
  <2>2. result' = result \/ result' = Settling({h}, "resolved") \/ result' = Settling({h}, "rejected")
    BY <1>11, <2>1 DEF LoopStart, StartItem
  <2>3. CASE result' = Settling({h}, "rejected")
    <3>1. result[i] = "rejected" \/ (~Settled(i) /\ h = i)
      BY <1>0, <2>3 DEF Settling, Settled, TypeOK, ItemTypeOK
    <3> QED
      BY <1>11, <2>1, <3>1
  <2> QED
    BY <1>1, <1>4, <2>2, <2>3
<1>12. ASSUME NEW x \in Items, Enqueue(x) PROVE UNCHANGED result
  BY <1>12 DEF Enqueue
<1>13. CASE \/ \E x \in CellItems : Acknowledge(x)
            \/ \E c \in OutsideCallers : CancelReturns(c)
            \/ SessionSettles \/ KernelDies \/ SessionReady \/ LoopExit \/ ResumeThrows
            \/ LoopCancelled \/ Stopped \/ UNCHANGED vars
  BY <1>4, <1>13 DEF Acknowledge, CancelReturns, SessionSettles, KernelDies, SessionReady,
                     LoopExit, ResumeThrows, LoopCancelled, Stopped
<1> QED
  BY <1>4, <1>5, <1>6, <1>7, <1>8, <1>9, <1>10, <1>11, <1>12, <1>13 DEF Next, Loop

\* When the loop is done with a cell that failed, the queue has failed.
LEMMA ErrorFails ==
    ASSUME ItemDone, current \in CellItems, result[current] = "rejected",
           CellOf[current] \notin AllowErrors
    PROVE  failed'
<1>1. Bail(current, Succeeded, sawClosed)
  BY DEF Bail, Succeeded
<1> QED
  BY <1>1 DEF ItemDone, Conclude

\* Every step keeps ErrorInv and StopOnError.
LEMMA ErrorStep ==
    ASSUME TypeOK, OrderInv, ErrorInv, StopOnError, [Next]_vars
    PROVE  ErrorInv' /\ StopOnError'
<1>1. ASSUME NEW i \in CellItems, result'[i] = "rejected", CellOf[i] \notin AllowErrors
      PROVE  failed' \/ (loop' = "running" /\ current' = i)
  <2>1. CASE LoopStart /\ i = Head(queue)
    BY <2>1 DEF LoopStart
  <2>2. CASE ~Settled(i) /\ Reply(i)
    <3>1. loop = "running" /\ current = i
      BY <2>2 DEF Reply, OrderInv, OneAtATime
    <3> QED
      BY <2>2, <3>1 DEF Reply, loopVars
  <2>3. CASE result[i] = "rejected" /\ failed
    BY <2>3, FlagsStay
  <2>4. CASE result[i] = "rejected" /\ loop = "running" /\ current = i
    <3>1. CASE ItemDone
      BY <1>1, <2>4, <3>1, ErrorFails
    <3>2. CASE ~ItemDone
      <4>1. ~LoopStart
        BY <2>4 DEF LoopStart
      <4> QED
        BY <2>4, <3>2, <4>1, LoopFrame
    <3> QED
      BY <3>1, <3>2
  <2> QED
    BY <1>1, <2>1, <2>2, <2>3, <2>4, RejectedBy DEF ErrorInv
<1>2. ASSUME NEW i \in CellItems, NEW j \in CellItems, Before(i, j)', result'[i] = "rejected",
             CellOf[i] \notin AllowErrors
      PROVE  j \notin started'
  <2>1. CASE ~Settled(i) /\ Reply(i)
    <3>1. enqueued' = enqueued /\ started' = started /\ i \in started
      BY <2>1 DEF Reply, histVars
    <3>2. ~notebookIsClosed /\ i \notin threw /\ i \in Items /\ j \in Items
      BY <2>1, <3>1 DEF OrderInv, SettledInv, ThrewLeaves, Items
    <3> QED
      BY <1>2, <2>1, <3>1, <3>2, BeforeFrame DEF OrderInv, InOrder
  <2>2. CASE ~Settled(i) /\ LoopStart /\ i = Head(queue)
    <3>1. enqueued' = enqueued /\ started' \subseteq started \cup {i} /\ queue # <<>>
      BY <2>2 DEF LoopStart, StartItem, itemVars, histVars
    <3>2. ~notebookIsClosed /\ i \in Items /\ j \in Items /\ i \in ToSet(queue) /\ i \notin threw
      <4>1. i \in ToSet(queue)
        BY <2>2, HeadInRange DEF LoopStart, TypeOK, QueueTypeOK
      <4> QED
        BY <2>2, <4>1 DEF LoopStart, Skipped, Items, OrderInv, ThrewLeaves
    <3>3. Before(i, j)
      BY <1>2, <3>1, BeforeFrame
    <3>4. j \notin started
      BY <2>2, <3>2, <3>3 DEF OrderInv, InOrder
    <3>5. j # i
      BY <2>2, <3>1, <3>2, <3>3, NothingBeforeHead
    <3> QED
      BY <3>1, <3>4, <3>5
  <2>3. CASE result[i] = "rejected" /\ \E k \in Items : Enqueue(k)
    <3>1. PICK k \in Items : Enqueue(k)
      BY <2>3
    <3>2. enqueued' = Append(enqueued, k) /\ started' = started /\ k \notin started
      BY <3>1 DEF Enqueue, itemVars, OrderInv, SettledInv
    <3>3. Before(i, j) \/ j = k
      BY <1>2, <3>2, BeforeAppend
    <3> QED
      BY <1>2, <2>3, <3>2, <3>3 DEF StopOnError
  <2>4. CASE result[i] = "rejected" /\ LoopStart
    <3>1. enqueued' = enqueued /\ started' \subseteq started \cup {Head(queue)} /\ loop = "head"
      BY <2>4 DEF LoopStart, StartItem, itemVars, histVars
    <3>2. failed
      BY <1>2, <2>4, <3>1 DEF ErrorInv
    <3>3. j # Head(queue)
      BY <2>4, <3>2 DEF LoopStart, Skipped
    <3>4. j \notin started
      BY <1>2, <2>4, <3>1, BeforeFrame DEF StopOnError
    <3> QED
      BY <3>1, <3>3, <3>4
  <2>5. CASE result[i] = "rejected" /\ ~LoopStart /\ \A k \in Items : ~Enqueue(k)
    <3>1. enqueued' = enqueued /\ started' = started
      BY <2>5, QueueStep
    <3> QED
      BY <1>2, <2>5, <3>1, BeforeFrame DEF StopOnError
  <2> QED
    BY <1>2, <2>1, <2>2, <2>3, <2>4, <2>5, RejectedBy
<1>3. ErrorInv'
  BY <1>1 DEF ErrorInv
<1>4. StopOnError'
  BY <1>2 DEF StopOnError
<1> QED
  BY <1>3, <1>4

\* A cell that failed without raises-exception stops the cells queued behind it, for any
\* cells and code and any interleaving of replies, cancels and closing documents.
THEOREM ErrorStops == Spec => []StopOnError
<1>1. Init => ErrorInv /\ StopOnError
  BY DEF Init, ErrorInv, StopOnError, Items
<1>2. TypeOK /\ OrderInv /\ ErrorInv /\ StopOnError /\ [Next]_vars => ErrorInv' /\ StopOnError'
  BY ErrorStep
<1> QED
  BY <1>1, <1>2, OrderAlways, TypeCorrect, PTL DEF Spec

-----------------------------------------------------------------------------
(* The queue implements SerialExecution *)

\* The initial state of the queue is the initial state of SerialExecution.
LEMMA RefinesInit == Init => Serial!Init
  BY DEF Init, Serial!Init, PendingItems, RunningItems, ToSet

\* Queueing an item submits it.
LEMMA RefinesEnqueue ==
    ASSUME TypeOK, OrderInv, NEW k \in Items, Enqueue(k)
    PROVE  Serial!Submit(k)
<1>1. /\ queue' = Append(queue, k) /\ enqueued' = Append(enqueued, k) /\ k \notin ToSet(enqueued)
      /\ started' = started /\ result' = result
  BY DEF Enqueue, itemVars
<1>2. ToSet(queue') = ToSet(queue) \cup {k}
  BY <1>1, AppendRange DEF TypeOK, QueueTypeOK
<1>3. k \notin started /\ ~Settled(k)
  BY <1>1 DEF OrderInv, SettledInv
<1>4. PendingItems' = PendingItems \cup {k}
  BY <1>1, <1>2, <1>3 DEF PendingItems, Settled
<1>5. RunningItems' = RunningItems
  BY <1>1 DEF RunningItems, Settled
<1> QED
  BY <1>1, <1>4, <1>5 DEF Serial!Submit, Serial!ToSet, ToSet

\* A step that neither queues nor starts an item ends or withdraws items.
LEMMA RefinesEnd ==
    ASSUME TypeOK, OrderInv, [Next]_vars, ~LoopStart, \A i \in Items : ~Enqueue(i)
    PROVE  Serial!End
<1>1. enqueued' = enqueued /\ started' = started
  BY QueueStep
<1>2. ToSet(queue') \subseteq ToSet(queue) /\ ToSet(queue) \subseteq Items
  <2>1. queue \in Seq(Items)
    BY DEF TypeOK, QueueTypeOK
  <2>2. CASE queue' = <<>>
    BY <2>1, <2>2, ToSetType DEF ToSet
  <2>3. CASE queue' = queue \/ Requeue
    BY <2>1, <2>3, ToSetType, RequeueRange
  <2>4. CASE \E x : queue' = WithoutFirst(queue, x)
    BY <2>1, <2>4, ToSetType, WithoutFirstRange
  <2> QED
    BY <2>2, <2>3, <2>4, QueueStep
<1>3. \A i \in Items : Settled(i) => Settled(i)'
  BY ResultStays
<1>4. PendingItems' \subseteq PendingItems
  BY <1>1, <1>2, <1>3 DEF PendingItems
<1>5. RunningItems' \subseteq RunningItems
  BY <1>1, <1>3 DEF RunningItems, TypeOK, ItemTypeOK
<1> QED
  BY <1>1, <1>4, <1>5 DEF Serial!End

\* Of two items that were queued, one was queued before the other.
LEMMA BeforeTotal ==
    ASSUME TypeOK, NEW i \in ToSet(enqueued), NEW j \in ToSet(enqueued), i # j
    PROVE  Before(i, j) \/ Before(j, i)
<1>1. PICK m \in DOMAIN enqueued, n \in DOMAIN enqueued : enqueued[m] = i /\ enqueued[n] = j
  BY DEF ToSet
<1>2. m \in Nat /\ n \in Nat /\ m # n
  BY <1>1, LenProperties DEF TypeOK, HistTypeOK
<1>3. CASE m < n
  BY <1>1, <1>3 DEF Before
<1>4. CASE n < m
  BY <1>1, <1>4 DEF Before
<1> QED
  BY <1>2, <1>3, <1>4

\* Sending the request of an item starts it, unless it was started or ended before; an
\* item the loop finds cancelled, deleted or without a session ends.
LEMMA RefinesStart ==
    ASSUME TypeOK, OrderInv, [Next]_vars, LoopStart
    PROVE  (\E i \in Items : Serial!Start(i)) \/ Serial!End
<1>1. PICK h \in Items : h = Head(queue) /\ h \in ToSet(queue)
  BY HeadInRange DEF LoopStart, TypeOK, QueueTypeOK
<1>2. /\ queue' = queue /\ enqueued' = enqueued /\ loop = "head" /\ queue # <<>>
      /\ started' = started \/ (started' = started \cup {h} /\ result' = result)
  BY <1>1 DEF LoopStart, StartItem, itemVars, queueVars, histVars
<1>3. \A i \in Items : Settled(i) => Settled(i)'
  BY ResultStays
<1>4. ToSet(queue) \subseteq Items /\ started \subseteq Items
  BY ToSetType DEF TypeOK, QueueTypeOK, ItemTypeOK
<1>5. CASE started' = started
  <2>1. PendingItems' \subseteq PendingItems
    BY <1>2, <1>3, <1>4, <1>5 DEF PendingItems
  <2>2. RunningItems' \subseteq RunningItems
    BY <1>3, <1>4, <1>5 DEF RunningItems
  <2> QED
    BY <1>2, <2>1, <2>2 DEF Serial!End
<1>6. CASE started' = started \cup {h} /\ result' = result /\ Settled(h)
  <2>1. PendingItems' \subseteq PendingItems
    BY <1>2, <1>6 DEF PendingItems, Settled
  <2>2. RunningItems' \subseteq RunningItems
    BY <1>6 DEF RunningItems, Settled
  <2> QED
    BY <1>2, <2>1, <2>2 DEF Serial!End
<1>7. CASE started' = started \cup {h} /\ result' = result /\ ~Settled(h)
  <2>1. RunningItems = {}
    BY <1>2 DEF RunningItems, OrderInv, OneAtATime
  <2>2. RunningItems' = {h}
    BY <1>7, <2>1 DEF RunningItems, Settled
  <2>3. h \in PendingItems
    BY <1>1, <1>2, <1>7 DEF PendingItems, OrderInv, OneAtATime
  <2>4. PendingItems' = PendingItems \ {h}
    BY <1>2, <1>7 DEF PendingItems, Settled
  <2>5. ASSUME NEW j \in PendingItems \ {h} PROVE Serial!SubmittedBefore(h, j)
    <3>1. j \in ToSet(queue) /\ ~Settled(j)
      BY <2>5 DEF PendingItems
    <3>2. j \in ToSet(enqueued) /\ h \in ToSet(enqueued)
      BY <1>1, <1>4, <3>1 DEF OrderInv, SettledInv
    <3>3. ~Before(j, h)
      BY <1>1, <1>2, <3>1, NothingBeforeHead
    <3>4. Before(h, j)
      BY <2>5, <3>2, <3>3, BeforeTotal
    <3> QED
      BY <3>4 DEF Before, Serial!SubmittedBefore
  <2> QED
    BY <1>2, <2>1, <2>2, <2>3, <2>4, <2>5 DEF Serial!Start
<1> QED
  BY <1>2, <1>5, <1>6, <1>7

\* For any cells and code, the queue executes what is submitted to it one item at a time
\* and in order, and what was withdrawn never runs: every behaviour of the loop, the
\* cancels, the replies and the closing documents is one of SerialExecution.
THEOREM QueueImplementsSerialExecution == Spec => ImplementsSerialExecution
<1>1. Init => Serial!Init
  BY RefinesInit
<1>2. TypeOK /\ OrderInv /\ [Next]_vars => [Serial!Next]_(Serial!vars)
  <2> SUFFICES ASSUME TypeOK, OrderInv, [Next]_vars PROVE Serial!Next
    OBVIOUS
  <2>1. CASE \E k \in Items : Enqueue(k)
    BY <2>1, RefinesEnqueue DEF Serial!Next
  <2>2. CASE LoopStart
    BY <2>2, RefinesStart DEF Serial!Next
  <2>3. CASE ~LoopStart /\ \A k \in Items : ~Enqueue(k)
    BY <2>3, RefinesEnd DEF Serial!Next
  <2> QED
    BY <2>1, <2>2, <2>3
<1> QED
  BY <1>1, <1>2, OrderAlways, TypeCorrect, PTL DEF Spec, Serial!Spec, ImplementsSerialExecution
=============================================================================

-------------------- MODULE NotebookKernelExecution_proofs --------------------
(***************************************************************************)
(* Theorems about NotebookKernelExecution, for every set of executions:    *)
(* each is in one queue, a queue that was replaced starts no cell, and the *)
(* handlers of the kernel's start come before the user's cells.            *)
(***************************************************************************)
EXTENDS NotebookKernelExecution, SequenceLemmas

States == {"idle", "starting", "queued", "running", "failed", "done"}

QueueType == [items : Seq(Executions), failed : BOOLEAN,
              awaits : {"session", "handlers", "nothing"}]

Types ==
    /\ kernel \in {"none", "starting", "up", "restarting", "restarted"}
    /\ restarted \in BOOLEAN /\ handling \in BOOLEAN
    /\ handlers \subseteq Codes
    /\ present \in QueueType /\ replaced \subseteq QueueType
    /\ state \in [Executions -> States]

\* Only the first of a queue is being executed, and nothing is in a queue twice.
InTurn(items, states) ==
    /\ \A n \in 2..Len(items) : states[items[n]] # "running"
    /\ \A m, n \in 1..Len(items) : items[m] = items[n] => m = n

\* What is in a queue was queued, and in no other.
Placed ==
    /\ \A q \in Queues : \A i \in ToSet(q.items) : state[i] \notin {"idle", "starting"}
    /\ \A p, q \in Queues : ToSet(p.items) \cap ToSet(q.items) # {} => p = q
    /\ \A q \in Queues : InTurn(q.items, state)
    /\ present \notin replaced
    /\ \A q \in replaced : q.items # <<>>

\* What is queued or executed is in a queue.
Held ==
    \A i \in Executions : state[i] \in {"queued", "running"} =>
        \E q \in Queues : i \in ToSet(q.items)

\* A queue that was replaced, or will be because it failed, has no cell to start.
NoCellLeft ==
    \A q \in Queues : q \in replaced \/ q.failed =>
        \A c \in ToSet(q.items) \ Codes : state[c] # "queued"

\* Until the handlers of the kernel's first start have ended, the user's cells wait for it.
CellsWait ==
    /\ kernel \in {"restarting", "restarted"} => restarted
    /\ kernel \in {"none", "starting"} \/ (handling /\ ~restarted) =>
          \A c \in Cells : state[c] \in {"idle", "starting"}

QueuesInv == Types /\ Placed /\ Held /\ NoCellLeft

-----------------------------------------------------------------------------
(* Queues change                                                           *)

\* What may become of queue q: it loses items that are not to be executed any more.
Shrinks(q, r, states) ==
    /\ r \in QueueType
    /\ ToSet(r.items) \subseteq ToSet(q.items)
    /\ InTurn(r.items, states)
    /\ q \in replaced \/ r.failed => \A c \in ToSet(r.items) \ Codes : states[c] # "queued"
    /\ \A i \in ToSet(q.items) \ ToSet(r.items) : states[i] \notin {"queued", "running"}

\* What a step that queues nothing does to the executions.
Passes(states, after) ==
    \A i \in Executions :
        /\ after[i] = "queued" => states[i] = "queued"
        /\ after[i] = "running" => states[i] \in {"queued", "running"}
        /\ states[i] \notin {"idle", "starting"} => after[i] \notin {"idle", "starting"}

\* The items of a queue are executions.
LEMMA ItemsOf ==
    ASSUME NEW q \in QueueType
    PROVE  /\ q.items \in Seq(Executions) /\ ToSet(q.items) \subseteq Executions
           /\ DOMAIN q.items = 1..Len(q.items) /\ Len(q.items) \in Nat
           /\ q.items # <<>> => Head(q.items) \in ToSet(q.items)
<1>1. q.items \in Seq(Executions)
  BY DEF QueueType
<1> QED
  BY <1>1, ToSetType, HeadInRange, LenProperties

\* The queues are as they should be when one of them shrinks.
LEMMA QueueShrinks ==
    ASSUME QueuesInv, NEW q \in Queues, NEW r, QueueBecomes(q, r), Shrinks(q, r, state'),
           Passes(state, state'), state' \in [Executions -> States],
           \A p \in Queues \ {q} : InTurn(p.items, state')
    PROVE  /\ present' \in QueueType /\ replaced' \subseteq QueueType
           /\ Placed' /\ Held' /\ NoCellLeft'
<1>1. /\ q \in QueueType /\ r \in QueueType /\ ToSet(r.items) \subseteq ToSet(q.items)
      /\ present \in QueueType /\ replaced \subseteq QueueType
  BY DEF QueuesInv, Types, Shrinks, Queues
<1>2. \A p \in Queues' : p = r \/ p \in Queues \ {q}
  BY DEF QueueBecomes, Queues, Kept, QueuesInv, Placed
<1>3. \A p \in Queues \ {q} : p \in Queues'
  BY DEF QueueBecomes, Queues, Kept, QueuesInv, Placed
<1>4. r \in Queues' \/ r.items = <<>>
  BY DEF QueueBecomes, Queues, Kept
<1>5. \A p \in replaced' : (p \in replaced /\ p # q) \/ (p = r /\ q \in replaced)
  BY DEF QueueBecomes, Queues, Kept, QueuesInv, Placed
<1>6. \A p \in replaced' : p.items # <<>>
  BY DEF QueueBecomes, Kept, QueuesInv, Placed
<1>7. \A p \in Queues : ToSet(p.items) \cap ToSet(r.items) # {} => p = q
  BY <1>1 DEF QueuesInv, Placed
<1>8. \A p \in Queues : r = p => p = q \/ r.items = <<>>
  <2>1. r.items # <<>> => ToSet(r.items) # {}
    BY <1>1, ItemsOf
  <2> QED
    BY <1>7, <2>1
<1>9. present' \notin replaced'
  <2>1. CASE q = present
    <3>1. present' = r /\ replaced' = replaced
      BY <2>1 DEF QueueBecomes
    <3> QED
      BY <1>8, <2>1, <3>1 DEF QueuesInv, Placed, Queues
  <2>2. CASE q # present
    <3>1. present' = present
      BY <2>2 DEF QueueBecomes
    <3>2. \A p \in replaced' : p # present
      BY <1>5, <1>6, <1>8, <2>2 DEF QueuesInv, Placed, Queues
    <3> QED
      BY <3>1, <3>2
  <2> QED
    BY <2>1, <2>2
<1>10. present' \in QueueType /\ replaced' \subseteq QueueType
  BY <1>1, <1>5 DEF QueueBecomes
<1>11. Placed'
  <2>1. ASSUME NEW p \in Queues', NEW i \in ToSet(p.items) PROVE state'[i] \notin {"idle", "starting"}
    <3>1. i \in Executions /\ state[i] \notin {"idle", "starting"}
      <4>1. PICK o \in Queues : i \in ToSet(o.items)
        BY <1>1, <1>2, <2>1
      <4> QED
        BY <1>1, <4>1, ItemsOf DEF QueuesInv, Placed, Queues
    <3> QED
      BY <3>1 DEF Passes
  <2>2. ASSUME NEW o \in Queues', NEW p \in Queues', ToSet(o.items) \cap ToSet(p.items) # {}
        PROVE  o = p
    <3>1. CASE o = r
      BY <1>2, <1>7, <2>2, <3>1
    <3>2. CASE p = r
      BY <1>2, <1>7, <2>2, <3>2
    <3>3. CASE o # r /\ p # r
      BY <1>2, <2>2, <3>3 DEF QueuesInv, Placed
    <3> QED
      BY <3>1, <3>2, <3>3
  <2>3. \A p \in Queues' : InTurn(p.items, state')
    BY <1>2 DEF Shrinks
  <2> QED
    BY <1>6, <1>9, <2>1, <2>2, <2>3 DEF Placed
<1>12. Held'
  <2>1. SUFFICES ASSUME NEW i \in Executions, state'[i] \in {"queued", "running"}
                 PROVE  \E p \in Queues' : i \in ToSet(p.items)
    BY DEF Held
  <2>2. PICK p \in Queues : i \in ToSet(p.items)
    BY <2>1 DEF Passes, QueuesInv, Held
  <2>3. CASE p # q
    BY <1>3, <2>2, <2>3
  <2>4. CASE p = q
    <3>1. i \in ToSet(r.items)
      BY <2>1, <2>2, <2>4 DEF Shrinks
    <3>2. ToSet(<<>>) = {}
      BY DEF ToSet
    <3> QED
      BY <1>4, <3>1, <3>2
  <2> QED
    BY <2>3, <2>4
<1>13. NoCellLeft'
  <2>1. SUFFICES ASSUME NEW p \in Queues', p \in replaced' \/ p.failed, NEW c \in ToSet(p.items) \ Codes
                 PROVE  state'[c] # "queued"
    BY DEF NoCellLeft
  <2>2. CASE p = r /\ (q \in replaced \/ r.failed)
    BY <2>1, <2>2 DEF Shrinks
  <2>3. CASE ~(p = r /\ (q \in replaced \/ r.failed))
    <3>1. p \in Queues /\ (p \in replaced \/ p.failed)
      <4>1. CASE p \in replaced'
        BY <1>5, <2>3, <4>1 DEF Queues
      <4>2. CASE p \notin replaced'
        BY <1>2, <2>1, <2>3, <4>2
      <4> QED
        BY <4>1, <4>2
    <3>2. c \in Executions /\ state[c] # "queued"
      BY <1>1, <2>1, <3>1, ItemsOf DEF QueuesInv, NoCellLeft, Queues
    <3> QED
      BY <3>2 DEF Passes
  <2> QED
    BY <2>2, <2>3
<1> QED
  BY <1>10, <1>11, <1>12, <1>13

\* Nothing is wrong with an empty queue and with one of one item.
LEMMA ShortInTurn ==
    ASSUME NEW i, NEW states
    PROVE  /\ ToSet(<<>>) = {} /\ ToSet(<<i>>) = {i}
           /\ InTurn(<<>>, states) /\ InTurn(<<i>>, states)
<1>1. ToSet(<<>>) = {}
  BY DEF ToSet
<1>2. ToSet(<<i>>) = {i}
  BY DEF ToSet
<1> QED
  BY <1>1, <1>2 DEF InTurn

\* queueOfItemsToExecute.push of a new item.
LEMMA PushInTurn ==
    ASSUME NEW S, NEW items \in Seq(S), NEW i \in S, i \notin ToSet(items),
           NEW states, NEW after, InTurn(items, states), after[i] # "running",
           \A j \in ToSet(items) : after[j] = states[j]
    PROVE  InTurn(Append(items, i), after)
<1>1. /\ Append(items, i) \in Seq(S) /\ Len(Append(items, i)) = Len(items) + 1
      /\ \A k \in 1..Len(items) : Append(items, i)[k] = items[k]
      /\ Append(items, i)[Len(items) + 1] = i
  BY AppendProperties
<1>2. Len(items) \in Nat /\ DOMAIN items = 1..Len(items)
  BY LenProperties
<1>3. \A k \in 1..Len(items) : items[k] \in ToSet(items) /\ items[k] # i
  BY <1>2 DEF ToSet
<1>4. ASSUME NEW n \in 2..Len(Append(items, i)) PROVE after[Append(items, i)[n]] # "running"
  <2>1. CASE n = Len(items) + 1
    BY <1>1, <2>1
  <2>2. CASE n # Len(items) + 1
    <3>1. n \in 2..Len(items) /\ n \in 1..Len(items)
      BY <1>1, <1>2, <1>4, <2>2
    <3>2. Append(items, i)[n] = items[n] /\ after[items[n]] = states[items[n]]
      BY <1>1, <1>3, <3>1
    <3> QED
      BY <3>1, <3>2 DEF InTurn
  <2> QED
    BY <2>1, <2>2
<1>5. ASSUME NEW m \in 1..Len(Append(items, i)), NEW n \in 1..Len(Append(items, i)),
             Append(items, i)[m] = Append(items, i)[n]
      PROVE  m = n
  <2>1. (m \in 1..Len(items) \/ m = Len(items) + 1) /\ (n \in 1..Len(items) \/ n = Len(items) + 1)
    BY <1>1, <1>2, <1>5
  <2> QED
    BY <1>1, <1>3, <1>5, <2>1 DEF InTurn
<1> QED
  BY <1>4, <1>5 DEF InTurn

\* The queue without its first item.
LEMMA TailInTurn ==
    ASSUME NEW S, NEW items \in Seq(S), items # <<>>,
           NEW states, NEW after, InTurn(items, states),
           \A j \in ToSet(items) : after[j] = "running" => states[j] = "running"
    PROVE  /\ Tail(items) \in Seq(S) /\ ToSet(Tail(items)) = ToSet(items) \ {Head(items)}
           /\ \A j \in ToSet(Tail(items)) : states[j] # "running"
           /\ InTurn(Tail(items), after)
<1>1. /\ Tail(items) \in Seq(S) /\ Len(Tail(items)) = Len(items) - 1
      /\ \A k \in 1..Len(Tail(items)) : Tail(items)[k] = items[k + 1]
      /\ Head(items) = items[1]
  BY HeadTailProperties
<1>2. /\ Len(items) \in Nat /\ Len(items) # 0 /\ DOMAIN items = 1..Len(items)
      /\ DOMAIN Tail(items) = 1..Len(Tail(items))
  BY <1>1, LenProperties, EmptySeq
<1>3. \A k \in 1..Len(Tail(items)) : /\ k + 1 \in 2..Len(items) /\ k + 1 \in 1..Len(items)
                                    /\ items[k + 1] \in ToSet(items)
  BY <1>1, <1>2 DEF ToSet
<1>4. \A k \in 1..Len(Tail(items)) : states[Tail(items)[k]] # "running"
  BY <1>1, <1>3 DEF InTurn
<1>5. \A k \in 1..Len(Tail(items)) : Tail(items)[k] # items[1]
  <2>1. 1 \in 1..Len(items)
    BY <1>2
  <2>2. \A k \in 1..Len(Tail(items)) : k + 1 # 1
    BY <1>1, <1>2
  <2> QED
    BY <1>1, <1>3, <2>1, <2>2 DEF InTurn
<1>6. ToSet(Tail(items)) \subseteq ToSet(items) \ {Head(items)}
  BY <1>1, <1>2, <1>3, <1>5 DEF ToSet
<1>7. ASSUME NEW x \in ToSet(items) \ {Head(items)} PROVE x \in ToSet(Tail(items))
  <2>1. PICK k \in 1..Len(items) : x = items[k]
    BY <1>2, <1>7 DEF ToSet
  <2>2. k - 1 \in 1..Len(Tail(items)) /\ k = (k - 1) + 1
    BY <1>1, <1>2, <1>7, <2>1
  <2>3. x = Tail(items)[k - 1]
    BY <1>1, <2>1, <2>2
  <2> QED
    BY <1>2, <2>2, <2>3 DEF ToSet
<1>8. InTurn(Tail(items), after)
  <2>1. \A n \in 2..Len(Tail(items)) : after[Tail(items)[n]] # "running"
    <3>1. \A n \in 2..Len(Tail(items)) : n \in 1..Len(Tail(items))
      BY <1>1, <1>2
    <3> QED
      BY <1>1, <1>3, <1>4, <3>1
  <2>2. \A m, n \in 1..Len(Tail(items)) : Tail(items)[m] = Tail(items)[n] => m = n
    <3>1. SUFFICES ASSUME NEW m \in 1..Len(Tail(items)), NEW n \in 1..Len(Tail(items)),
                          Tail(items)[m] = Tail(items)[n]
                   PROVE  m = n
      OBVIOUS
    <3>2. m + 1 = n + 1
      BY <1>1, <1>3, <3>1 DEF InTurn
    <3> QED
      BY <3>2
  <2> QED
    BY <2>1, <2>2 DEF InTurn
<1>9. \A j \in ToSet(Tail(items)) : states[j] # "running"
  BY <1>2, <1>4 DEF ToSet
<1> QED
  BY <1>1, <1>6, <1>7, <1>8, <1>9

\* The queues are as they should be when a new execution is queued.
LEMMA EnqueueQueues ==
    ASSUME QueuesInv, NEW i \in Executions, state[i] \in {"idle", "starting"},
           NEW awaits \in {"session", "handlers"}, Enqueue(i, awaits)
    PROVE  /\ present' \in QueueType /\ replaced' \subseteq QueueType
           /\ state' \in [Executions -> States]
           /\ Placed' /\ Held' /\ NoCellLeft'
<1>1. /\ present \in QueueType /\ replaced \subseteq QueueType /\ Queues \subseteq QueueType
      /\ state \in [Executions -> States] /\ state' = [state EXCEPT ![i] = "queued"]
  BY DEF QueuesInv, Types, Queues, Enqueue
<1>2. /\ state' \in [Executions -> States] /\ state'[i] = "queued"
      /\ \A j \in Executions : j # i => state'[j] = state[j]
  BY <1>1 DEF States
<1>3. \A q \in Queues : i \notin ToSet(q.items)
  BY DEF QueuesInv, Placed
<1>4. \A q \in Queues : \A j \in ToSet(q.items) : j \in Executions /\ state'[j] = state[j]
  BY <1>1, <1>2, <1>3, ItemsOf
<1>5. \A q \in Queues : InTurn(q.items, state')
  <2>1. SUFFICES ASSUME NEW q \in Queues PROVE InTurn(q.items, state')
    OBVIOUS
  <2>2. \A n \in 1..Len(q.items) : q.items[n] \in ToSet(q.items)
    BY <1>1, ItemsOf DEF ToSet
  <2>3. \A n \in 2..Len(q.items) : n \in 1..Len(q.items)
    BY <1>1, ItemsOf
  <2> QED
    BY <1>4, <2>2, <2>3 DEF QueuesInv, Placed, InTurn
<1>6. CASE present.items # <<>> /\ ~present.failed
  <2>1. /\ present' = [present EXCEPT !.items = Append(present.items, i)] /\ replaced' = replaced
    BY <1>6 DEF Enqueue
  <2>2. /\ present' \in QueueType /\ present'.failed = FALSE
        /\ present'.items = Append(present.items, i)
    <3>1. Append(present.items, i) \in Seq(Executions)
      BY <1>1, ItemsOf, AppendProperties
    <3> QED
      BY <1>1, <1>6, <2>1, <3>1 DEF QueueType
  <2>3. ToSet(present'.items) = ToSet(present.items) \cup {i}
    BY <1>1, <2>2, ItemsOf, AppendRange
  <2>4. InTurn(present'.items, state')
    <3>1. /\ present.items \in Seq(Executions) /\ i \notin ToSet(present.items)
          /\ \A j \in ToSet(present.items) : state'[j] = state[j]
      BY <1>1, <1>3, <1>4, ItemsOf DEF Queues
    <3>2. InTurn(present.items, state) /\ state'[i] # "running"
      BY <1>2 DEF QueuesInv, Placed, Queues
    <3>3. InTurn(Append(present.items, i), state')
      BY <3>1, <3>2, PushInTurn
    <3> QED
      BY <2>2, <3>3
  <2>5. present' \notin replaced
    BY <1>3, <2>3 DEF Queues
  <2>6. Queues' = replaced \cup {present'}
    BY <2>1 DEF Queues
  <2>7. Placed'
    <3>1. \A q \in Queues' : \A j \in ToSet(q.items) : state'[j] \notin {"idle", "starting"}
      BY <1>2, <1>4, <2>3, <2>6 DEF QueuesInv, Placed, Queues
    <3>2. \A p \in replaced : ToSet(p.items) \cap ToSet(present'.items) = {}
      BY <1>3, <2>3 DEF QueuesInv, Placed, Queues
    <3>3. \A p, q \in Queues' : ToSet(p.items) \cap ToSet(q.items) # {} => p = q
      BY <2>6, <3>2 DEF QueuesInv, Placed, Queues
    <3>4. \A q \in Queues' : InTurn(q.items, state')
      BY <1>5, <2>4, <2>6 DEF Queues
    <3>5. \A q \in replaced' : q.items # <<>>
      BY <2>1 DEF QueuesInv, Placed
    <3> QED
      BY <2>1, <2>5, <3>1, <3>3, <3>4, <3>5 DEF Placed
  <2>8. Held'
    <3>1. SUFFICES ASSUME NEW j \in Executions, state'[j] \in {"queued", "running"}
                   PROVE  \E q \in Queues' : j \in ToSet(q.items)
      BY DEF Held
    <3>2. CASE j = i
      BY <2>3, <2>6, <3>2
    <3>3. CASE j # i
      <4>1. PICK q \in Queues : j \in ToSet(q.items)
        BY <1>2, <3>1, <3>3 DEF QueuesInv, Held
      <4> QED
        BY <2>3, <2>6, <4>1 DEF Queues
    <3> QED
      BY <3>2, <3>3
  <2>9. NoCellLeft'
    BY <1>4, <2>1, <2>2, <2>6 DEF NoCellLeft, QueuesInv, Queues, Placed
  <2> QED
    BY <1>1, <1>2, <2>1, <2>2, <2>7, <2>8, <2>9
<1>7. CASE present.items = <<>> \/ present.failed
  <2>1. /\ present' = [items |-> <<i>>, failed |-> FALSE, awaits |-> awaits]
        /\ replaced' = Kept(replaced \cup {present})
    BY <1>7 DEF Enqueue
  <2>2. present' \in QueueType /\ present'.failed = FALSE /\ present'.items = <<i>>
    BY <2>1 DEF QueueType
  <2>3. ToSet(present'.items) = {i} /\ InTurn(present'.items, state')
    BY <2>2, ShortInTurn
  <2>4. /\ \A q \in replaced' : q \in Queues /\ q.items # <<>>
        /\ \A q \in Queues : q.items # <<>> => q \in replaced'
    BY <2>1 DEF Kept, Queues
  <2>5. present' \notin replaced'
    BY <1>3, <2>3, <2>4
  <2>6. Queues' = replaced' \cup {present'}
    BY DEF Queues
  <2>7. Placed'
    <3>1. \A q \in Queues' : \A j \in ToSet(q.items) : state'[j] \notin {"idle", "starting"}
      BY <1>2, <1>4, <2>3, <2>4, <2>6 DEF QueuesInv, Placed
    <3>2. \A p \in replaced' : ToSet(p.items) \cap ToSet(present'.items) = {}
      BY <1>3, <2>3, <2>4
    <3>3. \A p, q \in Queues' : ToSet(p.items) \cap ToSet(q.items) # {} => p = q
      BY <2>4, <2>6, <3>2 DEF QueuesInv, Placed
    <3>4. \A q \in Queues' : InTurn(q.items, state')
      BY <1>5, <2>3, <2>4, <2>6
    <3> QED
      BY <2>4, <2>5, <3>1, <3>3, <3>4 DEF Placed
  <2>8. Held'
    <3>1. SUFFICES ASSUME NEW j \in Executions, state'[j] \in {"queued", "running"}
                   PROVE  \E q \in Queues' : j \in ToSet(q.items)
      BY DEF Held
    <3>2. CASE j = i
      BY <2>3, <2>6, <3>2
    <3>3. CASE j # i
      <4>1. PICK q \in Queues : j \in ToSet(q.items)
        BY <1>2, <3>1, <3>3 DEF QueuesInv, Held
      <4>2. q.items # <<>>
        BY <4>1, ShortInTurn
      <4> QED
        BY <2>4, <2>6, <4>1, <4>2
    <3> QED
      BY <3>2, <3>3
  <2>9. NoCellLeft'
    <3>1. SUFFICES ASSUME NEW q \in Queues', q \in replaced' \/ q.failed, NEW c \in ToSet(q.items) \ Codes
                   PROVE  state'[c] # "queued"
      BY DEF NoCellLeft
    <3>2. q \in replaced'
      BY <2>2, <2>6, <3>1
    <3>3. q \in Queues /\ (q \in replaced \/ q.failed)
      <4>1. q \in Queues /\ q.items # <<>>
        BY <2>4, <3>2
      <4> QED
        BY <1>7, <4>1 DEF Queues
    <3>4. state[c] # "queued" /\ state'[c] = state[c]
      BY <1>4, <3>1, <3>3 DEF QueuesInv, NoCellLeft
    <3> QED
      BY <3>4
  <2> QED
    BY <1>1, <1>2, <2>2, <2>4, <2>7, <2>8, <2>9
<1> QED
  BY <1>6, <1>7

-----------------------------------------------------------------------------
(* Steps                                                                   *)

\* The queues do not change, and no execution begins.
LEMMA QueuesStay ==
    ASSUME QueuesInv, UNCHANGED <<present, replaced>>, Passes(state, state'),
           state' \in [Executions -> States],
           \A q \in Queues : InTurn(q.items, state')
    PROVE  /\ present' \in QueueType /\ replaced' \subseteq QueueType
           /\ Placed' /\ Held' /\ NoCellLeft'
<1>1. /\ present \in QueueType /\ replaced \subseteq QueueType /\ Queues \subseteq QueueType
      /\ Queues' = Queues
  BY DEF QueuesInv, Types, Queues
<1>2. \A q \in Queues : ToSet(q.items) \subseteq Executions
  BY <1>1, ItemsOf
<1>3. Placed'
  <2>1. \A q \in Queues' : \A i \in ToSet(q.items) : state'[i] \notin {"idle", "starting"}
    BY <1>1, <1>2 DEF Passes, QueuesInv, Placed
  <2> QED
    BY <1>1, <2>1 DEF QueuesInv, Placed
<1>4. Held'
  <2>1. SUFFICES ASSUME NEW i \in Executions, state'[i] \in {"queued", "running"}
                 PROVE  \E q \in Queues' : i \in ToSet(q.items)
    BY DEF Held
  <2>2. state[i] \in {"queued", "running"}
    BY <2>1 DEF Passes
  <2> QED
    BY <1>1, <2>2 DEF QueuesInv, Held
<1>5. NoCellLeft'
  <2>1. SUFFICES ASSUME NEW q \in Queues, q \in replaced \/ q.failed, NEW c \in ToSet(q.items) \ Codes
                 PROVE  state'[c] # "queued"
    BY <1>1 DEF NoCellLeft
  <2>2. c \in Executions /\ state[c] # "queued"
    BY <1>2, <2>1 DEF QueuesInv, NoCellLeft
  <2> QED
    BY <2>2 DEF Passes
<1> QED
  BY <1>1, <1>3, <1>4, <1>5

\* In turn when executions only end.
LEMMA EndsInTurn ==
    ASSUME NEW items, NEW states, NEW after, InTurn(items, states),
           \A n \in 2..Len(items) : after[items[n]] = "running" => states[items[n]] = "running"
    PROVE  InTurn(items, after)
  BY DEF InTurn

\* executeCell: the cell waits for the kernel.
LEMMA CellStarts ==
    ASSUME QueuesInv, NEW c \in Cells, ExecuteCell(c)
    PROVE  QueuesInv'
<1>1. /\ c \in Executions /\ state[c] = "idle" /\ state' = [state EXCEPT ![c] = "starting"]
      /\ state \in [Executions -> States] /\ UNCHANGED <<present, replaced>>
  BY DEF ExecuteCell, Executions, QueuesInv, Types
<1>2. /\ state' \in [Executions -> States] /\ state'[c] = "starting"
      /\ \A i \in Executions : i # c => state'[i] = state[i]
  BY <1>1 DEF States
<1>3. Passes(state, state')
  BY <1>1, <1>2 DEF Passes
<1>4. \A q \in Queues : InTurn(q.items, state')
  <2>1. SUFFICES ASSUME NEW q \in Queues PROVE InTurn(q.items, state')
    OBVIOUS
  <2>2. q \in QueueType
    BY DEF QueuesInv, Types, Queues
  <2>3. \A n \in 2..Len(q.items) : q.items[n] \in Executions
    BY <2>2, ItemsOf DEF ToSet
  <2>4. \A n \in 2..Len(q.items) : state'[q.items[n]] = "running" => state[q.items[n]] = "running"
    BY <1>2, <2>3
  <2> QED
    BY <2>4, EndsInTurn DEF QueuesInv, Placed
<1>5. Types'
  <2>1. kernel' \in {"none", "starting", "up", "restarting", "restarted"}
    BY DEF ExecuteCell, Start, QueuesInv, Types
  <2> QED
    BY <1>1, <1>2, <2>1 DEF ExecuteCell, QueuesInv, Types
<1> QED
  BY <1>1, <1>2, <1>3, <1>4, <1>5, QueuesStay DEF QueuesInv

\* A new execution is queued.
LEMMA Queued ==
    ASSUME QueuesInv, NEW i \in Executions,
           \/ i \in Cells /\ QueueCell(i)
           \/ i \in Resumed /\ ResumeCellExecution(i)
           \/ i \in Codes /\ ExecuteCode(i)
    PROVE  QueuesInv'
<1>1. /\ state[i] \in {"idle", "starting"}
      /\ \E awaits \in {"session", "handlers"} : Enqueue(i, awaits)
      /\ kernel' \in {kernel, "starting"} /\ UNCHANGED <<restarted, handling>>
      /\ handlers' \in {handlers, handlers \cup {i}} /\ (handlers' # handlers => i \in Codes)
  <2>1. CASE i \in Cells /\ QueueCell(i)
    BY <2>1 DEF QueueCell, KernelStarted
  <2>2. CASE i \in Resumed /\ ResumeCellExecution(i)
    BY <2>2 DEF ResumeCellExecution, Start
  <2>3. CASE i \in Codes /\ ExecuteCode(i)
    <3>1. Enqueue(i, "session") \/ Enqueue(i, "handlers")
      BY <2>3 DEF ExecuteCode
    <3> QED
      BY <2>3, <3>1 DEF ExecuteCode
  <2> QED
    BY <2>1, <2>2, <2>3
<1>2. /\ present' \in QueueType /\ replaced' \subseteq QueueType
      /\ state' \in [Executions -> States]
      /\ Placed' /\ Held' /\ NoCellLeft'
  BY <1>1, EnqueueQueues
<1>3. Types'
  BY <1>1, <1>2 DEF QueuesInv, Types
<1> QED
  BY <1>2, <1>3 DEF QueuesInv

\* The loop of a queue begins.
LEMMA Begins ==
    ASSUME QueuesInv, NEW q \in Queues, LoopBegins(q)
    PROVE  QueuesInv'
<1>1. PICK r : r = [q EXCEPT !.awaits = "nothing"] /\ QueueBecomes(q, r)
  BY DEF LoopBegins
<1>2. q \in QueueType /\ state \in [Executions -> States] /\ state' = state
  BY DEF QueuesInv, Types, Queues, LoopBegins
<1>3. r \in QueueType /\ r.items = q.items /\ r.failed = q.failed
  BY <1>1, <1>2 DEF QueueType
<1>4. Shrinks(q, r, state')
  BY <1>2, <1>3 DEF Shrinks, QueuesInv, Placed, NoCellLeft
<1>5. Passes(state, state') /\ \A p \in Queues \ {q} : InTurn(p.items, state')
  BY <1>2 DEF Passes, QueuesInv, Placed
<1>6. /\ present' \in QueueType /\ replaced' \subseteq QueueType
      /\ Placed' /\ Held' /\ NoCellLeft'
  BY <1>1, <1>2, <1>4, <1>5, QueueShrinks
<1> QED
  BY <1>6 DEF LoopBegins, QueuesInv, Types

\* The first of a queue is executed: it is first in no other, and once in its own.
LEMMA HeadRuns ==
    ASSUME QueuesInv, NEW q \in Queues, ExecuteHead(q)
    PROVE  QueuesInv'
<1>1. /\ q \in QueueType /\ q.items # <<>> /\ state[Head(q.items)] = "queued"
      /\ state' = [state EXCEPT ![Head(q.items)] = "running"]
      /\ state \in [Executions -> States] /\ UNCHANGED <<present, replaced>>
  BY DEF ExecuteHead, AtItem, QueuesInv, Types, Queues
<1>2. PICK h : h = Head(q.items)
  OBVIOUS
<1>3. h \in ToSet(q.items) /\ h \in Executions /\ h = q.items[1] /\ 1 \in 1..Len(q.items)
  <2>1. Len(q.items) # 0 /\ Len(q.items) \in Nat /\ h = q.items[1]
    BY <1>1, <1>2, ItemsOf, HeadTailProperties, EmptySeq
  <2> QED
    BY <1>1, <1>2, <2>1, ItemsOf
<1>4. /\ state' \in [Executions -> States] /\ state'[h] = "running"
      /\ \A i \in Executions : i # h => state'[i] = state[i]
  BY <1>1, <1>2, <1>3 DEF States
<1>5. Passes(state, state')
  BY <1>1, <1>2, <1>4 DEF Passes
<1>6. \A p \in Queues : InTurn(p.items, state')
  <2>1. SUFFICES ASSUME NEW p \in Queues PROVE InTurn(p.items, state')
    OBVIOUS
  <2>2. /\ p \in QueueType /\ InTurn(p.items, state) /\ InTurn(q.items, state)
    BY DEF QueuesInv, Types, Queues, Placed
  <2>3. \A n \in 2..Len(p.items) : n \in 1..Len(p.items) /\ p.items[n] \in ToSet(p.items)
                                  /\ p.items[n] \in Executions
    BY <2>2, ItemsOf DEF ToSet
  <2>4. ASSUME NEW n \in 2..Len(p.items) PROVE p.items[n] # h
    <3>1. CASE p = q
      BY <1>3, <2>2, <2>3, <2>4, <3>1 DEF InTurn
    <3>2. CASE p # q
      BY <1>3, <2>3, <2>4, <3>2 DEF QueuesInv, Placed
    <3> QED
      BY <3>1, <3>2
  <2>5. \A n \in 2..Len(p.items) : state'[p.items[n]] = state[p.items[n]]
    BY <1>4, <2>3, <2>4
  <2> QED
    BY <2>2, <2>5, EndsInTurn
<1>7. /\ present' \in QueueType /\ replaced' \subseteq QueueType
      /\ Placed' /\ Held' /\ NoCellLeft'
  BY <1>1, <1>4, <1>5, <1>6, QueuesStay
<1> QED
  BY <1>4, <1>7 DEF ExecuteHead, QueuesInv, Types

\* The kernel has executed an item.
LEMMA Ends ==
    ASSUME QueuesInv, NEW i \in Executions, Executed(i)
    PROVE  QueuesInv'
<1>1. PICK outcome \in {"done", "failed"} : state' = [state EXCEPT ![i] = outcome]
  BY DEF Executed
<1>2. /\ state \in [Executions -> States] /\ state[i] = "running"
      /\ state' \in [Executions -> States] /\ state'[i] = outcome
      /\ \A j \in Executions : j # i => state'[j] = state[j]
  BY <1>1 DEF Executed, QueuesInv, Types, States
<1>3. Passes(state, state')
  BY <1>2 DEF Passes
<1>4. \A q \in Queues : InTurn(q.items, state')
  <2>1. SUFFICES ASSUME NEW q \in Queues PROVE InTurn(q.items, state')
    OBVIOUS
  <2>2. \A n \in 2..Len(q.items) : q.items[n] \in Executions
    BY ItemsOf DEF ToSet, QueuesInv, Types, Queues
  <2>3. \A n \in 2..Len(q.items) : state'[q.items[n]] = "running" => state[q.items[n]] = "running"
    BY <1>2, <2>2
  <2> QED
    BY <2>3, EndsInTurn DEF QueuesInv, Placed
<1>5. UNCHANGED <<kernel, restarted, handling, handlers, present, replaced>>
  BY DEF Executed
<1> QED
  BY <1>2, <1>3, <1>4, <1>5, QueuesStay DEF QueuesInv, Types

\* The loop goes on with the next item: what it leaves out was not executed, and is cancelled.
LEMMA GoesOn ==
    ASSUME QueuesInv, NEW q \in Queues, NextItem(q)
    PROVE  QueuesInv'
<1> DEFINE rest == Tail(q.items)
           stops == Fails(q) /\ ToSet(rest) \cap Codes = {}
           S == IF Fails(q) THEN ToSet(rest) \ Codes ELSE {}
<1>1. PICK r, h : /\ r = [q EXCEPT !.items = IF stops THEN <<>> ELSE rest, !.failed = Fails(q)]
                  /\ QueueBecomes(q, r)
                  /\ h = Head(q.items) /\ state' = [Cancelled(S) EXCEPT ![h] = "done"]
  BY DEF NextItem
<1>2. /\ q \in QueueType /\ q.items # <<>> /\ state[h] \in {"done", "failed"}
      /\ state \in [Executions -> States] /\ InTurn(q.items, state)
      /\ q.items \in Seq(Executions) /\ ToSet(q.items) \subseteq Executions
  BY <1>1, ItemsOf DEF NextItem, AtItem, QueuesInv, Types, Queues, Placed
<1>3. h \in ToSet(q.items) /\ h \in Executions
  BY <1>1, <1>2, HeadInRange
<1>4. /\ state' \in [Executions -> States] /\ state'[h] = "done"
      /\ \A i \in Executions : i # h =>
            state'[i] = IF i \in S /\ state[i] = "queued" THEN "done" ELSE state[i]
  <2>1. Cancelled(S) \in [Executions -> States]
    BY <1>2 DEF Cancelled, States
  <2> HIDE DEF S
  <2> QED
    BY <1>1, <1>3, <2>1 DEF Cancelled, States
<1>5. Passes(state, state')
  <2> HIDE DEF S
  <2> QED
    BY <1>2, <1>4 DEF Passes
<1>6. \A i \in Executions : state'[i] = "running" => state[i] = "running"
  <2> HIDE DEF S
  <2> QED
    BY <1>2, <1>4
<1>7. /\ rest \in Seq(Executions) /\ ToSet(rest) = ToSet(q.items) \ {h}
      /\ \A j \in ToSet(rest) : state[j] # "running"
      /\ InTurn(rest, state')
  <2>1. \A j \in ToSet(q.items) : state'[j] = "running" => state[j] = "running"
    BY <1>2, <1>6
  <2>2. /\ q.items \in Seq(Executions) /\ q.items # <<>> /\ InTurn(q.items, state)
        /\ h = Head(q.items)
    BY <1>1, <1>2
  <2> QED
    BY <2>1, <2>2, TailInTurn
<1>8. Shrinks(q, r, state')
  <2>0. /\ r.items = IF stops THEN <<>> ELSE rest
        /\ r.failed = Fails(q) /\ Fails(q) \in BOOLEAN
    <3> HIDE DEF stops, rest
    <3>1. Fails(q) \in BOOLEAN
      BY <1>2 DEF Fails, QueueType
    <3> QED
      BY <1>1, <1>2, <3>1 DEF QueueType
  <2>1. r \in QueueType
    <3>1. (IF stops THEN <<>> ELSE rest) \in Seq(Executions)
      <4> HIDE DEF stops
      <4> QED
        BY <1>7
    <3> HIDE DEF stops, rest
    <3> QED
      BY <1>1, <1>2, <2>0, <3>1 DEF QueueType
  <2>2. ToSet(r.items) \subseteq ToSet(rest) /\ InTurn(r.items, state')
    <3> HIDE DEF stops
    <3>1. CASE stops
      BY <2>0, <3>1, ShortInTurn
    <3>2. CASE ~stops
      BY <1>7, <2>0, <3>2
    <3> QED
      BY <3>1, <3>2
  <2>3. ASSUME q \in replaced \/ r.failed, NEW c \in ToSet(r.items) \ Codes PROVE state'[c] # "queued"
    <3>1. c \in ToSet(rest) /\ c \in Executions /\ c # h /\ c \in ToSet(q.items)
      BY <1>2, <1>7, <2>2, <2>3
    <3>2. CASE Fails(q)
      <4>1. c \in S
        BY <2>3, <3>1, <3>2
      <4> HIDE DEF S
      <4> QED
        BY <1>4, <3>1, <4>1
    <3>3. CASE q \in replaced
      <4>1. state[c] # "queued"
        BY <2>3, <3>1, <3>3 DEF QueuesInv, NoCellLeft
      <4> QED
        BY <1>5, <3>1, <4>1 DEF Passes
    <3> QED
      BY <2>0, <2>3, <3>2, <3>3
  <2>4. ASSUME NEW i \in ToSet(q.items) \ ToSet(r.items) PROVE state'[i] \notin {"queued", "running"}
    <3>1. CASE i = h
      BY <1>4, <3>1
    <3>2. CASE i # h
      <4>1. i \in ToSet(rest) /\ i \in Executions
        BY <1>2, <1>7, <2>4, <3>2
      <4>2. stops
        BY <2>0, <2>4, <4>1
      <4>3. i \in S
        BY <4>1, <4>2
      <4>4. state'[i] # "queued"
        <5> HIDE DEF S, rest
        <5> QED
          BY <1>4, <3>2, <4>1, <4>3
      <4>5. state'[i] # "running"
        BY <1>6, <1>7, <4>1
      <4> QED
        BY <4>4, <4>5
    <3> QED
      BY <3>1, <3>2
  <2> QED
    BY <1>7, <2>1, <2>2, <2>3, <2>4 DEF Shrinks
<1>9. \A p \in Queues \ {q} : InTurn(p.items, state')
  <2>1. SUFFICES ASSUME NEW p \in Queues PROVE InTurn(p.items, state')
    OBVIOUS
  <2>2. \A n \in 2..Len(p.items) : p.items[n] \in Executions
    BY ItemsOf DEF ToSet, QueuesInv, Types, Queues
  <2>3. \A n \in 2..Len(p.items) : state'[p.items[n]] = "running" => state[p.items[n]] = "running"
    BY <1>6, <2>2
  <2> QED
    BY <2>3, EndsInTurn DEF QueuesInv, Placed
<1>10. /\ present' \in QueueType /\ replaced' \subseteq QueueType
       /\ Placed' /\ Held' /\ NoCellLeft'
  BY <1>1, <1>4, <1>5, <1>8, <1>9, QueueShrinks
<1> QED
  BY <1>4, <1>10 DEF NextItem, QueuesInv, Types

\* cancel() of the queue in use, and what it does to its items.
LEMMA CancelShrinks ==
    ASSUME QueuesInv, NEW after, after \in [Executions -> States],
           \A i \in Executions : after[i] = "running" => state[i] = "running",
           \A i \in ToSet(present.items) : after[i] # "queued"
    PROVE  Shrinks(present, Cancel, after)
<1>1. /\ present \in QueueType /\ InTurn(present.items, state)
      /\ present.items \in Seq(Executions) /\ ToSet(present.items) \subseteq Executions
      /\ DOMAIN present.items = 1..Len(present.items) /\ Len(present.items) \in Nat
      /\ present.items # <<>> => Head(present.items) \in ToSet(present.items)
  BY ItemsOf DEF QueuesInv, Types, Queues, Placed
<1>2. PICK left : left = IF present.items # <<>> /\ state[Head(present.items)] # "queued"
                         THEN <<Head(present.items)>> ELSE <<>>
  OBVIOUS
<1>3. /\ left \in Seq(Executions) /\ ToSet(left) \subseteq ToSet(present.items)
      /\ InTurn(left, after)
  <2>1. CASE present.items # <<>> /\ state[Head(present.items)] # "queued"
    <3>1. PICK h \in Executions : h = Head(present.items) /\ h \in ToSet(present.items)
      BY <1>1, <2>1
    <3>2. left = <<h>>
      BY <1>2, <2>1, <3>1
    <3> QED
      BY <3>1, <3>2, ShortInTurn
  <2>2. CASE ~(present.items # <<>> /\ state[Head(present.items)] # "queued")
    BY <1>2, <2>2, ShortInTurn
  <2> QED
    BY <2>1, <2>2
<1>4. Cancel = [present EXCEPT !.failed = TRUE, !.items = left]
  BY <1>2 DEF Cancel
<1>5. Cancel \in QueueType /\ Cancel.items = left
  BY <1>1, <1>3, <1>4 DEF QueueType
<1>6. ASSUME NEW i \in ToSet(present.items) \ ToSet(left) PROVE after[i] \notin {"queued", "running"}
  <2>1. PICK n \in 1..Len(present.items) : i = present.items[n]
    BY <1>1, <1>6 DEF ToSet
  <2>2. CASE n = 1
    <3>1. present.items # <<>> /\ i = Head(present.items)
      BY <1>1, <2>1, <2>2, HeadTailProperties, EmptySeq
    <3>2. state[i] = "queued"
      <4>1. CASE state[i] # "queued"
        <5>1. left = <<i>>
          BY <1>2, <3>1, <4>1
        <5> QED
          BY <1>6, <5>1, ShortInTurn
      <4> QED
        BY <4>1
    <3> QED
      BY <1>1, <1>6, <3>2
  <2>3. CASE n # 1
    <3>1. n \in 2..Len(present.items)
      BY <1>1, <2>1, <2>3
    <3>2. state[i] # "running"
      BY <1>1, <2>1, <3>1 DEF InTurn
    <3> QED
      BY <1>1, <1>6, <3>2
  <2> QED
    BY <2>2, <2>3
<1> QED
  BY <1>3, <1>5, <1>6 DEF Shrinks

\* The queue in use is cancelled by an interrupt or a restart.
LEMMA IsCancelled ==
    ASSUME QueuesInv, present' = Cancel, replaced' = replaced,
           state' \in [Executions -> States], Passes(state, state'),
           \A i \in Executions : state'[i] = "running" => state[i] = "running",
           \A i \in ToSet(present.items) : state'[i] # "queued"
    PROVE  /\ present' \in QueueType /\ replaced' \subseteq QueueType
           /\ Placed' /\ Held' /\ NoCellLeft'
<1>1. QueueBecomes(present, Cancel) /\ present \in Queues
  BY DEF QueueBecomes, Queues
<1>2. Shrinks(present, Cancel, state')
  BY CancelShrinks
<1>3. \A p \in Queues \ {present} : InTurn(p.items, state')
  <2>1. SUFFICES ASSUME NEW p \in Queues PROVE InTurn(p.items, state')
    OBVIOUS
  <2>2. \A n \in 2..Len(p.items) : p.items[n] \in Executions
    BY ItemsOf DEF ToSet, QueuesInv, Types, Queues
  <2>3. \A n \in 2..Len(p.items) : state'[p.items[n]] = "running" => state[p.items[n]] = "running"
    BY <2>2
  <2> QED
    BY <2>3, EndsInTurn DEF QueuesInv, Placed
<1> QED
  BY <1>1, <1>2, <1>3, QueueShrinks

LEMMA Interrupted ==
    ASSUME QueuesInv, Interrupt
    PROVE  QueuesInv'
<1>1. state \in [Executions -> States] /\ ToSet(present.items) \subseteq Executions
  BY ItemsOf DEF QueuesInv, Types
<1>2. /\ state' \in [Executions -> States]
      /\ \A i \in Executions : state'[i] = IF i \in ToSet(present.items) /\ state[i] = "queued"
                                         THEN "done" ELSE state[i]
  BY <1>1 DEF Interrupt, Cancelled, States
<1>3. Passes(state, state')
  BY <1>2 DEF Passes
<1>4. \A i \in Executions : state'[i] = "running" => state[i] = "running"
  BY <1>2
<1>5. \A i \in ToSet(present.items) : state'[i] # "queued"
  BY <1>1, <1>2
<1>6. present' = Cancel /\ UNCHANGED <<kernel, restarted, handling, handlers, replaced>>
  BY DEF Interrupt
<1>7. /\ present' \in QueueType /\ replaced' \subseteq QueueType
      /\ Placed' /\ Held' /\ NoCellLeft'
  BY <1>2, <1>3, <1>4, <1>5, <1>6, IsCancelled
<1> QED
  BY <1>2, <1>6, <1>7 DEF QueuesInv, Types

LEMMA IsRestarted ==
    ASSUME QueuesInv, Restart
    PROVE  QueuesInv'
<1>1. state \in [Executions -> States] /\ ToSet(present.items) \subseteq Executions
  BY ItemsOf DEF QueuesInv, Types
<1> DEFINE items == ToSet(present.items)
           After(i) == CASE state[i] = "running" /\ i \notin items \cup Codes -> "failed"
                         [] state[i] = "running" \/ (state[i] = "queued" /\ i \in items) -> "done"
                         [] OTHER -> state[i]
<1>2. ASSUME NEW i \in Executions
      PROVE  /\ After(i) # "running" /\ After(i) \in States
             /\ After(i) \in {state[i], "failed", "done"}
             /\ i \in items => After(i) # "queued"
  BY <1>1 DEF States
<1>3. state' = [i \in Executions |-> After(i)]
  BY DEF Restart
<1> HIDE DEF After, items
<1>4. /\ state' \in [Executions -> States]
      /\ \A i \in Executions : state'[i] # "running" /\ state'[i] \in {state[i], "failed", "done"}
      /\ \A i \in items : i \in Executions => state'[i] # "queued"
  BY <1>2, <1>3
<1>5. Passes(state, state')
  <2>1. SUFFICES ASSUME NEW i \in Executions
                 PROVE  /\ state'[i] = "queued" => state[i] = "queued"
                        /\ state'[i] = "running" => state[i] \in {"queued", "running"}
                        /\ state[i] \notin {"idle", "starting"} => state'[i] \notin {"idle", "starting"}
    BY DEF Passes
  <2>2. state'[i] # "running" /\ state'[i] \in {state[i], "failed", "done"}
    BY <1>4
  <2> QED
    BY <2>2
<1>6. /\ present' = Cancel /\ kernel' = "restarting" /\ restarted' = TRUE
      /\ UNCHANGED <<handling, handlers, replaced>>
  BY DEF Restart
<1>7. /\ present' \in QueueType /\ replaced' \subseteq QueueType
      /\ Placed' /\ Held' /\ NoCellLeft'
  <2>1. \A i \in ToSet(present.items) : state'[i] # "queued"
    BY <1>1, <1>4 DEF items
  <2>2. \A i \in Executions : state'[i] = "running" => state[i] = "running"
    BY <1>4
  <2> QED
    BY <1>4, <1>5, <1>6, <2>1, <2>2, IsCancelled
<1> QED
  BY <1>4, <1>6, <1>7 DEF QueuesInv, Types

\* The kernel and its handlers go on, and no queue is touched.
LEMMA KernelSteps ==
    ASSUME QueuesInv, SessionCreated \/ HandlersEnd \/ SessionRestarted \/ EventFired
    PROVE  QueuesInv'
<1>1. /\ UNCHANGED <<present, replaced, state>>
      /\ kernel' \in {kernel, "up", "restarted"} /\ restarted' = restarted
      /\ handling' \in BOOLEAN /\ handlers' \in {handlers, {}}
  BY DEF SessionCreated, HandlersEnd, SessionRestarted, EventFired, QueuesInv, Types
<1>2. Types'
  BY <1>1 DEF QueuesInv, Types
<1>3. Placed' /\ Held' /\ NoCellLeft'
  BY <1>1 DEF QueuesInv, Placed, Held, NoCellLeft, Queues
<1> QED
  BY <1>2, <1>3 DEF QueuesInv

LEMMA QueuesInvInit == Init => QueuesInv
<1> SUFFICES ASSUME Init PROVE QueuesInv
  OBVIOUS
<1>1. /\ present \in QueueType /\ present.items = <<>> /\ present.failed = FALSE /\ replaced = {}
      /\ Queues = {present} /\ state = [i \in Executions |-> "idle"]
  BY DEF Init, QueueType, Queues
<1>2. Types
  BY <1>1 DEF Init, Types, States
<1>3. ToSet(present.items) = {} /\ InTurn(present.items, state)
  BY <1>1, ShortInTurn
<1> QED
  BY <1>1, <1>2, <1>3 DEF QueuesInv, Placed, Held, NoCellLeft

LEMMA QueuesInvNext == QueuesInv /\ [Next]_vars => QueuesInv'
<1> SUFFICES ASSUME QueuesInv, [Next]_vars PROVE QueuesInv'
  OBVIOUS
<1>1. ASSUME NEW c \in Cells, ExecuteCell(c) \/ QueueCell(c) PROVE QueuesInv'
  BY <1>1, CellStarts, Queued DEF Executions
<1>2. ASSUME NEW c \in Resumed, ResumeCellExecution(c) PROVE QueuesInv'
  BY <1>2, Queued DEF Executions
<1>3. ASSUME NEW x \in Codes, ExecuteCode(x) PROVE QueuesInv'
  BY <1>3, Queued DEF Executions
<1>4. ASSUME NEW q \in Queues, LoopBegins(q) \/ ExecuteHead(q) \/ NextItem(q) PROVE QueuesInv'
  BY <1>4, Begins, HeadRuns, GoesOn
<1>5. ASSUME NEW i \in Executions, Executed(i) PROVE QueuesInv'
  BY <1>5, Ends
<1>6. CASE SessionCreated \/ HandlersEnd \/ SessionRestarted \/ EventFired
  BY <1>6, KernelSteps
<1>7. CASE Interrupt \/ Restart
  BY <1>7, Interrupted, IsRestarted
<1>8. CASE UNCHANGED vars
  <2>1. UNCHANGED <<kernel, restarted, handling, handlers, present, replaced, state>>
    BY <1>8 DEF vars
  <2> QED
    BY <2>1 DEF QueuesInv, Types, Placed, Held, NoCellLeft, Queues
<1> QED
  BY <1>1, <1>2, <1>3, <1>4, <1>5, <1>6, <1>7, <1>8 DEF Next

-----------------------------------------------------------------------------
(* Theorems *)

\* Every execution that is queued or runs is in one queue, whatever fails, is cancelled or is
\* replaced meanwhile (getOrCreateCellExecutionQueue).
THEOREM EachInOneQueue == Init /\ [][Next]_vars => []TypeOK
<1>1. QueuesInv => TypeOK
  <2>1. SUFFICES ASSUME QueuesInv, NEW i \in Executions, state[i] \in {"queued", "running"}
                 PROVE  \E q \in Queues : \A p \in Queues : i \in ToSet(p.items) <=> p = q
    BY DEF TypeOK, QueuesInv, Types
  <2>2. PICK q \in Queues : i \in ToSet(q.items)
    BY <2>1 DEF QueuesInv, Held
  <2>3. \A p \in Queues : i \in ToSet(p.items) => p = q
    BY <2>1, <2>2 DEF QueuesInv, Placed
  <2> QED
    BY <2>2, <2>3
<1> QED
  BY <1>1, QueuesInvInit, QueuesInvNext, PTL

\* A queue that was replaced starts no cell any more (cancelQueuedCells, onWillInterrupt).
THEOREM ReplacedIsDone == Init /\ [][Next]_vars => ReplacedStartsNoCell
<1>1. QueuesInv /\ [Next]_vars =>
        [\A q \in replaced : \A c \in ToSet(q.items) \ Codes :
            state[c] = "queued" => state'[c] # "running"]_vars
  BY DEF QueuesInv, NoCellLeft, Queues
<1> QED
  BY <1>1, QueuesInvInit, QueuesInvNext, PTL DEF ReplacedStartsNoCell

\* A cell that waits for the kernel goes on waiting until it is queued.
LEMMA CellWaits ==
    ASSUME Cells \cap (Resumed \cup Codes) = {}, QueuesInv, [Next]_vars,
           NEW c \in Cells, state[c] \in {"idle", "starting"}, ~QueueCell(c)
    PROVE  state'[c] \in {"idle", "starting"}
<1>1. c \in Executions /\ state \in [Executions -> States]
  BY DEF Executions, QueuesInv, Types
<1>2. ASSUME NEW d \in Cells, ExecuteCell(d) PROVE state'[c] \in {"idle", "starting"}
  BY <1>1, <1>2 DEF ExecuteCell
<1>3. ASSUME NEW d \in Cells, QueueCell(d) PROVE state'[c] \in {"idle", "starting"}
  BY <1>1, <1>3 DEF QueueCell, Enqueue
<1>4. ASSUME NEW d \in Resumed, ResumeCellExecution(d) PROVE state'[c] \in {"idle", "starting"}
  BY <1>1, <1>4 DEF ResumeCellExecution, Enqueue
<1>5. ASSUME NEW x \in Codes, ExecuteCode(x) PROVE state'[c] \in {"idle", "starting"}
  BY <1>1, <1>5 DEF ExecuteCode, Enqueue
<1>6. ASSUME NEW q \in Queues, LoopBegins(q) PROVE state'[c] \in {"idle", "starting"}
  BY <1>6 DEF LoopBegins
<1>7. ASSUME NEW q \in Queues, ExecuteHead(q) PROVE state'[c] \in {"idle", "starting"}
  <2>1. PICK h : state[h] = "queued" /\ state' = [state EXCEPT ![h] = "running"]
    BY <1>7 DEF ExecuteHead, AtItem
  <2> QED
    BY <1>1, <2>1
<1>8. ASSUME NEW q \in Queues, NextItem(q) PROVE state'[c] \in {"idle", "starting"}
  <2> DEFINE S == IF Fails(q) THEN ToSet(Tail(q.items)) \ Codes ELSE {}
             h == Head(q.items)
  <2>1. state[h] \in {"done", "failed"} /\ state' = [Cancelled(S) EXCEPT ![h] = "done"]
    BY <1>8 DEF NextItem, AtItem
  <2> HIDE DEF S, h
  <2>2. c # h
    BY <2>1
  <2>3. Cancelled(S)[c] = state[c] /\ c \in DOMAIN Cancelled(S)
    BY <1>1 DEF Cancelled
  <2>4. state'[c] = Cancelled(S)[c]
    BY <2>1, <2>2, <2>3
  <2> QED
    BY <2>3, <2>4
<1>9. ASSUME NEW i \in Executions, Executed(i) PROVE state'[c] \in {"idle", "starting"}
  <2>1. PICK outcome : state' = [state EXCEPT ![i] = outcome]
    BY <1>9 DEF Executed
  <2> QED
    BY <1>1, <1>9, <2>1 DEF Executed
<1>10. CASE SessionCreated \/ HandlersEnd \/ SessionRestarted \/ EventFired \/ UNCHANGED vars
  BY <1>10 DEF SessionCreated, HandlersEnd, SessionRestarted, EventFired, vars
<1>11. CASE Interrupt
  BY <1>1, <1>11 DEF Interrupt, Cancelled
<1>12. CASE Restart
  BY <1>1, <1>12 DEF Restart
<1> QED
  BY <1>2, <1>3, <1>4, <1>5, <1>6, <1>7, <1>8, <1>9, <1>10, <1>11, <1>12 DEF Next

LEMMA CellsWaitNext ==
    ASSUME Cells \cap (Resumed \cup Codes) = {}, QueuesInv, CellsWait, [Next]_vars
    PROVE  CellsWait'
<1>0. \/ UNCHANGED <<kernel, restarted, handling>>
      \/ kernel = "none" /\ kernel' = "starting" /\ UNCHANGED <<restarted, handling>>
      \/ kernel = "starting" /\ kernel' = "up" /\ restarted' = restarted
      \/ UNCHANGED <<kernel, restarted>> /\ handling' = FALSE
      \/ kernel' = "restarting" /\ restarted' = TRUE
      \/ kernel = "restarting" /\ kernel' = "restarted" /\ UNCHANGED <<restarted, handling>>
      \/ kernel = "restarted" /\ kernel' = "up" /\ restarted' = restarted
  <2>1. ASSUME NEW c \in Cells, ExecuteCell(c)
        PROVE  \/ UNCHANGED <<kernel, restarted, handling>>
               \/ kernel = "none" /\ kernel' = "starting" /\ UNCHANGED <<restarted, handling>>
    BY <2>1 DEF ExecuteCell, Start
  <2>2. ASSUME NEW c \in Resumed, ResumeCellExecution(c)
        PROVE  \/ UNCHANGED <<kernel, restarted, handling>>
               \/ kernel = "none" /\ kernel' = "starting" /\ UNCHANGED <<restarted, handling>>
    BY <2>2 DEF ResumeCellExecution, Start
  <2>3. ASSUME \/ \E c \in Cells : QueueCell(c)
               \/ \E x \in Codes : ExecuteCode(x)
               \/ \E q \in Queues : LoopBegins(q) \/ ExecuteHead(q) \/ NextItem(q)
               \/ \E i \in Executions : Executed(i)
               \/ Interrupt \/ UNCHANGED vars
        PROVE  UNCHANGED <<kernel, restarted, handling>>
    BY <2>3 DEF QueueCell, ExecuteCode, LoopBegins, ExecuteHead, NextItem, Executed, Interrupt, vars
  <2>4. CASE SessionCreated
    BY <2>4 DEF SessionCreated
  <2>5. CASE HandlersEnd
    BY <2>5 DEF HandlersEnd
  <2>6. CASE Restart
    BY <2>6 DEF Restart
  <2>7. CASE SessionRestarted
    BY <2>7 DEF SessionRestarted
  <2>8. CASE EventFired
    BY <2>8 DEF EventFired
  <2> QED
    BY <2>1, <2>2, <2>3, <2>4, <2>5, <2>6, <2>7, <2>8 DEF Next
<1>1. kernel' \in {"restarting", "restarted"} => restarted'
  BY <1>0 DEF CellsWait
<1>2. ASSUME kernel' \in {"none", "starting"} \/ (handling' /\ ~restarted')
      PROVE  kernel \in {"none", "starting"} \/ (handling /\ ~restarted)
  BY <1>0, <1>2 DEF CellsWait
<1>3. ASSUME kernel \in {"none", "starting"} \/ (handling /\ ~restarted), NEW c \in Cells
      PROVE  ~QueueCell(c)
  BY <1>3 DEF QueueCell, KernelStarted
<1> QED
  BY <1>1, <1>2, <1>3, CellWaits DEF CellsWait

\* The user's cells start after the handlers of the kernel's first start have ended
\* (executeCell awaits kernel.start()).  No cell is resumed as well.
THEOREM HandlersComeFirst ==
    ASSUME Cells \cap (Resumed \cup Codes) = {}
    PROVE  Init /\ [][Next]_vars => HandlersFirst
<1>1. Init => CellsWait
  BY DEF Init, CellsWait, Executions
<1>2. QueuesInv /\ CellsWait /\ [Next]_vars => CellsWait'
  BY CellsWaitNext
<1>3. QueuesInv /\ CellsWait /\ [Next]_vars =>
        [\A c \in Cells : state[c] # "running" /\ state'[c] = "running" => restarted \/ ~handling]_vars
  <2>1. SUFFICES ASSUME QueuesInv, CellsWait, [Next]_vars, NEW c \in Cells, state'[c] = "running",
                        ~restarted, handling
                 PROVE  FALSE
    OBVIOUS
  <2>2. state[c] \in {"idle", "starting"} /\ ~QueueCell(c)
    BY <2>1 DEF CellsWait, QueueCell, KernelStarted
  <2> QED
    BY <2>1, <2>2, CellWaits
<1> QED
  BY <1>1, <1>2, <1>3, QueuesInvInit, QueuesInvNext, PTL DEF HandlersFirst

=============================================================================

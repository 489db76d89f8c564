------------------------- MODULE CellOutputs_proofs -------------------------
(***************************************************************************)
(* Theorems about CellOutputs, for every set of cells, executions and      *)
(* messages.                                                               *)
(***************************************************************************)
EXTENDS CellOutputs, SequenceLemmas, TLAPS

-----------------------------------------------------------------------------
(* What edits do one after the other *)

\* The states a sequence of edits goes through.
States(f, state, edits) ==
    f = [k \in 0..Len(edits) |-> IF k = 0 THEN state ELSE Apply(f[k - 1], edits[k])]

\* The same for the first n edits.
StatesUpTo(f, state, edits, n) ==
    f = [k \in 0..n |-> IF k = 0 THEN state ELSE Apply(f[k - 1], edits[k])]

LEMMA StatesExist ==
    ASSUME NEW state, NEW edits, NEW n \in Nat
    PROVE  \E f : StatesUpTo(f, state, edits, n)
<1> DEFINE T == {m \in Nat : ~\E f : StatesUpTo(f, state, edits, m)}
<1> SUFFICES ASSUME T # {} PROVE FALSE
  OBVIOUS
<1>1. PICK m \in T : \A k \in T : m <= k
  BY LeastNatural
<1>2. m \in Nat /\ ~\E f : StatesUpTo(f, state, edits, m)
  OBVIOUS
<1>3. CASE m = 0
  <2> DEFINE g == [k \in 0..0 |-> state]
  <2>1. g = [k \in 0..0 |-> IF k = 0 THEN state ELSE Apply(g[k - 1], edits[k])]
    OBVIOUS
  <2> QED
    BY <1>2, <1>3, <2>1 DEF StatesUpTo
<1>4. CASE m # 0
  <2>1. m - 1 \in Nat /\ m - 1 \notin T
    BY <1>1, <1>2, <1>4
  <2>2. PICK f : StatesUpTo(f, state, edits, m - 1)
    BY <2>1
  <2> DEFINE g == [k \in 0..m |-> IF k = m THEN Apply(f[m - 1], edits[m]) ELSE f[k]]
  <2>3. \A k \in 0..(m - 1) : g[k] = f[k] /\ f[k] = IF k = 0 THEN state ELSE Apply(f[k - 1], edits[k])
    BY <1>2, <2>2 DEF StatesUpTo
  <2>4. \A k \in 0..m : g[k] = IF k = 0 THEN state ELSE Apply(g[k - 1], edits[k])
    <3> SUFFICES ASSUME NEW k \in 0..m
                 PROVE  g[k] = IF k = 0 THEN state ELSE Apply(g[k - 1], edits[k])
      OBVIOUS
    <3>1. CASE k = m
      <4>1. g[k] = Apply(f[m - 1], edits[m]) /\ g[m - 1] = f[m - 1]
        BY <1>2, <1>4, <2>3, <3>1
      <4> QED
        BY <1>4, <3>1, <4>1
    <3>2. CASE k # m /\ k # 0
      <4>1. k \in 0..(m - 1) /\ k - 1 \in 0..(m - 1)
        BY <1>2, <3>2
      <4> HIDE DEF g
      <4> QED
        BY <2>3, <3>2, <4>1
    <3>3. CASE k = 0
      <4>1. 0 \in 0..(m - 1) /\ 0 # m
        BY <1>2, <1>4
      <4> HIDE DEF g
      <4> QED
        BY <2>3, <3>3, <4>1
    <3> QED
      BY <3>1, <3>2, <3>3
  <2>5. g = [k \in 0..m |-> g[k]]
    OBVIOUS
  <2> HIDE DEF g
  <2>6. StatesUpTo(g, state, edits, m)
    BY <2>4, <2>5 DEF StatesUpTo
  <2> QED
    BY <1>2, <2>6
<1> QED
  BY <1>3, <1>4

LEMMA ApplyAllIs ==
    ASSUME NEW state, NEW edits, Len(edits) \in Nat
    PROVE  \E f : States(f, state, edits) /\ ApplyAll(state, edits) = f[Len(edits)]
<1> DEFINE f == CHOOSE g : g = [k \in 0..Len(edits) |-> IF k = 0 THEN state ELSE Apply(g[k - 1], edits[k])]
<1>1. ApplyAll(state, edits) = f[Len(edits)]
  BY DEF ApplyAll
<1>2. \E g : g = [k \in 0..Len(edits) |-> IF k = 0 THEN state ELSE Apply(g[k - 1], edits[k])]
  <2>1. \E g : StatesUpTo(g, state, edits, Len(edits))
    BY StatesExist
  <2> QED
    BY <2>1 DEF StatesUpTo
<1>3. f = [k \in 0..Len(edits) |-> IF k = 0 THEN state ELSE Apply(f[k - 1], edits[k])]
  BY <1>2
<1> QED
  BY <1>1, <1>3 DEF States

\* What every edit keeps, all of them keep.
LEMMA ApplyAllKeeps ==
    ASSUME NEW S, NEW state \in S, NEW edits, Len(edits) \in Nat,
           \A i \in 1..Len(edits) : \A s \in S : Apply(s, edits[i]) \in S
    PROVE  ApplyAll(state, edits) \in S
<1>1. PICK f : States(f, state, edits) /\ ApplyAll(state, edits) = f[Len(edits)]
  BY ApplyAllIs
<1>2. \A k \in 0..Len(edits) : f[k] = IF k = 0 THEN state ELSE Apply(f[k - 1], edits[k])
  BY <1>1 DEF States
<1> DEFINE T == {k \in 0..Len(edits) : f[k] \notin S}
<1>3. T = {}
  <2> SUFFICES ASSUME T # {} PROVE FALSE
    OBVIOUS
  <2>1. T \subseteq Nat
    OBVIOUS
  <2>2. PICK m \in T : \A k \in T : m <= k
    BY <2>1, LeastNatural
  <2>3. m \in 0..Len(edits) /\ f[m] \notin S
    OBVIOUS
  <2>4. m # 0
    BY <1>2, <2>3
  <2>5. m - 1 \in 0..Len(edits) /\ m \in 1..Len(edits) /\ m - 1 \notin T
    BY <2>2, <2>3, <2>4
  <2>6. f[m - 1] \in S
    BY <2>5
  <2> QED
    BY <1>2, <2>3, <2>4, <2>5, <2>6
<1> QED
  BY <1>1, <1>3

\* The first n sequences of q one after the other.
JoinedUpTo(f, q, n) ==
    f = [i \in 1..n |-> IF i = 1 THEN q[i] ELSE f[i - 1] \o q[i]]

LEMMA JoinedExist ==
    ASSUME NEW q, NEW n \in Nat
    PROVE  \E f : JoinedUpTo(f, q, n)
<1> DEFINE T == {m \in Nat : ~\E f : JoinedUpTo(f, q, m)}
<1> SUFFICES ASSUME T # {} PROVE FALSE
  OBVIOUS
<1>1. PICK m \in T : \A k \in T : m <= k
  BY LeastNatural
<1>2. m \in Nat /\ ~\E f : JoinedUpTo(f, q, m)
  OBVIOUS
<1>3. CASE m = 0
  <2> DEFINE g == [i \in 1..0 |-> q[i]]
  <2>1. g = [i \in 1..0 |-> IF i = 1 THEN q[i] ELSE g[i - 1] \o q[i]]
    OBVIOUS
  <2> HIDE DEF g
  <2>2. JoinedUpTo(g, q, 0)
    BY <2>1 DEF JoinedUpTo
  <2> QED
    BY <1>2, <1>3, <2>2
<1>4. CASE m # 0
  <2>1. m - 1 \in Nat /\ m - 1 \notin T
    BY <1>1, <1>2, <1>4
  <2>2. PICK f : JoinedUpTo(f, q, m - 1)
    BY <2>1
  <2> DEFINE g == [i \in 1..m |-> IF i # m THEN f[i] ELSE IF m = 1 THEN q[m] ELSE f[m - 1] \o q[m]]
  <2>3. \A i \in 1..(m - 1) : g[i] = f[i] /\ f[i] = IF i = 1 THEN q[i] ELSE f[i - 1] \o q[i]
    <3>1. \A i \in 1..(m - 1) : i \in 1..m /\ i # m
      BY <1>2
    <3>2. \A i \in 1..(m - 1) : g[i] = f[i]
      BY <3>1
    <3>3. f = [i \in 1..(m - 1) |-> IF i = 1 THEN q[i] ELSE f[i - 1] \o q[i]]
      BY <2>2 DEF JoinedUpTo
    <3> HIDE DEF g
    <3> QED
      BY <3>2, <3>3
  <2>4. g[m] = IF m = 1 THEN q[m] ELSE f[m - 1] \o q[m]
    BY <1>2, <1>4
  <2>5. g = [i \in 1..m |-> g[i]]
    OBVIOUS
  <2> HIDE DEF g
  <2>6. \A i \in 1..m : g[i] = IF i = 1 THEN q[i] ELSE g[i - 1] \o q[i]
    <3> SUFFICES ASSUME NEW i \in 1..m
                 PROVE  g[i] = IF i = 1 THEN q[i] ELSE g[i - 1] \o q[i]
      OBVIOUS
    <3>1. CASE i = m /\ i # 1
      <4>1. m - 1 \in 1..(m - 1)
        BY <1>2, <3>1
      <4>2. g[m - 1] = f[m - 1]
        BY <2>3, <4>1
      <4> QED
        BY <2>4, <3>1, <4>2
    <3>2. CASE i # m /\ i # 1
      <4>1. i \in 1..(m - 1) /\ i - 1 \in 1..(m - 1)
        BY <1>2, <3>2
      <4> QED
        BY <2>3, <3>2, <4>1
    <3>3. CASE i # m /\ i = 1
      <4>1. i \in 1..(m - 1)
        BY <1>2, <3>3
      <4> QED
        BY <2>3, <3>3, <4>1
    <3>4. CASE i = m /\ i = 1
      BY <2>4, <3>4
    <3> QED
      BY <3>1, <3>2, <3>3, <3>4
  <2>7. JoinedUpTo(g, q, m)
    BY <2>5, <2>6 DEF JoinedUpTo
  <2> QED
    BY <1>2, <2>7
<1> QED
  BY <1>3, <1>4

\* The sequences of a sequence one after the other.
LEMMA FlattenType ==
    ASSUME NEW E, NEW q \in Seq(Seq(E))
    PROVE  FlattenSeq(q) \in Seq(E)
<1>1. Len(q) \in Nat /\ \A i \in 1..Len(q) : q[i] \in Seq(E)
  BY LenProperties, ElementOfSeq
<1>2. CASE Len(q) = 0
  <2>1. FlattenSeq(q) = q /\ q = <<>>
    BY <1>2, EmptySeq DEF FlattenSeq
  <2> QED
    BY <2>1
<1>3. CASE Len(q) # 0
  <2> DEFINE h == CHOOSE f : f = [i \in 1..Len(q) |-> IF i = 1 THEN q[i] ELSE f[i - 1] \o q[i]]
  <2>1. FlattenSeq(q) = h[Len(q)]
    BY <1>3 DEF FlattenSeq
  <2>2. \E f : f = [i \in 1..Len(q) |-> IF i = 1 THEN q[i] ELSE f[i - 1] \o q[i]]
    <3>1. \E f : JoinedUpTo(f, q, Len(q))
      BY <1>1, JoinedExist
    <3> QED
      BY <3>1 DEF JoinedUpTo
  <2>3. h = [i \in 1..Len(q) |-> IF i = 1 THEN q[i] ELSE h[i - 1] \o q[i]]
    BY <2>2
  <2> HIDE DEF h
  <2>4. \A i \in 1..Len(q) : h[i] = IF i = 1 THEN q[i] ELSE h[i - 1] \o q[i]
    BY <2>3
  <2> DEFINE T == {i \in 1..Len(q) : h[i] \notin Seq(E)}
  <2>5. T = {}
    <3> SUFFICES ASSUME T # {} PROVE FALSE
      OBVIOUS
    <3>1. T \subseteq Nat
      OBVIOUS
    <3>2. PICK m \in T : \A k \in T : m <= k
      BY <3>1, LeastNatural
    <3>3. m \in 1..Len(q) /\ h[m] \notin Seq(E)
      OBVIOUS
    <3>4. m # 1
      BY <1>1, <2>4, <3>3
    <3>5. m - 1 \in 1..Len(q) /\ m - 1 \notin T
      BY <1>1, <3>2, <3>3, <3>4
    <3>6. h[m - 1] \in Seq(E) /\ q[m] \in Seq(E)
      BY <1>1, <3>3, <3>5
    <3>7. h[m - 1] \o q[m] \in Seq(E)
      BY <3>6, ConcatProperties
    <3>8. h[m] = h[m - 1] \o q[m]
      BY <2>4, <3>3, <3>4
    <3> QED
      BY <3>3, <3>7, <3>8
  <2>6. Len(q) \in 1..Len(q)
    BY <1>1, <1>3
  <2> QED
    BY <2>1, <2>5, <2>6
<1> QED
  BY <1>2, <1>3

-----------------------------------------------------------------------------
(* The types of outputs and edits when the kernel has sent n messages *)

Output(n) ==
    [id : 0..n, stream : Streams \cup {""}, display : Displays \cup {None}, items : Seq(0..n)]

AppendType(n) == [op : {"append"}, cell : Cells, outputs : Seq(Output(n))]

ReplaceType(n) == [op : {"replace"}, cell : Cells, outputs : Seq(Output(n))]

ItemsType(n) ==
    [op : {"appendItems", "replaceItems"}, cell : Cells, id : 0..n, item : 0..n]

EditType(n) == AppendType(n) \cup ReplaceType(n) \cup ItemsType(n)

Shown(n) == [Cells -> Seq(Output(n))]

Grouped(n) == Seq(Seq(EditType(n)) \ {<<>>})

LEMMA SequenceGrows ==
    ASSUME NEW A, NEW B, A \subseteq B
    PROVE  Seq(A) \subseteq Seq(B)
OBVIOUS

\* What has the type stays of the type when more messages are sent.
LEMMA OutputGrows ==
    ASSUME NEW n \in Nat
    PROVE  Output(n) \subseteq Output(n + 1)
<1>1. 0..n \subseteq 0..(n + 1)
  OBVIOUS
<1>2. Seq(0..n) \subseteq Seq(0..(n + 1))
  BY <1>1
<1> QED
  BY <1>1, <1>2 DEF Output

LEMMA EditGrows ==
    ASSUME NEW n \in Nat
    PROVE  EditType(n) \subseteq EditType(n + 1)
<1>1. 0..n \subseteq 0..(n + 1)
  OBVIOUS
<1>2. Seq(Output(n)) \subseteq Seq(Output(n + 1))
  BY OutputGrows
<1>3. AppendType(n) \subseteq AppendType(n + 1)
  BY <1>2 DEF AppendType
<1>4. ReplaceType(n) \subseteq ReplaceType(n + 1)
  BY <1>2 DEF ReplaceType
<1>5. ItemsType(n) \subseteq ItemsType(n + 1)
  BY <1>1 DEF ItemsType
<1> QED
  BY <1>3, <1>4, <1>5 DEF EditType

LEMMA ShownGrows ==
    ASSUME NEW n \in Nat
    PROVE  Shown(n) \subseteq Shown(n + 1)
<1>1. Seq(Output(n)) \subseteq Seq(Output(n + 1))
  BY OutputGrows
<1> QED
  BY <1>1 DEF Shown

LEMMA GroupedGrows ==
    ASSUME NEW n \in Nat
    PROVE  Grouped(n) \subseteq Grouped(n + 1)
<1>1. Seq(EditType(n)) \subseteq Seq(EditType(n + 1))
  BY EditGrows
<1>2. Seq(EditType(n)) \ {<<>>} \subseteq Seq(EditType(n + 1)) \ {<<>>}
  BY <1>1
<1> QED
  BY <1>2 DEF Grouped

-----------------------------------------------------------------------------
(* Edits keep the type of outputs *)

\* The output a test selects.
LEMMA LeastSelected ==
    ASSUME NEW I, I \subseteq Nat, I # {}
    PROVE  Min(I) \in I
<1>1. \E m \in I : \A k \in I : m <= k
  BY LeastNatural
<1> QED
  BY <1>1 DEF Min

LEMMA WithItemsType ==
    ASSUME NEW n \in Nat, NEW s \in Seq(Output(n)), NEW edit \in ItemsType(n)
    PROVE  WithItems(s, edit) \in Seq(Output(n))
<1> DEFINE I == {i \in 1..Len(s) : s[i].id = edit.id}
           p == SelectInSeq(s, LAMBDA o : o.id = edit.id)
<1>1. p = IF I # {} THEN Min(I) ELSE 0
  BY DEF SelectInSeq
<1>2. p # 0 => p \in 1..Len(s)
  <2>1. I \subseteq 1..Len(s) /\ I \subseteq Nat
    OBVIOUS
  <2> HIDE DEF I, p
  <2>3. I # {} => Min(I) \in I
    BY <2>1, LeastSelected
  <2> QED
    BY <1>1, <2>1, <2>3
<1>3. WithItems(s, edit) =
        CASE p = 0 -> s
          [] p # 0 /\ edit.op = "appendItems"  -> [s EXCEPT ![p].items = Append(@, edit.item)]
          [] p # 0 /\ edit.op = "replaceItems" -> [s EXCEPT ![p].items = <<edit.item>>]
  BY DEF WithItems
<1>4. edit.op \in {"appendItems", "replaceItems"} /\ edit.item \in 0..n
  BY DEF ItemsType
<1> HIDE DEF p
<1>5. CASE p = 0
  BY <1>3, <1>5
<1>6. CASE p # 0
  <2>1. s[p] \in Output(n)
    BY <1>2, <1>6, ElementOfSeq
  <2>2. ASSUME NEW items \in Seq(0..n)
        PROVE  [s EXCEPT ![p].items = items] \in Seq(Output(n))
    <3> DEFINE o == [s[p] EXCEPT !.items = items]
    <3>1. o \in Output(n)
      BY <2>1 DEF Output
    <3>2. [s EXCEPT ![p].items = items] = [s EXCEPT ![p] = o]
      OBVIOUS
    <3> HIDE DEF o
    <3> QED
      BY <1>2, <1>6, <3>1, <3>2, ExceptSeq
  <2>3. <<edit.item>> \in Seq(0..n)
    BY <1>4
  <2>4. Append(s[p].items, edit.item) \in Seq(0..n)
    BY <1>4, <2>1, AppendProperties DEF Output
  <2>5. CASE edit.op = "appendItems"
    <3> DEFINE items == Append(s[p].items, edit.item)
    <3>1. WithItems(s, edit) = [s EXCEPT ![p].items = items]
      BY <1>3, <1>6, <2>5
    <3> HIDE DEF items
    <3> QED
      BY <2>2, <2>4, <3>1 DEF items
  <2>6. CASE edit.op = "replaceItems"
    <3>1. WithItems(s, edit) = [s EXCEPT ![p].items = <<edit.item>>]
      BY <1>3, <1>6, <2>6
    <3> QED
      BY <2>2, <2>3, <3>1
  <2> QED
    BY <1>4, <2>5, <2>6
<1> QED
  BY <1>5, <1>6

LEMMA ApplyType ==
    ASSUME NEW n \in Nat, NEW state \in Shown(n), NEW edit \in EditType(n)
    PROVE  Apply(state, edit) \in Shown(n)
<1>1. edit.cell \in Cells /\ state[edit.cell] \in Seq(Output(n))
  BY DEF EditType, AppendType, ReplaceType, ItemsType, Shown
<1> DEFINE new == CASE edit.op = "append"  -> state[edit.cell] \o edit.outputs
                    [] edit.op = "replace" -> edit.outputs
                    [] OTHER               -> WithItems(state[edit.cell], edit)
<1>2. Apply(state, edit) = [state EXCEPT ![edit.cell] = new]
  BY DEF Apply
<1>3. new \in Seq(Output(n))
  <2>1. CASE edit \in AppendType(n)
    <3>1. edit.op = "append" /\ edit.outputs \in Seq(Output(n))
      BY <2>1 DEF AppendType
    <3>2. state[edit.cell] \o edit.outputs \in Seq(Output(n))
      BY <1>1, <3>1, ConcatProperties
    <3> QED
      BY <3>1, <3>2
  <2>2. CASE edit \in ReplaceType(n)
    <3>1. edit.op = "replace" /\ edit.outputs \in Seq(Output(n))
      BY <2>2 DEF ReplaceType
    <3> QED
      BY <3>1
  <2>3. CASE edit \in ItemsType(n)
    <3>1. edit.op # "append" /\ edit.op # "replace"
      BY <2>3 DEF ItemsType
    <3>2. WithItems(state[edit.cell], edit) \in Seq(Output(n))
      BY <1>1, <2>3, WithItemsType
    <3>3. new = WithItems(state[edit.cell], edit)
      BY <3>1
    <3> QED
      BY <3>2, <3>3
  <2> QED
    BY <2>1, <2>2, <2>3 DEF EditType
<1> HIDE DEF new
<1> QED
  BY <1>1, <1>2, <1>3 DEF Shown

LEMMA ApplyAllType ==
    ASSUME NEW n \in Nat, NEW state \in Shown(n), NEW edits \in Seq(EditType(n))
    PROVE  ApplyAll(state, edits) \in Shown(n)
<1>1. Len(edits) \in Nat /\ \A i \in 1..Len(edits) : edits[i] \in EditType(n)
  BY LenProperties, ElementOfSeq
<1>2. \A i \in 1..Len(edits) : \A s \in Shown(n) : Apply(s, edits[i]) \in Shown(n)
  BY <1>1, ApplyType
<1> QED
  BY <1>1, <1>2, ApplyAllKeeps

-----------------------------------------------------------------------------
(* The invariant *)

Lives == {"new", "queued", "running", "done"}
TaskStates == {"none", "created", "started", "ended"}

LifeType ==
    /\ exec \in [Executions -> Lives]
    /\ task \in [Executions -> TaskStates]
    /\ active \in Executions \cup {None}
    /\ handler \in [Cells -> Executions \cup {None}]
    /\ acknowledged \subseteq Executions

OneRuns == \A e \in Executions : Running(e) <=> active = e

HandlersRan == \A c \in Cells : handler[c] # None => exec[handler[c]] \in {"running", "done"}

LifeInv == LifeType /\ OneRuns /\ HandlersRan

SentType == IsSequence(sent) /\ Len(sent) <= MaxMessages

EditsType == outputs \in Shown(Len(sent)) /\ pending \in Grouped(Len(sent))

UsedStream(n) == [stream : Streams, id : 0..n]

Followed(n) == [cell : Cells, id : 1..n]

\* What the handlers and the tracker remember.
MemoryType ==
    /\ clearOnNext \subseteq Cells
    /\ reattached \subseteq Cells
    /\ lastStream \in [Cells -> UsedStream(Len(sent)) \cup {None}]
    /\ tracked \in [Displays -> Followed(Len(sent)) \cup {None}]
    /\ lastDisplay \in [Cells -> Displays \cup {None}]

RefusedType == refused \subseteq 1..Len(sent)

OutputsInv == LifeInv /\ SentType /\ EditsType /\ MemoryType /\ RefusedType

LEMMA Constants ==
    /\ CellOf \in [Executions -> Cells]
    /\ MaxMessages \in Nat
    /\ None \notin Executions /\ None \notin Displays
BY ConstantsAssumption

LEMMA OutputsInvInit == Init => OutputsInv
<1> SUFFICES ASSUME Init PROVE OutputsInv
  OBVIOUS
<1>1. LifeInv
  BY Constants DEF Init, LifeInv, LifeType, OneRuns, HandlersRan, Running, Lives, TaskStates
<1>2. sent = <<>> /\ Len(sent) = 0 /\ SentType
  <2>1. sent = <<>> /\ Len(sent) = 0
    BY DEF Init
  <2>2. <<>> \in Seq({})
    OBVIOUS
  <2>3. IsSequence(sent)
    BY <2>1, <2>2, AnySequence
  <2>4. Len(sent) <= MaxMessages
    BY <2>1, Constants
  <2> QED
    BY <2>1, <2>3, <2>4 DEF SentType
<1>3. EditsType
  <2>1. 0 \in 0..0
    OBVIOUS
  <2>2. outputs \in Shown(0)
    <3> DEFINE R == [id : {0}, stream : Streams \cup {""}, display : Displays \cup {None},
                     items : Seq({0})]
    <3>1. Seq({0}) \subseteq Seq(0..0)
      BY <2>1
    <3>2. R \subseteq Output(0)
      BY <2>1, <3>1 DEF Output
    <3>3. outputs \in [Cells -> Seq(R)]
      BY ConstantsAssumption DEF Init
    <3> HIDE DEF R
    <3>4. Seq(R) \subseteq Seq(Output(0))
      BY <3>2
    <3> QED
      BY <3>3, <3>4 DEF Shown
  <2>3. pending \in Grouped(0)
    <3>1. pending = <<>>
      BY DEF Init
    <3> DEFINE G == Seq(EditType(0)) \ {<<>>}
    <3>2. <<>> \in Seq(G)
      <4> HIDE DEF G
      <4> QED
        OBVIOUS
    <3> QED
      BY <3>1, <3>2 DEF Grouped
  <2> QED
    BY <1>2, <2>2, <2>3 DEF EditsType
<1>4. MemoryType
  BY DEF Init, MemoryType
<1>5. RefusedType
  BY DEF Init, RefusedType
<1> QED
  BY <1>1, <1>2, <1>3, <1>4, <1>5 DEF OutputsInv

-----------------------------------------------------------------------------
(* The task a message edits the outputs with *)

\* It belongs to a cell that executes, or it is one of the cell the message is for.
Owns(e, t) ==
    \/ t = None
    \/ t \in Executions /\ Running(t)
    \/ t \in Executions /\ t \in Wrappers(CellOf[e]) /\ ~Running(e) /\ t # active

LEMMA TaskIs ==
    ASSUME LifeInv, NEW e \in Executions, NEW own \in BOOLEAN
    PROVE  Owns(e, Task(e, own)) /\ (Temporary(e, own) => ~Running(e) /\ Task(e, own) # active)
<1>1. /\ active \in Executions \cup {None}
      /\ \A f \in Executions : Running(f) <=> active = f
  BY DEF LifeInv, LifeType, OneRuns
<1>2. CASE Running(e)
  <2>1. Task(e, own) = e
    BY <1>2 DEF Task
  <2> QED
    BY <1>2, <2>1 DEF Owns, Temporary
<1>3. CASE ~Running(e) /\ active # None /\ (own => CellOf[active] = CellOf[e])
  <2>1. Task(e, own) = active /\ active \in Executions /\ Running(active)
    BY <1>1, <1>3 DEF Task
  <2> QED
    BY <2>1 DEF Owns, Temporary
<1>4. CASE ~Running(e) /\ ~(active # None /\ (own => CellOf[active] = CellOf[e]))
  <2>1. Task(e, own) = IF Wrappers(CellOf[e]) = {} THEN None
                       ELSE CHOOSE w \in Wrappers(CellOf[e]) : TRUE
    BY <1>4 DEF Task
  <2>2. CASE Wrappers(CellOf[e]) = {}
    BY <1>4, <2>1, <2>2 DEF Owns, Temporary
  <2>3. CASE Wrappers(CellOf[e]) # {}
    <3> DEFINE w == Task(e, own)
    <3>1. w \in Wrappers(CellOf[e])
      BY <2>1, <2>3
    <3> HIDE DEF w
    <3>2. w \in Executions
      BY <3>1 DEF Wrappers
    <3>3. Owns(e, w)
      BY <1>1, <1>4, <3>1, <3>2 DEF Owns
    <3> QED
      BY <3>3 DEF w, Temporary
  <2> QED
    BY <2>2, <2>3
<1> QED
  BY <1>2, <1>3, <1>4

LEMMA OneTask ==
    ASSUME LifeInv, NEW e \in Executions, NEW own \in BOOLEAN
    PROVE  Task(e, own) \in Executions \cup {None}
  BY TaskIs DEF Owns

-----------------------------------------------------------------------------
(* What a message does *)

LEMMA AppendLength ==
    ASSUME NEW s, IsSequence(s), NEW e
    PROVE  Len(Append(s, e)) = Len(s) + 1
<1> DEFINE S == ToSet(s) \cup {e}
<1>1. s \in Seq(S) /\ e \in S
  BY DEF IsSequence
<1> HIDE DEF S
<1> QED
  BY <1>1, AppendProperties

LEMMA MessageKeeps ==
    ASSUME OutputsInv, NEW e \in Executions, NEW kind, NEW d, Message(e, kind, d)
    PROVE  /\ Len(sent') = Len(sent) + 1
           /\ SentType'
           /\ outputs' \in Shown(Len(sent'))
           /\ acknowledged' \subseteq Executions
           /\ UNCHANGED <<exec, active, handler>>
           /\ Len(sent) \in Nat
<1> DEFINE m == [cell |-> CellOf[e], kind |-> kind, display |-> d]
<1>1. IsSequence(sent) /\ Len(sent) \in Nat /\ sent' = Append(sent, m) /\ Len(sent) < MaxMessages
  BY LenProperties DEF OutputsInv, SentType, IsSequence, Message
<1> HIDE DEF m
<1>2. IsSequence(sent')
  BY <1>1, AppendElements
<1>3. Len(sent') = Len(sent) + 1
  <2>1. Len(Append(sent, m)) = Len(sent) + 1
    BY <1>1, AppendLength
  <2> QED
    BY <1>1, <2>1
<1>4. outputs' = outputs /\ outputs \in Shown(Len(sent))
  BY DEF Message, OutputsInv, EditsType
<1>5. acknowledged' \subseteq Executions
  BY DEF Message, OutputsInv, LifeInv, LifeType
<1>6. UNCHANGED <<exec, active, handler>>
  BY DEF Message
<1>7. SentType'
  <2>1. Len(sent') <= MaxMessages
    BY <1>1, <1>3, Constants
  <2> QED
    BY <1>2, <2>1 DEF SentType, IsSequence
<1>8. outputs' \in Shown(Len(sent'))
  BY <1>1, <1>3, <1>4, ShownGrows
<1> QED
  BY <1>1, <1>3, <1>5, <1>6, <1>7, <1>8

\* The edits of a message and its task.
Edited ==
    /\ task' \in [Executions -> TaskStates]
    /\ pending' \in Grouped(Len(sent'))
    /\ refused' \subseteq 1..Len(sent')

LEMMA Grow ==
    ASSUME OutputsInv, Len(sent') = Len(sent) + 1
    PROVE  /\ pending \in Grouped(Len(sent'))
           /\ refused \subseteq 1..Len(sent')
           /\ Number \in 1..Len(sent')
<1>1. Len(sent) \in Nat
  BY LenProperties DEF OutputsInv, SentType, IsSequence
<1>2. pending \in Grouped(Len(sent')) 
  BY <1>1, GroupedGrows DEF OutputsInv, EditsType
<1>3. refused \subseteq 1..Len(sent')
  BY <1>1 DEF OutputsInv, RefusedType
<1>4. Number \in 1..Len(sent')
  BY <1>1 DEF Number
<1> QED
  BY <1>2, <1>3, <1>4

LEMMA ClearType ==
    ASSUME NEW n \in Nat, NEW c \in Cells
    PROVE  ClearOutput(c) \in EditType(n) /\ <<ClearOutput(c)>> \in Seq(EditType(n))
<1>1. ClearOutput(c) \in ReplaceType(n)
  BY DEF ClearOutput, ReplaceOutput, ReplaceType
<1> QED
  BY <1>1 DEF EditType

LEMMA OpeningType ==
    ASSUME NEW n \in Nat, NEW e \in Executions
    PROVE  Opening(e) \in Seq(EditType(n))
<1>1. CellOf[e] \in Cells
  BY Constants
<1> QED
  BY <1>1, ClearType DEF Opening

LEMMA TemporaryType ==
    ASSUME NEW n \in Nat, NEW t \in Executions \cup {None}
    PROVE  TemporaryStart(t) \in Seq(EditType(n))
<1>1. t # None => CellOf[t] \in Cells
  BY Constants
<1> QED
  BY <1>1, ClearType DEF TemporaryStart

LEMMA PushGroup ==
    ASSUME NEW n \in Nat, NEW p \in Grouped(n), NEW g \in Seq(EditType(n)), g # <<>>
    PROVE  Append(p, g) \in Grouped(n)
<1> DEFINE G == Seq(EditType(n)) \ {<<>>}
<1>1. p \in Seq(G) /\ g \in G
  BY DEF Grouped
<1> HIDE DEF G
<1>2. Append(p, g) \in Seq(G)
  BY <1>1, AppendProperties
<1> QED
  BY <1>2 DEF G, Grouped

LEMMA QuietKeeps ==
    ASSUME OutputsInv, NEW e \in Executions, Len(sent') = Len(sent) + 1, Quiet(e)
    PROVE  Edited
<1>1. Len(sent) \in Nat /\ Len(sent') \in Nat
  BY LenProperties DEF OutputsInv, SentType, IsSequence
<1>2. task' \in [Executions -> TaskStates]
  BY DEF Quiet, OutputsInv, LifeInv, LifeType, TaskStates
<1>3. pending \in Grouped(Len(sent')) /\ refused \subseteq 1..Len(sent')
  BY Grow
<1>4. pending' \in Grouped(Len(sent'))
  <2>1. CASE Opening(e) = <<>>
    BY <1>3, <2>1 DEF Quiet
  <2>2. CASE Opening(e) # <<>>
    <3>1. pending' = Append(pending, Opening(e))
      BY <2>2 DEF Quiet
    <3>2. Opening(e) \in Seq(EditType(Len(sent')))
      BY <1>1, OpeningType
    <3>3. Append(pending, Opening(e)) \in Grouped(Len(sent'))
      BY <1>1, <1>3, <2>2, <3>2, PushGroup
    <3> QED
      BY <3>1, <3>3
  <2> QED
    BY <2>1, <2>2
<1>5. refused' \subseteq 1..Len(sent')
  BY <1>3 DEF Quiet
<1> QED
  BY <1>2, <1>4, <1>5 DEF Edited

LEMMA EditKeeps ==
    ASSUME OutputsInv, NEW e \in Executions, NEW own \in BOOLEAN, Len(sent') = Len(sent) + 1,
           NEW edits \in Seq(EditType(Len(sent) + 1)), edits # <<>>, Edit(e, own, edits)
    PROVE  Edited
<1> DEFINE t == Task(e, own)
           start == IF Temporary(e, own) THEN TemporaryStart(t) ELSE <<>>
           group == Opening(e) \o start \o edits
<1>1. Len(sent) \in Nat /\ Len(sent') \in Nat
  BY LenProperties DEF OutputsInv, SentType, IsSequence
<1>2. pending \in Grouped(Len(sent')) /\ refused \subseteq 1..Len(sent') /\ Number \in 1..Len(sent')
  BY Grow
<1>3. t \in Executions \cup {None}
  BY OneTask DEF OutputsInv
<1>4. group \in Seq(EditType(Len(sent'))) /\ group # <<>>
  <2> DEFINE E == EditType(Len(sent'))
  <2>1. Opening(e) \in Seq(E)
    BY <1>1, OpeningType
  <2>2. start \in Seq(E)
    <3>1. TemporaryStart(t) \in Seq(E)
      BY <1>1, <1>3, TemporaryType
    <3> HIDE DEF E, t
    <3>2. <<>> \in Seq(E)
      OBVIOUS
    <3> QED
      BY <3>1, <3>2
  <2>3. edits \in Seq(E)
    OBVIOUS
  <2> HIDE DEF E, start
  <2>4. /\ Opening(e) \o start \in Seq(E)
        /\ Len(Opening(e) \o start) \in Nat
    BY <2>1, <2>2, ConcatProperties, LenProperties
  <2> DEFINE before == Opening(e) \o start
  <2> HIDE DEF before
  <2>5. before \in Seq(E)
    BY <2>4 DEF before
  <2>6. before \o edits \in Seq(E) /\ Len(before \o edits) = Len(before) + Len(edits)
    BY <2>3, <2>5, ConcatProperties
  <2>7. Len(before) \in Nat /\ Len(edits) \in Nat /\ Len(edits) # 0
    BY <2>3, <2>5, LenProperties, EmptySeq
  <2>8. Len(before \o edits) # 0
    BY <2>6, <2>7
  <2>9. before \o edits # <<>>
    BY <2>8
  <2> QED
    BY <2>6, <2>9 DEF before, E
<1>5. IF Refuses(t)
      THEN refused' = refused \cup {Number} /\ UNCHANGED <<task, pending>>
      ELSE /\ pending' = Append(pending, group)
           /\ task' = IF t = None THEN task
                      ELSE [task EXCEPT ![t] = IF Temporary(e, own) THEN "ended" ELSE "started"]
           /\ UNCHANGED refused
  BY DEF Edit
<1> HIDE DEF t, group
<1>6. CASE Refuses(t)
  <2>1. task' = task /\ task \in [Executions -> TaskStates]
    BY <1>5, <1>6 DEF OutputsInv, LifeInv, LifeType
  <2>2. pending' \in Grouped(Len(sent'))
    BY <1>2, <1>5, <1>6
  <2>3. refused' \subseteq 1..Len(sent')
    BY <1>2, <1>5, <1>6
  <2> QED
    BY <2>1, <2>2, <2>3 DEF Edited
<1>7. CASE ~Refuses(t)
  <2>1. task' \in [Executions -> TaskStates]
    BY <1>3, <1>5, <1>7 DEF OutputsInv, LifeInv, LifeType, TaskStates
  <2>2. pending' \in Grouped(Len(sent'))
    <3>1. Append(pending, group) \in Grouped(Len(sent'))
      BY <1>1, <1>2, <1>4, PushGroup
    <3> QED
      BY <1>5, <1>7, <3>1
  <2>3. refused' \subseteq 1..Len(sent')
    BY <1>2, <1>5, <1>7
  <2> QED
    BY <2>1, <2>2, <2>3 DEF Edited
<1> QED
  BY <1>6, <1>7

-----------------------------------------------------------------------------
(* Steps that keep the invariant *)

\* A message that is handled: its edits and what the handler remembers of it.
LEMMA MessageStep ==
    ASSUME OutputsInv, NEW e \in Executions, NEW kind, NEW d, Message(e, kind, d),
           Edited, MemoryType'
    PROVE  OutputsInv'
<1>1. /\ SentType' /\ outputs' \in Shown(Len(sent')) /\ acknowledged' \subseteq Executions
      /\ exec' = exec /\ active' = active /\ handler' = handler
  BY MessageKeeps
<1>2. LifeType'
  BY <1>1 DEF OutputsInv, LifeInv, LifeType, Edited
<1>3. OneRuns' /\ HandlersRan'
  BY <1>1 DEF OutputsInv, LifeInv, OneRuns, HandlersRan, Running
<1>4. LifeInv'
  BY <1>2, <1>3 DEF LifeInv
<1>5. EditsType'
  BY <1>1 DEF EditsType, Edited
<1>6. RefusedType'
  BY DEF RefusedType, Edited
<1> QED
  BY <1>1, <1>4, <1>5, <1>6 DEF OutputsInv

\* What the handlers and the tracker remember stays of the type.
Remembers ==
    /\ clearOnNext \subseteq Cells
    /\ reattached \subseteq Cells
    /\ lastStream \in [Cells -> UsedStream(Len(sent')) \cup {None}]
    /\ tracked \in [Displays -> Followed(Len(sent')) \cup {None}]
    /\ lastDisplay \in [Cells -> Displays \cup {None}]

LEMMA MemoryGrows ==
    ASSUME OutputsInv, Len(sent') = Len(sent) + 1
    PROVE  Remembers
<1>1. Len(sent) \in Nat
  BY LenProperties DEF OutputsInv, SentType, IsSequence
<1>2. 0..Len(sent) \subseteq 0..Len(sent') /\ 1..Len(sent) \subseteq 1..Len(sent')
  BY <1>1
<1>3. UsedStream(Len(sent)) \subseteq UsedStream(Len(sent'))
  BY <1>2 DEF UsedStream
<1>4. Followed(Len(sent)) \subseteq Followed(Len(sent'))
  BY <1>2 DEF Followed
<1>5. lastStream \in [Cells -> UsedStream(Len(sent')) \cup {None}]
  BY <1>3 DEF OutputsInv, MemoryType
<1>6. tracked \in [Displays -> Followed(Len(sent')) \cup {None}]
  BY <1>4 DEF OutputsInv, MemoryType
<1> QED
  BY <1>5, <1>6 DEF Remembers, OutputsInv, MemoryType

LEMMA ForgetType ==
    ASSUME Remembers, NEW c \in Cells, Forget(c)
    PROVE  lastStream' \in [Cells -> UsedStream(Len(sent')) \cup {None}]
  BY DEF Remembers, Forget

LEMMA FlagType ==
    ASSUME Remembers, NEW e, NEW c, FlagAfter(e, c)
    PROVE  clearOnNext' \subseteq Cells
  BY DEF Remembers, FlagAfter

LEMMA TrackType ==
    ASSUME Remembers, NEW c \in Cells, NEW d \in Displays, NEW id \in 1..Len(sent'), Track(c, d, id)
    PROVE  /\ tracked' \in [Displays -> Followed(Len(sent')) \cup {None}]
           /\ lastDisplay' \in [Cells -> Displays \cup {None}]
<1>1. [cell |-> c, id |-> id] \in Followed(Len(sent'))
  BY DEF Followed
<1> QED
  BY <1>1 DEF Remembers, Track

LEMMA StatusStep ==
    ASSUME OutputsInv, NEW e \in Executions, Status(e) \/ ClearWait(e)
    PROVE  OutputsInv'
<1>1. PICK kind : Message(e, kind, None) /\ Quiet(e)
  BY DEF Status, ClearWait
<1>2. Len(sent') = Len(sent) + 1
  BY <1>1, MessageKeeps
<1>3. Edited
  BY <1>1, <1>2, QuietKeeps
<1>4. Remembers
  BY <1>2, MemoryGrows
<1>5. clearOnNext' \subseteq Cells
  BY <1>4, Constants DEF Status, ClearWait, Remembers
<1>6. UNCHANGED <<lastStream, reattached, tracked, lastDisplay>>
  BY DEF Status, ClearWait, trackerVars
<1>7. MemoryType'
  BY <1>4, <1>5, <1>6 DEF Remembers, MemoryType
<1> QED
  BY <1>1, <1>3, <1>7, MessageStep

LEMMA ClearStep ==
    ASSUME OutputsInv, NEW e \in Executions, Clear(e)
    PROVE  OutputsInv'
<1>1. Message(e, "clear", None) /\ Edit(e, TRUE, <<ClearOutput(CellOf[e])>>)
  BY DEF Clear
<1>2. Len(sent') = Len(sent) + 1 /\ Len(sent) + 1 \in Nat /\ CellOf[e] \in Cells
  BY <1>1, MessageKeeps, Constants
<1>3. <<ClearOutput(CellOf[e])>> \in Seq(EditType(Len(sent) + 1))
  BY <1>2, ClearType
<1>4. Edited
  BY <1>1, <1>2, <1>3, EditKeeps
<1>5. Remembers
  BY <1>2, MemoryGrows
<1>6. lastStream' \in [Cells -> UsedStream(Len(sent')) \cup {None}]
  BY <1>2, <1>5, ForgetType DEF Clear
<1>7. UNCHANGED <<clearOnNext, reattached, tracked, lastDisplay>>
  BY DEF Clear, trackerVars
<1>8. MemoryType'
  BY <1>5, <1>6, <1>7 DEF Remembers, MemoryType
<1> QED
  BY <1>1, <1>4, <1>8, MessageStep

\* The output a message creates and the edit that shows it.
LEMMA NumberType ==
    ASSUME Len(sent) \in Nat
    PROVE  Number \in 0..(Len(sent) + 1) /\ <<Number>> \in Seq(0..(Len(sent) + 1))
<1>1. Number \in 0..(Len(sent) + 1)
  BY DEF Number
<1> QED
  BY <1>1

LEMMA NewOutputType ==
    ASSUME Len(sent) \in Nat, NEW stream \in Streams \cup {""}, NEW d \in Displays \cup {None}
    PROVE  NewOutput(stream, d) \in Output(Len(sent) + 1)
<1>1. Number \in 0..(Len(sent) + 1) /\ <<Number>> \in Seq(0..(Len(sent) + 1))
  BY NumberType
<1> QED
  BY <1>1 DEF NewOutput, Output

LEMMA AppendOutputType ==
    ASSUME NEW n \in Nat, NEW c \in Cells, NEW o \in Output(n)
    PROVE  AppendOutput(c, o) \in EditType(n)
<1>1. AppendOutput(c, o) \in AppendType(n)
  BY DEF AppendOutput, AppendType
<1> QED
  BY <1>1 DEF EditType

LEMMA ReplaceOutputType ==
    ASSUME NEW n \in Nat, NEW c \in Cells, NEW s \in Seq(Output(n))
    PROVE  ReplaceOutput(c, s) \in EditType(n)
<1>1. ReplaceOutput(c, s) \in ReplaceType(n)
  BY DEF ReplaceOutput, ReplaceType
<1> QED
  BY <1>1 DEF EditType

LEMMA ItemEditType ==
    ASSUME Len(sent) \in Nat, NEW c \in Cells, NEW id \in 0..(Len(sent) + 1)
    PROVE  /\ AppendItems(c, id) \in EditType(Len(sent) + 1)
           /\ ReplaceItems(c, id) \in EditType(Len(sent) + 1)
<1>1. Number \in 0..(Len(sent) + 1)
  BY NumberType
<1>2. AppendItems(c, id) \in ItemsType(Len(sent) + 1)
  BY <1>1 DEF AppendItems, ItemsType
<1>3. ReplaceItems(c, id) \in ItemsType(Len(sent) + 1)
  BY <1>1 DEF ReplaceItems, ItemsType
<1> QED
  BY <1>2, <1>3 DEF EditType

\* A sequence of one or two edits.
LEMMA FewEdits ==
    ASSUME NEW E, NEW a \in E, NEW b \in E
    PROVE  /\ <<a>> \in Seq(E) /\ <<a>> # <<>>
           /\ <<a, b>> \in Seq(E) /\ <<a, b>> # <<>>
OBVIOUS

LEMMA AddToCellDataStep ==
    ASSUME OutputsInv, NEW e \in Executions, NEW kind, NEW d \in Displays \cup {None},
           AddToCellData(e, kind, d)
    PROVE  OutputsInv'
<1> DEFINE c == CellOf[e]
           n == Len(sent) + 1
           edits == ClearIfNecessary(c) \o <<AppendOutput(c, NewOutput("", d))>>
<1>1. /\ Message(e, kind, d) /\ Edit(e, TRUE, edits) /\ FlagAfter(e, c) /\ Forget(c)
      /\ UNCHANGED reattached
      /\ \/ UNCHANGED <<tracked, lastDisplay>>
         \/ d # None /\ Track(c, d, Number)
  BY DEF AddToCellData, trackerVars
<1>2. Len(sent') = n /\ Len(sent) \in Nat /\ n \in Nat /\ c \in Cells
  <2>1. Message(e, kind, d)
    BY <1>1
  <2>2. Len(sent') = Len(sent) + 1 /\ Len(sent) \in Nat
    BY <2>1, MessageKeeps
  <2>3. c \in Cells
    BY Constants
  <2> QED
    BY <2>2, <2>3
<1>3. edits \in Seq(EditType(n)) /\ edits # <<>>
  <2>1. NewOutput("", d) \in Output(n)
    BY <1>2, NewOutputType
  <2> DEFINE a == AppendOutput(c, NewOutput("", d))
  <2>2. a \in EditType(n)
    BY <1>2, <2>1, AppendOutputType
  <2>3. ClearOutput(c) \in EditType(n)
    BY <1>2, ClearType
  <2>4. ClearIfNecessary(c) = <<>> \/ ClearIfNecessary(c) = <<ClearOutput(c)>>
    BY DEF ClearIfNecessary
  <2> DEFINE x == ClearOutput(c)
             E == EditType(n)
  <2>5. edits = <<>> \o <<a>> \/ edits = <<x>> \o <<a>>
    BY <2>4
  <2> HIDE DEF a, x, E, edits
  <2>6. edits = <<a>> \/ edits = <<x, a>>
    BY <2>5
  <2>7. edits \in Seq(E) /\ edits # <<>>
    BY <2>2, <2>3, <2>6, FewEdits DEF x, E
  <2> QED
    BY <2>7 DEF E
<1> HIDE DEF edits
<1>4. Edited
  BY <1>1, <1>2, <1>3, EditKeeps
<1>5. Remembers
  BY <1>2, MemoryGrows
<1>6. lastStream' \in [Cells -> UsedStream(Len(sent')) \cup {None}]
  BY <1>1, <1>2, <1>5, ForgetType
<1>7. clearOnNext' \subseteq Cells
  BY <1>1, <1>5, FlagType
<1>8. /\ tracked' \in [Displays -> Followed(Len(sent')) \cup {None}]
      /\ lastDisplay' \in [Cells -> Displays \cup {None}]
  <2>1. CASE UNCHANGED <<tracked, lastDisplay>>
    BY <1>5, <2>1 DEF Remembers
  <2>2. CASE d # None /\ Track(c, d, Number)
    <3>1. Number \in 1..Len(sent') /\ d \in Displays
      BY <1>2, <2>2, Grow
    <3> QED
      BY <1>2, <1>5, <2>2, <3>1, TrackType
  <2> QED
    BY <1>1, <2>1, <2>2
<1>9. MemoryType'
  BY <1>1, <1>5, <1>6, <1>7, <1>8 DEF Remembers, MemoryType
<1> QED
  BY <1>1, <1>4, <1>9, MessageStep

\* The stream output that the text of a message goes on in.
LEMMA StreamOfType ==
    ASSUME OutputsInv, NEW e \in Executions, NEW stream \in Streams
    PROVE  StreamOf(e, stream) \in UsedStream(Len(sent)) \cup {None}
<1> DEFINE c == CellOf[e]
<1>1. c \in Cells /\ outputs[c] \in Seq(Output(Len(sent)))
  BY Constants DEF OutputsInv, EditsType, Shown
<1>2. lastStream[c] \in UsedStream(Len(sent)) \cup {None}
  BY <1>1 DEF OutputsInv, MemoryType
<1>3. CASE Resumable(e, stream)
  <2>1. outputs[c] # <<>>
    BY <1>3 DEF Resumable
  <2>2. outputs[c][1] \in Output(Len(sent))
    BY <1>1, <2>1, LenProperties, EmptySeq, ElementOfSeq
  <2>3. outputs[c][1].id \in 0..Len(sent)
    BY <2>2 DEF Output
  <2>4. StreamOf(e, stream) = [stream |-> stream, id |-> outputs[c][1].id]
    BY <1>3 DEF StreamOf
  <2> QED
    BY <2>3, <2>4 DEF UsedStream
<1>4. CASE ~Resumable(e, stream)
  BY <1>2, <1>4 DEF StreamOf
<1> QED
  BY <1>3, <1>4

LEMMA StreamStep ==
    ASSUME OutputsInv, NEW e \in Executions, NEW stream \in Streams, Stream(e, stream)
    PROVE  OutputsInv'
<1> DEFINE c     == CellOf[e]
           clear == c \in clearOnNext
           used  == IF clear THEN None ELSE StreamOf(e, stream)
           more  == used # None /\ used.stream = stream
           new   == [stream |-> stream, id |-> Number]
           fresh == IF clear
                    THEN <<ClearOutput(c), ReplaceOutput(c, <<NewOutput(stream, None)>>)>>
                    ELSE <<AppendOutput(c, NewOutput(stream, None))>>
           last  == IF clear /\ Refuses(Task(e, TRUE)) THEN None ELSE new
           n     == Len(sent) + 1
<1>1. /\ Message(e, stream, None) /\ reattached' = reattached \cup {c}
      /\ FlagAfter(e, c) /\ UNCHANGED <<tracked, lastDisplay>>
  BY DEF Stream, trackerVars
<1>2. \/ /\ used # None
         /\ Edit(e, TRUE, <<AppendItems(c, used.id)>>)
         /\ lastStream' = [lastStream EXCEPT ![c] = used]
      \/ /\ Edit(e, TRUE, fresh)
         /\ lastStream' = [lastStream EXCEPT ![c] = last]
  BY DEF Stream
<1>3. Len(sent') = n /\ Len(sent) \in Nat /\ n \in Nat /\ c \in Cells
  <2>1. Len(sent') = Len(sent) + 1 /\ Len(sent) \in Nat
    BY <1>1, MessageKeeps
  <2>2. c \in Cells
    BY Constants
  <2> QED
    BY <2>1, <2>2
<1>4. Remembers
  BY <1>3, MemoryGrows
<1>5. used # None => used \in UsedStream(n) /\ used.id \in 0..n
  <2>1. StreamOf(e, stream) \in UsedStream(Len(sent)) \cup {None}
    BY StreamOfType
  <2>2. used # None => used \in UsedStream(Len(sent))
    BY <2>1
  <2>3. 0..Len(sent) \subseteq 0..n
    BY <1>3
  <2> HIDE DEF used, n
  <2> QED
    BY <2>2, <2>3 DEF UsedStream
<1>6. new \in UsedStream(n)
  <2>1. Number \in 0..n
    BY <1>3, NumberType
  <2> HIDE DEF n
  <2> QED
    BY <2>1 DEF UsedStream
<1>7. last \in UsedStream(n) \cup {None}
  BY <1>6
<1>8. fresh \in Seq(EditType(n)) /\ fresh # <<>>
  <2> DEFINE o == NewOutput(stream, None)
  <2>1. o \in Output(n)
    BY <1>3, NewOutputType
  <2>2. AppendOutput(c, o) \in EditType(n)
    BY <1>3, <2>1, AppendOutputType
  <2>3. ClearOutput(c) \in EditType(n)
    BY <1>3, ClearType
  <2>4. <<o>> \in Seq(Output(n))
    BY <2>1, FewEdits
  <2>5. ReplaceOutput(c, <<o>>) \in EditType(n)
    BY <1>3, <2>4, ReplaceOutputType
  <2> DEFINE x == ClearOutput(c)
             y == ReplaceOutput(c, <<o>>)
             z == AppendOutput(c, o)
             E == EditType(n)
  <2>6. fresh = <<x, y>> \/ fresh = <<z>>
    OBVIOUS
  <2> HIDE DEF x, y, z, E, fresh
  <2>7. fresh \in Seq(E) /\ fresh # <<>>
    BY <2>2, <2>3, <2>5, <2>6, FewEdits DEF x, y, z, E
  <2> QED
    BY <2>7 DEF E
<1> HIDE DEF used, last, fresh
<1>9. Edited /\ lastStream' \in [Cells -> UsedStream(n) \cup {None}]
  <2>1. CASE /\ used # None
             /\ Edit(e, TRUE, <<AppendItems(c, used.id)>>)
             /\ lastStream' = [lastStream EXCEPT ![c] = used]
    <3>1. AppendItems(c, used.id) \in EditType(n)
      BY <1>3, <1>5, <2>1, ItemEditType
    <3> DEFINE edits == <<AppendItems(c, used.id)>>
    <3>2. edits \in Seq(EditType(n)) /\ edits # <<>>
      BY <3>1, FewEdits
    <3> HIDE DEF edits
    <3>3. Edit(e, TRUE, edits)
      BY <2>1 DEF edits
    <3>4. Edited
      BY <1>3, <3>2, <3>3, EditKeeps
    <3>5. lastStream' \in [Cells -> UsedStream(n) \cup {None}]
      BY <1>3, <1>4, <1>5, <2>1 DEF Remembers
    <3> QED
      BY <3>4, <3>5
  <2>2. CASE /\ Edit(e, TRUE, fresh)
             /\ lastStream' = [lastStream EXCEPT ![c] = last]
    <3>1. Edited
      BY <1>3, <1>8, <2>2, EditKeeps
    <3>2. lastStream' \in [Cells -> UsedStream(n) \cup {None}]
      BY <1>3, <1>4, <1>7, <2>2 DEF Remembers
    <3> QED
      BY <3>1, <3>2
  <2> QED
    BY <1>2, <2>1, <2>2
<1>10. clearOnNext' \subseteq Cells
  BY <1>1, <1>4, FlagType
<1>11. reattached' \subseteq Cells
  BY <1>1, <1>3, <1>4 DEF Remembers
<1>12. MemoryType'
  BY <1>1, <1>3, <1>4, <1>9, <1>10, <1>11 DEF Remembers, MemoryType
<1> QED
  BY <1>1, <1>9, <1>12, MessageStep

\* The outputs of a cell with one of them replaced.
LEMMA WithDisplayType ==
    ASSUME NEW n \in Nat, NEW s \in Seq(Output(n)), NEW d, NEW o \in Output(n + 1)
    PROVE  WithDisplay(s, d, o) \in Seq(Output(n + 1))
<1>1. DOMAIN s = 1..Len(s) /\ Len(s) \in Nat /\ \A i \in 1..Len(s) : s[i] \in Output(n)
  BY LenProperties, ElementOfSeq
<1>2. \A i \in 1..Len(s) : s[i] \in Output(n + 1)
  BY <1>1, OutputGrows
<1>3. WithDisplay(s, d, o) \in [1..Len(s) -> Output(n + 1)]
  BY <1>1, <1>2 DEF WithDisplay
<1> QED
  BY <1>1, <1>3, SeqDef

\* An update changes the output of the cell that shows the display, which is tracked on.
LEMMA TrackedEdit ==
    ASSUME OutputsInv, NEW e \in Executions, NEW kind, NEW d \in Displays,
           Message(e, kind, d), tracked[d] # None,
           NEW edit, edit \in EditType(Len(sent) + 1), Edit(e, FALSE, <<edit>>),
           NEW id \in 1..Len(sent'),
           UNCHANGED <<tracked, lastDisplay>> \/ Track(tracked[d].cell, d, id),
           UNCHANGED <<clearOnNext, lastStream, reattached>>
    PROVE  OutputsInv'
<1>1. Len(sent') = Len(sent) + 1
  BY MessageKeeps
<1>2. Remembers
  BY <1>1, MemoryGrows
<1>3. tracked[d].cell \in Cells
  BY DEF OutputsInv, MemoryType, Followed
<1>4. Edited
  <2> DEFINE edits == <<edit>>
  <2>1. edits \in Seq(EditType(Len(sent) + 1)) /\ edits # <<>>
    BY FewEdits
  <2> HIDE DEF edits
  <2>2. Edit(e, FALSE, edits)
    BY DEF edits
  <2> QED
    BY <1>1, <2>1, <2>2, EditKeeps
<1>5. /\ tracked' \in [Displays -> Followed(Len(sent')) \cup {None}]
      /\ lastDisplay' \in [Cells -> Displays \cup {None}]
  <2>1. CASE UNCHANGED <<tracked, lastDisplay>>
    BY <1>2, <2>1 DEF Remembers
  <2>2. CASE Track(tracked[d].cell, d, id)
    BY <1>2, <1>3, <2>2, TrackType
  <2> QED
    BY <2>1, <2>2
<1>6. MemoryType'
  BY <1>2, <1>5 DEF Remembers, MemoryType
<1> QED
  BY <1>4, <1>6, MessageStep

\* An update of a display nobody tracks changes nothing.
LEMMA UntrackedStep ==
    ASSUME OutputsInv, NEW e \in Executions, NEW kind, NEW d, Message(e, kind, d), Quiet(e),
           UNCHANGED <<clearOnNext, lastStream, reattached, tracked, lastDisplay>>
    PROVE  OutputsInv'
<1>1. Len(sent') = Len(sent) + 1
  BY MessageKeeps
<1>2. Remembers
  BY <1>1, MemoryGrows
<1>3. Edited
  BY <1>1, QuietKeeps
<1>4. MemoryType'
  BY <1>2 DEF Remembers, MemoryType
<1> QED
  BY <1>3, <1>4, MessageStep

LEMMA UpdateStep ==
    ASSUME OutputsInv, NEW e \in Executions, NEW d \in Displays, Update(e, d)
    PROVE  OutputsInv'
<1>1. Message(e, "update", d) /\ UNCHANGED <<clearOnNext, lastStream, reattached>>
  BY DEF Update
<1>2. CASE tracked[d] = None
  <2>1. Quiet(e) /\ UNCHANGED <<tracked, lastDisplay>>
    BY <1>2 DEF Update, trackerVars
  <2> QED
    BY <1>1, <2>1, UntrackedStep
<1>3. CASE tracked[d] # None
  <2> DEFINE edit == ReplaceItems(tracked[d].cell, tracked[d].id)
             id   == tracked[d].id
  <2>1. /\ Edit(e, FALSE, <<edit>>)
        /\ UNCHANGED <<tracked, lastDisplay>> \/ Track(tracked[d].cell, d, id)
    BY <1>3 DEF Update, trackerVars
  <2>2. Len(sent') = Len(sent) + 1 /\ Len(sent) \in Nat
    BY <1>1, MessageKeeps
  <2>3. tracked[d] \in Followed(Len(sent))
    BY <1>3 DEF OutputsInv, MemoryType
  <2>4. tracked[d].cell \in Cells /\ id \in 1..Len(sent)
    BY <2>3 DEF Followed
  <2> HIDE DEF id
  <2>5. id \in 1..Len(sent') /\ id \in 0..(Len(sent) + 1)
    BY <2>2, <2>4
  <2>6. edit \in EditType(Len(sent) + 1)
    BY <2>2, <2>4, <2>5, ItemEditType DEF id
  <2> HIDE DEF edit
  <2> QED
    BY <1>1, <1>3, <2>1, <2>5, <2>6, TrackedEdit
<1> QED
  BY <1>2, <1>3

LEMMA UpdateMetadataStep ==
    ASSUME OutputsInv, NEW e \in Executions, NEW d \in Displays, UpdateMetadata(e, d)
    PROVE  OutputsInv'
<1>1. Message(e, "metadata", d) /\ UNCHANGED <<clearOnNext, lastStream, reattached>>
  BY DEF UpdateMetadata
<1>2. CASE tracked[d] = None
  <2>1. Quiet(e) /\ UNCHANGED <<tracked, lastDisplay>>
    BY <1>2 DEF UpdateMetadata, trackerVars
  <2> QED
    BY <1>1, <2>1, UntrackedStep
<1>3. CASE tracked[d] # None
  <2> DEFINE c    == tracked[d].cell
             s    == WithDisplay(outputs[c], d, NewOutput("", d))
             edit == ReplaceOutput(c, s)
  <2>1. /\ Edit(e, FALSE, <<edit>>)
        /\ UNCHANGED <<tracked, lastDisplay>> \/ Track(tracked[d].cell, d, Number)
    BY <1>3 DEF UpdateMetadata, trackerVars
  <2>2. Len(sent') = Len(sent) + 1 /\ Len(sent) \in Nat
    BY <1>1, MessageKeeps
  <2>3. tracked[d] \in Followed(Len(sent))
    BY <1>3 DEF OutputsInv, MemoryType
  <2>4. c \in Cells
    BY <2>3 DEF Followed
  <2>5. outputs[c] \in Seq(Output(Len(sent)))
    BY <2>4 DEF OutputsInv, EditsType, Shown
  <2>6. NewOutput("", d) \in Output(Len(sent) + 1)
    BY <2>2, NewOutputType
  <2>7. s \in Seq(Output(Len(sent) + 1))
    BY <2>2, <2>5, <2>6, WithDisplayType
  <2> HIDE DEF s
  <2>8. edit \in EditType(Len(sent) + 1)
    BY <2>2, <2>4, <2>7, ReplaceOutputType
  <2>9. Number \in 1..Len(sent')
    BY <2>2, Grow
  <2> HIDE DEF edit
  <2> QED
    BY <1>1, <1>3, <2>1, <2>8, <2>9, TrackedEdit
<1> QED
  BY <1>2, <1>3

\* A step that sends no message.
LEMMA NoMessage ==
    ASSUME OutputsInv, LifeInv', outputs' \in Shown(Len(sent)), pending' \in Grouped(Len(sent)),
           clearOnNext' \subseteq Cells, reattached' \subseteq Cells,
           lastStream' \in [Cells -> UsedStream(Len(sent)) \cup {None}],
           tracked' \in [Displays -> Followed(Len(sent)) \cup {None}],
           lastDisplay' \in [Cells -> Displays \cup {None}],
           UNCHANGED <<sent, refused>>
    PROVE  OutputsInv'
<1>1. SentType'
  BY DEF OutputsInv, SentType, IsSequence
<1>2. EditsType'
  BY DEF EditsType
<1>3. MemoryType'
  BY DEF MemoryType
<1>4. RefusedType'
  BY DEF OutputsInv, RefusedType
<1> QED
  BY <1>1, <1>2, <1>3, <1>4 DEF OutputsInv

LEMMA LifeStep ==
    ASSUME OutputsInv, NEW e \in Executions, Queue(e) \/ Start(e) \/ Done(e)
    PROVE  OutputsInv'
<1>1. /\ exec \in [Executions -> Lives] /\ task \in [Executions -> TaskStates]
      /\ active \in Executions \cup {None} /\ handler \in [Cells -> Executions \cup {None}]
      /\ acknowledged \subseteq Executions /\ CellOf[e] \in Cells /\ None \notin Executions
  BY Constants DEF OutputsInv, LifeInv, LifeType
<1>2. /\ \A f \in Executions : Running(f) <=> active = f
      /\ \A c \in Cells : handler[c] # None => exec[handler[c]] \in {"running", "done"}
  BY DEF OutputsInv, LifeInv, OneRuns, HandlersRan
<1>3. CASE Queue(e)
  <2>1. /\ exec[e] = "new" /\ exec' = [exec EXCEPT ![e] = "queued"]
        /\ task' = [task EXCEPT ![e] = "created"]
        /\ UNCHANGED <<active, handler, acknowledged, clearOnNext, reattached, lastStream, tracked,
                       lastDisplay, outputs, pending, sent, refused>>
    BY <1>3 DEF Queue, handlerVars, trackerVars, historyVars
  <2>2. LifeType'
    BY <1>1, <2>1 DEF LifeType, Lives, TaskStates
  <2>3. OneRuns'
    BY <1>1, <1>2, <2>1 DEF OneRuns, Running
  <2>4. HandlersRan'
    BY <1>1, <1>2, <2>1 DEF HandlersRan
  <2>5. LifeInv'
    BY <2>2, <2>3, <2>4 DEF LifeInv
  <2> QED
    BY <2>1, <2>5, NoMessage DEF OutputsInv, EditsType, MemoryType
<1>4. CASE Start(e)
  <2>1. /\ exec[e] = "queued" /\ exec' = [exec EXCEPT ![e] = "running"]
        /\ \A f \in Executions : ~Running(f)
        /\ active' = e /\ handler' = [handler EXCEPT ![CellOf[e]] = e]
        /\ task' = task \/ task' = [task EXCEPT ![e] = "started"]
        /\ UNCHANGED <<acknowledged, tracked, lastDisplay, outputs, pending, sent, refused>>
    BY <1>4 DEF Start, trackerVars, historyVars
  <2>2. LifeType'
    BY <1>1, <2>1 DEF LifeType, Lives, TaskStates
  <2>3. OneRuns'
    BY <1>1, <2>1 DEF OneRuns, Running
  <2>4. HandlersRan'
    BY <1>1, <1>2, <2>1 DEF HandlersRan
  <2>5. LifeInv'
    BY <2>2, <2>3, <2>4 DEF LifeInv
  <2>6. clearOnNext' \subseteq Cells /\ reattached' \subseteq Cells
    BY <1>4 DEF Start, OutputsInv, MemoryType
  <2>7. lastStream' \in [Cells -> UsedStream(Len(sent)) \cup {None}]
    BY <1>4 DEF Start, OutputsInv, MemoryType
  <2> QED
    BY <2>1, <2>5, <2>6, <2>7, NoMessage DEF OutputsInv, EditsType, MemoryType
<1>5. CASE Done(e)
  <2>1. /\ Running(e) /\ exec' = [exec EXCEPT ![e] = "done"]
        /\ active' = None /\ task' = [task EXCEPT ![e] = "ended"]
        /\ UNCHANGED <<handler, acknowledged, clearOnNext, reattached, tracked,
                       lastDisplay, outputs, pending, sent, refused>>
    BY <1>5 DEF Done, trackerVars, historyVars
  <2>2. LifeType'
    BY <1>1, <2>1 DEF LifeType, Lives, TaskStates
  <2>3. OneRuns'
    BY <1>1, <1>2, <2>1 DEF OneRuns, Running
  <2>4. HandlersRan'
    BY <1>1, <1>2, <2>1 DEF HandlersRan
  <2>5. LifeInv'
    BY <2>2, <2>3, <2>4 DEF LifeInv
  <2>6. lastStream' \in [Cells -> UsedStream(Len(sent)) \cup {None}]
    BY <1>5 DEF Done, OutputsInv, MemoryType
  <2> QED
    BY <2>1, <2>5, <2>6, NoMessage DEF OutputsInv, EditsType, MemoryType
<1> QED
  BY <1>3, <1>4, <1>5

LEMMA SeenType ==
    ASSUME OutputsInv, NEW cells, SeenEmpty(cells)
    PROVE  /\ lastStream' \in [Cells -> UsedStream(Len(sent)) \cup {None}]
           /\ tracked' \in [Displays -> Followed(Len(sent)) \cup {None}]
           /\ lastDisplay' \in [Cells -> Displays \cup {None}]
<1>1. /\ lastStream \in [Cells -> UsedStream(Len(sent)) \cup {None}]
      /\ tracked \in [Displays -> Followed(Len(sent)) \cup {None}]
      /\ lastDisplay \in [Cells -> Displays \cup {None}]
  BY DEF OutputsInv, MemoryType
<1> QED
  BY <1>1 DEF SeenEmpty

LEMMA LifeUnchanged ==
    ASSUME OutputsInv, UNCHANGED <<exec, task, active, handler, acknowledged>>
    PROVE  LifeInv'
  BY DEF OutputsInv, LifeInv, LifeType, OneRuns, HandlersRan, Running

LEMMA EditsShownStep ==
    ASSUME OutputsInv, EditsShown
    PROVE  OutputsInv'
<1>1. PICK k \in 1..Len(pending) :
        /\ outputs' = ApplyAll(outputs, FlattenSeq(SubSeq(pending, 1, k)))
        /\ pending' = SubSeq(pending, k + 1, Len(pending))
        /\ \E cells : SeenEmpty(cells)
        /\ UNCHANGED <<execVars, handler, acknowledged, clearOnNext, reattached, historyVars>>
  BY DEF EditsShown
<1>2. UNCHANGED <<exec, task, active, handler, acknowledged, clearOnNext, reattached, sent, refused>>
  BY <1>1 DEF execVars, historyVars
<1>3. Len(sent) \in Nat
  BY LenProperties DEF OutputsInv, SentType, IsSequence
<1> DEFINE n == Len(sent)
           G == Seq(EditType(n)) \ {<<>>}
<1>4. pending \in Seq(G) /\ Len(pending) \in Nat
  BY LenProperties DEF OutputsInv, EditsType, Grouped
<1> HIDE DEF G
<1>5. SubSeq(pending, 1, k) \in Seq(G) /\ SubSeq(pending, k + 1, Len(pending)) \in Seq(G)
  <2>1. k \in Nat /\ k <= Len(pending) /\ k + 1 \in Nat /\ k + 1 >= 1
    BY <1>4
  <2> QED
    BY <1>4, <2>1, SubSeqRange
<1>6. SubSeq(pending, 1, k) \in Seq(Seq(EditType(n)))
  <2>1. G \subseteq Seq(EditType(n))
    BY DEF G
  <2>2. Seq(G) \subseteq Seq(Seq(EditType(n)))
    BY <2>1
  <2> QED
    BY <1>5, <2>2
<1>7. FlattenSeq(SubSeq(pending, 1, k)) \in Seq(EditType(n))
  BY <1>6, FlattenType
<1>8. outputs' \in Shown(n)
  BY <1>1, <1>3, <1>7, ApplyAllType DEF OutputsInv, EditsType
<1>9. pending' \in Grouped(n)
  BY <1>1, <1>5 DEF G, Grouped
<1>10. LifeInv'
  BY <1>2, LifeUnchanged
<1>11. /\ lastStream' \in [Cells -> UsedStream(Len(sent)) \cup {None}]
       /\ tracked' \in [Displays -> Followed(Len(sent)) \cup {None}]
       /\ lastDisplay' \in [Cells -> Displays \cup {None}]
  BY <1>1, SeenType
<1>12. clearOnNext' \subseteq Cells /\ reattached' \subseteq Cells
  BY <1>2 DEF OutputsInv, MemoryType
<1> QED
  BY <1>2, <1>8, <1>9, <1>10, <1>11, <1>12, NoMessage

LEMMA UserClearsStep ==
    ASSUME OutputsInv, NEW c \in Cells, UserClears(c)
    PROVE  OutputsInv'
<1>1. /\ UNCHANGED <<exec, task, active, handler, acknowledged, clearOnNext, reattached, pending,
                     sent, refused>>
      /\ outputs' = [outputs EXCEPT ![c] = <<>>]
      /\ SeenEmpty({c})
  BY DEF UserClears, execVars, historyVars
<1>2. outputs' \in Shown(Len(sent))
  BY <1>1 DEF OutputsInv, EditsType, Shown
<1>3. pending' \in Grouped(Len(sent))
  BY <1>1 DEF OutputsInv, EditsType
<1>4. LifeInv'
  BY <1>1, LifeUnchanged
<1>5. /\ lastStream' \in [Cells -> UsedStream(Len(sent)) \cup {None}]
      /\ tracked' \in [Displays -> Followed(Len(sent)) \cup {None}]
      /\ lastDisplay' \in [Cells -> Displays \cup {None}]
  BY <1>1, SeenType
<1>6. clearOnNext' \subseteq Cells /\ reattached' \subseteq Cells
  BY <1>1 DEF OutputsInv, MemoryType
<1> QED
  BY <1>1, <1>2, <1>3, <1>4, <1>5, <1>6, NoMessage

LEMMA OutputsInvNext == OutputsInv /\ [Next]_vars => OutputsInv'
<1> SUFFICES ASSUME OutputsInv, [Next]_vars PROVE OutputsInv'
  OBVIOUS
<1>1. ASSUME NEW e \in Executions, Queue(e) \/ Start(e) \/ Done(e) PROVE OutputsInv'
  BY <1>1, LifeStep
<1>2. ASSUME NEW e \in Executions, Status(e) \/ ClearWait(e) PROVE OutputsInv'
  BY <1>2, StatusStep
<1>3. ASSUME NEW e \in Executions, Clear(e) PROVE OutputsInv'
  BY <1>3, ClearStep
<1>4. ASSUME NEW e \in Executions, NEW stream \in Streams, Stream(e, stream) PROVE OutputsInv'
  BY <1>4, StreamStep
<1>5. ASSUME NEW e \in Executions, AddToCellData(e, "result", None) PROVE OutputsInv'
  BY <1>5, AddToCellDataStep
<1>6. ASSUME NEW e \in Executions, NEW d \in Displays, AddToCellData(e, "display", d)
      PROVE  OutputsInv'
  BY <1>6, AddToCellDataStep
<1>7. ASSUME NEW e \in Executions, NEW d \in Displays, Update(e, d) PROVE OutputsInv'
  BY <1>7, UpdateStep
<1>8. ASSUME NEW e \in Executions, NEW d \in Displays, UpdateMetadata(e, d) PROVE OutputsInv'
  BY <1>8, UpdateMetadataStep
<1>9. CASE EditsShown
  BY <1>9, EditsShownStep
<1>10. ASSUME NEW c \in Cells, UserClears(c) PROVE OutputsInv'
  BY <1>10, UserClearsStep
<1>11. CASE UNCHANGED vars
  <2>1. /\ UNCHANGED <<exec, task, active, handler, acknowledged, clearOnNext, reattached,
                       lastStream, tracked, lastDisplay>>
        /\ UNCHANGED <<outputs, pending, sent, refused>>
    BY <1>11 DEF vars, execVars, handlerVars, trackerVars, historyVars
  <2>2. LifeInv'
    BY <2>1, LifeUnchanged
  <2>3. OutputsInv'
    BY <2>1, <2>2, NoMessage DEF OutputsInv, EditsType, MemoryType
  <2> QED
    BY <2>3
<1> QED
  BY <1>1, <1>2, <1>3, <1>4, <1>5, <1>6, <1>7, <1>8, <1>9, <1>10, <1>11 DEF Next

LEMMA OutputsInvTypes == OutputsInv => TypeOK
<1> SUFFICES ASSUME OutputsInv PROVE TypeOK
  OBVIOUS
<1> DEFINE n == Len(sent)
<1>1. n \in Nat /\ n <= MaxMessages /\ MaxMessages \in Nat
  BY LenProperties, Constants DEF OutputsInv, SentType, IsSequence
<1>2. /\ exec \in [Executions -> {"new", "queued", "running", "done"}]
      /\ task \in [Executions -> {"none", "created", "started", "ended"}]
      /\ active \in Executions \cup {None} /\ acknowledged \subseteq Executions
  BY DEF OutputsInv, LifeInv, LifeType, Lives, TaskStates
<1>3. /\ \A e \in Executions : Running(e) <=> active = e
      /\ \A c \in Cells : handler[c] # None => exec[handler[c]] \in {"running", "done"}
  BY DEF OutputsInv, LifeInv, OneRuns, HandlersRan
<1>4. /\ clearOnNext \subseteq Cells /\ reattached \subseteq Cells
      /\ lastDisplay \in [Cells -> Displays \cup {None}]
      /\ \A c \in Cells : lastStream[c] # None =>
             lastStream[c] \in [stream : Streams, id : 0..Len(sent)]
      /\ \A d \in Displays : tracked[d] # None => tracked[d] \in [cell : Cells, id : 1..Len(sent)]
  BY DEF OutputsInv, MemoryType, UsedStream, Followed
<1>5. \A c \in Cells : outputs[c] \in Seq(OutputsType)
  <2>1. 0..n \subseteq 0..MaxMessages
    BY <1>1
  <2>2. Seq(0..n) \subseteq Seq(0..MaxMessages)
    BY <2>1, SequenceGrows
  <2>3. Output(n) \subseteq OutputsType
    BY <2>1, <2>2 DEF Output, OutputsType
  <2>4. Seq(Output(n)) \subseteq Seq(OutputsType)
    BY <2>3
  <2> QED
    BY <2>4 DEF OutputsInv, EditsType, Shown
<1>6. \A p \in DOMAIN pending : pending[p] # <<>>
  <2> DEFINE G == Seq(EditType(n)) \ {<<>>}
  <2>1. pending \in Seq(G) /\ <<>> \notin G
    BY DEF OutputsInv, EditsType, Grouped
  <2> HIDE DEF G
  <2>2. \A p \in 1..Len(pending) : pending[p] \in G
    BY <2>1, ElementOfSeq
  <2> QED
    BY <2>1, <2>2, LenProperties
<1>7. refused \subseteq 1..Len(sent)
  BY DEF OutputsInv, RefusedType
<1> QED
  BY <1>2, <1>3, <1>4, <1>5, <1>6, <1>7 DEF TypeOK

\* The fields of the handlers, the tracker and the creator keep their types, every edit that
\* VS Code is asked to make is one of a cell and its outputs, and the execution of
\* activeNotebookCellExecution is the one that runs.
THEOREM OutputsTypeCorrect == Spec => []TypeOK
<1>1. Init => OutputsInv
  BY OutputsInvInit
<1>2. OutputsInv /\ [Next]_vars => OutputsInv'
  BY OutputsInvNext
<1>3. OutputsInv => TypeOK
  BY OutputsInvTypes
<1> QED
  BY <1>1, <1>2, <1>3, PTL DEF Spec

-----------------------------------------------------------------------------
(* No output is refused *)

\* No cell whose threads print in the background is executed again.
NotAgain ==
    \A e \in Background : \A f \in Executions : CellOf[f] = CellOf[e] => f = e

\* The task of an execution is open from its creation until the execution is done.
TasksOpen ==
    \A e \in Executions :
        /\ exec[e] \in {"queued", "running"} => task[e] \in {"created", "started"}
        /\ exec[e] = "done" => task[e] = "ended"
        /\ exec[e] = "new" => task[e] = "none"

AcceptInv == OutputsInv /\ TasksOpen /\ NoOutputRefused

LEMMA AcceptInit == Init => TasksOpen /\ NoOutputRefused
  BY DEF Init, TasksOpen, NoOutputRefused

\* The task of a message is the one of an execution that runs, if there is one: a thread in
\* the background finds no task of its own cell, which has ended with the execution.
LEMMA RunningTask ==
    ASSUME AcceptInv, NotAgain, NEW e \in Executions, NEW own \in BOOLEAN,
           NEW kind, NEW d, Message(e, kind, d)
    PROVE  \/ Task(e, own) = None
           \/ Task(e, own) \in Executions /\ Running(Task(e, own)) /\ ~Temporary(e, own)
<1> DEFINE t == Task(e, own)
<1>1. Owns(e, t) /\ (Temporary(e, own) => ~Running(e) /\ t # active)
  BY TaskIs DEF AcceptInv, OutputsInv
<1>2. \A f \in Executions : Running(f) <=> active = f
  BY DEF AcceptInv, OutputsInv, LifeInv, OneRuns
<1> HIDE DEF t
<1>3. CASE t \in Executions /\ Running(t)
  <2>1. active = t
    BY <1>2, <1>3
  <2> QED
    BY <1>1, <1>3, <2>1 DEF t
<1>4. CASE t \in Executions /\ t \in Wrappers(CellOf[e]) /\ ~Running(e)
  <2>1. exec[e] = "done" /\ e \in Background
    BY <1>4 DEF Message
  <2>2. CellOf[t] = CellOf[e] /\ task[t] \in {"created", "started"}
    BY <1>4 DEF Wrappers
  <2>3. t = e
    BY <1>4, <2>1, <2>2 DEF NotAgain
  <2>4. task[e] = "ended"
    BY <2>1 DEF AcceptInv, TasksOpen
  <2> QED
    BY <2>2, <2>3, <2>4
<1> QED
  BY <1>1, <1>3, <1>4 DEF Owns, t

\* The tasks after a message.
Accepted == TasksOpen' /\ NoOutputRefused'

LEMMA QuietAccepted ==
    ASSUME AcceptInv, NEW e \in Executions, Quiet(e), exec' = exec
    PROVE  Accepted
<1>1. task \in [Executions -> TaskStates]
  BY DEF AcceptInv, OutputsInv, LifeInv, LifeType
<1>2. refused' = refused
  BY DEF Quiet
<1>3. CASE Acknowledges(e)
  <2>1. exec[e] = "running" /\ task' = [task EXCEPT ![e] = "started"]
    BY <1>3 DEF Quiet, Acknowledges, Running
  <2>2. TasksOpen'
    BY <1>1, <2>1 DEF AcceptInv, TasksOpen
  <2> QED
    BY <1>2, <2>2 DEF Accepted, AcceptInv, NoOutputRefused
<1>4. CASE ~Acknowledges(e)
  <2>1. task' = task
    BY <1>4 DEF Quiet
  <2>2. TasksOpen'
    BY <2>1 DEF AcceptInv, TasksOpen
  <2> QED
    BY <1>2, <2>2 DEF Accepted, AcceptInv, NoOutputRefused
<1> QED
  BY <1>3, <1>4

LEMMA EditAccepted ==
    ASSUME AcceptInv, NotAgain, NEW e \in Executions, NEW kind, NEW d, Message(e, kind, d),
           NEW own \in BOOLEAN, NEW edits, Edit(e, own, edits)
    PROVE  Accepted
<1> DEFINE t == Task(e, own)
<1>1. \/ t = None
      \/ t \in Executions /\ Running(t) /\ ~Temporary(e, own)
  BY RunningTask
<1>2. task \in [Executions -> TaskStates] /\ exec' = exec
  BY DEF AcceptInv, OutputsInv, LifeInv, LifeType, Message
<1>3. ~Refuses(t)
  <2>1. CASE t = None
    BY <2>1 DEF Refuses
  <2>2. CASE t \in Executions /\ Running(t)
    <3> HIDE DEF t
    <3>1. task[t] \in {"created", "started"}
      BY <2>2 DEF AcceptInv, TasksOpen, Running
    <3> QED
      BY <3>1 DEF Refuses
  <2> QED
    BY <1>1, <2>1, <2>2
<1>4. /\ task' = IF t = None THEN task
                 ELSE [task EXCEPT ![t] = IF Temporary(e, own) THEN "ended" ELSE "started"]
      /\ refused' = refused
  BY <1>3 DEF Edit
<1> HIDE DEF t
<1>5. CASE t = None
  <2>1. TasksOpen'
    BY <1>2, <1>4, <1>5 DEF AcceptInv, TasksOpen
  <2> QED
    BY <1>4, <2>1 DEF Accepted, AcceptInv, NoOutputRefused
<1>6. CASE t \in Executions /\ Running(t) /\ ~Temporary(e, own)
  <2>1. t # None
    BY <1>6, Constants
  <2>2. task' = [task EXCEPT ![t] = "started"] /\ exec[t] = "running"
    BY <1>4, <1>6, <2>1 DEF Running
  <2>3. TasksOpen'
    BY <1>2, <2>2 DEF AcceptInv, TasksOpen
  <2> QED
    BY <1>4, <2>3 DEF Accepted, AcceptInv, NoOutputRefused
<1> QED
  BY <1>1, <1>5, <1>6

LEMMA LifeAccepted ==
    ASSUME AcceptInv, NEW e \in Executions, Queue(e) \/ Start(e) \/ Done(e)
    PROVE  Accepted
<1>1. /\ exec \in [Executions -> Lives] /\ task \in [Executions -> TaskStates]
      /\ TasksOpen
  BY DEF AcceptInv, OutputsInv, LifeInv, LifeType
<1>2. refused' = refused
  BY DEF Queue, Start, Done, historyVars
<1>3. ASSUME Queue(e) PROVE TasksOpen'
  BY <1>1, <1>3 DEF Queue, TasksOpen
<1>4. ASSUME Start(e) PROVE TasksOpen'
  <2>1. /\ exec[e] = "queued" /\ exec' = [exec EXCEPT ![e] = "running"]
        /\ task' = task \/ (task[e] = "created" /\ task' = [task EXCEPT ![e] = "started"])
    BY <1>4 DEF Start
  <2> QED
    BY <1>1, <2>1 DEF TasksOpen
<1>5. ASSUME Done(e) PROVE TasksOpen'
  BY <1>1, <1>5 DEF Done, TasksOpen
<1>6. TasksOpen'
  BY <1>3, <1>4, <1>5
<1> QED
  BY <1>2, <1>6 DEF Accepted, AcceptInv, NoOutputRefused

LEMMA NothingAccepted ==
    ASSUME AcceptInv, UNCHANGED <<exec, task, refused>>
    PROVE  Accepted
<1>1. TasksOpen'
  BY DEF AcceptInv, TasksOpen
<1> QED
  BY <1>1 DEF Accepted, AcceptInv, NoOutputRefused

LEMMA AcceptNext ==
    ASSUME NotAgain, AcceptInv, [Next]_vars
    PROVE  AcceptInv'
<1>1. ASSUME NEW e \in Executions, Queue(e) \/ Start(e) \/ Done(e) PROVE Accepted
  BY <1>1, LifeAccepted
<1>2. ASSUME NEW e \in Executions, NEW kind, NEW d, Message(e, kind, d), Quiet(e) PROVE Accepted
  BY <1>2, QuietAccepted DEF Message
<1>3. ASSUME NEW e \in Executions, NEW kind, NEW d, Message(e, kind, d),
             NEW own \in BOOLEAN, \E edits : Edit(e, own, edits)
      PROVE  Accepted
  BY <1>3, EditAccepted
<1>4. ASSUME NEW e \in Executions, Status(e) PROVE Accepted
  BY <1>2, <1>4 DEF Status
<1>5. ASSUME NEW e \in Executions, ClearWait(e) PROVE Accepted
  BY <1>2, <1>5 DEF ClearWait
<1>6. ASSUME NEW e \in Executions, Clear(e) PROVE Accepted
  BY <1>3, <1>6 DEF Clear
<1>7. ASSUME NEW e \in Executions, NEW stream \in Streams, Stream(e, stream) PROVE Accepted
  <2>1. Message(e, stream, None) /\ \E edits : Edit(e, TRUE, edits)
    BY <1>7 DEF Stream
  <2> QED
    BY <1>3, <2>1
<1>8. ASSUME NEW e \in Executions, NEW kind, NEW d, AddToCellData(e, kind, d) PROVE Accepted
  <2>1. Message(e, kind, d) /\ \E edits : Edit(e, TRUE, edits)
    BY <1>8 DEF AddToCellData
  <2> QED
    BY <1>3, <2>1
<1>9. ASSUME NEW e \in Executions, NEW d \in Displays, Update(e, d) PROVE Accepted
  <2>1. Message(e, "update", d) /\ (Quiet(e) \/ \E edits : Edit(e, FALSE, edits))
    BY <1>9 DEF Update
  <2> QED
    BY <1>2, <1>3, <2>1
<1>10. ASSUME NEW e \in Executions, NEW d \in Displays, UpdateMetadata(e, d) PROVE Accepted
  <2>1. Message(e, "metadata", d) /\ (Quiet(e) \/ \E edits : Edit(e, FALSE, edits))
    BY <1>10 DEF UpdateMetadata
  <2> QED
    BY <1>2, <1>3, <2>1
<1>11. ASSUME EditsShown \/ (\E c \in Cells : UserClears(c)) \/ UNCHANGED vars PROVE Accepted
  <2>1. UNCHANGED <<exec, task, refused>>
    <3>1. CASE EditsShown
      BY <3>1 DEF EditsShown, execVars, historyVars
    <3>2. CASE \E c \in Cells : UserClears(c)
      BY <3>2 DEF UserClears, execVars, historyVars
    <3>3. CASE UNCHANGED vars
      BY <3>3 DEF vars, execVars, historyVars
    <3> QED
      BY <1>11, <3>1, <3>2, <3>3
  <2> QED
    BY <2>1, NothingAccepted
<1>12. Accepted
  BY <1>1, <1>4, <1>5, <1>6, <1>7, <1>8, <1>9, <1>10, <1>11 DEF Next
<1>13. OutputsInv'
  BY OutputsInvNext DEF AcceptInv
<1> QED
  BY <1>12, <1>13 DEF Accepted, AcceptInv

\* The comment of getOrCreateExecutionTask holds for every notebook in which a cell whose
\* threads print on is not executed again: no message meets a task that has ended.  The run
\* CellOutputsRefused shows that it does not hold without this condition.
THEOREM NoOutputIsRefused ==
    ASSUME NotAgain
    PROVE  Spec => []NoOutputRefused
<1>1. Init => AcceptInv
  BY OutputsInvInit, AcceptInit DEF AcceptInv
<1>2. AcceptInv /\ [Next]_vars => AcceptInv'
  BY AcceptNext
<1>3. AcceptInv => NoOutputRefused
  BY DEF AcceptInv
<1> QED
  BY <1>1, <1>2, <1>3, PTL DEF Spec
=============================================================================

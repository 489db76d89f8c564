--------------------------- MODULE SequenceLemmas ---------------------------
(***************************************************************************)
(* Facts about the sequences that model JavaScript arrays: what push and   *)
(* splice do to the set of the elements.                                   *)
(***************************************************************************)
EXTENDS Integers, Sequences, SequencesExt, SequenceTheorems, FiniteSetTheorems, TLAPS

\* Every nonempty set of naturals has a least element (what indexOf relies on).
LEMMA LeastNatural ==
    ASSUME NEW T, T \subseteq Nat, T # {}
    PROVE  \E m \in T : \A n \in T : m <= n
<1>1. IsWellFoundedOn(OpToRel(<, Nat), Nat)
  BY NatLessThanWellFounded
<1>2. PICK m \in T : \A n \in T : ~(<<n, m>> \in OpToRel(<, Nat))
  BY <1>1, WFMin
<1>3. ASSUME NEW n \in T PROVE m <= n
  <2>1. ~(n < m)
    BY <1>2 DEF OpToRel
  <2> QED
    BY <2>1
<1> QED
  BY <1>3

\* The elements of a sequence over S are in S.
LEMMA ToSetType ==
    ASSUME NEW S, NEW q \in Seq(S)
    PROVE  ToSet(q) \subseteq S
  BY LenProperties, ElementOfSeq DEF ToSet

\* The first element of a nonempty sequence is one of its elements.
LEMMA HeadInRange ==
    ASSUME NEW S, NEW q \in Seq(S), q # <<>>
    PROVE  Head(q) \in S /\ Head(q) \in ToSet(q)
<1>1. DOMAIN q = 1..Len(q) /\ Len(q) \in Nat /\ Len(q) # 0
  BY LenProperties, EmptySeq
<1> QED
  BY <1>1, HeadTailProperties DEF ToSet

\* The elements after push(i).
LEMMA AppendRange ==
    ASSUME NEW S, NEW q \in Seq(S), NEW i \in S
    PROVE  /\ Append(q, i) \in Seq(S)
           /\ ToSet(Append(q, i)) = ToSet(q) \cup {i}
<1>1. /\ Append(q, i) \in Seq(S)
      /\ Len(Append(q, i)) = Len(q) + 1
      /\ \A k \in 1..Len(q) : Append(q, i)[k] = q[k]
      /\ Append(q, i)[Len(q) + 1] = i
  BY AppendProperties
<1>2. DOMAIN q = 1..Len(q) /\ Len(q) \in Nat /\ DOMAIN Append(q, i) = 1..(Len(q) + 1)
  BY <1>1, LenProperties
<1>3. ToSet(Append(q, i)) \subseteq ToSet(q) \cup {i}
  BY <1>1, <1>2 DEF ToSet
<1>4. ASSUME NEW x \in ToSet(q) \cup {i} PROVE x \in ToSet(Append(q, i))
  <2>1. CASE x = i
    BY <2>1, <1>1, <1>2 DEF ToSet
  <2>2. CASE x \in ToSet(q)
    <3>1. PICK k \in 1..Len(q) : x = q[k]
      BY <2>2, <1>2 DEF ToSet
    <3> QED
      BY <3>1, <1>1, <1>2 DEF ToSet
  <2> QED
    BY <2>1, <2>2
<1> QED
  BY <1>1, <1>3, <1>4

\* The elements after push(...r).
LEMMA ConcatRange ==
    ASSUME NEW S, NEW q \in Seq(S), NEW r \in Seq(S)
    PROVE  q \o r \in Seq(S) /\ ToSet(q \o r) = ToSet(q) \cup ToSet(r)
<1>1. q \o r \in Seq(S) /\ Len(q \o r) = Len(q)+Len(r)
  OBVIOUS
<1>2. \A k \in 1..(Len(q)+Len(r)) : (q \o r)[k] = IF k <= Len(q) THEN q[k] ELSE r[k - Len(q)]
  OBVIOUS
<1>3. /\ DOMAIN q = 1..Len(q) /\ DOMAIN r = 1..Len(r) /\ DOMAIN (q \o r) = 1..(Len(q)+Len(r))
      /\ Len(q) \in Nat /\ Len(r) \in Nat
  BY <1>1
<1> HIDE DEF ToSet
<1>4. ASSUME NEW x \in ToSet(q \o r) PROVE x \in ToSet(q) \cup ToSet(r)
  <2>1. PICK k \in 1..(Len(q)+Len(r)) : x = (q \o r)[k]
    BY <1>3 DEF ToSet
  <2>2. CASE k <= Len(q)
    BY <2>1, <2>2, <1>2, <1>3 DEF ToSet
  <2>3. CASE ~(k <= Len(q))
    <3>1. k - Len(q) \in 1..Len(r)
      BY <2>3, <1>3
    <3> QED
      BY <2>1, <2>3, <3>1, <1>2, <1>3 DEF ToSet
  <2> QED
    BY <2>2, <2>3
<1>5. ASSUME NEW x \in ToSet(q) PROVE x \in ToSet(q \o r)
  <2>1. PICK k \in 1..Len(q) : x = q[k]
    BY <1>3 DEF ToSet
  <2>2. k \in 1..(Len(q)+Len(r)) /\ (q \o r)[k] = x
    BY <2>1, <1>2, <1>3
  <2> QED
    BY <2>2, <1>3 DEF ToSet
<1>6. ASSUME NEW x \in ToSet(r) PROVE x \in ToSet(q \o r)
  <2>1. PICK k \in 1..Len(r) : x = r[k]
    BY <1>3 DEF ToSet
  <2>2. k + Len(q) \in 1..(Len(q)+Len(r)) /\ ~(k + Len(q) <= Len(q)) /\ (k + Len(q)) - Len(q) = k
    BY <2>1, <1>3
  <2>3. (q \o r)[k + Len(q)] = x
    BY <2>1, <2>2, <1>2
  <2> QED
    BY <2>2, <2>3, <1>3 DEF ToSet
<1> QED
  BY <1>1, <1>4, <1>5, <1>6

\* A part of a sequence has no other elements.
LEMMA SubSeqRange ==
    ASSUME NEW S, NEW q \in Seq(S), NEW m \in Nat, NEW n \in Nat, m >= 1, n <= Len(q)
    PROVE  SubSeq(q,m,n) \in Seq(S) /\ ToSet(SubSeq(q,m,n)) \subseteq ToSet(q)
<1>1. SubSeq(q,m,n) \in Seq(S)
  BY SubSeqProperties, ElementOfSeq
<1>2. \A k \in 1..(n - m + 1) : SubSeq(q,m,n)[k] = q[m+k-1]
  BY SubSeqProperties, ElementOfSeq
<1>3. Len(SubSeq(q,m,n)) = IF m <= n THEN n-m+1 ELSE 0
  BY SubSeqProperties, ElementOfSeq
<1>4. DOMAIN SubSeq(q,m,n) = 1..Len(SubSeq(q,m,n)) /\ DOMAIN q = 1..Len(q) /\ Len(q) \in Nat
  BY <1>1, LenProperties
<1>5. ASSUME NEW x \in ToSet(SubSeq(q,m,n)) PROVE x \in ToSet(q)
  <2>1. PICK k \in DOMAIN SubSeq(q,m,n) : x = SubSeq(q,m,n)[k]
    BY DEF ToSet
  <2>2. k \in 1..(n-m+1) /\ m+k-1 \in 1..Len(q)
    BY <2>1, <1>3, <1>4
  <2> QED
    BY <2>1, <2>2, <1>2, <1>4 DEF ToSet
<1> QED
  BY <1>1, <1>5

\* splice(p, 1) leaves elements of the sequence only.
LEMMA RemoveAtRange ==
    ASSUME NEW S, NEW q \in Seq(S), NEW p \in 1..Len(q)
    PROVE  RemoveAt(q,p) \in Seq(S) /\ ToSet(RemoveAt(q,p)) \subseteq ToSet(q)
<1>1. /\ SubSeq(q,1,p-1) \in Seq(S) /\ ToSet(SubSeq(q,1,p-1)) \subseteq ToSet(q)
  BY SubSeqRange
<1>2. /\ SubSeq(q,p+1,Len(q)) \in Seq(S) /\ ToSet(SubSeq(q,p+1,Len(q))) \subseteq ToSet(q)
  BY SubSeqRange
<1> DEFINE a == SubSeq(q,1,p-1)
           b == SubSeq(q,p+1,Len(q))
<1>3. RemoveAt(q,p) = a \o b
  BY DEF RemoveAt
<1> HIDE DEF a, b
<1>4. a \o b \in Seq(S) /\ ToSet(a \o b) = ToSet(a) \cup ToSet(b)
  BY <1>1, <1>2, ConcatRange DEF a, b
<1> QED
  BY <1>1, <1>2, <1>3, <1>4 DEF a, b
\* splice(p, 1) moves what is behind position p one place forward.
LEMMA RemoveAtElements ==
    ASSUME NEW S, NEW q \in Seq(S), NEW p \in 1..Len(q)
    PROVE  /\ Len(RemoveAt(q,p)) = Len(q) - 1
           /\ \A k \in 1..(Len(q) - 1) : RemoveAt(q,p)[k] = IF k < p THEN q[k] ELSE q[k+1]
<1> DEFINE a == SubSeq(q,1,p-1)
           b == SubSeq(q,p+1,Len(q))
<1>0. Len(q) \in Nat /\ DOMAIN q = 1..Len(q) /\ \A k \in 1..Len(q) : q[k] \in S
  BY LenProperties, ElementOfSeq
<1>1. a \in Seq(S) /\ Len(a) = p - 1 /\ \A k \in 1..(p-1) : a[k] = q[k]
  BY <1>0, SubSeqProperties
<1>2. b \in Seq(S) /\ Len(b) = Len(q) - p /\ \A k \in 1..(Len(q) - p) : b[k] = q[p+k]
  <2>1. /\ b \in Seq(S)
        /\ Len(b) = IF p+1 <= Len(q) THEN Len(q) - (p+1) + 1 ELSE 0
        /\ \A k \in 1..(Len(q) - (p+1) + 1) : b[k] = q[(p+1) + k - 1]
    BY <1>0, SubSeqProperties
  <2> QED
    BY <2>1, <1>0
<1>3. RemoveAt(q,p) = a \o b
  BY DEF RemoveAt
<1> HIDE DEF a, b
<1>4. /\ Len(a \o b) = Len(a) + Len(b)
      /\ \A k \in 1..(Len(a) + Len(b)) : (a \o b)[k] = IF k <= Len(a) THEN a[k] ELSE b[k - Len(a)]
  BY <1>1, <1>2, ConcatProperties
<1>5. Len(a) + Len(b) = Len(q) - 1
  BY <1>0, <1>1, <1>2
<1>6. ASSUME NEW k \in 1..(Len(q) - 1)
      PROVE  (a \o b)[k] = IF k < p THEN q[k] ELSE q[k+1]
  <2>1. CASE k < p
    BY <2>1, <1>0, <1>1, <1>4, <1>5
  <2>2. CASE ~(k < p)
    <3>1. k - Len(a) \in 1..(Len(q) - p) /\ p + (k - Len(a)) = k + 1 /\ ~(k <= Len(a))
      BY <2>2, <1>0, <1>1
    <3> QED
      BY <2>2, <3>1, <1>2, <1>4, <1>5
  <2> QED
    BY <2>1, <2>2
<1> QED
  BY <1>3, <1>4, <1>5, <1>6

\* d and r are s and q after the first elements of q have moved to the end of s: all elements
\* are kept, in their order.
Moved(S, s, q, d, r) ==
    /\ d \in Seq(S) /\ r \in Seq(S)
    /\ ToSet(r) \subseteq ToSet(q)
    /\ d \o r = s \o q

\* Moving the first k elements of a queue to the end of another sequence keeps all elements
\* and their order.
LEMMA MoveToEnd ==
    ASSUME NEW S, NEW s \in Seq(S), NEW q \in Seq(S), NEW k \in 0..Len(q),
           NEW d, NEW r, d = s \o SubSeq(q, 1, k), r = SubSeq(q, k+1, Len(q))
    PROVE  Moved(S, s, q, d, r)
<1> DEFINE a == SubSeq(q, 1, k)
           b == SubSeq(q, k+1, Len(q))
<1>0. /\ Len(q) \in Nat /\ Len(s) \in Nat /\ k \in Nat /\ k <= Len(q)
      /\ \A i \in 1..Len(q) : q[i] \in S
  BY LenProperties, ElementOfSeq
<1>1. a \in Seq(S) /\ Len(a) = k /\ \A i \in 1..k : a[i] = q[i]
  BY <1>0, SubSeqProperties
<1>2. b \in Seq(S) /\ Len(b) = Len(q) - k /\ \A i \in 1..(Len(q) - k) : b[i] = q[k+i]
  <2>1. /\ b \in Seq(S)
        /\ Len(b) = IF k+1 <= Len(q) THEN Len(q) - (k+1) + 1 ELSE 0
        /\ \A i \in 1..(Len(q) - (k+1) + 1) : b[i] = q[(k+1) + i - 1]
    BY <1>0, SubSeqProperties
  <2> QED
    BY <2>1, <1>0
<1>3. ToSet(b) \subseteq ToSet(q)
  BY <1>0, SubSeqRange
<1> HIDE DEF a, b
<1>4. /\ s \o a \in Seq(S) /\ Len(s \o a) = Len(s) + k
      /\ \A i \in 1..(Len(s) + k) : (s \o a)[i] = IF i <= Len(s) THEN s[i] ELSE a[i - Len(s)]
  BY <1>1, ConcatProperties
<1>5. /\ (s \o a) \o b \in Seq(S) /\ Len((s \o a) \o b) = (Len(s) + k) + (Len(q) - k)
      /\ \A i \in 1..(Len(s) + k) + (Len(q) - k) :
            ((s \o a) \o b)[i] = IF i <= Len(s) + k THEN (s \o a)[i] ELSE b[i - (Len(s) + k)]
  <2> DEFINE c == s \o a
  <2>1. c \in Seq(S) /\ Len(c) = Len(s) + k
    BY <1>4
  <2> HIDE DEF c
  <2>2. /\ c \o b \in Seq(S) /\ Len(c \o b) = Len(c) + Len(b)
        /\ \A i \in 1..Len(c) + Len(b) : (c \o b)[i] = IF i <= Len(c) THEN c[i] ELSE b[i - Len(c)]
    BY <1>2, <2>1, ConcatProperties
  <2> QED
    BY <1>2, <2>1, <2>2 DEF c
<1>6. /\ s \o q \in Seq(S) /\ Len(s \o q) = Len(s) + Len(q)
      /\ \A i \in 1..(Len(s) + Len(q)) : (s \o q)[i] = IF i <= Len(s) THEN s[i] ELSE q[i - Len(s)]
  BY ConcatProperties
<1>7. ASSUME NEW i \in 1..(Len(s) + Len(q))
      PROVE  ((s \o a) \o b)[i] = (s \o q)[i]
  <2>1. i \in 1..(Len(s) + k) + (Len(q) - k)
    BY <1>0
  <2>2. CASE i <= Len(s)
    BY <1>0, <1>4, <1>5, <1>6, <2>1, <2>2
  <2>3. CASE ~(i <= Len(s)) /\ i <= Len(s) + k
    <3>1. i - Len(s) \in 1..k /\ i \in 1..(Len(s) + k)
      BY <1>0, <2>3
    <3> QED
      BY <1>1, <1>4, <1>5, <1>6, <2>1, <2>3, <3>1
  <2>4. CASE ~(i <= Len(s) + k)
    <3>1. /\ i - (Len(s) + k) \in 1..(Len(q) - k) /\ ~(i <= Len(s))
          /\ k + (i - (Len(s) + k)) = i - Len(s)
      BY <1>0, <2>4
    <3> QED
      BY <1>2, <1>5, <1>6, <2>1, <2>4, <3>1
  <2> QED
    BY <2>2, <2>3, <2>4
<1>8. (s \o a) \o b = s \o q
  <2>1. (Len(s) + k) + (Len(q) - k) = Len(s) + Len(q)
    BY <1>0
  <2>2. Len((s \o a) \o b) = Len(s) + Len(q)
    BY <1>5, <2>1
  <2> DEFINE t == (s \o a) \o b
             u == s \o q
  <2>3. t \in Seq(S) /\ u \in Seq(S) /\ Len(t) = Len(u) /\ \A i \in 1..Len(t) : t[i] = u[i]
    BY <1>5, <1>6, <1>7, <2>2
  <2> HIDE DEF t, u
  <2>4. t = u
    BY <2>3, SeqEqual
  <2> QED
    BY <2>4 DEF t, u
<1> QED
  BY <1>2, <1>3, <1>4, <1>8 DEF a, b, Moved

\* Appending two sequences one after the other is appending both at once.
LEMMA ConcatTwice ==
    ASSUME NEW S, NEW s \in Seq(S), NEW t \in Seq(S), NEW u \in Seq(S)
    PROVE  s \o (t \o u) = (s \o t) \o u
BY ConcatAssociative

\* Sequences of any elements: messages of several kinds that a channel carries.
IsSequence(s) == s \in Seq(ToSet(s))

LEMMA AnySequence ==
    ASSUME NEW S, NEW s \in Seq(S)
    PROVE  IsSequence(s)
BY LenProperties, ElementOfSeq DEF IsSequence, ToSet

\* The same of a function on 1..n.
LEMMA AnyFunction ==
    ASSUME NEW n \in Nat, NEW f, f = [k \in 1..n |-> f[k]]
    PROVE  IsSequence(f) /\ DOMAIN f = 1..n
<1>1. DOMAIN f = 1..n /\ \A k \in 1..n : f[k] \in ToSet(f)
  BY DEF ToSet
<1>2. f \in [1..n -> ToSet(f)]
  BY <1>1
<1> QED
  BY <1>1, <1>2, SeqDef DEF IsSequence

\* The elements after push(e), shift() and concat(t).
LEMMA AppendElements ==
    ASSUME NEW s, IsSequence(s), NEW e
    PROVE  IsSequence(Append(s, e)) /\ ToSet(Append(s, e)) = ToSet(s) \cup {e}
<1> DEFINE S == ToSet(s) \cup {e}
<1>1. s \in Seq(S) /\ e \in S
  BY DEF IsSequence
<1>2. Append(s, e) \in Seq(S) /\ ToSet(Append(s, e)) = ToSet(s) \cup {e}
  <2>1. /\ Append(s, e) \in Seq(S)
        /\ Len(Append(s, e)) = Len(s) + 1
        /\ \A k \in 1..Len(s) : Append(s, e)[k] = s[k]
        /\ Append(s, e)[Len(s) + 1] = e
    BY <1>1, AppendProperties
  <2>2. Len(s) \in Nat /\ DOMAIN s = 1..Len(s) /\ DOMAIN Append(s, e) = 1..(Len(s) + 1)
    BY <1>1, <2>1, LenProperties
  <2>3. 1..(Len(s) + 1) = 1..Len(s) \cup {Len(s) + 1}
    BY <2>2
  <2> QED
    BY <2>1, <2>2, <2>3 DEF ToSet
<1> QED
  BY <1>2 DEF IsSequence

LEMMA TailElements ==
    ASSUME NEW s, IsSequence(s), s # <<>>
    PROVE  IsSequence(Tail(s)) /\ ToSet(s) = {Head(s)} \cup ToSet(Tail(s))
<1>1. /\ Len(s) \in Nat /\ Len(s) # 0 /\ DOMAIN s = 1..Len(s) /\ Head(s) = s[1]
      /\ \A i \in 1..Len(s) : s[i] \in ToSet(s)
  BY LenProperties, EmptySeq, ElementOfSeq, HeadTailProperties DEF IsSequence
<1>2. /\ Tail(s) \in Seq(ToSet(s)) /\ Len(Tail(s)) = Len(s) - 1
      /\ \A i \in 1..(Len(s) - 1) : Tail(s)[i] = s[i + 1]
  BY HeadTailProperties DEF IsSequence
<1>3. DOMAIN Tail(s) = 1..(Len(s) - 1)
  BY <1>2, LenProperties
<1>4. \A i \in 1..Len(s) : i = 1 \/ (i - 1 \in 1..(Len(s) - 1) /\ Tail(s)[i - 1] = s[i])
  BY <1>1, <1>2
<1>5. ASSUME NEW x \in ToSet(s) PROVE x \in {Head(s)} \cup ToSet(Tail(s))
  <2>1. PICK i \in 1..Len(s) : x = s[i]
    BY <1>1 DEF ToSet
  <2> QED
    BY <2>1, <1>1, <1>3, <1>4 DEF ToSet
<1>6. ASSUME NEW x \in ToSet(Tail(s)) PROVE x \in ToSet(s)
  <2>1. PICK i \in 1..(Len(s) - 1) : x = Tail(s)[i]
    BY <1>3 DEF ToSet
  <2>2. i + 1 \in 1..Len(s)
    BY <1>1
  <2> QED
    BY <2>1, <2>2, <1>1, <1>2
<1>7. Head(s) \in ToSet(s)
  BY <1>1
<1> QED
  BY <1>2, <1>5, <1>6, <1>7, AnySequence

LEMMA ConcatElements ==
    ASSUME NEW s, IsSequence(s), NEW t, IsSequence(t)
    PROVE  IsSequence(s \o t) /\ ToSet(s \o t) = ToSet(s) \cup ToSet(t)
<1> DEFINE S == ToSet(s) \cup ToSet(t)
<1>1. s \in Seq(S) /\ t \in Seq(S)
  BY DEF IsSequence
<1>2. s \o t \in Seq(S) /\ ToSet(s \o t) = S
  BY <1>1, ConcatRange
<1> QED
  BY <1>2 DEF IsSequence

\* A sequence of numbered messages.
LEMMA NatSequence ==
    ASSUME NEW s \in Seq(Nat)
    PROVE  /\ IsSequence(s)
           /\ \A m \in Nat : Append(s, m) \in Seq(Nat)
           /\ s # <<>> => Head(s) \in Nat /\ Tail(s) \in Seq(Nat)
<1>1. IsSequence(s)
  BY LenProperties, ElementOfSeq DEF IsSequence, ToSet
<1> QED
  BY <1>1, HeadTailProperties, AppendProperties

=============================================================================

------------------------ MODULE WidgetMessages_proofs ------------------------
(***************************************************************************)
(* Proofs about WidgetMessages: an output is either shown in the cell or   *)
(* captured by a widget, but for the exceptions NoOutputTwice names.  The  *)
(* argument is that both sides hold the same hooks when they handle the    *)
(* same message, however far one is ahead of the other (Agreed):           *)
(*                                                                         *)
(*   - the webview gets every message in its order, and after the message  *)
(*     that tells it of a request (Coming, Knows), until a restart cuts    *)
(*     off what comes before the mark k in its queue;                      *)
(*   - it has handled the messages before n, and its hooks are those that  *)
(*     n-1 messages leave (View, HooksAt);                                 *)
(*   - a message that captures is not passed on to the kernel connection   *)
(*     of the extension before the extension has its hook (RegisteredInv), *)
(*     for the extension awaits its handling (OutputsInv, HeldInv);        *)
(*   - a hook is removed after the message that releases it (IsRemoval);   *)
(*   - so every captured message is asked about (Asked), and the answer is *)
(*     that it is captured, unless it is late (Replies).                   *)
(***************************************************************************)
EXTENDS WidgetMessages, SequenceLemmas, TLAPS

-----------------------------------------------------------------------------
(* What is assumed of the constants *)

\* None is no request and no message, and requests are numbered from 1.
Typed == None \notin Nat /\ Script \in Seq([request : Nat \ {0}, kind : STRING])

\* What the kernel emits follows its protocol, too.
Assumptions == Typed /\ Protocol

-----------------------------------------------------------------------------
(* Why no output is lost: the extension drops one only on a result of a hook *)

\* The fields of the webview's ProxyKernel.
WebviewFields(w) ==
    w = [known |-> w.known, chain |-> w.chain, creating |-> w.creating, hooks |-> w.hooks,
         results |-> w.results, lastHooked |-> w.lastHooked, awaiting |-> w.awaiting,
         held |-> w.held]

\* Where a message is that the kernel emitted.
AllSomewhere ==
    \A m \in 1..emitted :
        m \in ToSet(msgChain) \cup ToSet(kernelChain) \cup shown \cup captured \cup discarded

\* What the extension holds: the connection waits for the hook of its first message, the socket
\* for its own, and a restart cuts off messages once.
ChainsInv ==
    /\ emitted \in Nat /\ msgChain \in Seq(Nat) /\ kernelChain \in Seq(Nat)
    /\ hooking # None => kernelChain # <<>> /\ Head(kernelChain) = hooking
    /\ awaits # "nothing" => msgChain # <<>>
    /\ ~restarted => discarded = {}
    /\ AllSomewhere

\* A hook call is about a message.
AsksNumber(x) == x.type = "hookCall" => x.id \in Nat
PostsInv == IsSequence(toWebview) /\ \A x \in ToSet(toWebview) : AsksNumber(x)

\* The webview keeps an output from the cell only when a widget has it: in the results it has
\* kept, and in those under way.
Taken(m) == Kind(m) = "print" => m \in captured
WebviewInv ==
    /\ WebviewFields(webview) /\ IsSequence(webview.held)
    /\ \A m \in webview.results : Taken(m)

Honest(x) == x.type = "hookResult" => x.id.of \in Nat /\ (x.id.result \/ Taken(x.id.of))
RepliesInv == IsSequence(toExtension) /\ \A x \in ToSet(toExtension) : Honest(x)

WidgetInv == ChainsInv /\ PostsInv /\ WebviewInv /\ RepliesInv

\* Elements picked from a sequence are a sequence.
LEMMA ThoseSequence ==
    ASSUME NEW s, NEW P, P \subseteq DOMAIN s, IsFiniteSet(DOMAIN s)
    PROVE  Cardinality(P) \in Nat /\ IsSequence(Those(s, P))
<1>1. Cardinality(P) \in Nat
  BY FS_Subset, FS_CardinalityType
<1>2. Cardinality(P) \in Nat
  BY <1>1
<1> DEFINE f == Those(s, P)
<1>3. f = [k \in 1..Cardinality(P) |-> f[k]]
  BY DEF Those
<1> QED
  BY <1>2, <1>3, AnyFunction

LEMMA WidgetInvInit == Init => WidgetInv
<1> SUFFICES ASSUME Init PROVE WidgetInv
  OBVIOUS
<1> USE DEF Init, NewWebview
<1>1. ChainsInv
  BY DEF ChainsInv, AllSomewhere
<1>2. PostsInv /\ RepliesInv
  BY DEF PostsInv, RepliesInv, IsSequence, ToSet
<1>3. WebviewInv
  BY DEF WebviewInv, WebviewFields, IsSequence, ToSet
<1> QED
  BY <1>1, <1>2, <1>3 DEF WidgetInv

\* Steps that do not touch what the extension holds.
LEMMA ChainsKept ==
    ASSUME ChainsInv, captured \subseteq captured',
           UNCHANGED <<emitted, msgChain, awaits, kernelChain, hooking, restarted, discarded, shown>>
    PROVE  ChainsInv'
  BY DEF ChainsInv, AllSomewhere

\* A message is posted to the webview, or it takes one.
LEMMA PostsKept ==
    ASSUME PostsInv,
           \/ toWebview' = toWebview
           \/ \E x : AsksNumber(x) /\ toWebview' = Append(toWebview, x)
           \/ toWebview # <<>> /\ toWebview' = Tail(toWebview)
    PROVE  PostsInv'
<1>1. CASE toWebview' = toWebview
  BY <1>1 DEF PostsInv
<1>2. ASSUME NEW x, AsksNumber(x), toWebview' = Append(toWebview, x) PROVE PostsInv'
  BY <1>2, AppendElements DEF PostsInv
<1>3. CASE toWebview # <<>> /\ toWebview' = Tail(toWebview)
  BY <1>3, TailElements DEF PostsInv
<1> QED
  BY <1>1, <1>2, <1>3

\* Messages to the extension are posted or taken, while outputs may be captured.
HonestPosts(t) == IsSequence(t) /\ \A x \in ToSet(t) : Honest(x)

LEMMA RepliesKept ==
    ASSUME RepliesInv, captured \subseteq captured',
           \/ toExtension' = toExtension
           \/ toExtension # <<>> /\ toExtension' = Tail(toExtension)
           \/ \E t : HonestPosts(t) /\ toExtension' = toExtension \o t
    PROVE  RepliesInv'
<1>1. IsSequence(toExtension') /\ \A x \in ToSet(toExtension') : Honest(x)
  <2>1. CASE toExtension' = toExtension
    BY <2>1 DEF RepliesInv
  <2>2. CASE toExtension # <<>> /\ toExtension' = Tail(toExtension)
    BY <2>2, TailElements DEF RepliesInv
  <2>3. ASSUME NEW t, HonestPosts(t), toExtension' = toExtension \o t
        PROVE  IsSequence(toExtension') /\ \A x \in ToSet(toExtension') : Honest(x)
    BY <2>3, ConcatElements DEF RepliesInv, HonestPosts
  <2> QED
    BY <2>1, <2>2, <2>3
<1>2. \A x : Honest(x) => Honest(x)'
  BY DEF Honest, Taken
<1> QED
  BY <1>1, <1>2 DEF RepliesInv

LEMMA OnePost ==
    ASSUME NEW x, Honest(x)
    PROVE  HonestPosts(<<x>>)
<1>1. <<x>> \in Seq({x}) /\ ToSet(<<x>>) = {x}
  BY DEF ToSet
<1> QED
  BY <1>1 DEF HonestPosts, IsSequence

\* What the webview holds, when only outputs are captured.
LEMMA WebviewKept ==
    ASSUME WebviewInv, captured \subseteq captured', webview' = webview
    PROVE  WebviewInv'
  BY DEF WebviewInv, Taken

\* The message that the socket hands to the connection.
PassedOn(m) ==
    /\ m \in Nat /\ msgChain' \in Seq(Nat) /\ kernelChain' \in Seq(Nat) /\ kernelChain' # <<>>
    /\ ToSet(msgChain) = {m} \cup ToSet(msgChain')
    /\ ToSet(kernelChain') = ToSet(kernelChain) \cup {m}
    /\ kernelChain # <<>> => Head(kernelChain') = Head(kernelChain)

LEMMA MovedOn ==
    ASSUME ChainsInv, msgChain # <<>>, msgChain' = Tail(msgChain),
           kernelChain' = Append(kernelChain, Head(msgChain))
    PROVE  PassedOn(Head(msgChain))
<1> DEFINE m == Head(msgChain)
<1>1. m \in Nat /\ msgChain' \in Seq(Nat) /\ ToSet(msgChain) = {m} \cup ToSet(msgChain')
  BY NatSequence, TailElements DEF ChainsInv
<1>2. kernelChain' \in Seq(Nat) /\ ToSet(kernelChain') = ToSet(kernelChain) \cup {m}
  BY <1>1, NatSequence, AppendElements DEF ChainsInv
<1>3. kernelChain' # <<>> /\ (kernelChain # <<>> => Head(kernelChain') = Head(kernelChain))
  BY <1>1, AppendProperties, HeadTailProperties, EmptySeq DEF ChainsInv
<1> QED
  BY <1>1, <1>2, <1>3 DEF PassedOn

(* The socket, its hooks and the kernel connection of the extension *)

\* A step of the extension's chains, which posts at most one message to the webview.
Others == UNCHANGED <<captured, toExtension, webview>>

LEMMA OthersKept ==
    ASSUME WidgetInv, Others
    PROVE  WebviewInv' /\ RepliesInv'
BY WebviewKept, RepliesKept DEF WidgetInv, Others

LEMMA EmitKeeps ==
    ASSUME WidgetInv, Emit
    PROVE  WidgetInv'
<1>1. /\ emitted' = emitted + 1 /\ msgChain' = Append(msgChain, emitted + 1)
      /\ UNCHANGED <<kernelChain, hooking, awaits, toWebview, captured, shown, discarded, restarted>>
      /\ Others
  BY DEF Emit, sending, handling, Others
<1>2. ChainsInv /\ PostsInv
  BY DEF WidgetInv
<1>3. emitted + 1 \in Nat /\ 1..(emitted + 1) \subseteq 1..emitted \cup {emitted + 1}
  BY <1>2 DEF ChainsInv
<1>4. /\ msgChain' \in Seq(Nat) /\ msgChain' # <<>>
      /\ ToSet(msgChain') = ToSet(msgChain) \cup {emitted + 1}
  BY <1>1, <1>2, <1>3, NatSequence, AppendElements, AppendProperties, EmptySeq DEF ChainsInv
<1>5. AllSomewhere'
  BY <1>1, <1>2, <1>3, <1>4 DEF ChainsInv, AllSomewhere
<1>6. ChainsInv'
  BY <1>1, <1>2, <1>3, <1>4, <1>5 DEF ChainsInv
<1> QED
  BY <1>1, <1>2, <1>6, OthersKept, PostsKept DEF WidgetInv

LEMMA SocketMessageKeeps ==
    ASSUME WidgetInv, SocketMessage
    PROVE  WidgetInv'
<1> DEFINE m == Head(msgChain)
<1>1. /\ msgChain # <<>> /\ awaits = "nothing"
      /\ toWebview' = Append(toWebview, Message("message", m))
      /\ \/ awaits' = "received" /\ UNCHANGED <<msgChain, kernelChain>>
         \/ /\ msgChain' = Tail(msgChain) /\ kernelChain' = Append(kernelChain, m)
            /\ UNCHANGED awaits
      /\ UNCHANGED <<emitted, hooking, shown, captured, discarded, restarted>>
      /\ Others
  BY DEF SocketMessage, Others
<1>2. ChainsInv /\ PostsInv
  BY DEF WidgetInv
<1>3. ChainsInv'
  <2>1. CASE awaits' = "received" /\ UNCHANGED <<msgChain, kernelChain>>
    BY <1>1, <1>2, <2>1 DEF ChainsInv, AllSomewhere
  <2>2. CASE msgChain' = Tail(msgChain) /\ kernelChain' = Append(kernelChain, m) /\ UNCHANGED awaits
    <3>1. PassedOn(m)
      BY <1>1, <1>2, <2>2, MovedOn
    <3> QED
      BY <1>1, <1>2, <2>2, <3>1 DEF ChainsInv, AllSomewhere, PassedOn
  <2> QED
    BY <1>1, <2>1, <2>2
<1>4. PostsInv'
  <2>1. AsksNumber(Message("message", m))
    BY DEF AsksNumber, Message
  <2> QED
    BY <1>1, <1>2, <2>1, PostsKept
<1> QED
  BY <1>1, <1>3, <1>4, OthersKept DEF WidgetInv

LEMMA HandleMessageKeeps ==
    ASSUME WidgetInv, HandleMessage
    PROVE  WidgetInv'
<1> DEFINE m == Head(kernelChain)
<1>1. /\ kernelChain # <<>> /\ hooking = None
      /\ \/ /\ hooking' = m
            /\ toWebview' = Append(toWebview, Message("hookCall", m))
            /\ UNCHANGED <<kernelChain, shown>>
         \/ /\ shown' = shown \cup {m} /\ kernelChain' = Tail(kernelChain)
            /\ UNCHANGED <<hooking, toWebview>>
      /\ UNCHANGED <<emitted, msgChain, awaits, captured, discarded, restarted>>
      /\ Others
  BY DEF HandleMessage, receiving, Others
<1>2. ChainsInv /\ PostsInv
  BY DEF WidgetInv
<1>3. m \in Nat
  BY <1>1, <1>2, NatSequence DEF ChainsInv
<1>4. CASE /\ hooking' = m /\ toWebview' = Append(toWebview, Message("hookCall", m))
           /\ UNCHANGED <<kernelChain, shown>>
  <2>1. ChainsInv'
    BY <1>1, <1>2, <1>4 DEF ChainsInv, AllSomewhere
  <2>2. AsksNumber(Message("hookCall", m))
    BY <1>3 DEF AsksNumber, Message
  <2>3. PostsInv'
    BY <1>2, <1>4, <2>2, PostsKept
  <2> QED
    BY <1>1, <2>1, <2>3, OthersKept DEF WidgetInv
<1>5. CASE /\ shown' = shown \cup {m} /\ kernelChain' = Tail(kernelChain)
           /\ UNCHANGED <<hooking, toWebview>>
  <2>1. kernelChain' \in Seq(Nat) /\ ToSet(kernelChain) = {m} \cup ToSet(kernelChain')
    BY <1>1, <1>2, <1>5, NatSequence, TailElements DEF ChainsInv
  <2>2. ChainsInv'
    BY <1>1, <1>2, <1>5, <2>1 DEF ChainsInv, AllSomewhere
  <2>3. PostsInv'
    BY <1>2, <1>5, PostsKept
  <2> QED
    BY <1>1, <2>2, <2>3, OthersKept DEF WidgetInv
<1> QED
  BY <1>1, <1>4, <1>5

\* What a restart cuts off is what the socket and the connection hold.
LEMMA RestartKeeps ==
    ASSUME Typed, WidgetInv, Restart
    PROVE  WidgetInv'
<1>1. /\ ~restarted /\ restarted' = TRUE
      /\ emitted' = Cardinality({m \in Messages : Parent(m) <= requested})
      /\ discarded' = ToSet(msgChain) \cup ToSet(kernelChain)
                          \cup (emitted + 1)..emitted'
      /\ msgChain' = <<>> /\ awaits' = "nothing" /\ kernelChain' = <<>> /\ hooking' = None
      /\ toWebview' = Append(toWebview, Message("restart", None))
      /\ UNCHANGED <<shown, captured>>
      /\ Others
  BY DEF Restart, Others
<1>2. ChainsInv /\ PostsInv
  BY DEF WidgetInv
<1>3. emitted' \in Nat
  <2> DEFINE S == {m \in Messages : Parent(m) <= requested}
  <2>1. DOMAIN Script = 1..Len(Script) /\ Len(Script) \in Nat
    BY LenProperties DEF Typed
  <2>2. IsFiniteSet(DOMAIN Script)
    BY <2>1, FS_Interval
  <2>3. S \subseteq DOMAIN Script
    BY DEF Messages
  <2> HIDE DEF S
  <2>4. Cardinality(S) \in Nat
    BY <2>2, <2>3, FS_Subset, FS_CardinalityType
  <2> QED
    BY <1>1, <2>4 DEF S
<1>4. discarded' = ToSet(msgChain) \cup ToSet(kernelChain) \cup (emitted + 1)..emitted'
  BY <1>1
<1>5. AllSomewhere'
  <2> SUFFICES ASSUME NEW m \in 1..emitted' PROVE m \in (shown \cup captured \cup discarded)'
    BY DEF AllSomewhere
  <2>1. CASE m <= emitted
    <3>1. m \in 1..emitted
      BY <1>2, <1>3, <2>1 DEF ChainsInv
    <3>2. discarded = {}
      BY <1>1, <1>2 DEF ChainsInv
    <3> QED
      BY <1>1, <1>2, <1>4, <3>1, <3>2 DEF ChainsInv, AllSomewhere
  <2>2. CASE m > emitted
    <3>1. m \in (emitted + 1)..emitted'
      BY <1>2, <1>3, <2>2 DEF ChainsInv
    <3> QED
      BY <1>4, <3>1
  <2> QED
    BY <1>2, <1>3, <2>1, <2>2 DEF ChainsInv
<1>6. ChainsInv'
  BY <1>1, <1>3, <1>5 DEF ChainsInv
<1>7. PostsInv'
  <2>1. AsksNumber(Message("restart", None))
    BY DEF AsksNumber, Message
  <2> QED
    BY <1>1, <1>2, <2>1, PostsKept
<1> QED
  BY <1>1, <1>6, <1>7, OthersKept DEF WidgetInv

LEMMA RequestKeeps ==
    ASSUME WidgetInv, Request \/ MirrorSend
    PROVE  WidgetInv'
<1>1. /\ \/ toWebview' = toWebview
         \/ \E id : toWebview' = Append(toWebview, Message("mirror", id))
      /\ UNCHANGED <<emitted, msgChain, awaits, kernelChain, hooking, restarted, discarded, shown,
                     captured>>
      /\ Others
  <2>1. CASE Request
    BY <2>1 DEF Request, receiving, handling, Others
  <2>2. CASE MirrorSend
    BY <2>2 DEF MirrorSend, receiving, handling, Others
  <2> QED
    BY <2>1, <2>2
<1>2. PostsInv'
  <2>1. CASE toWebview' = toWebview
    BY <2>1, PostsKept DEF WidgetInv
  <2>2. ASSUME NEW id, toWebview' = Append(toWebview, Message("mirror", id))
        PROVE  PostsInv'
    <3>1. AsksNumber(Message("mirror", id))
      BY DEF AsksNumber, Message
    <3> QED
      BY <2>2, <3>1, PostsKept DEF WidgetInv
  <2> QED
    BY <1>1, <2>1, <2>2
<1>3. ChainsInv'
  BY <1>1, ChainsKept DEF WidgetInv
<1> QED
  BY <1>1, <1>2, <1>3, OthersKept DEF WidgetInv

(* The messages of the webview *)

\* A message of the webview is taken.
Takes ==
    /\ toExtension # <<>> /\ toExtension' = Tail(toExtension)
    /\ UNCHANGED <<captured, webview>>

LEMMA TakesKept ==
    ASSUME WidgetInv, Takes
    PROVE  WebviewInv' /\ RepliesInv'
BY WebviewKept, RepliesKept DEF WidgetInv, Takes

LEMMA OnReceivedKeeps ==
    ASSUME WidgetInv, OnReceived
    PROVE  WidgetInv'
<1>1. /\ awaits' = awaits \/ awaits = "received"
      /\ UNCHANGED <<emitted, msgChain, kernelChain, hooking, toWebview, shown, captured, discarded,
                     restarted>>
      /\ Takes
  BY DEF OnReceived, Receive, handling, Takes
<1>2. ChainsInv'
  BY <1>1 DEF WidgetInv, ChainsInv, AllSomewhere
<1>3. PostsInv'
  BY <1>1, PostsKept DEF WidgetInv
<1> QED
  BY <1>1, <1>2, <1>3, TakesKept DEF WidgetInv

LEMMA OnHandledKeeps ==
    ASSUME WidgetInv, OnHandled
    PROVE  WidgetInv'
<1>1. /\ \/ UNCHANGED <<awaits, msgChain, kernelChain>>
         \/ /\ awaits = "handled" /\ awaits' = "nothing"
            /\ msgChain' = Tail(msgChain) /\ kernelChain' = Append(kernelChain, Head(msgChain))
      /\ UNCHANGED <<emitted, hooking, toWebview, shown, captured, discarded, restarted>>
      /\ Takes
  BY DEF OnHandled, Receive, Takes
<1>2. ChainsInv
  BY DEF WidgetInv
<1>3. ChainsInv'
  <2>1. CASE UNCHANGED <<awaits, msgChain, kernelChain>>
    BY <1>1, <1>2, <2>1 DEF ChainsInv, AllSomewhere
  <2>2. CASE /\ awaits = "handled" /\ awaits' = "nothing"
             /\ msgChain' = Tail(msgChain) /\ kernelChain' = Append(kernelChain, Head(msgChain))
    <3>1. msgChain # <<>>
      BY <1>2, <2>2 DEF ChainsInv
    <3>2. PassedOn(Head(msgChain))
      BY <1>2, <2>2, <3>1, MovedOn
    <3> QED
      BY <1>1, <1>2, <2>2, <3>2 DEF ChainsInv, AllSomewhere, PassedOn
  <2> QED
    BY <1>1, <2>1, <2>2
<1>4. PostsInv'
  BY <1>1, PostsKept DEF WidgetInv
<1> QED
  BY <1>1, <1>3, <1>4, TakesKept DEF WidgetInv

LEMMA OnRegisterKeeps ==
    ASSUME WidgetInv, OnRegister \/ OnRemove
    PROVE  WidgetInv'
<1>1. /\ \E id : toWebview' = Append(toWebview, Message("finished", id))
      /\ UNCHANGED <<emitted, msgChain, awaits, kernelChain, hooking, restarted, discarded, shown,
                     captured>>
      /\ Takes
  <2>1. CASE OnRegister
    BY <2>1 DEF OnRegister, Receive, receiving, handling, Takes
  <2>2. CASE OnRemove
    BY <2>2 DEF OnRemove, Receive, receiving, handling, Takes
  <2> QED
    BY <2>1, <2>2
<1>2. ASSUME NEW id, toWebview' = Append(toWebview, Message("finished", id))
      PROVE  PostsInv'
  <2>1. AsksNumber(Message("finished", id))
    BY DEF AsksNumber, Message
  <2> QED
    BY <1>2, <2>1, PostsKept DEF WidgetInv
<1>3. ChainsInv'
  BY <1>1, ChainsKept DEF WidgetInv
<1> QED
  BY <1>1, <1>2, <1>3, TakesKept DEF WidgetInv

\* The message whose result it is goes to the cell, or a widget has taken it.
LEMMA OnHookResultKeeps ==
    ASSUME Typed, WidgetInv, OnHookResult
    PROVE  WidgetInv'
<1> DEFINE x == Head(toExtension)
           m == x.id.of
<1>1. /\ x.type = "hookResult"
      /\ \/ UNCHANGED <<hooking, kernelChain, shown>>
         \/ /\ hooking = m /\ hooking' = None /\ kernelChain' = Tail(kernelChain)
            /\ shown' = IF Kind(m) # "print" \/ x.id.result THEN shown \cup {m} ELSE shown
      /\ UNCHANGED <<emitted, msgChain, awaits, toWebview, captured, discarded, restarted>>
      /\ Takes
  BY DEF OnHookResult, Receive, receiving, Takes
<1>2. ChainsInv
  BY DEF WidgetInv
<1>3. x \in ToSet(toExtension)
  BY <1>1, TailElements DEF WidgetInv, RepliesInv, Takes
<1>4. m \in Nat /\ (x.id.result \/ Taken(m))
  BY <1>1, <1>3 DEF WidgetInv, RepliesInv, Honest
<1>5. ChainsInv'
  <2>1. CASE UNCHANGED <<hooking, kernelChain, shown>>
    BY <1>1, <1>2, <2>1 DEF ChainsInv, AllSomewhere
  <2>2. CASE /\ hooking = m /\ hooking' = None /\ kernelChain' = Tail(kernelChain)
             /\ shown' = IF Kind(m) # "print" \/ x.id.result THEN shown \cup {m} ELSE shown
    <3>1. kernelChain # <<>> /\ Head(kernelChain) = m
      BY <1>2, <1>4, <2>2 DEF ChainsInv, Typed
    <3>2. kernelChain' \in Seq(Nat) /\ ToSet(kernelChain) = {m} \cup ToSet(kernelChain')
      BY <1>2, <2>2, <3>1, NatSequence, TailElements DEF ChainsInv
    <3>3. m \in shown' \cup captured'
      BY <1>1, <1>4, <2>2 DEF Taken
    <3>4. shown \subseteq shown'
      BY <2>2
    <3>5. AllSomewhere'
      BY <1>1, <1>2, <3>2, <3>3, <3>4 DEF ChainsInv, AllSomewhere
    <3> QED
      BY <1>1, <1>2, <2>2, <3>2, <3>5 DEF ChainsInv
  <2> QED
    BY <1>1, <2>1, <2>2
<1>6. PostsInv'
  BY <1>1, PostsKept DEF WidgetInv
<1> QED
  BY <1>1, <1>5, <1>6, TakesKept DEF WidgetInv

(* The webview *)

\* A step of the webview, which takes at most one message.
InWebview ==
    /\ UNCHANGED <<emitted, msgChain, awaits, kernelChain, hooking, restarted, discarded, shown>>
    /\ captured \subseteq captured'
    /\ toWebview' = toWebview \/ (toWebview # <<>> /\ toWebview' = Tail(toWebview))

LEMMA InWebviewKept ==
    ASSUME WidgetInv, InWebview
    PROVE  ChainsInv' /\ PostsInv'
BY ChainsKept, PostsKept DEF WidgetInv, InWebview

\* A message to the extension that is no result of a hook.
NoResults(t) == IsSequence(t) /\ \A x \in ToSet(t) : x.type # "hookResult"

LEMMA NoResultsKept ==
    ASSUME WidgetInv, InWebview,
           toExtension' = toExtension \/ \E t : NoResults(t) /\ toExtension' = toExtension \o t
    PROVE  RepliesInv'
<1>1. CASE toExtension' = toExtension
  BY <1>1, RepliesKept DEF WidgetInv, InWebview
<1>2. ASSUME NEW t, NoResults(t), toExtension' = toExtension \o t
      PROVE  RepliesInv'
  <2>1. HonestPosts(t)
    BY <1>2 DEF NoResults, HonestPosts, Honest
  <2> QED
    BY <1>2, <2>1, RepliesKept DEF WidgetInv, InWebview
<1> QED
  BY <1>1, <1>2

LEMMA OneNoResult ==
    ASSUME NEW x, x.type # "hookResult"
    PROVE  NoResults(<<x>>)
<1>1. <<x>> \in Seq({x}) /\ ToSet(<<x>>) = {x}
  BY DEF ToSet
<1> QED
  BY <1>1 DEF NoResults, IsSequence

LEMMA PostIsConcat ==
    ASSUME NEW s, IsSequence(s), NEW x
    PROVE  Append(s, x) = s \o <<x>>
<1> DEFINE S == ToSet(s) \cup {x}
<1>1. s \in Seq(S) /\ x \in S
  BY DEF IsSequence
<1> HIDE DEF S
<1> QED
  BY <1>1, AppendIsConcat


LEMMA DeliverMirrorKeeps ==
    ASSUME WidgetInv, DeliverMirror \/ DeliverMessage
    PROVE  WidgetInv'
<1> DEFINE x == Message("received", Head(toWebview))
<1>1. /\ toExtension' = Append(toExtension, x)
      /\ \/ webview' = [webview EXCEPT !.known = webview.known \cup {Head(toWebview).id}]
         \/ webview' = [webview EXCEPT !.chain = Append(webview.chain, Head(toWebview).id)]
      /\ captured' = captured
      /\ InWebview
  <2>1. CASE DeliverMirror
    BY <2>1 DEF DeliverMirror, Deliver, UnchangedInExtension,
                receiving, handling, InWebview
  <2>2. CASE DeliverMessage
    BY <2>2 DEF DeliverMessage, Deliver, UnchangedInExtension,
                receiving, handling, InWebview
  <2> QED
    BY <2>1, <2>2
<1>2. NoResults(<<x>>) /\ toExtension' = toExtension \o <<x>>
  <2>1. x.type # "hookResult"
    BY DEF Message
  <2> HIDE DEF x
  <2> QED
    BY <1>1, <2>1, OneNoResult, PostIsConcat DEF WidgetInv, RepliesInv
<1>3. RepliesInv'
  <2> HIDE DEF x
  <2> QED
    BY <1>1, <1>2, NoResultsKept
<1>4. WebviewFields(webview') /\ webview'.held = webview.held /\ webview'.results = webview.results
  BY <1>1 DEF WidgetInv, WebviewInv, WebviewFields
<1>5. WebviewInv'
  BY <1>1, <1>4 DEF WidgetInv, WebviewInv, Taken, WebviewFields
<1> QED
  BY <1>1, <1>3, <1>5, InWebviewKept DEF WidgetInv

\* The result that was kept is false, and a widget has the output then.
LEMMA DeliverHookCallKeeps ==
    ASSUME WidgetInv, DeliverHookCall
    PROVE  WidgetInv'
<1> DEFINE m == Head(toWebview).id
           x == Message("hookResult", [of |-> m, result |-> m \notin webview.results])
<1>1. /\ toWebview # <<>> /\ Head(toWebview).type = "hookCall"
      /\ toExtension' = Append(toExtension, x)
      /\ webview' = [webview EXCEPT !.results = webview.results \ {m}]
      /\ captured' = captured
      /\ InWebview
  BY DEF DeliverHookCall, Deliver, UnchangedInExtension,
         receiving, handling, InWebview
<1>2. m \in Nat
  <2>1. Head(toWebview) \in ToSet(toWebview)
    BY <1>1, TailElements DEF WidgetInv, PostsInv
  <2> QED
    BY <1>1, <2>1 DEF WidgetInv, PostsInv, AsksNumber
<1>3. Honest(x)
  <2>1. m \in webview.results => Taken(m)
    BY DEF WidgetInv, WebviewInv
  <2>2. x.id.of = m /\ x.id.result = (m \notin webview.results)
    BY DEF Message
  <2> HIDE DEF m, x
  <2> QED
    BY <1>2, <2>1, <2>2 DEF Honest
<1>4. RepliesInv'
  <2> HIDE DEF x
  <2>1. HonestPosts(<<x>>) /\ toExtension' = toExtension \o <<x>>
    BY <1>1, <1>3, OnePost, PostIsConcat DEF WidgetInv, RepliesInv
  <2> QED
    BY <1>1, <2>1, RepliesKept DEF WidgetInv, InWebview
<1>5. /\ WebviewFields(webview') /\ webview'.held = webview.held
      /\ webview'.results \subseteq webview.results
  <2> HIDE DEF m, x
  <2> QED
    BY <1>1 DEF WidgetInv, WebviewInv, WebviewFields
<1>6. WebviewInv'
  BY <1>1, <1>5 DEF WidgetInv, WebviewInv, Taken, WebviewFields
<1> QED
  BY <1>1, <1>4, <1>6, InWebviewKept DEF WidgetInv

\* Messages that are reported as handled are no results.
LEMMA DeliverFinishedKeeps ==
    ASSUME WidgetInv, DeliverFinished
    PROVE  WidgetInv'
<1> DEFINE key == Head(toWebview).id
           left == [i \in DOMAIN webview.held |-> [webview.held[i] EXCEPT !.keys = @ \ {key}]]
           done == {i \in DOMAIN left : left[i].keys = {}}
           kept == Those(left, DOMAIN left \ done)
           posts == [k \in 1..Cardinality(done) |->
                        Message("handled", Those(left, done)[k].of)]
<1>1. /\ toExtension' = toExtension \o posts
      /\ webview' = [webview EXCEPT !.awaiting = webview.awaiting \ {key}, !.held = kept]
      /\ captured' = captured
      /\ InWebview
  <2>1. toExtension' = toExtension \o posts
    BY DEF DeliverFinished
  <2>2. webview' = [webview EXCEPT !.awaiting = webview.awaiting \ {key}, !.held = kept]
    BY DEF DeliverFinished
  <2>3. captured' = captured /\ InWebview
    BY DEF DeliverFinished, Deliver, UnchangedInExtension, receiving, handling, InWebview
  <2> QED
    BY <2>1, <2>2, <2>3
<1>2. DOMAIN left = DOMAIN webview.held /\ IsFiniteSet(DOMAIN left)
  <2>1. /\ DOMAIN webview.held = 1..Len(webview.held) /\ Len(webview.held) \in Nat
    BY LenProperties DEF WidgetInv, WebviewInv, IsSequence
  <2>2. DOMAIN left = DOMAIN webview.held
    OBVIOUS
  <2>3. IsFiniteSet(1..Len(webview.held))
    BY <2>1, FS_Interval
  <2> QED
    BY <2>1, <2>2, <2>3
<1>3. done \subseteq DOMAIN left
  OBVIOUS
<1>4. IsSequence(kept) /\ Cardinality(done) \in Nat
  <2> HIDE DEF left, done
  <2> QED
    BY <1>2, <1>3, ThoseSequence
<1>5. NoResults(posts)
  <2> DEFINE n == Cardinality(done)
             id(k) == Those(left, done)[k].of
  <2>1. posts = [k \in 1..n |-> Message("handled", id(k))]
    OBVIOUS
  <2> HIDE DEF n, id, posts
  <2>2. n \in Nat
    BY <1>4 DEF n
  <2>3. IsSequence(posts) /\ DOMAIN posts = 1..n
    BY <2>1, <2>2, AnyFunction
  <2>4. \A k \in 1..n : posts[k].type = "handled"
    BY <2>1 DEF Message
  <2> QED
    BY <2>3, <2>4 DEF NoResults, ToSet
<1> HIDE DEF posts, kept
<1>6. RepliesInv'
  BY <1>1, <1>5, NoResultsKept
<1>7. WebviewFields(webview') /\ webview'.held = kept /\ webview'.results = webview.results
  BY <1>1 DEF WidgetInv, WebviewInv, WebviewFields
<1>8. WebviewInv'
  BY <1>1, <1>4, <1>7 DEF WidgetInv, WebviewInv, Taken, WebviewFields
<1> QED
  BY <1>1, <1>6, <1>8, InWebviewKept DEF WidgetInv

LEMMA DeliverRestartKeeps ==
    ASSUME WidgetInv, DeliverRestart
    PROVE  WidgetInv'
<1>1. /\ webview' = NewWebview /\ toExtension' = toExtension /\ InWebview
  BY DEF DeliverRestart, Deliver, UnchangedInExtension,
         receiving, handling, InWebview
<1>2. WebviewInv'
  BY <1>1 DEF WebviewInv, WebviewFields, NewWebview, IsSequence, ToSet
<1>3. RepliesInv'
  BY <1>1, NoResultsKept
<1> QED
  BY <1>1, <1>2, <1>3, InWebviewKept DEF WidgetInv

\* The webview's connection ends its work on a message: of what the webview holds the chain and
\* the messages held back change.
LEMMA FinishKeeps ==
    ASSUME NEW w, WebviewFields(w), IsSequence(w.held), NEW posts, NoResults(posts), NEW m,
           Finish(w, posts, m), IsSequence(toExtension)
    PROVE  /\ WebviewFields(webview') /\ webview'.results = w.results /\ IsSequence(webview'.held)
           /\ \E t : NoResults(t) /\ toExtension' = toExtension \o t
<1> DEFINE x == Message("handled", m)
           h == [of |-> m, keys |-> w.awaiting]
<1>1. NoResults(<<x>>)
  <2>1. x.type # "hookResult"
    BY DEF Message
  <2> HIDE DEF x
  <2> QED
    BY <2>1, OneNoResult
<1>2. CASE w.awaiting = {}
  <2>1. /\ webview' = [w EXCEPT !.chain = Tail(w.chain), !.creating = FALSE]
        /\ toExtension' = (toExtension \o posts) \o <<x>>
    BY <1>2 DEF Finish
  <2>2. WebviewFields(webview') /\ webview'.results = w.results /\ webview'.held = w.held
    BY <2>1 DEF WebviewFields
  <2>3. NoResults(posts \o <<x>>)
    <3> HIDE DEF x
    <3> QED
      BY <1>1, ConcatElements DEF NoResults
  <2>4. toExtension' = toExtension \o (posts \o <<x>>)
    <3> DEFINE S == ToSet(toExtension) \cup ToSet(posts) \cup ToSet(<<x>>)
    <3> HIDE DEF x
    <3>1. toExtension \in Seq(S) /\ posts \in Seq(S) /\ <<x>> \in Seq(S)
      BY <1>1 DEF NoResults, IsSequence
    <3> HIDE DEF S
    <3> QED
      BY <2>1, <3>1, ConcatTwice
  <2> QED
    BY <2>2, <2>3, <2>4
<1>3. CASE w.awaiting # {}
  <2>1. /\ webview' = [w EXCEPT !.chain = Tail(w.chain), !.creating = FALSE,
                                !.held = Append(w.held, h)]
        /\ toExtension' = toExtension \o posts
    BY <1>3 DEF Finish
  <2> HIDE DEF h
  <2>2. /\ WebviewFields(webview') /\ webview'.results = w.results
        /\ webview'.held = Append(w.held, h)
    BY <2>1 DEF WebviewFields
  <2> QED
    BY <2>1, <2>2, AppendElements
<1> QED
  BY <1>2, <1>3

LEMMA HooksKeep ==
    ASSUME NEW w, WebviewFields(w), NEW r, NEW v,
           v = Capture(w, r) \/ v = Release(w, r)
    PROVE  WebviewFields(v) /\ v.held = w.held /\ v.results = w.results
<1>1. CASE v = Capture(w, r)
  BY <1>1 DEF Capture, WebviewFields
<1>2. ASSUME NEW last, v = [w EXCEPT !.hooks = w.hooks \ {r},
                                     !.awaiting = w.awaiting \cup {<<r, "remove">>},
                                     !.lastHooked = last]
      PROVE  WebviewFields(v) /\ v.held = w.held /\ v.results = w.results
  BY <1>2 DEF WebviewFields
<1>3. CASE v = Release(w, r)
  <2>1. PICK last : last = IF w.lastHooked = <<>> THEN w.lastHooked ELSE Front(w.lastHooked)
    OBVIOUS
  <2>2. v = [w EXCEPT !.hooks = w.hooks \ {r}, !.awaiting = w.awaiting \cup {<<r, "remove">>},
                      !.lastHooked = last]
    BY <1>3, <2>1 DEF Release
  <2> QED
    BY <1>2, <2>2
<1> QED
  BY <1>1, <1>3

\* A message of a widget to the extension that is no result.
LEMMA OtherPost ==
    ASSUME NEW type \in {"register", "remove"}, NEW id
    PROVE  NoResults(<<Message(type, id)>>)
<1> DEFINE x == Message(type, id)
<1>1. x.type # "hookResult"
  BY DEF Message
<1> HIDE DEF x
<1>2. NoResults(<<x>>)
  BY <1>1, OneNoResult
<1> QED
  BY <1>2 DEF x

\* A widget takes the output whose hook says that the cell is not to have it.
LEMMA WebviewHandlesKeeps ==
    ASSUME WidgetInv, WebviewHandles
    PROVE  WidgetInv'
<1> DEFINE m == Head(webview.chain)
           r == Parent(m)
           w == Hooked(webview, m)
           c == Capture(w, r)
           d == Release(w, r)
<1>1. /\ captured' = IF HasHook(webview, m) /\ Kind(m) = "print"
                     THEN captured \cup {m} ELSE captured
      /\ \/ Finish(c, <<Message("register", r)>>, m)
         \/ \E last : Finish(d, <<Message("remove", [hook |-> r, last |-> last])>>, m)
         \/ webview' = [w EXCEPT !.creating = TRUE] /\ UNCHANGED toExtension
         \/ Finish(w, <<>>, m)
      /\ InWebview
  BY DEF WebviewHandles, UnchangedInExtension, receiving,
         handling, InWebview
<1>2. /\ WebviewFields(w) /\ w.held = webview.held
      /\ w.results = webview.results \/ (w.results = webview.results \cup {m} /\ HasHook(webview, m))
  BY DEF Hooked, WidgetInv, WebviewInv, WebviewFields
<1>3. IsSequence(webview.held) /\ IsSequence(toExtension)
  BY DEF WidgetInv, WebviewInv, RepliesInv
<1>4. \A x \in w.results : Kind(x) = "print" => x \in captured'
  BY <1>1, <1>2 DEF WidgetInv, WebviewInv, Taken
<1> HIDE DEF w
<1>5. /\ WebviewFields(c) /\ c.held = w.held /\ c.results = w.results
      /\ WebviewFields(d) /\ d.held = w.held /\ d.results = w.results
  <2> HIDE DEF r
  <2> QED
    BY <1>2, HooksKeep
<1> HIDE DEF m, r, c, d
<1> DEFINE After == /\ WebviewFields(webview') /\ webview'.results = w.results
                    /\ IsSequence(webview'.held)
                    /\ \/ toExtension' = toExtension
                       \/ \E t : NoResults(t) /\ toExtension' = toExtension \o t
<1>6. ASSUME Finish(c, <<Message("register", r)>>, m) PROVE After
  <2>1. NoResults(<<Message("register", r)>>)
    BY OtherPost
  <2> QED
    BY <1>2, <1>3, <1>5, <1>6, <2>1, FinishKeeps
<1>7. ASSUME NEW last,
             Finish(d, <<Message("remove", [hook |-> r, last |-> last])>>, m)
      PROVE  After
  <2>1. NoResults(<<Message("remove", [hook |-> r, last |-> last])>>)
    BY OtherPost
  <2> QED
    BY <1>2, <1>3, <1>5, <1>7, <2>1, FinishKeeps
<1>8. ASSUME webview' = [w EXCEPT !.creating = TRUE], UNCHANGED toExtension PROVE After
  BY <1>2, <1>3, <1>8 DEF WebviewFields
<1>9. ASSUME Finish(w, <<>>, m) PROVE After
  <2>1. NoResults(<<>>)
    BY DEF NoResults, IsSequence, ToSet
  <2> QED
    BY <1>2, <1>3, <1>9, <2>1, FinishKeeps
<1>10. After
  BY <1>1, <1>6, <1>7, <1>8, <1>9
<1>11. WebviewInv'
  BY <1>4, <1>10 DEF WebviewInv, Taken, WebviewFields
<1>12. RepliesInv'
  BY <1>1, <1>10, NoResultsKept
<1> QED
  BY <1>1, <1>11, <1>12, InWebviewKept DEF WidgetInv

LEMMA ModelCreatedKeeps ==
    ASSUME WidgetInv, ModelCreated
    PROVE  WidgetInv'
<1>1. /\ Finish(webview, <<>>, Head(webview.chain))
      /\ captured' = captured
      /\ InWebview
  BY DEF ModelCreated, UnchangedInExtension, receiving,
         handling, InWebview
<1>2. NoResults(<<>>)
  BY DEF NoResults, IsSequence, ToSet
<1>3. /\ WebviewFields(webview') /\ webview'.results = webview.results /\ IsSequence(webview'.held)
      /\ \E t : NoResults(t) /\ toExtension' = toExtension \o t
  BY <1>1, <1>2, FinishKeeps DEF WidgetInv, WebviewInv, RepliesInv
<1>4. WebviewInv'
  BY <1>1, <1>3 DEF WidgetInv, WebviewInv, Taken, WebviewFields
<1>5. RepliesInv'
  BY <1>1, <1>3, NoResultsKept
<1> QED
  BY <1>1, <1>4, <1>5, InWebviewKept DEF WidgetInv

LEMMA WidgetInvNext == Typed /\ WidgetInv /\ [Next]_vars => WidgetInv'
<1> SUFFICES ASSUME Typed, WidgetInv, [Next]_vars PROVE WidgetInv'
  OBVIOUS
<1>1. CASE UNCHANGED vars
  <2>1. WebviewInv' /\ RepliesInv' /\ PostsInv' /\ ChainsInv'
    BY <1>1, WebviewKept, RepliesKept, PostsKept, ChainsKept DEF WidgetInv, vars
  <2> QED
    BY <2>1 DEF WidgetInv
<1> QED
  BY <1>1, EmitKeeps, SocketMessageKeeps, HandleMessageKeeps, RestartKeeps, RequestKeeps,
     OnReceivedKeeps, OnHandledKeeps, OnRegisterKeeps, OnHookResultKeeps, DeliverMirrorKeeps,
     DeliverHookCallKeeps, DeliverFinishedKeeps, DeliverRestartKeeps, WebviewHandlesKeeps,
     ModelCreatedKeeps DEF Next

LEMMA NoneLost == WidgetInv => NoOutputLost
  BY DEF WidgetInv, ChainsInv, AllSomewhere, NoOutputLost

-----------------------------------------------------------------------------
(* What the kernel emits *)

LEMMA ScriptFacts ==
    ASSUME Assumptions
    PROVE  /\ Messages = 1..Len(Script) /\ Len(Script) \in Nat /\ None \notin Nat
           /\ \A m \in Messages : Parent(m) \in Nat /\ Parent(m) # 0
           /\ \A i, j \in Messages : i <= j => Parent(i) <= Parent(j)
           /\ \A m \in Messages : Kind(m) = "release" => Capturing(m)
           /\ \A m \in Messages : Kind(m) \in {"capture", "release"} => Opened(m)
<1>1. Script \in Seq([request : Nat \ {0}, kind : STRING])
  BY DEF Assumptions, Typed
<1>2. DOMAIN Script = 1..Len(Script) /\ Len(Script) \in Nat
  BY <1>1, LenProperties
<1>3. \A m \in 1..Len(Script) : Script[m] \in [request : Nat \ {0}, kind : STRING]
  BY <1>1, ElementOfSeq
<1> QED
  BY <1>2, <1>3 DEF Messages, Parent, Assumptions, Typed, Protocol

\* Whether the outputs of request r are captured when message n comes.
CapturingAt(r, n) ==
    \E c \in Messages : c < n /\ Kind(c) = "capture" /\ Parent(c) = r /\
        \A k \in Messages : c < k /\ k < n /\ Parent(k) = r => Kind(k) # "release"

LEMMA CapturesNext ==
    ASSUME Assumptions, NEW n \in Messages, NEW r
    PROVE  /\ Parent(n) # r => (CapturingAt(r, n + 1) <=> CapturingAt(r, n))
           /\ Kind(n) \notin {"capture", "release"} => (CapturingAt(r, n + 1) <=> CapturingAt(r, n))
           /\ Parent(n) = r /\ Kind(n) = "capture" => CapturingAt(r, n + 1)
           /\ Parent(n) = r /\ Kind(n) = "release" => ~CapturingAt(r, n + 1)
<1>1. Messages \subseteq Nat
  BY ScriptFacts
<1>2. \A c \in Messages : c < n + 1 <=> (c < n \/ c = n)
  BY <1>1
<1>3. \A c, k \in Messages : c < k => ~(k < c) /\ k # c
  BY <1>1
<1> HIDE DEF Messages
<1>4. ASSUME Parent(n) # r \/ Kind(n) \notin {"capture", "release"}
      PROVE  CapturingAt(r, n + 1) <=> CapturingAt(r, n)
  BY <1>2, <1>3, <1>4 DEF CapturingAt
<1>5. ASSUME Parent(n) = r, Kind(n) = "capture" PROVE CapturingAt(r, n + 1)
  <2>1. \A k \in Messages : ~(n < k /\ k < n + 1)
    BY <1>1
  <2> QED
    BY <1>2, <1>5, <2>1 DEF CapturingAt
<1>6. ASSUME Parent(n) = r, Kind(n) = "release" PROVE ~CapturingAt(r, n + 1)
  <2>1. ASSUME NEW c \in Messages, c < n + 1, Kind(c) = "capture", Parent(c) = r,
               \A k \in Messages : c < k /\ k < n + 1 /\ Parent(k) = r => Kind(k) # "release"
        PROVE  FALSE
    BY <1>1, <1>2, <1>6, <2>1
  <2> QED
    BY <2>1 DEF CapturingAt
<1> QED
  BY <1>4, <1>5, <1>6

-----------------------------------------------------------------------------
(* A queue of posts in which the mark k is the place of the restart, or its end *)

\* The posts are what Message makes.
Queue(W, k) ==
    /\ IsSequence(W) /\ k \in 1..(Len(W) + 1) /\ Len(W) \in Nat
    /\ \A i \in 1..Len(W) : W[i] = Message(W[i].type, W[i].id) /\ (W[i].type = "restart" <=> i = k)

\* The mark when another post follows.
Later(W, k) == IF k = Len(W) + 1 THEN k + 1 ELSE k

\* What follows the post x in U was at the place after it in W.
Followed(W, U, x) ==
    /\ Len(U) = Len(W) + 1 /\ Len(W) \in Nat
    /\ \A i \in 1..Len(W) : U[i] = W[i]
    /\ U[Len(W) + 1] = x

Shifted(W, U) ==
    /\ Len(W) = Len(U) + 1 /\ Len(U) \in Nat
    /\ \A i \in 1..Len(U) : U[i] = W[i + 1]

LEMMA MessageFields ==
    ASSUME NEW type, NEW id
    PROVE  Message(type, id).type = type /\ Message(type, id).id = id
BY DEF Message

LEMMA AppendFollows ==
    ASSUME NEW W, IsSequence(W), NEW x
    PROVE  IsSequence(Append(W, x)) /\ Followed(W, Append(W, x), x)
<1>1. Len(W) \in Nat
  BY LenProperties DEF IsSequence
<1> QED
  BY <1>1, AppendElements DEF Followed

LEMMA TailShifts ==
    ASSUME NEW W, IsSequence(W), W # <<>>
    PROVE  IsSequence(Tail(W)) /\ Shifted(W, Tail(W)) /\ W[1] = Head(W)
<1>1. W \in Seq(ToSet(W))
  BY DEF IsSequence
<1>2. Len(Tail(W)) = Len(W) - 1 /\ Len(W) \in Nat /\ Len(W) # 0 /\ Head(W) = W[1]
  BY <1>1, HeadTailProperties, EmptySeq, LenProperties
<1> QED
  BY <1>2, TailElements DEF Shifted

LEMMA QueueFollowed ==
    ASSUME NEW W, NEW k, Queue(W, k), NEW type, NEW id, type # "restart",
           NEW U, U = Append(W, Message(type, id))
    PROVE  Queue(U, Later(W, k)) /\ Followed(W, U, Message(type, id))
<1> DEFINE x == Message(type, id)
<1>1. IsSequence(U) /\ Followed(W, U, x)
  BY AppendFollows DEF Queue
<1>2. x.type = type /\ x.id = id
  BY MessageFields
<1>3. x = Message(x.type, x.id)
  BY <1>2
<1> HIDE DEF x
<1> QED
  BY <1>1, <1>2, <1>3 DEF Queue, Followed, Later, x

LEMMA QueueRestarted ==
    ASSUME NEW W, Queue(W, Len(W) + 1), NEW U, U = Append(W, Message("restart", None))
    PROVE  Queue(U, Len(W) + 1) /\ Followed(W, U, Message("restart", None))
<1> DEFINE x == Message("restart", None)
<1>1. IsSequence(U) /\ Followed(W, U, x)
  BY AppendFollows DEF Queue
<1>2. x.type = "restart" /\ x.id = None
  BY MessageFields
<1>3. x = Message(x.type, x.id)
  BY <1>2
<1> HIDE DEF x
<1> QED
  BY <1>1, <1>2, <1>3 DEF Queue, Followed, x

LEMMA QueueShifted ==
    ASSUME NEW W, NEW k, Queue(W, k), W # <<>>, Head(W).type # "restart"
    PROVE  Queue(Tail(W), k - 1) /\ Shifted(W, Tail(W)) /\ W[1] = Head(W) /\ k # 1
           /\ Head(W) = Message(Head(W).type, Head(W).id)
<1>1. IsSequence(Tail(W)) /\ Shifted(W, Tail(W)) /\ W[1] = Head(W)
  BY TailShifts DEF Queue
<1>2. k # 1
  BY <1>1 DEF Queue, Shifted
<1> QED
  BY <1>1, <1>2 DEF Queue, Shifted

LEMMA QueueRestarts ==
    ASSUME NEW W, NEW k, Queue(W, k), W # <<>>, Head(W).type = "restart"
    PROVE  Queue(Tail(W), Len(W)) /\ Shifted(W, Tail(W)) /\ W[1] = Head(W) /\ k = 1
<1> DEFINE U == Tail(W)
<1>1. IsSequence(U) /\ Shifted(W, U) /\ W[1] = Head(W)
  BY TailShifts DEF Queue
<1> HIDE DEF U
<1>2. k = 1
  BY <1>1 DEF Queue, Shifted
<1>3. Len(W) \in 1..(Len(U) + 1) /\ Len(U) \in Nat
  BY <1>1 DEF Shifted
<1>4. ASSUME NEW i \in 1..Len(U)
      PROVE  U[i] = Message(U[i].type, U[i].id) /\ U[i].type # "restart" /\ i # Len(W)
  <2>1. i + 1 \in 1..Len(W) /\ i + 1 # 1 /\ U[i] = W[i + 1] /\ i # Len(W)
    BY <1>1 DEF Shifted
  <2> QED
    BY <1>2, <2>1 DEF Queue
<1>5. Queue(U, Len(W))
  BY <1>1, <1>3, <1>4 DEF Queue
<1> QED
  BY <1>1, <1>2, <1>5 DEF U

(* What was posted before a place, or is there when the webview gets to it *)

Before(type, id, j, there, W, k) ==
    \/ \E i \in 1..Len(W) : i < j /\ W[i].type = type /\ W[i].id = id /\ ~(i < k /\ k < j)
    \/ j <= k /\ id \in there

LEMMA BeforeFollowed ==
    ASSUME NEW W, NEW U, NEW x, Followed(W, U, x), NEW k \in 1..(Len(W) + 1), NEW there,
           NEW type, NEW id, NEW j \in 1..(Len(W) + 1), Before(type, id, j, there, W, k)
    PROVE  /\ Before(type, id, j, there, U, Later(W, k))
           /\ k = Len(W) + 1 => Before(type, id, j, there, U, k)
           /\ j = Len(W) + 1 => Before(type, id, j + 1, there, U, Later(W, k))
BY DEF Followed, Before, Later

LEMMA BeforeLast ==
    ASSUME NEW W, NEW U, NEW x, Followed(W, U, x), NEW k \in 1..(Len(W) + 1), NEW there
    PROVE  Before(x.type, x.id, Len(W) + 2, there, U, Later(W, k))
BY DEF Followed, Before, Later

LEMMA BeforeShifted ==
    ASSUME NEW W, NEW U, Shifted(W, U), NEW k \in 2..(Len(W) + 1), NEW there, NEW others,
           NEW type, NEW id, NEW j \in 2..(Len(W) + 1), Before(type, id, j, there, W, k),
           id \in there => id \in others, W[1].type = type /\ W[1].id = id => id \in others
    PROVE  Before(type, id, j - 1, others, U, k - 1)
<1>1. CASE j <= k /\ id \in there
  BY <1>1 DEF Before, Shifted
<1>2. ASSUME NEW i \in 1..Len(W), i < j, W[i].type = type, W[i].id = id, ~(i < k /\ k < j)
      PROVE  Before(type, id, j - 1, others, U, k - 1)
  <2>1. CASE i = 1
    BY <1>2, <2>1 DEF Before, Shifted
  <2>2. CASE i # 1
    <3>1. i - 1 \in 1..Len(U) /\ U[i - 1] = W[i]
      BY <2>2 DEF Shifted
    <3> QED
      BY <1>2, <3>1 DEF Before
  <2> QED
    BY <2>1, <2>2
<1> QED
  BY <1>1, <1>2 DEF Before

LEMMA BeforeRestarted ==
    ASSUME NEW W, NEW U, Shifted(W, U), NEW there, NEW others,
           NEW type, NEW id, NEW j \in 2..(Len(W) + 1), Before(type, id, j, there, W, 1),
           W[1].type # type
    PROVE  Before(type, id, j - 1, others, U, Len(W))
<1>1. PICK i \in 1..Len(W) : i < j /\ W[i].type = type /\ W[i].id = id /\ ~(i < 1 /\ 1 < j)
  BY DEF Before, Shifted
<1>2. i - 1 \in 1..Len(U) /\ U[i - 1] = W[i]
  BY <1>1 DEF Shifted
<1> QED
  BY <1>1, <1>2 DEF Before, Shifted

-----------------------------------------------------------------------------
(* The messages that come to the webview *)

\* Messages from b on are of requests after those of the messages before.
Cut(b) == \A i, j \in Messages : i < b /\ b <= j => Parent(i) < Parent(j)

IsPosted(W, i, m) == W[i].type = "message" /\ W[i].id = m

\* The webview gets the messages t..e before the mark and b..s after it, in their order and
\* each of them.
InRange(t, e, b, k, W, s) ==
    \A i \in 1..Len(W) : W[i].type = "message" =>
        W[i].id \in IF i < k THEN t..e ELSE b..s

InOrder(W) ==
    \A i, j \in 1..Len(W) :
        i < j /\ W[i].type = "message" /\ W[j].type = "message" => W[i].id < W[j].id

AllPosted(t, e, b, k, W, s) ==
    /\ \A m \in t..e : \E i \in 1..Len(W) : i < k /\ IsPosted(W, i, m)
    /\ \A m \in b..s : \E i \in 1..Len(W) : i > k /\ IsPosted(W, i, m)

Coming(t, e, b, k, W, s) ==
    /\ t \in Nat /\ e \in Nat /\ b \in Nat /\ s \in Nat
    /\ t >= 1 /\ t <= e + 1 /\ e < b /\ b <= s + 1
    /\ k = Len(W) + 1 => e = s /\ b = s + 1
    /\ k <= Len(W) => Cut(b)
    /\ InRange(t, e, b, k, W, s) /\ InOrder(W) /\ AllPosted(t, e, b, k, W, s)

LEMMA ComingFollowed ==
    ASSUME NEW t, NEW e, NEW b, NEW k, NEW W, NEW s, Queue(W, k), Coming(t, e, b, k, W, s),
           NEW U, NEW x, Followed(W, U, x), x.type \notin {"message", "restart"}
    PROVE  Coming(t, e, b, Later(W, k), U, s)
<1> DEFINE l == Later(W, k)
<1>1. /\ Len(U) = Len(W) + 1 /\ Len(W) \in Nat /\ k \in 1..(Len(W) + 1) /\ U[Len(U)] = x
      /\ \A i \in 1..Len(W) : U[i] = W[i]
      /\ \A i \in 1..Len(U) : i \in 1..Len(W) \/ i = Len(U)
  BY DEF Queue, Followed
<1>2. /\ l \in 1..(Len(U) + 1) /\ (l = Len(U) + 1 => k = Len(W) + 1)
      /\ (l <= Len(U) => k <= Len(W)) /\ \A i \in 1..Len(W) : (i < l <=> i < k) /\ (i > l <=> i > k)
  BY <1>1 DEF Later
<1> HIDE DEF l
<1>3. InRange(t, e, b, l, U, s)
  BY <1>1, <1>2 DEF Coming, InRange
<1>4. InOrder(U)
  BY <1>1 DEF Coming, InOrder
<1>5. \A i \in 1..Len(W) : i \in 1..Len(U) /\ \A m : IsPosted(W, i, m) => IsPosted(U, i, m)
  BY <1>1 DEF IsPosted
<1>6. AllPosted(t, e, b, l, U, s)
  BY <1>2, <1>5 DEF Coming, AllPosted
<1> QED
  BY <1>2, <1>3, <1>4, <1>6 DEF Coming, l

\* The next message is posted.
LEMMA ComingGrows ==
    ASSUME NEW t, NEW e, NEW b, NEW k, NEW W, NEW s, Queue(W, k), Coming(t, e, b, k, W, s),
           NEW U, NEW x, Followed(W, U, x), x.type = "message", x.id = s + 1
    PROVE  \E e2, b2 \in Nat : e <= e2 /\ b <= b2 /\ Coming(t, e2, b2, Later(W, k), U, s + 1)
<1> DEFINE l == Later(W, k)
<1>1. /\ Len(U) = Len(W) + 1 /\ Len(W) \in Nat /\ k \in 1..(Len(W) + 1) /\ U[Len(U)] = x
      /\ \A i \in 1..Len(W) : U[i] = W[i]
      /\ \A i \in 1..Len(U) : i \in 1..Len(W) \/ i = Len(U)
      /\ Len(U) \in 1..Len(U)
  BY DEF Queue, Followed
<1>2. /\ l \in 1..(Len(U) + 1) /\ (l = Len(U) + 1 <=> k = Len(W) + 1) /\ l # Len(U)
      /\ (l <= Len(U) <=> k <= Len(W)) /\ \A i \in 1..Len(W) : (i < l <=> i < k) /\ (i > l <=> i > k)
  BY <1>1 DEF Later
<1> HIDE DEF l
<1>3. /\ t \in Nat /\ e \in Nat /\ b \in Nat /\ s \in Nat
      /\ t >= 1 /\ t <= e + 1 /\ e < b /\ b <= s + 1
      /\ k = Len(W) + 1 => e = s /\ b = s + 1
      /\ k <= Len(W) => Cut(b)
      /\ InRange(t, e, b, k, W, s) /\ InOrder(W) /\ AllPosted(t, e, b, k, W, s)
  BY DEF Coming
<1>4. \A i \in 1..Len(W) : i \in 1..Len(U) /\ \A m : IsPosted(W, i, m) => IsPosted(U, i, m)
  BY <1>1 DEF IsPosted
<1>5. IsPosted(U, Len(U), s + 1)
  BY <1>1 DEF IsPosted
<1>6. InOrder(U)
  <2>1. \A i \in 1..Len(W) : W[i].type = "message" => W[i].id \in Nat /\ W[i].id < s + 1
    BY <1>3 DEF InRange
  <2>2. SUFFICES ASSUME NEW i \in 1..Len(U), NEW j \in 1..Len(U), i < j,
                        U[i].type = "message", U[j].type = "message"
                 PROVE  U[i].id < U[j].id
    BY DEF InOrder
  <2>3. i \in 1..Len(W) /\ U[i] = W[i]
    BY <1>1, <2>2
  <2>4. CASE j = Len(U)
    <3>1. U[j].id = s + 1
      BY <1>1, <2>4
    <3> QED
      BY <2>1, <2>2, <2>3, <3>1
  <2>5. CASE j # Len(U)
    <3>1. j \in 1..Len(W) /\ U[j] = W[j]
      BY <1>1, <2>5
    <3> QED
      BY <1>3, <2>2, <2>3, <3>1 DEF InOrder
  <2> QED
    BY <2>4, <2>5
<1>7. CASE k = Len(W) + 1
  <2>1. InRange(t, s + 1, s + 2, l, U, s + 1)
    BY <1>1, <1>2, <1>3, <1>7 DEF InRange
  <2>2. \A m \in t..(s + 1) : m \in t..e \/ m = s + 1
    BY <1>3, <1>7
  <2>3. AllPosted(t, s + 1, s + 2, l, U, s + 1)
    BY <1>1, <1>2, <1>3, <1>4, <1>5, <1>7, <2>2 DEF AllPosted
  <2>4. Coming(t, s + 1, s + 2, l, U, s + 1)
    BY <1>1, <1>2, <1>3, <1>6, <1>7, <2>1, <2>3 DEF Coming
  <2> QED
    BY <1>3, <1>7, <2>4 DEF l
<1>8. CASE k <= Len(W)
  <2>1. InRange(t, e, b, l, U, s + 1)
    BY <1>1, <1>2, <1>3, <1>8 DEF InRange
  <2>0. b \in Nat /\ s \in Nat
    BY DEF Coming
  <2>2. \A m \in b..(s + 1) : m \in b..s \/ m = s + 1
    BY <2>0
  <2>5. ASSUME NEW m \in t..e PROVE \E i \in 1..Len(U) : i < l /\ IsPosted(U, i, m)
    <3>1. PICK i \in 1..Len(W) : i < k /\ IsPosted(W, i, m)
      BY <1>3 DEF AllPosted
    <3> QED
      BY <1>2, <1>4, <3>1
  <2>6. ASSUME NEW m \in b..s PROVE \E i \in 1..Len(U) : i > l /\ IsPosted(U, i, m)
    <3>1. PICK i \in 1..Len(W) : i > k /\ IsPosted(W, i, m)
      BY <1>3 DEF AllPosted
    <3> QED
      BY <1>2, <1>4, <3>1
  <2>7. Len(U) \in 1..Len(U) /\ Len(U) > l
    BY <1>1, <1>2, <1>8
  <2>3. AllPosted(t, e, b, l, U, s + 1)
    BY <1>5, <2>2, <2>5, <2>6, <2>7 DEF AllPosted
  <2>4. Coming(t, e, b, l, U, s + 1)
    BY <1>1, <1>2, <1>3, <1>6, <1>8, <2>1, <2>3 DEF Coming
  <2> QED
    BY <1>3, <2>4 DEF l
<1> QED
  BY <1>1, <1>7, <1>8

\* A restart: what the new socket brings comes after what it cuts off.
LEMMA ComingCut ==
    ASSUME NEW t, NEW e, NEW b, NEW W, NEW s, Queue(W, Len(W) + 1),
           Coming(t, e, b, Len(W) + 1, W, s),
           NEW U, NEW x, Followed(W, U, x), x.type = "restart",
           NEW p \in Nat, s <= p, Cut(p + 1)
    PROVE  Coming(t, e, p + 1, Len(W) + 1, U, p)
<1> DEFINE k == Len(W) + 1
<1>1. /\ Len(U) = Len(W) + 1 /\ Len(W) \in Nat /\ U[Len(U)] = x
      /\ \A i \in 1..Len(W) : U[i] = W[i]
      /\ \A i \in 1..Len(U) : i \in 1..Len(W) \/ i = Len(U)
  BY DEF Queue, Followed
<1>2. /\ t \in Nat /\ e \in Nat /\ s \in Nat
      /\ t >= 1 /\ t <= e + 1 /\ e = s
      /\ InRange(t, e, b, k, W, s) /\ InOrder(W) /\ AllPosted(t, e, b, k, W, s)
  BY DEF Coming
<1>3. InRange(t, e, p + 1, k, U, p)
  BY <1>1, <1>2 DEF InRange
<1>4. InOrder(U)
  BY <1>1, <1>2 DEF InOrder
<1>5. \A i \in 1..Len(W) : i \in 1..Len(U) /\ \A m : IsPosted(W, i, m) => IsPosted(U, i, m)
  BY <1>1 DEF IsPosted
<1>6. AllPosted(t, e, p + 1, k, U, p)
  BY <1>2, <1>5 DEF AllPosted
<1> QED
  BY <1>1, <1>2, <1>3, <1>4, <1>6 DEF Coming

\* The webview takes a post that is no message.
LEMMA ComingShifted ==
    ASSUME NEW t, NEW e, NEW b, NEW k, NEW W, NEW s, Queue(W, k), Coming(t, e, b, k, W, s),
           NEW U, Shifted(W, U), W[1].type \notin {"message", "restart"}
    PROVE  Coming(t, e, b, k - 1, U, s)
<1>1. /\ Len(W) = Len(U) + 1 /\ Len(U) \in Nat
      /\ \A i \in 1..Len(U) : i + 1 \in 1..Len(W) /\ U[i] = W[i + 1]
      /\ \A i \in 1..Len(W) : i # 1 => i - 1 \in 1..Len(U) /\ U[i - 1] = W[i]
      /\ k \in 2..(Len(W) + 1)
  BY DEF Queue, Shifted
<1>2. InRange(t, e, b, k - 1, U, s)
  <2> SUFFICES ASSUME NEW i \in 1..Len(U), U[i].type = "message"
               PROVE  U[i].id \in IF i < k - 1 THEN t..e ELSE b..s
    BY DEF InRange
  <2>1. W[i + 1].id \in IF i + 1 < k THEN t..e ELSE b..s
    BY <1>1 DEF Coming, InRange
  <2> QED
    BY <1>1, <2>1
<1>3. InOrder(U)
  <2> SUFFICES ASSUME NEW i \in 1..Len(U), NEW j \in 1..Len(U), i < j, U[i].type = "message",
                      U[j].type = "message"
               PROVE  U[i].id < U[j].id
    BY DEF InOrder
  <2>1. i + 1 < j + 1
    OBVIOUS
  <2>2. W[i + 1].id < W[j + 1].id
    BY <1>1, <2>1 DEF Coming, InOrder
  <2> QED
    BY <1>1, <2>2
<1>4. \A m : \A i \in 1..Len(W) : IsPosted(W, i, m) => i - 1 \in 1..Len(U) /\ IsPosted(U, i - 1, m)
  BY <1>1 DEF IsPosted
<1>5. \A m \in t..e : \E i \in 1..Len(U) : i < k - 1 /\ IsPosted(U, i, m)
  <2> SUFFICES ASSUME NEW m \in t..e PROVE \E i \in 1..Len(U) : i < k - 1 /\ IsPosted(U, i, m)
    OBVIOUS
  <2>1. PICK i \in 1..Len(W) : i < k /\ IsPosted(W, i, m)
    BY DEF Coming, AllPosted
  <2> QED
    BY <1>1, <1>4, <2>1
<1>6. \A m \in b..s : \E i \in 1..Len(U) : i > k - 1 /\ IsPosted(U, i, m)
  <2> SUFFICES ASSUME NEW m \in b..s PROVE \E i \in 1..Len(U) : i > k - 1 /\ IsPosted(U, i, m)
    OBVIOUS
  <2>1. PICK i \in 1..Len(W) : i > k /\ IsPosted(W, i, m)
    BY DEF Coming, AllPosted
  <2> QED
    BY <1>1, <1>4, <2>1
<1>7. AllPosted(t, e, b, k - 1, U, s)
  BY <1>5, <1>6 DEF AllPosted
<1>8. (k - 1 = Len(U) + 1 => k = Len(W) + 1) /\ (k - 1 <= Len(U) => k <= Len(W))
  BY <1>1
<1> QED
  BY <1>2, <1>3, <1>7, <1>8 DEF Coming

\* It takes a message, which is the next of those that come.
LEMMA ComingTaken ==
    ASSUME NEW t, NEW e, NEW b, NEW k, NEW W, NEW s, Queue(W, k), Coming(t, e, b, k, W, s),
           NEW U, Shifted(W, U), W[1].type = "message"
    PROVE  W[1].id = t /\ t <= e /\ Coming(t + 1, e, b, k - 1, U, s)
<1>1. /\ Len(W) = Len(U) + 1 /\ Len(U) \in Nat
      /\ \A i \in 1..Len(U) : i + 1 \in 1..Len(W) /\ U[i] = W[i + 1]
      /\ \A i \in 1..Len(W) : i # 1 => i - 1 \in 1..Len(U) /\ U[i - 1] = W[i]
      /\ k \in 2..(Len(W) + 1) /\ 1 \in 1..Len(W) /\ 1 < k
  BY DEF Queue, Shifted
<1>2. /\ t \in Nat /\ e \in Nat /\ b \in Nat /\ s \in Nat
      /\ t >= 1 /\ t <= e + 1 /\ e < b /\ b <= s + 1
      /\ InRange(t, e, b, k, W, s) /\ InOrder(W) /\ AllPosted(t, e, b, k, W, s)
  BY DEF Coming
<1>3. W[1].id \in t..e
  BY <1>1, <1>2 DEF InRange
<1>4. W[1].id = t
  <2>1. PICK i \in 1..Len(W) : i < k /\ IsPosted(W, i, t)
    BY <1>2, <1>3 DEF AllPosted
  <2>2. i # 1 => W[1].id < t
    BY <1>1, <1>2, <2>1 DEF InOrder, IsPosted
  <2> QED
    BY <1>2, <1>3, <2>1, <2>2 DEF IsPosted
<1>5. InRange(t + 1, e, b, k - 1, U, s)
  <2> SUFFICES ASSUME NEW i \in 1..Len(U), U[i].type = "message"
               PROVE  U[i].id \in IF i < k - 1 THEN (t + 1)..e ELSE b..s
    BY DEF InRange
  <2>1. W[i + 1].id \in IF i + 1 < k THEN t..e ELSE b..s
    BY <1>1, <1>2 DEF InRange
  <2>2. W[1].id < W[i + 1].id
    BY <1>1, <1>2 DEF InOrder
  <2> QED
    BY <1>1, <1>2, <1>4, <2>1, <2>2
<1>6. InOrder(U)
  <2> SUFFICES ASSUME NEW i \in 1..Len(U), NEW j \in 1..Len(U), i < j, U[i].type = "message",
                      U[j].type = "message"
               PROVE  U[i].id < U[j].id
    BY DEF InOrder
  <2>1. i + 1 < j + 1
    OBVIOUS
  <2>2. W[i + 1].id < W[j + 1].id
    BY <1>1, <1>2, <2>1 DEF InOrder
  <2> QED
    BY <1>1, <2>2
<1>7. \A m : \A i \in 1..Len(W) : m # t /\ IsPosted(W, i, m) => i - 1 \in 1..Len(U)
        /\ IsPosted(U, i - 1, m)
  BY <1>1, <1>4 DEF IsPosted
<1>8. \A m \in (t + 1)..e : \E i \in 1..Len(U) : i < k - 1 /\ IsPosted(U, i, m)
  <2> SUFFICES ASSUME NEW m \in (t + 1)..e
               PROVE  \E i \in 1..Len(U) : i < k - 1 /\ IsPosted(U, i, m)
    OBVIOUS
  <2>1. m \in t..e /\ m # t
    BY <1>2
  <2>2. PICK i \in 1..Len(W) : i < k /\ IsPosted(W, i, m)
    BY <1>2, <2>1 DEF AllPosted
  <2> QED
    BY <1>1, <1>7, <2>1, <2>2
<1>9. \A m \in b..s : \E i \in 1..Len(U) : i > k - 1 /\ IsPosted(U, i, m)
  <2> SUFFICES ASSUME NEW m \in b..s PROVE \E i \in 1..Len(U) : i > k - 1 /\ IsPosted(U, i, m)
    OBVIOUS
  <2>1. PICK i \in 1..Len(W) : i > k /\ IsPosted(W, i, m)
    BY <1>2 DEF AllPosted
  <2>2. m # t
    BY <1>2, <1>3
  <2> QED
    BY <1>1, <1>7, <2>1, <2>2
<1>10. AllPosted(t + 1, e, b, k - 1, U, s)
  BY <1>8, <1>9 DEF AllPosted
<1>11. (k - 1 = Len(U) + 1 => k = Len(W) + 1) /\ (k - 1 <= Len(U) => k <= Len(W)) /\ t <= e
  BY <1>1, <1>2, <1>3
<1>12. k - 1 = Len(U) + 1 => e = s /\ b = s + 1
  BY <1>11, Zenon DEF Coming
<1>13. k - 1 <= Len(U) => Cut(b)
  BY <1>11, Zenon DEF Coming
<1>14. t <= e /\ t + 1 \in Nat /\ t + 1 >= 1 /\ t + 1 <= e + 1
  BY <1>2, <1>11
<1>15. e \in Nat /\ b \in Nat /\ s \in Nat /\ e < b /\ b <= s + 1
  BY <1>2
<1> QED
  BY <1>4, <1>5, <1>6, <1>10, <1>12, <1>13, <1>14, <1>15, Zenon DEF Coming

\* It takes the restart: nothing came before it any more.
LEMMA ComingRestarted ==
    ASSUME NEW t, NEW e, NEW b, NEW W, NEW s, Queue(W, 1), Coming(t, e, b, 1, W, s),
           NEW U, Shifted(W, U), W[1].type = "restart"
    PROVE  t <= b /\ Cut(b) /\ Coming(b, s, s + 1, Len(W), U, s)
<1>1. /\ Len(W) = Len(U) + 1 /\ Len(U) \in Nat
      /\ \A i \in 1..Len(U) : i + 1 \in 1..Len(W) /\ U[i] = W[i + 1]
      /\ \A i \in 1..Len(W) : i # 1 => i - 1 \in 1..Len(U) /\ U[i - 1] = W[i]
      /\ 1 <= Len(W)
  BY DEF Queue, Shifted
<1>2. /\ t \in Nat /\ e \in Nat /\ b \in Nat /\ s \in Nat
      /\ t >= 1 /\ t <= e + 1 /\ e < b /\ b <= s + 1 /\ Cut(b)
      /\ InRange(t, e, b, 1, W, s) /\ InOrder(W) /\ AllPosted(t, e, b, 1, W, s)
  BY <1>1 DEF Coming
<1>3. InRange(b, s, s + 1, Len(W), U, s)
  <2> SUFFICES ASSUME NEW i \in 1..Len(U), U[i].type = "message" PROVE i < Len(W) /\ U[i].id \in b..s
    BY DEF InRange
  <2>1. \A j \in 1..Len(W) : W[j].type = "message" /\ j # 1 => W[j].id \in b..s
    BY <1>2 DEF InRange
  <2>2. i + 1 \in 1..Len(W) /\ W[i + 1].type = "message" /\ i + 1 # 1 /\ i < Len(W)
    BY <1>1
  <2> QED
    BY <1>1, <2>1, <2>2
<1>4. InOrder(U)
  <2> SUFFICES ASSUME NEW i \in 1..Len(U), NEW j \in 1..Len(U), i < j, U[i].type = "message",
                      U[j].type = "message"
               PROVE  U[i].id < U[j].id
    BY DEF InOrder
  <2>1. i + 1 < j + 1
    OBVIOUS
  <2>2. W[i + 1].id < W[j + 1].id
    BY <1>1, <1>2, <2>1 DEF InOrder
  <2> QED
    BY <1>1, <2>2
<1>5. AllPosted(b, s, s + 1, Len(W), U, s)
  <2>1. ASSUME NEW m \in b..s PROVE \E i \in 1..Len(U) : i < Len(W) /\ IsPosted(U, i, m)
    <3>1. PICK i \in 1..Len(W) : i > 1 /\ IsPosted(W, i, m)
      BY <1>2 DEF AllPosted
    <3> QED
      BY <1>1, <3>1 DEF IsPosted
  <2> QED
    BY <1>2, <2>1 DEF AllPosted
<1> QED
  BY <1>1, <1>2, <1>3, <1>4, <1>5 DEF Coming

-----------------------------------------------------------------------------
(* How far the messages have come in the extension *)

\* The socket has handed the messages 1..passed to the kernel connection, posted 1..sent to the
\* webview, and the connection has handled 1..handled.
passed == emitted - Len(msgChain)
sent == IF awaits = "nothing" THEN passed ELSE passed + 1
handled == passed - Len(kernelChain)

DispatcherFields(d) ==
    d = [using |-> d.using, outputs |-> d.outputs, full |-> d.full, hooks |-> d.hooks,
         removals |-> d.removals]

Chains ==
    /\ emitted \in Nat /\ emitted <= Len(Script)
    /\ msgChain \in Seq(Nat) /\ \A i \in 1..Len(msgChain) : msgChain[i] = passed + i
    /\ kernelChain \in Seq(Nat) /\ \A i \in 1..Len(kernelChain) : kernelChain[i] = handled + i
    /\ handled \in Nat

Waits ==
    /\ awaits \in {"nothing", "received", "handled"}
    /\ awaits # "nothing" => /\ msgChain # <<>> /\ dispatcher.full = passed + 1
                             /\ Kind(passed + 1) \in {"capture", "release"}
    /\ hooking # None => kernelChain # <<>> /\ hooking = handled + 1

Sending ==
    /\ requested \in Nat /\ posted \in Nat /\ posted <= requested
    /\ mirroring \in BOOLEAN /\ (mirroring => posted < requested)
    /\ 1..requested \subseteq Requests
    /\ \A m \in 1..emitted : Parent(m) <= posted

LEMMA ChainNumbers ==
    ASSUME Chains
    PROVE  /\ Len(msgChain) \in Nat /\ Len(kernelChain) \in Nat
           /\ passed \in Nat /\ handled \in Nat /\ handled <= passed /\ passed <= emitted
           /\ sent \in Nat /\ passed <= sent
           /\ msgChain # <<>> => /\ Head(msgChain) = passed + 1 /\ passed + 1 <= emitted
                                 /\ Tail(msgChain) \in Seq(Nat)
                                 /\ Shifted(msgChain, Tail(msgChain))
           /\ kernelChain # <<>> => /\ Head(kernelChain) = handled + 1 /\ handled + 1 <= passed
                                    /\ Tail(kernelChain) \in Seq(Nat)
                                    /\ Shifted(kernelChain, Tail(kernelChain))
<1>1. Len(msgChain) \in Nat /\ Len(kernelChain) \in Nat
  BY LenProperties DEF Chains
<1>2. passed \in Nat /\ handled \in Nat /\ handled <= passed /\ passed <= emitted
  BY <1>1 DEF Chains, passed, handled
<1>3. sent \in Nat /\ passed <= sent
  BY <1>2 DEF sent
<1>4. msgChain # <<>> => /\ Head(msgChain) = passed + 1 /\ passed + 1 <= emitted
                         /\ Tail(msgChain) \in Seq(Nat) /\ Shifted(msgChain, Tail(msgChain))
  <2> SUFFICES ASSUME msgChain # <<>>
               PROVE  /\ Head(msgChain) = passed + 1 /\ passed + 1 <= emitted
                      /\ Tail(msgChain) \in Seq(Nat) /\ Shifted(msgChain, Tail(msgChain))
    OBVIOUS
  <2>1. IsSequence(msgChain) /\ Tail(msgChain) \in Seq(Nat)
    BY NatSequence DEF Chains
  <2>2. Shifted(msgChain, Tail(msgChain)) /\ msgChain[1] = Head(msgChain)
    BY <2>1, TailShifts
  <2>3. Len(msgChain) >= 1
    BY <1>1, <2>2 DEF Shifted
  <2>4. passed + 1 <= emitted
    BY <1>1, <2>3 DEF Chains, passed
  <2>5. msgChain[1] = passed + 1
    BY <1>1, <2>3 DEF Chains
  <2> QED
    BY <2>1, <2>2, <2>4, <2>5
<1>5. kernelChain # <<>> => /\ Head(kernelChain) = handled + 1 /\ handled + 1 <= passed
                            /\ Tail(kernelChain) \in Seq(Nat)
                            /\ Shifted(kernelChain, Tail(kernelChain))
  <2> SUFFICES ASSUME kernelChain # <<>>
               PROVE  /\ Head(kernelChain) = handled + 1 /\ handled + 1 <= passed
                      /\ Tail(kernelChain) \in Seq(Nat) /\ Shifted(kernelChain, Tail(kernelChain))
    OBVIOUS
  <2>1. IsSequence(kernelChain) /\ Tail(kernelChain) \in Seq(Nat)
    BY NatSequence DEF Chains
  <2>2. Shifted(kernelChain, Tail(kernelChain)) /\ kernelChain[1] = Head(kernelChain)
    BY <2>1, TailShifts
  <2>3. Len(kernelChain) >= 1
    BY <1>1, <2>2 DEF Shifted
  <2>4. handled + 1 <= passed
    BY <1>1, <1>2, <2>3 DEF handled
  <2>5. kernelChain[1] = handled + 1
    BY <1>1, <2>3 DEF Chains
  <2> QED
    BY <2>1, <2>2, <2>4, <2>5
<1> QED
  BY <1>1, <1>2, <1>3, <1>4, <1>5

\* The message handed to the connection is the next.
LEMMA HandedOver ==
    ASSUME Chains, msgChain # <<>>, msgChain' = Tail(msgChain),
           kernelChain' = Append(kernelChain, Head(msgChain)), emitted' = emitted
    PROVE  Chains' /\ passed' = passed + 1 /\ handled' = handled /\ kernelChain' # <<>>
<1>1. /\ Len(msgChain) \in Nat /\ Len(kernelChain) \in Nat /\ passed \in Nat /\ handled \in Nat
      /\ Head(msgChain) = passed + 1 /\ msgChain' \in Seq(Nat) /\ Shifted(msgChain, msgChain')
  BY ChainNumbers
<1>2. IsSequence(kernelChain) /\ kernelChain' \in Seq(Nat)
  BY <1>1, NatSequence DEF Chains
<1>3. Followed(kernelChain, kernelChain', passed + 1)
  BY <1>1, <1>2, AppendFollows
<1>4. Len(msgChain') = Len(msgChain) - 1 /\ Len(kernelChain') = Len(kernelChain) + 1
  BY <1>1, <1>3 DEF Shifted, Followed
<1>5. passed' = passed + 1
  BY <1>1, <1>4 DEF passed, Chains
<1>6. handled' = handled
  BY <1>1, <1>4, <1>5 DEF handled
<1>7. \A i \in 1..Len(msgChain') : msgChain'[i] = passed' + i
  BY <1>1, <1>5 DEF Shifted, Chains
<1>8. \A i \in 1..Len(kernelChain') : kernelChain'[i] = handled' + i
  <2>1. passed = handled + Len(kernelChain)
    BY <1>1 DEF handled
  <2> QED
    BY <1>1, <1>3, <1>6, <2>1 DEF Followed, Chains
<1>9. kernelChain' # <<>>
  <2>1. Len(kernelChain') # 0
    BY <1>1, <1>4
  <2> QED
    BY <1>2, <2>1, EmptySeq
<1> QED
  BY <1>1, <1>2, <1>5, <1>6, <1>7, <1>8, <1>9 DEF Chains

LEMMA ChainHandled ==
    ASSUME Chains, kernelChain # <<>>, kernelChain' = Tail(kernelChain),
           UNCHANGED <<emitted, msgChain>>
    PROVE  Chains' /\ passed' = passed /\ handled' = handled + 1
<1>1. /\ Len(kernelChain) \in Nat /\ passed \in Nat /\ handled \in Nat
      /\ kernelChain' \in Seq(Nat) /\ Shifted(kernelChain, kernelChain')
  BY ChainNumbers
<1>2. passed' = passed
  BY DEF passed
<1>3. handled' = handled + 1
  BY <1>1, <1>2 DEF handled, Shifted
<1>4. \A i \in 1..Len(kernelChain') : kernelChain'[i] = handled' + i
  BY <1>1, <1>3 DEF Shifted, Chains
<1> QED
  BY <1>1, <1>2, <1>3, <1>4 DEF Chains

LEMMA ChainsStay ==
    ASSUME Chains, UNCHANGED <<emitted, msgChain, kernelChain>>
    PROVE  Chains' /\ passed' = passed /\ handled' = handled
BY DEF Chains, passed, handled

LEMMA ChainsEmit ==
    ASSUME Assumptions, Chains, Emit
    PROVE  /\ Chains' /\ passed' = passed /\ handled' = handled /\ sent' = sent
           /\ emitted' = emitted + 1 /\ emitted' \in Messages /\ Parent(emitted') <= posted
           /\ msgChain' # <<>>
<1>1. /\ emitted + 1 \in Messages /\ Parent(emitted + 1) <= posted
      /\ emitted' = emitted + 1 /\ msgChain' = Append(msgChain, emitted + 1)
      /\ UNCHANGED <<kernelChain, awaits>>
  BY DEF Emit, handling
<1>2. Messages = 1..Len(Script) /\ Len(Script) \in Nat
  BY ScriptFacts
<1>3. Len(msgChain) \in Nat /\ passed \in Nat /\ emitted \in Nat
  BY ChainNumbers DEF Chains
<1>4. IsSequence(msgChain) /\ msgChain' \in Seq(Nat)
  BY <1>1, <1>3, NatSequence DEF Chains
<1>5. Followed(msgChain, msgChain', emitted + 1)
  BY <1>1, <1>4, AppendFollows
<1>6. passed' = passed
  BY <1>1, <1>3, <1>5 DEF passed, Followed
<1>7. handled' = handled
  BY <1>1, <1>6 DEF handled
<1>8. sent' = sent
  BY <1>1, <1>6 DEF sent
<1>9. \A i \in 1..Len(msgChain') : msgChain'[i] = passed' + i
  <2>1. emitted = passed + Len(msgChain)
    BY <1>3 DEF passed
  <2>2. \A i \in 1..Len(msgChain) : msgChain'[i] = passed' + i
    BY <1>5, <1>6 DEF Followed, Chains
  <2>3. msgChain'[Len(msgChain) + 1] = passed' + (Len(msgChain) + 1)
    BY <1>3, <1>5, <1>6, <2>1 DEF Followed
  <2>4. Len(msgChain') = Len(msgChain) + 1
    BY <1>5 DEF Followed
  <2> QED
    BY <1>3, <2>2, <2>3, <2>4
<1>10. msgChain' # <<>>
  <2>1. Len(msgChain') # 0
    BY <1>3, <1>5 DEF Followed
  <2> QED
    BY <1>4, <2>1, EmptySeq
<1>11. Chains'
  BY <1>1, <1>2, <1>3, <1>4, <1>7, <1>9 DEF Chains
<1> QED
  BY <1>1, <1>6, <1>7, <1>8, <1>10, <1>11

\* A restart: the new socket comes after all that the requests so far emit.
LEMMA FirstOnes ==
    ASSUME Assumptions, NEW r \in Nat
    PROVE  \E p \in Nat : /\ p <= Len(Script)
                          /\ {m \in Messages : Parent(m) <= r} = 1..p
                          /\ Cardinality({m \in Messages : Parent(m) <= r}) = p
<1> DEFINE S == {m \in Messages : Parent(m) <= r}
<1>1. /\ Messages = 1..Len(Script) /\ Len(Script) \in Nat
      /\ \A m \in Messages : Parent(m) \in Nat
      /\ \A i, j \in Messages : i <= j => Parent(i) <= Parent(j)
  BY ScriptFacts
<1>2. \E p \in Nat : p <= Len(Script) /\ S = 1..p
  <2>1. CASE S = Messages
    BY <1>1, <2>1
  <2>2. CASE S # Messages
    <3> DEFINE T == Messages \ S
    <3>1. T # {} /\ T \subseteq Nat
      BY <1>1, <2>2
    <3> HIDE DEF T
    <3>2. PICK q \in T : \A n \in T : q <= n
      BY <3>1, LeastNatural
    <3>3. q \in Messages /\ q \notin S
      BY DEF T
    <3>4. \A m \in Messages : m \in S => m < q
      BY <1>1, <3>3
    <3>5. \A m \in Messages : m < q => m \in S
      BY <1>1, <3>1, <3>2 DEF T
    <3>6. S = 1..(q - 1)
      BY <1>1, <3>3, <3>4, <3>5
    <3> QED
      BY <1>1, <3>3, <3>6
  <2> QED
    BY <2>1, <2>2
<1>3. PICK p \in Nat : p <= Len(Script) /\ S = 1..p
  BY <1>2
<1>4. Cardinality(1..p) = p
  BY <1>3, FS_Interval
<1> QED
  BY <1>3, <1>4

LEMMA ChainsRestart ==
    ASSUME Assumptions, Chains, Sending, Restart
    PROVE  /\ Chains' /\ emitted <= emitted'
           /\ passed' = emitted' /\ handled' = emitted' /\ sent' = emitted'
           /\ \A m \in Messages : m <= emitted' <=> Parent(m) <= requested
           /\ Cut(emitted' + 1)
<1>1. /\ emitted' = Cardinality({m \in Messages : Parent(m) <= requested})
      /\ msgChain' = <<>> /\ awaits' = "nothing" /\ kernelChain' = <<>>
  BY DEF Restart
<1>2. /\ Messages = 1..Len(Script) /\ Len(Script) \in Nat
      /\ \A m \in Messages : Parent(m) \in Nat
      /\ \A i, j \in Messages : i <= j => Parent(i) <= Parent(j)
  BY ScriptFacts
<1>3. requested \in Nat /\ posted \in Nat /\ emitted \in Nat /\ emitted <= Len(Script)
  BY DEF Sending, Chains
<1>4. PICK p \in Nat : /\ p <= Len(Script)
                       /\ {m \in Messages : Parent(m) <= requested} = 1..p
                       /\ Cardinality({m \in Messages : Parent(m) <= requested}) = p
  BY <1>3, FirstOnes
<1>5. emitted' = p
  BY <1>1, <1>4
<1>6. \A m \in Messages : m <= p <=> Parent(m) <= requested
  BY <1>2, <1>4
<1>7. emitted <= p
  <2>1. CASE emitted = 0
    BY <2>1
  <2>2. CASE emitted # 0
    <3>1. emitted \in Messages /\ emitted \in 1..emitted
      BY <1>2, <1>3, <2>2
    <3>2. Parent(emitted) <= requested
      BY <1>2, <1>3, <3>1 DEF Sending
    <3> QED
      BY <1>6, <3>1, <3>2
  <2> QED
    BY <2>1, <2>2
<1>8. Cut(p + 1)
  <2> SUFFICES ASSUME NEW i \in Messages, NEW j \in Messages, i < p + 1, p + 1 <= j
               PROVE  Parent(i) < Parent(j)
    BY DEF Cut
  <2>1. i <= p /\ ~(j <= p)
    BY <1>2
  <2> QED
    BY <1>2, <1>3, <1>6, <2>1
<1>9. Len(msgChain') = 0 /\ Len(kernelChain') = 0 /\ msgChain' \in Seq(Nat) /\ kernelChain' \in Seq(Nat)
  BY <1>1
<1>10. passed' = p /\ handled' = p /\ sent' = p
  BY <1>1, <1>5, <1>9 DEF passed, handled, sent
<1>11. Chains'
  BY <1>4, <1>5, <1>9, <1>10 DEF Chains
<1> QED
  BY <1>5, <1>6, <1>7, <1>8, <1>10, <1>11

-----------------------------------------------------------------------------
(* Why the two sides agree on the hooks *)

\* An output that its widget captures.
Captures(m) == Kind(m) = "print" /\ Capturing(m)

\* A request the kernel has.
Issued(r) == r \in Requests /\ r <= posted

\* The hook of r is registered: it is there, or has asked about the message that releases it,
\* or about nothing any more.
Over(r) == \A m \in Messages : Parent(m) = r => m <= handled
Released(r) ==
    \E m \in Messages : Kind(m) = "release" /\ Parent(m) = r /\ (m <= handled \/ m = hooking)
Registered(r) == r \in dispatcher.hooks \/ Released(r) \/ Over(r)

\* A hook is removed after the message that releases it.
IsRemoval(a) == a.last \in Messages /\ Kind(a.last) = "release" /\ Parent(a.last) = a.hook

Dispatch ==
    /\ DispatcherFields(dispatcher) /\ dispatcher.using \in BOOLEAN
    /\ dispatcher.full \in Messages \cup {None}
    /\ dispatcher.outputs \subseteq Requests /\ dispatcher.hooks \subseteq Requests
    /\ \A a \in dispatcher.removals : IsRemoval(a)

\* A message that captures is passed on when its hook is registered ...
RegisteredInv == \A m \in 1..passed : Kind(m) = "capture" => Registered(Parent(m))

\* ... because such messages are always awaited: their widget is open.
OutputsInv ==
    \A m \in Messages : m > sent /\ Kind(m) \in {"capture", "release"} =>
        \/ Parent(m) \in dispatcher.outputs
        \/ \E o \in Messages : sent < o /\ o < m /\ Kind(o) = "open" /\ Parent(o) = Parent(m)

\* What the webview says of the messages before n, which it has handled.
Reply(x, n) ==
    /\ x.type = "handled" => /\ x.id \in 1..(n - 1)
                             /\ Kind(x.id) = "capture" => Registered(Parent(x.id))
    /\ x.type = "register" => Issued(x.id)
    /\ x.type = "remove" => IsRemoval(x.id)
    /\ x.type = "hookResult" =>
          /\ x.id.of \in 1..passed
          /\ handled < x.id.of /\ Captures(x.id.of) /\ x.id.result => x.id.of \in late
Replies(n) == IsSequence(toExtension) /\ \A x \in ToSet(toExtension) : Reply(x, n)

Post(x) ==
    /\ x.type = "mirror" => x.id \in Requests
    /\ \A r : x.type = "finished" /\ x.id = <<r, "register">> => Issued(r) /\ Registered(r)
Posts == IsSequence(toWebview) /\ \A x \in ToSet(toWebview) : Post(x)

Holds(h, n) ==
    /\ h = [of |-> h.of, keys |-> h.keys] /\ h.of \in 1..(n - 1)
    /\ Kind(h.of) = "capture" =>
          <<Parent(h.of), "register">> \in h.keys \/ Registered(Parent(h.of))

\* The hooks of the webview when it has handled the messages before n.
HooksAt(n, hooks) ==
    \A m \in Messages : n <= m => (Parent(m) \in hooks <=> CapturingAt(Parent(m), n))

\* The messages n..t-1 are those its connection has to handle.
View(w, n, t) ==
    /\ WebviewFields(w) /\ IsSequence(w.held) /\ IsSequence(w.lastHooked)
    /\ n \in Nat /\ t \in Nat /\ 1 <= n
    /\ w.chain \in Seq(Nat) /\ t = n + Len(w.chain)
    /\ \A i \in 1..Len(w.chain) : w.chain[i] = n + i - 1
    /\ w.creating => w.chain # <<>> /\ Kind(n) \in {"open", "create"}
    /\ HooksAt(n, w.hooks)
    /\ w.known \subseteq Requests /\ w.hooks \subseteq Requests
HeldInv(w, n) == \A h \in ToSet(w.held) : Holds(h, n)

\* It knows a request before it has to handle its messages: those of D have messages that
\* are still to be posted.
Due == {Parent(m) : m \in {m \in Messages : sent < m /\
                             (Parent(m) <= posted \/ (mirroring /\ Parent(m) = posted + 1))}}
Knows(known, n, t, k, W, D) ==
    /\ \A m \in n..(t - 1) : Parent(m) \in known
    /\ \A i \in 1..Len(W) : W[i].type = "message" => Before("mirror", Parent(W[i].id), i, known, W, k)
    /\ \A r \in D : Before("mirror", r, Len(W) + 1, known, W, k)

\* It is asked about a message that it gets before, and once about the one, g, that is handled
\* after the messages 1..h; 1..p have been passed on.
Asks(W, i, m) == W[i].type = "hookCall" /\ W[i].id = m
Asked(there, k, W, p, h, g) ==
    /\ \A i \in 1..Len(W) : W[i].type = "hookCall" =>
          W[i].id \in 1..p /\ (h < W[i].id => W[i].id = g)
    /\ \A i, j \in 1..Len(W) : h < W[i].id /\ Asks(W, i, W[i].id) /\ Asks(W, j, W[i].id) => j = i
    /\ \A i \in 1..Len(W) : W[i].type = "hookCall" /\ h < W[i].id /\ Captures(W[i].id) =>
          Before("message", W[i].id, i, there, W, k)
    /\ \A m \in (h + 1)..p : m # g /\ Captures(m) => Before("message", m, Len(W) + 1, there, W, k)

Histories ==
    /\ captured \subseteq 1..emitted /\ shown \subseteq 1..emitted /\ late \subseteq 1..emitted
    /\ \A m \in captured : Captures(m)
    /\ \A m \in shown : Captures(m) => m \in late \/ ReleasedBefore(m)

\* The webview says that it received a message before it has handled it.
ReceivedAt(X, i, m) ==
    /\ X[i].type = "received" /\ X[i].id = Message("message", m)
    /\ \A j \in 1..(i - 1) : ~(X[j].type = "handled" /\ X[j].id = m)
ReceivedInv ==
    awaits = "received" =>
        \/ \E i \in 1..Len(toWebview) : IsPosted(toWebview, i, passed + 1)
        \/ \E i \in 1..Len(toExtension) : ReceivedAt(toExtension, i, passed + 1)

AgreedAt(n, t, e, b, k) ==
    /\ Chains /\ Waits /\ Sending
    /\ Dispatch /\ RegisteredInv /\ OutputsInv
    /\ Replies(n) /\ Posts
    /\ Queue(toWebview, k) /\ (~restarted => k = Len(toWebview) + 1)
    /\ Coming(t, e, b, k, toWebview, sent)
    /\ View(webview, n, t) /\ HeldInv(webview, n)
    /\ Knows(webview.known, n, t, k, toWebview, Due)
    /\ Asked(webview.results \cup n..(t - 1), k, toWebview, passed, handled, hooking)
    /\ Histories /\ ReceivedInv

Agreed == \E n, t, e, b, k \in Nat : AgreedAt(n, t, e, b, k)

-----------------------------------------------------------------------------

LEMMA AgreedInit == Assumptions /\ Init => Agreed
<1> SUFFICES ASSUME Assumptions, Init PROVE AgreedAt(1, 1, 0, 1, 1)
  BY DEF Agreed
<1>a. /\ requested = 0 /\ posted = 0 /\ emitted = 0
      /\ msgChain = <<>> /\ awaits = "nothing" /\ kernelChain = <<>> /\ hooking = None
      /\ toWebview = <<>> /\ toExtension = <<>> /\ webview = NewWebview
      /\ captured = {} /\ shown = {} /\ late = {}
  BY DEF Init
<1>b. ~mirroring /\ mirroring \in BOOLEAN
  BY DEF Init
<1>c. /\ dispatcher = [using |-> FALSE, outputs |-> {}, full |-> None, hooks |-> {}, removals |-> {}]
  BY DEF Init
<1>0. /\ Messages = 1..Len(Script) /\ Len(Script) \in Nat
      /\ \A m \in Messages : Parent(m) \in Nat /\ Parent(m) # 0
      /\ \A m \in Messages : Kind(m) \in {"capture", "release"} => Opened(m)
  BY ScriptFacts
<1>1. passed = 0 /\ handled = 0 /\ sent = 0 /\ Len(toWebview) = 0 /\ Len(toExtension) = 0
  <2>1. Len(msgChain) = 0 /\ Len(kernelChain) = 0 /\ Len(toWebview) = 0 /\ Len(toExtension) = 0
    BY <1>a
  <2>2. emitted = 0 /\ awaits = "nothing"
    BY <1>a
  <2>3. passed = 0
    BY <2>1, <2>2 DEF passed
  <2> QED
    BY <2>1, <2>2, <2>3 DEF handled, sent
<1>2. Chains
  <2>1. <<>> \in Seq(Nat) /\ 0 <= Len(Script)
    BY <1>0
  <2> QED
    BY <1>a, <1>0, <1>1, <2>1 DEF Chains
<1>3. Waits
  BY <1>a DEF Waits
<1>4. Sending
  <2>1. 1..0 = {}
    OBVIOUS
  <2>2. mirroring \in BOOLEAN /\ (mirroring => posted < requested)
    BY <1>b
  <2> QED
    BY <1>a, <2>1, <2>2 DEF Sending
<1>5. Dispatch /\ RegisteredInv
  BY <1>1, <1>c DEF Dispatch, DispatcherFields, RegisteredInv
<1>6. OutputsInv
  <2> SUFFICES ASSUME NEW m \in Messages, Kind(m) \in {"capture", "release"}
               PROVE  \E o \in Messages : 0 < o /\ o < m /\ Kind(o) = "open" /\ Parent(o) = Parent(m)
    BY <1>1 DEF OutputsInv
  <2>1. Opened(m)
    BY <1>0
  <2> QED
    BY <1>0, <2>1 DEF Opened
<1>7. Replies(1) /\ Posts
  BY <1>a DEF Replies, Posts, IsSequence, ToSet
<1>8. Queue(toWebview, 1)
  BY <1>1, <1>a DEF Queue, IsSequence, ToSet
<1>9. Coming(1, 0, 1, 1, toWebview, 0)
  BY <1>1 DEF Coming, InRange, InOrder, AllPosted
<1>10. View(webview, 1, 1) /\ HeldInv(webview, 1)
  <2>1. ASSUME NEW m \in Messages, 1 <= m PROVE ~CapturingAt(Parent(m), 1)
    BY <1>0 DEF CapturingAt
  <2>2. HooksAt(1, {})
    BY <2>1 DEF HooksAt
  <2> QED
    BY <1>a, <2>2 DEF View, HeldInv, WebviewFields, IsSequence, ToSet, NewWebview
<1>11. Knows(webview.known, 1, 1, 1, toWebview, Due)
  <2>1. ASSUME NEW m \in Messages
        PROVE  ~(Parent(m) <= posted \/ (mirroring /\ Parent(m) = posted + 1))
    <3>1. ~mirroring /\ posted = 0
      BY <1>a, <1>b
    <3>2. ~(Parent(m) <= 0)
      BY <1>0
    <3> QED
      BY <3>1, <3>2
  <2>2. Due = {}
    BY <2>1 DEF Due
  <2> QED
    BY <1>1, <2>2 DEF Knows
<1>12. Asked(webview.results \cup 1..0, 1, toWebview, passed, handled, hooking)
  BY <1>1 DEF Asked
<1>13. Histories /\ ReceivedInv
  BY <1>a DEF Histories, ReceivedInv
<1> QED
  BY <1>1, <1>2, <1>3, <1>4, <1>5, <1>6, <1>7, <1>8, <1>9, <1>10, <1>11, <1>12, <1>13
     DEF AgreedAt

-----------------------------------------------------------------------------
(* What the webview knows, and what it is asked *)

LEMMA QueueBounds ==
    ASSUME NEW W, NEW k, Queue(W, k)
    PROVE  k \in 1..(Len(W) + 1) /\ Len(W) \in Nat
BY DEF Queue

LEMMA KnowsFollowed ==
    ASSUME NEW known, NEW n, NEW t, NEW k, NEW W, NEW D, Queue(W, k), Knows(known, n, t, k, W, D),
           NEW U, NEW x, Followed(W, U, x), x.type # "restart",
           x.type = "message" => Parent(x.id) \in D,
           NEW E, \A r \in E : r \in D \/ (x.type = "mirror" /\ r = x.id)
    PROVE  Knows(known, n, t, Later(W, k), U, E)
<1> DEFINE l == Later(W, k)
<1>1. /\ Len(U) = Len(W) + 1 /\ Len(W) \in Nat /\ k \in 1..(Len(W) + 1) /\ U[Len(W) + 1] = x
      /\ \A i \in 1..Len(W) : U[i] = W[i]
      /\ \A i \in 1..Len(U) : i \in 1..Len(W) \/ i = Len(W) + 1
      /\ Len(W) + 1 + 1 = Len(U) + 1 /\ Len(W) + 2 = Len(U) + 1
  BY DEF Queue, Followed
<1>2. \A r, i : i \in 1..(Len(W) + 1) /\ Before("mirror", r, i, known, W, k) =>
          /\ Before("mirror", r, i, known, U, l)
          /\ i = Len(W) + 1 => Before("mirror", r, Len(U) + 1, known, U, l)
  BY <1>1, BeforeFollowed
<1>3. Before(x.type, x.id, Len(U) + 1, known, U, l)
  BY <1>1, BeforeLast
<1> HIDE DEF l
<1>4. ASSUME NEW i \in 1..Len(U), U[i].type = "message"
      PROVE  Before("mirror", Parent(U[i].id), i, known, U, l)
  <2>1. CASE i \in 1..Len(W)
    BY <1>1, <1>2, <1>4, <2>1 DEF Knows
  <2>2. CASE i = Len(W) + 1
    BY <1>1, <1>2, <1>4, <2>2 DEF Knows
  <2> QED
    BY <1>1, <2>1, <2>2
<1>5. ASSUME NEW r \in E PROVE Before("mirror", r, Len(U) + 1, known, U, l)
  <2>1. CASE r \in D
    BY <1>1, <1>2, <2>1 DEF Knows
  <2>2. CASE x.type = "mirror" /\ r = x.id
    BY <1>3, <2>2
  <2> QED
    BY <2>1, <2>2
<1> QED
  BY <1>4, <1>5 DEF Knows, l

LEMMA KnowsCut ==
    ASSUME NEW known, NEW n, NEW t, NEW W, NEW D, Queue(W, Len(W) + 1),
           Knows(known, n, t, Len(W) + 1, W, D),
           NEW U, NEW x, Followed(W, U, x), x.type = "restart"
    PROVE  Knows(known, n, t, Len(W) + 1, U, {})
<1>1. /\ Len(U) = Len(W) + 1 /\ Len(W) \in Nat /\ U[Len(W) + 1] = x
      /\ \A i \in 1..Len(W) : U[i] = W[i] /\ i \in 1..(Len(W) + 1)
      /\ \A i \in 1..Len(U) : i \in 1..Len(W) \/ i = Len(W) + 1
      /\ Len(W) + 1 \in 1..(Len(W) + 1)
  BY DEF Queue, Followed
<1>2. \A r : \A i \in 1..(Len(W) + 1) :
          Before("mirror", r, i, known, W, Len(W) + 1) => Before("mirror", r, i, known, U, Len(W) + 1)
  BY <1>1, BeforeFollowed
<1>3. ASSUME NEW i \in 1..Len(U), U[i].type = "message"
      PROVE  Before("mirror", Parent(U[i].id), i, known, U, Len(W) + 1)
  <2>1. i \in 1..Len(W) /\ U[i] = W[i]
    BY <1>1, <1>3
  <2>2. Before("mirror", Parent(W[i].id), i, known, W, Len(W) + 1)
    BY <1>3, <2>1 DEF Knows
  <2> QED
    BY <1>1, <1>2, <2>1, <2>2
<1> QED
  BY <1>3 DEF Knows

\* It takes a post: a mirrored request, a message, whose request it knows, or another.
LEMMA KnowsShifted ==
    ASSUME NEW known, NEW n \in Nat, NEW t \in Nat, NEW k, NEW W, NEW D, Queue(W, k),
           Knows(known, n, t, k, W, D), NEW U, Shifted(W, U), W[1].type # "restart",
           NEW others, known \subseteq others, W[1].type = "mirror" => W[1].id \in others,
           NEW v \in Nat, v = IF W[1].type = "message" THEN t + 1 ELSE t,
           W[1].type = "message" => W[1].id = t
    PROVE  Knows(others, n, v, k - 1, U, D)
<1>1. /\ Len(W) = Len(U) + 1 /\ Len(U) \in Nat
      /\ \A i \in 1..Len(U) : i + 1 \in 2..(Len(W) + 1) /\ i + 1 \in 1..Len(W) /\ U[i] = W[i + 1]
                              /\ (i + 1) - 1 = i
      /\ k \in 2..(Len(W) + 1) /\ 1 \in 1..Len(W)
      /\ Len(W) + 1 \in 2..(Len(W) + 1) /\ (Len(W) + 1) - 1 = Len(U) + 1
  BY DEF Queue, Shifted
<1>2. ASSUME NEW r, NEW i \in 2..(Len(W) + 1), Before("mirror", r, i, known, W, k)
      PROVE  Before("mirror", r, i - 1, others, U, k - 1)
  BY <1>1, <1>2, BeforeShifted
<1>3. ASSUME NEW i \in 1..Len(U), U[i].type = "message"
      PROVE  Before("mirror", Parent(U[i].id), i, others, U, k - 1)
  <2>1. Before("mirror", Parent(W[i + 1].id), i + 1, known, W, k)
    BY <1>1, <1>3 DEF Knows
  <2>2. Before("mirror", Parent(W[i + 1].id), (i + 1) - 1, others, U, k - 1)
    BY <1>1, <1>2, <2>1
  <2> QED
    BY <1>1, <2>2
<1>4. ASSUME NEW r \in D PROVE Before("mirror", r, Len(U) + 1, others, U, k - 1)
  <2>1. Before("mirror", r, Len(W) + 1, known, W, k)
    BY DEF Knows
  <2>2. Before("mirror", r, (Len(W) + 1) - 1, others, U, k - 1)
    BY <1>1, <1>2, <2>1
  <2> QED
    BY <1>1, <2>2
<1>5. ASSUME NEW m \in n..(v - 1) PROVE Parent(m) \in others
  <2>1. CASE m \in n..(t - 1)
    BY <2>1 DEF Knows
  <2>2. CASE m \notin n..(t - 1)
    <3>1. W[1].type = "message" /\ m = t
      BY <1>5, <2>2
    <3>2. Before("mirror", Parent(t), 1, known, W, k)
      BY <1>1, <3>1 DEF Knows
    <3>3. Parent(t) \in known
      BY <1>1, <3>2 DEF Before
    <3> QED
      BY <3>1, <3>3
  <2> QED
    BY <2>1, <2>2
<1> QED
  BY <1>3, <1>4, <1>5 DEF Knows

LEMMA KnowsRestarted ==
    ASSUME NEW known, NEW n, NEW t, NEW W, NEW D, Queue(W, 1), Knows(known, n, t, 1, W, D),
           NEW U, Shifted(W, U), W[1].type = "restart", NEW b \in Nat
    PROVE  Knows({}, b, b, Len(W), U, D)
<1>1. /\ Len(W) = Len(U) + 1 /\ Len(U) \in Nat
      /\ \A i \in 1..Len(U) : i + 1 \in 2..(Len(W) + 1) /\ i + 1 \in 1..Len(W) /\ U[i] = W[i + 1]
                              /\ (i + 1) - 1 = i
      /\ Len(W) + 1 \in 2..(Len(W) + 1) /\ (Len(W) + 1) - 1 = Len(U) + 1
  BY DEF Queue, Shifted
<1>2. ASSUME NEW r, NEW i \in 2..(Len(W) + 1), Before("mirror", r, i, known, W, 1)
      PROVE  Before("mirror", r, i - 1, {}, U, Len(W))
  BY <1>2, BeforeRestarted
<1>3. ASSUME NEW i \in 1..Len(U), U[i].type = "message"
      PROVE  Before("mirror", Parent(U[i].id), i, {}, U, Len(W))
  <2>1. Before("mirror", Parent(W[i + 1].id), i + 1, known, W, 1)
    BY <1>1, <1>3 DEF Knows
  <2>2. Before("mirror", Parent(W[i + 1].id), (i + 1) - 1, {}, U, Len(W))
    BY <1>1, <1>2, <2>1
  <2> QED
    BY <1>1, <2>2
<1>4. ASSUME NEW r \in D PROVE Before("mirror", r, Len(U) + 1, {}, U, Len(W))
  <2>1. Before("mirror", r, Len(W) + 1, known, W, 1)
    BY DEF Knows
  <2>2. Before("mirror", r, (Len(W) + 1) - 1, {}, U, Len(W))
    BY <1>1, <1>2, <2>1
  <2> QED
    BY <1>1, <2>2
<1>5. b..(b - 1) = {}
  OBVIOUS
<1> QED
  BY <1>3, <1>4, <1>5 DEF Knows

LEMMA AskedFollowed ==
    ASSUME NEW there, NEW k, NEW W, NEW p \in Nat, NEW h \in Nat, NEW g, Queue(W, k),
           Asked(there, k, W, p, h, g),
           NEW U, NEW x, Followed(W, U, x), x.type \notin {"hookCall", "restart"},
           NEW q \in Nat, q = p \/ q = p + 1,
           q = p + 1 => ~Captures(p + 1) \/ (x.type = "message" /\ x.id = p + 1)
    PROVE  Asked(there, Later(W, k), U, q, h, g)
<1> DEFINE l == Later(W, k)
<1>1. /\ Len(U) = Len(W) + 1 /\ Len(W) \in Nat /\ k \in 1..(Len(W) + 1) /\ U[Len(W) + 1] = x
      /\ \A i \in 1..Len(W) : U[i] = W[i]
      /\ \A i \in 1..Len(U) : i \in 1..Len(W) \/ i = Len(W) + 1
      /\ Len(W) + 1 + 1 = Len(U) + 1 /\ Len(W) + 2 = Len(U) + 1
  BY DEF Queue, Followed
<1>2. \A m : \A i \in 1..(Len(W) + 1) : Before("message", m, i, there, W, k) =>
          /\ Before("message", m, i, there, U, l)
          /\ i = Len(W) + 1 => Before("message", m, Len(U) + 1, there, U, l)
  BY <1>1, BeforeFollowed
<1>3. Before(x.type, x.id, Len(U) + 1, there, U, l)
  BY <1>1, BeforeLast
<1> HIDE DEF l
<1>4. \A i \in 1..Len(U) : U[i].type = "hookCall" => i \in 1..Len(W) /\ U[i] = W[i]
  BY <1>1
<1>5. \A i \in 1..Len(U) : U[i].type = "hookCall" => U[i].id \in 1..q /\ (h < U[i].id => U[i].id = g)
  BY <1>4 DEF Asked
<1>6. \A i, j \in 1..Len(U) : h < U[i].id /\ Asks(U, i, U[i].id) /\ Asks(U, j, U[i].id) => j = i
  BY <1>4 DEF Asked, Asks
<1>7. ASSUME NEW i \in 1..Len(U), U[i].type = "hookCall", h < U[i].id, Captures(U[i].id)
      PROVE  Before("message", U[i].id, i, there, U, l)
  <2>1. i \in 1..(Len(W) + 1) /\ Before("message", W[i].id, i, there, W, k)
    BY <1>1, <1>4, <1>7 DEF Asked
  <2> QED
    BY <1>2, <1>4, <1>7, <2>1
<1>8. ASSUME NEW m \in (h + 1)..q, m # g, Captures(m)
      PROVE  Before("message", m, Len(U) + 1, there, U, l)
  <2>1. CASE m \in (h + 1)..p
    <3>1. Before("message", m, Len(W) + 1, there, W, k)
      BY <1>8, <2>1 DEF Asked
    <3> QED
      BY <1>1, <1>2, <3>1
  <2>2. CASE m \notin (h + 1)..p
    <3>1. q = p + 1 /\ m = p + 1
      BY <2>2
    <3> QED
      BY <1>3, <1>8, <3>1
  <2> QED
    BY <2>1, <2>2
<1> QED
  BY <1>5, <1>6, <1>7, <1>8 DEF Asked, l

\* A message is passed on that is no output, or one is handled.
LEMMA AskedMoves ==
    ASSUME NEW there, NEW k, NEW W, NEW p \in Nat, NEW h \in Nat, NEW g,
           Asked(there, k, W, p, h, g), None \notin Nat,
           NEW q \in Nat, q = p \/ (q = p + 1 /\ ~Captures(p + 1)),
           NEW i \in Nat, NEW f, (i = h /\ f = g) \/ (i = h + 1 /\ f = None /\ g \in {None, h + 1})
    PROVE  Asked(there, k, W, q, i, f)
<1>1. \A j \in 1..Len(W) : W[j].type = "hookCall" => W[j].id \in 1..q /\ (i < W[j].id => W[j].id = f)
  BY DEF Asked
<1>2. \A j, l \in 1..Len(W) : i < W[j].id /\ Asks(W, j, W[j].id) /\ Asks(W, l, W[j].id) => l = j
  <2> SUFFICES ASSUME NEW j \in 1..Len(W), NEW l \in 1..Len(W), i < W[j].id,
                      Asks(W, j, W[j].id), Asks(W, l, W[j].id)
               PROVE  l = j
    OBVIOUS
  <2>1. W[j].id \in 1..p
    BY DEF Asked, Asks
  <2>2. h < W[j].id
    BY <2>1
  <2> QED
    BY <2>2 DEF Asked
<1>3. ASSUME NEW j \in 1..Len(W), W[j].type = "hookCall", i < W[j].id, Captures(W[j].id)
      PROVE  Before("message", W[j].id, j, there, W, k)
  <2>1. W[j].id \in 1..p
    BY <1>3 DEF Asked
  <2>2. h < W[j].id
    BY <1>3, <2>1
  <2> QED
    BY <1>3, <2>2 DEF Asked
<1>4. ASSUME NEW m \in (i + 1)..q, m # f, Captures(m)
      PROVE  Before("message", m, Len(W) + 1, there, W, k)
  <2>1. m # p + 1 \/ q = p
    BY <1>4
  <2>2. m \in (h + 1)..p /\ m # g
    BY <1>4, <2>1
  <2> QED
    BY <1>4, <2>2 DEF Asked
<1> QED
  BY <1>1, <1>2, <1>3, <1>4 DEF Asked

\* The next message is asked about.
LEMMA AskedCalls ==
    ASSUME NEW there, NEW k, NEW W, NEW p \in Nat, NEW h \in Nat, Queue(W, k), None \notin Nat,
           Asked(there, k, W, p, h, None), h + 1 <= p,
           NEW U, NEW x, Followed(W, U, x), x.type = "hookCall", x.id = h + 1
    PROVE  Asked(there, Later(W, k), U, p, h, h + 1)
<1> DEFINE l == Later(W, k)
<1>1. /\ Len(U) = Len(W) + 1 /\ Len(W) \in Nat /\ k \in 1..(Len(W) + 1) /\ U[Len(W) + 1] = x
      /\ \A i \in 1..Len(W) : U[i] = W[i]
      /\ \A i \in 1..Len(U) : i \in 1..Len(W) \/ i = Len(W) + 1
      /\ Len(W) + 1 + 1 = Len(U) + 1 /\ Len(W) + 2 = Len(U) + 1 /\ Len(W) + 1 \in 1..(Len(W) + 1)
  BY DEF Queue, Followed
<1>2. \A m : \A i \in 1..(Len(W) + 1) : Before("message", m, i, there, W, k) =>
          /\ Before("message", m, i, there, U, l)
          /\ i = Len(W) + 1 => Before("message", m, Len(U) + 1, there, U, l)
  BY <1>1, BeforeFollowed
<1> HIDE DEF l
<1>3. \A i \in 1..Len(W) : W[i].type = "hookCall" => W[i].id \in 1..p /\ ~(h < W[i].id)
  BY DEF Asked
<1>4. \A i \in 1..Len(U) : U[i].type = "hookCall" =>
          \/ i \in 1..Len(W) /\ U[i] = W[i] /\ U[i].id \in 1..p /\ ~(h < U[i].id)
          \/ i = Len(W) + 1 /\ U[i].id = h + 1
  BY <1>1, <1>3
<1>5. \A i \in 1..Len(U) : U[i].type = "hookCall" => U[i].id \in 1..p
        /\ (h < U[i].id => U[i].id = h + 1)
  BY <1>4
<1>6. \A i, j \in 1..Len(U) : h < U[i].id /\ Asks(U, i, U[i].id) /\ Asks(U, j, U[i].id) => j = i
  BY <1>4 DEF Asks
<1>7. ASSUME NEW i \in 1..Len(U), U[i].type = "hookCall", h < U[i].id, Captures(U[i].id)
      PROVE  Before("message", U[i].id, i, there, U, l)
  <2>1. i = Len(W) + 1 /\ U[i].id = h + 1
    BY <1>4, <1>7
  <2>2. h + 1 \in (h + 1)..p /\ h + 1 # None
    OBVIOUS
  <2>3. Before("message", h + 1, Len(W) + 1, there, W, k)
    BY <1>7, <2>1, <2>2 DEF Asked
  <2> QED
    BY <1>1, <1>2, <2>1, <2>3
<1>8. ASSUME NEW m \in (h + 1)..p, m # h + 1, Captures(m)
      PROVE  Before("message", m, Len(U) + 1, there, U, l)
  <2>1. m # None
    OBVIOUS
  <2>2. Before("message", m, Len(W) + 1, there, W, k)
    BY <1>8, <2>1 DEF Asked
  <2> QED
    BY <1>1, <1>2, <2>2
<1> QED
  BY <1>5, <1>6, <1>7, <1>8 DEF Asked, l

LEMMA AskedCut ==
    ASSUME NEW there, NEW k, NEW W, NEW p \in Nat, NEW h \in Nat, NEW g, Queue(W, k),
           Asked(there, k, W, p, h, g), NEW U, NEW x, Followed(W, U, x), x.type = "restart",
           NEW q \in Nat, p <= q, NEW l, NEW f
    PROVE  Asked(there, l, U, q, q, f)
<1>1. \A i \in 1..Len(U) : U[i].type = "hookCall" => U[i].id \in 1..q /\ ~(q < U[i].id)
  <2> SUFFICES ASSUME NEW i \in 1..Len(U), U[i].type = "hookCall"
               PROVE  U[i].id \in 1..q /\ ~(q < U[i].id)
    OBVIOUS
  <2>1. i \in 1..Len(W) /\ U[i] = W[i]
    BY DEF Followed, Queue
  <2>2. U[i].id \in 1..p
    BY <2>1 DEF Asked
  <2> QED
    BY <2>2
<1>2. (q + 1)..q = {}
  OBVIOUS
<1> QED
  BY <1>1, <1>2 DEF Asked, Asks

\* The webview takes a post; what it is asked about it keeps until then.
LEMMA AskedShifted ==
    ASSUME NEW there, NEW k, NEW W, NEW p \in Nat, NEW h \in Nat, NEW g, Queue(W, k),
           Asked(there, k, W, p, h, g), NEW U, Shifted(W, U), W[1].type # "restart",
           NEW others,
           \A m \in there : Captures(m) => m \in others \/ Asks(W, 1, m),
           W[1].type = "message" => W[1].id \in others
    PROVE  Asked(others, k - 1, U, p, h, g)
<1>1. /\ Len(W) = Len(U) + 1 /\ Len(U) \in Nat
      /\ \A i \in 1..Len(U) : i + 1 \in 2..(Len(W) + 1) /\ i + 1 \in 1..Len(W) /\ U[i] = W[i + 1]
                              /\ (i + 1) - 1 = i /\ i + 1 # 1
      /\ k \in 2..(Len(W) + 1) /\ 1 \in 1..Len(W)
      /\ Len(W) + 1 \in 2..(Len(W) + 1) /\ (Len(W) + 1) - 1 = Len(U) + 1
  BY DEF Queue, Shifted
<1>2. ASSUME NEW m, Captures(m), ~Asks(W, 1, m),
             NEW i \in 2..(Len(W) + 1), Before("message", m, i, there, W, k)
      PROVE  Before("message", m, i - 1, others, U, k - 1)
  BY <1>1, <1>2, BeforeShifted
<1>3. \A i \in 1..Len(U) : U[i].type = "hookCall" => U[i].id \in 1..p /\ (h < U[i].id => U[i].id = g)
  BY <1>1 DEF Asked
<1>4. \A i, j \in 1..Len(U) : h < U[i].id /\ Asks(U, i, U[i].id) /\ Asks(U, j, U[i].id) => j = i
  <2> SUFFICES ASSUME NEW i \in 1..Len(U), NEW j \in 1..Len(U), h < U[i].id,
                      Asks(U, i, U[i].id), Asks(U, j, U[i].id)
               PROVE  j = i
    OBVIOUS
  <2>1. h < W[i + 1].id /\ Asks(W, i + 1, W[i + 1].id) /\ Asks(W, j + 1, W[i + 1].id)
    BY <1>1 DEF Asks
  <2>2. j + 1 = i + 1
    BY <1>1, <2>1 DEF Asked
  <2> QED
    BY <2>2
<1>5. ASSUME NEW i \in 1..Len(U), U[i].type = "hookCall", h < U[i].id, Captures(U[i].id)
      PROVE  Before("message", U[i].id, i, others, U, k - 1)
  <2>1. /\ W[i + 1].type = "hookCall" /\ h < W[i + 1].id /\ Captures(W[i + 1].id)
        /\ Asks(W, i + 1, W[i + 1].id)
    BY <1>1, <1>5 DEF Asks
  <2>2. Before("message", W[i + 1].id, i + 1, there, W, k)
    BY <1>1, <2>1 DEF Asked
  <2>3. ~Asks(W, 1, W[i + 1].id)
    <3>1. Asks(W, 1, W[i + 1].id) => 1 = i + 1
      BY <1>1, <2>1 DEF Asked
    <3> QED
      BY <1>1, <3>1
  <2>4. Before("message", W[i + 1].id, (i + 1) - 1, others, U, k - 1)
    BY <1>1, <1>2, <2>1, <2>2, <2>3
  <2> QED
    BY <1>1, <2>4
<1>6. ASSUME NEW m \in (h + 1)..p, m # g, Captures(m)
      PROVE  Before("message", m, Len(U) + 1, others, U, k - 1)
  <2>1. Before("message", m, Len(W) + 1, there, W, k)
    BY <1>6 DEF Asked
  <2>2. ~Asks(W, 1, m)
    BY <1>1, <1>6 DEF Asked, Asks
  <2>3. Before("message", m, (Len(W) + 1) - 1, others, U, k - 1)
    BY <1>1, <1>2, <1>6, <2>1, <2>2
  <2> QED
    BY <1>1, <2>3
<1> QED
  BY <1>3, <1>4, <1>5, <1>6 DEF Asked

LEMMA AskedRestarted ==
    ASSUME NEW there, NEW W, NEW p \in Nat, NEW h \in Nat, NEW g, Queue(W, 1),
           Asked(there, 1, W, p, h, g), NEW U, Shifted(W, U), W[1].type = "restart",
           NEW others
    PROVE  Asked(others, Len(W), U, p, h, g)
<1>1. /\ Len(W) = Len(U) + 1 /\ Len(U) \in Nat
      /\ \A i \in 1..Len(U) : i + 1 \in 2..(Len(W) + 1) /\ i + 1 \in 1..Len(W) /\ U[i] = W[i + 1]
                              /\ (i + 1) - 1 = i
      /\ Len(W) + 1 \in 2..(Len(W) + 1) /\ (Len(W) + 1) - 1 = Len(U) + 1
  BY DEF Queue, Shifted
<1>2. ASSUME NEW m, NEW i \in 2..(Len(W) + 1), Before("message", m, i, there, W, 1)
      PROVE  Before("message", m, i - 1, others, U, Len(W))
  BY <1>2, BeforeRestarted
<1>3. \A i \in 1..Len(U) : U[i].type = "hookCall" => U[i].id \in 1..p /\ (h < U[i].id => U[i].id = g)
  BY <1>1 DEF Asked
<1>4. \A i, j \in 1..Len(U) : h < U[i].id /\ Asks(U, i, U[i].id) /\ Asks(U, j, U[i].id) => j = i
  <2> SUFFICES ASSUME NEW i \in 1..Len(U), NEW j \in 1..Len(U), h < U[i].id,
                      Asks(U, i, U[i].id), Asks(U, j, U[i].id)
               PROVE  j = i
    OBVIOUS
  <2>1. h < W[i + 1].id /\ Asks(W, i + 1, W[i + 1].id) /\ Asks(W, j + 1, W[i + 1].id)
    BY <1>1 DEF Asks
  <2>2. j + 1 = i + 1
    BY <1>1, <2>1 DEF Asked
  <2> QED
    BY <2>2
<1>5. ASSUME NEW i \in 1..Len(U), U[i].type = "hookCall", h < U[i].id, Captures(U[i].id)
      PROVE  Before("message", U[i].id, i, others, U, Len(W))
  <2>1. Before("message", W[i + 1].id, i + 1, there, W, 1)
    BY <1>1, <1>5 DEF Asked
  <2>2. Before("message", W[i + 1].id, (i + 1) - 1, others, U, Len(W))
    BY <1>1, <1>2, <2>1
  <2> QED
    BY <1>1, <2>2
<1>6. ASSUME NEW m \in (h + 1)..p, m # g, Captures(m)
      PROVE  Before("message", m, Len(U) + 1, others, U, Len(W))
  <2>1. Before("message", m, Len(W) + 1, there, W, 1)
    BY <1>6 DEF Asked
  <2>2. Before("message", m, (Len(W) + 1) - 1, others, U, Len(W))
    BY <1>1, <1>2, <2>1
  <2> QED
    BY <1>1, <2>2
<1> QED
  BY <1>3, <1>4, <1>5, <1>6 DEF Asked

\* The webview handles a message; what captures an output keeps its result.
LEMMA AskedThere ==
    ASSUME NEW there, NEW k, NEW W, NEW p \in Nat, NEW h \in Nat, NEW g, Asked(there, k, W, p, h, g),
           NEW others, \A m \in there : Captures(m) => m \in others
    PROVE  Asked(others, k, W, p, h, g)
<1>1. \A m, i : Captures(m) /\ Before("message", m, i, there, W, k) =>
                    Before("message", m, i, others, W, k)
  BY DEF Before
<1> QED
  BY <1>1 DEF Asked

-----------------------------------------------------------------------------
(* What a step keeps of what both sides have said *)

\* A step goes on, and what is registered stays so.
Advances ==
    /\ emitted' \in Nat /\ passed' \in Nat /\ handled' \in Nat /\ posted' \in Nat
    /\ emitted <= emitted' /\ passed <= passed' /\ handled <= handled' /\ posted <= posted'
    /\ late \subseteq late'
    /\ \A r : Issued(r) /\ Registered(r) => Registered(r)'

LEMMA RegisteredStays ==
    ASSUME Assumptions, Chains, handled' \in Nat, handled <= handled',
           dispatcher.hooks \subseteq dispatcher'.hooks,
           hooking' = hooking \/ hooking = None \/ hooking <= handled',
           NEW r, Registered(r)
    PROVE  Registered(r)'
<1>1. Messages \subseteq Nat /\ None \notin Nat /\ handled \in Nat
  BY ScriptFacts DEF Chains
<1>2. \A m \in Messages : m <= handled => m <= handled'
  BY <1>1
<1>3. CASE r \in dispatcher.hooks
  BY <1>3 DEF Registered
<1>4. CASE Released(r)
  <2>1. PICK m \in Messages : Kind(m) = "release" /\ Parent(m) = r /\ (m <= handled \/ m = hooking)
    BY <1>4 DEF Released
  <2>2. m <= handled' \/ m = hooking'
    BY <1>1, <1>2, <2>1
  <2>3. Released(r)'
    BY <2>1, <2>2 DEF Released
  <2> QED
    BY <2>3 DEF Registered
<1>5. CASE Over(r)
  <2>1. Over(r)'
    BY <1>2, <1>5 DEF Over
  <2> QED
    BY <2>1 DEF Registered
<1> QED
  BY <1>3, <1>4, <1>5 DEF Registered

LEMMA IssuedStays ==
    ASSUME Advances, Sending, Assumptions, NEW r, Issued(r)
    PROVE  Issued(r)'
<1>1. r \in Requests /\ r <= posted
  BY DEF Issued
<1>2. r \in Nat
  BY <1>1, ScriptFacts DEF Requests
<1>3. r <= posted'
  BY <1>1, <1>2 DEF Advances, Sending
<1> QED
  BY <1>1, <1>3 DEF Issued

\* The request of an emitted message.
LEMMA EmittedIssued ==
    ASSUME Assumptions, Chains, Sending, NEW m \in 1..emitted
    PROVE  m \in Messages /\ Issued(Parent(m))
<1>1. m \in Messages
  BY ScriptFacts DEF Chains
<1> QED
  BY <1>1 DEF Sending, Issued, Requests

LEMMA ReplyStays ==
    ASSUME Assumptions, Chains, Sending, Advances, NEW n \in Nat, NEW o \in Nat, n <= o,
           n <= emitted + 1, NEW x, Reply(x, n)
    PROVE  Reply(x, o)'
<1>1. /\ emitted \in Nat /\ passed \in Nat /\ handled \in Nat /\ passed' \in Nat /\ handled' \in Nat
      /\ passed <= passed' /\ handled <= handled' /\ late \subseteq late'
      /\ \A r : Issued(r) /\ Registered(r) => Registered(r)'
  BY ChainNumbers DEF Chains, Advances
<1>2. ASSUME x.type = "handled" PROVE x.id \in 1..(o - 1)
  BY <1>2 DEF Reply
<1>3. ASSUME x.type = "handled", Kind(x.id) = "capture" PROVE Registered(Parent(x.id))'
  <2>1. x.id \in 1..(n - 1) /\ Registered(Parent(x.id))
    BY <1>3 DEF Reply
  <2>2. x.id \in 1..emitted
    BY <1>1, <2>1
  <2>3. Issued(Parent(x.id))
    BY <2>2, EmittedIssued
  <2> QED
    BY <1>1, <2>1, <2>3
<1>4. ASSUME x.type = "register" PROVE Issued(x.id)'
  BY <1>4, IssuedStays DEF Reply
<1>5. ASSUME x.type = "hookResult"
      PROVE  /\ x.id.of \in 1..passed'
             /\ handled' < x.id.of /\ Captures(x.id.of) /\ x.id.result => x.id.of \in late'
  <2>1. /\ x.id.of \in 1..passed
        /\ handled < x.id.of /\ Captures(x.id.of) /\ x.id.result => x.id.of \in late
    BY <1>5 DEF Reply
  <2>2. x.id.of \in 1..passed' /\ (handled' < x.id.of => handled < x.id.of)
    BY <1>1, <2>1
  <2> QED
    BY <1>1, <2>1, <2>2
<1>6. x.type = "remove" => IsRemoval(x.id)
  BY DEF Reply
<1> QED
  BY <1>2, <1>3, <1>4, <1>5, <1>6 DEF Reply

LEMMA PostStays ==
    ASSUME Assumptions, Sending, Advances, NEW x, Post(x)
    PROVE  Post(x)'
<1>1. ASSUME NEW r, x.type = "finished", x.id = <<r, "register">>
      PROVE  Issued(r)' /\ Registered(r)'
  <2>1. Issued(r) /\ Registered(r)
    BY <1>1 DEF Post
  <2>2. Issued(r)'
    BY <2>1, IssuedStays
  <2> QED
    BY <2>1, <2>2 DEF Advances
<1>2. x.type = "mirror" => x.id \in Requests
  BY DEF Post
<1> QED
  BY <1>1, <1>2 DEF Post

LEMMA HoldsStays ==
    ASSUME Assumptions, Chains, Sending, Advances, NEW n \in Nat, NEW o \in Nat, n <= o,
           n <= emitted + 1, NEW h, Holds(h, n)
    PROVE  Holds(h, o)'
<1>1. h.of \in 1..(n - 1) /\ h.of \in 1..(o - 1) /\ h = [of |-> h.of, keys |-> h.keys]
  BY DEF Holds
<1>2. ASSUME Kind(h.of) = "capture", Registered(Parent(h.of)) PROVE Registered(Parent(h.of))'
  <2>1. h.of \in 1..emitted
    BY <1>1 DEF Chains
  <2>2. Issued(Parent(h.of))
    BY <2>1, EmittedIssued
  <2> QED
    BY <1>2, <2>2 DEF Advances
<1> QED
  BY <1>1, <1>2 DEF Holds

\* What is said in a step: by the webview, and to it.
Says(s, n) == IsSequence(s) /\ \A x \in ToSet(s) : Reply(x, n)

LEMMA RepliesStay ==
    ASSUME Assumptions, Chains, Sending, Advances, NEW n \in Nat, NEW o \in Nat, n <= o,
           n <= emitted + 1, Replies(n),
           \/ toExtension' = toExtension
           \/ toExtension # <<>> /\ toExtension' = Tail(toExtension)
           \/ \E s : Says(s, o)' /\ toExtension' = toExtension \o s
    PROVE  Replies(o)'
<1>1. \A x \in ToSet(toExtension) : Reply(x, o)'
  BY ReplyStays DEF Replies
<1>2. CASE toExtension' = toExtension
  BY <1>1, <1>2 DEF Replies
<1>3. CASE toExtension # <<>> /\ toExtension' = Tail(toExtension)
  <2>1. IsSequence(toExtension') /\ ToSet(toExtension') \subseteq ToSet(toExtension)
    BY <1>3, TailElements DEF Replies
  <2> QED
    BY <1>1, <2>1 DEF Replies
<1>4. ASSUME NEW s, Says(s, o)', toExtension' = toExtension \o s PROVE Replies(o)'
  <2>1. IsSequence(s) /\ \A x \in ToSet(s) : Reply(x, o)'
    BY <1>4 DEF Says
  <2>2. IsSequence(toExtension') /\ ToSet(toExtension') = ToSet(toExtension) \cup ToSet(s)
    BY <1>4, <2>1, ConcatElements DEF Replies
  <2> QED
    BY <1>1, <2>1, <2>2 DEF Replies
<1> QED
  BY <1>2, <1>3, <1>4

LEMMA PostsStay ==
    ASSUME Assumptions, Sending, Advances, Posts,
           \/ toWebview' = toWebview
           \/ toWebview # <<>> /\ toWebview' = Tail(toWebview)
           \/ \E x : Post(x)' /\ toWebview' = Append(toWebview, x)
    PROVE  Posts'
<1>1. \A x \in ToSet(toWebview) : Post(x)'
  BY PostStays DEF Posts
<1>2. CASE toWebview' = toWebview
  BY <1>1, <1>2 DEF Posts
<1>3. CASE toWebview # <<>> /\ toWebview' = Tail(toWebview)
  <2>1. IsSequence(toWebview') /\ ToSet(toWebview') \subseteq ToSet(toWebview)
    BY <1>3, TailElements DEF Posts
  <2> QED
    BY <1>1, <2>1 DEF Posts
<1>4. ASSUME NEW x, Post(x)', toWebview' = Append(toWebview, x) PROVE Posts'
  <2>1. IsSequence(toWebview') /\ ToSet(toWebview') = ToSet(toWebview) \cup {x}
    BY <1>4, AppendElements DEF Posts
  <2> QED
    BY <1>1, <1>4, <2>1 DEF Posts
<1> QED
  BY <1>2, <1>3, <1>4

LEMMA HeldStays ==
    ASSUME Assumptions, Chains, Sending, Advances, NEW n \in Nat, NEW o \in Nat, n <= o,
           n <= emitted + 1, NEW w, HeldInv(w, n), NEW v, v.held = w.held
    PROVE  HeldInv(v, o)'
BY HoldsStays DEF HeldInv

\* The bounds of what is under way.
LEMMA Bounds ==
    ASSUME Chains, Waits, NEW n, NEW t, NEW e, NEW b, NEW k,
           Coming(t, e, b, k, toWebview, sent), View(webview, n, t)
    PROVE  /\ sent <= emitted /\ sent \in Nat
           /\ n \in Nat /\ t \in Nat /\ n <= t /\ t <= sent + 1 /\ n <= emitted + 1
           /\ e \in Nat /\ b \in Nat /\ t <= e + 1 /\ e < b /\ b <= sent + 1 /\ 1 <= n
           /\ Len(webview.chain) \in Nat /\ t = n + Len(webview.chain)
<1>1. /\ passed \in Nat /\ passed <= emitted /\ sent \in Nat /\ emitted \in Nat
      /\ msgChain # <<>> => passed + 1 <= emitted
  BY ChainNumbers DEF Chains
<1>2. sent <= emitted
  BY <1>1 DEF Waits, sent
<1>3. Len(webview.chain) \in Nat
  BY LenProperties DEF View
<1> QED
  BY <1>1, <1>2, <1>3 DEF Coming, View

-----------------------------------------------------------------------------
(* Steps *)

\* The chains of the extension and its hooks are left alone.
LEMMA ExtensionStays ==
    ASSUME Chains, Waits, Dispatch, OutputsInv, RegisteredInv,
           UNCHANGED <<receiving, handling, dispatcher>>
    PROVE  /\ Chains' /\ Waits' /\ Dispatch' /\ OutputsInv' /\ RegisteredInv'
           /\ passed' = passed /\ handled' = handled /\ sent' = sent
           /\ \A r : Registered(r) => Registered(r)'
<1>0. UNCHANGED <<emitted, msgChain, awaits, kernelChain, hooking, dispatcher>>
  BY DEF receiving, handling
<1>1. Chains' /\ passed' = passed /\ handled' = handled
  BY <1>0, ChainsStay
<1>2. sent' = sent
  BY <1>0, <1>1 DEF sent
<1>3. Waits'
  BY <1>0, <1>1 DEF Waits
<1>4. Dispatch'
  BY <1>0 DEF Dispatch
<1>5. OutputsInv'
  BY <1>0, <1>2 DEF OutputsInv
<1>6. \A r : Registered(r) => Registered(r)'
  BY <1>0, <1>1 DEF Registered, Released, Over
<1>7. RegisteredInv'
  BY <1>1, <1>6 DEF RegisteredInv
<1> QED
  BY <1>1, <1>2, <1>3, <1>4, <1>5, <1>6, <1>7

\* What is due is, unless requests are sent, not more than before.
LEMMA DueStays ==
    ASSUME sent \in Nat, sent' \in Nat, sent <= sent', Assumptions, UNCHANGED <<posted, mirroring>>
    PROVE  Due' \subseteq Due
<1>1. Messages \subseteq Nat
  BY ScriptFacts
<1>2. ASSUME NEW m \in Messages, sent' < m PROVE sent < m
  BY <1>1, <1>2
<1>3. ASSUME NEW r \in Due' PROVE r \in Due
  <2>1. PICK m \in Messages : r = Parent(m) /\ sent' < m
                              /\ (Parent(m) <= posted \/ (mirroring /\ Parent(m) = posted + 1))
    BY DEF Due
  <2> QED
    BY <1>2, <2>1 DEF Due
<1> QED
  BY <1>3

LEMMA HistoriesStay ==
    ASSUME Chains, Histories, emitted' \in Nat, emitted <= emitted', captured' = captured,
           late' = late, shown' = shown
    PROVE  Histories'
BY DEF Histories, Chains

LEMMA ReceivedStays ==
    ASSUME ReceivedInv, toWebview' = toWebview, toExtension' = toExtension,
           awaits' = "received" => awaits = "received" /\ passed' = passed
    PROVE  ReceivedInv'
BY DEF ReceivedInv

LEMMA RequestAgrees ==
    ASSUME Assumptions, NEW n \in Nat, NEW t \in Nat, NEW e \in Nat, NEW b \in Nat, NEW k \in Nat,
           AgreedAt(n, t, e, b, k), Request
    PROVE  Agreed'
<1>1. /\ requested + 1 \in Requests /\ requested' = requested + 1
      /\ UNCHANGED <<receiving, handling, dispatcher, mirroring, posted, toWebview, toExtension,
                     webview, restarted, captured, shown, late>>
  BY DEF Request
<1>2. UNCHANGED <<emitted, msgChain, awaits, kernelChain, hooking>>
  BY <1>1 DEF receiving, handling
<1>3. /\ Chains' /\ Waits' /\ Dispatch' /\ OutputsInv' /\ RegisteredInv'
      /\ passed' = passed /\ handled' = handled /\ sent' = sent
      /\ \A r : Registered(r) => Registered(r)'
  BY <1>1, ExtensionStays DEF AgreedAt
<1>4. emitted \in Nat /\ passed \in Nat /\ handled \in Nat /\ posted \in Nat /\ sent \in Nat
  BY ChainNumbers DEF AgreedAt, Chains, Sending
<1>5. Sending'
  <2>1. requested \in Nat /\ 1..(requested + 1) = 1..requested \cup {requested + 1}
    BY DEF AgreedAt, Sending
  <2> QED
    BY <1>1, <1>2, <2>1 DEF AgreedAt, Sending
<1>6. Advances
  BY <1>1, <1>2, <1>3, <1>4 DEF Advances
<1>7. Due' = Due
  BY <1>1, <1>3 DEF Due
<1>8. Replies(n)' /\ Posts' /\ HeldInv(webview, n)'
  <2>1. n <= emitted + 1
    BY Bounds DEF AgreedAt
  <2> QED
    BY <1>1, <1>6, <2>1, RepliesStay, PostsStay, HeldStays DEF AgreedAt
<1>9. Histories'
  BY <1>1, <1>2, <1>4, HistoriesStay DEF AgreedAt
<1>10. ReceivedInv'
  BY <1>1, <1>2, <1>3, ReceivedStays DEF AgreedAt
<1>11. AgreedAt(n, t, e, b, k)'
  BY <1>1, <1>2, <1>3, <1>5, <1>7, <1>8, <1>9, <1>10 DEF AgreedAt
<1> QED
  BY <1>11 DEF Agreed

LEMMA MirrorSendAgrees ==
    ASSUME Assumptions, NEW n \in Nat, NEW t \in Nat, NEW e \in Nat, NEW b \in Nat, NEW k \in Nat,
           AgreedAt(n, t, e, b, k), MirrorSend
    PROVE  Agreed'
<1>1. /\ ~mirroring /\ posted < requested
      /\ toWebview' = Append(toWebview, Message("mirror", posted + 1))
      /\ mirroring' = dispatcher.using
      /\ posted' = IF dispatcher.using THEN posted ELSE posted + 1
      /\ UNCHANGED <<receiving, handling, requested, dispatcher, toExtension, webview, restarted,
                     captured, shown, late>>
  BY DEF MirrorSend
<1>2. UNCHANGED <<emitted, msgChain, awaits, kernelChain, hooking>>
  BY <1>1 DEF receiving, handling
<1>3. /\ Chains' /\ Waits' /\ Dispatch' /\ OutputsInv' /\ RegisteredInv'
      /\ passed' = passed /\ handled' = handled /\ sent' = sent
      /\ \A r : Registered(r) => Registered(r)'
  BY <1>1, ExtensionStays DEF AgreedAt
<1>4. /\ emitted \in Nat /\ passed \in Nat /\ handled \in Nat /\ posted \in Nat /\ sent \in Nat
      /\ requested \in Nat /\ posted' \in Nat /\ posted <= posted' /\ posted' <= requested
      /\ posted + 1 \in Requests
  <2>1. emitted \in Nat /\ passed \in Nat /\ handled \in Nat /\ posted \in Nat /\ sent \in Nat
        /\ requested \in Nat /\ 1..requested \subseteq Requests
    BY ChainNumbers DEF AgreedAt, Chains, Sending
  <2> QED
    BY <1>1, <2>1
<1>5. Sending'
  <2>1. mirroring' \in BOOLEAN
    BY <1>1 DEF AgreedAt, Dispatch
  <2>2. mirroring' => posted' < requested'
    BY <1>1
  <2>3. \A m \in 1..emitted' : Parent(m) <= posted'
    <3> SUFFICES ASSUME NEW m \in 1..emitted PROVE Parent(m) <= posted'
      BY <1>2
    <3>1. m \in Messages /\ Parent(m) <= posted
      BY EmittedIssued DEF AgreedAt, Issued
    <3> QED
      BY <1>4, <3>1, ScriptFacts
  <2>4. 1..requested \subseteq Requests
    BY DEF AgreedAt, Sending
  <2> QED
    BY <1>1, <1>4, <2>1, <2>2, <2>3, <2>4 DEF Sending
<1>6. Advances
  BY <1>1, <1>2, <1>3, <1>4 DEF Advances
<1> DEFINE x == Message("mirror", posted + 1)
<1>7. x.type = "mirror" /\ x.id = posted + 1
  BY MessageFields
<1>8. PICK l \in Nat : l = Later(toWebview, k)
  BY DEF Later
<1>9. Queue(toWebview', l) /\ Followed(toWebview, toWebview', x)
  BY <1>1, <1>8, QueueFollowed DEF AgreedAt
<1>10. PICK y : y = x
  OBVIOUS
<1> HIDE DEF x
<1>11. Posts'
  <2>1. Post(y)'
    BY <1>4, <1>7, <1>10 DEF Post
  <2> QED
    BY <1>1, <1>6, <1>10, <2>1, PostsStay DEF AgreedAt, x
<1>12. Replies(n)' /\ HeldInv(webview, n)'
  <2>1. n <= emitted + 1
    BY Bounds DEF AgreedAt
  <2> QED
    BY <1>1, <1>6, <2>1, RepliesStay, HeldStays DEF AgreedAt
<1>13. Coming(t, e, b, l, toWebview', sent')
  BY <1>3, <1>7, <1>8, <1>9, ComingFollowed DEF AgreedAt
<1>14. Knows(webview.known, n, t, l, toWebview', Due')
  <2>1. \A r \in Due' : r \in Due \/ r = posted + 1
    <3> SUFFICES ASSUME NEW r \in Due' PROVE r \in Due \/ r = posted + 1
      OBVIOUS
    <3>1. PICK m \in Messages : r = Parent(m) /\ sent' < m
                      /\ (Parent(m) <= posted' \/ (mirroring' /\ Parent(m) = posted' + 1))
      BY DEF Due
    <3>2. r \in Nat
      BY <3>1, ScriptFacts
    <3>3. r <= posted \/ r = posted + 1
      BY <1>1, <1>4, <3>1, <3>2
    <3> QED
      BY <1>3, <3>1, <3>3 DEF Due
  <2> QED
    BY <1>7, <1>8, <1>9, <2>1, KnowsFollowed DEF AgreedAt
<1>15. Asked(webview.results \cup n..(t - 1), l, toWebview', passed, handled, hooking)
  <2>1. passed = passed \/ passed = passed + 1
    OBVIOUS
  <2>2. passed # passed + 1
    BY <1>4
  <2> QED
    BY <1>4, <1>7, <1>8, <1>9, <2>2, AskedFollowed DEF AgreedAt
<1>16. Histories'
  BY <1>1, <1>2, <1>4, HistoriesStay DEF AgreedAt
<1>17. ReceivedInv'
  <2>1. \A m : \A i \in 1..Len(toWebview) : IsPosted(toWebview, i, m) =>
            i \in 1..Len(toWebview') /\ IsPosted(toWebview', i, m)
    BY <1>9 DEF Followed, IsPosted
  <2> QED
    BY <1>1, <1>2, <1>3, <2>1 DEF AgreedAt, ReceivedInv
<1>18. ~restarted => l = Len(toWebview') + 1
  BY <1>8, <1>9 DEF AgreedAt, Later, Followed
<1>19. AgreedAt(n, t, e, b, l)'
  BY <1>1, <1>2, <1>3, <1>5, <1>9, <1>11, <1>12, <1>13, <1>14, <1>15, <1>16, <1>17, <1>18 DEF AgreedAt
<1> QED
  BY <1>19 DEF Agreed

-----------------------------------------------------------------------------
(* The kernel emits, and the socket passes on *)

LEMMA EmitAgrees ==
    ASSUME Assumptions, NEW n \in Nat, NEW t \in Nat, NEW e \in Nat, NEW b \in Nat, NEW k \in Nat,
           AgreedAt(n, t, e, b, k), Emit
    PROVE  Agreed'
<1>1. UNCHANGED <<sending, handling, awaits, dispatcher, toWebview, toExtension, webview,
                  restarted, captured, shown, late>>
  BY DEF Emit
<1>2. UNCHANGED <<requested, mirroring, posted, kernelChain, hooking>>
  BY <1>1 DEF sending, handling
<1>3. /\ Chains' /\ passed' = passed /\ handled' = handled /\ sent' = sent
      /\ emitted' = emitted + 1 /\ emitted' \in Messages /\ Parent(emitted') <= posted
      /\ msgChain' # <<>>
  BY ChainsEmit DEF AgreedAt
<1>4. /\ emitted \in Nat /\ passed \in Nat /\ handled \in Nat /\ posted \in Nat /\ sent \in Nat
      /\ emitted' \in Nat
  BY <1>3, ChainNumbers DEF AgreedAt, Chains, Sending
<1>5. Dispatch'
  BY <1>1 DEF AgreedAt, Dispatch
<1>6. OutputsInv'
  BY <1>1, <1>3 DEF AgreedAt, OutputsInv
<1>7. \A r : Registered(r) => Registered(r)'
  BY <1>1, <1>2, <1>3 DEF Registered, Released, Over
<1>8. RegisteredInv'
  BY <1>3, <1>7 DEF AgreedAt, RegisteredInv
<1>9. Waits'
  BY <1>1, <1>2, <1>3 DEF AgreedAt, Waits
<1>10. Sending'
  <2>1. \A m \in 1..emitted' : m \in 1..emitted \/ m = emitted'
    BY <1>3, <1>4
  <2> QED
    BY <1>2, <1>3, <2>1 DEF AgreedAt, Sending
<1>11. Advances
  BY <1>1, <1>2, <1>3, <1>4, <1>7 DEF Advances
<1>12. Due' = Due
  BY <1>2, <1>3 DEF Due
<1>13. Replies(n)' /\ Posts' /\ HeldInv(webview, n)'
  <2>1. n <= emitted + 1
    BY Bounds DEF AgreedAt
  <2> QED
    BY <1>1, <1>11, <2>1, RepliesStay, PostsStay, HeldStays DEF AgreedAt
<1>14. Histories'
  BY <1>1, <1>3, <1>4, HistoriesStay DEF AgreedAt
<1>15. ReceivedInv'
  BY <1>1, <1>3, ReceivedStays DEF AgreedAt
<1>16. AgreedAt(n, t, e, b, k)'
  BY <1>1, <1>2, <1>3, <1>5, <1>6, <1>8, <1>9, <1>10, <1>12, <1>13, <1>14, <1>15 DEF AgreedAt
<1> QED
  BY <1>16 DEF Agreed

\* What the hook of the socket makes of the head of its chain.
LEMMA SocketMessagePasses ==
    ASSUME Assumptions, Chains, Waits, Sending, Dispatch, RegisteredInv, OutputsInv, SocketMessage
    PROVE  /\ sent = passed /\ sent' = sent + 1 /\ sent + 1 \in Messages /\ sent + 1 \in 1..emitted
           /\ Chains' /\ Waits' /\ Sending' /\ Dispatch' /\ RegisteredInv' /\ OutputsInv'
           /\ (passed' = passed \/ passed' = passed + 1) /\ handled' = handled
           /\ toWebview' = Append(toWebview, Message("message", sent + 1))
           /\ awaits' = "received" => passed' = passed
           /\ \A r : Registered(r) => Registered(r)'
<1>1. /\ msgChain # <<>> /\ awaits = "nothing"
      /\ UNCHANGED <<sending, emitted, hooking, toExtension, webview, restarted, discarded,
                     captured, shown, late>>
  BY DEF SocketMessage
<1>2. /\ passed \in Nat /\ handled \in Nat /\ Head(msgChain) = passed + 1 /\ passed + 1 <= emitted
      /\ emitted \in Nat /\ emitted <= Len(Script)
  BY <1>1, ChainNumbers DEF Chains
<1>3. sent = passed /\ passed + 1 \in 1..emitted
  BY <1>1, <1>2 DEF sent
<1>4. passed + 1 \in Messages
  BY <1>3, EmittedIssued
<1>5. PICK m \in Messages : m = passed + 1
  BY <1>4
<1>6. /\ toWebview' = Append(toWebview, Message("message", m))
      /\ dispatcher' =
           [dispatcher EXCEPT
               !.using = @ \/ Kind(m) \in {"open", "create"},
               !.outputs = CASE Kind(m) = "open" -> @ \cup {Parent(m)}
                             [] Kind(m) = "close" -> @ \ {Parent(m)}
                             [] OTHER -> @,
               !.full = IF NeedsFullHandle(m) THEN m ELSE @]
      /\ IF NeedsFullHandle(m)
         THEN awaits' = "received" /\ UNCHANGED <<msgChain, kernelChain>>
         ELSE /\ msgChain' = Tail(msgChain)
              /\ kernelChain' = Append(kernelChain, m)
              /\ UNCHANGED awaits
  BY <1>2, <1>5 DEF SocketMessage
<1>7. /\ DispatcherFields(dispatcher')
      /\ dispatcher'.using = (dispatcher.using \/ Kind(m) \in {"open", "create"})
      /\ dispatcher'.full = IF NeedsFullHandle(m) THEN m ELSE dispatcher.full
      /\ dispatcher'.hooks = dispatcher.hooks /\ dispatcher'.removals = dispatcher.removals
  BY <1>6 DEF Dispatch, DispatcherFields
<1>8. dispatcher'.outputs = CASE Kind(m) = "open" -> dispatcher.outputs \cup {Parent(m)}
                              [] Kind(m) = "close" -> dispatcher.outputs \ {Parent(m)}
                              [] OTHER -> dispatcher.outputs
  BY <1>6 DEF Dispatch, DispatcherFields
<1>9. Kind(m) \in {"capture", "release"} => NeedsFullHandle(m)
  <2> SUFFICES ASSUME Kind(m) \in {"capture", "release"} PROVE Parent(m) \in dispatcher.outputs
    BY DEF NeedsFullHandle
  <2>1. ~\E o \in Messages : sent < o /\ o < m
    BY <1>2, <1>3, <1>5, ScriptFacts
  <2>2. m > sent
    BY <1>2, <1>3, <1>5
  <2> QED
    BY <2>1, <2>2 DEF OutputsInv
<1>10. UNCHANGED <<requested, mirroring, posted>>
  BY <1>1 DEF sending
<1>11. ASSUME NeedsFullHandle(m)
       PROVE  Chains' /\ Waits' /\ passed' = passed /\ handled' = handled /\ sent' = sent + 1
  <2>1. awaits' = "received" /\ UNCHANGED <<msgChain, kernelChain>> /\ dispatcher'.full = m
    BY <1>6, <1>7, <1>11
  <2>2. Chains' /\ passed' = passed /\ handled' = handled
    BY <1>1, <2>1, ChainsStay
  <2>3. sent' = sent + 1
    BY <1>3, <2>1, <2>2 DEF sent
  <2>4. Waits'
    <3>1. Kind(passed + 1) \in {"capture", "release"}
      BY <1>5, <1>11 DEF NeedsFullHandle
    <3>2. hooking' # None => kernelChain' # <<>> /\ hooking' = handled' + 1
      BY <1>1, <2>1, <2>2 DEF Waits
    <3> QED
      BY <1>1, <1>5, <2>1, <2>2, <3>1, <3>2 DEF Waits
  <2> QED
    BY <2>2, <2>3, <2>4
<1>12. ASSUME ~NeedsFullHandle(m)
       PROVE  /\ Chains' /\ Waits' /\ passed' = passed + 1 /\ handled' = handled /\ sent' = sent + 1
              /\ awaits' = "nothing"
  <2>1. awaits' = "nothing" /\ msgChain' = Tail(msgChain) /\ kernelChain' = Append(kernelChain, m)
    BY <1>1, <1>6, <1>12
  <2>2. Chains' /\ passed' = passed + 1 /\ handled' = handled /\ kernelChain' # <<>>
    BY <1>1, <1>2, <1>5, <2>1, HandedOver
  <2>3. sent' = sent + 1
    BY <1>3, <2>1, <2>2 DEF sent
  <2>4. Waits'
    BY <1>1, <2>1, <2>2 DEF Waits
  <2> QED
    BY <2>1, <2>2, <2>3, <2>4
<1>13. sent' = sent + 1 /\ handled' = handled
  BY <1>11, <1>12
<1>14. Sending'
  BY <1>1, <1>10 DEF Sending
<1>15. Dispatch'
  <2>1. dispatcher'.using \in BOOLEAN
    BY <1>7
  <2>2. dispatcher'.outputs \subseteq Requests
    <3>1. Parent(m) \in Requests /\ dispatcher.outputs \subseteq Requests
      BY DEF Requests, Dispatch
    <3> QED
      BY <1>8, <3>1
  <2>3. dispatcher'.full \in Messages \cup {None}
    BY <1>7 DEF Dispatch
  <2> QED
    BY <1>7, <2>1, <2>2, <2>3 DEF Dispatch
<1>16. \A r : Registered(r) => Registered(r)'
  BY <1>1, <1>7, <1>13 DEF Registered, Released, Over
<1>17. RegisteredInv'
  <2> SUFFICES ASSUME NEW c \in 1..passed', Kind(c) = "capture" PROVE Registered(Parent(c))'
    BY DEF RegisteredInv
  <2>1. CASE c \in 1..passed
    BY <1>16, <2>1 DEF RegisteredInv
  <2>2. CASE c \notin 1..passed
    <3>1. ~NeedsFullHandle(m) /\ passed' = passed + 1
      BY <1>11, <1>12, <2>2
    <3>2. c = m
      BY <1>2, <1>5, <2>2, <3>1
    <3> QED
      BY <1>9, <3>1, <3>2
  <2> QED
    BY <2>1, <2>2
<1>18. OutputsInv'
  <2> SUFFICES ASSUME NEW c \in Messages, c > sent + 1, Kind(c) \in {"capture", "release"},
                      ~\E o \in Messages : sent + 1 < o /\ o < c /\ Kind(o) = "open"
                        /\ Parent(o) = Parent(c)
               PROVE  Parent(c) \in dispatcher'.outputs
    BY <1>13 DEF OutputsInv
  <2>1. Messages \subseteq Nat /\ sent \in Nat /\ m = sent + 1
    BY <1>2, <1>3, <1>5, ScriptFacts
  <2>2. c > sent
    BY <2>1
  <2>3. \/ Parent(c) \in dispatcher.outputs
        \/ \E o \in Messages : sent < o /\ o < c /\ Kind(o) = "open" /\ Parent(o) = Parent(c)
    BY <2>2 DEF OutputsInv
  <2>4. CASE \E o \in Messages : sent < o /\ o < c /\ Kind(o) = "open" /\ Parent(o) = Parent(c)
    <3>1. PICK o \in Messages : sent < o /\ o < c /\ Kind(o) = "open" /\ Parent(o) = Parent(c)
      BY <2>4
    <3>2. o = m
      BY <2>1, <3>1
    <3> QED
      BY <1>8, <3>1, <3>2
  <2>5. CASE Parent(c) \in dispatcher.outputs
    <3>1. Kind(m) = "close" => Parent(m) # Parent(c)
      <4> SUFFICES ASSUME Kind(m) = "close", Parent(m) = Parent(c) PROVE FALSE
        OBVIOUS
      <4>1. Opened(c)
        BY ScriptFacts
      <4>2. PICK o \in Messages : o < c /\ Kind(o) = "open" /\ Parent(o) = Parent(c) /\
               \A i \in Messages : o < i /\ i < c /\ Parent(i) = Parent(c) => Kind(i) # "close"
        BY <4>1 DEF Opened
      <4>3. m < c /\ o # m
        BY <2>1, <4>2
      <4>4. ~(o < m)
        BY <4>2, <4>3
      <4>5. sent + 1 < o
        BY <2>1, <4>3, <4>4
      <4> QED
        BY <4>2, <4>5
    <3> QED
      BY <1>8, <2>5, <3>1
  <2> QED
    BY <2>3, <2>4, <2>5
<1> QED
  BY <1>2, <1>3, <1>4, <1>5, <1>6, <1>11, <1>12, <1>13, <1>14, <1>15, <1>16, <1>17, <1>18

LEMMA SocketMessageAgrees ==
    ASSUME Assumptions, NEW n \in Nat, NEW t \in Nat, NEW e \in Nat, NEW b \in Nat, NEW k \in Nat,
           AgreedAt(n, t, e, b, k), SocketMessage
    PROVE  Agreed'
<1>1. /\ sent = passed /\ sent' = sent + 1 /\ sent + 1 \in Messages /\ sent + 1 \in 1..emitted
      /\ Chains' /\ Waits' /\ Sending' /\ Dispatch' /\ RegisteredInv' /\ OutputsInv'
      /\ (passed' = passed \/ passed' = passed + 1) /\ handled' = handled
      /\ toWebview' = Append(toWebview, Message("message", sent + 1))
      /\ awaits' = "received" => passed' = passed
      /\ \A r : Registered(r) => Registered(r)'
  BY SocketMessagePasses DEF AgreedAt
<1>2. /\ UNCHANGED <<sending, emitted, hooking, toExtension, webview, restarted, captured, shown, late>>
  BY DEF SocketMessage
<1>3. UNCHANGED <<requested, mirroring, posted>>
  BY <1>2 DEF sending
<1>4. /\ emitted \in Nat /\ passed \in Nat /\ handled \in Nat /\ posted \in Nat /\ sent \in Nat
      /\ passed' \in Nat /\ passed <= passed' /\ sent <= sent' /\ sent' \in Nat
  <2>1. emitted \in Nat /\ passed \in Nat /\ handled \in Nat /\ posted \in Nat /\ sent \in Nat
    BY ChainNumbers DEF AgreedAt, Chains, Sending
  <2> QED
    BY <1>1, <2>1
<1>5. Advances
  BY <1>1, <1>2, <1>3, <1>4 DEF Advances
<1> DEFINE x == Message("message", sent + 1)
<1>6. x.type = "message" /\ x.id = sent + 1
  BY MessageFields
<1>7. PICK l \in Nat : l = Later(toWebview, k)
  BY DEF Later
<1>8. Queue(toWebview', l) /\ Followed(toWebview, toWebview', x)
  BY <1>1, <1>7, QueueFollowed DEF AgreedAt
<1>9. PICK y : y = x
  OBVIOUS
<1> HIDE DEF x
<1>10. Posts'
  <2>1. Post(y)'
    BY <1>6, <1>9 DEF Post
  <2> QED
    BY <1>1, <1>5, <1>9, <2>1, PostsStay DEF AgreedAt, x
<1>11. Replies(n)' /\ HeldInv(webview, n)'
  <2>1. n <= emitted + 1
    BY Bounds DEF AgreedAt
  <2> QED
    BY <1>2, <1>5, <2>1, RepliesStay, HeldStays DEF AgreedAt
<1>12. PICK f \in Nat, c \in Nat : Coming(t, f, c, l, toWebview', sent')
  <2>1. Queue(toWebview, k) /\ Coming(t, e, b, k, toWebview, sent)
    BY DEF AgreedAt
  <2>2. \E f, c \in Nat : Coming(t, f, c, Later(toWebview, k), toWebview', sent + 1)
    BY <1>6, <1>8, <2>1, ComingGrows
  <2> QED
    BY <1>1, <1>7, <2>2
<1>13. Knows(webview.known, n, t, l, toWebview', Due')
  <2>1. Due' \subseteq Due
    BY <1>3, <1>4, DueStays
  <2>2. Parent(sent + 1) \in Due
    <3>1. Parent(sent + 1) <= posted /\ sent < sent + 1
      <4>1. sent + 1 \in 1..emitted
        BY <1>1, <1>4
      <4>2. \A m \in 1..emitted : Parent(m) <= posted
        BY DEF AgreedAt, Sending
      <4> QED
        BY <1>4, <4>1, <4>2
    <3> QED
      BY <1>1, <3>1 DEF Due
  <2> QED
    BY <1>6, <1>7, <1>8, <2>1, <2>2, KnowsFollowed DEF AgreedAt
<1>14. Asked(webview.results \cup n..(t - 1), l, toWebview', passed', handled, hooking)
  BY <1>1, <1>4, <1>6, <1>7, <1>8, AskedFollowed DEF AgreedAt
<1>15. Histories'
  BY <1>2, <1>4, HistoriesStay DEF AgreedAt
<1>16. ReceivedInv'
  <2> SUFFICES ASSUME awaits' = "received"
               PROVE  \E i \in 1..Len(toWebview') : IsPosted(toWebview', i, passed' + 1)
    BY DEF ReceivedInv
  <2>1. passed' + 1 = sent + 1
    BY <1>1
  <2>2. Len(toWebview') \in 1..Len(toWebview') /\ toWebview'[Len(toWebview')] = x
    BY <1>8 DEF Followed
  <2> QED
    BY <1>6, <2>1, <2>2 DEF IsPosted
<1>17. ~restarted => l = Len(toWebview') + 1
  BY <1>7, <1>8 DEF AgreedAt, Later, Followed
<1>18. AgreedAt(n, t, f, c, l)'
  BY <1>1, <1>2, <1>8, <1>10, <1>11, <1>12, <1>13, <1>14, <1>15, <1>16, <1>17 DEF AgreedAt
<1> QED
  BY <1>18 DEF Agreed

-----------------------------------------------------------------------------
(* The extension's connection handles a message; the kernel is restarted *)

LEMMA AskingAgrees ==
    ASSUME Assumptions, NEW n \in Nat, NEW t \in Nat, NEW e \in Nat, NEW b \in Nat, NEW k \in Nat,
           AgreedAt(n, t, e, b, k), HandleMessage, Parent(Head(kernelChain)) \in dispatcher.hooks
    PROVE  Agreed'
<1>1. /\ kernelChain # <<>> /\ hooking = None
      /\ UNCHANGED <<sending, receiving, kernelChain, toExtension, webview, restarted,
                     captured, shown, late>>
  BY DEF HandleMessage
<1>2. UNCHANGED <<requested, mirroring, posted, emitted, msgChain, awaits>>
  BY <1>1 DEF sending, receiving
<1>3. /\ emitted \in Nat /\ passed \in Nat /\ handled \in Nat /\ posted \in Nat /\ sent \in Nat
      /\ Head(kernelChain) = handled + 1 /\ handled + 1 <= passed /\ handled + 1 \in 1..emitted
  <2>1. /\ emitted \in Nat /\ passed \in Nat /\ handled \in Nat /\ posted \in Nat /\ sent \in Nat
        /\ Head(kernelChain) = handled + 1 /\ handled + 1 <= passed /\ passed <= emitted
    BY <1>1, ChainNumbers DEF AgreedAt, Chains, Sending
  <2> QED
    BY <2>1
<1>4. PICK m \in Messages : m = handled + 1
  BY <1>3, EmittedIssued DEF AgreedAt
<1>5. /\ hooking' = m
      /\ toWebview' = Append(toWebview, Message("hookCall", m))
      /\ dispatcher' = [dispatcher EXCEPT
                          !.hooks = @ \ {x.hook : x \in {y \in dispatcher.removals : y.last = m}},
                          !.removals = {x \in @ : x.last # m}]
  BY <1>3, <1>4 DEF HandleMessage
<1>6. /\ DispatcherFields(dispatcher') /\ dispatcher'.using = dispatcher.using
      /\ dispatcher'.full = dispatcher.full /\ dispatcher'.outputs = dispatcher.outputs
      /\ dispatcher'.hooks = dispatcher.hooks \ {x.hook : x \in {y \in dispatcher.removals : y.last = m}}
      /\ dispatcher'.removals = {x \in dispatcher.removals : x.last # m}
  BY <1>5 DEF AgreedAt, Dispatch, DispatcherFields
<1>7. Chains' /\ passed' = passed /\ handled' = handled
  BY <1>1, <1>2, ChainsStay DEF AgreedAt
<1>8. sent' = sent
  BY <1>2, <1>7 DEF sent
<1>9. Dispatch'
  BY <1>6 DEF AgreedAt, Dispatch
<1>10. \A r : Registered(r) => Registered(r)'
  <2> SUFFICES ASSUME NEW r, Registered(r) PROVE Registered(r)'
    OBVIOUS
  <2>1. CASE r \in dispatcher.hooks
    <3>1. CASE r \in dispatcher'.hooks
      BY <3>1 DEF Registered
    <3>2. CASE r \notin dispatcher'.hooks
      <4>1. PICK x \in dispatcher.removals : x.last = m /\ x.hook = r
        BY <1>6, <2>1, <3>2
      <4>2. Kind(m) = "release" /\ Parent(m) = r
        BY <4>1 DEF AgreedAt, Dispatch, IsRemoval
      <4>3. Released(r)'
        BY <1>5, <4>2 DEF Released
      <4> QED
        BY <4>3 DEF Registered
    <3> QED
      BY <3>1, <3>2
  <2>2. CASE Released(r)
    <3>1. \A i \in Messages : i # None
      BY ScriptFacts
    <3>2. Released(r)'
      BY <1>1, <1>7, <2>2, <3>1 DEF Released
    <3> QED
      BY <3>2 DEF Registered
  <2>3. CASE Over(r)
    BY <1>7, <2>3 DEF Over, Registered
  <2> QED
    BY <2>1, <2>2, <2>3 DEF Registered
<1>11. RegisteredInv'
  BY <1>7, <1>10 DEF AgreedAt, RegisteredInv
<1>12. OutputsInv'
  BY <1>6, <1>8 DEF AgreedAt, OutputsInv
<1>13. Waits'
  BY <1>1, <1>2, <1>4, <1>5, <1>6, <1>7 DEF AgreedAt, Waits
<1>14. Sending'
  BY <1>2 DEF AgreedAt, Sending
<1>15. Advances
  BY <1>1, <1>2, <1>3, <1>7, <1>10 DEF Advances
<1> DEFINE x == Message("hookCall", m)
<1>16. x.type = "hookCall" /\ x.id = m
  BY MessageFields
<1>17. PICK l \in Nat : l = Later(toWebview, k)
  BY DEF Later
<1>18. Queue(toWebview', l) /\ Followed(toWebview, toWebview', x)
  BY <1>5, <1>17, QueueFollowed DEF AgreedAt
<1> HIDE DEF x
<1>19. Posts'
  <2>1. Post(x)'
    BY <1>16 DEF Post
  <2> QED
    BY <1>5, <1>15, <2>1, PostsStay DEF AgreedAt, x
<1>20. Replies(n)' /\ HeldInv(webview, n)'
  <2>1. n <= emitted + 1
    BY Bounds DEF AgreedAt
  <2> QED
    BY <1>1, <1>15, <2>1, RepliesStay, HeldStays DEF AgreedAt
<1>21. Coming(t, e, b, l, toWebview', sent')
  BY <1>8, <1>16, <1>17, <1>18, ComingFollowed DEF AgreedAt
<1>22. Due' = Due
  BY <1>2, <1>8 DEF Due
<1>23. Knows(webview.known, n, t, l, toWebview', Due')
  BY <1>16, <1>17, <1>18, <1>22, KnowsFollowed DEF AgreedAt
<1>24. Asked(webview.results \cup n..(t - 1), l, toWebview', passed, handled, m)
  <2>1. None \notin Nat
    BY ScriptFacts
  <2> QED
    BY <1>1, <1>3, <1>4, <1>16, <1>17, <1>18, <2>1, AskedCalls DEF AgreedAt
<1>25. Histories'
  BY <1>1, <1>2, <1>3, HistoriesStay DEF AgreedAt
<1>26. ReceivedInv'
  <2>1. \A j : \A i \in 1..Len(toWebview) : IsPosted(toWebview, i, j) =>
            i \in 1..Len(toWebview') /\ IsPosted(toWebview', i, j)
    BY <1>18 DEF Followed, IsPosted
  <2> QED
    BY <1>1, <1>2, <1>7, <2>1 DEF AgreedAt, ReceivedInv
<1>27. ~restarted => l = Len(toWebview') + 1
  BY <1>17, <1>18 DEF AgreedAt, Later, Followed
<1>28. AgreedAt(n, t, e, b, l)'
  BY <1>1, <1>5, <1>7, <1>9, <1>11, <1>12, <1>13, <1>14, <1>18, <1>19, <1>20, <1>21, <1>23, <1>24,
     <1>25, <1>26, <1>27 DEF AgreedAt
<1> QED
  BY <1>28 DEF Agreed

\* A message that is not asked about is shown: its output is not captured, unless its request
\* has captured and released before.
LEMMA ShowingAgrees ==
    ASSUME Assumptions, NEW n \in Nat, NEW t \in Nat, NEW e \in Nat, NEW b \in Nat, NEW k \in Nat,
           AgreedAt(n, t, e, b, k), HandleMessage, Parent(Head(kernelChain)) \notin dispatcher.hooks
    PROVE  Agreed'
<1>1. /\ kernelChain # <<>> /\ hooking = None /\ kernelChain' = Tail(kernelChain)
      /\ shown' = shown \cup {Head(kernelChain)}
      /\ UNCHANGED <<sending, receiving, hooking, dispatcher, toWebview, toExtension, webview,
                     restarted, captured, late>>
  BY DEF HandleMessage
<1>2. UNCHANGED <<requested, mirroring, posted, emitted, msgChain, awaits>>
  BY <1>1 DEF sending, receiving
<1>3. /\ emitted \in Nat /\ passed \in Nat /\ handled \in Nat /\ posted \in Nat /\ sent \in Nat
      /\ Head(kernelChain) = handled + 1 /\ handled + 1 <= passed /\ handled + 1 \in 1..emitted
  <2>1. /\ emitted \in Nat /\ passed \in Nat /\ handled \in Nat /\ posted \in Nat /\ sent \in Nat
        /\ Head(kernelChain) = handled + 1 /\ handled + 1 <= passed /\ passed <= emitted
    BY <1>1, ChainNumbers DEF AgreedAt, Chains, Sending
  <2> QED
    BY <2>1
<1>4. PICK m \in Messages : m = handled + 1
  BY <1>3, EmittedIssued DEF AgreedAt
<1>5. Chains' /\ passed' = passed /\ handled' = handled + 1
  BY <1>1, <1>2, ChainHandled DEF AgreedAt
<1>6. sent' = sent
  BY <1>2, <1>5 DEF sent
<1>7. \A r : Registered(r) => Registered(r)'
  BY <1>1, <1>3, <1>5, RegisteredStays DEF AgreedAt
<1>8. Dispatch' /\ OutputsInv' /\ RegisteredInv'
  BY <1>1, <1>5, <1>6, <1>7 DEF AgreedAt, Dispatch, OutputsInv, RegisteredInv
<1>9. Waits'
  BY <1>1, <1>2, <1>5 DEF AgreedAt, Waits
<1>10. Sending'
  BY <1>2 DEF AgreedAt, Sending
<1>11. Advances
  BY <1>1, <1>2, <1>3, <1>5, <1>7 DEF Advances
<1>12. Replies(n)' /\ Posts' /\ HeldInv(webview, n)'
  <2>1. n <= emitted + 1
    BY Bounds DEF AgreedAt
  <2> QED
    BY <1>1, <1>11, <2>1, RepliesStay, PostsStay, HeldStays DEF AgreedAt
<1>13. Due' = Due
  BY <1>2, <1>6 DEF Due
<1>14. Asked(webview.results \cup n..(t - 1), k, toWebview, passed, handled + 1, None)
  <2>1. None \notin Nat
    BY ScriptFacts
  <2> QED
    BY <1>1, <1>3, <2>1, AskedMoves DEF AgreedAt
<1>15. Captures(m) => ReleasedBefore(m)
  <2> SUFFICES ASSUME Captures(m) PROVE ReleasedBefore(m)
    OBVIOUS
  <2>1. PICK c \in Messages : c < m /\ Kind(c) = "capture" /\ Parent(c) = Parent(m)
    BY DEF Captures, Capturing
  <2>2. Messages = 1..Len(Script) /\ None \notin Nat
    BY ScriptFacts
  <2>3. c \in 1..passed
    BY <1>3, <1>4, <2>1, <2>2
  <2>4. Registered(Parent(m))
    BY <2>1, <2>3 DEF AgreedAt, RegisteredInv
  <2>5. Parent(m) \notin dispatcher.hooks
    BY <1>3, <1>4
  <2>6. ~Over(Parent(m))
    BY <1>3, <1>4 DEF Over
  <2>7. PICK i \in Messages : Kind(i) = "release" /\ Parent(i) = Parent(m)
               /\ (i <= handled \/ i = hooking)
    BY <2>4, <2>5, <2>6 DEF Registered, Released
  <2>8. i < m
    BY <1>1, <1>3, <1>4, <2>2, <2>7
  <2> QED
    BY <2>7, <2>8 DEF ReleasedBefore
<1>16. Histories'
  BY <1>1, <1>2, <1>3, <1>4, <1>15 DEF AgreedAt, Histories
<1>17. ReceivedInv'
  BY <1>1, <1>2, <1>5, ReceivedStays DEF AgreedAt
<1>18. AgreedAt(n, t, e, b, k)'
  BY <1>1, <1>5, <1>6, <1>8, <1>9, <1>10, <1>12, <1>13, <1>14, <1>16, <1>17 DEF AgreedAt
<1> QED
  BY <1>18 DEF Agreed

LEMMA RestartAgrees ==
    ASSUME Assumptions, NEW n \in Nat, NEW t \in Nat, NEW e \in Nat, NEW b \in Nat, NEW k \in Nat,
           AgreedAt(n, t, e, b, k), Restart
    PROVE  Agreed'
<1>1. /\ ~restarted /\ restarted' = TRUE /\ posted' = requested
      /\ msgChain' = <<>> /\ kernelChain' = <<>>
      /\ dispatcher' = [dispatcher EXCEPT !.hooks = {}]
      /\ toWebview' = Append(toWebview, Message("restart", None))
      /\ UNCHANGED <<requested, toExtension, webview, captured, shown, late>>
  BY DEF Restart
<1>2. mirroring' = FALSE /\ awaits' = "nothing" /\ hooking' = None
  BY DEF Restart
<1>3. /\ Chains' /\ emitted <= emitted'
      /\ passed' = emitted' /\ handled' = emitted' /\ sent' = emitted'
      /\ \A m \in Messages : m <= emitted' <=> Parent(m) <= requested
      /\ Cut(emitted' + 1)
  BY ChainsRestart DEF AgreedAt
<1>4. /\ emitted \in Nat /\ passed \in Nat /\ handled \in Nat /\ posted \in Nat /\ sent \in Nat
      /\ requested \in Nat /\ posted <= requested /\ passed <= emitted /\ handled <= passed
      /\ 1..requested \subseteq Requests
      /\ sent <= emitted /\ n <= emitted + 1
  BY ChainNumbers, Bounds DEF AgreedAt, Chains, Sending
<1>5. PICK p \in Nat : p = emitted'
  BY <1>3 DEF Chains
<1>6. /\ Messages = 1..Len(Script) /\ Len(Script) \in Nat
      /\ \A m \in Messages : Parent(m) \in Nat
      /\ \A m \in Messages : Kind(m) \in {"capture", "release"} => Opened(m)
  BY ScriptFacts
<1>7. p <= Len(Script) /\ 1..p \subseteq Messages
  BY <1>3, <1>5, <1>6 DEF Chains
<1>8. /\ DispatcherFields(dispatcher') /\ dispatcher'.using = dispatcher.using
      /\ dispatcher'.full = dispatcher.full /\ dispatcher'.outputs = dispatcher.outputs
      /\ dispatcher'.hooks = {} /\ dispatcher'.removals = dispatcher.removals
  BY <1>1 DEF AgreedAt, Dispatch, DispatcherFields
<1>9. Dispatch'
  BY <1>8 DEF AgreedAt, Dispatch
<1>10. \A r \in Nat : r <= requested => Registered(r)'
  <2> SUFFICES ASSUME NEW r \in Nat, r <= requested PROVE Registered(r)'
    OBVIOUS
  <2>1. Over(r)'
    BY <1>3, <1>5, <1>6 DEF Over
  <2> QED
    BY <2>1 DEF Registered
<1>11. RegisteredInv'
  <2> SUFFICES ASSUME NEW m \in 1..p PROVE Registered(Parent(m))'
    BY <1>3, <1>5 DEF RegisteredInv
  <2>1. m \in Messages /\ m <= p
    BY <1>7
  <2> QED
    BY <1>3, <1>5, <1>6, <1>10, <2>1
<1>12. OutputsInv'
  <2> SUFFICES ASSUME NEW m \in Messages, m > p, Kind(m) \in {"capture", "release"}
               PROVE  \E o \in Messages : p < o /\ o < m /\ Kind(o) = "open" /\ Parent(o) = Parent(m)
    BY <1>3, <1>5 DEF OutputsInv
  <2>1. PICK o \in Messages : o < m /\ Kind(o) = "open" /\ Parent(o) = Parent(m)
    BY <1>6 DEF Opened
  <2>2. ~(m <= p)
    BY <1>6
  <2>3. ~(o <= p)
    BY <1>3, <1>5, <2>1, <2>2
  <2>4. p < o
    BY <1>6, <2>3
  <2> QED
    BY <2>1, <2>4
<1>13. Waits'
  BY <1>2 DEF Waits
<1>14. Sending'
  <2>1. \A m \in 1..p : Parent(m) <= requested
    BY <1>3, <1>5, <1>7
  <2>2. mirroring' \in BOOLEAN /\ (mirroring' => posted' < requested')
    BY <1>2
  <2> QED
    BY <1>1, <1>4, <1>5, <2>1, <2>2 DEF Sending
<1>15. Advances
  <2>1. \A r : Issued(r) => r \in Nat /\ r <= requested
    BY <1>4, <1>6 DEF Issued, Requests
  <2>2. \A r : Issued(r) /\ Registered(r) => Registered(r)'
    BY <1>10, <2>1
  <2> QED
    BY <1>1, <1>3, <1>4, <1>5, <2>2 DEF Advances
<1>16. k = Len(toWebview) + 1 /\ Queue(toWebview, k)
  BY <1>1 DEF AgreedAt
<1> DEFINE x == Message("restart", None)
<1>17. x.type = "restart"
  BY MessageFields
<1>18. Queue(toWebview', k) /\ Followed(toWebview, toWebview', x)
  BY <1>1, <1>16, QueueRestarted
<1> HIDE DEF x
<1>19. Posts'
  <2>1. Post(x)'
    BY <1>17 DEF Post
  <2> QED
    BY <1>1, <1>15, <2>1, PostsStay DEF AgreedAt, x
<1>20. Replies(n)' /\ HeldInv(webview, n)'
  BY <1>1, <1>4, <1>15, RepliesStay, HeldStays DEF AgreedAt
<1>21. Coming(t, e, p + 1, k, toWebview', sent')
  <2>1. sent <= p
    BY <1>3, <1>4, <1>5
  <2>2. Cut(p + 1)
    BY <1>3, <1>5
  <2>3. Coming(t, e, b, k, toWebview, sent)
    BY DEF AgreedAt
  <2>4. Coming(t, e, p + 1, k, toWebview', p)
    BY <1>16, <1>17, <1>18, <2>1, <2>2, <2>3, ComingCut
  <2> QED
    BY <1>3, <1>5, <2>4
<1>22. Due' = {}
  <2>1. ASSUME NEW m \in Messages, sent' < m PROVE ~(Parent(m) <= posted')
    <3>1. ~(m <= p)
      BY <1>3, <1>5, <1>6, <2>1
    <3> QED
      BY <1>1, <1>3, <1>5, <3>1
  <2> QED
    BY <1>2, <2>1 DEF Due
<1>23. Knows(webview.known, n, t, k, toWebview', Due')
  <2>1. Knows(webview.known, n, t, k, toWebview, Due)
    BY DEF AgreedAt
  <2> QED
    BY <1>16, <1>17, <1>18, <1>22, <2>1, KnowsCut
<1>24. Asked(webview.results \cup n..(t - 1), k, toWebview', p, p, None)
  <2>1. passed <= p
    BY <1>3, <1>4, <1>5
  <2>2. Asked(webview.results \cup n..(t - 1), k, toWebview, passed, handled, hooking)
    BY DEF AgreedAt
  <2> QED
    BY <1>4, <1>16, <1>17, <1>18, <2>1, <2>2, AskedCut
<1>25. Histories'
  BY <1>1, <1>3, <1>5, HistoriesStay DEF AgreedAt
<1>26. ReceivedInv'
  BY <1>2 DEF ReceivedInv
<1>27. p + 1 \in Nat
  OBVIOUS
<1>28. AgreedAt(n, t, e, p + 1, k)'
  BY <1>1, <1>2, <1>3, <1>5, <1>9, <1>11, <1>12, <1>13, <1>14, <1>18, <1>19, <1>20, <1>21, <1>23, <1>24,
     <1>25, <1>26 DEF AgreedAt
<1> QED
  BY <1>27, <1>28 DEF Agreed

-----------------------------------------------------------------------------
(* The extension takes what the webview says *)

LEMMA ReceivedShifted ==
    ASSUME NEW X, NEW Y, Shifted(X, Y), NEW m, NEW i \in 1..Len(X), ReceivedAt(X, i, m), i # 1
    PROVE  i - 1 \in 1..Len(Y) /\ ReceivedAt(Y, i - 1, m)
<1>1. /\ i - 1 \in 1..Len(Y) /\ Y[i - 1] = X[i]
      /\ \A j \in 1..(i - 2) : j \in 1..Len(Y) /\ Y[j] = X[j + 1] /\ j + 1 \in 1..(i - 1)
  BY DEF Shifted
<1>2. (i - 1) - 1 = i - 2
  OBVIOUS
<1>3. \A j \in 1..(i - 2) : ~(Y[j].type = "handled" /\ Y[j].id = m)
  BY <1>1 DEF ReceivedAt
<1> QED
  BY <1>1, <1>2, <1>3 DEF ReceivedAt

LEMMA ReceivedTaken ==
    ASSUME ReceivedInv, IsSequence(toExtension), toExtension # <<>>, toExtension' = Tail(toExtension),
           awaits' = "received" =>
               /\ awaits = "received" /\ passed' = passed
               /\ ~(Head(toExtension).type = "received"
                    /\ Head(toExtension).id = Message("message", passed + 1)),
           \A i \in 1..Len(toWebview) : i \in 1..Len(toWebview') /\ toWebview'[i] = toWebview[i]
    PROVE  ReceivedInv'
<1> SUFFICES ASSUME awaits' = "received"
             PROVE  \/ \E i \in 1..Len(toWebview') : IsPosted(toWebview', i, passed + 1)
                    \/ \E i \in 1..Len(toExtension') : ReceivedAt(toExtension', i, passed + 1)
  BY DEF ReceivedInv
<1>1. Shifted(toExtension, toExtension') /\ toExtension[1] = Head(toExtension)
  BY TailShifts
<1>2. CASE \E i \in 1..Len(toWebview) : IsPosted(toWebview, i, passed + 1)
  BY <1>2 DEF IsPosted
<1>3. CASE \E i \in 1..Len(toExtension) : ReceivedAt(toExtension, i, passed + 1)
  <2>1. PICK i \in 1..Len(toExtension) : ReceivedAt(toExtension, i, passed + 1)
    BY <1>3
  <2>2. i # 1
    BY <1>1, <2>1 DEF ReceivedAt
  <2>3. PICK m : m = passed + 1
    OBVIOUS
  <2>4. i - 1 \in 1..Len(toExtension') /\ ReceivedAt(toExtension', i - 1, m)
    BY <1>1, <2>1, <2>2, <2>3, ReceivedShifted
  <2> QED
    BY <2>3, <2>4
<1> QED
  BY <1>2, <1>3 DEF ReceivedInv

LEMMA KnowsFewer ==
    ASSUME NEW known, NEW n, NEW t, NEW k, NEW W, NEW D, Knows(known, n, t, k, W, D),
           NEW E, E \subseteq D
    PROVE  Knows(known, n, t, k, W, E)
BY DEF Knows

LEMMA OnReceivedAgrees ==
    ASSUME Assumptions, NEW n \in Nat, NEW t \in Nat, NEW e \in Nat, NEW b \in Nat, NEW k \in Nat,
           AgreedAt(n, t, e, b, k), OnReceived
    PROVE  Agreed'
<1>1. /\ toExtension # <<>> /\ toExtension' = Tail(toExtension)
      /\ UNCHANGED <<handling, requested, emitted, msgChain, dispatcher, toWebview, webview,
                     restarted, captured, shown, late>>
  BY DEF OnReceived, Receive
<1>2. \/ UNCHANGED <<mirroring, posted>>
      \/ mirroring /\ mirroring' = FALSE /\ posted' = posted + 1
  <2>1. mirroring \in BOOLEAN
    BY DEF AgreedAt, Sending
  <2>2. PICK o \in BOOLEAN : o <=> (mirroring /\ Head(toExtension).id = Message("mirror", posted + 1))
    OBVIOUS
  <2>3. mirroring' = (mirroring /\ ~o) /\ posted' = IF o THEN posted + 1 ELSE posted
    BY <2>2 DEF OnReceived
  <2> QED
    BY <2>1, <2>2, <2>3
<1>3. awaits' = IF awaits = "received" /\ Head(toExtension).id = Message("message", Head(msgChain))
                THEN "handled" ELSE awaits
  BY DEF OnReceived
<1>4. UNCHANGED <<kernelChain, hooking>>
  BY <1>1 DEF handling
<1>5. /\ emitted \in Nat /\ passed \in Nat /\ handled \in Nat /\ posted \in Nat /\ sent \in Nat
      /\ requested \in Nat
      /\ msgChain # <<>> => Head(msgChain) = passed + 1
  BY ChainNumbers DEF AgreedAt, Chains, Sending
<1>6. Chains' /\ passed' = passed /\ handled' = handled
  BY <1>1, <1>4, ChainsStay DEF AgreedAt
<1>7. /\ awaits' = "nothing" <=> awaits = "nothing"
      /\ awaits' \in {"nothing", "received", "handled"}
  BY <1>3 DEF AgreedAt, Waits
<1>8. sent' = sent
  BY <1>6, <1>7 DEF sent
<1>9. Waits'
  BY <1>1, <1>4, <1>6, <1>7 DEF AgreedAt, Waits
<1>10. \A r : Registered(r) => Registered(r)'
  BY <1>1, <1>4, <1>6 DEF Registered, Released, Over
<1>11. Dispatch' /\ OutputsInv' /\ RegisteredInv'
  BY <1>1, <1>6, <1>8, <1>10 DEF AgreedAt, Dispatch, OutputsInv, RegisteredInv
<1>12. posted' \in Nat /\ posted <= posted' /\ posted' <= requested
  BY <1>2, <1>5 DEF AgreedAt, Sending
<1>13. Sending'
  <2>1. mirroring' \in BOOLEAN /\ (mirroring' => posted' < requested')
    <3>1. mirroring \in BOOLEAN /\ (mirroring => posted < requested)
      BY DEF AgreedAt, Sending
    <3>2. CASE UNCHANGED <<mirroring, posted>>
      BY <1>1, <3>1, <3>2
    <3>3. CASE mirroring' = FALSE
      BY <3>3
    <3> QED
      BY <1>2, <3>2, <3>3
  <2>2. \A m \in 1..emitted' : Parent(m) <= posted'
    <3> SUFFICES ASSUME NEW m \in 1..emitted PROVE Parent(m) <= posted'
      BY <1>1
    <3>1. m \in Messages /\ Parent(m) <= posted
      BY EmittedIssued DEF AgreedAt, Issued
    <3> QED
      BY <1>5, <1>12, <3>1, ScriptFacts
  <2>3. 1..requested \subseteq Requests
    BY DEF AgreedAt, Sending
  <2> QED
    BY <1>1, <1>5, <1>12, <2>1, <2>2, <2>3 DEF Sending
<1>14. Advances
  BY <1>1, <1>5, <1>6, <1>10, <1>12 DEF Advances
<1>15. Replies(n)' /\ Posts' /\ HeldInv(webview, n)'
  <2>1. n <= emitted + 1
    BY Bounds DEF AgreedAt
  <2> QED
    BY <1>1, <1>14, <2>1, RepliesStay, PostsStay, HeldStays DEF AgreedAt
<1>16. Due' \subseteq Due
  <2> SUFFICES ASSUME NEW r \in Due' PROVE r \in Due
    OBVIOUS
  <2>1. PICK m \in Messages : r = Parent(m) /\ sent' < m
                    /\ (Parent(m) <= posted' \/ (mirroring' /\ Parent(m) = posted' + 1))
    BY DEF Due
  <2>2. Parent(m) \in Nat
    BY ScriptFacts
  <2>3. Parent(m) <= posted \/ (mirroring /\ Parent(m) = posted + 1)
    BY <1>2, <1>5, <2>1, <2>2
  <2> QED
    BY <1>8, <2>1, <2>3 DEF Due
<1>17. Knows(webview.known, n, t, k, toWebview, Due')
  <2>1. Knows(webview.known, n, t, k, toWebview, Due)
    BY DEF AgreedAt
  <2> QED
    BY <1>16, <2>1, KnowsFewer
<1>18. Histories'
  BY <1>1, <1>5, HistoriesStay DEF AgreedAt
<1>19. ReceivedInv'
  <2>1. awaits' = "received" =>
          awaits = "received" /\ ~(Head(toExtension).id = Message("message", passed + 1))
    BY <1>3, <1>5 DEF AgreedAt, Waits
  <2>2. IsSequence(toExtension)
    BY DEF AgreedAt, Replies
  <2> QED
    BY <1>1, <1>6, <2>1, <2>2, ReceivedTaken DEF AgreedAt
<1>20. AgreedAt(n, t, e, b, k)'
  BY <1>1, <1>4, <1>6, <1>8, <1>9, <1>11, <1>13, <1>15, <1>17, <1>18, <1>19 DEF AgreedAt
<1> QED
  BY <1>20 DEF Agreed

\* What is handled in the webview is awaited as handled, if at all.
LEMMA HandledAwaited ==
    ASSUME Assumptions, NEW n \in Nat, NEW t \in Nat, NEW e \in Nat, NEW b \in Nat, NEW k \in Nat,
           AgreedAt(n, t, e, b, k), toExtension # <<>>, Head(toExtension).type = "handled",
           Head(toExtension).id = passed + 1
    PROVE  awaits # "received"
<1> SUFFICES ASSUME awaits = "received" PROVE FALSE
  OBVIOUS
<1>1. IsSequence(toExtension) /\ Head(toExtension) = toExtension[1]
        /\ Head(toExtension) \in ToSet(toExtension)
  <2>1. IsSequence(toExtension)
    BY DEF AgreedAt, Replies
  <2>2. Head(toExtension) = toExtension[1]
    BY <2>1, TailShifts
  <2>3. Head(toExtension) \in ToSet(toExtension)
    BY <2>1, HeadInRange DEF IsSequence
  <2> QED
    BY <2>1, <2>2, <2>3
<1>2. passed + 1 \in 1..(n - 1)
  BY <1>1 DEF AgreedAt, Replies, Reply
<1>3. /\ passed \in Nat /\ sent \in Nat /\ n <= t /\ t <= e + 1 /\ e < b
  BY Bounds, ChainNumbers DEF AgreedAt
<1>4. ~\E i \in 1..Len(toWebview) : IsPosted(toWebview, i, passed + 1)
  <2> SUFFICES ASSUME NEW i \in 1..Len(toWebview), IsPosted(toWebview, i, passed + 1) PROVE FALSE
    OBVIOUS
  <2>1. passed + 1 \in IF i < k THEN t..e ELSE b..sent
    BY DEF AgreedAt, Coming, InRange, IsPosted
  <2>2. t <= b
    BY <1>3
  <2> QED
    BY <1>2, <1>3, <2>1, <2>2
<1>5. PICK i \in 1..Len(toExtension) : ReceivedAt(toExtension, i, passed + 1)
  BY <1>4 DEF AgreedAt, ReceivedInv
<1>6. i # 1
  BY <1>1, <1>5 DEF ReceivedAt
<1>7. 1 \in 1..(i - 1)
  BY <1>6
<1> QED
  BY <1>1, <1>5, <1>7 DEF ReceivedAt

\* The awaited message is handed over.
LEMMA HandingAgrees ==
    ASSUME Assumptions, NEW n \in Nat, NEW t \in Nat, NEW e \in Nat, NEW b \in Nat, NEW k \in Nat,
           AgreedAt(n, t, e, b, k), OnHandled,
           dispatcher.full = Head(toExtension).id, awaits = "handled",
           Head(msgChain) = Head(toExtension).id
    PROVE  Agreed'
<1>1. /\ toExtension # <<>> /\ Head(toExtension).type = "handled"
      /\ toExtension' = Tail(toExtension)
      /\ UNCHANGED <<sending, emitted, hooking, toWebview, webview, restarted, captured, shown, late>>
      /\ dispatcher' = [dispatcher EXCEPT !.full = None]
      /\ awaits' = "nothing" /\ msgChain' = Tail(msgChain)
      /\ kernelChain' = Append(kernelChain, Head(msgChain))
  BY DEF OnHandled, Receive
<1>2. UNCHANGED <<requested, mirroring, posted>>
  BY <1>1 DEF sending
<1>3. /\ msgChain # <<>> /\ Kind(passed + 1) \in {"capture", "release"} /\ sent = passed + 1
  BY DEF AgreedAt, Waits, sent
<1>4. /\ emitted \in Nat /\ passed \in Nat /\ handled \in Nat /\ posted \in Nat /\ sent \in Nat
      /\ Head(msgChain) = passed + 1
  BY <1>3, ChainNumbers DEF AgreedAt, Chains, Sending
<1>5. Chains' /\ passed' = passed + 1 /\ handled' = handled /\ kernelChain' # <<>>
  BY <1>1, <1>3, HandedOver DEF AgreedAt
<1>6. sent' = sent
  BY <1>1, <1>3, <1>5 DEF sent
<1>7. /\ DispatcherFields(dispatcher') /\ dispatcher'.using = dispatcher.using
      /\ dispatcher'.full = None /\ dispatcher'.outputs = dispatcher.outputs
      /\ dispatcher'.hooks = dispatcher.hooks /\ dispatcher'.removals = dispatcher.removals
  BY <1>1 DEF AgreedAt, Dispatch, DispatcherFields
<1>8. Dispatch'
  BY <1>7 DEF AgreedAt, Dispatch
<1>9. OutputsInv'
  BY <1>6, <1>7 DEF AgreedAt, OutputsInv
<1>10. Waits'
  BY <1>1, <1>5 DEF AgreedAt, Waits
<1>11. Sending'
  BY <1>1, <1>2 DEF AgreedAt, Sending
<1>12. \A r : Registered(r) => Registered(r)'
  BY <1>1, <1>5, <1>7 DEF Registered, Released, Over
<1>13. Head(toExtension) \in ToSet(toExtension) /\ IsSequence(toExtension)
  BY <1>1, HeadInRange DEF AgreedAt, Replies, IsSequence
<1>14. RegisteredInv'
  <2> SUFFICES ASSUME NEW m \in 1..(passed + 1), Kind(m) = "capture" PROVE Registered(Parent(m))'
    BY <1>5 DEF RegisteredInv
  <2>1. CASE m \in 1..passed
    BY <1>12, <2>1 DEF AgreedAt, RegisteredInv
  <2>2. CASE m \notin 1..passed
    <3>1. m = Head(toExtension).id
      BY <1>4, <2>2
    <3>2. Registered(Parent(m))
      BY <1>1, <1>13, <3>1 DEF AgreedAt, Replies, Reply
    <3> QED
      BY <1>12, <3>2
  <2> QED
    BY <2>1, <2>2
<1>15. Advances
  BY <1>1, <1>2, <1>4, <1>5, <1>12 DEF Advances
<1>16. Replies(n)' /\ Posts' /\ HeldInv(webview, n)'
  <2>1. n <= emitted + 1
    BY Bounds DEF AgreedAt
  <2> QED
    BY <1>1, <1>15, <2>1, RepliesStay, PostsStay, HeldStays DEF AgreedAt
<1>17. Due' = Due
  BY <1>2, <1>6 DEF Due
<1>18. Asked(webview.results \cup n..(t - 1), k, toWebview, passed + 1, handled, hooking)
  <2>1. ~Captures(passed + 1) /\ None \notin Nat
    BY <1>3, ScriptFacts DEF Captures
  <2> QED
    BY <1>4, <2>1, AskedMoves DEF AgreedAt
<1>19. Histories'
  BY <1>1, <1>4, HistoriesStay DEF AgreedAt
<1>20. ReceivedInv'
  BY <1>1 DEF ReceivedInv
<1>21. AgreedAt(n, t, e, b, k)'
  BY <1>1, <1>5, <1>6, <1>8, <1>9, <1>10, <1>11, <1>14, <1>16, <1>17, <1>18, <1>19, <1>20 DEF AgreedAt
<1> QED
  BY <1>21 DEF Agreed

LEMMA OnHandledAgrees ==
    ASSUME Assumptions, NEW n \in Nat, NEW t \in Nat, NEW e \in Nat, NEW b \in Nat, NEW k \in Nat,
           AgreedAt(n, t, e, b, k), OnHandled
    PROVE  Agreed'
<1>1. CASE dispatcher.full = Head(toExtension).id /\ awaits = "handled"
             /\ Head(msgChain) = Head(toExtension).id
  BY <1>1, HandingAgrees
<1>2. ASSUME ~(dispatcher.full = Head(toExtension).id /\ awaits = "handled"
               /\ Head(msgChain) = Head(toExtension).id)
      PROVE  Agreed'
  <2>1. /\ toExtension # <<>> /\ Head(toExtension).type = "handled"
        /\ toExtension' = Tail(toExtension)
        /\ UNCHANGED <<sending, emitted, msgChain, awaits, kernelChain, hooking, toWebview, webview,
                       restarted, captured, shown, late>>
        /\ dispatcher' = IF dispatcher.full = Head(toExtension).id
                         THEN [dispatcher EXCEPT !.full = None] ELSE dispatcher
    BY <1>2 DEF OnHandled, Receive
  <2>2. UNCHANGED <<requested, mirroring, posted>>
    BY <2>1 DEF sending
  <2>3. /\ emitted \in Nat /\ passed \in Nat /\ handled \in Nat /\ posted \in Nat /\ sent \in Nat
        /\ msgChain # <<>> => Head(msgChain) = passed + 1
    BY ChainNumbers DEF AgreedAt, Chains, Sending
  <2>4. awaits # "nothing" => dispatcher' = dispatcher
    <3> SUFFICES ASSUME awaits # "nothing", dispatcher.full = Head(toExtension).id PROVE FALSE
      BY <2>1
    <3>1. msgChain # <<>> /\ dispatcher.full = passed + 1 /\ awaits \in {"received", "handled"}
      BY DEF AgreedAt, Waits
    <3>2. awaits # "handled"
      BY <1>2, <2>3, <3>1
    <3>3. awaits # "received"
      BY <2>1, <3>1, HandledAwaited
    <3> QED
      BY <3>1, <3>2, <3>3
  <2>5. /\ DispatcherFields(dispatcher') /\ dispatcher'.using = dispatcher.using
        /\ dispatcher'.full \in {None, dispatcher.full} /\ dispatcher'.outputs = dispatcher.outputs
        /\ dispatcher'.hooks = dispatcher.hooks /\ dispatcher'.removals = dispatcher.removals
    BY <2>1 DEF AgreedAt, Dispatch, DispatcherFields
  <2>6. Chains' /\ passed' = passed /\ handled' = handled
    BY <2>1, ChainsStay DEF AgreedAt
  <2>7. sent' = sent
    BY <2>1, <2>6 DEF sent
  <2>8. Dispatch'
    BY <2>5 DEF AgreedAt, Dispatch
  <2>9. OutputsInv'
    BY <2>5, <2>7 DEF AgreedAt, OutputsInv
  <2>10. Waits'
    BY <2>1, <2>4, <2>6 DEF AgreedAt, Waits
  <2>11. Sending'
    BY <2>1, <2>2 DEF AgreedAt, Sending
  <2>12. \A r : Registered(r) => Registered(r)'
    BY <2>1, <2>5, <2>6 DEF Registered, Released, Over
  <2>13. RegisteredInv'
    BY <2>6, <2>12 DEF AgreedAt, RegisteredInv
  <2>14. Advances
    BY <2>1, <2>2, <2>3, <2>6, <2>12 DEF Advances
  <2>15. Replies(n)' /\ Posts' /\ HeldInv(webview, n)'
    <3>1. n <= emitted + 1
      BY Bounds DEF AgreedAt
    <3> QED
      BY <2>1, <2>14, <3>1, RepliesStay, PostsStay, HeldStays DEF AgreedAt
  <2>16. Due' = Due
    BY <2>2, <2>7 DEF Due
  <2>17. Histories'
    BY <2>1, <2>3, HistoriesStay DEF AgreedAt
  <2>18. ReceivedInv'
    <3>1. IsSequence(toExtension)
      BY DEF AgreedAt, Replies
    <3> QED
      BY <2>1, <2>6, <3>1, ReceivedTaken DEF AgreedAt
  <2>19. AgreedAt(n, t, e, b, k)'
    BY <2>1, <2>6, <2>7, <2>8, <2>9, <2>10, <2>11, <2>13, <2>15, <2>16, <2>17, <2>18 DEF AgreedAt
  <2> QED
    BY <2>19 DEF Agreed
<1> QED
  BY <1>1, <1>2

\* An answer that the extension has done what the webview told it.
LEMMA AnswerAgrees ==
    ASSUME Assumptions, NEW n \in Nat, NEW t \in Nat, NEW e \in Nat, NEW b \in Nat, NEW k \in Nat,
           AgreedAt(n, t, e, b, k),
           toExtension # <<>>, toExtension' = Tail(toExtension),
           Head(toExtension).type \in {"register", "remove"},
           NEW x, x.type = "finished", toWebview' = Append(toWebview, Message("finished", x.id)),
           x = Message("finished", x.id),
           UNCHANGED <<sending, receiving, handling, webview, restarted, captured, shown, late>>,
           Dispatch', dispatcher'.full = dispatcher.full, dispatcher'.outputs = dispatcher.outputs,
           dispatcher.hooks \subseteq dispatcher'.hooks,
           \A r : x.id = <<r, "register">> => Issued(r) /\ r \in dispatcher'.hooks
    PROVE  Agreed'
<1>1. UNCHANGED <<requested, mirroring, posted, emitted, msgChain, awaits, kernelChain, hooking>>
  BY DEF sending, receiving, handling
<1>2. /\ emitted \in Nat /\ passed \in Nat /\ handled \in Nat /\ posted \in Nat /\ sent \in Nat
  BY ChainNumbers DEF AgreedAt, Chains, Sending
<1>3. Chains' /\ passed' = passed /\ handled' = handled
  BY <1>1, ChainsStay DEF AgreedAt
<1>4. sent' = sent
  BY <1>1, <1>3 DEF sent
<1>5. \A r : Registered(r) => Registered(r)'
  BY <1>1, <1>3 DEF Registered, Released, Over
<1>6. RegisteredInv' /\ OutputsInv'
  BY <1>3, <1>4, <1>5 DEF AgreedAt, RegisteredInv, OutputsInv
<1>7. Waits'
  BY <1>1, <1>3 DEF AgreedAt, Waits
<1>8. Sending'
  BY <1>1 DEF AgreedAt, Sending
<1>9. Advances
  BY <1>1, <1>2, <1>3, <1>5 DEF Advances
<1>10. PICK l \in Nat : l = Later(toWebview, k)
  BY DEF Later
<1>11. Queue(toWebview', l) /\ Followed(toWebview, toWebview', x)
  <2>1. PICK id : id = x.id
    OBVIOUS
  <2>2. toWebview' = Append(toWebview, Message("finished", id)) /\ x = Message("finished", id)
    BY <2>1
  <2>3. "finished" # "restart" /\ Queue(toWebview, k)
    BY DEF AgreedAt
  <2>4. Queue(toWebview', l) /\ Followed(toWebview, toWebview', Message("finished", id))
    BY <1>10, <2>2, <2>3, QueueFollowed
  <2> QED
    BY <2>2, <2>4
<1>12. Posts'
  <2>1. ASSUME NEW r, x.id = <<r, "register">> PROVE Issued(r)' /\ Registered(r)'
    BY <1>1, <2>1 DEF Issued, Registered
  <2>2. Post(x)'
    BY <2>1 DEF Post
  <2>3. toWebview' = Append(toWebview, x)
    OBVIOUS
  <2> QED
    BY <1>9, <2>2, <2>3, PostsStay DEF AgreedAt
<1>13. Replies(n)' /\ HeldInv(webview, n)'
  <2>1. n <= emitted + 1
    BY Bounds DEF AgreedAt
  <2> QED
    BY <1>9, <2>1, RepliesStay, HeldStays DEF AgreedAt
<1>14. Coming(t, e, b, l, toWebview', sent')
  BY <1>4, <1>10, <1>11, ComingFollowed DEF AgreedAt
<1>15. Due' = Due
  BY <1>1, <1>4 DEF Due
<1>16. Knows(webview.known, n, t, l, toWebview', Due')
  BY <1>10, <1>11, <1>15, KnowsFollowed DEF AgreedAt
<1>17. Asked(webview.results \cup n..(t - 1), l, toWebview', passed, handled, hooking)
  <2>1. passed # passed + 1
    BY <1>2
  <2> QED
    BY <1>2, <1>10, <1>11, <2>1, AskedFollowed DEF AgreedAt
<1>18. Histories'
  BY <1>1, <1>2, HistoriesStay DEF AgreedAt
<1>19. ReceivedInv'
  <2>1. \A i \in 1..Len(toWebview) : i \in 1..Len(toWebview') /\ toWebview'[i] = toWebview[i]
    BY <1>11 DEF Followed
  <2>2. IsSequence(toExtension)
    BY DEF AgreedAt, Replies
  <2> QED
    BY <1>1, <1>3, <2>1, <2>2, ReceivedTaken DEF AgreedAt
<1>20. ~restarted => l = Len(toWebview') + 1
  BY <1>10, <1>11 DEF AgreedAt, Later, Followed
<1>21. AgreedAt(n, t, e, b, l)'
  BY <1>1, <1>3, <1>6, <1>7, <1>8, <1>11, <1>12, <1>13, <1>14, <1>16, <1>17, <1>18, <1>19, <1>20
     DEF AgreedAt
<1> QED
  BY <1>21 DEF Agreed

LEMMA HeadReplies ==
    ASSUME NEW n, Replies(n), toExtension # <<>>
    PROVE  Reply(Head(toExtension), n) /\ IsSequence(toExtension)
<1>1. IsSequence(toExtension)
  BY DEF Replies
<1>2. Head(toExtension) \in ToSet(toExtension)
  BY <1>1, HeadInRange DEF IsSequence
<1> QED
  BY <1>1, <1>2 DEF Replies

LEMMA OnRegisterAgrees ==
    ASSUME Assumptions, NEW n \in Nat, NEW t \in Nat, NEW e \in Nat, NEW b \in Nat, NEW k \in Nat,
           AgreedAt(n, t, e, b, k), OnRegister
    PROVE  Agreed'
<1>1. PICK r : r = Head(toExtension).id
  OBVIOUS
<1>2. /\ toExtension # <<>> /\ toExtension' = Tail(toExtension) /\ Head(toExtension).type = "register"
      /\ dispatcher' = [dispatcher EXCEPT !.hooks = @ \cup {r}]
      /\ toWebview' = Append(toWebview, Message("finished", <<r, "register">>))
      /\ UNCHANGED <<sending, receiving, handling, webview, restarted, captured, shown, late>>
  BY <1>1 DEF OnRegister, Receive
<1>3. Issued(r)
  BY <1>1, <1>2, HeadReplies DEF AgreedAt, Reply
<1>4. /\ DispatcherFields(dispatcher') /\ dispatcher'.using = dispatcher.using
      /\ dispatcher'.full = dispatcher.full /\ dispatcher'.outputs = dispatcher.outputs
      /\ dispatcher'.hooks = dispatcher.hooks \cup {r} /\ dispatcher'.removals = dispatcher.removals
  BY <1>2 DEF AgreedAt, Dispatch, DispatcherFields
<1>5. Dispatch'
  BY <1>3, <1>4 DEF AgreedAt, Dispatch, Issued
<1> DEFINE x == Message("finished", <<r, "register">>)
<1>6. x.type = "finished" /\ x.id = <<r, "register">>
  BY MessageFields
<1>7. PICK y : y = x
  OBVIOUS
<1> HIDE DEF x
<1>8. /\ y.type = "finished" /\ y.id = <<r, "register">> /\ y = Message("finished", y.id)
      /\ toWebview' = Append(toWebview, Message("finished", y.id))
  BY <1>2, <1>6, <1>7 DEF x
<1>9. \A q : y.id = <<q, "register">> => Issued(q) /\ q \in dispatcher'.hooks
  BY <1>3, <1>4, <1>8
<1> QED
  BY <1>2, <1>4, <1>5, <1>8, <1>9, AnswerAgrees

LEMMA OnRemoveAgrees ==
    ASSUME Assumptions, NEW n \in Nat, NEW t \in Nat, NEW e \in Nat, NEW b \in Nat, NEW k \in Nat,
           AgreedAt(n, t, e, b, k), OnRemove
    PROVE  Agreed'
<1>1. PICK a : a = Head(toExtension).id
  OBVIOUS
<1>2. /\ toExtension # <<>> /\ toExtension' = Tail(toExtension) /\ Head(toExtension).type = "remove"
      /\ dispatcher' = IF a.last = None THEN [dispatcher EXCEPT !.hooks = @ \ {a.hook}]
                                        ELSE [dispatcher EXCEPT !.removals = @ \cup {a}]
      /\ toWebview' = Append(toWebview, Message("finished", <<a.hook, "remove">>))
      /\ UNCHANGED <<sending, receiving, handling, webview, restarted, captured, shown, late>>
  BY <1>1 DEF OnRemove, Receive
<1>3. IsRemoval(a)
  BY <1>1, <1>2, HeadReplies DEF AgreedAt, Reply
<1>4. a.last # None
  BY <1>3, ScriptFacts DEF IsRemoval
<1>5. dispatcher' = [dispatcher EXCEPT !.removals = @ \cup {a}]
  BY <1>2, <1>4
<1>6. /\ DispatcherFields(dispatcher') /\ dispatcher'.using = dispatcher.using
      /\ dispatcher'.full = dispatcher.full /\ dispatcher'.outputs = dispatcher.outputs
      /\ dispatcher'.hooks = dispatcher.hooks /\ dispatcher'.removals = dispatcher.removals \cup {a}
  BY <1>5 DEF AgreedAt, Dispatch, DispatcherFields
<1>7. Dispatch'
  BY <1>3, <1>6 DEF AgreedAt, Dispatch
<1> DEFINE x == Message("finished", <<a.hook, "remove">>)
<1>8. x.type = "finished" /\ x.id = <<a.hook, "remove">>
  BY MessageFields
<1>9. PICK y : y = x
  OBVIOUS
<1> HIDE DEF x
<1>10. /\ y.type = "finished" /\ y.id = <<a.hook, "remove">> /\ y = Message("finished", y.id)
       /\ toWebview' = Append(toWebview, Message("finished", y.id))
  BY <1>2, <1>8, <1>9 DEF x
<1>11. \A q : y.id # <<q, "register">>
  BY <1>10
<1> QED
  BY <1>2, <1>6, <1>7, <1>10, <1>11, AnswerAgrees

LEMMA OnHookResultAgrees ==
    ASSUME Assumptions, NEW n \in Nat, NEW t \in Nat, NEW e \in Nat, NEW b \in Nat, NEW k \in Nat,
           AgreedAt(n, t, e, b, k), OnHookResult
    PROVE  Agreed'
<1>1. PICK m : m = Head(toExtension).id.of
  OBVIOUS
<1>2. /\ toExtension # <<>> /\ toExtension' = Tail(toExtension) /\ Head(toExtension).type = "hookResult"
      /\ IF hooking = m
         THEN /\ hooking' = None
              /\ kernelChain' = Tail(kernelChain)
              /\ shown' = IF Kind(m) # "print" \/ Head(toExtension).id.result
                          THEN shown \cup {m} ELSE shown
         ELSE UNCHANGED <<hooking, kernelChain, shown>>
      /\ UNCHANGED <<sending, receiving, dispatcher, toWebview, webview, restarted, captured, late>>
  BY <1>1 DEF OnHookResult, Receive
<1>3. UNCHANGED <<requested, mirroring, posted, emitted, msgChain, awaits>>
  BY <1>2 DEF sending, receiving
<1>4. /\ m \in 1..passed /\ IsSequence(toExtension)
      /\ handled < m /\ Captures(m) /\ Head(toExtension).id.result => m \in late
  BY <1>1, <1>2, HeadReplies DEF AgreedAt, Reply
<1>5. /\ emitted \in Nat /\ passed \in Nat /\ handled \in Nat /\ posted \in Nat /\ sent \in Nat
      /\ passed <= emitted
  BY ChainNumbers DEF AgreedAt, Chains, Sending
<1>6. None \notin Nat
  BY ScriptFacts
<1>7. hooking # None => kernelChain # <<>> /\ hooking = handled + 1
  BY DEF AgreedAt, Waits
<1>8. PICK h \in Nat : /\ Chains' /\ passed' = passed /\ handled' = h
                       /\ \/ hooking' = hooking /\ h = handled /\ shown' = shown
                             /\ kernelChain' = kernelChain
                          \/ /\ hooking' = None /\ h = handled + 1 /\ hooking \in {None, handled + 1}
                             /\ hooking = m
  <2>1. CASE hooking = m
    <3>1. hooking # None
      BY <1>4, <1>5, <1>6, <2>1
    <3>2. Chains' /\ passed' = passed /\ handled' = handled + 1
      BY <1>2, <1>3, <1>7, <2>1, <3>1, ChainHandled DEF AgreedAt
    <3> QED
      BY <1>2, <1>5, <1>7, <2>1, <3>1, <3>2
  <2>2. CASE hooking # m
    <3>1. UNCHANGED <<hooking, kernelChain, shown>>
      BY <1>2, <2>2
    <3>2. Chains' /\ passed' = passed /\ handled' = handled
      BY <1>3, <3>1, ChainsStay DEF AgreedAt
    <3> QED
      BY <1>5, <3>1, <3>2
  <2> QED
    BY <2>1, <2>2
<1>9. sent' = sent
  BY <1>3, <1>8 DEF sent
<1>10. handled <= handled' /\ handled' \in Nat
  BY <1>5, <1>8
<1>11. \A r : Registered(r) => Registered(r)'
  <2>1. hooking' = hooking \/ hooking = None \/ hooking <= handled'
    BY <1>5, <1>8
  <2> QED
    BY <1>2, <1>10, <2>1, RegisteredStays DEF AgreedAt
<1>12. Dispatch' /\ OutputsInv' /\ RegisteredInv'
  BY <1>2, <1>8, <1>9, <1>11 DEF AgreedAt, Dispatch, OutputsInv, RegisteredInv
<1>13. Waits'
  <2>1. hooking' # None => kernelChain' # <<>> /\ hooking' = handled' + 1
    BY <1>7, <1>8
  <2> QED
    BY <1>2, <1>3, <1>8, <2>1 DEF AgreedAt, Waits
<1>14. Sending'
  BY <1>3 DEF AgreedAt, Sending
<1>15. Advances
  BY <1>2, <1>3, <1>5, <1>8, <1>10, <1>11 DEF Advances
<1>16. Replies(n)' /\ Posts' /\ HeldInv(webview, n)'
  <2>1. n <= emitted + 1
    BY Bounds DEF AgreedAt
  <2> QED
    BY <1>2, <1>15, <2>1, RepliesStay, PostsStay, HeldStays DEF AgreedAt
<1>17. Due' = Due
  BY <1>3, <1>9 DEF Due
<1>18. Asked(webview.results \cup n..(t - 1), k, toWebview, passed, h, hooking')
  <2>1. Asked(webview.results \cup n..(t - 1), k, toWebview, passed, handled, hooking)
    BY DEF AgreedAt
  <2> QED
    BY <1>5, <1>6, <1>8, <2>1, AskedMoves
<1>19. Histories'
  <2>1. shown' \subseteq shown \cup {m}
          /\ (m \in shown' => m \in shown \/ Kind(m) # "print" \/ (hooking = m /\ Head(toExtension).id.result))
    BY <1>2
  <2>2. m \in 1..emitted
    BY <1>4, <1>5
  <2>3. ASSUME m \in shown', Captures(m) PROVE m \in late \/ ReleasedBefore(m)
    <3>1. Kind(m) = "print"
      BY <2>3 DEF Captures
    <3>2. CASE m \in shown
      BY <2>3, <3>2 DEF AgreedAt, Histories
    <3>3. CASE hooking = m /\ Head(toExtension).id.result
      <4>1. handled < m
        BY <1>4, <1>5, <1>6, <1>7, <3>3
      <4> QED
        BY <1>4, <2>3, <3>3, <4>1
    <3> QED
      BY <2>1, <2>3, <3>1, <3>2, <3>3
  <2> QED
    BY <1>2, <1>3, <2>1, <2>2, <2>3 DEF AgreedAt, Histories
<1>20. ReceivedInv'
  BY <1>2, <1>3, <1>4, <1>8, ReceivedTaken DEF AgreedAt
<1>21. AgreedAt(n, t, e, b, k)'
  BY <1>2, <1>8, <1>9, <1>12, <1>13, <1>14, <1>16, <1>17, <1>18, <1>19, <1>20 DEF AgreedAt
<1> QED
  BY <1>21 DEF Agreed

-----------------------------------------------------------------------------
(* The webview takes what the extension posts *)

LEMMA WebviewStep ==
    ASSUME Assumptions, NEW n \in Nat, NEW t \in Nat, NEW e \in Nat, NEW b \in Nat, NEW k \in Nat,
           AgreedAt(n, t, e, b, k), UnchangedInExtension, late \subseteq late'
    PROVE  /\ UNCHANGED <<requested, mirroring, posted, emitted, msgChain, awaits, kernelChain,
                          hooking, dispatcher, restarted, shown>>
           /\ Chains' /\ Waits' /\ Dispatch' /\ OutputsInv' /\ RegisteredInv' /\ Sending'
           /\ passed' = passed /\ handled' = handled /\ sent' = sent /\ Due' = Due
           /\ passed \in Nat /\ handled \in Nat /\ sent \in Nat /\ emitted \in Nat
           /\ Advances
<1>1. /\ UNCHANGED <<sending, receiving, handling, dispatcher, restarted, discarded, shown>>
  BY DEF UnchangedInExtension
<1>2. UNCHANGED <<requested, mirroring, posted, emitted, msgChain, awaits, kernelChain,
                  hooking, dispatcher, restarted, shown>>
  BY <1>1 DEF sending, receiving, handling
<1>3. /\ Chains' /\ Waits' /\ Dispatch' /\ OutputsInv' /\ RegisteredInv'
      /\ passed' = passed /\ handled' = handled /\ sent' = sent
      /\ \A r : Registered(r) => Registered(r)'
  BY <1>1, ExtensionStays DEF AgreedAt
<1>4. Sending'
  BY <1>2 DEF AgreedAt, Sending
<1>5. passed \in Nat /\ handled \in Nat /\ sent \in Nat /\ emitted \in Nat /\ posted \in Nat
  BY ChainNumbers DEF AgreedAt, Chains, Sending
<1>6. Due' = Due
  BY <1>2, <1>3 DEF Due
<1>7. Advances
  BY <1>2, <1>3, <1>5 DEF Advances
<1> QED
  BY <1>2, <1>3, <1>4, <1>5, <1>6, <1>7

\* The webview takes the head of what is posted to it, if that is not the restart.
LEMMA DeliverShifts ==
    ASSUME NEW n \in Nat, NEW t \in Nat, NEW e \in Nat, NEW b \in Nat, NEW k \in Nat,
           AgreedAt(n, t, e, b, k), NEW type, Deliver(type), type # "restart"
    PROVE  /\ k - 1 \in Nat /\ Queue(toWebview', k - 1) /\ Shifted(toWebview, toWebview')
           /\ toWebview # <<>> /\ toWebview' = Tail(toWebview)
           /\ toWebview[1] = Head(toWebview) /\ toWebview[1].type = type
           /\ Head(toWebview) = Message(type, Head(toWebview).id)
           /\ Post(Head(toWebview))
           /\ ~restarted => k - 1 = Len(toWebview') + 1
<1>1. toWebview # <<>> /\ Head(toWebview).type = type /\ toWebview' = Tail(toWebview)
  BY DEF Deliver
<1>2. Queue(toWebview, k) /\ IsSequence(toWebview)
  BY DEF AgreedAt, Queue
<1>3. /\ Queue(Tail(toWebview), k - 1) /\ Shifted(toWebview, Tail(toWebview))
      /\ toWebview[1] = Head(toWebview) /\ k # 1
      /\ Head(toWebview) = Message(Head(toWebview).type, Head(toWebview).id)
  BY <1>1, <1>2, QueueShifted
<1>4. Head(toWebview) \in ToSet(toWebview)
  BY <1>1, <1>2, HeadInRange DEF IsSequence
<1>5. Post(Head(toWebview))
  BY <1>4 DEF AgreedAt, Posts
<1>6. k - 1 \in Nat
  BY <1>2, <1>3 DEF Queue
<1>7. ~restarted => k - 1 = Len(toWebview') + 1
  BY <1>1, <1>3 DEF AgreedAt, Shifted
<1> QED
  BY <1>1, <1>3, <1>5, <1>6, <1>7

LEMMA RepliesAppended ==
    ASSUME Assumptions, Chains, Sending, Advances, NEW n \in Nat, NEW o \in Nat, n <= o,
           n <= emitted + 1, Replies(n), NEW x, Reply(x, o)', toExtension' = Append(toExtension, x)
    PROVE  Replies(o)'
<1>1. \A y \in ToSet(toExtension) : Reply(y, o)'
  BY ReplyStays DEF Replies
<1>2. IsSequence(toExtension') /\ ToSet(toExtension') = ToSet(toExtension) \cup {x}
  BY AppendElements DEF Replies
<1> QED
  BY <1>1, <1>2 DEF Replies

\* A message whose receipt is on its way stays so.
LEMMA ReceivedOnWay ==
    ASSUME NEW X, NEW Y, Len(X) \in Nat, Len(Y) \in Nat, Len(X) <= Len(Y),
           \A i \in 1..Len(X) : Y[i] = X[i], NEW m, NEW i \in 1..Len(X), ReceivedAt(X, i, m)
    PROVE  i \in 1..Len(Y) /\ ReceivedAt(Y, i, m)
<1>1. i \in 1..Len(Y) /\ \A j \in 1..(i - 1) : j \in 1..Len(X)
  OBVIOUS
<1> QED
  BY <1>1 DEF ReceivedAt

LEMMA ReceivedDelivered ==
    ASSUME ReceivedInv, awaits' = awaits, passed' = passed, Shifted(toWebview, toWebview'),
           awaits = "received" => ~IsPosted(toWebview, 1, passed + 1),
           IsSequence(toExtension), Len(toExtension') \in Nat, Len(toExtension) <= Len(toExtension'),
           \A i \in 1..Len(toExtension) : toExtension'[i] = toExtension[i]
    PROVE  ReceivedInv'
<1> SUFFICES ASSUME awaits = "received"
             PROVE  \/ \E i \in 1..Len(toWebview') : IsPosted(toWebview', i, passed + 1)
                    \/ \E i \in 1..Len(toExtension') : ReceivedAt(toExtension', i, passed + 1)
  BY DEF ReceivedInv
<1>1. PICK m : m = passed + 1
  OBVIOUS
<1>2. CASE \E i \in 1..Len(toWebview) : IsPosted(toWebview, i, m)
  <2>1. PICK i \in 1..Len(toWebview) : IsPosted(toWebview, i, m)
    BY <1>2
  <2>2. i # 1
    BY <1>1, <2>1
  <2>3. i - 1 \in 1..Len(toWebview') /\ toWebview'[i - 1] = toWebview[i]
    BY <2>2 DEF Shifted
  <2> QED
    BY <1>1, <2>1, <2>3 DEF IsPosted
<1>3. CASE \E i \in 1..Len(toExtension) : ReceivedAt(toExtension, i, m)
  <2>1. PICK i \in 1..Len(toExtension) : ReceivedAt(toExtension, i, m)
    BY <1>3
  <2>2. Len(toExtension) \in Nat
    BY LenProperties DEF IsSequence
  <2>3. i \in 1..Len(toExtension') /\ ReceivedAt(toExtension', i, m)
    BY <2>1, <2>2, ReceivedOnWay
  <2> QED
    BY <1>1, <2>3
<1> QED
  BY <1>1, <1>2, <1>3 DEF ReceivedInv

LEMMA DeliverMirrorAgrees ==
    ASSUME Assumptions, NEW n \in Nat, NEW t \in Nat, NEW e \in Nat, NEW b \in Nat, NEW k \in Nat,
           AgreedAt(n, t, e, b, k), DeliverMirror
    PROVE  Agreed'
<1>1. /\ Deliver("mirror") /\ UnchangedInExtension /\ UNCHANGED <<captured, late>>
      /\ webview' = [webview EXCEPT !.known = @ \cup {Head(toWebview).id}]
      /\ toExtension' = Append(toExtension, Message("received", Head(toWebview)))
  BY DEF DeliverMirror
<1>2. /\ UNCHANGED <<requested, mirroring, posted, emitted, msgChain, awaits, kernelChain,
                     hooking, dispatcher, restarted, shown>>
      /\ Chains' /\ Waits' /\ Dispatch' /\ OutputsInv' /\ RegisteredInv' /\ Sending'
      /\ passed' = passed /\ handled' = handled /\ sent' = sent /\ Due' = Due
      /\ passed \in Nat /\ handled \in Nat /\ sent \in Nat /\ emitted \in Nat
      /\ Advances
  BY <1>1, WebviewStep
<1>3. /\ k - 1 \in Nat /\ Queue(toWebview', k - 1) /\ Shifted(toWebview, toWebview')
      /\ toWebview # <<>> /\ toWebview' = Tail(toWebview)
      /\ toWebview[1] = Head(toWebview) /\ toWebview[1].type = "mirror"
      /\ Post(Head(toWebview))
      /\ ~restarted => k - 1 = Len(toWebview') + 1
  BY <1>1, DeliverShifts
<1>4. /\ WebviewFields(webview') /\ webview'.known = webview.known \cup {Head(toWebview).id}
      /\ webview'.chain = webview.chain /\ webview'.creating = webview.creating
      /\ webview'.hooks = webview.hooks /\ webview'.results = webview.results
      /\ webview'.lastHooked = webview.lastHooked /\ webview'.held = webview.held
  BY <1>1 DEF AgreedAt, View, WebviewFields
<1>5. Head(toWebview).id \in Requests
  BY <1>3 DEF Post
<1>6. View(webview', n, t)
  BY <1>4, <1>5 DEF AgreedAt, View
<1>7. n <= emitted + 1
  BY Bounds DEF AgreedAt
<1>8. HeldInv(webview, n)'
  <2>1. PICK v : v = webview'
    OBVIOUS
  <2>2. PICK w : w = webview
    OBVIOUS
  <2>3. HeldInv(w, n) /\ v.held = w.held
    BY <1>4, <2>1, <2>2 DEF AgreedAt
  <2>4. HeldInv(v, n)'
    BY <1>2, <1>7, <2>3, HeldStays DEF AgreedAt
  <2> QED
    BY <2>1, <2>4 DEF HeldInv
<1> DEFINE x == Message("received", Head(toWebview))
<1>9. x.type = "received" /\ x.id = Head(toWebview)
  BY MessageFields
<1>10. PICK y : y = x
  OBVIOUS
<1> HIDE DEF x
<1>11. Replies(n)'
  <2>1. Reply(y, n)'
    BY <1>9, <1>10 DEF Reply
  <2> QED
    BY <1>1, <1>2, <1>7, <1>10, <2>1, RepliesAppended DEF AgreedAt, x
<1>12. Posts'
  BY <1>2, <1>3, PostsStay DEF AgreedAt
<1>13. Coming(t, e, b, k - 1, toWebview', sent')
  BY <1>2, <1>3, ComingShifted DEF AgreedAt
<1>14. Knows(webview'.known, n, t, k - 1, toWebview', Due')
  BY <1>2, <1>3, <1>4, KnowsShifted DEF AgreedAt
<1>15. Asked(webview'.results \cup n..(t - 1), k - 1, toWebview', passed, handled, hooking)
  BY <1>2, <1>3, <1>4, AskedShifted DEF AgreedAt
<1>16. Histories'
  BY <1>1, <1>2, HistoriesStay DEF AgreedAt
<1>17. ReceivedInv'
  <2>1. IsSequence(toExtension)
    BY DEF AgreedAt, Replies
  <2>2. Followed(toExtension, toExtension', x)
    BY <1>1, <2>1, AppendFollows DEF x
  <2>3. ~IsPosted(toWebview, 1, passed + 1)
    BY <1>3 DEF IsPosted
  <2>4. /\ Len(toExtension') \in Nat /\ Len(toExtension) <= Len(toExtension')
        /\ \A i \in 1..Len(toExtension) : toExtension'[i] = toExtension[i]
    BY <2>2 DEF Followed
  <2> QED
    BY <1>2, <1>3, <2>1, <2>3, <2>4, ReceivedDelivered DEF AgreedAt
<1>18. AgreedAt(n, t, e, b, k - 1)'
  BY <1>1, <1>2, <1>3, <1>6, <1>8, <1>11, <1>12, <1>13, <1>14, <1>15, <1>16, <1>17 DEF AgreedAt
<1> QED
  BY <1>3, <1>18 DEF Agreed

LEMMA DeliverMessageAgrees ==
    ASSUME Assumptions, NEW n \in Nat, NEW t \in Nat, NEW e \in Nat, NEW b \in Nat, NEW k \in Nat,
           AgreedAt(n, t, e, b, k), DeliverMessage
    PROVE  Agreed'
<1>1. /\ Deliver("message") /\ UnchangedInExtension /\ UNCHANGED <<captured, late>>
      /\ webview' = [webview EXCEPT !.chain = Append(@, Head(toWebview).id)]
      /\ toExtension' = Append(toExtension, Message("received", Head(toWebview)))
  BY DEF DeliverMessage
<1>2. /\ UNCHANGED <<requested, mirroring, posted, emitted, msgChain, awaits, kernelChain,
                     hooking, dispatcher, restarted, shown>>
      /\ Chains' /\ Waits' /\ Dispatch' /\ OutputsInv' /\ RegisteredInv' /\ Sending'
      /\ passed' = passed /\ handled' = handled /\ sent' = sent /\ Due' = Due
      /\ passed \in Nat /\ handled \in Nat /\ sent \in Nat /\ emitted \in Nat
      /\ Advances
  BY <1>1, WebviewStep
<1>3. /\ k - 1 \in Nat /\ Queue(toWebview', k - 1) /\ Shifted(toWebview, toWebview')
      /\ toWebview # <<>> /\ toWebview' = Tail(toWebview)
      /\ toWebview[1] = Head(toWebview) /\ toWebview[1].type = "message"
      /\ Head(toWebview) = Message("message", Head(toWebview).id)
      /\ ~restarted => k - 1 = Len(toWebview') + 1
  BY <1>1, DeliverShifts
<1>4. Head(toWebview).id = t /\ t <= e /\ Coming(t + 1, e, b, k - 1, toWebview', sent)
  BY <1>3, ComingTaken DEF AgreedAt
<1>5. /\ WebviewFields(webview') /\ webview'.known = webview.known
      /\ webview'.chain = Append(webview.chain, t) /\ webview'.creating = webview.creating
      /\ webview'.hooks = webview.hooks /\ webview'.results = webview.results
      /\ webview'.lastHooked = webview.lastHooked /\ webview'.held = webview.held
  BY <1>1, <1>4 DEF AgreedAt, View, WebviewFields
<1>6. /\ n <= emitted + 1 /\ n <= t /\ Len(webview.chain) \in Nat /\ t = n + Len(webview.chain)
  BY Bounds DEF AgreedAt
<1>7. View(webview', n, t + 1)
  <2>1. webview.chain \in Seq(Nat) /\ IsSequence(webview.chain)
    BY NatSequence DEF AgreedAt, View
  <2>2. webview'.chain \in Seq(Nat) /\ Followed(webview.chain, webview'.chain, t)
    BY <1>5, <2>1, AppendFollows
  <2>3. Len(webview'.chain) # 0 /\ t + 1 = n + Len(webview'.chain)
    BY <1>6, <2>2 DEF Followed
  <2>4. webview'.chain # <<>>
    BY <2>2, <2>3, EmptySeq
  <2>5. \A i \in 1..Len(webview'.chain) : webview'.chain[i] = n + i - 1
    <3>1. \A i \in 1..Len(webview.chain) : webview'.chain[i] = n + i - 1
      BY <2>2 DEF AgreedAt, View, Followed
    <3>2. webview'.chain[Len(webview.chain) + 1] = n + (Len(webview.chain) + 1) - 1
      BY <1>6, <2>2 DEF Followed
    <3>3. Len(webview'.chain) = Len(webview.chain) + 1
      BY <2>2 DEF Followed
    <3>4. SUFFICES ASSUME NEW i \in 1..Len(webview'.chain) PROVE webview'.chain[i] = n + i - 1
      OBVIOUS
    <3>5. i \in 1..Len(webview.chain) \/ i = Len(webview.chain) + 1
      BY <1>6, <3>3
    <3> QED
      BY <3>1, <3>2, <3>5
  <2>6. webview.creating => Kind(n) \in {"open", "create"}
    BY DEF AgreedAt, View
  <2>7. /\ IsSequence(webview.held) /\ IsSequence(webview.lastHooked) /\ 1 <= n
        /\ HooksAt(n, webview.hooks) /\ webview.known \subseteq Requests
        /\ webview.hooks \subseteq Requests
    BY DEF AgreedAt, View
  <2>8. webview'.creating => webview'.chain # <<>> /\ Kind(n) \in {"open", "create"}
    BY <1>5, <2>4, <2>6
  <2>9. t + 1 \in Nat
    OBVIOUS
  <2> QED
    BY <1>5, <2>2, <2>3, <2>5, <2>7, <2>8, <2>9 DEF View
<1>8. HeldInv(webview, n)'
  <2>1. PICK v : v = webview'
    OBVIOUS
  <2>2. PICK w : w = webview
    OBVIOUS
  <2>3. HeldInv(w, n) /\ v.held = w.held
    BY <1>5, <2>1, <2>2 DEF AgreedAt
  <2>4. HeldInv(v, n)'
    BY <1>2, <1>6, <2>3, HeldStays DEF AgreedAt
  <2> QED
    BY <2>1, <2>4 DEF HeldInv
<1> DEFINE x == Message("received", Head(toWebview))
<1>9. x.type = "received" /\ x.id = Message("message", t)
  BY <1>3, <1>4, MessageFields
<1>10. PICK y : y = x
  OBVIOUS
<1> HIDE DEF x
<1>11. Replies(n)'
  <2>1. Reply(y, n)'
    BY <1>9, <1>10 DEF Reply
  <2> QED
    BY <1>1, <1>2, <1>6, <1>10, <2>1, RepliesAppended DEF AgreedAt, x
<1>12. Posts'
  BY <1>2, <1>3, PostsStay DEF AgreedAt
<1>13. Knows(webview'.known, n, t + 1, k - 1, toWebview', Due')
  <2>1. t + 1 \in Nat /\ t + 1 = IF toWebview[1].type = "message" THEN t + 1 ELSE t
    BY <1>3
  <2>2. /\ toWebview[1].type = "message" => toWebview[1].id = t
        /\ toWebview[1].type # "mirror" /\ toWebview[1].type # "restart"
    BY <1>3, <1>4
  <2>3. Knows(webview.known, n, t, k, toWebview, Due) /\ Queue(toWebview, k)
    BY DEF AgreedAt
  <2>4. Knows(webview.known, n, t + 1, k - 1, toWebview', Due)
    BY <1>3, <2>1, <2>2, <2>3, KnowsShifted
  <2> QED
    BY <1>2, <1>5, <2>4
<1>14. Asked(webview'.results \cup n..((t + 1) - 1), k - 1, toWebview', passed, handled, hooking)
  <2>1. \A m \in webview.results \cup n..(t - 1) : m \in webview'.results \cup n..((t + 1) - 1)
    BY <1>5
  <2>2. t \in n..((t + 1) - 1)
    BY <1>6
  <2> QED
    BY <1>2, <1>3, <1>4, <2>1, <2>2, AskedShifted DEF AgreedAt
<1>15. Histories'
  BY <1>1, <1>2, HistoriesStay DEF AgreedAt
<1>16. ReceivedInv'
  <2>1. IsSequence(toExtension)
    BY DEF AgreedAt, Replies
  <2>2. Followed(toExtension, toExtension', x)
    BY <1>1, <2>1, AppendFollows DEF x
  <2>3. /\ Len(toExtension') \in Nat /\ Len(toExtension) <= Len(toExtension')
        /\ \A i \in 1..Len(toExtension) : toExtension'[i] = toExtension[i]
    BY <2>2 DEF Followed
  <2>4. CASE t # passed + 1
    <3>1. ~IsPosted(toWebview, 1, passed + 1)
      BY <1>3, <1>4, <2>4 DEF IsPosted
    <3> QED
      BY <1>2, <1>3, <2>1, <2>3, <3>1, ReceivedDelivered DEF AgreedAt
  <2>5. CASE t = passed + 1
    <3>1. \A j \in 1..Len(toExtension) : ~(toExtension[j].type = "handled" /\ toExtension[j].id = t)
      <4> SUFFICES ASSUME NEW j \in 1..Len(toExtension), toExtension[j].type = "handled",
                          toExtension[j].id = t
                   PROVE  FALSE
        OBVIOUS
      <4>1. toExtension[j] \in ToSet(toExtension)
        BY <2>1, ElementOfSeq DEF IsSequence
      <4>2. t \in 1..(n - 1)
        BY <4>1 DEF AgreedAt, Replies, Reply
      <4> QED
        BY <1>6, <4>2
    <3>2. Len(toExtension) + 1 \in 1..Len(toExtension') /\ toExtension'[Len(toExtension) + 1] = x
          /\ (Len(toExtension) + 1) - 1 = Len(toExtension)
      BY <2>2 DEF Followed
    <3>3. ReceivedAt(toExtension', Len(toExtension) + 1, t)
      BY <1>9, <2>3, <3>1, <3>2 DEF ReceivedAt
    <3> QED
      BY <1>2, <2>5, <3>2, <3>3 DEF ReceivedInv
  <2> QED
    BY <2>4, <2>5
<1>17. AgreedAt(n, t + 1, e, b, k - 1)'
  BY <1>1, <1>2, <1>3, <1>4, <1>7, <1>8, <1>11, <1>12, <1>13, <1>14, <1>15, <1>16 DEF AgreedAt
<1>18. t + 1 \in Nat /\ k - 1 \in Nat
  BY <1>3
<1> QED
  BY <1>17, <1>18 DEF Agreed

LEMMA DeliverHookCallAgrees ==
    ASSUME Assumptions, NEW n \in Nat, NEW t \in Nat, NEW e \in Nat, NEW b \in Nat, NEW k \in Nat,
           AgreedAt(n, t, e, b, k), DeliverHookCall
    PROVE  Agreed'
<1>1. PICK m : m = Head(toWebview).id
  OBVIOUS
<1>2. /\ Deliver("hookCall") /\ UnchangedInExtension /\ UNCHANGED captured
      /\ webview' = [webview EXCEPT !.results = @ \ {m}]
      /\ toExtension' = Append(toExtension,
                          Message("hookResult", [of |-> m, result |-> m \notin webview.results]))
      /\ late' = IF m \in ToSet(webview.chain) THEN late \cup {m} ELSE late
  BY <1>1 DEF DeliverHookCall
<1>3. /\ UNCHANGED <<requested, mirroring, posted, emitted, msgChain, awaits, kernelChain,
                     hooking, dispatcher, restarted, shown>>
      /\ Chains' /\ Waits' /\ Dispatch' /\ OutputsInv' /\ RegisteredInv' /\ Sending'
      /\ passed' = passed /\ handled' = handled /\ sent' = sent /\ Due' = Due
      /\ passed \in Nat /\ handled \in Nat /\ sent \in Nat /\ emitted \in Nat
      /\ Advances
  <2>1. late \subseteq late'
    BY <1>2
  <2> QED
    BY <1>2, <2>1, WebviewStep
<1>4. /\ k - 1 \in Nat /\ Queue(toWebview', k - 1) /\ Shifted(toWebview, toWebview')
      /\ toWebview # <<>> /\ toWebview' = Tail(toWebview)
      /\ toWebview[1] = Head(toWebview) /\ toWebview[1].type = "hookCall"
      /\ ~restarted => k - 1 = Len(toWebview') + 1
  BY <1>2, DeliverShifts
<1>5. /\ WebviewFields(webview') /\ webview'.known = webview.known
      /\ webview'.chain = webview.chain /\ webview'.creating = webview.creating
      /\ webview'.hooks = webview.hooks /\ webview'.results = webview.results \ {m}
      /\ webview'.lastHooked = webview.lastHooked /\ webview'.held = webview.held
  BY <1>2 DEF AgreedAt, View, WebviewFields
<1>6. View(webview', n, t)
  BY <1>5 DEF AgreedAt, View
<1>7. n <= emitted + 1 /\ n <= t /\ Len(webview.chain) \in Nat /\ t = n + Len(webview.chain)
  BY Bounds DEF AgreedAt
<1>8. HeldInv(webview, n)'
  <2>1. PICK v : v = webview'
    OBVIOUS
  <2>2. PICK w : w = webview
    OBVIOUS
  <2>3. HeldInv(w, n) /\ v.held = w.held
    BY <1>5, <2>1, <2>2 DEF AgreedAt
  <2>4. HeldInv(v, n)'
    BY <1>3, <1>7, <2>3, HeldStays DEF AgreedAt
  <2> QED
    BY <2>1, <2>4 DEF HeldInv
<1>9. 1 \in 1..Len(toWebview) /\ k \in 1..(Len(toWebview) + 1)
  BY <1>4 DEF AgreedAt, Queue, Shifted
<1>10. m \in 1..passed
  BY <1>1, <1>4, <1>9 DEF AgreedAt, Asked
<1>11. handled < m /\ Captures(m) /\ m \notin webview.results => m \in ToSet(webview.chain)
  <2> SUFFICES ASSUME handled < m, Captures(m), m \notin webview.results
               PROVE  m \in ToSet(webview.chain)
    OBVIOUS
  <2>1. Before("message", m, 1, webview.results \cup n..(t - 1), toWebview, k)
    BY <1>1, <1>4, <1>9 DEF AgreedAt, Asked
  <2>2. m \in n..(t - 1)
    BY <2>1 DEF Before
  <2>3. (m - n) + 1 \in 1..Len(webview.chain) /\ n + ((m - n) + 1) - 1 = m
    BY <1>7, <2>2
  <2>4. webview.chain[(m - n) + 1] = m
    BY <2>3 DEF AgreedAt, View
  <2>5. webview.chain \in Seq(Nat) /\ DOMAIN webview.chain = 1..Len(webview.chain)
    BY LenProperties DEF AgreedAt, View
  <2> QED
    BY <2>3, <2>4, <2>5 DEF ToSet
<1> DEFINE a == [of |-> m, result |-> m \notin webview.results]
           x == Message("hookResult", a)
<1>12. a.of = m /\ a.result = (m \notin webview.results)
  OBVIOUS
<1> HIDE DEF a
<1>13. x.type = "hookResult" /\ x.id = a
  BY MessageFields
<1>14. PICK y : y = x
  OBVIOUS
<1> HIDE DEF x
<1>15. Replies(n)'
  <2>1. handled < m /\ Captures(m) /\ y.id.result => m \in late'
    BY <1>2, <1>11, <1>12, <1>13, <1>14
  <2>2. Reply(y, n)'
    BY <1>3, <1>10, <1>12, <1>13, <1>14, <2>1 DEF Reply
  <2>3. toExtension' = Append(toExtension, y)
    BY <1>2, <1>14 DEF a, x
  <2> QED
    BY <1>3, <1>7, <2>2, <2>3, RepliesAppended DEF AgreedAt
<1>16. Posts'
  BY <1>3, <1>4, PostsStay DEF AgreedAt
<1>17. Coming(t, e, b, k - 1, toWebview', sent')
  BY <1>3, <1>4, ComingShifted DEF AgreedAt
<1>18. Knows(webview'.known, n, t, k - 1, toWebview', Due')
  BY <1>3, <1>4, <1>5, KnowsShifted DEF AgreedAt
<1>19. Asked(webview'.results \cup n..(t - 1), k - 1, toWebview', passed, handled, hooking)
  <2>1. \A i \in webview.results \cup n..(t - 1) :
            i \in webview'.results \cup n..(t - 1) \/ Asks(toWebview, 1, i)
    BY <1>1, <1>4, <1>5 DEF Asks
  <2> QED
    BY <1>3, <1>4, <2>1, AskedShifted DEF AgreedAt
<1>20. Histories'
  <2>1. m \in 1..emitted
    BY <1>3, <1>10, ChainNumbers DEF AgreedAt
  <2> QED
    BY <1>2, <1>3, <2>1 DEF AgreedAt, Histories
<1>21. ReceivedInv'
  <2>1. IsSequence(toExtension)
    BY DEF AgreedAt, Replies
  <2>2. Followed(toExtension, toExtension', x)
    BY <1>2, <2>1, AppendFollows DEF a, x
  <2>3. ~IsPosted(toWebview, 1, passed + 1)
    BY <1>4 DEF IsPosted
  <2>4. /\ Len(toExtension') \in Nat /\ Len(toExtension) <= Len(toExtension')
        /\ \A i \in 1..Len(toExtension) : toExtension'[i] = toExtension[i]
    BY <2>2 DEF Followed
  <2> QED
    BY <1>3, <1>4, <2>1, <2>3, <2>4, ReceivedDelivered DEF AgreedAt
<1>22. AgreedAt(n, t, e, b, k - 1)'
  BY <1>2, <1>3, <1>4, <1>6, <1>8, <1>15, <1>16, <1>17, <1>18, <1>19, <1>20, <1>21 DEF AgreedAt
<1> QED
  BY <1>4, <1>22 DEF Agreed

LEMMA DeliverRestartAgrees ==
    ASSUME Assumptions, NEW n \in Nat, NEW t \in Nat, NEW e \in Nat, NEW b \in Nat, NEW k \in Nat,
           AgreedAt(n, t, e, b, k), DeliverRestart
    PROVE  Agreed'
<1>1. /\ UnchangedInExtension /\ UNCHANGED <<toExtension, captured, late>>
      /\ webview' = NewWebview
      /\ toWebview # <<>> /\ Head(toWebview).type = "restart" /\ toWebview' = Tail(toWebview)
  BY DEF DeliverRestart, Deliver
<1>2. /\ UNCHANGED <<requested, mirroring, posted, emitted, msgChain, awaits, kernelChain,
                     hooking, dispatcher, restarted, shown>>
      /\ Chains' /\ Waits' /\ Dispatch' /\ OutputsInv' /\ RegisteredInv' /\ Sending'
      /\ passed' = passed /\ handled' = handled /\ sent' = sent /\ Due' = Due
      /\ passed \in Nat /\ handled \in Nat /\ sent \in Nat /\ emitted \in Nat
      /\ Advances
  BY <1>1, WebviewStep
<1>3. /\ Queue(toWebview', Len(toWebview)) /\ Shifted(toWebview, toWebview')
      /\ toWebview[1] = Head(toWebview) /\ k = 1 /\ Queue(toWebview, 1)
  BY <1>1, QueueRestarts DEF AgreedAt
<1>4. PICK l \in Nat : l = Len(toWebview)
  BY <1>3 DEF Queue
<1>5. PICK s \in Nat : s = sent
  BY <1>2
<1>6. t <= b /\ Cut(b) /\ Coming(b, s, s + 1, l, toWebview', sent')
  <2>1. Coming(t, e, b, 1, toWebview, s)
    BY <1>3, <1>5 DEF AgreedAt
  <2>2. toWebview[1].type = "restart"
    BY <1>1, <1>3
  <2>3. t <= b /\ Cut(b) /\ Coming(b, s, s + 1, Len(toWebview), toWebview', s)
    BY <1>3, <2>1, <2>2, ComingRestarted
  <2> QED
    BY <1>2, <1>4, <1>5, <2>3
<1>7. n <= emitted + 1 /\ n <= t /\ 1 <= n /\ n <= b
  <2>1. n <= emitted + 1 /\ n <= t /\ 1 <= n
    BY Bounds DEF AgreedAt
  <2> QED
    BY <1>6, <2>1
<1>8. View(webview', b, b)
  <2>1. ASSUME NEW m \in Messages, b <= m PROVE ~CapturingAt(Parent(m), b)
    <3> SUFFICES ASSUME NEW c \in Messages, c < b, Parent(c) = Parent(m) PROVE FALSE
      BY DEF CapturingAt
    <3>1. Parent(c) < Parent(m)
      BY <1>6, <2>1 DEF Cut
    <3>2. Parent(m) \in Nat
      BY ScriptFacts
    <3> QED
      BY <3>1, <3>2
  <2>2. HooksAt(b, {})
    BY <2>1 DEF HooksAt
  <2>3. /\ webview' = [known |-> {}, chain |-> <<>>, creating |-> FALSE, hooks |-> {},
                       results |-> {}, lastHooked |-> <<>>, awaiting |-> {}, held |-> <<>>]
    BY <1>1 DEF NewWebview
  <2>4. 1 <= b /\ b = b + Len(<<>>)
    BY <1>7
  <2>5. IsSequence(<<>>)
    BY DEF IsSequence, ToSet
  <2> QED
    BY <2>2, <2>3, <2>4, <2>5 DEF View, WebviewFields
<1>9. HeldInv(webview, b)'
  BY <1>1 DEF HeldInv, NewWebview, ToSet
<1>10. Replies(b)'
  BY <1>1, <1>2, <1>7, RepliesStay DEF AgreedAt
<1>11. Posts'
  BY <1>1, <1>2, PostsStay DEF AgreedAt
<1>12. webview'.known = {} /\ webview'.results = {}
  BY <1>1 DEF NewWebview
<1>13. Knows(webview'.known, b, b, l, toWebview', Due')
  <2>1. Knows({}, b, b, l, toWebview', Due)
    BY <1>1, <1>3, <1>4, KnowsRestarted DEF AgreedAt
  <2> QED
    BY <1>2, <1>12, <2>1
<1>14. Asked(webview'.results \cup b..(b - 1), l, toWebview', passed, handled, hooking)
  BY <1>1, <1>2, <1>3, <1>4, AskedRestarted DEF AgreedAt
<1>15. Histories'
  BY <1>1, <1>2, HistoriesStay DEF AgreedAt
<1>16. ReceivedInv'
  <2>1. IsSequence(toExtension)
    BY DEF AgreedAt, Replies
  <2>2. ~IsPosted(toWebview, 1, passed + 1)
    BY <1>1, <1>3 DEF IsPosted
  <2>3. Len(toExtension') \in Nat /\ Len(toExtension) <= Len(toExtension')
    BY <1>1, <2>1, LenProperties DEF IsSequence
  <2> QED
    BY <1>1, <1>2, <1>3, <2>1, <2>2, <2>3, ReceivedDelivered DEF AgreedAt
<1>17. l = Len(toWebview') + 1
  BY <1>3, <1>4 DEF Shifted
<1>18. s + 1 \in Nat
  OBVIOUS
<1>19. AgreedAt(b, b, s, s + 1, l)'
  BY <1>1, <1>2, <1>3, <1>4, <1>6, <1>8, <1>9, <1>10, <1>11, <1>13, <1>14, <1>15, <1>16, <1>17 DEF AgreedAt
<1> QED
  BY <1>18, <1>19 DEF Agreed

-----------------------------------------------------------------------------
(* Messages held back are reported as handled *)

\* In a finite set of numbers there is one with k - 1 others below it.
LEMMA Ranked ==
    ASSUME NEW P, P \subseteq Nat, IsFiniteSet(P), NEW k \in 1..Cardinality(P)
    PROVE  \E i \in P : Cardinality({j \in P : j < i}) = k - 1
<1> DEFINE Below(i) == {j \in P : j < i}
           K == {q \in 1..Cardinality(P) : ~\E i \in P : Cardinality(Below(i)) = q - 1}
<1>1. Cardinality(P) \in Nat
  BY FS_CardinalityType
<1>2. ASSUME K # {} PROVE FALSE
  <2>1. K \subseteq Nat
    OBVIOUS
  <2>2. PICK q \in K : \A x \in K : q <= x
    BY <1>2, <2>1, LeastNatural
  <2>3. q \in 1..Cardinality(P) /\ ~\E i \in P : Cardinality(Below(i)) = q - 1
    BY <2>2
  <2>4. CASE q = 1
    <3>1. P # {}
      BY <1>1, <2>3, FS_EmptySet
    <3>2. PICK i \in P : \A j \in P : i <= j
      BY <3>1, LeastNatural
    <3>3. Below(i) = {}
      <4>1. \A j \in P : i \in Nat /\ j \in Nat /\ i <= j
        BY <3>2
      <4>2. \A j \in P : ~(j < i)
        BY <4>1
      <4> QED
        BY <4>2
    <3>4. Cardinality({}) = 0
      BY FS_EmptySet
    <3>5. Cardinality(Below(i)) = q - 1
      <4> HIDE DEF Below
      <4> QED
        BY <2>4, <3>3, <3>4
    <3> QED
      BY <2>3, <3>2, <3>5
  <2>5. CASE q # 1
    <3>1. q - 1 \in 1..Cardinality(P) /\ ~(q <= q - 1) /\ (q - 1) + 1 = q
      BY <1>1, <2>3, <2>5
    <3>2. q - 1 \notin K
      BY <2>2, <3>1
    <3>3. PICK i \in P : Cardinality(Below(i)) = (q - 1) - 1
      BY <3>1, <3>2
    <3>4. IsFiniteSet(Below(i)) /\ i \notin Below(i)
      BY FS_Subset
    <3> DEFINE B == Below(i)
    <3> HIDE DEF B
    <3>5. IsFiniteSet(B \cup {i}) /\ Cardinality(B \cup {i}) = Cardinality(B) + 1
      BY <3>4, FS_AddElement DEF B
    <3>6. Cardinality(B \cup {i}) = q - 1
      BY <2>3, <3>3, <3>5 DEF B
    <3> DEFINE Above == {j \in P : i < j}
    <3>7. CASE Above = {}
      <4>1. \A j \in P : i \in Nat /\ j \in Nat /\ ~(i < j)
        BY <3>7
      <4>2. \A j \in P : j < i \/ j = i
        BY <4>1
      <4>3. P = B \cup {i}
        BY <4>2 DEF B
      <4>4. Cardinality(P) = q - 1
        BY <3>6, <4>3
      <4> QED
        BY <1>1, <2>3, <4>4
    <3>8. CASE Above # {}
      <4>1. Above \subseteq Nat
        OBVIOUS
      <4>2. PICK l \in Above : \A j \in Above : l <= j
        BY <3>8, <4>1, LeastNatural
      <4>3. l \in P /\ i < l
        BY <4>2
      <4>4. \A j \in P : j \in Nat /\ i \in Nat /\ l \in Nat /\ (i < j => l <= j)
        BY <4>2, <4>3
      <4>5. \A j \in P : j < l <=> (j < i \/ j = i)
        BY <4>3, <4>4
      <4>6. Below(l) = B \cup {i}
        BY <4>5 DEF B
      <4>7. Cardinality(Below(l)) = q - 1
        <5> HIDE DEF Below
        <5> QED
          BY <3>6, <4>6
      <4> QED
        BY <2>3, <4>3, <4>7
    <3> QED
      BY <3>7, <3>8
  <2> QED
    BY <2>4, <2>5
<1> QED
  BY <1>2

\* Elements picked from a sequence are a sequence of them.
Picked(f, s, P) ==
    /\ Cardinality(P) \in Nat /\ IsSequence(f)
    /\ \A x \in ToSet(f) : \E i \in P : x = s[i]
    /\ \A l \in 1..Cardinality(P) : \E i \in P : f[l] = s[i]

LEMMA ThoseElements ==
    ASSUME NEW N \in Nat, NEW P, P \subseteq 1..N, NEW s
    PROVE  Picked(Those(s, P), s, P)
<1>1. IsFiniteSet(P)
  <2>1. IsFiniteSet(1..N)
    BY FS_Interval
  <2> QED
    BY <2>1, FS_Subset
<1>2. Cardinality(P) \in Nat
  BY <1>1, FS_CardinalityType
<1> DEFINE f == Those(s, P)
           c == Cardinality(P)
           Rank(i, l) == Cardinality({j \in P : j < i}) = l - 1
<1>3. f = [l \in 1..c |-> s[CHOOSE i \in P : Rank(i, l)]]
  BY DEF Those
<1>4. f = [l \in 1..c |-> f[l]]
  BY <1>3
<1>5. IsSequence(f) /\ DOMAIN f = 1..c
  <2> HIDE DEF f, c
  <2>1. c \in Nat
    BY <1>2 DEF c
  <2> QED
    BY <1>4, <2>1, AnyFunction
<1>6. ASSUME NEW l \in 1..c PROVE \E i \in P : f[l] = s[i]
  <2>1. P \subseteq Nat /\ l \in 1..Cardinality(P)
    OBVIOUS
  <2>2. \E i \in P : Cardinality({j \in P : j < i}) = l - 1
    BY <1>1, <2>1, Ranked
  <2>3. \E i \in P : Rank(i, l)
    BY <2>2
  <2> HIDE DEF Rank
  <2>4. (CHOOSE i \in P : Rank(i, l)) \in P
    BY <2>3
  <2>5. f[l] = s[CHOOSE i \in P : Rank(i, l)]
    BY <1>3
  <2> QED
    BY <2>4, <2>5
<1>7. \A x \in ToSet(f) : \E l \in 1..c : x = f[l]
  <2> HIDE DEF f, c
  <2> QED
    BY <1>5 DEF ToSet
<1> QED
  BY <1>2, <1>5, <1>6, <1>7 DEF Picked

LEMMA RepliesSaid ==
    ASSUME Assumptions, Chains, Sending, Advances, NEW n \in Nat, NEW o \in Nat, n <= o,
           n <= emitted + 1, Replies(n), NEW s, Says(s, o)', toExtension' = toExtension \o s
    PROVE  Replies(o)'
<1>1. \A y \in ToSet(toExtension) : Reply(y, o)'
  BY ReplyStays DEF Replies
<1>2. IsSequence(s) /\ \A y \in ToSet(s) : Reply(y, o)'
  BY DEF Says
<1>3. IsSequence(toExtension') /\ ToSet(toExtension') = ToSet(toExtension) \cup ToSet(s)
  BY <1>2, ConcatElements DEF Replies
<1> QED
  BY <1>1, <1>2, <1>3 DEF Replies

LEMMA DeliverFinishedAgrees ==
    ASSUME Assumptions, NEW n \in Nat, NEW t \in Nat, NEW e \in Nat, NEW b \in Nat, NEW k \in Nat,
           AgreedAt(n, t, e, b, k), DeliverFinished
    PROVE  Agreed'
<1>1. PICK key : key = Head(toWebview).id
  OBVIOUS
<1>2. PICK held : held = webview.held
  OBVIOUS
<1> DEFINE left == [i \in DOMAIN held |-> [held[i] EXCEPT !.keys = @ \ {key}]]
           done == {i \in DOMAIN left : left[i].keys = {}}
           kept == Those(left, DOMAIN left \ done)
           said == [l \in 1..Cardinality(done) |-> Message("handled", Those(left, done)[l].of)]
<1>3. /\ Deliver("finished") /\ UnchangedInExtension /\ UNCHANGED <<captured, late>>
      /\ webview' = [webview EXCEPT !.awaiting = @ \ {key}, !.held = kept]
      /\ toExtension' = toExtension \o said
  BY <1>1, <1>2 DEF DeliverFinished
<1>4. /\ UNCHANGED <<requested, mirroring, posted, emitted, msgChain, awaits, kernelChain,
                     hooking, dispatcher, restarted, shown>>
      /\ Chains' /\ Waits' /\ Dispatch' /\ OutputsInv' /\ RegisteredInv' /\ Sending'
      /\ passed' = passed /\ handled' = handled /\ sent' = sent /\ Due' = Due
      /\ passed \in Nat /\ handled \in Nat /\ sent \in Nat /\ emitted \in Nat
      /\ Advances
  BY <1>3, WebviewStep
<1>5. /\ k - 1 \in Nat /\ Queue(toWebview', k - 1) /\ Shifted(toWebview, toWebview')
      /\ toWebview # <<>> /\ toWebview' = Tail(toWebview)
      /\ toWebview[1] = Head(toWebview) /\ toWebview[1].type = "finished"
      /\ Post(Head(toWebview))
      /\ ~restarted => k - 1 = Len(toWebview') + 1
  BY <1>3, DeliverShifts
<1>6. n <= emitted + 1
  BY Bounds DEF AgreedAt
<1>7. PICK N \in Nat : DOMAIN held = 1..N
  <2>1. IsSequence(held)
    BY <1>2 DEF AgreedAt, View
  <2>2. Len(held) \in Nat /\ DOMAIN held = 1..Len(held)
    BY <2>1, LenProperties DEF IsSequence
  <2> QED
    BY <2>2
<1>8. ASSUME NEW i \in DOMAIN held
      PROVE  /\ left[i] = [of |-> held[i].of, keys |-> held[i].keys \ {key}]
             /\ held[i].of \in 1..(n - 1)
             /\ Kind(held[i].of) = "capture" =>
                   \/ <<Parent(held[i].of), "register">> \in held[i].keys \ {key}
                   \/ Registered(Parent(held[i].of))
  <2>1. held[i] \in ToSet(webview.held)
    BY <1>2 DEF ToSet
  <2>2. Holds(held[i], n)
    BY <2>1 DEF AgreedAt, HeldInv
  <2>3. held[i] = [of |-> held[i].of, keys |-> held[i].keys] /\ held[i].of \in 1..(n - 1)
    BY <2>2 DEF Holds
  <2>4. left[i] = [held[i] EXCEPT !.keys = @ \ {key}]
    OBVIOUS
  <2>5. left[i] = [of |-> held[i].of, keys |-> held[i].keys \ {key}]
    <3> HIDE DEF left
    <3> QED
      BY <2>3, <2>4
  <2>6. ASSUME key = <<Parent(held[i].of), "register">> PROVE Registered(Parent(held[i].of))
    BY <1>1, <1>5, <2>6 DEF Post
  <2> QED
    BY <2>2, <2>3, <2>5, <2>6 DEF Holds
<1>9. /\ \A i \in DOMAIN held : Holds(left[i], n)
      /\ \A i \in done : left[i].of \in 1..(n - 1)
                         /\ (Kind(left[i].of) = "capture" => Registered(Parent(left[i].of)))
      /\ done \subseteq 1..N /\ DOMAIN left \ done \subseteq 1..N /\ DOMAIN left = DOMAIN held
  <2>1. DOMAIN left = DOMAIN held
    OBVIOUS
  <2>2. ASSUME NEW i \in DOMAIN held
        PROVE  left[i].of = held[i].of /\ left[i].keys = held[i].keys \ {key}
               /\ left[i] = [of |-> left[i].of, keys |-> left[i].keys]
    <3>1. PICK a, ks : a = held[i].of /\ ks = held[i].keys \ {key}
      OBVIOUS
    <3> HIDE DEF left
    <3>2. left[i] = [of |-> a, keys |-> ks]
      BY <1>8, <3>1
    <3>3. left[i].of = a /\ left[i].keys = ks
      BY <3>2
    <3> QED
      BY <3>1, <3>2, <3>3
  <2>3. \A i \in DOMAIN held : Holds(left[i], n)
    <3> HIDE DEF left
    <3> QED
      BY <1>8, <2>2 DEF Holds
  <2>4. ASSUME NEW i \in done
        PROVE  left[i].of \in 1..(n - 1)
               /\ (Kind(left[i].of) = "capture" => Registered(Parent(left[i].of)))
    <3>1. i \in DOMAIN held /\ left[i].keys = {}
      BY <2>1
    <3> HIDE DEF left
    <3> QED
      BY <1>8, <2>2, <3>1
  <2> QED
    BY <1>7, <2>1, <2>3, <2>4
<1> HIDE DEF left
<1>10. /\ Cardinality(done) \in Nat /\ IsSequence(kept)
       /\ \A x \in ToSet(kept) : \E i \in DOMAIN left \ done : x = left[i]
       /\ \A l \in 1..Cardinality(done) : \E i \in done : Those(left, done)[l] = left[i]
  <2> DEFINE D == DOMAIN left \ done
  <2> HIDE DEF done
  <2>1. done \subseteq 1..N
    BY <1>9
  <2>4. D \subseteq 1..N
    BY <1>9
  <2> HIDE DEF D
  <2>2. Picked(Those(left, done), left, done)
    BY <2>1, ThoseElements
  <2>3. Picked(Those(left, D), left, D)
    BY <2>4, ThoseElements
  <2> QED
    BY <2>2, <2>3 DEF D, Picked
<1>11. ASSUME NEW x \in ToSet(kept) PROVE Holds(x, n)
  <2>1. PICK i \in DOMAIN left \ done : x = left[i]
    BY <1>10
  <2>2. i \in DOMAIN held
    BY <1>9
  <2> HIDE DEF kept, done
  <2> QED
    BY <1>9, <2>1, <2>2
<1>12. Says(said, n)
  <2> DEFINE c == Cardinality(done)
             id(l) == Those(left, done)[l].of
  <2>1. said = [l \in 1..c |-> Message("handled", id(l))]
    OBVIOUS
  <2>2. \A l \in 1..c : id(l) \in 1..(n - 1) /\ (Kind(id(l)) = "capture" => Registered(Parent(id(l))))
    <3> HIDE DEF done
    <3> QED
      BY <1>9, <1>10
  <2> HIDE DEF c, id, said
  <2>3. c \in Nat
    BY <1>10 DEF c
  <2>4. IsSequence(said) /\ DOMAIN said = 1..c
    BY <2>1, <2>3, AnyFunction
  <2>5. ASSUME NEW l \in 1..c PROVE Reply(said[l], n)
    <3>1. said[l] = Message("handled", id(l))
      BY <2>1
    <3>2. said[l].type = "handled" /\ said[l].id = id(l)
      BY <3>1, MessageFields
    <3> QED
      BY <2>2, <3>2 DEF Reply
  <2> QED
    BY <2>4, <2>5 DEF Says, ToSet
<1>13. PICK u, v : u = said /\ v = kept
  OBVIOUS
<1> HIDE DEF said, kept, done
<1>14. /\ WebviewFields(webview') /\ webview'.known = webview.known
       /\ webview'.chain = webview.chain /\ webview'.creating = webview.creating
       /\ webview'.hooks = webview.hooks /\ webview'.results = webview.results
       /\ webview'.lastHooked = webview.lastHooked /\ webview'.held = v
  BY <1>3, <1>13 DEF AgreedAt, View, WebviewFields
<1>15. View(webview', n, t)
  BY <1>10, <1>13, <1>14 DEF AgreedAt, View
<1>16. HeldInv(webview, n)'
  <2>1. ASSUME NEW x, Holds(x, n) PROVE Holds(x, n)'
    BY <1>4, <1>6, <2>1, HoldsStays DEF AgreedAt
  <2>2. \A x \in ToSet(v) : Holds(x, n)'
    BY <1>11, <1>13, <2>1
  <2> QED
    BY <1>14, <2>2 DEF HeldInv
<1>17. Replies(n)'
  <2>3. ASSUME NEW x, Reply(x, n) PROVE Reply(x, n)'
    BY <1>4, <1>6, <2>3, ReplyStays DEF AgreedAt
  <2>1. Says(u, n)'
    BY <1>12, <1>13, <2>3 DEF Says
  <2>2. toExtension' = toExtension \o u
    BY <1>3, <1>13
  <2>4. Chains /\ Sending /\ Replies(n) /\ Advances
    BY <1>4 DEF AgreedAt
  <2> QED
    BY <1>6, <2>1, <2>2, <2>4, RepliesSaid
<1>18. Posts'
  BY <1>4, <1>5, PostsStay DEF AgreedAt
<1>19. Coming(t, e, b, k - 1, toWebview', sent')
  BY <1>4, <1>5, ComingShifted DEF AgreedAt
<1>20. Knows(webview'.known, n, t, k - 1, toWebview', Due')
  BY <1>4, <1>5, <1>14, KnowsShifted DEF AgreedAt
<1>21. Asked(webview'.results \cup n..(t - 1), k - 1, toWebview', passed, handled, hooking)
  BY <1>4, <1>5, <1>14, AskedShifted DEF AgreedAt
<1>22. Histories'
  BY <1>3, <1>4, HistoriesStay DEF AgreedAt
<1>23. ReceivedInv'
  <2>1. IsSequence(toExtension) /\ IsSequence(u)
    BY <1>12, <1>13 DEF AgreedAt, Replies, Says
  <2>2. ~IsPosted(toWebview, 1, passed + 1)
    BY <1>5 DEF IsPosted
  <2>3. /\ Len(toExtension') \in Nat /\ Len(toExtension) <= Len(toExtension')
        /\ \A i \in 1..Len(toExtension) : toExtension'[i] = toExtension[i]
    BY <1>3, <1>13, <2>1, ConcatProperties DEF IsSequence
  <2> QED
    BY <1>4, <1>5, <2>1, <2>2, <2>3, ReceivedDelivered DEF AgreedAt
<1>24. AgreedAt(n, t, e, b, k - 1)'
  BY <1>3, <1>4, <1>5, <1>15, <1>16, <1>17, <1>18, <1>19, <1>20, <1>21, <1>22, <1>23 DEF AgreedAt
<1> QED
  BY <1>5, <1>24 DEF Agreed

-----------------------------------------------------------------------------
(* The webview handles a message *)

LEMMA ReceivedSaid ==
    ASSUME ReceivedInv, awaits' = awaits, passed' = passed, toWebview' = toWebview,
           IsSequence(toExtension), NEW s, IsSequence(s), toExtension' = toExtension \o s
    PROVE  ReceivedInv'
<1> SUFFICES ASSUME awaits = "received"
             PROVE  \/ \E i \in 1..Len(toWebview) : IsPosted(toWebview, i, passed + 1)
                    \/ \E i \in 1..Len(toExtension') : ReceivedAt(toExtension', i, passed + 1)
  BY DEF ReceivedInv
<1>1. /\ Len(toExtension') \in Nat /\ Len(toExtension) \in Nat /\ Len(toExtension) <= Len(toExtension')
      /\ \A i \in 1..Len(toExtension) : toExtension'[i] = toExtension[i]
  BY ConcatProperties, LenProperties DEF IsSequence
<1>2. CASE \E i \in 1..Len(toWebview) : IsPosted(toWebview, i, passed + 1)
  BY <1>2
<1>3. CASE \E i \in 1..Len(toExtension) : ReceivedAt(toExtension, i, passed + 1)
  <2>1. PICK i \in 1..Len(toExtension) : ReceivedAt(toExtension, i, passed + 1)
    BY <1>3
  <2>2. i \in 1..Len(toExtension') /\ ReceivedAt(toExtension', i, passed + 1)
    BY <1>1, <2>1, ReceivedOnWay
  <2> QED
    BY <2>2
<1> QED
  BY <1>2, <1>3 DEF ReceivedInv

\* The messages n..t-1 in their order.
InTurn(U, n, t) ==
    U \in Seq(Nat) /\ t = n + Len(U) /\ \A i \in 1..Len(U) : U[i] = n + i - 1

LEMMA TakesTurn ==
    ASSUME NEW n \in Nat, NEW t \in Nat, NEW W, InTurn(W, n, t), W # <<>>
    PROVE  Head(W) = n /\ n + 1 <= t /\ InTurn(Tail(W), n + 1, t)
<1>1. IsSequence(W) /\ Tail(W) \in Seq(Nat)
  BY NatSequence DEF InTurn
<1>2. Shifted(W, Tail(W)) /\ W[1] = Head(W)
  BY <1>1, TailShifts
<1>3. PICK U : U = Tail(W)
  OBVIOUS
<1>4. Len(W) = Len(U) + 1 /\ Len(U) \in Nat /\ \A i \in 1..Len(U) : U[i] = W[i + 1]
  BY <1>2, <1>3 DEF Shifted
<1>5. t = n + Len(W) /\ \A i \in 1..Len(W) : W[i] = n + i - 1
  BY DEF InTurn
<1>6. W[1] = n /\ n + 1 <= t /\ t = (n + 1) + Len(U)
  BY <1>4, <1>5
<1>7. \A i \in 1..Len(U) : U[i] = (n + 1) + i - 1
  BY <1>4, <1>5
<1> QED
  BY <1>1, <1>2, <1>3, <1>6, <1>7 DEF InTurn

\* The next message of the webview.
LEMMA NextHandled ==
    ASSUME Assumptions, NEW n \in Nat, NEW t \in Nat, NEW e \in Nat, NEW b \in Nat, NEW k \in Nat,
           AgreedAt(n, t, e, b, k), webview.chain # <<>>
    PROVE  /\ Head(webview.chain) = n /\ n + 1 <= t /\ n \in Messages /\ n \in 1..emitted
           /\ Issued(Parent(n)) /\ n <= emitted /\ emitted \in Nat /\ 1 <= n
           /\ InTurn(Tail(webview.chain), n + 1, t)
           /\ HasHook(webview, n) <=> Capturing(n)
<1>1. InTurn(webview.chain, n, t) /\ HooksAt(n, webview.hooks)
  BY DEF AgreedAt, View, InTurn
<1>2. sent <= emitted /\ sent \in Nat /\ t <= sent + 1 /\ 1 <= n
  BY Bounds DEF AgreedAt
<1>3. emitted \in Nat
  BY DEF AgreedAt, Chains
<1>4. Head(webview.chain) = n /\ n + 1 <= t /\ InTurn(Tail(webview.chain), n + 1, t)
  BY <1>1, TakesTurn
<1>5. n <= emitted /\ n \in 1..emitted
  BY <1>2, <1>3, <1>4
<1>6. n \in Messages /\ Issued(Parent(n))
  BY <1>5, EmittedIssued DEF AgreedAt
<1>7. HasHook(webview, n) <=> Capturing(n)
  <2>1. n \in n..(t - 1)
    BY <1>4
  <2>2. Parent(n) \in webview.known
    BY <2>1 DEF AgreedAt, Knows
  <2>3. Parent(n) \in webview.hooks <=> CapturingAt(Parent(n), n)
    BY <1>1, <1>6 DEF HooksAt
  <2>4. CapturingAt(Parent(n), n) <=> Capturing(n)
    BY DEF CapturingAt, Capturing
  <2> QED
    BY <2>2, <2>3, <2>4 DEF HasHook
<1> QED
  BY <1>2, <1>3, <1>4, <1>5, <1>6, <1>7

\* What a widget or a comm makes of message n; the webview knows no more and no less.
Handled(w, n) ==
    /\ WebviewFields(w) /\ w.chain = webview.chain /\ w.known = webview.known
    /\ w.held = webview.held
    /\ webview.results \subseteq w.results /\ (Captures(n) => n \in w.results)
    /\ IsSequence(w.lastHooked) /\ w.hooks \subseteq Requests

LEMMA FinishAgrees ==
    ASSUME Assumptions, NEW n \in Nat, NEW t \in Nat, NEW e \in Nat, NEW b \in Nat, NEW k \in Nat,
           AgreedAt(n, t, e, b, k), webview.chain # <<>>,
           UnchangedInExtension, UNCHANGED <<toWebview, late>>,
           \A m \in captured' : m \in captured \/ (m = n /\ Captures(n)),
           NEW w, Handled(w, n), HooksAt(n + 1, w.hooks),
           Kind(n) = "capture" => <<Parent(n), "register">> \in w.awaiting,
           NEW posts, Says(posts, n + 1), Finish(w, posts, n)
    PROVE  Agreed'
<1>1. /\ UNCHANGED <<requested, mirroring, posted, emitted, msgChain, awaits, kernelChain,
                     hooking, dispatcher, restarted, shown>>
      /\ Chains' /\ Waits' /\ Dispatch' /\ OutputsInv' /\ RegisteredInv' /\ Sending'
      /\ passed' = passed /\ handled' = handled /\ sent' = sent /\ Due' = Due
      /\ passed \in Nat /\ handled \in Nat /\ sent \in Nat /\ emitted \in Nat
      /\ Advances
  <2>1. late \subseteq late'
    OBVIOUS
  <2> QED
    BY <2>1, WebviewStep
<1>2. /\ n + 1 <= t /\ n \in Messages /\ n \in 1..emitted /\ Issued(Parent(n)) /\ n <= emitted
      /\ InTurn(Tail(webview.chain), n + 1, t)
  BY NextHandled
<1>3. n + 1 <= emitted + 1 /\ n <= emitted + 1 /\ n + 1 \in Nat /\ n <= n + 1 /\ n \in 1..((n + 1) - 1)
  BY <1>1, <1>2
<1>4. WebviewFields(w) /\ w.chain = webview.chain /\ w.known = webview.known /\ w.held = webview.held
  BY DEF Handled
<1>5. IsSequence(w.held) /\ \A h \in ToSet(w.held) : Holds(h, n)
  BY <1>4 DEF AgreedAt, View, HeldInv
<1>6. IsSequence(toExtension) /\ IsSequence(posts)
  BY DEF AgreedAt, Replies, Says
<1>7. \A x \in ToSet(posts) : Reply(x, n + 1)
  BY DEF Says
<1>8. PICK x : x = Message("handled", n)
  OBVIOUS
<1> DEFINE h == [of |-> n, keys |-> w.awaiting]
<1>9. h.of = n /\ h.keys = w.awaiting /\ h = [of |-> h.of, keys |-> h.keys]
  OBVIOUS
<1> HIDE DEF h
<1>10. /\ WebviewFields(webview') /\ webview'.known = w.known /\ webview'.results = w.results
       /\ webview'.chain = Tail(w.chain) /\ ~webview'.creating /\ webview'.hooks = w.hooks
       /\ webview'.lastHooked = w.lastHooked /\ IsSequence(webview'.held)
       /\ \A y \in ToSet(webview'.held) : y \in ToSet(w.held) \/ (y = h /\ w.awaiting # {})
  <2>1. CASE w.awaiting = {}
    <3>1. webview' = [w EXCEPT !.chain = Tail(@), !.creating = FALSE]
      BY <2>1 DEF Finish
    <3> QED
      BY <1>4, <1>5, <3>1 DEF WebviewFields
  <2>2. CASE w.awaiting # {}
    <3>1. webview' = [w EXCEPT !.chain = Tail(@), !.creating = FALSE, !.held = Append(@, h)]
      BY <2>2 DEF Finish, h
    <3>2. /\ WebviewFields(webview') /\ webview'.known = w.known /\ webview'.results = w.results
          /\ webview'.chain = Tail(w.chain) /\ ~webview'.creating /\ webview'.hooks = w.hooks
          /\ webview'.lastHooked = w.lastHooked /\ webview'.held = Append(w.held, h)
      BY <1>4, <3>1 DEF WebviewFields
    <3>3. IsSequence(Append(w.held, h)) /\ ToSet(Append(w.held, h)) = ToSet(w.held) \cup {h}
      BY <1>5, AppendElements
    <3> QED
      BY <2>2, <3>2, <3>3
  <2> QED
    BY <2>1, <2>2
<1>11. \E s : Says(s, n + 1) /\ toExtension' = toExtension \o s
  <2>1. CASE w.awaiting = {}
    <3>1. toExtension' = toExtension \o posts \o <<x>>
      BY <1>8, <2>1 DEF Finish
    <3>2. Reply(x, n + 1)
      <4>1. x.type = "handled" /\ x.id = n
        BY <1>8, MessageFields
      <4>2. Kind(n) # "capture"
        BY <2>1
      <4> QED
        BY <1>3, <4>1, <4>2 DEF Reply
    <3>3. IsSequence(<<x>>) /\ ToSet(<<x>>) = {x}
      BY DEF IsSequence, ToSet
    <3>4. IsSequence(posts \o <<x>>) /\ ToSet(posts \o <<x>>) = ToSet(posts) \cup {x}
      BY <1>6, <3>3, ConcatElements
    <3>5. toExtension \o posts \o <<x>> = toExtension \o (posts \o <<x>>)
      BY <1>6, <3>3, ConcatTwice
    <3>6. Says(posts \o <<x>>, n + 1)
      BY <1>7, <3>2, <3>4 DEF Says
    <3> QED
      BY <3>1, <3>5, <3>6
  <2>2. CASE w.awaiting # {}
    <3>1. toExtension' = toExtension \o posts
      BY <2>2 DEF Finish
    <3> QED
      BY <3>1
  <2> QED
    BY <2>1, <2>2
<1>12. PICK s : Says(s, n + 1) /\ toExtension' = toExtension \o s
  BY <1>11
<1>13. View(webview', n + 1, t)
  <2>1. IsSequence(w.lastHooked) /\ w.hooks \subseteq Requests /\ w.known \subseteq Requests
    BY <1>4 DEF Handled, AgreedAt, View
  <2>2. InTurn(webview'.chain, n + 1, t)
    BY <1>2, <1>4, <1>10
  <2>3. 1 <= n + 1
    OBVIOUS
  <2> QED
    BY <1>3, <1>10, <2>1, <2>2, <2>3 DEF View, InTurn
<1>14. HeldInv(webview, n + 1)'
  <2>1. ASSUME NEW y, Holds(y, n) PROVE Holds(y, n + 1)'
    BY <1>1, <1>3, <2>1, HoldsStays DEF AgreedAt
  <2>2. w.awaiting # {} => Holds(h, n + 1)'
    BY <1>3, <1>9 DEF Holds
  <2> QED
    BY <1>5, <1>10, <2>1, <2>2 DEF HeldInv
<1>15. Replies(n + 1)'
  <2>1. IsSequence(s) /\ \A y \in ToSet(s) : Reply(y, n + 1)
    BY <1>12 DEF Says
  <2>2. ASSUME NEW y, Reply(y, n + 1) PROVE Reply(y, n + 1)'
    BY <1>1, <1>3, <2>2, ReplyStays DEF AgreedAt
  <2>3. Says(s, n + 1)'
    BY <2>1, <2>2 DEF Says
  <2> QED
    BY <1>1, <1>3, <1>12, <2>3, RepliesSaid DEF AgreedAt
<1>16. Posts'
  BY <1>1, PostsStay DEF AgreedAt
<1>17. Coming(t, e, b, k, toWebview', sent') /\ Queue(toWebview', k)
       /\ (~restarted => k = Len(toWebview') + 1)
  BY <1>1 DEF AgreedAt
<1>18. Knows(webview'.known, n + 1, t, k, toWebview', Due')
  <2>1. \A m \in (n + 1)..(t - 1) : m \in n..(t - 1)
    OBVIOUS
  <2>2. webview'.known = webview.known
    BY <1>4, <1>10
  <2> QED
    BY <1>1, <2>1, <2>2 DEF AgreedAt, Knows
<1>19. Asked(webview'.results \cup (n + 1)..(t - 1), k, toWebview', passed, handled, hooking)
  <2>1. \A m \in webview.results \cup n..(t - 1) : Captures(m) =>
            m \in webview'.results \cup (n + 1)..(t - 1)
    <3>1. \A m \in n..(t - 1) : m = n \/ m \in (n + 1)..(t - 1)
      OBVIOUS
    <3> QED
      BY <1>10, <3>1 DEF Handled
  <2> QED
    BY <1>1, <2>1, AskedThere DEF AgreedAt
<1>20. Histories'
  BY <1>1, <1>2 DEF AgreedAt, Histories
<1>21. ReceivedInv'
  <2>1. IsSequence(s)
    BY <1>12 DEF Says
  <2> QED
    BY <1>1, <1>6, <1>12, <2>1, ReceivedSaid DEF AgreedAt
<1>22. AgreedAt(n + 1, t, e, b, k)'
  BY <1>1, <1>13, <1>14, <1>15, <1>16, <1>17, <1>18, <1>19, <1>20, <1>21 DEF AgreedAt
<1> QED
  BY <1>3, <1>22 DEF Agreed

\* The hooks of the webview after message n.
LEMMA HooksNext ==
    ASSUME Assumptions, NEW n \in Messages, NEW hooks, HooksAt(n, hooks), NEW H,
           H = CASE Kind(n) = "capture" -> hooks \cup {Parent(n)}
                 [] Kind(n) = "release" -> hooks \ {Parent(n)}
                 [] OTHER -> hooks
    PROVE  HooksAt(n + 1, H)
<1> SUFFICES ASSUME NEW m \in Messages, n + 1 <= m
             PROVE  Parent(m) \in H <=> CapturingAt(Parent(m), n + 1)
  BY DEF HooksAt
<1>1. Messages = 1..Len(Script) /\ Len(Script) \in Nat
  BY ScriptFacts
<1>2. n <= m
  BY <1>1
<1>3. Parent(m) \in hooks <=> CapturingAt(Parent(m), n)
  BY <1>2 DEF HooksAt
<1>4. PICK r : r = Parent(m)
  OBVIOUS
<1>5. /\ Parent(n) # r => (CapturingAt(r, n + 1) <=> CapturingAt(r, n))
      /\ Kind(n) \notin {"capture", "release"} => (CapturingAt(r, n + 1) <=> CapturingAt(r, n))
      /\ Parent(n) = r /\ Kind(n) = "capture" => CapturingAt(r, n + 1)
      /\ Parent(n) = r /\ Kind(n) = "release" => ~CapturingAt(r, n + 1)
  BY CapturesNext
<1>6. CASE Kind(n) = "capture"
  BY <1>3, <1>4, <1>5, <1>6
<1>7. CASE Kind(n) = "release"
  BY <1>3, <1>4, <1>5, <1>7
<1>8. CASE Kind(n) \notin {"capture", "release"}
  BY <1>3, <1>4, <1>5, <1>8
<1> QED
  BY <1>6, <1>7, <1>8

LEMMA SaysOne ==
    ASSUME NEW n, NEW x, Reply(x, n)
    PROVE  Says(<<x>>, n)
<1>1. IsSequence(<<x>>) /\ ToSet(<<x>>) = {x}
  BY DEF IsSequence, ToSet
<1> QED
  BY <1>1 DEF Says

LEMMA SaysNothing ==
    ASSUME NEW n
    PROVE  Says(<<>>, n)
BY DEF Says, IsSequence, ToSet

LEMMA HookedHandles ==
    ASSUME Assumptions, NEW n \in Nat, NEW t \in Nat, NEW e \in Nat, NEW b \in Nat, NEW k \in Nat,
           AgreedAt(n, t, e, b, k), webview.chain # <<>>, NEW w, w = Hooked(webview, n)
    PROVE  /\ Handled(w, n) /\ w.hooks = webview.hooks /\ w.creating = webview.creating
           /\ Capturing(n) => w.lastHooked = Append(webview.lastHooked, n)
<1>1. n \in Messages /\ (HasHook(webview, n) <=> Capturing(n))
  BY NextHandled
<1>2. /\ WebviewFields(webview) /\ IsSequence(webview.lastHooked) /\ webview.hooks \subseteq Requests
  BY DEF AgreedAt, View
<1>3. IsSequence(Append(webview.lastHooked, n))
  BY <1>2, AppendElements
<1>4. CASE HasHook(webview, n)
  <2>1. w = [webview EXCEPT !.results = @ \cup {n}, !.lastHooked = Append(@, n)]
    BY <1>4 DEF Hooked
  <2>2. /\ WebviewFields(w) /\ w.chain = webview.chain /\ w.known = webview.known
        /\ w.held = webview.held /\ w.results = webview.results \cup {n}
        /\ w.lastHooked = Append(webview.lastHooked, n) /\ w.hooks = webview.hooks
        /\ w.creating = webview.creating
    BY <1>2, <2>1 DEF WebviewFields
  <2> QED
    BY <1>2, <1>3, <2>2 DEF Handled
<1>5. CASE ~HasHook(webview, n)
  <2>1. w = webview
    BY <1>5 DEF Hooked
  <2> QED
    BY <1>1, <1>2, <1>5, <2>1 DEF Handled, Captures
<1> QED
  BY <1>4, <1>5

LEMMA CaptureAgrees ==
    ASSUME Assumptions, NEW n \in Nat, NEW t \in Nat, NEW e \in Nat, NEW b \in Nat, NEW k \in Nat,
           AgreedAt(n, t, e, b, k), webview.chain # <<>>,
           UnchangedInExtension, UNCHANGED <<toWebview, late>>,
           \A m \in captured' : m \in captured \/ (m = n /\ Captures(n)),
           NEW w, Handled(w, n), w.hooks = webview.hooks, Kind(n) = "capture",
           Finish(Capture(w, Parent(n)), <<Message("register", Parent(n))>>, n)
    PROVE  Agreed'
<1>1. n \in Messages /\ Issued(Parent(n))
  BY NextHandled
<1>2. PICK r : r = Parent(n)
  OBVIOUS
<1>3. PICK x : x = Message("register", r)
  OBVIOUS
<1>4. Says(<<x>>, n + 1)
  <2>1. x.type = "register" /\ x.id = r
    BY <1>3, MessageFields
  <2>2. Reply(x, n + 1)
    BY <1>1, <1>2, <2>1 DEF Reply
  <2> QED
    BY <2>2, SaysOne
<1>5. PICK v : v = Capture(w, r)
  OBVIOUS
<1>6. /\ WebviewFields(v) /\ v.chain = w.chain /\ v.known = w.known /\ v.held = w.held
      /\ v.results = w.results /\ v.lastHooked = w.lastHooked /\ v.hooks = w.hooks \cup {r}
      /\ v.awaiting = w.awaiting \cup {<<r, "register">>}
  <2>1. WebviewFields(w)
    BY DEF Handled
  <2>2. v = [w EXCEPT !.hooks = @ \cup {r}, !.awaiting = @ \cup {<<r, "register">>}]
    BY <1>5 DEF Capture
  <2> QED
    BY <2>1, <2>2 DEF WebviewFields
<1>7. r \in Requests
  BY <1>1, <1>2 DEF Issued
<1>8. Handled(v, n)
  BY <1>6, <1>7 DEF Handled
<1>9. HooksAt(n + 1, v.hooks)
  <2>1. HooksAt(n, webview.hooks)
    BY DEF AgreedAt, View
  <2>2. v.hooks = CASE Kind(n) = "capture" -> webview.hooks \cup {Parent(n)}
                    [] Kind(n) = "release" -> webview.hooks \ {Parent(n)}
                    [] OTHER -> webview.hooks
    BY <1>2, <1>6
  <2> QED
    BY <1>1, <2>1, <2>2, HooksNext
<1>10. Finish(v, <<x>>, n)
  BY <1>2, <1>3, <1>5
<1>11. <<Parent(n), "register">> \in v.awaiting
  BY <1>2, <1>6
<1> QED
  BY <1>4, <1>8, <1>9, <1>10, <1>11, FinishAgrees

LEMMA Predecessor ==
    ASSUME NEW c \in Nat, c # 0
    PROVE  c - 1 \in Nat /\ c - 1 <= c
OBVIOUS

LEMMA ReleaseAgrees ==
    ASSUME Assumptions, NEW n \in Nat, NEW t \in Nat, NEW e \in Nat, NEW b \in Nat, NEW k \in Nat,
           AgreedAt(n, t, e, b, k), webview.chain # <<>>,
           UnchangedInExtension, UNCHANGED <<toWebview, late>>,
           \A m \in captured' : m \in captured \/ (m = n /\ Captures(n)),
           NEW w, Handled(w, n), w.hooks = webview.hooks, Kind(n) = "release",
           w.lastHooked = Append(webview.lastHooked, n), NEW last,
           last = IF w.lastHooked = <<>> THEN None ELSE Last(w.lastHooked),
           Finish(Release(w, Parent(n)),
                  <<Message("remove", [hook |-> Parent(n), last |-> last])>>, n)
    PROVE  Agreed'
<1>1. n \in Messages /\ Issued(Parent(n))
  BY NextHandled
<1>2. PICK r : r = Parent(n)
  OBVIOUS
<1>3. PICK lh : lh = w.lastHooked
  OBVIOUS
<1>4. PICK old : old = webview.lastHooked
  OBVIOUS
<1>5. IsSequence(old) /\ lh = Append(old, n)
  BY <1>3, <1>4 DEF AgreedAt, View
<1>6. IsSequence(lh) /\ Followed(old, lh, n)
  BY <1>5, AppendFollows
<1>7. Len(lh) \in Nat /\ Len(lh) # 0 /\ lh[Len(lh)] = n
  BY <1>6 DEF Followed
<1>8. lh # <<>> /\ last = n
  <2>1. lh # <<>>
    BY <1>6, <1>7, EmptySeq
  <2> QED
    BY <1>3, <1>7, <2>1 DEF Last
<1>9. PICK a : a = [hook |-> r, last |-> n]
  OBVIOUS
<1>10. PICK x : x = Message("remove", a)
  OBVIOUS
<1>11. Says(<<x>>, n + 1)
  <2>1. x.type = "remove" /\ x.id = a
    BY <1>10, MessageFields
  <2>2. IsRemoval(a)
    BY <1>1, <1>2, <1>9 DEF IsRemoval
  <2>3. Reply(x, n + 1)
    BY <2>1, <2>2 DEF Reply
  <2> QED
    BY <2>3, SaysOne
<1>12. PICK v : v = Release(w, r)
  OBVIOUS
<1>13. /\ WebviewFields(v) /\ v.chain = w.chain /\ v.known = w.known /\ v.held = w.held
       /\ v.results = w.results /\ v.lastHooked = Front(lh) /\ v.hooks = w.hooks \ {r}
  <2>1. WebviewFields(w)
    BY DEF Handled
  <2>2. v = [w EXCEPT !.hooks = @ \ {r}, !.awaiting = @ \cup {<<r, "remove">>},
                      !.lastHooked = IF @ = <<>> THEN @ ELSE Front(@)]
    BY <1>12 DEF Release
  <2>3. v = [w EXCEPT !.hooks = @ \ {r}, !.awaiting = @ \cup {<<r, "remove">>},
                      !.lastHooked = Front(lh)]
    BY <1>3, <1>8, <2>2
  <2> QED
    BY <2>1, <2>3 DEF WebviewFields
<1>14. IsSequence(Front(lh))
  <2>0. Len(lh) - 1 \in Nat /\ Len(lh) - 1 <= Len(lh)
    BY <1>7, Predecessor
  <2>1. PICK l \in Nat : l = Len(lh) - 1 /\ l <= Len(lh)
    BY <2>0
  <2>2. Front(lh) = SubSeq(lh, 1, l)
    BY <2>1 DEF Front
  <2>3. SubSeq(lh, 1, l) \in Seq(ToSet(lh))
    <3>1. 1 \in Nat /\ 1 >= 1 /\ l <= Len(lh)
      BY <2>1
    <3>2. PICK S : S = ToSet(lh)
      OBVIOUS
    <3>3. lh \in Seq(S)
      BY <1>6, <3>2 DEF IsSequence
    <3>4. SubSeq(lh, 1, l) \in Seq(S)
      BY <3>1, <3>3, SubSeqRange
    <3> QED
      BY <3>2, <3>4
  <2> QED
    BY <2>2, <2>3, AnySequence
<1>15. Handled(v, n)
  BY <1>13, <1>14 DEF Handled
<1>16. HooksAt(n + 1, v.hooks)
  <2>1. HooksAt(n, webview.hooks)
    BY DEF AgreedAt, View
  <2>2. v.hooks = CASE Kind(n) = "capture" -> webview.hooks \cup {Parent(n)}
                    [] Kind(n) = "release" -> webview.hooks \ {Parent(n)}
                    [] OTHER -> webview.hooks
    BY <1>2, <1>13
  <2> QED
    BY <1>1, <2>1, <2>2, HooksNext
<1>17. Finish(v, <<x>>, n)
  BY <1>2, <1>8, <1>9, <1>10, <1>12
<1>18. Kind(n) # "capture"
  OBVIOUS
<1> QED
  BY <1>11, <1>15, <1>16, <1>17, <1>18, FinishAgrees

LEMMA OtherAgrees ==
    ASSUME Assumptions, NEW n \in Nat, NEW t \in Nat, NEW e \in Nat, NEW b \in Nat, NEW k \in Nat,
           AgreedAt(n, t, e, b, k), webview.chain # <<>>,
           UnchangedInExtension, UNCHANGED <<toWebview, late>>,
           \A m \in captured' : m \in captured \/ (m = n /\ Captures(n)),
           NEW w, Handled(w, n), w.hooks = webview.hooks, Kind(n) \notin {"capture", "release"},
           Finish(w, <<>>, n)
    PROVE  Agreed'
<1>1. n \in Messages
  BY NextHandled
<1>2. HooksAt(n + 1, w.hooks)
  <2>1. HooksAt(n, webview.hooks)
    BY DEF AgreedAt, View
  <2>2. w.hooks = CASE Kind(n) = "capture" -> webview.hooks \cup {Parent(n)}
                    [] Kind(n) = "release" -> webview.hooks \ {Parent(n)}
                    [] OTHER -> webview.hooks
    OBVIOUS
  <2> QED
    BY <1>1, <2>1, <2>2, HooksNext
<1>3. Kind(n) # "capture"
  OBVIOUS
<1>4. Says(<<>>, n + 1)
  BY SaysNothing
<1> QED
  BY <1>2, <1>3, <1>4, FinishAgrees

LEMMA CreatingAgrees ==
    ASSUME Assumptions, NEW n \in Nat, NEW t \in Nat, NEW e \in Nat, NEW b \in Nat, NEW k \in Nat,
           AgreedAt(n, t, e, b, k), webview.chain # <<>>,
           UnchangedInExtension, UNCHANGED <<toWebview, toExtension, captured, late>>,
           NEW w, Handled(w, n), w.hooks = webview.hooks, Kind(n) \in {"open", "create"},
           webview' = [w EXCEPT !.creating = TRUE]
    PROVE  Agreed'
<1>1. /\ UNCHANGED <<requested, mirroring, posted, emitted, msgChain, awaits, kernelChain,
                     hooking, dispatcher, restarted, shown>>
      /\ Chains' /\ Waits' /\ Dispatch' /\ OutputsInv' /\ RegisteredInv' /\ Sending'
      /\ passed' = passed /\ handled' = handled /\ sent' = sent /\ Due' = Due
      /\ passed \in Nat /\ handled \in Nat /\ sent \in Nat /\ emitted \in Nat
      /\ Advances
  <2>1. late \subseteq late'
    OBVIOUS
  <2> QED
    BY <2>1, WebviewStep
<1>2. /\ WebviewFields(webview') /\ webview'.known = webview.known /\ webview'.chain = webview.chain
      /\ webview'.creating /\ webview'.hooks = webview.hooks /\ webview'.held = webview.held
      /\ webview'.results = w.results /\ webview'.lastHooked = w.lastHooked
  BY DEF Handled, WebviewFields
<1>3. View(webview', n, t)
  BY <1>2 DEF AgreedAt, View, Handled
<1>4. n <= emitted + 1
  BY Bounds DEF AgreedAt
<1>5. HeldInv(webview, n)'
  <2>1. PICK v : v = webview'
    OBVIOUS
  <2>2. PICK u : u = webview
    OBVIOUS
  <2>3. HeldInv(u, n) /\ v.held = u.held
    BY <1>2, <2>1, <2>2 DEF AgreedAt
  <2>4. HeldInv(v, n)'
    BY <1>1, <1>4, <2>3, HeldStays DEF AgreedAt
  <2> QED
    BY <2>1, <2>4 DEF HeldInv
<1>6. Replies(n)'
  BY <1>1, <1>4, RepliesStay DEF AgreedAt
<1>7. Posts'
  BY <1>1, PostsStay DEF AgreedAt
<1>8. Coming(t, e, b, k, toWebview', sent') /\ Queue(toWebview', k)
      /\ (~restarted => k = Len(toWebview') + 1)
  BY <1>1 DEF AgreedAt
<1>9. Knows(webview'.known, n, t, k, toWebview', Due')
  BY <1>1, <1>2 DEF AgreedAt
<1>10. Asked(webview'.results \cup n..(t - 1), k, toWebview', passed, handled, hooking)
  <2>1. \A m \in webview.results \cup n..(t - 1) : Captures(m) => m \in webview'.results \cup n..(t - 1)
    BY <1>2 DEF Handled
  <2> QED
    BY <1>1, <2>1, AskedThere DEF AgreedAt
<1>11. Histories' /\ ReceivedInv'
  BY <1>1, HistoriesStay, ReceivedStays DEF AgreedAt
<1>12. AgreedAt(n, t, e, b, k)'
  BY <1>1, <1>3, <1>5, <1>6, <1>7, <1>8, <1>9, <1>10, <1>11 DEF AgreedAt
<1> QED
  BY <1>12 DEF Agreed

LEMMA WebviewHandlesAgrees ==
    ASSUME Assumptions, NEW n \in Nat, NEW t \in Nat, NEW e \in Nat, NEW b \in Nat, NEW k \in Nat,
           AgreedAt(n, t, e, b, k), WebviewHandles
    PROVE  Agreed'
<1>1. webview.chain # <<>>
  BY DEF WebviewHandles
<1>2. /\ Head(webview.chain) = n /\ n \in Messages /\ (HasHook(webview, n) <=> Capturing(n))
  BY <1>1, NextHandled
<1>3. PICK w : w = Hooked(webview, n)
  OBVIOUS
<1>4. PICK r : r = Parent(n)
  OBVIOUS
<1>5. PICK last : last = IF w.lastHooked = <<>> THEN None ELSE Last(w.lastHooked)
  OBVIOUS
<1>6. /\ UnchangedInExtension /\ UNCHANGED <<toWebview, late>>
      /\ captured' = IF HasHook(webview, n) /\ Kind(n) = "print"
                     THEN captured \cup {n} ELSE captured
      /\ CASE Kind(n) = "capture" -> Finish(Capture(w, r), <<Message("register", r)>>, n)
           [] Kind(n) = "release" ->
                Finish(Release(w, r), <<Message("remove", [hook |-> r, last |-> last])>>, n)
           [] Kind(n) \in {"open", "create"} ->
                webview' = [w EXCEPT !.creating = TRUE] /\ UNCHANGED toExtension
           [] OTHER -> Finish(w, <<>>, n)
  BY <1>2, <1>3, <1>4, <1>5 DEF WebviewHandles
<1>7. \A m \in captured' : m \in captured \/ (m = n /\ Captures(n))
  BY <1>2, <1>6 DEF Captures
<1>8. /\ Handled(w, n) /\ w.hooks = webview.hooks
      /\ Capturing(n) => w.lastHooked = Append(webview.lastHooked, n)
  BY <1>1, <1>3, HookedHandles
<1>9. CASE Kind(n) = "capture"
  <2>1. Finish(Capture(w, Parent(n)), <<Message("register", Parent(n))>>, n)
    BY <1>4, <1>6, <1>9
  <2> QED
    BY <1>1, <1>6, <1>7, <1>8, <1>9, <2>1, CaptureAgrees
<1>10. CASE Kind(n) = "release"
  <2>1. Finish(Release(w, Parent(n)),
               <<Message("remove", [hook |-> Parent(n), last |-> last])>>, n)
    BY <1>4, <1>6, <1>10
  <2>2. w.lastHooked = Append(webview.lastHooked, n)
    BY <1>2, <1>8, <1>10, ScriptFacts
  <2> QED
    BY <1>1, <1>5, <1>6, <1>7, <1>8, <1>10, <2>1, <2>2, ReleaseAgrees
<1>11. CASE Kind(n) \in {"open", "create"}
  <2>1. webview' = [w EXCEPT !.creating = TRUE] /\ UNCHANGED toExtension
    BY <1>6, <1>11
  <2>2. captured' = captured
    BY <1>6, <1>11
  <2> QED
    BY <1>1, <1>6, <1>8, <1>11, <2>1, <2>2, CreatingAgrees
<1>12. CASE Kind(n) \notin {"capture", "release", "open", "create"}
  <2>1. Finish(w, <<>>, n)
    BY <1>6, <1>12
  <2> QED
    BY <1>1, <1>6, <1>7, <1>8, <1>12, <2>1, OtherAgrees
<1> QED
  BY <1>9, <1>10, <1>11, <1>12

LEMMA ModelCreatedAgrees ==
    ASSUME Assumptions, NEW n \in Nat, NEW t \in Nat, NEW e \in Nat, NEW b \in Nat, NEW k \in Nat,
           AgreedAt(n, t, e, b, k), ModelCreated
    PROVE  Agreed'
<1>1. /\ webview.creating /\ Finish(webview, <<>>, Head(webview.chain))
      /\ UnchangedInExtension /\ UNCHANGED <<toWebview, captured, late>>
  BY DEF ModelCreated
<1>2. webview.chain # <<>> /\ Kind(n) \in {"open", "create"}
  BY <1>1 DEF AgreedAt, View
<1>3. Head(webview.chain) = n
  BY <1>2, NextHandled
<1>4. PICK w : w = webview
  OBVIOUS
<1>5. Handled(w, n) /\ w.hooks = webview.hooks
  BY <1>2, <1>4 DEF Handled, AgreedAt, View, Captures
<1>6. Finish(w, <<>>, n)
  BY <1>1, <1>3, <1>4
<1>7. Kind(n) \notin {"capture", "release"}
  BY <1>2
<1>8. \A m \in captured' : m \in captured \/ (m = n /\ Captures(n))
  BY <1>1
<1> QED
  BY <1>1, <1>2, <1>5, <1>6, <1>7, <1>8, OtherAgrees

LEMMA NothingChanges ==
    ASSUME Agreed, UNCHANGED vars
    PROVE  Agreed'
<1>1. PICK n, t, e, b, k \in Nat : AgreedAt(n, t, e, b, k)
  BY DEF Agreed
<1>2. UNCHANGED <<requested, mirroring, posted, emitted, msgChain, awaits, kernelChain, hooking,
                  dispatcher, toWebview, toExtension, webview, restarted, captured, shown, late>>
  BY DEF vars
<1>3. passed' = passed /\ handled' = handled /\ sent' = sent /\ Due' = Due
  BY <1>2 DEF passed, handled, sent, Due
<1>4. \A r : Registered(r) <=> Registered(r)'
  BY <1>2, <1>3 DEF Registered, Released, Over
<1>5. \A r : Issued(r) <=> Issued(r)'
  BY <1>2 DEF Issued
<1>6. \A x : Reply(x, n) => Reply(x, n)'
  BY <1>2, <1>3, <1>4, <1>5 DEF Reply
<1>7. \A x : Post(x) => Post(x)'
  BY <1>4, <1>5 DEF Post
<1>8. \A x : Holds(x, n) => Holds(x, n)'
  BY <1>4 DEF Holds
<1>9. Chains' /\ Waits' /\ Sending' /\ Dispatch' /\ RegisteredInv' /\ OutputsInv'
  <2>1. Chains' /\ Waits' /\ Sending'
    BY <1>1, <1>2, <1>3 DEF AgreedAt, Chains, Waits, Sending
  <2>2. Dispatch' /\ RegisteredInv' /\ OutputsInv'
    BY <1>1, <1>2, <1>3, <1>4 DEF AgreedAt, Dispatch, RegisteredInv, OutputsInv
  <2> QED
    BY <2>1, <2>2
<1>10. Replies(n)' /\ Posts' /\ HeldInv(webview, n)'
  BY <1>1, <1>2, <1>6, <1>7, <1>8 DEF AgreedAt, Replies, Posts, HeldInv
<1>11. Histories' /\ ReceivedInv'
  BY <1>1, <1>2, <1>3 DEF AgreedAt, Histories, ReceivedInv
<1>12. AgreedAt(n, t, e, b, k)'
  BY <1>1, <1>2, <1>3, <1>9, <1>10, <1>11 DEF AgreedAt
<1> QED
  BY <1>12 DEF Agreed

\* Every step of the extension and of the webview leaves them agreed on the hooks with which
\* either handles a message, whatever the kernel emits that follows its protocol (the two
\* ends of src/webviews/webview-side/ipywidgets/kernel/ and ipyWidgetMessageDispatcher.ts).
THEOREM AgreedNext == Assumptions /\ Agreed /\ [Next]_vars => Agreed'
<1> SUFFICES ASSUME Assumptions, Agreed, [Next]_vars PROVE Agreed'
  OBVIOUS
<1>0. PICK n, t, e, b, k \in Nat : AgreedAt(n, t, e, b, k)
  BY DEF Agreed
<1>1. CASE Request
  BY <1>0, <1>1, RequestAgrees
<1>2. CASE MirrorSend
  BY <1>0, <1>2, MirrorSendAgrees
<1>3. CASE Emit
  BY <1>0, <1>3, EmitAgrees
<1>4. CASE SocketMessage
  BY <1>0, <1>4, SocketMessageAgrees
<1>5. CASE HandleMessage
  <2>1. CASE Parent(Head(kernelChain)) \in dispatcher.hooks
    BY <1>0, <1>5, <2>1, AskingAgrees
  <2>2. CASE Parent(Head(kernelChain)) \notin dispatcher.hooks
    BY <1>0, <1>5, <2>2, ShowingAgrees
  <2> QED
    BY <2>1, <2>2
<1>6. CASE Restart
  BY <1>0, <1>6, RestartAgrees
<1>7. CASE OnReceived
  BY <1>0, <1>7, OnReceivedAgrees
<1>8. CASE OnHandled
  BY <1>0, <1>8, OnHandledAgrees
<1>9. CASE OnRegister
  BY <1>0, <1>9, OnRegisterAgrees
<1>10. CASE OnRemove
  BY <1>0, <1>10, OnRemoveAgrees
<1>11. CASE OnHookResult
  BY <1>0, <1>11, OnHookResultAgrees
<1>12. CASE DeliverMirror
  BY <1>0, <1>12, DeliverMirrorAgrees
<1>13. CASE DeliverMessage
  BY <1>0, <1>13, DeliverMessageAgrees
<1>14. CASE DeliverHookCall
  BY <1>0, <1>14, DeliverHookCallAgrees
<1>15. CASE DeliverFinished
  BY <1>0, <1>15, DeliverFinishedAgrees
<1>16. CASE DeliverRestart
  BY <1>0, <1>16, DeliverRestartAgrees
<1>17. CASE WebviewHandles
  BY <1>0, <1>17, WebviewHandlesAgrees
<1>18. CASE ModelCreated
  BY <1>0, <1>18, ModelCreatedAgrees
<1>19. CASE UNCHANGED vars
  BY <1>19, NothingChanges
<1> QED
  BY <1>1, <1>2, <1>3, <1>4, <1>5, <1>6, <1>7, <1>8, <1>9, <1>10, <1>11, <1>12, <1>13, <1>14,
     <1>15, <1>16, <1>17, <1>18, <1>19 DEF Next

\* TypeOK is part of what is agreed.
LEMMA AgreedTypes == Assumptions /\ Agreed => TypeOK
<1> SUFFICES ASSUME Assumptions, Agreed PROVE TypeOK
  OBVIOUS
<1>0. PICK n, t, e, b, k \in Nat : AgreedAt(n, t, e, b, k)
  BY DEF Agreed
<1>1. /\ Chains /\ Waits /\ Sending /\ Dispatch /\ Histories /\ View(webview, n, t)
  BY <1>0 DEF AgreedAt
<1>2. /\ passed \in Nat /\ handled \in Nat /\ handled <= passed /\ passed <= emitted
      /\ Len(msgChain) \in Nat /\ Len(kernelChain) \in Nat /\ emitted \in Nat
      /\ kernelChain # <<>> => Head(kernelChain) = handled + 1
  BY <1>1, ChainNumbers DEF Chains
<1>3. Messages = 1..Len(Script) /\ Len(Script) \in Nat /\ None \notin Nat
  BY ScriptFacts
<1>4. {requested, posted} \subseteq Requests \cup {0} /\ posted <= requested
  <2>1. requested \in Nat /\ posted \in Nat /\ posted <= requested /\ 1..requested \subseteq Requests
    BY <1>1 DEF Sending
  <2>2. \A i \in {requested, posted} : i = 0 \/ i \in 1..requested
    BY <2>1
  <2> QED
    BY <2>1, <2>2
<1>5. emitted \in Messages \cup {0}
  BY <1>1, <1>2, <1>3 DEF Chains
<1>6. ToSet(msgChain) \subseteq 1..emitted
  <2>1. \A i \in 1..Len(msgChain) : msgChain[i] \in 1..emitted
    <3>1. emitted = passed + Len(msgChain)
      BY <1>2 DEF passed
    <3>2. \A i \in 1..Len(msgChain) : msgChain[i] = passed + i
      BY <1>1 DEF Chains
    <3> QED
      BY <1>2, <3>1, <3>2
  <2>2. DOMAIN msgChain = 1..Len(msgChain)
    BY <1>1, LenProperties DEF Chains
  <2> QED
    BY <2>1, <2>2 DEF ToSet
<1>7. ToSet(kernelChain) \subseteq 1..emitted
  <2>1. \A i \in 1..Len(kernelChain) : kernelChain[i] \in 1..emitted
    <3>1. passed = handled + Len(kernelChain)
      BY <1>2 DEF handled
    <3>2. \A i \in 1..Len(kernelChain) : kernelChain[i] = handled + i
      BY <1>1 DEF Chains
    <3> QED
      BY <1>2, <3>1, <3>2
  <2>2. DOMAIN kernelChain = 1..Len(kernelChain)
    BY <1>1, LenProperties DEF Chains
  <2> QED
    BY <2>1, <2>2 DEF ToSet
<1>8. captured \cup shown \cup late \subseteq 1..emitted
  BY <1>1 DEF Histories
<1>9. awaits # "nothing" => msgChain # <<>> /\ dispatcher.full # None
  BY <1>1, <1>2, <1>3 DEF Waits
<1>10. hooking # None => kernelChain # <<>> /\ hooking = Head(kernelChain)
  BY <1>1, <1>2 DEF Waits
<1>11. /\ {dispatcher.full} \subseteq Messages \cup {None}
       /\ dispatcher.outputs \cup dispatcher.hooks \cup webview.known \cup webview.hooks
            \subseteq Requests
  BY <1>1 DEF Dispatch, View
<1> QED
  BY <1>4, <1>5, <1>6, <1>7, <1>8, <1>9, <1>10, <1>11 DEF TypeOK

\* So is that an output a widget captured is not shown in the cell as well.
LEMMA AgreedShowsOnce == Agreed => NoOutputTwice
BY DEF Agreed, AgreedAt, Histories, NoOutputTwice
===============================================================================

--------------------------- MODULE WidgetMessages ---------------------------
(***************************************************************************)
(* The messages of a kernel on their way to the cell and to the widgets in *)
(* the webview: the chains of RawSocket, the hooks of                      *)
(* IPyWidgetMessageDispatcher and the webview's ProxyKernel, which talks   *)
(* to the extension by messages delivered in order each way.  Both sides   *)
(* hold a kernel connection of JupyterLab, which handles one message after *)
(* the other and asks the hooks of a request before it handles an output.  *)
(* An output widget captures outputs with such a hook, so both sides have  *)
(* to register and remove it between the same two messages.  The webview   *)
(* takes a message's chain of promises to its end before the next message, *)
(* unless it awaits a widget's model.                                      *)
(***************************************************************************)
EXTENDS Integers, Sequences, FiniteSets, SequencesExt

CONSTANTS
    Script,   \* what the kernel emits: the request and kind of each message, in order
    None

VARIABLES
    requested,     \* execute requests sent through the socket: 1 .. requested
    mirroring,     \* the head of sendChain awaits the webview
    posted,        \* those the kernel has: 1 .. posted
    emitted,       \* messages the kernel emitted: 1 .. emitted
    msgChain,      \* msgChain of the socket
    awaits,        \* what the hook of its head awaits: "nothing", "received" or "handled"
    kernelChain,   \* messages the extension's kernel connection has to handle
    hooking,       \* the message whose hook result it awaits
    dispatcher,    \* isUsingIPyWidgets, outputWidgetIds, fullHandleMessage, messageHooks
                   \* and pendingHookRemovals
    toWebview,     \* messages posted to the webview
    toExtension,   \* messages posted to the extension
    webview,       \* ProxyKernel: the requests it knows, its kernel connection's chain, the
                   \* hooks, hookResults, lastHookedMessageId, awaitingExtensionMessage and
                   \* the messages it holds back until the extension has finished
    restarted,     \* the kernel was restarted (bound: once)
    discarded,     \* history: messages of the old socket that a restart cut off
    captured,      \* history: messages an output widget took
    shown,         \* history: messages handed to the cell
    late           \* history: messages the extension asked about before the webview had them

vars == <<requested, mirroring, posted, emitted, msgChain, awaits, kernelChain, hooking,
          dispatcher, toWebview, toExtension, webview, restarted, discarded, captured, shown,
          late>>

sending == <<requested, mirroring, posted>>
receiving == <<emitted, msgChain, awaits>>
handling == <<kernelChain, hooking>>

Messages == DOMAIN Script
Parent(m) == Script[m].request
Kind(m) == Script[m].kind
Requests == {Parent(m) : m \in Messages}

\* The outputs of m's request are captured when it comes.
Capturing(m) ==
    \E c \in Messages : c < m /\ Kind(c) = "capture" /\ Parent(c) = Parent(m) /\
        \A k \in Messages : c < k /\ k < m /\ Parent(k) = Parent(m) => Kind(k) # "release"

\* Its output widget is open then.
Opened(m) ==
    \E o \in Messages : o < m /\ Kind(o) = "open" /\ Parent(o) = Parent(m) /\
        \A k \in Messages : o < k /\ k < m /\ Parent(k) = Parent(m) => Kind(k) # "close"

\* What the kernel emits is about one request after the other; an output widget that is open
\* captures, and releases what it captures.
Protocol ==
    /\ \A i, j \in Messages : i <= j => Parent(i) <= Parent(j)
    /\ \A m \in Messages : Kind(m) = "release" => Capturing(m)
    /\ \A m \in Messages : Kind(m) \in {"capture", "release"} => Opened(m)

Message(type, id) == [type |-> type, id |-> id]

NewWebview ==
    [known |-> {}, chain |-> <<>>, creating |-> FALSE, hooks |-> {}, results |-> {},
     lastHooked |-> <<>>, awaiting |-> {}, held |-> <<>>]

Init ==
    /\ requested = 0 /\ mirroring = FALSE /\ posted = 0
    /\ emitted = 0
    /\ msgChain = <<>> /\ awaits = "nothing"
    /\ kernelChain = <<>> /\ hooking = None
    /\ dispatcher = [using |-> FALSE, outputs |-> {}, full |-> None, hooks |-> {},
                     removals |-> {}]
    /\ toWebview = <<>> /\ toExtension = <<>>
    /\ webview = NewWebview
    /\ restarted = FALSE /\ discarded = {}
    /\ captured = {} /\ shown = {} /\ late = {}

\* Promises run before the next message comes in, unless the connection awaits a hook.
Settled == kernelChain = <<>> \/ hooking # None

-----------------------------------------------------------------------------
(* The socket and its hooks *)

Request ==
    /\ requested + 1 \in Requests
    /\ requested' = requested + 1
    /\ UNCHANGED <<receiving, handling, mirroring, posted, dispatcher, toWebview,
                   toExtension, webview, restarted, discarded, captured, shown, late>>

\* The head of sendChain: mirrored to the webview, which is awaited once widgets are in use.
MirrorSend ==
    /\ ~mirroring /\ posted < requested
    /\ toWebview' = Append(toWebview, Message("mirror", posted + 1))
    /\ mirroring' = dispatcher.using
    /\ posted' = IF dispatcher.using THEN posted ELSE posted + 1
    /\ UNCHANGED <<receiving, handling, requested, dispatcher, toExtension, webview,
                   restarted, discarded, captured, shown, late>>

\* The kernel emits its next message, and onIncomingMessage chains it.
Emit ==
    /\ emitted + 1 \in Messages /\ Parent(emitted + 1) <= posted
    /\ emitted' = emitted + 1
    /\ msgChain' = Append(msgChain, emitted + 1)
    /\ UNCHANGED <<sending, handling, awaits, dispatcher, toWebview, toExtension,
                   webview, restarted, discarded, captured, shown, late>>

\* messageNeedsFullHandle
NeedsFullHandle(m) ==
    Kind(m) \in {"capture", "release"} /\ Parent(m) \in dispatcher.outputs

\* onKernelSocketMessage for the head of msgChain, which is then handed to the kernel
\* connection unless the hook awaits the webview.
SocketMessage ==
    /\ msgChain # <<>> /\ awaits = "nothing"
    /\ LET m == Head(msgChain)
       IN  /\ toWebview' = Append(toWebview, Message("message", m))
           /\ dispatcher' =
                [dispatcher EXCEPT
                    !.using = @ \/ Kind(m) \in {"open", "create"},
                    !.outputs = CASE Kind(m) = "open" -> @ \cup {Parent(m)}
                                  [] Kind(m) = "close" -> @ \ {Parent(m)}
                                  [] OTHER -> @,
                    !.full = IF NeedsFullHandle(m) THEN m ELSE @]
           /\ IF NeedsFullHandle(m)
              THEN awaits' = "received" /\ UNCHANGED <<msgChain, kernelChain>>
              ELSE /\ msgChain' = Tail(msgChain)
                   /\ kernelChain' = Append(kernelChain, m)
                   /\ UNCHANGED awaits
    /\ UNCHANGED <<sending, emitted, hooking, toExtension, webview, restarted,
                   discarded, captured, shown, late>>

\* The extension's kernel connection: a message of a request with a hook is asked about.
\* A removal that waited for this message is carried out.
HandleMessage ==
    /\ kernelChain # <<>> /\ hooking = None
    /\ LET m == Head(kernelChain)
       IN  IF Parent(m) \in dispatcher.hooks
           THEN /\ hooking' = m
                /\ toWebview' = Append(toWebview, Message("hookCall", m))
                /\ dispatcher' = [dispatcher EXCEPT
                                    !.hooks = @ \ {x.hook : x \in {y \in dispatcher.removals : y.last = m}},
                                    !.removals = {x \in @ : x.last # m}]
                /\ UNCHANGED <<kernelChain, shown>>
           ELSE /\ shown' = shown \cup {m}
                /\ kernelChain' = Tail(kernelChain)
                /\ UNCHANGED <<hooking, toWebview, dispatcher>>
    /\ UNCHANGED <<sending, receiving, toExtension, webview, restarted, discarded,
                   captured, late>>

\* The kernel is restarted and its socket replaced: subscribeToKernelSocketImpl discards the
\* hooks and tells the webview.  What the old socket and connection hold goes nowhere.
Restart ==
    /\ ~restarted
    /\ restarted' = TRUE
    /\ posted' = requested /\ mirroring' = FALSE
    /\ emitted' = Cardinality({m \in Messages : Parent(m) <= requested})
    /\ discarded' = ToSet(msgChain) \cup ToSet(kernelChain) \cup (emitted + 1)..emitted'
    /\ msgChain' = <<>> /\ awaits' = "nothing"
    /\ kernelChain' = <<>> /\ hooking' = None
    /\ dispatcher' = [dispatcher EXCEPT !.hooks = {}]
    /\ toWebview' = Append(toWebview, Message("restart", None))
    /\ UNCHANGED <<requested, toExtension, webview, captured, shown, late>>

-----------------------------------------------------------------------------
(* Messages of the webview: receiveMessage *)

Receive(type) ==
    /\ Settled
    /\ toExtension # <<>> /\ Head(toExtension).type = type
    /\ toExtension' = Tail(toExtension)

\* onKernelSocketResponse: a request can be posted, an update was received.
OnReceived ==
    /\ Receive("received")
    /\ LET ofRequest == mirroring /\ Head(toExtension).id = Message("mirror", posted + 1)
       IN  /\ mirroring' = (mirroring /\ ~ofRequest)
           /\ posted' = IF ofRequest THEN posted + 1 ELSE posted
    /\ awaits' = IF awaits = "received" /\ Head(toExtension).id = Message("message", Head(msgChain))
                 THEN "handled" ELSE awaits
    /\ UNCHANGED <<handling, requested, emitted, msgChain, dispatcher, toWebview,
                   webview, restarted, discarded, captured, shown, late>>

\* iopubMessageHandled
OnHandled ==
    /\ Receive("handled")
    /\ LET m == Head(toExtension).id
       IN  IF dispatcher.full = m
           THEN /\ dispatcher' = [dispatcher EXCEPT !.full = None]
                /\ IF awaits = "handled" /\ Head(msgChain) = m
                   THEN /\ awaits' = "nothing"
                        /\ msgChain' = Tail(msgChain)
                        /\ kernelChain' = Append(kernelChain, m)
                   ELSE UNCHANGED <<awaits, msgChain, kernelChain>>
           ELSE UNCHANGED <<dispatcher, awaits, msgChain, kernelChain>>
    /\ UNCHANGED <<sending, emitted, hooking, toWebview, webview, restarted, discarded,
                   captured, shown, late>>

\* registerMessageHook: answered whether or not there was a hook.
OnRegister ==
    /\ Receive("register")
    /\ LET r == Head(toExtension).id
       IN  /\ dispatcher' = [dispatcher EXCEPT !.hooks = @ \cup {r}]
           /\ toWebview' = Append(toWebview, Message("finished", <<r, "register">>))
    /\ UNCHANGED <<sending, receiving, handling, webview, restarted, discarded,
                   captured, shown, late>>

\* Mutant: the hook is removed at once, though a message it was asked about has yet to come.
OnRemoveMutant ==
    /\ Receive("remove")
    /\ LET args == Head(toExtension).id
       IN  /\ dispatcher' = [dispatcher EXCEPT !.hooks = @ \ {args.hook}]
           /\ toWebview' = Append(toWebview, Message("finished", <<args.hook, "remove">>))
    /\ UNCHANGED <<sending, receiving, handling, webview, restarted, discarded,
                   captured, shown, late>>

\* possiblyRemoveMessageHook: once the last message the hook was asked about is handled.
OnRemove ==
    /\ Receive("remove")
    /\ LET args == Head(toExtension).id
       IN  /\ dispatcher' = IF args.last = None
                            THEN [dispatcher EXCEPT !.hooks = @ \ {args.hook}]
                            ELSE [dispatcher EXCEPT !.removals = @ \cup {args}]
           /\ toWebview' = Append(toWebview, Message("finished", <<args.hook, "remove">>))
    /\ UNCHANGED <<sending, receiving, handling, webview, restarted, discarded,
                   captured, shown, late>>

\* handleMessageHookResponse: a message of a comm is handled whatever the result.
OnHookResult ==
    /\ Receive("hookResult")
    /\ LET m == Head(toExtension).id.of
       IN  IF hooking = m
           THEN /\ hooking' = None
                /\ kernelChain' = Tail(kernelChain)
                /\ shown' = IF Kind(m) # "print" \/ Head(toExtension).id.result
                            THEN shown \cup {m} ELSE shown
           ELSE UNCHANGED <<hooking, kernelChain, shown>>
    /\ UNCHANGED <<sending, receiving, dispatcher, toWebview, webview, restarted,
                   discarded, captured, late>>

-----------------------------------------------------------------------------
(* The webview *)

Deliver(type) ==
    /\ webview.chain = <<>> \/ webview.creating
    /\ toWebview # <<>> /\ Head(toWebview).type = type
    /\ toWebview' = Tail(toWebview)

UnchangedInExtension ==
    UNCHANGED <<sending, receiving, handling, dispatcher, restarted, discarded, shown>>

\* handleMirrorExecute: the webview's connection gets a future for the request.
DeliverMirror ==
    /\ Deliver("mirror")
    /\ webview' = [webview EXCEPT !.known = @ \cup {Head(toWebview).id}]
    /\ toExtension' = Append(toExtension, Message("received", Head(toWebview)))
    /\ UnchangedInExtension /\ UNCHANGED <<captured, late>>

DeliverMessage ==
    /\ Deliver("message")
    /\ webview' = [webview EXCEPT !.chain = Append(@, Head(toWebview).id)]
    /\ toExtension' = Append(toExtension, Message("received", Head(toWebview)))
    /\ UnchangedInExtension /\ UNCHANGED <<captured, late>>

\* Mutant: without a result the message is not handled.
DeliverHookCallMutant ==
    /\ Deliver("hookCall")
    /\ LET m == Head(toWebview).id
       IN  /\ toExtension' = Append(toExtension,
                                    Message("hookResult", [of |-> m, result |-> FALSE]))
           /\ webview' = [webview EXCEPT !.results = @ \ {m}]
           /\ late' = IF m \in ToSet(webview.chain) THEN late \cup {m} ELSE late
    /\ UnchangedInExtension /\ UNCHANGED captured

\* sendHookResult: the result of the hook was kept (it is false), or there is none.
DeliverHookCall ==
    /\ Deliver("hookCall")
    /\ LET m == Head(toWebview).id
       IN  /\ toExtension' = Append(toExtension,
                Message("hookResult", [of |-> m, result |-> m \notin webview.results]))
           /\ webview' = [webview EXCEPT !.results = @ \ {m}]
           /\ late' = IF m \in ToSet(webview.chain) THEN late \cup {m} ELSE late
    /\ UnchangedInExtension /\ UNCHANGED captured

\* The elements of s at some positions, in their order.
Those(s, positions) ==
    [k \in 1..Cardinality(positions) |->
        s[CHOOSE i \in positions : Cardinality({j \in positions : j < i}) = k - 1]]

\* extensionOperationFinished: messages held back for nothing else are reported as handled.
DeliverFinished ==
    /\ Deliver("finished")
    /\ LET key == Head(toWebview).id
           left == [i \in DOMAIN webview.held |->
                        [webview.held[i] EXCEPT !.keys = @ \ {key}]]
           done == {i \in DOMAIN left : left[i].keys = {}}
       IN  /\ webview' = [webview EXCEPT !.awaiting = @ \ {key},
                                         !.held = Those(left, DOMAIN left \ done)]
           /\ toExtension' = toExtension \o
                [k \in 1..Cardinality(done) |-> Message("handled", Those(left, done)[k].of)]
    /\ UnchangedInExtension /\ UNCHANGED <<captured, late>>

\* onRestartKernel and the kernelOptions that follow: a new ProxyKernel.
DeliverRestart ==
    /\ Deliver("restart")
    /\ webview' = NewWebview
    /\ UnchangedInExtension /\ UNCHANGED <<toExtension, captured, late>>

\* The webview's connection handles the head of its chain: the hook of its request, then the
\* comm; then onIOPubMessage reports it as handled, or waits for the extension.
Finish(w, posts, m) ==
    IF w.awaiting = {}
    THEN /\ webview' = [w EXCEPT !.chain = Tail(@), !.creating = FALSE]
         /\ toExtension' = toExtension \o posts \o <<Message("handled", m)>>
    ELSE /\ webview' = [w EXCEPT !.chain = Tail(@), !.creating = FALSE,
                                 !.held = Append(@, [of |-> m, keys |-> w.awaiting])]
         /\ toExtension' = toExtension \o posts

\* The request has a future, and that a hook.
HasHook(w, m) == Parent(m) \in w.known \cap w.hooks

Hooked(w, m) ==
    IF HasHook(w, m)
    THEN [w EXCEPT !.results = @ \cup {m}, !.lastHooked = Append(@, m)]
    ELSE w

\* registerMessageHook and removeMessageHook of the output widget.  The hooks below the
\* current one (item.previous) are left out: a capture in a capture counts as that capture,
\* and the first of the releases removes its hook (bound; MCScript does not nest captures).
Capture(w, r) ==
    [w EXCEPT !.hooks = @ \cup {r}, !.awaiting = @ \cup {<<r, "register">>}]

Release(w, r) ==
    [w EXCEPT !.hooks = @ \ {r}, !.awaiting = @ \cup {<<r, "remove">>},
              !.lastHooked = IF @ = <<>> THEN @ ELSE Front(@)]

WebviewHandles ==
    /\ webview.chain # <<>> /\ ~webview.creating
    /\ LET m == Head(webview.chain)
           r == Parent(m)
           w == Hooked(webview, m)
       IN  /\ captured' = IF HasHook(webview, m) /\ Kind(m) = "print"
                          THEN captured \cup {m} ELSE captured
           /\ CASE Kind(m) = "capture" -> Finish(Capture(w, r), <<Message("register", r)>>, m)
                [] Kind(m) = "release" ->
                     LET last == IF w.lastHooked = <<>> THEN None ELSE Last(w.lastHooked)
                     IN  Finish(Release(w, r),
                                <<Message("remove", [hook |-> r, last |-> last])>>, m)
                [] Kind(m) \in {"open", "create"} ->
                     webview' = [w EXCEPT !.creating = TRUE] /\ UNCHANGED toExtension
                [] OTHER -> Finish(w, <<>>, m)
    /\ UnchangedInExtension /\ UNCHANGED <<toWebview, late>>

\* The model of a widget has been created; its module may have had to be loaded.
ModelCreated ==
    /\ webview.creating
    /\ Finish(webview, <<>>, Head(webview.chain))
    /\ UnchangedInExtension /\ UNCHANGED <<toWebview, captured, late>>

Next ==
    \/ Request \/ MirrorSend \/ Emit \/ SocketMessage \/ HandleMessage \/ Restart
    \/ OnReceived \/ OnHandled \/ OnRegister \/ OnRemove \/ OnHookResult
    \/ DeliverMirror \/ DeliverMessage \/ DeliverHookCall \/ DeliverFinished \/ DeliverRestart
    \/ WebviewHandles \/ ModelCreated

\* Promises are run, messages are delivered both ways, and models are created.
FairStep ==
    \/ MirrorSend \/ SocketMessage \/ HandleMessage
    \/ OnReceived \/ OnHandled \/ OnRegister \/ OnRemove \/ OnHookResult
    \/ DeliverMirror \/ DeliverMessage \/ DeliverHookCall \/ DeliverFinished \/ DeliverRestart
    \/ WebviewHandles \/ ModelCreated

Spec == Init /\ [][Next]_vars /\ WF_vars(FairStep)

-----------------------------------------------------------------------------
(* Properties *)

TypeOK ==
    /\ {requested, posted} \subseteq Requests \cup {0} /\ posted <= requested
    /\ emitted \in Messages \cup {0}
    /\ ToSet(msgChain) \cup ToSet(kernelChain) \cup captured \cup shown \cup late
         \subseteq 1..emitted
    /\ awaits # "nothing" => msgChain # <<>> /\ dispatcher.full # None
    /\ hooking # None => kernelChain # <<>> /\ hooking = Head(kernelChain)
    /\ {dispatcher.full} \subseteq Messages \cup {None}
    /\ dispatcher.outputs \cup dispatcher.hooks \cup webview.known \cup webview.hooks
         \subseteq Requests

\* An output is shown in the cell or captured by a widget, never lost between the two: the
\* extension keeps it from the cell only when the webview's widget has taken it.
NoOutputLost ==
    \A m \in 1..emitted : Kind(m) = "print" =>
        m \in ToSet(msgChain) \cup ToSet(kernelChain) \cup shown \cup captured \cup discarded

\* An output captured by a widget is not shown in the cell as well: the hook is registered
\* and removed between the same two messages on both sides.  There are two exceptions: a
\* message the extension asked about while the webview was still creating the model of a
\* widget, and a message of a request that has captured and released before, whose hook may
\* be kept for its removal when it is registered again (registerMessageHook then does
\* nothing), and is removed after that.
ReleasedBefore(m) ==
    \E k \in Messages : k < m /\ Kind(k) = "release" /\ Parent(k) = Parent(m)

NoOutputTwice == \A m \in captured \cap shown : m \in late \/ ReleasedBefore(m)

\* Every request has reached the kernel and every message its connection in the extension:
\* so it ends, whatever hooks, held messages and restarts there are, and nobody waits for
\* the webview for ever.
NothingBlocked == posted = requested /\ msgChain = <<>>
=============================================================================

---------------------------- MODULE AsyncEmitter ----------------------------
(***************************************************************************)
(* AsyncEmitter of src/platform/common/utils/events.ts: an event whose     *)
(* listeners are called one after the other, each awaited.  Kernels fire   *)
(* their events through one emitter of the kernel provider, so fireAsync   *)
(* of one event runs beside fireAsync of others, all on one delivery       *)
(* queue.                                                                  *)
(***************************************************************************)
EXTENDS Integers, Sequences, FiniteSets, SequencesExt

CONSTANTS
    Listeners,   \* who subscribes
    WithThis,    \* those of them subscribed with a thisArg
    Events       \* events, each fired once, with a token of its own

VARIABLES
    listeners,   \* _listeners, in the order of the set
    queue,       \* _asyncDeliveryQueue
    fire,        \* fireAsync of an event: "new", "awaiting" a listener or "returned"
    cancelled,   \* events whose token is cancelled
    fired,       \* history: the events in the order they were fired
    expected,    \* history: the deliveries an event was to make when it was fired
    delivered    \* history: the calls of listeners

vars == <<listeners, queue, fire, cancelled, fired, expected, delivered>>

Init ==
    /\ listeners = <<>>
    /\ queue = <<>>
    /\ fire = [e \in Events |-> "new"]
    /\ cancelled = {}
    /\ fired = <<>>
    /\ expected = {}
    /\ delivered = <<>>

\* Mutant: the listeners are an array.
SubscribeMutant(l) ==
    /\ listeners' = Append(listeners, l)
    /\ Len(listeners) < 3
    /\ UNCHANGED <<queue, fire, cancelled, fired, expected, delivered>>

Subscribe(l) ==
    /\ l \notin ToSet(listeners)
    /\ listeners' = Append(listeners, l)
    /\ UNCHANGED <<queue, fire, cancelled, fired, expected, delivered>>

\* The set holds the bound function of a listener with a thisArg, and its disposable
\* deletes the unbound one.
Unsubscribe(l) ==
    /\ \E p \in DOMAIN listeners :
          /\ listeners[p] = l
          /\ listeners' = IF l \in WithThis THEN listeners ELSE RemoveAt(listeners, p)
    /\ UNCHANGED <<queue, fire, cancelled, fired, expected, delivered>>

\* Mutant: a listener that throws ends the loop.
DeliverMutant(e, entries) ==
    IF e \in cancelled \/ entries = <<>>
    THEN /\ queue' = entries
         /\ fire' = [fire EXCEPT ![e] = "returned"]
         /\ UNCHANGED delivered
    ELSE \E ending \in {"returned", "awaiting"} :
            /\ delivered' = Append(delivered, Head(entries))
            /\ queue' = Tail(entries)
            /\ fire' = [fire EXCEPT ![e] = ending]

\* The loop of fireAsync up to the next listener it awaits: listeners before it throw.
Deliver(e, entries) ==
    IF e \in cancelled
    THEN /\ queue' = entries
         /\ fire' = [fire EXCEPT ![e] = "returned"]
         /\ UNCHANGED delivered
    ELSE \E thrown \in 0..Len(entries) :
            LET awaits == thrown < Len(entries)
                called == IF awaits THEN thrown + 1 ELSE thrown
            IN  /\ delivered' = delivered \o SubSeq(entries, 1, called)
                /\ queue' = SubSeq(entries, called + 1, Len(entries))
                /\ fire' = [fire EXCEPT ![e] = IF awaits THEN "awaiting" ELSE "returned"]

Entries(e) == [p \in DOMAIN listeners |-> [listener |-> listeners[p], event |-> e]]

\* Mutant: an event is delivered before those that wait.
FireAsyncMutant(e) ==
    /\ fire[e] = "new"
    /\ fired' = Append(fired, e)
    /\ expected' = expected \cup ToSet(Entries(e))
    /\ Deliver(e, Entries(e) \o queue)
    /\ UNCHANGED <<listeners, cancelled>>

FireAsync(e) ==
    /\ fire[e] = "new"
    /\ fired' = Append(fired, e)
    /\ expected' = expected \cup ToSet(Entries(e))
    /\ Deliver(e, queue \o Entries(e))
    /\ UNCHANGED <<listeners, cancelled>>

\* The promises the awaited listener passed to waitUntil settle, and the loop goes on.
ListenerSettles(e) ==
    /\ fire[e] = "awaiting"
    /\ Deliver(e, queue)
    /\ UNCHANGED <<listeners, cancelled, fired, expected>>

CancelToken(e) ==
    /\ e \notin cancelled
    /\ cancelled' = cancelled \cup {e}
    /\ UNCHANGED <<listeners, queue, fire, fired, expected, delivered>>

Next ==
    \/ \E l \in Listeners : Subscribe(l) \/ Unsubscribe(l)
    \/ \E e \in Events : FireAsync(e) \/ ListenerSettles(e) \/ CancelToken(e)

\* What listeners wait for settles.
FairStep == \E e \in Events : ListenerSettles(e)

Spec == Init /\ [][Next]_vars /\ WF_vars(FairStep)

-----------------------------------------------------------------------------
(* Properties *)

\* What is in the queue was expected and not delivered before.
TypeOK ==
    /\ ToSet(listeners) \subseteq Listeners /\ IsInjective(listeners)
    /\ ToSet(queue) \subseteq expected \ ToSet(delivered)
    /\ fire \in [Events -> {"new", "awaiting", "returned"}]
    /\ cancelled \subseteq Events
    /\ ToSet(fired) = {e \in Events : fire[e] # "new"}
    /\ ToSet(delivered) \subseteq expected

\* A listener is called with the events in the order they were fired, with each at most
\* once, although every fireAsync takes whatever is first in the queue they share and
\* entries of cancelled events are left to the next.
InOrder ==
    \A p, q \in DOMAIN delivered :
        p < q /\ delivered[p].listener = delivered[q].listener =>
            \E i, j \in DOMAIN fired :
                i < j /\ fired[i] = delivered[p].event /\ fired[j] = delivered[q].event

\* When fireAsync of an event has returned and its token is not cancelled, every listener
\* that was subscribed has been called with it: by its own loop, or by that of another
\* event, cancelled or not.
NobodyMissed ==
    \A d \in expected :
        fire[d.event] = "returned" /\ d.event \notin cancelled => d \in ToSet(delivered)

\* No fireAsync awaits a listener: so it ends, although its loop delivers the events of
\* others as well and finds the queue drained by theirs.
AllReturned == \A e \in Events : fire[e] # "awaiting"
=============================================================================

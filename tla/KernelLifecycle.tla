--------------------------- MODULE KernelLifecycle ---------------------------
(***************************************************************************)
(* The life of one kernel (BaseKernel in src/kernels/kernel.ts): the calls *)
(* of start, restart and dispose that share its session, the promise of    *)
(* that session and the start event extensions handle (onPostInitialized). *)
(*                                                                         *)
(* Every call runs until it awaits something; pc says what.  What runs     *)
(* when a promise settles (Ready) comes before any input from outside      *)
(* (Quiescent), as microtasks come before macrotasks.                      *)
(*                                                                         *)
(* A session is named after the call whose createJupyterSession made it.   *)
(***************************************************************************)
EXTENDS Naturals, FiniteSets

CONSTANTS
    UserStarts,   \* start() with the user interface enabled
    QuietStarts,  \* start() with disableUI: no event is fired
    CodeStarts,   \* start() on behalf of an extension's executeCode
    Restarts,     \* restart()
    Disposals,    \* dispose(); a second call gets the promise of the first
    MayDie,       \* the sessions that may be disposed from outside the kernel
    NoCall

Starters == UserStarts \cup QuietStarts \cup CodeStarts
Calls == Starters \cup Restarts \cup Disposals

ASSUME LifecycleAssumption ==
    /\ NoCall \notin Calls
    /\ Starters \cap (Restarts \cup Disposals) = {}
    /\ Restarts \cap Disposals = {}
    /\ UserStarts \cap QuietStarts = {}
    /\ CodeStarts \cap (UserStarts \cup QuietStarts) = {}
    /\ Cardinality(Disposals) <= 1 /\ IsFiniteSet(Disposals)
    /\ MayDie \subseteq Calls

VARIABLES
    sessionPromise,  \* _jupyterSessionPromise: the call whose attempt it is, or NoCall
    session,         \* _session
    attempt,         \* where the createJupyterSession of every call is
    sessionState,    \* "none", "alive", "dying" (dispose() was called) or "dead"
    hooked,          \* hookedSessionForEvents
    tokenCancelled,  \* startCancellation is cancelled
    ignoreDisposed,  \* _ignoreJupyterSessionDisposedErrors
    postInit,        \* _postInitializedOnStartPromise: the number of an event, or 0
    fired,           \* the number of events fired
    handling,        \* the events whose handlers have not finished
    inProgress,      \* _isPostInitializedInProgress
    handlerOf,       \* the event whose handler made the call, or 0
    pc,              \* where every call is
    waitsFor,        \* the attempt or the session it awaits
    waitsEvent,      \* the event it awaits, or 0
    announced        \* history: sessions that had an event since they were (re)started

sessionVars == <<sessionPromise, session, attempt, sessionState, hooked>>
eventVars   == <<postInit, fired, handling, inProgress, announced>>
flagVars    == <<tokenCancelled, ignoreDisposed>>
callVars    == <<pc, waitsFor, waitsEvent, handlerOf>>
vars == <<sessionVars, eventVars, flagVars, callVars>>

AttemptStates == {"none", "tracking", "creating", "cutOff", "didStart", "initializing",
                  "resolved", "rejected"}
PCs == {"idle", "session", "sessionOnly", "event", "lastEvent", "willRestart", "awaitSession",
        "restarting", "restarted", "restartFailed", "started", "didStart", "initializing",
        "killing", "disposing", "closing", "stuck", "returned", "rejected"}

TypeOK ==
    /\ sessionPromise \in Calls \cup {NoCall}
    /\ session \in Calls \cup {NoCall}
    /\ attempt \in [Calls -> AttemptStates]
    /\ sessionState \in [Calls -> {"none", "alive", "dying", "dead"}]
    /\ hooked \subseteq Calls
    /\ tokenCancelled \in BOOLEAN
    /\ ignoreDisposed \in BOOLEAN
    /\ fired \in Nat
    /\ postInit \in 0..fired
    /\ handling \subseteq 1..fired
    /\ inProgress \in BOOLEAN
    /\ handlerOf \in [Calls -> 0..fired]
    /\ pc \in [Calls -> PCs]
    /\ waitsFor \in [Calls -> Calls \cup {NoCall}]
    /\ waitsEvent \in [Calls -> 0..fired]
    /\ announced \subseteq Calls

Init ==
    /\ sessionPromise = NoCall
    /\ session = NoCall
    /\ attempt = [c \in Calls |-> "none"]
    /\ sessionState = [c \in Calls |-> "none"]
    /\ hooked = {}
    /\ tokenCancelled = FALSE
    /\ ignoreDisposed = FALSE
    /\ postInit = 0
    /\ fired = 0
    /\ handling = {}
    /\ inProgress = FALSE
    /\ handlerOf = [c \in Calls |-> 0]
    /\ pc = [c \in Calls |-> "idle"]
    /\ waitsFor = [c \in Calls |-> NoCall]
    /\ waitsEvent = [c \in Calls |-> 0]
    /\ announced = {}

-----------------------------------------------------------------------------

Disposing == \E d \in Disposals : pc[d] # "idle"
Over(a) == attempt[a] \in {"resolved", "rejected"}
InFlight(a) == attempt[a] \notin {"none", "resolved", "rejected"}
Ended == {"returned", "rejected"}

\* The promise the call awaits has settled.
Ready(c) ==
    \/ pc[c] \in {"session", "sessionOnly", "awaitSession", "disposing"} /\ Over(waitsFor[c])
    \/ pc[c] \in {"started", "restarted", "restartFailed"}
    \/ pc[c] \in {"killing", "closing"} /\ sessionState[waitsFor[c]] = "dead"

Quiescent == \A c \in Calls : ~Ready(c)

\* start() returns, or throws, to its caller; that of a restart is the restart.
Done(c) == IF c \in Restarts THEN "started" ELSE "returned"
Thrown(c) == IF c \in Restarts THEN "restartFailed" ELSE "rejected"

\* startCancellation.cancel() reaches the creations under way, which have its token.
CutOff == [a \in Calls |-> IF attempt[a] = "creating" THEN "cutOff" ELSE attempt[a]]

\* Mutant: only the promise of a session that was disposed is forgotten.
OnDidDisposeMutant(s) ==
    IF s \in hooked /\ ~ignoreDisposed
      THEN sessionPromise' = NoCall /\ postInit' = 0 /\ UNCHANGED session
      ELSE UNCHANGED <<sessionPromise, postInit, session>>

\* The listener on session.onDidDispose, when session s is disposed.
OnDidDispose(s) ==
    IF s \in hooked /\ ~ignoreDisposed
      THEN sessionPromise' = NoCall /\ postInit' = 0 /\ session' = NoCall
      ELSE UNCHANGED <<sessionPromise, postInit, session>>

-----------------------------------------------------------------------------
(* start() and createJupyterSession() *)

\* Mutant: a kernel that has been disposed starts again.
StartDisposedMutant(c, wait, attempts) ==
    /\ tokenCancelled' = FALSE
    /\ pc' = [pc EXCEPT ![c] = wait]
    /\ sessionPromise' = IF sessionPromise = NoCall THEN c ELSE sessionPromise
    /\ attempt' = IF sessionPromise = NoCall THEN [attempts EXCEPT ![c] = "tracking"] ELSE attempts
    /\ waitsFor' = [waitsFor EXCEPT ![c] = sessionPromise']

\* start() up to its first await: a cancelled token is replaced; a kernel that is being
\* disposed refuses; the promise of the session is shared.
StartSession(c, wait, attempts) ==
    /\ tokenCancelled' = FALSE
    /\ IF Disposing
         THEN /\ pc' = [pc EXCEPT ![c] = Thrown(c)]
              /\ attempt' = attempts
              /\ UNCHANGED <<sessionPromise, waitsFor>>
         ELSE /\ pc' = [pc EXCEPT ![c] = wait]
              /\ IF sessionPromise = NoCall
                   THEN /\ sessionPromise' = c
                        /\ attempt' = [attempts EXCEPT ![c] = "tracking"]
                        /\ waitsFor' = [waitsFor EXCEPT ![c] = c]
                   ELSE /\ attempt' = attempts
                        /\ waitsFor' = [waitsFor EXCEPT ![c] = sessionPromise]
                        /\ UNCHANGED sessionPromise

Start(c) ==
    /\ Quiescent
    /\ pc[c] = "idle"
    /\ StartSession(c, IF c \in QuietStarts THEN "sessionOnly" ELSE "session", attempt)
    /\ UNCHANGED <<session, sessionState, hooked, ignoreDisposed, eventVars, waitsEvent, handlerOf>>

\* Mutant: executeCode awaits the event it is called from.
CodeStartMutant(c, n) ==
    /\ Quiescent
    /\ pc[c] = "idle"
    /\ \A r \in Restarts : pc[r] # "restarting"
    /\ StartSession(c, "session", attempt)
    /\ handlerOf' = [handlerOf EXCEPT ![c] = n]
    /\ UNCHANGED <<session, sessionState, hooked, ignoreDisposed, eventVars, waitsEvent>>

\* executeCode waits for a restart and does not await the event it is called from.
CodeStart(c, n) ==
    /\ Quiescent
    /\ pc[c] = "idle"
    /\ \A r \in Restarts : pc[r] # "restarting"
    /\ StartSession(c, IF inProgress THEN "sessionOnly" ELSE "session", attempt)
    /\ handlerOf' = [handlerOf EXCEPT ![c] = n]
    /\ UNCHANGED <<session, sessionState, hooked, ignoreDisposed, eventVars, waitsEvent>>

\* An attempt fails: the call that started it cancels the token and clears the promise,
\* and all calls of start() that share it throw.
AttemptFails(a) ==
    /\ attempt' = [CutOff EXCEPT ![a] = "rejected"]
    /\ tokenCancelled' = TRUE
    /\ pc' = [c \in Calls |->
                 IF pc[c] \in {"session", "sessionOnly"} /\ waitsFor[c] = a
                   THEN Thrown(c) ELSE pc[c]]

\* Telemetry has been sent: create() is called with the token, unless it is cancelled.
Track(a) ==
    /\ Quiescent
    /\ attempt[a] = "tracking"
    /\ \/ /\ Disposing \/ tokenCancelled
          /\ AttemptFails(a)
          /\ sessionPromise' = NoCall
       \/ /\ ~Disposing /\ ~tokenCancelled
          /\ attempt' = [attempt EXCEPT ![a] = "creating"]
          /\ UNCHANGED <<tokenCancelled, pc, sessionPromise>>
    /\ UNCHANGED <<session, sessionState, hooked, ignoreDisposed, eventVars, waitsFor, waitsEvent,
                   handlerOf>>

\* create() returns a session or throws; cancelled, it shuts down what it made and throws.
Create(a) ==
    /\ Quiescent
    /\ attempt[a] \in {"creating", "cutOff"}
    /\ \/ /\ AttemptFails(a)
          /\ sessionPromise' = NoCall
          /\ UNCHANGED sessionState
       \/ /\ attempt[a] = "creating"
          /\ attempt' = [attempt EXCEPT ![a] = "didStart"]
          /\ sessionState' = [sessionState EXCEPT ![a] = "alive"]
          /\ UNCHANGED <<tokenCancelled, pc, sessionPromise>>
    /\ UNCHANGED <<session, hooked, ignoreDisposed, eventVars, waitsFor, waitsEvent, handlerOf>>

\* Mutant: the kernel listens to the session it has, not to the one that started.
DidStartMutant(a) ==
    /\ Quiescent
    /\ attempt[a] = "didStart"
    /\ attempt' = [attempt EXCEPT ![a] = "initializing"]
    /\ hooked' = hooked \cup {session}
    /\ UNCHANGED <<sessionPromise, session, sessionState, eventVars, flagVars, callVars>>

\* The didStart hooks have run and the kernel listens to the session.
DidStart(a) ==
    /\ Quiescent
    /\ attempt[a] = "didStart"
    /\ attempt' = [attempt EXCEPT ![a] = "initializing"]
    /\ hooked' = hooked \cup {a}
    /\ UNCHANGED <<sessionPromise, session, sessionState, eventVars, flagVars, callVars>>

\* initializeAfterStart() returns; a kernel that is being disposed throws all the same.
Initialized(a) ==
    /\ Quiescent
    /\ attempt[a] = "initializing"
    /\ sessionState[a] = "alive"
    /\ \/ /\ Disposing
          /\ AttemptFails(a)
          /\ sessionPromise' = NoCall
          /\ UNCHANGED session
       \/ /\ ~Disposing
          /\ attempt' = [attempt EXCEPT ![a] = "resolved"]
          /\ session' = a
          /\ UNCHANGED <<tokenCancelled, pc, sessionPromise>>
    /\ UNCHANGED <<sessionState, hooked, ignoreDisposed, eventVars, waitsFor, waitsEvent, handlerOf>>

\* A startup request to the kernel throws.
InitializeThrows(a) ==
    /\ Quiescent
    /\ attempt[a] = "initializing"
    /\ AttemptFails(a)
    /\ sessionPromise' = NoCall
    /\ UNCHANGED <<session, sessionState, hooked, ignoreDisposed, eventVars, waitsFor, waitsEvent,
                   handlerOf>>

\* waitForIdle fails (time-out, cancelled, disposed): it shuts the session down and throws.
NotIdle(a) ==
    /\ Quiescent
    /\ attempt[a] = "initializing"
    /\ sessionState[a] = "alive"
    /\ sessionState' = [sessionState EXCEPT ![a] = "dead"]
    /\ AttemptFails(a)
    /\ sessionPromise' = NoCall
    /\ IF ignoreDisposed THEN UNCHANGED <<postInit, session>>
                         ELSE postInit' = 0 /\ session' = NoCall
    /\ UNCHANGED <<hooked, ignoreDisposed, fired, handling, inProgress, announced, waitsFor,
                   waitsEvent, handlerOf>>

-----------------------------------------------------------------------------
(* triggerOnDidStartKernel() and the handlers of the event *)

\* Mutant: the flag is set although no handler is called.
FireMutant(c, wait, done) ==
    LET n == fired + 1 IN
    /\ fired' = n
    /\ postInit' = n
    /\ announced' = announced \cup ({session} \cap Calls)
    /\ inProgress' = TRUE
    /\ IF tokenCancelled
         THEN /\ pc' = [pc EXCEPT ![c] = done]
              /\ UNCHANGED <<handling, waitsEvent>>
         ELSE /\ pc' = [pc EXCEPT ![c] = wait]
              /\ handling' = handling \cup {n}
              /\ waitsEvent' = [waitsEvent EXCEPT ![c] = n]

\* The event is fired; with a cancelled token it reaches no handler and is over at once.
Fire(c, wait, done) ==
    LET n == fired + 1 IN
    /\ fired' = n
    /\ postInit' = n
    /\ announced' = announced \cup ({session} \cap Calls)
    /\ inProgress' = ~tokenCancelled
    /\ IF tokenCancelled
         THEN /\ pc' = [pc EXCEPT ![c] = done]
              /\ UNCHANGED <<handling, waitsEvent>>
         ELSE /\ pc' = [pc EXCEPT ![c] = wait]
              /\ handling' = handling \cup {n}
              /\ waitsEvent' = [waitsEvent EXCEPT ![c] = n]

\* Mutant: a later start fires the event again when the handlers have finished.
JoinedMutant(c) ==
    /\ pc[c] \in {"session", "sessionOnly"}
    /\ Over(waitsFor[c])
    /\ \/ /\ pc[c] = "session" /\ postInit \notin handling
          /\ Fire(c, "event", Done(c))
       \/ /\ pc[c] = "sessionOnly"
          /\ pc' = [pc EXCEPT ![c] = Done(c)]
          /\ UNCHANGED <<eventVars, waitsEvent>>
    /\ UNCHANGED <<sessionVars, flagVars, waitsFor, handlerOf>>

\* The session of a start() is there: the first such call fires the event.
Joined(c) ==
    /\ pc[c] \in {"session", "sessionOnly"}
    /\ Over(waitsFor[c])
    /\ \/ /\ pc[c] = "session" /\ postInit = 0
          /\ Fire(c, "event", Done(c))
       \/ /\ pc[c] = "session" /\ postInit \in handling
          /\ pc' = [pc EXCEPT ![c] = "event"]
          /\ waitsEvent' = [waitsEvent EXCEPT ![c] = postInit]
          /\ UNCHANGED eventVars
       \/ /\ pc[c] = "sessionOnly" \/ postInit \notin handling \cup {0}
          /\ pc' = [pc EXCEPT ![c] = Done(c)]
          /\ UNCHANGED <<eventVars, waitsEvent>>
    /\ UNCHANGED <<sessionVars, flagVars, waitsFor, handlerOf>>

\* Mutant: who awaits an event is left waiting when a restart has fired the next one.
EventHandledMutant(n) ==
    /\ Quiescent
    /\ n \in handling
    /\ handling' = handling \ {n}
    /\ inProgress' = FALSE
    /\ pc' = [c \in Calls |->
                 IF waitsEvent[c] # n \/ n # postInit THEN pc[c]
                 ELSE IF pc[c] = "event" THEN Done(c)
                 ELSE IF pc[c] = "lastEvent" THEN "returned"
                 ELSE pc[c]]
    /\ UNCHANGED <<sessionVars, flagVars, postInit, fired, announced, waitsFor, waitsEvent, handlerOf>>

\* The handlers of event n have finished, so what they executed has: the calls of start()
\* and restart() that await it return.
EventHandled(n) ==
    /\ Quiescent
    /\ n \in handling
    /\ \A c \in Calls : handlerOf[c] = n => pc[c] \in Ended
    /\ handling' = handling \ {n}
    /\ inProgress' = FALSE
    /\ pc' = [c \in Calls |->
                 IF waitsEvent[c] # n THEN pc[c]
                 ELSE IF pc[c] = "event" THEN Done(c)
                 ELSE IF pc[c] = "lastEvent" THEN "returned"
                 ELSE pc[c]]
    /\ UNCHANGED <<sessionVars, flagVars, postInit, fired, announced, waitsFor, waitsEvent, handlerOf>>

-----------------------------------------------------------------------------
(* The end of a session *)

\* A session is disposed, by whom the kernel asked or from outside.
Gone(s) ==
    /\ Quiescent
    /\ sessionState[s] = "dying" \/ (sessionState[s] = "alive" /\ s \in MayDie)
    /\ sessionState' = [sessionState EXCEPT ![s] = "dead"]
    /\ OnDidDispose(s)
    /\ UNCHANGED <<attempt, hooked, fired, handling, inProgress, announced, flagVars, callVars>>

-----------------------------------------------------------------------------
(* restart() *)

\* The willRestart hooks are called with the promise of the session.
Restart(r) ==
    /\ Quiescent
    /\ pc[r] = "idle"
    /\ pc' = [pc EXCEPT ![r] = "willRestart"]
    /\ waitsFor' = [waitsFor EXCEPT ![r] = sessionPromise]
    /\ UNCHANGED <<sessionVars, eventVars, flagVars, waitsEvent, handlerOf>>

\* The hooks have finished; that of NotebookKernelExecution awaits the promise.
Hooked(r) ==
    /\ Quiescent
    /\ pc[r] = "willRestart"
    /\ waitsFor[r] # NoCall => Over(waitsFor[r])
    /\ \/ /\ sessionPromise = NoCall
          /\ StartSession(r, "session", CutOff)
       \/ /\ sessionPromise # NoCall
          /\ tokenCancelled' = TRUE
          /\ attempt' = CutOff
          /\ pc' = [pc EXCEPT ![r] = "awaitSession"]
          /\ waitsFor' = [waitsFor EXCEPT ![r] = sessionPromise]
          /\ UNCHANGED sessionPromise
    /\ UNCHANGED <<session, sessionState, hooked, ignoreDisposed, eventVars, waitsEvent, handlerOf>>

\* The session is restarted, sharing the restart under way; without one it is started.
RestartSession(r) ==
    /\ pc[r] = "awaitSession"
    /\ \/ /\ attempt[waitsFor[r]] = "resolved"
          /\ pc' = [pc EXCEPT ![r] = "restarting"]
          /\ UNCHANGED <<sessionPromise, attempt, tokenCancelled, waitsFor>>
       \/ /\ attempt[waitsFor[r]] = "rejected"
          /\ StartSession(r, "session", attempt)
    /\ UNCHANGED <<session, sessionState, hooked, ignoreDisposed, eventVars, waitsEvent, handlerOf>>

\* session.restart() settles, for all who share it.
SessionRestarts ==
    /\ Quiescent
    /\ \E r \in Restarts : pc[r] = "restarting"
    /\ \E outcome \in {"restarted", "restartFailed"} :
          /\ pc' = [c \in Calls |-> IF pc[c] = "restarting" THEN outcome ELSE pc[c]]
          /\ \A r \in Calls :
                outcome = "restarted" /\ pc[r] = "restarting" => sessionState[waitsFor[r]] = "alive"
          /\ announced' = IF outcome = "restarted"
                            THEN announced \ {waitsFor[r] : r \in {x \in Restarts : pc[x] = "restarting"}}
                            ELSE announced
    /\ UNCHANGED <<sessionVars, flagVars, postInit, fired, handling, inProgress, waitsFor,
                   waitsEvent, handlerOf>>

\* The restart goes on with whatever _session is now; only after session.restart() is the
\* token replaced here, as start() has replaced it otherwise.
Restarted(r) ==
    /\ pc[r] \in {"restarted", "started"}
    /\ tokenCancelled' = (tokenCancelled /\ pc[r] = "started")
    /\ pc' = [pc EXCEPT ![r] = "didStart"]
    /\ waitsFor' = [waitsFor EXCEPT ![r] = session]
    /\ UNCHANGED <<sessionVars, eventVars, ignoreDisposed, waitsEvent, handlerOf>>

\* The didStart hooks of the restart have run; without a session that is all.
RestartDidStart(r) ==
    /\ Quiescent
    /\ pc[r] = "didStart"
    /\ \/ /\ waitsFor[r] # NoCall
          /\ pc' = [pc EXCEPT ![r] = "initializing"]
          /\ hooked' = hooked \cup {waitsFor[r]}
          /\ UNCHANGED <<eventVars, waitsEvent>>
       \/ /\ waitsFor[r] = NoCall
          /\ Fire(r, "lastEvent", "returned")
          /\ UNCHANGED hooked
    /\ UNCHANGED <<sessionPromise, session, attempt, sessionState, flagVars, waitsFor, handlerOf>>

\* initializeAfterStart() returns to the restart, which fires the event again.
Reinitialized(r) ==
    /\ Quiescent
    /\ pc[r] = "initializing"
    /\ sessionState[waitsFor[r]] = "alive"
    /\ Fire(r, "lastEvent", "returned")
    /\ UNCHANGED <<sessionVars, flagVars, waitsFor, handlerOf>>

\* It throws, from a request or from waitForIdle, which shuts the session down.
ReinitializeThrows(r) ==
    /\ Quiescent
    /\ pc[r] = "initializing"
    /\ pc' = [pc EXCEPT ![r] = "rejected"]
    /\ \/ UNCHANGED <<sessionPromise, session, sessionState, postInit>>
       \/ /\ sessionState[waitsFor[r]] = "alive"
          /\ sessionState' = [sessionState EXCEPT ![waitsFor[r]] = "dead"]
          /\ OnDidDispose(waitsFor[r])
    /\ UNCHANGED <<attempt, hooked, fired, handling, inProgress, announced, flagVars, waitsFor,
                   waitsEvent, handlerOf>>

\* dispose() of session s, whose end call c awaits.  One that is disposed says so no more.
Close(c, s, state) ==
    /\ pc' = [pc EXCEPT ![c] = IF sessionState[s] = "dead" THEN "stuck" ELSE state]
    /\ waitsFor' = [waitsFor EXCEPT ![c] = s]
    /\ sessionState' = IF sessionState[s] = "dead" THEN sessionState
                       ELSE [sessionState EXCEPT ![s] = "dying"]

\* Mutant: the end of the session of a failed restart is not ignored.
RestartFailedMutant(r) ==
    /\ pc[r] = "restartFailed"
    /\ sessionPromise' = NoCall
    /\ session' = NoCall
    /\ postInit' = 0
    /\ \/ /\ session # NoCall
          /\ Close(r, session, "killing")
       \/ /\ session = NoCall
          /\ pc' = [pc EXCEPT ![r] = "rejected"]
          /\ UNCHANGED <<waitsFor, sessionState>>
    /\ UNCHANGED <<attempt, hooked, fired, handling, inProgress, announced, tokenCancelled,
                   ignoreDisposed, waitsEvent, handlerOf>>

\* Mutant: the session of a failed restart is forgotten.
RestartForgetsMutant(r) ==
    /\ pc[r] = "restartFailed"
    /\ sessionPromise' = NoCall
    /\ session' = NoCall
    /\ postInit' = 0
    /\ ignoreDisposed' = FALSE
    /\ pc' = [pc EXCEPT ![r] = "rejected"]
    /\ UNCHANGED <<waitsFor, sessionState>>
    /\ UNCHANGED <<attempt, hooked, fired, handling, inProgress, announced, tokenCancelled,
                   waitsEvent, handlerOf>>

\* The restart, or the start it made, failed: the session is killed.
RestartFailed(r) ==
    /\ pc[r] = "restartFailed"
    /\ sessionPromise' = NoCall
    /\ session' = NoCall
    /\ postInit' = 0
    /\ \/ /\ session # NoCall
          /\ ignoreDisposed' = TRUE
          /\ Close(r, session, "killing")
       \/ /\ session = NoCall
          /\ ignoreDisposed' = FALSE
          /\ pc' = [pc EXCEPT ![r] = "rejected"]
          /\ UNCHANGED <<waitsFor, sessionState>>
    /\ UNCHANGED <<attempt, hooked, fired, handling, inProgress, announced, tokenCancelled,
                   waitsEvent, handlerOf>>

Killed(r) ==
    /\ pc[r] = "killing"
    /\ sessionState[waitsFor[r]] = "dead"
    /\ ignoreDisposed' = FALSE
    /\ pc' = [pc EXCEPT ![r] = "rejected"]
    /\ UNCHANGED <<sessionVars, eventVars, tokenCancelled, waitsFor, waitsEvent, handlerOf>>

-----------------------------------------------------------------------------
(* dispose() *)

\* The session is disposed, if there is one.
DisposeSession(d, s) ==
    /\ sessionPromise' = NoCall
    /\ postInit' = 0
    /\ session' = NoCall
    /\ \/ s # NoCall /\ Close(d, s, "closing")
       \/ /\ s = NoCall
          /\ pc' = [pc EXCEPT ![d] = "returned"]
          /\ UNCHANGED <<waitsFor, sessionState>>

\* Starts are cancelled; without a session the promise of one is awaited.
Dispose(d) ==
    /\ Quiescent
    /\ pc[d] = "idle"
    /\ ignoreDisposed' = TRUE
    /\ tokenCancelled' = TRUE
    /\ attempt' = CutOff
    /\ \/ /\ session # NoCall \/ sessionPromise = NoCall
          /\ DisposeSession(d, session)
       \/ /\ session = NoCall /\ sessionPromise # NoCall
          /\ pc' = [pc EXCEPT ![d] = "disposing"]
          /\ waitsFor' = [waitsFor EXCEPT ![d] = sessionPromise]
          /\ UNCHANGED <<sessionPromise, session, sessionState, postInit>>
    /\ UNCHANGED <<hooked, fired, handling, inProgress, announced, waitsEvent, handlerOf>>

\* The promise has settled: its session is disposed.
DisposeContinues(d) ==
    /\ pc[d] = "disposing"
    /\ Over(waitsFor[d])
    /\ DisposeSession(d, IF attempt[waitsFor[d]] = "resolved" THEN waitsFor[d] ELSE NoCall)
    /\ UNCHANGED <<attempt, hooked, fired, handling, inProgress, announced, flagVars, waitsEvent,
                   handlerOf>>

Closed(d) ==
    /\ pc[d] = "closing"
    /\ sessionState[waitsFor[d]] = "dead"
    /\ pc' = [pc EXCEPT ![d] = "returned"]
    /\ UNCHANGED <<sessionVars, eventVars, flagVars, waitsFor, waitsEvent, handlerOf>>

-----------------------------------------------------------------------------

\* What runs when an awaited promise has settled.
Continuation(c) ==
    \/ Joined(c)
    \/ c \in Restarts /\ (RestartSession(c) \/ Restarted(c) \/ RestartFailed(c) \/ Killed(c))
    \/ c \in Disposals /\ (DisposeContinues(c) \/ Closed(c))

\* The steps of an attempt, which end it with a session or without.
Progress(a) ==
    \/ Track(a) \/ Create(a) \/ DidStart(a)
    \/ Initialized(a) \/ InitializeThrows(a) \/ NotIdle(a)

RestartProgress(r) ==
    Hooked(r) \/ RestartDidStart(r) \/ Reinitialized(r) \/ ReinitializeThrows(r)

Next ==
    \/ \E c \in UserStarts \cup QuietStarts : Start(c)
    \/ \E c \in CodeStarts : \E n \in handling \cup {0} : CodeStart(c, n)
    \/ \E c \in Calls : Continuation(c) \/ Progress(c) \/ Gone(c)
    \/ \E r \in Restarts : Restart(r) \/ RestartProgress(r)
    \/ SessionRestarts
    \/ \E n \in handling : EventHandled(n)
    \/ \E d \in Disposals : Dispose(d)

Spec == Init /\ [][Next]_vars

\* Settled promises are delivered; starting a session, its requests and its disposal end,
\* as each has a time-out; handlers of the event finish when what they called has.
Fairness ==
    /\ \A c \in Calls : WF_vars(Continuation(c)) /\ WF_vars(Progress(c))
    /\ \A c \in Calls : WF_vars(sessionState[c] = "dying" /\ Gone(c))
    /\ \A r \in Restarts : WF_vars(RestartProgress(r))
    /\ WF_vars(SessionRestarts)
    /\ WF_vars(\E n \in handling : EventHandled(n))

FairSpec == Spec /\ Fairness

-----------------------------------------------------------------------------
(* Safety *)

\* A disposed kernel has no session, and never gets one again, whatever start, restart or
\* end of a session was under way (the checks of disposing in kernel.ts).
DisposedHasNoSession ==
    \A d \in Disposals :
        pc[d] \in {"closing", "stuck", "returned"} => sessionPromise = NoCall /\ session = NoCall

\* All callers share one session: the attempt under way is the one of the promise, and so
\* is the session, so that no start makes a second one beside it, also while the session
\* of a failed restart is still being disposed.
SharedSession ==
    /\ \A a \in Calls : InFlight(a) => sessionPromise = a
    /\ session # NoCall => sessionPromise = session

\* A session that was started is the kernel's until it is disposed: it is never lost alive.
NoSessionLost ==
    \A s \in Calls : attempt[s] = "resolved" /\ sessionState[s] = "alive" => session = s

\* The end of the active session is never missed: the kernel does not keep a dead one.
NoDeadSession == session # NoCall => sessionState[session] # "dead"

\* isPostInitializedInProgress is true only while handlers of the event run (types.ts).
InProgressMeansHandling == inProgress => handling # {}

\* onPostInitialized is fired once for a session, and once more when it is restarted
\* ("We also only want to fire off a single event here", kernel.ts).  Not so when a
\* restart finds no session: its start() fires the event, and then the restart does.
AnnouncedOnce == [][fired' # fired => session \notin announced]_vars

\* "Always dispose of sessions" (kernel-jupyter.instructions.md): an attempt that ends
\* without a session for the kernel leaves none alive.
FailedStartLeavesNoSession ==
    \A s \in Calls : attempt[s] = "rejected" => sessionState[s] # "alive"

-----------------------------------------------------------------------------
(* Liveness *)

\* Every start, restart and dispose returns or throws; the handlers of the event may
\* execute code meanwhile without blocking it.
CallsEnd == \A c \in Calls : pc[c] # "idle" ~> pc[c] \in Ended
=============================================================================

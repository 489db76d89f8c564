----------------------- MODULE KernelLifecycle_proofs -----------------------
(***************************************************************************)
(* Theorems about KernelLifecycle, for every set of calls.                 *)
(***************************************************************************)
EXTENDS KernelLifecycle, TLAPS

-----------------------------------------------------------------------------
(* Type correctness *)

\* Firing an event leaves the earlier events what they are.
LEMMA MoreEvents ==
    ASSUME NEW n \in Nat, NEW m \in Nat, n <= m
    PROVE  0..n \subseteq 0..m /\ 1..n \subseteq 1..m
OBVIOUS

\* What a call returns to, and what cancelling the creations under way leaves.
LEMMA HelperTypes ==
    /\ \A c : Done(c) \in PCs /\ Thrown(c) \in PCs
    /\ TypeOK => CutOff \in [Calls -> AttemptStates]
BY DEF Done, Thrown, PCs, TypeOK, CutOff, AttemptStates

\* start() up to its first await keeps the types, whatever it is told to await.
LEMMA StartSessionType ==
    ASSUME TypeOK, NEW c \in Calls, NEW wait \in PCs, NEW attempts \in [Calls -> AttemptStates],
           StartSession(c, wait, attempts)
    PROVE  /\ tokenCancelled' \in BOOLEAN
           /\ sessionPromise' \in Calls \cup {NoCall}
           /\ attempt' \in [Calls -> AttemptStates]
           /\ pc' \in [Calls -> PCs]
           /\ waitsFor' \in [Calls -> Calls \cup {NoCall}]
<1>1. Thrown(c) \in PCs
  BY HelperTypes
<1> QED
  BY <1>1 DEF StartSession, TypeOK, AttemptStates

\* A failing attempt keeps the types.
LEMMA AttemptFailsType ==
    ASSUME TypeOK, NEW a \in Calls, AttemptFails(a)
    PROVE  /\ attempt' \in [Calls -> AttemptStates]
           /\ tokenCancelled' \in BOOLEAN
           /\ pc' \in [Calls -> PCs]
<1>1. CutOff \in [Calls -> AttemptStates] /\ "rejected" \in AttemptStates
  BY HelperTypes DEF AttemptStates
<1>2. \A c \in Calls : Thrown(c) \in PCs
  BY HelperTypes
<1> QED
  BY <1>1, <1>2 DEF AttemptFails, TypeOK

\* An event that is fired keeps the types, whatever its caller does next.
LEMMA FireType ==
    ASSUME TypeOK, NEW c \in Calls, NEW wait \in PCs, NEW done \in PCs, Fire(c, wait, done),
           UNCHANGED handlerOf
    PROVE  /\ fired' \in Nat
           /\ postInit' \in 0..fired'
           /\ handling' \subseteq 1..fired'
           /\ inProgress' \in BOOLEAN
           /\ announced' \subseteq Calls
           /\ pc' \in [Calls -> PCs]
           /\ waitsEvent' \in [Calls -> 0..fired']
           /\ handlerOf' \in [Calls -> 0..fired']
<1>1. fired \in Nat /\ fired' = fired + 1 /\ postInit' = fired'
  BY DEF Fire, TypeOK
<1>2. 0..fired \subseteq 0..fired' /\ 1..fired \subseteq 1..fired' /\ fired' \in Nat
      /\ fired' \in 0..fired' /\ fired' \in 1..fired'
  BY <1>1
<1>3. waitsEvent' \in [Calls -> 0..fired']
  <2>1. waitsEvent \in [Calls -> 0..fired']
    BY <1>2 DEF TypeOK
  <2> QED
    BY <2>1, <1>1, <1>2 DEF Fire
<1>4. handlerOf' \in [Calls -> 0..fired']
  BY <1>2 DEF TypeOK
<1>5. pc' \in [Calls -> PCs] /\ inProgress' \in BOOLEAN /\ announced' \subseteq Calls
  BY DEF Fire, TypeOK
<1>6. handling' \subseteq 1..fired'
  BY <1>1, <1>2 DEF Fire, TypeOK
<1> QED
  BY <1>1, <1>2, <1>3, <1>4, <1>5, <1>6


\* disposeAsync() keeps the types, whatever its caller does next.
LEMMA CloseType ==
    ASSUME TypeOK, NEW c \in Calls, NEW s \in Calls, NEW state \in PCs, Close(c, s, state)
    PROVE  /\ pc' \in [Calls -> PCs]
           /\ waitsFor' \in [Calls -> Calls \cup {NoCall}]
           /\ sessionState' \in [Calls -> {"none", "alive", "dying", "dead"}]
<1>1. "stuck" \in PCs
  BY DEF PCs
<1> QED
  BY <1>1 DEF Close, TypeOK

\* Every action keeps the types.
LEMMA TypeStep ==
    ASSUME TypeOK, [Next]_vars
    PROVE  TypeOK'
<1>1. ASSUME NEW c \in UserStarts \cup QuietStarts, Start(c) PROVE TypeOK'
  <2>1. c \in Calls /\ attempt \in [Calls -> AttemptStates]
    BY DEF Calls, Starters, TypeOK
  <2>2. "session" \in PCs /\ "sessionOnly" \in PCs
    BY DEF PCs
  <2>3. PICK wait \in PCs : StartSession(c, wait, attempt)
    BY <1>1, <2>2 DEF Start
  <2> QED
    BY <1>1, <2>1, <2>3, StartSessionType DEF Start, eventVars, TypeOK
<1>2. ASSUME NEW c \in CodeStarts, NEW n \in handling \cup {0}, CodeStart(c, n) PROVE TypeOK'
  <2>1. c \in Calls /\ attempt \in [Calls -> AttemptStates]
    BY DEF Calls, Starters, TypeOK
  <2>2. "session" \in PCs /\ "sessionOnly" \in PCs
    BY DEF PCs
  <2>3. PICK wait \in PCs : StartSession(c, wait, attempt)
    BY <1>2, <2>2 DEF CodeStart
  <2>4. n \in 0..fired
    BY DEF TypeOK
  <2> QED
    BY <1>2, <2>1, <2>3, <2>4, StartSessionType DEF CodeStart, eventVars, TypeOK
<1>3. ASSUME NEW c \in Calls, Joined(c) PROVE TypeOK'
  <2>1. CASE pc[c] = "session" /\ postInit = 0
    <3>1. Fire(c, "event", Done(c)) /\ "event" \in PCs /\ Done(c) \in PCs
      BY <1>3, <2>1, HelperTypes DEF Joined, PCs, TypeOK
    <3>2. UNCHANGED <<sessionVars, flagVars, waitsFor, handlerOf>>
      BY <1>3 DEF Joined
    <3> QED
      BY <3>1, <3>2, FireType DEF sessionVars, flagVars, TypeOK
  <2>2. CASE pc[c] # "session" \/ postInit # 0
    <3>1. Done(c) \in PCs /\ "event" \in PCs
      BY HelperTypes DEF PCs
    <3>2. UNCHANGED <<sessionVars, flagVars, waitsFor, handlerOf, eventVars>>
          /\ waitsEvent' \in [Calls -> 0..fired] /\ pc' \in [Calls -> PCs]
      BY <1>3, <2>2, <3>1 DEF Joined, TypeOK
    <3> QED
      BY <3>2 DEF sessionVars, flagVars, eventVars, TypeOK
  <2> QED
    BY <2>1, <2>2
<1>4. ASSUME NEW r \in Restarts, RestartSession(r) PROVE TypeOK'
  <2>1. r \in Calls /\ "session" \in PCs /\ "restarting" \in PCs /\ attempt \in [Calls -> AttemptStates]
    BY DEF Calls, PCs, TypeOK
  <2>2. CASE attempt[waitsFor[r]] = "resolved"
    BY <1>4, <2>1, <2>2 DEF RestartSession, eventVars, TypeOK
  <2>3. CASE attempt[waitsFor[r]] = "rejected"
    <3>1. StartSession(r, "session", attempt)
      BY <1>4, <2>3 DEF RestartSession
    <3> QED
      BY <1>4, <2>1, <3>1, StartSessionType DEF RestartSession, eventVars, TypeOK
  <2> QED
    BY <1>4, <2>2, <2>3 DEF RestartSession
<1>5. ASSUME NEW r \in Restarts, Restarted(r) PROVE TypeOK'
  BY <1>5, HelperTypes DEF Restarted, TypeOK, PCs, AttemptStates,
     Calls, sessionVars, eventVars, flagVars, callVars
<1>6. ASSUME NEW r \in Restarts, RestartFailed(r) PROVE TypeOK'
  <2>1. r \in Calls /\ {"killing", "stuck", "rejected"} \subseteq PCs
    BY DEF Calls, PCs
  <2>2. /\ pc' \in [Calls -> PCs]
        /\ waitsFor' \in [Calls -> Calls \cup {NoCall}]
        /\ sessionState' \in [Calls -> {"none", "alive", "dying", "dead"}]
        /\ ignoreDisposed' \in BOOLEAN
    <3>1. CASE session = NoCall
      BY <1>6, <2>1, <3>1 DEF RestartFailed, TypeOK
    <3>2. CASE session # NoCall
      <4>1. session \in Calls /\ Close(r, session, "killing") /\ ignoreDisposed' = TRUE
        BY <1>6, <3>2 DEF RestartFailed, TypeOK
      <4> QED
        BY <2>1, <4>1, CloseType
    <3> QED
      BY <3>1, <3>2
  <2>3. postInit' \in 0..fired
    BY <1>6 DEF RestartFailed, TypeOK
  <2> QED
    BY <1>6, <2>2, <2>3 DEF RestartFailed, TypeOK
<1>7. ASSUME NEW r \in Restarts, Killed(r) PROVE TypeOK'
  BY <1>7, HelperTypes DEF Killed, TypeOK, PCs, AttemptStates,
     Calls, sessionVars, eventVars, flagVars, callVars
<1>8. ASSUME NEW d \in Disposals, DisposeContinues(d) PROVE TypeOK'
  BY <1>8, HelperTypes DEF DisposeContinues, DisposeSession, Close, TypeOK, PCs, AttemptStates,
     Calls, sessionVars, eventVars, flagVars, callVars
<1>9. ASSUME NEW d \in Disposals, Closed(d) PROVE TypeOK'
  BY <1>9, HelperTypes DEF Closed, TypeOK, PCs, AttemptStates,
     Calls, sessionVars, eventVars, flagVars, callVars
<1>10. ASSUME NEW a \in Calls, Track(a) PROVE TypeOK'
  <2>1. CASE AttemptFails(a)
    BY <1>10, <2>1, AttemptFailsType DEF Track, eventVars, TypeOK
  <2>2. CASE ~AttemptFails(a)
    BY <1>10, <2>2 DEF Track, eventVars, TypeOK, AttemptStates
  <2> QED
    BY <2>1, <2>2
<1>11. ASSUME NEW a \in Calls, Create(a) PROVE TypeOK'
  <2>1. CASE AttemptFails(a)
    BY <1>11, <2>1, AttemptFailsType DEF Create, eventVars, TypeOK
  <2>2. CASE ~AttemptFails(a)
    BY <1>11, <2>2 DEF Create, eventVars, TypeOK, AttemptStates
  <2> QED
    BY <2>1, <2>2
<1>12. ASSUME NEW a \in Calls, DidStart(a) PROVE TypeOK'
  BY <1>12, HelperTypes DEF DidStart, TypeOK, PCs, AttemptStates,
     Calls, sessionVars, eventVars, flagVars, callVars
<1>13. ASSUME NEW a \in Calls, Initialized(a) PROVE TypeOK'
  <2>1. CASE AttemptFails(a)
    BY <1>13, <2>1, AttemptFailsType DEF Initialized, eventVars, TypeOK
  <2>2. CASE ~AttemptFails(a)
    BY <1>13, <2>2 DEF Initialized, eventVars, TypeOK, AttemptStates
  <2> QED
    BY <2>1, <2>2
<1>14. ASSUME NEW a \in Calls, InitializeThrows(a) PROVE TypeOK'
  <2>1. CASE AttemptFails(a)
    BY <1>14, <2>1, AttemptFailsType DEF InitializeThrows, eventVars, TypeOK
  <2>2. CASE ~AttemptFails(a)
    BY <1>14, <2>2 DEF InitializeThrows, eventVars, TypeOK, AttemptStates
  <2> QED
    BY <2>1, <2>2
<1>15. ASSUME NEW a \in Calls, NotIdle(a) PROVE TypeOK'
  <2>1. CASE AttemptFails(a)
    BY <1>15, <2>1, AttemptFailsType DEF NotIdle, eventVars, TypeOK
  <2>2. CASE ~AttemptFails(a)
    BY <1>15, <2>2 DEF NotIdle, eventVars, TypeOK, AttemptStates
  <2> QED
    BY <2>1, <2>2
<1>16. ASSUME NEW s \in Calls, Gone(s) PROVE TypeOK'
  BY <1>16, HelperTypes DEF Gone, OnDidDispose, TypeOK, PCs, AttemptStates,
     Calls, sessionVars, eventVars, flagVars, callVars
<1>17. ASSUME NEW r \in Restarts, Restart(r) PROVE TypeOK'
  BY <1>17, HelperTypes DEF Restart, TypeOK, PCs, AttemptStates,
     Calls, sessionVars, eventVars, flagVars, callVars
<1>18. ASSUME NEW r \in Restarts, Hooked(r) PROVE TypeOK'
  <2>1. r \in Calls /\ "session" \in PCs /\ "awaitSession" \in PCs /\ CutOff \in [Calls -> AttemptStates]
    BY HelperTypes DEF Calls, PCs
  <2>2. CASE sessionPromise = NoCall
    <3>1. StartSession(r, "session", CutOff)
      BY <1>18, <2>2 DEF Hooked
    <3> QED
      BY <1>18, <2>1, <3>1, StartSessionType DEF Hooked, eventVars, TypeOK
  <2>3. CASE sessionPromise # NoCall
    BY <1>18, <2>1, <2>3 DEF Hooked, eventVars, TypeOK
  <2> QED
    BY <2>2, <2>3
<1>19. ASSUME NEW r \in Restarts, RestartDidStart(r) PROVE TypeOK'
  <2>1. r \in Calls /\ {"lastEvent", "returned", "initializing"} \subseteq PCs
    BY DEF Calls, PCs
  <2>2. CASE waitsFor[r] # NoCall
    <3>1. waitsFor[r] \in Calls /\ hooked' = hooked \cup {waitsFor[r]}
          /\ pc' = [pc EXCEPT ![r] = "initializing"] /\ UNCHANGED <<eventVars, waitsEvent>>
      BY <1>19, <2>1, <2>2 DEF RestartDidStart, TypeOK
    <3>2. pc' \in [Calls -> PCs] /\ hooked' \subseteq Calls
      BY <2>1, <3>1 DEF TypeOK
    <3> QED
      BY <1>19, <3>1, <3>2 DEF RestartDidStart, eventVars, flagVars, TypeOK
  <2>3. CASE waitsFor[r] = NoCall
    <3>1. Fire(r, "lastEvent", "returned") /\ UNCHANGED handlerOf
      BY <1>19, <2>3 DEF RestartDidStart
    <3> QED
      BY <1>19, <2>1, <2>3, <3>1, FireType DEF RestartDidStart, flagVars, TypeOK
  <2> QED
    BY <2>2, <2>3
<1>20. ASSUME NEW r \in Restarts, Reinitialized(r) PROVE TypeOK'
  <2>1. r \in Calls /\ {"lastEvent", "returned"} \subseteq PCs
    BY DEF Calls, PCs
  <2>2. Fire(r, "lastEvent", "returned") /\ UNCHANGED <<sessionVars, flagVars, waitsFor, handlerOf>>
    BY <1>20 DEF Reinitialized
  <2> QED
    BY <2>1, <2>2, FireType DEF sessionVars, flagVars, TypeOK
<1>21. ASSUME NEW r \in Restarts, ReinitializeThrows(r) PROVE TypeOK'
  BY <1>21, HelperTypes DEF ReinitializeThrows, OnDidDispose, TypeOK, PCs, AttemptStates,
     Calls, sessionVars, eventVars, flagVars, callVars
<1>22. ASSUME SessionRestarts PROVE TypeOK'
  <2>1. announced' \subseteq Calls /\ pc' \in [Calls -> PCs]
    BY <1>22 DEF SessionRestarts, TypeOK, PCs
  <2> QED
    BY <1>22, <2>1 DEF SessionRestarts, TypeOK, sessionVars, flagVars
<1>23. ASSUME NEW n \in handling, EventHandled(n) PROVE TypeOK'
  <2>1. pc' \in [Calls -> PCs]
    BY <1>23, HelperTypes DEF EventHandled, TypeOK, PCs
  <2> QED
    BY <1>23, <2>1 DEF EventHandled, TypeOK, sessionVars, flagVars
<1>24. ASSUME NEW d \in Disposals, Dispose(d) PROVE TypeOK'
  <2>1. d \in Calls /\ {"disposing", "closing", "stuck", "returned"} \subseteq PCs
        /\ CutOff \in [Calls -> AttemptStates]
    BY HelperTypes DEF Calls, PCs
  <2> QED
    BY <1>24, <2>1 DEF Dispose, DisposeSession, Close, TypeOK
<1>25. ASSUME UNCHANGED vars PROVE TypeOK'
  BY <1>25 DEF vars, TypeOK, sessionVars, eventVars, flagVars, callVars
<1> QED
  BY <1>1, <1>2, <1>3, <1>4, <1>5, <1>6, <1>7, <1>8, <1>9, <1>10, <1>11, <1>12, <1>13, <1>14,
     <1>15, <1>16, <1>17, <1>18, <1>19, <1>20, <1>21, <1>22, <1>23, <1>24, <1>25
     DEF Next, Continuation, Progress, RestartProgress

\* The fields of a new kernel.
LEMMA TypeInit == Init => TypeOK
<1>1. 0 \in 0..0 /\ {} \subseteq 1..0 /\ 0 \in Nat
  OBVIOUS
<1> QED
  BY <1>1 DEF Init, TypeOK, AttemptStates, PCs

\* The state of the kernel, of its calls and of its events is what the fields of BaseKernel
\* may hold, in every run of every set of calls.
THEOREM KernelTypeCorrect == Spec => []TypeOK
<1>1. Init => TypeOK
  BY TypeInit
<1>2. TypeOK /\ [Next]_vars => TypeOK'
  BY TypeStep
<1> QED
  BY <1>1, <1>2, PTL DEF Spec

-----------------------------------------------------------------------------
(* A disposed kernel has no session *)

\* dispose() has taken the session away.
Disposed == \E d \in Disposals : pc[d] \in {"closing", "stuck", "returned"}

\* A disposal waits for nothing but a session that is started and one that ends.
DisposalWaits ==
    \A d \in Disposals : pc[d] \in {"idle", "disposing", "closing", "stuck", "returned"}

DisposedInv == TypeOK /\ DisposalWaits /\ DisposedHasNoSession

\* The calls are of three kinds.
LEMMA Kinds ==
    /\ NoCall \notin Calls
    /\ Starters \subseteq Calls /\ Restarts \subseteq Calls /\ Disposals \subseteq Calls
    /\ Starters \cap Disposals = {} /\ Restarts \cap Disposals = {}
    /\ Starters \cap Restarts = {}
BY LifecycleAssumption DEF Calls

\* A step keeps the invariant when it leaves the disposals where they are, and gives the kernel
\* neither promise nor session while it is disposed.
LEMMA DisposedFrame ==
    ASSUME DisposedInv, TypeOK', \A d \in Disposals : pc'[d] = pc[d],
           sessionPromise' \in {sessionPromise, NoCall} \/ ~Disposing,
           session' \in {session, NoCall} \/ ~Disposing
    PROVE  DisposedInv'
BY DEF DisposedInv, DisposalWaits, DisposedHasNoSession, Disposing

\* start() refuses a kernel that is being disposed.
LEMMA StartSessionDisposed ==
    ASSUME DisposedInv, NEW c \in Calls \ Disposals, NEW wait, NEW attempts,
           StartSession(c, wait, attempts)
    PROVE  /\ \A d \in Disposals : pc'[d] = pc[d]
           /\ sessionPromise' = sessionPromise \/ ~Disposing
BY Kinds DEF StartSession, DisposedInv, TypeOK

\* Every action keeps a disposed kernel without session.
LEMMA DisposedStep ==
    ASSUME DisposedInv, [Next]_vars
    PROVE  DisposedInv'
<1> USE Kinds
<1>0. TypeOK /\ TypeOK'
  BY TypeStep DEF DisposedInv
<1>a. \A d \in Disposals : pc[d] \notin {"session", "sessionOnly", "event", "lastEvent", "restarting"}
  BY DEF DisposedInv, DisposalWaits
<1>1. ASSUME NEW c \in UserStarts \cup QuietStarts, Start(c) PROVE DisposedInv'
  <2>1. c \in Calls \ Disposals
    BY DEF Starters
  <2>2. PICK wait : StartSession(c, wait, attempt)
    BY <1>1 DEF Start
  <2> QED
    BY <1>1, <1>0, <2>1, <2>2, StartSessionDisposed, DisposedFrame DEF Start
<1>2. ASSUME NEW c \in CodeStarts, NEW n \in handling \cup {0}, CodeStart(c, n) PROVE DisposedInv'
  <2>1. c \in Calls \ Disposals
    BY DEF Starters
  <2>2. PICK wait : StartSession(c, wait, attempt)
    BY <1>2 DEF CodeStart
  <2> QED
    BY <1>2, <1>0, <2>1, <2>2, StartSessionDisposed, DisposedFrame DEF CodeStart
<1>3. ASSUME NEW c \in Calls, Joined(c) PROVE DisposedInv'
  BY <1>3, <1>0, <1>a, DisposedFrame DEF Joined, Fire, sessionVars, TypeOK
<1>4. ASSUME NEW r \in Restarts, RestartSession(r) PROVE DisposedInv'
  <2>1. CASE attempt[waitsFor[r]] = "resolved"
    BY <1>4, <1>0, <2>1, DisposedFrame DEF RestartSession, TypeOK
  <2>2. CASE StartSession(r, "session", attempt)
    BY <1>4, <1>0, <2>2, StartSessionDisposed, DisposedFrame DEF RestartSession
  <2> QED
    BY <1>4, <2>1, <2>2 DEF RestartSession
<1>5. ASSUME NEW r \in Restarts, Restarted(r) PROVE DisposedInv'
  BY <1>5, <1>0, <1>a, DisposedFrame DEF Restarted, sessionVars, TypeOK
<1>6. ASSUME NEW r \in Restarts, RestartFailed(r) PROVE DisposedInv'
  BY <1>6, <1>0, <1>a, DisposedFrame DEF RestartFailed, Close, TypeOK
<1>7. ASSUME NEW r \in Restarts, Killed(r) PROVE DisposedInv'
  BY <1>7, <1>0, <1>a, DisposedFrame DEF Killed, sessionVars, TypeOK
<1>8. ASSUME NEW d \in Disposals, DisposeContinues(d) PROVE DisposedInv'
  <2>1. PICK s : DisposeSession(d, s)
    BY <1>8 DEF DisposeContinues
  <2> QED
    BY <1>0, <2>1 DEF DisposeSession, Close, DisposedInv, DisposalWaits, DisposedHasNoSession, TypeOK
<1>9. ASSUME NEW d \in Disposals, Closed(d) PROVE DisposedInv'
  BY <1>9, <1>0 DEF Closed, sessionVars, DisposedInv, DisposalWaits, DisposedHasNoSession, TypeOK
<1>10. ASSUME NEW a \in Calls, Track(a) PROVE DisposedInv'
  BY <1>10, <1>0, <1>a, DisposedFrame DEF Track, AttemptFails, TypeOK
<1>11. ASSUME NEW a \in Calls, Create(a) PROVE DisposedInv'
  BY <1>11, <1>0, <1>a, DisposedFrame DEF Create, AttemptFails, TypeOK
<1>12. ASSUME NEW a \in Calls, DidStart(a) PROVE DisposedInv'
  BY <1>12, <1>0, <1>a, DisposedFrame DEF DidStart, callVars, TypeOK
<1>13. ASSUME NEW a \in Calls, Initialized(a) PROVE DisposedInv'
  BY <1>13, <1>0, <1>a, DisposedFrame DEF Initialized, AttemptFails, TypeOK
<1>14. ASSUME NEW a \in Calls, InitializeThrows(a) PROVE DisposedInv'
  BY <1>14, <1>0, <1>a, DisposedFrame DEF InitializeThrows, AttemptFails, TypeOK
<1>15. ASSUME NEW a \in Calls, NotIdle(a) PROVE DisposedInv'
  BY <1>15, <1>0, <1>a, DisposedFrame DEF NotIdle, AttemptFails, TypeOK
<1>16. ASSUME NEW s \in Calls, Gone(s) PROVE DisposedInv'
  BY <1>16, <1>0, <1>a, DisposedFrame DEF Gone, OnDidDispose, callVars, TypeOK
<1>17. ASSUME NEW r \in Restarts, Restart(r) PROVE DisposedInv'
  BY <1>17, <1>0, <1>a, DisposedFrame DEF Restart, sessionVars, TypeOK
<1>18. ASSUME NEW r \in Restarts, Hooked(r) PROVE DisposedInv'
  <2>1. CASE StartSession(r, "session", CutOff)
    BY <1>18, <1>0, <2>1, StartSessionDisposed, DisposedFrame DEF Hooked
  <2>2. CASE sessionPromise # NoCall
    BY <1>18, <1>0, <2>2, DisposedFrame DEF Hooked, TypeOK
  <2> QED
    BY <1>18, <2>1, <2>2 DEF Hooked
<1>19. ASSUME NEW r \in Restarts, RestartDidStart(r) PROVE DisposedInv'
  BY <1>19, <1>0, <1>a, DisposedFrame DEF RestartDidStart, Fire, TypeOK
<1>20. ASSUME NEW r \in Restarts, Reinitialized(r) PROVE DisposedInv'
  BY <1>20, <1>0, <1>a, DisposedFrame DEF Reinitialized, Fire, sessionVars, TypeOK
<1>21. ASSUME NEW r \in Restarts, ReinitializeThrows(r) PROVE DisposedInv'
  BY <1>21, <1>0, <1>a, DisposedFrame DEF ReinitializeThrows, OnDidDispose, TypeOK
<1>22. ASSUME SessionRestarts PROVE DisposedInv'
  BY <1>22, <1>0, <1>a, DisposedFrame DEF SessionRestarts, sessionVars, TypeOK
<1>23. ASSUME NEW n \in handling, EventHandled(n) PROVE DisposedInv'
  BY <1>23, <1>0, <1>a, DisposedFrame DEF EventHandled, sessionVars, TypeOK
<1>24. ASSUME NEW d \in Disposals, Dispose(d) PROVE DisposedInv'
  <2>1. CASE DisposeSession(d, session)
    BY <1>0, <2>1 DEF DisposeSession, Close, DisposedInv, DisposalWaits, DisposedHasNoSession, TypeOK
  <2>2. CASE ~DisposeSession(d, session)
    BY <1>24, <1>0, <2>2 DEF Dispose, DisposedInv, DisposalWaits, DisposedHasNoSession, TypeOK
  <2> QED
    BY <2>1, <2>2
<1>25. ASSUME UNCHANGED vars PROVE DisposedInv'
  BY <1>25, <1>0, DisposedFrame DEF vars, sessionVars, callVars
<1> QED
  BY <1>1, <1>2, <1>3, <1>4, <1>5, <1>6, <1>7, <1>8, <1>9, <1>10, <1>11, <1>12, <1>13, <1>14,
     <1>15, <1>16, <1>17, <1>18, <1>19, <1>20, <1>21, <1>22, <1>23, <1>24, <1>25
     DEF Next, Continuation, Progress, RestartProgress

\* Once dispose() has taken the session away the kernel has none, and never gets one
\* again, for any starts, restarts, disposals and deaths of sessions (the checks of
\* disposing in kernel.ts).
THEOREM DisposedStays == Spec => []DisposedHasNoSession
<1>1. Init => DisposedInv
  BY TypeInit, Kinds DEF Init, DisposedInv, DisposalWaits, DisposedHasNoSession
<1>2. DisposedInv /\ [Next]_vars => DisposedInv'
  BY DisposedStep
<1>3. DisposedInv => DisposedHasNoSession
  BY DEF DisposedInv
<1> QED
  BY <1>1, <1>2, <1>3, PTL DEF Spec

-----------------------------------------------------------------------------
(* One session is shared, and none is lost *)

\* What SharedSession and NoSessionLost depend on: no session ends unless it is asked to,
\* and one restart runs.
Undisturbed == MayDie = {} /\ \A r, t \in Restarts : r = t

\* A call that has not been made has no attempt.
Fresh == \A c \in Calls : pc[c] = "idle" => attempt[c] = "none"

NoneInFlight == \A a \in Calls : ~InFlight(a)

\* A promise is that of an attempt under way or of the session.
PromiseKept == sessionPromise # NoCall => InFlight(sessionPromise) \/ session = sessionPromise

\* The session is one that was started and has not been asked to end.
SessionLives ==
    session # NoCall => attempt[session] = "resolved" /\ sessionState[session] = "alive"

\* From dispose() on there is no session, and no promise but the one it awaits.
DisposingInv ==
    /\ Disposing => session = NoCall
    /\ \A d \in Disposals : pc[d] = "disposing" => sessionPromise \in {NoCall, waitsFor[d]}

Killing == \E r \in Restarts : pc[r] = "killing"

\* Who ends a session: a failed restart, which ignores its end, or dispose().
EndInv ==
    /\ \A s \in Calls : sessionState[s] = "dying" =>
          Disposed \/ \E r \in Restarts : pc[r] = "killing" /\ waitsFor[r] = s
    /\ Killing => ignoreDisposed
    /\ ignoreDisposed => Killing \/ Disposing

\* What a restart may rely on between its awaits.
RestartInv(r) ==
    /\ pc[r] = "awaitSession" =>
          /\ waitsFor[r] \in Calls
          /\ \/ InFlight(waitsFor[r])
             \/ attempt[waitsFor[r]] = "rejected" /\ NoneInFlight
             \/ attempt[waitsFor[r]] = "resolved" /\ (session = waitsFor[r] \/ Disposed)
    /\ pc[r] = "restarting" => waitsFor[r] \in Calls /\ (session = waitsFor[r] \/ Disposed)
    /\ pc[r] = "restartFailed" => NoneInFlight
    /\ pc[r] \in {"didStart", "initializing"} /\ waitsFor[r] # NoCall =>
          attempt[waitsFor[r]] = "resolved"
    /\ pc[r] = "initializing" => waitsFor[r] \in hooked

SessionInv ==
    /\ SharedSession /\ NoSessionLost
    /\ Fresh /\ PromiseKept /\ SessionLives /\ DisposingInv /\ EndInv
    /\ \A r \in Restarts : RestartInv(r)

Inv == DisposedInv /\ SessionInv

\* While an attempt is under way there is no session and no other attempt.
LEMMA OneFlight ==
    ASSUME Inv, NEW a \in Calls, InFlight(a)
    PROVE  /\ sessionPromise = a /\ session = NoCall /\ ~Disposed
           /\ \A b \in Calls : InFlight(b) => b = a
BY Kinds DEF Inv, DisposedInv, DisposedHasNoSession, Disposed, TypeOK, SessionInv, SharedSession,
   SessionLives, InFlight

\* While there is a session no attempt is under way, and the kernel is not being disposed.
LEMMA OneSession ==
    ASSUME Inv, session # NoCall
    PROVE  NoneInFlight /\ sessionPromise = session /\ ~Disposing /\ session \in Calls
BY OneFlight DEF Inv, DisposedInv, TypeOK, SessionInv, SharedSession, DisposingInv, NoneInFlight

\* A kernel without promise starts nothing.
LEMMA NoPromise ==
    ASSUME Inv, sessionPromise = NoCall
    PROVE  NoneInFlight /\ session = NoCall
BY OneFlight, OneSession, Kinds DEF NoneInFlight

\* Cancelling the token ends no attempt.
LEMMA CutOffFlight ==
    ASSUME TypeOK, attempt' = CutOff
    PROVE  \A a \in Calls :
              /\ InFlight(a)' <=> InFlight(a)
              /\ attempt'[a] = "resolved" <=> attempt[a] = "resolved"
              /\ attempt'[a] = "rejected" <=> attempt[a] = "rejected"
              /\ attempt'[a] = "none" <=> attempt[a] = "none"
BY DEF CutOff, InFlight, TypeOK, AttemptStates

\* Without an attempt under way it changes nothing.
LEMMA CutOffNothing ==
    ASSUME TypeOK, NoneInFlight
    PROVE  CutOff = attempt
BY DEF CutOff, NoneInFlight, InFlight, TypeOK

\* A step keeps the invariant when it only moves calls, and restarts to where they get what
\* is asked of them.
LEMMA SessionFrame ==
    ASSUME Inv, TypeOK', UNCHANGED <<sessionPromise, session, attempt, sessionState, ignoreDisposed>>,
           hooked \subseteq hooked',
           \A c \in Calls : pc'[c] = "idle" => pc[c] = "idle",
           \A d \in Disposals : pc'[d] = pc[d] /\ waitsFor'[d] = waitsFor[d],
           \A r \in Restarts : \/ pc'[r] = pc[r] /\ waitsFor'[r] = waitsFor[r]
                               \/ pc[r] # "killing" /\ pc'[r] # "killing" /\ RestartInv(r)'
    PROVE  SessionInv'
<1>1. SharedSession' /\ NoSessionLost' /\ PromiseKept' /\ SessionLives' /\ NoneInFlight' = NoneInFlight
  BY DEF Inv, SessionInv, SharedSession, NoSessionLost, PromiseKept, SessionLives, InFlight, NoneInFlight
<1>2. Fresh'
  BY DEF Inv, SessionInv, Fresh
<1>3. (Disposing' <=> Disposing) /\ (Disposed' <=> Disposed)
  BY DEF Disposing, Disposed
<1>4. DisposingInv'
  BY <1>3 DEF Inv, SessionInv, DisposingInv
<1>5. EndInv'
  BY <1>3 DEF Inv, SessionInv, EndInv, Killing
<1>6. ASSUME NEW r \in Restarts PROVE RestartInv(r)'
  BY <1>1, <1>3, <1>6 DEF Inv, SessionInv, RestartInv, InFlight
<1> QED
  BY <1>1, <1>2, <1>4, <1>5, <1>6 DEF SessionInv

\* The attempt that fails was the only one, and there was no session: none is left.
LEMMA SessionFails ==
    ASSUME Inv, TypeOK', NEW a \in Calls, InFlight(a), AttemptFails(a), sessionPromise' = NoCall,
           session' \in {session, NoCall},
           sessionState' \in {sessionState, [sessionState EXCEPT ![a] = "dead"]},
           UNCHANGED <<hooked, ignoreDisposed, waitsFor>>
    PROVE  SessionInv'
<1> USE Kinds
<1>0. TypeOK /\ SessionInv /\ DisposalWaits
  BY DEF Inv, DisposedInv
<1>1. session = NoCall /\ session' = NoCall /\ ~Disposed /\ \A b \in Calls : InFlight(b) => b = a
  BY OneFlight
<1>2. /\ NoneInFlight' /\ attempt'[a] = "rejected"
      /\ \A b \in Calls : b # a => /\ attempt'[b] = "resolved" <=> attempt[b] = "resolved"
                                   /\ attempt'[b] = "none" <=> attempt[b] = "none"
                                   /\ attempt'[b] = "rejected" <=> attempt[b] = "rejected"
                                   /\ sessionState'[b] = sessionState[b]
  BY <1>0, <1>1 DEF AttemptFails, CutOff, InFlight, NoneInFlight, TypeOK
<1>3. \A c \in Calls : pc'[c] = pc[c] \/ (pc[c] \in {"session", "sessionOnly"} /\ pc'[c] = Thrown(c))
  BY <1>0 DEF AttemptFails, TypeOK
<1>4. /\ \A d \in Disposals : pc'[d] = pc[d]
      /\ \A r \in Restarts : \/ pc'[r] = pc[r]
                             \/ pc[r] \in {"session", "sessionOnly"} /\ pc'[r] = "restartFailed"
  BY <1>0, <1>3 DEF DisposalWaits, Thrown
<1>5. SharedSession' /\ PromiseKept' /\ SessionLives'
  BY <1>1, <1>2 DEF SharedSession, PromiseKept, SessionLives, NoneInFlight
<1>6. NoSessionLost'
  BY <1>0, <1>1, <1>2 DEF SessionInv, NoSessionLost
<1>7. Fresh'
  BY <1>0, <1>2, <1>3 DEF SessionInv, Fresh, Thrown, InFlight
<1>8. (Disposing' <=> Disposing) /\ (Disposed' <=> Disposed)
  BY <1>4 DEF Disposing, Disposed
<1>9. DisposingInv'
  BY <1>1, <1>8 DEF DisposingInv
<1>10. EndInv'
  <2>1. \A s \in Calls : sessionState'[s] = "dying" => sessionState[s] = "dying"
    BY <1>0, <1>2 DEF TypeOK
  <2>2. \A r \in Restarts : pc'[r] = "killing" <=> pc[r] = "killing"
    BY <1>4
  <2> QED
    BY <1>0, <1>8, <2>1, <2>2 DEF SessionInv, EndInv, Killing
<1>11. ASSUME NEW r \in Restarts PROVE RestartInv(r)'
  <2>1. RestartInv(r)
    BY <1>0 DEF SessionInv
  <2>2. attempt[a] \notin {"resolved", "rejected"}
    BY DEF InFlight
  <2>3. CASE pc'[r] = pc[r]
    <3>1. waitsFor[r] \in Calls \cup {NoCall} /\ waitsFor'[r] = waitsFor[r]
      BY <1>0 DEF TypeOK
    <3>2. CASE pc[r] = "awaitSession"
      <4>1. waitsFor[r] \in Calls /\ (waitsFor[r] = a \/ attempt[waitsFor[r]] = "rejected")
        BY <1>1, <2>1, <3>2 DEF RestartInv
      <4>2. attempt'[waitsFor[r]] = "rejected"
        BY <1>2, <4>1
      <4> QED
        BY <1>2, <2>3, <3>1, <3>2, <4>1, <4>2 DEF RestartInv
    <3>3. CASE pc[r] # "awaitSession"
      BY <1>1, <1>2, <1>8, <2>1, <2>2, <2>3, <3>1, <3>3 DEF RestartInv
    <3> QED
      BY <3>2, <3>3
  <2>4. CASE pc'[r] = "restartFailed"
    BY <1>2, <2>4 DEF RestartInv
  <2> QED
    BY <1>4, <2>3, <2>4
<1> QED
  BY <1>5, <1>6, <1>7, <1>9, <1>10, <1>11 DEF SessionInv

\* start() begins an attempt only when there is no promise.  A restart does so when it has
\* nothing to wait for; other calls, when no restart is about to go on.
LEMMA SessionStarts ==
    ASSUME Inv, TypeOK', Undisturbed,
           NEW c \in Calls \ Disposals, NEW wait \in {"session", "sessionOnly"},
           StartSession(c, wait, attempt), pc[c] # "killing",
           c \in Restarts => NoneInFlight,
           c \notin Restarts => attempt[c] = "none" /\ \A r \in Restarts : ~Ready(r),
           UNCHANGED <<session, sessionState, hooked, ignoreDisposed>>
    PROVE  SessionInv'
<1> USE Kinds
<1>0. TypeOK /\ SessionInv /\ DisposalWaits
  BY DEF Inv, DisposedInv
<1>1. \A b \in Calls : b # c => /\ pc'[b] = pc[b] /\ waitsFor'[b] = waitsFor[b]
                                /\ attempt'[b] = attempt[b]
  BY <1>0 DEF StartSession, TypeOK
<1>2. pc'[c] \in {wait, Thrown(c)}
  BY <1>0 DEF StartSession, TypeOK
<1>3. CASE sessionPromise' = sessionPromise
  <2>1. attempt' = attempt
    <3>1. sessionPromise' = sessionPromise => Disposing \/ sessionPromise # NoCall
      BY DEF StartSession
    <3> QED
      BY <1>3, <3>1 DEF StartSession
  <2>2. pc'[c] = "restartFailed" => c \in Restarts
    BY <1>2 DEF Thrown
  <2> QED
    <3>1. SharedSession' /\ NoSessionLost' /\ PromiseKept' /\ SessionLives' /\ NoneInFlight' = NoneInFlight
      BY <1>0, <1>3, <2>1 DEF SessionInv, SharedSession, NoSessionLost, PromiseKept, SessionLives,
         InFlight, NoneInFlight
    <3>2. Fresh'
      BY <1>0, <1>1, <1>2, <2>1 DEF SessionInv, Fresh, Thrown
    <3>3. (Disposing' <=> Disposing) /\ (Disposed' <=> Disposed)
      BY <1>1 DEF Disposing, Disposed
    <3>4. DisposingInv'
      BY <1>0, <1>1, <1>3, <3>3 DEF SessionInv, DisposingInv
    <3>5. \A r \in Restarts : (pc'[r] = "killing" <=> pc[r] = "killing")
                              /\ (pc[r] = "killing" => waitsFor'[r] = waitsFor[r])
      BY <1>1, <1>2 DEF Thrown
    <3>6. EndInv'
      BY <1>0, <3>3, <3>5 DEF SessionInv, EndInv, Killing
    <3>7. ASSUME NEW r \in Restarts PROVE RestartInv(r)'
      <4>1. CASE r = c
        BY <1>2, <2>2, <3>1, <4>1 DEF RestartInv, Thrown
      <4>2. CASE r # c
        BY <1>0, <1>1, <2>1, <3>1, <3>3, <4>2 DEF SessionInv, RestartInv, InFlight
      <4> QED
        BY <4>1, <4>2
    <3> QED
      BY <3>1, <3>2, <3>4, <3>6, <3>7 DEF SessionInv
<1>4. CASE sessionPromise' # sessionPromise
  <2>1. /\ ~Disposing /\ sessionPromise = NoCall /\ sessionPromise' = c
        /\ pc'[c] = wait /\ attempt'[c] = "tracking"
    BY <1>0, <1>4 DEF StartSession, TypeOK
  <2>2. NoneInFlight /\ session = NoCall
    BY <2>1, NoPromise
  <2>3. InFlight(c)' /\ \A b \in Calls : InFlight(b)' => b = c
    BY <1>1, <2>1, <2>2 DEF NoneInFlight, InFlight
  <2>4. SharedSession' /\ PromiseKept' /\ SessionLives' /\ DisposingInv'
    <3>1. \A d \in Disposals : pc'[d] = "idle"
      BY <1>1, <2>1 DEF Disposing
    <3> QED
      BY <2>1, <2>2, <2>3, <3>1 DEF SharedSession, PromiseKept, SessionLives, DisposingInv, Disposing
  <2>5. NoSessionLost' /\ Fresh'
    BY <1>0, <1>1, <2>1 DEF SessionInv, NoSessionLost, Fresh
  <2>6. (Disposing' <=> Disposing) /\ (Disposed' <=> Disposed)
    BY <1>1 DEF Disposing, Disposed
  <2>7. EndInv'
    <3>1. \A r \in Restarts : (pc'[r] = "killing" <=> pc[r] = "killing")
                              /\ (pc[r] = "killing" => waitsFor'[r] = waitsFor[r])
      BY <1>1, <2>1
    <3> QED
      BY <1>0, <2>6, <3>1 DEF SessionInv, EndInv, Killing
  <2>8. ASSUME NEW r \in Restarts PROVE RestartInv(r)'
    <3>1. CASE r = c
      BY <2>1, <3>1 DEF RestartInv
    <3>2. CASE r # c
      <4>1. attempt[c] = "none" /\ ~Ready(r) /\ RestartInv(r)
        BY <1>0, <3>2 DEF Undisturbed, SessionInv
      <4>2. pc[r] # "restartFailed" /\ (pc[r] = "awaitSession" => ~Over(waitsFor[r]))
        BY <4>1 DEF Ready
      <4>3. pc[r] = "awaitSession" => waitsFor[r] \in Calls /\ InFlight(waitsFor[r])
        BY <4>1, <4>2 DEF RestartInv, Over
      <4>4. pc[r] # "awaitSession"
        BY <2>2, <4>3 DEF NoneInFlight
      <4>5. waitsFor[r] \in Calls /\ attempt[waitsFor[r]] = "resolved" => attempt'[waitsFor[r]] = "resolved"
        BY <1>1, <4>1
      <4>6. waitsFor[r] \in Calls \cup {NoCall}
        BY <1>0 DEF TypeOK
      <4> QED
        BY <1>1, <2>6, <3>2, <4>1, <4>2, <4>4, <4>5, <4>6 DEF RestartInv
    <3> QED
      BY <3>1, <3>2
  <2> QED
    BY <2>4, <2>5, <2>7, <2>8 DEF SessionInv
<1> QED
  BY <1>3, <1>4

\* An attempt that goes on is still the one of the promise.
LEMMA SessionAdvances ==
    ASSUME Inv, TypeOK', NEW a \in Calls, InFlight(a), NEW st,
           st \in {"creating", "didStart", "initializing"}, attempt' = [attempt EXCEPT ![a] = st],
           sessionState' \in {sessionState, [sessionState EXCEPT ![a] = "alive"]},
           hooked \subseteq hooked',
           UNCHANGED <<sessionPromise, session, ignoreDisposed, pc, waitsFor>>
    PROVE  SessionInv'
<1> USE Kinds
<1>0. TypeOK /\ SessionInv
  BY DEF Inv, DisposedInv
<1>1. session = NoCall /\ sessionPromise = a /\ \A b \in Calls : InFlight(b) => b = a
  BY OneFlight
<1>2. \A b \in Calls : b # a => attempt'[b] = attempt[b] /\ sessionState'[b] = sessionState[b]
  BY <1>0 DEF TypeOK
<1>3. InFlight(a)' /\ attempt[a] \notin {"none", "resolved", "rejected"} /\ attempt'[a] = st
  BY <1>0 DEF InFlight, TypeOK
<1>4. \A b \in Calls : InFlight(b)' <=> InFlight(b)
  BY <1>2, <1>3 DEF InFlight
<1>5. SharedSession' /\ PromiseKept' /\ SessionLives' /\ DisposingInv'
  BY <1>0, <1>1, <1>3, <1>4 DEF SessionInv, SharedSession, PromiseKept, SessionLives, DisposingInv, Disposing
<1>6. NoSessionLost' /\ Fresh'
  BY <1>0, <1>2, <1>3 DEF SessionInv, NoSessionLost, Fresh
<1>7. EndInv'
  <2>1. \A b \in Calls : sessionState'[b] = "dying" => sessionState[b] = "dying"
    BY <1>0 DEF TypeOK
  <2> QED
    BY <1>0, <2>1 DEF SessionInv, EndInv, Killing, Disposing, Disposed
<1>8. ASSUME NEW r \in Restarts PROVE RestartInv(r)'
  <2>1. RestartInv(r) /\ waitsFor[r] \in Calls \cup {NoCall}
    BY <1>0 DEF SessionInv, TypeOK
  <2>2. ~NoneInFlight
    BY DEF NoneInFlight
  <2> QED
    BY <1>1, <1>2, <1>3, <1>4, <2>1, <2>2 DEF RestartInv, NoneInFlight, Disposed
<1> QED
  BY <1>5, <1>6, <1>7, <1>8 DEF SessionInv

\* The session of the attempt under way becomes the kernel's.
LEMMA SessionCreated ==
    ASSUME Inv, TypeOK', NEW a \in Calls, InFlight(a), ~Disposing, sessionState[a] = "alive",
           attempt' = [attempt EXCEPT ![a] = "resolved"], session' = a,
           UNCHANGED <<sessionPromise, sessionState, hooked, ignoreDisposed, pc, waitsFor>>
    PROVE  SessionInv'
<1> USE Kinds
<1>0. TypeOK /\ SessionInv
  BY DEF Inv, DisposedInv
<1>1. session = NoCall /\ sessionPromise = a /\ \A b \in Calls : InFlight(b) => b = a
  BY OneFlight
<1>2. /\ attempt'[a] = "resolved" /\ attempt[a] \notin {"none", "resolved", "rejected"}
      /\ \A b \in Calls : b # a => attempt'[b] = attempt[b]
  BY <1>0 DEF InFlight, TypeOK
<1>3. NoneInFlight'
  BY <1>1, <1>2 DEF NoneInFlight, InFlight
<1>4. SharedSession' /\ PromiseKept' /\ SessionLives' /\ DisposingInv'
  BY <1>0, <1>1, <1>2, <1>3 DEF SessionInv, SharedSession, PromiseKept, SessionLives, DisposingInv,
     Disposing, NoneInFlight
<1>5. NoSessionLost' /\ Fresh'
  BY <1>0, <1>1, <1>2 DEF SessionInv, NoSessionLost, Fresh
<1>6. EndInv'
  BY <1>0 DEF SessionInv, EndInv, Killing, Disposing, Disposed
<1>7. ASSUME NEW r \in Restarts PROVE RestartInv(r)'
  <2>1. RestartInv(r) /\ waitsFor[r] \in Calls \cup {NoCall}
    BY <1>0 DEF SessionInv, TypeOK
  <2>2. ~Disposed
    BY OneFlight
  <2>3. CASE pc[r] = "awaitSession"
    <3>1. waitsFor[r] = a \/ attempt[waitsFor[r]] = "rejected"
      BY <1>1, <2>1, <2>2, <2>3 DEF RestartInv
    <3>2. waitsFor[r] \in Calls
      BY <2>1, <2>3 DEF RestartInv
    <3> QED
      BY <1>2, <1>3, <2>3, <3>1, <3>2 DEF RestartInv
  <2>4. CASE pc[r] # "awaitSession"
    <3>1. pc[r] # "restarting"
      BY <1>1, <2>1, <2>2 DEF RestartInv
    <3> QED
      BY <1>1, <1>2, <1>3, <2>1, <2>2, <2>4, <3>1 DEF RestartInv
  <2> QED
    BY <2>3, <2>4
<1> QED
  BY <1>4, <1>5, <1>6, <1>7 DEF SessionInv

\* dispose() takes the session when no attempt is under way, and with it all there is.
LEMMA SessionTaken ==
    ASSUME Inv, TypeOK', NEW d \in Disposals, NEW s \in Calls \cup {NoCall}, DisposeSession(d, s),
           NoneInFlight, session \in {s, NoCall}, attempt' = attempt,
           ignoreDisposed' \in {TRUE, ignoreDisposed}, UNCHANGED hooked
    PROVE  SessionInv'
<1> USE Kinds
<1>0. TypeOK /\ SessionInv
  BY DEF Inv, DisposedInv
<1>1. /\ sessionPromise' = NoCall /\ session' = NoCall /\ pc'[d] \in {"closing", "stuck", "returned"}
      /\ \A c \in Calls : c # d => pc'[c] = pc[c] /\ waitsFor'[c] = waitsFor[c]
  BY <1>0 DEF DisposeSession, Close, TypeOK
<1>2. /\ s \in Calls => sessionState'[s] # "alive"
      /\ \A b \in Calls : b # s => sessionState'[b] = sessionState[b]
  BY <1>0 DEF DisposeSession, Close, TypeOK
<1>3. Disposed' /\ Disposing'
  BY <1>1 DEF Disposed, Disposing
<1>4. SharedSession' /\ PromiseKept' /\ SessionLives' /\ DisposingInv'
  BY <1>1 DEF SharedSession, PromiseKept, SessionLives, DisposingInv, NoneInFlight, InFlight
<1>5. NoSessionLost' /\ Fresh'
  BY <1>0, <1>1, <1>2 DEF SessionInv, NoSessionLost, Fresh
<1>6. EndInv'
  BY <1>0, <1>1, <1>3 DEF SessionInv, EndInv, Killing
<1>7. ASSUME NEW r \in Restarts PROVE RestartInv(r)'
  <2>1. RestartInv(r) /\ pc'[r] = pc[r] /\ waitsFor'[r] = waitsFor[r] /\ NoneInFlight'
    BY <1>0, <1>1 DEF SessionInv, NoneInFlight, InFlight
  <2> QED
    BY <1>3, <2>1 DEF RestartInv, NoneInFlight
<1> QED
  BY <1>4, <1>5, <1>6, <1>7 DEF SessionInv

\* dispose() awaits the promise of an attempt, which it cuts off.
LEMMA DisposalAwaits ==
    ASSUME Inv, TypeOK', NEW d \in Disposals, session = NoCall, attempt' = CutOff,
           ignoreDisposed' = TRUE, pc' = [pc EXCEPT ![d] = "disposing"],
           waitsFor' = [waitsFor EXCEPT ![d] = sessionPromise],
           pc[d] = "idle", UNCHANGED <<sessionPromise, session, sessionState, hooked>>
    PROVE  SessionInv'
<1> USE Kinds
<1>0. TypeOK /\ SessionInv
  BY DEF Inv, DisposedInv
<1>1. /\ pc'[d] = "disposing" /\ waitsFor'[d] = sessionPromise
      /\ \A c \in Calls : c # d => pc'[c] = pc[c] /\ waitsFor'[c] = waitsFor[c]
  BY <1>0 DEF TypeOK
<1>2. \A a \in Calls : /\ InFlight(a)' <=> InFlight(a)
                       /\ attempt'[a] = "resolved" <=> attempt[a] = "resolved"
                       /\ attempt'[a] = "rejected" <=> attempt[a] = "rejected"
                       /\ attempt'[a] = "none" <=> attempt[a] = "none"
  BY <1>0, CutOffFlight
<1>3. SharedSession' /\ PromiseKept' /\ SessionLives'
  BY <1>0, <1>2 DEF SessionInv, SharedSession, PromiseKept, SessionLives, TypeOK
<1>4. NoSessionLost' /\ Fresh'
  BY <1>0, <1>1, <1>2 DEF SessionInv, NoSessionLost, Fresh
<1>5. DisposingInv' /\ Disposing' /\ (Disposed' <=> Disposed)
  BY <1>0, <1>1 DEF SessionInv, DisposingInv, Disposing, Disposed
<1>6. EndInv'
  BY <1>0, <1>1, <1>5 DEF SessionInv, EndInv, Killing
<1>7. ASSUME NEW r \in Restarts PROVE RestartInv(r)'
  <2>1. RestartInv(r) /\ waitsFor[r] \in Calls \cup {NoCall} /\ pc'[r] = pc[r] /\ waitsFor'[r] = waitsFor[r]
    BY <1>0, <1>1 DEF SessionInv, TypeOK
  <2>2. NoneInFlight' <=> NoneInFlight
    BY <1>2 DEF NoneInFlight
  <2> QED
    BY <1>2, <1>5, <2>1, <2>2 DEF RestartInv
<1> QED
  BY <1>3, <1>4, <1>5, <1>6, <1>7 DEF SessionInv

\* A session that was asked to end does: its end clears nothing that is still there.
LEMMA SessionEnds ==
    ASSUME Inv, TypeOK', Undisturbed, NEW s \in Calls, Gone(s)
    PROVE  SessionInv'
<1> USE Kinds
<1>0. TypeOK /\ SessionInv
  BY DEF Inv, DisposedInv
<1>1. sessionState[s] = "dying" /\ s # session
  BY <1>0 DEF Gone, Undisturbed, SessionInv, SessionLives
<1>2. UNCHANGED <<sessionPromise, session>>
  <2>1. ignoreDisposed \/ Disposed
    BY <1>0, <1>1 DEF SessionInv, EndInv, Killing
  <2>2. Disposed => sessionPromise = NoCall /\ session = NoCall
    BY DEF Inv, DisposedInv, DisposedHasNoSession, Disposed
  <2> QED
    BY <2>1, <2>2 DEF Gone, OnDidDispose
<1>3. /\ UNCHANGED <<attempt, hooked, ignoreDisposed, pc, waitsFor>>
      /\ sessionState'[s] = "dead" /\ \A b \in Calls : b # s => sessionState'[b] = sessionState[b]
  BY <1>0 DEF Gone, flagVars, callVars, TypeOK
<1>4. SharedSession' /\ PromiseKept' /\ DisposingInv' /\ Fresh' /\ \A r \in Restarts : RestartInv(r)'
  BY <1>0, <1>2, <1>3 DEF SessionInv, SharedSession, PromiseKept, DisposingInv, Fresh, Disposing,
     RestartInv, NoneInFlight, InFlight, Disposed
<1>5. NoSessionLost' /\ SessionLives'
  BY <1>0, <1>1, <1>2, <1>3 DEF SessionInv, NoSessionLost, SessionLives, TypeOK
<1>6. EndInv'
  BY <1>0, <1>3 DEF SessionInv, EndInv, Killing, Disposed, Disposing
<1> QED
  BY <1>4, <1>5, <1>6 DEF SessionInv

\* A restart that failed kills the session while nothing else is under way.
LEMMA SessionKilled ==
    ASSUME Inv, TypeOK', Undisturbed, NEW r \in Restarts, RestartFailed(r)
    PROVE  SessionInv'
<1> USE Kinds
<1>0. TypeOK /\ SessionInv /\ r \in Calls
  BY DEF Inv, DisposedInv
<1>1. NoneInFlight /\ ~Killing /\ pc[r] = "restartFailed"
  BY <1>0 DEF SessionInv, RestartInv, RestartFailed, Killing, Undisturbed
<1>2. /\ sessionPromise' = NoCall /\ session' = NoCall /\ UNCHANGED <<attempt, hooked>>
      /\ \A c \in Calls : c # r => pc'[c] = pc[c] /\ waitsFor'[c] = waitsFor[c]
      /\ \A b \in Calls : b # session => sessionState'[b] = sessionState[b]
  BY <1>0 DEF RestartFailed, Close, TypeOK
<1>3. \/ /\ session = NoCall /\ pc'[r] = "rejected" /\ ignoreDisposed' = FALSE
         /\ sessionState' = sessionState
      \/ /\ session # NoCall /\ pc'[r] = "killing" /\ ignoreDisposed' = TRUE
         /\ session \in Calls /\ sessionState'[session] = "dying" /\ waitsFor'[r] = session
  <2>1. session # NoCall => session \in Calls /\ sessionState[session] = "alive"
    BY <1>0 DEF SessionInv, SessionLives, TypeOK
  <2> QED
    BY <1>0, <2>1 DEF RestartFailed, Close, TypeOK
<1>4. (Disposing' <=> Disposing) /\ (Disposed' <=> Disposed)
  BY <1>2 DEF Disposing, Disposed
<1>5. SharedSession' /\ PromiseKept' /\ SessionLives' /\ DisposingInv'
  BY <1>1, <1>2 DEF SharedSession, PromiseKept, SessionLives, DisposingInv, NoneInFlight, InFlight
<1>6. NoSessionLost' /\ Fresh'
  BY <1>0, <1>2, <1>3 DEF SessionInv, NoSessionLost, Fresh
<1>7. EndInv'
  <2>1. \A t \in Restarts : t = r
    BY DEF Undisturbed
  <2>2. \A b \in Calls : sessionState[b] = "dying" => Disposed
    BY <1>0, <1>1 DEF SessionInv, EndInv, Killing
  <2>3. \A b \in Calls : sessionState'[b] = "dying" =>
           Disposed \/ (pc'[r] = "killing" /\ waitsFor'[r] = b)
    BY <1>2, <1>3, <2>2
  <2>4. Killing' <=> pc'[r] = "killing"
    BY <2>1 DEF Killing
  <2> QED
    BY <1>3, <1>4, <2>1, <2>3, <2>4 DEF EndInv
<1>8. ASSUME NEW t \in Restarts PROVE RestartInv(t)'
  BY <1>3, <1>8 DEF Undisturbed, RestartInv
<1> QED
  BY <1>5, <1>6, <1>7, <1>8 DEF SessionInv

\* The session a failed restart killed is gone: no other is ending, unless it was disposed.
LEMMA KillOver ==
    ASSUME Inv, TypeOK', Undisturbed, NEW r \in Restarts, Killed(r)
    PROVE  SessionInv'
<1> USE Kinds
<1>0. TypeOK /\ SessionInv /\ r \in Calls
  BY DEF Inv, DisposedInv
<1>1. /\ UNCHANGED <<sessionVars, waitsFor>> /\ ignoreDisposed' = FALSE /\ pc'[r] = "rejected"
      /\ \A c \in Calls : c # r => pc'[c] = pc[c]
      /\ pc[r] = "killing" /\ sessionState[waitsFor[r]] = "dead"
  BY <1>0 DEF Killed, TypeOK
<1>2. (Disposing' <=> Disposing) /\ (Disposed' <=> Disposed)
  BY <1>1 DEF Disposing, Disposed
<1>3. SharedSession' /\ PromiseKept' /\ SessionLives' /\ DisposingInv' /\ NoSessionLost' /\ Fresh'
  BY <1>0, <1>1, <1>2 DEF SessionInv, SharedSession, PromiseKept, SessionLives, DisposingInv,
     NoSessionLost, Fresh, InFlight, sessionVars
<1>4. EndInv'
  BY <1>0, <1>1, <1>2 DEF SessionInv, EndInv, Killing, Undisturbed, sessionVars
<1>5. ASSUME NEW t \in Restarts PROVE RestartInv(t)'
  BY <1>1, <1>5 DEF Undisturbed, RestartInv
<1> QED
  BY <1>3, <1>4, <1>5 DEF SessionInv

\* waitForIdle of a restart shuts the kernel's session down, and the kernel notices.
LEMMA SessionShutDown ==
    ASSUME Inv, TypeOK', Undisturbed, NEW r \in Restarts, ReinitializeThrows(r),
           sessionState' # sessionState
    PROVE  SessionInv'
<1> USE Kinds
<1> DEFINE w == waitsFor[r]
<1>0. TypeOK /\ SessionInv /\ r \in Calls
  BY DEF Inv, DisposedInv
<1>1. /\ pc[r] = "initializing" /\ sessionState[w] = "alive"
      /\ sessionState' = [sessionState EXCEPT ![w] = "dead"] /\ OnDidDispose(w)
      /\ UNCHANGED <<attempt, hooked, ignoreDisposed, waitsFor>>
  BY DEF ReinitializeThrows, flagVars
<1>2. w \in hooked /\ w \in Calls /\ attempt[w] = "resolved"
  BY <1>0, <1>1 DEF SessionInv, RestartInv, TypeOK
<1>3. session = w /\ NoneInFlight /\ ~Disposing
  <2>1. session = w
    BY <1>0, <1>1, <1>2 DEF SessionInv, NoSessionLost
  <2> QED
    BY <1>2, <2>1, OneSession
<1>4. ~Killing /\ ~ignoreDisposed
  BY <1>0, <1>1, <1>3 DEF SessionInv, EndInv, Killing, Undisturbed
<1>5. sessionPromise' = NoCall /\ session' = NoCall
  BY <1>1, <1>2, <1>4 DEF OnDidDispose
<1>6. /\ pc'[r] = "rejected" /\ \A c \in Calls : c # r => pc'[c] = pc[c]
      /\ sessionState'[w] = "dead" /\ \A b \in Calls : b # w => sessionState'[b] = sessionState[b]
  BY <1>0, <1>1, <1>2 DEF ReinitializeThrows, TypeOK
<1>7. (Disposing' <=> Disposing) /\ (Disposed' <=> Disposed)
  BY <1>6 DEF Disposing, Disposed
<1>8. SharedSession' /\ PromiseKept' /\ SessionLives' /\ DisposingInv'
  BY <1>1, <1>3, <1>5 DEF SharedSession, PromiseKept, SessionLives, DisposingInv, NoneInFlight, InFlight
<1>9. NoSessionLost' /\ Fresh'
  BY <1>0, <1>1, <1>3, <1>6 DEF SessionInv, NoSessionLost, Fresh
<1>10. EndInv'
  BY <1>0, <1>1, <1>4, <1>6, <1>7 DEF SessionInv, EndInv, Killing, Undisturbed
<1>11. ASSUME NEW t \in Restarts PROVE RestartInv(t)'
  BY <1>6, <1>11 DEF Undisturbed, RestartInv
<1> QED
  BY <1>8, <1>9, <1>10, <1>11 DEF SessionInv

\* After the hooks a restart awaits the promise, and the attempt behind it is cut off.
LEMMA RestartAwaits ==
    ASSUME Inv, TypeOK', Undisturbed, NEW r \in Restarts, Hooked(r), sessionPromise # NoCall
    PROVE  SessionInv'
<1> USE Kinds
<1>0. TypeOK /\ SessionInv /\ r \in Calls
  BY DEF Inv, DisposedInv
<1>1. /\ attempt' = CutOff /\ pc'[r] = "awaitSession" /\ waitsFor'[r] = sessionPromise
      /\ \A c \in Calls : c # r => pc'[c] = pc[c] /\ waitsFor'[c] = waitsFor[c]
      /\ pc[r] = "willRestart"
      /\ UNCHANGED <<sessionPromise, session, sessionState, hooked, ignoreDisposed>>
  BY <1>0 DEF Hooked, TypeOK
<1>2. \A a \in Calls : /\ InFlight(a)' <=> InFlight(a)
                       /\ attempt'[a] = "resolved" <=> attempt[a] = "resolved"
                       /\ attempt'[a] = "none" <=> attempt[a] = "none"
  BY <1>0, <1>1, CutOffFlight
<1>3. (Disposing' <=> Disposing) /\ (Disposed' <=> Disposed)
  BY <1>1 DEF Disposing, Disposed
<1>4. SharedSession' /\ PromiseKept' /\ SessionLives' /\ NoSessionLost' /\ Fresh'
  BY <1>0, <1>1, <1>2 DEF SessionInv, SharedSession, PromiseKept, SessionLives, NoSessionLost,
     Fresh, TypeOK
<1>5. DisposingInv'
  BY <1>0, <1>1, <1>3 DEF SessionInv, DisposingInv
<1>6. EndInv'
  BY <1>0, <1>1, <1>3 DEF SessionInv, EndInv, Killing
<1>7. ASSUME NEW t \in Restarts PROVE RestartInv(t)'
  <2>1. t = r
    BY DEF Undisturbed
  <2>2. sessionPromise \in Calls /\ (InFlight(sessionPromise) \/ session = sessionPromise)
    BY <1>0 DEF SessionInv, PromiseKept, TypeOK
  <2>3. session = sessionPromise => attempt[sessionPromise] = "resolved"
    BY <1>0 DEF SessionInv, SessionLives
  <2> QED
    BY <1>1, <1>2, <2>1, <2>2, <2>3 DEF RestartInv
<1> QED
  BY <1>4, <1>5, <1>6, <1>7 DEF SessionInv

\* The end of a disposal changes nothing.
LEMMA DisposalEnds ==
    ASSUME Inv, TypeOK', NEW d \in Disposals, Closed(d)
    PROVE  SessionInv'
<1> USE Kinds
<1>0. TypeOK /\ SessionInv
  BY DEF Inv, DisposedInv
<1>1. /\ UNCHANGED <<sessionVars, ignoreDisposed, waitsFor>> /\ pc'[d] = "returned"
      /\ pc[d] = "closing" /\ \A c \in Calls : c # d => pc'[c] = pc[c]
  BY <1>0 DEF Closed, TypeOK, flagVars
<1>2. Disposing' /\ Disposing /\ Disposed' /\ Disposed
  BY <1>1 DEF Disposing, Disposed
<1>3. SharedSession' /\ PromiseKept' /\ SessionLives' /\ DisposingInv' /\ NoSessionLost' /\ Fresh'
  BY <1>0, <1>1, <1>2 DEF SessionInv, SharedSession, PromiseKept, SessionLives, DisposingInv,
     NoSessionLost, Fresh, InFlight, sessionVars
<1>4. EndInv' /\ \A r \in Restarts : RestartInv(r)'
  BY <1>0, <1>1, <1>2 DEF SessionInv, EndInv, Killing, RestartInv, NoneInFlight, InFlight, sessionVars
<1> QED
  BY <1>3, <1>4 DEF SessionInv

\* Every action keeps the session shared and the kernel's.
LEMMA SessionStep ==
    ASSUME Inv, Undisturbed, [Next]_vars
    PROVE  SessionInv'
<1> USE Kinds
<1>0. TypeOK /\ TypeOK' /\ SessionInv /\ DisposalWaits
  BY TypeStep DEF Inv, DisposedInv
<1>1. ASSUME NEW c \in UserStarts \cup QuietStarts, Start(c) PROVE SessionInv'
  <2>1. /\ c \in Calls \ Disposals /\ c \notin Restarts /\ pc[c] = "idle"
        /\ \A r \in Restarts : ~Ready(r)
    BY <1>1 DEF Start, Starters, Quiescent
  <2>2. attempt[c] = "none"
    BY <1>0, <2>1 DEF SessionInv, Fresh
  <2>3. PICK wait \in {"session", "sessionOnly"} : StartSession(c, wait, attempt)
    BY <1>1 DEF Start
  <2> QED
    BY <1>1, <1>0, <2>1, <2>2, <2>3, SessionStarts DEF Start
<1>2. ASSUME NEW c \in CodeStarts, NEW n \in handling \cup {0}, CodeStart(c, n) PROVE SessionInv'
  <2>1. /\ c \in Calls \ Disposals /\ c \notin Restarts /\ pc[c] = "idle"
        /\ \A r \in Restarts : ~Ready(r)
    BY <1>2 DEF CodeStart, Starters, Quiescent
  <2>2. attempt[c] = "none"
    BY <1>0, <2>1 DEF SessionInv, Fresh
  <2>3. PICK wait \in {"session", "sessionOnly"} : StartSession(c, wait, attempt)
    BY <1>2 DEF CodeStart
  <2> QED
    BY <1>2, <1>0, <2>1, <2>2, <2>3, SessionStarts DEF CodeStart
<1>3. ASSUME NEW c \in Calls, Joined(c) PROVE SessionInv'
  <2>1. /\ UNCHANGED <<sessionVars, flagVars, waitsFor>> /\ pc[c] \in {"session", "sessionOnly"}
        /\ pc'[c] \in {"event", "started", "returned"}
        /\ \A b \in Calls : b # c => pc'[b] = pc[b]
    BY <1>3, <1>0 DEF Joined, Fire, Done, TypeOK
  <2>2. \A r \in Restarts : pc'[r] # pc[r] => pc[r] # "killing" /\ pc'[r] # "killing" /\ RestartInv(r)'
    BY <2>1 DEF RestartInv
  <2>3. c \notin Disposals
    BY <1>0, <2>1 DEF DisposalWaits
  <2> QED
    BY <1>0, <2>1, <2>2, <2>3, SessionFrame DEF sessionVars, flagVars
<1>4. ASSUME NEW r \in Restarts, RestartSession(r) PROVE SessionInv'
  <2>1. pc[r] = "awaitSession" /\ RestartInv(r) /\ r \in Calls \ Disposals
    BY <1>4, <1>0 DEF RestartSession, SessionInv
  <2>2. CASE attempt[waitsFor[r]] = "resolved"
    <3>1. /\ UNCHANGED <<sessionPromise, session, attempt, sessionState, hooked, ignoreDisposed, waitsFor>>
          /\ pc'[r] = "restarting" /\ \A b \in Calls : b # r => pc'[b] = pc[b]
      BY <1>4, <1>0, <2>1, <2>2 DEF RestartSession, TypeOK
    <3>2. Disposed' <=> Disposed
      BY <2>1, <3>1 DEF Disposed
    <3>3. RestartInv(r)'
      BY <2>1, <2>2, <3>1, <3>2 DEF RestartInv, InFlight
    <3> QED
      BY <1>0, <2>1, <3>1, <3>3, SessionFrame
  <2>3. CASE attempt[waitsFor[r]] = "rejected"
    <3>1. NoneInFlight
      BY <2>1, <2>3 DEF RestartInv, InFlight
    <3>2. StartSession(r, "session", attempt)
      BY <1>4, <2>3 DEF RestartSession
    <3> QED
      BY <1>4, <1>0, <2>1, <3>1, <3>2, SessionStarts DEF RestartSession
  <2> QED
    BY <1>4, <2>2, <2>3 DEF RestartSession
<1>5. ASSUME NEW r \in Restarts, Restarted(r) PROVE SessionInv'
  <2>1. /\ UNCHANGED <<sessionVars, ignoreDisposed>> /\ pc[r] \in {"restarted", "started"}
        /\ pc'[r] = "didStart" /\ waitsFor'[r] = session
        /\ \A b \in Calls : b # r => pc'[b] = pc[b] /\ waitsFor'[b] = waitsFor[b]
    BY <1>5, <1>0 DEF Restarted, TypeOK
  <2>2. RestartInv(r)'
    BY <1>0, <2>1 DEF RestartInv, SessionInv, SessionLives, sessionVars
  <2> QED
    BY <1>0, <2>1, <2>2, SessionFrame DEF sessionVars
<1>6. ASSUME NEW r \in Restarts, RestartFailed(r) PROVE SessionInv'
  BY <1>6, <1>0, SessionKilled
<1>7. ASSUME NEW r \in Restarts, Killed(r) PROVE SessionInv'
  BY <1>7, <1>0, KillOver
<1>8. ASSUME NEW d \in Disposals, DisposeContinues(d) PROVE SessionInv'
  <2>1. Disposing /\ session = NoCall /\ sessionPromise \in {NoCall, waitsFor[d]}
    BY <1>8, <1>0 DEF DisposeContinues, SessionInv, DisposingInv, Disposing
  <2>2. NoneInFlight
    BY <1>8, <2>1, OneFlight DEF DisposeContinues, NoneInFlight, InFlight, Over
  <2>3. PICK s \in Calls \cup {NoCall} : DisposeSession(d, s)
    BY <1>8, <1>0 DEF DisposeContinues, TypeOK
  <2> QED
    BY <1>8, <1>0, <2>1, <2>2, <2>3, SessionTaken DEF DisposeContinues, flagVars
<1>9. ASSUME NEW d \in Disposals, Closed(d) PROVE SessionInv'
  BY <1>9, <1>0, DisposalEnds
<1>10. ASSUME NEW a \in Calls, Track(a) PROVE SessionInv'
  <2>1. InFlight(a)
    BY <1>10 DEF Track, InFlight
  <2>2. CASE AttemptFails(a) /\ sessionPromise' = NoCall
    BY <1>10, <1>0, <2>1, <2>2, SessionFails DEF Track
  <2>3. CASE /\ attempt' = [attempt EXCEPT ![a] = "creating"] /\ UNCHANGED sessionState
             /\ UNCHANGED <<sessionPromise, pc>>
    BY <1>10, <1>0, <2>1, <2>3, SessionAdvances DEF Track
  <2> QED
    BY <1>10, <2>2, <2>3 DEF Track
<1>11. ASSUME NEW a \in Calls, Create(a) PROVE SessionInv'
  <2>1. InFlight(a)
    BY <1>11 DEF Create, InFlight
  <2>2. CASE AttemptFails(a) /\ sessionPromise' = NoCall /\ UNCHANGED sessionState
    BY <1>11, <1>0, <2>1, <2>2, SessionFails DEF Create
  <2>3. CASE /\ attempt' = [attempt EXCEPT ![a] = "didStart"]
             /\ sessionState' = [sessionState EXCEPT ![a] = "alive"]
             /\ UNCHANGED <<sessionPromise, pc>>
    BY <1>11, <1>0, <2>1, <2>3, SessionAdvances DEF Create
  <2> QED
    BY <1>11, <2>2, <2>3 DEF Create
<1>12. ASSUME NEW a \in Calls, DidStart(a) PROVE SessionInv'
  <2>1. InFlight(a)
    BY <1>12 DEF DidStart, InFlight
  <2> QED
    BY <1>12, <1>0, <2>1, SessionAdvances DEF DidStart, flagVars, callVars
<1>13. ASSUME NEW a \in Calls, Initialized(a) PROVE SessionInv'
  <2>1. InFlight(a)
    BY <1>13 DEF Initialized, InFlight
  <2>2. CASE AttemptFails(a) /\ sessionPromise' = NoCall /\ UNCHANGED session
    BY <1>13, <1>0, <2>1, <2>2, SessionFails DEF Initialized
  <2>3. CASE /\ attempt' = [attempt EXCEPT ![a] = "resolved"] /\ session' = a /\ ~Disposing
             /\ UNCHANGED <<sessionPromise, pc>>
    BY <1>13, <1>0, <2>1, <2>3, SessionCreated DEF Initialized
  <2> QED
    BY <1>13, <2>2, <2>3 DEF Initialized
<1>14. ASSUME NEW a \in Calls, InitializeThrows(a) PROVE SessionInv'
  <2>1. InFlight(a)
    BY <1>14 DEF InitializeThrows, InFlight
  <2> QED
    BY <1>14, <1>0, <2>1, SessionFails DEF InitializeThrows
<1>15. ASSUME NEW a \in Calls, NotIdle(a) PROVE SessionInv'
  <2>1. InFlight(a)
    BY <1>15 DEF NotIdle, InFlight
  <2> QED
    BY <1>15, <1>0, <2>1, SessionFails DEF NotIdle
<1>16. ASSUME NEW s \in Calls, Gone(s) PROVE SessionInv'
  BY <1>16, <1>0, SessionEnds
<1>17. ASSUME NEW r \in Restarts, Restart(r) PROVE SessionInv'
  <2>1. /\ UNCHANGED <<sessionVars, ignoreDisposed>> /\ pc[r] = "idle" /\ pc'[r] = "willRestart"
        /\ \A b \in Calls : b # r => pc'[b] = pc[b] /\ waitsFor'[b] = waitsFor[b]
    BY <1>17, <1>0 DEF Restart, flagVars, TypeOK
  <2>2. RestartInv(r)'
    BY <2>1 DEF RestartInv
  <2> QED
    BY <1>0, <2>1, <2>2, SessionFrame DEF sessionVars
<1>18. ASSUME NEW r \in Restarts, Hooked(r) PROVE SessionInv'
  <2>1. CASE sessionPromise = NoCall
    <3>1. NoneInFlight /\ pc[r] = "willRestart" /\ StartSession(r, "session", attempt)
      BY <1>18, <1>0, <2>1, NoPromise, CutOffNothing DEF Hooked
    <3> QED
      BY <1>18, <1>0, <3>1, SessionStarts DEF Hooked
  <2>2. CASE sessionPromise # NoCall
    BY <1>18, <1>0, <2>2, RestartAwaits
  <2> QED
    BY <2>1, <2>2
<1>19. ASSUME NEW r \in Restarts, RestartDidStart(r) PROVE SessionInv'
  <2>1. /\ UNCHANGED <<sessionPromise, session, attempt, sessionState, ignoreDisposed, waitsFor>>
        /\ hooked \subseteq hooked' /\ pc[r] = "didStart" /\ waitsFor'[r] = waitsFor[r]
        /\ pc'[r] = "initializing" \/ pc'[r] \in {"lastEvent", "returned"}
        /\ pc'[r] = "initializing" => waitsFor[r] \in hooked'
        /\ \A b \in Calls : b # r => pc'[b] = pc[b]
    BY <1>19, <1>0 DEF RestartDidStart, Fire, flagVars, TypeOK
  <2>2. RestartInv(r)
    BY <1>0 DEF SessionInv
  <2>3. RestartInv(r)'
    BY <2>1, <2>2 DEF RestartInv
  <2> QED
    BY <1>0, <2>1, <2>3, SessionFrame
<1>20. ASSUME NEW r \in Restarts, Reinitialized(r) PROVE SessionInv'
  <2>1. /\ UNCHANGED <<sessionVars, ignoreDisposed>> /\ pc[r] = "initializing"
        /\ pc'[r] \in {"lastEvent", "returned"}
        /\ \A b \in Calls : b # r => pc'[b] = pc[b] /\ waitsFor'[b] = waitsFor[b]
    BY <1>20, <1>0 DEF Reinitialized, Fire, flagVars, TypeOK
  <2>2. RestartInv(r)'
    BY <2>1 DEF RestartInv
  <2> QED
    BY <1>0, <2>1, <2>2, SessionFrame DEF sessionVars
<1>21. ASSUME NEW r \in Restarts, ReinitializeThrows(r) PROVE SessionInv'
  <2>1. CASE sessionState' # sessionState
    BY <1>21, <1>0, <2>1, SessionShutDown
  <2>2. CASE sessionState' = sessionState
    <3>1. sessionState[waitsFor[r]] = "alive" /\ sessionState' = sessionState =>
             UNCHANGED <<sessionPromise, session>>
      <4>1. waitsFor[r] \in Calls
        BY <1>21, <1>0 DEF ReinitializeThrows, SessionInv, RestartInv, TypeOK
      <4> QED
        BY <1>21, <1>0, <4>1 DEF ReinitializeThrows, TypeOK
    <3>2. /\ UNCHANGED <<sessionPromise, session, attempt, sessionState, hooked, ignoreDisposed, waitsFor>>
          /\ pc[r] = "initializing" /\ pc'[r] = "rejected"
          /\ \A b \in Calls : b # r => pc'[b] = pc[b]
      BY <1>21, <1>0, <2>2, <3>1 DEF ReinitializeThrows, flagVars, TypeOK
    <3>3. RestartInv(r)'
      BY <3>2 DEF RestartInv
    <3> QED
      BY <1>0, <3>2, <3>3, SessionFrame
  <2> QED
    BY <2>1, <2>2
<1>22. ASSUME SessionRestarts PROVE SessionInv'
  <2>1. /\ UNCHANGED <<sessionVars, flagVars, waitsFor>>
        /\ \A c \in Calls : \/ pc'[c] = pc[c]
                            \/ pc[c] = "restarting" /\ pc'[c] \in {"restarted", "restartFailed"}
    <3>1. UNCHANGED <<sessionVars, flagVars, waitsFor>>
      BY <1>22 DEF SessionRestarts
    <3>2. PICK outcome \in {"restarted", "restartFailed"} :
             pc' = [c \in Calls |-> IF pc[c] = "restarting" THEN outcome ELSE pc[c]]
      BY <1>22 DEF SessionRestarts
    <3>3. \A c \in Calls : \/ pc'[c] = pc[c]
                           \/ pc[c] = "restarting" /\ pc'[c] \in {"restarted", "restartFailed"}
      BY <3>2
    <3> QED
      BY <3>1, <3>3
  <2>2. ASSUME NEW r \in Restarts, pc'[r] # pc[r] PROVE RestartInv(r)'
    <3>1. pc[r] = "restarting" /\ pc'[r] \in {"restarted", "restartFailed"} /\ RestartInv(r)
      BY <1>0, <2>1, <2>2 DEF SessionInv
    <3>2. NoneInFlight
      <4>1. CASE Disposed
        BY <4>1, OneFlight DEF NoneInFlight
      <4>2. CASE ~Disposed
        BY <3>1, <4>2, OneSession DEF RestartInv
      <4> QED
        BY <4>1, <4>2
    <3> QED
      BY <2>1, <3>1, <3>2 DEF RestartInv, NoneInFlight, InFlight, sessionVars
  <2>3. \A d \in Disposals : pc'[d] = pc[d]
    BY <1>0, <2>1 DEF DisposalWaits
  <2> QED
    BY <1>0, <2>1, <2>2, <2>3, SessionFrame DEF sessionVars, flagVars
<1>23. ASSUME NEW n \in handling, EventHandled(n) PROVE SessionInv'
  <2>1. /\ UNCHANGED <<sessionVars, flagVars, waitsFor>>
        /\ \A c \in Calls : \/ pc'[c] = pc[c]
                            \/ pc[c] \in {"event", "lastEvent"} /\ pc'[c] \in {"started", "returned"}
    <3>1. UNCHANGED <<sessionVars, flagVars, waitsFor>>
      BY <1>23 DEF EventHandled
    <3>2. pc' = [c \in Calls |->
                    IF waitsEvent[c] # n THEN pc[c]
                    ELSE IF pc[c] = "event" THEN Done(c)
                    ELSE IF pc[c] = "lastEvent" THEN "returned"
                    ELSE pc[c]]
      BY <1>23 DEF EventHandled
    <3>3. \A c \in Calls : \/ pc'[c] = pc[c]
                           \/ pc[c] \in {"event", "lastEvent"} /\ pc'[c] \in {"started", "returned"}
      BY <3>2 DEF Done
    <3> QED
      BY <3>1, <3>3
  <2>2. \A r \in Restarts : pc'[r] # pc[r] => pc[r] # "killing" /\ pc'[r] # "killing" /\ RestartInv(r)'
    BY <2>1 DEF RestartInv
  <2>3. \A d \in Disposals : pc'[d] = pc[d]
    BY <1>0, <2>1 DEF DisposalWaits
  <2> QED
    BY <1>0, <2>1, <2>2, <2>3, SessionFrame DEF sessionVars, flagVars
<1>24. ASSUME NEW d \in Disposals, Dispose(d) PROVE SessionInv'
  <2>1. attempt' = CutOff /\ ignoreDisposed' = TRUE /\ UNCHANGED hooked /\ pc[d] = "idle"
    BY <1>24 DEF Dispose
  <2>2. CASE session # NoCall \/ sessionPromise = NoCall
    <3>1. DisposeSession(d, session) /\ NoneInFlight /\ session \in Calls \cup {NoCall}
      BY <1>24, <1>0, <2>2, OneSession, NoPromise DEF Dispose, TypeOK
    <3> QED
      BY <1>0, <2>1, <3>1, CutOffNothing, SessionTaken
  <2>3. CASE session = NoCall /\ sessionPromise # NoCall
    BY <1>24, <1>0, <2>1, <2>3, DisposalAwaits DEF Dispose
  <2> QED
    BY <2>2, <2>3
<1>25. ASSUME UNCHANGED vars PROVE SessionInv'
  BY <1>25, <1>0, SessionFrame DEF vars, sessionVars, flagVars, callVars
<1> QED
  BY <1>1, <1>2, <1>3, <1>4, <1>5, <1>6, <1>7, <1>8, <1>9, <1>10, <1>11, <1>12, <1>13, <1>14,
     <1>15, <1>16, <1>17, <1>18, <1>19, <1>20, <1>21, <1>22, <1>23, <1>24, <1>25
     DEF Next, Continuation, Progress, RestartProgress

\* While no session ends by itself, one restart and any starts and disposals of a kernel share
\* one session, no start makes another beside it, and none is lost alive or kept dead.
THEOREM SessionShared ==
    ASSUME Undisturbed
    PROVE  Spec => [](SharedSession /\ NoSessionLost /\ NoDeadSession)
<1>1. Init => Inv
  <2>1. Init => DisposedInv
    BY TypeInit, Kinds DEF Init, DisposedInv, DisposalWaits, DisposedHasNoSession
  <2>2. Init => SessionInv
    BY Kinds DEF Init, SessionInv, SharedSession, NoSessionLost, Fresh, PromiseKept, SessionLives,
       DisposingInv, Disposing, EndInv, Killing, RestartInv, InFlight
  <2> QED
    BY <2>1, <2>2 DEF Inv
<1>2. Inv /\ [Next]_vars => Inv'
  BY DisposedStep, SessionStep DEF Inv
<1>3. Inv => SharedSession /\ NoSessionLost /\ NoDeadSession
  BY DEF Inv, SessionInv, SessionLives, NoDeadSession
<1> QED
  BY <1>1, <1>2, <1>3, PTL DEF Spec

\* While no session ends by itself, a session that was started and is alive is the kernel's.
THEOREM SessionKept == ASSUME Undisturbed PROVE Spec => []NoSessionLost
<1>1. SharedSession /\ NoSessionLost /\ NoDeadSession => NoSessionLost
  OBVIOUS
<1> QED
  BY <1>1, SessionShared, PTL

-----------------------------------------------------------------------------
(* The end of a session is noticed *)

\* The kernel listens to its session, and ignores its end only when it is being disposed.
DeathInv ==
    /\ session # NoCall => session \in hooked /\ sessionState[session] # "dead"
    /\ \A a \in Calls : attempt[a] = "initializing" => a \in hooked
    /\ Disposing => session = NoCall
    /\ ignoreDisposed => Disposing

\* A step keeps that when the kernel gets no session, and the one it keeps does not end.
LEMMA DeathFrame ==
    ASSUME DeathInv, TypeOK, TypeOK', session' \in {session, NoCall}, ignoreDisposed' = ignoreDisposed,
           hooked \subseteq hooked',
           \A a \in Calls : attempt'[a] = "initializing" => attempt[a] = "initializing" \/ a \in hooked',
           session' = session /\ session \in Calls /\ sessionState'[session] = "dead" =>
              sessionState[session] = "dead",
           \A d \in Disposals : pc'[d] = "idle" <=> pc[d] = "idle"
    PROVE  DeathInv'
BY Kinds DEF DeathInv, TypeOK, Disposing

\* An attempt that fails moves no other on, and no disposal.
LEMMA AttemptEnds ==
    ASSUME DisposedInv, NEW a \in Calls, AttemptFails(a)
    PROVE  /\ \A b \in Calls : attempt'[b] = "initializing" => attempt[b] = "initializing"
           /\ \A d \in Disposals : pc'[d] = pc[d]
BY Kinds DEF AttemptFails, CutOff, DisposedInv, DisposalWaits, TypeOK

\* Every action of a kernel that is not restarted keeps it.
LEMMA DeathStep ==
    ASSUME DisposedInv, DeathInv, Restarts = {}, [Next]_vars
    PROVE  DeathInv'
<1> USE Kinds
<1>0. TypeOK /\ TypeOK' /\ DeathInv
  BY TypeStep DEF DisposedInv
<1>a. \A d \in Disposals : pc[d] \notin {"session", "sessionOnly", "event", "lastEvent", "idle"}
                           \/ pc[d] = "idle"
  BY DEF DisposedInv, DisposalWaits
<1>1. ASSUME NEW c \in UserStarts \cup QuietStarts, Start(c) PROVE DeathInv'
  <2>1. c \in Calls \ Disposals
    BY DEF Starters
  <2>2. PICK wait : StartSession(c, wait, attempt)
    BY <1>1 DEF Start
  <2>3. \A a \in Calls : attempt'[a] = "initializing" => attempt[a] = "initializing"
    BY <1>0, <2>2 DEF StartSession, TypeOK
  <2> QED
    BY <1>1, <1>0, <2>1, <2>2, <2>3, StartSessionDisposed, DeathFrame DEF Start
<1>2. ASSUME NEW c \in CodeStarts, NEW n \in handling \cup {0}, CodeStart(c, n) PROVE DeathInv'
  <2>1. c \in Calls \ Disposals
    BY DEF Starters
  <2>2. PICK wait : StartSession(c, wait, attempt)
    BY <1>2 DEF CodeStart
  <2>3. \A a \in Calls : attempt'[a] = "initializing" => attempt[a] = "initializing"
    BY <1>0, <2>2 DEF StartSession, TypeOK
  <2> QED
    BY <1>2, <1>0, <2>1, <2>2, <2>3, StartSessionDisposed, DeathFrame DEF CodeStart
<1>3. ASSUME NEW c \in Calls, Joined(c) PROVE DeathInv'
  BY <1>3, <1>0, <1>a, DeathFrame DEF Joined, Fire, sessionVars, flagVars, TypeOK
<1>4. ASSUME NEW d \in Disposals, DisposeContinues(d) PROVE DeathInv'
  <2>1. PICK s : DisposeSession(d, s)
    BY <1>4 DEF DisposeContinues
  <2> QED
    BY <1>4, <1>0, <2>1 DEF DisposeContinues, DisposeSession, Close, DeathInv, Disposing, flagVars, TypeOK
<1>5. ASSUME NEW d \in Disposals, Closed(d) PROVE DeathInv'
  BY <1>5, <1>0, <1>a, DeathFrame DEF Closed, sessionVars, flagVars, TypeOK
<1>6. ASSUME NEW a \in Calls, Track(a) PROVE DeathInv'
  <2>1. CASE AttemptFails(a)
    BY <1>6, <1>0, <2>1, AttemptEnds, DeathFrame DEF Track
  <2>2. CASE attempt' = [attempt EXCEPT ![a] = "creating"] /\ UNCHANGED pc
    BY <1>6, <1>0, <2>2, DeathFrame DEF Track, TypeOK
  <2> QED
    BY <1>6, <2>1, <2>2 DEF Track
<1>7. ASSUME NEW a \in Calls, Create(a) PROVE DeathInv'
  <2>1. CASE AttemptFails(a) /\ UNCHANGED sessionState
    BY <1>7, <1>0, <2>1, AttemptEnds, DeathFrame DEF Create
  <2>2. CASE attempt' = [attempt EXCEPT ![a] = "didStart"] /\ UNCHANGED pc
    BY <1>7, <1>0, <2>2, DeathFrame DEF Create, TypeOK
  <2> QED
    BY <1>7, <2>1, <2>2 DEF Create
<1>8. ASSUME NEW a \in Calls, DidStart(a) PROVE DeathInv'
  BY <1>8, <1>0, <1>a, DeathFrame DEF DidStart, flagVars, callVars, TypeOK
<1>9. ASSUME NEW a \in Calls, Initialized(a) PROVE DeathInv'
  <2>1. CASE AttemptFails(a) /\ UNCHANGED session
    BY <1>9, <1>0, <1>a, <2>1, DeathFrame DEF Initialized, AttemptFails, CutOff, TypeOK
  <2>2. CASE ~Disposing /\ attempt' = [attempt EXCEPT ![a] = "resolved"] /\ session' = a /\ UNCHANGED pc
    BY <1>9, <1>0, <2>2 DEF Initialized, DeathInv, Disposing, TypeOK
  <2> QED
    BY <1>9, <2>1, <2>2 DEF Initialized
<1>10. ASSUME NEW a \in Calls, InitializeThrows(a) PROVE DeathInv'
  BY <1>10, <1>0, <1>a, DeathFrame DEF InitializeThrows, AttemptFails, CutOff, TypeOK
<1>11. ASSUME NEW a \in Calls, NotIdle(a) PROVE DeathInv'
  <2>1. session' = NoCall
    BY <1>11, <1>0 DEF NotIdle, DeathInv
  <2> QED
    BY <1>11, <1>0, <1>a, <2>1, DeathFrame DEF NotIdle, AttemptFails, CutOff, TypeOK
<1>12. ASSUME NEW s \in Calls, Gone(s) PROVE DeathInv'
  <2>1. session' = NoCall \/ (session' = session /\ s # session)
    BY <1>12, <1>0 DEF Gone, OnDidDispose, DeathInv, TypeOK
  <2> QED
    BY <1>12, <1>0, <2>1, DeathFrame DEF Gone, flagVars, callVars, TypeOK
<1>13. ASSUME NEW n \in handling, EventHandled(n) PROVE DeathInv'
  BY <1>13, <1>0, <1>a, DeathFrame DEF EventHandled, sessionVars, flagVars, TypeOK
<1>14. ASSUME NEW d \in Disposals, Dispose(d) PROVE DeathInv'
  <2>1. session' = NoCall /\ pc'[d] # "idle" /\ hooked' = hooked /\ attempt' = CutOff
    BY <1>14, <1>0 DEF Dispose, DisposeSession, Close, TypeOK
  <2> QED
    BY <1>0, <2>1 DEF CutOff, DeathInv, Disposing, TypeOK
<1>15. ASSUME SessionRestarts PROVE DeathInv'
  BY <1>15 DEF SessionRestarts
<1>16. ASSUME UNCHANGED vars PROVE DeathInv'
  BY <1>16, <1>0, DeathFrame DEF vars, sessionVars, flagVars, callVars
<1> QED
  BY <1>1, <1>2, <1>3, <1>4, <1>5, <1>6, <1>7, <1>8, <1>9, <1>10, <1>11, <1>12, <1>13, <1>14, <1>15, <1>16
     DEF Next, Continuation, Progress, RestartProgress

\* A kernel that is not restarted keeps no dead session, whenever and however sessions die.
THEOREM DeathNoticed == ASSUME Restarts = {} PROVE Spec => []NoDeadSession
<1>1. Init => DisposedInv /\ DeathInv
  BY TypeInit, Kinds DEF Init, DisposedInv, DisposalWaits, DisposedHasNoSession, DeathInv, Disposing
<1>2. DisposedInv /\ DeathInv /\ [Next]_vars => DisposedInv' /\ DeathInv'
  BY DisposedStep, DeathStep
<1>3. DeathInv => NoDeadSession
  BY DEF DeathInv, NoDeadSession
<1> QED
  BY <1>1, <1>2, <1>3, PTL DEF Spec

-----------------------------------------------------------------------------
(* The flag of executeCode *)

\* Who fires an event sets the flag for as long as a handler runs: every other step leaves both
\* the flag and the handlers alone, and the end of any event's handlers clears it.
LEMMA InProgressStep ==
    ASSUME InProgressMeansHandling, TypeOK, [Next]_vars
    PROVE  InProgressMeansHandling'
<1>1. CASE UNCHANGED <<inProgress, handling>>
  BY <1>1 DEF InProgressMeansHandling
<1>2. ASSUME NEW c, NEW wait, NEW done, Fire(c, wait, done) PROVE InProgressMeansHandling'
  <2>1. CASE tokenCancelled
    BY <1>2, <2>1 DEF Fire, InProgressMeansHandling
  <2>2. CASE ~tokenCancelled
    BY <1>2, <2>2 DEF Fire, InProgressMeansHandling
  <2> QED
    BY <2>1, <2>2
<1>3. ASSUME NEW n \in handling, EventHandled(n) PROVE InProgressMeansHandling'
  BY <1>3 DEF EventHandled, InProgressMeansHandling
<1>4. ASSUME NEW c \in Calls, Joined(c) PROVE InProgressMeansHandling'
  BY <1>1, <1>2, <1>4 DEF Joined, eventVars
<1>5. ASSUME NEW r \in Restarts, RestartDidStart(r) \/ Reinitialized(r) PROVE InProgressMeansHandling'
  BY <1>1, <1>2, <1>5 DEF RestartDidStart, Reinitialized, eventVars
<1>6. ASSUME NEW c \in Calls, Start(c) \/ (\E n \in handling \cup {0} : CodeStart(c, n))
      PROVE  InProgressMeansHandling'
  BY <1>1, <1>6 DEF Start, CodeStart, eventVars
<1>7. ASSUME NEW a \in Calls, Progress(a) \/ Gone(a) PROVE InProgressMeansHandling'
  BY <1>1, <1>7 DEF Progress, Track, Create, DidStart, Initialized, InitializeThrows, NotIdle, Gone,
     eventVars
<1>8. ASSUME NEW r \in Restarts,
             \/ RestartSession(r) \/ Restarted(r) \/ RestartFailed(r) \/ Killed(r)
             \/ Restart(r) \/ Hooked(r) \/ ReinitializeThrows(r)
      PROVE  InProgressMeansHandling'
  BY <1>1, <1>8 DEF RestartSession, Restarted, RestartFailed, Killed, Restart, Hooked,
     ReinitializeThrows, eventVars
<1>9. ASSUME NEW d \in Disposals, DisposeContinues(d) \/ Closed(d) \/ Dispose(d)
      PROVE  InProgressMeansHandling'
  BY <1>1, <1>9 DEF DisposeContinues, Closed, Dispose, eventVars
<1>10. ASSUME SessionRestarts \/ UNCHANGED vars PROVE InProgressMeansHandling'
  BY <1>1, <1>10 DEF SessionRestarts, vars, eventVars
<1> QED
  BY <1>3, <1>4, <1>5, <1>6, <1>7, <1>8, <1>9, <1>10
     DEF Next, Continuation, RestartProgress, Calls, Starters

\* executeCode takes the flag for a handler that is running, and does not await the event then:
\* it is set only while one is, in every run of every set of calls.
THEOREM InProgressHandled == Spec => []InProgressMeansHandling
<1>1. Init => TypeOK /\ InProgressMeansHandling
  BY TypeInit DEF Init, InProgressMeansHandling
<1>2. TypeOK /\ InProgressMeansHandling /\ [Next]_vars => TypeOK' /\ InProgressMeansHandling'
  BY TypeStep, InProgressStep
<1> QED
  BY <1>1, <1>2, PTL DEF Spec

-----------------------------------------------------------------------------
(* One event for a session *)

\* A session that had its event is one that was started, the kernel's has been started, and
\* while the kernel's session had its event the promise of that event is kept.
AnnouncedInv ==
    /\ \A a \in announced : attempt[a] = "resolved"
    /\ session # NoCall => attempt[session] = "resolved"
    /\ session \in announced => postInit # 0
    /\ Fresh

\* A step keeps that when it fires no event and starts no session: the promise of the event is
\* forgotten only with the session.
LEMMA AnnouncedFrame ==
    ASSUME AnnouncedInv, TypeOK, announced' = announced, session' \in {session, NoCall},
           postInit' = postInit \/ session' = NoCall,
           \A a \in Calls : attempt[a] = "resolved" => attempt'[a] = "resolved",
           \A c \in Calls : pc'[c] = "idle" => pc[c] = "idle" /\ (attempt[c] = "none" => attempt'[c] = "none")
    PROVE  AnnouncedInv'
BY Kinds DEF AnnouncedInv, TypeOK, Fresh

\* start() up to its first await makes no attempt but that of its own call.
LEMMA StartAnnounced ==
    ASSUME AnnouncedInv, TypeOK, NEW c \in Calls, pc[c] = "idle", NEW wait \in {"session", "sessionOnly"},
           StartSession(c, wait, attempt)
    PROVE  /\ \A a \in Calls : attempt[a] = "resolved" => attempt'[a] = "resolved"
           /\ \A b \in Calls : pc'[b] = "idle" =>
                 pc[b] = "idle" /\ (attempt[b] = "none" => attempt'[b] = "none")
<1>1. attempt[c] = "none"
  BY DEF AnnouncedInv, Fresh
<1>2. Thrown(c) # "idle"
  BY DEF Thrown
<1> QED
  BY <1>1, <1>2 DEF StartSession, TypeOK

\* An attempt that fails is not one that has succeeded, and moves no call back.
LEMMA FailAnnounced ==
    ASSUME TypeOK, NEW a \in Calls, attempt[a] # "resolved", attempt[a] # "none", AttemptFails(a)
    PROVE  /\ \A b \in Calls : attempt[b] = "resolved" => attempt'[b] = "resolved"
           /\ \A b \in Calls : pc'[b] = "idle" => pc[b] = "idle"
           /\ \A b \in Calls : attempt[b] = "none" => attempt'[b] = "none"
<1>1. attempt' = [b \in Calls |->
                    CASE b = a -> "rejected"
                      [] b # a /\ attempt[b] = "creating" -> "cutOff"
                      [] OTHER -> attempt[b]]
  BY DEF AttemptFails, CutOff, TypeOK
<1>2. \A b \in Calls : Thrown(b) # "idle"
  BY DEF Thrown
<1>3. \A b \in Calls : pc'[b] = "idle" => pc[b] = "idle"
  BY <1>2 DEF AttemptFails, TypeOK
<1> QED
  BY <1>1, <1>3

\* Every action of a kernel that is not restarted keeps it, and an event is fired only when
\* the session had none.
LEMMA AnnouncedStep ==
    ASSUME AnnouncedInv, TypeOK, Restarts = {}, [Next]_vars
    PROVE  AnnouncedInv' /\ (fired' # fired => session \notin announced)
<1> USE Kinds
<1> DEFINE Goal == AnnouncedInv' /\ (fired' # fired => session \notin announced)
<1>1. ASSUME NEW c \in UserStarts \cup QuietStarts, Start(c) PROVE Goal
  <2>1. c \in Calls /\ pc[c] = "idle" /\ UNCHANGED <<session, eventVars>>
    BY <1>1 DEF Start, Starters
  <2>2. PICK wait \in {"session", "sessionOnly"} : StartSession(c, wait, attempt)
    BY <1>1 DEF Start
  <2> QED
    BY <2>1, <2>2, StartAnnounced, AnnouncedFrame DEF eventVars
<1>2. ASSUME NEW c \in CodeStarts, NEW n \in handling \cup {0}, CodeStart(c, n) PROVE Goal
  <2>1. c \in Calls /\ pc[c] = "idle" /\ UNCHANGED <<session, eventVars>>
    BY <1>2 DEF CodeStart, Starters
  <2>2. PICK wait \in {"session", "sessionOnly"} : StartSession(c, wait, attempt)
    BY <1>2 DEF CodeStart
  <2> QED
    BY <2>1, <2>2, StartAnnounced, AnnouncedFrame DEF eventVars
<1>3. ASSUME NEW c \in Calls, Joined(c) PROVE Goal
  <2>1. /\ UNCHANGED <<session, attempt>> /\ \A b \in Calls : pc'[b] = "idle" => pc[b] = "idle"
    BY <1>3 DEF Joined, Fire, Done, sessionVars, TypeOK
  <2>2. CASE Fire(c, "event", Done(c)) /\ postInit = 0
    <3>1. session \notin announced
      BY <2>2 DEF AnnouncedInv
    <3>2. announced' = announced \cup ({session} \cap Calls) /\ postInit' # 0
      BY <2>2 DEF Fire, TypeOK
    <3> QED
      BY <2>1, <3>1, <3>2 DEF AnnouncedInv, Fresh
  <2>3. CASE UNCHANGED eventVars
    BY <2>1, <2>3, AnnouncedFrame DEF eventVars
  <2> QED
    BY <1>3, <2>2, <2>3 DEF Joined
<1>4. ASSUME NEW d \in Disposals, DisposeContinues(d) PROVE Goal
  <2>1. PICK s : DisposeSession(d, s)
    BY <1>4 DEF DisposeContinues
  <2>2. session' = NoCall /\ \A b \in Calls : pc'[b] = "idle" => pc[b] = "idle"
    BY <1>4, <2>1 DEF DisposeSession, Close, TypeOK
  <2> QED
    BY <1>4, <2>2, AnnouncedFrame DEF DisposeContinues
<1>5. ASSUME NEW d \in Disposals, Closed(d) PROVE Goal
  BY <1>5, AnnouncedFrame DEF Closed, sessionVars, eventVars, TypeOK
<1>6. ASSUME NEW a \in Calls, Track(a) PROVE Goal
  <2>1. CASE AttemptFails(a)
    BY <1>6, <2>1, FailAnnounced, AnnouncedFrame DEF Track, eventVars
  <2>2. CASE attempt' = [attempt EXCEPT ![a] = "creating"] /\ UNCHANGED pc
    BY <1>6, <2>2, AnnouncedFrame DEF Track, eventVars, TypeOK
  <2> QED
    BY <1>6, <2>1, <2>2 DEF Track
<1>7. ASSUME NEW a \in Calls, Create(a) PROVE Goal
  <2>1. CASE AttemptFails(a)
    BY <1>7, <2>1, FailAnnounced, AnnouncedFrame DEF Create, eventVars
  <2>2. CASE attempt' = [attempt EXCEPT ![a] = "didStart"] /\ UNCHANGED pc
    BY <1>7, <2>2, AnnouncedFrame DEF Create, eventVars, TypeOK
  <2> QED
    BY <1>7, <2>1, <2>2 DEF Create
<1>8. ASSUME NEW a \in Calls, DidStart(a) PROVE Goal
  BY <1>8, AnnouncedFrame DEF DidStart, callVars, eventVars, TypeOK
<1>9. ASSUME NEW a \in Calls, Initialized(a) PROVE Goal
  <2>1. CASE AttemptFails(a) /\ UNCHANGED session
    BY <1>9, <2>1, FailAnnounced, AnnouncedFrame DEF Initialized, eventVars
  <2>2. CASE attempt' = [attempt EXCEPT ![a] = "resolved"] /\ session' = a /\ UNCHANGED pc
    BY <1>9, <2>2 DEF Initialized, eventVars, AnnouncedInv, Fresh, TypeOK
  <2> QED
    BY <1>9, <2>1, <2>2 DEF Initialized
<1>10. ASSUME NEW a \in Calls, InitializeThrows(a) PROVE Goal
  BY <1>10, FailAnnounced, AnnouncedFrame DEF InitializeThrows, eventVars
<1>11. ASSUME NEW a \in Calls, NotIdle(a) PROVE Goal
  BY <1>11, FailAnnounced, AnnouncedFrame DEF NotIdle
<1>12. ASSUME NEW s \in Calls, Gone(s) PROVE Goal
  BY <1>12, AnnouncedFrame DEF Gone, OnDidDispose, callVars
<1>13. ASSUME NEW n \in handling, EventHandled(n) PROVE Goal
  <2>1. \A b \in Calls : pc'[b] = "idle" => pc[b] = "idle"
    BY <1>13 DEF EventHandled, Done, TypeOK
  <2> QED
    BY <1>13, <2>1, AnnouncedFrame DEF EventHandled, sessionVars
<1>14. ASSUME NEW d \in Disposals, Dispose(d) PROVE Goal
  <2>1. \A b \in Calls : (pc'[b] = "idle" => pc[b] = "idle")
    BY <1>14 DEF Dispose, DisposeSession, Close, TypeOK
  <2>2. session' = NoCall \/ (session' = session /\ postInit' = postInit)
    BY <1>14 DEF Dispose, DisposeSession
  <2>3. \A b \in Calls : attempt[b] \in {"none", "resolved"} => attempt'[b] = attempt[b]
    BY <1>14 DEF Dispose, CutOff
  <2> QED
    BY <1>14, <2>1, <2>2, <2>3, AnnouncedFrame DEF Dispose
<1>15. ASSUME UNCHANGED vars PROVE Goal
  BY <1>15, AnnouncedFrame DEF vars, sessionVars, eventVars, callVars
<1>16. ~SessionRestarts
  BY DEF SessionRestarts
<1> QED
  BY <1>1, <1>2, <1>3, <1>4, <1>5, <1>6, <1>7, <1>8, <1>9, <1>10, <1>11, <1>12, <1>13, <1>14, <1>15, <1>16
     DEF Next, Continuation, Progress

\* Whatever starts and disposals of a kernel race, and whenever its sessions die, extensions get
\* onPostInitialized once for a session, unless it is restarted.
THEOREM EventOnce == ASSUME Restarts = {} PROVE Spec => AnnouncedOnce
<1>1. Init => TypeOK /\ AnnouncedInv
  BY TypeInit, Kinds DEF Init, AnnouncedInv, Fresh
<1>2. TypeOK /\ AnnouncedInv /\ [Next]_vars => TypeOK' /\ AnnouncedInv'
  BY TypeStep, AnnouncedStep
<1>3. TypeOK /\ AnnouncedInv /\ [Next]_vars => [fired' # fired => session \notin announced]_vars
  BY AnnouncedStep
<1> QED
  BY <1>1, <1>2, <1>3, PTL DEF Spec, AnnouncedOnce

=============================================================================

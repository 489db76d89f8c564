--------------------------- MODULE Services_proofs ---------------------------
(***************************************************************************)
(* The theorems about the components, for the specification that runs them *)
(* side by side: the steps of the services are steps of each component, or *)
(* leave it unchanged.                                                     *)
(***************************************************************************)
EXTENDS MCServices, KernelLifecycle_proofs, SequenceLemmas, TLAPS

-----------------------------------------------------------------------------
(* The calls connected to a kernel: why the start of a kernel is shared    *)

\* The fields of an attempt and of a call.
IsAttempt(r) ==
    r = [call |-> r.call, initial |-> r.initial, context |-> r.context, kernel |-> r.kernel,
         at |-> r.at, asked |-> r.asked]

IsCall(r) == r = [at |-> r.at, attempt |-> r.attempt, told |-> r.told]

\* attempts and calls are functions to such records.
Records ==
    /\ attempts = [a \in Connector!Attempts |-> attempts[a]]
    /\ \A a \in Connector!Attempts : IsAttempt(attempts[a])
    /\ calls = [c \in Connector!Calls |-> calls[c]]
    /\ \A c \in Connector!Calls : IsCall(calls[c])

\* The user has not restarted or interrupted the kernel.
OnlyStarts == \A c \in ConnectorRestarts \cup Interrupts : calls[c].at = "idle"

\* The attempt that starts the kernel is the cached one.
StartIsCached ==
    \A a \in Connector!Attempts : ~Connector!Settled(a) /\ attempts[a].initial = "start" => a = cached

\* Restarts and interrupts of the user are attempts of their own, which take the cache from one
\* that starts the kernel: until the first of them only what is cached starts it.
ConnectorInv == Records /\ (OnlyStarts => StartIsCached)

\* An attempt stays a record when a field is assigned, and keeps the others.
LEMMA AttemptFields ==
    ASSUME NEW r, IsAttempt(r), NEW v
    PROVE  /\ IsAttempt([r EXCEPT !.at = v]) /\ [r EXCEPT !.at = v].initial = r.initial
           /\ [r EXCEPT !.at = v].at = v
           /\ IsAttempt([r EXCEPT !.asked = v]) /\ [r EXCEPT !.asked = v].initial = r.initial
           /\ IsAttempt([r EXCEPT !.context = v]) /\ [r EXCEPT !.context = v].initial = r.initial
           /\ IsAttempt([r EXCEPT !.kernel = v]) /\ [r EXCEPT !.kernel = v].initial = r.initial
<1>1. IsAttempt([r EXCEPT !.at = v])
  BY DEF IsAttempt
<1>2. [r EXCEPT !.at = v].initial = r.initial /\ [r EXCEPT !.at = v].at = v
  BY DEF IsAttempt
<1>3. IsAttempt([r EXCEPT !.asked = v])
  BY DEF IsAttempt
<1>4. [r EXCEPT !.asked = v].initial = r.initial
  BY DEF IsAttempt
<1>5. IsAttempt([r EXCEPT !.context = v])
  BY DEF IsAttempt
<1>6. [r EXCEPT !.context = v].initial = r.initial
  BY DEF IsAttempt
<1>7. IsAttempt([r EXCEPT !.kernel = v])
  BY DEF IsAttempt
<1>8. [r EXCEPT !.kernel = v].initial = r.initial
  BY DEF IsAttempt
<1> QED
  BY <1>1, <1>2, <1>3, <1>4, <1>5, <1>6, <1>7, <1>8

\* So does a call.
LEMMA CallFields ==
    ASSUME NEW r, IsCall(r), NEW v
    PROVE  /\ IsCall([r EXCEPT !.at = v]) /\ [r EXCEPT !.at = v].at = v
           /\ IsCall([r EXCEPT !.told = v]) /\ [r EXCEPT !.told = v].at = r.at
<1>1. IsCall([r EXCEPT !.at = v])
  BY DEF IsCall
<1>2. [r EXCEPT !.at = v].at = v
  BY DEF IsCall
<1>3. IsCall([r EXCEPT !.told = v])
  BY DEF IsCall
<1>4. [r EXCEPT !.told = v].at = r.at
  BY DEF IsCall
<1> QED
  BY <1>1, <1>2, <1>3, <1>4

\* Attempt a becomes r, goes on or settles; it leaves the cache when it has failed.
Moves(a, r) ==
    /\ attempts' = [attempts EXCEPT ![a] = r]
    /\ IsAttempt(r) /\ r.initial = attempts[a].initial
    /\ cached' # cached => Connector!Settled(cached) \/ (cached = a /\ r.at = "failed")

\* An attempt that moves keeps the invariant, as what was cached and has settled starts nothing.
LEMMA MovesKeeps ==
    ASSUME ConnectorInv, NEW a \in Connector!Attempts, ~Connector!Settled(a), NEW r, Moves(a, r),
           calls' = calls \/ \E c : calls' = Connector!Tell(c)
    PROVE  ConnectorInv'
<1>1. attempts' = [b \in Connector!Attempts |-> attempts'[b]]
      /\ \A b \in Connector!Attempts : IsAttempt(attempts'[b])
  BY DEF ConnectorInv, Records, Moves, IsAttempt
<1>2. calls' = [c \in Connector!Calls |-> calls'[c]]
      /\ \A c \in Connector!Calls : IsCall(calls'[c]) /\ calls'[c].at = calls[c].at
  <2>1. CASE calls' = calls
    BY <2>1 DEF ConnectorInv, Records
  <2>2. ASSUME NEW c, calls' = Connector!Tell(c)
        PROVE  /\ calls' = [d \in Connector!Calls |-> calls'[d]]
               /\ \A d \in Connector!Calls : IsCall(calls'[d]) /\ calls'[d].at = calls[d].at
    <3>1. PICK told : told = [calls[c] EXCEPT !.told = TRUE]
      OBVIOUS
    <3>2. calls' = [calls EXCEPT ![c] = told]
      BY <2>2, <3>1 DEF Connector!Tell
    <3>3. c \in Connector!Calls => IsCall(told) /\ told.at = calls[c].at
      BY <3>1, CallFields DEF ConnectorInv, Records
    <3> QED
      BY <3>2, <3>3 DEF ConnectorInv, Records
  <2> QED
    BY <2>1, <2>2
<1>4. OnlyStarts' => OnlyStarts
  BY <1>2 DEF OnlyStarts, Connector!Calls
<1>5. ASSUME StartIsCached PROVE StartIsCached'
  <2>1. SUFFICES ASSUME NEW b \in Connector!Attempts, ~Connector!Settled(b)',
                        attempts'[b].initial = "start"
                 PROVE  b = cached'
    BY DEF StartIsCached
  <2>2. attempts'[b] = IF b = a THEN r ELSE attempts[b]
    BY DEF Moves, ConnectorInv, Records
  <2>3. ~Connector!Settled(b) /\ attempts[b].initial = "start"
    BY <2>1, <2>2 DEF Moves, Connector!Settled
  <2>4. b = cached
    BY <2>3, <1>5 DEF StartIsCached
  <2>5. cached' = cached
    BY <2>1, <2>2, <2>3, <2>4 DEF Moves, Connector!Settled
  <2> QED
    BY <2>4, <2>5
<1> QED
  BY <1>1, <1>2, <1>4, <1>5 DEF ConnectorInv, Records

\* calls may be those before a call waits or throws, those that waited with it throwing.
Before(c) ==
    {calls, [d \in Connector!Calls |-> IF Connector!Waits(d, calls[c].attempt)
                                      THEN [calls[d] EXCEPT !.at = "thrown"] ELSE calls[d]]}

\* What one call becomes leaves the others what they were, or settles them; a call of the user
\* that restarts or interrupts does not become idle again.
LEMMA CallBecomes ==
    ASSUME Records, NEW c \in Connector!Calls, NEW before \in Before(c), NEW r, IsCall(r),
           r.at # "idle",
           calls' = [before EXCEPT ![c] = r]
    PROVE  /\ calls' = [d \in Connector!Calls |-> calls'[d]]
           /\ \A d \in Connector!Calls : IsCall(calls'[d])
           /\ OnlyStarts' => OnlyStarts /\ c \notin ConnectorRestarts \cup Interrupts
<1>1. \A w : IsCall(w) => IsCall([w EXCEPT !.at = "thrown"]) /\ [w EXCEPT !.at = "thrown"].at = "thrown"
  BY CallFields
<1>2. before = [d \in Connector!Calls |-> before[d]]
      /\ \A d \in Connector!Calls : IsCall(before[d]) /\ (calls[d].at # "idle" => before[d].at # "idle")
  BY <1>1 DEF Records, Before
<1>3. \A d \in Connector!Calls : calls'[d] = IF d = c THEN r ELSE before[d]
  BY <1>2
<1>4. calls' = [d \in Connector!Calls |-> calls'[d]]
  BY <1>2
<1>5. OnlyStarts' => OnlyStarts /\ c \notin ConnectorRestarts \cup Interrupts
  BY <1>2, <1>3 DEF OnlyStarts, Connector!Calls
<1> QED
  BY <1>2, <1>3, <1>4, <1>5

\* So does a call that waits for an attempt.
LEMMA WaitForKeeps ==
    ASSUME Records, NEW c \in Connector!Calls, NEW before \in Before(c), NEW a, NEW told,
           Connector!WaitFor(c, a, told, before)
    PROVE  /\ calls' = [d \in Connector!Calls |-> calls'[d]]
           /\ \A d \in Connector!Calls : IsCall(calls'[d])
           /\ OnlyStarts' => OnlyStarts /\ c \notin ConnectorRestarts \cup Interrupts
<1>1. PICK r : r = [at |-> "waits", attempt |-> a, told |-> told]
  OBVIOUS
<1>2. IsCall(r) /\ r.at # "idle"
  BY <1>1 DEF IsCall
<1>3. calls' = [before EXCEPT ![c] = r]
  BY <1>1 DEF Connector!WaitFor
<1> QED
  BY <1>2, <1>3, CallBecomes

\* A new attempt is cached, and is the only one when what was cached has settled.
LEMMA NewAttemptKeeps ==
    ASSUME ConnectorInv, NEW c \in Connector!Calls, NEW action, NEW told, NEW before \in Before(c),
           Connector!NewAttempt(c, action, told, before),
           c \in ConnectorRestarts \cup Interrupts \/ cached = 0 \/ Connector!Settled(cached)
    PROVE  ConnectorInv'
<1> DEFINE n == CHOOSE a \in Connector!Attempts : Connector!Unused(a)
<1>0. PICK new : new = n
  OBVIOUS
<1>1. Connector!Begin(new, [Connector!NoAttempt EXCEPT !.call = c, !.initial = action], action, connected)
      /\ cached' = new /\ Connector!WaitFor(c, new, told, before)
  BY <1>0 DEF Connector!NewAttempt
<1>2. PICK r : /\ attempts' = [attempts EXCEPT ![new] = r]
               /\ IsAttempt(r)
  <2>1. PICK first : first = [Connector!NoAttempt EXCEPT !.call = c, !.initial = action]
    OBVIOUS
  <2>2. IsAttempt(first)
    BY <2>1 DEF IsAttempt, Connector!NoAttempt
  <2>3. PICK k, at :
           attempts' = [attempts EXCEPT ![new] =
                           [[[first EXCEPT !.context = action] EXCEPT !.kernel = k] EXCEPT !.at = at]]
    BY <1>1, <2>1 DEF Connector!Begin
  <2>4. PICK r : r = [[[first EXCEPT !.context = action] EXCEPT !.kernel = k] EXCEPT !.at = at]
    OBVIOUS
  <2>5. IsAttempt(r)
    BY <2>2, <2>4 DEF IsAttempt
  <2> QED
    BY <2>3, <2>4, <2>5
<1>3. attempts' = [b \in Connector!Attempts |-> attempts'[b]]
      /\ \A b \in Connector!Attempts : IsAttempt(attempts'[b])
  BY <1>2 DEF ConnectorInv, Records
<1>4. /\ calls' = [d \in Connector!Calls |-> calls'[d]]
      /\ \A d \in Connector!Calls : IsCall(calls'[d])
      /\ OnlyStarts' => OnlyStarts /\ c \notin ConnectorRestarts \cup Interrupts
  BY <1>1, WaitForKeeps DEF ConnectorInv
<1>5. ASSUME cached = 0 \/ Connector!Settled(cached), StartIsCached PROVE StartIsCached'
  <2>1. SUFFICES ASSUME NEW b \in Connector!Attempts, ~Connector!Settled(b)',
                        attempts'[b].initial = "start"
                 PROVE  b = new
    BY <1>1 DEF StartIsCached
  <2>2. b # new => attempts'[b] = attempts[b]
    BY <1>2 DEF ConnectorInv, Records
  <2>3. b # new => b = cached /\ ~Connector!Settled(b)
    BY <2>1, <2>2, <1>5 DEF StartIsCached, Connector!Settled
  <2>4. 0 \notin Connector!Attempts
    BY DEF Connector!Attempts
  <2> QED
    BY <2>3, <2>4, <1>5
<1> QED
  BY <1>3, <1>4, <1>5 DEF ConnectorInv, Records

\* A call joins the cached attempt, makes its own, or throws.
LEMMA WrapKeeps ==
    ASSUME ConnectorInv, NEW c \in Connector!Calls, NEW action, NEW told, NEW entry,
           NEW before \in Before(c),
           Connector!Wrap(c, action, told, entry, before),
           entry = cached \/ (entry = 0 /\ Connector!Settled(cached)),
           action # "start" => c \in ConnectorRestarts \cup Interrupts
    PROVE  ConnectorInv'
<1> DEFINE over == ~disableUI[c] /\ entry # 0 /\ attempts[entry].at = "done"
                   /\ connected[attempts[entry].kernel] \in {"disposing", "disposed", "disposed dead"}
<1>1. CASE /\ entry # 0 /\ Connector!WaitFor(c, entry, told, before) /\ cached' = entry
           /\ UNCHANGED <<connected, attempts>>
  <2>1. /\ calls' = [d \in Connector!Calls |-> calls'[d]]
        /\ \A d \in Connector!Calls : IsCall(calls'[d])
        /\ OnlyStarts' => OnlyStarts
    BY <1>1, WaitForKeeps DEF ConnectorInv
  <2>2. StartIsCached => StartIsCached'
    BY <1>1 DEF StartIsCached, Connector!Settled
  <2> QED
    BY <1>1, <2>1, <2>2 DEF ConnectorInv, Records
<1>2. ASSUME entry = 0 \/ over \/ action # "start"
      PROVE  c \in ConnectorRestarts \cup Interrupts \/ cached = 0 \/ Connector!Settled(cached)
  BY <1>2 DEF Connector!Settled
<1>3. CASE (entry = 0 \/ over \/ action # "start") /\ Connector!NewAttempt(c, action, told, before)
  BY <1>2, <1>3, NewAttemptKeeps
<1>4. CASE /\ entry = 0 \/ over \/ action # "start"
           /\ calls' = [before EXCEPT ![c].at = "thrown"] /\ cached' = 0
           /\ UNCHANGED <<connected, attempts>>
  <2>1. PICK r : r = [before[c] EXCEPT !.at = "thrown"]
    OBVIOUS
  <2>2. \A w : IsCall(w) => IsCall([w EXCEPT !.at = "thrown"])
          /\ [w EXCEPT !.at = "thrown"].at = "thrown"
    BY CallFields
  <2>3. IsCall(before[c])
    BY <2>2 DEF ConnectorInv, Records, Before
  <2>4. IsCall(r) /\ r.at # "idle"
    BY <2>1, <2>2, <2>3
  <2>5. calls' = [before EXCEPT ![c] = r]
    BY <1>4, <2>1
  <2>6. /\ calls' = [d \in Connector!Calls |-> calls'[d]]
        /\ \A d \in Connector!Calls : IsCall(calls'[d])
        /\ OnlyStarts' => OnlyStarts /\ c \notin ConnectorRestarts \cup Interrupts
    BY <2>4, <2>5, CallBecomes DEF ConnectorInv
  <2>7. ASSUME cached = 0 \/ Connector!Settled(cached), StartIsCached PROVE StartIsCached'
    <3>1. 0 \notin Connector!Attempts
      BY DEF Connector!Attempts
    <3>2. \A b \in Connector!Attempts : Connector!Settled(b) \/ attempts[b].initial # "start"
      BY <2>7, <3>1 DEF StartIsCached
    <3> QED
      BY <1>4, <3>2 DEF StartIsCached, Connector!Settled
  <2> QED
    BY <1>2, <1>4, <2>6, <2>7 DEF ConnectorInv, Records
<1> HIDE DEF over
<1>5. \/ /\ entry # 0 /\ Connector!WaitFor(c, entry, told, before) /\ cached' = entry
         /\ UNCHANGED <<connected, attempts>>
      \/ (entry = 0 \/ over \/ action # "start") /\ Connector!NewAttempt(c, action, told, before)
      \/ /\ entry = 0 \/ over \/ action # "start"
         /\ calls' = [before EXCEPT ![c].at = "thrown"] /\ cached' = 0
         /\ UNCHANGED <<connected, attempts>>
  BY DEF Connector!Wrap, over
<1> QED
  BY <1>1, <1>3, <1>4, <1>5

\* In the beginning there is no attempt.
LEMMA ConnectorInvInit == Connector!Init => ConnectorInv
  BY DEF Connector!Init, ConnectorInv, Records, IsAttempt, IsCall, Connector!NoAttempt,
         StartIsCached, Connector!Settled

\* An attempt that ends moves.
LEMMA EndsMoves ==
    ASSUME ConnectorInv, NEW a \in Connector!Attempts, NEW asked, Connector!Ends(a, asked)
    PROVE  \E r : Moves(a, r)
<1>1. PICK r : r = [[attempts[a] EXCEPT !.at = "done"] EXCEPT !.asked = asked]
  OBVIOUS
<1>2. IsAttempt(r) /\ r.initial = attempts[a].initial
  <2>1. IsAttempt(attempts[a])
    BY DEF ConnectorInv, Records
  <2>2. PICK s : s = [attempts[a] EXCEPT !.at = "done"]
    OBVIOUS
  <2>3. IsAttempt(s) /\ s.initial = attempts[a].initial
    BY <2>1, <2>2, AttemptFields
  <2>4. r = [s EXCEPT !.asked = asked]
    BY <1>1, <2>2
  <2> QED
    BY <2>3, <2>4, AttemptFields
<1>3. attempts' = [attempts EXCEPT ![a] = r]
  BY <1>1 DEF Connector!Ends, ConnectorInv, Records
<1> QED
  BY <1>2, <1>3 DEF Moves, Connector!Ends

\* So does one of which is assigned only where it is.
LEMMA AtMoves ==
    ASSUME ConnectorInv, NEW a \in Connector!Attempts, NEW at,
           attempts' = [attempts EXCEPT ![a].at = at],
           cached' # cached => Connector!Settled(cached) \/ (cached = a /\ at = "failed")
    PROVE  \E r : Moves(a, r)
<1>1. PICK r : r = [attempts[a] EXCEPT !.at = at]
  OBVIOUS
<1>2. IsAttempt(r) /\ r.initial = attempts[a].initial /\ r.at = at
  BY <1>1 DEF ConnectorInv, Records, IsAttempt
<1>3. attempts' = [attempts EXCEPT ![a] = r]
  BY <1>1
<1> QED
  BY <1>2, <1>3 DEF Moves

\* An attempt that throws: it leaves the cache when it has failed.
LEMMA ThrowsMoves ==
    ASSUME ConnectorInv, NEW a \in Connector!Attempts, NEW by, Connector!Throws(a, by)
    PROVE  \E r : Moves(a, r)
<1>1. PICK at : attempts' = [attempts EXCEPT ![a].at = at]
                /\ (cached' # cached => cached = a /\ at = "failed")
  BY DEF Connector!Throws
<1> QED
  BY <1>1, AtMoves

\* What onDisposed removes from the cache has settled.
LEMMA CacheAfterSettled ==
    ASSUME NEW ks, cached' = Connector!CacheAfter(ks), cached' # cached PROVE Connector!Settled(cached)
  BY DEF Connector!CacheAfter, Connector!Settled

\* Every step keeps the invariant.
LEMMA ConnectorInvNext == ConnectorInv /\ [Connector!Next]_connectorVars => ConnectorInv'
<1> SUFFICES ASSUME ConnectorInv, [Connector!Next]_connectorVars PROVE ConnectorInv'
  OBVIOUS
<1>1. ASSUME NEW c \in Connector!Calls, Connector!Call(c) PROVE ConnectorInv'
  <2>1. PICK action \in Connector!Actions(c) : Connector!Wrap(c, action, FALSE, cached, calls)
    BY <1>1 DEF Connector!Call
  <2>2. action # "start" => c \in ConnectorRestarts \cup Interrupts
    BY DEF Connector!Actions
  <2> QED
    BY <2>1, <2>2, WrapKeeps DEF Before
<1>2. ASSUME NEW c \in Connector!Calls, Connector!VerifyKernelState(c) PROVE ConnectorInv'
  <2>1. PICK a : a = calls[c].attempt
    OBVIOUS
  <2>2. PICK told, entry, before :
           /\ entry = cached \/ (entry = 0 /\ Connector!Settled(cached))
           /\ before = [d \in Connector!Calls |->
                           IF Connector!Waits(d, a) THEN [calls[d] EXCEPT !.at = "thrown"] ELSE calls[d]]
           /\ \/ Connector!Wrap(c, "start", told, entry, before)
              \/ /\ \E at \in {"thrown", "returned"} : calls' = [calls EXCEPT ![c].at = at]
                 /\ cached' = entry
                 /\ UNCHANGED <<connected, attempts, disableUI>>
    BY <1>2, <2>1 DEF Connector!VerifyKernelState, Connector!Settled
  <2>3. CASE Connector!Wrap(c, "start", told, entry, before)
    BY <2>1, <2>2, <2>3, WrapKeeps DEF Before
  <2>4. CASE /\ \E at \in {"thrown", "returned"} : calls' = [calls EXCEPT ![c].at = at]
             /\ cached' = entry
             /\ UNCHANGED <<connected, attempts, disableUI>>
    <3>1. PICK at \in {"thrown", "returned"} : calls' = [calls EXCEPT ![c].at = at]
      BY <2>4
    <3>2. PICK r : r = [calls[c] EXCEPT !.at = at]
      OBVIOUS
    <3>3. IsCall(r) /\ r.at # "idle"
      BY <3>1, <3>2, CallFields DEF ConnectorInv, Records
    <3>4. /\ calls' = [d \in Connector!Calls |-> calls'[d]]
          /\ \A d \in Connector!Calls : IsCall(calls'[d])
          /\ OnlyStarts' => OnlyStarts
      BY <3>1, <3>2, <3>3, CallBecomes DEF ConnectorInv, Before
    <3>5. StartIsCached => StartIsCached'
      BY <2>2, <2>4 DEF StartIsCached, Connector!Settled
    <3> QED
      BY <2>4, <3>4, <3>5 DEF ConnectorInv, Records
  <2> QED
    BY <2>2, <2>3, <2>4
<1>3. ASSUME NEW a \in Connector!Attempts, Connector!Acts(a) PROVE ConnectorInv'
  <2>1. \/ Connector!Throws(a, TRUE) \/ Connector!Throws(a, FALSE) \/ Connector!Ends(a, "no")
        \/ attempts' = [attempts EXCEPT ![a].at = "asks again"] /\ UNCHANGED cached
    BY <1>3 DEF Connector!Acts
  <2>2. \E r : Moves(a, r)
    BY <2>1, ThrowsMoves, EndsMoves, AtMoves
  <2>3. ~Connector!Settled(a) /\ calls' = calls
    BY <1>3 DEF Connector!Acts, Connector!Settled
  <2> QED
    BY <2>2, <2>3, MovesKeeps
<1>4. ASSUME NEW a \in Connector!Attempts, Connector!NotRestarted(a) PROVE ConnectorInv'
  <2>1. ~Connector!Settled(a) /\ calls' = calls /\ \E asked : Connector!Ends(a, asked)
    BY <1>4 DEF Connector!NotRestarted, Connector!Settled
  <2> QED
    BY <2>1, EndsMoves, MovesKeeps
<1>5. ASSUME NEW a \in Connector!Attempts, Connector!RestartChosen(a) PROVE ConnectorInv'
  <2>1. /\ ~Connector!Settled(a) /\ calls' = calls /\ cached' = cached
        /\ \E at : attempts' = [attempts EXCEPT ![a].at = at]
    BY <1>5 DEF Connector!RestartChosen, Connector!Settled
  <2> QED
    BY <2>1, AtMoves, MovesKeeps
<1>6. ASSUME NEW a \in Connector!Attempts, Connector!KernelRestarted(a) PROVE ConnectorInv'
  <2>1. ~Connector!Settled(a) /\ (calls' = calls \/ \E c : calls' = Connector!Tell(c))
    BY <1>6 DEF Connector!KernelRestarted, Connector!Settled
  <2>2. (\E by : Connector!Throws(a, by)) \/ \E asked : Connector!Ends(a, asked)
    BY <1>6 DEF Connector!KernelRestarted
  <2> QED
    BY <2>1, <2>2, EndsMoves, ThrowsMoves, MovesKeeps
<1>7. ASSUME NEW a \in Connector!Attempts, Connector!GivesUp(a) PROVE ConnectorInv'
  <2>1. ~Connector!Settled(a) /\ calls' = calls /\ attempts' = [attempts EXCEPT ![a].at = "failed"]
    BY <1>7 DEF Connector!GivesUp, Connector!Settled
  <2>2. cached' # cached => Connector!Settled(cached) \/ cached = a
    BY <1>7, CacheAfterSettled DEF Connector!GivesUp
  <2> QED
    BY <2>1, <2>2, AtMoves, MovesKeeps
<1>8. ASSUME NEW a \in Connector!Attempts, Connector!GoesOn(a) PROVE ConnectorInv'
  <2>1. ~Connector!Settled(a) /\ calls' = calls /\ cached' = Connector!CacheAfter(connected')
    BY <1>8 DEF Connector!GoesOn, Connector!Settled
  <2>2. PICK k, at :
           attempts' = [attempts EXCEPT ![a] =
                           [[[attempts[a] EXCEPT !.context = "start"] EXCEPT !.kernel = k] EXCEPT !.at = at]]
    BY <1>8 DEF Connector!GoesOn, Connector!Begin
  <2>3. PICK r : r = [[[attempts[a] EXCEPT !.context = "start"] EXCEPT !.kernel = k] EXCEPT !.at = at]
    OBVIOUS
  <2>4. IsAttempt(r) /\ r.initial = attempts[a].initial
    <3>1. IsAttempt(attempts[a])
      BY DEF ConnectorInv, Records
    <3>2. PICK s : s = [attempts[a] EXCEPT !.context = "start"]
      OBVIOUS
    <3>3. IsAttempt(s) /\ s.initial = attempts[a].initial
      BY <3>1, <3>2, AttemptFields
    <3>4. PICK t : t = [s EXCEPT !.kernel = k]
      OBVIOUS
    <3>5. IsAttempt(t) /\ t.initial = attempts[a].initial
      BY <3>3, <3>4, AttemptFields
    <3>6. r = [t EXCEPT !.at = at]
      BY <2>3, <3>2, <3>4
    <3>7. IsAttempt(r)
      BY <3>5, <3>6, AttemptFields
    <3>8. r.initial = t.initial
      BY <3>5, <3>6, AttemptFields
    <3> QED
      BY <3>5, <3>7, <3>8
  <2>5. Moves(a, r)
    BY <2>1, <2>2, <2>3, <2>4, CacheAfterSettled DEF Moves
  <2> QED
    BY <2>1, <2>5, MovesKeeps
<1>9. ASSUME UNCHANGED <<attempts, calls>>, cached' # cached => Connector!Settled(cached)
      PROVE  ConnectorInv'
  <2>1. (OnlyStarts <=> OnlyStarts') /\ (Records <=> Records')
    BY <1>9 DEF OnlyStarts, Records
  <2>2. StartIsCached => StartIsCached'
    BY <1>9 DEF StartIsCached, Connector!Settled
  <2> QED
    BY <2>1, <2>2 DEF ConnectorInv
<1>10. ASSUME NEW k \in DOMAIN connected, Connector!KernelDies(k) \/ Connector!KernelDisposed(k)
       PROVE  ConnectorInv'
  BY <1>9, <1>10, CacheAfterSettled DEF Connector!KernelDies, Connector!KernelDisposed
<1>11. CASE Connector!DisposeKernel
  BY <1>9, <1>11, CacheAfterSettled DEF Connector!DisposeKernel
<1>12. CASE UNCHANGED connectorVars
  BY <1>9, <1>12 DEF connectorVars
<1> QED
  BY <1>1, <1>2, <1>3, <1>4, <1>5, <1>6, <1>7, <1>8, <1>10, <1>11, <1>12 DEF Connector!Next

-----------------------------------------------------------------------------
(* What the attempts and the cache hold                                    *)

\* The cache holds an attempt that has not failed, and attempts hold kernels of the notebook.
ConnectorTypes ==
    /\ IsSequence(connected)
    /\ cached \in Connector!Attempts \cup {0}
    /\ Connector!TypeOK

\* There are two attempts more than calls: one that is not cached is awaited by no call.
LEMMA SomeUnused == \E a \in Connector!Attempts : Connector!Unused(a)
<1> DEFINE f == [c \in Connector!Calls |-> calls[c].attempt]
           S == {calls[c].attempt : c \in Connector!Calls}
<1>1. f \in Surjection(Connector!Calls, S)
  BY DEF Surjection
<1>2. /\ IsFiniteSet(Connector!Calls) /\ IsFiniteSet(S)
      /\ Cardinality(S) <= Cardinality(Connector!Calls)
  BY <1>1, CallsAssumption, FS_Surjection
<1> HIDE DEF f, S
<1>3. Cardinality(S) \in Nat /\ Cardinality(Connector!Calls) \in Nat
  BY <1>2, FS_CardinalityType
<1>4. IsFiniteSet(S \cup {cached}) /\ Cardinality(S \cup {cached}) <= Cardinality(S) + 1
  <2>1. PICK x : x = cached
    OBVIOUS
  <2>2. /\ IsFiniteSet(S \cup {x})
        /\ Cardinality(S \cup {x}) = IF x \in S THEN Cardinality(S) ELSE Cardinality(S)+1
    BY <1>2, FS_AddElement
  <2>3. Cardinality(S \cup {x}) = Cardinality(S) \/ Cardinality(S \cup {x}) = Cardinality(S) + 1
    BY <2>2
  <2>4. Cardinality(S \cup {x}) <= Cardinality(S) + 1
    BY <1>3, <2>3
  <2> QED
    BY <2>1, <2>2, <2>4
<1>5. Cardinality(S \cup {cached}) \in Nat
  BY <1>4, FS_CardinalityType
<1>6. Connector!Cardinality(Connector!Calls) = Cardinality(Connector!Calls)
  BY DEF Connector!Cardinality, Cardinality, Connector!IsFiniteSet, IsFiniteSet
<1> DEFINE n == Cardinality(Connector!Calls) + 2
<1>7. Connector!Attempts = 1 .. n /\ n \in Nat /\ n > 1
  BY <1>3, <1>6 DEF Connector!Attempts
<1> HIDE DEF n
<1>8. Cardinality(1 .. n) = n
  BY <1>7, FS_Interval
<1>9. ~(1 .. n \subseteq S \cup {cached})
  <2>1. SUFFICES ASSUME 1 .. n \subseteq S \cup {cached} PROVE FALSE
    OBVIOUS
  <2>2. Cardinality(1 .. n) <= Cardinality(S \cup {cached})
    BY <1>4, <2>1, FS_Subset
  <2> QED
    BY <1>2, <1>3, <1>4, <1>5, <1>7, <1>8, <2>2 DEF n
<1>10. PICK a \in 1 .. n : a \notin S \cup {cached}
  BY <1>9
<1>11. Connector!Unused(a)
  BY <1>10 DEF Connector!Unused, Connector!Waits, S
<1> QED
  BY <1>7, <1>10, <1>11

\* The kernels from before are there after, which is a sequence of kernels.
Grows(before, after) == IsSequence(after) /\ DOMAIN before \subseteq DOMAIN after

\* A kernel that becomes another in place is a kernel still.
LEMMA InPlace ==
    ASSUME NEW ks, IsSequence(ks), NEW k, NEW status
    PROVE  Grows(ks, [ks EXCEPT ![k] = status]) /\ Len([ks EXCEPT ![k] = status]) = Len(ks)
<1> DEFINE js == [ks EXCEPT ![k] = status]
<1>1. DOMAIN js = DOMAIN ks /\ js = [i \in DOMAIN ks |-> js[i]]
  OBVIOUS
<1>2. Len(ks) \in Nat /\ DOMAIN ks = 1 .. Len(ks)
  BY LenProperties DEF IsSequence
<1> HIDE DEF js
<1>3. IsSequence(js)
  BY <1>1, <1>2, AnyFunction
<1>4. Len(js) \in Nat /\ DOMAIN js = 1 .. Len(js)
  BY <1>3, LenProperties DEF IsSequence
<1>5. Len(js) = Len(ks)
  BY <1>1, <1>2, <1>4
<1> QED
  BY <1>1, <1>3, <1>5 DEF js, Grows

\* So does a kernel that is disposed.
LEMMA DisposeInPlace ==
    ASSUME NEW ks, IsSequence(ks), NEW k
    PROVE  Grows(ks, Connector!Dispose(ks, k))
<1>1. PICK status : Connector!Dispose(ks, k) = [ks EXCEPT ![k] = status]
  BY DEF Connector!Dispose
<1>2. Grows(ks, [ks EXCEPT ![k] = status])
  BY InPlace
<1> QED
  BY <1>1, <1>2

\* A kernel that is made is the last.
LEMMA MadeIsLast ==
    ASSUME NEW ks, IsSequence(ks)
    PROVE  /\ Grows(ks, Append(ks, "created"))
           /\ Grows(ks, Connector!GetOrCreate(ks))
           /\ Len(Connector!GetOrCreate(ks)) \in DOMAIN Connector!GetOrCreate(ks)
<1>1. IsSequence(Append(ks, "created"))
  BY AppendElements
<1>2. Len(ks) \in Nat /\ DOMAIN ks = 1 .. Len(ks) /\ (ks # <<>> => Len(ks) # 0)
  BY LenProperties, EmptySeq DEF IsSequence
<1>3. PICK made : made = Append(ks, "created")
  OBVIOUS
<1>4. Len(made) = Len(ks) + 1 /\ DOMAIN made = 1 .. Len(made)
  BY <1>1, <1>3, AppendProperties, LenProperties DEF IsSequence
<1>5. Grows(ks, made) /\ Grows(ks, ks)
  BY <1>1, <1>2, <1>3, <1>4 DEF Grows
<1>6. \/ Connector!GetOrCreate(ks) = ks /\ ks # <<>>
      \/ Connector!GetOrCreate(ks) = made
  BY <1>3 DEF Connector!GetOrCreate
<1>7. Grows(ks, Connector!GetOrCreate(ks))
  BY <1>5, <1>6
<1>8. Len(Connector!GetOrCreate(ks)) \in DOMAIN Connector!GetOrCreate(ks)
  <2>1. Len(ks) + 1 \in 1 .. Len(made)
    BY <1>2, <1>4
  <2>2. CASE Connector!GetOrCreate(ks) = made
    BY <1>4, <2>1, <2>2
  <2>3. CASE Connector!GetOrCreate(ks) = ks /\ ks # <<>>
    BY <1>2, <2>3
  <2> QED
    BY <1>6, <2>2, <2>3
<1> QED
  BY <1>3, <1>5, <1>7, <1>8

\* The loop of an attempt begins with the last of the notebook's kernels.
LEMMA BeginHoldsLast ==
    ASSUME NEW a, NEW held, IsAttempt(held), NEW context, NEW before, IsSequence(before),
           Connector!Begin(a, held, context, before)
    PROVE  /\ Grows(before, connected')
           /\ \E r : /\ attempts' = [attempts EXCEPT ![a] = r]
                     /\ r.at # "failed" /\ r.kernel \in DOMAIN connected'
<1>1. PICK ks : ks = Connector!GetOrCreate(before)
  OBVIOUS
<1>2. Grows(before, ks) /\ Len(ks) \in DOMAIN ks
  BY <1>1, MadeIsLast
<1>3. connected' = ks \/ connected' = [ks EXCEPT ![Len(ks)] = "starting"]
  BY <1>1 DEF Connector!Begin
<1>4. Grows(ks, connected')
  <2>1. IsSequence(ks)
    BY <1>2 DEF Grows
  <2>2. Grows(ks, [ks EXCEPT ![Len(ks)] = "starting"])
    BY <2>1, InPlace
  <2> QED
    BY <1>3, <2>1, <2>2 DEF Grows
<1>5. PICK at \in {"asks", "acts"} :
         attempts' = [attempts EXCEPT ![a] =
                        [[[held EXCEPT !.context = context] EXCEPT !.kernel = Len(ks)] EXCEPT !.at = at]]
  BY <1>1 DEF Connector!Begin
<1>6. PICK r : r = [[[held EXCEPT !.context = context] EXCEPT !.kernel = Len(ks)] EXCEPT !.at = at]
  OBVIOUS
<1>7. r.kernel = Len(ks) /\ r.at = at
  BY <1>6 DEF IsAttempt
<1>8. r.kernel \in DOMAIN connected' /\ r.at # "failed"
  BY <1>2, <1>4, <1>7 DEF Grows
<1>9. attempts' = [attempts EXCEPT ![a] = r]
  BY <1>5, <1>6
<1>10. Grows(before, connected')
  BY <1>2, <1>4 DEF Grows
<1> QED
  BY <1>8, <1>9, <1>10

\* An attempt becomes r, with a kernel of the notebook unless it has failed.
LEMMA TypesBecome ==
    ASSUME Records, ConnectorTypes, Grows(connected, connected'), NEW a \in Connector!Attempts, NEW r,
           attempts' = [attempts EXCEPT ![a] = r],
           r.at # "failed" => r.kernel \in DOMAIN connected',
           cached' \in {0, cached, a}, cached' = a => r.at # "failed"
    PROVE  ConnectorTypes'
<1>1. \A b \in Connector!Attempts : attempts'[b] = IF b = a THEN r ELSE attempts[b]
  BY DEF Records
<1>2. IsSequence(connected')
  BY DEF Grows
<1>3. cached' \in Connector!Attempts \cup {0}
  BY DEF ConnectorTypes
<1>4. cached' # 0 => attempts'[cached'].at # "failed"
  <2>1. CASE cached' = a
    BY <1>1, <2>1
  <2>2. CASE cached' # a /\ cached' # 0
    <3>1. cached' = cached /\ attempts'[cached] = attempts[cached]
      BY <1>1, <1>3, <2>2
    <3>2. attempts[cached].at # "failed"
      BY <2>2, <3>1 DEF ConnectorTypes, Connector!TypeOK
    <3> QED
      BY <3>1, <3>2
  <2> QED
    BY <2>1, <2>2
<1>5. ASSUME NEW b \in Connector!Attempts, attempts'[b].at # "failed"
      PROVE  attempts'[b].kernel \in DOMAIN connected'
  <2>1. CASE b = a
    BY <1>1, <1>5, <2>1
  <2>2. CASE b # a
    <3>1. attempts'[b] = attempts[b]
      BY <1>1, <2>2
    <3>2. attempts[b].kernel \in DOMAIN connected
      BY <1>5, <3>1 DEF ConnectorTypes, Connector!TypeOK
    <3> QED
      BY <3>1, <3>2 DEF Grows
  <2> QED
    BY <2>1, <2>2
<1>6. Connector!TypeOK'
  BY <1>4, <1>5 DEF Connector!TypeOK
<1> QED
  BY <1>2, <1>3, <1>6 DEF ConnectorTypes

\* So does one of which is assigned where it is, and whether it was asked about: it keeps its kernel.
LEMMA TypesMove ==
    ASSUME Records, ConnectorTypes, Grows(connected, connected'), NEW a \in Connector!Attempts,
           NEW at, NEW asked,
           attempts[a].at # "failed",
           \/ attempts' = [attempts EXCEPT ![a].at = at]
           \/ attempts' = [attempts EXCEPT ![a].at = at, ![a].asked = asked],
           cached' \in {0, cached}, at = "failed" => cached' # a
    PROVE  ConnectorTypes'
<1>1. IsAttempt(attempts[a])
  BY DEF Records
<1>2. PICK s : s = [attempts[a] EXCEPT !.at = at]
  OBVIOUS
<1>3. s.at = at /\ s.kernel = attempts[a].kernel
  BY <1>1, <1>2 DEF IsAttempt
<1>4. PICK t : t = [s EXCEPT !.asked = asked]
  OBVIOUS
<1>5. IsAttempt(s)
  BY <1>1, <1>2 DEF IsAttempt
<1>6. t.at = at /\ t.kernel = attempts[a].kernel
  BY <1>3, <1>4, <1>5 DEF IsAttempt
<1>7. attempts' = [attempts EXCEPT ![a] = s] \/ attempts' = [attempts EXCEPT ![a] = t]
  BY <1>2, <1>4 DEF Records
<1>8. attempts[a].kernel \in DOMAIN connected'
  BY DEF ConnectorTypes, Connector!TypeOK, Grows
<1>9. CASE attempts' = [attempts EXCEPT ![a] = s]
  BY <1>3, <1>8, <1>9, TypesBecome
<1>10. CASE attempts' = [attempts EXCEPT ![a] = t]
  BY <1>6, <1>8, <1>10, TypesBecome
<1> QED
  BY <1>7, <1>9, <1>10

\* Nothing is assigned to the attempts: kernels are made or become others.
LEMMA TypesStay ==
    ASSUME Records, ConnectorTypes, Grows(connected, connected'), attempts' = attempts,
           cached' \in {0, cached}
    PROVE  ConnectorTypes'
<1>1. IsSequence(connected') /\ cached' \in Connector!Attempts \cup {0}
  BY DEF Grows, ConnectorTypes
<1>2. cached' # 0 => attempts'[cached'].at # "failed"
  BY DEF ConnectorTypes, Connector!TypeOK
<1>3. \A b \in Connector!Attempts : attempts'[b].at # "failed"
          => attempts'[b].kernel \in DOMAIN connected'
  BY DEF ConnectorTypes, Connector!TypeOK, Grows
<1>4. Connector!TypeOK'
  BY <1>2, <1>3 DEF Connector!TypeOK
<1> QED
  BY <1>1, <1>4 DEF ConnectorTypes

\* What onDisposed leaves in the cache.
LEMMA CacheAfterValues == ASSUME NEW ks PROVE Connector!CacheAfter(ks) \in {0, cached}
  BY DEF Connector!CacheAfter

\* A new attempt takes one that is not used, and holds the last kernel.
LEMMA NewAttemptTypes ==
    ASSUME Records, ConnectorTypes, NEW c, NEW action, NEW told, NEW before,
           Connector!NewAttempt(c, action, told, before)
    PROVE  ConnectorTypes'
<1> DEFINE n == CHOOSE a \in Connector!Attempts : Connector!Unused(a)
<1>1. n \in Connector!Attempts
  BY SomeUnused
<1>2. PICK new : new = n
  OBVIOUS
<1>3. PICK first : first = [Connector!NoAttempt EXCEPT !.call = c, !.initial = action]
  OBVIOUS
<1>4. Connector!Begin(new, first, action, connected) /\ cached' = new
  BY <1>2, <1>3 DEF Connector!NewAttempt
<1>5. IsAttempt(first)
  BY <1>3 DEF IsAttempt, Connector!NoAttempt
<1>6. IsSequence(connected)
  BY DEF ConnectorTypes
<1>7. Grows(connected, connected')
  BY <1>4, <1>5, <1>6, BeginHoldsLast
<1>8. PICK r : /\ attempts' = [attempts EXCEPT ![new] = r]
               /\ r.at # "failed" /\ r.kernel \in DOMAIN connected'
  BY <1>4, <1>5, <1>6, BeginHoldsLast
<1>9. new \in Connector!Attempts
  BY <1>1, <1>2
<1> HIDE DEF n
<1> QED
  BY <1>4, <1>7, <1>8, <1>9, TypesBecome

\* A call joins the cached attempt, makes its own, or throws.
LEMMA WrapTypes ==
    ASSUME Records, ConnectorTypes, NEW c, NEW action, NEW told, NEW entry \in {0, cached}, NEW before,
           Connector!Wrap(c, action, told, entry, before)
    PROVE  ConnectorTypes'
<1>1. \/ cached' = entry /\ UNCHANGED <<connected, attempts>>
      \/ Connector!NewAttempt(c, action, told, before)
      \/ cached' = 0 /\ UNCHANGED <<connected, attempts>>
  BY DEF Connector!Wrap
<1>2. CASE cached' \in {0, cached} /\ UNCHANGED <<connected, attempts>>
  <2>1. Grows(connected, connected')
    BY <1>2 DEF Grows, ConnectorTypes
  <2> QED
    BY <1>2, <2>1, TypesStay
<1>3. CASE Connector!NewAttempt(c, action, told, before)
  BY <1>3, NewAttemptTypes
<1> QED
  BY <1>1, <1>2, <1>3

\* An attempt that throws leaves the cache when it has failed.
LEMMA ThrowsTypes ==
    ASSUME Records, ConnectorTypes, Grows(connected, connected'), NEW a \in Connector!Attempts,
           attempts[a].at # "failed", NEW by, Connector!Throws(a, by)
    PROVE  ConnectorTypes'
<1>1. PICK at : /\ attempts' = [attempts EXCEPT ![a].at = at]
                /\ cached' \in {0, cached} /\ (at = "failed" => cached' # a)
  <2>1. 0 # a
    BY DEF Connector!Attempts
  <2>2. CASE disableUI[attempts[a].call] \/ closed
    <3>1. /\ attempts' = [attempts EXCEPT ![a].at = "failed"]
          /\ cached' = IF cached = a THEN 0 ELSE cached
      BY <2>2 DEF Connector!Throws
    <3>2. cached' \in {0, cached} /\ cached' # a
      BY <2>1, <3>1
    <3> QED
      BY <3>1, <3>2
  <2>3. CASE ~(disableUI[attempts[a].call] \/ closed)
    <3>1. PICK at : at = IF by THEN "cancelled" ELSE "handles"
      OBVIOUS
    <3>2. attempts' = [attempts EXCEPT ![a].at = at] /\ cached' = cached
      BY <2>3, <3>1 DEF Connector!Throws
    <3>3. at # "failed"
      BY <3>1
    <3> QED
      BY <3>2, <3>3
  <2> QED
    BY <2>2, <2>3
<1> QED
  BY <1>1, TypesMove

\* An attempt that ends keeps the cache.
LEMMA EndsTypes ==
    ASSUME Records, ConnectorTypes, Grows(connected, connected'), NEW a \in Connector!Attempts,
           attempts[a].at # "failed", NEW asked, Connector!Ends(a, asked)
    PROVE  ConnectorTypes'
<1>1. /\ attempts' = [attempts EXCEPT ![a].at = "done", ![a].asked = asked]
      /\ cached' \in {0, cached}
  BY DEF Connector!Ends
<1>2. "done" # "failed"
  OBVIOUS
<1> QED
  BY <1>1, <1>2, TypesMove

\* In the beginning there is no kernel and no attempt.
LEMMA ConnectorTypesInit == Connector!Init => ConnectorTypes
<1> SUFFICES ASSUME Connector!Init PROVE ConnectorTypes
  OBVIOUS
<1>1. connected = <<>> /\ cached = 0
  BY DEF Connector!Init
<1>2. IsSequence(connected)
  <2>1. <<>> \in Seq({})
    OBVIOUS
  <2> QED
    BY <1>1, <2>1, AnySequence
<1>3. Connector!TypeOK
  BY DEF Connector!Init, Connector!TypeOK, Connector!NoAttempt
<1> QED
  BY <1>1, <1>2, <1>3 DEF ConnectorTypes

\* Every step keeps the types.
LEMMA ConnectorTypesNext ==
    ASSUME Records, ConnectorTypes, [Connector!Next]_connectorVars
    PROVE  ConnectorTypes'
<1>0. Grows(connected, connected) /\ IsSequence(connected)
  BY DEF Grows, ConnectorTypes
<1>12. ASSUME NEW i, NEW status PROVE Grows(connected, [connected EXCEPT ![i] = status])
  BY <1>0, InPlace
<1>1. ASSUME NEW c \in Connector!Calls, Connector!Call(c) PROVE ConnectorTypes'
  <2>1. PICK action : Connector!Wrap(c, action, FALSE, cached, calls)
    BY <1>1 DEF Connector!Call
  <2> QED
    BY <2>1, WrapTypes
<1>2. ASSUME NEW c \in Connector!Calls, Connector!VerifyKernelState(c) PROVE ConnectorTypes'
  <2>1. PICK told, entry, before :
           /\ entry = cached \/ entry = 0
           /\ before = [d \in Connector!Calls |->
                           IF Connector!Waits(d, calls[c].attempt) THEN [calls[d] EXCEPT !.at = "thrown"]
                           ELSE calls[d]]
           /\ \/ Connector!Wrap(c, "start", told, entry, before)
              \/ cached' = entry /\ UNCHANGED <<connected, attempts>>
    BY <1>2 DEF Connector!VerifyKernelState
  <2>2. CASE Connector!Wrap(c, "start", told, entry, before)
    BY <2>1, <2>2, WrapTypes
  <2>3. CASE cached' = entry /\ UNCHANGED <<connected, attempts>>
    <3>1. Grows(connected, connected')
      BY <1>0, <2>3
    <3> QED
      BY <2>1, <2>3, <3>1, TypesStay
  <2> QED
    BY <2>1, <2>2, <2>3
<1>3. ASSUME NEW a \in Connector!Attempts, Connector!Acts(a) PROVE ConnectorTypes'
  <2>1. \/ connected' = connected
        \/ \E status : connected' = [connected EXCEPT ![attempts[a].kernel] = status]
    BY <1>3 DEF Connector!Acts
  <2>2. Grows(connected, connected')
    BY <1>0, <1>12, <2>1
  <2>3. \/ Connector!Throws(a, TRUE) \/ Connector!Throws(a, FALSE) \/ Connector!Ends(a, "no")
        \/ attempts' = [attempts EXCEPT ![a].at = "asks again"] /\ UNCHANGED cached
    BY <1>3 DEF Connector!Acts
  <2>4. attempts[a].at # "failed"
    BY <1>3 DEF Connector!Acts
  <2>5. CASE attempts' = [attempts EXCEPT ![a].at = "asks again"] /\ UNCHANGED cached
    <3>1. "asks again" # "failed"
      OBVIOUS
    <3> QED
      BY <2>2, <2>4, <2>5, <3>1, TypesMove
  <2>6. CASE Connector!Throws(a, TRUE) \/ Connector!Throws(a, FALSE)
    BY <2>2, <2>4, <2>6, ThrowsTypes
  <2>7. CASE Connector!Ends(a, "no")
    BY <2>2, <2>4, <2>7, EndsTypes
  <2> QED
    BY <2>3, <2>5, <2>6, <2>7
<1>4. ASSUME NEW a \in Connector!Attempts, Connector!NotRestarted(a) PROVE ConnectorTypes'
  <2>1. attempts[a].at # "failed" /\ connected' = connected /\ \E asked : Connector!Ends(a, asked)
    BY <1>4 DEF Connector!NotRestarted
  <2>2. Grows(connected, connected')
    BY <1>0, <2>1
  <2> QED
    BY <2>1, <2>2, EndsTypes
<1>5. ASSUME NEW a \in Connector!Attempts, Connector!RestartChosen(a) PROVE ConnectorTypes'
  <2>1. attempts[a].at # "failed" /\ connected' = connected /\ cached' = cached
    BY <1>5 DEF Connector!RestartChosen
  <2>2. PICK at : at = IF attempts[a].at = "asks" THEN "restarts" ELSE "restarts again"
    OBVIOUS
  <2>3. attempts' = [attempts EXCEPT ![a].at = at] /\ at # "failed"
    BY <1>5, <2>2 DEF Connector!RestartChosen, Records
  <2>4. Grows(connected, connected')
    BY <1>0, <2>1
  <2> QED
    BY <2>1, <2>3, <2>4, TypesMove
<1>6. ASSUME NEW a \in Connector!Attempts, Connector!KernelRestarted(a) PROVE ConnectorTypes'
  <2>1. \/ connected' = connected
        \/ \E status : connected' = [connected EXCEPT ![attempts[a].kernel] = status]
    BY <1>6 DEF Connector!KernelRestarted
  <2>2. Grows(connected, connected')
    BY <1>0, <1>12, <2>1
  <2>3. attempts[a].at # "failed"
    BY <1>6 DEF Connector!KernelRestarted
  <2>4. (\E by : Connector!Throws(a, by)) \/ \E asked : Connector!Ends(a, asked)
    BY <1>6 DEF Connector!KernelRestarted
  <2> QED
    BY <2>2, <2>3, <2>4, ThrowsTypes, EndsTypes
<1>7. ASSUME NEW a \in Connector!Attempts, Connector!GivesUp(a) PROVE ConnectorTypes'
  <2>1. /\ attempts[a].at # "failed"
        /\ attempts' = [attempts EXCEPT ![a].at = "failed"]
        /\ connected' = Connector!Dispose(connected, attempts[a].kernel)
        /\ cached' = IF cached = a THEN 0 ELSE Connector!CacheAfter(connected')
    BY <1>7 DEF Connector!GivesUp
  <2>2. Grows(connected, connected')
    BY <1>0, <2>1, DisposeInPlace
  <2>3. a # 0
    BY DEF Connector!Attempts
  <2>4. Connector!CacheAfter(connected') \in {0, cached}
    BY CacheAfterValues
  <2>5. cached' \in {0, cached} /\ cached' # a
    BY <2>1, <2>3, <2>4
  <2> QED
    BY <2>1, <2>2, <2>5, TypesMove
<1>8. ASSUME NEW a \in Connector!Attempts, Connector!GoesOn(a) PROVE ConnectorTypes'
  <2>1. PICK ks : ks = Connector!Dispose(connected, attempts[a].kernel)
    OBVIOUS
  <2>2. PICK js : js = Connector!Dispose(ks, Len(ks))
    OBVIOUS
  <2>3. PICK before \in {ks, Append(js, "created")} :
           Connector!Begin(a, attempts[a], "start", before)
    BY <1>8, <2>1, <2>2 DEF Connector!GoesOn
  <2>4. Grows(connected, ks)
    BY <1>0, <2>1, DisposeInPlace
  <2>5. Grows(ks, js)
    BY <2>2, <2>4, DisposeInPlace DEF Grows
  <2>6. Grows(js, Append(js, "created"))
    BY <2>5, MadeIsLast DEF Grows
  <2>7. Grows(connected, before)
    BY <2>3, <2>4, <2>5, <2>6 DEF Grows
  <2>8. IsSequence(before)
    BY <2>7 DEF Grows
  <2>9. PICK held : held = attempts[a]
    OBVIOUS
  <2>10. IsAttempt(held)
    BY <2>9 DEF Records
  <2>11. Connector!Begin(a, held, "start", before)
    BY <2>3, <2>9
  <2>12. Grows(before, connected')
    BY <2>8, <2>10, <2>11, BeginHoldsLast
  <2>13. PICK r : /\ attempts' = [attempts EXCEPT ![a] = r]
                  /\ r.at # "failed" /\ r.kernel \in DOMAIN connected'
    BY <2>8, <2>10, <2>11, BeginHoldsLast
  <2>14. Grows(connected, connected')
    BY <2>7, <2>12 DEF Grows
  <2>15. cached' = Connector!CacheAfter(connected')
    BY <1>8 DEF Connector!GoesOn
  <2>16. cached' \in {0, cached}
    BY <2>15, CacheAfterValues
  <2> QED
    BY <2>13, <2>14, <2>16, TypesBecome
<1>9. ASSUME NEW k \in DOMAIN connected, Connector!KernelDies(k) \/ Connector!KernelDisposed(k)
      PROVE  ConnectorTypes'
  <2>1. PICK status : connected' = [connected EXCEPT ![k] = status]
    BY <1>9 DEF Connector!KernelDies, Connector!KernelDisposed
  <2>2. Grows(connected, connected')
    BY <1>0, <1>12, <2>1
  <2>3. attempts' = attempts
    BY <1>9 DEF Connector!KernelDies, Connector!KernelDisposed
  <2>4. cached' = cached \/ cached' = Connector!CacheAfter(connected')
    BY <1>9 DEF Connector!KernelDies, Connector!KernelDisposed
  <2>5. cached' \in {0, cached}
    BY <2>4, CacheAfterValues
  <2> QED
    BY <2>2, <2>3, <2>5, TypesStay
<1>10. CASE Connector!DisposeKernel
  <2>1. /\ connected' = Connector!Dispose(connected, Len(connected))
        /\ attempts' = attempts
        /\ cached' = Connector!CacheAfter(connected')
    BY <1>10 DEF Connector!DisposeKernel
  <2>2. Grows(connected, connected')
    BY <1>0, <2>1, DisposeInPlace
  <2>3. cached' \in {0, cached}
    BY <2>1, CacheAfterValues
  <2> QED
    BY <2>1, <2>2, <2>3, TypesStay
<1>11. CASE UNCHANGED connectorVars
  <2>1. connected' = connected /\ attempts' = attempts /\ cached' = cached
    BY <1>11 DEF connectorVars
  <2>2. Grows(connected, connected') /\ cached' \in {0, cached}
    BY <1>0, <2>1
  <2> QED
    BY <2>1, <2>2, TypesStay
<1> QED
  BY <1>1, <1>2, <1>3, <1>4, <1>5, <1>6, <1>7, <1>8, <1>9, <1>10, <1>11 DEF Connector!Next

-----------------------------------------------------------------------------
(* The executions that are remembered: why the file holds the last of each *)

\* The entry of an execution, the operation that writes it and the operation that deletes that
\* of its cell.
EntryOf(r) == [run |-> r, index |-> index[cellOf[r]]]
DocumentOf(r) == Tracker!Document(cellOf[r])
TrackOp(r) == [does |-> "track", document |-> DocumentOf(r), entry |-> EntryOf(r)]
Deletes(op, r) == op.does = "delete" /\ op.cell = cellOf[r]

RunStates == {"idle", "sent", "cancelled", "tracked", "late", "returned", "failed", "left", "kept"}

\* What the chain holds.
Operations ==
    [does : {"track"}, document : Documents, entry : [run : Runs, index : {1, 2}]]
    \cup [does : {"delete"}, document : Documents, cell : Tracker!DocumentCells]
    \cup [does : {"remove"}, document : Documents]

\* The types of runs, of their cells, of the file and of the chain.
TrackerTypes ==
    /\ runs \in [Runs -> RunStates]
    /\ cellOf = [r \in Runs |-> cellOf[r]]
    /\ \A r \in Runs : runs[r] # "idle" => cellOf[r] \in Tracker!DocumentCells
    /\ index \in [Tracker!DocumentCells -> {1, 2}]
    /\ file = [d \in Documents |-> file[d]]
    /\ chain \in Seq(Operations)

\* The executions an operation may name, and the notebooks whose entries stay right: their cells
\* have not moved and their server is there.
Named == {r \in Runs : runs[r] \in {"tracked", "late", "returned", "failed"}}
Stays(d) == d \notin moved \cup removedServers

\* The states in which an execution may have been written.
Written == {"tracked", "late", "returned", "failed", "left", "kept"}

\* An operation that writes an entry, and the file, name executions of the notebook; unless its
\* cells moved, with their index.  What is deleted is a cell of the notebook.
Names(op) ==
    /\ op.does = "track" =>
           /\ op.entry.run \in Named /\ DocumentOf(op.entry.run) = op.document
           /\ op.document \notin moved => op.entry = EntryOf(op.entry.run)
    /\ op.does = "delete" => Tracker!Document(op.cell) = op.document

OperationsName == \A i \in DOMAIN chain : Names(chain[i])

FileNames ==
    \A d \in Documents : file[d] # None /\ d \notin moved =>
        /\ file[d].run \in Runs /\ runs[file[d].run] \in Written
        /\ DocumentOf(file[d].run) = d /\ file[d] = EntryOf(file[d].run)

\* One execution of a notebook is sent or tracked, and none is announced after the tracked one.
OneBusy ==
    \A r, s \in Runs :
        /\ r # s /\ DocumentOf(r) = DocumentOf(s)
        /\ runs[r] \in {"sent", "tracked", "left"} /\ runs[s] \in {"sent", "tracked", "cancelled"}
        => runs[r] = "sent" /\ runs[s] = "cancelled"

\* No operation of the chain is one of notebook d.
NothingFor(d) == \A i \in DOMAIN chain : chain[i].document # d

\* What is tracked is written by the last operation of its notebook, or is in the file.
LastTracks(r) ==
    \E i \in DOMAIN chain :
        /\ chain[i] = TrackOp(r)
        /\ \A j \in DOMAIN chain : j > i => chain[j].document # DocumentOf(r)

InFile(r) == NothingFor(DocumentOf(r)) /\ file[DocumentOf(r)] = EntryOf(r)

TrackedWritten ==
    \A r \in Runs : runs[r] = "tracked" /\ Stays(DocumentOf(r)) => LastTracks(r) \/ InFile(r)

\* What a reload left is in the file, until its notebook executes again.
LeftInFile ==
    \A r \in Runs : runs[r] = "left" => reloaded /\ (Stays(DocumentOf(r)) => InFile(r))

\* What has returned is deleted after it is written, or is not written at all.
DeletedAfter(r, i) == \E j \in DOMAIN chain : j > i /\ Deletes(chain[j], r)

ReturnedDeleted ==
    \A r \in Runs : runs[r] = "returned" /\ Stays(DocumentOf(r)) =>
        /\ \A i \in DOMAIN chain :
               chain[i].does = "track" /\ chain[i].entry.run = r => DeletedAfter(r, i)
        /\ file[DocumentOf(r)] # None /\ file[DocumentOf(r)].run = r => DeletedAfter(r, 0)

\* What an operation has read is what the file holds, and what is kept is that as well unless
\* older entries were.
ReadIsFile == read # None => read = file /\ chain # <<>>
StaleIsFile == ~overtaken => \A d \in Documents : staleState[d] # None => staleState[d] = file[d]

\* Why the entries of the file are right when the chain has come to its end.
RunsInv ==
    /\ TrackerTypes /\ OperationsName /\ FileNames /\ OneBusy /\ TrackedWritten /\ LeftInFile
    /\ ReturnedDeleted

TrackerInv == RunsInv /\ ReadIsFile /\ StaleIsFile

\* An operation at the end of the chain.
Appended(op) ==
    /\ chain' \in Seq(Operations) /\ chain' # <<>>
    /\ \E n \in Nat :
           /\ n > 0 /\ DOMAIN chain' = DOMAIN chain \cup {n} /\ n \notin DOMAIN chain /\ chain'[n] = op
           /\ \A i \in DOMAIN chain : i \in Nat /\ i < n /\ i > 0 /\ chain'[i] = chain[i]

\* Chaining an operation puts it at the end of the chain.
LEMMA ChainAppended ==
    ASSUME RunsInv, NEW op \in Operations, Tracker!Chained(op) PROVE Appended(op)
<1>1. chain \in Seq(Operations) /\ chain' = Append(chain, op)
  BY DEF RunsInv, TrackerTypes, Tracker!Chained
<1>2. /\ chain' \in Seq(Operations) /\ Len(chain') = Len(chain) + 1
      /\ \A i \in 1..Len(chain) : chain'[i] = chain[i]
      /\ chain'[Len(chain) + 1] = op
  BY <1>1, AppendProperties
<1>3. Len(chain) \in Nat /\ DOMAIN chain = 1..Len(chain) /\ DOMAIN chain' = 1..(Len(chain) + 1)
  BY <1>1, <1>2
<1>4. chain' # <<>>
  BY <1>2, <1>3
<1> QED
  BY <1>2, <1>3, <1>4 DEF Appended

\* The first operation leaves the chain.
Dropped(op) ==
    /\ op \in Operations
    /\ chain' \in Seq(Operations)
    /\ \E n \in Nat : /\ n > 0 /\ DOMAIN chain = 1..n /\ DOMAIN chain' = 1..(n - 1) /\ chain[1] = op
                      /\ \A i \in 1..(n - 1) : chain'[i] = chain[i + 1]

\* Writing the file takes the first operation off the chain.
LEMMA ChainDropped ==
    ASSUME RunsInv, chain # <<>>, chain' = Tail(chain) PROVE Dropped(Head(chain))
<1>1. chain \in Seq(Operations)
  BY DEF RunsInv, TrackerTypes
<1>2. Head(chain) \in Operations /\ chain' \in Seq(Operations) /\ Len(chain') = Len(chain) - 1
  BY <1>1, HeadTailProperties
<1>3. \A i \in 1..(Len(chain) - 1) : chain'[i] = chain[i + 1]
  BY <1>1, HeadTailProperties
<1>4. Len(chain) \in Nat /\ Len(chain) > 0 /\ DOMAIN chain = 1..Len(chain) /\ Head(chain) = chain[1]
  BY <1>1, EmptySeq
<1>5. DOMAIN chain' = 1..(Len(chain) - 1)
  BY <1>2, <1>4
<1> QED
  BY <1>2, <1>3, <1>4, <1>5 DEF Dropped

\* Reading the file and recalling what it holds change nothing of this.
LEMMA RunsInvUnchanged ==
    ASSUME RunsInv,
           UNCHANGED <<runs, cellOf, index, file, chain, reloaded, moved, removedServers>>
    PROVE  RunsInv'
<1>1. TrackerTypes'
  BY DEF RunsInv, TrackerTypes
<1>2. OperationsName'
  BY DEF RunsInv, OperationsName, Names, Named, DocumentOf, EntryOf
<1>3. FileNames'
  BY DEF RunsInv, FileNames, DocumentOf, EntryOf
<1>4. OneBusy'
  BY DEF RunsInv, OneBusy, DocumentOf
<1>5. TrackedWritten'
  BY DEF RunsInv, TrackedWritten, Stays, LastTracks, InFile, NothingFor, TrackOp, EntryOf, DocumentOf
<1>6. LeftInFile'
  BY DEF RunsInv, LeftInFile, Stays, InFile, NothingFor, EntryOf, DocumentOf
<1>7. ReturnedDeleted'
  BY DEF RunsInv, ReturnedDeleted, Stays, DeletedAfter, Deletes, DocumentOf
<1> QED
  BY <1>1, <1>2, <1>3, <1>4, <1>5, <1>6, <1>7 DEF RunsInv

\* In the beginning nothing was executed.
LEMMA TrackerInvInit == Tracker!Init => TrackerInv
<1> SUFFICES ASSUME Tracker!Init PROVE TrackerInv
  OBVIOUS
<1>1. runs = [r \in Runs |-> "idle"] /\ chain = <<>> /\ DOMAIN chain = {}
  BY DEF Tracker!Init
<1>2. TrackerTypes
  BY <1>1 DEF Tracker!Init, TrackerTypes, RunStates, Tracker!DocumentCells, Tracker!NoEntries
<1>3. OperationsName /\ FileNames /\ OneBusy /\ TrackedWritten /\ LeftInFile
  BY <1>1 DEF Tracker!Init, OperationsName, FileNames, OneBusy, TrackedWritten, LeftInFile,
              Tracker!NoEntries
<1>4. ReturnedDeleted
  BY <1>1 DEF ReturnedDeleted
<1>5. ReadIsFile /\ StaleIsFile
  BY DEF Tracker!Init, ReadIsFile, StaleIsFile, Tracker!NoEntries
<1> QED
  BY <1>2, <1>3, <1>4, <1>5 DEF TrackerInv, RunsInv

\* What an execution that is sent changes of the others.
Executes(r, cell) ==
    /\ runs[r] = "idle" /\ runs'[r] = "sent" /\ cellOf'[r] = cell
    /\ \A s \in Runs : s # r => cellOf'[s] = cellOf[s] /\ EntryOf(s)' = EntryOf(s)
                               /\ DocumentOf(s)' = DocumentOf(s)
    /\ \A s \in Runs : s # r =>
           \/ runs'[s] = runs[s] /\ ~(runs[s] = "left" /\ DocumentOf(s) = Tracker!Document(cell))
           \/ runs[s] = "left" /\ runs'[s] = "kept"
           \/ runs[s] = "cancelled" /\ runs'[s] = "returned"

\* Execute sends a new execution, and ends those that were left or not announced before it.
LEMMA ExecuteChanges ==
    ASSUME RunsInv, NEW r \in Runs, NEW cell \in Tracker!DocumentCells, Tracker!Execute(r, cell)
    PROVE  Executes(r, cell)
<1>1. /\ runs[r] = "idle"
      /\ runs' = [s \in Runs |->
                   CASE s = r -> "sent"
                     [] runs[s] = "left" /\ Tracker!Document(cellOf[s]) = Tracker!Document(cell)
                            -> "kept"
                     [] OTHER -> Tracker!Unannounced({cell})[s]]
  BY DEF Tracker!Execute
<1>2. cellOf' = [cellOf EXCEPT ![r] = cell] /\ index' = index
  BY DEF Tracker!Execute
<1>3. cellOf = [s \in Runs |-> cellOf[s]]
  BY DEF RunsInv, TrackerTypes
<1>4. cellOf'[r] = cell /\ \A s \in Runs : s # r => cellOf'[s] = cellOf[s]
  BY <1>2, <1>3
<1>5. \A s \in Runs : Tracker!Unannounced({cell})[s] \in {runs[s], "returned"}
                      /\ (Tracker!Unannounced({cell})[s] # runs[s] => runs[s] = "cancelled")
  BY DEF Tracker!Unannounced
<1>6. \A s \in Runs : s # r =>
           \/ runs'[s] = runs[s] /\ ~(runs[s] = "left" /\ DocumentOf(s) = Tracker!Document(cell))
           \/ runs[s] = "left" /\ runs'[s] = "kept"
           \/ runs[s] = "cancelled" /\ runs'[s] = "returned"
  BY <1>1, <1>5 DEF DocumentOf
<1>7. runs'[r] = "sent"
  BY <1>1
<1> QED
  BY <1>1, <1>2, <1>4, <1>6, <1>7 DEF Executes, EntryOf, DocumentOf

\* Sending an execution keeps the invariant: what ends then was never written, or was left.
LEMMA ExecuteKeeps ==
    ASSUME RunsInv, NEW r \in Runs, NEW cell \in Tracker!DocumentCells, Tracker!Execute(r, cell)
    PROVE  RunsInv'
<1>0. /\ Executes(r, cell)
      /\ UNCHANGED <<index, file, chain, reloaded, moved, removedServers>>
      /\ \A s \in Runs : runs[s] \in {"sent", "tracked"} => DocumentOf(s) # Tracker!Document(cell)
  BY ExecuteChanges DEF Tracker!Execute, Tracker!Busy, DocumentOf
<1>1. TrackerTypes'
  <2>1. runs' \in [Runs -> RunStates]
    <3>1. runs' = [s \in Runs |-> runs'[s]]
      BY DEF Tracker!Execute
    <3>2. \A s \in Runs : runs'[s] \in RunStates
      BY <1>0 DEF RunsInv, TrackerTypes, RunStates, Executes
    <3> QED
      BY <3>1, <3>2
  <2>2. cellOf' = [s \in Runs |-> cellOf'[s]]
    BY DEF RunsInv, TrackerTypes, Tracker!Execute
  <2>3. \A s \in Runs : runs'[s] # "idle" => cellOf'[s] \in Tracker!DocumentCells
    BY <1>0 DEF RunsInv, TrackerTypes, RunStates, Executes
  <2> QED
    BY <1>0, <2>1, <2>2, <2>3 DEF RunsInv, TrackerTypes
<1>2. \A s \in Named : s # r /\ s \in Named'
  BY <1>0 DEF Executes, Named
<1>3. OperationsName'
  BY <1>0, <1>2 DEF RunsInv, OperationsName, Names, Executes, Named
<1>4. FileNames'
  <2>1. \A s \in Runs : runs[s] \in Written =>
            s # r /\ runs'[s] \in Written
    BY <1>0 DEF Executes, Written
  <2> QED
    BY <1>0, <2>1 DEF RunsInv, FileNames, Executes
<1>5. OneBusy'
  <2>1. SUFFICES ASSUME NEW s \in Runs, NEW t \in Runs, s # t,
                        runs'[s] \in {"sent", "tracked", "left"},
                        runs'[t] \in {"sent", "tracked", "cancelled"},
                        DocumentOf(s)' = DocumentOf(t)'
                 PROVE  runs'[s] = "sent" /\ runs'[t] = "cancelled"
    BY DEF OneBusy
  <2>2. CASE s = r
    <3>1. runs'[t] = runs[t] /\ DocumentOf(t) = Tracker!Document(cell)
      BY <1>0, <2>1, <2>2 DEF Executes, DocumentOf
    <3> QED
      BY <1>0, <2>1, <2>2, <3>1 DEF Executes
  <2>3. CASE t = r
    <3>1. runs'[s] = runs[s] /\ DocumentOf(s) = Tracker!Document(cell)
      BY <1>0, <2>1, <2>3 DEF Executes, DocumentOf
    <3> QED
      BY <1>0, <2>1, <2>3, <3>1 DEF Executes
  <2>4. CASE s # r /\ t # r
    <3>1. runs'[s] = runs[s] /\ runs'[t] = runs[t] /\ DocumentOf(s) = DocumentOf(t)
      BY <1>0, <2>1, <2>4 DEF Executes
    <3> QED
      BY <2>1, <3>1 DEF RunsInv, OneBusy
  <2> QED
    BY <2>2, <2>3, <2>4
<1>6. \A s \in Runs : s # r => (LastTracks(s) => LastTracks(s)') /\ (InFile(s) => InFile(s)')
  BY <1>0 DEF Executes, LastTracks, InFile, NothingFor, TrackOp
<1>7. TrackedWritten'
  <2>1. \A s \in Runs : runs'[s] = "tracked" => s # r /\ runs[s] = "tracked"
    BY <1>0 DEF Executes
  <2> QED
    BY <1>0, <1>6, <2>1 DEF RunsInv, TrackedWritten, Executes, Stays
<1>8. LeftInFile'
  <2>1. \A s \in Runs : runs'[s] = "left" => s # r /\ runs[s] = "left"
    BY <1>0 DEF Executes
  <2> QED
    BY <1>0, <1>6, <2>1 DEF RunsInv, LeftInFile, Executes, Stays
<1>9. ReturnedDeleted'
  <2>1. SUFFICES ASSUME NEW s \in Runs, runs'[s] = "returned", Stays(DocumentOf(s))'
        PROVE  /\ \A i \in DOMAIN chain :
                      chain[i].does = "track" /\ chain[i].entry.run = s => DeletedAfter(s, i)'
               /\ file[DocumentOf(s)'] # None /\ file[DocumentOf(s)'].run = s => DeletedAfter(s, 0)'
    BY <1>0 DEF ReturnedDeleted
  <2>2. s # r /\ DocumentOf(s)' = DocumentOf(s) /\ cellOf'[s] = cellOf[s]
    BY <1>0, <2>1 DEF Executes
  <2>3. CASE runs[s] = "returned"
    BY <1>0, <2>1, <2>2, <2>3 DEF RunsInv, ReturnedDeleted, Stays, DeletedAfter, Deletes
  <2>4. CASE runs[s] # "returned"
    <3>2. runs[s] = "cancelled"
      BY <1>0, <2>1, <2>2, <2>4 DEF Executes
    <3>3. \A i \in DOMAIN chain : chain[i].does = "track" => chain[i].entry.run # s
      BY <3>2 DEF RunsInv, OperationsName, Names, Named
    <3>4. DocumentOf(s) \in Documents
      BY <3>2 DEF RunsInv, TrackerTypes, DocumentOf, Tracker!Document, Tracker!DocumentCells
    <3>5. file[DocumentOf(s)] # None => file[DocumentOf(s)].run # s
      BY <1>0, <2>1, <2>2, <3>2, <3>4 DEF RunsInv, FileNames, Stays, Written
    <3> QED
      BY <2>2, <3>3, <3>5
  <2> QED
    BY <2>3, <2>4
<1> QED
  BY <1>1, <1>3, <1>4, <1>5, <1>7, <1>8, <1>9 DEF RunsInv

\* What an operation of another notebook at the end of the chain leaves as it is.
LEMMA AppendKeeps ==
    ASSUME RunsInv, NEW op, Appended(op), UNCHANGED <<cellOf, index, file>>
    PROVE  \A s \in Runs :
              /\ op.document # DocumentOf(s) /\ LastTracks(s) => LastTracks(s)'
              /\ op.document # DocumentOf(s) /\ InFile(s) => InFile(s)'
              /\ \A i : DeletedAfter(s, i) => DeletedAfter(s, i)'
<1> SUFFICES ASSUME NEW s \in Runs
    PROVE  /\ op.document # DocumentOf(s) /\ LastTracks(s) => LastTracks(s)'
           /\ op.document # DocumentOf(s) /\ InFile(s) => InFile(s)'
           /\ \A i : DeletedAfter(s, i) => DeletedAfter(s, i)'
  OBVIOUS
<1>1. DocumentOf(s)' = DocumentOf(s) /\ TrackOp(s)' = TrackOp(s) /\ EntryOf(s)' = EntryOf(s)
  BY DEF DocumentOf, TrackOp, EntryOf
<1>2. op.document # DocumentOf(s) /\ LastTracks(s) => LastTracks(s)'
  BY <1>1 DEF LastTracks, Appended
<1>3. op.document # DocumentOf(s) /\ InFile(s) => InFile(s)'
  BY <1>1 DEF InFile, NothingFor, Appended
<1>4. \A i : DeletedAfter(s, i) => DeletedAfter(s, i)'
  BY <1>1 DEF DeletedAfter, Deletes, Appended
<1> QED
  BY <1>2, <1>3, <1>4

\* Announcing an execution keeps it: none of the same notebook is written after it.
LEMMA AnnouncedKeeps ==
    ASSUME RunsInv, NEW r \in Runs, Tracker!Announced(r) PROVE RunsInv'
<1> DEFINE d == DocumentOf(r)
<1>1. /\ runs[r] \in {"sent", "cancelled"}
      /\ UNCHANGED <<cellOf, index, file, reloaded, moved, removedServers>>
      /\ Tracker!Chained(TrackOp(r))
  BY DEF Tracker!Announced, TrackOp, DocumentOf, EntryOf
<1>2. TrackOp(r) \in Operations /\ TrackOp(r).does = "track" /\ TrackOp(r).document = d
      /\ TrackOp(r).entry = EntryOf(r) /\ EntryOf(r).run = r
  <2>1. cellOf[r] \in Tracker!DocumentCells /\ index[cellOf[r]] \in {1, 2}
    BY <1>1 DEF RunsInv, TrackerTypes
  <2>2. d \in Documents
    BY <2>1 DEF DocumentOf, Tracker!Document, Tracker!DocumentCells
  <2>3. EntryOf(r) \in [run : Runs, index : {1, 2}]
    BY <2>1 DEF EntryOf
  <2> QED
    BY <2>2, <2>3 DEF TrackOp, Operations, EntryOf
<1>3. Appended(TrackOp(r))
  BY <1>1, <1>2, ChainAppended
<1>4. \A s \in Runs : /\ DocumentOf(s)' = DocumentOf(s) /\ EntryOf(s)' = EntryOf(s)
                      /\ TrackOp(s)' = TrackOp(s)
  BY <1>1 DEF DocumentOf, EntryOf, TrackOp
<1>5. /\ runs' = [s \in Runs |-> runs'[s]]
      /\ runs'[r] = IF runs[r] = "sent" THEN "tracked" ELSE "late"
      /\ \A s \in Runs : s # r =>
             \/ runs'[s] = runs[s] /\ ~(runs[s] = "cancelled" /\ DocumentOf(s) = d)
             \/ runs[s] = "cancelled" /\ runs'[s] = "returned"
  <2>1. PICK gone : gone = {c \in Tracker!DocumentCells : c[1] = Tracker!Document(cellOf[r])}
    OBVIOUS
  <2>2. PICK at : at = IF runs[r] = "sent" THEN "tracked" ELSE "late"
    OBVIOUS
  <2>3. runs' = [Tracker!Unannounced(gone) EXCEPT ![r] = at]
    BY <2>1, <2>2 DEF Tracker!Announced
  <2>4. \A s \in Runs : runs'[s] = IF s = r THEN at
                                   ELSE IF runs[s] = "cancelled" /\ cellOf[s] \in gone THEN "returned"
                                   ELSE runs[s]
    BY <2>3 DEF Tracker!Unannounced
  <2>5. \A s \in Runs : runs[s] = "cancelled" /\ DocumentOf(s) = d => cellOf[s] \in gone
    BY <2>1 DEF RunsInv, TrackerTypes, DocumentOf, Tracker!Document
  <2>6. runs' = [s \in Runs |-> runs'[s]]
    BY <2>3 DEF Tracker!Unannounced
  <2> QED
    BY <2>2, <2>4, <2>5, <2>6
<1>6. PICK op : op = TrackOp(r)
  OBVIOUS
<1>7. /\ Appended(op) /\ op.does = "track" /\ op.document = d /\ op.entry = EntryOf(r)
      /\ op.entry.run = r
  BY <1>2, <1>3, <1>6
<1>8. TrackerTypes'
  <2>1. runs' \in [Runs -> RunStates]
    BY <1>5 DEF RunsInv, TrackerTypes, RunStates
  <2>2. \A s \in Runs : runs'[s] # "idle" => cellOf'[s] \in Tracker!DocumentCells
    BY <1>1, <1>5 DEF RunsInv, TrackerTypes
  <2>3. chain' \in Seq(Operations)
    BY <1>7 DEF Appended
  <2> QED
    BY <1>1, <2>1, <2>2, <2>3 DEF RunsInv, TrackerTypes
<1>9. Named \subseteq Named' /\ r \in Named' /\ r \notin Named
  BY <1>1, <1>5 DEF Named
<1>10. OperationsName'
  <2>1. SUFFICES ASSUME NEW i \in DOMAIN chain', NEW o, o = chain'[i] PROVE Names(o)'
    BY DEF OperationsName, Names, Named, DocumentOf, EntryOf
  <2>2. CASE i \in DOMAIN chain
    <3>1. o = chain[i] /\ Names(o)
      BY <1>7, <2>1, <2>2 DEF Appended, RunsInv, OperationsName
    <3> QED
      BY <1>1, <1>4, <1>9, <3>1 DEF Names, Named
  <2>3. CASE i \notin DOMAIN chain
    <3>1. o = op
      BY <1>7, <2>1, <2>3 DEF Appended
    <3> QED
      BY <1>4, <1>7, <1>9, <3>1 DEF Names
  <2> QED
    BY <2>2, <2>3
<1>11. FileNames'
  <2>1. \A s \in Runs : runs[s] \in Written =>
            runs'[s] \in Written
    BY <1>1, <1>5 DEF Written
  <2> QED
    BY <1>1, <1>4, <2>1 DEF RunsInv, FileNames
<1>12. OneBusy'
  <2>1. SUFFICES ASSUME NEW s \in Runs, NEW t \in Runs, s # t,
                        runs'[s] \in {"sent", "tracked", "left"},
                        runs'[t] \in {"sent", "tracked", "cancelled"},
                        DocumentOf(s) = DocumentOf(t)
                 PROVE  runs'[s] = "sent" /\ runs'[t] = "cancelled"
    BY <1>4 DEF OneBusy
  <2>2. CASE s = r
    <3>1. runs[r] = "sent" /\ runs'[t] = runs[t] /\ runs[t] # "cancelled"
      BY <1>1, <1>5, <2>1, <2>2
    <3> QED
      BY <2>1, <2>2, <3>1 DEF RunsInv, OneBusy
  <2>3. CASE t = r
    <3>1. runs[r] = "sent" /\ runs'[s] = runs[s]
      BY <1>1, <1>5, <2>1, <2>3
    <3> QED
      BY <2>1, <2>3, <3>1 DEF RunsInv, OneBusy
  <2>4. CASE s # r /\ t # r
    <3>1. runs'[s] = runs[s] /\ runs'[t] = runs[t]
      BY <1>5, <2>1, <2>4
    <3> QED
      BY <2>1, <3>1 DEF RunsInv, OneBusy
  <2> QED
    BY <2>2, <2>3, <2>4
<1>13. \A s \in Runs : s # r /\ runs[s] \in {"tracked", "left"} => op.document # DocumentOf(s)
  BY <1>1, <1>7 DEF RunsInv, OneBusy
<1>14. TrackedWritten'
  <2>1. SUFFICES ASSUME NEW s \in Runs, runs'[s] = "tracked", Stays(DocumentOf(s))
                 PROVE  LastTracks(s)' \/ InFile(s)'
    BY <1>1, <1>4 DEF TrackedWritten, Stays
  <2>2. CASE s = r
    <3>1. LastTracks(r)'
      BY <1>4, <1>6, <1>7 DEF LastTracks, Appended
    <3> QED
      BY <2>2, <3>1
  <2>3. CASE s # r
    <3>1. runs[s] = "tracked"
      BY <1>5, <2>1, <2>3
    <3>2. LastTracks(s) \/ InFile(s)
      BY <2>1, <3>1 DEF RunsInv, TrackedWritten
    <3> QED
      BY <1>1, <1>7, <1>13, <2>3, <3>1, <3>2, AppendKeeps
  <2> QED
    BY <2>2, <2>3
<1>15. LeftInFile'
  <2>1. SUFFICES ASSUME NEW s \in Runs, runs'[s] = "left"
                 PROVE  reloaded /\ (Stays(DocumentOf(s)) => InFile(s)')
    BY <1>1, <1>4 DEF LeftInFile, Stays
  <2>2. s # r /\ runs[s] = "left"
    BY <1>5, <2>1
  <2>3. reloaded /\ (Stays(DocumentOf(s)) => InFile(s))
    BY <2>2 DEF RunsInv, LeftInFile
  <2> QED
    BY <1>1, <1>7, <1>13, <2>2, <2>3, AppendKeeps
<1>16. ReturnedDeleted'
  <2>1. SUFFICES ASSUME NEW s \in Runs, runs'[s] = "returned", Stays(DocumentOf(s))
        PROVE  /\ \A i \in DOMAIN chain' :
                      chain'[i].does = "track" /\ chain'[i].entry.run = s => DeletedAfter(s, i)'
               /\ file[DocumentOf(s)] # None /\ file[DocumentOf(s)].run = s => DeletedAfter(s, 0)'
    BY <1>1, <1>4 DEF ReturnedDeleted, Stays
  <2>2. s # r
    BY <1>5, <2>1
  <2>3. /\ \A i \in DOMAIN chain :
               chain[i].does = "track" /\ chain[i].entry.run = s => DeletedAfter(s, i)
        /\ file[DocumentOf(s)] # None /\ file[DocumentOf(s)].run = s => DeletedAfter(s, 0)
    <3>1. CASE runs[s] = "returned"
      BY <2>1, <3>1 DEF RunsInv, ReturnedDeleted
    <3>2. CASE runs[s] = "cancelled"
      <4>1. \A i \in DOMAIN chain : chain[i].does = "track" => chain[i].entry.run # s
        BY <3>2 DEF RunsInv, OperationsName, Names, Named
      <4>2. DocumentOf(s) \in Documents
        BY <3>2 DEF RunsInv, TrackerTypes, DocumentOf, Tracker!Document, Tracker!DocumentCells
      <4>3. file[DocumentOf(s)] # None => file[DocumentOf(s)].run # s
        BY <2>1, <3>2, <4>2 DEF RunsInv, FileNames, Stays, Written
      <4> QED
        BY <4>1, <4>3
    <3> QED
      BY <1>5, <2>1, <2>2, <3>1, <3>2
  <2>4. \A i : DeletedAfter(s, i) => DeletedAfter(s, i)'
    BY <1>1, <1>7, AppendKeeps
  <2>5. ASSUME NEW i \in DOMAIN chain', chain'[i].does = "track", chain'[i].entry.run = s
        PROVE  DeletedAfter(s, i)'
    <3>1. i \in DOMAIN chain /\ chain'[i] = chain[i]
      BY <1>7, <2>2, <2>5 DEF Appended
    <3> QED
      BY <2>3, <2>4, <2>5, <3>1
  <2> QED
    BY <2>3, <2>4, <2>5
<1> QED
  BY <1>8, <1>10, <1>11, <1>12, <1>14, <1>15, <1>16 DEF RunsInv

\* An execution that returns is deleted behind all that writes it.
LEMMA ReturnedKeeps ==
    ASSUME RunsInv, NEW r \in Runs, Tracker!Returned(r) PROVE RunsInv'
<1> DEFINE d == DocumentOf(r)
<1>1. PICK op : op = [does |-> "delete", document |-> d, cell |-> cellOf[r]]
  OBVIOUS
<1>2. /\ runs[r] \in {"sent", "tracked"}
      /\ UNCHANGED <<cellOf, index, file, reloaded, moved, removedServers>>
      /\ Tracker!Chained(op)
  BY <1>1 DEF Tracker!Returned, DocumentOf
<1>3. op \in Operations /\ op.does = "delete" /\ op.document = d /\ op.cell = cellOf[r]
  <2>1. cellOf[r] \in Tracker!DocumentCells
    BY <1>2 DEF RunsInv, TrackerTypes
  <2>2. d \in Documents
    BY <2>1 DEF DocumentOf, Tracker!Document, Tracker!DocumentCells
  <2> QED
    BY <1>1, <2>1, <2>2 DEF Operations
<1>4. Appended(op)
  BY <1>2, <1>3, ChainAppended
<1>5. \A s \in Runs : /\ DocumentOf(s)' = DocumentOf(s) /\ EntryOf(s)' = EntryOf(s)
                      /\ TrackOp(s)' = TrackOp(s)
  BY <1>2 DEF DocumentOf, EntryOf, TrackOp
<1>6. /\ runs' = [s \in Runs |-> runs'[s]]
      /\ runs'[r] = IF runs[r] = "sent" THEN "cancelled" ELSE "returned"
      /\ \A s \in Runs : s # r => runs'[s] = runs[s]
  BY DEF Tracker!Returned, RunsInv, TrackerTypes
<1>7. TrackerTypes'
  <2>1. runs' \in [Runs -> RunStates]
    BY <1>6 DEF RunsInv, TrackerTypes, RunStates
  <2>2. \A s \in Runs : runs'[s] # "idle" => cellOf'[s] \in Tracker!DocumentCells
    BY <1>2, <1>6 DEF RunsInv, TrackerTypes
  <2>3. chain' \in Seq(Operations)
    BY <1>4 DEF Appended
  <2> QED
    BY <1>2, <2>1, <2>2, <2>3 DEF RunsInv, TrackerTypes
<1>8. Named \subseteq Named'
  BY <1>2, <1>6 DEF Named
<1>9. OperationsName'
  <2>1. SUFFICES ASSUME NEW i \in DOMAIN chain', NEW o, o = chain'[i] PROVE Names(o)'
    BY DEF OperationsName, Names, Named, DocumentOf, EntryOf
  <2>2. CASE i \in DOMAIN chain
    <3>1. o = chain[i] /\ Names(o)
      BY <1>4, <2>1, <2>2 DEF Appended, RunsInv, OperationsName
    <3> QED
      BY <1>2, <1>5, <1>8, <3>1 DEF Names, Named
  <2>3. CASE i \notin DOMAIN chain
    <3>1. o = op
      BY <1>4, <2>1, <2>3 DEF Appended
    <3> QED
      BY <1>3, <3>1 DEF Names, DocumentOf
  <2> QED
    BY <2>2, <2>3
<1>10. FileNames'
  <2>1. \A s \in Runs : runs[s] \in Written =>
            runs'[s] \in Written
    BY <1>2, <1>6 DEF Written
  <2> QED
    BY <1>2, <1>5, <2>1 DEF RunsInv, FileNames
<1>11. OneBusy'
  <2>1. SUFFICES ASSUME NEW s \in Runs, NEW t \in Runs, s # t,
                        runs'[s] \in {"sent", "tracked", "left"},
                        runs'[t] \in {"sent", "tracked", "cancelled"},
                        DocumentOf(s) = DocumentOf(t)
                 PROVE  runs'[s] = "sent" /\ runs'[t] = "cancelled"
    BY <1>5 DEF OneBusy
  <2>2. s # r /\ runs'[s] = runs[s]
    BY <1>2, <1>6, <2>1
  <2>3. CASE t = r
    BY <1>2, <2>1, <2>2, <2>3 DEF RunsInv, OneBusy
  <2>4. CASE t # r
    <3>1. runs'[t] = runs[t]
      BY <1>6, <2>1, <2>4
    <3> QED
      BY <2>1, <2>2, <3>1 DEF RunsInv, OneBusy
  <2> QED
    BY <2>3, <2>4
<1>12. \A s \in Runs : s # r /\ runs[s] \in {"tracked", "left"} => op.document # DocumentOf(s)
  BY <1>2, <1>3 DEF RunsInv, OneBusy
<1>13. TrackedWritten'
  <2>1. SUFFICES ASSUME NEW s \in Runs, runs'[s] = "tracked", Stays(DocumentOf(s))
                 PROVE  LastTracks(s)' \/ InFile(s)'
    BY <1>2, <1>5 DEF TrackedWritten, Stays
  <2>2. s # r /\ runs[s] = "tracked"
    BY <1>2, <1>6, <2>1
  <2>3. LastTracks(s) \/ InFile(s)
    BY <2>1, <2>2 DEF RunsInv, TrackedWritten
  <2> QED
    BY <1>2, <1>4, <1>12, <2>2, <2>3, AppendKeeps
<1>14. LeftInFile'
  <2>1. SUFFICES ASSUME NEW s \in Runs, runs'[s] = "left"
                 PROVE  reloaded /\ (Stays(DocumentOf(s)) => InFile(s)')
    BY <1>2, <1>5 DEF LeftInFile, Stays
  <2>2. s # r /\ runs[s] = "left"
    BY <1>2, <1>6, <2>1
  <2>3. reloaded /\ (Stays(DocumentOf(s)) => InFile(s))
    BY <2>2 DEF RunsInv, LeftInFile
  <2> QED
    BY <1>2, <1>4, <1>12, <2>2, <2>3, AppendKeeps
<1>15. ReturnedDeleted'
  <2>1. SUFFICES ASSUME NEW s \in Runs, runs'[s] = "returned", Stays(DocumentOf(s))
        PROVE  /\ \A i \in DOMAIN chain' :
                      chain'[i].does = "track" /\ chain'[i].entry.run = s => DeletedAfter(s, i)'
               /\ file[DocumentOf(s)] # None /\ file[DocumentOf(s)].run = s => DeletedAfter(s, 0)'
    BY <1>2, <1>5 DEF ReturnedDeleted, Stays
  <2>2. \A i \in DOMAIN chain' : chain'[i].does = "track" => i \in DOMAIN chain /\ chain'[i] = chain[i]
    BY <1>3, <1>4 DEF Appended
  <2>3. CASE s = r
    <3>1. /\ \A i \in DOMAIN chain : DeletedAfter(r, i)'
          /\ DeletedAfter(r, 0)'
      BY <1>2, <1>3, <1>4 DEF Appended, DeletedAfter, Deletes
    <3> QED
      BY <2>2, <2>3, <3>1
  <2>4. CASE s # r
    <3>1. runs[s] = "returned"
      BY <1>6, <2>1, <2>4
    <3>2. /\ \A i \in DOMAIN chain :
                 chain[i].does = "track" /\ chain[i].entry.run = s => DeletedAfter(s, i)
          /\ file[DocumentOf(s)] # None /\ file[DocumentOf(s)].run = s => DeletedAfter(s, 0)
      BY <2>1, <3>1 DEF RunsInv, ReturnedDeleted
    <3>3. \A i : DeletedAfter(s, i) => DeletedAfter(s, i)'
      BY <1>2, <1>4, AppendKeeps
    <3> QED
      BY <2>2, <3>2, <3>3
  <2> QED
    BY <2>3, <2>4
<1> QED
  BY <1>7, <1>9, <1>10, <1>11, <1>13, <1>14, <1>15 DEF RunsInv

\* An execution that fails keeps it: nothing is deleted, and nothing has to be.
LEMMA FailedKeeps ==
    ASSUME RunsInv, NEW r \in Runs, Tracker!Failed(r) PROVE RunsInv'
<1>1. /\ runs[r] \in {"sent", "tracked"}
      /\ UNCHANGED <<cellOf, index, file, chain, reloaded, moved, removedServers>>
  BY DEF Tracker!Failed
<1>2. \A s \in Runs : /\ DocumentOf(s)' = DocumentOf(s) /\ EntryOf(s)' = EntryOf(s)
                      /\ TrackOp(s)' = TrackOp(s)
  BY <1>1 DEF DocumentOf, EntryOf, TrackOp
<1>3. /\ runs' = [s \in Runs |-> runs'[s]]
      /\ runs'[r] = IF runs[r] = "sent" THEN "cancelled" ELSE "failed"
      /\ \A s \in Runs : s # r => runs'[s] = runs[s]
  BY DEF Tracker!Failed, RunsInv, TrackerTypes
<1>4. TrackerTypes'
  <2>1. runs' \in [Runs -> RunStates]
    BY <1>3 DEF RunsInv, TrackerTypes, RunStates
  <2>2. \A s \in Runs : runs'[s] # "idle" => cellOf'[s] \in Tracker!DocumentCells
    BY <1>1, <1>3 DEF RunsInv, TrackerTypes
  <2> QED
    BY <1>1, <2>1, <2>2 DEF RunsInv, TrackerTypes
<1>5. Named \subseteq Named'
  BY <1>1, <1>3 DEF Named
<1>6. OperationsName'
  <2>1. SUFFICES ASSUME NEW i \in DOMAIN chain, NEW o, o = chain[i] PROVE Names(o)'
    BY <1>1 DEF OperationsName, Names, Named, DocumentOf, EntryOf
  <2>2. Names(o)
    BY <2>1 DEF RunsInv, OperationsName
  <2> QED
    BY <1>1, <1>2, <1>5, <2>2 DEF Names, Named
<1>7. FileNames'
  <2>1. \A s \in Runs : runs[s] \in Written => runs'[s] \in Written
    BY <1>1, <1>3 DEF Written
  <2> QED
    BY <1>1, <1>2, <2>1 DEF RunsInv, FileNames
<1>8. OneBusy'
  <2>1. SUFFICES ASSUME NEW s \in Runs, NEW t \in Runs, s # t,
                        runs'[s] \in {"sent", "tracked", "left"},
                        runs'[t] \in {"sent", "tracked", "cancelled"},
                        DocumentOf(s) = DocumentOf(t)
                 PROVE  runs'[s] = "sent" /\ runs'[t] = "cancelled"
    BY <1>2 DEF OneBusy
  <2>2. s # r /\ runs'[s] = runs[s]
    BY <1>1, <1>3, <2>1
  <2>3. CASE t = r
    BY <1>1, <2>1, <2>2, <2>3 DEF RunsInv, OneBusy
  <2>4. CASE t # r
    <3>1. runs'[t] = runs[t]
      BY <1>3, <2>1, <2>4
    <3> QED
      BY <2>1, <2>2, <3>1 DEF RunsInv, OneBusy
  <2> QED
    BY <2>3, <2>4
<1>9. \A s \in Runs : (LastTracks(s) => LastTracks(s)') /\ (InFile(s) => InFile(s)')
  BY <1>1, <1>2 DEF LastTracks, InFile, NothingFor
<1>10. \A s \in Runs : runs'[s] \in {"tracked", "left", "returned"} => runs'[s] = runs[s]
  BY <1>3
<1>11. TrackedWritten'
  BY <1>1, <1>2, <1>9, <1>10 DEF RunsInv, TrackedWritten, Stays
<1>12. LeftInFile'
  BY <1>1, <1>2, <1>9, <1>10 DEF RunsInv, LeftInFile, Stays
<1>13. ReturnedDeleted'
  BY <1>1, <1>2, <1>10 DEF RunsInv, ReturnedDeleted, Stays, DeletedAfter, Deletes
<1> QED
  BY <1>4, <1>6, <1>7, <1>8, <1>11, <1>12, <1>13 DEF RunsInv

\* Removing a server removes no entry of another notebook.
LEMMA ServerRemovedKeeps ==
    ASSUME RunsInv, NEW d \in Documents, Tracker!ServerRemoved(d) PROVE RunsInv'
<1>1. PICK op : op = [does |-> "remove", document |-> d]
  OBVIOUS
<1>2. /\ UNCHANGED <<runs, cellOf, index, file, reloaded, moved>>
      /\ removedServers' = removedServers \cup {d}
      /\ Tracker!Chained(op)
  BY <1>1 DEF Tracker!ServerRemoved
<1>3. op \in Operations /\ op.does = "remove" /\ op.document = d
  BY <1>1 DEF Operations
<1>4. Appended(op)
  BY <1>2, <1>3, ChainAppended
<1>5. \A s \in Runs : /\ DocumentOf(s)' = DocumentOf(s) /\ EntryOf(s)' = EntryOf(s)
                      /\ TrackOp(s)' = TrackOp(s)
  BY <1>2 DEF DocumentOf, EntryOf, TrackOp
<1>6. \A e : Stays(e)' => Stays(e) /\ e # d
  BY <1>2 DEF Stays
<1>7. TrackerTypes'
  BY <1>2, <1>4 DEF RunsInv, TrackerTypes, Appended
<1>8. OperationsName'
  <2>1. SUFFICES ASSUME NEW i \in DOMAIN chain', NEW o, o = chain'[i] PROVE Names(o)'
    BY DEF OperationsName, Names, Named, DocumentOf, EntryOf
  <2>2. CASE i \in DOMAIN chain
    <3>1. o = chain[i] /\ Names(o)
      BY <1>4, <2>1, <2>2 DEF Appended, RunsInv, OperationsName
    <3> QED
      BY <1>2, <1>5, <3>1 DEF Names, Named
  <2>3. CASE i \notin DOMAIN chain
    <3>1. o = op
      BY <1>4, <2>1, <2>3 DEF Appended
    <3> QED
      BY <1>3, <3>1 DEF Names
  <2> QED
    BY <2>2, <2>3
<1>9. FileNames'
  BY <1>2, <1>5 DEF RunsInv, FileNames
<1>10. OneBusy'
  BY <1>2, <1>5 DEF RunsInv, OneBusy
<1>11. TrackedWritten'
  <2>1. SUFFICES ASSUME NEW s \in Runs, runs[s] = "tracked", Stays(DocumentOf(s))'
                 PROVE  LastTracks(s)' \/ InFile(s)'
    BY <1>2 DEF TrackedWritten
  <2>2. Stays(DocumentOf(s)) /\ op.document # DocumentOf(s)
    BY <1>2, <1>3, <2>1 DEF Stays, DocumentOf
  <2>3. LastTracks(s) \/ InFile(s)
    BY <2>1, <2>2 DEF RunsInv, TrackedWritten
  <2> QED
    BY <1>2, <1>4, <2>2, <2>3, AppendKeeps
<1>12. LeftInFile'
  <2>1. SUFFICES ASSUME NEW s \in Runs, runs[s] = "left"
                 PROVE  reloaded /\ (Stays(DocumentOf(s))' => InFile(s)')
    BY <1>2 DEF LeftInFile
  <2>2. Stays(DocumentOf(s))' => Stays(DocumentOf(s)) /\ op.document # DocumentOf(s)
    BY <1>2, <1>3 DEF Stays, DocumentOf
  <2>3. reloaded /\ (Stays(DocumentOf(s)) => InFile(s))
    BY <2>1 DEF RunsInv, LeftInFile
  <2> QED
    BY <1>2, <1>4, <2>2, <2>3, AppendKeeps
<1>13. ReturnedDeleted'
  <2>1. SUFFICES ASSUME NEW s \in Runs, runs[s] = "returned", Stays(DocumentOf(s))'
        PROVE  /\ \A i \in DOMAIN chain' :
                      chain'[i].does = "track" /\ chain'[i].entry.run = s => DeletedAfter(s, i)'
               /\ file[DocumentOf(s)] # None /\ file[DocumentOf(s)].run = s => DeletedAfter(s, 0)'
    BY <1>2, <1>5 DEF ReturnedDeleted
  <2>2. Stays(DocumentOf(s))
    BY <1>2, <2>1 DEF Stays, DocumentOf
  <2>3. /\ \A i \in DOMAIN chain :
               chain[i].does = "track" /\ chain[i].entry.run = s => DeletedAfter(s, i)
        /\ file[DocumentOf(s)] # None /\ file[DocumentOf(s)].run = s => DeletedAfter(s, 0)
    BY <2>1, <2>2 DEF RunsInv, ReturnedDeleted
  <2>4. \A i : DeletedAfter(s, i) => DeletedAfter(s, i)'
    BY <1>2, <1>4, AppendKeeps
  <2>5. \A i \in DOMAIN chain' : chain'[i].does = "track" => i \in DOMAIN chain /\ chain'[i] = chain[i]
    BY <1>3, <1>4 DEF Appended
  <2> QED
    BY <2>3, <2>4, <2>5
<1> QED
  BY <1>7, <1>8, <1>9, <1>10, <1>11, <1>12, <1>13 DEF RunsInv

\* Moving the cells of a notebook changes no index of another one.
LEMMA CellsMoveKeeps ==
    ASSUME RunsInv, NEW d \in Documents, Tracker!CellsMove(d) PROVE RunsInv'
<1>1. /\ UNCHANGED <<runs, cellOf, file, chain, reloaded, removedServers>>
      /\ moved' = moved \cup {d}
      /\ index' = [c \in Tracker!DocumentCells |-> IF c[1] = d THEN 3 - index[c] ELSE index[c]]
  BY DEF Tracker!CellsMove
<1>2. \A s \in Runs : DocumentOf(s)' = DocumentOf(s)
  BY <1>1 DEF DocumentOf
<1>3. \A s \in Runs : runs[s] # "idle" /\ DocumentOf(s) # d =>
          EntryOf(s)' = EntryOf(s) /\ TrackOp(s)' = TrackOp(s)
  BY <1>1 DEF RunsInv, TrackerTypes, EntryOf, TrackOp, DocumentOf, Tracker!Document
<1>4. \A e : Stays(e)' => Stays(e) /\ e # d
  BY <1>1 DEF Stays
<1>5. TrackerTypes'
  BY <1>1 DEF RunsInv, TrackerTypes
<1>6. OperationsName'
  <2>1. SUFFICES ASSUME NEW i \in DOMAIN chain, NEW o, o = chain[i] PROVE Names(o)'
    BY <1>1 DEF OperationsName, Names, Named, DocumentOf, EntryOf
  <2>2. Names(o) /\ Named' = Named
    BY <1>1, <2>1 DEF RunsInv, OperationsName, Named
  <2> QED
    BY <1>1, <1>2, <1>3, <2>2 DEF Names, Named
<1>7. FileNames'
  <2>1. SUFFICES ASSUME NEW e \in Documents, NEW x, x = file[e], x # None, e \notin moved, e # d
                 PROVE  /\ x.run \in Runs /\ runs[x.run] \in Written
                        /\ DocumentOf(x.run)' = e /\ x = EntryOf(x.run)'
    BY <1>1, <1>2 DEF FileNames
  <2>2. x.run \in Runs /\ runs[x.run] \in Written /\ DocumentOf(x.run) = e /\ x = EntryOf(x.run)
    BY <2>1 DEF RunsInv, FileNames
  <2>3. runs[x.run] # "idle"
    BY <2>2 DEF Written
  <2> QED
    BY <1>2, <1>3, <2>1, <2>2, <2>3
<1>8. OneBusy'
  BY <1>1, <1>2 DEF RunsInv, OneBusy
<1>9. \A s \in Runs : runs[s] # "idle" /\ DocumentOf(s) # d =>
          (LastTracks(s) => LastTracks(s)') /\ (InFile(s) => InFile(s)')
  BY <1>1, <1>2, <1>3 DEF LastTracks, InFile, NothingFor
<1>10. \A s \in Runs : Stays(DocumentOf(s))' => Stays(DocumentOf(s)) /\ DocumentOf(s) # d
  BY <1>1 DEF Stays, DocumentOf
<1>11. TrackedWritten'
  BY <1>1, <1>9, <1>10 DEF RunsInv, TrackedWritten
<1>12. LeftInFile'
  BY <1>1, <1>9, <1>10 DEF RunsInv, LeftInFile
<1>13. ReturnedDeleted'
  BY <1>1, <1>2, <1>10 DEF RunsInv, ReturnedDeleted, DeletedAfter, Deletes
<1> QED
  BY <1>5, <1>6, <1>7, <1>8, <1>11, <1>12, <1>13 DEF RunsInv

\* After a reload the executions that go on are those of the file.
LEMMA ReloadKeeps ==
    ASSUME RunsInv, Tracker!Reload PROVE RunsInv'
<1>1. /\ UNCHANGED <<cellOf, index, file, moved, removedServers>>
      /\ reloaded' = TRUE /\ chain' = <<>> /\ DOMAIN chain' = {}
  BY DEF Tracker!Reload
<1>2. \A s \in Runs : DocumentOf(s)' = DocumentOf(s) /\ EntryOf(s)' = EntryOf(s)
  BY <1>1 DEF DocumentOf, EntryOf
<1>3. /\ ~reloaded /\ runs' = [s \in Runs |-> runs'[s]]
      /\ \A s \in Runs :
             \/ runs[s] \in {"sent", "cancelled"} /\ runs'[s] = "returned"
             \/ runs[s] \in {"tracked", "returned"} /\ runs'[s] = "returned" /\ ~Tracker!Holds(s)
             \/ runs[s] = "tracked" /\ runs'[s] = "left" /\ Tracker!Holds(s)
             \/ runs[s] = "returned" /\ runs'[s] = "kept"
             \/ runs[s] \notin {"sent", "cancelled", "tracked", "returned"} /\ runs'[s] = runs[s]
  BY DEF Tracker!Reload
<1>4. TrackerTypes'
  <2>1. runs' \in [Runs -> RunStates]
    BY <1>3 DEF RunsInv, TrackerTypes, RunStates
  <2>2. \A s \in Runs : runs'[s] # "idle" => cellOf'[s] \in Tracker!DocumentCells
    BY <1>1, <1>3 DEF RunsInv, TrackerTypes
  <2>3. chain' \in Seq(Operations)
    BY <1>1
  <2> QED
    BY <1>1, <2>1, <2>2, <2>3 DEF RunsInv, TrackerTypes
<1>5. OperationsName'
  BY <1>1 DEF OperationsName
<1>6. FileNames'
  <2>1. \A s \in Runs : runs[s] \in Written =>
            runs'[s] \in Written
    BY <1>3 DEF Written
  <2> QED
    BY <1>1, <1>2, <2>1 DEF RunsInv, FileNames
<1>7. \A s \in Runs : runs'[s] \notin {"sent", "tracked", "cancelled"}
  BY <1>3
<1>8. OneBusy' /\ TrackedWritten'
  BY <1>7 DEF OneBusy, TrackedWritten
<1>9. ASSUME NEW s \in Runs, runs[s] # "idle", Stays(DocumentOf(s))
      PROVE  /\ Tracker!Holds(s) => file[DocumentOf(s)] = EntryOf(s)
             /\ ~Tracker!Holds(s) => file[DocumentOf(s)] = None \/ file[DocumentOf(s)].run # s
             /\ runs[s] \in {"sent", "cancelled"} =>
                    file[DocumentOf(s)] = None \/ file[DocumentOf(s)].run # s
  <2>1. DocumentOf(s) \in Documents
    BY <1>9 DEF RunsInv, TrackerTypes, DocumentOf, Tracker!Document, Tracker!DocumentCells
  <2>2. PICK e : e = file[DocumentOf(s)]
    OBVIOUS
  <2>3. Tracker!Holds(s) <=> e # None /\ e.run = s
    BY <2>2 DEF Tracker!Holds, DocumentOf
  <2>4. e # None => runs[e.run] \in Written /\ e = EntryOf(e.run)
    BY <1>9, <2>1, <2>2 DEF RunsInv, FileNames, Stays
  <2> QED
    BY <2>2, <2>3, <2>4 DEF Written
<1>10. LeftInFile'
  <2>1. SUFFICES ASSUME NEW s \in Runs, runs'[s] = "left", Stays(DocumentOf(s)) PROVE InFile(s)'
    BY <1>1, <1>2 DEF LeftInFile, Stays
  <2>2. runs[s] = "tracked" /\ Tracker!Holds(s)
    BY <1>3, <2>1 DEF RunsInv, LeftInFile
  <2>3. file[DocumentOf(s)] = EntryOf(s)
    BY <1>9, <2>1, <2>2
  <2> QED
    BY <1>1, <1>2, <2>3 DEF InFile, NothingFor
<1>11. ReturnedDeleted'
  <2>1. SUFFICES ASSUME NEW s \in Runs, runs'[s] = "returned", Stays(DocumentOf(s))
                 PROVE  file[DocumentOf(s)] = None \/ file[DocumentOf(s)].run # s
    BY <1>1, <1>2 DEF ReturnedDeleted, Stays
  <2>2. runs[s] \in {"sent", "cancelled"} \/ (runs[s] \in {"tracked", "returned"} /\ ~Tracker!Holds(s))
    BY <1>3, <2>1
  <2> QED
    BY <1>9, <2>1, <2>2
<1> QED
  BY <1>4, <1>5, <1>6, <1>8, <1>10, <1>11 DEF RunsInv

\* An operation writes what it says over what the file holds: it has read the file as it is.
LEMMA OperationWritesKeeps ==
    ASSUME RunsInv, ReadIsFile, Tracker!OperationWrites PROVE RunsInv'
<1>0. PICK op : op = Head(chain)
  OBVIOUS
<1>1. /\ chain # <<>> /\ read = file /\ chain' = Tail(chain)
      /\ UNCHANGED <<runs, cellOf, index, reloaded, moved, removedServers>>
      /\ file' = [file EXCEPT ![op.document] = Tracker!Entry(op)]
  BY <1>0 DEF Tracker!OperationWrites, ReadIsFile
<1>2. Dropped(op)
  BY <1>0, <1>1, ChainDropped
<1>3. /\ op.document \in Documents /\ op.does \in {"track", "delete", "remove"}
  BY <1>2 DEF Dropped, Operations
<1>4. PICK n \in Nat :
          /\ n > 0 /\ DOMAIN chain = 1..n /\ DOMAIN chain' = 1..(n - 1) /\ chain[1] = op
          /\ \A i \in 1..(n - 1) : chain'[i] = chain[i + 1]
  BY <1>2 DEF Dropped
<1>5. Names(op)
  BY <1>4 DEF RunsInv, OperationsName
<1>6. \A s \in Runs : /\ DocumentOf(s)' = DocumentOf(s) /\ EntryOf(s)' = EntryOf(s)
                      /\ TrackOp(s)' = TrackOp(s)
  BY <1>1 DEF DocumentOf, EntryOf, TrackOp
<1>7. \A d \in Documents : file'[d] = IF d = op.document THEN Tracker!Entry(op) ELSE file[d]
  BY <1>1, <1>3 DEF RunsInv, TrackerTypes
<1>8. /\ op.does = "track" => Tracker!Entry(op) = op.entry
      /\ op.does = "remove" => Tracker!Entry(op) = None
      /\ op.does = "delete" =>
             /\ Tracker!Entry(op) \in {None, file[op.document]}
             /\ file[op.document].index = index[op.cell] => Tracker!Entry(op) = None
  BY <1>1 DEF Tracker!Entry
<1>9. TrackerTypes'
  BY <1>1, <1>2 DEF RunsInv, TrackerTypes, Dropped
<1>10. OperationsName'
  <2>1. SUFFICES ASSUME NEW i \in DOMAIN chain', NEW o, o = chain'[i] PROVE Names(o)'
    BY DEF OperationsName, Names, Named, DocumentOf, EntryOf
  <2>2. i + 1 \in DOMAIN chain /\ o = chain[i + 1]
    BY <1>4, <2>1
  <2>3. Names(o)
    BY <2>2 DEF RunsInv, OperationsName
  <2> QED
    BY <1>1, <1>6, <2>3 DEF Names, Named
<1>11. FileNames'
  <2>1. SUFFICES ASSUME NEW d \in Documents, NEW e, e = file'[d], e # None, d \notin moved
        PROVE  /\ e.run \in Runs /\ runs[e.run] \in Written
               /\ DocumentOf(e.run) = d /\ e = EntryOf(e.run)
    BY <1>1, <1>6 DEF FileNames
  <2>2. CASE e = file[d]
    BY <2>1, <2>2 DEF RunsInv, FileNames
  <2>3. CASE e # file[d]
    <3>1. d = op.document /\ op.does = "track" /\ e = op.entry
      BY <1>3, <1>7, <1>8, <2>1, <2>3
    <3> QED
      BY <1>5, <2>1, <3>1 DEF Names, Named, Written
  <2> QED
    BY <2>2, <2>3
<1>12. OneBusy'
  BY <1>1, <1>6 DEF RunsInv, OneBusy
<1>13. \A s \in Runs : runs[s] # "idle" => DocumentOf(s) \in Documents
  BY DEF RunsInv, TrackerTypes, DocumentOf, Tracker!Document, Tracker!DocumentCells
<1>14. ASSUME NEW s \in Runs, runs[s] # "idle", InFile(s) PROVE InFile(s)'
  <2>1. DocumentOf(s) # op.document
    BY <1>4, <1>14 DEF InFile, NothingFor
  <2>2. file'[DocumentOf(s)] = EntryOf(s)
    BY <1>7, <1>13, <1>14, <2>1 DEF InFile
  <2>3. ASSUME NEW i \in DOMAIN chain' PROVE chain'[i].document # DocumentOf(s)
    <3>1. i + 1 \in DOMAIN chain /\ chain'[i] = chain[i + 1]
      BY <1>4, <2>3
    <3> QED
      BY <1>14, <3>1 DEF InFile, NothingFor
  <2> QED
    BY <1>6, <2>2, <2>3 DEF InFile, NothingFor
<1>15. ASSUME NEW s \in Runs, runs[s] # "idle", LastTracks(s) PROVE LastTracks(s)' \/ InFile(s)'
  <2>1. PICK i \in DOMAIN chain :
            /\ chain[i] = TrackOp(s)
            /\ \A j \in DOMAIN chain : j > i => chain[j].document # DocumentOf(s)
    BY <1>15 DEF LastTracks
  <2>2. \A j \in DOMAIN chain' : j > i - 1 => chain'[j].document # DocumentOf(s)
    BY <1>4, <2>1
  <2>3. CASE i = 1
    <3>1. op.does = "track" /\ op.document = DocumentOf(s) /\ op.entry = EntryOf(s)
      BY <1>4, <2>1, <2>3 DEF TrackOp
    <3>2. file'[DocumentOf(s)] = EntryOf(s)
      BY <1>3, <1>7, <1>8, <3>1
    <3>3. \A j \in DOMAIN chain' : chain'[j].document # DocumentOf(s)
      BY <1>4, <2>2, <2>3
    <3> QED
      BY <1>6, <3>2, <3>3 DEF InFile, NothingFor
  <2>4. CASE i # 1
    <3>1. i - 1 \in DOMAIN chain' /\ chain'[i - 1] = TrackOp(s)
      BY <1>4, <2>1, <2>4
    <3> QED
      BY <1>6, <2>2, <3>1 DEF LastTracks
  <2> QED
    BY <2>3, <2>4
<1>16. TrackedWritten'
  <2>1. SUFFICES ASSUME NEW s \in Runs, runs[s] = "tracked", Stays(DocumentOf(s))
                 PROVE  LastTracks(s)' \/ InFile(s)'
    BY <1>1, <1>6 DEF TrackedWritten, Stays
  <2>2. LastTracks(s) \/ InFile(s)
    BY <2>1 DEF RunsInv, TrackedWritten
  <2> QED
    BY <1>14, <1>15, <2>1, <2>2
<1>17. LeftInFile'
  <2>1. SUFFICES ASSUME NEW s \in Runs, runs[s] = "left"
                 PROVE  reloaded /\ (Stays(DocumentOf(s)) => InFile(s)')
    BY <1>1, <1>6 DEF LeftInFile, Stays
  <2>2. reloaded /\ (Stays(DocumentOf(s)) => InFile(s))
    BY <2>1 DEF RunsInv, LeftInFile
  <2> QED
    BY <1>14, <2>1, <2>2
<1>18. ReturnedDeleted'
  <2>1. SUFFICES ASSUME NEW s \in Runs, runs[s] = "returned", Stays(DocumentOf(s))
        PROVE  /\ \A i \in DOMAIN chain' :
                      chain'[i].does = "track" /\ chain'[i].entry.run = s => DeletedAfter(s, i)'
               /\ file'[DocumentOf(s)] # None /\ file'[DocumentOf(s)].run = s => DeletedAfter(s, 0)'
    BY <1>1, <1>6 DEF ReturnedDeleted, Stays
  <2>2. /\ \A i \in DOMAIN chain :
               chain[i].does = "track" /\ chain[i].entry.run = s => DeletedAfter(s, i)
        /\ file[DocumentOf(s)] # None /\ file[DocumentOf(s)].run = s => DeletedAfter(s, 0)
    BY <2>1 DEF RunsInv, ReturnedDeleted
  <2>3. ASSUME NEW i \in Nat, DeletedAfter(s, i + 1) PROVE DeletedAfter(s, i)'
    <3>1. PICK j \in DOMAIN chain : j > i + 1 /\ Deletes(chain[j], s)
      BY <2>3 DEF DeletedAfter
    <3>2. j - 1 \in DOMAIN chain' /\ j - 1 > i /\ chain'[j - 1] = chain[j]
      BY <1>4, <3>1
    <3> QED
      BY <1>1, <3>1, <3>2 DEF DeletedAfter, Deletes
  <2>4. ASSUME NEW i \in DOMAIN chain', chain'[i].does = "track", chain'[i].entry.run = s
        PROVE  DeletedAfter(s, i)'
    <3>1. i \in Nat /\ i + 1 \in DOMAIN chain /\ chain'[i] = chain[i + 1]
      BY <1>4, <2>4
    <3> QED
      BY <2>2, <2>3, <2>4, <3>1
  <2>5. ASSUME NEW e, e = file'[DocumentOf(s)], e # None, e.run = s PROVE DeletedAfter(s, 0)'
    <3>1. DocumentOf(s) \in Documents
      BY <1>13, <2>1
    <3>2. CASE DocumentOf(s) = op.document /\ op.does = "track"
      <4>1. op.entry.run = s
        BY <1>7, <1>8, <2>5, <3>1, <3>2
      <4>2. DeletedAfter(s, 1)
        BY <1>4, <2>2, <3>2, <4>1
      <4> QED
        BY <2>3, <4>2
    <3>3. CASE ~(DocumentOf(s) = op.document /\ op.does = "track")
      <4>1. e = file[DocumentOf(s)]
        BY <1>3, <1>7, <1>8, <2>5, <3>1, <3>3
      <4>2. PICK j \in DOMAIN chain : j > 0 /\ Deletes(chain[j], s)
        BY <2>2, <2>5, <4>1 DEF DeletedAfter
      <4>3. ~Deletes(op, s)
        <5>1. SUFFICES ASSUME op.does = "delete", op.cell = cellOf[s] PROVE FALSE
          BY DEF Deletes
        <5>2. op.document = DocumentOf(s)
          BY <1>5, <5>1 DEF Names, DocumentOf
        <5>3. e = EntryOf(s)
          BY <2>1, <2>5, <3>1, <4>1 DEF RunsInv, FileNames, Stays
        <5>4. e.index = index[op.cell]
          BY <5>1, <5>3 DEF EntryOf
        <5> QED
          BY <1>7, <1>8, <2>5, <3>1, <4>1, <5>1, <5>2, <5>4
      <4>4. j # 1
        BY <1>4, <4>2, <4>3
      <4>5. DeletedAfter(s, 0 + 1)
        BY <1>4, <4>2, <4>4 DEF DeletedAfter
      <4> QED
        BY <2>3, <4>5
    <3> QED
      BY <3>2, <3>3
  <2> QED
    BY <2>4, <2>5
<1> QED
  BY <1>9, <1>10, <1>11, <1>12, <1>16, <1>17, <1>18 DEF RunsInv

\* Every step keeps the invariant.
LEMMA TrackerInvNext == TrackerInv /\ [Tracker!Next]_trackerVars => TrackerInv'
<1> SUFFICES ASSUME TrackerInv, [Tracker!Next]_trackerVars PROVE TrackerInv'
  OBVIOUS
<1>0. RunsInv /\ ReadIsFile /\ StaleIsFile
  BY DEF TrackerInv
<1>1. ASSUME NEW r \in Runs, NEW cell \in Tracker!DocumentCells, Tracker!Execute(r, cell)
      PROVE  TrackerInv'
  <2>1. ReadIsFile' /\ StaleIsFile'
    BY <1>0, <1>1 DEF Tracker!Execute, ReadIsFile, StaleIsFile
  <2> QED
    BY <1>0, <1>1, <2>1, ExecuteKeeps DEF TrackerInv
<1>2. ASSUME NEW op, chain' = Append(chain, op), UNCHANGED <<read, file, staleState, overtaken>>
      PROVE  ReadIsFile' /\ StaleIsFile'
  <2>1. chain' # <<>>
    <3>1. chain \in Seq(Operations)
      BY <1>0 DEF RunsInv, TrackerTypes
    <3>2. Len(chain) \in Nat /\ DOMAIN chain' = 1..(Len(chain) + 1)
      BY <1>2, <3>1
    <3> QED
      BY <3>2
  <2> QED
    BY <1>0, <1>2, <2>1 DEF ReadIsFile, StaleIsFile
<1>3. ASSUME NEW r \in Runs, Tracker!Announced(r) PROVE TrackerInv'
  <2>1. ReadIsFile' /\ StaleIsFile'
    BY <1>2, <1>3 DEF Tracker!Announced, Tracker!Chained
  <2> QED
    BY <1>0, <1>3, <2>1, AnnouncedKeeps DEF TrackerInv
<1>4. ASSUME NEW r \in Runs, Tracker!Returned(r) PROVE TrackerInv'
  <2>1. ReadIsFile' /\ StaleIsFile'
    BY <1>2, <1>4 DEF Tracker!Returned, Tracker!Chained
  <2> QED
    BY <1>0, <1>4, <2>1, ReturnedKeeps DEF TrackerInv
<1>5. ASSUME NEW d \in Documents, Tracker!ServerRemoved(d) PROVE TrackerInv'
  <2>1. ReadIsFile' /\ StaleIsFile'
    BY <1>2, <1>5 DEF Tracker!ServerRemoved, Tracker!Chained
  <2> QED
    BY <1>0, <1>5, <2>1, ServerRemovedKeeps DEF TrackerInv
<1>6. ASSUME NEW d \in Documents, Tracker!CellsMove(d) PROVE TrackerInv'
  <2>1. ReadIsFile' /\ StaleIsFile'
    BY <1>0, <1>6 DEF Tracker!CellsMove, ReadIsFile, StaleIsFile
  <2> QED
    BY <1>0, <1>6, <2>1, CellsMoveKeeps DEF TrackerInv
<1>7. ASSUME NEW d \in Documents, Tracker!Recalls(d) PROVE TrackerInv'
  <2>1. ReadIsFile' /\ StaleIsFile'
    BY <1>0, <1>7 DEF Tracker!Recalls, ReadIsFile, StaleIsFile
  <2> QED
    BY <1>0, <1>7, <2>1, RunsInvUnchanged DEF TrackerInv, Tracker!Recalls
<1>8. CASE Tracker!OperationReads
  <2>1. ReadIsFile' /\ StaleIsFile'
    BY <1>0, <1>8 DEF Tracker!OperationReads, ReadIsFile, StaleIsFile
  <2> QED
    BY <1>0, <1>8, <2>1, RunsInvUnchanged DEF TrackerInv, Tracker!OperationReads
<1>9. CASE Tracker!OperationWrites
  <2>1. ReadIsFile'
    BY <1>9 DEF Tracker!OperationWrites, ReadIsFile
  <2>2. StaleIsFile'
    BY <1>0, <1>9 DEF Tracker!OperationWrites, ReadIsFile, StaleIsFile
  <2> QED
    BY <1>0, <1>9, <2>1, <2>2, OperationWritesKeeps DEF TrackerInv
<1>10. CASE Tracker!Recalled
  <2>1. ReadIsFile' /\ StaleIsFile'
    BY <1>0, <1>10 DEF Tracker!Recalled, ReadIsFile, StaleIsFile
  <2> QED
    BY <1>0, <1>10, <2>1, RunsInvUnchanged DEF TrackerInv, Tracker!Recalled
<1>11. CASE Tracker!Reload
  <2>1. ReadIsFile' /\ StaleIsFile'
    BY <1>11 DEF Tracker!Reload, ReadIsFile, StaleIsFile, Tracker!NoEntries
  <2> QED
    BY <1>0, <1>11, <2>1, ReloadKeeps DEF TrackerInv
<1>12. ASSUME NEW r \in Runs, Tracker!Failed(r) PROVE TrackerInv'
  <2>1. ReadIsFile' /\ StaleIsFile'
    BY <1>0, <1>12 DEF Tracker!Failed, ReadIsFile, StaleIsFile
  <2> QED
    BY <1>0, <1>12, <2>1, FailedKeeps DEF TrackerInv
<1>13. CASE UNCHANGED trackerVars
  <2>1. ReadIsFile' /\ StaleIsFile'
    BY <1>0, <1>13 DEF trackerVars, ReadIsFile, StaleIsFile
  <2> QED
    BY <1>0, <1>13, <2>1, RunsInvUnchanged DEF TrackerInv, trackerVars
<1> QED
  BY <1>1, <1>3, <1>4, <1>5, <1>6, <1>7, <1>8, <1>9, <1>10, <1>11, <1>12, <1>13 DEF Tracker!Next

\* When the chain is empty, what the file holds is what is known of each notebook.
LEMMA KnownAtTheEnd == TrackerInv => Tracker!ExecutionKnown
<1> SUFFICES ASSUME TrackerInv, chain = <<>>, NEW r \in Runs, cellOf[r] # None, ~overtaken,
                    DocumentOf(r) \notin moved \cup removedServers
    PROVE  /\ runs[r] \in {"tracked", "left"} => Tracker!Known(DocumentOf(r)) = EntryOf(r)
           /\ runs[r] \in {"cancelled", "returned"} =>
                  (Tracker!Known(DocumentOf(r)) = None \/ Tracker!Known(DocumentOf(r)).run # r)
  BY DEF Tracker!ExecutionKnown, DocumentOf, EntryOf
<1>1. DOMAIN chain = {} /\ Stays(DocumentOf(r))
  BY DEF Stays
<1>2. runs[r] # "idle" => DocumentOf(r) \in Documents
  BY DEF TrackerInv, RunsInv, TrackerTypes, DocumentOf, Tracker!Document, Tracker!DocumentCells
<1>3. \A d \in Documents : Tracker!Known(d) = file[d]
  BY DEF TrackerInv, StaleIsFile, Tracker!Known
<1>4. runs[r] = "tracked" => InFile(r)
  BY <1>1 DEF TrackerInv, RunsInv, TrackedWritten, LastTracks
<1>5. runs[r] = "left" => InFile(r)
  BY <1>1 DEF TrackerInv, RunsInv, LeftInFile
<1>6. runs[r] \in {"tracked", "left"} => Tracker!Known(DocumentOf(r)) = EntryOf(r)
  BY <1>2, <1>3, <1>4, <1>5 DEF InFile
<1>7. ~DeletedAfter(r, 0)
  BY <1>1 DEF DeletedAfter
<1>8. runs[r] = "returned" => (file[DocumentOf(r)] = None \/ file[DocumentOf(r)].run # r)
  BY <1>1, <1>7 DEF TrackerInv, RunsInv, ReturnedDeleted
<1>9. runs[r] = "cancelled" => (file[DocumentOf(r)] = None \/ file[DocumentOf(r)].run # r)
  BY <1>1, <1>2 DEF TrackerInv, RunsInv, FileNames, Written, Stays
<1>10. runs[r] \in {"cancelled", "returned"} =>
           (Tracker!Known(DocumentOf(r)) = None \/ Tracker!Known(DocumentOf(r)).run # r)
  BY <1>2, <1>3, <1>8, <1>9
<1> QED
  BY <1>6, <1>10

-----------------------------------------------------------------------------
(* The kernels of notebooks: why the maps agree and no kernel is orphaned   *)

KernelPhases == {"live", "disposing", "disposed", "closed"}

\* TypeOK, and what a kernel is created with.
ProviderTypes == Provider!TypeOK /\ kernels \in Seq([notebook : Notebooks, connection : Connections])

\* Kernels are numbered as they are created.
LEMMA IdsAre ==
    ASSUME ProviderTypes
    PROVE  Len(kernels) \in Nat /\ Provider!Ids = 1..Len(kernels)
BY DEF ProviderTypes, Provider!Ids

\* The kernels of a notebook to dispose of.
LEMMA OldAre ==
    ASSUME ProviderTypes, NEW n \in Notebooks
    PROVE  /\ Provider!Old(n) \subseteq Provider!Ids
           /\ \A k \in Provider!Ids :
                 k \in Provider!Old(n) <=> byNotebook[n] = k /\ byNotebook[n] # None
BY DEF ProviderTypes, Provider!TypeOK, Provider!Old

\* Disposing of kernels leaves the others as they are, and none of those live.
LEMMA DisposingPhases ==
    ASSUME ProviderTypes, NEW ks \in SUBSET Provider!Ids, NEW gone \in Provider!Gone(ks),
           Provider!Disposing(ks, gone)
    PROVE  /\ phase' \in [Provider!Ids -> KernelPhases]
           /\ gone \subseteq Provider!Ids
           /\ \A k \in Provider!Ids : /\ k \in gone => phase'[k] = "disposed"
                                      /\ phase[k] = "live" /\ k \in ks \ gone => phase'[k] = "disposing"
                                      /\ phase[k] # "live" \/ k \notin ks => phase'[k] = phase[k]
BY DEF ProviderTypes, Provider!TypeOK, Provider!Gone, Provider!Disposing, KernelPhases

\* The listener of onDisposed only forgets.
LEMMA OnDisposedType ==
    ASSUME ProviderTypes, NEW map \in [Notebooks -> Provider!Ids \cup {None}],
           NEW ids \in SUBSET Provider!Ids,
           NEW waiting \in SUBSET Provider!Ids, NEW gone, Provider!OnDisposed(map, ids, waiting, gone)
    PROVE  byNotebook' \in [Notebooks -> Provider!Ids \cup {None}] /\ byId' \subseteq Provider!Ids
             /\ pending' \subseteq Provider!Ids
BY DEF Provider!OnDisposed, Provider!Unmapped

\* A kernel is added with a number of its own.
LEMMA ReplaceKernels ==
    ASSUME ProviderTypes, NEW n \in Notebooks, NEW c \in Connections, Provider!Replace(n, c)
    PROVE  /\ kernels' \in Seq([notebook : Notebooks, connection : Connections])
           /\ Provider!Ids' = Provider!Ids \cup {Len(kernels) + 1}
                /\ Len(kernels) + 1 \notin Provider!Ids
           /\ kernels'[Len(kernels) + 1].notebook = n
           /\ \A k \in Provider!Ids : kernels'[k] = kernels[k]
<1> DEFINE added == [notebook |-> n, connection |-> c]
<1>1. kernels' = Append(kernels, added) /\ added \in [notebook : Notebooks, connection : Connections]
  BY DEF Provider!Replace
<1>2. kernels \in Seq([notebook : Notebooks, connection : Connections])
  BY DEF ProviderTypes
<1> HIDE DEF added
<1>3. /\ kernels' \in Seq([notebook : Notebooks, connection : Connections])
      /\ Len(kernels') = Len(kernels) + 1 /\ DOMAIN kernels' = 1..Len(kernels')
      /\ kernels'[Len(kernels) + 1] = added
      /\ \A k \in 1..Len(kernels) : kernels'[k] = kernels[k]
  BY <1>1, <1>2
<1>4. added.notebook = n
  BY DEF added
<1> QED
  BY <1>3, <1>4, IdsAre DEF Provider!Ids

\* The phases of the kernels when one is replaced by a new one.
LEMMA ReplacePhases ==
    ASSUME ProviderTypes, NEW n \in Notebooks, NEW c \in Connections, Provider!Replace(n, c)
    PROVE  /\ phase' \in [Provider!Ids \cup {Len(kernels) + 1} -> KernelPhases]
           /\ phase'[Len(kernels) + 1] = "live"
           /\ \A k \in Provider!Ids :
                 /\ phase'[k] = "live" => phase[k] = "live" /\ k \notin Provider!Old(n)
                 /\ k \notin Provider!Old(n) => phase'[k] = phase[k]
                 /\ phase[k] = "closed" => phase'[k] = "closed"
<1> DEFINE new == Len(kernels) + 1
<1>1. Len(kernels) \in Nat /\ Provider!Ids = 1..Len(kernels) /\ 1..new = Provider!Ids \cup {new}
        /\ new \notin Provider!Ids
  BY IdsAre
<1>2. PICK gone \in Provider!Gone(Provider!Old(n)) :
         phase' = [k \in 1..new |->
                     CASE k = new -> "live"
                       [] k \in Provider!Old(n) /\ phase[k] = "live" ->
                             IF k \in gone THEN "disposed" ELSE "disposing"
                       [] OTHER -> phase[k]]
  BY DEF Provider!Replace
<1>3. new \notin Provider!Old(n)
  BY <1>1, OldAre
<1>4. phase \in [Provider!Ids -> KernelPhases]
  BY DEF ProviderTypes, Provider!TypeOK, KernelPhases
<1> HIDE DEF new
<1>5. phase'[new] = "live"
  BY <1>1, <1>2, <1>3
<1>6. \A k \in Provider!Ids : phase'[k] = IF k \in Provider!Old(n) /\ phase[k] = "live"
                                   THEN IF k \in gone THEN "disposed" ELSE "disposing"
                                   ELSE phase[k]
  BY <1>1, <1>2
<1>7. phase' \in [Provider!Ids \cup {new} -> KernelPhases]
  BY <1>1, <1>2, <1>4, <1>5, <1>6 DEF KernelPhases
<1> QED
  BY <1>5, <1>6, <1>7 DEF new

\* Every action keeps the types.
LEMMA ProviderTypesNext ==
    ASSUME ProviderTypes, [Provider!Next]_providerVars
    PROVE  ProviderTypes'
<1> DEFINE KernelRecords == Seq([notebook : Notebooks, connection : Connections])
<1>0. Provider!TypeOK /\ kernels \in KernelRecords /\ phase \in [Provider!Ids -> KernelPhases]
  BY DEF ProviderTypes, Provider!TypeOK, KernelPhases
<1> HIDE DEF KernelRecords
<1>a. ASSUME UNCHANGED kernels, phase' \in [Provider!Ids -> KernelPhases], openNotebooks' \subseteq Notebooks,
             byNotebook' \in [Notebooks -> Provider!Ids \cup {None}],
             byId' \cup pending' \cup removed' \cup awaited' \subseteq Provider!Ids,
             registry' \in {"new", "awaiting", "returned"}
      PROVE  ProviderTypes'
  <2>1. Provider!Ids' = Provider!Ids
    BY <1>a DEF Provider!Ids
  <2> QED
    BY <1>0, <1>a, <2>1 DEF ProviderTypes, Provider!TypeOK, KernelPhases, KernelRecords
<1>1. ASSUME NEW n \in Notebooks, NEW c \in Connections, Provider!GetOrCreate(n, c) PROVE ProviderTypes'
  <2>1. Provider!Replace(n, c) /\ UNCHANGED <<openNotebooks, removed, registry, awaited>>
    BY <1>1 DEF Provider!GetOrCreate
  <2>2. /\ kernels' \in KernelRecords /\ Provider!Ids' = Provider!Ids \cup {Len(kernels) + 1}
        /\ phase' \in [Provider!Ids' -> KernelPhases]
    BY <2>1, ReplaceKernels, ReplacePhases DEF KernelRecords
  <2>3. byNotebook' \in [Notebooks -> Provider!Ids' \cup {None}] /\ byId' \subseteq Provider!Ids'
          /\ pending' \subseteq Provider!Ids'
    BY <1>0, <2>1, <2>2, OldAre DEF Provider!Replace, Provider!TypeOK
  <2> QED
    BY <1>0, <2>1, <2>2, <2>3 DEF ProviderTypes, Provider!TypeOK, KernelPhases, KernelRecords
<1>2. ASSUME NEW n \in Notebooks, Provider!NotebookClosed(n) PROVE ProviderTypes'
  <2>1. PICK gone \in Provider!Gone(Provider!Old(n)) :
           /\ Provider!Disposing(Provider!Old(n), gone)
           /\ Provider!OnDisposed([byNotebook EXCEPT ![n] = None], byId \ Provider!Old(n),
                                  pending \cup Provider!Old(n), gone)
    BY <1>2 DEF Provider!NotebookClosed, Provider!DisposeOldKernel
  <2>2. phase' \in [Provider!Ids -> KernelPhases]
    BY <2>1, OldAre, DisposingPhases
  <2>3. byNotebook' \in [Notebooks -> Provider!Ids \cup {None}] /\ byId' \subseteq Provider!Ids
          /\ pending' \subseteq Provider!Ids
    BY <1>0, <2>1, OldAre, OnDisposedType DEF Provider!TypeOK
  <2> QED
    BY <1>0, <1>2, <1>a, <2>2, <2>3 DEF Provider!NotebookClosed, Provider!TypeOK
<1>3. ASSUME NEW k \in Provider!Ids, Provider!DisposeKernel(k) PROVE ProviderTypes'
  <2>1. PICK gone \in Provider!Gone({k}) : Provider!Disposing({k}, gone)
               /\ Provider!OnDisposed(byNotebook, byId, pending, gone)
    BY <1>3 DEF Provider!DisposeKernel
  <2>2. phase' \in [Provider!Ids -> KernelPhases]
    BY <2>1, DisposingPhases
  <2>3. byNotebook' \in [Notebooks -> Provider!Ids \cup {None}] /\ byId' \subseteq Provider!Ids
          /\ pending' \subseteq Provider!Ids
    BY <1>0, <2>1, OnDisposedType DEF Provider!TypeOK
  <2> QED
    BY <1>0, <1>3, <1>a, <2>2, <2>3 DEF Provider!DisposeKernel, Provider!TypeOK
<1>4. ASSUME NEW k \in Provider!Ids, Provider!KernelDisposed(k) PROVE ProviderTypes'
  <2>1. byNotebook' \in [Notebooks -> Provider!Ids \cup {None}] /\ byId' \subseteq Provider!Ids
          /\ pending' \subseteq Provider!Ids
    BY <1>0, <1>4, OnDisposedType DEF Provider!KernelDisposed, Provider!TypeOK
  <2> QED
    BY <1>0, <1>4, <1>a, <2>1 DEF Provider!KernelDisposed, Provider!TypeOK, KernelPhases
<1>5. ASSUME NEW k \in Provider!Ids, Provider!KernelClosed(k) PROVE ProviderTypes'
  BY <1>0, <1>5, <1>a DEF Provider!KernelClosed, Provider!TypeOK, KernelPhases
<1>6. ASSUME Provider!ServerRemoved PROVE ProviderTypes'
  <2>1. PICK gone \in SUBSET Provider!Ids :
           /\ byNotebook' = Provider!Unmapped(byNotebook, gone) /\ byId' = byId \ gone
           /\ removed' = removed \cup gone
    BY <1>6 DEF Provider!ServerRemoved
  <2>2. byNotebook' \in [Notebooks -> Provider!Ids \cup {None}]
    BY <1>0, <2>1 DEF Provider!Unmapped, Provider!TypeOK
  <2> QED
    BY <1>0, <1>6, <1>a, <2>1, <2>2 DEF Provider!ServerRemoved, Provider!TypeOK
<1>7. ASSUME Provider!RegistryDispose PROVE ProviderTypes'
  <2>1. PICK gone \in Provider!Gone(Provider!Ids) : Provider!Disposing(Provider!Ids, gone)
               /\ Provider!OnDisposed(byNotebook, byId, {}, gone)
    BY <1>7 DEF Provider!RegistryDispose
  <2>2. phase' \in [Provider!Ids -> KernelPhases]
    BY <2>1, DisposingPhases
  <2>3. byNotebook' \in [Notebooks -> Provider!Ids \cup {None}] /\ byId' \subseteq Provider!Ids
          /\ pending' \subseteq Provider!Ids
    BY <1>0, <2>1, OnDisposedType DEF Provider!TypeOK
  <2> QED
    BY <1>0, <1>7, <1>a, <2>2, <2>3 DEF Provider!RegistryDispose, Provider!TypeOK
<1>8. ASSUME Provider!RegistryDisposed PROVE ProviderTypes'
  BY <1>0, <1>8, <1>a DEF Provider!RegistryDisposed, Provider!TypeOK
<1>9. ASSUME UNCHANGED providerVars PROVE ProviderTypes'
  BY <1>0, <1>9, <1>a DEF providerVars, Provider!TypeOK
<1> QED
  BY <1>1, <1>2, <1>3, <1>4, <1>5, <1>6, <1>7, <1>8, <1>9 DEF Provider!Next

\* A provider without kernels.
LEMMA ProviderTypesInit == Provider!Init => ProviderTypes
<1> SUFFICES ASSUME Provider!Init PROVE ProviderTypes
  OBVIOUS
<1>1. Provider!Ids = {} /\ kernels \in Seq([notebook : Notebooks, connection : Connections])
  BY DEF Provider!Init, Provider!Ids
<1>2. phase \in [Provider!Ids -> {"live", "disposing", "disposed", "closed"}]
  BY <1>1 DEF Provider!Init
<1> QED
  BY <1>1, <1>2 DEF Provider!Init, ProviderTypes, Provider!TypeOK

(* The maps *)

\* The kernels a map of notebooks holds.
InMap(map) == {map[n] : n \in Notebooks} \ {None}

\* The listener of onDisposed keeps the two maps equal.
LEMMA UnmappedHolds ==
    ASSUME NEW map, NEW gone, None \notin gone
    PROVE  /\ InMap(Provider!Unmapped(map, gone)) = InMap(map) \ gone
           /\ InMap(map) \ {k \in gone : \E n \in Notebooks : map[n] = k} = InMap(map) \ gone
           /\ \A n \in Notebooks : Provider!Unmapped(map, gone)[n] \in {map[n], None}
BY DEF InMap, Provider!Unmapped

\* Kernels being disposed of leave the maps when onDisposed is fired, and the kernels that
\* are left are live or disposing.
LEMMA MapsShrink ==
    ASSUME None \notin Nat, ProviderTypes, ProviderTypes', UNCHANGED kernels, Provider!MapsAgree,
           NEW map \in [Notebooks -> Provider!Ids \cup {None}], NEW ids \in SUBSET Provider!Ids,
           NEW waiting, NEW gone \in SUBSET Provider!Ids,
           ids = InMap(map), ids \subseteq byId,
           \A n \in Notebooks : map[n] \in {byNotebook[n], None},
           Provider!OnDisposed(map, ids, waiting, gone),
           \A k \in ids \ gone : phase'[k] \in {"live", "disposing"}
    PROVE  Provider!MapsAgree'
<1>1. None \notin gone /\ Provider!Ids' = Provider!Ids
  BY IdsAre DEF Provider!Ids
<1>2. byNotebook' = Provider!Unmapped(map, gone) /\ byId' = ids \ gone
  BY <1>1, UnmappedHolds DEF Provider!OnDisposed
<1>3. byId' = InMap(byNotebook')
  BY <1>1, <1>2, UnmappedHolds
<1>4. \A n \in Notebooks : byNotebook'[n] \in {byNotebook[n], None}
  BY <1>1, <1>2, UnmappedHolds
<1>5. \A k \in byId' : phase'[k] \in {"live", "disposing"}
  BY <1>2
<1>6. \A n \in Notebooks : byNotebook'[n] # None => kernels'[byNotebook'[n]].notebook = n
  BY <1>4 DEF Provider!MapsAgree
<1> QED
  BY <1>3, <1>5, <1>6 DEF Provider!MapsAgree, InMap

\* No kernel is that of two notebooks.
LEMMA OneNotebook ==
    ASSUME Provider!MapsAgree, NEW n \in Notebooks, NEW m \in Notebooks, byNotebook[n] = byNotebook[m],
           byNotebook[n] # None
    PROVE  n = m
BY DEF Provider!MapsAgree

\* What disposeOldKernel leaves in the maps.
LEMMA WithoutOld ==
    ASSUME ProviderTypes, Provider!MapsAgree, NEW n \in Notebooks
    PROVE  /\ InMap([byNotebook EXCEPT ![n] = None]) = byId \ Provider!Old(n)
           /\ \A m \in Notebooks : [byNotebook EXCEPT ![n] = None][m] \in {byNotebook[m], None}
           /\ [byNotebook EXCEPT ![n] = None] \in [Notebooks -> Provider!Ids \cup {None}]
<1>1. byNotebook \in [Notebooks -> Provider!Ids \cup {None}] /\ byId = InMap(byNotebook)
  BY DEF ProviderTypes, Provider!TypeOK, Provider!MapsAgree, InMap
<1>2. \A m \in Notebooks : [byNotebook EXCEPT ![n] = None][m] = IF m = n THEN None ELSE byNotebook[m]
  BY <1>1
<1>3. \A m \in Notebooks : byNotebook[m] \in Provider!Old(n) => m = n
  BY <1>1, OneNotebook DEF Provider!Old
<1>4. InMap([byNotebook EXCEPT ![n] = None]) = byId \ Provider!Old(n)
  BY <1>1, <1>2, <1>3 DEF InMap, Provider!Old
<1> QED
  BY <1>1, <1>2, <1>4

\* The new kernel of a notebook takes the place of the old one in both maps.
LEMMA MapsReplace ==
    ASSUME None \notin Nat, ProviderTypes, ProviderTypes', Provider!MapsAgree, NEW n \in Notebooks,
           NEW c \in Connections,
           Provider!Replace(n, c)
    PROVE  Provider!MapsAgree'
<1> DEFINE new == Len(kernels) + 1
<1>1. new # None /\ new \notin Provider!Ids /\ kernels'[new].notebook = n /\ phase'[new] = "live"
      /\ \A k \in Provider!Ids : kernels'[k] = kernels[k]
           /\ (k \notin Provider!Old(n) => phase'[k] = phase[k])
  BY IdsAre, ReplaceKernels, ReplacePhases
<1>2. byNotebook' = [byNotebook EXCEPT ![n] = new] /\ byId' = (byId \ Provider!Old(n)) \cup {new}
  BY DEF Provider!Replace
<1> HIDE DEF new
<1>3. byNotebook \in [Notebooks -> Provider!Ids \cup {None}] /\ byId \subseteq Provider!Ids
  BY DEF ProviderTypes, Provider!TypeOK
<1>4. \A m \in Notebooks : byNotebook'[m] = IF m = n THEN new ELSE byNotebook[m]
  BY <1>2, <1>3
<1>5. \A m \in Notebooks : byNotebook[m] \in Provider!Old(n) => m = n
  BY OneNotebook DEF Provider!Old
<1>6. byId' = {byNotebook'[m] : m \in Notebooks} \ {None}
  <2>1. byId = {byNotebook[m] : m \in Notebooks} \ {None}
    BY DEF Provider!MapsAgree
  <2>2. \A k \in byId' : k # None /\ \E m \in Notebooks : byNotebook'[m] = k
    BY <1>1, <1>2, <1>4, <2>1 DEF Provider!Old
  <2>3. \A m \in Notebooks : byNotebook'[m] # None => byNotebook'[m] \in byId'
    BY <1>2, <1>4, <1>5, <2>1
  <2> QED
    BY <2>2, <2>3
<1>7. \A k \in byId' : phase'[k] \in {"live", "disposing"}
  BY <1>1, <1>2, <1>3 DEF Provider!MapsAgree
<1>8. \A m \in Notebooks : byNotebook'[m] # None => kernels'[byNotebook'[m]].notebook = m
  BY <1>1, <1>3, <1>4 DEF Provider!MapsAgree
<1> QED
  BY <1>6, <1>7, <1>8 DEF Provider!MapsAgree

\* Every action keeps the maps equal.
LEMMA MapsStep ==
    ASSUME None \notin Nat, ProviderTypes, Provider!MapsAgree, [Provider!Next]_providerVars
    PROVE  Provider!MapsAgree'
<1>0. /\ ProviderTypes' /\ byNotebook \in [Notebooks -> Provider!Ids \cup {None}]
           /\ byId \subseteq Provider!Ids
      /\ byId = InMap(byNotebook) /\ \A k \in byId : phase[k] \in {"live", "disposing"}
      /\ phase \in [Provider!Ids -> KernelPhases]
  BY ProviderTypesNext DEF ProviderTypes, Provider!TypeOK, KernelPhases, Provider!MapsAgree, InMap
<1>1. ASSUME NEW n \in Notebooks, NEW c \in Connections, Provider!GetOrCreate(n, c)
      PROVE  Provider!MapsAgree'
  BY <1>0, <1>1, MapsReplace DEF Provider!GetOrCreate
<1>2. ASSUME NEW n \in Notebooks, Provider!NotebookClosed(n) PROVE Provider!MapsAgree'
  <2>1. PICK gone \in Provider!Gone(Provider!Old(n)) :
           /\ Provider!Disposing(Provider!Old(n), gone)
           /\ Provider!OnDisposed([byNotebook EXCEPT ![n] = None], byId \ Provider!Old(n),
                                  pending \cup Provider!Old(n), gone)
    BY <1>2 DEF Provider!NotebookClosed, Provider!DisposeOldKernel
  <2>2. gone \subseteq Provider!Ids /\ \A k \in byId \ Provider!Old(n) : phase'[k] = phase[k]
    BY <1>0, <2>1, OldAre, DisposingPhases
  <2>3. PICK map \in [Notebooks -> Provider!Ids \cup {None}] :
           /\ map = [byNotebook EXCEPT ![n] = None] /\ InMap(map) = byId \ Provider!Old(n)
           /\ \A m \in Notebooks : map[m] \in {byNotebook[m], None}
    BY <1>0, WithoutOld
  <2>4. Provider!OnDisposed(map, byId \ Provider!Old(n), pending \cup Provider!Old(n), gone)
    BY <2>1, <2>3
  <2>5. \A k \in (byId \ Provider!Old(n)) \ gone : phase'[k] \in {"live", "disposing"}
    BY <1>0, <2>2
  <2>6. UNCHANGED kernels /\ byId \ Provider!Old(n) \in SUBSET Provider!Ids
    BY <1>0, <1>2 DEF Provider!NotebookClosed
  <2> QED
    BY <1>0, <2>2, <2>3, <2>4, <2>5, <2>6, MapsShrink
<1>3. ASSUME NEW k \in Provider!Ids, Provider!DisposeKernel(k) PROVE Provider!MapsAgree'
  <2>1. PICK gone \in Provider!Gone({k}) : Provider!Disposing({k}, gone)
               /\ Provider!OnDisposed(byNotebook, byId, pending, gone)
    BY <1>3 DEF Provider!DisposeKernel
  <2>2. gone \subseteq Provider!Ids /\ \A j \in byId \ gone : phase'[j] \in {"live", "disposing"}
    BY <1>0, <2>1, DisposingPhases
  <2> QED
    BY <1>0, <1>3, <2>1, <2>2, MapsShrink DEF Provider!DisposeKernel
<1>4. ASSUME NEW k \in Provider!Ids, Provider!KernelDisposed(k) PROVE Provider!MapsAgree'
  <2>1. \A j \in byId \ {k} : phase'[j] \in {"live", "disposing"}
    BY <1>0, <1>4 DEF Provider!KernelDisposed
  <2> QED
    BY <1>0, <1>4, <2>1, MapsShrink DEF Provider!KernelDisposed
<1>5. ASSUME NEW k \in Provider!Ids, Provider!KernelClosed(k) PROVE Provider!MapsAgree'
  <2>1. k \notin byId /\ phase' = [phase EXCEPT ![k] = "closed"]
          /\ UNCHANGED <<kernels, byNotebook, byId>>
    BY <1>0, <1>5 DEF Provider!KernelClosed
  <2>2. \A j \in byId : phase'[j] = phase[j]
    BY <1>0, <2>1
  <2> QED
    BY <1>0, <2>1, <2>2 DEF Provider!MapsAgree
<1>6. ASSUME Provider!ServerRemoved PROVE Provider!MapsAgree'
  <2>1. PICK gone \in SUBSET Provider!Ids :
           byNotebook' = Provider!Unmapped(byNotebook, gone) /\ byId' = byId \ gone
    BY <1>6 DEF Provider!ServerRemoved
  <2>2. None \notin gone
    BY IdsAre
  <2>3. byId' = InMap(byNotebook')
    BY <1>0, <2>1, <2>2, UnmappedHolds
  <2>4. \A n \in Notebooks : byNotebook'[n] \in {byNotebook[n], None}
    BY <2>1, <2>2, UnmappedHolds
  <2> QED
    BY <1>0, <1>6, <2>1, <2>3, <2>4 DEF Provider!ServerRemoved, Provider!MapsAgree, InMap
<1>7. ASSUME Provider!RegistryDispose PROVE Provider!MapsAgree'
  <2>1. PICK gone \in Provider!Gone(Provider!Ids) : Provider!Disposing(Provider!Ids, gone)
               /\ Provider!OnDisposed(byNotebook, byId, {}, gone)
    BY <1>7 DEF Provider!RegistryDispose
  <2>2. gone \subseteq Provider!Ids /\ \A j \in byId \ gone : phase'[j] \in {"live", "disposing"}
    BY <1>0, <2>1, DisposingPhases
  <2> QED
    BY <1>0, <1>7, <2>1, <2>2, MapsShrink DEF Provider!RegistryDispose
<1>8. ASSUME Provider!RegistryDisposed \/ UNCHANGED providerVars PROVE Provider!MapsAgree'
  BY <1>8 DEF Provider!RegistryDisposed, providerVars, Provider!MapsAgree
<1> QED
  BY <1>1, <1>2, <1>3, <1>4, <1>5, <1>6, <1>7, <1>8 DEF Provider!Next

(* No kernel is orphaned *)

\* A step without a new kernel orphans none when a kernel that stays live keeps its notebook,
\* or is removed with its server.
LEMMA OrphanFrame ==
    ASSUME Provider!NoOrphan, ProviderTypes, UNCHANGED kernels, removed \subseteq removed',
           \A k \in Provider!Ids : phase'[k] = "live" => phase[k] = "live",
           \A k \in Provider!Ids : phase'[k] = "live" /\ byNotebook[kernels[k].notebook] = k
                             /\ kernels[k].notebook \in openNotebooks =>
              \/ k \in removed'
              \/ byNotebook'[kernels[k].notebook] = k /\ kernels[k].notebook \in openNotebooks'
    PROVE  Provider!NoOrphan'
BY DEF Provider!NoOrphan, Provider!Ids

\* A kernel that stays live stays in the maps.
LEMMA LiveStays ==
    ASSUME ProviderTypes, NEW map \in [Notebooks -> Provider!Ids \cup {None}], NEW ids, NEW waiting,
           NEW gone \in SUBSET Provider!Ids, Provider!OnDisposed(map, ids, waiting, gone),
           NEW n \in Notebooks, map[n] \notin gone
    PROVE  byNotebook'[n] = map[n]
BY DEF Provider!OnDisposed, Provider!Unmapped

\* A kernel belongs to a notebook.
LEMMA HasNotebook ==
    ASSUME ProviderTypes, NEW k \in Provider!Ids
    PROVE  kernels[k].notebook \in Notebooks
<1> DEFINE KernelRecords == [notebook : Notebooks, connection : Connections]
<1>1. kernels \in Seq(KernelRecords) /\ k \in DOMAIN kernels
  BY DEF ProviderTypes, Provider!Ids
<1> HIDE DEF KernelRecords
<1>2. kernels[k] \in KernelRecords
  BY <1>1
<1> QED
  BY <1>2 DEF KernelRecords

\* The kernel that is replaced is disposed of, and the notebook of the new one is open.
LEMMA OrphanReplace ==
    ASSUME None \notin Nat, ProviderTypes, Provider!MapsAgree, Provider!NoOrphan,
           NEW n \in openNotebooks, NEW c \in Connections,
           Provider!Replace(n, c), UNCHANGED <<openNotebooks, removed>>
    PROVE  Provider!NoOrphan'
<1> DEFINE new == Len(kernels) + 1
<1>0. n \in Notebooks /\ byNotebook \in [Notebooks -> Provider!Ids \cup {None}]
  BY DEF ProviderTypes, Provider!TypeOK
<1>1. /\ Provider!Ids' = Provider!Ids \cup {new} /\ kernels'[new].notebook = n
      /\ \A k \in Provider!Ids : /\ kernels'[k] = kernels[k]
                                 /\ phase'[k] = "live" => phase[k] = "live" /\ k \notin Provider!Old(n)
  BY <1>0, ReplaceKernels, ReplacePhases
<1> HIDE DEF new
<1>2. byNotebook' = [byNotebook EXCEPT ![n] = new]
  BY DEF Provider!Replace, new
<1>3. byNotebook'[n] = new /\ \A m \in Notebooks : m # n => byNotebook'[m] = byNotebook[m]
  BY <1>0, <1>2
<1>4. ASSUME NEW k \in Provider!Ids', phase'[k] = "live"
      PROVE  \/ k \in removed'
             \/ byNotebook'[kernels'[k].notebook] = k /\ kernels'[k].notebook \in openNotebooks'
  <2>1. CASE k = new
    BY <1>1, <1>3, <2>1
  <2>2. CASE k \in Provider!Ids
    <3>1. phase[k] = "live" /\ k \notin Provider!Old(n) /\ kernels'[k] = kernels[k] /\ k # None
      BY <1>1, <1>4, <2>2, IdsAre
    <3>2. CASE k \in removed
      BY <3>2
    <3>3. CASE byNotebook[kernels[k].notebook] = k /\ kernels[k].notebook \in openNotebooks
      <4>1. kernels[k].notebook # n
        BY <3>1, <3>3 DEF Provider!Old
      <4> QED
        BY <1>3, <2>2, <3>1, <3>3, <4>1, HasNotebook
    <3> QED
      BY <2>2, <3>1, <3>2, <3>3 DEF Provider!NoOrphan
  <2> QED
    BY <1>1, <1>4, <2>1, <2>2
<1> QED
  BY <1>4 DEF Provider!NoOrphan

\* Every action keeps live kernels with their notebooks.
LEMMA OrphanStep ==
    ASSUME None \notin Nat, ProviderTypes, Provider!MapsAgree, Provider!NoOrphan,
           [Provider!Next]_providerVars
    PROVE  Provider!NoOrphan'
<1>0. /\ byNotebook \in [Notebooks -> Provider!Ids \cup {None}] /\ byId \subseteq Provider!Ids
           /\ openNotebooks \subseteq Notebooks
      /\ phase \in [Provider!Ids -> KernelPhases]
           /\ \A k \in Provider!Ids : kernels[k].notebook \in Notebooks /\ k # None
  BY HasNotebook, IdsAre DEF ProviderTypes, Provider!TypeOK, KernelPhases
<1>1. ASSUME NEW n \in Notebooks, NEW c \in Connections, Provider!GetOrCreate(n, c)
      PROVE  Provider!NoOrphan'
  BY <1>1, OrphanReplace DEF Provider!GetOrCreate
<1>2. ASSUME NEW n \in Notebooks, Provider!NotebookClosed(n) PROVE Provider!NoOrphan'
  <2>1. PICK gone \in Provider!Gone(Provider!Old(n)) :
           /\ Provider!Disposing(Provider!Old(n), gone)
           /\ Provider!OnDisposed([byNotebook EXCEPT ![n] = None], byId \ Provider!Old(n),
                                  pending \cup Provider!Old(n), gone)
    BY <1>2 DEF Provider!NotebookClosed, Provider!DisposeOldKernel
  <2>2. PICK map \in [Notebooks -> Provider!Ids \cup {None}] :
           /\ map = [byNotebook EXCEPT ![n] = None]
           /\ \A m \in Notebooks : m # n => map[m] = byNotebook[m]
    BY <1>0
  <2>3. Provider!OnDisposed(map, byId \ Provider!Old(n), pending \cup Provider!Old(n), gone)
    BY <2>1, <2>2
  <2>4. gone \subseteq Provider!Ids /\ \A k \in Provider!Ids :
           phase'[k] = "live" => phase[k] = "live" /\ k \notin gone \cup Provider!Old(n)
    BY <1>0, <2>1, OldAre, DisposingPhases, SMTT(30) DEF Provider!Gone
  <2>5. ASSUME NEW k \in Provider!Ids, phase'[k] = "live", byNotebook[kernels[k].notebook] = k,
               kernels[k].notebook \in openNotebooks
        PROVE  byNotebook'[kernels[k].notebook] = k /\ kernels[k].notebook \in openNotebooks'
    <3>1. kernels[k].notebook # n
      BY <1>0, <2>4, <2>5, OldAre
    <3>2. map[kernels[k].notebook] = k /\ k \notin gone
      BY <1>0, <2>2, <2>4, <2>5, <3>1
    <3>3. byNotebook'[kernels[k].notebook] = k
      BY <1>0, <2>3, <2>4, <3>2, LiveStays
    <3> QED
      BY <1>2, <2>5, <3>1, <3>3 DEF Provider!NotebookClosed
  <2> QED
    BY <1>2, <2>4, <2>5, OrphanFrame DEF Provider!NotebookClosed
<1>3. ASSUME NEW ks \in SUBSET Provider!Ids, NEW gone \in Provider!Gone(ks), NEW waiting,
             Provider!Disposing(ks, gone),
             Provider!OnDisposed(byNotebook, byId, waiting, gone),
             UNCHANGED <<kernels, openNotebooks, removed>>
      PROVE  Provider!NoOrphan'
  <2>1. gone \subseteq Provider!Ids
          /\ \A k \in Provider!Ids : phase'[k] = "live" => phase[k] = "live" /\ k \notin gone
    BY <1>0, <1>3, DisposingPhases
  <2>2. ASSUME NEW k \in Provider!Ids, phase'[k] = "live", byNotebook[kernels[k].notebook] = k
        PROVE  byNotebook'[kernels[k].notebook] = k
    BY <1>0, <1>3, <2>1, <2>2, LiveStays
  <2> QED
    BY <1>3, <2>1, <2>2, OrphanFrame
<1>4. ASSUME NEW k \in Provider!Ids, Provider!DisposeKernel(k) PROVE Provider!NoOrphan'
  BY <1>3, <1>4 DEF Provider!DisposeKernel
<1>5. ASSUME NEW k \in Provider!Ids, Provider!KernelDisposed(k) PROVE Provider!NoOrphan'
  <2>1. \A j \in Provider!Ids : phase'[j] = "live" => phase[j] = "live" /\ j # k
    BY <1>0, <1>5 DEF Provider!KernelDisposed
  <2>2. ASSUME NEW j \in Provider!Ids, phase'[j] = "live", byNotebook[kernels[j].notebook] = j
        PROVE  byNotebook'[kernels[j].notebook] = j
    <3>1. Provider!OnDisposed(byNotebook, byId, pending, {k})
            /\ byNotebook[kernels[j].notebook] \notin {k}
      BY <1>5, <2>1, <2>2 DEF Provider!KernelDisposed
    <3> QED
      BY <1>0, <2>2, <3>1, LiveStays
  <2> QED
    BY <1>5, <2>1, <2>2, OrphanFrame DEF Provider!KernelDisposed
<1>6. ASSUME NEW k \in Provider!Ids, Provider!KernelClosed(k) PROVE Provider!NoOrphan'
  BY <1>0, <1>6, OrphanFrame DEF Provider!KernelClosed
<1>7. ASSUME Provider!ServerRemoved PROVE Provider!NoOrphan'
  <2>1. PICK gone \in SUBSET Provider!Ids : byNotebook' = Provider!Unmapped(byNotebook, gone)
               /\ removed' = removed \cup gone
    BY <1>7 DEF Provider!ServerRemoved
  <2>2. ASSUME NEW k \in Provider!Ids, byNotebook[kernels[k].notebook] = k
        PROVE  k \in removed' \/ byNotebook'[kernels[k].notebook] = k
    BY <1>0, <2>1, <2>2 DEF Provider!Unmapped
  <2> QED
    BY <1>7, <2>1, <2>2, OrphanFrame DEF Provider!ServerRemoved
<1>8. ASSUME Provider!RegistryDispose PROVE Provider!NoOrphan'
  BY <1>3, <1>8 DEF Provider!RegistryDispose
<1>9. ASSUME Provider!RegistryDisposed \/ UNCHANGED providerVars PROVE Provider!NoOrphan'
  BY <1>9, OrphanFrame DEF Provider!RegistryDisposed, providerVars
<1> QED
  BY <1>1, <1>2, <1>4, <1>5, <1>6, <1>7, <1>8, <1>9 DEF Provider!Next

(* Deactivation *)

\* The registry awaits all kernels, as none is created after it was told to dispose of them.
DeactivationInv ==
    /\ registry # "new" => awaited = Provider!Ids
    /\ Provider!DeactivationWaits

\* Every action keeps that: a session that is closed stays closed.
LEMMA DeactivationInvNext ==
    ASSUME ProviderTypes, DeactivationInv, [Provider!Next]_providerVars
    PROVE  DeactivationInv'
<1>0. phase \in [Provider!Ids -> KernelPhases]
  BY DEF ProviderTypes, Provider!TypeOK, KernelPhases
<1>a. ASSUME UNCHANGED <<kernels, registry, awaited>>,
             \A k \in Provider!Ids : phase[k] = "closed" => phase'[k] = "closed"
      PROVE  DeactivationInv'
  BY <1>a DEF DeactivationInv, Provider!DeactivationWaits, Provider!Ids
<1>1. ASSUME NEW n \in Notebooks, NEW c \in Connections, Provider!GetOrCreate(n, c)
      PROVE  DeactivationInv'
  BY <1>1 DEF Provider!GetOrCreate, DeactivationInv, Provider!DeactivationWaits
<1>2. ASSUME NEW n \in Notebooks, Provider!NotebookClosed(n) PROVE DeactivationInv'
  <2>1. PICK gone \in Provider!Gone(Provider!Old(n)) : Provider!Disposing(Provider!Old(n), gone)
    BY <1>2 DEF Provider!NotebookClosed, Provider!DisposeOldKernel
  <2> QED
    BY <1>2, <1>a, <2>1, OldAre, DisposingPhases DEF Provider!NotebookClosed
<1>3. ASSUME NEW k \in Provider!Ids, Provider!DisposeKernel(k) PROVE DeactivationInv'
  BY <1>3, <1>a, DisposingPhases DEF Provider!DisposeKernel
<1>4. ASSUME NEW k \in Provider!Ids, Provider!KernelDisposed(k) \/ Provider!KernelClosed(k)
      PROVE  DeactivationInv'
  BY <1>0, <1>4, <1>a DEF Provider!KernelDisposed, Provider!KernelClosed
<1>5. ASSUME Provider!ServerRemoved \/ UNCHANGED providerVars PROVE DeactivationInv'
  BY <1>5, <1>a DEF Provider!ServerRemoved, providerVars
<1>6. ASSUME Provider!RegistryDispose PROVE DeactivationInv'
  BY <1>6 DEF Provider!RegistryDispose, DeactivationInv, Provider!DeactivationWaits, Provider!Ids
<1>7. ASSUME Provider!RegistryDisposed PROVE DeactivationInv'
  BY <1>7 DEF Provider!RegistryDisposed, DeactivationInv, Provider!DeactivationWaits, Provider!Ids
<1> QED
  BY <1>1, <1>2, <1>3, <1>4, <1>5, <1>6, <1>7 DEF Provider!Next

\* What the provider keeps in every step.
ProviderInv ==
    ProviderTypes /\ Provider!MapsAgree /\ Provider!NoOrphan /\ DeactivationInv

LEMMA ProviderInvInit == Provider!Init => ProviderInv
<1> SUFFICES ASSUME Provider!Init PROVE ProviderInv
  OBVIOUS
<1>1. Provider!MapsAgree /\ Provider!NoOrphan
  BY DEF Provider!Init, Provider!MapsAgree, Provider!NoOrphan, Provider!Ids
<1>2. DeactivationInv
  BY DEF Provider!Init, DeactivationInv, Provider!DeactivationWaits
<1> QED
  BY <1>1, <1>2, ProviderTypesInit DEF ProviderInv

LEMMA ProviderInvNext == ProviderInv /\ [Provider!Next]_providerVars => ProviderInv'
BY NoneAssumption, ProviderTypesNext, MapsStep, OrphanStep, DeactivationInvNext DEF ProviderInv

-----------------------------------------------------------------------------
(* The asynchronous events: why listeners see them in order, and nobody is missed *)

\* The operators of the library that the instance uses.
LEMMA EmitterOperators ==
    /\ \A s : Emitter!ToSet(s) = ToSet(s)
    /\ \A s, p : Emitter!RemoveAt(s, p) = RemoveAt(s, p)
BY DEF Emitter!ToSet, ToSet, Emitter!RemoveAt, RemoveAt

Entry == [listener : Listeners, event : Events]

\* The fields of the emitter, its histories, and which events were fired.
EmitterType ==
    /\ listeners \in Seq(Listeners) /\ IsInjective(listeners)
    /\ deliveryQueue \in Seq(Entry) /\ delivered \in Seq(Entry)
    /\ fire \in [Events -> {"new", "awaiting", "returned"}]
    /\ cancelled \subseteq Events
    /\ firedEvents \in Seq(Events) /\ ToSet(firedEvents) = {e \in Events : fire[e] # "new"}

\* What fireAsync adds to the delivery queue: an entry for each listener, in their order.
LEMMA EntriesAre ==
    ASSUME listeners \in Seq(Listeners), NEW e \in Events
    PROVE  /\ Emitter!Entries(e) \in Seq(Entry) /\ Len(Emitter!Entries(e)) = Len(listeners)
           /\ \A p \in 1..Len(listeners) : /\ Emitter!Entries(e)[p].listener = listeners[p]
                                           /\ Emitter!Entries(e)[p].event = e
<1>1. Len(listeners) \in Nat /\ DOMAIN listeners = 1..Len(listeners)
  BY LenProperties
<1>2. \A p \in 1..Len(listeners) : listeners[p] \in Listeners
  BY ElementOfSeq
<1>3. Emitter!Entries(e) \in [1..Len(listeners) -> Entry]
  BY <1>1, <1>2 DEF Emitter!Entries, Entry
<1>4. Emitter!Entries(e) \in Seq(Entry) /\ Len(Emitter!Entries(e)) = Len(listeners)
  BY <1>1, <1>3
<1>5. ASSUME NEW p \in 1..Len(listeners)
      PROVE  Emitter!Entries(e)[p].listener = listeners[p] /\ Emitter!Entries(e)[p].event = e
  <2>1. Emitter!Entries(e)[p] = [listener |-> listeners[p], event |-> e]
    BY <1>1 DEF Emitter!Entries
  <2> QED
    BY <2>1
<1> QED
  BY <1>4, <1>5

\* The loop of fireAsync moves entries from the head of the queue to those delivered, and when
\* it returns without having been cancelled the queue is empty.
LEMMA Delivers ==
    ASSUME EmitterType, NEW e \in Events, NEW entries \in Seq(Entry), Emitter!Deliver(e, entries)
    PROVE  /\ deliveryQueue' \in Seq(Entry) /\ delivered' \in Seq(Entry)
           /\ delivered' \o deliveryQueue' = delivered \o entries
           /\ ToSet(deliveryQueue') \subseteq ToSet(entries)
           /\ fire' \in [Events -> {"new", "awaiting", "returned"}] /\ fire'[e] # "new"
           /\ \A f \in Events : f # e => fire'[f] = fire[f]
           /\ fire'[e] = "returned" => e \in cancelled \/ deliveryQueue' = <<>>
<1>0. /\ deliveryQueue \in Seq(Entry) /\ delivered \in Seq(Entry)
      /\ fire \in [Events -> {"new", "awaiting", "returned"}]
      /\ Len(entries) \in Nat /\ \A p \in 1..Len(entries) : entries[p] \in Entry
  BY LenProperties, ElementOfSeq DEF EmitterType
<1>1. CASE e \in cancelled
  <2>1. deliveryQueue' = entries /\ fire' = [fire EXCEPT ![e] = "returned"] /\ delivered' = delivered
    BY <1>1 DEF Emitter!Deliver
  <2> QED
    BY <1>0, <1>1, <2>1
<1>2. CASE e \notin cancelled
  <2>0. PICK thrown \in 0..Len(entries) :
           LET called == IF thrown < Len(entries) THEN thrown + 1 ELSE thrown
           IN  /\ delivered' = delivered \o SubSeq(entries, 1, called)
               /\ deliveryQueue' = SubSeq(entries, called + 1, Len(entries))
               /\ fire' = [fire EXCEPT ![e] = IF thrown < Len(entries) THEN "awaiting" ELSE "returned"]
    BY <1>2 DEF Emitter!Deliver
  <2> DEFINE called == IF thrown < Len(entries) THEN thrown + 1 ELSE thrown
  <2>1. /\ called \in 0..Len(entries) /\ (called # Len(entries) => thrown < Len(entries))
        /\ delivered' = delivered \o SubSeq(entries, 1, called)
        /\ deliveryQueue' = SubSeq(entries, called + 1, Len(entries))
        /\ fire' = [fire EXCEPT ![e] = IF thrown < Len(entries) THEN "awaiting" ELSE "returned"]
    BY <1>0, <2>0
  <2> HIDE DEF called
  <2>2. /\ deliveryQueue' \in Seq(Entry) /\ ToSet(deliveryQueue') \subseteq ToSet(entries)
        /\ delivered' \in Seq(Entry) /\ delivered' \o deliveryQueue' = delivered \o entries
    <3>1. PICK s, k, d, r :
             /\ s \in Seq(Entry) /\ k \in 0..Len(entries)
             /\ s = delivered /\ d = delivered' /\ r = deliveryQueue'
             /\ d = s \o SubSeq(entries, 1, k) /\ r = SubSeq(entries, k + 1, Len(entries))
      BY <1>0, <2>1
    <3>2. /\ s \in Seq(Entry) /\ k \in 0..Len(entries)
          /\ d = s \o SubSeq(entries, 1, k) /\ r = SubSeq(entries, k + 1, Len(entries))
      BY <3>1
    <3>3. Moved(Entry, s, entries, d, r)
      BY <1>0, <3>2, MoveToEnd
    <3> QED
      BY <3>1, <3>3 DEF Moved
  <2>5. /\ fire' \in [Events -> {"new", "awaiting", "returned"}] /\ fire'[e] # "new"
        /\ \A f \in Events : f # e => fire'[f] = fire[f]
    BY <1>0, <2>1
  <2>6. ASSUME fire'[e] = "returned" PROVE deliveryQueue' = <<>>
    <3>1. called = Len(entries) \/ fire'[e] = "awaiting"
      BY <1>0, <2>1
    <3> QED
      BY <1>0, <2>1, <2>6, <3>1, SubSeqEmpty
  <2> QED
    BY <2>2, <2>5, <2>6
<1> QED
  BY <1>1, <1>2

\* A set of functions, as the listeners are, stays one.
LEMMA ListenersStay ==
    ASSUME EmitterType, NEW l \in Listeners, Emitter!Subscribe(l) \/ Emitter!Unsubscribe(l)
    PROVE  listeners' \in Seq(Listeners) /\ IsInjective(listeners')
<1>0. /\ listeners \in Seq(Listeners) /\ IsInjective(listeners)
      /\ Len(listeners) \in Nat /\ DOMAIN listeners = 1..Len(listeners)
  BY LenProperties DEF EmitterType
<1>1. CASE Emitter!Subscribe(l)
  <2>1. listeners' = Append(listeners, l) /\ l \notin ToSet(listeners)
    BY <1>1, EmitterOperators DEF Emitter!Subscribe
  <2>2. /\ listeners' \in Seq(Listeners) /\ Len(listeners') = Len(listeners) + 1
        /\ \A p \in 1..Len(listeners) : listeners'[p] = listeners[p]
        /\ listeners'[Len(listeners) + 1] = l
    BY <1>0, <2>1, AppendProperties
  <2>3. DOMAIN listeners' = 1..(Len(listeners) + 1)
    BY <2>2, LenProperties
  <2>4. \A p \in 1..Len(listeners) : listeners[p] # l
    BY <1>0, <2>1 DEF ToSet
  <2> QED
    BY <1>0, <2>2, <2>3, <2>4 DEF IsInjective
<1>2. CASE Emitter!Unsubscribe(l)
  <2>1. CASE listeners' = listeners
    BY <1>0, <2>1
  <2>2. CASE listeners' # listeners
    <3>1. PICK p \in 1..Len(listeners) : listeners' = RemoveAt(listeners, p)
      BY <1>0, <1>2, <2>2, EmitterOperators DEF Emitter!Unsubscribe
    <3>2. /\ listeners' \in Seq(Listeners) /\ Len(listeners') = Len(listeners) - 1
          /\ \A k \in 1..(Len(listeners) - 1) :
                listeners'[k] = IF k < p THEN listeners[k] ELSE listeners[k + 1]
      BY <1>0, <3>1, RemoveAtRange, RemoveAtElements
    <3>3. DOMAIN listeners' = 1..(Len(listeners) - 1)
      BY <3>2, LenProperties
    <3>4. ASSUME NEW a \in DOMAIN listeners', NEW b \in DOMAIN listeners', listeners'[a] = listeners'[b]
          PROVE  a = b
      <4> DEFINE at(k) == IF k < p THEN k ELSE k + 1
      <4>1. at(a) \in 1..Len(listeners) /\ at(b) \in 1..Len(listeners)
        BY <1>0, <3>3
      <4>2. listeners[at(a)] = listeners[at(b)]
        BY <3>2, <3>3, <3>4
      <4>3. at(a) = at(b)
        BY <1>0, <4>1, <4>2 DEF IsInjective
      <4> QED
        BY <3>3, <4>3
    <3> QED
      BY <3>2, <3>4 DEF IsInjective
  <2> QED
    BY <2>1, <2>2
<1> QED
  BY <1>1, <1>2

\* Every action keeps the types.
LEMMA EmitterTypeNext ==
    ASSUME EmitterType, [Emitter!Next]_emitterVars
    PROVE  EmitterType'
<1>1. ASSUME NEW l \in Listeners, Emitter!Subscribe(l) \/ Emitter!Unsubscribe(l) PROVE EmitterType'
  <2>1. UNCHANGED <<deliveryQueue, fire, cancelled, firedEvents, delivered>>
    BY <1>1 DEF Emitter!Subscribe, Emitter!Unsubscribe
  <2> QED
    BY <1>1, <2>1, ListenersStay DEF EmitterType
<1>2. ASSUME NEW e \in Events, Emitter!FireAsync(e) PROVE EmitterType'
  <2>1. /\ fire[e] = "new" /\ firedEvents' = Append(firedEvents, e)
        /\ Emitter!Deliver(e, deliveryQueue \o Emitter!Entries(e))
        /\ UNCHANGED <<listeners, cancelled>>
    BY <1>2 DEF Emitter!FireAsync
  <2>2. deliveryQueue \o Emitter!Entries(e) \in Seq(Entry)
    BY EntriesAre, ConcatProperties DEF EmitterType
  <2>3. /\ deliveryQueue' \in Seq(Entry) /\ delivered' \in Seq(Entry)
        /\ fire' \in [Events -> {"new", "awaiting", "returned"}] /\ fire'[e] # "new"
        /\ \A f \in Events : f # e => fire'[f] = fire[f]
    BY <2>1, <2>2, Delivers
  <2>4. firedEvents' \in Seq(Events) /\ ToSet(firedEvents') = ToSet(firedEvents) \cup {e}
    BY <2>1, AppendRange DEF EmitterType
  <2> QED
    BY <2>1, <2>3, <2>4 DEF EmitterType
<1>3. ASSUME NEW e \in Events, Emitter!ListenerSettles(e) PROVE EmitterType'
  <2>1. /\ fire[e] = "awaiting" /\ Emitter!Deliver(e, deliveryQueue)
        /\ UNCHANGED <<listeners, cancelled, firedEvents>>
    BY <1>3 DEF Emitter!ListenerSettles
  <2>2. /\ deliveryQueue' \in Seq(Entry) /\ delivered' \in Seq(Entry)
        /\ fire' \in [Events -> {"new", "awaiting", "returned"}] /\ fire'[e] # "new"
        /\ \A f \in Events : f # e => fire'[f] = fire[f]
    BY <2>1, Delivers DEF EmitterType
  <2> QED
    BY <2>1, <2>2 DEF EmitterType
<1>4. ASSUME NEW e \in Events, Emitter!CancelToken(e) PROVE EmitterType'
  BY <1>4 DEF Emitter!CancelToken, EmitterType
<1>5. ASSUME UNCHANGED emitterVars PROVE EmitterType'
  BY <1>5 DEF emitterVars, EmitterType
<1> QED
  BY <1>1, <1>2, <1>3, <1>4, <1>5 DEF Emitter!Next

\* An emitter nobody has subscribed to.
LEMMA EmitterTypeInit == Emitter!Init => EmitterType
<1> SUFFICES ASSUME Emitter!Init PROVE EmitterType
  OBVIOUS
<1>1. /\ listeners \in Seq(Listeners) /\ deliveryQueue \in Seq(Entry) /\ delivered \in Seq(Entry)
      /\ firedEvents \in Seq(Events)
  BY EmptySeq DEF Emitter!Init
<1>2. DOMAIN listeners = {} /\ ToSet(firedEvents) = {}
  BY <1>1 DEF Emitter!Init, ToSet
<1> QED
  BY <1>1, <1>2 DEF Emitter!Init, EmitterType, IsInjective

(* The order of events *)

\* In the entries s each listener has events in their order in f.
Sequel(s, f) ==
    /\ \A p \in DOMAIN s : s[p].event \in ToSet(f)
    /\ \A p, q \in DOMAIN s :
          p < q /\ s[p].listener = s[q].listener =>
              \E i, j \in DOMAIN f : i < j /\ f[i] = s[p].event /\ f[j] = s[q].event

\* What was delivered, and what is queued behind it, is in that order, and was expected.
Sent == delivered \o deliveryQueue

SentInv == Sequel(Sent, firedEvents) /\ ToSet(Sent) = expected

\* Entries of an event that is fired now come behind those of events fired before.
LEMMA SequelGrows ==
    ASSUME EmitterType, NEW e \in Events, NEW f, f = Append(firedEvents, e), NEW s \in Seq(Entry),
           Sequel(s, firedEvents), NEW t, t = s \o Emitter!Entries(e)
    PROVE  Sequel(t, f)
<1>0. /\ Len(s) \in Nat /\ DOMAIN s = 1..Len(s) /\ Len(listeners) \in Nat
      /\ DOMAIN listeners = 1..Len(listeners) /\ IsInjective(listeners)
      /\ Len(firedEvents) \in Nat /\ DOMAIN firedEvents = 1..Len(firedEvents)
  BY LenProperties DEF EmitterType
<1>1. /\ DOMAIN f = 1..(Len(firedEvents) + 1) /\ f[Len(firedEvents) + 1] = e
      /\ \A i \in 1..Len(firedEvents) : f[i] = firedEvents[i]
      /\ ToSet(f) = ToSet(firedEvents) \cup {e}
  <2>1. /\ f \in Seq(Events) /\ Len(f) = Len(firedEvents) + 1 /\ f[Len(firedEvents) + 1] = e
        /\ \A i \in 1..Len(firedEvents) : f[i] = firedEvents[i]
    BY AppendProperties DEF EmitterType
  <2>2. ToSet(f) = ToSet(firedEvents) \cup {e}
    BY AppendRange DEF EmitterType
  <2> QED
    BY <2>1, <2>2, LenProperties
<1> DEFINE r == Emitter!Entries(e)
<1>2. /\ r \in Seq(Entry) /\ Len(r) = Len(listeners)
      /\ \A p \in 1..Len(listeners) : r[p].listener = listeners[p] /\ r[p].event = e
  BY EntriesAre DEF EmitterType
<1>3. t = s \o r
  OBVIOUS
<1> HIDE DEF r
<1>4. /\ DOMAIN t = 1..(Len(s) + Len(listeners))
      /\ \A p \in 1..Len(s) : t[p] = s[p]
      /\ \A p \in 1..(Len(s) + Len(listeners)) : ~(p <= Len(s)) =>
            t[p].event = e /\ p - Len(s) \in DOMAIN listeners /\ t[p].listener = listeners[p - Len(s)]
  <2>1. /\ t \in Seq(Entry) /\ Len(t) = Len(s) + Len(r)
        /\ \A p \in 1..Len(s) + Len(r) : t[p] = IF p <= Len(s) THEN s[p] ELSE r[p - Len(s)]
    <3>1. /\ s \o r \in Seq(Entry) /\ Len(s \o r) = Len(s) + Len(r)
          /\ \A p \in 1..Len(s) + Len(r) : (s \o r)[p] = IF p <= Len(s) THEN s[p] ELSE r[p - Len(s)]
      <4>1. r \in Seq(Entry)
        BY <1>2
      <4> QED
        BY <4>1, ConcatProperties
    <3> QED
      BY <1>3, <3>1
  <2>2. DOMAIN t = 1..(Len(s) + Len(listeners))
    BY <1>2, <2>1, LenProperties
  <2>3. \A p \in 1..Len(s) : t[p] = s[p]
    BY <1>0, <1>2, <2>1
  <2>4. ASSUME NEW p \in 1..(Len(s) + Len(listeners)), ~(p <= Len(s))
        PROVE  t[p].event = e /\ p - Len(s) \in DOMAIN listeners
                 /\ t[p].listener = listeners[p - Len(s)]
    <3>1. p - Len(s) \in 1..Len(listeners) /\ t[p] = r[p - Len(s)]
      BY <1>0, <1>2, <2>1, <2>4
    <3> QED
      BY <1>0, <1>2, <3>1
  <2> QED
    BY <2>2, <2>3, <2>4
<1>5. ASSUME NEW p \in DOMAIN t, NEW q \in DOMAIN t, p < q, t[p].listener = t[q].listener
      PROVE  \E i, j \in DOMAIN f : i < j /\ f[i] = t[p].event /\ f[j] = t[q].event
  <2>1. CASE q <= Len(s)
    <3>1. p \in DOMAIN s /\ q \in DOMAIN s /\ t[p] = s[p] /\ t[q] = s[q]
      BY <1>0, <1>4, <1>5, <2>1
    <3>2. PICK i \in DOMAIN firedEvents, j \in DOMAIN firedEvents :
             i < j /\ firedEvents[i] = s[p].event /\ firedEvents[j] = s[q].event
      BY <1>5, <3>1 DEF Sequel
    <3>3. i \in DOMAIN f /\ j \in DOMAIN f /\ f[i] = firedEvents[i] /\ f[j] = firedEvents[j]
      BY <1>0, <1>1, <3>2
    <3> QED
      BY <3>1, <3>2, <3>3
  <2>2. CASE ~(q <= Len(s)) /\ p <= Len(s)
    <3>1. p \in DOMAIN s /\ t[p] = s[p] /\ t[q].event = e
      BY <1>0, <1>4, <2>2
    <3>2. PICK i \in DOMAIN firedEvents : firedEvents[i] = s[p].event
      BY <3>1 DEF Sequel, ToSet
    <3>3. i \in DOMAIN f /\ Len(firedEvents) + 1 \in DOMAIN f /\ i < Len(firedEvents) + 1
      BY <1>0, <1>1, <3>2
    <3> QED
      BY <1>0, <1>1, <3>1, <3>2, <3>3
  <2>3. CASE ~(q <= Len(s)) /\ ~(p <= Len(s))
    <3>1. /\ p - Len(s) \in DOMAIN listeners /\ q - Len(s) \in DOMAIN listeners
          /\ listeners[p - Len(s)] = listeners[q - Len(s)]
      BY <1>4, <1>5, <2>3
    <3>2. p - Len(s) = q - Len(s)
      BY <1>0, <3>1 DEF IsInjective
    <3> QED
      BY <1>0, <1>4, <1>5, <3>2
  <2> QED
    BY <2>1, <2>2, <2>3
<1>6. \A p \in DOMAIN t : t[p].event \in ToSet(f)
  <2>1. \A p \in DOMAIN s : s[p].event \in ToSet(f)
    BY <1>1 DEF Sequel
  <2>2. e \in ToSet(f)
    BY <1>1
  <2> QED
    BY <1>0, <1>4, <2>1, <2>2
<1> QED
  BY <1>5, <1>6, ZenonT(40) DEF Sequel

\* Every action keeps what is delivered and queued in order.
LEMMA SentNext ==
    ASSUME EmitterType, SentInv, [Emitter!Next]_emitterVars
    PROVE  SentInv'
<1>1. CASE UNCHANGED <<deliveryQueue, delivered, firedEvents, expected>>
  BY <1>1, SMTT(30) DEF SentInv, Sent, Sequel, ToSet
<1>2. ASSUME NEW e \in Events, Emitter!FireAsync(e) PROVE SentInv'
  <2>1. /\ firedEvents' = Append(firedEvents, e)
        /\ Emitter!Deliver(e, deliveryQueue \o Emitter!Entries(e))
        /\ expected' = expected \cup ToSet(Emitter!Entries(e))
    BY <1>2, EmitterOperators DEF Emitter!FireAsync
  <2>2. /\ deliveryQueue \in Seq(Entry) /\ delivered \in Seq(Entry)
        /\ Emitter!Entries(e) \in Seq(Entry)
        /\ Sent \in Seq(Entry)
    BY EntriesAre, ConcatProperties DEF EmitterType, Sent
  <2>3. deliveryQueue \o Emitter!Entries(e) \in Seq(Entry)
    BY <2>2, ConcatProperties
  <2>4. delivered' \o deliveryQueue' = delivered \o (deliveryQueue \o Emitter!Entries(e))
    BY <2>1, <2>3, Delivers
  <2>5. Sent' = Sent \o Emitter!Entries(e)
    <3>1. delivered \o (deliveryQueue \o Emitter!Entries(e))
              = (delivered \o deliveryQueue) \o Emitter!Entries(e)
      BY <2>2, ConcatTwice
    <3> QED
      BY <2>4, <3>1 DEF Sent
  <2>6. PICK s, t, f : /\ s \in Seq(Entry) /\ s = Sent
                       /\ t = Sent' /\ f = firedEvents' /\ t = s \o Emitter!Entries(e)
    BY <2>2, <2>5
  <2>7. Sequel(s, firedEvents) /\ f = Append(firedEvents, e)
    BY <2>1, <2>6 DEF SentInv
  <2>8. Sequel(t, f)
    BY <2>6, <2>7, SequelGrows
  <2>9. ToSet(Sent') = ToSet(Sent) \cup ToSet(Emitter!Entries(e))
    BY <2>2, <2>5, ConcatRange
  <2> QED
    BY <2>1, <2>6, <2>8, <2>9 DEF SentInv
<1>3. ASSUME NEW e \in Events, Emitter!ListenerSettles(e) PROVE SentInv'
  <2>1. Emitter!Deliver(e, deliveryQueue) /\ UNCHANGED <<firedEvents, expected>>
    BY <1>3 DEF Emitter!ListenerSettles
  <2>2. Sent' = Sent
    BY <2>1, Delivers DEF Sent, EmitterType
  <2> QED
    BY <2>1, <2>2 DEF SentInv, Sequel, ToSet
<1> QED
  BY <1>1, <1>2, <1>3 DEF Emitter!Next, Emitter!Subscribe, Emitter!Unsubscribe,
     Emitter!CancelToken, emitterVars

(* Nobody is missed *)

\* The entries of an event whose fireAsync returned without having been cancelled have left
\* the queue, by whichever loop.
LeftInv ==
    \A d \in ToSet(deliveryQueue) : fire[d.event] = "returned" => d.event \in cancelled

\* Every action keeps that.
LEMMA LeftNext ==
    ASSUME EmitterType, LeftInv, [Emitter!Next]_emitterVars
    PROVE  LeftInv'
<1>0. ToSet(deliveryQueue) \subseteq Entry
  BY ToSetType DEF EmitterType
<1>1. CASE UNCHANGED <<deliveryQueue, fire>> /\ cancelled \subseteq cancelled'
  BY <1>1 DEF LeftInv, ToSet
<1>2. ASSUME NEW e \in Events, NEW entries \in Seq(Entry), Emitter!Deliver(e, entries),
             UNCHANGED cancelled,
             \A d \in ToSet(entries) : d \in ToSet(deliveryQueue) \/ d.event = e
      PROVE  LeftInv'
  <2>1. /\ ToSet(deliveryQueue') \subseteq ToSet(entries)
        /\ fire'[e] = "returned" => e \in cancelled \/ deliveryQueue' = <<>>
        /\ \A f \in Events : f # e => fire'[f] = fire[f]
    BY <1>2, Delivers
  <2>2. \A d \in ToSet(entries) : d.event \in Events
    BY <1>0, <1>2 DEF Entry
  <2>3. ASSUME NEW d \in ToSet(deliveryQueue'), fire'[d.event] = "returned"
        PROVE  d.event \in cancelled
    <3>1. deliveryQueue' # <<>>
      BY <2>3 DEF ToSet
    <3>2. CASE d.event = e
      BY <2>1, <2>3, <3>1, <3>2
    <3>3. CASE d.event # e
      BY <1>2, <2>1, <2>2, <2>3, <3>3 DEF LeftInv
    <3> QED
      BY <3>2, <3>3
  <2> QED
    BY <1>2, <2>3 DEF LeftInv
<1>3. ASSUME NEW e \in Events, Emitter!FireAsync(e) PROVE LeftInv'
  <2>1. Emitter!Deliver(e, deliveryQueue \o Emitter!Entries(e)) /\ UNCHANGED cancelled
    BY <1>3 DEF Emitter!FireAsync
  <2>2. Emitter!Entries(e) \in Seq(Entry) /\ \A d \in ToSet(Emitter!Entries(e)) : d.event = e
    <3>1. /\ Emitter!Entries(e) \in Seq(Entry) /\ Len(Emitter!Entries(e)) = Len(listeners)
          /\ \A p \in 1..Len(listeners) : Emitter!Entries(e)[p].event = e
      BY EntriesAre DEF EmitterType
    <3>2. DOMAIN Emitter!Entries(e) = 1..Len(listeners)
      BY <3>1, LenProperties
    <3> QED
      BY <3>1, <3>2 DEF ToSet
  <2>3. /\ deliveryQueue \o Emitter!Entries(e) \in Seq(Entry)
        /\ ToSet(deliveryQueue \o Emitter!Entries(e))
               = ToSet(deliveryQueue) \cup ToSet(Emitter!Entries(e))
    BY <2>2, ConcatRange DEF EmitterType
  <2> QED
    BY <1>2, <2>1, <2>2, <2>3
<1>4. ASSUME NEW e \in Events, Emitter!ListenerSettles(e) PROVE LeftInv'
  BY <1>2, <1>4 DEF Emitter!ListenerSettles, EmitterType
<1> QED
  BY <1>1, <1>3, <1>4 DEF Emitter!Next, Emitter!Subscribe, Emitter!Unsubscribe,
     Emitter!CancelToken, emitterVars

\* Why the listeners of an event are called, and in what order.
EmitterInv == EmitterType /\ SentInv /\ LeftInv

LEMMA EmitterInvInit == Emitter!Init => EmitterInv
<1> SUFFICES ASSUME Emitter!Init PROVE EmitterInv
  OBVIOUS
<1>1. Sent = <<>> /\ expected = {} /\ deliveryQueue = <<>>
  BY ConcatEmptySeq DEF Emitter!Init, Sent
<1>2. DOMAIN Sent = {} /\ ToSet(Sent) = {} /\ ToSet(deliveryQueue) = {}
  BY <1>1 DEF ToSet
<1> QED
  BY <1>1, <1>2, EmitterTypeInit DEF EmitterInv, SentInv, Sequel, LeftInv

LEMMA EmitterInvNext == EmitterInv /\ [Emitter!Next]_emitterVars => EmitterInv'
BY EmitterTypeNext, SentNext, LeftNext DEF EmitterInv

LEMMA InOrderAlways == EmitterInv => Emitter!InOrder
<1> SUFFICES ASSUME EmitterInv PROVE Emitter!InOrder
  OBVIOUS
<1>1. DOMAIN delivered \subseteq DOMAIN Sent /\ \A p \in DOMAIN delivered : Sent[p] = delivered[p]
  <2>1. /\ delivered \in Seq(Entry) /\ deliveryQueue \in Seq(Entry)
        /\ Len(delivered) \in Nat /\ Len(deliveryQueue) \in Nat
        /\ DOMAIN delivered = 1..Len(delivered)
    BY LenProperties DEF EmitterInv, EmitterType
  <2>2. /\ Sent \in Seq(Entry) /\ Len(Sent) = Len(delivered) + Len(deliveryQueue)
        /\ \A p \in 1..Len(delivered) + Len(deliveryQueue) :
              Sent[p] = IF p <= Len(delivered) THEN delivered[p] ELSE deliveryQueue[p - Len(delivered)]
    BY <2>1, ConcatProperties DEF Sent
  <2>3. DOMAIN Sent = 1..(Len(delivered) + Len(deliveryQueue))
    BY <2>2, LenProperties
  <2> QED
    BY <2>1, <2>2, <2>3
<1> QED
  BY <1>1 DEF EmitterInv, SentInv, Sequel, Emitter!InOrder

LEMMA NobodyIsMissed == EmitterInv => Emitter!NobodyMissed
<1> SUFFICES ASSUME EmitterInv PROVE Emitter!NobodyMissed
  OBVIOUS
<1>1. expected = ToSet(delivered) \cup ToSet(deliveryQueue)
  BY ConcatRange DEF EmitterInv, EmitterType, SentInv, Sent
<1> QED
  BY <1>1, EmitterOperators DEF EmitterInv, LeftInv, Emitter!NobodyMissed

(* Each event is fired once, and no delivery is made twice *)

FiredOnce == IsInjective(firedEvents)

\* fireAsync of an event that was fired has begun, and begins once.
LEMMA FiredOnceNext ==
    ASSUME EmitterType, FiredOnce, [Emitter!Next]_emitterVars
    PROVE  FiredOnce'
<1>1. CASE UNCHANGED firedEvents
  BY <1>1 DEF FiredOnce
<1>2. ASSUME NEW e \in Events, Emitter!FireAsync(e) PROVE FiredOnce'
  <2>1. fire[e] = "new" /\ firedEvents' = Append(firedEvents, e)
    BY <1>2 DEF Emitter!FireAsync
  <2>2. firedEvents \in Seq(Events) /\ e \notin ToSet(firedEvents)
    BY <2>1 DEF EmitterType
  <2>3. /\ Len(firedEvents) \in Nat /\ DOMAIN firedEvents = 1..Len(firedEvents)
        /\ \A p \in 1..Len(firedEvents) : firedEvents[p] # e
    BY <2>2, LenProperties DEF ToSet
  <2>4. /\ firedEvents' \in Seq(Events) /\ Len(firedEvents') = Len(firedEvents) + 1
        /\ \A p \in 1..Len(firedEvents) : firedEvents'[p] = firedEvents[p]
        /\ firedEvents'[Len(firedEvents) + 1] = e
    BY <2>1, <2>2, AppendProperties
  <2>5. DOMAIN firedEvents' = 1..(Len(firedEvents) + 1)
    BY <2>4, LenProperties
  <2> QED
    BY <2>3, <2>4, <2>5 DEF FiredOnce, IsInjective
<1> QED
  BY <1>1, <1>2 DEF Emitter!Next, Emitter!Subscribe, Emitter!Unsubscribe,
     Emitter!ListenerSettles, Emitter!CancelToken, emitterVars

\* A delivery that was made is not in the queue: its event would come before itself.
LEMMA NoneTwice ==
    ASSUME EmitterInv, FiredOnce
    PROVE  ToSet(deliveryQueue) \cap ToSet(delivered) = {}
<1>1. /\ delivered \in Seq(Entry) /\ deliveryQueue \in Seq(Entry)
      /\ Len(delivered) \in Nat /\ DOMAIN delivered = 1..Len(delivered)
      /\ Len(deliveryQueue) \in Nat /\ DOMAIN deliveryQueue = 1..Len(deliveryQueue)
  BY LenProperties DEF EmitterInv, EmitterType
<1>2. /\ Sent \in Seq(Entry) /\ Len(Sent) = Len(delivered) + Len(deliveryQueue)
      /\ \A p \in 1..Len(delivered) + Len(deliveryQueue) :
            Sent[p] = IF p <= Len(delivered) THEN delivered[p] ELSE deliveryQueue[p - Len(delivered)]
  BY <1>1, ConcatProperties DEF Sent
<1>3. DOMAIN Sent = 1..(Len(delivered) + Len(deliveryQueue))
  BY <1>2, LenProperties
<1>4. SUFFICES ASSUME NEW p \in DOMAIN delivered, NEW q \in DOMAIN deliveryQueue,
                      delivered[p] = deliveryQueue[q]
               PROVE  FALSE
  BY DEF ToSet
<1>5. /\ p \in DOMAIN Sent /\ Len(delivered) + q \in DOMAIN Sent /\ p < Len(delivered) + q
      /\ Sent[p] = delivered[p] /\ Sent[Len(delivered) + q] = deliveryQueue[q]
  BY <1>1, <1>2, <1>3
<1>6. PICK i, j \in DOMAIN firedEvents :
         i < j /\ firedEvents[i] = delivered[p].event /\ firedEvents[j] = deliveryQueue[q].event
  BY <1>4, <1>5 DEF EmitterInv, SentInv, Sequel
<1>7. i = j
  BY <1>4, <1>6 DEF FiredOnce, IsInjective
<1>8. firedEvents \in Seq(Events)
  BY DEF EmitterInv, EmitterType
<1>9. i \in 1..Len(firedEvents) /\ Len(firedEvents) \in Nat
  BY <1>6, <1>8, LenProperties
<1> QED
  BY <1>6, <1>7, <1>9

LEMMA EmitterTypes == EmitterInv /\ FiredOnce => Emitter!TypeOK
<1> SUFFICES ASSUME EmitterInv, FiredOnce PROVE Emitter!TypeOK
  OBVIOUS
<1>1. expected = ToSet(delivered) \cup ToSet(deliveryQueue)
  BY ConcatRange DEF EmitterInv, EmitterType, SentInv, Sent
<1>2. ToSet(listeners) \subseteq Listeners
  BY ToSetType DEF EmitterInv, EmitterType
<1>3. Emitter!IsInjective(listeners)
  BY DEF EmitterInv, EmitterType, IsInjective, Emitter!IsInjective
<1>4. ToSet(deliveryQueue) \subseteq expected \ ToSet(delivered)
  BY <1>1, NoneTwice
<1>5. ToSet(delivered) \subseteq expected
  BY <1>1
<1>6. /\ fire \in [Events -> {"new", "awaiting", "returned"}] /\ cancelled \subseteq Events
      /\ ToSet(firedEvents) = {e \in Events : fire[e] # "new"}
  BY DEF EmitterInv, EmitterType
<1> QED
  BY <1>2, <1>3, <1>4, <1>5, <1>6, EmitterOperators DEF Emitter!TypeOK

-----------------------------------------------------------------------------
(* The parts with theorems of their own *)

WidgetProofs == INSTANCE WidgetMessages_proofs
RawProofs == INSTANCE RawKernelConnection_proofs WITH open <- openSockets
NotebookProofs == INSTANCE NotebookKernelExecution_proofs
    WITH restarted <- kernelRestarted, handling <- handlersRun, handlers <- handlersCode,
         state <- executionState

-----------------------------------------------------------------------------
(* Steps *)

\* A step of the services is a step of the provider, or leaves it unchanged.
LEMMA ProviderSteps == [ServicesNext]_allVars => [Provider!Next]_providerVars
BY DEF ServicesNext, allVars, providerVars

\* A step of the services is a step of the emitter, or leaves it unchanged.
LEMMA EmitterSteps == [ServicesNext]_allVars => [Emitter!Next]_emitterVars
BY DEF ServicesNext, allVars, emitterVars

\* What the handlers do to the connection is the same in both instances.
LEMMA RawOperators ==
    /\ Raw!State = RawProofs!State /\ Raw!Idle = RawProofs!Idle /\ Raw!Launching = RawProofs!Launching
    /\ Raw!Processes = RawProofs!Processes
    /\ \A s : Raw!Becomes(s) <=> RawProofs!Becomes(s)
    /\ \A r : Raw!Cleared(r) = RawProofs!Cleared(r)
    /\ \A s, p : Raw!DisposeProcess(s, p) = RawProofs!DisposeProcess(s, p)
    /\ \A s, why, exited : Raw!LaunchFails(s, why, exited) = RawProofs!LaunchFails(s, why, exited)
    /\ \A s, why : Raw!ConnectFails(s, why) = RawProofs!ConnectFails(s, why)
    /\ \A s : Raw!CancelStart(s) = RawProofs!CancelStart(s)
    /\ \A s : Raw!FinishShutdown(s) = RawProofs!FinishShutdown(s)
    /\ \A s : Raw!Shutdown(s) = RawProofs!Shutdown(s)
    /\ \A s, p : Raw!ExitEvent(s, p) = RawProofs!ExitEvent(s, p)
<1>1. Raw!State = RawProofs!State
  BY DEF Raw!State, RawProofs!State
<1>2. Raw!Idle = RawProofs!Idle
  BY DEF Raw!Idle, RawProofs!Idle
<1>3. Raw!Launching = RawProofs!Launching
  BY DEF Raw!Launching, RawProofs!Launching,
         Raw!Idle, RawProofs!Idle
<1>4. Raw!Processes = RawProofs!Processes
  BY DEF Raw!Processes, RawProofs!Processes
<1>5. \A s : Raw!Becomes(s) <=> RawProofs!Becomes(s)
  BY DEF Raw!Becomes, RawProofs!Becomes
<1>6. \A r : Raw!Cleared(r) = RawProofs!Cleared(r)
  BY DEF Raw!Cleared, RawProofs!Cleared
<1>7. \A s, p : Raw!DisposeProcess(s, p) = RawProofs!DisposeProcess(s, p)
  BY DEF Raw!DisposeProcess, RawProofs!DisposeProcess
<1>8. \A s, why, exited : Raw!LaunchFails(s, why, exited) = RawProofs!LaunchFails(s, why, exited)
  BY <1>7 DEF Raw!LaunchFails, RawProofs!LaunchFails
<1>9. \A s, why : Raw!ConnectFails(s, why) = RawProofs!ConnectFails(s, why)
  BY <1>7 DEF Raw!ConnectFails, RawProofs!ConnectFails
<1>10. \A s : Raw!CancelStart(s) = RawProofs!CancelStart(s)
  BY <1>8, <1>9 DEF Raw!CancelStart, RawProofs!CancelStart
<1>11. \A s : Raw!FinishShutdown(s) = RawProofs!FinishShutdown(s)
  BY DEF Raw!FinishShutdown, RawProofs!FinishShutdown
<1>12. ASSUME NEW s PROVE Raw!Shutdown(s) = RawProofs!Shutdown(s)
  <2>1. PICK stopping : stopping = [s EXCEPT !.raw.isShuttingDown = TRUE]
    OBVIOUS
  <2>2. PICK c : c = IF s.raw.isRestarting THEN Raw!CancelStart(stopping) ELSE stopping
    OBVIOUS
  <2>3. c = IF s.raw.isRestarting THEN RawProofs!CancelStart(stopping) ELSE stopping
    BY <1>10, <2>2
  <2>4. PICK w : w = [c EXCEPT !.raw.awaiting = @ \cup {c.raw.process}]
    OBVIOUS
  <2>5. Raw!Shutdown(s) =
           IF s.raw.isShuttingDown \/ s.raw.hasShutdown THEN s
           ELSE IF c.raw.process = None THEN Raw!FinishShutdown(c)
           ELSE Raw!DisposeProcess(w, c.raw.process)
    BY <2>1, <2>2, <2>4 DEF Raw!Shutdown
  <2>6. RawProofs!Shutdown(s) =
           IF s.raw.isShuttingDown \/ s.raw.hasShutdown THEN s
           ELSE IF c.raw.process = None THEN RawProofs!FinishShutdown(c)
           ELSE RawProofs!DisposeProcess(w, c.raw.process)
    BY <2>1, <2>3, <2>4 DEF RawProofs!Shutdown
  <2> QED
    BY <1>7, <1>11, <2>5, <2>6
<1>13. \A r : Raw!Status(r) = RawProofs!Status(r)
  BY DEF Raw!Status, RawProofs!Status
<1>14. \A s, p : Raw!StartSeesExit(s, p) = RawProofs!StartSeesExit(s, p)
  BY <1>9 DEF Raw!StartSeesExit, RawProofs!StartSeesExit
<1>15. \A s, p : Raw!ExitEvent(s, p) = RawProofs!ExitEvent(s, p)
  BY <1>12, <1>13, <1>14 DEF Raw!ExitEvent, RawProofs!ExitEvent
<1> QED
  BY <1>1, <1>2, <1>3, <1>4, <1>5, <1>6, <1>7, <1>8, <1>9, <1>10, <1>11, <1>12, <1>15

\* What the raw connection does in the services is what RawKernelConnection describes.
LEMMA RawSteps ==
    ASSUME [ServicesNext]_allVars
    PROVE  [RawProofs!Next]_(RawProofs!vars)
<1>1. CASE component = "raw" /\ Raw!Next
  <2>1. Raw!Spawn <=> RawProofs!Spawn
    BY RawOperators DEF Raw!Spawn, RawProofs!Spawn
  <2>2. Raw!Launched <=> RawProofs!Launched
    BY RawOperators DEF Raw!Launched, RawProofs!Launched
  <2>3. Raw!LaunchThrows <=> RawProofs!LaunchThrows
    BY RawOperators DEF Raw!LaunchThrows, RawProofs!LaunchThrows
  <2>4. Raw!Connected <=> RawProofs!Connected
    BY RawOperators DEF Raw!Connected, RawProofs!Connected
  <2>5. Raw!ConnectTimesOut <=> RawProofs!ConnectTimesOut
    BY RawOperators DEF Raw!ConnectTimesOut, RawProofs!ConnectTimesOut
  <2>6. Raw!CreateSession <=> RawProofs!CreateSession
    BY RawOperators DEF Raw!CreateSession, RawProofs!CreateSession
  <2>7. Raw!Started <=> RawProofs!Started
    BY RawOperators DEF Raw!Started, RawProofs!Started
  <2>8. Raw!StartIgnored <=> RawProofs!StartIgnored
    BY RawOperators DEF Raw!StartIgnored, RawProofs!StartIgnored
  <2>9. Raw!Restart <=> RawProofs!Restart
    BY RawOperators DEF Raw!Restart, RawProofs!Restart
  <2>10. Raw!DisposeConnection <=> RawProofs!DisposeConnection
    BY RawOperators DEF Raw!DisposeConnection, RawProofs!DisposeConnection
  <2>11. \A p : Raw!ProcessExits(p) <=> RawProofs!ProcessExits(p)
    BY RawOperators DEF Raw!ProcessExits, RawProofs!ProcessExits
  <2>12. \A p : Raw!Kill(p) <=> RawProofs!Kill(p)
    BY RawOperators DEF Raw!Kill, RawProofs!Kill
  <2>13. \A p : Raw!ProcessDisposed(p) <=> RawProofs!ProcessDisposed(p)
    BY RawOperators DEF Raw!ProcessDisposed, RawProofs!ProcessDisposed
  <2>14. \A s, await : Raw!Release(s, await) <=> RawProofs!Release(s, await)
    BY RawOperators DEF Raw!Release, RawProofs!Release
  <2>15. Raw!StartThrew <=> RawProofs!StartThrew
    BY <2>14, RawOperators DEF Raw!StartThrew, RawProofs!StartThrew
  <2>16. Raw!CancelCreation <=> RawProofs!CancelCreation
    BY <2>14, RawOperators DEF Raw!CancelCreation, RawProofs!CancelCreation
  <2>17. Raw!DisposeSession <=> RawProofs!DisposeSession
    BY <2>14, RawOperators DEF Raw!DisposeSession, RawProofs!DisposeSession
  <2>18. Raw!Processes = RawProofs!Processes
    BY RawOperators
  <2> QED
    BY <1>1, <2>1, <2>2, <2>3, <2>4, <2>5, <2>6, <2>7, <2>8, <2>9, <2>10, <2>11, <2>12, <2>13,
       <2>15, <2>16, <2>17, <2>18
       DEF Raw!Next, RawProofs!Next
<1> QED
  BY <1>1 DEF ServicesNext, allVars, rawVars, RawProofs!vars

\* What is said of the queues of a notebook is the same in both instances.
LEMMA NotebookOperators ==
    /\ Notebook!Executions = NotebookProofs!Executions
    /\ Notebook!Queues = NotebookProofs!Queues
    /\ Notebook!Start <=> NotebookProofs!Start
    /\ Notebook!Cancel = NotebookProofs!Cancel
    /\ Notebook!Quiescent <=> NotebookProofs!Quiescent
    /\ \A s : Notebook!ToSet(s) = NotebookProofs!ToSet(s)
    /\ \A c : Notebook!KernelStarted(c) <=> NotebookProofs!KernelStarted(c)
    /\ \A q : Notebook!SessionThere(q) <=> NotebookProofs!SessionThere(q)
    /\ \A i, a : Notebook!Enqueue(i, a) <=> NotebookProofs!Enqueue(i, a)
    /\ \A q, r : Notebook!QueueBecomes(q, r) <=> NotebookProofs!QueueBecomes(q, r)
    /\ \A q, states : Notebook!AtItem(q, states) <=> NotebookProofs!AtItem(q, states)
    /\ \A q : Notebook!Fails(q) <=> NotebookProofs!Fails(q)
    /\ \A items : Notebook!Cancelled(items) = NotebookProofs!Cancelled(items)
<1>1. Notebook!Executions = NotebookProofs!Executions
  BY DEF Notebook!Executions, NotebookProofs!Executions
<1>2. Notebook!Queues = NotebookProofs!Queues
  BY DEF Notebook!Queues, NotebookProofs!Queues
<1>3. Notebook!Start <=> NotebookProofs!Start
  BY DEF Notebook!Start, NotebookProofs!Start
<1>4. Notebook!Cancel = NotebookProofs!Cancel
  BY DEF Notebook!Cancel, NotebookProofs!Cancel
<1>5. \A s : Notebook!ToSet(s) = NotebookProofs!ToSet(s)
  BY DEF Notebook!ToSet, NotebookProofs!ToSet
<1>6. \A c : Notebook!KernelStarted(c) <=> NotebookProofs!KernelStarted(c)
  BY DEF Notebook!KernelStarted, NotebookProofs!KernelStarted
<1>7. \A q : Notebook!SessionThere(q) <=> NotebookProofs!SessionThere(q)
  BY DEF Notebook!SessionThere, NotebookProofs!SessionThere
<1>8. Notebook!Quiescent <=> NotebookProofs!Quiescent
  BY <1>2, <1>6, <1>7 DEF Notebook!Quiescent, NotebookProofs!Quiescent
<1>9. \A qs : Notebook!Kept(qs) = NotebookProofs!Kept(qs)
  BY DEF Notebook!Kept, NotebookProofs!Kept
<1>10. \A i, a : Notebook!Enqueue(i, a) <=> NotebookProofs!Enqueue(i, a)
  BY <1>9 DEF Notebook!Enqueue, NotebookProofs!Enqueue
<1>11. \A q, r : Notebook!QueueBecomes(q, r) <=> NotebookProofs!QueueBecomes(q, r)
  BY <1>9 DEF Notebook!QueueBecomes, NotebookProofs!QueueBecomes
<1>12. \A q, states : Notebook!AtItem(q, states) <=> NotebookProofs!AtItem(q, states)
  BY DEF Notebook!AtItem, NotebookProofs!AtItem
<1>13. \A q : Notebook!Fails(q) <=> NotebookProofs!Fails(q)
  BY DEF Notebook!Fails, NotebookProofs!Fails
<1>14. \A items : Notebook!Cancelled(items) = NotebookProofs!Cancelled(items)
  BY <1>1 DEF Notebook!Cancelled, NotebookProofs!Cancelled
<1> QED
  BY <1>1, <1>2, <1>3, <1>4, <1>5, <1>6, <1>7, <1>8, <1>10, <1>11, <1>12, <1>13, <1>14

\* What is executed in the services is what NotebookKernelExecution describes.
LEMMA NotebookSteps ==
    ASSUME [ServicesNext]_allVars
    PROVE  [NotebookProofs!Next]_(NotebookProofs!vars)
<1>1. CASE component = "notebook" /\ Notebook!Next
  <2>1. \A c : Notebook!ExecuteCell(c) <=> NotebookProofs!ExecuteCell(c)
    BY NotebookOperators DEF Notebook!ExecuteCell, NotebookProofs!ExecuteCell
  <2>2. \A c : Notebook!QueueCell(c) <=> NotebookProofs!QueueCell(c)
    BY NotebookOperators DEF Notebook!QueueCell, NotebookProofs!QueueCell
  <2>3. \A c : Notebook!ResumeCellExecution(c) <=> NotebookProofs!ResumeCellExecution(c)
    BY NotebookOperators DEF Notebook!ResumeCellExecution, NotebookProofs!ResumeCellExecution
  <2>4. \A x : Notebook!ExecuteCode(x) <=> NotebookProofs!ExecuteCode(x)
    BY NotebookOperators DEF Notebook!ExecuteCode, NotebookProofs!ExecuteCode
  <2>5. \A q : Notebook!LoopBegins(q) <=> NotebookProofs!LoopBegins(q)
    BY NotebookOperators DEF Notebook!LoopBegins, NotebookProofs!LoopBegins
  <2>6. \A q : Notebook!ExecuteHead(q) <=> NotebookProofs!ExecuteHead(q)
    BY NotebookOperators DEF Notebook!ExecuteHead, NotebookProofs!ExecuteHead
  <2>7. ASSUME NEW q PROVE Notebook!NextItem(q) <=> NotebookProofs!NextItem(q)
    <3>1. PICK rest : rest = Tail(q.items)
      OBVIOUS
    <3>2. PICK fails : fails = Notebook!Fails(q)
      OBVIOUS
    <3>3. fails = NotebookProofs!Fails(q)
      BY <3>2, NotebookOperators DEF Notebook!Fails, NotebookProofs!Fails
    <3>4. PICK items : items = Notebook!ToSet(rest)
      OBVIOUS
    <3>5. items = NotebookProofs!ToSet(rest)
      BY <3>4, NotebookOperators
    <3>6. PICK stops : stops = (fails /\ items \cap Codes = {})
      OBVIOUS
    <3>7. PICK becomes : becomes = [q EXCEPT !.items = IF stops THEN <<>> ELSE rest,
                                             !.failed = fails]
      OBVIOUS
    <3>8. PICK gone : gone = IF fails THEN items \ Codes ELSE {}
      OBVIOUS
    <3>9. Notebook!NextItem(q) <=>
             /\ Notebook!AtItem(q, {"done", "failed"})
             /\ Notebook!QueueBecomes(q, becomes)
             /\ executionState' = [Notebook!Cancelled(gone) EXCEPT ![Head(q.items)] = "done"]
             /\ UNCHANGED <<kernel, kernelRestarted, handlersRun, handlersCode>>
      BY <3>1, <3>2, <3>4, <3>6, <3>7, <3>8 DEF Notebook!NextItem
    <3>10. NotebookProofs!NextItem(q) <=>
             /\ NotebookProofs!AtItem(q, {"done", "failed"})
             /\ NotebookProofs!QueueBecomes(q, becomes)
             /\ executionState' = [NotebookProofs!Cancelled(gone) EXCEPT ![Head(q.items)] = "done"]
             /\ UNCHANGED <<kernel, kernelRestarted, handlersRun, handlersCode>>
      BY <3>1, <3>3, <3>5, <3>6, <3>7, <3>8 DEF NotebookProofs!NextItem
    <3>11. Notebook!Cancelled(gone) = NotebookProofs!Cancelled(gone)
      BY NotebookOperators
    <3>12. Notebook!QueueBecomes(q, becomes) <=> NotebookProofs!QueueBecomes(q, becomes)
      BY NotebookOperators
    <3>13. Notebook!AtItem(q, {"done", "failed"}) <=> NotebookProofs!AtItem(q, {"done", "failed"})
      BY NotebookOperators
    <3> QED
      BY <3>9, <3>10, <3>11, <3>12, <3>13
  <2>8. \A i : Notebook!Executed(i) <=> NotebookProofs!Executed(i)
    BY NotebookOperators DEF Notebook!Executed, NotebookProofs!Executed
  <2>9. Notebook!SessionCreated <=> NotebookProofs!SessionCreated
    BY DEF Notebook!SessionCreated, NotebookProofs!SessionCreated
  <2>10. Notebook!HandlersEnd <=> NotebookProofs!HandlersEnd
    BY DEF Notebook!HandlersEnd, NotebookProofs!HandlersEnd
  <2>11. Notebook!Interrupt <=> NotebookProofs!Interrupt
    BY NotebookOperators DEF Notebook!Interrupt, NotebookProofs!Interrupt
  <2>12. Notebook!Restart <=> NotebookProofs!Restart
    BY NotebookOperators DEF Notebook!Restart, NotebookProofs!Restart
  <2>13. Notebook!SessionRestarted <=> NotebookProofs!SessionRestarted
    BY DEF Notebook!SessionRestarted, NotebookProofs!SessionRestarted
  <2>14. Notebook!EventFired <=> NotebookProofs!EventFired
    BY NotebookOperators DEF Notebook!EventFired, NotebookProofs!EventFired
  <2> QED
    BY <1>1, <2>1, <2>2, <2>3, <2>4, <2>5, <2>6, <2>7, <2>8, <2>9, <2>10, <2>11, <2>12, <2>13,
       <2>14, NotebookOperators DEF Notebook!Next, NotebookProofs!Next
<1> QED
  BY <1>1 DEF ServicesNext, allVars, notebookVars, NotebookProofs!vars

\* What the widgets' messages are made of is the same in both instances.
LEMMA WidgetOperators ==
    /\ Widgets!Messages = WidgetProofs!Messages /\ Widgets!Requests = WidgetProofs!Requests
    /\ \A m : Widgets!Parent(m) = WidgetProofs!Parent(m)
    /\ \A m : Widgets!Kind(m) = WidgetProofs!Kind(m)
    /\ \A type, id : Widgets!Message(type, id) = WidgetProofs!Message(type, id)
    /\ Widgets!NewWebview = WidgetProofs!NewWebview
    /\ \A s : Widgets!ToSet(s) = WidgetProofs!ToSet(s)
    /\ \A S : Widgets!Cardinality(S) = WidgetProofs!Cardinality(S)
    /\ \A s : Widgets!Last(s) = WidgetProofs!Last(s)
    /\ \A s : Widgets!Front(s) = WidgetProofs!Front(s)
<1>1. \A m : Widgets!Parent(m) = WidgetProofs!Parent(m)
  BY DEF Widgets!Parent, WidgetProofs!Parent
<1>2. Widgets!Messages = WidgetProofs!Messages
  BY DEF Widgets!Messages, WidgetProofs!Messages
<1>3. Widgets!Requests = WidgetProofs!Requests
  BY <1>1, <1>2 DEF Widgets!Requests, WidgetProofs!Requests
<1>4. \A m : Widgets!Kind(m) = WidgetProofs!Kind(m)
  BY DEF Widgets!Kind, WidgetProofs!Kind
<1>5. \A type, id : Widgets!Message(type, id) = WidgetProofs!Message(type, id)
  BY DEF Widgets!Message, WidgetProofs!Message
<1>6. Widgets!NewWebview = WidgetProofs!NewWebview
  BY DEF Widgets!NewWebview, WidgetProofs!NewWebview
<1>7. \A s : Widgets!ToSet(s) = WidgetProofs!ToSet(s)
  BY DEF Widgets!ToSet, WidgetProofs!ToSet
<1>8. \A S : Widgets!Cardinality(S) = WidgetProofs!Cardinality(S)
  BY DEF Widgets!Cardinality, WidgetProofs!Cardinality,
         Widgets!ExistsBijection, WidgetProofs!ExistsBijection,
         Widgets!Bijection, WidgetProofs!Bijection, Widgets!Injection, WidgetProofs!Injection,
         Widgets!Surjection, WidgetProofs!Surjection,
         Widgets!IsInjective, WidgetProofs!IsInjective
<1>9. \A s : Widgets!Last(s) = WidgetProofs!Last(s)
  BY DEF Widgets!Last, WidgetProofs!Last
<1>10. \A s : Widgets!Front(s) = WidgetProofs!Front(s)
  BY DEF Widgets!Front, WidgetProofs!Front
<1> QED
  BY <1>1, <1>2, <1>3, <1>4, <1>5, <1>6, <1>7, <1>8, <1>9, <1>10

\* So is what the handlers of both sides do.
LEMMA WidgetHandlers ==
    /\ Widgets!Settled <=> WidgetProofs!Settled
    /\ \A m : Widgets!NeedsFullHandle(m) <=> WidgetProofs!NeedsFullHandle(m)
    /\ \A type : Widgets!Receive(type) <=> WidgetProofs!Receive(type)
    /\ \A type : Widgets!Deliver(type) <=> WidgetProofs!Deliver(type)
    /\ Widgets!UnchangedInExtension <=> WidgetProofs!UnchangedInExtension
    /\ \A s, positions : Widgets!Those(s, positions) = WidgetProofs!Those(s, positions)
    /\ \A w, posts, m : Widgets!Finish(w, posts, m) <=> WidgetProofs!Finish(w, posts, m)
    /\ \A w, m : Widgets!HasHook(w, m) <=> WidgetProofs!HasHook(w, m)
    /\ \A w, m : Widgets!Hooked(w, m) = WidgetProofs!Hooked(w, m)
    /\ \A w, r : Widgets!Capture(w, r) = WidgetProofs!Capture(w, r)
    /\ \A w, r : Widgets!Release(w, r) = WidgetProofs!Release(w, r)
<1>1. Widgets!Settled <=> WidgetProofs!Settled
  BY DEF Widgets!Settled, WidgetProofs!Settled
<1>2. \A m : Widgets!NeedsFullHandle(m) <=> WidgetProofs!NeedsFullHandle(m)
  BY WidgetOperators DEF Widgets!NeedsFullHandle, WidgetProofs!NeedsFullHandle
<1>3. \A type : Widgets!Receive(type) <=> WidgetProofs!Receive(type)
  BY <1>1 DEF Widgets!Receive, WidgetProofs!Receive
<1>4. \A type : Widgets!Deliver(type) <=> WidgetProofs!Deliver(type)
  BY DEF Widgets!Deliver, WidgetProofs!Deliver
<1>5. Widgets!UnchangedInExtension <=> WidgetProofs!UnchangedInExtension
  BY DEF Widgets!UnchangedInExtension, WidgetProofs!UnchangedInExtension,
         Widgets!sending, WidgetProofs!sending, Widgets!receiving, WidgetProofs!receiving,
         Widgets!handling, WidgetProofs!handling
<1>6. \A s, positions : Widgets!Those(s, positions) = WidgetProofs!Those(s, positions)
  BY DEF Widgets!Those, WidgetProofs!Those, Widgets!Cardinality, WidgetProofs!Cardinality,
         Widgets!ExistsBijection, WidgetProofs!ExistsBijection,
         Widgets!Bijection, WidgetProofs!Bijection, Widgets!Injection, WidgetProofs!Injection,
         Widgets!Surjection, WidgetProofs!Surjection,
         Widgets!IsInjective, WidgetProofs!IsInjective
<1>7. \A w, posts, m : Widgets!Finish(w, posts, m) <=> WidgetProofs!Finish(w, posts, m)
  BY WidgetOperators DEF Widgets!Finish, WidgetProofs!Finish
<1>8. \A w, m : Widgets!HasHook(w, m) <=> WidgetProofs!HasHook(w, m)
  BY WidgetOperators DEF Widgets!HasHook, WidgetProofs!HasHook
<1>9. \A w, m : Widgets!Hooked(w, m) = WidgetProofs!Hooked(w, m)
  BY <1>8 DEF Widgets!Hooked, WidgetProofs!Hooked
<1>10. \A w, r : Widgets!Capture(w, r) = WidgetProofs!Capture(w, r)
  BY DEF Widgets!Capture, WidgetProofs!Capture
<1>11. ASSUME NEW w, NEW r PROVE Widgets!Release(w, r) = WidgetProofs!Release(w, r)
  <2>1. PICK last : last = IF w.lastHooked = <<>> THEN w.lastHooked ELSE Widgets!Front(w.lastHooked)
    OBVIOUS
  <2>2. last = IF w.lastHooked = <<>> THEN w.lastHooked ELSE WidgetProofs!Front(w.lastHooked)
    BY <2>1, WidgetOperators
  <2>3. Widgets!Release(w, r) =
            [w EXCEPT !.hooks = @ \ {r}, !.awaiting = @ \cup {<<r, "remove">>}, !.lastHooked = last]
    BY <2>1 DEF Widgets!Release
  <2>4. WidgetProofs!Release(w, r) =
            [w EXCEPT !.hooks = @ \ {r}, !.awaiting = @ \cup {<<r, "remove">>}, !.lastHooked = last]
    BY <2>2 DEF WidgetProofs!Release
  <2> QED
    BY <2>3, <2>4
<1> QED
  BY <1>1, <1>2, <1>3, <1>4, <1>5, <1>6, <1>7, <1>8, <1>9, <1>10, <1>11

\* What widgets and the extension do in the services is what WidgetMessages describes.
LEMMA WidgetSteps ==
    ASSUME [ServicesNext]_allVars
    PROVE  [WidgetProofs!Next]_(WidgetProofs!vars)
<1>1. CASE component = "widgets" /\ Widgets!Next
  <2>1. Widgets!Request <=> WidgetProofs!Request
    BY WidgetOperators DEF Widgets!Request, WidgetProofs!Request,
       Widgets!receiving, WidgetProofs!receiving, Widgets!handling, WidgetProofs!handling
  <2>2. Widgets!MirrorSend <=> WidgetProofs!MirrorSend
    BY WidgetOperators DEF Widgets!MirrorSend, WidgetProofs!MirrorSend,
       Widgets!receiving, WidgetProofs!receiving, Widgets!handling, WidgetProofs!handling
  <2>3. Widgets!Emit <=> WidgetProofs!Emit
    BY WidgetOperators DEF Widgets!Emit, WidgetProofs!Emit,
       Widgets!sending, WidgetProofs!sending, Widgets!handling, WidgetProofs!handling
  <2>4. Widgets!SocketMessage <=> WidgetProofs!SocketMessage
    BY WidgetOperators, WidgetHandlers DEF Widgets!SocketMessage, WidgetProofs!SocketMessage,
       Widgets!sending, WidgetProofs!sending
  <2>5. Widgets!HandleMessage <=> WidgetProofs!HandleMessage
    BY WidgetOperators DEF Widgets!HandleMessage, WidgetProofs!HandleMessage,
       Widgets!sending, WidgetProofs!sending, Widgets!receiving, WidgetProofs!receiving
  <2>6. Widgets!Restart <=> WidgetProofs!Restart
    BY WidgetOperators DEF Widgets!Restart, WidgetProofs!Restart
  <2>7. Widgets!OnReceived <=> WidgetProofs!OnReceived
    BY WidgetOperators, WidgetHandlers DEF Widgets!OnReceived, WidgetProofs!OnReceived,
       Widgets!handling, WidgetProofs!handling
  <2>8. Widgets!OnHandled <=> WidgetProofs!OnHandled
    BY WidgetHandlers DEF Widgets!OnHandled, WidgetProofs!OnHandled,
       Widgets!sending, WidgetProofs!sending
  <2>9. Widgets!OnRegister <=> WidgetProofs!OnRegister
    BY WidgetOperators, WidgetHandlers DEF Widgets!OnRegister, WidgetProofs!OnRegister,
       Widgets!sending, WidgetProofs!sending, Widgets!receiving, WidgetProofs!receiving,
       Widgets!handling, WidgetProofs!handling
  <2>10. Widgets!OnRemove <=> WidgetProofs!OnRemove
    BY WidgetOperators, WidgetHandlers DEF Widgets!OnRemove, WidgetProofs!OnRemove,
       Widgets!sending, WidgetProofs!sending, Widgets!receiving, WidgetProofs!receiving,
       Widgets!handling, WidgetProofs!handling
  <2>11. Widgets!OnHookResult <=> WidgetProofs!OnHookResult
    BY WidgetOperators, WidgetHandlers DEF Widgets!OnHookResult, WidgetProofs!OnHookResult,
       Widgets!sending, WidgetProofs!sending, Widgets!receiving, WidgetProofs!receiving
  <2>12. Widgets!DeliverMirror <=> WidgetProofs!DeliverMirror
    BY WidgetOperators, WidgetHandlers DEF Widgets!DeliverMirror, WidgetProofs!DeliverMirror
  <2>13. Widgets!DeliverMessage <=> WidgetProofs!DeliverMessage
    BY WidgetOperators, WidgetHandlers DEF Widgets!DeliverMessage, WidgetProofs!DeliverMessage
  <2>14. Widgets!DeliverHookCall <=> WidgetProofs!DeliverHookCall
    BY WidgetOperators, WidgetHandlers DEF Widgets!DeliverHookCall, WidgetProofs!DeliverHookCall
  <2>15. Widgets!DeliverFinished <=> WidgetProofs!DeliverFinished
    BY WidgetOperators, WidgetHandlers DEF Widgets!DeliverFinished, WidgetProofs!DeliverFinished
  <2>16. Widgets!DeliverRestart <=> WidgetProofs!DeliverRestart
    BY WidgetOperators, WidgetHandlers DEF Widgets!DeliverRestart, WidgetProofs!DeliverRestart
  <2>17. Widgets!WebviewHandles <=> WidgetProofs!WebviewHandles
    BY WidgetOperators, WidgetHandlers DEF Widgets!WebviewHandles, WidgetProofs!WebviewHandles
  <2>18. Widgets!ModelCreated <=> WidgetProofs!ModelCreated
    BY WidgetHandlers DEF Widgets!ModelCreated, WidgetProofs!ModelCreated
  <2> QED
    BY <1>1, <2>1, <2>2, <2>3, <2>4, <2>5, <2>6, <2>7, <2>8, <2>9, <2>10, <2>11, <2>12, <2>13,
       <2>14, <2>15, <2>16, <2>17, <2>18 DEF Widgets!Next, WidgetProofs!Next
<1> QED
  BY <1>1 DEF ServicesNext, allVars, widgetVars, WidgetProofs!vars

\* The constants are what the proofs about widgets assume.
LEMMA WidgetAssumptions == WidgetProofs!Assumptions
<1>1. WidgetProofs!Typed
  BY NoneAssumption, ScriptAssumption DEF WidgetProofs!Typed
<1>2. \A m : Widgets!Capturing(m) <=> WidgetProofs!Capturing(m)
  BY WidgetOperators DEF Widgets!Capturing, WidgetProofs!Capturing
<1>3. \A m : Widgets!Opened(m) <=> WidgetProofs!Opened(m)
  BY WidgetOperators DEF Widgets!Opened, WidgetProofs!Opened
<1>4. WidgetProofs!Protocol
  BY <1>2, <1>3, WidgetOperators, ProtocolAssumption DEF Widgets!Protocol, WidgetProofs!Protocol
<1> QED
  BY <1>1, <1>4 DEF WidgetProofs!Assumptions

LEMMA WidgetsInit == Widgets!Init => WidgetProofs!Init
BY WidgetOperators DEF Widgets!Init, WidgetProofs!Init

-----------------------------------------------------------------------------
(* Theorems *)

\* The types of all components, and what they say of a listener subscribed once, of the entries
\* of the delivery queue, of a cell in one queue at a time, of the attempt that is cached, of
\* kernels that are mapped, of messages on their way and of processes that are awaited.
THEOREM ServicesTypeCorrect == Services => []ServicesTypeOK
<1>1. Services => []TypeOK
  <2>1. ServicesInit => TypeOK
    BY TypeInit DEF ServicesInit
  <2>2. TypeOK /\ [ServicesNext]_allVars => TypeOK'
    <3>1. [ServicesNext]_allVars => [Next]_vars
      BY DEF ServicesNext, allVars
    <3> QED
      BY <3>1, TypeStep
  <2> QED
    BY <2>1, <2>2, PTL DEF Services
<1>2. Services => []Emitter!TypeOK
  <2>1. ServicesInit => EmitterInv /\ FiredOnce
    <3>1. ASSUME ServicesInit PROVE EmitterInv /\ FiredOnce
      <4>1. EmitterInv /\ firedEvents = <<>>
        BY <3>1, EmitterInvInit DEF ServicesInit, Emitter!Init
      <4>2. DOMAIN firedEvents = {}
        BY <4>1
      <4> QED
        BY <4>1, <4>2 DEF FiredOnce, IsInjective
    <3> QED
      BY <3>1
  <2>2. EmitterInv /\ FiredOnce /\ [ServicesNext]_allVars => (EmitterInv /\ FiredOnce)'
    BY EmitterSteps, EmitterInvNext, FiredOnceNext DEF EmitterInv
  <2> QED
    BY <2>1, <2>2, EmitterTypes, PTL DEF Services
<1>3. Services => []Notebook!TypeOK
  <2>1. ServicesInit => NotebookProofs!Init
    BY DEF ServicesInit, Notebook!Init, NotebookProofs!Init,
           Notebook!Executions, NotebookProofs!Executions
  <2>2. [ServicesNext]_allVars => [NotebookProofs!Next]_(NotebookProofs!vars)
    BY NotebookSteps
  <2>3. NotebookProofs!Init /\ [][NotebookProofs!Next]_(NotebookProofs!vars)
          => []NotebookProofs!TypeOK
    BY NotebookProofs!EachInOneQueue
  <2>4. NotebookProofs!TypeOK => Notebook!TypeOK
    BY NotebookOperators DEF NotebookProofs!TypeOK, Notebook!TypeOK
  <2> QED
    BY <2>1, <2>2, <2>3, <2>4, PTL DEF Services
<1>4. Services => []Connector!TypeOK
  <2>1. ServicesInit => ConnectorInv /\ ConnectorTypes
    BY ConnectorInvInit, ConnectorTypesInit DEF ServicesInit
  <2>2. ConnectorInv /\ ConnectorTypes /\ [ServicesNext]_allVars
          => (ConnectorInv /\ ConnectorTypes)'
    <3>1. [ServicesNext]_allVars => [Connector!Next]_connectorVars
      BY DEF ServicesNext, allVars, connectorVars
    <3> QED
      BY <3>1, ConnectorInvNext, ConnectorTypesNext DEF ConnectorInv
  <2>3. ConnectorTypes => Connector!TypeOK
    BY DEF ConnectorTypes
  <2> QED
    BY <2>1, <2>2, <2>3, PTL DEF Services
<1>5. Services => []Provider!TypeOK
  <2>1. ServicesInit => ProviderInv
    BY ProviderInvInit DEF ServicesInit
  <2>2. ProviderInv /\ [ServicesNext]_allVars => ProviderInv'
    BY ProviderSteps, ProviderInvNext
  <2>3. ProviderInv => Provider!TypeOK
    BY DEF ProviderInv, ProviderTypes
  <2> QED
    BY <2>1, <2>2, <2>3, PTL DEF Services
<1>6. Services => []Widgets!TypeOK
  <2>1. ServicesInit => WidgetProofs!Agreed
    BY WidgetsInit, WidgetAssumptions, WidgetProofs!AgreedInit DEF ServicesInit
  <2>2. WidgetProofs!Agreed /\ [ServicesNext]_allVars => WidgetProofs!Agreed'
    BY WidgetSteps, WidgetAssumptions, WidgetProofs!AgreedNext
  <2>3. WidgetProofs!Agreed => Widgets!TypeOK
    <3>1. WidgetProofs!TypeOK => Widgets!TypeOK
      BY WidgetOperators DEF WidgetProofs!TypeOK, Widgets!TypeOK
    <3> QED
      BY <3>1, WidgetAssumptions, WidgetProofs!AgreedTypes
  <2> QED
    BY <2>1, <2>2, <2>3, PTL DEF Services
<1>7. Services => []Raw!TypeOK
  <2>1. ServicesInit => RawProofs!Init
    BY DEF ServicesInit, Raw!Init, RawProofs!Init, Raw!Idle, RawProofs!Idle
  <2>2. [ServicesNext]_allVars => [RawProofs!Next]_(RawProofs!vars)
    BY RawSteps
  <2>3. RawProofs!Init /\ [][RawProofs!Next]_(RawProofs!vars) => []RawProofs!TypeOK
    BY NoneAssumption, RawProofs!RawTypeCorrect
  <2>4. RawProofs!TypeOK => Raw!TypeOK
    BY RawOperators DEF RawProofs!TypeOK, Raw!TypeOK
  <2> QED
    BY <2>1, <2>2, <2>3, <2>4, PTL DEF Services
<1>8. /\ TypeOK /\ Emitter!TypeOK /\ Notebook!TypeOK /\ Connector!TypeOK /\ Provider!TypeOK
      /\ Widgets!TypeOK /\ Raw!TypeOK
      => ServicesTypeOK
  BY DEF ServicesTypeOK
<1> QED
  BY <1>1, <1>2, <1>3, <1>4, <1>5, <1>6, <1>7, <1>8, PTL

\* kernelsByNotebook and kernelsById agree and hold no disposed kernel (KernelProvider).
THEOREM ServicesMapsAgree == Services => []KernelMapsAgree
<1>1. ServicesInit => ProviderInv
  BY ProviderInvInit DEF ServicesInit
<1>2. ProviderInv /\ [ServicesNext]_allVars => ProviderInv'
  BY ProviderSteps, ProviderInvNext
<1>3. ProviderInv => KernelMapsAgree
  BY DEF ProviderInv, KernelMapsAgree
<1> QED
  BY <1>1, <1>2, <1>3, PTL DEF Services

\* A kernel nobody disposes is that of its notebook: one that was replaced, or whose notebook is
\* closed, is being disposed of, whichever order the provider's calls and the ends of sessions
\* come in (KernelProvider).
THEOREM ServicesNoOrphan == Services => []NoOrphanKernel
<1>1. ServicesInit => ProviderInv
  BY ProviderInvInit DEF ServicesInit
<1>2. ProviderInv /\ [ServicesNext]_allVars => ProviderInv'
  BY ProviderSteps, ProviderInvNext
<1>3. ProviderInv => NoOrphanKernel
  BY DEF ProviderInv, NoOrphanKernel
<1> QED
  BY <1>1, <1>2, <1>3, PTL DEF Services

\* Deactivation waits for every session to be closed (KernelProvider).
THEOREM ServicesDeactivation == Services => []DeactivationWaits
<1>1. ServicesInit => ProviderInv
  BY ProviderInvInit DEF ServicesInit
<1>2. ProviderInv /\ [ServicesNext]_allVars => ProviderInv'
  BY ProviderSteps, ProviderInvNext
<1>3. ProviderInv => DeactivationWaits
  BY DEF ProviderInv, DeactivationInv, DeactivationWaits
<1> QED
  BY <1>1, <1>2, <1>3, PTL DEF Services

\* A listener is called with the events in the order they were fired (AsyncEmitter).
THEOREM ServicesEventsInOrder == Services => []EventsInOrder
<1>1. ServicesInit => EmitterInv
  BY EmitterInvInit DEF ServicesInit
<1>2. EmitterInv /\ [ServicesNext]_allVars => EmitterInv'
  BY EmitterSteps, EmitterInvNext
<1>3. EmitterInv => EventsInOrder
  BY InOrderAlways DEF EventsInOrder
<1> QED
  BY <1>1, <1>2, <1>3, PTL DEF Services

\* Who was subscribed when an event was fired has been called with it when its fireAsync
\* returns, unless it was cancelled (AsyncEmitter).
THEOREM ServicesNobodyMissed == Services => []NoListenerMissed
<1>1. ServicesInit => EmitterInv
  BY EmitterInvInit DEF ServicesInit
<1>2. EmitterInv /\ [ServicesNext]_allVars => EmitterInv'
  BY EmitterSteps, EmitterInvNext
<1>3. EmitterInv => NoListenerMissed
  BY NobodyIsMissed DEF NoListenerMissed
<1> QED
  BY <1>1, <1>2, <1>3, PTL DEF Services

\* The connection's process is the only one that runs and that nobody disposes
\* (RawKernelConnection).
THEOREM ServicesOneProcess == Services => []OneProcess
<1>1. ServicesInit => RawProofs!Init
  BY DEF ServicesInit, Raw!Init, RawProofs!Init, Raw!Idle, RawProofs!Idle
<1>2. [ServicesNext]_allVars => [RawProofs!Next]_(RawProofs!vars)
  BY RawSteps
<1>3. RawProofs!Init /\ [][RawProofs!Next]_(RawProofs!vars) => []RawProofs!OneProcess
  BY NoneAssumption, RawProofs!RawOneProcess
<1>4. RawProofs!OneProcess => OneProcess
  BY DEF RawProofs!OneProcess, OneProcess, Raw!OneProcess, RawProofs!Processes, Raw!Processes,
         RawProofs!Live, Raw!Live
<1> QED
  BY <1>1, <1>2, <1>3, <1>4, PTL DEF Services

\* The status of the connection tells whether its process runs (RawKernelConnection).
THEOREM ServicesStatus == Services => []StatusAgrees
<1>1. ServicesInit => RawProofs!Init
  BY DEF ServicesInit, Raw!Init, RawProofs!Init, Raw!Idle, RawProofs!Idle
<1>2. [ServicesNext]_allVars => [RawProofs!Next]_(RawProofs!vars)
  BY RawSteps
<1>3. RawProofs!Init /\ [][RawProofs!Next]_(RawProofs!vars) => []RawProofs!StatusAgrees
  BY NoneAssumption, RawProofs!RawStatusAgrees
<1>4. RawProofs!StatusAgrees => StatusAgrees
  BY DEF RawProofs!StatusAgrees, StatusAgrees, Raw!StatusAgrees,
         RawProofs!Live, Raw!Live, RawProofs!Status, Raw!Status
<1> QED
  BY <1>1, <1>2, <1>3, <1>4, PTL DEF Services

\* A session that was released leaves no process and no socket (RawKernelConnection).
THEOREM ServicesNothingLeft == Services => []NothingLeft
<1>1. ServicesInit => RawProofs!Init
  BY DEF ServicesInit, Raw!Init, RawProofs!Init, Raw!Idle, RawProofs!Idle
<1>2. [ServicesNext]_allVars => [RawProofs!Next]_(RawProofs!vars)
  BY RawSteps
<1>3. RawProofs!Init /\ [][RawProofs!Next]_(RawProofs!vars) => []RawProofs!NothingLeft
  BY NoneAssumption, RawProofs!RawNothingLeft
<1>4. RawProofs!NothingLeft => NothingLeft
  BY DEF RawProofs!NothingLeft, NothingLeft, Raw!NothingLeft, RawProofs!Processes, Raw!Processes,
         RawProofs!Live, Raw!Live
<1> QED
  BY <1>1, <1>2, <1>3, <1>4, PTL DEF Services

\* The exit of a process stops no other (RawKernelConnection).
THEOREM ServicesExits == Services => ExitStopsNoOther
<1>1. ServicesInit => RawProofs!Init
  BY DEF ServicesInit, Raw!Init, RawProofs!Init, Raw!Idle, RawProofs!Idle
<1>2. [ServicesNext]_allVars => [RawProofs!Next]_(RawProofs!vars)
  BY RawSteps
<1>3. RawProofs!Init /\ [][RawProofs!Next]_(RawProofs!vars) => RawProofs!ExitStopsNoOther
  BY NoneAssumption, RawProofs!RawExitStopsNoOther
<1>4. RawProofs!ExitStopsNoOther => ExitStopsNoOther
  BY DEF RawProofs!ExitStopsNoOther, ExitStopsNoOther, Raw!ExitStopsNoOther,
         RawProofs!Processes, Raw!Processes, RawProofs!Live, Raw!Live,
         RawProofs!vars, Raw!vars
<1> QED
  BY <1>1, <1>2, <1>3, <1>4, PTL DEF Services

\* A queue of the notebook that was replaced starts no cell (NotebookKernelExecution).
THEOREM ServicesReplaced == Services => ReplacedStartsNoCell
<1>1. ServicesInit => NotebookProofs!Init
  BY DEF ServicesInit, Notebook!Init, NotebookProofs!Init,
         Notebook!Executions, NotebookProofs!Executions
<1>2. [ServicesNext]_allVars => [NotebookProofs!Next]_(NotebookProofs!vars)
  BY NotebookSteps
<1>3. NotebookProofs!Init /\ [][NotebookProofs!Next]_(NotebookProofs!vars)
        => NotebookProofs!ReplacedStartsNoCell
  BY NotebookProofs!ReplacedIsDone
<1>4. NotebookProofs!ReplacedStartsNoCell => ReplacedStartsNoCell
  BY DEF NotebookProofs!ReplacedStartsNoCell, ReplacedStartsNoCell,
         Notebook!ReplacedStartsNoCell, NotebookProofs!ToSet, Notebook!ToSet,
         NotebookProofs!vars, Notebook!vars
<1> QED
  BY <1>1, <1>2, <1>3, <1>4, PTL DEF Services

\* No cell of the user starts before the handlers of the kernel's first start have ended
\* (NotebookKernelExecution).
THEOREM ServicesHandlersFirst == Services => HandlersFirst
<1>1. ServicesInit => NotebookProofs!Init
  BY DEF ServicesInit, Notebook!Init, NotebookProofs!Init,
         Notebook!Executions, NotebookProofs!Executions
<1>2. [ServicesNext]_allVars => [NotebookProofs!Next]_(NotebookProofs!vars)
  BY NotebookSteps
<1>3. NotebookProofs!Init /\ [][NotebookProofs!Next]_(NotebookProofs!vars)
        => NotebookProofs!HandlersFirst
  BY ExecutionsAssumption, NotebookProofs!HandlersComeFirst
<1>4. NotebookProofs!HandlersFirst => HandlersFirst
  BY DEF NotebookProofs!HandlersFirst, HandlersFirst, Notebook!HandlersFirst,
         NotebookProofs!vars, Notebook!vars
<1> QED
  BY <1>1, <1>2, <1>3, <1>4, PTL DEF Services

\* Without restarts and interrupts of the user one attempt at a time starts the notebook's
\* kernel: the cached one, which all calls share (wrapKernelMethod of KernelConnector).
THEOREM ServicesOneStart == Services => []OneStart
<1>1. ServicesInit => ConnectorInv
  BY ConnectorInvInit DEF ServicesInit
<1>2. ConnectorInv /\ [ServicesNext]_allVars => ConnectorInv'
  <2>1. [ServicesNext]_allVars => [Connector!Next]_connectorVars
    BY DEF ServicesNext, allVars, connectorVars
  <2> QED
    BY <2>1, ConnectorInvNext
<1>3. ConnectorInv => OneStart
  BY DEF ConnectorInv, OnlyStarts, StartIsCached, OneStart, Connector!OneStart
<1> QED
  BY <1>1, <1>2, <1>3, PTL DEF Services

\* When every operation on the file has ended, what a notebook executes is known with its cell,
\* also after the window was loaded again; what returned and was deleted, or was never announced,
\* is not (the chain of promises of LastCellExecutionTracker).  Not claimed of executions that
\* were announced after they had returned, failed, or are over and deleted too late for a reload.
THEOREM ServicesExecutionKnown == Services => []ExecutionKnown
<1>1. ServicesInit => TrackerInv
  BY TrackerInvInit DEF ServicesInit
<1>2. TrackerInv /\ [ServicesNext]_allVars => TrackerInv'
  <2>1. [ServicesNext]_allVars => [Tracker!Next]_trackerVars
    BY DEF ServicesNext, allVars, trackerVars
  <2> QED
    BY <2>1, TrackerInvNext
<1>3. TrackerInv => ExecutionKnown
  BY KnownAtTheEnd DEF ExecutionKnown
<1> QED
  BY <1>1, <1>2, <1>3, PTL DEF Services

\* An output that widgets and the cell compete for is shown in the cell or captured by a widget,
\* or a restart cut it off: the extension drops it only on a hook result of the webview's widget
\* (handleMessageHookResponse of IPyWidgetMessageDispatcher, sendHookResult of ProxyKernel).
THEOREM ServicesNoOutputLost == Services => []NoWidgetOutputLost
<1>1. ServicesInit => WidgetProofs!WidgetInv
  BY WidgetsInit, WidgetProofs!WidgetInvInit DEF ServicesInit
<1>2. WidgetProofs!WidgetInv /\ [ServicesNext]_allVars => WidgetProofs!WidgetInv'
  BY WidgetSteps, WidgetAssumptions, WidgetProofs!WidgetInvNext DEF WidgetProofs!Assumptions
<1>3. WidgetProofs!WidgetInv => NoWidgetOutputLost
  <2>1. WidgetProofs!NoOutputLost => Widgets!NoOutputLost
    BY WidgetOperators DEF WidgetProofs!NoOutputLost, Widgets!NoOutputLost
  <2> QED
    BY <2>1, WidgetProofs!NoneLost DEF NoWidgetOutputLost
<1> QED
  BY <1>1, <1>2, <1>3, PTL DEF Services

\* An output that a widget captured is not shown in the cell as well, whatever the kernel emits
\* that follows its protocol and whenever it is restarted, but when the extension asked about it
\* before the webview had it, or its request has captured and released before: the extension
\* registers and removes the hook between the same two messages as the webview
\* (registerMessageHook and possiblyRemoveMessageHook of IPyWidgetMessageDispatcher).
THEOREM ServicesNoOutputTwice == Services => []NoWidgetOutputTwice
<1>1. ServicesInit => WidgetProofs!Agreed
  BY WidgetsInit, WidgetAssumptions, WidgetProofs!AgreedInit DEF ServicesInit
<1>2. WidgetProofs!Agreed /\ [ServicesNext]_allVars => WidgetProofs!Agreed'
  BY WidgetSteps, WidgetAssumptions, WidgetProofs!AgreedNext
<1>3. WidgetProofs!Agreed => NoWidgetOutputTwice
  <2>1. \A m : Widgets!ReleasedBefore(m) <=> WidgetProofs!ReleasedBefore(m)
    BY WidgetOperators DEF Widgets!ReleasedBefore, WidgetProofs!ReleasedBefore
  <2>2. WidgetProofs!NoOutputTwice => Widgets!NoOutputTwice
    BY <2>1 DEF WidgetProofs!NoOutputTwice, Widgets!NoOutputTwice
  <2> QED
    BY <2>2, WidgetProofs!AgreedShowsOnce DEF NoWidgetOutputTwice
<1> QED
  BY <1>1, <1>2, <1>3, PTL DEF Services

=============================================================================

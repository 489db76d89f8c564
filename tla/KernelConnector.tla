--------------------------- MODULE KernelConnector ---------------------------
(***************************************************************************)
(* How the calls of a notebook get their kernel (KernelConnector): to      *)
(* execute cells, to start the kernel quietly when it is selected, to      *)
(* restart and to interrupt it.  The attempt to start a kernel is cached   *)
(* and shared.  An attempt asks the user about a dead kernel, and what to  *)
(* do about an error; it may go on with another kernel.                    *)
(*                                                                         *)
(* Kernels are those the provider makes for one notebook; KernelLifecycle  *)
(* models what goes on in one.                                             *)
(***************************************************************************)
EXTENDS Integers, Sequences, SequencesExt, FiniteSets

CONSTANTS
    Users,       \* calls that start the kernel to execute cells
    Quiet,       \* calls with disableUI: they start it in the background
    Restarts, Interrupts,
    MaxKernels   \* bound on the kernels of the notebook

Calls == Users \cup Quiet \cup Restarts \cup Interrupts
Attempts == 1 .. Cardinality(Calls) + 2

VARIABLES
    closed,      \* the notebook
    kernels,     \* "created", "starting", "live", "dead", "ended" (its session has), "disposing",
                 \* "disposed", or "disposed dead" when its session had ended
    attempts,    \* of wrapKernelMethodImpl: who calls it and what for, the kernel, what it does,
                 \* and whether its dead kernel was asked about (deadKernelAction)
    cached,      \* connectionsByNotebook: an attempt, or 0
    calls,       \* what they wait for; told: kernelWasRestartedDueToDeadKernel
    disableUI    \* of their options, which joiners of an attempt may change

connectorVars == <<closed, kernels, attempts, cached, calls, disableUI>>

NoAttempt == [call |-> "nobody", initial |-> "start", context |-> "start", kernel |-> 0,
              at |-> "failed", asked |-> "no"]

Init ==
    /\ closed = FALSE /\ kernels = <<>>
    /\ attempts = [a \in Attempts |-> NoAttempt] /\ cached = 0
    /\ calls = [c \in Calls |-> [at |-> "idle", attempt |-> 0, told |-> FALSE]]
    /\ disableUI = [c \in Calls |-> c \in Quiet]

\* A call of both Restarts and Interrupts is either.
Actions(c) ==
    {action \in {"start", "restart", "interrupt"} :
        \/ action = "start" /\ c \in Users \cup Quiet
        \/ action = "restart" /\ c \in Restarts
        \/ action = "interrupt" /\ c \in Interrupts}

Waits(c, a) == calls[c].at = "waits" /\ calls[c].attempt = a
Settled(a) == attempts[a].at \in {"done", "failed"}
Unused(a) == a # cached /\ \A c \in Calls : ~Waits(c, a)

\* kernel.start() has an answer.
Started(a) ==
    /\ attempts[a].at = "acts" /\ attempts[a].context = "start"
    /\ attempts[a].kernel \in {k \in DOMAIN kernels : kernels[k] \notin {"starting", "disposing"}}

\* Nobody awaits what is settled when something comes from outside.
Quiescent == \A a \in Attempts : ~Started(a) /\ \A c \in Calls : Waits(c, a) => ~Settled(a)

-----------------------------------------------------------------------------
(* Kernels                                                                 *)

IsKernelDead(status) == status \in {"dead", "ended", "disposed dead"}
IsDisposed(status) == status \in {"disposed", "disposed dead"}

\* kernel.dispose(): a kernel that is starting is disposed when its start has ended.
Dispose(ks, k) ==
    [ks EXCEPT ![k] = CASE @ = "starting" -> "disposing"
                        [] @ = "disposing" \/ IsDisposed(@) -> @
                        [] @ = "ended" -> "disposed dead"
                        [] OTHER -> "disposed"]

\* kernelProvider.getOrCreate
GetOrCreate(ks) == IF ks # <<>> /\ ~IsDisposed(Last(ks)) THEN ks ELSE Append(ks, "created")

\* What the cache is when kernels have become ks: onDisposed deletes what was done.
CacheAfter(ks) ==
    IF cached # 0 /\ attempts[cached].at = "done" /\ IsDisposed(ks[attempts[cached].kernel])
                  /\ ~IsDisposed(kernels[attempts[cached].kernel])
    THEN 0 ELSE cached

-----------------------------------------------------------------------------
(* Attempts                                                                *)

\* The loop of wrapKernelMethodImpl begins for an attempt, with the kernels before.
Begin(a, attempt, context, before) ==
    LET ks == GetOrCreate(before)
        k == Len(ks)
        asks == attempt.initial # "restart" /\ ~disableUI[attempt.call] /\ IsKernelDead(ks[k])
    IN  /\ kernels' = IF context = "start" /\ ks[k] \in {"created", "ended"} /\ ~asks
                      THEN [ks EXCEPT ![k] = "starting"] ELSE ks
        /\ attempts' = [attempts EXCEPT ![a] = [attempt EXCEPT !.context = context, !.kernel = k,
                                                              !.at = IF asks THEN "asks" ELSE "acts"]]

WaitFor(c, a, told, before) ==
    calls' = [before EXCEPT ![c] = [at |-> "waits", attempt |-> a, told |-> told]]

\* A kernel that is not trusted (verifyWeCanStartKernel) fails its attempt at once: left out.
NewAttempt(c, action, told, before) ==
    LET a == CHOOSE a \in Attempts : Unused(a)
    IN  /\ Begin(a, [NoAttempt EXCEPT !.call = c, !.initial = action], action, kernels)
        /\ cached' = a
        /\ WaitFor(c, a, told, before)

\* Mutant: an attempt under way is not joined.
WrapMutant(c, action, told, entry, before) ==
    NewAttempt(c, action, told, before) /\ UNCHANGED disableUI

\* wrapKernelMethod: a call joins the cached attempt, with its UI, or makes one.
Wrap(c, action, told, entry, before) ==
    LET over == ~disableUI[c] /\ entry # 0 /\ attempts[entry].at = "done"
                /\ kernels[attempts[entry].kernel] \in {"disposing", "disposed", "disposed dead"}
    IN  /\ disableUI' = IF entry # 0 /\ ~disableUI[c]
                        THEN [disableUI EXCEPT ![attempts[entry].call] = FALSE] ELSE disableUI
        /\ \/ /\ entry # 0 /\ ~over /\ action = "start"
              /\ WaitFor(c, entry, told, before)
              /\ cached' = entry
              /\ UNCHANGED <<kernels, attempts>>
           \/ /\ entry = 0 \/ over \/ action # "start"
              /\ ~closed
              /\ NewAttempt(c, action, told, before)
           \/ /\ entry = 0 \/ over \/ action # "start"
              /\ closed
              /\ calls' = [before EXCEPT ![c].at = "thrown"]
              /\ cached' = 0
              /\ UNCHANGED <<kernels, attempts>>

\* A kernel is restarted or interrupted when there is one.
Call(c) ==
    /\ Quiescent /\ ~closed
    /\ calls[c].at = "idle"
    /\ \E action \in Actions(c) :
          /\ action # "start" => kernels # <<>> /\ ~IsDisposed(Last(kernels))
          /\ Wrap(c, action, FALSE, cached, calls)
    /\ UNCHANGED closed

\* An attempt ends, with what was asked, or goes on with the handling of an error.
Ends(a, asked) ==
    /\ attempts' = [attempts EXCEPT ![a].at = "done", ![a].asked = asked]
    /\ UNCHANGED cached

Throws(a, cancelled) ==
    IF disableUI[attempts[a].call] \/ closed
    THEN /\ attempts' = [attempts EXCEPT ![a].at = "failed"]
         /\ cached' = IF cached = a THEN 0 ELSE cached
    ELSE /\ attempts' = [attempts EXCEPT ![a].at = IF cancelled THEN "cancelled" ELSE "handles"]
         /\ UNCHANGED cached

\* What a kernel is when its start or restart returns, or throws ("created").
Outcomes(context, status) ==
    CASE status = "disposing" \/ IsDisposed(status) -> {"cancelled"}
      [] context = "start" /\ status # "starting" -> {status}
      [] context = "interrupt" -> {status, "error"} \ {"starting"}
      [] OTHER -> {"live", "dead", "created"}

\* kernel.start, restart or interrupt returns or throws.
Acts(a) ==
    /\ attempts[a].at = "acts"
    /\ LET k == attempts[a].kernel
           context == attempts[a].context
       IN  \E outcome \in Outcomes(context, kernels[k]) :
              /\ kernels' = IF outcome \in {"cancelled", "error"} THEN kernels
                            ELSE [kernels EXCEPT ![k] = outcome]
              /\ IF outcome \in {"cancelled", "error"} \/ closed
                       \/ (outcome = "created" /\ context # "interrupt")
                 THEN Throws(a, outcome = "cancelled" \/ closed)
                 ELSE IF IsKernelDead(outcome) /\ ~disableUI[attempts[a].call] /\ context # "interrupt"
                 THEN /\ attempts' = [attempts EXCEPT ![a].at = "asks again"]
                      /\ UNCHANGED cached
                 ELSE Ends(a, "no")
    /\ UNCHANGED <<closed, calls, disableUI>>

Tell(c) == [calls EXCEPT ![c].told = TRUE]

\* notifyAndRestartDeadKernel: the user does not restart the kernel, or it is restarted.
NotRestarted(a) ==
    /\ Quiescent
    /\ attempts[a].at \in {"asks", "asks again"}
    /\ Ends(a, IF attempts[a].at = "asks" THEN "not restarted" ELSE "no")
    /\ UNCHANGED <<closed, kernels, calls, disableUI>>

RestartChosen(a) ==
    /\ Quiescent
    /\ attempts[a].at \in {"asks", "asks again"}
    /\ attempts' = [attempts EXCEPT ![a].at = IF @ = "asks" THEN "restarts" ELSE "restarts again"]
    /\ UNCHANGED <<closed, kernels, cached, calls, disableUI>>

KernelRestarted(a) ==
    /\ Quiescent
    /\ attempts[a].at \in {"restarts", "restarts again"}
    /\ LET k == attempts[a].kernel
           first == attempts[a].at = "restarts"
       IN  \E outcome \in Outcomes("restart", kernels[k]) :
              /\ kernels' = IF outcome = "cancelled" THEN kernels ELSE [kernels EXCEPT ![k] = outcome]
              /\ IF outcome \in {"cancelled", "created"} THEN Throws(a, outcome = "cancelled")
                 ELSE Ends(a, IF first THEN "restarted" ELSE "no")
              /\ calls' = IF first THEN Tell(attempts[a].call) ELSE calls
    /\ UNCHANGED <<closed, disableUI>>

\* handleKernelError disposes the kernel; the user gives up, or has closed the notebook ...
GivesUp(a) ==
    /\ Quiescent
    /\ attempts[a].at \in {"handles", "cancelled"}
    /\ attempts' = [attempts EXCEPT ![a].at = "failed"]
    /\ kernels' = Dispose(kernels, attempts[a].kernel)
    /\ cached' = IF cached = a THEN 0 ELSE CacheAfter(kernels')
    /\ UNCHANGED <<closed, calls, disableUI>>

\* ... or installs what was missing, or selects another kernel, which replaces this one.
GoesOn(a) ==
    /\ Quiescent
    /\ attempts[a].at = "handles"
    /\ Len(kernels) < MaxKernels
    /\ ~closed
    /\ LET ks == Dispose(kernels, attempts[a].kernel)
       IN  \E before \in {ks, Append(Dispose(ks, Len(ks)), "created")} :
              Begin(a, attempts[a], "start", before)
    /\ cached' = CacheAfter(kernels')
    /\ UNCHANGED <<closed, calls, disableUI>>

-----------------------------------------------------------------------------
(* Calls whose attempt has settled                                         *)

\* verifyKernelState: a dead kernel is not handed out.  Unless the user was asked about it, the
\* first call makes another attempt, and the others throw.
VerifyKernelState(c) ==
    /\ calls[c].at = "waits" /\ Settled(calls[c].attempt)
    /\ LET a == calls[c].attempt
           mine == attempts[a].call = c
           dead == attempts[a].at = "done" /\ IsKernelDead(kernels[attempts[a].kernel])
           told == attempts[a].asked = "not restarted" \/ (mine /\ calls[c].told)
           entry == IF dead /\ cached = a THEN 0 ELSE cached
       IN  /\ mine \/ ~Waits(attempts[a].call, a)
           /\ IF dead /\ ~told
              THEN Wrap(c, "start", calls[c].told \/ ~mine, entry,
                        [d \in Calls |-> IF Waits(d, a) THEN [calls[d] EXCEPT !.at = "thrown"] ELSE calls[d]])
              ELSE /\ calls' = [calls EXCEPT ![c].at = IF dead \/ attempts[a].at = "failed"
                                                      THEN "thrown" ELSE "returned"]
                   /\ cached' = entry
                   /\ UNCHANGED <<kernels, attempts, disableUI>>
    /\ UNCHANGED closed

-----------------------------------------------------------------------------
(* Kernels end                                                             *)

KernelDies(k) ==
    /\ Quiescent
    /\ kernels[k] = "live"
    /\ \E status \in {"dead", "ended"} : kernels' = [kernels EXCEPT ![k] = status]
    /\ UNCHANGED <<closed, attempts, cached, calls, disableUI>>

\* The start of a kernel that is disposed has ended.
KernelDisposed(k) ==
    /\ kernels[k] = "disposing"
    /\ kernels' = [kernels EXCEPT ![k] = "disposed"]
    /\ cached' = CacheAfter(kernels')
    /\ UNCHANGED <<closed, attempts, calls, disableUI>>

\* The notebook is closed, or its kernel disposed by others.
DisposeKernel ==
    /\ Quiescent
    /\ kernels # <<>> /\ Len(kernels) < MaxKernels
    /\ kernels' = Dispose(kernels, Len(kernels))
    /\ cached' = CacheAfter(kernels')
    /\ closed' \in {closed, TRUE}
    /\ UNCHANGED <<attempts, calls, disableUI>>

Next ==
    \/ \E c \in Calls : Call(c) \/ VerifyKernelState(c)
    \/ \E a \in Attempts : Acts(a) \/ NotRestarted(a) \/ RestartChosen(a) \/ KernelRestarted(a)
                             \/ GivesUp(a) \/ GoesOn(a)
    \/ \E k \in DOMAIN kernels : KernelDies(k) \/ KernelDisposed(k)
    \/ DisposeKernel

\* Promises are run, kernels answer, and so does the user.
FairStep ==
    \/ \E c \in Calls : VerifyKernelState(c)
    \/ \E a \in Attempts : Acts(a) \/ NotRestarted(a) \/ RestartChosen(a) \/ KernelRestarted(a)
                             \/ GivesUp(a) \/ GoesOn(a)
    \/ \E k \in DOMAIN kernels : KernelDisposed(k)

Spec == Init /\ [][Next]_connectorVars /\ WF_connectorVars(FairStep)

-----------------------------------------------------------------------------
(* Properties                                                              *)

\* What is waited for is an attempt of the notebook, and all that are cached are.
TypeOK ==
    /\ cached # 0 => attempts[cached].at # "failed"
    /\ \A a \in Attempts : attempts[a].at # "failed" => attempts[a].kernel \in DOMAIN kernels

\* One attempt at a time starts the notebook's kernel, and asks about it, unless the user has
\* restarted or interrupted it, which makes attempts of their own.
OneStart ==
    \A a, b \in Attempts :
        (\A c \in Restarts \cup Interrupts : calls[c].at = "idle") /\
        ~Settled(a) /\ ~Settled(b) /\ attempts[a].initial = "start" /\ attempts[b].initial = "start"
            => a = b

\* Without a user to ask, a call tries a dead kernel that has a session again and again.
Spins ==
    \E c \in Calls, k \in DOMAIN kernels :
        /\ disableUI[c] /\ calls[c].at = "waits"
        /\ attempts[calls[c].attempt].kernel = k /\ kernels[k] = "dead"

\* Every call has an answer: so it comes to be, unless one spins.
AllConnected == Spins \/ \A c \in Calls : calls[c].at # "waits"
=============================================================================

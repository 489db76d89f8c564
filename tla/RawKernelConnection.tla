------------------------- MODULE RawKernelConnection -------------------------
(***************************************************************************)
(* A local kernel without a Jupyter server: RawKernelConnection of         *)
(* src/kernels/raw/session, which starts, restarts and shuts down the      *)
(* KernelProcess its launcher gives it, and whose owner is the session     *)
(* made by RawKernelSessionFactory.  Processes are numbered as they are    *)
(* spawned; a socket, and the JupyterLab connection that uses it, is named *)
(* after its process.                                                      *)
(***************************************************************************)
EXTENDS Integers, Sequences, FiniteSets

CONSTANTS
    MaxProcesses,   \* bound: processes spawned
    None

VARIABLES
    raw,          \* the fields of the connection: kernelProcess (process), the process with its
                  \* exitHandler (hooked), socket, realKernel.isDisposed, isRestarting,
                  \* isShuttingDown, hasShutdown, isDisposing and _isDisposed; start() under
                  \* way; the processes shutdown()s await
    procs,        \* the processes: "live", or how far dispose() is ("disposing", "killed",
                  \* "disposed"), and whether its exit was seen
    open,         \* sockets that are open
    owner,        \* the session: "none", "creating", "up", "restarting", "releasing" or "released", and
                  \* the process its shutdown() awaits
    overlapped    \* history: restarted while a shutdown() was under way

vars == <<raw, procs, open, owner, overlapped>>

Processes == DOMAIN procs
Live(p) == procs[p].phase = "live" /\ ~procs[p].exited

Idle == [pc |-> "idle", proc |-> None, exited |-> FALSE, why |-> None]
Launching == [Idle EXCEPT !.pc = "launching"]

Init ==
    /\ raw = [process |-> None, hooked |-> None, socket |-> None, realDisposed |-> FALSE,
              isRestarting |-> FALSE, isShuttingDown |-> FALSE, hasShutdown |-> FALSE,
              isDisposing |-> FALSE, isDisposed |-> FALSE,
              start |-> Idle, awaiting |-> {}]
    /\ procs = <<>>
    /\ open = {}
    /\ owner = [phase |-> "none", awaits |-> None]
    /\ overlapped = FALSE

Status(r) ==
    CASE r.isDisposed \/ r.realDisposed \/ r.hasShutdown -> "dead"
      [] OTHER -> CASE r.isRestarting -> "restarting"
                    [] r.isShuttingDown /\ ~r.isRestarting -> "terminating"
                    [] r.socket = None /\ ~r.isRestarting /\ ~r.isShuttingDown -> "starting"
                    [] OTHER -> "real"

-----------------------------------------------------------------------------
(* What the handlers do to the connection, its processes and sockets        *)

State == [raw |-> raw, procs |-> procs, open |-> open]

Becomes(s) == raw' = s.raw /\ procs' = s.procs /\ open' = s.open

\* KernelProcess.dispose
DisposeProcess(s, p) ==
    IF s.procs[p].phase = "live" THEN [s EXCEPT !.procs[p].phase = "disposing"] ELSE s

\* Mutant: the launcher forgets what it spawned.
LaunchFailsMutant(s, why, exited) ==
    [s EXCEPT !.raw.start.pc = "rejected", !.raw.start.why = why, !.raw.start.exited = exited]

\* start() is rejected while launching: the launcher disposes what it spawned.
LaunchFails(s, why, exited) ==
    LET failed == [s EXCEPT !.raw.start.pc = "rejected", !.raw.start.why = why,
                            !.raw.start.exited = exited]
    IN  IF s.raw.start.proc = None THEN failed ELSE DisposeProcess(failed, s.raw.start.proc)

\* start() fails while it waits for the kernel: its catch awaits the end of the process (and
\* asks the kernel to shut down, which changes nothing here and is left out).
ConnectFails(s, why) ==
    DisposeProcess([s EXCEPT !.raw.start.pc = "failing", !.raw.start.why = why], s.raw.process)

\* The token of start() is cancelled.
CancelStart(s) ==
    CASE s.raw.start.pc = "launching" -> LaunchFails(s, "cancelled", FALSE)
      [] s.raw.start.pc = "connecting" -> ConnectFails(s, "cancelled")
      [] OTHER -> s

\* The end of shutdown(); without a socket it throws.
FinishShutdown(s) ==
    IF s.raw.socket = None THEN s
    ELSE [s EXCEPT !.open = @ \ {s.raw.socket},
                   !.raw.isShuttingDown = FALSE, !.raw.hasShutdown = TRUE,
                   !.raw.isDisposed = @ \/ s.raw.isDisposing]

\* Mutant: the token of the restart is not cancelled.
ShutdownMutant(s) ==
    IF s.raw.isShuttingDown \/ s.raw.hasShutdown THEN s
    ELSE LET stopping == [s EXCEPT !.raw.isShuttingDown = TRUE]
         IN  IF stopping.raw.process = None THEN FinishShutdown(stopping)
             ELSE DisposeProcess([stopping EXCEPT !.raw.awaiting = @ \cup {stopping.raw.process}],
                                 stopping.raw.process)

\* shutdown(): it awaits the disposal of the process (for ever, had that ended before).
Shutdown(s) ==
    IF s.raw.isShuttingDown \/ s.raw.hasShutdown THEN s
    ELSE LET stopping == [s EXCEPT !.raw.isShuttingDown = TRUE]
             cancelled == IF s.raw.isRestarting THEN CancelStart(stopping) ELSE stopping
             p == cancelled.raw.process
         IN  IF p = None THEN FinishShutdown(cancelled)
             ELSE DisposeProcess([cancelled EXCEPT !.raw.awaiting = @ \cup {p}], p)

\* The exit event of a process: the handler of start() comes after that of the connection,
\* but what it awaits goes on after both.
StartSeesExit(s, p) ==
    LET seen == [s EXCEPT !.raw.start.exited = TRUE]
    IN  IF s.raw.start.proc # p THEN s
        ELSE CASE s.raw.start.pc = "connecting" -> ConnectFails(seen, "exited")
               [] s.raw.start.pc = "failing" -> seen
               [] OTHER -> s

\* Mutant: the exit of a process is taken for that of the one in use.
ExitEventMutant(s, p) ==
    LET seen == StartSeesExit(s, p)
    IN  IF s.raw.hooked = p /\ ~s.raw.isDisposing /\ Status(s.raw) # "terminating"
        THEN Shutdown(seen) ELSE seen

ExitEvent(s, p) ==
    LET seen == StartSeesExit(s, p)
    IN  IF /\ s.raw.hooked = p /\ s.raw.process = p
           /\ ~s.raw.isDisposing
           /\ Status(s.raw) \notin {"dead", "terminating"}
        THEN Shutdown(seen) ELSE seen

-----------------------------------------------------------------------------
(* start()                                                                 *)

Spawn ==
    /\ raw.start.pc = "launching" /\ raw.start.proc = None
    /\ Len(procs) < MaxProcesses
    /\ procs' = Append(procs, [phase |-> "live", exited |-> FALSE])
    /\ raw' = [raw EXCEPT !.start.proc = Len(procs) + 1]
    /\ UNCHANGED <<open, owner, overlapped>>

\* The launcher returns the process: hookupKernelProcessExitHandler and newRawKernel.
Launched ==
    /\ raw.start.pc = "launching" /\ raw.start.proc # None
    /\ LET p == raw.start.proc
       IN  /\ raw' = [raw EXCEPT !.process = p, !.hooked = p, !.socket = p,
                                 !.realDisposed = FALSE, !.start.pc = "connecting"]
           /\ open' = open \cup {p}
    /\ UNCHANGED <<procs, owner, overlapped>>

\* The launcher gives up: a port is not used in time, or the process cannot be spawned.
LaunchThrows ==
    /\ raw.start.pc = "launching"
    /\ Becomes(LaunchFails(State, "launch", FALSE))
    /\ UNCHANGED <<owner, overlapped>>

\* The kernel answers.
Connected ==
    /\ raw.start.pc = "connecting"
    /\ raw' = [raw EXCEPT !.isRestarting = FALSE, !.start.pc = "resolved"]
    /\ UNCHANGED <<procs, open, owner, overlapped>>

ConnectTimesOut ==
    /\ raw.start.pc = "connecting"
    /\ Becomes(ConnectFails(State, "timeout"))
    /\ UNCHANGED <<owner, overlapped>>

\* What the catch throws: the exit of the process takes precedence.
Thrown ==
    IF raw.start.exited THEN "KernelProcessExitedError"
    ELSE CASE raw.start.why = "timeout" -> "KernelConnectionTimeoutError"
           [] raw.start.why = "cancelled" -> "CancellationError"
           [] OTHER -> "KernelPortNotUsedTimeoutError"

-----------------------------------------------------------------------------
(* The process                                                             *)

\* It exits, by itself or because it was killed.
ProcessExits(p) ==
    /\ ~procs[p].exited
    /\ LET s == [State EXCEPT !.procs[p].exited = TRUE]
       IN  Becomes(IF procs[p].phase = "disposed" THEN s
                   ELSE IF raw.start.pc = "launching" /\ raw.start.proc = p
                   THEN LaunchFails(s, "exited", TRUE)
                   ELSE ExitEvent(s, p))
    /\ UNCHANGED <<owner, overlapped>>

\* dispose() kills the process and fires its exit event unless that was done.
Kill(p) ==
    /\ procs[p].phase = "disposing"
    /\ LET s == [State EXCEPT !.procs[p].phase = "killed"]
       IN  Becomes(IF procs[p].exited THEN s ELSE ExitEvent(s, p))
    /\ UNCHANGED <<owner, overlapped>>

\* onDidDispose, which shutdown() and the catch of start() await.
ProcessDisposed(p) ==
    /\ procs[p].phase = "killed"
    /\ LET s == [State EXCEPT !.procs[p].phase = "disposed",
                              !.raw.awaiting = @ \ {p},
                              !.raw.start.pc = IF @ = "failing" /\ raw.start.proc = p
                                               THEN "rejected" ELSE @]
       IN  Becomes(IF p \in raw.awaiting THEN FinishShutdown(s) ELSE s)
    /\ UNCHANGED <<owner, overlapped>>

-----------------------------------------------------------------------------
(* The session                                                             *)

\* RawKernelSessionFactory.create
CreateSession ==
    /\ owner.phase = "none"
    /\ raw' = [raw EXCEPT !.start = Launching]
    /\ owner' = [owner EXCEPT !.phase = "creating"]
    /\ UNCHANGED <<procs, open, overlapped>>

\* The session is told of the end of start(), or restart().
Started ==
    /\ raw.start.pc = "resolved" /\ owner.phase \in {"creating", "restarting"}
    /\ raw' = [raw EXCEPT !.start = Idle]
    /\ owner' = [owner EXCEPT !.phase = "up"]
    /\ UNCHANGED <<procs, open, overlapped>>

\* Mutant: what an earlier shutdown left is not reset.
ClearedMutant(r) == [r EXCEPT !.isDisposed = FALSE, !.isShuttingDown = FALSE]

Cleared(r) ==
    [r EXCEPT !.isDisposed = FALSE, !.isShuttingDown = FALSE, !.hasShutdown = FALSE]

\* restart(): the old process is disposed without awaiting it.
Restart ==
    /\ owner.phase = "up" /\ Len(procs) < MaxProcesses
    /\ LET s == [State EXCEPT !.raw = [Cleared(@) EXCEPT !.isRestarting = TRUE,
                                            !.process = None, !.realDisposed = TRUE,
                                            !.start = Launching],
                              !.open = @ \ {raw.socket}]
       IN  Becomes(IF raw.process = None THEN s ELSE DisposeProcess(s, raw.process))
    /\ owner' = [owner EXCEPT !.phase = "restarting"]
    /\ overlapped' = (overlapped \/ raw.awaiting # {})

\* Shutdown of the session, which the factory awaits; the wrapper waits a second at most.
Release(s, awaited) ==
    LET t == Shutdown(s)
        new == t.raw.awaiting \ s.raw.awaiting
    IN  /\ Becomes(t)
        /\ owner' = [phase |-> "releasing",
                     awaits |-> IF awaited /\ new # {} THEN CHOOSE p \in new : TRUE ELSE None]
        /\ UNCHANGED overlapped

\* start() or restart() threw: the factory, or the kernel, disposes the session.
StartThrew ==
    /\ raw.start.pc = "rejected" /\ owner.phase \in {"creating", "restarting"}
    /\ Release([State EXCEPT !.raw.start = Idle], owner.phase = "creating")

\* The user cancels the start: the factory does not wait for start() to end.
CancelCreation ==
    /\ owner.phase = "creating" /\ raw.start.pc \in {"launching", "connecting", "failing"}
    /\ Release(CancelStart(State), TRUE)

\* The kernel is disposed.
DisposeSession ==
    /\ owner.phase \in {"up", "restarting"}
    /\ Release(State, FALSE)

\* dispose() of the connection, at the end of the session's.
DisposeConnection ==
    /\ owner.phase = "releasing" /\ owner.awaits \notin raw.awaiting
    /\ IF raw.isDisposed \/ raw.realDisposed \/ raw.isDisposing
       THEN UNCHANGED <<raw, procs, open>>
       ELSE LET s == Shutdown([State EXCEPT !.raw.isDisposing = TRUE])
                returned == s.raw.awaiting = raw.awaiting
            IN  Becomes([s EXCEPT !.raw.isDisposed = @ \/ returned])
    /\ owner' = [owner EXCEPT !.phase = "released"]
    /\ UNCHANGED overlapped

\* Nobody is told of the end of a start() after the session was released.
StartIgnored ==
    /\ raw.start.pc \in {"resolved", "rejected"} /\ owner.phase \in {"releasing", "released"}
    /\ raw' = [raw EXCEPT !.start = Idle]
    /\ UNCHANGED <<procs, open, owner, overlapped>>

Next ==
    \/ Spawn \/ Launched \/ LaunchThrows \/ Connected \/ ConnectTimesOut
    \/ \E p \in Processes : ProcessExits(p) \/ Kill(p) \/ ProcessDisposed(p)
    \/ CreateSession \/ Started \/ StartThrew \/ StartIgnored
    \/ Restart \/ CancelCreation \/ DisposeSession \/ DisposeConnection

\* A launch, and the wait for the kernel, have time-outs; disposals go on.
FairStep ==
    \/ Spawn \/ Launched \/ LaunchThrows \/ Connected \/ ConnectTimesOut
    \/ \E p \in Processes : Kill(p) \/ ProcessDisposed(p)
    \/ Started \/ StartThrew \/ StartIgnored \/ DisposeConnection

Spec == Init /\ [][Next]_vars /\ WF_vars(FairStep)

-----------------------------------------------------------------------------
(* Properties                                                              *)

TypeOK ==
    /\ procs \in Seq([phase : {"live", "disposing", "killed", "disposed"}, exited : BOOLEAN])
    /\ {raw.process, raw.hooked, raw.socket, raw.start.proc, owner.awaits}
         \subseteq Processes \cup {None}
    /\ raw.awaiting \cup open \subseteq Processes
    /\ raw.start.pc \in {"idle", "launching", "connecting", "failing", "resolved", "rejected"}
    /\ owner.phase \in {"none", "creating", "up", "restarting", "releasing", "released"}

\* Only one process runs that nobody disposes, and it is the connection's: restarts, failed
\* starts and exits leave none behind that shutdown() would not find.
OneProcess ==
    \A p \in Processes : Live(p) =>
        p = raw.process \/ (raw.start.pc = "launching" /\ p = raw.start.proc)

\* The status tells whether there is a kernel: when no start and no shutdown is under way
\* the connection is dead or its process runs.  Not so once a restart has overtaken a
\* shutdown, whose end marks the new kernel as shut down.
StatusAgrees ==
    ~overlapped /\ owner.phase = "up" /\ raw.awaiting = {} =>
        (Status(raw) = "dead" <=> ~Live(raw.process))

\* "RawSession owns the lifetime of the kernel process and will dispose it"
\* (rawSessionConnection.node.ts): once it is released and nothing is under way no process
\* runs and no socket is open, unless a restart has overtaken a shutdown.
NothingLeft ==
    ~overlapped /\ owner.phase = "released" /\ raw.start.pc = "idle"
    /\ raw.awaiting = {} /\ (\A p \in Processes : procs[p].phase # "disposing") =>
        open = {} /\ \A p \in Processes : ~Live(p)

\* The exit of a process stops no other: that of the old process comes while a restart
\* launches the new one.
ExitStopsNoOther ==
    [][\A p, q \in Processes :
          p # q /\ Live(p) /\ ~procs[q].exited /\ procs'[q].exited
            => procs'[p].phase = "live"]_vars

\* No session is being released, and one that was has no process: so it ends.
AllReleased ==
    /\ owner.phase # "releasing"
    /\ owner.phase = "released" => \A p \in Processes : Live(p) => overlapped

\* A start that timed out says so ("Verify startup times out",
\* rawSessionConnection.node.unit.test.ts).
TimeoutReported ==
    raw.start.pc = "rejected" /\ raw.start.why = "timeout" =>
        Thrown = "KernelConnectionTimeoutError"
=============================================================================

------------------- MODULE RawKernelConnection_proofs -------------------
(***************************************************************************)
(* Theorems about RawKernelConnection, for every bound on its processes.   *)
(***************************************************************************)
EXTENDS RawKernelConnection, SequenceLemmas

-----------------------------------------------------------------------------
(* Types *)

Ids == Nat \cup {None}
ProcessType == [phase : {"live", "disposing", "killed", "disposed"}, exited : BOOLEAN]
StartType ==
    [pc : {"idle", "launching", "connecting", "failing", "resolved", "rejected"},
     proc : Ids, exited : BOOLEAN, why : {"launch", "cancelled", "exited", "timeout", None}]
RawType ==
    [process : Ids, hooked : Ids, socket : Ids, realDisposed : BOOLEAN, isRestarting : BOOLEAN,
     isShuttingDown : BOOLEAN, hasShutdown : BOOLEAN, isDisposing : BOOLEAN,
     isDisposed : BOOLEAN, start : StartType, awaiting : SUBSET Nat]

\* The states of the connection that name no process but those spawned.
States ==
    {s \in [raw : RawType, procs : Seq(ProcessType), open : SUBSET Nat] :
        {s.raw.process, s.raw.hooked, s.raw.socket, s.raw.start.proc}
          \subseteq DOMAIN s.procs \cup {None}}

-----------------------------------------------------------------------------
(* What the operators do *)

\* Of the processes f, those of D are disposed of, and g are the processes then.
Disposes(f, g, D) ==
    /\ Len(g) = Len(f)
    /\ \A p \in 1..Len(f) :
          /\ g[p].exited = f[p].exited
          /\ p \notin D => g[p].phase = f[p].phase
          /\ p \in D => g[p].phase = IF f[p].phase = "live" THEN "disposing" ELSE f[p].phase

\* What neither a shutdown nor an exit changes.
Kept(r, u) ==
    /\ u.process = r.process /\ u.hooked = r.hooked /\ u.socket = r.socket
    /\ u.realDisposed = r.realDisposed /\ u.isRestarting = r.isRestarting
    /\ u.isDisposing = r.isDisposing /\ u.start.proc = r.start.proc

\* What only a shutdown changes.
Stays(r, u) ==
    /\ u.isShuttingDown = r.isShuttingDown /\ u.hasShutdown = r.hasShutdown
    /\ u.isDisposed = r.isDisposed /\ u.awaiting = r.awaiting

\* dispose() of a process.
LEMMA DisposeProcessDoes ==
    ASSUME NEW s \in States, NEW p \in DOMAIN s.procs, NEW t, t = DisposeProcess(s, p)
    PROVE  /\ t \in States /\ t.raw = s.raw /\ t.open = s.open
           /\ Disposes(s.procs, t.procs, {p})
<1>1. /\ s \in [raw : RawType, procs : Seq(ProcessType), open : SUBSET Nat]
      /\ s.procs \in Seq(ProcessType)
      /\ DOMAIN s.procs = 1..Len(s.procs) /\ Len(s.procs) \in Nat
  BY LenProperties DEF States
<1>2. \A q \in 1..Len(s.procs) : s.procs[q] \in ProcessType
  BY <1>1, ElementOfSeq
<1>3. CASE s.procs[p].phase # "live"
  BY <1>1, <1>2, <1>3 DEF DisposeProcess, Disposes
<1>4. CASE s.procs[p].phase = "live"
  <2> DEFINE disposed == [s.procs[p] EXCEPT !.phase = "disposing"]
             f == [s.procs EXCEPT ![p] = disposed]
  <2>1. t = [s EXCEPT !.procs = f]
    BY <1>1, <1>2, <1>4 DEF DisposeProcess
  <2>2. disposed \in ProcessType /\ disposed.phase = "disposing" /\ disposed.exited = s.procs[p].exited
    BY <1>1, <1>2 DEF ProcessType
  <2> HIDE DEF disposed
  <2>3. /\ f \in Seq(ProcessType) /\ Len(f) = Len(s.procs) /\ f[p] = disposed
        /\ \A q \in 1..Len(s.procs) : q # p => f[q] = s.procs[q]
    BY <1>1, <2>2, ExceptSeq
  <2> HIDE DEF f
  <2>4. /\ t.procs = f /\ t.raw = s.raw /\ t.open = s.open
        /\ t \in [raw : RawType, procs : Seq(ProcessType), open : SUBSET Nat]
    BY <1>1, <2>1, <2>3
  <2>5. DOMAIN f = DOMAIN s.procs
    BY <1>1, <2>3, LenProperties
  <2>6. t \in States
    BY <2>4, <2>5 DEF States
  <2>7. Disposes(s.procs, f, {p})
    BY <1>1, <1>4, <2>2, <2>3 DEF Disposes
  <2> QED
    BY <2>4, <2>6, <2>7
<1> QED
  BY <1>3, <1>4

\* t is s with the connection r and the sockets o.
Replaced(s, r, o, t) ==
    t \in States /\ t.raw = r /\ t.procs = s.procs /\ t.open = o

\* A state whose processes stay.
LEMMA RawChanges ==
    ASSUME NEW s \in States, NEW r \in RawType, NEW o \in SUBSET Nat, NEW t,
           {r.process, r.hooked, r.socket, r.start.proc} \subseteq DOMAIN s.procs \cup {None},
           t = [s EXCEPT !.raw = r, !.open = o]
    PROVE  Replaced(s, r, o, t)
<1>1. s \in [raw : RawType, procs : Seq(ProcessType), open : SUBSET Nat]
  BY DEF States
<1>2. /\ t.raw = r /\ t.procs = s.procs /\ t.open = o
      /\ t \in [raw : RawType, procs : Seq(ProcessType), open : SUBSET Nat]
  BY <1>1
<1> QED
  BY <1>2 DEF States, Replaced

\* start() is rejected while launching, and disposes the process it spawned.
LEMMA LaunchFailsDoes ==
    ASSUME None \notin Nat, NEW s \in States,
           NEW why \in {"launch", "cancelled", "exited", "timeout"}, NEW exited \in BOOLEAN,
           NEW t, t = LaunchFails(s, why, exited)
    PROVE  /\ t \in States /\ t.open = s.open /\ Kept(s.raw, t.raw) /\ Stays(s.raw, t.raw)
           /\ t.raw.start.pc = "rejected"
           /\ Disposes(s.procs, t.procs, {s.raw.start.proc})
<1>1. /\ s \in [raw : RawType, procs : Seq(ProcessType), open : SUBSET Nat]
      /\ s.raw \in RawType /\ s.raw.start \in StartType /\ s.open \in SUBSET Nat
      /\ {s.raw.process, s.raw.hooked, s.raw.socket, s.raw.start.proc}
           \subseteq DOMAIN s.procs \cup {None}
      /\ DOMAIN s.procs = 1..Len(s.procs)
  BY LenProperties DEF States, RawType
<1> DEFINE start == [s.raw.start EXCEPT !.pc = "rejected", !.why = why, !.exited = exited]
           r == [s.raw EXCEPT !.start = start]
           u == [s EXCEPT !.raw = r, !.open = s.open]
<1>2. start \in StartType /\ start.pc = "rejected" /\ start.proc = s.raw.start.proc
  BY <1>1 DEF StartType
<1>3. u = [s EXCEPT !.raw.start.pc = "rejected", !.raw.start.why = why, !.raw.start.exited = exited]
  BY <1>1, ZenonT(40) DEF RawType, StartType
<1> HIDE DEF start
<1>4. r \in RawType /\ r.start = start /\ Kept(s.raw, r) /\ Stays(s.raw, r)
  BY <1>1, <1>2 DEF RawType, Kept, Stays
<1> HIDE DEF r
<1>5. {r.process, r.hooked, r.socket, r.start.proc} \subseteq DOMAIN s.procs \cup {None}
  BY <1>1, <1>2, <1>4 DEF Kept
<1>6. u \in States /\ u.raw = r /\ u.procs = s.procs /\ u.open = s.open
  BY <1>1, <1>4, <1>5, RawChanges, ZenonT(40) DEF Replaced
<1> HIDE DEF u
<1>7. t = IF s.raw.start.proc = None THEN u ELSE DisposeProcess(u, s.raw.start.proc)
  BY <1>3 DEF LaunchFails
<1>8. CASE s.raw.start.proc = None
  <2>1. t = u
    BY <1>7, <1>8
  <2>2. Disposes(s.procs, s.procs, {s.raw.start.proc})
    BY <1>8 DEF Disposes
  <2> QED
    BY <1>2, <1>4, <1>6, <2>1, <2>2
<1>9. CASE s.raw.start.proc # None
  <2>1. s.raw.start.proc \in DOMAIN u.procs
    BY <1>1, <1>6, <1>9
  <2>2. /\ t \in States /\ t.raw = u.raw /\ t.open = u.open
        /\ Disposes(u.procs, t.procs, {s.raw.start.proc})
    BY <1>6, <1>7, <1>9, <2>1, DisposeProcessDoes
  <2> QED
    BY <1>2, <1>4, <1>6, <2>2
<1> QED
  BY <1>8, <1>9

\* start() fails while it waits for the kernel, and disposes the process.
LEMMA ConnectFailsDoes ==
    ASSUME NEW s \in States, s.raw.process # None,
           NEW why \in {"launch", "cancelled", "exited", "timeout"}, NEW t, t = ConnectFails(s, why)
    PROVE  /\ t \in States /\ t.open = s.open /\ Kept(s.raw, t.raw) /\ Stays(s.raw, t.raw)
           /\ t.raw.start.pc = "failing"
           /\ Disposes(s.procs, t.procs, {s.raw.process})
<1>1. /\ s \in [raw : RawType, procs : Seq(ProcessType), open : SUBSET Nat]
      /\ s.raw \in RawType /\ s.raw.start \in StartType /\ s.open \in SUBSET Nat
      /\ {s.raw.process, s.raw.hooked, s.raw.socket, s.raw.start.proc}
           \subseteq DOMAIN s.procs \cup {None}
  BY DEF States, RawType
<1> DEFINE start == [s.raw.start EXCEPT !.pc = "failing", !.why = why]
           r == [s.raw EXCEPT !.start = start]
           u == [s EXCEPT !.raw = r, !.open = s.open]
<1>2. start \in StartType /\ start.pc = "failing" /\ start.proc = s.raw.start.proc
  BY <1>1 DEF StartType
<1>3. u = [s EXCEPT !.raw.start.pc = "failing", !.raw.start.why = why]
  BY <1>1 DEF RawType, StartType
<1> HIDE DEF start
<1>4. r \in RawType /\ r.start = start /\ Kept(s.raw, r) /\ Stays(s.raw, r)
  BY <1>1, <1>2 DEF RawType, Kept, Stays
<1> HIDE DEF r
<1>5. {r.process, r.hooked, r.socket, r.start.proc} \subseteq DOMAIN s.procs \cup {None}
  BY <1>1, <1>2, <1>4 DEF Kept
<1>6. u \in States /\ u.raw = r /\ u.procs = s.procs /\ u.open = s.open
  BY <1>1, <1>4, <1>5, RawChanges DEF Replaced
<1> HIDE DEF u
<1>7. t = DisposeProcess(u, s.raw.process) /\ s.raw.process \in DOMAIN u.procs
  BY <1>1, <1>3, <1>6 DEF ConnectFails
<1>8. /\ t \in States /\ t.raw = u.raw /\ t.open = u.open
      /\ Disposes(u.procs, t.procs, {s.raw.process})
  BY <1>6, <1>7, DisposeProcessDoes
<1> QED
  BY <1>2, <1>4, <1>6, <1>8

\* The processes a cancelled start() disposes.
Cancelled(r) ==
    CASE r.start.pc = "launching" -> {r.start.proc}
      [] r.start.pc = "connecting" -> {r.process}
      [] OTHER -> {}

\* How far start() is once it is cancelled.
CancelledAt(pc) ==
    CASE pc = "launching" -> "rejected" [] pc = "connecting" -> "failing" [] OTHER -> pc

\* The token of start() is cancelled.
LEMMA CancelStartDoes ==
    ASSUME None \notin Nat, NEW s \in States,
           s.raw.start.pc = "connecting" => s.raw.process # None, NEW t, t = CancelStart(s)
    PROVE  /\ t \in States /\ t.open = s.open /\ Kept(s.raw, t.raw) /\ Stays(s.raw, t.raw)
           /\ t.raw.start.pc = CancelledAt(s.raw.start.pc)
           /\ Disposes(s.procs, t.procs, Cancelled(s.raw))
<1>1. CASE s.raw.start.pc = "launching"
  <2>1. t = LaunchFails(s, "cancelled", FALSE)
    BY <1>1 DEF CancelStart
  <2>2. /\ t \in States /\ t.open = s.open /\ Kept(s.raw, t.raw) /\ Stays(s.raw, t.raw)
        /\ t.raw.start.pc = "rejected"
        /\ Disposes(s.procs, t.procs, {s.raw.start.proc})
    BY <2>1, LaunchFailsDoes
  <2> QED
    BY <1>1, <2>2 DEF CancelledAt, Cancelled
<1>2. CASE s.raw.start.pc = "connecting"
  <2>1. t = ConnectFails(s, "cancelled")
    BY <1>2 DEF CancelStart
  <2>2. /\ t \in States /\ t.open = s.open /\ Kept(s.raw, t.raw) /\ Stays(s.raw, t.raw)
        /\ t.raw.start.pc = "failing"
        /\ Disposes(s.procs, t.procs, {s.raw.process})
    BY <1>2, <2>1, ConnectFailsDoes
  <2> QED
    BY <1>2, <2>2 DEF CancelledAt, Cancelled
<1>3. CASE s.raw.start.pc \notin {"launching", "connecting"}
  <2>1. t = s
    BY <1>3 DEF CancelStart
  <2> QED
    BY <1>3, <2>1 DEF CancelledAt, Cancelled, Kept, Stays, Disposes
<1> QED
  BY <1>1, <1>2, <1>3

\* The end of shutdown().
LEMMA FinishShutdownDoes ==
    ASSUME NEW s \in States, NEW t, t = FinishShutdown(s)
    PROVE  /\ t \in States /\ t.procs = s.procs /\ Kept(s.raw, t.raw)
           /\ t.raw.start = s.raw.start /\ t.raw.awaiting = s.raw.awaiting
           /\ s.raw.socket = None => t = s
           /\ s.raw.socket # None =>
                 /\ t.open = s.open \ {s.raw.socket} /\ ~t.raw.isShuttingDown /\ t.raw.hasShutdown
                 /\ t.raw.isDisposed <=> s.raw.isDisposed \/ s.raw.isDisposing
<1>1. /\ s \in [raw : RawType, procs : Seq(ProcessType), open : SUBSET Nat]
      /\ s.raw \in RawType /\ s.open \in SUBSET Nat
      /\ {s.raw.process, s.raw.hooked, s.raw.socket, s.raw.start.proc}
           \subseteq DOMAIN s.procs \cup {None}
  BY DEF States
<1>2. CASE s.raw.socket = None
  BY <1>2 DEF FinishShutdown, Kept
<1>3. CASE s.raw.socket # None
  <2> DEFINE r == [s.raw EXCEPT !.isShuttingDown = FALSE, !.hasShutdown = TRUE,
                                !.isDisposed = @ \/ s.raw.isDisposing]
             o == s.open \ {s.raw.socket}
             u == [s EXCEPT !.raw = r, !.open = o]
  <2>1. t = u
    BY <1>1, <1>3 DEF FinishShutdown, RawType
  <2>2. /\ r \in RawType /\ Kept(s.raw, r) /\ r.start = s.raw.start /\ r.awaiting = s.raw.awaiting
        /\ ~r.isShuttingDown /\ r.hasShutdown
    BY <1>1 DEF RawType, Kept
  <2>3. r.isDisposed <=> s.raw.isDisposed \/ s.raw.isDisposing
    BY <1>1 DEF RawType
  <2>4. o \in SUBSET Nat
    BY <1>1
  <2> HIDE DEF r, o
  <2>5. {r.process, r.hooked, r.socket, r.start.proc} \subseteq DOMAIN s.procs \cup {None}
    BY <1>1, <2>2 DEF Kept
  <2>6. t \in States /\ t.raw = r /\ t.procs = s.procs /\ t.open = o
    <3>1. r \in RawType
      BY <2>2
    <3>2. Replaced(s, r, o, u)
      BY <2>4, <2>5, <3>1, RawChanges
    <3> QED
      BY <2>1, <3>2 DEF Replaced
  <2>7. t.raw.isDisposed <=> s.raw.isDisposed \/ s.raw.isDisposing
    BY <2>3, <2>6
  <2>8. t.open = s.open \ {s.raw.socket}
    BY <2>6 DEF o
  <2>9. t.raw.hasShutdown /\ ~t.raw.isShuttingDown
    BY <2>2, <2>6
  <2> QED
    BY <1>3, <2>2, <2>6, <2>7, <2>8, <2>9
<1> QED
  BY <1>2, <1>3

\* Processes that are disposed of one after the other.
LEMMA DisposesTwice ==
    ASSUME NEW f, Len(f) \in Nat, NEW g, NEW h, NEW D, NEW E, Disposes(f, g, D), Disposes(g, h, E)
    PROVE  Disposes(f, h, D \cup E)
<1>1. ASSUME NEW p \in 1..Len(f)
      PROVE  /\ h[p].exited = f[p].exited
             /\ p \notin D \cup E => h[p].phase = f[p].phase
             /\ p \in D \cup E =>
                   h[p].phase = IF f[p].phase = "live" THEN "disposing" ELSE f[p].phase
  <2>1. p \in 1..Len(g)
    BY DEF Disposes
  <2> QED
    BY <2>1 DEF Disposes
<1> QED
  BY <1>1 DEF Disposes

\* shutdown(), unless it is under way or done: it cancels a restart, disposes the process and
\* awaits that, or ends if there is none.
ShutsDown(s, t) ==
    /\ t \in States /\ Kept(s.raw, t.raw)
    /\ t.raw.start.pc = IF s.raw.isRestarting THEN CancelledAt(s.raw.start.pc) ELSE s.raw.start.pc
    /\ Disposes(s.procs, t.procs,
                (IF s.raw.isRestarting THEN Cancelled(s.raw) ELSE {}) \cup {s.raw.process})
    /\ s.raw.process # None =>
          /\ t.open = s.open /\ t.raw.awaiting = s.raw.awaiting \cup {s.raw.process}
          /\ t.raw.isShuttingDown /\ ~t.raw.hasShutdown /\ t.raw.isDisposed = s.raw.isDisposed
    /\ s.raw.process = None =>
          /\ t.raw.awaiting = s.raw.awaiting
          /\ t.open = IF s.raw.socket = None THEN s.open ELSE s.open \ {s.raw.socket}

\* What shutdown() does when none is under way or done.
LEMMA ShutdownDoes ==
    ASSUME None \notin Nat, NEW s \in States,
           s.raw.start.pc = "connecting" => s.raw.process # None,
           ~s.raw.isShuttingDown, ~s.raw.hasShutdown, NEW t, t = Shutdown(s)
    PROVE  ShutsDown(s, t)
<1>1. /\ s \in [raw : RawType, procs : Seq(ProcessType), open : SUBSET Nat]
      /\ s.raw \in RawType /\ s.raw.start \in StartType /\ s.open \in SUBSET Nat
      /\ {s.raw.process, s.raw.hooked, s.raw.socket, s.raw.start.proc}
           \subseteq DOMAIN s.procs \cup {None}
      /\ DOMAIN s.procs = 1..Len(s.procs) /\ Len(s.procs) \in Nat
  BY LenProperties DEF States, RawType
<1> DEFINE stopping == [s EXCEPT !.raw.isShuttingDown = TRUE]
           c == IF s.raw.isRestarting THEN CancelStart(stopping) ELSE stopping
           w == [c EXCEPT !.raw.awaiting = @ \cup {c.raw.process}]
<1>2. t = IF c.raw.process = None THEN FinishShutdown(c) ELSE DisposeProcess(w, c.raw.process)
  BY DEF Shutdown
<1>3. /\ stopping \in States /\ stopping.procs = s.procs /\ stopping.open = s.open
      /\ Kept(s.raw, stopping.raw) /\ stopping.raw.start = s.raw.start
      /\ stopping.raw.awaiting = s.raw.awaiting
  <2> DEFINE r == [s.raw EXCEPT !.isShuttingDown = TRUE]
             u == [s EXCEPT !.raw = r, !.open = s.open]
  <2>1. stopping = u
    BY <1>1 DEF RawType
  <2>2. r \in RawType
    BY <1>1 DEF RawType
  <2>3. Kept(s.raw, r) /\ r.start = s.raw.start /\ r.awaiting = s.raw.awaiting
    BY <1>1 DEF RawType, Kept
  <2> HIDE DEF r
  <2>4. {r.process, r.hooked, r.socket, r.start.proc} \subseteq DOMAIN s.procs \cup {None}
    BY <1>1, <2>3 DEF Kept
  <2>5. Replaced(s, r, s.open, u)
    BY <1>1, <2>2, <2>4, RawChanges
  <2> HIDE DEF u
  <2> QED
    BY <2>1, <2>3, <2>5 DEF Replaced
<1>4. stopping.raw.isShuttingDown
  BY <1>1 DEF RawType
<1>5. stopping.raw.hasShutdown = s.raw.hasShutdown /\ stopping.raw.isDisposed = s.raw.isDisposed
  BY <1>1 DEF RawType
<1> HIDE DEF stopping
<1>6. /\ c \in States /\ c.open = s.open /\ Kept(s.raw, c.raw) /\ Stays(stopping.raw, c.raw)
      /\ c.raw.start.pc = IF s.raw.isRestarting THEN CancelledAt(s.raw.start.pc) ELSE s.raw.start.pc
      /\ Disposes(s.procs, c.procs, IF s.raw.isRestarting THEN Cancelled(s.raw) ELSE {})
  <2>1. CASE s.raw.isRestarting
    <3>1. c = CancelStart(stopping)
      BY <2>1
    <3>2. /\ c \in States /\ c.open = stopping.open /\ Kept(stopping.raw, c.raw)
          /\ Stays(stopping.raw, c.raw)
          /\ c.raw.start.pc = CancelledAt(stopping.raw.start.pc)
          /\ Disposes(stopping.procs, c.procs, Cancelled(stopping.raw))
      <4>1. stopping.raw.start.pc = "connecting" => stopping.raw.process # None
        BY <1>3 DEF Kept
      <4> QED
        BY <1>3, <3>1, <4>1, CancelStartDoes
    <3>3. Cancelled(stopping.raw) = Cancelled(s.raw)
      BY <1>3 DEF Cancelled, Kept
    <3> QED
      BY <1>3, <2>1, <3>2, <3>3 DEF Kept
  <2>2. CASE ~s.raw.isRestarting
    <3>1. c = stopping
      BY <2>2
    <3>2. Stays(stopping.raw, stopping.raw) /\ Disposes(s.procs, s.procs, {})
      BY DEF Stays, Disposes
    <3> QED
      BY <1>3, <2>2, <3>1, <3>2
  <2> QED
    BY <2>1, <2>2
<1>7. /\ c.raw.process = s.raw.process /\ c.raw.socket = s.raw.socket
      /\ c.raw.awaiting = s.raw.awaiting
  BY <1>3, <1>6 DEF Kept, Stays
<1>8. /\ c.raw.isShuttingDown = stopping.raw.isShuttingDown
      /\ c.raw.hasShutdown = s.raw.hasShutdown /\ c.raw.isDisposed = s.raw.isDisposed
  BY <1>5, <1>6 DEF Stays
<1> HIDE DEF c
<1> DEFINE D == IF s.raw.isRestarting THEN Cancelled(s.raw) ELSE {}
<1>9. CASE s.raw.process = None
  <2>1. t = FinishShutdown(c)
    BY <1>2, <1>7, <1>9
  <2>2. /\ t \in States /\ t.procs = c.procs /\ Kept(c.raw, t.raw)
        /\ t.raw.start = c.raw.start /\ t.raw.awaiting = c.raw.awaiting
        /\ c.raw.socket = None => t = c
        /\ c.raw.socket # None => t.open = c.open \ {c.raw.socket}
    BY <1>6, <2>1, FinishShutdownDoes
  <2>3. Kept(s.raw, t.raw)
    BY <1>6, <2>2 DEF Kept
  <2>4. Disposes(s.procs, t.procs, D \cup {s.raw.process})
    <3>1. Disposes(c.procs, t.procs, {s.raw.process})
      BY <1>1, <1>6, <1>9, <2>2 DEF Disposes
    <3> QED
      BY <1>1, <1>6, <3>1, DisposesTwice
  <2> QED
    BY <1>6, <1>7, <1>9, <2>2, <2>3, <2>4 DEF ShutsDown
<1>10. CASE s.raw.process # None
  <2>1. t = DisposeProcess(w, s.raw.process)
    BY <1>2, <1>7, <1>10
  <2> DEFINE r == [c.raw EXCEPT !.awaiting = @ \cup {c.raw.process}]
             u == [c EXCEPT !.raw = r, !.open = c.open]
  <2>2. /\ c \in [raw : RawType, procs : Seq(ProcessType), open : SUBSET Nat]
        /\ c.raw \in RawType /\ c.open \in SUBSET Nat
        /\ {c.raw.process, c.raw.hooked, c.raw.socket, c.raw.start.proc}
             \subseteq DOMAIN c.procs \cup {None}
        /\ DOMAIN c.procs = 1..Len(c.procs) /\ Len(c.procs) \in Nat
    BY <1>6, LenProperties DEF States
  <2>3. w = u
    BY <2>2 DEF RawType
  <2>4. r \in RawType
    BY <1>7, <1>10, <2>2 DEF RawType
  <2>5. Kept(c.raw, r) /\ r.start = c.raw.start /\ r.awaiting = s.raw.awaiting \cup {s.raw.process}
    BY <1>7, <2>2 DEF RawType, Kept
  <2>6. r.isShuttingDown = c.raw.isShuttingDown /\ r.hasShutdown = c.raw.hasShutdown
    BY <2>2 DEF RawType
  <2>7. r.isDisposed = c.raw.isDisposed
    BY <2>2 DEF RawType
  <2> HIDE DEF r
  <2>8. {r.process, r.hooked, r.socket, r.start.proc} \subseteq DOMAIN c.procs \cup {None}
    BY <2>2, <2>5 DEF Kept
  <2>9. Replaced(c, r, c.open, u)
    BY <1>6, <2>2, <2>4, <2>8, RawChanges
  <2> HIDE DEF u, w
  <2>10. /\ t \in States /\ t.raw = r /\ t.open = s.open /\ Disposes(c.procs, t.procs, {s.raw.process})
    <3>1. u \in States /\ s.raw.process \in DOMAIN u.procs
      BY <1>7, <1>10, <2>2, <2>9 DEF Replaced
    <3>2. /\ t \in States /\ t.raw = u.raw /\ t.open = u.open
          /\ Disposes(u.procs, t.procs, {s.raw.process})
      BY <2>1, <2>3, <3>1, DisposeProcessDoes
    <3> QED
      BY <1>6, <2>9, <3>2 DEF Replaced
  <2>11. Kept(s.raw, t.raw)
    BY <1>6, <2>5, <2>10 DEF Kept
  <2>12. Disposes(s.procs, t.procs, D \cup {s.raw.process})
    BY <1>1, <1>6, <2>10, DisposesTwice
  <2>13. t.raw.isShuttingDown
    BY <1>4, <1>8, <2>6, <2>10
  <2>14. ~t.raw.hasShutdown
    BY <1>8, <2>6, <2>10
  <2>15. t.raw.isDisposed = s.raw.isDisposed
    BY <1>8, <2>7, <2>10
  <2>16. t.raw.start.pc = IF s.raw.isRestarting THEN CancelledAt(s.raw.start.pc) ELSE s.raw.start.pc
    BY <1>6, <2>5, <2>10
  <2> QED
    BY <1>10, <2>5, <2>10, <2>11, <2>12, <2>13, <2>14, <2>15, <2>16 DEF ShutsDown
<1> QED
  BY <1>9, <1>10

\* start() is told of the exit of its process.
LEMMA StartSeesExitDoes ==
    ASSUME NEW s \in States, s.raw.start.pc = "connecting" => s.raw.process # None,
           NEW p, NEW t, t = StartSeesExit(s, p)
    PROVE  /\ t \in States /\ t.open = s.open /\ Kept(s.raw, t.raw) /\ Stays(s.raw, t.raw)
           /\ s.raw.start.pc = "connecting" /\ s.raw.start.proc = p =>
                 t.raw.start.pc = "failing" /\ Disposes(s.procs, t.procs, {s.raw.process})
           /\ s.raw.start.pc # "connecting" \/ s.raw.start.proc # p =>
                 t.raw.start.pc = s.raw.start.pc /\ Disposes(s.procs, t.procs, {})
<1>1. /\ s \in [raw : RawType, procs : Seq(ProcessType), open : SUBSET Nat]
      /\ s.raw \in RawType /\ s.raw.start \in StartType /\ s.open \in SUBSET Nat
      /\ {s.raw.process, s.raw.hooked, s.raw.socket, s.raw.start.proc}
           \subseteq DOMAIN s.procs \cup {None}
  BY DEF States, RawType
<1> DEFINE seen == [s EXCEPT !.raw.start.exited = TRUE]
<1>2. /\ seen \in States /\ seen.procs = s.procs /\ seen.open = s.open
      /\ Kept(s.raw, seen.raw) /\ Stays(s.raw, seen.raw) /\ seen.raw.start.pc = s.raw.start.pc
  <2> DEFINE start == [s.raw.start EXCEPT !.exited = TRUE]
             r == [s.raw EXCEPT !.start = start]
             u == [s EXCEPT !.raw = r, !.open = s.open]
  <2>1. start \in StartType /\ start.pc = s.raw.start.pc /\ start.proc = s.raw.start.proc
    BY <1>1 DEF StartType
  <2>2. seen = u
    BY <1>1 DEF RawType, StartType
  <2> HIDE DEF start
  <2>3. r \in RawType
    BY <1>1, <2>1 DEF RawType
  <2>4. r.start = start /\ Kept(s.raw, r) /\ Stays(s.raw, r)
    BY <1>1, <2>1 DEF RawType, Kept, Stays
  <2> HIDE DEF r
  <2>5. {r.process, r.hooked, r.socket, r.start.proc} \subseteq DOMAIN s.procs \cup {None}
    BY <1>1, <2>4 DEF Kept
  <2>6. Replaced(s, r, s.open, u)
    BY <1>1, <2>3, <2>5, RawChanges
  <2> HIDE DEF u
  <2> QED
    BY <2>1, <2>2, <2>4, <2>6 DEF Replaced
<1>3. /\ Kept(s.raw, s.raw) /\ Stays(s.raw, s.raw) /\ Disposes(s.procs, s.procs, {})
      /\ Disposes(s.procs, seen.procs, {})
  BY <1>2 DEF Kept, Stays, Disposes
<1> HIDE DEF seen
<1>4. t = IF s.raw.start.proc # p THEN s
          ELSE CASE s.raw.start.pc = "connecting" -> ConnectFails(seen, "exited")
                 [] s.raw.start.pc = "failing" -> seen
                 [] OTHER -> s
  BY DEF StartSeesExit, seen
<1>5. CASE s.raw.start.pc = "connecting" /\ s.raw.start.proc = p
  <2>1. t = ConnectFails(seen, "exited")
    BY <1>4, <1>5
  <2>2. seen.raw.process # None /\ seen.raw.process = s.raw.process
    BY <1>2, <1>5 DEF Kept
  <2>3. /\ t \in States /\ t.open = seen.open /\ Kept(seen.raw, t.raw) /\ Stays(seen.raw, t.raw)
        /\ t.raw.start.pc = "failing"
        /\ Disposes(seen.procs, t.procs, {seen.raw.process})
    BY <1>2, <2>1, <2>2, ConnectFailsDoes
  <2>4. Kept(s.raw, t.raw) /\ Stays(s.raw, t.raw)
    BY <1>2, <2>3 DEF Kept, Stays
  <2> QED
    BY <1>2, <1>5, <2>2, <2>3, <2>4
<1>6. CASE s.raw.start.pc # "connecting" \/ s.raw.start.proc # p
  <2>1. t = s \/ t = seen
    BY <1>4, <1>6
  <2> QED
    BY <1>2, <1>3, <1>6, <2>1
<1> QED
  BY <1>5, <1>6

\* What start() has to do with the process of the connection.
Starting(r) ==
    /\ r.start.pc = "launching" => r.process = None
    /\ r.start.pc = "connecting" => r.process # None /\ r.start.proc = r.process

\* An exit shuts the connection down.
Stops(r, p) ==
    /\ r.hooked = p /\ r.process = p /\ ~r.isDisposing
    /\ Status(r) \notin {"dead", "terminating"} /\ ~r.isShuttingDown /\ ~r.hasShutdown

\* The exit event of process p: it disposes no other.
Exited(s, p, t) ==
    /\ t \in States /\ t.open = s.open /\ Kept(s.raw, t.raw)
    /\ t.raw.start.pc = IF s.raw.start.pc = "connecting" /\ s.raw.start.proc = p
                        THEN "failing" ELSE s.raw.start.pc
    /\ t.raw.isDisposed = s.raw.isDisposed
    /\ Stops(s.raw, p) =>
          /\ Disposes(s.procs, t.procs, {p}) /\ t.raw.awaiting = s.raw.awaiting \cup {p}
          /\ t.raw.isShuttingDown /\ ~t.raw.hasShutdown
    /\ ~Stops(s.raw, p) =>
          /\ Stays(s.raw, t.raw)
          /\ Disposes(s.procs, t.procs,
                      IF s.raw.start.pc = "connecting" /\ s.raw.start.proc = p THEN {p} ELSE {})

\* What the exit event does.
LEMMA ExitEventDoes ==
    ASSUME None \notin Nat, NEW s \in States, Starting(s.raw), NEW p \in DOMAIN s.procs,
           NEW t, t = ExitEvent(s, p)
    PROVE  Exited(s, p, t)
<1>1. /\ DOMAIN s.procs = 1..Len(s.procs) /\ Len(s.procs) \in Nat /\ p # None
      /\ s.raw.start.pc = "connecting" => s.raw.process # None
  BY LenProperties DEF States, Starting
<1> DEFINE seen == StartSeesExit(s, p)
           D == IF s.raw.start.pc = "connecting" /\ s.raw.start.proc = p THEN {p} ELSE {}
<1>2. /\ seen \in States /\ seen.open = s.open /\ Kept(s.raw, seen.raw) /\ Stays(s.raw, seen.raw)
      /\ seen.raw.start.pc = IF s.raw.start.pc = "connecting" /\ s.raw.start.proc = p
                             THEN "failing" ELSE s.raw.start.pc
      /\ Disposes(s.procs, seen.procs, D)
  <2>1. /\ seen \in States /\ seen.open = s.open /\ Kept(s.raw, seen.raw) /\ Stays(s.raw, seen.raw)
        /\ s.raw.start.pc = "connecting" /\ s.raw.start.proc = p =>
              seen.raw.start.pc = "failing" /\ Disposes(s.procs, seen.procs, {s.raw.process})
        /\ s.raw.start.pc # "connecting" \/ s.raw.start.proc # p =>
              seen.raw.start.pc = s.raw.start.pc /\ Disposes(s.procs, seen.procs, {})
    BY <1>1, StartSeesExitDoes
  <2> HIDE DEF seen
  <2>2. CASE s.raw.start.pc = "connecting" /\ s.raw.start.proc = p
    BY <2>1, <2>2 DEF Starting
  <2>3. CASE ~(s.raw.start.pc = "connecting" /\ s.raw.start.proc = p)
    BY <2>1, <2>3
  <2> QED
    BY <2>2, <2>3
<1> DEFINE shuts == /\ s.raw.hooked = p /\ s.raw.process = p
                    /\ ~s.raw.isDisposing /\ Status(s.raw) \notin {"dead", "terminating"}
<1>3. t = IF shuts THEN Shutdown(seen) ELSE seen
  BY DEF ExitEvent
<1> HIDE DEF seen, shuts, D
<1>4. CASE ~Stops(s.raw, p)
  <2>1. CASE ~shuts
    BY <1>2, <1>3, <1>4, <2>1 DEF Exited, Stays, D
  <2>2. CASE shuts
    <3>1. s.raw.isShuttingDown \/ s.raw.hasShutdown
      BY <1>4, <2>2 DEF Stops, shuts
    <3>2. seen.raw.isShuttingDown \/ seen.raw.hasShutdown
      BY <1>2, <3>1 DEF Stays
    <3>3. t = seen
      BY <1>3, <2>2, <3>2 DEF Shutdown
    <3> QED
      BY <1>2, <1>4, <3>3 DEF Exited, Stays, D
  <2> QED
    BY <2>1, <2>2
<1>5. CASE Stops(s.raw, p)
  <2>1. t = Shutdown(seen)
    BY <1>3, <1>5 DEF Stops, shuts
  <2>2. ~seen.raw.isShuttingDown
    BY <1>2, <1>5 DEF Stops, Stays
  <2>3. ~seen.raw.hasShutdown
    BY <1>2, <1>5 DEF Stops, Stays
  <2>4. seen.raw.process = p /\ seen.raw.start.pc # "connecting" /\ seen.raw.start.pc # "launching"
    BY <1>1, <1>2, <1>5 DEF Stops, Kept, Starting
  <2>5. ShutsDown(seen, t)
    <3>1. seen \in States /\ (seen.raw.start.pc = "connecting" => seen.raw.process # None)
      BY <1>2, <2>4
    <3> QED
      BY <2>1, <2>2, <2>3, <3>1, ShutdownDoes
  <2>6. Cancelled(seen.raw) = {} /\ CancelledAt(seen.raw.start.pc) = seen.raw.start.pc
    BY <2>4 DEF Cancelled, CancelledAt
  <2>7. /\ t \in States /\ Kept(seen.raw, t.raw) /\ t.raw.start.pc = seen.raw.start.pc
        /\ Disposes(seen.procs, t.procs, {p})
        /\ t.open = seen.open /\ t.raw.awaiting = seen.raw.awaiting \cup {p}
    BY <1>1, <2>4, <2>5, <2>6 DEF ShutsDown
  <2>8. t.raw.isShuttingDown /\ ~t.raw.hasShutdown
    BY <1>1, <2>4, <2>5 DEF ShutsDown
  <2>9. t.raw.isDisposed = seen.raw.isDisposed
    BY <1>1, <2>4, <2>5 DEF ShutsDown
  <2>10. Disposes(s.procs, t.procs, {p})
    <3>1. D \cup {p} = {p}
      BY DEF D
    <3> QED
      BY <1>1, <1>2, <2>7, <3>1, DisposesTwice
  <2>11. Kept(s.raw, t.raw)
    BY <1>2, <2>7 DEF Kept
  <2>12. t.raw.isDisposed = s.raw.isDisposed /\ t.raw.awaiting = s.raw.awaiting \cup {p}
    BY <1>2, <2>7, <2>9 DEF Stays
  <2> QED
    BY <1>2, <1>5, <2>7, <2>8, <2>10, <2>11, <2>12 DEF Exited
<1> QED
  BY <1>4, <1>5

-----------------------------------------------------------------------------
(* The invariant *)

Runs(f, p) == f[p].phase = "live" /\ ~f[p].exited

\* What holds throughout: which process is that of the connection and of its start, and
\* that no other runs.
Sound(s) ==
    /\ s.raw.process # None => s.raw.socket = s.raw.process /\ s.raw.hooked = s.raw.process
    /\ s.open \subseteq {s.raw.socket}
    /\ s.raw.start.pc = "launching" =>
          /\ s.raw.process = None /\ s.open = {}
          /\ s.raw.start.proc # None => Runs(s.procs, s.raw.start.proc)
    /\ s.raw.start.pc \in {"connecting", "failing", "resolved"} =>
          s.raw.process # None /\ s.raw.start.proc = s.raw.process
    /\ \A p \in 1..Len(s.procs) : Runs(s.procs, p) =>
          p = s.raw.process \/ (s.raw.start.pc = "launching" /\ p = s.raw.start.proc)

\* While the session is created, up (phase "up") or restarted: what a shutdown() under way,
\* or one that has ended, has done.
Serving(s, phase) ==
    /\ ~s.raw.isDisposing /\ ~s.raw.isDisposed
    /\ s.raw.awaiting \subseteq {s.raw.process} /\ None \notin s.raw.awaiting
    /\ s.raw.isShuttingDown <=> s.raw.awaiting # {}
    /\ s.raw.isShuttingDown \/ s.raw.hasShutdown =>
          s.raw.process # None /\ s.procs[s.raw.process].phase # "live"
    /\ s.raw.hasShutdown => s.open = {}
    /\ s.raw.start.pc = "connecting" => ~s.raw.isShuttingDown /\ ~s.raw.hasShutdown
    /\ phase = "restarting" /\ s.raw.start.pc \in {"launching", "connecting"} => s.raw.isRestarting
    /\ s.raw.start.pc = "resolved" \/ phase = "up" => ~s.raw.isRestarting
    /\ phase = "up" => s.raw.process # None /\ s.raw.start.pc = "idle"
    /\ s.raw.process # None => ~s.raw.realDisposed

\* The end of a process whose start has succeeded has been noticed.
Noticed(s, phase) ==
    /\ s.raw.process # None /\ ~Runs(s.procs, s.raw.process)
    /\ s.raw.start.pc \in {"connecting", "resolved"} \/ phase = "up"
    => s.raw.isShuttingDown \/ s.raw.hasShutdown

\* While the session is released, and afterwards.
Ending(s) ==
    /\ s.raw.start.pc \notin {"launching", "connecting"}
    /\ s.raw.awaiting \subseteq {s.raw.process} /\ None \notin s.raw.awaiting
    /\ s.raw.awaiting # {} \/ s.open = {}
    /\ s.raw.process # None => s.procs[s.raw.process].phase # "live"

\* Before there is a session.
Fresh(s) ==
    /\ s.raw.process = None /\ s.raw.socket = None /\ s.raw.start.pc = "idle"
    /\ s.raw.awaiting = {} /\ s.open = {} /\ s.procs = <<>>
    /\ ~s.raw.isShuttingDown /\ ~s.raw.hasShutdown
    /\ ~s.raw.isDisposing /\ ~s.raw.isDisposed /\ ~s.raw.isRestarting

Phases == {"none", "creating", "up", "restarting", "releasing", "released"}

Inv(s, o, over) ==
    /\ s \in States /\ o \in [phase : Phases, awaits : Ids]
    /\ Sound(s)
    /\ o.phase = "none" => Fresh(s)
    /\ o.phase = "up" => s.raw.start.pc = "idle"
    /\ o.phase \in {"creating", "restarting", "up"} /\ ~over =>
          Serving(s, o.phase) /\ Noticed(s, o.phase)
    /\ o.phase \in {"releasing", "released"} /\ ~over => Ending(s)

RawInv == Inv(State, owner, overlapped)

-----------------------------------------------------------------------------
(* Exits *)

\* What the exit event needs.
LEMMA SoundStarting ==
    ASSUME NEW s, Sound(s)
    PROVE  Starting(s.raw)
BY DEF Sound, Starting

\* The exit event keeps the processes in order.
LEMMA ExitSound ==
    ASSUME None \notin Nat, NEW s \in States, Sound(s), NEW p \in DOMAIN s.procs,
           NEW t, Exited(s, p, t)
    PROVE  Sound(t)
<1>1. /\ DOMAIN s.procs = 1..Len(s.procs) /\ Len(s.procs) \in Nat /\ p \in Nat /\ p # None
      /\ {s.raw.process, s.raw.hooked, s.raw.socket, s.raw.start.proc}
           \subseteq DOMAIN s.procs \cup {None}
  BY LenProperties DEF States
<1>2. PICK D : D \subseteq {p} /\ Disposes(s.procs, t.procs, D)
                /\ (s.raw.start.pc = "launching" => D = {})
  <2>1. CASE Stops(s.raw, p)
    BY <1>1, <2>1 DEF Exited, Stops, Sound
  <2>2. CASE ~Stops(s.raw, p)
    BY <2>2 DEF Exited
  <2> QED
    BY <2>1, <2>2
<1>3. /\ t.raw.process = s.raw.process /\ t.raw.hooked = s.raw.hooked /\ t.raw.socket = s.raw.socket
      /\ t.raw.start.proc = s.raw.start.proc /\ t.open = s.open
      /\ \/ t.raw.start.pc = s.raw.start.pc
         \/ s.raw.start.pc = "connecting" /\ t.raw.start.pc = "failing"
  BY DEF Exited, Kept
<1>4. /\ Len(t.procs) = Len(s.procs)
      /\ \A q \in 1..Len(s.procs) : Runs(t.procs, q) => Runs(s.procs, q)
      /\ \A q \in 1..Len(s.procs) : q \notin D /\ Runs(s.procs, q) => Runs(t.procs, q)
  BY <1>2 DEF Disposes, Runs
<1> QED
  BY <1>1, <1>2, <1>3, <1>4 DEF Sound

\* A connection that serves a session notices the exit of its process.
LEMMA ExitServing ==
    ASSUME None \notin Nat, NEW s \in States, Sound(s), NEW p \in DOMAIN s.procs,
           NEW t, Exited(s, p, t),
           NEW phase, Serving(s, phase), p # s.raw.process => Noticed(s, phase)
    PROVE  Serving(t, phase) /\ Noticed(t, phase)
<1>1. /\ DOMAIN s.procs = 1..Len(s.procs) /\ Len(s.procs) \in Nat /\ p \in Nat /\ p # None
      /\ {s.raw.process, s.raw.hooked, s.raw.socket, s.raw.start.proc}
           \subseteq DOMAIN s.procs \cup {None}
  BY LenProperties DEF States
<1>2. /\ t.raw.process = s.raw.process /\ t.raw.start.proc = s.raw.start.proc /\ t.open = s.open
      /\ t.raw.isRestarting = s.raw.isRestarting /\ t.raw.isDisposing = s.raw.isDisposing
      /\ t.raw.isDisposed = s.raw.isDisposed /\ t.raw.realDisposed = s.raw.realDisposed
  BY DEF Exited, Kept
<1>3. /\ s.raw.start.pc = "connecting" /\ s.raw.start.proc = p => t.raw.start.pc = "failing"
      /\ ~(s.raw.start.pc = "connecting" /\ s.raw.start.proc = p) => t.raw.start.pc = s.raw.start.pc
  BY DEF Exited
<1>4. CASE Stops(s.raw, p)
  <2>1. /\ s.raw.process = p /\ Disposes(s.procs, t.procs, {p})
        /\ t.raw.awaiting = s.raw.awaiting \cup {p}
    BY <1>4 DEF Exited, Stops
  <2>2. t.raw.isShuttingDown /\ ~t.raw.hasShutdown
    BY <1>4 DEF Exited
  <2>3. t.procs[p].phase # "live"
    BY <1>1, <2>1 DEF Disposes
  <2>4. t.raw.start.pc \notin {"launching", "connecting"}
    BY <1>1, <1>3, <2>1 DEF Sound
  <2>5. t.raw.awaiting \subseteq {t.raw.process} /\ None \notin t.raw.awaiting /\ t.raw.awaiting # {}
    BY <1>1, <1>2, <2>1 DEF Serving
  <2>6. Noticed(t, phase)
    BY <2>2 DEF Noticed
  <2>7. ~t.raw.isDisposing /\ ~t.raw.isDisposed
    BY <1>2 DEF Serving
  <2>8. t.raw.start.pc = "resolved" \/ phase = "up" => ~t.raw.isRestarting
    BY <1>2, <1>3 DEF Serving
  <2>9. phase = "up" => t.raw.process # None /\ t.raw.start.pc = "idle"
    BY <1>2, <1>3 DEF Serving
  <2>10. t.raw.process # None => ~t.raw.realDisposed
    BY <1>2 DEF Serving
  <2>11. t.raw.process # None /\ t.procs[t.raw.process].phase # "live"
    BY <1>1, <1>2, <2>1, <2>3
  <2> QED
    BY <2>2, <2>4, <2>5, <2>6, <2>7, <2>8, <2>9, <2>10, <2>11 DEF Serving
<1>5. CASE ~Stops(s.raw, p)
  <2>1. Stays(s.raw, t.raw)
    BY <1>5 DEF Exited
  <2>2. t.raw.isShuttingDown = s.raw.isShuttingDown /\ t.raw.hasShutdown = s.raw.hasShutdown
    BY <2>1 DEF Stays
  <2>3. t.raw.awaiting = s.raw.awaiting
    BY <2>1 DEF Stays
  <2>4. PICK D : Disposes(s.procs, t.procs, D)
    BY <1>5 DEF Exited
  <2>5. \A q \in 1..Len(s.procs) : s.procs[q].phase # "live" => t.procs[q].phase # "live"
    BY <2>4 DEF Disposes
  <2>6. t.raw.isShuttingDown \/ t.raw.hasShutdown =>
           t.raw.process # None /\ t.procs[t.raw.process].phase # "live"
    BY <1>1, <1>2, <2>2, <2>5 DEF Serving
  <2>7. t.raw.start.pc = "connecting" => ~t.raw.isShuttingDown /\ ~t.raw.hasShutdown
    BY <1>3, <2>2 DEF Serving
  <2>8. phase = "restarting" /\ t.raw.start.pc \in {"launching", "connecting"} => t.raw.isRestarting
    BY <1>2, <1>3 DEF Serving
  <2>9. t.raw.start.pc = "resolved" \/ phase = "up" => ~t.raw.isRestarting
    BY <1>2, <1>3 DEF Serving
  <2>10. phase = "up" => t.raw.process # None /\ t.raw.start.pc = "idle"
    BY <1>2, <1>3 DEF Serving
  <2>11. t.raw.process # None => ~t.raw.realDisposed
    BY <1>2 DEF Serving
  <2>12. ~t.raw.isDisposing /\ ~t.raw.isDisposed
    BY <1>2 DEF Serving
  <2>13. t.raw.isShuttingDown <=> t.raw.awaiting # {}
    BY <2>2, <2>3 DEF Serving
  <2>14. t.raw.hasShutdown => t.open = {}
    BY <1>2, <2>2 DEF Serving
  <2>15. t.raw.awaiting \subseteq {t.raw.process} /\ None \notin t.raw.awaiting
    BY <1>2, <2>3 DEF Serving
  <2>16. Serving(t, phase)
    BY <2>6, <2>7, <2>8, <2>9, <2>10, <2>11, <2>12, <2>13, <2>14, <2>15 DEF Serving
  <2>17. ASSUME t.raw.process # None, t.raw.start.pc \in {"connecting", "resolved"} \/ phase = "up",
                ~Runs(t.procs, t.raw.process)
         PROVE  t.raw.isShuttingDown \/ t.raw.hasShutdown
    <3>1. CASE s.raw.process = p
      <4>1. s.raw.hooked = p /\ ~s.raw.isDisposing
        BY <1>1, <3>1 DEF Sound, Serving
      <4>2. s.raw.start.pc # "connecting"
        BY <1>3, <2>17, <3>1 DEF Sound, Serving
      <4>3. ~s.raw.isDisposed /\ ~s.raw.realDisposed
        BY <1>1, <3>1 DEF Serving
      <4>4. SUFFICES ASSUME ~s.raw.isShuttingDown, ~s.raw.hasShutdown PROVE FALSE
        BY <2>2
      <4>5. Status(s.raw) \notin {"dead", "terminating"}
        BY <4>3, <4>4 DEF Status
      <4> QED
        BY <1>5, <3>1, <4>1, <4>4, <4>5 DEF Stops
    <3>2. CASE s.raw.process # p
      <4>1. Noticed(s, phase)
        BY <3>2
      <4>2. ~(s.raw.start.pc = "connecting" /\ s.raw.start.proc = p)
        BY <3>2 DEF Sound
      <4>3. t.raw.start.pc = s.raw.start.pc /\ Disposes(s.procs, t.procs, {})
        BY <1>3, <1>5, <4>2 DEF Exited
      <4>4. ~Runs(s.procs, s.raw.process)
        BY <1>1, <1>2, <2>17, <4>3 DEF Disposes, Runs
      <4>5. s.raw.isShuttingDown \/ s.raw.hasShutdown
        BY <1>2, <2>17, <4>1, <4>3, <4>4 DEF Noticed
      <4> QED
        BY <2>2, <4>5
    <3> QED
      BY <3>1, <3>2
  <2>18. Noticed(t, phase)
    BY <2>17 DEF Noticed
  <2> QED
    BY <2>16, <2>18
<1> QED
  BY <1>4, <1>5

\* The exit event of a connection that ends.
LEMMA ExitEnding ==
    ASSUME None \notin Nat, NEW s \in States, NEW p \in DOMAIN s.procs,
           NEW t, Exited(s, p, t), Ending(s)
    PROVE  Ending(t)
<1>1. /\ DOMAIN s.procs = 1..Len(s.procs) /\ Len(s.procs) \in Nat /\ p \in Nat /\ p # None
      /\ {s.raw.process, s.raw.hooked, s.raw.socket, s.raw.start.proc}
           \subseteq DOMAIN s.procs \cup {None}
  BY LenProperties DEF States
<1>2. /\ t.raw.process = s.raw.process /\ t.open = s.open /\ t.raw.start.pc = s.raw.start.pc
      /\ \E D : Disposes(s.procs, t.procs, D)
  BY DEF Exited, Kept, Ending
<1>3. s.raw.process # None => t.procs[s.raw.process].phase # "live"
  BY <1>1, <1>2 DEF Ending, Disposes
<1>4. \/ t.raw.awaiting = s.raw.awaiting
      \/ (s.raw.process = p /\ t.raw.awaiting = s.raw.awaiting \cup {p})
  BY DEF Exited, Stops, Stays
<1> QED
  BY <1>1, <1>2, <1>3, <1>4 DEF Ending

-----------------------------------------------------------------------------
(* Starts that are cancelled or fail, and shutdowns *)

\* Of the processes f, those of D and no others have stopped in g, and none came to life.
Stopped(f, g, D) ==
    /\ Len(g) = Len(f)
    /\ \A p \in 1..Len(f) :
          /\ Runs(g, p) <=> Runs(f, p) /\ p \notin D
          /\ f[p].phase # "live" => g[p].phase # "live"

\* Processes that are disposed of have stopped.
LEMMA DisposesStops ==
    ASSUME NEW f, NEW g, NEW D, Disposes(f, g, D)
    PROVE  Stopped(f, g, D)
BY DEF Disposes, Stopped, Runs

\* What the end of a start() that does not succeed leaves.
Failed(s, t) ==
    /\ t \in States /\ t.open = s.open /\ Kept(s.raw, t.raw) /\ Stays(s.raw, t.raw)
    /\ t.raw.start.pc = CancelledAt(s.raw.start.pc)
    /\ Stopped(s.procs, t.procs, Cancelled(s.raw))

\* A start() that fails leaves the processes in order.
LEMMA FailedSound ==
    ASSUME NEW s \in States, Sound(s), NEW t, Failed(s, t)
    PROVE  Sound(t)
<1>1. /\ DOMAIN s.procs = 1..Len(s.procs) /\ Len(s.procs) \in Nat
      /\ {s.raw.process, s.raw.hooked, s.raw.socket, s.raw.start.proc}
           \subseteq DOMAIN s.procs \cup {None}
  BY LenProperties DEF States
<1>2. /\ t.raw.process = s.raw.process /\ t.raw.hooked = s.raw.hooked /\ t.raw.socket = s.raw.socket
      /\ t.raw.start.proc = s.raw.start.proc /\ t.open = s.open
      /\ t.raw.start.pc = CancelledAt(s.raw.start.pc)
  BY DEF Failed, Kept
<1>3. /\ Len(t.procs) = Len(s.procs)
      /\ \A q \in 1..Len(s.procs) : Runs(t.procs, q) => Runs(s.procs, q) /\ q \notin Cancelled(s.raw)
  <2>1. ASSUME NEW q \in 1..Len(s.procs), Runs(t.procs, q)
        PROVE  Runs(s.procs, q) /\ q \notin Cancelled(s.raw)
    BY <2>1 DEF Failed, Stopped
  <2> QED
    BY <2>1 DEF Failed, Stopped
<1>4. CASE s.raw.start.pc = "launching"
  BY <1>1, <1>2, <1>3, <1>4 DEF Sound, CancelledAt, Cancelled
<1>5. CASE s.raw.start.pc = "connecting"
  BY <1>1, <1>2, <1>3, <1>5 DEF Sound, CancelledAt, Cancelled
<1>6. CASE s.raw.start.pc \notin {"launching", "connecting"}
  BY <1>1, <1>2, <1>3, <1>6 DEF Sound, CancelledAt, Cancelled
<1> QED
  BY <1>4, <1>5, <1>6

\* A start() that fails leaves a connection that serves the session, and starts no more.
LEMMA FailedServing ==
    ASSUME NEW s \in States, Sound(s), NEW t, Failed(s, t),
           NEW phase, Serving(s, phase), Noticed(s, phase)
    PROVE  /\ Serving(t, phase) /\ Noticed(t, phase)
           /\ t.raw.start.pc \notin {"launching", "connecting"}
<1>1. /\ DOMAIN s.procs = 1..Len(s.procs) /\ Len(s.procs) \in Nat
      /\ {s.raw.process, s.raw.hooked, s.raw.socket, s.raw.start.proc}
           \subseteq DOMAIN s.procs \cup {None}
  BY LenProperties DEF States
<1>2. /\ t.raw.process = s.raw.process /\ t.raw.start.proc = s.raw.start.proc /\ t.open = s.open
      /\ t.raw.isRestarting = s.raw.isRestarting /\ t.raw.isDisposing = s.raw.isDisposing
      /\ t.raw.realDisposed = s.raw.realDisposed
      /\ t.raw.start.pc = CancelledAt(s.raw.start.pc)
  BY DEF Failed, Kept
<1>3. /\ t.raw.isShuttingDown = s.raw.isShuttingDown /\ t.raw.hasShutdown = s.raw.hasShutdown
      /\ t.raw.isDisposed = s.raw.isDisposed /\ t.raw.awaiting = s.raw.awaiting
  BY DEF Failed, Stays
<1>4. /\ t.raw.start.pc \notin {"launching", "connecting"}
      /\ s.raw.start.pc \notin {"launching", "connecting"} => t.raw.start.pc = s.raw.start.pc
      /\ t.raw.start.pc = "resolved" => s.raw.start.pc = "resolved"
      /\ s.raw.start.pc = "idle" => t.raw.start.pc = "idle"
  BY <1>2 DEF CancelledAt
<1>5. /\ \A q \in 1..Len(s.procs) : s.procs[q].phase # "live" => t.procs[q].phase # "live"
      /\ s.raw.start.pc \notin {"launching", "connecting"} =>
            \A q \in 1..Len(s.procs) : Runs(s.procs, q) => Runs(t.procs, q)
  BY DEF Failed, Stopped, Cancelled
<1>6. t.raw.isShuttingDown \/ t.raw.hasShutdown =>
         t.raw.process # None /\ t.procs[t.raw.process].phase # "live"
  BY <1>1, <1>2, <1>3, <1>5 DEF Serving
<1>7. t.raw.start.pc = "resolved" \/ phase = "up" => ~t.raw.isRestarting
  BY <1>2, <1>4 DEF Serving
<1>8. phase = "up" => t.raw.process # None /\ t.raw.start.pc = "idle"
  BY <1>2, <1>4 DEF Serving
<1>9. t.raw.process # None => ~t.raw.realDisposed
  BY <1>2 DEF Serving
<1>10. ~t.raw.isDisposing /\ ~t.raw.isDisposed
  BY <1>2, <1>3 DEF Serving
<1>11. t.raw.isShuttingDown <=> t.raw.awaiting # {}
  BY <1>3 DEF Serving
<1>12. t.raw.hasShutdown => t.open = {}
  BY <1>2, <1>3 DEF Serving
<1>13. t.raw.awaiting \subseteq {t.raw.process} /\ None \notin t.raw.awaiting
  BY <1>2, <1>3 DEF Serving
<1>14. Serving(t, phase)
  BY <1>4, <1>6, <1>7, <1>8, <1>9, <1>10, <1>11, <1>12, <1>13 DEF Serving
<1>15. ASSUME t.raw.process # None, ~Runs(t.procs, t.raw.process),
              t.raw.start.pc \in {"connecting", "resolved"} \/ phase = "up"
       PROVE  t.raw.isShuttingDown \/ t.raw.hasShutdown
  <2>1. s.raw.start.pc = "resolved" \/ phase = "up"
    BY <1>4, <1>15
  <2>2. s.raw.start.pc \notin {"launching", "connecting"}
    BY <2>1 DEF Serving
  <2>3. s.raw.process # None /\ ~Runs(s.procs, s.raw.process)
    BY <1>1, <1>2, <1>5, <1>15, <2>2
  <2>4. s.raw.isShuttingDown \/ s.raw.hasShutdown
    BY <2>1, <2>3 DEF Noticed
  <2> QED
    BY <1>3, <2>4
<1>16. Noticed(t, phase)
  BY <1>15 DEF Noticed
<1> QED
  BY <1>4, <1>14, <1>16

\* A shutdown() keeps the processes in order.
LEMMA ShutSound ==
    ASSUME NEW s \in States, Sound(s), NEW t, ShutsDown(s, t)
    PROVE  Sound(t)
<1>1. /\ DOMAIN s.procs = 1..Len(s.procs) /\ Len(s.procs) \in Nat
      /\ {s.raw.process, s.raw.hooked, s.raw.socket, s.raw.start.proc}
           \subseteq DOMAIN s.procs \cup {None}
  BY LenProperties DEF States
<1>2. /\ t.raw.process = s.raw.process /\ t.raw.hooked = s.raw.hooked /\ t.raw.socket = s.raw.socket
      /\ t.raw.start.proc = s.raw.start.proc /\ t.open \subseteq s.open
  BY DEF ShutsDown, Kept
<1>3. t.raw.start.pc = s.raw.start.pc \/ t.raw.start.pc = CancelledAt(s.raw.start.pc)
  BY DEF ShutsDown
<1>4. Len(t.procs) = Len(s.procs)
  BY DEF ShutsDown, Disposes
<1>5. ASSUME NEW q \in 1..Len(s.procs), Runs(t.procs, q)
      PROVE  /\ Runs(s.procs, q) /\ q # s.raw.process
             /\ t.raw.start.pc # s.raw.start.pc => q \notin Cancelled(s.raw)
  BY <1>5 DEF ShutsDown, Disposes, Runs
<1>6. ASSUME t.raw.start.pc = "launching", t.raw.start.proc # None
      PROVE  Runs(t.procs, t.raw.start.proc)
  <2>1. s.raw.start.pc = "launching" /\ ~s.raw.isRestarting
    BY <1>6 DEF ShutsDown, CancelledAt
  <2>2. s.raw.process = None /\ Runs(s.procs, s.raw.start.proc) /\ s.raw.start.proc \in 1..Len(s.procs)
    BY <1>1, <1>2, <1>6, <2>1 DEF Sound
  <2> QED
    BY <1>2, <1>6, <2>1, <2>2 DEF ShutsDown, Disposes, Runs
<1>7. ASSUME NEW q \in 1..Len(s.procs), Runs(t.procs, q)
      PROVE  t.raw.start.pc = "launching" /\ q = t.raw.start.proc
  <2>1. s.raw.start.pc = "launching" /\ q = s.raw.start.proc
    BY <1>5, <1>7 DEF Sound
  <2>2. t.raw.start.pc = s.raw.start.pc
    BY <1>5, <1>7, <2>1 DEF Cancelled
  <2> QED
    BY <1>2, <2>1, <2>2
<1>8. t.raw.process # None => t.raw.socket = t.raw.process /\ t.raw.hooked = t.raw.process
  BY <1>2 DEF Sound
<1>9. t.open \subseteq {t.raw.socket}
  BY <1>2 DEF Sound
<1>10. t.raw.start.pc = "launching" => t.raw.process = None /\ t.open = {}
  BY <1>2, <1>3 DEF Sound, CancelledAt
<1>11. t.raw.start.pc \in {"connecting", "failing", "resolved"} =>
          t.raw.process # None /\ t.raw.start.proc = t.raw.process
  BY <1>2, <1>3 DEF Sound, CancelledAt
<1> QED
  BY <1>4, <1>6, <1>7, <1>8, <1>9, <1>10, <1>11 DEF Sound

\* A shutdown() of a connection that served a session ends it: nothing is left but what the
\* disposal it awaits closes.
LEMMA ShutEnds ==
    ASSUME None \notin Nat, NEW s \in States, Sound(s), NEW phase, Serving(s, phase),
           s.raw.start.pc \in {"launching", "connecting"} => s.raw.isRestarting,
           NEW t, t = Shutdown(s)
    PROVE  t \in States /\ Sound(t) /\ Ending(t)
<1>1. /\ DOMAIN s.procs = 1..Len(s.procs) /\ Len(s.procs) \in Nat /\ s.open \subseteq Nat
      /\ {s.raw.process, s.raw.hooked, s.raw.socket, s.raw.start.proc}
           \subseteq DOMAIN s.procs \cup {None}
  BY LenProperties DEF States
<1>2. CASE s.raw.isShuttingDown \/ s.raw.hasShutdown
  <2>1. t = s
    BY <1>2 DEF Shutdown
  <2>2. s.raw.process # None /\ s.procs[s.raw.process].phase # "live"
    BY <1>2 DEF Serving
  <2>3. s.raw.start.pc \notin {"launching", "connecting"}
    BY <1>2, <2>2 DEF Serving, Sound
  <2>4. s.raw.awaiting # {} \/ s.open = {}
    BY <1>2 DEF Serving
  <2> QED
    BY <2>1, <2>2, <2>3, <2>4 DEF Ending, Serving
<1>3. CASE ~(s.raw.isShuttingDown \/ s.raw.hasShutdown)
  <2>1. s.raw.start.pc = "connecting" => s.raw.process # None
    BY DEF Sound
  <2>2. ~s.raw.isShuttingDown /\ ~s.raw.hasShutdown
    BY <1>3
  <2>3. ShutsDown(s, t)
    BY <2>1, <2>2, ShutdownDoes
  <2>4. t.raw.process = s.raw.process
    BY <2>3 DEF ShutsDown, Kept
  <2>5. t.raw.start.pc \notin {"launching", "connecting"}
    BY <2>3 DEF ShutsDown, CancelledAt
  <2>6. s.raw.awaiting = {}
    BY <2>2 DEF Serving
  <2>7. CASE s.raw.process # None
    <3>1. t.raw.awaiting = {s.raw.process}
      BY <2>3, <2>6, <2>7 DEF ShutsDown
    <3>2. t.procs[s.raw.process].phase # "live"
      BY <1>1, <2>3, <2>7 DEF ShutsDown, Disposes
    <3> QED
      BY <2>3, <2>4, <2>5, <2>7, <3>1, <3>2, ShutSound DEF Ending, ShutsDown
  <2>8. CASE s.raw.process = None
    <3>1. t.raw.awaiting = {}
      BY <2>3, <2>6, <2>8 DEF ShutsDown
    <3>2. t.open = {}
      BY <1>1, <2>3, <2>8 DEF ShutsDown, Sound
    <3> QED
      BY <2>3, <2>4, <2>5, <2>8, <3>1, <3>2, ShutSound DEF Ending, ShutsDown
  <2> QED
    BY <2>7, <2>8
<1> QED
  BY <1>2, <1>3

\* A shutdown() of a connection that ends.
LEMMA ShutEnding ==
    ASSUME None \notin Nat, NEW s \in States, NEW t, ShutsDown(s, t), Ending(s)
    PROVE  Ending(t)
<1>1. /\ DOMAIN s.procs = 1..Len(s.procs) /\ Len(s.procs) \in Nat /\ s.open \subseteq Nat
      /\ {s.raw.process, s.raw.hooked, s.raw.socket, s.raw.start.proc}
           \subseteq DOMAIN s.procs \cup {None}
  BY LenProperties DEF States
<1>2. t.raw.process = s.raw.process /\ t.raw.start.pc = s.raw.start.pc
  BY DEF ShutsDown, Kept, CancelledAt, Ending
<1>3. CASE s.raw.process # None
  <2>1. t.raw.awaiting = s.raw.awaiting \cup {s.raw.process}
    BY <1>3 DEF ShutsDown
  <2>2. t.procs[s.raw.process].phase # "live"
    BY <1>1, <1>3 DEF ShutsDown, Disposes
  <2> QED
    BY <1>2, <1>3, <2>1, <2>2 DEF Ending
<1>4. CASE s.raw.process = None
  <2>1. t.raw.awaiting = s.raw.awaiting /\ t.open \subseteq s.open
    BY <1>4 DEF ShutsDown
  <2> QED
    BY <1>2, <1>4, <2>1 DEF Ending
<1> QED
  BY <1>3, <1>4

-----------------------------------------------------------------------------
(* Processes that end *)

\* t is s with process p being q.
Reaches(s, p, q, t) ==
    /\ t \in States /\ t.raw = s.raw /\ t.open = s.open /\ Len(t.procs) = Len(s.procs)
    /\ t.procs[p] = q /\ \A k \in 1..Len(s.procs) : k # p => t.procs[k] = s.procs[k]

\* A state of which one process changes.
LEMMA ProcessChanges ==
    ASSUME NEW s \in States, NEW p \in DOMAIN s.procs, NEW q \in ProcessType, NEW t,
           t = [s EXCEPT !.procs = [s.procs EXCEPT ![p] = q]]
    PROVE  Reaches(s, p, q, t)
<1>1. /\ s \in [raw : RawType, procs : Seq(ProcessType), open : SUBSET Nat]
      /\ s.procs \in Seq(ProcessType)
      /\ DOMAIN s.procs = 1..Len(s.procs) /\ Len(s.procs) \in Nat
  BY LenProperties DEF States
<1> DEFINE f == [s.procs EXCEPT ![p] = q]
<1>2. /\ f \in Seq(ProcessType) /\ Len(f) = Len(s.procs) /\ f[p] = q
      /\ \A k \in 1..Len(s.procs) : k # p => f[k] = s.procs[k]
  BY <1>1, ExceptSeq
<1>3. t = [s EXCEPT !.procs = f]
  OBVIOUS
<1> HIDE DEF f
<1>4. /\ t.procs = f /\ t.raw = s.raw /\ t.open = s.open
      /\ t \in [raw : RawType, procs : Seq(ProcessType), open : SUBSET Nat]
  BY <1>1, <1>2, <1>3
<1>5. DOMAIN f = DOMAIN s.procs
  BY <1>1, <1>2, LenProperties
<1>6. t \in States
  BY <1>4, <1>5 DEF States
<1> QED
  BY <1>2, <1>4, <1>6 DEF Reaches

\* p goes on ending: it does not run, and is not alive again.
Ceases(s, p, q, t) ==
    /\ Reaches(s, p, q, t) /\ ~(q.phase = "live" /\ ~q.exited)
    /\ s.procs[p].phase # "live" => q.phase # "live"

\* A process that ends, other than the one being launched, leaves the rest in order.
LEMMA CeasesSound ==
    ASSUME NEW s \in States, Sound(s), NEW p \in DOMAIN s.procs, NEW q, NEW t, Ceases(s, p, q, t),
           s.raw.start.pc = "launching" => s.raw.start.proc # p
    PROVE  Sound(t)
<1>1. /\ DOMAIN s.procs = 1..Len(s.procs) /\ Len(s.procs) \in Nat
      /\ {s.raw.process, s.raw.hooked, s.raw.socket, s.raw.start.proc}
           \subseteq DOMAIN s.procs \cup {None}
  BY LenProperties DEF States
<1>2. /\ t.raw = s.raw /\ t.open = s.open /\ Len(t.procs) = Len(s.procs)
      /\ \A k \in 1..Len(s.procs) : Runs(t.procs, k) => k # p
      /\ \A k \in 1..Len(s.procs) : k # p => t.procs[k] = s.procs[k]
  BY DEF Ceases, Reaches, Runs
<1>3. \A k \in 1..Len(s.procs) : k # p => (Runs(t.procs, k) <=> Runs(s.procs, k))
  BY <1>2 DEF Runs
<1> QED
  BY <1>1, <1>2, <1>3 DEF Sound

\* A connection serves its session while a process ends, and has noticed what it had to.
LEMMA CeasesServing ==
    ASSUME NEW s \in States, NEW p \in DOMAIN s.procs, NEW q, NEW t, Ceases(s, p, q, t),
           NEW phase, Serving(s, phase), Noticed(s, phase)
    PROVE  /\ Serving(t, phase)
           /\ p # s.raw.process \/ ~Runs(s.procs, p) => Noticed(t, phase)
<1>1. /\ DOMAIN s.procs = 1..Len(s.procs) /\ Len(s.procs) \in Nat
      /\ {s.raw.process, s.raw.hooked, s.raw.socket, s.raw.start.proc}
           \subseteq DOMAIN s.procs \cup {None}
  BY LenProperties DEF States
<1>2. /\ t.raw = s.raw /\ t.open = s.open
      /\ \A k \in 1..Len(s.procs) : s.procs[k].phase # "live" => t.procs[k].phase # "live"
      /\ \A k \in 1..Len(s.procs) : k # p => t.procs[k] = s.procs[k]
  BY DEF Ceases, Reaches
<1>3. s.raw.isShuttingDown \/ s.raw.hasShutdown =>
         s.raw.process # None /\ t.procs[s.raw.process].phase # "live"
  BY <1>1, <1>2 DEF Serving
<1>4. Serving(t, phase)
  BY <1>2, <1>3 DEF Serving
<1>5. ASSUME p # s.raw.process \/ ~Runs(s.procs, p)
      PROVE  Noticed(t, phase)
  <2>1. s.raw.process # None /\ ~Runs(t.procs, s.raw.process) => ~Runs(s.procs, s.raw.process)
    BY <1>1, <1>2, <1>5 DEF Runs
  <2> QED
    BY <1>2, <2>1 DEF Noticed
<1> QED
  BY <1>4, <1>5

\* A connection goes on ending while a process does.
LEMMA CeasesEnding ==
    ASSUME NEW s \in States, NEW p \in DOMAIN s.procs, NEW q, NEW t, Ceases(s, p, q, t), Ending(s)
    PROVE  Ending(t)
<1>1. /\ DOMAIN s.procs = 1..Len(s.procs) /\ Len(s.procs) \in Nat
      /\ {s.raw.process, s.raw.hooked, s.raw.socket, s.raw.start.proc}
           \subseteq DOMAIN s.procs \cup {None}
  BY LenProperties DEF States
<1>2. /\ t.raw = s.raw /\ t.open = s.open
      /\ \A k \in 1..Len(s.procs) : s.procs[k].phase # "live" => t.procs[k].phase # "live"
  BY DEF Ceases, Reaches
<1> QED
  BY <1>1, <1>2 DEF Ending

-----------------------------------------------------------------------------
(* The actions *)

\* The state a handler leaves.
LEMMA BecomesState ==
    ASSUME NEW t \in States, Becomes(t)
    PROVE  State' = t
<1>1. t \in [raw : RawType, procs : Seq(ProcessType), open : SUBSET Nat]
  BY DEF States
<1>2. t = [raw |-> t.raw, procs |-> t.procs, open |-> t.open]
  BY <1>1
<1> QED
  BY <1>2 DEF Becomes, State

\* The fields of the state.
LEMMA StateFields ==
    /\ State.raw = raw /\ State.procs = procs /\ State.open = open
    /\ State'.raw = raw' /\ State'.procs = procs' /\ State'.open = open'
BY DEF State

\* A start() that ends without success.
LEMMA FailedStep ==
    ASSUME RawInv, owner.phase # "none", UNCHANGED <<owner, overlapped>>,
           raw.start.pc \in {"launching", "connecting"}, Failed(State, State')
    PROVE  RawInv'
<1>1. Inv(State, owner, overlapped) /\ State.raw.start.pc \in {"launching", "connecting"}
  BY StateFields DEF RawInv
<1>2. State' \in States /\ Sound(State')
  BY <1>1, FailedSound DEF Inv, Failed
<1>3. owner.phase # "up"
  BY <1>1 DEF Inv
<1>4. owner.phase \in {"creating", "restarting", "up"} /\ ~overlapped =>
         Serving(State', owner.phase) /\ Noticed(State', owner.phase)
  BY <1>1, FailedServing DEF Inv
<1>5. owner.phase \in {"releasing", "released"} => overlapped
  BY <1>1 DEF Inv, Ending
<1> QED
  BY <1>1, <1>2, <1>3, <1>4, <1>5 DEF RawInv, Inv

\* Some process is launched for the session there is.
LEMMA HasSession ==
    ASSUME RawInv, raw.start.pc # "idle" \/ procs # <<>>
    PROVE  owner.phase # "none"
BY StateFields DEF RawInv, Inv, Fresh

\* The launcher gives up.
LEMMA LaunchThrowsStep ==
    ASSUME None \notin Nat, RawInv, LaunchThrows
    PROVE  RawInv'
<1>1. State \in States /\ raw.start.pc = "launching" /\ Becomes(LaunchFails(State, "launch", FALSE))
      /\ UNCHANGED <<owner, overlapped>>
  BY DEF LaunchThrows, RawInv, Inv
<1>2. PICK s, t : s \in States /\ s = State /\ t = LaunchFails(s, "launch", FALSE)
  BY <1>1
<1>3. /\ t \in States /\ t.open = s.open /\ Kept(s.raw, t.raw) /\ Stays(s.raw, t.raw)
      /\ t.raw.start.pc = "rejected"
      /\ Disposes(s.procs, t.procs, {s.raw.start.proc})
  BY <1>2, LaunchFailsDoes
<1>4. Failed(s, t) /\ State' = t
  BY <1>1, <1>2, <1>3, BecomesState, DisposesStops, StateFields DEF Failed, CancelledAt, Cancelled
<1> QED
  BY <1>1, <1>2, <1>4, HasSession, FailedStep

\* The kernel does not answer in time.
LEMMA ConnectTimesOutStep ==
    ASSUME None \notin Nat, RawInv, ConnectTimesOut
    PROVE  RawInv'
<1>1. State \in States /\ raw.start.pc = "connecting" /\ Becomes(ConnectFails(State, "timeout"))
      /\ UNCHANGED <<owner, overlapped>> /\ State.raw.process # None
  BY StateFields DEF ConnectTimesOut, RawInv, Inv, Sound
<1>2. PICK s, t : s \in States /\ s = State /\ t = ConnectFails(s, "timeout")
  BY <1>1
<1>3. /\ t \in States /\ t.open = s.open /\ Kept(s.raw, t.raw) /\ Stays(s.raw, t.raw)
      /\ t.raw.start.pc = "failing"
      /\ Disposes(s.procs, t.procs, {s.raw.process})
  BY <1>1, <1>2, ConnectFailsDoes
<1>4. Failed(s, t) /\ State' = t
  BY <1>1, <1>2, <1>3, BecomesState, DisposesStops, StateFields DEF Failed, CancelledAt, Cancelled
<1> QED
  BY <1>1, <1>2, <1>4, HasSession, FailedStep

\* The exit event brings the connection to a state of the invariant.
LEMMA ExitStep ==
    ASSUME None \notin Nat, NEW s \in States, Sound(s), NEW p \in DOMAIN s.procs,
           State' = ExitEvent(s, p), UNCHANGED <<owner, overlapped>>,
           owner \in [phase : Phases, awaits : Ids], owner.phase # "none",
           owner.phase = "up" => s.raw.start.pc = "idle",
           owner.phase \in {"creating", "restarting", "up"} /\ ~overlapped =>
              Serving(s, owner.phase) /\ (p # s.raw.process => Noticed(s, owner.phase)),
           owner.phase \in {"releasing", "released"} /\ ~overlapped => Ending(s)
    PROVE  RawInv'
<1>1. PICK t : t = State'
  OBVIOUS
<1>2. Exited(s, p, t)
  <2>1. Starting(s.raw) /\ t = ExitEvent(s, p)
    BY <1>1, SoundStarting
  <2> QED
    BY <2>1, ExitEventDoes
<1>3. t \in States /\ Sound(t)
  BY <1>2, ExitSound DEF Exited
<1>4. owner.phase = "up" => t.raw.start.pc = "idle"
  BY <1>2 DEF Exited
<1>5. owner.phase \in {"creating", "restarting", "up"} /\ ~overlapped =>
         Serving(t, owner.phase) /\ Noticed(t, owner.phase)
  BY <1>2, ExitServing
<1>6. owner.phase \in {"releasing", "released"} /\ ~overlapped => Ending(t)
  BY <1>2, ExitEnding
<1> QED
  BY <1>1, <1>3, <1>4, <1>5, <1>6 DEF RawInv, Inv

\* The processes and the types of their fields.
LEMMA ProcessTypes ==
    ASSUME State \in States, NEW p \in Processes
    PROVE  /\ p \in DOMAIN State.procs /\ procs[p] \in ProcessType
           /\ procs[p] \in [phase : {"live", "disposing", "killed", "disposed"}, exited : BOOLEAN]
<1>1. procs \in Seq(ProcessType)
  BY StateFields DEF States
<1>2. p \in 1..Len(procs)
  BY <1>1, LenProperties DEF Processes
<1> QED
  BY <1>1, <1>2, ElementOfSeq, StateFields DEF Processes, ProcessType

\* dispose() kills a process, whose exit may shut the connection down.
LEMMA KillStep ==
    ASSUME None \notin Nat, RawInv, NEW p \in Processes, Kill(p)
    PROVE  RawInv'
<1>1. /\ State \in States /\ Inv(State, owner, overlapped) /\ p \in DOMAIN State.procs
      /\ procs[p] \in ProcessType /\ procs[p].phase = "disposing"
      /\ UNCHANGED <<owner, overlapped>>
  BY ProcessTypes DEF Kill, RawInv, Inv
<1>2. owner.phase # "none"
  BY <1>1, StateFields, EmptySeq DEF Inv, Fresh
<1> DEFINE q == [procs[p] EXCEPT !.phase = "killed"]
           s == [State EXCEPT !.procs = [State.procs EXCEPT ![p] = q]]
<1>3. q \in ProcessType /\ q.phase = "killed" /\ q.exited = procs[p].exited
  BY <1>1 DEF ProcessType
<1>4. s = [State EXCEPT !.procs[p].phase = "killed"]
  BY <1>1, StateFields DEF States
<1> HIDE DEF q
<1>5. Reaches(State, p, q, s)
  BY <1>1, <1>3, ProcessChanges
<1> HIDE DEF s
<1>6. Ceases(State, p, q, s)
  BY <1>1, <1>3, <1>5, StateFields DEF Ceases
<1>7. ~Runs(State.procs, p) /\ s.raw = State.raw /\ s \in States /\ p \in DOMAIN s.procs
  <2>1. s \in States /\ s.raw = State.raw /\ Len(s.procs) = Len(State.procs)
    BY <1>5 DEF Reaches
  <2>2. DOMAIN s.procs = 1..Len(s.procs) /\ DOMAIN State.procs = 1..Len(State.procs)
    BY <1>1, <2>1, LenProperties DEF States
  <2> QED
    BY <1>1, <2>1, <2>2, StateFields DEF Runs
<1>8. Sound(s)
  <2>1. State.raw.start.pc = "launching" => State.raw.start.proc # p
    BY <1>1, <1>7, LenProperties DEF Inv, Sound, States
  <2> QED
    BY <1>1, <1>6, <2>1, CeasesSound DEF Inv
<1>9. owner.phase \in {"creating", "restarting", "up"} /\ ~overlapped =>
         Serving(s, owner.phase) /\ Noticed(s, owner.phase)
  BY <1>1, <1>6, <1>7, CeasesServing DEF Inv
<1>10. owner.phase \in {"releasing", "released"} /\ ~overlapped => Ending(s)
  BY <1>1, <1>6, CeasesEnding DEF Inv
<1>11. Becomes(IF procs[p].exited THEN s ELSE ExitEvent(s, p))
  BY <1>4 DEF Kill
<1>12. CASE procs[p].exited
  <2>1. State' = s
    BY <1>7, <1>11, <1>12, BecomesState
  <2> QED
    BY <1>1, <1>2, <1>7, <1>8, <1>9, <1>10, <2>1 DEF RawInv, Inv
<1>13. CASE ~procs[p].exited
  <2>1. ExitEvent(s, p) \in States
    <3>1. Starting(s.raw)
      BY <1>8, SoundStarting
    <3>2. Exited(s, p, ExitEvent(s, p))
      BY <1>7, <3>1, ExitEventDoes
    <3> QED
      BY <3>2 DEF Exited
  <2>2. State' = ExitEvent(s, p)
    BY <1>11, <1>13, <2>1, BecomesState
  <2> QED
    BY <1>1, <1>2, <1>7, <1>8, <1>9, <1>10, <2>2, ExitStep DEF Inv
<1> QED
  BY <1>12, <1>13

\* A process exits.
LEMMA ProcessExitsStep ==
    ASSUME None \notin Nat, RawInv, NEW p \in Processes, ProcessExits(p)
    PROVE  RawInv'
<1>1. /\ State \in States /\ Inv(State, owner, overlapped) /\ p \in DOMAIN State.procs
      /\ procs[p] \in ProcessType
      /\ UNCHANGED <<owner, overlapped>>
  BY ProcessTypes DEF ProcessExits, RawInv, Inv
<1>2. owner.phase # "none"
  BY <1>1, StateFields, EmptySeq DEF Inv, Fresh
<1> DEFINE q == [procs[p] EXCEPT !.exited = TRUE]
           s == [State EXCEPT !.procs = [State.procs EXCEPT ![p] = q]]
<1>3. q \in ProcessType /\ q.phase = procs[p].phase /\ q.exited
  BY <1>1 DEF ProcessType
<1>4. s = [State EXCEPT !.procs[p].exited = TRUE]
  BY <1>1, StateFields DEF States
<1> HIDE DEF q
<1>5. Reaches(State, p, q, s)
  BY <1>1, <1>3, ProcessChanges
<1> HIDE DEF s
<1>6. Ceases(State, p, q, s)
  BY <1>1, <1>3, <1>5, StateFields DEF Ceases
<1>7. s.raw = State.raw /\ s \in States /\ p \in DOMAIN s.procs
  <2>1. s \in States /\ s.raw = State.raw /\ Len(s.procs) = Len(State.procs)
    BY <1>5 DEF Reaches
  <2>2. DOMAIN s.procs = 1..Len(s.procs) /\ DOMAIN State.procs = 1..Len(State.procs)
    BY <1>1, <2>1, LenProperties DEF States
  <2> QED
    BY <1>1, <2>1, <2>2
<1>8. Becomes(IF procs[p].phase = "disposed" THEN s
              ELSE IF raw.start.pc = "launching" /\ raw.start.proc = p
              THEN LaunchFails(s, "exited", TRUE) ELSE ExitEvent(s, p))
  BY <1>4 DEF ProcessExits
<1>9. CASE raw.start.pc = "launching" /\ raw.start.proc = p
  <2>1. Runs(State.procs, p)
    BY <1>1, <1>9, StateFields, LenProperties DEF Inv, Sound, States
  <2>2. Becomes(LaunchFails(s, "exited", TRUE))
    BY <1>8, <1>9, <2>1, StateFields DEF Runs
  <2>3. PICK t : t = LaunchFails(s, "exited", TRUE)
    OBVIOUS
  <2>4. /\ t \in States /\ t.open = s.open /\ Kept(s.raw, t.raw) /\ Stays(s.raw, t.raw)
        /\ t.raw.start.pc = "rejected"
        /\ Disposes(s.procs, t.procs, {s.raw.start.proc})
    BY <1>7, <2>3, LaunchFailsDoes
  <2>5. State' = t
    BY <2>2, <2>3, <2>4, BecomesState
  <2>6. Stopped(State.procs, t.procs, {p})
    <3>1. Disposes(s.procs, t.procs, {p})
      BY <1>7, <1>9, <2>4, StateFields
    <3> QED
      BY <1>1, <1>5, <1>6, <3>1, LenProperties DEF Ceases, Reaches, Disposes, Stopped, Runs, States
  <2>7. Failed(State, t)
    BY <1>5, <1>7, <1>9, <2>4, <2>6, StateFields DEF Reaches, Failed, CancelledAt, Cancelled
  <2> QED
    BY <1>1, <1>2, <1>9, <2>5, <2>7, FailedStep
<1>10. CASE ~(raw.start.pc = "launching" /\ raw.start.proc = p)
  <2>1. Sound(s)
    BY <1>1, <1>6, <1>10, CeasesSound, StateFields DEF Inv
  <2>2. owner.phase \in {"creating", "restarting", "up"} /\ ~overlapped =>
           /\ Serving(s, owner.phase)
           /\ p # State.raw.process \/ ~Runs(State.procs, p) => Noticed(s, owner.phase)
    BY <1>1, <1>6, CeasesServing DEF Inv
  <2>3. owner.phase \in {"releasing", "released"} /\ ~overlapped => Ending(s)
    BY <1>1, <1>6, CeasesEnding DEF Inv
  <2>4. CASE procs[p].phase = "disposed"
    <3>1. State' = s /\ ~Runs(State.procs, p)
      BY <1>7, <1>8, <2>4, BecomesState, StateFields DEF Runs
    <3> QED
      BY <1>1, <1>2, <1>7, <2>1, <2>2, <2>3, <3>1 DEF RawInv, Inv
  <2>5. CASE procs[p].phase # "disposed"
    <3>1. ExitEvent(s, p) \in States
      <4>1. Starting(s.raw)
        BY <2>1, SoundStarting
      <4>2. Exited(s, p, ExitEvent(s, p))
        BY <1>7, <4>1, ExitEventDoes
      <4> QED
        BY <4>2 DEF Exited
    <3>2. State' = ExitEvent(s, p)
      BY <1>8, <1>10, <2>5, <3>1, BecomesState
    <3> QED
      BY <1>1, <1>2, <1>7, <2>1, <2>2, <2>3, <3>2, ExitStep DEF Inv
  <2> QED
    BY <2>4, <2>5
<1> QED
  BY <1>9, <1>10

\* The end of a disposal finishes the shutdown() that awaits it.
LEMMA ProcessDisposedStep ==
    ASSUME None \notin Nat, RawInv, NEW p \in Processes, ProcessDisposed(p)
    PROVE  RawInv'
<1>1. /\ State \in States /\ Inv(State, owner, overlapped) /\ p \in DOMAIN State.procs
      /\ procs[p] \in ProcessType /\ procs[p].phase = "killed"
      /\ UNCHANGED <<owner, overlapped>>
  BY ProcessTypes DEF ProcessDisposed, RawInv, Inv
<1>2. owner.phase # "none"
  BY <1>1, StateFields, EmptySeq DEF Inv, Fresh
<1> DEFINE q == [procs[p] EXCEPT !.phase = "disposed"]
           u == [State EXCEPT !.procs = [State.procs EXCEPT ![p] = q]]
           pc == IF raw.start.pc = "failing" /\ raw.start.proc = p THEN "rejected" ELSE raw.start.pc
           start == [raw.start EXCEPT !.pc = pc]
           r == [raw EXCEPT !.awaiting = @ \ {p}, !.start = start]
           s == [u EXCEPT !.raw = r, !.open = open]
<1>3. q \in ProcessType /\ q.phase = "disposed"
  BY <1>1 DEF ProcessType
<1>4. /\ State \in [raw : RawType, procs : Seq(ProcessType), open : SUBSET Nat]
      /\ raw \in RawType /\ raw.start \in StartType /\ open \in SUBSET Nat
      /\ {raw.process, raw.hooked, raw.socket, raw.start.proc} \subseteq DOMAIN State.procs \cup {None}
      /\ DOMAIN State.procs = 1..Len(State.procs) /\ Len(State.procs) \in Nat
  BY <1>1, LenProperties, StateFields DEF States, RawType
<1>5. s = [State EXCEPT !.procs[p].phase = "disposed",
                        !.raw.awaiting = @ \ {p},
                        !.raw.start.pc = IF @ = "failing" /\ raw.start.proc = p
                                         THEN "rejected" ELSE @]
  BY <1>1, <1>4, StateFields DEF RawType, StartType
<1> HIDE DEF q
<1>6. Reaches(State, p, q, u)
  BY <1>1, <1>3, ProcessChanges
<1> HIDE DEF u
<1>7. Ceases(State, p, q, u)
  BY <1>1, <1>3, <1>6 DEF Ceases
<1>8. ~Runs(State.procs, p)
  BY <1>1, StateFields DEF Runs
<1>9. Sound(u)
  <2>1. State.raw.start.pc = "launching" => State.raw.start.proc # p
    BY <1>1, <1>4, <1>8 DEF Inv, Sound
  <2> QED
    BY <1>1, <1>7, <2>1, CeasesSound DEF Inv
<1>10. owner.phase \in {"creating", "restarting", "up"} /\ ~overlapped =>
          Serving(u, owner.phase) /\ Noticed(u, owner.phase)
  BY <1>1, <1>7, <1>8, CeasesServing DEF Inv
<1>11. owner.phase \in {"releasing", "released"} /\ ~overlapped => Ending(u)
  BY <1>1, <1>7, CeasesEnding DEF Inv
<1>12. /\ pc \in {"idle", "launching", "connecting", "failing", "resolved", "rejected"}
       /\ pc = raw.start.pc \/ (raw.start.pc = "failing" /\ pc = "rejected")
  BY <1>4 DEF StartType
<1> HIDE DEF pc
<1>13. start \in StartType /\ start.pc = pc /\ start.proc = raw.start.proc
  BY <1>4, <1>12 DEF StartType
<1> HIDE DEF start
<1>14. r \in RawType
  BY <1>4, <1>13 DEF RawType
<1>15. Kept(raw, r) /\ r.start = start /\ r.awaiting = raw.awaiting \ {p}
  BY <1>4, <1>13 DEF RawType, Kept
<1>16. /\ r.isShuttingDown = raw.isShuttingDown /\ r.hasShutdown = raw.hasShutdown
       /\ r.isDisposed = raw.isDisposed
  BY <1>4 DEF RawType
<1> HIDE DEF r
<1>17. Replaced(u, r, open, s)
  <2>1. DOMAIN u.procs = DOMAIN State.procs
    BY <1>1, <1>6, LenProperties DEF Reaches, States
  <2>2. {r.process, r.hooked, r.socket, r.start.proc} \subseteq DOMAIN u.procs \cup {None}
    BY <1>4, <1>13, <1>15, <2>1 DEF Kept
  <2>3. u \in States
    BY <1>6 DEF Reaches
  <2> QED
    BY <1>4, <1>14, <2>2, <2>3, RawChanges
<1> HIDE DEF s
<1>18. /\ s \in States /\ s.raw = r /\ s.open = open /\ s.procs = u.procs
       /\ u.raw = raw /\ u.open = open /\ Len(u.procs) = Len(State.procs)
  BY <1>6, <1>17, StateFields DEF Replaced, Reaches
<1>19. Becomes(IF p \in raw.awaiting THEN FinishShutdown(s) ELSE s)
  BY <1>5 DEF ProcessDisposed
<1>20. Sound(s)
  BY <1>9, <1>12, <1>13, <1>15, <1>18 DEF Sound, Kept
<1>21. owner.phase = "up" => s.raw.start.pc = "idle"
  BY <1>1, <1>12, <1>13, <1>15, <1>18, StateFields DEF Inv
<1>22. CASE p \notin raw.awaiting
  <2>1. State' = s
    BY <1>18, <1>19, <1>22, BecomesState
  <2>2. r.awaiting = raw.awaiting
    BY <1>15, <1>22
  <2>3. ASSUME NEW phase, Serving(u, phase), Noticed(u, phase)
        PROVE  Serving(s, phase) /\ Noticed(s, phase)
    <3>1. s.raw.process = u.raw.process /\ s.raw.isRestarting = u.raw.isRestarting
      BY <1>15, <1>18 DEF Kept
    <3>2. s.raw.realDisposed = u.raw.realDisposed /\ s.raw.isDisposing = u.raw.isDisposing
      BY <1>15, <1>18 DEF Kept
    <3>3. /\ s.raw.isShuttingDown = u.raw.isShuttingDown /\ s.raw.hasShutdown = u.raw.hasShutdown
          /\ s.raw.isDisposed = u.raw.isDisposed /\ s.raw.awaiting = u.raw.awaiting
      BY <1>16, <1>18, <2>2
    <3>4. /\ s.raw.start.pc = u.raw.start.pc
             \/ (u.raw.start.pc = "failing" /\ s.raw.start.pc = "rejected")
          /\ s.open = u.open /\ s.procs = u.procs
      BY <1>12, <1>13, <1>15, <1>18
    <3>5. Noticed(s, phase)
      BY <2>3, <3>1, <3>3, <3>4 DEF Noticed
    <3>6. ~s.raw.isDisposing /\ ~s.raw.isDisposed
      BY <2>3, <3>2, <3>3 DEF Serving
    <3>7. s.raw.awaiting \subseteq {s.raw.process} /\ None \notin s.raw.awaiting
      BY <2>3, <3>1, <3>3 DEF Serving
    <3>8. s.raw.isShuttingDown <=> s.raw.awaiting # {}
      BY <2>3, <3>3 DEF Serving
    <3>9. s.raw.isShuttingDown \/ s.raw.hasShutdown =>
             s.raw.process # None /\ s.procs[s.raw.process].phase # "live"
      BY <2>3, <3>1, <3>3, <3>4 DEF Serving
    <3>10. s.raw.hasShutdown => s.open = {}
      BY <2>3, <3>3, <3>4 DEF Serving
    <3>11. s.raw.start.pc = "connecting" => ~s.raw.isShuttingDown /\ ~s.raw.hasShutdown
      BY <2>3, <3>3, <3>4 DEF Serving
    <3>12. phase = "restarting" /\ s.raw.start.pc \in {"launching", "connecting"} => s.raw.isRestarting
      BY <2>3, <3>1, <3>4 DEF Serving
    <3>13. s.raw.start.pc = "resolved" \/ phase = "up" => ~s.raw.isRestarting
      BY <2>3, <3>1, <3>4 DEF Serving
    <3>14. phase = "up" => s.raw.process # None /\ s.raw.start.pc = "idle"
      BY <2>3, <3>1, <3>4 DEF Serving
    <3>15. s.raw.process # None => ~s.raw.realDisposed
      BY <2>3, <3>1, <3>2 DEF Serving
    <3> QED
      BY <3>5, <3>6, <3>7, <3>8, <3>9, <3>10, <3>11, <3>12, <3>13, <3>14, <3>15 DEF Serving
  <2>4. Ending(u) => Ending(s)
    BY <1>12, <1>13, <1>15, <1>18, <2>2 DEF Ending, Kept
  <2> QED
    BY <1>1, <1>2, <1>10, <1>11, <1>18, <1>20, <1>21, <2>1, <2>3, <2>4 DEF RawInv, Inv
<1>23. CASE p \in raw.awaiting
  <2>1. PICK t : t = FinishShutdown(s)
    OBVIOUS
  <2>2. /\ t \in States /\ t.procs = s.procs /\ Kept(s.raw, t.raw)
        /\ t.raw.start = s.raw.start /\ t.raw.awaiting = s.raw.awaiting
        /\ s.raw.socket = None => t = s
        /\ s.raw.socket # None => t.open = s.open \ {s.raw.socket}
    BY <1>18, <2>1, FinishShutdownDoes
  <2>3. State' = t
    BY <1>19, <1>23, <2>1, <2>2, BecomesState
  <2>4. t.open \subseteq s.open
    BY <2>2
  <2>5. Sound(t)
    BY <1>20, <2>2, <2>4 DEF Sound, Kept
  <2>6. owner.phase = "up" => t.raw.start.pc = "idle"
    BY <1>21, <2>2
  <2>7. ASSUME u.raw.awaiting \subseteq {u.raw.process}, None \notin u.raw.awaiting
        PROVE  /\ t.raw.process = p /\ p # None /\ t.open = {} /\ t.raw.awaiting = {}
               /\ s.raw.socket # None
               /\ t.procs[p].phase = "disposed"
    <3>1. raw.process = p /\ p # None /\ raw.awaiting = {p}
      BY <1>18, <1>23, <2>7
    <3>2. s.raw.socket = p /\ s.raw.process = p
      BY <1>15, <1>18, <1>20, <3>1 DEF Sound, Kept
    <3>3. t.open = {}
      BY <1>20, <2>2, <3>1, <3>2 DEF Sound
    <3>4. t.raw.awaiting = {}
      BY <1>15, <1>18, <2>2, <3>1
    <3>5. t.procs[p].phase = "disposed"
      BY <1>3, <1>6, <1>18, <2>2 DEF Reaches
    <3> QED
      BY <2>2, <3>1, <3>2, <3>3, <3>4, <3>5 DEF Kept
  <2>8. ASSUME NEW phase, Serving(u, phase), Noticed(u, phase)
        PROVE  Serving(t, phase) /\ Noticed(t, phase)
    <3>1. /\ t.raw.process = p /\ p # None /\ t.open = {} /\ t.raw.awaiting = {}
          /\ s.raw.socket # None
          /\ t.procs[p].phase = "disposed"
      BY <2>7, <2>8 DEF Serving
    <3>2. ~t.raw.isShuttingDown /\ t.raw.hasShutdown
      BY <1>18, <2>1, <3>1, FinishShutdownDoes
    <3>3. t.raw.isDisposed <=> s.raw.isDisposed \/ s.raw.isDisposing
      BY <1>18, <2>1, <3>1, FinishShutdownDoes
    <3>4. s.raw.isDisposed = u.raw.isDisposed /\ s.raw.isDisposing = u.raw.isDisposing
      BY <1>15, <1>16, <1>18 DEF Kept
    <3>5. t.raw.isDisposing = s.raw.isDisposing
      BY <2>2 DEF Kept
    <3>6. ~t.raw.isDisposing /\ ~t.raw.isDisposed
      BY <2>8, <3>3, <3>4, <3>5 DEF Serving
    <3>7. t.raw.isRestarting = u.raw.isRestarting /\ t.raw.realDisposed = u.raw.realDisposed
      BY <1>15, <1>18, <2>2 DEF Kept
    <3>8. /\ t.raw.start.pc = u.raw.start.pc
             \/ (u.raw.start.pc = "failing" /\ t.raw.start.pc = "rejected")
          /\ t.raw.process = u.raw.process
      BY <1>12, <1>13, <1>15, <1>18, <2>2 DEF Kept
    <3>9. t.raw.start.pc # "connecting"
      <4>1. u.raw.awaiting # {}
        BY <1>18, <1>23
      <4>2. u.raw.isShuttingDown
        BY <2>8, <4>1 DEF Serving
      <4> QED
        BY <2>8, <3>8, <4>2 DEF Serving
    <3>10. phase = "restarting" /\ t.raw.start.pc \in {"launching", "connecting"} => t.raw.isRestarting
      BY <2>8, <3>7, <3>8 DEF Serving
    <3>11. t.raw.start.pc = "resolved" \/ phase = "up" => ~t.raw.isRestarting
      BY <2>8, <3>7, <3>8 DEF Serving
    <3>12. phase = "up" => t.raw.process # None /\ t.raw.start.pc = "idle"
      BY <2>8, <3>8 DEF Serving
    <3>13. t.raw.process # None => ~t.raw.realDisposed
      BY <2>8, <3>7, <3>8 DEF Serving
    <3>14. Noticed(t, phase)
      BY <3>2 DEF Noticed
    <3> QED
      BY <3>1, <3>2, <3>6, <3>9, <3>10, <3>11, <3>12, <3>13, <3>14 DEF Serving
  <2>9. Ending(u) => Ending(t)
    <3> SUFFICES ASSUME Ending(u) PROVE Ending(t)
      OBVIOUS
    <3>1. /\ t.raw.process = p /\ p # None /\ t.open = {} /\ t.raw.awaiting = {}
          /\ t.procs[p].phase = "disposed"
      BY <2>7 DEF Ending
    <3>2. t.raw.start.pc \notin {"launching", "connecting"}
      BY <1>12, <1>13, <1>15, <1>18, <2>2 DEF Ending
    <3> QED
      BY <3>1, <3>2 DEF Ending
  <2> QED
    BY <1>1, <1>2, <1>10, <1>11, <2>2, <2>3, <2>5, <2>6, <2>8, <2>9 DEF RawInv, Inv
<1> QED
  BY <1>22, <1>23

\* The processes of the state, and what it names.
LEMMA StateTypes ==
    ASSUME State \in States
    PROVE  /\ State \in [raw : RawType, procs : Seq(ProcessType), open : SUBSET Nat]
           /\ raw \in RawType /\ raw.start \in StartType /\ open \in SUBSET Nat
           /\ procs \in Seq(ProcessType)
           /\ {raw.process, raw.hooked, raw.socket, raw.start.proc} \subseteq 1..Len(procs) \cup {None}
           /\ DOMAIN procs = 1..Len(procs) /\ Len(procs) \in Nat
<1>1. /\ State \in [raw : RawType, procs : Seq(ProcessType), open : SUBSET Nat]
      /\ raw \in RawType /\ raw.start \in StartType /\ open \in SUBSET Nat
      /\ procs \in Seq(ProcessType)
      /\ {raw.process, raw.hooked, raw.socket, raw.start.proc} \subseteq DOMAIN procs \cup {None}
  BY StateFields DEF States, RawType
<1> QED
  BY <1>1, LenProperties

\* A connection, processes and sockets that make a state.
LEMMA MakesState ==
    ASSUME NEW r \in RawType, NEW f \in Seq(ProcessType), NEW o \in SUBSET Nat,
           {r.process, r.hooked, r.socket, r.start.proc} \subseteq DOMAIN f \cup {None}
    PROVE  [raw |-> r, procs |-> f, open |-> o] \in States
<1> DEFINE s == [raw |-> r, procs |-> f, open |-> o]
<1>1. s \in [raw : RawType, procs : Seq(ProcessType), open : SUBSET Nat]
  OBVIOUS
<1>2. s.raw = r /\ s.procs = f
  OBVIOUS
<1> HIDE DEF s
<1> QED
  BY <1>1, <1>2 DEF States, s

\* The launcher spawns a process: the only one that runs.
LEMMA SpawnStep ==
    ASSUME None \notin Nat, RawInv, Spawn
    PROVE  RawInv'
<1> DEFINE n == Len(procs) + 1
           new == [phase |-> "live", exited |-> FALSE]
<1>1. /\ Inv(State, owner, overlapped) /\ State \in States /\ Sound(State)
      /\ raw.start.pc = "launching" /\ raw.start.proc = None
      /\ procs' = Append(procs, new) /\ raw' = [raw EXCEPT !.start.proc = n]
      /\ UNCHANGED <<open, owner, overlapped>>
  BY DEF Spawn, RawInv, Inv
<1>2. /\ raw \in RawType /\ raw.start \in StartType /\ open \in SUBSET Nat
      /\ procs \in Seq(ProcessType)
      /\ {raw.process, raw.hooked, raw.socket, raw.start.proc} \subseteq 1..Len(procs) \cup {None}
      /\ Len(procs) \in Nat
  BY <1>1, StateTypes
<1>3. raw.process = None /\ open = {}
  BY <1>1, StateFields DEF Sound
<1>4. new \in ProcessType /\ Runs(<<new>>, 1)
  BY DEF ProcessType, Runs
<1>5. /\ procs' \in Seq(ProcessType) /\ Len(procs') = n /\ procs'[n] = new
      /\ \A k \in 1..Len(procs) : procs'[k] = procs[k]
  BY <1>1, <1>2, <1>4, AppendProperties
<1> HIDE DEF new
<1>6. /\ raw' \in RawType /\ raw'.start.pc = "launching" /\ raw'.start.proc = n
      /\ raw'.process = raw.process /\ raw'.hooked = raw.hooked /\ raw'.socket = raw.socket
  <2> DEFINE start == [raw.start EXCEPT !.proc = n]
  <2>1. start \in StartType /\ start.pc = raw.start.pc /\ start.proc = n
    BY <1>2 DEF StartType, Ids
  <2>2. raw' = [raw EXCEPT !.start = start]
    BY <1>1, <1>2 DEF RawType, StartType
  <2> HIDE DEF start
  <2> QED
    BY <1>1, <1>2, <2>1, <2>2 DEF RawType
<1>7. raw'.awaiting = raw.awaiting /\ raw'.isRestarting = raw.isRestarting
  BY <1>1, <1>2 DEF RawType
<1>8. raw'.isShuttingDown = raw.isShuttingDown /\ raw'.hasShutdown = raw.hasShutdown
  BY <1>1, <1>2 DEF RawType
<1>9. raw'.isDisposing = raw.isDisposing /\ raw'.isDisposed = raw.isDisposed
  BY <1>1, <1>2 DEF RawType
<1>10. State' \in States
  <2>1. DOMAIN procs' = 1..n
    BY <1>5, LenProperties
  <2>2. {raw'.process, raw'.hooked, raw'.socket, raw'.start.proc} \subseteq DOMAIN procs' \cup {None}
    BY <1>2, <1>6, <2>1
  <2>3. open' \in SUBSET Nat
    BY <1>1, <1>2
  <2> QED
    BY <1>5, <1>6, <2>2, <2>3, MakesState DEF State
<1>11. Sound(State')
  <2>1. Runs(procs', n)
    BY <1>4, <1>5 DEF Runs
  <2>2. ASSUME NEW k \in 1..Len(procs'), Runs(procs', k) PROVE k = n
    <3>1. CASE k \in 1..Len(procs)
      <4>1. Runs(procs, k)
        BY <1>5, <2>2, <3>1 DEF Runs
      <4>2. k = raw.process \/ k = raw.start.proc
        BY <1>1, <3>1, <4>1, StateFields DEF Sound
      <4> QED
        BY <1>1, <1>3, <3>1, <4>2
    <3>2. CASE k \notin 1..Len(procs)
      BY <1>2, <1>5, <3>2
    <3> QED
      BY <3>1, <3>2
  <2> QED
    BY <1>1, <1>3, <1>6, <2>1, <2>2, StateFields DEF Sound
<1>12. owner.phase \notin {"none", "up"}
  BY <1>1, StateFields DEF Inv, Fresh
<1>13. owner.phase \in {"creating", "restarting"} /\ ~overlapped =>
          Serving(State', owner.phase) /\ Noticed(State', owner.phase)
  <2> SUFFICES ASSUME owner.phase \in {"creating", "restarting"}, ~overlapped
               PROVE  Serving(State', owner.phase) /\ Noticed(State', owner.phase)
    OBVIOUS
  <2>1. Serving(State, owner.phase)
    BY <1>1 DEF Inv
  <2>2. ~raw.isShuttingDown /\ ~raw.hasShutdown
    BY <1>3, <2>1, StateFields DEF Serving
  <2>3. ~raw.isDisposing /\ ~raw.isDisposed
    BY <2>1, StateFields DEF Serving
  <2>4. raw.awaiting = {}
    BY <2>1, <2>2, StateFields DEF Serving
  <2>5. owner.phase = "restarting" => raw.isRestarting
    BY <1>1, <2>1, StateFields DEF Serving
  <2>6. ~raw'.isShuttingDown /\ ~raw'.hasShutdown
    BY <1>8, <2>2
  <2>7. ~raw'.isDisposing /\ ~raw'.isDisposed
    BY <1>9, <2>3
  <2>8. owner.phase = "restarting" => raw'.isRestarting
    BY <1>7, <2>5
  <2>9. Noticed(State', owner.phase)
    BY <1>3, <1>6, StateFields DEF Noticed
  <2> QED
    BY <1>3, <1>6, <1>7, <2>4, <2>6, <2>7, <2>8, <2>9, StateFields DEF Serving
<1>14. owner.phase \in {"releasing", "released"} => overlapped
  BY <1>1, StateFields DEF Inv, Ending
<1> QED
  BY <1>1, <1>10, <1>11, <1>12, <1>13, <1>14 DEF RawInv, Inv

\* The process launched becomes that of the connection.
LEMMA LaunchedStep ==
    ASSUME None \notin Nat, RawInv, Launched
    PROVE  RawInv'
<1>1. /\ Inv(State, owner, overlapped) /\ State \in States /\ Sound(State)
      /\ raw.start.pc = "launching" /\ raw.start.proc # None
      /\ UNCHANGED <<procs, owner, overlapped>>
  BY DEF Launched, RawInv, Inv
<1>2. PICK p : /\ p = raw.start.proc
               /\ raw' = [raw EXCEPT !.process = p, !.hooked = p, !.socket = p,
                                     !.realDisposed = FALSE, !.start.pc = "connecting"]
               /\ open' = open \cup {p}
  BY DEF Launched
<1>3. /\ raw \in RawType /\ raw.start \in StartType /\ open \in SUBSET Nat
      /\ procs \in Seq(ProcessType)
      /\ {raw.process, raw.hooked, raw.socket, raw.start.proc} \subseteq 1..Len(procs) \cup {None}
      /\ Len(procs) \in Nat /\ DOMAIN procs = 1..Len(procs)
  BY <1>1, StateTypes
<1>4. raw.process = None /\ open = {} /\ Runs(procs, p)
  BY <1>1, <1>2, StateFields DEF Sound
<1>5. p \in 1..Len(procs) /\ p # None
  BY <1>1, <1>2, <1>3
<1>6. /\ raw' \in RawType /\ raw'.start.pc = "connecting" /\ raw'.start.proc = p
      /\ raw'.process = p /\ raw'.hooked = p /\ raw'.socket = p
  BY <1>2, <1>3, <1>5 DEF RawType, StartType, Ids
<1>7. raw'.awaiting = raw.awaiting /\ raw'.isRestarting = raw.isRestarting
  BY <1>2, <1>3 DEF RawType
<1>8. raw'.isShuttingDown = raw.isShuttingDown /\ raw'.hasShutdown = raw.hasShutdown
  BY <1>2, <1>3 DEF RawType
<1>9. raw'.isDisposing = raw.isDisposing /\ raw'.isDisposed = raw.isDisposed
  BY <1>2, <1>3 DEF RawType
<1>10. ~raw'.realDisposed
  BY <1>2, <1>3 DEF RawType
<1>11. open' = {p}
  BY <1>2, <1>4
<1>12. State' \in States
  BY <1>1, <1>3, <1>5, <1>6, <1>11 DEF State, States
<1>13. Sound(State')
  <2>1. ASSUME NEW k \in 1..Len(procs), Runs(procs, k) PROVE k = p
    BY <1>1, <1>2, <1>3, <1>4, <2>1, StateFields DEF Sound
  <2> QED
    BY <1>1, <1>5, <1>6, <1>11, <2>1, StateFields DEF Sound
<1>14. owner.phase \notin {"none", "up"}
  BY <1>1, StateFields DEF Inv, Fresh
<1>15. owner.phase \in {"creating", "restarting"} /\ ~overlapped =>
          Serving(State', owner.phase) /\ Noticed(State', owner.phase)
  <2> SUFFICES ASSUME owner.phase \in {"creating", "restarting"}, ~overlapped
               PROVE  Serving(State', owner.phase) /\ Noticed(State', owner.phase)
    OBVIOUS
  <2>1. Serving(State, owner.phase)
    BY <1>1 DEF Inv
  <2>2. ~raw.isShuttingDown /\ ~raw.hasShutdown
    BY <1>4, <2>1, StateFields DEF Serving
  <2>3. ~raw.isDisposing /\ ~raw.isDisposed
    BY <2>1, StateFields DEF Serving
  <2>4. raw.awaiting = {}
    BY <2>1, <2>2, StateFields DEF Serving
  <2>5. owner.phase = "restarting" => raw.isRestarting
    BY <1>1, <2>1, StateFields DEF Serving
  <2>6. ~raw'.isShuttingDown /\ ~raw'.hasShutdown
    BY <1>8, <2>2
  <2>7. ~raw'.isDisposing /\ ~raw'.isDisposed
    BY <1>9, <2>3
  <2>8. owner.phase = "restarting" => raw'.isRestarting
    BY <1>7, <2>5
  <2>9. Noticed(State', owner.phase)
    BY <1>1, <1>4, <1>6, StateFields DEF Noticed
  <2> QED
    BY <1>6, <1>7, <1>10, <2>4, <2>6, <2>7, <2>8, <2>9, StateFields DEF Serving
<1>16. owner.phase \in {"releasing", "released"} => overlapped
  BY <1>1, StateFields DEF Inv, Ending
<1> QED
  BY <1>1, <1>12, <1>13, <1>14, <1>15, <1>16 DEF RawInv, Inv

\* The kernel answers: its process still runs.
LEMMA ConnectedStep ==
    ASSUME None \notin Nat, RawInv, Connected
    PROVE  RawInv'
<1>1. /\ Inv(State, owner, overlapped) /\ State \in States /\ Sound(State)
      /\ raw.start.pc = "connecting"
      /\ raw' = [raw EXCEPT !.isRestarting = FALSE, !.start.pc = "resolved"]
      /\ UNCHANGED <<procs, open, owner, overlapped>>
  BY DEF Connected, RawInv, Inv
<1>2. /\ State \in [raw : RawType, procs : Seq(ProcessType), open : SUBSET Nat]
      /\ raw \in RawType /\ raw.start \in StartType /\ open \in SUBSET Nat
      /\ procs \in Seq(ProcessType)
      /\ {raw.process, raw.hooked, raw.socket, raw.start.proc} \subseteq 1..Len(procs) \cup {None}
      /\ DOMAIN procs = 1..Len(procs)
  BY <1>1, StateTypes
<1>3. /\ raw' \in RawType /\ raw'.start.pc = "resolved" /\ raw'.start.proc = raw.start.proc
      /\ raw'.process = raw.process /\ raw'.hooked = raw.hooked /\ raw'.socket = raw.socket
  BY <1>1, <1>2 DEF RawType, StartType
<1>4. ~raw'.isRestarting
  BY <1>1, <1>2 DEF RawType
<1>5. raw'.isShuttingDown = raw.isShuttingDown /\ raw'.hasShutdown = raw.hasShutdown
  BY <1>1, <1>2 DEF RawType
<1>6. raw'.isDisposing = raw.isDisposing /\ raw'.isDisposed = raw.isDisposed
  BY <1>1, <1>2 DEF RawType
<1>7. raw'.realDisposed = raw.realDisposed /\ raw'.awaiting = raw.awaiting
  BY <1>1, <1>2 DEF RawType
<1>8. State' \in States
  <2>1. /\ procs' \in Seq(ProcessType) /\ open' \in SUBSET Nat
        /\ {raw'.process, raw'.hooked, raw'.socket, raw'.start.proc} \subseteq DOMAIN procs' \cup {None}
    BY <1>1, <1>2, <1>3
  <2> QED
    BY <1>3, <2>1, MakesState DEF State
<1>9. Sound(State')
  BY <1>1, <1>3, StateFields DEF Sound
<1>10. owner.phase \notin {"none", "up"}
  BY <1>1, StateFields DEF Inv, Fresh
<1>11. owner.phase \in {"creating", "restarting"} /\ ~overlapped =>
          Serving(State', owner.phase) /\ Noticed(State', owner.phase)
  <2> SUFFICES ASSUME owner.phase \in {"creating", "restarting"}, ~overlapped
               PROVE  Serving(State', owner.phase) /\ Noticed(State', owner.phase)
    OBVIOUS
  <2>1. Serving(State, owner.phase) /\ Noticed(State, owner.phase)
    BY <1>1 DEF Inv
  <2>2. ~raw.isShuttingDown /\ ~raw.hasShutdown
    BY <1>1, <2>1, StateFields DEF Serving
  <2>3. ~raw.isDisposing /\ ~raw.isDisposed
    BY <2>1, StateFields DEF Serving
  <2>4. raw.awaiting = {}
    BY <2>1, <2>2, StateFields DEF Serving
  <2>5. raw.process # None => ~raw.realDisposed
    BY <2>1, StateFields DEF Serving
  <2>6. ~raw'.isShuttingDown /\ ~raw'.hasShutdown
    BY <1>5, <2>2
  <2>7. ~raw'.isDisposing /\ ~raw'.isDisposed
    BY <1>6, <2>3
  <2>8. raw'.process # None => ~raw'.realDisposed
    BY <1>3, <1>7, <2>5
  <2>9. Runs(procs, raw.process)
    BY <1>1, <2>1, <2>2, StateFields DEF Noticed, Sound
  <2>10. Noticed(State', owner.phase)
    BY <1>1, <1>3, <2>9, StateFields DEF Noticed
  <2> QED
    BY <1>3, <1>4, <1>7, <2>4, <2>6, <2>7, <2>8, <2>10, StateFields DEF Serving
<1>12. owner.phase \in {"releasing", "released"} => overlapped
  BY <1>1, StateFields DEF Inv, Ending
<1> QED
  BY <1>1, <1>8, <1>9, <1>10, <1>11, <1>12 DEF RawInv, Inv

-----------------------------------------------------------------------------
(* The session's actions *)

\* t is s with x for its start().
Begins(s, x, t) ==
    /\ t \in States /\ t.procs = s.procs /\ t.open = s.open /\ t.raw.start = x
    /\ t.raw.process = s.raw.process /\ t.raw.hooked = s.raw.hooked /\ t.raw.socket = s.raw.socket
    /\ t.raw.realDisposed = s.raw.realDisposed /\ t.raw.isRestarting = s.raw.isRestarting
    /\ t.raw.isDisposing = s.raw.isDisposing /\ Stays(s.raw, t.raw)

\* A start() that has ended, or begins, names no process.
LEMMA StartChanges ==
    ASSUME NEW s \in States, NEW x \in {Idle, Launching}, NEW t, t = [s EXCEPT !.raw.start = x]
    PROVE  Begins(s, x, t)
<1>1. /\ s \in [raw : RawType, procs : Seq(ProcessType), open : SUBSET Nat]
      /\ s.raw \in RawType /\ s.open \in SUBSET Nat
      /\ {s.raw.process, s.raw.hooked, s.raw.socket, s.raw.start.proc}
           \subseteq DOMAIN s.procs \cup {None}
  BY DEF States
<1>2. x \in StartType /\ x.proc = None
  <2>1. Idle \in StartType /\ Idle.proc = None
    BY DEF Idle, StartType, Ids
  <2>2. Launching \in StartType /\ Launching.proc = None
    BY <2>1 DEF Launching, StartType
  <2> QED
    BY <2>1, <2>2
<1> DEFINE r == [s.raw EXCEPT !.start = x]
           u == [s EXCEPT !.raw = r, !.open = s.open]
<1>3. t = u
  BY <1>1
<1>4. r \in RawType
  BY <1>1, <1>2 DEF RawType
<1>5. /\ r.start = x /\ r.process = s.raw.process /\ r.hooked = s.raw.hooked
      /\ r.socket = s.raw.socket
  BY <1>1 DEF RawType
<1>6. r.realDisposed = s.raw.realDisposed /\ r.isRestarting = s.raw.isRestarting
  BY <1>1 DEF RawType
<1>7. r.isDisposing = s.raw.isDisposing /\ Stays(s.raw, r)
  BY <1>1 DEF RawType, Stays
<1> HIDE DEF r
<1>8. {r.process, r.hooked, r.socket, r.start.proc} \subseteq DOMAIN s.procs \cup {None}
  BY <1>1, <1>2, <1>5
<1>9. Replaced(s, r, s.open, u)
  BY <1>1, <1>4, <1>8, RawChanges
<1> HIDE DEF u
<1> QED
  BY <1>3, <1>5, <1>6, <1>7, <1>9 DEF Begins, Replaced

\* What holds throughout holds when the start() of the session is over.
LEMMA IdleSound ==
    ASSUME NEW s \in States, Sound(s), s.raw.start.pc # "launching", NEW t, Begins(s, Idle, t)
    PROVE  Sound(t) /\ t.raw.start.pc = "idle"
<1>1. t.raw.start.pc = "idle"
  BY DEF Begins, Idle
<1> QED
  BY <1>1 DEF Begins, Sound

\* The start() is over, and the kernel serves or is about to be released.
LEMMA IdleServing ==
    ASSUME NEW s \in States, Sound(s), s.raw.start.pc # "launching", NEW t, Begins(s, Idle, t),
           NEW phase, Serving(s, phase), NEW next,
           next = phase \/ (next = "up" /\ s.raw.start.pc = "resolved"), phase # "up"
    PROVE  Serving(t, next)
<1>1. t.raw.start.pc = "idle"
  BY DEF Begins, Idle
<1>2. /\ t.raw.process = s.raw.process /\ t.procs = s.procs /\ t.open = s.open
      /\ t.raw.awaiting = s.raw.awaiting
  BY DEF Begins, Stays
<1>3. t.raw.isShuttingDown = s.raw.isShuttingDown /\ t.raw.hasShutdown = s.raw.hasShutdown
  BY DEF Begins, Stays
<1>4. ~t.raw.isDisposing /\ ~t.raw.isDisposed
  BY DEF Begins, Stays, Serving
<1>5. t.raw.isShuttingDown <=> t.raw.awaiting # {}
  BY <1>2, <1>3 DEF Serving
<1>6. t.raw.isShuttingDown \/ t.raw.hasShutdown =>
         t.raw.process # None /\ t.procs[t.raw.process].phase # "live"
  BY <1>2, <1>3 DEF Serving
<1>7. t.raw.hasShutdown => t.open = {}
  BY <1>2, <1>3 DEF Serving
<1>8. next = "up" => ~t.raw.isRestarting
  BY DEF Begins, Serving
<1>9. next = "up" => t.raw.process # None
  BY <1>2 DEF Sound
<1>10. t.raw.process # None => ~t.raw.realDisposed
  BY DEF Begins, Serving
<1>11. t.raw.awaiting \subseteq {t.raw.process} /\ None \notin t.raw.awaiting
  BY <1>2 DEF Serving
<1> QED
  BY <1>1, <1>4, <1>5, <1>6, <1>7, <1>8, <1>9, <1>10, <1>11 DEF Serving

\* The state in which only the start() has changed.
LEMMA StartOnly ==
    ASSUME State \in States, NEW x \in {Idle, Launching}, raw' = [raw EXCEPT !.start = x],
           UNCHANGED <<procs, open>>
    PROVE  Begins(State, x, State')
<1>1. State' = [State EXCEPT !.raw.start = x]
  BY DEF State
<1> QED
  BY <1>1, StartChanges

\* The session is created.
LEMMA CreateSessionStep ==
    ASSUME None \notin Nat, RawInv, CreateSession
    PROVE  RawInv'
<1>1. /\ State \in States /\ Sound(State) /\ Fresh(State)
      /\ owner \in [phase : Phases, awaits : Ids]
      /\ owner' = [owner EXCEPT !.phase = "creating"]
      /\ raw' = [raw EXCEPT !.start = Launching] /\ UNCHANGED <<procs, open, overlapped>>
  BY DEF CreateSession, RawInv, Inv
<1>2. owner' \in [phase : Phases, awaits : Ids] /\ owner'.phase = "creating"
  BY <1>1 DEF Phases
<1>3. PICK t : t = State' /\ Begins(State, Launching, t)
  BY <1>1, StartOnly
<1>4. /\ t.raw.start.pc = "launching" /\ t.raw.start.proc = None /\ t.procs = <<>> /\ t.open = {}
      /\ t.raw.process = None /\ t.raw.awaiting = {}
  BY <1>1, <1>3, StateFields DEF Begins, Fresh, Launching, Idle, Stays
<1>5. Sound(t)
  BY <1>4, EmptySeq DEF Sound
<1>6. ~t.raw.isShuttingDown /\ ~t.raw.hasShutdown
  BY <1>1, <1>3 DEF Begins, Fresh, Stays
<1>7. ~t.raw.isDisposing /\ ~t.raw.isDisposed
  BY <1>1, <1>3 DEF Begins, Fresh, Stays
<1>8. Serving(t, "creating") /\ Noticed(t, "creating")
  BY <1>4, <1>6, <1>7 DEF Serving, Noticed
<1> QED
  BY <1>2, <1>3, <1>5, <1>8 DEF RawInv, Inv, Begins

\* The session is told that the kernel is ready.
LEMMA StartedStep ==
    ASSUME None \notin Nat, RawInv, Started
    PROVE  RawInv'
<1>1. /\ State \in States /\ Sound(State) /\ Inv(State, owner, overlapped)
      /\ State.raw.start.pc = "resolved" /\ owner.phase \in {"creating", "restarting"}
      /\ owner \in [phase : Phases, awaits : Ids]
      /\ owner' = [owner EXCEPT !.phase = "up"]
      /\ raw' = [raw EXCEPT !.start = Idle] /\ UNCHANGED <<procs, open, overlapped>>
  BY StateFields DEF Started, RawInv, Inv
<1>2. owner' \in [phase : Phases, awaits : Ids] /\ owner'.phase = "up"
  BY <1>1 DEF Phases
<1>3. PICK t : t = State' /\ Begins(State, Idle, t)
  BY <1>1, StartOnly
<1>4. Sound(t) /\ t.raw.start.pc = "idle"
  BY <1>1, <1>3, IdleSound
<1>5. ASSUME ~overlapped
      PROVE  Serving(t, "up") /\ Noticed(t, "up")
  <2>1. Serving(State, owner.phase) /\ Noticed(State, owner.phase) /\ owner.phase # "up"
    BY <1>1, <1>5 DEF Inv
  <2>2. Serving(t, "up")
    BY <1>1, <1>3, <2>1, IdleServing
  <2>3. State.raw.process # None /\ ~Runs(State.procs, State.raw.process) =>
           State.raw.isShuttingDown \/ State.raw.hasShutdown
    BY <1>1, <2>1 DEF Noticed
  <2>4. t.raw.isShuttingDown = State.raw.isShuttingDown /\ t.raw.hasShutdown = State.raw.hasShutdown
    BY <1>3 DEF Begins, Stays
  <2>5. Noticed(t, "up")
    BY <1>3, <2>3, <2>4 DEF Begins, Noticed
  <2> QED
    BY <2>2, <2>5
<1> QED
  BY <1>1, <1>2, <1>3, <1>4, <1>5 DEF RawInv, Inv, Begins

\* The end of a start() nobody waits for.
LEMMA StartIgnoredStep ==
    ASSUME None \notin Nat, RawInv, StartIgnored
    PROVE  RawInv'
<1>1. /\ State \in States /\ Sound(State) /\ Inv(State, owner, overlapped)
      /\ State.raw.start.pc \in {"resolved", "rejected"} /\ owner.phase \in {"releasing", "released"}
      /\ raw' = [raw EXCEPT !.start = Idle] /\ UNCHANGED <<procs, open, owner, overlapped>>
  BY StateFields DEF StartIgnored, RawInv, Inv
<1>2. PICK t : t = State' /\ Begins(State, Idle, t)
  BY <1>1, StartOnly
<1>3. Sound(t) /\ t.raw.start.pc = "idle"
  BY <1>1, <1>2, IdleSound
<1>4. Ending(State) => Ending(t)
  BY <1>2, <1>3 DEF Begins, Stays, Ending
<1> QED
  BY <1>1, <1>2, <1>3, <1>4 DEF RawInv, Inv, Begins

\* shutdown() keeps the processes in order, whether or not it has something to do.
LEMMA ShutdownSound ==
    ASSUME None \notin Nat, NEW s \in States, Sound(s), NEW t, t = Shutdown(s)
    PROVE  t \in States /\ Sound(t) /\ (Ending(s) => Ending(t))
<1>1. CASE s.raw.isShuttingDown \/ s.raw.hasShutdown
  BY <1>1 DEF Shutdown
<1>2. CASE ~(s.raw.isShuttingDown \/ s.raw.hasShutdown)
  <2>1. ~s.raw.isShuttingDown
    BY <1>2
  <2>2. ~s.raw.hasShutdown
    BY <1>2
  <2>3. s.raw.start.pc = "connecting" => s.raw.process # None
    BY DEF Sound
  <2>4. ShutsDown(s, t)
    BY <2>1, <2>2, <2>3, ShutdownDoes
  <2>5. Sound(t)
    BY <2>4, ShutSound
  <2>6. Ending(s) => Ending(t)
    BY <2>4, ShutEnding
  <2> QED
    BY <2>4, <2>5, <2>6 DEF ShutsDown
<1> QED
  BY <1>1, <1>2

\* The session is released: nothing that starts is left, whatever it was doing.
LEMMA ReleaseStep ==
    ASSUME None \notin Nat, NEW s \in States, Sound(s), NEW awaited, Release(s, awaited), NEW phase,
           ~overlapped => Serving(s, phase)
                          /\ (s.raw.start.pc \in {"launching", "connecting"} => s.raw.isRestarting)
    PROVE  RawInv'
<1>1. PICK t, new : /\ t = Shutdown(s) /\ new = t.raw.awaiting \ s.raw.awaiting
                    /\ Becomes(t)
                    /\ owner' = [phase |-> "releasing",
                                 awaits |-> IF awaited /\ new # {} THEN CHOOSE p \in new : TRUE
                                            ELSE None]
                    /\ UNCHANGED overlapped
  BY DEF Release
<1>2. t \in States /\ Sound(t)
  BY <1>1, ShutdownSound
<1>3. State' = t
  BY <1>1, <1>2, BecomesState
<1>4. ~overlapped => Ending(t)
  BY <1>1, ShutEnds
<1>5. new \subseteq Nat
  BY <1>1, <1>2 DEF States, RawType
<1>6. (IF awaited /\ new # {} THEN CHOOSE p \in new : TRUE ELSE None) \in Ids
  BY <1>5 DEF Ids
<1>7. owner' \in [phase : Phases, awaits : Ids] /\ owner'.phase = "releasing"
  BY <1>1, <1>6 DEF Phases
<1> QED
  BY <1>1, <1>2, <1>3, <1>4, <1>7 DEF RawInv, Inv

\* The kernel is disposed while its session is up or restarting.
LEMMA DisposeSessionStep ==
    ASSUME None \notin Nat, RawInv, DisposeSession
    PROVE  RawInv'
<1>1. /\ State \in States /\ Sound(State) /\ Inv(State, owner, overlapped)
      /\ owner.phase \in {"up", "restarting"} /\ Release(State, FALSE)
  BY DEF DisposeSession, RawInv, Inv
<1>2. ~overlapped => Serving(State, owner.phase)
  BY <1>1 DEF Inv
<1>3. ~overlapped /\ State.raw.start.pc \in {"launching", "connecting"} => State.raw.isRestarting
  BY <1>1, <1>2 DEF Serving
<1> QED
  BY <1>1, <1>2, <1>3, ReleaseStep

\* The session of a start() that failed is disposed.
LEMMA StartThrewStep ==
    ASSUME None \notin Nat, RawInv, StartThrew
    PROVE  RawInv'
<1>1. /\ State \in States /\ Sound(State) /\ Inv(State, owner, overlapped)
      /\ State.raw.start.pc = "rejected" /\ owner.phase \in {"creating", "restarting"}
  BY StateFields DEF StartThrew, RawInv, Inv
<1>2. PICK t, awaited : t = [State EXCEPT !.raw.start = Idle] /\ Release(t, awaited)
  BY DEF StartThrew
<1>3. Begins(State, Idle, t)
  BY <1>1, <1>2, StartChanges
<1>4. t \in States /\ Sound(t) /\ t.raw.start.pc = "idle"
  BY <1>1, <1>3, IdleSound DEF Begins
<1>5. ~overlapped => Serving(t, owner.phase)
  <2> SUFFICES ASSUME ~overlapped PROVE Serving(t, owner.phase)
    OBVIOUS
  <2>1. Serving(State, owner.phase) /\ owner.phase # "up"
    BY <1>1 DEF Inv
  <2> QED
    BY <1>1, <1>3, <2>1, IdleServing
<1> QED
  BY <1>2, <1>4, <1>5, ReleaseStep

\* The start of the session is cancelled.
LEMMA CancelCreationStep ==
    ASSUME None \notin Nat, RawInv, CancelCreation
    PROVE  RawInv'
<1>1. /\ State \in States /\ Sound(State) /\ Inv(State, owner, overlapped)
      /\ owner.phase = "creating"
  BY DEF CancelCreation, RawInv, Inv
<1>2. PICK s, t : s \in States /\ s = State /\ t = CancelStart(s) /\ Release(t, TRUE)
  BY <1>1 DEF CancelCreation
<1>3. /\ t \in States /\ t.open = s.open /\ Kept(s.raw, t.raw) /\ Stays(s.raw, t.raw)
      /\ t.raw.start.pc = CancelledAt(s.raw.start.pc)
      /\ Disposes(s.procs, t.procs, Cancelled(s.raw))
  <2>1. s.raw.start.pc = "connecting" => s.raw.process # None
    BY <1>1, <1>2 DEF Sound
  <2> QED
    BY <1>2, <2>1, CancelStartDoes
<1>4. Failed(s, t)
  BY <1>3, DisposesStops DEF Failed
<1>5. Sound(t)
  BY <1>1, <1>2, <1>4, FailedSound
<1>6. t.raw.start.pc \notin {"launching", "connecting"}
  BY <1>3 DEF CancelledAt
<1>7. ~overlapped => Serving(t, "creating")
  BY <1>1, <1>2, <1>4, FailedServing DEF Inv
<1> QED
  BY <1>2, <1>3, <1>5, <1>6, <1>7, ReleaseStep

\* t is s but for the flags that say whether the connection is being, or was, disposed.
Flagged(s, t) ==
    /\ t \in States /\ t.procs = s.procs /\ t.open = s.open /\ t.raw.start = s.raw.start
    /\ t.raw.process = s.raw.process /\ t.raw.hooked = s.raw.hooked /\ t.raw.socket = s.raw.socket
    /\ t.raw.awaiting = s.raw.awaiting

\* The flags of the connection that dispose() sets.
LEMMA FlagChanges ==
    ASSUME NEW s \in States, NEW x \in BOOLEAN, NEW t,
           t = [s EXCEPT !.raw.isDisposing = x] \/ t = [s EXCEPT !.raw.isDisposed = x]
    PROVE  Flagged(s, t)
<1>1. /\ s \in [raw : RawType, procs : Seq(ProcessType), open : SUBSET Nat]
      /\ s.raw \in RawType /\ s.open \in SUBSET Nat
      /\ {s.raw.process, s.raw.hooked, s.raw.socket, s.raw.start.proc}
           \subseteq DOMAIN s.procs \cup {None}
  BY DEF States
<1>2. PICK r : /\ r = [s.raw EXCEPT !.isDisposing = x] \/ r = [s.raw EXCEPT !.isDisposed = x]
               /\ t = [s EXCEPT !.raw = r, !.open = s.open]
  <2>1. CASE t = [s EXCEPT !.raw.isDisposing = x]
    BY <1>1, <2>1, ZenonT(40)
  <2>2. CASE t = [s EXCEPT !.raw.isDisposed = x]
    BY <1>1, <2>2, ZenonT(40)
  <2> QED
    BY <2>1, <2>2
<1>3. r \in RawType
  BY <1>1, <1>2, ZenonT(40) DEF RawType
<1>4. /\ r.start = s.raw.start /\ r.process = s.raw.process /\ r.hooked = s.raw.hooked
      /\ r.socket = s.raw.socket /\ r.awaiting = s.raw.awaiting
  BY <1>1, <1>2 DEF RawType
<1>5. {r.process, r.hooked, r.socket, r.start.proc} \subseteq DOMAIN s.procs \cup {None}
  BY <1>1, <1>4
<1>6. Replaced(s, r, s.open, t)
  BY <1>1, <1>2, <1>3, <1>5, RawChanges
<1> QED
  BY <1>4, <1>6 DEF Flagged, Replaced

\* They play no part in the order of the processes, nor in how the connection ends.
LEMMA FlaggedStays ==
    ASSUME NEW s, Sound(s), NEW t, Flagged(s, t)
    PROVE  Sound(t) /\ (Ending(s) => Ending(t))
<1>1. Sound(t)
  BY DEF Flagged, Sound
<1>2. Ending(s) => Ending(t)
  BY DEF Flagged, Ending
<1> QED
  BY <1>1, <1>2

\* The connection is disposed at the end.
LEMMA DisposeConnectionStep ==
    ASSUME None \notin Nat, RawInv, DisposeConnection
    PROVE  RawInv'
<1>1. /\ State \in States /\ Sound(State) /\ Inv(State, owner, overlapped)
      /\ owner \in [phase : Phases, awaits : Ids] /\ owner.phase = "releasing"
      /\ owner' = [owner EXCEPT !.phase = "released"] /\ UNCHANGED overlapped
  BY DEF DisposeConnection, RawInv, Inv
<1>2. owner' \in [phase : Phases, awaits : Ids] /\ owner'.phase = "released"
  BY <1>1 DEF Phases
<1>3. ~overlapped => Ending(State)
  BY <1>1 DEF Inv
<1>4. CASE raw.isDisposed \/ raw.realDisposed \/ raw.isDisposing
  <2>1. State' = State
    BY <1>4 DEF DisposeConnection, State
  <2> QED
    BY <1>1, <1>2, <1>3, <2>1 DEF RawInv, Inv
<1>5. CASE ~(raw.isDisposed \/ raw.realDisposed \/ raw.isDisposing)
  <2>1. PICK s \in States : s = State
    BY <1>1
  <2>2. PICK u, t, returned :
           /\ u = [s EXCEPT !.raw.isDisposing = TRUE] /\ t = Shutdown(u)
           /\ returned \in BOOLEAN
           /\ Becomes([t EXCEPT !.raw.isDisposed = @ \/ returned])
    BY <1>5, <2>1 DEF DisposeConnection
  <2>3. Flagged(s, u)
    BY <2>2, FlagChanges
  <2>4. u \in States /\ Sound(u) /\ (Ending(s) => Ending(u))
    BY <1>1, <2>1, <2>3, FlaggedStays DEF Flagged
  <2>5. t \in States /\ Sound(t) /\ (Ending(u) => Ending(t))
    BY <2>2, <2>4, ShutdownSound
  <2>6. PICK v : v = [t EXCEPT !.raw.isDisposed = t.raw.isDisposed \/ returned] /\ Becomes(v)
    <3>1. /\ t \in [raw : RawType, procs : Seq(ProcessType), open : SUBSET Nat]
          /\ t.raw \in RawType
      BY <2>5 DEF States
    <3>2. [t EXCEPT !.raw.isDisposed = @ \/ returned]
             = [t EXCEPT !.raw.isDisposed = t.raw.isDisposed \/ returned]
      BY <3>1 DEF RawType
    <3> QED
      BY <2>2, <3>2
  <2>7. Flagged(t, v)
    <3>1. (t.raw.isDisposed \/ returned) \in BOOLEAN
      OBVIOUS
    <3> QED
      BY <2>5, <2>6, <3>1, FlagChanges
  <2>8. v \in States /\ Sound(v) /\ (Ending(t) => Ending(v))
    BY <2>5, <2>7, FlaggedStays DEF Flagged
  <2>9. State' = v
    BY <2>6, <2>8, BecomesState
  <2> QED
    BY <1>1, <1>2, <1>3, <2>1, <2>4, <2>5, <2>8, <2>9 DEF RawInv, Inv
<1> QED
  BY <1>4, <1>5

\* The connection as restart() leaves it: it has no process, and launches one.
Restarted(s, t) ==
    /\ t \in States /\ t.procs = s.procs /\ t.open = {}
    /\ t.raw.process = None /\ t.raw.start = Launching /\ t.raw.isRestarting
    /\ t.raw.isDisposing = s.raw.isDisposing /\ ~t.raw.isDisposed
    /\ ~t.raw.isShuttingDown /\ ~t.raw.hasShutdown /\ t.raw.awaiting = s.raw.awaiting

\* What restart() resets before it launches a process.
LEMMA RestartClears ==
    ASSUME NEW s \in States, Sound(s), NEW t,
           t = [s EXCEPT !.raw = [Cleared(@) EXCEPT !.isRestarting = TRUE, !.process = None,
                                                    !.realDisposed = TRUE, !.start = Launching],
                         !.open = @ \ {s.raw.socket}]
    PROVE  Restarted(s, t)
<1>1. /\ s \in [raw : RawType, procs : Seq(ProcessType), open : SUBSET Nat]
      /\ s.raw \in RawType /\ s.open \in SUBSET Nat
      /\ {s.raw.process, s.raw.hooked, s.raw.socket, s.raw.start.proc}
           \subseteq DOMAIN s.procs \cup {None}
  BY DEF States
<1> DEFINE r == [Cleared(s.raw) EXCEPT !.isRestarting = TRUE, !.process = None,
                                       !.realDisposed = TRUE, !.start = Launching]
           o == s.open \ {s.raw.socket}
           u == [s EXCEPT !.raw = r, !.open = o]
<1>2. t = u
  BY <1>1
<1>3. o = {}
  BY DEF Sound
<1>4. Launching \in StartType /\ Launching.proc = None
  <2>1. Idle \in StartType /\ Idle.proc = None
    BY DEF Idle, StartType, Ids
  <2> QED
    BY <2>1 DEF Launching, StartType
<1>5. Cleared(s.raw) \in RawType
  BY <1>1 DEF Cleared, RawType
<1>6. r \in RawType
  BY <1>4, <1>5 DEF RawType, Ids
<1>7. /\ r.process = None /\ r.start = Launching /\ r.hooked = s.raw.hooked
      /\ r.socket = s.raw.socket /\ r.awaiting = s.raw.awaiting
  BY <1>1 DEF Cleared, RawType
<1>8. r.isRestarting /\ ~r.isDisposed
  BY <1>1 DEF Cleared, RawType
<1>9. ~r.isShuttingDown /\ ~r.hasShutdown
  BY <1>1 DEF Cleared, RawType
<1>10. r.isDisposing = s.raw.isDisposing
  BY <1>1 DEF Cleared, RawType
<1> HIDE DEF r, o
<1>11. {r.process, r.hooked, r.socket, r.start.proc} \subseteq DOMAIN s.procs \cup {None}
  BY <1>1, <1>4, <1>7
<1>12. Replaced(s, r, o, u)
  BY <1>3, <1>6, <1>11, RawChanges
<1> HIDE DEF u
<1> QED
  BY <1>2, <1>3, <1>7, <1>8, <1>9, <1>10, <1>12 DEF Restarted, Replaced

\* The session is restarted: the old process is disposed of before the next is launched.
LEMMA RestartStep ==
    ASSUME None \notin Nat, RawInv, Restart
    PROVE  RawInv'
<1>1. /\ State \in States /\ Sound(State) /\ Inv(State, owner, overlapped)
      /\ owner \in [phase : Phases, awaits : Ids] /\ owner.phase = "up"
      /\ owner' = [owner EXCEPT !.phase = "restarting"]
      /\ overlapped' = (overlapped \/ raw.awaiting # {})
  BY DEF Restart, RawInv, Inv
<1>2. owner' \in [phase : Phases, awaits : Ids] /\ owner'.phase = "restarting"
  BY <1>1 DEF Phases
<1>3. PICK s, u :
         /\ s \in States /\ s = State
         /\ u = [s EXCEPT !.raw = [Cleared(@) EXCEPT !.isRestarting = TRUE, !.process = None,
                                                     !.realDisposed = TRUE, !.start = Launching],
                          !.open = @ \ {s.raw.socket}]
         /\ Becomes(IF s.raw.process = None THEN u ELSE DisposeProcess(u, s.raw.process))
  BY <1>1, StateFields DEF Restart
<1>4. Restarted(s, u)
  BY <1>1, <1>3, RestartClears
<1>5. /\ DOMAIN s.procs = 1..Len(s.procs) /\ Len(s.procs) \in Nat
      /\ {s.raw.process, s.raw.hooked, s.raw.socket, s.raw.start.proc}
           \subseteq DOMAIN s.procs \cup {None}
  BY <1>3, LenProperties DEF States
<1>6. PICK t : /\ t \in States /\ Becomes(t) /\ t.raw = u.raw /\ t.open = u.open
               /\ Disposes(s.procs, t.procs, {s.raw.process})
  <2>1. CASE s.raw.process = None
    <3>1. Disposes(s.procs, u.procs, {s.raw.process})
      BY <1>4, <1>5, <2>1 DEF Restarted, Disposes
    <3> QED
      BY <1>3, <1>4, <2>1, <3>1 DEF Restarted
  <2>2. CASE s.raw.process # None
    <3>1. PICK t : t = DisposeProcess(u, s.raw.process) /\ Becomes(t)
      BY <1>3, <2>2
    <3>2. u \in States /\ u.procs = s.procs /\ s.raw.process \in DOMAIN u.procs
      BY <1>4, <1>5, <2>2 DEF Restarted
    <3>3. /\ t \in States /\ t.raw = u.raw /\ t.open = u.open
          /\ Disposes(u.procs, t.procs, {s.raw.process})
      BY <3>1, <3>2, DisposeProcessDoes
    <3> QED
      BY <3>1, <3>2, <3>3
  <2> QED
    BY <2>1, <2>2
<1>7. State' = t
  BY <1>6, BecomesState
<1>8. /\ t.open = {} /\ t.raw.process = None /\ t.raw.start = Launching
      /\ t.raw.awaiting = s.raw.awaiting
  BY <1>4, <1>6 DEF Restarted
<1>9. t.raw.start.pc = "launching" /\ t.raw.start.proc = None
  BY <1>8 DEF Launching, Idle
<1>10. \A q \in 1..Len(t.procs) : ~Runs(t.procs, q)
  <2>1. SUFFICES ASSUME NEW q \in 1..Len(t.procs), Runs(t.procs, q) PROVE FALSE
    OBVIOUS
  <2>2. q \in 1..Len(s.procs) /\ Runs(s.procs, q) /\ q # s.raw.process
    BY <1>6, <2>1 DEF Disposes, Runs
  <2>3. s.raw.start.pc = "idle"
    BY <1>1, <1>3 DEF Inv
  <2> QED
    BY <1>1, <1>3, <2>2, <2>3 DEF Sound
<1>11. Sound(t)
  BY <1>8, <1>9, <1>10 DEF Sound
<1>12. ASSUME ~overlapped'
       PROVE  Serving(t, "restarting") /\ Noticed(t, "restarting")
  <2>1. ~overlapped /\ s.raw.awaiting = {}
    BY <1>1, <1>3, <1>12, StateFields
  <2>2. ~s.raw.isDisposing
    BY <1>1, <1>3, <2>1 DEF Inv, Serving
  <2>3. ~t.raw.isDisposing /\ ~t.raw.isDisposed
    BY <1>4, <1>6, <2>2 DEF Restarted
  <2>4. ~t.raw.isShuttingDown /\ ~t.raw.hasShutdown
    BY <1>4, <1>6 DEF Restarted
  <2>5. t.raw.isRestarting
    BY <1>4, <1>6 DEF Restarted
  <2>6. Noticed(t, "restarting")
    BY <1>8 DEF Noticed
  <2> QED
    BY <1>8, <1>9, <2>1, <2>3, <2>4, <2>5, <2>6 DEF Serving
<1> QED
  BY <1>2, <1>6, <1>7, <1>11, <1>12 DEF RawInv, Inv

-----------------------------------------------------------------------------
(* Theorems *)

\* Every step keeps the invariant.
LEMMA RawStep ==
    ASSUME None \notin Nat, RawInv, [Next]_vars
    PROVE  RawInv'
<1>1. CASE Spawn
  BY <1>1, SpawnStep
<1>2. CASE Launched
  BY <1>2, LaunchedStep
<1>3. CASE LaunchThrows
  BY <1>3, LaunchThrowsStep
<1>4. CASE Connected
  BY <1>4, ConnectedStep
<1>5. CASE ConnectTimesOut
  BY <1>5, ConnectTimesOutStep
<1>6. ASSUME NEW p \in Processes, ProcessExits(p) PROVE RawInv'
  BY <1>6, ProcessExitsStep
<1>7. ASSUME NEW p \in Processes, Kill(p) PROVE RawInv'
  BY <1>7, KillStep
<1>8. ASSUME NEW p \in Processes, ProcessDisposed(p) PROVE RawInv'
  BY <1>8, ProcessDisposedStep
<1>9. CASE CreateSession
  BY <1>9, CreateSessionStep
<1>10. CASE Started
  BY <1>10, StartedStep
<1>11. CASE StartThrew
  BY <1>11, StartThrewStep
<1>12. CASE StartIgnored
  BY <1>12, StartIgnoredStep
<1>13. CASE Restart
  BY <1>13, RestartStep
<1>14. CASE CancelCreation
  BY <1>14, CancelCreationStep
<1>15. CASE DisposeSession
  BY <1>15, DisposeSessionStep
<1>16. CASE DisposeConnection
  BY <1>16, DisposeConnectionStep
<1>17. CASE UNCHANGED vars
  <2>1. State' = State /\ owner' = owner /\ overlapped' = overlapped
    BY <1>17 DEF vars, State
  <2> QED
    BY <2>1 DEF RawInv, Inv
<1> QED
  BY <1>1, <1>2, <1>3, <1>4, <1>5, <1>6, <1>7, <1>8, <1>9, <1>10, <1>11, <1>12, <1>13, <1>14,
     <1>15, <1>16, <1>17 DEF Next

\* Before there is a session nothing was launched.
LEMMA RawInit ==
    ASSUME Init
    PROVE  RawInv
<1>1. Idle \in StartType /\ Idle.proc = None /\ Idle.pc = "idle"
  BY DEF Idle, StartType, Ids
<1>2. raw \in RawType
  BY <1>1 DEF Init, RawType, Ids
<1>3. /\ raw.process = None /\ raw.hooked = None /\ raw.socket = None /\ raw.start = Idle
      /\ raw.awaiting = {}
  BY DEF Init
<1>4. ~raw.isShuttingDown /\ ~raw.hasShutdown
  BY DEF Init
<1>5. ~raw.isDisposing /\ ~raw.isDisposed /\ ~raw.isRestarting
  BY DEF Init
<1>6. procs = <<>> /\ open = {} /\ procs \in Seq(ProcessType)
  BY EmptySeq DEF Init
<1>7. State \in States
  <2>1. open \in SUBSET Nat
    BY <1>6
  <2>2. {raw.process, raw.hooked, raw.socket, raw.start.proc} \subseteq DOMAIN procs \cup {None}
    BY <1>1, <1>3
  <2> QED
    BY <1>2, <1>6, <2>1, <2>2, MakesState DEF State
<1>8. Fresh(State)
  BY <1>1, <1>3, <1>4, <1>5, <1>6, StateFields DEF Fresh
<1>9. Sound(State)
  BY <1>8, EmptySeq DEF Sound, Fresh
<1>10. owner \in [phase : Phases, awaits : Ids] /\ owner.phase = "none"
  BY DEF Init, Phases, Ids
<1> QED
  BY <1>7, <1>8, <1>9, <1>10 DEF RawInv, Inv

\* The invariant holds in every reachable state.
THEOREM RawInvariant ==
    ASSUME None \notin Nat
    PROVE  Init /\ [][Next]_vars => []RawInv
BY RawInit, RawStep, PTL

\* The connection's process is the only one that runs, and that of its start.
THEOREM RawOneProcess ==
    ASSUME None \notin Nat
    PROVE  Init /\ [][Next]_vars => []OneProcess
<1>1. RawInv => OneProcess
  <2> SUFFICES ASSUME RawInv PROVE OneProcess
    OBVIOUS
  <2>1. Sound(State) /\ DOMAIN procs = 1..Len(procs)
    BY StateTypes DEF RawInv, Inv
  <2> QED
    BY <2>1, StateFields DEF OneProcess, Sound, Processes, Live, Runs
<1> QED
  BY <1>1, RawInvariant, PTL

\* The status of a connection that is not being shut down agrees with its process.
THEOREM RawStatusAgrees ==
    ASSUME None \notin Nat
    PROVE  Init /\ [][Next]_vars => []StatusAgrees
<1>1. RawInv => StatusAgrees
  <2> SUFFICES ASSUME RawInv, ~overlapped, owner.phase = "up", raw.awaiting = {}
               PROVE  Status(raw) = "dead" <=> ~Live(raw.process)
    BY DEF StatusAgrees
  <2>1. Serving(State, "up") /\ Noticed(State, "up")
    BY DEF RawInv, Inv
  <2>2. raw.process # None /\ ~raw.isDisposed
    BY <2>1, StateFields DEF Serving
  <2>3. ~raw.realDisposed
    BY <2>1, <2>2, StateFields DEF Serving
  <2>4. ~raw.isShuttingDown
    BY <2>1, StateFields DEF Serving
  <2>5. raw.hasShutdown => ~Live(raw.process)
    BY <2>1, StateFields DEF Serving, Live
  <2>6. ~Live(raw.process) => raw.hasShutdown
    BY <2>1, <2>2, <2>4, StateFields DEF Noticed, Live, Runs
  <2>7. Status(raw) = "dead" <=> raw.hasShutdown
    BY <2>2, <2>3 DEF Status
  <2> QED
    BY <2>5, <2>6, <2>7
<1> QED
  BY <1>1, RawInvariant, PTL

\* A session that was released leaves no process and no socket behind.
THEOREM RawNothingLeft ==
    ASSUME None \notin Nat
    PROVE  Init /\ [][Next]_vars => []NothingLeft
<1>1. RawInv => NothingLeft
  <2> SUFFICES ASSUME RawInv, ~overlapped, owner.phase = "released", raw.start.pc = "idle",
                      raw.awaiting = {}
               PROVE  open = {} /\ \A p \in Processes : ~Live(p)
    BY DEF NothingLeft
  <2>1. Sound(State) /\ Ending(State) /\ DOMAIN procs = 1..Len(procs)
    BY StateTypes DEF RawInv, Inv
  <2>2. open = {}
    BY <2>1, StateFields DEF Ending
  <2>3. ASSUME NEW p \in Processes, Live(p) PROVE FALSE
    <3>1. p = raw.process /\ p \in 1..Len(procs)
      BY <2>1, <2>3, StateFields DEF Sound, Processes, Live, Runs
    <3>2. p # None
      BY <3>1
    <3> QED
      BY <2>1, <2>3, <3>1, <3>2, StateFields DEF Ending, Live
  <2> QED
    BY <2>2, <2>3
<1> QED
  BY <1>1, RawInvariant, PTL

-----------------------------------------------------------------------------
(* Exits stop no other process *)

\* The processes f have exited, or not, as those of g.
SameExits(f, g) ==
    \A p \in 1..Len(f) : g[p].exited = f[p].exited

\* Disposing of processes makes none exit.
LEMMA DisposesExits ==
    ASSUME NEW f, NEW g, NEW D, Disposes(f, g, D)
    PROVE  SameExits(f, g)
BY DEF Disposes, SameExits

\* Nor does shutdown().
LEMMA ShutdownExits ==
    ASSUME None \notin Nat, NEW s \in States, Sound(s), NEW t, t = Shutdown(s)
    PROVE  SameExits(s.procs, t.procs)
<1>1. CASE s.raw.isShuttingDown \/ s.raw.hasShutdown
  BY <1>1 DEF Shutdown, SameExits
<1>2. CASE ~(s.raw.isShuttingDown \/ s.raw.hasShutdown)
  <2>1. ~s.raw.isShuttingDown
    BY <1>2
  <2>2. ~s.raw.hasShutdown
    BY <1>2
  <2>3. s.raw.start.pc = "connecting" => s.raw.process # None
    BY DEF Sound
  <2>4. ShutsDown(s, t)
    BY <2>1, <2>2, <2>3, ShutdownDoes
  <2> QED
    BY <2>4, DisposesExits DEF ShutsDown
<1> QED
  BY <1>1, <1>2

\* Nor does the release of the session.
LEMMA ReleaseExits ==
    ASSUME None \notin Nat, NEW s \in States, Sound(s), NEW awaited, Release(s, awaited)
    PROVE  SameExits(s.procs, procs')
<1>1. PICK t : t = Shutdown(s) /\ Becomes(t)
  BY DEF Release
<1> QED
  BY <1>1, ShutdownExits DEF Becomes

\* No action but that of the process itself makes it exit.
LEMMA OthersExit ==
    ASSUME None \notin Nat, RawInv, [Next]_vars, \A p \in Processes : ~ProcessExits(p),
           NEW q \in 1..Len(procs)
    PROVE  procs'[q].exited = procs[q].exited
<1>1. /\ State \in States /\ Sound(State) /\ Inv(State, owner, overlapped)
      /\ State.procs = procs /\ State.raw = raw
      /\ procs \in Seq(ProcessType) /\ Len(procs) \in Nat /\ DOMAIN procs = 1..Len(procs)
  BY StateTypes, StateFields DEF RawInv, Inv
<1>2. SUFFICES SameExits(procs, procs')
  BY DEF SameExits
<1>3. CASE UNCHANGED procs
  BY <1>3 DEF SameExits
<1>4. CASE Spawn
  <2>1. PICK new : new \in ProcessType /\ procs' = Append(procs, new)
    BY <1>4 DEF Spawn, ProcessType
  <2>2. \A k \in 1..Len(procs) : procs'[k] = procs[k]
    BY <1>1, <2>1, AppendProperties
  <2> QED
    BY <2>2 DEF SameExits
<1>5. CASE LaunchThrows
  <2>1. PICK s, t : /\ s \in States /\ s = State /\ t = LaunchFails(s, "launch", FALSE)
                    /\ procs' = t.procs
    BY <1>1, <1>5 DEF LaunchThrows, Becomes
  <2>2. /\ t \in States /\ t.open = s.open /\ Kept(s.raw, t.raw) /\ Stays(s.raw, t.raw)
        /\ t.raw.start.pc = "rejected"
        /\ Disposes(s.procs, t.procs, {s.raw.start.proc})
    <3>1. s \in States /\ t = LaunchFails(s, "launch", FALSE)
      BY <2>1
    <3> QED
      BY <3>1, LaunchFailsDoes
  <2> QED
    BY <1>1, <2>1, <2>2, DisposesExits
<1>6. CASE ConnectTimesOut
  <2>1. PICK s, t : /\ s \in States /\ s = State /\ t = ConnectFails(s, "timeout")
                    /\ procs' = t.procs
    BY <1>1, <1>6 DEF ConnectTimesOut, Becomes
  <2>2. s.raw.process # None
    BY <1>1, <1>6, <2>1 DEF ConnectTimesOut, Sound
  <2>3. /\ t \in States /\ t.open = s.open /\ Kept(s.raw, t.raw) /\ Stays(s.raw, t.raw)
        /\ t.raw.start.pc = "failing"
        /\ Disposes(s.procs, t.procs, {s.raw.process})
    BY <2>1, <2>2, ConnectFailsDoes
  <2> QED
    BY <1>1, <2>1, <2>3, DisposesExits
<1>7. ASSUME NEW p \in Processes, Kill(p)
      PROVE  SameExits(procs, procs')
  <2>1. p \in 1..Len(procs) /\ procs[p] \in ProcessType /\ procs[p].phase = "disposing"
    BY <1>1, <1>7, ProcessTypes DEF Kill, Processes
  <2>2. PICK killed, s :
           /\ killed = [procs[p] EXCEPT !.phase = "killed"]
           /\ s = [State EXCEPT !.procs = [State.procs EXCEPT ![p] = killed]]
    OBVIOUS
  <2>3. killed \in ProcessType /\ killed.exited = procs[p].exited /\ killed.phase = "killed"
    BY <2>1, <2>2 DEF ProcessType
  <2>4. Reaches(State, p, killed, s)
    BY <1>1, <2>1, <2>2, <2>3, ProcessChanges
  <2>5. SameExits(procs, s.procs) /\ s \in States /\ DOMAIN s.procs = 1..Len(procs)
    BY <1>1, <2>3, <2>4, LenProperties DEF Reaches, SameExits, States
  <2>6. s = [State EXCEPT !.procs[p].phase = "killed"]
    BY <1>1, <2>1, <2>2 DEF States
  <2>7. Becomes(IF procs[p].exited THEN s ELSE ExitEvent(s, p))
    BY <1>7, <2>6 DEF Kill
  <2>8. CASE procs[p].exited
    BY <2>5, <2>7, <2>8 DEF Becomes
  <2>9. CASE ~procs[p].exited
    <3>1. Starting(s.raw)
      <4>1. Starting(State.raw)
        BY <1>1, SoundStarting
      <4> QED
        BY <2>4, <4>1 DEF Reaches
    <3>2. PICK t : t = ExitEvent(s, p)
      OBVIOUS
    <3>3. Exited(s, p, t)
      BY <2>1, <2>5, <3>1, <3>2, ExitEventDoes
    <3>4. SameExits(s.procs, t.procs)
      BY <3>3, DisposesExits DEF Exited
    <3>5. procs' = t.procs
      BY <2>7, <2>9, <3>2 DEF Becomes
    <3>6. Len(s.procs) = Len(procs)
      BY <1>1, <2>4 DEF Reaches
    <3> QED
      BY <2>5, <3>4, <3>5, <3>6 DEF SameExits
  <2> QED
    BY <2>8, <2>9
<1>8. ASSUME NEW p \in Processes, ProcessDisposed(p)
      PROVE  SameExits(procs, procs')
  <2>1. p \in 1..Len(procs) /\ procs[p] \in ProcessType
    BY <1>1, ProcessTypes DEF Processes
  <2>2. procs' = [procs EXCEPT ![p].phase = "disposed"]
    BY <1>1, <1>8 DEF ProcessDisposed, Becomes, FinishShutdown, State
  <2>3. \A k \in 1..Len(procs) : procs[k] \in ProcessType
    BY <1>1, ElementOfSeq
  <2> QED
    BY <1>1, <2>1, <2>2, <2>3 DEF SameExits, ProcessType
<1>9. CASE StartThrew
  <2>1. PICK t, awaited : t = [State EXCEPT !.raw.start = Idle] /\ Release(t, awaited)
    BY <1>9 DEF StartThrew
  <2>2. Begins(State, Idle, t)
    BY <1>1, <2>1, StartChanges
  <2>3. State.raw.start.pc # "launching"
    BY <1>1, <1>9 DEF StartThrew
  <2>4. t \in States /\ Sound(t)
    BY <1>1, <2>2, <2>3, IdleSound DEF Begins
  <2>5. SameExits(t.procs, procs')
    BY <2>1, <2>4, ReleaseExits
  <2> QED
    BY <1>1, <2>2, <2>5 DEF Begins
<1>10. CASE CancelCreation
  <2>1. PICK s, t : s \in States /\ s = State /\ t = CancelStart(s) /\ Release(t, TRUE)
    BY <1>1, <1>10 DEF CancelCreation
  <2>2. /\ t \in States /\ t.open = s.open /\ Kept(s.raw, t.raw) /\ Stays(s.raw, t.raw)
        /\ t.raw.start.pc = CancelledAt(s.raw.start.pc)
        /\ Disposes(s.procs, t.procs, Cancelled(s.raw))
    <3>1. s.raw.start.pc = "connecting" => s.raw.process # None
      BY <1>1, <2>1 DEF Sound
    <3> QED
      BY <2>1, <3>1, CancelStartDoes
  <2>3. Failed(s, t)
    BY <2>2, DisposesStops DEF Failed
  <2>4. Sound(t)
    BY <1>1, <2>1, <2>3, FailedSound
  <2>5. SameExits(t.procs, procs')
    BY <2>1, <2>2, <2>4, ReleaseExits
  <2>6. SameExits(s.procs, t.procs)
    BY <2>2, DisposesExits
  <2>7. Len(t.procs) = Len(procs) /\ s.procs = procs
    BY <1>1, <2>1, <2>2 DEF Disposes
  <2> QED
    BY <2>5, <2>6, <2>7 DEF SameExits
<1>11. CASE DisposeSession
  <2>1. Release(State, FALSE)
    BY <1>11 DEF DisposeSession
  <2> QED
    BY <1>1, <2>1, ReleaseExits
<1>12. CASE Restart
  <2>1. PICK s, u :
           /\ s \in States /\ s = State
           /\ u = [s EXCEPT !.raw = [Cleared(@) EXCEPT !.isRestarting = TRUE, !.process = None,
                                                       !.realDisposed = TRUE, !.start = Launching],
                            !.open = @ \ {s.raw.socket}]
           /\ Becomes(IF s.raw.process = None THEN u ELSE DisposeProcess(u, s.raw.process))
    BY <1>1, <1>12 DEF Restart
  <2>2. u \in States /\ u.procs = procs
    <3>1. Restarted(s, u)
      BY <1>1, <2>1, RestartClears
    <3> QED
      BY <1>1, <2>1, <3>1 DEF Restarted
  <2>3. CASE s.raw.process = None
    BY <2>1, <2>2, <2>3 DEF Becomes, SameExits
  <2>4. CASE s.raw.process # None
    <3>1. s.raw.process \in DOMAIN u.procs
      BY <1>1, <2>1, <2>2, <2>4 DEF States
    <3>2. PICK t : t = DisposeProcess(u, s.raw.process) /\ procs' = t.procs
      BY <2>1, <2>4 DEF Becomes
    <3>3. /\ t \in States /\ t.raw = u.raw /\ t.open = u.open
          /\ Disposes(u.procs, t.procs, {s.raw.process})
      BY <2>2, <3>1, <3>2, DisposeProcessDoes
    <3> QED
      BY <2>2, <3>2, <3>3, DisposesExits
  <2> QED
    BY <2>3, <2>4
<1>13. CASE DisposeConnection
  <2>1. CASE raw.isDisposed \/ raw.realDisposed \/ raw.isDisposing
    BY <1>13, <2>1 DEF DisposeConnection, SameExits
  <2>2. CASE ~(raw.isDisposed \/ raw.realDisposed \/ raw.isDisposing)
    <3>1. PICK s \in States : s = State
      BY <1>1
    <3>2. PICK u, t, returned :
             /\ u = [s EXCEPT !.raw.isDisposing = TRUE] /\ t = Shutdown(u)
             /\ Becomes([t EXCEPT !.raw.isDisposed = @ \/ returned])
      BY <1>13, <2>2, <3>1 DEF DisposeConnection
    <3>3. Flagged(s, u)
      BY <3>2, FlagChanges
    <3>4. u \in States /\ Sound(u) /\ u.procs = procs
      BY <1>1, <3>1, <3>3, FlaggedStays DEF Flagged
    <3>5. t \in States /\ SameExits(u.procs, t.procs)
      BY <3>2, <3>4, ShutdownExits, ShutdownSound
    <3>6. procs' = t.procs
      BY <3>2, <3>5 DEF Becomes, States
    <3> QED
      BY <3>4, <3>5, <3>6
  <2> QED
    BY <2>1, <2>2
<1>14. CASE Launched \/ Connected \/ CreateSession \/ Started \/ StartIgnored
  BY <1>3, <1>14 DEF Launched, Connected, CreateSession, Started, StartIgnored
<1> QED
  BY <1>3, <1>4, <1>5, <1>6, <1>7, <1>8, <1>9, <1>10, <1>11, <1>12, <1>13, <1>14 DEF Next, vars

\* The exit of process q leaves the others as they are.
LEMMA ExitsAlone ==
    ASSUME None \notin Nat, RawInv, NEW q \in Processes, ProcessExits(q),
           NEW p \in Processes, p # q
    PROVE  procs'[p].phase = procs[p].phase /\ procs'[p].exited = procs[p].exited
<1>1. /\ State \in States /\ Sound(State) /\ q \in DOMAIN State.procs
      /\ State.procs = procs /\ State.raw = raw
      /\ Len(procs) \in Nat /\ DOMAIN procs = 1..Len(procs)
      /\ p \in 1..Len(procs) /\ q \in 1..Len(procs)
      /\ procs[q] \in ProcessType /\ procs[p] \in ProcessType
  BY StateTypes, StateFields, ProcessTypes DEF RawInv, Inv, Processes
<1>2. PICK e, s : /\ e = [procs[q] EXCEPT !.exited = TRUE]
                  /\ s = [State EXCEPT !.procs = [State.procs EXCEPT ![q] = e]]
  OBVIOUS
<1>3. e \in ProcessType /\ e.phase = procs[q].phase /\ e.exited
  BY <1>1, <1>2 DEF ProcessType
<1>4. Reaches(State, q, e, s)
  BY <1>1, <1>2, <1>3, ProcessChanges
<1>5. s = [State EXCEPT !.procs[q].exited = TRUE]
  BY <1>1, <1>2 DEF States
<1>6. /\ s \in States /\ s.raw = raw /\ DOMAIN s.procs = 1..Len(procs) /\ Len(s.procs) = Len(procs)
      /\ s.procs[p] = procs[p]
  BY <1>1, <1>4, LenProperties DEF Reaches, States
<1>7. Becomes(IF procs[q].phase = "disposed" THEN s
              ELSE IF raw.start.pc = "launching" /\ raw.start.proc = q
              THEN LaunchFails(s, "exited", TRUE) ELSE ExitEvent(s, q))
  BY <1>5 DEF ProcessExits
<1>8. PICK D : D \subseteq {q} /\ Disposes(s.procs, procs', D)
  <2>1. CASE procs[q].phase = "disposed"
    <3>1. procs' = s.procs
      BY <1>7, <2>1 DEF Becomes
    <3>2. Disposes(s.procs, s.procs, {})
      BY DEF Disposes
    <3> QED
      BY <3>1, <3>2
  <2>2. CASE procs[q].phase # "disposed" /\ raw.start.pc = "launching" /\ raw.start.proc = q
    <3>1. PICK t : t = LaunchFails(s, "exited", TRUE) /\ procs' = t.procs
      BY <1>7, <2>2 DEF Becomes
    <3>2. /\ t \in States /\ t.open = s.open /\ Kept(s.raw, t.raw) /\ Stays(s.raw, t.raw)
          /\ t.raw.start.pc = "rejected"
          /\ Disposes(s.procs, t.procs, {s.raw.start.proc})
      BY <1>6, <3>1, LaunchFailsDoes
    <3>3. s.raw.start.proc = q
      BY <1>6, <2>2
    <3> QED
      BY <3>1, <3>2, <3>3
  <2>3. CASE procs[q].phase # "disposed" /\ ~(raw.start.pc = "launching" /\ raw.start.proc = q)
    <3>1. PICK t : t = ExitEvent(s, q) /\ procs' = t.procs
      BY <1>7, <2>3 DEF Becomes
    <3>2. Starting(s.raw)
      BY <1>1, <1>6, SoundStarting
    <3>3. Exited(s, q, t)
      BY <1>1, <1>6, <3>1, <3>2, ExitEventDoes
    <3>4. \E D : D \subseteq {q} /\ Disposes(s.procs, t.procs, D)
      BY <3>3 DEF Exited
    <3> QED
      BY <3>1, <3>4
  <2> QED
    BY <2>1, <2>2, <2>3
<1>9. p \in 1..Len(s.procs) /\ p \notin D
  BY <1>1, <1>6, <1>8
<1> QED
  BY <1>6, <1>8, <1>9 DEF Disposes

\* The exit of a process disposes no other that runs.
THEOREM RawExitStopsNoOther ==
    ASSUME None \notin Nat
    PROVE  Init /\ [][Next]_vars => ExitStopsNoOther
<1>1. ASSUME RawInv, [Next]_vars, NEW p \in Processes, NEW q \in Processes,
             p # q, Live(p), ~procs[q].exited, procs'[q].exited
      PROVE  procs'[p].phase = "live"
  <2>1. DOMAIN procs = 1..Len(procs)
    BY <1>1, StateTypes DEF RawInv, Inv
  <2>2. \E r \in Processes : ProcessExits(r)
    BY <1>1, <2>1, OthersExit DEF Processes
  <2>3. PICK r \in Processes : ProcessExits(r)
    BY <2>2
  <2>4. r = q
    BY <1>1, <2>3, ExitsAlone
  <2> QED
    BY <1>1, <2>3, <2>4, ExitsAlone DEF Live
<1>2. RawInv /\ [Next]_vars =>
         [\A p, q \in Processes :
             p # q /\ Live(p) /\ ~procs[q].exited /\ procs'[q].exited
               => procs'[p].phase = "live"]_vars
  BY <1>1
<1> QED
  BY <1>2, RawInvariant, PTL DEF ExitStopsNoOther

-----------------------------------------------------------------------------
(* What is awaited is a process that was spawned                           *)

\* Of s and t: no process is gone, and only those of s are awaited from then on.
Awaits(s, t) ==
    /\ Len(s.procs) <= Len(t.procs)
    /\ t.raw.awaiting \subseteq s.raw.awaiting \cup 1..Len(s.procs)

\* Processes that are disposed of are as many as before.
LEMMA DisposesAwaits ==
    ASSUME NEW s \in States, NEW t, NEW D, Disposes(s.procs, t.procs, D),
           t.raw.awaiting \subseteq s.raw.awaiting \cup 1..Len(s.procs)
    PROVE  Awaits(s, t)
<1>1. Len(s.procs) \in Nat
  BY LenProperties DEF States
<1> QED
  BY <1>1 DEF Disposes, Awaits

\* shutdown() awaits the process of the connection.
LEMMA ShutdownAwaits ==
    ASSUME None \notin Nat, NEW s \in States, Sound(s), NEW t, t = Shutdown(s)
    PROVE  Awaits(s, t)
<1>1. /\ Len(s.procs) \in Nat /\ DOMAIN s.procs = 1..Len(s.procs)
      /\ s.raw.process \in DOMAIN s.procs \cup {None}
  BY LenProperties DEF States
<1>2. CASE s.raw.isShuttingDown \/ s.raw.hasShutdown
  BY <1>1, <1>2 DEF Shutdown, Awaits
<1>3. CASE ~(s.raw.isShuttingDown \/ s.raw.hasShutdown)
  <2>1. ~s.raw.isShuttingDown
    BY <1>3
  <2>2. ~s.raw.hasShutdown
    BY <1>3
  <2>3. s.raw.start.pc = "connecting" => s.raw.process # None
    BY DEF Sound
  <2>4. ShutsDown(s, t)
    BY <2>1, <2>2, <2>3, ShutdownDoes
  <2>5. t.raw.awaiting \subseteq s.raw.awaiting \cup 1..Len(s.procs)
    BY <1>1, <2>4 DEF ShutsDown
  <2> QED
    BY <2>4, <2>5, DisposesAwaits DEF ShutsDown
<1> QED
  BY <1>2, <1>3

\* So does the exit event of a process.
LEMMA ExitAwaits ==
    ASSUME NEW s \in States, NEW p \in 1..Len(s.procs), NEW t, Exited(s, p, t)
    PROVE  Awaits(s, t)
<1>1. CASE Stops(s.raw, p)
  BY <1>1, DisposesAwaits DEF Exited
<1>2. CASE ~Stops(s.raw, p)
  BY <1>2, DisposesAwaits DEF Exited, Stays
<1> QED
  BY <1>1, <1>2

\* What was awaited and what was spawned, through another state.
LEMMA AwaitsOn ==
    ASSUME NEW s \in States, NEW t \in States, NEW u, Len(t.procs) = Len(s.procs),
           t.raw.awaiting \subseteq s.raw.awaiting, Awaits(t, u)
    PROVE  Awaits(s, u)
  BY DEF Awaits

\* What is awaited is a process, by the connection and by its owner.
AwaitedInv ==
    /\ raw.awaiting \subseteq 1..Len(procs)
    /\ owner.awaits \in 1..Len(procs) \cup {None}

\* The owner keeps what it awaits.
LEMMA OwnerKeeps ==
    ASSUME RawInv, AwaitedInv, RawInv', Awaits(State, State'), owner'.awaits = owner.awaits
    PROVE  AwaitedInv'
<1>1. Len(procs) \in Nat /\ Len(procs') \in Nat
  <2>1. procs \in Seq(ProcessType) /\ procs' \in Seq(ProcessType)
    BY StateFields DEF RawInv, Inv, States
  <2> QED
    BY <2>1, LenProperties
<1>2. Len(procs) <= Len(procs') /\ raw'.awaiting \subseteq raw.awaiting \cup 1..Len(procs)
  BY StateFields DEF Awaits
<1> QED
  BY <1>1, <1>2 DEF AwaitedInv

\* The release of the session awaits the process of the connection, or nothing.
LEMMA ReleaseAwaits ==
    ASSUME None \notin Nat, RawInv, AwaitedInv, RawInv', NEW s \in States, Sound(s),
           Len(s.procs) = Len(procs), s.raw.awaiting \subseteq raw.awaiting,
           NEW awaited, Release(s, awaited)
    PROVE  AwaitedInv'
<1>1. PICK t : t = Shutdown(s)
  OBVIOUS
<1>2. PICK new : new = t.raw.awaiting \ s.raw.awaiting
  OBVIOUS
<1>3. /\ Becomes(t)
      /\ owner' = [phase |-> "releasing", awaits |-> IF awaited /\ new # {} THEN CHOOSE p \in new : TRUE ELSE None]
  BY <1>1, <1>2 DEF Release
<1>4. Awaits(s, t)
  BY <1>1, ShutdownAwaits
<1>5. raw' = t.raw /\ procs' = t.procs
  BY <1>3 DEF Becomes
<1>6. Len(procs) \in Nat /\ Len(procs') \in Nat
  <2>1. procs \in Seq(ProcessType) /\ procs' \in Seq(ProcessType)
    BY StateFields DEF RawInv, Inv, States
  <2> QED
    BY <2>1, LenProperties
<1>7. Len(procs) <= Len(procs') /\ raw'.awaiting \subseteq raw.awaiting \cup 1..Len(procs)
  BY <1>4, <1>5 DEF Awaits
<1>8. raw'.awaiting \subseteq 1..Len(procs')
  BY <1>6, <1>7 DEF AwaitedInv
<1>9. owner'.awaits = None \/ owner'.awaits \in new
  BY <1>3
<1> QED
  BY <1>2, <1>5, <1>8, <1>9 DEF AwaitedInv

\* Every step keeps that.
LEMMA AwaitedStep ==
    ASSUME None \notin Nat, RawInv, AwaitedInv, [Next]_vars
    PROVE  AwaitedInv'
<1>0. RawInv'
  BY RawStep
<1>1. /\ State \in States /\ Sound(State) /\ Inv(State, owner, overlapped)
      /\ State.procs = procs /\ State.raw = raw /\ State'.procs = procs' /\ State'.raw = raw'
      /\ procs \in Seq(ProcessType) /\ Len(procs) \in Nat /\ DOMAIN procs = 1..Len(procs)
      /\ raw \in RawType
  BY StateTypes, StateFields DEF RawInv, Inv
<1>2. owner = [phase |-> owner.phase, awaits |-> owner.awaits]
  BY <1>1 DEF Inv
<1>3. ASSUME procs' = procs, raw'.awaiting = raw.awaiting,
             owner'.awaits = owner.awaits PROVE AwaitedInv'
  BY <1>3 DEF AwaitedInv
<1>4. CASE Spawn
  <2>1. PICK new : new \in ProcessType /\ procs' = Append(procs, new)
    BY <1>4 DEF Spawn, ProcessType
  <2>2. Len(procs') = Len(procs) + 1
    BY <1>1, <2>1, AppendProperties
  <2>3. raw'.awaiting = raw.awaiting /\ owner'.awaits = owner.awaits
    BY <1>1, <1>4 DEF Spawn, RawType
  <2>4. Awaits(State, State')
    BY <1>1, <2>2, <2>3 DEF Awaits
  <2> QED
    BY <1>0, <2>3, <2>4, OwnerKeeps
<1>5. CASE LaunchThrows
  <2>1. PICK s, t : s \in States /\ s = State /\ t = LaunchFails(s, "launch", FALSE) /\ Becomes(t)
    BY <1>1, <1>5 DEF LaunchThrows
  <2>2. /\ t \in States /\ Stays(s.raw, t.raw)
        /\ Disposes(s.procs, t.procs, {s.raw.start.proc})
    <3>1. s \in States /\ t = LaunchFails(s, "launch", FALSE)
      BY <2>1
    <3> QED
      BY <3>1, LaunchFailsDoes
  <2>3. Awaits(s, t)
    BY <2>1, <2>2, DisposesAwaits DEF Stays
  <2>4. State' = t
    BY <2>1, <2>2, BecomesState
  <2>5. owner' = owner
    BY <1>5 DEF LaunchThrows
  <2> QED
    BY <1>0, <2>1, <2>3, <2>4, <2>5, OwnerKeeps
<1>6. CASE ConnectTimesOut
  <2>1. PICK s, t : s \in States /\ s = State /\ t = ConnectFails(s, "timeout") /\ Becomes(t)
    BY <1>1, <1>6 DEF ConnectTimesOut
  <2>2. s.raw.process # None
    BY <1>1, <1>6, <2>1 DEF ConnectTimesOut, Sound
  <2>3. /\ t \in States /\ t.open = s.open /\ Kept(s.raw, t.raw) /\ Stays(s.raw, t.raw)
        /\ t.raw.start.pc = "failing"
        /\ Disposes(s.procs, t.procs, {s.raw.process})
    BY <2>1, <2>2, ConnectFailsDoes
  <2>4. Awaits(s, t)
    BY <2>1, <2>3, DisposesAwaits DEF Stays
  <2>5. State' = t
    BY <2>1, <2>3, BecomesState
  <2>6. owner' = owner
    BY <1>6 DEF ConnectTimesOut
  <2> QED
    BY <1>0, <2>1, <2>4, <2>5, <2>6, OwnerKeeps
<1>7. ASSUME NEW p \in Processes, ProcessExits(p) PROVE AwaitedInv'
  <2>1. p \in DOMAIN State.procs /\ procs[p] \in ProcessType
    BY <1>1, ProcessTypes
  <2>2. PICK e, s : /\ e = [procs[p] EXCEPT !.exited = TRUE]
                    /\ s = [State EXCEPT !.procs = [State.procs EXCEPT ![p] = e]]
    OBVIOUS
  <2>3. e \in ProcessType
    BY <2>1, <2>2 DEF ProcessType
  <2>4. Reaches(State, p, e, s)
    BY <1>1, <2>1, <2>2, <2>3, ProcessChanges
  <2>5. s = [State EXCEPT !.procs[p].exited = TRUE]
    BY <1>1, <2>1, <2>2 DEF States
  <2>6. s \in States /\ s.raw = raw /\ Len(s.procs) = Len(procs) /\ p \in 1..Len(s.procs)
        /\ p \in DOMAIN s.procs
    BY <1>1, <2>1, <2>4, LenProperties DEF Reaches, States
  <2>7. Becomes(IF procs[p].phase = "disposed" THEN s
                ELSE IF raw.start.pc = "launching" /\ raw.start.proc = p
                THEN LaunchFails(s, "exited", TRUE) ELSE ExitEvent(s, p))
    BY <1>7, <2>5 DEF ProcessExits
  <2>8. PICK t : Becomes(t) /\ t \in States /\ Awaits(s, t)
    <3>1. CASE procs[p].phase = "disposed"
      <4>1. Awaits(s, s)
        BY <1>1, <2>6 DEF Awaits
      <4> QED
        BY <2>6, <2>7, <3>1, <4>1
    <3>2. CASE procs[p].phase # "disposed" /\ raw.start.pc = "launching" /\ raw.start.proc = p
      <4>1. PICK t : t = LaunchFails(s, "exited", TRUE) /\ Becomes(t)
        BY <2>7, <3>2
      <4>2. /\ t \in States /\ t.open = s.open /\ Kept(s.raw, t.raw) /\ Stays(s.raw, t.raw)
            /\ t.raw.start.pc = "rejected"
            /\ Disposes(s.procs, t.procs, {s.raw.start.proc})
        BY <2>6, <4>1, LaunchFailsDoes
      <4>3. Awaits(s, t)
        BY <2>6, <4>2, DisposesAwaits DEF Stays
      <4> QED
        BY <4>1, <4>2, <4>3
    <3>3. CASE procs[p].phase # "disposed" /\ ~(raw.start.pc = "launching" /\ raw.start.proc = p)
      <4>1. PICK t : t = ExitEvent(s, p) /\ Becomes(t)
        BY <2>7, <3>3
      <4>2. Starting(s.raw)
        BY <1>1, <2>6, SoundStarting
      <4>3. Exited(s, p, t)
        BY <2>6, <4>1, <4>2, ExitEventDoes
      <4>4. Awaits(s, t)
        BY <2>6, <4>3, ExitAwaits
      <4> QED
        BY <4>1, <4>3, <4>4 DEF Exited
    <3> QED
      BY <3>1, <3>2, <3>3
  <2>9. State' = t
    BY <2>8, BecomesState
  <2>10. Awaits(State, t)
    BY <1>1, <2>6, <2>8 DEF Awaits
  <2>11. owner' = owner
    BY <1>7 DEF ProcessExits
  <2> QED
    BY <1>0, <2>9, <2>10, <2>11, OwnerKeeps
<1>8. ASSUME NEW p \in Processes, Kill(p) PROVE AwaitedInv'
  <2>1. p \in DOMAIN State.procs /\ procs[p] \in ProcessType
    BY <1>1, ProcessTypes
  <2>2. PICK e, s : /\ e = [procs[p] EXCEPT !.phase = "killed"]
                    /\ s = [State EXCEPT !.procs = [State.procs EXCEPT ![p] = e]]
    OBVIOUS
  <2>3. e \in ProcessType
    BY <2>1, <2>2 DEF ProcessType
  <2>4. Reaches(State, p, e, s)
    BY <1>1, <2>1, <2>2, <2>3, ProcessChanges
  <2>5. s = [State EXCEPT !.procs[p].phase = "killed"]
    BY <1>1, <2>1, <2>2 DEF States
  <2>6. s \in States /\ s.raw = raw /\ Len(s.procs) = Len(procs) /\ p \in 1..Len(s.procs)
        /\ p \in DOMAIN s.procs
    BY <1>1, <2>1, <2>4, LenProperties DEF Reaches, States
  <2>7. Becomes(IF procs[p].exited THEN s ELSE ExitEvent(s, p))
    BY <1>8, <2>5 DEF Kill
  <2>8. PICK t : Becomes(t) /\ t \in States /\ Awaits(s, t)
    <3>1. CASE procs[p].exited
      <4>1. Awaits(s, s)
        BY <1>1, <2>6 DEF Awaits
      <4> QED
        BY <2>6, <2>7, <3>1, <4>1
    <3>2. CASE ~procs[p].exited
      <4>1. PICK t : t = ExitEvent(s, p) /\ Becomes(t)
        BY <2>7, <3>2
      <4>2. Starting(s.raw)
        BY <1>1, <2>6, SoundStarting
      <4>3. Exited(s, p, t)
        BY <2>6, <4>1, <4>2, ExitEventDoes
      <4>4. Awaits(s, t)
        BY <2>6, <4>3, ExitAwaits
      <4> QED
        BY <4>1, <4>3, <4>4 DEF Exited
    <3> QED
      BY <3>1, <3>2
  <2>9. State' = t
    BY <2>8, BecomesState
  <2>10. Awaits(State, t)
    BY <1>1, <2>6, <2>8 DEF Awaits
  <2>11. owner' = owner
    BY <1>8 DEF Kill
  <2> QED
    BY <1>0, <2>9, <2>10, <2>11, OwnerKeeps
<1>9. ASSUME NEW p \in Processes, ProcessDisposed(p) PROVE AwaitedInv'
  <2>1. procs' = [procs EXCEPT ![p].phase = "disposed"] /\ owner' = owner
    BY <1>1, <1>9 DEF ProcessDisposed, Becomes, FinishShutdown, State
  <2>2. raw'.awaiting = raw.awaiting \ {p}
    BY <1>1, <1>9 DEF ProcessDisposed, Becomes, FinishShutdown, State, RawType
  <2>3. PICK q : q = [procs[p] EXCEPT !.phase = "disposed"]
    OBVIOUS
  <2>4. q \in ProcessType /\ p \in 1..Len(procs)
    BY <1>1, <2>3, ProcessTypes DEF ProcessType, Processes
  <2>5. procs' = [procs EXCEPT ![p] = q]
    BY <2>1, <2>3
  <2>6. Len(procs') = Len(procs)
    BY <1>1, <2>4, <2>5, ExceptSeq
  <2>7. Awaits(State, State')
    BY <1>1, <2>2, <2>6 DEF Awaits
  <2> QED
    BY <1>0, <2>1, <2>7, OwnerKeeps
<1>10. CASE StartThrew
  <2>1. PICK t, awaited : t = [State EXCEPT !.raw.start = Idle] /\ Release(t, awaited)
    BY <1>10 DEF StartThrew
  <2>2. Begins(State, Idle, t)
    BY <1>1, <2>1, StartChanges
  <2>3. State.raw.start.pc # "launching"
    BY <1>1, <1>10 DEF StartThrew
  <2>4. t \in States /\ Sound(t)
    BY <1>1, <2>2, <2>3, IdleSound DEF Begins
  <2>5. Len(t.procs) = Len(procs) /\ t.raw.awaiting \subseteq raw.awaiting
    BY <1>1, <2>2 DEF Begins, Stays
  <2> QED
    BY <1>0, <2>1, <2>4, <2>5, ReleaseAwaits
<1>11. CASE CancelCreation
  <2>1. PICK s, t : s \in States /\ s = State /\ t = CancelStart(s) /\ Release(t, TRUE)
    BY <1>1, <1>11 DEF CancelCreation
  <2>2. /\ t \in States /\ t.open = s.open /\ Kept(s.raw, t.raw) /\ Stays(s.raw, t.raw)
        /\ t.raw.start.pc = CancelledAt(s.raw.start.pc)
        /\ Disposes(s.procs, t.procs, Cancelled(s.raw))
    <3>1. s.raw.start.pc = "connecting" => s.raw.process # None
      BY <1>1, <2>1 DEF Sound
    <3> QED
      BY <2>1, <3>1, CancelStartDoes
  <2>3. Failed(s, t)
    BY <2>2, DisposesStops DEF Failed
  <2>4. Sound(t)
    BY <1>1, <2>1, <2>3, FailedSound
  <2>5. Len(t.procs) = Len(procs) /\ t.raw.awaiting \subseteq raw.awaiting
    BY <1>1, <2>1, <2>2 DEF Disposes, Stays
  <2> QED
    BY <1>0, <2>1, <2>2, <2>4, <2>5, ReleaseAwaits
<1>12. CASE DisposeSession
  <2>1. Release(State, FALSE)
    BY <1>12 DEF DisposeSession
  <2> QED
    BY <1>0, <1>1, <2>1, ReleaseAwaits
<1>13. CASE Restart
  <2>1. PICK s, u :
           /\ s \in States /\ s = State
           /\ u = [s EXCEPT !.raw = [Cleared(@) EXCEPT !.isRestarting = TRUE, !.process = None,
                                                       !.realDisposed = TRUE, !.start = Launching],
                            !.open = @ \ {s.raw.socket}]
           /\ Becomes(IF s.raw.process = None THEN u ELSE DisposeProcess(u, s.raw.process))
    BY <1>1, <1>13 DEF Restart
  <2>2. u \in States /\ u.procs = procs /\ u.raw.awaiting = raw.awaiting
    <3>1. Restarted(s, u)
      BY <1>1, <2>1, RestartClears
    <3> QED
      BY <1>1, <2>1, <3>1 DEF Restarted
  <2>3. Len(procs') = Len(procs) /\ raw' = u.raw
    <3>1. CASE s.raw.process = None
      BY <2>1, <2>2, <3>1 DEF Becomes
    <3>2. CASE s.raw.process # None
      <4>1. s.raw.process \in DOMAIN u.procs
        BY <1>1, <2>1, <2>2, <3>2 DEF States
      <4>2. PICK t : t = DisposeProcess(u, s.raw.process) /\ procs' = t.procs /\ raw' = t.raw
        BY <2>1, <3>2 DEF Becomes
      <4>3. /\ t \in States /\ t.raw = u.raw /\ t.open = u.open
            /\ Disposes(u.procs, t.procs, {s.raw.process})
        BY <2>2, <4>1, <4>2, DisposeProcessDoes
      <4> QED
        BY <2>2, <4>2, <4>3 DEF Disposes
    <3> QED
      BY <3>1, <3>2
  <2>4. Awaits(State, State')
    BY <1>1, <2>2, <2>3 DEF Awaits
  <2>5. owner'.awaits = owner.awaits
    BY <1>2, <1>13 DEF Restart
  <2> QED
    BY <1>0, <2>4, <2>5, OwnerKeeps
<1>14. CASE DisposeConnection
  <2>1. owner'.awaits = owner.awaits
    BY <1>2, <1>14 DEF DisposeConnection
  <2>2. CASE raw.isDisposed \/ raw.realDisposed \/ raw.isDisposing
    <3>1. raw' = raw /\ procs' = procs
      BY <1>14, <2>2 DEF DisposeConnection
    <3> QED
      BY <1>3, <2>1, <3>1
  <2>3. CASE ~(raw.isDisposed \/ raw.realDisposed \/ raw.isDisposing)
    <3>1. PICK s \in States : s = State
      BY <1>1
    <3>2. PICK u, t, returned :
             /\ u = [s EXCEPT !.raw.isDisposing = TRUE] /\ t = Shutdown(u)
             /\ Becomes([t EXCEPT !.raw.isDisposed = @ \/ returned])
      BY <1>14, <2>3, <3>1 DEF DisposeConnection
    <3>3. Flagged(s, u)
      BY <3>2, FlagChanges
    <3>4. u \in States /\ Sound(u) /\ u.procs = procs /\ u.raw.awaiting = raw.awaiting
      BY <1>1, <3>1, <3>3, FlaggedStays DEF Flagged
    <3>5. t \in States /\ Awaits(u, t)
      BY <3>2, <3>4, ShutdownAwaits, ShutdownSound
    <3>6. procs' = t.procs /\ raw'.awaiting = t.raw.awaiting
      BY <3>2, <3>5 DEF Becomes, States, RawType
    <3>7. Awaits(State, State')
      BY <1>1, <3>4, <3>5, <3>6 DEF Awaits
    <3> QED
      BY <1>0, <2>1, <3>7, OwnerKeeps
  <2> QED
    BY <2>2, <2>3
<1>15. CASE Launched \/ Connected \/ CreateSession \/ Started \/ StartIgnored
  <2>1. procs' = procs
    BY <1>15 DEF Launched, Connected, CreateSession, Started, StartIgnored
  <2>2. raw'.awaiting = raw.awaiting
    BY <1>1, <1>15 DEF Launched, Connected, CreateSession, Started, StartIgnored, RawType
  <2>3. owner'.awaits = owner.awaits
    BY <1>2, <1>15 DEF Launched, Connected, CreateSession, Started, StartIgnored
  <2> QED
    BY <1>3, <2>1, <2>2, <2>3
<1>16. CASE UNCHANGED vars
  BY <1>3, <1>16 DEF vars
<1> QED
  BY <1>4, <1>5, <1>6, <1>7, <1>8, <1>9, <1>10, <1>11, <1>12, <1>13, <1>14, <1>15, <1>16 DEF Next

\* The types of the connection: what it names, and what is awaited, is a process that was
\* spawned.
THEOREM RawTypeCorrect ==
    ASSUME None \notin Nat
    PROVE  Init /\ [][Next]_vars => []TypeOK
<1>1. Init => RawInv /\ AwaitedInv
  <2> SUFFICES ASSUME Init PROVE RawInv /\ AwaitedInv
    OBVIOUS
  <2>1. raw.awaiting = {} /\ owner.awaits = None
    BY DEF Init
  <2> QED
    BY <2>1, RawInit DEF AwaitedInv
<1>2. RawInv /\ AwaitedInv /\ [Next]_vars => (RawInv /\ AwaitedInv)'
  BY RawStep, AwaitedStep
<1>3. RawInv /\ AwaitedInv => TypeOK
  <2> SUFFICES ASSUME RawInv, AwaitedInv PROVE TypeOK
    OBVIOUS
  <2>1. /\ State \in States /\ owner \in [phase : Phases, awaits : Ids]
    BY DEF RawInv, Inv
  <2>2. /\ raw.start \in StartType /\ procs \in Seq(ProcessType)
        /\ {raw.process, raw.hooked, raw.socket, raw.start.proc} \subseteq 1..Len(procs) \cup {None}
        /\ DOMAIN procs = 1..Len(procs)
    BY <2>1, StateTypes
  <2>3. open \subseteq DOMAIN procs
    <3>1. open \subseteq Nat
      BY <2>1, StateTypes
    <3>2. open \subseteq {raw.socket}
      BY StateFields DEF RawInv, Inv, Sound
    <3> QED
      BY <2>2, <3>1, <3>2
  <2>4. raw.start.pc \in {"idle", "launching", "connecting", "failing", "resolved", "rejected"}
    BY <2>2 DEF StartType
  <2>5. owner.phase \in {"none", "creating", "up", "restarting", "releasing", "released"}
    BY <2>1 DEF Phases
  <2>6. raw.awaiting \subseteq DOMAIN procs /\ owner.awaits \in DOMAIN procs \cup {None}
    BY <2>2 DEF AwaitedInv
  <2> QED
    BY <2>2, <2>3, <2>4, <2>5, <2>6 DEF TypeOK, Processes, ProcessType
<1> QED
  BY <1>1, <1>2, <1>3, PTL

=============================================================================

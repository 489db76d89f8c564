--------------------------- MODULE KernelProvider ---------------------------
(***************************************************************************)
(* The kernels of notebooks: KernelProvider (src/kernels/kernelProvider)   *)
(* and AsyncDisposableRegistry, which disposes them when the extension is  *)
(* deactivated.  A kernel is seen through dispose(): it runs up to its     *)
(* first await at once, fires onDisposed, and returns when its session is  *)
(* closed.                                                                 *)
(***************************************************************************)
EXTENDS Integers, Sequences, FiniteSets, FiniteSetsExt

CONSTANTS
    Notebooks,
    Connections,   \* kernel connections, by the id of their metadata
    Remote,        \* those of a remote server
    MaxKernels,    \* bound: kernels created
    None

VARIABLES
    open,        \* workspace.notebookDocuments
    kernels,     \* the kernels created, with their notebook and connection
    phase,       \* "live", "disposing", "disposed" (onDisposed was fired) or "closed"
    byNotebook,  \* kernelsByNotebook
    byId,        \* kernelsById
    pending,     \* pendingDisposables
    removed,     \* history: kernels whose server was removed
    registry,    \* AsyncDisposableRegistry.dispose: "new", "awaiting" or "returned"
    awaited      \* the kernels it awaits

vars == <<open, kernels, phase, byNotebook, byId, pending, removed, registry, awaited>>

Ids == DOMAIN kernels

Init ==
    /\ open = Notebooks
    /\ kernels = <<>>
    /\ phase = <<>>
    /\ byNotebook = [n \in Notebooks |-> None]
    /\ byId = {}
    /\ pending = {}
    /\ removed = {}
    /\ registry = "new"
    /\ awaited = {}

\* The listener of deleteMappingIfKernelIsDisposed, for kernels whose onDisposed is fired
\* while the maps are as given.
Unmapped(map, gone) == [n \in Notebooks |-> IF map[n] \in gone THEN None ELSE map[n]]

\* Mutant: only the notebook forgets its kernel.
OnDisposedMutant(map, ids, waiting, gone) ==
    /\ byNotebook' = Unmapped(map, gone)
    /\ byId' = ids
    /\ pending' = waiting \ gone

OnDisposed(map, ids, waiting, gone) ==
    /\ byNotebook' = Unmapped(map, gone)
    /\ byId' = ids \ {k \in gone : \E n \in Notebooks : map[n] = k}
    /\ pending' = waiting \ gone

\* Kernel.dispose up to its first await: it awaits the promise of its session, or there is
\* none and onDisposed is fired at once.
Disposing(ks, gone) ==
    phase' = [k \in Ids |-> CASE k \notin ks \/ phase[k] # "live" -> phase[k]
                              [] k \in ks /\ phase[k] = "live" /\ k \in gone -> "disposed"
                              [] OTHER -> "disposing"]

Gone(ks) == SUBSET {k \in ks : phase[k] = "live"}

\* disposeOldKernel
Old(n) == IF byNotebook[n] = None THEN {} ELSE {byNotebook[n]}

DisposeOldKernel(n) ==
    \E gone \in Gone(Old(n)) :
        /\ Disposing(Old(n), gone)
        /\ OnDisposed([byNotebook EXCEPT ![n] = None], byId \ Old(n), pending \cup Old(n), gone)

\* The new kernel takes the place of the old one.
Replace(n, c) ==
    LET new == Len(kernels) + 1
        old == Old(n)
    IN  /\ kernels' = Append(kernels, [notebook |-> n, connection |-> c])
        /\ \E gone \in Gone(old) :
              /\ phase' = [k \in 1..new |->
                              CASE k = new -> "live"
                                [] k \in old /\ phase[k] = "live" ->
                                      IF k \in gone THEN "disposed" ELSE "disposing"
                                [] OTHER -> phase[k]]
              /\ pending' = (pending \cup old) \ gone
        /\ byNotebook' = [byNotebook EXCEPT ![n] = new]
        /\ byId' = (byId \ old) \cup {new}

\* Mutant: the old kernel is not disposed.
GetOrCreateMutant(n, c) ==
    /\ n \in open
    /\ Len(kernels) < MaxKernels
    /\ registry = "new"
    /\ byNotebook[n] # None => kernels[byNotebook[n]].connection # c
    /\ kernels' = Append(kernels, [notebook |-> n, connection |-> c])
    /\ phase' = Append(phase, "live")
    /\ byNotebook' = [byNotebook EXCEPT ![n] = Len(kernels) + 1]
    /\ byId' = (byId \ Old(n)) \cup {Len(kernels) + 1}
    /\ UNCHANGED <<open, pending, removed, registry, awaited>>

\* getOrCreate, when the notebook has no kernel of this connection.  Bound: none is created
\* once the extension is being deactivated.
GetOrCreate(n, c) ==
    /\ n \in open
    /\ Len(kernels) < MaxKernels
    /\ registry = "new"
    /\ byNotebook[n] # None => kernels[byNotebook[n]].connection # c
    /\ Replace(n, c)
    /\ UNCHANGED <<open, removed, registry, awaited>>

NotebookClosed(n) ==
    /\ n \in open
    /\ open' = open \ {n}
    /\ DisposeOldKernel(n)
    /\ UNCHANGED <<kernels, removed, registry, awaited>>

\* dispose() called by others: a monitor, the API, the controller.
DisposeKernel(k) ==
    /\ phase[k] = "live"
    /\ \E gone \in Gone({k}) :
          /\ Disposing({k}, gone)
          /\ OnDisposed(byNotebook, byId, pending, gone)
    /\ UNCHANGED <<open, kernels, removed, registry, awaited>>

\* The promise of the session has settled.
KernelDisposed(k) ==
    /\ phase[k] = "disposing"
    /\ phase' = [phase EXCEPT ![k] = "disposed"]
    /\ OnDisposed(byNotebook, byId, pending, {k})
    /\ UNCHANGED <<open, kernels, removed, registry, awaited>>

\* The session is closed and dispose() returns.
KernelClosed(k) ==
    /\ phase[k] = "disposed"
    /\ phase' = [phase EXCEPT ![k] = "closed"]
    /\ pending' = pending \ {k}
    /\ UNCHANGED <<open, kernels, byNotebook, byId, removed, registry, awaited>>

\* handleServerRemoval: the kernels of open notebooks are forgotten, not disposed.
ServerRemoved ==
    LET gone == {k \in Ids : /\ kernels[k].connection \in Remote
                             /\ \E n \in open : byNotebook[n] = k}
    IN  /\ gone # {}
        /\ byNotebook' = Unmapped(byNotebook, gone)
        /\ byId' = byId \ gone
        /\ removed' = removed \cup gone
        /\ UNCHANGED <<open, kernels, phase, pending, registry, awaited>>

\* Mutant: the registry holds the provider only, which awaits pendingDisposables and then
\* the kernels of open notebooks.
RegistryDisposeMutant ==
    /\ registry = "new"
    /\ registry' = "awaiting"
    /\ awaited' = {byNotebook[n] : n \in open} \ {None}
    /\ \E gone \in Gone(awaited') :
          /\ Disposing(awaited', gone)
          /\ OnDisposed(byNotebook, byId, {}, gone)
    /\ UNCHANGED <<open, kernels, removed>>

\* AsyncDisposableRegistry.dispose: the provider, which is first in the list and clears its
\* pendingDisposables, and every kernel that was created.
RegistryDispose ==
    /\ registry = "new"
    /\ registry' = "awaiting"
    /\ awaited' = Ids
    /\ \E gone \in Gone(Ids) :
          /\ Disposing(Ids, gone)
          /\ OnDisposed(byNotebook, byId, {}, gone)
    /\ UNCHANGED <<open, kernels, removed>>

RegistryDisposed ==
    /\ registry = "awaiting"
    /\ \A k \in awaited : phase[k] = "closed"
    /\ registry' = "returned"
    /\ UNCHANGED <<open, kernels, phase, byNotebook, byId, pending, removed, awaited>>

Next ==
    \/ \E n \in Notebooks : NotebookClosed(n) \/ \E c \in Connections : GetOrCreate(n, c)
    \/ \E k \in Ids : DisposeKernel(k) \/ KernelDisposed(k) \/ KernelClosed(k)
    \/ ServerRemoved
    \/ RegistryDispose
    \/ RegistryDisposed

Spec == Init /\ [][Next]_vars

-----------------------------------------------------------------------------
(* Properties *)

TypeOK ==
    /\ open \subseteq Notebooks
    /\ phase \in [Ids -> {"live", "disposing", "disposed", "closed"}]
    /\ byNotebook \in [Notebooks -> Ids \cup {None}]
    /\ byId \cup pending \cup removed \cup awaited \subseteq Ids
    /\ registry \in {"new", "awaiting", "returned"}

\* kernelsByNotebook and kernelsById hold the same kernels, none of which is gone, whichever
\* order kernels are replaced, disposed, lost with their server or closed with their notebook.
MapsAgree ==
    /\ byId = {byNotebook[n] : n \in Notebooks} \ {None}
    /\ \A k \in byId : phase[k] \in {"live", "disposing"}
    /\ \A n \in Notebooks : byNotebook[n] # None => kernels[byNotebook[n]].notebook = n

\* A kernel that is not being disposed is the kernel of its notebook, or its server was
\* removed: a kernel that was replaced, or whose notebook is closed, does not live on.
NoOrphan ==
    \A k \in Ids : phase[k] = "live" =>
        k \in removed \/ (byNotebook[kernels[k].notebook] = k /\ kernels[k].notebook \in open)

\* When the extension's deactivation returns every session is closed, although the
\* provider's dispose() awaits kernels instead of their disposals and does not know of those
\* whose server was removed.
DeactivationWaits == registry = "returned" => \A k \in Ids : phase[k] = "closed"
=============================================================================

----------------------------- MODULE HintsCache -----------------------------
(***************************************************************************)
(* The inlay-hint cache (eventb-lsp, inlay_hints.rs) over the buffer store *)
(* of DocumentStore.  A hint list is computed on a blocking thread from    *)
(* every file of a document's dependency closure, the open buffer when     *)
(* there is one and the file on disk otherwise, and is kept per URI with   *)
(* the store's revision counter as its only stamp.  The server task looks  *)
(* the cache up between two handlers, so never in the middle of an open,   *)
(* change or close; computations overlap all three.                        *)
(*                                                                         *)
(* A computation takes each file of the closure in one step: what it gets  *)
(* was live as the read returned (ReadsAreFresh of DocumentStore).  The    *)
(* closure of a document is a constant here.                               *)
(***************************************************************************)
EXTENDS DocumentStore

CONSTANTS
    Worker,         \* blocking threads
    Closure,        \* URI -> the URIs of its dependency closure, itself included
    MaxDisk,        \* bound on the writes to one file
    MaxConfig       \* bound on the configuration updates

ASSUME ClosureAssumption ==
    Closure \in [Uri -> SUBSET Uri] /\ \A u \in Uri : u \in Closure[u]
ASSUME MaxDiskAssumption == MaxDisk \in Nat

VARIABLES
    disk,           \* per URI: how often its file was written
    config,         \* how often the configuration was replaced (Arc identity)
    cache,          \* per URI: the CachedHints, or Null
    worker          \* per worker: the computation in progress

hintVars == << disk, config, cache, worker >>

WorkerIdle == [pc |-> "idle", uri |-> Null, config |-> 0, stamp |-> 0, view |-> << >>]

(* What a computation reads of one file: the parse of its open buffer, or    *)
(* the file as it is on disk.                                                *)
Source(w) == IF Live(w) # Null THEN [buffer |-> Live(w), disk |-> 0]
                               ELSE [buffer |-> Null, disk |-> disk[w]]

Sources == [buffer : Revision \cup {Null}, disk : 0 .. MaxDisk]
Views == UNION {[S -> Sources] : S \in SUBSET Uri}

HInit ==
    /\ Init
    /\ disk = [u \in Uri |-> 0]
    /\ config = 0
    /\ cache = [u \in Uri |-> Null]
    /\ worker = [w \in Worker |-> WorkerIdle]

(* cached_hints: the entry is served only under this stamp and this Arc.     *)
Hits(u) ==
    /\ cache[u] # Null
    /\ cache[u].stamp = next_revision
    /\ cache[u].config = config

ServerIdle == \A e \in Editor : editor[e].pc = "idle"

-----------------------------------------------------------------------------
(* inlay_hint: a hit is served inline, and a miss hands the computation to a *)
(* blocking thread.                                                          *)
Hit(u) ==
    /\ ServerIdle
    /\ Hits(u)
    /\ UNCHANGED << vars, hintVars >>

Miss(w, u) ==
    /\ ServerIdle
    /\ worker[w].pc = "idle"
    /\ ~ Hits(u)
    /\ worker' = [worker EXCEPT ![w] =
                    [WorkerIdle EXCEPT !.pc = "stamp", !.uri = u, !.config = config]]
    /\ UNCHANGED << vars, disk, config, cache >>

(* compute_hints reads the stamp before anything it computes from.           *)
Stamp(w) ==
    /\ worker[w].pc = "stamp"
    /\ worker' = [worker EXCEPT ![w].pc = "root", ![w].stamp = next_revision]
    /\ UNCHANGED << vars, disk, config, cache >>

(* The document itself must be open; otherwise the request answers None.     *)
ReadRoot(w) ==
    /\ worker[w].pc = "root"
    /\ LET u == worker[w].uri IN
       worker' = [worker EXCEPT ![w] =
                    IF Live(u) = Null THEN WorkerIdle
                    ELSE [@ EXCEPT !.pc = "closure",
                                   !.view = [x \in {u} |-> Source(x)]]]
    /\ UNCHANGED << vars, disk, config, cache >>

Unread(w) == Closure[worker[w].uri] \ DOMAIN worker[w].view

ReadDependency(w) ==
    /\ worker[w].pc = "closure"
    /\ \E d \in Unread(w) :
         worker' = [worker EXCEPT ![w].view =
                      [x \in DOMAIN @ \cup {d} |-> IF x = d THEN Source(d) ELSE @[x]]]
    /\ UNCHANGED << vars, disk, config, cache >>

(* Mutants of Store: the stamp is read after computing; a dependency of the  *)
(* closure may be left out.                                                  *)
StoreLateStamp(w) ==
    /\ worker[w].pc = "closure"
    /\ Unread(w) = {}
    /\ cache' = [cache EXCEPT ![worker[w].uri] =
                   [stamp |-> next_revision, config |-> worker[w].config,
                    view |-> worker[w].view]]
    /\ worker' = [worker EXCEPT ![w] = WorkerIdle]
    /\ UNCHANGED << vars, disk, config >>

Store(w) ==
    /\ worker[w].pc = "closure"
    /\ Unread(w) = {}
    /\ cache' = [cache EXCEPT ![worker[w].uri] =
                   [stamp |-> worker[w].stamp, config |-> worker[w].config,
                    view |-> worker[w].view]]
    /\ worker' = [worker EXCEPT ![w] = WorkerIdle]
    /\ UNCHANGED << vars, disk, config >>

-----------------------------------------------------------------------------
(* What changes the inputs of a computation.                                 *)

(* did_close evicts the entry of the document it has closed.                 *)
CloseAndEvict(e) ==
    /\ CloseBump(e)
    /\ cache' = [cache EXCEPT ![editor[e].uri] = Null]
    /\ UNCHANGED << disk, config, worker >>

(* Another program, or a save, writes a file.                                *)
DiskWrite(u) ==
    /\ disk[u] < MaxDisk
    /\ disk' = [disk EXCEPT ![u] = @ + 1]
    /\ UNCHANGED << vars, config, cache, worker >>

(* did_change_configuration swaps the whole configuration.                   *)
UpdateConfig ==
    /\ ServerIdle
    /\ config < MaxConfig
    /\ config' = config + 1
    /\ UNCHANGED << vars, disk, cache, worker >>

StoreStep(e) == EditorCall(e) \/ (EditorStep(e) /\ editor[e].pc # "bump")

WorkerStep(w) == Stamp(w) \/ ReadRoot(w) \/ ReadDependency(w) \/ Store(w)

HNext ==
    \/ \E e \in Editor : (StoreStep(e) /\ UNCHANGED hintVars) \/ CloseAndEvict(e)
    \/ \E u \in Uri : Hit(u)
    \/ \E w \in Worker, u \in Uri : Miss(w, u)
    \/ \E w \in Worker : WorkerStep(w)
    \/ \E u \in Uri : DiskWrite(u)
    \/ UpdateConfig

HSpec == HInit /\ [][HNext]_<< vars, hintVars >>

-----------------------------------------------------------------------------
(* Properties.                                                              *)

(* The entry's view of d is the buffer d has now; or d has been reopened     *)
(* under a revision drawn before the entry's stamp and not edited since.     *)
NotOutlived(u, d) ==
    \/ cache[u].view[d].buffer = Live(d)
    \/ /\ Live(d) # Null
       /\ Live(d) = documents[d]
       /\ documents[d] < cache[u].stamp

(* An entry that still hits outlived no edit and no close of any buffer of   *)
(* its closure: both advance the counter after the buffer has changed.       *)
HitsOutliveNoEditOrClose ==
    ServerIdle => \A u \in Uri : Hits(u) => \A d \in Closure[u] : NotOutlived(u, d)

(* "An edit landing mid-compute then invalidates the entry we store, never   *)
(* the other way around": what hits was computed from the buffers as they    *)
(* are now.  An open draws its revision before the buffer is in the map.     *)
(* The code does not keep it; no run checks it.                             *)
HitsMatchBuffers ==
    ServerIdle => \A u \in Uri : Hits(u) =>
        \A d \in Closure[u] : cache[u].view[d].buffer = Live(d)

(* "The closure's inputs are open buffers plus disk fallbacks, so any        *)
(* open/change/close is the moment inferred types can change": what hits was *)
(* computed from the closed files as they are on disk now.                   *)
(* The code does not keep it; no run checks it.                             *)
HitsMatchDisk ==
    ServerIdle => \A u \in Uri : Hits(u) =>
        \A d \in Closure[u] :
            cache[u].view[d].buffer = Null => cache[u].view[d].disk = disk[d]
=============================================================================

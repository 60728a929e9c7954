------------------------ MODULE DiagnosticsPipeline ------------------------
(***************************************************************************)
(* How the language server (eventb-lsp, server.rs) turns buffers into      *)
(* published diagnostics.  Notification handlers share one task and yield  *)
(* to each other only where they await; debounced analyses are tasks of    *)
(* their own and run in parallel with it.  An analysis takes a snapshot of *)
(* the buffer, queues for its URI's lock, commits, derives the diagnostics *)
(* and publishes them.  The lock lives in a map entry that is dropped when *)
(* nobody else holds it.                                                   *)
(*                                                                         *)
(* The buffer store is atomic here, as DocumentStore implements it: a      *)
(* buffer is its revision, and 0 stands for a document that is not open.   *)
(* Diagnostics are the inputs they are computed from: the revision, the    *)
(* state whose changes republish every open document (configuration, proof *)
(* status, animation findings, reported files), the revision the proof     *)
(* obligations were computed from, and the workspace, which other documents*)
(* and scans move without republishing this one.                           *)
(***************************************************************************)
EXTENDS Naturals, FiniteSets, Sequences

CONSTANTS
    Uri,            \* document URIs
    Task,           \* handlers and spawned tasks in progress at once
    Lock,           \* Arc<Mutex> allocations
    MaxRevision,    \* bound on the revisions drawn
    MaxChanges,     \* bound on the changes of the shared inputs and the scans
    Disk,           \* the saved layers of the workspace, among what moves
    Null

ASSUME TaskAssumption == IsFiniteSet(Task)
ASSUME LockAssumption == IsFiniteSet(Lock) /\ Cardinality(Lock) >= Cardinality(Task)
ASSUME BoundsAssumption == MaxRevision \in Nat /\ MaxChanges \in Nat
ASSUME NullAssumption == Null \notin Uri \cup Task \cup Lock
ASSUME DiskAssumption == Disk \notin Uri

VARIABLES
    client_open,        \* documents the editor has open
    buffer,             \* URI -> the revision of its open buffer, or 0
    next_revision,      \* the last revision drawn
    shared,             \* how often a shared input changed
    proof_obligations,  \* URI -> the revision its list is for, or 0 for none
    overlay,            \* URI -> the revision whose components the graph holds, or 0
    saved,              \* how often a scan changed the saved layers of the graph
    moved,              \* URI -> what moved since it was last touched (history)
    published,          \* URI -> the last diagnostics sent
    diagnostic_locks,   \* URI -> its entry in the lock map, or Null
    queue,              \* lock -> its holder and the tasks waiting, in order
    task,               \* per task: what it is doing
    server              \* the handler that runs and has not yielded yet, or Null

editorVars == << client_open, buffer, next_revision >>
inputVars == << shared, proof_obligations >>
graphVars == << overlay, saved, moved >>
lockVars == << diagnostic_locks, queue >>
vars == << editorVars, inputVars, graphVars, published, lockVars, task, server >>

(* What diagnostics read, besides their own text.                            *)
Nothing == [shared |-> 0, obligations |-> 0, saved |-> 0, documents |-> [u \in Uri |-> << 0, 0 >>]]
Inputs(u) == [shared |-> shared, obligations |-> proof_obligations[u], saved |-> saved,
              documents |-> [v \in Uri |-> << buffer[v], overlay[v] >>]]

Idle == [pc |-> "idle", kind |-> "none", uri |-> Null, doc |-> 0, lock |-> Null,
         sources |-> FALSE, seen |-> Nothing, todo |-> {}]

Clear == [revision |-> 0, seen |-> Nothing]

Init ==
    /\ client_open = [u \in Uri |-> FALSE]
    /\ buffer = [u \in Uri |-> 0]
    /\ next_revision = 0 /\ shared = 0 /\ saved = 0
    /\ proof_obligations = [u \in Uri |-> 0]
    /\ overlay = [u \in Uri |-> 0]
    /\ moved = [u \in Uri |-> {}]
    /\ published = [u \in Uri |-> Clear]
    /\ diagnostic_locks = [u \in Uri |-> Null]
    /\ queue = [l \in Lock |-> << >>]
    /\ task = [t \in Task |-> Idle]
    /\ server = Null

At(t, pc) == task[t].pc = pc
Goto(t, pc) == task' = [task EXCEPT ![t].pc = pc]

(* The handlers' task runs t, or t is not one of its handlers any more.      *)
MayRun(t) == server \in {Null, t}

(* A task that is done with a document; a republish goes on to the next one. *)
Done(t) == IF task[t].todo = {} THEN Idle
           ELSE [Idle EXCEPT !.pc = "next", !.todo = task[t].todo]
Yields(t) == server' = IF server = t THEN Null ELSE server

(* A document is touched when it is opened, edited, saved or republished;    *)
(* its buffer and its overlay move what the others read.                     *)
Touched(u) == moved' = [moved EXCEPT ![u] = {}]
Moved(u) == moved' = [v \in Uri |-> IF v = u THEN moved[v] ELSE moved[v] \cup {u}]

-----------------------------------------------------------------------------
(* Notifications.                                                           *)

Handler(t) == server = Null /\ At(t, "idle")

(* did_open awaits the registration of the URI before it stores the buffer.  *)
DidOpen(t, u) ==
    /\ Handler(t)
    /\ ~ client_open[u]
    /\ client_open' = [client_open EXCEPT ![u] = TRUE]
    /\ task' = [task EXCEPT ![t] = [Idle EXCEPT !.pc = "register", !.uri = u]]
    /\ UNCHANGED << buffer, next_revision, inputVars, graphVars, published, lockVars,
                    server >>

Draw(u) ==
    /\ next_revision < MaxRevision
    /\ next_revision' = next_revision + 1
    /\ buffer' = [buffer EXCEPT ![u] = next_revision + 1]
    /\ moved' = [v \in Uri |-> IF v = u THEN {} ELSE moved[v] \cup {u}]

StoreOpen(t) ==
    /\ At(t, "register") /\ server = Null
    /\ Draw(task[t].uri)
    /\ task' = [task EXCEPT ![t].pc = "analyze", ![t].kind = "analyze", ![t].sources = TRUE]
    /\ server' = t
    /\ UNCHANGED << client_open, inputVars, overlay, saved, published, lockVars >>

(* did_change: an edit of a buffer the store does not hold is dropped.       *)
Edit(t, u) ==
    /\ Handler(t)
    /\ client_open[u] /\ buffer[u] # 0
    /\ Draw(u)
    /\ UNCHANGED << client_open, inputVars, overlay, saved, published, lockVars >>

DidChangeAnalyze(t, u) ==
    /\ Edit(t, u)
    /\ task' = [task EXCEPT ![t] = [Idle EXCEPT !.pc = "analyze", !.kind = "analyze", !.uri = u]]
    /\ server' = t

DidChangeDebounce(t, u) ==
    /\ Edit(t, u)
    /\ task' = [task EXCEPT ![t] = [Idle EXCEPT !.pc = "sleep", !.kind = "analyze", !.uri = u,
                                                !.doc = next_revision + 1]]
    /\ UNCHANGED server

(* Mutant: a debounced analysis is dropped while the document's last one is  *)
(* still publishing.                                                         *)
WakeUnlessLocked(t) ==
    /\ At(t, "sleep")
    /\ task' = [task EXCEPT ![t] = IF /\ buffer[task[t].uri] = task[t].doc
                                      /\ diagnostic_locks[task[t].uri] = Null
                                   THEN [@ EXCEPT !.pc = "analyze"] ELSE Idle]
    /\ UNCHANGED << editorVars, inputVars, graphVars, published, lockVars, server >>

(* The debounced analysis bows out when its revision is not current.         *)
Wake(t) ==
    /\ At(t, "sleep")
    /\ task' = [task EXCEPT ![t] = IF buffer[task[t].uri] = task[t].doc
                                   THEN [@ EXCEPT !.pc = "analyze"] ELSE Idle]
    /\ UNCHANGED << editorVars, inputVars, graphVars, published, lockVars, server >>

DidSave(t, u) ==
    /\ Handler(t)
    /\ client_open[u] /\ buffer[u] # 0
    /\ task' = [task EXCEPT ![t] = [Idle EXCEPT !.pc = "analyze", !.kind = "analyze", !.uri = u,
                                                !.sources = TRUE]]
    /\ server' = t
    /\ Touched(u)
    /\ UNCHANGED << editorVars, inputVars, overlay, saved, published, lockVars >>

DidClose(t, u) ==
    /\ Handler(t)
    /\ client_open[u]
    /\ client_open' = [client_open EXCEPT ![u] = FALSE]
    /\ buffer' = [buffer EXCEPT ![u] = 0]
    /\ task' = [task EXCEPT ![t] = [Idle EXCEPT !.pc = "drop", !.kind = "clear", !.uri = u]]
    /\ server' = t
    /\ Moved(u)
    /\ UNCHANGED << next_revision, inputVars, overlay, saved, published, lockVars >>

(* The obligations, and the overlay that covered the saved file.  Nobody     *)
(* reads the obligations of a closed document in between.                    *)
DropDocument(t) ==
    /\ At(t, "drop")
    /\ proof_obligations' = [proof_obligations EXCEPT ![task[t].uri] = 0]
    /\ overlay' = [overlay EXCEPT ![task[t].uri] = 0]
    /\ Moved(task[t].uri)
    /\ Goto(t, "lock")
    /\ UNCHANGED << editorVars, shared, saved, published, lockVars, server >>

-----------------------------------------------------------------------------
(* Republishing, and obligations refreshed outside an analysis.             *)

(* At startup, or for a folder that is added: nothing is republished.        *)
ScanFolder ==
    /\ shared + saved < MaxChanges
    /\ saved' = saved + 1
    /\ moved' = [u \in Uri |-> moved[u] \cup {Disk}]
    /\ UNCHANGED << editorVars, inputVars, overlay, published, lockVars, task, server >>

ChangeShared(t) ==
    /\ At(t, "idle")
    /\ shared + saved < MaxChanges
    /\ shared' = shared + 1
    /\ Goto(t, "republish_all")
    /\ UNCHANGED << editorVars, proof_obligations, graphVars, published, lockVars, server >>

RepublishAll(t) ==
    /\ At(t, "republish_all")
    /\ LET uris == {u \in Uri : buffer[u] # 0} IN
       task' = [task EXCEPT ![t] = IF uris = {} THEN Idle
                                   ELSE [Idle EXCEPT !.pc = "next", !.todo = uris]]
    /\ UNCHANGED << editorVars, inputVars, graphVars, published, lockVars, server >>

RepublishNext(t) ==
    /\ At(t, "next")
    /\ \E u \in task[t].todo :
        /\ task' = [task EXCEPT ![t].pc = "analyze", ![t].kind = "republish",
                                ![t].uri = u, ![t].todo = @ \ {u}]
        /\ Touched(u)
    /\ UNCHANGED << editorVars, inputVars, overlay, saved, published, lockVars, server >>

(* A request of the client, or a proof saved outside the editor.             *)
RefreshObligations(t, u) ==
    /\ At(t, "idle")
    /\ buffer[u] # 0
    /\ task' = [task EXCEPT ![t] = [Idle EXCEPT !.pc = "refresh", !.uri = u, !.doc = buffer[u]]]
    /\ UNCHANGED << editorVars, inputVars, graphVars, published, lockVars, server >>

(* There may be no list to store, and nothing to republish when it is the    *)
(* one stored already.                                                       *)
NoRefresh(t) ==
    /\ At(t, "refresh")
    /\ task' = [task EXCEPT ![t] = Idle]
    /\ UNCHANGED << editorVars, inputVars, graphVars, published, lockVars, server >>

ApplyRefresh(t) ==
    /\ At(t, "refresh")
    /\ LET u == task[t].uri
           changed == proof_obligations[u] # task[t].doc
       IN /\ proof_obligations' = [proof_obligations EXCEPT ![u] = task[t].doc]
          /\ task' = [task EXCEPT ![t] =
                IF changed THEN [Idle EXCEPT !.pc = "analyze", !.kind = "republish", !.uri = u]
                ELSE Idle]
          /\ moved' = IF changed THEN [moved EXCEPT ![u] = {}] ELSE moved
    /\ UNCHANGED << editorVars, shared, overlay, saved, published, lockVars, server >>

-----------------------------------------------------------------------------
(* analyze and republish_diagnostics: the snapshot.                         *)

(* Mutant: the snapshot is tagged with the revision still to be drawn.       *)
BeginParseEarly(t) ==
    /\ At(t, "analyze") /\ buffer[task[t].uri] # 0
    /\ task' = [task EXCEPT ![t].pc = "parse", ![t].doc = next_revision + 1]
    /\ UNCHANGED << editorVars, inputVars, graphVars, published, lockVars, server >>

BeginParse(t) ==
    /\ At(t, "analyze") /\ buffer[task[t].uri] # 0
    /\ task' = [task EXCEPT ![t].pc = "parse", ![t].doc = buffer[task[t].uri]]
    /\ UNCHANGED << editorVars, inputVars, graphVars, published, lockVars, server >>

(* An edit that lands during the parse has its own analysis.                 *)
EndParse(t) ==
    /\ At(t, "parse") /\ buffer[task[t].uri] = task[t].doc
    /\ Goto(t, "lock")
    /\ UNCHANGED << editorVars, inputVars, graphVars, published, lockVars, server >>

NoSnapshot(t) ==
    /\ \/ At(t, "analyze") /\ buffer[task[t].uri] = 0
       \/ At(t, "parse") /\ buffer[task[t].uri] # task[t].doc
    /\ task' = [task EXCEPT ![t] = Done(t)]
    /\ Yields(t)
    /\ UNCHANGED << editorVars, inputVars, graphVars, published, lockVars >>

-----------------------------------------------------------------------------
(* The lock of a URI.                                                       *)

Owners(l) == {t \in Task : task[t].lock = l}
Free == {l \in Lock : Owners(l) = {} /\ \A u \in Uri : diagnostic_locks[u] # l}

(* diagnostic_lock clones the entry's Arc, making the entry if need be.      *)
DiagnosticLock(t) ==
    /\ At(t, "lock")
    /\ LET u == task[t].uri IN
       \E l \in IF diagnostic_locks[u] # Null THEN {diagnostic_locks[u]} ELSE Free :
         /\ diagnostic_locks' = [diagnostic_locks EXCEPT ![u] = l]
         /\ task' = [task EXCEPT ![t].pc = "enqueue", ![t].lock = l]
    /\ UNCHANGED << editorVars, inputVars, graphVars, published, queue, server >>

(* tokio's mutex is fair: a handler yields once it is in the queue.          *)
Enqueue(t) ==
    /\ At(t, "enqueue")
    /\ queue' = [queue EXCEPT ![task[t].lock] = Append(@, t)]
    /\ Goto(t, "wait")
    /\ Yields(t)
    /\ UNCHANGED << editorVars, inputVars, graphVars, published, diagnostic_locks >>

Holds(t) == task[t].lock # Null /\ queue[task[t].lock] # << >> /\ Head(queue[task[t].lock]) = t

Acquire(t) ==
    /\ At(t, "wait") /\ Holds(t)
    /\ Goto(t, IF task[t].kind = "clear" THEN "publish" ELSE "commit")
    /\ UNCHANGED << editorVars, inputVars, graphVars, published, lockVars, server >>

Unlock(t) ==
    /\ At(t, "unlock")
    /\ queue' = [queue EXCEPT ![task[t].lock] = Tail(@)]
    /\ Goto(t, "evict")
    /\ UNCHANGED << editorVars, inputVars, graphVars, published, diagnostic_locks, server >>

(* Mutant: the entry goes although another task holds its Arc.               *)
EvictShared(t) ==
    /\ At(t, "evict")
    /\ diagnostic_locks' = [diagnostic_locks EXCEPT ![task[t].uri] =
                              IF @ = task[t].lock THEN Null ELSE @]
    /\ Goto(t, "return")
    /\ UNCHANGED << editorVars, inputVars, graphVars, published, queue, server >>

(* evict_diagnostic_lock: the entry goes when the map and this task hold the *)
(* only two references to it.  This task's own goes when it returns, so two  *)
(* tasks that evict together may leave the entry for the next one to use.    *)
EvictDiagnosticLock(t) ==
    /\ At(t, "evict")
    /\ diagnostic_locks' = [diagnostic_locks EXCEPT ![task[t].uri] =
                              IF @ = task[t].lock /\ Owners(@) = {t} THEN Null ELSE @]
    /\ Goto(t, "return")
    /\ UNCHANGED << editorVars, inputVars, graphVars, published, queue, server >>

Return(t) ==
    /\ At(t, "return")
    /\ task' = [task EXCEPT ![t] = Done(t)]
    /\ UNCHANGED << editorVars, inputVars, graphVars, published, lockVars, server >>

-----------------------------------------------------------------------------
(* Under the lock.                                                          *)

Current(t) == buffer[task[t].uri] = task[t].doc

(* All that is left to do is to release the lock.                            *)
Leave(t) ==
    task' = [task EXCEPT ![t] = [Idle EXCEPT !.pc = "unlock", !.uri = task[t].uri,
                                             !.lock = task[t].lock, !.todo = task[t].todo]]

(* The snapshot commits its indexes only while it is the live one, and to    *)
(* republish commits none.                                                   *)
Commit(t) ==
    /\ At(t, "commit")
    /\ IF Current(t) THEN Goto(t, IF task[t].sources THEN "compute" ELSE "derive")
                     ELSE Leave(t)
    /\ IF Current(t) /\ task[t].kind = "analyze"
       THEN overlay' = [overlay EXCEPT ![task[t].uri] = task[t].doc] /\ Moved(task[t].uri)
       ELSE UNCHANGED << overlay, moved >>
    /\ UNCHANGED << editorVars, inputVars, saved, published, lockVars, server >>

(* compute_proof_obligations, back from the blocking pool: the list is       *)
(* stored for the snapshot it is about, or kept when there is none to store. *)
ApplyObligations(t) ==
    /\ At(t, "compute")
    /\ \/ proof_obligations' = [proof_obligations EXCEPT ![task[t].uri] = task[t].doc]
       \/ UNCHANGED proof_obligations
    /\ Goto(t, "derive")
    /\ UNCHANGED << editorVars, shared, graphVars, published, lockVars, server >>

DiagnosticsFor(t) ==
    /\ At(t, "derive")
    /\ task' = [task EXCEPT ![t].pc = "recheck", ![t].seen = Inputs(task[t].uri)]
    /\ UNCHANGED << editorVars, inputVars, graphVars, published, lockVars, server >>

Recheck(t) ==
    /\ At(t, "recheck")
    /\ IF Current(t) THEN Goto(t, "publish") ELSE Leave(t)
    /\ UNCHANGED << editorVars, inputVars, graphVars, published, lockVars, server >>

(* Awaited: an edit or a close may be handled before the message is sent.    *)
Publish(t) ==
    /\ At(t, "publish")
    /\ published' = [published EXCEPT ![task[t].uri] =
          IF task[t].kind = "clear" THEN Clear
          ELSE [revision |-> task[t].doc, seen |-> task[t].seen]]
    /\ Leave(t)
    /\ UNCHANGED << editorVars, inputVars, graphVars, lockVars, server >>

-----------------------------------------------------------------------------
Notification(t, u) ==
    \/ DidOpen(t, u) \/ DidChangeAnalyze(t, u) \/ DidChangeDebounce(t, u)
    \/ DidSave(t, u) \/ DidClose(t, u)

Proceed(t) ==
    \/ StoreOpen(t) \/ Wake(t) \/ DropDocument(t)
    \/ RepublishAll(t) \/ RepublishNext(t) \/ ApplyRefresh(t) \/ NoRefresh(t)
    \/ BeginParse(t) \/ EndParse(t) \/ NoSnapshot(t)
    \/ DiagnosticLock(t) \/ Enqueue(t) \/ Acquire(t) \/ Unlock(t) \/ EvictDiagnosticLock(t)
    \/ Return(t) \/ Commit(t) \/ ApplyObligations(t) \/ DiagnosticsFor(t) \/ Recheck(t) \/ Publish(t)

Next ==
    \/ \E t \in Task, u \in Uri : Notification(t, u) \/ RefreshObligations(t, u)
    \/ \E t \in Task : ChangeShared(t) \/ Proceed(t)
    \/ ScanFolder

Spec == Init /\ [][Next]_vars

(* Every task that can go on does: the runtime polls it, timers fire and the *)
(* blocking pool returns.  Notifications need not arrive.                    *)
FairSpec == Spec /\ \A t \in Task : WF_vars(Proceed(t))

-----------------------------------------------------------------------------
(* Properties.                                                              *)

Seen == [shared : 0 .. MaxChanges, obligations : 0 .. MaxRevision, saved : 0 .. MaxChanges,
         documents : [Uri -> (0 .. MaxRevision) \X (0 .. MaxRevision)]]

TypeOK ==
    /\ client_open \in [Uri -> BOOLEAN]
    /\ buffer \in [Uri -> 0 .. MaxRevision]
    /\ next_revision \in 0 .. MaxRevision
    /\ shared \in 0 .. MaxChanges
    /\ proof_obligations \in [Uri -> 0 .. MaxRevision]
    /\ overlay \in [Uri -> 0 .. MaxRevision] /\ saved \in 0 .. MaxChanges
    /\ moved \in [Uri -> SUBSET (Uri \cup {Disk})]
    /\ published \in [Uri -> [revision : 0 .. MaxRevision, seen : Seen]]
    /\ diagnostic_locks \in [Uri -> Lock \cup {Null}]
    /\ queue \in [Lock -> Seq(Task)]
    /\ server \in Task \cup {Null}
    /\ \A t \in Task :
        /\ task[t].uri \in Uri \cup {Null} /\ task[t].doc \in 0 .. MaxRevision
        /\ task[t].lock \in Lock \cup {Null} /\ task[t].todo \subseteq Uri

(* At most one task publishes for a URI at a time, though lock entries come  *)
(* and go.                                                                   *)
UnderLock(t) == task[t].pc \in {"commit", "compute", "derive", "recheck", "publish", "unlock"}
OnePublisher ==
    \A s, t \in Task :
        UnderLock(s) /\ UnderLock(t) /\ task[s].uri = task[t].uri => s = t

(* The client never sees diagnostics of an older revision after newer ones.  *)
NeverOlder ==
    [][\A u \in Uri : published'[u].revision # 0
                        => published'[u].revision >= published[u].revision]_vars

(* Once every task is done, a closed document shows nothing, and an open one *)
(* diagnostics of its last edit, under the shared inputs, its obligations    *)
(* and its own place in the graph as they are, and under the rest of the     *)
(* workspace as it is but for what has moved since the document was last     *)
(* touched: "a dependent open file isn't re-published until it is itself     *)
(* touched" (diagnostics_for), and not later either.                         *)
Quiet == \A t \in Task : At(t, "idle")
Latest(u, seen) ==
    /\ seen.shared = shared /\ seen.obligations = proof_obligations[u]
    /\ seen.saved = saved \/ Disk \in moved[u]
    /\ \A v \in Uri : seen.documents[v] = << buffer[v], overlay[v] >> \/ v \in moved[u] \ {u}
QuietShowsLatest ==
    Quiet => \A u \in Uri :
        IF buffer[u] = 0 THEN published[u] = Clear
        ELSE published[u].revision = buffer[u] /\ Latest(u, published[u].seen)

(* A document that moves on no more has its last revision reported.          *)
EditsAreReported ==
    \A u \in Uri : \/ []<>(buffer[u] = 0 \/ published[u].revision = buffer[u])
                   \/ []<><< buffer'[u] # buffer[u] >>_buffer

(* A document the editor has closed is not open in the server.  The code     *)
(* does not keep it; no run checks it.                                       *)
ClosedByEditorIsDropped ==
    Quiet => \A u \in Uri : ~ client_open[u] => buffer[u] = 0
=============================================================================

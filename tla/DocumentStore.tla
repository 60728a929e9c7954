---------------------------- MODULE DocumentStore ----------------------------
(***************************************************************************)
(* The language server's buffer store (eventb-lsp, document.rs): the map   *)
(* from URI to open document, the lazily filled parse cell of each buffer  *)
(* revision, and the commit guard diagnostics publish under.               *)
(*                                                                         *)
(* Editors run open, change and close.  Readers run parse_result, with or  *)
(* without its one retry, and then commit their snapshot through           *)
(* with_current_snapshot.  A step of this module is what the code does     *)
(* between two releases of a lock: one DashMap operation, one section      *)
(* under a document's RwLock, or one access to the revision counter.       *)
(*                                                                         *)
(* A document object (Arc<RwLock<Document>>) is named by the revision it   *)
(* was created with, and a parse cell (Arc<OnceLock<..>>) by the revision  *)
(* drawn beside it, so equality of names is Arc::ptr_eq.                   *)
(***************************************************************************)
EXTENDS Naturals, FiniteSets

CONSTANTS
    Uri,            \* document URIs
    Editor,         \* threads that may run open, change and close
    Reader,         \* threads that may run parse_result and commit
    Interactive,    \* those that serve a request and retry once
    Text,           \* buffer contents
    FileText,       \* those a document may be opened with
    TypedText,      \* those an edit may leave
    Version,        \* LSP versions a client may send
    MaxRevision,    \* bound on next_revision, for model checking
    Null            \* no object, no snapshot, no text

ASSUME MaxRevisionAssumption == MaxRevision \in Nat \ {0}
Revision == 1 .. MaxRevision
Document == [open : BOOLEAN, version : Version, text : Text,
             revision : Revision, parse : Revision]

ASSUME NullAssumption ==
    Null \notin Text \cup Version \cup Nat \cup Document
              \cup [version : Version, text : Text, id : Nat]

VARIABLES
    next_revision,  \* AtomicU64: the next revision to hand out
    documents,      \* DashMap: URI -> document object
    heap,           \* document object -> its current fields
    cell,           \* parse cell -> the text its ParsedDocument was made of
    editor,         \* per editor: its call in progress
    reader,         \* per reader: its call in progress
    overlay,        \* per URI: what the last commit wrote
    since           \* history, per reader: what was live since its call began

vars == << next_revision, documents, heap, cell, editor, reader, overlay, since >>
store == << next_revision, documents, heap >>

-----------------------------------------------------------------------------
(* What a call in progress remembers.                                       *)

EditorIdle == [pc |-> "idle", uri |-> Null, doc |-> Null, version |-> Null, text |-> Null]
ReaderIdle == [pc |-> "idle", uri |-> Null, doc |-> Null, parse |-> Null,
               text |-> Null, attempts |-> 1, attempt |-> 1]

EditorState ==
    [pc : {"idle", "insert", "retire", "edit", "flag", "remove", "bump"},
     uri : Uri \cup {Null}, doc : Revision \cup {Null},
     version : Version \cup {Null}, text : Text \cup {Null}]

ReaderState ==
    [pc : {"idle", "lookup", "read", "init", "parsing", "again", "recheck",
           "some", "commit"},
     uri : Uri \cup {Null}, doc : Revision \cup {Null},
     parse : Revision \cup {Null}, text : Text \cup {Null},
     attempts : 1 .. 2, attempt : 1 .. 2]

(* The cell of the buffer a caller of document(uri) would find open, if any. *)
LiveIn(docs, objects, u) ==
    IF docs[u] # Null /\ objects[docs[u]].open THEN objects[docs[u]].parse ELSE Null

Live(u) == LiveIn(documents, heap, u)

(* The parse_result calls in progress witness what a step makes live.        *)
Resolving == {"lookup", "read", "init", "parsing", "again", "recheck"}

Witness ==
    since' = [r \in Reader |->
                since[r] \cup IF reader[r].pc \in Resolving
                              THEN {LiveIn(documents', heap', reader[r].uri)} ELSE {}]

Init ==
    /\ next_revision = 1
    /\ documents = [u \in Uri |-> Null]
    /\ heap = [d \in Revision |-> Null]
    /\ cell = [c \in Revision |-> Null]
    /\ editor = [e \in Editor |-> EditorIdle]
    /\ reader = [r \in Reader |-> ReaderIdle]
    /\ overlay = [u \in Uri |-> Null]
    /\ since = [r \in Reader |-> {}]

-----------------------------------------------------------------------------
(* open: draw a revision, insert the new object, retire the one it replaced. *)

Open(e, u, v, t) ==
    /\ editor[e].pc = "idle"
    /\ t \in FileText
    /\ next_revision < MaxRevision
    /\ next_revision' = next_revision + 1
    /\ heap' = [heap EXCEPT ![next_revision] =
                  [open |-> TRUE, version |-> v, text |-> t,
                   revision |-> next_revision, parse |-> next_revision]]
    /\ editor' = [editor EXCEPT ![e] =
                    [EditorIdle EXCEPT !.pc = "insert", !.uri = u, !.doc = next_revision]]
    /\ UNCHANGED << documents, cell, reader, overlay, since >>

OpenInsert(e) ==
    /\ editor[e].pc = "insert"
    /\ LET u == editor[e].uri IN
       /\ documents' = [documents EXCEPT ![u] = editor[e].doc]
       /\ editor' = [editor EXCEPT ![e] =
                       IF documents[u] = Null THEN EditorIdle
                       ELSE [@ EXCEPT !.pc = "retire", !.doc = documents[u]]]
    /\ UNCHANGED << next_revision, heap, cell, reader, overlay >>
    /\ Witness

OpenRetire(e) ==
    /\ editor[e].pc = "retire"
    /\ heap' = [heap EXCEPT ![editor[e].doc].open = FALSE]
    /\ editor' = [editor EXCEPT ![e] = EditorIdle]
    /\ UNCHANGED << next_revision, documents, cell, reader, overlay >>
    /\ Witness

-----------------------------------------------------------------------------
(* change: look the object up, then edit it under its write lock.            *)

Change(e, u, v, t) ==
    /\ editor[e].pc = "idle"
    /\ documents[u] # Null
    /\ t \in TypedText
    /\ next_revision < MaxRevision
    /\ editor' = [editor EXCEPT ![e] =
                    [pc |-> "edit", uri |-> u, doc |-> documents[u],
                     version |-> v, text |-> t]]
    /\ UNCHANGED << next_revision, documents, heap, cell, reader, overlay, since >>

(* Mutant of Edited: the old parse cell survives the edit.                   *)
EditedKeepsParse(d, v, t) == [open |-> d.open, version |-> v, text |-> t,
                              revision |-> next_revision, parse |-> d.parse]

(* The fields an edit leaves: new version, text and revision, an empty cell. *)
Edited(d, v, t) == [open |-> d.open, version |-> v, text |-> t,
                    revision |-> next_revision, parse |-> next_revision]

ChangeEdit(e) ==
    /\ editor[e].pc = "edit"
    /\ LET d == heap[editor[e].doc] IN
       IF d.open
       THEN /\ next_revision < MaxRevision
            /\ next_revision' = next_revision + 1
            /\ heap' = [heap EXCEPT ![editor[e].doc] =
                          Edited(d, editor[e].version, editor[e].text)]
       ELSE UNCHANGED << next_revision, heap >>
    /\ editor' = [editor EXCEPT ![e] = EditorIdle]
    /\ UNCHANGED << documents, cell, reader, overlay >>
    /\ Witness

-----------------------------------------------------------------------------
(* close: clear the flag, drop the entry if it is still this object, advance *)
(* the counter that stamps closure-wide caches.                              *)

Close(e, u) ==
    /\ editor[e].pc = "idle"
    /\ documents[u] # Null
    /\ next_revision < MaxRevision
    /\ editor' = [editor EXCEPT ![e] =
                    [EditorIdle EXCEPT !.pc = "flag", !.uri = u, !.doc = documents[u]]]
    /\ UNCHANGED << next_revision, documents, heap, cell, reader, overlay, since >>

CloseFlag(e) ==
    /\ editor[e].pc = "flag"
    /\ heap' = [heap EXCEPT ![editor[e].doc].open = FALSE]
    /\ editor' = [editor EXCEPT ![e].pc = "remove"]
    /\ UNCHANGED << next_revision, documents, cell, reader, overlay >>
    /\ Witness

CloseRemove(e) ==
    /\ editor[e].pc = "remove"
    /\ documents' = [documents EXCEPT ![editor[e].uri] =
                       IF @ = editor[e].doc THEN Null ELSE @]
    /\ editor' = [editor EXCEPT ![e].pc = "bump"]
    /\ UNCHANGED << next_revision, heap, cell, reader, overlay >>
    /\ Witness

(* Mutant of CloseBump: close leaves the counter alone.                      *)
CloseWithoutBump(e) ==
    /\ editor[e].pc = "bump"
    /\ editor' = [editor EXCEPT ![e] = EditorIdle]
    /\ UNCHANGED << next_revision, documents, heap, cell, reader, overlay, since >>

CloseBump(e) ==
    /\ editor[e].pc = "bump"
    /\ next_revision < MaxRevision
    /\ next_revision' = next_revision + 1
    /\ editor' = [editor EXCEPT ![e] = EditorIdle]
    /\ UNCHANGED << documents, heap, cell, reader, overlay, since >>

-----------------------------------------------------------------------------
(* parse_result makes one attempt, parse_result_for_request at most two.     *)

ParseResult(r, u, attempts) ==
    /\ reader[r].pc = "idle"
    /\ attempts = IF r \in Interactive THEN 2 ELSE 1
    /\ reader' = [reader EXCEPT ![r] =
                    [pc |-> "lookup", uri |-> u, doc |-> Null, parse |-> Null,
                     text |-> Null, attempts |-> attempts, attempt |-> 1]]
    /\ since' = [since EXCEPT ![r] = {Live(u)}]
    /\ UNCHANGED << store, cell, editor, overlay >>

(* Mutants of Failed: an interactive request never retries; it always does.  *)
FailedForGood(c) == ReaderIdle
FailedRetries(c) == IF c.pc \in Resolving
                    THEN [ReaderIdle EXCEPT !.pc = "lookup", !.uri = c.uri]
                    ELSE ReaderIdle

(* How a call goes on when an attempt returned None.                         *)
Failed(c) ==
    IF c.pc \in Resolving /\ c.attempt < c.attempts
    THEN [ReaderIdle EXCEPT !.pc = "lookup", !.uri = c.uri,
                            !.attempts = c.attempts, !.attempt = c.attempt + 1]
    ELSE ReaderIdle

Fail(r) ==
    /\ reader' = [reader EXCEPT ![r] = Failed(@)]
    /\ since' = IF reader'[r].pc = "idle" THEN [since EXCEPT ![r] = {}] ELSE since
    /\ UNCHANGED << store, cell, editor, overlay >>

(* The two lookups and the lookup of with_current_snapshot: document(uri)?.  *)
Lookup(r, from, to) ==
    /\ reader[r].pc = from
    /\ IF documents[reader[r].uri] = Null
       THEN Fail(r)
       ELSE /\ reader' = [reader EXCEPT ![r].pc = to,
                                        ![r].doc = documents[reader[r].uri]]
            /\ UNCHANGED << store, cell, editor, overlay, since >>

(* Mutant of ParseRead: serves the cached parse of a closed document.        *)
ParseReadClosed(r) ==
    /\ reader[r].pc = "read"
    /\ LET d == heap[reader[r].doc] IN
       IF ~ d.open /\ cell[d.parse] = Null THEN Fail(r)
       ELSE /\ reader' = [reader EXCEPT ![r].doc = Null, ![r].parse = d.parse,
                 ![r].pc = IF cell[d.parse] # Null THEN "some" ELSE "init",
                 ![r].text = IF cell[d.parse] # Null THEN Null ELSE d.text]
            /\ UNCHANGED << store, cell, editor, overlay, since >>

ParseRead(r) ==
    /\ reader[r].pc = "read"
    /\ LET d == heap[reader[r].doc] IN
       IF ~ d.open THEN Fail(r)
       ELSE /\ reader' = [reader EXCEPT ![r].doc = Null, ![r].parse = d.parse,
                 ![r].pc = IF cell[d.parse] # Null THEN "some" ELSE "init",
                 ![r].text = IF cell[d.parse] # Null THEN Null ELSE d.text]
            /\ UNCHANGED << store, cell, editor, overlay, since >>

(* OnceLock::get_or_init: one caller initializes, the others wait for it.    *)
Initializing(c) == \E r \in Reader : reader[r].pc = "parsing" /\ reader[r].parse = c

InitBegin(r) ==
    /\ reader[r].pc = "init"
    /\ cell[reader[r].parse] = Null
    /\ ~ Initializing(reader[r].parse)
    /\ reader' = [reader EXCEPT ![r].pc = "parsing"]
    /\ UNCHANGED << store, cell, editor, overlay, since >>

InitEnd(r) ==
    /\ reader[r].pc = "parsing"
    /\ cell' = [cell EXCEPT ![reader[r].parse] = reader[r].text]
    /\ reader' = [reader EXCEPT ![r].pc = "again", ![r].text = Null]
    /\ UNCHANGED << store, editor, overlay, since >>

InitJoin(r) ==
    /\ reader[r].pc = "init"
    /\ cell[reader[r].parse] # Null
    /\ reader' = [reader EXCEPT ![r].pc = "again", ![r].text = Null]
    /\ UNCHANGED << store, cell, editor, overlay, since >>

(* Mutants of IsCurrent: without the flag; without Arc::ptr_eq.              *)
IsCurrentEvenClosed(d, parsed) == cell[d.parse] # Null /\ d.parse = parsed
IsParsed(d, parsed) == d.open /\ cell[d.parse] # Null

(* current.open, current.parse.get()? and Arc::ptr_eq with the snapshot.     *)
IsCurrent(d, parsed) == d.open /\ cell[d.parse] # Null /\ d.parse = parsed

Recheck(r) ==
    /\ reader[r].pc = "recheck"
    /\ IF IsCurrent(heap[reader[r].doc], reader[r].parse)
       THEN /\ reader' = [reader EXCEPT ![r].pc = "some", ![r].doc = Null]
            /\ UNCHANGED << store, cell, editor, overlay, since >>
       ELSE Fail(r)

(* Analysis commits what parse_result returned; a request only reads it.     *)
LookupToCommit(r) == r \notin Interactive /\ Lookup(r, "some", "commit")

(* Mutant of Commit: reports the internal revision as the LSP version.       *)
CommitRevision(r) ==
    /\ reader[r].pc = "commit"
    /\ LET d == heap[reader[r].doc] IN
       overlay' = IF IsCurrent(d, reader[r].parse)
                  THEN [overlay EXCEPT ![reader[r].uri] =
                          [version |-> d.revision, parse |-> reader[r].parse]]
                  ELSE overlay
    /\ reader' = [reader EXCEPT ![r] = ReaderIdle]
    /\ since' = [since EXCEPT ![r] = {}]
    /\ UNCHANGED << store, cell, editor >>

(* with_current_snapshot: the commit runs under the document's read guard.   *)
Commit(r) ==
    /\ reader[r].pc = "commit"
    /\ LET d == heap[reader[r].doc] IN
       overlay' = IF IsCurrent(d, reader[r].parse)
                  THEN [overlay EXCEPT ![reader[r].uri] =
                          [version |-> d.version, parse |-> reader[r].parse]]
                  ELSE overlay
    /\ reader' = [reader EXCEPT ![r] = ReaderIdle]
    /\ since' = [since EXCEPT ![r] = {}]
    /\ UNCHANGED << store, cell, editor >>

(* The caller uses its snapshot and never commits it.                        *)
Drop(r) ==
    /\ reader[r].pc = "some"
    /\ reader' = [reader EXCEPT ![r] = ReaderIdle]
    /\ since' = [since EXCEPT ![r] = {}]
    /\ UNCHANGED << store, cell, editor, overlay >>

-----------------------------------------------------------------------------

EditorStep(e) ==
    \/ OpenInsert(e) \/ OpenRetire(e)
    \/ ChangeEdit(e)
    \/ CloseFlag(e) \/ CloseRemove(e) \/ CloseBump(e)

EditorCall(e) ==
    \/ \E u \in Uri, v \in Version, t \in Text : Open(e, u, v, t) \/ Change(e, u, v, t)
    \/ \E u \in Uri : Close(e, u)

ReaderStep(r) ==
    \/ Lookup(r, "lookup", "read")
    \/ ParseRead(r)
    \/ InitBegin(r) \/ InitEnd(r) \/ InitJoin(r)
    \/ Lookup(r, "again", "recheck")
    \/ Recheck(r)
    \/ LookupToCommit(r)
    \/ Commit(r)
    \/ Drop(r)

Next ==
    \/ \E e \in Editor : EditorCall(e) \/ EditorStep(e)
    \/ \E r \in Reader, u \in Uri, n \in 1 .. 2 : ParseResult(r, u, n)
    \/ \E r \in Reader : ReaderStep(r)

(* A call that has begun keeps being scheduled; nobody need start one.        *)
Fairness ==
    /\ \A e \in Editor : WF_vars(EditorStep(e))
    /\ \A r \in Reader : WF_vars(ReaderStep(r))

Spec == Init /\ [][Next]_vars
FairSpec == Spec /\ Fairness

-----------------------------------------------------------------------------
(* Properties.                                                              *)

(* Every variable ranges over the values the code can give it.              *)
TypeOK ==
    /\ next_revision \in 1 .. MaxRevision
    /\ documents \in [Uri -> Revision \cup {Null}]
    /\ heap \in [Revision -> Document \cup {Null}]
    /\ cell \in [Revision -> Text \cup {Null}]
    /\ editor \in [Editor -> EditorState]
    /\ reader \in [Reader -> ReaderState]
    /\ overlay \in [Uri -> [version : Version, parse : Revision] \cup {Null}]
    /\ since \in [Reader -> SUBSET (Revision \cup {Null})]

(* The text of a buffer and the parse its cell holds are of one revision:    *)
(* "no window where a reader pairs one version's text with another's AST".   *)
Paired ==
    \A d \in Revision :
        heap[d] # Null /\ cell[heap[d].parse] # Null => cell[heap[d].parse] = heap[d].text

(* Buffers a second open of their URI has replaced and not yet retired.      *)
Leaving(u) ==
    {d \in Revision : heap[d] # Null /\ heap[d].open
                    /\ \E e \in Editor : editor[e].pc = "retire" /\ editor[e].uri = u
                                      /\ editor[e].doc = d}

(* parse_result hands back the live parse of the very moment it returns, or  *)
(* that of a buffer being replaced: a superseded caller bows out.            *)
ReadsAreFresh ==
    [][\A r \in Reader :
          reader[r].pc # "some" /\ reader'[r].pc = "some"
          => LET u == reader[r].uri IN
             reader'[r].parse \in {Live(u)} \cup {heap[d].parse : d \in Leaving(u)}]_vars

(* A call gives up only on a closed buffer or after as many edits as it has  *)
(* attempts: an interactive request survives one edit to its document.       *)
NoneOnlyWhenOvertaken ==
    [][\A r \in Reader :
          reader[r].pc \in Resolving /\ reader'[r].pc = "idle"
          => Null \in since[r] \/ Cardinality(since[r]) > reader[r].attempts]_vars

(* A commit is of the parse and the version the live buffer of its URI has   *)
(* in that state: with_current_snapshot keeps edit, close and reopen out.    *)
(* The code does not keep it while a buffer is replaced; no run checks it.   *)
CommitsAreLive ==
    [][\A u \in Uri :
          overlay'[u] # overlay[u]
          => /\ overlay'[u].parse = Live(u)
             /\ overlay'[u].version = heap[documents[u]].version]_vars

(* Every parse_result and commit returns, whatever the editors keep doing.   *)
CallsReturn == \A r \in Reader : reader[r].pc # "idle" ~> reader[r].pc = "idle"

-----------------------------------------------------------------------------
(* The store implements Buffers: an object is the buffer of its URI while it *)
(* is the map's entry and open, and its parse cell names the state.          *)

StateOf(d) == [version |-> heap[d].version, text |-> heap[d].text, id |-> heap[d].parse]

LiveState(u) ==
    IF documents[u] # Null /\ heap[documents[u]].open THEN StateOf(documents[u]) ELSE Null

(* Revisions drawn, but for those an open holds and has not inserted yet.    *)
Issued == (1 .. next_revision - 1)
          \ {editor[e].doc : e \in {f \in Editor : editor[f].pc = "insert"}}

Abstract == INSTANCE Buffers WITH
    Identity <- Revision,
    live <- [u \in Uri |-> LiveState(u)],
    leaving <- [u \in Uri |-> {StateOf(d) : d \in Leaving(u)}],
    issued <- Issued,
    committed <- overlay

(* Opening, editing, closing and committing look atomic from outside, but    *)
(* for a commit of a buffer that is being replaced.                          *)
ImplementsBuffers == Abstract!Spec
=============================================================================

------------------------------ MODULE RodinSync ------------------------------
(***************************************************************************)
(* How the language server (eventb-lsp, rodin/) keeps an Event-B source    *)
(* file and the component Rodin edits in step: builds write the component  *)
(* and a snapshot of the source, the base; the watcher tells Rodin's saves *)
(* from the builds' own writes and merges them, three ways, into the open  *)
(* buffer or the file.                                                     *)
(*                                                                         *)
(* There is one source file with one component.  A text is what stands on  *)
(* each of its lines; printing, importing and the hash of a component lose *)
(* nothing of it.  A line is a region the merge treats by itself.  The     *)
(* editor owns the buffer, its versions only grow, and the server learns   *)
(* what it does by notifications.  Rodin saves the component it finds on   *)
(* disk with one line changed, or as it is.  Writes do not fail.           *)
(***************************************************************************)
EXTENDS Naturals

CONSTANTS
    Line,           \* the lines of the source
    Value,          \* what may stand on a line
    Blank,          \* what stands there at first
    Marker,         \* a conflict marked with <<<<<<<
    Builder,        \* builds in progress at once, on save, by the lens or both
    MaxVersion,     \* bound on the versions of the buffer
    MaxRestarts,    \* bound on the restarts of the server
    Absent

ASSUME ValueAssumption == Blank \in Value /\ Marker \notin Value
ASSUME SyncBoundsAssumption == MaxVersion \in Nat /\ MaxRestarts \in Nat
ASSUME AbsentAssumption == Absent \notin Nat /\ Absent \notin [Line -> Value \cup {Marker}]

VARIABLES
    client,         \* the editor's buffer
    server,         \* the document as the server has it
    file,           \* the source file
    xml,            \* the component in the Rodin project
    base,           \* the snapshot under .base, or Absent
    written,        \* WriteRegistry: the hash recorded for the component
    pending,        \* the watcher has an event of the component
    build,          \* per builder: its build_into_workspace in progress
    sync,           \* the watcher's task
    restarts,
    agreed,         \* history: the component as last built or merged cleanly
    touched,        \* history: Rodin has changed the component since a build
    overlapped      \* history: the last build wrote over what another was to record the hash of

editorVars == << client, server, file >>
projectVars == << xml, base, written, agreed, touched, overlapped >>
syncVars == << editorVars, projectVars, pending, build, sync, restarts >>

Text == [Line -> Value \cup {Marker}]
Parses(text) == \A l \in Line : text[l] # Marker

NoBuild == [pc |-> "idle", text |-> Absent]
NoSync == [pc |-> "idle", target |-> Absent, ours |-> Absent, base |-> Absent, theirs |-> Absent,
           result |-> Absent]

(* A project that has just been built, and no document open.                 *)
SyncInit ==
    /\ file = [l \in Line |-> Blank]
    /\ client = [open |-> FALSE, text |-> file, version |-> 0]
    /\ server = client
    /\ xml = file /\ base = file /\ written = file /\ agreed = file
    /\ touched = FALSE /\ overlapped = FALSE /\ pending = FALSE
    /\ build = [b \in Builder |-> NoBuild]
    /\ sync = NoSync
    /\ restarts = 0

-----------------------------------------------------------------------------
(* The editor, whose versions only grow, and Rodin.                          *)

Type(l, v) ==
    /\ client.open /\ client.version < MaxVersion
    /\ client.text[l] # v
    /\ client' = [client EXCEPT !.text[l] = v, !.version = @ + 1]
    /\ UNCHANGED << server, file, projectVars, pending, build, sync, restarts >>

OpenFile ==
    /\ ~ client.open /\ client.version < MaxVersion
    /\ client' = [open |-> TRUE, text |-> file, version |-> client.version + 1]
    /\ UNCHANGED << server, file, projectVars, pending, build, sync, restarts >>

SaveFile ==
    /\ client.open
    /\ file' = client.text
    /\ UNCHANGED << client, server, projectVars, pending, build, sync, restarts >>

CloseFile ==
    /\ client.open
    /\ client' = [client EXCEPT !.open = FALSE]
    /\ UNCHANGED << server, file, projectVars, pending, build, sync, restarts >>

(* didOpen, didChange and didClose, up to the last one sent.                 *)
Notify ==
    /\ server # client
    /\ server' = client
    /\ UNCHANGED << client, file, projectVars, pending, build, sync, restarts >>

RodinSave(l, v) ==
    /\ xml' = [xml EXCEPT ![l] = v]
    /\ touched' = (touched \/ xml' # xml)
    /\ pending' = TRUE
    /\ UNCHANGED << editorVars, base, written, agreed, overlapped, build, sync, restarts >>

-----------------------------------------------------------------------------
(* build_into_workspace, on save or by the lens.                             *)

SourceText == IF server.open THEN server.text ELSE file

BuildAt(b, pc) == build[b].pc = pc
BuildGoto(b, pc) == build' = [build EXCEPT ![b].pc = pc]

BeginBuild(b) ==
    /\ BuildAt(b, "idle")
    /\ BuildGoto(b, "read")
    /\ UNCHANGED << editorVars, projectVars, pending, sync, restarts >>

(* A source that does not parse ends the build before it writes anything.    *)
ReadSources(b) ==
    /\ BuildAt(b, "read")
    /\ build' = [build EXCEPT ![b] = IF Parses(SourceText)
                                     THEN [pc |-> "write", text |-> SourceText] ELSE NoBuild]
    /\ UNCHANGED << editorVars, projectVars, pending, sync, restarts >>

WriteProject(b) ==
    /\ BuildAt(b, "write")
    /\ xml' = build[b].text
    /\ agreed' = build[b].text
    /\ touched' = FALSE
    /\ overlapped' = \E other \in Builder \ {b} : BuildAt(other, "record")
    /\ pending' = TRUE
    /\ BuildGoto(b, "remove")
    /\ UNCHANGED << editorVars, base, written, sync, restarts >>

(* write_base replaces the whole directory.                                  *)
RemoveBase(b) ==
    /\ BuildAt(b, "remove")
    /\ base' = Absent
    /\ BuildGoto(b, "base")
    /\ UNCHANGED << editorVars, xml, written, agreed, touched, overlapped, pending, sync, restarts >>

WriteBase(b) ==
    /\ BuildAt(b, "base")
    /\ base' = build[b].text
    /\ BuildGoto(b, "hash")
    /\ UNCHANGED << editorVars, xml, written, agreed, touched, overlapped, pending, sync, restarts >>

(* Mutant: the guard is dropped before the hashes are recorded.              *)
DropGuardEarly(b) ==
    /\ BuildAt(b, "hash")
    /\ build' = [build EXCEPT ![b] = NoBuild]
    /\ UNCHANGED << editorVars, projectVars, pending, sync, restarts >>

(* The component is read back to be hashed.                                  *)
HashProject(b) ==
    /\ BuildAt(b, "hash")
    /\ build' = [build EXCEPT ![b] = [pc |-> "record", text |-> xml]]
    /\ UNCHANGED << editorVars, projectVars, pending, sync, restarts >>

(* The hashes land, and then the guard is dropped.                           *)
Record(b) ==
    /\ BuildAt(b, "record")
    /\ written' = build[b].text
    /\ BuildGoto(b, "guard")
    /\ UNCHANGED << editorVars, xml, base, agreed, touched, overlapped, pending, sync, restarts >>

DropGuard(b) ==
    /\ BuildAt(b, "guard")
    /\ build' = [build EXCEPT ![b] = NoBuild]
    /\ UNCHANGED << editorVars, projectVars, pending, sync, restarts >>

BuildsWrite == \E b \in Builder : ~ BuildAt(b, "idle")

-----------------------------------------------------------------------------
(* The watcher: a batch is left pending while a build is writing.            *)

SyncGoto(pc) == sync' = [sync EXCEPT !.pc = pc]
SyncEnds == sync' = NoSync

TakeBatch ==
    /\ sync.pc = "idle" /\ pending
    /\ ~ BuildsWrite
    /\ pending' = FALSE
    /\ SyncGoto("classify")
    /\ UNCHANGED << editorVars, projectVars, build, restarts >>

(* The startup batch takes every component the manifest knows.               *)
StartupBatch ==
    /\ sync.pc = "startup"
    /\ ~ BuildsWrite
    /\ SyncGoto("ours")
    /\ UNCHANGED << editorVars, projectVars, pending, build, restarts >>

Classify ==
    /\ sync.pc = "classify"
    /\ IF written = xml THEN SyncEnds ELSE SyncGoto("ours")
    /\ UNCHANGED << editorVars, projectVars, pending, build, restarts >>

(* sync_model_edits: the buffer with its version, or the file.               *)
ReadOurs ==
    /\ sync.pc = "ours"
    /\ sync' = [sync EXCEPT !.pc = "base", !.ours = SourceText,
                            !.target = IF server.open THEN server.version ELSE Absent]
    /\ UNCHANGED << editorVars, projectVars, pending, build, restarts >>

(* No manifest, no snapshot, or one that does not parse: nothing is synced.  *)
ReadBase ==
    /\ sync.pc = "base"
    /\ IF base # Absent /\ Parses(base)
       THEN sync' = [sync EXCEPT !.pc = "merge", !.base = base] ELSE SyncEnds
    /\ UNCHANGED << editorVars, projectVars, pending, build, restarts >>

(* Where only one side has moved from the base, it is followed.              *)
Merge(from, ours, theirs) ==
    [l \in Line |-> IF ours[l] = from[l] THEN theirs[l]
                    ELSE IF theirs[l] \in {from[l], ours[l]} THEN ours[l]
                    ELSE Marker]

(* Both sides have moved a line, and not to the same.                        *)
Conflict(from, ours, theirs) ==
    \E l \in Line : theirs[l] \notin {from[l], ours[l]} /\ ours[l] # from[l]

(* The component is read now; one that says what the base says is no edit.   *)
MergeComponent ==
    /\ sync.pc = "merge"
    /\ IF xml = sync.base THEN SyncEnds
       ELSE sync' = [sync EXCEPT !.pc = "apply", !.theirs = xml,
                                 !.result = Merge(sync.base, sync.ours, xml)]
    /\ UNCHANGED << editorVars, projectVars, pending, build, restarts >>

(* apply_source_text: the file where no document is open, and an edit of the *)
(* buffer the merge was computed for; none if the buffer has moved on.       *)
Apply ==
    /\ sync.pc = "apply"
    /\ IF sync.target = Absent \/ ~ server.open
       THEN file' = sync.result /\ SyncGoto("advance")
       ELSE /\ IF server.version = sync.target THEN SyncGoto("edit") ELSE SyncEnds
            /\ UNCHANGED file
    /\ UNCHANGED << client, server, projectVars, pending, build, restarts >>

Replace(text) ==
    /\ client.version < MaxVersion
    /\ client' = [client EXCEPT !.text = text, !.version = @ + 1]
    /\ SyncGoto("advance")

(* Mutant: the edit names no version.                                        *)
EditUnversioned ==
    /\ sync.pc = "edit"
    /\ client.open
    /\ Replace(sync.result)
    /\ UNCHANGED << server, file, projectVars, pending, build, restarts >>

(* The edit names the version it is for, and the editor checks it.           *)
ClientEdit ==
    /\ sync.pc = "edit"
    /\ client.open /\ client.version = sync.target
    /\ Replace(sync.result)
    /\ UNCHANGED << server, file, projectVars, pending, build, restarts >>

(* The editor may always refuse; the base stays.                             *)
RejectEdit ==
    /\ sync.pc = "edit"
    /\ SyncEnds
    /\ UNCHANGED << editorVars, projectVars, pending, build, restarts >>

(* A clean merge becomes the next one's ancestor.                            *)
Advance ==
    /\ sync.pc = "advance"
    /\ IF Conflict(sync.base, sync.ours, sync.theirs)
       THEN UNCHANGED << base, agreed >>
       ELSE base' = sync.result /\ agreed' = sync.theirs
    /\ SyncEnds
    /\ UNCHANGED << editorVars, xml, written, touched, overlapped, pending, build, restarts >>

-----------------------------------------------------------------------------
(* The server dies wherever it is, and another takes its place: the editor   *)
(* opens its document again, no hash is remembered, and the watcher starts   *)
(* with the batch of all components.                                         *)
RestartServer ==
    /\ restarts < MaxRestarts
    /\ restarts' = restarts + 1
    /\ server' = client
    /\ written' = Absent /\ pending' = FALSE
    /\ build' = [b \in Builder |-> NoBuild]
    /\ sync' = [NoSync EXCEPT !.pc = "startup"]
    /\ UNCHANGED << client, file, xml, base, agreed, touched, overlapped >>

SyncNext ==
    \/ OpenFile \/ SaveFile \/ CloseFile \/ Notify
    \/ \E l \in Line, v \in Value : Type(l, v) \/ RodinSave(l, v)
    \/ \E b \in Builder : \/ BeginBuild(b) \/ ReadSources(b) \/ WriteProject(b)
                          \/ RemoveBase(b) \/ WriteBase(b) \/ HashProject(b)
                          \/ Record(b) \/ DropGuard(b)
    \/ TakeBatch \/ StartupBatch \/ Classify
    \/ ReadOurs \/ ReadBase \/ MergeComponent
    \/ Apply \/ ClientEdit \/ RejectEdit \/ Advance
    \/ RestartServer

SyncSpec == SyncInit /\ [][SyncNext]_syncVars

-----------------------------------------------------------------------------
(* Properties.                                                               *)

(* Every state component has its type, the texts a merge is given are there  *)
(* when it needs them, and its ancestor parses.                              *)
SyncTypeOK ==
    /\ client \in [open : BOOLEAN, text : Text, version : 0 .. MaxVersion]
    /\ server \in [open : BOOLEAN, text : Text, version : 0 .. client.version]
    /\ file \in Text
    /\ xml \in [Line -> Value] /\ agreed \in [Line -> Value]
    /\ base \in Text \cup {Absent} /\ written \in Text \cup {Absent}
    /\ pending \in BOOLEAN /\ touched \in BOOLEAN /\ overlapped \in BOOLEAN
    /\ restarts \in 0 .. MaxRestarts
    /\ \A b \in Builder : build[b].text \in [Line -> Value] \cup {Absent}
    /\ sync.pc \in {"base", "merge", "apply", "edit", "advance"} => sync.ours \in Text
    /\ sync.pc \in {"merge", "apply", "edit", "advance"} => sync.base \in [Line -> Value]
    /\ sync.pc \in {"apply", "edit", "advance"} => sync.result \in Text

(* A merge replaces in the buffer exactly the text it was computed for:      *)
(* nothing typed in the meantime is overwritten, whichever side sees it.     *)
StaleMergesAreRefused ==
    [][sync.pc = "edit" /\ sync'.pc = "advance" => client.text = sync.ours]_syncVars

(* While no build writes, the watcher takes for Rodin's only what Rodin has  *)
(* changed since the last build wrote, unless the hashes were lost in a      *)
(* restart, or that build wrote while another had read back the component    *)
(* and not yet recorded its hash: nothing keeps two builds apart.            *)
OwnWritesAreDropped ==
    [][sync.pc = "classify" /\ sync'.pc = "ours" /\ ~ BuildsWrite
         => touched \/ written = Absent \/ overlapped]_syncVars

(* A merge moves a line of the source only where Rodin has moved it since    *)
(* the component was last built or merged cleanly.                           *)
OnlyRodinsLinesMove ==
    [][sync.pc \in {"apply", "edit"} /\ sync'.pc = "advance"
         => \A l \in Line : sync.result[l] # sync.ours[l] => sync.theirs[l] # agreed[l]]_syncVars

(* A snapshot, where there is one, parses.  The code does not keep it; no    *)
(* run checks it.                                                            *)
BaseParses == base # Absent => Parses(base)
=============================================================================

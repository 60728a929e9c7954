----------------------------- MODULE WorkspaceScan -----------------------------
(***************************************************************************)
(* How the language server keeps its two workspace indexes in step with    *)
(* the disk and the open buffers (eventb-lsp: server.rs, workspace.rs,     *)
(* uri_identity.rs), over the index of CrossRefIndex: the startup scan of  *)
(* the workspace folders, folders that come and go, saves and watched-file *)
(* events, the overlays of open documents, and the table of URI spellings  *)
(* that both indexes key by.                                               *)
(*                                                                         *)
(* A job is a closure on the blocking pool with the handler that waits for *)
(* it.  Jobs overlap one another and the client's notifications, and so do *)
(* their writes of the cross-reference index, step by step; a file is read *)
(* at one moment and indexed at two later ones.                            *)
(*                                                                         *)
(* Keys of the indexes are CrossRefIndex's files: a file by its canonical  *)
(* name, and other spellings of it, by which the client may know it.       *)
(***************************************************************************)
EXTENDS CrossRefIndex, FiniteSets

CONSTANTS
    Alias,          \* keys that are other spellings of a file
    Target,         \* alias -> the file it is a spelling of
    Folder,         \* folders of the workspace
    FolderOf,       \* key -> the folder its path lies in
    Text,           \* what a file or a buffer may hold
    LayerOf,        \* text -> the components it declares
    Job,            \* closures at work at once; the first starts with the server
    Startup,        \* the job of the initialized notification
    Editor,         \* the task that handles the notifications of documents
    Initial,        \* workspaces to start with: folders and what is on disk
    MaxEvents       \* bound on what happens around the jobs

Source == File \ Alias

ASSUME AliasAssumption == Alias \subseteq File /\ Target \in [Alias -> Source]
ASSUME FolderAssumption == FolderOf \in [File -> Folder] /\ Null \notin Folder
ASSUME TextAssumption == Null \notin Text /\ LayerOf \in [Text -> Layer]
ASSUME JobAssumption == Startup \in Job /\ Editor \notin Job /\ Writer = Job \cup {Editor}
ASSUME InitialAssumption ==         \* a client names a folder once
    /\ Initial \subseteq [folders : Seq(Folder), disk : [Source -> Text \cup {Null}]]
    /\ \A w \in Initial : \A i, k \in DOMAIN w.folders : w.folders[i] = w.folders[k] => i = k

VARIABLES
    disk,           \* file -> what is saved, or Null for no file
    buffer,         \* spelling -> the open document, or Null
    due,            \* documents whose analysis has not committed their text
    aliases,        \* DocumentUris: the spellings resolved to their file
    symbols,        \* the symbol index: key -> saved and open texts
    folders,        \* the workspace folders, in order
    root,           \* the workspace root, or Null
    scanned,        \* the index's flag: a scan has gone through
    complete,       \* what workspace requests wait for
    watching,       \* the client reports changes of files
    job,            \* per job: where it is
    reported,       \* files whose change the client is still to report
    events,
    (* history *)
    unseen,         \* files changed with nobody to report it
    shared,         \* files two jobs have had in hand at once, and none alone since
    raced,          \* files written while shared, and not by a job alone since
    early,          \* spellings looked up while their file did not exist
    mixed,          \* << file, name >> that two writes of the file have had to
                    \* rebuild at once, and none alone since
    crossed         \* names that two writes have had to rebuild at once, and
                    \* none alone since

sources == << disk, buffer, due >>
workspace == << aliases, symbols, folders, root, scanned, complete, watching >>
met == << mixed, crossed >>
history == << unseen, shared, raced, early, met >>
wVars == << vars, sources, workspace, job, reported, events, history >>

IdleJob == [pc |-> "idle", kind |-> "none", removed |-> {}, todo |-> << >>, uris |-> {},
            texts |-> << >>, uri |-> Null]

FileOf(s) == IF s \in Alias THEN Target[s] ELSE s
Spellings(f) == {s \in File : FileOf(s) = f}
Parse(text) == IF text = Null THEN << >> ELSE LayerOf[text]
At(j, pc) == job[j].pc = pc

Without(fn, x) == [y \in DOMAIN fn \ {x} |-> fn[y]]

WInit ==
    /\ Init
    /\ \E w \in Initial : folders = w.folders /\ disk = w.disk
    /\ root = IF folders = << >> THEN Null ELSE folders[1]
    /\ buffer = [s \in File |-> Null] /\ due = {}
    /\ aliases = {}
    /\ symbols = [k \in File |-> [disk |-> Null, open |-> Null]]
    /\ scanned = FALSE /\ complete = FALSE /\ watching = FALSE
    /\ job = [j \in Job |-> IF j = Startup
                            THEN [IdleJob EXCEPT !.pc = "folder", !.kind = "startup", !.todo = folders]
                            ELSE IdleJob]
    /\ reported = {} /\ events = 0
    /\ unseen = {} /\ shared = {} /\ raced = {} /\ early = {}
    /\ mixed = {} /\ crossed = {}

Happens == events < MaxEvents /\ events' = events + 1
Works(j) == writer[j].pc = "idle" /\ UNCHANGED << sources, folders, root, reported, events >>

-----------------------------------------------------------------------------
(* DocumentUris.                                                            *)

(* Mutant: spellings are compared as they come.                              *)
KeyAsIs(s, known) == s
Key(s, known) == IF s \in known THEN Target[s] ELSE s

(* register: a spelling is resolved if its file exists, or not at all.       *)
Registered(s) ==
    IF s \in Alias /\ disk[FileOf(s)] # Null THEN aliases \cup {s} ELSE aliases
Register(s) ==
    /\ aliases' = Registered(s)
    /\ early' = IF s \in Alias \ Registered(s) THEN early \cup {s} ELSE early

-----------------------------------------------------------------------------
(* Files in hand: read, or about to be dropped, and not written twice yet.   *)

Holds(j, f) ==
    \/ At(j, "drop") /\ FolderOf[f] \in job[j].removed
    \/ \E s \in DOMAIN job[j].texts : FileOf(s) = f
Takes(j, fs) ==
    shared' = {f \in shared \cup fs : f \in fs => \E i \in Job \ {j} : Holds(i, f)}

(* scan_workspace_with: a folder's files are read, then indexed; a file that *)
(* cannot be read ends the scan of its folder.                               *)
StartScan(j) ==
    /\ At(j, "folder") /\ job[j].todo # << >> /\ Works(j)
    /\ scanned' = FALSE
    /\ LET listed == {f \in Source : FolderOf[f] = Head(job[j].todo)} IN
       job' = [job EXCEPT ![j].pc = IF listed = {} THEN "xrefs" ELSE "walk", ![j].uris = listed]
    /\ UNCHANGED << vars, aliases, symbols, complete, watching, history >>

ScanFile(j) ==
    /\ At(j, "walk") /\ Works(j)
    /\ \E f \in job[j].uris :
         LET read == [s \in DOMAIN job[j].texts \cup {f} |-> IF s = f THEN disk[f] ELSE job[j].texts[s]]
         IN /\ job' = [job EXCEPT ![j].uris = @ \ {f},
                          ![j].pc = IF job[j].uris = {f} THEN "xrefs" ELSE @,
                          ![j].texts = IF disk[f] = Null THEN @ ELSE read]
            /\ IF disk[f] = Null THEN UNCHANGED << unseen, shared >>
               ELSE unseen' = unseen \ {f} /\ Takes(j, {f})
    /\ UNCHANGED << vars, aliases, symbols, scanned, complete, watching, raced, early, met >>

NextFolder(j) == [IdleJob EXCEPT !.pc = "folder", !.kind = job[j].kind, !.todo = Tail(job[j].todo)]

ScanFails(j) ==
    /\ At(j, "walk") /\ job[j].uris # {} /\ Happens
    /\ job' = [job EXCEPT ![j] = NextFolder(j)]
    /\ unseen' = unseen \cup {f \in Source : FolderOf[f] = Head(job[j].todo)}
    /\ UNCHANGED << vars, sources, workspace, reported, shared, raced, early, met >>

-----------------------------------------------------------------------------
(* Writes that meet: they have a name to rebuild at once, of one file or not.*)

Meets(w) ==
    LET uri == writer'[w].uri
        names == writer'[w].unread
        others == Writer \ {w}
    IN /\ mixed' = {p \in mixed \cup ({uri} \X names) : p \in {uri} \X names =>
                       \E v \in others : writer[v].uri = uri /\ p[2] \in Rebuilds(v)}
       /\ crossed' = {n \in crossed \cup names : n \in names =>
                         \E v \in others : n \in Rebuilds(v)}

-----------------------------------------------------------------------------
(* The two indexes take what a job has in hand one after the other; a file   *)
(* that is gone, or whose folder is, leaves them.                            *)

IndexXrefs(j) ==
    /\ At(j, "xrefs") /\ Works(j)
    /\ \E s \in DOMAIN job[j].texts :
         LET text == job[j].texts[s] IN
         /\ IF text = Null
            THEN RemoveDiskDocument(j, Key(s, aliases)) /\ UNCHANGED << aliases, early >>
            ELSE Register(s) /\ IndexDiskComponents(j, Key(s, aliases'), LayerOf[text])
         /\ Meets(j)
         /\ job' = [job EXCEPT ![j].pc = "symbols", ![j].uri = s]
         /\ raced' = IF FileOf(s) \in shared THEN raced \cup {FileOf(s)} ELSE raced \ {FileOf(s)}
    /\ UNCHANGED << symbols, scanned, complete, watching, unseen, shared >>

IndexSymbols(j) ==
    /\ At(j, "symbols") /\ Works(j)
    /\ LET s == job[j].uri
           text == job[j].texts[s] IN
       /\ IF text = Null THEN UNCHANGED << aliases, early >> ELSE Register(s)
       /\ symbols' = [symbols EXCEPT ![Key(s, aliases')].disk = text]
       /\ job' = [job EXCEPT ![j].pc = "xrefs", ![j].uri = Null, ![j].texts = Without(@, s)]
    /\ UNCHANGED << vars, scanned, complete, watching, unseen, shared, raced, met >>

Indexed(j) == At(j, "xrefs") /\ job[j].texts = << >> /\ Works(j)

ScanEnds(j) ==
    /\ Indexed(j) /\ job[j].kind # "refresh" /\ job[j].removed = {}
    /\ scanned' = TRUE
    /\ job' = [job EXCEPT ![j] = NextFolder(j)]
    /\ UNCHANGED << vars, aliases, symbols, complete, watching, history >>

DropEnds(j) ==
    /\ Indexed(j) /\ job[j].removed # {}
    /\ job' = [job EXCEPT ![j].pc = "folder", ![j].removed = {}]
    /\ UNCHANGED << vars, aliases, symbols, scanned, complete, watching, history >>

RefreshEnds(j) ==
    /\ Indexed(j) /\ job[j].kind = "refresh"
    /\ job' = [job EXCEPT ![j] = IF job[j].uris = {} THEN IdleJob ELSE [@ EXCEPT !.pc = "read"]]
    /\ UNCHANGED << vars, aliases, symbols, scanned, complete, watching, history >>

(* initialized: every folder has been scanned, or not; only now are the      *)
(* client's reports asked for.                                               *)
FoldersDone(j) ==
    /\ At(j, "folder") /\ job[j].todo = << >> /\ Works(j)
    /\ complete' = (complete \/ job[j].kind = "startup")
    /\ watching' = IF job[j].kind = "startup" THEN root # Null ELSE watching
    /\ job' = [job EXCEPT ![j] = IdleJob]
    /\ UNCHANGED << vars, aliases, symbols, scanned, history >>

-----------------------------------------------------------------------------
(* refresh_saved_layers, for a save or a batch of reports.                   *)

(* Mutant: a file that cannot be found is one that cannot be read.           *)
RefreshFound(j) ==
    /\ At(j, "read") /\ Works(j)
    /\ \E s \in job[j].uris :
         /\ job' = [job EXCEPT ![j].uris = @ \ {s}, ![j].pc = "xrefs",
                               ![j].texts = IF disk[FileOf(s)] = Null THEN << >>
                                            ELSE [x \in {s} |-> disk[FileOf(s)]]]
         /\ unseen' = unseen \ {FileOf(s)}
         /\ Takes(j, {FileOf(s)})
    /\ UNCHANGED << vars, aliases, symbols, scanned, complete, watching, raced, early, met >>

Refresh(j) ==
    /\ At(j, "read") /\ Works(j)
    /\ \E s \in job[j].uris :
         /\ job' = [job EXCEPT ![j].uris = @ \ {s}, ![j].pc = "xrefs",
                               ![j].texts = [x \in {s} |-> disk[FileOf(s)]]]
         /\ unseen' = unseen \ {FileOf(s)}
         /\ Takes(j, {FileOf(s)})
    /\ UNCHANGED << vars, aliases, symbols, scanned, complete, watching, raced, early, met >>

(* A file that is there and cannot be read is left as it was indexed.        *)
RefreshFails(j) ==
    /\ At(j, "read") /\ Works(j)
    /\ \E s \in job[j].uris :
         /\ disk[FileOf(s)] # Null
         /\ LET left == job[j].uris \ {s} IN
            job' = [job EXCEPT ![j] = IF left = {} THEN IdleJob ELSE [@ EXCEPT !.uris = left]]
         /\ unseen' = unseen \cup {FileOf(s)}
    /\ UNCHANGED << vars, aliases, symbols, scanned, complete, watching, shared, raced, early, met >>

Starts(j, uris) ==
    /\ At(j, "idle")
    /\ job' = [job EXCEPT ![j] = [IdleJob EXCEPT !.pc = "read", !.kind = "refresh", !.uris = uris]]

(* did_change_watched_files: reports of files outside the root are dropped.  *)
(* The report of a directory is the report of the files in it.               *)
DidChangeWatchedFiles(j) ==
    /\ reported # {}
    /\ LET changed == {f \in reported : FolderOf[f] = root} IN
       /\ unseen' = unseen \cup (reported \ changed)
       /\ IF changed = {} THEN UNCHANGED job ELSE Starts(j, changed)
    /\ reported' = {}
    /\ UNCHANGED << vars, sources, workspace, events, shared, raced, early, met >>

Written(f, text) ==
    /\ disk' = [disk EXCEPT ![f] = text]
    /\ reported' = IF watching THEN reported \cup {f} ELSE reported

(* Another program writes or deletes a file.                                 *)
DiskWrite(f) ==
    /\ Happens
    /\ \E text \in Text \cup {Null} : text # disk[f] /\ Written(f, text)
    /\ unseen' = IF watching THEN unseen ELSE unseen \cup {f}
    /\ UNCHANGED << vars, buffer, due, workspace, job, shared, raced, early, met >>

(* The editor saves; did_save analyzes the document and refreshes the file.  *)
DidSave(j, s) ==
    /\ Happens /\ buffer[s] # Null
    /\ Written(FileOf(s), buffer[s])
    /\ due' = due \cup {s}
    /\ Starts(j, {s})
    /\ UNCHANGED << vars, buffer, workspace, history >>

-----------------------------------------------------------------------------
(* did_change_workspace_folders.                                            *)

(* Mutant: the root stays where it was.                                      *)
RootKept(now) == IF root = Null /\ now # << >> THEN Head(now) ELSE root

(* The first folder is the root; the last one to go stays it.                *)
RootOf(now) == IF now = << >> THEN root ELSE Head(now)

(* retain: the folders that stay, in their order; there is one such sequence. *)
Retained(removed) ==
    LET left == {i \in DOMAIN folders : folders[i] \notin removed} IN
    {[k \in DOMAIN at |-> folders[at[k]]] :
        at \in {at \in [1 .. Cardinality(left) -> left] :
                  \A k, l \in DOMAIN at : k < l => at[k] < at[l]}}

(* At most one folder comes at a time.                                       *)
ChangeFolders(j, removed, added) ==
    /\ Happens /\ At(j, "idle")
    /\ removed \subseteq {folders[i] : i \in DOMAIN folders}
    /\ \E kept \in Retained(removed) :
         LET known == \E i \in DOMAIN kept : added = << kept[i] >> IN
         /\ folders' = IF known THEN kept ELSE kept \o added
         /\ root' = RootOf(folders')
    /\ job' = [job EXCEPT ![j] = [IdleJob EXCEPT !.kind = "folders", !.removed = removed, !.todo = added,
                                      !.pc = IF removed = {} THEN "folder" ELSE "drop"]]
    /\ Takes(j, {f \in Source : FolderOf[f] \in removed})
    /\ UNCHANGED << vars, sources, aliases, symbols, scanned, complete, watching, reported,
                    unseen, raced, early, met >>

(* Every key the cross-reference index has under a removed folder.           *)
DropFolders(j) ==
    /\ At(j, "drop") /\ Works(j)
    /\ LET gone == {k \in File : /\ FolderOf[k] \in job[j].removed
                                 /\ documents[k] # [disk |-> << >>, open |-> Null]}
       IN job' = [job EXCEPT ![j].pc = "xrefs", ![j].texts = [k \in gone |-> Null]]
    /\ UNCHANGED << vars, aliases, symbols, scanned, complete, watching, history >>

-----------------------------------------------------------------------------
(* Open documents: a file is open under one spelling at a time.              *)

(* Mutant: the spelling is not resolved before the document is stored.       *)
DidOpenUnresolved(s) ==
    /\ Happens /\ \A t \in Spellings(FileOf(s)) : buffer[t] = Null
    /\ \E text \in Text : buffer' = [buffer EXCEPT ![s] = text]
    /\ due' = due \cup {s}
    /\ UNCHANGED << vars, disk, workspace, job, reported, history >>

DidOpen(s) ==
    /\ Happens /\ \A t \in Spellings(FileOf(s)) : buffer[t] = Null
    /\ Register(s)
    /\ \E text \in Text : buffer' = [buffer EXCEPT ![s] = text]
    /\ due' = due \cup {s}
    /\ UNCHANGED << vars, disk, symbols, folders, root, scanned, complete, watching, job, reported,
                    unseen, shared, raced, met >>

DidChange(s) ==
    /\ Happens /\ buffer[s] # Null
    /\ OverlayFree(Key(s, aliases))
    /\ \E text \in Text : buffer' = [buffer EXCEPT ![s] = text]
    /\ due' = due \cup {s}
    /\ UNCHANGED << vars, disk, workspace, job, reported, history >>

(* analyze commits both overlays under the document's guard.                 *)
Analyze(s) ==
    /\ s \in due
    /\ LET k == Key(s, aliases) IN
       /\ IndexComponents(Editor, k, LayerOf[buffer[s]]) /\ Meets(Editor)
       /\ symbols' = [symbols EXCEPT ![k].open = buffer[s]]
    /\ due' = due \ {s}
    /\ UNCHANGED << disk, buffer, aliases, folders, root, scanned, complete, watching, job, reported,
                    events, unseen, shared, raced, early >>

DidClose(s) ==
    /\ buffer[s] # Null
    /\ buffer' = [buffer EXCEPT ![s] = Null] /\ due' = due \ {s}
    /\ LET k == Key(s, aliases) IN
       /\ RemoveDocument(Editor, k) /\ Meets(Editor)
       /\ symbols' = [symbols EXCEPT ![k].open = Null]
    /\ UNCHANGED << disk, aliases, folders, root, scanned, complete, watching, job, reported,
                    events, unseen, shared, raced, early >>

-----------------------------------------------------------------------------
JobStep(j) ==
    \/ StartScan(j) \/ ScanFile(j) \/ ScanFails(j)
    \/ IndexXrefs(j) \/ IndexSymbols(j) \/ ScanEnds(j) \/ DropEnds(j) \/ RefreshEnds(j)
    \/ FoldersDone(j) \/ Refresh(j) \/ RefreshFails(j) \/ DropFolders(j)

WNext ==
    \/ \E w \in Writer :
        Step(w) /\ UNCHANGED << sources, workspace, job, reported, events, history >>
    \/ \E j \in Job : JobStep(j)
    \/ \E j \in Job : DidChangeWatchedFiles(j)
    \/ \E f \in Source : DiskWrite(f)
    \/ \E j \in Job, s \in File : DidSave(j, s)
    \/ \E j \in Job, removed \in SUBSET Folder, added \in {<< >>} \cup {<< d >> : d \in Folder} :
        ChangeFolders(j, removed, added)
    \/ \E s \in File : DidOpen(s) \/ DidChange(s) \/ Analyze(s) \/ DidClose(s)

WSpec == WInit /\ [][WNext]_wVars

-----------------------------------------------------------------------------
(* Properties.                                                              *)

(* The indexes hold what the code can put in them, and a job has in hand     *)
(* what its step needs.                                                      *)
WTypeOK ==
    /\ TypeOK
    /\ disk \in [Source -> Text \cup {Null}]
    /\ buffer \in [File -> Text \cup {Null}]
    /\ due \subseteq {s \in File : buffer[s] # Null}
    /\ aliases \subseteq Alias /\ early \subseteq Alias
    /\ symbols \in [File -> [disk : Text \cup {Null}, open : Text \cup {Null}]]
    /\ root = Null => folders = << >>
    /\ root # Null /\ folders # << >> => root = Head(folders)
    /\ \A i, k \in DOMAIN folders : folders[i] = folders[k] => i = k
    /\ watching => complete
    /\ reported \subseteq Source /\ unseen \cup shared \cup raced \subseteq Source
    /\ \A j \in Job :
        /\ job[j].pc = "symbols" => job[j].uri \in DOMAIN job[j].texts
        /\ DOMAIN job[j].texts \subseteq File
        /\ job[j].uris # {} => job[j].pc # "idle"

(* "Write one layer of a document and bring the name index and the graph     *)
(* back in step with the result": once every write is done, each file is     *)
(* indexed under exactly the names its open or saved text declares, and a    *)
(* name's node is the declaration that represents it in the indexed files,   *)
(* until two writes have the name to rebuild at once: no lock is held from   *)
(* the edit to the name index, nor from a lookup to the graph.  A later      *)
(* write that has the name alone brings it back in step.                     *)
IndexInStep ==
    AtRest => \A n \in Name :
        /\ \A f \in File : << f, n >> \in mixed \/ (f \in name_to_uris[n] <=> Declares(f, n))
        /\ n \in crossed \/ graph[n] = Node(Representative(name_to_uris[n], n))

Settled == AtRest /\ reported = {} /\ \A j \in Job : At(j, "idle")
Resolved(f) == Spellings(f) \cap early = {}
InWorkspace(f) == \E i \in DOMAIN folders : folders[i] = FolderOf[f]

(* "The two cannot disagree about what is on disk": once reports and jobs    *)
(* are done, both indexes answer for a file of the workspace with what is    *)
(* saved, and with the same for any other; but for a file written while two  *)
(* jobs had it in hand, whose later reading may be written first.            *)
SavedLayersSettle ==
    Settled => \A f \in Source \ raced : Resolved(f) =>
        /\ documents[f].disk = Parse(symbols[f].disk)
        /\ InWorkspace(f) /\ f \notin unseen => documents[f].disk = Parse(disk[f])

(* A file is one entry of each index, whichever spelling the client uses: a  *)
(* document is laid over its own file's entry, and leaves it when it closes. *)
AnswersOnce ==
    Settled /\ due = {} => \A f \in Source : Resolved(f) =>
        /\ \A s \in Spellings(f) : buffer[s] # Null
              => documents[f].open = LayerOf[buffer[s]] /\ symbols[f].open = buffer[s]
        /\ (\A s \in Spellings(f) : buffer[s] = Null)
              => documents[f].open = Null /\ symbols[f].open = Null
        /\ \A s \in Spellings(f) \ {f} :
              /\ documents[s] = [disk |-> << >>, open |-> Null]
              /\ symbols[s] = [disk |-> Null, open |-> Null]

(* "Gating on the actual scan (not merely a set workspace root) avoids that  *)
(* flood in the window before the scan completes, or when it fails": when    *)
(* the flag is up, every folder has been scanned.  The code does not keep    *)
(* it, with two folders; no run checks it.                                   *)
ScannedIsComplete ==
    scanned => \A f \in Source : InWorkspace(f) /\ disk[f] # Null => documents[f].disk = Parse(disk[f])
=============================================================================

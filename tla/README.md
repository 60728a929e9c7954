# rossi: a TLA+ verification of the Event-B toolchain

rossi is a toolchain for Event-B: a parser and printer, a static checker, a proof-obligation
generator and a prover (`crates/rossi`, `rossi-build`, `rossi-prove`), a command line over them
(`rossi-cli`), and a language server (`eventb-lsp`) that puts all of it into an editor and keeps a
Rodin workspace in step with the text files being edited. The libraries are sequential: text or
trees in, text or trees out. State that is shared, tasks that interleave and events that arrive in
an inconvenient order are found in the language server, and in the files of a Rodin project, which
the server, the command line and Rodin write independently of one another. Those are what most of
these modules are about; the prover is modelled for what happens to a proof over its life.

Paths below are relative to `src/crates/eventb-lsp/src/` unless they say otherwise; `pog/` is
`src/crates/rossi-build/src/pog/` and `prove/` is `src/crates/rossi-prove/src/`.

1. [The system](#1-the-system)
2. [Hard behaviours](#2-hard-behaviours)
3. [The modules](#3-the-modules)
4. [The runs](#4-the-runs)
5. [What the runs found](#5-what-the-runs-found)
6. [What is proved](#6-what-is-proved)
7. [What is not modelled](#7-what-is-not-modelled)
8. [Plan](#8-plan)

## 1. The system

tower-lsp runs every handler of one connection in one task: handlers interleave where they await
and run alone between two awaits. Next to that task there are spawned tasks (debounced analyses,
rebuilds, the watcher's manager, the live connection, the session monitor), a blocking pool (parses,
hint lists, diagnostic sweeps, scans, merges, builds) and plain threads (the creation of a file
watcher, the bridge reader). They share the maps inside `Backend`. Rodin is another process, and so
is a build or a clean-up from the command line: with those the server shares files only.

| Component | State | Operations | What makes it correct |
|---|---|---|---|
| Buffer store, `document.rs` | `documents` (URI to document object), the object's open flag, version, rope, revision and parse cell; `next_revision` | `open`, `change`, `close`, `parse_result`, `parse_result_for_request`, `with_current_snapshot` | text and parse are of one revision; what is handed out is live; calls return |
| Inlay-hint cache, `inlay_hints.rs` | `cache`: URI to hints, stamped with `next_revision` and the configuration | lookup, compute over the dependency closure, store, evict on close | what hits was computed from the buffers as they are |
| Cross-reference index, `cross_references.rs` | `documents`: file to saved layer and open overlay; `name_to_uris`; the dependency `graph`; `generation` | `index_components`, `index_disk_components`, `remove_document`, `remove_disk_document`, queries | the two derived indexes are those of the layers |
| Workspace scan and symbols, `workspace.rs`, `server.rs` | symbols per file, folders, `scanned`, `complete` | startup scan, folder changes, refresh on save and on watched-file events | both indexes end up holding what is saved; open buffers win |
| URI identity, `uri_identity.rs` | resolved spellings | register, key | one file has one key |
| Workspace diagnostic sweep, `server.rs` | `sweep_reports`: file to report, stamped with `diagnostic_inputs`, `generation` and file metadata | `workspace/diagnostic`, `pull_report` | a stale report is not served once the change has been announced |
| Diagnostics pipeline, `server.rs` | `diagnostic_locks`, the obligation lists, what the client was sent | `did_open`, `did_change`, `did_save`, `did_close`, `analyze`, `republish_all_diagnostics`, `clear` | one publisher per document, never older after newer, last state shown in the end |
| Watcher and live slots, `server.rs` | `rodin_sync`, `rodin_live`: off, starting or ready, for a directory; `rodin_live_lease` | `ensure_rodin_sync`, `ensure_rodin_live`, `did_change_configuration`, the lens command, `shutdown` | no slot waits for a start that is gone; a superseded start changes nothing |
| Rodin synchronization, `rodin/sync.rs`, `rodin/model_sync.rs` | `WriteRegistry` (in-flight builds, content hashes), the base snapshots on disk | build with guard, classify a batch of file events, three-way merge, advance the base | own writes are not taken for edits; an edit is neither lost nor applied twice |
| Open in Rodin, `rodin/mod.rs`, `rodin/launch.rs` | the single-flight guard, the cancel registry (`progress.rs`), Rodin's workspace lock | click, seed, build, probe, launch, arm | one Rodin; a cancel that is seen is honoured |
| Rebuild on save, `server.rs` | debounce generation per project | schedule, wake, probe, build | the last save is built |
| Proof mirror, `rodin/proof_mirror.rs` | the monitor in the slot, the projects it is armed for | arm, watch, wait for builds, mirror | what is proved in a watched session reaches the checkout; only Rodin's deletions do |
| Obligation reconciliation, `pog/reconcile.rs`, `pog/status.rs` | none of its own: `.bpo`, `.bps`, `.bpr` of a component, stamps that tie a row to its obligation | stamp plan, carried rows, status pass, `rossi clean` | a verdict is kept for an unchanged sequent and only for that |
| Prover, `prove/` | none of its own: sequents, proof trees, stored proofs with their dependencies, versions of reasoners | apply, store, reuse, replay, rebuild, load | a proof said to be reusable goes through; confidence is never invented |
| Closure and loader, `closure.rs`, `component_loader.rs` | memo of one request | load, closure | an open buffer answers for its file |
| Animation, `animate/` | none of its own | choose what to skip, run ProB | what is skipped is proved |
| Dependency graph, `src/crates/rossi/src/deps/` | none | topological order, cycles, visible contexts | order respects edges; a cycle is reported iff there is one |
| Parser, printer, XML, formula kernel, static checker, generator, CLI, editors, fuzzers | none shared | | |

How they interact. `did_open`, `did_change` and `did_close` write the buffer store; analyses read a
snapshot from it, and commit it to the cross-reference index under the document's guard
(`with_current_snapshot`) and their document's diagnostic lock. A scan, a save and a watched-file
event write the saved layer of the same index and of the symbol index, one after the other. The hint
cache and the sweep read buffers, files and index on blocking threads and stamp what they store with
counters the writers advance: `next_revision` (store), `generation` (index), `diagnostic_inputs`
(republish). A configuration change swaps an `Arc` and republishes. The lens builds the project,
launches Rodin and arms the mirror; while Rodin holds the workspace a save rebuilds the project,
which reconciles the obligation files with what Rodin has proved meanwhile; the watcher sees the
build's own writes among Rodin's and must tell them apart; what it finds edited in Rodin goes back
into the buffers as a workspace edit the client answers with `didChange`. The animator and Rodin
believe a status whose stamp is that of its obligation, and that status was computed by the prover
crate from a stored proof's dependencies.

## 2. Hard behaviours

`PROJECT.json` lists every hazard at its line. They are of these kinds:

- *State read before a lock is released or an await, and used after it*: the parse of a buffer, the
  stamp of a hint list, the counters of a sweep, the obligation list, the merge's own side.
- *Two steps that are one in the writer's mind*: `open` inserts before it retires; the name index is
  updated after the entry's lock is released; the graph is locked after the declarations were read;
  a file is read at one moment and indexed at two later ones; a build records its hashes after it
  has written, and writes `.bps` long after it has read it.
- *Notifications that overtake each other*: `did_open` awaits before it stores the buffer, so the
  next notification of the same document may be handled first.
- *Starts that come back late*: a watcher or a bridge connection created for a configuration that
  has changed since; a Rodin that has been launched and does not hold its lock yet.
- *Lifetimes of shared objects*: the diagnostic lock that is dropped when nobody seems to hold it;
  the debounce entry that is removed by the task that wins and starts again at one.
- *Old verdicts on new objects*: a status row, a stamp or a stored proof that outlives the
  obligation, the reasoner or the datatype it was about.
- *Crashes between two files*: `.bpo`, `.bps` and `.bpr` are written one after the other.
- *What must happen in the end*: the last edit is reported, the last save is built, a call returns, a
  slot settles, the work of a session is copied back.

## 3. The modules

| Module | Models | Extends / refines |
|---|---|---|
| `Buffers` | the promise of the buffer store: atomic open, edit, close, commit | |
| `DocumentStore` | `document.rs`, one step per section between lock releases | refines `Buffers` |
| `HintsCache` | `inlay_hints.rs` over the buffer store | extends `DocumentStore` |
| `CrossRefIndex` | `write_layer` and its callers, `cross_references.rs`: a library of steps | |
| `SweepCache` | `pull_report` and its cache, `server.rs`, over the index | extends `CrossRefIndex` |
| `WorkspaceScan` | scan, folders, saves, watched files, overlays, symbols and URI keys, over the index | extends `CrossRefIndex` |
| `DiagnosticsPipeline` | notification to published diagnostics, `server.rs` | takes the buffer store as `Buffers` states it |
| `RodinWatcher` | the two slots and their starts, `server.rs` | |
| `RodinSync` | builds, `WriteRegistry`, the watcher's batches, the three-way merge, the base: `rodin/`, `server.rs` | |
| `RodinSession` | the lens flow, rebuilds on save, the session monitor, Rodin and its lock: `rodin/`, `server.rs`, `progress.rs` | |
| `ObligationFiles` | `pog/reconcile.rs`, `pog/status.rs`, `rossi clean`, and who writes the three files when | |
| `Sequents` | `prove/sequent.rs`, `hyp_action.rs`, `rule.rs`: sequents, their mutators, hypothesis actions | |
| `ProofReuse` | `prove/` tree, deps, builder, skeleton, registry, `reasoners/`: the life of a stored proof | extends `Sequents` |
| `DocumentProofs` | theorems about the buffer store, its refinement of `Buffers`, and the hint cache | extends `HintsCache` |
| `SweepCacheProofs`, `WorkspaceScanProofs`, `DiagnosticsPipelineProofs`, `RodinWatcherProofs`, `ObligationFilesProofs`, `ProofReuseProofs` | theorems | each extends the module it is named after |
| `RodinProofs` | theorems about sessions and about merges | extends `RodinSession` and `RodinSync` |
| `MC*` | model values, small definitions, budgets and symmetry for TLC | |

Conventions. Names are the code's where TLA+ allows it. A variable that is not in the code is marked
*history*. An action is a section of code no other thread can interleave with: one map operation,
one section under a lock, one atomic access, or, in a handler, everything between two awaits. A
definition labelled *mutant* is a plausible bug of the definition it stands beside: it is not part of
the specification, and `PROJECT.json` names the property that excludes it.

**DocumentStore.** `documents` is the DashMap, `heap` the document objects behind it (`Arc<RwLock<
Document>>`), `cell` the parse cells (`Arc<OnceLock<..>>`). Objects and cells are named by the
revision drawn when they are made, so equality of names is `Arc::ptr_eq`, and the name of an object
in the map need not be the name of the cell it holds now. Editors run `open` (`Open`, `OpenInsert`,
`OpenRetire`), `change` (`Change` looks up, `ChangeEdit` writes under the lock) and `close`
(`CloseFlag`, `CloseRemove`, `CloseBump`). Readers run `parse_result` with one attempt, or two if
they are of `Interactive` requests: lookup, read under the guard, initialize the cell or wait for
its initializer, look up again, recheck; then they may commit. The rope and position arithmetic of
an edit is abstracted to the text it leaves, one of `TypedText` (an open shows one of `FileText`);
the parse is abstracted to the text it was made of, which is all that `Paired` tells apart. An
editor may open a document it has open already; the refinement to `Buffers` names the buffers that
such an open is replacing (`leaving`), which may still be committed until they are retired, and
edited by a change that looked its buffer up before it was replaced (`EditLeaving`).

**HintsCache.** A computation reads its stamp, then the document, then each file of the closure in
any order, each in one step (what `parse_result` returns is live as it returns, which is what
`ReadsAreFresh` says of the store). A hint list is the record of what it was computed from.
Requests and notifications are handled between one another (`ServerIdle`), computations overlap them.
The dependency closure of a document is a constant.

**CrossRefIndex.** The four kinds of write the server makes differ in the new value of the entry and
in their own notion of whether anything moved; then all run the same steps: insert into the name
index, forget, look up the representative of each touched name, write the graph, advance the
generation. `remove_component` is called by tests only and left out. The lookup of a declaration is
one step. It has no specification of its own: a writer is a job of the two modules above it.

**SweepCache.** Buffers, disk and shared inputs change first and are announced by a later step: the
index write of an analysis, of a close or of a watched-file event (`due`), or the republish that
follows a shared change (`owed`). A sweep takes the files one by one, loads the two counters one
after the other, the metadata, and then reads every input on its own. Files are not deleted; a
report reads every file of the workspace rather than its closure, so it depends on more than the
code's does.

**WorkspaceScan.** A *job* is a closure on the blocking pool with the handler that waits for it: a
scan of one folder after another (`ScanFile`, `ScanFails`, `IndexXrefs`, `IndexSymbols`,
`ScanEnds`), a refresh after a save or a watched-file event (`Refresh*`), the removal of a folder
(`DropFolders`). It reads a file at one moment, writes the cross-reference index at another and the
symbol index at a third. Keys are numbered: a file by its canonical name, and other spellings of it
(`Alias`) that `register` resolves once the file exists. The writes of the index overlap step by step,
those of jobs and that of the editor's task, as nothing is locked from the edit of a layer to the
graph; only writes of one file's overlay take turns (`OverlayFree`). A client is taken to name a
folder once. Six variables are history, and are the exceptions the properties allow: for `IndexInStep`,
`crossed` (names two writes have had to rebuild at once, and none alone since) and `mixed` (the same
of a name in one file); for `SavedLayersSettle` and `AnswersOnce`, `unseen` (files changed
with nobody to report it), `shared` (files two jobs have had in hand at once, and none alone since),
`raced` (files written while they were shared, and not by a job alone since) and `early` (spellings
looked up before their file existed). A save's refresh may start before its analysis, which the code
does not do; it makes more interleavings, not fewer.

**DiagnosticsPipeline.** `server` is the handler that runs and has not awaited yet; a task that has
awaited goes on beside the others, and is used again when it is done. A published diagnostic is
what it was computed from: its revision, its obligation list, the shared inputs whose changes
republish every document (`shared`: configuration, proof status, watched files), and the workspace
graph: the buffers and committed overlays of all documents, and the saved layers (`saved`), which the
scan fills (`ScanFolder`). `Commit`, `DidClose`, `DropDocument` and `ScanFolder` move the graph and
republish nobody. `moved[u]` is history: the documents, or the disk, that moved since `u` was last
opened, edited, saved or republished. The lock map's `Arc` count is the set of tasks whose `lock` is
that lock, plus the entry. The mutex is tokio's, a fair queue. `client_open` says what the editor has
done.

**RodinWatcher.** A handler reads the configuration and leaves both slots without an await in
between, so it is one step; the creations are separate and take as long as they take. `superseded`
is history: the slot has been given to something else since this start.

**RodinSync.** One source file with one component. `client` is the editor's buffer, `server` the
document as the last notification left it (`Notify`), `file` what is saved, `xml` the component in
the Rodin project, `base` the snapshot under `.base`, `written` the recorded hash. A build is
`begin_build`, the sources read, the component written, the base removed and written again, the
component read back and hashed, the hash recorded, the guard dropped, each a step. The watcher takes
a batch while no build is in flight, classifies it, reads its own side (`ReadOurs`), the base
(manifest and snapshot are one), then the component, merges, and applies the result to the buffer by
a versioned edit, or to the file. A text is a function from lines to values: a "line" is a region
the merge treats by itself, and `Marker` stands for a conflict. Printing and importing a component
lose nothing, so a component has a hash of its own for each text; in the code Rodin's own
serialization of an unchanged component may hash differently, which only makes more merges, and ones
that find nothing. A restart may fall anywhere: it forgets hashes and events, and begins with the
startup batch. Any number of builds may run at once. `agreed`, `touched` (Rodin has changed the
component since the last build wrote) and `overlapped` (that build wrote while another had read the
component back and not recorded its hash) are history. The buffer's versions are taken to grow over a
close and a reopen. The settings that turn mirror and sync off are taken as on.

**RodinSession.** The flow behind the lens is one record with a program counter (the guard lets one
run at a time): `CreateProgress`, `Announce`, `SeedProbe`, `Seed`, `Check`, `ReadFlowBuild`,
`WriteFlowBuild`, `ProbeLock`, `Register`, `Launch`, `AwaitLock`. A save has a rebuild task:
`DidSave` draws a generation, `Wake` compares it after the sleep, `RebuildWanted` probes the lock,
`ReadRebuild` and `WriteRebuild` build. The monitor waits for the end of the session, then for
builds (`Settle`), and mirrors project by project. A probe or a copy may fail (`Fails`, at most
`MaxFaults` times), one file of a seed or of a mirror pass or the seed as a whole (`SeedFails`,
`MirrorFails`), and the server may restart. A build is down to what it does to the projects that
exist; a project has one proof file, whose content is a number. `due` (saved and not built), `owed`
(the very content a watched session left and the checkout is to get), `replaced` (projects whose owed
content a seed wrote over), `backed` and `foreign` (checkout proofs the
workspace has had; that came in mid-session) and `failed` are history.

**ObligationFiles.** One component. The content of an obligation is its goal and the hypotheses it
inherits, one predicate set for all; its name stays. `sources` is what the sources generate now. A
build reads `.bpo` and `.bps`, computes both anew (`ReconcileObligations`, `ReconcileStatuses`), in
the command line runs the status pass over `.bpr` (`StatusPass`), and writes file by file; a
clean-up likewise; a crash may fall at each step, and leave the file being written broken off, for
the kinds in `Torn`. Builds overlap one another step by step. `clobbered` is history: an obligation
file was written while another build was under way, or was left broken off. Rodin takes an obligation with its stamp (`StartAttempt`) and records proof and
status later (`FinishAttempt`), with dependencies that may be less than it was given. A status row
carries what it was reached from (`proof`), which is not in the file and read by nothing but the
properties.

**Sequents** and **ProofReuse.** A sequent binds typed names, has hypotheses, some selected, some
hidden, and a goal. Predicates are those that rules tell apart: `In(x)`, and its two
quantifications. `Modify` and `Perform` are the mutators; the `moved` flag is `ptr_eq`. Of the
reasoners there is one of each way a rule depends on its sequent (closing by a hypothesis, freeing a
goal's or a hypothesis' variable, instantiating, a cut, a selection step, a review, an external
prover, one that depends on a datatype). A tree is kept flat, as a function from the places of its
nodes, and grows rule by rule: by hand (`Prove`), or by a reconstruction, whose recursive calls are
the entries of `todo`, each at a node still open and for a place of the stored skeleton. One call at
a time is taken (`ReuseStep`, `ReplayStep`, `RebuildStep`): it ends there (`Return`), or applies a rule
and leaves a call for each child (`Descend`); sibling calls share nothing, so any order will do. A
tree is stored (`Save`) with the dependencies `FromTree` computes, and brought back after the
obligation, the datatypes or the registered version of a reasoner have changed. Validity is decided
over the carriers' sizes (`Holds`, `Entails`), independently of the rules. Antecedents that ask for
the well-definedness of an identifier are true and left out.

## 4. The runs

| Run | Checks | Shows |
|---|---|---|
| `docs` | `TypeOK`, `Paired`, `NoneOnlyWhenOvertaken`, `ReadsAreFresh`, `ImplementsBuffers`, `CallsReturn` | a text is paired with its own parse only; what a read hands out is live as it returns; an interactive request survives one edit; the store implements atomic buffers; calls return while the editor keeps editing |
| `hints` | `HitsOutliveNoEditOrClose` | no hint list outlives an edit or a close in its closure |
| `sweep` | `StaleHitsAreAnnounced` | a stale report is served only while its change is still being announced |
| `scan` | `WTypeOK`, `IndexInStep`, `SavedLayersSettle`, `AnswersOnce` | the index writes of scans, saves and analyses, overlapping, leave names and graph right, but for names two of them met over; at rest both indexes hold what is saved; a document answers for its own file, under whichever spelling |
| `diagnostics` | `TypeOK`, `OnePublisher`, `QuietShowsLatest`, `NeverOlder`, `EditsAreReported` | mutual exclusion under a lock map whose entries come and go; order and convergence of what is published; each revision is published or overtaken |
| `watcher` | `TypeOK`, `StartsAreOwned`, `SupersededLiveIsDiscarded`, `StartsSettle` | no slot waits for a start that is gone; a late connection leaves the slot alone; a slot that says starting stops saying so |
| `rodin` | `CancelledNeverLaunches`, `SavesAreBuilt`, `ArmedWorkIsMirrored`, `BootsAlone`, `DeletionsAreRodins`, `StaleMergesAreRefused`, `OwnWritesAreDropped` | one Rodin while one boots; cancels are honoured; the debounce forgets no save; a watched session's work reaches the checkout, unless a seed replaced it first, and only Rodin's deletions do; nothing typed while a merge is computed is overwritten; a build is not taken for an edit made in Rodin |
| `obligations` | `TypeOK`, `BelievedIsEarned`, `SkippedIsProved`, `RebuildIsStable`, `UnchangedKeepVerdicts`, `StatusPassSettles` | a status is believed only if its proof applies, through edits, clean-ups, crashes and overlapping builds, until an obligation file is clobbered; no verdict is lost to reconciliation; rebuilding changes nothing |
| `reuse` | `TypeOK`, `ReusableProofsReapply`, `DischargedIsValid`, `TreesAreSound`, `RenamedProofsRebuild` | a proof the dependencies accept goes through; what is called discharged holds; a tree above the reviewed range proves its root, so a rebuild never raises a step it could not check; taken names are renamed |
| `rodin_revert` | `OnlyRodinsLinesMove`, violated | finding 1 |
| `obligations_lost` | `ProofStateSurvives`, violated | finding 2 |
| `reuse_clash` | `AcceptedProofsApply`, violated | finding 3 |

**Bounds.** Each is a constant of the module and named in the guards it limits, or a budget in the
MC module that several of them share.

- `MaxRevision` (store, hints, diagnostics): revisions drawn. The races of the store need an open, a
  close or one more edit, and a reopen: four; a reader with two attempts meets two edits and a close
  within that. Hints need an open of each of two files, a close and a reopen, five. In the pipeline
  three: two tasks are used again and again, so a third or fourth analysis on the same lock entry
  happens with them.
- One URI suffices for the store, which relates no two documents: its calls touch only their own
  entry, and the counter they share only grows. Hints need two, a document and a dependency.
- The pipeline does relate documents: each one's diagnostics are derived from the others' buffers and
  overlays. The run has one document and the scan, which moves the graph under it as another document
  would (without a republish, at any moment); with two documents the tasks and revisions that keep
  the races of one document would not finish in time. `QuietIsLatest` is proved for any number of
  them. `MaxChanges` is one: a shared change or a scan.
- Readers: two, since a parse cell has an initializer and a waiter; one of them interactive. One
  editor, since notifications are handled in one task. Two texts in `docs`, to tell a parse from
  another's; one in `hints`, where objects are told apart by their names.
- `MaxTexts`, `MaxShared` (sweep): a sweep has to miss one change to be wrong; two text changes, one
  shared change and three index writes fall in each order around its steps.
- `MaxEvents` (scan): two. What goes wrong with the indexes needs two events around jobs: a document
  opened before its file exists and a save, a folder removed and added again, a save during the
  startup scan. Two files in two folders, one or both there to begin with, an alias of the first,
  three texts that differ in name, in kind and in number of components; two jobs at once. Up to the first event index writes overlap in
  every way; after it a write is finished before anything else happens (`MeetEarly`, `Turns`). What
  writes do to each other takes two of them, and both are there by then: the scan of one folder and an
  analysis, a refresh or a close. `MaxGeneration` (20) is not reached within them.
- `MaxLease` (watcher): leases are single-use; three make away-and-back possible. Two
  directories and two starts under way at once: the one a slot waits for and one it has outlived.
- `MaxVersion`, `MaxRestarts` (sync): an open, an edit while a merge is computed, and the merge's
  own edit make three versions; one restart, which takes the place of one of them. One line of two
  values lets each side move; finding 1 needs two lines. Two builders in `rodin`, which
  overlap as long as nothing has been typed and the server has not been restarted; none in
  `rodin_revert`, which needs no build beyond the one that made the initial state.
- `rodin` runs sessions or merges, never both at once: `RodinSession` and `RodinSync` share no state
  in these models. Of sessions: one project, and `MaxEvents` three for saves, sessions and faults
  together: two saves around the first build restart the debounce at one, and a session, a fault and
  a save make each window of the lock. Two contents of the proof file, so that Rodin's work is told
  from the seed.
- `obligations`: two obligations, two contents, two builders, any file broken off by a crash, and an
  event budget of three out of two edits, one proof, one crash, one clean-up: an edit away and back,
  with a proof or a crash between. While the builders overlap the budget is two (two edits, or an edit
  and a proof, which is what makes two builds plan for different contents), and they do so before any
  crash or clean-up; once `clobbered` it is one, as the properties about stamps say no more then.
- `reuse`: trees of up to three rules over four names, of which at most three can be taken, so that
  the solver of fresh names never runs out; two types; six obligations: the same sequent with and
  without its hypothesis, and with the name its proof introduces taken at that type or another; a
  datatype of one or two elements; a prover whose first version proves anything. `reuse_clash` needs
  four rules and a lemma, and no more than one type, two obligations and three names.
- `MaxDisk`, `MaxConfig` (hints): one write of each file and one configuration, each of which
  invalidates once.

**Deadlock.** It is checked in `docs`, `hints`, `watcher`, `reuse` and the runs to be violated but
`obligations_lost`. In the others
`CHECK_DEADLOCK FALSE` is set because there the bounded inputs run out: a server that has handled
its last notification, with each task idle and each lock free, really has nothing left to do; a
session whose saves and starts are spent is over. That tasks do not wait for one another for ever is `EditsAreReported` and `CallsReturn`.

**Fairness.** `DocumentStore`: weak fairness of each editor's and reader's own steps, once its call
has begun (threads are scheduled; every section is short and none waits except for the initializer
of a parse cell, which is itself such a thread). Calls need not be made. `DiagnosticsPipeline`: weak
fairness of each task's `Proceed`: the runtime polls woken tasks, a debounce timer fires, the
blocking pool returns and tokio's mutex hands over in order; notifications need not arrive.
`RodinWatcher`: weak fairness of the return of each start: creating a watcher ends, and an attempt
to connect is retried only until the boot deadline has passed. Nothing is assumed strongly fair.
The other modules are checked for safety only: what must happen in the end (the last save, the
mirror pass) is stated of the states in which all is quiet.

**Symmetry** permutes lines and values (other than `Blank`), obligations, contents and builders
where no definition orders or chooses among them, and only in runs of invariants and action
properties.

## 5. What the runs found

Three runs are to be violated; `PROJECT.json` quotes the line each contradicts.

1. `rodin/sync.rs:413`: after a clean merge the base advances to the merged text, lines edited in the
   source included, while the component does not have those lines before the next build. The next
   save in Rodin, or the startup batch, sees the component differ from the base there, follows it,
   and takes the edit made in the source back. Rodin's own text is the ancestor that would be right.
2. `rodin/build.rs:142`: a build reads `.bps` and writes it after everything else, while Rodin holds
   the workspace. A proof recorded in between is overwritten with the row read before, and as its
   stamp is current nothing recomputes it.
3. `prove/deps.rs:287`: "a stored proof applies to `seq` iff" what it depends on is there (line 64). A
   rebuild can keep a step that frees an existential hypothesis the obligation has lost, since
   `ExF::replay` does not look for it; an inference that did not fire counts for nothing, and the name
   it would have introduced may be introduced by a step below. Once the hypothesis is back the
   dependencies accept the proof, the inference fires, and the step below is refused.

Seen while modelling, without a run. Names in parentheses are properties stated in the modules that
the code does not keep.

*Buffers, hints, index, diagnostics*

- `server.rs:2149` (`ClosedByEditorIsDropped`): `did_open` awaits before it stores the buffer; a
  `did_close` handled in between finds nothing to close, and the server keeps a document the editor
  has closed.
- `document.rs:109` (`CommitsAreLive`): a second `open` of an open document inserts the new object
  before it retires the old one; a commit of the old buffer can land in between.
- `document.rs:106` (`HitsMatchBuffers`): `open` draws its revision before the buffer is in the map.
  Hints computed in between are stored under the new counter from the old input.
- `inlay_hints.rs:99` (`HitsMatchDisk`): hints are stamped with the buffer counter only; a closed
  dependency rewritten on disk leaves them valid.
- `cross_references.rs:127` (`ContainsEveryKind`): a context and a machine of one name share the
  name's node; `contains` denies the other.
- `cross_references.rs:345`, `:383`: two writers of one
  file may update the name index, two of one name the graph, in the order opposite to their edits; the
  index is then wrong until a write has the name alone. `IndexInStep` exempts these names (`mixed`,
  `crossed`) and no other, and fails without either exemption.
- `server.rs:623`: an obligation list computed before a close and a reopen is stored after them: a
  document that is open may show, as its list, that of an earlier session. `QuietShowsLatest` says
  only that the list that is stored is the one that is shown.
- `server.rs:266`, `:1980`, `:2218`: a commit, a scan and a close move what the diagnostics of other
  open documents are derived from, and nothing republishes these until they are touched themselves.
  The comment at `server.rs:346` says so of edits. `QuietShowsLatest` therefore exempts what moved
  since a document was last touched, and nothing else.

*Scan*

- `server.rs:60`: "the two cannot disagree about what is on disk"; but overlapping refreshes, or a
  scan and a refresh, of one file may index the older text last, and in one index only. A save
  during the startup scan can be overwritten by the scan's older reading. `SavedLayersSettle`
  exempts such files (`raced`). The exemption ends only when a job that has the file to itself writes
  it: a later scan that fails, or a removal of the folder that does not meet the file, leaves the
  older text where it is. The proof found that an exemption ending with the overlap is too short.
- `server.rs:2296`: watched-file events are kept only if they lie in the first folder, so external
  changes in a second folder are never indexed; with no folder at startup no watcher is registered;
  changes between the scan's reading and the registration, and after a failed scan or reading, are
  unannounced (`unseen`).
- `cross_references.rs:588` (`ScannedIsComplete`): the flag goes up when one folder has been scanned,
  though another has failed or is still to come.
- A folder removed while its scan runs leaves the files indexed that the scan writes afterwards.
- `uri_identity.rs:35`: a spelling opened before its file exists keeps its syntactic key; once it is
  resolved the overlay under the old key stays (`early`).

*Rodin: watcher, synchronization*

- `server.rs:1441` (`SupersededSyncIsDiscarded`): a watcher start knows itself by its directory. Away
  from a directory and back, the first start ends the second.
- `server.rs:1400` (`WatchesConfigured`): a configuration change to a directory that does not exist
  keeps the old watcher.
- `rodin/sync.rs:412` (`BaseParses`): the base does not advance to a text in which this merge left
  markers, but does when an earlier merge left them and this one is clean. From then on nothing is
  synced for the file until it is built again.
- `rodin/sync.rs:178`: a build that begins between the test of `building()` and the classification
  is taken for Rodin's; `OwnWritesAreDropped` allows for that window.
- `rodin/build.rs:182`: components are read back to be hashed, so a save of Rodin's between the
  write and the reading is recorded as the server's own and never merged. With two builds at once
  the hashes may be recorded in the order opposite to the writes; `OwnWritesAreDropped` allows for
  that (`overlapped`).
- `server.rs:498`: a merge whose document was closed, or never open, overwrites the file without
  asking what it holds now.

*Rodin: session, mirror*

- `rodin/mod.rs:199`: a click before the monitor has seen that Rodin quit seeds the project from the
  checkout before the mirror pass of the session that ended. "The checkout is authoritative when a
  session starts (seed), the workspace when it ends (mirror-back)" (`rodin/proof_mirror.rs:7`): the
  seed puts the older proofs over the newer ones, and the mirror pass copies them back.
  `ArmedWorkIsMirrored` asks for the very content the session left; it exempts what a seed replaced
  before that (`replaced`), and is violated without the exemption.
- `rodin/proof_mirror.rs:281`: a project armed after the monitor has seen the end of the session, and
  before it returns, joins a monitor that will not watch the session it was armed for ("the running
  session still ends someday — arm the stop monitor so its proofs are mirrored back",
  `rodin/mod.rs:330`).
- `rodin/proof_mirror.rs:103`: a file the seed fails to copy does not keep `seeded` from being set;
  the mirror then deletes a checkout proof the workspace never had. So it does with one that version
  control brings in mid-session.
- A restart while Rodin boots, or a probe that answers `Unknown`, lets a click launch a second one.
- Two overlapping builds (lens and save) may leave the older text.

*Obligation files*

- `server.rs:1500`, `pog/reconcile.rs`: two builds at once plan the same fresh stamp for different
  contents, and a row reached under the first file is believed under the second.
- `pog/reconcile.rs:148`: with `.bpo` broken off and `.bps` there, stamps start again at
  zero, and an old row is believed. `BelievedIsEarned` and `SkippedIsProved` therefore hold until an
  obligation file is clobbered in one of these two ways, and fail without that condition
  (`AllEarned`). No later write is sure to repair it, as the row stays.
- `src/crates/rossi-cli/src/commands/clean.rs:298`: without `.bpo` the rows of proofs that were
  emptied stay; a crash between `.bpr` and `.bps` of a clean-up leaves the same.

*Prover*

- `prove/builder.rs:57` and `prove/reasoners/inference.rs:460`: names freed from an existential
  hypothesis are not among the renaming hints, so a proof with such a step is not rebuilt when its name is taken.
- `prove/builder.rs:151`: `replay` hands its reasoners no hints. A proof that the dependencies accept,
  because a name its tree mentions is never introduced (the inference that would do so went unused or
  did not fire), fails to replay where that name is taken: the reasoner picks another, and the steps
  below mean the old one. `ReusableProofsReapply` asks that the names made are free.
- `prove/bpr.rs:943`: a rule of an untrusted version whose stored confidence was below the uncertain
  range is raised to it on load.

## 6. What is proved

Each theorem holds for every value of the constants that satisfies the assumptions the modules
state; the bounds are constants, so the theorems are about each bound. It is of the form
`Spec => []P`, `Spec => [][A]_vars` or, once, `Spec => Abstract!Spec`. TLC agreed to each property
before it was proved. Behind each is an invariant that the steps keep; where the property itself is
one of the conjuncts, the others are there because some step would break it without them.

All invariants and action properties of the passing runs are proved; liveness is left to TLC.

**DocumentProofs** (any URIs, editors, readers, texts, versions, closures; a document may be opened
while it is open). *Shape* is `TypeOK`, *Allocated* (an object in the map exists and was named by a revision
already drawn; a cell not yet drawn is empty), *EditorsHold* and *ReadersHold* (each program counter
with the fields it needs).

- `TypeCorrect`, from *Shape*.
- `TextMatchesParse == Spec => []Paired`: "no window where a reader pairs one version's text with
  another's AST". To survive `InitEnd` one must know that the text a reader brought along is that of
  whichever object owns the cell, and to survive `ChangeEdit` that the new cell is empty and nobody
  else's; *Pairing* adds *CellsOwned*, *TextsHeld* and *Filled*.
- `ReadsFindLiveParses` and `StoreIsAtomic == Spec => ImplementsBuffers`, from *Placed*: an open
  object is the entry of one URI or has been replaced by an open that is about to retire it
  (*EntriesOwned*, *Unseen*, *Replaced*), and whoever looked one up that is still open finds it there
  (*EditorsPlaced*, *ReadersPlaced*). Then each step that writes an open object is an edit, a close or
  a commit of `Buffers`, of the live buffer or of one that is leaving, and each other step is a
  stutter. This is what showed that `Buffers` must have `EditLeaving`.
- `InteractiveSurvivesOneEdit == Spec => NoneOnlyWhenOvertaken`. No buffer becomes live under a name
  it had before, so an attempt that comes to nothing has seen one live parse more than when it began.
  *Witnessed* counts them: what a call has seen is finite, as many as its attempts, has the live parse
  among it, and what it has in hand is still live unless it was overtaken. *Parsed* says the cell it
  rechecks is filled.
- `HintsNeverOutliveEdits == HSpec => []HitsOutliveNoEditOrClose`. What a computation read stays what
  it read for as long as the counter shows its stamp; *ComputationsLast* says so of every view in the
  making and *EntriesLast* of every entry. An edit draws its revision as it changes the buffer; a close
  changes it first and draws last, and no lookup falls between, because notifications and requests are
  handled one at a time.

**SweepCacheProofs** (any files, texts, sweeps, writers): `StaleReportsAreAnnounced`. A sweep loads
both counters before it reads anything. The invariant speaks of what a sweep has read so far
(*SweepsHold*) as of what a report was made of (*ReportsHold*): where it is not what is there now, the
change is still to be announced, or the counter has moved past the one loaded (*Excused*).

**WorkspaceScanProofs** (any files, spellings, folders, texts, jobs).

- `IndexStaysInStep == WSpec => []IndexInStep`, over every interleaving of the steps of any number of
  writes. A write has the names to rebuild that its edit drops or declares; a name that did not meet
  is one write's to rebuild (*Lone*). That write knows whether to file it or to withdraw it
  (*Filed*), and what it has looked up stays what represents the name until the graph is written
  (*Drawn*), for whatever another write edits meanwhile is other names. A name nobody has to rebuild
  is filed and drawn already.
- `OverlaysFollowDocuments == WSpec => []AnswersOnce`. A file is open under one spelling (*OneOpen*),
  which was resolved when it was opened unless its file did not exist (*OpenIsKnown*); so analysis and
  close meet the entry of the file, and no other spelling has one (*AliasesEmpty*, *Overlaid*).
- `SavedLayersFollowDisk == WSpec => []SavedLayersSettle`. A file that one job alone has in hand is
  what that job read, unless a save or a report of it is still to be followed (*TextsCurrent*); what
  is written is what the other index has or is about to take (*LayersMatch*), and is current but
  where a job has read the file and not written it yet (*LayersCurrent*). *HeldOnce* and *HandsKnown*
  say who has what in hand.
- `ScanTypeCorrect`, from all of these and *Rooted*: the root is the first folder while there is one.

**DiagnosticsPipelineProofs** (any documents, revisions, shared changes and scans; a finite set of
tasks and at least as many locks, so that a new entry always finds one).

- `TypeCorrect`, from *Typed*.
- `OneTaskPublishes == Spec => []OnePublisher`. The lock protects a document although its entry comes
  and goes, because every task that has a reference and is not past the eviction has the one in the
  entry (*EntriesOwned*), and who is under a lock is the head of its queue (*Queued*).
- `RevisionsAdvance == Spec => NeverOlder`: what a task under the lock is about to publish is not older
  than what is shown (*Ordered*).
- `QuietIsLatest == Spec => []QuietShowsLatest`. For an open document somebody will derive its
  diagnostics from inputs read later, behind every close that still waits to publish (*Good*,
  *Pending*), unless nobody is about to show anything but what its buffer and the inputs say, but for
  what has moved since it was touched (*Undisturbed*). For a closed document a close
  has yet to publish, or nobody else will (*ClearShown*).

**RodinWatcherProofs** (any directories, starts, leases): `TypeCorrect`, `SlotsAreOwned`,
`SupersededIsDiscarded`. The invariant is `TypeOK`, *SyncOwned* and *LiveOwned* (a slot that says
Starting has its start in flight), *LeasesPast* (every lease in flight was drawn, and no two starts
have the same).

**RodinProofs.**

- Sessions (any projects, saves, sessions, faults): `TypeCorrect`, `CancelsAreHonoured`,
  `NoSaveIsForgotten`, `WorkIsMirrored`, `LaunchesAlone`, `OnlyRodinDeletes`. The invariant has one
  conjunct for each: *CancelInv* (a token that was shown and asked for is heard before the launch),
  *DueInv* (a project saved and not built has a task that will read it, whatever its generation),
  *OwedInv* (what a project is owed and no seed has replaced is what the workspace holds, and the
  project is armed in a monitor that has not passed it), *BootInv* (a
  Rodin that boots has its flow waiting, or a fault has come in between), *SeedInv* (a checkout proof
  of a project armed as seeded has been in the workspace, or came in mid-session).
- Merges (any lines, values, versions, restarts and builds): `SyncTypeCorrect`, and
  `MergesMeetTheirText == SyncSpec => StaleMergesAreRefused` from *Past*: what the
  server or a merge knows is no newer than the editor's document, and under the editor's version it is
  the editor's text, so an edit taken under the
  version it was computed for meets the text it was computed from.
- `BuildsAreNoEdits == SyncSpec => OwnWritesAreDropped` from *HashInv*, for any number of builds at
  once: when none is under way the recorded hash is that of the component, unless Rodin has changed
  it, the hashes were lost, or the last build wrote over what another was about to record.

**ObligationFilesProofs** (any obligations, contents, kinds, crashes).

- For any number of builders and whatever a crash breaks off: `TypeCorrect`, `RebuildsSettle`
  (reconciling a second time changes nothing), `VerdictsAreKept` (an unchanged obligation keeps its
  row), `StatusesSettle` (a second status pass finds nothing to do).
- `StatusesAreEarned` and `SkippedAreProved`, for the same builders and crashes, up to the moment an
  obligation file is clobbered: a build that writes one alone has planned its stamps for the file it
  replaces. The invariant: *FilesInv* (stamps are not above the
  file's highest and rows not above those), *AttemptInv* (what Rodin works on under a stamp is what
  the stamp stands for as long as it does), *BuildInv* (the files a build has computed are right for
  the ones it has not replaced yet); it is kept while nothing is clobbered. Section 5 says what two
  overlapping builds and a broken file do.

**ProofReuseProofs** (any names, types, obligations, lemmas, theories, releases, trees of any size).

- Of sequents: `ModifyKeepsWellFormed`, `PerformKeepsWellFormed`, `UnmovedIsUnchanged`: a mutator gives
  a well-formed sequent that binds and assumes all the old one did; an action that reports no change
  has made none.
- `ReuseTypeCorrect`, `SoundTrees == Spec => []TreesAreSound`, `DischargedObligationsHold == Spec =>
  []DischargedIsValid`, `AcceptedProofsReapply == Spec => []ReusableProofsReapply` and
  `RenamedProofsAreRebuilt == Spec => []RenamedProofsRebuild`, from one invariant. *TreeInv*: every node has a well-formed sequent, and under a rule one of the shapes a
  reasoner makes (*Formed*) the children that rule generates; an external step was earned, by a
  truth in all theories or, above the uncertain range, in those in force (*Earned*, *Held*).
  *StoredInv*: the stored proof is the skeleton, with the dependencies and the confidence, of some
  such tree, and calls are for places of it.
- What dependencies mean is said of one rule at a time. *Own*: they are part of the sequent they were
  computed at, and what they introduce is new there (`OwnNode`). *Proves*: if every step below is
  sound, the hypotheses in them entail the goal (`ProvesNode`), which is where a fired inference is
  traded for its source, and where a name freed must not occur in what is left. *Meets*: what
  `is_proof_reusable` tests of another sequent is enough for the rule to apply there (`MeetsApplies`)
  and for each child to meet what its sub-proof needs (`MeetsChild`). The last is false when a name
  is made again below; `NamesApart` is the condition, and finding 3 is how it fails.
- From rules to trees without induction over data: among the nodes where a claim fails there is a
  topmost one, as the lengths of places are bounded (`Topmost`); its children satisfy the claim, and
  the lemma about one rule contradicts it. `DepsOf` is a recursive function, unfolded once by
  well-founded recursion on the same lengths (`DepsUnfold`).
- For the reuse theorem the invariant follows the calls: as long as all is accepted, a call is for the
  place it was recorded at, and its sequent meets what the sub-proof there needs (*Reached*); a
  replay, moreover, finds every name it makes free, and then makes the recorded rule again
  (`ReplaysAlike`).
- The rebuild theorem relates two sequents instead of comparing one with the dependencies: the
  recorded one and the one the call is at. *Carries* says that the latter has, under the hints of the
  call, the goal, hypotheses and identifiers the sub-proof needs of the former. What a reasoner makes
  of the renamed input is the recorded rule under the hints and those the names it introduces add
  (*Mirrors*, `ReplayMirrors`, one case per reasoner); such a rule applies (`MirrorApplies`) and its
  children carry what is needed above them (`MirrorChild`). The hints may name only what the recorded
  environment binds: that is why a name introduced anew never clashes with one pending. *Mirrored*
  keeps the tree rule for rule, at equal confidence, to the recorded one as far as the calls have got.
  Its hypotheses: some name is free wherever one is wanted (`NamesLeft`), which the code's unbounded
  supply of suffixes gives and a finite set of names need not; and no uncertain rule is recorded
  (`CertainOnly`), as `prove/builder.rs:189-195` replays those in one mode only, and then at full confidence.

**Only model-checked.**

- Liveness: `CallsReturn`, `EditsAreReported`, `StartsSettle`. They rest on fairness and so on
  ENABLED, which this prover does not reach.
- `OnlyRodinsLinesMove` and `ProofStateSurvives`, which the code does not keep.

## 7. What is not modelled

- Parser, printer, XML, formula kernel, static checker, generator, language feature providers:
  functions of text, trees or one snapshot, without state. Their questions are about characters and
  large case distinctions, of which a model that tells as much apart would be a transliteration.
- The reasoners beyond one of each kind, and the tactics that choose among them.
- Process launching, the bridge's wire protocol, ProB and its reports, workspace preferences: I/O.
- The live connection's merging (an ancestor of its own for the same file), pruning of removed
  components, several components in a file, and the push of proof status to the client.
- The dependency graph's algorithms; the commands of the command line other than build and clean;
  fuzzers, release tooling and the editors' extensions.
- Within what is modelled: position arithmetic, file deletion under a sweep, two writes within one
  tick of a file's modification time, the resolution of a closure, the failure of a lock (poisoning),
  the order of elements in obligation files.

## 8. Plan

1. `RodinSync`: the live connection, with its own ancestor; several components in a file.
2. Topological order, cycle detection and visible contexts of the dependency graph against their
   definitions.

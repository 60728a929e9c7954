------------------------------ MODULE SweepCache ------------------------------
(***************************************************************************)
(* The reports of the workspace/diagnostic sweep (eventb-lsp, server.rs),  *)
(* over the index of CrossRefIndex.  A closed file's report is computed on *)
(* a blocking thread from the files of the workspace (an open buffer       *)
(* answers for its file), the index and the inputs the whole server        *)
(* shares, and is reused for as long as two counters and the file's own    *)
(* metadata stand still.                                                   *)
(*                                                                         *)
(* The inputs change first and are announced later: a buffer by the index  *)
(* write of its analysis, a write to disk by that of its watched-file      *)
(* event, a shared input (configuration, overlays, folders) by the         *)
(* republish that follows it.  Files are not deleted here, and a report    *)
(* reads every file rather than the dependency closure of its own.         *)
(***************************************************************************)
EXTENDS CrossRefIndex

CONSTANTS
    Sweeper,        \* sweeps in progress at once
    Text,           \* what a file or a buffer may hold
    LayerOf,        \* text -> the components it declares
    Empty,          \* the text every file starts with
    MaxTexts,       \* bound on the writes to disk and the edits of buffers
    MaxShared       \* bound on the changes of the shared inputs

ASSUME TextAssumption == Empty \in Text /\ Null \notin Text
ASSUME LayerOfAssumption == LayerOf \in [Text -> Layer] /\ LayerOf[Empty] = << >>

VARIABLES
    disk,               \* file -> the text saved for it
    modified,           \* file -> its modification time and length
    buffer,             \* file -> its open buffer, or Null
    texts,              \* how many texts have been written so far
    due,                \* changes whose index write has not begun
    shared,             \* how often a shared input changed
    owed,               \* changes of it whose republish has not begun
    diagnostic_inputs,  \* the counter republish_all_diagnostics advances
    sweep_reports,      \* file -> its SweepReport, or Null
    sweep               \* per sweep: the pull_report in progress

sourceVars == << disk, modified, buffer, texts, due >>
sharedVars == << shared, owed, diagnostic_inputs >>
reportVars == << sweep_reports, sweep >>
sweepVars == << vars, sourceVars, sharedVars, reportVars >>

NoSweep == [pc |-> "idle", todo |-> {}, uri |-> Null, inputs |-> << 0, 0 >>,
            file |-> 0, view |-> << >>]

Source(f) == IF buffer[f] # Null THEN buffer[f] ELSE disk[f]

(* What a report says is decided by these inputs.                            *)
Parts == ({"source"} \X File) \cup {<< "graph", 0 >>, << "names", 0 >>, << "shared", 0 >>}
Part(p) == CASE p[1] = "source" -> Source(p[2])
             [] p[1] = "graph" -> graph
             [] p[1] = "names" -> name_to_uris
             [] p[1] = "shared" -> shared

Hits(f) ==
    /\ sweep_reports[f] # Null
    /\ sweep_reports[f].inputs = << diagnostic_inputs, generation >>
    /\ sweep_reports[f].file = modified[f]

SInit ==
    /\ Init
    /\ disk = [f \in File |-> Empty]
    /\ modified = [f \in File |-> 0]
    /\ buffer = [f \in File |-> Null]
    /\ texts = 0 /\ due = {}
    /\ shared = 0 /\ owed = 0 /\ diagnostic_inputs = 0
    /\ sweep_reports = [f \in File |-> Null]
    /\ sweep = [s \in Sweeper |-> NoSweep]

-----------------------------------------------------------------------------
(* The inputs: each changes here and is announced by a later step.           *)

SetBuffer(f, t) ==
    /\ texts < MaxTexts
    /\ buffer' = [buffer EXCEPT ![f] = t]
    /\ texts' = texts + 1
    /\ due' = due \cup {<< f, "open" >>}
    /\ UNCHANGED << vars, disk, modified, sharedVars, reportVars >>

(* A close drops its overlays before the next open is handled.               *)
OpenOrChange(f) ==
    /\ buffer[f] = Null => << f, "open" >> \notin due
    /\ \E t \in Text : SetBuffer(f, t)

Close(f) == buffer[f] # Null /\ SetBuffer(f, Null)

SaveFile(f) ==
    /\ texts < MaxTexts
    /\ \E t \in Text : disk' = [disk EXCEPT ![f] = t]
    /\ modified' = [modified EXCEPT ![f] = @ + 1]
    /\ texts' = texts + 1
    /\ due' = due \cup {<< f, "disk" >>}
    /\ UNCHANGED << vars, buffer, sharedVars, reportVars >>

ChangeShared ==
    /\ shared < MaxShared
    /\ shared' = shared + 1
    /\ owed' = owed + 1
    /\ UNCHANGED << vars, sourceVars, diagnostic_inputs, reportVars >>

RepublishAll ==
    /\ owed > 0
    /\ diagnostic_inputs' = diagnostic_inputs + 1
    /\ owed' = owed - 1
    /\ UNCHANGED << vars, sourceVars, shared, reportVars >>

(* The index write of a change: an analysis commits the buffer as it is, a   *)
(* watched file is read as it is on disk, a close drops the overlay.         *)
Announces(f, layer) ==
    /\ << f, layer >> \in due
    /\ due' = due \ {<< f, layer >>}
    /\ UNCHANGED << disk, modified, buffer, texts, sharedVars, reportVars >>

CommitAnalysis(w, f) ==
    buffer[f] # Null /\ Announces(f, "open") /\ IndexComponents(w, f, LayerOf[buffer[f]])

DropOverlay(w, f) ==
    buffer[f] = Null /\ Announces(f, "open") /\ RemoveDocument(w, f)

RefreshSaved(w, f) ==
    Announces(f, "disk") /\ IndexDiskComponents(w, f, LayerOf[disk[f]])

-----------------------------------------------------------------------------
(* workspace/diagnostic: one pull_report per file, in any order.             *)

PullUris == {f \in File : documents[f] # [disk |-> << >>, open |-> Null] \/ buffer[f] # Null}

BeginSweep(s) ==
    /\ sweep[s].pc = "idle"
    /\ sweep' = [sweep EXCEPT ![s] = [NoSweep EXCEPT !.pc = "next", !.todo = PullUris]]
    /\ sweep_reports' = [f \in File |-> IF f \in PullUris THEN sweep_reports[f] ELSE Null]
    /\ UNCHANGED << vars, sourceVars, sharedVars >>

EndSweep(s) ==
    /\ sweep[s].pc = "next" /\ sweep[s].todo = {}
    /\ sweep' = [sweep EXCEPT ![s] = NoSweep]
    /\ UNCHANGED << vars, sourceVars, sharedVars, sweep_reports >>

(* An open buffer reports empty; a closed file goes on to the inputs.        *)
PullReport(s) ==
    /\ sweep[s].pc = "next"
    /\ \E f \in sweep[s].todo :
        sweep' = [sweep EXCEPT ![s] =
            [@ EXCEPT !.todo = @ \ {f},
                      !.pc = IF buffer[f] # Null THEN "next" ELSE "inputs",
                      !.uri = IF buffer[f] # Null THEN Null ELSE f]]
    /\ UNCHANGED << vars, sourceVars, sharedVars, sweep_reports >>

(* Mutant: the generation is left to the moment the report is stored.        *)
StoreLateInputs(s) ==
    /\ sweep[s].pc = "compute" /\ DOMAIN sweep[s].view = Parts
    /\ sweep_reports' = [sweep_reports EXCEPT ![sweep[s].uri] =
                           [inputs |-> << diagnostic_inputs, generation >>,
                            file |-> sweep[s].file, view |-> sweep[s].view]]
    /\ sweep' = [sweep EXCEPT ![s] = [NoSweep EXCEPT !.pc = "next", !.todo = sweep[s].todo]]
    /\ UNCHANGED << vars, sourceVars, sharedVars >>

(* Two loads, read before computing.                                         *)
ReadInputs(s) ==
    /\ sweep[s].pc = "inputs"
    /\ sweep' = [sweep EXCEPT ![s].pc = "generation", ![s].inputs[1] = diagnostic_inputs]
    /\ UNCHANGED << vars, sourceVars, sharedVars, sweep_reports >>

ReadGeneration(s) ==
    /\ sweep[s].pc = "generation"
    /\ sweep' = [sweep EXCEPT ![s].pc = "file", ![s].inputs[2] = generation]
    /\ UNCHANGED << vars, sourceVars, sharedVars, sweep_reports >>

Finished(s) == [NoSweep EXCEPT !.pc = "next", !.todo = sweep[s].todo]

(* The cached report answers when it was computed from the same inputs.      *)
ReadMetadata(s) ==
    /\ sweep[s].pc = "file"
    /\ LET f == sweep[s].uri
           hit == /\ sweep_reports[f] # Null
                  /\ sweep_reports[f].inputs = sweep[s].inputs
                  /\ sweep_reports[f].file = modified[f]
       IN sweep' = [sweep EXCEPT ![s] =
                      IF hit THEN Finished(s)
                      ELSE [@ EXCEPT !.pc = "compute", !.file = modified[f]]]
    /\ UNCHANGED << vars, sourceVars, sharedVars, sweep_reports >>

(* The file itself is read first, the rest in any order.                     *)
NextParts(s) ==
    LET own == << "source", sweep[s].uri >> IN
    IF own \in DOMAIN sweep[s].view THEN Parts \ DOMAIN sweep[s].view ELSE {own}

Compute(s) ==
    /\ sweep[s].pc = "compute"
    /\ \E p \in NextParts(s) :
        sweep' = [sweep EXCEPT ![s].view =
                    [q \in DOMAIN @ \cup {p} |-> IF q = p THEN Part(p) ELSE @[q]]]
    /\ UNCHANGED << vars, sourceVars, sharedVars, sweep_reports >>

StoreReport(s) ==
    /\ sweep[s].pc = "compute" /\ DOMAIN sweep[s].view = Parts
    /\ sweep_reports' = [sweep_reports EXCEPT ![sweep[s].uri] =
                           [inputs |-> sweep[s].inputs, file |-> sweep[s].file,
                            view |-> sweep[s].view]]
    /\ sweep' = [sweep EXCEPT ![s] = Finished(s)]
    /\ UNCHANGED << vars, sourceVars, sharedVars >>

SNext ==
    \/ \E f \in File : OpenOrChange(f) \/ Close(f) \/ SaveFile(f)
    \/ ChangeShared \/ RepublishAll
    \/ \E w \in Writer :
        \/ Step(w) /\ UNCHANGED << sourceVars, sharedVars, reportVars >>
        \/ \E f \in File : CommitAnalysis(w, f) \/ DropOverlay(w, f) \/ RefreshSaved(w, f)
    \/ \E s \in Sweeper :
        \/ BeginSweep(s) \/ EndSweep(s) \/ PullReport(s) \/ ReadInputs(s)
        \/ ReadGeneration(s) \/ ReadMetadata(s) \/ Compute(s) \/ StoreReport(s)

SSpec == SInit /\ [][SNext]_sweepVars

-----------------------------------------------------------------------------
(* Properties.                                                              *)

(* "A report is reused until one of its inputs changes": a report that would *)
(* be served differs from one computed now only where the announcement of a  *)
(* change is still to come, or an index write is in progress.                *)
Announced(p) ==
    \/ p[1] = "shared" /\ owed > 0
    \/ p[1] # "shared" /\ ~ AtRest
    \/ p[1] = "source" /\ \E layer \in {"disk", "open"} : << p[2], layer >> \in due

StaleHitsAreAnnounced ==
    \A f \in File : Hits(f) =>
        \A p \in Parts : sweep_reports[f].view[p] # Part(p) => Announced(p)
=============================================================================

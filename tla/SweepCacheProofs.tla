--------------------------- MODULE SweepCacheProofs ---------------------------
(***************************************************************************)
(* What holds of the sweep's cached reports for any number of files,       *)
(* sweeps and index writers, and any texts.                                *)
(*                                                                         *)
(* The argument: a sweep loads both counters before it reads anything, so  *)
(* whatever it read and is another now has changed since.  A change of a   *)
(* source is due until its index write begins; from then on a writer is    *)
(* busy, and it advances the generation as it finishes.  A change of a     *)
(* shared input is owed until the republish advances the other counter.    *)
(* So the invariant speaks of what a sweep has read so far as of what a    *)
(* report was made of, and excuses a difference by the announcement that   *)
(* is to come or by the counter that has moved past the one loaded.        *)
(***************************************************************************)
EXTENDS SweepCache, TLAPS

(* The records of an index write and of a sweep, whatever other values their *)
(* fields hold.                                                              *)
WriterRecord(S) ==
    [pc : {"idle", "index", "bump"}, uri : S, overlay : S, insert : S, forget : S,
     unread : S, pending : S]

SweepRecord(S) ==
    [pc : {"idle", "next", "inputs", "generation", "file", "compute"}, todo : S, uri : S,
     inputs : Nat \X Nat, file : S, view : S]

(* The counters a report was stamped with had been reached.                  *)
InputsPast(inputs) ==
    /\ inputs \in Nat \X Nat
    /\ inputs[1] <= diagnostic_inputs /\ inputs[2] <= generation

(* The change of an input is still to be announced, or a counter has moved.  *)
Excused(p, inputs) ==
    \/ Announced(p)
    \/ p[1] = "shared" /\ diagnostic_inputs > inputs[1]
    \/ p[1] # "shared" /\ generation > inputs[2]

ViewHolds(view, inputs) ==
    \A p \in Parts \cap DOMAIN view : view[p] # Part(p) => Excused(p, inputs)

CountersTyped == generation \in Nat /\ diagnostic_inputs \in Nat /\ owed \in Nat /\ shared \in Nat

WritersShaped == \E S : writer \in [Writer -> WriterRecord(S)]

SweepsHold ==
    /\ \E S : sweep \in [Sweeper -> SweepRecord(S)]
    /\ \A s \in Sweeper :
        /\ sweep[s].pc # "compute" => sweep[s].view = << >>
        /\ InputsPast(sweep[s].inputs)
        /\ ViewHolds(sweep[s].view, sweep[s].inputs)

ReportsHold ==
    /\ sweep_reports = [f \in File |-> sweep_reports[f]]
    /\ \A f \in File : sweep_reports[f] # Null =>
        /\ InputsPast(sweep_reports[f].inputs)
        /\ ViewHolds(sweep_reports[f].view, sweep_reports[f].inputs)
        /\ DOMAIN sweep_reports[f].view = Parts

SourcesShaped ==
    /\ disk = [f \in File |-> disk[f]]
    /\ buffer = [f \in File |-> buffer[f]]

SInv == CountersTyped /\ SourcesShaped /\ WritersShaped /\ SweepsHold /\ ReportsHold

-----------------------------------------------------------------------------
(* Index writes.                                                            *)

(* What a step of an index write shows to the sweeps.                        *)
WriterMoves ==
    /\ generation' \in Nat /\ generation <= generation'
    /\ AtRest' => generation < generation' \/ UNCHANGED << graph, name_to_uris, writer >>

(* A write that has begun is at work until it advances the generation.       *)
LEMMA StepMoves ==
    ASSUME CountersTyped, WritersShaped, NEW w \in Writer, Step(w)
    PROVE  WriterMoves /\ WritersShaped'
<1>1. PICK S : writer \in [Writer -> WriterRecord(S)]
  BY DEF WritersShaped
<1>2. writer[w] \in WriterRecord(S)
  BY <1>1
<1>3. CASE InsertName(w)
  <2>1. PICK n \in writer[w].insert : writer' = [writer EXCEPT ![w].insert = @ \ {n}]
    BY <1>3 DEF InsertName
  <2>2. writer' \in [Writer -> WriterRecord(S \cup {writer[w].insert \ {n}})]
    BY <1>1, <1>2, <2>1 DEF WriterRecord
  <2>3. ~ AtRest'
    BY <1>1, <1>2, <1>3, <2>1 DEF InsertName, AtRest, WriterRecord
  <2>4. WritersShaped'
    BY <2>2 DEF WritersShaped
  <2>5. WriterMoves
    BY <1>3, <2>3 DEF WriterMoves, InsertName, CountersTyped
  <2> QED
    BY <2>4, <2>5
<1>4. CASE ForgetDeclaration(w)
  <2>1. PICK n \in writer[w].forget : writer' = [writer EXCEPT ![w].forget = @ \ {n}]
    BY <1>4 DEF ForgetDeclaration
  <2>2. writer' \in [Writer -> WriterRecord(S \cup {writer[w].forget \ {n}})]
    BY <1>1, <1>2, <2>1 DEF WriterRecord
  <2>3. ~ AtRest'
    BY <1>1, <1>2, <1>4, <2>1 DEF ForgetDeclaration, AtRest, WriterRecord
  <2>4. WritersShaped'
    BY <2>2 DEF WritersShaped
  <2>5. WriterMoves
    BY <1>4, <2>3 DEF WriterMoves, ForgetDeclaration, CountersTyped
  <2> QED
    BY <2>4, <2>5
<1>5. CASE ReadDeclaration(w)
  <2>1. PICK n \in writer[w].unread :
          writer' = [writer EXCEPT ![w].unread = @ \ {n},
                     ![w].pending = [x \in DOMAIN @ \cup {n} |->
                        IF x = n THEN Representative(name_to_uris[n], n) ELSE @[x]]]
    BY <1>5 DEF ReadDeclaration
  <2>2. PICK read : read = [x \in DOMAIN writer[w].pending \cup {n} |->
                              IF x = n THEN Representative(name_to_uris[n], n)
                              ELSE writer[w].pending[x]]
    OBVIOUS
  <2>3. writer' = [writer EXCEPT ![w] = [writer[w] EXCEPT !.unread = @ \ {n}, !.pending = read]]
    BY <2>1, <2>2, <1>1, <1>2 DEF WriterRecord
  <2>4. writer' \in [Writer -> WriterRecord(S \cup {writer[w].unread \ {n}, read})]
    BY <1>1, <1>2, <2>3 DEF WriterRecord
  <2>5. ~ AtRest'
    BY <1>1, <1>2, <1>5, <2>3 DEF ReadDeclaration, AtRest, WriterRecord
  <2>6. WritersShaped'
    BY <2>4 DEF WritersShaped
  <2>7. WriterMoves
    BY <1>5, <2>5 DEF WriterMoves, ReadDeclaration, CountersTyped
  <2> QED
    BY <2>6, <2>7
<1>6. CASE WriteGraph(w)
  <2>1. writer' = [writer EXCEPT ![w] = [writer[w] EXCEPT !.pc = "bump", !.pending = << >>]]
    BY <1>1, <1>2, <1>6 DEF WriteGraph, WriterRecord
  <2>2. writer' \in [Writer -> WriterRecord(S \cup {<< >>})]
    BY <1>1, <1>2, <2>1 DEF WriterRecord
  <2>3. ~ AtRest'
    BY <1>1, <1>2, <2>1 DEF AtRest, WriterRecord
  <2>4. WritersShaped'
    BY <2>2 DEF WritersShaped
  <2>5. WriterMoves
    BY <1>6, <2>3 DEF WriterMoves, WriteGraph, CountersTyped
  <2> QED
    BY <2>4, <2>5
<1>7. CASE Bump(w)
  <2>1. Idle \in WriterRecord({Null, FALSE, {}, << >>})
    BY DEF Idle, WriterRecord
  <2>2. writer' \in [Writer -> WriterRecord(S \cup {Null, FALSE, {}, << >>})]
    BY <1>1, <1>7, <2>1 DEF Bump, WriterRecord
  <2>3. WritersShaped'
    BY <2>2 DEF WritersShaped
  <2>4. WriterMoves
    BY <1>7 DEF WriterMoves, Bump, CountersTyped
  <2> QED
    BY <2>3, <2>4
<1> QED
  BY <1>3, <1>4, <1>5, <1>6, <1>7 DEF Step

(* As a write begins, its writer is at work.                                 *)
LEMMA WriteBegins ==
    ASSUME CountersTyped, WritersShaped, NEW w \in Writer, NEW f, NEW overlay, NEW new, NEW moved,
           WriteLayer(w, f, overlay, new, moved)
    PROVE  UNCHANGED generation /\ ~ AtRest' /\ WritersShaped'
<1>1. PICK S : writer \in [Writer -> WriterRecord(S)]
  BY DEF WritersShaped
<1>2. PICK before, after : writer' = [writer EXCEPT ![w] =
            IF moved THEN [Idle EXCEPT !.pc = "index", !.uri = f, !.overlay = overlay,
                                       !.insert = after, !.forget = before \ after,
                                       !.unread = before \cup after]
            ELSE [Idle EXCEPT !.pc = "bump", !.uri = f, !.overlay = overlay]]
  BY DEF WriteLayer
<1>3. PICK T : Idle \in WriterRecord(T)
  <2>1. Idle \in WriterRecord({Null, FALSE, {}, << >>})
    BY DEF Idle, WriterRecord
  <2> QED
    BY <2>1
<1> DEFINE New == T \cup {f, overlay, after, before \ after, before \cup after}
<1>4. PICK x : /\ writer' = [writer EXCEPT ![w] = x]
               /\ x.pc # "idle"
               /\ x \in WriterRecord(New)
  <2>1. CASE moved
    <3> DEFINE x == [Idle EXCEPT !.pc = "index", !.uri = f, !.overlay = overlay,
                                 !.insert = after, !.forget = before \ after,
                                 !.unread = before \cup after]
    <3>1. x \in WriterRecord(New) /\ x.pc = "index"
      BY <1>3 DEF WriterRecord
    <3>2. writer' = [writer EXCEPT ![w] = x]
      BY <1>2, <2>1
    <3> HIDE DEF x
    <3> QED
      BY <3>1, <3>2
  <2>2. CASE ~ moved
    <3> DEFINE x == [Idle EXCEPT !.pc = "bump", !.uri = f, !.overlay = overlay]
    <3>1. x \in WriterRecord(New) /\ x.pc = "bump"
      BY <1>3 DEF WriterRecord
    <3>2. writer' = [writer EXCEPT ![w] = x]
      BY <1>2, <2>2
    <3> HIDE DEF x
    <3> QED
      BY <3>1, <3>2
  <2> QED
    BY <2>1, <2>2
<1>5. writer' \in [Writer -> WriterRecord(S \cup New)]
  <2> HIDE DEF New
  <2> QED
    BY <1>1, <1>4 DEF WriterRecord
<1>6. WritersShaped'
  BY <1>5 DEF WritersShaped
<1>7. ~ AtRest'
  BY <1>1, <1>4 DEF AtRest
<1> QED
  BY <1>6, <1>7 DEF WriteLayer

-----------------------------------------------------------------------------
(* What the sweeps see of a step.                                           *)

Advanced(p) == IF p[1] = "shared" THEN diagnostic_inputs < diagnostic_inputs'
                                  ELSE generation < generation'

(* Counters only grow, an input that changes is announced, and a change is   *)
(* announced until a counter has moved.                                      *)
Announcing ==
    /\ CountersTyped'
    /\ generation <= generation' /\ diagnostic_inputs <= diagnostic_inputs'
    /\ \A p \in Parts : Part(p)' # Part(p) \/ Announced(p) => Announced(p)' \/ Advanced(p)

(* A difference that was excused stays excused, and a new one is.            *)
LEMMA ViewLasts ==
    ASSUME CountersTyped, Announcing, NEW view, NEW inputs,
           InputsPast(inputs), ViewHolds(view, inputs)
    PROVE  InputsPast(inputs)' /\ ViewHolds(view, inputs)'
<1>1. InputsPast(inputs)'
  BY DEF CountersTyped, Announcing, InputsPast
<1>2. ASSUME NEW p \in Parts \cap DOMAIN view, view[p] # Part(p)'
      PROVE  Excused(p, inputs)'
  <2>1. CASE Announced(p)'
    BY <2>1 DEF Excused
  <2>2. CASE Advanced(p)
    BY <2>2 DEF Advanced, Excused, InputsPast, CountersTyped, Announcing
  <2>3. CASE ~ Announced(p) /\ Part(p)' = Part(p)
    <3>1. Excused(p, inputs) /\ ~ Announced(p)
      BY <1>2, <2>3 DEF ViewHolds
    <3> QED
      BY <3>1 DEF Excused, InputsPast, CountersTyped, Announcing
  <2> QED
    BY <2>1, <2>2, <2>3 DEF Announcing
<1> QED
  BY <1>1, <1>2 DEF ViewHolds

(* A part is a source, the graph, the names or the shared inputs.            *)
LEMMA PartOf ==
    ASSUME NEW p \in Parts
    PROVE  \/ \E f \in File : p[1] = "source" /\ p[2] = f /\ Part(p) = Source(f) /\ Part(p)' = Source(f)'
           \/ p[1] = "graph" /\ Part(p) = graph /\ Part(p)' = graph'
           \/ p[1] = "names" /\ Part(p) = name_to_uris /\ Part(p)' = name_to_uris'
           \/ p[1] = "shared" /\ Part(p) = shared /\ Part(p)' = shared'
<1>1. CASE p \in {"source"} \X File
  <2>1. PICK f \in File : p = << "source", f >>
    BY <1>1
  <2> QED
    BY <2>1 DEF Part
<1>2. CASE p = << "graph", 0 >>
  BY <1>2 DEF Part
<1>3. CASE p = << "names", 0 >>
  BY <1>3 DEF Part
<1>4. CASE p = << "shared", 0 >>
  BY <1>4 DEF Part
<1> QED
  BY <1>1, <1>2, <1>3, <1>4 DEF Parts

(* A buffer that changes is due, and so is a file.                           *)
LEMMA SourceAnnounces ==
    ASSUME CountersTyped, SourcesShaped, NEW f \in File,
           (\E t : SetBuffer(f, t)) \/ SaveFile(f)
    PROVE  Announcing /\ SourcesShaped' /\ UNCHANGED << writer, reportVars >>
<1>1. /\ UNCHANGED << vars, sharedVars, reportVars >>
      /\ \A g \in File \ {f} : buffer'[g] = buffer[g] /\ disk'[g] = disk[g]
      /\ \E layer \in {"disk", "open"} : due' = due \cup {<< f, layer >>}
      /\ SourcesShaped'
  <2>1. CASE \E t : SetBuffer(f, t)
    BY <2>1 DEF SetBuffer, SourcesShaped
  <2>2. CASE SaveFile(f)
    BY <2>2 DEF SaveFile, SourcesShaped
  <2> QED
    BY <2>1, <2>2
<1>2. \A g \in File \ {f} : Source(g)' = Source(g)
  BY <1>1 DEF Source
<1>3. ASSUME NEW p \in Parts, Part(p)' # Part(p) \/ Announced(p)
      PROVE  Announced(p)'
  <2>1. AtRest' = AtRest /\ owed' = owed
    BY <1>1 DEF vars, sharedVars, AtRest
  <2>2. CASE Announced(p)
    BY <1>1, <2>1, <2>2 DEF Announced
  <2>3. CASE p[1] = "source" /\ p[2] = f
    BY <1>1, <2>3 DEF Announced
  <2>4. CASE Part(p)' # Part(p) /\ ~ (p[1] = "source" /\ p[2] = f)
    BY <1>1, <1>2, <2>4, PartOf DEF vars, sharedVars
  <2> QED
    BY <1>3, <2>2, <2>3, <2>4
<1> QED
  BY <1>1, <1>3 DEF Announcing, CountersTyped, vars, sharedVars

(* A shared change is owed until its republish.                              *)
LEMMA SharedAnnounces ==
    ASSUME CountersTyped, ChangeShared \/ RepublishAll
    PROVE  Announcing /\ UNCHANGED << writer, reportVars >>
<1>1. /\ UNCHANGED << vars, sourceVars, reportVars >>
      /\ \/ shared' = shared + 1 /\ owed' = owed + 1 /\ UNCHANGED diagnostic_inputs
         \/ owed > 0 /\ owed' = owed - 1 /\ diagnostic_inputs' = diagnostic_inputs + 1 /\ UNCHANGED shared
  BY DEF ChangeShared, RepublishAll
<1>2. CountersTyped'
  BY <1>1 DEF CountersTyped, vars
<1>3. \A f \in File : Source(f)' = Source(f)
  BY <1>1 DEF sourceVars, Source
<1>4. ASSUME NEW p \in Parts, Part(p)' # Part(p) \/ Announced(p)
      PROVE  Announced(p)' \/ Advanced(p)
  <2>1. AtRest' = AtRest /\ due' = due
    BY <1>1 DEF vars, sourceVars, AtRest
  <2>2. CASE p[1] = "shared"
    BY <1>1, <2>2 DEF Announced, Advanced, CountersTyped
  <2>3. CASE p[1] # "shared"
    <3>1. Part(p)' = Part(p)
      BY <1>1, <1>3, <2>3, PartOf DEF vars
    <3> QED
      BY <1>4, <2>1, <2>3, <3>1 DEF Announced
  <2> QED
    BY <2>2, <2>3
<1> QED
  BY <1>1, <1>2, <1>4 DEF Announcing, CountersTyped, vars

(* An index write is announced while it is under way, and advances the       *)
(* generation as it is done.                                                 *)
LEMMA WriteAnnounces ==
    ASSUME CountersTyped, WritersShaped, NEW w \in Writer,
           \/ Step(w) /\ UNCHANGED << sourceVars, sharedVars, reportVars >>
           \/ \E f \in File : CommitAnalysis(w, f) \/ DropOverlay(w, f) \/ RefreshSaved(w, f)
    PROVE  Announcing /\ WritersShaped' /\ UNCHANGED reportVars
<1>1. CASE Step(w) /\ UNCHANGED << sourceVars, sharedVars, reportVars >>
  <2>1. WriterMoves /\ WritersShaped'
    BY <1>1, StepMoves
  <2>2. CountersTyped'
    BY <1>1, <2>1 DEF WriterMoves, CountersTyped, sharedVars
  <2>3. \A f \in File : Source(f)' = Source(f)
    BY <1>1 DEF sourceVars, Source
  <2>4. ASSUME NEW p \in Parts, Part(p)' # Part(p) \/ Announced(p)
        PROVE  Announced(p)' \/ Advanced(p)
    <3>1. CASE p[1] = "shared"
      BY <1>1, <2>4, <3>1, PartOf DEF Announced, sharedVars
    <3>2. CASE p[1] # "shared"
      <4>1. CASE ~ AtRest' \/ generation < generation'
        BY <3>2, <4>1 DEF Announced, Advanced
      <4>2. CASE AtRest' /\ ~ generation < generation'
        <5>1. UNCHANGED << graph, name_to_uris, writer >>
          BY <2>1, <4>2 DEF WriterMoves
        <5>2. Part(p)' = Part(p)
          BY <2>3, <3>2, <5>1, PartOf
        <5> QED
          BY <1>1, <2>4, <3>2, <5>1, <5>2 DEF Announced, AtRest, sourceVars
      <4> QED
        BY <4>1, <4>2
    <3> QED
      BY <3>1, <3>2
  <2> QED
    BY <1>1, <2>1, <2>2, <2>4 DEF Announcing, WriterMoves, sharedVars, CountersTyped
<1>2. ASSUME NEW f \in File, CommitAnalysis(w, f) \/ DropOverlay(w, f) \/ RefreshSaved(w, f)
      PROVE  Announcing /\ WritersShaped' /\ UNCHANGED reportVars
  <2>1. PICK overlay, new, moved : WriteLayer(w, f, overlay, new, moved)
    BY <1>2 DEF CommitAnalysis, DropOverlay, RefreshSaved, IndexComponents,
                IndexDiskComponents, RemoveDocument
  <2>2. UNCHANGED << sharedVars, reportVars >>
    BY <1>2 DEF CommitAnalysis, DropOverlay, RefreshSaved, Announces
  <2>3. UNCHANGED generation /\ ~ AtRest' /\ WritersShaped'
    BY <2>1, WriteBegins
  <2>4. ASSUME NEW p \in Parts, Part(p)' # Part(p) \/ Announced(p)
        PROVE  Announced(p)'
    <3>1. CASE p[1] = "shared"
      BY <2>2, <2>4, <3>1, PartOf DEF Announced, sharedVars
    <3>2. CASE p[1] # "shared"
      BY <2>3, <3>2 DEF Announced
    <3> QED
      BY <3>1, <3>2
  <2> QED
    BY <2>2, <2>3, <2>4 DEF Announcing, CountersTyped, sharedVars
<1> QED
  BY <1>1, <1>2

-----------------------------------------------------------------------------
(* The invariant.                                                           *)

(* A step that leaves the sweeps alone keeps what they have read.            *)
LEMMA ReadsLast ==
    ASSUME SInv, Announcing, UNCHANGED reportVars
    PROVE  SweepsHold' /\ ReportsHold'
<1>1. sweep' = sweep /\ sweep_reports' = sweep_reports
  BY DEF reportVars
<1>2. ASSUME NEW s \in Sweeper
      PROVE  InputsPast(sweep[s].inputs)' /\ ViewHolds(sweep[s].view, sweep[s].inputs)'
  <2>1. PICK view, inputs : view = sweep[s].view /\ inputs = sweep[s].inputs
    OBVIOUS
  <2>2. InputsPast(inputs)' /\ ViewHolds(view, inputs)'
    BY <2>1, ViewLasts DEF SInv, SweepsHold
  <2> QED
    BY <1>1, <2>1, <2>2 DEF InputsPast, ViewHolds, Excused
<1>3. ASSUME NEW f \in File, sweep_reports[f] # Null
      PROVE  /\ InputsPast(sweep_reports[f].inputs)'
             /\ ViewHolds(sweep_reports[f].view, sweep_reports[f].inputs)'
  <2>1. PICK view, inputs : view = sweep_reports[f].view /\ inputs = sweep_reports[f].inputs
    OBVIOUS
  <2>2. InputsPast(inputs)' /\ ViewHolds(view, inputs)'
    BY <1>3, <2>1, ViewLasts DEF SInv, ReportsHold
  <2> QED
    BY <1>1, <2>1, <2>2 DEF InputsPast, ViewHolds, Excused
<1>4. SweepsHold'
  BY <1>1, <1>2 DEF SInv, SweepsHold
<1>5. ReportsHold'
  BY <1>1, <1>3 DEF SInv, ReportsHold
<1> QED
  BY <1>4, <1>5

(* A step of one sweep that stores no report: its counters and what it has   *)
(* read are as the invariant asks.                                           *)
LEMMA SweepMoves ==
    ASSUME SInv, NEW s \in Sweeper, NEW S, NEW x \in SweepRecord(S),
           sweep' = [sweep EXCEPT ![s] = x],
           UNCHANGED << vars, sourceVars, sharedVars >>,
           x.pc # "compute" => x.view = << >>,
           InputsPast(x.inputs), ViewHolds(x.view, x.inputs)
    PROVE  SweepsHold'
<1>1. PICK R : sweep \in [Sweeper -> SweepRecord(R)]
  BY DEF SInv, SweepsHold
<1>2. sweep' \in [Sweeper -> SweepRecord(R \cup S)]
  BY <1>1 DEF SweepRecord
<1>3. ASSUME NEW q \in Sweeper
      PROVE  /\ sweep'[q].pc # "compute" => sweep'[q].view = << >>
             /\ InputsPast(sweep'[q].inputs)
             /\ ViewHolds(sweep'[q].view, sweep'[q].inputs)
  BY <1>1 DEF SInv, SweepsHold
<1>4. UNCHANGED << generation, diagnostic_inputs, owed, due, writer, disk, buffer, graph,
                   name_to_uris, shared >>
  BY DEF vars, sourceVars, sharedVars
<1>5. \A p : Announced(p)' = Announced(p) /\ Part(p)' = Part(p)
  BY <1>4 DEF Announced, Part, Source, AtRest
<1>6. ASSUME NEW q \in Sweeper
      PROVE  /\ InputsPast(sweep[q].inputs)'
             /\ ViewHolds(sweep[q].view, sweep[q].inputs)'
  <2>1. PICK view, inputs : view = sweep'[q].view /\ inputs = sweep'[q].inputs
    OBVIOUS
  <2>2. InputsPast(inputs) /\ ViewHolds(view, inputs)
    BY <1>3, <2>1
  <2>3. InputsPast(inputs)' /\ ViewHolds(view, inputs)'
    BY <1>4, <1>5, <2>2 DEF InputsPast, ViewHolds, Excused
  <2> QED
    BY <2>1, <2>3 DEF InputsPast, ViewHolds, Excused
<1> QED
  BY <1>2, <1>3, <1>6 DEF SweepsHold

(* Nothing has been read yet.                                                *)
LEMMA NothingRead ==
    ASSUME CountersTyped, NEW inputs
    PROVE  InputsPast(<< 0, 0 >>) /\ ViewHolds(<< >>, inputs)
BY DEF CountersTyped, InputsPast, ViewHolds

(* A counter loaded into its place of the pair.                              *)
LEMMA PairLoads ==
    ASSUME NEW t \in Nat \X Nat, NEW n \in Nat
    PROVE  /\ [t EXCEPT ![1] = n] = << n, t[2] >>
           /\ [t EXCEPT ![2] = n] = << t[1], n >>
OBVIOUS

(* Reports that stay, or go, or come from a sweep that read every part.      *)
LEMMA ReportsKept ==
    ASSUME SInv, UNCHANGED << vars, sourceVars, sharedVars >>,
           sweep_reports' = [f \in File |-> sweep_reports'[f]],
           \A f \in File :
               \/ sweep_reports'[f] = sweep_reports[f]
               \/ sweep_reports'[f] = Null
               \/ /\ InputsPast(sweep_reports'[f].inputs)
                  /\ ViewHolds(sweep_reports'[f].view, sweep_reports'[f].inputs)
                  /\ DOMAIN sweep_reports'[f].view = Parts
    PROVE  ReportsHold'
<1>1. UNCHANGED << generation, diagnostic_inputs, owed, due, writer, disk, buffer, graph,
                   name_to_uris, shared >>
  BY DEF vars, sourceVars, sharedVars
<1>2. \A p : Announced(p)' = Announced(p) /\ Part(p)' = Part(p)
  BY <1>1 DEF Announced, Part, Source, AtRest
<1>3. ASSUME NEW f \in File, sweep_reports'[f] # Null
      PROVE  /\ InputsPast(sweep_reports[f].inputs)'
             /\ ViewHolds(sweep_reports[f].view, sweep_reports[f].inputs)'
             /\ DOMAIN sweep_reports'[f].view = Parts
  <2>1. PICK view, inputs : view = sweep_reports'[f].view /\ inputs = sweep_reports'[f].inputs
    OBVIOUS
  <2>2. InputsPast(inputs) /\ ViewHolds(view, inputs) /\ DOMAIN view = Parts
    BY <1>3, <2>1 DEF SInv, ReportsHold
  <2>3. InputsPast(inputs)' /\ ViewHolds(view, inputs)'
    BY <1>1, <1>2, <2>2 DEF InputsPast, ViewHolds, Excused
  <2> QED
    BY <2>1, <2>2, <2>3 DEF InputsPast, ViewHolds, Excused
<1> QED
  BY <1>3 DEF ReportsHold

(* Each step of a sweep keeps what it and the reports are made of.           *)
LEMMA SweepKeeps ==
    ASSUME SInv, NEW s \in Sweeper,
           \/ BeginSweep(s) \/ EndSweep(s) \/ PullReport(s) \/ ReadInputs(s)
           \/ ReadGeneration(s) \/ ReadMetadata(s) \/ Compute(s) \/ StoreReport(s)
    PROVE  SInv'
<1>1. PICK S : sweep \in [Sweeper -> SweepRecord(S)]
  BY DEF SInv, SweepsHold
<1>2. sweep[s] \in SweepRecord(S)
  BY <1>1
<1>3. /\ sweep[s].pc # "compute" => sweep[s].view = << >>
      /\ InputsPast(sweep[s].inputs)
      /\ ViewHolds(sweep[s].view, sweep[s].inputs)
  BY DEF SInv, SweepsHold
<1>4. UNCHANGED << vars, sourceVars, sharedVars >>
  BY DEF BeginSweep, EndSweep, PullReport, ReadInputs, ReadGeneration, ReadMetadata,
         Compute, StoreReport
<1>5. CountersTyped' /\ WritersShaped' /\ SourcesShaped'
  BY <1>4 DEF SInv, CountersTyped, WritersShaped, SourcesShaped, vars, sourceVars, sharedVars
<1>6. ASSUME UNCHANGED sweep_reports PROVE ReportsHold'
  BY <1>4, <1>6, ReportsKept DEF SInv, ReportsHold
<1>7. PICK T : NoSweep \in SweepRecord(T)
  <2>1. NoSweep \in SweepRecord({{}, Null, 0, << >>})
    BY DEF NoSweep, SweepRecord
  <2> QED
    BY <2>1
<1>8. /\ \A inputs : ViewHolds(<< >>, inputs)
      /\ InputsPast(<< 0, 0 >>)
  BY NothingRead DEF SInv
<1>9. CASE BeginSweep(s)
  <2>1. PICK todo : sweep' = [sweep EXCEPT ![s] = [NoSweep EXCEPT !.pc = "next", !.todo = todo]]
    BY <1>9 DEF BeginSweep
  <2> DEFINE x == [NoSweep EXCEPT !.pc = "next", !.todo = todo]
  <2>2. x \in SweepRecord(T \cup {todo}) /\ x.pc = "next" /\ x.view = << >> /\ x.inputs = << 0, 0 >>
    BY <1>7 DEF SweepRecord, NoSweep
  <2>3. SweepsHold'
    <3>1. x.pc # "compute" => x.view = << >>
      BY <2>2
    <3>2. InputsPast(x.inputs) /\ ViewHolds(x.view, x.inputs)
      BY <1>8, <2>2
    <3>3. sweep' = [sweep EXCEPT ![s] = x]
      BY <2>1
    <3> HIDE DEF x
    <3> QED
      BY <1>4, <2>2, <3>1, <3>2, <3>3, SweepMoves
  <2>4. ReportsHold'
    BY <1>4, <1>9, ReportsKept DEF BeginSweep
  <2> QED
    BY <1>5, <2>3, <2>4 DEF SInv
<1>10. CASE EndSweep(s)
  <2>1. SweepsHold'
    <3>1. sweep' = [sweep EXCEPT ![s] = NoSweep] /\ NoSweep.view = << >> /\ NoSweep.inputs = << 0, 0 >>
      BY <1>10 DEF EndSweep, NoSweep
    <3>2. InputsPast(NoSweep.inputs) /\ ViewHolds(NoSweep.view, NoSweep.inputs)
      BY <1>8, <3>1
    <3> QED
      BY <1>4, <1>7, <3>1, <3>2, SweepMoves
  <2> QED
    BY <1>5, <1>6, <1>10, <2>1 DEF SInv, EndSweep
<1>11. CASE PullReport(s)
  <2>1. PICK todo, pc, uri :
            /\ sweep' = [sweep EXCEPT ![s] = [sweep[s] EXCEPT !.todo = todo, !.pc = pc, !.uri = uri]]
            /\ pc \in {"next", "inputs"}
    BY <1>11 DEF PullReport
  <2> DEFINE x == [sweep[s] EXCEPT !.todo = todo, !.pc = pc, !.uri = uri]
  <2>2. /\ x \in SweepRecord(S \cup {todo, uri})
        /\ x.pc # "compute" /\ x.view = sweep[s].view /\ x.inputs = sweep[s].inputs
    BY <1>2, <2>1 DEF SweepRecord
  <2>3. x.view = << >>
    BY <1>3, <1>11, <2>2 DEF PullReport
  <2>4. SweepsHold'
    <3>1. InputsPast(x.inputs) /\ ViewHolds(x.view, x.inputs)
      BY <1>3, <2>2
    <3>2. sweep' = [sweep EXCEPT ![s] = x]
      BY <2>1
    <3> HIDE DEF x
    <3> QED
      BY <1>4, <2>2, <2>3, <3>1, <3>2, SweepMoves
  <2> QED
    BY <1>5, <1>6, <1>11, <2>4 DEF SInv, PullReport
<1>12. CASE ReadInputs(s)
  <2> DEFINE pair == << diagnostic_inputs, sweep[s].inputs[2] >>
             x == [sweep[s] EXCEPT !.pc = "generation", !.inputs = pair]
  <2>1. sweep' = [sweep EXCEPT ![s].pc = "generation", ![s].inputs[1] = diagnostic_inputs]
    BY <1>12 DEF ReadInputs
  <2>2. diagnostic_inputs \in Nat /\ sweep[s].inputs \in Nat \X Nat
    BY <1>2 DEF SInv, CountersTyped, SweepRecord
  <2>3. [sweep[s].inputs EXCEPT ![1] = diagnostic_inputs] = pair
    BY <2>2, PairLoads
  <2>4. sweep' = [sweep EXCEPT ![s] = x]
    BY <1>1, <1>2, <2>1, <2>3 DEF SweepRecord
  <2>5. InputsPast(pair)
    BY <1>3, <2>2 DEF InputsPast
  <2>6. /\ x \in SweepRecord(S) /\ x.pc = "generation" /\ x.inputs = pair
        /\ x.view = sweep[s].view
    BY <1>2, <2>2 DEF SweepRecord
  <2>7. x.view = << >>
    BY <1>3, <1>12, <2>6 DEF ReadInputs
  <2>8. SweepsHold'
    <3>1. InputsPast(x.inputs) /\ ViewHolds(x.view, x.inputs)
      BY <1>8, <2>5, <2>6, <2>7
    <3> HIDE DEF x
    <3> QED
      BY <1>4, <2>4, <2>6, <2>7, <3>1, SweepMoves
  <2> QED
    BY <1>5, <1>6, <1>12, <2>8 DEF SInv, ReadInputs
<1>13. CASE ReadGeneration(s)
  <2> DEFINE pair == << sweep[s].inputs[1], generation >>
             x == [sweep[s] EXCEPT !.pc = "file", !.inputs = pair]
  <2>1. sweep' = [sweep EXCEPT ![s].pc = "file", ![s].inputs[2] = generation]
    BY <1>13 DEF ReadGeneration
  <2>2. generation \in Nat /\ sweep[s].inputs \in Nat \X Nat
    BY <1>2 DEF SInv, CountersTyped, SweepRecord
  <2>3. [sweep[s].inputs EXCEPT ![2] = generation] = pair
    BY <2>2, PairLoads
  <2>4. sweep' = [sweep EXCEPT ![s] = x]
    BY <1>1, <1>2, <2>1, <2>3 DEF SweepRecord
  <2>5. InputsPast(pair)
    BY <1>3, <2>2 DEF InputsPast
  <2>6. /\ x \in SweepRecord(S) /\ x.pc = "file" /\ x.inputs = pair
        /\ x.view = sweep[s].view
    BY <1>2, <2>2 DEF SweepRecord
  <2>7. x.view = << >>
    BY <1>3, <1>13, <2>6 DEF ReadGeneration
  <2>8. SweepsHold'
    <3>1. InputsPast(x.inputs) /\ ViewHolds(x.view, x.inputs)
      BY <1>8, <2>5, <2>6, <2>7
    <3> HIDE DEF x
    <3> QED
      BY <1>4, <2>4, <2>6, <2>7, <3>1, SweepMoves
  <2> QED
    BY <1>5, <1>6, <1>13, <2>8 DEF SInv, ReadGeneration
<1>14. PICK finished : finished = Finished(s)
  OBVIOUS
<1>15. /\ finished \in SweepRecord(S \cup T) /\ finished.pc = "next"
       /\ finished.view = << >> /\ finished.inputs = << 0, 0 >>
  BY <1>2, <1>7, <1>14 DEF Finished, SweepRecord, NoSweep
<1>16. InputsPast(finished.inputs) /\ ViewHolds(finished.view, finished.inputs)
  BY <1>8, <1>15
<1>17. ASSUME sweep' = [sweep EXCEPT ![s] = finished] PROVE SweepsHold'
  BY <1>4, <1>15, <1>16, <1>17, SweepMoves
<1>18. CASE ReadMetadata(s)
  <2>1. PICK file :
            \/ sweep' = [sweep EXCEPT ![s] = finished]
            \/ sweep' = [sweep EXCEPT ![s] = [sweep[s] EXCEPT !.pc = "compute", !.file = file]]
    BY <1>14, <1>18 DEF ReadMetadata
  <2> DEFINE x == [sweep[s] EXCEPT !.pc = "compute", !.file = file]
  <2>2. /\ x \in SweepRecord(S \cup {file}) /\ x.pc = "compute"
        /\ x.view = sweep[s].view /\ x.inputs = sweep[s].inputs
    BY <1>2 DEF SweepRecord
  <2>3. InputsPast(x.inputs) /\ ViewHolds(x.view, x.inputs)
    BY <1>3, <2>2
  <2>4. SweepsHold'
    <3>1. CASE sweep' = [sweep EXCEPT ![s] = x]
      <4> HIDE DEF x
      <4> QED
        BY <1>4, <2>2, <2>3, <3>1, SweepMoves
    <3> QED
      BY <1>17, <2>1, <3>1
  <2> QED
    BY <1>5, <1>6, <1>18, <2>4 DEF SInv, ReadMetadata
<1>19. CASE Compute(s)
  <2>1. PICK p \in NextParts(s) :
            sweep' = [sweep EXCEPT ![s].view =
                        [q \in DOMAIN @ \cup {p} |-> IF q = p THEN Part(p) ELSE @[q]]]
    BY <1>19 DEF Compute
  <2>2. PICK view : view = [q \in DOMAIN sweep[s].view \cup {p} |->
                              IF q = p THEN Part(p) ELSE sweep[s].view[q]]
    OBVIOUS
  <2> DEFINE x == [sweep[s] EXCEPT !.view = view]
  <2>3. sweep' = [sweep EXCEPT ![s] = x]
    BY <2>1, <2>2
  <2>4. /\ x \in SweepRecord(S \cup {view}) /\ x.pc = "compute"
        /\ x.view = view /\ x.inputs = sweep[s].inputs
    BY <1>2, <1>19 DEF SweepRecord, Compute
  <2>5. ViewHolds(view, sweep[s].inputs)
    BY <1>3, <2>2 DEF ViewHolds
  <2>6. SweepsHold'
    <3>1. InputsPast(x.inputs) /\ ViewHolds(x.view, x.inputs)
      BY <1>3, <2>4, <2>5
    <3> HIDE DEF x
    <3> QED
      BY <1>4, <2>3, <2>4, <3>1, SweepMoves
  <2> QED
    BY <1>5, <1>6, <1>19, <2>6 DEF SInv, Compute
<1>20. CASE StoreReport(s)
  <2>1. SweepsHold'
    BY <1>14, <1>17, <1>20 DEF StoreReport
  <2>2. PICK report : /\ sweep_reports' = [sweep_reports EXCEPT ![sweep[s].uri] = report]
                      /\ report.inputs = sweep[s].inputs /\ report.view = sweep[s].view
    <3> DEFINE report == [inputs |-> sweep[s].inputs, file |-> sweep[s].file,
                          view |-> sweep[s].view]
    <3>1. report.inputs = sweep[s].inputs /\ report.view = sweep[s].view
      OBVIOUS
    <3>2. sweep_reports' = [sweep_reports EXCEPT ![sweep[s].uri] = report]
      BY <1>20 DEF StoreReport
    <3> HIDE DEF report
    <3> QED
      BY <3>1, <3>2
  <2>3. /\ InputsPast(report.inputs) /\ ViewHolds(report.view, report.inputs)
        /\ DOMAIN report.view = Parts
    BY <1>3, <1>20, <2>2 DEF StoreReport
  <2>4. sweep_reports = [f \in File |-> sweep_reports[f]]
    BY DEF SInv, ReportsHold
  <2>5. ReportsHold'
    BY <1>4, <2>2, <2>3, <2>4, ReportsKept
  <2> QED
    BY <1>5, <2>1, <2>5 DEF SInv
<1> QED
  BY <1>9, <1>10, <1>11, <1>12, <1>13, <1>18, <1>19, <1>20

(* Nothing has been read and nothing is to be announced at first.            *)
LEMMA InitSweeps == SInit => SInv
<1> SUFFICES ASSUME SInit PROVE SInv
  OBVIOUS
<1>1. CountersTyped /\ SourcesShaped
  BY DEF SInit, Init, CountersTyped, SourcesShaped
<1>2. WritersShaped
  <2>1. Idle \in WriterRecord({Null, FALSE, {}, << >>})
    BY DEF Idle, WriterRecord
  <2>2. writer \in [Writer -> WriterRecord({Null, FALSE, {}, << >>})]
    BY <2>1 DEF SInit, Init
  <2> QED
    BY <2>2 DEF WritersShaped
<1>3. SweepsHold
  <2>1. NoSweep \in SweepRecord({{}, Null, 0, << >>}) /\ NoSweep.view = << >> /\ NoSweep.inputs = << 0, 0 >>
    BY DEF NoSweep, SweepRecord
  <2>2. sweep \in [Sweeper -> SweepRecord({{}, Null, 0, << >>})] /\ \A s \in Sweeper : sweep[s] = NoSweep
    BY <2>1 DEF SInit
  <2> QED
    BY <1>1, <2>1, <2>2, NothingRead DEF SweepsHold
<1>4. ReportsHold
  BY DEF SInit, ReportsHold
<1> QED
  BY <1>1, <1>2, <1>3, <1>4 DEF SInv

(* Every step keeps the invariant.                                           *)
LEMMA NextSweeps == SInv /\ [SNext]_sweepVars => SInv'
<1> SUFFICES ASSUME SInv, [SNext]_sweepVars PROVE SInv'
  OBVIOUS
<1>1. CountersTyped /\ WritersShaped /\ SourcesShaped
  BY DEF SInv
<1>2. ASSUME Announcing, UNCHANGED reportVars, WritersShaped', SourcesShaped'
      PROVE  SInv'
  <2>1. CountersTyped'
    BY <1>2 DEF Announcing
  <2> QED
    BY <1>2, <2>1, ReadsLast DEF SInv
<1>3. ASSUME UNCHANGED writer PROVE WritersShaped'
  BY <1>1, <1>3 DEF WritersShaped
<1>4. ASSUME UNCHANGED << disk, buffer >> PROVE SourcesShaped'
  BY <1>1, <1>4 DEF SourcesShaped
<1>5. ASSUME NEW f \in File, OpenOrChange(f) \/ Close(f) \/ SaveFile(f)
      PROVE  SInv'
  <2>1. (\E t : SetBuffer(f, t)) \/ SaveFile(f)
    BY <1>5 DEF OpenOrChange, Close
  <2>2. Announcing /\ SourcesShaped' /\ UNCHANGED << writer, reportVars >>
    BY <1>1, <2>1, SourceAnnounces
  <2> QED
    BY <1>2, <1>3, <2>2
<1>6. CASE ChangeShared \/ RepublishAll
  <2>1. Announcing /\ UNCHANGED << writer, reportVars >>
    BY <1>1, <1>6, SharedAnnounces
  <2>2. UNCHANGED << disk, buffer >>
    BY <1>6 DEF ChangeShared, RepublishAll, sourceVars
  <2> QED
    BY <1>2, <1>3, <1>4, <2>1, <2>2
<1>7. ASSUME NEW w \in Writer,
             \/ Step(w) /\ UNCHANGED << sourceVars, sharedVars, reportVars >>
             \/ \E f \in File : CommitAnalysis(w, f) \/ DropOverlay(w, f) \/ RefreshSaved(w, f)
      PROVE  SInv'
  <2>1. Announcing /\ WritersShaped' /\ UNCHANGED reportVars
    BY <1>1, <1>7, WriteAnnounces
  <2>2. UNCHANGED << disk, buffer >>
    BY <1>7 DEF CommitAnalysis, DropOverlay, RefreshSaved, Announces, sourceVars
  <2> QED
    BY <1>2, <1>4, <2>1, <2>2
<1>8. CASE UNCHANGED sweepVars
  <2>1. UNCHANGED << vars, sourceVars, sharedVars, reportVars >>
    BY <1>8 DEF sweepVars
  <2>2. UNCHANGED << writer, disk, buffer, generation, diagnostic_inputs, owed, shared, due,
                     graph, name_to_uris >>
    BY <2>1 DEF vars, sourceVars, sharedVars
  <2>3. \A p : Announced(p)' = Announced(p) /\ Part(p)' = Part(p)
    BY <2>2 DEF Announced, Part, Source, AtRest
  <2>4. Announcing
    BY <1>1, <2>2, <2>3 DEF Announcing, CountersTyped
  <2> QED
    BY <1>2, <1>3, <1>4, <2>1, <2>2, <2>4
<1> QED
  BY <1>5, <1>6, <1>7, <1>8, SweepKeeps DEF SNext

(* A report that would be served is what the sweep would compute now, except *)
(* for changes whose announcement is still to come, however many sweeps,     *)
(* index writes and files there are: both counters are loaded before any     *)
(* input, and each input changes before its counter moves.                   *)
THEOREM StaleReportsAreAnnounced == SSpec => []StaleHitsAreAnnounced
<1>1. SInv => StaleHitsAreAnnounced
  <2> SUFFICES ASSUME SInv, NEW f \in File, Hits(f), NEW p \in Parts,
                      sweep_reports[f].view[p] # Part(p)
               PROVE  Announced(p)
    BY DEF StaleHitsAreAnnounced
  <2>1. /\ sweep_reports[f] # Null
        /\ sweep_reports[f].inputs = << diagnostic_inputs, generation >>
    BY DEF Hits
  <2>2. Excused(p, sweep_reports[f].inputs)
    BY <2>1 DEF SInv, ReportsHold, ViewHolds
  <2> QED
    BY <2>1, <2>2 DEF Excused, SInv, CountersTyped
<1> QED
  BY <1>1, InitSweeps, NextSweeps, PTL DEF SSpec
=============================================================================

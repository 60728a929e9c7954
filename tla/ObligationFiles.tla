--------------------------- MODULE ObligationFiles ---------------------------
(***************************************************************************)
(* The proof state of one component as it lives in three files of a Rodin  *)
(* project: obligations (.bpo), their statuses (.bps) and their proofs     *)
(* (.bpr).  Builds regenerate the first two from the sources and reconcile *)
(* them with what they replace (rossi-build, pog/reconcile.rs and          *)
(* pog/status.rs); `rossi clean` empties proofs and statuses; Rodin, in    *)
(* another process, proves obligations and records what it proved.  All of *)
(* them read whole files, compute, and write file by file.                 *)
(*                                                                         *)
(* A stamp ties a status to the obligation it is about: a status whose     *)
(* stamp is its obligation's is believed by everybody.                     *)
(*                                                                         *)
(* The content of an obligation is its goal and the hypotheses it inherits,*)
(* which are one top-level predicate set here.                             *)
(***************************************************************************)
EXTENDS Integers, FiniteSets, FiniteSetsExt

CONSTANTS
    Obligation,     \* names of obligations
    Content,        \* what a goal, or the inherited hypotheses, may say
    Builder,        \* builds that may run at the same time
    Kinds,          \* the kinds of proof Rodin records
    Torn,           \* the files a crash may leave half written
    MaxEdits,       \* bound on the edits of the sources
    MaxProofs,      \* bound on the proofs Rodin finds
    MaxCrashes,     \* bound on the crashes of a build or of a clean-up
    MaxCleans,      \* bound on the clean-ups
    None,           \* no entry, no file
    Damaged         \* a file that does not parse

ASSUME KindsAssumption == Kinds \subseteq {"plain", "context", "unsupported"}
ASSUME TornAssumption == Torn \subseteq {"bpo", "bps", "bpr"}
ASSUME BoundsAssumption ==
    {MaxEdits, MaxProofs, MaxCrashes, MaxCleans} \subseteq Nat

VARIABLES
    sources,    \* what the sources generate: the inherited hypotheses and the goals
    bpo, bps, bpr,  \* the three files
    build,      \* per builder: the files it computed and the step it is at
    attempt,    \* Rodin's proof attempt: the obligation it works on, or None
    clean,      \* the clean-up in progress
    clobbered,  \* history: an obligation file was written while another build
                \* was in progress, or a crash broke it off
    edits, proofs, crashes, cleans

files == << bpo, bps, bpr >>
bounds == << edits, proofs, crashes, cleans >>
vars == << sources, files, build, attempt, clean, clobbered, bounds >>

-----------------------------------------------------------------------------
(* The files.                                                               *)

Unattempted == -99
Discharged == 1000
Confidence == {Unattempted, Discharged}

(* What a proof needs of its obligation: a goal, hypotheses, or any.         *)
Dependencies == [goal : Content \cup {None}, hyps : Content \cup {None}]
AnySequent == [goal |-> None, hyps |-> None]

(* Mutant: an emptied proof has no confidence at all.                        *)
UnratedProof == [confidence |-> None, kind |-> "empty", needs |-> AnySequent]

EmptyProof == [confidence |-> Unattempted, kind |-> "empty", needs |-> AnySequent]
Proof == [confidence : Confidence, kind : Kinds, needs : Dependencies] \cup {EmptyProof}

(* A status; "proof" is not in the file: what the verdict was reached from.  *)
Status == [confidence : Confidence, stamp : Nat, broken : BOOLEAN, context : BOOLEAN,
           proof : Dependencies]
FreshStatus(stamp) == [confidence |-> Unattempted, stamp |-> stamp, broken |-> FALSE,
                       context |-> FALSE, proof |-> AnySequent]

Source == [hyps : Content \cup {None}, goal : [Obligation -> Content \cup {None}]]

(* Only a decomposition stub generates no predicate set at all.              *)
IsStub(file) == file.hyps = None
WellFormed(source) == IsStub(source) => \A o \in Obligation : source.goal[o] = None

Obligations == [root : Nat, hyps : Content \cup {None}, hyps_stamp : Nat,
                goal : [Obligation -> Content \cup {None}], stamp : [Obligation -> Nat]]
Names(file) ==
    IF file \in {None, Damaged} THEN {} ELSE {o \in Obligation : file.goal[o] # None}
StampOf(file, o) == IF o \in Names(file) THEN file.stamp[o] ELSE 0
NoStatus == [o \in Obligation |-> None]

Statuses == [Obligation -> Status \cup {None}]
Proofs == [Obligation -> Proof \cup {None}]

ASSUME NoneAssumption ==
    /\ None # Damaged /\ None \notin Content
    /\ \A none \in {None, Damaged} : /\ none \notin Obligations /\ none \notin Statuses
                                    /\ none \notin Proofs
    /\ None \notin Status /\ None \notin Proof

(* What the generator writes: every stamp "0".                               *)
Generate(source) ==
    [root |-> 0, hyps |-> source.hyps, hyps_stamp |-> 0,
     goal |-> source.goal, stamp |-> [o \in Obligation |-> 0]]

-----------------------------------------------------------------------------
(* Reconciliation: reconcile_pair.                                          *)

SameSet(old, new) == old.hyps = new.hyps /\ ~ IsStub(new)

(* Mutant: the inherited hypotheses are not compared.                        *)
SameGoal(old, new, o) == o \in Names(old) \cap Names(new) /\ old.goal[o] = new.goal[o]

SameSequent(old, new, o) ==
    o \in Names(old) \cap Names(new) /\ old.goal[o] = new.goal[o] /\ old.hyps = new.hyps

AllUnchanged(old, new) ==
    /\ SameSet(old, new)
    /\ Names(old) = Names(new)
    /\ \A o \in Names(new) : SameSequent(old, new, o)

(* Mutant: the highest stamp in use is taken again.                          *)
HighestStamp(old) == Max({0, old.root, old.hyps_stamp} \cup {old.stamp[o] : o \in Names(old)})

(* One above every stamp of the previous file.                               *)
FreshStamp(old) ==
    1 + Max({0, old.root, old.hyps_stamp} \cup {old.stamp[o] : o \in Names(old)})

(* Mutant: every element gets the fresh stamp.                               *)
PlanFreshStamps(old, new) ==
    [new EXCEPT !.root = FreshStamp(old), !.hyps_stamp = FreshStamp(old),
                !.stamp = [o \in Obligation |-> IF o \in Names(new) THEN FreshStamp(old) ELSE 0]]

PlanStamps(old, new) ==
    LET fresh == FreshStamp(old)
    IN  [new EXCEPT
           !.root = fresh,
           !.hyps_stamp = IF SameSet(old, new) THEN old.hyps_stamp ELSE fresh,
           !.stamp = [o \in Obligation |->
               IF o \notin Names(new) THEN 0
               ELSE IF SameSequent(old, new, o) THEN old.stamp[o] ELSE fresh]]

(* Mutant: the stamps are planned although nothing changed.                  *)
ReconcileObligationsAnew(old, new) ==
    IF old = None THEN new
    ELSE IF IsStub(new) THEN old
    ELSE IF old = Damaged THEN new
    ELSE PlanStamps(old, new)

(* No previous file, or one that does not parse: there is no plan, and the   *)
(* generated stamps stay.                                                    *)
ReconcileObligations(old, new) ==
    IF old = None THEN new
    ELSE IF IsStub(new) THEN old
    ELSE IF old = Damaged THEN new
    ELSE IF AllUnchanged(old, new) THEN old
    ELSE PlanStamps(old, new)

(* Rows are carried by name, whatever became of the obligation.              *)
ReconcileStatuses(old_bpo, old_bps, new, out) ==
    IF old_bps = None
    THEN [o \in Obligation |-> IF o \in Names(new) THEN FreshStatus(StampOf(out, o)) ELSE None]
    ELSE IF IsStub(new) /\ old_bpo # None THEN old_bps
    ELSE [o \in Obligation |->
            IF o \notin Names(new) THEN None
            ELSE IF old_bps[o] # None THEN old_bps[o]
            ELSE FreshStatus(StampOf(out, o))]

(* The rows a build makes up for lack of a recorded one.                     *)
Synthesized(old_bps, out_bps) ==
    {o \in Obligation : out_bps[o] # None /\ (old_bps = None \/ old_bps[o] = None)}

-----------------------------------------------------------------------------
(* The status pass: update_statuses.                                        *)

Applies(needs, goal, hyps) == needs.goal \in {None, goal} /\ needs.hyps \in {None, hyps}

(* is_proof_reusable: an empty proof records no dependency at all.           *)
Reusable(proof, goal, hyps) ==
    \/ proof.kind = "empty"
    \/ proof.kind = "plain" /\ Applies(proof.needs, goal, hyps)

ComputeStatus(file, o, proof) ==
    [confidence |-> proof.confidence, stamp |-> file.stamp[o],
     broken |-> ~ Reusable(proof, file.goal[o], file.hyps),
     context |-> proof.kind = "context", proof |-> proof.needs]

StampStale(file, row, o) == row.context \/ o \notin Names(file) \/ row.stamp # file.stamp[o]

(* Mutant: a stale row without a proof stays as it is.                       *)
UpdateRowWithProof(file, row, o, made_up, stored) ==
    IF StampStale(file, row, o) /\ stored # None /\ stored[o] # None
    THEN ComputeStatus(file, o, stored[o]) ELSE row

(* Rows of a damaged proof file stay as they are; without a proof file, or   *)
(* without a proof, a stale row starts over.  A row made up in this build    *)
(* comes back to life when a proof was worked on.                            *)
UpdateRow(file, row, o, made_up, stored) ==
    LET stale == StampStale(file, row, o)
        proof == IF stored = None THEN None ELSE stored[o]
        revived == /\ made_up /\ ~ row.broken /\ row.confidence = Unattempted
                   /\ proof # None /\ proof.confidence # Unattempted
    IN  IF ~ (stale \/ revived) THEN row
        ELSE IF proof = None THEN FreshStatus(StampOf(file, o))
        ELSE IF o \notin Names(file) THEN row
        ELSE ComputeStatus(file, o, proof)

UpdateStatuses(file, rows, made_up, stored) ==
    IF stored = Damaged THEN rows
    ELSE [o \in Obligation |->
            IF rows[o] = None THEN None
            ELSE UpdateRow(file, rows[o], o, o \in made_up, stored)]

-----------------------------------------------------------------------------
(* What the animator leaves to Rodin: it generates from the sources as they *)
(* are, reconciles in memory with the files as they are, resets every row   *)
(* whose stamp is not its obligation's, and skips what is discharged.       *)

StampValid(file, row, o) == o \in Names(file) /\ row.stamp = file.stamp[o]
Believed(file, row, o) ==
    row # None /\ StampValid(file, row, o) /\ row.confidence = Discharged /\ ~ row.broken

InMemory ==
    LET new == Generate(sources)
        out == ReconcileObligations(bpo, new)
    IN  [bpo |-> out, bps |-> ReconcileStatuses(bpo, bps, new, out)]
SkippedOf(memory) == {o \in Obligation : Believed(memory.bpo, memory.bps[o], o)}
Skipped == LET memory == InMemory IN SkippedOf(memory)

-----------------------------------------------------------------------------
(* Processes.                                                               *)

IdleBuild == [pc |-> "idle", bpo |-> None, bps |-> None, made_up |-> {}]
IdleClean == [pc |-> "idle", bpr |-> None, bps |-> None]

Init ==
    /\ sources \in {s \in Source : ~ IsStub(s) /\ Names(s) = Obligation}
    /\ bpo = None /\ bps = None /\ bpr = None
    /\ build = [b \in Builder |-> IdleBuild]
    /\ attempt = None
    /\ clean = IdleClean
    /\ clobbered = FALSE
    /\ edits = 0 /\ proofs = 0 /\ crashes = 0 /\ cleans = 0

(* An edit changes one goal or the hypotheses, adds or removes an            *)
(* obligation, or makes the component a stub.                                *)
Edited(source) ==
    {[source EXCEPT !.hyps = h] : h \in Content}
    \cup {[hyps |-> h, goal |-> [source.goal EXCEPT ![o] = g]] :
             o \in Obligation, g \in Content \cup {None},
             h \in IF IsStub(source) THEN Content ELSE {source.hyps}}
    \cup {[hyps |-> None, goal |-> [o \in Obligation |-> None]]}

Edit ==
    /\ edits < MaxEdits
    /\ sources' \in Edited(sources) \ {sources}
    /\ edits' = edits + 1
    /\ UNCHANGED << files, build, attempt, clean, clobbered, proofs, crashes, cleans >>

(* A build reads the files it replaces; a rebuild of the editor stops at     *)
(* reconciliation, the command line goes on to the status pass.              *)
BeginBuild(b, kind) ==
    /\ build[b].pc = "idle"
    /\ LET new == Generate(sources)
           out == ReconcileObligations(bpo, new)
           rows == ReconcileStatuses(bpo, bps, new, out)
       IN build' = [build EXCEPT ![b] =
            [pc |-> IF kind = "command" THEN "status" ELSE "write_bpo", bpo |-> out, bps |-> rows,
             made_up |-> IF kind = "command" THEN Synthesized(bps, rows) ELSE {}]]
    /\ UNCHANGED << sources, files, attempt, clean, clobbered, bounds >>

StatusPass(b) ==
    /\ build[b].pc = "status"
    /\ build' = [build EXCEPT
         ![b].pc = "write_bpo", ![b].made_up = {},
         ![b].bps = UpdateStatuses(build[b].bpo, @, build[b].made_up, bpr)]
    /\ UNCHANGED << sources, files, attempt, clean, clobbered, bounds >>

WriteBpo(b) ==
    /\ build[b].pc = "write_bpo"
    /\ bpo' = build[b].bpo
    /\ build' = [build EXCEPT ![b].pc = "write_bps"]
    /\ clobbered' = (clobbered \/ \E c \in Builder \ {b} : build[c].pc # "idle")
    /\ UNCHANGED << sources, bps, bpr, attempt, clean, bounds >>

WriteBps(b) ==
    /\ build[b].pc = "write_bps"
    /\ bps' = build[b].bps
    /\ build' = [build EXCEPT ![b] = IdleBuild]
    /\ UNCHANGED << sources, bpo, bpr, attempt, clean, clobbered, bounds >>

(* fs::write truncates the file first.  Of a status file that breaks off only*)
(* the rows before the break are read: here none.                            *)

CrashBuild(b) ==
    /\ build[b].pc # "idle" /\ crashes < MaxCrashes
    /\ crashes' = crashes + 1
    /\ build' = [build EXCEPT ![b] = IdleBuild]
    /\ \/ UNCHANGED << files, clobbered >>
       \/ /\ build[b].pc = "write_bpo" /\ "bpo" \in Torn
          /\ bpo' = Damaged /\ clobbered' = TRUE
          /\ UNCHANGED << bps, bpr >>
       \/ /\ build[b].pc = "write_bps" /\ "bps" \in Torn
          /\ bps' = NoStatus
          /\ UNCHANGED << bpo, bpr, clobbered >>
    /\ UNCHANGED << sources, attempt, clean, edits, proofs, cleans >>

(* Rodin takes an obligation and its stamp from the file, and records the    *)
(* proof and the status when it is done.                                     *)
StartAttempt(o) ==
    /\ attempt = None /\ proofs < MaxProofs
    /\ bpo \notin {None, Damaged} /\ o \in Names(bpo)
    /\ attempt' = [obligation |-> o, goal |-> bpo.goal[o], hyps |-> bpo.hyps,
                   stamp |-> bpo.stamp[o]]
    /\ UNCHANGED << sources, files, build, clean, clobbered, bounds >>

FinishAttempt(kind) ==
    /\ attempt # None /\ proofs < MaxProofs
    /\ \E g \in {None, attempt.goal}, h \in {None, attempt.hyps} :
         /\ g # None \/ h # None
         /\ LET needs == [goal |-> g, hyps |-> h]
                proof == [confidence |-> Discharged, kind |-> kind, needs |-> needs]
                stored == IF bpr \in {None, Damaged} THEN NoStatus ELSE bpr
            IN /\ bpr' = [stored EXCEPT ![attempt.obligation] = proof]
               /\ bps' = IF bps = None \/ bps[attempt.obligation] = None THEN bps
                         ELSE [bps EXCEPT ![attempt.obligation] =
                                 [confidence |-> Discharged, stamp |-> attempt.stamp,
                                  broken |-> FALSE, context |-> kind = "context",
                                  proof |-> needs]]
    /\ attempt' = None
    /\ proofs' = proofs + 1
    /\ UNCHANGED << sources, bpo, build, clean, clobbered, edits, crashes, cleans >>

(* Rodin's own builder recomputes every stale row.                           *)
RodinUpdate ==
    /\ bpo \notin {None, Damaged} /\ bps # None
    /\ \A o \in Obligation : bps[o] # None => o \in Names(bpo)
    /\ bps' = UpdateStatuses(bpo, bps, {}, bpr)
    /\ bps' # bps
    /\ UNCHANGED << sources, bpo, bpr, build, attempt, clean, clobbered, bounds >>

-----------------------------------------------------------------------------
(* rossi clean.                                                             *)

(* --broken: a proof rossi cannot represent is left alone.                   *)
NoLongerApplies(o) ==
    /\ bpo # None /\ o \in Names(bpo)
    /\ bpr[o].kind # "unsupported"
    /\ ~ Reusable(bpr[o], bpo.goal[o], bpo.hyps)

ResetRows(reset) ==
    [o \in Obligation |->
        IF o \notin reset \/ bps[o] = None THEN bps[o]
        ELSE FreshStatus(IF o \in Names(bpo) THEN bpo.stamp[o] ELSE bps[o].stamp)]

(* The statuses stay when there is no obligation file to take stamps from.   *)
BeginClean(purge, broken, selected) ==
    /\ clean.pc = "idle" /\ cleans < MaxCleans
    /\ bpr \notin {None, Damaged} /\ bpo # Damaged
    /\ LET stored == {o \in Obligation : bpr[o] # None}
           dropped == IF purge /\ bpo # None THEN stored \ Names(bpo) ELSE {}
           reset == {o \in stored \ dropped :
                        o \in selected \/ (broken /\ NoLongerApplies(o))}
           kept == stored \ dropped
       IN /\ dropped \cup reset # {}
          /\ clean' = [pc |-> "write_bpr",
                       bpr |-> IF kept = {} /\ bps = None THEN None
                               ELSE [o \in Obligation |->
                                       IF o \notin kept THEN None
                                       ELSE IF o \in reset THEN EmptyProof ELSE bpr[o]],
                       bps |-> IF reset = {} \/ bps = None \/ bpo = None THEN None
                               ELSE ResetRows(reset)]
    /\ cleans' = cleans + 1
    /\ UNCHANGED << sources, files, build, attempt, clobbered, edits, proofs, crashes >>

CleanBpr ==
    /\ clean.pc = "write_bpr"
    /\ bpr' = clean.bpr
    /\ clean' = IF clean.bps = None THEN IdleClean ELSE [clean EXCEPT !.pc = "write_bps"]
    /\ UNCHANGED << sources, bpo, bps, build, attempt, clobbered, bounds >>

CleanBps ==
    /\ clean.pc = "write_bps"
    /\ bps' = clean.bps
    /\ clean' = IdleClean
    /\ UNCHANGED << sources, bpo, bpr, build, attempt, clobbered, bounds >>

CrashClean ==
    /\ clean.pc # "idle" /\ crashes < MaxCrashes
    /\ crashes' = crashes + 1
    /\ clean' = IdleClean
    /\ \/ UNCHANGED files
       \/ /\ clean.pc = "write_bpr" /\ clean.bpr # None /\ "bpr" \in Torn
          /\ bpr' = Damaged /\ UNCHANGED << bpo, bps >>
       \/ /\ clean.pc = "write_bps" /\ "bps" \in Torn
          /\ bps' = NoStatus
          /\ UNCHANGED << bpo, bpr >>
    /\ UNCHANGED << sources, build, attempt, clobbered, edits, proofs, cleans >>

-----------------------------------------------------------------------------
BuildStep(b) ==
    \/ \E kind \in {"editor", "command"} : BeginBuild(b, kind)
    \/ StatusPass(b) \/ WriteBpo(b) \/ WriteBps(b) \/ CrashBuild(b)

CleanStep ==
    \/ \E purge, broken \in BOOLEAN, selected \in SUBSET Obligation :
         BeginClean(purge, broken, selected)
    \/ CleanBpr \/ CleanBps \/ CrashClean

RodinStep ==
    \/ \E o \in Obligation : StartAttempt(o)
    \/ \E kind \in Kinds : FinishAttempt(kind)
    \/ RodinUpdate

Next == Edit \/ (\E b \in Builder : BuildStep(b)) \/ CleanStep \/ RodinStep

Spec == Init /\ [][Next]_vars

-----------------------------------------------------------------------------
(* Properties.                                                              *)

Contents == Obligations \cup {None, Damaged}
Build == [pc : {"idle", "status", "write_bpo", "write_bps"}, bpo : Contents,
          bps : Statuses \cup {None}, made_up : SUBSET Obligation]
Clean == [pc : {"idle", "write_bpr", "write_bps"}, bpr : Proofs \cup {None},
          bps : Statuses \cup {None}]
Attempt == [obligation : Obligation, goal : Content, hyps : Content \cup {None}, stamp : Nat]

TypeOK ==
    /\ sources \in Source /\ WellFormed(sources)
    /\ attempt \in Attempt \cup {None}
    /\ bpo \in Contents
    /\ bps \in Statuses \cup {None}
    /\ bpr \in Proofs \cup {None, Damaged}
    /\ build \in [Builder -> Build]
    /\ clean \in Clean
    /\ clobbered \in BOOLEAN

(* A status that is believed was reached from a proof that applies to the    *)
(* obligation as the file states it, whatever crashed or ran in between,     *)
(* until an obligation file is written under another build or broken off:    *)
(* builds take no lock and write in place (server.rs:1500, build.rs:149).    *)
Earned(file, row, o) == Believed(file, row, o) => Applies(row.proof, file.goal[o], file.hyps)
AllEarned == bps # None => \A o \in Obligation : Earned(bpo, bps[o], o)
BelievedIsEarned == ~ clobbered => AllEarned

(* The animator leaves out an obligation of the sources as they are only     *)
(* when a proof that applies to it is what Rodin recorded; the same limit.   *)
SkippedIsProved ==
    LET memory == InMemory
    IN  ~ clobbered => \A o \in SkippedOf(memory) \cap Names(sources) :
            Applies(memory.bps[o].proof, sources.goal[o], sources.hyps)

(* Rebuilding what was just built changes no byte: a second reconciliation   *)
(* of the same sources gives the files of the first.                         *)
RebuildIsStable ==
    ~ IsStub(sources) =>
        LET new == Generate(sources)
            first == InMemory
            out == ReconcileObligations(first.bpo, new)
        IN  /\ out = first.bpo
            /\ ReconcileStatuses(first.bpo, first.bps, new, out) = first.bps

(* No verdict on an obligation that did not change is lost to reconciliation.*)
UnchangedKeepVerdicts ==
    bpo \notin {None, Damaged} /\ bps # None =>
        \A o \in Names(bpo) : SameSequent(bpo, sources, o) /\ Believed(bpo, bps[o], o)
                                => o \in Skipped

(* A build of the command line leaves no status that is stale for a proof    *)
(* it could read, unless its proof depends on more than its obligation.      *)
StatusPassSettles ==
    [][\A b \in Builder : StatusPass(b) =>
        \A o \in Names(build[b].bpo) :
            LET row == build'[b].bps[o]
            IN row # None /\ StampStale(build[b].bpo, row, o) => row.context \/ bpr = Damaged]_vars

(* The files are "reconciled against the files being replaced so proof state *)
(* Rodin wrote there survives": a build that finds an obligation as it was   *)
(* does not take back a verdict.                                             *)
ProofStateSurvives ==
    [][\A b \in Builder : WriteBps(b) /\ bps # None =>
        \A o \in Obligation : Believed(bpo, bps[o], o) /\ bps'[o] # None
                                => Believed(bpo, bps'[o], o)]_vars
=============================================================================

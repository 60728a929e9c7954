------------------------ MODULE ObligationFilesProofs ------------------------
(***************************************************************************)
(* Proofs about ObligationFiles.  Types, and what reconciliation and the   *)
(* status pass do to any files they can meet, hold whatever builds overlap *)
(* and whatever a crash leaves half written.  That the verdicts are earned *)
(* holds until an obligation file is clobbered: written while another      *)
(* build is in progress, or broken off by a crash.                         *)
(*                                                                         *)
(* The argument there: stamps only go up.  A build gives an obligation a   *)
(* stamp the previous file knew only if the obligation is unchanged        *)
(* (Successor), and no status has a stamp the obligation file has not      *)
(* reached (Known).  A status that is believed after a build was therefore *)
(* believed before it, of the same obligation.                             *)
(***************************************************************************)
EXTENDS ObligationFiles, TLAPS

Bounded(file) ==
    file.hyps_stamp <= file.root /\ \A o \in Obligation : file.stamp[o] <= file.root

(* Types, whatever builds overlap and whatever a crash breaks off.           *)
Proper(file) == file \notin {None, Damaged}

(* A file whose stamps can be planned.                                       *)
Sized(file) == file \in Contents /\ (Proper(file) => Bounded(file))

Typed ==
    /\ TypeOK
    /\ Sized(bpo)
    /\ \A b \in Builder : /\ Sized(build[b].bpo)
                          /\ build[b].pc # "idle" => build[b].bps \in Statuses

(* Every status is at a stamp the file has reached, and earned if believed.  *)
Known(file, rows) ==
    \A o \in Obligation : rows[o] # None =>
        rows[o].stamp <= file.root /\ Earned(file, rows[o], o)

(* An obligation whose stamp is not above the old file is in the old file.   *)
SameUpTo(old, new) ==
    /\ old.root <= new.root
    /\ \A o \in Names(new) : new.stamp[o] <= old.root =>
        /\ o \in Names(old) /\ old.stamp[o] = new.stamp[o]
        /\ old.goal[o] = new.goal[o] /\ old.hyps = new.hyps

Successor(new) ==
    /\ new \in Obligations /\ Bounded(new)
    /\ bpo # None => SameUpTo(bpo, new)

FilesInv ==
    /\ bpo \in Obligations \cup {None}
    /\ bpo = None => bps = None /\ clean.bps = None /\ attempt = None
    /\ bpo # None => Bounded(bpo)
    /\ bps # None => Known(bpo, bps)
    /\ clean.bps # None => Known(bpo, clean.bps)
    /\ clean.pc = "write_bps" => clean.bps # None

AttemptInv ==
    attempt # None =>
        /\ attempt.stamp <= bpo.root
        /\ attempt.obligation \in Names(bpo) /\ bpo.stamp[attempt.obligation] = attempt.stamp
             => bpo.goal[attempt.obligation] = attempt.goal /\ bpo.hyps = attempt.hyps

BuildSound(b) ==
    /\ build[b].pc # "idle" => /\ build[b].bps # None
                               /\ Known(build[b].bpo, build[b].bps)
    /\ build[b].pc \in {"status", "write_bpo"} => Successor(build[b].bpo)
    /\ build[b].pc = "write_bps" => bpo = build[b].bpo /\ bpo # None

BuildInv == \A b \in Builder : BuildSound(b)

Stamps == FilesInv /\ AttemptInv /\ BuildInv
Sound == Typed /\ Stamps

(* The stamps mean nothing once an obligation file was clobbered.            *)
IInv == Typed /\ (~ clobbered => Stamps)

-----------------------------------------------------------------------------
(* Facts about the operators.                                               *)

(* The fresh stamp is one above the root, when no stamp is above the root.   *)
LEMMA FreshStampIsNext ==
    ASSUME NEW file \in Obligations, Bounded(file)
    PROVE  FreshStamp(file) = file.root + 1
<1> DEFINE S == {0, file.root, file.hyps_stamp} \cup {file.stamp[o] : o \in Names(file)}
<1>1. file.root \in S /\ S \subseteq Int
  BY DEF Obligations, Names
<1>2. \A y \in S : file.root >= y
  BY DEF Obligations, Names, Bounded
<1>3. Max(S) \in S /\ \A y \in S : Max(S) >= y
  BY <1>1, <1>2 DEF Max
<1>4. Max(S) = file.root
  BY <1>1, <1>2, <1>3
<1> QED
  BY <1>1, <1>4 DEF FreshStamp

(* A generated file has every stamp at 0.                                    *)
LEMMA GenerateType ==
    ASSUME NEW s \in Source
    PROVE  Generate(s) \in Obligations /\ Bounded(Generate(s))
  BY DEF Generate, Source, Obligations, Bounded

(* The obligations of a file are those with a goal.                          *)
LEMMA NamesOfFile ==
    ASSUME NEW file \in Obligations
    PROVE  Names(file) = {o \in Obligation : file.goal[o] # None}
  BY NoneAssumption DEF Names

(* A fresh status has the stamp it was given and is not discharged.          *)
LEMMA FreshStatusType ==
    ASSUME NEW stamp \in Nat
    PROVE  /\ FreshStatus(stamp) \in Status /\ FreshStatus(stamp).stamp = stamp
           /\ FreshStatus(stamp).confidence # Discharged
  BY DEF FreshStatus, Status, Confidence, Unattempted, Discharged, AnySequent, Dependencies

(* A stamp looked up in a file is a number, below the root if it is bounded. *)
LEMMA StampOfType ==
    ASSUME NEW file \in Obligations, NEW o \in Obligation
    PROVE  StampOf(file, o) \in Nat /\ (Bounded(file) => StampOf(file, o) <= file.root)
  BY DEF StampOf, Obligations, Names, Bounded

(* A planned file bounds its stamps, and shares with the old one only the    *)
(* stamps of what did not change.                                            *)
LEMMA PlanIsSuccessor ==
    ASSUME NEW old \in Obligations, NEW new \in Obligations, Bounded(old), Bounded(new)
    PROVE  /\ PlanStamps(old, new) \in Obligations /\ Bounded(PlanStamps(old, new))
           /\ SameUpTo(old, PlanStamps(old, new))
           /\ Names(PlanStamps(old, new)) = Names(new)
<1> DEFINE plan == PlanStamps(old, new)
<1>1. FreshStamp(old) = old.root + 1 /\ old.root \in Nat
  BY FreshStampIsNext DEF Obligations
<1>2. plan \in Obligations
  <2> DEFINE stamps == [o \in Obligation |->
               IF o \notin Names(new) THEN 0
               ELSE IF SameSequent(old, new, o) THEN old.stamp[o] ELSE FreshStamp(old)]
             hyps_stamp == IF SameSet(old, new) THEN old.hyps_stamp ELSE FreshStamp(old)
  <2>1. stamps \in [Obligation -> Nat] /\ hyps_stamp \in Nat /\ FreshStamp(old) \in Nat
    BY <1>1 DEF Obligations
  <2>2. plan = [new EXCEPT !.root = FreshStamp(old), !.hyps_stamp = hyps_stamp, !.stamp = stamps]
    BY DEF PlanStamps
  <2> HIDE DEF stamps, hyps_stamp
  <2> QED
    BY <2>1, <2>2 DEF Obligations
<1>3. /\ plan.root = old.root + 1 /\ plan.goal = new.goal /\ plan.hyps = new.hyps
      /\ plan.hyps_stamp \in {old.hyps_stamp, old.root + 1}
      /\ \A o \in Obligation : plan.stamp[o] =
            IF o \notin Names(new) THEN 0
            ELSE IF SameSequent(old, new, o) THEN old.stamp[o] ELSE old.root + 1
  BY <1>1 DEF PlanStamps, Obligations
<1>4. Names(plan) = Names(new)
  BY <1>2, <1>3, NamesOfFile
<1>5. Bounded(plan)
  BY <1>1, <1>3 DEF Bounded, Obligations
<1>6. SameUpTo(old, plan)
  <2> SUFFICES ASSUME NEW o \in Names(plan), plan.stamp[o] <= old.root
               PROVE  /\ o \in Names(old) /\ old.stamp[o] = plan.stamp[o]
                      /\ old.goal[o] = plan.goal[o] /\ old.hyps = plan.hyps
    BY <1>1, <1>3 DEF SameUpTo
  <2>1. o \in Obligation /\ o \in Names(new)
    BY <1>2, <1>4, NamesOfFile
  <2>2. SameSequent(old, new, o)
    BY <1>1, <1>3, <2>1
  <2> QED
    BY <1>3, <2>1, <2>2 DEF SameSequent
<1> QED
  BY <1>2, <1>4, <1>5, <1>6

(* Whatever the old file is, reconciliation yields a successor of it; the    *)
(* obligations are those of the new file unless that one is a stub.          *)
LEMMA ReconcileIsSuccessor ==
    ASSUME NEW old \in Obligations \cup {None}, NEW new \in Obligations,
           old # None => Bounded(old), Bounded(new)
    PROVE  LET out == ReconcileObligations(old, new) IN
           /\ out \in Obligations /\ Bounded(out)
           /\ old # None => SameUpTo(old, out)
           /\ old = None => out = new
           /\ old # None /\ IsStub(new) => out = old
           /\ ~ IsStub(new) => /\ Names(out) = Names(new) /\ out.hyps = new.hyps
                               /\ \A o \in Names(new) : out.goal[o] = new.goal[o]
<1> DEFINE out == ReconcileObligations(old, new)
<1>0. old # Damaged
  BY NoneAssumption
<1>1. CASE old = None
  BY <1>1 DEF ReconcileObligations
<1>2. CASE old # None /\ IsStub(new)
  <2>1. out = old /\ old \in Obligations
    BY <1>2 DEF ReconcileObligations
  <2>2. SameUpTo(old, old)
    BY <2>1, NamesOfFile DEF SameUpTo, Obligations
  <2> QED
    BY <1>2, <2>1, <2>2
<1>3. CASE old # None /\ ~ IsStub(new) /\ AllUnchanged(old, new)
  <2>1. out = old /\ old \in Obligations
    BY <1>0, <1>3 DEF ReconcileObligations
  <2>2. SameUpTo(old, old)
    BY <2>1, NamesOfFile DEF SameUpTo, Obligations
  <2>3. /\ Names(old) = Names(new) /\ old.hyps = new.hyps
        /\ \A o \in Names(new) : old.goal[o] = new.goal[o]
    BY <1>3 DEF AllUnchanged, SameSet, SameSequent
  <2> QED
    BY <1>3, <2>1, <2>2, <2>3
<1>4. CASE old # None /\ ~ IsStub(new) /\ ~ AllUnchanged(old, new)
  <2>1. out = PlanStamps(old, new) /\ old \in Obligations
    BY <1>0, <1>4 DEF ReconcileObligations
  <2>2. out.hyps = new.hyps /\ out.goal = new.goal
    BY <2>1 DEF PlanStamps, Obligations
  <2> QED
    BY <1>4, <2>1, <2>2, PlanIsSuccessor
<1> QED
  BY <1>1, <1>2, <1>3, <1>4

(* Statuses known to a file are known to its successors.                     *)
LEMMA SuccessorKnows ==
    ASSUME NEW old \in Obligations, NEW new \in Obligations, SameUpTo(old, new),
           NEW row \in Status, NEW o \in Obligation,
           row.stamp <= old.root, Earned(old, row, o)
    PROVE  row.stamp <= new.root /\ Earned(new, row, o)
<1>1. row.stamp \in Nat /\ old.root \in Nat /\ new.root \in Nat /\ old.root <= new.root
  BY DEF Status, Obligations, SameUpTo
<1>2. Believed(new, row, o)
        => Believed(old, row, o) /\ new.goal[o] = old.goal[o] /\ new.hyps = old.hyps
  BY <1>1 DEF Believed, StampValid, SameUpTo
<1> QED
  BY <1>1, <1>2 DEF Earned

(* So a fresh status is known to any file that has reached its stamp.        *)
LEMMA FreshIsKnown ==
    ASSUME NEW file \in Obligations, Bounded(file), NEW o \in Obligation,
           NEW stamp \in Nat, stamp <= file.root
    PROVE  FreshStatus(stamp).stamp <= file.root /\ Earned(file, FreshStatus(stamp), o)
  BY FreshStatusType DEF Earned, Believed

(* Reconciled statuses are known to the reconciled obligations.              *)
LEMMA ReconciledAreKnown ==
    ASSUME NEW old \in Obligations \cup {None}, NEW rows \in Statuses \cup {None},
           NEW new \in Obligations, Bounded(new),
           old # None => Bounded(old), old = None => rows = None,
           rows # None => Known(old, rows)
    PROVE  LET out == ReconcileObligations(old, new)
               res == ReconcileStatuses(old, rows, new, out)
           IN  res \in Statuses /\ res # None /\ Known(out, res)
<1> DEFINE out == ReconcileObligations(old, new)
           res == ReconcileStatuses(old, rows, new, out)
<1>1. /\ out \in Obligations /\ Bounded(out)
      /\ old # None => SameUpTo(old, out)
  BY ReconcileIsSuccessor
<1>2. ASSUME NEW o \in Obligation
      PROVE  StampOf(out, o) \in Nat /\ StampOf(out, o) <= out.root
  BY <1>1, StampOfType
<1>3. ASSUME NEW o \in Obligation
      PROVE  /\ FreshStatus(StampOf(out, o)) \in Status
             /\ FreshStatus(StampOf(out, o)).stamp <= out.root
             /\ Earned(out, FreshStatus(StampOf(out, o)), o)
  BY <1>1, <1>2, FreshStatusType, FreshIsKnown
<1>4. CASE rows = None
  <2>1. res = [o \in Obligation |-> IF o \in Names(new) THEN FreshStatus(StampOf(out, o)) ELSE None]
    BY <1>4 DEF ReconcileStatuses
  <2>2. res \in Statuses
    BY <1>3, <2>1 DEF Statuses
  <2>3. Known(out, res)
    BY <1>3, <2>1 DEF Known
  <2> QED
    BY <2>2, <2>3, NoneAssumption
<1>5. CASE rows # None
  <2>1. old \in Obligations /\ rows \in Statuses /\ SameUpTo(old, out)
    BY <1>1, <1>5
  <2>2. ASSUME NEW o \in Obligation, rows[o] # None
        PROVE  /\ rows[o] \in Status
               /\ rows[o].stamp <= out.root /\ Earned(out, rows[o], o)
    <3>1. rows[o] \in Status
      BY <2>1, <2>2 DEF Statuses
    <3>2. rows[o].stamp <= old.root /\ Earned(old, rows[o], o)
      BY <1>5, <2>2 DEF Known
    <3> QED
      BY <1>1, <2>1, <3>1, <3>2, SuccessorKnows
  <2>3. CASE res = rows
    BY <2>1, <2>2, <2>3, <1>5 DEF Known
  <2>4. CASE res = [o \in Obligation |->
                      IF o \notin Names(new) THEN None
                      ELSE IF rows[o] # None THEN rows[o]
                      ELSE FreshStatus(StampOf(out, o))]
    <3>1. res \in Statuses
      BY <1>3, <2>2, <2>4 DEF Statuses
    <3>2. Known(out, res)
      BY <1>3, <2>2, <2>4 DEF Known
    <3> QED
      BY <3>1, <3>2, NoneAssumption
  <2> QED
    BY <1>5, <2>3, <2>4 DEF ReconcileStatuses
<1> QED
  BY <1>4, <1>5

(* The status pass believes only a proof that can be reused.                 *)
LEMMA UpdatedRowIsKnown ==
    ASSUME NEW file \in Obligations, Bounded(file), NEW o \in Obligation,
           NEW row \in Status, row.stamp <= file.root, Earned(file, row, o),
           NEW made_up \in BOOLEAN, NEW stored \in Proofs \cup {None}
    PROVE  LET res == UpdateRow(file, row, o, made_up, stored)
           IN  res \in Status /\ res.stamp <= file.root /\ Earned(file, res, o)
<1> DEFINE proof == IF stored = None THEN None ELSE stored[o]
           res == UpdateRow(file, row, o, made_up, stored)
<1>1. CASE res = row
  BY <1>1
<1>2. CASE res = FreshStatus(StampOf(file, o))
  BY <1>2, StampOfType, FreshStatusType, FreshIsKnown
<1>3. CASE proof # None /\ o \in Names(file) /\ res = ComputeStatus(file, o, proof)
  <2>1. proof \in Proof
    BY <1>3 DEF Proofs
  <2>2. proof.confidence \in Confidence /\ proof.needs \in Dependencies
    BY <2>1 DEF Proof, EmptyProof, Confidence, AnySequent, Dependencies
  <2>3. file.stamp[o] \in Nat /\ file.stamp[o] <= file.root
    BY DEF Bounded, Obligations
  <2>4. res \in Status /\ res.stamp = file.stamp[o]
    BY <1>3, <2>2, <2>3 DEF ComputeStatus, Status
  <2>5. ASSUME Believed(file, res, o)
        PROVE  Applies(res.proof, file.goal[o], file.hyps)
    <3>1. res.confidence = Discharged /\ ~ res.broken
      BY <2>5 DEF Believed
    <3> DEFINE broken == ~ Reusable(proof, file.goal[o], file.hyps)
               dependent == proof.kind = "context"
    <3>a. res = [confidence |-> proof.confidence, stamp |-> file.stamp[o],
                 broken |-> broken, context |-> dependent, proof |-> proof.needs]
      BY <1>3 DEF ComputeStatus
    <3> HIDE DEF broken, dependent, proof, res
    <3>b. res.confidence = proof.confidence /\ res.broken = broken /\ res.proof = proof.needs
      BY <3>a
    <3>c. proof.confidence = Discharged /\ ~ broken /\ res.proof = proof.needs
      BY <3>1, <3>b, Zenon
    <3>2. proof.confidence = Discharged /\ Reusable(proof, file.goal[o], file.hyps)
          /\ res.proof = proof.needs
      BY <3>c DEF broken
    <3>3. proof # EmptyProof
      BY <3>2 DEF EmptyProof, Discharged, Unattempted
    <3>4. proof.kind # "empty"
      BY <2>1, <3>3, KindsAssumption DEF Proof
    <3> QED
      BY <3>2, <3>4 DEF Reusable
  <2> QED
    BY <2>3, <2>4, <2>5 DEF Earned
<1>4. \/ res = row \/ res = FreshStatus(StampOf(file, o))
      \/ proof # None /\ o \in Names(file) /\ res = ComputeStatus(file, o, proof)
  BY DEF UpdateRow
<1> QED
  BY <1>1, <1>2, <1>3, <1>4

(* So every row of the status pass is known to the file.                     *)
LEMMA UpdatedAreKnown ==
    ASSUME NEW file \in Obligations, Bounded(file), NEW rows \in Statuses, Known(file, rows),
           NEW made_up \in SUBSET Obligation, NEW stored \in Proofs \cup {None, Damaged}
    PROVE  LET res == UpdateStatuses(file, rows, made_up, stored)
           IN  res \in Statuses /\ res # None /\ Known(file, res)
<1> DEFINE res == UpdateStatuses(file, rows, made_up, stored)
<1>1. CASE stored = Damaged
  BY <1>1, NoneAssumption DEF UpdateStatuses
<1>2. CASE stored # Damaged
  <2>1. res = [o \in Obligation |->
                IF rows[o] = None THEN None
                ELSE UpdateRow(file, rows[o], o, o \in made_up, stored)]
    BY <1>2 DEF UpdateStatuses
  <2>2. ASSUME NEW o \in Obligation, rows[o] # None
        PROVE  LET row == UpdateRow(file, rows[o], o, o \in made_up, stored)
               IN  row \in Status /\ row.stamp <= file.root /\ Earned(file, row, o)
    <3>1. rows[o] \in Status /\ rows[o].stamp <= file.root /\ Earned(file, rows[o], o)
      BY <2>2 DEF Statuses, Known
    <3>2. (o \in made_up) \in BOOLEAN /\ stored \in Proofs \cup {None}
      BY <1>2
    <3> QED
      BY <3>1, <3>2, UpdatedRowIsKnown
  <2>3. res \in Statuses
    BY <2>1, <2>2 DEF Statuses
  <2>4. Known(file, res)
    BY <2>1, <2>2 DEF Known
  <2> QED
    BY <2>3, <2>4, NoneAssumption
<1> QED
  BY <1>1, <1>2

-----------------------------------------------------------------------------
(* Types, whatever builds overlap and whatever a crash breaks off.           *)

(* A proper file holds obligations; the stamps of any file are numbers.      *)
LEMMA SizedFiles ==
    ASSUME NEW file, Sized(file)
    PROVE  /\ Proper(file) => file \in Obligations /\ Bounded(file)
           /\ ~ Proper(file) => Names(file) = {}
           /\ \A o \in Obligation : StampOf(file, o) \in Nat
<1>1. Proper(file) => file \in Obligations /\ Bounded(file)
  BY DEF Sized, Proper, Contents
<1>2. ~ Proper(file) => Names(file) = {}
  BY DEF Proper, Names
<1>3. CASE Proper(file)
  BY <1>1, <1>2, <1>3, StampOfType
<1>4. CASE ~ Proper(file)
  BY <1>2, <1>4 DEF StampOf
<1> QED
  BY <1>1, <1>2, <1>3, <1>4

(* Files of obligations are sized when bounded.                              *)
LEMMA BoundedIsSized ==
    ASSUME NEW file \in Obligations, Bounded(file)
    PROVE  Sized(file) /\ Proper(file)
BY NoneAssumption DEF Sized, Proper, Contents

(* Whatever file is replaced, a build computes files that can be written.    *)
LEMMA ReconciledAreSized ==
    ASSUME NEW old, Sized(old), NEW rows \in Statuses \cup {None},
           NEW new \in Obligations, Bounded(new)
    PROVE  LET out == ReconcileObligations(old, new)
           IN  Sized(out) /\ ReconcileStatuses(old, rows, new, out) \in Statuses
<1> DEFINE out == ReconcileObligations(old, new)
           res == ReconcileStatuses(old, rows, new, out)
<1>1. Sized(out)
  <2>1. CASE old = Damaged
    BY <2>1, NoneAssumption, BoundedIsSized DEF ReconcileObligations
  <2>2. CASE old # Damaged
    <3>1. old \in Obligations \cup {None} /\ (old # None => Bounded(old))
      BY <2>2 DEF Sized, Proper, Contents
    <3> QED
      BY <3>1, ReconcileIsSuccessor, BoundedIsSized
  <2> QED
    BY <2>1, <2>2
<1>2. \A o \in Obligation : FreshStatus(StampOf(out, o)) \in Status
  BY <1>1, SizedFiles, FreshStatusType
<1> HIDE DEF out
<1>3. ASSUME rows = None
      PROVE  res \in Statuses
  <2>1. res = [o \in Obligation |-> IF o \in Names(new) THEN FreshStatus(StampOf(out, o)) ELSE None]
    BY <1>3 DEF ReconcileStatuses
  <2> QED
    BY <1>2, <2>1 DEF Statuses
<1>4. ASSUME rows # None
      PROVE  res \in Statuses
  <2>1. \/ res = rows
        \/ res = [o \in Obligation |->
                    IF o \notin Names(new) THEN None
                    ELSE IF rows[o] # None THEN rows[o] ELSE FreshStatus(StampOf(out, o))]
    BY <1>4 DEF ReconcileStatuses
  <2>2. rows \in Statuses /\ \A o \in Obligation : rows[o] \in Status \cup {None}
    BY <1>4 DEF Statuses
  <2> HIDE DEF res
  <2> QED
    BY <1>2, <2>1, <2>2 DEF Statuses
<1> QED
  BY <1>1, <1>3, <1>4 DEF out

(* So does the status pass.                                                  *)
LEMMA UpdatedAreStatuses ==
    ASSUME NEW file, Sized(file), NEW rows \in Statuses, NEW made_up \in SUBSET Obligation,
           NEW stored \in Proofs \cup {None, Damaged}
    PROVE  UpdateStatuses(file, rows, made_up, stored) \in Statuses
<1>1. CASE stored = Damaged
  BY <1>1 DEF UpdateStatuses
<1>2. CASE stored # Damaged
  <2> DEFINE updated(o) == UpdateRow(file, rows[o], o, o \in made_up, stored)
  <2>1. ASSUME NEW o \in Obligation, rows[o] # None
        PROVE  updated(o) \in Status
    <3> DEFINE proof == IF stored = None THEN None ELSE stored[o]
    <3>1. \/ updated(o) = rows[o] \/ updated(o) = FreshStatus(StampOf(file, o))
          \/ proof # None /\ o \in Names(file) /\ updated(o) = ComputeStatus(file, o, proof)
      BY DEF UpdateRow
    <3>2. rows[o] \in Status /\ FreshStatus(StampOf(file, o)) \in Status
      BY <2>1, SizedFiles, FreshStatusType DEF Statuses
    <3>3. CASE proof # None /\ o \in Names(file) /\ updated(o) = ComputeStatus(file, o, proof)
      <4>1. proof \in Proof
        BY <1>2, <3>3 DEF Proofs
      <4>2. proof.confidence \in Confidence /\ proof.needs \in Dependencies
        BY <4>1 DEF Proof, EmptyProof, Confidence, AnySequent, Dependencies
      <4>3. file.stamp[o] \in Nat
        BY <3>3, SizedFiles DEF Obligations
      <4> DEFINE broken == ~ Reusable(proof, file.goal[o], file.hyps)
                 dependent == proof.kind = "context"
      <4>4. broken \in BOOLEAN /\ dependent \in BOOLEAN
        OBVIOUS
      <4>5. updated(o) = [confidence |-> proof.confidence, stamp |-> file.stamp[o],
                          broken |-> broken, context |-> dependent, proof |-> proof.needs]
        BY <3>3 DEF ComputeStatus
      <4> HIDE DEF broken, dependent, proof, updated
      <4> QED
        BY <4>2, <4>3, <4>4, <4>5 DEF Status
    <3> QED
      BY <3>1, <3>2, <3>3
  <2> HIDE DEF updated
  <2>2. UpdateStatuses(file, rows, made_up, stored) =
          [o \in Obligation |-> IF rows[o] = None THEN None ELSE updated(o)]
    BY <1>2 DEF UpdateStatuses, updated
  <2> QED
    BY <2>1, <2>2 DEF Statuses
<1> QED
  BY <1>1, <1>2

(* The sources stay a component, or become a stub.                           *)
LEMMA EditedAreSources ==
    ASSUME TypeOK, Edit
    PROVE  sources' \in Source /\ WellFormed(sources')
<1>1. /\ sources.hyps \in Content \cup {None}
      /\ sources.goal \in [Obligation -> Content \cup {None}]
      /\ sources = [hyps |-> sources.hyps, goal |-> sources.goal]
  BY DEF TypeOK, Source
<1>2. CASE sources' \in {[sources EXCEPT !.hyps = h] : h \in Content}
  <2>1. PICK h \in Content : sources' = [sources EXCEPT !.hyps = h]
    BY <1>2
  <2>2. sources' = [hyps |-> h, goal |-> sources.goal]
    BY <1>1, <2>1
  <2> QED
    BY <1>1, <2>2, NoneAssumption DEF Source, WellFormed, IsStub
<1>3. CASE sources' \in {[hyps |-> h, goal |-> [sources.goal EXCEPT ![o] = g]] :
                           o \in Obligation, g \in Content \cup {None},
                           h \in IF IsStub(sources) THEN Content ELSE {sources.hyps}}
  <2>1. PICK o \in Obligation, g \in Content \cup {None},
             h \in IF IsStub(sources) THEN Content ELSE {sources.hyps} :
           sources' = [hyps |-> h, goal |-> [sources.goal EXCEPT ![o] = g]]
    BY <1>3
  <2>2. h \in Content
    BY <1>1 DEF IsStub
  <2> QED
    BY <1>1, <2>1, <2>2, NoneAssumption DEF Source, WellFormed, IsStub
<1>4. CASE sources' = [hyps |-> None, goal |-> [o \in Obligation |-> None]]
  BY <1>4 DEF Source, WellFormed
<1> QED
  BY <1>2, <1>3, <1>4 DEF Edit, Edited

(* A step that writes no obligations and no statuses of a build.             *)
LEMMA TypedKept ==
    ASSUME Typed, UNCHANGED << bpo, build >>, TypeOK'
    PROVE  Typed'
BY DEF Typed, Sized, Bounded, Proper

(* A step that moves one build.                                              *)
LEMMA BuildTyped ==
    ASSUME Typed, NEW b \in Builder, NEW next \in Build, build' = [build EXCEPT ![b] = next],
           Sized(next.bpo), next.pc # "idle" => next.bps \in Statuses,
           Sized(bpo'), bps' \in Statuses \cup {None}, bpr' \in Proofs \cup {None, Damaged},
           UNCHANGED << sources, attempt, clean >>, clobbered' \in BOOLEAN
    PROVE  Typed'
<1>1. build' \in [Builder -> Build] /\ build'[b] = next
      /\ \A c \in Builder : c # b => build'[c] = build[c]
  BY DEF Typed, TypeOK
<1>2. TypeOK'
  BY <1>1 DEF Typed, TypeOK, Sized
<1>3. ASSUME NEW c \in Builder
      PROVE  Sized(build'[c].bpo) /\ (build'[c].pc # "idle" => build'[c].bps \in Statuses)
  BY <1>1 DEF Typed
<1> HIDE DEF Sized
<1>4. Sized(bpo)' /\ \A c \in Builder : Sized(build[c].bpo)'
  BY <1>3 DEF Sized, Contents, Bounded, Proper
<1> QED
  BY <1>2, <1>3, <1>4 DEF Typed

(* What a builder holds.                                                     *)
LEMMA BuildHolds ==
    ASSUME Typed, NEW b \in Builder
    PROVE  /\ build[b] \in Build /\ Sized(build[b].bpo)
           /\ build[b].pc # "idle" => build[b].bps \in Statuses
           /\ build[b].made_up \in SUBSET Obligation
           /\ Sized(bpo) /\ bps \in Statuses \cup {None} /\ bpr \in Proofs \cup {None, Damaged}
           /\ IdleBuild \in Build /\ Sized(IdleBuild.bpo) /\ IdleBuild.pc = "idle"
           /\ clobbered \in BOOLEAN
BY DEF Typed, TypeOK, Build, IdleBuild, Sized, Contents, Proper

(* Every step of a build keeps the types, whatever other builds do.          *)
LEMMA BuildStepTyped ==
    ASSUME Typed, NEW b \in Builder, BuildStep(b)
    PROVE  Typed'
<1>1. ASSUME NEW kind, BeginBuild(b, kind)
      PROVE  Typed'
  <2> DEFINE new == Generate(sources)
             out == ReconcileObligations(bpo, new)
             rows == ReconcileStatuses(bpo, bps, new, out)
             next == [pc |-> IF kind = "command" THEN "status" ELSE "write_bpo",
                      bpo |-> out, bps |-> rows,
                      made_up |-> IF kind = "command" THEN Synthesized(bps, rows) ELSE {}]
  <2>1. Sized(out) /\ rows \in Statuses
    <3>1. new \in Obligations /\ Bounded(new)
      BY GenerateType DEF Typed, TypeOK
    <3> QED
      BY <3>1, BuildHolds, ReconciledAreSized
  <2>2. Synthesized(bps, rows) \in SUBSET Obligation
    BY DEF Synthesized
  <2>3. /\ build' = [build EXCEPT ![b] = next]
        /\ UNCHANGED << sources, bpo, bps, bpr, attempt, clean, clobbered >>
    BY <1>1 DEF BeginBuild, files
  <2> HIDE DEF out, rows, new
  <2>4. next \in Build /\ next.bpo = out /\ next.bps = rows
    BY <2>1, <2>2 DEF Build, Sized
  <2> HIDE DEF next
  <2> QED
    BY <2>1, <2>3, <2>4, BuildHolds, BuildTyped
<1>2. CASE StatusPass(b)
  <2> DEFINE rows == UpdateStatuses(build[b].bpo, build[b].bps, build[b].made_up, bpr)
             next == [build[b] EXCEPT !.pc = "write_bpo", !.made_up = {}, !.bps = rows]
  <2>1. rows \in Statuses
    BY <1>2, BuildHolds, UpdatedAreStatuses DEF StatusPass
  <2>2. build' = [build EXCEPT ![b] = next]
    BY <1>2 DEF StatusPass
  <2>3. UNCHANGED << sources, bpo, bps, bpr, attempt, clean, clobbered >>
    BY <1>2 DEF StatusPass, files
  <2> HIDE DEF rows
  <2>4. next \in Build /\ next.bpo = build[b].bpo /\ next.bps = rows
    BY <2>1, BuildHolds DEF Build
  <2> HIDE DEF next
  <2> QED
    BY <2>1, <2>2, <2>3, <2>4, BuildHolds, BuildTyped
<1>3. CASE WriteBpo(b)
  <2> DEFINE next == [build[b] EXCEPT !.pc = "write_bps"]
  <2>1. build' = [build EXCEPT ![b] = next] /\ bpo' = build[b].bpo
        /\ UNCHANGED << sources, bps, bpr, attempt, clean >> /\ clobbered' \in BOOLEAN
    BY <1>3, BuildHolds DEF WriteBpo
  <2>2. next \in Build /\ next.bpo = build[b].bpo /\ next.bps = build[b].bps
    BY BuildHolds DEF Build
  <2>3. build[b].bps \in Statuses
    BY <1>3, BuildHolds DEF WriteBpo
  <2> HIDE DEF next
  <2> QED
    BY <2>1, <2>2, <2>3, BuildHolds, BuildTyped
<1>4. CASE WriteBps(b)
  <2>1. build[b].bps \in Statuses
    BY <1>4, BuildHolds DEF WriteBps
  <2> QED
    BY <1>4, <2>1, BuildHolds, BuildTyped DEF WriteBps
<1>5. CASE CrashBuild(b)
  <2>1. build' = [build EXCEPT ![b] = IdleBuild] /\ UNCHANGED << sources, attempt, clean >>
        /\ clobbered' \in BOOLEAN
    BY <1>5, BuildHolds DEF CrashBuild
  <2>2. Sized(bpo') /\ bps' \in Statuses \cup {None} /\ bpr' = bpr
    <3>1. Sized(Damaged) /\ NoStatus \in Statuses
      BY DEF Sized, Contents, Proper, NoStatus, Statuses
    <3> QED
      BY <1>5, <3>1, BuildHolds DEF CrashBuild, files
  <2> QED
    BY <2>1, <2>2, BuildHolds, BuildTyped
<1> QED
  BY <1>1, <1>2, <1>3, <1>4, <1>5 DEF BuildStep

(* So does every step of Rodin.                                              *)
LEMMA RodinStepTyped ==
    ASSUME Typed, RodinStep
    PROVE  Typed'
<1>1. Sized(bpo) /\ TypeOK
  BY DEF Typed
<1>2. ASSUME NEW o \in Obligation, StartAttempt(o)
      PROVE  Typed'
  <2>1. bpo \in Obligations /\ o \in Names(bpo)
    BY <1>1, <1>2, SizedFiles DEF StartAttempt, Proper
  <2>2. bpo.goal[o] \in Content /\ bpo.hyps \in Content \cup {None} /\ bpo.stamp[o] \in Nat
    BY <2>1, NamesOfFile DEF Obligations
  <2>3. attempt' \in Attempt
    BY <1>2, <2>2 DEF StartAttempt, Attempt
  <2> QED
    BY <1>1, <1>2, <2>3, TypedKept DEF StartAttempt, TypeOK, files
<1>3. ASSUME NEW kind \in Kinds, FinishAttempt(kind)
      PROVE  Typed'
  <2> DEFINE o == attempt.obligation
             stored == IF bpr \in {None, Damaged} THEN NoStatus ELSE bpr
             dependent == kind = "context"
  <2>1. /\ attempt \in Attempt /\ o \in Obligation /\ attempt.stamp \in Nat
        /\ bps \in Statuses \cup {None}
    BY <1>1, <1>3 DEF FinishAttempt, TypeOK, Attempt
  <2>2. PICK g \in {None, attempt.goal}, h \in {None, attempt.hyps} :
           LET needs == [goal |-> g, hyps |-> h]
           IN  /\ bpr' = [stored EXCEPT ![o] = [confidence |-> Discharged, kind |-> kind,
                                                needs |-> needs]]
               /\ bps' = IF bps = None \/ bps[o] = None THEN bps
                         ELSE [bps EXCEPT ![o] =
                                 [confidence |-> Discharged, stamp |-> attempt.stamp,
                                  broken |-> FALSE, context |-> dependent, proof |-> needs]]
    BY <1>3 DEF FinishAttempt
  <2> DEFINE needs == [goal |-> g, hyps |-> h]
             proof == [confidence |-> Discharged, kind |-> kind, needs |-> needs]
             row == [confidence |-> Discharged, stamp |-> attempt.stamp,
                     broken |-> FALSE, context |-> dependent, proof |-> needs]
  <2>3. needs \in Dependencies /\ dependent \in BOOLEAN
    BY <2>1 DEF Attempt, Dependencies
  <2>4. stored \in Proofs
    <3>1. NoStatus \in Proofs
      BY DEF NoStatus, Proofs
    <3> QED
      BY <1>1, <3>1 DEF TypeOK
  <2>5. bpr' = [stored EXCEPT ![o] = proof]
        /\ bps' = IF bps = None \/ bps[o] = None THEN bps ELSE [bps EXCEPT ![o] = row]
    BY <2>2
  <2> HIDE DEF stored, dependent, needs
  <2>6. proof \in Proof /\ row \in Status
    BY <2>1, <2>3 DEF Proof, Status, Confidence
  <2> HIDE DEF proof, row
  <2>7. bpr' \in Proofs /\ bps' \in Statuses \cup {None}
    BY <2>1, <2>4, <2>5, <2>6 DEF Proofs, Statuses
  <2> QED
    BY <1>1, <1>3, <2>7, TypedKept DEF FinishAttempt, TypeOK
<1>4. CASE RodinUpdate
  <2>1. bps' \in Statuses
    BY <1>1, <1>4, UpdatedAreStatuses DEF RodinUpdate, TypeOK
  <2> QED
    BY <1>1, <1>4, <2>1, TypedKept DEF RodinUpdate, TypeOK
<1> QED
  BY <1>2, <1>3, <1>4 DEF RodinStep

(* And of a clean-up.                                                        *)
LEMMA CleanStepTyped ==
    ASSUME Typed, CleanStep
    PROVE  Typed'
<1>1. Sized(bpo) /\ TypeOK
  BY DEF Typed
<1>2. /\ clean \in Clean /\ bps \in Statuses \cup {None} /\ bpr \in Proofs \cup {None, Damaged}
      /\ IdleClean \in Clean
  BY <1>1 DEF TypeOK, Clean, IdleClean
<1>3. ASSUME clean' \in Clean, bps' \in Statuses \cup {None}, bpr' \in Proofs \cup {None, Damaged},
             UNCHANGED << sources, bpo, build, attempt, clobbered >>
      PROVE  Typed'
  BY <1>1, <1>3, TypedKept DEF TypeOK
<1>4. ASSUME NEW purge, NEW broken, NEW selected, BeginClean(purge, broken, selected)
      PROVE  Typed'
  <2> DEFINE stored == {o \in Obligation : bpr[o] # None}
             dropped == IF purge /\ bpo # None THEN stored \ Names(bpo) ELSE {}
             reset == {o \in stored \ dropped :
                          o \in selected \/ (broken /\ NoLongerApplies(o))}
             kept == stored \ dropped
             emptied == IF kept = {} /\ bps = None THEN None
                        ELSE [o \in Obligation |->
                                IF o \notin kept THEN None
                                ELSE IF o \in reset THEN EmptyProof ELSE bpr[o]]
             rows == IF reset = {} \/ bps = None \/ bpo = None THEN None ELSE ResetRows(reset)
  <2>1. /\ clean' = [pc |-> "write_bpr", bpr |-> emptied, bps |-> rows]
        /\ UNCHANGED << sources, bpo, bps, bpr, build, attempt, clobbered >>
        /\ bpr \in Proofs /\ bpo # Damaged
    BY <1>2, <1>4 DEF BeginClean, files
  <2>2. emptied \in Proofs \cup {None}
    <3>1. EmptyProof \in Proof
      BY DEF Proof
    <3> HIDE DEF kept, reset
    <3> QED
      BY <2>1, <3>1 DEF Proofs
  <2>3. rows \in Statuses \cup {None}
    <3> HIDE DEF reset
    <3> SUFFICES ASSUME bps \in Statuses, bpo # None
                 PROVE  ResetRows(reset) \in Statuses
      BY <1>2
    <3>1. bpo \in Obligations
      BY <1>1, <2>1, SizedFiles DEF Proper
    <3> DEFINE stamp(o) == IF o \in Names(bpo) THEN bpo.stamp[o] ELSE bps[o].stamp
    <3>2. ASSUME NEW o \in Obligation, bps[o] # None
          PROVE  FreshStatus(stamp(o)) \in Status
      <4>1. bps[o] \in Status
        BY <3>2 DEF Statuses
      <4>2. stamp(o) \in Nat
        BY <3>1, <4>1 DEF Status, Obligations
      <4> HIDE DEF stamp
      <4> QED
        BY <4>2, FreshStatusType
    <3>3. ResetRows(reset) = [o \in Obligation |-> IF o \notin reset \/ bps[o] = None THEN bps[o]
                                                   ELSE FreshStatus(stamp(o))]
      BY DEF ResetRows
    <3> HIDE DEF stamp
    <3> QED
      BY <3>2, <3>3 DEF Statuses
  <2> HIDE DEF emptied, rows
  <2>4. clean' \in Clean
    BY <2>1, <2>2, <2>3 DEF Clean
  <2> QED
    BY <1>2, <1>3, <2>1, <2>4
<1>5. CASE CleanBpr
  <2>1. clean' \in Clean /\ clean.bpr \in Proofs \cup {None}
    BY <1>2, <1>5 DEF CleanBpr, Clean
  <2> QED
    BY <1>2, <1>3, <1>5, <2>1 DEF CleanBpr
<1>6. CASE CleanBps
  <2>1. clean.bps \in Statuses \cup {None}
    BY <1>2 DEF Clean
  <2> QED
    BY <1>2, <1>3, <1>6, <2>1 DEF CleanBps
<1>7. CASE CrashClean
  <2>1. NoStatus \in Statuses
    BY DEF NoStatus, Statuses
  <2>2. /\ bps' \in Statuses \cup {None} /\ bpr' \in Proofs \cup {None, Damaged}
        /\ bpo' = bpo /\ clean' = IdleClean /\ UNCHANGED << sources, build, attempt, clobbered >>
    BY <1>2, <1>7, <2>1 DEF CrashClean, files
  <2> QED
    BY <1>2, <1>3, <2>2
<1> QED
  BY <1>4, <1>5, <1>6, <1>7 DEF CleanStep

(* Every step keeps the types.                                               *)
LEMMA NextTyped == Typed /\ [Next]_vars => Typed'
<1> SUFFICES ASSUME Typed, [Next]_vars PROVE Typed'
  OBVIOUS
<1>1. CASE Edit
  <2>1. UNCHANGED << bpo, bps, bpr, build, attempt, clean, clobbered >>
    BY <1>1 DEF Edit, files
  <2> QED
    BY <1>1, <2>1, EditedAreSources, TypedKept DEF Typed, TypeOK
<1>2. CASE UNCHANGED vars
  <2>1. UNCHANGED << sources, bpo, bps, bpr, build, attempt, clean, clobbered >>
    BY <1>2 DEF vars, files
  <2> QED
    BY <2>1, TypedKept DEF Typed, TypeOK
<1> QED
  BY <1>1, <1>2, BuildStepTyped, CleanStepTyped, RodinStepTyped DEF Next

(* No file is written at first, and no build has begun.                      *)
LEMMA InitTyped == Init => Typed
<1> SUFFICES ASSUME Init PROVE Typed
  OBVIOUS
<1>1. IdleClean \in Clean /\ IdleBuild \in Build /\ IdleBuild.bpo = None /\ IdleBuild.pc = "idle"
  BY DEF IdleClean, IdleBuild, Clean, Build, Contents
<1>2. TypeOK
  BY <1>1 DEF Init, TypeOK, Contents, WellFormed
<1> QED
  BY <1>1, <1>2 DEF Init, Typed, Sized, Contents, Proper

-----------------------------------------------------------------------------
(* The invariant is inductive: one lemma per process.                       *)

(* Nothing is stamped at first.                                              *)
LEMMA InitInv == Init => IInv
<1> SUFFICES ASSUME Init PROVE Stamps
  BY InitTyped DEF IInv
<1>1. FilesInv /\ AttemptInv
  BY NoneAssumption DEF Init, FilesInv, AttemptInv, IdleClean
<1>2. BuildInv
  BY DEF Init, BuildInv, BuildSound, IdleBuild
<1> QED
  BY <1>1, <1>2 DEF Stamps

(* A step that leaves files, attempt, build and clean-up alone.              *)
LEMMA FilesUnchanged ==
    ASSUME Sound, UNCHANGED << bpo, bps, build, attempt, clean >>
    PROVE  Stamps'
<1>1. FilesInv' = FilesInv /\ AttemptInv' = AttemptInv
  BY DEF FilesInv, AttemptInv, Known, Earned, Bounded, Believed, StampValid
<1>2. BuildInv'
  BY DEF Sound, Stamps, BuildInv, BuildSound, Successor
<1> QED
  BY <1>1, <1>2 DEF Sound, Stamps

-----------------------------------------------------------------------------
(* A step of a build that leaves the obligation file alone keeps what is said*)
(* of the others.                                                            *)
LEMMA OtherBuildsInv ==
    ASSUME Sound, NEW b \in Builder, BuildSound(b)', bpo' = bpo,
           \A c \in Builder \ {b} : build'[c] = build[c]
    PROVE  BuildInv'
<1>1. ASSUME NEW c \in Builder, c # b
      PROVE  BuildSound(c)'
  <2>1. BuildSound(c) /\ build'[c] = build[c]
    BY <1>1 DEF Sound, Stamps, BuildInv
  <2> QED
    BY <2>1 DEF BuildSound, Successor
<1> QED
  BY <1>1 DEF BuildInv

(* A build computes a successor of the file it replaces, and known statuses. *)
LEMMA BeginBuildInv ==
    ASSUME Sound, NEW b \in Builder, NEW kind, BeginBuild(b, kind)
    PROVE  Stamps'
<1> DEFINE new == Generate(sources)
           out == ReconcileObligations(bpo, new)
           rows == ReconcileStatuses(bpo, bps, new, out)
<1>1. new \in Obligations /\ Bounded(new)
  BY GenerateType DEF Sound, Typed, TypeOK
<1>2. /\ bpo \in Obligations \cup {None} /\ (bpo # None => Bounded(bpo))
      /\ (bpo = None => bps = None) /\ bps \in Statuses \cup {None}
      /\ (bps # None => Known(bpo, bps))
  BY DEF Sound, Typed, Stamps, TypeOK, FilesInv
<1>3. Successor(out)
  BY <1>1, <1>2, ReconcileIsSuccessor DEF Successor
<1>4. rows \in Statuses /\ rows # None /\ Known(out, rows)
  BY <1>1, <1>2, ReconciledAreKnown
<1> DEFINE next == [pc |-> IF kind = "command" THEN "status" ELSE "write_bpo",
                    bpo |-> out, bps |-> rows,
                    made_up |-> IF kind = "command" THEN Synthesized(bps, rows) ELSE {}]
<1>5. build' = [build EXCEPT ![b] = next] /\ UNCHANGED << sources, bpo, bps, bpr, attempt, clean >>
  BY DEF BeginBuild, files
<1>6. next \in Build /\ next.pc \in {"status", "write_bpo"} /\ next.bpo = out /\ next.bps = rows
  <2>1. Synthesized(bps, rows) \in SUBSET Obligation /\ out \in Contents
    BY <1>3 DEF Synthesized, Successor, Contents
  <2> HIDE DEF out, rows
  <2> QED
    BY <1>4, <2>1 DEF Build
<1> HIDE DEF next, out, rows, new
<1>7. build' \in [Builder -> Build] /\ build'[b] = next
      /\ \A c \in Builder \ {b} : build'[c] = build[c]
  BY <1>5, <1>6 DEF Sound, Typed, TypeOK
<1>8. FilesInv' /\ AttemptInv'
  BY <1>5 DEF Sound, Stamps, FilesInv, AttemptInv, Known, Earned, Bounded, Believed, StampValid
<1>9. BuildInv'
  <2>1. BuildSound(b)'
    BY <1>3, <1>4, <1>5, <1>6, <1>7 DEF BuildSound, Successor
  <2> QED
    BY <1>5, <1>7, <2>1, OtherBuildsInv
<1> QED
  BY <1>8, <1>9 DEF Stamps

(* The status pass gives the build other known statuses.                     *)
LEMMA StatusPassInv ==
    ASSUME Sound, NEW b \in Builder, StatusPass(b)
    PROVE  Stamps'
<1> DEFINE out == build[b].bpo
           rows == UpdateStatuses(out, build[b].bps, build[b].made_up, bpr)
<1>1. /\ build[b] \in Build /\ build[b].pc = "status"
      /\ build[b].bps # None /\ Known(out, build[b].bps) /\ Successor(out)
  BY DEF Sound, Typed, Stamps, TypeOK, BuildInv, BuildSound, StatusPass
<1>2. rows \in Statuses /\ rows # None /\ Known(out, rows)
  <2>1. out \in Obligations /\ Bounded(out) /\ build[b].bps \in Statuses
        /\ build[b].made_up \in SUBSET Obligation
    BY <1>1 DEF Successor, Build
  <2>2. bpr \in Proofs \cup {None, Damaged}
    BY DEF Sound, Typed, TypeOK
  <2> QED
    BY <1>1, <2>1, <2>2, UpdatedAreKnown
<1> HIDE DEF rows
<1>3. /\ build' = [build EXCEPT ![b].pc = "write_bpo", ![b].made_up = {}, ![b].bps = rows]
      /\ UNCHANGED << sources, bpo, bps, bpr, attempt, clean >>
  BY DEF StatusPass, files, rows
<1>4. /\ \A c \in Builder \ {b} : build'[c] = build[c]
      /\ build'[b].pc = "write_bpo" /\ build'[b].bpo = out /\ build'[b].bps = rows
  <2>1. build'[b] = [build[b] EXCEPT !.pc = "write_bpo", !.made_up = {}, !.bps = rows]
    BY <1>3 DEF Sound, Typed, TypeOK
  <2>2. /\ build'[b] \in Build /\ build'[b].pc = "write_bpo"
        /\ build'[b].bpo = out /\ build'[b].bps = rows
    BY <1>1, <1>2, <2>1 DEF Build
  <2> QED
    BY <1>3, <2>2 DEF Sound, Typed, TypeOK
<1>5. FilesInv' /\ AttemptInv'
  BY <1>3 DEF Sound, Stamps, FilesInv, AttemptInv, Known, Earned, Bounded, Believed, StampValid
<1>6. BuildInv'
  <2>1. BuildSound(b)'
    BY <1>1, <1>2, <1>3, <1>4 DEF BuildSound, Successor
  <2> QED
    BY <1>3, <1>4, <2>1, OtherBuildsInv
<1> QED
  BY <1>5, <1>6 DEF Stamps

(* The obligation file moves on: what is known stays known.                  *)
LEMMA WriteBpoInv ==
    ASSUME Sound, NEW b \in Builder, WriteBpo(b), ~ clobbered'
    PROVE  Stamps'
<1> DEFINE out == build[b].bpo
<1>1. /\ build[b] \in Build /\ build[b].pc = "write_bpo"
      /\ build[b].bps # None /\ Known(out, build[b].bps)
      /\ out \in Obligations /\ Bounded(out) /\ (bpo # None => SameUpTo(bpo, out))
  BY DEF Sound, Typed, Stamps, TypeOK, BuildInv, BuildSound, WriteBpo, Successor
<1>2. bpo' = out /\ build' = [build EXCEPT ![b].pc = "write_bps"]
      /\ UNCHANGED << sources, bps, bpr, attempt, clean >>
  BY DEF WriteBpo
<1>3. /\ bps \in Statuses \cup {None} /\ clean.bps \in Statuses \cup {None}
      /\ bpo \in Obligations \cup {None}
  BY DEF Sound, Typed, Stamps, TypeOK, Clean, FilesInv
<1>4. ASSUME bpo # None, NEW rows \in Statuses, Known(bpo, rows)
      PROVE  Known(out, rows)
  <2> SUFFICES ASSUME NEW o \in Obligation, rows[o] # None
               PROVE  rows[o].stamp <= out.root /\ Earned(out, rows[o], o)
    BY DEF Known
  <2>1. rows[o] \in Status /\ rows[o].stamp <= bpo.root /\ Earned(bpo, rows[o], o)
    BY <1>4 DEF Statuses, Known
  <2> QED
    BY <1>1, <1>3, <1>4, <2>1, SuccessorKnows
<1>5. /\ build'[b].pc = "write_bps" /\ build'[b].bpo = out /\ build'[b].bps = build[b].bps
      /\ \A c \in Builder \ {b} : build'[c].pc = "idle"
  <2>1. build'[b] = [build[b] EXCEPT !.pc = "write_bps"]
    BY <1>2 DEF Sound, Typed, TypeOK
  <2>2. build'[b] \in Build /\ build'[b].pc = "write_bps" /\ build'[b].bpo = out
        /\ build'[b].bps = build[b].bps
    BY <1>1, <2>1 DEF Build
  <2>3. \A c \in Builder \ {b} : build[c].pc = "idle" /\ build'[c] = build[c]
    BY <1>2 DEF WriteBpo, Sound, Typed, TypeOK
  <2> QED
    BY <2>2, <2>3
<1>6. out # None
  BY <1>1, NoneAssumption
<1>7. FilesInv'
  BY <1>1, <1>2, <1>3, <1>4, <1>6 DEF Sound, Stamps, FilesInv
<1>8. AttemptInv'
  <2> SUFFICES ASSUME attempt # None
               PROVE  /\ attempt.stamp <= out.root
                      /\ attempt.obligation \in Names(out)
                         /\ out.stamp[attempt.obligation] = attempt.stamp
                           => out.goal[attempt.obligation] = attempt.goal /\ out.hyps = attempt.hyps
    BY <1>2 DEF AttemptInv
  <2>1. bpo # None /\ bpo \in Obligations /\ attempt \in Attempt /\ SameUpTo(bpo, out)
    BY <1>1, <1>3 DEF Sound, Typed, Stamps, FilesInv, TypeOK
  <2>2. /\ attempt.stamp <= bpo.root
        /\ attempt.obligation \in Names(bpo) /\ bpo.stamp[attempt.obligation] = attempt.stamp
             => bpo.goal[attempt.obligation] = attempt.goal /\ bpo.hyps = attempt.hyps
    BY DEF Sound, Stamps, AttemptInv
  <2>3. attempt.stamp \in Nat /\ bpo.root \in Nat /\ out.root \in Nat
    BY <1>1, <2>1 DEF Attempt, Obligations
  <2> QED
    BY <2>1, <2>2, <2>3 DEF SameUpTo
<1>9. BuildInv'
  <2>1. BuildSound(b)'
    BY <1>1, <1>2, <1>5, <1>6 DEF BuildSound
  <2>2. \A c \in Builder \ {b} : BuildSound(c)'
    BY <1>5 DEF BuildSound
  <2> QED
    BY <2>1, <2>2 DEF BuildInv
<1> QED
  BY <1>7, <1>8, <1>9 DEF Stamps

(* A step that ends a build, whatever it leaves in the status file.          *)
LEMMA BuildEndsInv ==
    ASSUME Sound, NEW b \in Builder, build' = [build EXCEPT ![b] = IdleBuild],
           UNCHANGED << sources, bpo, bpr, attempt, clean >>,
           bps' \in Statuses \cup {None}, bpo = None => bps' = None,
           bps' # None => Known(bpo, bps')
    PROVE  Stamps'
<1>1. IdleBuild \in Build /\ IdleBuild.pc = "idle"
  BY DEF IdleBuild, Build, Contents
<1>2. build'[b] = IdleBuild /\ \A c \in Builder \ {b} : build'[c] = build[c]
  BY DEF Sound, Typed, TypeOK
<1>3. FilesInv'
  BY DEF Sound, Stamps, FilesInv, Known, Earned, Bounded, Believed, StampValid
<1>4. AttemptInv'
  BY DEF Sound, Stamps, AttemptInv
<1>5. BuildInv'
  <2>1. BuildSound(b)'
    BY <1>1, <1>2 DEF BuildSound
  <2> QED
    BY <1>2, <2>1, OtherBuildsInv
<1> QED
  BY <1>3, <1>4, <1>5 DEF Stamps

(* A status file cut off before its first row holds nothing to be known.     *)
LEMMA NoStatusIsKnown ==
    ASSUME NEW file
    PROVE  NoStatus \in Statuses /\ Known(file, NoStatus)
  BY DEF NoStatus, Statuses, Known

(* The statuses that replace the file's are known to the file just written.  *)
LEMMA WriteBpsInv ==
    ASSUME Sound, NEW b \in Builder, WriteBps(b)
    PROVE  Stamps'
<1>1. /\ build[b] \in Build /\ build[b].pc = "write_bps" /\ build[b].bps # None
      /\ Known(build[b].bpo, build[b].bps) /\ bpo = build[b].bpo /\ bpo # None
  BY DEF Sound, Typed, Stamps, TypeOK, BuildInv, BuildSound, WriteBps
<1>2. build[b].bps \in Statuses
  BY <1>1 DEF Build
<1> QED
  BY <1>1, <1>2, BuildEndsInv DEF WriteBps

(* A crash leaves the files as they are, or the statuses cut off.            *)
LEMMA CrashBuildInv ==
    ASSUME Sound, NEW b \in Builder, CrashBuild(b), ~ clobbered'
    PROVE  Stamps'
<1>1. build' = [build EXCEPT ![b] = IdleBuild] /\ UNCHANGED << sources, attempt, clean >>
  BY DEF CrashBuild
<1>2. CASE UNCHANGED files
  <2>1. /\ UNCHANGED << bpo, bps, bpr >> /\ bps \in Statuses \cup {None}
        /\ (bpo = None => bps = None) /\ (bps # None => Known(bpo, bps))
    BY <1>2 DEF files, Sound, Typed, Stamps, TypeOK, FilesInv
  <2> QED
    BY <1>1, <2>1, BuildEndsInv
<1>3. CASE build[b].pc = "write_bps" /\ bps' = NoStatus /\ UNCHANGED << bpo, bpr >>
  <2>1. bpo # None
    BY <1>3 DEF Sound, Stamps, BuildInv, BuildSound
  <2>2. NoStatus \in Statuses /\ Known(bpo, NoStatus)
    BY NoStatusIsKnown
  <2> QED
    BY <1>1, <1>3, <2>1, <2>2, BuildEndsInv
<1> QED
  BY <1>2, <1>3 DEF CrashBuild

-----------------------------------------------------------------------------
(* Rodin.                                                                   *)

(* An attempt takes its stamp from the file.                                 *)
LEMMA StartAttemptInv ==
    ASSUME Sound, NEW o \in Obligation, StartAttempt(o)
    PROVE  Stamps'
<1>1. /\ bpo \in Obligations /\ Bounded(bpo) /\ bpo # None /\ o \in Names(bpo)
      /\ attempt' = [obligation |-> o, goal |-> bpo.goal[o], hyps |-> bpo.hyps,
                     stamp |-> bpo.stamp[o]]
      /\ UNCHANGED << sources, bpo, bps, bpr, build, clean >>
  BY DEF StartAttempt, Sound, Stamps, FilesInv, files
<1>2. bpo.goal[o] \in Content /\ bpo.hyps \in Content \cup {None} /\ bpo.stamp[o] \in Nat
  BY <1>1, NamesOfFile DEF Obligations
<1>3. attempt' \in Attempt
  BY <1>1, <1>2 DEF Attempt
<1>4. FilesInv'
  BY <1>1 DEF Sound, Stamps, FilesInv, Known, Earned, Bounded, Believed, StampValid
<1>5. AttemptInv'
  BY <1>1, <1>2 DEF AttemptInv, Bounded
<1>6. BuildInv'
  BY <1>1 DEF Sound, Stamps, BuildInv, BuildSound, Successor
<1> QED
  BY <1>4, <1>5, <1>6 DEF Stamps

(* The verdict carries the stamp the attempt started from.                   *)
LEMMA FinishAttemptInv ==
    ASSUME Sound, NEW kind \in Kinds, FinishAttempt(kind)
    PROVE  Stamps'
<1>1. /\ attempt \in Attempt /\ attempt # None /\ attempt' = None
      /\ UNCHANGED << sources, bpo, build, clean >>
      /\ bpo \in Obligations /\ bpo # None /\ Bounded(bpo)
      /\ bps \in Statuses \cup {None} /\ (bps # None => Known(bpo, bps))
      /\ attempt.stamp <= bpo.root
      /\ attempt.obligation \in Names(bpo) /\ bpo.stamp[attempt.obligation] = attempt.stamp
             => bpo.goal[attempt.obligation] = attempt.goal /\ bpo.hyps = attempt.hyps
  BY DEF FinishAttempt, Sound, Typed, Stamps, TypeOK, FilesInv, AttemptInv
<1>2. PICK g \in {None, attempt.goal}, h \in {None, attempt.hyps} :
         LET needs == [goal |-> g, hyps |-> h]
             proof == [confidence |-> Discharged, kind |-> kind, needs |-> needs]
             stored == IF bpr \in {None, Damaged} THEN NoStatus ELSE bpr
         IN  /\ bpr' = [stored EXCEPT ![attempt.obligation] = proof]
             /\ bps' = IF bps = None \/ bps[attempt.obligation] = None THEN bps
                       ELSE [bps EXCEPT ![attempt.obligation] =
                               [confidence |-> Discharged, stamp |-> attempt.stamp,
                                broken |-> FALSE, context |-> kind = "context",
                                proof |-> needs]]
  BY DEF FinishAttempt
<1> DEFINE o == attempt.obligation
           needs == [goal |-> g, hyps |-> h]
           proof == [confidence |-> Discharged, kind |-> kind, needs |-> needs]
           stored == IF bpr \in {None, Damaged} THEN NoStatus ELSE bpr
           dependent == kind = "context"
           row == [confidence |-> Discharged, stamp |-> attempt.stamp,
                   broken |-> FALSE, context |-> dependent, proof |-> needs]
<1>3. o \in Obligation /\ needs \in Dependencies /\ attempt.stamp \in Nat
  BY <1>1 DEF Attempt, Dependencies
<1>4. /\ row \in Status /\ row.stamp = attempt.stamp /\ row.proof = needs
  <2>1. dependent \in BOOLEAN
    OBVIOUS
  <2> HIDE DEF dependent, needs
  <2> QED
    BY <1>3, <2>1 DEF Status, Confidence
<1>5. row.stamp <= bpo.root /\ Earned(bpo, row, o)
  <2> HIDE DEF row
  <2>1. row.stamp <= bpo.root
    BY <1>1, <1>4
  <2>2. Believed(bpo, row, o) => bpo.goal[o] = attempt.goal /\ bpo.hyps = attempt.hyps
    BY <1>1, <1>4 DEF Believed, StampValid
  <2>3. needs.goal \in {None, attempt.goal} /\ needs.hyps \in {None, attempt.hyps}
    OBVIOUS
  <2> QED
    BY <1>4, <2>1, <2>2, <2>3 DEF Earned, Applies
<1>6. bps' \in Statuses \cup {None} /\ (bps' # None => Known(bpo, bps'))
  <2> HIDE DEF row
  <2>1. CASE bps = None \/ bps[o] = None
    BY <1>1, <1>2, <2>1
  <2>2. CASE ~ (bps = None \/ bps[o] = None)
    <3>1. bps' = [bps EXCEPT ![o] = row] /\ bps \in Statuses /\ Known(bpo, bps)
      BY <1>1, <1>2, <2>2 DEF row
    <3>2. bps' \in Statuses
      BY <1>3, <1>4, <3>1 DEF Statuses
    <3>3. Known(bpo, bps')
      BY <1>3, <1>5, <3>1 DEF Known, Statuses
    <3> QED
      BY <3>2, <3>3
  <2> QED
    BY <2>1, <2>2
<1>7. FilesInv'
  BY <1>1, <1>6 DEF Sound, Stamps, FilesInv, Known, Earned, Bounded, Believed, StampValid
<1>8. AttemptInv'
  BY <1>1 DEF AttemptInv
<1>9. BuildInv'
  BY <1>1 DEF Sound, Stamps, BuildInv, BuildSound, Successor
<1> QED
  BY <1>7, <1>8, <1>9 DEF Stamps

(* Rodin's builder updates rows as the status pass does.                     *)
LEMMA RodinUpdateInv == Sound /\ RodinUpdate => Stamps'
<1> SUFFICES ASSUME Sound, RodinUpdate PROVE Stamps'
  OBVIOUS
<1>1. /\ bpo \in Obligations /\ Bounded(bpo) /\ bps \in Statuses /\ Known(bpo, bps)
      /\ bpr \in Proofs \cup {None, Damaged}
      /\ bps' = UpdateStatuses(bpo, bps, {}, bpr)
      /\ UNCHANGED << sources, bpo, bpr, build, attempt, clean >>
  BY DEF RodinUpdate, Sound, Typed, Stamps, TypeOK, FilesInv
<1>2. bps' \in Statuses /\ Known(bpo, bps') /\ bpo # None
  BY <1>1, UpdatedAreKnown, NoneAssumption
<1>3. FilesInv'
  BY <1>1, <1>2 DEF Sound, Stamps, FilesInv, Known, Earned, Bounded, Believed, StampValid
<1>4. AttemptInv'
  BY <1>1 DEF Sound, Stamps, AttemptInv
<1>5. BuildInv'
  BY <1>1 DEF Sound, Stamps, BuildInv, BuildSound, Successor
<1> QED
  BY <1>3, <1>4, <1>5 DEF Stamps

-----------------------------------------------------------------------------
(* The clean-up.                                                            *)

(* A step of the clean-up that leaves known statuses.                        *)
LEMMA CleanStepInv ==
    ASSUME Sound, UNCHANGED << sources, bpo, build, attempt >>,
           clean'.bps # None => bpo # None /\ Known(bpo, clean'.bps),
           clean'.pc = "write_bps" => clean'.bps # None,
           bps' # None => bpo # None /\ Known(bpo, bps')
    PROVE  Stamps'
<1>1. FilesInv'
  BY DEF Sound, Stamps, FilesInv, Known, Earned, Bounded, Believed, StampValid
<1>2. AttemptInv'
  BY DEF Sound, Stamps, AttemptInv
<1>3. BuildInv'
  BY DEF Sound, Stamps, BuildInv, BuildSound, Successor
<1> QED
  BY <1>1, <1>2, <1>3 DEF Stamps

(* What the invariant says of the files a clean-up reads.                    *)
LEMMA CleanReads ==
    ASSUME Sound
    PROVE  /\ bpo \in Obligations \cup {None} /\ (bpo # None => Bounded(bpo))
           /\ bps \in Statuses \cup {None} /\ (bps # None => bpo # None /\ Known(bpo, bps))
           /\ bpr \in Proofs \cup {None, Damaged}
           /\ clean \in Clean
           /\ clean.bps # None => bpo # None /\ Known(bpo, clean.bps)
           /\ clean.pc = "write_bps" => clean.bps # None
  BY DEF Sound, Typed, Stamps, TypeOK, FilesInv

(* The rows a clean-up resets carry no verdict, at stamps of the file.       *)
LEMMA BeginCleanInv ==
    ASSUME Sound, NEW purge \in BOOLEAN, NEW broken \in BOOLEAN,
           NEW selected \in SUBSET Obligation, BeginClean(purge, broken, selected)
    PROVE  Stamps'
<1> DEFINE stored == {o \in Obligation : bpr[o] # None}
           dropped == IF purge /\ bpo # None THEN stored \ Names(bpo) ELSE {}
           reset == {o \in stored \ dropped :
                        o \in selected \/ (broken /\ NoLongerApplies(o))}
           kept == stored \ dropped
           emptied == IF kept = {} /\ bps = None THEN None
                      ELSE [o \in Obligation |->
                              IF o \notin kept THEN None
                              ELSE IF o \in reset THEN EmptyProof ELSE bpr[o]]
           rows == IF reset = {} \/ bps = None \/ bpo = None THEN None ELSE ResetRows(reset)
<1>1. /\ clean' = [pc |-> "write_bpr", bpr |-> emptied, bps |-> rows]
      /\ UNCHANGED << sources, bpo, bps, bpr, build, attempt >>
      /\ bpr \notin {None, Damaged}
  BY DEF BeginClean, files
<1>2. rows \in Statuses \cup {None} /\ (rows # None => bpo # None /\ Known(bpo, rows))
  <2> HIDE DEF reset
  <2> SUFFICES ASSUME rows # None
               PROVE  rows \in Statuses /\ bpo # None /\ Known(bpo, rows)
    OBVIOUS
  <2>1. /\ bpo \in Obligations /\ Bounded(bpo) /\ bps \in Statuses /\ Known(bpo, bps)
        /\ bpo # None /\ rows = ResetRows(reset)
    BY CleanReads
  <2> HIDE DEF rows
  <2> DEFINE stamp(o) == IF o \in Names(bpo) THEN bpo.stamp[o] ELSE bps[o].stamp
  <2>2. ASSUME NEW o \in Obligation, bps[o] # None
        PROVE  stamp(o) \in Nat /\ stamp(o) <= bpo.root
    <3>1. bps[o] \in Status /\ bps[o].stamp <= bpo.root
      BY <2>1, <2>2 DEF Statuses, Known
    <3> QED
      BY <2>1, <3>1 DEF Status, Obligations, Bounded
  <2>3. rows = [o \in Obligation |-> IF o \notin reset \/ bps[o] = None THEN bps[o]
                                     ELSE FreshStatus(stamp(o))]
    BY <2>1 DEF ResetRows
  <2> HIDE DEF stamp
  <2>4. ASSUME NEW o \in Obligation, bps[o] # None
        PROVE  /\ FreshStatus(stamp(o)) \in Status
               /\ FreshStatus(stamp(o)).stamp <= bpo.root
               /\ Earned(bpo, FreshStatus(stamp(o)), o)
    BY <2>1, <2>2, <2>4, FreshStatusType, FreshIsKnown
  <2>5. rows \in Statuses
    BY <2>1, <2>3, <2>4 DEF Statuses
  <2>6. Known(bpo, rows)
    BY <2>1, <2>3, <2>4 DEF Known
  <2> QED
    BY <2>1, <2>5, <2>6
<1> HIDE DEF emptied, rows
<1>3. clean'.bps = rows /\ clean'.pc = "write_bpr"
  BY <1>1
<1> QED
  BY <1>1, <1>2, <1>3, CleanReads, CleanStepInv

(* Proofs are no part of what is known.                                      *)
LEMMA CleanBprInv == Sound /\ CleanBpr => Stamps'
<1> SUFFICES ASSUME Sound, CleanBpr PROVE Stamps'
  OBVIOUS
<1>1. clean'.bps \in {None, clean.bps} /\ (clean'.pc = "write_bps" => clean'.bps # None)
  BY CleanReads DEF CleanBpr, Clean, IdleClean
<1> QED
  BY <1>1, CleanReads, CleanStepInv DEF CleanBpr

(* The rows of the clean-up have stayed known since it began.                *)
LEMMA CleanBpsInv == Sound /\ CleanBps => Stamps'
<1> SUFFICES ASSUME Sound, CleanBps PROVE Stamps'
  OBVIOUS
<1>1. clean'.bps = None /\ clean'.pc = "idle"
  BY DEF CleanBps, IdleClean
<1> QED
  BY <1>1, CleanReads, CleanStepInv DEF CleanBps

(* A crash leaves the statuses as they are, or cut off.                      *)
LEMMA CrashCleanInv == Sound /\ CrashClean => Stamps'
<1> SUFFICES ASSUME Sound, CrashClean PROVE Stamps'
  OBVIOUS
<1>1. clean'.bps = None /\ clean'.pc = "idle" /\ UNCHANGED << sources, bpo, build, attempt >>
  BY DEF CrashClean, IdleClean, files
<1>2. CASE UNCHANGED files
  BY <1>1, <1>2, CleanReads, CleanStepInv DEF files
<1>3. CASE bpr' = Damaged /\ UNCHANGED << bpo, bps >>
  BY <1>1, <1>3, CleanReads, CleanStepInv
<1>4. CASE clean.pc = "write_bps" /\ bps' = NoStatus /\ UNCHANGED << bpo, bpr >>
  <2>1. NoStatus \in Statuses /\ Known(bpo, NoStatus)
    BY NoStatusIsKnown
  <2> QED
    BY <1>1, <1>4, <2>1, CleanReads, CleanStepInv
<1> QED
  BY <1>2, <1>3, <1>4 DEF CrashClean

-----------------------------------------------------------------------------
(* The theorems.                                                            *)

(* What was clobbered stays so.                                              *)
LEMMA StaysClobbered == clobbered /\ [Next]_vars => clobbered'
BY DEF Next, vars, files, bounds, Edit, BuildStep, BeginBuild, StatusPass, WriteBpo, WriteBps,
       CrashBuild, CleanStep, BeginClean, CleanBpr, CleanBps, CrashClean, RodinStep,
       StartAttempt, FinishAttempt, RodinUpdate

(* Every step keeps the invariant.                                           *)
LEMMA NextInv == IInv /\ [Next]_vars => IInv'
<1> SUFFICES ASSUME IInv, [Next]_vars, ~ clobbered' PROVE Stamps'
  BY NextTyped DEF IInv
<1>0. Sound
  <2>1. ~ clobbered
    BY StaysClobbered DEF IInv, Typed, TypeOK
  <2> QED
    BY <2>1 DEF IInv, Sound
<1>1. ASSUME NEW b \in Builder, BuildStep(b) PROVE Stamps'
  BY <1>0, <1>1, BeginBuildInv, StatusPassInv, WriteBpoInv, WriteBpsInv, CrashBuildInv DEF BuildStep
<1>2. CASE CleanStep
  BY <1>0, <1>2, BeginCleanInv, CleanBprInv, CleanBpsInv, CrashCleanInv DEF CleanStep
<1>3. CASE RodinStep
  BY <1>0, <1>3, StartAttemptInv, FinishAttemptInv, RodinUpdateInv DEF RodinStep
<1>4. CASE Edit \/ UNCHANGED vars
  <2>1. UNCHANGED << bpo, bps, build, attempt, clean >>
    BY <1>4 DEF Edit, vars, files
  <2> QED
    BY <1>0, <2>1, FilesUnchanged
<1> QED
  BY <1>1, <1>2, <1>3, <1>4 DEF Next

(* The invariant holds in every reachable state.                             *)
LEMMA Invariant == Spec => []IInv
  BY InitInv, NextInv, PTL DEF Spec

(* Every file, and every file a build or a clean-up holds, is one the code   *)
(* can write, whatever builds overlap and whatever a crash breaks off.       *)
THEOREM TypeCorrect == Spec => []TypeOK
<1>1. Typed => TypeOK
  BY DEF Typed
<1> QED
  BY <1>1, InitTyped, NextTyped, PTL DEF Spec

(* A status that is believed was reached from a proof that applies to the    *)
(* obligation as the file states it, whatever Rodin, a clean-up, a crash or  *)
(* another build did between two writes of a build, until an obligation file *)
(* is clobbered.                                                             *)
THEOREM StatusesAreEarned == Spec => []BelievedIsEarned
<1>1. IInv => BelievedIsEarned
  BY DEF IInv, Stamps, FilesInv, Known, BelievedIsEarned, AllEarned, Earned, Believed
<1> QED
  BY <1>1, Invariant, PTL

(* The animator leaves out only obligations of the sources as they are whose *)
(* recorded proof applies to them, until an obligation file is clobbered.    *)
THEOREM SkippedAreProved == Spec => []SkippedIsProved
<1>1. ASSUME IInv PROVE SkippedIsProved
  <2> DEFINE new == Generate(sources)
             out == ReconcileObligations(bpo, new)
             rows == ReconcileStatuses(bpo, bps, new, out)
  <2>0. SUFFICES ASSUME ~ clobbered
                 PROVE  \A o \in Skipped \cap Names(sources) :
                            Applies(rows[o].proof, sources.goal[o], sources.hyps)
    BY DEF SkippedIsProved, Skipped, InMemory
  <2>1. /\ bpo \in Obligations \cup {None} /\ (bpo # None => Bounded(bpo))
        /\ (bpo = None => bps = None) /\ bps \in Statuses \cup {None}
        /\ (bps # None => Known(bpo, bps)) /\ sources \in Source /\ WellFormed(sources)
    BY <1>1, <2>0 DEF IInv, Typed, Stamps, TypeOK, FilesInv
  <2>2. new \in Obligations /\ Bounded(new)
    BY <2>1, GenerateType
  <2>3. /\ ~ IsStub(new) => /\ out.hyps = new.hyps
                            /\ \A o \in Names(new) : out.goal[o] = new.goal[o]
    BY <2>1, <2>2, ReconcileIsSuccessor
  <2>4. Known(out, rows)
    BY <2>1, <2>2, ReconciledAreKnown
  <2>5. /\ new.hyps = sources.hyps /\ new.goal = sources.goal
        /\ Names(new) = {o \in Obligation : sources.goal[o] # None}
    BY <2>2, NamesOfFile DEF Generate
  <2> SUFFICES ASSUME NEW o \in Skipped, o \in Names(sources)
               PROVE  Applies(rows[o].proof, sources.goal[o], sources.hyps)
    OBVIOUS
  <2>6. o \in Obligation /\ Believed(out, rows[o], o)
    BY DEF Skipped, SkippedOf, InMemory
  <2>7. sources.goal[o] # None /\ o \in Names(new) /\ ~ IsStub(new)
    BY <2>1, <2>5, <2>6 DEF WellFormed, IsStub, Names
  <2>8. Applies(rows[o].proof, out.goal[o], out.hyps)
    BY <2>4, <2>6 DEF Known, Earned, Believed
  <2> QED
    BY <2>3, <2>5, <2>7, <2>8
<1> QED
  BY <1>1, Invariant, PTL

-----------------------------------------------------------------------------
(* Reconciliation and the status pass, whatever the files are.               *)

(* What reconciliation keeps of a generated file, and generates again.       *)
LEMMA SameGenerated ==
    ASSUME NEW s \in Source, NEW o \in Obligation
    PROVE  /\ Generate(s) \in Obligations /\ Proper(Generate(s))
           /\ Generate(s).hyps = s.hyps /\ Generate(s).goal = s.goal
           /\ o \in Names(Generate(s)) <=> s.goal[o] # None
<1>1. Generate(s) \in Obligations /\ Bounded(Generate(s))
  BY GenerateType
<1>2. Generate(s).hyps = s.hyps /\ Generate(s).goal = s.goal
  BY DEF Generate
<1> QED
  BY <1>1, <1>2, NamesOfFile, BoundedIsSized

(* Reconciling a second time finds every obligation unchanged.               *)
LEMMA ReconcileSettles ==
    ASSUME NEW old, Sized(old), NEW new \in Obligations, Bounded(new), ~ IsStub(new)
    PROVE  LET out == ReconcileObligations(old, new)
           IN  ReconcileObligations(out, new) = out /\ Names(out) = Names(new) /\ Proper(out)
<1> DEFINE out == ReconcileObligations(old, new)
<1>1. /\ out \in Obligations /\ Names(out) = Names(new) /\ out.hyps = new.hyps
      /\ \A o \in Names(new) : out.goal[o] = new.goal[o]
  <2>1. CASE old = Damaged
    BY <2>1, NoneAssumption DEF ReconcileObligations
  <2>2. CASE old # Damaged
    <3>1. old \in Obligations \cup {None} /\ (old # None => Bounded(old))
      BY <2>2 DEF Sized, Proper, Contents
    <3> QED
      BY <3>1, ReconcileIsSuccessor
  <2> QED
    BY <2>1, <2>2
<1> HIDE DEF out
<1>2. Proper(out)
  BY <1>1, NoneAssumption DEF Proper
<1>3. AllUnchanged(out, new)
  BY <1>1 DEF AllUnchanged, SameSet, SameSequent
<1>4. ReconcileObligations(out, new) = out
  BY <1>2, <1>3 DEF ReconcileObligations, Proper
<1> QED
  BY <1>1, <1>2, <1>4 DEF out

(* Rebuilding what was just built changes no byte, whatever the files were   *)
(* that the first build replaced.                                            *)
THEOREM RebuildsSettle == Spec => []RebuildIsStable
<1>1. ASSUME Typed
      PROVE  RebuildIsStable
  <2> DEFINE new == Generate(sources)
             out == ReconcileObligations(bpo, new)
             rows == ReconcileStatuses(bpo, bps, new, out)
             again == ReconcileStatuses(out, rows, new, out)
  <2> SUFFICES ASSUME ~ IsStub(sources)
               PROVE  ReconcileObligations(out, new) = out /\ again = rows
    BY DEF RebuildIsStable, InMemory
  <2>1. new \in Obligations /\ Bounded(new) /\ ~ IsStub(new)
    BY <1>1, GenerateType DEF Typed, TypeOK, Generate, IsStub
  <2>2. ReconcileObligations(out, new) = out /\ Proper(out)
    BY <1>1, <2>1, ReconcileSettles DEF Typed
  <2> HIDE DEF out, new
  <2>3. rows \in Statuses /\ rows # None
    BY <1>1, <2>1, ReconciledAreSized, NoneAssumption DEF Typed, TypeOK, out
  <2>4. \A o \in Obligation : rows[o] = None <=> o \notin Names(new)
    <3>1. \A o \in Obligation : FreshStatus(StampOf(out, o)) # None
      BY <1>1, <2>1, ReconciledAreSized, SizedFiles, FreshStatusType, NoneAssumption
         DEF Typed, TypeOK, out
    <3> QED
      BY <2>1, <3>1 DEF ReconcileStatuses
  <2> HIDE DEF rows
  <2>5. again = [o \in Obligation |->
                   IF o \notin Names(new) THEN None
                   ELSE IF rows[o] # None THEN rows[o]
                   ELSE FreshStatus(StampOf(out, o))]
    BY <2>1, <2>3 DEF ReconcileStatuses
  <2>6. again = [o \in Obligation |-> rows[o]]
    BY <2>4, <2>5
  <2>7. rows = [o \in Obligation |-> rows[o]]
    BY <2>3 DEF Statuses
  <2> QED
    BY <2>2, <2>6, <2>7
<1> QED
  BY <1>1, InitTyped, NextTyped, PTL DEF Spec

(* No verdict on an obligation that did not change is lost to reconciliation:*)
(* the obligation keeps its stamp, and the row its verdict.                  *)
THEOREM VerdictsAreKept == Spec => []UnchangedKeepVerdicts
<1>1. ASSUME Typed
      PROVE  UnchangedKeepVerdicts
  <2> DEFINE new == Generate(sources)
             out == ReconcileObligations(bpo, new)
             rows == ReconcileStatuses(bpo, bps, new, out)
  <2> SUFFICES ASSUME Proper(bpo), bps # None, NEW o \in Names(bpo),
                      SameSequent(bpo, sources, o), Believed(bpo, bps[o], o)
               PROVE  o \in Obligation /\ Believed(out, rows[o], o)
    BY DEF UnchangedKeepVerdicts, Skipped, SkippedOf, InMemory, Proper
  <2>1. /\ bpo \in Obligations /\ Bounded(bpo) /\ bpo # None /\ bpo # Damaged
        /\ bps \in Statuses /\ o \in Obligation
    BY <1>1, SizedFiles, NamesOfFile DEF Typed, TypeOK, Proper
  <2>2. sources \in Source /\ WellFormed(sources)
    BY <1>1 DEF Typed, TypeOK
  <2>3. sources.goal[o] # None /\ bpo.goal[o] = sources.goal[o] /\ bpo.hyps = sources.hyps
    <3>1. bpo.goal[o] # None
      BY <2>1, NamesOfFile
    <3> QED
      BY <3>1 DEF SameSequent
  <2>4. /\ new \in Obligations /\ Bounded(new) /\ o \in Names(new)
        /\ ~ IsStub(new) /\ SameSequent(bpo, new, o)
    <3>1. new \in Obligations /\ Bounded(new)
      BY <2>2, GenerateType
    <3>2. new.hyps = sources.hyps /\ new.goal = sources.goal /\ o \in Names(new)
      BY <2>1, <2>2, <2>3, SameGenerated
    <3>3. ~ IsStub(sources)
      BY <2>1, <2>2, <2>3 DEF WellFormed
    <3> QED
      BY <2>3, <3>1, <3>2, <3>3 DEF IsStub, SameSequent
  <2> HIDE DEF new
  <2>5. o \in Names(out) /\ out.stamp[o] = bpo.stamp[o]
    <3>1. CASE AllUnchanged(bpo, new)
      BY <2>1, <2>4, <3>1 DEF ReconcileObligations
    <3>2. CASE ~ AllUnchanged(bpo, new)
      <4>1. out = PlanStamps(bpo, new)
        BY <2>1, <2>4, <3>2 DEF ReconcileObligations
      <4>2. Names(PlanStamps(bpo, new)) = Names(new)
        BY <2>1, <2>4, PlanIsSuccessor
      <4>3. PlanStamps(bpo, new).stamp[o] = bpo.stamp[o]
        BY <2>1, <2>4 DEF PlanStamps, Obligations
      <4> QED
        BY <2>4, <4>1, <4>2, <4>3
    <3> QED
      BY <3>1, <3>2
  <2> HIDE DEF out
  <2>6. rows[o] = bps[o]
    BY <2>1, <2>4 DEF ReconcileStatuses, Believed
  <2> QED
    BY <2>1, <2>5, <2>6 DEF Believed, StampValid
<1> QED
  BY <1>1, InitTyped, NextTyped, PTL DEF Spec

(* A build of the command line leaves no status that is stale for a proof it *)
(* could read, unless that proof depends on more than its obligation.        *)
THEOREM StatusesSettle == Spec => StatusPassSettles
<1> DEFINE Settled(b) == StatusPass(b) =>
             \A o \in Names(build[b].bpo) :
                 LET row == build'[b].bps[o]
                 IN  row # None /\ StampStale(build[b].bpo, row, o)
                       => row.context \/ bpr = Damaged
<1>1. ASSUME Typed, NEW b \in Builder
      PROVE  Settled(b)
  <2> DEFINE file == build[b].bpo
             made_up == build[b].made_up
             row(o) == UpdateRow(file, build[b].bps[o], o, o \in made_up, bpr)
  <2> SUFFICES ASSUME StatusPass(b), bpr # Damaged, NEW o \in Names(file),
                      build'[b].bps[o] # None, StampStale(file, build'[b].bps[o], o)
               PROVE  build'[b].bps[o].context
    OBVIOUS
  <2>1. file \in Obligations /\ o \in Obligation
    BY <1>1, BuildHolds, SizedFiles, NamesOfFile
  <2>2. build'[b].bps = UpdateStatuses(file, build[b].bps, made_up, bpr)
    <3>1. build[b] \in Build /\ build \in [Builder -> Build]
      BY <1>1 DEF Typed, TypeOK
    <3> QED
      BY <3>1 DEF StatusPass, Build
  <2>3. build[b].bps[o] # None /\ build'[b].bps[o] = row(o)
    BY <2>1, <2>2 DEF UpdateStatuses
  <2>4. \/ row(o) = build[b].bps[o] /\ ~ StampStale(file, build[b].bps[o], o)
        \/ row(o) = FreshStatus(StampOf(file, o))
        \/ \E proof : row(o) = ComputeStatus(file, o, proof)
    BY DEF UpdateRow
  <2> HIDE DEF row
  <2>5. CASE row(o) = FreshStatus(StampOf(file, o))
    BY <2>1, <2>3, <2>5 DEF FreshStatus, StampOf, StampStale
  <2>6. ASSUME NEW proof, row(o) = ComputeStatus(file, o, proof)
        PROVE  build'[b].bps[o].context
    <3>1. row(o).stamp = file.stamp[o]
      BY <2>6 DEF ComputeStatus
    <3> QED
      BY <2>3, <3>1 DEF StampStale
  <2> QED
    BY <2>3, <2>4, <2>5, <2>6
<1>2. Typed /\ [Next]_vars => [\A b \in Builder : Settled(b)]_vars
  BY <1>1
<1> QED
  BY <1>2, InitTyped, NextTyped, PTL DEF Spec, StatusPassSettles
=============================================================================

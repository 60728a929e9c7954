-------------------------- MODULE MCObligationFiles --------------------------
(* Instances of ObligationFiles for TLC.  Obligations are interchangeable,   *)
(* and so are what they say and the builds; a budget is shared by what       *)
(* changes the files from outside a build, smaller where builds overlap,     *)
(* before any crash or clean-up, and where an obligation file was clobbered. *)
EXTENDS ObligationFiles, TLC

CONSTANTS MaxEvents, MaxOverlapped, MaxClobbered
ASSUME MaxEventsAssumption == {MaxEvents, MaxOverlapped, MaxClobbered} \subseteq Nat

Symmetry == Permutations(Obligation) \cup Permutations(Content) \cup Permutations(Builder)

Overlapping == \E b, c \in Builder : b # c /\ build[b].pc # "idle" /\ build[c].pc # "idle"
Budget ==
    /\ edits + proofs + crashes + cleans
           <= IF clobbered THEN MaxClobbered ELSE IF Overlapping THEN MaxOverlapped ELSE MaxEvents
    /\ Overlapping => crashes + cleans = 0
=============================================================================

------------------------------- MODULE MCRodin -------------------------------
(* The sessions of RodinSession and the merges of RodinSync in one run.  The *)
(* two share no state here: one of them moves, and the other stays as it     *)
(* began.  The saves, the sessions and the faults share a budget, and so do  *)
(* the versions and the restarts, of which there are none while two          *)
(* builds overlap.  Builders are interchangeable.                            *)
EXTENDS RodinSession, RodinSync, TLC

CONSTANT MaxEvents
ASSUME MaxEventsAssumption == MaxEvents \in Nat

VARIABLE moving

Session == moving = "session" /\ UNCHANGED << syncVars, moving >>
Merging == moving = "merge" /\ UNCHANGED << vars, moving >>

MCInit ==
    /\ Init /\ SyncInit
    /\ moving \in {"session", "merge"}
    /\ moving = "merge" => \A p \in Project : checkout[p] = 0

MCNext ==
    \/ Session /\ FlowStep
    \/ Session /\ MonitorStep
    \/ Session /\ RodinStep
    \/ Session /\ Restart
    \/ Session /\ ClientCancels
    \/ \E k \in Save : Session /\ TaskStep(k)
    \/ \E p \in Project : Session /\ Click(p)
    \/ \E p \in Project : Session /\ Pull(p)
    \/ \E p \in Project : Session /\ DidSave(p)
    \/ Merging /\ SyncNext

MCSpec == MCInit /\ [][MCNext]_<< vars, syncVars, moving >>

Budget ==
    /\ saves + sessions + faults <= MaxEvents
    /\ client.version + restarts <= MaxVersion
    /\ Cardinality({b \in Builder : ~ BuildAt(b, "idle")}) > 1 => client.version + restarts = 0

Symmetry == Permutations(Builder)
=============================================================================

---------------------------- MODULE MCHintsCache ----------------------------
(* Instances of HintsCache for TLC: a machine m that depends on context c.   *)
EXTENDS HintsCache, TLC

CONSTANTS m, c

MCUri == {m, c}
MCClosure == (m :> {m, c}) @@ (c :> {c})
Symmetry == Permutations(Worker)
=============================================================================

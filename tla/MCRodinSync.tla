---------------------------- MODULE MCRodinSync ----------------------------
(* Instances of RodinSync for TLC.  A value is only compared, but Blank is   *)
(* where every line starts.                                                  *)
EXTENDS RodinSync, TLC

Symmetry == Permutations(Line) \cup Permutations(Value \ {Blank})
=============================================================================

------------------------ MODULE MCDiagnosticsPipeline ------------------------
(* Instances of DiagnosticsPipeline for TLC.  Tasks are interchangeable, *)
(* and so are locks: no definition chooses among either.                     *)
EXTENDS DiagnosticsPipeline, TLC

Symmetry == Permutations(Task) \cup Permutations(Lock)
=============================================================================

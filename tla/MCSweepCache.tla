---------------------------- MODULE MCSweepCache ----------------------------
(* An instance of SweepCache for TLC: two texts that declare nothing and one *)
(* that declares a machine.                                                  *)
EXTENDS SweepCache, TLC

CONSTANTS x, none, decl, note

machine == << [name |-> x, kind |-> "machine", edges |-> 1] >>
MCLayer == { << >>, machine }
MCLayerOf == (none :> << >>) @@ (decl :> machine) @@ (note :> << >>)
MCText == {none, decl, note}
=============================================================================

--------------------------- MODULE MCWorkspaceScan ---------------------------
(* An instance of WorkspaceScan for TLC: two files in two folders, a second  *)
(* spelling of the first, texts that differ in name, kind and edges.         *)
EXTENDS WorkspaceScan, TLC

CONSTANTS x, y, machine, context, both

loc(n, k, e) == [name |-> n, kind |-> k, edges |-> e]
MCLayerOf ==
    (machine :> << loc(x, "machine", 1) >>) @@ (context :> << loc(x, "context", 1) >>)
    @@ (both :> << loc(y, "context", 1), loc(x, "machine", 2) >>)
MCLayer == {<< >>} \cup {MCLayerOf[t] : t \in Text}
MCTarget == 3 :> 1
MCFolderOf == 1 :> 1 @@ 2 :> 2 @@ 3 :> 1
MCWriter == Job \cup {Editor}
MCInitial ==
    {[folders |-> << 1, 2 >>, disk |-> (1 :> machine @@ 2 :> Null)],
     [folders |-> << 1 >>, disk |-> (1 :> context @@ 2 :> both)],
     [folders |-> << >>, disk |-> (1 :> machine @@ 2 :> Null)]}

(* Writes meet before the second event only, and after it whatever is no     *)
(* step of a write waits for the one under way.                              *)
Meeting == \E v, w \in Writer : v # w /\ writer[v].pc # "idle" /\ writer[w].pc # "idle"
MeetEarly == Meeting => events <= 1
Turns == AtRest \/ events <= 1 \/ writer' # writer
=============================================================================

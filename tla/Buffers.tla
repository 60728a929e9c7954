------------------------------- MODULE Buffers -------------------------------
(***************************************************************************)
(* What the buffer store promises (eventb-lsp, document.rs): each URI has  *)
(* at most one open buffer, opening, editing and closing it are atomic,    *)
(* every state of a buffer carries an identity never used before, and a    *)
(* commit writes exactly the state that is live.  Opening an open document *)
(* replaces its buffer; the replaced one takes commits, and the edits that *)
(* found it before it was replaced, until it is gone.                      *)
(***************************************************************************)
CONSTANTS Uri, Text, Version, Identity, Null

VARIABLES
    live,       \* per URI: the state of its open buffer, or Null
    leaving,    \* per URI: states of replaced buffers that are not gone yet
    issued,     \* identities handed out
    committed   \* per URI: what the last commit wrote

vars == << live, leaving, issued, committed >>

State == [version : Version, text : Text, id : Identity]

Init ==
    /\ live = [u \in Uri |-> Null]
    /\ leaving = [u \in Uri |-> {}]
    /\ issued = {}
    /\ committed = [u \in Uri |-> Null]

(* A new state comes under a new identity.                                   *)
Write(u) ==
    \E s \in State :
        /\ s.id \notin issued
        /\ live' = [live EXCEPT ![u] = s]
        /\ issued' = issued \cup {s.id}
        /\ UNCHANGED committed

(* didOpen, which replaces the buffer of a document that is open.            *)
OpenBuffer(u) ==
    /\ Write(u)
    /\ leaving' = [leaving EXCEPT ![u] = @ \cup ({live[u]} \ {Null})]

(* didChange.                                                                *)
EditBuffer(u) ==
    /\ live[u] # Null
    /\ Write(u)
    /\ UNCHANGED leaving

(* A change that had looked its buffer up before that was replaced edits it  *)
(* all the same.                                                             *)
EditLeaving(u) ==
    \E old \in leaving[u], s \in State :
        /\ s.id \notin issued
        /\ leaving' = [leaving EXCEPT ![u] = (@ \ {old}) \cup {s}]
        /\ issued' = issued \cup {s.id}
        /\ UNCHANGED << live, committed >>

CloseBuffer(u) ==
    /\ live[u] # Null
    /\ live' = [live EXCEPT ![u] = Null]
    /\ UNCHANGED << leaving, issued, committed >>

(* A replaced buffer is gone for good.                                       *)
Leave(u) ==
    \E s \in leaving[u] :
        /\ leaving' = [leaving EXCEPT ![u] = @ \ {s}]
        /\ UNCHANGED << live, issued, committed >>

(* A close retires an identity nobody used, to invalidate what it stamps.    *)
Retire ==
    \E i \in Identity \ issued :
        /\ issued' = issued \cup {i}
        /\ UNCHANGED << live, leaving, committed >>

Commit(u) ==
    \E s \in leaving[u] \cup ({live[u]} \ {Null}) :
        /\ committed' = [committed EXCEPT ![u] = [version |-> s.version, parse |-> s.id]]
        /\ UNCHANGED << live, leaving, issued >>

Next ==
    \/ \E u \in Uri : OpenBuffer(u) \/ EditBuffer(u) \/ EditLeaving(u)
                    \/ CloseBuffer(u) \/ Leave(u) \/ Commit(u)
    \/ Retire

Spec == Init /\ [][Next]_vars
=============================================================================

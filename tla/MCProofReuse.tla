---------------------------- MODULE MCProofReuse ----------------------------
(* A small instance of ProofReuse.                                           *)
EXTENDS ProofReuse

CONSTANTS S, T

MCName == 0 .. 3
MCType == {S, T}
Id(n, t) == [name |-> n, ty |-> t]

Goal(env, hyps, goal) ==
    [env |-> env, hyps |-> hyps, selected |-> hyps, hidden |-> {}, goal |-> goal]

(* The same obligation with and without its hypothesis, and with a name that *)
(* its proof introduces taken, at that type or another.                      *)
MCObligation == {
    Goal({}, {Ex(S)}, Ex(S)),
    Goal({}, {}, Ex(S)),
    Goal({Id(0, S)}, {Ex(S)}, Ex(S)),
    Goal({}, {All(S)}, All(S)),
    Goal({Id(0, T)}, {All(S)}, All(S)),
    Goal({Id(0, S)}, {In(Id(0, S))}, All(S))}
MCLemma == {Ex(S)}
MCUpgraded == {"externalPP"}
MCUnsound == {"externalPP"}
MCTheory == {1, 2}

(* An existential hypothesis that goes, and comes back.                      *)
ClashObligation == {
    Goal({}, {Ex(S)}, All(S)),
    Goal({Id(0, S)}, {}, All(S))}
ClashLemma == {All(S)}
ClashName == 0 .. 2
=============================================================================

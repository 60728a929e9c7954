------------------------------ MODULE Sequents ------------------------------
(***************************************************************************)
(* Prover sequents, hypothesis actions and proof rules (rossi-prove,       *)
(* sequent.rs, hyp_action.rs, rule.rs).  A sequent binds identifiers to    *)
(* types, has hypotheses, of which some are selected and some hidden, and  *)
(* a goal.  Insertion order fixes layout only, so a list of hypotheses or  *)
(* identifiers is a set here.                                              *)
(*                                                                         *)
(* Of formulas the model keeps what rules tell apart: a unary predicate on *)
(* one identifier of a type, and its two quantifications.  Names are the   *)
(* numbered variants of one stem, in the order the fresh-name solver tries *)
(* them.                                                                   *)
(***************************************************************************)
EXTENDS Naturals, Sequences, FiniteSets

CONSTANTS
    Name,       \* identifier names: x, x0, x1, ... as 0, 1, 2, ...
    Type,       \* carrier sets
    Null        \* no goal, no sequent, no rule

ASSUME NameAssumption == Name \subseteq Nat

Ident == [name : Name, ty : Type]

In(i) == [op |-> "in", name |-> i.name, ty |-> i.ty]
All(t) == [op |-> "all", ty |-> t]
Ex(t) == [op |-> "ex", ty |-> t]

Pred == {In(i) : i \in Ident} \cup {All(t) : t \in Type} \cup {Ex(t) : t \in Type}

Free(p) == IF p.op = "in" THEN {[name |-> p.name, ty |-> p.ty]} ELSE {}

Names(idents) == {i.name : i \in idents}

Sequent == [env : SUBSET Ident, hyps : SUBSET Pred, selected : SUBSET Pred,
            hidden : SUBSET Pred, goal : Pred]

ASSUME NullAssumption == Null \notin Pred \cup Sequent

(* Every free identifier is bound, with the same type.                       *)
Typed(preds, env) == \A p \in preds : Free(p) \subseteq env

(* Added identifiers must be new, and distinct from one another.             *)
Fresh(idents, env) ==
    /\ \A i \in idents : i.name \notin Names(env)
    /\ \A i, j \in idents : i.name = j.name => i = j

(* A mutator hands back the sequent it was called on when nothing changed,   *)
(* and a new object otherwise: moved is the negation of ptr_eq.              *)
Derived(s, next) == [seq |-> next, moved |-> next # s]

-----------------------------------------------------------------------------
(* Mutant of Modify: added identifiers need not be fresh.                    *)
ModifyAnyIdents(s, idents, added, unsel, goal) ==
    LET env == s.env \cup idents IN
    IF unsel \subseteq added /\ Typed(added \cup {goal}, env)
    THEN [s EXCEPT !.env = env, !.hyps = @ \cup added, !.goal = goal,
                   !.selected = @ \cup (added \ unsel), !.hidden = @ \ added]
    ELSE Null

(* modify: fresh identifiers, added hypotheses and a new goal, or Null.      *)
Modify(s, idents, added, unsel, goal) ==
    LET env == s.env \cup idents IN
    IF Fresh(idents, s.env) /\ unsel \subseteq added /\ Typed(added \cup {goal}, env)
    THEN [s EXCEPT !.env = env, !.hyps = @ \cup added, !.goal = goal,
                   !.selected = @ \cup (added \ unsel), !.hidden = @ \ added]
    ELSE Null

Select(s, preds) ==
    [s EXCEPT !.selected = @ \cup (preds \cap s.hyps), !.hidden = @ \ (preds \cap s.hyps)]

Deselect(s, preds) == [s EXCEPT !.selected = @ \ preds]

Hide(s, preds) ==
    [s EXCEPT !.hidden = @ \cup (preds \cap s.hyps), !.selected = @ \ (preds \cap s.hyps)]

Show(s, preds) == [s EXCEPT !.hidden = @ \ preds]

(* Mutant of Applicable: the source hypotheses may be missing.               *)
ApplicableAnywhere(s, a) ==
    /\ Fresh(a.idents, s.env)
    /\ Typed(a.inferred, s.env \cup a.idents)

(* A forward inference applies where its sources are and its names are new.  *)
Applicable(s, a) ==
    /\ Typed(a.hyps, s.env)
    /\ Fresh(a.idents, s.env)
    /\ Typed(a.inferred, s.env \cup a.idents)
    /\ a.hyps \subseteq s.hyps

(* What it infers is selected with any source, and hidden with all of them.  *)
(* An inferred hypothesis that is there already and visible is selected, and *)
(* counts as a change even when it was selected.                             *)
ForwardInf(s, a) ==
    LET selects == a.hyps \cap s.selected # {}
        hides == ~ selects /\ a.hyps \subseteq s.hidden
        new == a.inferred \ s.hyps
        again == IF selects THEN (a.inferred \cap s.hyps) \ s.hidden ELSE {}
        next == [s EXCEPT !.env = @ \cup a.idents,
                          !.hyps = @ \cup new,
                          !.selected = @ \cup again \cup (IF selects THEN new ELSE {}),
                          !.hidden = @ \cup (IF hides THEN new ELSE {})]
    IN [seq |-> next, moved |-> next # s \/ again # {}]

(* A rewrite hides the sources it spends, but only where it applies.         *)
Rewrite(s, a) ==
    LET inf == ForwardInf(s, a)
        next == Hide(inf.seq, a.gone)
    IN [seq |-> next, moved |-> inf.moved \/ next # inf.seq]

-----------------------------------------------------------------------------
SelectionAction == [kind : {"select", "deselect", "hide", "show"}, hyps : SUBSET Pred]
InferenceAction == [kind : {"forward", "rewrite"}, hyps : SUBSET Pred,
                    idents : SUBSET Ident, inferred : SUBSET Pred, gone : SUBSET Pred]
HypAction == SelectionAction \cup InferenceAction

Infers(a) == a.kind \in {"forward", "rewrite"}

(* An action that does not apply leaves the sequent as it is.                *)
Perform(a, s) ==
    CASE a.kind = "select" -> Derived(s, Select(s, a.hyps))
      [] a.kind = "deselect" -> Derived(s, Deselect(s, a.hyps))
      [] a.kind = "hide" -> Derived(s, Hide(s, a.hyps))
      [] a.kind = "show" -> Derived(s, Show(s, a.hyps))
      [] Infers(a) /\ ~ Applicable(s, a) -> Derived(s, s)
      [] a.kind = "forward" /\ Applicable(s, a) -> ForwardInf(s, a)
      [] a.kind = "rewrite" /\ Applicable(s, a) -> Rewrite(s, a)

(* An antecedent is the recipe of one child; an absent goal keeps the goal.  *)
Antecedent(goal, added, idents, actions) ==
    [goal |-> goal, added |-> added, unsel |-> {}, idents |-> idents, actions |-> actions]

(* The sequent of a child before its hypothesis actions, given the goal an   *)
(* antecedent without one inherits: nothing, unless the rule has none too.   *)
Instance0(ant, s, inherited) ==
    LET goal == IF ant.goal = Null THEN inherited ELSE ant.goal IN
    IF goal = Null THEN Null ELSE Modify(s, ant.idents, ant.added, ant.unsel, goal)

(* The sequent after each action of the antecedent, from start on.           *)
Performed(ant, start) ==
    LET done[i \in 0 .. Len(ant.actions)] ==
            IF i = 0 THEN start
            ELSE LET step == Perform(ant.actions[i], done[i - 1].seq) IN
                 [seq |-> step.seq, moved |-> done[i - 1].moved \/ step.moved]
    IN done

Inherited(rule, s) == IF rule.goal = Null THEN s.goal ELSE Null

GenSequent(rule, i, s) ==
    LET ant == rule.ants[i]
        start == Instance0(ant, s, Inherited(rule, s))
    IN Performed(ant, Derived(s, start))[Len(ant.actions)]

(* Mutant of Applies: needed hypotheses are not looked for.                  *)
AppliesWithoutHyps(rule, s) ==
    /\ rule.goal \in {Null, s.goal}
    /\ \A i \in DOMAIN rule.ants : Instance0(rule.ants[i], s, Inherited(rule, s)) # Null

(* Rule::apply succeeds: the needed hypotheses are there, the goal is the    *)
(* rule's, and every child can be generated.                                 *)
Applies(rule, s) ==
    /\ rule.needed \subseteq s.hyps
    /\ rule.goal \in {Null, s.goal}
    /\ \A i \in DOMAIN rule.ants : Instance0(rule.ants[i], s, Inherited(rule, s)) # Null

Children(rule, s) == [i \in DOMAIN rule.ants |-> GenSequent(rule, i, s)]

-----------------------------------------------------------------------------
(* Properties.                                                               *)

(* What every mutator must keep: identifiers have one type, hypotheses and   *)
(* goal use bound identifiers only, and the two presentational subsets are   *)
(* of hypotheses, and never overlap.                                         *)
WellFormed(s) ==
    /\ s \in Sequent
    /\ \A i, j \in s.env : i.name = j.name => i = j
    /\ Typed(s.hyps \cup {s.goal}, s.env)
    /\ s.selected \cup s.hidden \subseteq s.hyps
    /\ s.selected \cap s.hidden = {}
=============================================================================

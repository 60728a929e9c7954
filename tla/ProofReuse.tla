----------------------------- MODULE ProofReuse -----------------------------
(***************************************************************************)
(* The life of one stored proof (rossi-prove: tree.rs, deps.rs,            *)
(* builder.rs, skeleton.rs, registry.rs, reasoners/): it is made rule by   *)
(* rule, stored with the dependencies computed from its tree, and brought  *)
(* back against whatever the obligation has become, under whatever         *)
(* versions the reasoners have by then.                                    *)
(*                                                                         *)
(* Of the reasoners the model has one of each way a rule depends on its    *)
(* sequent: closing by a hypothesis, freeing a quantified goal, freeing a  *)
(* hypothesis in place, instantiating either, a lemma, a selection step, a *)
(* review, and a prover outside.  The lemma of well-definedness of an      *)
(* identifier is true, and the antecedents that ask for it are left out.   *)
(*                                                                         *)
(* A tree is kept flat, as the function from the places of its nodes to    *)
(* the nodes.  The place of the i-th child of p is Append(p, i).           *)
(***************************************************************************)
EXTENDS Sequents

CONSTANTS
    Obligation,     \* sequents the obligation may be edited to
    Lemma,          \* predicates a cut may be made on
    Upgraded,       \* reasoners a release may give a new version
    Unsound,        \* those of them whose first version proves anything
    Theory,         \* sizes the datatypes may be edited to
    MaxRules        \* bound on the rules applied in one tree

Implemented == {"hyp", "allI", "allD", "exI", "exF", "cut", "mngHyp", "review"}
ContextDependent == {"dtInduction"}
External == {"externalPP"} \cup ContextDependent
Reasoner == Implemented \cup External

ASSUME ObligationAssumption == \A s \in Obligation : WellFormed(s)
ASSUME LemmaAssumption == Lemma \subseteq Pred
ASSUME UpgradedAssumption == Unsound \subseteq Upgraded /\ Upgraded \subseteq Reasoner
ASSUME TheoryAssumption == Theory \subseteq Nat \ {0}

PENDING == 0
UNCERTAIN_MAX == 100
REVIEWED_MAX == 500
DISCHARGED_MAX == 1000

AntecedentRecord ==
    [goal : Pred \cup {Null}, added : SUBSET Pred, unsel : SUBSET Pred,
     idents : SUBSET Ident, actions : Seq(HypAction)]

ProofRule ==
    [desc : [id : Reasoner, version : {0, 1}], goal : Pred \cup {Null},
     needed : SUBSET Pred, conf : 0 .. DISCHARGED_MAX, ants : Seq(AntecedentRecord),
     input : Ident \cup Pred \cup {Null}]

ASSUME RuleAssumption == Null \notin ProofRule

Min(a, b) == IF a < b THEN a ELSE b

VARIABLES
    obligation,     \* the sequent the obligation has now
    theory,         \* the elements each carrier has by the theories in force
    registered,     \* per reasoner: the version the registry has
    tree,           \* the proof tree at hand
    mode,           \* how it is made: by hand, or by which reconstruction
    todo,           \* the calls of the reconstruction, at the nodes they are for
    complete,       \* nothing has failed in it so far
    stored          \* the stored proof, or Null

vars == << obligation, theory, registered, tree, mode, todo, complete, stored >>

-----------------------------------------------------------------------------
(* Trees and confidence.                                                     *)

Root == << >>

Open(s) == [seq |-> s, rule |-> Null]
OpenTree(s) == [p \in {Root} |-> Open(s)]

OpenNodes(t) == {p \in DOMAIN t : t[p].rule = Null}
RulesOf(t) == {t[p].rule : p \in DOMAIN t} \ {Null}

Kids(p, rule) == {Append(p, i) : i \in DOMAIN rule.ants}

(* apply_rule at p: fresh open children, one per antecedent.                 *)
Grown(t, p, rule) ==
    [q \in DOMAIN t \cup Kids(p, rule) |->
        IF q \in Kids(p, rule) THEN Open(Children(rule, t[p].seq)[q[Len(q)]].seq)
        ELSE IF q = p THEN [seq |-> t[p].seq, rule |-> rule]
        ELSE t[q]]

NodeConfidence(node) == IF node.rule = Null THEN PENDING ELSE node.rule.conf

(* The least confidence of any node.                                         *)
Confidence(t) ==
    LET all == {NodeConfidence(t[p]) : p \in DOMAIN t} IN
    CHOOSE m \in all : \A k \in all : m <= k

-----------------------------------------------------------------------------
(* The registry: a step is trusted while its version is the registered one.  *)

Trusted(desc) == desc.version = registered[desc.id]
Depends(desc) == desc.id \in ContextDependent

IsRuleReusable(rule) == Trusted(rule.desc) /\ ~ Depends(rule.desc)

-----------------------------------------------------------------------------
(* Reasoners.  The input of a rule is what its producer serialized.          *)

Rule(id, goal, needed, ants, input) ==
    [desc |-> [id |-> id, version |-> registered[id]], goal |-> goal,
     needed |-> needed, conf |-> DISCHARGED_MAX, ants |-> ants, input |-> input]

(* The first name from the hint on that the environment leaves free.         *)
Solve(hint, env) ==
    LET free == {n \in Name : n >= hint /\ n \notin Names(env)} IN
    CHOOSE n \in free : \A k \in free : n <= k
Solvable(hint, env) == \E n \in Name : n >= hint /\ n \notin Names(env)

Hyp(s) ==
    IF s.goal \in s.hyps THEN Rule("hyp", s.goal, {s.goal}, << >>, Null) ELSE Null

AllI(s, hint) ==
    IF s.goal.op # "all" \/ ~ Solvable(hint, s.env) THEN Null
    ELSE LET i == [name |-> Solve(hint, s.env), ty |-> s.goal.ty] IN
         Rule("allI", s.goal, {}, << Antecedent(In(i), {}, {i}, << >>) >>, Null)

AllD(s, univ, witness) ==
    IF univ \notin s.hyps \/ univ.op # "all" \/ witness.ty # univ.ty THEN Null
    ELSE Rule("allD", Null, {univ},
              << Antecedent(Null, {In(witness)}, {},
                            << [kind |-> "deselect", hyps |-> {univ}] >>) >>, witness)

ExI(s, witness) ==
    IF s.goal.op # "ex" \/ witness.ty # s.goal.ty THEN Null
    ELSE Rule("exI", s.goal, {}, << Antecedent(In(witness), {}, {}, << >>) >>, witness)

ExF(s, ex, hint) ==
    IF ex.op # "ex" \/ ~ Solvable(hint, s.env) THEN Null
    ELSE LET i == [name |-> Solve(hint, s.env), ty |-> ex.ty] IN
         Rule("exF", Null, {},
              << Antecedent(Null, {}, {},
                    << [kind |-> "rewrite", hyps |-> {ex}, idents |-> {i},
                        inferred |-> {In(i)}, gone |-> {ex}],
                       [kind |-> "select", hyps |-> {In(i)}] >>) >>, Null)

Cut(lemma) ==
    Rule("cut", Null, {}, << Antecedent(lemma, {}, {}, << >>),
                             Antecedent(Null, {lemma}, {}, << >>) >>, lemma)

MngHyp(action) ==
    Rule("mngHyp", Null, {}, << Antecedent(Null, {}, {}, << action >>) >>, Null)

(* Review keeps the confidence the stored rule has.                          *)
Review(s, goal, needed, conf) ==
    IF s.goal # goal \/ ~ needed \subseteq s.hyps THEN Null
    ELSE [Rule("review", goal, needed, << >>, Null) EXCEPT !.conf = conf]

-----------------------------------------------------------------------------
(* Replay: the reasoner is run again on the recorded input, in which hinted  *)
(* names are substituted.  Hints map the names rules used to introduce to    *)
(* those they introduce now.                                                 *)

NoHints == [n \in {} |-> 0]

RenamedName(hints, n) == IF n \in DOMAIN hints THEN hints[n] ELSE n
RenamedIdent(hints, i) == [i EXCEPT !.name = RenamedName(hints, @)]
RenamedPred(hints, p) ==
    IF p.op = "in" THEN [p EXCEPT !.name = RenamedName(hints, @)] ELSE p
Renamed(hints, preds) == {RenamedPred(hints, p) : p \in preds}

The(S) == CHOOSE x \in S : TRUE
FirstAction(r) == r.ants[1].actions[1]

(* The rule the reasoner of the stored rule r makes of s, or Null.           *)
Replayed(r, s, hints) ==
    IF ~ Trusted(r.desc) \/ r.desc.id \notin Implemented THEN Null
    ELSE CASE r.desc.id = "hyp" -> Hyp(s)
           [] r.desc.id = "allI" -> AllI(s, The(r.ants[1].idents).name)
           [] r.desc.id = "allD" -> AllD(s, RenamedPred(hints, The(r.needed)),
                                            RenamedIdent(hints, r.input))
           [] r.desc.id = "exI" -> ExI(s, RenamedIdent(hints, r.input))
           [] r.desc.id = "exF" -> ExF(s, RenamedPred(hints, The(FirstAction(r).hyps)),
                                          The(FirstAction(r).idents).name)
           [] r.desc.id = "cut" -> Cut(RenamedPred(hints, r.input))
           [] r.desc.id = "mngHyp" ->
                 MngHyp([FirstAction(r) EXCEPT !.hyps = Renamed(hints, @)])
           [] r.desc.id = "review" ->
                 Review(s, RenamedPred(hints, r.goal), Renamed(hints, r.needed), r.conf)

(* Mutant of AddHints: renamings are not recorded.                           *)
AddHintsNot(hints, old, current) == hints

(* add_hints: identifiers the antecedent introduces under another name.      *)
AddHints(hints, old, current) ==
    LET pairs == {p \in old.idents \X current.idents :
                     p[1].name # p[2].name /\ p[1].ty = p[2].ty}
        names == {p[1].name : p \in pairs}
    IN [n \in DOMAIN hints \cup names |->
           IF n \in names THEN (CHOOSE p \in pairs : p[1].name = n)[2].name ELSE hints[n]]

-----------------------------------------------------------------------------
(* Dependencies, bottom-up.                                                  *)

NoDeps == [goal |-> Null, hyps |-> {}, idents |-> {}, introduced |-> {}, reasoners |-> {}]

FreeOf(preds) == UNION {Free(p) : p \in preds}

(* Which inference actions changed the sequent as the rule was applied.      *)
Fired(rule, i, s) ==
    LET ant == rule.ants[i]
        done == Performed(ant, Derived(s, Instance0(ant, s, Inherited(rule, s))))
    IN {j \in DOMAIN ant.actions :
           Infers(ant.actions[j]) /\ Perform(ant.actions[j], done[j - 1].seq).moved}

(* Mutant of ProcessAction: the introduced names are forgotten.              *)
ProcessUnnamed(a, d) ==
    IF ~ (a.inferred \cap d.hyps # {} \/ a.idents \cap d.idents # {}) THEN d
    ELSE [d EXCEPT !.hyps = (@ \ a.inferred) \cup a.hyps,
                   !.idents = (@ \cup FreeOf(a.hyps) \cup FreeOf(a.inferred)) \ a.idents]

(* A fired inference whose products are used is traded for its sources.      *)
ProcessAction(a, d) ==
    IF ~ (a.inferred \cap d.hyps # {} \/ a.idents \cap d.idents # {}) THEN d
    ELSE [d EXCEPT !.hyps = (@ \ a.inferred) \cup a.hyps,
                   !.idents = (@ \cup FreeOf(a.hyps) \cup FreeOf(a.inferred)) \ a.idents,
                   !.introduced = @ \cup Names(a.idents)]

(* The actions in reverse order, so that one feeding a later one is used.    *)
ProcessActions(ant, fired, d) ==
    LET n == Len(ant.actions)
        after[j \in 0 .. n] ==
            IF j = 0 THEN d
            ELSE LET k == n + 1 - j IN
                 IF k \in fired THEN ProcessAction(ant.actions[k], after[j - 1])
                                ELSE after[j - 1]
    IN after[n]

(* What the antecedent i and the sub-proof above it need of the sequent.     *)
ThroughAntecedent(ant, fired, sub) ==
    LET d == ProcessActions(ant, fired, sub)
        goals == IF ant.goal = Null THEN {} ELSE {ant.goal}
    IN [d EXCEPT !.hyps = @ \ ant.added,
                 !.idents = (@ \cup FreeOf(goals) \cup FreeOf(ant.added)) \ ant.idents,
                 !.introduced = @ \cup Names(ant.idents)]

(* What a node needs, given what each of its children needs.                 *)
NodeDeps(r, s, below) ==
    LET sub == [i \in DOMAIN r.ants |-> ThroughAntecedent(r.ants[i], Fired(r, i, s), below[i])]
        instances == {sub[i].goal : i \in {j \in DOMAIN r.ants : r.ants[j].goal = Null}} \ {Null}
        goal == IF r.goal # Null THEN r.goal
                ELSE IF instances = {} THEN Null ELSE The(instances)
        goals == IF goal = Null THEN {} ELSE {goal}
    IN [goal |-> goal,
        hyps |-> r.needed \cup UNION {sub[i].hyps : i \in DOMAIN sub},
        idents |-> FreeOf(goals \cup r.needed) \cup UNION {sub[i].idents : i \in DOMAIN sub},
        introduced |-> UNION {sub[i].introduced : i \in DOMAIN sub},
        reasoners |-> {r.desc} \cup UNION {sub[i].reasoners : i \in DOMAIN sub}]

DepsOf(t) ==
    LET deps[p \in DOMAIN t] ==
            IF t[p].rule = Null THEN NoDeps
            ELSE NodeDeps(t[p].rule, t[p].seq,
                          [i \in DOMAIN t[p].rule.ants |-> deps[Append(p, i)]])
    IN deps

FromTree(t) == DepsOf(t)[Root]

(* Mutants of IsProofReusable: without the introduced names; the reasoners.  *)
ReusableIfTaken(d, s) ==
    d # NoDeps =>
    /\ d.goal \in {Null, s.goal}
    /\ d.hyps \subseteq s.hyps
    /\ d.idents \subseteq s.env
    /\ \A desc \in d.reasoners : Trusted(desc) /\ ~ Depends(desc)

ReusableIfStale(d, s) ==
    d # NoDeps =>
    /\ d.goal \in {Null, s.goal}
    /\ d.hyps \subseteq s.hyps
    /\ d.idents \subseteq s.env
    /\ d.introduced \cap Names(s.env) = {}

(* The stored proof still applies to the sequent.                            *)
IsProofReusable(d, s) ==
    d # NoDeps =>
    /\ d.goal \in {Null, s.goal}
    /\ d.hyps \subseteq s.hyps
    /\ d.idents \subseteq s.env
    /\ d.introduced \cap Names(s.env) = {}
    /\ \A desc \in d.reasoners : Trusted(desc) /\ ~ Depends(desc)

(* compute_status and its bucket.                                            *)
Status(proof, s) ==
    IF ~ IsProofReusable(proof.deps, s) THEN "broken"
    ELSE IF proof.conf > REVIEWED_MAX THEN "discharged"
    ELSE IF proof.conf > UNCERTAIN_MAX THEN "reviewed" ELSE "pending"

-----------------------------------------------------------------------------
(* Truth.  A carrier set is a datatype of the theories in force, and has the *)
(* elements they give it.                                                    *)

Holds(p, carrier, sets, values) ==
    CASE p.op = "in" -> values[p.name] \in sets[p.ty]
      [] p.op = "all" -> sets[p.ty] = carrier
      [] p.op = "ex" -> sets[p.ty] # {}

Entails(hyps, goal, size) ==
    LET carrier == 1 .. size IN
    \A sets \in [Type -> SUBSET carrier], values \in [Name -> carrier] :
        (\A h \in hyps : Holds(h, carrier, sets, values))
            => Holds(goal, carrier, sets, values)

Valid(s) == Entails(s.hyps, s.goal, theory)

-----------------------------------------------------------------------------
(* Rules a user or a prover may have applied to a sequent.                   *)

(* A step from outside the program closes a goal that follows from the       *)
(* selected hypotheses: in any theory, but for the context dependent.  An    *)
(* unsound version closes any.                                               *)
Closes(id, s) ==
    \/ id \in Unsound /\ registered[id] = 0
    \/ \A size \in IF id \in ContextDependent THEN {theory} ELSE Theory :
           Entails(s.selected, s.goal, size)

ExternalRules(s) ==
    {Rule(id, s.goal, s.selected, << >>, Null) : id \in {e \in External : Closes(e, s)}}

Rules(s) ==
    ({Hyp(s), AllI(s, 0), Review(s, s.goal, s.selected, REVIEWED_MAX)}
     \cup {AllD(s, h, w) : h \in s.hyps, w \in s.env}
     \cup {ExI(s, w) : w \in s.env}
     \cup {ExF(s, h, 0) : h \in s.hyps}
     \cup {Cut(p) : p \in {q \in Lemma : Free(q) \subseteq s.env}}
     \cup {MngHyp([kind |-> k, hyps |-> {h}]) :
              k \in {"select", "deselect", "hide", "show"}, h \in s.hyps}
     \cup ExternalRules(s)) \ {Null}

-----------------------------------------------------------------------------
(* A proof made by hand, stored, and what happens meanwhile.                 *)

NoCalls == [p \in {} |-> Null]

Init ==
    /\ obligation \in Obligation
    /\ theory \in Theory
    /\ registered = [r \in Reasoner |-> 0]
    /\ tree = OpenTree(obligation)
    /\ mode = "hand"
    /\ todo = NoCalls
    /\ complete = FALSE
    /\ stored = Null

(* The rule would leave the sequent the very object it is.                   *)
RuleIsSkip(s, rule) ==
    Applies(rule, s) /\ Len(rule.ants) = 1 /\ ~ Children(rule, s)[1].moved

(* One more rule, at a node still open.  One that does nothing is not taken. *)
Prove(p) ==
    /\ mode = "hand"
    /\ Cardinality(DOMAIN tree \ OpenNodes(tree)) < MaxRules
    /\ \E r \in Rules(tree[p].seq) :
          /\ Applies(r, tree[p].seq) /\ ~ RuleIsSkip(tree[p].seq, r)
          /\ tree' = Grown(tree, p, r)
    /\ UNCHANGED << obligation, theory, registered, mode, todo, complete, stored >>

Skeleton(t) == [p \in DOMAIN t |-> t[p].rule]

PutAway(s) == tree' = OpenTree(s) /\ mode' = "none" /\ complete' = FALSE /\ UNCHANGED todo

(* The proof is stored, and put away.  A replay only checks.                 *)
Save ==
    /\ mode = "hand" \/ (mode # "replay" /\ DOMAIN todo = {} /\ complete)
    /\ tree[Root].rule # Null
    /\ stored' = [proof |-> Skeleton(tree), deps |-> FromTree(tree), conf |-> Confidence(tree)]
    /\ PutAway(obligation)
    /\ UNCHANGED << obligation, theory, registered >>

(* What a reconstruction made is dropped.                                    *)
Discard ==
    /\ mode \notin {"hand", "none"} /\ DOMAIN todo = {}
    /\ PutAway(obligation)
    /\ UNCHANGED << obligation, theory, registered, stored >>

(* The model or a theory is edited, and the obligation generated anew.       *)
Edit(s, size) ==
    /\ mode = "none"
    /\ obligation' = s
    /\ theory' = size
    /\ PutAway(s)
    /\ UNCHANGED << registered, stored >>

(* A release registers a reasoner under a new version.                       *)
Release(r) ==
    /\ mode = "none"
    /\ registered[r] = 0
    /\ registered' = [registered EXCEPT ![r] = 1]
    /\ UNCHANGED << obligation, theory, tree, mode, todo, complete, stored >>

-----------------------------------------------------------------------------
(* Reconstruction.  A call is for a node of the tree and a place of the      *)
(* stored skeleton.  Calls of siblings do not depend on one another, and are *)
(* taken in any order.                                                       *)

Call(from, hints) == [from |-> from, hints |-> hints]

Rebuilds == {"rebuild", "rebuildTrying"}    \* whether uncertain rules are replayed

Begin(kind) ==
    /\ mode = "none"
    /\ mode' = kind
    /\ todo' = [p \in {Root} |-> Call(Root, NoHints)]
    /\ complete' = TRUE
    /\ UNCHANGED << obligation, theory, registered, tree, stored >>

(* Reading a stored proof caps the confidence of rules that are not trusted. *)
Loaded(r) ==
    IF r = Null THEN Null
    ELSE IF Trusted(r.desc) THEN r ELSE [r EXCEPT !.conf = UNCERTAIN_MAX]

Recorded(p) == Loaded(stored.proof[todo[p].from])

(* The call at p is over.                                                    *)
Return(p, ok) ==
    /\ todo' = [q \in DOMAIN todo \ {p} |-> todo[q]]
    /\ complete' = (complete /\ ok)
    /\ UNCHANGED tree

(* The rule is applied at p, and each child of the skeleton is for one of    *)
(* its antecedents, unless their numbers differ.                             *)
Descend(p, rule, hints) ==
    LET fits == Len(rule.ants) = Len(Recorded(p).ants)
        kids == IF fits THEN Kids(p, rule) ELSE {}
        calls == [q \in kids |-> Call(Append(todo[p].from, q[Len(q)]), hints[q[Len(q)]])]
    IN /\ tree' = Grown(tree, p, rule)
       /\ todo' = [q \in (DOMAIN todo \ {p}) \cup kids |->
                      IF q \in kids THEN calls[q] ELSE todo[q]]
       /\ complete' = (complete /\ fits)

Kept(hints, rule) == [i \in DOMAIN rule.ants |-> hints]

ReuseStep(p) ==
    LET r == Recorded(p) IN
    /\ mode = "reuse"
    /\ IF r = Null THEN Return(p, TRUE)
       ELSE IF IsRuleReusable(r) /\ Applies(r, tree[p].seq) THEN Descend(p, r, Kept(NoHints, r))
       ELSE Return(p, FALSE)

(* The name hints are of no use here: nothing recorded is relied on.         *)
ReplayStep(p) ==
    LET r == Recorded(p)
        produced == Replayed(r, tree[p].seq, NoHints)
    IN /\ mode = "replay"
       /\ IF r = Null THEN Return(p, TRUE)
          ELSE IF produced # Null /\ Applies(produced, tree[p].seq)
               THEN Descend(p, produced, Kept(NoHints, produced))
          ELSE Return(p, FALSE)

(* Mutant of Downgraded: the confidence is kept.                             *)
DowngradedNot(rule) == rule

Downgraded(rule) == [rule EXCEPT !.conf = Min(@, UNCERTAIN_MAX)]

(* try_reuse: with renamings pending the rule speaks of the wrong names.     *)
TryReuse(r, s, hints) ==
    /\ r.conf > UNCERTAIN_MAX
    /\ DOMAIN hints = {} /\ IsRuleReusable(r) /\ Applies(r, s)

(* try_replay, which follows for a certain rule, and else only if asked for. *)
TryReplay(r, produced, s, hints) ==
    /\ IF r.conf > UNCERTAIN_MAX THEN ~ TryReuse(r, s, hints) ELSE mode = "rebuildTrying"
    /\ produced # Null /\ Applies(produced, s)

RebuildStep(p) ==
    LET r == Recorded(p)
        s == tree[p].seq
        hints == todo[p].hints
        produced == Replayed(r, s, hints)
        lost == ~ TryReuse(r, s, hints) /\ ~ TryReplay(r, produced, s, hints)
    IN
    /\ mode \in Rebuilds
    /\ \/ /\ r = Null
          /\ Return(p, TRUE)
       \/ /\ r # Null /\ TryReuse(r, s, hints)
          /\ Descend(p, r, Kept(hints, r))
       \/ /\ r # Null /\ TryReplay(r, produced, s, hints)
          /\ Descend(p, produced,
                     [i \in DOMAIN produced.ants |-> AddHints(hints, r.ants[i], produced.ants[i])])
       \/ /\ r # Null /\ lost /\ RuleIsSkip(s, r)
          /\ todo' = [todo EXCEPT ![p].from = Append(@, 1)]
          /\ UNCHANGED << tree, complete >>
       \/ /\ r # Null /\ lost /\ ~ RuleIsSkip(s, r) /\ Applies(r, s)
          /\ Descend(p, Downgraded(r), Kept(hints, r))
       \/ /\ r # Null /\ lost /\ ~ Applies(r, s)
          /\ Return(p, FALSE)

Step(p) ==
    /\ ReuseStep(p) \/ ReplayStep(p) \/ RebuildStep(p)
    /\ UNCHANGED << obligation, theory, registered, mode, stored >>

Next ==
    \/ \E p \in OpenNodes(tree) : Prove(p)
    \/ Save \/ Discard
    \/ \E s \in Obligation, size \in Theory : Edit(s, size)
    \/ \E r \in Upgraded : Release(r)
    \/ \E kind \in {"reuse", "replay"} \cup Rebuilds : Begin(kind)
    \/ \E p \in DOMAIN todo : Step(p)

Spec == Init /\ [][Next]_vars

-----------------------------------------------------------------------------
(* Properties.                                                               *)

(* Every sequent of the tree is well formed, whatever rules were applied by  *)
(* hand, reused or replayed, and calls are for open nodes.                   *)
TypeOK ==
    /\ obligation \in Obligation
    /\ theory \in Theory
    /\ registered \in [Reasoner -> {0, 1}]
    /\ mode \in {"hand", "none", "reuse", "replay"} \cup Rebuilds
    /\ complete \in BOOLEAN
    /\ \A p \in DOMAIN tree : /\ WellFormed(tree[p].seq)
                             /\ tree[p].rule \in ProofRule \cup {Null}
    /\ DOMAIN todo \subseteq OpenNodes(tree)

ImplementedOnly(ids) == \A d \in stored.deps.reasoners : d.id \in ids

(* Names an antecedent makes, at once or by an inference, fired or not.      *)
NamesMade(ant) ==
    Names(ant.idents) \cup
    UNION {Names(a.idents) : a \in {b \in {ant.actions[j] : j \in DOMAIN ant.actions} : Infers(b)}}

IsUnder(q, p) == Len(p) <= Len(q) /\ \A j \in 1 .. Len(p) : q[j] = p[j]

NamesFrom(k, p) ==
    UNION {UNION {NamesMade(k[q].ants[i]) : i \in DOMAIN k[q].ants} :
              q \in {u \in DOMAIN k : IsUnder(u, p) /\ k[u] # Null}}

(* No name is made again under the step that makes it.                       *)
NamesApart(k) ==
    \A p \in {q \in DOMAIN k : k[q] # Null} : \A i \in DOMAIN k[p].ants :
        NamesMade(k[p].ants[i]) \cap NamesFrom(k, Append(p, i)) = {}

(* The reuse predicate keeps its promise: a stored proof it accepts, for any *)
(* sequent the obligation may become, goes through step by step there, with  *)
(* the recorded rules and, if all its reasoners are implemented and the      *)
(* names it makes are free, with rules they make anew.  The predicate sees   *)
(* the dependencies, never the rules.                                        *)
ReusableProofsReapply ==
    /\ \/ mode = "reuse"
       \/ /\ mode = "replay" /\ ImplementedOnly(Implemented)
          /\ NamesFrom(stored.proof, Root) \cap Names(obligation.env) = {}
    /\ IsProofReusable(stored.deps, obligation)
    /\ NamesApart(stored.proof)
    => complete

(* What the predicate is said to decide: whether a stored proof applies.     *)
AcceptedProofsApply ==
    mode = "reuse" /\ IsProofReusable(stored.deps, obligation) => complete

(* Steps of an unsound version nobody has replaced yet.                      *)
Believed(desc) == desc.id \in Unsound /\ desc.version = 0 /\ Trusted(desc)

(* A status row that says discharged is about an obligation that holds in    *)
(* the theories in force, unless the proof rests on an unsound version that  *)
(* is still the registered one.                                              *)
DischargedIsValid ==
    /\ IF stored = Null THEN FALSE ELSE Status(stored, obligation) = "discharged"
    /\ ~ \E d \in stored.deps.reasoners : Believed(d)
    => Valid(obligation)

(* A tree above the reviewed range proves its root, however it was made: a   *)
(* rebuild that keeps a step it can neither reuse nor replay, or one of a    *)
(* replaced version, does not get there.                                     *)
TreesAreSound ==
    /\ Confidence(tree) > REVIEWED_MAX
    /\ ~ \E r \in RulesOf(tree) : Believed(r.desc)
    => Valid(tree[Root].seq)

(* No rule was kept that could not be checked.                               *)
CertainOnly(k) == \A q \in DOMAIN k : k[q] # Null => k[q].conf > UNCERTAIN_MAX

(* Wherever a name is wanted, one is left from any hint on.                  *)
NamesLeft(t) == \A p \in DOMAIN t : \A n \in Name : Solvable(n, t[p].seq.env)

(* A stored proof that fails to apply only because a name it introduces is   *)
(* taken is rebuilt at its full confidence: the names introduced anew are    *)
(* substituted below.  Left out are proofs that free an existential          *)
(* hypothesis, whose name is not substituted, and proofs with an uncertain   *)
(* rule, which one rebuild does not replay and the other replays at more     *)
(* than its stored confidence.                                               *)
RenamedProofsRebuild ==
    /\ mode \in Rebuilds /\ ImplementedOnly(Implemented \ {"exF"})
    /\ ReusableIfTaken(stored.deps, obligation)
    /\ CertainOnly(stored.proof) /\ NamesLeft(tree)
    => complete /\ (DOMAIN todo = {} => Confidence(tree) = stored.conf)

=============================================================================

--------------------------- MODULE ProofReuseProofs -------------------------
(***************************************************************************)
(* What holds of sequents, of the dependencies of a tree, and of proofs as *)
(* they are stored and brought back, for every set of names, types,        *)
(* obligations, lemmas and theories, and for trees of any size.            *)
(*                                                                         *)
(* A tree is followed from its leaves: of the places at which a claim were *)
(* to fail there is one of greatest length, and at its children the claim  *)
(* holds.                                                                  *)
(***************************************************************************)
EXTENDS ProofReuse, SequenceTheorems, WellFoundedInduction, TLAPS

-----------------------------------------------------------------------------
(* Sequents.                                                                *)

(* An environment grows by fresh identifiers to one that still binds a name  *)
(* once (TypeChecker::add_idents).                                           *)
LEMMA FreshExtends ==
    ASSUME NEW env, NEW idents,
           \A i, j \in env : i.name = j.name => i = j,
           Fresh(idents, env)
    PROVE  \A i, j \in env \cup idents : i.name = j.name => i = j
BY DEF Fresh, Names

(* What is typed stays so as the environment grows.                          *)
LEMMA TypedGrows ==
    ASSUME NEW preds, NEW env, NEW more, Typed(preds, env)
    PROVE  Typed(preds, env \cup more)
BY DEF Typed

LEMMA TypedUnion ==
    ASSUME NEW preds, NEW others, NEW env, Typed(preds, env), Typed(others, env)
    PROVE  Typed(preds \cup others, env)
BY DEF Typed

LEMMA TypedPart ==
    ASSUME NEW preds, NEW others, NEW env, Typed(preds, env), others \subseteq preds
    PROVE  Typed(others, env)
BY DEF Typed

(* modify either refuses, or gives a well-formed sequent that binds and      *)
(* assumes all the old one does: a rule whose antecedent it accepts never    *)
(* loses a hypothesis, nor changes the type of an identifier.                *)
THEOREM ModifyKeepsWellFormed ==
    ASSUME NEW s, WellFormed(s),
           NEW idents \in SUBSET Ident, NEW added \in SUBSET Pred,
           NEW unsel \in SUBSET Pred, NEW goal \in Pred,
           Modify(s, idents, added, unsel, goal) # Null
    PROVE  /\ WellFormed(Modify(s, idents, added, unsel, goal))
           /\ s.env \subseteq Modify(s, idents, added, unsel, goal).env
           /\ s.hyps \subseteq Modify(s, idents, added, unsel, goal).hyps
<1> DEFINE t == [s EXCEPT !.env = s.env \cup idents, !.hyps = @ \cup added, !.goal = goal,
                          !.selected = @ \cup (added \ unsel), !.hidden = @ \ added]
<1>1. /\ Modify(s, idents, added, unsel, goal) = t
      /\ Fresh(idents, s.env)
      /\ Typed(added \cup {goal}, s.env \cup idents)
  BY DEF Modify
<1>2. s \in Sequent BY DEF WellFormed
<1>3. /\ t \in Sequent
      /\ t.env = s.env \cup idents /\ t.hyps = s.hyps \cup added /\ t.goal = goal
      /\ t.selected = s.selected \cup (added \ unsel) /\ t.hidden = s.hidden \ added
  BY <1>2 DEF Sequent
<1>4. \A i, j \in t.env : i.name = j.name => i = j
  BY <1>1, <1>3, FreshExtends DEF WellFormed
<1>5. Typed(t.hyps \cup {t.goal}, t.env)
  <2>1. Typed(s.hyps, s.env) BY TypedPart DEF WellFormed
  <2>2. Typed(s.hyps, s.env \cup idents) BY <2>1, TypedGrows
  <2>3. Typed(s.hyps \cup (added \cup {goal}), s.env \cup idents) BY <1>1, <2>2, TypedUnion
  <2>4. s.hyps \cup (added \cup {goal}) = t.hyps \cup {t.goal} BY <1>3
  <2> QED BY <1>3, <2>3, <2>4
<1>6. /\ t.selected \cup t.hidden \subseteq t.hyps
      /\ t.selected \cap t.hidden = {}
  BY <1>3 DEF WellFormed
<1>7. WellFormed(t) BY <1>3, <1>4, <1>5, <1>6 DEF WellFormed
<1> QED BY <1>1, <1>3, <1>7

(* The four selection actions move hypotheses between the presentational     *)
(* subsets and leave the rest alone.                                         *)
LEMMA SelectionKeepsWellFormed ==
    ASSUME NEW s, WellFormed(s), NEW preds \in SUBSET Pred,
           NEW t \in {Select(s, preds), Deselect(s, preds), Hide(s, preds), Show(s, preds)}
    PROVE  WellFormed(t) /\ t.env = s.env /\ t.hyps = s.hyps /\ t.goal = s.goal
<1>1. s \in Sequent BY DEF WellFormed
<1>2. /\ t \in Sequent /\ t.env = s.env /\ t.hyps = s.hyps /\ t.goal = s.goal
      /\ t.selected \cup t.hidden \subseteq s.hyps
      /\ t.selected \cap t.hidden = {}
  <2>1. CASE t = Select(s, preds) BY <1>1, <2>1 DEF Select, Sequent, WellFormed
  <2>2. CASE t = Deselect(s, preds) BY <1>1, <2>2 DEF Deselect, Sequent, WellFormed
  <2>3. CASE t = Hide(s, preds) BY <1>1, <2>3 DEF Hide, Sequent, WellFormed
  <2>4. CASE t = Show(s, preds) BY <1>1, <2>4 DEF Show, Sequent, WellFormed
  <2> QED BY <2>1, <2>2, <2>3, <2>4
<1> QED BY <1>2 DEF WellFormed

(* A forward inference that applies gives a well-formed sequent.             *)
LEMMA InferenceKeepsWellFormed ==
    ASSUME NEW s, WellFormed(s), NEW a \in InferenceAction, Applicable(s, a)
    PROVE  LET t == ForwardInf(s, a).seq IN
           WellFormed(t) /\ s.env \subseteq t.env /\ s.hyps \subseteq t.hyps /\ t.goal = s.goal
<1> DEFINE selects == a.hyps \cap s.selected # {}
           hides == ~ selects /\ a.hyps \subseteq s.hidden
           new == a.inferred \ s.hyps
           again == IF selects THEN (a.inferred \cap s.hyps) \ s.hidden ELSE {}
           t == [s EXCEPT !.env = @ \cup a.idents, !.hyps = @ \cup new,
                          !.selected = @ \cup again \cup (IF selects THEN new ELSE {}),
                          !.hidden = @ \cup (IF hides THEN new ELSE {})]
<1>1. ForwardInf(s, a).seq = t BY DEF ForwardInf
<1>2. s \in Sequent BY DEF WellFormed
<1>3. a.idents \in SUBSET Ident /\ a.inferred \in SUBSET Pred BY DEF InferenceAction
<1>4. again \subseteq s.hyps /\ again \cap s.hidden = {} /\ new \cap s.hyps = {}
      /\ new \subseteq a.inferred
  OBVIOUS
<1>5. /\ t \in Sequent
      /\ t.env = s.env \cup a.idents /\ t.hyps = s.hyps \cup new /\ t.goal = s.goal
      /\ t.selected = s.selected \cup again \cup (IF selects THEN new ELSE {})
      /\ t.hidden = s.hidden \cup (IF hides THEN new ELSE {})
  <2> HIDE DEF new, again, selects, hides
  <2> QED BY <1>2, <1>3, <1>4 DEF Sequent
<1>6. \A i, j \in t.env : i.name = j.name => i = j
  BY <1>5, FreshExtends DEF WellFormed, Applicable
<1>7. Typed(t.hyps \cup {t.goal}, t.env)
  <2>1. Typed(s.hyps \cup {s.goal}, s.env \cup a.idents) BY TypedGrows DEF WellFormed
  <2>2. Typed(new, s.env \cup a.idents) BY TypedPart DEF Applicable
  <2>3. Typed((s.hyps \cup {s.goal}) \cup new, s.env \cup a.idents) BY <2>1, <2>2, TypedUnion
  <2>4. (s.hyps \cup {s.goal}) \cup new = t.hyps \cup {t.goal} BY <1>5
  <2> QED BY <1>5, <2>3, <2>4
<1>8. /\ t.selected \cup t.hidden \subseteq t.hyps
      /\ t.selected \cap t.hidden = {}
  <2>1. ~ (selects /\ hides) OBVIOUS
  <2> HIDE DEF new, again, selects, hides
  <2> QED BY <1>4, <1>5, <2>1 DEF WellFormed
<1> HIDE DEF t
<1> QED BY <1>1, <1>5, <1>6, <1>7, <1>8 DEF WellFormed

(* No hypothesis action can spoil a sequent, whatever it carries: applied or *)
(* skipped, it leaves a well-formed sequent with the same goal that binds    *)
(* and assumes all it did (HypAction::perform, which cannot fail).           *)
THEOREM PerformKeepsWellFormed ==
    ASSUME NEW s, WellFormed(s), NEW a \in HypAction
    PROVE  LET t == Perform(a, s).seq IN
           WellFormed(t) /\ s.env \subseteq t.env /\ s.hyps \subseteq t.hyps /\ t.goal = s.goal
<1>1. CASE a \in SelectionAction
  <2>1. a.kind \in {"select", "deselect", "hide", "show"} /\ a.hyps \in SUBSET Pred
    BY <1>1 DEF SelectionAction
  <2>2. Perform(a, s).seq \in
            {Select(s, a.hyps), Deselect(s, a.hyps), Hide(s, a.hyps), Show(s, a.hyps)}
    BY <2>1 DEF Perform, Derived, Infers
  <2> QED BY <2>1, <2>2, SelectionKeepsWellFormed
<1>2. CASE a \in InferenceAction
  <2>1. a.kind \in {"forward", "rewrite"} /\ a.gone \in SUBSET Pred
    BY <1>2 DEF InferenceAction
  <2>2. CASE ~ Applicable(s, a)
    <3>1. Perform(a, s).seq = s BY <2>1, <2>2 DEF Perform, Derived, Infers
    <3> QED BY <3>1
  <2>3. CASE Applicable(s, a) /\ a.kind = "forward"
    <3>1. Perform(a, s) = ForwardInf(s, a) BY <2>3 DEF Perform, Infers
    <3> QED BY <1>2, <2>3, <3>1, InferenceKeepsWellFormed
  <2>4. CASE Applicable(s, a) /\ a.kind = "rewrite"
    <3> DEFINE u == ForwardInf(s, a).seq
    <3>1. Perform(a, s).seq = Hide(u, a.gone) BY <2>4 DEF Perform, Infers, Rewrite
    <3>2. WellFormed(u) /\ s.env \subseteq u.env /\ s.hyps \subseteq u.hyps /\ u.goal = s.goal
      BY <1>2, <2>4, InferenceKeepsWellFormed
    <3> HIDE DEF u
    <3> QED BY <2>1, <3>1, <3>2, SelectionKeepsWellFormed
  <2> QED BY <2>1, <2>2, <2>3, <2>4
<1> QED BY <1>1, <1>2 DEF HypAction

LEMMA InferenceUnmoved ==
    ASSUME NEW s, NEW a, ~ ForwardInf(s, a).moved
    PROVE  ForwardInf(s, a).seq = s
<1> DEFINE selects == a.hyps \cap s.selected # {}
           hides == ~ selects /\ a.hyps \subseteq s.hidden
           new == a.inferred \ s.hyps
           again == IF selects THEN (a.inferred \cap s.hyps) \ s.hidden ELSE {}
           t == [s EXCEPT !.env = @ \cup a.idents, !.hyps = @ \cup new,
                          !.selected = @ \cup again \cup (IF selects THEN new ELSE {}),
                          !.hidden = @ \cup (IF hides THEN new ELSE {})]
<1>1. ForwardInf(s, a) = [seq |-> t, moved |-> t # s \/ again # {}] BY DEF ForwardInf
<1> HIDE DEF t, again
<1>2. ForwardInf(s, a).moved = (t # s \/ again # {}) /\ ForwardInf(s, a).seq = t BY <1>1
<1> QED BY <1>2

(* An action that answers "nothing changed" has changed nothing: what the    *)
(* builder relies on when it bypasses a rule that would leave the sequent    *)
(* the very object it is (rule_is_skip).                                     *)
THEOREM UnmovedIsUnchanged ==
    ASSUME NEW s, NEW a \in HypAction, ~ Perform(a, s).moved
    PROVE  Perform(a, s).seq = s
<1>1. CASE a.kind \in {"select", "deselect", "hide", "show"}
  BY <1>1 DEF Perform, Derived, Infers
<1>2. CASE Infers(a) /\ ~ Applicable(s, a)
  BY <1>2 DEF Perform, Derived, Infers
<1>3. CASE a.kind = "forward" /\ Applicable(s, a)
  <2>1. Perform(a, s) = ForwardInf(s, a) BY <1>3 DEF Perform, Infers
  <2> QED BY <2>1, InferenceUnmoved
<1>4. CASE a.kind = "rewrite" /\ Applicable(s, a)
  <2> DEFINE inf == ForwardInf(s, a)
             next == Hide(inf.seq, a.gone)
  <2>1. Perform(a, s) = [seq |-> next, moved |-> inf.moved \/ next # inf.seq]
    BY <1>4 DEF Perform, Infers, Rewrite
  <2> HIDE DEF inf, next
  <2>2. Perform(a, s).moved = (inf.moved \/ next # inf.seq) /\ Perform(a, s).seq = next BY <2>1
  <2>3. ~ inf.moved /\ next = inf.seq BY <2>2
  <2>4. inf.seq = s BY <2>3, InferenceUnmoved DEF inf
  <2> QED BY <2>2, <2>3, <2>4
<1> QED BY <1>1, <1>2, <1>3, <1>4 DEF HypAction, SelectionAction, InferenceAction, Infers
-----------------------------------------------------------------------------
(* Rules.                                                                   *)

(* The antecedent by which an existential hypothesis is freed, as i.         *)
Freeing(i) ==
    Antecedent(Null, {}, {}, << [kind |-> "rewrite", hyps |-> {Ex(i.ty)}, idents |-> {i},
                                 inferred |-> {In(i)}, gone |-> {Ex(i.ty)}],
                                [kind |-> "select", hyps |-> {In(i)}] >>)

(* An antecedent that infers nothing.                                        *)
Plain(ant) ==
    /\ ant.unsel = {}
    /\ ant.actions = << >> \/ \E a \in SelectionAction : ant.actions = << a >>

(* What the reasoners make.                                                  *)
Closing(r) ==
    /\ r.goal \in Pred /\ r.ants = << >>
    /\ \/ r.desc.id = "hyp" /\ r.needed = {r.goal}
       \/ r.desc.id = "review" /\ r.conf <= REVIEWED_MAX
       \/ r.desc.id \in External

Introducing(r, i) ==
    \/ /\ r.desc.id = "allI" /\ r.goal = All(i.ty) /\ r.needed = {}
       /\ r.ants = << Antecedent(In(i), {}, {i}, << >>) >>
    \/ /\ r.desc.id = "exI" /\ r.goal = Ex(i.ty) /\ r.needed = {} /\ r.input = i
       /\ r.ants = << Antecedent(In(i), {}, {}, << >>) >>
    \/ /\ r.desc.id = "allD" /\ r.goal = Null /\ r.needed = {All(i.ty)} /\ r.input = i
       /\ r.ants = << Antecedent(Null, {In(i)}, {},
                                 << [kind |-> "deselect", hyps |-> {All(i.ty)}] >>) >>
    \/ /\ r.desc.id = "exF" /\ r.goal = Null /\ r.needed = {}
       /\ r.ants = << Freeing(i) >>

Cutting(r, lemma) ==
    /\ r.desc.id = "cut" /\ r.goal = Null /\ r.needed = {} /\ r.input = lemma
    /\ r.ants = << Antecedent(lemma, {}, {}, << >>), Antecedent(Null, {lemma}, {}, << >>) >>

Managing(r, a) ==
    /\ r.desc.id = "mngHyp" /\ r.goal = Null /\ r.needed = {}
    /\ r.ants = << Antecedent(Null, {}, {}, << a >>) >>

(* Above the uncertain range only a review has less than full confidence.    *)
Graded(r) ==
    r.desc.id \in Implemented \ {"review"} /\ r.conf > UNCERTAIN_MAX => r.conf = DISCHARGED_MAX

Formed(r) ==
    /\ r \in ProofRule /\ Graded(r)
    /\ \/ Closing(r)
       \/ \E i \in Ident : Introducing(r, i)
       \/ \E lemma \in Pred : Cutting(r, lemma)
       \/ \E a \in SelectionAction : Managing(r, a)

LEMMA PredIn ==
    ASSUME NEW i \in Ident
    PROVE  In(i) \in Pred /\ All(i.ty) \in Pred /\ Ex(i.ty) \in Pred /\ Free(In(i)) = {i}
           /\ Free(All(i.ty)) = {} /\ Free(Ex(i.ty)) = {}
<1>1. i.ty \in Type /\ i = [name |-> i.name, ty |-> i.ty] BY DEF Ident
<1>2. Free(In(i)) = {i} BY <1>1 DEF Free, In
<1> QED BY <1>1, <1>2 DEF Pred, Free, All, Ex

(* A hypothesis action of either kind.                                       *)
LEMMA ActionsFormed ==
    ASSUME NEW i \in Ident
    PROVE  /\ [kind |-> "rewrite", hyps |-> {Ex(i.ty)}, idents |-> {i}, inferred |-> {In(i)},
               gone |-> {Ex(i.ty)}] \in InferenceAction
           /\ [kind |-> "select", hyps |-> {In(i)}] \in SelectionAction
           /\ [kind |-> "deselect", hyps |-> {All(i.ty)}] \in SelectionAction
BY PredIn DEF InferenceAction, SelectionAction

LEMMA SelectionInfersNot ==
    ASSUME NEW a \in SelectionAction
    PROVE  ~ Infers(a) /\ a \in HypAction
BY DEF SelectionAction, Infers, HypAction

LEMMA OneMember ==
    ASSUME NEW x, NEW j \in DOMAIN << x >>
    PROVE  j = 1 /\ << x >>[j] = x
OBVIOUS

LEMMA TwoMembers ==
    ASSUME NEW x, NEW y, NEW j \in DOMAIN << x, y >>
    PROVE  (j = 1 /\ << x, y >>[j] = x) \/ (j = 2 /\ << x, y >>[j] = y)
OBVIOUS

LEMMA AntecedentFields ==
    ASSUME NEW goal, NEW added, NEW idents, NEW actions
    PROVE  LET ant == Antecedent(goal, added, idents, actions) IN
           /\ ant.goal = goal /\ ant.added = added /\ ant.unsel = {}
           /\ ant.idents = idents /\ ant.actions = actions
BY DEF Antecedent

(* Every antecedent of a rule is plain or frees a hypothesis.                *)
LEMMA AntecedentsFormed ==
    ASSUME NEW r, Formed(r), NEW j \in DOMAIN r.ants
    PROVE  /\ r.ants[j] \in AntecedentRecord
           /\ \/ Plain(r.ants[j])
              \/ r.goal = Null /\ \E i \in Ident : r.ants[j] = Freeing(i)
<1>1. r.ants \in Seq(AntecedentRecord) BY DEF Formed, ProofRule
<1>2. r.ants[j] \in AntecedentRecord BY <1>1
<1>3. CASE Closing(r) BY <1>3 DEF Closing
<1>4. CASE \E i \in Ident : Introducing(r, i)
  <2>1. PICK i \in Ident : Introducing(r, i) BY <1>4
  <2>2. CASE r.ants = << Freeing(i) >> /\ r.goal = Null
    <3>1. r.ants[j] = Freeing(i) BY <2>2, OneMember
    <3> QED BY <1>2, <2>2, <3>1
  <2>3. CASE r.ants # << Freeing(i) >> \/ r.goal # Null
    <3>1. \/ r.ants = << Antecedent(In(i), {}, {i}, << >>) >>
          \/ r.ants = << Antecedent(In(i), {}, {}, << >>) >>
          \/ r.ants = << Antecedent(Null, {In(i)}, {},
                                 << [kind |-> "deselect", hyps |-> {All(i.ty)}] >>) >>
      BY <2>1, <2>3 DEF Introducing
    <3>2. PICK ant : /\ r.ants = << ant >>
                     /\ \/ ant = Antecedent(In(i), {}, {i}, << >>)
                        \/ ant = Antecedent(In(i), {}, {}, << >>)
                        \/ ant = Antecedent(Null, {In(i)}, {},
                                            << [kind |-> "deselect", hyps |-> {All(i.ty)}] >>)
      BY <3>1
    <3>3. r.ants[j] = ant BY <3>2, OneMember
    <3> DEFINE a == [kind |-> "deselect", hyps |-> {All(i.ty)}]
    <3>4. a \in SelectionAction BY ActionsFormed
    <3> HIDE DEF a
    <3>5. ant.unsel = {} /\ (ant.actions = << >> \/ ant.actions = << a >>)
      <4>1. CASE ant = Antecedent(In(i), {}, {i}, << >>) BY <4>1, AntecedentFields
      <4>2. CASE ant = Antecedent(In(i), {}, {}, << >>) BY <4>2, AntecedentFields
      <4>3. CASE ant = Antecedent(Null, {In(i)}, {}, << a >>) BY <4>3, AntecedentFields
      <4> QED BY <3>2, <4>1, <4>2, <4>3 DEF a
    <3>6. Plain(ant) BY <3>4, <3>5 DEF Plain
    <3> QED BY <1>2, <3>3, <3>6
  <2> QED BY <2>2, <2>3
<1>5. CASE \E lemma \in Pred : Cutting(r, lemma)
  <2>1. PICK lemma \in Pred : Cutting(r, lemma) BY <1>5
  <2>2. \/ r.ants[j] = Antecedent(lemma, {}, {}, << >>)
        \/ r.ants[j] = Antecedent(Null, {lemma}, {}, << >>)
    BY <2>1, TwoMembers DEF Cutting
  <2>3. Plain(r.ants[j]) BY <2>2, AntecedentFields DEF Plain
  <2> QED BY <1>2, <2>3
<1>6. CASE \E a \in SelectionAction : Managing(r, a)
  <2>1. PICK a \in SelectionAction : Managing(r, a) BY <1>6
  <2>2. r.ants[j] = Antecedent(Null, {}, {}, << a >>) BY <2>1, OneMember DEF Managing
  <2>3. Plain(r.ants[j]) BY <2>2, AntecedentFields DEF Plain
  <2> QED BY <1>2, <2>3
<1> QED BY <1>2, <1>3, <1>4, <1>5, <1>6 DEF Formed

-----------------------------------------------------------------------------
(* What an antecedent makes of a sequent.                                   *)

LEMMA PerformedSteps ==
    ASSUME NEW ant, NEW start, NEW n \in 0 .. 2, Len(ant.actions) = n
    PROVE  LET done == Performed(ant, start) IN
           /\ done[0] = start
           /\ n >= 1 => done[1].seq = Perform(ant.actions[1], done[0].seq).seq
           /\ n = 2 => done[2].seq = Perform(ant.actions[2], done[1].seq).seq
<1> DEFINE Next1(i, prev) == [seq |-> Perform(ant.actions[i], prev.seq).seq,
                              moved |-> prev.moved \/ Perform(ant.actions[i], prev.seq).moved]
           f1 == Next1(1, start)
           f2 == Next1(2, f1)
           f == [i \in 0 .. n |-> IF i = 0 THEN start ELSE IF i = 1 THEN f1 ELSE f2]
           done == Performed(ant, start)
<1>1. f = [i \in 0 .. n |-> IF i = 0 THEN start ELSE Next1(i, f[i - 1])]
  <2>1. ASSUME NEW i \in 0 .. n
        PROVE  f[i] = IF i = 0 THEN start ELSE Next1(i, f[i - 1])
    <3> HIDE DEF Next1
    <3>1. i = 0 \/ i = 1 \/ i = 2 OBVIOUS
    <3>2. CASE i = 0 BY <3>2
    <3>3. CASE i = 1 BY <3>3
    <3>4. CASE i = 2 BY <3>4
    <3> QED BY <3>1, <3>2, <3>3, <3>4
  <2> HIDE DEF Next1
  <2> QED BY <2>1
<1>2. \E g : g = [i \in 0 .. n |-> IF i = 0 THEN start ELSE Next1(i, g[i - 1])]
  BY <1>1
<1>3. done = CHOOSE g : g = [i \in 0 .. n |-> IF i = 0 THEN start ELSE Next1(i, g[i - 1])]
  BY DEF Performed
<1> HIDE DEF done
<1>4. done = [i \in 0 .. n |-> IF i = 0 THEN start ELSE Next1(i, done[i - 1])]
  <2> HIDE DEF Next1
  <2> QED BY <1>2, <1>3
<1>5. /\ done[0] = start
      /\ n >= 1 => done[1] = Next1(1, done[0])
      /\ n = 2 => done[2] = Next1(2, done[1])
  <2> HIDE DEF Next1
  <2> QED BY <1>4
<1> QED BY <1>5 DEF done

(* The sequent an antecedent starts from.                                    *)
LEMMA StartFields ==
    ASSUME NEW s, WellFormed(s), NEW ant \in AntecedentRecord,
           NEW inherited \in Pred \cup {Null}, Instance0(ant, s, inherited) # Null
    PROVE  LET start == Instance0(ant, s, inherited) IN
           /\ WellFormed(start)
           /\ start.env = s.env \cup ant.idents
           /\ start.hyps = s.hyps \cup ant.added
           /\ start.goal = IF ant.goal = Null THEN inherited ELSE ant.goal
           /\ start.goal \in Pred
           /\ Fresh(ant.idents, s.env)
<1> DEFINE goal == IF ant.goal = Null THEN inherited ELSE ant.goal
           start == Modify(s, ant.idents, ant.added, ant.unsel, goal)
           t == [s EXCEPT !.env = s.env \cup ant.idents, !.hyps = @ \cup ant.added, !.goal = goal,
                          !.selected = @ \cup (ant.added \ ant.unsel), !.hidden = @ \ ant.added]
<1>1. ant.goal \in Pred \cup {Null} /\ ant.idents \in SUBSET Ident
      /\ ant.added \in SUBSET Pred /\ ant.unsel \in SUBSET Pred
  BY DEF AntecedentRecord
<1>2. Instance0(ant, s, inherited) = start /\ start # Null /\ goal # Null
  BY DEF Instance0
<1>3. goal \in Pred BY <1>1, <1>2
<1> HIDE DEF goal
<1>4. WellFormed(start) BY <1>1, <1>2, <1>3, ModifyKeepsWellFormed
<1>5. start = t /\ Fresh(ant.idents, s.env) BY <1>2 DEF Modify
<1>6. s \in Sequent BY DEF WellFormed
<1>7. t.env = s.env \cup ant.idents /\ t.hyps = s.hyps \cup ant.added /\ t.goal = goal
  BY <1>6 DEF Sequent
<1> HIDE DEF start, t
<1> QED BY <1>2, <1>3, <1>4, <1>5, <1>7 DEF goal

(* A rule looks no further than two actions.                                 *)
LEMMA ActionsFew ==
    ASSUME NEW r, Formed(r), NEW j \in DOMAIN r.ants
    PROVE  Len(r.ants[j].actions) \in 0 .. 2 /\ r.ants[j].actions \in Seq(HypAction)
<1> DEFINE ant == r.ants[j]
<1>1. ant.actions \in Seq(HypAction) BY AntecedentsFormed DEF AntecedentRecord
<1>2. CASE Plain(ant)
  <2>1. CASE ant.actions = << >> BY <1>1, <2>1
  <2>2. ASSUME NEW a \in SelectionAction, ant.actions = << a >>
        PROVE  Len(ant.actions) \in 0 .. 2
    BY <2>2
  <2> QED BY <1>1, <1>2, <2>1, <2>2 DEF Plain
<1>3. CASE \E i \in Ident : ant = Freeing(i)
  <2>1. PICK i \in Ident : ant = Freeing(i) BY <1>3
  <2>2. Len(ant.actions) = 2 BY <2>1 DEF Freeing, Antecedent
  <2> QED BY <1>1, <2>2
<1> QED BY <1>1, <1>2, <1>3, AntecedentsFormed

LEMMA InheritedIsPred ==
    ASSUME NEW r, NEW s, WellFormed(s)
    PROVE  Inherited(r, s) \in Pred \cup {Null}
BY DEF Inherited, WellFormed, Sequent

(* A child is well formed, and binds and assumes what its start did.         *)
LEMMA ChildGrows ==
    ASSUME NEW s, WellFormed(s), NEW r, Formed(r), Applies(r, s), NEW j \in DOMAIN r.ants
    PROVE  LET start == Instance0(r.ants[j], s, Inherited(r, s))
               child == GenSequent(r, j, s).seq
           IN /\ start # Null /\ WellFormed(start)
              /\ WellFormed(child)
              /\ start.env \subseteq child.env /\ start.hyps \subseteq child.hyps
              /\ child.goal = start.goal
<1> DEFINE ant == r.ants[j]
           start == Instance0(ant, s, Inherited(r, s))
           n == Len(ant.actions)
           done == Performed(ant, Derived(s, start))
<1>1. start # Null BY DEF Applies
<1>2. ant \in AntecedentRecord BY AntecedentsFormed
<1>3. Inherited(r, s) \in Pred \cup {Null} BY InheritedIsPred
<1>4. WellFormed(start) BY <1>1, <1>2, <1>3, StartFields
<1>5. n \in 0 .. 2 /\ ant.actions \in Seq(HypAction) BY ActionsFew
<1>6. Derived(s, start).seq = start BY DEF Derived
<1>7. GenSequent(r, j, s) = done[n] BY DEF GenSequent
<1>8. /\ done[0] = Derived(s, start)
      /\ n >= 1 => done[1].seq = Perform(ant.actions[1], done[0].seq).seq
      /\ n = 2 => done[2].seq = Perform(ant.actions[2], done[1].seq).seq
  BY <1>5, PerformedSteps
<1> DEFINE Good(t) == WellFormed(t) /\ start.env \subseteq t.env /\ start.hyps \subseteq t.hyps
                      /\ t.goal = start.goal
<1>9. ASSUME NEW t, Good(t), NEW a \in HypAction
      PROVE  Good(Perform(a, t).seq)
  BY <1>9, PerformKeepsWellFormed
<1> HIDE DEF start, n, done
<1>10. Good(done[0].seq) BY <1>4, <1>6, <1>8
<1> HIDE DEF Good
<1>11. n >= 1 => Good(done[1].seq) BY <1>5, <1>8, <1>9, <1>10 DEF n
<1>12. n = 2 => Good(done[2].seq) BY <1>5, <1>8, <1>9, <1>11 DEF n
<1>13. Good(done[n].seq) BY <1>5, <1>10, <1>11, <1>12
<1> QED BY <1>1, <1>4, <1>7, <1>13 DEF Good, start

(* An antecedent that infers nothing gives what it says and no more.         *)
LEMMA PlainChild ==
    ASSUME NEW s, WellFormed(s), NEW r, Formed(r), Applies(r, s), NEW j \in DOMAIN r.ants,
           Plain(r.ants[j])
    PROVE  LET ant == r.ants[j]
               child == GenSequent(r, j, s).seq
           IN /\ child.env = s.env \cup ant.idents
              /\ child.hyps = s.hyps \cup ant.added
              /\ child.goal = IF ant.goal = Null THEN Inherited(r, s) ELSE ant.goal
              /\ Fresh(ant.idents, s.env)
<1> DEFINE ant == r.ants[j]
           start == Instance0(ant, s, Inherited(r, s))
           done == Performed(ant, Derived(s, start))
<1>1. start # Null /\ WellFormed(start) BY ChildGrows
<1>2. ant \in AntecedentRecord /\ Inherited(r, s) \in Pred \cup {Null}
  BY AntecedentsFormed, InheritedIsPred
<1>3. /\ start.env = s.env \cup ant.idents
      /\ start.hyps = s.hyps \cup ant.added
      /\ start.goal = IF ant.goal = Null THEN Inherited(r, s) ELSE ant.goal
      /\ Fresh(ant.idents, s.env)
  BY <1>1, <1>2, StartFields
<1>4. Derived(s, start).seq = start BY DEF Derived
<1>5. GenSequent(r, j, s) = done[Len(ant.actions)] BY DEF GenSequent
<1>6. LET child == GenSequent(r, j, s).seq IN
      child.env = start.env /\ child.hyps = start.hyps /\ child.goal = start.goal
  <2>1. CASE ant.actions = << >>
    <3>1. Len(ant.actions) = 0 BY <2>1
    <3>2. done[0] = Derived(s, start) BY <3>1, PerformedSteps
    <3> QED BY <1>4, <1>5, <3>1, <3>2
  <2>2. ASSUME NEW a \in SelectionAction, ant.actions = << a >>
        PROVE  LET child == GenSequent(r, j, s).seq IN
               child.env = start.env /\ child.hyps = start.hyps /\ child.goal = start.goal
    <3>1. Len(ant.actions) = 1 /\ ant.actions[1] = a BY <2>2
    <3>2. done[0] = Derived(s, start) /\ done[1].seq = Perform(ant.actions[1], done[0].seq).seq
      BY <3>1, PerformedSteps
    <3> HIDE DEF start, done
    <3>3. done[1].seq = Perform(a, start).seq BY <1>4, <3>1, <3>2
    <3>4. a.kind \in {"select", "deselect", "hide", "show"} /\ a.hyps \in SUBSET Pred
      BY DEF SelectionAction
    <3>5. Perform(a, start).seq \in {Select(start, a.hyps), Deselect(start, a.hyps),
                                     Hide(start, a.hyps), Show(start, a.hyps)}
      BY <3>4 DEF Perform, Derived, Infers
    <3>6. LET t == Perform(a, start).seq IN
          t.env = start.env /\ t.hyps = start.hyps /\ t.goal = start.goal
      BY <1>1, <3>4, <3>5, SelectionKeepsWellFormed
    <3> QED BY <1>5, <3>1, <3>3, <3>6
  <2> QED BY <2>1, <2>2 DEF Plain
<1> HIDE DEF start, done
<1> QED BY <1>3, <1>6

(* The freeing of a hypothesis goes through if it is there and its name is   *)
(* not, and otherwise leaves the sequent alone.                              *)
Fires(i, s) == Ex(i.ty) \in s.hyps /\ i.name \notin Names(s.env)

LEMMA FreeingApplies ==
    ASSUME NEW i \in Ident, NEW t
    PROVE  Applicable(t, Freeing(i).actions[1]) <=> Fires(i, t)
<1> DEFINE a == Freeing(i).actions[1]
<1>1. a = [kind |-> "rewrite", hyps |-> {Ex(i.ty)}, idents |-> {i},
           inferred |-> {In(i)}, gone |-> {Ex(i.ty)}]
  BY DEF Freeing, Antecedent
<1>2. a.hyps = {Ex(i.ty)} /\ a.idents = {i} /\ a.inferred = {In(i)} BY <1>1
<1> HIDE DEF a
<1>3. Free(Ex(i.ty)) = {} /\ Free(In(i)) = {i} BY PredIn
<1>4. Typed(a.hyps, t.env) /\ Typed(a.inferred, t.env \cup a.idents) BY <1>2, <1>3 DEF Typed
<1>5. Fresh(a.idents, t.env) <=> i.name \notin Names(t.env) BY <1>2 DEF Fresh
<1> QED BY <1>2, <1>4, <1>5 DEF Applicable, Fires, a

LEMMA FreeingPerforms ==
    ASSUME NEW i \in Ident, NEW t, WellFormed(t)
    PROVE  LET step == Perform(Freeing(i).actions[1], t) IN
           /\ step.moved <=> Fires(i, t)
           /\ step.seq.env = IF Fires(i, t) THEN t.env \cup {i} ELSE t.env
           /\ step.seq.hyps = IF Fires(i, t) THEN t.hyps \cup {In(i)} ELSE t.hyps
           /\ step.seq.goal = t.goal
           /\ WellFormed(step.seq)
<1> DEFINE a == Freeing(i).actions[1]
           step == Perform(a, t)
<1>1. a = [kind |-> "rewrite", hyps |-> {Ex(i.ty)}, idents |-> {i},
           inferred |-> {In(i)}, gone |-> {Ex(i.ty)}]
  BY DEF Freeing, Antecedent
<1>2. a \in InferenceAction BY <1>1, ActionsFormed
<1>3. a.kind = "rewrite" /\ a.idents = {i} /\ a.inferred = {In(i)} BY <1>1
<1>4. a.gone = {Ex(i.ty)} BY <1>1
<1>5. Applicable(t, a) <=> Fires(i, t) BY FreeingApplies
<1> HIDE DEF a
<1>6. WellFormed(step.seq) BY <1>2, PerformKeepsWellFormed DEF HypAction
<1>7. CASE ~ Fires(i, t)
  <2>1. step = Derived(t, t) BY <1>3, <1>5, <1>7 DEF Perform, Infers
  <2>2. Derived(t, t).seq = t BY DEF Derived
  <2>3. Derived(t, t).moved = (t # t) BY DEF Derived
  <2> HIDE DEF step
  <2>4. step.seq = t /\ ~ step.moved BY <2>1, <2>2, <2>3
  <2> QED BY <1>6, <1>7, <2>4 DEF a, step
<1>8. CASE Fires(i, t)
  <2> DEFINE inf == ForwardInf(t, a)
             next == Hide(inf.seq, a.gone)
  <2>1. step = [seq |-> next, moved |-> inf.moved \/ next # inf.seq]
    BY <1>3, <1>5, <1>8 DEF Perform, Infers, Rewrite
  <2> DEFINE selects == a.hyps \cap t.selected # {}
             hides == ~ selects /\ a.hyps \subseteq t.hidden
             new == a.inferred \ t.hyps
             again == IF selects THEN (a.inferred \cap t.hyps) \ t.hidden ELSE {}
             u == [t EXCEPT !.env = @ \cup a.idents, !.hyps = @ \cup new,
                            !.selected = @ \cup again \cup (IF selects THEN new ELSE {}),
                            !.hidden = @ \cup (IF hides THEN new ELSE {})]
  <2>2. inf = [seq |-> u, moved |-> u # t \/ again # {}] BY DEF ForwardInf
  <2>3. t \in Sequent BY DEF WellFormed
  <2>4. /\ u.env = t.env \cup a.idents /\ u.hyps = t.hyps \cup new /\ u.goal = t.goal
    <3> HIDE DEF new, again, selects, hides
    <3> QED BY <2>3 DEF Sequent
  <2>5. u \in Sequent
    <3>1. WellFormed(inf.seq) BY <1>2, <1>5, <1>8, InferenceKeepsWellFormed
    <3>2. inf.seq = u BY <2>2
    <3> QED BY <3>1, <3>2 DEF WellFormed
  <2>6. t.hyps \cup new = t.hyps \cup {In(i)} BY <1>3
  <2> HIDE DEF u, new, again, next
  <2>7. inf.seq = u /\ inf.moved = (u # t \/ again # {}) BY <2>2
  <2> HIDE DEF inf
  <2>8. i \notin t.env BY <1>8 DEF Fires, Names
  <2>9. u # t BY <1>3, <2>4, <2>8
  <2>10. next.env = u.env /\ next.hyps = u.hyps /\ next.goal = u.goal
    BY <2>5, <2>7 DEF next, Hide, Sequent
  <2>11. step.seq = next /\ step.moved = (inf.moved \/ next # inf.seq) BY <2>1
  <2>12. step.moved BY <2>7, <2>9, <2>11
  <2> HIDE DEF step
  <2>13. step.seq.env = t.env \cup {i} /\ step.seq.hyps = t.hyps \cup {In(i)}
         /\ step.seq.goal = t.goal
    BY <1>3, <2>4, <2>6, <2>10, <2>11
  <2> QED BY <1>6, <1>8, <2>12, <2>13 DEF step, a
<1> QED BY <1>7, <1>8

LEMMA FreeingChild ==
    ASSUME NEW s, WellFormed(s), NEW r, Formed(r), Applies(r, s), NEW j \in DOMAIN r.ants,
           NEW i \in Ident, r.ants[j] = Freeing(i), r.goal = Null
    PROVE  LET child == GenSequent(r, j, s).seq IN
           /\ child.env = IF Fires(i, s) THEN s.env \cup {i} ELSE s.env
           /\ child.hyps = IF Fires(i, s) THEN s.hyps \cup {In(i)} ELSE s.hyps
           /\ child.goal = s.goal
           /\ Fired(r, j, s) = IF Fires(i, s) THEN {1} ELSE {}
<1> DEFINE ant == r.ants[j]
           start == Instance0(ant, s, Inherited(r, s))
           done == Performed(ant, Derived(s, start))
           select == [kind |-> "select", hyps |-> {In(i)}]
<1>1. start # Null /\ WellFormed(start) BY ChildGrows
<1>2. ant \in AntecedentRecord /\ Inherited(r, s) \in Pred \cup {Null}
  BY AntecedentsFormed, InheritedIsPred
<1>3. ant.goal = Null /\ ant.added = {} /\ ant.idents = {} /\ Len(ant.actions) = 2
      /\ ant.actions[2] = select /\ DOMAIN ant.actions = {1, 2}
  BY DEF Freeing, Antecedent
<1>4. Inherited(r, s) = s.goal BY DEF Inherited
<1>5. /\ start.env = s.env \cup ant.idents
      /\ start.hyps = s.hyps \cup ant.added
      /\ start.goal = IF ant.goal = Null THEN Inherited(r, s) ELSE ant.goal
  BY <1>1, <1>2, StartFields
<1>6. start.env = s.env /\ start.hyps = s.hyps /\ start.goal = s.goal
  BY <1>3, <1>4, <1>5
<1>7. Fires(i, start) <=> Fires(i, s) BY <1>6 DEF Fires
<1>8. Derived(s, start).seq = start BY DEF Derived
<1>9. GenSequent(r, j, s) = done[2] BY <1>3 DEF GenSequent
<1>10. /\ done[0] = Derived(s, start)
       /\ done[1].seq = Perform(ant.actions[1], done[0].seq).seq
       /\ done[2].seq = Perform(ant.actions[2], done[1].seq).seq
  BY <1>3, PerformedSteps
<1> DEFINE step == Perform(ant.actions[1], start)
<1>11. /\ step.moved <=> Fires(i, start)
       /\ step.seq.env = IF Fires(i, start) THEN start.env \cup {i} ELSE start.env
       /\ step.seq.hyps = IF Fires(i, start) THEN start.hyps \cup {In(i)} ELSE start.hyps
       /\ step.seq.goal = start.goal
       /\ WellFormed(step.seq)
  BY <1>1, FreeingPerforms
<1>12. done[1].seq = step.seq BY <1>8, <1>10
<1>13. Fired(r, j, s) = {k \in DOMAIN ant.actions :
                            Infers(ant.actions[k]) /\ Perform(ant.actions[k], done[k - 1].seq).moved}
  BY DEF Fired
<1>14. select \in SelectionAction /\ ~ Infers(select)
  BY ActionsFormed, SelectionInfersNot
<1>15. Infers(ant.actions[1]) BY DEF Freeing, Antecedent, Infers
<1> HIDE DEF start, done, step, ant
<1>16. Fired(r, j, s) = IF Fires(i, s) THEN {1} ELSE {}
  <2>1. Perform(ant.actions[1], done[0].seq).moved <=> Fires(i, s)
    <3>1. done[0].seq = start BY <1>8, <1>10
    <3> QED BY <1>7, <1>11, <3>1 DEF step
  <2> HIDE DEF select
  <2> QED BY <1>3, <1>13, <1>14, <1>15, <2>1
<1>17. LET t == Perform(select, done[1].seq).seq IN
       t.env = step.seq.env /\ t.hyps = step.seq.hyps /\ t.goal = step.seq.goal
  <2>1. select.kind = "select" /\ select.hyps = {In(i)} /\ {In(i)} \in SUBSET Pred
    BY PredIn
  <2> HIDE DEF select
  <2>2. Perform(select, step.seq).seq = Select(step.seq, {In(i)})
    BY <2>1 DEF Perform, Derived, Infers
  <2> QED BY <1>11, <1>12, <2>1, <2>2, SelectionKeepsWellFormed
<1> HIDE DEF select
<1> QED BY <1>3, <1>6, <1>7, <1>9, <1>10, <1>11, <1>16, <1>17

-----------------------------------------------------------------------------
(* What dependencies are made of.                                           *)

Desc == [id : Reasoner, version : {0, 1}]

DepsRecord ==
    [goal : Pred \cup {Null}, hyps : SUBSET Pred, idents : SUBSET Ident,
     introduced : SUBSET Name, reasoners : SUBSET Desc]

LEMMA RuleFields ==
    ASSUME NEW r, Formed(r)
    PROVE  /\ r \in ProofRule /\ r # Null
           /\ r.conf \in Nat /\ r.desc \in Desc /\ r.desc.id \in Reasoner
           /\ r.goal \in Pred \cup {Null} /\ r.needed \in SUBSET Pred
<1>1. r \in ProofRule BY DEF Formed
<1>2. r # Null BY <1>1, RuleAssumption
<1>3. r.conf \in 0 .. DISCHARGED_MAX BY <1>1 DEF ProofRule
<1>4. r.conf \in Nat BY <1>3 DEF DISCHARGED_MAX
<1>5. r.desc \in Desc /\ r.goal \in Pred \cup {Null} /\ r.needed \in SUBSET Pred
  BY <1>1 DEF ProofRule, Desc
<1>6. r.desc.id \in Reasoner BY <1>5 DEF Desc
<1> QED BY <1>1, <1>2, <1>4, <1>5, <1>6

LEMMA FreeOfType ==
    ASSUME NEW preds \in SUBSET Pred
    PROVE  FreeOf(preds) \subseteq Ident
<1>1. \A p \in Pred : Free(p) \subseteq Ident
  <2> SUFFICES ASSUME NEW p \in Pred PROVE Free(p) \subseteq Ident
    OBVIOUS
  <2>1. CASE \E i \in Ident : p = In(i) BY <2>1, PredIn
  <2>2. CASE \E t \in Type : p = All(t) \/ p = Ex(t) BY <2>2 DEF Free, All, Ex
  <2> QED BY <2>1, <2>2 DEF Pred
<1> QED BY <1>1 DEF FreeOf

LEMMA ProcessedSteps ==
    ASSUME NEW ant, NEW fired, NEW d, NEW n \in 0 .. 2, Len(ant.actions) = n
    PROVE  LET turn(k, e) == IF k \in fired THEN ProcessAction(ant.actions[k], e) ELSE e IN
           /\ n = 0 => ProcessActions(ant, fired, d) = d
           /\ n = 1 => ProcessActions(ant, fired, d) = turn(1, d)
           /\ n = 2 => ProcessActions(ant, fired, d) = turn(1, turn(2, d))
<1> DEFINE turn(k, e) == IF k \in fired THEN ProcessAction(ant.actions[k], e) ELSE e
           f1 == turn(n, d)
           f2 == turn(n - 1, f1)
           f == [j \in 0 .. n |-> IF j = 0 THEN d ELSE IF j = 1 THEN f1 ELSE f2]
           done == CHOOSE g : g = [j \in 0 .. n |-> IF j = 0 THEN d ELSE turn(n + 1 - j, g[j - 1])]
<1>1. f = [j \in 0 .. n |-> IF j = 0 THEN d ELSE turn(n + 1 - j, f[j - 1])]
  <2>1. ASSUME NEW j \in 0 .. n
        PROVE  f[j] = IF j = 0 THEN d ELSE turn(n + 1 - j, f[j - 1])
    <3> HIDE DEF turn
    <3>1. j = 0 \/ j = 1 \/ j = 2 OBVIOUS
    <3>2. CASE j = 0 BY <3>2
    <3>3. CASE j = 1
      <4>1. f[j] = f1 /\ f[j - 1] = d /\ n + 1 - j = n BY <3>3
      <4> QED BY <3>3, <4>1
    <3>4. CASE j = 2
      <4>1. f[j] = f2 /\ f[j - 1] = f1 /\ n + 1 - j = n - 1 BY <3>4
      <4> QED BY <3>4, <4>1
    <3> QED BY <3>1, <3>2, <3>3, <3>4
  <2> HIDE DEF turn, f1, f2
  <2> QED BY <2>1
<1>2. \E g : g = [j \in 0 .. n |-> IF j = 0 THEN d ELSE turn(n + 1 - j, g[j - 1])]
  BY <1>1
<1>3. ProcessActions(ant, fired, d) = done[n] BY DEF ProcessActions
<1> HIDE DEF turn
<1>4. done = [j \in 0 .. n |-> IF j = 0 THEN d ELSE turn(n + 1 - j, done[j - 1])]
  BY <1>2
<1> HIDE DEF done
<1>5. /\ done[0] = d
      /\ n >= 1 => done[1] = turn(n, done[0])
      /\ n = 2 => done[2] = turn(1, done[1])
  <2>1. done[0] = d BY <1>4
  <2>2. n >= 1 => done[1] = turn(n, done[0])
    <3> SUFFICES ASSUME n >= 1 PROVE done[1] = turn(n, done[0]) OBVIOUS
    <3>1. n + 1 - 1 = n /\ 1 - 1 = 0 OBVIOUS
    <3> QED BY <1>4, <3>1
  <2>3. n = 2 => done[2] = turn(1, done[1])
    <3> SUFFICES ASSUME n = 2 PROVE done[2] = turn(1, done[1]) OBVIOUS
    <3>1. n + 1 - 2 = 1 /\ 2 - 1 = 1 OBVIOUS
    <3> QED BY <1>4, <3>1
  <2> QED BY <2>1, <2>2, <2>3
<1>6. n = 0 => ProcessActions(ant, fired, d) = d BY <1>3, <1>5
<1>7. n = 1 => ProcessActions(ant, fired, d) = turn(1, d) BY <1>3, <1>5
<1>8. n = 2 => ProcessActions(ant, fired, d) = turn(1, turn(2, d)) BY <1>3, <1>5
<1> QED BY <1>6, <1>7, <1>8 DEF turn

(* A plain antecedent has nothing to fire.                                   *)
LEMMA PlainFiresNot ==
    ASSUME NEW r, NEW s, NEW j \in DOMAIN r.ants, Plain(r.ants[j])
    PROVE  Fired(r, j, s) = {}
<1> DEFINE ant == r.ants[j]
<1>1. \A k \in DOMAIN ant.actions : ~ Infers(ant.actions[k])
  <2>1. CASE ant.actions = << >> BY <2>1
  <2>2. ASSUME NEW a \in SelectionAction, ant.actions = << a >>
        PROVE  \A k \in DOMAIN ant.actions : ~ Infers(ant.actions[k])
    BY <2>2, OneMember, SelectionInfersNot
  <2> QED BY <2>1, <2>2 DEF Plain
<1> QED BY <1>1 DEF Fired

(* d is what sub comes to through an antecedent that infers nothing.         *)
PlainlyThrough(ant, sub, d) ==
    LET goals == IF ant.goal = Null THEN {} ELSE {ant.goal} IN
    /\ d \in DepsRecord
    /\ d.goal = sub.goal
    /\ d.hyps = sub.hyps \ ant.added
    /\ d.idents = (sub.idents \cup FreeOf(goals) \cup FreeOf(ant.added)) \ ant.idents
    /\ d.introduced = sub.introduced \cup Names(ant.idents)
    /\ d.reasoners = sub.reasoners

LEMMA PlainThrough ==
    ASSUME NEW ant \in AntecedentRecord, Plain(ant), NEW sub \in DepsRecord
    PROVE  PlainlyThrough(ant, sub, ThroughAntecedent(ant, {}, sub))
<1> DEFINE goals == IF ant.goal = Null THEN {} ELSE {ant.goal}
           used == (sub.idents \cup FreeOf(goals) \cup FreeOf(ant.added)) \ ant.idents
           made == sub.introduced \cup Names(ant.idents)
           d == [sub EXCEPT !.hyps = @ \ ant.added, !.idents = used, !.introduced = made]
<1>1. ProcessActions(ant, {}, sub) = sub
  <2>1. CASE ant.actions = << >>
    <3>1. Len(ant.actions) = 0 BY <2>1
    <3> QED BY <3>1, ProcessedSteps
  <2>2. ASSUME NEW a, ant.actions = << a >>
        PROVE  ProcessActions(ant, {}, sub) = sub
    <3>1. Len(ant.actions) = 1 BY <2>2
    <3> QED BY <3>1, ProcessedSteps
  <2> QED BY <2>1, <2>2 DEF Plain
<1>2. ThroughAntecedent(ant, {}, sub) = d BY <1>1 DEF ThroughAntecedent
<1>3. /\ ant.goal \in Pred \cup {Null} /\ ant.added \in SUBSET Pred
      /\ ant.idents \in SUBSET Ident
  BY DEF AntecedentRecord
<1>4. sub \in [goal : Pred \cup {Null}, hyps : SUBSET Pred, idents : SUBSET Ident,
               introduced : SUBSET Name, reasoners : SUBSET Desc]
  BY DEF DepsRecord
<1>5. used \in SUBSET Ident BY <1>3, <1>4, FreeOfType
<1>6. made \in SUBSET Name BY <1>3, <1>4 DEF Names, Ident
<1> HIDE DEF used, made, goals
<1>7. d \in DepsRecord BY <1>4, <1>5, <1>6 DEF DepsRecord
<1>8. /\ d.goal = sub.goal /\ d.hyps = sub.hyps \ ant.added /\ d.idents = used
      /\ d.introduced = made /\ d.reasoners = sub.reasoners
  BY <1>4
<1> HIDE DEF d
<1> QED BY <1>2, <1>7, <1>8 DEF used, made, goals, PlainlyThrough

(* A freed hypothesis whose use shows below is traded for its source.        *)
Used(i, fired, sub) == fired = {1} /\ (In(i) \in sub.hyps \/ i \in sub.idents)

FreedThrough(i, used, sub, d) ==
    /\ d \in DepsRecord
    /\ d.goal = sub.goal
    /\ d.hyps = IF used THEN (sub.hyps \ {In(i)}) \cup {Ex(i.ty)} ELSE sub.hyps
    /\ d.idents = IF used THEN sub.idents \ {i} ELSE sub.idents
    /\ d.introduced = IF used THEN sub.introduced \cup {i.name} ELSE sub.introduced
    /\ d.reasoners = sub.reasoners

LEMMA FreeingThrough ==
    ASSUME NEW i \in Ident, NEW fired \in {{}, {1}}, NEW sub \in DepsRecord
    PROVE  FreedThrough(i, Used(i, fired, sub), sub, ThroughAntecedent(Freeing(i), fired, sub))
<1> DEFINE ant == Freeing(i)
           a == ant.actions[1]
           used == Used(i, fired, sub)
           e == ProcessActions(ant, fired, sub)
           traded == [sub EXCEPT !.hyps = (@ \ {In(i)}) \cup {Ex(i.ty)},
                                 !.idents = @ \ {i},
                                 !.introduced = @ \cup {i.name}]
<1>1. /\ ant.goal = Null /\ ant.added = {} /\ ant.idents = {} /\ Len(ant.actions) = 2
      /\ a.hyps = {Ex(i.ty)} /\ a.idents = {i} /\ a.inferred = {In(i)}
  BY DEF Freeing, Antecedent
<1>2. e = IF fired = {1} THEN ProcessAction(a, sub) ELSE sub
  <2>1. ~ (2 \in fired) /\ (1 \in fired <=> fired = {1}) OBVIOUS
  <2> HIDE DEF ant
  <2> QED BY <1>1, <2>1, ProcessedSteps
<1>3. sub \in [goal : Pred \cup {Null}, hyps : SUBSET Pred, idents : SUBSET Ident,
               introduced : SUBSET Name, reasoners : SUBSET Desc]
  BY DEF DepsRecord
<1>4. FreeOf({Ex(i.ty)}) = {} /\ FreeOf({In(i)}) = {i} /\ Names({i}) = {i.name}
      /\ FreeOf({}) = {} /\ Names({}) = {}
  BY PredIn DEF FreeOf, Names
<1> HIDE DEF a, ant
<1>5. e = IF used THEN traded ELSE sub
  <2>1. CASE used
    <3>1. e = [sub EXCEPT !.hyps = (@ \ a.inferred) \cup a.hyps,
                   !.idents = (@ \cup FreeOf(a.hyps) \cup FreeOf(a.inferred)) \ a.idents,
                   !.introduced = @ \cup Names(a.idents)]
      BY <1>1, <1>2, <2>1 DEF ProcessAction, Used
    <3>2. (sub.idents \cup {} \cup {i}) \ {i} = sub.idents \ {i} OBVIOUS
    <3> QED BY <1>1, <1>4, <2>1, <3>1, <3>2
  <2>2. CASE ~ used BY <1>1, <1>2, <2>2 DEF ProcessAction, Used
  <2> QED BY <2>1, <2>2
<1>6. /\ traded \in DepsRecord
      /\ traded.goal = sub.goal /\ traded.hyps = (sub.hyps \ {In(i)}) \cup {Ex(i.ty)}
      /\ traded.idents = sub.idents \ {i} /\ traded.introduced = sub.introduced \cup {i.name}
      /\ traded.reasoners = sub.reasoners
  <2>1. In(i) \in Pred /\ Ex(i.ty) \in Pred /\ i.name \in Name BY PredIn DEF Ident
  <2>2. traded \in DepsRecord BY <1>3, <2>1 DEF DepsRecord
  <2> QED BY <1>3, <2>2
<1> HIDE DEF traded
<1>7. e \in DepsRecord BY <1>5, <1>6
<1> DEFINE d == [e EXCEPT !.hyps = @ \ {}, !.idents = (@ \cup {} \cup {}) \ {},
                          !.introduced = @ \cup {}]
<1>8. ThroughAntecedent(ant, fired, sub) = d BY <1>1, <1>4 DEF ThroughAntecedent
<1> HIDE DEF e
<1>9. e \in [goal : Pred \cup {Null}, hyps : SUBSET Pred, idents : SUBSET Ident,
             introduced : SUBSET Name, reasoners : SUBSET Desc]
  BY <1>7 DEF DepsRecord
<1>10. d \in DepsRecord /\ d.goal = e.goal /\ d.hyps = e.hyps /\ d.idents = e.idents
       /\ d.introduced = e.introduced /\ d.reasoners = e.reasoners
  BY <1>9 DEF DepsRecord
<1> HIDE DEF d, used
<1>11. CASE used BY <1>5, <1>6, <1>8, <1>10, <1>11 DEF used, ant, FreedThrough
<1>12. CASE ~ used BY <1>5, <1>7, <1>8, <1>10, <1>12 DEF used, ant, FreedThrough
<1> QED BY <1>11, <1>12
(* What is needed of a sequent through its j-th child.                       *)
Through(r, s, below, j) == ThroughAntecedent(r.ants[j], Fired(r, j, s), below[j])

LEMMA ThroughType ==
    ASSUME NEW s, WellFormed(s), NEW r, Formed(r), Applies(r, s),
           NEW below \in [DOMAIN r.ants -> DepsRecord], NEW j \in DOMAIN r.ants
    PROVE  LET d == Through(r, s, below, j) IN
           /\ d \in DepsRecord
           /\ d.goal = below[j].goal
           /\ d.reasoners = below[j].reasoners
<1>1. below[j] \in DepsRecord OBVIOUS
<1>2. CASE Plain(r.ants[j])
  <2>1. r.ants[j] \in AntecedentRecord BY AntecedentsFormed
  <2>2. Fired(r, j, s) = {} BY <1>2, PlainFiresNot
  <2>3. Through(r, s, below, j) = ThroughAntecedent(r.ants[j], {}, below[j])
    BY <2>2 DEF Through
  <2>4. LET d == ThroughAntecedent(r.ants[j], {}, below[j]) IN
        d \in DepsRecord /\ d.goal = below[j].goal /\ d.reasoners = below[j].reasoners
    BY <1>1, <1>2, <2>1, PlainThrough DEF PlainlyThrough
  <2> QED BY <2>3, <2>4
<1>3. ASSUME NEW i \in Ident, r.goal = Null, r.ants[j] = Freeing(i)
      PROVE  LET d == Through(r, s, below, j) IN
             /\ d \in DepsRecord
             /\ d.goal = below[j].goal
             /\ d.reasoners = below[j].reasoners
  <2>1. Fired(r, j, s) \in {{}, {1}} BY <1>3, FreeingChild
  <2>2. PICK fired \in {{}, {1}} : fired = Fired(r, j, s) BY <2>1
  <2>3. Through(r, s, below, j) = ThroughAntecedent(Freeing(i), fired, below[j])
    BY <1>3, <2>2 DEF Through
  <2>4. LET d == ThroughAntecedent(Freeing(i), fired, below[j]) IN
        d \in DepsRecord /\ d.goal = below[j].goal /\ d.reasoners = below[j].reasoners
    <3>1. PICK sub \in DepsRecord : sub = below[j] BY <1>1
    <3>2. LET d == ThroughAntecedent(Freeing(i), fired, sub) IN
          d \in DepsRecord /\ d.goal = sub.goal /\ d.reasoners = sub.reasoners
      BY FreeingThrough DEF FreedThrough
    <3> QED BY <3>1, <3>2
  <2> QED BY <2>3, <2>4
<1> QED BY <1>2, <1>3, AntecedentsFormed

(* Identifiers are needed for the goal, the hypotheses or a child.           *)
IdentsNeeded(r, s, below, d) ==
    d.idents \subseteq FreeOf({d.goal} \ {Null}) \cup FreeOf(r.needed)
                      \cup UNION {Through(r, s, below, j).idents : j \in DOMAIN r.ants}

(* The goal of a node is its rule's, or what a child needs of the goal it    *)
(* inherits, or none.                                                        *)
LEMMA NodeDepsFields ==
    ASSUME NEW s, WellFormed(s), NEW r, Formed(r), Applies(r, s),
           NEW below \in [DOMAIN r.ants -> DepsRecord]
    PROVE  LET d == NodeDeps(r, s, below)
               sub(j) == Through(r, s, below, j)
               inheriting == {j \in DOMAIN r.ants : r.ants[j].goal = Null}
           IN /\ d \in DepsRecord
              /\ \/ r.goal # Null /\ d.goal = r.goal
                 \/ r.goal = Null /\ d.goal = Null /\ \A j \in inheriting : below[j].goal = Null
                 \/ /\ r.goal = Null /\ d.goal # Null
                    /\ \E j \in inheriting : d.goal = below[j].goal
              /\ d.hyps = r.needed \cup UNION {sub(j).hyps : j \in DOMAIN r.ants}
              /\ \A j \in DOMAIN r.ants : sub(j).idents \subseteq d.idents
              /\ IdentsNeeded(r, s, below, d)
              /\ d.introduced = UNION {sub(j).introduced : j \in DOMAIN r.ants}
              /\ d.reasoners = {r.desc} \cup UNION {below[j].reasoners : j \in DOMAIN r.ants}
<1> DEFINE sub == [j \in DOMAIN r.ants |->
                      ThroughAntecedent(r.ants[j], Fired(r, j, s), below[j])]
           inheriting == {j \in DOMAIN r.ants : r.ants[j].goal = Null}
           instances == {sub[j].goal : j \in inheriting} \ {Null}
           goal == IF r.goal # Null THEN r.goal
                   ELSE IF instances = {} THEN Null ELSE The(instances)
           goals == IF goal = Null THEN {} ELSE {goal}
           hyps == r.needed \cup UNION {sub[i].hyps : i \in DOMAIN sub}
           idents == FreeOf(goals \cup r.needed) \cup UNION {sub[i].idents : i \in DOMAIN sub}
           introduced == UNION {sub[i].introduced : i \in DOMAIN sub}
           reasoners == {r.desc} \cup UNION {sub[i].reasoners : i \in DOMAIN sub}
           d == NodeDeps(r, s, below)
<1>1. \A j \in DOMAIN r.ants : /\ sub[j] = Through(r, s, below, j)
                               /\ sub[j] \in DepsRecord
                               /\ sub[j].goal = below[j].goal
                               /\ sub[j].reasoners = below[j].reasoners
  BY ThroughType DEF Through
<1>2. DOMAIN sub = DOMAIN r.ants OBVIOUS
<1>3. d = [goal |-> goal, hyps |-> hyps, idents |-> idents, introduced |-> introduced,
           reasoners |-> reasoners]
  BY DEF NodeDeps
<1>4. r.goal \in Pred \cup {Null} /\ r.needed \in SUBSET Pred /\ r.desc \in Desc
  BY DEF Formed, ProofRule, Desc
<1> HIDE DEF sub
<1>5. \A j \in DOMAIN r.ants : /\ sub[j].goal \in Pred \cup {Null}
                               /\ sub[j].hyps \in SUBSET Pred
                               /\ sub[j].idents \in SUBSET Ident
                               /\ sub[j].introduced \in SUBSET Name
                               /\ sub[j].reasoners \in SUBSET Desc
  BY <1>1 DEF DepsRecord
<1>6. instances # {} => The(instances) \in instances BY DEF The
<1>7. \/ r.goal # Null /\ goal = r.goal
      \/ r.goal = Null /\ goal = Null /\ \A j \in inheriting : below[j].goal = Null
      \/ /\ r.goal = Null /\ goal # Null
         /\ \E j \in inheriting : goal = below[j].goal
  <2>1. CASE r.goal # Null BY <2>1
  <2>2. CASE r.goal = Null /\ instances = {}
    <3>1. goal = Null BY <2>2
    <3>2. \A j \in inheriting : below[j].goal = Null BY <1>1, <2>2
    <3> QED BY <2>2, <3>1, <3>2
  <2>3. CASE r.goal = Null /\ instances # {}
    <3>1. goal \in instances BY <1>6, <2>3
    <3> HIDE DEF goal
    <3> QED BY <1>1, <2>3, <3>1
  <2> QED BY <2>1, <2>2, <2>3
<1>8. goal \in Pred \cup {Null}
  <2> HIDE DEF goal
  <2> QED BY <1>1, <1>4, <1>5, <1>7
<1> HIDE DEF goal
<1>9. hyps \in SUBSET Pred BY <1>2, <1>4, <1>5
<1>10. idents \in SUBSET Ident
  <2>1. goals \cup r.needed \in SUBSET Pred BY <1>4, <1>8
  <2> HIDE DEF goals
  <2>2. FreeOf(goals \cup r.needed) \subseteq Ident BY <2>1, FreeOfType
  <2> QED BY <1>2, <1>5, <2>2
<1>11. introduced \in SUBSET Name BY <1>2, <1>5
<1>12. reasoners \in SUBSET Desc BY <1>2, <1>4, <1>5
<1>13. \A j \in DOMAIN r.ants : sub[j].idents \subseteq idents BY <1>2
<1>14. hyps = r.needed \cup UNION {Through(r, s, below, j).hyps : j \in DOMAIN r.ants}
  BY <1>1, <1>2
<1>15. introduced = UNION {Through(r, s, below, j).introduced : j \in DOMAIN r.ants}
  BY <1>1, <1>2
<1>16. reasoners = {r.desc} \cup UNION {below[j].reasoners : j \in DOMAIN r.ants}
  BY <1>1, <1>2
<1>20. idents \subseteq FreeOf({goal} \ {Null}) \cup FreeOf(r.needed)
                     \cup UNION {Through(r, s, below, j).idents : j \in DOMAIN r.ants}
  <2>1. goals = {goal} \ {Null} OBVIOUS
  <2>2. FreeOf(goals \cup r.needed) \subseteq FreeOf(goals) \cup FreeOf(r.needed) BY DEF FreeOf
  <2> DEFINE below1 == UNION {sub[i].idents : i \in DOMAIN sub}
  <2>3. below1 = UNION {Through(r, s, below, j).idents : j \in DOMAIN r.ants} BY <1>1, <1>2
  <2> HIDE DEF below1, goals
  <2> QED BY <2>1, <2>2, <2>3 DEF below1
<1> HIDE DEF hyps, idents, introduced, reasoners
<1>17. d \in DepsRecord BY <1>3, <1>8, <1>9, <1>10, <1>11, <1>12 DEF DepsRecord
<1>18. d.goal = goal /\ d.hyps = hyps /\ d.idents = idents /\ d.introduced = introduced
       /\ d.reasoners = reasoners
  BY <1>3
<1> HIDE DEF d
<1>19. \A j \in DOMAIN r.ants : Through(r, s, below, j).idents \subseteq d.idents
  BY <1>1, <1>13, <1>18
<1>21. IdentsNeeded(r, s, below, d) BY <1>18, <1>20 DEF IdentsNeeded
<1> QED BY <1>7, <1>14, <1>15, <1>16, <1>17, <1>18, <1>19, <1>21 DEF d
-----------------------------------------------------------------------------
(* Trees.                                                                   *)

(* A set of naturals that is not empty has a lowest member.                  *)
LEMMA LowestNat ==
    ASSUME NEW S \in SUBSET Nat, S # {}
    PROVE  \E m \in S : \A n \in S : m <= n
<1> DEFINE R == {ss \in Nat \X Nat : ss[1] < ss[2]}
<1>1. IsWellFoundedOn(R, Nat) BY NatLessThanWellFounded DEF OpToRel
<1>2. S \subseteq Nat /\ S # {} OBVIOUS
<1> HIDE DEF R
<1>3. PICK m \in S : \A n \in S : ~ (<< n, m >> \in R) BY <1>1, <1>2, WFMin
<1>4. \A n \in S : ~ (n < m) BY <1>3 DEF R
<1> QED BY <1>4

(* Places are paths of numbers, and none is longer than n.                   *)
Placed(t, n) ==
    /\ n \in Nat
    /\ DOMAIN t \subseteq Seq(Nat)
    /\ Root \in DOMAIN t
    /\ \A p \in DOMAIN t : Len(p) <= n

(* A ruled node applies its rule, and has the children the rule makes.       *)
NodeOK(t, p) ==
    /\ WellFormed(t[p].seq)
    /\ t[p].rule # Null =>
          /\ Formed(t[p].rule)
          /\ Applies(t[p].rule, t[p].seq)
          /\ \A i \in DOMAIN t[p].rule.ants :
                /\ Append(p, i) \in DOMAIN t
                /\ t[Append(p, i)].seq = GenSequent(t[p].rule, i, t[p].seq).seq

(* A place but the root is that of a child of a ruled node.                  *)
IsChild(t, q) == \E p \in DOMAIN t : t[p].rule # Null /\ q \in Kids(p, t[p].rule)

Rooted(t) == \A q \in DOMAIN t : q = Root \/ IsChild(t, q)

TreeOK(t) ==
    /\ \E n \in Nat : Placed(t, n)
    /\ Rooted(t)
    /\ \A p \in DOMAIN t : NodeOK(t, p)

LEMMA RuleIndices ==
    ASSUME NEW r, Formed(r)
    PROVE  DOMAIN r.ants \subseteq Nat /\ r.ants \in Seq(AntecedentRecord)
<1>1. r.ants \in Seq(AntecedentRecord) BY DEF Formed, ProofRule
<1> QED BY <1>1

LEMMA AppendFacts ==
    ASSUME NEW p \in Seq(Nat), NEW i \in Nat
    PROVE  /\ Append(p, i) \in Seq(Nat)
           /\ Len(Append(p, i)) = Len(p) + 1
           /\ Append(p, i)[Len(Append(p, i))] = i
           /\ Append(p, i) # Root
BY AppendProperties DEF Root

(* Of any places of a tree, there is one none of whose children is one.      *)
LEMMA Topmost ==
    ASSUME NEW t, TreeOK(t), NEW B \in SUBSET DOMAIN t, B # {}
    PROVE  \E p \in B : \A i \in Nat : Append(p, i) \notin B
<1>1. PICK n \in Nat : Placed(t, n) BY DEF TreeOK
<1> DEFINE S == {n - Len(p) : p \in B}
<1>2. \A p \in B : p \in Seq(Nat) /\ Len(p) \in Nat /\ Len(p) <= n BY <1>1 DEF Placed
<1>3. S \in SUBSET Nat BY <1>2
<1>4. S # {} OBVIOUS
<1>5. PICK m \in S : \A k \in S : m <= k
  <2> HIDE DEF S
  <2> QED BY <1>3, <1>4, LowestNat
<1>6. PICK p \in B : m = n - Len(p) BY <1>5
<1>7. ASSUME NEW i \in Nat, Append(p, i) \in B PROVE FALSE
  <2>1. Len(Append(p, i)) = Len(p) + 1 BY <1>2, AppendFacts
  <2>2. n - Len(Append(p, i)) \in S BY <1>7
  <2>3. m <= n - Len(Append(p, i)) BY <1>5, <2>2
  <2> QED BY <1>2, <1>6, <2>1, <2>3
<1> QED BY <1>6, <1>7

(* An open tree is one, and so is a tree grown by a rule that applies.       *)
LEMMA OpenTreeOK ==
    ASSUME NEW s, WellFormed(s)
    PROVE  /\ TreeOK(OpenTree(s)) /\ OpenTree(s)[Root].seq = s
           /\ DOMAIN OpenTree(s) = {Root} /\ RulesOf(OpenTree(s)) = {}
           /\ OpenTree(s)[Root].rule = Null
<1>1. DOMAIN OpenTree(s) = {Root} /\ OpenTree(s)[Root].seq = s /\ OpenTree(s)[Root].rule = Null
  BY DEF OpenTree, Open
<1>2. Root \in Seq(Nat) /\ Len(Root) = 0 BY DEF Root
<1>3. Placed(OpenTree(s), 0) BY <1>1, <1>2 DEF Placed
<1>4. NodeOK(OpenTree(s), Root) BY <1>1 DEF NodeOK
<1>5. RulesOf(OpenTree(s)) = {} BY <1>1 DEF RulesOf
<1> QED BY <1>1, <1>3, <1>4, <1>5 DEF TreeOK, Rooted

(* u is t with the rule r at p, and open nodes for its children.             *)
GrownBy(t, p, r, u) ==
    /\ DOMAIN u = DOMAIN t \cup Kids(p, r)
    /\ Kids(p, r) \subseteq Seq(Nat)
    /\ p \notin Kids(p, r) /\ Root \notin Kids(p, r)
    /\ u[p].seq = t[p].seq /\ u[p].rule = r
    /\ \A i \in DOMAIN r.ants :
          /\ u[Append(p, i)].seq = GenSequent(r, i, t[p].seq).seq
          /\ u[Append(p, i)].rule = Null
    /\ \A q \in DOMAIN t \ (Kids(p, r) \cup {p}) : u[q] = t[q]

LEMMA GrownFields ==
    ASSUME NEW t, TreeOK(t), NEW p \in DOMAIN t, NEW r, Formed(r), Applies(r, t[p].seq)
    PROVE  GrownBy(t, p, r, Grown(t, p, r))
<1> DEFINE u == Grown(t, p, r)
           Body(q) == IF q \in Kids(p, r) THEN Open(Children(r, t[p].seq)[q[Len(q)]].seq)
                      ELSE IF q = p THEN [seq |-> t[p].seq, rule |-> r]
                      ELSE t[q]
<1>1. u = [q \in DOMAIN t \cup Kids(p, r) |-> Body(q)] BY DEF Grown
<1>2. p \in Seq(Nat) BY DEF TreeOK, Placed
<1>3. DOMAIN r.ants \subseteq Nat BY RuleIndices
<1>4. /\ Kids(p, r) \subseteq Seq(Nat) /\ Root \notin Kids(p, r)
      /\ \A q \in Kids(p, r) : Len(q) = Len(p) + 1
  BY <1>2, <1>3, AppendFacts DEF Kids
<1>5. p \notin Kids(p, r) BY <1>2, <1>4
<1>6. ASSUME NEW i \in DOMAIN r.ants
      PROVE  /\ u[Append(p, i)].seq = GenSequent(r, i, t[p].seq).seq
             /\ u[Append(p, i)].rule = Null
  <2>1. Append(p, i) \in Kids(p, r) BY DEF Kids
  <2>2. Append(p, i)[Len(Append(p, i))] = i BY <1>2, <1>3, AppendFacts
  <2>3. Body(Append(p, i)) = Open(Children(r, t[p].seq)[i].seq) BY <2>1, <2>2
  <2>4. Children(r, t[p].seq)[i] = GenSequent(r, i, t[p].seq) BY DEF Children
  <2> HIDE DEF Body, u
  <2>5. u[Append(p, i)] = Open(GenSequent(r, i, t[p].seq).seq) BY <1>1, <2>1, <2>3, <2>4
  <2> QED BY <2>5 DEF Open
<1>7. u[p].seq = t[p].seq /\ u[p].rule = r BY <1>1, <1>5
<1>8. \A q \in DOMAIN t \ (Kids(p, r) \cup {p}) : u[q] = t[q] BY <1>1
<1>9. DOMAIN u = DOMAIN t \cup Kids(p, r) BY <1>1
<1> HIDE DEF u
<1> QED BY <1>4, <1>5, <1>6, <1>7, <1>8, <1>9 DEF u, GrownBy

(* Where there is no rule yet, no child is a place of the tree.              *)
LEMMA KidsNew ==
    ASSUME NEW t, TreeOK(t), NEW p \in OpenNodes(t), NEW r, Formed(r)
    PROVE  Kids(p, r) \cap DOMAIN t = {}
<1> SUFFICES ASSUME NEW k \in Kids(p, r), k \in DOMAIN t PROVE FALSE OBVIOUS
<1>1. p \in DOMAIN t /\ t[p].rule = Null /\ DOMAIN t \subseteq Seq(Nat)
  BY DEF OpenNodes, TreeOK, Placed
<1>2. PICK i \in DOMAIN r.ants : k = Append(p, i) BY DEF Kids
<1>3. i \in Nat BY RuleIndices
<1>4. k # Root BY <1>1, <1>2, <1>3, AppendFacts
<1>5. PICK m \in DOMAIN t : t[m].rule # Null /\ k \in Kids(m, t[m].rule)
  BY <1>4 DEF TreeOK, Rooted, IsChild
<1>6. NodeOK(t, m) BY DEF TreeOK
<1>7. PICK j \in DOMAIN t[m].rule.ants : k = Append(m, j) BY <1>5 DEF Kids
<1>8. j \in Nat BY <1>5, <1>6, RuleIndices DEF NodeOK
<1>9. Append(m, j) = Append(p, i) BY <1>2, <1>7
<1>10. m = p BY <1>1, <1>3, <1>8, <1>9, AppendInjective
<1> QED BY <1>1, <1>5, <1>10

LEMMA GrownOK ==
    ASSUME NEW t, TreeOK(t), NEW p \in OpenNodes(t), NEW r, Formed(r), Applies(r, t[p].seq)
    PROVE  TreeOK(Grown(t, p, r))
<1> DEFINE u == Grown(t, p, r)
<1>1. p \in DOMAIN t /\ t[p].rule = Null BY DEF OpenNodes
<1>2. /\ DOMAIN u = DOMAIN t \cup Kids(p, r)
      /\ Kids(p, r) \subseteq Seq(Nat)
      /\ p \notin Kids(p, r) /\ Root \notin Kids(p, r)
      /\ u[p].seq = t[p].seq /\ u[p].rule = r
      /\ \A i \in DOMAIN r.ants :
            /\ u[Append(p, i)].seq = GenSequent(r, i, t[p].seq).seq
            /\ u[Append(p, i)].rule = Null
      /\ \A q \in DOMAIN t \ (Kids(p, r) \cup {p}) : u[q] = t[q]
  <2>1. GrownBy(t, p, r, u) BY <1>1, GrownFields
  <2> HIDE DEF u
  <2> QED BY <2>1 DEF GrownBy
<1>3. PICK n \in Nat : Placed(t, n) BY DEF TreeOK
<1> HIDE DEF u
<1>4. p \in Seq(Nat) /\ Len(p) \in Nat /\ Len(p) <= n BY <1>1, <1>3 DEF Placed
<1>5. \A q \in Kids(p, r) : Len(q) = Len(p) + 1
  BY <1>4, RuleIndices, AppendFacts DEF Kids
<1>6. Placed(u, n + 1)
  <2>1. DOMAIN u \subseteq Seq(Nat) BY <1>2, <1>3 DEF Placed
  <2>2. Root \in DOMAIN u BY <1>2, <1>3 DEF Placed
  <2>3. ASSUME NEW q \in DOMAIN u PROVE Len(q) <= n + 1
    <3>1. CASE q \in Kids(p, r) BY <1>4, <1>5, <3>1
    <3>2. CASE q \in DOMAIN t
      <4>1. Len(q) <= n /\ q \in Seq(Nat) BY <1>3, <3>2 DEF Placed
      <4>2. Len(q) \in Nat BY <4>1
      <4> QED BY <4>1, <4>2
    <3> QED BY <1>2, <3>1, <3>2
  <2> QED BY <2>1, <2>2, <2>3 DEF Placed
<1>7. NodeOK(t, p) BY <1>1 DEF TreeOK
<1>8. ASSUME NEW q \in DOMAIN u PROVE NodeOK(u, q)
  <2>1. CASE q \in Kids(p, r)
    <3>1. PICK i \in DOMAIN r.ants : q = Append(p, i) BY <2>1 DEF Kids
    <3>2. u[q].seq = GenSequent(r, i, t[p].seq).seq /\ u[q].rule = Null BY <1>2, <3>1
    <3>3. WellFormed(t[p].seq) BY <1>7 DEF NodeOK
    <3>4. WellFormed(GenSequent(r, i, t[p].seq).seq) BY <3>3, ChildGrows
    <3> QED BY <3>2, <3>4 DEF NodeOK
  <2>2. CASE q = p
    <3>1. \A i \in DOMAIN r.ants : Append(p, i) \in DOMAIN u BY <1>2 DEF Kids
    <3> QED BY <1>2, <1>7, <2>2, <3>1 DEF NodeOK
  <2>3. CASE q \in DOMAIN t \ (Kids(p, r) \cup {p})
    <3>1. u[q] = t[q] /\ NodeOK(t, q) BY <1>2, <2>3 DEF TreeOK
    <3>2. ASSUME t[q].rule # Null, NEW i \in DOMAIN t[q].rule.ants
          PROVE  /\ Append(q, i) \in DOMAIN u
                 /\ u[Append(q, i)].seq = GenSequent(t[q].rule, i, t[q].seq).seq
      <4>1. /\ Append(q, i) \in DOMAIN t
            /\ t[Append(q, i)].seq = GenSequent(t[q].rule, i, t[q].seq).seq
            /\ Formed(t[q].rule)
        BY <3>1, <3>2 DEF NodeOK
      <4>2. q \in Seq(Nat) /\ i \in Nat BY <1>3, <2>3, <3>2, <4>1, RuleIndices DEF Placed
      <4>3. Append(q, i) \notin Kids(p, r)
        <5>1. SUFFICES ASSUME NEW k \in DOMAIN r.ants, Append(q, i) = Append(p, k) PROVE FALSE
          BY DEF Kids
        <5>2. k \in Nat BY RuleIndices
        <5>3. q = p BY <1>4, <4>2, <5>1, <5>2, AppendInjective
        <5> QED BY <2>3, <5>3
      <4>4. CASE Append(q, i) = p BY <1>2, <4>1, <4>4
      <4>5. CASE Append(q, i) # p
        <5>1. u[Append(q, i)] = t[Append(q, i)] BY <1>2, <4>1, <4>3, <4>5
        <5> QED BY <1>2, <4>1, <5>1
      <4> QED BY <4>4, <4>5
    <3> QED BY <3>1, <3>2 DEF NodeOK
  <2> QED BY <1>2, <2>1, <2>2, <2>3
<1>9. ASSUME NEW q \in DOMAIN u PROVE q = Root \/ IsChild(u, q)
  <2>1. CASE q \in Kids(p, r) BY <1>1, <1>2, <2>1, RuleFields DEF IsChild
  <2>2. CASE q \in DOMAIN t /\ q # Root
    <3>1. PICK k \in DOMAIN t : t[k].rule # Null /\ q \in Kids(k, t[k].rule)
      BY <2>2 DEF TreeOK, Rooted, IsChild
    <3>2. k # p BY <1>1, <3>1
    <3>3. k \notin Kids(p, r) BY KidsNew
    <3>4. u[k] = t[k] /\ k \in DOMAIN u BY <1>2, <3>1, <3>2, <3>3
    <3> QED BY <3>1, <3>4 DEF IsChild
  <2> QED BY <1>2, <2>1, <2>2
<1> QED BY <1>6, <1>8, <1>9 DEF TreeOK, Rooted, u
-----------------------------------------------------------------------------
(* The dependencies of a tree.                                              *)

(* What the children of p need, by d.                                        *)
Below(t, d, p) == [i \in DOMAIN t[p].rule.ants |-> d[Append(p, i)]]

(* The recursion that computes them has a solution: one for the places of    *)
(* length k and above extends to those of length k - 1.                      *)
LEMMA DepsUnfold ==
    ASSUME NEW t, TreeOK(t)
    PROVE  DepsOf(t) = [p \in DOMAIN t |->
                IF t[p].rule = Null THEN NoDeps
                ELSE NodeDeps(t[p].rule, t[p].seq, Below(t, DepsOf(t), p))]
<1> DEFINE Body(f, p) == IF t[p].rule = Null THEN NoDeps
                         ELSE NodeDeps(t[p].rule, t[p].seq, Below(t, f, p))
           Level(k) == {p \in DOMAIN t : Len(p) >= k}
           Solved(k) == \E f : f = [p \in Level(k) |-> Body(f, p)]
           Ks == {k \in Nat : Solved(k)}
<1>1. PICK n \in Nat : Placed(t, n) BY DEF TreeOK
<1>2. \A p \in DOMAIN t : p \in Seq(Nat) /\ Len(p) \in Nat /\ Len(p) <= n
  BY <1>1 DEF Placed
<1>3. n + 1 \in Ks
  <2>1. Level(n + 1) = {} BY <1>2
  <2> DEFINE f == [p \in {} |-> Null]
  <2>2. f = [p \in Level(n + 1) |-> Body(f, p)]
    <3> HIDE DEF Body
    <3> QED BY <2>1
  <2> HIDE DEF Body, Level, f
  <2> QED BY <2>2
<1>4. PICK m \in Ks : \A k \in Ks : m <= k
  <2>1. Ks \in SUBSET Nat OBVIOUS
  <2> HIDE DEF Ks
  <2> QED BY <1>3, <2>1, LowestNat
<1>5. m \in Nat /\ Solved(m) BY <1>4
<1>6. m = 0
  <2> SUFFICES ASSUME m # 0 PROVE FALSE OBVIOUS
  <2>1. PICK f : f = [p \in Level(m) |-> Body(f, p)] BY <1>5
  <2> DEFINE g == [p \in Level(m - 1) |-> IF p \in Level(m) THEN f[p] ELSE Body(f, p)]
  <2>2. m - 1 \in Nat BY <1>5
  <2>3. Level(m) \subseteq Level(m - 1) BY <1>2, <1>5
  <2>4. ASSUME NEW p \in Level(m) PROVE g[p] = f[p]
    <3> HIDE DEF Level, Body
    <3> QED BY <2>3
  <2>5. ASSUME NEW p \in Level(m - 1) PROVE Body(g, p) = Body(f, p)
    <3>1. CASE t[p].rule = Null BY <3>1
    <3>2. CASE t[p].rule # Null
      <4>1. ASSUME NEW i \in DOMAIN t[p].rule.ants PROVE Append(p, i) \in Level(m)
        <5>1. NodeOK(t, p) BY DEF TreeOK
        <5>2. Append(p, i) \in DOMAIN t /\ i \in Nat
          BY <3>2, <5>1, RuleIndices DEF NodeOK
        <5>3. Len(Append(p, i)) = Len(p) + 1 BY <1>2, <5>2, AppendFacts
        <5>4. Len(p) >= m - 1 /\ Len(p) \in Nat BY <1>2
        <5> QED BY <1>5, <5>2, <5>3, <5>4
      <4> HIDE DEF g, Level
      <4>2. Below(t, g, p) = Below(t, f, p) BY <2>4, <4>1 DEF Below
      <4> QED BY <4>2
    <3> QED BY <3>1, <3>2
  <2>6. ASSUME NEW p \in Level(m - 1) PROVE g[p] = Body(g, p)
    <3>1. CASE p \in Level(m)
      <4>1. f[p] = Body(f, p)
        <5> HIDE DEF Body, Level
        <5> QED BY <2>1, <3>1
      <4> HIDE DEF Body, Level, g
      <4> QED BY <2>4, <2>5, <3>1, <4>1
    <3>2. CASE p \notin Level(m)
      <4>1. g[p] = Body(f, p)
        <5> HIDE DEF Body, Level
        <5> QED BY <3>2
      <4> HIDE DEF Body, Level, g
      <4> QED BY <2>5, <4>1
    <3> QED BY <3>1, <3>2
  <2>7. g = [p \in Level(m - 1) |-> g[p]]
    <3> HIDE DEF Level, Body
    <3> QED OBVIOUS
  <2>8. g = [p \in Level(m - 1) |-> Body(g, p)]
    <3> HIDE DEF g, Body, Level
    <3> QED BY <2>6, <2>7
  <2>9. Solved(m - 1)
    <3> HIDE DEF g, Body, Level
    <3> QED BY <2>8
  <2>10. m - 1 \in Ks
    <3> HIDE DEF Solved
    <3> QED BY <2>2, <2>9
  <2> HIDE DEF Ks
  <2> QED BY <1>4, <1>5, <2>10
<1>7. Level(0) = DOMAIN t
  <2>1. ASSUME NEW p \in DOMAIN t PROVE Len(p) >= 0
    <3>1. Len(p) \in Nat BY <1>2
    <3> QED BY <3>1
  <2> QED BY <2>1
<1>8. \E f : f = [p \in DOMAIN t |-> Body(f, p)]
  <2> HIDE DEF Level, Body
  <2> QED BY <1>5, <1>6, <1>7
<1>9. DepsOf(t) = CHOOSE f : f = [p \in DOMAIN t |-> Body(f, p)]
  BY DEF DepsOf, Below
<1>10. DepsOf(t) = [p \in DOMAIN t |-> Body(DepsOf(t), p)]
  <2> HIDE DEF Body
  <2> QED BY <1>8, <1>9
<1> QED BY <1>10

LEMMA DepsFields ==
    ASSUME NEW t, TreeOK(t), NEW p \in DOMAIN t
    PROVE  DepsOf(t)[p] = IF t[p].rule = Null THEN NoDeps
                          ELSE NodeDeps(t[p].rule, t[p].seq, Below(t, DepsOf(t), p))
<1> DEFINE Body(f, q) == IF t[q].rule = Null THEN NoDeps
                         ELSE NodeDeps(t[q].rule, t[q].seq, Below(t, f, q))
<1>1. DepsOf(t) = [q \in DOMAIN t |-> Body(DepsOf(t), q)] BY DepsUnfold
<1>2. PICK d : d = DepsOf(t) OBVIOUS
<1> HIDE DEF Body
<1>3. d = [q \in DOMAIN t |-> Body(d, q)] BY <1>1, <1>2
<1>4. d[p] = Body(d, p) BY <1>3
<1>5. DepsOf(t)[p] = Body(DepsOf(t), p) BY <1>2, <1>4
<1> QED BY <1>5 DEF Body

LEMMA NoDepsFields ==
    /\ NoDeps \in DepsRecord
    /\ NoDeps.goal = Null /\ NoDeps.hyps = {} /\ NoDeps.idents = {}
    /\ NoDeps.introduced = {} /\ NoDeps.reasoners = {}
BY DEF NoDeps, DepsRecord

(* At every node they are a record of dependencies.                          *)
LEMMA DepsType ==
    ASSUME NEW t, TreeOK(t)
    PROVE  \A p \in DOMAIN t : DepsOf(t)[p] \in DepsRecord
<1> DEFINE B == {p \in DOMAIN t : DepsOf(t)[p] \notin DepsRecord}
<1> SUFFICES ASSUME B # {} PROVE FALSE
  OBVIOUS
<1>1. B \in SUBSET DOMAIN t OBVIOUS
<1>2. PICK p \in B : \A i \in Nat : Append(p, i) \notin B
  <2> HIDE DEF B
  <2> QED BY <1>1, Topmost
<1>3. p \in DOMAIN t /\ DepsOf(t)[p] \notin DepsRecord BY <1>2
<1>4. NodeOK(t, p) BY <1>3 DEF TreeOK
<1>5. t[p].rule # Null
  <2> SUFFICES ASSUME t[p].rule = Null PROVE FALSE OBVIOUS
  <2>1. DepsOf(t)[p] = NoDeps BY <1>3, DepsFields
  <2> QED BY <1>3, <2>1, NoDepsFields
<1> DEFINE r == t[p].rule
<1>6. Formed(r) /\ Applies(r, t[p].seq) /\ WellFormed(t[p].seq) BY <1>4, <1>5 DEF NodeOK
<1>7. ASSUME NEW i \in DOMAIN r.ants PROVE DepsOf(t)[Append(p, i)] \in DepsRecord
  <2>1. Append(p, i) \in DOMAIN t BY <1>4, <1>5 DEF NodeOK
  <2>2. Append(p, i) \notin B BY <1>2, <1>6, RuleIndices
  <2> QED BY <2>1, <2>2
<1>8. Below(t, DepsOf(t), p) \in [DOMAIN r.ants -> DepsRecord] BY <1>7 DEF Below
<1>9. DepsOf(t)[p] = NodeDeps(r, t[p].seq, Below(t, DepsOf(t), p)) BY <1>3, <1>5, DepsFields
<1> HIDE DEF r
<1>10. NodeDeps(r, t[p].seq, Below(t, DepsOf(t), p)) \in DepsRecord
  BY <1>6, <1>8, NodeDepsFields
<1> QED BY <1>3, <1>9, <1>10
-----------------------------------------------------------------------------
(* What a node needs of its sequent its sequent has.                        *)

Own(d, s) ==
    /\ d.goal \in {Null, s.goal}
    /\ d.hyps \subseteq s.hyps
    /\ d.idents \subseteq s.env
    /\ d.introduced \cap Names(s.env) = {}

(* The names made through an antecedent are its own, or made below.          *)
LEMMA OwnThrough ==
    ASSUME NEW s, WellFormed(s), NEW r, Formed(r), Applies(r, s),
           NEW below \in [DOMAIN r.ants -> DepsRecord], NEW j \in DOMAIN r.ants,
           Own(below[j], GenSequent(r, j, s).seq)
    PROVE  LET d == Through(r, s, below, j) IN
           /\ d.hyps \subseteq s.hyps /\ d.idents \subseteq s.env
           /\ d.introduced \cap Names(s.env) = {}
           /\ d.introduced \subseteq below[j].introduced \cup NamesMade(r.ants[j])
           /\ r.goal = Null /\ r.ants[j].goal = Null => d.goal \in {Null, s.goal}
<1> DEFINE ant == r.ants[j]
           child == GenSequent(r, j, s).seq
           d == Through(r, s, below, j)
<1>1. below[j] \in DepsRecord OBVIOUS
<1>2. d.goal = below[j].goal BY ThroughType
<1>3. PICK sub \in DepsRecord : sub = below[j] BY <1>1
<1>4. /\ sub.goal \in {Null, child.goal} /\ sub.hyps \subseteq child.hyps
      /\ sub.idents \subseteq child.env
      /\ sub.introduced \cap Names(child.env) = {}
  BY <1>3 DEF Own
<1>5. CASE Plain(ant)
  <2>1. ant \in AntecedentRecord BY AntecedentsFormed
  <2>2. Fired(r, j, s) = {} BY <1>5, PlainFiresNot
  <2>3. d = ThroughAntecedent(ant, {}, sub) BY <1>3, <2>2 DEF Through
  <2> DEFINE goals == IF ant.goal = Null THEN {} ELSE {ant.goal}
  <2>4. /\ d.hyps = sub.hyps \ ant.added /\ d.introduced = sub.introduced \cup Names(ant.idents)
        /\ d.idents = (sub.idents \cup FreeOf(goals) \cup FreeOf(ant.added)) \ ant.idents
    <3>1. PlainlyThrough(ant, sub, ThroughAntecedent(ant, {}, sub))
      BY <1>5, <2>1, PlainThrough
    <3> HIDE DEF d, ant
    <3> QED BY <2>3, <3>1 DEF PlainlyThrough
  <2>5. /\ child.env = s.env \cup ant.idents /\ child.hyps = s.hyps \cup ant.added
        /\ child.goal = IF ant.goal = Null THEN Inherited(r, s) ELSE ant.goal
        /\ Fresh(ant.idents, s.env)
    BY <1>5, PlainChild
  <2>12. WellFormed(child) BY ChildGrows
  <2> HIDE DEF d, child, ant, goals
  <2>13. FreeOf(goals) \subseteq child.env /\ FreeOf(ant.added) \subseteq child.env
    <3>1. goals \subseteq {child.goal} BY <2>5 DEF goals
    <3>2. Typed(child.hyps \cup {child.goal}, child.env) BY <2>12 DEF WellFormed
    <3> QED BY <2>5, <3>1, <3>2 DEF FreeOf, Typed
  <2>14. d.idents \subseteq s.env BY <1>4, <2>4, <2>5, <2>13
  <2>6. d.hyps \subseteq s.hyps BY <1>4, <2>4, <2>5
  <2>7. Names(s.env) \subseteq Names(child.env) BY <2>5 DEF Names
  <2>8. Names(ant.idents) \cap Names(s.env) = {} BY <2>5 DEF Fresh, Names
  <2>9. d.introduced \cap Names(s.env) = {} BY <1>4, <2>4, <2>7, <2>8
  <2>10. d.introduced \subseteq sub.introduced \cup NamesMade(ant) BY <2>4 DEF NamesMade
  <2>11. r.goal = Null /\ ant.goal = Null => d.goal \in {Null, s.goal}
    BY <1>2, <1>3, <1>4, <2>5 DEF Inherited
  <2> QED BY <1>3, <2>6, <2>9, <2>10, <2>11, <2>14 DEF d, ant
<1>6. ASSUME NEW i \in Ident, r.goal = Null, ant = Freeing(i)
      PROVE  /\ d.hyps \subseteq s.hyps /\ d.idents \subseteq s.env
             /\ d.introduced \cap Names(s.env) = {}
             /\ d.introduced \subseteq sub.introduced \cup NamesMade(ant)
             /\ d.goal \in {Null, s.goal}
  <2>1. /\ child.env = IF Fires(i, s) THEN s.env \cup {i} ELSE s.env
        /\ child.hyps = IF Fires(i, s) THEN s.hyps \cup {In(i)} ELSE s.hyps
        /\ child.goal = s.goal
        /\ Fired(r, j, s) = IF Fires(i, s) THEN {1} ELSE {}
    BY <1>6, FreeingChild
  <2>2. PICK fired \in {{}, {1}} : fired = Fired(r, j, s) BY <2>1
  <2>3. d = ThroughAntecedent(Freeing(i), fired, sub) BY <1>3, <1>6, <2>2 DEF Through
  <2> DEFINE used == Used(i, fired, sub)
  <2>4. /\ d.hyps = IF used THEN (sub.hyps \ {In(i)}) \cup {Ex(i.ty)} ELSE sub.hyps
        /\ d.introduced = IF used THEN sub.introduced \cup {i.name} ELSE sub.introduced
        /\ d.idents = IF used THEN sub.idents \ {i} ELSE sub.idents
    <3>1. FreedThrough(i, used, sub, ThroughAntecedent(Freeing(i), fired, sub))
      BY FreeingThrough
    <3> HIDE DEF d, used
    <3> QED BY <2>3, <3>1 DEF FreedThrough
  <2>5. used => Fires(i, s) BY <2>1, <2>2 DEF Used
  <2>6. Fires(i, s) /\ ~ used => In(i) \notin sub.hyps /\ i \notin sub.idents
    BY <2>1, <2>2 DEF Used
  <2>7. i.name \in NamesMade(ant)
    <3> DEFINE a == Freeing(i).actions[1]
    <3>1. a.idents = {i} /\ Infers(a) /\ 1 \in DOMAIN Freeing(i).actions
      BY DEF Freeing, Antecedent, Infers
    <3> HIDE DEF a
    <3>2. i.name \in Names(a.idents) BY <3>1 DEF Names
    <3>3. Names(a.idents) \subseteq NamesMade(Freeing(i)) BY <3>1 DEF NamesMade, a
    <3> QED BY <1>6, <3>2, <3>3
  <2> HIDE DEF d, child, ant, used
  <2>8. CASE used
    <3>1. Ex(i.ty) \in s.hyps /\ i.name \notin Names(s.env) BY <2>5, <2>8 DEF Fires
    <3>2. Names(s.env) \subseteq Names(child.env) BY <2>1, <2>5, <2>8 DEF Names
    <3>3. d.introduced \cap Names(s.env) = {} BY <1>4, <2>4, <2>8, <3>1, <3>2
    <3>4. d.hyps \subseteq s.hyps BY <1>4, <2>1, <2>4, <2>5, <2>8, <3>1
    <3>5. d.introduced \subseteq sub.introduced \cup NamesMade(ant) BY <2>4, <2>7, <2>8
    <3>6. d.idents \subseteq s.env BY <1>4, <2>1, <2>4, <2>5, <2>8
    <3> QED BY <1>2, <1>3, <1>4, <2>1, <3>3, <3>4, <3>5, <3>6
  <2>9. CASE ~ used
    <3>1. d.hyps \subseteq s.hyps BY <1>4, <2>1, <2>4, <2>6, <2>9
    <3>2. Names(s.env) \subseteq Names(child.env) BY <2>1 DEF Names
    <3>3. d.introduced = sub.introduced BY <2>4, <2>9
    <3>4. d.idents \subseteq s.env BY <1>4, <2>1, <2>4, <2>6, <2>9
    <3> QED BY <1>2, <1>3, <1>4, <2>1, <3>1, <3>2, <3>3, <3>4
  <2> QED BY <2>8, <2>9
<1> HIDE DEF d
<1> QED BY <1>3, <1>5, <1>6, AntecedentsFormed DEF d

(* Own of the children gives Own of the node.                                *)
LEMMA OwnNode ==
    ASSUME NEW s, WellFormed(s), NEW r, Formed(r), Applies(r, s),
           NEW below \in [DOMAIN r.ants -> DepsRecord],
           \A j \in DOMAIN r.ants : Own(below[j], GenSequent(r, j, s).seq)
    PROVE  /\ Own(NodeDeps(r, s, below), s)
           /\ NodeDeps(r, s, below).introduced \subseteq
                 UNION {below[j].introduced \cup NamesMade(r.ants[j]) : j \in DOMAIN r.ants}
<1> DEFINE d == NodeDeps(r, s, below)
           sub(j) == Through(r, s, below, j)
           inheriting == {j \in DOMAIN r.ants : r.ants[j].goal = Null}
<1>1. /\ \/ r.goal # Null /\ d.goal = r.goal
         \/ r.goal = Null /\ d.goal = Null
         \/ /\ r.goal = Null /\ d.goal # Null
            /\ \E j \in inheriting : d.goal = below[j].goal
      /\ d.hyps = r.needed \cup UNION {sub(j).hyps : j \in DOMAIN r.ants}
      /\ d.introduced = UNION {sub(j).introduced : j \in DOMAIN r.ants}
      /\ IdentsNeeded(r, s, below, d)
  BY NodeDepsFields
<1>2. \A j \in DOMAIN r.ants : /\ sub(j).hyps \subseteq s.hyps /\ sub(j).idents \subseteq s.env
                               /\ sub(j).introduced \cap Names(s.env) = {}
                               /\ sub(j).introduced \subseteq
                                     below[j].introduced \cup NamesMade(r.ants[j])
                               /\ sub(j).goal = below[j].goal
                               /\ r.goal = Null /\ r.ants[j].goal = Null
                                     => sub(j).goal \in {Null, s.goal}
  BY OwnThrough, ThroughType
<1>3. r.needed \subseteq s.hyps /\ r.goal \in {Null, s.goal} BY DEF Applies
<1> HIDE DEF d, sub
<1>4. d.hyps \subseteq s.hyps BY <1>1, <1>2, <1>3
<1>5. d.introduced \cap Names(s.env) = {} BY <1>1, <1>2
<1>6. d.goal \in {Null, s.goal} BY <1>1, <1>2, <1>3
<1>7. d.introduced \subseteq
         UNION {below[j].introduced \cup NamesMade(r.ants[j]) : j \in DOMAIN r.ants}
  BY <1>1, <1>2
<1>8. d.idents \subseteq s.env
  <2>1. Typed(s.hyps \cup {s.goal}, s.env) BY DEF WellFormed
  <2>2. FreeOf({d.goal} \ {Null}) \subseteq s.env BY <1>6, <2>1 DEF FreeOf, Typed
  <2>3. FreeOf(r.needed) \subseteq s.env BY <1>3, <2>1 DEF FreeOf, Typed
  <2>4. d.idents \subseteq FreeOf({d.goal} \ {Null}) \cup FreeOf(r.needed)
                          \cup UNION {sub(j).idents : j \in DOMAIN r.ants}
    BY <1>1 DEF IdentsNeeded, sub
  <2> QED BY <1>2, <2>2, <2>3, <2>4
<1> QED BY <1>4, <1>5, <1>6, <1>7, <1>8 DEF Own, d
LEMMA OwnNames ==
    ASSUME NEW k, NEW p \in DOMAIN k, p \in Seq(Nat), k[p] # Null, NEW j \in DOMAIN k[p].ants
    PROVE  NamesMade(k[p].ants[j]) \subseteq NamesFrom(k, p)
<1>1. IsUnder(p, p)
  <2>1. Len(p) \in Nat OBVIOUS
  <2> QED BY <2>1 DEF IsUnder
<1>2. p \in {u \in DOMAIN k : IsUnder(u, p) /\ k[u] # Null} BY <1>1
<1> QED BY <1>2 DEF NamesFrom

LEMMA NamesBelow ==
    ASSUME NEW k, DOMAIN k \subseteq Seq(Nat), NEW p \in Seq(Nat), NEW j \in Nat
    PROVE  NamesFrom(k, Append(p, j)) \subseteq NamesFrom(k, p)
<1>1. ASSUME NEW u \in DOMAIN k, IsUnder(u, Append(p, j)) PROVE IsUnder(u, p)
  <2>1. Len(p) \in Nat /\ Len(u) \in Nat OBVIOUS
  <2>2. /\ Len(Append(p, j)) = Len(p) + 1
        /\ \A m \in 1 .. Len(p) : Append(p, j)[m] = p[m]
    BY AppendProperties
  <2>3. Len(p) <= Len(u) BY <1>1, <2>1, <2>2 DEF IsUnder
  <2>4. ASSUME NEW m \in 1 .. Len(p) PROVE u[m] = p[m]
    <3>1. m \in 1 .. Len(Append(p, j)) BY <2>1, <2>2
    <3> QED BY <1>1, <2>2, <3>1 DEF IsUnder
  <2> QED BY <2>3, <2>4 DEF IsUnder
<1>2. {u \in DOMAIN k : IsUnder(u, Append(p, j)) /\ k[u] # Null}
         \subseteq {u \in DOMAIN k : IsUnder(u, p) /\ k[u] # Null}
  BY <1>1
<1> QED BY <1>2 DEF NamesFrom

LEMMA SkeletonFields ==
    ASSUME NEW t
    PROVE  DOMAIN Skeleton(t) = DOMAIN t /\ \A p \in DOMAIN t : Skeleton(t)[p] = t[p].rule
BY DEF Skeleton

(* What holds of the dependencies at every node of a tree.                   *)
LEMMA TreeOwn ==
    ASSUME NEW t, TreeOK(t)
    PROVE  \A p \in DOMAIN t : /\ Own(DepsOf(t)[p], t[p].seq)
                               /\ DepsOf(t)[p].introduced \subseteq NamesFrom(Skeleton(t), p)
<1> DEFINE Good(p) == /\ Own(DepsOf(t)[p], t[p].seq)
                      /\ DepsOf(t)[p].introduced \subseteq NamesFrom(Skeleton(t), p)
           B == {p \in DOMAIN t : ~ Good(p)}
           k == Skeleton(t)
<1> SUFFICES ASSUME B # {} PROVE FALSE
  OBVIOUS
<1>1. B \in SUBSET DOMAIN t OBVIOUS
<1>2. PICK p \in B : \A i \in Nat : Append(p, i) \notin B
  <2> HIDE DEF B
  <2> QED BY <1>1, Topmost
<1>3. p \in DOMAIN t /\ ~ Good(p) BY <1>2
<1>4. NodeOK(t, p) /\ p \in Seq(Nat) /\ DOMAIN t \subseteq Seq(Nat) BY <1>3 DEF TreeOK, Placed
<1>5. DOMAIN k = DOMAIN t /\ \A q \in DOMAIN t : k[q] = t[q].rule BY SkeletonFields
<1>6. t[p].rule # Null
  <2> SUFFICES ASSUME t[p].rule = Null PROVE FALSE OBVIOUS
  <2>1. DepsOf(t)[p] = NoDeps BY <1>3, DepsFields
  <2> QED BY <1>3, <2>1, NoDepsFields DEF Own
<1> DEFINE r == t[p].rule
           s == t[p].seq
           below == Below(t, DepsOf(t), p)
<1>7. Formed(r) /\ Applies(r, s) /\ WellFormed(s) BY <1>4, <1>6 DEF NodeOK
<1>8. ASSUME NEW j \in DOMAIN r.ants
      PROVE  /\ j \in Nat /\ below[j] \in DepsRecord
             /\ Own(below[j], GenSequent(r, j, s).seq)
             /\ below[j].introduced \subseteq NamesFrom(k, p)
             /\ NamesMade(r.ants[j]) \subseteq NamesFrom(k, p)
  <2>1. Append(p, j) \in DOMAIN t /\ t[Append(p, j)].seq = GenSequent(r, j, s).seq
    BY <1>4, <1>6 DEF NodeOK
  <2>2. j \in Nat BY <1>7, RuleIndices
  <2>3. Append(p, j) \notin B BY <1>2, <2>2
  <2>4. Good(Append(p, j)) BY <2>1, <2>3
  <2>5. below[j] = DepsOf(t)[Append(p, j)] BY DEF Below
  <2>6. NamesFrom(k, Append(p, j)) \subseteq NamesFrom(k, p)
    <3> HIDE DEF k
    <3> QED BY <1>4, <1>5, <2>2, NamesBelow
  <2>7. NamesMade(r.ants[j]) \subseteq NamesFrom(k, p)
    <3>1. k[p] = r BY <1>3, <1>5
    <3> HIDE DEF k
    <3> QED BY <1>3, <1>4, <1>5, <1>6, <3>1, OwnNames
  <2>8. below[j] \in DepsRecord BY <2>1, <2>5, DepsType
  <2> HIDE DEF k, below, B
  <2> QED BY <2>1, <2>2, <2>4, <2>5, <2>6, <2>7, <2>8 DEF k
<1>9. below \in [DOMAIN r.ants -> DepsRecord] BY <1>8 DEF Below
<1>10. DepsOf(t)[p] = NodeDeps(r, s, below) BY <1>3, <1>6, DepsFields
<1> HIDE DEF r, s, below, k
<1>11. Own(NodeDeps(r, s, below), s) BY <1>7, <1>8, <1>9, OwnNode
<1>12. NodeDeps(r, s, below).introduced \subseteq
          UNION {below[j].introduced \cup NamesMade(r.ants[j]) : j \in DOMAIN r.ants}
  BY <1>7, <1>8, <1>9, OwnNode
<1>13. NodeDeps(r, s, below).introduced \subseteq NamesFrom(k, p) BY <1>8, <1>12
<1> QED BY <1>3, <1>10, <1>11, <1>13 DEF s, k
-----------------------------------------------------------------------------
(* Truth.                                                                   *)

LEMMA HoldsFields ==
    ASSUME NEW i \in Ident, NEW carrier, NEW sets, NEW values
    PROVE  /\ Holds(In(i), carrier, sets, values) <=> values[i.name] \in sets[i.ty]
           /\ Holds(All(i.ty), carrier, sets, values) <=> sets[i.ty] = carrier
           /\ Holds(Ex(i.ty), carrier, sets, values) <=> sets[i.ty] # {}
BY DEF Holds, In, All, Ex

(* A predicate does not tell apart values that differ elsewhere.             *)
LEMMA HoldsElsewhere ==
    ASSUME NEW p \in Pred, NEW n \in Name, n \notin Names(Free(p)),
           NEW carrier, NEW sets, NEW values \in [Name -> carrier], NEW v \in carrier
    PROVE  Holds(p, carrier, sets, [values EXCEPT ![n] = v]) <=> Holds(p, carrier, sets, values)
<1> DEFINE changed == [values EXCEPT ![n] = v]
<1>1. CASE \E i \in Ident : p = In(i)
  <2>1. PICK i \in Ident : p = In(i) BY <1>1
  <2>2. i.name # n BY <2>1, PredIn DEF Names
  <2>3. changed[i.name] = values[i.name] BY <2>2 DEF Ident
  <2> HIDE DEF changed
  <2> QED BY <2>1, <2>3, HoldsFields DEF changed
<1>2. CASE \E t \in Type : p = All(t) \/ p = Ex(t) BY <1>2 DEF Holds, All, Ex
<1> QED BY <1>1, <1>2 DEF Pred

(* Nothing said in a sequent is about a name its environment leaves free.    *)
LEMMA FreshUnsaid ==
    ASSUME NEW s, WellFormed(s), NEW n, n \notin Names(s.env)
    PROVE  \A p \in s.hyps \cup {s.goal} : p \in Pred /\ n \notin Names(Free(p))
<1>1. \A p \in s.hyps \cup {s.goal} : Free(p) \subseteq s.env BY DEF WellFormed, Typed
<1>2. \A p \in s.hyps \cup {s.goal} : Names(Free(p)) \subseteq Names(s.env) BY <1>1 DEF Names
<1> QED BY <1>2 DEF WellFormed, Sequent

LEMMA EntailsMore ==
    ASSUME NEW hyps, NEW more, hyps \subseteq more, NEW goal, NEW z, Entails(hyps, goal, z)
    PROVE  Entails(more, goal, z)
BY DEF Entails

LEMMA GeneralizedEntails ==
    ASSUME NEW i \in Ident, NEW hyps, NEW z,
           \A h \in hyps : h \in Pred /\ i.name \notin Names(Free(h)),
           Entails(hyps, In(i), z)
    PROVE  Entails(hyps, All(i.ty), z)
<1> DEFINE carrier == 1 .. z
<1> SUFFICES ASSUME NEW sets \in [Type -> SUBSET carrier], NEW values \in [Name -> carrier],
                    \A h \in hyps : Holds(h, carrier, sets, values)
             PROVE  Holds(All(i.ty), carrier, sets, values)
  BY DEF Entails
<1>1. i.name \in Name /\ i.ty \in Type BY DEF Ident
<1>2. ASSUME NEW v \in carrier PROVE v \in sets[i.ty]
  <2> DEFINE changed == [values EXCEPT ![i.name] = v]
  <2>1. changed \in [Name -> carrier] OBVIOUS
  <2>2. changed[i.name] = v BY <1>1
  <2> HIDE DEF carrier
  <2>3. \A h \in hyps : Holds(h, carrier, sets, changed)
    BY <1>1, HoldsElsewhere
  <2> HIDE DEF changed
  <2>4. Holds(In(i), carrier, sets, changed) BY <2>1, <2>3 DEF Entails, carrier
  <2> QED BY <2>2, <2>4, HoldsFields
<1>3. sets[i.ty] = carrier BY <1>1, <1>2
<1> HIDE DEF carrier
<1> QED BY <1>3, HoldsFields

LEMMA InstantiatedEntails ==
    ASSUME NEW i \in Ident, NEW hyps, NEW goal, NEW z, Entails(hyps, goal, z)
    PROVE  Entails({All(i.ty)} \cup (hyps \ {In(i)}), goal, z)
<1> DEFINE carrier == 1 .. z
<1> SUFFICES ASSUME NEW sets \in [Type -> SUBSET carrier], NEW values \in [Name -> carrier],
                    \A h \in {All(i.ty)} \cup (hyps \ {In(i)}) : Holds(h, carrier, sets, values)
             PROVE  Holds(goal, carrier, sets, values)
  BY DEF Entails
<1> HIDE DEF carrier
<1>1. i.name \in Name BY DEF Ident
<1>2. sets[i.ty] = carrier BY HoldsFields
<1>3. Holds(In(i), carrier, sets, values) BY <1>1, <1>2, HoldsFields
<1>4. \A h \in hyps : Holds(h, carrier, sets, values) BY <1>3
<1> QED BY <1>4 DEF Entails, carrier

LEMMA WitnessedEntails ==
    ASSUME NEW i \in Ident, NEW hyps, NEW z, Entails(hyps, In(i), z)
    PROVE  Entails(hyps, Ex(i.ty), z)
<1> DEFINE carrier == 1 .. z
<1> SUFFICES ASSUME NEW sets \in [Type -> SUBSET carrier], NEW values \in [Name -> carrier],
                    \A h \in hyps : Holds(h, carrier, sets, values)
             PROVE  Holds(Ex(i.ty), carrier, sets, values)
  BY DEF Entails
<1> HIDE DEF carrier
<1>1. Holds(In(i), carrier, sets, values) BY DEF Entails, carrier
<1> QED BY <1>1, HoldsFields

LEMMA FreedEntails ==
    ASSUME NEW i \in Ident, NEW hyps, NEW goal, NEW z,
           \A h \in (hyps \ {In(i)}) \cup {goal} : h \in Pred /\ i.name \notin Names(Free(h)),
           Entails(hyps, goal, z)
    PROVE  Entails((hyps \ {In(i)}) \cup {Ex(i.ty)}, goal, z)
<1> DEFINE carrier == 1 .. z
<1> SUFFICES ASSUME NEW sets \in [Type -> SUBSET carrier], NEW values \in [Name -> carrier],
                    \A h \in (hyps \ {In(i)}) \cup {Ex(i.ty)} : Holds(h, carrier, sets, values)
             PROVE  Holds(goal, carrier, sets, values)
  BY DEF Entails
<1> HIDE DEF carrier
<1>1. i.name \in Name /\ i.ty \in Type BY DEF Ident
<1>2. PICK v : v \in sets[i.ty]
  <2>1. Holds(Ex(i.ty), carrier, sets, values) OBVIOUS
  <2>2. sets[i.ty] # {} BY <2>1, HoldsFields
  <2> QED BY <2>2
<1>3. v \in carrier BY <1>1, <1>2
<1> DEFINE changed == [values EXCEPT ![i.name] = v]
<1>4. changed \in [Name -> carrier] BY <1>3
<1>5. changed[i.name] = v BY <1>1
<1>6. \A h \in hyps \ {In(i)} : Holds(h, carrier, sets, changed)
  BY <1>1, <1>3, HoldsElsewhere
<1>7. Holds(goal, carrier, sets, changed) <=> Holds(goal, carrier, sets, values)
  BY <1>1, <1>3, HoldsElsewhere
<1> HIDE DEF changed
<1>8. Holds(In(i), carrier, sets, changed) BY <1>2, <1>5, HoldsFields
<1>9. \A h \in hyps : Holds(h, carrier, sets, changed) BY <1>6, <1>8
<1>10. Holds(goal, carrier, sets, changed) BY <1>4, <1>9 DEF Entails, carrier
<1> QED BY <1>7, <1>10

LEMMA CutEntails ==
    ASSUME NEW lemma, NEW one, NEW other, NEW goal, NEW z,
           Entails(one, lemma, z), Entails(other, goal, z)
    PROVE  Entails(one \cup (other \ {lemma}), goal, z)
<1> DEFINE carrier == 1 .. z
<1> SUFFICES ASSUME NEW sets \in [Type -> SUBSET carrier], NEW values \in [Name -> carrier],
                    \A h \in one \cup (other \ {lemma}) : Holds(h, carrier, sets, values)
             PROVE  Holds(goal, carrier, sets, values)
  BY DEF Entails
<1> HIDE DEF carrier
<1>1. Holds(lemma, carrier, sets, values) BY DEF Entails, carrier
<1>2. \A h \in other : Holds(h, carrier, sets, values) BY <1>1
<1> QED BY <1>2 DEF Entails, carrier
-----------------------------------------------------------------------------
(* What a node above the reviewed range needs of its sequent entails the     *)
(* goal, unless a step in Bad was used.                                     *)

Sound(r, Bad, z) ==
    /\ r.conf > REVIEWED_MAX
    /\ r.desc.id \in External => r.desc \in Bad \/ Entails(r.needed, r.goal, z)

Proves(d, s, Bad, z) ==
    /\ d.goal = s.goal
    /\ d.reasoners \cap Bad = {} => Entails(d.hyps, s.goal, z)

LEMMA ChildGoal ==
    ASSUME NEW s, WellFormed(s), NEW r, Formed(r), Applies(r, s), NEW j \in DOMAIN r.ants
    PROVE  /\ GenSequent(r, j, s).seq.goal =
                 IF r.ants[j].goal = Null THEN Inherited(r, s) ELSE r.ants[j].goal
           /\ GenSequent(r, j, s).seq.goal \in Pred
           /\ r.ants[j].goal = Null => r.goal = Null
<1> DEFINE start == Instance0(r.ants[j], s, Inherited(r, s))
<1>1. r.ants[j] \in AntecedentRecord BY AntecedentsFormed
<1>2. Inherited(r, s) \in Pred \cup {Null} BY InheritedIsPred
<1>3. start # Null BY DEF Applies
<1>4. /\ start.goal = IF r.ants[j].goal = Null THEN Inherited(r, s) ELSE r.ants[j].goal
      /\ start.goal \in Pred
  BY <1>1, <1>2, <1>3, StartFields
<1>5. GenSequent(r, j, s).seq.goal = start.goal BY ChildGrows
<1>6. r.goal # Null => Inherited(r, s) = Null BY DEF Inherited
<1> HIDE DEF start
<1> QED BY <1>4, <1>5, <1>6, NullAssumption

LEMMA PlainSub ==
    ASSUME NEW s, WellFormed(s), NEW r, Formed(r), Applies(r, s),
           NEW below \in [DOMAIN r.ants -> DepsRecord], NEW j \in DOMAIN r.ants,
           Plain(r.ants[j])
    PROVE  PlainlyThrough(r.ants[j], below[j], Through(r, s, below, j))
<1>1. r.ants[j] \in AntecedentRecord BY AntecedentsFormed
<1>2. Fired(r, j, s) = {} BY PlainFiresNot
<1>3. Through(r, s, below, j) = ThroughAntecedent(r.ants[j], {}, below[j])
  BY <1>2 DEF Through
<1>4. PICK sub \in DepsRecord : sub = below[j] OBVIOUS
<1>5. PlainlyThrough(r.ants[j], sub, ThroughAntecedent(r.ants[j], {}, sub))
  BY <1>1, PlainThrough
<1> QED BY <1>3, <1>4, <1>5

LEMMA FreeingSub ==
    ASSUME NEW s, WellFormed(s), NEW r, Formed(r), Applies(r, s),
           NEW below \in [DOMAIN r.ants -> DepsRecord], NEW j \in DOMAIN r.ants,
           NEW i \in Ident, r.ants[j] = Freeing(i), r.goal = Null
    PROVE  LET used == Fires(i, s) /\ (In(i) \in below[j].hyps \/ i \in below[j].idents) IN
           FreedThrough(i, used, below[j], Through(r, s, below, j))
<1>1. Fired(r, j, s) = IF Fires(i, s) THEN {1} ELSE {} BY FreeingChild
<1>2. PICK fired \in {{}, {1}} : fired = Fired(r, j, s) BY <1>1
<1>3. PICK sub \in DepsRecord : sub = below[j] OBVIOUS
<1>4. Through(r, s, below, j) = ThroughAntecedent(Freeing(i), fired, sub)
  BY <1>2, <1>3 DEF Through
<1>5. FreedThrough(i, Used(i, fired, sub), sub, ThroughAntecedent(Freeing(i), fired, sub))
  BY FreeingThrough
<1>6. fired = {1} <=> Fires(i, s) BY <1>1, <1>2
<1>7. CASE Used(i, fired, sub)
  <2>1. Fires(i, s) /\ (In(i) \in below[j].hyps \/ i \in below[j].idents)
    BY <1>3, <1>6, <1>7 DEF Used
  <2>2. FreedThrough(i, TRUE, sub, ThroughAntecedent(Freeing(i), fired, sub))
    BY <1>5, <1>7 DEF FreedThrough
  <2> QED BY <1>3, <1>4, <2>1, <2>2 DEF FreedThrough
<1>8. CASE ~ Used(i, fired, sub)
  <2>1. ~ (Fires(i, s) /\ (In(i) \in below[j].hyps \/ i \in below[j].idents))
    BY <1>3, <1>6, <1>8 DEF Used
  <2>2. FreedThrough(i, FALSE, sub, ThroughAntecedent(Freeing(i), fired, sub))
    BY <1>5, <1>8 DEF FreedThrough
  <2> QED BY <1>3, <1>4, <2>1, <2>2 DEF FreedThrough
<1> QED BY <1>7, <1>8

(* The first antecedent of a rule that has one or two.                       *)
LEMMA FirstOf ==
    ASSUME NEW r, NEW x, r.ants = << x >> \/ \E y : r.ants = << x, y >>
    PROVE  1 \in DOMAIN r.ants /\ r.ants[1] = x
OBVIOUS

LEMMA ProvesNode ==
    ASSUME NEW s, WellFormed(s), NEW r, Formed(r), Applies(r, s),
           NEW below \in [DOMAIN r.ants -> DepsRecord], NEW Bad, NEW z,
           Sound(r, Bad, z),
           \A j \in DOMAIN r.ants : /\ Own(below[j], GenSequent(r, j, s).seq)
                                    /\ Proves(below[j], GenSequent(r, j, s).seq, Bad, z)
    PROVE  Proves(NodeDeps(r, s, below), s, Bad, z)
<1> DEFINE d == NodeDeps(r, s, below)
           sub(j) == Through(r, s, below, j)
           inheriting == {j \in DOMAIN r.ants : r.ants[j].goal = Null}
           child(j) == GenSequent(r, j, s).seq
<1>1. /\ \/ r.goal # Null /\ d.goal = r.goal
         \/ r.goal = Null /\ d.goal = Null /\ \A j \in inheriting : below[j].goal = Null
         \/ /\ r.goal = Null /\ d.goal # Null
            /\ \E j \in inheriting : d.goal = below[j].goal
      /\ d.hyps = r.needed \cup UNION {sub(j).hyps : j \in DOMAIN r.ants}
      /\ d.reasoners = {r.desc} \cup UNION {below[j].reasoners : j \in DOMAIN r.ants}
  BY NodeDepsFields
<1>2. r.goal \in {Null, s.goal} BY DEF Applies
<1>3. s.goal \in Pred /\ s.goal # Null BY NullAssumption DEF WellFormed, Sequent
<1>4. ASSUME NEW j \in DOMAIN r.ants
      PROVE  /\ child(j).goal = IF r.ants[j].goal = Null THEN Inherited(r, s) ELSE r.ants[j].goal
             /\ below[j].goal = child(j).goal
             /\ d.reasoners \cap Bad = {} => Entails(below[j].hyps, child(j).goal, z)
             /\ sub(j).hyps \subseteq d.hyps
             /\ below[j].hyps \subseteq child(j).hyps
  <2>1. child(j).goal = IF r.ants[j].goal = Null THEN Inherited(r, s) ELSE r.ants[j].goal
    BY ChildGoal
  <2>2. Own(below[j], child(j)) /\ Proves(below[j], child(j), Bad, z) OBVIOUS
  <2> HIDE DEF child, d, sub
  <2> QED BY <1>1, <2>1, <2>2 DEF Proves, Own
<1>13. ASSUME NEW j \in DOMAIN r.ants, Plain(r.ants[j])
       PROVE  /\ sub(j).hyps = below[j].hyps \ r.ants[j].added
              /\ child(j).hyps = s.hyps \cup r.ants[j].added
              /\ Fresh(r.ants[j].idents, s.env)
  <2>1. PlainlyThrough(r.ants[j], below[j], sub(j)) BY <1>13, PlainSub
  <2>2. sub(j).hyps = below[j].hyps \ r.ants[j].added BY <2>1 DEF PlainlyThrough
  <2>3. child(j).hyps = s.hyps \cup r.ants[j].added /\ Fresh(r.ants[j].idents, s.env)
    BY <1>13, PlainChild
  <2> QED BY <2>2, <2>3
<1>5. r.goal = Null => Inherited(r, s) = s.goal BY DEF Inherited
<1>6. ASSUME NEW p, NEW hyps, hyps \subseteq d.hyps, Entails(hyps, p, z), p = s.goal
      PROVE  Entails(d.hyps, s.goal, z)
  BY <1>6, EntailsMore
<1> HIDE DEF d, sub, child
<1>7. ASSUME r.goal # Null \/ inheriting # {} PROVE d.goal = s.goal
  BY <1>1, <1>2, <1>3, <1>4, <1>5, <1>7
<1>8. ASSUME d.goal = s.goal, d.reasoners \cap Bad = {} => Entails(d.hyps, s.goal, z)
      PROVE  Proves(NodeDeps(r, s, below), s, Bad, z)
  BY <1>8 DEF Proves, d
<1>9. CASE Closing(r)
  <2>1. r.goal = s.goal /\ d.goal = s.goal
    BY <1>2, <1>3, <1>7, <1>9, NullAssumption DEF Closing
  <2>2. ASSUME d.reasoners \cap Bad = {} PROVE Entails(d.hyps, s.goal, z)
    <3>1. r.needed \subseteq d.hyps /\ r.desc \notin Bad BY <1>1, <2>2
    <3>2. Entails({s.goal}, s.goal, z) BY DEF Entails
    <3>3. CASE r.needed = {r.goal} BY <1>6, <2>1, <3>1, <3>2, <3>3
    <3>4. CASE r.desc.id \in External BY <1>6, <2>1, <3>1, <3>4 DEF Sound
    <3>5. ~ (r.conf <= REVIEWED_MAX)
      <4>1. r \in ProofRule BY DEF Formed
      <4>2. r.conf \in 0 .. DISCHARGED_MAX BY <4>1 DEF ProofRule
      <4>3. r.conf > REVIEWED_MAX BY DEF Sound
      <4> QED BY <4>2, <4>3 DEF REVIEWED_MAX, DISCHARGED_MAX
    <3> QED BY <1>9, <3>3, <3>4, <3>5 DEF Closing
  <2> QED BY <1>8, <2>1, <2>2
<1>10. ASSUME NEW i \in Ident, Introducing(r, i)
       PROVE  Proves(NodeDeps(r, s, below), s, Bad, z)
  <2>1. CASE r.ants = << Antecedent(In(i), {}, {i}, << >>) >> /\ r.goal = All(i.ty)
    <3>1. 1 \in DOMAIN r.ants /\ r.ants[1] = Antecedent(In(i), {}, {i}, << >>)
      BY <2>1, FirstOf
    <3>2. /\ r.ants[1].goal = In(i) /\ r.ants[1].added = {} /\ r.ants[1].idents = {i}
          /\ Plain(r.ants[1])
      BY <3>1, AntecedentFields DEF Plain
    <3>3. r.goal # Null /\ In(i) # Null BY <2>1, PredIn, NullAssumption
    <3>4. /\ child(1).hyps = s.hyps \cup {} /\ Fresh({i}, s.env)
      BY <1>13, <3>1, <3>2
    <3>5. sub(1).hyps = below[1].hyps \ {}
      BY <3>1, <3>2, <1>13
    <3>6. child(1).goal = In(i) BY <1>4, <3>1, <3>2, <3>3
    <3>7. i.name \notin Names(s.env) BY <3>4 DEF Fresh
    <3>8. \A h \in below[1].hyps : h \in Pred /\ i.name \notin Names(Free(h))
      BY <1>4, <3>1, <3>4, <3>7, FreshUnsaid
    <3>9. d.goal = s.goal /\ s.goal = All(i.ty) BY <1>2, <1>3, <1>7, <2>1, <3>3
    <3>10. ASSUME d.reasoners \cap Bad = {} PROVE Entails(d.hyps, s.goal, z)
      <4>1. Entails(below[1].hyps, In(i), z) BY <1>4, <3>1, <3>6, <3>10
      <4>2. Entails(below[1].hyps, All(i.ty), z) BY <3>8, <4>1, GeneralizedEntails
      <4>3. below[1].hyps \subseteq d.hyps BY <1>4, <3>1, <3>5
      <4> QED BY <1>6, <3>9, <4>2, <4>3
    <3> QED BY <1>8, <3>9, <3>10
  <2>2. CASE r.ants = << Antecedent(In(i), {}, {}, << >>) >> /\ r.goal = Ex(i.ty)
    <3>1. 1 \in DOMAIN r.ants /\ r.ants[1] = Antecedent(In(i), {}, {}, << >>)
      BY <2>2, FirstOf
    <3>2. /\ r.ants[1].goal = In(i) /\ r.ants[1].added = {} /\ Plain(r.ants[1])
      BY <3>1, AntecedentFields DEF Plain
    <3>3. r.goal # Null /\ In(i) # Null BY <2>2, PredIn, NullAssumption
    <3>4. sub(1).hyps = below[1].hyps \ {}
      BY <3>1, <3>2, <1>13
    <3>5. child(1).goal = In(i) BY <1>4, <3>1, <3>2, <3>3
    <3>6. d.goal = s.goal /\ s.goal = Ex(i.ty) BY <1>2, <1>3, <1>7, <2>2, <3>3
    <3>7. ASSUME d.reasoners \cap Bad = {} PROVE Entails(d.hyps, s.goal, z)
      <4>1. Entails(below[1].hyps, In(i), z) BY <1>4, <3>1, <3>5, <3>7
      <4>2. Entails(below[1].hyps, Ex(i.ty), z) BY <4>1, WitnessedEntails
      <4>3. below[1].hyps \subseteq d.hyps BY <1>4, <3>1, <3>4
      <4> QED BY <1>6, <3>6, <4>2, <4>3
    <3> QED BY <1>8, <3>6, <3>7
  <2>3. CASE /\ r.goal = Null /\ r.needed = {All(i.ty)}
             /\ r.ants = << Antecedent(Null, {In(i)}, {},
                                       << [kind |-> "deselect", hyps |-> {All(i.ty)}] >>) >>
    <3> DEFINE a == [kind |-> "deselect", hyps |-> {All(i.ty)}]
    <3>1. a \in SelectionAction BY ActionsFormed
    <3>2. r.ants = << Antecedent(Null, {In(i)}, {}, << a >>) >> BY <2>3
    <3> HIDE DEF a
    <3>3. 1 \in DOMAIN r.ants /\ r.ants[1] = Antecedent(Null, {In(i)}, {}, << a >>)
      BY <3>2, FirstOf
    <3>4. /\ r.ants[1].goal = Null /\ r.ants[1].added = {In(i)} /\ Plain(r.ants[1])
      BY <3>1, <3>3, AntecedentFields DEF Plain
    <3>5. sub(1).hyps = below[1].hyps \ {In(i)}
      BY <3>3, <3>4, <1>13
    <3>6. child(1).goal = s.goal BY <1>4, <1>5, <2>3, <3>3, <3>4
    <3>7. d.goal = s.goal BY <1>7, <3>3, <3>4
    <3>8. ASSUME d.reasoners \cap Bad = {} PROVE Entails(d.hyps, s.goal, z)
      <4>1. Entails(below[1].hyps, s.goal, z) BY <1>4, <3>3, <3>6, <3>8
      <4>2. Entails({All(i.ty)} \cup (below[1].hyps \ {In(i)}), s.goal, z)
        BY <4>1, InstantiatedEntails
      <4>3. {All(i.ty)} \cup (below[1].hyps \ {In(i)}) \subseteq d.hyps
        BY <1>1, <1>4, <2>3, <3>3, <3>5
      <4> QED BY <1>6, <4>2, <4>3
    <3> QED BY <1>8, <3>7, <3>8
  <2>4. CASE r.goal = Null /\ r.ants = << Freeing(i) >>
    <3>1. 1 \in DOMAIN r.ants /\ r.ants[1] = Freeing(i) BY <2>4, FirstOf
    <3>2. r.ants[1].goal = Null BY <3>1 DEF Freeing, Antecedent
    <3> DEFINE used == Fires(i, s) /\ (In(i) \in below[1].hyps \/ i \in below[1].idents)
    <3>3. FreedThrough(i, used, below[1], sub(1)) BY <2>4, <3>1, FreeingSub DEF sub
    <3>4. child(1).hyps = IF Fires(i, s) THEN s.hyps \cup {In(i)} ELSE s.hyps
      BY <2>4, <3>1, FreeingChild DEF child
    <3>5. child(1).goal = s.goal BY <1>4, <1>5, <2>4, <3>1, <3>2
    <3>6. d.goal = s.goal BY <1>7, <3>1, <3>2
    <3>7. ASSUME d.reasoners \cap Bad = {} PROVE Entails(d.hyps, s.goal, z)
      <4>1. Entails(below[1].hyps, s.goal, z) BY <1>4, <3>1, <3>5, <3>7
      <4>2. CASE used
        <5>1. sub(1).hyps = (below[1].hyps \ {In(i)}) \cup {Ex(i.ty)}
          BY <3>3, <4>2 DEF FreedThrough
        <5>2. i.name \notin Names(s.env) BY <4>2 DEF Fires
        <5>3. below[1].hyps \ {In(i)} \subseteq s.hyps BY <1>4, <3>1, <3>4, <4>2
        <5>4. \A h \in (below[1].hyps \ {In(i)}) \cup {s.goal} :
                 h \in Pred /\ i.name \notin Names(Free(h))
          BY <5>2, <5>3, FreshUnsaid
        <5>5. Entails(sub(1).hyps, s.goal, z) BY <4>1, <5>1, <5>4, FreedEntails
        <5>6. sub(1).hyps \subseteq d.hyps BY <1>4, <3>1
        <5> QED BY <1>6, <5>5, <5>6
      <4>3. CASE ~ used
        <5>1. sub(1).hyps = below[1].hyps BY <3>3, <4>3 DEF FreedThrough
        <5>2. sub(1).hyps \subseteq d.hyps BY <1>4, <3>1
        <5> QED BY <1>6, <4>1, <5>1, <5>2
      <4> QED BY <4>2, <4>3
    <3> QED BY <1>8, <3>6, <3>7
  <2> QED BY <1>10, <2>1, <2>2, <2>3, <2>4 DEF Introducing
<1>11. ASSUME NEW lemma \in Pred, Cutting(r, lemma)
       PROVE  Proves(NodeDeps(r, s, below), s, Bad, z)
  <2> DEFINE one == Antecedent(lemma, {}, {}, << >>)
             two == Antecedent(Null, {lemma}, {}, << >>)
  <2>1. r.goal = Null /\ r.ants = << one, two >> BY <1>11 DEF Cutting
  <2>2. /\ one.goal = lemma /\ one.added = {} /\ Plain(one)
        /\ two.goal = Null /\ two.added = {lemma} /\ Plain(two)
    BY AntecedentFields DEF Plain
  <2> HIDE DEF one, two
  <2>3. /\ 1 \in DOMAIN r.ants /\ r.ants[1] = one
        /\ 2 \in DOMAIN r.ants /\ r.ants[2] = two
    BY <2>1
  <2>4. lemma # Null BY NullAssumption
  <2>5. sub(1).hyps = below[1].hyps \ {} BY <2>2, <2>3, <1>13
  <2>6. sub(2).hyps = below[2].hyps \ {lemma} BY <2>2, <2>3, <1>13
  <2>7. child(1).goal = lemma BY <1>4, <2>2, <2>3, <2>4
  <2>8. child(2).goal = s.goal BY <1>4, <1>5, <2>1, <2>2, <2>3
  <2>9. d.goal = s.goal BY <1>7, <2>2, <2>3
  <2>10. ASSUME d.reasoners \cap Bad = {} PROVE Entails(d.hyps, s.goal, z)
    <3>1. Entails(below[1].hyps, lemma, z) BY <1>4, <2>3, <2>7, <2>10
    <3>2. Entails(below[2].hyps, s.goal, z) BY <1>4, <2>3, <2>8, <2>10
    <3>3. Entails(below[1].hyps \cup (below[2].hyps \ {lemma}), s.goal, z)
      BY <3>1, <3>2, CutEntails
    <3>4. below[1].hyps \cup (below[2].hyps \ {lemma}) \subseteq d.hyps
      BY <1>4, <2>3, <2>5, <2>6
    <3> QED BY <1>6, <3>3, <3>4
  <2> QED BY <1>8, <2>9, <2>10
<1>12. ASSUME NEW a \in SelectionAction, Managing(r, a)
       PROVE  Proves(NodeDeps(r, s, below), s, Bad, z)
  <2>1. r.goal = Null /\ r.ants = << Antecedent(Null, {}, {}, << a >>) >>
    BY <1>12 DEF Managing
  <2>2. 1 \in DOMAIN r.ants /\ r.ants[1] = Antecedent(Null, {}, {}, << a >>)
    BY <2>1, FirstOf
  <2>3. r.ants[1].goal = Null /\ r.ants[1].added = {} /\ Plain(r.ants[1])
    BY <2>2, AntecedentFields DEF Plain
  <2>4. sub(1).hyps = below[1].hyps \ {} BY <2>2, <2>3, <1>13
  <2>5. child(1).goal = s.goal BY <1>4, <1>5, <2>1, <2>2, <2>3
  <2>6. d.goal = s.goal BY <1>7, <2>2, <2>3
  <2>7. ASSUME d.reasoners \cap Bad = {} PROVE Entails(d.hyps, s.goal, z)
    <3>1. Entails(below[1].hyps, s.goal, z) BY <1>4, <2>2, <2>5, <2>7
    <3>2. below[1].hyps \subseteq d.hyps BY <1>4, <2>2, <2>4
    <3> QED BY <1>6, <3>1, <3>2
  <2> QED BY <1>8, <2>6, <2>7
<1> QED BY <1>9, <1>10, <1>11, <1>12 DEF Formed
LEMMA TreeProves ==
    ASSUME NEW t, TreeOK(t), NEW Bad, NEW z,
           \A p \in DOMAIN t : t[p].rule # Null /\ Sound(t[p].rule, Bad, z)
    PROVE  \A p \in DOMAIN t : Proves(DepsOf(t)[p], t[p].seq, Bad, z)
<1> DEFINE Good(p) == Proves(DepsOf(t)[p], t[p].seq, Bad, z)
           B == {p \in DOMAIN t : ~ Good(p)}
<1> SUFFICES ASSUME B # {} PROVE FALSE
  OBVIOUS
<1>1. B \in SUBSET DOMAIN t OBVIOUS
<1>2. PICK p \in B : \A i \in Nat : Append(p, i) \notin B
  <2> HIDE DEF B
  <2> QED BY <1>1, Topmost
<1>3. p \in DOMAIN t /\ ~ Good(p) BY <1>2
<1>4. NodeOK(t, p) /\ t[p].rule # Null BY <1>3 DEF TreeOK
<1> DEFINE r == t[p].rule
           s == t[p].seq
           below == Below(t, DepsOf(t), p)
<1>5. Formed(r) /\ Applies(r, s) /\ WellFormed(s) BY <1>4 DEF NodeOK
<1>6. ASSUME NEW j \in DOMAIN r.ants
      PROVE  /\ below[j] \in DepsRecord
             /\ Own(below[j], GenSequent(r, j, s).seq)
             /\ Proves(below[j], GenSequent(r, j, s).seq, Bad, z)
  <2>1. Append(p, j) \in DOMAIN t /\ t[Append(p, j)].seq = GenSequent(r, j, s).seq
    BY <1>4 DEF NodeOK
  <2>2. j \in Nat BY <1>5, RuleIndices
  <2>3. Append(p, j) \notin B BY <1>2, <2>2
  <2>4. Good(Append(p, j)) BY <2>1, <2>3
  <2>5. below[j] = DepsOf(t)[Append(p, j)] BY DEF Below
  <2>6. Own(DepsOf(t)[Append(p, j)], t[Append(p, j)].seq) BY <2>1, TreeOwn
  <2>7. DepsOf(t)[Append(p, j)] \in DepsRecord BY <2>1, DepsType
  <2> HIDE DEF below, B
  <2> QED BY <2>1, <2>4, <2>5, <2>6, <2>7
<1>7. below \in [DOMAIN r.ants -> DepsRecord] BY <1>6 DEF Below
<1>8. DepsOf(t)[p] = NodeDeps(r, s, below) BY <1>3, <1>4, DepsFields
<1>9. Sound(r, Bad, z) BY <1>3
<1> HIDE DEF r, s, below
<1>10. Proves(NodeDeps(r, s, below), s, Bad, z) BY <1>5, <1>6, <1>7, <1>9, ProvesNode
<1> QED BY <1>3, <1>8, <1>10 DEF s

(* The confidence of a tree is that of a node, and no other has less.        *)
LEMMA ConfidenceLeast ==
    ASSUME NEW t, TreeOK(t)
    PROVE  /\ Confidence(t) \in Nat
           /\ \A p \in DOMAIN t : Confidence(t) <= NodeConfidence(t[p])
<1> DEFINE all == {NodeConfidence(t[p]) : p \in DOMAIN t}
<1>1. ASSUME NEW p \in DOMAIN t PROVE NodeConfidence(t[p]) \in Nat
  <2>1. NodeOK(t, p) BY DEF TreeOK
  <2>2. CASE t[p].rule = Null BY <2>2 DEF NodeConfidence, PENDING
  <2>3. CASE t[p].rule # Null
    <3>1. t[p].rule.conf \in Nat BY <2>1, <2>3, RuleFields DEF NodeOK
    <3> QED BY <2>3, <3>1 DEF NodeConfidence
  <2> QED BY <2>2, <2>3
<1>2. all \in SUBSET Nat BY <1>1
<1>3. all # {} BY DEF TreeOK, Placed
<1> DEFINE Least(m) == \A k \in all : m <= k
<1>4. \E m \in all : Least(m)
  <2> HIDE DEF all
  <2> QED BY <1>2, <1>3, LowestNat
<1>5. Confidence(t) = CHOOSE m \in all : Least(m) BY DEF Confidence
<1>6. Confidence(t) \in all /\ Least(Confidence(t))
  <2> HIDE DEF all, Least
  <2> QED BY <1>4, <1>5
<1> QED BY <1>2, <1>6

LEMMA ConfidentNodes ==
    ASSUME NEW t, TreeOK(t), Confidence(t) > REVIEWED_MAX
    PROVE  \A p \in DOMAIN t : t[p].rule # Null /\ t[p].rule.conf > REVIEWED_MAX
<1> SUFFICES ASSUME NEW p \in DOMAIN t
             PROVE  t[p].rule # Null /\ t[p].rule.conf > REVIEWED_MAX
  OBVIOUS
<1>1. Confidence(t) \in Nat /\ Confidence(t) <= NodeConfidence(t[p]) BY ConfidenceLeast
<1>2. NodeOK(t, p) BY DEF TreeOK
<1>3. CASE t[p].rule = Null
  <2>1. NodeConfidence(t[p]) = 0 BY <1>3 DEF NodeConfidence, PENDING
  <2> QED BY <1>1, <2>1 DEF REVIEWED_MAX
<1>4. CASE t[p].rule # Null
  <2>2. t[p].rule.conf \in Nat BY <1>2, <1>4, RuleFields DEF NodeOK
  <2>3. NodeConfidence(t[p]) = t[p].rule.conf BY <1>4 DEF NodeConfidence
  <2> QED BY <1>1, <1>4, <2>2, <2>3 DEF REVIEWED_MAX
<1> QED BY <1>3, <1>4
-----------------------------------------------------------------------------
(* A sequent that has what a node needs.                                     *)

Meets(d, s) ==
    /\ d.goal \in {Null, s.goal}
    /\ d.hyps \subseteq s.hyps
    /\ d.idents \subseteq s.env
    /\ d.introduced \cap Names(s.env) = {}

(* An antecedent can be begun where its names are fresh and it is typed.     *)
LEMMA ModifySucceeds ==
    ASSUME NEW s, WellFormed(s), NEW ant \in AntecedentRecord, ant.unsel = {},
           NEW inherited \in Pred \cup {Null},
           ant.goal = Null => inherited # Null,
           Fresh(ant.idents, s.env),
           Typed(ant.added, s.env \cup ant.idents),
           ant.goal = Null => Typed({inherited}, s.env \cup ant.idents),
           ant.goal # Null => Typed({ant.goal}, s.env \cup ant.idents)
    PROVE  Instance0(ant, s, inherited) # Null
<1> DEFINE goal == IF ant.goal = Null THEN inherited ELSE ant.goal
           env == s.env \cup ant.idents
           t == [s EXCEPT !.env = env, !.hyps = @ \cup ant.added, !.goal = goal,
                          !.selected = @ \cup (ant.added \ ant.unsel), !.hidden = @ \ ant.added]
<1>1. goal \in Pred /\ goal # Null BY NullAssumption DEF AntecedentRecord
<1>2. Typed({goal}, env) OBVIOUS
<1> HIDE DEF goal
<1>3. Typed(ant.added \cup {goal}, env) BY <1>2 DEF Typed
<1>4. Instance0(ant, s, inherited) = Modify(s, ant.idents, ant.added, ant.unsel, goal)
  BY <1>1 DEF Instance0, goal
<1>5. Modify(s, ant.idents, ant.added, ant.unsel, goal) = t BY <1>3 DEF Modify
<1>6. s \in Sequent BY DEF WellFormed
<1>7. /\ ant.idents \in SUBSET Ident /\ ant.added \in SUBSET Pred /\ ant.unsel \in SUBSET Pred
  BY DEF AntecedentRecord
<1>8. t \in Sequent BY <1>1, <1>6, <1>7 DEF Sequent
<1>9. t # Null BY <1>8, NullAssumption
<1> QED BY <1>4, <1>5, <1>9

LEMMA FreeOfMember ==
    ASSUME NEW preds, NEW env, FreeOf(preds) \subseteq env
    PROVE  Typed(preds, env)
BY DEF FreeOf, Typed

(* What meets the needs of a node lets its rule apply.                       *)
LEMMA MeetsApplies ==
    ASSUME NEW s, WellFormed(s), NEW r, Formed(r), Applies(r, s),
           NEW below \in [DOMAIN r.ants -> DepsRecord],
           NEW u, WellFormed(u), Meets(NodeDeps(r, s, below), u)
    PROVE  Applies(r, u)
<1> DEFINE d == NodeDeps(r, s, below)
           sub(j) == Through(r, s, below, j)
<1>1. /\ r.goal # Null => d.goal = r.goal
      /\ d.hyps = r.needed \cup UNION {sub(j).hyps : j \in DOMAIN r.ants}
      /\ \A j \in DOMAIN r.ants : sub(j).idents \subseteq d.idents
      /\ d.introduced = UNION {sub(j).introduced : j \in DOMAIN r.ants}
  BY NodeDepsFields
<1>2. /\ d.goal \in {Null, u.goal} /\ d.hyps \subseteq u.hyps
      /\ d.idents \subseteq u.env /\ d.introduced \cap Names(u.env) = {}
  BY DEF Meets
<1>3. u.goal \in Pred /\ Typed({u.goal}, u.env) BY DEF WellFormed, Sequent, Typed
<1> HIDE DEF d
<1>4. r.needed \subseteq u.hyps /\ r.goal \in {Null, u.goal} BY <1>1, <1>2
<1>5. ASSUME NEW j \in DOMAIN r.ants
      PROVE  Instance0(r.ants[j], u, Inherited(r, u)) # Null
  <2> DEFINE ant == r.ants[j]
             env == u.env \cup ant.idents
  <2>1. ant \in AntecedentRecord BY AntecedentsFormed
  <2>2. Inherited(r, u) \in Pred \cup {Null} BY InheritedIsPred
  <2>3. ant.goal = Null => Inherited(r, u) = u.goal BY ChildGoal DEF Inherited
  <2>4. ant.goal = Null => Inherited(r, u) # Null BY <1>3, <2>3, NullAssumption
  <2>5. ant.goal = Null => Typed({Inherited(r, u)}, env) BY <1>3, <2>3, TypedGrows
  <2>6. sub(j).idents \subseteq u.env /\ sub(j).introduced \cap Names(u.env) = {}
    BY <1>1, <1>2
  <2>7. /\ ant.unsel = {} /\ Fresh(ant.idents, u.env) /\ Typed(ant.added, env)
        /\ ant.goal # Null => Typed({ant.goal}, env)
    <3>1. CASE Plain(ant)
      <4> DEFINE goals == IF ant.goal = Null THEN {} ELSE {ant.goal}
      <4>1. PlainlyThrough(ant, below[j], sub(j)) BY <3>1, PlainSub
      <4> HIDE DEF sub
      <4>2. /\ sub(j).idents = (below[j].idents \cup FreeOf(goals) \cup FreeOf(ant.added))
                                  \ ant.idents
            /\ sub(j).introduced = below[j].introduced \cup Names(ant.idents)
        BY <4>1 DEF PlainlyThrough
      <4>3. FreeOf(goals) \subseteq env /\ FreeOf(ant.added) \subseteq env
        <5> HIDE DEF goals, ant
        <5> QED BY <2>6, <4>2
      <4>4. Typed(goals, env) /\ Typed(ant.added, env)
        <5> HIDE DEF goals, ant, env
        <5> QED BY <4>3, FreeOfMember
      <4>5. Fresh(ant.idents, s.env) BY <3>1, PlainChild
      <4>6. Names(ant.idents) \cap Names(u.env) = {} BY <2>6, <4>2
      <4>7. Fresh(ant.idents, u.env) BY <4>5, <4>6 DEF Fresh, Names
      <4>8. ant.unsel = {} BY <3>1 DEF Plain
      <4> QED BY <4>4, <4>7, <4>8
    <3>2. ASSUME NEW i \in Ident, ant = Freeing(i)
          PROVE  /\ ant.unsel = {} /\ Fresh(ant.idents, u.env) /\ Typed(ant.added, env)
                 /\ ant.goal # Null => Typed({ant.goal}, env)
      <4>1. ant.unsel = {} /\ ant.idents = {} /\ ant.added = {} /\ ant.goal = Null
        BY <3>2 DEF Freeing, Antecedent
      <4> HIDE DEF ant
      <4> QED BY <4>1 DEF Fresh, Typed
    <3> QED BY <3>1, <3>2, AntecedentsFormed
  <2> HIDE DEF ant
  <2>8. Instance0(ant, u, Inherited(r, u)) # Null
    BY <2>1, <2>2, <2>4, <2>5, <2>7, ModifySucceeds
  <2> QED BY <2>8 DEF ant
<1> QED BY <1>4, <1>5 DEF Applies
(* A child binds what its parent does, and what its antecedent makes.        *)
LEMMA FreedNameMade ==
    ASSUME NEW i \in Ident
    PROVE  i.name \in NamesMade(Freeing(i))
<1> DEFINE a == Freeing(i).actions[1]
<1>1. a.idents = {i} /\ Infers(a) /\ 1 \in DOMAIN Freeing(i).actions
  BY DEF Freeing, Antecedent, Infers
<1> HIDE DEF a
<1>2. i.name \in Names(a.idents) BY <1>1 DEF Names
<1>3. Names(a.idents) \subseteq NamesMade(Freeing(i)) BY <1>1 DEF NamesMade, a
<1> QED BY <1>2, <1>3

LEMMA ChildNames ==
    ASSUME NEW s, WellFormed(s), NEW r, Formed(r), Applies(r, s), NEW j \in DOMAIN r.ants
    PROVE  Names(GenSequent(r, j, s).seq.env) \subseteq Names(s.env) \cup NamesMade(r.ants[j])
<1> DEFINE env == GenSequent(r, j, s).seq.env
<1>1. CASE Plain(r.ants[j])
  <2>1. env = s.env \cup r.ants[j].idents BY <1>1, PlainChild
  <2>2. Names(env) = Names(s.env) \cup Names(r.ants[j].idents)
    <3> HIDE DEF env
    <3> QED BY <2>1 DEF Names
  <2>3. Names(r.ants[j].idents) \subseteq NamesMade(r.ants[j]) BY DEF NamesMade
  <2> HIDE DEF env
  <2> QED BY <2>2, <2>3 DEF env
<1>2. ASSUME NEW i \in Ident, r.goal = Null, r.ants[j] = Freeing(i)
      PROVE  Names(env) \subseteq Names(s.env) \cup NamesMade(r.ants[j])
  <2>1. env = IF Fires(i, s) THEN s.env \cup {i} ELSE s.env BY <1>2, FreeingChild
  <2>2. i.name \in NamesMade(r.ants[j]) BY <1>2, FreedNameMade
  <2> HIDE DEF env
  <2>3. Names(env) \subseteq Names(s.env) \cup {i.name} BY <2>1 DEF Names
  <2> QED BY <2>2, <2>3
<1> QED BY <1>1, <1>2, AntecedentsFormed

(* And each child then has what the sub-proof above it needs, if that makes  *)
(* none of the names its antecedent makes.                                   *)
LEMMA MeetsChild ==
    ASSUME NEW s, WellFormed(s), NEW r, Formed(r), Applies(r, s),
           NEW below \in [DOMAIN r.ants -> DepsRecord],
           \A k \in DOMAIN r.ants : Own(below[k], GenSequent(r, k, s).seq),
           NEW u, WellFormed(u), Meets(NodeDeps(r, s, below), u),
           NEW j \in DOMAIN r.ants, NamesMade(r.ants[j]) \cap below[j].introduced = {}
    PROVE  Meets(below[j], GenSequent(r, j, u).seq)
<1> DEFINE d == NodeDeps(r, s, below)
           sub(k) == Through(r, s, below, k)
           inheriting == {k \in DOMAIN r.ants : r.ants[k].goal = Null}
           ant == r.ants[j]
           child == GenSequent(r, j, u).seq
<1>1. /\ \/ r.goal # Null /\ d.goal = r.goal
         \/ r.goal = Null /\ d.goal = Null /\ \A k \in inheriting : below[k].goal = Null
         \/ /\ r.goal = Null /\ d.goal # Null
            /\ \E k \in inheriting : d.goal = below[k].goal
      /\ d.hyps = r.needed \cup UNION {sub(k).hyps : k \in DOMAIN r.ants}
      /\ \A k \in DOMAIN r.ants : sub(k).idents \subseteq d.idents
      /\ d.introduced = UNION {sub(k).introduced : k \in DOMAIN r.ants}
  BY NodeDepsFields
<1>2. /\ d.goal \in {Null, u.goal} /\ d.hyps \subseteq u.hyps
      /\ d.idents \subseteq u.env /\ d.introduced \cap Names(u.env) = {}
  BY DEF Meets
<1>3. Applies(r, u) BY MeetsApplies
<1>4. Own(d, s) BY OwnNode
<1>5. below[j].goal \in {Null, child.goal}
  <2>1. GenSequent(r, j, s).seq.goal = IF ant.goal = Null THEN Inherited(r, s) ELSE ant.goal
    BY ChildGoal
  <2>2. child.goal = IF ant.goal = Null THEN Inherited(r, u) ELSE ant.goal
    BY <1>3, ChildGoal
  <2>3. below[j].goal \in {Null, GenSequent(r, j, s).seq.goal} BY DEF Own
  <2>4. CASE ant.goal # Null BY <2>1, <2>2, <2>3, <2>4
  <2>5. CASE ant.goal = Null
    <3>1. r.goal = Null BY <2>5, ChildGoal
    <3>2. Inherited(r, s) = s.goal /\ Inherited(r, u) = u.goal BY <3>1 DEF Inherited
    <3>3. j \in inheriting BY <2>5
    <3> HIDE DEF d, inheriting, child, ant
    <3>4. below[j].goal # Null => d.goal # Null BY <1>1, <3>1, <3>3
    <3>5. d.goal # Null => d.goal = s.goal /\ d.goal = u.goal BY <1>2, <1>4 DEF Own
    <3> QED BY <2>1, <2>2, <2>3, <2>5, <3>2, <3>4, <3>5
  <2> QED BY <2>4, <2>5
<1>6. /\ below[j].hyps \subseteq child.hyps
      /\ below[j].idents \subseteq child.env
      /\ below[j].introduced \subseteq sub(j).introduced
  <2>1. CASE Plain(ant)
    <3>1. PlainlyThrough(ant, below[j], sub(j)) BY <2>1, PlainSub
    <3>2. child.env = u.env \cup ant.idents /\ child.hyps = u.hyps \cup ant.added
      BY <1>3, <2>1, PlainChild
    <3> HIDE DEF sub, child, ant, d
    <3>3. /\ sub(j).hyps = below[j].hyps \ ant.added
          /\ below[j].idents \ ant.idents \subseteq sub(j).idents
          /\ below[j].introduced \subseteq sub(j).introduced
      BY <3>1 DEF PlainlyThrough
    <3>4. sub(j).hyps \subseteq u.hyps /\ sub(j).idents \subseteq u.env BY <1>1, <1>2
    <3> QED BY <3>2, <3>3, <3>4
  <2>2. ASSUME NEW i \in Ident, ant = Freeing(i), r.goal = Null
        PROVE  /\ below[j].hyps \subseteq child.hyps
               /\ below[j].idents \subseteq child.env
               /\ below[j].introduced \subseteq sub(j).introduced
    <3> DEFINE used == Fires(i, s) /\ (In(i) \in below[j].hyps \/ i \in below[j].idents)
    <3>1. FreedThrough(i, used, below[j], sub(j)) BY <2>2, FreeingSub
    <3>2. /\ child.env = IF Fires(i, u) THEN u.env \cup {i} ELSE u.env
          /\ child.hyps = IF Fires(i, u) THEN u.hyps \cup {In(i)} ELSE u.hyps
      BY <1>3, <2>2, FreeingChild
    <3> HIDE DEF sub, child, ant, d
    <3>3. /\ sub(j).hyps \subseteq u.hyps /\ sub(j).idents \subseteq u.env
          /\ sub(j).introduced \cap Names(u.env) = {}
      BY <1>1, <1>2
    <3>4. CASE used
      <4> HIDE DEF used
      <4>1. /\ sub(j).hyps = (below[j].hyps \ {In(i)}) \cup {Ex(i.ty)}
            /\ sub(j).idents = below[j].idents \ {i}
            /\ sub(j).introduced = below[j].introduced \cup {i.name}
        BY <3>1, <3>4 DEF FreedThrough
      <4>2. Fires(i, u) BY <3>3, <4>1 DEF Fires
      <4> QED BY <3>2, <3>3, <4>1, <4>2
    <3>5. CASE ~ used
      <4> HIDE DEF used
      <4>1. /\ sub(j).hyps = below[j].hyps /\ sub(j).idents = below[j].idents
            /\ sub(j).introduced = below[j].introduced
        BY <3>1, <3>5 DEF FreedThrough
      <4> QED BY <3>2, <3>3, <4>1
    <3> QED BY <3>4, <3>5
  <2> QED BY <2>1, <2>2, AntecedentsFormed
<1>7. Names(child.env) \subseteq Names(u.env) \cup NamesMade(ant) BY <1>3, ChildNames
<1> HIDE DEF d, sub, child, ant
<1>8. below[j].introduced \subseteq d.introduced BY <1>1, <1>6
<1>9. below[j].introduced \cap Names(child.env) = {} BY <1>2, <1>7, <1>8 DEF ant
<1> QED BY <1>5, <1>6, <1>9 DEF Meets, child
-----------------------------------------------------------------------------
(* What reasoners make.                                                     *)

LEMMA PredShape ==
    ASSUME NEW p \in Pred
    PROVE  /\ p.op \in {"in", "all", "ex"} /\ p.ty \in Type
           /\ p.op = "all" => p = All(p.ty)
           /\ p.op = "ex" => p = Ex(p.ty)
           /\ p.op = "in" => /\ [name |-> p.name, ty |-> p.ty] \in Ident
                             /\ p = In([name |-> p.name, ty |-> p.ty])
<1>1. CASE \E i \in Ident : p = In(i)
  <2>1. PICK i \in Ident : p = In(i) BY <1>1
  <2>2. p.op = "in" /\ p.name = i.name /\ p.ty = i.ty /\ i.ty \in Type /\ i.name \in Name
    BY <2>1 DEF In, Ident
  <2>3. [name |-> p.name, ty |-> p.ty] \in Ident BY <2>2 DEF Ident
  <2>4. p = In([name |-> p.name, ty |-> p.ty]) BY <2>1, <2>2 DEF In
  <2> QED BY <2>2, <2>3, <2>4
<1>2. CASE \E t \in Type : p = All(t) BY <1>2 DEF All
<1>3. CASE \E t \in Type : p = Ex(t) BY <1>3 DEF Ex
<1> QED BY <1>1, <1>2, <1>3 DEF Pred

LEMMA AntecedentType ==
    ASSUME NEW goal \in Pred \cup {Null}, NEW added \in SUBSET Pred,
           NEW idents \in SUBSET Ident, NEW actions \in Seq(HypAction)
    PROVE  Antecedent(goal, added, idents, actions) \in AntecedentRecord
BY DEF Antecedent, AntecedentRecord

Versions == registered \in [Reasoner -> {0, 1}]

Ruled(r, id, goal, needed, ants, input) ==
    /\ r \in ProofRule
    /\ r.desc.id = id /\ r.desc.version = registered[id]
    /\ r.goal = goal /\ r.needed = needed /\ r.ants = ants /\ r.input = input
    /\ r.conf = DISCHARGED_MAX

LEMMA RuleType ==
    ASSUME Versions, NEW id \in Reasoner, NEW goal \in Pred \cup {Null},
           NEW needed \in SUBSET Pred, NEW ants \in Seq(AntecedentRecord),
           NEW input \in Ident \cup Pred \cup {Null}
    PROVE  Ruled(Rule(id, goal, needed, ants, input), id, goal, needed, ants, input)
<1> DEFINE desc == [id |-> id, version |-> registered[id]]
           r == Rule(id, goal, needed, ants, input)
<1>1. desc \in [id : Reasoner, version : {0, 1}] /\ desc.id = id
      /\ desc.version = registered[id]
  BY DEF Versions
<1>2. DISCHARGED_MAX \in 0 .. DISCHARGED_MAX BY DEF DISCHARGED_MAX
<1>3. r = [desc |-> desc, goal |-> goal, needed |-> needed, conf |-> DISCHARGED_MAX,
           ants |-> ants, input |-> input]
  BY DEF Rule
<1> HIDE DEF desc
<1>4. r \in ProofRule BY <1>1, <1>2, <1>3 DEF ProofRule
<1>5. /\ r.desc = desc /\ r.goal = goal /\ r.needed = needed /\ r.ants = ants
      /\ r.input = input /\ r.conf = DISCHARGED_MAX
  BY <1>3
<1> HIDE DEF r
<1> QED BY <1>1, <1>4, <1>5 DEF r, Ruled

(* r is what the reasoner id makes now.                                      *)
Made(r, id) ==
    /\ Formed(r) /\ r.desc.id = id /\ Trusted(r.desc)
    /\ id # "review" => r.conf = DISCHARGED_MAX

LEMMA SolveLeast ==
    ASSUME NEW hint, NEW env, Solvable(hint, env)
    PROVE  /\ Solve(hint, env) \in Name /\ Solve(hint, env) \notin Names(env)
           /\ \A n \in Name : n >= hint /\ n \notin Names(env) => Solve(hint, env) <= n
           /\ Solve(hint, env) >= hint
<1> DEFINE free == {n \in Name : n >= hint /\ n \notin Names(env)}
           Least(n) == \A k \in free : n <= k
<1>1. free \in SUBSET Nat BY NameAssumption
<1>2. free # {} BY DEF Solvable
<1>3. \E n \in free : Least(n)
  <2> HIDE DEF free
  <2> QED BY <1>1, <1>2, LowestNat
<1>4. Solve(hint, env) = CHOOSE n \in free : Least(n) BY DEF Solve
<1>5. Solve(hint, env) \in free /\ Least(Solve(hint, env))
  <2> HIDE DEF free, Least
  <2> QED BY <1>3, <1>4
<1> QED BY <1>5

LEMMA HypMakes ==
    ASSUME Versions, NEW s, WellFormed(s), Hyp(s) # Null
    PROVE  Made(Hyp(s), "hyp")
<1>1. s.goal \in Pred BY DEF WellFormed, Sequent
<1>2. Hyp(s) = Rule("hyp", s.goal, {s.goal}, << >>, Null) BY DEF Hyp
<1>3. "hyp" \in Reasoner /\ << >> \in Seq(AntecedentRecord) BY DEF Reasoner, Implemented
<1>4. {s.goal} \in SUBSET Pred BY <1>1
<1> DEFINE r == Rule("hyp", s.goal, {s.goal}, << >>, Null)
<1>5. /\ r \in ProofRule /\ r.conf = DISCHARGED_MAX
      /\ r.desc.id = "hyp" /\ r.desc.version = registered["hyp"]
      /\ r.goal = s.goal /\ r.needed = {s.goal} /\ r.ants = << >>
  <2>1. Ruled(r, "hyp", s.goal, {s.goal}, << >>, Null) BY <1>1, <1>3, <1>4, RuleType
  <2> HIDE DEF r
  <2> QED BY <2>1 DEF Ruled
<1> HIDE DEF r
<1> QED BY <1>1, <1>2, <1>5 DEF r, Made, Formed, Graded, Closing, Trusted

LEMMA AllIMakes ==
    ASSUME Versions, NEW s, WellFormed(s), NEW hint, AllI(s, hint) # Null
    PROVE  Made(AllI(s, hint), "allI")
<1>1. s.goal \in Pred BY DEF WellFormed, Sequent
<1>2. s.goal.op = "all" /\ Solvable(hint, s.env) BY DEF AllI
<1> DEFINE i == [name |-> Solve(hint, s.env), ty |-> s.goal.ty]
           ant == Antecedent(In(i), {}, {i}, << >>)
           r == Rule("allI", s.goal, {}, << ant >>, Null)
<1>3. AllI(s, hint) = r BY <1>2 DEF AllI
<1>4. i \in Ident /\ i.ty = s.goal.ty BY <1>1, <1>2, SolveLeast, PredShape DEF Ident
<1>5. s.goal = All(i.ty) BY <1>1, <1>2, <1>4, PredShape
<1> HIDE DEF i
<1>6. ant \in AntecedentRecord
  <2>1. In(i) \in Pred /\ << >> \in Seq(HypAction) /\ {i} \in SUBSET Ident BY <1>4, PredIn
  <2> QED BY <2>1, AntecedentType
<1> HIDE DEF ant
<1>7. "allI" \in Reasoner /\ << ant >> \in Seq(AntecedentRecord)
  BY <1>6 DEF Reasoner, Implemented
<1>8. /\ r \in ProofRule /\ r.conf = DISCHARGED_MAX
      /\ r.desc.id = "allI" /\ r.desc.version = registered["allI"]
      /\ r.goal = s.goal /\ r.needed = {} /\ r.ants = << ant >>
  <2>1. Ruled(r, "allI", s.goal, {}, << ant >>, Null) BY <1>1, <1>7, RuleType
  <2> HIDE DEF r
  <2> QED BY <2>1 DEF Ruled
<1> HIDE DEF r
<1>9. Introducing(r, i) BY <1>5, <1>8 DEF Introducing, ant
<1> QED BY <1>3, <1>4, <1>8, <1>9 DEF Made, Formed, Graded, Trusted

LEMMA AllDMakes ==
    ASSUME Versions, NEW s, WellFormed(s), NEW univ, NEW witness \in Ident,
           AllD(s, univ, witness) # Null
    PROVE  Made(AllD(s, univ, witness), "allD")
<1>1. univ \in s.hyps /\ univ.op = "all" /\ witness.ty = univ.ty BY DEF AllD
<1>2. univ \in Pred BY <1>1 DEF WellFormed, Sequent
<1>3. univ = All(witness.ty) BY <1>1, <1>2, PredShape
<1> DEFINE a == [kind |-> "deselect", hyps |-> {univ}]
           ant == Antecedent(Null, {In(witness)}, {}, << a >>)
           r == Rule("allD", Null, {univ}, << ant >>, witness)
<1>4. AllD(s, univ, witness) = r BY <1>1 DEF AllD
<1>5. a \in SelectionAction BY <1>2 DEF SelectionAction
<1>6. a = [kind |-> "deselect", hyps |-> {All(witness.ty)}] BY <1>3
<1> HIDE DEF a
<1>7. ant \in AntecedentRecord
  <2>1. {In(witness)} \in SUBSET Pred /\ << a >> \in Seq(HypAction)
    BY <1>5, PredIn, SelectionInfersNot
  <2> QED BY <2>1, AntecedentType
<1>8. ant = Antecedent(Null, {In(witness)}, {},
                       << [kind |-> "deselect", hyps |-> {All(witness.ty)}] >>)
  BY <1>6
<1> HIDE DEF ant
<1>9. "allD" \in Reasoner /\ << ant >> \in Seq(AntecedentRecord) /\ {univ} \in SUBSET Pred
  BY <1>2, <1>7 DEF Reasoner, Implemented
<1>10. /\ r \in ProofRule /\ r.conf = DISCHARGED_MAX
       /\ r.desc.id = "allD" /\ r.desc.version = registered["allD"]
       /\ r.goal = Null /\ r.needed = {univ} /\ r.ants = << ant >> /\ r.input = witness
  <2>1. Ruled(r, "allD", Null, {univ}, << ant >>, witness) BY <1>9, RuleType
  <2> HIDE DEF r
  <2> QED BY <2>1 DEF Ruled
<1> HIDE DEF r
<1>11. Introducing(r, witness) BY <1>3, <1>8, <1>10 DEF Introducing
<1> QED BY <1>4, <1>10, <1>11 DEF Made, Formed, Graded, Trusted

LEMMA ExIMakes ==
    ASSUME Versions, NEW s, WellFormed(s), NEW witness \in Ident, ExI(s, witness) # Null
    PROVE  Made(ExI(s, witness), "exI")
<1>1. s.goal \in Pred BY DEF WellFormed, Sequent
<1>2. s.goal.op = "ex" /\ witness.ty = s.goal.ty BY DEF ExI
<1>3. s.goal = Ex(witness.ty) BY <1>1, <1>2, PredShape
<1> DEFINE ant == Antecedent(In(witness), {}, {}, << >>)
           r == Rule("exI", s.goal, {}, << ant >>, witness)
<1>4. ExI(s, witness) = r BY <1>2 DEF ExI
<1>5. ant \in AntecedentRecord
  <2>1. In(witness) \in Pred /\ << >> \in Seq(HypAction) BY PredIn
  <2> QED BY <2>1, AntecedentType
<1> HIDE DEF ant
<1>6. "exI" \in Reasoner /\ << ant >> \in Seq(AntecedentRecord)
  BY <1>5 DEF Reasoner, Implemented
<1>7. /\ r \in ProofRule /\ r.conf = DISCHARGED_MAX
      /\ r.desc.id = "exI" /\ r.desc.version = registered["exI"]
      /\ r.goal = s.goal /\ r.needed = {} /\ r.ants = << ant >> /\ r.input = witness
  <2>1. Ruled(r, "exI", s.goal, {}, << ant >>, witness) BY <1>1, <1>6, RuleType
  <2> HIDE DEF r
  <2> QED BY <2>1 DEF Ruled
<1> HIDE DEF r
<1>8. Introducing(r, witness) BY <1>3, <1>7 DEF Introducing, ant
<1> QED BY <1>4, <1>7, <1>8 DEF Made, Formed, Graded, Trusted

LEMMA ExFMakes ==
    ASSUME Versions, NEW s, NEW ex \in Pred, NEW hint, ExF(s, ex, hint) # Null
    PROVE  Made(ExF(s, ex, hint), "exF")
<1>1. ex.op = "ex" /\ Solvable(hint, s.env) BY DEF ExF
<1> DEFINE i == [name |-> Solve(hint, s.env), ty |-> ex.ty]
           a == [kind |-> "rewrite", hyps |-> {ex}, idents |-> {i},
                 inferred |-> {In(i)}, gone |-> {ex}]
           b == [kind |-> "select", hyps |-> {In(i)}]
           ant == Antecedent(Null, {}, {}, << a, b >>)
           r == Rule("exF", Null, {}, << ant >>, Null)
<1>2. ExF(s, ex, hint) = r BY <1>1 DEF ExF
<1>3. i \in Ident /\ i.ty = ex.ty BY <1>1, SolveLeast, PredShape DEF Ident
<1>4. ex = Ex(i.ty) BY <1>1, <1>3, PredShape
<1> HIDE DEF i
<1>5. a \in HypAction /\ b \in HypAction BY <1>3, <1>4, ActionsFormed DEF HypAction
<1>6. ant = Freeing(i) BY <1>4 DEF Freeing
<1> HIDE DEF a, b
<1>7. ant \in AntecedentRecord
  <2>1. << a, b >> \in Seq(HypAction) BY <1>5
  <2> QED BY <2>1, AntecedentType
<1> HIDE DEF ant
<1>8. "exF" \in Reasoner /\ << ant >> \in Seq(AntecedentRecord)
  BY <1>7 DEF Reasoner, Implemented
<1>9. /\ r \in ProofRule /\ r.conf = DISCHARGED_MAX
      /\ r.desc.id = "exF" /\ r.desc.version = registered["exF"]
      /\ r.goal = Null /\ r.needed = {} /\ r.ants = << ant >>
  <2>1. Ruled(r, "exF", Null, {}, << ant >>, Null) BY <1>8, RuleType
  <2> HIDE DEF r
  <2> QED BY <2>1 DEF Ruled
<1> HIDE DEF r
<1>10. Introducing(r, i) BY <1>6, <1>9 DEF Introducing
<1> QED BY <1>2, <1>3, <1>9, <1>10 DEF Made, Formed, Graded, Trusted

LEMMA CutMakes ==
    ASSUME Versions, NEW lemma \in Pred
    PROVE  Made(Cut(lemma), "cut")
<1> DEFINE one == Antecedent(lemma, {}, {}, << >>)
           two == Antecedent(Null, {lemma}, {}, << >>)
           r == Rule("cut", Null, {}, << one, two >>, lemma)
<1>1. Cut(lemma) = r BY DEF Cut
<1>2. one \in AntecedentRecord /\ two \in AntecedentRecord
  <2>1. << >> \in Seq(HypAction) /\ {lemma} \in SUBSET Pred OBVIOUS
  <2> QED BY <2>1, AntecedentType
<1> HIDE DEF one, two
<1>3. "cut" \in Reasoner /\ << one, two >> \in Seq(AntecedentRecord)
  BY <1>2 DEF Reasoner, Implemented
<1>4. /\ r \in ProofRule /\ r.conf = DISCHARGED_MAX
      /\ r.desc.id = "cut" /\ r.desc.version = registered["cut"]
      /\ r.goal = Null /\ r.needed = {} /\ r.ants = << one, two >> /\ r.input = lemma
  <2>1. Ruled(r, "cut", Null, {}, << one, two >>, lemma) BY <1>3, RuleType
  <2> HIDE DEF r
  <2> QED BY <2>1 DEF Ruled
<1> HIDE DEF r
<1>5. Cutting(r, lemma) BY <1>4 DEF Cutting, one, two
<1> QED BY <1>1, <1>4, <1>5 DEF Made, Formed, Graded, Trusted

LEMMA MngHypMakes ==
    ASSUME Versions, NEW a \in SelectionAction
    PROVE  Made(MngHyp(a), "mngHyp")
<1> DEFINE ant == Antecedent(Null, {}, {}, << a >>)
           r == Rule("mngHyp", Null, {}, << ant >>, Null)
<1>1. MngHyp(a) = r BY DEF MngHyp
<1>2. ant \in AntecedentRecord
  <2>1. << a >> \in Seq(HypAction) BY SelectionInfersNot
  <2> QED BY <2>1, AntecedentType
<1> HIDE DEF ant
<1>3. "mngHyp" \in Reasoner /\ << ant >> \in Seq(AntecedentRecord)
  BY <1>2 DEF Reasoner, Implemented
<1>4. /\ r \in ProofRule /\ r.conf = DISCHARGED_MAX
      /\ r.desc.id = "mngHyp" /\ r.desc.version = registered["mngHyp"]
      /\ r.goal = Null /\ r.needed = {} /\ r.ants = << ant >>
  <2>1. Ruled(r, "mngHyp", Null, {}, << ant >>, Null) BY <1>3, RuleType
  <2> HIDE DEF r
  <2> QED BY <2>1 DEF Ruled
<1> HIDE DEF r
<1>5. Managing(r, a) BY <1>4 DEF Managing, ant
<1> QED BY <1>1, <1>4, <1>5 DEF Made, Formed, Graded, Trusted

LEMMA ReviewMakes ==
    ASSUME Versions, NEW s, WellFormed(s), NEW goal, NEW needed, NEW conf \in 0 .. REVIEWED_MAX,
           s.goal = goal, needed \subseteq s.hyps
    PROVE  LET r == Review(s, goal, needed, conf) IN
           Made(r, "review") /\ r.conf = conf /\ r.goal = goal /\ r.needed = needed
<1>1. s.goal = goal /\ needed \subseteq s.hyps OBVIOUS
<1>2. goal \in Pred /\ needed \in SUBSET Pred BY <1>1 DEF WellFormed, Sequent
<1> DEFINE q == Rule("review", goal, needed, << >>, Null)
           r == [q EXCEPT !.conf = conf]
<1>3. Review(s, goal, needed, conf) = r BY <1>1 DEF Review
<1>4. "review" \in Reasoner /\ << >> \in Seq(AntecedentRecord) BY DEF Reasoner, Implemented
<1>5. /\ q \in ProofRule /\ q.desc.id = "review" /\ q.desc.version = registered["review"]
      /\ q.goal = goal /\ q.needed = needed /\ q.ants = << >>
  <2>1. Ruled(q, "review", goal, needed, << >>, Null) BY <1>2, <1>4, RuleType
  <2> HIDE DEF q
  <2> QED BY <2>1 DEF Ruled
<1> HIDE DEF q
<1>6. conf \in 0 .. DISCHARGED_MAX /\ conf <= REVIEWED_MAX
  BY DEF REVIEWED_MAX, DISCHARGED_MAX
<1>7. r \in ProofRule BY <1>5, <1>6 DEF ProofRule
<1>8. r.desc = q.desc /\ r.goal = goal /\ r.needed = needed /\ r.ants = << >> /\ r.conf = conf
  BY <1>5 DEF ProofRule
<1> HIDE DEF r
<1> QED BY <1>2, <1>3, <1>5, <1>6, <1>7, <1>8 DEF r, Made, Formed, Graded, Closing, Trusted
-----------------------------------------------------------------------------
(* What a reasoner makes again of a recorded rule.                           *)

HintsOK(h) == \E S \in SUBSET Name : h \in [S -> Name]

LEMMA NoHintsOK == HintsOK(NoHints)
<1>1. {} \in SUBSET Name /\ NoHints \in [{} -> Name] BY DEF NoHints
<1> QED BY <1>1 DEF HintsOK

LEMMA RenamedType ==
    ASSUME NEW h, HintsOK(h)
    PROVE  /\ \A i \in Ident : RenamedIdent(h, i) \in Ident
           /\ \A p \in Pred : RenamedPred(h, p) \in Pred
           /\ \A S \in SUBSET Pred : Renamed(h, S) \in SUBSET Pred
<1>1. \A n \in Name : RenamedName(h, n) \in Name BY DEF HintsOK, RenamedName
<1>2. ASSUME NEW i \in Ident PROVE RenamedIdent(h, i) \in Ident
  <2>1. i \in [name : Name, ty : Type] BY DEF Ident
  <2> QED BY <1>1, <2>1 DEF RenamedIdent, Ident
<1>3. ASSUME NEW p \in Pred PROVE RenamedPred(h, p) \in Pred
  <2>1. CASE p.op # "in" BY <2>1 DEF RenamedPred
  <2>2. CASE p.op = "in"
    <3> DEFINE i == [name |-> p.name, ty |-> p.ty]
               k == [name |-> RenamedName(h, p.name), ty |-> p.ty]
    <3>1. i \in Ident /\ p = In(i) BY <2>2, PredShape
    <3>2. p.name \in Name /\ p.ty \in Type BY <3>1 DEF Ident
    <3>3. k \in Ident BY <1>1, <3>2 DEF Ident
    <3>4. p = [op |-> "in", name |-> p.name, ty |-> p.ty] BY <3>1 DEF In
    <3>5. [p EXCEPT !.name = RenamedName(h, @)] = In(k) BY <3>4 DEF In
    <3> HIDE DEF k
    <3> QED BY <2>2, <3>3, <3>5, PredIn DEF RenamedPred
  <2> QED BY <2>1, <2>2
<1>4. ASSUME NEW S \in SUBSET Pred PROVE Renamed(h, S) \in SUBSET Pred
  BY <1>3 DEF Renamed
<1> QED BY <1>2, <1>3, <1>4

LEMMA NoRenaming ==
    /\ \A i \in Ident : RenamedIdent(NoHints, i) = i
    /\ \A p \in Pred : RenamedPred(NoHints, p) = p
    /\ \A S \in SUBSET Pred : Renamed(NoHints, S) = S
<1>1. \A n : RenamedName(NoHints, n) = n BY DEF RenamedName, NoHints
<1>2. ASSUME NEW i \in Ident PROVE RenamedIdent(NoHints, i) = i
  <2>1. i \in [name : Name, ty : Type] BY DEF Ident
  <2> QED BY <1>1, <2>1 DEF RenamedIdent
<1>3. ASSUME NEW p \in Pred PROVE RenamedPred(NoHints, p) = p
  <2>1. CASE p.op # "in" BY <2>1 DEF RenamedPred
  <2>2. CASE p.op = "in"
    <3>1. p = In([name |-> p.name, ty |-> p.ty]) BY <2>2, PredShape
    <3>2. p = [op |-> "in", name |-> p.name, ty |-> p.ty] BY <3>1 DEF In
    <3>3. [p EXCEPT !.name = p.name] = p BY <3>2
    <3> QED BY <1>1, <2>2, <3>3 DEF RenamedPred
  <2> QED BY <2>1, <2>2
<1>4. ASSUME NEW S \in SUBSET Pred PROVE Renamed(NoHints, S) = S BY <1>3 DEF Renamed
<1> QED BY <1>2, <1>3, <1>4

LEMMA TheOnly ==
    ASSUME NEW x
    PROVE  The({x}) = x
BY DEF The

LEMMA FormedBy ==
    ASSUME NEW r, Formed(r)
    PROVE  /\ r.desc.id \in {"hyp", "review"} \cup External => Closing(r)
           /\ r.desc.id \in {"allI", "allD", "exI", "exF"} => \E i \in Ident : Introducing(r, i)
           /\ r.desc.id = "cut" => \E lemma \in Pred : Cutting(r, lemma)
           /\ r.desc.id = "mngHyp" => \E a \in SelectionAction : Managing(r, a)
<1>1. Closing(r) => r.desc.id \in {"hyp", "review", "externalPP", "dtInduction"}
  BY DEF Closing, External, ContextDependent
<1>2. \A i \in Ident : Introducing(r, i) => r.desc.id \in {"allI", "allD", "exI", "exF"}
  BY DEF Introducing
<1>3. \A lemma \in Pred : Cutting(r, lemma) => r.desc.id = "cut" BY DEF Cutting
<1>4. \A a \in SelectionAction : Managing(r, a) => r.desc.id = "mngHyp" BY DEF Managing
<1>5. \/ Closing(r)
      \/ \E i \in Ident : Introducing(r, i)
      \/ \E lemma \in Pred : Cutting(r, lemma)
      \/ \E a \in SelectionAction : Managing(r, a)
  BY DEF Formed
<1>6. External = {"externalPP", "dtInduction"} BY DEF External, ContextDependent
<1> QED BY <1>1, <1>2, <1>3, <1>4, <1>5, <1>6

LEMMA SelectionRenamed ==
    ASSUME NEW a \in SelectionAction, NEW S \in SUBSET Pred
    PROVE  [a EXCEPT !.hyps = S] \in SelectionAction
BY DEF SelectionAction

(* A reasoner runs only for a rule that is trusted, and makes one of its own.*)
LEMMA ReplayedMakes ==
    ASSUME Versions, NEW r, Formed(r), NEW s, WellFormed(s), NEW h, HintsOK(h),
           Replayed(r, s, h) # Null
    PROVE  Made(Replayed(r, s, h), r.desc.id) /\ r.desc.id \in Implemented /\ Trusted(r.desc)
<1> DEFINE id == r.desc.id
<1>1. Trusted(r.desc) /\ id \in Implemented BY DEF Replayed
<1>2. CASE id = "hyp"
  <2>1. Replayed(r, s, h) = Hyp(s) BY <1>1, <1>2 DEF Replayed
  <2> QED BY <1>1, <1>2, <2>1, HypMakes
<1>3. CASE id = "allI"
  <2>1. Replayed(r, s, h) = AllI(s, The(r.ants[1].idents).name) BY <1>1, <1>3 DEF Replayed
  <2> QED BY <1>1, <1>3, <2>1, AllIMakes
<1>4. CASE id = "allD"
  <2>1. Replayed(r, s, h) = AllD(s, RenamedPred(h, The(r.needed)), RenamedIdent(h, r.input))
    BY <1>1, <1>4 DEF Replayed
  <2>2. PICK i \in Ident : Introducing(r, i) BY <1>4, FormedBy
  <2>3. RenamedIdent(h, r.input) \in Ident BY <1>4, <2>2, RenamedType DEF Introducing
  <2> QED BY <1>1, <1>4, <2>1, <2>3, AllDMakes
<1>5. CASE id = "exI"
  <2>1. Replayed(r, s, h) = ExI(s, RenamedIdent(h, r.input)) BY <1>1, <1>5 DEF Replayed
  <2>2. PICK i \in Ident : Introducing(r, i) BY <1>5, FormedBy
  <2>3. RenamedIdent(h, r.input) \in Ident BY <1>5, <2>2, RenamedType DEF Introducing
  <2> QED BY <1>1, <1>5, <2>1, <2>3, ExIMakes
<1>6. CASE id = "exF"
  <2> DEFINE ex == RenamedPred(h, The(FirstAction(r).hyps))
  <2>1. Replayed(r, s, h) = ExF(s, ex, The(FirstAction(r).idents).name)
    BY <1>1, <1>6 DEF Replayed
  <2>2. PICK i \in Ident : Introducing(r, i) BY <1>6, FormedBy
  <2>3. r.ants = << Freeing(i) >> BY <1>6, <2>2 DEF Introducing
  <2>4. r.ants[1] = Freeing(i) BY <2>3, FirstOf
  <2>5. FirstAction(r).hyps = {Ex(i.ty)} BY <2>4 DEF FirstAction, Freeing, Antecedent
  <2>6. The(FirstAction(r).hyps) = Ex(i.ty) BY <2>5, TheOnly
  <2>7. ex \in Pred BY <2>6, PredIn, RenamedType
  <2> HIDE DEF ex
  <2> QED BY <1>1, <1>6, <2>1, <2>7, ExFMakes
<1>7. CASE id = "cut"
  <2>1. Replayed(r, s, h) = Cut(RenamedPred(h, r.input)) BY <1>1, <1>7 DEF Replayed
  <2>2. RenamedPred(h, r.input) \in Pred BY <1>7, FormedBy, RenamedType DEF Cutting
  <2> QED BY <1>1, <1>7, <2>1, <2>2, CutMakes
<1>8. CASE id = "mngHyp"
  <2> DEFINE a == [FirstAction(r) EXCEPT !.hyps = Renamed(h, @)]
  <2>1. Replayed(r, s, h) = MngHyp(a) BY <1>1, <1>8 DEF Replayed
  <2>2. PICK b \in SelectionAction : Managing(r, b) BY <1>8, FormedBy
  <2>3. r.ants = << Antecedent(Null, {}, {}, << b >>) >> BY <2>2 DEF Managing
  <2>4. r.ants[1] = Antecedent(Null, {}, {}, << b >>) BY <2>3, FirstOf
  <2>5. FirstAction(r) = b BY <2>4, AntecedentFields DEF FirstAction
  <2>6. Renamed(h, b.hyps) \in SUBSET Pred BY RenamedType DEF SelectionAction
  <2>7. a \in SelectionAction BY <2>5, <2>6, SelectionRenamed
  <2> HIDE DEF a
  <2> QED BY <1>1, <1>8, <2>1, <2>7, MngHypMakes
<1>9. CASE id = "review"
  <2> DEFINE goal == RenamedPred(h, r.goal)
             needed == Renamed(h, r.needed)
  <2>1. Replayed(r, s, h) = Review(s, goal, needed, r.conf) BY <1>1, <1>9 DEF Replayed
  <2>2. s.goal = goal /\ needed \subseteq s.hyps BY <2>1 DEF Review
  <2>3. Closing(r) BY <1>9, FormedBy
  <2>4. r.conf <= REVIEWED_MAX BY <1>9, <2>3 DEF Closing, External, ContextDependent
  <2>5. r.conf \in 0 .. REVIEWED_MAX BY <2>4, RuleFields DEF REVIEWED_MAX
  <2> HIDE DEF goal, needed
  <2>6. Made(Review(s, goal, needed, r.conf), "review") BY <2>2, <2>5, ReviewMakes
  <2> QED BY <1>1, <1>9, <2>1, <2>6
<1> QED BY <1>1, <1>2, <1>3, <1>4, <1>5, <1>6, <1>7, <1>8, <1>9 DEF Implemented

(* Rules that do the same to any sequent.                                    *)
Alike(q, r) == q.goal = r.goal /\ q.needed = r.needed /\ q.ants = r.ants

LEMMA AlikeApplies ==
    ASSUME NEW q, NEW r, Alike(q, r), NEW s
    PROVE  /\ Applies(q, s) <=> Applies(r, s)
           /\ \A j : GenSequent(q, j, s) = GenSequent(r, j, s)
           /\ Children(q, s) = Children(r, s)
<1>1. Inherited(q, s) = Inherited(r, s) BY DEF Inherited, Alike
<1>2. Applies(q, s) <=> Applies(r, s) BY <1>1 DEF Applies, Alike
<1>3. \A j : GenSequent(q, j, s) = GenSequent(r, j, s) BY <1>1 DEF GenSequent, Alike
<1>4. DOMAIN q.ants = DOMAIN r.ants BY DEF Alike
<1>5. Children(q, s) = Children(r, s) BY <1>3, <1>4 DEF Children
<1> QED BY <1>2, <1>3, <1>5

LEMMA SolvesItself ==
    ASSUME NEW i \in Ident, NEW env, i.name \notin Names(env)
    PROVE  Solvable(i.name, env) /\ [name |-> Solve(i.name, env), ty |-> i.ty] = i
<1>1. i.name \in Name /\ i.name \in Nat BY NameAssumption DEF Ident
<1>2. i.name >= i.name BY <1>1
<1>3. Solvable(i.name, env) BY <1>1, <1>2 DEF Solvable
<1>4. /\ Solve(i.name, env) \in Nat
      /\ Solve(i.name, env) >= i.name /\ Solve(i.name, env) <= i.name
  BY <1>1, <1>2, <1>3, SolveLeast, NameAssumption
<1>5. Solve(i.name, env) = i.name BY <1>1, <1>4
<1>6. i = [name |-> i.name, ty |-> i.ty] BY DEF Ident
<1> QED BY <1>3, <1>5, <1>6

(* Where the stored rule applies, and the names it makes are free, the       *)
(* reasoner makes the same one.                                              *)
LEMMA ReplaysAlike ==
    ASSUME Versions, NEW r, Formed(r), NEW u, WellFormed(u), Applies(r, u),
           Trusted(r.desc), r.desc.id \in Implemented,
           \A j \in DOMAIN r.ants : NamesMade(r.ants[j]) \cap Names(u.env) = {}
    PROVE  Replayed(r, u, NoHints) # Null /\ Alike(Replayed(r, u, NoHints), r)
<1> DEFINE id == r.desc.id
           q == Replayed(r, u, NoHints)
<1>1. /\ r.goal \in Pred \cup {Null} /\ r.needed \in SUBSET Pred
      /\ r.ants \in Seq(AntecedentRecord)
  BY RuleFields, RuleIndices
<1>2. ASSUME NEW x \in Ident \cup Pred \cup {Null}, NEW k \in Reasoner,
             q = Rule(k, r.goal, r.needed, r.ants, x)
      PROVE  q # Null /\ Alike(q, r)
  <2>1. Ruled(Rule(k, r.goal, r.needed, r.ants, x), k, r.goal, r.needed, r.ants, x)
    BY <1>1, RuleType
  <2> HIDE DEF q
  <2>2. q \in ProofRule /\ q.goal = r.goal /\ q.needed = r.needed /\ q.ants = r.ants
    BY <1>2, <2>1 DEF Ruled
  <2> QED BY <2>2, RuleAssumption DEF Alike
<1>3. r.needed \subseteq u.hyps /\ r.goal \in {Null, u.goal} BY DEF Applies
<1>4. Implemented \subseteq Reasoner /\ Null \in Ident \cup Pred \cup {Null} BY DEF Reasoner
<1>5. u.goal \in Pred BY DEF WellFormed, Sequent
<1>6. CASE id = "hyp"
  <2>1. q = Hyp(u) BY <1>6 DEF Replayed
  <2>2. Closing(r) BY <1>6, FormedBy
  <2>3. r.goal \in Pred /\ r.needed = {r.goal} /\ r.ants = << >>
    BY <1>6, <2>2 DEF Closing, External, ContextDependent
  <2>4. r.goal = u.goal BY <1>3, <2>3, NullAssumption
  <2>5. Hyp(u) = Rule("hyp", r.goal, r.needed, r.ants, Null) BY <1>3, <2>3, <2>4 DEF Hyp
  <2> HIDE DEF q
  <2> QED BY <1>2, <1>4, <1>6, <2>1, <2>5 DEF q
<1>7. CASE id = "allI"
  <2>1. PICK i \in Ident : Introducing(r, i) BY <1>7, FormedBy
  <2> DEFINE ant == Antecedent(In(i), {}, {i}, << >>)
  <2>2. r.goal = All(i.ty) /\ r.needed = {} /\ r.ants = << ant >>
    BY <1>7, <2>1 DEF Introducing
  <2>3. 1 \in DOMAIN r.ants /\ r.ants[1] = ant BY <2>2, FirstOf
  <2>4. ant.idents = {i} BY AntecedentFields
  <2>5. The(r.ants[1].idents).name = i.name BY <2>3, <2>4, TheOnly
  <2>6. i.name \in NamesMade(r.ants[1]) BY <2>3, <2>4 DEF NamesMade, Names
  <2>7. i.name \notin Names(u.env) BY <2>3, <2>6
  <2>8. u.goal = All(i.ty) BY <1>3, <2>2, PredIn, NullAssumption
  <2>9. u.goal.op = "all" /\ u.goal.ty = i.ty BY <2>8 DEF All
  <2>10. Solvable(i.name, u.env) /\ [name |-> Solve(i.name, u.env), ty |-> u.goal.ty] = i
    BY <2>7, <2>9, SolvesItself
  <2>11. q = AllI(u, i.name) BY <1>7, <2>5 DEF Replayed
  <2>12. AllI(u, i.name) = Rule("allI", r.goal, r.needed, r.ants, Null)
    BY <2>2, <2>8, <2>9, <2>10 DEF AllI
  <2> HIDE DEF q
  <2> QED BY <1>2, <1>4, <1>7, <2>11, <2>12 DEF q
<1>8. CASE id = "allD"
  <2>1. PICK i \in Ident : Introducing(r, i) BY <1>8, FormedBy
  <2>2. /\ r.goal = Null /\ r.needed = {All(i.ty)} /\ r.input = i
        /\ r.ants = << Antecedent(Null, {In(i)}, {},
                                  << [kind |-> "deselect", hyps |-> {All(i.ty)}] >>) >>
    BY <1>8, <2>1 DEF Introducing
  <2>3. RenamedPred(NoHints, The(r.needed)) = All(i.ty) BY <2>2, TheOnly, NoRenaming, PredIn
  <2>4. RenamedIdent(NoHints, r.input) = i BY <2>2, NoRenaming
  <2>5. q = AllD(u, All(i.ty), i) BY <1>8, <2>3, <2>4 DEF Replayed
  <2>6. All(i.ty).op = "all" /\ All(i.ty).ty = i.ty BY DEF All
  <2>7. AllD(u, All(i.ty), i) = Rule("allD", r.goal, r.needed, r.ants, i)
    BY <1>3, <2>2, <2>6 DEF AllD
  <2> HIDE DEF q
  <2> QED BY <1>2, <1>4, <1>8, <2>5, <2>7 DEF q
<1>9. CASE id = "exI"
  <2>1. PICK i \in Ident : Introducing(r, i) BY <1>9, FormedBy
  <2>2. /\ r.goal = Ex(i.ty) /\ r.needed = {} /\ r.input = i
        /\ r.ants = << Antecedent(In(i), {}, {}, << >>) >>
    BY <1>9, <2>1 DEF Introducing
  <2>3. RenamedIdent(NoHints, r.input) = i BY <2>2, NoRenaming
  <2>4. u.goal = Ex(i.ty) BY <1>3, <2>2, PredIn, NullAssumption
  <2>5. u.goal.op = "ex" /\ u.goal.ty = i.ty BY <2>4 DEF Ex
  <2>6. q = ExI(u, i) BY <1>9, <2>3 DEF Replayed
  <2>7. ExI(u, i) = Rule("exI", r.goal, r.needed, r.ants, i) BY <2>2, <2>4, <2>5 DEF ExI
  <2> HIDE DEF q
  <2> QED BY <1>2, <1>4, <1>9, <2>6, <2>7 DEF q
<1>10. CASE id = "exF"
  <2>1. PICK i \in Ident : Introducing(r, i) BY <1>10, FormedBy
  <2>2. r.goal = Null /\ r.needed = {} /\ r.ants = << Freeing(i) >>
    BY <1>10, <2>1 DEF Introducing
  <2>3. 1 \in DOMAIN r.ants /\ r.ants[1] = Freeing(i) BY <2>2, FirstOf
  <2>4. FirstAction(r).hyps = {Ex(i.ty)} /\ FirstAction(r).idents = {i}
    BY <2>3 DEF FirstAction, Freeing, Antecedent
  <2>5. RenamedPred(NoHints, The(FirstAction(r).hyps)) = Ex(i.ty)
        /\ The(FirstAction(r).idents).name = i.name
    BY <2>4, TheOnly, NoRenaming, PredIn
  <2>6. i.name \notin Names(u.env) BY <2>3, FreedNameMade
  <2>7. Ex(i.ty).op = "ex" /\ Ex(i.ty).ty = i.ty BY DEF Ex
  <2>8. Solvable(i.name, u.env) /\ [name |-> Solve(i.name, u.env), ty |-> Ex(i.ty).ty] = i
    BY <2>6, <2>7, SolvesItself
  <2>9. q = ExF(u, Ex(i.ty), i.name) BY <1>10, <2>5 DEF Replayed
  <2>10. ExF(u, Ex(i.ty), i.name) = Rule("exF", Null, {}, << Freeing(i) >>, Null)
    BY <2>7, <2>8 DEF ExF, Freeing
  <2> HIDE DEF q
  <2> QED BY <1>2, <1>4, <1>10, <2>2, <2>9, <2>10 DEF q
<1>11. CASE id = "cut"
  <2>1. PICK lemma \in Pred : Cutting(r, lemma) BY <1>11, FormedBy
  <2>2. /\ r.goal = Null /\ r.needed = {} /\ r.input = lemma
        /\ r.ants = << Antecedent(lemma, {}, {}, << >>), Antecedent(Null, {lemma}, {}, << >>) >>
    BY <2>1 DEF Cutting
  <2>3. RenamedPred(NoHints, r.input) = lemma BY <2>2, NoRenaming
  <2>4. q = Cut(lemma) BY <1>11, <2>3 DEF Replayed
  <2>5. Cut(lemma) = Rule("cut", r.goal, r.needed, r.ants, lemma) BY <2>2 DEF Cut
  <2> HIDE DEF q
  <2> QED BY <1>2, <1>4, <1>11, <2>4, <2>5 DEF q
<1>12. CASE id = "mngHyp"
  <2>1. PICK a \in SelectionAction : Managing(r, a) BY <1>12, FormedBy
  <2>2. r.goal = Null /\ r.needed = {} /\ r.ants = << Antecedent(Null, {}, {}, << a >>) >>
    BY <2>1 DEF Managing
  <2>3. r.ants[1] = Antecedent(Null, {}, {}, << a >>) BY <2>2, FirstOf
  <2>4. FirstAction(r) = a BY <2>3, AntecedentFields DEF FirstAction
  <2>5. Renamed(NoHints, a.hyps) = a.hyps BY NoRenaming DEF SelectionAction
  <2>6. [a EXCEPT !.hyps = a.hyps] = a BY DEF SelectionAction
  <2>7. q = MngHyp(a) BY <1>12, <2>4, <2>5, <2>6 DEF Replayed
  <2>8. MngHyp(a) = Rule("mngHyp", r.goal, r.needed, r.ants, Null) BY <2>2 DEF MngHyp
  <2> HIDE DEF q
  <2> QED BY <1>2, <1>4, <1>12, <2>7, <2>8 DEF q
<1>13. CASE id = "review"
  <2>1. Closing(r) BY <1>13, FormedBy
  <2>2. r.goal \in Pred /\ r.ants = << >> /\ r.conf <= REVIEWED_MAX
    BY <1>13, <2>1 DEF Closing, External, ContextDependent
  <2>3. r.conf \in 0 .. REVIEWED_MAX
    <3>1. r.conf \in Nat /\ r.conf <= REVIEWED_MAX BY <2>2, RuleFields
    <3> QED BY <3>1 DEF REVIEWED_MAX
  <2>4. u.goal = r.goal BY <1>3, <2>2, NullAssumption
  <2>5. RenamedPred(NoHints, r.goal) = r.goal /\ Renamed(NoHints, r.needed) = r.needed
    BY <1>1, <2>2, NoRenaming
  <2>6. q = Review(u, r.goal, r.needed, r.conf) BY <1>13, <2>5 DEF Replayed
  <2> HIDE DEF q
  <2>7. Made(q, "review") /\ q.goal = r.goal /\ q.needed = r.needed
    BY <1>3, <2>3, <2>4, <2>6, ReviewMakes
  <2>8. Formed(q) /\ q.desc.id = "review" BY <2>7 DEF Made
  <2>9. Closing(q) BY <2>8, FormedBy
  <2>10. q.ants = << >> BY <2>9 DEF Closing
  <2> QED BY <2>2, <2>7, <2>8, <2>10, RuleFields DEF Alike, q
<1> QED BY <1>6, <1>7, <1>8, <1>9, <1>10, <1>11, <1>12, <1>13 DEF Implemented
-----------------------------------------------------------------------------
(* Renaming.                                                                *)

LEMMA RenamedFree ==
    ASSUME NEW h, HintsOK(h), NEW p \in Pred
    PROVE  Free(RenamedPred(h, p)) = {RenamedIdent(h, i) : i \in Free(p)}
<1>1. CASE p.op # "in" BY <1>1 DEF RenamedPred, Free
<1>2. CASE p.op = "in"
  <2> DEFINE i == [name |-> p.name, ty |-> p.ty]
             k == [name |-> RenamedName(h, p.name), ty |-> p.ty]
  <2>1. i \in Ident /\ p = In(i) BY <1>2, PredShape
  <2>2. p = [op |-> "in", name |-> p.name, ty |-> p.ty] BY <2>1 DEF In
  <2>3. [p EXCEPT !.name = RenamedName(h, @)] = [op |-> "in", name |-> k.name, ty |-> k.ty]
    BY <2>2
  <2>4. RenamedPred(h, p) = In(k) BY <1>2, <2>3 DEF RenamedPred, In
  <2>5. RenamedIdent(h, i) = k BY DEF RenamedIdent
  <2>6. k \in Ident BY <2>1, <2>5, RenamedType
  <2> HIDE DEF i, k
  <2> QED BY <2>1, <2>4, <2>5, <2>6, PredIn
<1> QED BY <1>1, <1>2

(* Quantifications have no name to rename.                                   *)
LEMMA RenamedForms ==
    ASSUME NEW h, NEW i \in Ident
    PROVE  /\ RenamedPred(h, All(i.ty)) = All(i.ty)
           /\ RenamedPred(h, Ex(i.ty)) = Ex(i.ty)
           /\ RenamedPred(h, In(i)) = In(RenamedIdent(h, i))
           /\ RenamedIdent(h, i).ty = i.ty
<1>1. RenamedPred(h, All(i.ty)) = All(i.ty) /\ RenamedPred(h, Ex(i.ty)) = Ex(i.ty)
  BY DEF RenamedPred, All, Ex
<1>2. i = [name |-> i.name, ty |-> i.ty] BY DEF Ident
<1> DEFINE k == [name |-> RenamedName(h, i.name), ty |-> i.ty]
<1>3. RenamedIdent(h, i) = k BY <1>2 DEF RenamedIdent
<1>4. RenamedPred(h, In(i)) = In(k) BY DEF RenamedPred, In
<1> QED BY <1>1, <1>3, <1>4

(* Hints that agree on the names of an environment rename alike what is of   *)
(* that environment.                                                         *)
Agree(g, h, env) == \A n \in Names(env) : RenamedName(g, n) = RenamedName(h, n)

LEMMA AgreeRenames ==
    ASSUME NEW g, HintsOK(g), NEW h, HintsOK(h), NEW env \in SUBSET Ident, Agree(g, h, env)
    PROVE  /\ \A i \in env : RenamedIdent(g, i) = RenamedIdent(h, i)
           /\ \A p \in Pred : Free(p) \subseteq env => RenamedPred(g, p) = RenamedPred(h, p)
<1>1. ASSUME NEW i \in env PROVE RenamedIdent(g, i) = RenamedIdent(h, i)
  <2>1. i.name \in Names(env) BY DEF Names
  <2>2. RenamedName(g, i.name) = RenamedName(h, i.name) BY <2>1 DEF Agree
  <2> QED BY <2>2 DEF RenamedIdent
<1>2. ASSUME NEW p \in Pred, Free(p) \subseteq env PROVE RenamedPred(g, p) = RenamedPred(h, p)
  <2>1. CASE p.op # "in" BY <2>1 DEF RenamedPred
  <2>2. CASE p.op = "in"
    <3> DEFINE i == [name |-> p.name, ty |-> p.ty]
    <3>1. i \in Ident /\ p = In(i) BY <2>2, PredShape
    <3> HIDE DEF i
    <3>2. i \in env BY <1>2, <3>1, PredIn
    <3>3. RenamedPred(g, p) = In(RenamedIdent(g, i)) /\ RenamedPred(h, p) = In(RenamedIdent(h, i))
      BY <3>1, RenamedForms
    <3> QED BY <1>1, <3>2, <3>3
  <2> QED BY <2>1, <2>2
<1> QED BY <1>1, <1>2

(* Where nothing is introduced, nothing is hinted.                           *)
LEMMA AddHintsNone ==
    ASSUME NEW h, HintsOK(h), NEW old, NEW current, old.idents = {}
    PROVE  AddHints(h, old, current) = h
<1> DEFINE pairs == {p \in old.idents \X current.idents :
                       p[1].name # p[2].name /\ p[1].ty = p[2].ty}
           names == {p[1].name : p \in pairs}
           chosen(n) == (CHOOSE p \in pairs : p[1].name = n)[2].name
<1>1. AddHints(h, old, current) =
         [n \in DOMAIN h \cup names |-> IF n \in names THEN chosen(n) ELSE h[n]]
  BY DEF AddHints
<1>2. pairs = {} OBVIOUS
<1>3. names = {} BY <1>2
<1> HIDE DEF names, chosen
<1>4. AddHints(h, old, current) = [n \in DOMAIN h |-> h[n]] BY <1>1, <1>3
<1>5. h = [n \in DOMAIN h |-> h[n]] BY DEF HintsOK
<1> QED BY <1>4, <1>5

(* What is introduced under another name is hinted, and only that.           *)
LEMMA AddHintsOne ==
    ASSUME NEW h, HintsOK(h), NEW i \in Ident, NEW k \in Ident, i.ty = k.ty,
           i.name \notin DOMAIN h,
           NEW old, old.idents = {i}, NEW current, current.idents = {k}
    PROVE  LET g == AddHints(h, old, current) IN
           /\ RenamedIdent(g, i) = k
           /\ DOMAIN g \subseteq DOMAIN h \cup {i.name}
           /\ \A n : n # i.name => RenamedName(g, n) = RenamedName(h, n)
<1> DEFINE pairs == {p \in old.idents \X current.idents :
                       p[1].name # p[2].name /\ p[1].ty = p[2].ty}
           names == {p[1].name : p \in pairs}
           pair(n) == CHOOSE p \in pairs : p[1].name = n
           g == AddHints(h, old, current)
<1>1. g = [n \in DOMAIN h \cup names |-> IF n \in names THEN pair(n)[2].name ELSE h[n]]
  BY DEF AddHints
<1>2. i = [name |-> i.name, ty |-> i.ty] /\ k = [name |-> k.name, ty |-> k.ty] BY DEF Ident
<1>3. \A p \in pairs : p = << i, k >> /\ i.name # k.name OBVIOUS
<1>4. i.name # k.name => << i, k >> \in pairs OBVIOUS
<1> HIDE DEF pairs
<1>5. names = IF i.name # k.name THEN {i.name} ELSE {} BY <1>3, <1>4
<1>6. i.name # k.name => pair(i.name)[2].name = k.name
  <2> SUFFICES ASSUME i.name # k.name PROVE pair(i.name)[2].name = k.name OBVIOUS
  <2>1. \E p \in pairs : p[1].name = i.name BY <1>4
  <2>2. pair(i.name) \in pairs BY <2>1
  <2>3. pair(i.name) = << i, k >> BY <1>3, <2>2
  <2> HIDE DEF pair
  <2> QED BY <2>3
<1> HIDE DEF names, pair, g
<1>7. DOMAIN g \subseteq DOMAIN h \cup {i.name} BY <1>1, <1>5
<1>8. ASSUME NEW n, n # i.name PROVE RenamedName(g, n) = RenamedName(h, n)
  BY <1>1, <1>5, <1>8 DEF RenamedName
<1>9. RenamedName(g, i.name) = k.name
  <2>1. CASE i.name # k.name BY <1>1, <1>5, <1>6, <2>1 DEF RenamedName
  <2>2. CASE i.name = k.name BY <1>1, <1>5, <2>2 DEF RenamedName
  <2> QED BY <2>1, <2>2
<1>10. RenamedIdent(g, i) = [name |-> RenamedName(g, i.name), ty |-> i.ty]
  BY <1>2 DEF RenamedIdent
<1>11. RenamedIdent(g, i) = k BY <1>2, <1>9, <1>10
<1> QED BY <1>7, <1>8, <1>11 DEF g

(* Hints stay a map of names to names.                                       *)
LEMMA AddHintsType ==
    ASSUME NEW h, HintsOK(h), NEW old \in AntecedentRecord, NEW current \in AntecedentRecord
    PROVE  HintsOK(AddHints(h, old, current))
<1> DEFINE pairs == {p \in old.idents \X current.idents :
                       p[1].name # p[2].name /\ p[1].ty = p[2].ty}
           names == {p[1].name : p \in pairs}
           chosen(n) == CHOOSE p \in pairs : p[1].name = n
           g == AddHints(h, old, current)
<1>1. old.idents \in SUBSET Ident /\ current.idents \in SUBSET Ident BY DEF AntecedentRecord
<1>2. \A p \in pairs : p[1] \in Ident /\ p[2] \in Ident BY <1>1
<1>3. \A n \in Ident : n.name \in Name BY DEF Ident
<1>4. g = [n \in DOMAIN h \cup names |-> IF n \in names THEN chosen(n)[2].name ELSE h[n]]
  BY DEF AddHints
<1>5. ASSUME NEW n \in names PROVE chosen(n)[2].name \in Name
  <2>1. \E p \in pairs : p[1].name = n OBVIOUS
  <2> HIDE DEF pairs
  <2>2. chosen(n) \in pairs BY <2>1
  <2> HIDE DEF chosen
  <2> QED BY <1>2, <1>3, <2>2
<1>6. names \in SUBSET Name
  <2> HIDE DEF pairs
  <2> QED BY <1>2, <1>3
<1> HIDE DEF names, chosen, pairs, g
<1>7. PICK S \in SUBSET Name : h \in [S -> Name] BY DEF HintsOK
<1>8. S \cup names \in SUBSET Name BY <1>6
<1>9. g \in [S \cup names -> Name] BY <1>4, <1>5, <1>7
<1> QED BY <1>8, <1>9 DEF HintsOK, g

-----------------------------------------------------------------------------
(* A rule that does elsewhere, under other names, what a recorded one did.   *)

(* s has, as the hints rename it, what d needs of s0.                        *)
Carries(h, d, s0, s) ==
    /\ HintsOK(h) /\ DOMAIN h \subseteq Names(s0.env)
    /\ d.goal # Null => s.goal = RenamedPred(h, s0.goal)
    /\ Renamed(h, d.hyps) \subseteq s.hyps
    /\ \A i \in d.idents : RenamedIdent(h, i) \in s.env

(* The antecedent b in env is what a in env0 becomes under the hints g,      *)
(* which are h and those of what a introduces.                               *)
Follows(h, g, env0, env, a, b) ==
    /\ HintsOK(g) /\ Agree(g, h, env0)
    /\ DOMAIN g \subseteq DOMAIN h \cup Names(a.idents)
    /\ Plain(b) /\ Fresh(b.idents, env)
    /\ b.goal = IF a.goal = Null THEN Null ELSE RenamedPred(g, a.goal)
    /\ b.added = Renamed(g, a.added)
    /\ \A i \in a.idents : RenamedIdent(g, i) \in b.idents

Mirrors(h, hints, r, q, s0, s) ==
    /\ Formed(q) /\ q.needed \subseteq s.hyps
    /\ q.goal \in {Null, s.goal} /\ (q.goal = Null <=> r.goal = Null)
    /\ DOMAIN q.ants = DOMAIN r.ants
    /\ \A j \in DOMAIN r.ants :
          Plain(r.ants[j]) /\ Follows(h, hints[j], s0.env, s.env, r.ants[j], q.ants[j])

(* What a node needs through a plain antecedent.                             *)
LEMMA PlainNeeds ==
    ASSUME NEW s, WellFormed(s), NEW r, Formed(r), Applies(r, s),
           NEW below \in [DOMAIN r.ants -> DepsRecord],
           NEW j \in DOMAIN r.ants, Plain(r.ants[j])
    PROVE  LET d == NodeDeps(r, s, below)
               ant == r.ants[j]
           IN /\ below[j].hyps \subseteq d.hyps \cup ant.added
              /\ below[j].idents \subseteq d.idents \cup ant.idents
              /\ ant.goal # Null => Free(ant.goal) \subseteq d.idents \cup ant.idents
              /\ \A p \in ant.added : Free(p) \subseteq d.idents \cup ant.idents
<1> DEFINE d == NodeDeps(r, s, below)
           ant == r.ants[j]
           sub == Through(r, s, below, j)
           goals == IF ant.goal = Null THEN {} ELSE {ant.goal}
<1>1. sub.idents \subseteq d.idents /\ sub.hyps \subseteq d.hyps
  <2>1. d.hyps = r.needed \cup UNION {Through(r, s, below, k).hyps : k \in DOMAIN r.ants}
        /\ \A k \in DOMAIN r.ants : Through(r, s, below, k).idents \subseteq d.idents
    BY NodeDepsFields
  <2> HIDE DEF d
  <2> QED BY <2>1
<1>2. PlainlyThrough(ant, below[j], sub)
  <2>1. ant \in AntecedentRecord BY AntecedentsFormed
  <2>2. Fired(r, j, s) = {} BY PlainFiresNot
  <2>3. sub = ThroughAntecedent(ant, {}, below[j]) BY <2>2 DEF Through
  <2>4. below[j] \in DepsRecord OBVIOUS
  <2> HIDE DEF sub, ant
  <2> QED BY <2>1, <2>3, <2>4, PlainThrough DEF ant
<1> HIDE DEF d, sub, ant
<1>3. /\ sub.hyps = below[j].hyps \ ant.added
      /\ sub.idents = (below[j].idents \cup FreeOf(goals) \cup FreeOf(ant.added)) \ ant.idents
  BY <1>2 DEF PlainlyThrough
<1>4. ant.goal # Null => Free(ant.goal) = FreeOf(goals) BY DEF FreeOf
<1>5. \A p \in ant.added : Free(p) \subseteq FreeOf(ant.added) BY DEF FreeOf
<1> HIDE DEF goals
<1> QED BY <1>1, <1>3, <1>4, <1>5 DEF d, ant

(* A rule that mirrors a recorded one applies where what that needs is       *)
(* carried to.                                                               *)
LEMMA MirrorApplies ==
    ASSUME NEW s0, WellFormed(s0), NEW r, Formed(r), Applies(r, s0),
           NEW below \in [DOMAIN r.ants -> DepsRecord],
           Own(NodeDeps(r, s0, below), s0),
           NEW s, WellFormed(s), NEW h, Carries(h, NodeDeps(r, s0, below), s0, s),
           NEW hints, NEW q, Mirrors(h, hints, r, q, s0, s)
    PROVE  Applies(q, s)
<1> DEFINE d == NodeDeps(r, s0, below)
<1>1. /\ Formed(q) /\ q.needed \subseteq s.hyps /\ q.goal \in {Null, s.goal}
      /\ (q.goal = Null <=> r.goal = Null) /\ DOMAIN q.ants = DOMAIN r.ants
  BY DEF Mirrors
<1>2. HintsOK(h) /\ \A i \in d.idents : RenamedIdent(h, i) \in s.env BY DEF Carries
<1>3. d.idents \subseteq s0.env BY DEF Own
<1>4. s0.env \in SUBSET Ident BY DEF WellFormed, Sequent
<1>5. s.goal \in Pred /\ Typed({s.goal}, s.env) BY DEF WellFormed, Sequent, Typed
<1> HIDE DEF d
<1>6. ASSUME NEW j \in DOMAIN q.ants PROVE Instance0(q.ants[j], s, Inherited(q, s)) # Null
  <2> DEFINE a == r.ants[j]
             b == q.ants[j]
             g == hints[j]
             env == s.env \cup b.idents
  <2>1. j \in DOMAIN r.ants BY <1>1
  <2>2. Plain(a) /\ Follows(h, g, s0.env, s.env, a, b) BY <2>1 DEF Mirrors
  <2>3. /\ a.goal # Null => Free(a.goal) \subseteq d.idents \cup a.idents
        /\ \A p \in a.added : Free(p) \subseteq d.idents \cup a.idents
    BY <2>1, <2>2, PlainNeeds DEF d
  <2>4. a \in AntecedentRecord /\ b \in AntecedentRecord BY <1>1, <2>1, AntecedentsFormed
  <2>5. a.goal = Null => r.goal = Null BY <2>1, ChildGoal
  <2> HIDE DEF a, b, g
  <2>6. /\ HintsOK(g) /\ Agree(g, h, s0.env) /\ Plain(b) /\ Fresh(b.idents, s.env)
        /\ b.goal = IF a.goal = Null THEN Null ELSE RenamedPred(g, a.goal)
        /\ b.added = Renamed(g, a.added)
        /\ \A i \in a.idents : RenamedIdent(g, i) \in b.idents
    BY <2>2 DEF Follows
  <2>7. a.goal \in Pred \cup {Null} /\ a.added \in SUBSET Pred BY <2>4 DEF AntecedentRecord
  <2>8. \A i \in d.idents \cup a.idents : RenamedIdent(g, i) \in env
    <3>1. \A i \in d.idents : RenamedIdent(g, i) = RenamedIdent(h, i)
      BY <1>2, <1>3, <1>4, <2>6, AgreeRenames
    <3> QED BY <1>2, <2>6, <3>1
  <2>9. ASSUME NEW p \in Pred, Free(p) \subseteq d.idents \cup a.idents
        PROVE  Free(RenamedPred(g, p)) \subseteq env
    <3>1. Free(RenamedPred(g, p)) = {RenamedIdent(g, i) : i \in Free(p)}
      BY <2>6, RenamedFree
    <3> HIDE DEF env
    <3> QED BY <2>8, <2>9, <3>1
  <2>10. Typed(b.added, env)
    <3> HIDE DEF env
    <3> QED BY <2>3, <2>6, <2>7, <2>9 DEF Typed, Renamed
  <2>11. b.goal # Null => Typed({b.goal}, env)
    <3> HIDE DEF env
    <3> QED BY <2>3, <2>6, <2>7, <2>9 DEF Typed
  <2>12. RenamedPred(g, a.goal) \in Pred \/ a.goal = Null BY <2>6, <2>7, RenamedType
  <2>13. b.goal = Null => a.goal = Null BY <2>6, <2>12, NullAssumption
  <2>14. b.goal = Null => Inherited(q, s) = s.goal BY <1>1, <2>5, <2>13 DEF Inherited
  <2>15. b.goal = Null => Typed({Inherited(q, s)}, env) BY <1>5, <2>14, TypedGrows
  <2>16. Inherited(q, s) \in Pred \cup {Null} BY InheritedIsPred
  <2>17. b.goal = Null => Inherited(q, s) # Null BY <1>5, <2>14, NullAssumption
  <2>18. b.unsel = {} BY <2>6 DEF Plain
  <2>19. Instance0(b, s, Inherited(q, s)) # Null
    BY <2>4, <2>6, <2>10, <2>11, <2>15, <2>16, <2>17, <2>18, ModifySucceeds
  <2> QED BY <2>19 DEF b
<1> QED BY <1>1, <1>6 DEF Applies

(* And its children have, renamed, what is needed above them.                *)
LEMMA MirrorChild ==
    ASSUME NEW s0, WellFormed(s0), NEW r, Formed(r), Applies(r, s0),
           NEW below \in [DOMAIN r.ants -> DepsRecord],
           Own(NodeDeps(r, s0, below), s0),
           NEW s, WellFormed(s), NEW h, Carries(h, NodeDeps(r, s0, below), s0, s),
           NEW hints, NEW q, Mirrors(h, hints, r, q, s0, s),
           NEW j \in DOMAIN r.ants
    PROVE  Carries(hints[j], below[j], GenSequent(r, j, s0).seq, GenSequent(q, j, s).seq)
<1> DEFINE d == NodeDeps(r, s0, below)
           a == r.ants[j]
           b == q.ants[j]
           g == hints[j]
           c0 == GenSequent(r, j, s0).seq
           c == GenSequent(q, j, s).seq
           inheriting == {k \in DOMAIN r.ants : r.ants[k].goal = Null}
<1>1. Applies(q, s) BY MirrorApplies
<1>2. Formed(q) /\ (q.goal = Null <=> r.goal = Null) /\ j \in DOMAIN q.ants BY DEF Mirrors
<1>3. Plain(a) /\ Follows(h, g, s0.env, s.env, a, b) BY DEF Mirrors
<1>4. /\ below[j].hyps \subseteq d.hyps \cup a.added
      /\ below[j].idents \subseteq d.idents \cup a.idents
  BY <1>3, PlainNeeds
<1>5. c0.env = s0.env \cup a.idents
      /\ c0.goal = IF a.goal = Null THEN Inherited(r, s0) ELSE a.goal
  BY <1>3, PlainChild
<1>6. /\ HintsOK(g) /\ Agree(g, h, s0.env) /\ Plain(b)
      /\ DOMAIN g \subseteq DOMAIN h \cup Names(a.idents)
      /\ b.goal = IF a.goal = Null THEN Null ELSE RenamedPred(g, a.goal)
      /\ b.added = Renamed(g, a.added)
      /\ \A i \in a.idents : RenamedIdent(g, i) \in b.idents
  BY <1>3 DEF Follows
<1>7. /\ c.env = s.env \cup b.idents /\ c.hyps = s.hyps \cup b.added
      /\ c.goal = IF b.goal = Null THEN Inherited(q, s) ELSE b.goal
  BY <1>1, <1>2, <1>6, PlainChild
<1>8. a.goal = Null => r.goal = Null BY ChildGoal
<1>9. a \in AntecedentRecord BY AntecedentsFormed
<1>10. a.goal = Null /\ below[j].goal # Null => d.goal # Null
  <2>1. \/ r.goal # Null /\ d.goal = r.goal
        \/ r.goal = Null /\ d.goal = Null /\ \A k \in inheriting : below[k].goal = Null
        \/ /\ r.goal = Null /\ d.goal # Null
           /\ \E k \in inheriting : d.goal = below[k].goal
    BY NodeDepsFields
  <2> HIDE DEF d
  <2> QED BY <2>1
<1>11. /\ HintsOK(h) /\ DOMAIN h \subseteq Names(s0.env)
       /\ d.goal # Null => s.goal = RenamedPred(h, s0.goal)
       /\ Renamed(h, d.hyps) \subseteq s.hyps
       /\ \A i \in d.idents : RenamedIdent(h, i) \in s.env
  BY DEF Carries
<1>12. d.idents \subseteq s0.env /\ d.hyps \subseteq s0.hyps BY DEF Own
<1>13. s0.env \in SUBSET Ident /\ s0.hyps \in SUBSET Pred /\ s0.goal \in Pred
       /\ Typed(s0.hyps \cup {s0.goal}, s0.env)
  BY DEF WellFormed, Sequent
<1> HIDE DEF d, a, b, g, c0, c, inheriting
<1>14. /\ \A i \in s0.env : RenamedIdent(g, i) = RenamedIdent(h, i)
       /\ \A p \in s0.hyps \cup {s0.goal} : RenamedPred(g, p) = RenamedPred(h, p)
  <2>1. /\ \A i \in s0.env : RenamedIdent(g, i) = RenamedIdent(h, i)
        /\ \A p \in Pred : Free(p) \subseteq s0.env => RenamedPred(g, p) = RenamedPred(h, p)
    BY <1>6, <1>11, <1>13, AgreeRenames
  <2> QED BY <1>13, <2>1 DEF Typed
<1>15. DOMAIN g \subseteq Names(c0.env) BY <1>5, <1>6, <1>11 DEF Names
<1>16. below[j].goal # Null => c.goal = RenamedPred(g, c0.goal)
  <2> SUFFICES ASSUME below[j].goal # Null PROVE c.goal = RenamedPred(g, c0.goal) OBVIOUS
  <2>1. CASE a.goal = Null
    <3>1. Inherited(r, s0) = s0.goal /\ Inherited(q, s) = s.goal
      BY <1>2, <1>8, <2>1 DEF Inherited
    <3>2. c0.goal = s0.goal /\ c.goal = s.goal BY <1>5, <1>6, <1>7, <2>1, <3>1
    <3> QED BY <1>10, <1>11, <1>14, <2>1, <3>2
  <2>2. CASE a.goal # Null
    <3>1. a.goal \in Pred BY <1>9, <2>2 DEF AntecedentRecord
    <3>2. RenamedPred(g, a.goal) # Null BY <1>6, <3>1, RenamedType, NullAssumption
    <3> QED BY <1>5, <1>6, <1>7, <2>2, <3>2
  <2> QED BY <2>1, <2>2
<1>17. Renamed(g, below[j].hyps) \subseteq c.hyps
  <2> SUFFICES ASSUME NEW p \in below[j].hyps PROVE RenamedPred(g, p) \in c.hyps
    BY DEF Renamed
  <2>1. CASE p \in a.added BY <1>6, <1>7, <2>1 DEF Renamed
  <2>2. CASE p \in d.hyps
    <3>1. RenamedPred(h, p) \in s.hyps BY <1>11, <2>2 DEF Renamed
    <3>2. RenamedPred(g, p) = RenamedPred(h, p) BY <1>12, <1>14, <2>2
    <3> QED BY <1>7, <3>1, <3>2
  <2> QED BY <1>4, <2>1, <2>2
<1>18. \A i \in below[j].idents : RenamedIdent(g, i) \in c.env
  BY <1>4, <1>6, <1>7, <1>11, <1>12, <1>14
<1> QED BY <1>6, <1>15, <1>16, <1>17, <1>18 DEF Carries, g, c0, c
-----------------------------------------------------------------------------
(* What a reasoner makes of the renamed input mirrors the recorded rule.     *)

Anew(h, r, q) == [j \in DOMAIN q.ants |-> AddHints(h, r.ants[j], q.ants[j])]

LEMMA FollowsPlainly ==
    ASSUME NEW h, HintsOK(h), NEW env0, NEW env, NEW a, a.idents = {},
           NEW b, Plain(b), b.idents = {}, b.added = Renamed(h, a.added),
           b.goal = IF a.goal = Null THEN Null ELSE RenamedPred(h, a.goal)
    PROVE  Follows(h, AddHints(h, a, b), env0, env, a, b)
<1>1. AddHints(h, a, b) = h BY AddHintsNone
<1>2. Agree(h, h, env0) /\ Fresh(b.idents, env) BY DEF Agree, Fresh
<1>3. DOMAIN h \subseteq DOMAIN h \cup Names(a.idents) OBVIOUS
<1>4. \A i \in a.idents : RenamedIdent(h, i) \in b.idents OBVIOUS
<1>5. Follows(h, h, env0, env, a, b) BY <1>2, <1>3, <1>4 DEF Follows
<1> QED BY <1>1, <1>5

LEMMA MirrorsOne ==
    ASSUME NEW h, NEW s0, NEW s, NEW r, NEW q, NEW a, NEW b,
           r.ants = << a >>, q.ants = << b >>,
           Formed(q), q.needed \subseteq s.hyps,
           q.goal \in {Null, s.goal}, q.goal = Null <=> r.goal = Null,
           Plain(a), Follows(h, AddHints(h, a, b), s0.env, s.env, a, b)
    PROVE  Mirrors(h, Anew(h, r, q), r, q, s0, s)
<1>1. DOMAIN q.ants = DOMAIN r.ants OBVIOUS
<1>2. ASSUME NEW j \in DOMAIN r.ants
      PROVE  /\ Plain(r.ants[j])
             /\ Follows(h, Anew(h, r, q)[j], s0.env, s.env, r.ants[j], q.ants[j])
  <2>1. r.ants[j] = a /\ q.ants[j] = b BY <1>1, OneMember
  <2>2. Anew(h, r, q)[j] = AddHints(h, a, b) BY <1>1, <2>1 DEF Anew
  <2> QED BY <2>1, <2>2
<1> QED BY <1>1, <1>2 DEF Mirrors

LEMMA NotPred == \A p \in Pred : p # Null
BY NullAssumption

(* Full confidence is replayed as full confidence, and a review's as its own.*)
LEMMA ReplayedConfidence ==
    ASSUME Versions, NEW r, Formed(r), r.conf > UNCERTAIN_MAX, NEW s, WellFormed(s),
           NEW h, HintsOK(h), Replayed(r, s, h) # Null
    PROVE  Replayed(r, s, h).conf = r.conf
<1>1. Made(Replayed(r, s, h), r.desc.id) /\ r.desc.id \in Implemented /\ Trusted(r.desc)
  BY ReplayedMakes
<1>2. CASE r.desc.id # "review"
  <2>1. r.conf = DISCHARGED_MAX BY <1>1, <1>2 DEF Formed, Graded
  <2> QED BY <1>1, <1>2, <2>1 DEF Made
<1>3. CASE r.desc.id = "review"
  <2> DEFINE goal == RenamedPred(h, r.goal)
             needed == Renamed(h, r.needed)
  <2>1. Replayed(r, s, h) = Review(s, goal, needed, r.conf) BY <1>1, <1>3 DEF Replayed
  <2>2. s.goal = goal /\ needed \subseteq s.hyps BY <2>1 DEF Review
  <2>3. Closing(r) BY <1>3, FormedBy
  <2>4. r.conf <= REVIEWED_MAX BY <1>3, <2>3 DEF Closing, External, ContextDependent
  <2>5. r.conf \in 0 .. REVIEWED_MAX BY <2>4, RuleFields DEF REVIEWED_MAX
  <2> HIDE DEF goal, needed
  <2> QED BY <2>1, <2>2, <2>5, ReviewMakes
<1> QED BY <1>2, <1>3

LEMMA ReplayMirrors ==
    ASSUME Versions, NEW s0, WellFormed(s0), NEW r, Formed(r), Applies(r, s0),
           NEW below \in [DOMAIN r.ants -> DepsRecord],
           NEW s, WellFormed(s), NEW h, Carries(h, NodeDeps(r, s0, below), s0, s),
           Trusted(r.desc), r.desc.id \in Implemented \ {"exF"},
           \A n \in Name : Solvable(n, s.env)
    PROVE  LET q == Replayed(r, s, h) IN
           q # Null /\ Mirrors(h, Anew(h, r, q), r, q, s0, s)
<1> DEFINE id == r.desc.id
           d == NodeDeps(r, s0, below)
           q == Replayed(r, s, h)
<1>1. /\ HintsOK(h) /\ DOMAIN h \subseteq Names(s0.env)
      /\ d.goal # Null => s.goal = RenamedPred(h, s0.goal)
      /\ Renamed(h, d.hyps) \subseteq s.hyps
      /\ \A i \in d.idents : RenamedIdent(h, i) \in s.env
  BY DEF Carries
<1>2. /\ r.needed \subseteq d.hyps
      /\ r.goal # Null => d.goal = r.goal
  <2>1. /\ d.hyps = r.needed \cup UNION {Through(r, s0, below, j).hyps : j \in DOMAIN r.ants}
        /\ \/ r.goal # Null /\ d.goal = r.goal
           \/ r.goal = Null
    BY NodeDepsFields
  <2> HIDE DEF d
  <2> QED BY <2>1
<1> HIDE DEF d
<1>3. /\ \A p \in r.needed : RenamedPred(h, p) \in s.hyps
      /\ r.goal # Null => s.goal = RenamedPred(h, r.goal)
  <2>1. \A p \in r.needed : RenamedPred(h, p) \in s.hyps BY <1>1, <1>2 DEF Renamed
  <2>2. r.goal # Null => r.goal = s0.goal BY DEF Applies
  <2> QED BY <1>1, <1>2, <2>1, <2>2
<1>4. s.goal \in Pred /\ s.env \in SUBSET Ident BY DEF WellFormed, Sequent
<1>5. Implemented \subseteq Reasoner /\ Null \in Ident \cup Pred \cup {Null} BY DEF Reasoner
<1>6. q # Null => Formed(q) BY <1>1, ReplayedMakes DEF Made
<1>7. ASSUME NEW goal \in Pred \cup {Null}, NEW needed \in SUBSET Pred,
             NEW ants \in Seq(AntecedentRecord),
             NEW x \in Ident \cup Pred \cup {Null}, NEW k \in Reasoner,
             q = Rule(k, goal, needed, ants, x)
      PROVE  q # Null /\ q.goal = goal /\ q.needed = needed /\ q.ants = ants
  <2>1. Ruled(Rule(k, goal, needed, ants, x), k, goal, needed, ants, x) BY RuleType
  <2> HIDE DEF q
  <2>2. q \in ProofRule /\ q.goal = goal /\ q.needed = needed /\ q.ants = ants
    BY <1>7, <2>1 DEF Ruled
  <2> QED BY <2>2, RuleAssumption
<1>8. CASE id = "hyp"
  <2>1. q = Hyp(s) BY <1>8 DEF Replayed
  <2>2. Closing(r) BY <1>8, FormedBy
  <2>3. r.goal \in Pred /\ r.needed = {r.goal} /\ r.ants = << >>
    BY <1>8, <2>2 DEF Closing, External, ContextDependent
  <2>4. s.goal \in s.hyps BY <1>3, <2>3, NotPred
  <2>5. Hyp(s) = Rule("hyp", s.goal, {s.goal}, << >>, Null) BY <2>4 DEF Hyp
  <2>6. {s.goal} \in SUBSET Pred /\ << >> \in Seq(AntecedentRecord) BY <1>4
  <2> HIDE DEF q
  <2>7. q # Null /\ q.goal = s.goal /\ q.needed = {s.goal} /\ q.ants = << >>
    BY <1>4, <1>5, <1>7, <1>8, <2>1, <2>5, <2>6 DEF q
  <2>8. Formed(q) /\ DOMAIN q.ants = {} /\ DOMAIN r.ants = {} BY <1>6, <2>3, <2>7
  <2> QED BY <1>4, <2>3, <2>4, <2>7, <2>8, NotPred DEF Mirrors, q
<1>9. CASE id = "review"
  <2> DEFINE goal == RenamedPred(h, r.goal)
             needed == Renamed(h, r.needed)
  <2>1. Closing(r) BY <1>9, FormedBy
  <2>2. r.goal \in Pred /\ r.ants = << >> /\ r.conf <= REVIEWED_MAX
    BY <1>9, <2>1 DEF Closing, External, ContextDependent
  <2>3. r.conf \in 0 .. REVIEWED_MAX
    <3>1. r.conf \in Nat /\ r.conf <= REVIEWED_MAX BY <2>2, RuleFields
    <3> QED BY <3>1 DEF REVIEWED_MAX
  <2>4. s.goal = goal /\ needed \subseteq s.hyps BY <1>3, <2>2, NotPred DEF Renamed
  <2>5. q = Review(s, goal, needed, r.conf) BY <1>9 DEF Replayed
  <2> HIDE DEF q, goal, needed
  <2>6. Made(q, "review") /\ q.goal = goal /\ q.needed = needed
    BY <2>3, <2>4, <2>5, ReviewMakes
  <2>7. Formed(q) /\ q.desc.id = "review" BY <2>6 DEF Made
  <2>8. Closing(q) BY <2>7, FormedBy
  <2>9. q # Null /\ q.ants = << >> BY <2>7, <2>8, RuleFields DEF Closing
  <2>10. DOMAIN q.ants = {} /\ DOMAIN r.ants = {} BY <2>2, <2>9
  <2> QED BY <1>4, <2>2, <2>4, <2>6, <2>7, <2>9, <2>10, NotPred DEF Mirrors, q
<1>10. CASE id = "allI"
  <2>1. PICK i \in Ident : Introducing(r, i) BY <1>10, FormedBy
  <2> DEFINE a == Antecedent(In(i), {}, {i}, << >>)
             k == [name |-> Solve(i.name, s.env), ty |-> i.ty]
             b == Antecedent(In(k), {}, {k}, << >>)
             g == AddHints(h, a, b)
  <2>2. r.goal = All(i.ty) /\ r.needed = {} /\ r.ants = << a >>
    BY <1>10, <2>1 DEF Introducing
  <2>3. 1 \in DOMAIN r.ants /\ r.ants[1] = a BY <2>2, FirstOf
  <2>4. a.idents = {i} /\ a.goal = In(i) /\ a.added = {} /\ a.unsel = {} /\ a.actions = << >>
    BY AntecedentFields
  <2>5. b.idents = {k} /\ b.goal = In(k) /\ b.added = {} /\ b.unsel = {} /\ b.actions = << >>
    BY AntecedentFields
  <2>6. The(r.ants[1].idents).name = i.name BY <2>3, <2>4, TheOnly
  <2>7. r.goal # Null BY <2>2, PredIn, NotPred
  <2>8. s.goal = All(i.ty) BY <1>3, <2>2, <2>7, RenamedForms
  <2>9. s.goal.op = "all" /\ s.goal.ty = i.ty BY <2>8 DEF All
  <2>10. i.name \in Name /\ i.ty \in Type BY DEF Ident
  <2>11. Solvable(i.name, s.env) BY <2>10
  <2>12. Solve(i.name, s.env) \in Name /\ Solve(i.name, s.env) \notin Names(s.env)
    BY <2>11, SolveLeast
  <2>13. k \in Ident /\ k.ty = i.ty /\ k.name \notin Names(s.env) BY <2>10, <2>12 DEF Ident
  <2>14. q = AllI(s, i.name) BY <1>10, <2>6 DEF Replayed
  <2>15. AllI(s, i.name) = Rule("allI", s.goal, {}, << b >>, Null) BY <2>9, <2>11 DEF AllI
  <2> HIDE DEF k
  <2>16. b \in AntecedentRecord
    <3>1. In(k) \in Pred /\ << >> \in Seq(HypAction) /\ {k} \in SUBSET Ident
      BY <2>13, PredIn
    <3> QED BY <3>1, AntecedentType
  <2> HIDE DEF a, b, q
  <2>17. << b >> \in Seq(AntecedentRecord) BY <2>16
  <2>18. q # Null /\ q.goal = s.goal /\ q.needed = {} /\ q.ants = << b >>
    BY <1>4, <1>5, <1>7, <1>10, <2>14, <2>15, <2>17 DEF q
  <2>19. Fresh(a.idents, s0.env)
    <3>1. Plain(a) BY <2>4 DEF Plain
    <3> QED BY <2>3, <3>1, PlainChild
  <2>20. i.name \notin DOMAIN h BY <1>1, <2>4, <2>19 DEF Fresh
  <2>21. /\ RenamedIdent(g, i) = k
         /\ DOMAIN g \subseteq DOMAIN h \cup {i.name}
         /\ \A n : n # i.name => RenamedName(g, n) = RenamedName(h, n)
    BY <1>1, <2>4, <2>5, <2>13, <2>20, AddHintsOne
  <2>22. HintsOK(g)
    <3>1. a \in AntecedentRecord BY <2>3, AntecedentsFormed
    <3> QED BY <1>1, <2>16, <3>1, AddHintsType
  <2> HIDE DEF g
  <2>23. Agree(g, h, s0.env) BY <2>4, <2>19, <2>21 DEF Agree, Fresh
  <2>24. Follows(h, g, s0.env, s.env, a, b)
    <3>1. Names(a.idents) = {i.name} BY <2>4 DEF Names
    <3>2. Fresh(b.idents, s.env) BY <2>5, <2>13 DEF Fresh
    <3>3. Plain(b) BY <2>5 DEF Plain
    <3>4. b.goal = IF a.goal = Null THEN Null ELSE RenamedPred(g, a.goal)
      <4>1. a.goal # Null BY <2>4, PredIn, NotPred
      <4>2. RenamedPred(g, a.goal) = In(k) BY <2>4, <2>21, RenamedForms
      <4> QED BY <2>5, <4>1, <4>2
    <3>5. b.added = Renamed(g, a.added) BY <2>4, <2>5 DEF Renamed
    <3>6. \A x \in a.idents : RenamedIdent(g, x) \in b.idents BY <2>4, <2>5, <2>21
    <3> QED BY <2>21, <2>22, <2>23, <3>1, <3>2, <3>3, <3>4, <3>5, <3>6 DEF Follows
  <2>25. Plain(a) BY <2>4 DEF Plain
  <2>26. s.goal # Null /\ Formed(q) BY <1>4, <1>6, <2>18, NotPred
  <2>27. Mirrors(h, Anew(h, r, q), r, q, s0, s)
    BY <2>2, <2>7, <2>18, <2>24, <2>25, <2>26, MirrorsOne DEF g
  <2> QED BY <2>18, <2>27 DEF q
<1>11. CASE id = "allD"
  <2>1. PICK i \in Ident : Introducing(r, i) BY <1>11, FormedBy
  <2> DEFINE univ == All(i.ty)
             k == RenamedIdent(h, i)
             act == [kind |-> "deselect", hyps |-> {univ}]
             a == Antecedent(Null, {In(i)}, {}, << act >>)
             b == Antecedent(Null, {In(k)}, {}, << act >>)
  <2>2. r.goal = Null /\ r.needed = {univ} /\ r.input = i /\ r.ants = << a >>
    BY <1>11, <2>1 DEF Introducing
  <2>3. RenamedPred(h, The(r.needed)) = univ
    <3>1. The(r.needed) = univ BY <2>2, TheOnly
    <3> QED BY <3>1, RenamedForms
  <2>4. univ \in s.hyps BY <1>3, <2>2, RenamedForms
  <2>5. q = AllD(s, univ, k) BY <1>11, <2>2, <2>3 DEF Replayed
  <2>6. k \in Ident /\ k.ty = i.ty BY <1>1, RenamedType, RenamedForms
  <2>7. univ.op = "all" /\ univ.ty = i.ty BY DEF All
  <2>8. univ \in Pred /\ act \in SelectionAction BY PredIn, ActionsFormed
  <2> HIDE DEF univ, k, q
  <2>9. AllD(s, univ, k) = Rule("allD", Null, {univ}, << b >>, k)
    BY <2>4, <2>6, <2>7 DEF AllD
  <2> HIDE DEF act
  <2>10. b \in AntecedentRecord
    <3>1. {In(k)} \in SUBSET Pred /\ << act >> \in Seq(HypAction)
      BY <2>6, <2>8, PredIn, SelectionInfersNot
    <3> QED BY <3>1, AntecedentType
  <2>11. /\ a.goal = Null /\ a.added = {In(i)} /\ a.unsel = {} /\ a.idents = {}
         /\ a.actions = << act >>
         /\ b.goal = Null /\ b.added = {In(k)} /\ b.unsel = {} /\ b.idents = {}
         /\ b.actions = << act >>
    BY AntecedentFields
  <2> HIDE DEF a, b
  <2>12. << b >> \in Seq(AntecedentRecord) /\ {univ} \in SUBSET Pred BY <2>8, <2>10
  <2>13. q # Null /\ q.goal = Null /\ q.needed = {univ} /\ q.ants = << b >>
    BY <1>5, <1>7, <1>11, <2>5, <2>6, <2>9, <2>12
  <2>14. Plain(a) /\ Plain(b) BY <2>8, <2>11 DEF Plain
  <2>15. b.added = Renamed(h, a.added) BY <2>11, RenamedForms DEF Renamed, k
  <2>16. Follows(h, AddHints(h, a, b), s0.env, s.env, a, b)
    BY <1>1, <2>11, <2>14, <2>15, FollowsPlainly
  <2>17. Mirrors(h, Anew(h, r, q), r, q, s0, s)
    BY <1>6, <2>2, <2>4, <2>13, <2>14, <2>16, MirrorsOne
  <2> QED BY <2>13, <2>17 DEF q
<1>12. CASE id = "exI"
  <2>1. PICK i \in Ident : Introducing(r, i) BY <1>12, FormedBy
  <2> DEFINE k == RenamedIdent(h, i)
             a == Antecedent(In(i), {}, {}, << >>)
             b == Antecedent(In(k), {}, {}, << >>)
  <2>2. r.goal = Ex(i.ty) /\ r.needed = {} /\ r.input = i /\ r.ants = << a >>
    BY <1>12, <2>1 DEF Introducing
  <2>3. r.goal # Null BY <2>2, PredIn, NotPred
  <2>4. s.goal = Ex(i.ty) BY <1>3, <2>2, <2>3, RenamedForms
  <2>5. s.goal.op = "ex" /\ s.goal.ty = i.ty BY <2>4 DEF Ex
  <2>6. q = ExI(s, k) BY <1>12, <2>2 DEF Replayed
  <2>7. k \in Ident /\ k.ty = i.ty BY <1>1, RenamedType, RenamedForms
  <2> HIDE DEF k, q
  <2>8. ExI(s, k) = Rule("exI", s.goal, {}, << b >>, k) BY <2>5, <2>7 DEF ExI
  <2>9. b \in AntecedentRecord
    <3>1. In(k) \in Pred /\ << >> \in Seq(HypAction) BY <2>7, PredIn
    <3> QED BY <3>1, AntecedentType
  <2>10. /\ a.goal = In(i) /\ a.added = {} /\ a.unsel = {} /\ a.idents = {} /\ a.actions = << >>
         /\ b.goal = In(k) /\ b.added = {} /\ b.unsel = {} /\ b.idents = {} /\ b.actions = << >>
    BY AntecedentFields
  <2> HIDE DEF a, b
  <2>11. << b >> \in Seq(AntecedentRecord) BY <2>9
  <2>12. q # Null /\ q.goal = s.goal /\ q.needed = {} /\ q.ants = << b >>
    BY <1>4, <1>5, <1>7, <1>12, <2>6, <2>7, <2>8, <2>11
  <2>13. Plain(a) /\ Plain(b) BY <2>10 DEF Plain
  <2>14. b.goal = IF a.goal = Null THEN Null ELSE RenamedPred(h, a.goal)
    <3>1. a.goal # Null BY <2>10, PredIn, NotPred
    <3>2. RenamedPred(h, a.goal) = In(k) BY <2>10, RenamedForms DEF k
    <3> QED BY <2>10, <3>1, <3>2
  <2>15. b.added = Renamed(h, a.added) BY <2>10 DEF Renamed
  <2>16. Follows(h, AddHints(h, a, b), s0.env, s.env, a, b)
    BY <1>1, <2>10, <2>13, <2>14, <2>15, FollowsPlainly
  <2>17. s.goal # Null BY <1>4, NotPred
  <2>18. Mirrors(h, Anew(h, r, q), r, q, s0, s)
    BY <1>6, <2>2, <2>3, <2>12, <2>13, <2>16, <2>17, MirrorsOne
  <2> QED BY <2>12, <2>18 DEF q
<1>13. CASE id = "cut"
  <2>1. PICK lemma \in Pred : Cutting(r, lemma) BY <1>13, FormedBy
  <2> DEFINE cut == RenamedPred(h, lemma)
             a1 == Antecedent(lemma, {}, {}, << >>)
             a2 == Antecedent(Null, {lemma}, {}, << >>)
             b1 == Antecedent(cut, {}, {}, << >>)
             b2 == Antecedent(Null, {cut}, {}, << >>)
  <2>2. r.goal = Null /\ r.needed = {} /\ r.input = lemma /\ r.ants = << a1, a2 >>
    BY <2>1 DEF Cutting
  <2>3. cut \in Pred BY <1>1, RenamedType
  <2>4. q = Cut(cut) BY <1>13, <2>2 DEF Replayed
  <2>5. Cut(cut) = Rule("cut", Null, {}, << b1, b2 >>, cut) BY DEF Cut
  <2> HIDE DEF cut, q
  <2>6. b1 \in AntecedentRecord /\ b2 \in AntecedentRecord
    <3>1. << >> \in Seq(HypAction) /\ {cut} \in SUBSET Pred BY <2>3
    <3> QED BY <2>3, <3>1, AntecedentType
  <2>7. /\ a1.goal = lemma /\ a1.added = {} /\ a1.unsel = {} /\ a1.idents = {} /\ a1.actions = << >>
        /\ b1.goal = cut /\ b1.added = {} /\ b1.unsel = {} /\ b1.idents = {} /\ b1.actions = << >>
        /\ a2.goal = Null /\ a2.added = {lemma} /\ a2.unsel = {} /\ a2.idents = {}
        /\ a2.actions = << >>
        /\ b2.goal = Null /\ b2.added = {cut} /\ b2.unsel = {} /\ b2.idents = {}
        /\ b2.actions = << >>
    BY AntecedentFields
  <2> HIDE DEF a1, a2, b1, b2
  <2>8. << b1, b2 >> \in Seq(AntecedentRecord) BY <2>6
  <2>9. q # Null /\ q.goal = Null /\ q.needed = {} /\ q.ants = << b1, b2 >>
    BY <1>5, <1>7, <1>13, <2>3, <2>4, <2>5, <2>8
  <2>10. Plain(a1) /\ Plain(b1) /\ Plain(a2) /\ Plain(b2) BY <2>7 DEF Plain
  <2>11. Follows(h, AddHints(h, a1, b1), s0.env, s.env, a1, b1)
    <3>1. b1.goal = IF a1.goal = Null THEN Null ELSE RenamedPred(h, a1.goal)
      BY <2>7, NotPred DEF cut
    <3>2. b1.added = Renamed(h, a1.added) BY <2>7 DEF Renamed
    <3> QED BY <1>1, <2>7, <2>10, <3>1, <3>2, FollowsPlainly
  <2>12. Follows(h, AddHints(h, a2, b2), s0.env, s.env, a2, b2)
    <3>1. b2.added = Renamed(h, a2.added) BY <2>7 DEF Renamed, cut
    <3> QED BY <1>1, <2>7, <2>10, <3>1, FollowsPlainly
  <2>13. DOMAIN q.ants = DOMAIN r.ants BY <2>2, <2>9
  <2>14. ASSUME NEW j \in DOMAIN r.ants
         PROVE  /\ Plain(r.ants[j])
                /\ Follows(h, Anew(h, r, q)[j], s0.env, s.env, r.ants[j], q.ants[j])
    <3>1. Anew(h, r, q)[j] = AddHints(h, r.ants[j], q.ants[j]) BY <2>13 DEF Anew
    <3>2. \/ r.ants[j] = a1 /\ q.ants[j] = b1
          \/ r.ants[j] = a2 /\ q.ants[j] = b2
      BY <2>2, <2>9, TwoMembers
    <3> QED BY <2>10, <2>11, <2>12, <3>1, <3>2
  <2>15. Formed(q) BY <1>6, <2>9
  <2>16. Mirrors(h, Anew(h, r, q), r, q, s0, s) BY <2>2, <2>9, <2>13, <2>14, <2>15 DEF Mirrors
  <2> QED BY <2>9, <2>16 DEF q
<1>14. CASE id = "mngHyp"
  <2>1. PICK act \in SelectionAction : Managing(r, act) BY <1>14, FormedBy
  <2> DEFINE act2 == [act EXCEPT !.hyps = Renamed(h, @)]
             a == Antecedent(Null, {}, {}, << act >>)
             b == Antecedent(Null, {}, {}, << act2 >>)
  <2>2. r.goal = Null /\ r.needed = {} /\ r.ants = << a >> BY <2>1 DEF Managing
  <2>3. r.ants[1] = a BY <2>2, FirstOf
  <2>4. FirstAction(r) = act BY <2>3, AntecedentFields DEF FirstAction
  <2>5. act2 \in SelectionAction
    <3>1. Renamed(h, act.hyps) \in SUBSET Pred BY <1>1, RenamedType DEF SelectionAction
    <3> QED BY <3>1, SelectionRenamed
  <2>6. q = MngHyp(act2) BY <1>14, <2>4 DEF Replayed
  <2> HIDE DEF act2, q
  <2>7. MngHyp(act2) = Rule("mngHyp", Null, {}, << b >>, Null) BY DEF MngHyp
  <2>8. b \in AntecedentRecord
    <3>1. << act2 >> \in Seq(HypAction) BY <2>5, SelectionInfersNot
    <3> QED BY <3>1, AntecedentType
  <2>9. /\ a.goal = Null /\ a.added = {} /\ a.unsel = {} /\ a.idents = {} /\ a.actions = << act >>
        /\ b.goal = Null /\ b.added = {} /\ b.unsel = {} /\ b.idents = {} /\ b.actions = << act2 >>
    BY AntecedentFields
  <2> HIDE DEF a, b
  <2>10. << b >> \in Seq(AntecedentRecord) BY <2>8
  <2>11. q # Null /\ q.goal = Null /\ q.needed = {} /\ q.ants = << b >>
    BY <1>5, <1>7, <1>14, <2>6, <2>7, <2>10
  <2>12. Plain(a) /\ Plain(b) BY <2>5, <2>9 DEF Plain
  <2>13. b.added = Renamed(h, a.added) BY <2>9 DEF Renamed
  <2>14. Follows(h, AddHints(h, a, b), s0.env, s.env, a, b)
    BY <1>1, <2>9, <2>12, <2>13, FollowsPlainly
  <2>15. Mirrors(h, Anew(h, r, q), r, q, s0, s)
    BY <1>6, <2>2, <2>11, <2>12, <2>14, MirrorsOne
  <2> QED BY <2>11, <2>15 DEF q
<1> QED BY <1>8, <1>9, <1>10, <1>11, <1>12, <1>13, <1>14 DEF Implemented

(* Only rules that free a hypothesis have an antecedent that infers.         *)
LEMMA PlainUnlessFreed ==
    ASSUME NEW r, Formed(r), r.desc.id # "exF", NEW j \in DOMAIN r.ants
    PROVE  Plain(r.ants[j])
<1>1. CASE Closing(r)
  <2>1. r.ants = << >> BY <1>1 DEF Closing
  <2> QED BY <2>1
<1>2. CASE \E i \in Ident : Introducing(r, i)
  <2>1. PICK i \in Ident : Introducing(r, i) BY <1>2
  <2> DEFINE act == [kind |-> "deselect", hyps |-> {All(i.ty)}]
  <2>2. act \in SelectionAction BY ActionsFormed
  <2>3. PICK ant : /\ r.ants = << ant >>
                   /\ \/ ant = Antecedent(In(i), {}, {i}, << >>)
                      \/ ant = Antecedent(In(i), {}, {}, << >>)
                      \/ ant = Antecedent(Null, {In(i)}, {}, << act >>)
    BY <2>1 DEF Introducing
  <2>4. r.ants[j] = ant BY <2>3, OneMember
  <2> HIDE DEF act
  <2>5. ant.unsel = {} /\ (ant.actions = << >> \/ ant.actions = << act >>)
    <3>1. CASE ant = Antecedent(In(i), {}, {i}, << >>) BY <3>1, AntecedentFields
    <3>2. CASE ant = Antecedent(In(i), {}, {}, << >>) BY <3>2, AntecedentFields
    <3>3. CASE ant = Antecedent(Null, {In(i)}, {}, << act >>) BY <3>3, AntecedentFields
    <3> QED BY <2>3, <3>1, <3>2, <3>3
  <2> QED BY <2>2, <2>4, <2>5 DEF Plain
<1>3. CASE \E lemma \in Pred : Cutting(r, lemma)
  <2>1. PICK lemma \in Pred : Cutting(r, lemma) BY <1>3
  <2>2. \/ r.ants[j] = Antecedent(lemma, {}, {}, << >>)
        \/ r.ants[j] = Antecedent(Null, {lemma}, {}, << >>)
    BY <2>1, TwoMembers DEF Cutting
  <2> QED BY <2>2, AntecedentFields DEF Plain
<1>4. CASE \E a \in SelectionAction : Managing(r, a)
  <2>1. PICK a \in SelectionAction : Managing(r, a) BY <1>4
  <2>2. r.ants[j] = Antecedent(Null, {}, {}, << a >>) BY <2>1, OneMember DEF Managing
  <2> QED BY <2>2, AntecedentFields DEF Plain
<1> QED BY <1>1, <1>2, <1>3, <1>4 DEF Formed

(* A recorded rule that applies as it is mirrors itself.                     *)
LEMMA ReuseMirrors ==
    ASSUME NEW s0, WellFormed(s0), NEW r, Formed(r), Applies(r, s0), r.desc.id # "exF",
           NEW s, WellFormed(s), Applies(r, s), NEW h, HintsOK(h), DOMAIN h = {}
    PROVE  Mirrors(h, Kept(h, r), r, r, s0, s)
<1>1. h = NoHints
  <2>1. h = [n \in DOMAIN h |-> h[n]] BY DEF HintsOK
  <2> QED BY <2>1 DEF NoHints
<1>2. r.needed \subseteq s.hyps /\ r.goal \in {Null, s.goal} BY DEF Applies
<1>3. ASSUME NEW j \in DOMAIN r.ants
      PROVE  Plain(r.ants[j]) /\ Follows(h, Kept(h, r)[j], s0.env, s.env, r.ants[j], r.ants[j])
  <2> DEFINE a == r.ants[j]
  <2>1. a \in AntecedentRecord BY AntecedentsFormed
  <2>2. Plain(a) BY PlainUnlessFreed
  <2>3. Fresh(a.idents, s.env) BY <2>2, PlainChild
  <2>4. Kept(h, r)[j] = h BY DEF Kept
  <2> HIDE DEF a
  <2>5. a.goal \in Pred \cup {Null} /\ a.added \in SUBSET Pred /\ a.idents \in SUBSET Ident
    BY <2>1 DEF AntecedentRecord
  <2>6. a.goal = IF a.goal = Null THEN Null ELSE RenamedPred(h, a.goal)
    BY <1>1, <2>5, NoRenaming
  <2>7. a.added = Renamed(h, a.added) BY <1>1, <2>5, NoRenaming
  <2>8. \A i \in a.idents : RenamedIdent(h, i) \in a.idents BY <1>1, <2>5, NoRenaming
  <2>9. Agree(h, h, s0.env) BY DEF Agree
  <2>10. Follows(h, h, s0.env, s.env, a, a)
    BY <2>2, <2>3, <2>6, <2>7, <2>8, <2>9 DEF Follows
  <2> QED BY <2>2, <2>4, <2>10 DEF a
<1> QED BY <1>2, <1>3 DEF Mirrors
-----------------------------------------------------------------------------
(* The inductive invariant.                                                 *)

(* What a step from outside was taken on: it is true in every theory, but    *)
(* for the context dependent and the unsound.                                *)
Unproven(desc) == desc.id \in Unsound /\ desc.version = 0

Earned(r) ==
    r.desc.id \in External =>
        \/ Unproven(r.desc) \/ Depends(r.desc)
        \/ \A z \in Theory : Entails(r.needed, r.goal, z)

(* One above the uncertain range has the registered version, and is true in  *)
(* the theories in force.                                                    *)
Held(r) ==
    r.desc.id \in External /\ r.conf > UNCERTAIN_MAX =>
        /\ Trusted(r.desc)
        /\ Unproven(r.desc) \/ Entails(r.needed, r.goal, theory)

TypesInv ==
    /\ obligation \in Obligation
    /\ theory \in Theory
    /\ Versions
    /\ mode \in {"hand", "none", "reuse", "replay"} \cup Rebuilds
    /\ complete \in BOOLEAN

TreeInv ==
    /\ TreeOK(tree)
    /\ tree[Root].seq = obligation
    /\ \A r \in RulesOf(tree) : Earned(r) /\ Held(r)
    /\ mode = "none" => tree = OpenTree(obligation)

Hints == UNION {[S -> Name] : S \in SUBSET Name}

CallRecord == [from : Seq(Nat), hints : Hints]

CallsInv ==
    /\ todo \in [DOMAIN todo -> CallRecord]
    /\ DOMAIN todo \subseteq OpenNodes(tree)
    /\ mode \in {"hand", "none"} => DOMAIN todo = {}

(* The stored proof is that of a tree t, and calls are for places of it.     *)
Recording(t) ==
    /\ TreeOK(t)
    /\ \A r \in RulesOf(t) : Earned(r)
    /\ stored = [proof |-> Skeleton(t), deps |-> FromTree(t), conf |-> Confidence(t)]
    /\ \A p \in DOMAIN todo : todo[p].from \in DOMAIN t

Accepted ==
    /\ \/ mode = "reuse"
       \/ /\ mode = "replay" /\ ImplementedOnly(Implemented)
          /\ NamesFrom(stored.proof, Root) \cap Names(obligation.env) = {}
    /\ IsProofReusable(stored.deps, obligation)
    /\ NamesApart(stored.proof)

(* An accepted proof is replayed at the places it was recorded at, and every *)
(* call is at a sequent that has what the sub-proof there needs.             *)
Reached(t, p) ==
    /\ todo[p].from = p
    /\ Meets(DepsOf(t)[p], tree[p].seq)
    /\ DepsOf(t)[p].reasoners \subseteq stored.deps.reasoners
    /\ mode = "replay" => NamesFrom(stored.proof, p) \cap Names(tree[p].seq.env) = {}

Reapplying(t) == Accepted => complete /\ \A p \in DOMAIN todo : Reached(t, p)

(* A proof the predicate accepts but for the names it introduces, of rules   *)
(* that can be made anew.                                                    *)
Renamable ==
    /\ mode \in Rebuilds /\ ImplementedOnly(Implemented \ {"exF"})
    /\ ReusableIfTaken(stored.deps, obligation)
    /\ CertainOnly(stored.proof)

(* While names are left it is rebuilt at the places it was recorded at, each *)
(* call finding, renamed, what the sub-proof there needs.                    *)
Followed(t, p) ==
    /\ todo[p].from = p
    /\ Carries(todo[p].hints, DepsOf(t)[p], t[p].seq, tree[p].seq)
    /\ DepsOf(t)[p].reasoners \subseteq stored.deps.reasoners

(* The tree is t as far as the calls have got, rules of the same confidence  *)
(* in place of the recorded ones.                                            *)
Mirrored(t) ==
    \A q \in DOMAIN tree :
        /\ q \in DOMAIN t
        /\ tree[q].rule = Null => q \in DOMAIN todo \/ t[q].rule = Null
        /\ tree[q].rule # Null => /\ t[q].rule # Null /\ t[q].rule.conf = tree[q].rule.conf
                                  /\ Kids(q, t[q].rule) \subseteq DOMAIN tree

Rebuilding(t) ==
    Renamable /\ NamesLeft(tree) =>
        complete /\ (\A p \in DOMAIN todo : Followed(t, p)) /\ Mirrored(t)

StoredInv ==
    stored # Null \/ mode # "hand" => \E t : Recording(t) /\ Reapplying(t) /\ Rebuilding(t)

IInv == TypesInv /\ TreeInv /\ CallsInv /\ StoredInv

-----------------------------------------------------------------------------
(* Rules a step puts in the tree.                                           *)

LEMMA ImplementedNotExternal == Implemented \cap External = {}
BY DEF Implemented, External, ContextDependent

LEMMA MadeHere ==
    ASSUME NEW r, NEW id \in Implemented, Made(r, id)
    PROVE  Formed(r) /\ Earned(r) /\ Held(r)
BY ImplementedNotExternal DEF Made, Earned, Held

LEMMA ClosesMakes ==
    ASSUME Versions, theory \in Theory, NEW s, WellFormed(s), NEW id \in External, Closes(id, s)
    PROVE  LET r == Rule(id, s.goal, s.selected, << >>, Null) IN
           Formed(r) /\ Earned(r) /\ Held(r)
<1> DEFINE r == Rule(id, s.goal, s.selected, << >>, Null)
<1>1. s.goal \in Pred /\ s.selected \in SUBSET Pred BY DEF WellFormed, Sequent
<1>2. id \in Reasoner /\ << >> \in Seq(AntecedentRecord) BY DEF Reasoner
<1>3. Ruled(r, id, s.goal, s.selected, << >>, Null) BY <1>1, <1>2, RuleType
<1> HIDE DEF r
<1>4. /\ r \in ProofRule /\ r.desc.id = id /\ r.desc.version = registered[id]
      /\ r.goal = s.goal /\ r.needed = s.selected /\ r.ants = << >>
  BY <1>3 DEF Ruled
<1>5. Formed(r) BY <1>1, <1>4, ImplementedNotExternal DEF Formed, Graded, Closing
<1>6. \/ Unproven(r.desc)
      \/ \A z \in IF id \in ContextDependent THEN {theory} ELSE Theory :
            Entails(r.needed, r.goal, z)
  BY <1>4 DEF Closes, Unproven
<1>7. Earned(r)
  <2>1. CASE id \in ContextDependent BY <1>4, <2>1 DEF Earned, Depends
  <2>2. CASE id \notin ContextDependent BY <1>6, <2>2 DEF Earned
  <2> QED BY <2>1, <2>2
<1>8. Held(r) BY <1>4, <1>6 DEF Held, Trusted
<1> QED BY <1>5, <1>7, <1>8 DEF r

LEMMA RulesMake ==
    ASSUME Versions, theory \in Theory, NEW s, WellFormed(s), NEW r \in Rules(s)
    PROVE  Formed(r) /\ Earned(r) /\ Held(r)
<1>1. r # Null BY DEF Rules
<1>2. s.hyps \in SUBSET Pred /\ s.env \in SUBSET Ident /\ s.goal \in Pred
      /\ s.selected \subseteq s.hyps
  BY DEF WellFormed, Sequent
<1>3. {"hyp", "allI", "allD", "exI", "exF", "cut", "mngHyp", "review"} = Implemented
  BY DEF Implemented
<1>4. CASE r = Hyp(s) BY <1>1, <1>3, <1>4, HypMakes, MadeHere
<1>5. CASE r = AllI(s, 0) BY <1>1, <1>3, <1>5, AllIMakes, MadeHere
<1>6. CASE r = Review(s, s.goal, s.selected, REVIEWED_MAX)
  <2>1. REVIEWED_MAX \in 0 .. REVIEWED_MAX BY DEF REVIEWED_MAX
  <2>2. Made(r, "review") BY <1>2, <1>6, <2>1, ReviewMakes
  <2> QED BY <1>3, <2>2, MadeHere
<1>7. CASE \E h \in s.hyps, w \in s.env : r = AllD(s, h, w)
  <2>1. PICK h \in s.hyps, w \in s.env : r = AllD(s, h, w) BY <1>7
  <2>2. w \in Ident BY <1>2
  <2>3. Made(r, "allD") BY <1>1, <2>1, <2>2, AllDMakes
  <2> QED BY <1>3, <2>3, MadeHere
<1>8. CASE \E w \in s.env : r = ExI(s, w)
  <2>1. PICK w \in s.env : r = ExI(s, w) BY <1>8
  <2>2. w \in Ident BY <1>2
  <2>3. Made(r, "exI") BY <1>1, <2>1, <2>2, ExIMakes
  <2> QED BY <1>3, <2>3, MadeHere
<1>9. CASE \E h \in s.hyps : r = ExF(s, h, 0)
  <2>1. PICK h \in s.hyps : r = ExF(s, h, 0) BY <1>9
  <2>2. h \in Pred BY <1>2
  <2>3. Made(r, "exF") BY <1>1, <2>1, <2>2, ExFMakes
  <2> QED BY <1>3, <2>3, MadeHere
<1>10. CASE \E p \in Lemma : r = Cut(p)
  <2>1. PICK p \in Lemma : r = Cut(p) BY <1>10
  <2>2. p \in Pred BY LemmaAssumption
  <2>3. Made(r, "cut") BY <2>1, <2>2, CutMakes
  <2> QED BY <1>3, <2>3, MadeHere
<1>11. CASE \E k \in {"select", "deselect", "hide", "show"}, h \in s.hyps :
               r = MngHyp([kind |-> k, hyps |-> {h}])
  <2>1. PICK k \in {"select", "deselect", "hide", "show"}, h \in s.hyps :
               r = MngHyp([kind |-> k, hyps |-> {h}])
    BY <1>11
  <2> DEFINE a == [kind |-> k, hyps |-> {h}]
  <2>2. a \in SelectionAction BY <1>2 DEF SelectionAction
  <2> HIDE DEF a
  <2>3. Made(MngHyp(a), "mngHyp") BY <2>2, MngHypMakes
  <2> QED BY <1>3, <2>1, <2>3, MadeHere DEF a
<1>12. CASE r \in ExternalRules(s)
  <2>1. PICK id \in External : Closes(id, s) /\ r = Rule(id, s.goal, s.selected, << >>, Null)
    BY <1>12 DEF ExternalRules
  <2> QED BY <2>1, ClosesMakes
<1> DEFINE managed(k, h) == MngHyp([kind |-> k, hyps |-> {h}])
           kinds == {"select", "deselect", "hide", "show"}
           A == {Hyp(s), AllI(s, 0), Review(s, s.goal, s.selected, REVIEWED_MAX)}
           B == {AllD(s, h, w) : h \in s.hyps, w \in s.env}
           C == {ExI(s, w) : w \in s.env}
           D == {ExF(s, h, 0) : h \in s.hyps}
           E == {Cut(p) : p \in {q \in Lemma : Free(q) \subseteq s.env}}
           F == {managed(k, h) : k \in kinds, h \in s.hyps}
<1>13. Rules(s) = (A \cup B \cup C \cup D \cup E \cup F \cup ExternalRules(s)) \ {Null}
  BY DEF Rules
<1>14. r \in A => r = Hyp(s) \/ r = AllI(s, 0) \/ r = Review(s, s.goal, s.selected, REVIEWED_MAX)
  OBVIOUS
<1>15. r \in B => \E h \in s.hyps, w \in s.env : r = AllD(s, h, w) OBVIOUS
<1>16. r \in C => \E w \in s.env : r = ExI(s, w) OBVIOUS
<1>17. r \in D => \E h \in s.hyps : r = ExF(s, h, 0) OBVIOUS
<1>18. r \in E => \E p \in Lemma : r = Cut(p) OBVIOUS
<1>19. r \in F => \E k \in kinds, h \in s.hyps : r = managed(k, h)
  <2> HIDE DEF managed, kinds
  <2> QED OBVIOUS
<1> HIDE DEF A, B, C, D, E, F
<1>20. r \in A \/ r \in B \/ r \in C \/ r \in D \/ r \in E \/ r \in F \/ r \in ExternalRules(s)
  BY <1>13
<1> QED
  BY <1>4, <1>5, <1>6, <1>7, <1>8, <1>9, <1>10, <1>11, <1>12,
     <1>14, <1>15, <1>16, <1>17, <1>18, <1>19, <1>20

(* A rule read, or kept at a lower confidence, is the rule it was.           *)
Lowered(q, r) == Alike(q, r) /\ q.desc = r.desc /\ Formed(q)

LEMMA LowersRule ==
    ASSUME NEW r, Formed(r), NEW c \in 0 .. UNCERTAIN_MAX
    PROVE  Lowered([r EXCEPT !.conf = c], r) /\ [r EXCEPT !.conf = c].conf = c
<1> DEFINE q == [r EXCEPT !.conf = c]
<1>1. r \in ProofRule BY DEF Formed
<1>2. c \in 0 .. DISCHARGED_MAX /\ c <= REVIEWED_MAX
  BY DEF UNCERTAIN_MAX, REVIEWED_MAX, DISCHARGED_MAX
<1>3. q \in ProofRule BY <1>1, <1>2 DEF ProofRule
<1>4. /\ q.goal = r.goal /\ q.needed = r.needed /\ q.ants = r.ants /\ q.desc = r.desc
      /\ q.input = r.input /\ q.conf = c
  BY <1>1 DEF ProofRule
<1> HIDE DEF q
<1>5. Closing(r) => Closing(q) BY <1>2, <1>4 DEF Closing
<1>6. \A i \in Ident : Introducing(r, i) => Introducing(q, i) BY <1>4 DEF Introducing
<1>7. \A lemma \in Pred : Cutting(r, lemma) => Cutting(q, lemma) BY <1>4 DEF Cutting
<1>8. \A a \in SelectionAction : Managing(r, a) => Managing(q, a) BY <1>4 DEF Managing
<1>9. Graded(q)
  <2>1. c \in Nat /\ ~ (c > UNCERTAIN_MAX) BY DEF UNCERTAIN_MAX
  <2> QED BY <1>4, <2>1 DEF Graded
<1>10. Formed(q) BY <1>3, <1>5, <1>6, <1>7, <1>8, <1>9 DEF Formed
<1> QED BY <1>4, <1>10 DEF Lowered, Alike, q

LEMMA LoadedRule ==
    ASSUME NEW r, Formed(r)
    PROVE  /\ Lowered(Loaded(r), r) /\ Loaded(r) # Null
           /\ Trusted(r.desc) => Loaded(r) = r
           /\ Earned(r) => Earned(Loaded(r))
<1>1. r # Null BY RuleFields
<1>2. UNCERTAIN_MAX \in 0 .. UNCERTAIN_MAX BY DEF UNCERTAIN_MAX
<1>3. Lowered(Loaded(r), r)
  <2>1. CASE Trusted(r.desc) BY <1>1, <2>1 DEF Loaded, Lowered, Alike
  <2>2. CASE ~ Trusted(r.desc)
    <3>1. Loaded(r) = [r EXCEPT !.conf = UNCERTAIN_MAX] BY <1>1, <2>2 DEF Loaded
    <3> QED BY <1>2, <3>1, LowersRule
  <2> QED BY <2>1, <2>2
<1>4. Loaded(r) # Null BY <1>3, RuleFields DEF Lowered
<1>5. Trusted(r.desc) => Loaded(r) = r BY <1>1 DEF Loaded
<1>6. Earned(r) => Earned(Loaded(r)) BY <1>3 DEF Earned, Lowered, Alike
<1> QED BY <1>3, <1>4, <1>5, <1>6

LEMMA DowngradedRule ==
    ASSUME NEW r, Formed(r), Earned(r)
    PROVE  LET q == Downgraded(r) IN Lowered(q, r) /\ Earned(q) /\ Held(q)
<1> DEFINE c == Min(r.conf, UNCERTAIN_MAX)
           q == Downgraded(r)
<1>1. r.conf \in Nat BY RuleFields
<1>2. c \in 0 .. UNCERTAIN_MAX BY <1>1 DEF Min, UNCERTAIN_MAX
<1>3. q = [r EXCEPT !.conf = c] BY DEF Downgraded
<1> HIDE DEF c, q
<1>4. Lowered(q, r) /\ q.conf = c BY <1>2, <1>3, LowersRule
<1>5. Earned(q) BY <1>4 DEF Earned, Lowered, Alike
<1>6. ~ (q.conf > UNCERTAIN_MAX) BY <1>2, <1>4 DEF UNCERTAIN_MAX
<1> QED BY <1>4, <1>5, <1>6 DEF Held, q

LEMMA ReusableHeld ==
    ASSUME theory \in Theory, NEW r, Earned(r), IsRuleReusable(r)
    PROVE  Held(r)
BY DEF Earned, Held, IsRuleReusable

LEMMA HintsMember ==
    ASSUME NEW h
    PROVE  HintsOK(h) <=> h \in Hints
BY DEF HintsOK, Hints

-----------------------------------------------------------------------------
(* The steps but those of a reconstruction.                                 *)

LEMMA GrownOpens ==
    ASSUME NEW t, TreeOK(t), NEW p \in OpenNodes(t), NEW r, Formed(r), Applies(r, t[p].seq)
    PROVE  LET u == Grown(t, p, r) IN
           /\ RulesOf(u) \subseteq RulesOf(t) \cup {r}
           /\ u[Root].seq = t[Root].seq
           /\ (OpenNodes(t) \ {p}) \cup Kids(p, r) \subseteq OpenNodes(u)
<1> DEFINE u == Grown(t, p, r)
<1>1. p \in DOMAIN t BY DEF OpenNodes
<1>2. GrownBy(t, p, r, Grown(t, p, r)) BY <1>1, GrownFields
<1> HIDE DEF u
<1>3. GrownBy(t, p, r, u) BY <1>2 DEF u
<1>4. /\ DOMAIN u = DOMAIN t \cup Kids(p, r)
      /\ u[p].seq = t[p].seq /\ u[p].rule = r
      /\ \A q \in Kids(p, r) : u[q].rule = Null
      /\ \A q \in DOMAIN t \ (Kids(p, r) \cup {p}) : u[q] = t[q]
      /\ Root \notin Kids(p, r)
  BY <1>3 DEF GrownBy, Kids
<1>5. RulesOf(u) \subseteq RulesOf(t) \cup {r} BY <1>4 DEF RulesOf
<1>6. Root \in DOMAIN t BY DEF TreeOK, Placed
<1>7. u[Root].seq = t[Root].seq BY <1>4, <1>6
<1>8. (OpenNodes(t) \ {p}) \cup Kids(p, r) \subseteq OpenNodes(u) BY <1>4 DEF OpenNodes
<1> QED BY <1>5, <1>7, <1>8 DEF u

LEMMA InitOK == Init => IInv
<1> SUFFICES ASSUME Init PROVE IInv OBVIOUS
<1>1. WellFormed(obligation) BY ObligationAssumption DEF Init
<1>2. TypesInv BY DEF TypesInv, Init, Versions
<1>3. TreeInv BY <1>1, OpenTreeOK DEF TreeInv, Init
<1>4. DOMAIN todo = {} /\ todo \in [{} -> CallRecord] BY DEF Init, NoCalls
<1>5. CallsInv BY <1>4 DEF CallsInv
<1>6. StoredInv BY DEF StoredInv, Init
<1> QED BY <1>2, <1>3, <1>5, <1>6 DEF IInv

LEMMA PutAwayOK ==
    ASSUME NEW s \in Obligation, PutAway(s), obligation' = s, CallsInv, DOMAIN todo = {}
    PROVE  TreeInv' /\ CallsInv'
<1>1. WellFormed(s) BY ObligationAssumption
<1>2. tree' = OpenTree(s) /\ mode' = "none" /\ todo' = todo BY DEF PutAway
<1>3. TreeOK(tree') /\ tree'[Root].seq = s /\ RulesOf(tree') = {} BY <1>1, <1>2, OpenTreeOK
<1>4. TreeInv' BY <1>2, <1>3 DEF TreeInv
<1>5. CallsInv' BY <1>2 DEF CallsInv
<1> QED BY <1>4, <1>5

(* While nothing is reconstructed, nothing is asked of the stored proof but  *)
(* that it was one.                                                          *)
LEMMA StoredKept ==
    ASSUME StoredInv, stored' = stored, DOMAIN todo' = {}, mode' \in {"hand", "none"},
           mode' # "hand" => mode # "hand"
    PROVE  StoredInv'
<1>1. ~ Accepted' /\ ~ Renamable' BY DEF Accepted, Renamable, Rebuilds
<1>2. SUFFICES ASSUME stored' # Null \/ mode' # "hand"
               PROVE  \E t : Recording(t)' /\ Reapplying(t)' /\ Rebuilding(t)'
  BY DEF StoredInv
<1>3. PICK t : Recording(t) BY <1>2 DEF StoredInv
<1>4. Recording(t)' BY <1>3 DEF Recording
<1>5. Reapplying(t)' /\ Rebuilding(t)' BY <1>1 DEF Reapplying, Rebuilding
<1> QED BY <1>4, <1>5

LEMMA ProveOK ==
    ASSUME IInv, NEW p \in OpenNodes(tree), Prove(p)
    PROVE  IInv'
<1> USE DEF IInv
<1>1. PICK r \in Rules(tree[p].seq) : Applies(r, tree[p].seq) /\ tree' = Grown(tree, p, r)
  BY DEF Prove
<1>2. UNCHANGED << obligation, theory, registered, mode, todo, complete, stored >>
      /\ mode = "hand"
  BY DEF Prove
<1>3. TreeOK(tree) /\ p \in DOMAIN tree BY DEF TreeInv, OpenNodes
<1>4. WellFormed(tree[p].seq) BY <1>3 DEF TreeOK, NodeOK
<1>5. Formed(r) /\ Earned(r) /\ Held(r) BY <1>4, RulesMake DEF TypesInv
<1>6. TreeOK(tree') BY <1>1, <1>3, <1>5, GrownOK
<1>7. RulesOf(tree') \subseteq RulesOf(tree) \cup {r} /\ tree'[Root].seq = tree[Root].seq
  BY <1>1, <1>3, <1>5, GrownOpens
<1>8. \A q \in RulesOf(tree') : Earned(q) /\ Held(q) BY <1>5, <1>7 DEF TreeInv
<1>9. \A q : Held(q)' <=> Held(q) BY <1>2 DEF Held, Trusted
<1>10. TypesInv' BY <1>2 DEF TypesInv, Versions
<1>11. TreeInv' BY <1>2, <1>6, <1>7, <1>8, <1>9 DEF TreeInv
<1>12. DOMAIN todo = {} BY <1>2 DEF CallsInv
<1>13. CallsInv' BY <1>2, <1>12 DEF CallsInv
<1>14. StoredInv' BY <1>2, <1>12, StoredKept
<1> QED BY <1>10, <1>11, <1>13, <1>14

LEMMA SaveOK ==
    ASSUME IInv, Save
    PROVE  IInv'
<1> USE DEF IInv
<1>1. PutAway(obligation) /\ UNCHANGED << obligation, theory, registered >> BY DEF Save
<1>2. mode' = "none" /\ complete' = FALSE /\ todo' = todo BY <1>1 DEF PutAway
<1>3. TypesInv' BY <1>1, <1>2 DEF TypesInv, Versions
<1>4. DOMAIN todo = {} BY DEF Save, CallsInv
<1>5. TreeInv' /\ CallsInv' BY <1>1, <1>4, PutAwayOK DEF TypesInv
<1>6. PICK t : t = tree OBVIOUS
<1>7. TreeOK(t) /\ \A r \in RulesOf(t) : Earned(r) BY <1>6 DEF TreeInv
<1>8. stored' = [proof |-> Skeleton(t), deps |-> FromTree(t), conf |-> Confidence(t)]
  BY <1>6 DEF Save
<1>9. Recording(t)' BY <1>2, <1>4, <1>7, <1>8 DEF Recording
<1>10. Reapplying(t)' /\ Rebuilding(t)'
  BY <1>2 DEF Reapplying, Accepted, Rebuilding, Renamable, Rebuilds
<1>11. StoredInv' BY <1>9, <1>10 DEF StoredInv
<1> QED BY <1>3, <1>5, <1>11

LEMMA DiscardOK ==
    ASSUME IInv, Discard
    PROVE  IInv'
<1> USE DEF IInv
<1>1. PutAway(obligation) /\ UNCHANGED << obligation, theory, registered, stored >>
      /\ mode # "hand" /\ DOMAIN todo = {}
  BY DEF Discard
<1>2. mode' = "none" /\ complete' = FALSE /\ todo' = todo BY <1>1 DEF PutAway
<1>3. TypesInv' BY <1>1, <1>2 DEF TypesInv, Versions
<1>4. TreeInv' /\ CallsInv' BY <1>1, PutAwayOK DEF TypesInv
<1>5. StoredInv' BY <1>1, <1>2, StoredKept
<1> QED BY <1>3, <1>4, <1>5

LEMMA EditOK ==
    ASSUME IInv, NEW s \in Obligation, NEW size \in Theory, Edit(s, size)
    PROVE  IInv'
<1> USE DEF IInv
<1>1. PutAway(s) /\ UNCHANGED << registered, stored >> /\ mode = "none"
      /\ obligation' = s /\ theory' = size
  BY DEF Edit
<1>2. mode' = "none" /\ complete' = FALSE /\ todo' = todo BY <1>1 DEF PutAway
<1>3. TypesInv' BY <1>1, <1>2 DEF TypesInv, Versions
<1>4. DOMAIN todo = {} BY <1>1 DEF CallsInv
<1>5. TreeInv' /\ CallsInv' BY <1>1, <1>4, PutAwayOK
<1>6. StoredInv' BY <1>1, <1>2, <1>4, StoredKept
<1> QED BY <1>3, <1>5, <1>6

LEMMA ReleaseOK ==
    ASSUME IInv, NEW x \in Upgraded, Release(x)
    PROVE  IInv'
<1> USE DEF IInv
<1>1. UNCHANGED << obligation, theory, tree, mode, todo, complete, stored >> /\ mode = "none"
      /\ registered' = [registered EXCEPT ![x] = 1]
  BY DEF Release
<1>2. TypesInv' BY <1>1 DEF TypesInv, Versions
<1>3. WellFormed(obligation) BY ObligationAssumption DEF TypesInv
<1>4. tree = OpenTree(obligation) BY <1>1 DEF TreeInv
<1>5. RulesOf(tree) = {} BY <1>3, <1>4, OpenTreeOK
<1>6. TreeInv' BY <1>1, <1>5 DEF TreeInv
<1>7. CallsInv' BY <1>1 DEF CallsInv
<1>8. DOMAIN todo = {} BY <1>1 DEF CallsInv
<1>9. StoredInv' BY <1>1, <1>8, StoredKept
<1> QED BY <1>2, <1>6, <1>7, <1>9

(* A sequent the predicate takes but for names carries all the proof needs.  *)
LEMMA TakenCarries ==
    ASSUME NEW d \in DepsRecord, NEW s0, WellFormed(s0), Own(d, s0),
           NEW s, ReusableIfTaken(d, s)
    PROVE  Carries(NoHints, d, s0, s)
<1>1. d.hyps \in SUBSET Pred /\ d.idents \in SUBSET Ident /\ s0.goal \in Pred
  BY DEF DepsRecord, WellFormed, Sequent
<1>2. d.goal # Null => d.goal = s0.goal BY DEF Own
<1>3. d.goal \in {Null, s.goal} /\ d.hyps \subseteq s.hyps /\ d.idents \subseteq s.env
  BY NoDepsFields DEF ReusableIfTaken
<1>4. d.goal # Null => s.goal = RenamedPred(NoHints, s0.goal) BY <1>1, <1>2, <1>3, NoRenaming
<1>5. Renamed(NoHints, d.hyps) \subseteq s.hyps BY <1>1, <1>3, NoRenaming
<1>6. \A i \in d.idents : RenamedIdent(NoHints, i) \in s.env BY <1>1, <1>3, NoRenaming
<1>7. DOMAIN NoHints \subseteq Names(s0.env) BY DEF NoHints
<1> QED BY <1>4, <1>5, <1>6, <1>7, NoHintsOK DEF Carries

(* A reconstruction begins at the root, where the accepted dependencies are  *)
(* those of the whole proof.                                                 *)
LEMMA BeginOK ==
    ASSUME IInv, NEW kind \in {"reuse", "replay"} \cup Rebuilds, Begin(kind)
    PROVE  IInv'
<1> USE DEF IInv
<1>1. UNCHANGED << obligation, theory, registered, tree, stored >> /\ mode = "none"
      /\ mode' = kind /\ complete' = TRUE
  BY DEF Begin
<1>2. todo' = [p \in {Root} |-> Call(Root, NoHints)] BY DEF Begin
<1>3. DOMAIN todo' = {Root} /\ todo'[Root] = [from |-> Root, hints |-> NoHints]
  BY <1>2 DEF Call
<1>4. kind \notin {"hand", "none"} BY DEF Rebuilds
<1>5. TypesInv' BY <1>1 DEF TypesInv, Versions
<1>6. \A q : Held(q)' <=> Held(q) BY <1>1 DEF Held, Trusted
<1>7. TreeInv' BY <1>1, <1>4, <1>6 DEF TreeInv
<1>8. WellFormed(obligation) BY ObligationAssumption DEF TypesInv
<1>9. tree = OpenTree(obligation) BY <1>1 DEF TreeInv
<1>10. Root \in OpenNodes(tree) /\ tree[Root].seq = obligation
  BY <1>8, <1>9, OpenTreeOK DEF OpenNodes
<1>11. Root \in Seq(Nat) BY DEF Root
<1>12. NoHints \in Hints BY NoHintsOK, HintsMember
<1>13. todo'[Root] \in CallRecord BY <1>3, <1>11, <1>12 DEF CallRecord
<1>14. todo' \in [{Root} -> CallRecord] BY <1>2, <1>3, <1>13
<1>15. CallsInv' BY <1>1, <1>3, <1>4, <1>10, <1>14 DEF CallsInv
<1>16. PICK t : Recording(t) BY <1>1 DEF StoredInv
<1>17. Root \in DOMAIN t BY <1>16 DEF Recording, TreeOK, Placed
<1>18. Recording(t)' BY <1>1, <1>3, <1>16, <1>17 DEF Recording
<1>19. stored.deps = DepsOf(t)[Root] BY <1>16 DEF Recording, FromTree
<1>20. ASSUME Accepted' PROVE Reached(t, Root)'
  <2>1. IsProofReusable(stored.deps, obligation)
    BY <1>1, <1>20 DEF Accepted, IsProofReusable, Trusted
  <2>2. Meets(DepsOf(t)[Root], obligation)
    BY <1>19, <2>1, NoDepsFields DEF Meets, IsProofReusable
  <2>3. mode' = "replay" => NamesFrom(stored.proof, Root) \cap Names(obligation.env) = {}
    BY <1>1, <1>20 DEF Accepted
  <2> QED BY <1>1, <1>3, <1>10, <1>19, <2>2, <2>3 DEF Reached
<1>21. Reapplying(t)' BY <1>1, <1>3, <1>20 DEF Reapplying
<1>22. WellFormed(t[Root].seq) /\ Own(stored.deps, t[Root].seq) /\ stored.deps \in DepsRecord
  BY <1>16, <1>17, <1>19, DepsType, TreeOwn DEF Recording, TreeOK, NodeOK
<1>23. ASSUME Renamable' PROVE Followed(t, Root)' /\ Mirrored(t)'
  <2>1. ReusableIfTaken(stored.deps, obligation)
    BY <1>1, <1>23 DEF Renamable, ReusableIfTaken, Trusted
  <2>2. Carries(NoHints, stored.deps, t[Root].seq, obligation)
    BY <1>22, <2>1, TakenCarries
  <2>3. Followed(t, Root)' BY <1>1, <1>3, <1>10, <1>19, <2>2 DEF Followed
  <2>4. DOMAIN tree = {Root} /\ tree[Root].rule = Null BY <1>8, <1>9, OpenTreeOK
  <2>5. Mirrored(t)' BY <1>1, <1>3, <1>17, <2>4 DEF Mirrored
  <2> QED BY <2>3, <2>5
<1>24. Rebuilding(t)' BY <1>1, <1>3, <1>23 DEF Rebuilding
<1>25. StoredInv' BY <1>18, <1>21, <1>24 DEF StoredInv
<1> QED BY <1>5, <1>7, <1>15, <1>25

-----------------------------------------------------------------------------
(* The steps of a reconstruction.                                           *)

Unmoved == UNCHANGED << obligation, theory, registered, mode, stored >>

(* What is read for a call is the rule of the recorded tree at its place.    *)
LEMMA RecordedRule ==
    ASSUME NEW t, Recording(t), NEW p \in DOMAIN todo, Recorded(p) # Null
    PROVE  LET r == Recorded(p)
               from == todo[p].from
               r0 == t[from].rule
           IN /\ from \in DOMAIN t /\ from \in Seq(Nat) /\ r0 # Null
              /\ r = Loaded(r0) /\ Formed(r0) /\ Lowered(r, r0) /\ Earned(r)
              /\ Trusted(r0.desc) => r = r0
              /\ \A i \in DOMAIN r.ants : Append(from, i) \in DOMAIN t
<1> DEFINE from == todo[p].from
           r0 == t[from].rule
<1>1. TreeOK(t) /\ from \in DOMAIN t /\ \A q \in RulesOf(t) : Earned(q) BY DEF Recording
<1>2. stored.proof = Skeleton(t) BY DEF Recording
<1>3. stored.proof[from] = r0 BY <1>1, <1>2, SkeletonFields
<1>4. Recorded(p) = Loaded(r0) BY <1>3 DEF Recorded
<1>5. r0 # Null BY <1>4 DEF Loaded
<1>6. from \in Seq(Nat) BY <1>1 DEF TreeOK, Placed
<1>7. NodeOK(t, from) BY <1>1 DEF TreeOK
<1>8. Formed(r0) /\ \A i \in DOMAIN r0.ants : Append(from, i) \in DOMAIN t
  BY <1>5, <1>7 DEF NodeOK
<1>9. Earned(r0) BY <1>1, <1>5 DEF RulesOf
<1>10. Lowered(Recorded(p), r0) /\ Earned(Recorded(p)) /\ (Trusted(r0.desc) => Recorded(p) = r0)
  BY <1>4, <1>8, <1>9, LoadedRule
<1>11. Recorded(p).ants = r0.ants BY <1>10 DEF Lowered, Alike
<1> QED BY <1>1, <1>4, <1>5, <1>6, <1>8, <1>10, <1>11

(* The sub-proof at the i-th child of p has what it needs in what the rule   *)
(* makes of the sequent at p.                                                *)
Leads(t, p, r, i) ==
    LET s == GenSequent(r, i, tree[p].seq).seq
        d == DepsOf(t)[Append(p, i)]
    IN /\ Meets(d, s)
       /\ d.reasoners \subseteq stored.deps.reasoners
       /\ mode = "replay" => NamesFrom(stored.proof, Append(p, i)) \cap Names(s.env) = {}

(* A rule at p of the recorded confidence, whose children have, renamed,     *)
(* what the sub-proofs there need.                                           *)
Renews(t, p, r, hints) ==
    /\ t[p].rule # Null /\ r.conf = t[p].rule.conf
    /\ Len(r.ants) = Len(Recorded(p).ants)
    /\ DOMAIN r.ants = DOMAIN t[p].rule.ants
    /\ \A i \in DOMAIN r.ants :
          LET q == Append(p, i) IN
          /\ q \in DOMAIN t
          /\ Carries(hints[i], DepsOf(t)[q], t[q].seq, GenSequent(r, i, tree[p].seq).seq)
          /\ DepsOf(t)[q].reasoners \subseteq stored.deps.reasoners

(* The calls after a descent.                                                *)
Called(p, r, hints, fits) ==
    LET kids == IF fits THEN Kids(p, r) ELSE {} IN
    /\ DOMAIN todo' = (DOMAIN todo \ {p}) \cup kids
    /\ \A q \in DOMAIN todo \ ({p} \cup kids) : todo'[q] = todo[q]
    /\ fits => \A i \in DOMAIN r.ants :
                  todo'[Append(p, i)] = Call(Append(todo[p].from, i), hints[i])

LEMMA DescendCalls ==
    ASSUME NEW p \in DOMAIN todo, p \in Seq(Nat), NEW r, Formed(r), NEW hints,
           Descend(p, r, hints)
    PROVE  /\ Called(p, r, hints, Len(r.ants) = Len(Recorded(p).ants))
           /\ todo' = [q \in DOMAIN todo' |-> todo'[q]]
<1> DEFINE fits == Len(r.ants) = Len(Recorded(p).ants)
           kids == IF fits THEN Kids(p, r) ELSE {}
           calls == [q \in kids |-> Call(Append(todo[p].from, q[Len(q)]), hints[q[Len(q)]])]
           dom == (DOMAIN todo \ {p}) \cup kids
<1>1. todo' = [q \in dom |-> IF q \in kids THEN calls[q] ELSE todo[q]] BY DEF Descend
<1>2. DOMAIN r.ants \subseteq Nat BY RuleIndices
<1> HIDE DEF fits
<1>3. DOMAIN todo' = dom BY <1>1
<1>4. \A q \in DOMAIN todo \ ({p} \cup kids) : todo'[q] = todo[q] BY <1>1
<1>5. ASSUME fits, NEW i \in DOMAIN r.ants
      PROVE  todo'[Append(p, i)] = Call(Append(todo[p].from, i), hints[i])
  <2> DEFINE q == Append(p, i)
  <2>1. i \in Nat BY <1>2
  <2>2. q[Len(q)] = i BY <2>1, AppendFacts
  <2>3. q \in kids BY <1>5 DEF Kids
  <2> HIDE DEF q, kids
  <2>4. todo'[q] = calls[q] BY <1>1, <2>3
  <2>5. calls[q] = Call(Append(todo[p].from, i), hints[i]) BY <2>2, <2>3
  <2> QED BY <2>4, <2>5 DEF q
<1> QED BY <1>1, <1>3, <1>4, <1>5 DEF Called, fits

LEMMA DescendOK ==
    ASSUME IInv, NEW p \in DOMAIN todo, NEW t, Recording(t), Reapplying(t), Rebuilding(t),
           Recorded(p) # Null, Unmoved,
           NEW r, Formed(r), Applies(r, tree[p].seq), Earned(r), Held(r), NEW hints,
           Len(r.ants) = Len(Recorded(p).ants) => \A i \in DOMAIN r.ants : hints[i] \in Hints,
           Descend(p, r, hints),
           Accepted => /\ Len(r.ants) = Len(Recorded(p).ants)
                       /\ \A i \in DOMAIN r.ants : Leads(t, p, r, i),
           Renamable /\ NamesLeft(tree) => Renews(t, p, r, hints)
    PROVE  IInv'
<1> DEFINE fits == Len(r.ants) = Len(Recorded(p).ants)
           kids == IF fits THEN Kids(p, r) ELSE {}
           from == todo[p].from
<1>1. /\ UNCHANGED << obligation, theory, registered, mode, stored >>
      /\ mode \notin {"hand", "none"}
  BY DEF Unmoved, IInv, CallsInv
<1>2. TreeOK(tree) /\ p \in OpenNodes(tree) BY DEF IInv, TreeInv, CallsInv
<1>3. p \in DOMAIN tree /\ p \in Seq(Nat) BY <1>2 DEF OpenNodes, TreeOK, Placed
<1>4. tree' = Grown(tree, p, r) /\ complete' = (complete /\ fits) BY DEF Descend
<1>5. TreeOK(tree') BY <1>2, <1>4, GrownOK
<1>6. /\ RulesOf(tree') \subseteq RulesOf(tree) \cup {r}
      /\ tree'[Root].seq = tree[Root].seq
      /\ (OpenNodes(tree) \ {p}) \cup Kids(p, r) \subseteq OpenNodes(tree')
  BY <1>2, <1>4, GrownOpens
<1>7. GrownBy(tree, p, r, tree') BY <1>2, <1>3, <1>4, GrownFields
<1>8. Called(p, r, hints, fits) /\ todo' = [q \in DOMAIN todo' |-> todo'[q]]
  BY <1>3, DescendCalls
<1> HIDE DEF fits
<1>9. TypesInv' BY <1>1, <1>4 DEF IInv, TypesInv, Versions
<1>10. TreeInv'
  <2>1. \A q \in RulesOf(tree') : Earned(q) /\ Held(q) BY <1>6 DEF IInv, TreeInv
  <2>2. \A q : Held(q)' <=> Held(q) BY <1>1 DEF Held, Trusted
  <2> QED BY <1>1, <1>5, <1>6, <2>1, <2>2 DEF IInv, TreeInv
<1>11. fits => /\ from \in Seq(Nat)
               /\ \A i \in DOMAIN r.ants : i \in Nat /\ Append(from, i) \in DOMAIN t
                                          /\ hints[i] \in Hints
  <2> SUFFICES ASSUME fits
               PROVE  /\ from \in Seq(Nat)
                      /\ \A i \in DOMAIN r.ants : i \in Nat /\ Append(from, i) \in DOMAIN t
                                                 /\ hints[i] \in Hints
    OBVIOUS
  <2>1. from \in Seq(Nat) /\ Formed(t[from].rule) /\ Lowered(Recorded(p), t[from].rule)
        /\ \A i \in DOMAIN Recorded(p).ants : Append(from, i) \in DOMAIN t
    BY RecordedRule
  <2>2. r.ants \in Seq(AntecedentRecord) BY RuleIndices
  <2>3. Recorded(p).ants \in Seq(AntecedentRecord) BY <2>1, RuleIndices DEF Lowered
  <2>4. DOMAIN r.ants = DOMAIN Recorded(p).ants BY <2>2, <2>3 DEF fits
  <2>5. DOMAIN r.ants \subseteq Nat BY RuleIndices
  <2> QED BY <2>1, <2>4, <2>5 DEF fits
<1>12. ASSUME NEW q \in kids
       PROVE  /\ fits /\ \E i \in DOMAIN r.ants : q = Append(p, i)
              /\ todo'[q] \in CallRecord /\ todo'[q].from \in DOMAIN t
  <2>1. fits BY <1>12
  <2>2. PICK i \in DOMAIN r.ants : q = Append(p, i) BY <1>12, <2>1 DEF Kids
  <2>3. todo'[q] = Call(Append(from, i), hints[i]) BY <1>8, <2>1, <2>2 DEF Called
  <2>4. todo'[q] = [from |-> Append(from, i), hints |-> hints[i]] BY <2>3 DEF Call
  <2>5. Append(from, i) \in Seq(Nat) BY <1>11, <2>1, AppendFacts
  <2> QED BY <1>11, <2>1, <2>2, <2>4, <2>5 DEF CallRecord
<1>13. /\ DOMAIN todo' = (DOMAIN todo \ {p}) \cup kids
       /\ \A q \in DOMAIN todo \ ({p} \cup kids) : todo'[q] = todo[q]
  BY <1>8 DEF Called
<1>14. kids \subseteq Kids(p, r) OBVIOUS
<1> HIDE DEF kids
<1>15. CallsInv'
  <2>1. \A q \in DOMAIN todo' : todo'[q] \in CallRecord BY <1>12, <1>13 DEF IInv, CallsInv
  <2>2. todo' \in [DOMAIN todo' -> CallRecord] BY <1>8, <2>1
  <2>3. DOMAIN todo' \subseteq OpenNodes(tree') BY <1>6, <1>13, <1>14 DEF IInv, CallsInv
  <2> QED BY <1>1, <2>2, <2>3 DEF CallsInv
<1>16. Recording(t)'
  <2>1. \A q \in DOMAIN todo' : todo'[q].from \in DOMAIN t BY <1>12, <1>13 DEF Recording
  <2> QED BY <1>1, <2>1 DEF Recording
<1>17. Reapplying(t)'
  <2> SUFFICES ASSUME Accepted' PROVE complete' /\ \A q \in DOMAIN todo' : Reached(t, q)'
    BY DEF Reapplying
  <2>1. Accepted BY <1>1 DEF Accepted, ImplementedOnly, IsProofReusable, Trusted
  <2>2. /\ complete /\ fits /\ \A q \in DOMAIN todo : Reached(t, q)
        /\ \A i \in DOMAIN r.ants : Leads(t, p, r, i)
    BY <2>1 DEF Reapplying, fits
  <2>3. complete' BY <1>4, <2>2
  <2>4. ASSUME NEW q \in kids PROVE Reached(t, q)'
    <3>1. PICK i \in DOMAIN r.ants : q = Append(p, i) BY <1>12
    <3>2. from = p BY <2>2 DEF Reached
    <3>3. todo'[q] = Call(q, hints[i]) BY <1>8, <2>2, <3>1, <3>2 DEF Called
    <3>4. todo'[q].from = q BY <3>3 DEF Call
    <3>5. tree'[q].seq = GenSequent(r, i, tree[p].seq).seq BY <1>7, <3>1 DEF GrownBy
    <3>6. Leads(t, p, r, i) BY <2>2
    <3> QED BY <1>1, <3>1, <3>4, <3>5, <3>6 DEF Reached, Leads
  <2>5. ASSUME NEW q \in DOMAIN todo', q \notin kids PROVE Reached(t, q)'
    <3>1. q \in DOMAIN todo /\ q # p /\ todo'[q] = todo[q] BY <1>13, <2>5
    <3>2. q \in DOMAIN tree BY <3>1 DEF IInv, CallsInv, OpenNodes
    <3>3. kids = Kids(p, r) BY <2>2 DEF kids
    <3>4. tree'[q] = tree[q] BY <1>7, <2>5, <3>1, <3>2, <3>3 DEF GrownBy
    <3>5. Reached(t, q) BY <2>2, <3>1
    <3> QED BY <1>1, <3>1, <3>4, <3>5 DEF Reached
  <2> QED BY <2>3, <2>4, <2>5
<1>18. /\ DOMAIN tree' = DOMAIN tree \cup Kids(p, r) /\ Kids(p, r) \cap DOMAIN tree = {}
       /\ \A i \in DOMAIN r.ants :
             /\ tree'[Append(p, i)].seq = GenSequent(r, i, tree[p].seq).seq
             /\ tree'[Append(p, i)].rule = Null
       /\ tree'[p].rule = r /\ tree'[p].seq = tree[p].seq
       /\ \A q \in DOMAIN tree \ {p} : tree'[q] = tree[q]
  BY <1>2, <1>7, KidsNew DEF GrownBy
<1>19. Rebuilding(t)'
  <2> SUFFICES ASSUME Renamable', NamesLeft(tree')
               PROVE  complete' /\ (\A q \in DOMAIN todo' : Followed(t, q)') /\ Mirrored(t)'
    BY DEF Rebuilding
  <2>1. Renamable BY <1>1 DEF Renamable, ImplementedOnly, ReusableIfTaken, Trusted
  <2>2. NamesLeft(tree) BY <1>18 DEF NamesLeft
  <2>3. /\ complete /\ \A q \in DOMAIN todo : Followed(t, q)
        /\ Mirrored(t) /\ Renews(t, p, r, hints)
    BY <2>1, <2>2 DEF Rebuilding
  <2>4. fits /\ kids = Kids(p, r) BY <2>3 DEF Renews, fits, kids
  <2>5. complete' BY <1>4, <2>3, <2>4
  <2>6. ASSUME NEW q \in kids PROVE Followed(t, q)'
    <3>1. PICK i \in DOMAIN r.ants : q = Append(p, i) BY <1>12
    <3>2. from = p BY <2>3 DEF Followed
    <3>3. todo'[q] = Call(q, hints[i]) BY <1>8, <2>4, <3>1, <3>2 DEF Called
    <3>4. todo'[q].from = q /\ todo'[q].hints = hints[i] BY <3>3 DEF Call
    <3>5. tree'[q].seq = GenSequent(r, i, tree[p].seq).seq BY <1>18, <3>1
    <3>6. /\ Carries(hints[i], DepsOf(t)[q], t[q].seq, tree'[q].seq)
          /\ DepsOf(t)[q].reasoners \subseteq stored.deps.reasoners
      BY <2>3, <3>1, <3>5 DEF Renews
    <3> QED BY <1>1, <3>4, <3>6 DEF Followed
  <2>7. ASSUME NEW q \in DOMAIN todo', q \notin kids PROVE Followed(t, q)'
    <3>1. q \in DOMAIN todo /\ q # p /\ todo'[q] = todo[q] BY <1>13, <2>7
    <3>2. q \in DOMAIN tree BY <3>1 DEF IInv, CallsInv, OpenNodes
    <3>3. tree'[q] = tree[q] BY <1>18, <3>1, <3>2
    <3>4. Followed(t, q) BY <2>3, <3>1
    <3> QED BY <1>1, <3>1, <3>3, <3>4 DEF Followed
  <2>8. ASSUME NEW q \in DOMAIN tree'
        PROVE  /\ q \in DOMAIN t
               /\ tree'[q].rule = Null => q \in DOMAIN todo' \/ t[q].rule = Null
               /\ tree'[q].rule # Null => /\ t[q].rule # Null
                                          /\ t[q].rule.conf = tree'[q].rule.conf
                                          /\ Kids(q, t[q].rule) \subseteq DOMAIN tree'
    <3>1. CASE q \in Kids(p, r)
      <4>1. PICK i \in DOMAIN r.ants : q = Append(p, i) BY <3>1 DEF Kids
      <4>2. q \in DOMAIN t BY <2>3, <4>1 DEF Renews
      <4>3. tree'[q].rule = Null BY <1>18, <4>1
      <4> QED BY <1>13, <2>4, <3>1, <4>2, <4>3
    <3>2. CASE q = p
      <4>1. p \in DOMAIN t BY <1>3, <2>3 DEF Mirrored
      <4>2. t[p].rule # Null /\ t[p].rule.conf = r.conf /\ Kids(p, t[p].rule) = Kids(p, r)
        BY <2>3 DEF Renews, Kids
      <4>3. tree'[p].rule # Null BY <1>18, RuleFields
      <4> QED BY <1>18, <3>2, <4>1, <4>2, <4>3
    <3>3. CASE q \in DOMAIN tree \ {p}
      <4>1. tree'[q] = tree[q] BY <1>18, <3>3
      <4>2. /\ q \in DOMAIN t
            /\ tree[q].rule = Null => q \in DOMAIN todo \/ t[q].rule = Null
            /\ tree[q].rule # Null => /\ t[q].rule # Null /\ t[q].rule.conf = tree[q].rule.conf
                                      /\ Kids(q, t[q].rule) \subseteq DOMAIN tree
        BY <2>3, <3>3 DEF Mirrored
      <4>3. q \in DOMAIN todo => q \in DOMAIN todo' BY <1>13, <3>3
      <4>4. DOMAIN tree \subseteq DOMAIN tree' BY <1>18
      <4> QED BY <4>1, <4>2, <4>3, <4>4
    <3> QED BY <1>18, <3>1, <3>2, <3>3
  <2>9. Mirrored(t)' BY <2>8 DEF Mirrored
  <2> QED BY <2>5, <2>6, <2>7, <2>9
<1>20. StoredInv' BY <1>16, <1>17, <1>19 DEF StoredInv
<1> QED BY <1>9, <1>10, <1>15, <1>20 DEF IInv

LEMMA ReturnOK ==
    ASSUME IInv, NEW p \in DOMAIN todo, NEW t, Recording(t), Reapplying(t), Rebuilding(t),
           Unmoved, NEW ok \in BOOLEAN, Return(p, ok), Accepted => ok,
           Renamable /\ NamesLeft(tree) => ok /\ t[p].rule = Null
    PROVE  IInv'
<1>1. /\ UNCHANGED << obligation, theory, registered, mode, stored, tree >>
      /\ mode \notin {"hand", "none"}
  BY DEF Unmoved, Return, IInv, CallsInv
<1>2. todo' = [q \in DOMAIN todo \ {p} |-> todo[q]] /\ complete' = (complete /\ ok)
  BY DEF Return
<1>3. DOMAIN todo' \subseteq DOMAIN todo /\ \A q \in DOMAIN todo' : todo'[q] = todo[q]
  BY <1>2
<1>4. TypesInv' BY <1>1, <1>2 DEF IInv, TypesInv, Versions
<1>5. \A q : Held(q)' <=> Held(q) BY <1>1 DEF Held, Trusted
<1>6. TreeInv' BY <1>1, <1>5 DEF IInv, TreeInv
<1>7. \A q \in DOMAIN todo' : todo'[q] \in CallRecord BY <1>3 DEF IInv, CallsInv
<1>8. todo' \in [DOMAIN todo' -> CallRecord] BY <1>2, <1>7
<1>9. CallsInv' BY <1>1, <1>3, <1>8 DEF IInv, CallsInv
<1>10. Recording(t)' BY <1>1, <1>3 DEF Recording
<1>11. Reapplying(t)'
  <2> SUFFICES ASSUME Accepted' PROVE complete' /\ \A q \in DOMAIN todo' : Reached(t, q)'
    BY DEF Reapplying
  <2>1. Accepted BY <1>1 DEF Accepted, ImplementedOnly, IsProofReusable, Trusted
  <2>2. complete /\ ok /\ \A q \in DOMAIN todo : Reached(t, q) BY <2>1 DEF Reapplying
  <2>3. ASSUME NEW q \in DOMAIN todo' PROVE Reached(t, q)'
    <3>1. q \in DOMAIN todo /\ todo'[q] = todo[q] BY <1>3
    <3>2. Reached(t, q) BY <2>2, <3>1
    <3> QED BY <1>1, <3>1, <3>2 DEF Reached
  <2> QED BY <1>2, <2>2, <2>3
<1>12. Rebuilding(t)'
  <2> SUFFICES ASSUME Renamable', NamesLeft(tree')
               PROVE  complete' /\ (\A q \in DOMAIN todo' : Followed(t, q)') /\ Mirrored(t)'
    BY DEF Rebuilding
  <2>1. Renamable BY <1>1 DEF Renamable, ImplementedOnly, ReusableIfTaken, Trusted
  <2>2. /\ complete /\ ok /\ t[p].rule = Null
        /\ (\A q \in DOMAIN todo : Followed(t, q)) /\ Mirrored(t)
    BY <1>1, <2>1 DEF Rebuilding
  <2>3. ASSUME NEW q \in DOMAIN todo' PROVE Followed(t, q)'
    <3>1. q \in DOMAIN todo /\ todo'[q] = todo[q] BY <1>3
    <3>2. Followed(t, q) BY <2>2, <3>1
    <3> QED BY <1>1, <3>1, <3>2 DEF Followed
  <2>4. \A q \in DOMAIN todo : q \in DOMAIN todo' \/ t[q].rule = Null BY <1>2, <2>2
  <2>5. Mirrored(t)' BY <1>1, <2>2, <2>4 DEF Mirrored
  <2> QED BY <1>2, <2>2, <2>3, <2>5
<1>13. StoredInv' BY <1>10, <1>11, <1>12 DEF StoredInv
<1> QED BY <1>4, <1>6, <1>9, <1>13 DEF IInv

(* A rebuild passes over a rule that would do nothing.                       *)
LEMMA PassOverOK ==
    ASSUME IInv, NEW p \in DOMAIN todo, NEW t, Recording(t), Unmoved, mode \in Rebuilds,
           ~ (Renamable /\ NamesLeft(tree)), Recorded(p) # Null, Len(Recorded(p).ants) = 1,
           todo' = [todo EXCEPT ![p].from = Append(@, 1)], UNCHANGED << tree, complete >>
    PROVE  IInv'
<1> DEFINE from == todo[p].from
<1>1. UNCHANGED << obligation, theory, registered, mode, stored, tree, complete >> BY DEF Unmoved
<1>2. /\ from \in Seq(Nat) /\ Formed(t[from].rule)
      /\ Lowered(Recorded(p), t[from].rule)
      /\ \A i \in DOMAIN Recorded(p).ants : Append(from, i) \in DOMAIN t
  BY RecordedRule
<1>3. 1 \in DOMAIN Recorded(p).ants
  <2>1. Recorded(p).ants \in Seq(AntecedentRecord) BY <1>2, RuleIndices DEF Lowered
  <2> QED BY <2>1
<1>4. Append(from, 1) \in DOMAIN t /\ Append(from, 1) \in Seq(Nat) BY <1>2, <1>3
<1>5. todo \in [DOMAIN todo -> CallRecord] BY DEF IInv, CallsInv
<1>6. \A q \in DOMAIN todo : todo[q] \in CallRecord BY <1>5
<1>7. DOMAIN todo' = DOMAIN todo /\ \A q \in DOMAIN todo \ {p} : todo'[q] = todo[q] OBVIOUS
<1>8. todo'[p] = [todo[p] EXCEPT !.from = Append(from, 1)] OBVIOUS
<1>9. todo'[p] \in CallRecord /\ todo'[p].from = Append(from, 1)
  BY <1>4, <1>6, <1>8 DEF CallRecord
<1>10. \A q \in DOMAIN todo' : todo'[q] \in CallRecord BY <1>6, <1>7, <1>9
<1>11. todo' = [q \in DOMAIN todo' |-> todo'[q]] OBVIOUS
<1>12. todo' \in [DOMAIN todo' -> CallRecord] BY <1>10, <1>11
<1>13. TypesInv' BY <1>1 DEF IInv, TypesInv, Versions
<1>14. \A q : Held(q)' <=> Held(q) BY <1>1 DEF Held, Trusted
<1>15. TreeInv' BY <1>1, <1>14 DEF IInv, TreeInv
<1>16. CallsInv' BY <1>1, <1>7, <1>12 DEF IInv, CallsInv
<1>17. \A q \in DOMAIN todo' : todo'[q].from \in DOMAIN t BY <1>4, <1>7, <1>9 DEF Recording
<1>18. Recording(t)' BY <1>1, <1>17 DEF Recording
<1>19. ~ Accepted' BY <1>1 DEF Accepted, Rebuilds
<1>20. ~ (Renamable' /\ NamesLeft(tree'))
  BY <1>1 DEF Renamable, ImplementedOnly, ReusableIfTaken, Trusted
<1>21. Reapplying(t)' /\ Rebuilding(t)' BY <1>19, <1>20 DEF Reapplying, Rebuilding
<1>22. StoredInv' BY <1>18, <1>21 DEF StoredInv
<1> QED BY <1>13, <1>15, <1>16, <1>22 DEF IInv

(* What a call at the place it is for finds in the recorded tree.            *)
CallFinds(t, p) ==
    LET r0 == t[p].rule
        s0 == t[p].seq
        below == Below(t, DepsOf(t), p)
    IN /\ WellFormed(s0) /\ Applies(r0, s0) /\ WellFormed(tree[p].seq)
       /\ below \in [DOMAIN r0.ants -> DepsRecord]
       /\ Own(NodeDeps(r0, s0, below), s0)
       /\ DepsOf(t)[p] = NodeDeps(r0, s0, below)
       /\ \A i \in DOMAIN r0.ants : /\ Append(p, i) \in DOMAIN t
                                    /\ t[Append(p, i)].seq = GenSequent(r0, i, s0).seq
                                    /\ below[i] = DepsOf(t)[Append(p, i)]

LEMMA CallFound ==
    ASSUME IInv, NEW p \in DOMAIN todo, NEW t, Recording(t), todo[p].from = p,
           Recorded(p) # Null
    PROVE  CallFinds(t, p)
<1> DEFINE s == tree[p].seq
           r0 == t[p].rule
           s0 == t[p].seq
           below == Below(t, DepsOf(t), p)
<1>1. p \in DOMAIN t /\ r0 # Null BY RecordedRule
<1>2. TreeOK(t) BY DEF Recording
<1>3. NodeOK(t, p) BY <1>1, <1>2 DEF TreeOK
<1>4. /\ WellFormed(s0) /\ Applies(r0, s0)
      /\ \A i \in DOMAIN r0.ants : /\ Append(p, i) \in DOMAIN t
                                   /\ t[Append(p, i)].seq = GenSequent(r0, i, s0).seq
  BY <1>1, <1>3 DEF NodeOK
<1>5. p \in OpenNodes(tree) /\ TreeOK(tree) BY DEF IInv, TreeInv, CallsInv
<1>6. WellFormed(s) BY <1>5 DEF OpenNodes, TreeOK, NodeOK
<1>7. DepsOf(t)[p] = NodeDeps(r0, s0, below) BY <1>1, <1>2, DepsFields
<1>8. below = [i \in DOMAIN r0.ants |-> DepsOf(t)[Append(p, i)]] BY DEF Below
<1>9. \A i \in DOMAIN r0.ants : DepsOf(t)[Append(p, i)] \in DepsRecord BY <1>2, <1>4, DepsType
<1>10. below \in [DOMAIN r0.ants -> DepsRecord] BY <1>8, <1>9
<1>11. Own(DepsOf(t)[p], s0) BY <1>1, <1>2, TreeOwn
<1> HIDE DEF s, r0, s0, below
<1>12. \A i \in DOMAIN r0.ants : below[i] = DepsOf(t)[Append(p, i)] BY <1>8
<1> QED BY <1>4, <1>6, <1>7, <1>10, <1>11, <1>12 DEF CallFinds, s, r0, s0, below

(* A call of an accepted proof finds the rule it recorded, trusted, and what *)
(* the rule asks for.                                                        *)
LEMMA AcceptedNode ==
    ASSUME IInv, NEW p \in DOMAIN todo, NEW t, Recording(t), Accepted, Reached(t, p),
           Recorded(p) # Null
    PROVE  LET r == Recorded(p)
               s == tree[p].seq
           IN /\ IsRuleReusable(r) /\ Applies(r, s)
              /\ mode = "replay" => /\ Replayed(r, s, NoHints) # Null
                                    /\ Alike(Replayed(r, s, NoHints), r)
              /\ \A i \in DOMAIN r.ants : Leads(t, p, r, i)
<1> DEFINE r == Recorded(p)
           s == tree[p].seq
           from == todo[p].from
           r0 == t[p].rule
           s0 == t[p].seq
           d == DepsOf(t)[p]
           below == Below(t, DepsOf(t), p)
<1>1. from = p /\ Meets(d, s) /\ d.reasoners \subseteq stored.deps.reasoners BY DEF Reached
<1>2. /\ p \in DOMAIN t /\ p \in Seq(Nat) /\ r0 # Null /\ Formed(r0)
      /\ Trusted(r0.desc) => r = r0
      /\ \A i \in DOMAIN r.ants : Append(p, i) \in DOMAIN t
  BY <1>1, RecordedRule
<1>3. TreeOK(t) /\ stored.proof = Skeleton(t) /\ stored.deps = DepsOf(t)[Root]
  BY DEF Recording, FromTree
<1>4. CallFinds(t, p) BY <1>1, CallFound
<1>5. /\ WellFormed(s0) /\ Applies(r0, s0)
      /\ \A i \in DOMAIN r0.ants : /\ Append(p, i) \in DOMAIN t
                                   /\ t[Append(p, i)].seq = GenSequent(r0, i, s0).seq
  BY <1>4 DEF CallFinds
<1>6. WellFormed(s) BY <1>4 DEF CallFinds
<1>7. d = NodeDeps(r0, s0, below) BY <1>4 DEF CallFinds
<1>8. \A i \in DOMAIN r0.ants : below[i] = DepsOf(t)[Append(p, i)] BY <1>4 DEF CallFinds
<1>9. below \in [DOMAIN r0.ants -> DepsRecord] BY <1>4 DEF CallFinds
<1>10. \A i \in DOMAIN r0.ants :
          /\ below[i] = DepsOf(t)[Append(p, i)]
          /\ Own(below[i], GenSequent(r0, i, s0).seq)
          /\ below[i].introduced \subseteq NamesFrom(stored.proof, Append(p, i))
  <2> SUFFICES ASSUME NEW i \in DOMAIN r0.ants
               PROVE  /\ below[i] = DepsOf(t)[Append(p, i)]
                      /\ Own(below[i], GenSequent(r0, i, s0).seq)
                      /\ below[i].introduced \subseteq NamesFrom(stored.proof, Append(p, i))
    OBVIOUS
  <2>1. below[i] = DepsOf(t)[Append(p, i)] BY <1>8
  <2>2. Own(DepsOf(t)[Append(p, i)], t[Append(p, i)].seq)
        /\ DepsOf(t)[Append(p, i)].introduced \subseteq NamesFrom(Skeleton(t), Append(p, i))
    BY <1>3, <1>5, TreeOwn
  <2> QED BY <1>3, <1>5, <2>1, <2>2
<1> HIDE DEF r0, s0, d, below, s, r
<1>11. /\ d.reasoners = {r0.desc} \cup UNION {below[i].reasoners : i \in DOMAIN r0.ants}
  BY <1>2, <1>5, <1>7, <1>9, NodeDepsFields
<1>12. Trusted(r0.desc) /\ ~ Depends(r0.desc)
  <2>1. r0.desc \in stored.deps.reasoners BY <1>1, <1>11
  <2>2. stored.deps # NoDeps BY <2>1, NoDepsFields
  <2>3. IsProofReusable(stored.deps, obligation) BY DEF Accepted
  <2> QED BY <2>1, <2>2, <2>3 DEF IsProofReusable
<1>13. r = r0 BY <1>2, <1>12
<1>14. Applies(r0, s) BY <1>1, <1>2, <1>5, <1>6, <1>7, <1>9, MeetsApplies
<1>15. \A i \in DOMAIN r0.ants :
          NamesMade(r0.ants[i]) \cap NamesFrom(stored.proof, Append(p, i)) = {}
  <2>1. p \in DOMAIN stored.proof /\ stored.proof[p] = r0 BY <1>2, <1>3, SkeletonFields DEF r0
  <2>2. NamesApart(stored.proof) BY DEF Accepted
  <2> QED BY <1>2, <2>1, <2>2 DEF NamesApart
<1>16. mode = "replay" => NamesFrom(stored.proof, p) \cap Names(s.env) = {}
  BY DEF Reached, s
<1>17. ASSUME NEW i \in DOMAIN r0.ants PROVE Leads(t, p, r0, i)
  <2> DEFINE u == GenSequent(r0, i, s).seq
             q == Append(p, i)
  <2>1. NamesMade(r0.ants[i]) \cap below[i].introduced = {} BY <1>10, <1>15
  <2>2. Meets(below[i], u)
    BY <1>1, <1>2, <1>5, <1>6, <1>7, <1>9, <1>10, <2>1, MeetsChild
  <2>3. below[i].reasoners \subseteq stored.deps.reasoners BY <1>1, <1>11
  <2>4. mode = "replay" => NamesFrom(stored.proof, q) \cap Names(u.env) = {}
    <3>1. Names(u.env) \subseteq Names(s.env) \cup NamesMade(r0.ants[i])
      BY <1>2, <1>6, <1>14, ChildNames
    <3>2. DOMAIN stored.proof \subseteq Seq(Nat) BY <1>3, SkeletonFields DEF TreeOK, Placed
    <3>3. i \in Nat BY <1>2, RuleIndices
    <3>4. NamesFrom(stored.proof, q) \subseteq NamesFrom(stored.proof, p)
      BY <1>2, <3>2, <3>3, NamesBelow
    <3> QED BY <1>15, <1>16, <3>1, <3>4
  <2> QED BY <1>10, <2>2, <2>3, <2>4 DEF Leads, s
<1>18. mode = "replay" => Replayed(r0, s, NoHints) # Null /\ Alike(Replayed(r0, s, NoHints), r0)
  <2> SUFFICES ASSUME mode = "replay"
               PROVE  Replayed(r0, s, NoHints) # Null /\ Alike(Replayed(r0, s, NoHints), r0)
    OBVIOUS
  <2>1. r0.desc.id \in Implemented BY <1>1, <1>11 DEF Accepted, ImplementedOnly
  <2>2. \A i \in DOMAIN r0.ants : NamesMade(r0.ants[i]) \subseteq NamesFrom(stored.proof, p)
    <3>1. p \in DOMAIN stored.proof /\ stored.proof[p] = r0 BY <1>2, <1>3, SkeletonFields DEF r0
    <3> QED BY <1>2, <3>1, OwnNames
  <2>3. \A i \in DOMAIN r0.ants : NamesMade(r0.ants[i]) \cap Names(s.env) = {} BY <1>16, <2>2
  <2>4. Versions BY DEF IInv, TypesInv
  <2> QED BY <1>2, <1>6, <1>12, <1>14, <2>1, <2>3, <2>4, ReplaysAlike
<1>19. IsRuleReusable(r0) BY <1>12 DEF IsRuleReusable
<1> QED BY <1>13, <1>14, <1>17, <1>18, <1>19 DEF r, s

(* A rule that mirrors the recorded one renews it.                           *)
LEMMA MirrorRenews ==
    ASSUME IInv, NEW p \in DOMAIN todo, NEW t, Recording(t), Followed(t, p),
           Recorded(p) # Null, NEW hints, NEW q,
           Mirrors(todo[p].hints, hints, t[p].rule, q, t[p].seq, tree[p].seq),
           q.conf = t[p].rule.conf
    PROVE  Applies(q, tree[p].seq) /\ Renews(t, p, q, hints)
<1> DEFINE r0 == t[p].rule
           s0 == t[p].seq
           s == tree[p].seq
           h == todo[p].hints
           below == Below(t, DepsOf(t), p)
<1>1. /\ p \in DOMAIN t /\ r0 # Null /\ Formed(r0) /\ Lowered(Recorded(p), r0)
  BY RecordedRule DEF Followed
<1>2. CallFinds(t, p) BY CallFound DEF Followed
<1>3. /\ WellFormed(s0) /\ Applies(r0, s0) /\ WellFormed(s)
      /\ below \in [DOMAIN r0.ants -> DepsRecord]
      /\ Own(NodeDeps(r0, s0, below), s0)
      /\ DepsOf(t)[p] = NodeDeps(r0, s0, below)
      /\ \A i \in DOMAIN r0.ants : /\ Append(p, i) \in DOMAIN t
                                   /\ t[Append(p, i)].seq = GenSequent(r0, i, s0).seq
                                   /\ below[i] = DepsOf(t)[Append(p, i)]
  BY <1>2 DEF CallFinds
<1>4. /\ Carries(h, NodeDeps(r0, s0, below), s0, s)
      /\ NodeDeps(r0, s0, below).reasoners \subseteq stored.deps.reasoners
  BY <1>3 DEF Followed
<1>5. Formed(q) /\ DOMAIN q.ants = DOMAIN r0.ants BY DEF Mirrors
<1> HIDE DEF r0, s0, s, h, below
<1>6. Mirrors(h, hints, r0, q, s0, s) BY DEF r0, s0, s, h
<1>7. Applies(q, s) BY <1>1, <1>3, <1>4, <1>6, MirrorApplies
<1>8. \A i \in DOMAIN r0.ants :
         below[i].reasoners \subseteq stored.deps.reasoners
  BY <1>1, <1>3, <1>4, NodeDepsFields
<1>9. ASSUME NEW i \in DOMAIN q.ants
      PROVE  LET k == Append(p, i) IN
             /\ k \in DOMAIN t
             /\ Carries(hints[i], DepsOf(t)[k], t[k].seq, GenSequent(q, i, s).seq)
             /\ DepsOf(t)[k].reasoners \subseteq stored.deps.reasoners
  <2>1. i \in DOMAIN r0.ants BY <1>5
  <2>2. Carries(hints[i], below[i], GenSequent(r0, i, s0).seq, GenSequent(q, i, s).seq)
    BY <1>1, <1>3, <1>4, <1>6, <2>1, MirrorChild
  <2> QED BY <1>3, <1>8, <2>1, <2>2
<1>10. Len(q.ants) = Len(Recorded(p).ants)
  <2>1. Recorded(p).ants = r0.ants BY <1>1 DEF Lowered, Alike
  <2>2. q.ants \in Seq(AntecedentRecord) /\ r0.ants \in Seq(AntecedentRecord)
    BY <1>1, <1>5, RuleIndices
  <2> QED BY <1>5, <2>1, <2>2
<1> QED BY <1>1, <1>5, <1>7, <1>9, <1>10 DEF Renews, r0, s

(* A call of a proof that is rebuilt finds the recorded rule trusted, and it *)
(* is reused, or else made anew.                                             *)
LEMMA RebuiltNode ==
    ASSUME IInv, NEW p \in DOMAIN todo, NEW t, Recording(t), Renamable, NamesLeft(tree),
           Followed(t, p), Recorded(p) # Null
    PROVE  LET r == Recorded(p)
               s == tree[p].seq
               h == todo[p].hints
               q == Replayed(r, s, h)
           IN /\ TryReuse(r, s, h) \/ TryReplay(r, q, s, h)
              /\ TryReuse(r, s, h) => Renews(t, p, r, Kept(h, r))
              /\ TryReplay(r, q, s, h) => Renews(t, p, q, Anew(h, r, q))
<1> DEFINE r == Recorded(p)
           s == tree[p].seq
           h == todo[p].hints
           q == Replayed(r, s, h)
           r0 == t[p].rule
           s0 == t[p].seq
           below == Below(t, DepsOf(t), p)
<1>1. /\ p \in DOMAIN t /\ r0 # Null /\ Formed(r0)
      /\ Trusted(r0.desc) => r = r0
  BY RecordedRule DEF Followed
<1>2. /\ WellFormed(s0) /\ Applies(r0, s0) /\ WellFormed(s)
      /\ below \in [DOMAIN r0.ants -> DepsRecord]
      /\ DepsOf(t)[p] = NodeDeps(r0, s0, below)
  BY CallFound DEF CallFinds, Followed
<1>3. /\ Carries(h, NodeDeps(r0, s0, below), s0, s)
      /\ NodeDeps(r0, s0, below).reasoners \subseteq stored.deps.reasoners
  BY <1>2 DEF Followed
<1>4. HintsOK(h) BY <1>3 DEF Carries
<1>5. \A n \in Name : Solvable(n, s.env)
  <2>1. p \in DOMAIN tree BY DEF IInv, CallsInv, OpenNodes
  <2> QED BY <2>1 DEF NamesLeft
<1>6. r0.conf > UNCERTAIN_MAX
  <2>1. stored.proof = Skeleton(t) /\ TreeOK(t) BY DEF Recording
  <2>2. p \in DOMAIN stored.proof /\ stored.proof[p] = r0 BY <1>1, <2>1, SkeletonFields
  <2> QED BY <1>1, <2>2 DEF Renamable, CertainOnly
<1> HIDE DEF r0, s0, below
<1>7. r0.desc \in stored.deps.reasoners BY <1>1, <1>2, <1>3, NodeDepsFields
<1>8. Trusted(r0.desc) /\ ~ Depends(r0.desc) /\ r0.desc.id \in Implemented \ {"exF"}
  <2>1. stored.deps # NoDeps BY <1>7, NoDepsFields
  <2> QED BY <1>7, <2>1 DEF Renamable, ReusableIfTaken, ImplementedOnly
<1>9. r = r0 BY <1>1, <1>8
<1>10. Versions BY DEF IInv, TypesInv
<1> HIDE DEF r, s, h, q
<1>11. TryReuse(r, s, h) => Renews(t, p, r, Kept(h, r))
  <2> SUFFICES ASSUME TryReuse(r, s, h) PROVE Renews(t, p, r, Kept(h, r)) OBVIOUS
  <2>1. DOMAIN h = {} /\ Applies(r0, s) BY <1>9 DEF TryReuse
  <2>2. Mirrors(h, Kept(h, r0), r0, r0, s0, s)
    BY <1>1, <1>2, <1>4, <1>8, <2>1, ReuseMirrors
  <2> QED BY <1>9, <2>2, MirrorRenews DEF r, s, h, r0, s0
<1>12. q # Null /\ Mirrors(h, Anew(h, r0, q), r0, q, s0, s)
  BY <1>1, <1>2, <1>3, <1>5, <1>8, <1>9, <1>10, ReplayMirrors DEF q
<1>13. q.conf = r0.conf
  BY <1>1, <1>2, <1>4, <1>6, <1>9, <1>10, <1>12, ReplayedConfidence DEF q
<1>14. Applies(q, s) /\ Renews(t, p, q, Anew(h, r, q))
  <2>1. Mirrors(todo[p].hints, Anew(h, r, q), t[p].rule, q, t[p].seq, tree[p].seq)
    BY <1>9, <1>12 DEF h, s, r0, s0
  <2>2. q.conf = t[p].rule.conf BY <1>13 DEF r0
  <2>3. Recorded(p) # Null OBVIOUS
  <2>4. Applies(q, tree[p].seq) /\ Renews(t, p, q, Anew(h, r, q))
    BY <2>1, <2>2, <2>3, MirrorRenews
  <2> QED BY <2>4 DEF s
<1>15. TryReuse(r, s, h) \/ TryReplay(r, q, s, h)
  BY <1>6, <1>9, <1>12, <1>14 DEF TryReplay
<1> QED BY <1>11, <1>14, <1>15 DEF r, s, h, q

LEMMA KeptHints ==
    ASSUME NEW hints \in Hints, NEW rule
    PROVE  \A i \in DOMAIN rule.ants : Kept(hints, rule)[i] \in Hints
BY DEF Kept

(* What a step finds: the recorded tree, and a well-formed sequent.          *)
LEMMA StepFinds ==
    ASSUME IInv, NEW p \in DOMAIN todo
    PROVE  /\ \E t : Recording(t) /\ Reapplying(t) /\ Rebuilding(t)
           /\ WellFormed(tree[p].seq)
           /\ Versions /\ theory \in Theory
           /\ todo[p].hints \in Hints /\ NoHints \in Hints
<1>1. p \in OpenNodes(tree) /\ mode # "hand" /\ TreeOK(tree) /\ todo[p] \in CallRecord
  BY DEF IInv, CallsInv, TreeInv
<1>2. WellFormed(tree[p].seq) BY <1>1 DEF OpenNodes, TreeOK, NodeOK
<1>3. \E t : Recording(t) /\ Reapplying(t) /\ Rebuilding(t) BY <1>1 DEF IInv, StoredInv
<1>4. todo[p].hints \in Hints BY <1>1 DEF CallRecord
<1>5. NoHints \in Hints BY NoHintsOK, HintsMember
<1> QED BY <1>2, <1>3, <1>4, <1>5 DEF IInv, TypesInv

LEMMA ReuseStepOK ==
    ASSUME IInv, NEW p \in DOMAIN todo, ReuseStep(p), Unmoved
    PROVE  IInv'
<1> DEFINE r == Recorded(p)
           s == tree[p].seq
<1>1. PICK t : Recording(t) /\ Reapplying(t) /\ Rebuilding(t) BY StepFinds
<1>2. (Accepted => Reached(t, p)) /\ ~ Renamable
  BY <1>1 DEF Reapplying, ReuseStep, Renamable, Rebuilds
<1>3. CASE r = Null
  <2>1. Return(p, TRUE) BY <1>3 DEF ReuseStep
  <2> QED BY <1>1, <1>2, <2>1, ReturnOK
<1>4. CASE r # Null /\ IsRuleReusable(r) /\ Applies(r, s)
  <2>1. Descend(p, r, Kept(NoHints, r)) BY <1>4 DEF ReuseStep
  <2>2. Formed(r) /\ Earned(r) BY <1>1, <1>4, RecordedRule DEF Lowered
  <2>3. Held(r) BY <1>4, <2>2, StepFinds, ReusableHeld
  <2>4. \A i \in DOMAIN r.ants : Kept(NoHints, r)[i] \in Hints BY StepFinds, KeptHints
  <2>5. Accepted => \A i \in DOMAIN r.ants : Leads(t, p, r, i)
    BY <1>1, <1>2, <1>4, AcceptedNode
  <2> HIDE DEF r
  <2> QED BY <1>1, <1>2, <1>4, <2>1, <2>2, <2>3, <2>4, <2>5, DescendOK DEF r
<1>5. CASE r # Null /\ ~ (IsRuleReusable(r) /\ Applies(r, s))
  <2>1. Return(p, FALSE) BY <1>5 DEF ReuseStep
  <2>2. ~ Accepted BY <1>1, <1>2, <1>5, AcceptedNode
  <2> QED BY <1>1, <1>2, <2>1, <2>2, ReturnOK
<1> QED BY <1>3, <1>4, <1>5

LEMMA ReplayStepOK ==
    ASSUME IInv, NEW p \in DOMAIN todo, ReplayStep(p), Unmoved
    PROVE  IInv'
<1> DEFINE r == Recorded(p)
           s == tree[p].seq
           produced == Replayed(r, s, NoHints)
<1>1. PICK t : Recording(t) /\ Reapplying(t) /\ Rebuilding(t) BY StepFinds
<1>2. (Accepted => Reached(t, p)) /\ mode = "replay" /\ ~ Renamable
  BY <1>1 DEF Reapplying, ReplayStep, Renamable, Rebuilds
<1>3. CASE r = Null
  <2>1. Return(p, TRUE) BY <1>3 DEF ReplayStep
  <2> QED BY <1>1, <1>2, <2>1, ReturnOK
<1>4. CASE r # Null /\ produced # Null /\ Applies(produced, s)
  <2>1. Descend(p, produced, Kept(NoHints, produced)) BY <1>4 DEF ReplayStep
  <2>2. Formed(r) BY <1>1, <1>4, RecordedRule DEF Lowered
  <2>3. Formed(produced) /\ Earned(produced) /\ Held(produced)
    BY <1>4, <2>2, StepFinds, NoHintsOK, ReplayedMakes, MadeHere
  <2>4. \A i \in DOMAIN produced.ants : Kept(NoHints, produced)[i] \in Hints
    BY StepFinds, KeptHints
  <2>5. Accepted => Alike(produced, r) /\ \A i \in DOMAIN r.ants : Leads(t, p, r, i)
    BY <1>1, <1>2, <1>4, AcceptedNode
  <2> HIDE DEF r, produced
  <2>6. Alike(produced, r) => \A i : GenSequent(produced, i, s) = GenSequent(r, i, s)
    BY AlikeApplies
  <2>7. Accepted => /\ Len(produced.ants) = Len(r.ants)
                    /\ \A i \in DOMAIN produced.ants : Leads(t, p, produced, i)
    BY <2>5, <2>6 DEF Alike, Leads
  <2> QED BY <1>1, <1>2, <1>4, <2>1, <2>3, <2>4, <2>7, DescendOK DEF r
<1>5. CASE r # Null /\ ~ (produced # Null /\ Applies(produced, s))
  <2>1. Return(p, FALSE) BY <1>5 DEF ReplayStep
  <2>2. ASSUME Accepted PROVE FALSE
    <3>1. produced # Null /\ Alike(produced, r) /\ Applies(r, s)
      BY <1>1, <1>2, <1>5, <2>2, AcceptedNode
    <3> QED BY <1>5, <3>1, AlikeApplies
  <2> QED BY <1>1, <1>2, <2>1, <2>2, ReturnOK
<1> QED BY <1>3, <1>4, <1>5

LEMMA RebuildStepOK ==
    ASSUME IInv, NEW p \in DOMAIN todo, RebuildStep(p), Unmoved
    PROVE  IInv'
<1> DEFINE r == Recorded(p)
           s == tree[p].seq
           hints == todo[p].hints
           produced == Replayed(r, s, hints)
           lost == ~ TryReuse(r, s, hints) /\ ~ TryReplay(r, produced, s, hints)
           anew == [i \in DOMAIN produced.ants |-> AddHints(hints, r.ants[i], produced.ants[i])]
           renamed == Renamable /\ NamesLeft(tree)
<1>1. PICK t : Recording(t) /\ Reapplying(t) /\ Rebuilding(t) BY StepFinds
<1>2. mode \in Rebuilds BY DEF RebuildStep
<1>3. ~ Accepted BY <1>2 DEF Accepted, Rebuilds
<1>4. /\ WellFormed(s) /\ Versions /\ theory \in Theory /\ hints \in Hints
      /\ \A rule : \A i \in DOMAIN rule.ants : Kept(hints, rule)[i] \in Hints
  BY StepFinds, KeptHints
<1>5. r # Null => Formed(r) /\ Earned(r) BY <1>1, RecordedRule DEF Lowered
<1>6. \/ r = Null /\ Return(p, TRUE)
      \/ r # Null /\ TryReuse(r, s, hints) /\ Descend(p, r, Kept(hints, r))
      \/ r # Null /\ TryReplay(r, produced, s, hints) /\ Descend(p, produced, anew)
      \/ /\ r # Null /\ lost /\ RuleIsSkip(s, r)
         /\ todo' = [todo EXCEPT ![p].from = Append(@, 1)]
         /\ UNCHANGED << tree, complete >>
      \/ r # Null /\ lost /\ Applies(r, s) /\ Descend(p, Downgraded(r), Kept(hints, r))
      \/ r # Null /\ lost /\ Return(p, FALSE)
  BY DEF RebuildStep
<1>7. renamed => Followed(t, p) BY <1>1 DEF Rebuilding
<1>8. renamed /\ r # Null =>
          /\ ~ lost
          /\ TryReuse(r, s, hints) => Renews(t, p, r, Kept(hints, r))
          /\ TryReplay(r, produced, s, hints) => Renews(t, p, produced, anew)
  BY <1>1, <1>7, RebuiltNode DEF Anew
<1> HIDE DEF lost
<1>9. CASE r = Null /\ Return(p, TRUE)
  <2>1. renamed => t[p].rule = Null
    <3> SUFFICES ASSUME renamed PROVE t[p].rule = Null OBVIOUS
    <3>1. todo[p].from = p BY <1>7 DEF Followed
    <3>2. p \in DOMAIN t /\ TreeOK(t) /\ stored.proof = Skeleton(t)
      BY <1>1, <3>1 DEF Recording
    <3>3. stored.proof[p] = t[p].rule BY <3>2, SkeletonFields
    <3>4. t[p].rule # Null => Formed(t[p].rule) BY <3>2 DEF TreeOK, NodeOK
    <3> QED BY <1>9, <3>1, <3>3, <3>4, LoadedRule DEF Recorded
  <2> HIDE DEF r
  <2> QED BY <1>1, <1>3, <1>9, <2>1, ReturnOK
<1>10. CASE r # Null /\ TryReuse(r, s, hints) /\ Descend(p, r, Kept(hints, r))
  <2>1. IsRuleReusable(r) /\ Applies(r, s) BY <1>10 DEF TryReuse
  <2>2. Held(r) BY <1>4, <1>5, <1>10, <2>1, ReusableHeld
  <2>3. renamed => Renews(t, p, r, Kept(hints, r)) BY <1>8, <1>10
  <2> HIDE DEF r, hints
  <2> QED BY <1>1, <1>3, <1>4, <1>5, <1>10, <2>1, <2>2, <2>3, DescendOK DEF r
<1>11. CASE r # Null /\ TryReplay(r, produced, s, hints) /\ Descend(p, produced, anew)
  <2>1. produced # Null /\ Applies(produced, s) BY <1>11 DEF TryReplay
  <2>2. HintsOK(hints) BY <1>4, HintsMember
  <2>3. renamed => Renews(t, p, produced, anew) BY <1>8, <1>11
  <2> HIDE DEF r, hints
  <2>4. Formed(produced) /\ Earned(produced) /\ Held(produced)
    BY <1>4, <1>5, <1>11, <2>1, <2>2, ReplayedMakes, MadeHere
  <2> HIDE DEF produced
  <2>5. ASSUME Len(produced.ants) = Len(r.ants), NEW i \in DOMAIN produced.ants
        PROVE  anew[i] \in Hints
    <3>1. produced.ants \in Seq(AntecedentRecord) /\ r.ants \in Seq(AntecedentRecord)
      BY <1>5, <1>11, <2>4, RuleIndices
    <3>2. produced.ants[i] \in AntecedentRecord /\ r.ants[i] \in AntecedentRecord
      BY <2>5, <3>1
    <3>3. HintsOK(AddHints(hints, r.ants[i], produced.ants[i])) BY <2>2, <3>2, AddHintsType
    <3> QED BY <3>3, HintsMember
  <2> HIDE DEF anew
  <2> QED BY <1>1, <1>3, <1>11, <2>1, <2>4, <2>5, <2>3, DescendOK DEF r
<1>12. CASE /\ r # Null /\ lost /\ RuleIsSkip(s, r)
            /\ todo' = [todo EXCEPT ![p].from = Append(@, 1)]
            /\ UNCHANGED << tree, complete >>
  <2>1. Len(r.ants) = 1 BY <1>12 DEF RuleIsSkip
  <2>2. ~ renamed BY <1>8, <1>12
  <2> HIDE DEF r
  <2> QED BY <1>1, <1>2, <1>12, <2>1, <2>2, PassOverOK DEF r
<1>13. CASE r # Null /\ lost /\ Applies(r, s) /\ Descend(p, Downgraded(r), Kept(hints, r))
  <2> DEFINE q == Downgraded(r)
  <2>1. ~ renamed BY <1>8, <1>13
  <2>2. Lowered(q, r) /\ Earned(q) /\ Held(q) BY <1>5, <1>13, DowngradedRule
  <2> HIDE DEF q, r, hints
  <2>3. Formed(q) /\ q.ants = r.ants /\ Alike(q, r) BY <2>2 DEF Lowered, Alike
  <2>4. Applies(q, s) BY <1>13, <2>3, AlikeApplies
  <2>5. \A i \in DOMAIN q.ants : Kept(hints, r)[i] \in Hints BY <1>4, <2>3
  <2>6. Descend(p, q, Kept(hints, r)) BY <1>13 DEF q
  <2> QED BY <1>1, <1>3, <1>13, <2>2, <2>3, <2>4, <2>5, <2>6, <2>1, DescendOK DEF r
<1>14. CASE r # Null /\ lost /\ Return(p, FALSE)
  <2>1. ~ renamed BY <1>8, <1>14
  <2> QED BY <1>1, <1>3, <1>14, <2>1, ReturnOK
<1> QED BY <1>6, <1>9, <1>10, <1>11, <1>12, <1>13, <1>14

LEMMA StutterOK ==
    ASSUME IInv, UNCHANGED vars
    PROVE  IInv'
<1>1. UNCHANGED << obligation, theory, registered, tree, mode, todo, complete, stored >>
  BY DEF vars
<1>2. TypesInv' BY <1>1 DEF IInv, TypesInv, Versions
<1>3. \A q : Held(q)' <=> Held(q) BY <1>1 DEF Held, Trusted
<1>4. TreeInv' BY <1>1, <1>3 DEF IInv, TreeInv
<1>5. CallsInv' BY <1>1 DEF IInv, CallsInv
<1>6. StoredInv'
  <2> SUFFICES ASSUME stored' # Null \/ mode' # "hand"
               PROVE  \E t : Recording(t)' /\ Reapplying(t)' /\ Rebuilding(t)'
    BY DEF StoredInv
  <2>1. PICK t : Recording(t) /\ Reapplying(t) /\ Rebuilding(t) BY <1>1 DEF IInv, StoredInv
  <2>2. Recording(t)' BY <1>1, <2>1 DEF Recording
  <2>3. Accepted' => Accepted BY <1>1 DEF Accepted, ImplementedOnly, IsProofReusable, Trusted
  <2>4. \A p : Reached(t, p)' <=> Reached(t, p) BY <1>1 DEF Reached
  <2>5. Reapplying(t)' BY <1>1, <2>1, <2>3, <2>4 DEF Reapplying
  <2>6. Renamable' => Renamable
    BY <1>1 DEF Renamable, ImplementedOnly, ReusableIfTaken, Trusted
  <2>7. (\A p : Followed(t, p)' <=> Followed(t, p)) /\ (Mirrored(t)' <=> Mirrored(t))
    BY <1>1 DEF Followed, Mirrored
  <2>8. Rebuilding(t)' BY <1>1, <2>1, <2>6, <2>7 DEF Rebuilding
  <2> QED BY <2>2, <2>5, <2>8
<1> QED BY <1>2, <1>4, <1>5, <1>6 DEF IInv

LEMMA NextOK ==
    ASSUME IInv, [Next]_vars
    PROVE  IInv'
<1>1. CASE UNCHANGED vars BY <1>1, StutterOK
<1>2. ASSUME NEW p \in OpenNodes(tree), Prove(p) PROVE IInv' BY <1>2, ProveOK
<1>3. CASE Save BY <1>3, SaveOK
<1>4. CASE Discard BY <1>4, DiscardOK
<1>5. ASSUME NEW s \in Obligation, NEW size \in Theory, Edit(s, size) PROVE IInv'
  BY <1>5, EditOK
<1>6. ASSUME NEW x \in Upgraded, Release(x) PROVE IInv' BY <1>6, ReleaseOK
<1>7. ASSUME NEW kind \in {"reuse", "replay"} \cup Rebuilds, Begin(kind) PROVE IInv'
  BY <1>7, BeginOK
<1>8. ASSUME NEW p \in DOMAIN todo, Step(p) PROVE IInv'
  <2>1. Unmoved /\ (ReuseStep(p) \/ ReplayStep(p) \/ RebuildStep(p)) BY <1>8 DEF Step, Unmoved
  <2> QED BY <2>1, ReuseStepOK, ReplayStepOK, RebuildStepOK
<1> QED BY <1>1, <1>2, <1>3, <1>4, <1>5, <1>6, <1>7, <1>8 DEF Next

-----------------------------------------------------------------------------
(* What the invariant says.                                                 *)

LEMMA InvTypeOK == IInv => TypeOK
<1> SUFFICES ASSUME IInv PROVE TypeOK OBVIOUS
<1>1. TypesInv /\ TreeOK(tree) /\ DOMAIN todo \subseteq OpenNodes(tree)
  BY DEF IInv, TreeInv, CallsInv
<1>2. ASSUME NEW p \in DOMAIN tree
      PROVE  WellFormed(tree[p].seq) /\ tree[p].rule \in ProofRule \cup {Null}
  <2>1. NodeOK(tree, p) BY <1>1 DEF TreeOK
  <2> QED BY <2>1 DEF NodeOK, Formed
<1> QED BY <1>1, <1>2 DEF TypeOK, TypesInv, Versions

(* What a tree of sound rules needs of any sequent proves its goal there.    *)
LEMMA NeededProves ==
    ASSUME NEW t, TreeOK(t), Confidence(t) > REVIEWED_MAX, NEW Bad, NEW z,
           \A r \in RulesOf(t) : r.conf > REVIEWED_MAX => Sound(r, Bad, z),
           FromTree(t).reasoners \cap Bad = {}
    PROVE  /\ FromTree(t).goal = t[Root].seq.goal
           /\ FromTree(t).hyps \subseteq t[Root].seq.hyps
           /\ Entails(FromTree(t).hyps, t[Root].seq.goal, z)
<1>1. Root \in DOMAIN t BY DEF TreeOK, Placed
<1>2. \A p \in DOMAIN t : t[p].rule # Null /\ t[p].rule.conf > REVIEWED_MAX
  BY ConfidentNodes
<1>3. \A p \in DOMAIN t : t[p].rule # Null /\ Sound(t[p].rule, Bad, z) BY <1>2 DEF RulesOf
<1>4. Proves(DepsOf(t)[Root], t[Root].seq, Bad, z) BY <1>1, <1>3, TreeProves
<1>5. Own(DepsOf(t)[Root], t[Root].seq) BY <1>1, TreeOwn
<1> QED BY <1>4, <1>5 DEF Proves, Own, FromTree

LEMMA UncertainBelowReviewed == \A n \in Nat : n > REVIEWED_MAX => n > UNCERTAIN_MAX
BY DEF REVIEWED_MAX, UNCERTAIN_MAX

LEMMA InvTreesAreSound == IInv => TreesAreSound
<1> SUFFICES ASSUME IInv, Confidence(tree) > REVIEWED_MAX,
                    ~ \E r \in RulesOf(tree) : Believed(r.desc)
             PROVE  Valid(tree[Root].seq)
  BY DEF TreesAreSound
<1>1. TreeOK(tree) /\ \A r \in RulesOf(tree) : Held(r) BY DEF IInv, TreeInv
<1>2. ASSUME NEW r \in RulesOf(tree), r.conf > REVIEWED_MAX PROVE Sound(r, {}, theory)
  <2>1. r.conf \in Nat
    <3>1. PICK p \in DOMAIN tree : r = tree[p].rule /\ r # Null BY <1>2 DEF RulesOf
    <3>2. NodeOK(tree, p) BY <1>1 DEF TreeOK
    <3> QED BY <3>1, <3>2, RuleFields DEF NodeOK
  <2>2. r.conf > UNCERTAIN_MAX BY <1>2, <2>1, UncertainBelowReviewed
  <2>3. ~ (Trusted(r.desc) /\ Unproven(r.desc)) BY DEF Believed, Unproven
  <2> QED BY <1>1, <1>2, <2>2, <2>3 DEF Held, Sound
<1>3. FromTree(tree).reasoners \cap {} = {} OBVIOUS
<1>4. /\ FromTree(tree).hyps \subseteq tree[Root].seq.hyps
      /\ Entails(FromTree(tree).hyps, tree[Root].seq.goal, theory)
  BY <1>1, <1>2, <1>3, NeededProves
<1> QED BY <1>4, EntailsMore DEF Valid

LEMMA InvDischargedIsValid == IInv => DischargedIsValid
<1> SUFFICES ASSUME IInv, stored # Null, Status(stored, obligation) = "discharged",
                    ~ \E d \in stored.deps.reasoners : Believed(d)
             PROVE  Valid(obligation)
  BY DEF DischargedIsValid
<1>1. PICK t : Recording(t) BY DEF IInv, StoredInv
<1>2. /\ TreeOK(t) /\ \A r \in RulesOf(t) : Earned(r)
      /\ stored.deps = FromTree(t) /\ stored.conf = Confidence(t)
  BY <1>1 DEF Recording
<1>3. IsProofReusable(stored.deps, obligation) /\ Confidence(t) > REVIEWED_MAX
  BY <1>2 DEF Status
<1>4. Root \in DOMAIN t BY <1>2 DEF TreeOK, Placed
<1>5. t[Root].seq.goal \in Pred BY <1>2, <1>4 DEF TreeOK, NodeOK, WellFormed, Sequent
<1> DEFINE Bad == {d \in Desc : Unproven(d) \/ Depends(d)}
<1>6. FromTree(t).reasoners \cap Bad = {}
  <2> SUFFICES ASSUME NEW d \in FromTree(t).reasoners, Unproven(d) \/ Depends(d) PROVE FALSE
    OBVIOUS
  <2>1. stored.deps # NoDeps BY <1>2, NoDepsFields
  <2>2. Trusted(d) /\ ~ Depends(d) BY <1>2, <1>3, <2>1 DEF IsProofReusable
  <2>3. ~ Believed(d) BY <1>2
  <2> QED BY <2>2, <2>3 DEF Believed, Unproven
<1>7. ASSUME NEW r \in RulesOf(t), r.conf > REVIEWED_MAX PROVE Sound(r, Bad, theory)
  <2>1. PICK p \in DOMAIN t : r = t[p].rule /\ r # Null BY <1>7 DEF RulesOf
  <2>2. NodeOK(t, p) BY <1>2 DEF TreeOK
  <2>3. r.desc \in Desc BY <2>1, <2>2, RuleFields DEF NodeOK
  <2>4. theory \in Theory /\ Earned(r) BY <1>2 DEF IInv, TypesInv
  <2> QED BY <1>7, <2>3, <2>4 DEF Earned, Sound
<1> HIDE DEF Bad
<1>8. /\ FromTree(t).goal = t[Root].seq.goal
      /\ Entails(FromTree(t).hyps, t[Root].seq.goal, theory)
  BY <1>2, <1>3, <1>6, <1>7, NeededProves
<1>9. FromTree(t).goal # Null BY <1>5, <1>8, NullAssumption
<1>10. FromTree(t) # NoDeps BY <1>9, NoDepsFields
<1>11. FromTree(t).goal = obligation.goal /\ FromTree(t).hyps \subseteq obligation.hyps
  BY <1>2, <1>3, <1>9, <1>10 DEF IsProofReusable
<1> QED BY <1>8, <1>11, EntailsMore DEF Valid

LEMMA InvReusableReapply == IInv => ReusableProofsReapply
<1> SUFFICES ASSUME IInv, Accepted PROVE complete
  BY DEF ReusableProofsReapply, Accepted
<1>1. mode # "hand" BY DEF Accepted
<1>2. PICK t : Reapplying(t) BY <1>1 DEF IInv, StoredInv
<1> QED BY <1>2 DEF Reapplying

(* A tree made wholly of the recorded places has the recorded confidence.    *)
LEMMA MirroredConfidence ==
    ASSUME IInv, NEW t, Recording(t), Mirrored(t), DOMAIN todo = {}
    PROVE  Confidence(tree) = Confidence(t)
<1>1. TreeOK(t) /\ TreeOK(tree) BY DEF IInv, TreeInv, Recording
<1>2. /\ DOMAIN tree \subseteq DOMAIN t
      /\ \A q \in DOMAIN tree : NodeConfidence(tree[q]) = NodeConfidence(t[q])
  BY DEF Mirrored, NodeConfidence
<1>3. DOMAIN t \subseteq DOMAIN tree
  <2> DEFINE B == DOMAIN t \ DOMAIN tree
             S == {Len(q) : q \in B}
  <2>1. DOMAIN t \subseteq Seq(Nat) /\ Root \in DOMAIN tree BY <1>1 DEF TreeOK, Placed
  <2> SUFFICES ASSUME B # {} PROVE FALSE OBVIOUS
  <2>2. S \in SUBSET Nat /\ S # {} BY <2>1
  <2>3. PICK m \in S : \A n \in S : m <= n
    <3> HIDE DEF S
    <3> QED BY <2>2, LowestNat
  <2>4. PICK q \in B : m = Len(q) OBVIOUS
  <2>5. PICK p \in DOMAIN t : t[p].rule # Null /\ q \in Kids(p, t[p].rule)
    BY <1>1, <2>1, <2>4 DEF TreeOK, Rooted, IsChild
  <2>6. Len(q) = Len(p) + 1 /\ Len(p) \in Nat
    <3>1. NodeOK(t, p) /\ p \in Seq(Nat) BY <1>1, <2>1 DEF TreeOK
    <3>2. DOMAIN t[p].rule.ants \subseteq Nat BY <2>5, <3>1, RuleIndices DEF NodeOK
    <3>3. PICK i \in DOMAIN t[p].rule.ants : q = Append(p, i) BY <2>5 DEF Kids
    <3> QED BY <3>1, <3>2, <3>3, AppendFacts
  <2>7. p \in DOMAIN tree
    <3>1. SUFFICES ASSUME p \in B PROVE FALSE OBVIOUS
    <3>2. Len(p) \in S BY <3>1
    <3>3. m <= Len(p) BY <2>3, <3>2
    <3> QED BY <2>4, <2>6, <3>3
  <2>8. tree[p].rule # Null BY <2>5, <2>7 DEF Mirrored
  <2>9. q \in DOMAIN tree BY <2>5, <2>7, <2>8 DEF Mirrored
  <2> QED BY <2>4, <2>9
<1>4. {NodeConfidence(tree[p]) : p \in DOMAIN tree} = {NodeConfidence(t[p]) : p \in DOMAIN t}
  BY <1>2, <1>3
<1> QED BY <1>4 DEF Confidence

LEMMA InvRenamedRebuild == IInv => RenamedProofsRebuild
<1> SUFFICES ASSUME IInv, Renamable, NamesLeft(tree)
             PROVE  complete /\ (DOMAIN todo = {} => Confidence(tree) = stored.conf)
  BY DEF RenamedProofsRebuild, Renamable
<1>1. mode # "hand" BY DEF Renamable, Rebuilds
<1>2. PICK t : Recording(t) /\ Rebuilding(t) BY <1>1 DEF IInv, StoredInv
<1>3. complete /\ Mirrored(t) BY <1>2 DEF Rebuilding
<1>4. stored.conf = Confidence(t) BY <1>2 DEF Recording
<1> QED BY <1>2, <1>3, <1>4, MirroredConfidence

LEMMA InvAlways == Spec => []IInv
<1>1. Init => IInv BY InitOK
<1>2. IInv /\ [Next]_vars => IInv' BY NextOK
<1> QED BY <1>1, <1>2, PTL DEF Spec

-----------------------------------------------------------------------------
(* The theorems.                                                            *)

(* Every sequent of a proof tree is well formed and every rule in it is one, *)
(* whatever the rules were applied by, and every call of a reconstruction    *)
(* (builder.rs) is for a node still open.                                    *)
THEOREM ReuseTypeCorrect == Spec => []TypeOK
BY InvAlways, InvTypeOK, PTL

(* A tree of a confidence above the reviewed range proves its root sequent   *)
(* in the theories in force (tree.rs, rule.rs, the reasoners), whether it    *)
(* was made by hand, reused, replayed or rebuilt, but for steps of unsound   *)
(* versions still registered.                                                *)
THEOREM SoundTrees == Spec => []TreesAreSound
BY InvAlways, InvTreesAreSound, PTL

(* A status row says discharged (deps.rs, compute_status) only of an         *)
(* obligation that holds, whatever edits and releases lie between the proof  *)
(* and the row: the dependencies name all the recorded proof needs.          *)
THEOREM DischargedObligationsHold == Spec => []DischargedIsValid
BY InvAlways, InvDischargedIsValid, PTL

(* A stored proof the reuse predicate accepts, no name of which is made      *)
(* again below, goes through step by step (builder.rs), with the recorded    *)
(* rules and with rules the reasoners make anew.                             *)
THEOREM AcceptedProofsReapply == Spec => []ReusableProofsReapply
BY InvAlways, InvReusableReapply, PTL

(* A stored proof the predicate accepts but for the names it introduces is   *)
(* rebuilt (builder.rs, rebuild) rule by rule and at its full confidence: a  *)
(* rule that no longer applies as recorded is made anew on its input, with   *)
(* the new names put for the old, while any name is left to introduce.  The  *)
(* rules are of implemented reasoners, certain, and free no existential      *)
(* hypothesis.                                                               *)
THEOREM RenamedProofsAreRebuilt == Spec => []RenamedProofsRebuild
BY InvAlways, InvRenamedRebuild, PTL
=============================================================================

------------------------- MODULE NamespaceChoiceProofs -------------------------
(***************************************************************************)
(* Theorems about NamespaceChoice, for any namespaces, any policies and    *)
(* any number of reloads.                                                  *)
(***************************************************************************)
EXTENDS NamespaceChoice, TLAPS

(* What App accepted stays accepted, what was remembered was accepted, and *)
(* the form holds what the page offered.                                   *)
Stands(p, ns) == p = Nil \/ Settled(p, ns) = {ns}
FormOffered == form.ns \in creatableNamespaces(heard["page"]) \cup {Nowhere}
ChoiceInv ==
    /\ TypeOK
    /\ Stands(heard["app"], namespace)
    /\ Stands(storedUnder, coNs)
    /\ FormOffered

-----------------------------------------------------------------------------
(* Lemmas about the permissions.                                           *)

(* A rule for "*" covers every domain.                                     *)
LEMMA StarCovers ==
    ASSUME NEW rules, NEW a, NEW d, Covers(rules, a, Star)
    PROVE  Covers(rules, a, d)
  BY DEF Covers

(* What an answer lists of a user, and what it says of each.               *)
LEMMA AnswerIsTrue ==
    ASSUME NEW p, NEW D, D \subseteq Namespaces
    PROVE  LET a == UserAnswer(p, D) IN
           /\ DOMAIN a.domains = Enumerated(p, D) \cup {Star}
           /\ \A d \in DOMAIN a.domains : a.domains[d] = PermittedIn(p, d)
           /\ a.userAllowed \subseteq Enumerated(p, D)
           /\ a.userCreatable \subseteq Enumerated(p, D)
           /\ \A ns \in a.userCreatable : Enforce(p, "create", ns)
           /\ Enumerated(p, D) \subseteq D
  BY DEF UserAnswer, Enumerated

LEMMA AnswerTyped ==
    ASSUME NEW p, NEW D, D \subseteq Namespaces
    PROVE  UserAnswer(p, D) \in UserAnswers /\ UserAnswer(p, D) # Nil
<1> DEFINE listed == Enumerated(p, D)
           domains == [d \in listed \cup {Star} |-> PermittedIn(p, d)]
           allowed == {ns \in listed : PermittedIn(p, ns) # {}}
           creatable == {ns \in listed : Enforce(p, "create", ns)}
           scope == \/ Enforce(p, "list", Star)
                    \/ Enforce(p, "watch", Star)
                    \/ p.nsList
<1>1. listed \subseteq Namespaces /\ allowed \in SUBSET Namespaces /\ creatable \in SUBSET Namespaces
  BY DEF Enumerated
<1>2. domains \in [listed \cup {Star} -> SUBSET SessionActions]
  BY DEF PermittedIn
<1>3. domains \in UNION {[S \cup {Star} -> SUBSET SessionActions] : S \in SUBSET Namespaces}
  <2> HIDE DEF domains, listed
  <2> QED BY <1>1, <1>2
<1>4. scope \in BOOLEAN
  BY Zenon
<1>5. UserAnswer(p, D) = [ domains |-> domains, userAllowed |-> allowed,
                           userCreatable |-> creatable, clusterScope |-> scope ]
  BY DEF UserAnswer
<1> HIDE DEF domains, listed, allowed, creatable, scope
<1>6. UserAnswer(p, D) \in UserAnswers
  <2> DEFINE Doms == UNION {[S \cup {Star} -> SUBSET SessionActions] : S \in SUBSET Namespaces}
  <2>1. UserAnswers = [ domains : Doms, userAllowed : SUBSET Namespaces,
                        userCreatable : SUBSET Namespaces, clusterScope : BOOLEAN ]
    BY DEF UserAnswers
  <2>2. domains \in Doms
    BY <1>3
  <2> HIDE DEF Doms
  <2>3. \A x \in Doms, y \in SUBSET Namespaces, z \in SUBSET Namespaces, b \in BOOLEAN :
            [domains |-> x, userAllowed |-> y, userCreatable |-> z, clusterScope |-> b] \in UserAnswers
    BY <2>1
  <2>4. [domains |-> domains, userAllowed |-> allowed, userCreatable |-> creatable,
         clusterScope |-> scope] \in UserAnswers
    BY <1>1, <1>4, <2>2, <2>3, Zenon
  <2> QED BY <1>5, <2>4, Zenon
<1> QED BY <1>6, NilAssumption

(* Where no rule denies a list, what is enumerated can be listed.          *)
LEMMA EnumeratedIsListed ==
    ASSUME NEW p, NEW D, NEW ns \in Enumerated(p, D),
           \A rule \in p.deny : rule[2] # "list"
    PROVE  Enforce(p, "list", ns)
<1>1. Enforce(p, "list", Star) \/ Enforce(p, "list", ns)
  BY DEF Enumerated
<1>2. Covers(p.allow, "list", ns)
  BY <1>1, StarCovers DEF Enforce
<1>3. ~ Covers(p.deny, "list", ns)
  <2> SUFFICES ASSUME Covers(p.deny, "list", ns) PROVE FALSE
    OBVIOUS
  <2>1. PICK rule \in {<<ns, "list">>, <<Star, "list">>} : rule \in p.deny
    BY DEF Covers
  <2> QED BY <2>1
<1> QED BY <1>2, <1>3 DEF Enforce

-----------------------------------------------------------------------------
(* Lemmas about the parts of the UI.                                       *)

Told == {situation.now, situation.later}

LEMMA SituationTyped ==
    ASSUME TypeOK
    PROVE  /\ Told \subseteq Policies /\ Nil \notin Told
           /\ situation.discovered \subseteq Namespaces
           /\ situation.remembered \in Selections
           /\ \A h \in Hooks : heard[h] \in Told \cup {Nil}
  BY SituationsAssumption, NowhereAssumption DEF TypeOK, Told

(* The fallback is itself accepted, so that App's effect comes to rest.    *)
LEMMA FallbackSettles ==
    ASSUME TypeOK, NEW p \in Told, NEW ns \in Selections, NEW n \in Settled(p, ns)
    PROVE  n \in Selections /\ Settled(p, n) = {n}
<1> DEFINE a == Answer(p)
<1>1. p # Nil /\ a = UserAnswer(p, situation.discovered)
  BY SituationTyped DEF Answer
<1>2. a.userAllowed \subseteq Namespaces
  BY <1>1, AnswerIsTrue, SituationTyped
<1>3. Nowhere \notin Namespaces /\ All \notin Namespaces /\ Nowhere # All
  BY NowhereAssumption, NamesAssumption
<1>4. CASE Valid(p, ns)
  BY <1>1, <1>4 DEF Settled
<1>5. CASE ~ Valid(p, ns)
  <2>1. n \in Fallbacks(p)
    BY <1>1, <1>5 DEF Settled
  <2>2. CASE AllowAll(p)
    <3>1. n = All
      BY <2>1, <2>2 DEF Fallbacks
    <3> QED BY <2>2, <3>1 DEF Settled, Valid, Selections
  <2>3. CASE ~ AllowAll(p) /\ n \in a.userAllowed
    <3>1. n \in Namespaces /\ n # All
      BY <1>2, <1>3, <2>3
    <3> QED BY <2>3, <3>1 DEF Settled, Valid, Selections
  <2>4. CASE ~ AllowAll(p) /\ n \notin a.userAllowed
    <3>1. a.userAllowed = {} /\ n = Nowhere /\ Fallbacks(p) = {Nowhere}
      BY <2>1, <2>4 DEF Fallbacks
    <3>2. ~ Valid(p, Nowhere)
      BY <1>3, <3>1 DEF Valid
    <3> QED BY <3>1, <3>2 DEF Settled, Selections
  <2> QED BY <2>2, <2>3, <2>4
<1> QED BY <1>4, <1>5

LEMMA OfferedAreNamespaces ==
    ASSUME TypeOK, NEW p \in Told \cup {Nil}
    PROVE  creatableNamespaces(p) \subseteq Namespaces
<1>1. CASE p = Nil
  BY <1>1 DEF creatableNamespaces
<1>2. CASE p # Nil
  <2> DEFINE a == Answer(p)
  <2>1. a = UserAnswer(p, situation.discovered)
    BY <1>2 DEF Answer
  <2>2. /\ DOMAIN a.domains \ {Star} \subseteq Namespaces
        /\ a.userAllowed \subseteq Namespaces /\ a.userCreatable \subseteq Namespaces
    BY <2>1, AnswerIsTrue, SituationTyped
  <2>3. NamespacesWhere(a, "create") \subseteq Namespaces
    BY <2>2 DEF NamespacesWhere
  <2> HIDE DEF a
  <2>4. creatableNamespaces(p) \in {a.userCreatable, a.userAllowed, NamespacesWhere(a, "create")}
    BY <1>2 DEF creatableNamespaces, a
  <2> QED BY <2>2, <2>3, <2>4
<1> QED BY <1>1, <1>2

LEMMA DefaultsAreOffered ==
    ASSUME NEW p, NEW ns, NEW n \in FormDefaults(p, ns)
    PROVE  n \in creatableNamespaces(p) \cup {Nowhere}
  BY DEF FormDefaults

(* A selectable option is an option of the select.                         *)
LEMMA SelectableTyped == TypeOK => Selectable \subseteq Selections
<1> SUFFICES ASSUME TypeOK PROVE Selectable \subseteq Selections
  OBVIOUS
<1>1. Accessible \subseteq Namespaces
  BY AnswerIsTrue, SituationTyped DEF Accessible, Answer
<1>2. ServerHeard.all \subseteq Namespaces
  <2>1. \A p : LET a == ServerAnswer(p, situation.discovered, situation.withSessions) IN
              a # Nil => a.all \subseteq Namespaces
    BY SituationTyped DEF ServerAnswer
  <2> QED BY <2>1 DEF ServerHeard
<1>3. allNamespaces \subseteq Namespaces
  BY <1>1, <1>2, NowhereAssumption DEF allNamespaces, orDefault
<1> QED BY <1>3 DEF Selectable, Selections

(* The effects of a render, for any selection ns and answers h.            *)
LEMMA EffectsKeep ==
    ASSUME ChoiceInv, NEW h \in [Hooks -> Told \cup {Nil}], NEW ns \in Selections,
           Effects(h, ns), heard' = h, UNCHANGED situation
    PROVE  /\ namespace' \in Selections /\ coNs' \in Selections
           /\ storedUnder' \in Told \cup {Nil}
           /\ form' \in [open : BOOLEAN, ns : Namespaces \cup {Nowhere}]
           /\ Stands(h["app"], namespace') /\ Stands(storedUnder', coNs')
           /\ form'.ns \in creatableNamespaces(h["page"]) \cup {Nowhere}
<1>1. TypeOK /\ h["app"] \in Told \cup {Nil} /\ h["page"] \in Told \cup {Nil}
  BY DEF ChoiceInv, Hooks
<1>2. namespace' \in Selections /\ Stands(h["app"], namespace')
  <2>1. CASE h["app"] = Nil
    BY <2>1 DEF Effects, Settled, Stands
  <2>2. CASE h["app"] # Nil
    BY <1>1, <2>2, FallbackSettles DEF Effects, Stands
  <2> QED BY <2>1, <2>2
<1>3. coNs' \in Selections /\ storedUnder' \in Told \cup {Nil} /\ Stands(storedUnder', coNs')
  <2>1. CASE h["app"] = Nil
    BY <1>1, <2>1 DEF Effects, Remembered, ChoiceInv, TypeOK, Told
  <2>2. CASE h["app"] # Nil
    BY <1>1, <1>2, <2>2 DEF Effects, Remembered
  <2> QED BY <2>1, <2>2
<1>4. /\ form' \in [open : BOOLEAN, ns : Namespaces \cup {Nowhere}]
      /\ form'.ns \in creatableNamespaces(h["page"]) \cup {Nowhere}
  <2>1. CASE namespace' # namespace \/ h["page"] # heard["page"]
    <3>1. PICK n \in FormDefaults(h["page"], namespace') : form' = [form EXCEPT !.ns = n]
      BY <2>1 DEF Effects
    <3>2. n \in creatableNamespaces(h["page"]) \cup {Nowhere}
      BY <3>1, DefaultsAreOffered
    <3>3. n \in Namespaces \cup {Nowhere}
      BY <1>1, <3>2, OfferedAreNamespaces
    <3> QED BY <1>1, <3>1, <3>2, <3>3 DEF TypeOK
  <2>2. CASE ~ (namespace' # namespace \/ h["page"] # heard["page"])
    BY <1>1, <2>2 DEF Effects, ChoiceInv, FormOffered, TypeOK
  <2> QED BY <2>1, <2>2
<1> QED BY <1>2, <1>3, <1>4

LEMMA RecalledTyped == TypeOK => Recalled \in Selections
  BY NowhereAssumption DEF Recalled, TypeOK, Selections

-----------------------------------------------------------------------------
LEMMA InitChoice == Init => ChoiceInv
<1> SUFFICES ASSUME Init PROVE ChoiceInv
  OBVIOUS
<1>1. situation \in Situations /\ situation.remembered \in Selections
  BY SituationsAssumption DEF Init
<1>2. TypeOK
  BY <1>1, NowhereAssumption, ReloadsAssumption
  DEF Init, TypeOK, Recalled, Closed, Selections, Hooks
<1>3. heard["app"] = Nil /\ storedUnder = Nil /\ form.ns = Nowhere
  BY DEF Init, Hooks, Closed
<1> QED BY <1>2, <1>3 DEF ChoiceInv, Stands, FormOffered

LEMMA NextChoice == ChoiceInv /\ [Next]_vars => ChoiceInv'
<1> SUFFICES ASSUME ChoiceInv, [Next]_vars PROVE ChoiceInv'
  OBVIOUS
<1>t. TypeOK /\ FormOffered /\ Stands(heard["app"], namespace) /\ Stands(storedUnder, coNs)
      /\ heard \in [Hooks -> Told \cup {Nil}]
  BY DEF ChoiceInv, TypeOK, Told
(* Answers depend on the situation, which no step changes.                 *)
<1>p. ASSUME situation' = situation, TypeOK', Stands(heard'["app"], namespace'),
             Stands(storedUnder', coNs'),
             form'.ns \in creatableNamespaces(heard'["page"]) \cup {Nowhere}
      PROVE  ChoiceInv'
  <2>1. Stands(heard["app"], namespace)' /\ Stands(storedUnder, coNs)'
    BY <1>p DEF Stands, Settled, Valid, Fallbacks, AllowAll, Answer
  <2>2. FormOffered'
    BY <1>p DEF FormOffered, creatableNamespaces, Answer
  <2> QED BY <1>p, <2>1, <2>2 DEF ChoiceInv
<1>q. form.ns \in creatableNamespaces(heard["page"]) \cup {Nowhere}
  BY <1>t DEF FormOffered
<1>d. \A n \in FormDefaults(heard["page"], namespace) :
          n \in Namespaces \cup {Nowhere} /\ n \in creatableNamespaces(heard["page"]) \cup {Nowhere}
  BY <1>t, DefaultsAreOffered, OfferedAreNamespaces DEF Hooks
<1>1. ASSUME NEW h \in Hooks, Arrive(h) PROVE ChoiceInv'
  <2>1. heard' \in [Hooks -> Told \cup {Nil}] /\ UNCHANGED <<situation, policy, outcome, reloads>>
    BY <1>1, <1>t DEF Arrive, TypeOK, Told
  <2>2. Effects(heard', namespace) /\ namespace \in Selections
    BY <1>1, <1>t DEF Arrive, TypeOK
  <2>3. /\ namespace' \in Selections /\ coNs' \in Selections
        /\ storedUnder' \in Told \cup {Nil}
        /\ form' \in [open : BOOLEAN, ns : Namespaces \cup {Nowhere}]
        /\ Stands(heard'["app"], namespace') /\ Stands(storedUnder', coNs')
        /\ form'.ns \in creatableNamespaces(heard'["page"]) \cup {Nowhere}
    BY <2>1, <2>2, EffectsKeep
  <2>4. TypeOK'
    BY <1>t, <2>1, <2>3 DEF TypeOK, Told
  <2> QED BY <1>p, <2>1, <2>3, <2>4
<1>2. ASSUME NEW ns \in Selections, onNamespace(ns) PROVE ChoiceInv'
  <2>1. heard' = heard /\ UNCHANGED <<situation, policy, outcome, reloads>> /\ Effects(heard, ns)
    BY <1>2 DEF onNamespace
  <2>2. /\ namespace' \in Selections /\ coNs' \in Selections
        /\ storedUnder' \in Told \cup {Nil}
        /\ form' \in [open : BOOLEAN, ns : Namespaces \cup {Nowhere}]
        /\ Stands(heard["app"], namespace') /\ Stands(storedUnder', coNs')
        /\ form'.ns \in creatableNamespaces(heard["page"]) \cup {Nowhere}
    BY <1>t, <2>1, EffectsKeep
  <2>3. TypeOK'
    BY <1>t, <2>1, <2>2 DEF TypeOK, Told
  <2> QED BY <1>p, <2>1, <2>2, <2>3
<1>3. CASE OpenForm
  <2>1. PICK n \in FormDefaults(heard["page"], namespace) : form' = [open |-> TRUE, ns |-> n]
    BY <1>3 DEF OpenForm
  <2>2. TypeOK'
    BY <1>3, <1>t, <1>d, <2>1 DEF OpenForm, TypeOK
  <2> QED BY <1>3, <1>p, <1>t, <1>d, <2>1, <2>2 DEF OpenForm
<1>4. ASSUME NEW ns \in Selections, FillForm(ns) PROVE ChoiceInv'
  <2>1. ns \in creatableNamespaces(heard["page"]) /\ ns \in Namespaces
    BY <1>4, <1>t, OfferedAreNamespaces DEF FillForm, Hooks
  <2>2. form' = [open |-> form.open, ns |-> ns]
    BY <1>4, <1>t DEF FillForm, TypeOK
  <2>3. TypeOK'
    BY <1>4, <1>t, <2>1, <2>2 DEF FillForm, TypeOK
  <2> QED BY <1>4, <1>p, <1>t, <2>1, <2>2, <2>3 DEF FillForm
<1>5. CASE onClose
  <2>1. PICK n \in FormDefaults(heard["page"], namespace) : form' = [open |-> FALSE, ns |-> n]
    BY <1>5 DEF onClose
  <2>2. TypeOK'
    BY <1>5, <1>t, <1>d, <2>1 DEF onClose, TypeOK
  <2> QED BY <1>5, <1>p, <1>t, <1>d, <2>1, <2>2 DEF onClose
<1>6. CASE Submit
  <2>1. outcome' \in {"created", "refused", "forbidden"}
    BY <1>6 DEF Submit, Submittable
  <2>2. form' = [open |-> outcome' # "created", ns |-> form.ns]
    BY <1>6, <1>t DEF Submit, Submittable, TypeOK
  <2>3. TypeOK'
    BY <1>6, <1>t, <2>1, <2>2 DEF Submit, Submittable, TypeOK
  <2> QED BY <1>6, <1>p, <1>q, <1>t, <2>2, <2>3 DEF Submit, Submittable
<1>7. CASE Regrant
  <2>1. TypeOK'
    BY <1>7, <1>t DEF Regrant, TypeOK
  <2> QED BY <1>7, <1>p, <1>q, <1>t, <2>1 DEF Regrant
<1>8. CASE Reload
  <2>1. TypeOK'
    BY <1>8, <1>t, RecalledTyped, ReloadsAssumption DEF Reload, TypeOK, Closed
  <2>2. heard'["app"] = Nil /\ form'.ns = Nowhere
    BY <1>8 DEF Reload, Closed, Hooks
  <2> QED BY <1>8, <1>p, <1>t, <2>1, <2>2 DEF Reload, Stands
<1>9. CASE UNCHANGED vars
  <2>1. TypeOK'
    BY <1>9, <1>t DEF vars, TypeOK
  <2> QED BY <1>9, <1>p, <1>q, <1>t, <2>1 DEF vars
<1> QED BY <1>1, <1>2, <1>3, <1>4, <1>5, <1>6, <1>7, <1>8, <1>9 DEF Next

-----------------------------------------------------------------------------
(* The inductive invariant: what was checked stands under the answer it    *)
(* was checked against, and the form holds what the page offers.           *)
THEOREM ChoiceInvariance == Safety => []ChoiceInv
  BY InitChoice, NextChoice, PTL DEF Safety

(* Every variable has its type: the form never holds "All".                *)
THEOREM ChoiceTypeCorrect == Safety => []TypeOK
<1>1. ChoiceInv => TypeOK
  BY DEF ChoiceInv
<1> QED BY <1>1, ChoiceInvariance, PTL

(* The view that App settled on and the context resolves is one that the   *)
(* server lists (App.tsx:195-230, useSessions.ts:19-31).                   *)
THEOREM SettledViewIsListed == Safety => []ListIsNotRefused
<1>1. ASSUME ChoiceInv, heard["app"] = policy, heard["context"] = policy, policy.deny = {},
             NEW ns \in Listed \ {Nowhere, All}
      PROVE  Enforce(policy, "list", ns)
  <2>1. TypeOK /\ policy \in Told /\ policy # Nil /\ Settled(policy, namespace) = {namespace}
    BY <1>1, SituationTyped DEF ChoiceInv, Stands, TypeOK, Told
  <2> DEFINE a == UserAnswer(policy, situation.discovered)
  <2>2. Answer(policy) = a
    BY <2>1 DEF Answer
  <2>3. DOMAIN a.domains = Enumerated(policy, situation.discovered) \cup {Star}
        /\ a.domains[Star] = PermittedIn(policy, Star)
        /\ a.userAllowed \subseteq Enumerated(policy, situation.discovered)
    BY <2>1, AnswerIsTrue, SituationTyped
  <2>4. Can(a, Star, "watch") <=> AllowAll(policy)
    <3>1. DomainOf(Star) = Star
      BY DEF DomainOf, Star, All
    <3>2. a # Nil
      BY <2>1, AnswerTyped, SituationTyped
    <3> QED BY <2>3, <3>1, <3>2 DEF Can, AllowAll, PermittedIn, SessionActions
  <2>5. ns = namespace /\ Valid(policy, namespace)
    <3>1. Valid(policy, namespace)
      <4>1. CASE namespace = Nowhere
        <5>1. Listed = {Nowhere}
          BY <4>1, NowhereAssumption DEF Listed
        <5> QED BY <1>1, <5>1
      <4>2. CASE namespace # Nowhere
        <5> SUFFICES ASSUME ~ Valid(policy, namespace) PROVE FALSE
          OBVIOUS
        <5>1. namespace \in Fallbacks(policy)
          BY <2>1 DEF Settled
        <5>2. (namespace = All /\ AllowAll(policy)) \/ namespace \in a.userAllowed
          BY <2>2, <4>2, <5>1 DEF Fallbacks
        <5>3. a.userAllowed \subseteq Namespaces
          BY <2>1, AnswerIsTrue, SituationTyped
        <5> QED BY <2>2, <5>2, <5>3, NamesAssumption DEF Valid
      <4> QED BY <4>1, <4>2
    <3>2. Listed = {namespace}
      BY <1>1, <2>2, <2>4, <3>1 DEF Listed, Valid
    <3> QED BY <1>1, <3>1, <3>2
  <2>6. ns \in Enumerated(policy, situation.discovered)
    BY <1>1, <2>2, <2>3, <2>5 DEF Valid
  <2> QED BY <1>1, <2>1, <2>6, EnumeratedIsListed, SituationTyped
<1>2. ChoiceInv => ListIsNotRefused
  BY <1>1 DEF ListIsNotRefused
<1> QED BY <1>2, ChoiceInvariance, PTL

(* What is remembered is accepted again by the policy it was checked       *)
(* against (App.tsx:170-173, 195-238).                                     *)
THEOREM RememberedIsAccepted == Safety => RememberedStands
<1>1. ASSUME ChoiceInv, Arrive("app"), policy = storedUnder, namespace = Recalled
      PROVE  namespace' = coNs
  <2>1. TypeOK /\ policy \in Told /\ policy # Nil /\ Settled(policy, coNs) = {coNs}
    BY <1>1, SituationTyped DEF ChoiceInv, Stands, TypeOK, Told
  <2>2. namespace' \in Settled(policy, namespace)
    BY <1>1, <2>1 DEF Arrive, Effects, TypeOK, Hooks
  <2>3. CASE coNs # Nowhere
    BY <1>1, <2>1, <2>2, <2>3 DEF Recalled
  <2>4. CASE coNs = Nowhere
    <3> DEFINE a == UserAnswer(policy, situation.discovered)
    <3>1. Answer(policy) = a /\ a.userAllowed \subseteq Namespaces
      BY <2>1, AnswerIsTrue, SituationTyped DEF Answer
    <3>2. ~ Valid(policy, Nowhere)
      BY <3>1, NowhereAssumption DEF Valid
    <3>3. Fallbacks(policy) = {Nowhere}
      BY <2>1, <2>4, <3>2 DEF Settled
    <3>4. ~ AllowAll(policy) /\ a.userAllowed = {}
      BY <3>1, <3>3, NowhereAssumption DEF Fallbacks
    <3>5. ~ Valid(policy, "default")
      BY <3>1, <3>4, NamesAssumption, NowhereAssumption DEF Valid
    <3> QED BY <1>1, <2>1, <2>2, <2>4, <3>3, <3>5 DEF Recalled, Settled
  <2> QED BY <2>3, <2>4
<1>2. ChoiceInv /\ [Next]_vars =>
        [(Arrive("app") /\ policy = storedUnder /\ namespace = Recalled) => namespace' = coNs]_vars
  BY <1>1
<1> QED BY <1>2, ChoiceInvariance, PTL DEF Safety, RememberedStands

(* What the form offers is created, when the page and the context were     *)
(* told of the policy in force (SessionsPage.tsx:43-61,                    *)
(* useSessions.ts:109-134).                                                *)
THEOREM OfferedIsCreated == Safety => CreateIsNotRefused
<1>1. ASSUME ChoiceInv, Submit, heard["page"] = policy, heard["context"] = policy,
             Answer(policy).userCreatable # {}
      PROVE  outcome' = "created"
  <2> DEFINE a == UserAnswer(policy, situation.discovered)
  <2>1. TypeOK /\ policy # Nil /\ Answer(policy) = a
    BY <1>1, SituationTyped DEF ChoiceInv, TypeOK, Told, Answer
  <2>2. form.ns \in a.userCreatable
    BY <1>1, <2>1 DEF Submit, Submittable, ChoiceInv, FormOffered, creatableNamespaces
  <2>3. /\ form.ns \in DOMAIN a.domains /\ form.ns \in Namespaces
        /\ a.domains[form.ns] = PermittedIn(policy, form.ns)
        /\ Enforce(policy, "create", form.ns)
    BY <2>1, <2>2, AnswerIsTrue, SituationTyped
  <2>4. DomainOf(form.ns) = form.ns
    BY <2>3, NamesAssumption DEF DomainOf
  <2>5. a # Nil
    BY <2>1, AnswerTyped, SituationTyped
  <2>6. Can(a, form.ns, "create")
    BY <2>3, <2>4, <2>5 DEF Can, PermittedIn, SessionActions
  <2> QED BY <1>1, <2>1, <2>3, <2>6 DEF Submit, Submittable
<1>2. ChoiceInv /\ [Next]_vars =>
        [(/\ Submit /\ heard["page"] = policy /\ heard["context"] = policy
          /\ Answer(policy).userCreatable # {}) => outcome' = "created"]_vars
  BY <1>1
<1> QED BY <1>2, ChoiceInvariance, PTL DEF Safety, CreateIsNotRefused

(* App does not bounce what the header offers, when header and App were    *)
(* told of the same policy (Header.tsx:50-69, App.tsx:195-201).            *)
THEOREM OfferedSticks == Safety => OfferedChoiceSticks
<1> DEFINE Premise(ns) ==
             /\ onNamespace(ns)
             /\ heard["app"] = heard["user"] /\ heard["server"] = heard["user"]
             /\ ~ heard["user"].nsList /\ Accessible # {}
             /\ \A rule \in heard["user"].deny : rule[2] # "list"
<1>1. ASSUME ChoiceInv, NEW ns \in Selections, Premise(ns) PROVE namespace' = ns
  <2> DEFINE p == heard["user"]
             a == UserAnswer(p, situation.discovered)
             listed == Enumerated(p, situation.discovered)
  <2>1. TypeOK /\ p # Nil /\ p \in Told /\ Answer(p) = a
    BY <1>1, SituationTyped DEF ChoiceInv, onNamespace, Hooks, Answer
  <2>2. Accessible = a.userAllowed /\ Accessible # {}
    BY <1>1, <2>1 DEF Accessible
  <2>3. /\ DOMAIN a.domains = listed \cup {Star}
        /\ \A d \in DOMAIN a.domains : a.domains[d] = PermittedIn(p, d)
        /\ listed \subseteq Namespaces
    BY <2>1, AnswerIsTrue, SituationTyped
  <2>4. a.userAllowed = {n \in listed : PermittedIn(p, n) # {}}
    BY DEF UserAnswer
  <2>5. listed \subseteq a.userAllowed
    <3> SUFFICES ASSUME NEW n \in listed PROVE n \in a.userAllowed
      OBVIOUS
    <3>1. Enforce(p, "list", n)
      BY <1>1, EnumeratedIsListed
    <3> QED BY <2>4, <3>1 DEF PermittedIn, SessionActions
  <2>6. ServerHeard.all \subseteq listed
    <3>1. ServerHeard = LET s == ServerAnswer(p, situation.discovered, situation.withSessions) IN
                        IF s = Nil THEN [all |-> {}, withSessions |-> {}] ELSE s
      BY <1>1, <2>1 DEF ServerHeard
    <3> QED BY <1>1, <3>1 DEF ServerAnswer
  <2>7. allNamespaces \subseteq a.userAllowed
    BY <2>2, <2>5, <2>6 DEF allNamespaces, orDefault
  <2>8. canPerformAction("watch", Star) => AllowAll(p)
    BY <2>1, <2>3 DEF canPerformAction, AllowAll, PermittedIn
  <2>9. ns \in a.userAllowed \/ (ns = All /\ AllowAll(p))
    BY <1>1, <2>7, <2>8 DEF onNamespace, Selectable
  <2>10. Valid(p, ns)
    <3>1. All \notin a.userAllowed
      BY <2>3, <2>4, NamesAssumption
    <3> QED BY <2>1, <2>9, <3>1 DEF Valid
  <2>11. namespace' \in Settled(p, ns)
    BY <1>1 DEF onNamespace, Effects
  <2> QED BY <2>10, <2>11 DEF Settled
<1>2. ChoiceInv /\ [Next]_vars => [\A ns \in Selections : Premise(ns) => namespace' = ns]_vars
  BY <1>1
<1> QED BY <1>2, ChoiceInvariance, PTL DEF Safety, OfferedChoiceSticks
=============================================================================

---------------------------- MODULE NamespaceChoice ----------------------------
(***************************************************************************)
(* Which namespace the web UI works in: the selection that App keeps,      *)
(* checks and remembers (ui/src/App.tsx), the options of the header        *)
(* (Header.tsx, useNamespaces.ts), the namespaces the sessions page and    *)
(* its form offer (SessionsPage.tsx, CreateSessionModal.tsx), and the      *)
(* check a create meets (useSessions.ts).                                  *)
(*                                                                         *)
(* Each part asks the server for the user's permissions by itself.  The    *)
(* answers arrive in any order, and an administrator may change the        *)
(* policy between them: heard[h] is the policy that h was answered under.  *)
(*                                                                         *)
(* Not covered: the fields of the form besides the namespace, and failing  *)
(* requests (modules SessionsView and WebAuth have them).                  *)
(***************************************************************************)
EXTENDS Permissions, Naturals

CONSTANTS
    Situations,     \* policies now and later, and what the server finds
    Reloads         \* how often the page is loaded again (a bound)

Hooks == {"context", "app", "user", "server", "page"}   \* user and server: the header's
Nowhere == ""
Selections == Namespaces \cup {All, Nowhere}

ASSUME SituationsAssumption ==
    \A s \in Situations : /\ s.now \in Policies /\ s.later \in Policies
                          /\ s.discovered \subseteq Namespaces
                          /\ s.withSessions \subseteq s.discovered
                          /\ s.remembered \in Selections
ASSUME ReloadsAssumption == Reloads \in Nat
ASSUME NowhereAssumption ==
    Nowhere \notin Namespaces \cup {All} /\ "default" \in Namespaces /\ Nil \notin Policies

VARIABLES
    situation,
    policy,         \* the policy in force
    heard,          \* heard[h]: the policy that h was answered under, or Nil
    namespace,      \* the selection
    coNs,           \* localStorage co_ns
    storedUnder,    \* auxiliary: the answer that coNs was last checked against, or Nil
    form,           \* the create form: whether it is open, its namespace
    outcome,        \* of the last create: Nil, created, or who refused it
    reloads

vars == <<situation, policy, heard, namespace, coNs, storedUnder, form, outcome, reloads>>

-----------------------------------------------------------------------------
(* What each part derives from its answer.                                 *)

Answer(p) == IF p = Nil THEN Nil ELSE UserAnswer(p, situation.discovered)

(* App: what it accepts. *)
AllowAll(p) == Enforce(p, "watch", Star)
Valid(p, ns) == IF ns = All THEN AllowAll(p) ELSE ns \in Answer(p).userAllowed

(* What takes the place of a selection that is not accepted. *)
Fallbacks(p) ==
    LET allowed == Answer(p).userAllowed
        preferred == Answer(p).userCreatable \cap allowed IN
    CASE AllowAll(p)                          -> {All}
      [] ~ AllowAll(p) /\ preferred # {}      -> preferred
      [] ~ AllowAll(p) /\ preferred = {}      -> IF allowed = {} THEN {Nowhere} ELSE allowed

(* Mutant: only "All" is checked. *)
SettledIfAll(p, ns) == IF p = Nil \/ ns # All \/ AllowAll(p) THEN {ns} ELSE Fallbacks(p)
(* The effect of a render of App with selection ns, its answer given under p. *)
Settled(p, ns) == IF p = Nil \/ Valid(p, ns) THEN {ns} ELSE Fallbacks(p)

(* useNamespaces *)
orDefault(S) == IF S = {} THEN {"default"} ELSE S
ServerHeard ==
    LET none == [all |-> {}, withSessions |-> {}] IN
    IF heard["server"] = Nil THEN none
    ELSE LET a == ServerAnswer(heard["server"], situation.discovered, situation.withSessions) IN
         IF a = Nil THEN none ELSE a
Accessible == IF heard["user"] = Nil THEN {} ELSE Answer(heard["user"]).userAllowed
ClusterScope == heard["user"] # Nil /\ Answer(heard["user"]).clusterScope

allNamespaces ==
    orDefault(IF ClusterScope THEN Accessible \cup ServerHeard.all ELSE Accessible)
sessionNamespaces ==
    LET found == IF ClusterScope THEN ServerHeard.withSessions
                 ELSE ServerHeard.withSessions \cap Accessible IN
    orDefault(IF found = {} THEN Accessible ELSE found)

canPerformAction(action, d) ==
    /\ heard["user"] # Nil
    /\ LET domains == Answer(heard["user"]).domains IN
       \E e \in {d, Star} \cap DOMAIN domains : action \in domains[e]

(* Mutant: every namespace the server knows of, and the user's. *)
SelectableAnywhere == ServerHeard.all \cup ServerHeard.withSessions \cup Accessible \cup {All, "default"}
(* Header: "All" if it may be watched; namespaces without Sessions are off. *)
Selectable ==
    {ns \in allNamespaces : ns \in sessionNamespaces}
        \cup (IF canPerformAction("watch", Star) THEN {All} ELSE {})

(* Mutant: who may create anywhere may create where he may do anything. *)
AnyAllowed(p) ==
    IF p = Nil THEN {} ELSE LET a == Answer(p) IN
    IF a.userCreatable # {} \/ "create" \in a.domains[Star] THEN a.userAllowed ELSE {}
(* SessionsPage *)
creatableNamespaces(p) ==
    LET a == Answer(p) IN
    CASE p = Nil -> {}
      [] p # Nil /\ a.userCreatable # {} -> a.userCreatable
      [] p # Nil /\ a.userCreatable = {} ->
            IF "create" \in a.domains[Star] THEN a.userAllowed
            ELSE NamespacesWhere(a, "create")

(* Mutant: the view is taken as it is. *)
FormFollowsView(p, ns) == {IF creatableNamespaces(p) = {} THEN Nowhere ELSE ns}
(* CreateSessionModal: the effect that chooses a namespace. *)
FormDefaults(p, ns) ==
    LET writable == creatableNamespaces(p) IN
    CASE ns \in writable                    -> {ns}
      [] ns \notin writable /\ writable # {} -> writable
      [] OTHER                              -> {Nowhere}

-----------------------------------------------------------------------------
Closed == [open |-> FALSE, ns |-> Nowhere]

Recalled == IF coNs = Nowhere THEN "default" ELSE coNs

Init ==
    /\ situation \in Situations
    /\ policy = situation.now
    /\ heard = [h \in Hooks |-> Nil]
    /\ coNs = situation.remembered
    /\ storedUnder = Nil
    /\ namespace = Recalled
    /\ form = Closed
    /\ outcome = Nil
    /\ reloads = Reloads

(* Mutant: remembered at once. *)
RememberedAtOnce(h) ==
    /\ coNs' = namespace'
    /\ storedUnder' = IF h["app"] = Nil THEN storedUnder ELSE h["app"]
(* Nothing is remembered before it could be checked. *)
Remembered(h) ==
    IF h["app"] = Nil THEN UNCHANGED <<coNs, storedUnder>>
    ELSE coNs' = namespace' /\ storedUnder' = h["app"]

(* The effects: App's fallback, what it remembers, the form's namespace. *)
Effects(h, ns) ==
    /\ namespace' \in Settled(h["app"], ns)
    /\ Remembered(h)
    /\ IF namespace' # namespace \/ h["page"] # heard["page"]
       THEN \E n \in FormDefaults(h["page"], namespace') : form' = [form EXCEPT !.ns = n]
       ELSE UNCHANGED form

Arrive(h) ==
    /\ heard[h] = Nil
    /\ heard' = [heard EXCEPT ![h] = policy]
    /\ Effects(heard', namespace)
    /\ UNCHANGED <<situation, policy, outcome, reloads>>

(* The header's select is disabled until both its answers are there. *)
onNamespace(ns) ==
    /\ heard["user"] # Nil /\ heard["server"] # Nil
    /\ ns \in Selectable \ {namespace}
    /\ Effects(heard, ns)
    /\ UNCHANGED <<situation, policy, heard, outcome, reloads>>

OpenForm ==
    /\ ~ form.open
    /\ creatableNamespaces(heard["page"]) # {}
    /\ \E n \in FormDefaults(heard["page"], namespace) : form' = [open |-> TRUE, ns |-> n]
    /\ UNCHANGED <<situation, policy, heard, namespace, coNs, storedUnder, outcome, reloads>>

FillForm(ns) ==
    /\ form.open
    /\ ns \in creatableNamespaces(heard["page"])
    /\ form' = [form EXCEPT !.ns = ns]
    /\ UNCHANGED <<situation, policy, heard, namespace, coNs, storedUnder, outcome, reloads>>

onClose ==
    /\ form.open
    /\ \E n \in FormDefaults(heard["page"], namespace) : form' = [open |-> FALSE, ns |-> n]
    /\ UNCHANGED <<situation, policy, heard, namespace, coNs, storedUnder, outcome, reloads>>

(* The form's Create button; the name is typed. *)
Submittable ==
    form.open /\ form.ns # Nowhere /\ creatableNamespaces(heard["page"]) # {}

(* The check of useSessions against the context, then the server's. *)
Submit ==
    /\ Submittable
    /\ outcome' = CASE ~ Can(Answer(heard["context"]), form.ns, "create") -> "refused"
                    [] ~ Enforce(policy, "create", form.ns)               -> "forbidden"
                    [] OTHER                                              -> "created"
    /\ form' = [form EXCEPT !.open = outcome' # "created"]
    /\ UNCHANGED <<situation, policy, heard, namespace, coNs, storedUnder, reloads>>

(* An administrator changes the policy. *)
Regrant ==
    /\ policy # situation.later
    /\ policy' = situation.later
    /\ UNCHANGED <<situation, heard, namespace, coNs, storedUnder, form, outcome, reloads>>

Reload ==
    /\ reloads > 0
    /\ reloads' = reloads - 1
    /\ heard' = [h \in Hooks |-> Nil]
    /\ namespace' = Recalled
    /\ form' = Closed
    /\ outcome' = Nil
    /\ UNCHANGED <<situation, policy, coNs, storedUnder>>

Next ==
    \/ \E h \in Hooks : Arrive(h)
    \/ \E ns \in Selections : onNamespace(ns) \/ FillForm(ns)
    \/ OpenForm \/ onClose \/ Submit \/ Regrant \/ Reload

Safety == Init /\ [][Next]_vars

-----------------------------------------------------------------------------
(* The variables have their types. *)
TypeOK ==
    /\ situation \in Situations /\ policy \in {situation.now, situation.later}
    /\ heard \in [Hooks -> {Nil, situation.now, situation.later}]
    /\ namespace \in Selections /\ coNs \in Selections
    /\ storedUnder \in {Nil, situation.now, situation.later}
    /\ form \in [open : BOOLEAN, ns : Namespaces \cup {Nowhere}]
    /\ outcome \in {Nil, "created", "refused", "forbidden"}
    /\ reloads \in 0 .. Reloads

(* The namespace that useSessions lists for the selection. *)
Listed ==
    IF namespace # All \/ Can(Answer(heard["context"]), Star, "watch") THEN {namespace}
    ELSE orDefault(NamespacesWhere(Answer(heard["context"]), "list"))

(* Two answers agree with the server's own check: once App and the context *)
(* have the permissions in force, the view that App chose and the context  *)
(* resolves is one the server lists, whatever was remembered, discovered   *)
(* or chosen before; unless the user may do nothing, or a rule denies the  *)
(* list of a namespace where another action is allowed (App.tsx: the       *)
(* fallback; useSessions.ts: effectiveNs).                                 *)
ListIsNotRefused ==
    (heard["app"] = policy /\ heard["context"] = policy /\ policy.deny = {})
        => \A ns \in Listed \ {Nowhere, All} : Enforce(policy, "list", ns)

(* Header and App each decide for themselves what may be selected: when    *)
(* they were answered under one policy, App does not bounce what the       *)
(* header offered, for users who do not list the cluster's namespaces,     *)
(* whose right to list Sessions is nowhere denied, and who have a          *)
(* namespace at all (Header.tsx: emptySet; App.tsx:                        *)
(* isCurrentNamespaceValid; useNamespaces.ts: finalAllNamespaces).         *)
OfferedChoiceSticks ==
    [][ \A ns \in Selections :
          ( /\ onNamespace(ns)
            /\ heard["app"] = heard["user"] /\ heard["server"] = heard["user"]
            /\ ~ heard["user"].nsList /\ Accessible # {}
            /\ \A rule \in heard["user"].deny : rule[2] # "list" ) => namespace' = ns ]_vars

(* The form offers what the page's answer says, the context's answer is    *)
(* asked again and then the server: with both answers given under the      *)
(* policy in force, what was offered is created, whenever in between the   *)
(* answers, the selection and the form changed; unless creating is granted *)
(* everywhere and denied in every namespace (SessionsPage.tsx: the second  *)
(* step of creatableNamespaces does not look at the denials).              *)
CreateIsNotRefused ==
    [][ ( /\ Submit
          /\ heard["page"] = policy /\ heard["context"] = policy
          /\ Answer(policy).userCreatable # {} ) => outcome' = "created" ]_vars

(* "Persist namespace selection (but validate it on load)" (App.tsx:232):  *)
(* what is remembered was accepted, so that the next load keeps it while   *)
(* the policy is the same.                                                 *)
RememberedStands ==
    [][ (Arrive("app") /\ policy = storedUnder /\ namespace = Recalled)
            => namespace' = coNs ]_vars
=============================================================================

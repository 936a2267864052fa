------------------------------ MODULE Permissions ------------------------------
(***************************************************************************)
(* What a user may do with Sessions, and how the web UI learns of it: the  *)
(* policy behind RBAC (casbin, external), the answer of the introspection  *)
(* endpoint (internal/server/rbac_handlers.go) and the questions the UI    *)
(* asks of that answer (ui/src/lib/cap.ts and the pages).                  *)
(*                                                                         *)
(* A domain is a namespace or "*".  The order of lists is left out: where  *)
(* the code takes the first of a list, any element may be meant.           *)
(***************************************************************************)
EXTENDS FiniteSets

CONSTANTS
    Nil,
    Namespaces          \* the names of namespaces

Star == "*"
All == "All"            \* the UI's name of the view of every namespace
Domains == Namespaces \cup {Star}

(* types.ts: the actions of a domain's `session` *)
SessionActions == {"get", "list", "watch", "create", "update", "delete", "scale"}

(* What a role grants and denies; nsList: may list the cluster's namespaces. *)
Policies ==
    [ allow : SUBSET (Domains \X SessionActions), deny : SUBSET (Domains \X SessionActions),
      nsList : BOOLEAN ]

(* What /introspect/user may answer; domains: the permissions by domain. *)
UserAnswers ==
    [ domains : UNION {[S \cup {Star} -> SUBSET SessionActions] : S \in SUBSET Namespaces},
      userAllowed : SUBSET Namespaces, userCreatable : SUBSET Namespaces, clusterScope : BOOLEAN ]

ASSUME NilAssumption == Nil \notin UserAnswers
ASSUME NamesAssumption == Star \notin Namespaces /\ All \notin Namespaces

(* The model of rbac/model.conf: a rule for "*" covers every domain, and   *)
(* one that denies wins.                                                   *)
Covers(rules, action, d) == {<<d, action>>, <<Star, action>>} \cap rules # {}
Enforce(p, action, d) ==
    /\ Covers(p.allow, action, d)
    /\ ~ Covers(p.deny, action, d)

-----------------------------------------------------------------------------
(* The answers of the introspection endpoints.                             *)

PermittedIn(p, d) == {a \in SessionActions : Enforce(p, a, d)}

(* The namespaces an answer enumerates, of those the server discovered. *)
Enumerated(p, discovered) ==
    {ns \in discovered : Enforce(p, "list", Star) \/ Enforce(p, "list", ns)}

(* /introspect/user *)
UserAnswer(p, discovered) ==
    LET listed == Enumerated(p, discovered) IN
    [ domains       |-> [d \in listed \cup {Star} |-> PermittedIn(p, d)],
      userAllowed   |-> {ns \in listed : PermittedIn(p, ns) # {}},
      userCreatable |-> {ns \in listed : Enforce(p, "create", ns)},
      clusterScope  |-> \/ Enforce(p, "list", Star)
                        \/ Enforce(p, "watch", Star)
                        \/ p.nsList ]

(* /introspect/server, Nil when it is refused *)
ServerAnswer(p, discovered, withSessions) ==
    LET shown(S) == IF p.nsList THEN S ELSE S \cap Enumerated(p, discovered) IN
    IF p.nsList \/ Enforce(p, "list", Star)
    THEN [all |-> shown(discovered), withSessions |-> shown(withSessions)]
    ELSE Nil

-----------------------------------------------------------------------------
(* The questions the UI asks.                                              *)

DomainOf(view) == IF view = All THEN Star ELSE view

(* A namespace the answer does not enumerate is judged by "*". *)
Can(ix, view, action) ==
    /\ ix # Nil
    /\ LET d == DomainOf(view) IN
       action \in ix.domains[IF d \in DOMAIN ix.domains THEN d ELSE Star]

(* cap.ts, and useSessions when it looks for a namespace to fall back to *)
NamespacesWhere(ix, action) ==
    IF ix = Nil THEN {} ELSE {ns \in DOMAIN ix.domains \ {Star} : action \in ix.domains[ns]}

=============================================================================

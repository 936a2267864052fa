---------------------------- MODULE MCSessionsView -----------------------------
(* Small instances of SessionsView for TLC. *)
EXTENDS SessionsViewInvariant, TLC

Two == {"default", "team"}
OneEach == << <<"default", "x">>, <<"team", "y">> >>

Rules(allow, deny, nsList) == [allow |-> allow, deny |-> deny, nsList |-> nsList]
AdminRole  == Rules({Star} \X SessionActions, {}, TRUE)
(* everything but the watch of one namespace *)
GappedRole == Rules({Star} \X SessionActions, {<<"team", "watch">>}, TRUE)
(* one namespace only, and nothing is created there *)
TeamRole   == Rules({"team"} \X SessionActions, {<<"team", "create">>}, FALSE)
(* watches everything, lists one namespace *)
WatchRole  == Rules(({"default"} \X SessionActions) \cup {<<Star, "watch">>}, {}, FALSE)

Case(role, view, click, change, lose, fault) ==
    [ policy |-> role, budget |->
        [view |-> view, click |-> click, change |-> change, lose |-> lose, fault |-> fault] ]

Lively ==
    { Case(TeamRole, 0, 1, 1, 0, 0),
      Case(AdminRole, 0, 0, 1, 1, 0), Case(AdminRole, 0, 1, 0, 0, 1),
      Case(TeamRole, 0, 1, 0, 1, 0), Case(TeamRole, 0, 2, 0, 0, 0),
      Case(GappedRole, 1, 1, 0, 0, 0), Case(WatchRole, 1, 1, 0, 0, 0) }

Gone == {Case(AdminRole, 0, 0, 1, 0, 0)}
=============================================================================

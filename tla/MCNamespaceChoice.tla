--------------------------- MODULE MCNamespaceChoice ---------------------------
(* Small instances of NamespaceChoice for TLC. *)
EXTENDS NamespaceChoice, TLC

Two == {"default", "team"}

Rules(allow, deny, nsList) == [allow |-> allow, deny |-> deny, nsList |-> nsList]
Everything(domains) == domains \X SessionActions
Nothing  == Rules({}, {}, FALSE)
Admin    == Rules(Everything({Star}), {}, TRUE)
Team     == Rules(Everything({"team"}), {}, FALSE)
Both     == Rules(Everything(Two), {}, FALSE)
Lister   == Rules({<<Star, "list">>} \cup Everything({"team"}), {}, FALSE)
Lookout  == Rules({<<Star, "watch">>} \cup Everything({"default"}), {}, FALSE)
(* lists the namespaces but has Sessions in one only *)
Clerk    == Rules(Everything({"team"}), {}, TRUE)
Barred   == Rules(Everything({Star}), {<<"team", "create">>}, FALSE)
Reader   == Rules({"default"} \X {"list", "watch"}, {}, FALSE)
Writer   == Rules({<<"team", "create">>} \cup ({"team", "default"} \X {"list"}), {}, FALSE)

Situation(now, later, discovered, withSessions, remembered) ==
    [ now |-> now, later |-> later, discovered |-> discovered,
      withSessions |-> withSessions, remembered |-> remembered ]

Regrants ==
    { Situation(Admin, Team, Two, {"team"}, Nowhere), Situation(Team, Admin, Two, {}, All),
      Situation(Both, Reader, Two, {"default"}, "team"), Situation(Lookout, Team, Two, Two, "team"),
      Situation(Clerk, Nothing, Two, Two, "default"), Situation(Barred, Lister, Two, {"team"}, "team"),
      Situation(Writer, Both, Two, {}, All), Situation(Team, Both, {"default"}, {}, "team") }
=============================================================================

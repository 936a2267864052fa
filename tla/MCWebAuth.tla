------------------------------- MODULE MCWebAuth -------------------------------
(* Small instances of WebAuth for TLC. *)
EXTENDS WebAuth, TLC

Case(c, name, page, ins, outs, go, expire, reload, fault) ==
    [ cookie |-> c, coUser |-> name, page |-> page, budget |->
        [ signIn |-> ins, signOut |-> outs, go |-> go, expire |-> expire, reload |-> reload,
          fault |-> fault ] ]

Mixed == { Case("ann", "ann", "sessions", {"bob"}, 1, 0, 0, 0, 0),
           Case(Nil, "bob", "account", {"ann"}, 0, 0, 1, 0, 0),
           Case(Nil, "ann", "settings", {"ann"}, 0, 0, 0, 1, 0),
           Case(Nil, "bob", "sessions", {"ann"}, 0, 0, 0, 0, 1),
           Case("ann", "bob", "account", {}, 1, 0, 0, 1, 0),
           Case("ann", Nil, "settings", {}, 0, 1, 0, 0, 1),
           Case("ann", "ann", "account", {}, 0, 1, 1, 0, 0) }
Once  == { Case(Nil, Nil, "sessions", {"ann"}, 0, 0, 0, 0, 0) }
=============================================================================

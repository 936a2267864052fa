---------------------------- MODULE MCSessionServer ----------------------------
(* Small instances of SessionServer for TLC: two installations, the second *)
(* of which runs a server with cluster scope as well, and a server that    *)
(* got no installation id.                                                 *)
EXTENDS SessionServerInvariant, TLC

Ran == {"s1", "s2", "wide", "anon"}
TwoIds == [s \in Ran |-> CASE s = "s1" -> "i1" [] s = "anon" -> Nil [] OTHER -> "i2"]

Saturates == MaxInt32
WrapsRound == MinInt32

Everything == {"get", "create", "scale", "update", "delete", "admin"}

Asked(op, server) ==
    [ op |-> op, server |-> server, may |-> Everything, replicas |-> Nil,
      ide |-> Nil, image |-> Nil, force |-> FALSE, dryRun |-> FALSE ]

(* 3 does not fit into the int32 of these instances, -3 neither *)
Post(s)      == [Asked("create", s) EXCEPT !.ide = "vscode", !.image = "b"]
Scale(s, n)  == [Asked("scale", s) EXCEPT !.replicas = n]
PutAll(s)    == [Asked("put", s) EXCEPT !.ide = "vscode", !.image = "b"]
Patch(s, n)  == [Asked("patch", s) EXCEPT !.replicas = n]
PatchImage(s) == [Asked("patch", s) EXCEPT !.image = "b"]
Adopt(s)     == Asked("adopt", s)
ByEditor(a)  == [a EXCEPT !.may = @ \ {"admin"}]
ByViewer(a)  == [a EXCEPT !.may = {"get"}]

EditAsks ==
    { Scale("s1", 0), PutAll("s1"), [Patch("s1", 3) EXCEPT !.image = "b"], Post("s2"),
      Asked("delete", "s1") }
OddAsks ==
    { Scale("s1", Nil), Scale("s1", 3), Scale("s1", -1), Patch("s1", -3), PatchImage("s1"),
      [PutAll("s1") EXCEPT !.ide = Nil], [PutAll("s2") EXCEPT !.replicas = 3],
      Asked("create", "s1"), [Post("s1") EXCEPT !.replicas = -1], Asked("get", "s1"),
      ByViewer(PutAll("s1")), ByViewer(Asked("create", "s1")), Asked("delete", "s2"),
      ByEditor(Adopt("s1")) }
AdoptAsks ==
    { Adopt("s1"), Adopt("wide"), [Adopt("wide") EXCEPT !.force = TRUE],
      [Adopt("s1") EXCEPT !.dryRun = TRUE], Asked("delete", "s1"), Post("s1"), PutAll("wide") }
AnonAsks == { Adopt("anon"), PutAll("anon"), Post("anon"), Asked("delete", "anon"), Adopt("s1") }
ScaleAsks   == { Scale("s1", 0), PutAll("s1") }

Alike == Permutations(Requests)

Bounds(apply, status, fault, index) ==
    [apply |-> apply, status |-> status, fault |-> fault, index |-> index]

Calm        == Bounds(0, 0, 0, 0)
Quiet       == Bounds(0, 1, 0, 0)
OneFault    == Bounds(0, 0, 1, 0)
IndexMoves  == Bounds(1, 0, 1, 1)

AllOf(asks, bounds) == {[ask |-> a, budget |-> bounds] : a \in [Requests -> asks]}

EditLoads     == AllOf(EditAsks, Quiet) \cup AllOf(AnonAsks, Calm)
OddLoads      == AllOf(OddAsks, OneFault)
AdoptLoads    == AllOf(AdoptAsks, IndexMoves)
AnonLoads     == AllOf(AnonAsks, OneFault)
OddAndAdopt   == OddLoads \cup AdoptLoads \cup AnonLoads
ScaleLoads    == AllOf(ScaleAsks, Quiet)

AllAsks == EditAsks \cup OddAsks \cup AdoptAsks \cup AnonAsks \cup ScaleAsks
=============================================================================

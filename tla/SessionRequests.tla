---------------------------- MODULE SessionRequests ----------------------------
(***************************************************************************)
(* The requests about one Session name that clients send to the API        *)
(* servers (internal/server/sessions_handlers.go): what they carry, what   *)
(* is refused without a look at the Session, and what a request makes of   *)
(* the Session it is carried out on.  Nothing here has state.              *)
(***************************************************************************)
EXTENDS Integers

CONSTANTS
    Nil,
    Ids,            \* installation ids
    Servers,
    IdOf,           \* the id of a server; Nil if ensureInstallationID failed
    ClusterScope,   \* the servers that run with cluster scope
    Asks,           \* what clients ask for
    Ides, Images,
    MaxInt32,       \* the largest int32
    TooBig          \* what a float64 above it becomes as an int32

-----------------------------------------------------------------------------
MinInt32 == -MaxInt32 - 1
Fits(n) == n \in MinInt32 .. MaxInt32

(* int32(replicas.(float64)) saturates or, on amd64, gives the smallest.   *)
int32(n) == IF n > MaxInt32 THEN TooBig ELSE IF n < MinInt32 THEN MinInt32 ELSE n

Ops == {"get", "create", "scale", "put", "patch", "delete", "adopt"}
Updates == {"scale", "put", "patch", "adopt"}

Ask == [ op       : Ops,
         server   : Servers,
         may      : SUBSET {"get", "create", "scale", "update", "delete", "admin"},
         replicas : {Nil} \cup Int,
         ide      : {Nil} \cup Ides,
         image    : {Nil} \cup Images,
         force    : BOOLEAN,
         dryRun   : BOOLEAN ]

SessionSpecs == [ replicas : {Nil} \cup Int, ide : Ides, image : Images ]

ASSUME AsksAssumption == Asks \subseteq Ask
ASSUME ServersAssumption ==
    IdOf \in [Servers -> {Nil} \cup Ids] /\ ClusterScope \subseteq Servers
ASSUME NumbersAssumption == MaxInt32 \in Nat /\ TooBig \in {MinInt32, MaxInt32}
ASSUME NilIsNoValue ==
    Nil \notin Int /\ Nil \notin Ids /\ Nil \notin Ides \cup Images

-----------------------------------------------------------------------------
Verb(a) ==
    CASE a.op \in {"put", "patch"} -> "update"
      [] a.op = "adopt"            -> "admin"       \* wrapWithRBAC on the route
      [] OTHER                     -> a.op

(* A scale request without a number asks for none (the zero value). *)
Replicas(a) == IF a.op = "scale" /\ a.replicas = Nil THEN 0 ELSE a.replicas

BadBody(a) ==
    \/ a.op = "create" /\ (a.ide = Nil \/ a.image = Nil)
    \/ a.op \in {"create", "scale"} /\ a.replicas # Nil /\ ~Fits(a.replicas)
    \/ a.op = "scale" /\ Replicas(a) < 0

(* Mutant: only reads and deletions look at the label. *)
HiddenFromReaders(a, label) ==
    /\ a.op \in {"get", "delete"}
    /\ a.server \notin ClusterScope
    /\ label # IdOf[a.server]

(* Mutant: a deletion does not look at the label. *)
HiddenFromOthers(a, label) ==
    /\ a.op # "delete"
    /\ a.server \notin ClusterScope
    /\ label # IdOf[a.server]
    /\ a.op = "adopt" => label # Nil

(* Does the server that is asked hide a Session with this label?  An       *)
(* adoption may see a Session that carries none.                           *)
Hidden(a, label) ==
    /\ a.server \notin ClusterScope
    /\ label # IdOf[a.server]
    /\ a.op = "adopt" => label # Nil

(* The schema of the Session resource refuses an empty ide or image. *)
Invalid(spec) == spec.ide = Nil \/ spec.image = Nil

(* The Session that a POST makes, apart from uid and resourceVersion. *)
Made(a) ==
    [ fin |-> FALSE, deleting |-> FALSE,
      label |-> IdOf[a.server], adoptedFrom |-> Nil,
      spec |-> [ replicas |-> IF a.replicas = Nil THEN 1 ELSE a.replicas,
                 ide |-> a.ide, image |-> a.image ] ]

ChangedSpec(a, spec) ==
    CASE a.op = "scale" -> [spec EXCEPT !.replicas = Replicas(a)]
      [] a.op = "put"   -> [replicas |-> a.replicas, ide |-> a.ide, image |-> a.image]
      [] a.op = "patch" -> [ replicas |-> IF a.replicas = Nil THEN spec.replicas ELSE int32(a.replicas),
                             ide      |-> IF a.ide = Nil THEN spec.ide ELSE a.ide,
                             image    |-> IF a.image = Nil THEN spec.image ELSE a.image ]
      [] OTHER          -> spec

(* Mutant: the label is overwritten before it is noted. *)
ChangedTooSoon(a, s) ==
    IF a.op = "adopt"
    THEN [s EXCEPT !.label = IdOf[a.server], !.adoptedFrom = IdOf[a.server]]
    ELSE [s EXCEPT !.spec = ChangedSpec(a, s.spec)]

(* The Session s as request a changes it. *)
Changed(a, s) ==
    IF a.op = "adopt"
    THEN [s EXCEPT !.label = IdOf[a.server], !.adoptedFrom = IF s.label = Nil THEN @ ELSE s.label]
    ELSE [s EXCEPT !.spec = ChangedSpec(a, s.spec)]

(* The controller stores the defaults together with its finalizer. *)
Defaulted(spec) == [spec EXCEPT !.replicas = IF @ = Nil THEN 1 ELSE @]
=============================================================================

--------------------------- MODULE SessionLifecycle ---------------------------
(***************************************************************************)
(* What the session controller promises about one Session name, with the   *)
(* API server, the informer caches and the work queue left out.            *)
(*                                                                         *)
(* The name is held by at most one incarnation at a time.  An incarnation  *)
(* is "new" until the controller has put its finalizer on it, "guarded"    *)
(* from then on, and "terminating" once somebody has asked for its         *)
(* deletion.  The child objects (Deployment, Service, claims, ...) carry   *)
(* an owner reference; the promise is that a child is only ever given to   *)
(* an incarnation that exists and is guarded, so that deleting the session *)
(* always leaves its children to the garbage collector and never leaves    *)
(* one behind.                                                             *)
(***************************************************************************)
EXTENDS Naturals

CONSTANT Kinds          \* the kinds of child object

VARIABLES
    current,            \* uid of the incarnation that holds the name, 0 if none
    stage,              \* "none", "new", "guarded" or "terminating"
    owner               \* owner[k]: uid in the owner reference of child k, 0 if no child

avars == <<current, stage, owner>>

Init ==
    /\ current = 0
    /\ stage = "none"
    /\ owner = [k \in Kinds |-> 0]

(* A new incarnation gets a uid that no child carries. *)
Appear ==
    /\ stage = "none"
    /\ current' \in Nat \ {0}
    /\ \A k \in Kinds : owner[k] < current'
    /\ stage' = "new"
    /\ UNCHANGED owner

Guard ==
    /\ stage = "new"
    /\ stage' = "guarded"
    /\ UNCHANGED <<current, owner>>

(* Deleted before the finalizer was on: it is gone at once. *)
Vanish ==
    /\ stage = "new"
    /\ current' = 0
    /\ stage' = "none"
    /\ UNCHANGED owner

Terminate ==
    /\ stage = "guarded"
    /\ stage' = "terminating"
    /\ UNCHANGED <<current, owner>>

Finish ==
    /\ stage = "terminating"
    /\ current' = 0
    /\ stage' = "none"
    /\ UNCHANGED owner

Attach(k) ==
    /\ stage \in {"guarded", "terminating"}
    /\ owner' = [owner EXCEPT ![k] = current]
    /\ UNCHANGED <<current, stage>>

(* Somebody removes child k, whoever owns it. *)
Detach(k) ==
    /\ owner[k] # 0
    /\ owner' = [owner EXCEPT ![k] = 0]
    /\ UNCHANGED <<current, stage>>

(* The garbage collector removes a child whose owner is gone. *)
Reap(k) ==
    /\ owner[k] # current
    /\ Detach(k)

Next ==
    \/ Appear \/ Guard \/ Vanish \/ Terminate \/ Finish
    \/ \E k \in Kinds : Attach(k) \/ Detach(k)

Safety == Init /\ [][Next]_avars

Spec ==
    /\ Safety
    /\ WF_avars(Finish)
    /\ \A k \in Kinds : WF_avars(Reap(k))
=============================================================================

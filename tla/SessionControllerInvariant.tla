---------------------- MODULE SessionControllerInvariant ----------------------
EXTENDS SessionController

(* The strengthening from which the invariants of SessionController follow *)
(* by induction: how a copy c of the Session, the informer's or the        *)
(* worker's, relates to what is stored, s, when the latest resourceVersion *)
(* is r.                                                                   *)

(* Uids and resourceVersions come from one growing counter. *)
Numbered(c, r) == c # Nil => c.uid \in 1..r /\ c.rv \in 1..r

(* A finalizer or a deletion mark seen on an incarnation stays. *)
FlagsOnlyRise(c, s) ==
    c # Nil /\ s # Nil /\ c.uid = s.uid =>
        /\ c.fin => s.fin
        /\ c.deleting => s.deleting

(* A copy with the stored resourceVersion is the stored Session, apart     *)
(* from defaults and from the status the worker is about to write.         *)
SameVersionSameSession(c, s) ==
    c # Nil /\ s # Nil /\ c.rv = s.rv =>
        /\ c.uid = s.uid
        /\ c.deleting = s.deleting
        /\ applyDefaults(c.spec) = applyDefaults(s.spec)

(* An incarnation that a copy shows guarded and not terminating exists:    *)
(* only the worker lets it go, and only after it has seen it terminating.  *)
GuardedStays(c, s) ==
    c # Nil /\ c.fin /\ ~c.deleting => s # Nil /\ s.uid = c.uid

CopyOf(c, s, r) ==
    /\ Numbered(c, r)
    /\ FlagsOnlyRise(c, s)
    /\ SameVersionSameSession(c, s)
    /\ GuardedStays(c, s)

OwnersArePast ==
    \A k \in Kinds : kids[k] # Nil =>
        /\ kids[k].owner \in 1..rev
        /\ sess # Nil => kids[k].owner <= sess.uid

StoredInv ==
    /\ Numbered(sess, rev)
    /\ sess # Nil /\ sess.deleting => sess.fin
    /\ OwnersArePast

WorkerInv ==
    /\ pc \notin {"idle", "finalizer"} => work.fin /\ ~work.deleting
    /\ pc = "fail" => work.status.phase = "Error"
    /\ (/\ pc = "finalizer" /\ work.deleting
        /\ cachedSess # Nil /\ cachedSess.uid = work.uid) => cachedSess.deleting

IInv ==
    /\ TypeOK
    /\ StoredInv
    /\ CopyOf(cachedSess, sess, rev)
    /\ CopyOf(work, sess, rev)
    /\ WorkerInv
    /\ FinalizerGuardsChildren
    /\ NeverForgotten
=============================================================================

------------------------- MODULE SessionControllerWrites -------------------------
(***************************************************************************)
(* Why the controller's writes come to an end: a count, in every state of  *)
(* SessionController, of the writes that are still owed if nobody does     *)
(* anything any more.  No step writes, and no step creates debts, beyond   *)
(* what WritesAreCaused grants for what caused it.                         *)
(*                                                                         *)
(* A status is written when a pass of Reconcile comes to another result    *)
(* than the last one.  So what has to be counted is how often the answers  *)
(* that passes read can still change.                                      *)
(***************************************************************************)
EXTENDS SessionControllerInvariant

One(p) == IF p THEN 1 ELSE 0

-----------------------------------------------------------------------------
(* What a pass finds.                                                      *)

NoLongerOwned(k) == kids[k] # Nil /\ kids[k].owner # sess.uid
Unowned(k) == kids[k] = Nil \/ NoLongerOwned(k)

(* The claim k is there and cannot be changed to what the spec asks for. *)
Blocked(k) == Wanted(k, sess.spec) /\ kids[k] # Nil /\ kids[k].desc # Desired(k, sess.spec)

(* What the cache shows once k is applied depends on what comes first. *)
Undecided(k) == Unowned(k) /\ ~ (cachedKids[k] = Nil /\ kids[k] = Nil)

NotCached(k) == cachedKids[k] = Nil
ShownReady == cachedKids["dep"].ready
Negative == applyDefaults(sess.spec).replicas < 0

(* The result of a pass that is at the named step and runs on at once: the *)
(* kind that fails, or whether pods are ready, if that is decided.         *)
FromStatus(ready) == IF ready THEN "up" ELSE "down"
FromGetsvc(ready) == IF NotCached("svc") THEN "svc" ELSE FromStatus(ready)
FromSvc(ready) == IF Undecided("svc") THEN "undecided" ELSE FromGetsvc(ready)
FromGetdep == IF NotCached("dep") THEN "dep" ELSE FromSvc(ShownReady)
FromDep ==
    IF Negative THEN "dep"
    ELSE IF Undecided("dep") THEN "undecided" ELSE FromGetdep
FromScratch == IF Blocked("scratch") THEN "scratch" ELSE FromDep
Verdict == IF Blocked("home") THEN "home" ELSE FromScratch

Outcome ==
    CASE pc = "fail" -> work.status.reason
      [] pc \in {"ing", "status"} -> FromStatus(got)
      [] pc = "getsvc" -> FromGetsvc(got)
      [] pc = "svc" -> FromSvc(got)
      [] pc = "getdep" -> FromGetdep
      [] pc = "dep" -> FromDep
      [] pc = "scratch" -> FromScratch
      [] OTHER -> Verdict

(* The status tells the result o of a pass over a spec with this host. *)
Tells(status, host, o) ==
    \/ o = "up" /\ status.phase = "Ready" /\ status.url = host
    \/ o = "down" /\ status.phase = "Pending" /\ status.url = host
    \/ o \in Kinds /\ status.phase = "Error" /\ status.reason = o

Untold(o) == ~ Tells(sess.status, sess.spec.host, o)

-----------------------------------------------------------------------------
(* The debts.                                                              *)

(* What the pass under way has read and would read differently now. *)
AfterGetsvc == {"ing", "status"}
AfterGetdep == {"svc", "getsvc"} \cup AfterGetsvc
AfterScratch == {"dep", "getdep"} \cup AfterGetdep
AfterHome == {"scratch"} \cup AfterScratch

OverlookedDep ==
    \/ pc = "getdep" /\ Undecided("dep")
    \/ pc \in AfterGetdep /\ (Undecided("dep") \/ NotCached("dep") \/ ShownReady # got)
OverlookedSvc ==
    \/ pc = "getsvc" /\ Undecided("svc")
    \/ pc \in AfterGetsvc /\ (Undecided("svc") \/ NotCached("svc"))

Overlooked ==
    One(pc = "fail" /\ Verdict # work.status.reason)
    + One(pc \in AfterHome /\ Blocked("home"))
    + One(pc \in AfterScratch /\ Blocked("scratch"))
    + One(OverlookedDep) + One(OverlookedSvc)

(* Will what the pass under way writes be accepted? *)
UpToDate == work # Nil /\ work.rv = sess.rv

PassesOwed ==
    IF UpToDate THEN One(Untold(Outcome)) + Overlooked ELSE One(Untold(Verdict))

(* A copy asks for another claim than the stored Session. *)
Differs(c, k) == c # Nil /\ c.uid = sess.uid /\ Desired(k, c.spec) # Desired(k, sess.spec)
StaleCopy(k) == Differs(cachedSess, k) \/ Differs(work, k)

ClaimOwed(k) == One(NoLongerOwned(k)) + One(Unowned(k) /\ StaleCopy(k))

DepOwed == One(Unowned("dep") \/ NotCached("dep") \/ ShownReady # kids["dep"].ready)
SvcOwed == One(Unowned("svc") \/ NotCached("svc"))

StatusesOwed == PassesOwed + ClaimOwed("home") + ClaimOwed("scratch") + DepOwed + SvcOwed

(* Finalizer, deletion mark, release. *)
Owed ==
    IF sess = Nil THEN 0
    ELSE IF sess.deleting THEN 1
    ELSE (IF sess.fin THEN 2 ELSE 3) + StatusesOwed

(* Pods that are ready may be gone some day without anybody's doing. *)
PodsOwed == One(kids["dep"] # Nil /\ kids["dep"].ready)

Granted ==
    9 * Spent("create") + 4 * Spent("edit")
    + 2 * (Spent("fault") + Spent("readiness") + Spent("drift") + Spent("restart"))

WritesInv == rev + Owed + PodsOwed <= Granted

-----------------------------------------------------------------------------
(* What the count relies on.                                               *)

(* A copy with the stored resourceVersion tells of the stored status and   *)
(* finalizer, apart from the Error that the worker is about to write.      *)
CopiesTellStatus ==
    /\ cachedSess # Nil /\ sess # Nil /\ cachedSess.rv = sess.rv => cachedSess = sess
    /\ work # Nil /\ sess # Nil /\ work.rv = sess.rv =>
         /\ work.fin = sess.fin
         /\ pc # "fail" => work.status = sess.status
         /\ pc = "fail" =>
              work.status = [sess.status EXCEPT !.phase = "Error", !.reason = work.status.reason]

(* What the worker has behind it, in the pass that is under way. *)
PassInv ==
    /\ pc = "fail" => work.status.reason \in Kinds
    /\ pc \in {"getdep"} \cup AfterGetdep =>
         /\ ~ (work.spec.replicas < 0)
         /\ kids["dep"] # Nil => kids["dep"].owner = work.uid
    /\ pc \in {"getsvc"} \cup AfterGetsvc /\ kids["svc"] # Nil => kids["svc"].owner = work.uid

Accounts == CopiesTellStatus /\ PassInv /\ WritesInv

(* The inductive invariant that bounds the writes. *)
AccountedInv == IInv /\ Accounts
=============================================================================

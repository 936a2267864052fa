--------------------------- MODULE SessionController ---------------------------
(***************************************************************************)
(* The Session reconciler (internal/controller) at work on one Session     *)
(* name, together with what it runs against:                               *)
(*                                                                         *)
(*   API server   the Session and its six children, optimistic locking on  *)
(*                resourceVersion, the finalizer rule, server-side apply,  *)
(*                the garbage collector and the Deployment controller;     *)
(*   informers    the manager's cache, from which every r.Get is answered  *)
(*                and which may lag behind the API server;                 *)
(*   work queue   one key: dirty or not, a delayed add pending or not.     *)
(*                                                                         *)
(* Reconcile is split at its API calls: one action per call, so that       *)
(* users, the garbage collector, the informers and crashes run in between. *)
(* The queue never hands one key to two workers and Session names do not   *)
(* share children, so one worker and one name are enough.                  *)
(*                                                                         *)
(* Not covered: two controllers alive at once (an old leader that has not  *)
(* noticed the loss of its lease), other field managers, claims that stay  *)
(* in Terminating or whose storage class lets them grow, users who edit    *)
(* metadata.finalizers.                                                    *)
(***************************************************************************)
EXTENDS Integers

CONSTANTS
    Nil,            \* a nil pointer, an absent object, an empty string
    Images, Sizes, Hosts,
    Scenarios,      \* what may happen around the controller, by name:
    UserSpecs,      \*   UserSpecs[s]: the specs users give,
    Budget          \*   Budget[s]: how often each thing may happen (a bound)

-----------------------------------------------------------------------------
(* Session.spec, as far as a child object or the status depends on it. *)
Specs == [ replicas : {Nil} \cup Int,
           image    : Images,
           ide      : {"jupyterlab", "vscode", "rstudio", "custom"},
           auth     : {"none", "oauth2proxy"},
           home     : {Nil} \cup Sizes,
           scratch  : {Nil} \cup Sizes,
           host     : {Nil} \cup Hosts ]

(* What the spec looks like once applyDefaults has run. *)
FullSpecs == {s \in Specs : s.replicas # Nil}

BudgetKinds == {"create", "edit", "fault", "readiness", "drift", "restart"}

Kinds == {"sa", "home", "scratch", "dep", "svc", "ing"}
Claims == {"home", "scratch"}

(* SetupWithManager watches these children; not the ServiceAccount, not    *)
(* the claims.                                                             *)
Watched == {"dep", "svc", "ing"}

Status == [ phase  : {"", "Pending", "Ready", "Error"},
            url    : {Nil} \cup Hosts,
            reason : {Nil} \cup Kinds ]

SessionsWith(S) ==
    [ uid : Nat, rv : Nat, fin : BOOLEAN, deleting : BOOLEAN,
      spec : S, status : Status ]

(* What a stored child of kind k can ask for. *)
Manifests(k) ==
    CASE k = "sa"   -> {"plain"}
      [] k \in Claims -> Sizes
      [] k = "dep"  -> [ replicas : Nat, image : Images, port : {8080, 8888},
                         sidecar : BOOLEAN, home : BOOLEAN, scratch : BOOLEAN ]
      [] k = "svc"  -> {4180, 8080, 8888}
      [] k = "ing"  -> Hosts

Children(k) == [owner : Nat, desc : Manifests(k), ready : BOOLEAN]

(* Nil is told apart from everything it stands in for. *)
ASSUME SpecsAssumption == UserSpecs \in [Scenarios -> SUBSET Specs]
ASSUME BudgetAssumption == Budget \in [Scenarios -> [BudgetKinds -> Nat]]
ASSUME NilAssumption ==
    /\ Nil \notin Int
    /\ Nil \notin SessionsWith(Specs)
    /\ \A k \in Kinds : Nil \notin Children(k)

Env == [scenario : Scenarios, left : [BudgetKinds -> Nat]]

VARIABLES
    sess,           \* the Session stored in the API server, or Nil
    kids,           \* kids[k]: the stored child of kind k, or Nil
    rev,            \* the latest resourceVersion handed out
    cachedSess,     \* the Session informer's copy
    cachedKids,     \* the copies of the watched children
    queued,         \* the key is in the work queue
    delayed,        \* a rate-limited or RequeueAfter add is pending
    pc,             \* the worker's next API call
    work,           \* the worker's in-memory Session
    got,            \* readiness of the Deployment the worker read
    env             \* the scenario, and what may still happen in it

vars == <<sess, kids, rev, cachedSess, cachedKids, queued, delayed, pc, work, got, env>>
store == <<sess, kids, rev>>
cache == <<cachedSess, cachedKids>>
queue == <<queued, delayed>>
worker == <<pc, work, got>>

NoStatus == [phase |-> "", url |-> Nil, reason |-> Nil]

applyDefaults(s) == IF s.replicas = Nil THEN [s EXCEPT !.replicas = 1] ELSE s

(* updateStatus shows an URL, reconcileIngress makes an Ingress and the    *)
(* sidecar is added only if there is a host.                               *)
Sidecar(s) == s.auth = "oauth2proxy" /\ s.host # Nil

determinePort(s) == IF s.ide = "vscode" THEN 8080 ELSE 8888

(* Is child k applied at all? *)
Wanted(k, s) ==
    CASE k = "home"    -> s.home # Nil
      [] k = "scratch" -> s.scratch # Nil
      [] k = "ing"     -> s.host # Nil
      [] OTHER         -> TRUE

(* The part of the apply configuration of child k that the spec decides. *)
Desired(k, s) ==
    CASE k = "sa"      -> "plain"
      [] k = "home"    -> s.home
      [] k = "scratch" -> s.scratch
      [] k = "dep"     -> [ replicas |-> s.replicas,
                            image    |-> s.image,
                            port     |-> determinePort(s),
                            sidecar  |-> Sidecar(s),
                            home     |-> s.home # Nil,
                            scratch  |-> s.scratch # Nil ]
      [] k = "svc"     -> IF Sidecar(s) THEN 4180 ELSE determinePort(s)
      [] k = "ing"     -> s.host

(* The API server refuses a negative replica count and a change to the     *)
(* spec of an existing claim.                                              *)
Rejected(k, s) ==
    \/ k = "dep" /\ s.replicas < 0
    \/ k \in Claims /\ kids[k] # Nil /\ kids[k].desc # Desired(k, s)

-----------------------------------------------------------------------------
Init ==
    /\ sess = Nil
    /\ kids = [k \in Kinds |-> Nil]
    /\ rev = 0
    /\ cachedSess = Nil
    /\ cachedKids = [k \in Watched |-> Nil]
    /\ queued = FALSE
    /\ delayed = FALSE
    /\ pc = "idle"
    /\ work = Nil
    /\ got = FALSE
    /\ env \in {[scenario |-> s, left |-> Budget[s]] : s \in Scenarios}

Spend(b) ==
    /\ env.left[b] > 0
    /\ env' = [env EXCEPT !.left[b] = @ - 1]

(* The API server stores new in place of sess.  A write that changes       *)
(* nothing gets no new resourceVersion.                                    *)
Store(new) ==
    IF new = sess
    THEN UNCHANGED <<sess, rev>>
    ELSE /\ rev' = rev + 1
         /\ sess' = [new EXCEPT !.rv = rev + 1]

-----------------------------------------------------------------------------
(* Users: kubectl, or the session API server (module SessionServer). *)

Create ==
    /\ sess = Nil
    /\ Spend("create")
    /\ \E s \in UserSpecs[env.scenario] :
         sess' = [ uid |-> rev + 1, rv |-> rev + 1, fin |-> FALSE,
                   deleting |-> FALSE, spec |-> s, status |-> NoStatus ]
    /\ rev' = rev + 1
    /\ UNCHANGED <<kids, cache, queue, worker>>

Edit ==
    /\ sess # Nil
    /\ Spend("edit")
    /\ \E s \in UserSpecs[env.scenario] : s # sess.spec /\ Store([sess EXCEPT !.spec = s])
    /\ UNCHANGED <<kids, cache, queue, worker>>

(* A Session that carries a finalizer is only marked. *)
Delete ==
    /\ sess # Nil
    /\ ~sess.deleting
    /\ IF sess.fin
       THEN Store([sess EXCEPT !.deleting = TRUE])
       ELSE sess' = Nil /\ rev' = rev + 1
    /\ UNCHANGED <<kids, cache, queue, worker, env>>

-----------------------------------------------------------------------------
(* The rest of the cluster. *)

(* The garbage collector removes a child whose owner no longer exists. *)
Collect(k) ==
    /\ kids[k] # Nil
    /\ sess # Nil => sess.uid # kids[k].owner
    /\ kids' = [kids EXCEPT ![k] = Nil]
    /\ UNCHANGED <<sess, rev, cache, queue, worker, env>>

(* Somebody deletes a child behind the controller's back. *)
Drift(k) ==
    /\ kids[k] # Nil
    /\ Spend("drift")
    /\ kids' = [kids EXCEPT ![k] = Nil]
    /\ UNCHANGED <<sess, rev, cache, queue, worker>>

(* Pods come up and fail. *)
Readiness ==
    /\ kids["dep"] # Nil
    /\ kids["dep"].ready \/ kids["dep"].desc.replicas > 0
    /\ Spend("readiness")
    /\ kids' = [kids EXCEPT !["dep"].ready = ~@]
    /\ UNCHANGED <<sess, rev, cache, queue, worker>>

(* A Deployment scaled to zero loses its pods in the end. *)
ScaledDown ==
    /\ kids["dep"] # Nil
    /\ kids["dep"].ready
    /\ kids["dep"].desc.replicas = 0
    /\ kids' = [kids EXCEPT !["dep"].ready = FALSE]
    /\ UNCHANGED <<sess, rev, cache, queue, worker, env>>

(* An informer catches up, skipping versions or not.  The event enqueues   *)
(* the key: the Session's own, or the one its owner reference names.       *)
SyncSession ==
    /\ cachedSess # sess
    /\ cachedSess' = sess
    /\ queued' = TRUE
    /\ UNCHANGED <<store, cachedKids, delayed, worker, env>>

SyncChild(k) ==
    /\ cachedKids[k] # kids[k]
    /\ cachedKids' = [cachedKids EXCEPT ![k] = kids[k]]
    /\ queued' = TRUE
    /\ UNCHANGED <<store, cachedSess, delayed, worker, env>>

(* A delayed add falls due. *)
DelayOver ==
    /\ delayed
    /\ delayed' = FALSE
    /\ queued' = TRUE
    /\ UNCHANGED <<store, cache, worker, env>>

-----------------------------------------------------------------------------
(* The worker. *)

Idle ==
    /\ pc' = "idle"
    /\ work' = Nil
    /\ got' = FALSE

(* Mutant: Reconcile returns neither an error nor a RequeueAfter. *)
ForgetToRequeue ==
    /\ Idle
    /\ UNCHANGED delayed

(* Reconcile returns an error, or asks for RequeueAfter. *)
Requeue ==
    /\ Idle
    /\ delayed' = TRUE

(* What reconcileX returning an error leads to: failStatus is next. *)
Fail(k) ==
    /\ pc' = "fail"
    /\ work' = [work EXCEPT !.status.phase = "Error", !.status.reason = k]
    /\ UNCHANGED got

Goto(step) ==
    /\ pc' = step
    /\ UNCHANGED <<work, got>>

(* Mutant: the Session is used as it was read. *)
StartWithoutDefaults ==
    /\ pc = "idle"
    /\ queued
    /\ cachedSess # Nil
    /\ queued' = FALSE
    /\ pc' = "finalizer"
    /\ work' = cachedSess
    /\ UNCHANGED <<store, cache, delayed, got, env>>

StartReconcile ==
    /\ pc = "idle"
    /\ queued
    /\ queued' = FALSE
    /\ IF cachedSess = Nil
       THEN UNCHANGED worker
       ELSE /\ pc' = "finalizer"
            /\ work' = [cachedSess EXCEPT !.spec = applyDefaults(@)]
            /\ UNCHANGED got
    /\ UNCHANGED <<store, cache, delayed, env>>

(* Mutant: the update carries no resourceVersion, and overwrites. *)
SameIncarnation == sess # Nil /\ work.uid = sess.uid

(* r.Update sends the resourceVersion it read. *)
Current == sess # Nil /\ work.rv = sess.rv

(* Mutant: the finalizer stays on until the children are gone. *)
WaitForChildren ==
    /\ pc = "finalizer"
    /\ work.deleting
    /\ Requeue
    /\ IF Current /\ \A k \in Kinds : kids[k] = Nil
       THEN sess' = Nil /\ rev' = rev + 1
       ELSE UNCHANGED <<sess, rev>>
    /\ UNCHANGED <<kids, cache, queued, env>>

(* handleDelete: the Session goes when its last finalizer does. *)
handleDelete ==
    /\ pc = "finalizer"
    /\ work.deleting
    /\ IF Current
       THEN /\ sess' = Nil
            /\ rev' = rev + 1
            /\ \/ Idle /\ UNCHANGED <<delayed, env>>
               \/ Requeue /\ Spend("fault")             \* the reply is lost
       ELSE /\ Requeue
            /\ UNCHANGED <<sess, rev, env>>
    /\ UNCHANGED <<kids, cache, queued>>

(* Mutant: the finalizer is left for a later reconcile. *)
ChildrenFirst ==
    /\ pc = "finalizer"
    /\ ~work.deleting
    /\ Goto("sa")
    /\ UNCHANGED <<store, cache, queue, env>>

(* Mutant: a conflict is taken for a finalizer that is on already. *)
IgnoreConflict ==
    /\ pc = "finalizer"
    /\ ~work.deleting
    /\ Goto("sa")
    /\ IF Current
       THEN Store([sess EXCEPT !.fin = TRUE, !.spec = work.spec])
       ELSE UNCHANGED <<sess, rev>>
    /\ UNCHANGED <<kids, cache, queue, env>>

(* ensureFinalizer: the update writes the defaulted spec as well. *)
ensureFinalizer ==
    /\ pc = "finalizer"
    /\ ~work.deleting
    /\ CASE work.fin ->
              Goto("sa") /\ UNCHANGED <<sess, rev, delayed, env>>
         [] ~work.fin /\ Current ->
              /\ Store([sess EXCEPT !.fin = TRUE, !.spec = work.spec])
              /\ \/ /\ pc' = "sa"
                    /\ work' = sess'
                    /\ UNCHANGED <<got, delayed, env>>
                 \/ Requeue /\ Spend("fault")           \* the reply is lost
         [] ~work.fin /\ ~Current ->
              Requeue /\ UNCHANGED <<sess, rev, env>>
    /\ UNCHANGED <<kids, cache, queued>>

(* The order of the children in Reconcile; the Deployment and the Service  *)
(* are read back after they are applied.                                   *)
After == [ sa |-> "home", home |-> "scratch", scratch |-> "dep",
           dep |-> "getdep", svc |-> "getsvc", ing |-> "status" ]

(* Mutant: a child that is there is left as it is. *)
AppliedOnce(k) ==
    [ owner |-> work.uid,
      desc  |-> IF kids[k] = Nil THEN Desired(k, work.spec) ELSE kids[k].desc,
      ready |-> kids[k] # Nil /\ kids[k].ready ]

(* Server-side apply creates or updates child k and makes this Session its *)
(* owner, in place of an earlier incarnation.                              *)
Applied(k) ==
    [ owner |-> work.uid,
      desc  |-> Desired(k, work.spec),
      ready |-> kids[k] # Nil /\ kids[k].ready ]

reconcileChild(k) ==
    /\ pc = k
    /\ CASE ~Wanted(k, work.spec) ->
              Goto(After[k]) /\ UNCHANGED <<kids, env>>
         [] Wanted(k, work.spec) /\ Rejected(k, work.spec) ->
              Fail(k) /\ UNCHANGED <<kids, env>>
         [] Wanted(k, work.spec) /\ ~Rejected(k, work.spec) ->
              /\ kids' = [kids EXCEPT ![k] = Applied(k)]
              /\ \/ Goto(After[k]) /\ UNCHANGED env
                 \/ Fail(k) /\ Spend("fault")           \* the reply is lost
    /\ UNCHANGED <<sess, rev, cache, queue>>

(* The reads after the apply are answered by the informer's copy. *)
getDeployment ==
    /\ pc = "getdep"
    /\ IF cachedKids["dep"] = Nil
       THEN Fail("dep")
       ELSE pc' = "svc" /\ got' = cachedKids["dep"].ready /\ UNCHANGED work
    /\ UNCHANGED <<store, cache, queue, env>>

getService ==
    /\ pc = "getsvc"
    /\ IF cachedKids["svc"] = Nil THEN Fail("svc") ELSE Goto("ing")
    /\ UNCHANGED <<store, cache, queue, env>>

(* Status().Update is refused unless the resourceVersion is still the one  *)
(* that was read; the spec it carries is ignored.                          *)
WriteStatus(st) ==
    IF Current
    THEN Store([sess EXCEPT !.status = st])
    ELSE UNCHANGED <<sess, rev>>

(* Mutant: the status always changes, like a heartbeat. *)
Heartbeat ==
    /\ pc = "status"
    /\ IF Current
       THEN /\ rev' = rev + 1
            /\ sess' = [sess EXCEPT !.rv = rev + 1, !.status.phase = IF got THEN "Ready" ELSE "Pending"]
       ELSE UNCHANGED <<sess, rev>>
    /\ Requeue
    /\ UNCHANGED <<kids, cache, queued, env>>

(* updateStatus; a conflict is ignored, any other error only logged. *)
updateStatus ==
    /\ pc = "status"
    /\ WriteStatus([ phase  |-> IF got THEN "Ready" ELSE "Pending",
                     url    |-> work.spec.host,
                     reason |-> work.status.reason ])
    /\ Requeue
    /\ UNCHANGED <<kids, cache, queued, env>>

(* Mutant: the error is returned and not shown. *)
FailSilently ==
    /\ pc = "fail"
    /\ Requeue
    /\ UNCHANGED <<store, cache, queued, env>>

failStatus ==
    /\ pc = "fail"
    /\ WriteStatus(work.status)
    /\ Requeue
    /\ UNCHANGED <<kids, cache, queued, env>>

(* An API call that writes fails without effect. *)
CallFails ==
    /\ Spend("fault")
    /\ \/ pc = "finalizer" /\ (work.fin => work.deleting) /\ Requeue
       \/ pc \in {"status", "fail"} /\ Requeue
       \/ \E k \in Kinds : pc = k /\ Wanted(k, work.spec) /\ Fail(k)
                           /\ UNCHANGED delayed
    /\ UNCHANGED <<store, cache, queued>>

(* The process dies and comes back: queue, timers and the reconcile under  *)
(* way are lost; the workers start once every informer has listed, and     *)
(* each object listed is an event.                                         *)
Restart ==
    /\ Spend("restart")
    /\ Idle
    /\ delayed' = FALSE
    /\ cachedSess' = sess
    /\ cachedKids' = [k \in Watched |-> kids[k]]
    /\ queued' = (sess # Nil \/ \E k \in Watched : kids[k] # Nil)
    /\ UNCHANGED store

Controller ==
    \/ StartReconcile \/ handleDelete \/ ensureFinalizer
    \/ \E k \in Kinds : reconcileChild(k)
    \/ getDeployment \/ getService \/ updateStatus \/ failStatus

Informers ==
    \/ SyncSession
    \/ \E k \in Watched : SyncChild(k)
    \/ DelayOver

Environment ==
    \/ Create \/ Edit \/ Delete
    \/ \E k \in Kinds : Collect(k) \/ Drift(k)
    \/ Readiness \/ ScaledDown
    \/ CallFails \/ Restart

Next == Controller \/ Informers \/ Environment

(* The worker runs, watches deliver, timers fire, the garbage collector    *)
(* and the Deployment controller do their work.  Nothing else is promised, *)
(* nor in which order watches deliver or children are collected.           *)
Fairness ==
    /\ WF_vars(Controller)
    /\ WF_vars(SyncSession \/ \E k \in Watched : SyncChild(k))
    /\ WF_vars(DelayOver)
    /\ WF_vars(\E k \in Kinds : Collect(k))
    /\ WF_vars(ScaledDown)

Safety == Init /\ [][Next]_vars
Spec == Safety /\ Fairness

-----------------------------------------------------------------------------
WorkerSteps == {"idle", "finalizer", "getdep", "getsvc", "status", "fail"} \cup Kinds

StoreTypeOK ==
    /\ sess \in {Nil} \cup SessionsWith(Specs)
    /\ kids = [k \in Kinds |-> kids[k]]
    /\ \A k \in Kinds : kids[k] \in {Nil} \cup Children(k)
    /\ rev \in Nat

CacheTypeOK ==
    /\ cachedSess \in {Nil} \cup SessionsWith(Specs)
    /\ cachedKids = [k \in Watched |-> cachedKids[k]]
    /\ \A k \in Watched : cachedKids[k] \in {Nil} \cup Children(k)

WorkerTypeOK ==
    /\ pc \in WorkerSteps
    /\ work \in {Nil} \cup SessionsWith(FullSpecs)
    /\ work = Nil <=> pc = "idle"
    /\ got \in BOOLEAN

(* Every variable has its type.  Two clauses are about the code: the       *)
(* worker never holds a nil Replicas, which reconcileDeployment            *)
(* dereferences, and no negative replica count reaches a Deployment.       *)
TypeOK ==
    /\ StoreTypeOK
    /\ CacheTypeOK
    /\ WorkerTypeOK
    /\ queued \in BOOLEAN
    /\ delayed \in BOOLEAN
    /\ env \in Env

(* While Reconcile is among the children, the incarnation it works for     *)
(* still exists and carries the finalizer, however old the copy it read.   *)
WorkerHoldsLiveSession ==
    pc \in Kinds => sess # Nil /\ sess.uid = work.uid /\ sess.fin

(* No child belongs to an incarnation that has not got its finalizer yet   *)
(* and so could be deleted at once (ensureFinalizer before the children).  *)
FinalizerGuardsChildren ==
    sess # Nil /\ ~sess.fin => \A k \in Kinds : kids[k] # Nil => kids[k].owner # sess.uid

(* As long as the Session exists something will bring the worker back to   *)
(* it: a key in the queue, a delayed add, or an event the informer owes.   *)
NeverForgotten ==
    pc = "idle" /\ sess # Nil => queued \/ delayed \/ cachedSess # sess

(* No write of the controller takes back an edit of a user: unless a user  *)
(* edits it, the spec of an incarnation changes by defaulting only.        *)
NoLostEdit ==
    [][(/\ sess # Nil /\ sess' # Nil /\ sess'.uid = sess.uid
        /\ env'.left["edit"] = env.left["edit"])
       => sess'.spec \in {sess.spec, applyDefaults(sess.spec)}]_vars

(* A Ready or Pending status is only ever written beside the spec it was   *)
(* computed from, so the URL it shows is that of the spec.                 *)
StatusDescribesSpec ==
    [][(/\ sess # Nil /\ sess' # Nil /\ sess'.status # sess.status
        /\ sess'.status.phase \in {"Ready", "Pending"})
       => sess'.status.url = sess'.spec.host]_vars

-----------------------------------------------------------------------------
(* The children of this incarnation that the API server will not accept:   *)
(* waiting does not help, a user has to change the spec.                   *)
BlockedKinds ==
    {k \in Kinds :
        /\ Wanted(k, sess.spec)
        /\ Rejected(k, applyDefaults(sess.spec))
        /\ k \in Claims => kids[k].owner = sess.uid}

Active == sess # Nil /\ ~sess.deleting

(* Once the environment is quiet, every child a live Session wants is      *)
(* there, is its own, is what the spec says, and the status tells whether  *)
(* the Deployment has ready pods, whatever went wrong before.              *)
Converges ==
    <>[](Active /\ BlockedKinds = {} =>
            /\ \A k \in Kinds : Wanted(k, sess.spec) =>
                 /\ kids[k] # Nil
                 /\ kids[k].owner = sess.uid
                 /\ kids[k].desc = Desired(k, applyDefaults(sess.spec))
            /\ sess.status.phase = IF kids["dep"].ready THEN "Ready" ELSE "Pending"
            /\ sess.status.url = sess.spec.host)

(* A Session with a child the API server refuses ends up in Error, with    *)
(* that child as the reason (failStatus).                                  *)
BlockedIsReported ==
    <>[](Active /\ BlockedKinds # {} =>
            sess.status.phase = "Error" /\ sess.status.reason \in BlockedKinds)

(* The controller's own writes come back to it as events, and set it to    *)
(* work again.  That loop dies out: a Session is written at most nine      *)
(* times for having been created (finalizer, an Error each for the claims, *)
(* the Deployment and the Service, Pending, deletion mark, release), four  *)
(* times for an edit, and twice for anything else that happens.            *)
Spent(b) == Budget[env.scenario][b] - env.left[b]

WritesAreCaused ==
    rev <= 9 * Spent("create") + 4 * Spent("edit")
             + 2 * (Spent("fault") + Spent("readiness") + Spent("drift") + Spent("restart"))

(* The promise of SessionLifecycle, liveness included: a terminating       *)
(* Session goes, and then its children.                                    *)
lifeCurrent == IF sess = Nil THEN 0 ELSE sess.uid
lifeStage ==
    IF sess = Nil THEN "none"
    ELSE IF sess.deleting THEN "terminating"
    ELSE IF sess.fin THEN "guarded" ELSE "new"
lifeOwner == [k \in Kinds |-> IF kids[k] = Nil THEN 0 ELSE kids[k].owner]

Lifecycle == INSTANCE SessionLifecycle WITH
    current <- lifeCurrent, stage <- lifeStage, owner <- lifeOwner

(* The controller keeps the safety part of that promise. *)
ImplementsLifecycleSafely == Lifecycle!Safety

(* The controller keeps all of it. *)
ImplementsLifecycle == Lifecycle!Spec
=============================================================================

------------------------- MODULE SessionControllerProofs -------------------------
(***************************************************************************)
(* What holds of SessionController for every set of specs, images, sizes   *)
(* and hosts, in every scenario.                                           *)
(***************************************************************************)
EXTENDS SessionControllerInvariant, TLAPS

-----------------------------------------------------------------------------
(* The pure functions of the reconciler. *)

(* Defaulting leaves a complete spec, and only ever touches replicas. *)
LEMMA DefaultsComplete ==
    ASSUME NEW s \in Specs
    PROVE  /\ applyDefaults(s) \in FullSpecs
           /\ applyDefaults(s).host = s.host
           /\ applyDefaults(applyDefaults(s)) = applyDefaults(s)
  BY NilAssumption DEF applyDefaults, Specs, FullSpecs

(* A complete spec asks for a well-formed manifest of every child it wants *)
(* unless it has a negative replica count, which the API server refuses.   *)
LEMMA DesiredIsManifest ==
    ASSUME NEW k \in Kinds, NEW s \in FullSpecs,
           Wanted(k, s), k = "dep" => ~(s.replicas < 0)
    PROVE  Desired(k, s) \in Manifests(k)
  <1>1. s \in Specs /\ s.replicas \in Nat \cup {r \in Int : r < 0}
    BY DEF FullSpecs, Specs
  <1>2. CASE k = "dep"
    BY <1>1, <1>2 DEF Desired, Manifests, Claims, Specs, determinePort, Sidecar
  <1>3. CASE k # "dep"
    BY <1>1, <1>3 DEF Desired, Manifests, Claims, Specs, Wanted, Kinds, determinePort
  <1> QED BY <1>2, <1>3

-----------------------------------------------------------------------------
(* Type correctness. *)

LEMMA FullSessions == SessionsWith(FullSpecs) \subseteq SessionsWith(Specs) \ {Nil}
  BY NilAssumption DEF SessionsWith, FullSpecs

LEMMA InitTypeOK == Init => TypeOK
  <1> SUFFICES ASSUME Init PROVE TypeOK
    OBVIOUS
  <1>1. StoreTypeOK
    <2>1. \A k \in Kinds : kids[k] = Nil
      BY DEF Init
    <2> QED BY <2>1 DEF Init, StoreTypeOK
  <1>2. CacheTypeOK
    <2>1. \A k \in Watched : cachedKids[k] = Nil
      BY DEF Init
    <2> QED BY <2>1 DEF Init, CacheTypeOK
  <1>3. WorkerTypeOK
    BY DEF Init, WorkerTypeOK, WorkerSteps
  <1>4. env \in Env
    BY BudgetAssumption DEF Init, Env
  <1>5. queued \in BOOLEAN /\ delayed \in BOOLEAN
    BY DEF Init
  <1> QED BY <1>1, <1>2, <1>3, <1>4, <1>5 DEF TypeOK

LEMMA StoreKeepsType ==
    ASSUME TypeOK, NEW new \in SessionsWith(Specs), Store(new)
    PROVE  sess' \in {Nil} \cup SessionsWith(Specs) /\ rev' \in Nat
  BY DEF Store, TypeOK, StoreTypeOK, SessionsWith

LEMMA SpendKeepsType ==
    ASSUME TypeOK, NEW b \in BudgetKinds, Spend(b)
    PROVE  env' \in Env
  BY DEF Spend, TypeOK, Env

(* What users give in the scenario is a spec. *)
LEMMA GivenSpecs ==
    ASSUME TypeOK
    PROVE  UserSpecs[env.scenario] \subseteq Specs
  BY SpecsAssumption DEF TypeOK, Env

LEMMA IdleKeepsType == Idle => WorkerTypeOK'
  BY DEF Idle, WorkerTypeOK, WorkerSteps

LEMMA GotoKeepsType ==
    ASSUME TypeOK, work # Nil, NEW step \in WorkerSteps \ {"idle"}, Goto(step)
    PROVE  WorkerTypeOK'
  BY DEF Goto, TypeOK, WorkerTypeOK

LEMMA FailKeepsType ==
    ASSUME TypeOK, work # Nil, NEW k \in Kinds, Fail(k)
    PROVE  WorkerTypeOK'
  <1>1. work' \in SessionsWith(FullSpecs) /\ work' # Nil
    <2>1. work.status \in Status
      BY DEF TypeOK, WorkerTypeOK, SessionsWith
    <2>2. [work.status EXCEPT !.phase = "Error", !.reason = k] \in Status
      BY <2>1 DEF Status
    <2>3. work' = [work EXCEPT !.status = [work.status EXCEPT !.phase = "Error", !.reason = k]]
      BY DEF Fail, TypeOK, WorkerTypeOK, SessionsWith
    <2>4. work' \in SessionsWith(FullSpecs)
      BY <2>2, <2>3 DEF TypeOK, WorkerTypeOK, SessionsWith
    <2> QED BY <2>4, FullSessions
  <1> QED BY <1>1 DEF Fail, TypeOK, WorkerTypeOK, WorkerSteps

(* A step of the environment, of an informer or of a timer. *)
LEMMA UsersKeepType ==
    ASSUME TypeOK, Create \/ Edit \/ Delete
    PROVE  TypeOK'
  <1>1. CASE Create
    <2>1. sess' \in SessionsWith(Specs) /\ rev' \in Nat
      <3>1. NoStatus \in Status
        BY DEF NoStatus, Status
      <3> QED BY <1>1, <3>1, GivenSpecs DEF Create, TypeOK, StoreTypeOK, SessionsWith
    <2>2. env' \in Env
      BY <1>1, SpendKeepsType DEF Create, BudgetKinds
    <2> QED BY <1>1, <2>1, <2>2
        DEF Create, TypeOK, StoreTypeOK, CacheTypeOK, WorkerTypeOK, cache, queue, worker
  <1>2. CASE Edit
    <2>1. PICK s \in UserSpecs[env.scenario] : Store([sess EXCEPT !.spec = s])
      BY <1>2 DEF Edit
    <2>2. [sess EXCEPT !.spec = s] \in SessionsWith(Specs)
      BY <1>2, GivenSpecs DEF Edit, TypeOK, StoreTypeOK, SessionsWith
    <2>3. sess' \in {Nil} \cup SessionsWith(Specs) /\ rev' \in Nat
      BY <2>1, <2>2, StoreKeepsType
    <2>4. env' \in Env
      BY <1>2, SpendKeepsType DEF Edit, BudgetKinds
    <2> QED BY <1>2, <2>3, <2>4
        DEF Edit, TypeOK, StoreTypeOK, CacheTypeOK, WorkerTypeOK, cache, queue, worker
  <1>3. CASE Delete
    <2>1. [sess EXCEPT !.deleting = TRUE] \in SessionsWith(Specs)
      BY <1>3 DEF Delete, TypeOK, StoreTypeOK, SessionsWith
    <2>2. sess' \in {Nil} \cup SessionsWith(Specs) /\ rev' \in Nat
      BY <1>3, <2>1, StoreKeepsType DEF Delete, TypeOK, StoreTypeOK
    <2> QED BY <1>3, <2>2
        DEF Delete, TypeOK, StoreTypeOK, CacheTypeOK, WorkerTypeOK, cache, queue, worker
  <1> QED BY <1>1, <1>2, <1>3

LEMMA ClusterKeepsType ==
    ASSUME TypeOK, \/ \E k \in Kinds : Collect(k) \/ Drift(k)
                   \/ Readiness \/ ScaledDown
    PROVE  TypeOK'
  <1>1. /\ kids' = [k \in Kinds |-> kids'[k]]
        /\ \A k \in Kinds : kids'[k] \in {Nil} \cup Children(k)
    <2>1. CASE \E k \in Kinds : Collect(k) \/ Drift(k)
      BY <2>1 DEF Collect, Drift, TypeOK, StoreTypeOK
    <2>2. CASE Readiness \/ ScaledDown
      <3>1. "dep" \in Kinds
        BY DEF Kinds
      <3>2. kids["dep"] \in Children("dep")
        BY <2>2, <3>1 DEF Readiness, ScaledDown, TypeOK, StoreTypeOK
      <3>3. \E r \in BOOLEAN : kids' = [kids EXCEPT !["dep"].ready = r]
        BY <2>2, <3>2 DEF Readiness, ScaledDown, Children
      <3> QED BY <3>1, <3>2, <3>3 DEF TypeOK, StoreTypeOK, Children
    <2> QED BY <2>1, <2>2
  <1>2. env' \in Env
    BY SpendKeepsType DEF Collect, Drift, Readiness, ScaledDown, BudgetKinds, TypeOK
  <1> QED BY <1>1, <1>2
      DEF Collect, Drift, Readiness, ScaledDown, TypeOK, StoreTypeOK, CacheTypeOK, WorkerTypeOK, cache, queue, worker

LEMMA InformersKeepType ==
    ASSUME TypeOK, Informers
    PROVE  TypeOK'
  <1>1. CASE SyncSession
    BY <1>1 DEF SyncSession, TypeOK, StoreTypeOK, CacheTypeOK, WorkerTypeOK, store, worker
  <1>2. ASSUME NEW k \in Watched, SyncChild(k) PROVE TypeOK'
    <2>1. k \in Kinds
      BY DEF Watched, Kinds
    <2>2. CacheTypeOK'
      BY <1>2, <2>1 DEF SyncChild, TypeOK, StoreTypeOK, CacheTypeOK
    <2> QED BY <1>2, <2>2 DEF SyncChild, TypeOK, StoreTypeOK, WorkerTypeOK, store, worker
  <1>3. CASE DelayOver
    BY <1>3 DEF DelayOver, TypeOK, StoreTypeOK, CacheTypeOK, WorkerTypeOK, store, cache, worker
  <1> QED BY <1>1, <1>2, <1>3 DEF Informers

(* What the worker holds once it is on its way. *)
LEMMA WorkIsSession ==
    ASSUME TypeOK, pc # "idle"
    PROVE  work # Nil /\ work \in SessionsWith(FullSpecs) /\ work \in SessionsWith(Specs)
  BY FullSessions DEF TypeOK, WorkerTypeOK

LEMMA StartKeepsType ==
    ASSUME TypeOK, StartReconcile
    PROVE  TypeOK'
  <1>1. WorkerTypeOK'
    <2>1. CASE cachedSess = Nil
      BY <2>1 DEF StartReconcile, worker, TypeOK, WorkerTypeOK
    <2>2. CASE cachedSess # Nil
      <3>1. cachedSess \in SessionsWith(Specs)
        BY <2>2 DEF TypeOK, CacheTypeOK
      <3>2. applyDefaults(cachedSess.spec) \in FullSpecs
        BY <3>1, DefaultsComplete DEF SessionsWith
      <3>3. work' = [cachedSess EXCEPT !.spec = applyDefaults(cachedSess.spec)]
        BY <2>2 DEF StartReconcile
      <3>4. work' \in SessionsWith(FullSpecs)
        BY <3>1, <3>2, <3>3 DEF SessionsWith
      <3> QED BY <2>2, <3>4, FullSessions DEF StartReconcile, TypeOK, WorkerTypeOK, WorkerSteps
    <2> QED BY <2>1, <2>2
  <1> QED BY <1>1 DEF StartReconcile, TypeOK, StoreTypeOK, CacheTypeOK, store, cache

LEMMA handleDeleteKeepsType ==
    ASSUME TypeOK, handleDelete
    PROVE  TypeOK'
  <1>1. sess' \in {Nil} \cup SessionsWith(Specs) /\ rev' \in Nat
    BY DEF handleDelete, TypeOK, StoreTypeOK
  <1>2. WorkerTypeOK'
    BY IdleKeepsType DEF handleDelete, Requeue
  <1>3. env' \in Env
    BY SpendKeepsType DEF handleDelete, BudgetKinds, TypeOK
  <1> QED BY <1>1, <1>2, <1>3
      DEF handleDelete, Requeue, TypeOK, StoreTypeOK, CacheTypeOK, cache

LEMMA ensureFinalizerKeepsType ==
    ASSUME TypeOK, ensureFinalizer
    PROVE  TypeOK'
  <1>1. /\ work # Nil
        /\ work \in SessionsWith(FullSpecs)
        /\ work.spec \in FullSpecs
        /\ work.spec \in Specs
        /\ "sa" \in WorkerSteps \ {"idle"}
    BY WorkIsSession DEF ensureFinalizer, SessionsWith, FullSpecs, WorkerSteps, Kinds
  <1>2. CASE work.fin
    BY <1>1, <1>2, GotoKeepsType DEF ensureFinalizer, TypeOK, StoreTypeOK, CacheTypeOK, cache
  <1>3. CASE ~work.fin /\ Current
    <2> DEFINE new == [sess EXCEPT !.fin = TRUE, !.spec = work.spec]
    <2>1. Store(new) /\ sess \in SessionsWith(Specs)
      BY <1>3 DEF ensureFinalizer, Current, TypeOK, StoreTypeOK
    <2>2. new \in SessionsWith(FullSpecs) /\ new \in SessionsWith(Specs)
      BY <1>1, <2>1 DEF SessionsWith
    <2>3. rev' \in Nat /\ sess' \in SessionsWith(FullSpecs)
      <3>1. CASE new = sess
        BY <2>1, <2>2, <3>1 DEF Store, TypeOK, StoreTypeOK
      <3>2. CASE new # sess
        <4>1. rev + 1 \in Nat /\ rev' = rev + 1
          BY <2>1, <3>2 DEF Store, TypeOK, StoreTypeOK
        <4>2. sess' = [new EXCEPT !.rv = rev + 1]
          BY <2>1, <3>2 DEF Store
        <4> HIDE DEF new
        <4> QED BY <2>2, <4>1, <4>2 DEF SessionsWith
      <3> QED BY <3>1, <3>2
    <2>4. WorkerTypeOK'
      <3>1. CASE pc' = "sa" /\ work' = sess' /\ got' = got
        BY <1>1, <2>3, <3>1, FullSessions DEF TypeOK, WorkerTypeOK
      <3>2. CASE Requeue
        BY <3>2, IdleKeepsType DEF Requeue
      <3> QED BY <1>3, <3>1, <3>2 DEF ensureFinalizer
    <2>5. env' \in Env
      BY <1>3, SpendKeepsType DEF ensureFinalizer, BudgetKinds, TypeOK
    <2>6. sess' \in {Nil} \cup SessionsWith(Specs)
      BY <2>3, FullSessions
    <2>7. delayed' \in BOOLEAN
      BY <1>3 DEF ensureFinalizer, Requeue, TypeOK
    <2> QED BY <2>3, <2>4, <2>5, <2>6, <2>7
        DEF ensureFinalizer, TypeOK, StoreTypeOK, CacheTypeOK, cache
  <1>4. CASE ~work.fin /\ ~Current
    BY <1>4, IdleKeepsType
    DEF ensureFinalizer, Requeue, TypeOK, StoreTypeOK, CacheTypeOK, cache
  <1> QED BY <1>2, <1>3, <1>4

LEMMA reconcileChildKeepsType ==
    ASSUME TypeOK, NEW k \in Kinds, reconcileChild(k)
    PROVE  TypeOK'
  <1>1. work # Nil /\ work \in SessionsWith(FullSpecs) /\ work.spec \in FullSpecs
    BY WorkIsSession DEF reconcileChild, SessionsWith, Kinds
  <1>2. After[k] \in WorkerSteps \ {"idle"}
    BY DEF After, WorkerSteps, Kinds
  <1>3. WorkerTypeOK'
    BY <1>1, <1>2, GotoKeepsType, FailKeepsType DEF reconcileChild
  <1>4. env' \in Env
    BY SpendKeepsType DEF reconcileChild, BudgetKinds, TypeOK
  <1>5. CASE Wanted(k, work.spec) /\ ~Rejected(k, work.spec)
    <2>1. Applied(k) \in Children(k)
      <3>1. Desired(k, work.spec) \in Manifests(k)
        BY <1>1, <1>5, DesiredIsManifest DEF Rejected
      <3>2. work.uid \in Nat
        BY <1>1 DEF SessionsWith
      <3> QED BY <3>1, <3>2 DEF Applied, Children
    <2>2. kids' = [kids EXCEPT ![k] = Applied(k)]
      BY <1>5 DEF reconcileChild
    <2>3. StoreTypeOK'
      BY <2>1, <2>2 DEF reconcileChild, TypeOK, StoreTypeOK
    <2> QED BY <1>3, <1>4, <2>3 DEF reconcileChild, TypeOK, CacheTypeOK, cache, queue
  <1>6. CASE ~(Wanted(k, work.spec) /\ ~Rejected(k, work.spec))
    <2>1. UNCHANGED kids
      BY <1>6 DEF reconcileChild
    <2> QED BY <1>3, <1>4, <2>1 DEF reconcileChild, TypeOK, StoreTypeOK, CacheTypeOK, cache, queue
  <1> QED BY <1>5, <1>6

LEMMA readsKeepType ==
    ASSUME TypeOK, getDeployment \/ getService
    PROVE  TypeOK'
  <1>1. work # Nil
    BY WorkIsSession DEF getDeployment, getService
  <1>2. /\ "dep" \in Kinds /\ "svc" \in Kinds /\ "dep" \in Watched
        /\ "svc" \in WorkerSteps \ {"idle"} /\ "ing" \in WorkerSteps \ {"idle"}
    BY DEF Kinds, Watched, WorkerSteps
  <1>3. CASE getDeployment
    <2>1. WorkerTypeOK'
      <3>1. CASE cachedKids["dep"] = Nil
        BY <1>1, <1>2, <1>3, <3>1, FailKeepsType DEF getDeployment
      <3>2. CASE cachedKids["dep"] # Nil
        <4>1. cachedKids["dep"].ready \in BOOLEAN
          BY <1>2, <3>2 DEF TypeOK, CacheTypeOK, Children
        <4> QED BY <1>1, <1>2, <1>3, <3>2, <4>1 DEF getDeployment, TypeOK, WorkerTypeOK
      <3> QED BY <3>1, <3>2
    <2> QED BY <1>3, <2>1 DEF getDeployment, TypeOK, StoreTypeOK, CacheTypeOK, store, cache, queue
  <1>4. CASE getService
    <2>1. WorkerTypeOK'
      BY <1>1, <1>2, <1>4, FailKeepsType, GotoKeepsType DEF getService
    <2> QED BY <1>4, <2>1 DEF getService, TypeOK, StoreTypeOK, CacheTypeOK, store, cache, queue
  <1> QED BY <1>3, <1>4

LEMMA WriteStatusKeepsType ==
    ASSUME TypeOK, NEW st \in Status, WriteStatus(st)
    PROVE  sess' \in {Nil} \cup SessionsWith(Specs) /\ rev' \in Nat
  <1>1. CASE Current
    <2>1. [sess EXCEPT !.status = st] \in SessionsWith(Specs)
      BY <1>1 DEF Current, TypeOK, StoreTypeOK, SessionsWith
    <2> QED BY <1>1, <2>1, StoreKeepsType DEF WriteStatus
  <1>2. CASE ~Current
    BY <1>2 DEF WriteStatus, TypeOK, StoreTypeOK
  <1> QED BY <1>1, <1>2

LEMMA statusKeepsType ==
    ASSUME TypeOK, updateStatus \/ failStatus
    PROVE  TypeOK'
  <1>1. work \in SessionsWith(FullSpecs) /\ work.status \in Status /\ work.spec \in FullSpecs
    BY WorkIsSession DEF updateStatus, failStatus, SessionsWith
  <1>2. \E st \in Status : WriteStatus(st)
    <2>1. CASE updateStatus
      <3>1. work.spec.host \in {Nil} \cup Hosts /\ work.status.reason \in {Nil} \cup Kinds
        BY <1>1 DEF FullSpecs, Specs, Status
      <3> QED BY <2>1, <3>1 DEF updateStatus, Status
    <2>2. CASE failStatus
      BY <1>1, <2>2 DEF failStatus
    <2> QED BY <2>1, <2>2
  <1>3. sess' \in {Nil} \cup SessionsWith(Specs) /\ rev' \in Nat
    BY <1>2, WriteStatusKeepsType
  <1>4. Requeue /\ UNCHANGED <<kids, cachedSess, cachedKids, queued, env>>
    BY DEF updateStatus, failStatus, cache
  <1> QED BY <1>3, <1>4, IdleKeepsType DEF Requeue, TypeOK, StoreTypeOK, CacheTypeOK

LEMMA failuresKeepType ==
    ASSUME TypeOK, CallFails \/ Restart
    PROVE  TypeOK'
  <1>1. CASE CallFails
    <2>1. WorkerTypeOK'
      <3>1. CASE Requeue
        BY <3>1, IdleKeepsType DEF Requeue
      <3>2. ASSUME NEW k \in Kinds, pc = k, Fail(k) PROVE WorkerTypeOK'
        <4>1. work # Nil
          BY <3>2, WorkIsSession DEF Kinds
        <4> QED BY <3>2, <4>1, FailKeepsType
      <3> QED BY <1>1, <3>1, <3>2 DEF CallFails
    <2>2. env' \in Env
      BY <1>1, SpendKeepsType DEF CallFails, BudgetKinds
    <2>3. delayed' \in BOOLEAN
      BY <1>1 DEF CallFails, Requeue, TypeOK
    <2> QED BY <1>1, <2>1, <2>2, <2>3
        DEF CallFails, TypeOK, StoreTypeOK, CacheTypeOK, store, cache
  <1>2. CASE Restart
    <2>1. CacheTypeOK'
      BY <1>2 DEF Restart, TypeOK, StoreTypeOK, CacheTypeOK, Watched, Kinds
    <2>2. env' \in Env
      BY <1>2, SpendKeepsType DEF Restart, BudgetKinds
    <2> QED BY <1>2, <2>1, <2>2, IdleKeepsType DEF Restart, TypeOK, StoreTypeOK, store
  <1> QED BY <1>1, <1>2

LEMMA StutterKeepsType ==
    ASSUME TypeOK, UNCHANGED vars
    PROVE  TypeOK'
  BY DEF vars, TypeOK, StoreTypeOK, CacheTypeOK, WorkerTypeOK

LEMMA TypeStep == TypeOK /\ [Next]_vars => TypeOK'
  BY UsersKeepType, ClusterKeepsType, InformersKeepType, StartKeepsType,
     handleDeleteKeepsType, ensureFinalizerKeepsType, reconcileChildKeepsType,
     readsKeepType, statusKeepsType, failuresKeepType, StutterKeepsType
  DEF Next, Controller, Environment

(* Every variable keeps its type; in particular no step of the worker has  *)
(* a nil Replicas in hand.                                                 *)
THEOREM TypeCorrect == Safety => []TypeOK
  BY InitTypeOK, TypeStep, PTL DEF Safety

-----------------------------------------------------------------------------
(* Copies of the Session.  The facts are about any copy c, what is stored  *)
(* before and after a write, s and t, and the latest resourceVersion r.    *)

(* t is a new version of the same incarnation. *)
NewVersion(s, t, r) ==
    /\ s # Nil /\ t # Nil
    /\ t.uid = s.uid
    /\ t.rv = r + 1
    /\ s.fin => t.fin
    /\ s.deleting => t.deleting
    /\ t.deleting => t.fin

LEMMA WriteKeepsCopies ==
    ASSUME NEW c, NEW s, NEW t, NEW r \in Nat, CopyOf(c, s, r), NewVersion(s, t, r)
    PROVE  CopyOf(c, t, r + 1)
  BY DEF CopyOf, NewVersion, Numbered, FlagsOnlyRise, SameVersionSameSession, GuardedStays

LEMMA CreateKeepsCopies ==
    ASSUME NEW c, NEW t, NEW r \in Nat, CopyOf(c, Nil, r),
           t.uid = r + 1, t.rv = r + 1
    PROVE  CopyOf(c, t, r + 1)
  BY DEF CopyOf, Numbered, FlagsOnlyRise, SameVersionSameSession, GuardedStays

LEMMA RemovalKeepsCopies ==
    ASSUME NEW c, NEW s, NEW r \in Nat, CopyOf(c, s, r),
           c # Nil /\ c.fin => c.deleting
    PROVE  CopyOf(c, Nil, r + 1)
  BY DEF CopyOf, Numbered, FlagsOnlyRise, SameVersionSameSession, GuardedStays

LEMMA NilIsACopy == ASSUME NEW s, NEW r PROVE CopyOf(Nil, s, r)
  BY DEF CopyOf, Numbered, FlagsOnlyRise, SameVersionSameSession, GuardedStays

(* A fresh copy, with or without the defaults, is a copy. *)
LEMMA FreshCopy ==
    ASSUME NEW s, NEW r \in Nat, Numbered(s, r)
    PROVE  CopyOf(s, s, r)
  BY DEF CopyOf, Numbered, FlagsOnlyRise, SameVersionSameSession, GuardedStays

(* Only uid, rv, the two flags and the defaulted spec of a copy matter. *)
LEMMA LikeCopy ==
    ASSUME NEW c, NEW d, NEW s, NEW r, CopyOf(c, s, r), c # Nil,
           d.uid = c.uid, d.rv = c.rv, d.fin = c.fin, d.deleting = c.deleting,
           applyDefaults(d.spec) = applyDefaults(c.spec)
    PROVE  CopyOf(d, s, r)
  BY DEF CopyOf, Numbered, FlagsOnlyRise, SameVersionSameSession, GuardedStays

(* The Session the worker may write is the one it read. *)
LEMMA CurrentIsSame ==
    ASSUME CopyOf(work, sess, rev), work # Nil, Current
    PROVE  /\ work.uid = sess.uid
           /\ work.deleting = sess.deleting
           /\ applyDefaults(work.spec) = applyDefaults(sess.spec)
  BY DEF Current, CopyOf, SameVersionSameSession

(* What Store does when it is handed another version of sess. *)
LEMMA StoreWrites ==
    ASSUME TypeOK, sess # Nil, NEW new \in SessionsWith(Specs), Store(new)
    PROVE  \/ UNCHANGED <<sess, rev>> /\ sess = new
           \/ /\ rev' = rev + 1
              /\ sess' # Nil
              /\ sess'.rv = rev + 1
              /\ sess'.uid = new.uid
              /\ sess'.fin = new.fin
              /\ sess'.deleting = new.deleting
              /\ sess'.spec = new.spec
              /\ sess'.status = new.status
  <1>1. CASE new = sess
    BY <1>1 DEF Store
  <1>2. CASE new # sess
    <2>1. rev' = rev + 1 /\ sess' = [new EXCEPT !.rv = rev + 1] /\ rev + 1 \in Nat
      BY <1>2 DEF Store, TypeOK, StoreTypeOK
    <2>2. sess' \in SessionsWith(Specs)
      BY <2>1 DEF SessionsWith
    <2> QED BY <2>1, <2>2, NilAssumption DEF SessionsWith
  <1> QED BY <1>1, <1>2

-----------------------------------------------------------------------------
(* The inductive invariant. *)

LEMMA InitIInv == Init => IInv
  <1> SUFFICES ASSUME Init PROVE IInv
    OBVIOUS
  <1>1. TypeOK
    BY InitTypeOK
  <1>2. sess = Nil /\ cachedSess = Nil /\ work = Nil /\ pc = "idle"
    BY DEF Init
  <1>3. StoredInv
    BY <1>2 DEF Init, StoredInv, Numbered, OwnersArePast
  <1>4. FinalizerGuardsChildren /\ NeverForgotten /\ WorkerInv
    BY <1>2 DEF FinalizerGuardsChildren, NeverForgotten, WorkerInv
  <1> QED BY <1>1, <1>2, <1>3, <1>4, NilIsACopy DEF IInv

(* Steps that leave the Session, its copies and the worker alone, and do   *)
(* not give a child another owner.                                         *)
LEMMA BystandersKeepIInv ==
    ASSUME IInv, TypeOK', UNCHANGED <<sess, rev, cachedSess, work, pc>>,
           \A k \in Kinds : kids'[k] # Nil => kids[k] # Nil /\ kids'[k].owner = kids[k].owner,
           queued => queued', delayed => delayed' \/ queued'
    PROVE  IInv'
  <1>1. StoredInv'
    BY DEF IInv, StoredInv, Numbered, OwnersArePast
  <1>2. FinalizerGuardsChildren'
    BY DEF IInv, FinalizerGuardsChildren
  <1>3. NeverForgotten'
    BY DEF IInv, NeverForgotten
  <1>4. CopyOf(cachedSess, sess, rev)' /\ CopyOf(work, sess, rev)' /\ WorkerInv'
    BY DEF IInv, WorkerInv, CopyOf, Numbered, FlagsOnlyRise, SameVersionSameSession, GuardedStays
  <1> QED BY <1>1, <1>2, <1>3, <1>4 DEF IInv

LEMMA ClusterKeepsIInv ==
    ASSUME IInv, TypeOK', \/ \E k \in Kinds : Collect(k) \/ Drift(k)
                          \/ Readiness \/ ScaledDown
    PROVE  IInv'
  <1>1. UNCHANGED <<sess, rev, cachedSess, work, pc, queued, delayed>>
    BY DEF Collect, Drift, Readiness, ScaledDown, cache, queue, worker
  <1>2. ASSUME NEW k \in Kinds, kids'[k] # Nil
        PROVE  kids[k] # Nil /\ kids'[k].owner = kids[k].owner
    <2>1. /\ kids = [j \in Kinds |-> kids[j]]
          /\ kids["dep"] # Nil => kids["dep"] \in Children("dep")
      BY DEF IInv, TypeOK, StoreTypeOK, Kinds
    <2>2. CASE \E j \in Kinds : Collect(j) \/ Drift(j)
      BY <1>2, <2>1, <2>2 DEF Collect, Drift
    <2>3. CASE Readiness \/ ScaledDown
      BY <1>2, <2>1, <2>3 DEF Readiness, ScaledDown, Children
    <2> QED BY <2>2, <2>3
  <1> QED BY <1>1, <1>2, BystandersKeepIInv

(* A write of the Session that is neither its creation nor its end, by a   *)
(* user or by the worker.                                                  *)
LEMMA WritesKeepTheStore ==
    ASSUME IInv, NewVersion(sess, sess', rev), rev' = rev + 1, UNCHANGED <<kids, cachedSess>>,
           sess.fin => sess'.fin
    PROVE  /\ StoredInv'
           /\ CopyOf(cachedSess, sess, rev)'
           /\ FinalizerGuardsChildren'
           /\ NeverForgotten'
  <1>1. rev \in Nat
    BY DEF IInv, TypeOK, StoreTypeOK
  <1>2. StoredInv'
    BY <1>1 DEF IInv, StoredInv, Numbered, OwnersArePast, NewVersion
  <1>3. CopyOf(cachedSess, sess, rev)'
    BY <1>1, WriteKeepsCopies DEF IInv
  <1>4. FinalizerGuardsChildren'
    BY DEF IInv, FinalizerGuardsChildren, NewVersion
  <1>5. NeverForgotten'
    <2>1. cachedSess # Nil => cachedSess.rv <= rev
      BY <1>1 DEF IInv, CopyOf, Numbered
    <2> QED BY <1>1, <2>1 DEF NeverForgotten, NewVersion
  <1> QED BY <1>2, <1>3, <1>4, <1>5

LEMMA UsersKeepIInv ==
    ASSUME IInv, TypeOK', Create \/ Edit \/ Delete
    PROVE  IInv'
  <1>1. /\ TypeOK /\ rev \in Nat
        /\ UNCHANGED <<kids, cachedSess, queued, delayed, pc, work>>
        /\ CopyOf(cachedSess, sess, rev) /\ CopyOf(work, sess, rev)
    BY DEF IInv, TypeOK, StoreTypeOK, Create, Edit, Delete, cache, queue, worker
  <1>2. WorkerInv'
    BY <1>1 DEF IInv, WorkerInv
  <1>3. CASE Create
    <2>1. /\ sess = Nil /\ sess'.uid = rev + 1 /\ sess'.rv = rev + 1
          /\ ~sess'.deleting /\ rev' = rev + 1
      BY <1>3 DEF Create
    <2>2. CopyOf(cachedSess, sess, rev)' /\ CopyOf(work, sess, rev)'
      BY <1>1, <2>1, CreateKeepsCopies
    <2>3. StoredInv' /\ FinalizerGuardsChildren'
      BY <1>1, <2>1 DEF IInv, StoredInv, Numbered, OwnersArePast, FinalizerGuardsChildren
    <2>4. NeverForgotten'
      BY <1>1, <2>1 DEF NeverForgotten, CopyOf, Numbered
    <2> QED BY <1>2, <2>2, <2>3, <2>4 DEF IInv
  <1>4. ASSUME NewVersion(sess, sess', rev), rev' = rev + 1 PROVE IInv'
    <2>1. CopyOf(work, sess, rev)'
      BY <1>1, <1>4, WriteKeepsCopies
    <2>2. sess.fin => sess'.fin
      BY <1>4 DEF NewVersion
    <2> QED BY <1>1, <1>2, <1>4, <2>1, <2>2, WritesKeepTheStore DEF IInv
  <1>5. CASE Edit
    <2>1. PICK s \in UserSpecs[env.scenario] : s # sess.spec /\ Store([sess EXCEPT !.spec = s])
      BY <1>5 DEF Edit
    <2> DEFINE new == [sess EXCEPT !.spec = s]
    <2>2. sess # Nil /\ sess \in SessionsWith(Specs)
      BY <1>1, <1>5 DEF Edit, TypeOK, StoreTypeOK
    <2>3. /\ new \in SessionsWith(Specs) /\ new # sess
          /\ new.uid = sess.uid /\ new.fin = sess.fin /\ new.deleting = sess.deleting
      BY <1>1, <2>1, <2>2, GivenSpecs DEF SessionsWith
    <2>4. NewVersion(sess, sess', rev) /\ rev' = rev + 1
      BY <1>1, <2>1, <2>2, <2>3, StoreWrites DEF NewVersion, IInv, StoredInv
    <2> QED BY <1>4, <2>4
  <1>6. CASE Delete
    <2>1. sess # Nil /\ sess \in SessionsWith(Specs) /\ ~sess.deleting
      BY <1>1, <1>6 DEF Delete, TypeOK, StoreTypeOK
    <2>2. CASE sess.fin
      <3> DEFINE new == [sess EXCEPT !.deleting = TRUE]
      <3>1. /\ new \in SessionsWith(Specs) /\ new # sess
            /\ new.uid = sess.uid /\ new.fin = sess.fin
        BY <2>1 DEF SessionsWith
      <3>2. NewVersion(sess, sess', rev) /\ rev' = rev + 1
        BY <1>1, <1>6, <2>1, <2>2, <3>1, StoreWrites DEF NewVersion, Delete
      <3> QED BY <1>4, <3>2
    <2>3. CASE ~sess.fin
      <3>1. sess' = Nil /\ rev' = rev + 1
        BY <1>6, <2>3 DEF Delete
      <3>2. ASSUME NEW c, CopyOf(c, sess, rev) PROVE CopyOf(c, Nil, rev + 1)
        <4>1. c # Nil /\ c.fin => c.deleting
          BY <2>1, <2>3, <3>2 DEF CopyOf, FlagsOnlyRise, GuardedStays
        <4> QED BY <1>1, <3>2, <4>1, RemovalKeepsCopies
      <3>3. CopyOf(cachedSess, sess, rev)' /\ CopyOf(work, sess, rev)'
        BY <1>1, <3>1, <3>2
      <3>4. StoredInv' /\ FinalizerGuardsChildren' /\ NeverForgotten'
        BY <1>1, <3>1 DEF IInv, StoredInv, Numbered, OwnersArePast, FinalizerGuardsChildren, NeverForgotten
      <3> QED BY <1>2, <3>3, <3>4 DEF IInv
    <2> QED BY <2>2, <2>3
  <1> QED BY <1>3, <1>5, <1>6

LEMMA InformersKeepIInv ==
    ASSUME IInv, TypeOK', Informers
    PROVE  IInv'
  <1>1. CASE SyncSession
    <2>1. /\ UNCHANGED <<sess, kids, rev, pc, work>>
          /\ cachedSess' = sess /\ queued' /\ rev \in Nat
      BY <1>1 DEF SyncSession, store, worker, IInv, TypeOK, StoreTypeOK
    <2>2. StoredInv' /\ FinalizerGuardsChildren' /\ NeverForgotten'
      BY <2>1 DEF IInv, StoredInv, OwnersArePast, FinalizerGuardsChildren, NeverForgotten
    <2>3. CopyOf(cachedSess, sess, rev)'
      BY <2>1, FreshCopy DEF IInv, StoredInv
    <2>4. CopyOf(work, sess, rev)'
      BY <2>1 DEF IInv
    <2>5. WorkerInv'
      BY <2>1 DEF IInv, WorkerInv, CopyOf, FlagsOnlyRise, TypeOK, WorkerTypeOK
    <2> QED BY <2>2, <2>3, <2>4, <2>5 DEF IInv
  <1>2. CASE (\E k \in Watched : SyncChild(k)) \/ DelayOver
    <2>1. UNCHANGED <<sess, kids, rev, cachedSess, work, pc>> /\ queued' = TRUE
      BY <1>2 DEF SyncChild, DelayOver, store, cache, worker
    <2> QED BY <2>1, BystandersKeepIInv
  <1> QED BY <1>1, <1>2 DEF Informers

LEMMA RestartKeepsIInv ==
    ASSUME IInv, TypeOK', Restart
    PROVE  IInv'
  <1>1. /\ UNCHANGED <<sess, kids, rev>> /\ cachedSess' = sess /\ rev \in Nat
        /\ pc' = "idle" /\ work' = Nil /\ (sess # Nil => queued')
    BY DEF Restart, Idle, store, IInv, TypeOK, StoreTypeOK
  <1>2. StoredInv' /\ FinalizerGuardsChildren' /\ NeverForgotten' /\ WorkerInv'
    BY <1>1 DEF IInv, StoredInv, OwnersArePast, FinalizerGuardsChildren, NeverForgotten, WorkerInv
  <1>3. CopyOf(cachedSess, sess, rev)' /\ CopyOf(work, sess, rev)'
    BY <1>1, FreshCopy, NilIsACopy DEF IInv, StoredInv
  <1> QED BY <1>2, <1>3 DEF IInv

LEMMA StartKeepsIInv ==
    ASSUME IInv, TypeOK', StartReconcile
    PROVE  IInv'
  <1>1. UNCHANGED <<sess, kids, rev, cachedSess, delayed>> /\ TypeOK /\ rev \in Nat
    BY DEF StartReconcile, store, cache, IInv, TypeOK, StoreTypeOK
  <1>2. StoredInv' /\ FinalizerGuardsChildren' /\ CopyOf(cachedSess, sess, rev)'
    BY <1>1 DEF IInv, StoredInv, OwnersArePast, FinalizerGuardsChildren
  <1>3. CASE cachedSess = Nil
    <2>1. UNCHANGED <<pc, work>>
      BY <1>3 DEF StartReconcile, worker
    <2>2. NeverForgotten' /\ CopyOf(work, sess, rev)' /\ WorkerInv'
      BY <1>1, <1>3, <2>1 DEF IInv, NeverForgotten, WorkerInv
    <2> QED BY <1>2, <2>2 DEF IInv
  <1>4. CASE cachedSess # Nil
    <2>1. cachedSess \in SessionsWith(Specs) /\ cachedSess.spec \in Specs
      BY <1>1, <1>4 DEF TypeOK, CacheTypeOK, SessionsWith
    <2>2. pc' = "finalizer" /\ work' = [cachedSess EXCEPT !.spec = applyDefaults(cachedSess.spec)]
      BY <1>4 DEF StartReconcile
    <2>3. /\ work'.uid = cachedSess.uid /\ work'.rv = cachedSess.rv
          /\ work'.fin = cachedSess.fin /\ work'.deleting = cachedSess.deleting
          /\ work'.spec = applyDefaults(cachedSess.spec)
      BY <2>1, <2>2 DEF SessionsWith
    <2>4. applyDefaults(work'.spec) = applyDefaults(cachedSess.spec)
      BY <2>1, <2>3, DefaultsComplete
    <2>5. CopyOf(work', sess, rev)
      BY <1>4, <2>3, <2>4, LikeCopy DEF IInv
    <2>6. CopyOf(work, sess, rev)'
      BY <1>1, <2>5
    <2>7. NeverForgotten' /\ WorkerInv'
      BY <1>1, <2>2, <2>3 DEF NeverForgotten, WorkerInv
    <2> QED BY <1>2, <2>6, <2>7 DEF IInv
  <1> QED BY <1>3, <1>4

LEMMA FailMarks ==
    ASSUME work \in SessionsWith(FullSpecs), NEW k \in Kinds, Fail(k)
    PROVE  /\ work'.uid = work.uid /\ work'.rv = work.rv /\ work'.fin = work.fin
           /\ work'.deleting = work.deleting /\ work'.spec = work.spec
           /\ work'.status.phase = "Error"
  <1>1. work' = [work EXCEPT !.status = [work.status EXCEPT !.phase = "Error", !.reason = k]]
    BY DEF Fail, SessionsWith
  <1>2. work'.status = [work.status EXCEPT !.phase = "Error", !.reason = k]
    BY <1>1 DEF SessionsWith
  <1>3. work.status \in Status
    BY DEF SessionsWith
  <1>4. work'.status.phase = "Error"
    BY <1>2, <1>3 DEF Status
  <1> QED BY <1>1, <1>4 DEF SessionsWith

(* Steps of the worker that write nothing to the Session and go on, fail,  *)
(* or end with a delayed add.                                              *)
LEMMA QuietWorkerKeepsIInv ==
    ASSUME IInv, TypeOK', UNCHANGED <<sess, rev, kids, cachedSess>>, pc # "idle",
           \/ Requeue
           \/ /\ pc' \notin {"idle", "finalizer"}
              /\ (work' = work /\ pc' # "fail") \/ (\E k \in Kinds : Fail(k))
              /\ work.fin /\ ~work.deleting
    PROVE  IInv'
  <1>1. TypeOK /\ work # Nil /\ work \in SessionsWith(FullSpecs) /\ CopyOf(work, sess, rev)
    BY WorkIsSession DEF IInv
  <1>2. StoredInv' /\ FinalizerGuardsChildren' /\ CopyOf(cachedSess, sess, rev)'
    BY DEF IInv, StoredInv, OwnersArePast, FinalizerGuardsChildren
  <1>3. CASE Requeue
    <2>1. pc' = "idle" /\ work' = Nil /\ delayed'
      BY <1>3 DEF Requeue, Idle
    <2>2. NeverForgotten' /\ WorkerInv' /\ CopyOf(work, sess, rev)'
      BY <2>1, NilIsACopy DEF NeverForgotten, WorkerInv
    <2> QED BY <1>2, <2>2 DEF IInv
  <1>4. CASE ~Requeue
    <2>1. /\ work'.uid = work.uid /\ work'.rv = work.rv /\ work'.fin = work.fin
          /\ work'.deleting = work.deleting /\ work'.spec = work.spec
          /\ pc' = "fail" => work'.status.phase = "Error"
      BY <1>1, <1>4, FailMarks
    <2>2. CopyOf(work', sess, rev)
      BY <1>1, <2>1, LikeCopy
    <2>3. CopyOf(work, sess, rev)'
      BY <2>2
    <2>4. NeverForgotten' /\ WorkerInv'
      BY <1>4, <2>1 DEF NeverForgotten, WorkerInv
    <2> QED BY <1>2, <2>3, <2>4 DEF IInv
  <1> QED BY <1>3, <1>4

LEMMA readsKeepIInv ==
    ASSUME IInv, TypeOK', getDeployment \/ getService
    PROVE  IInv'
  <1>1. UNCHANGED <<sess, rev, kids, cachedSess>> /\ pc \notin {"idle", "finalizer"}
    BY DEF getDeployment, getService, store, cache
  <1>2. work.fin /\ ~work.deleting
    BY <1>1 DEF IInv, WorkerInv
  <1>3. pc' \notin {"idle", "finalizer"} /\ ((work' = work /\ pc' # "fail") \/ \E k \in Kinds : Fail(k))
    BY DEF getDeployment, getService, Fail, Goto, Kinds
  <1> QED BY <1>1, <1>2, <1>3, QuietWorkerKeepsIInv

LEMMA CallFailsKeepsIInv ==
    ASSUME IInv, TypeOK', CallFails
    PROVE  IInv'
  <1>1. UNCHANGED <<sess, rev, kids, cachedSess>> /\ pc # "idle"
    BY DEF CallFails, store, cache, Kinds
  <1>2. CASE Requeue
    BY <1>1, <1>2, QuietWorkerKeepsIInv
  <1>3. CASE ~Requeue
    <2>1. PICK k \in Kinds : pc = k /\ Fail(k)
      BY <1>3 DEF CallFails
    <2>2. work.fin /\ ~work.deleting /\ pc' = "fail"
      BY <2>1 DEF IInv, WorkerInv, Kinds, Fail
    <2> QED BY <1>1, <2>1, <2>2, QuietWorkerKeepsIInv
  <1> QED BY <1>2, <1>3

(* What the worker relies on among the children. *)
LEMMA WorkerIsGuarded ==
    ASSUME IInv, pc \notin {"idle", "finalizer"}
    PROVE  sess # Nil /\ sess.uid = work.uid /\ sess.fin
  <1>1. work # Nil /\ CopyOf(work, sess, rev)
    BY WorkIsSession DEF IInv
  <1> QED BY <1>1 DEF IInv, WorkerInv, CopyOf, GuardedStays, FlagsOnlyRise

LEMMA reconcileChildKeepsIInv ==
    ASSUME IInv, TypeOK', NEW k \in Kinds, reconcileChild(k)
    PROVE  IInv'
  <1>1. UNCHANGED <<sess, rev, cachedSess, queued, delayed>> /\ pc \notin {"idle", "finalizer"}
    BY DEF reconcileChild, cache, queue, Kinds
  <1>2. work.fin /\ ~work.deleting /\ sess # Nil /\ sess.uid = work.uid /\ sess.fin
    BY <1>1, WorkerIsGuarded DEF IInv, WorkerInv
  <1>3. pc' \notin {"idle", "finalizer"} /\ ((work' = work /\ pc' # "fail") \/ Fail(k))
    <2>1. Goto(After[k]) \/ Fail(k)
      BY DEF reconcileChild
    <2>2. After[k] \notin {"idle", "finalizer", "fail"}
      BY DEF After, Kinds
    <2> QED BY <2>1, <2>2 DEF Fail, Goto
  <1>4. CASE UNCHANGED kids
    BY <1>1, <1>2, <1>3, <1>4, QuietWorkerKeepsIInv
  <1>5. CASE ~UNCHANGED kids
    <2>1. kids' = [kids EXCEPT ![k] = Applied(k)] /\ Applied(k).owner = sess.uid
      BY <1>2, <1>5 DEF reconcileChild, Applied
    <2>2. sess.uid \in 1..rev /\ kids = [j \in Kinds |-> kids[j]]
      BY <1>2 DEF IInv, StoredInv, Numbered, TypeOK, StoreTypeOK
    <2>3. OwnersArePast'
      BY <1>1, <1>2, <2>1, <2>2 DEF IInv, StoredInv, OwnersArePast, TypeOK, StoreTypeOK
    <2>4. StoredInv' /\ FinalizerGuardsChildren' /\ CopyOf(cachedSess, sess, rev)'
      BY <1>1, <1>2, <2>3 DEF IInv, StoredInv, FinalizerGuardsChildren
    <2>5. NeverForgotten'
      BY <1>3 DEF NeverForgotten
    <2>6. work # Nil /\ work \in SessionsWith(FullSpecs) /\ CopyOf(work, sess, rev)
      BY <1>1, WorkIsSession DEF IInv
    <2>7. /\ work'.uid = work.uid /\ work'.rv = work.rv /\ work'.fin = work.fin
          /\ work'.deleting = work.deleting /\ work'.spec = work.spec
          /\ pc' = "fail" => work'.status.phase = "Error"
      BY <1>3, <2>6, FailMarks
    <2>8. CopyOf(work', sess, rev)
      BY <2>6, <2>7, LikeCopy
    <2>9. CopyOf(work, sess, rev)' /\ WorkerInv'
      BY <1>1, <1>2, <1>3, <2>7, <2>8 DEF WorkerInv
    <2> QED BY <2>4, <2>5, <2>9 DEF IInv
  <1> QED BY <1>4, <1>5

LEMMA handleDeleteKeepsIInv ==
    ASSUME IInv, TypeOK', handleDelete
    PROVE  IInv'
  <1>1. /\ TypeOK /\ rev \in Nat /\ pc = "finalizer" /\ work.deleting
        /\ UNCHANGED <<kids, cachedSess>>
        /\ pc' = "idle" /\ work' = Nil
    BY DEF IInv, TypeOK, StoreTypeOK, handleDelete, Requeue, Idle, cache
  <1>2. work # Nil /\ CopyOf(work, sess, rev)
    BY <1>1, WorkIsSession DEF IInv
  <1>3. CASE Current
    <2>1. sess # Nil /\ sess' = Nil /\ rev' = rev + 1 /\ sess.uid = work.uid
      BY <1>2, <1>3, CurrentIsSame DEF handleDelete, Current
    <2>2. cachedSess # Nil /\ cachedSess.fin => cachedSess.deleting
      <3> SUFFICES ASSUME cachedSess # Nil, cachedSess.fin, ~cachedSess.deleting PROVE FALSE
        OBVIOUS
      <3>1. cachedSess.uid = sess.uid
        BY DEF IInv, CopyOf, GuardedStays
      <3>2. cachedSess.deleting
        BY <1>1, <2>1, <3>1 DEF IInv, WorkerInv
      <3> QED BY <3>2
    <2>3. CopyOf(cachedSess, sess, rev) => CopyOf(cachedSess, Nil, rev + 1)
      BY <1>1, <2>2, RemovalKeepsCopies
    <2>4. CopyOf(cachedSess, sess, rev)' /\ CopyOf(work, sess, rev)'
      BY <1>1, <2>1, <2>3, NilIsACopy DEF IInv
    <2>5. StoredInv' /\ FinalizerGuardsChildren' /\ NeverForgotten' /\ WorkerInv'
      BY <1>1, <2>1 DEF IInv, StoredInv, Numbered, OwnersArePast, FinalizerGuardsChildren, NeverForgotten, WorkerInv
    <2> QED BY <2>4, <2>5 DEF IInv
  <1>4. CASE ~Current
    <2>1. UNCHANGED <<sess, rev>> /\ Requeue
      BY <1>4 DEF handleDelete
    <2> QED BY <1>1, <2>1, QuietWorkerKeepsIInv
  <1> QED BY <1>3, <1>4

LEMMA ensureFinalizerKeepsIInv ==
    ASSUME IInv, TypeOK', ensureFinalizer
    PROVE  IInv'
  <1>1. /\ TypeOK /\ rev \in Nat /\ pc = "finalizer" /\ ~work.deleting
        /\ UNCHANGED <<kids, cachedSess>>
    BY DEF IInv, TypeOK, StoreTypeOK, ensureFinalizer, cache
  <1>2. work # Nil /\ work \in SessionsWith(FullSpecs) /\ CopyOf(work, sess, rev)
    BY <1>1, WorkIsSession DEF IInv
  <1>3. CASE work.fin
    BY <1>1, <1>3, QuietWorkerKeepsIInv DEF ensureFinalizer, Goto
  <1>4. CASE ~work.fin /\ ~Current
    BY <1>1, <1>4, QuietWorkerKeepsIInv DEF ensureFinalizer
  <1>5. CASE ~work.fin /\ Current
    <2> DEFINE new == [sess EXCEPT !.fin = TRUE, !.spec = work.spec]
    <2>1. sess # Nil /\ sess \in SessionsWith(Specs) /\ ~sess.deleting
      BY <1>1, <1>2, <1>5, CurrentIsSame DEF Current, TypeOK, StoreTypeOK
    <2>2. /\ new \in SessionsWith(Specs) /\ new.uid = sess.uid
          /\ new.fin /\ ~new.deleting /\ new.spec = work.spec
      BY <1>2, <2>1 DEF SessionsWith, FullSpecs
    <2>3. Store(new)
      BY <1>5 DEF ensureFinalizer
    <2>4. /\ sess' # Nil /\ sess'.uid = sess.uid /\ sess'.fin /\ ~sess'.deleting
          /\ \/ UNCHANGED <<sess, rev>>
             \/ rev' = rev + 1 /\ NewVersion(sess, sess', rev)
      BY <1>1, <2>1, <2>2, <2>3, StoreWrites DEF NewVersion
    <2>5. /\ StoredInv' /\ CopyOf(cachedSess, sess, rev)'
          /\ FinalizerGuardsChildren'
      <3>1. CASE UNCHANGED <<sess, rev>>
        BY <1>1, <3>1 DEF IInv, StoredInv, OwnersArePast, FinalizerGuardsChildren
      <3>2. CASE rev' = rev + 1 /\ NewVersion(sess, sess', rev)
        BY <1>1, <2>4, <3>2, WritesKeepTheStore
      <3> QED BY <2>4, <3>1, <3>2
    <2>6. CASE Requeue
      BY <2>5, <2>6, NilIsACopy DEF Requeue, Idle, IInv, NeverForgotten, WorkerInv
    <2>7. CASE pc' = "sa" /\ work' = sess'
      <3>1. CopyOf(sess', sess', rev')
        <4>1. rev' \in Nat /\ Numbered(sess', rev')
          BY <2>5 DEF StoredInv, TypeOK, StoreTypeOK
        <4> QED BY <4>1, FreshCopy
      <3>2. NeverForgotten' /\ WorkerInv' /\ CopyOf(work, sess, rev)'
        BY <2>4, <2>7, <3>1 DEF NeverForgotten, WorkerInv
      <3> QED BY <2>5, <3>2 DEF IInv
    <2> QED BY <1>5, <2>6, <2>7 DEF ensureFinalizer
  <1> QED BY <1>3, <1>4, <1>5

(* What a status write does to the Session. *)
LEMMA StatusWrites ==
    ASSUME IInv, NEW st \in Status, WriteStatus(st)
    PROVE  \/ UNCHANGED <<sess, rev>>
           \/ /\ Current
              /\ rev' = rev + 1
              /\ NewVersion(sess, sess', rev)
              /\ sess'.fin = sess.fin /\ sess'.deleting = sess.deleting
              /\ sess'.spec = sess.spec
              /\ sess'.status = st
  <1>1. CASE Current
    <2> DEFINE new == [sess EXCEPT !.status = st]
    <2>1. TypeOK /\ sess # Nil /\ sess \in SessionsWith(Specs)
      BY <1>1 DEF Current, IInv, TypeOK, StoreTypeOK
    <2>2. /\ new \in SessionsWith(Specs) /\ new.uid = sess.uid /\ new.fin = sess.fin
          /\ new.deleting = sess.deleting /\ new.spec = sess.spec /\ new.status = st
      BY <2>1 DEF SessionsWith
    <2>3. Store(new)
      BY <1>1 DEF WriteStatus
    <2> QED BY <1>1, <2>1, <2>2, <2>3, StoreWrites DEF NewVersion, IInv, StoredInv
  <1>2. CASE ~Current
    BY <1>2 DEF WriteStatus
  <1> QED BY <1>1, <1>2

(* The status the worker is about to write has its type. *)
LEMMA StatusIsTyped ==
    ASSUME IInv, updateStatus \/ failStatus
    PROVE  \E st \in Status : WriteStatus(st) /\ (updateStatus => st.url = work.spec.host)
                              /\ (failStatus => st = work.status)
  <1>1. work.status \in Status /\ work.spec \in FullSpecs
    BY WorkIsSession DEF updateStatus, failStatus, SessionsWith, IInv
  <1>2. CASE updateStatus
    <2>1. work.spec.host \in {Nil} \cup Hosts /\ work.status.reason \in {Nil} \cup Kinds
      BY <1>1 DEF FullSpecs, Specs, Status
    <2> QED BY <1>2, <2>1 DEF updateStatus, failStatus, Status
  <1>3. CASE failStatus
    BY <1>1, <1>3 DEF failStatus, updateStatus
  <1> QED BY <1>2, <1>3

LEMMA statusKeepsIInv ==
    ASSUME IInv, TypeOK', updateStatus \/ failStatus
    PROVE  IInv'
  <1>1. UNCHANGED <<kids, cachedSess>> /\ Requeue /\ pc # "idle"
    BY DEF updateStatus, failStatus, cache
  <1>2. \/ UNCHANGED <<sess, rev>>
        \/ rev' = rev + 1 /\ NewVersion(sess, sess', rev)
    BY StatusIsTyped, StatusWrites
  <1>3. CASE UNCHANGED <<sess, rev>>
    BY <1>1, <1>3, QuietWorkerKeepsIInv
  <1>4. CASE rev' = rev + 1 /\ NewVersion(sess, sess', rev)
    <2>1. /\ StoredInv' /\ CopyOf(cachedSess, sess, rev)'
          /\ FinalizerGuardsChildren' /\ NeverForgotten'
      BY <1>1, <1>4, WritesKeepTheStore DEF NewVersion
    <2> QED BY <1>1, <2>1, NilIsACopy DEF Requeue, Idle, IInv, WorkerInv
  <1> QED BY <1>2, <1>3, <1>4

LEMMA IInvStep == IInv /\ [Next]_vars => IInv'
  <1> SUFFICES ASSUME IInv, [Next]_vars PROVE IInv'
    OBVIOUS
  <1>1. TypeOK'
    BY TypeStep DEF IInv
  <1>2. CASE Controller
    BY <1>1, <1>2, StartKeepsIInv, handleDeleteKeepsIInv, ensureFinalizerKeepsIInv,
       reconcileChildKeepsIInv, readsKeepIInv, statusKeepsIInv
    DEF Controller
  <1>3. CASE Informers
    BY <1>1, <1>3, InformersKeepIInv
  <1>4. CASE Environment
    BY <1>1, <1>4, UsersKeepIInv, ClusterKeepsIInv, CallFailsKeepsIInv, RestartKeepsIInv
    DEF Environment
  <1>5. CASE UNCHANGED vars
    BY <1>1, <1>5, BystandersKeepIInv DEF vars
  <1> QED BY <1>2, <1>3, <1>4, <1>5 DEF Next

(* The inductive invariant holds. *)
THEOREM Invariance == Safety => []IInv
  BY InitIInv, IInvStep, PTL DEF Safety

-----------------------------------------------------------------------------
(* The safety properties. *)

(* Reconcile never touches a child on behalf of a Session that is gone or  *)
(* that has no finalizer.                                                  *)
THEOREM WorkerIsSafe == Safety => []WorkerHoldsLiveSession
  <1>1. IInv => WorkerHoldsLiveSession
    BY WorkerIsGuarded DEF WorkerHoldsLiveSession, Kinds
  <1> QED BY <1>1, Invariance, PTL

(* The finalizer is on the Session before its first child exists. *)
THEOREM FinalizerFirst == Safety => []FinalizerGuardsChildren
  <1>1. IInv => FinalizerGuardsChildren
    BY DEF IInv
  <1> QED BY <1>1, Invariance, PTL

(* No wake-up is lost: not to a crash, a failed call or a lagging informer. *)
THEOREM WakeupsAreKept == Safety => []NeverForgotten
  <1>1. IInv => NeverForgotten
    BY DEF IInv
  <1> QED BY <1>1, Invariance, PTL

(* Every step that leaves an incarnation in place and is no edit of a user *)
(* is one of these.                                                        *)
LEMMA SessionWrites ==
    ASSUME IInv, [Next]_vars, sess # Nil, sess' # Nil, sess' # sess
    PROVE  \/ Edit
           \/ /\ sess'.spec = sess.spec
              /\ sess'.status = sess.status
           \/ /\ sess'.spec = applyDefaults(sess.spec)
              /\ sess'.status = sess.status
           \/ /\ sess'.spec = sess.spec
              /\ Current
              /\ updateStatus => sess'.status.url = work.spec.host
              /\ failStatus => sess'.status.phase = "Error"
              /\ updateStatus \/ failStatus
  <1>1. TypeOK /\ sess \in SessionsWith(Specs)
    BY DEF IInv, TypeOK, StoreTypeOK
  <1>2. CASE Delete
    <2> DEFINE new == [sess EXCEPT !.deleting = TRUE]
    <2>1. new \in SessionsWith(Specs) /\ new.spec = sess.spec /\ new.status = sess.status
      BY <1>1 DEF SessionsWith
    <2>2. Store(new)
      BY <1>2 DEF Delete
    <2> QED BY <1>1, <2>1, <2>2, StoreWrites
  <1>3. CASE ensureFinalizer
    <2> DEFINE new == [sess EXCEPT !.fin = TRUE, !.spec = work.spec]
    <2>1. ~work.fin /\ Current /\ Store(new) /\ pc = "finalizer"
      BY <1>3 DEF ensureFinalizer
    <2>2. work # Nil /\ work \in SessionsWith(FullSpecs) /\ CopyOf(work, sess, rev)
      BY <2>1, WorkIsSession DEF IInv
    <2>3. new \in SessionsWith(Specs) /\ new.spec = work.spec /\ new.status = sess.status
      BY <1>1, <2>2 DEF SessionsWith, FullSpecs
    <2>4. work.spec = applyDefaults(sess.spec)
      <3>1. work.spec \in FullSpecs
        BY <2>2 DEF SessionsWith
      <3> QED BY <2>1, <2>2, <3>1, CurrentIsSame DEF applyDefaults, FullSpecs
    <2> QED BY <1>1, <2>1, <2>3, <2>4, StoreWrites
  <1>4. CASE updateStatus \/ failStatus
    <2>1. PICK st \in Status : WriteStatus(st) /\ (updateStatus => st.url = work.spec.host)
                               /\ (failStatus => st = work.status)
      BY <1>4, StatusIsTyped
    <2>2. Current /\ sess'.spec = sess.spec /\ sess'.status = st
      BY <2>1, StatusWrites
    <2>3. failStatus => work.status.phase = "Error"
      BY DEF IInv, WorkerInv, failStatus
    <2> QED BY <1>4, <2>1, <2>2, <2>3
  <1>5. CASE handleDelete
    BY <1>5 DEF handleDelete
  <1>6. CASE \/ StartReconcile \/ getDeployment \/ getService \/ Informers
             \/ \E k \in Kinds : reconcileChild(k) \/ Collect(k) \/ Drift(k)
             \/ Readiness \/ ScaledDown \/ CallFails \/ Restart \/ UNCHANGED vars
    BY <1>6 DEF StartReconcile, getDeployment, getService, Informers, SyncSession,
       SyncChild, DelayOver, reconcileChild, Collect, Drift, Readiness, ScaledDown,
       CallFails, Restart, store, vars
  <1>7. CASE Create
    BY <1>7 DEF Create
  <1> QED BY <1>2, <1>3, <1>4, <1>5, <1>6, <1>7 DEF Next, Controller, Environment

(* The controller takes back no edit. *)
THEOREM EditsAreKept == Safety => NoLostEdit
  <1>1. ASSUME IInv, [Next]_vars, sess # Nil, sess' # Nil, sess'.uid = sess.uid,
               env'.left["edit"] = env.left["edit"]
        PROVE  sess'.spec \in {sess.spec, applyDefaults(sess.spec)}
    <2>1. ~Edit
      <3> SUFFICES ASSUME Edit PROVE FALSE
        OBVIOUS
      <3>1. /\ env \in Env /\ "edit" \in BudgetKinds
            /\ env' = [env EXCEPT !.left["edit"] = env.left["edit"] - 1]
        BY <1>1 DEF IInv, TypeOK, BudgetKinds, Edit, Spend
      <3>2. env.left["edit"] \in Nat /\ env'.left["edit"] = env.left["edit"] - 1
        BY <3>1 DEF Env
      <3> QED BY <1>1, <3>2
    <2> QED BY <1>1, <2>1, SessionWrites
  <1>2. IInv /\ [Next]_vars =>
          [(/\ sess # Nil /\ sess' # Nil /\ sess'.uid = sess.uid
            /\ env'.left["edit"] = env.left["edit"])
           => sess'.spec \in {sess.spec, applyDefaults(sess.spec)}]_vars
    BY <1>1
  <1> QED BY <1>2, Invariance, PTL DEF Safety, NoLostEdit

(* A Ready or Pending status is about the spec beside it. *)
THEOREM StatusIsHonest == Safety => StatusDescribesSpec
  <1>1. ASSUME IInv, [Next]_vars, sess # Nil, sess' # Nil, sess'.status # sess.status,
               sess'.status.phase \in {"Ready", "Pending"}
        PROVE  sess'.status.url = sess'.spec.host
    <2>1. ~Edit
      <3> SUFFICES ASSUME Edit PROVE FALSE
        OBVIOUS
      <3>1. PICK s \in UserSpecs[env.scenario] : Store([sess EXCEPT !.spec = s])
        BY DEF Edit
      <3>2. TypeOK /\ sess \in SessionsWith(Specs)
        BY <1>1 DEF IInv, TypeOK, StoreTypeOK
      <3> DEFINE new == [sess EXCEPT !.spec = s]
      <3>3. new \in SessionsWith(Specs) /\ new.status = sess.status
        BY <3>2, GivenSpecs DEF SessionsWith
      <3> QED BY <1>1, <3>1, <3>2, <3>3, StoreWrites
    <2>2. updateStatus /\ Current /\ sess'.spec = sess.spec /\ sess'.status.url = work.spec.host
      BY <1>1, <2>1, SessionWrites
    <2>3. work # Nil /\ work \in SessionsWith(FullSpecs) /\ CopyOf(work, sess, rev)
      BY <1>1, <2>2, WorkIsSession DEF updateStatus, IInv
    <2>4. applyDefaults(work.spec) = applyDefaults(sess.spec)
      BY <2>2, <2>3, CurrentIsSame
    <2>5. work.spec \in Specs /\ sess.spec \in Specs
      BY <1>1, <2>3 DEF SessionsWith, FullSpecs, IInv, TypeOK, StoreTypeOK
    <2>6. work.spec.host = sess.spec.host
      BY <2>4, <2>5, DefaultsComplete
    <2> QED BY <2>2, <2>6
  <1>2. IInv /\ [Next]_vars =>
          [(/\ sess # Nil /\ sess' # Nil /\ sess'.status # sess.status
            /\ sess'.status.phase \in {"Ready", "Pending"})
           => sess'.status.url = sess'.spec.host]_vars
    BY <1>1
  <1> QED BY <1>2, Invariance, PTL DEF Safety, StatusDescribesSpec

-----------------------------------------------------------------------------
(* The controller implements the safety part of SessionLifecycle. *)

LifeUnchanged == UNCHANGED <<lifeCurrent, lifeStage, lifeOwner>>

LEMMA InitMaps == Init => Lifecycle!Init
  BY DEF Init, Lifecycle!Init, lifeCurrent, lifeStage, lifeOwner

LEMMA UsersMap ==
    ASSUME IInv, Create \/ Edit \/ Delete
    PROVE  Lifecycle!Next \/ LifeUnchanged
  <1>1. TypeOK /\ rev \in Nat /\ UNCHANGED kids
    BY DEF IInv, TypeOK, StoreTypeOK, Create, Edit, Delete
  <1>2. lifeOwner' = lifeOwner
    BY <1>1 DEF lifeOwner
  <1>3. CASE Create
    <2>1. /\ sess = Nil /\ sess' # Nil /\ sess'.uid = rev + 1
          /\ ~sess'.fin /\ ~sess'.deleting
      <3>1. PICK s \in UserSpecs[env.scenario] :
              sess' = [ uid |-> rev + 1, rv |-> rev + 1, fin |-> FALSE,
                        deleting |-> FALSE, spec |-> s, status |-> NoStatus ]
        BY <1>3 DEF Create
      <3>2. sess' \in SessionsWith(Specs)
        <4>1. NoStatus \in Status
          BY DEF NoStatus, Status
        <4> QED BY <1>1, <3>1, <4>1, GivenSpecs DEF SessionsWith
      <3> QED BY <1>3, <3>1, <3>2, NilAssumption DEF Create
    <2>2. \A k \in Kinds : lifeOwner[k] < lifeCurrent'
      BY <1>1, <2>1 DEF lifeOwner, lifeCurrent, IInv, StoredInv, OwnersArePast
    <2>3. Lifecycle!Appear
      BY <1>1, <1>2, <2>1, <2>2 DEF Lifecycle!Appear, lifeCurrent, lifeStage
    <2> QED BY <2>3 DEF Lifecycle!Next
  <1>4. CASE Edit
    <2>1. PICK s \in UserSpecs[env.scenario] : Store([sess EXCEPT !.spec = s])
      BY <1>4 DEF Edit
    <2> DEFINE new == [sess EXCEPT !.spec = s]
    <2>2. sess # Nil /\ sess \in SessionsWith(Specs)
      BY <1>1, <1>4 DEF Edit, TypeOK, StoreTypeOK
    <2>3. /\ new \in SessionsWith(Specs) /\ new.uid = sess.uid
          /\ new.fin = sess.fin /\ new.deleting = sess.deleting
      BY <1>1, <2>2, GivenSpecs DEF SessionsWith
    <2>4. sess' # Nil /\ sess'.uid = sess.uid /\ sess'.fin = sess.fin /\ sess'.deleting = sess.deleting
      BY <1>1, <2>1, <2>2, <2>3, StoreWrites
    <2> QED BY <1>2, <2>2, <2>4 DEF LifeUnchanged, lifeCurrent, lifeStage
  <1>5. CASE Delete
    <2>1. sess # Nil /\ sess \in SessionsWith(Specs) /\ ~sess.deleting
      BY <1>1, <1>5 DEF Delete, TypeOK, StoreTypeOK
    <2>2. CASE sess.fin
      <3> DEFINE new == [sess EXCEPT !.deleting = TRUE]
      <3>1. /\ new \in SessionsWith(Specs) /\ new # sess /\ new.uid = sess.uid
            /\ new.deleting
        BY <2>1 DEF SessionsWith
      <3>2. sess' # Nil /\ sess'.uid = sess.uid /\ sess'.deleting
        BY <1>1, <1>5, <2>1, <2>2, <3>1, StoreWrites DEF Delete
      <3>3. Lifecycle!Terminate
        BY <1>2, <2>1, <2>2, <3>2 DEF Lifecycle!Terminate, lifeCurrent, lifeStage
      <3> QED BY <3>3 DEF Lifecycle!Next
    <2>3. CASE ~sess.fin
      <3>1. Lifecycle!Vanish
        BY <1>2, <1>5, <2>1, <2>3 DEF Delete, Lifecycle!Vanish, lifeCurrent, lifeStage
      <3> QED BY <3>1 DEF Lifecycle!Next
    <2> QED BY <2>2, <2>3
  <1> QED BY <1>3, <1>4, <1>5

LEMMA ClusterMaps ==
    ASSUME IInv, \/ \E k \in Kinds : Collect(k) \/ Drift(k)
                 \/ Readiness \/ ScaledDown
    PROVE  Lifecycle!Next \/ LifeUnchanged
  <1>1. /\ UNCHANGED sess
        /\ kids = [j \in Kinds |-> kids[j]]
        /\ "dep" \in Kinds
        /\ kids["dep"] # Nil => kids["dep"] \in Children("dep")
    BY DEF Collect, Drift, Readiness, ScaledDown, IInv, TypeOK, StoreTypeOK, Kinds
  <1>2. lifeCurrent' = lifeCurrent /\ lifeStage' = lifeStage
    BY <1>1 DEF lifeCurrent, lifeStage
  <1>3. CASE \E k \in Kinds : Collect(k) \/ Drift(k)
    <2>1. PICK k \in Kinds : kids[k] # Nil /\ kids' = [kids EXCEPT ![k] = Nil]
      BY <1>3 DEF Collect, Drift
    <2>2. kids[k].owner \in Nat /\ kids[k].owner # 0
      <3>1. rev \in Nat /\ kids[k].owner \in 1..rev
        BY <2>1 DEF IInv, StoredInv, OwnersArePast, TypeOK, StoreTypeOK
      <3> QED BY <3>1
    <2>3. lifeOwner[k] # 0 /\ lifeOwner' = [lifeOwner EXCEPT ![k] = 0]
      BY <1>1, <2>1, <2>2 DEF lifeOwner
    <2>4. Lifecycle!Detach(k)
      BY <1>2, <2>3 DEF Lifecycle!Detach
    <2> QED BY <2>4 DEF Lifecycle!Next
  <1>4. CASE Readiness \/ ScaledDown
    <2>1. /\ kids["dep"] # Nil
          /\ \E r \in BOOLEAN : kids' = [kids EXCEPT !["dep"] = [kids["dep"] EXCEPT !.ready = r]]
      <3>1. CASE Readiness
        <4> DEFINE r == ~kids["dep"].ready
        <4>1. kids["dep"] # Nil /\ r \in BOOLEAN
          BY <1>1, <3>1 DEF Readiness, Children
        <4>2. kids' = [kids EXCEPT !["dep"] = [kids["dep"] EXCEPT !.ready = r]]
          BY <1>1, <3>1 DEF Readiness
        <4> QED BY <4>1, <4>2
      <3>2. CASE ScaledDown
        BY <1>1, <3>2 DEF ScaledDown
      <3> QED BY <1>4, <3>1, <3>2
    <2>2. PICK r \in BOOLEAN : kids' = [kids EXCEPT !["dep"] = [kids["dep"] EXCEPT !.ready = r]]
      BY <2>1
    <2>3. [kids["dep"] EXCEPT !.ready = r] \in Children("dep")
      BY <1>1, <2>1 DEF Children
    <2>4. /\ [kids["dep"] EXCEPT !.ready = r] # Nil
          /\ [kids["dep"] EXCEPT !.ready = r].owner = kids["dep"].owner
      BY <1>1, <2>1, <2>3, NilAssumption DEF Children
    <2>5. \A k \in Kinds : (kids'[k] = Nil <=> kids[k] = Nil)
                           /\ (kids[k] # Nil => kids'[k].owner = kids[k].owner)
      BY <1>1, <2>1, <2>2, <2>4
    <2>6. lifeOwner' = lifeOwner
      BY <2>5 DEF lifeOwner
    <2> QED BY <1>2, <2>6 DEF LifeUnchanged
  <1> QED BY <1>3, <1>4

LEMMA WorkerMaps ==
    ASSUME IInv, handleDelete \/ ensureFinalizer \/ updateStatus \/ failStatus
    PROVE  Lifecycle!Next \/ LifeUnchanged
  <1>1. TypeOK /\ UNCHANGED kids
    BY DEF IInv, handleDelete, ensureFinalizer, updateStatus, failStatus
  <1>2. lifeOwner' = lifeOwner
    BY <1>1 DEF lifeOwner
  <1>3. CASE UNCHANGED sess
    BY <1>2, <1>3 DEF LifeUnchanged, lifeCurrent, lifeStage
  <1>4. CASE handleDelete /\ Current
    <2>1. sess # Nil /\ sess.deleting /\ sess' = Nil
      BY <1>4, CurrentIsSame, WorkIsSession DEF handleDelete, Current, IInv
    <2>2. Lifecycle!Finish
      BY <1>2, <2>1 DEF Lifecycle!Finish, lifeCurrent, lifeStage
    <2> QED BY <2>2 DEF Lifecycle!Next
  <1>5. CASE ensureFinalizer /\ ~work.fin /\ Current
    <2> DEFINE new == [sess EXCEPT !.fin = TRUE, !.spec = work.spec]
    <2>1. work # Nil /\ work \in SessionsWith(FullSpecs) /\ CopyOf(work, sess, rev)
      BY <1>1, <1>5, WorkIsSession DEF ensureFinalizer, IInv
    <2>2. sess # Nil /\ sess \in SessionsWith(Specs) /\ ~sess.deleting
      BY <1>1, <1>5, <2>1, CurrentIsSame DEF ensureFinalizer, Current, TypeOK, StoreTypeOK
    <2>3. new \in SessionsWith(Specs) /\ new.uid = sess.uid /\ new.fin /\ ~new.deleting
      BY <2>1, <2>2 DEF SessionsWith, FullSpecs
    <2>4. Store(new)
      BY <1>5 DEF ensureFinalizer
    <2>5. sess' # Nil /\ sess'.uid = sess.uid /\ sess'.fin /\ ~sess'.deleting
      BY <1>1, <2>2, <2>3, <2>4, StoreWrites
    <2>6. CASE sess.fin
      BY <1>2, <2>2, <2>5, <2>6 DEF LifeUnchanged, lifeCurrent, lifeStage
    <2>7. CASE ~sess.fin
      <3>1. Lifecycle!Guard
        BY <1>2, <2>2, <2>5, <2>7 DEF Lifecycle!Guard, lifeCurrent, lifeStage
      <3> QED BY <3>1 DEF Lifecycle!Next
    <2> QED BY <2>6, <2>7
  <1>6. CASE updateStatus \/ failStatus
    <2>1. \/ UNCHANGED sess
          \/ /\ sess # Nil /\ sess' # Nil /\ sess'.uid = sess.uid
             /\ sess'.fin = sess.fin /\ sess'.deleting = sess.deleting
      BY <1>6, StatusIsTyped, StatusWrites DEF NewVersion
    <2> QED BY <1>2, <1>3, <2>1 DEF LifeUnchanged, lifeCurrent, lifeStage
  <1> QED BY <1>3, <1>4, <1>5, <1>6 DEF handleDelete, ensureFinalizer

LEMMA reconcileChildMaps ==
    ASSUME IInv, TypeOK', NEW k \in Kinds, reconcileChild(k)
    PROVE  Lifecycle!Next \/ LifeUnchanged
  <1>1. UNCHANGED sess /\ kids = [j \in Kinds |-> kids[j]]
    BY DEF reconcileChild, IInv, TypeOK, StoreTypeOK
  <1>2. lifeCurrent' = lifeCurrent /\ lifeStage' = lifeStage
    BY <1>1 DEF lifeCurrent, lifeStage
  <1>3. CASE UNCHANGED kids
    BY <1>2, <1>3 DEF LifeUnchanged, lifeOwner
  <1>4. CASE ~UNCHANGED kids
    <2>1. /\ kids' = [kids EXCEPT ![k] = Applied(k)] /\ Applied(k).owner = work.uid
          /\ work # Nil /\ work \in SessionsWith(FullSpecs)
          /\ Wanted(k, work.spec) /\ ~Rejected(k, work.spec)
      BY <1>4, WorkIsSession DEF reconcileChild, Applied, IInv, Kinds
    <2>2. sess # Nil /\ sess.uid = work.uid /\ sess.fin
      BY WorkerIsGuarded DEF reconcileChild, Kinds
    <2>3. Applied(k) # Nil
      <3>1. Desired(k, work.spec) \in Manifests(k)
        BY <2>1, DesiredIsManifest DEF Rejected, SessionsWith
      <3>2. Applied(k) \in Children(k)
        BY <2>1, <3>1 DEF Applied, Children, SessionsWith
      <3> QED BY <3>2, NilAssumption
    <2>4. lifeOwner' = [lifeOwner EXCEPT ![k] = lifeCurrent]
      BY <1>1, <2>1, <2>2, <2>3 DEF lifeOwner, lifeCurrent
    <2>5. lifeStage \in {"guarded", "terminating"}
      BY <2>2 DEF lifeStage
    <2>6. Lifecycle!Attach(k)
      BY <1>2, <2>4, <2>5 DEF Lifecycle!Attach
    <2> QED BY <2>6 DEF Lifecycle!Next
  <1> QED BY <1>3, <1>4

LEMMA OthersMap ==
    ASSUME UNCHANGED <<sess, kids>>
    PROVE  LifeUnchanged
  BY DEF LifeUnchanged, lifeCurrent, lifeStage, lifeOwner

(* Every step of the controller and of what surrounds it is a step of the  *)
(* abstract life cycle or none at all.                                     *)
THEOREM SafelyImplements == Safety => ImplementsLifecycleSafely
  <1>1. IInv /\ TypeOK' /\ [Next]_vars => Lifecycle!Next \/ LifeUnchanged
    <2> SUFFICES ASSUME IInv, TypeOK', [Next]_vars
                 PROVE  Lifecycle!Next \/ LifeUnchanged
      OBVIOUS
    <2>1. CASE \/ StartReconcile \/ getDeployment \/ getService \/ Informers
               \/ CallFails \/ Restart \/ UNCHANGED vars
      <3>1. UNCHANGED <<sess, kids>>
        BY <2>1 DEF StartReconcile, getDeployment, getService, Informers, SyncSession,
           SyncChild, DelayOver, CallFails, Restart, store, vars
      <3> QED BY <3>1, OthersMap
    <2>2. CASE Create \/ Edit \/ Delete
      BY <2>2, UsersMap
    <2>3. CASE (\E k \in Kinds : Collect(k) \/ Drift(k)) \/ Readiness \/ ScaledDown
      BY <2>3, ClusterMaps
    <2>4. CASE handleDelete \/ ensureFinalizer \/ updateStatus \/ failStatus
      BY <2>4, WorkerMaps
    <2>5. CASE \E k \in Kinds : reconcileChild(k)
      BY <2>5, reconcileChildMaps
    <2> QED BY <2>1, <2>2, <2>3, <2>4, <2>5 DEF Next, Controller, Environment
  <1>2. IInv /\ TypeOK' /\ [Next]_vars => [Lifecycle!Next]_(Lifecycle!avars)
    BY <1>1 DEF LifeUnchanged, Lifecycle!avars
  <1> QED BY <1>2, InitMaps, Invariance, TypeCorrect, PTL
      DEF Safety, ImplementsLifecycleSafely, Lifecycle!Safety
=============================================================================

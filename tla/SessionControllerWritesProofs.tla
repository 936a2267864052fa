---------------------- MODULE SessionControllerWritesProofs ----------------------
(***************************************************************************)
(* The controller's writes are bounded by what has happened, whatever the  *)
(* specs, the budgets and the order of things.                             *)
(***************************************************************************)
EXTENDS SessionControllerProofs, SessionControllerWrites

-----------------------------------------------------------------------------
(* The passes that are owed. *)

LEMMA PassesAreFew ==
    /\ PassesOwed \in Nat
    /\ ~ UpToDate => PassesOwed = One(Untold(Verdict)) /\ PassesOwed <= 1
    /\ pc = "fail" => PassesOwed <= 2
    /\ pc \in {"idle", "finalizer", "sa", "home"} => PassesOwed = One(Untold(Verdict))
  BY DEF PassesOwed, Overlooked, OverlookedDep, OverlookedSvc, Outcome, One,
         AfterHome, AfterScratch, AfterGetdep, AfterGetsvc

(* A pass that has overlooked nothing comes to what the next one would.    *)
LEMMA NothingOverlooked ==
    ASSUME pc \in WorkerSteps, pc \in {"getdep"} \cup AfterGetdep => ~ Negative, Overlooked = 0
    PROVE  Verdict = Outcome
  BY DEF Overlooked, OverlookedDep, OverlookedSvc, Outcome, One, Verdict,
         FromScratch, FromDep, FromGetdep, FromSvc, FromGetsvc, WorkerSteps, Kinds,
         AfterHome, AfterScratch, AfterGetdep, AfterGetsvc

LEMMA PassEnds ==
    ASSUME pc \in WorkerSteps, pc \in {"getdep"} \cup AfterGetdep /\ UpToDate => ~ Negative
    PROVE  One(Untold(Verdict)) <= PassesOwed
  <1>1. CASE ~ UpToDate
    BY <1>1, PassesAreFew DEF One
  <1>2. CASE UpToDate /\ Overlooked = 0
    BY <1>2, NothingOverlooked DEF PassesOwed, One
  <1>3. CASE UpToDate /\ Overlooked # 0
    BY <1>3 DEF PassesOwed, Overlooked, One
  <1> QED BY <1>1, <1>2, <1>3

(* The answers a pass reads, one by one. *)
SameClaim(k) == Blocked(k)' <=> Blocked(k)
SameCopy(k) == (NotCached(k)' <=> NotCached(k)) /\ (k = "dep" => ShownReady' = ShownReady)
SameChild(k) == SameCopy(k) /\ (Undecided(k)' <=> Undecided(k))
SamePass == UNCHANGED <<sess, pc, work, got>>

LEMMA SameAnswers ==
    ASSUME SamePass, SameClaim("home"), SameClaim("scratch"), SameChild("dep"), SameChild("svc")
    PROVE  PassesOwed' = PassesOwed
  BY DEF SamePass, SameClaim, SameCopy, SameChild, PassesOwed, UpToDate, Overlooked,
         OverlookedDep, OverlookedSvc, Outcome, One, Untold, Verdict, Negative,
         FromScratch, FromDep, FromGetdep, FromSvc, FromGetsvc, FromStatus

(* An answer that changes is new to the pass under way, or to the one that *)
(* comes after it, but not to both.                                        *)
LEMMA OtherClaim ==
    ASSUME SamePass, pc \in WorkerSteps, SameChild("dep"), SameChild("svc"),
           SameClaim("home") \/ SameClaim("scratch")
    PROVE  PassesOwed' <= PassesOwed + 1
  BY DEF SamePass, SameClaim, SameCopy, SameChild, PassesOwed, UpToDate, Overlooked,
         OverlookedDep, OverlookedSvc, Outcome, One, Untold, Verdict, Negative,
         FromScratch, FromDep, FromGetdep, FromSvc, FromGetsvc, FromStatus,
         AfterHome, AfterScratch, AfterGetdep, AfterGetsvc

(* Something new is shown once the cache has settled. *)
LEMMA UndecidedIsUntold == Untold("undecided") /\ Untold("undecided")' /\ "undecided" \notin Kinds
  BY DEF Untold, Tells, Kinds

(* The Deployment and the Service are read right after they are applied,   *)
(* and what is read must not become undecided then.                        *)
LEMMA OtherDep ==
    ASSUME SamePass, pc \in WorkerSteps, pc = "fail" => work.status.reason \in Kinds,
           SameClaim("home"), SameClaim("scratch"), SameChild("svc"),
           UpToDate /\ pc = "getdep" => SameCopy("dep") \/ ~ Undecided("dep")'
    PROVE  /\ PassesOwed' <= PassesOwed + 1
           /\ Undecided("dep") => PassesOwed' <= PassesOwed
  <1>0. \A o : Untold(o)' <=> Untold(o)
    BY DEF SamePass, Untold
  <1>1. CASE pc = "fail"
    BY <1>0, <1>1, UndecidedIsUntold
    DEF SamePass, SameClaim, SameCopy, SameChild, PassesOwed, UpToDate, Overlooked,
         OverlookedDep, OverlookedSvc, Outcome, One, Verdict, Negative,
         FromScratch, FromDep, FromGetdep, FromSvc, FromGetsvc, FromStatus,
         AfterHome, AfterScratch, AfterGetdep, AfterGetsvc
  <1>2. CASE pc # "fail"
    BY <1>0, <1>2, UndecidedIsUntold
    DEF SamePass, SameClaim, SameCopy, SameChild, PassesOwed, UpToDate, Overlooked,
         OverlookedDep, OverlookedSvc, Outcome, One, Verdict, Negative,
         FromScratch, FromDep, FromGetdep, FromSvc, FromGetsvc, FromStatus,
         AfterHome, AfterScratch, AfterGetdep, AfterGetsvc
  <1> QED BY <1>1, <1>2

LEMMA OtherSvc ==
    ASSUME SamePass, pc \in WorkerSteps, pc = "fail" => work.status.reason \in Kinds,
           SameClaim("home"), SameClaim("scratch"), SameChild("dep"),
           UpToDate /\ pc = "getsvc" => SameCopy("svc") \/ ~ Undecided("svc")'
    PROVE  /\ PassesOwed' <= PassesOwed + 1
           /\ Undecided("svc") => PassesOwed' <= PassesOwed
  <1>0. \A o : Untold(o)' <=> Untold(o)
    BY DEF SamePass, Untold
  <1>1. CASE pc = "fail"
    BY <1>0, <1>1, UndecidedIsUntold
    DEF SamePass, SameClaim, SameCopy, SameChild, PassesOwed, UpToDate, Overlooked,
         OverlookedDep, OverlookedSvc, Outcome, One, Verdict, Negative,
         FromScratch, FromDep, FromGetdep, FromSvc, FromGetsvc, FromStatus,
         AfterHome, AfterScratch, AfterGetdep, AfterGetsvc
  <1>2. CASE pc # "fail"
    BY <1>0, <1>2, UndecidedIsUntold
    DEF SamePass, SameClaim, SameCopy, SameChild, PassesOwed, UpToDate, Overlooked,
         OverlookedDep, OverlookedSvc, Outcome, One, Verdict, Negative,
         FromScratch, FromDep, FromGetdep, FromSvc, FromGetsvc, FromStatus,
         AfterHome, AfterScratch, AfterGetdep, AfterGetsvc
  <1> QED BY <1>1, <1>2

-----------------------------------------------------------------------------
(* The balance. *)

LEMMA DebtsAreNumbers ==
    /\ PassesOwed \in Nat /\ PassesOwed' \in Nat
    /\ \A k : ClaimOwed(k) \in 0..2 /\ ClaimOwed(k)' \in 0..2
    /\ DepOwed \in 0..1 /\ DepOwed' \in 0..1
    /\ SvcOwed \in 0..1 /\ SvcOwed' \in 0..1
    /\ PodsOwed \in 0..1 /\ PodsOwed' \in 0..1
  <1>1. PassesOwed \in Nat /\ PassesOwed' \in Nat
    BY DEF PassesOwed, Overlooked, One
  <1>2. \A k : ClaimOwed(k) \in 0..2 /\ ClaimOwed(k)' \in 0..2
    BY DEF ClaimOwed, One
  <1> QED BY <1>1, <1>2 DEF DepOwed, SvcOwed, PodsOwed, One

(* A step pays for what it writes and for the debts it leaves behind. *)
Pays == rev' + Owed' + PodsOwed' - Granted' <= rev + Owed + PodsOwed - Granted

Price(b) == IF b = "create" THEN 9 ELSE IF b = "edit" THEN 4 ELSE 2

LEMMA GrantedIsNumber == TypeOK => Granted \in Int
  <1> SUFFICES ASSUME TypeOK PROVE Granted \in Int
    OBVIOUS
  <1>1. \A b \in BudgetKinds : Budget[env.scenario][b] \in Nat /\ env.left[b] \in Nat
    BY BudgetAssumption DEF TypeOK, Env
  <1> QED BY <1>1 DEF Granted, Spent, BudgetKinds

LEMMA SpendGrants ==
    ASSUME TypeOK, NEW b \in BudgetKinds, Spend(b)
    PROVE  Granted' = Granted + Price(b) /\ Price(b) \in Nat
  <1>1. \A c \in BudgetKinds : Budget[env.scenario][c] \in Nat /\ env.left[c] \in Nat
    BY BudgetAssumption DEF TypeOK, Env
  <1>2. env \in Env /\ env' = [env EXCEPT !.left[b] = env.left[b] - 1]
    BY DEF TypeOK, Spend
  <1>3. env'.scenario = env.scenario
    BY <1>2 DEF Env
  <1>4. \A c \in BudgetKinds : env'.left[c] = IF c = b THEN env.left[c] - 1 ELSE env.left[c]
    BY <1>2 DEF Env
  <1>5. \A c \in BudgetKinds : /\ Spent(c) \in Int
                               /\ Spent(c)' = IF c = b THEN Spent(c) + 1 ELSE Spent(c)
    BY <1>1, <1>3, <1>4 DEF Spent
  <1>6. {"create", "edit", "fault", "readiness", "drift", "restart"} = BudgetKinds
    BY DEF BudgetKinds
  <1> HIDE DEF Spent
  <1> QED BY <1>5, <1>6 DEF Granted, Price, BudgetKinds

LEMMA NothingSpent == UNCHANGED env => Granted' = Granted
  BY DEF Granted, Spent

(* Steps that leave the Session as it is, by what they add to each debt.   *)
LEMMA QuietPays ==
    ASSUME TypeOK, UNCHANGED <<sess, rev>>, NEW p \in Nat, Granted' = Granted + p,
           NEW x \in Int, NEW h \in Int, NEW s \in Int, NEW d \in Int, NEW v \in Int, NEW q \in Int,
           PodsOwed' <= PodsOwed + q, q <= p, x + h + s + d + v + q <= p,
           Active => /\ PassesOwed' <= PassesOwed + x
                     /\ ClaimOwed("home")' <= ClaimOwed("home") + h
                     /\ ClaimOwed("scratch")' <= ClaimOwed("scratch") + s
                     /\ DepOwed' <= DepOwed + d
                     /\ SvcOwed' <= SvcOwed + v
    PROVE  Pays
  <1>1. PICK r \in Nat, g \in Int : r = rev /\ r = rev' /\ g = Granted /\ Granted' = g + p
    BY GrantedIsNumber DEF TypeOK, StoreTypeOK
  <1>2. PICK q1 \in Nat, q2 \in Nat : q1 = PodsOwed /\ q2 = PodsOwed'
    BY DebtsAreNumbers
  <1>3. q2 <= q1 + q
    BY <1>2
  <1>4. CASE ~ Active
    <2>1. PICK o \in Nat : o = Owed /\ o = Owed'
      BY <1>4 DEF Owed, Active
    <2>2. r + o + q2 - (g + p) <= r + o + q1 - g
      BY <1>3
    <2> QED BY <1>1, <1>2, <2>1, <2>2 DEF Pays
  <1>5. CASE Active
    <2>1. PICK n \in Nat : Owed = n + StatusesOwed /\ Owed' = n + StatusesOwed'
      BY <1>5 DEF Owed, Active
    <2>2. PICK x1 \in Nat, h1 \in Nat, s1 \in Nat, d1 \in Nat, v1 \in Nat :
            /\ x1 = PassesOwed /\ h1 = ClaimOwed("home") /\ s1 = ClaimOwed("scratch")
            /\ d1 = DepOwed /\ v1 = SvcOwed
      BY DebtsAreNumbers
    <2>3. PICK x2 \in Nat, h2 \in Nat, s2 \in Nat, d2 \in Nat, v2 \in Nat :
            /\ x2 = PassesOwed' /\ h2 = ClaimOwed("home")' /\ s2 = ClaimOwed("scratch")'
            /\ d2 = DepOwed' /\ v2 = SvcOwed'
      BY DebtsAreNumbers
    <2>4. x2 <= x1 + x /\ h2 <= h1 + h /\ s2 <= s1 + s /\ d2 <= d1 + d /\ v2 <= v1 + v
      BY <1>5, <2>2, <2>3
    <2>5. /\ StatusesOwed = x1 + h1 + s1 + d1 + v1
          /\ StatusesOwed' = x2 + h2 + s2 + d2 + v2
      BY <2>2, <2>3 DEF StatusesOwed
    <2>6. r + (n + (x2 + h2 + s2 + d2 + v2)) + q2 - (g + p)
            <= r + (n + (x1 + h1 + s1 + d1 + v1)) + q1 - g
      BY <1>3, <2>4
    <2> QED BY <1>1, <1>2, <2>1, <2>5, <2>6 DEF Pays
  <1> QED BY <1>4, <1>5

LEMMA Untouched ==
    ASSUME UNCHANGED <<sess, cachedSess, work>>, NEW k,
           kids'[k] = kids[k], cachedKids'[k] = cachedKids[k]
    PROVE  /\ SameClaim(k) /\ SameChild(k)
           /\ ClaimOwed(k)' = ClaimOwed(k)
           /\ k = "dep" => DepOwed' = DepOwed /\ PodsOwed' = PodsOwed
           /\ k = "svc" => SvcOwed' = SvcOwed
  BY DEF SameClaim, SameChild, SameCopy, Blocked, Undecided, NotCached, ShownReady,
         ClaimOwed, StaleCopy, Differs, NoLongerOwned, Unowned, DepOwed, SvcOwed, PodsOwed, One

LEMMA UntouchedDebts ==
    ASSUME UNCHANGED <<sess, cachedSess, work>>, NEW k,
           kids'[k] = kids[k], cachedKids'[k] = cachedKids[k]
    PROVE  /\ ClaimOwed(k)' <= ClaimOwed(k) + 0
           /\ k = "dep" => DepOwed' <= DepOwed + 0 /\ PodsOwed' <= PodsOwed + 0
           /\ k = "svc" => SvcOwed' <= SvcOwed + 0
  <1>1. ClaimOwed(k) \in Nat /\ DepOwed \in Nat /\ PodsOwed \in Nat /\ SvcOwed \in Nat
    BY DebtsAreNumbers
  <1> QED BY <1>1, Untouched

-----------------------------------------------------------------------------
(* The cluster and the informers. *)

(* A child goes, the garbage collector's or somebody's doing. *)
LEMMA ChildGoes ==
    ASSUME IInv, PassInv, NEW k \in Kinds, kids[k] # Nil, kids' = [kids EXCEPT ![k] = Nil],
           UNCHANGED <<sess, rev, cachedSess, cachedKids, pc, work, got>>,
           NEW p \in {0, 2}, Granted' = Granted + p,
           p = 0 => (sess # Nil => NoLongerOwned(k))
    PROVE  Pays
  <1>1. /\ TypeOK /\ pc \in WorkerSteps /\ SamePass
        /\ pc = "fail" => work.status.reason \in Kinds
        /\ kids'[k] = Nil
        /\ \A j \in Kinds \ {k} : kids'[j] = kids[j]
        /\ {"home", "scratch", "dep", "svc"} \subseteq Kinds
    BY DEF IInv, TypeOK, StoreTypeOK, WorkerTypeOK, SamePass, PassInv, Kinds
  <1>2. \A j \in Kinds \ {k} : SameClaim(j) /\ SameChild(j)
    BY <1>1, Untouched
  <1>3. \A j \in Kinds \ {k} : /\ ClaimOwed(j)' <= ClaimOwed(j) + 0
                               /\ j = "dep" => DepOwed' <= DepOwed + 0 /\ PodsOwed' <= PodsOwed + 0
                               /\ j = "svc" => SvcOwed' <= SvcOwed + 0
    BY <1>1, UntouchedDebts
  <1>4. CASE k \notin {"home", "scratch", "dep", "svc"}
    <2>1. PassesOwed' <= PassesOwed + 0
      BY <1>1, <1>2, <1>4, SameAnswers, PassesAreFew
    <2> QED BY <1>1, <1>3, <1>4, <2>1, QuietPays
  <1>5. ASSUME k \in {"home", "scratch"} PROVE Pays
    <2>1. PassesOwed' <= PassesOwed + 1
      BY <1>1, <1>2, <1>5, OtherClaim
    <2>2. /\ ClaimOwed(k) \in Nat
          /\ NoLongerOwned(k) => ClaimOwed(k)' <= ClaimOwed(k) + (-1)
          /\ ClaimOwed(k)' <= ClaimOwed(k) + 1
      BY <1>1 DEF ClaimOwed, NoLongerOwned, Unowned, StaleCopy, Differs, One
    <2>3. PICK c \in {-1, 1} : c + 1 <= p /\ (Active => ClaimOwed(k)' <= ClaimOwed(k) + c)
      BY <2>2 DEF Active
    <2>4. CASE k = "home"
      BY <1>1, <1>3, <2>1, <2>3, <2>4, QuietPays
    <2>5. CASE k = "scratch"
      BY <1>1, <1>3, <2>1, <2>3, <2>5, QuietPays
    <2> QED BY <1>5, <2>4, <2>5
  <1>6. CASE k = "dep"
    <2>1. PassesOwed' <= PassesOwed + 1 /\ (Undecided("dep") => PassesOwed' <= PassesOwed)
      BY <1>1, <1>2, <1>6, OtherDep DEF SameCopy, NotCached, ShownReady
    <2>2. NoLongerOwned("dep") => Undecided("dep") /\ DepOwed = 1
      BY DEF NoLongerOwned, Unowned, Undecided, DepOwed, One
    <2>3. /\ PodsOwed' <= PodsOwed + 0
          /\ DepOwed' <= DepOwed + 1
          /\ DepOwed = 1 => DepOwed' <= DepOwed + 0
      BY <1>1, <1>6 DEF PodsOwed, DepOwed, One
    <2>4. PICK c \in {0, 1} : c + c <= p /\ (Active => PassesOwed' <= PassesOwed + c /\ DepOwed' <= DepOwed + c)
      BY <1>6, <2>1, <2>2, <2>3, PassesAreFew DEF Active
    <2> QED BY <1>1, <1>3, <1>6, <2>3, <2>4, QuietPays
  <1>7. CASE k = "svc"
    <2>1. PassesOwed' <= PassesOwed + 1 /\ (Undecided("svc") => PassesOwed' <= PassesOwed)
      BY <1>1, <1>2, <1>7, OtherSvc DEF SameCopy, NotCached, ShownReady
    <2>2. NoLongerOwned("svc") => Undecided("svc") /\ SvcOwed = 1
      BY DEF NoLongerOwned, Unowned, Undecided, SvcOwed, One
    <2>3. SvcOwed' <= SvcOwed + 1 /\ (SvcOwed = 1 => SvcOwed' <= SvcOwed + 0)
      BY <1>1, <1>7 DEF SvcOwed, One
    <2>4. PICK c \in {0, 1} : c + c <= p /\ (Active => PassesOwed' <= PassesOwed + c /\ SvcOwed' <= SvcOwed + c)
      BY <1>7, <2>1, <2>2, <2>3, PassesAreFew DEF Active
    <2> QED BY <1>1, <1>3, <1>7, <2>3, <2>4, QuietPays
  <1> QED BY <1>4, <1>5, <1>6, <1>7

LEMMA CollectPays ==
    ASSUME IInv, PassInv, NEW k \in Kinds, Collect(k)
    PROVE  Pays
  <1>1. TypeOK /\ Granted' = Granted + 0
    BY NothingSpent, GrantedIsNumber DEF IInv, Collect
  <1> QED BY <1>1, ChildGoes DEF Collect, NoLongerOwned, cache, worker

LEMMA DriftPays ==
    ASSUME IInv, PassInv, NEW k \in Kinds, Drift(k)
    PROVE  Pays
  <1>1. Granted' = Granted + 2
    BY SpendGrants DEF IInv, Drift, BudgetKinds, Price
  <1>2. /\ kids[k] # Nil /\ kids' = [kids EXCEPT ![k] = Nil]
        /\ UNCHANGED <<sess, rev, cachedSess, cachedKids, pc, work, got>>
    BY DEF Drift, cache, worker
  <1>3. 2 \in {0, 2} /\ 2 # 0
    OBVIOUS
  <1> QED BY <1>1, <1>2, <1>3, ChildGoes

(* The readiness of the Deployment is new to the informer, and no claim    *)
(* and no pass is concerned before it has caught up.                       *)
LEMMA ReadinessPays ==
    ASSUME IInv, Readiness \/ ScaledDown
    PROVE  Pays
  <1>1. /\ TypeOK /\ "dep" \in Kinds /\ SamePass /\ kids["dep"] # Nil
        /\ kids["dep"] \in Children("dep")
        /\ UNCHANGED <<sess, rev, cachedSess, cachedKids, pc, work, got>>
    BY DEF IInv, TypeOK, StoreTypeOK, Readiness, ScaledDown, SamePass, cache, worker, Kinds
  <1>2. PICK r \in BOOLEAN : /\ kids' = [kids EXCEPT !["dep"] = [kids["dep"] EXCEPT !.ready = r]]
                             /\ ScaledDown => kids["dep"].ready /\ r = FALSE
    <2>1. CASE Readiness
      <3> DEFINE r == ~kids["dep"].ready
      <3>1. r \in BOOLEAN /\ (ScaledDown => kids["dep"].ready /\ r = FALSE)
        BY <1>1 DEF ScaledDown, Children
      <3>2. kids' = [kids EXCEPT !["dep"] = [kids["dep"] EXCEPT !.ready = r]]
        BY <1>1, <2>1 DEF Readiness
      <3> QED BY <3>1, <3>2
    <2>2. CASE ScaledDown
      BY <1>1, <2>2 DEF ScaledDown
    <2> QED BY <2>1, <2>2
  <1>3. /\ kids'["dep"] = [kids["dep"] EXCEPT !.ready = r]
        /\ kids'["dep"] # Nil /\ kids'["dep"].owner = kids["dep"].owner /\ kids'["dep"].ready = r
        /\ \A j \in Kinds \ {"dep"} : kids'[j] = kids[j]
    <2>1. [kids["dep"] EXCEPT !.ready = r] \in Children("dep")
      BY <1>1 DEF Children
    <2> QED BY <1>1, <1>2, <2>1, NilAssumption DEF TypeOK, StoreTypeOK, Children
  <1>4. \A j \in {"home", "scratch", "svc"} :
          /\ SameClaim(j) /\ SameChild(j)
          /\ ClaimOwed(j)' <= ClaimOwed(j) + 0
          /\ j = "svc" => SvcOwed' <= SvcOwed + 0
    BY <1>1, <1>3, Untouched, UntouchedDebts DEF Kinds
  <1>5. SameChild("dep")
    BY <1>1, <1>3 DEF SameChild, SameCopy, NotCached, ShownReady, Undecided, Unowned, NoLongerOwned
  <1>6. PassesOwed' <= PassesOwed + 0
    BY <1>1, <1>4, <1>5, SameAnswers, PassesAreFew
  <1>7. DepOwed' <= DepOwed + 1
    BY DEF DepOwed, One
  <1>8. CASE ScaledDown
    <2>1. PodsOwed' <= PodsOwed + (-1)
      BY <1>1, <1>2, <1>3, <1>8 DEF PodsOwed, One
    <2>2. Granted' = Granted + 0
      BY <1>1, <1>8, NothingSpent, GrantedIsNumber DEF ScaledDown
    <2> QED BY <1>1, <1>4, <1>6, <1>7, <2>1, <2>2, QuietPays
  <1>9. CASE Readiness
    <2>1. PodsOwed' <= PodsOwed + 1
      BY DEF PodsOwed, One
    <2>2. Granted' = Granted + 2
      BY <1>1, <1>9, SpendGrants DEF Readiness, BudgetKinds, Price
    <2> QED BY <1>1, <1>4, <1>6, <1>7, <2>1, <2>2, QuietPays
  <1> QED BY <1>8, <1>9

LEMMA SyncSessionPays ==
    ASSUME IInv, SyncSession
    PROVE  Pays
  <1>1. /\ TypeOK /\ SamePass /\ UNCHANGED <<sess, kids, rev, cachedKids, work>>
        /\ cachedSess' = sess /\ Granted' = Granted + 0
    BY NothingSpent, GrantedIsNumber DEF IInv, SyncSession, SamePass, store, worker
  <1>2. /\ SameClaim("home") /\ SameClaim("scratch") /\ SameChild("dep") /\ SameChild("svc")
        /\ DepOwed' = DepOwed /\ SvcOwed' = SvcOwed /\ PodsOwed' = PodsOwed
    BY <1>1 DEF SameClaim, SameChild, SameCopy, Blocked, Undecided, NotCached, ShownReady,
         NoLongerOwned, Unowned, DepOwed, SvcOwed, PodsOwed, One
  <1>3. PassesOwed' <= PassesOwed + 0
    BY <1>1, <1>2, SameAnswers, PassesAreFew
  <1>4. \A k : ClaimOwed(k)' <= ClaimOwed(k) + 0
    BY <1>1 DEF ClaimOwed, NoLongerOwned, Unowned, StaleCopy, Differs, One
  <1>5. DepOwed' <= DepOwed + 0 /\ SvcOwed' <= SvcOwed + 0 /\ PodsOwed' <= PodsOwed + 0
    BY <1>2, DebtsAreNumbers
  <1> QED BY <1>1, <1>3, <1>4, <1>5, QuietPays

(* What an informer has shown of the Deployment or the Service is owed as  *)
(* long as it is not what is stored.                                       *)
LEMMA SyncChildPays ==
    ASSUME IInv, PassInv, NEW k \in Watched, SyncChild(k)
    PROVE  Pays
  <1>1. /\ TypeOK /\ pc \in WorkerSteps /\ SamePass
        /\ pc = "fail" => work.status.reason \in Kinds
        /\ UNCHANGED <<sess, kids, rev, cachedSess, work>>
        /\ Granted' = Granted + 0
    BY NothingSpent, GrantedIsNumber
    DEF IInv, TypeOK, WorkerTypeOK, SyncChild, SamePass, PassInv, store, worker
  <1>2. /\ cachedKids[k] # kids[k]
        /\ cachedKids' = [cachedKids EXCEPT ![k] = kids[k]]
        /\ cachedKids = [j \in Watched |-> cachedKids[j]]
    BY <1>1 DEF SyncChild, TypeOK, CacheTypeOK
  <1>3. cachedKids'[k] = kids[k] /\ \A j \in Watched \ {k} : cachedKids'[j] = cachedKids[j]
    BY <1>2
  <1>4. \A j \in Watched \ {k} : SameChild(j)
    BY <1>1, <1>3, Untouched
  <1>5. /\ SameClaim("home") /\ SameClaim("scratch")
        /\ ClaimOwed("home")' <= ClaimOwed("home") + 0
        /\ ClaimOwed("scratch")' <= ClaimOwed("scratch") + 0
        /\ PodsOwed' <= PodsOwed + 0
    BY <1>1 DEF SameClaim, Blocked, ClaimOwed, StaleCopy, Differs, NoLongerOwned, Unowned, PodsOwed, One
  <1>6. \A j \in Watched \ {k} : /\ j = "dep" => DepOwed' <= DepOwed + 0
                                 /\ j = "svc" => SvcOwed' <= SvcOwed + 0
    BY <1>1, <1>3, UntouchedDebts
  <1>7. ASSUME sess # Nil, UpToDate PROVE work.uid = sess.uid
    BY <1>7 DEF UpToDate, IInv, CopyOf, SameVersionSameSession
  <1>8. CASE k = "ing"
    <2>1. PassesOwed' <= PassesOwed + 0
      BY <1>1, <1>4, <1>5, <1>8, SameAnswers, PassesAreFew DEF Watched
    <2> QED BY <1>1, <1>5, <1>6, <1>8, <2>1, QuietPays DEF Watched
  <1>9. CASE k = "dep"
    <2>1. SameChild("svc") /\ SvcOwed' <= SvcOwed + 0
      BY <1>4, <1>6, <1>9 DEF Watched
    <2>2. PICK c \in {-1, 0} : Active => /\ PassesOwed' <= PassesOwed - c
                                         /\ DepOwed' <= DepOwed + c
      <3>1. CASE ~ Active
        BY <3>1
      <3>2. CASE Active /\ Unowned("dep")
        <4>1. Undecided("dep")
          BY <1>2, <1>9, <3>2 DEF Undecided, Unowned, NoLongerOwned
        <4>2. UpToDate /\ pc = "getdep" => ~ Undecided("dep")'
          BY <1>1, <1>3, <1>7, <1>9, <3>2 DEF Active, PassInv, Undecided, Unowned, NoLongerOwned
        <4>3. PassesOwed' <= PassesOwed
          BY <1>1, <1>5, <2>1, <4>1, <4>2, OtherDep
        <4>4. DepOwed = 1
          BY <3>2 DEF DepOwed, One
        <4> QED BY <4>3, <4>4, DebtsAreNumbers
      <3>3. CASE Active /\ ~ Unowned("dep") /\ DepOwed = 1
        <4>1. ~ Undecided("dep")' /\ DepOwed' = 0
          BY <1>1, <1>3, <1>9, <3>3 DEF Undecided, Unowned, NoLongerOwned, DepOwed, One, NotCached, ShownReady
        <4>2. PassesOwed' <= PassesOwed + 1
          BY <1>1, <1>5, <2>1, <4>1, OtherDep
        <4> QED BY <3>3, <4>1, <4>2, DebtsAreNumbers
      <3>4. CASE Active /\ ~ Unowned("dep") /\ DepOwed # 1
        <4>1. SameChild("dep") /\ DepOwed' = 0
          BY <1>1, <1>3, <1>9, <3>4
          DEF SameChild, SameCopy, Undecided, Unowned, NoLongerOwned, DepOwed, One, NotCached, ShownReady
        <4>2. PassesOwed' = PassesOwed
          BY <1>1, <1>5, <2>1, <4>1, SameAnswers
        <4> QED BY <4>1, <4>2, DebtsAreNumbers
      <3> QED BY <3>1, <3>2, <3>3, <3>4
    <2>3. PICK x \in Int : x = -c /\ x + 0 + 0 + c + 0 + 0 <= 0
      BY <2>2
    <2>4. Active => PassesOwed' <= PassesOwed + x
      BY <2>2, <2>3, PassesAreFew
    <2> QED BY <1>1, <1>5, <2>1, <2>2, <2>3, <2>4, QuietPays
  <1>10. CASE k = "svc"
    <2>1. SameChild("dep") /\ DepOwed' <= DepOwed + 0
      BY <1>4, <1>6, <1>10 DEF Watched
    <2>2. PICK c \in {-1, 0} : Active => /\ PassesOwed' <= PassesOwed - c
                                         /\ SvcOwed' <= SvcOwed + c
      <3>1. CASE ~ Active
        BY <3>1
      <3>2. CASE Active /\ Unowned("svc")
        <4>1. Undecided("svc")
          BY <1>2, <1>10, <3>2 DEF Undecided, Unowned, NoLongerOwned
        <4>2. UpToDate /\ pc = "getsvc" => ~ Undecided("svc")'
          BY <1>1, <1>3, <1>7, <1>10, <3>2 DEF Active, PassInv, Undecided, Unowned, NoLongerOwned
        <4>3. PassesOwed' <= PassesOwed
          BY <1>1, <1>5, <2>1, <4>1, <4>2, OtherSvc
        <4>4. SvcOwed = 1
          BY <3>2 DEF SvcOwed, One
        <4> QED BY <4>3, <4>4, DebtsAreNumbers
      <3>3. CASE Active /\ ~ Unowned("svc") /\ SvcOwed = 1
        <4>1. ~ Undecided("svc")' /\ SvcOwed' = 0
          BY <1>1, <1>3, <1>10, <3>3 DEF Undecided, Unowned, NoLongerOwned, SvcOwed, One, NotCached
        <4>2. PassesOwed' <= PassesOwed + 1
          BY <1>1, <1>5, <2>1, <4>1, OtherSvc
        <4> QED BY <3>3, <4>1, <4>2, DebtsAreNumbers
      <3>4. CASE Active /\ ~ Unowned("svc") /\ SvcOwed # 1
        <4>1. SameChild("svc") /\ SvcOwed' = 0
          BY <1>1, <1>3, <1>10, <3>4
          DEF SameChild, SameCopy, Undecided, Unowned, NoLongerOwned, SvcOwed, One, NotCached
        <4>2. PassesOwed' = PassesOwed
          BY <1>1, <1>5, <2>1, <4>1, SameAnswers
        <4> QED BY <4>1, <4>2, DebtsAreNumbers
      <3> QED BY <3>1, <3>2, <3>3, <3>4
    <2>3. PICK x \in Int : x = -c /\ x + 0 + 0 + 0 + c + 0 <= 0
      BY <2>2
    <2>4. Active => PassesOwed' <= PassesOwed + x
      BY <2>2, <2>3, PassesAreFew
    <2> QED BY <1>1, <1>5, <2>1, <2>2, <2>3, <2>4, QuietPays
  <1> QED BY <1>8, <1>9, <1>10 DEF Watched

(* Nothing a debt is about. *)
LEMMA BystandersPay ==
    ASSUME IInv, UNCHANGED <<sess, kids, rev, cachedSess, cachedKids, pc, work, got, env>>
    PROVE  Pays
  <1>1. TypeOK /\ SamePass /\ Granted' = Granted + 0
    BY NothingSpent, GrantedIsNumber DEF IInv, SamePass
  <1>2. \A k \in Kinds : /\ SameClaim(k) /\ SameChild(k)
                         /\ ClaimOwed(k)' <= ClaimOwed(k) + 0
                         /\ k = "dep" => DepOwed' <= DepOwed + 0 /\ PodsOwed' <= PodsOwed + 0
                         /\ k = "svc" => SvcOwed' <= SvcOwed + 0
    BY Untouched, UntouchedDebts
  <1>3. PassesOwed' <= PassesOwed + 0
    BY <1>1, <1>2, SameAnswers, PassesAreFew DEF Kinds
  <1> QED BY <1>1, <1>2, <1>3, QuietPays DEF Kinds

-----------------------------------------------------------------------------
(* The worker, as long as it writes nothing. *)

(* What the worker holds is the stored Session if it is up to date. *)
LEMMA UpToDateWork ==
    ASSUME IInv, sess # Nil, UpToDate
    PROVE  /\ Current
           /\ work.uid = sess.uid
           /\ work.deleting = sess.deleting
           /\ work.spec = applyDefaults(sess.spec)
           /\ work.spec.host = sess.spec.host
           /\ Negative <=> work.spec.replicas < 0
           /\ \A k \in Claims : /\ Wanted(k, work.spec) <=> Wanted(k, sess.spec)
                                /\ Desired(k, work.spec) = Desired(k, sess.spec)
  <1>1. work # Nil /\ Current /\ CopyOf(work, sess, rev)
    BY DEF UpToDate, Current, IInv
  <1>2. work.spec \in FullSpecs /\ sess.spec \in Specs
    BY <1>1 DEF IInv, TypeOK, StoreTypeOK, WorkerTypeOK, SessionsWith
  <1>3. applyDefaults(work.spec) = work.spec
    BY <1>2 DEF applyDefaults, FullSpecs
  <1>4. work.spec = applyDefaults(sess.spec)
    BY <1>1, <1>3, CurrentIsSame
  <1>5. work.spec.home = sess.spec.home /\ work.spec.scratch = sess.spec.scratch
        /\ work.spec.host = sess.spec.host
    BY <1>2, <1>4 DEF applyDefaults, Specs
  <1> QED BY <1>1, <1>4, <1>5, CurrentIsSame DEF Negative, Claims, Wanted, Desired

(* No pass is behind the worker that the spec would stop. *)
LEMMA PassIsAllowed ==
    ASSUME IInv, PassInv, sess # Nil
    PROVE  /\ pc \in WorkerSteps
           /\ pc \in {"getdep"} \cup AfterGetdep /\ UpToDate => ~ Negative
  BY UpToDateWork DEF PassInv, IInv, TypeOK, WorkerTypeOK

LEMMA SameVerdict ==
    ASSUME UNCHANGED <<sess, kids, cachedKids>>
    PROVE  /\ Verdict' = Verdict
           /\ \A o : Untold(o)' <=> Untold(o)
           /\ \A k : (Blocked(k)' <=> Blocked(k)) /\ (Undecided(k)' <=> Undecided(k))
           /\ \A k : NotCached(k)' <=> NotCached(k)
           /\ ShownReady' = ShownReady /\ (Negative' <=> Negative)
  <1>1. \A k : (Blocked(k)' <=> Blocked(k)) /\ (Undecided(k)' <=> Undecided(k)) /\ (NotCached(k)' <=> NotCached(k))
    BY DEF Blocked, Undecided, Unowned, NoLongerOwned, NotCached
  <1>2. ShownReady' = ShownReady /\ (Negative' <=> Negative)
    BY DEF ShownReady, Negative
  <1>3. Verdict' = Verdict
    BY <1>1, <1>2 DEF Verdict, FromScratch, FromDep, FromGetdep, FromSvc, FromGetsvc, FromStatus
  <1>4. \A o : Untold(o)' <=> Untold(o)
    BY DEF Untold
  <1> QED BY <1>1, <1>2, <1>3, <1>4

(* Whatever the worker does, short of writing. *)
LEMMA QuietWorkerPays ==
    ASSUME TypeOK, UNCHANGED <<sess, rev, kids, cachedKids>>, NEW p \in {0, 2}, Granted' = Granted + p,
           Active => /\ PassesOwed' <= PassesOwed + p
                     /\ \A k \in Claims : StaleCopy(k)' => StaleCopy(k)
    PROVE  Pays
  <1>1. /\ DepOwed' = DepOwed /\ SvcOwed' = SvcOwed /\ PodsOwed' = PodsOwed
        /\ \A k \in Claims : (NoLongerOwned(k)' <=> NoLongerOwned(k)) /\ (Unowned(k)' <=> Unowned(k))
    BY DEF NoLongerOwned, Unowned, NotCached, ShownReady, DepOwed, SvcOwed, PodsOwed, One
  <1>2. DepOwed' <= DepOwed + 0 /\ SvcOwed' <= SvcOwed + 0 /\ PodsOwed' <= PodsOwed + 0
    BY <1>1, DebtsAreNumbers
  <1>3. Active => \A k \in Claims : ClaimOwed(k)' <= ClaimOwed(k) + 0
    BY <1>1 DEF ClaimOwed, One
  <1>4. p \in Nat /\ 0 <= p /\ p + 0 + 0 + 0 + 0 + 0 <= p
    OBVIOUS
  <1> QED BY <1>2, <1>3, <1>4, QuietPays DEF Claims

(* The pass under way is given up, or is over. *)
LEMMA DropPays ==
    ASSUME IInv, PassInv, Idle, UNCHANGED <<sess, rev, kids, cachedSess, cachedKids>>,
           NEW p \in {0, 2}, Granted' = Granted + p
    PROVE  Pays
  <1>1. ASSUME Active PROVE PassesOwed' <= PassesOwed + p
    <2>1. One(Untold(Verdict)) <= PassesOwed
      BY <1>1, PassIsAllowed, PassEnds DEF Active
    <2>2. PassesOwed' = One(Untold(Verdict))
      <3>1. ~ UpToDate'
        BY DEF Idle, UpToDate
      <3>2. Untold(Verdict)' <=> Untold(Verdict)
        BY SameVerdict DEF Untold
      <3> QED BY <3>1, <3>2 DEF PassesOwed, One
    <2>3. PassesOwed \in Nat /\ One(Untold(Verdict)) \in Nat
      BY PassesAreFew DEF One
    <2> QED BY <2>1, <2>2, <2>3
  <1>2. \A k \in Claims : StaleCopy(k)' => StaleCopy(k)
    BY DEF Idle, StaleCopy, Differs
  <1> QED BY <1>1, <1>2, QuietWorkerPays DEF IInv

LEMMA StartPays ==
    ASSUME IInv, StartReconcile
    PROVE  Pays
  <1>1. /\ TypeOK /\ pc = "idle" /\ work = Nil /\ Granted' = Granted + 0
        /\ UNCHANGED <<sess, rev, kids, cachedSess, cachedKids, env>>
    BY NothingSpent, GrantedIsNumber DEF IInv, TypeOK, WorkerTypeOK, StartReconcile, store, cache
  <1>2. CASE cachedSess = Nil
    BY <1>1, <1>2, BystandersPay DEF StartReconcile, worker
  <1>3. CASE cachedSess # Nil
    <2>1. pc' = "finalizer" /\ work' = [cachedSess EXCEPT !.spec = applyDefaults(cachedSess.spec)]
      BY <1>3 DEF StartReconcile
    <2>2. cachedSess \in SessionsWith(Specs) /\ cachedSess.spec \in Specs
      BY <1>1, <1>3 DEF TypeOK, CacheTypeOK, SessionsWith
    <2>3. /\ work'.uid = cachedSess.uid /\ work'.spec = applyDefaults(cachedSess.spec)
          /\ \A k \in Claims : Desired(k, work'.spec) = Desired(k, cachedSess.spec)
      <3>1. work'.uid = cachedSess.uid /\ work'.spec = applyDefaults(cachedSess.spec)
        BY <2>1, <2>2 DEF SessionsWith
      <3>2. work'.spec.home = cachedSess.spec.home /\ work'.spec.scratch = cachedSess.spec.scratch
        BY <2>2, <3>1 DEF applyDefaults, Specs
      <3> QED BY <3>1, <3>2 DEF Claims, Desired
    <2>4. \A k \in Claims : StaleCopy(k)' => StaleCopy(k)
      BY <1>1, <1>3, <2>3 DEF StaleCopy, Differs
    <2>5. PassesOwed' <= PassesOwed + 0
      <3>1. PassesOwed = One(Untold(Verdict))
        BY <1>1, PassesAreFew
      <3>2. PassesOwed' = One(Untold(Verdict)')
        BY <2>1 DEF PassesOwed, Overlooked, OverlookedDep, OverlookedSvc, Outcome, One,
           AfterHome, AfterScratch, AfterGetdep, AfterGetsvc
      <3>3. Untold(Verdict)' <=> Untold(Verdict)
        BY <1>1, SameVerdict DEF Untold
      <3> QED BY <3>1, <3>2, <3>3 DEF One
    <2> QED BY <1>1, <2>4, <2>5, QuietWorkerPays
  <1> QED BY <1>2, <1>3

LEMMA FailBlames ==
    ASSUME TypeOK, work # Nil, NEW k \in Kinds, Fail(k)
    PROVE  /\ pc' = "fail" /\ work' # Nil
           /\ work'.uid = work.uid /\ work'.rv = work.rv /\ work'.fin = work.fin /\ work'.spec = work.spec
           /\ work'.status = [work.status EXCEPT !.phase = "Error", !.reason = k]
           /\ work'.status.reason = k
  <1>1. work \in SessionsWith(FullSpecs) /\ work.status \in Status
    BY DEF TypeOK, WorkerTypeOK, SessionsWith
  <1>2. work' = [work EXCEPT !.status = [work.status EXCEPT !.phase = "Error", !.reason = k]]
    BY <1>1 DEF Fail, SessionsWith
  <1>3. work'.status = [work.status EXCEPT !.phase = "Error", !.reason = k]
    BY <1>1, <1>2 DEF SessionsWith
  <1>4. work'.status.reason = k
    BY <1>1, <1>3 DEF Status
  <1>5. work' \in SessionsWith(FullSpecs)
    <2>1. [work.status EXCEPT !.phase = "Error", !.reason = k] \in Status
      BY <1>1 DEF Status
    <2> QED BY <1>1, <1>2, <2>1 DEF SessionsWith
  <1> QED BY <1>1, <1>2, <1>3, <1>4, <1>5, FullSessions DEF Fail, SessionsWith

(* A call that fails may cost two: the Error, and what was to be written.  *)
LEMMA FailPays ==
    ASSUME IInv, work # Nil, NEW k \in Kinds, Fail(k),
           UNCHANGED <<sess, rev, kids, cachedSess, cachedKids>>, Granted' = Granted + 2
    PROVE  Pays
  <1>1. TypeOK /\ pc' = "fail" /\ work'.uid = work.uid /\ work'.spec = work.spec
    BY FailBlames DEF IInv
  <1>2. PassesOwed' <= 2
    BY <1>1 DEF PassesOwed, Overlooked, OverlookedDep, OverlookedSvc, One,
           AfterHome, AfterScratch, AfterGetdep, AfterGetsvc
  <1>3. PassesOwed' <= PassesOwed + 2
    BY <1>2, DebtsAreNumbers
  <1>4. \A j \in Claims : StaleCopy(j)' => StaleCopy(j)
    BY <1>1 DEF StaleCopy, Differs
  <1> QED BY <1>1, <1>3, <1>4, QuietWorkerPays

(* A pass that goes on, or fails, with the result it was heading for. *)
LEMMA PassGoesOn ==
    ASSUME TypeOK, UNCHANGED <<sess, kids, cachedKids>>, work # Nil, work' # Nil, work'.rv = work.rv,
           UpToDate => /\ Outcome' = Outcome
                       /\ Overlooked' <= Overlooked
    PROVE  PassesOwed' <= PassesOwed + 0
  <1>1. UpToDate' <=> UpToDate
    BY DEF UpToDate
  <1>2. \A o : Untold(o)' <=> Untold(o)
    BY SameVerdict
  <1>3. PassesOwed \in Nat
    BY DebtsAreNumbers
  <1>4. CASE UpToDate
    <2>1. One(Untold(Outcome))' = One(Untold(Outcome))
      BY <1>2, <1>4 DEF One, Untold
    <2>2. PICK a \in Nat, b \in Nat, c \in Nat :
            a = One(Untold(Outcome)) /\ b = Overlooked /\ c = Overlooked'
      BY DEF One, Overlooked
    <2>3. a + c <= a + b + 0
      BY <1>4, <2>2
    <2> QED BY <1>1, <1>4, <2>1, <2>2, <2>3 DEF PassesOwed
  <1>5. CASE ~ UpToDate
    BY <1>1, <1>3, <1>5, SameVerdict DEF PassesOwed, One, Untold
  <1> QED BY <1>4, <1>5

LEMMA readsPay ==
    ASSUME IInv, PassInv, getDeployment \/ getService
    PROVE  Pays
  <1>1. /\ TypeOK /\ work # Nil /\ Granted' = Granted + 0
        /\ UNCHANGED <<sess, rev, kids, cachedSess, cachedKids>>
    BY NothingSpent, GrantedIsNumber, WorkIsSession DEF IInv, getDeployment, getService, store, cache
  <1>2. work' # Nil /\ work'.rv = work.rv /\ work'.uid = work.uid /\ work'.spec = work.spec
    BY <1>1, FailBlames DEF getDeployment, getService, Goto, Kinds
  <1>3. \A k \in Claims : StaleCopy(k)' => StaleCopy(k)
    BY <1>1, <1>2 DEF StaleCopy, Differs
  <1>4. ASSUME Active, UpToDate PROVE Outcome' = Outcome /\ Overlooked' <= Overlooked
    <2>1. ~ Negative /\ pc \in {"getdep", "getsvc"}
      BY <1>4, PassIsAllowed DEF Active, getDeployment, getService, AfterGetdep
    <2>2. CASE getDeployment /\ NotCached("dep")
      <3>1. pc = "getdep" /\ pc' = "fail" /\ work'.status.reason = "dep"
        BY <1>1, <2>2, FailBlames DEF getDeployment, NotCached, Kinds
      <3> QED BY <1>1, <2>1, <2>2, <3>1, SameVerdict
          DEF Outcome, Overlooked, OverlookedDep, OverlookedSvc, One, Verdict,
              FromScratch, FromDep, FromGetdep, AfterHome, AfterScratch, AfterGetdep, AfterGetsvc
    <2>3. CASE getDeployment /\ ~ NotCached("dep")
      <3>1. pc = "getdep" /\ pc' = "svc" /\ got' = ShownReady
        BY <2>3 DEF getDeployment, NotCached, ShownReady
      <3> QED BY <1>1, <2>1, <2>3, <3>1, SameVerdict
          DEF Outcome, Overlooked, OverlookedDep, OverlookedSvc, One,
              FromGetdep, FromSvc, FromGetsvc, FromStatus, AfterHome, AfterScratch, AfterGetdep, AfterGetsvc
    <2>4. CASE getService /\ NotCached("svc")
      <3>1. pc = "getsvc" /\ pc' = "fail" /\ work'.status.reason = "svc"
        BY <1>1, <2>4, FailBlames DEF getService, NotCached, Kinds
      <3> QED BY <1>1, <2>1, <2>4, <3>1, SameVerdict
          DEF Outcome, Overlooked, OverlookedDep, OverlookedSvc, One, Verdict,
              FromScratch, FromDep, FromGetdep, FromSvc, FromGetsvc,
              AfterHome, AfterScratch, AfterGetdep, AfterGetsvc
    <2>5. CASE getService /\ ~ NotCached("svc")
      <3>1. pc = "getsvc" /\ pc' = "ing" /\ got' = got
        BY <2>5 DEF getService, NotCached, Goto
      <3> QED BY <1>1, <2>1, <2>5, <3>1, SameVerdict
          DEF Outcome, Overlooked, OverlookedDep, OverlookedSvc, One,
              FromGetsvc, FromStatus, AfterHome, AfterScratch, AfterGetdep, AfterGetsvc
    <2> QED BY <2>2, <2>3, <2>4, <2>5
  <1>5. Active => PassesOwed' <= PassesOwed + 0
    BY <1>1, <1>2, <1>4, PassGoesOn
  <1> QED BY <1>1, <1>3, <1>5, QuietWorkerPays

LEMMA CallFailsPays ==
    ASSUME IInv, PassInv, CallFails
    PROVE  Pays
  <1>1. /\ TypeOK /\ Granted' = Granted + 2 /\ pc # "idle"
        /\ UNCHANGED <<sess, rev, kids, cachedSess, cachedKids>>
    BY SpendGrants DEF IInv, CallFails, BudgetKinds, Price, store, cache, Kinds
  <1>2. work # Nil
    BY <1>1, WorkIsSession
  <1>3. CASE Requeue
    BY <1>1, <1>3, DropPays DEF Requeue
  <1>4. CASE ~ Requeue
    BY <1>1, <1>2, <1>4, FailPays DEF CallFails
  <1> QED BY <1>3, <1>4

(* After a restart every cache is fresh, and the next pass is the first.   *)
LEMMA RestartPays ==
    ASSUME IInv, Restart
    PROVE  Pays
  <1>1. /\ TypeOK /\ Granted' = Granted + 2
        /\ UNCHANGED <<sess, rev, kids>>
        /\ cachedSess' = sess /\ work' = Nil
        /\ cachedKids'["dep"] = kids["dep"] /\ cachedKids'["svc"] = kids["svc"]
    BY SpendGrants DEF IInv, Restart, Idle, BudgetKinds, Price, store, Watched
  <1>2. /\ DepOwed' <= DepOwed + 0 /\ SvcOwed' <= SvcOwed + 0 /\ PodsOwed' <= PodsOwed + 0
    BY <1>1 DEF DepOwed, SvcOwed, PodsOwed, NotCached, ShownReady, Unowned, NoLongerOwned, One
  <1>3. \A k : ClaimOwed(k)' <= ClaimOwed(k) + 0
    BY <1>1 DEF ClaimOwed, StaleCopy, Differs, Unowned, NoLongerOwned, One
  <1>4. PassesOwed' <= PassesOwed + 1
    <2>1. PassesOwed' <= 1
      BY <1>1 DEF PassesOwed, UpToDate, One
    <2> QED BY <2>1, DebtsAreNumbers
  <1> QED BY <1>1, <1>2, <1>3, <1>4, QuietPays

-----------------------------------------------------------------------------
(* The worker applies a child. *)

(* What reconcileChild does to child k, if it writes. *)
LEMMA AppliedChild ==
    ASSUME IInv, NEW k \in Kinds, pc = k, Wanted(k, work.spec), ~ Rejected(k, work.spec),
           kids' = [kids EXCEPT ![k] = Applied(k)]
    PROVE  /\ kids'[k] # Nil
           /\ kids'[k].owner = work.uid
           /\ kids'[k].desc = Desired(k, work.spec)
           /\ kids[k] # Nil => kids'[k].ready = kids[k].ready
           /\ kids[k] = Nil => kids'[k].ready = FALSE
           /\ \A j \in Kinds \ {k} : kids'[j] = kids[j]
  <1>1. TypeOK /\ work # Nil /\ work \in SessionsWith(FullSpecs) /\ kids = [j \in Kinds |-> kids[j]]
    BY WorkIsSession DEF IInv, Kinds, TypeOK, StoreTypeOK
  <1>2. Desired(k, work.spec) \in Manifests(k)
    BY <1>1, DesiredIsManifest DEF Rejected, SessionsWith
  <1>3. Applied(k) \in Children(k)
    BY <1>1, <1>2 DEF Applied, Children, SessionsWith
  <1>4. kids'[k] = Applied(k) /\ \A j \in Kinds \ {k} : kids'[j] = kids[j]
    BY <1>1
  <1>5. Applied(k).ready = (kids[k] # Nil /\ kids[k].ready)
    BY DEF Applied
  <1>6. kids[k] # Nil => kids[k].ready \in BOOLEAN
    BY <1>1 DEF TypeOK, StoreTypeOK, Children
  <1>7. /\ kids[k] # Nil => Applied(k).ready = kids[k].ready
        /\ kids[k] = Nil => Applied(k).ready = FALSE
    BY <1>5, <1>6
  <1>8. Applied(k) # Nil /\ Applied(k).owner = work.uid /\ Applied(k).desc = Desired(k, work.spec)
    BY <1>3, NilAssumption DEF Applied
  <1> QED BY <1>4, <1>7, <1>8

(* The part of a child's debts that its application leaves. *)
LEMMA AppliedDebts ==
    ASSUME IInv, NEW k \in Kinds, pc = k, Wanted(k, work.spec), ~ Rejected(k, work.spec),
           kids' = [kids EXCEPT ![k] = Applied(k)],
           UNCHANGED <<sess, cachedSess, cachedKids>>,
           sess # Nil, work'.uid = work.uid, work'.spec = work.spec, work' # Nil
    PROVE  /\ k \in Claims => ClaimOwed(k)' = 0
           /\ \A j \in Claims \ {k} : ClaimOwed(j)' <= ClaimOwed(j) + 0
           /\ DepOwed' <= DepOwed + 0
           /\ SvcOwed' <= SvcOwed + 0
           /\ PodsOwed' <= PodsOwed + 0
           /\ ~ Undecided(k)'
           /\ \A j \in Kinds \ {k} : SameClaim(j) /\ SameChild(j)
  <1>1. /\ kids'[k] # Nil /\ kids'[k].owner = sess.uid
        /\ kids[k] # Nil => kids'[k].ready = kids[k].ready
        /\ kids[k] = Nil => kids'[k].ready = FALSE
        /\ \A j \in Kinds \ {k} : kids'[j] = kids[j]
        /\ Claims \subseteq Kinds /\ "dep" \in Kinds /\ "svc" \in Kinds
        /\ work # Nil
    BY AppliedChild, WorkerIsGuarded, WorkIsSession DEF Kinds, Claims, IInv
  <1>2. ~ Unowned(k)' /\ ~ NoLongerOwned(k)' /\ ~ Undecided(k)'
    BY <1>1 DEF Unowned, NoLongerOwned, Undecided
  <1>3. \A j \in Kinds \ {k} : SameClaim(j) /\ SameChild(j)
    BY <1>1 DEF SameClaim, SameChild, SameCopy, Blocked, Undecided, NotCached, ShownReady, Unowned, NoLongerOwned
  <1>4. k \in Claims => ClaimOwed(k)' = 0
    BY <1>2 DEF ClaimOwed, One
  <1>5. \A j \in Claims \ {k} : ClaimOwed(j)' <= ClaimOwed(j) + 0
    BY <1>1 DEF ClaimOwed, One, StaleCopy, Differs, Unowned, NoLongerOwned
  <1>6. CASE k = "dep"
    <2>1. SvcOwed' <= SvcOwed + 0
      BY <1>1, <1>6 DEF SvcOwed, NotCached, Unowned, NoLongerOwned, One
    <2>2. PodsOwed' <= PodsOwed + 0
      BY <1>1, <1>6 DEF PodsOwed, One
    <2>3. DepOwed' <= DepOwed + 0
      BY <1>1, <1>2, <1>6 DEF DepOwed, NotCached, ShownReady, Unowned, One
    <2> QED BY <1>2, <1>3, <1>4, <1>5, <2>1, <2>2, <2>3
  <1>7. CASE k # "dep"
    <2>1. DepOwed' <= DepOwed + 0 /\ PodsOwed' <= PodsOwed + 0
      BY <1>1, <1>7 DEF DepOwed, PodsOwed, NotCached, ShownReady, Unowned, NoLongerOwned, One
    <2>2. SvcOwed' <= SvcOwed + 0
      BY <1>1, <1>2 DEF SvcOwed, NotCached, Unowned, NoLongerOwned, One
    <2> QED BY <1>2, <1>3, <1>4, <1>5, <2>1, <2>2
  <1> QED BY <1>6, <1>7

(* A child is not wanted, or is refused: the pass finds what it was to     *)
(* find.                                                                   *)
LEMMA NotAppliedPays ==
    ASSUME IInv, PassInv, NEW k \in Kinds, pc = k,
           UNCHANGED <<sess, rev, kids, cachedSess, cachedKids>>, Granted' = Granted + 0,
           \/ ~ Wanted(k, work.spec) /\ Goto(After[k])
           \/ Wanted(k, work.spec) /\ Rejected(k, work.spec) /\ Fail(k)
    PROVE  Pays
  <1>1. TypeOK /\ work # Nil
    BY WorkIsSession DEF IInv, Kinds
  <1>2. work' # Nil /\ work'.rv = work.rv /\ work'.uid = work.uid /\ work'.spec = work.spec
    BY <1>1, FailBlames DEF Goto
  <1>3. \A j \in Claims : StaleCopy(j)' => StaleCopy(j)
    BY <1>1, <1>2 DEF StaleCopy, Differs
  <1>4. ASSUME Active, UpToDate PROVE Outcome' = Outcome /\ Overlooked' <= Overlooked
    <2>1. /\ Negative <=> work.spec.replicas < 0
          /\ \A j \in Claims : /\ Wanted(j, work.spec) <=> Wanted(j, sess.spec)
                               /\ Desired(j, work.spec) = Desired(j, sess.spec)
      BY <1>4, UpToDateWork DEF Active
    <2>2. CASE ~ Wanted(k, work.spec) /\ Goto(After[k])
      <3>1. k \in {"home", "scratch", "ing"} /\ pc' = After[k] /\ work' = work /\ got' = got
        BY <2>2 DEF Wanted, Goto, Kinds
      <3>2. k \in Claims => ~ Blocked(k)
        BY <2>1, <2>2 DEF Blocked
      <3>3. CASE k = "home"
        BY <3>1, <3>2, <3>3, SameVerdict
        DEF After, Claims, Outcome, Overlooked, OverlookedDep, OverlookedSvc, One, Verdict,
            FromScratch, FromDep, FromGetdep, FromSvc, FromGetsvc, FromStatus,
            AfterHome, AfterScratch, AfterGetdep, AfterGetsvc
      <3>4. CASE k = "scratch"
        BY <3>1, <3>2, <3>4, SameVerdict
        DEF After, Claims, Outcome, Overlooked, OverlookedDep, OverlookedSvc, One,
            FromScratch, FromDep, FromGetdep, FromSvc, FromGetsvc, FromStatus,
            AfterHome, AfterScratch, AfterGetdep, AfterGetsvc
      <3>5. CASE k = "ing"
        BY <3>1, <3>5, SameVerdict
        DEF After, Outcome, Overlooked, OverlookedDep, OverlookedSvc, One, FromStatus,
            AfterHome, AfterScratch, AfterGetdep, AfterGetsvc
      <3> QED BY <3>1, <3>3, <3>4, <3>5
    <2>3. CASE Wanted(k, work.spec) /\ Rejected(k, work.spec) /\ Fail(k)
      <3>1. pc' = "fail" /\ work'.status.reason = k /\ k \in {"home", "scratch", "dep"}
        BY <1>1, <2>3, FailBlames DEF Rejected, Claims
      <3>2. k \in Claims => Blocked(k)
        BY <2>1, <2>3 DEF Blocked, Rejected, Claims
      <3>3. k = "dep" => Negative
        BY <2>1, <2>3 DEF Rejected, Claims
      <3> QED BY <3>1, <3>2, <3>3, SameVerdict
          DEF Claims, Outcome, Overlooked, OverlookedDep, OverlookedSvc, One, Verdict,
              FromScratch, FromDep, AfterHome, AfterScratch, AfterGetdep, AfterGetsvc
    <2> QED BY <2>2, <2>3
  <1>5. Active => PassesOwed' <= PassesOwed + 0
    BY <1>1, <1>2, <1>4, PassGoesOn
  <1> QED BY <1>1, <1>3, <1>5, QuietWorkerPays

(* A claim is applied.  A stale pass may put one in the way of the spec,   *)
(* if there is none or another incarnation's.                              *)
LEMMA AppliedClaim ==
    ASSUME IInv, NEW k \in Claims, pc = k, Wanted(k, work.spec), ~ Rejected(k, work.spec),
           kids' = [kids EXCEPT ![k] = Applied(k)], Goto(After[k]),
           UNCHANGED <<sess, cachedSess, cachedKids>>
    PROVE  \/ PassesOwed' <= PassesOwed + 0 /\ ClaimOwed(k)' <= ClaimOwed(k) + 0
           \/ PassesOwed' <= PassesOwed + 1 /\ ClaimOwed(k)' <= ClaimOwed(k) + (-1)
  <1>1. /\ k \in Kinds /\ k # "dep" /\ k # "svc" /\ sess # Nil /\ sess.uid = work.uid
        /\ work # Nil /\ work' = work /\ pc' = After[k] /\ got' = got
    BY WorkerIsGuarded, WorkIsSession DEF Claims, Kinds, Goto, IInv
  <1>2. /\ ClaimOwed(k)' = 0 /\ ClaimOwed(k) \in Nat
        /\ \A j \in Kinds \ {k} : SameClaim(j) /\ SameChild(j)
    <2>1. work' # Nil /\ work'.uid = work.uid /\ work'.spec = work.spec
      BY <1>1
    <2>2. ClaimOwed(k) \in Nat
      BY DebtsAreNumbers
    <2> QED BY <1>1, <2>1, <2>2, AppliedDebts
  <1>3. kids'[k] # Nil /\ kids'[k].desc = Desired(k, work.spec)
    BY <1>1, AppliedChild
  <1>4. kids[k] = Nil \/ kids[k].desc = Desired(k, work.spec)
    BY DEF Rejected
  <1>5. CASE UpToDate
    <2>1. ~ Blocked(k) /\ ~ Blocked(k)'
      BY <1>1, <1>3, <1>4, <1>5, UpToDateWork DEF Blocked
    <2>2. UpToDate'
      BY <1>1, <1>5 DEF UpToDate
    <2>3. \A o : Untold(o)' <=> Untold(o)
      BY DEF Untold
    <2>4. Negative' <=> Negative
      BY DEF Negative
    <2>5. PassesOwed' <= PassesOwed
      <3>1. CASE k = "home"
        BY <1>1, <1>2, <1>5, <2>1, <2>2, <2>3, <2>4, <3>1
        DEF After, Kinds, PassesOwed, SameClaim, SameChild, SameCopy, Outcome, Overlooked,
            OverlookedDep, OverlookedSvc, One, Verdict,
            FromScratch, FromDep, FromGetdep, FromSvc, FromGetsvc, FromStatus,
            AfterHome, AfterScratch, AfterGetdep, AfterGetsvc
      <3>2. CASE k = "scratch"
        BY <1>1, <1>2, <1>5, <2>1, <2>2, <2>3, <2>4, <3>2
        DEF After, Kinds, PassesOwed, SameClaim, SameChild, SameCopy, Outcome, Overlooked,
            OverlookedDep, OverlookedSvc, One,
            FromScratch, FromDep, FromGetdep, FromSvc, FromGetsvc, FromStatus,
            AfterHome, AfterScratch, AfterGetdep, AfterGetsvc
      <3> QED BY <3>1, <3>2 DEF Claims
    <2> QED BY <1>2, <2>5, DebtsAreNumbers
  <1>6. CASE ~ UpToDate /\ ClaimOwed(k) = 0
    <2>1. ~ UpToDate'
      BY <1>1, <1>6 DEF UpToDate
    <2>2. kids[k] = Nil => Desired(k, work.spec) = Desired(k, sess.spec)
      BY <1>1, <1>6 DEF ClaimOwed, One, Unowned, StaleCopy, Differs
    <2>3. Blocked(k)' <=> Blocked(k)
      BY <1>3, <1>4, <2>2 DEF Blocked
    <2>4. Verdict' = Verdict
      <3>1. SameClaim("home") /\ SameClaim("scratch") /\ SameChild("dep") /\ SameChild("svc")
        BY <1>1, <1>2, <2>3 DEF SameClaim, Claims, Kinds
      <3> QED BY <3>1 DEF SameClaim, SameChild, SameCopy, Verdict, Negative,
                  FromScratch, FromDep, FromGetdep, FromSvc, FromGetsvc, FromStatus
    <2> QED BY <1>2, <1>6, <2>1, <2>4 DEF PassesOwed, Untold, One
  <1>7. CASE ~ UpToDate /\ ClaimOwed(k) # 0
    <2>1. ~ UpToDate'
      BY <1>1, <1>7 DEF UpToDate
    <2> QED BY <1>2, <1>7, <2>1 DEF PassesOwed, One
  <1> QED BY <1>5, <1>6, <1>7

(* The Deployment or the Service is applied, and what a pass will read is  *)
(* decided.                                                                *)
LEMMA AppliedWatched ==
    ASSUME IInv, NEW k \in {"dep", "svc"}, pc = k, ~ Rejected(k, work.spec),
           kids' = [kids EXCEPT ![k] = Applied(k)], Goto(After[k]),
           UNCHANGED <<sess, cachedSess, cachedKids>>
    PROVE  PassesOwed' <= PassesOwed + 0
  <1>1. /\ k \in Kinds /\ sess # Nil /\ sess.uid = work.uid
        /\ work # Nil /\ work' = work /\ pc' = After[k] /\ got' = got
        /\ Wanted(k, work.spec)
    BY WorkerIsGuarded, WorkIsSession DEF Kinds, Goto, IInv, Wanted
  <1>2. /\ \A j \in Kinds \ {k} : SameClaim(j) /\ SameChild(j)
        /\ ~ Undecided(k)'
    BY <1>1, AppliedDebts
  <1>3. /\ SameClaim("home") /\ SameClaim("scratch")
        /\ k # "dep" => SameChild("dep")
        /\ k # "svc" => SameChild("svc")
    BY <1>2 DEF Kinds
  <1>4. /\ UpToDate' <=> UpToDate
        /\ \A o : Untold(o)' <=> Untold(o)
        /\ Negative' <=> Negative
        /\ NotCached(k)' <=> NotCached(k)
        /\ ShownReady' = ShownReady
    BY <1>1 DEF UpToDate, Untold, Negative, NotCached, ShownReady
  <1>5. k = "dep" /\ UpToDate => ~ Negative
    BY <1>1, UpToDateWork DEF Rejected
  <1>6. Untold("undecided")
    BY UndecidedIsUntold
  <1>7. CASE k = "dep"
    BY <1>1, <1>2, <1>3, <1>4, <1>5, <1>6, <1>7
    DEF After, PassesOwed, SameClaim, SameChild, SameCopy, Outcome, Overlooked,
        OverlookedDep, OverlookedSvc, One, Verdict,
        FromScratch, FromDep, FromGetdep, FromSvc, FromGetsvc, FromStatus,
        AfterHome, AfterScratch, AfterGetdep, AfterGetsvc
  <1>8. CASE k = "svc"
    BY <1>1, <1>2, <1>3, <1>4, <1>6, <1>8
    DEF After, PassesOwed, SameClaim, SameChild, SameCopy, Outcome, Overlooked,
        OverlookedDep, OverlookedSvc, One, Verdict,
        FromScratch, FromDep, FromGetdep, FromSvc, FromGetsvc, FromStatus,
        AfterHome, AfterScratch, AfterGetdep, AfterGetsvc
  <1> QED BY <1>7, <1>8

(* The ServiceAccount and the Ingress are not looked at again.             *)
LEMMA AppliedOther ==
    ASSUME IInv, NEW k \in {"sa", "ing"}, pc = k, Wanted(k, work.spec),
           kids' = [kids EXCEPT ![k] = Applied(k)], Goto(After[k]),
           UNCHANGED <<sess, cachedSess, cachedKids>>
    PROVE  PassesOwed' <= PassesOwed + 0
  <1>1. /\ k \in Kinds /\ sess # Nil /\ sess.uid = work.uid /\ ~ Rejected(k, work.spec)
        /\ work # Nil /\ work' = work /\ pc' = After[k] /\ got' = got
    BY WorkerIsGuarded, WorkIsSession DEF Kinds, Goto, IInv, Rejected, Claims
  <1>2. \A j \in Kinds \ {k} : SameClaim(j) /\ SameChild(j)
    BY <1>1, AppliedDebts
  <1>3. SameClaim("home") /\ SameClaim("scratch") /\ SameChild("dep") /\ SameChild("svc")
    BY <1>2 DEF Kinds
  <1>4. /\ UpToDate' <=> UpToDate
        /\ \A o : Untold(o)' <=> Untold(o)
        /\ Negative' <=> Negative
    BY <1>1 DEF UpToDate, Untold, Negative
  <1> QED BY <1>1, <1>3, <1>4
      DEF After, PassesOwed, SameClaim, SameChild, SameCopy, Outcome, Overlooked,
          OverlookedDep, OverlookedSvc, One, Verdict,
          FromScratch, FromDep, FromGetdep, FromSvc, FromGetsvc, FromStatus,
          AfterHome, AfterScratch, AfterGetdep, AfterGetsvc

LEMMA reconcileChildPays ==
    ASSUME IInv, PassInv, NEW k \in Kinds, reconcileChild(k)
    PROVE  Pays
  <1>1. /\ TypeOK /\ pc = k /\ work # Nil /\ sess # Nil
        /\ UNCHANGED <<sess, rev, cachedSess, cachedKids>>
    BY WorkerIsGuarded, WorkIsSession DEF IInv, reconcileChild, cache, Kinds
  <1>2. UNCHANGED env => Granted' = Granted + 0
    BY <1>1, NothingSpent, GrantedIsNumber
  <1>3. CASE ~ (Wanted(k, work.spec) /\ ~ Rejected(k, work.spec))
    <2>1. \/ ~ Wanted(k, work.spec) /\ Goto(After[k])
          \/ Wanted(k, work.spec) /\ Rejected(k, work.spec) /\ Fail(k)
      BY <1>3 DEF reconcileChild
    <2>2. UNCHANGED <<kids, env>>
      BY <1>3 DEF reconcileChild
    <2> QED BY <1>1, <1>2, <2>1, <2>2, NotAppliedPays
  <1>4. CASE Wanted(k, work.spec) /\ ~ Rejected(k, work.spec)
    <2>1. /\ kids' = [kids EXCEPT ![k] = Applied(k)]
          /\ \/ Goto(After[k]) /\ UNCHANGED env
             \/ Fail(k) /\ Spend("fault")
      BY <1>4 DEF reconcileChild
    <2>2. work' # Nil /\ work'.uid = work.uid /\ work'.spec = work.spec
      BY <1>1, <2>1, FailBlames DEF Goto
    <2>3. /\ \A j \in Claims : ClaimOwed(j)' <= ClaimOwed(j) + 0
          /\ DepOwed' <= DepOwed + 0 /\ SvcOwed' <= SvcOwed + 0 /\ PodsOwed' <= PodsOwed + 0
      <3>1. /\ k \in Claims => ClaimOwed(k)' = 0
            /\ \A j \in Claims \ {k} : ClaimOwed(j)' <= ClaimOwed(j) + 0
            /\ DepOwed' <= DepOwed + 0 /\ SvcOwed' <= SvcOwed + 0 /\ PodsOwed' <= PodsOwed + 0
        BY <1>1, <1>4, <2>1, <2>2, AppliedDebts
      <3>2. \A j : ClaimOwed(j) \in Nat
        BY DebtsAreNumbers
      <3>3. k \in Claims => ClaimOwed(k)' <= ClaimOwed(k) + 0
        BY <3>1, <3>2
      <3> QED BY <3>1, <3>3
    <2>4. ClaimOwed("home")' <= ClaimOwed("home") + 0 /\ ClaimOwed("scratch")' <= ClaimOwed("scratch") + 0
      BY <2>3 DEF Claims
    <2>5. CASE Fail(k) /\ Spend("fault")
      <3>1. Granted' = Granted + 2
        BY <1>1, <2>5, SpendGrants DEF BudgetKinds, Price
      <3>2. PassesOwed' <= PassesOwed + 2
        <4>1. pc' = "fail"
          BY <2>5 DEF Fail
        <4>2. PassesOwed' <= 2
          BY <4>1 DEF PassesOwed, Overlooked, OverlookedDep, OverlookedSvc, One,
             AfterHome, AfterScratch, AfterGetdep, AfterGetsvc
        <4> QED BY <4>2, DebtsAreNumbers
      <3> QED BY <1>1, <2>3, <2>4, <3>1, <3>2, QuietPays
    <2>6. CASE Goto(After[k]) /\ UNCHANGED env
      <3>1. CASE k \in Claims
        <4>1. PICK c \in {0, 1}, m \in {-1, 0} :
                /\ c + m = 0
                /\ PassesOwed' <= PassesOwed + c
                /\ ClaimOwed(k)' <= ClaimOwed(k) + m
          <5>1. \/ PassesOwed' <= PassesOwed + 0 /\ ClaimOwed(k)' <= ClaimOwed(k) + 0
                \/ PassesOwed' <= PassesOwed + 1 /\ ClaimOwed(k)' <= ClaimOwed(k) + (-1)
            BY <1>1, <1>4, <2>1, <2>6, <3>1, AppliedClaim
          <5>2. 0 + 0 = 0 /\ 1 + (-1) = 0 /\ 0 \in {0, 1} /\ 1 \in {0, 1} /\ 0 \in {-1, 0} /\ -1 \in {-1, 0}
            OBVIOUS
          <5> QED BY ONLY <5>1, <5>2
        <4>2. CASE k = "home"
          <5>1. c + m + 0 + 0 + 0 + 0 <= 0
            BY <4>1
          <5> QED BY <1>1, <1>2, <2>3, <2>4, <2>6, <4>1, <4>2, <5>1, QuietPays
        <4>3. CASE k = "scratch"
          <5>1. c + 0 + m + 0 + 0 + 0 <= 0
            BY <4>1
          <5> QED BY <1>1, <1>2, <2>3, <2>4, <2>6, <4>1, <4>3, <5>1, QuietPays
        <4> QED BY <3>1, <4>2, <4>3 DEF Claims
      <3>2. CASE k \notin Claims
        <4>1. PassesOwed' <= PassesOwed + 0
          <5>1. k \in {"dep", "svc"} \/ k \in {"sa", "ing"}
            BY <3>2 DEF Kinds, Claims
          <5> QED BY <1>1, <1>4, <2>1, <2>6, <5>1, AppliedWatched, AppliedOther
        <4> QED BY <1>1, <1>2, <2>3, <2>4, <2>6, <4>1, QuietPays
      <3> QED BY <3>1, <3>2
    <2> QED BY <2>1, <2>5, <2>6
  <1> QED BY <1>3, <1>4

-----------------------------------------------------------------------------
(* Writes of the Session. *)

(* A write that leaves the balance right, in plain numbers. *)
LEMMA WritePays ==
    ASSUME TypeOK, UNCHANGED kids, rev' = rev + 1,
           NEW p \in Nat, Granted' = Granted + p, NEW o \in Int, Owed \in Nat, Owed' \in Nat,
           Owed' <= Owed + o, 1 + o <= p
    PROVE  Pays
  <1>1. PodsOwed' = PodsOwed
    BY DEF PodsOwed, One
  <1>2. PICK q \in Nat, a \in Nat, b \in Nat, r \in Nat, g \in Int :
          /\ q = PodsOwed /\ q = PodsOwed' /\ a = Owed /\ b = Owed' /\ r = rev /\ rev' = r + 1
          /\ g = Granted /\ Granted' = g + p
    BY <1>1, DebtsAreNumbers, GrantedIsNumber DEF TypeOK, StoreTypeOK
  <1>3. b <= a + o
    BY <1>2
  <1>4. r + 1 + b + q - (g + p) <= r + a + q - g
    BY <1>3
  <1> QED BY <1>2, <1>4 DEF Pays

LEMMA OwedIsNumber ==
    /\ Owed \in Nat /\ Owed' \in Nat
    /\ sess = Nil => Owed = 0
    /\ sess' = Nil => Owed' = 0
    /\ sess # Nil /\ sess.deleting => Owed = 1
    /\ sess' # Nil /\ sess'.deleting => Owed' = 1
    /\ Active /\ sess.fin => Owed = 2 + StatusesOwed
    /\ Active /\ ~ sess.fin => Owed = 3 + StatusesOwed
    /\ Active' /\ sess'.fin => Owed' = 2 + StatusesOwed'
    /\ Active' /\ ~ sess'.fin => Owed' = 3 + StatusesOwed'
    /\ StatusesOwed \in Nat /\ StatusesOwed' \in Nat
  <1>1. StatusesOwed \in Nat /\ StatusesOwed' \in Nat
    <2>1. /\ ClaimOwed("home") \in Nat /\ ClaimOwed("scratch") \in Nat
          /\ ClaimOwed("home")' \in Nat /\ ClaimOwed("scratch")' \in Nat
      BY DebtsAreNumbers
    <2> QED BY <2>1, DebtsAreNumbers DEF StatusesOwed
  <1>2. PICK a \in Nat, b \in Nat : a = StatusesOwed /\ b = StatusesOwed'
    BY <1>1
  <1>3. Owed \in {0, 1, 2 + a, 3 + a} /\ Owed' \in {0, 1, 2 + b, 3 + b}
    BY <1>2 DEF Owed
  <1>4. Owed \in Nat /\ Owed' \in Nat
    BY <1>3
  <1>5. /\ sess = Nil => Owed = 0
        /\ sess' = Nil => Owed' = 0
        /\ sess # Nil /\ sess.deleting => Owed = 1
        /\ sess' # Nil /\ sess'.deleting => Owed' = 1
    BY DEF Owed
  <1>6. /\ Active /\ sess.fin => Owed = 2 + StatusesOwed
        /\ Active /\ ~ sess.fin => Owed = 3 + StatusesOwed
    BY DEF Owed, Active
  <1>7. /\ Active' /\ sess'.fin => Owed' = 2 + StatusesOwed'
        /\ Active' /\ ~ sess'.fin => Owed' = 3 + StatusesOwed'
    BY DEF Owed, Active
  <1> QED BY <1>1, <1>4, <1>5, <1>6, <1>7

(* A write makes every copy that was read before it out of date. *)
LEMMA WriteOutdates ==
    ASSUME IInv, sess' # Nil, sess'.rv = rev + 1, UNCHANGED work \/ work' = Nil
    PROVE  /\ ~ UpToDate'
           /\ PassesOwed' = One(Untold(Verdict))'
           /\ PassesOwed' <= 1
  <1>1. ~ UpToDate'
    BY DEF UpToDate, IInv, CopyOf, Numbered, TypeOK, StoreTypeOK
  <1> QED BY <1>1 DEF PassesOwed, One

(* A write that leaves an active Session active, by what it adds. *)
LEMMA ActiveWritePays ==
    ASSUME TypeOK, UNCHANGED <<kids, cachedKids>>, rev' = rev + 1, Active, Active', sess'.uid = sess.uid,
           NEW p \in Nat, Granted' = Granted + p,
           NEW f \in {-1, 0}, f = 0 => sess'.fin = sess.fin, f = -1 => sess'.fin /\ ~ sess.fin,
           NEW x \in Int, NEW h \in Int, NEW s \in Int, 1 + f + x + h + s <= p,
           PassesOwed' <= PassesOwed + x,
           ClaimOwed("home")' <= ClaimOwed("home") + h,
           ClaimOwed("scratch")' <= ClaimOwed("scratch") + s
    PROVE  Pays
  <1>1. DepOwed' = DepOwed /\ SvcOwed' = SvcOwed
    BY DEF DepOwed, SvcOwed, NotCached, ShownReady, Unowned, NoLongerOwned, One
  <1>2. PICK x1 \in Nat, h1 \in Nat, s1 \in Nat, d1 \in Nat, v1 \in Nat :
          /\ x1 = PassesOwed /\ h1 = ClaimOwed("home") /\ s1 = ClaimOwed("scratch")
          /\ d1 = DepOwed /\ v1 = SvcOwed
    BY DebtsAreNumbers
  <1>3. PICK x2 \in Nat, h2 \in Nat, s2 \in Nat :
          x2 = PassesOwed' /\ h2 = ClaimOwed("home")' /\ s2 = ClaimOwed("scratch")'
    BY DebtsAreNumbers
  <1>4. x2 <= x1 + x /\ h2 <= h1 + h /\ s2 <= s1 + s
    BY <1>2, <1>3
  <1>5. /\ StatusesOwed = x1 + h1 + s1 + d1 + v1
        /\ StatusesOwed' = x2 + h2 + s2 + d1 + v1
    BY <1>1, <1>2, <1>3 DEF StatusesOwed
  <1>6. PICK a \in {2, 3}, b \in {2, 3} :
          Owed = a + StatusesOwed /\ Owed' = b + StatusesOwed' /\ b = a + f
    <2>1. /\ Owed = (IF sess.fin THEN 2 ELSE 3) + StatusesOwed
          /\ Owed' = (IF sess'.fin THEN 2 ELSE 3) + StatusesOwed'
      BY DEF Owed, Active
    <2>2. sess.fin \in BOOLEAN
      BY DEF Active, TypeOK, StoreTypeOK, SessionsWith
    <2>3. (IF sess'.fin THEN 2 ELSE 3) = (IF sess.fin THEN 2 ELSE 3) + f
      BY <2>2
    <2>4. (IF sess.fin THEN 2 ELSE 3) \in {2, 3} /\ (IF sess'.fin THEN 2 ELSE 3) \in {2, 3}
      OBVIOUS
    <2> QED BY <2>1, <2>3, <2>4
  <1>7. PICK m \in Nat, n \in Nat : m = Owed /\ n = Owed'
    BY OwedIsNumber
  <1>8. m = a + (x1 + h1 + s1 + d1 + v1) /\ n = b + (x2 + h2 + s2 + d1 + v1)
    BY <1>5, <1>6, <1>7
  <1>9. n <= m + (f + x + h + s) /\ 1 + (f + x + h + s) <= p /\ f + x + h + s \in Int
    BY <1>4, <1>6, <1>8
  <1> DEFINE o == f + x + h + s
  <1>10. Owed' <= Owed + o /\ 1 + o <= p /\ o \in Int
    BY <1>7, <1>9
  <1> HIDE DEF o
  <1> QED BY <1>7, <1>10, WritePays

LEMMA CreatePays ==
    ASSUME IInv, Create
    PROVE  Pays
  <1>1. /\ TypeOK /\ UNCHANGED <<kids, cachedKids, cachedSess, work>> /\ rev' = rev + 1 /\ sess = Nil /\ rev \in Nat
        /\ Granted' = Granted + 9
    BY SpendGrants DEF IInv, TypeOK, StoreTypeOK, Create, BudgetKinds, Price, cache, worker
  <1>2. sess' # Nil /\ sess'.uid = rev + 1 /\ sess'.rv = rev + 1 /\ ~ sess'.fin /\ ~ sess'.deleting
    <2>1. PICK s \in UserSpecs[env.scenario] :
            sess' = [ uid |-> rev + 1, rv |-> rev + 1, fin |-> FALSE,
                      deleting |-> FALSE, spec |-> s, status |-> NoStatus ]
      BY DEF Create
    <2>2. sess' \in SessionsWith(Specs)
      <3>1. NoStatus \in Status
        BY DEF NoStatus, Status
      <3> QED BY <1>1, <2>1, <3>1, GivenSpecs DEF SessionsWith
    <2> QED BY <2>1, <2>2, NilAssumption
  <1>3. PassesOwed' <= 1
    BY <1>1, <1>2, WriteOutdates
  <1>4. \A k : ClaimOwed(k)' <= 1
    BY <1>1, <1>2 DEF IInv, CopyOf, Numbered, ClaimOwed, StaleCopy, Differs, One
  <1>5. PICK x \in 0..1, h \in 0..1, s \in 0..1, d \in 0..1, v \in 0..1 :
          /\ x = PassesOwed' /\ h = ClaimOwed("home")' /\ s = ClaimOwed("scratch")'
          /\ d = DepOwed' /\ v = SvcOwed'
    BY <1>3, <1>4, DebtsAreNumbers
  <1>6. Owed' = 3 + (x + h + s + d + v)
    BY <1>2, <1>5 DEF Owed, StatusesOwed
  <1>7. Owed' <= 0 + 8 /\ Owed = 0 /\ Owed \in Nat /\ Owed' \in Nat /\ 1 + 8 <= 9
    BY <1>1, <1>6, OwedIsNumber
  <1> QED BY <1>1, <1>7, WritePays

(* Every pass may come to another result after an edit, and both claims    *)
(* may now be asked for in another size than a copy shows.                 *)
LEMMA EditPays ==
    ASSUME IInv, Edit
    PROVE  Pays
  <1>1. /\ TypeOK /\ UNCHANGED <<kids, cachedKids, cachedSess, work>> /\ sess # Nil
        /\ Granted' = Granted + 4
    BY SpendGrants DEF IInv, Edit, BudgetKinds, Price, cache, worker
  <1>2. PICK s \in UserSpecs[env.scenario] : s # sess.spec /\ Store([sess EXCEPT !.spec = s])
    BY DEF Edit
  <1> DEFINE new == [sess EXCEPT !.spec = s]
  <1>3. /\ new \in SessionsWith(Specs) /\ new # sess
        /\ new.uid = sess.uid /\ new.fin = sess.fin /\ new.deleting = sess.deleting
    BY <1>1, <1>2, GivenSpecs DEF SessionsWith, TypeOK, StoreTypeOK
  <1>4. /\ rev' = rev + 1 /\ sess' # Nil /\ sess'.rv = rev + 1 /\ sess'.uid = sess.uid
        /\ sess'.fin = sess.fin /\ sess'.deleting = sess.deleting
    BY <1>1, <1>2, <1>3, StoreWrites
  <1>5. CASE sess.deleting
    <2>1. Owed \in Nat /\ Owed' \in Nat /\ Owed' <= Owed + 0
      BY <1>1, <1>4, <1>5, OwedIsNumber
    <2> QED BY <1>1, <1>4, <2>1, WritePays
  <1>6. CASE ~ sess.deleting
    <2>1. Active /\ Active'
      BY <1>1, <1>4, <1>6 DEF Active
    <2>2. PassesOwed' <= PassesOwed + 1
      <3>1. PassesOwed' <= 1
        BY <1>1, <1>4, WriteOutdates
      <3> QED BY <3>1, DebtsAreNumbers
    <2>3. \A k : ClaimOwed(k)' <= ClaimOwed(k) + 1
      BY <1>1, <1>4 DEF ClaimOwed, NoLongerOwned, Unowned, One
    <2> QED BY <1>1, <1>4, <2>1, <2>2, <2>3, ActiveWritePays
  <1> QED BY <1>5, <1>6

LEMMA DeletePays ==
    ASSUME IInv, Delete
    PROVE  Pays
  <1>1. /\ TypeOK /\ UNCHANGED <<kids, env>> /\ sess # Nil /\ ~ sess.deleting
        /\ sess \in SessionsWith(Specs) /\ Granted' = Granted + 0
    BY NothingSpent, GrantedIsNumber DEF IInv, TypeOK, StoreTypeOK, Delete
  <1>2. rev' = rev + 1 /\ (sess' = Nil \/ (sess' # Nil /\ sess'.deleting))
    <2>1. CASE sess.fin
      <3> DEFINE new == [sess EXCEPT !.deleting = TRUE]
      <3>1. new \in SessionsWith(Specs) /\ new # sess /\ new.deleting
        BY <1>1 DEF SessionsWith
      <3> QED BY <1>1, <2>1, <3>1, StoreWrites DEF Delete
    <2>2. CASE ~ sess.fin
      BY <2>2 DEF Delete
    <2> QED BY <2>1, <2>2
  <1>3. PICK m \in Nat, n \in Nat : m = Owed /\ n = Owed'
    BY OwedIsNumber
  <1>4. m >= 2
    <2>1. PICK z \in Nat : z = StatusesOwed
      BY OwedIsNumber
    <2> QED BY <1>1, <1>3, <2>1, OwedIsNumber DEF Active
  <1>5. n <= 1
    BY <1>2, <1>3, OwedIsNumber
  <1>6. Owed' <= Owed + (-1)
    BY <1>3, <1>4, <1>5
  <1> QED BY <1>1, <1>2, <1>3, <1>6, WritePays

(* A write that is no edit changes nothing that a pass looks at, except    *)
(* what its result is compared with.                                       *)
LEMMA SameQuestions ==
    ASSUME UNCHANGED <<kids, cachedKids, cachedSess>>, sess \in SessionsWith(Specs), sess' # Nil,
           sess'.uid = sess.uid, sess'.spec \in {sess.spec, applyDefaults(sess.spec)},
           work' \in {Nil, sess'}
    PROVE  /\ Verdict' = Verdict
           /\ sess'.spec.host = sess.spec.host
           /\ \A k \in Claims : ClaimOwed(k)' <= ClaimOwed(k) + 0
  <1>1. sess.spec \in Specs
    BY DEF SessionsWith
  <1>2. /\ applyDefaults(sess'.spec) = applyDefaults(sess.spec)
        /\ sess'.spec.host = sess.spec.host
        /\ \A k \in Claims : /\ Wanted(k, sess'.spec) <=> Wanted(k, sess.spec)
                             /\ Desired(k, sess'.spec) = Desired(k, sess.spec)
    <2>1. /\ applyDefaults(sess.spec).home = sess.spec.home
          /\ applyDefaults(sess.spec).scratch = sess.spec.scratch
          /\ applyDefaults(sess.spec).host = sess.spec.host
          /\ applyDefaults(applyDefaults(sess.spec)) = applyDefaults(sess.spec)
      BY <1>1, DefaultsComplete DEF applyDefaults, Specs
    <2> QED BY <2>1 DEF Claims, Wanted, Desired
  <1>3. \A k : (NoLongerOwned(k)' <=> NoLongerOwned(k)) /\ (Unowned(k)' <=> Unowned(k))
    BY DEF NoLongerOwned, Unowned
  <1>4. Verdict' = Verdict
    <2>1. (Blocked("home")' <=> Blocked("home")) /\ (Blocked("scratch")' <=> Blocked("scratch"))
      BY <1>2 DEF Blocked, Claims
    <2>2. \A k : (NotCached(k)' <=> NotCached(k)) /\ (Undecided(k)' <=> Undecided(k))
      BY <1>3 DEF NotCached, Undecided
    <2>3. ShownReady' = ShownReady /\ (Negative' <=> Negative)
      BY <1>2 DEF ShownReady, Negative
    <2> QED BY <2>1, <2>2, <2>3 DEF Verdict, FromScratch, FromDep, FromGetdep, FromSvc, FromGetsvc, FromStatus
  <1>5. ASSUME NEW k \in Claims PROVE ClaimOwed(k)' <= ClaimOwed(k) + 0
    <2>1. StaleCopy(k)' => StaleCopy(k)
      BY <1>2 DEF StaleCopy, Differs
    <2> QED BY <1>3, <2>1 DEF ClaimOwed, One
  <1> QED BY <1>2, <1>4, <1>5

LEMMA handleDeletePays ==
    ASSUME IInv, PassInv, handleDelete
    PROVE  Pays
  <1>1. /\ TypeOK /\ work.deleting /\ Idle /\ UNCHANGED <<kids, cachedSess, cachedKids>>
        /\ work # Nil /\ CopyOf(work, sess, rev)
    BY WorkIsSession DEF IInv, handleDelete, Requeue, cache
  <1>2. PICK p \in {0, 2} : Granted' = Granted + p /\ (~ Current => p = 0)
    <2>1. CASE UNCHANGED env
      BY <1>1, <2>1, NothingSpent, GrantedIsNumber
    <2>2. CASE ~ UNCHANGED env
      BY <1>1, <2>2, SpendGrants DEF handleDelete, BudgetKinds, Price
    <2> QED BY <2>1, <2>2
  <1>3. CASE Current
    <2>1. sess # Nil /\ sess.deleting /\ sess' = Nil /\ rev' = rev + 1
      BY <1>1, <1>3, CurrentIsSame DEF handleDelete, Current
    <2>2. Owed \in Nat /\ Owed' \in Nat /\ Owed' <= Owed + (-1) /\ 1 + (-1) <= p /\ p \in Nat
      BY <2>1, OwedIsNumber
    <2> QED BY <1>1, <1>2, <2>1, <2>2, WritePays
  <1>4. CASE ~ Current
    BY <1>1, <1>2, <1>4, DropPays DEF handleDelete
  <1> QED BY <1>3, <1>4

(* The finalizer is one of the writes owed to a new Session. *)
LEMMA ensureFinalizerPays ==
    ASSUME IInv, PassInv, CopiesTellStatus, ensureFinalizer
    PROVE  Pays
  <1>1. /\ TypeOK /\ pc = "finalizer" /\ ~ work.deleting
        /\ UNCHANGED <<kids, cachedSess, cachedKids>>
        /\ work # Nil /\ work \in SessionsWith(FullSpecs) /\ CopyOf(work, sess, rev)
    BY WorkIsSession DEF IInv, ensureFinalizer, cache
  <1>2. CASE work.fin
    <2>1. pc' = "sa" /\ UNCHANGED <<sess, rev, env, work, got>>
      BY <1>2 DEF ensureFinalizer, Goto
    <2>2. Outcome' = Outcome /\ Overlooked' <= Overlooked
      BY <1>1, <2>1, SameVerdict
      DEF Outcome, Overlooked, OverlookedDep, OverlookedSvc, One,
          AfterHome, AfterScratch, AfterGetdep, AfterGetsvc
    <2>3. PassesOwed' <= PassesOwed + 0
      BY <1>1, <2>1, <2>2, PassGoesOn
    <2>4. \A k \in Claims : StaleCopy(k)' => StaleCopy(k)
      BY <1>1, <2>1 DEF StaleCopy, Differs
    <2>5. Granted' = Granted + 0
      BY <1>1, <2>1, NothingSpent, GrantedIsNumber
    <2> QED BY <1>1, <2>1, <2>3, <2>4, <2>5, QuietWorkerPays
  <1>3. CASE ~ work.fin /\ ~ Current
    <2>1. Idle /\ UNCHANGED <<sess, rev, env>>
      BY <1>3 DEF ensureFinalizer, Requeue
    <2>2. Granted' = Granted + 0
      BY <1>1, <2>1, NothingSpent, GrantedIsNumber
    <2> QED BY <1>1, <2>1, <2>2, DropPays
  <1>4. CASE ~ work.fin /\ Current
    <2> DEFINE new == [sess EXCEPT !.fin = TRUE, !.spec = work.spec]
    <2>1. /\ sess # Nil /\ sess \in SessionsWith(Specs) /\ ~ sess.deleting /\ ~ sess.fin
          /\ UpToDate /\ work.spec = applyDefaults(sess.spec)
      BY <1>1, <1>4, UpToDateWork DEF Current, UpToDate, TypeOK, StoreTypeOK, CopiesTellStatus
    <2>2. /\ new \in SessionsWith(Specs) /\ new.uid = sess.uid /\ new # sess
          /\ new.fin /\ ~new.deleting /\ new.spec = work.spec /\ new.status = sess.status
      BY <1>1, <2>1 DEF SessionsWith, FullSpecs
    <2>3. Store(new)
      BY <1>4 DEF ensureFinalizer
    <2>4. /\ rev' = rev + 1 /\ sess' # Nil /\ sess'.uid = sess.uid /\ sess'.fin /\ ~ sess'.deleting
          /\ sess'.spec = applyDefaults(sess.spec) /\ sess'.status = sess.status
      BY <1>1, <2>1, <2>2, <2>3, StoreWrites
    <2>5. PICK p \in {0, 2} : Granted' = Granted + p
      <3>1. CASE UNCHANGED env
        BY <1>1, <3>1, NothingSpent, GrantedIsNumber
      <3>2. CASE ~ UNCHANGED env
        BY <1>1, <1>4, <3>2, SpendGrants DEF ensureFinalizer, BudgetKinds, Price
      <3> QED BY <3>1, <3>2
    <2>6. pc' \in {"sa", "idle"} /\ work' \in {Nil, sess'}
      BY <1>4 DEF ensureFinalizer, Requeue, Idle
    <2>7. /\ Verdict' = Verdict /\ sess'.spec.host = sess.spec.host
          /\ \A k \in Claims : ClaimOwed(k)' <= ClaimOwed(k) + 0
      BY <1>1, <2>1, <2>4, <2>6, SameQuestions
    <2>8. PassesOwed' <= PassesOwed + 0
      <3>1. PassesOwed = One(Untold(Verdict)) /\ PassesOwed \in Nat
        BY <1>1, PassesAreFew
      <3>2. PassesOwed' = One(Untold(Verdict)')
        BY <2>6 DEF PassesOwed, Overlooked, OverlookedDep, OverlookedSvc, Outcome, One,
           AfterHome, AfterScratch, AfterGetdep, AfterGetsvc
      <3>3. Untold(Verdict)' <=> Untold(Verdict)
        BY <2>4, <2>7 DEF Untold
      <3> QED BY <3>1, <3>2, <3>3 DEF One
    <2>9. PICK f \in {-1, 0} : f = -1
      OBVIOUS
    <2>11. /\ Active /\ Active' /\ p \in Nat /\ 1 + f + 0 + 0 + 0 <= p
           /\ f = 0 => sess'.fin = sess.fin
           /\ f = -1 => sess'.fin /\ ~ sess.fin
      BY <2>1, <2>4, <2>5, <2>9 DEF Active
    <2>10. "home" \in Claims /\ "scratch" \in Claims
      BY DEF Claims
    <2> HIDE DEF new
    <2>12. /\ ClaimOwed("home")' <= ClaimOwed("home") + 0
           /\ ClaimOwed("scratch")' <= ClaimOwed("scratch") + 0
      BY <2>7, <2>10
    <2>13. TypeOK /\ UNCHANGED <<kids, cachedKids>> /\ rev' = rev + 1 /\ sess'.uid = sess.uid
      BY <1>1, <2>4
    <2> QED BY ONLY <2>5, <2>8, <2>9, <2>11, <2>12, <2>13, 0 \in Int, ActiveWritePays
  <1> QED BY <1>2, <1>3, <1>4

(* A pass that writes a status has come to a result that was not told, and *)
(* what it writes tells it.                                                *)
LEMMA StatusWritePays ==
    ASSUME IInv, PassInv, pc \notin {"idle", "finalizer"}, Idle,
           UNCHANGED <<kids, cachedSess, cachedKids, env>>, NEW st \in Status, WriteStatus(st),
           Current => /\ st # sess.status => Untold(Outcome)
                      /\ Tells(st, sess.spec.host, Outcome)
    PROVE  Pays
  <1>1. /\ TypeOK /\ work # Nil /\ CopyOf(work, sess, rev) /\ ~ work.deleting
        /\ Granted' = Granted + 0 /\ pc \in WorkerSteps
    BY NothingSpent, GrantedIsNumber, WorkIsSession DEF IInv, WorkerInv, TypeOK, WorkerTypeOK
  <1>2. CASE UNCHANGED <<sess, rev>>
    BY <1>1, <1>2, DropPays
  <1>3. CASE ~ UNCHANGED <<sess, rev>>
    <2>1. /\ Current /\ rev' = rev + 1 /\ NewVersion(sess, sess', rev)
          /\ sess'.fin = sess.fin /\ sess'.deleting = sess.deleting
          /\ sess'.spec = sess.spec /\ sess'.status = st
      BY <1>3, StatusWrites
    <2>2. /\ sess # Nil /\ sess \in SessionsWith(Specs) /\ sess' # Nil /\ sess'.uid = sess.uid
          /\ UpToDate
      BY <1>1, <2>1 DEF NewVersion, TypeOK, StoreTypeOK, Current, UpToDate
    <2>3. Active /\ Active'
      BY <1>1, <2>1, <2>2, CurrentIsSame DEF Active
    <2>4. st # sess.status
      <3>1. st = sess.status => [sess EXCEPT !.status = st] = sess
        BY <2>2 DEF SessionsWith
      <3>2. Store([sess EXCEPT !.status = st])
        BY <2>1 DEF WriteStatus
      <3> QED BY <1>3, <3>1, <3>2 DEF Store
    <2>5. /\ Verdict' = Verdict /\ sess'.spec.host = sess.spec.host
          /\ \A k \in Claims : ClaimOwed(k)' <= ClaimOwed(k) + 0
      BY <2>1, <2>2, SameQuestions DEF Idle
    <2>6. PassesOwed' <= PassesOwed + (-1)
      <3>1. PICK o \in Nat : o = Overlooked
        BY DEF Overlooked, One
      <3>2. PassesOwed = 1 + o
        BY <2>1, <2>2, <2>4, <3>1 DEF PassesOwed, One
      <3>3. PassesOwed' = One(Untold(Verdict)')
        BY DEF PassesOwed, UpToDate, Idle, One
      <3>4. Overlooked = 0 => ~ Untold(Verdict)'
        <4> SUFFICES ASSUME Overlooked = 0 PROVE ~ Untold(Verdict)'
          OBVIOUS
        <4>1. Verdict = Outcome
          BY <2>2, NothingOverlooked, PassIsAllowed
        <4>2. Tells(st, sess.spec.host, Verdict)
          BY <2>1, <4>1
        <4> QED BY <2>1, <2>5, <4>2 DEF Untold
      <3>5. One(Untold(Verdict)') <= o
        BY <3>1, <3>4 DEF One
      <3>6. PassesOwed' \in Nat
        BY DebtsAreNumbers
      <3> QED BY <3>2, <3>3, <3>5, <3>6
    <2>7. 0 \in {-1, 0} /\ 0 # -1 /\ 1 + 0 + (-1) + 0 + 0 <= 0 /\ 0 \in Nat
      OBVIOUS
    <2>8. "home" \in Claims /\ "scratch" \in Claims
      BY DEF Claims
    <2> QED BY <1>1, <2>1, <2>2, <2>3, <2>5, <2>6, <2>7, <2>8, ActiveWritePays
  <1> QED BY <1>2, <1>3

LEMMA updateStatusPays ==
    ASSUME IInv, PassInv, CopiesTellStatus, updateStatus
    PROVE  Pays
  <1> DEFINE st == [ phase  |-> IF got THEN "Ready" ELSE "Pending",
                     url    |-> work.spec.host,
                     reason |-> work.status.reason ]
  <1>1. /\ TypeOK /\ pc = "status" /\ work # Nil /\ work \in SessionsWith(FullSpecs)
        /\ Idle /\ WriteStatus(st) /\ UNCHANGED <<kids, cachedSess, cachedKids, env>>
    BY WorkIsSession DEF IInv, updateStatus, Requeue, cache
  <1>2. st \in Status
    BY <1>1 DEF SessionsWith, FullSpecs, Specs, Status
  <1>3. ASSUME Current
        PROVE  /\ st # sess.status => Untold(Outcome)
               /\ Tells(st, sess.spec.host, Outcome)
    <2>1. sess # Nil /\ UpToDate /\ sess.status \in Status
      BY <1>1, <1>3 DEF Current, UpToDate, TypeOK, StoreTypeOK, SessionsWith
    <2>2. work.spec.host = sess.spec.host /\ work.status = sess.status
      BY <1>1, <2>1, UpToDateWork DEF CopiesTellStatus, UpToDate
    <2>3. Outcome = IF got THEN "up" ELSE "down"
      BY <1>1 DEF Outcome, FromStatus
    <2>4. "up" \notin Kinds /\ "down" \notin Kinds
      BY DEF Kinds
    <2>5. Tells(st, sess.spec.host, Outcome)
      BY <2>2, <2>3 DEF Tells
    <2>6. ASSUME ~ Untold(Outcome) PROVE st = sess.status
      <3>1. st.phase = sess.status.phase /\ st.url = sess.status.url /\ st.reason = sess.status.reason
        BY <2>2, <2>3, <2>4, <2>6 DEF Untold, Tells
      <3> QED BY <1>2, <2>1, <3>1 DEF Status
    <2> QED BY <2>5, <2>6
  <1> HIDE DEF st
  <1> QED BY <1>1, <1>2, <1>3, StatusWritePays

LEMMA failStatusPays ==
    ASSUME IInv, PassInv, CopiesTellStatus, failStatus
    PROVE  Pays
  <1>1. /\ TypeOK /\ pc = "fail" /\ work # Nil /\ work \in SessionsWith(FullSpecs)
        /\ work.status \in Status /\ work.status.phase = "Error" /\ work.status.reason \in Kinds
        /\ Idle /\ WriteStatus(work.status) /\ UNCHANGED <<kids, cachedSess, cachedKids, env>>
    BY WorkIsSession DEF IInv, WorkerInv, PassInv, failStatus, Requeue, cache, SessionsWith
  <1>2. Outcome = work.status.reason
    BY <1>1 DEF Outcome
  <1>3. ASSUME Current
        PROVE  /\ work.status # sess.status => Untold(Outcome)
               /\ Tells(work.status, sess.spec.host, Outcome)
    <2>1. sess # Nil /\ sess.status \in Status
      BY <1>1, <1>3 DEF Current, TypeOK, StoreTypeOK, SessionsWith
    <2>2. work.status = [sess.status EXCEPT !.phase = "Error", !.reason = work.status.reason]
      BY <1>1, <1>3, <2>1 DEF Current, CopiesTellStatus
    <2>3. "up" \notin Kinds /\ "down" \notin Kinds
      BY DEF Kinds
    <2>4. ASSUME ~ Untold(Outcome) PROVE work.status = sess.status
      <3>1. sess.status.phase = "Error" /\ sess.status.reason = work.status.reason
        BY <1>1, <1>2, <2>3, <2>4 DEF Untold, Tells
      <3>2. \A s \in Status : \A r : s.phase = "Error" /\ s.reason = r =>
              [s EXCEPT !.phase = "Error", !.reason = r] = s
        BY DEF Status
      <3> QED BY <2>1, <2>2, <3>1, <3>2
    <2> QED BY <1>1, <1>2, <2>4 DEF Tells
  <1> QED BY <1>1, <1>2, <1>3, StatusWritePays

-----------------------------------------------------------------------------
(* What the count relies on stays true. *)

(* After a write of the Session no copy read before it looks up to date.   *)
LEMMA WritesKeepTelling ==
    ASSUME IInv, sess' = Nil \/ sess'.rv = rev + 1, UNCHANGED cachedSess, UNCHANGED work \/ work' = Nil
    PROVE  CopiesTellStatus'
  BY DEF CopiesTellStatus, IInv, CopyOf, Numbered, TypeOK, StoreTypeOK

LEMMA QuietStepsKeepTelling ==
    ASSUME CopiesTellStatus, UNCHANGED sess, UNCHANGED cachedSess \/ cachedSess' = sess,
           \/ work' = Nil
           \/ UNCHANGED work /\ (pc' = "fail" <=> pc = "fail")
    PROVE  CopiesTellStatus'
  BY DEF CopiesTellStatus

LEMMA FailKeepsTelling ==
    ASSUME TypeOK, CopiesTellStatus, UNCHANGED <<sess, cachedSess>>, work # Nil, pc # "fail",
           NEW k \in Kinds, Fail(k)
    PROVE  CopiesTellStatus'
  <1>1. /\ pc' = "fail" /\ work' # Nil /\ work'.rv = work.rv /\ work'.fin = work.fin
        /\ work'.status = [work.status EXCEPT !.phase = "Error", !.reason = k]
        /\ work'.status.reason = k
    BY FailBlames
  <1> QED BY <1>1 DEF CopiesTellStatus

LEMMA StartKeepsTelling ==
    ASSUME TypeOK, CopiesTellStatus, StartReconcile
    PROVE  CopiesTellStatus'
  <1>1. UNCHANGED <<sess, cachedSess>>
    BY DEF StartReconcile, store, cache
  <1>2. CASE cachedSess = Nil
    BY <1>1, <1>2, QuietStepsKeepTelling DEF StartReconcile, worker
  <1>3. CASE cachedSess # Nil
    <2>1. cachedSess \in SessionsWith(Specs)
      BY <1>3 DEF TypeOK, CacheTypeOK
    <2>2. pc' = "finalizer" /\ work' = [cachedSess EXCEPT !.spec = applyDefaults(cachedSess.spec)]
      BY <1>3 DEF StartReconcile
    <2>3. work'.rv = cachedSess.rv /\ work'.fin = cachedSess.fin /\ work'.status = cachedSess.status
      BY <2>1, <2>2 DEF SessionsWith
    <2> QED BY <1>1, <1>3, <2>2, <2>3 DEF CopiesTellStatus
  <1> QED BY <1>2, <1>3

LEMMA UsersKeepTelling ==
    ASSUME IInv, Create \/ Edit \/ Delete
    PROVE  CopiesTellStatus'
  <1>1. TypeOK /\ UNCHANGED <<cachedSess, work>>
    BY DEF IInv, Create, Edit, Delete, cache, worker
  <1>2. sess' = Nil \/ sess'.rv = rev + 1
    <2>1. CASE Create
      BY <2>1 DEF Create
    <2>2. CASE Edit
      <3>1. PICK s \in UserSpecs[env.scenario] : s # sess.spec /\ Store([sess EXCEPT !.spec = s])
        BY <2>2 DEF Edit
      <3> DEFINE new == [sess EXCEPT !.spec = s]
      <3>2. sess # Nil /\ new \in SessionsWith(Specs) /\ new # sess
        BY <1>1, <2>2, <3>1, GivenSpecs DEF Edit, SessionsWith, TypeOK, StoreTypeOK
      <3> QED BY <1>1, <3>1, <3>2, StoreWrites
    <2>3. CASE Delete
      <3> DEFINE new == [sess EXCEPT !.deleting = TRUE]
      <3>1. sess # Nil /\ new \in SessionsWith(Specs) /\ new # sess
        BY <1>1, <2>3 DEF Delete, SessionsWith, TypeOK, StoreTypeOK
      <3> QED BY <1>1, <2>3, <3>1, StoreWrites DEF Delete
    <2> QED BY <2>1, <2>2, <2>3
  <1> QED BY <1>1, <1>2, WritesKeepTelling

LEMMA ensureFinalizerKeepsTelling ==
    ASSUME IInv, CopiesTellStatus, ensureFinalizer
    PROVE  CopiesTellStatus'
  <1>1. TypeOK /\ pc = "finalizer" /\ UNCHANGED cachedSess
    BY DEF IInv, ensureFinalizer, cache
  <1>2. CASE work.fin \/ ~ Current
    <2>1. UNCHANGED sess /\ (work' = Nil \/ (UNCHANGED work /\ pc' = "sa"))
      BY <1>2 DEF ensureFinalizer, Goto, Requeue, Idle
    <2> QED BY <1>1, <2>1, QuietStepsKeepTelling
  <1>3. CASE ~ (work.fin \/ ~ Current)
    <2> DEFINE new == [sess EXCEPT !.fin = TRUE, !.spec = work.spec]
    <2>1. sess # Nil /\ sess \in SessionsWith(Specs) /\ work \in SessionsWith(FullSpecs)
      BY <1>1, <1>3, WorkIsSession DEF Current, TypeOK, StoreTypeOK
    <2>2. new \in SessionsWith(Specs) /\ Store(new)
      BY <1>3, <2>1 DEF ensureFinalizer, SessionsWith, FullSpecs
    <2>3. UNCHANGED sess \/ sess'.rv = rev + 1
      BY <1>1, <2>1, <2>2, StoreWrites
    <2>4. (work' = sess' /\ pc' = "sa") \/ work' = Nil
      BY <1>3 DEF ensureFinalizer, Requeue, Idle
    <2>5. cachedSess # Nil => cachedSess.rv <= rev /\ rev \in Nat
      BY DEF IInv, CopyOf, Numbered, TypeOK, StoreTypeOK
    <2> QED BY <1>1, <2>3, <2>4, <2>5 DEF CopiesTellStatus
  <1> QED BY <1>2, <1>3

LEMMA statusKeepsTelling ==
    ASSUME IInv, CopiesTellStatus, updateStatus \/ failStatus
    PROVE  CopiesTellStatus'
  <1>1. UNCHANGED cachedSess /\ work' = Nil
    BY DEF updateStatus, failStatus, Requeue, Idle, cache
  <1>2. UNCHANGED sess \/ sess'.rv = rev + 1
    BY StatusIsTyped, StatusWrites DEF NewVersion
  <1> QED BY <1>1, <1>2, WritesKeepTelling, QuietStepsKeepTelling

LEMMA TellingStep ==
    ASSUME IInv, CopiesTellStatus, [Next]_vars
    PROVE  CopiesTellStatus'
  <1>1. TypeOK
    BY DEF IInv
  <1>2. CASE \/ Informers \/ Readiness \/ ScaledDown \/ Restart \/ UNCHANGED vars
             \/ \E k \in Kinds : Collect(k) \/ Drift(k)
    <2>1. /\ UNCHANGED sess /\ (UNCHANGED cachedSess \/ cachedSess' = sess)
          /\ UNCHANGED <<pc, work>> \/ work' = Nil
      BY <1>2 DEF Informers, SyncSession, SyncChild, DelayOver, Readiness, ScaledDown, Restart, Idle,
         Collect, Drift, vars, store, cache, worker
    <2> QED BY <2>1, QuietStepsKeepTelling
  <1>3. ASSUME CallFails \/ getDeployment \/ getService \/ \E k \in Kinds : reconcileChild(k)
        PROVE  CopiesTellStatus'
    <2>1. UNCHANGED <<sess, cachedSess>> /\ pc # "idle"
      BY <1>3 DEF CallFails, getDeployment, getService, reconcileChild, store, cache, Kinds
    <2>2. \/ work' = Nil
          \/ UNCHANGED work /\ pc # "fail" /\ pc' # "fail"
          \/ pc # "fail" /\ \E k \in Kinds : Fail(k)
      <3>1. CASE CallFails \/ getDeployment \/ getService
        BY <3>1 DEF CallFails, getDeployment, getService, Requeue, Idle, Goto, Kinds
      <3>2. ASSUME NEW k \in Kinds, reconcileChild(k)
            PROVE  pc # "fail" /\ (Fail(k) \/ (UNCHANGED work /\ pc' # "fail"))
        <4>1. pc = k /\ (Goto(After[k]) \/ Fail(k))
          BY <3>2 DEF reconcileChild
        <4>2. After[k] # "fail" /\ k # "fail"
          BY DEF After, Kinds
        <4> QED BY <4>1, <4>2 DEF Goto
      <3> QED BY <1>3, <3>1, <3>2
    <2> QED BY <1>1, <2>1, <2>2, WorkIsSession, FailKeepsTelling, QuietStepsKeepTelling
  <1>4. CASE handleDelete
    BY <1>4, WritesKeepTelling, QuietStepsKeepTelling DEF handleDelete, Requeue, Idle, cache
  <1> QED BY <1>1, <1>2, <1>3, <1>4, StartKeepsTelling, UsersKeepTelling, ensureFinalizerKeepsTelling,
         statusKeepsTelling
      DEF Next, Controller, Environment

(* The worker's own memory of the pass. *)
LEMMA PassIsKept ==
    ASSUME PassInv, UNCHANGED <<pc, work>>,
           \A k \in {"dep", "svc"} : kids'[k] # Nil => kids[k] # Nil /\ kids'[k].owner = kids[k].owner
    PROVE  PassInv'
  BY DEF PassInv

LEMMA PassBegins == pc' \in {"idle", "finalizer", "sa", "home", "scratch", "dep"} => PassInv'
  BY DEF PassInv, AfterGetdep, AfterGetsvc

LEMMA PassFails ==
    ASSUME TypeOK, work # Nil, NEW k \in Kinds, Fail(k)
    PROVE  PassInv'
  BY FailBlames DEF PassInv, AfterGetdep, AfterGetsvc

LEMMA PassContinues ==
    ASSUME IInv, PassInv, NEW k \in Kinds, reconcileChild(k)
    PROVE  PassInv'
  <1>1. TypeOK /\ work # Nil /\ pc = k
    BY WorkIsSession DEF IInv, reconcileChild, Kinds
  <1>2. CASE Fail(k)
    BY <1>1, <1>2, PassFails
  <1>3. CASE ~ Fail(k)
    <2>1. /\ UNCHANGED work /\ pc' = After[k]
          /\ \/ ~ Wanted(k, work.spec) /\ UNCHANGED kids
             \/ /\ Wanted(k, work.spec) /\ ~ Rejected(k, work.spec)
                /\ kids' = [kids EXCEPT ![k] = Applied(k)]
      BY <1>3 DEF reconcileChild, Goto
    <2>2. CASE k \in {"sa", "home", "scratch"}
      BY <2>1, <2>2, PassBegins DEF After
    <2>3. CASE k \in {"dep", "svc", "ing"}
      <3>1. /\ k # "ing" => kids'[k].owner = work.uid
            /\ \A j \in Kinds \ {k} : kids'[j] = kids[j]
        BY <1>1, <2>1, <2>3, AppliedChild DEF Wanted
      <3>2. k = "dep" => ~ (work.spec.replicas < 0)
        BY <2>1 DEF Wanted, Rejected
      <3> QED BY <1>1, <2>1, <2>3, <3>1, <3>2 DEF PassInv, After, Kinds, AfterGetdep, AfterGetsvc
    <2> QED BY <2>2, <2>3 DEF Kinds
  <1> QED BY <1>2, <1>3

LEMMA PassStep ==
    ASSUME IInv, PassInv, [Next]_vars
    PROVE  PassInv'
  <1>1. TypeOK
    BY DEF IInv
  <1>2. CASE Create \/ Edit \/ Delete \/ Informers \/ UNCHANGED vars
    <2>1. UNCHANGED <<pc, work, kids>>
      BY <1>2 DEF Create, Edit, Delete, Informers, SyncSession, SyncChild, DelayOver, vars, store, worker
    <2> QED BY <2>1, PassIsKept
  <1>3. CASE Readiness \/ ScaledDown \/ \E k \in Kinds : Collect(k) \/ Drift(k)
    <2>1. UNCHANGED <<pc, work>>
      BY <1>3 DEF Readiness, ScaledDown, Collect, Drift, worker
    <2>2. ASSUME NEW k \in {"dep", "svc"}, kids'[k] # Nil
          PROVE  kids[k] # Nil /\ kids'[k].owner = kids[k].owner
      <3>1. /\ kids = [j \in Kinds |-> kids[j]]
            /\ kids["dep"] # Nil => kids["dep"] \in Children("dep")
            /\ k \in Kinds
        BY <1>1 DEF TypeOK, StoreTypeOK, Kinds
      <3>2. CASE \E j \in Kinds : Collect(j) \/ Drift(j)
        BY <2>2, <3>1, <3>2 DEF Collect, Drift
      <3>3. CASE Readiness \/ ScaledDown
        BY <2>2, <3>1, <3>3 DEF Readiness, ScaledDown, Children
      <3> QED BY <1>3, <3>2, <3>3
    <2> QED BY <2>1, <2>2, PassIsKept
  <1>4. CASE StartReconcile
    <2>1. UNCHANGED <<pc, work, kids>> \/ pc' = "finalizer"
      BY <1>4 DEF StartReconcile, worker, store
    <2> QED BY <2>1, PassIsKept, PassBegins
  <1>5. CASE handleDelete \/ ensureFinalizer \/ updateStatus \/ failStatus \/ Restart
    BY <1>5, PassBegins DEF handleDelete, ensureFinalizer, updateStatus, failStatus, Restart, Requeue, Idle, Goto
  <1>6. CASE getDeployment \/ getService
    <2>1. work # Nil /\ UNCHANGED kids
      BY <1>1, <1>6, WorkIsSession DEF getDeployment, getService, store
    <2>2. CASE \E k \in Kinds : Fail(k)
      BY <1>1, <2>1, <2>2, PassFails
    <2>3. CASE ~ \E k \in Kinds : Fail(k)
      BY <1>6, <2>1, <2>3 DEF getDeployment, getService, Goto, Kinds, PassInv, AfterGetdep, AfterGetsvc
    <2> QED BY <2>2, <2>3
  <1>7. CASE CallFails
    <2>1. pc' = "idle" \/ (pc # "idle" /\ \E k \in Kinds : Fail(k))
      BY <1>7 DEF CallFails, Requeue, Idle, Kinds
    <2> QED BY <1>1, <2>1, WorkIsSession, PassFails, PassBegins
  <1> QED BY <1>2, <1>3, <1>4, <1>5, <1>6, <1>7, PassContinues DEF Next, Controller, Environment

-----------------------------------------------------------------------------
(* The books are kept. *)

LEMMA StepPays ==
    ASSUME IInv, PassInv, CopiesTellStatus, [Next]_vars
    PROVE  Pays
  <1>1. CASE DelayOver \/ UNCHANGED vars
    BY <1>1, BystandersPay DEF DelayOver, vars, store, cache, worker
  <1> QED BY <1>1, CollectPays, DriftPays, ReadinessPays, SyncSessionPays, SyncChildPays, StartPays,
         readsPay, CallFailsPays, RestartPays, reconcileChildPays, CreatePays, EditPays, DeletePays,
         handleDeletePays, ensureFinalizerPays, updateStatusPays, failStatusPays
      DEF Next, Controller, Informers, Environment

LEMMA InitAccounts == Init => Accounts
  <1> SUFFICES ASSUME Init PROVE Accounts
    OBVIOUS
  <1>1. CopiesTellStatus /\ PassInv
    BY DEF Init, CopiesTellStatus, PassInv, AfterGetdep, AfterGetsvc
  <1>2. Owed = 0 /\ PodsOwed = 0 /\ rev = 0
    BY DEF Init, Owed, PodsOwed, One, Kinds
  <1>3. Granted = 0
    <2>1. PICK s \in Scenarios : env = [scenario |-> s, left |-> Budget[s]]
      BY DEF Init
    <2>2. \A b \in BudgetKinds : Spent(b) = 0
      <3>1. \A b \in BudgetKinds : Budget[s][b] \in Nat
        BY BudgetAssumption
      <3> QED BY <2>1, <3>1 DEF Spent
    <2> QED BY <2>2 DEF Granted, BudgetKinds
  <1>4. WritesInv
    BY <1>2, <1>3 DEF WritesInv
  <1> QED BY <1>1, <1>4 DEF Accounts

LEMMA AccountsStep == IInv /\ Accounts /\ [Next]_vars /\ IInv' => Accounts'
  <1> SUFFICES ASSUME IInv, Accounts, [Next]_vars, IInv' PROVE Accounts'
    OBVIOUS
  <1>1. CopiesTellStatus' /\ PassInv'
    BY TellingStep, PassStep DEF Accounts
  <1>2. WritesInv'
    <2>1. Pays
      BY StepPays DEF Accounts
    <2>2. PICK r \in Nat, o \in Nat, q \in Nat, g \in Int : r = rev /\ o = Owed /\ q = PodsOwed /\ g = Granted
      BY OwedIsNumber, DebtsAreNumbers, GrantedIsNumber DEF IInv, TypeOK, StoreTypeOK
    <2>3. PICK s \in Nat, p \in Nat, t \in Nat : s = rev' /\ p = Owed' /\ t = PodsOwed'
      BY OwedIsNumber, DebtsAreNumbers DEF IInv, TypeOK, StoreTypeOK
    <2>4. PICK h \in Int : h = Granted'
      <3>1. \A b \in BudgetKinds : Budget[env'.scenario][b] \in Nat /\ env'.left[b] \in Nat
        BY BudgetAssumption DEF IInv, TypeOK, Env
      <3>0. \A b \in BudgetKinds : Spent(b)' \in Int
        BY <3>1 DEF Spent
      <3> HIDE DEF Spent
      <3>2. PICK c \in Int, e \in Int, f \in Int, n \in Int, d \in Int, a \in Int :
              /\ c = Spent("create")' /\ e = Spent("edit")' /\ f = Spent("fault")'
              /\ n = Spent("readiness")' /\ d = Spent("drift")' /\ a = Spent("restart")'
        BY <3>0 DEF BudgetKinds
      <3>3. Granted' = 9 * c + 4 * e + 2 * (f + n + d + a)
        BY <3>2 DEF Granted
      <3> QED BY <3>3
    <2>5. s + p + t - h <= r + o + q - g /\ r + o + q <= g
      BY <2>1, <2>2, <2>3, <2>4 DEF Pays, WritesInv, Accounts
    <2>6. s + p + t <= h
      BY <2>5
    <2> QED BY <2>3, <2>4, <2>6 DEF WritesInv
  <1> QED BY <1>1, <1>2 DEF Accounts

(* What is written and what is still owed has been granted, in every state. *)
THEOREM AccountsHold == Safety => []AccountedInv
  BY InitAccounts, AccountsStep, Invariance, PTL DEF Safety, AccountedInv

(* The loop of the controller and its own events dies out: a Session is    *)
(* written a bounded number of times for everything that happens to it.    *)
THEOREM WritesAreBounded == Safety => []WritesAreCaused
  <1>1. AccountedInv => WritesAreCaused
    <2> SUFFICES ASSUME IInv, Accounts PROVE WritesAreCaused
      BY DEF AccountedInv
    <2>1. PICK r \in Nat, o \in Nat, q \in Nat, g \in Int : r = rev /\ o = Owed /\ q = PodsOwed /\ g = Granted
      BY OwedIsNumber, DebtsAreNumbers, GrantedIsNumber DEF IInv, TypeOK, StoreTypeOK
    <2>2. r + o + q <= g
      BY <2>1 DEF Accounts, WritesInv
    <2>3. rev <= Granted
      BY <2>1, <2>2
    <2> QED BY <2>3 DEF WritesAreCaused, Granted
  <1> QED BY <1>1, AccountsHold, PTL
=============================================================================

----------------------------- MODULE WebAuthProofs -----------------------------
(***************************************************************************)
(* Theorems about WebAuth, for any users and any number of sign-ins,       *)
(* sign-outs, reloads, expiries and faults.                                *)
(***************************************************************************)
EXTENDS WebAuth, TLAPS

(* What the guard believes it was told, and what it has shows only as long *)
(* as it believes it: the inductive strengthening of ContentIsConfirmed.   *)
GuardWasTold(d, told) ==
    /\ d.auth["guard"].on \/ d.auth["guard"] = Unmounted
    /\ d.auth["guard"].me \in Users => d.auth["guard"].me \in told
    /\ Authenticated(d.auth["guard"]) => d.auth["guard"].user \in told
LetIn(d) == d.auth["chrome"].on => Authenticated(d.auth["guard"])

GuardInv == TypeOK /\ GuardWasTold(doc, confirmed) /\ LetIn(doc)

-----------------------------------------------------------------------------
(* Rendering.                                                              *)

LEMMA MountedTyped == \A co \in MaybeUser : Mounted(co) \in Auths /\ Unmounted \in Auths
  BY DEF Mounted, Unmounted, Auths, MaybeUser, Progress

LEMMA RedirectedTyped ==
    ASSUME NEW d \in Documents
    PROVE  /\ Redirected(d) \in Documents
           /\ Redirected(d).auth = d.auth /\ Redirected(d).ix = d.ix
           /\ Redirected(d).features = d.features
  BY DEF Redirected, Documents, Pages

(* A render keeps the shape of the document; the guard is gone, new, or as *)
(* the callback left it; and nothing is behind it that it does not let in. *)
LEMMA Rendered ==
    ASSUME NEW old \in Documents, NEW new \in Documents, NEW co \in MaybeUser
    PROVE  /\ Render(old, new, co) \in Documents
           /\ Render(old, new, co).auth["guard"] \in {Unmounted, Mounted(co), new.auth["guard"]}
           /\ LetIn(Render(old, new, co))
<1> DEFINE d == Redirected(new)
           F(h) == Fetching(old, d, h, co)
           e == [d EXCEPT !.ix = [h \in Hooks |-> F(h)]]
           M(i) == Mounting(old, d, e, i, co)
           again == ~ d.auth["login"].on \/ Remade(old, e, "login")
           f == IF d.page # "login" THEN "none" ELSE IF again THEN "asked" ELSE e.features
           r == Render(old, new, co)
<1>1. d \in Documents /\ d.auth = new.auth
  BY RedirectedTyped
<1>2. \A h \in Hooks : F(h) \in Fetches
  <2> TAKE h \in Hooks
  <2>1. d.ix[h] \in Fetches /\ Unasked \in Fetches
    BY <1>1 DEF Documents, Unasked, Fetches, MaybeUser, Progress
  <2>2. \A g \in Fetches :
           [g EXCEPT !.on = ~ g.on, !.req = IF g.on THEN "none" ELSE "asked"] \in Fetches
    BY DEF Fetches, Progress
  <2> HIDE DEF d
  <2> QED BY <2>1, <2>2 DEF Fetching
<1>3. \A i \in Instances : M(i) \in Auths
  <2> TAKE i \in Instances
  <2>1. d.auth[i] \in Auths
    BY <1>1 DEF Documents
  <2> HIDE DEF d, e
  <2> QED BY <2>1, MountedTyped DEF Mounting
<1>4. r = [e EXCEPT !.auth = [i \in Instances |-> M(i)], !.features = f]
  BY DEF Render
<1>5. /\ e = [page |-> d.page, from |-> d.from, auth |-> d.auth, ix |-> [h \in Hooks |-> F(h)],
              features |-> d.features]
      /\ e \in Documents
  <2> HIDE DEF d, F
  <2> QED BY <1>1, <1>2 DEF Documents
<1>6. f \in {"none", "asked", "failed", "shown"}
  <2>1. e.features \in {"none", "asked", "failed", "shown"}
    BY <1>5 DEF Documents
  <2> HIDE DEF d, e, again
  <2> QED BY <2>1
<1>7. r \in Documents /\ r.auth = [i \in Instances |-> M(i)]
  <2> HIDE DEF d, e, f, M, r
  <2> QED BY <1>3, <1>4, <1>5, <1>6 DEF Documents
<1>8. r.auth["guard"] = M("guard") /\ r.auth["chrome"] = M("chrome")
  <2> HIDE DEF d, e, M, r
  <2> QED BY <1>7 DEF Instances
<1>9. M("guard") \in {Unmounted, Mounted(co), new.auth["guard"]}
  <2> HIDE DEF d, e
  <2> QED BY <1>1 DEF Mounting
<1>10. ASSUME M("chrome").on PROVE Authenticated(M("guard"))
  <2>1. Wanted(d, "chrome")
    <3> HIDE DEF d, e
    <3> QED BY <1>10 DEF Unmounted, Mounting
  <2>2. Wanted(d, "guard") /\ d.auth["guard"].on /\ Authenticated(d.auth["guard"])
    BY <2>1 DEF Wanted, Authenticated
  <2>3. ~ Remade(old, e, "guard")
    BY DEF Remade
  <2>4. M("guard") = d.auth["guard"]
    <3> HIDE DEF d, e
    <3> QED BY <2>2, <2>3 DEF Mounting
  <2> QED BY <2>2, <2>4
<1> HIDE DEF r, M
<1> QED BY <1>7, <1>8, <1>9, <1>10 DEF r, LetIn

LEMMA RenderKeepsGuard ==
    ASSUME NEW old \in Documents, NEW new \in Documents, NEW co \in MaybeUser, NEW told,
           GuardWasTold(new, told) \/ new.auth["guard"] = Unmounted
    PROVE  LET r == Render(old, new, co) IN
           GuardWasTold(r, IF r.auth["guard"].on THEN told ELSE {})
<1> DEFINE r == Render(old, new, co)
<1>1. /\ r.auth["guard"] \in {Unmounted, Mounted(co), new.auth["guard"]}
      /\ new.auth["guard"] \in Auths
  BY Rendered DEF Documents, Instances
<1>2. "none" \notin Users /\ "asked" \notin Users
  BY UsersAssumption DEF Progress
<1> SUFFICES GuardWasTold(r, IF r.auth["guard"].on THEN told ELSE {})
  OBVIOUS
<1> HIDE DEF r
<1>3. CASE r.auth["guard"] = Unmounted
  BY <1>1, <1>2, <1>3 DEF GuardWasTold, Unmounted, Authenticated
<1>4. CASE r.auth["guard"] = Mounted(co)
  BY <1>1, <1>2, <1>4 DEF GuardWasTold, Mounted, Authenticated
<1>5. CASE r.auth["guard"] = new.auth["guard"]
  <2>1. CASE r.auth["guard"].on
    BY <1>1, <1>2, <1>5, <2>1 DEF GuardWasTold, Unmounted, Authenticated
  <2>2. CASE ~ r.auth["guard"].on
    BY <1>1, <1>3, <1>5, <2>2 DEF GuardWasTold
  <2> QED BY <2>1, <2>2
<1> QED BY <1>1, <1>3, <1>4, <1>5

LEMMA BlankTyped ==
    ASSUME NEW page \in Pages, NEW from \in Contents
    PROVE  Blank(page, from) \in Documents /\ Blank(page, from).auth["guard"] = Unmounted
<1>1. Unasked \in Fetches /\ Unmounted \in Auths
  BY DEF Unasked, Fetches, Unmounted, Auths, MaybeUser, Progress
<1> QED BY <1>1 DEF Blank, Documents, Instances

LEMMA LoadedTyped ==
    ASSUME NEW page \in Pages, NEW from \in Contents, NEW co \in MaybeUser
    PROVE  LET d == Loaded(page, from, co) IN d \in Documents /\ GuardWasTold(d, {}) /\ LetIn(d)
<1> DEFINE b == Blank(page, from)
           d == Loaded(page, from, co)
<1>1. b \in Documents /\ b.auth["guard"] = Unmounted
  BY BlankTyped
<1> HIDE DEF b
<1>2. d = Render(b, b, co)
  BY DEF Loaded, b
<1>3. d \in Documents /\ LetIn(d)
  BY <1>1, <1>2, Rendered
<1>4. GuardWasTold(d, IF d.auth["guard"].on THEN {} ELSE {})
  BY <1>1, <1>2, RenderKeepsGuard, Zenon
<1> QED BY <1>3, <1>4

(* What a callback leaves is rendered: the one step behind every Show.     *)
LEMMA Shown ==
    ASSUME GuardInv, NEW new \in Documents, NEW co \in MaybeUser,
           Show(new, co), GuardWasTold(new, confirmed)
    PROVE  /\ doc' \in Documents /\ GuardWasTold(doc', confirmed') /\ LetIn(doc')
           /\ stray' \subseteq {"asked", "refused"} /\ confirmed' \subseteq Users
<1>1. doc \in Documents /\ stray \subseteq {"asked", "refused"} /\ confirmed \subseteq Users
  BY DEF GuardInv, TypeOK
<1>2. doc' = Render(doc, new, co)
  BY DEF Show
<1>3. confirmed' = IF doc'.auth["guard"].on THEN confirmed ELSE {}
  BY DEF Show
<1>4. doc' \in Documents /\ LetIn(doc')
  BY <1>1, <1>2, Rendered
<1>5. GuardWasTold(doc', confirmed')
  BY <1>1, <1>2, <1>3, RenderKeepsGuard
<1>6. stray' \subseteq {"asked", "refused"}
  BY <1>1 DEF Show
<1> QED BY <1>1, <1>3, <1>4, <1>5, <1>6

-----------------------------------------------------------------------------
LEMMA InitTold == Init => GuardInv
<1> SUFFICES ASSUME Init PROVE GuardInv
  OBVIOUS
<1>1. cookie \in MaybeUser /\ coUser \in MaybeUser /\ budget \in Budgets
  BY ScenariosAssumption DEF Init, MaybeUser
<1>2. doc \in Documents /\ GuardWasTold(doc, {}) /\ LetIn(doc)
  <2>1. PICK s \in Scenarios : doc = Loaded(s.page, "sessions", s.coUser)
    BY DEF Init
  <2>2. s.page \in Pages /\ "sessions" \in Contents /\ s.coUser \in MaybeUser
    BY <2>1, ScenariosAssumption DEF MaybeUser, Contents
  <2> QED BY <2>1, <2>2, LoadedTyped
<1> QED BY <1>1, <1>2 DEF GuardInv, TypeOK, Init

LEMMA SpentTyped ==
    ASSUME budget \in Budgets
    PROVE  /\ \A b \in {"signOut", "go", "expire", "reload", "fault"} : Spend(b) => budget' \in Budgets
           /\ \A u : SpendSignIn(u) => budget' \in Budgets
<1>1. ASSUME NEW b \in {"signOut", "go", "expire", "reload", "fault"}, Spend(b) PROVE budget' \in Budgets
  BY <1>1 DEF Spend, Budgets
<1>2. ASSUME NEW u, SpendSignIn(u) PROVE budget' \in Budgets
  BY <1>2 DEF SpendSignIn, Budgets
<1> QED BY <1>1, <1>2

LEMMA NamesApart == /\ \A u \in Users : u # Nil /\ u \notin Progress
                    /\ Nil \notin Users
  BY UsersAssumption

(* The steps of the server and of the document, one by one.                *)
LEMMA NextTold == GuardInv /\ [Next]_vars => GuardInv'
<1> SUFFICES ASSUME GuardInv, [Next]_vars PROVE GuardInv'
  OBVIOUS
<1>t. TypeOK /\ GuardWasTold(doc, confirmed) /\ LetIn(doc)
  BY DEF GuardInv
<1>1. ASSUME NEW i \in Instances, ReadMe(i) PROVE GuardInv'
  <2>1. PICK me \in {Whose, "failed"} : doc' = [doc EXCEPT !.auth[i].me = me]
    BY <1>1 DEF ReadMe
  <2>2. doc.auth[i] \in Auths /\ doc.auth[i].me = "asked"
    BY <1>1, <1>t DEF ReadMe, TypeOK, Documents
  <2>3. me \in Progress \cup Users /\ (me \in Users => me = cookie)
    BY <1>t, NamesApart DEF Whose, TypeOK, MaybeUser, Progress
  <2>4. doc' \in Documents /\ doc'.auth = [doc.auth EXCEPT ![i] = [doc.auth[i] EXCEPT !.me = me]]
    BY <1>t, <2>1, <2>2, <2>3 DEF TypeOK, Documents, Auths
  <2>5. budget' \in Budgets
    BY <1>1, <1>t, SpentTyped DEF ReadMe, TypeOK
  <2>6. TypeOK'
    <3>1. doc'.auth[i].me = me
      BY <1>t, <2>2, <2>4 DEF TypeOK, Documents, Auths
    <3>2. confirmed' \subseteq Users
      BY <1>1, <1>t, <2>3, <3>1 DEF ReadMe, TypeOK
    <3> QED BY <1>1, <1>t, <2>4, <2>5, <3>2 DEF ReadMe, TypeOK
  <2>7. CASE i = "guard"
    <3>1. doc'.auth["guard"] = [doc.auth["guard"] EXCEPT !.me = me]
          /\ doc'.auth["chrome"] = doc.auth["chrome"]
      BY <1>t, <2>4, <2>7 DEF TypeOK, Documents, Instances
    <3>2. doc'.auth["guard"].me = me
      BY <2>2, <2>7, <3>1 DEF Auths
    <3>3. confirmed \subseteq confirmed' /\ (me \in Users => me \in confirmed')
      BY <1>1, <2>3, <2>7, <3>2 DEF ReadMe
    <3>4. doc.auth["guard"].on
      BY <1>t, <2>2, <2>7 DEF GuardWasTold, Unmounted
    <3>5. doc'.auth["guard"].on /\ (Authenticated(doc'.auth["guard"]) <=> Authenticated(doc.auth["guard"]))
          /\ doc'.auth["guard"].user = doc.auth["guard"].user
      BY <2>2, <2>7, <3>1, <3>4 DEF Authenticated, Auths
    <3> QED BY <1>t, <2>6, <3>1, <3>2, <3>3, <3>5 DEF GuardInv, GuardWasTold, LetIn
  <2>8. CASE i # "guard"
    <3>1. doc'.auth["guard"] = doc.auth["guard"]
          /\ (doc'.auth["chrome"].on <=> doc.auth["chrome"].on)
      BY <1>t, <2>2, <2>4, <2>8 DEF TypeOK, Documents, Instances, Auths
    <3>2. confirmed' = confirmed
      BY <1>1, <2>8 DEF ReadMe
    <3> QED BY <1>t, <2>6, <3>1, <3>2 DEF GuardInv, GuardWasTold, LetIn
  <2> QED BY <2>7, <2>8
<1>2. ASSUME NEW i \in Instances, MeArrives(i) PROVE GuardInv'
  <2> DEFINE me == doc.auth[i].me
             new == [doc EXCEPT !.auth[i] = Answered(me)]
  <2>1. doc.auth[i] \in Auths /\ me \in (Users \cup Progress) \ {"none", "asked"}
    BY <1>2, <1>t DEF MeArrives, TypeOK, Documents, Auths
  <2>2. Answered(me) \in Auths /\ Answered(me).user \in MaybeUser
    BY <2>1 DEF Answered, Auths, MaybeUser, Progress
  <2>3. new \in Documents /\ new.auth = [doc.auth EXCEPT ![i] = Answered(me)]
    BY <1>t, <2>2 DEF TypeOK, Documents
  <2>4. coUser' \in MaybeUser
    BY <1>2, <1>t, <2>2 DEF MeArrives, TypeOK
  <2>5. Show(new, coUser')
    BY <1>2 DEF MeArrives
  <2>6. GuardWasTold(new, confirmed)
    <3>1. CASE i = "guard"
      <4>1. new.auth["guard"] = Answered(me)
        BY <1>t, <2>3, <3>1 DEF TypeOK, Documents, Instances
      <4> QED BY <1>t, <3>1, <4>1, NamesApart
              DEF GuardWasTold, Answered, Authenticated, Progress
    <3>2. CASE i # "guard"
      BY <1>t, <2>3, <3>2 DEF TypeOK, Documents, Instances, GuardWasTold
    <3> QED BY <3>1, <3>2
  <2> HIDE DEF new
  <2>7. /\ doc' \in Documents /\ GuardWasTold(doc', confirmed') /\ LetIn(doc')
        /\ stray' \subseteq {"asked", "refused"} /\ confirmed' \subseteq Users
    BY <2>3, <2>4, <2>5, <2>6, Shown
  <2> QED BY <1>2, <1>t, <2>4, <2>7 DEF MeArrives, GuardInv, TypeOK
<1>3. CASE StrayAnswer
  BY <1>3, <1>t DEF StrayAnswer, GuardInv, TypeOK, MaybeUser
<1>4. ASSUME NEW h \in Hooks, ReadPermissions(h) PROVE GuardInv'
  <2>1. PICK req \in {Whose, "failed"} : doc' = [doc EXCEPT !.ix[h].req = req]
    BY <1>4 DEF ReadPermissions
  <2>2. req \in Progress \cup Users
    BY <1>t DEF Whose, TypeOK, MaybeUser, Progress
  <2>3. [doc.ix[h] EXCEPT !.req = req] \in Fetches
    BY <1>t, <2>2 DEF TypeOK, Documents, Fetches
  <2>4. doc' = [doc EXCEPT !.ix = [@ EXCEPT ![h] = [doc.ix[h] EXCEPT !.req = req]]]
    BY <2>1
  <2>5. doc' \in Documents /\ doc'.auth = doc.auth
    BY <1>t, <2>3, <2>4 DEF TypeOK, Documents
  <2>6. budget' \in Budgets
    BY <1>4, <1>t, SpentTyped DEF ReadPermissions, TypeOK
  <2> QED BY <1>4, <1>t, <2>5, <2>6 DEF ReadPermissions, GuardInv, TypeOK, GuardWasTold, LetIn
<1>5. ASSUME NEW h \in Hooks, PermissionsArrive(h) PROVE GuardInv'
  <2> DEFINE new == [doc EXCEPT !.ix[h] = Told(@)]
  <2>1. doc.ix[h] \in Fetches /\ Told(doc.ix[h]) \in Fetches
    <3>1. doc.ix[h] \in Fetches
      BY <1>t DEF TypeOK, Documents
    <3>2. \A f \in Fetches : Told(f) \in Fetches
      BY DEF Told, Fetches, MaybeUser, Progress
    <3> QED BY <3>1, <3>2
  <2>2. new \in Documents /\ new.auth = doc.auth
    BY <1>t, <2>1 DEF TypeOK, Documents
  <2>3. Show(new, coUser) /\ coUser \in MaybeUser
    BY <1>5, <1>t DEF PermissionsArrive, TypeOK
  <2>4. GuardWasTold(new, confirmed)
    BY <1>t, <2>2 DEF GuardWasTold
  <2> HIDE DEF new
  <2>5. /\ doc' \in Documents /\ GuardWasTold(doc', confirmed') /\ LetIn(doc')
        /\ stray' \subseteq {"asked", "refused"} /\ confirmed' \subseteq Users
    BY <2>2, <2>3, <2>4, Shown
  <2> QED BY <1>5, <1>t, <2>5 DEF PermissionsArrive, GuardInv, TypeOK
<1>6. CASE FeaturesArrive
  <2>1. PICK f \in {"shown", "failed"} : doc' = [doc EXCEPT !.features = f]
    BY <1>6 DEF FeaturesArrive
  <2>2. doc' \in Documents /\ doc'.auth = doc.auth
    BY <1>t, <2>1 DEF TypeOK, Documents
  <2>3. budget' \in Budgets
    BY <1>6, <1>t, SpentTyped DEF FeaturesArrive, TypeOK
  <2> QED BY <1>6, <1>t, <2>2, <2>3 DEF FeaturesArrive, GuardInv, TypeOK, GuardWasTold, LetIn
<1>7. CASE ServeSignIn
  <2>1. \A state \in {"done", "refused", "failed"} : Outcome(signIn, state) \in {Nil} \cup Requests
    BY <1>7, <1>t DEF ServeSignIn, Outcome, TypeOK, Requests
  <2>2. signIn' \in {Nil} \cup Requests
    BY <1>7, <2>1 DEF ServeSignIn
  <2>3. cookie' \in MaybeUser
    BY <1>7, <1>t DEF ServeSignIn, TypeOK, Requests
  <2>4. budget' \in Budgets
    BY <1>7, <1>t, SpentTyped DEF ServeSignIn, TypeOK
  <2> QED BY <1>7, <1>t, <2>2, <2>3, <2>4 DEF ServeSignIn, GuardInv, TypeOK, GuardWasTold, LetIn
<1>8. CASE ServeSignOut
  <2>1. \A state \in {"done", "failed"} : Outcome(signOut, state) \in {Nil} \cup Requests
    BY <1>8, <1>t DEF ServeSignOut, Outcome, TypeOK, Requests
  <2>2. signOut' \in {Nil} \cup Requests /\ cookie' \in MaybeUser
    BY <1>8, <1>t, <2>1 DEF ServeSignOut, TypeOK, MaybeUser
  <2>3. budget' \in Budgets
    BY <1>8, <1>t, SpentTyped DEF ServeSignOut, TypeOK
  <2> QED BY <1>8, <1>t, <2>2, <2>3 DEF ServeSignOut, GuardInv, TypeOK, GuardWasTold, LetIn
<1>9. CASE SignInReturns
  <2>1. signIn \in Requests /\ signIn.user \in MaybeUser
    BY <1>9, <1>t DEF SignInReturns, TypeOK, Requests
  <2>2. signIn.state \in {"done", "refused", "failed"}
    BY <1>9, <2>1 DEF SignInReturns, Requests
  <2>3. coUser' \in MaybeUser
    BY <1>9, <1>t, <2>1, <2>2 DEF SignInReturns, TypeOK, MaybeUser
  <2>4. CASE signIn.state = "done"
    <3>1. onLoggedIn \in Documents /\ onLoggedIn.auth = doc.auth
      BY <1>t DEF onLoggedIn, TypeOK, Documents, Pages, Contents
    <3>2. GuardWasTold(onLoggedIn, confirmed)
      BY <1>t, <3>1 DEF GuardWasTold
    <3>3. Show(onLoggedIn, coUser')
      BY <1>9, <2>4 DEF SignInReturns
    <3>4. /\ doc' \in Documents /\ GuardWasTold(doc', confirmed') /\ LetIn(doc')
          /\ stray' \subseteq {"asked", "refused"} /\ confirmed' \subseteq Users
      BY <2>3, <3>1, <3>2, <3>3, Shown
    <3> QED BY <1>9, <1>t, <2>3, <3>4 DEF SignInReturns, GuardInv, TypeOK
  <2>5. CASE signIn.state # "done"
    <3>1. UNCHANGED <<doc, stray, confirmed>>
      BY <1>9, <2>2, <2>5 DEF SignInReturns
    <3> QED BY <1>9, <1>t, <2>3, <3>1 DEF SignInReturns, GuardInv, TypeOK, GuardWasTold, LetIn
  <2> QED BY <2>4, <2>5
<1>10. CASE SignOutReturns
  BY <1>10, <1>t DEF SignOutReturns, GuardInv, TypeOK, MaybeUser, GuardWasTold, LetIn
<1>11. ASSUME NEW u \in Users, onLocalSubmit(u) PROVE GuardInv'
  <2>1. [user |-> u, state |-> "sent", live |-> TRUE] \in Requests
    BY DEF Requests, MaybeUser
  <2>2. budget' \in Budgets
    BY <1>11, <1>t, SpentTyped DEF onLocalSubmit, TypeOK
  <2> QED BY <1>11, <1>t, <2>1, <2>2 DEF onLocalSubmit, GuardInv, TypeOK, GuardWasTold, LetIn
<1>12. ASSUME NEW page \in Pages, NEW from \in Contents, Load(page, from), coUser' = coUser,
              cookie' \in MaybeUser, budget' \in Budgets
       PROVE  GuardInv'
  <2>1. doc' \in Documents /\ GuardWasTold(doc', {}) /\ LetIn(doc')
    BY <1>12, <1>t, LoadedTyped DEF Load, TypeOK
  <2>2. \A request \in {Nil} \cup Requests : Dropped(request) \in {Nil} \cup Requests
    BY DEF Dropped, Requests
  <2>3. signIn' \in {Nil} \cup Requests /\ signOut' \in {Nil} \cup Requests
    BY <1>12, <1>t, <2>2 DEF Load, TypeOK
  <2> QED BY <1>12, <1>t, <2>1, <2>3 DEF Load, GuardInv, TypeOK
<1>13. ASSUME NEW u \in Users, onSSOClick(u) PROVE GuardInv'
  <2>1. doc.from \in Pages /\ "sessions" \in Contents
    BY <1>t DEF TypeOK, Documents, Pages, Contents
  <2>2. budget' \in Budgets /\ cookie' \in MaybeUser
    BY <1>13, <1>t, SpentTyped DEF onSSOClick, loginSSO, TypeOK, MaybeUser
  <2> QED BY <1>12, <1>13, <2>1, <2>2 DEF onSSOClick, loginSSO
<1>14. CASE Reload
  <2>1. doc.page \in Pages /\ doc.from \in Contents
    BY <1>t DEF TypeOK, Documents
  <2>2. budget' \in Budgets /\ cookie' \in MaybeUser
    BY <1>14, <1>t, SpentTyped DEF Reload, TypeOK
  <2> QED BY <1>12, <1>14, <2>1, <2>2 DEF Reload
<1>l. ASSUME NEW page \in Pages, Show([doc EXCEPT !.page = page], coUser)
      PROVE  /\ doc' \in Documents /\ GuardWasTold(doc', confirmed') /\ LetIn(doc')
             /\ stray' \subseteq {"asked", "refused"} /\ confirmed' \subseteq Users
  <2> DEFINE new == [doc EXCEPT !.page = page]
  <2>1. new \in Documents /\ new.auth = doc.auth
    BY <1>t DEF TypeOK, Documents
  <2>2. GuardWasTold(new, confirmed) /\ coUser \in MaybeUser
    BY <1>t, <2>1 DEF GuardWasTold, TypeOK
  <2>3. Show(new, coUser)
    BY <1>l
  <2> HIDE DEF new
  <2> QED BY <2>1, <2>2, <2>3, Shown
<1>15. CASE handleLogout
  <2>1. "login" \in Pages /\ Show([doc EXCEPT !.page = "login"], coUser)
    BY <1>15 DEF handleLogout, Pages
  <2>2. [user |-> Nil, state |-> "sent", live |-> TRUE] \in Requests
    BY DEF Requests, MaybeUser
  <2>3. budget' \in Budgets
    BY <1>15, <1>t, SpentTyped DEF handleLogout, TypeOK
  <2> QED BY <1>15, <1>l, <1>t, <2>1, <2>2, <2>3 DEF handleLogout, GuardInv, TypeOK
<1>18. ASSUME NEW page \in Contents, navigate(page) PROVE GuardInv'
  <2>1. page \in Pages /\ Show([doc EXCEPT !.page = page], coUser)
    BY <1>18 DEF navigate, Pages
  <2>2. budget' \in Budgets
    BY <1>18, <1>t, SpentTyped DEF navigate, TypeOK
  <2> QED BY <1>18, <1>l, <1>t, <2>1, <2>2 DEF navigate, GuardInv, TypeOK
<1>16. CASE Expire
  <2>1. budget' \in Budgets
    BY <1>16, <1>t, SpentTyped DEF Expire, TypeOK
  <2> QED BY <1>16, <1>t, <2>1 DEF Expire, GuardInv, TypeOK, MaybeUser, GuardWasTold, LetIn
<1>17. CASE UNCHANGED vars
  BY <1>17, <1>t DEF vars, GuardInv, TypeOK, GuardWasTold, LetIn
<1> QED
  BY <1>1, <1>2, <1>3, <1>4, <1>5, <1>6, <1>7, <1>8, <1>9, <1>10, <1>11, <1>13, <1>14,
     <1>15, <1>16, <1>17, <1>18 DEF Next, Answer

-----------------------------------------------------------------------------
(* The inductive invariant: the guard believes what it was told, and lets  *)
(* in only whom it believes in.                                            *)
THEOREM GuardInvariance == Safety => []GuardInv
  BY InitTold, NextTold, PTL DEF Safety

(* Every variable has its type: a user the server did not name never gets  *)
(* into a component's state.                                               *)
THEOREM AuthTypeCorrect == Spec => []TypeOK
<1>1. GuardInv => TypeOK
  BY DEF GuardInv
<1> QED BY <1>1, GuardInvariance, PTL DEF Spec

(* Nothing behind the guard is shown to whom the server did not name to it *)
(* (App.tsx: RequireAuth; useAuth.ts: isAuthenticated).                    *)
THEOREM ContentNeedsConfirmation == Spec => []ContentIsConfirmed
<1>1. GuardInv => ContentIsConfirmed
  BY DEF GuardInv, GuardWasTold, LetIn, ContentIsConfirmed
<1> QED BY <1>1, GuardInvariance, PTL DEF Spec
=============================================================================

-------------------------------- MODULE WebAuth --------------------------------
(***************************************************************************)
(* Who the web UI believes is signed in (ui/src/hooks/useAuth.ts,          *)
(* useIntrospection.ts, IntrospectionContext.tsx, App.tsx, LoginPage.tsx,  *)
(* Header.tsx) against the session cookie, which only the browser and the  *)
(* API server see.                                                         *)
(*                                                                         *)
(* useAuth is a hook with state of its own in every component that calls   *)
(* it: each asks the server who is signed in when it is mounted, and no    *)
(* two tell each other.  The permissions are fetched by hooks that run     *)
(* when they are mounted or become enabled, the context's once in the life *)
(* of a document.                                                          *)
(*                                                                         *)
(* An action is one callback with the render it causes (Render: redirects, *)
(* mounts, unmounts and the effects of mounting), one step of the server,  *)
(* or something a user does.                                               *)
(*                                                                         *)
(* Not covered: the header's own useAuth, of which only logout is used,    *)
(* and its own fetch of permissions; what the server checks before it sets *)
(* a cookie.  Each hook's question about the user and the one about the    *)
(* server (useServerIntrospection) are one request.                        *)
(***************************************************************************)
EXTENDS Naturals

CONSTANTS
    Nil,
    Users,
    Privileged,     \* the users whom the server tells of itself
    Scenarios       \* what the browser holds, and how often each thing happens (bounds)

Contents == {"sessions", "account", "settings"}     \* /sessions, /user-info, /info
Pages == Contents \cup {"login"}
Instances == {"app", "guard", "chrome", "account", "login"}     \* who calls useAuth
Hooks == {"context", "app", "page"}                             \* who fetches permissions
Progress == {"none", "asked", "refused", "failed"}
Budgets == [ signIn : SUBSET Users, signOut : Nat, go : Nat, expire : Nat, reload : Nat,
             fault : Nat ]

ASSUME UsersAssumption ==
    Nil \notin Users /\ Users \cap Progress = {} /\ Privileged \subseteq Users
ASSUME ScenariosAssumption ==
    \A s \in Scenarios : /\ s.cookie \in Users \cup {Nil} /\ s.coUser \in Users \cup {Nil}
                         /\ s.page \in Pages /\ s.budget \in Budgets

VARIABLES
    cookie,     \* whose session cookie the browser holds, or Nil
    coUser,     \* localStorage co_user
    doc,        \* the document: page, from, auth, ix, features
    signIn,     \* the login request, or Nil
    signOut,    \* the logout request, or Nil
    stray,      \* how far requests to /me are that nobody waits for
    confirmed,  \* auxiliary: whom the server named to the guard since it is mounted
    budget

vars == <<cookie, coUser, doc, signIn, signOut, stray, confirmed, budget>>

MaybeUser == Users \cup {Nil}
(* me, req: how far the request is: none, asked, or answered *)
Auths == [on : BOOLEAN, user : MaybeUser, loading : BOOLEAN, me : Progress \cup Users]
Fetches == [on : BOOLEAN, data : MaybeUser, error : BOOLEAN, req : Progress \cup Users]
(* from: where the login page leads to, the state of the browser's history *)
Documents == [ page : Pages, from : Contents, auth : [Instances -> Auths],
               ix : [Hooks -> Fetches], features : {"none", "asked", "failed", "shown"} ]
Requests == [user : MaybeUser, state : {"sent", "done", "refused", "failed"}, live : BOOLEAN]

-----------------------------------------------------------------------------
(* Rendering.                                                              *)

Unmounted == [on |-> FALSE, user |-> Nil, loading |-> FALSE, me |-> "none"]
(* Mutant: a stored name needs no confirmation. *)
TrustsTheName(co) == [ on |-> TRUE, user |-> co, loading |-> co = Nil,
                       me |-> IF co = Nil THEN "asked" ELSE "none" ]
Mounted(co) == [on |-> TRUE, user |-> co, loading |-> TRUE, me |-> "asked"]
Unasked == [on |-> FALSE, data |-> Nil, error |-> FALSE, req |-> "none"]

Authenticated(a) == a.on /\ ~ a.loading /\ a.user # Nil

(* RequireAuth: the protected routes, or the way to the login page. *)
Redirected(d) ==
    LET guard == d.auth["guard"] IN
    IF d.page # "login" /\ guard.on /\ ~ guard.loading /\ guard.user = Nil
    THEN [d EXCEPT !.page = "login", !.from = d.page] ELSE d

Wanted(d, i) ==
    CASE i = "app"     -> TRUE
      [] i = "guard"   -> d.page # "login"
      [] i = "chrome"  -> d.page # "login" /\ Authenticated(d.auth["guard"])
      [] i = "account" -> d.page = "account" /\ Authenticated(d.auth["guard"])
      [] i = "login"   -> d.page = "login"

(* UserInfoPage asks if it believes in a user, be it the stored name. *)
AccountEnabled(d, co) == IF d.auth["account"].on THEN d.auth["account"].user # Nil ELSE co # Nil

Enabled(d, h, co) ==
    CASE h = "context" -> TRUE
      [] h = "app"     -> Authenticated(d.auth["app"])
      [] h = "page"    -> Wanted(d, "chrome") /\ (d.page = "account" => AccountEnabled(d, co))

(* The effect of the hooks that fetch: each page has its own, a request is *)
(* cancelled when the hook is disabled or goes, and the data stay.         *)
Fetching(old, d, h, co) ==
    LET f == IF h = "page" /\ (d.page # old.page \/ ~ Wanted(d, "chrome")) THEN Unasked ELSE d.ix[h] IN
    IF f.on = Enabled(d, h, co) THEN f
    ELSE [f EXCEPT !.on = ~ f.on, !.req = IF f.on THEN "none" ELSE "asked"]

(* LoginRoute is a component made anew by every render of App: its page is *)
(* mounted again.                                                          *)
Remade(old, d, i) ==
    i = "login" /\ <<old.auth["app"], old.ix["app"]>> # <<d.auth["app"], d.ix["app"]>>

Mounting(old, d, e, i, co) ==
    IF ~ Wanted(d, i) THEN Unmounted
    ELSE IF d.auth[i].on /\ ~ Remade(old, e, i) THEN d.auth[i] ELSE Mounted(co)

Render(old, new, co) ==
    LET d == Redirected(new)
        e == [d EXCEPT !.ix = [h \in Hooks |-> Fetching(old, d, h, co)]]
        again == ~ d.auth["login"].on \/ Remade(old, e, "login") IN
    [ e EXCEPT !.auth = [i \in Instances |-> Mounting(old, d, e, i, co)],
               !.features = IF d.page # "login" THEN "none" ELSE IF again THEN "asked" ELSE @ ]

Blank(page, from) ==
    [ page |-> page, from |-> from, auth |-> [i \in Instances |-> Unmounted],
      ix |-> [h \in Hooks |-> Unasked], features |-> "none" ]

Loaded(page, from, co) == Render(Blank(page, from), Blank(page, from), co)

(* A component that goes away does not take back its request to /me. *)
Show(new, co) ==
    /\ doc' = Render(doc, new, co)
    /\ stray' = stray \cup
          { new.auth[i].me : i \in {j \in Instances : /\ new.auth[j].me \in {"asked", "refused"}
                                                     /\ doc'.auth[j] # new.auth[j]} }
    /\ confirmed' = IF doc'.auth["guard"].on THEN confirmed ELSE {}

Init ==
    /\ \E s \in Scenarios : /\ cookie = s.cookie /\ coUser = s.coUser /\ budget = s.budget
                           /\ doc = Loaded(s.page, "sessions", s.coUser)
    /\ signIn = Nil
    /\ signOut = Nil
    /\ stray = {}
    /\ confirmed = {}

SpendSignIn(u) == u \in budget.signIn /\ budget' = [budget EXCEPT !.signIn = @ \ {u}]
Spend(b) == budget[b] > 0 /\ budget' = [budget EXCEPT ![b] = @ - 1]

-----------------------------------------------------------------------------
(* GET /api/v1/me.                                                         *)

Whose == IF cookie = Nil THEN "refused" ELSE cookie

ReadMe(i) ==
    /\ doc.auth[i].me = "asked"
    /\ \/ doc' = [doc EXCEPT !.auth[i].me = Whose] /\ UNCHANGED budget
       \/ doc' = [doc EXCEPT !.auth[i].me = "failed"] /\ Spend("fault")
    /\ confirmed' = IF i = "guard" /\ doc'.auth[i].me \in Users
                    THEN confirmed \cup {cookie} ELSE confirmed
    /\ UNCHANGED <<cookie, coUser, signIn, signOut, stray>>

(* Mutants: the status of the answer is not looked at; loading ends in the *)
(* try block.                                                              *)
AtFaceValue(me) == [on |-> TRUE, loading |-> FALSE, me |-> "none", user |-> me]
WithoutFinally(me) == [on |-> TRUE, loading |-> me \notin Users, me |-> "none",
                       user |-> IF me \in Users THEN me ELSE Nil]

(* A refusal clears co_user; any failure clears the user. *)
Answered(me) == [on |-> TRUE, loading |-> FALSE, me |-> "none",
                 user |-> IF me \in Users THEN me ELSE Nil]

MeArrives(i) ==
    LET me == doc.auth[i].me IN
    /\ me \notin {"none", "asked"}
    /\ coUser' = IF me = "failed" THEN coUser ELSE Answered(me).user
    /\ Show([doc EXCEPT !.auth[i] = Answered(me)], coUser')
    /\ UNCHANGED <<cookie, signIn, signOut, budget>>

(* The answer to a component that is gone: only client.ts looks at it. *)
StrayAnswer ==
    /\ \/ /\ "asked" \in stray
          /\ stray' = (stray \ {"asked"}) \cup (IF cookie = Nil THEN {"refused"} ELSE {})
          /\ UNCHANGED coUser
       \/ /\ "refused" \in stray
          /\ stray' = stray \ {"refused"}
          /\ coUser' = Nil
    /\ UNCHANGED <<cookie, doc, signIn, signOut, confirmed, budget>>

-----------------------------------------------------------------------------
(* The permissions.                                                        *)

ReadPermissions(h) ==
    /\ doc.ix[h].req = "asked"
    /\ \/ doc' = [doc EXCEPT !.ix[h].req = Whose] /\ UNCHANGED budget
       \/ doc' = [doc EXCEPT !.ix[h].req = "failed"] /\ Spend("fault")
    /\ UNCHANGED <<cookie, coUser, signIn, signOut, stray, confirmed>>

(* After an error the old data stay. *)
Told(f) == [ f EXCEPT !.req = "none", !.data = IF f.req \in Users THEN f.req ELSE @,
                      !.error = f.req \notin Users ]

PermissionsArrive(h) ==
    /\ doc.ix[h].req \notin {"none", "asked"}
    /\ Show([doc EXCEPT !.ix[h] = Told(@)], coUser)
    /\ UNCHANGED <<cookie, coUser, signIn, signOut, budget>>

-----------------------------------------------------------------------------
(* Signing in with a password, or elsewhere.                               *)

FeaturesArrive ==
    /\ doc.features = "asked"
    /\ \/ doc' = [doc EXCEPT !.features = "shown"] /\ UNCHANGED budget
       \/ doc' = [doc EXCEPT !.features = "failed"] /\ Spend("fault")
    /\ UNCHANGED <<cookie, coUser, signIn, signOut, stray, confirmed>>

(* Until the features are known the page says "Loading...". *)
MethodsShown == doc.page = "login" /\ doc.features = "shown"

(* A form that is made anew forgets that it was busy; a second request at  *)
(* once is left out all the same (a bound).                                *)
PasswordForm == MethodsShown /\ signIn = Nil

onLocalSubmit(u) ==
    /\ PasswordForm
    /\ SpendSignIn(u)
    /\ signIn' = [user |-> u, state |-> "sent", live |-> TRUE]
    /\ UNCHANGED <<cookie, coUser, doc, signOut, stray, confirmed>>

(* Of a document that is gone the server still does what was asked. *)
Outcome(request, state) == IF request.live THEN [request EXCEPT !.state = state] ELSE Nil

ServeSignIn ==
    /\ signIn # Nil /\ signIn.state = "sent"
    /\ \/ signIn' = Outcome(signIn, "done") /\ cookie' = signIn.user /\ UNCHANGED budget
       \/ signIn' = Outcome(signIn, "refused") /\ UNCHANGED <<cookie, budget>>
       \/ signIn' = Outcome(signIn, "failed") /\ UNCHANGED cookie /\ Spend("fault")
    /\ UNCHANGED <<coUser, doc, signOut, stray, confirmed>>

(* Mutant: nobody is told of the success. *)
StayHere == doc
onLoggedIn == [doc EXCEPT !.page = doc.from, !.from = "sessions"]

(* The page that asked leads on, even if it is gone by then; what it sets  *)
(* of its own useAuth goes with it.                                        *)
SignInReturns ==
    /\ signIn # Nil /\ signIn.state # "sent"
    /\ signIn' = Nil
    /\ CASE signIn.state = "done"    -> /\ coUser' = signIn.user
                                       /\ Show(onLoggedIn, coUser')
         [] signIn.state = "refused" -> coUser' = Nil /\ UNCHANGED <<doc, stray, confirmed>>
         [] signIn.state = "failed"  -> UNCHANGED <<coUser, doc, stray, confirmed>>
    /\ UNCHANGED <<cookie, signOut, budget>>

Dropped(request) ==
    IF request # Nil /\ request.state = "sent" THEN [request EXCEPT !.live = FALSE] ELSE Nil

Load(page, from) ==
    /\ doc' = Loaded(page, from, coUser)
    /\ signIn' = Dropped(signIn)
    /\ signOut' = Dropped(signOut)
    /\ stray' = {}
    /\ confirmed' = {}

(* Away to the provider and back with its cookie: a new document. *)
loginSSO(u) ==
    /\ SpendSignIn(u)
    /\ cookie' = u
    /\ Load(doc.from, "sessions")
    /\ UNCHANGED coUser

onSSOClick(u) == MethodsShown /\ loginSSO(u)

Reload ==
    /\ Spend("reload")
    /\ Load(doc.page, doc.from)
    /\ UNCHANGED <<cookie, coUser>>

-----------------------------------------------------------------------------
(* Moving about, signing out, and sessions that end.                       *)

(* The header's menu of the user, and the sidebar. *)
UserControls == doc.auth["chrome"].on /\ doc.auth["chrome"].user # Nil
Sidebar == doc.auth["chrome"].on /\ doc.auth["chrome"].user # Nil

navigate(page) ==
    /\ IF page = "sessions" THEN Sidebar ELSE Sidebar \/ UserControls
    /\ page # doc.page
    /\ Spend("go")
    /\ Show([doc EXCEPT !.page = page], coUser)
    /\ UNCHANGED <<cookie, coUser, signIn, signOut>>

(* The header does not wait for the answer; one at a time (a bound). *)
handleLogout ==
    /\ UserControls
    /\ signOut = Nil
    /\ Spend("signOut")
    /\ signOut' = [user |-> Nil, state |-> "sent", live |-> TRUE]
    /\ Show([doc EXCEPT !.page = "login"], coUser)
    /\ UNCHANGED <<cookie, coUser, signIn>>

ServeSignOut ==
    /\ signOut # Nil /\ signOut.state = "sent"
    /\ \/ signOut' = Outcome(signOut, "done") /\ cookie' = Nil /\ UNCHANGED budget
       \/ signOut' = Outcome(signOut, "failed") /\ UNCHANGED cookie /\ Spend("fault")
    /\ UNCHANGED <<coUser, doc, signIn, stray, confirmed>>

(* Errors are swallowed; the name goes in any case. *)
SignOutReturns ==
    /\ signOut # Nil /\ signOut.state # "sent"
    /\ signOut' = Nil
    /\ coUser' = Nil
    /\ UNCHANGED <<cookie, doc, signIn, stray, confirmed, budget>>

(* The session ends, or another tab signs out. *)
Expire ==
    /\ cookie # Nil
    /\ Spend("expire")
    /\ cookie' = Nil
    /\ UNCHANGED <<coUser, doc, signIn, signOut, stray, confirmed>>

-----------------------------------------------------------------------------
(* The servers' steps and the callbacks of their answers. *)
Answer ==
    \/ \E i \in Instances : ReadMe(i)
    \/ \E h \in Hooks : ReadPermissions(h)
    \/ ServeSignIn \/ ServeSignOut \/ StrayAnswer \/ FeaturesArrive
    \/ \E i \in Instances : MeArrives(i)
    \/ \E h \in Hooks : PermissionsArrive(h)
    \/ SignInReturns \/ SignOutReturns

Next ==
    \/ Answer
    \/ \E u \in Users : onLocalSubmit(u) \/ onSSOClick(u)
    \/ \E page \in Contents : navigate(page)
    \/ handleLogout
    \/ Reload \/ Expire

Safety == Init /\ [][Next]_vars

(* As long as a request is under way, one of them gets on. *)
Fairness == WF_vars(Answer)

Spec == Safety /\ Fairness

-----------------------------------------------------------------------------
(* The variables have their types. *)
TypeOK ==
    /\ cookie \in MaybeUser /\ coUser \in MaybeUser
    /\ doc \in Documents
    /\ signIn \in {Nil} \cup Requests /\ signOut \in {Nil} \cup Requests
    /\ stray \subseteq {"asked", "refused"}
    /\ confirmed \subseteq Users
    /\ budget \in Budgets

(* What is behind the guard is shown only to a user whom the server named  *)
(* to this very guard: a name left in co_user, by an earlier session or by *)
(* a reply nobody waits for, opens nothing (App.tsx: RequireAuth).         *)
ContentIsConfirmed ==
    doc.auth["chrome"].on => doc.auth["guard"].user \in confirmed

(* The guard's "Loading..." ends, whatever the answer (App.tsx:35, and the *)
(* finally block of useAuth.ts).                                           *)
GuardDecides ==
    (doc.auth["guard"].on /\ doc.auth["guard"].loading)
        ~> ~ (doc.auth["guard"].on /\ doc.auth["guard"].loading)

(* A password that the server accepts brings the user to the page they     *)
(* came for, though the login page may be made anew meanwhile and the      *)
(* answer come to one that is gone: unless from then on a request fails,   *)
(* the document is loaded again, or the cookie goes, by expiry or by a     *)
(* sign-out that was late (LoginPage.tsx: onLocalSubmit; App.tsx:          *)
(* LoginRoute).                                                            *)
LoginGetsIn ==
    \A page \in Contents :
        (/\ signIn # Nil /\ signIn.state = "done" /\ doc.from = page
         /\ budget["fault"] = 0 /\ budget["reload"] = 0)
            ~> (doc.auth["chrome"].on /\ doc.page = page) \/ cookie = Nil

(* Nothing more is signed in or out, expires, is loaded again or fails. *)
Calm ==
    /\ budget = [ signIn |-> {}, signOut |-> 0, go |-> 0, expire |-> 0, reload |-> 0, fault |-> 0 ]
    /\ signIn = Nil /\ signOut = Nil

(* What the account page shows: its profile names the user of the answer,  *)
(* or else its own; its permissions card; and the cards of the settings    *)
(* page, the server's and the user's.                                      *)
Profile ==
    IF doc.ix["page"].data # Nil THEN doc.ix["page"].data ELSE doc.auth["account"].user
AccountCard ==
    LET f == doc.ix["page"] IN
    CASE f.req # "none" -> "spinner"
      [] f.req = "none" /\ f.data # Nil -> f.data
      [] f.req = "none" /\ f.data = Nil -> IF f.error THEN "error" ELSE "empty"
ServerCards ==
    LET f == doc.ix["page"] IN
    CASE f.req # "none" -> "spinner"
      [] f.req = "none" /\ f.data \in Privileged -> f.data
      [] f.req = "none" /\ f.data \notin Privileged -> "unavailable"
NamespaceMatrix ==
    LET f == doc.ix["page"] IN
    CASE f.req # "none" -> "spinner"
      [] f.req = "none" /\ f.data # Nil -> f.data
      [] f.req = "none" /\ f.data = Nil -> "unavailable"

(* A document that has just been loaded comes to speak of one user in all  *)
(* its parts: the guard, the header, the page with what it asked itself,   *)
(* and the other two copies of the permissions (IntrospectionContext.tsx:  *)
(* one fetch for the whole app; UserInfoPage.tsx; ClusterSettingsPage.tsx).*)
LoadedDocumentAgrees ==
    (/\ Calm /\ cookie # Nil
     /\ doc.page \in Contents /\ doc = Loaded(doc.page, "sessions", coUser))
        ~> (/\ doc.auth["guard"].user = cookie /\ doc.auth["chrome"].user = cookie
            /\ \A h \in Hooks : doc.ix[h].data = cookie
            /\ doc.page = "account" => Profile = cookie /\ AccountCard = cookie
            /\ doc.page = "settings" =>
                  /\ NamespaceMatrix = cookie
                  /\ ServerCards = IF cookie \in Privileged THEN cookie ELSE "unavailable")

(* "Derive creatable namespaces from /introspect (single source of truth)" *)
(* (SessionsPage.tsx:42): when both were answered, the page's permissions  *)
(* are those of the context that its actions are checked against.          *)
SingleSourceOfTruth ==
    (doc.page = "sessions" /\ doc.ix["page"].data # Nil /\ doc.ix["context"].req = "none")
        => doc.ix["context"].data = doc.ix["page"].data
=============================================================================

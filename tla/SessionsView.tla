----------------------------- MODULE SessionsView ------------------------------
(***************************************************************************)
(* The table of Sessions in the web UI (ui/src/hooks/useSessions.ts, the   *)
(* Sessions page and its table) against the API server's list and stream.  *)
(*                                                                         *)
(* The hook keeps rows that come from two sources which nobody orders: an  *)
(* effect that lists whenever the view or the permissions change, and a    *)
(* server-sent event stream that is opened whenever the view changes.  A   *)
(* click starts a chain of its own: the call, and when it succeeds a       *)
(* refresh that nobody cancels and that lists the view of the click.       *)
(*                                                                         *)
(* JavaScript runs one callback at a time: an action is one callback with  *)
(* the effects of the render it causes, or one step of a server.           *)
(*                                                                         *)
(* Not covered: what a Session is besides its replicas and its revision,   *)
(* the installation ids that hide Sessions (module SessionServer), the     *)
(* search field, and sign-in (module WebAuth).                             *)
(***************************************************************************)
EXTENDS Permissions, Naturals, SequencesExt

CONSTANTS
    KeyOrder,       \* the Sessions' <<namespace, name>>, as the API server orders them
    MaxChains,      \* how many clicks can be under way at once (a bound)
    MaxReplicas,    \* a bound
    Scenarios       \* what the user may do, and how often each thing happens (bounds)

Keys == ToSet(KeyOrder)
NsOf(k) == k[1]
NameOf(k) == k[2]
Views == Namespaces \cup {All}
Counts == 0 .. MaxReplicas
Chains == 1 .. MaxChains
BudgetKinds == {"view", "click", "change", "lose", "fault"}

ASSUME KeysAssumption ==
    KeyOrder \in Seq(Namespaces \X STRING) /\ IsInjective(KeyOrder)
ASSUME BoundsAssumption == MaxReplicas \in Nat \ {0} /\ MaxChains \in Nat
ASSUME DefaultAssumption == "default" \in Namespaces
ASSUME ScenariosAssumption ==
    \A s \in Scenarios : s.policy \in Policies /\ s.budget \in [BudgetKinds -> Nat]

VARIABLES
    policy,     \* what the user may do
    world,      \* world[k]: the stored Session, or Nil
    rev,        \* the latest resourceVersion
    asking,     \* the context's introspection is under way
    ix,         \* its answer, or Nil
    namespace,  \* the namespace the user selected
    rows, loading, pendingTargets,      \* the state of the hook
    initial,    \* the list of the effect, or Nil
    stream,     \* the EventSource
    call,       \* call[c]: the call of a click, or Nil
    refresh,    \* refresh[c]: the list of a refresh, or Nil
    budget

store == <<world, rev>>
context == <<policy, asking, ix, namespace>>
hook == <<rows, loading, pendingTargets, initial>>
chains == <<call, refresh>>
vars == <<store, context, hook, stream, chains, budget>>

-----------------------------------------------------------------------------
Objects == [rep : Counts, rev : Nat]
Rows == [key : Keys, rep : Counts, rev : Nat]
Replies == [ok : BOOLEAN, rows : Seq(Rows), rev : Nat]
Lists == [view : Views, reply : {Nil} \cup Replies]
Calls == [op : {"scale", "delete", "create"}, key : Keys, rep : Counts, view : Views,
          result : {Nil, "ok", "failed"}]
Events == [type : {"ADDED", "MODIFIED", "DELETED"}, row : Rows]
(* seen is auxiliary: the revision up to which the page has consumed events *)
Streams == [state : {"connecting", "open", "closed"}, queue : Seq(Events), seen : Nat]

(* The namespace in effect when the watch of "*" is not allowed. *)
EffectiveNs(ns, x) ==
    IF ns # All \/ Can(x, Star, "watch") THEN ns
    ELSE LET listable == NamespacesWhere(x, "list") IN
         IF listable = {} THEN "default" ELSE CHOOSE n \in listable : TRUE

effectiveNs == EffectiveNs(namespace, ix)

ASSUME NilIsNoList == Nil \notin Lists /\ Nil \notin Objects

-----------------------------------------------------------------------------
(* The elements of s at the positions of I, in their order: a filter.      *)
Keep(s, I) ==
    LET kept[n \in 0 .. Len(s)] ==
            IF n = 0 THEN <<>>
            ELSE IF n \in I THEN Append(kept[n - 1], s[n]) ELSE kept[n - 1] IN
    kept[Len(s)]

(* What the API server shows: for every namespace, what the user may list. *)

Shows(view, k) == IF view = All THEN Enforce(policy, "list", NsOf(k)) ELSE NsOf(k) = view

RowOf(k) == [key |-> k, rep |-> world[k].rep, rev |-> world[k].rev]
Visible(view) ==
    LET present == Keep(KeyOrder, {i \in DOMAIN KeyOrder :
                                      world[KeyOrder[i]] # Nil /\ Shows(view, KeyOrder[i])}) IN
    [i \in DOMAIN present |-> RowOf(present[i])]

Ask(view) == [view |-> view, reply |-> Nil]
Failed == [ok |-> FALSE, rows |-> <<>>, rev |-> 0]
Listing(view) ==
    IF Enforce(policy, "list", DomainOf(view))
    THEN [ok |-> TRUE, rows |-> Visible(view), rev |-> rev]
    ELSE Failed

Connecting == [state |-> "connecting", queue |-> <<>>, seen |-> 0]

Init ==
    /\ \E s \in Scenarios : policy = s.policy /\ budget = s.budget
    /\ world \in [Keys -> {Nil, [rep |-> 1, rev |-> 1]}]
    /\ rev = 1
    /\ asking = TRUE
    /\ ix = Nil
    /\ namespace \in Views
    /\ rows = <<>>
    /\ loading = TRUE
    /\ pendingTargets = [k \in Keys |-> Nil]
    /\ initial = Ask(EffectiveNs(namespace, Nil))
    /\ stream = Connecting
    /\ call = [c \in Chains |-> Nil]
    /\ refresh = [c \in Chains |-> Nil]

Spend(b) == budget[b] > 0 /\ budget' = [budget EXCEPT ![b] = @ - 1]

-----------------------------------------------------------------------------
(* The effects that run when the view or the permissions change.           *)

(* The earlier list is cancelled: it still fails aloud but changes nothing. *)
ListEffect(view, x) ==
    /\ initial' = IF view = All /\ ~ Can(x, Star, "list") THEN Nil ELSE Ask(view)
    /\ loading' = (initial' # Nil)

(* Mutant: the effect that opens the stream does not depend on the view. *)
KeepsWatching(view) == UNCHANGED stream
WatchEffect(view) ==
    stream' = IF view = effectiveNs THEN stream ELSE Connecting

ContextArrives ==
    LET x == UserAnswer(policy, Namespaces) IN
    /\ asking
    /\ asking' = FALSE
    /\ ix' = x
    /\ ListEffect(EffectiveNs(namespace, x), x)
    /\ WatchEffect(EffectiveNs(namespace, x))
    /\ UNCHANGED <<store, policy, namespace, rows, pendingTargets, chains, budget>>

ContextFails ==
    /\ asking
    /\ Spend("fault")
    /\ asking' = FALSE
    /\ UNCHANGED <<store, policy, ix, namespace, hook, stream, chains>>

Select(ns) ==
    LET view == EffectiveNs(ns, ix) IN
    /\ ns # namespace
    /\ Spend("view")
    /\ namespace' = ns
    /\ IF view = effectiveNs THEN UNCHANGED <<initial, loading>> ELSE ListEffect(view, ix)
    /\ WatchEffect(view)
    /\ UNCHANGED <<store, policy, asking, ix, rows, pendingTargets, chains>>

-----------------------------------------------------------------------------
(* Lists: read by the server, some time later applied by the page.         *)

ReadInitial ==
    /\ initial # Nil /\ initial.reply = Nil
    /\ \/ initial' = [initial EXCEPT !.reply = Listing(initial.view)] /\ UNCHANGED budget
       \/ initial' = [initial EXCEPT !.reply = Failed] /\ Spend("fault")
    /\ UNCHANGED <<store, context, rows, loading, pendingTargets, stream,
                   chains>>

ReadRefresh(c) ==
    /\ refresh[c] # Nil /\ refresh[c].reply = Nil
    /\ \/ refresh' = [refresh EXCEPT ![c].reply = Listing(refresh[c].view)] /\ UNCHANGED budget
       \/ refresh' = [refresh EXCEPT ![c].reply = Failed] /\ Spend("fault")
    /\ UNCHANGED <<store, context, hook, stream, call>>

(* Mutants: an empty list arrives as null; a list only adds and updates. *)
NullForNone(reply) ==
    rows' = IF ~ reply.ok THEN rows ELSE IF reply.rows = <<>> THEN Nil ELSE reply.rows
OnlyAdds(reply) ==
    rows' = reply.rows \o Keep(rows, {i \in DOMAIN rows : \A n \in ToSet(reply.rows) : n.key # rows[i].key})
SetRows(reply) == rows' = IF reply.ok THEN reply.rows ELSE rows

(* Mutant: the spinner stops after the rows are set, not in a finally. *)
StopOnSuccess(reply) == loading' = (loading /\ ~ reply.ok)
StopLoading(reply) == loading' = FALSE

InitialArrives ==
    /\ initial # Nil /\ initial.reply # Nil
    /\ SetRows(initial.reply)
    /\ StopLoading(initial.reply)
    /\ initial' = Nil
    /\ UNCHANGED <<store, context, pendingTargets, stream, chains, budget>>

(* Whatever the page shows by now. *)
RefreshArrives(c) ==
    /\ refresh[c] # Nil /\ refresh[c].reply # Nil
    /\ SetRows(refresh[c].reply)
    /\ StopLoading(refresh[c].reply)
    /\ refresh' = [refresh EXCEPT ![c] = Nil]
    /\ UNCHANGED <<store, context, pendingTargets, initial, stream, call, budget>>

-----------------------------------------------------------------------------
(* The stream.                                                             *)

(* The watch starts without a resourceVersion: it begins with an ADDED for *)
(* every Session there is.  An answer other than 200 closes an EventSource *)
(* for good.                                                               *)
StreamOpens ==
    /\ stream.state = "connecting"
    /\ \/ /\ Enforce(policy, "watch", DomainOf(effectiveNs))
          /\ LET shown == Visible(effectiveNs) IN
             stream' = [ state |-> "open", seen |-> rev,
                         queue |-> [i \in DOMAIN shown |-> [type |-> "ADDED", row |-> shown[i]]] ]
          /\ UNCHANGED budget
       \/ /\ ~ Enforce(policy, "watch", DomainOf(effectiveNs))
          /\ stream' = [Connecting EXCEPT !.state = "closed"]
          /\ UNCHANGED budget
       \/ /\ Spend("fault")
          /\ stream' = [Connecting EXCEPT !.state = "closed"]
    /\ UNCHANGED <<store, context, hook, chains>>

(* The connection breaks: the browser connects again by itself. *)
StreamBreaks ==
    /\ stream.state = "open"
    /\ Spend("lose")
    /\ stream' = Connecting
    /\ UNCHANGED <<store, context, hook, chains>>

(* A row is looked up by its name alone. *)
SameName(r, e) == NameOf(r.key) = NameOf(e.row.key)

Named(list, e) == {i \in DOMAIN list : SameName(list[i], e)}

(* Mutant: a change is put in front without looking for the row. *)
Prepended(list, e) ==
    IF e.type = "DELETED" THEN Keep(list, DOMAIN list \ Named(list, e)) ELSE <<e.row>> \o list
Merged(list, e) ==
    LET at == Named(list, e) IN
    CASE e.type = "DELETED"            -> Keep(list, DOMAIN list \ at)
      [] e.type # "DELETED" /\ at = {} -> <<e.row>> \o list
      [] OTHER -> [list EXCEPT ![CHOOSE i \in at : \A j \in at : i <= j] = e.row]

(* Mutant: the target stays. *)
KeepTarget(k) == UNCHANGED pendingTargets
ClearTarget(k) == pendingTargets' = [pendingTargets EXCEPT ![k] = Nil]

Message ==
    /\ stream.queue # <<>>
    /\ LET e == Head(stream.queue) IN
       /\ rows' = Merged(rows, e)
       /\ ClearTarget(e.row.key)
       /\ stream' = [stream EXCEPT !.queue = Tail(@),
                                   !.seen = IF e.row.rev > @ THEN e.row.rev ELSE @]
    /\ UNCHANGED <<store, context, loading, initial, chains, budget>>

-----------------------------------------------------------------------------
(* Writes, and the events they cause.                                      *)

Write(k, object, type) ==
    LET row == [key |-> k, rev |-> rev + 1,
                rep |-> IF object = Nil THEN world[k].rep ELSE object.rep] IN
    /\ rev' = rev + 1
    /\ world' = [world EXCEPT ![k] = object]
    /\ stream' = IF stream.state = "open" /\ Shows(effectiveNs, k)
                 THEN [stream EXCEPT !.queue = Append(@, [type |-> type, row |-> row])]
                 ELSE stream

Stored(n) == [rep |-> n, rev |-> rev + 1]

(* Somebody else, or the controller. *)
Change(k) ==
    /\ Spend("change")
    /\ \/ world[k] = Nil /\ Write(k, Stored(1), "ADDED")
       \/ world[k] # Nil /\ Write(k, Nil, "DELETED")
       \/ world[k] # Nil /\ \E n \in Counts : Write(k, Stored(n), "MODIFIED")
    /\ UNCHANGED <<context, hook, chains>>

-----------------------------------------------------------------------------
(* Clicks.  A chain keeps the view of the render it was started from.      *)

(* The table's body: the rows, unless a spinner replaces them; and the     *)
(* buttons of a row, of which Open changes nothing here.                   *)
ShownRows == IF loading THEN {} ELSE DOMAIN rows
ScaleButtons(i) ==
    LET r == rows[i] IN
    IF Can(ix, NsOf(r.key), "scale")
    THEN {r.rep + 1, IF r.rep = 0 THEN 0 ELSE r.rep - 1} \cap Counts ELSE {}
DeleteButton(i) == Can(ix, NsOf(rows[i].key), "delete")

Idle(c) == call[c] = Nil /\ refresh[c] = Nil
Free(c) == Idle(c) /\ \A d \in Chains : d < c => ~ Idle(d)

Start(c, op, k, n) ==
    /\ Free(c)
    /\ Spend("click")
    /\ Can(ix, NsOf(k), op)
    /\ call' = [call EXCEPT ![c] =
                  [op |-> op, key |-> k, rep |-> n, view |-> effectiveNs, result |-> Nil]]

handleScale(c, i) ==
    /\ \E n \in ScaleButtons(i) :
          /\ Start(c, "scale", rows[i].key, n)
          /\ pendingTargets' = [pendingTargets EXCEPT ![rows[i].key] = n]
    /\ UNCHANGED <<store, context, rows, loading, initial, stream, refresh>>

doDelete(c, i) ==
    /\ DeleteButton(i)
    /\ Start(c, "delete", rows[i].key, 0)
    /\ UNCHANGED <<store, context, hook, stream, refresh>>

handleCreate(c, k) ==
    /\ Start(c, "create", k, 1)
    /\ UNCHANGED <<store, context, hook, stream, refresh>>

(* The server's answer, and the write when it accepts; a fault loses the    *)
(* request or the answer.                                                  *)
Serve(c) ==
    /\ call[c] # Nil /\ call[c].result = Nil
    /\ LET k == call[c].key
           op == call[c].op
           accepted == /\ Enforce(policy, op, NsOf(k))
                       /\ (world[k] = Nil) = (op = "create") IN
       \/ /\ accepted
          /\ \/ call' = [call EXCEPT ![c].result = "ok"] /\ UNCHANGED budget
             \/ call' = [call EXCEPT ![c].result = "failed"] /\ Spend("fault")
          /\ CASE op = "scale"  -> Write(k, Stored(call[c].rep), "MODIFIED")
               [] op = "delete" -> Write(k, Nil, "DELETED")
               [] op = "create" -> Write(k, Stored(call[c].rep), "ADDED")
       \/ /\ ~ accepted
          /\ call' = [call EXCEPT ![c].result = "failed"]
          /\ UNCHANGED <<store, stream, budget>>
       \/ /\ Spend("fault")
          /\ call' = [call EXCEPT ![c].result = "failed"]
          /\ UNCHANGED <<store, stream>>
    /\ UNCHANGED <<context, hook, refresh>>

(* The refresh is the one of the click's render. *)
Return(c) ==
    /\ call[c] # Nil /\ call[c].result # Nil
    /\ call' = [call EXCEPT ![c] = Nil]
    /\ IF call[c].result = "ok"
       THEN refresh' = [refresh EXCEPT ![c] = Ask(call[c].view)] /\ loading' = TRUE
       ELSE UNCHANGED <<refresh, loading>>
    /\ UNCHANGED <<store, context, rows, pendingTargets, initial, stream, budget>>

(* The Refresh button of the header. *)
handleRefresh(c) ==
    /\ Free(c)
    /\ Spend("click")
    /\ refresh' = [refresh EXCEPT ![c] = Ask(effectiveNs)]
    /\ loading' = TRUE
    /\ UNCHANGED <<store, context, rows, pendingTargets, initial, stream, call>>

-----------------------------------------------------------------------------
Click ==
    \/ \E c \in Chains, i \in ShownRows : handleScale(c, i) \/ doDelete(c, i)
    \/ \E c \in Chains, k \in Keys : handleCreate(c, k)
    \/ \E c \in Chains : handleRefresh(c)

Answered ==
    \/ ContextArrives \/ ReadInitial \/ InitialArrives
    \/ \E c \in Chains : Serve(c) \/ Return(c) \/ ReadRefresh(c) \/ RefreshArrives(c)

Next ==
    \/ Click
    \/ Answered
    \/ ContextFails
    \/ \E ns \in Views : Select(ns)
    \/ StreamOpens \/ StreamBreaks \/ Message
    \/ \E k \in Keys : Change(k)

Safety == Init /\ [][Next]_vars

(* Every request is answered, or fails, some time; what is sent arrives. *)
Fairness ==
    /\ WF_vars(ContextArrives)
    /\ WF_vars(ReadInitial) /\ WF_vars(InitialArrives)
    /\ \A c \in Chains : /\ WF_vars(Serve(c)) /\ WF_vars(Return(c))
                         /\ WF_vars(ReadRefresh(c)) /\ WF_vars(RefreshArrives(c))
    /\ WF_vars(StreamOpens) /\ WF_vars(Message)

Spec == Safety /\ Fairness

-----------------------------------------------------------------------------
(* The variables have their types. *)
TypeOK ==
    /\ policy \in Policies
    /\ world \in [Keys -> {Nil} \cup Objects] /\ rev \in Nat
    /\ asking \in BOOLEAN /\ ix \in {Nil, UserAnswer(policy, Namespaces)}
    /\ namespace \in Views
    /\ rows \in Seq(Rows) /\ loading \in BOOLEAN
    /\ pendingTargets \in [Keys -> {Nil} \cup Counts]
    /\ initial \in {Nil} \cup Lists /\ stream \in Streams
    /\ call \in [Chains -> {Nil} \cup Calls] /\ refresh \in [Chains -> {Nil} \cup Lists]
    /\ budget \in [BudgetKinds -> Nat]

(* No spinner without a request behind it: whatever the order in which     *)
(* lists are started, cancelled, refused and answered, `loading` is only   *)
(* true while one is under way (useSessions.ts, the two finally blocks).   *)
LoadingMeansAsked == loading => initial # Nil \/ \E c \in Chains : refresh[c] # Nil

(* A table after the messages of a queue. *)
Replayed(table, queue) ==
    LET after[n \in 0 .. Len(queue)] ==
            IF n = 0 THEN table ELSE Merged(after[n - 1], queue[n]) IN
    after[Len(queue)]

(* What is on its way makes the table what the server shows, in any order. *)
InSync ==
    /\ stream.state = "open"
    /\ LET table == Replayed(rows, stream.queue) IN
       IsInjective(table) /\ ToSet(table) = ToSet(Visible(effectiveNs))

(* Rows are looked up by name: no two Sessions of the view may share one,  *)
(* as those of one namespace cannot.                                       *)
NamesTellApart ==
    \A j, k \in Keys : Shows(effectiveNs, j) /\ Shows(effectiveNs, k) /\ NameOf(j) = NameOf(k) => j = k

(* A list of another view, or older than events the page has consumed. *)
Overtaken(l) == l.view # effectiveNs \/ l.reply.rev < stream.seen
ArrivesOvertaken ==
    \/ InitialArrives /\ initial.reply.ok /\ Overtaken(initial)
    \/ \E c \in Chains :
          RefreshArrives(c) /\ refresh[c].reply.ok /\ Overtaken(refresh[c])
ArrivesInTime ==
    \/ InitialArrives /\ initial.reply.ok /\ ~ Overtaken(initial)
    \/ \E c \in Chains :
          RefreshArrives(c) /\ refresh[c].reply.ok /\ ~ Overtaken(refresh[c])

(* Once list and stream agree with the server, so that delivering what is  *)
(* on its way yields what the server shows, nothing undoes it: no event,   *)
(* no write, no list that is up to date.  Only another view, a broken      *)
(* stream or an overtaken list does (useSessions.ts: the reducer of the    *)
(* messages, and the lists that replace all rows).                         *)
SyncIsKept ==
    [][ (/\ stream'.state = "open" /\ effectiveNs' = effectiveNs
         /\ NamesTellApart
         /\ ~ ArrivesOvertaken
         /\ InSync) => InSync' ]_vars

(* A list that is not overtaken makes table and stream agree, whatever the *)
(* rows were before and whatever was written since it was read: what it    *)
(* misses is on its way (useSessions.ts: setRows of a list; the stream of  *)
(* sessions_handlers.go leaves out no write after its start).              *)
ListSyncs ==
    [][ (stream.state = "open" /\ NamesTellApart /\ ArrivesInTime) => InSync' ]_vars

(* Nothing more is clicked, changed or broken. *)
Calm == ~ asking /\ \A b \in BudgetKinds : budget[b] = 0

RefreshesAlone(c) ==
    /\ refresh[c] # Nil /\ refresh[c].reply = Nil /\ refresh[c].view = effectiveNs
    /\ Enforce(policy, "list", DomainOf(effectiveNs))
    /\ stream.state = "open" /\ initial = Nil
    /\ \A d \in Chains \ {c} : Idle(d)

(* Whatever went wrong before, a refresh of the view that is shown heals   *)
(* it, if no other list is under way and the stream is open: the table     *)
(* comes to show what the server shows (SessionsPage.tsx: the refresh      *)
(* after every call; App.tsx: handleRefresh).                              *)
RefreshHeals ==
    \A c \in Chains :
        (Calm /\ RefreshesAlone(c)) ~> (rows = Visible(effectiveNs) \/ (InSync /\ stream.queue = <<>>))

(* SessionsTable.tsx: the tooltip Applying. *)
Applying(k) ==
    /\ pendingTargets[k] # Nil
    /\ \E i \in DOMAIN rows : rows[i].key = k /\ rows[i].rep # pendingTargets[k]

(* A scale request the server accepted does not stay "Applying" for ever:  *)
(* the event it caused clears the target, or a later stream's first        *)
(* messages do, unless the stream is closed for good, the Session is gone  *)
(* or the view has left it (useSessions.ts: pendingTargets).               *)
ApplyingEnds ==
    \A c \in Chains, k \in Keys :
        (call[c] # Nil /\ call[c].op = "scale" /\ call[c].key = k /\ call[c].result = "ok")
            ~> \/ ~ Applying(k)
               \/ world[k] = Nil \/ stream.state = "closed" \/ ~ Shows(effectiveNs, k)

(* "Live updates via SSE" (useSessions.ts:65): when everything was answered *)
(* and delivered, the table shows what the server shows.                    *)
SettledIsCurrent ==
    (/\ ~ asking /\ initial = Nil /\ \A c \in Chains : Idle(c)
     /\ stream.state = "open" /\ stream.queue = <<>>)
        => ToSet(rows) = ToSet(Visible(effectiveNs))
=============================================================================

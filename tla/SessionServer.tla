----------------------------- MODULE SessionServer -----------------------------
(***************************************************************************)
(* The session handlers of the API servers (internal/server,               *)
(* sessions_handlers.go) at work on one Session name.  Several servers run *)
(* against one cluster, each with its installation id; a server that is    *)
(* not cluster scoped hides the Sessions that carry another id.            *)
(*                                                                         *)
(* A request is handled in one action per Kubernetes API call; requests    *)
(* run in goroutines of their own and interleave with each other, with the *)
(* controller (module SessionController) and with kubectl.  The servers    *)
(* read from the API server itself, not from a cache.                      *)
(*                                                                         *)
(* A request that hangs up or a server that dies just stops: no action is  *)
(* fair unless a property asks for it.                                     *)
(*                                                                         *)
(* Not covered: authentication and the policy behind RBAC (a request comes *)
(* with what its user may do), list and stream, the manager labels and the *)
(* created/updated/adopted by/at annotations, which no handler reads.      *)
(***************************************************************************)
EXTENDS SessionRequests

CONSTANTS
    Requests,
    Attempts,       \* how often RetryOnConflict tries (a bound)
    Loads           \* the requests there are, and how often the environment
                    \* may do each thing beside them (a bound)

-----------------------------------------------------------------------------
Sessions == [ uid : Nat, rv : Nat, fin : BOOLEAN, deleting : BOOLEAN,
              label       : {Nil} \cup Ids,     \* the installation id label
              adoptedFrom : {Nil} \cup Ids,     \* the annotation
              spec        : SessionSpecs ]

(* A Session as clients see it, without the resourceVersion. *)
BareSessions == [ uid : Nat, fin : BOOLEAN, deleting : BOOLEAN, label : {Nil} \cup Ids,
                  adoptedFrom : {Nil} \cup Ids, spec : SessionSpecs ]

Codes == {200, 201, 400, 403, 404, 409, 500}
BudgetKinds == {"apply", "status", "fault", "index"}
Load == [ask : [Requests -> Asks], budget : [BudgetKinds -> Nat]]

ASSUME AttemptsAssumption == Attempts \in Nat \ {0}
ASSUME LoadsAssumption == Loads \subseteq Load
ASSUME NilAssumption == Nil \notin Sessions \cup BareSessions \cup Codes

VARIABLES
    sess,           \* the Session stored in the API server, or Nil
    rev,            \* the latest resourceVersion handed out
    known,          \* the ids that have an instance ConfigMap
    ask,            \* ask[r]: the request
    pc,             \* pc[r]: the next API call of its handler
    copy,           \* copy[r]: the Session its handler read
    idx,            \* idx[r]: the instance index an adoption read
    tries,          \* tries[r]: conflicts so far
    answer,         \* answer[r]: the HTTP status, Nil while it is handled
    budget

vars == <<sess, rev, known, ask, pc, copy, idx, tries, answer, budget>>
store == <<sess, rev>>
handler == <<pc, copy, idx, tries, answer>>

Id(r) == IdOf[ask[r].server]
Scoped(r) == ask[r].server \notin ClusterScope

-----------------------------------------------------------------------------
Stored == [uid : {1}, rv : {1}, fin : BOOLEAN, deleting : {FALSE},
           label : {Nil} \cup Ids, adoptedFrom : {Nil},
           spec : [replicas : {1}, ide : Ides, image : Images]]

Init ==
    /\ sess \in {Nil} \cup Stored
    /\ rev = 1
    /\ known \in SUBSET Ids
    /\ \E load \in Loads : ask = load.ask /\ budget = load.budget
    /\ pc = [r \in Requests |-> "authorize"]
    /\ copy = [r \in Requests |-> Nil]
    /\ idx = [r \in Requests |-> {}]
    /\ tries = [r \in Requests |-> 0]
    /\ answer = [r \in Requests |-> Nil]

Spend(b) ==
    /\ budget[b] > 0
    /\ budget' = [budget EXCEPT ![b] = @ - 1]

Renew(new) ==
    /\ rev' = rev + 1
    /\ sess' = [new EXCEPT !.rv = rev + 1]

(* A write that changes nothing gets no new resourceVersion. *)
Store(new) == IF new = sess THEN UNCHANGED store ELSE Renew(new)

(* All updates but scale note the time, to the second: if nothing else is  *)
(* new, that may be.                                                       *)
Save(r, new) == Store(new) \/ (ask[r].op # "scale" /\ Renew(new))

(* Mutant: the error is written and the handler goes on. *)
AnswerWithoutReturn(r, code) ==
    /\ answer' = [answer EXCEPT ![r] = code]
    /\ UNCHANGED <<pc, copy, idx, tries>>

Answer(r, code) ==
    /\ pc' = [pc EXCEPT ![r] = "done"]
    /\ answer' = [answer EXCEPT ![r] = code]
    /\ UNCHANGED <<copy, idx, tries>>

Goto(r, step) ==
    /\ pc' = [pc EXCEPT ![r] = step]
    /\ UNCHANGED <<answer, idx, tries>>

-----------------------------------------------------------------------------
(* What a handler checks before its first API call. *)

(* handleCreateSession looks at the body first, the others at the user. *)
Authorize(r) ==
    /\ pc[r] = "authorize"
    /\ LET a == ask[r]
           forbidden == Verb(a) \notin a.may
           bad == BadBody(a)
       IN  CASE forbidden /\ ~(bad /\ a.op = "create") -> Answer(r, 403)
             [] bad /\ (~forbidden \/ a.op = "create") -> Answer(r, 400)
             [] ~forbidden /\ ~bad ->
                  /\ Goto(r, IF a.op = "create" THEN "create" ELSE "get")
                  /\ UNCHANGED copy
    /\ UNCHANGED <<store, known, ask, budget>>

AfterGet(r) ==
    CASE ask[r].op = "adopt"  -> "index"
      [] ask[r].op = "delete" -> "delete"
      [] OTHER                -> "update"

Get(r) ==
    /\ pc[r] = "get"
    /\ CASE sess = Nil -> Answer(r, 500)
         [] sess # Nil /\ Hidden(ask[r], sess.label) -> Answer(r, 404)
         [] sess # Nil /\ ~Hidden(ask[r], sess.label) /\ ask[r].op = "get" -> Answer(r, 200)
         [] sess # Nil /\ ~Hidden(ask[r], sess.label) /\ ask[r].op = "put"
              /\ ask[r].replicas # Nil /\ ~Fits(ask[r].replicas) -> Answer(r, 400)
         [] OTHER ->
              /\ Goto(r, AfterGet(r))
              /\ copy' = [copy EXCEPT ![r] = sess]
    /\ UNCHANGED <<store, known, ask, budget>>

(* Mutant: a dry run is not told from an adoption. *)
IndexForGood(r) ==
    /\ pc[r] = "index"
    /\ pc' = [pc EXCEPT ![r] = "update"]
    /\ idx' = [idx EXCEPT ![r] = known]
    /\ copy[r].label \in {Nil, Id(r)} \/ copy[r].label \notin known \/ ask[r].force
    /\ UNCHANGED <<store, known, ask, copy, tries, answer, budget>>

(* BuildInstanceMetaIndex lists the instance ConfigMaps.  It returns no    *)
(* error: if the list fails, the index is empty.                           *)
Index(r) ==
    /\ pc[r] = "index"
    /\ \E found \in {known, {}} :
         /\ IF found = known THEN UNCHANGED budget ELSE Spend("fault")
         /\ LET old == copy[r].label
                orphan == old = Nil \/ old \notin found
            IN  IF ~orphan /\ old # Id(r) /\ ~ask[r].force
                THEN Answer(r, 409)
                ELSE IF ask[r].dryRun
                THEN Answer(r, 200)
                ELSE /\ pc' = [pc EXCEPT ![r] = "update"]
                     /\ idx' = [idx EXCEPT ![r] = found]
                     /\ UNCHANGED <<copy, tries, answer>>
    /\ UNCHANGED <<store, known, ask>>

-----------------------------------------------------------------------------
(* The calls that write. *)

(* Mutant: that the Session is there already is taken for success. *)
CreateOrKeep(r) ==
    /\ pc[r] = "create"
    /\ Answer(r, 201)
    /\ IF sess # Nil
       THEN UNCHANGED store
       ELSE /\ LET new == Made(ask[r])
               IN  sess' = [ uid |-> rev + 1, rv |-> rev + 1,
                             fin |-> new.fin, deleting |-> new.deleting, label |-> new.label,
                             adoptedFrom |-> new.adoptedFrom, spec |-> new.spec ]
            /\ rev' = rev + 1
    /\ UNCHANGED <<known, ask, budget>>

(* client.Create; the reply may get lost. *)
Create(r) ==
    /\ pc[r] = "create"
    /\ IF sess # Nil
       THEN Answer(r, 500) /\ UNCHANGED <<store, budget>>
       ELSE /\ LET new == Made(ask[r])
               IN  sess' = [ uid |-> rev + 1, rv |-> rev + 1,
                             fin |-> new.fin, deleting |-> new.deleting, label |-> new.label,
                             adoptedFrom |-> new.adoptedFrom, spec |-> new.spec ]
            /\ rev' = rev + 1
            /\ \/ Answer(r, 201) /\ UNCHANGED budget
               \/ Answer(r, 500) /\ Spend("fault")
    /\ UNCHANGED <<known, ask>>

(* Mutant: the update carries no resourceVersion. *)
OtherIncarnation(r) == copy[r].uid # sess.uid

Conflicts(r) == copy[r].rv # sess.rv

(* One try of RetryOnConflict: client.Update of the Session that was read, *)
(* with the changes, under the resourceVersion it was read with.  The next *)
(* try sends the same object.                                              *)
Update(r) ==
    /\ pc[r] = "update"
    /\ LET new == Changed(ask[r], copy[r])
       IN  CASE sess = Nil \/ Invalid(new.spec) ->
                  Answer(r, 500) /\ UNCHANGED <<store, budget>>
             [] sess # Nil /\ ~Invalid(new.spec) /\ Conflicts(r) ->
                  /\ IF tries[r] + 1 < Attempts
                     THEN /\ tries' = [tries EXCEPT ![r] = @ + 1]
                          /\ UNCHANGED <<pc, copy, idx, answer>>
                     ELSE Answer(r, 500)
                  /\ UNCHANGED <<store, budget>>
             [] sess # Nil /\ ~Invalid(new.spec) /\ ~Conflicts(r) ->
                  /\ Save(r, new)
                  /\ \/ Answer(r, 200) /\ UNCHANGED budget
                     \/ Answer(r, 500) /\ Spend("fault")     \* the reply is lost
    /\ UNCHANGED <<known, ask>>

(* client.Delete names the Session; it carries neither uid nor             *)
(* resourceVersion.                                                        *)
Delete(r) ==
    /\ pc[r] = "delete"
    /\ IF sess = Nil
       THEN Answer(r, 500) /\ UNCHANGED <<store, budget>>
       ELSE /\ IF sess.fin
               THEN Store([sess EXCEPT !.deleting = TRUE])
               ELSE sess' = Nil /\ rev' = rev + 1
            /\ \/ Answer(r, 200) /\ UNCHANGED budget
               \/ Answer(r, 500) /\ Spend("fault")
    /\ UNCHANGED <<known, ask>>

(* An API call fails without effect. *)
CallFails(r) ==
    /\ pc[r] \in {"get", "create", "update", "delete"}
    /\ Spend("fault")
    /\ Answer(r, 500)
    /\ UNCHANGED <<store, known, ask>>

Handle(r) ==
    \/ Authorize(r) \/ Get(r) \/ Index(r)
    \/ Create(r) \/ Update(r) \/ Delete(r)

-----------------------------------------------------------------------------
(* Who else writes the Session and the ConfigMaps. *)

(* ensureFinalizer of the controller, which stores defaults as well. *)
Guarded ==
    /\ sess # Nil
    /\ ~sess.deleting
    /\ ~sess.fin
    /\ Store([sess EXCEPT !.fin = TRUE, !.spec = Defaulted(@)])
    /\ UNCHANGED <<known, ask, handler, budget>>

(* updateStatus and failStatus of the controller: a new resourceVersion. *)
StatusWritten ==
    /\ sess # Nil
    /\ Spend("status")
    /\ rev' = rev + 1
    /\ sess' = [sess EXCEPT !.rv = rev + 1]
    /\ UNCHANGED <<known, ask, handler>>

(* handleDelete of the controller. *)
Released ==
    /\ sess # Nil
    /\ sess.deleting
    /\ sess' = Nil
    /\ rev' = rev + 1
    /\ UNCHANGED <<known, ask, handler, budget>>

(* Somebody applies a manifest, without an installation id. *)
Apply ==
    /\ sess = Nil
    /\ Spend("apply")
    /\ \E s \in Stored :
         /\ s.label = Nil /\ ~s.fin
         /\ sess' = [s EXCEPT !.uid = rev + 1, !.rv = rev + 1]
    /\ rev' = rev + 1
    /\ UNCHANGED <<known, ask, handler>>

(* A server starts (ensureInstallationID), or its ConfigMap is deleted. *)
IndexChanges ==
    /\ Spend("index")
    /\ \E i \in Ids : known' \in {known \cup {i}, known \ {i}}
    /\ UNCHANGED <<store, ask, handler>>

Next ==
    \/ \E r \in Requests : Handle(r) \/ CallFails(r)
    \/ Guarded \/ StatusWritten \/ Released \/ Apply \/ IndexChanges

Safety == Init /\ [][Next]_vars

(* Every handler that is under way goes on. *)
Spec == Safety /\ \A r \in Requests : WF_vars(Handle(r))

-----------------------------------------------------------------------------
TypeOK ==
    /\ sess \in {Nil} \cup Sessions
    /\ rev \in Nat
    /\ known \subseteq Ids
    /\ ask \in [Requests -> Asks]
    /\ pc \in [Requests -> {"authorize", "get", "index", "create", "update", "delete", "done"}]
    /\ copy \in [Requests -> {Nil} \cup Sessions]
    /\ \A r \in Requests : pc[r] \in {"index", "update", "delete"} => copy[r] # Nil
    /\ idx \in [Requests -> SUBSET Ids]
    /\ tries \in [Requests -> 0 .. Attempts - 1]
    /\ answer \in [Requests -> {Nil} \cup Codes]
    /\ \A r \in Requests : pc[r] = "done" <=> answer[r] # Nil
    /\ budget \in [BudgetKinds -> Nat]

(* Request r stores the Session it has changed. *)
Writes(r) == pc[r] = "update" /\ pc'[r] = "done" /\ sess' # sess

(* An update is atomic: what it stores is the stored Session with the      *)
(* changes asked for, so it takes back nothing that another request, the   *)
(* controller or kubectl wrote after the handler's read.                   *)
UpdatesAreAtomic ==
    [][\A r \in Requests : Writes(r) =>
         /\ sess # Nil
         /\ sess' = [Changed(ask[r], sess) EXCEPT !.rv = rev']]_vars

(* A server that is not cluster scoped changes no Session that carries     *)
(* another installation's id at the moment of the write.                   *)
ScopedServersKeepToTheirOwn ==
    [][\A r \in Requests : Writes(r) /\ Scoped(r) =>
         sess.label = Id(r) \/ (ask[r].op = "adopt" /\ sess.label = Nil)]_vars

(* "FETCH then verify instance-id before deleting" (sessions_handlers.go:  *)
(* 399), but the deletion names no version: a server that is not cluster   *)
(* scoped takes away another installation's Session only if it came, or    *)
(* changed hands, after the handler had looked.                            *)
ScopedServersDeleteTheirOwn ==
    [][\A r \in Requests :
         (/\ pc[r] = "delete" /\ pc'[r] = "done" /\ Scoped(r)
          /\ sess # Nil /\ sess' # sess /\ sess.rv = copy[r].rv)
            => sess.label = Id(r)]_vars

(* Without force only what was nobody's, by the index the handler read,    *)
(* is taken from another installation.                                     *)
AdoptionRespectsOwners ==
    [][\A r \in Requests : Writes(r) /\ ask[r].op = "adopt" /\ ~ask[r].force =>
         sess.label \in {Nil, Id(r)} \/ sess.label \notin idx[r]]_vars

(* A Session that changes hands says whose it was. *)
AdoptedFromTheLastOwner ==
    [][(/\ sess # Nil /\ sess' # Nil /\ sess.uid = sess'.uid
        /\ sess.label \notin {Nil, sess'.label})
       => sess'.adoptedFrom = sess.label]_vars

(* What clients may take for granted (module AtomicSessions): a request    *)
(* that is answered with success has taken effect, once and as a whole,    *)
(* and an adoption or an update was of a Session the server shows.         *)
Bare(s) == [ uid |-> s.uid, fin |-> s.fin, deleting |-> s.deleting,
             label |-> s.label, adoptedFrom |-> s.adoptedFrom, spec |-> s.spec ]
bare == IF sess = Nil THEN Nil ELSE Bare(sess)

Atomic == INSTANCE AtomicSessions WITH session <- bare

(* The handlers, with their reads, retries and writes, implement that.     *)
ImplementsAtomicSessions == Atomic!Safety

-----------------------------------------------------------------------------
(* What the source says and its behaviour does not bear out. *)

(* "Update replicas with retry logic for conflicts"                        *)
(* (sessions_handlers.go:485): an update that meets a conflict succeeds    *)
(* once the others are done writing.                                       *)
RetrySucceeds ==
    \A r \in Requests : pc[r] = "update" /\ tries[r] > 0 ~> answer[r] = 200
=============================================================================

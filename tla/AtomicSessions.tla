---------------------------- MODULE AtomicSessions ----------------------------
(***************************************************************************)
(* What the session API promises its clients about one Session name: a     *)
(* request is carried out in one step, on the Session as it is at that     *)
(* moment.  There are no resourceVersions, no reads and no retries here.   *)
(*                                                                         *)
(* The promise has a gap: a DELETE takes away whatever bears the name,     *)
(* also if the server does not show it (SessionServer tells when:          *)
(* ScopedServersDeleteTheirOwn).                                           *)
(* A 500 means that nothing was done or that the reply was lost.           *)
(***************************************************************************)
EXTENDS SessionRequests

CONSTANT Requests

VARIABLES
    session,        \* the Session without its resourceVersion, or Nil
    ask,            \* the requests
    answer          \* what they are answered, Nil until then

avars == <<session, ask, answer>>

Init ==
    /\ session = Nil \/ ~session.deleting
    /\ ask \in [Requests -> Asks]
    /\ answer = [r \in Requests |-> Nil]

Accepted(r) == Verb(ask[r]) \in ask[r].may /\ ~BadBody(ask[r])

Answer(r, codes) ==
    /\ answer[r] = Nil
    /\ \E code \in codes : answer' = [answer EXCEPT ![r] = code]
    /\ UNCHANGED ask

Refuse(r) ==
    /\ Answer(r, {400, 403, 404, 409, 500})
    /\ UNCHANGED session

Show(r) ==
    /\ Accepted(r)
    /\ \/ ask[r].op = "get" /\ session # Nil /\ ~Hidden(ask[r], session.label)
       \/ ask[r].op = "adopt" /\ ask[r].dryRun
    /\ Answer(r, {200})
    /\ UNCHANGED session

(* session' becomes what new says, as an incarnation of its own. *)
Appears(new) ==
    /\ session = Nil
    /\ session' # Nil
    /\ session' = [ uid |-> session'.uid, fin |-> new.fin, deleting |-> new.deleting,
                    label |-> new.label, adoptedFrom |-> new.adoptedFrom, spec |-> new.spec ]

Make(r) ==
    /\ Accepted(r)
    /\ ask[r].op = "create"
    /\ Appears(Made(ask[r]))
    /\ Answer(r, {201, 500})

Change(r) ==
    /\ Accepted(r)
    /\ ask[r].op \in Updates
    /\ ask[r].op = "adopt" => ~ask[r].dryRun
    /\ session # Nil
    /\ ~Hidden(ask[r], session.label)
    /\ session' = Changed(ask[r], session)
    /\ ~Invalid(session'.spec)
    /\ Answer(r, {200, 500})

Remove(r) ==
    /\ Accepted(r)
    /\ ask[r].op = "delete"
    /\ session # Nil
    /\ session' = IF session.fin THEN [session EXCEPT !.deleting = TRUE] ELSE Nil
    /\ Answer(r, {200, 500})

(* The controller guards a Session and lets it go; somebody applies a      *)
(* manifest without an installation id.                                    *)
Others ==
    /\ \/ /\ session # Nil
          /\ ~session.deleting
          /\ session' = [ uid |-> session.uid, fin |-> TRUE, deleting |-> session.deleting,
                          label |-> session.label, adoptedFrom |-> session.adoptedFrom,
                          spec |-> Defaulted(session.spec) ]
       \/ /\ session # Nil
          /\ session.deleting
          /\ session' = Nil
       \/ /\ Appears(session')
          /\ session'.label = Nil /\ ~session'.fin /\ ~session'.deleting
    /\ UNCHANGED <<ask, answer>>

Next ==
    \/ \E r \in Requests : Refuse(r) \/ Show(r) \/ Make(r) \/ Change(r) \/ Remove(r)
    \/ Others

Safety == Init /\ [][Next]_avars
=============================================================================

-------------------------- MODULE SessionServerProofs --------------------------
(***************************************************************************)
(* Theorems about SessionServer, for any number of requests, servers and   *)
(* tries.  Requests are never told apart, so every case is about one       *)
(* request r that moves and one request q that may be another.             *)
(***************************************************************************)
EXTENDS SessionServerInvariant, TLAPS

(* What a request makes of a Session is a Session, unless the schema       *)
(* refuses it.                                                             *)
LEMMA ChangedIsASession ==
    ASSUME NEW a \in Asks, NEW s \in Sessions,
           a.op \in Updates, ~BadBody(a), ~Invalid(Changed(a, s).spec)
    PROVE  Changed(a, s) \in Sessions
<1>1. a \in Ask /\ IdOf[a.server] \in {Nil} \cup Ids
  BY AsksAssumption, ServersAssumption DEF Ask
<1>2. CASE a.op = "adopt"
  BY <1>1, <1>2 DEF Changed, Sessions
<1>3. CASE a.op # "adopt"
  <2>1. ChangedSpec(a, s.spec).replicas \in {Nil} \cup Int
    BY <1>1, <1>3, NumbersAssumption
    DEF Ask, Sessions, SessionSpecs, ChangedSpec, Replicas, int32, MinInt32, Updates
  <2>2. /\ ChangedSpec(a, s.spec).ide \in {Nil} \cup Ides
        /\ ChangedSpec(a, s.spec).image \in {Nil} \cup Images
    BY <1>1, <1>3 DEF Ask, Sessions, SessionSpecs, ChangedSpec, Updates
  <2>3. ChangedSpec(a, s.spec) = [ replicas |-> ChangedSpec(a, s.spec).replicas,
                                   ide      |-> ChangedSpec(a, s.spec).ide,
                                   image    |-> ChangedSpec(a, s.spec).image ]
    BY <1>1, <1>3 DEF Sessions, SessionSpecs, ChangedSpec, Updates
  <2>4. Changed(a, s) = [s EXCEPT !.spec = ChangedSpec(a, s.spec)]
    BY <1>3 DEF Changed
  <2>5. Changed(a, s).spec = ChangedSpec(a, s.spec)
    BY <2>4 DEF Sessions
  <2>6. ChangedSpec(a, s.spec) \in SessionSpecs
    BY <2>1, <2>2, <2>3, <2>5 DEF Invalid, SessionSpecs
  <2> QED BY <2>4, <2>6 DEF Sessions
<1> QED BY <1>2, <1>3

LEMMA MadeIsASession ==
    ASSUME NEW a \in Asks, ~BadBody(a), a.op = "create"
    PROVE  /\ Made(a).fin \in BOOLEAN /\ Made(a).deleting \in BOOLEAN
           /\ Made(a).label \in {Nil} \cup Ids /\ Made(a).adoptedFrom = Nil
           /\ Made(a).spec \in SessionSpecs
  BY AsksAssumption, ServersAssumption DEF Ask, Made, SessionSpecs, BadBody

(* What the name may hold at first is a Session. *)
LEMMA StoredAreSessions == Stored \subseteq Sessions
<1> SUFFICES ASSUME NEW s \in Stored PROVE s \in Sessions
  OBVIOUS
<1>1. s.deleting \in BOOLEAN
  <2>1. s.deleting \in {FALSE}
    BY DEF Stored
  <2> QED BY <2>1, Zenon
<1>2. s = [ uid |-> s.uid, rv |-> s.rv, fin |-> s.fin, deleting |-> s.deleting,
            label |-> s.label, adoptedFrom |-> s.adoptedFrom, spec |-> s.spec ]
  BY DEF Stored
<1>3. s.uid \in Nat /\ s.rv \in Nat /\ s.fin \in BOOLEAN
      /\ s.label \in {Nil} \cup Ids /\ s.adoptedFrom \in {Nil} \cup Ids
      /\ s.spec \in SessionSpecs
  BY DEF Stored, SessionSpecs
<1> QED BY <1>1, <1>2, <1>3 DEF Sessions

(* A stored Session is one of the Sessions, whatever was written. *)
LEMMA StoreStores ==
    ASSUME NEW new \in Sessions, rev \in Nat, sess \in Sessions, sess.rv \in 0 .. rev,
           Store(new) \/ Renew(new)
    PROVE  /\ sess' \in Sessions
           /\ rev' \in Nat
           /\ rev' >= rev
           /\ sess'.rv \in 0 .. rev'
           /\ sess' # sess => sess'.rv = rev + 1 /\ rev' = rev + 1
           /\ sess' # sess => sess' = [new EXCEPT !.rv = rev']
           /\ sess' = sess => rev' = rev
<1>1. CASE Store(new) /\ new = sess
  BY <1>1 DEF Store, store
<1>2. CASE Renew(new)
  BY <1>2 DEF Renew, Sessions
<1> QED BY <1>1, <1>2 DEF Store

(* If nobody's copy has a version of the future, a write under a fresh     *)
(* version, or a removal, leaves every copy what it was said to be.        *)
LEMMA CopiesStayCopies ==
    ASSUME NEW c \in {Nil} \cup Sessions, rev \in Nat, rev' \in Nat, rev' >= rev,
           Past(c), Unchanged(c),
           sess' = sess \/ sess' = Nil \/ (sess'.rv = rev + 1 /\ rev' = rev + 1)
    PROVE  /\ c # Nil => c.rv \in 0 .. rev'
           /\ c # Nil /\ sess' # Nil /\ c.rv = sess'.rv => c = sess'
  BY NilAssumption DEF Past, Unchanged, Sessions

(* How any step may treat the store. *)
StoreMoves ==
    /\ sess' \in {Nil} \cup Sessions
    /\ rev' \in Nat /\ rev' >= rev
    /\ sess' # Nil => sess'.rv \in 0 .. rev'
    /\ sess' = sess \/ sess' = Nil \/ (sess'.rv = rev + 1 /\ rev' = rev + 1)

LEMMA StoreMovesOn ==
    ASSUME NEW new \in Sessions, IInv, sess # Nil, Store(new) \/ Renew(new)
    PROVE  StoreMoves
<1>1. rev \in Nat /\ sess \in Sessions /\ sess.rv \in 0 .. rev
  BY DEF IInv, TypeOK, Past
<1> QED BY <1>1, StoreStores DEF StoreMoves

LEMMA StoreStands ==
    ASSUME IInv, UNCHANGED store
    PROVE  StoreMoves
  BY DEF IInv, TypeOK, Past, store, StoreMoves

LEMMA StoreEmptied ==
    ASSUME IInv, sess' = Nil, rev' = rev + 1
    PROVE  StoreMoves
  BY DEF IInv, TypeOK, StoreMoves

LEMMA CreateCreates ==
    ASSUME IInv, NEW r \in Requests, Create(r), sess = Nil
    PROVE  sess' \in Sessions /\ sess'.rv = rev + 1 /\ rev' = rev + 1
<1>1. Made(ask[r]).spec \in SessionSpecs /\ Made(ask[r]).label \in {Nil} \cup Ids
      /\ Made(ask[r]).adoptedFrom = Nil /\ Made(ask[r]).fin \in BOOLEAN
      /\ Made(ask[r]).deleting \in BOOLEAN
  BY MadeIsASession DEF Create, IInv, TypeOK, Justified
<1>2. /\ sess' = [ uid |-> rev + 1, rv |-> rev + 1,
                   fin |-> Made(ask[r]).fin, deleting |-> Made(ask[r]).deleting,
                   label |-> Made(ask[r]).label,
                   adoptedFrom |-> Made(ask[r]).adoptedFrom, spec |-> Made(ask[r]).spec ]
      /\ rev' = rev + 1 /\ rev \in Nat
  BY DEF Create, IInv, TypeOK
<1>3. sess' \in Sessions
  BY <1>1, <1>2 DEF Sessions
<1> QED BY <1>2, <1>3

LEMMA HandlersMoveStore ==
    ASSUME NEW r \in Requests, IInv, Handle(r) \/ CallFails(r)
    PROVE  StoreMoves
<1> USE StoreStands
<1>1. CASE Authorize(r) \/ Get(r) \/ Index(r) \/ CallFails(r)
  BY <1>1 DEF Authorize, Get, Index, CallFails
<1>2. CASE Create(r)
  <2>1. CASE sess # Nil
    BY <1>2, <2>1 DEF Create
  <2>2. CASE sess = Nil
    <3>1. sess' \in Sessions /\ sess'.rv = rev + 1 /\ rev' = rev + 1 /\ rev \in Nat
      BY <1>2, <2>2, CreateCreates DEF IInv, TypeOK
    <3> QED BY <3>1 DEF StoreMoves
  <2> QED BY <2>1, <2>2
<1>3. CASE Update(r)
  <2>1. CASE UNCHANGED store
    BY <2>1
  <2>2. CASE sess # Nil /\ ~Invalid(Changed(ask[r], copy[r]).spec)
             /\ (Store(Changed(ask[r], copy[r])) \/ Renew(Changed(ask[r], copy[r])))
    <3>1. /\ copy[r] \in Sessions /\ ask[r] \in Asks
          /\ ask[r].op \in Updates /\ ~BadBody(ask[r])
      BY <1>3 DEF Update, IInv, TypeOK, Justified
    <3> QED BY <2>2, <3>1, ChangedIsASession, StoreMovesOn
  <2> QED BY <1>3, <2>1, <2>2 DEF Update, Save
<1>4. CASE Delete(r)
  <2>1. CASE sess # Nil /\ sess.fin
    <3>1. [sess EXCEPT !.deleting = TRUE] \in Sessions
      BY <2>1 DEF IInv, TypeOK, Sessions
    <3> QED BY <1>4, <2>1, <3>1, StoreMovesOn DEF Delete
  <2>2. CASE sess = Nil \/ ~sess.fin
    BY <1>4, <2>2, StoreEmptied DEF Delete
  <2> QED BY <2>1, <2>2
<1> QED BY <1>1, <1>2, <1>3, <1>4 DEF Handle

LEMMA OthersMoveStore ==
    ASSUME IInv, Guarded \/ StatusWritten \/ Released \/ Apply \/ IndexChanges
    PROVE  StoreMoves
<1>1. CASE Guarded
  <2>1. [sess EXCEPT !.fin = TRUE, !.spec = Defaulted(@)] \in Sessions
    <3>1. sess \in Sessions
      BY <1>1 DEF Guarded, IInv, TypeOK
    <3>2. Defaulted(sess.spec) \in SessionSpecs
      BY <3>1 DEF Defaulted, Sessions, SessionSpecs
    <3> QED BY <3>1, <3>2 DEF Sessions
  <2> QED BY <1>1, <2>1, StoreMovesOn DEF Guarded
<1>2. CASE StatusWritten
  BY <1>2 DEF StatusWritten, IInv, TypeOK, Sessions, StoreMoves
<1>3. CASE Released
  BY <1>3, StoreEmptied DEF Released
<1>4. CASE Apply
  <2>1. PICK s \in Stored : sess' = [s EXCEPT !.uid = rev + 1, !.rv = rev + 1]
    BY <1>4 DEF Apply
  <2>2. rev' = rev + 1 /\ rev \in Nat
    BY <1>4 DEF Apply, IInv, TypeOK
  <2>3. s \in Sessions
    BY <2>1, StoredAreSessions
  <2>4. sess' \in Sessions /\ sess'.rv = rev + 1
    <3>1. sess' = [ uid |-> rev + 1, rv |-> rev + 1, fin |-> s.fin, deleting |-> s.deleting,
                    label |-> s.label, adoptedFrom |-> s.adoptedFrom, spec |-> s.spec ]
      BY <2>1, <2>3 DEF Sessions
    <3> QED BY <2>2, <2>3, <3>1 DEF Sessions
  <2> QED BY <2>2, <2>4 DEF StoreMoves
<1>5. CASE IndexChanges
  BY <1>5, StoreStands DEF IndexChanges
<1> QED BY <1>1, <1>2, <1>3, <1>4, <1>5

(* The state of the handler of request q stays as it is. *)
Still(q) ==
    /\ pc'[q] = pc[q] /\ copy'[q] = copy[q] /\ idx'[q] = idx[q]
    /\ tries'[q] = tries[q] /\ answer'[q] = answer[q]

LEMMA StillHolds ==
    ASSUME IInv, StoreMoves, NEW q \in Requests, ask' = ask, copy'[q] = copy[q]
    PROVE  /\ Past(copy[q])'
           /\ Unchanged(copy[q])'
           /\ Still(q) => Justified(q)' /\ Cleared(q)'
<1>1. Past(copy[q])' /\ Unchanged(copy[q])'
  BY CopiesStayCopies DEF IInv, TypeOK, StoreMoves, Past, Unchanged
<1>2. Still(q) => Justified(q)' /\ Cleared(q)'
  BY DEF IInv, Still, Justified, Cleared, Id
<1> QED BY <1>1, <1>2

-----------------------------------------------------------------------------
(* What is left for each step: the state of the handler that moved. *)
HandlerStaysTyped ==
    /\ pc' \in [Requests -> {"authorize", "get", "index", "create", "update", "delete", "done"}]
    /\ copy' \in [Requests -> {Nil} \cup Sessions]
    /\ \A q \in Requests : pc'[q] \in {"index", "update", "delete"} => copy'[q] # Nil
    /\ idx' \in [Requests -> SUBSET Ids]
    /\ tries' \in [Requests -> 0 .. Attempts - 1]
    /\ answer' \in [Requests -> {Nil} \cup Codes]
    /\ \A q \in Requests : pc'[q] = "done" <=> answer'[q] # Nil

LEMMA AnswerStep ==
    ASSUME IInv, NEW r \in Requests, NEW code \in Codes, Answer(r, code)
    PROVE  /\ HandlerStaysTyped
           /\ copy' = copy
           /\ pc'[r] = "done"
           /\ \A q \in Requests \ {r} : Still(q)
  BY NilAssumption DEF IInv, TypeOK, Answer, HandlerStaysTyped, Still

LEMMA HandlersStayTyped ==
    ASSUME NEW r \in Requests, IInv, Handle(r) \/ CallFails(r)
    PROVE  /\ HandlerStaysTyped
           /\ \A q \in Requests \ {r} : Still(q)
           /\ ask' = ask
           /\ copy'[r] = copy[r] \/ (copy'[r] = sess /\ sess' = sess)
           /\ budget' \in [BudgetKinds -> Nat]
           /\ known' = known
<1> DEFINE Good == /\ HandlerStaysTyped
                   /\ \A q \in Requests \ {r} : Still(q)
                   /\ copy'[r] = copy[r] \/ (copy'[r] = sess /\ sess' = sess)
<1>0. \A code \in Codes : Answer(r, code) => Good
  BY AnswerStep
<1>b. \A b \in BudgetKinds : Spend(b) => budget' \in [BudgetKinds -> Nat]
  BY DEF Spend, IInv, TypeOK
<1>c. UNCHANGED budget => budget' \in [BudgetKinds -> Nat]
  BY DEF IInv, TypeOK
<1>1. CASE Authorize(r)
  <2>1. CASE Answer(r, 403) \/ Answer(r, 400)
    BY <1>0, <1>1, <1>c, <2>1 DEF Codes, Authorize
  <2>2. CASE \E step \in {"create", "get"} : Goto(r, step) /\ UNCHANGED copy
    <3>1. PICK step \in {"create", "get"} :
            pc' = [pc EXCEPT ![r] = step] /\ UNCHANGED <<copy, idx, tries, answer>>
      BY <2>2 DEF Goto
    <3>2. pc[r] = "authorize" /\ UNCHANGED <<ask, known, budget>>
      BY <1>1 DEF Authorize
    <3>3. HandlerStaysTyped
      BY <3>1, <3>2 DEF IInv, TypeOK, HandlerStaysTyped
    <3>4. \A q \in Requests \ {r} : Still(q)
      BY <3>1 DEF IInv, TypeOK, Still
    <3> QED BY <3>1, <3>2, <3>3, <3>4, <1>c
  <2> QED BY <1>1, <1>c, <2>1, <2>2 DEF Authorize
<1>2. CASE Get(r)
  <2>1. CASE Answer(r, 500) \/ Answer(r, 404) \/ Answer(r, 200) \/ Answer(r, 400)
    BY <1>0, <1>2, <1>c, <2>1 DEF Codes, Get
  <2>2. CASE /\ sess # Nil
             /\ \E step \in {"index", "update", "delete"} : Goto(r, step)
             /\ copy' = [copy EXCEPT ![r] = sess]
    <3>1. PICK step \in {"index", "update", "delete"} :
            pc' = [pc EXCEPT ![r] = step] /\ UNCHANGED <<idx, tries, answer>>
      BY <2>2 DEF Goto
    <3>2. pc[r] = "get" /\ UNCHANGED <<ask, known, budget>>
      BY <1>2 DEF Get
    <3>3. HandlerStaysTyped
      BY <2>2, <3>1, <3>2 DEF IInv, TypeOK, HandlerStaysTyped
    <3>4. \A q \in Requests \ {r} : Still(q)
      BY <2>2, <3>1 DEF IInv, TypeOK, Still
    <3>5. copy'[r] = sess
      BY <2>2 DEF IInv, TypeOK
    <3>6. sess' = sess
      BY <1>2 DEF Get, store
    <3> QED BY <3>2, <3>3, <3>4, <3>5, <3>6, <1>c
  <2>3. AfterGet(r) \in {"index", "update", "delete"}
    BY DEF AfterGet
  <2> QED BY <1>2, <1>c, <2>1, <2>2, <2>3 DEF Get
<1>3. CASE Index(r)
  <2>1. PICK found \in {known, {}} :
          /\ IF found = known THEN UNCHANGED budget ELSE Spend("fault")
          /\ \/ Answer(r, 409) \/ Answer(r, 200)
             \/ /\ pc' = [pc EXCEPT ![r] = "update"]
                /\ idx' = [idx EXCEPT ![r] = found]
                /\ UNCHANGED <<copy, tries, answer>>
    BY <1>3 DEF Index
  <2>2. budget' \in [BudgetKinds -> Nat]
    BY <2>1, <1>b, <1>c DEF BudgetKinds
  <2>3. CASE Answer(r, 409) \/ Answer(r, 200)
    BY <1>0, <1>3, <2>2, <2>3 DEF Codes, Index
  <2>4. CASE /\ pc' = [pc EXCEPT ![r] = "update"]
             /\ idx' = [idx EXCEPT ![r] = found]
             /\ UNCHANGED <<copy, tries, answer>>
    <3>1. found \in SUBSET Ids
      BY <2>1 DEF IInv, TypeOK
    <3>2. Good
      BY <1>3, <2>4, <3>1 DEF Index, IInv, TypeOK, HandlerStaysTyped, Still
    <3> QED BY <1>3, <2>2, <3>2 DEF Index
  <2> QED BY <2>1, <2>3, <2>4
<1>4. CASE Create(r)
  BY <1>4, <1>0, <1>b, <1>c DEF Create, Codes, BudgetKinds
<1>5. CASE Update(r)
  <2>1. CASE Answer(r, 500) \/ Answer(r, 200)
    <3>1. UNCHANGED <<ask, known>> /\ budget' \in [BudgetKinds -> Nat]
      BY <1>5, <1>b, <1>c DEF Update, BudgetKinds
    <3> QED BY <1>0, <2>1, <3>1 DEF Codes
  <2>2. CASE /\ tries[r] + 1 < Attempts
             /\ tries' = [tries EXCEPT ![r] = @ + 1]
             /\ UNCHANGED <<pc, copy, idx, answer>>
    <3>1. HandlerStaysTyped
      BY <2>2, AttemptsAssumption DEF IInv, TypeOK, HandlerStaysTyped
    <3>2. \A q \in Requests \ {r} : Still(q)
      BY <2>2 DEF IInv, TypeOK, Still
    <3>3. UNCHANGED <<ask, known>>
      BY <1>5 DEF Update
    <3>4. budget' \in [BudgetKinds -> Nat]
      BY <1>5, <1>b, <1>c DEF Update, BudgetKinds
    <3> QED BY <2>2, <3>1, <3>2, <3>3, <3>4
  <2> QED BY <1>5, <2>1, <2>2 DEF Update
<1>6. CASE Delete(r)
  BY <1>6, <1>0, <1>b, <1>c DEF Delete, Codes, BudgetKinds
<1>7. CASE CallFails(r)
  BY <1>7, <1>0, <1>b DEF CallFails, Codes, BudgetKinds
<1> QED BY <1>1, <1>2, <1>3, <1>4, <1>5, <1>6, <1>7 DEF Handle

(* A request that goes on has been let through, for what it asks. *)
LEMMA RequestsAreJustified ==
    ASSUME NEW r \in Requests, IInv, Handle(r) \/ CallFails(r)
    PROVE  Justified(r)' /\ Cleared(r)'
<1>0. ask' = ask
  BY HandlersStayTyped
<1>t. /\ pc \in [Requests -> {"authorize", "get", "index", "create", "update", "delete", "done"}]
      /\ copy \in [Requests -> {Nil} \cup Sessions]
      /\ idx \in [Requests -> SUBSET Ids]
      /\ ask[r].op \in Ops
  BY AsksAssumption DEF IInv, TypeOK, Ask
<1>d. pc'[r] = "done" => Justified(r)' /\ Cleared(r)'
  BY DEF Justified, Cleared
<1>1. CASE Authorize(r)
  <2>1. CASE pc'[r] = "done"
    BY <1>d, <2>1
  <2>2. CASE pc'[r] # "done"
    <3>1. /\ Verb(ask[r]) \in ask[r].may /\ ~BadBody(ask[r])
          /\ pc'[r] = IF ask[r].op = "create" THEN "create" ELSE "get"
      BY <1>1, <1>t, <2>2 DEF Authorize, Answer, Goto
    <3> QED BY <1>0, <3>1 DEF Justified, Cleared
  <2> QED BY <2>1, <2>2
<1>2. CASE Get(r)
  <2>1. CASE pc'[r] = "done"
    BY <1>d, <2>1
  <2>2. CASE pc'[r] # "done"
    <3>1. /\ pc'[r] = AfterGet(r) /\ copy'[r] = sess /\ ask[r].op # "get"
          /\ ~Hidden(ask[r], sess.label)
      BY <1>2, <1>t, <2>2 DEF Get, Answer, Goto
    <3>2. /\ Verb(ask[r]) \in ask[r].may /\ ~BadBody(ask[r])
          /\ ask[r].op # "create"
      BY <1>2 DEF Get, IInv, Justified
    <3>3. Justified(r)'
      BY <1>0, <1>t, <3>1, <3>2 DEF Justified, AfterGet, Ops, Updates
    <3>4. Cleared(r)'
      BY <1>0, <3>1 DEF Cleared, AfterGet
    <3> QED BY <3>3, <3>4
  <2> QED BY <2>1, <2>2
<1>3. CASE Index(r)
  <2>1. CASE pc'[r] = "done"
    BY <1>d, <2>1
  <2>2. CASE pc'[r] # "done"
    <3>1. PICK found \in {known, {}} :
            /\ pc' = [pc EXCEPT ![r] = "update"]
            /\ idx' = [idx EXCEPT ![r] = found]
            /\ copy' = copy
            /\ ~ask[r].dryRun
            /\ \/ ask[r].force
               \/ copy[r].label = Id(r)
               \/ copy[r].label = Nil
               \/ copy[r].label \notin found
      BY <1>3, <1>t, <2>2 DEF Index, Answer
    <3>2. /\ Verb(ask[r]) \in ask[r].may /\ ~BadBody(ask[r])
          /\ ask[r].op = "adopt" /\ ~Hidden(ask[r], copy[r].label)
      BY <1>3 DEF Index, IInv, Justified
    <3>3. Justified(r)'
      BY <1>0, <1>t, <3>1, <3>2 DEF Justified, Updates
    <3>4. Cleared(r)'
      BY <1>0, <1>t, <3>1, <3>2 DEF Cleared, Id
    <3> QED BY <3>3, <3>4
  <2> QED BY <2>1, <2>2
<1>4. CASE Update(r)
  <2>1. CASE pc'[r] = "done"
    BY <1>d, <2>1
  <2>2. CASE pc'[r] # "done"
    <3>1. UNCHANGED <<pc, copy, idx>>
      <4>1. ~Answer(r, 500) /\ ~Answer(r, 200)
        BY <1>t, <2>2 DEF Answer
      <4> QED BY <1>4, <4>1 DEF Update
    <3> QED BY <1>0, <3>1 DEF IInv, Justified, Cleared, Id
  <2> QED BY <2>1, <2>2
<1>5. CASE Create(r) \/ Delete(r) \/ CallFails(r)
  BY <1>5, <1>t, <1>d DEF Create, Delete, CallFails, Answer
<1> QED BY <1>1, <1>2, <1>3, <1>4, <1>5 DEF Handle

LEMMA HandlersKeepIInv ==
    ASSUME NEW r \in Requests, IInv, Handle(r) \/ CallFails(r)
    PROVE  IInv'
<1>1. StoreMoves
  BY HandlersMoveStore
<1>2. /\ HandlerStaysTyped
      /\ \A q \in Requests \ {r} : Still(q)
      /\ ask' = ask
      /\ copy'[r] = copy[r] \/ (copy'[r] = sess /\ sess' = sess)
      /\ budget' \in [BudgetKinds -> Nat]
      /\ known' = known
  BY HandlersStayTyped
<1>3. TypeOK' /\ Past(sess)'
  BY <1>1, <1>2 DEF IInv, TypeOK, StoreMoves, HandlerStaysTyped, Past
<1>4. ASSUME NEW q \in Requests \ {r}
      PROVE  Past(copy[q])' /\ Unchanged(copy[q])' /\ Justified(q)' /\ Cleared(q)'
  BY <1>1, <1>2, StillHolds DEF Still
<1>5. Past(copy[r])' /\ Unchanged(copy[r])'
  <2>1. CASE copy'[r] = copy[r]
    BY <1>1, <1>2, <2>1, StillHolds
  <2>2. CASE copy'[r] = sess /\ sess' = sess
    BY <1>3, <2>2 DEF Past, Unchanged
  <2> QED BY <1>2, <2>1, <2>2
<1>6. Justified(r)' /\ Cleared(r)'
  BY RequestsAreJustified
<1> QED BY <1>3, <1>4, <1>5, <1>6 DEF IInv

LEMMA OthersKeepIInv ==
    ASSUME IInv, Guarded \/ StatusWritten \/ Released \/ Apply \/ IndexChanges
    PROVE  IInv'
<1>1. StoreMoves
  BY OthersMoveStore
<1>2. UNCHANGED <<ask, handler>>
  BY DEF Guarded, StatusWritten, Released, Apply, IndexChanges
<1>3. budget' \in [BudgetKinds -> Nat]
  <2>1. \A b \in BudgetKinds : Spend(b) => budget' \in [BudgetKinds -> Nat]
    BY DEF Spend, IInv, TypeOK
  <2>2. UNCHANGED budget => budget' \in [BudgetKinds -> Nat]
    BY DEF IInv, TypeOK
  <2> QED BY <2>1, <2>2 DEF BudgetKinds, Guarded, StatusWritten, Released, Apply, IndexChanges
<1>4. known' \subseteq Ids
  BY DEF IInv, TypeOK, Guarded, StatusWritten, Released, Apply, IndexChanges
<1>5. TypeOK' /\ Past(sess)'
  BY <1>1, <1>2, <1>3, <1>4 DEF IInv, TypeOK, StoreMoves, Past, handler
<1>6. \A q \in Requests :
        Past(copy[q])' /\ Unchanged(copy[q])' /\ Justified(q)' /\ Cleared(q)'
  BY <1>1, <1>2, StillHolds DEF Still, handler
<1> QED BY <1>5, <1>6 DEF IInv

LEMMA StutteringKeepsIInv ==
    ASSUME IInv, UNCHANGED vars
    PROVE  IInv'
  BY DEF IInv, TypeOK, Past, Unchanged, Justified, Cleared, Id, vars

LEMMA InitGivesIInv ==
    ASSUME Init
    PROVE  IInv
<1>1. TypeOK
  <2>1. ask \in [Requests -> Asks] /\ budget \in [BudgetKinds -> Nat]
    BY LoadsAssumption DEF Init, Load
  <2> QED BY <2>1, StoredAreSessions, AttemptsAssumption DEF Init, TypeOK
<1>2. Past(sess)
  <2>1. sess # Nil => sess.rv = 1
    BY DEF Init, Stored
  <2> QED BY <2>1 DEF Init, Past
<1> QED BY <1>1, <1>2 DEF Init, IInv, Past, Unchanged, Justified, Cleared

-----------------------------------------------------------------------------
(* The invariant holds of every reachable state: a handler's copy is what  *)
(* is stored unless the resourceVersions differ, and a handler that writes *)
(* has passed its checks on that copy.                                     *)
THEOREM ServerInvariance == Safety => []IInv
<1>1. Init => IInv
  BY InitGivesIInv
<1>2. IInv /\ [Next]_vars => IInv'
  BY HandlersKeepIInv, OthersKeepIInv, StutteringKeepsIInv DEF Next
<1> QED BY <1>1, <1>2, PTL DEF Safety

(* Every variable of the servers, the store and the requests has its type. *)
THEOREM ServerTypeCorrect == Safety => []TypeOK
<1>1. IInv => TypeOK
  BY DEF IInv
<1> QED BY <1>1, ServerInvariance, PTL

-----------------------------------------------------------------------------
(* What a step that writes an update must have been. *)
LEMMA WhoWrites ==
    ASSUME IInv, [Next]_vars, NEW r \in Requests, Writes(r)
    PROVE  /\ sess \in Sessions
           /\ ask[r].op \in Updates
           /\ copy[r] = sess
           /\ ~Hidden(ask[r], sess.label)
           /\ Cleared(r)
           /\ rev' = rev + 1
           /\ sess' = [Changed(ask[r], sess) EXCEPT !.rv = rev']
<1>1. pc[r] = "update" /\ pc'[r] = "done" /\ sess' # sess
  BY DEF Writes
<1>2. Update(r)
  <2>1. \A q \in Requests \ {r} : ~(Handle(q) \/ CallFails(q))
    BY <1>1, HandlersStayTyped DEF Still
  <2>2. ~(Guarded \/ StatusWritten \/ Released \/ Apply \/ IndexChanges)
    BY <1>1 DEF Guarded, StatusWritten, Released, Apply, IndexChanges, handler
  <2>3. ~CallFails(r) /\ ~UNCHANGED vars
    BY <1>1 DEF CallFails, store, vars
  <2>4. Handle(r)
    BY <2>1, <2>2, <2>3 DEF Next
  <2> QED BY <1>1, <2>4 DEF Handle, Authorize, Get, Index, Create, Delete
<1>3. /\ sess # Nil
      /\ ~Conflicts(r)
      /\ (Store(Changed(ask[r], copy[r])) \/ Renew(Changed(ask[r], copy[r])))
  BY <1>1, <1>2 DEF Update, Save, store
<1>4. copy[r] = sess /\ sess \in Sessions
  BY <1>1, <1>3 DEF IInv, TypeOK, Unchanged, Conflicts
<1>5. rev' = rev + 1 /\ sess' = [Changed(ask[r], sess) EXCEPT !.rv = rev']
  BY <1>1, <1>3, <1>4 DEF Store, Renew, store
<1>6. ask[r].op \in Updates /\ ~Hidden(ask[r], sess.label) /\ Cleared(r)
  BY <1>1, <1>4 DEF IInv, Justified
<1> QED BY <1>4, <1>5, <1>6

(* Optimistic locking makes the read, the checks and the write of an       *)
(* update one atomic step: nothing written in between is taken back.       *)
THEOREM UpdatesTakeBackNothing == Safety => UpdatesAreAtomic
<1>1. ASSUME IInv, [Next]_vars
      PROVE  \A r \in Requests : Writes(r) =>
               /\ sess # Nil
               /\ sess' = [Changed(ask[r], sess) EXCEPT !.rv = rev']
  BY <1>1, WhoWrites, NilAssumption
<1> QED BY <1>1, ServerInvariance, PTL DEF Safety, UpdatesAreAtomic

(* A server without cluster scope updates only what is its own at the      *)
(* moment of the write, and adopts only that or what is nobody's.          *)
THEOREM ScopeIsKept == Safety => ScopedServersKeepToTheirOwn
<1>1. ASSUME IInv, [Next]_vars
      PROVE  \A r \in Requests : Writes(r) /\ Scoped(r) =>
               sess.label = Id(r) \/ (ask[r].op = "adopt" /\ sess.label = Nil)
  BY <1>1, WhoWrites DEF Hidden, Scoped, Id
<1> QED BY <1>1, ServerInvariance, PTL DEF Safety, ScopedServersKeepToTheirOwn

(* What such a server deletes as it was when the handler looked is its own. *)
THEOREM ScopeIsKeptByDeletions == Safety => ScopedServersDeleteTheirOwn
<1>1. ASSUME IInv, [Next]_vars, NEW r \in Requests, pc[r] = "delete", Scoped(r),
             sess # Nil, sess.rv = copy[r].rv
      PROVE  sess.label = Id(r)
  <2>1. copy[r] = sess
    BY <1>1 DEF IInv, TypeOK, Unchanged
  <2>2. ask[r].op = "delete" /\ ~Hidden(ask[r], sess.label)
    BY <1>1, <2>1 DEF IInv, Justified
  <2> QED BY <1>1, <2>2 DEF Hidden, Scoped, Id
<1>2. ASSUME IInv, [Next]_vars
      PROVE  \A r \in Requests :
               (/\ pc[r] = "delete" /\ pc'[r] = "done" /\ Scoped(r)
                /\ sess # Nil /\ sess' # sess /\ sess.rv = copy[r].rv)
                  => sess.label = Id(r)
  BY <1>1, <1>2
<1> QED BY <1>2, ServerInvariance, PTL DEF Safety, ScopedServersDeleteTheirOwn

(* An adoption without force takes nothing from an installation that was   *)
(* in the index.                                                           *)
THEOREM AdoptionIsFair == Safety => AdoptionRespectsOwners
<1>1. ASSUME IInv, [Next]_vars
      PROVE  \A r \in Requests : Writes(r) /\ ask[r].op = "adopt" /\ ~ask[r].force =>
               sess.label \in {Nil, Id(r)} \/ sess.label \notin idx[r]
  BY <1>1, WhoWrites DEF Cleared, Writes
<1> QED BY <1>1, ServerInvariance, PTL DEF Safety, AdoptionRespectsOwners

(* The label of an incarnation is changed by adoptions only, and those     *)
(* leave a trace: no two concurrent adoptions hide a previous owner.       *)
THEOREM AdoptionsLeaveATrace == Safety => AdoptedFromTheLastOwner
<1>1. ASSUME IInv, [Next]_vars, sess # Nil, sess' # Nil, sess.uid = sess'.uid,
             sess.label \notin {Nil, sess'.label}
      PROVE  sess'.adoptedFrom = sess.label
  <2>1. sess \in Sessions /\ rev \in Nat
    BY <1>1 DEF IInv, TypeOK
  <2>2. ASSUME NEW r \in Requests, Handle(r) \/ CallFails(r)
        PROVE  sess'.adoptedFrom = sess.label
    <3>1. CASE Writes(r)
      <4>1. sess' = [Changed(ask[r], sess) EXCEPT !.rv = rev']
        BY <1>1, <3>1, WhoWrites
      <4>2. CASE ask[r].op = "adopt"
        BY <1>1, <2>1, <4>1, <4>2 DEF Changed, Sessions
      <4>3. CASE ask[r].op # "adopt"
        BY <1>1, <2>1, <4>1, <4>3 DEF Changed, Sessions
      <4> QED BY <4>2, <4>3
    <3>2. CASE ~Writes(r)
      <4>1. sess' = sess \/ Delete(r)
        <5>1. Create(r) => FALSE
          BY <1>1, <2>1 DEF Create, store
        <5>2. ASSUME Update(r), sess' # sess PROVE FALSE
          <6>1. sess' = sess \/ Answer(r, 200) \/ Answer(r, 500)
            BY <5>2 DEF Update, store
          <6>2. pc[r] = "update" /\ pc'[r] = "done"
            BY <1>1, <5>2, <6>1 DEF Update, Answer, IInv, TypeOK
          <6> QED BY <3>2, <5>2, <6>2 DEF Writes
        <5> QED BY <2>2, <5>1, <5>2 DEF Handle, Authorize, Get, Index, CallFails, store
      <4>2. Delete(r) => sess'.label = sess.label
        BY <1>1, <2>1 DEF Delete, Store, Renew, store, Sessions
      <4> QED BY <1>1, <4>1, <4>2
    <3> QED BY <3>1, <3>2
  <2>3. Guarded \/ StatusWritten \/ Released \/ Apply \/ IndexChanges \/ UNCHANGED vars
          => sess'.label = sess.label
    BY <1>1, <2>1
    DEF Guarded, StatusWritten, Released, Apply, IndexChanges, Store, Renew, store, Sessions, vars
  <2> QED BY <1>1, <2>2, <2>3 DEF Next
<1> QED BY <1>1, ServerInvariance, PTL DEF Safety, AdoptedFromTheLastOwner

-----------------------------------------------------------------------------
(* AtomicSessions speaks of requests in the same words. *)
LEMMA SameWords ==
    ASSUME NEW a, NEW s
    PROVE  /\ Atomic!Verb(a) = Verb(a)
           /\ Atomic!BadBody(a) = BadBody(a)
           /\ Atomic!Hidden(a, s) = Hidden(a, s)
           /\ Atomic!Invalid(s) = Invalid(s)
           /\ Atomic!Made(a) = Made(a)
           /\ Atomic!Changed(a, s) = Changed(a, s)
           /\ Atomic!Defaulted(s) = Defaulted(s)
           /\ Atomic!Updates = Updates
  BY DEF Atomic!Verb, Verb, Atomic!BadBody, BadBody, Atomic!Hidden, Hidden,
         Atomic!Invalid, Invalid, Atomic!Made, Made, Atomic!Changed, Changed,
         Atomic!ChangedSpec, ChangedSpec, Atomic!Replicas, Replicas, Atomic!Fits, Fits,
         Atomic!int32, int32, Atomic!MinInt32, MinInt32,
         Atomic!Defaulted, Defaulted, Atomic!Updates, Updates

LEMMA BareIsNotNil ==
    ASSUME NEW s \in Sessions
    PROVE  Bare(s) # Nil /\ s # Nil
<1>1. Bare(s) \in BareSessions
  BY DEF Bare, Sessions, BareSessions
<1> QED BY <1>1, NilAssumption

LEMMA StoredIsNotNil ==
    ASSUME NEW new \in Sessions, IInv, sess # Nil, Store(new) \/ Renew(new)
    PROVE  sess' \in Sessions
<1>1. sess \in Sessions /\ rev \in Nat /\ sess.rv \in 0 .. rev
  BY DEF IInv, TypeOK, Past
<1> QED BY <1>1, StoreStores

(* A request makes the same of a Session with and without resourceVersion. *)
LEMMA BareChanges ==
    ASSUME NEW a, NEW s \in Sessions
    PROVE  Bare(Changed(a, s)) = Changed(a, Bare(s))
<1>1. CASE a.op = "adopt"
  BY <1>1 DEF Changed, Bare, Sessions
<1>2. CASE a.op # "adopt"
  BY <1>2 DEF Changed, Bare, Sessions
<1> QED BY <1>1, <1>2

LEMMA BareStore ==
    ASSUME NEW new, sess \in Sessions, Store(new) \/ Renew(new),
           new = [ uid |-> new.uid, rv |-> new.rv, fin |-> new.fin, deleting |-> new.deleting,
                   label |-> new.label, adoptedFrom |-> new.adoptedFrom, spec |-> new.spec ]
    PROVE  sess' # Nil => bare' = Bare(new)
<1>1. CASE Store(new) /\ new = sess
  BY <1>1, NilAssumption DEF Store, store, bare, Bare
<1>2. CASE Renew(new)
  <2>1. sess' = [new EXCEPT !.rv = rev + 1]
    BY <1>2 DEF Renew
  <2>2. Bare(sess') = Bare(new)
    BY <2>1 DEF Bare
  <2> QED BY <2>2 DEF bare, Bare
<1> QED BY <1>1, <1>2 DEF Store

LEMMA AnswersMap ==
    ASSUME IInv, NEW r \in Requests, pc[r] # "done", NEW codes, NEW code \in codes,
           Answer(r, code), ask' = ask
    PROVE  Atomic!Answer(r, codes)
  BY DEF Answer, Atomic!Answer, IInv, TypeOK

LEMMA RefusalsMap ==
    ASSUME IInv, NEW r \in Requests, pc[r] # "done", ask' = ask, sess' = sess,
           NEW code \in {400, 403, 404, 409, 500}, Answer(r, code)
    PROVE  Atomic!Next
<1>1. Atomic!Answer(r, {400, 403, 404, 409, 500})
  BY AnswersMap
<1>2. bare' = bare
  BY DEF bare
<1> QED BY <1>1, <1>2 DEF Atomic!Next, Atomic!Refuse

LEMMA InitMaps ==
    ASSUME Init
    PROVE  Atomic!Init
<1>1. bare = Nil \/ ~bare.deleting
  <2>1. CASE sess # Nil
    <3>1. sess.deleting \in {FALSE}
      BY <2>1 DEF Init, Stored
    <3>2. ~sess.deleting
      BY <3>1, Zenon
    <3> QED BY <2>1, <3>2 DEF bare, Bare
  <2>2. CASE sess = Nil
    BY <2>2 DEF bare
  <2> QED BY <2>1, <2>2
<1>2. ask \in [Requests -> Asks]
  BY LoadsAssumption DEF Init, Load
<1> QED BY <1>1, <1>2 DEF Init, Atomic!Init

LEMMA HandlersMap ==
    ASSUME NEW r \in Requests, IInv, Handle(r) \/ CallFails(r)
    PROVE  [Atomic!Next]_(Atomic!avars)
<1>0. /\ ask' = ask
      /\ sess \in {Nil} \cup Sessions
      /\ copy[r] \in {Nil} \cup Sessions
      /\ Justified(r)
  BY HandlersStayTyped DEF IInv, TypeOK
<1>1. CASE Authorize(r)
  <2>1. pc[r] # "done" /\ sess' = sess
    BY <1>1 DEF Authorize, store
  <2>2. CASE Answer(r, 400) \/ Answer(r, 403)
    BY <1>0, <2>1, <2>2, RefusalsMap
  <2>3. CASE UNCHANGED answer
    BY <1>0, <2>1, <2>3 DEF Atomic!avars, bare
  <2> QED BY <1>1, <2>2, <2>3 DEF Authorize, Goto
<1>2. CASE Get(r)
  <2>1. pc[r] # "done" /\ sess' = sess /\ bare' = bare
    BY <1>2 DEF Get, store, bare
  <2>2. CASE Answer(r, 500) \/ Answer(r, 404) \/ Answer(r, 400)
    BY <1>0, <2>1, <2>2, RefusalsMap
  <2>3. CASE /\ sess # Nil /\ ~Hidden(ask[r], sess.label) /\ ask[r].op = "get"
             /\ Answer(r, 200)
    <3>1. Atomic!Answer(r, {200})
      BY <1>0, <2>1, <2>3, AnswersMap
    <3>2. Atomic!Accepted(r)
      BY <1>0, <1>2, SameWords DEF Get, Justified, Atomic!Accepted
    <3>3. bare # Nil /\ bare.label = sess.label
      BY <1>0, <2>3, BareIsNotNil DEF bare, Bare
    <3>4. Atomic!Show(r)
      BY <2>1, <2>3, <3>1, <3>2, <3>3, SameWords DEF Atomic!Show
    <3> QED BY <3>4 DEF Atomic!Next
  <2>4. CASE UNCHANGED answer
    BY <1>0, <2>1, <2>4 DEF Atomic!avars
  <2> QED BY <1>2, <2>2, <2>3, <2>4 DEF Get, Goto
<1>3. CASE Index(r)
  <2>1. pc[r] # "done" /\ sess' = sess /\ bare' = bare
    BY <1>3 DEF Index, store, bare
  <2>2. CASE Answer(r, 409)
    BY <1>0, <2>1, <2>2, RefusalsMap
  <2>3. CASE ask[r].dryRun /\ Answer(r, 200)
    <3>1. Atomic!Answer(r, {200})
      BY <1>0, <2>1, <2>3, AnswersMap
    <3>2. Atomic!Accepted(r) /\ ask[r].op = "adopt"
      BY <1>0, <1>3, SameWords DEF Index, Justified, Atomic!Accepted
    <3>3. Atomic!Show(r)
      BY <2>1, <2>3, <3>1, <3>2 DEF Atomic!Show
    <3> QED BY <3>3 DEF Atomic!Next
  <2>4. CASE UNCHANGED answer
    BY <1>0, <2>1, <2>4 DEF Atomic!avars
  <2> QED BY <1>3, <2>2, <2>3, <2>4 DEF Index
<1>4. CASE Create(r)
  <2>1. pc[r] # "done"
    BY <1>4 DEF Create
  <2>2. CASE sess # Nil
    BY <1>0, <1>4, <2>1, <2>2, RefusalsMap DEF Create, store
  <2>3. CASE sess = Nil
    <3>1. Atomic!Answer(r, {201, 500})
      BY <1>0, <1>4, <2>1, <2>3, AnswersMap DEF Create
    <3>2. Atomic!Accepted(r) /\ ask[r].op = "create"
      BY <1>0, <1>4, SameWords DEF Create, Justified, Atomic!Accepted
    <3>3. sess' = [ uid |-> rev + 1, rv |-> rev + 1,
                    fin |-> Made(ask[r]).fin, deleting |-> Made(ask[r]).deleting,
                    label |-> Made(ask[r]).label,
                    adoptedFrom |-> Made(ask[r]).adoptedFrom, spec |-> Made(ask[r]).spec ]
      BY <1>4, <2>3 DEF Create
    <3>4. sess' # Nil
      BY <1>4, <2>3, CreateCreates, NilAssumption
    <3>5. bare' = Bare(sess') /\ bare' # Nil /\ bare = Nil
      BY <1>4, <2>3, <3>4, CreateCreates, BareIsNotNil DEF bare
    <3>6. Atomic!Appears(Made(ask[r]))
      BY <3>3, <3>5 DEF Atomic!Appears, Bare
    <3> QED BY <3>1, <3>2, <3>6, SameWords DEF Atomic!Next, Atomic!Make
  <2> QED BY <2>2, <2>3
<1>5. CASE Update(r)
  <2>1. pc[r] # "done"
    BY <1>5 DEF Update
  <2>2. CASE UNCHANGED store /\ Answer(r, 500)
    BY <1>0, <2>1, <2>2, RefusalsMap DEF store
  <2>3. CASE UNCHANGED store /\ UNCHANGED answer
    BY <1>0, <2>3 DEF Atomic!avars, bare, store
  <2>4. CASE /\ sess # Nil /\ ~Invalid(Changed(ask[r], copy[r]).spec) /\ ~Conflicts(r)
             /\ (Store(Changed(ask[r], copy[r])) \/ Renew(Changed(ask[r], copy[r])))
             /\ Answer(r, 200) \/ Answer(r, 500)
    <3>1. Atomic!Answer(r, {200, 500})
      BY <1>0, <2>1, <2>4, AnswersMap
    <3>2. /\ Atomic!Accepted(r) /\ ask[r].op \in Updates
          /\ ask[r].op = "adopt" => ~ask[r].dryRun
          /\ ~BadBody(ask[r])
          /\ ~Hidden(ask[r], copy[r].label)
      BY <1>0, <1>5, SameWords DEF Update, Justified, Atomic!Accepted
    <3>3. copy[r] = sess /\ sess \in Sessions
      BY <1>0, <1>5, <2>4 DEF Update, IInv, TypeOK, Unchanged, Conflicts
    <3>4. Changed(ask[r], sess) \in Sessions
      BY <2>4, <3>2, <3>3, ChangedIsASession DEF IInv, TypeOK
    <3>5. bare' = Bare(Changed(ask[r], sess))
      <4>1. sess' # Nil
        BY <2>4, <3>3, <3>4, StoredIsNotNil, NilAssumption
      <4> QED BY <2>4, <3>3, <3>4, <4>1, BareStore DEF Sessions
    <3>6. bare = Bare(sess) /\ bare # Nil /\ bare.label = sess.label
      BY <2>4, <3>3, BareIsNotNil DEF bare, Bare
    <3>7. bare' = Changed(ask[r], bare)
      BY <3>3, <3>5, <3>6, BareChanges
    <3>8. ~Invalid(bare'.spec)
      BY <2>4, <3>3, <3>5 DEF Bare
    <3>9. Atomic!Change(r)
      BY <3>1, <3>2, <3>3, <3>6, <3>7, <3>8, SameWords DEF Atomic!Change
    <3> QED BY <3>9 DEF Atomic!Next
  <2> QED BY <1>5, <2>2, <2>3, <2>4 DEF Update, Save
<1>6. CASE Delete(r)
  <2>1. pc[r] # "done"
    BY <1>6 DEF Delete
  <2>2. CASE sess = Nil
    BY <1>0, <1>6, <2>1, <2>2, RefusalsMap DEF Delete, store
  <2>3. CASE sess # Nil
    <3>1. Atomic!Answer(r, {200, 500})
      BY <1>0, <1>6, <2>1, <2>3, AnswersMap DEF Delete
    <3>2. Atomic!Accepted(r) /\ ask[r].op = "delete"
      BY <1>0, <1>6, SameWords DEF Delete, Justified, Atomic!Accepted
    <3>3. sess \in Sessions /\ bare = Bare(sess) /\ bare # Nil
      BY <1>0, <2>3, BareIsNotNil DEF bare, Bare
    <3>4. bare' = IF bare.fin THEN [bare EXCEPT !.deleting = TRUE] ELSE Nil
      <4>1. CASE ~sess.fin
        BY <1>6, <2>3, <3>3, <4>1 DEF Delete, bare, Bare
      <4>2. CASE sess.fin
        <5>1. [sess EXCEPT !.deleting = TRUE] \in Sessions
          BY <3>3 DEF Sessions
        <5>2. Store([sess EXCEPT !.deleting = TRUE])
          BY <1>6, <2>3, <4>2 DEF Delete
        <5>3. sess' # Nil
          BY <2>3, <3>3, <5>1, <5>2, StoredIsNotNil, NilAssumption
        <5>4. bare' = Bare([sess EXCEPT !.deleting = TRUE])
          BY <3>3, <5>1, <5>2, <5>3, BareStore DEF Sessions
        <5> QED BY <3>3, <4>2, <5>4 DEF Bare, Sessions
      <4> QED BY <4>1, <4>2
    <3> QED BY <3>1, <3>2, <3>3, <3>4 DEF Atomic!Next, Atomic!Remove
  <2> QED BY <2>2, <2>3
<1>7. CASE CallFails(r)
  BY <1>0, <1>7, RefusalsMap DEF CallFails, store
<1> QED BY <1>1, <1>2, <1>3, <1>4, <1>5, <1>6, <1>7 DEF Handle

LEMMA OthersMap ==
    ASSUME IInv, Guarded \/ StatusWritten \/ Released \/ Apply \/ IndexChanges
    PROVE  [Atomic!Next]_(Atomic!avars)
<1>0. UNCHANGED <<ask, answer>> /\ sess \in {Nil} \cup Sessions
  BY DEF IInv, TypeOK, Guarded, StatusWritten, Released, Apply, IndexChanges, handler
<1>1. CASE Guarded
  <2>1. sess \in Sessions /\ bare = Bare(sess) /\ bare # Nil /\ ~sess.deleting
    BY <1>0, <1>1, BareIsNotNil DEF Guarded, bare
  <2>2. Defaulted(sess.spec) \in SessionSpecs
    BY <2>1 DEF Defaulted, Sessions, SessionSpecs
  <2>3. [sess EXCEPT !.fin = TRUE, !.spec = Defaulted(@)] \in Sessions
    BY <2>1, <2>2 DEF Sessions
  <2>4. sess' # Nil
    BY <1>1, <2>3, StoredIsNotNil, NilAssumption DEF Guarded
  <2>5. PICK new \in Sessions : new = [sess EXCEPT !.fin = TRUE, !.spec = Defaulted(@)]
    BY <2>3
  <2>6. bare' = [ uid |-> sess.uid, fin |-> TRUE, deleting |-> sess.deleting,
                  label |-> sess.label, adoptedFrom |-> sess.adoptedFrom,
                  spec |-> Defaulted(sess.spec) ]
    <3>1. new = [ uid |-> new.uid, rv |-> new.rv, fin |-> new.fin, deleting |-> new.deleting,
                  label |-> new.label, adoptedFrom |-> new.adoptedFrom, spec |-> new.spec ]
      BY <2>5 DEF Sessions
    <3>2. bare' = Bare(new)
      BY <1>1, <2>1, <2>4, <2>5, <3>1, BareStore DEF Guarded
    <3>3. /\ new.uid = sess.uid /\ new.fin = TRUE /\ new.deleting = sess.deleting
          /\ new.label = sess.label /\ new.adoptedFrom = sess.adoptedFrom
          /\ new.spec = Defaulted(sess.spec)
      BY <2>1, <2>5 DEF Sessions
    <3> QED BY <3>2, <3>3, Zenon DEF Bare
  <2>7. /\ bare.uid = sess.uid /\ bare.deleting = sess.deleting /\ bare.label = sess.label
        /\ bare.adoptedFrom = sess.adoptedFrom /\ bare.spec = sess.spec
    BY <2>1 DEF Bare
  <2>8. Atomic!Defaulted(sess.spec) = Defaulted(sess.spec)
    BY SameWords
  <2>9. Atomic!Others
    BY <1>0, <2>1, <2>6, <2>7, <2>8, Zenon DEF Atomic!Others
  <2> QED BY <2>9 DEF Atomic!Next
<1>2. CASE StatusWritten
  <2>1. sess \in Sessions /\ sess' = [sess EXCEPT !.rv = rev + 1] /\ rev \in Nat
    BY <1>0, <1>2 DEF StatusWritten, IInv, TypeOK
  <2>2. sess' \in Sessions
    BY <2>1 DEF Sessions
  <2>3. Bare(sess') = Bare(sess)
    BY <2>1 DEF Bare, Sessions
  <2>4. bare' = bare
    BY <2>1, <2>2, <2>3, NilAssumption DEF bare
  <2> QED BY <1>0, <2>4 DEF Atomic!avars
<1>3. CASE Released
  BY <1>0, <1>3, BareIsNotNil DEF Released, bare, Bare, Atomic!Next, Atomic!Others
<1>4. CASE Apply
  <2>1. PICK s \in Stored : sess' = [s EXCEPT !.uid = rev + 1, !.rv = rev + 1]
                            /\ s.label = Nil /\ ~s.fin
    BY <1>4 DEF Apply
  <2>2. s \in Sessions /\ s.deleting \in {FALSE} /\ rev \in Nat
    BY <2>1, StoredAreSessions DEF Stored, IInv, TypeOK
  <2>3. ~s.deleting
    BY <2>2, Zenon
  <2>4. sess' = [ uid |-> rev + 1, rv |-> rev + 1, fin |-> s.fin, deleting |-> s.deleting,
                  label |-> s.label, adoptedFrom |-> s.adoptedFrom, spec |-> s.spec ]
    BY <2>1, <2>2 DEF Sessions
  <2>5. sess' \in Sessions
    BY <2>2, <2>4 DEF Sessions
  <2>6. bare = Nil /\ bare' # Nil /\ bare' = Bare(sess')
    BY <1>4, <2>5, BareIsNotNil DEF Apply, bare
  <2>7. /\ Atomic!Appears(bare')
        /\ bare'.label = Nil /\ ~bare'.fin /\ ~bare'.deleting
    BY <2>1, <2>3, <2>4, <2>6 DEF Atomic!Appears, Bare
  <2> QED BY <1>0, <2>7 DEF Atomic!Next, Atomic!Others
<1>5. CASE IndexChanges
  BY <1>0, <1>5 DEF IndexChanges, store, bare, Atomic!avars
<1> QED BY <1>1, <1>2, <1>3, <1>4, <1>5

(* The handlers implement AtomicSessions: with all their reads, checks,    *)
(* conflicts, retries and lost replies, a request takes effect at most     *)
(* once, as a whole, and on the Session it is answered for.                *)
THEOREM ServerImplementsAtomicSessions == Safety => ImplementsAtomicSessions
<1>1. Init => Atomic!Init
  BY InitMaps
<1>2. IInv /\ [Next]_vars => [Atomic!Next]_(Atomic!avars)
  <2>1. UNCHANGED vars => UNCHANGED Atomic!avars
    BY DEF vars, Atomic!avars, bare
  <2> QED BY <2>1, HandlersMap, OthersMap DEF Next
<1> QED BY <1>1, <1>2, ServerInvariance, PTL DEF Safety, ImplementsAtomicSessions, Atomic!Safety
=============================================================================

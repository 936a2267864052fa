------------------------- MODULE SessionsViewInvariant -------------------------
(***************************************************************************)
(* Why a list that is not overtaken may replace the rows of SessionsView:  *)
(* the inductive invariant behind SyncIsKept and ListSyncs.  The queue of  *)
(* the stream ends, for every Session it tells of, with what the server    *)
(* stores; and what a list under way has missed is still in the queue.     *)
(***************************************************************************)
EXTENDS SessionsView

(* What the server stores of a Session, and what a table tells of it. *)
Has == [k \in Keys |-> IF world[k] = Nil THEN {} ELSE {RowOf(k)}]
Told(table, k) == {r \in ToSet(table) : r.key = k}

Shown == {k \in Keys : Shows(effectiveNs, k)}
OneRowEach(table) == \A i, j \in DOMAIN table : table[i].key = table[j].key => i = j

(* What an event leaves of its Session, and that this is what is stored. *)
Leaves(e) == IF e.type = "DELETED" THEN {} ELSE {e.row}
TellsTruth(e) == Has[e.row.key] = Leaves(e)
IsLast(i) ==
    \A j \in DOMAIN stream.queue : j > i => stream.queue[j].row.key # stream.queue[i].row.key

QueueEndsTrue ==
    stream.state = "open" =>
        \A i \in DOMAIN stream.queue :
            /\ stream.queue[i].row.key \in Shown
            /\ IsLast(i) => TellsTruth(stream.queue[i])

(* The lists that were read and will set the rows. *)
IsRead(l) == l # Nil /\ l.reply # Nil /\ l.reply.ok
Answers == {l \in {initial} \cup {refresh[c] : c \in Chains} : IsRead(l)}

ListIsSound(l) ==
    /\ OneRowEach(l.reply.rows)
    /\ \A r \in ToSet(l.reply.rows) : Shows(l.view, r.key)
    /\ l.reply.rev <= rev
    /\ l.reply.rev = rev =>
           \A k \in Keys : Shows(l.view, k) => Told(l.reply.rows, k) = Has[k]

(* No event of k in the queue is newer than the list. *)
NoneNewer(l, k) ==
    \A i \in DOMAIN stream.queue :
        stream.queue[i].row.key = k => stream.queue[i].row.rev <= l.reply.rev
MissedIsOnItsWay(l) ==
    stream.state = "open" /\ ~ Overtaken(l) =>
        \A k \in Shown : NoneNewer(l, k) => Told(l.reply.rows, k) = Has[k]

ViewInv ==
    /\ TypeOK
    /\ QueueEndsTrue
    /\ \A l \in Answers : ListIsSound(l) /\ MissedIsOnItsWay(l)
=============================================================================

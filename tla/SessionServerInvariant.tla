------------------------ MODULE SessionServerInvariant ------------------------
(* The invariant of SessionServer from which its theorems follow.          *)
EXTENDS SessionServer

(* No resourceVersion is from the future. *)
Past(s) == s # Nil => s.rv \in 0 .. rev

(* What a handler read is what is stored, unless the resourceVersion says  *)
(* otherwise: optimistic locking misses no change.                         *)
Unchanged(c) == c # Nil /\ sess # Nil /\ c.rv = sess.rv => c = sess

(* How far a request got tells what it is and that it was let through. *)
Justified(r) ==
    /\ pc[r] \in {"get", "index", "create", "update", "delete"} =>
         Verb(ask[r]) \in ask[r].may /\ ~BadBody(ask[r])
    /\ pc[r] = "get"    => ask[r].op # "create"
    /\ pc[r] = "create" => ask[r].op = "create"
    /\ pc[r] = "index"  => ask[r].op = "adopt"
    /\ pc[r] = "delete" => ask[r].op = "delete"
    /\ pc[r] = "update" => ask[r].op \in Updates /\ (ask[r].op = "adopt" => ~ask[r].dryRun)
    /\ pc[r] \in {"index", "update", "delete"} => ~Hidden(ask[r], copy[r].label)

(* An adoption that is about to write was of nobody's Session, or forced. *)
Cleared(r) ==
    pc[r] = "update" /\ ask[r].op = "adopt" =>
        \/ ask[r].force
        \/ copy[r].label \in {Nil, Id(r)}
        \/ copy[r].label \notin idx[r]

IInv ==
    /\ TypeOK
    /\ Past(sess)
    /\ \A r \in Requests :
         /\ Past(copy[r])
         /\ Unchanged(copy[r])
         /\ Justified(r)
         /\ Cleared(r)
=============================================================================

---------------------------- MODULE InstallationID ----------------------------
(***************************************************************************)
(* How the replicas of one installation of the API server come by their    *)
(* installation id (ensureInstallationID, internal/server/instance_id.go): *)
(* a ConfigMap, named after what deploys them, holds it; whoever finds no  *)
(* ConfigMap makes one with an id derived from the cluster's uid.  A       *)
(* replica runs until it dies with the id it found or derived, and labels  *)
(* Sessions with it (module SessionServer, IdOf).                          *)
(*                                                                         *)
(* The lookup of the cluster's uid is external.  It returns a string and   *)
(* no error, so that a lookup that failed shows only as another id.        *)
(***************************************************************************)
EXTENDS Naturals

CONSTANTS
    Nil,
    Replicas,
    Situations,     \* the ConfigMap there is at first, and what may go wrong
    Restarts        \* how often replicas may die, all in all (a bound)

Ids == {"derived", "blind", "legacy"}      \* "blind": derived without the uid

(* A ConfigMap may lack the key "id". *)
ConfigMaps == [id : {Nil} \cup Ids]

ASSUME SituationsAssumption ==
    Situations \subseteq [ cm : {Nil} \cup ConfigMaps, deletions : Nat,
                           faults : Nat, blindness : Nat ]
ASSUME RestartsAssumption == Restarts \in Nat
ASSUME NilAssumption == Nil \notin Ids \cup ConfigMaps

VARIABLES
    cm,             \* the ConfigMap, or Nil
    pc,             \* pc[p]: how far replica p has come
    derived,        \* derived[p]: the id it has computed
    id,             \* id[p]: the id it runs with; Nil if it got an error
    left,           \* what may still go wrong
    restarts

vars == <<cm, pc, derived, id, left, restarts>>

Init ==
    /\ left \in Situations
    /\ cm = left.cm
    /\ pc = [p \in Replicas |-> "down"]
    /\ derived = [p \in Replicas |-> Nil]
    /\ id = [p \in Replicas |-> Nil]
    /\ restarts = Restarts

Spend(what) ==
    /\ left[what] > 0
    /\ left' = [left EXCEPT ![what] = @ - 1]

(* Mutant: the anchor is the Pod, and so another one for each replica. *)
DeriveFromPod(p) ==
    /\ pc[p] = "down"
    /\ \E i \in Ids : derived' = [derived EXCEPT ![p] = i]
    /\ pc' = [pc EXCEPT ![p] = "get"]
    /\ UNCHANGED <<cm, id, left, restarts>>

(* clusterUID, anchor and id. *)
Derive(p) ==
    /\ pc[p] = "down"
    /\ \/ derived' = [derived EXCEPT ![p] = "derived"] /\ UNCHANGED left
       \/ derived' = [derived EXCEPT ![p] = "blind"] /\ Spend("blindness")
    /\ pc' = [pc EXCEPT ![p] = "get"]
    /\ UNCHANGED <<cm, id, restarts>>

ComesUp(p, with) ==
    /\ pc' = [pc EXCEPT ![p] = "up"]
    /\ id' = [id EXCEPT ![p] = with]

Found == cm # Nil /\ cm.id # Nil

(* Mutant: the ConfigMap that is found is not read. *)
GetInVain(p) ==
    /\ pc[p] = "get"
    /\ IF Found
       THEN ComesUp(p, derived[p])
       ELSE pc' = [pc EXCEPT ![p] = "create"] /\ UNCHANGED id
    /\ UNCHANGED <<cm, derived, left, restarts>>

GetConfigMap(p) ==
    /\ pc[p] = "get"
    /\ IF Found
       THEN ComesUp(p, cm.id)
       ELSE pc' = [pc EXCEPT ![p] = "create"] /\ UNCHANGED id
    /\ UNCHANGED <<cm, derived, left, restarts>>

(* client.Create; that there is one already is no error. *)
CreateConfigMap(p) ==
    /\ pc[p] = "create"
    /\ cm' = IF cm = Nil THEN [id |-> derived[p]] ELSE cm
    /\ ComesUp(p, derived[p])
    /\ UNCHANGED <<derived, left, restarts>>

(* The server goes on without an id (server.go).  The ConfigMap may have   *)
(* been made, and the reply lost.                                          *)
CallFails(p) ==
    /\ pc[p] \in {"get", "create"}
    /\ Spend("faults")
    /\ ComesUp(p, Nil)
    /\ \/ UNCHANGED cm
       \/ pc[p] = "create" /\ cm = Nil /\ cm' = [id |-> derived[p]]
    /\ UNCHANGED <<derived, restarts>>

(* Mutant: the id outlives the process. *)
DiesWithId(p) ==
    /\ pc[p] # "down"
    /\ restarts > 0
    /\ restarts' = restarts - 1
    /\ pc' = [pc EXCEPT ![p] = "down"]
    /\ UNCHANGED <<cm, derived, id, left>>

Dies(p) ==
    /\ pc[p] # "down"
    /\ restarts > 0
    /\ restarts' = restarts - 1
    /\ pc' = [pc EXCEPT ![p] = "down"]
    /\ id' = [id EXCEPT ![p] = Nil]
    /\ derived' = [derived EXCEPT ![p] = Nil]
    /\ UNCHANGED <<cm, left>>

(* An administrator deletes the ConfigMap. *)
ConfigMapLost ==
    /\ cm # Nil
    /\ Spend("deletions")
    /\ cm' = Nil
    /\ UNCHANGED <<pc, derived, id, restarts>>

Next ==
    \/ \E p \in Replicas :
         Derive(p) \/ GetConfigMap(p) \/ CreateConfigMap(p) \/ CallFails(p) \/ Dies(p)
    \/ ConfigMapLost

Safety == Init /\ [][Next]_vars

-----------------------------------------------------------------------------
TypeOK ==
    /\ cm \in {Nil} \cup ConfigMaps
    /\ pc \in [Replicas -> {"down", "get", "create", "up"}]
    /\ derived \in [Replicas -> {Nil} \cup Ids]
    /\ id \in [Replicas -> {Nil} \cup Ids]
    /\ \A p \in Replicas : (pc[p] = "down" <=> derived[p] = Nil) /\ (id[p] # Nil => pc[p] = "up")
    /\ left \in [cm : {Nil} \cup ConfigMaps, deletions : Nat, faults : Nat, blindness : Nat]
    /\ restarts \in Nat

(* Two replicas that have an id have the same one: they show their users   *)
(* the same Sessions, however their starts, restarts and the loss of the   *)
(* ConfigMap interleave.                                                   *)
OneInstallation ==
    \A p, q \in Replicas : id[p] # Nil /\ id[q] # Nil => id[p] = id[q]

(* Whoever starts late neither replaces an id that is stored, nor fills    *)
(* the ConfigMap with another one than the replicas that are up have.      *)
StoredIdStands ==
    [][cm' # cm /\ cm' # Nil =>
         /\ ~Found
         /\ \A p \in Replicas : id'[p] # Nil => id'[p] = cm'.id]_vars
=============================================================================

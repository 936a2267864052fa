------------------------- MODULE InstallationIDProofs --------------------------
(***************************************************************************)
(* Theorems about InstallationID, for any number of replicas and restarts, *)
(* and any number of faults and lost ConfigMaps.                           *)
(***************************************************************************)
EXTENDS InstallationID, TLAPS

(* What the argument needs of a situation: either nobody ever fails to     *)
(* read the cluster's uid, and what is stored was derived, or a legacy id  *)
(* is stored, which nobody deletes.                                        *)
Derivable(s) == s.blindness = 0 /\ s.cm \in {Nil, [id |-> Nil], [id |-> "derived"]}
Kept(s)      == s.deletions = 0 /\ s.cm = [id |-> "legacy"]
SaneSituations == \A s \in Situations : Derivable(s) \/ Kept(s)

(* The two cases, each carried through the life of the installation.       *)
AllDerived ==
    /\ left.blindness = 0
    /\ cm \in {Nil, [id |-> Nil], [id |-> "derived"]}
    /\ \A p \in Replicas : derived[p] \in {Nil, "derived"} /\ id[p] \in {Nil, "derived"}
AllLegacy ==
    /\ left.deletions = 0
    /\ cm = [id |-> "legacy"]
    /\ \A p \in Replicas : pc[p] # "create" /\ id[p] \in {Nil, "legacy"}

IdInv == TypeOK /\ (AllDerived \/ AllLegacy)

-----------------------------------------------------------------------------
LEMMA InitTyped == Init => TypeOK
  BY SituationsAssumption, RestartsAssumption, NilAssumption DEF Init, TypeOK, ConfigMaps

(* Each step keeps the types; the replicas that do not move keep theirs.   *)
LEMMA NextTyped == TypeOK /\ [Next]_vars => TypeOK'
<1> SUFFICES ASSUME TypeOK, [Next]_vars PROVE TypeOK'
  OBVIOUS
<1> USE NilAssumption DEF TypeOK, ConfigMaps
<1>1. ASSUME NEW p \in Replicas, Derive(p) PROVE TypeOK'
  BY <1>1 DEF Derive, Spend, Ids
<1>2. ASSUME NEW p \in Replicas, GetConfigMap(p) PROVE TypeOK'
  BY <1>2 DEF GetConfigMap, ComesUp, Found
<1>3. ASSUME NEW p \in Replicas, CreateConfigMap(p) PROVE TypeOK'
  BY <1>3 DEF CreateConfigMap, ComesUp
<1>4. ASSUME NEW p \in Replicas, CallFails(p) PROVE TypeOK'
  BY <1>4 DEF CallFails, ComesUp, Spend
<1>5. ASSUME NEW p \in Replicas, Dies(p) PROVE TypeOK'
  BY <1>5 DEF Dies
<1>6. CASE ConfigMapLost
  BY <1>6 DEF ConfigMapLost, Spend
<1>7. CASE UNCHANGED vars
  BY <1>7 DEF vars
<1> QED BY <1>1, <1>2, <1>3, <1>4, <1>5, <1>6, <1>7 DEF Next

LEMMA InitSane == SaneSituations /\ Init => AllDerived \/ AllLegacy
  BY NilAssumption DEF Init, SaneSituations, Derivable, Kept, AllDerived, AllLegacy

(* As long as only the derived id is about, nothing else comes of it.      *)
LEMMA DerivedStays == TypeOK /\ AllDerived /\ [Next]_vars => AllDerived'
<1> SUFFICES ASSUME TypeOK, AllDerived, [Next]_vars PROVE AllDerived'
  OBVIOUS
<1> USE NilAssumption DEF TypeOK, AllDerived, ConfigMaps, Ids
<1>1. ASSUME NEW p \in Replicas, Derive(p) PROVE AllDerived'
  BY <1>1 DEF Derive, Spend
<1>2. ASSUME NEW p \in Replicas, GetConfigMap(p) PROVE AllDerived'
  BY <1>2 DEF GetConfigMap, ComesUp, Found
<1>3. ASSUME NEW p \in Replicas, CreateConfigMap(p) PROVE AllDerived'
  BY <1>3 DEF CreateConfigMap, ComesUp
<1>4. ASSUME NEW p \in Replicas, CallFails(p) PROVE AllDerived'
  BY <1>4 DEF CallFails, ComesUp, Spend
<1>5. ASSUME NEW p \in Replicas, Dies(p) PROVE AllDerived'
  BY <1>5 DEF Dies
<1>6. CASE ConfigMapLost
  BY <1>6 DEF ConfigMapLost, Spend
<1>7. CASE UNCHANGED vars
  BY <1>7 DEF vars
<1> QED BY <1>1, <1>2, <1>3, <1>4, <1>5, <1>6, <1>7 DEF Next

(* A legacy id that is never deleted is found by everybody.                *)
LEMMA LegacyStays == TypeOK /\ AllLegacy /\ [Next]_vars => AllLegacy'
<1> SUFFICES ASSUME TypeOK, AllLegacy, [Next]_vars PROVE AllLegacy'
  OBVIOUS
<1> USE NilAssumption DEF TypeOK, AllLegacy, ConfigMaps, Ids
<1>1. ASSUME NEW p \in Replicas, Derive(p) PROVE AllLegacy'
  BY <1>1 DEF Derive, Spend
<1>2. ASSUME NEW p \in Replicas, GetConfigMap(p) PROVE AllLegacy'
  BY <1>2 DEF GetConfigMap, ComesUp, Found
<1>3. ASSUME NEW p \in Replicas, CreateConfigMap(p) PROVE AllLegacy'
  BY <1>3 DEF CreateConfigMap, ComesUp
<1>4. ASSUME NEW p \in Replicas, CallFails(p) PROVE AllLegacy'
  BY <1>4 DEF CallFails, ComesUp, Spend
<1>5. ASSUME NEW p \in Replicas, Dies(p) PROVE AllLegacy'
  BY <1>5 DEF Dies
<1>6. CASE ConfigMapLost
  BY <1>6 DEF ConfigMapLost, Spend
<1>7. CASE UNCHANGED vars
  BY <1>7 DEF vars
<1> QED BY <1>1, <1>2, <1>3, <1>4, <1>5, <1>6, <1>7 DEF Next

-----------------------------------------------------------------------------
(* Every variable has its type, whatever happens: in particular a replica  *)
(* that runs with an id has come up, and one that died has none.           *)
THEOREM IdTypeCorrect == Safety => []TypeOK
  BY InitTyped, NextTyped, PTL DEF Safety

(* The inductive invariant: whatever replicas derive, store and find is    *)
(* one and the same id, the derived one or the legacy one.                 *)
THEOREM IdInvariance == ASSUME SaneSituations PROVE Safety => []IdInv
<1>1. Init => IdInv
  BY InitTyped, InitSane DEF IdInv
<1>2. IdInv /\ [Next]_vars => IdInv'
  BY NextTyped, DerivedStays, LegacyStays DEF IdInv
<1> QED BY <1>1, <1>2, PTL DEF Safety

(* Replicas that have an id have the same one (instance_id.go:16-62): the  *)
(* derivation is a function of the cluster, and a stored id is found.      *)
THEOREM ReplicasAgree == ASSUME SaneSituations PROVE Safety => []OneInstallation
<1>1. IdInv => OneInstallation
  BY DEF IdInv, AllDerived, AllLegacy, OneInstallation
<1> QED BY <1>1, IdInvariance, PTL

(* No late starter replaces a stored id, or stores another one than those  *)
(* that are up run with (instance_id.go:44-62).                            *)
THEOREM StoredIdIsKept == ASSUME SaneSituations PROVE Safety => StoredIdStands
<1> DEFINE Stands == cm' # cm /\ cm' # Nil =>
                        /\ ~Found
                        /\ \A p \in Replicas : id'[p] # Nil => id'[p] = cm'.id
<1>1. ASSUME IdInv, Next, cm' # cm, cm' # Nil PROVE Stands
  <2> USE <1>1, NilAssumption DEF IdInv, TypeOK, ConfigMaps, Ids
  <2>1. PICK p \in Replicas : CreateConfigMap(p) \/ CallFails(p)
    BY DEF Next, Derive, GetConfigMap, Dies, ConfigMapLost
  <2>2. pc[p] = "create" /\ cm = Nil /\ cm' = [id |-> derived[p]]
    BY <2>1 DEF CreateConfigMap, CallFails
  <2>3. AllDerived /\ AllDerived'
    <3>1. AllDerived
      BY <2>2 DEF AllLegacy
    <3> QED BY <3>1, DerivedStays
  <2>4. derived[p] = "derived"
    BY <2>2, <2>3 DEF AllDerived
  <2> QED BY <2>2, <2>3, <2>4 DEF Found, AllDerived
<1>2. IdInv /\ [Next]_vars => [Stands]_vars
  BY <1>1 DEF vars
<1> QED BY <1>2, IdInvariance, PTL DEF Safety, StoredIdStands
=============================================================================

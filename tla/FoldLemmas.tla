------------------------------ MODULE FoldLemmas -------------------------------
(***************************************************************************)
(* Induction over natural numbers as a fact about sets, and what it gives  *)
(* for folds: recursive functions over 0 .. L whose value at n is made of  *)
(* the one at n - 1.  Library theorems that take a predicate as parameter  *)
(* cannot be used here; these take the set where it holds.                 *)
(***************************************************************************)
EXTENDS Integers, WellFoundedInduction, TLAPS

(* A set of natural numbers has a least element. *)
LEMMA Least ==
    ASSUME NEW T, T \subseteq Nat, T # {}
    PROVE  \E m \in T : \A n \in T : m <= n
<1> DEFINE below == {p \in Nat \X Nat : p[1] < p[2]}
<1>1. IsWellFoundedOn(below, Nat)
  BY NatLessThanWellFounded, Zenon DEF OpToRel
<1>2. \E x \in T : \A y \in T : <<y, x>> \notin below
  <2> HIDE DEF below
  <2> QED BY <1>1, WFMin
<1>3. \A x, y \in Nat : <<y, x>> \in below <=> y < x
  OBVIOUS
<1> HIDE DEF below
<1>4. PICK x \in T : \A y \in T : <<y, x>> \notin below
  BY <1>2
<1>5. \A y \in T : ~ y < x
  BY <1>3, <1>4
<1> QED
  BY <1>5

(* Mathematical induction up to a bound: the set where a statement holds   *)
(* contains 0 and, with n - 1, also n.                                     *)
LEMMA UpTo ==
    ASSUME NEW L \in Nat, NEW T, 0 \in T,
           \A n \in 1 .. L : n - 1 \in T => n \in T
    PROVE  0 .. L \subseteq T
<1> DEFINE rest == {n \in 0 .. L : n \notin T}
<1>1. SUFFICES ASSUME rest # {} PROVE FALSE
  OBVIOUS
<1>2. PICK m \in rest : \A n \in rest : m <= n
  <2>1. rest \subseteq Nat
    OBVIOUS
  <2> HIDE DEF rest
  <2> QED BY <1>1, <2>1, Least
<1>3. m \in 1 .. L
  BY <1>2
<1>4. m - 1 \in T
  BY <1>2, <1>3
<1> QED
  BY <1>2, <1>3, <1>4

(* g is made of a start and of one step after the other. *)
IsFold(g, a, F, L) == g[0] = a /\ \A n \in 1 .. L : g[n] = F[n][g[n - 1]]

LEMMA FoldExists ==
    ASSUME NEW S, NEW a \in S, NEW L \in Nat, NEW F \in [1 .. L -> [S -> S]]
    PROVE  \E g \in [0 .. L -> S] : IsFold(g, a, F, L)
<1> DEFINE Made(g, m) == g[0] = a /\ \A n \in 1 .. m : g[n] = F[n][g[n - 1]]
           T == {m \in 0 .. L : \E g \in [0 .. m -> S] : Made(g, m)}
<1>1. 0 \in T
  <2> DEFINE h == [n \in 0 .. 0 |-> a]
  <2>1. h \in [0 .. 0 -> S] /\ Made(h, 0)
    OBVIOUS
  <2>2. 0 \in 0 .. L
    OBVIOUS
  <2> HIDE DEF h, Made
  <2> QED BY <2>1, <2>2
<1>2. ASSUME NEW m \in 1 .. L, m - 1 \in T PROVE m \in T
  <2>1. PICK g \in [0 .. m - 1 -> S] : Made(g, m - 1)
    BY <1>2
  <2> DEFINE h == [n \in 0 .. m |-> IF n = m THEN F[m][g[m - 1]] ELSE g[n]]
  <2>2. F[m][g[m - 1]] \in S
    OBVIOUS
  <2>3. h \in [0 .. m -> S]
    BY <2>2
  <2>4. Made(h, m)
    BY <2>1
  <2>5. m \in 0 .. L
    OBVIOUS
  <2> HIDE DEF h, Made
  <2> QED BY <2>3, <2>4, <2>5
<1>3. 0 .. L \subseteq T
  <2> HIDE DEF T
  <2> QED BY <1>1, <1>2, UpTo
<1> QED
  BY <1>3 DEF IsFold
=============================================================================

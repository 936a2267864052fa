-------------------------- MODULE SessionsViewProofs --------------------------
(***************************************************************************)
(* Theorems about SessionsView, for any Sessions, namespaces, policies and *)
(* number of clicks, changes, lost connections and faults.                 *)
(***************************************************************************)
EXTENDS SessionsViewInvariant, FoldLemmas

-----------------------------------------------------------------------------
(* The two folds.                                                          *)

(* The fold of Keep is defined. *)
LEMMA KeepFolds ==
    ASSUME NEW S, NEW s \in Seq(S), NEW I
    PROVE  \E kept : kept = [n \in 0 .. Len(s) |->
               IF n = 0 THEN <<>>
               ELSE IF n \in I THEN Append(kept[n - 1], s[n]) ELSE kept[n - 1]]
<1> DEFINE F == [n \in 1 .. Len(s) |-> [t \in Seq(S) |-> IF n \in I THEN Append(t, s[n]) ELSE t]]
           tables == Seq(S)
           empty == <<>>
           L == Len(s)
<1>1. empty \in tables /\ F \in [1 .. L -> [tables -> tables]] /\ L \in Nat
 OBVIOUS
<1>2. PICK g \in [0 .. L -> tables] : IsFold(g, empty, F, L)
  <2> HIDE DEF tables, F, empty, L
  <2> QED BY FoldExists, <1>1
<1>3. g[0] = empty /\ \A n \in 1 .. L : g[n] = F[n][g[n - 1]]
  <2> HIDE DEF tables, F, empty, L
  <2> QED BY <1>2 DEF IsFold
<1> DEFINE h == [n \in 0 .. Len(s) |-> IF n = 0 THEN <<>> ELSE IF n \in I THEN Append(g[n - 1], s[n]) ELSE g[n - 1]]
<1>4. ASSUME NEW n \in 0 .. Len(s) PROVE g[n] = h[n]
  <2>1. CASE n = 0
   BY <2>1, <1>3
  <2>2. CASE n \in 1 .. L
    <3>2. g[n-1] \in Seq(S)
      BY <2>2, <1>3
    <3>3. g[n] = F[n][g[n - 1]]
      BY <1>3, <2>2
    <3> HIDE DEF tables
    <3> QED BY <2>2, <3>2, <3>3
  <2> QED BY <2>1, <2>2
<1>5. g = h
  <2>1. h = [n \in 0 .. L |-> h[n]] /\ g = [n \in 0 .. L |-> g[n]]
    BY <1>3
  <2> HIDE DEF h
  <2> QED BY <2>1, <1>4
<1> QED BY <1>5

(* What Keep keeps: the elements at the chosen positions, each once.       *)
LEMMA KeepMaps ==
    ASSUME NEW S, NEW s \in Seq(S), NEW I
    PROVE  /\ Keep(s, I) \in Seq(S)
           /\ \E p \in [DOMAIN Keep(s, I) -> I \cap DOMAIN s] :
                 /\ \A j \in DOMAIN Keep(s, I) : Keep(s, I)[j] = s[p[j]]
                 /\ \A i, j \in DOMAIN Keep(s, I) : p[i] = p[j] => i = j
                 /\ \A i \in I \cap DOMAIN s : \E j \in DOMAIN Keep(s, I) : p[j] = i
<1> DEFINE L == Len(s)
           Step(kept) == [n \in 0 .. Len(s) |->
                    IF n = 0 THEN <<>>
                    ELSE IF n \in I THEN Append(kept[n - 1], s[n]) ELSE kept[n - 1]]
           f == CHOOSE kept : kept = Step(kept)
           Maps(t, n, p) ==
                 /\ p \in [1 .. Len(t) -> I \cap (1 .. n)]
                 /\ \A j \in 1 .. Len(t) : t[j] = s[p[j]]
                 /\ \A i, j \in 1 .. Len(t) : p[i] = p[j] => i = j
                 /\ \A i \in I \cap (1 .. n) : \E j \in 1 .. Len(t) : p[j] = i
           T == {n \in 0 .. L : f[n] \in Seq(S) /\ \E p : Maps(f[n], n, p)}
<1>1. L \in Nat /\ DOMAIN s = 1 .. L
  OBVIOUS
<1>2. Keep(s, I) = f[L]
  BY DEF Keep
<1>3. f = Step(f)
  <2>1. \E kept : kept = Step(kept)
    BY KeepFolds
  <2> HIDE DEF Step
  <2> QED BY <2>1
<1> HIDE DEF f, L
<1>10. f[0] = <<>>
  <2>1. 0 \in 0 .. Len(s)
    OBVIOUS
  <2> QED BY <1>3, <2>1, Zenon
<1>11. \A n \in 1 .. L : f[n] = IF n \in I THEN Append(f[n - 1], s[n]) ELSE f[n - 1]
  <2>1. \A n \in 1 .. L : n \in 0 .. Len(s) /\ n # 0
    BY DEF L
  <2> QED BY <1>3, <2>1, Zenon
<1>4. 0 \in T
  <2>1. f[0] = <<>>
    BY <1>10
  <2>2. Maps(<<>>, 0, <<>>)
    OBVIOUS
  <2>3. 0 \in 0 .. L /\ <<>> \in Seq(S)
    BY <1>1
  <2> HIDE DEF Maps
  <2> QED BY <2>1, <2>2, <2>3
<1>5. ASSUME NEW n \in 1 .. L, n - 1 \in T PROVE n \in T
  <2>1. f[n - 1] \in Seq(S) /\ n \in 0 .. L /\ s[n] \in S
    BY <1>1, <1>5
  <2>2. PICK p : Maps(f[n - 1], n - 1, p)
    BY <1>5
  <2>3. CASE n \notin I
    <3>1. f[n] = f[n - 1]
      BY <1>11, <2>3
    <3>2. I \cap (1 .. n) = I \cap (1 .. n - 1)
      BY <1>1, <2>3
    <3>3. Maps(f[n], n, p)
      BY <2>2, <3>1, <3>2
    <3> HIDE DEF Maps
    <3> QED BY <2>1, <3>1, <3>3
  <2>4. CASE n \in I
    <3> DEFINE t == f[n - 1]
               q == [j \in 1 .. Len(t) + 1 |-> IF j <= Len(t) THEN p[j] ELSE n]
    <3>1. f[n] = Append(t, s[n])
      BY <1>11, <2>4
    <3>2. I \cap (1 .. n) = (I \cap (1 .. n - 1)) \cup {n}
      BY <1>1, <2>4
    <3>3. Append(t, s[n]) \in Seq(S) /\ Len(Append(t, s[n])) = Len(t) + 1 /\ Len(t) \in Nat
      BY <2>1
    <3>4. \A j \in 1 .. Len(t) + 1 : Append(t, s[n])[j] = IF j <= Len(t) THEN t[j] ELSE s[n]
      BY <2>1
    <3>5. n \notin 1 .. n - 1
      BY <1>1
    <3> HIDE DEF t
    <3>6. Maps(t, n - 1, p)
      BY <2>2 DEF t
    <3>7. Maps(Append(t, s[n]), n, q)
      <4>1. q \in [1 .. Len(t) + 1 -> I \cap (1 .. n)]
        BY <3>2, <3>3, <3>6
      <4>2. \A j \in 1 .. Len(t) + 1 : Append(t, s[n])[j] = s[q[j]]
        BY <3>3, <3>4, <3>6
      <4>3. \A i, j \in 1 .. Len(t) + 1 : q[i] = q[j] => i = j
        BY <3>3, <3>5, <3>6
      <4>4. \A i \in I \cap (1 .. n) : \E j \in 1 .. Len(t) + 1 : q[j] = i
        <5> SUFFICES ASSUME NEW i \in I \cap (1 .. n)
                     PROVE  \E j \in 1 .. Len(t) + 1 : q[j] = i
          OBVIOUS
        <5>1. CASE i = n
          <6>1. Len(t) + 1 \in 1 .. Len(t) + 1 /\ q[Len(t) + 1] = n
            BY <3>3
          <6> QED BY <5>1, <6>1
        <5>2. CASE i \in I \cap (1 .. n - 1)
          <6>1. PICK j \in 1 .. Len(t) : p[j] = i
            BY <5>2, <3>6
          <6>2. j \in 1 .. Len(t) + 1 /\ q[j] = i
            BY <6>1, <3>3
          <6> QED BY <6>2
        <5> QED BY <3>2, <5>1, <5>2
      <4> HIDE DEF q
      <4> QED BY <3>3, <4>1, <4>2, <4>3, <4>4
    <3> HIDE DEF Maps, q
    <3> QED BY <2>1, <3>1, <3>3, <3>7
  <2> QED BY <2>3, <2>4
<1>6. L \in T
  <2> HIDE DEF T
  <2>1. 0 .. L \subseteq T
    BY <1>1, <1>4, <1>5, UpTo
  <2> QED BY <2>1, <1>1
<1>7. PICK p : Maps(f[L], L, p)
  BY <1>6
<1>8. f[L] \in Seq(S) /\ DOMAIN f[L] = 1 .. Len(f[L])
  BY <1>6
<1>9. /\ p \in [DOMAIN f[L] -> I \cap DOMAIN s]
      /\ \A j \in DOMAIN f[L] : f[L][j] = s[p[j]]
      /\ \A i, j \in DOMAIN f[L] : p[i] = p[j] => i = j
      /\ \A i \in I \cap DOMAIN s : \E j \in DOMAIN f[L] : p[j] = i
  BY <1>1, <1>7, <1>8
<1> HIDE DEF Maps
<1> QED
  BY <1>2, <1>8, <1>9

LEMMA KeepFacts ==
    ASSUME NEW S, NEW s \in Seq(S), NEW I
    PROVE  /\ Keep(s, I) \in Seq(S)
           /\ ToSet(Keep(s, I)) = {s[i] : i \in I \cap DOMAIN s}
           /\ IsInjective(s) => IsInjective(Keep(s, I))
<1> DEFINE K == Keep(s, I)
<1>1. PICK p \in [DOMAIN K -> I \cap DOMAIN s] :
         /\ \A j \in DOMAIN K : K[j] = s[p[j]]
         /\ \A i, j \in DOMAIN K : p[i] = p[j] => i = j
         /\ \A i \in I \cap DOMAIN s : \E j \in DOMAIN K : p[j] = i
  BY KeepMaps
<1>2. K \in Seq(S)
  BY KeepMaps
<1> HIDE DEF K
<1>3. ToSet(K) = {s[i] : i \in I \cap DOMAIN s}
  <2>1. ASSUME NEW j \in DOMAIN K PROVE \E i \in I \cap DOMAIN s : K[j] = s[i]
    BY <1>1
  <2>2. ASSUME NEW i \in I \cap DOMAIN s PROVE \E j \in DOMAIN K : K[j] = s[i]
    BY <1>1
  <2> QED BY <2>1, <2>2 DEF ToSet
<1>4. ASSUME IsInjective(s) PROVE IsInjective(K)
  BY <1>1, <1>4 DEF IsInjective
<1> QED
  BY <1>2, <1>3, <1>4 DEF K

(* A filter of a table with one row for each key is one. *)
LEMMA KeepOneEach ==
    ASSUME NEW s \in Seq(Rows), NEW I, OneRowEach(s)
    PROVE  OneRowEach(Keep(s, I))
<1> DEFINE K == Keep(s, I)
<1>1. PICK p \in [DOMAIN K -> I \cap DOMAIN s] :
         /\ \A j \in DOMAIN K : K[j] = s[p[j]]
         /\ \A i, j \in DOMAIN K : p[i] = p[j] => i = j
  BY KeepMaps
<1> HIDE DEF K
<1>2. OneRowEach(K)
  BY <1>1 DEF OneRowEach
<1> QED
  BY <1>2 DEF K

-----------------------------------------------------------------------------
(* What the server shows.                                                  *)

LEMMA ViewsTyped ==
    ASSUME NEW ns \in Views, NEW x \in {Nil, UserAnswer(policy, Namespaces)}
    PROVE  EffectiveNs(ns, x) \in Views
<1>1. NamespacesWhere(x, "list") \subseteq Namespaces
  <2>1. CASE x = Nil
    BY <2>1 DEF NamespacesWhere
  <2>2. CASE x # Nil
    <3>1. x = UserAnswer(policy, Namespaces)
      BY <2>2
    <3>2. DOMAIN x.domains = Enumerated(policy, Namespaces) \cup {Star}
      BY <3>1 DEF UserAnswer
    <3> QED BY <2>2, <3>2 DEF NamespacesWhere, Enumerated
  <2> QED BY <2>1, <2>2
<1>2. "default" \in Namespaces
  BY DefaultAssumption
<1> QED
  BY <1>1, <1>2 DEF EffectiveNs, Views

LEMMA RowTyped ==
    ASSUME TypeOK, NEW k \in Keys, world[k] # Nil
    PROVE  RowOf(k) \in Rows
  BY DEF TypeOK, RowOf, Rows, Objects

(* The list shows every stored Session of the view, once. *)
LEMMA VisibleFacts ==
    ASSUME TypeOK, NEW view
    PROVE  /\ Visible(view) \in Seq(Rows)
           /\ ToSet(Visible(view)) = {RowOf(k) : k \in {j \in Keys : world[j] # Nil /\ Shows(view, j)}}
           /\ OneRowEach(Visible(view))
<1> DEFINE I == {i \in DOMAIN KeyOrder : world[KeyOrder[i]] # Nil /\ Shows(view, KeyOrder[i])}
           present == Keep(KeyOrder, I)
           in == {j \in Keys : world[j] # Nil /\ Shows(view, j)}
<1>1. KeyOrder \in Seq(Namespaces \X STRING) /\ IsInjective(KeyOrder)
  BY KeysAssumption
<1>2. present \in Seq(Namespaces \X STRING) /\ IsInjective(present)
  BY <1>1, KeepFacts
<1>3. ToSet(present) = in
  <2>1. ToSet(present) = {KeyOrder[i] : i \in I \cap DOMAIN KeyOrder}
    BY <1>1, KeepFacts
  <2> QED BY <2>1 DEF Keys, ToSet
<1>4. \A k \in in : RowOf(k) \in Rows
  BY RowTyped
<1>5. Visible(view) = [i \in DOMAIN present |-> RowOf(present[i])]
  BY DEF Visible
<1> HIDE DEF present, in
<1>6. DOMAIN present = 1 .. Len(present) /\ Len(present) \in Nat
  BY <1>2
<1>7. \A i \in DOMAIN present : present[i] \in in
  BY <1>3 DEF ToSet
<1>8. Visible(view) \in Seq(Rows)
  BY <1>4, <1>5, <1>6, <1>7
<1>9. ToSet(Visible(view)) = {RowOf(k) : k \in in}
  BY <1>3, <1>5 DEF ToSet
<1>10. OneRowEach(Visible(view))
  BY <1>2, <1>5 DEF OneRowEach, IsInjective, RowOf
<1> QED
  BY <1>8, <1>9, <1>10 DEF in

LEMMA ListingTyped ==
    ASSUME TypeOK, NEW view
    PROVE  Listing(view) \in Replies /\ Failed \in Replies
<1>1. Failed \in Replies
  BY DEF Failed, Replies
<1>2. [ok |-> TRUE, rows |-> Visible(view), rev |-> rev] \in Replies
  BY VisibleFacts DEF TypeOK, Replies
<1> QED
  BY <1>1, <1>2 DEF Listing

-----------------------------------------------------------------------------
(* Messages.                                                               *)

LEMMA MergedTyped ==
    ASSUME NEW list \in Seq(Rows), NEW e \in Events
    PROVE  Merged(list, e) \in Seq(Rows)
<1> DEFINE at == Named(list, e)
<1>1. e.row \in Rows
  BY DEF Events
<1>2. Keep(list, DOMAIN list \ at) \in Seq(Rows)
  BY KeepFacts
<1>3. <<e.row>> \o list \in Seq(Rows)
  BY <1>1
<1>4. ASSUME NEW i PROVE [list EXCEPT ![i] = e.row] \in Seq(Rows)
  <2> DEFINE n == Len(list)
             t == [list EXCEPT ![i] = e.row]
  <2>1. n \in Nat /\ DOMAIN list = 1 .. n /\ \A j \in 1 .. n : list[j] \in Rows
    OBVIOUS
  <2> HIDE DEF n
  <2>2. t = [j \in 1 .. n |-> IF j = i THEN e.row ELSE list[j]]
    BY <2>1
  <2>3. \A j \in 1 .. n : (IF j = i THEN e.row ELSE list[j]) \in Rows
    BY <1>1, <2>1
  <2>4. t \in [1 .. n -> Rows]
    BY <2>2, <2>3
  <2>5. t \in Seq(Rows)
    <3> HIDE DEF t
    <3> QED BY <2>1, <2>4
  <2> QED BY <2>5
<1> QED
  BY <1>2, <1>3, <1>4 DEF Merged

(* A table and a queue have their tables message by message. *)
IsReplay(after, table, queue) ==
    /\ after \in [0 .. Len(queue) -> Seq(Rows)]
    /\ after[0] = table
    /\ \A n \in 1 .. Len(queue) : after[n] = Merged(after[n - 1], queue[n])

LEMMA ReplayExists ==
    ASSUME NEW table \in Seq(Rows), NEW queue \in Seq(Events)
    PROVE  \E after : IsReplay(after, table, queue)
<1> DEFINE tables == Seq(Rows)
           L == Len(queue)
           F == [n \in 1 .. L |-> [t \in tables |-> Merged(t, queue[n])]]
<1>1. L \in Nat /\ table \in tables /\ \A n \in 1 .. L : queue[n] \in Events
  OBVIOUS
<1>2. F \in [1 .. L -> [tables -> tables]]
  <2>1. \A n \in 1 .. L, t \in tables : Merged(t, queue[n]) \in tables
    BY <1>1, MergedTyped
  <2> HIDE DEF tables, L
  <2> QED BY <2>1
<1>3. PICK g \in [0 .. L -> tables] : IsFold(g, table, F, L)
  <2> HIDE DEF tables, F, L
  <2> QED BY <1>1, <1>2, FoldExists
<1>4. g[0] = table /\ \A n \in 1 .. L : g[n] = F[n][g[n - 1]]
  <2> HIDE DEF tables, F, L
  <2> QED BY <1>3 DEF IsFold
<1> HIDE DEF tables, L
<1>5. ASSUME NEW n \in 1 .. L PROVE g[n] = Merged(g[n - 1], queue[n])
  <2>1. g[n - 1] \in tables
    BY <1>1, <1>4
  <2> QED BY <1>4, <2>1
<1> QED
  BY <1>4, <1>5 DEF IsReplay, L, tables

LEMMA ReplayedIs ==
    ASSUME NEW table \in Seq(Rows), NEW queue \in Seq(Events),
           NEW after, IsReplay(after, table, queue)
    PROVE  Replayed(table, queue) = after[Len(queue)]
<1> DEFINE L == Len(queue)
           Step(a) == [n \in 0 .. Len(queue) |->
                          IF n = 0 THEN table ELSE Merged(a[n - 1], queue[n])]
           f == CHOOSE a : a = Step(a)
           T == {n \in 0 .. L : f[n] = after[n]}
<1>1. after = Step(after)
  <2>1. \A n \in 0 .. L : after[n] = Step(after)[n]
    <3>1. \A n \in 0 .. L : n = 0 \/ n \in 1 .. L
      OBVIOUS
    <3> HIDE DEF L
    <3> QED BY <3>1 DEF IsReplay, L
  <2>2. after = [n \in 0 .. L |-> after[n]] /\ Step(after) = [n \in 0 .. L |-> Step(after)[n]]
    BY DEF IsReplay
  <2> HIDE DEF Step
  <2> QED BY <2>1, <2>2
<1>2. f = Step(f)
  <2> HIDE DEF Step
  <2> QED BY <1>1
<1>3. Replayed(table, queue) = f[L]
  BY DEF Replayed
<1>4. L \in Nat
  OBVIOUS
<1> HIDE DEF f, L
<1>5. f[0] = table /\ \A n \in 1 .. L : f[n] = Merged(f[n - 1], queue[n])
  <2>1. \A n \in 1 .. L : n \in 0 .. Len(queue) /\ n # 0
    BY DEF L
  <2>2. 0 \in 0 .. Len(queue)
    OBVIOUS
  <2> QED BY <1>2, <2>1, <2>2, Zenon
<1>6. 0 \in T
  BY <1>4, <1>5 DEF IsReplay
<1>7. ASSUME NEW n \in 1 .. L, n - 1 \in T PROVE n \in T
  <2>1. n \in 0 .. L
    BY <1>4
  <2> QED BY <1>5, <1>7, <2>1 DEF IsReplay, L
<1>8. 0 .. L \subseteq T
  <2> HIDE DEF T
  <2> QED BY <1>4, <1>6, <1>7, UpTo
<1> QED
  BY <1>3, <1>4, <1>8 DEF L

LEMMA ReplayedTyped ==
    ASSUME NEW table \in Seq(Rows), NEW queue \in Seq(Events)
    PROVE  Replayed(table, queue) \in Seq(Rows)
<1>1. PICK after : IsReplay(after, table, queue)
  BY ReplayExists
<1>2. Len(queue) \in 0 .. Len(queue)
  OBVIOUS
<1>3. after[Len(queue)] \in Seq(Rows)
  BY <1>1, <1>2 DEF IsReplay
<1> QED
  BY <1>1, <1>3, ReplayedIs

(* A message that is delivered first changes nothing in the end. *)
LEMMA ReplayedHead ==
    ASSUME NEW table \in Seq(Rows), NEW queue \in Seq(Events), queue # <<>>
    PROVE  Replayed(table, queue) = Replayed(Merged(table, Head(queue)), Tail(queue))
<1> DEFINE L == Len(queue)
           rest == Tail(queue)
           t == Merged(table, Head(queue))
<1>1. L \in Nat \ {0} /\ rest \in Seq(Events) /\ Len(rest) = L - 1
      /\ Head(queue) = queue[1] /\ Head(queue) \in Events
  OBVIOUS
<1>2. \A n \in 1 .. L - 1 : rest[n] = queue[n + 1]
  OBVIOUS
<1>3. PICK after : IsReplay(after, table, queue)
  BY ReplayExists
<1> DEFINE a == [n \in 0 .. L - 1 |-> after[n + 1]]
<1>4. IsReplay(a, t, rest)
  <2> HIDE DEF L, rest
  <2>1. after \in [0 .. L -> Seq(Rows)] /\ after[0] = table
        /\ \A n \in 1 .. L : after[n] = Merged(after[n - 1], queue[n])
    BY <1>3 DEF IsReplay, L
  <2>2. a \in [0 .. L - 1 -> Seq(Rows)]
    <3>1. \A n \in 0 .. L - 1 : n + 1 \in 0 .. L
      BY <1>1
    <3> QED BY <2>1, <3>1
  <2>3. a[0] = t
    <3>1. 1 \in 1 .. L /\ 0 \in 0 .. L - 1 /\ 0 + 1 = 1 /\ 1 - 1 = 0
      BY <1>1
    <3> QED BY <1>1, <2>1, <3>1
  <2>4. ASSUME NEW n \in 1 .. L - 1 PROVE a[n] = Merged(a[n - 1], rest[n])
    <3>1. n + 1 \in 1 .. L /\ n \in 0 .. L - 1 /\ n - 1 \in 0 .. L - 1
          /\ (n + 1) - 1 = n /\ (n - 1) + 1 = n
      BY <1>1
    <3>2. after[n + 1] = Merged(after[n], queue[n + 1])
      BY <2>1, <3>1
    <3> QED BY <1>2, <3>1, <3>2
  <2> HIDE DEF a, t
  <2> QED BY <1>1, <2>2, <2>3, <2>4 DEF IsReplay
<1>5. a[L - 1] = after[L]
  BY <1>1
<1>6. t \in Seq(Rows)
  BY <1>1, MergedTyped
<1> HIDE DEF a, t, rest
<1>7. Replayed(t, rest) = a[L - 1] /\ Replayed(table, queue) = after[L]
  BY <1>1, <1>3, <1>4, <1>6, ReplayedIs
<1> QED
  BY <1>5, <1>7 DEF t, rest

(* A message more is delivered last. *)
LEMMA ReplayedAppend ==
    ASSUME NEW table \in Seq(Rows), NEW queue \in Seq(Events), NEW e \in Events
    PROVE  Replayed(table, Append(queue, e)) = Merged(Replayed(table, queue), e)
<1> DEFINE L == Len(queue)
           more == Append(queue, e)
<1>1. L \in Nat /\ more \in Seq(Events) /\ Len(more) = L + 1 /\ more[L + 1] = e
  OBVIOUS
<1>2. \A n \in 1 .. L : more[n] = queue[n]
  OBVIOUS
<1>3. PICK after : IsReplay(after, table, more)
  BY <1>1, ReplayExists
<1> DEFINE a == [n \in 0 .. L |-> after[n]]
<1> HIDE DEF L, more
<1>4. after \in [0 .. L + 1 -> Seq(Rows)] /\ after[0] = table
      /\ \A n \in 1 .. L + 1 : after[n] = Merged(after[n - 1], more[n])
  BY <1>1, <1>3 DEF IsReplay
<1>5. IsReplay(a, table, queue)
  <2>1. a \in [0 .. L -> Seq(Rows)]
    <3>1. \A n \in 0 .. L : n \in 0 .. L + 1
      BY <1>1
    <3> QED BY <1>4, <3>1
  <2>2. a[0] = table
    BY <1>1, <1>4
  <2>3. ASSUME NEW n \in 1 .. L PROVE a[n] = Merged(a[n - 1], queue[n])
    <3>1. n \in 1 .. L + 1 /\ n \in 0 .. L /\ n - 1 \in 0 .. L
      BY <1>1
    <3> QED BY <1>2, <1>4, <3>1
  <2> HIDE DEF a
  <2> QED BY <2>1, <2>2, <2>3 DEF IsReplay, L
<1>6. a[L] = after[L] /\ after[L + 1] = Merged(after[L], e)
  <2>1. L + 1 \in 1 .. L + 1 /\ (L + 1) - 1 = L /\ L \in 0 .. L
    BY <1>1
  <2>2. a[L] = after[L]
    BY <2>1
  <2> QED BY <1>1, <1>4, <2>1, <2>2
<1> HIDE DEF a
<1>7. Replayed(table, queue) = a[L]
  BY <1>5, ReplayedIs DEF L
<1>8. Replayed(table, more) = after[L + 1]
  BY <1>1, <1>3, ReplayedIs
<1> QED
  BY <1>6, <1>7, <1>8 DEF more

-----------------------------------------------------------------------------
(* Types.                                                                  *)

LEMMA AsksTyped ==
    ASSUME NEW view \in Views
    PROVE  Ask(view) \in Lists /\ Ask(view) # Nil
<1>1. Ask(view) \in Lists
  BY DEF Ask, Lists
<1> QED
  BY <1>1, NilIsNoList

LEMMA ConnectingTyped ==
    Connecting \in Streams /\ [Connecting EXCEPT !.state = "closed"] \in Streams
<1>1. <<>> \in Seq(Events)
  OBVIOUS
<1> QED
  BY <1>1 DEF Connecting, Streams

LEMMA SpendTyped ==
    ASSUME TypeOK, NEW b \in BudgetKinds, Spend(b)
    PROVE  budget' \in [BudgetKinds -> Nat]
  BY DEF TypeOK, Spend

(* What a view or a context that changed starts. *)
LEMMA EffectsTyped ==
    ASSUME TypeOK, NEW ns \in Views, NEW x \in {Nil, UserAnswer(policy, Namespaces)},
           ListEffect(EffectiveNs(ns, x), x)
    PROVE  /\ initial' \in {Nil} \cup Lists /\ loading' \in BOOLEAN
           /\ loading' => initial' # Nil
<1>1. EffectiveNs(ns, x) \in Views
  BY ViewsTyped
<1>2. Ask(EffectiveNs(ns, x)) \in Lists
  BY <1>1, AsksTyped
<1> QED
  BY <1>2 DEF ListEffect

LEMMA InitTyped == Init => TypeOK
<1> SUFFICES ASSUME Init PROVE TypeOK
  OBVIOUS
<1>1. policy \in Policies /\ budget \in [BudgetKinds -> Nat]
  BY ScenariosAssumption DEF Init
<1>2. world \in [Keys -> {Nil} \cup Objects] /\ rev \in Nat
  <2>1. [rep |-> 1, rev |-> 1] \in Objects
    BY BoundsAssumption DEF Objects, Counts
  <2> QED BY <2>1 DEF Init
<1>3. initial \in {Nil} \cup Lists
  <2>1. EffectiveNs(namespace, Nil) \in Views
    BY ViewsTyped DEF Init
  <2> QED BY <2>1, AsksTyped DEF Init
<1>4. stream \in Streams
  BY ConnectingTyped DEF Init
<1>5. pendingTargets \in [Keys -> {Nil} \cup Counts]
  BY DEF Init
<1>6. call \in [Chains -> {Nil} \cup Calls] /\ refresh \in [Chains -> {Nil} \cup Lists]
  BY DEF Init
<1>7. rows \in Seq(Rows)
  BY DEF Init
<1>8. asking \in BOOLEAN /\ ix \in {Nil, UserAnswer(policy, Namespaces)} /\ namespace \in Views /\ loading \in BOOLEAN
  BY DEF Init
<1> QED
  BY <1>1, <1>2, <1>3, <1>4, <1>5, <1>6, <1>7, <1>8 DEF TypeOK

LEMMA ContextTyped ==
    ASSUME TypeOK, ContextArrives \/ ContextFails
    PROVE  TypeOK'
<1>1. CASE ContextArrives
  <2> DEFINE x == UserAnswer(policy, Namespaces)
  <2>1. initial' \in {Nil} \cup Lists /\ loading' \in BOOLEAN
    BY <1>1, EffectsTyped DEF ContextArrives, TypeOK
  <2>2. stream' \in Streams
    BY <1>1, ConnectingTyped DEF ContextArrives, TypeOK, WatchEffect
  <2> QED BY <1>1, <2>1, <2>2 DEF ContextArrives, TypeOK, store, chains
<1>2. CASE ContextFails
  <2>1. budget' \in [BudgetKinds -> Nat]
    BY <1>2, SpendTyped DEF ContextFails, BudgetKinds
  <2> QED BY <1>2, <2>1 DEF ContextFails, TypeOK, store, hook, chains
<1> QED
  BY <1>1, <1>2

LEMMA SelectTyped ==
    ASSUME TypeOK, NEW ns \in Views, Select(ns)
    PROVE  TypeOK'
<1>1. initial' \in {Nil} \cup Lists /\ loading' \in BOOLEAN
  BY EffectsTyped DEF Select, TypeOK
<1>2. stream' \in Streams
  BY ConnectingTyped DEF Select, TypeOK, WatchEffect
<1>3. budget' \in [BudgetKinds -> Nat]
  BY SpendTyped DEF Select, BudgetKinds
<1> QED
  BY <1>1, <1>2, <1>3 DEF Select, TypeOK, store, chains

(* A list that was asked for and gets a reply. *)
LEMMA RepliesTyped ==
    ASSUME NEW l \in Lists, NEW r \in Replies
    PROVE  [l EXCEPT !.reply = r] \in Lists
  BY DEF Lists

LEMMA ReadTyped ==
    ASSUME TypeOK, ReadInitial \/ \E c \in Chains : ReadRefresh(c)
    PROVE  TypeOK'
<1>1. CASE ReadInitial
  <2>1. initial \in Lists
    BY <1>1 DEF ReadInitial, TypeOK
  <2>2. initial' \in Lists
    BY <1>1, <2>1, ListingTyped, RepliesTyped DEF ReadInitial
  <2>3. budget' \in [BudgetKinds -> Nat]
    BY <1>1, SpendTyped DEF ReadInitial, BudgetKinds, TypeOK
  <2> QED BY <1>1, <2>2, <2>3 DEF ReadInitial, TypeOK, store, context, chains
<1>2. ASSUME NEW c \in Chains, ReadRefresh(c) PROVE TypeOK'
  <2>1. refresh[c] \in Lists
    BY <1>2 DEF ReadRefresh, TypeOK
  <2>2. \A r \in Replies : [refresh EXCEPT ![c].reply = r] \in [Chains -> {Nil} \cup Lists]
    <3> TAKE r \in Replies
    <3>1. [refresh[c] EXCEPT !.reply = r] \in Lists
      BY <2>1, RepliesTyped
    <3> QED BY <3>1 DEF TypeOK
  <2>3. refresh' \in [Chains -> {Nil} \cup Lists]
    <3>1. Listing(refresh[c].view) \in Replies /\ Failed \in Replies
      BY ListingTyped
    <3>2. \/ refresh' = [refresh EXCEPT ![c].reply = Listing(refresh[c].view)]
          \/ refresh' = [refresh EXCEPT ![c].reply = Failed]
      BY <1>2 DEF ReadRefresh
    <3> QED BY <2>2, <3>1, <3>2
  <2>4. budget' \in [BudgetKinds -> Nat]
    BY <1>2, SpendTyped DEF ReadRefresh, BudgetKinds, TypeOK
  <2> QED BY <1>2, <2>3, <2>4 DEF ReadRefresh, TypeOK, store, context, hook
<1> QED
  BY <1>1, <1>2

LEMMA ArrivesTyped ==
    ASSUME TypeOK, InitialArrives \/ \E c \in Chains : RefreshArrives(c)
    PROVE  TypeOK'
<1>0. \A l \in Lists : l.reply # Nil => l.reply.rows \in Seq(Rows)
  BY DEF Lists, Replies
<1>1. CASE InitialArrives
  <2>1. initial \in Lists
    BY <1>1 DEF InitialArrives, TypeOK
  <2>2. rows' \in Seq(Rows)
    BY <1>0, <1>1, <2>1 DEF InitialArrives, SetRows, TypeOK
  <2> QED BY <1>1, <2>2 DEF InitialArrives, StopLoading, TypeOK, store, context, chains
<1>2. ASSUME NEW c \in Chains, RefreshArrives(c) PROVE TypeOK'
  <2>1. refresh[c] \in Lists
    BY <1>2 DEF RefreshArrives, TypeOK
  <2>2. rows' \in Seq(Rows)
    BY <1>0, <1>2, <2>1 DEF RefreshArrives, SetRows, TypeOK
  <2>3. refresh' \in [Chains -> {Nil} \cup Lists]
    BY <1>2 DEF RefreshArrives, TypeOK
  <2> QED BY <1>2, <2>2, <2>3 DEF RefreshArrives, StopLoading, TypeOK, store, context
<1> QED
  BY <1>1, <1>2

LEMMA StreamTyped ==
    ASSUME TypeOK, StreamOpens \/ StreamBreaks
    PROVE  TypeOK'
<1>1. stream' \in Streams
  <2>1. Visible(effectiveNs) \in Seq(Rows)
    BY VisibleFacts
  <2> DEFINE shown == Visible(effectiveNs)
             queue == [i \in DOMAIN shown |-> [type |-> "ADDED", row |-> shown[i]]]
  <2>2. queue \in Seq(Events)
    <3> HIDE DEF shown
    <3>1. shown \in Seq(Rows)
      BY <2>1 DEF shown
    <3>2. \A i \in DOMAIN shown : [type |-> "ADDED", row |-> shown[i]] \in Events
      BY <3>1 DEF Events
    <3> QED BY <3>1, <3>2
  <2>3. [state |-> "open", seen |-> rev, queue |-> queue] \in Streams
    BY <2>2 DEF Streams, TypeOK
  <2> HIDE DEF queue
  <2>4. CASE StreamBreaks
    BY <2>4, ConnectingTyped DEF StreamBreaks
  <2>5. CASE StreamOpens
    <3>1. \/ stream' = [state |-> "open", seen |-> rev, queue |-> queue]
          \/ stream' = [Connecting EXCEPT !.state = "closed"]
      BY <2>5 DEF StreamOpens, queue
    <3> QED BY <2>3, <3>1, ConnectingTyped
  <2> QED BY <2>4, <2>5
<1>2. budget' \in [BudgetKinds -> Nat]
  BY SpendTyped DEF StreamOpens, StreamBreaks, BudgetKinds, TypeOK
<1> QED
  BY <1>1, <1>2 DEF StreamOpens, StreamBreaks, TypeOK, store, context, hook, chains

LEMMA MessageTyped ==
    ASSUME TypeOK, Message
    PROVE  TypeOK'
<1> DEFINE q == stream.queue
           e == Head(q)
<1>1. q \in Seq(Events) /\ q # <<>> /\ stream \in Streams
  BY DEF TypeOK, Streams, Message
<1>2. e \in Events /\ Tail(q) \in Seq(Events)
  <2> HIDE DEF q
  <2> QED BY <1>1
<1>3. rows' \in Seq(Rows)
  BY <1>2, MergedTyped DEF Message, TypeOK
<1>4. e.row \in Rows /\ e.row.rev \in Nat /\ e.row.key \in Keys
  BY <1>2 DEF Events, Rows
<1>5. stream' \in Streams
  <2>1. stream' = [stream EXCEPT !.queue = Tail(@),
                                 !.seen = IF e.row.rev > @ THEN e.row.rev ELSE @]
    BY DEF Message
  <2>2. stream.seen \in Nat
    BY <1>1 DEF Streams
  <2> HIDE DEF e
  <2> QED BY <1>1, <1>2, <1>4, <2>1, <2>2 DEF Streams
<1>6. pendingTargets' \in [Keys -> {Nil} \cup Counts]
  BY <1>4 DEF Message, ClearTarget, TypeOK
<1> QED
  BY <1>3, <1>5, <1>6 DEF Message, TypeOK, store, context, chains

(* A write, whoever makes it. *)
LEMMA WriteTyped ==
    ASSUME TypeOK, NEW k \in Keys, NEW object \in {Nil} \cup Objects,
           NEW type \in {"ADDED", "MODIFIED", "DELETED"},
           object = Nil => world[k] # Nil,
           Write(k, object, type)
    PROVE  /\ world' \in [Keys -> {Nil} \cup Objects] /\ rev' \in Nat
           /\ stream' \in Streams
<1> DEFINE row == [key |-> k, rev |-> rev + 1,
                   rep |-> IF object = Nil THEN world[k].rep ELSE object.rep]
<1>1. rev' = rev + 1 /\ rev \in Nat /\ stream \in Streams
  BY DEF Write, TypeOK
<1>2. world' \in [Keys -> {Nil} \cup Objects]
  BY DEF Write, TypeOK
<1>3. row \in Rows
  BY <1>1 DEF Rows, Objects, TypeOK
<1>4. [type |-> type, row |-> row] \in Events
  BY <1>3 DEF Events
<1>5. \/ stream' = stream
      \/ stream' = [stream EXCEPT !.queue = Append(@, [type |-> type, row |-> row])]
  BY DEF Write
<1> HIDE DEF row
<1>6. stream' \in Streams
  <2> DEFINE e == [type |-> type, row |-> row]
  <2>1. stream.queue \in Seq(Events) /\ e \in Events
    BY <1>1, <1>4 DEF Streams
  <2> HIDE DEF e
  <2>2. Append(stream.queue, e) \in Seq(Events)
    BY <2>1
  <2>3. [stream EXCEPT !.queue = Append(@, e)] \in Streams
    BY <1>1, <2>2 DEF Streams
  <2> QED BY <1>1, <1>5, <2>3 DEF e
<1> QED
  BY <1>1, <1>2, <1>6

LEMMA StoredTyped ==
    ASSUME TypeOK, NEW n \in Counts
    PROVE  Stored(n) \in Objects /\ Stored(n) # Nil
<1>1. Stored(n) \in Objects
  BY DEF Stored, Objects, TypeOK
<1> QED
  BY <1>1, NilIsNoList

LEMMA ChangeTyped ==
    ASSUME TypeOK, NEW k \in Keys, Change(k)
    PROVE  TypeOK'
<1>0. 1 \in Counts
  BY BoundsAssumption DEF Counts
<1>1. world' \in [Keys -> {Nil} \cup Objects] /\ rev' \in Nat /\ stream' \in Streams
  <2>1. CASE world[k] = Nil /\ Write(k, Stored(1), "ADDED")
    BY <1>0, <2>1, StoredTyped, WriteTyped
  <2>2. CASE world[k] # Nil /\ Write(k, Nil, "DELETED")
    BY <2>2, WriteTyped
  <2>3. ASSUME NEW n \in Counts, world[k] # Nil, Write(k, Stored(n), "MODIFIED")
        PROVE  world' \in [Keys -> {Nil} \cup Objects] /\ rev' \in Nat /\ stream' \in Streams
    BY <2>3, StoredTyped, WriteTyped
  <2> QED BY <2>1, <2>2, <2>3 DEF Change
<1>2. budget' \in [BudgetKinds -> Nat]
  BY SpendTyped DEF Change, BudgetKinds
<1> QED
  BY <1>1, <1>2 DEF Change, TypeOK, context, hook, chains

LEMMA CallTyped ==
    ASSUME TypeOK, NEW c \in Chains, NEW op \in {"scale", "delete", "create"},
           NEW k \in Keys, NEW n \in Counts, Start(c, op, k, n)
    PROVE  /\ call' \in [Chains -> {Nil} \cup Calls]
           /\ budget' \in [BudgetKinds -> Nat]
<1>1. effectiveNs \in Views
  BY ViewsTyped DEF TypeOK, effectiveNs
<1>2. [op |-> op, key |-> k, rep |-> n, view |-> effectiveNs, result |-> Nil] \in Calls
  BY <1>1 DEF Calls
<1>3. call' \in [Chains -> {Nil} \cup Calls]
  BY <1>2 DEF Start, TypeOK
<1> QED
  BY <1>3, SpendTyped DEF Start, BudgetKinds

LEMMA ShownRowsTyped ==
    ASSUME TypeOK, NEW i \in ShownRows
    PROVE  i \in DOMAIN rows /\ rows[i].key \in Keys
<1>1. i \in DOMAIN rows /\ rows \in Seq(Rows)
  BY DEF ShownRows, TypeOK
<1>2. rows[i] \in Rows
  BY <1>1
<1> QED
  BY <1>1, <1>2 DEF Rows

LEMMA ClickTyped ==
    ASSUME TypeOK, Click
    PROVE  TypeOK'
<1>1. ASSUME NEW c \in Chains, NEW i \in ShownRows, handleScale(c, i) PROVE TypeOK'
  <2>1. rows[i].key \in Keys
    BY ShownRowsTyped
  <2>2. PICK n \in ScaleButtons(i) : /\ Start(c, "scale", rows[i].key, n)
                                     /\ pendingTargets' = [pendingTargets EXCEPT ![rows[i].key] = n]
    BY <1>1 DEF handleScale
  <2>3. n \in Counts
    BY <2>2 DEF ScaleButtons
  <2>4. call' \in [Chains -> {Nil} \cup Calls] /\ budget' \in [BudgetKinds -> Nat]
    BY <2>1, <2>2, <2>3, CallTyped
  <2>5. pendingTargets' \in [Keys -> {Nil} \cup Counts]
    BY <2>1, <2>2, <2>3 DEF TypeOK
  <2> QED BY <1>1, <2>4, <2>5 DEF handleScale, TypeOK, store, context
<1>2. ASSUME NEW c \in Chains, NEW i \in ShownRows, doDelete(c, i) PROVE TypeOK'
  <2>1. rows[i].key \in Keys
    BY ShownRowsTyped
  <2>2. 0 \in Counts
    BY BoundsAssumption DEF Counts
  <2>3. call' \in [Chains -> {Nil} \cup Calls] /\ budget' \in [BudgetKinds -> Nat]
    BY <1>2, <2>1, <2>2, CallTyped DEF doDelete
  <2> QED BY <1>2, <2>3 DEF doDelete, TypeOK, store, context, hook
<1>3. ASSUME NEW c \in Chains, NEW k \in Keys, handleCreate(c, k) PROVE TypeOK'
  <2>1. 1 \in Counts
    BY BoundsAssumption DEF Counts
  <2>2. call' \in [Chains -> {Nil} \cup Calls] /\ budget' \in [BudgetKinds -> Nat]
    BY <1>3, <2>1, CallTyped DEF handleCreate
  <2> QED BY <1>3, <2>2 DEF handleCreate, TypeOK, store, context, hook
<1>4. ASSUME NEW c \in Chains, handleRefresh(c) PROVE TypeOK'
  <2>1. Ask(effectiveNs) \in Lists
    BY ViewsTyped, AsksTyped DEF TypeOK, effectiveNs
  <2>2. refresh' \in [Chains -> {Nil} \cup Lists]
    BY <1>4, <2>1 DEF handleRefresh, TypeOK
  <2>3. budget' \in [BudgetKinds -> Nat]
    BY <1>4, SpendTyped DEF handleRefresh, BudgetKinds
  <2> QED BY <1>4, <2>2, <2>3 DEF handleRefresh, TypeOK, store, context
<1> QED
  BY <1>1, <1>2, <1>3, <1>4 DEF Click

LEMMA ServeTyped ==
    ASSUME TypeOK, NEW c \in Chains, Serve(c)
    PROVE  TypeOK'
<1> DEFINE k == call[c].key
           op == call[c].op
<1>1. call[c] \in Calls /\ k \in Keys /\ call[c].rep \in Counts
  BY DEF Serve, TypeOK, Calls
<1>2. call' \in [Chains -> {Nil} \cup Calls]
  <2>1. \A r \in {"ok", "failed"} : [call[c] EXCEPT !.result = r] \in Calls
    BY <1>1 DEF Calls
  <2>2. \A r \in {"ok", "failed"} : [call EXCEPT ![c].result = r] \in [Chains -> {Nil} \cup Calls]
    BY <2>1 DEF TypeOK
  <2>3. \E r \in {"ok", "failed"} : call' = [call EXCEPT ![c].result = r]
    BY DEF Serve
  <2> QED BY <2>2, <2>3
<1>3. budget' \in [BudgetKinds -> Nat]
  BY SpendTyped DEF Serve, BudgetKinds, TypeOK
<1>4. world' \in [Keys -> {Nil} \cup Objects] /\ rev' \in Nat /\ stream' \in Streams
  <2>1. CASE (world[k] = Nil) = (op = "create") /\ op = "scale" /\ Write(k, Stored(call[c].rep), "MODIFIED")
    BY <1>1, <2>1, StoredTyped, WriteTyped
  <2>2. CASE (world[k] = Nil) = (op = "create") /\ op = "delete" /\ Write(k, Nil, "DELETED")
    BY <1>1, <2>2, WriteTyped
  <2>3. CASE (world[k] = Nil) = (op = "create") /\ op = "create" /\ Write(k, Stored(call[c].rep), "ADDED")
    BY <1>1, <2>3, StoredTyped, WriteTyped
  <2>4. CASE UNCHANGED <<store, stream>>
    BY <2>4 DEF TypeOK, store
  <2>5. op \in {"scale", "delete", "create"}
    BY <1>1 DEF Calls
  <2> QED BY <2>1, <2>2, <2>3, <2>4, <2>5 DEF Serve
<1> QED
  BY <1>2, <1>3, <1>4 DEF Serve, TypeOK, context, hook

LEMMA ReturnTyped ==
    ASSUME TypeOK, NEW c \in Chains, Return(c)
    PROVE  TypeOK'
<1>1. call[c].view \in Views
  BY DEF Return, TypeOK, Calls
<1>2. refresh' \in [Chains -> {Nil} \cup Lists]
  BY <1>1, AsksTyped DEF Return, TypeOK
<1>3. call' \in [Chains -> {Nil} \cup Calls] /\ loading' \in BOOLEAN
  BY DEF Return, TypeOK
<1> QED
  BY <1>2, <1>3 DEF Return, TypeOK, store, context

LEMMA StepTyped == TypeOK /\ [Next]_vars => TypeOK'
<1> SUFFICES ASSUME TypeOK, [Next]_vars PROVE TypeOK'
  OBVIOUS
<1>1. CASE Click
  BY <1>1, ClickTyped
<1>2. CASE Answered
  BY <1>2, ContextTyped, ReadTyped, ArrivesTyped, ServeTyped, ReturnTyped DEF Answered
<1>3. CASE ContextFails \/ StreamOpens \/ StreamBreaks \/ Message
  BY <1>3, ContextTyped, StreamTyped, MessageTyped
<1>4. ASSUME NEW ns \in Views, Select(ns) PROVE TypeOK'
  BY <1>4, SelectTyped
<1>5. ASSUME NEW k \in Keys, Change(k) PROVE TypeOK'
  BY <1>5, ChangeTyped
<1>6. CASE UNCHANGED vars
  BY <1>6 DEF vars, store, context, hook, chains, TypeOK
<1> QED
  BY <1>1, <1>2, <1>3, <1>4, <1>5, <1>6 DEF Next

(* Every variable of the page and of the server keeps its type, whatever   *)
(* is clicked, answered, delivered or lost (useSessions.ts).               *)
THEOREM ViewTyped == Safety => []TypeOK
<1>1. Init => TypeOK
  BY InitTyped
<1>2. TypeOK /\ [Next]_vars => TypeOK'
  BY StepTyped
<1> QED
  BY <1>1, <1>2, PTL DEF Safety

-----------------------------------------------------------------------------
(* The spinner.                                                            *)

(* A list that gets its reply stays a list. *)
LEMMA ReadStaysAsked ==
    ASSUME TypeOK
    PROVE  /\ ReadInitial => initial' # Nil /\ UNCHANGED <<loading, refresh>>
           /\ \A c \in Chains : ReadRefresh(c) =>
                 refresh'[c] # Nil /\ UNCHANGED <<loading, initial>>
                 /\ \A d \in Chains \ {c} : refresh'[d] = refresh[d]
<1>1. ASSUME ReadInitial PROVE initial' # Nil /\ UNCHANGED <<loading, refresh>>
  <2>1. initial \in Lists
    BY <1>1 DEF ReadInitial, TypeOK
  <2>2. initial' \in Lists
    BY <1>1, <2>1, ListingTyped, RepliesTyped DEF ReadInitial
  <2> QED BY <1>1, <2>2, NilIsNoList DEF ReadInitial, chains
<1>2. ASSUME NEW c \in Chains, ReadRefresh(c)
      PROVE  /\ refresh'[c] # Nil /\ UNCHANGED <<loading, initial>>
             /\ \A d \in Chains \ {c} : refresh'[d] = refresh[d]
  <2>1. refresh[c] \in Lists
    BY <1>2 DEF ReadRefresh, TypeOK
  <2>2. PICK r \in Replies : refresh' = [refresh EXCEPT ![c].reply = r]
    BY <1>2, ListingTyped DEF ReadRefresh
  <2>3. refresh'[c] = [refresh[c] EXCEPT !.reply = r]
    BY <2>2 DEF TypeOK
  <2>4. refresh'[c] \in Lists
    BY <2>1, <2>3, RepliesTyped
  <2>5. \A d \in Chains \ {c} : refresh'[d] = refresh[d]
    BY <2>2 DEF TypeOK
  <2> QED BY <1>2, <2>4, <2>5, NilIsNoList DEF ReadRefresh, hook
<1> QED
  BY <1>1, <1>2

LEMMA LoadingStep ==
    TypeOK /\ LoadingMeansAsked /\ [Next]_vars => LoadingMeansAsked'
<1> SUFFICES ASSUME TypeOK, LoadingMeansAsked, [Next]_vars, loading'
             PROVE  initial' # Nil \/ \E c \in Chains : refresh'[c] # Nil
  BY DEF LoadingMeansAsked
<1>1. CASE UNCHANGED <<loading, initial, refresh>>
  BY <1>1 DEF LoadingMeansAsked
<1>2. CASE ContextArrives \/ \E ns \in Views : Select(ns)
  <2>1. CASE ContextArrives
    BY <2>1, EffectsTyped DEF ContextArrives, TypeOK
  <2>2. ASSUME NEW ns \in Views, Select(ns)
        PROVE  initial' # Nil \/ \E c \in Chains : refresh'[c] # Nil
    <3>1. CASE ListEffect(EffectiveNs(ns, ix), ix)
      BY <3>1, EffectsTyped DEF TypeOK
    <3>2. UNCHANGED refresh
      BY <2>2 DEF Select, chains
    <3> QED BY <1>1, <2>2, <3>1, <3>2 DEF Select
  <2> QED BY <1>2, <2>1, <2>2
<1>3. CASE ReadInitial
  BY <1>3, ReadStaysAsked
<1>4. ASSUME NEW c \in Chains, ReadRefresh(c)
      PROVE  initial' # Nil \/ \E d \in Chains : refresh'[d] # Nil
  BY <1>4, ReadStaysAsked
<1>5. CASE InitialArrives \/ \E c \in Chains : RefreshArrives(c)
  BY <1>5 DEF InitialArrives, RefreshArrives, StopLoading
<1>6. ASSUME NEW c \in Chains, Return(c)
      PROVE  initial' # Nil \/ \E d \in Chains : refresh'[d] # Nil
  <2>1. call[c].view \in Views
    BY <1>6 DEF Return, TypeOK, Calls
  <2>2. CASE refresh' = [refresh EXCEPT ![c] = Ask(call[c].view)]
    BY <2>1, <2>2, AsksTyped DEF TypeOK
  <2>3. UNCHANGED initial
    BY <1>6 DEF Return
  <2> QED BY <1>1, <1>6, <2>2, <2>3 DEF Return
<1>7. ASSUME NEW c \in Chains, handleRefresh(c)
      PROVE  initial' # Nil \/ \E d \in Chains : refresh'[d] # Nil
  <2>1. Ask(effectiveNs) # Nil
    BY ViewsTyped, AsksTyped DEF TypeOK, effectiveNs
  <2>2. refresh'[c] = Ask(effectiveNs)
    BY <1>7 DEF handleRefresh, TypeOK
  <2> QED BY <2>1, <2>2
<1>8. CASE \/ ContextFails \/ StreamOpens \/ StreamBreaks \/ Message
           \/ \E k \in Keys : Change(k)
           \/ \E c \in Chains : Serve(c)
           \/ \E c \in Chains, i \in ShownRows : handleScale(c, i) \/ doDelete(c, i)
           \/ \E c \in Chains, k \in Keys : handleCreate(c, k)
  BY <1>1, <1>8 DEF ContextFails, StreamOpens, StreamBreaks, Message, Change, Serve,
        handleScale, doDelete, handleCreate, hook, chains
<1>9. CASE UNCHANGED vars
  BY <1>1, <1>9 DEF vars, hook, chains
<1> QED
  BY <1>2, <1>3, <1>4, <1>5, <1>6, <1>7, <1>8, <1>9 DEF Next, Click, Answered

(* No spinner without a list behind it, for any number of lists that are   *)
(* started, cancelled, refused and answered in any order (useSessions.ts,  *)
(* the two finally blocks).                                                *)
THEOREM LoadingHasReason == Safety => []LoadingMeansAsked
<1>1. Init => LoadingMeansAsked
  <2>1. ASSUME Init PROVE initial # Nil
    BY <2>1, ViewsTyped, AsksTyped DEF Init
  <2> QED BY <2>1 DEF LoadingMeansAsked
<1>2. TypeOK /\ LoadingMeansAsked /\ [Next]_vars => LoadingMeansAsked'
  BY LoadingStep
<1> QED
  BY <1>1, <1>2, ViewTyped, PTL DEF Safety

-----------------------------------------------------------------------------
(* What a message does to a table whose Sessions have names of their own.  *)

DistinctNames(K) == \A j, k \in K : NameOf(j) = NameOf(k) => j = k
KeysIn(table, K) == \A i \in DOMAIN table : table[i].key \in K

LEMMA MergedFacts ==
    ASSUME NEW list \in Seq(Rows), NEW e \in Events, NEW K, DistinctNames(K),
           KeysIn(list, K), e.row.key \in K, OneRowEach(list)
    PROVE  /\ Merged(list, e) \in Seq(Rows)
           /\ OneRowEach(Merged(list, e))
           /\ ToSet(Merged(list, e)) =
                 {r \in ToSet(list) : r.key # e.row.key} \cup Leaves(e)
<1> DEFINE at == Named(list, e)
           M == Merged(list, e)
           others == {r \in ToSet(list) : r.key # e.row.key}
<1>1. M \in Seq(Rows)
  BY MergedTyped
<1>2. at = {i \in DOMAIN list : list[i].key = e.row.key}
  BY DEF Named, SameName, DistinctNames, KeysIn
<1>3. CASE e.type = "DELETED"
  <2>1. M = Keep(list, DOMAIN list \ at)
    BY <1>3 DEF Merged
  <2>2. OneRowEach(M)
    BY <2>1, KeepOneEach
  <2>3. ToSet(M) = {list[i] : i \in (DOMAIN list \ at) \cap DOMAIN list}
    BY <2>1, KeepFacts
  <2>4. ToSet(M) = others
    BY <1>2, <2>3 DEF ToSet
  <2> QED BY <1>1, <1>3, <2>2, <2>4 DEF Leaves
<1>4. CASE e.type # "DELETED" /\ at = {}
  <2> DEFINE L == Len(list)
  <2>1. M = <<e.row>> \o list
    BY <1>4 DEF Merged
  <2>2. L \in Nat /\ DOMAIN list = 1 .. L /\ DOMAIN M = 1 .. L + 1 /\ M[1] = e.row
    BY <2>1
  <2>3. \A i \in 2 .. L + 1 : M[i] = list[i - 1]
    BY <2>1
  <2> HIDE DEF M, L, at
  <2>4. \A i \in 1 .. L + 1 : i = 1 \/ (i \in 2 .. L + 1 /\ i - 1 \in 1 .. L)
    BY <2>2
  <2>5. \A i \in 1 .. L : list[i].key # e.row.key /\ i + 1 \in 2 .. L + 1 /\ (i + 1) - 1 = i
    BY <1>2, <1>4, <2>2
  <2>6. OneRowEach(M)
    <3> SUFFICES ASSUME NEW i \in 1 .. L + 1, NEW j \in 1 .. L + 1, M[i].key = M[j].key
                 PROVE  i = j
      BY <2>2 DEF OneRowEach
    <3>1. CASE i = 1 \/ j = 1
      BY <2>2, <2>3, <2>4, <2>5, <3>1
    <3>2. CASE i # 1 /\ j # 1
      <4>1. M[i] = list[i - 1] /\ i - 1 \in 1 .. L
        BY <2>3, <2>4, <3>2
      <4>2. M[j] = list[j - 1] /\ j - 1 \in 1 .. L
        BY <2>3, <2>4, <3>2
      <4>3. i - 1 = j - 1
        BY <2>2, <4>1, <4>2 DEF OneRowEach
      <4> QED BY <2>2, <4>3
    <3> QED BY <3>1, <3>2
  <2>7. ToSet(M) = others \cup {e.row}
    <3>1. ASSUME NEW i \in DOMAIN M PROVE M[i] \in others \cup {e.row}
      <4>1. CASE i = 1
        BY <2>2, <4>1
      <4>2. CASE i \in 2 .. L + 1 /\ i - 1 \in 1 .. L
        <5>1. M[i] = list[i - 1] /\ list[i - 1].key # e.row.key
          BY <2>3, <2>5, <4>2
        <5>2. list[i - 1] \in ToSet(list)
          BY <2>2, <4>2 DEF ToSet
        <5> QED BY <5>1, <5>2
      <4> QED BY <2>2, <2>4, <4>1, <4>2
    <3>2. ASSUME NEW r \in others PROVE \E i \in DOMAIN M : M[i] = r
      <4>1. PICK i \in 1 .. L : list[i] = r
        BY <2>2 DEF ToSet
      <4>2. i + 1 \in DOMAIN M /\ M[i + 1] = r
        BY <2>2, <2>3, <2>5, <4>1
      <4> QED BY <4>2
    <3>3. 1 \in DOMAIN M
      BY <2>2
    <3> HIDE DEF others
    <3> QED BY <2>2, <3>1, <3>2, <3>3 DEF ToSet
  <2> QED BY <1>1, <1>4, <2>6, <2>7 DEF Leaves, M
<1>5. CASE e.type # "DELETED" /\ at # {}
  <2>1. PICK n \in DOMAIN list : at = {n} /\ list[n].key = e.row.key
    BY <1>2, <1>5 DEF OneRowEach
  <2>2. (CHOOSE i \in at : \A j \in at : i <= j) = n
    <3>1. n \in Nat
      BY <2>1
    <3> HIDE DEF at
    <3> QED BY <2>1, <3>1
  <2>3. M = [list EXCEPT ![n] = e.row]
    BY <1>5, <2>2 DEF Merged
  <2>4. DOMAIN M = DOMAIN list /\ M[n] = e.row
        /\ \A i \in DOMAIN list \ {n} : M[i] = list[i] /\ list[i].key # e.row.key
    BY <1>2, <2>1, <2>3
  <2> HIDE DEF M, at
  <2>5. OneRowEach(M)
    BY <2>1, <2>4 DEF OneRowEach
  <2>6. ToSet(M) = others \cup {e.row}
    <3>1. ASSUME NEW i \in DOMAIN M PROVE M[i] \in others \cup {e.row}
      BY <2>4 DEF ToSet
    <3>2. ASSUME NEW r \in others PROVE \E i \in DOMAIN M : M[i] = r
      <4>1. PICK i \in DOMAIN list : list[i] = r
        BY DEF ToSet
      <4> QED BY <2>1, <2>4, <4>1
    <3> HIDE DEF others
    <3> QED BY <2>1, <2>4, <3>1, <3>2 DEF ToSet
  <2> QED BY <1>1, <1>5, <2>5, <2>6 DEF Leaves, M
<1> QED
  BY <1>3, <1>4, <1>5

-----------------------------------------------------------------------------
(* What it means that a table is what the server shows.                    *)

Synced(table) ==
    /\ OneRowEach(table) /\ KeysIn(table, Shown)
    /\ \A k \in Shown : Told(table, k) = Has[k]

LEMMA SyncedIsShown ==
    TypeOK => \A table \in Seq(Rows) :
        Synced(table) <=> IsInjective(table) /\ ToSet(table) = ToSet(Visible(effectiveNs))
<1> SUFFICES ASSUME TypeOK, NEW table \in Seq(Rows)
             PROVE  Synced(table) <=> IsInjective(table) /\ ToSet(table) = ToSet(Visible(effectiveNs))
  OBVIOUS
<1> DEFINE in == {j \in Keys : world[j] # Nil /\ Shows(effectiveNs, j)}
<1>1. ToSet(Visible(effectiveNs)) = {RowOf(k) : k \in in}
  BY VisibleFacts
<1>2. \A k : RowOf(k).key = k
  BY DEF RowOf
<1>3. ASSUME Synced(table) PROVE IsInjective(table) /\ ToSet(table) = {RowOf(k) : k \in in}
  <2>1. IsInjective(table)
    BY <1>3 DEF Synced, OneRowEach, IsInjective
  <2>2. ASSUME NEW r \in ToSet(table) PROVE \E k \in in : r = RowOf(k)
    <3>1. r.key \in Shown /\ r \in Told(table, r.key)
      BY <1>3 DEF Synced, KeysIn, ToSet, Told
    <3>2. r \in Has[r.key]
      BY <1>3, <3>1 DEF Synced
    <3> QED BY <3>1, <3>2 DEF Has, Shown
  <2>3. ASSUME NEW k \in in PROVE RowOf(k) \in ToSet(table)
    <3>1. RowOf(k) \in Told(table, k)
      BY <1>3 DEF Synced, Has, Shown
    <3> QED BY <3>1 DEF Told
  <2> QED BY <2>1, <2>2, <2>3
<1>4. ASSUME IsInjective(table), ToSet(table) = {RowOf(k) : k \in in} PROVE Synced(table)
  <2>1. \A i \in DOMAIN table : table[i].key \in in /\ table[i] = RowOf(table[i].key)
    BY <1>2, <1>4 DEF ToSet
  <2>2. OneRowEach(table)
    BY <1>4, <2>1 DEF OneRowEach, IsInjective
  <2>3. KeysIn(table, Shown)
    BY <2>1 DEF KeysIn, Shown
  <2>4. ASSUME NEW k \in Shown PROVE Told(table, k) = Has[k]
    <3>1. \A r \in ToSet(table) : r.key = k => k \in in /\ r = RowOf(k)
      BY <1>2, <1>4
    <3>2. k \in in => RowOf(k) \in ToSet(table)
      BY <1>4
    <3>3. k \in in <=> world[k] # Nil
      BY DEF Shown
    <3>4. Has[k] = IF world[k] = Nil THEN {} ELSE {RowOf(k)}
      BY DEF Has, Shown
    <3> QED BY <1>2, <3>1, <3>2, <3>3, <3>4 DEF Told
  <2> QED BY <2>2, <2>3, <2>4 DEF Synced
<1> QED
  BY <1>1, <1>3, <1>4

LEMMA InSyncIs ==
    TypeOK => (InSync <=> stream.state = "open" /\ Synced(Replayed(rows, stream.queue)))
<1> SUFFICES ASSUME TypeOK
             PROVE  InSync <=> stream.state = "open" /\ Synced(Replayed(rows, stream.queue))
  OBVIOUS
<1>1. Replayed(rows, stream.queue) \in Seq(Rows)
  BY ReplayedTyped DEF TypeOK, Streams
<1> QED
  BY <1>1, SyncedIsShown DEF InSync

LEMMA InSyncIsNext ==
    (TypeOK => (InSync <=> stream.state = "open" /\ Synced(Replayed(rows, stream.queue))))'
  BY InSyncIs, PTL

-----------------------------------------------------------------------------
(* A list that is not overtaken, and then the queue.                       *)

LEMMA AnswersTyped ==
    ASSUME TypeOK, NEW l \in Answers
    PROVE  /\ l \in Lists /\ IsRead(l) /\ l.view \in Views
           /\ l.reply \in Replies /\ l.reply.rows \in Seq(Rows) /\ l.reply.rev \in Nat
           /\ \A r \in ToSet(l.reply.rows) : r \in Rows
<1>1. l \in Lists /\ IsRead(l)
  BY DEF Answers, IsRead, TypeOK
<1>2. l.reply \in Replies /\ l.view \in Views
  BY <1>1 DEF Lists, IsRead
<1>3. l.reply.rows \in Seq(Rows) /\ l.reply.rev \in Nat
  BY <1>2 DEF Replies
<1>4. \A r \in ToSet(l.reply.rows) : r \in Rows
  BY <1>3 DEF ToSet
<1> QED
  BY <1>1, <1>2, <1>3, <1>4

LEMMA ListThenQueue ==
    ASSUME ViewInv, stream.state = "open", NamesTellApart,
           NEW l \in Answers, ~ Overtaken(l)
    PROVE  Synced(Replayed(l.reply.rows, stream.queue))
<1> DEFINE q == stream.queue
           L == Len(q)
           table == l.reply.rows
           Settled(k, n) == \A m \in 1 .. L : m > n => q[m].row.key # k
           C(t, n) == /\ OneRowEach(t) /\ KeysIn(t, Shown)
                      /\ \A k \in Shown : Settled(k, n) => Told(t, k) = Has[k]
<1>1. TypeOK /\ QueueEndsTrue /\ ListIsSound(l) /\ MissedIsOnItsWay(l)
  BY DEF ViewInv
<1>2. table \in Seq(Rows) /\ l.view = effectiveNs
  BY <1>1, AnswersTyped DEF Overtaken
<1>3. q \in Seq(Events)
  BY <1>1 DEF TypeOK, Streams
<1>4. L \in Nat /\ DOMAIN q = 1 .. L /\ \A n \in 1 .. L : q[n] \in Events
  BY <1>3
<1>5. PICK after : IsReplay(after, table, q)
  BY <1>2, <1>3, ReplayExists
<1>6. Replayed(table, q) = after[L]
  BY <1>2, <1>3, <1>5, ReplayedIs
<1>7. DistinctNames(Shown)
  BY DEF NamesTellApart, DistinctNames, Shown
<1> HIDE DEF q, L, table
<1>8. after \in [0 .. L -> Seq(Rows)] /\ after[0] = table
      /\ \A n \in 1 .. L : after[n] = Merged(after[n - 1], q[n])
  BY <1>5 DEF IsReplay, L
<1>9. C(table, 0)
  <2>1. OneRowEach(table)
    BY <1>1 DEF ListIsSound, table
  <2>2. KeysIn(table, Shown)
    <3>1. ASSUME NEW i \in DOMAIN table PROVE table[i] \in ToSet(table) /\ table[i].key \in Keys
      <4>1. table[i] \in Rows /\ table[i] \in ToSet(table)
        BY <1>2 DEF ToSet
      <4> QED BY <4>1 DEF Rows
    <3> QED BY <1>1, <1>2, <3>1 DEF ListIsSound, KeysIn, Shown, table
  <2>3. ASSUME NEW k \in Shown, Settled(k, 0) PROVE Told(table, k) = Has[k]
    <3>1. \A m \in 1 .. L : q[m].row.key # k
      BY <1>4, <2>3
    <3>2. NoneNewer(l, k)
      BY <1>4, <3>1 DEF NoneNewer, q
    <3> QED BY <1>1, <3>2 DEF MissedIsOnItsWay, table
  <2> QED BY <2>1, <2>2, <2>3
<1>10. ASSUME NEW n \in 1 .. L, C(after[n - 1], n - 1) PROVE C(after[n], n)
  <2> DEFINE e == q[n]
             t == after[n - 1]
             M == Merged(t, e)
  <2>1. t \in Seq(Rows) /\ after[n] = M /\ e \in Events
    BY <1>4, <1>8
  <2>2. e.row.key \in Shown /\ (IsLast(n) => Has[e.row.key] = Leaves(e))
    BY <1>1, <1>4 DEF QueueEndsTrue, TellsTruth, q
  <2>3. /\ OneRowEach(M)
        /\ ToSet(M) = {r \in ToSet(t) : r.key # e.row.key} \cup Leaves(e)
    <3> HIDE DEF e, t
    <3> QED BY <1>7, <1>10, <2>1, <2>2, MergedFacts DEF t
  <2>4. \A r \in Leaves(e) : r.key = e.row.key
    BY DEF Leaves
  <2>5. KeysIn(M, Shown)
    <3>1. ASSUME NEW r \in ToSet(M) PROVE r.key \in Shown
      <4>1. ASSUME r \in ToSet(t) PROVE r.key \in Shown
        BY <1>10, <4>1 DEF KeysIn, ToSet
      <4> QED BY <2>2, <2>3, <2>4, <4>1
    <3> QED BY <3>1 DEF KeysIn, ToSet
  <2>6. ASSUME NEW k \in Shown, Settled(k, n) PROVE Told(M, k) = Has[k]
    <3>1. CASE k = e.row.key
      <4>1. IsLast(n)
        BY <1>4, <2>6, <3>1 DEF IsLast, q
      <4>2. Told(M, k) = Leaves(e)
        BY <2>3, <2>4, <3>1 DEF Told
      <4> QED BY <2>2, <3>1, <4>1, <4>2
    <3>2. CASE k # e.row.key
      <4>1. Settled(k, n - 1)
        BY <1>4, <2>6, <3>2
      <4>2. Told(M, k) = Told(t, k)
        BY <2>3, <2>4, <3>2 DEF Told
      <4> QED BY <1>10, <4>1, <4>2
    <3> QED BY <3>1, <3>2
  <2> HIDE DEF M, e
  <2> QED BY <2>1, <2>3, <2>5, <2>6
<1>11. C(after[L], L)
  <2> DEFINE T == {n \in 0 .. L : C(after[n], n)}
  <2> HIDE DEF C
  <2>1. 0 \in T
    BY <1>4, <1>8, <1>9
  <2>2. ASSUME NEW n \in 1 .. L, n - 1 \in T PROVE n \in T
    BY <1>4, <1>10, <2>2
  <2>3. 0 .. L \subseteq T
    <3> HIDE DEF T
    <3> QED BY <1>4, <2>1, <2>2, UpTo
  <2> QED BY <1>4, <2>3
<1>12. \A k \in Shown : Settled(k, L)
  BY <1>4
<1> QED
  BY <1>6, <1>11, <1>12 DEF Synced, table, q

-----------------------------------------------------------------------------
(* The queue ends with the truth.                                          *)

LEMMA QueueKept ==
    ASSUME QueueEndsTrue, UNCHANGED <<world, policy, stream>>, effectiveNs' = effectiveNs
    PROVE  QueueEndsTrue'
  BY DEF QueueEndsTrue, IsLast, TellsTruth, Has, RowOf, Leaves, Shown, Shows

(* What a write leaves of every Session, and the event it causes. *)
LEMMA WriteFacts ==
    ASSUME TypeOK, NEW k \in Keys, NEW object \in {Nil} \cup Objects,
           NEW type \in {"ADDED", "MODIFIED", "DELETED"},
           object = Nil <=> type = "DELETED", object = Nil \/ object.rev = rev + 1,
           object = Nil => world[k] # Nil,
           Write(k, object, type), UNCHANGED context
    PROVE  /\ Shown' = Shown /\ effectiveNs' = effectiveNs /\ rev' = rev + 1
           /\ \A j \in Keys \ {k} : Has'[j] = Has[j]
           /\ \/ stream' = stream /\ (stream.state # "open" \/ k \notin Shown)
              \/ /\ stream.state = "open" /\ k \in Shown
                 /\ \E e \in Events :
                       /\ stream' = [stream EXCEPT !.queue = Append(@, e)]
                       /\ e.row.key = k /\ e.row.rev = rev + 1
                       /\ Has'[k] = Leaves(e)
<1> DEFINE row == [key |-> k, rev |-> rev + 1,
                   rep |-> IF object = Nil THEN world[k].rep ELSE object.rep]
           e == [type |-> type, row |-> row]
<1>1. effectiveNs' = effectiveNs /\ policy' = policy
  BY DEF effectiveNs, context
<1>2. Shown' = Shown
  BY <1>1 DEF Shown, Shows
<1>3. rev' = rev + 1 /\ rev \in Nat /\ world' = [world EXCEPT ![k] = object]
  BY DEF Write, TypeOK
<1>4. \A j \in Keys \ {k} : Has'[j] = Has[j]
  BY <1>3 DEF Has, RowOf, TypeOK
<1>5. world'[k] = object
  BY <1>3 DEF TypeOK
<1>6. e \in Events
  BY <1>3 DEF Events, Rows, Objects, TypeOK
<1>7. Has'[k] = Leaves(e)
  BY <1>5, NilIsNoList DEF Has, RowOf, Leaves
<1>8. stream' = IF stream.state = "open" /\ Shows(effectiveNs, k)
                THEN [stream EXCEPT !.queue = Append(@, e)] ELSE stream
  BY DEF Write
<1>9. k \in Shown <=> Shows(effectiveNs, k)
  BY DEF Shown
<1>10. e.row.key = k /\ e.row.rev = rev + 1
  OBVIOUS
<1> HIDE DEF e
<1> QED
  BY <1>1, <1>2, <1>3, <1>4, <1>6, <1>7, <1>8, <1>9, <1>10

LEMMA WriteKeepsQueue ==
    ASSUME TypeOK, QueueEndsTrue, NEW k \in Keys, NEW object \in {Nil} \cup Objects,
           NEW type \in {"ADDED", "MODIFIED", "DELETED"},
           object = Nil <=> type = "DELETED", object = Nil \/ object.rev = rev + 1,
           object = Nil => world[k] # Nil,
           Write(k, object, type), UNCHANGED context
    PROVE  QueueEndsTrue'
<1> DEFINE q == stream.queue
<1>1. q \in Seq(Events) /\ stream \in Streams
  BY DEF TypeOK, Streams
<1>2. /\ Shown' = Shown
      /\ \A j \in Keys \ {k} : Has'[j] = Has[j]
  BY WriteFacts
<1>3. \A i \in DOMAIN q : q[i].row.key \in Keys
  <2> TAKE i \in DOMAIN q
  <2>1. q[i] \in Events
    BY <1>1
  <2> QED BY <2>1 DEF Events, Rows
<1>4. CASE stream' = stream /\ (stream.state # "open" \/ k \notin Shown)
  BY <1>2, <1>3, <1>4 DEF QueueEndsTrue, IsLast, TellsTruth, Leaves
<1>5. ASSUME NEW e \in Events, stream.state = "open", k \in Shown,
             stream' = [stream EXCEPT !.queue = Append(@, e)],
             e.row.key = k, Has'[k] = Leaves(e)
      PROVE  QueueEndsTrue'
  <2> DEFINE L == Len(q)
             more == Append(q, e)
  <2>1. stream'.queue = more /\ stream'.state = "open"
    BY <1>1, <1>5 DEF Streams
  <2>2. L \in Nat /\ DOMAIN q = 1 .. L /\ DOMAIN more = 1 .. L + 1 /\ more[L + 1] = e
        /\ \A i \in 1 .. L : more[i] = q[i]
    BY <1>1, <1>5
  <2> HIDE DEF more, L, q
  <2>0. QueueEndsTrue' <=>
           \A i \in DOMAIN more :
              /\ more[i].row.key \in Shown'
              /\ (\A j \in DOMAIN more : j > i => more[j].row.key # more[i].row.key)
                    => Has'[more[i].row.key] = Leaves(more[i])
    BY <2>1 DEF QueueEndsTrue, IsLast, TellsTruth, Leaves
  <2>3. SUFFICES ASSUME NEW i \in 1 .. L + 1
                 PROVE  /\ more[i].row.key \in Shown
                        /\ (\A j \in 1 .. L + 1 : j > i => more[j].row.key # more[i].row.key)
                              => Has'[more[i].row.key] = Leaves(more[i])
    BY <1>2, <2>0, <2>2
  <2>4. CASE i = L + 1
    BY <1>5, <2>2, <2>4
  <2>5. CASE i \in 1 .. L
    <3>1. more[i] = q[i] /\ q[i].row.key \in Shown /\ q[i].row.key \in Keys
      BY <1>3, <1>5, <2>2, <2>5 DEF QueueEndsTrue, q
    <3>2. ASSUME \A j \in 1 .. L + 1 : j > i => more[j].row.key # more[i].row.key
          PROVE  Has'[more[i].row.key] = Leaves(more[i])
      <4>1. more[i].row.key # k
        BY <1>5, <2>2, <2>5, <3>2
      <4>2. IsLast(i)
        BY <2>2, <2>5, <3>1, <3>2 DEF IsLast, q
      <4>3. Has[q[i].row.key] = Leaves(q[i])
        BY <1>5, <2>2, <2>5, <4>2 DEF QueueEndsTrue, TellsTruth, q
      <4> QED BY <1>2, <3>1, <4>1, <4>3
    <3> QED BY <3>1, <3>2
  <2> QED BY <2>2, <2>4, <2>5
<1> QED
  BY <1>4, <1>5, WriteFacts

LEMMA OpensTrue ==
    ASSUME TypeOK, StreamOpens
    PROVE  QueueEndsTrue'
<1> DEFINE shown == Visible(effectiveNs)
<1>1. effectiveNs' = effectiveNs /\ UNCHANGED <<policy, world, rev>>
  BY DEF StreamOpens, store, context, effectiveNs
<1>2. Shown' = Shown /\ Has' = Has
  BY <1>1 DEF Shown, Shows, Has, RowOf
<1>3. CASE stream'.state # "open"
  BY <1>3 DEF QueueEndsTrue
<1>4. CASE stream' = [ state |-> "open", seen |-> rev,
                       queue |-> [i \in DOMAIN shown |-> [type |-> "ADDED", row |-> shown[i]]] ]
  <2>1. /\ shown \in Seq(Rows)
        /\ ToSet(shown) = {RowOf(k) : k \in {j \in Keys : world[j] # Nil /\ Shows(effectiveNs, j)}}
    BY VisibleFacts
  <2>2. ASSUME NEW i \in DOMAIN shown
        PROVE  shown[i].key \in Shown /\ Has[shown[i].key] = {shown[i]}
    <3>1. shown[i] \in ToSet(shown)
      BY DEF ToSet
    <3>2. PICK k \in Keys : world[k] # Nil /\ Shows(effectiveNs, k) /\ shown[i] = RowOf(k)
      BY <2>1, <3>1
    <3>3. shown[i].key = k
      BY <3>2 DEF RowOf
    <3> QED BY <3>2, <3>3 DEF Shown, Has
  <2> HIDE DEF shown
  <2>3. DOMAIN stream'.queue = DOMAIN shown
        /\ \A i \in DOMAIN shown : stream'.queue[i] = [type |-> "ADDED", row |-> shown[i]]
    BY <1>4
  <2>4. ASSUME NEW i \in DOMAIN stream'.queue
        PROVE  /\ stream'.queue[i].row.key \in Shown'
               /\ Has'[stream'.queue[i].row.key] = Leaves(stream'.queue[i])
    <3>1. i \in DOMAIN shown /\ stream'.queue[i] = [type |-> "ADDED", row |-> shown[i]]
      BY <2>3
    <3>2. Leaves(stream'.queue[i]) = {shown[i]}
      BY <3>1 DEF Leaves
    <3> QED BY <1>2, <2>2, <3>1, <3>2
  <2> QED BY <2>4 DEF QueueEndsTrue, TellsTruth, Leaves
<1> QED
  BY <1>3, <1>4 DEF StreamOpens, Connecting

LEMMA MessageKeepsQueue ==
    ASSUME TypeOK, QueueEndsTrue, Message
    PROVE  QueueEndsTrue'
<1> DEFINE q == stream.queue
           L == Len(q)
           rest == Tail(q)
<1>1. q \in Seq(Events) /\ q # <<>> /\ stream \in Streams
  BY DEF TypeOK, Streams, Message
<1>2. L \in Nat /\ DOMAIN q = 1 .. L /\ DOMAIN rest = 1 .. L - 1
      /\ \A i \in 1 .. L - 1 : rest[i] = q[i + 1]
  BY <1>1
<1>3. effectiveNs' = effectiveNs /\ UNCHANGED <<policy, world>>
  BY DEF Message, store, context, effectiveNs
<1>4. Shown' = Shown /\ Has' = Has
  BY <1>3 DEF Shown, Shows, Has, RowOf
<1>5. stream'.queue = rest /\ stream'.state = stream.state
  BY <1>1 DEF Message, Streams
<1> HIDE DEF q, L, rest
<1>6. ASSUME stream.state = "open", NEW i \in 1 .. L - 1
      PROVE  /\ rest[i].row.key \in Shown
             /\ (\A j \in 1 .. L - 1 : j > i => rest[j].row.key # rest[i].row.key)
                   => Has[rest[i].row.key] = Leaves(rest[i])
  <2>1. i + 1 \in 1 .. L /\ rest[i] = q[i + 1]
    BY <1>2
  <2>2. q[i + 1].row.key \in Shown /\ (IsLast(i + 1) => Has[q[i + 1].row.key] = Leaves(q[i + 1]))
    BY <1>2, <1>6, <2>1 DEF QueueEndsTrue, TellsTruth, q
  <2>3. ASSUME \A j \in 1 .. L - 1 : j > i => rest[j].row.key # rest[i].row.key
        PROVE  IsLast(i + 1)
    <3> SUFFICES ASSUME NEW j \in 1 .. L, j > i + 1
                 PROVE  q[j].row.key # q[i + 1].row.key
      BY <1>2 DEF IsLast, q
    <3>1. j - 1 \in 1 .. L - 1 /\ j - 1 > i /\ (j - 1) + 1 = j
      BY <1>2
    <3>2. rest[j - 1] = q[j]
      BY <1>2, <3>1
    <3>3. rest[j - 1].row.key # rest[i].row.key
      BY <2>3, <3>1
    <3> QED BY <2>1, <3>2, <3>3
  <2> QED BY <2>1, <2>2, <2>3
<1> QED
  BY <1>2, <1>4, <1>5, <1>6 DEF QueueEndsTrue, IsLast, TellsTruth, Leaves

(* A new view closes the stream; a new context that shows the same view    *)
(* leaves it alone.                                                        *)
LEMMA WatchFacts ==
    ASSUME TypeOK, ContextArrives \/ \E ns \in Views : Select(ns)
    PROVE  /\ UNCHANGED <<policy, world, rev, rows, refresh, call>>
           /\ \/ UNCHANGED stream /\ effectiveNs' = effectiveNs
              \/ stream' = Connecting
<1>1. CASE ContextArrives
  <2>1. effectiveNs' = EffectiveNs(namespace, UserAnswer(policy, Namespaces))
    BY <1>1 DEF ContextArrives, effectiveNs
  <2> QED BY <1>1, <2>1 DEF ContextArrives, WatchEffect, store, chains
<1>2. ASSUME NEW ns \in Views, Select(ns)
      PROVE  /\ UNCHANGED <<policy, world, rev, rows, refresh, call>>
             /\ \/ UNCHANGED stream /\ effectiveNs' = effectiveNs
                \/ stream' = Connecting
  <2>1. effectiveNs' = EffectiveNs(ns, ix)
    BY <1>2 DEF Select, effectiveNs
  <2> QED BY <1>2, <2>1 DEF Select, WatchEffect, store, chains
<1> QED
  BY <1>1, <1>2

(* The actions that leave server, view and stream alone. *)
StoreAndStreamStay ==
    UNCHANGED <<policy, world, rev, stream>> /\ effectiveNs' = effectiveNs

LEMMA ClickStays == Click => StoreAndStreamStay /\ UNCHANGED <<rows, initial>>
  BY DEF Click, handleScale, doDelete, handleCreate, handleRefresh, StoreAndStreamStay,
         store, context, hook, effectiveNs

LEMMA OthersStay ==
    /\ ReadInitial \/ ContextFails => StoreAndStreamStay /\ UNCHANGED <<rows, refresh>>
    /\ InitialArrives => StoreAndStreamStay /\ UNCHANGED refresh
    /\ \A c \in Chains :
          /\ ReadRefresh(c) \/ Return(c) => StoreAndStreamStay /\ UNCHANGED <<rows, initial>>
          /\ RefreshArrives(c) => StoreAndStreamStay /\ UNCHANGED initial
<1>1. ReadInitial \/ ContextFails => StoreAndStreamStay /\ UNCHANGED <<rows, refresh>>
  <2>1. ReadInitial => StoreAndStreamStay /\ UNCHANGED <<rows, refresh>>
    BY DEF ReadInitial, StoreAndStreamStay, store, context, chains, effectiveNs
  <2>2. ContextFails => StoreAndStreamStay /\ UNCHANGED <<rows, refresh>>
    BY DEF ContextFails, StoreAndStreamStay, store, hook, chains, effectiveNs
  <2> QED BY <2>1, <2>2
<1>2. InitialArrives => StoreAndStreamStay /\ UNCHANGED refresh
  BY DEF InitialArrives, StoreAndStreamStay, store, context, chains, effectiveNs
<1>3. ASSUME NEW c \in Chains
      PROVE  /\ ReadRefresh(c) \/ Return(c) => StoreAndStreamStay /\ UNCHANGED <<rows, initial>>
             /\ RefreshArrives(c) => StoreAndStreamStay /\ UNCHANGED initial
  <2>1. ReadRefresh(c) => StoreAndStreamStay /\ UNCHANGED <<rows, initial>>
    BY DEF ReadRefresh, StoreAndStreamStay, store, context, hook, effectiveNs
  <2>2. Return(c) => StoreAndStreamStay /\ UNCHANGED <<rows, initial>>
    BY DEF Return, StoreAndStreamStay, store, context, effectiveNs
  <2>3. RefreshArrives(c) => StoreAndStreamStay /\ UNCHANGED initial
    BY DEF RefreshArrives, StoreAndStreamStay, store, context, effectiveNs
  <2> QED BY <2>1, <2>2, <2>3
<1> QED
  BY <1>1, <1>2, <1>3

(* What Change and Serve write. *)
Writes(k, object, type) ==
    /\ object = Nil <=> type = "DELETED"
    /\ object = Nil \/ object.rev = rev + 1
    /\ object = Nil => world[k] # Nil
    /\ Write(k, object, type)

LEMMA Writers ==
    ASSUME TypeOK, (\E k \in Keys : Change(k)) \/ (\E c \in Chains : Serve(c))
    PROVE  /\ UNCHANGED context /\ UNCHANGED <<rows, initial, refresh>>
           /\ \/ StoreAndStreamStay
              \/ \E k \in Keys, object \in {Nil} \cup Objects, type \in {"ADDED", "MODIFIED", "DELETED"} :
                    Writes(k, object, type)
<1> DEFINE Some == \E k \in Keys, object \in {Nil} \cup Objects, type \in {"ADDED", "MODIFIED", "DELETED"} :
                      Writes(k, object, type)
<1>1. ASSUME NEW k \in Keys, NEW n \in Counts, NEW type \in {"ADDED", "MODIFIED"},
             Write(k, Stored(n), type)
      PROVE  Some
  <2>1. Stored(n) \in Objects /\ Stored(n) # Nil
    BY StoredTyped
  <2>2. Stored(n).rev = rev + 1
    BY DEF Stored
  <2>3. Writes(k, Stored(n), type)
    BY <1>1, <2>1, <2>2 DEF Writes
  <2> QED BY <2>1, <2>3
<1>2. ASSUME NEW k \in Keys, world[k] # Nil, Write(k, Nil, "DELETED") PROVE Some
  <2>1. Writes(k, Nil, "DELETED")
    BY <1>2 DEF Writes
  <2> QED BY <2>1
<1> HIDE DEF Some
<1>3. ASSUME NEW k \in Keys, Change(k)
      PROVE  UNCHANGED context /\ UNCHANGED <<rows, initial, refresh>> /\ Some
  <2>1. 1 \in Counts
    BY BoundsAssumption DEF Counts
  <2>2. Some
    BY <1>1, <1>2, <1>3, <2>1 DEF Change
  <2> QED BY <1>3, <2>2 DEF Change, hook, chains
<1>4. ASSUME NEW c \in Chains, Serve(c)
      PROVE  UNCHANGED context /\ UNCHANGED <<rows, initial, refresh>> /\ (StoreAndStreamStay \/ Some)
  <2> DEFINE k == call[c].key
             op == call[c].op
  <2>1. k \in Keys /\ call[c].rep \in Counts /\ op \in {"scale", "delete", "create"}
    <3>1. call[c] \in Calls
      BY <1>4 DEF Serve, TypeOK
    <3> QED BY <3>1 DEF Calls
  <2>2. CASE UNCHANGED <<store, stream>>
    BY <1>4, <2>2 DEF Serve, StoreAndStreamStay, store, context, hook, effectiveNs
  <2>3. CASE op \in {"scale", "create"} /\ \E type \in {"ADDED", "MODIFIED"} : Write(k, Stored(call[c].rep), type)
    BY <1>1, <1>4, <2>1, <2>3 DEF Serve, hook
  <2>4. CASE op = "delete" /\ (world[k] = Nil) = (op = "create") /\ Write(k, Nil, "DELETED")
    BY <1>2, <1>4, <2>1, <2>4 DEF Serve, hook
  <2> QED BY <1>4, <2>1, <2>2, <2>3, <2>4 DEF Serve
<1> QED
  BY <1>3, <1>4 DEF Some

LEMMA QueueStep ==
    TypeOK /\ QueueEndsTrue /\ [Next]_vars => QueueEndsTrue'
<1> SUFFICES ASSUME TypeOK, QueueEndsTrue, [Next]_vars PROVE QueueEndsTrue'
  OBVIOUS
<1>1. CASE StoreAndStreamStay
  BY <1>1, QueueKept DEF StoreAndStreamStay
<1>2. CASE ContextArrives \/ \E ns \in Views : Select(ns)
  <2>1. CASE UNCHANGED stream /\ effectiveNs' = effectiveNs
    BY <1>2, <2>1, WatchFacts, QueueKept
  <2>2. CASE stream' = Connecting
    BY <2>2 DEF Connecting, QueueEndsTrue
  <2> QED BY <1>2, <2>1, <2>2, WatchFacts
<1>3. CASE (\E k \in Keys : Change(k)) \/ (\E c \in Chains : Serve(c))
  <2>1. ASSUME NEW k \in Keys, NEW object \in {Nil} \cup Objects,
               NEW type \in {"ADDED", "MODIFIED", "DELETED"}, Writes(k, object, type)
        PROVE  QueueEndsTrue'
    BY <1>3, <2>1, Writers, WriteKeepsQueue DEF Writes
  <2> QED BY <1>1, <1>3, <2>1, Writers
<1>4. CASE StreamOpens
  BY <1>4, OpensTrue
<1>5. CASE StreamBreaks
  BY <1>5 DEF StreamBreaks, Connecting, QueueEndsTrue
<1>6. CASE Message
  BY <1>6, MessageKeepsQueue
<1>7. CASE UNCHANGED vars
  BY <1>1, <1>7 DEF vars, StoreAndStreamStay, store, context, effectiveNs
<1> QED
  BY <1>1, <1>2, <1>3, <1>4, <1>5, <1>6, <1>7, ClickStays, OthersStay DEF Next, Answered

-----------------------------------------------------------------------------
(* The lists under way.                                                    *)

(* Server, view and stream as they were: a list is as good as it was. *)
LEMMA ListKept ==
    ASSUME StoreAndStreamStay, NEW l, ListIsSound(l), MissedIsOnItsWay(l)
    PROVE  ListIsSound(l)' /\ MissedIsOnItsWay(l)'
<1>1. Shown' = Shown /\ Has' = Has
  BY DEF StoreAndStreamStay, Shown, Shows, Has, RowOf
<1>2. ListIsSound(l)'
  BY <1>1 DEF StoreAndStreamStay, ListIsSound, OneRowEach, Shows, Told
<1>3. MissedIsOnItsWay(l)'
  BY <1>1 DEF StoreAndStreamStay, MissedIsOnItsWay, Overtaken, NoneNewer, Told
<1> QED
  BY <1>2, <1>3

(* A list that is read now misses nothing. *)
LEMMA ReadIsCurrent ==
    ASSUME TypeOK, NEW l, l.reply = Listing(l.view), l.reply.ok
    PROVE  ListIsSound(l) /\ MissedIsOnItsWay(l)
<1>1. l.reply = [ok |-> TRUE, rows |-> Visible(l.view), rev |-> rev]
  BY DEF Listing, Failed
<1>2. /\ ToSet(Visible(l.view)) = {RowOf(k) : k \in {j \in Keys : world[j] # Nil /\ Shows(l.view, j)}}
      /\ OneRowEach(Visible(l.view))
  BY VisibleFacts
<1>3. \A k : RowOf(k).key = k
  BY DEF RowOf
<1>4. ASSUME NEW k \in Keys, Shows(l.view, k) PROVE Told(l.reply.rows, k) = Has[k]
  <2>1. \A r \in ToSet(l.reply.rows) : r.key = k => world[k] # Nil /\ r = RowOf(k)
    BY <1>1, <1>2, <1>3
  <2>2. world[k] # Nil => RowOf(k) \in ToSet(l.reply.rows)
    BY <1>1, <1>2, <1>4
  <2>3. Has[k] = IF world[k] = Nil THEN {} ELSE {RowOf(k)}
    BY DEF Has
  <2> QED BY <1>3, <2>1, <2>2, <2>3 DEF Told
<1>5. rev \in Nat
  BY DEF TypeOK
<1>6. ListIsSound(l)
  BY <1>1, <1>2, <1>3, <1>4, <1>5 DEF ListIsSound
<1>7. MissedIsOnItsWay(l)
  BY <1>4 DEF MissedIsOnItsWay, Overtaken, Shown
<1> QED
  BY <1>6, <1>7

(* A write leaves its event behind the lists that were read before. *)
LEMMA WriteKeepsList ==
    ASSUME TypeOK, NEW l \in Answers, ListIsSound(l), MissedIsOnItsWay(l),
           NEW k \in Keys, NEW object \in {Nil} \cup Objects,
           NEW type \in {"ADDED", "MODIFIED", "DELETED"},
           Writes(k, object, type), UNCHANGED context
    PROVE  ListIsSound(l)' /\ MissedIsOnItsWay(l)'
<1> DEFINE q == stream.queue
<1>1. /\ Shown' = Shown /\ effectiveNs' = effectiveNs /\ rev' = rev + 1
      /\ \A j \in Keys \ {k} : Has'[j] = Has[j]
      /\ \/ stream' = stream /\ (stream.state # "open" \/ k \notin Shown)
         \/ /\ stream.state = "open" /\ k \in Shown
            /\ \E e \in Events : /\ stream' = [stream EXCEPT !.queue = Append(@, e)]
                                 /\ e.row.key = k /\ e.row.rev = rev + 1
                                 /\ Has'[k] = Leaves(e)
  BY WriteFacts DEF Writes
<1>2. rev \in Nat /\ l.reply.rev \in Nat /\ q \in Seq(Events) /\ stream \in Streams
  BY AnswersTyped DEF TypeOK, Streams
<1>3. policy' = policy
  BY DEF context
<1>4. ListIsSound(l)'
  BY <1>1, <1>2, <1>3 DEF ListIsSound, OneRowEach, Shows
<1>5. ASSUME stream'.state = "open", ~ Overtaken(l)', NEW j \in Shown, NoneNewer(l, j)'
      PROVE  Told(l.reply.rows, j) = Has'[j]
  <2>1. CASE stream' = stream /\ (stream.state # "open" \/ k \notin Shown)
    <3>1. j # k /\ ~ Overtaken(l) /\ NoneNewer(l, j) /\ j \in Keys
      BY <1>1, <1>5, <2>1 DEF Overtaken, NoneNewer, Shown
    <3> QED BY <1>1, <1>5, <2>1, <3>1 DEF MissedIsOnItsWay
  <2>2. ASSUME NEW e \in Events, stream.state = "open",
               stream' = [stream EXCEPT !.queue = Append(@, e)],
               e.row.key = k, e.row.rev = rev + 1
        PROVE  Told(l.reply.rows, j) = Has'[j]
    <3> DEFINE L == Len(q)
               more == Append(q, e)
    <3>1. stream'.queue = more /\ stream'.seen = stream.seen
      BY <1>2, <2>2 DEF Streams
    <3>2. L \in Nat /\ DOMAIN q = 1 .. L /\ DOMAIN more = 1 .. L + 1 /\ more[L + 1] = e
          /\ \A i \in 1 .. L : more[i] = q[i]
      BY <1>2, <2>2
    <3> HIDE DEF more, L, q
    <3>3. \A i \in 1 .. L + 1 : more[i].row.key = j => more[i].row.rev <= l.reply.rev
      BY <1>5, <3>1, <3>2 DEF NoneNewer
    <3>4. j # k
      <4>1. l.reply.rev <= rev
        BY DEF ListIsSound
      <4>2. L + 1 \in 1 .. L + 1 /\ ~ (rev + 1 <= l.reply.rev)
        BY <1>2, <3>2, <4>1
      <4> QED BY <2>2, <3>2, <3>3, <4>2
    <3>5. NoneNewer(l, j)
      BY <3>2, <3>3 DEF NoneNewer, q
    <3>6. ~ Overtaken(l)
      BY <1>1, <1>5, <3>1 DEF Overtaken
    <3> QED BY <1>1, <1>5, <2>2, <3>4, <3>5, <3>6 DEF MissedIsOnItsWay, Shown
  <2> QED BY <1>1, <2>1, <2>2
<1>6. MissedIsOnItsWay(l)'
  BY <1>1, <1>5 DEF MissedIsOnItsWay, Told
<1> QED
  BY <1>4, <1>6

(* A message the page consumes overtakes the lists that missed it. *)
LEMMA MessageKeepsList ==
    ASSUME TypeOK, NEW l \in Answers, ListIsSound(l), MissedIsOnItsWay(l), Message
    PROVE  ListIsSound(l)' /\ MissedIsOnItsWay(l)'
<1> DEFINE q == stream.queue
           L == Len(q)
           rest == Tail(q)
<1>1. q \in Seq(Events) /\ q # <<>> /\ stream \in Streams
  BY DEF TypeOK, Streams, Message
<1>2. L \in Nat /\ L > 0 /\ DOMAIN q = 1 .. L /\ DOMAIN rest = 1 .. L - 1
      /\ \A i \in 1 .. L - 1 : rest[i] = q[i + 1]
  BY <1>1
<1>3. effectiveNs' = effectiveNs /\ UNCHANGED <<policy, world, rev>>
  BY DEF Message, store, context, effectiveNs
<1>4. Shown' = Shown /\ Has' = Has
  BY <1>3 DEF Shown, Shows, Has, RowOf
<1>5. ListIsSound(l)'
  BY <1>3, <1>4 DEF ListIsSound, OneRowEach, Shows, Told
<1>6. q[1].row.rev \in Nat /\ stream.seen \in Nat /\ l.reply.rev \in Nat
  <2>1. q[1] \in Events
    BY <1>1, <1>2
  <2> QED BY <1>1, <2>1, AnswersTyped DEF Events, Rows, Streams
<1>7. /\ stream'.queue = rest /\ stream'.state = stream.state
      /\ stream'.seen = IF q[1].row.rev > stream.seen THEN q[1].row.rev ELSE stream.seen
  <2>1. Head(q) = q[1]
    BY <1>1
  <2> QED BY <1>1, <2>1 DEF Message, Streams
<1> HIDE DEF q, L, rest
<1>8. ASSUME stream.state = "open", ~ Overtaken(l)', NEW k \in Shown, NoneNewer(l, k)'
      PROVE  Told(l.reply.rows, k) = Has[k]
  <2>1. ~ Overtaken(l) /\ q[1].row.rev <= l.reply.rev
    BY <1>3, <1>6, <1>7, <1>8 DEF Overtaken
  <2>2. \A i \in 1 .. L - 1 : rest[i].row.key = k => rest[i].row.rev <= l.reply.rev
    BY <1>2, <1>7, <1>8 DEF NoneNewer
  <2>3. ASSUME NEW i \in 1 .. L, q[i].row.key = k PROVE q[i].row.rev <= l.reply.rev
    <3>1. CASE i = 1
      BY <2>1, <3>1
    <3>2. CASE i # 1
      <4>1. i - 1 \in 1 .. L - 1 /\ (i - 1) + 1 = i
        BY <1>2, <3>2
      <4>2. rest[i - 1] = q[i]
        BY <1>2, <4>1
      <4> QED BY <2>2, <2>3, <4>1, <4>2
    <3> QED BY <3>1, <3>2
  <2>4. NoneNewer(l, k)
    BY <1>2, <2>3 DEF NoneNewer, q
  <2> QED BY <1>8, <2>1, <2>4 DEF MissedIsOnItsWay
<1>9. MissedIsOnItsWay(l)'
  BY <1>4, <1>7, <1>8 DEF MissedIsOnItsWay, Told
<1> QED
  BY <1>5, <1>9

(* A stream that starts now tells everything there is. *)
LEMMA StreamKeepsList ==
    ASSUME TypeOK, NEW l \in Answers, ListIsSound(l), MissedIsOnItsWay(l),
           StreamOpens \/ StreamBreaks
    PROVE  ListIsSound(l)' /\ MissedIsOnItsWay(l)'
<1>1. effectiveNs' = effectiveNs /\ UNCHANGED <<policy, world, rev>>
  BY DEF StreamOpens, StreamBreaks, store, context, effectiveNs
<1>2. Shown' = Shown /\ Has' = Has
  BY <1>1 DEF Shown, Shows, Has, RowOf
<1>3. ListIsSound(l)'
  BY <1>1, <1>2 DEF ListIsSound, OneRowEach, Shows, Told
<1>4. stream'.state # "open" \/ stream'.seen = rev
  BY DEF StreamOpens, StreamBreaks, Connecting
<1>5. rev \in Nat /\ l.reply.rev \in Nat
  BY AnswersTyped DEF TypeOK
<1>6. ASSUME stream'.state = "open", ~ Overtaken(l)', NEW k \in Shown
      PROVE  Told(l.reply.rows, k) = Has[k]
  <2>1. l.view = effectiveNs /\ ~ (l.reply.rev < rev)
    BY <1>1, <1>4, <1>6 DEF Overtaken
  <2>2. l.reply.rev = rev
    BY <1>5, <2>1 DEF ListIsSound
  <2> QED BY <2>1, <2>2 DEF ListIsSound, Shown
<1>7. MissedIsOnItsWay(l)'
  BY <1>2, <1>6 DEF MissedIsOnItsWay, Told
<1> QED
  BY <1>3, <1>7

LEMMA WatchKeepsList ==
    ASSUME TypeOK, NEW l, ListIsSound(l), MissedIsOnItsWay(l),
           ContextArrives \/ \E ns \in Views : Select(ns)
    PROVE  ListIsSound(l)' /\ MissedIsOnItsWay(l)'
<1>1. CASE UNCHANGED stream /\ effectiveNs' = effectiveNs
  BY <1>1, WatchFacts, ListKept DEF StoreAndStreamStay
<1>2. CASE stream' = Connecting
  <2>1. UNCHANGED <<policy, world, rev>>
    BY WatchFacts
  <2>2. ListIsSound(l)'
    BY <2>1 DEF ListIsSound, OneRowEach, Shows, Told, Has, RowOf
  <2> QED BY <1>2, <2>2 DEF MissedIsOnItsWay, Connecting
<1> QED
  BY <1>1, <1>2, WatchFacts

(* A list keeps its view when it is answered. *)
LEMMA ReplyOf ==
    ASSUME NEW l \in Lists, NEW r, NEW a, a = [l EXCEPT !.reply = r]
    PROVE  a.reply = r /\ a.view = l.view
  BY DEF Lists

(* Where the lists come from that were read. *)
LEMMA AnswersComeFrom ==
    ASSUME TypeOK, [Next]_vars, NEW l \in Answers'
    PROVE  \/ l \in Answers
           \/ (ReadInitial \/ \E c \in Chains : ReadRefresh(c))
              /\ l.reply = Listing(l.view) /\ l.reply.ok
<1>0. IsRead(l) /\ (l = initial' \/ \E d \in Chains : l = refresh'[d])
  BY DEF Answers, IsRead
<1>1. CASE UNCHANGED <<initial, refresh>>
  BY <1>1 DEF Answers, IsRead
<1>2. \A view : ~ IsRead(Ask(view))
  BY DEF IsRead, Ask
<1>3. CASE ContextArrives \/ \E ns \in Views : Select(ns)
  <2>1. UNCHANGED refresh
    BY <1>3, WatchFacts
  <2>2. initial' = initial \/ initial' = Nil \/ \E view : initial' = Ask(view)
    BY <1>3 DEF ContextArrives, Select, ListEffect
  <2> QED BY <1>0, <1>2, <2>1, <2>2 DEF Answers, IsRead
<1>4. CASE ReadInitial
  <2>1. UNCHANGED refresh /\ initial \in Lists
    BY <1>4 DEF ReadInitial, chains, TypeOK
  <2>2. \/ initial' = [initial EXCEPT !.reply = Listing(initial.view)]
        \/ initial' = [initial EXCEPT !.reply = Failed]
    BY <1>4 DEF ReadInitial
  <2>3. Listing(initial'.view) = Listing(initial.view)
    BY <2>1, <2>2, ReplyOf
  <2>4. initial'.reply = Listing(initial'.view) \/ initial'.reply = Failed
    BY <2>1, <2>2, <2>3, ReplyOf
  <2>5. ~ Failed.ok
    BY DEF Failed
  <2> QED BY <1>0, <1>4, <2>1, <2>4, <2>5 DEF Answers, IsRead
<1>5. ASSUME NEW c \in Chains, ReadRefresh(c)
      PROVE  l \in Answers \/ (l.reply = Listing(l.view) /\ l.reply.ok)
  <2>1. UNCHANGED initial /\ refresh[c] \in Lists
    BY <1>5 DEF ReadRefresh, hook, TypeOK
  <2>2. \/ refresh'[c] = [refresh[c] EXCEPT !.reply = Listing(refresh[c].view)]
        \/ refresh'[c] = [refresh[c] EXCEPT !.reply = Failed]
    BY <1>5 DEF ReadRefresh, TypeOK
  <2>3. refresh'[c].reply = Listing(refresh'[c].view) \/ ~ refresh'[c].reply.ok
    <3> DEFINE old == refresh[c]
               new == refresh'[c]
    <3>0. old \in Lists
      BY <2>1
    <3>1. CASE new = [old EXCEPT !.reply = Listing(old.view)]
      <4> HIDE DEF old, new
      <4> QED BY <3>0, <3>1, ReplyOf DEF new
    <3>2. CASE new = [old EXCEPT !.reply = Failed]
      <4> HIDE DEF old, new
      <4>1. new.reply = Failed
        BY <3>0, <3>2, ReplyOf
      <4> QED BY <4>1 DEF new, Failed
    <3> QED BY <2>2, <3>1, <3>2
  <2>4. \A d \in Chains \ {c} : refresh'[d] = refresh[d]
    BY <1>5, ReadStaysAsked
  <2> QED BY <1>0, <2>1, <2>3, <2>4 DEF Answers, IsRead
<1>6. CASE InitialArrives
  <2>1. initial' = Nil /\ UNCHANGED refresh
    BY <1>6 DEF InitialArrives, chains
  <2> QED BY <1>0, <2>1 DEF Answers, IsRead
<1>7. ASSUME NEW c \in Chains, RefreshArrives(c) \/ Return(c) \/ handleRefresh(c)
      PROVE  l \in Answers
  <2>1. UNCHANGED initial
    BY <1>7 DEF RefreshArrives, Return, handleRefresh
  <2>2. refresh'[c] = refresh[c] \/ refresh'[c] = Nil \/ \E view : refresh'[c] = Ask(view)
    BY <1>7 DEF RefreshArrives, Return, handleRefresh, TypeOK
  <2>3. \A d \in Chains \ {c} : refresh'[d] = refresh[d]
    BY <1>7 DEF RefreshArrives, Return, handleRefresh, TypeOK
  <2> QED BY <1>0, <1>2, <2>1, <2>2, <2>3 DEF Answers, IsRead
<1>8. CASE \/ ContextFails \/ StreamOpens \/ StreamBreaks \/ Message
           \/ \E k \in Keys : Change(k)
           \/ \E c \in Chains : Serve(c)
           \/ \E c \in Chains, i \in ShownRows : handleScale(c, i) \/ doDelete(c, i)
           \/ \E c \in Chains, k \in Keys : handleCreate(c, k)
  BY <1>1, <1>8 DEF ContextFails, StreamOpens, StreamBreaks, Message, Change, Serve,
        handleScale, doDelete, handleCreate, hook, chains
<1>9. CASE UNCHANGED vars
  BY <1>1, <1>9 DEF vars, hook, chains
<1> QED
  BY <1>3, <1>4, <1>5, <1>6, <1>7, <1>8, <1>9 DEF Next, Click, Answered

LEMMA ListsStep ==
    ASSUME ViewInv, [Next]_vars, NEW l \in Answers'
    PROVE  ListIsSound(l)' /\ MissedIsOnItsWay(l)'
<1>1. TypeOK /\ \A a \in Answers : ListIsSound(a) /\ MissedIsOnItsWay(a)
  BY DEF ViewInv
<1>2. CASE l \notin Answers
  <2>1. (ReadInitial \/ \E c \in Chains : ReadRefresh(c)) /\ l.reply = Listing(l.view) /\ l.reply.ok
    BY <1>1, <1>2, AnswersComeFrom
  <2>2. StoreAndStreamStay
    BY <2>1, OthersStay
  <2> QED BY <1>1, <2>1, <2>2, ReadIsCurrent, ListKept
<1>3. CASE l \in Answers
  <2>0. ListIsSound(l) /\ MissedIsOnItsWay(l)
    BY <1>1, <1>3
  <2>1. CASE StoreAndStreamStay
    BY <2>0, <2>1, ListKept
  <2>2. CASE ContextArrives \/ \E ns \in Views : Select(ns)
    BY <1>1, <2>0, <2>2, WatchKeepsList
  <2>3. CASE (\E k \in Keys : Change(k)) \/ (\E c \in Chains : Serve(c))
    <3>1. ASSUME NEW k \in Keys, NEW object \in {Nil} \cup Objects,
                 NEW type \in {"ADDED", "MODIFIED", "DELETED"}, Writes(k, object, type)
          PROVE  ListIsSound(l)' /\ MissedIsOnItsWay(l)'
      BY <1>1, <1>3, <2>0, <2>3, <3>1, Writers, WriteKeepsList
    <3> QED BY <1>1, <2>1, <2>3, <3>1, Writers
  <2>4. CASE StreamOpens \/ StreamBreaks
    BY <1>1, <1>3, <2>0, <2>4, StreamKeepsList
  <2>5. CASE Message
    BY <1>1, <1>3, <2>0, <2>5, MessageKeepsList
  <2>6. CASE UNCHANGED vars
    BY <2>1, <2>6 DEF vars, StoreAndStreamStay, store, context, effectiveNs
  <2> QED BY <2>1, <2>2, <2>3, <2>4, <2>5, <2>6, ClickStays, OthersStay DEF Next, Answered
<1> QED
  BY <1>2, <1>3

(* For every Session it tells of, the queue ends with what is stored, and  *)
(* what a list under way has missed is still in the queue: the inductive   *)
(* invariant behind SyncIsKept and ListSyncs (useSessions.ts: two sources  *)
(* that nobody orders; sessions_handlers.go: list and stream).             *)
THEOREM ViewInvariance == Safety => []ViewInv
<1>1. Init => ViewInv
  <2> SUFFICES ASSUME Init PROVE ViewInv
    OBVIOUS
  <2>1. TypeOK
    BY InitTyped
  <2>2. QueueEndsTrue
    BY DEF Init, Connecting, QueueEndsTrue
  <2>3. Answers = {}
    BY DEF Init, Ask, Answers, IsRead
  <2> QED BY <2>1, <2>2, <2>3 DEF ViewInv
<1>2. ViewInv /\ [Next]_vars => ViewInv'
  <2> SUFFICES ASSUME ViewInv, [Next]_vars PROVE ViewInv'
    OBVIOUS
  <2>1. TypeOK'
    BY StepTyped DEF ViewInv
  <2>2. QueueEndsTrue'
    BY QueueStep DEF ViewInv
  <2>3. \A l \in Answers' : ListIsSound(l)' /\ MissedIsOnItsWay(l)'
    BY ListsStep
  <2> QED BY <2>1, <2>2, <2>3 DEF ViewInv
<1> QED
  BY <1>1, <1>2, PTL DEF Safety


-----------------------------------------------------------------------------
(* What happens to a table in sync.                                        *)

(* A list that is up to date makes it so. *)
LEMMA ListArrives ==
    ASSUME ViewInv, [Next]_vars, stream.state = "open", NamesTellApart, ArrivesInTime
    PROVE  InSync'
<1>1. TypeOK'
  BY StepTyped DEF ViewInv
<1>2. \E l \in Answers : ~ Overtaken(l) /\ rows' = l.reply.rows /\ StoreAndStreamStay
  <2>1. CASE InitialArrives /\ initial.reply.ok /\ ~ Overtaken(initial)
    <3>1. initial \in Answers /\ rows' = initial.reply.rows
      BY <2>1 DEF InitialArrives, SetRows, Answers, IsRead
    <3> QED BY <2>1, <3>1, OthersStay
  <2>2. ASSUME NEW c \in Chains, RefreshArrives(c), refresh[c].reply.ok, ~ Overtaken(refresh[c])
        PROVE  \E l \in Answers : ~ Overtaken(l) /\ rows' = l.reply.rows /\ StoreAndStreamStay
    <3>1. refresh[c] \in Answers /\ rows' = refresh[c].reply.rows
      BY <2>2 DEF RefreshArrives, SetRows, Answers, IsRead
    <3> QED BY <2>2, <3>1, OthersStay
  <2> QED BY <2>1, <2>2 DEF ArrivesInTime
<1>3. PICK l \in Answers : ~ Overtaken(l) /\ rows' = l.reply.rows /\ StoreAndStreamStay
  BY <1>2
<1>4. Synced(Replayed(rows', stream.queue))
  BY <1>3, ListThenQueue
<1>5. Shown' = Shown /\ Has' = Has /\ stream' = stream
  BY <1>3 DEF StoreAndStreamStay, Shown, Shows, Has, RowOf
<1>6. Synced(Replayed(rows, stream.queue))'
  BY <1>4, <1>5 DEF Synced
<1> QED
  BY <1>1, <1>5, <1>6, InSyncIsNext

(* A write adds the event that the table then needs. *)
LEMMA WriteKeepsSync ==
    ASSUME TypeOK, TypeOK', NamesTellApart, InSync, UNCHANGED rows,
           NEW k \in Keys, NEW object \in {Nil} \cup Objects,
           NEW type \in {"ADDED", "MODIFIED", "DELETED"},
           Writes(k, object, type), UNCHANGED context
    PROVE  InSync'
<1> DEFINE before == Replayed(rows, stream.queue)
           after == Replayed(rows', stream'.queue)
<1>1. /\ Shown' = Shown /\ effectiveNs' = effectiveNs /\ rev' = rev + 1
      /\ \A j \in Keys \ {k} : Has'[j] = Has[j]
      /\ \/ stream' = stream /\ (stream.state # "open" \/ k \notin Shown)
         \/ /\ stream.state = "open" /\ k \in Shown
            /\ \E e \in Events :
                  /\ stream' = [stream EXCEPT !.queue = Append(@, e)]
                  /\ e.row.key = k /\ e.row.rev = rev + 1
                  /\ Has'[k] = Leaves(e)
  BY WriteFacts DEF Writes
<1>2. stream.state = "open" /\ Synced(before) /\ before \in Seq(Rows)
  BY InSyncIs, ReplayedTyped DEF TypeOK, Streams
<1>3. CASE stream' = stream /\ k \notin Shown
  <2>1. \A j \in Shown : Has'[j] = Has[j]
    BY <1>1, <1>3 DEF Shown
  <2>2. Synced(before)'
    BY <1>1, <1>2, <1>3, <2>1 DEF Synced
  <2> QED BY <1>2, <1>3, <2>2, InSyncIsNext
<1>4. ASSUME NEW e \in Events, k \in Shown, stream' = [stream EXCEPT !.queue = Append(@, e)],
             e.row.key = k, Has'[k] = Leaves(e)
      PROVE  InSync'
  <2>1. stream'.queue = Append(stream.queue, e) /\ stream'.state = "open"
        /\ stream.queue \in Seq(Events) /\ rows \in Seq(Rows)
    BY <1>2, <1>4 DEF TypeOK, Streams
  <2>2. after = Merged(before, e)
    BY <2>1, ReplayedAppend
  <2> HIDE DEF before, after
  <2>3. DistinctNames(Shown)
    BY DEF DistinctNames, NamesTellApart, Shown
  <2>4. OneRowEach(before) /\ KeysIn(before, Shown) /\ \A j \in Shown : Told(before, j) = Has[j]
    BY <1>2 DEF Synced
  <2>5. /\ after \in Seq(Rows) /\ OneRowEach(after)
        /\ ToSet(after) = {r \in ToSet(before) : r.key # k} \cup Leaves(e)
    BY <1>2, <1>4, <2>2, <2>3, <2>4, MergedFacts
  <2>6. \A r \in Leaves(e) : r.key = k
    BY <1>4 DEF Leaves
  <2>7. KeysIn(after, Shown)
    BY <1>4, <2>4, <2>5, <2>6 DEF KeysIn, ToSet
  <2>8. \A j \in Shown : Told(after, j) = Has'[j]
    <3>1. Told(after, k) = Has'[k]
      BY <1>4, <2>5, <2>6 DEF Told
    <3>2. ASSUME NEW j \in Shown \ {k} PROVE Told(after, j) = Has'[j]
      <4>1. Told(after, j) = Told(before, j)
        BY <2>5, <2>6 DEF Told
      <4> QED BY <1>1, <2>4, <4>1 DEF Shown
    <3> QED BY <3>1, <3>2
  <2>9. OneRowEach(after) /\ KeysIn(after, Shown') /\ \A j \in Shown' : Told(after, j) = Has'[j]
    BY <1>1, <2>5, <2>7, <2>8
  <2>10. Synced(Replayed(rows, stream.queue))'
    BY <2>9 DEF Synced, after
  <2> QED BY <2>1, <2>10, InSyncIsNext
<1> QED
  BY <1>1, <1>2, <1>3, <1>4

(* A message takes its event from the queue into the rows. *)
LEMMA MessageKeepsSync ==
    ASSUME TypeOK, TypeOK', InSync, Message
    PROVE  InSync'
<1>1. /\ rows' = Merged(rows, Head(stream.queue))
      /\ stream'.queue = Tail(stream.queue) /\ stream'.state = stream.state
      /\ stream.queue # <<>> /\ stream.queue \in Seq(Events) /\ rows \in Seq(Rows)
  BY DEF Message, TypeOK, Streams
<1>2. Replayed(rows', stream'.queue) = Replayed(rows, stream.queue)
  BY <1>1, ReplayedHead
<1>3. Shown' = Shown /\ Has' = Has
  BY DEF Message, store, context, effectiveNs, Shown, Shows, Has, RowOf
<1>4. Synced(Replayed(rows, stream.queue))'
  BY <1>2, <1>3, InSyncIs DEF Synced
<1> QED
  BY <1>1, <1>4, InSyncIs, InSyncIsNext

(* What changes neither rows nor stream, nor what the server shows. *)
LEMMA RestKeepsSync ==
    ASSUME TypeOK, TypeOK', InSync, StoreAndStreamStay, UNCHANGED rows
    PROVE  InSync'
<1>1. Shown' = Shown /\ Has' = Has /\ stream' = stream
  BY DEF StoreAndStreamStay, Shown, Shows, Has, RowOf
<1>2. Synced(Replayed(rows, stream.queue))'
  BY <1>1, InSyncIs DEF Synced
<1> QED
  BY <1>1, <1>2, InSyncIs, InSyncIsNext

LEMMA SyncStep ==
    ASSUME ViewInv, [Next]_vars, stream'.state = "open", effectiveNs' = effectiveNs,
           NamesTellApart, ~ ArrivesOvertaken, InSync
    PROVE  InSync'
<1>1. TypeOK /\ TypeOK' /\ stream.state = "open"
  BY StepTyped DEF ViewInv, InSync
<1>2. CASE StoreAndStreamStay /\ UNCHANGED rows
  BY <1>1, <1>2, RestKeepsSync
<1>3. CASE ContextArrives \/ \E ns \in Views : Select(ns)
  <2>1. stream' # Connecting
    BY DEF Connecting
  <2>2. StoreAndStreamStay /\ UNCHANGED rows
    BY <1>1, <1>3, <2>1, WatchFacts DEF StoreAndStreamStay
  <2> QED BY <1>2, <2>2
<1>4. CASE StreamOpens \/ StreamBreaks
  BY <1>1, <1>4 DEF StreamOpens, StreamBreaks, Connecting
<1>5. CASE Message
  BY <1>1, <1>5, MessageKeepsSync
<1>6. CASE (\E k \in Keys : Change(k)) \/ (\E c \in Chains : Serve(c))
  <2>1. ASSUME NEW k \in Keys, NEW object \in {Nil} \cup Objects,
               NEW type \in {"ADDED", "MODIFIED", "DELETED"}, Writes(k, object, type)
        PROVE  InSync'
    BY <1>1, <1>6, <2>1, Writers, WriteKeepsSync
  <2> QED BY <1>1, <1>2, <1>6, <2>1, Writers
<1>7. CASE InitialArrives
  <2>1. CASE initial.reply.ok
    <3>1. ArrivesInTime
      BY <1>7, <2>1 DEF ArrivesInTime, ArrivesOvertaken
    <3> QED BY <1>1, <3>1, ListArrives
  <2>2. CASE ~ initial.reply.ok
    BY <1>2, <1>7, <2>2, OthersStay DEF InitialArrives, SetRows
  <2> QED BY <2>1, <2>2
<1>8. ASSUME NEW c \in Chains, RefreshArrives(c) PROVE InSync'
  <2>1. CASE refresh[c].reply.ok
    <3>1. ArrivesInTime
      BY <1>8, <2>1 DEF ArrivesInTime, ArrivesOvertaken
    <3> QED BY <1>1, <3>1, ListArrives
  <2>2. CASE ~ refresh[c].reply.ok
    BY <1>2, <1>8, <2>2, OthersStay DEF RefreshArrives, SetRows
  <2> QED BY <2>1, <2>2
<1>9. CASE UNCHANGED vars
  BY <1>2, <1>9 DEF vars, StoreAndStreamStay, store, context, hook, effectiveNs
<1> QED
  BY <1>2, <1>3, <1>4, <1>5, <1>6, <1>7, <1>8, <1>9, ClickStays, OthersStay DEF Next, Answered

(* Nothing but another view, a broken stream or an overtaken list undoes   *)
(* the agreement of table and server: SyncIsKept, however many Sessions,   *)
(* clicks, lists and events there are (useSessions.ts: merging of events   *)
(* and replacing of all rows in the same state).                           *)
THEOREM SyncKept == Safety => SyncIsKept
<1>1. ViewInv /\ [Next]_vars =>
        [ (/\ stream'.state = "open" /\ effectiveNs' = effectiveNs
           /\ NamesTellApart
           /\ ~ ArrivesOvertaken
           /\ InSync) => InSync' ]_vars
  BY SyncStep
<1> QED
  BY <1>1, ViewInvariance, PTL DEF Safety, SyncIsKept

(* Every list that is not overtaken brings table, stream and server        *)
(* together, whatever the rows showed before: ListSyncs (useSessions.ts:   *)
(* setRows of a list's answer; the list and the stream of                  *)
(* sessions_handlers.go).                                                  *)
THEOREM ListsSync == Safety => ListSyncs
<1>1. ViewInv /\ [Next]_vars =>
        [ (stream.state = "open" /\ NamesTellApart /\ ArrivesInTime) => InSync' ]_vars
  BY ListArrives
<1> QED
  BY <1>1, ViewInvariance, PTL DEF Safety, ListSyncs
=============================================================================

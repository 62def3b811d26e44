----------------------------- MODULE StorageProofs -----------------------------
(***************************************************************************)
(* Theorems about the database: what reaches it while the program runs     *)
(* (Storage), for any number of ops and every size of its queues; and, at  *)
(* the end, what a start makes of one that an older program left           *)
(* (Migrations), for every set of processes and of records.                *)
(***************************************************************************)
EXTENDS Storage, Migrations, DataLemmas, SequenceTheorems

----------------------------------------------------------------------------
(* Sequences *)

\* The sequence s is what `all` holds behind its first `from` members.
Matches(s, all, from) == \A i \in 1..Len(s) : s[i] = all[from + i]

LEMMA MatchesBoth ==
  ASSUME NEW S, NEW s \in Seq(S), NEW t \in Seq(S), NEW all, NEW from \in Int
  PROVE  Matches(s \o t, all, from) <=> Matches(s, all, from) /\ Matches(t, all, from + Len(s))
<1> DEFINE u == s \o t
           m == Len(s)
           n == Len(t)
<1>1. /\ m \in Nat /\ n \in Nat /\ Len(u) = m + n
      /\ \A i \in 1..(m + n) : u[i] = IF i =< m THEN s[i] ELSE t[i - m]
  BY ConcatProperties, LenProperties
<1> HIDE DEF u, m, n
<1>2. ASSUME Matches(u, all, from) PROVE \A i \in 1..m : s[i] = all[from + i]
  BY <1>1, <1>2 DEF Matches
<1>3. ASSUME Matches(u, all, from), NEW i \in 1..n PROVE t[i] = all[(from + m) + i]
  <2>1. m + i \in 1..(m + n) /\ ~(m + i =< m) /\ (m + i) - m = i
    BY <1>1
  <2>2. u[m + i] = t[i] /\ u[m + i] = all[from + (m + i)]
    BY <1>1, <1>3, <2>1 DEF Matches
  <2>3. from + (m + i) = (from + m) + i
    BY <1>1
  <2> QED BY <2>2, <2>3
<1>4. ASSUME \A i \in 1..m : s[i] = all[from + i], \A i \in 1..n : t[i] = all[(from + m) + i],
             NEW i \in 1..(m + n)
      PROVE  u[i] = all[from + i]
  <2>1. CASE i =< m
    <3>1. i \in 1..m
      BY <1>1, <2>1
    <3>2. u[i] = s[i]
      BY <1>1, <2>1
    <3>3. s[i] = all[from + i]
      BY <1>4, <3>1
    <3> QED BY <3>2, <3>3
  <2>2. CASE ~(i =< m)
    <3>1. i - m \in 1..n /\ (from + m) + (i - m) = from + i
      BY <1>1, <2>2
    <3>2. u[i] = t[i - m] /\ t[i - m] = all[(from + m) + (i - m)]
      BY <1>1, <1>4, <2>2, <3>1
    <3> QED BY <3>1, <3>2
  <2> QED BY <2>1, <2>2
<1> HIDE DEF Matches
<1>5. (\A i \in 1..m : s[i] = all[from + i]) <=> Matches(s, all, from)
  BY DEF Matches, m
<1>6. (\A i \in 1..n : t[i] = all[(from + m) + i]) <=> Matches(t, all, from + m)
  BY DEF Matches, n
<1>7. (\A i \in 1..(m + n) : u[i] = all[from + i]) <=> Matches(u, all, from)
  BY <1>1 DEF Matches
<1> QED BY <1>2, <1>3, <1>4, <1>5, <1>6, <1>7 DEF u, m

LEMMA MatchesLonger ==
  ASSUME NEW S, NEW s \in Seq(S), NEW all \in Seq(S), NEW more \in Seq(S), NEW from \in Nat,
         from + Len(s) =< Len(all), Matches(s, all, from)
  PROVE  Matches(s, all \o more, from)
<1> DEFINE u == all \o more
<1>1. /\ Len(s) \in Nat /\ Len(all) \in Nat /\ Len(more) \in Nat
      /\ \A i \in 1..(Len(all) + Len(more)) :
            u[i] = IF i =< Len(all) THEN all[i] ELSE more[i - Len(all)]
  BY ConcatProperties, LenProperties
<1> HIDE DEF u
<1>2. ASSUME NEW i \in 1..Len(s) PROVE s[i] = u[from + i]
  <2>1. from + i \in 1..(Len(all) + Len(more)) /\ from + i =< Len(all)
    BY <1>1
  <2> QED BY <1>1, <2>1 DEF Matches
<1> QED BY <1>2 DEF u, Matches

LEMMA MatchesEnd ==
  ASSUME NEW S, NEW all \in Seq(S), NEW more \in Seq(S)
  PROVE  Matches(more, all \o more, Len(all))
<1> DEFINE u == all \o more
<1>1. /\ Len(all) \in Nat /\ Len(more) \in Nat
      /\ \A i \in 1..(Len(all) + Len(more)) :
            u[i] = IF i =< Len(all) THEN all[i] ELSE more[i - Len(all)]
  BY ConcatProperties, LenProperties
<1> HIDE DEF u
<1>2. ASSUME NEW i \in 1..Len(more) PROVE more[i] = u[Len(all) + i]
  <2>1. /\ Len(all) + i \in 1..(Len(all) + Len(more)) /\ ~(Len(all) + i =< Len(all))
        /\ (Len(all) + i) - Len(all) = i
    BY <1>1
  <2> QED BY <1>1, <2>1
<1> QED BY <1>2 DEF u, Matches

LEMMA MatchesNone == ASSUME NEW all, NEW from PROVE Matches(<<>>, all, from)
<1>1. Len(<<>>) = 0
  BY EmptySeq
<1>2. 1..0 = {}
  OBVIOUS
<1> QED BY <1>1, <1>2 DEF Matches

\* The first n members, and the others.
LEMMA Cut ==
  ASSUME NEW S, NEW s \in Seq(S), NEW n \in 0..Len(s)
  PROVE  LET a == SubSeq(s, 1, n)
             b == SubSeq(s, n + 1, Len(s))
         IN  a \in Seq(S) /\ b \in Seq(S) /\ Len(a) = n /\ Len(b) = Len(s) - n /\ s = a \o b
<1>1. Len(s) \in Nat /\ \A i \in 1..Len(s) : s[i] \in S
  BY LenProperties, ElementOfSeq
<1>2. SubSeq(s, 1, n) \in Seq(S) /\ Len(SubSeq(s, 1, n)) = n
  <2>1. n \in Int /\ 1 \in Int /\ \A i \in 1..n : s[i] \in S
    BY <1>1
  <2>2. /\ SubSeq(s, 1, n) \in Seq(S)
        /\ Len(SubSeq(s, 1, n)) = IF 1 =< n THEN n - 1 + 1 ELSE 0
    BY <2>1, SubSeqProperties
  <2> QED BY <1>1, <2>2
<1>3. SubSeq(s, n + 1, Len(s)) \in Seq(S) /\ Len(SubSeq(s, n + 1, Len(s))) = Len(s) - n
  <2>1. n + 1 \in Int /\ Len(s) \in Int /\ \A i \in (n + 1)..Len(s) : s[i] \in S
    BY <1>1
  <2>2. /\ SubSeq(s, n + 1, Len(s)) \in Seq(S)
        /\ Len(SubSeq(s, n + 1, Len(s))) = IF n + 1 =< Len(s) THEN Len(s) - (n + 1) + 1 ELSE 0
    BY <2>1, SubSeqProperties
  <2> QED BY <1>1, <2>2
<1>4. s = SubSeq(s, 1, n) \o SubSeq(s, n + 1, Len(s))
  <2>1. 1 \in 1..(Len(s) + 1) /\ n \in (1 - 1)..Len(s) /\ Len(s) \in n..Len(s)
    BY <1>1
  <2>2. SubSeq(s, 1, n) \o SubSeq(s, n + 1, Len(s)) = SubSeq(s, 1, Len(s))
    BY <2>1, ConcatAdjacentSubSeq
  <2> QED BY <2>2, SubSeqFull
<1> QED BY <1>2, <1>3, <1>4

\* The members of t are those of s at the places in P, in their order.
Picks(t, s, P, place) ==
    /\ \A i \in 1..Len(t) : t[i] = s[place[i]]
    /\ \A i, k \in 1..Len(t) : i < k => place[i] < place[k]
    /\ \A p \in P : \E i \in 1..Len(t) : place[i] = p

LEMMA Chosen ==
  ASSUME NEW S, NEW s \in Seq(S), NEW P \in SUBSET (1..Len(s))
  PROVE  LET t == Subsequence(s, P)
         IN  /\ t \in Seq(S) /\ Len(t) = Cardinality(P)
             /\ \E place \in [1..Len(t) -> P] : Picks(t, s, P, place)
<1> DEFINE key == [p \in P |-> p]
           t == Subsequence(s, P)
           n == Cardinality(P)
           R(p) == Cardinality({k \in P : k =< p})
           place == [i \in 1..n |-> CHOOSE p \in P : R(p) = i]
<1>1. Len(s) \in Nat /\ (\A i \in 1..Len(s) : s[i] \in S) /\ \A p \in P : p \in Int
  BY LenProperties, ElementOfSeq
<1>2. IsFiniteSet(P) /\ n \in Nat
  <2>1. IsFiniteSet(1..Len(s))
    BY <1>1, FS_Interval
  <2> QED BY <2>1, FS_Subset, FS_CardinalityType
<1>3. /\ \A p \in P : R(p) \in 1..n
      /\ \A p, q \in P : p < q => R(p) < R(q)
      /\ \A p, q \in P : R(p) = R(q) => p = q
      /\ \A i \in 1..n : \E p \in P : R(p) = i
  <2>1. P \subseteq Int
    BY <1>1
  <2>2. key \in [P -> Int] /\ \A p \in P : key[p] = p
    BY <2>1
  <2> HIDE DEF key
  <2>3. \A p, q \in P : key[p] = key[q] => p = q
    BY <2>2
  <2>4. /\ \A p \in P : RankIn(P, key, p) \in 1..Cardinality(P)
        /\ \A p, q \in P : key[p] < key[q] => RankIn(P, key, p) < RankIn(P, key, q)
        /\ \A p, q \in P : RankIn(P, key, p) = RankIn(P, key, q) => p = q
        /\ \A i \in 1..Cardinality(P) : \E p \in P : RankIn(P, key, p) = i
    BY <1>2, <2>2, <2>3, Ranks
  <2>5. \A p \in P : RankIn(P, key, p) = R(p)
    <3>1. \A p \in P : UpTo(P, key, p) = {k \in P : k =< p}
      BY <2>2 DEF UpTo
    <3> QED BY <3>1 DEF RankIn
  <2> HIDE DEF R
  <2> QED BY <2>2, <2>4, <2>5
<1>4. t = [i \in 1..n |-> s[CHOOSE p \in P : R(p) = i]]
  BY DEF Subsequence
<1> HIDE DEF R, n, t
<1>5. \A i \in 1..n : place[i] \in P /\ R(place[i]) = i
  BY <1>3
<1>6. place \in [1..n -> P] /\ \A i \in 1..n : t[i] = s[place[i]]
  BY <1>4, <1>5
<1>7. t \in Seq(S) /\ Len(t) = n
  <2>1. \A i \in 1..n : t[i] \in S
    BY <1>1, <1>5, <1>6
  <2>2. t \in [1..n -> S]
    BY <1>4, <2>1
  <2> QED BY <1>2, <2>2
<1> HIDE DEF place
<1>8. ASSUME NEW i \in 1..n, NEW k \in 1..n, i < k PROVE place[i] < place[k]
  <2>1. /\ place[i] \in P /\ place[k] \in P /\ R(place[i]) = i /\ R(place[k]) = k
        /\ place[i] \in Int /\ place[k] \in Int
    <3>1. place[i] \in P /\ place[k] \in P /\ R(place[i]) = i /\ R(place[k]) = k
      BY <1>5
    <3> QED BY <1>1, <3>1
  <2>2. ~(place[k] < place[i])
    BY <1>2, <1>3, <1>8, <2>1
  <2>3. place[i] # place[k]
    BY <1>2, <1>8, <2>1
  <2> QED BY <2>1, <2>2, <2>3
<1>9. ASSUME NEW p \in P PROVE \E i \in 1..n : place[i] = p
  BY <1>3, <1>5
<1>10. place \in [1..Len(t) -> P] /\ Picks(t, s, P, place)
  BY <1>6, <1>7, <1>8, <1>9 DEF Picks
<1> QED BY <1>7, <1>10 DEF n, t

----------------------------------------------------------------------------
(* Counting *)

LEMMA DisjointSizes ==
  ASSUME NEW A, NEW B, IsFiniteSet(A), IsFiniteSet(B), A \cap B = {}
  PROVE  Cardinality(A \cup B) = Cardinality(A) + Cardinality(B)
<1>1. Cardinality(A \cap B) = 0
  BY FS_EmptySet
<1>2. Cardinality(A) \in Nat /\ Cardinality(B) \in Nat
  BY FS_CardinalityType
<1>3. Cardinality(A \cup B) = Cardinality(A) + Cardinality(B) - Cardinality(A \cap B)
  BY FS_Union
<1> QED BY <1>1, <1>2, <1>3

LEMMA CountType ==
  ASSUME NEW S, NEW s \in Seq(S), NEW K
  PROVE  /\ Count(s, K) \in Nat /\ IsFiniteSet({i \in DOMAIN s : s[i].kind \in K})
         /\ {i \in DOMAIN s : s[i].kind \in K} \in SUBSET (1..Len(s))
<1>1. Len(s) \in Nat /\ DOMAIN s = 1..Len(s)
  BY LenProperties
<1>2. IsFiniteSet(1..Len(s))
  BY <1>1, FS_Interval
<1>3. {i \in DOMAIN s : s[i].kind \in K} \in SUBSET (1..Len(s))
  BY <1>1
<1> QED BY <1>2, <1>3, FS_Subset, FS_CardinalityType DEF Count

LEMMA CountNone == ASSUME NEW K PROVE Count(<<>>, K) = 0
<1>1. DOMAIN <<>> = {}
  OBVIOUS
<1>2. {i \in DOMAIN <<>> : <<>>[i].kind \in K} = {}
  BY <1>1
<1> QED BY <1>2, FS_EmptySet DEF Count

LEMMA CountBoth ==
  ASSUME NEW S, NEW s \in Seq(S), NEW t \in Seq(S), NEW K
  PROVE  Count(s \o t, K) = Count(s, K) + Count(t, K)
<1> DEFINE u == s \o t
           m == Len(s)
           n == Len(t)
           A == {i \in 1..m : s[i].kind \in K}
           B == {i \in 1..n : t[i].kind \in K}
           C == {i \in 1..(m + n) : u[i].kind \in K}
           D == {i \in C : m < i}
           move == [i \in B |-> m + i]
<1>1. /\ m \in Nat /\ n \in Nat /\ Len(u) = m + n /\ u \in Seq(S)
      /\ DOMAIN s = 1..m /\ DOMAIN t = 1..n
      /\ \A i \in 1..(m + n) : u[i] = IF i =< m THEN s[i] ELSE t[i - m]
  BY ConcatProperties, LenProperties
<1>2. DOMAIN u = 1..(m + n)
  BY <1>1, LenProperties
<1>3. Count(s, K) = Cardinality(A) /\ Count(t, K) = Cardinality(B) /\ Count(u, K) = Cardinality(C)
  BY <1>1, <1>2 DEF Count
<1> HIDE DEF u, m, n
<1>4. IsFiniteSet(1..m) /\ IsFiniteSet(1..n) /\ IsFiniteSet(1..(m + n))
  BY <1>1, FS_Interval
<1>5. IsFiniteSet(A) /\ IsFiniteSet(B) /\ IsFiniteSet(C) /\ IsFiniteSet(D)
  <2>1. A \in SUBSET (1..m) /\ B \in SUBSET (1..n) /\ C \in SUBSET (1..(m + n)) /\ D \in SUBSET C
    OBVIOUS
  <2> HIDE DEF A, B, C, D
  <2> QED BY <1>4, <2>1, FS_Subset
<1>6. C = A \cup D /\ A \cap D = {}
  BY <1>1
<1>7. move \in Bijection(B, D)
  <2>1. \A i \in B : m + i \in D
    <3> SUFFICES ASSUME NEW i \in B PROVE m + i \in D
      OBVIOUS
    <3>1. /\ m + i \in 1..(m + n) /\ ~(m + i =< m) /\ (m + i) - m = i /\ m < m + i
          /\ i \in 1..n /\ t[i].kind \in K
      BY <1>1
    <3>2. u[m + i] = t[i]
      BY <1>1, <3>1
    <3> QED BY <3>1, <3>2
  <2>2. \A d \in D : \E i \in B : m + i = d
    <3> SUFFICES ASSUME NEW d \in D PROVE \E i \in B : m + i = d
      OBVIOUS
    <3>1. d - m \in 1..n /\ d \in 1..(m + n) /\ ~(d =< m) /\ u[d].kind \in K /\ m + (d - m) = d
      BY <1>1
    <3>2. u[d] = t[d - m]
      BY <1>1, <3>1
    <3> QED BY <3>1, <3>2
  <2>3. \A i, k \in B : m + i = m + k => i = k
    BY <1>1
  <2> HIDE DEF B, D
  <2> QED BY <2>1, <2>2, <2>3 DEF Bijection, Injection, Surjection, IsInjective
<1>8. Cardinality(D) = Cardinality(B)
  BY <1>5, <1>7, FS_Bijection DEF ExistsBijection
<1>9. Cardinality(C) = Cardinality(A) + Cardinality(D)
  <2> HIDE DEF A, B, C, D
  <2> QED BY <1>5, <1>6, DisjointSizes
<1> QED BY <1>3, <1>8, <1>9 DEF u

----------------------------------------------------------------------------
(* Ids *)

LEMMA IdsMember ==
  ASSUME NEW S, NEW s \in Seq(S), NEW x
  PROVE  x \in IdsOf(s) <=> x # 0 /\ \E i \in 1..Len(s) : s[i].id = x
<1>1. DOMAIN s = 1..Len(s)
  BY LenProperties
<1> QED BY <1>1 DEF IdsOf, Range

LEMMA IdsNone == IdsOf(<<>>) = {}
<1>1. DOMAIN <<>> = {}
  OBVIOUS
<1> QED BY <1>1 DEF IdsOf, Range

LEMMA IdsBoth ==
  ASSUME NEW S, NEW s \in Seq(S), NEW t \in Seq(S)
  PROVE  IdsOf(s \o t) = IdsOf(s) \cup IdsOf(t)
<1> DEFINE u == s \o t
           m == Len(s)
           n == Len(t)
<1>1. /\ u \in Seq(S) /\ m \in Nat /\ n \in Nat /\ Len(u) = m + n
      /\ \A i \in 1..(m + n) : u[i] = IF i =< m THEN s[i] ELSE t[i - m]
  BY ConcatProperties, LenProperties
<1>2. \A x : x \in IdsOf(s) <=> x # 0 /\ \E i \in 1..m : s[i].id = x
  BY IdsMember
<1>3. \A x : x \in IdsOf(t) <=> x # 0 /\ \E i \in 1..n : t[i].id = x
  BY IdsMember
<1>4. \A x : x \in IdsOf(u) <=> x # 0 /\ \E i \in 1..(m + n) : u[i].id = x
  BY <1>1, IdsMember
<1> HIDE DEF u, m, n
<1>5. ASSUME NEW i \in 1..m PROVE i \in 1..(m + n) /\ u[i] = s[i]
  BY <1>1
<1>6. ASSUME NEW i \in 1..n PROVE m + i \in 1..(m + n) /\ u[m + i] = t[i]
  <2>1. m + i \in 1..(m + n) /\ ~(m + i =< m) /\ (m + i) - m = i
    BY <1>1
  <2> QED BY <1>1, <2>1
<1>7. ASSUME NEW i \in 1..(m + n)
      PROVE  \/ i \in 1..m /\ u[i] = s[i]
             \/ i - m \in 1..n /\ u[i] = t[i - m]
  BY <1>1
<1>8. \A x : x \in IdsOf(u) <=> x \in IdsOf(s) \/ x \in IdsOf(t)
  BY <1>2, <1>3, <1>4, <1>5, <1>6, <1>7
<1> QED BY <1>8 DEF u

LEMMA IdsOfOne == ASSUME NEW o PROVE IdsOf(<<o>>) = {o.id} \ {0}
<1>1. DOMAIN <<o>> = {1} /\ <<o>>[1] = o
  OBVIOUS
<1> QED BY <1>1 DEF IdsOf, Range

LEMMA IdsAppended ==
  ASSUME NEW S, NEW s \in Seq(S), NEW o \in S
  PROVE  IdsOf(Append(s, o)) = IdsOf(s) \cup ({o.id} \ {0})
<1>1. Append(s, o) = s \o <<o>> /\ <<o>> \in Seq(S)
  BY AppendIsConcat
<1>2. IdsOf(s \o <<o>>) = IdsOf(s) \cup IdsOf(<<o>>)
  BY <1>1, IdsBoth
<1> QED BY <1>1, <1>2, IdsOfOne

\* No two rows with the same number; 0 is none.
Distinct(s) == \A i, k \in 1..Len(s) : s[i].id = s[k].id /\ s[i].id # 0 => i = k

LEMMA DistinctBoth ==
  ASSUME NEW S, NEW s \in Seq(S), NEW t \in Seq(S)
  PROVE  Distinct(s \o t) <=> Distinct(s) /\ Distinct(t) /\ IdsOf(s) \cap IdsOf(t) = {}
<1> DEFINE u == s \o t
           m == Len(s)
           n == Len(t)
<1>1. /\ m \in Nat /\ n \in Nat /\ Len(u) = m + n
      /\ \A i \in 1..(m + n) : u[i] = IF i =< m THEN s[i] ELSE t[i - m]
  BY ConcatProperties, LenProperties
<1>2. /\ \A x : x \in IdsOf(s) <=> x # 0 /\ \E i \in 1..m : s[i].id = x
      /\ \A x : x \in IdsOf(t) <=> x # 0 /\ \E i \in 1..n : t[i].id = x
  BY IdsMember
<1>3. /\ Distinct(s) <=> \A i, k \in 1..m : s[i].id = s[k].id /\ s[i].id # 0 => i = k
      /\ Distinct(t) <=> \A i, k \in 1..n : t[i].id = t[k].id /\ t[i].id # 0 => i = k
      /\ Distinct(u) <=> \A i, k \in 1..(m + n) : u[i].id = u[k].id /\ u[i].id # 0 => i = k
  BY <1>1 DEF Distinct
<1> HIDE DEF u, m, n
<1>4. ASSUME NEW i \in 1..m PROVE i \in 1..(m + n) /\ u[i] = s[i]
  BY <1>1
<1>5. ASSUME NEW i \in 1..n PROVE m + i \in 1..(m + n) /\ u[m + i] = t[i] /\ i \in Int
  <2>1. m + i \in 1..(m + n) /\ ~(m + i =< m) /\ (m + i) - m = i
    BY <1>1
  <2> QED BY <1>1, <2>1
<1>6. ASSUME Distinct(u) PROVE Distinct(s) /\ Distinct(t) /\ IdsOf(s) \cap IdsOf(t) = {}
  <2>1. Distinct(s)
    BY <1>3, <1>4, <1>6
  <2>2. Distinct(t)
    <3> SUFFICES ASSUME NEW i \in 1..n, NEW k \in 1..n, t[i].id = t[k].id, t[i].id # 0
                 PROVE  i = k
      BY <1>3
    <3>1. /\ m + i \in 1..(m + n) /\ m + k \in 1..(m + n)
          /\ u[m + i] = t[i] /\ u[m + k] = t[k] /\ i \in Int /\ k \in Int
      BY <1>5
    <3>2. m + i = m + k
      BY <1>3, <1>6, <3>1
    <3> QED BY <1>1, <3>1, <3>2
  <2>3. ASSUME NEW x \in IdsOf(s), x \in IdsOf(t) PROVE FALSE
    <3>1. PICK i \in 1..m : s[i].id = x /\ x # 0
      BY <1>2
    <3>2. PICK k \in 1..n : t[k].id = x
      BY <1>2, <2>3
    <3>3. i = m + k
      BY <1>3, <1>4, <1>5, <1>6, <3>1, <3>2
    <3> QED BY <1>1, <3>3
  <2> QED BY <2>1, <2>2, <2>3
<1>7. ASSUME Distinct(s), Distinct(t), IdsOf(s) \cap IdsOf(t) = {} PROVE Distinct(u)
  <2> SUFFICES ASSUME NEW i \in 1..(m + n), NEW k \in 1..(m + n), u[i].id = u[k].id, u[i].id # 0
               PROVE  i = k
    BY <1>3
  <2>1. \A l \in 1..(m + n) : \/ l \in 1..m /\ u[l] = s[l]
                              \/ l - m \in 1..n /\ u[l] = t[l - m]
    BY <1>1
  <2>2. CASE i \in 1..m /\ u[i] = s[i] /\ k \in 1..m /\ u[k] = s[k]
    BY <1>3, <1>7, <2>2
  <2>3. CASE i - m \in 1..n /\ u[i] = t[i - m] /\ k - m \in 1..n /\ u[k] = t[k - m]
    <3>1. i - m = k - m
      BY <1>3, <1>7, <2>3
    <3> QED BY <1>1, <3>1
  <2>4. CASE i \in 1..m /\ u[i] = s[i] /\ k - m \in 1..n /\ u[k] = t[k - m]
    <3>1. u[i].id \in IdsOf(s) /\ u[i].id \in IdsOf(t)
      BY <1>2, <2>4
    <3> QED BY <1>7, <3>1
  <2>5. CASE k \in 1..m /\ u[k] = s[k] /\ i - m \in 1..n /\ u[i] = t[i - m]
    <3>1. u[i].id \in IdsOf(s) /\ u[i].id \in IdsOf(t)
      BY <1>2, <2>5
    <3> QED BY <1>7, <3>1
  <2> QED BY <2>1, <2>2, <2>3, <2>4, <2>5
<1> QED BY <1>6, <1>7 DEF u

LEMMA DistinctOne == ASSUME NEW s, Len(s) = 1 PROVE Distinct(s)
<1>1. \A i, k \in 1..1 : i = k
  OBVIOUS
<1> QED BY <1>1 DEF Distinct

\* As many rows with a number as numbers.
LEMMA DistinctSize ==
  ASSUME NEW S, NEW s \in Seq(S), Distinct(s)
  PROVE  /\ Cardinality({i \in DOMAIN s : s[i].id # 0}) = Cardinality(IdsOf(s))
         /\ IsFiniteSet(IdsOf(s))
<1> DEFINE P == {i \in DOMAIN s : s[i].id # 0}
           I == IdsOf(s)
           f == [i \in P |-> s[i].id]
<1>1. Len(s) \in Nat /\ DOMAIN s = 1..Len(s)
  BY LenProperties
<1>2. IsFiniteSet(P)
  <2>1. IsFiniteSet(1..Len(s)) /\ P \in SUBSET (1..Len(s))
    BY <1>1, FS_Interval
  <2> HIDE DEF P
  <2> QED BY <2>1, FS_Subset
<1>3. \A x : x \in I <=> x # 0 /\ \E i \in 1..Len(s) : s[i].id = x
  BY IdsMember
<1> HIDE DEF I
<1>4. f \in Bijection(P, I)
  <2>1. \A i \in P : s[i].id \in I
    BY <1>1, <1>3
  <2>2. \A x \in I : \E i \in P : s[i].id = x
    BY <1>1, <1>3
  <2>3. \A i, k \in P : s[i].id = s[k].id => i = k
    BY <1>1 DEF Distinct
  <2> HIDE DEF P
  <2> QED BY <2>1, <2>2, <2>3 DEF Bijection, Injection, Surjection, IsInjective
<1> HIDE DEF P
<1>5. Cardinality(P) = Cardinality(I) /\ IsFiniteSet(I)
  BY <1>2, <1>4, FS_Bijection DEF ExistsBijection
<1> QED BY <1>5 DEF P, I

----------------------------------------------------------------------------
(* The inductive invariant *)

QueueKinds == {"signal", "snapshot", "status"}
Queued == [id : Nat \ {0}, kind : QueueKinds]
AnyRow == [id : Nat, kind : Kinds]
Stages == {"none", "first", "second", "single"}
Phases == {"running", "stopping", "ending", "recording", "signing", "closing", "cancelling",
           "draining", "closed"}

\* The batch a commit still has to write, by its maker.
Writing(j) == job[j].ops

\* What stop() commits is what a flush took from the queue, or a row of its own.
FromQueue(ops) == IF ops # <<>> /\ ops[1].kind \in QueueKinds THEN ops ELSE <<>>
Flush == FromQueue(Writing("stop"))
Solo == IF Flush = <<>> THEN Writing("stop") ELSE <<>>

IsFill(ops) == Len(ops) = 1 /\ ops[1].kind = "fill" /\ ops[1].id # 0
IsSessionRow(ops) ==
    Len(ops) = 1 /\ ops[1].kind \in {"complete", "holes", "ended"} /\ ops[1].id = 0

Typed ==
    /\ made \in Nat /\ budget \in Nat
    /\ bus \in Seq(Queued) /\ queue \in Seq(Queued) /\ pending \in Seq(Queued)
    /\ taken \in Seq(Queued) /\ arrived \in Seq(Queued)
    /\ writer \in {"getting", "collecting", "committing", "last", "ended"}
    /\ job \in [Jobs -> [ops : Seq(AnyRow), stage : Stages]]
    /\ lock \in Seq(Jobs)
    /\ phase \in Phases
    /\ failures \in BOOLEAN /\ row \in Summaries \cup {"none"} /\ ended \in BOOLEAN

\* Each commit under way stands in the lock's queue once, with something to write.
Locked ==
    /\ Once(lock)
    /\ \A j \in Jobs : /\ Occurs(j, lock) <=> Writing(j) # <<>>
                       /\ job[j].stage = "none" <=> Writing(j) = <<>>

\* What a flush took arrived before what the writer holds: it is ahead of it at the lock.
Ahead ==
    \A i, k \in 1..Len(lock) :
        lock[i] = "stop" /\ lock[k] = "writer" /\ Flush # <<>> => i < k

\* What each commit is of, and who holds rows when.
Working ==
    /\ Writing("writer") \in Seq(Queued) /\ Flush \in Seq(Queued)
    /\ Writing("writer") # <<>> => writer \in {"committing", "last"}
    /\ pending # <<>> => writer = "collecting"
    /\ taken # <<>> => Writing("writer") # <<>> /\ Writing("stop") = <<>>
    /\ Writing("engine") = <<>> \/ IsFill(Writing("engine"))
    /\ Solo = <<>> \/ IsFill(Solo) \/ IsSessionRow(Solo)
    /\ Solo # <<>> /\ Solo[1].kind = "complete" => phase = "recording" /\ failed = {} /\ over = {}

\* The shutdown empties one place after the other.
Emptied ==
    /\ phase = "running" => taken = <<>> /\ Writing("stop") = <<>>
    /\ phase # "running" => bus = <<>> /\ Writing("engine") = <<>>
    /\ phase \in {"ending", "recording", "signing"} => queue = <<>> /\ pending = <<>>
    /\ phase \in {"recording", "signing"} =>
          /\ taken = <<>> /\ Writing("writer") = <<>>
          /\ Writing("stop") = <<>> \/ IsSessionRow(Writing("stop"))
    /\ phase = "cancelling" =>
          /\ pending = <<>> /\ taken = <<>> /\ Writing("stop") = <<>>
          /\ writer \in {"last", "ended"}
          /\ writer = "ended" => Writing("writer") = <<>>
    /\ phase \in {"draining", "closed"} =>
          /\ queue = <<>> /\ pending = <<>> /\ writer = "ended"
          /\ Writing("writer") = <<>> /\ taken = <<>>
    /\ phase = "closed" => Writing("stop") = <<>>

\* The queued rows that are not settled are the last of those that arrived, in their order:
\* first what stop() flushes, then the writer's commit, what flush() took, what the writer
\* collects, and the queue.
Join(f, w, t, p, q) == ((((f \o w) \o t) \o p) \o q)
Line == Join(Flush, Writing("writer"), taken, pending, queue)
From == Len(arrived) - Len(Line)
Lined == From \in Nat /\ Matches(Line, arrived, From)

\* Every op is in one place.
Dropped == over \cup evicted \cup cancelled
Apart ==
    /\ Distinct(arrived) /\ Distinct(bus)
    /\ IdsOf(arrived) \cap (IdsOf(bus) \cup IdsOf(Solo) \cup IdsOf(Writing("engine")) \cup Dropped)
         = {}
    /\ \A k \in 1..Len(arrived) : arrived[k].id \in db \cup failed <=> k =< From
    /\ IdsOf(bus) \cap (Settled \cup IdsOf(Solo) \cup IdsOf(Writing("engine"))) = {}
    /\ IdsOf(Solo) \cap (Settled \cup IdsOf(Writing("engine"))) = {}
    /\ IdsOf(Writing("engine")) \cap Settled = {}

Accounted ==
    IdsOf(bus) \cup IdsOf(arrived) \cup IdsOf(Solo) \cup IdsOf(Writing("engine")) \cup Settled
        = 1..made

Budgeted == budget = Telemetry(queue) + Count(arrived, {"status"})

Inv ==
    Typed /\ Locked /\ Ahead /\ Working /\ Emptied /\ Lined /\ Apart /\ Accounted /\ Budgeted

\* Each kind that the budget counts, apart.
LEMMA CountKinds ==
  ASSUME NEW s \in Seq(Queued)
  PROVE  Count(s, Kinds \ {"signal"}) = Count(s, {"snapshot"}) + Count(s, {"status"})
<1> DEFINE A == {i \in DOMAIN s : s[i].kind \in {"snapshot"}}
           B == {i \in DOMAIN s : s[i].kind \in {"status"}}
           C == {i \in DOMAIN s : s[i].kind \in Kinds \ {"signal"}}
<1>1. IsFiniteSet(A) /\ IsFiniteSet(B)
  BY CountType
<1>2. \A i \in DOMAIN s : s[i].kind \in QueueKinds
  <2>1. DOMAIN s = 1..Len(s) /\ \A i \in 1..Len(s) : s[i] \in Queued
    BY ElementOfSeq, LenProperties
  <2> QED BY <2>1 DEF Queued
<1>3. C = A \cup B /\ A \cap B = {}
  BY <1>2 DEF QueueKinds, Kinds
<1>4. Cardinality(C) = Cardinality(A) + Cardinality(B)
  <2> HIDE DEF A, B, C
  <2> QED BY <1>1, <1>3, DisjointSizes
<1> QED BY <1>4 DEF Count
----------------------------------------------------------------------------
(* The places of the queued rows, one after the other *)

\* Concatenation, for reasoning by its laws alone.
Then(a, b) == a \o b

LEMMA Joining ==
  ASSUME NEW S
  PROVE  /\ \A a, b \in Seq(S) : Then(a, b) \in Seq(S)
         /\ \A a, b, c \in Seq(S) : Then(Then(a, b), c) = Then(a, Then(b, c))
         /\ <<>> \in Seq(S) /\ \A a \in Seq(S) : Then(a, <<>>) = a /\ Then(<<>>, a) = a
<1>1. \A a, b \in Seq(S) : a \o b \in Seq(S)
  BY ConcatProperties
<1>2. \A a, b, c \in Seq(S) : (a \o b) \o c = a \o (b \o c)
  BY ConcatAssociative
<1>3. <<>> \in Seq(S) /\ \A a \in Seq(S) : a \o <<>> = a /\ <<>> \o a = a
  BY EmptySeq, ConcatEmptySeq
<1> QED BY <1>1, <1>2, <1>3 DEF Then

LEMMA JoinType ==
  ASSUME NEW S, NEW f \in Seq(S), NEW w \in Seq(S), NEW t \in Seq(S), NEW p \in Seq(S),
         NEW q \in Seq(S)
  PROVE  /\ Join(f, w, t, p, q) \in Seq(S)
         /\ Join(f, w, t, p, q) = Then(f, Then(w, Then(t, Then(p, q))))
<1>1. /\ \A a, b \in Seq(S) : Then(a, b) \in Seq(S)
      /\ \A a, b, c \in Seq(S) : Then(Then(a, b), c) = Then(a, Then(b, c))
  BY Joining
<1>2. Join(f, w, t, p, q) = Then(Then(Then(Then(f, w), t), p), q)
  BY DEF Join, Then
<1> DEFINE fw == Then(f, w)
           fwt == Then(fw, t)
           pq == Then(p, q)
<1>3. fw \in Seq(S) /\ pq \in Seq(S) /\ fwt \in Seq(S)
  BY <1>1
<1>4. Then(Then(fwt, p), q) = Then(fwt, pq)
  BY <1>1, <1>3
<1>5. Then(fwt, pq) = Then(fw, Then(t, pq)) /\ Then(t, pq) \in Seq(S)
  BY <1>1, <1>3
<1>6. Then(fw, Then(t, pq)) = Then(f, Then(w, Then(t, pq))) /\ Then(w, Then(t, pq)) \in Seq(S)
  BY <1>1, <1>5
<1>7. Then(f, Then(w, Then(t, pq))) \in Seq(S)
  BY <1>1, <1>6
<1> QED BY <1>2, <1>4, <1>5, <1>6, <1>7

\* Rows move on to the next place.
LEMMA JoinMoves ==
  ASSUME NEW S, NEW f \in Seq(S), NEW w \in Seq(S), NEW t \in Seq(S), NEW p \in Seq(S),
         NEW q \in Seq(S), NEW a \in Seq(S)
  PROVE  /\ Join(f, w, t, p, Then(a, q)) = Join(f, w, t, Then(p, a), q)
         /\ Join(f, <<>>, <<>>, p, q) = Join(f, p, <<>>, <<>>, q)
         /\ Join(<<>>, w, <<>>, p, q) = Join(<<>>, w, Then(p, q), <<>>, <<>>)
         /\ Join(<<>>, <<>>, <<>>, p, q) =
                                  Join(Then(p, q), <<>>, <<>>, <<>>, <<>>)
<1>1. \A b \in Seq(S) : Then(b, <<>>) = b /\ Then(<<>>, b) = b
  BY Joining
<1>2. /\ Then(a, q) \in Seq(S) /\ Then(p, a) \in Seq(S) /\ Then(p, q) \in Seq(S)
      /\ Then(a, q) = a \o q /\ Then(p, a) = p \o a /\ Then(p, q) = p \o q
      /\ <<>> \in Seq(S)
  BY ConcatProperties, EmptySeq DEF Then
<1> DEFINE X == Seq(S)
<1>3. \A b, c, d, e, g \in X : Join(b, c, d, e, g) = Then(b, Then(c, Then(d, Then(e, g))))
  BY JoinType
<1>4. /\ f \in X /\ w \in X /\ t \in X /\ p \in X /\ q \in X /\ <<>> \in X
      /\ Then(a, q) \in X /\ Then(p, a) \in X /\ Then(p, q) \in X
  BY <1>2
<1> HIDE DEF X
<1>5. Join(f, w, t, p, Then(a, q)) = Join(f, w, t, Then(p, a), q)
  <2>1. Then(p, Then(a, q)) = Then(Then(p, a), q)
    BY Joining
  <2>2. /\ Join(f, w, t, p, Then(a, q)) = Then(f, Then(w, Then(t, Then(p, Then(a, q)))))
        /\ Join(f, w, t, Then(p, a), q) = Then(f, Then(w, Then(t, Then(Then(p, a), q))))
    BY <1>4, <1>3
  <2> QED BY <2>1, <2>2
<1>6. Join(f, <<>>, <<>>, p, q) = Join(f, p, <<>>, <<>>, q)
  <2>1. Then(<<>>, Then(<<>>, Then(p, q))) = Then(p, q) /\ Then(<<>>, Then(<<>>, q)) = q
    BY <1>1, <1>2
  <2>2. /\ Join(f, <<>>, <<>>, p, q) = Then(f, Then(<<>>, Then(<<>>, Then(p, q))))
        /\ Join(f, p, <<>>, <<>>, q) = Then(f, Then(p, Then(<<>>, Then(<<>>, q))))
    BY <1>4, <1>3
  <2> QED BY <2>1, <2>2
<1>7. Join(<<>>, w, <<>>, p, q) = Join(<<>>, w, Then(p, q), <<>>, <<>>)
  <2>1. /\ Then(<<>>, Then(p, q)) = Then(p, q)
        /\ Then(<<>>, <<>>) = <<>> /\ Then(Then(p, q), <<>>) = Then(p, q)
    BY <1>1, <1>2
  <2>2. /\ Join(<<>>, w, <<>>, p, q) = Then(<<>>, Then(w, Then(<<>>, Then(p, q))))
        /\ Join(<<>>, w, Then(p, q), <<>>, <<>>)
              = Then(<<>>, Then(w, Then(Then(p, q), Then(<<>>, <<>>))))
    BY <1>4, <1>3
  <2> QED BY <2>1, <2>2
<1>8. Join(<<>>, <<>>, <<>>, p, q) = Join(Then(p, q), <<>>, <<>>, <<>>, <<>>)
  <2>1. /\ Then(<<>>, Then(p, q)) = Then(p, q)
        /\ Then(<<>>, <<>>) = <<>> /\ Then(Then(p, q), <<>>) = Then(p, q)
    BY <1>1, <1>2
  <2>2. /\ Join(<<>>, <<>>, <<>>, p, q) = Then(<<>>, Then(<<>>, Then(<<>>, Then(p, q))))
        /\ Join(Then(p, q), <<>>, <<>>, <<>>, <<>>)
              = Then(Then(p, q), Then(<<>>, Then(<<>>, Then(<<>>, <<>>))))
    BY <1>4, <1>3
  <2> QED BY <2>1, <2>2
<1> QED BY <1>2, <1>5, <1>6, <1>7, <1>8

\* Rows leave in front.
LEMMA JoinCut ==
  ASSUME NEW S, NEW f \in Seq(S), NEW w \in Seq(S), NEW t \in Seq(S), NEW p \in Seq(S),
         NEW q \in Seq(S), NEW a \in Seq(S)
  PROVE  /\ Join(Then(a, f), w, t, p, q) = Then(a, Join(f, w, t, p, q))
         /\ Join(<<>>, Then(a, w), t, p, q) = Then(a, Join(<<>>, w, t, p, q))
         /\ Join(<<>>, a, t, p, q) = Then(a, Join(t, <<>>, <<>>, p, q))
         /\ Join(a, w, t, p, q) = Then(a, Join(<<>>, w, t, p, q))
<1>1. \A b \in Seq(S) : Then(b, <<>>) = b /\ Then(<<>>, b) = b
  BY Joining
<1> DEFINE X == Seq(S)
<1>2. \A b, c, d, e, g \in X : Join(b, c, d, e, g) = Then(b, Then(c, Then(d, Then(e, g))))
  BY JoinType
<1> DEFINE r == Then(p, q)
           u == Then(t, r)
           v == Then(w, u)
<1>3. /\ r \in Seq(S) /\ u \in Seq(S) /\ v \in Seq(S) /\ <<>> \in Seq(S)
      /\ Then(a, f) \in Seq(S) /\ Then(a, w) \in Seq(S) /\ Then(a, u) \in Seq(S)
      /\ Then(a, v) \in Seq(S) /\ Then(f, v) \in Seq(S)
  <2>1. r \in Seq(S)
    BY Joining
  <2> HIDE DEF r
  <2>2. u \in Seq(S)
    BY <2>1, Joining
  <2> HIDE DEF u
  <2>3. v \in Seq(S) /\ Then(a, u) \in Seq(S)
    BY <2>2, Joining
  <2> HIDE DEF v
  <2>4. Then(a, v) \in Seq(S) /\ Then(f, v) \in Seq(S)
    BY <2>3, Joining
  <2>5. <<>> \in Seq(S) /\ Then(a, f) \in Seq(S) /\ Then(a, w) \in Seq(S)
    BY Joining
  <2> QED BY <2>1, <2>2, <2>3, <2>4, <2>5
<1>4. /\ Join(Then(a, f), w, t, p, q) = Then(Then(a, f), v) /\ Join(f, w, t, p, q) = Then(f, v)
      /\ Join(<<>>, Then(a, w), t, p, q) = Then(<<>>, Then(Then(a, w), u))
      /\ Join(<<>>, w, t, p, q) = Then(<<>>, v) /\ Join(a, w, t, p, q) = Then(a, v)
      /\ Join(<<>>, a, t, p, q) = Then(<<>>, Then(a, u))
      /\ Join(t, <<>>, <<>>, p, q) = Then(t, Then(<<>>, Then(<<>>, r)))
  <2>1. /\ <<>> \in X /\ Then(a, f) \in X /\ Then(a, w) \in X
        /\ a \in X /\ f \in X /\ w \in X /\ t \in X
    BY <1>3
  <2>2. p \in X /\ q \in X
    OBVIOUS
  <2>3. t \in X /\ w \in X
    OBVIOUS
  <2> HIDE DEF X
  <2>4. ASSUME NEW b \in X, NEW c \in X, NEW d \in X
        PROVE  Join(b, c, d, p, q) = Then(b, Then(c, Then(d, r)))
    BY <1>2, <2>2
  <2> HIDE DEF r
  <2>5. ASSUME NEW b \in X, NEW c \in X PROVE Join(b, c, t, p, q) = Then(b, Then(c, u))
    BY <2>3, <2>4
  <2>6. Join(t, <<>>, <<>>, p, q) = Then(t, Then(<<>>, Then(<<>>, r)))
    BY <2>1, <2>4
  <2> HIDE DEF u
  <2>7. ASSUME NEW b \in X PROVE Join(b, w, t, p, q) = Then(b, v)
    BY <2>3, <2>5
  <2>8. /\ Join(<<>>, Then(a, w), t, p, q) = Then(<<>>, Then(Then(a, w), u))
        /\ Join(<<>>, a, t, p, q) = Then(<<>>, Then(a, u))
    BY <2>1, <2>5
  <2> HIDE DEF v
  <2>9. /\ Join(Then(a, f), w, t, p, q) = Then(Then(a, f), v) /\ Join(f, w, t, p, q) = Then(f, v)
        /\ Join(<<>>, w, t, p, q) = Then(<<>>, v) /\ Join(a, w, t, p, q) = Then(a, v)
    BY <2>1, <2>7
  <2> QED BY <2>6, <2>8, <2>9
<1> HIDE DEF r, v
<1>5. Then(Then(a, f), v) = Then(a, Then(f, v)) /\ Then(Then(a, w), u) = Then(a, v)
  <2>1. Then(Then(a, f), v) = Then(a, Then(f, v))
    BY <1>3, Joining
  <2>2. Then(Then(a, w), u) = Then(a, Then(w, u))
    <3> HIDE DEF u
    <3> QED BY <1>3, Joining
  <2> QED BY <2>1, <2>2 DEF v
<1>6. Then(t, Then(<<>>, Then(<<>>, r))) = u /\ Then(<<>>, Then(a, u)) = Then(a, u)
  BY <1>1, <1>3
<1>7. Then(<<>>, v) = v /\ Then(<<>>, Then(a, v)) = Then(a, v)
  BY <1>1, <1>3
<1>8. /\ Join(Then(a, f), w, t, p, q) = Then(a, Join(f, w, t, p, q))
      /\ Join(<<>>, Then(a, w), t, p, q) = Then(a, Join(<<>>, w, t, p, q))
      /\ Join(<<>>, a, t, p, q) = Then(a, Join(t, <<>>, <<>>, p, q))
      /\ Join(a, w, t, p, q) = Then(a, Join(<<>>, w, t, p, q))
  BY <1>4, <1>5, <1>6, <1>7
<1> QED BY <1>8

\* Rows arrive at the end.
LEMMA JoinMore ==
  ASSUME NEW S, NEW f \in Seq(S), NEW w \in Seq(S), NEW t \in Seq(S), NEW p \in Seq(S),
         NEW q \in Seq(S), NEW a \in Seq(S)
  PROVE  Join(f, w, t, p, Then(q, a)) = Then(Join(f, w, t, p, q), a)
<1> DEFINE u == Then(Then(Then(f, w), t), p)
<1>1. \A b, c, d \in Seq(S) : Then(Then(b, c), d) = Then(b, Then(c, d))
  BY Joining
<1>2. u \in Seq(S)
  <2>1. \A b, c \in Seq(S) : Then(b, c) \in Seq(S)
    BY Joining
  <2> QED BY <2>1
<1>3. Join(f, w, t, p, Then(q, a)) = Then(u, Then(q, a)) /\ Join(f, w, t, p, q) = Then(u, q)
  BY DEF Join, Then
<1> HIDE DEF u
<1>4. Then(u, Then(q, a)) = Then(Then(u, q), a)
  BY <1>1, <1>2
<1> QED BY <1>3, <1>4

----------------------------------------------------------------------------
(* What the invariant says at a glance *)

LEMMA Empty == ASSUME NEW S, NEW s \in Seq(S) PROVE s = <<>> <=> Len(s) = 0
BY EmptySeq

LEMMA Places ==
  ASSUME Typed, Working
  PROVE  /\ bus \in Seq(Queued) /\ queue \in Seq(Queued) /\ pending \in Seq(Queued)
         /\ taken \in Seq(Queued) /\ arrived \in Seq(Queued)
         /\ Writing("writer") \in Seq(Queued) /\ Flush \in Seq(Queued)
         /\ Writing("stop") \in Seq(AnyRow) /\ Writing("engine") \in Seq(AnyRow)
         /\ Solo \in Seq(AnyRow) /\ <<>> \in Seq(Queued) /\ <<>> \in Seq(AnyRow)
         /\ Line \in Seq(Queued)
<1>1. \A j \in Jobs : Writing(j) \in Seq(AnyRow)
  BY DEF Typed, Writing
<1>2. /\ bus \in Seq(Queued) /\ queue \in Seq(Queued) /\ pending \in Seq(Queued)
      /\ taken \in Seq(Queued) /\ arrived \in Seq(Queued)
      /\ Writing("writer") \in Seq(Queued) /\ Flush \in Seq(Queued)
  BY DEF Typed, Working
<1>3. <<>> \in Seq(Queued) /\ <<>> \in Seq(AnyRow)
  BY EmptySeq
<1>4. Solo \in Seq(AnyRow)
  BY <1>1, <1>3 DEF Solo, Jobs
<1>5. Line \in Seq(Queued)
  BY <1>2, JoinType DEF Line
<1> QED BY <1>1, <1>2, <1>3, <1>4, <1>5 DEF Jobs

LEMMA Lengths ==
  ASSUME Typed, Working
  PROVE  /\ Len(bus) \in Nat /\ Len(queue) \in Nat /\ Len(pending) \in Nat /\ Len(taken) \in Nat
         /\ Len(Writing("writer")) \in Nat /\ Len(arrived) \in Nat /\ Len(Line) \in Nat
         /\ Len(<<>>) = 0
BY Places, LenProperties, EmptySeq

LEMMA Idling ==
  ASSUME Typed, Locked, NEW j \in Jobs
  PROVE  /\ job[j] = NoJob <=> Writing(j) = <<>>
         /\ job[j].stage \in Stages /\ job[j] = [ops |-> Writing(j), stage |-> job[j].stage]
<1>1. /\ job[j] = [ops |-> Writing(j), stage |-> job[j].stage]
      /\ job[j].stage \in Stages
  BY DEF Typed, Writing
<1>2. job[j].stage = "none" <=> Writing(j) = <<>>
  BY DEF Locked
<1>3. ASSUME Writing(j) = <<>> PROVE job[j] = NoJob
  BY <1>1, <1>2, <1>3 DEF NoJob
<1>4. ASSUME job[j] = NoJob PROVE Writing(j) = <<>>
  BY <1>4 DEF NoJob, Writing
<1> QED BY <1>1, <1>3, <1>4

\* What stop() commits is a flush or a row of its own.
LEMMA StopsJob ==
         /\ Writing("stop") = <<>> => Flush = <<>> /\ Solo = <<>>
         /\ Flush # <<>> => Flush = Writing("stop") /\ Solo = <<>>
         /\ Flush = <<>> => Solo = Writing("stop")
         /\ Solo # <<>> => Flush = <<>> /\ Solo = Writing("stop")
BY DEF Flush, Solo, FromQueue
----------------------------------------------------------------------------
(* Rows put in the queue, or dropped *)

\* The rows of s are those of more and those numbered in lost.
Split(s, more, lost) ==
    /\ Distinct(more) /\ IdsOf(more) \cup lost = IdsOf(s) /\ IdsOf(more) \cap lost = {}

Stores(more, lost) ==
    /\ queue' = queue \o more /\ arrived' = arrived \o more /\ over' = over \cup lost
    /\ budget' = budget + Count(more, Kinds \ {"signal"})

LEMMA Splits ==
  ASSUME NEW s \in Seq(Queued), Distinct(s), NEW P \in SUBSET (1..Len(s))
  PROVE  /\ Subsequence(s, P) \in Seq(Queued)
         /\ Split(s, Subsequence(s, P), {s[i].id : i \in DOMAIN s \ P})
<1> DEFINE more == Subsequence(s, P)
           lost == {s[i].id : i \in DOMAIN s \ P}
           n == Len(more)
<1>1. more \in Seq(Queued) /\ \E place \in [1..n -> P] : Picks(more, s, P, place)
  BY Chosen
<1>2. DOMAIN s = 1..Len(s) /\ Len(s) \in Nat /\ \A i \in 1..Len(s) : s[i].id # 0
  <2>1. DOMAIN s = 1..Len(s) /\ Len(s) \in Nat /\ \A i \in 1..Len(s) : s[i] \in Queued
    BY ElementOfSeq, LenProperties
  <2> QED BY <2>1 DEF Queued
<1> HIDE DEF more
<1>3. PICK place \in [1..n -> P] : Picks(more, s, P, place)
  BY <1>1
<1>4. /\ \A i \in 1..n : place[i] \in P /\ place[i] \in 1..Len(s) /\ more[i] = s[place[i]]
      /\ \A i, k \in 1..n : i < k => place[i] < place[k]
      /\ \A p \in P : p \in 1..Len(s) /\ \E i \in 1..n : place[i] = p
      /\ n \in Nat
  BY <1>1, <1>3, LenProperties DEF Picks
<1> HIDE DEF n
<1>5. \A i, k \in 1..Len(s) : s[i].id = s[k].id => i = k
  BY <1>2 DEF Distinct
<1>6. /\ \A x : x \in IdsOf(more) <=> x # 0 /\ \E i \in 1..n : more[i].id = x
      /\ \A x : x \in IdsOf(s) <=> x # 0 /\ \E i \in 1..Len(s) : s[i].id = x
  BY <1>1, IdsMember DEF n
<1>7. \A x : x \in IdsOf(more) <=> \E p \in P : s[p].id = x
  <2>1. ASSUME NEW i \in 1..n PROVE place[i] \in P /\ s[place[i]].id = more[i].id
    BY <1>4
  <2>2. ASSUME NEW p \in P PROVE s[p].id # 0 /\ \E i \in 1..n : more[i].id = s[p].id
    BY <1>2, <1>4
  <2>3. ASSUME NEW x \in IdsOf(more) PROVE \E p \in P : s[p].id = x
    <3>1. PICK i \in 1..n : more[i].id = x
      BY <1>6
    <3> QED BY <2>1, <3>1
  <2>4. ASSUME NEW p \in P PROVE s[p].id \in IdsOf(more)
    BY <1>6, <2>2
  <2> QED BY <2>3, <2>4
<1>8. Distinct(more)
  <2> SUFFICES ASSUME NEW i \in 1..n, NEW k \in 1..n, more[i].id = more[k].id PROVE i = k
    BY <1>1 DEF Distinct, n
  <2>1. place[i] = place[k] /\ place[i] \in Int
    BY <1>2, <1>4, <1>5
  <2>2. ~(i < k) /\ ~(k < i)
    BY <1>4, <2>1
  <2> QED BY <1>4, <2>2
<1>9. IdsOf(more) \cup lost = IdsOf(s) /\ IdsOf(more) \cap lost = {}
  BY <1>2, <1>5, <1>6, <1>7
<1> QED BY <1>1, <1>8, <1>9 DEF Split, more

LEMMA Persisting ==
  ASSUME NEW s \in Seq(Queued), Distinct(s), Enqueued(Persisted(s))
  PROVE  \E more \in Seq(Queued), lost \in SUBSET Nat :
            Split(s, more, lost) /\ Stores(more, lost)
<1> DEFINE kept == {i \in DOMAIN s :
                      s[i].kind = "signal"
                      \/ budget + Count(SubSeq(s, 1, i), Kinds \ {"signal"}) =< MaxTelemetry}
           more == Subsequence(s, kept)
           lost == {s[i].id : i \in DOMAIN s \ kept}
<1>1. DOMAIN s = 1..Len(s)
  BY LenProperties
<1>2. kept \in SUBSET (1..Len(s))
  BY <1>1
<1>3. Stores(more, lost)
  BY DEF Stores, Enqueued, Persisted
<1> HIDE DEF kept
<1>4. more \in Seq(Queued) /\ Split(s, more, lost)
  BY <1>2, Splits
<1>5. lost \in SUBSET Nat
  <2>1. \A i \in 1..Len(s) : s[i] \in Queued
    BY ElementOfSeq
  <2> QED BY <1>1, <2>1 DEF Queued
<1> QED BY <1>3, <1>4, <1>5

\* The budget after rows were put in the queue, or taken out of it.
LEMMA Budgeting ==
  ASSUME queue \in Seq(Queued), arrived \in Seq(Queued), Budgeted
  PROVE  /\ \A more \in Seq(Queued) : \A lost : Stores(more, lost) => Budgeted'
         /\ \A n \in 0..Len(queue) : Dequeued(n) /\ arrived' = arrived => Budgeted'
<1>1. ASSUME NEW more \in Seq(Queued), NEW lost, Stores(more, lost) PROVE Budgeted'
  <2>1. /\ Count(queue \o more, {"snapshot"}) =
           Count(queue, {"snapshot"}) + Count(more, {"snapshot"})
        /\ Count(arrived \o more, {"status"}) = Count(arrived, {"status"}) + Count(more, {"status"})
    BY CountBoth
  <2>2. Count(more, Kinds \ {"signal"}) = Count(more, {"snapshot"}) + Count(more, {"status"})
    BY CountKinds
  <2>3. /\ Count(queue, {"snapshot"}) \in Nat /\ Count(more, {"snapshot"}) \in Nat
        /\ Count(arrived, {"status"}) \in Nat /\ Count(more, {"status"}) \in Nat
    BY CountType
  <2>4. /\ queue' = queue \o more /\ arrived' = arrived \o more
        /\ budget' = budget + Count(more, Kinds \ {"signal"})
        /\ budget = Count(queue, {"snapshot"}) + Count(arrived, {"status"})
    BY <1>1 DEF Stores, Budgeted, Telemetry
  <2>5. budget' = Count(queue', {"snapshot"}) + Count(arrived', {"status"})
    BY <2>1, <2>2, <2>3, <2>4
  <2> QED BY <2>5 DEF Budgeted, Telemetry
<1>2. ASSUME NEW n \in 0..Len(queue), Dequeued(n), arrived' = arrived PROVE Budgeted'
  <2> DEFINE a == SubSeq(queue, 1, n)
             b == SubSeq(queue, n + 1, Len(queue))
  <2>1. a \in Seq(Queued) /\ b \in Seq(Queued) /\ queue = a \o b
    BY Cut
  <2>2. queue' = b /\ budget' = budget - Count(a, {"snapshot"})
    BY <1>2 DEF Dequeued, Telemetry
  <2> HIDE DEF a, b
  <2>3. Count(a \o b, {"snapshot"}) = Count(a, {"snapshot"}) + Count(b, {"snapshot"})
    BY <2>1, CountBoth
  <2>4. Count(a, {"snapshot"}) \in Nat /\ Count(b, {"snapshot"}) \in Nat
        /\ Count(arrived, {"status"}) \in Nat
    BY <2>1, CountType
  <2>5. budget = Count(queue, {"snapshot"}) + Count(arrived, {"status"})
    BY DEF Budgeted, Telemetry
  <2>6. budget' = Count(queue', {"snapshot"}) + Count(arrived', {"status"})
    BY <1>2, <2>1, <2>2, <2>3, <2>4, <2>5
  <2> QED BY <2>6 DEF Budgeted, Telemetry
<1> QED BY <1>1, <1>2

----------------------------------------------------------------------------
(* What a step does to the places *)

\* Rows that leave the line in front are settled; without any, nothing has happened to it.
LEMMA Settling ==
  ASSUME Typed, Working, Lined, Apart, Accounted,
         NEW done \in Seq(Queued), Line' \in Seq(Queued), Line = done \o Line',
         made' = made, arrived' = arrived, bus' = bus, IdsOf(Solo)' = IdsOf(Solo),
         IdsOf(Writing("engine"))' = IdsOf(Writing("engine")),
         (db \cup failed)' = db \cup failed \cup IdsOf(done), Dropped' = Dropped
  PROVE  Lined' /\ Apart' /\ Accounted' /\ IdsOf(done) \subseteq 1..made
<1> DEFINE A == IdsOf(bus)
           B == IdsOf(Solo)
           C == IdsOf(Writing("engine"))
           D == IdsOf(arrived)
           W == db \cup failed
           N == IdsOf(done)
           m == Len(done)
           n == Len(arrived)
           next == Line'
<1>1. /\ m \in Nat /\ Len(next) \in Nat /\ n \in Nat /\ From = n - Len(Line)
      /\ From' = n - Len(next)
      /\ Len(Line) = m + Len(next)
  BY Places, LenProperties, ConcatProperties DEF From
<1>2. From \in Nat /\ From' = From + m /\ From' \in Nat /\ From + m =< n
  BY <1>1 DEF Lined
<1>3. Matches(done, arrived, From) /\ Matches(next, arrived, From + m)
  BY <1>2, MatchesBoth DEF Lined
<1>4. Lined'
  BY <1>2, <1>3 DEF Lined
<1>5. \A i \in 1..m : From + i \in 1..n /\ done[i].id = arrived[From + i].id
  <2> SUFFICES ASSUME NEW i \in 1..m PROVE From + i \in 1..n /\ done[i].id = arrived[From + i].id
    OBVIOUS
  <2>1. done[i] = arrived[From + i]
    BY <1>3 DEF Matches
  <2>2. From + i \in 1..n
    <3> HIDE DEF m, n
    <3> QED BY <1>1, <1>2
  <2> QED BY <2>1, <2>2
<1>6. /\ \A x : x \in N <=> x # 0 /\ \E i \in 1..m : done[i].id = x
      /\ \A x : x \in D <=> x # 0 /\ \E i \in 1..n : arrived[i].id = x
  BY IdsMember DEF Typed
<1>7. \A k \in 1..n : arrived[k].id # 0
  <2>1. \A k \in 1..n : arrived[k] \in Queued
    BY ElementOfSeq DEF Typed
  <2> QED BY <2>1 DEF Queued
<1>8. N \subseteq D
  BY <1>5, <1>6
<1>9. /\ \A k \in 1..n : arrived[k].id \in W <=> k =< From
      /\ D \cap (A \cup B \cup C \cup Dropped) = {} /\ A \cap (Settled \cup B \cup C) = {}
      /\ B \cap (Settled \cup C) = {} /\ C \cap Settled = {}
      /\ Settled = W \cup Dropped /\ Settled' = W \cup N \cup Dropped
      /\ A \cup D \cup B \cup C \cup Settled = 1..made
  BY DEF Apart, Accounted, Settled, Dropped
<1>10. \A k \in 1..n : arrived[k].id \in W \cup N <=> k =< From + m
  <2> SUFFICES ASSUME NEW k \in 1..n PROVE arrived[k].id \in W \cup N <=> k =< From + m
    OBVIOUS
  <2>1. ASSUME arrived[k].id \in N PROVE k =< From + m
    <3>1. PICK i \in 1..m : done[i].id = arrived[k].id
      BY <1>6, <2>1
    <3>2. From + i = k
      BY <1>5, <1>7, <3>1 DEF Apart, Distinct
    <3> QED BY <1>1, <1>2, <3>2
  <2>2. ASSUME k =< From + m, ~(k =< From) PROVE arrived[k].id \in N
    <3>1. k - From \in 1..m /\ From + (k - From) = k
      BY <1>1, <1>2, <2>2
    <3>2. done[k - From].id = arrived[k].id
      BY <1>5, <3>1
    <3> QED BY <1>6, <1>7, <3>1, <3>2
  <2>3. k =< From => k =< From + m
    BY <1>1, <1>2
  <2> QED BY <1>9, <2>1, <2>2, <2>3
<1>11. IdsOf(bus)' = A /\ IdsOf(arrived)' = D
  OBVIOUS
<1> HIDE DEF A, B, C, D, W, N, m, n
<1>12. /\ A \cap ((W \cup N \cup Dropped) \cup B \cup C) = {}
       /\ B \cap ((W \cup N \cup Dropped) \cup C) = {}
       /\ C \cap (W \cup N \cup Dropped) = {}
       /\ A \cup D \cup B \cup C \cup (W \cup N \cup Dropped) = 1..made
       /\ N \subseteq 1..made
  BY <1>8, <1>9
<1>13. Apart'
  <2>1. Distinct(arrived)' /\ Distinct(bus)'
    BY DEF Apart
  <2>2. (IdsOf(arrived) \cap
          (IdsOf(bus) \cup IdsOf(Solo) \cup IdsOf(Writing("engine")) \cup Dropped))' = {}
    BY <1>9, <1>11 DEF A, B, C, D
  <2>3. (\A k \in 1..Len(arrived) : arrived[k].id \in db \cup failed <=> k =< From)'
    BY <1>2, <1>10 DEF n, W, N
  <2>4. (IdsOf(bus) \cap (Settled \cup IdsOf(Solo) \cup IdsOf(Writing("engine"))))' = {}
    BY <1>9, <1>11, <1>12 DEF A, B, C
  <2>5. (IdsOf(Solo) \cap (Settled \cup IdsOf(Writing("engine"))))' = {}
    BY <1>9, <1>12 DEF B, C
  <2>6. (IdsOf(Writing("engine")) \cap Settled)' = {}
    BY <1>9, <1>12 DEF C
  <2> QED BY <2>1, <2>2, <2>3, <2>4, <2>5, <2>6 DEF Apart
<1>14. Accounted'
  BY <1>9, <1>11, <1>12 DEF A, B, C, D, Accounted
<1> QED BY <1>4, <1>12, <1>13, <1>14 DEF N

\* A row that waited for its commit is settled: stop()'s own, or the engine's.
LEMMA OwnSettled ==
  ASSUME Typed, Working, Lined, Apart, Accounted, NEW E, Line' = Line,
         made' = made, arrived' = arrived, bus' = bus,
         \/ /\ E = IdsOf(Solo) /\ IdsOf(Solo)' = {}
            /\ IdsOf(Writing("engine"))' = IdsOf(Writing("engine"))
         \/ /\ E = IdsOf(Writing("engine")) /\ IdsOf(Solo)' = IdsOf(Solo)
            /\ IdsOf(Writing("engine"))' = {},
         \/ (db \cup failed)' = db \cup failed \cup E /\ Dropped' = Dropped
         \/ (db \cup failed)' = db \cup failed /\ Dropped' = Dropped \cup E
  PROVE  Lined' /\ Apart' /\ Accounted'
<1> DEFINE A == IdsOf(bus)
           B == IdsOf(Solo)
           C == IdsOf(Writing("engine"))
           D == IdsOf(arrived)
           W == db \cup failed
           n == Len(arrived)
<1>1. From' = From
  BY DEF From
<1>2. Lined'
  BY <1>1 DEF Lined
<1>3. /\ D \cap (A \cup B \cup C \cup Dropped) = {} /\ A \cap (W \cup Dropped \cup B \cup C) = {}
      /\ B \cap (W \cup Dropped \cup C) = {} /\ C \cap (W \cup Dropped) = {}
      /\ A \cup D \cup B \cup C \cup (W \cup Dropped) = 1..made
      /\ Settled' = W' \cup Dropped'
  BY DEF Apart, Accounted, Settled, Dropped
<1>4. \A k \in 1..n : arrived[k].id \in D
  <2>1. \A k \in 1..n : arrived[k] \in Queued
    BY ElementOfSeq DEF Typed
  <2>2. \A k \in 1..n : arrived[k].id # 0
    BY <2>1 DEF Queued
  <2> QED BY <2>2, IdsMember DEF Typed
<1>5. E \cap D = {}
  BY <1>3
<1>6. A' = A /\ D' = D /\ n' = n
  OBVIOUS
<1>7. \A k \in 1..n : arrived[k].id \in W' <=> k =< From
  <2>1. \A k \in 1..n : arrived[k].id \in W <=> k =< From
    BY DEF Apart
  <2>2. W' = W \/ W' = W \cup E
    OBVIOUS
  <2> QED BY <1>4, <1>5, <2>1, <2>2
<1>8. \/ E = B /\ B' = {} /\ C' = C
      \/ E = C /\ B' = B /\ C' = {}
  OBVIOUS
<1>9. \/ W' = W \cup E /\ Dropped' = Dropped
      \/ W' = W /\ Dropped' = Dropped \cup E
  OBVIOUS
<1>10. Distinct(arrived)' /\ Distinct(bus)'
  BY DEF Apart
<1>11. /\ D \cap (A \cup B' \cup C' \cup Dropped') = {}
       /\ A \cap ((W' \cup Dropped') \cup B' \cup C') = {}
       /\ B' \cap ((W' \cup Dropped') \cup C') = {} /\ C' \cap (W' \cup Dropped') = {}
       /\ A \cup D \cup B' \cup C' \cup (W' \cup Dropped') = 1..made
  <2> HIDE DEF A, B, C, D, W, n
  <2>1. CASE E = B /\ B' = {} /\ C' = C
    BY <1>3, <1>9, <2>1
  <2>2. CASE E = C /\ B' = B /\ C' = {}
    BY <1>3, <1>9, <2>2
  <2> QED BY <1>8, <2>1, <2>2
<1>12. Apart'
  BY <1>1, <1>3, <1>6, <1>7, <1>10, <1>11 DEF Apart
<1>13. Accounted'
  BY <1>3, <1>6, <1>11 DEF Accounted
<1> QED BY <1>2, <1>12, <1>13

\* Rows are queued, or dropped for the budget: new ones, or those of the bus.  E is what the
\* cancelled engine was committing.
LEMMA Arriving ==
  ASSUME Typed, Working, Lined, Apart, Accounted, NEW s \in Seq(Queued), NEW E,
         NEW more \in Seq(Queued), NEW lost, Split(s, more, lost), Stores(more, lost),
         Line' = Line \o more, IdsOf(Solo)' = IdsOf(Solo),
         \/ bus' = <<>> /\ s = bus /\ made' = made
         \/ /\ bus' = bus /\ made' = made + 1 /\ IdsOf(s) = {made + 1},
         \/ E = {} /\ IdsOf(Writing("engine"))' = IdsOf(Writing("engine"))
         \/ E = IdsOf(Writing("engine")) /\ IdsOf(Writing("engine"))' = {},
         failed' = failed, evicted' = evicted,
         \/ db' = db \cup E /\ cancelled' = cancelled
         \/ db' = db /\ cancelled' = cancelled \cup E
  PROVE  Lined' /\ Apart' /\ Accounted'
<1> DEFINE A == IdsOf(bus)
           B == IdsOf(Solo)
           C == IdsOf(Writing("engine"))
           D == IdsOf(arrived)
           W == db \cup failed
           n == Len(arrived)
           M == IdsOf(more)
           X == IdsOf(s)
<1>1. /\ n \in Nat /\ Len(more) \in Nat /\ Len(Line) \in Nat /\ Len(arrived') = n + Len(more)
      /\ Len(Line') = Len(Line) + Len(more) /\ Line \in Seq(Queued)
      /\ arrived \in Seq(Queued) /\ arrived' = arrived \o more
  <2>1. /\ Line \in Seq(Queued) /\ arrived \in Seq(Queued) /\ arrived' = arrived \o more
    BY Places DEF Stores
  <2> QED BY <2>1, LenProperties, ConcatProperties
<1>2. From' = From /\ From \in Nat /\ From + Len(Line) = n /\ Matches(Line, arrived, From)
  BY <1>1 DEF From, Lined
<1>3. Lined'
  <2>1. Matches(more, arrived', n)
    BY <1>1, MatchesEnd
  <2>2. Matches(Line, arrived', From)
    BY <1>1, <1>2, MatchesLonger
  <2>3. Matches(more, arrived', From + Len(Line)) /\ From \in Int
    <3>1. From + Len(Line) = n /\ From \in Int
      BY <1>2
    <3> QED BY <2>1, <3>1
  <2>4. Matches(Line \o more, arrived', From)
    BY <1>1, <2>2, <2>3, MatchesBoth
  <2> QED BY <1>2, <2>4 DEF Lined
<1>4. /\ D \cap (A \cup B \cup C \cup Dropped) = {} /\ A \cap (W \cup Dropped \cup B \cup C) = {}
      /\ B \cap (W \cup Dropped \cup C) = {} /\ C \cap (W \cup Dropped) = {}
      /\ A \cup D \cup B \cup C \cup (W \cup Dropped) = 1..made
      /\ Settled' = W' \cup Dropped'
  BY DEF Apart, Accounted, Settled, Dropped
<1>5. M \cup lost = X /\ M \cap lost = {} /\ Distinct(more)
  BY DEF Split
<1>6. D' = D \cup M
  BY <1>1, IdsBoth
<1>7. \/ A' = {} /\ X = A /\ made' = made
      \/ A' = A /\ made' = made + 1 /\ X = {made + 1}
  BY IdsNone
<1>8. \/ E = {} /\ C' = C
      \/ E = C /\ C' = {}
  OBVIOUS
<1>9. \/ W' = W \cup E /\ Dropped' = Dropped \cup lost
      \/ W' = W /\ Dropped' = Dropped \cup lost \cup E
  BY DEF Dropped, Stores
<1>10. B' = B
  OBVIOUS
<1>11. made \in Nat /\ (made + 1) \notin 1..made /\ 1..(made + 1) = (1..made) \cup {made + 1}
  BY DEF Typed
<1>12. /\ X \cap (D \cup B \cup C \cup W \cup Dropped) = {} /\ X \cap A' = {}
       /\ A' \cup X \cup D \cup B \cup C \cup (W \cup Dropped) = 1..made' /\ A' \subseteq A
  <2> HIDE DEF A, B, C, D, W, X
  <2>1. CASE A' = {} /\ X = A /\ made' = made
    BY <1>4, <2>1
  <2>2. CASE A' = A /\ made' = made + 1 /\ X = {made + 1}
    BY <1>4, <1>11, <2>2
  <2> QED BY <1>7, <2>1, <2>2
<1>13. /\ D' \cap (A' \cup B' \cup C' \cup Dropped') = {}
       /\ A' \cap ((W' \cup Dropped') \cup B' \cup C') = {}
       /\ B' \cap ((W' \cup Dropped') \cup C') = {} /\ C' \cap (W' \cup Dropped') = {}
       /\ A' \cup D' \cup B' \cup C' \cup (W' \cup Dropped') = 1..made'
       /\ D \cap M = {} /\ (D \cup M) \cap E = {} /\ M \cap W = {}
  <2> HIDE DEF A, B, C, D, W, X, M
  <2>1. CASE E = {} /\ C' = C
    BY <1>4, <1>5, <1>6, <1>9, <1>10, <1>12, <2>1
  <2>2. CASE E = C /\ C' = {}
    BY <1>4, <1>5, <1>6, <1>9, <1>10, <1>12, <2>2
  <2> QED BY <1>8, <2>1, <2>2
<1>14. Distinct(arrived)' /\ Distinct(bus)'
  <2>1. Distinct(arrived) /\ Distinct(bus)
    BY DEF Apart
  <2>2. Distinct(arrived')
    BY <1>1, <1>5, <1>13, <2>1, DistinctBoth
  <2>3. Distinct(bus')
    <3>1. Distinct(<<>>)
      <4>1. Len(<<>>) = 0 /\ 1..0 = {}
        BY EmptySeq
      <4> QED BY <4>1 DEF Distinct
    <3> QED BY <2>1, <3>1
  <2> QED BY <2>2, <2>3
<1>15. (\A k \in 1..Len(arrived) : arrived[k].id \in db \cup failed <=> k =< From)'
  <2> SUFFICES ASSUME NEW k \in 1..Len(arrived')
               PROVE  arrived'[k].id \in W' <=> k =< From
    BY <1>2
  <2>1. \A i \in 1..n : arrived[i].id \in D
    <3>1. \A i \in 1..n : arrived[i] \in Queued
      BY <1>1, ElementOfSeq
    <3>2. \A i \in 1..n : arrived[i].id # 0
      BY <3>1 DEF Queued
    <3> QED BY <1>1, <3>2, IdsMember
  <2>2. \A i \in 1..Len(more) : more[i].id \in M
    <3>1. \A i \in 1..Len(more) : more[i] \in Queued
      BY ElementOfSeq
    <3>2. \A i \in 1..Len(more) : more[i].id # 0
      BY <3>1 DEF Queued
    <3> QED BY <3>2, IdsMember
  <2>3. /\ k \in 1..(n + Len(more))
        /\ arrived'[k] = IF k =< n THEN arrived[k] ELSE more[k - n]
    BY <1>1, ConcatProperties
  <2>4. W' = W \/ W' = W \cup E
    BY <1>9
  <2>5. CASE k =< n
    <3>1. k \in 1..n /\ arrived'[k] = arrived[k]
      BY <1>1, <2>3, <2>5
    <3>2. arrived[k].id \in W <=> k =< From
      BY <3>1 DEF Apart
    <3> QED BY <1>13, <2>1, <2>4, <3>1, <3>2
  <2>6. CASE ~(k =< n)
    <3>1. k - n \in 1..Len(more) /\ arrived'[k] = more[k - n] /\ ~(k =< From)
      BY <1>1, <1>2, <2>3, <2>6
    <3> QED BY <1>13, <2>2, <2>4, <3>1
  <2> QED BY <2>5, <2>6
<1>16. Apart'
  BY <1>4, <1>13, <1>14, <1>15 DEF Apart
<1>17. Accounted'
  BY <1>4, <1>13 DEF Accounted
<1> QED BY <1>3, <1>16, <1>17

----------------------------------------------------------------------------
(* The commits and the lock *)

JobsTyped == job \in [Jobs -> [ops : Seq(AnyRow), stage : Stages]] /\ lock \in Seq(Jobs)

LEMMA OneLocked ==
  ASSUME JobsTyped, Locked, NEW j \in Jobs, Holds(j)
  PROVE  /\ lock # <<>> /\ lock[1] = j /\ 1 \in 1..Len(lock) /\ Writing(j) # <<>>
         /\ Ahead => (j = "writer" => Flush = <<>>)
<1>1. lock # <<>> /\ lock[1] = j /\ 1 \in 1..Len(lock) /\ Len(lock) \in Nat
  BY HeadAndTail DEF Holds, JobsTyped
<1>2. Writing(j) # <<>>
  BY <1>1 DEF Locked, Occurs
<1>3. ASSUME Ahead, j = "writer", Flush # <<>> PROVE FALSE
  <2>1. Writing("stop") # <<>>
    BY <1>3, StopsJob
  <2>2. PICK i \in 1..Len(lock) : lock[i] = "stop"
    BY <2>1 DEF Locked, Occurs, Jobs
  <2>3. i < 1
    BY <1>1, <1>3, <2>2 DEF Ahead
  <2> QED BY <1>1, <2>3
<1> QED BY <1>1, <1>2, <1>3

LEMMA Begins ==
  ASSUME JobsTyped, Locked, NEW j \in Jobs, Writing(j) = <<>>, NEW ops \in Seq(AnyRow),
         ops # <<>>, Begin(j, ops)
  PROVE  /\ JobsTyped' /\ Locked' /\ Writing(j)' = ops
         /\ \A k \in Jobs \ {j} : Writing(k)' = Writing(k)
         /\ Ahead /\ (j = "stop" => FromQueue(ops) = <<>> \/ Writing("writer") = <<>>) => Ahead'
<1>1. /\ job' = [job EXCEPT ![j] = [ops |-> ops, stage |-> "first"]]
      /\ lock' = Append(lock, j)
  BY DEF Begin
<1>2. /\ job' \in [Jobs -> [ops : Seq(AnyRow), stage : Stages]]
      /\ job'[j].ops = ops /\ job'[j].stage = "first"
      /\ \A k \in Jobs \ {j} : job'[k] = job[k]
  BY <1>1 DEF JobsTyped, Stages
<1>3. Writing(j)' = ops /\ \A k \in Jobs \ {j} : Writing(k)' = Writing(k)
  BY <1>2 DEF Writing
<1>4. /\ lock' \in Seq(Jobs) /\ Once(lock') /\ \A c : Occurs(c, lock') <=> c = j \/ Occurs(c, lock)
  BY <1>1, OnceJoined DEF Locked, JobsTyped
<1>5. Locked'
  BY <1>2, <1>3, <1>4 DEF Locked
<1>6. ASSUME Ahead, j = "stop" => FromQueue(ops) = <<>> \/ Writing("writer") = <<>> PROVE Ahead'
  <2>1. /\ Len(lock) \in Nat /\ Len(lock') = Len(lock) + 1 /\ lock'[Len(lock) + 1] = j
        /\ \A i \in 1..Len(lock) : lock'[i] = lock[i]
    BY <1>1, AppendProperties, LenProperties DEF JobsTyped
  <2> SUFFICES ASSUME NEW i \in 1..Len(lock'), NEW k \in 1..Len(lock'),
                      lock'[i] = "stop", lock'[k] = "writer", Flush' # <<>>
               PROVE  i < k
    BY DEF Ahead
  <2>2. CASE j = "stop"
    <3>1. Flush' = FromQueue(ops)
      BY <1>3, <2>2 DEF Flush
    <3>2. Writing("writer") = <<>>
      BY <1>6, <2>2, <3>1
    <3>3. k \in 1..Len(lock) /\ lock[k] = "writer"
      BY <2>1, <2>2
    <3> QED BY <3>2, <3>3 DEF Locked, Occurs, Jobs
  <2>3. CASE j = "writer"
    <3>1. i \in 1..Len(lock)
      BY <2>1, <2>3
    <3>2. k = Len(lock) + 1
      <4>1. CASE k \in 1..Len(lock)
        <5>1. Occurs("writer", lock)
          BY <2>1, <4>1 DEF Occurs
        <5> QED BY <2>3, <5>1 DEF Locked
      <4> QED BY <2>1, <4>1
    <3> QED BY <2>1, <3>1, <3>2
  <2>4. CASE j = "engine"
    <3>1. i \in 1..Len(lock) /\ k \in 1..Len(lock) /\ lock[i] = "stop" /\ lock[k] = "writer"
      BY <2>1, <2>4
    <3>2. Flush' = Flush
      BY <1>3, <2>4 DEF Flush, Jobs
    <3> QED BY <1>6, <3>1, <3>2 DEF Ahead
  <2> QED BY <2>2, <2>3, <2>4 DEF Jobs
<1> QED BY <1>2, <1>3, <1>4, <1>5, <1>6 DEF JobsTyped

\* The one in front is done; what waited for the writer goes for the lock.
LEMMA Finishes ==
  ASSUME JobsTyped, Locked, Ahead, taken \in Seq(Queued), NEW j \in Jobs, Holds(j), Finish(j),
         taken # <<>> => Writing("stop") = <<>>
  PROVE  /\ JobsTyped' /\ Locked' /\ Ahead' /\ Writing(j)' = <<>>
         /\ Writing("engine")' = IF j = "engine" THEN <<>> ELSE Writing("engine")
         /\ \/ /\ j = "writer" /\ taken # <<>> /\ taken' = <<>> /\ Writing("stop")' = taken
            \/ /\ (j # "writer" \/ taken = <<>>) /\ taken' = taken
               /\ \A k \in Jobs \ {j} : Writing(k)' = Writing(k)
<1> DEFINE rest == Tail(lock)
<1>1. /\ lock # <<>> /\ lock[1] = j /\ Head(lock) = j /\ lock \in Seq(Jobs)
  BY OneLocked DEF Holds, JobsTyped
<1>2. /\ rest \in Seq(Jobs) /\ Once(rest) /\ ~Occurs(j, rest)
      /\ \A c : Occurs(c, lock) <=> c = j \/ Occurs(c, rest)
  BY <1>1, OnceLeft DEF Locked
<1>3. /\ Len(rest) \in Nat /\ Len(lock) = Len(rest) + 1
      /\ \A i \in 1..Len(rest) : i + 1 \in 1..Len(lock) /\ rest[i] = lock[i + 1]
  BY <1>1, HeadAndTail
<1>4. NoJob \in [ops : Seq(AnyRow), stage : Stages] /\ NoJob.ops = <<>> /\ NoJob.stage = "none"
  BY EmptySeq DEF NoJob, Stages
<1> HIDE DEF rest, NoJob
<1>5. CASE j = "writer" /\ taken # <<>>
  <2>1. /\ job' = [job EXCEPT ![j] = NoJob, !["stop"] = [ops |-> taken, stage |-> "first"]]
        /\ lock' = Append(rest, "stop") /\ taken' = <<>>
    BY <1>5 DEF Finish, rest
  <2>2. taken \in Seq(AnyRow)
    <3>1. Queued \subseteq AnyRow
      BY DEF Queued, AnyRow, QueueKinds, Kinds
    <3> QED BY <3>1, SeqMonotonic
  <2>3. /\ job' \in [Jobs -> [ops : Seq(AnyRow), stage : Stages]]
        /\ job'["writer"] = NoJob /\ job'["engine"] = job["engine"]
        /\ job'["stop"].ops = taken /\ job'["stop"].stage = "first"
    BY <1>4, <1>5, <2>1, <2>2 DEF JobsTyped, Stages, Jobs
  <2>4. ~Occurs("stop", rest)
    BY <1>2, <1>5 DEF Locked, Jobs
  <2>5. /\ lock' \in Seq(Jobs) /\ Once(lock')
        /\ \A c : Occurs(c, lock') <=> c = "stop" \/ Occurs(c, rest)
    <3>1. "stop" \in Jobs
      BY DEF Jobs
    <3> QED BY <1>2, <2>1, <2>4, <3>1, OnceJoined
  <2>6. /\ Writing("writer")' = <<>> /\ Writing("stop")' = taken
        /\ Writing("engine")' = Writing("engine")
    BY <1>4, <2>3 DEF Writing
  <2>7. Locked'
    <3>1. \A k \in Jobs : (Occurs(k, lock) <=> Writing(k) # <<>>)
                          /\ (job[k].stage = "none" <=> Writing(k) = <<>>)
      BY DEF Locked
    <3>2. ASSUME NEW k \in Jobs
          PROVE  (Occurs(k, lock') <=> Writing(k)' # <<>>)
                 /\ (job'[k].stage = "none" <=> Writing(k)' = <<>>)
      <4>1. CASE k = "writer"
        BY <1>2, <1>4, <1>5, <2>3, <2>5, <2>6, <4>1
      <4>2. CASE k = "stop"
        BY <1>5, <2>3, <2>5, <2>6, <4>2
      <4>3. CASE k = "engine"
        BY <1>2, <1>5, <2>3, <2>5, <2>6, <3>1, <4>3
      <4> QED BY <4>1, <4>2, <4>3 DEF Jobs
    <3> QED BY <2>5, <3>2 DEF Locked
  <2>8. Ahead'
    <3>1. ~Occurs("writer", lock')
      BY <1>2, <1>5, <2>5
    <3> QED BY <3>1 DEF Ahead, Occurs
  <2> QED BY <1>5, <2>1, <2>3, <2>5, <2>6, <2>7, <2>8 DEF JobsTyped
<1>6. CASE j # "writer" \/ taken = <<>>
  <2>1. job' = [job EXCEPT ![j] = NoJob] /\ lock' = rest /\ taken' = taken
    BY <1>6 DEF Finish, rest
  <2>2. /\ job' \in [Jobs -> [ops : Seq(AnyRow), stage : Stages]]
        /\ job'[j] = NoJob /\ \A k \in Jobs \ {j} : job'[k] = job[k]
    BY <1>4, <2>1 DEF JobsTyped
  <2>3. Writing(j)' = <<>> /\ \A k \in Jobs \ {j} : Writing(k)' = Writing(k)
    BY <1>4, <2>2 DEF Writing
  <2>4. Locked'
    <3>1. \A k \in Jobs : (Occurs(k, lock) <=> Writing(k) # <<>>)
                          /\ (job[k].stage = "none" <=> Writing(k) = <<>>)
      BY DEF Locked
    <3>2. ASSUME NEW k \in Jobs
          PROVE  (Occurs(k, lock') <=> Writing(k)' # <<>>)
                 /\ (job'[k].stage = "none" <=> Writing(k)' = <<>>)
      BY <1>2, <1>4, <2>1, <2>2, <2>3, <3>1
    <3> QED BY <1>2, <2>1, <3>2 DEF Locked
  <2>5. Ahead'
    <3> SUFFICES ASSUME NEW i \in 1..Len(rest), NEW k \in 1..Len(rest),
                        rest[i] = "stop", rest[k] = "writer", Flush' # <<>>
                 PROVE  i < k
      BY <2>1 DEF Ahead
    <3>1. CASE j = "stop"
      <4>1. Flush' = <<>>
        BY <2>3, <3>1 DEF Flush, FromQueue
      <4> QED BY <4>1
    <3>2. CASE j # "stop"
      <4>1. Flush' = Flush
        BY <2>3, <3>2 DEF Flush, Jobs
      <4>2. i + 1 < k + 1
        BY <1>3, <4>1 DEF Ahead
      <4> QED BY <1>3, <4>2
    <3> QED BY <3>1, <3>2
  <2>6. Writing("engine")' = IF j = "engine" THEN <<>> ELSE Writing("engine")
    BY <2>3 DEF Jobs
  <2> QED BY <1>2, <1>6, <2>1, <2>2, <2>3, <2>4, <2>5, <2>6 DEF JobsTyped
<1> QED BY <1>5, <1>6

----------------------------------------------------------------------------
(* Each step keeps the invariant *)

Steady == made' = made /\ arrived' = arrived /\ bus' = bus /\ over' = over /\ evicted' = evicted
          /\ cancelled' = cancelled

LEMMA SameStop ==
  Writing("stop")' = Writing("stop") => Flush' = Flush /\ Solo' = Solo
BY DEF Flush, Solo

\* A new row on the bus, and one thrown away at most.
LEMMA Publishing ==
  ASSUME bus \in Seq(Queued), Distinct(bus), made \in Nat, \A x \in IdsOf(bus) : x \in 1..made,
         NEW kind \in QueueKinds, Publish(kind)
  PROVE  /\ bus' \in Seq(Queued) /\ Distinct(bus')
         /\ \E thrown \in SUBSET Nat :
               /\ evicted' = evicted \cup thrown /\ IdsOf(bus') \cap thrown = {}
               /\ IdsOf(bus') \cup thrown = IdsOf(bus) \cup {made + 1}
<1> DEFINE o == [id |-> made + 1, kind |-> kind]
<1>1. o \in Queued /\ o.id = made + 1 /\ made + 1 # 0
  BY DEF Queued
<1>2. \A s \in Seq(Queued) : Distinct(s) /\ IdsOf(s) \subseteq IdsOf(bus) =>
         /\ Append(s, o) \in Seq(Queued) /\ Distinct(Append(s, o))
         /\ IdsOf(Append(s, o)) = IdsOf(s) \cup {made + 1}
  <2> SUFFICES ASSUME NEW s \in Seq(Queued), Distinct(s), IdsOf(s) \subseteq IdsOf(bus)
               PROVE  /\ Append(s, o) \in Seq(Queued) /\ Distinct(Append(s, o))
                      /\ IdsOf(Append(s, o)) = IdsOf(s) \cup {made + 1}
    OBVIOUS
  <2> HIDE DEF o
  <2>1. Append(s, o) = s \o <<o>> /\ <<o>> \in Seq(Queued) /\ Append(s, o) \in Seq(Queued)
    BY <1>1, AppendIsConcat, AppendProperties
  <2>2. IdsOf(<<o>>) = {made + 1}
    BY <1>1, IdsOfOne
  <2>3. IdsOf(s \o <<o>>) = IdsOf(s) \cup {made + 1}
    <3>1. IdsOf(s \o <<o>>) = IdsOf(s) \cup IdsOf(<<o>>)
      BY <2>1, IdsBoth
    <3> QED BY <2>2, <3>1
  <2>4. IdsOf(s) \cap {made + 1} = {}
    BY <1>1
  <2>5. Distinct(<<o>>)
    <3>1. Len(<<o>>) = 1
      OBVIOUS
    <3> QED BY <3>1 DEF Distinct
  <2>6. Distinct(s \o <<o>>)
    BY <2>1, <2>2, <2>4, <2>5, DistinctBoth
  <2> QED BY <2>1, <2>3, <2>6
<1>3. Append(bus, o) \in Seq(Queued) /\ Distinct(Append(bus, o))
      /\ IdsOf(Append(bus, o)) = IdsOf(bus) \cup {made + 1}
  BY <1>2
<1>4. \/ bus' = Append(bus, o) /\ evicted' = evicted
      \/ bus' = bus /\ evicted' = evicted \cup {made + 1}
      \/ /\ Droppable # {} /\ bus' = Append(RemoveAt(bus, Min(Droppable)), o)
         /\ evicted' = evicted \cup {bus[Min(Droppable)].id}
  BY DEF Publish
<1> HIDE DEF o
<1>5. CASE bus' = Append(bus, o) /\ evicted' = evicted
  <2>1. /\ evicted' = evicted \cup {} /\ IdsOf(bus') \cap {} = {}
        /\ IdsOf(bus') \cup {} = IdsOf(bus) \cup {made + 1}
    BY <1>3, <1>5
  <2> QED BY <1>3, <1>5, <2>1
<1>6. CASE bus' = bus /\ evicted' = evicted \cup {made + 1}
  <2>1. made + 1 \notin IdsOf(bus) /\ {made + 1} \in SUBSET Nat
    OBVIOUS
  <2>2. IdsOf(bus') = IdsOf(bus) /\ bus' \in Seq(Queued) /\ Distinct(bus')
    BY <1>6
  <2>3. IdsOf(bus') \cap {made + 1} = {} /\ IdsOf(bus') \cup {made + 1} = IdsOf(bus) \cup {made + 1}
    BY <2>1, <2>2
  <2> QED BY <1>6, <2>1, <2>2, <2>3
<1>7. CASE /\ Droppable # {} /\ bus' = Append(RemoveAt(bus, Min(Droppable)), o)
           /\ evicted' = evicted \cup {bus[Min(Droppable)].id}
  <2> DEFINE i == Min(Droppable)
             a == SubSeq(bus, 1, i - 1)
             b == SubSeq(bus, i, Len(bus))
             c == SubSeq(bus, i + 1, Len(bus))
             x == bus[i]
             y == <<x>>
  <2>1. Len(bus) \in Nat /\ i \in 1..Len(bus) /\ x \in Queued
    <3>1. Droppable \in SUBSET (1..Len(bus)) /\ Len(bus) \in Nat
      BY LenProperties DEF Droppable
    <3>2. \E n \in Droppable : \A k \in Droppable : n =< k
      BY <1>7, <3>1, LeastNat
    <3>3. i \in Droppable
      BY <3>2 DEF Min
    <3> HIDE DEF i
    <3>4. i \in 1..Len(bus)
      BY <3>1, <3>3
    <3> QED BY <3>1, <3>4, ElementOfSeq
  <2>2. RemoveAt(bus, i) = a \o c
    BY DEF RemoveAt
  <2> HIDE DEF i
  <2>3. a \in Seq(Queued) /\ b \in Seq(Queued) /\ bus = a \o b
    <3>1. i - 1 \in 0..Len(bus) /\ (i - 1) + 1 = i
      BY <2>1
    <3> QED BY <3>1, Cut
  <2>4. c \in Seq(Queued)
    <3>1. i \in 0..Len(bus)
      BY <2>1
    <3> QED BY <3>1, Cut
  <2>5. b = y \o c
    <3>1. Len(bus) \in i..Len(bus)
      BY <2>1
    <3> QED BY <2>1, <3>1, SubSeqRecursiveFirst
  <2> HIDE DEF a, b, c, x
  <2>6. y \in Seq(Queued) /\ IdsOf(y) = {x.id} /\ x.id \in Nat \ {0}
    BY <2>1, IdsOfOne DEF Queued
  <2> HIDE DEF y
  <2>7. /\ Distinct(a) /\ Distinct(c) /\ IdsOf(a) \cap IdsOf(c) = {}
        /\ x.id \notin IdsOf(a) /\ x.id \notin IdsOf(c)
        /\ IdsOf(bus) = IdsOf(a) \cup IdsOf(c) \cup {x.id}
    <3>1. IdsOf(b) = {x.id} \cup IdsOf(c)
      <4>1. IdsOf(y \o c) = IdsOf(y) \cup IdsOf(c)
        BY <2>4, <2>6, IdsBoth
      <4> QED BY <2>5, <2>6, <4>1
    <3>2. IdsOf(bus) = IdsOf(a) \cup IdsOf(b)
      BY <2>3, IdsBoth
    <3>3. Distinct(a) /\ Distinct(b) /\ IdsOf(a) \cap IdsOf(b) = {}
      BY <2>3, DistinctBoth
    <3>4. Distinct(c) /\ IdsOf(y) \cap IdsOf(c) = {}
      BY <2>4, <2>5, <2>6, <3>3, DistinctBoth
    <3> QED BY <2>6, <3>1, <3>2, <3>3, <3>4
  <2>8. a \o c \in Seq(Queued) /\ Distinct(a \o c) /\ IdsOf(a \o c) = IdsOf(a) \cup IdsOf(c)
    BY <2>3, <2>4, <2>7, ConcatProperties, DistinctBoth, IdsBoth
  <2> DEFINE ac == a \o c
  <2> HIDE DEF ac
  <2>9. /\ ac \in Seq(Queued) /\ Distinct(ac) /\ IdsOf(ac) = IdsOf(a) \cup IdsOf(c)
        /\ bus' = Append(ac, o)
    BY <1>7, <2>2, <2>8 DEF ac, i
  <2>10. bus' \in Seq(Queued) /\ Distinct(bus') /\ IdsOf(bus') = IdsOf(ac) \cup {made + 1}
    BY <1>2, <2>7, <2>9
  <2>11. x.id # made + 1
    BY <1>1, <2>7
  <2>12. evicted' = evicted \cup {x.id}
    BY <1>7 DEF x, i
  <2>13. IdsOf(bus') \cap {x.id} = {} /\ IdsOf(bus') \cup {x.id} = IdsOf(bus) \cup {made + 1}
    BY <2>7, <2>9, <2>10, <2>11
  <2>14. {x.id} \in SUBSET Nat
    BY <2>6
  <2> QED BY <2>10, <2>12, <2>13, <2>14
<1> QED BY <1>4, <1>5, <1>6, <1>7

LEMMA InvPublish == ASSUME Inv, NEW kind \in {"signal", "snapshot"}, Publish(kind) PROVE Inv'
<1> DEFINE A == IdsOf(bus)
           B == IdsOf(Solo)
           C == IdsOf(Writing("engine"))
           D == IdsOf(arrived)
           W == db \cup failed
<1> USE DEF Inv
<1>1. /\ made' = made + 1 /\ phase = "running"
      /\ UNCHANGED <<queue, budget, pending, writer, job, lock, taken, phase, db, failed, over,
                     cancelled, failures, row, ended, arrived>>
  BY DEF Publish, session
<1>2. /\ \A j \in Jobs : Writing(j)' = Writing(j)
      /\ Flush' = Flush /\ Solo' = Solo /\ Line' = Line /\ From' = From
  BY <1>1 DEF Writing, Flush, Solo, Line, From
<1>3. /\ D \cap (A \cup B \cup C \cup Dropped) = {} /\ A \cap (W \cup Dropped \cup B \cup C) = {}
      /\ B \cap (W \cup Dropped \cup C) = {} /\ C \cap (W \cup Dropped) = {}
      /\ A \cup D \cup B \cup C \cup (W \cup Dropped) = 1..made /\ Settled' = W' \cup Dropped'
  BY DEF Apart, Accounted, Settled, Dropped
<1>4. /\ bus' \in Seq(Queued) /\ Distinct(bus')
      /\ \E thrown \in SUBSET Nat :
            /\ evicted' = evicted \cup thrown /\ IdsOf(bus') \cap thrown = {}
            /\ IdsOf(bus') \cup thrown = IdsOf(bus) \cup {made + 1}
  <2>1. /\ bus \in Seq(Queued) /\ made \in Nat /\ kind \in QueueKinds
        /\ Distinct(bus) /\ \A x \in IdsOf(bus) : x \in 1..made
    BY <1>3 DEF Typed, Apart, QueueKinds
  <2> QED BY <2>1, Publishing
<1>5. PICK thrown \in SUBSET Nat :
         /\ evicted' = evicted \cup thrown /\ IdsOf(bus') \cap thrown = {}
         /\ IdsOf(bus') \cup thrown = IdsOf(bus) \cup {made + 1}
  BY <1>4
<1>6. Typed'
  BY <1>1, <1>4 DEF Typed
<1>7. Locked' /\ Ahead' /\ Working' /\ Lined' /\ Budgeted'
  <2>1. Locked' /\ Ahead'
    BY <1>1, <1>2 DEF Locked, Ahead
  <2>2. Working'
    BY <1>1, <1>2 DEF Working, Jobs
  <2>3. Lined' /\ Budgeted'
    BY <1>1, <1>2 DEF Lined, Budgeted
  <2> QED BY <2>1, <2>2, <2>3
<1>8. Emptied'
  BY <1>1, <1>2 DEF Emptied, Jobs
<1>9. made \in Nat /\ (made + 1) \notin 1..made /\ 1..(made + 1) = (1..made) \cup {made + 1}
  BY DEF Typed
<1>10. /\ B' = B /\ C' = C /\ D' = D /\ W' = W /\ Dropped' = Dropped \cup thrown
       /\ A' \cap thrown = {} /\ A' \cup thrown = A \cup {made + 1}
  <2>1. C' = C
    BY <1>2 DEF Jobs
  <2>2. B' = B /\ D' = D /\ W' = W
    BY <1>1, <1>2
  <2>3. Dropped' = Dropped \cup thrown
    BY <1>1, <1>5 DEF Dropped
  <2> QED BY <1>5, <2>1, <2>2, <2>3
<1>11. (\A k \in 1..Len(arrived) : arrived[k].id \in db \cup failed <=> k =< From)'
  BY <1>1, <1>2 DEF Apart
<1>12. /\ D \cap (A' \cup B \cup C \cup Dropped') = {}
       /\ A' \cap (W \cup Dropped' \cup B \cup C) = {}
       /\ B \cap (W \cup Dropped' \cup C) = {} /\ C \cap (W \cup Dropped') = {}
       /\ A' \cup D \cup B \cup C \cup (W \cup Dropped') = 1..(made + 1)
  <2> DEFINE G == Dropped
             M == 1..made
  <2>1. /\ D \cap (A \cup B \cup C \cup G) = {} /\ A \cap (W \cup G \cup B \cup C) = {}
        /\ B \cap (W \cup G \cup C) = {} /\ C \cap (W \cup G) = {}
        /\ A \cup D \cup B \cup C \cup (W \cup G) = M
        /\ made + 1 \notin M /\ 1..(made + 1) = M \cup {made + 1}
        /\ Dropped' = G \cup thrown /\ A' \cap thrown = {} /\ A' \cup thrown = A \cup {made + 1}
    BY <1>3, <1>9, <1>10
  <2> HIDE DEF A, B, C, D, W, G, M
  <2> QED BY <2>1
<1>13. Apart'
  BY <1>1, <1>3, <1>4, <1>10, <1>11, <1>12 DEF Apart
<1>14. Accounted'
  BY <1>1, <1>3, <1>10, <1>12 DEF Accounted
<1> QED BY <1>6, <1>7, <1>8, <1>13, <1>14

LEMMA LineMore ==
  ASSUME Typed, Working, NEW more \in Seq(Queued), NEW lost, Stores(more, lost),
         pending' = pending, taken' = taken, Writing("writer")' = Writing("writer"),
         Writing("stop")' = Writing("stop")
  PROVE  Line' = Line \o more
<1>1. Flush' = Flush /\ queue' = queue \o more
  BY SameStop DEF Stores
<1>2. /\ Flush \in Seq(Queued) /\ Writing("writer") \in Seq(Queued) /\ taken \in Seq(Queued)
      /\ pending \in Seq(Queued) /\ queue \in Seq(Queued)
  BY Places
<1>3. Join(Flush, Writing("writer"), taken, pending, Then(queue, more))
         = Then(Join(Flush, Writing("writer"), taken, pending, queue), more)
  BY <1>2, JoinMore
<1>4. queue' = Then(queue, more)
  BY <1>1 DEF Then
<1>5. Line' = Then(Line, more)
  BY <1>1, <1>3, <1>4 DEF Line
<1> QED BY <1>5 DEF Then

\* What is queued keeps its type.
LEMMA StoresTyped ==
  ASSUME Typed, NEW more \in Seq(Queued), NEW lost, Stores(more, lost)
  PROVE  queue' \in Seq(Queued) /\ arrived' \in Seq(Queued) /\ budget' \in Nat
<1>1. queue \in Seq(Queued) /\ arrived \in Seq(Queued) /\ budget \in Nat
  BY DEF Typed
<1>2. queue \o more \in Seq(Queued) /\ arrived \o more \in Seq(Queued)
  BY <1>1, ConcatProperties
<1>3. Count(more, Kinds \ {"signal"}) \in Nat
  BY CountType
<1> QED BY <1>1, <1>2, <1>3 DEF Stores

LEMMA OneRow ==
  ASSUME made \in Nat, NEW kind \in QueueKinds
  PROVE  LET s == <<[id |-> made + 1, kind |-> kind]>>
         IN  s \in Seq(Queued) /\ IdsOf(s) = {made + 1} /\ Distinct(s)
<1> DEFINE o == [id |-> made + 1, kind |-> kind]
<1>1. o \in Queued /\ o.id = made + 1 /\ made + 1 # 0
  BY DEF Queued
<1> HIDE DEF o
<1>2. <<o>> \in Seq(Queued) /\ Len(<<o>>) = 1
  BY <1>1
<1>3. IdsOf(<<o>>) = {made + 1}
  BY <1>1, IdsOfOne
<1>4. Distinct(<<o>>)
  BY <1>2, DistinctOne
<1> QED BY <1>2, <1>3, <1>4 DEF o

LEMMA InvPersist == ASSUME Inv, NEW kind \in {"signal", "status"}, Persist(kind) PROVE Inv'
<1> DEFINE s == <<[id |-> made + 1, kind |-> kind]>>
<1> USE DEF Inv
<1>1. /\ made' = made + 1 /\ Enqueued(Persisted(s))
      /\ phase \in {"running", "closing"} \/ (phase = "stopping" /\ Idle)
      /\ UNCHANGED <<bus, pending, writer, job, lock, taken, phase, db, failed, evicted,
                     cancelled, failures, row, ended>>
  BY DEF Persist, session
<1>2. s \in Seq(Queued) /\ IdsOf(s) = {made + 1} /\ Distinct(s)
  <2>1. made \in Nat /\ kind \in QueueKinds
    BY DEF Typed, QueueKinds
  <2> QED BY <2>1, OneRow
<1> HIDE DEF s
<1>3. PICK more \in Seq(Queued), lost \in SUBSET Nat : Split(s, more, lost) /\ Stores(more, lost)
  BY <1>1, <1>2, Persisting
<1>4. /\ \A j \in Jobs : Writing(j)' = Writing(j)
      /\ Writing("writer")' = Writing("writer") /\ Writing("stop")' = Writing("stop")
      /\ Writing("engine")' = Writing("engine") /\ Flush' = Flush /\ Solo' = Solo
  BY <1>1 DEF Writing, Flush, Solo
<1>5. Line' = Line \o more
  BY <1>1, <1>3, <1>4, LineMore
<1>6. Lined' /\ Apart' /\ Accounted'
  <2>1. /\ db' = db \cup {} /\ cancelled' = cancelled /\ failed' = failed
        /\ evicted' = evicted
        /\ bus' = bus
    BY <1>1
  <2>2. IdsOf(Solo)' = IdsOf(Solo) /\ IdsOf(Writing("engine"))' = IdsOf(Writing("engine"))
    BY <1>4
  <2> HIDE DEF Inv
  <2>3. Typed /\ Working /\ Lined /\ Apart /\ Accounted
    BY DEF Inv
  <2> QED BY <1>1, <1>2, <1>3, <1>5, <2>1, <2>2, <2>3, Arriving
<1>7. Budgeted'
  BY <1>3, Budgeting DEF Typed
<1>8. Typed'
  <2>1. queue' \in Seq(Queued) /\ arrived' \in Seq(Queued) /\ budget' \in Nat
    BY <1>3, StoresTyped
  <2> QED BY <1>1, <2>1 DEF Typed
<1>9. Locked' /\ Ahead'
  BY <1>1, <1>4 DEF Locked, Ahead
<1>10. Working'
  <2>1. Solo # <<>> /\ Solo[1].kind = "complete" => FALSE
    <3>1. phase # "recording"
      BY <1>1
    <3> QED BY <3>1 DEF Working
  <2> QED BY <1>1, <1>4, <2>1 DEF Working
<1>11. Emptied'
  <2>1. phase' \in {"running", "stopping", "closing"}
    BY <1>1
  <2> QED BY <1>1, <1>4, <2>1 DEF Emptied
<1> QED BY <1>6, <1>7, <1>8, <1>9, <1>10, <1>11

LEMMA InvConsume == ASSUME Inv, Consume PROVE Inv'
<1> USE DEF Inv
<1>1. /\ bus' = <<>> /\ Enqueued(Persisted(bus)) /\ phase = "running"
      /\ UNCHANGED <<made, pending, writer, job, lock, taken, phase, db, failed, evicted,
                     cancelled, failures, row, ended>>
  BY DEF Consume, session
<1>2. bus \in Seq(Queued) /\ Distinct(bus)
  BY DEF Typed, Apart
<1>3. PICK more \in Seq(Queued), lost \in SUBSET Nat : Split(bus, more, lost) /\ Stores(more, lost)
  BY <1>1, <1>2, Persisting
<1>4. /\ \A j \in Jobs : Writing(j)' = Writing(j)
      /\ Writing("writer")' = Writing("writer") /\ Writing("stop")' = Writing("stop")
      /\ Writing("engine")' = Writing("engine") /\ Flush' = Flush /\ Solo' = Solo
  BY <1>1 DEF Writing, Flush, Solo
<1>5. Line' = Line \o more
  BY <1>1, <1>3, <1>4, LineMore
<1>6. Lined' /\ Apart' /\ Accounted'
  <2>1. /\ db' = db \cup {} /\ cancelled' = cancelled /\ failed' = failed
        /\ evicted' = evicted
        /\ made' = made
    BY <1>1
  <2>2. IdsOf(Solo)' = IdsOf(Solo) /\ IdsOf(Writing("engine"))' = IdsOf(Writing("engine"))
    BY <1>4
  <2> HIDE DEF Inv
  <2>3. Typed /\ Working /\ Lined /\ Apart /\ Accounted
    BY DEF Inv
  <2> QED BY <1>1, <1>2, <1>3, <1>5, <2>1, <2>2, <2>3, Arriving
<1>7. Budgeted'
  BY <1>3, Budgeting DEF Typed
<1>8. Typed'
  <2>1. /\ queue' \in Seq(Queued) /\ arrived' \in Seq(Queued) /\ budget' \in Nat
        /\ bus' \in Seq(Queued)
    BY <1>1, <1>3, StoresTyped, EmptySeq
  <2> QED BY <1>1, <2>1 DEF Typed
<1>9. Locked' /\ Ahead'
  BY <1>1, <1>4 DEF Locked, Ahead
<1>10. Working'
  <2>1. Solo # <<>> /\ Solo[1].kind = "complete" => FALSE
    <3>1. phase # "recording"
      BY <1>1
    <3> QED BY <3>1 DEF Working
  <2> QED BY <1>1, <1>4, <2>1 DEF Working
<1>11. Emptied'
  BY <1>1, <1>4 DEF Emptied
<1> QED BY <1>6, <1>7, <1>8, <1>9, <1>10, <1>11

\* The engine's commit is cancelled, whether it holds the lock or waits for it.
LEMMA Cancels ==
  ASSUME JobsTyped, Locked, job' = [job EXCEPT !["engine"] = NoJob],
         lock' = Subsequence(lock, {i \in DOMAIN lock : lock[i] # "engine"})
  PROVE  /\ JobsTyped' /\ Locked' /\ Writing("engine")' = <<>>
         /\ Writing("writer")' = Writing("writer") /\ Writing("stop")' = Writing("stop")
<1> DEFINE P == {i \in DOMAIN lock : lock[i] # "engine"}
           n == Len(lock')
<1>1. lock \in Seq(Jobs) /\ DOMAIN lock = 1..Len(lock) /\ Len(lock) \in Nat
  BY LenProperties DEF JobsTyped
<1>2. P \in SUBSET (1..Len(lock)) /\ \A i \in 1..Len(lock) : i \in P <=> lock[i] # "engine"
  BY <1>1
<1> HIDE DEF P
<1>3. lock' \in Seq(Jobs) /\ \E place \in [1..n -> P] : Picks(lock', lock, P, place)
  <2> DEFINE t == Subsequence(lock, P)
  <2>1. t \in Seq(Jobs) /\ \E place \in [1..Len(t) -> P] : Picks(t, lock, P, place)
    BY <1>1, <1>2, Chosen
  <2>2. lock' = t
    BY DEF P
  <2> HIDE DEF t
  <2> QED BY <2>1, <2>2
<1>4. PICK place \in [1..n -> P] : Picks(lock', lock, P, place)
  BY <1>3
<1>5. /\ \A i \in 1..n : place[i] \in P /\ lock'[i] = lock[place[i]]
      /\ \A i, k \in 1..n : i < k => place[i] < place[k]
      /\ \A p \in P : \E i \in 1..n : place[i] = p
      /\ n \in Nat
  BY <1>3, <1>4, LenProperties DEF Picks
<1>6. \A i \in 1..n : place[i] \in 1..Len(lock) /\ lock[place[i]] # "engine"
  BY <1>2, <1>5
<1> HIDE DEF n
<1>7. Once(lock')
  <2> SUFFICES ASSUME NEW i \in 1..n, NEW k \in 1..n, lock'[i] = lock'[k] PROVE i = k
    BY DEF Once, n
  <2>1. place[i] = place[k] /\ place[i] \in Int
    <3>1. lock[place[i]] = lock[place[k]]
      BY <1>5
    <3> QED BY <1>1, <1>6, <3>1 DEF Locked, Once
  <2>2. ~(i < k) /\ ~(k < i)
    BY <1>5, <2>1
  <2> QED BY <1>5, <2>2
<1>8. \A c : Occurs(c, lock') <=> Occurs(c, lock) /\ c # "engine"
  <2>1. ASSUME NEW i \in 1..n PROVE Occurs(lock'[i], lock) /\ lock'[i] # "engine"
    BY <1>5, <1>6 DEF Occurs
  <2>2. ASSUME NEW i \in 1..Len(lock), lock[i] # "engine" PROVE Occurs(lock[i], lock')
    <3>1. i \in P
      BY <1>2, <2>2
    <3>2. PICK k \in 1..n : place[k] = i
      BY <1>5, <3>1
    <3>3. lock'[k] = lock[i]
      BY <1>5, <3>2
    <3> QED BY <3>3 DEF Occurs, n
  <2>3. ASSUME NEW c, Occurs(c, lock') PROVE Occurs(c, lock) /\ c # "engine"
    <3>1. PICK i \in 1..n : lock'[i] = c
      BY <2>3 DEF Occurs, n
    <3> QED BY <2>1, <3>1
  <2>4. ASSUME NEW c, Occurs(c, lock), c # "engine" PROVE Occurs(c, lock')
    <3>1. PICK i \in 1..Len(lock) : lock[i] = c
      BY <2>4 DEF Occurs
    <3> QED BY <2>2, <2>4, <3>1
  <2> QED BY <2>3, <2>4
<1>9. /\ job' \in [Jobs -> [ops : Seq(AnyRow), stage : Stages]]
      /\ job'["engine"] = NoJob /\ \A k \in Jobs \ {"engine"} : job'[k] = job[k]
      /\ NoJob.ops = <<>> /\ NoJob.stage = "none"
  <2>1. NoJob \in [ops : Seq(AnyRow), stage : Stages] /\ NoJob.ops = <<>> /\ NoJob.stage = "none"
    BY EmptySeq DEF NoJob, Stages
  <2> QED BY <2>1 DEF JobsTyped, Jobs
<1>10. /\ Writing("engine")' = <<>> /\ \A k \in Jobs \ {"engine"} : Writing(k)' = Writing(k)
  BY <1>9 DEF Writing
<1>11. Locked'
  <2>1. ASSUME NEW k \in Jobs
        PROVE  /\ Occurs(k, lock') <=> Writing(k)' # <<>>
               /\ job'[k].stage = "none" <=> Writing(k)' = <<>>
    <3>1. (Occurs(k, lock) <=> Writing(k) # <<>>) /\ (job[k].stage = "none" <=> Writing(k) = <<>>)
      BY DEF Locked
    <3>2. CASE k = "engine"
      BY <1>8, <1>9, <1>10, <3>2
    <3>3. CASE k # "engine"
      BY <1>8, <1>9, <1>10, <3>1, <3>3
    <3> QED BY <3>2, <3>3
  <2> QED BY <1>7, <2>1 DEF Locked
<1> QED BY <1>3, <1>9, <1>10, <1>11 DEF JobsTyped, Jobs

LEMMA InvStop == ASSUME Inv, Stop PROVE Inv'
<1> DEFINE E == IdsOf(Writing("engine"))
<1> USE DEF Inv
<1>1. /\ bus' = <<>> /\ Enqueued(Persisted(bus)) /\ phase = "running" /\ phase' = "stopping"
      /\ job' = [job EXCEPT !["engine"] = NoJob]
      /\ lock' = Subsequence(lock, {i \in DOMAIN lock : lock[i] # "engine"})
      /\ UNCHANGED <<made, pending, writer, taken, failed, evicted, failures, row, ended>>
      /\ \/ db' = db \cup E /\ cancelled' = cancelled
         \/ db' = db /\ cancelled' = cancelled \cup E
  BY DEF Stop, session, Writing
<1>2. bus \in Seq(Queued) /\ Distinct(bus) /\ JobsTyped
  BY DEF Typed, Apart, JobsTyped
<1>3. PICK more \in Seq(Queued), lost \in SUBSET Nat : Split(bus, more, lost) /\ Stores(more, lost)
  BY <1>1, <1>2, Persisting
<1>4. /\ JobsTyped' /\ Locked' /\ Writing("engine")' = <<>>
      /\ Writing("writer")' = Writing("writer") /\ Writing("stop")' = Writing("stop")
  BY <1>1, <1>2, Cancels
<1>5. Flush' = Flush /\ Solo' = Solo /\ Flush = <<>> /\ Solo = <<>> /\ taken = <<>>
      /\ Writing("stop") = <<>>
  BY <1>1, <1>4, SameStop, StopsJob DEF Emptied
<1>6. Line' = Line \o more
  BY <1>1, <1>3, <1>4, LineMore
<1>7. Lined' /\ Apart' /\ Accounted'
  <2>1. /\ failed' = failed /\ evicted' = evicted /\ made' = made /\ IdsOf(Solo)' = IdsOf(Solo)
        /\ IdsOf(Writing("engine"))' = {}
    BY <1>1, <1>4, <1>5, IdsNone
  <2> HIDE DEF Inv
  <2>2. Typed /\ Working /\ Lined /\ Apart /\ Accounted
    BY DEF Inv
  <2>3. E = IdsOf(Writing("engine"))
    OBVIOUS
  <2> HIDE DEF E
  <2> QED BY <1>1, <1>2, <1>3, <1>6, <2>1, <2>2, <2>3, Arriving
<1>8. Budgeted'
  BY <1>3, Budgeting DEF Typed
<1>9. Typed'
  <2>1. /\ queue' \in Seq(Queued) /\ arrived' \in Seq(Queued) /\ budget' \in Nat
        /\ bus' \in Seq(Queued)
    BY <1>1, <1>3, StoresTyped, EmptySeq
  <2> QED BY <1>1, <1>4, <2>1 DEF Typed, JobsTyped, Phases
<1>10. Ahead'
  BY <1>5 DEF Ahead
<1>11. Working'
  BY <1>1, <1>4, <1>5 DEF Working
<1>12. Emptied'
  BY <1>1, <1>4 DEF Emptied
<1> QED BY <1>4, <1>7, <1>8, <1>9, <1>10, <1>11, <1>12

\* The rows only change places, if at all.
LEMMA Moving ==
  ASSUME Typed, Working, Lined, Apart, Accounted, Line' = Line,
         made' = made, arrived' = arrived, bus' = bus, IdsOf(Solo)' = IdsOf(Solo),
         IdsOf(Writing("engine"))' = IdsOf(Writing("engine")),
         (db \cup failed)' = db \cup failed, Dropped' = Dropped
  PROVE  Lined' /\ Apart' /\ Accounted'
<1>1. <<>> \in Seq(Queued) /\ Line \in Seq(Queued) /\ Line' \in Seq(Queued)
  BY Places
<1>2. Line = Then(<<>>, Line')
  BY <1>1, Joining
<1>3. (db \cup failed)' = db \cup failed \cup IdsOf(<<>>)
  BY IdsNone
<1> HIDE DEF Line, Dropped
<1> QED BY <1>1, <1>2, <1>3, Settling DEF Then

LEMMA QueuedRows == ASSUME NEW s \in Seq(Queued) PROVE s \in Seq(AnyRow)
<1>1. Queued \subseteq AnyRow
  BY DEF Queued, AnyRow, QueueKinds, Kinds
<1> QED BY <1>1, SeqMonotonic

LEMMA FlushOfQueued ==
  ASSUME NEW s \in Seq(Queued) PROVE FromQueue(s) = s
<1>1. CASE s = <<>>
  BY <1>1 DEF FromQueue
<1>2. CASE s # <<>>
  <2>1. 1 \in 1..Len(s)
    BY <1>2, EmptySeq
  <2>2. s[1] \in Queued
    BY <2>1, ElementOfSeq
  <2> QED BY <1>2, <2>2 DEF FromQueue, Queued
<1> QED BY <1>1, <1>2

LEMMA LeastOfTwo ==
  ASSUME NEW a \in Int, NEW b \in Int
  PROVE  Min({a, b}) \in {a, b} /\ Min({a, b}) =< a /\ Min({a, b}) =< b
<1>1. \E x \in {a, b} : \A y \in {a, b} : x =< y
  <2>1. CASE a =< b
    BY <2>1
  <2>2. CASE ~(a =< b)
    BY <2>2
  <2> QED BY <2>1, <2>2
<1>2. Min({a, b}) \in {a, b} /\ \A y \in {a, b} : Min({a, b}) =< y
  BY <1>1 DEF Min
<1> QED BY <1>2

LEMMA InvPersistNow == ASSUME Inv, NEW j \in {"engine", "stop"}, PersistNow(j) PROVE Inv'
<1> DEFINE o == [id |-> made + 1, kind |-> "fill"]
           ops == <<o>>
           A == IdsOf(bus)
           B == IdsOf(Solo)
           C == IdsOf(Writing("engine"))
           D == IdsOf(arrived)
           W == db \cup failed
           M == 1..made
<1> USE DEF Inv
<1>1. /\ \/ j = "engine" /\ phase = "running"
         \/ j = "stop" /\ phase = "stopping" /\ Idle
      /\ job[j] = NoJob /\ made' = made + 1 /\ Begin(j, ops) /\ j \in Jobs
      /\ UNCHANGED <<bus, queue, budget, pending, writer, taken, phase, db, failed, over, evicted,
                     cancelled, failures, row, ended, arrived>>
  BY DEF PersistNow, rows, session, Jobs
<1>2. JobsTyped /\ Writing(j) = <<>>
  BY <1>1, Idling DEF Typed, JobsTyped
<1>3. /\ ops \in Seq(AnyRow) /\ ops # <<>> /\ Len(ops) = 1 /\ ops[1].kind = "fill"
      /\ ops[1].id # 0 /\ IdsOf(ops) = {made + 1}
  <2>1. o \in AnyRow /\ o.id = made + 1 /\ o.id # 0 /\ o.kind = "fill"
    BY DEF AnyRow, Kinds, Typed
  <2> HIDE DEF o
  <2>2. IdsOf(<<o>>) = {o.id}
    BY <2>1, IdsOfOne
  <2>3. <<o>> \in Seq(AnyRow) /\ <<o>> # <<>> /\ Len(<<o>>) = 1 /\ <<o>>[1] = o
    BY <2>1
  <2> QED BY <2>1, <2>2, <2>3
<1> HIDE DEF ops, o
<1>4. FromQueue(ops) = <<>> /\ IsFill(ops)
  BY <1>3 DEF FromQueue, IsFill, QueueKinds
<1>5. /\ JobsTyped' /\ Locked' /\ Ahead' /\ Writing(j)' = ops
      /\ \A k \in Jobs \ {j} : Writing(k)' = Writing(k)
  BY <1>1, <1>2, <1>3, <1>4, Begins
<1>6. /\ Flush' = Flush /\ Writing("writer")' = Writing("writer")
      /\ \/ j = "engine" /\ Solo' = Solo /\ Writing("engine") = <<>> /\ Writing("engine")' = ops
            /\ Writing("stop")' = Writing("stop") /\ phase = "running"
         \/ j = "stop" /\ Solo = <<>> /\ Solo' = ops /\ Writing("engine")' = Writing("engine")
            /\ Writing("stop") = <<>> /\ Writing("stop")' = ops /\ phase = "stopping"
            /\ taken = <<>>
  <2>1. CASE j = "engine"
    <3>1. Writing("stop")' = Writing("stop") /\ Writing("writer")' = Writing("writer")
      BY <1>5, <2>1 DEF Jobs
    <3> QED BY <1>1, <1>2, <1>5, <2>1, <3>1, SameStop
  <2>2. CASE j = "stop"
    <3>1. Writing("engine")' = Writing("engine") /\ Writing("writer")' = Writing("writer")
      BY <1>5, <2>2 DEF Jobs
    <3>2. Flush = <<>> /\ Solo = <<>>
      BY <1>2, <2>2, StopsJob
    <3>3. Flush' = <<>> /\ Solo' = ops
      BY <1>4, <1>5, <2>2 DEF Flush, Solo
    <3> QED BY <1>1, <1>2, <1>5, <2>2, <3>1, <3>2, <3>3 DEF Idle
  <2> QED BY <2>1, <2>2
<1>7. Line' = Line /\ From' = From
  BY <1>1, <1>6 DEF Line, From
<1>8. Lined' /\ Budgeted'
  BY <1>1, <1>7 DEF Lined, Budgeted
<1>9. /\ D \cap (A \cup B \cup C \cup Dropped) = {} /\ A \cap (W \cup Dropped \cup B \cup C) = {}
      /\ B \cap (W \cup Dropped \cup C) = {} /\ C \cap (W \cup Dropped) = {}
      /\ A \cup D \cup B \cup C \cup (W \cup Dropped) = M /\ Settled' = W' \cup Dropped'
  BY DEF Apart, Accounted, Settled, Dropped
<1>10. /\ A' = A /\ D' = D /\ W' = W /\ Dropped' = Dropped
       /\ \/ B' = B /\ C = {} /\ C' = {made + 1}
          \/ C' = C /\ B = {} /\ B' = {made + 1}
  BY <1>1, <1>3, <1>6, IdsNone DEF Dropped
<1>11. made + 1 \notin M /\ 1..(made + 1) = M \cup {made + 1}
  BY DEF Typed
<1>12. /\ D \cap (A \cup B' \cup C' \cup Dropped) = {}
       /\ A \cap (W \cup Dropped \cup B' \cup C') = {}
       /\ B' \cap (W \cup Dropped \cup C') = {} /\ C' \cap (W \cup Dropped) = {}
       /\ A \cup D \cup B' \cup C' \cup (W \cup Dropped) = 1..(made + 1)
  <2> HIDE DEF A, B, C, D, W, M
  <2>1. CASE B' = B /\ C = {} /\ C' = {made + 1}
    BY <1>9, <1>11, <2>1
  <2>2. CASE C' = C /\ B = {} /\ B' = {made + 1}
    BY <1>9, <1>11, <2>2
  <2> QED BY <1>10, <2>1, <2>2
<1>13. Apart'
  <2>1. (\A k \in 1..Len(arrived) : arrived[k].id \in db \cup failed <=> k =< From)'
    BY <1>1, <1>7 DEF Apart
  <2>2. Distinct(arrived)' /\ Distinct(bus)'
    BY <1>1 DEF Apart
  <2> QED BY <1>9, <1>10, <1>12, <2>1, <2>2 DEF Apart
<1>14. Accounted'
  BY <1>1, <1>9, <1>10, <1>12 DEF Accounted
<1>15. Typed'
  BY <1>1, <1>5 DEF Typed, JobsTyped
<1>16. Working'
  <2>1. ~(Solo' # <<>> /\ Solo'[1].kind = "complete")
    BY <1>3, <1>6 DEF Working, IsFill
  <2>2. Writing("engine")' = <<>> \/ IsFill(Writing("engine"))'
    BY <1>4, <1>6 DEF Working
  <2>3. Solo' = <<>> \/ IsFill(Solo)' \/ IsSessionRow(Solo)'
    BY <1>4, <1>6 DEF Working
  <2>4. taken' # <<>> => Writing("writer")' # <<>> /\ Writing("stop")' = <<>>
    BY <1>1, <1>6 DEF Working
  <2> QED BY <1>1, <1>6, <2>1, <2>2, <2>3, <2>4 DEF Working
<1>17. Emptied'
  BY <1>1, <1>6 DEF Emptied
<1> QED BY <1>5, <1>8, <1>13, <1>14, <1>15, <1>16, <1>17

LEMMA InvCollect == ASSUME Inv, Collect PROVE Inv'
<1> DEFINE n == Min({Batch - Len(pending), Len(queue)})
           a == SubSeq(queue, 1, n)
           b == SubSeq(queue, n + 1, Len(queue))
<1> USE DEF Inv
<1>1. /\ writer \in {"getting", "collecting"} /\ n > 0 /\ pending' = pending \o a
      /\ Dequeued(n) /\ queue' = b /\ writer' = "collecting"
      /\ UNCHANGED <<made, bus, job, lock, taken, phase, db, failed, over, evicted, cancelled,
                     failures, row, ended, arrived>>
  BY DEF Collect, Dequeued, rows, session
<1>2. /\ Len(queue) \in Nat /\ Len(pending) \in Nat /\ Batch \in Nat
      /\ queue \in Seq(Queued) /\ pending \in Seq(Queued)
  BY StorageAssumption, LenProperties DEF Typed
<1>3. n \in 0..Len(queue) /\ Len(queue) # 0
  <2>1. Batch - Len(pending) \in Int /\ Len(queue) \in Int
    BY <1>2
  <2> DEFINE r == Batch - Len(pending)
             l == Len(queue)
  <2> HIDE DEF r, l
  <2>2. Min({r, l}) \in {r, l} /\ Min({r, l}) =< r /\ Min({r, l}) =< l
    BY <2>1, LeastOfTwo DEF r, l
  <2>3. n = Min({r, l})
    BY DEF r, l
  <2>4. n \in Int /\ n =< Len(queue)
    BY <2>1, <2>2, <2>3 DEF r, l
  <2> HIDE DEF n
  <2> QED BY <1>1, <1>2, <2>4
<1> HIDE DEF n
<1>4. a \in Seq(Queued) /\ b \in Seq(Queued) /\ queue = Then(a, b)
  BY <1>2, <1>3, Cut DEF Then
<1> HIDE DEF a, b
<1>5. pending' = Then(pending, a) /\ pending' \in Seq(Queued)
  BY <1>1, <1>2, <1>4, ConcatProperties DEF Then
<1>6. /\ \A j \in Jobs : Writing(j)' = Writing(j)
      /\ Writing("writer")' = Writing("writer") /\ Writing("stop")' = Writing("stop")
      /\ Writing("engine")' = Writing("engine") /\ Flush' = Flush /\ Solo' = Solo
  BY <1>1 DEF Writing, Flush, Solo
<1>7. Line' = Line
  <2>1. /\ Flush \in Seq(Queued) /\ Writing("writer") \in Seq(Queued) /\ taken \in Seq(Queued)
    BY Places
  <2>2. Join(Flush, Writing("writer"), taken, pending, Then(a, b))
           = Join(Flush, Writing("writer"), taken, Then(pending, a), b)
    BY <1>2, <1>4, <2>1, JoinMoves
  <2> QED BY <1>1, <1>4, <1>5, <1>6, <2>2 DEF Line
<1>8. Lined' /\ Apart' /\ Accounted'
  <2>1. Dropped' = Dropped /\ (db \cup failed)' = db \cup failed
    BY <1>1 DEF Dropped
  <2> QED BY <1>1, <1>6, <1>7, <2>1, Moving
<1>9. Budgeted'
  BY <1>1, <1>2, <1>3, Budgeting DEF Typed
<1>10. Typed'
  <2>1. budget' \in Nat
    <3>1. budget' = Count(queue', {"snapshot"}) + Count(arrived', {"status"})
      BY <1>9 DEF Budgeted, Telemetry
    <3>2. Count(queue', {"snapshot"}) \in Nat /\ Count(arrived', {"status"}) \in Nat
      BY <1>1, <1>4, CountType DEF Typed
    <3> QED BY <3>1, <3>2
  <2> QED BY <1>1, <1>4, <1>5, <2>1 DEF Typed
<1>11. Locked' /\ Ahead'
  BY <1>1, <1>6 DEF Locked, Ahead
<1>12. Working'
  BY <1>1, <1>6 DEF Working
<1>13. Emptied'
  <2>1. queue # <<>>
    BY <1>3, EmptySeq
  <2>2. phase \in {"running", "stopping", "closing"}
    BY <1>1, <2>1 DEF Emptied, Typed, Phases
  <2> QED BY <1>1, <1>6, <2>2 DEF Emptied
<1> QED BY <1>8, <1>9, <1>10, <1>11, <1>12, <1>13

LEMMA InvHandOff == ASSUME Inv, HandOff PROVE Inv'
<1> USE DEF Inv
<1>1. /\ writer = "collecting" /\ pending' = <<>>
      /\ UNCHANGED <<made, bus, queue, budget, taken, phase, db, failed, over, evicted, cancelled,
                     failures, row, ended, arrived>>
  BY DEF HandOff, rows, session
<1>2. Writing("writer") = <<>> /\ taken = <<>> /\ JobsTyped
  BY <1>1 DEF Working, Typed, JobsTyped
<1>3. CASE pending = <<>>
  <2>1. writer' = "getting" /\ UNCHANGED <<pending, job, lock>>
    BY <1>1, <1>3 DEF HandOff
  <2>2. /\ Writing("writer")' = Writing("writer") /\ Writing("stop")' = Writing("stop")
        /\ Writing("engine")' = Writing("engine") /\ Flush' = Flush /\ Solo' = Solo
        /\ Line' = Line
    BY <1>1, <2>1 DEF Writing, Flush, Solo, Line
  <2>3. Lined' /\ Apart' /\ Accounted'
    <3>1. Dropped' = Dropped /\ (db \cup failed)' = db \cup failed
      BY <1>1 DEF Dropped
    <3> QED BY <1>1, <2>2, <3>1, Moving
  <2>4. Typed' /\ Locked' /\ Ahead' /\ Budgeted'
    <3>1. Typed' /\ Budgeted'
      BY <1>1, <2>1 DEF Typed, Budgeted
    <3>2. Locked' /\ Ahead'
      BY <2>1, <2>2 DEF Locked, Ahead, Writing
    <3> QED BY <3>1, <3>2
  <2>5. Working' /\ Emptied'
    BY <1>1, <1>2, <1>3, <2>1, <2>2 DEF Working, Emptied
  <2> QED BY <2>3, <2>4, <2>5
<1>4. CASE pending # <<>>
  <2>1. writer' = "committing" /\ Begin("writer", pending)
    BY <1>4 DEF HandOff
  <2>2. pending \in Seq(AnyRow) /\ pending \in Seq(Queued)
    BY QueuedRows DEF Typed
  <2>3. /\ JobsTyped' /\ Locked' /\ Ahead' /\ Writing("writer")' = pending
        /\ Writing("stop")' = Writing("stop") /\ Writing("engine")' = Writing("engine")
    BY <1>2, <1>4, <2>1, <2>2, Begins DEF Jobs
  <2>4. Flush' = Flush /\ Solo' = Solo
    BY <2>3, SameStop
  <2>5. Line' = Line
    <3>1. Join(Flush, <<>>, <<>>, pending, queue) = Join(Flush, pending, <<>>, <<>>, queue)
      <4>1. Flush \in Seq(Queued) /\ queue \in Seq(Queued) /\ pending \in Seq(Queued)
        BY Places
      <4> QED BY <4>1, JoinMoves
    <3> QED BY <1>1, <1>2, <2>3, <2>4, <3>1 DEF Line
  <2>6. Lined' /\ Apart' /\ Accounted'
    <3>1. Dropped' = Dropped /\ (db \cup failed)' = db \cup failed
      BY <1>1 DEF Dropped
    <3> QED BY <1>1, <2>3, <2>4, <2>5, <3>1, Moving
  <2>7. Typed' /\ Budgeted'
    <3>1. pending' \in Seq(Queued)
      BY <1>1, EmptySeq
    <3> QED BY <1>1, <2>1, <2>3, <3>1 DEF Typed, JobsTyped, Budgeted
  <2>8. Working'
    <3>1. Writing("writer")' \in Seq(Queued) /\ Flush' \in Seq(Queued)
      BY <2>2, <2>3, <2>4 DEF Working
    <3> QED BY <1>1, <1>2, <2>1, <2>3, <2>4, <3>1 DEF Working
  <2>9. Emptied'
    <3>1. phase \in {"running", "stopping", "closing"}
      BY <1>1, <1>4 DEF Emptied, Typed, Phases
    <3> QED BY <1>1, <2>3, <3>1 DEF Emptied
  <2> QED BY <2>3, <2>6, <2>7, <2>8, <2>9
<1> QED BY <1>3, <1>4

LEMMA InvCommitted == ASSUME Inv, Committed PROVE Inv'
<1> USE DEF Inv
<1>1. /\ writer \in {"committing", "last"} /\ job["writer"] = NoJob
      /\ writer' = IF writer = "last" THEN "ended" ELSE "getting"
      /\ UNCHANGED <<made, bus, queue, budget, pending, job, lock, taken, phase, db, failed, over,
                     evicted, cancelled, failures, row, ended, arrived>>
  BY DEF Committed, rows, session
<1>2. Writing("writer") = <<>> /\ taken = <<>> /\ pending = <<>>
  <2>1. Writing("writer") = <<>>
    BY <1>1, Idling DEF Jobs
  <2> QED BY <1>1, <2>1 DEF Working
<1>3. /\ Writing("writer")' = Writing("writer") /\ Writing("stop")' = Writing("stop")
      /\ Writing("engine")' = Writing("engine") /\ Flush' = Flush /\ Solo' = Solo
      /\ Line' = Line
  BY <1>1 DEF Writing, Flush, Solo, Line
<1>4. Lined' /\ Apart' /\ Accounted'
  <2>1. Dropped' = Dropped /\ (db \cup failed)' = db \cup failed
    BY <1>1 DEF Dropped
  <2> QED BY <1>1, <1>3, <2>1, Moving
<1>5. Typed' /\ Budgeted'
  BY <1>1 DEF Typed, Budgeted
<1>6. Locked' /\ Ahead'
  BY <1>1, <1>3 DEF Locked, Ahead, Writing
<1>7. Working'
  BY <1>1, <1>2, <1>3 DEF Working
<1>8. Emptied'
  BY <1>1, <1>2, <1>3 DEF Emptied
<1> QED BY <1>4, <1>5, <1>6, <1>7, <1>8

\* A commit that is over, with all it had left to write.
LEMMA Committing ==
  ASSUME Inv, NEW j \in Jobs, Holds(j), Finish(j), Steady, phase' = phase, queue' = queue,
         pending' = pending, writer' = writer, budget' = budget,
         (db \cup failed)' = db \cup failed \cup IdsOf(Writing(j)),
         failures' \in BOOLEAN, row' \in Summaries \cup {"none"}, ended' \in BOOLEAN
  PROVE  Inv'
<1> USE DEF Inv
<1>1. /\ queue \in Seq(Queued) /\ pending \in Seq(Queued) /\ taken \in Seq(Queued)
      /\ Writing("writer") \in Seq(Queued) /\ Flush \in Seq(Queued) /\ JobsTyped
      /\ <<>> \in Seq(Queued) /\ made \in Nat
  BY Places DEF Typed, JobsTyped
<1>2. /\ Writing(j) # <<>> /\ (j = "writer" => Flush = <<>>)
      /\ taken # <<>> => Writing("writer") # <<>> /\ Writing("stop") = <<>>
  BY <1>1, OneLocked DEF Working
<1>3. /\ JobsTyped' /\ Locked' /\ Ahead' /\ Writing(j)' = <<>>
      /\ Writing("engine")' = IF j = "engine" THEN <<>> ELSE Writing("engine")
      /\ \/ /\ j = "writer" /\ taken # <<>> /\ taken' = <<>> /\ Writing("stop")' = taken
         \/ /\ (j # "writer" \/ taken = <<>>) /\ taken' = taken
            /\ \A k \in Jobs \ {j} : Writing(k)' = Writing(k)
  BY <1>1, <1>2, Finishes
<1>4. Dropped' = Dropped
  BY DEF Dropped, Steady
<1>5. CASE j = "writer"
  <2>1. /\ Writing("writer")' = <<>> /\ Writing("engine")' = Writing("engine") /\ taken' = <<>>
        /\ \/ taken # <<>> /\ Writing("stop")' = taken /\ Writing("stop") = <<>>
           \/ taken = <<>> /\ Writing("stop")' = Writing("stop")
    BY <1>2, <1>3, <1>5 DEF Jobs
  <2>2. Flush = <<>> /\ Flush' = taken /\ Solo' = Solo
    <3>1. CASE taken # <<>> /\ Writing("stop")' = taken /\ Writing("stop") = <<>>
      <4>1. Flush' = taken
        BY <1>1, <3>1, FlushOfQueued DEF Flush
      <4>2. Solo' = <<>>
        BY <3>1, <4>1 DEF Solo
      <4> QED BY <1>2, <1>5, <3>1, <4>1, <4>2, StopsJob
    <3>2. CASE taken = <<>> /\ Writing("stop")' = Writing("stop")
      BY <1>2, <1>5, <3>2, SameStop
    <3> QED BY <2>1, <3>1, <3>2
  <2>3. Line = Then(Writing("writer"), Line') /\ Line' \in Seq(Queued)
    <3>1. Join(<<>>, Writing("writer"), taken, pending, queue)
             = Then(Writing("writer"), Join(taken, <<>>, <<>>, pending, queue))
      BY <1>1, JoinCut
    <3>2. Join(taken, <<>>, <<>>, pending, queue) \in Seq(Queued)
      BY <1>1, JoinType
    <3> QED BY <2>1, <2>2, <3>1, <3>2 DEF Line
  <2>4. Lined' /\ Apart' /\ Accounted'
    <3>1. /\ made' = made /\ arrived' = arrived /\ bus' = bus /\ IdsOf(Solo)' = IdsOf(Solo)
          /\ IdsOf(Writing("engine"))' = IdsOf(Writing("engine"))
          /\ (db \cup failed)' = db \cup failed \cup IdsOf(Writing("writer"))
      BY <1>5, <2>1, <2>2 DEF Steady
    <3> HIDE DEF Line
    <3> QED BY <1>1, <1>4, <2>3, <3>1, Settling DEF Then
  <2>5. Typed' /\ Budgeted'
    BY <1>1, <1>3, <2>1 DEF Typed, JobsTyped, Budgeted, Steady
  <2>6. Working'
    <3>1. Solo' # <<>> /\ Solo'[1].kind = "complete" =>
             phase' = "recording" /\ failed' = {} /\ over' = {}
      <4>1. Solo # <<>> /\ Solo[1].kind = "complete" => phase = "recording"
        BY DEF Working
      <4>2. phase = "recording" => Writing("writer") = <<>>
        BY DEF Emptied
      <4> QED BY <1>2, <1>5, <2>2, <4>1, <4>2
    <3> QED BY <1>1, <2>1, <2>2, <3>1 DEF Working
  <2>7. Emptied'
    <3>1. phase \in {"running", "stopping", "ending", "closing", "cancelling"}
      BY <1>2, <1>5 DEF Emptied, Typed, Phases
    <3> QED BY <1>2, <1>5, <2>1, <3>1 DEF Emptied, Steady
  <2> QED BY <1>3, <2>4, <2>5, <2>6, <2>7
<1>6. CASE j = "stop"
  <2>1. /\ Writing("stop") # <<>> /\ Writing("stop")' = <<>> /\ taken = <<>> /\ taken' = <<>>
        /\ Writing("writer")' = Writing("writer") /\ Writing("engine")' = Writing("engine")
    BY <1>2, <1>3, <1>6 DEF Jobs
  <2>2. Flush' = <<>> /\ Solo' = <<>>
    BY <2>1 DEF Flush, Solo, FromQueue
  <2>3. Lined' /\ Apart' /\ Accounted'
    <3>1. /\ made' = made /\ arrived' = arrived /\ bus' = bus
          /\ IdsOf(Writing("engine"))' = IdsOf(Writing("engine"))
          /\ (db \cup failed)' = db \cup failed \cup IdsOf(Writing("stop"))
      BY <1>6, <2>1 DEF Steady
    <3>2. CASE Flush # <<>>
      <4>1. Flush = Writing("stop") /\ Solo = <<>>
        BY <3>2, StopsJob
      <4>2. Line = Then(Flush, Line') /\ Line' \in Seq(Queued)
        <5>1. Join(Flush, Writing("writer"), taken, pending, queue)
                 = Then(Flush, Join(<<>>, Writing("writer"), taken, pending, queue))
          BY <1>1, JoinCut
        <5>2. Join(<<>>, Writing("writer"), taken, pending, queue) \in Seq(Queued)
          BY <1>1, JoinType
        <5> QED BY <2>1, <2>2, <5>1, <5>2 DEF Line
      <4>3. IdsOf(Solo)' = IdsOf(Solo) /\ (db \cup failed)' = db \cup failed \cup IdsOf(Flush)
        BY <2>2, <3>1, <4>1
      <4> HIDE DEF Line, Flush
      <4> QED BY <1>1, <1>4, <3>1, <4>2, <4>3, Settling DEF Then
    <3>3. CASE Flush = <<>>
      <4>1. Solo = Writing("stop")
        BY <3>3, StopsJob
      <4>2. Line' = Line
        BY <2>1, <2>2, <3>3 DEF Line
      <4>3. IdsOf(Solo)' = {} /\ (db \cup failed)' = db \cup failed \cup IdsOf(Solo)
        BY <2>2, <3>1, <4>1, IdsNone
      <4> DEFINE E == IdsOf(Solo)
      <4>4. E = IdsOf(Solo)
        OBVIOUS
      <4> HIDE DEF Line, Flush, E
      <4> QED BY <1>4, <3>1, <4>2, <4>3, <4>4, OwnSettled
    <3> QED BY <3>2, <3>3
  <2>4. Typed' /\ Budgeted'
    BY <1>1, <1>3, <2>1 DEF Typed, JobsTyped, Budgeted, Steady
  <2>5. Working'
    BY <1>1, <2>1, <2>2 DEF Working
  <2>6. Emptied'
    BY <2>1 DEF Emptied, Steady
  <2> QED BY <1>3, <2>3, <2>4, <2>5, <2>6
<1>7. CASE j = "engine"
  <2>1. /\ Writing("engine") # <<>> /\ Writing("engine")' = <<>> /\ taken' = taken
        /\ Writing("writer")' = Writing("writer") /\ Writing("stop")' = Writing("stop")
    BY <1>2, <1>3, <1>7 DEF Jobs
  <2>2. phase = "running" /\ Writing("stop") = <<>>
    BY <2>1 DEF Emptied
  <2>3. Flush' = Flush /\ Solo' = Solo /\ Solo = <<>>
    BY <2>1, <2>2, SameStop, StopsJob
  <2>4. Line' = Line
    BY <2>1, <2>3 DEF Line
  <2>5. Lined' /\ Apart' /\ Accounted'
    <3> DEFINE E == IdsOf(Writing("engine"))
    <3>1. /\ made' = made /\ arrived' = arrived /\ bus' = bus /\ IdsOf(Solo)' = IdsOf(Solo)
          /\ IdsOf(Writing("engine"))' = {} /\ E = IdsOf(Writing("engine"))
          /\ (db \cup failed)' = db \cup failed \cup E
      BY <1>7, <2>1, <2>3, IdsNone DEF Steady
    <3> HIDE DEF E, Line
    <3> QED BY <1>4, <2>4, <3>1, OwnSettled
  <2>6. Typed' /\ Budgeted'
    BY <1>1, <1>3, <2>1 DEF Typed, JobsTyped, Budgeted, Steady
  <2>7. Working'
    BY <1>1, <2>1, <2>3 DEF Working
  <2>8. Emptied'
    BY <2>1, <2>2 DEF Emptied, Steady
  <2> QED BY <1>3, <2>5, <2>6, <2>7, <2>8
<1> QED BY <1>5, <1>6, <1>7 DEF Jobs

LEMMA WrittenTyped ==
  ASSUME Typed, NEW ops, Written(ops)
  PROVE  /\ row' \in Summaries \cup {"none"} /\ ended' \in BOOLEAN
         /\ db' = db \cup IdsOf(ops)
<1>1. row \in Summaries \cup {"none"} /\ ended \in BOOLEAN
  BY DEF Typed
<1>2. row' \in Summaries \cup {"none"}
  <2>1. CASE \E kind \in Summaries : Kind(ops, kind)
    BY <2>1 DEF Written
  <2>2. CASE ~\E kind \in Summaries : Kind(ops, kind)
    BY <1>1, <2>2 DEF Written
  <2> QED BY <2>1, <2>2
<1>3. ended' \in BOOLEAN
  BY <1>1 DEF Written, Kind
<1>4. db' = db \cup IdsOf(ops)
  BY DEF Written
<1> QED BY <1>2, <1>3, <1>4

LEMMA InvCommitBatch == ASSUME Inv, NEW j \in Jobs, CommitBatch(j) PROVE Inv'
<1>1. /\ Holds(j) /\ Finish(j) /\ Written(Writing(j)) /\ failed' = failed /\ failures' = failures
      /\ phase' = phase /\ queue' = queue /\ pending' = pending /\ writer' = writer
      /\ budget' = budget /\ Steady
  BY DEF CommitBatch, Writing, Steady
<1>2. Typed
  BY DEF Inv
<1>3. /\ row' \in Summaries \cup {"none"} /\ ended' \in BOOLEAN /\ db' = db \cup IdsOf(Writing(j))
  BY <1>1, <1>2, WrittenTyped
<1>4. failures' \in BOOLEAN
  BY <1>1, <1>2 DEF Typed
<1>5. (db \cup failed)' = db \cup failed \cup IdsOf(Writing(j))
  BY <1>1, <1>3
<1> QED BY <1>1, <1>3, <1>4, <1>5, Committing

LEMMA InvBatchFails == ASSUME Inv, NEW j \in Jobs, BatchFails(j) PROVE Inv'
<1> USE DEF Inv
<1>1. /\ job[j].stage \in {"first", "second"} /\ failures' = TRUE
      /\ job' = [job EXCEPT ![j].stage = IF @ = "first" THEN "second" ELSE "single"]
      /\ UNCHANGED <<made, bus, queue, budget, pending, writer, lock, taken, phase, db, failed,
                      over,
                     evicted, cancelled, row, ended, arrived>>
  BY DEF BatchFails, rows
<1>2. /\ job' \in [Jobs -> [ops : Seq(AnyRow), stage : Stages]]
      /\ \A k \in Jobs : /\ job'[k].ops = job[k].ops
                         /\ job'[k].stage = "none" <=> job[k].stage = "none"
  BY <1>1 DEF Typed, Stages
<1>3. /\ \A k \in Jobs : Writing(k)' = Writing(k)
      /\ Writing("writer")' = Writing("writer") /\ Writing("stop")' = Writing("stop")
      /\ Writing("engine")' = Writing("engine")
  BY <1>2 DEF Writing, Jobs
<1>4. Flush' = Flush /\ Solo' = Solo
  BY <1>3, SameStop
<1>5. Line' = Line
  BY <1>1, <1>3, <1>4 DEF Line
<1>6. Lined' /\ Apart' /\ Accounted'
  <2>1. Dropped' = Dropped /\ (db \cup failed)' = db \cup failed
    BY <1>1 DEF Dropped
  <2> QED BY <1>1, <1>3, <1>4, <1>5, <2>1, Moving
<1>7. Typed' /\ Budgeted'
  BY <1>1, <1>2 DEF Typed, Budgeted
<1>8. Locked' /\ Ahead'
  BY <1>1, <1>2, <1>3, <1>4 DEF Locked, Ahead
<1>9. Working'
  BY <1>1, <1>3, <1>4 DEF Working
<1>10. Emptied'
  BY <1>1, <1>3 DEF Emptied
<1> QED BY <1>6, <1>7, <1>8, <1>9, <1>10

\* One row of a batch is settled; the others still wait for theirs.
LEMMA SettledOne ==
  ASSUME Inv, NEW j \in Jobs, Holds(j), Len(Writing(j)) # 1, job[j].stage = "single",
         job' = [job EXCEPT ![j].ops = Tail(@)], lock' = lock, taken' = taken, Steady,
         phase' = phase, queue' = queue, pending' = pending, writer' = writer, budget' = budget,
         (db \cup failed)' = db \cup failed \cup IdsOf(<<Head(Writing(j))>>),
         failures' = failures, row' \in Summaries \cup {"none"}, ended' \in BOOLEAN
  PROVE  Inv'
<1> DEFINE o == Head(Writing(j))
           rest == Tail(Writing(j))
<1> USE DEF Inv
<1>1. /\ queue \in Seq(Queued) /\ pending \in Seq(Queued) /\ taken \in Seq(Queued)
      /\ Writing("writer") \in Seq(Queued) /\ Flush \in Seq(Queued) /\ JobsTyped
      /\ <<>> \in Seq(Queued) /\ made \in Nat
  BY Places DEF Typed, JobsTyped
<1>2. Writing(j) # <<>> /\ (j = "writer" => Flush = <<>>)
  BY <1>1, OneLocked
<1>3. \/ /\ j = "writer" /\ Flush = <<>> /\ Writing(j) \in Seq(Queued)
         /\ Writing(j) = Writing("writer")
      \/ /\ j = "stop" /\ Flush = Writing("stop") /\ Solo = <<>> /\ Writing(j) \in Seq(Queued)
         /\ Writing(j) = Writing("stop")
  <2>1. CASE j = "writer"
    BY <1>1, <1>2, <2>1
  <2>2. CASE j = "stop"
    <3>1. Flush # <<>>
      <4>1. CASE Flush = <<>>
        <5>1. Solo = Writing("stop")
          BY <4>1, StopsJob
        <5> QED BY <1>2, <2>2, <5>1 DEF Working, IsFill, IsSessionRow
      <4> QED BY <4>1
    <3> QED BY <1>1, <2>2, <3>1, StopsJob
  <2>3. CASE j = "engine"
    BY <1>2, <2>3 DEF Working, IsFill
  <2> QED BY <2>1, <2>2, <2>3 DEF Jobs
<1>4. Writing(j) \in Seq(Queued)
  BY <1>3
<1>5. /\ rest \in Seq(Queued) /\ o \in Queued /\ rest # <<>>
      /\ <<o>> \in Seq(Queued) /\ Writing(j) = Then(<<o>>, rest)
  <2>1. /\ Len(Writing(j)) \in Nat \ {0} /\ o \in Queued /\ rest \in Seq(Queued)
        /\ Len(rest) = Len(Writing(j)) - 1
    BY <1>2, <1>4, HeadAndTail
  <2>2. rest # <<>>
    <3>1. Len(rest) # 0
      BY <2>1
    <3> QED BY <3>1, EmptySeq
  <2>3. Writing(j) = <<o>> \o rest /\ <<o>> \in Seq(Queued)
    <3> DEFINE w == Writing(j)
    <3>1. w = SubSeq(w, 1, Len(w)) /\ SubSeq(w, 1, Len(w)) = <<w[1]>> \o SubSeq(w, 2, Len(w))
      <4>1. w \in Seq(Queued) /\ Len(w) \in 1..Len(w) /\ 1 \in 1..Len(w)
        BY <1>4, <2>1
      <4> HIDE DEF w
      <4>2. w = SubSeq(w, 1, Len(w))
        BY <4>1, SubSeqFull
      <4>3. SubSeq(w, 1, Len(w)) = <<w[1]>> \o SubSeq(w, 1 + 1, Len(w))
        BY <4>1, SubSeqRecursiveFirst
      <4> QED BY <4>2, <4>3
    <3>2. Tail(w) = SubSeq(w, 2, Len(w)) /\ Head(w) = w[1]
      <4>1. w \in Seq(Queued) /\ w # <<>>
        BY <1>2, <1>4
      <4> HIDE DEF w
      <4> QED BY <4>1, HeadTailProperties, HeadAndTail
    <3>3. <<o>> \in Seq(Queued)
      <4> HIDE DEF o
      <4> QED BY <2>1
    <3> QED BY <3>1, <3>2, <3>3
  <2> QED BY <2>1, <2>2, <2>3 DEF Then
<1> HIDE DEF o
<1>6. rest \in Seq(AnyRow)
  BY <1>5, QueuedRows
<1>7. /\ job' \in [Jobs -> [ops : Seq(AnyRow), stage : Stages]]
      /\ job'[j].ops = rest /\ job'[j].stage = "single"
      /\ \A k \in Jobs \ {j} : job'[k] = job[k]
  BY <1>6 DEF Typed, Writing
<1> HIDE DEF rest
<1>8. Writing(j)' = rest /\ \A k \in Jobs \ {j} : Writing(k)' = Writing(k)
  BY <1>7 DEF Writing
<1>9. /\ Writing("engine")' = Writing("engine")
      /\ \/ /\ j = "writer" /\ Flush = <<>> /\ Writing("writer") = Then(<<o>>, rest)
            /\ Writing("writer")' = rest /\ Writing("stop")' = Writing("stop") /\ Flush' = Flush
            /\ Solo' = Solo /\ Writing("writer") # <<>>
         \/ /\ j = "stop" /\ Flush = Then(<<o>>, rest) /\ Solo = <<>> /\ Solo' = <<>>
            /\ Flush' = rest
            /\ Writing("writer")' = Writing("writer") /\ Writing("stop")' = rest
            /\ Flush = Writing("stop") /\ Flush # <<>>
  <2>1. CASE j = "writer"
    <3>1. Writing("engine")' = Writing("engine") /\ Writing("stop")' = Writing("stop")
      BY <1>8, <2>1 DEF Jobs
    <3> QED BY <1>2, <1>3, <1>5, <1>8, <2>1, <3>1, SameStop
  <2>2. CASE j = "stop"
    <3>1. Writing("engine")' = Writing("engine") /\ Writing("writer")' = Writing("writer")
      BY <1>8, <2>2 DEF Jobs
    <3>2. Flush' = rest /\ Writing("stop")' = rest
      BY <1>5, <1>8, <2>2, FlushOfQueued DEF Flush
    <3>3. Solo' = <<>>
      BY <1>5, <3>2 DEF Solo
    <3> QED BY <1>2, <1>3, <1>5, <2>2, <3>1, <3>2, <3>3
  <2> QED BY <1>3, <2>1, <2>2
<1>10. Line = Then(<<o>>, Line') /\ Line' \in Seq(Queued)
  <2>1. CASE j = "writer"
    <3>1. Join(<<>>, Then(<<o>>, rest), taken, pending, queue)
             = Then(<<o>>, Join(<<>>, rest, taken, pending, queue))
      <4> DEFINE X == Seq(Queued)
      <4>1. \A a, b, c, d, e \in X :
               Join(<<>>, Then(a, b), c, d, e) = Then(a, Join(<<>>, b, c, d, e))
        BY JoinCut
      <4>2. <<o>> \in X /\ rest \in X /\ taken \in X /\ pending \in X /\ queue \in X
        BY <1>1, <1>5
      <4> HIDE DEF X
      <4> QED BY <4>1, <4>2
    <3>2. Join(<<>>, rest, taken, pending, queue) \in Seq(Queued)
      BY <1>1, <1>5, JoinType
    <3>3. Line = Join(<<>>, Then(<<o>>, rest), taken, pending, queue)
      BY <1>9, <2>1 DEF Line
    <3>4. Line' = Join(<<>>, rest, taken, pending, queue)
      BY <1>9, <2>1 DEF Line
    <3> QED BY <3>1, <3>2, <3>3, <3>4
  <2>2. CASE j = "stop"
    <3> DEFINE w == Writing("writer")
    <3>1. Join(Then(<<o>>, rest), w, taken, pending, queue)
             = Then(<<o>>, Join(rest, w, taken, pending, queue))
      <4> DEFINE X == Seq(Queued)
      <4>1. \A a, b, v, c, d, e \in X :
               Join(Then(a, b), v, c, d, e) = Then(a, Join(b, v, c, d, e))
        BY JoinCut
      <4>2. /\ <<o>> \in X /\ rest \in X /\ w \in X
            /\ taken \in X /\ pending \in X /\ queue \in X
        BY <1>1, <1>5
      <4> HIDE DEF X, w
      <4> QED BY <4>1, <4>2
    <3>2. Join(rest, w, taken, pending, queue) \in Seq(Queued)
      BY <1>1, <1>5, JoinType
    <3>3. Line = Join(Then(<<o>>, rest), w, taken, pending, queue)
      BY <1>9, <2>2 DEF Line
    <3>4. Line' = Join(rest, w, taken, pending, queue)
      BY <1>9, <2>2 DEF Line
    <3> QED BY <3>1, <3>2, <3>3, <3>4
  <2> QED BY <1>3, <2>1, <2>2
<1>11. Lined' /\ Apart' /\ Accounted'
  <2>1. Dropped' = Dropped /\ (db \cup failed)' = db \cup failed \cup IdsOf(<<o>>)
    BY DEF Dropped, Steady, o
  <2>2. /\ made' = made /\ arrived' = arrived /\ bus' = bus /\ IdsOf(Solo)' = IdsOf(Solo)
        /\ IdsOf(Writing("engine"))' = IdsOf(Writing("engine"))
    BY <1>9 DEF Steady
  <2> HIDE DEF Line, Dropped
  <2> QED BY <1>5, <1>10, <2>1, <2>2, Settling DEF Then
<1>12. Typed' /\ Budgeted'
  BY <1>1, <1>7 DEF Typed, JobsTyped, Budgeted, Steady
<1>13. Locked'
  <2>1. Writing(j)' # <<>> /\ job'[j].stage # "none"
    BY <1>5, <1>7, <1>8
  <2>2. ASSUME NEW k \in Jobs
        PROVE  /\ Occurs(k, lock') <=> Writing(k)' # <<>>
               /\ job'[k].stage = "none" <=> Writing(k)' = <<>>
    <3>1. (Occurs(k, lock) <=> Writing(k) # <<>>) /\ (job[k].stage = "none" <=> Writing(k) = <<>>)
      BY DEF Locked
    <3>2. CASE k = j
      BY <1>2, <2>1, <3>1, <3>2
    <3>3. CASE k # j
      BY <1>7, <1>8, <3>1, <3>3
    <3> QED BY <3>2, <3>3
  <2> QED BY <2>2 DEF Locked
<1>14. Ahead'
  BY <1>9 DEF Ahead
<1>15. Working'
  <2>1. Solo' # <<>> /\ Solo'[1].kind = "complete" => FALSE
    <3>1. CASE j = "writer"
      <4>1. Solo # <<>> /\ Solo[1].kind = "complete" => phase = "recording"
        BY DEF Working
      <4>2. phase = "recording" => Writing("writer") = <<>>
        BY DEF Emptied
      <4> QED BY <1>9, <3>1, <4>1, <4>2
    <3>2. CASE j = "stop"
      BY <1>9, <3>2
    <3> QED BY <1>3, <3>1, <3>2
  <2>2. Writing("writer")' \in Seq(Queued) /\ Flush' \in Seq(Queued)
    BY <1>1, <1>5, <1>9
  <2>3. Writing("writer")' # <<>> <=> Writing("writer") # <<>>
    BY <1>5, <1>9
  <2>4. Writing("stop") = <<>> => Writing("stop")' = <<>>
    BY <1>9
  <2>5. Solo' = Solo /\ Writing("engine")' = Writing("engine")
    BY <1>9
  <2> QED BY <2>1, <2>2, <2>3, <2>4, <2>5 DEF Working
<1>16. Emptied'
  <2>1. phase \in {"running", "stopping", "ending", "closing", "cancelling", "draining"}
    <3>1. CASE j = "writer"
      BY <1>9, <3>1 DEF Emptied, Typed, Phases
    <3>2. CASE j = "stop"
      <4>1. ~IsSessionRow(Writing("stop"))
        BY <3>2 DEF IsSessionRow
      <4> QED BY <1>9, <3>2, <4>1 DEF Emptied, Typed, Phases
    <3> QED BY <1>3, <3>1, <3>2
  <2> QED BY <1>9, <2>1 DEF Emptied, Steady
<1> QED BY <1>11, <1>12, <1>13, <1>14, <1>15, <1>16

LEMMA InvCommitOne == ASSUME Inv, NEW j \in Jobs, CommitOne(j) PROVE Inv'
<1> DEFINE o == Head(Writing(j))
<1>1. /\ Holds(j) /\ job[j].stage = "single" /\ failures' = failures
      /\ phase' = phase /\ queue' = queue /\ pending' = pending /\ writer' = writer
      /\ budget' = budget /\ Steady
      /\ \/ Written(<<o>>) /\ failed' = failed
         \/ failed' = failed \cup IdsOf(<<o>>) /\ db' = db /\ row' = row /\ ended' = ended
      /\ \/ Len(Writing(j)) = 1 /\ Finish(j)
         \/ /\ Len(Writing(j)) # 1 /\ job' = [job EXCEPT ![j].ops = Tail(@)]
            /\ lock' = lock /\ taken' = taken
  BY DEF CommitOne, Writing, Steady
<1>2. Typed
  BY DEF Inv
<1> DEFINE N == IdsOf(<<o>>)
<1> HIDE DEF o
<1>3. /\ row' \in Summaries \cup {"none"} /\ ended' \in BOOLEAN
      /\ \/ db' = db \cup N /\ failed' = failed
         \/ failed' = failed \cup N /\ db' = db
  <2>1. CASE Written(<<o>>) /\ failed' = failed
    BY <1>2, <2>1, WrittenTyped
  <2>2. CASE failed' = failed \cup IdsOf(<<o>>) /\ db' = db /\ row' = row /\ ended' = ended
    BY <1>2, <2>2 DEF Typed
  <2> QED BY <1>1, <2>1, <2>2
<1>4. failures' \in BOOLEAN
  BY <1>1, <1>2 DEF Typed
<1>5. (db \cup failed)' = db \cup failed \cup N
  <2> HIDE DEF N
  <2> QED BY <1>3
<1>6. CASE Len(Writing(j)) = 1 /\ Finish(j)
  <2>1. IdsOf(Writing(j)) = N
    <3>1. Writing(j) \in Seq(AnyRow)
      BY <1>2 DEF Typed, Writing
    <3>2. Writing(j) = <<o>>
      <4> DEFINE w == Writing(j)
      <4>1. w \in Seq(AnyRow) /\ Len(w) = 1 /\ o = Head(w)
        BY <1>6, <3>1 DEF o
      <4> HIDE DEF w
      <4>2. w = <<Head(w)>>
        BY <4>1
      <4> QED BY <4>1, <4>2 DEF w
    <3> QED BY <3>2
  <2>2. (db \cup failed)' = db \cup failed \cup IdsOf(Writing(j))
    BY <1>5, <2>1
  <2> QED BY <1>1, <1>3, <1>4, <1>6, <2>2, Committing
<1>7. CASE /\ Len(Writing(j)) # 1 /\ job' = [job EXCEPT ![j].ops = Tail(@)]
           /\ lock' = lock /\ taken' = taken
  <2>1. (db \cup failed)' = db \cup failed \cup IdsOf(<<Head(Writing(j))>>)
    BY <1>5 DEF N, o
  <2> QED BY <1>1, <1>3, <1>7, <2>1, SettledOne
<1> QED BY <1>1, <1>6, <1>7

----------------------------------------------------------------------------
(* The shutdown keeps it *)

\* flush() takes what waits, for a commit of its own or for after the writer's.
LEMMA Flushes ==
  ASSUME Inv, Idle, NEW next \in {"stopping", "ending", "closing", "draining"}, Flushing(next),
         phase \in {"stopping", "signing", "cancelling"},
         next = "draining" => writer = "ended" /\ Writing("writer") = <<>>
  PROVE  Inv'
<1> DEFINE ops == Then(pending, queue)
           w == Writing("writer")
<1> USE DEF Inv
<1>1. /\ pending' = <<>> /\ Dequeued(Len(queue)) /\ phase' = next
      /\ \/ ops = <<>> /\ UNCHANGED <<job, lock, taken>>
         \/ ops # <<>> /\ job["writer"] # NoJob /\ taken' = ops /\ UNCHANGED <<job, lock>>
         \/ ops # <<>> /\ job["writer"] = NoJob /\ Begin("stop", ops) /\ taken' = taken
      /\ UNCHANGED <<made, bus, writer, db, failed, over, evicted, cancelled, failures, row, ended,
                     arrived>>
  BY DEF Flushing, rows, session, Then
<1>2. /\ queue \in Seq(Queued) /\ pending \in Seq(Queued) /\ w \in Seq(Queued)
      /\ Flush \in Seq(Queued) /\ <<>> \in Seq(Queued) /\ JobsTyped /\ ops \in Seq(Queued)
  <2>1. /\ queue \in Seq(Queued) /\ pending \in Seq(Queued) /\ w \in Seq(Queued)
        /\ Flush \in Seq(Queued) /\ <<>> \in Seq(Queued) /\ JobsTyped
    BY Places DEF Typed, JobsTyped
  <2>2. ops \in Seq(Queued)
    BY <2>1, Joining
  <2> QED BY <2>1, <2>2
<1>3. /\ taken = <<>> /\ Writing("stop") = <<>> /\ Flush = <<>> /\ Solo = <<>>
      /\ (job["writer"] = NoJob <=> w = <<>>)
  BY Idling, StopsJob DEF Idle, Jobs
<1>4. queue' = <<>> /\ Budgeted'
  <2>1. Len(queue) \in 0..Len(queue) /\ Len(queue) - Len(queue) = 0
    BY <1>2, LenProperties
  <2>2. queue' = SubSeq(queue, Len(queue) + 1, Len(queue))
    BY <1>1 DEF Dequeued
  <2>3. queue' \in Seq(Queued) /\ Len(queue') = 0
    BY <1>2, <2>1, <2>2, Cut
  <2>4. queue' = <<>>
    BY <2>3, Empty
  <2>5. Budgeted'
    BY <1>1, <2>1, Budgeting DEF Typed
  <2> QED BY <2>4, <2>5
<1>5. /\ JobsTyped' /\ Locked' /\ Ahead'
      /\ Writing("writer")' = w /\ Writing("engine")' = Writing("engine")
      /\ taken' \in Seq(Queued) /\ Flush' \in Seq(Queued) /\ Solo' = <<>> /\ Line' = Line
      /\ taken' # <<>> => w # <<>> /\ Writing("stop")' = <<>>
      /\ w = <<>> => taken' = <<>>
  <2> DEFINE X == Seq(Queued)
  <2>1. /\ Join(<<>>, w, <<>>, pending, queue) = Join(<<>>, w, ops, <<>>, <<>>)
        /\ Join(<<>>, <<>>, <<>>, pending, queue) = Join(ops, <<>>, <<>>, <<>>, <<>>)
    <3>1. \A c, p, q \in X : /\ Join(<<>>, c, <<>>, p, q) = Join(<<>>, c, Then(p, q), <<>>, <<>>)
                             /\ Join(<<>>, <<>>, <<>>, p, q) =
                                  Join(Then(p, q), <<>>, <<>>, <<>>, <<>>)
      BY JoinMoves
    <3>2. w \in X /\ pending \in X /\ queue \in X
      BY <1>2
    <3> HIDE DEF X, w
    <3> QED BY <3>1, <3>2
  <2>2. Line = Join(<<>>, w, <<>>, pending, queue)
    BY <1>3 DEF Line
  <2> HIDE DEF ops
  <2>3. CASE ops = <<>> /\ UNCHANGED <<job, lock, taken>>
    <3>1. /\ \A k \in Jobs : Writing(k)' = Writing(k)
          /\ Writing("writer")' = w /\ Writing("stop")' = Writing("stop")
          /\ Writing("engine")' = Writing("engine") /\ Flush' = Flush /\ Solo' = Solo
      BY <2>3 DEF Writing, Flush, Solo
    <3>2. JobsTyped' /\ Locked' /\ Ahead'
      BY <1>2, <2>3, <3>1 DEF JobsTyped, Locked, Ahead
    <3>3. Line' = Join(<<>>, w, <<>>, <<>>, <<>>)
      BY <1>1, <1>3, <1>4, <2>3, <3>1 DEF Line
    <3>4. Line' = Line
      BY <2>1, <2>2, <2>3, <3>3
    <3> QED BY <1>2, <1>3, <2>3, <3>1, <3>2, <3>4
  <2>4. CASE ops # <<>> /\ job["writer"] # NoJob /\ taken' = ops /\ UNCHANGED <<job, lock>>
    <3>1. /\ \A k \in Jobs : Writing(k)' = Writing(k)
          /\ Writing("writer")' = w /\ Writing("stop")' = Writing("stop")
          /\ Writing("engine")' = Writing("engine") /\ Flush' = Flush /\ Solo' = Solo
      BY <2>4 DEF Writing, Flush, Solo
    <3>2. JobsTyped' /\ Locked' /\ Ahead'
      BY <1>2, <2>4, <3>1 DEF JobsTyped, Locked, Ahead
    <3>3. Line' = Join(<<>>, w, ops, <<>>, <<>>)
      BY <1>1, <1>3, <1>4, <2>4, <3>1 DEF Line
    <3>4. Line' = Line
      BY <2>1, <2>2, <3>3
    <3> QED BY <1>2, <1>3, <2>4, <3>1, <3>2, <3>4
  <2>5. CASE ops # <<>> /\ job["writer"] = NoJob /\ Begin("stop", ops) /\ taken' = taken
    <3>1. w = <<>> /\ ops \in Seq(AnyRow)
      BY <1>2, <1>3, <2>5, QueuedRows
    <3>2. /\ JobsTyped' /\ Locked' /\ Ahead' /\ Writing("stop")' = ops
          /\ Writing("writer")' = w /\ Writing("engine")' = Writing("engine")
      BY <1>2, <1>3, <2>5, <3>1, Begins DEF Jobs
    <3>3. Flush' = ops
      BY <1>2, <3>2, FlushOfQueued DEF Flush
    <3>4. Solo' = <<>>
      BY <2>5, <3>3 DEF Solo
    <3>5. Line' = Join(ops, <<>>, <<>>, <<>>, <<>>)
      BY <1>1, <1>3, <1>4, <2>5, <3>1, <3>2, <3>3 DEF Line
    <3>6. Line' = Line
      BY <2>1, <2>2, <3>1, <3>5
    <3> QED BY <1>2, <1>3, <2>5, <3>1, <3>2, <3>3, <3>4, <3>6
  <2> QED BY <1>1, <2>3, <2>4, <2>5
<1> HIDE DEF ops, w
<1>6. Lined' /\ Apart' /\ Accounted'
  <2>1. Dropped' = Dropped /\ (db \cup failed)' = db \cup failed
    BY <1>1 DEF Dropped
  <2>2. IdsOf(Solo)' = IdsOf(Solo) /\ IdsOf(Writing("engine"))' = IdsOf(Writing("engine"))
    BY <1>3, <1>5
  <2> QED BY <1>1, <1>5, <2>1, <2>2, Moving
<1>7. Typed'
  <2>1. budget' \in Nat
    <3>1. budget' = Count(queue', {"snapshot"}) + Count(arrived', {"status"})
      BY <1>4 DEF Budgeted, Telemetry
    <3>2. Count(queue', {"snapshot"}) \in Nat /\ Count(arrived', {"status"}) \in Nat
      BY <1>1, <1>2, <1>4, CountType DEF Typed
    <3> QED BY <3>1, <3>2
  <2> QED BY <1>1, <1>2, <1>4, <1>5, <2>1 DEF Typed, JobsTyped, Phases
<1>8. Working'
  BY <1>1, <1>2, <1>3, <1>5 DEF Working, w
<1>9. Emptied'
  BY <1>1, <1>3, <1>4, <1>5 DEF Emptied, w
<1> QED BY <1>4, <1>5, <1>6, <1>7, <1>8, <1>9

LEMMA InvFinalizeEntryAttempts == ASSUME Inv, FinalizeEntryAttempts PROVE Inv'
<1>1. phase = "stopping" /\ Idle /\ Flushing("stopping")
  BY DEF FinalizeEntryAttempts
<1> QED BY <1>1, Flushes

LEMMA InvEndSession == ASSUME Inv, EndSession PROVE Inv'
<1>1. phase = "stopping" /\ Idle /\ Flushing("ending")
  BY DEF EndSession
<1> QED BY <1>1, Flushes

LEMMA InvClose == ASSUME Inv, Close PROVE Inv'
<1>1. phase = "signing" /\ job["stop"] = NoJob /\ Flushing("closing") /\ taken = <<>>
  BY DEF Close, Inv, Emptied
<1> QED BY <1>1, Flushes DEF Idle

LEMMA InvLastFlush == ASSUME Inv, LastFlush PROVE Inv'
<1>1. phase = "cancelling" /\ writer = "ended" /\ Flushing("draining")
  BY DEF LastFlush
<1>2. taken = <<>> /\ Writing("stop") = <<>> /\ Writing("writer") = <<>>
  BY <1>1 DEF Inv, Emptied
<1>3. Idle
  BY <1>2, Idling DEF Idle, Inv, Jobs
<1> QED BY <1>1, <1>2, <1>3, Flushes

\* The session's own rows, when nothing else is left to commit.
LEMMA Saves ==
  ASSUME Inv, taken = <<>>, Writing("stop") = <<>>, Writing("writer") = <<>>,
         NEW kind \in {"complete", "holes", "ended"}, NEW next, SaveSession(kind, next),
         \/ phase = "ending" /\ next = "recording"
         \/ phase = "recording" /\ next = "signing",
         kind = "complete" => next = "recording" /\ failed = {} /\ over = {}
  PROVE  Inv'
<1> DEFINE o == [id |-> 0, kind |-> kind]
           ops == <<o>>
<1> USE DEF Inv
<1>1. /\ phase' = next /\ Begin("stop", ops)
      /\ UNCHANGED <<made, bus, queue, budget, pending, writer, taken, db, failed, over, evicted,
                     cancelled, failures, row, ended, arrived>>
  BY DEF SaveSession, rows, session
<1>2. /\ ops \in Seq(AnyRow) /\ ops # <<>> /\ Len(ops) = 1 /\ ops[1].kind = kind /\ ops[1].id = 0
      /\ IdsOf(ops) = {}
  <2>1. o \in AnyRow /\ o.id = 0 /\ o.kind = kind
    BY DEF AnyRow, Kinds
  <2> HIDE DEF o
  <2>2. IdsOf(<<o>>) = {}
    BY <2>1, IdsOfOne
  <2>3. <<o>> \in Seq(AnyRow) /\ <<o>> # <<>> /\ Len(<<o>>) = 1 /\ <<o>>[1] = o
    BY <2>1
  <2> QED BY <2>1, <2>2, <2>3
<1> HIDE DEF ops, o
<1>3. FromQueue(ops) = <<>> /\ IsSessionRow(ops)
  BY <1>2 DEF FromQueue, IsSessionRow, QueueKinds
<1>4. /\ JobsTyped' /\ Locked' /\ Ahead' /\ Writing("stop")' = ops
      /\ Writing("writer")' = Writing("writer") /\ Writing("engine")' = Writing("engine")
  <2>1. JobsTyped
    BY DEF Typed, JobsTyped
  <2> QED BY <1>1, <1>2, <1>3, <2>1, Begins DEF Jobs
<1>5. Flush = <<>> /\ Solo = <<>> /\ Flush' = <<>> /\ Solo' = ops
  <2>1. Flush = <<>> /\ Solo = <<>>
    BY StopsJob
  <2>2. Flush' = <<>>
    BY <1>3, <1>4 DEF Flush
  <2>3. Solo' = ops
    BY <1>4, <2>2 DEF Solo
  <2> QED BY <2>1, <2>2, <2>3
<1>6. Line' = Line
  BY <1>1, <1>4, <1>5 DEF Line
<1>7. Lined' /\ Apart' /\ Accounted'
  <2>1. Dropped' = Dropped /\ (db \cup failed)' = db \cup failed
    BY <1>1 DEF Dropped
  <2>2. IdsOf(Solo)' = IdsOf(Solo) /\ IdsOf(Writing("engine"))' = IdsOf(Writing("engine"))
    BY <1>2, <1>4, <1>5, IdsNone
  <2> QED BY <1>1, <1>6, <2>1, <2>2, Moving
<1>8. Typed' /\ Budgeted'
  BY <1>1, <1>4 DEF Typed, JobsTyped, Phases, Budgeted
<1>9. Working'
  <2>1. Solo'[1].kind = kind
    BY <1>2, <1>5
  <2>2. IsSessionRow(Solo)'
    BY <1>3, <1>5 DEF IsSessionRow
  <2>3. Solo' # <<>> /\ Solo'[1].kind = "complete" =>
           phase' = "recording" /\ failed' = {} /\ over' = {}
    BY <1>1, <2>1
  <2> QED BY <1>1, <1>4, <1>5, <2>2, <2>3 DEF Working
<1>10. Emptied'
  <2>1. IsSessionRow(Writing("stop"))'
    BY <1>3, <1>4 DEF IsSessionRow
  <2> QED BY <1>1, <1>4, <2>1 DEF Emptied
<1> QED BY <1>4, <1>7, <1>8, <1>9, <1>10

LEMMA InvRecordIntegrity == ASSUME Inv, RecordIntegrity PROVE Inv'
<1>1. phase = "ending" /\ Flushed /\ SaveSession(Summary, "recording")
  BY DEF RecordIntegrity
<1>2. taken = <<>> /\ Writing("stop") = <<>> /\ Writing("writer") = <<>>
  BY <1>1, Idling DEF Flushed, Idle, Inv, Jobs
<1>3. /\ Summary \in {"complete", "holes", "ended"}
      /\ Summary = "complete" => failed = {} /\ over = {}
  BY DEF Summary
<1> HIDE DEF Summary
<1> QED BY <1>1, <1>2, <1>3, Saves

LEMMA InvSaveEnd == ASSUME Inv, SaveEnd PROVE Inv'
<1>1. phase = "recording" /\ job["stop"] = NoJob /\ SaveSession("ended", "signing")
  BY DEF SaveEnd
<1>2. taken = <<>> /\ Writing("stop") = <<>> /\ Writing("writer") = <<>>
  BY <1>1, Idling DEF Inv, Jobs, Emptied
<1> QED BY <1>1, <1>2, Saves

LEMMA InvCancelWriter == ASSUME Inv, CancelWriter PROVE Inv'
<1> USE DEF Inv
<1>1. /\ phase = "closing" /\ Flushed /\ phase' = "cancelling" /\ pending' = <<>>
      /\ \/ pending # <<>> /\ writer' = "last" /\ Begin("writer", pending)
         \/ pending = <<>> /\ writer' = "ended" /\ UNCHANGED <<job, lock>>
      /\ UNCHANGED <<made, bus, queue, budget, taken, db, failed, over, evicted, cancelled,
                      failures,
                     row, ended, arrived>>
  BY DEF CancelWriter, rows, session, Working
<1>2. /\ taken = <<>> /\ Writing("stop") = <<>> /\ Writing("writer") = <<>>
      /\ Flush = <<>> /\ Solo = <<>> /\ JobsTyped
  BY <1>1, Idling, StopsJob DEF Flushed, Idle, Jobs, Typed, JobsTyped
<1>3. CASE pending = <<>> /\ writer' = "ended" /\ UNCHANGED <<job, lock>>
  <2>1. /\ Writing("writer")' = Writing("writer") /\ Writing("stop")' = Writing("stop")
        /\ Writing("engine")' = Writing("engine") /\ Flush' = Flush /\ Solo' = Solo
        /\ Line' = Line
    BY <1>1, <1>3 DEF Writing, Flush, Solo, Line
  <2>2. Lined' /\ Apart' /\ Accounted'
    <3>1. Dropped' = Dropped /\ (db \cup failed)' = db \cup failed
      BY <1>1 DEF Dropped
    <3> QED BY <1>1, <2>1, <3>1, Moving
  <2>3. Typed' /\ Budgeted'
    BY <1>1, <1>3 DEF Typed, Budgeted, Phases
  <2>4. Locked' /\ Ahead'
    BY <1>3, <2>1 DEF Locked, Ahead, Writing
  <2>5. Working' /\ Emptied'
    BY <1>1, <1>2, <1>3, <2>1 DEF Working, Emptied
  <2> QED BY <2>2, <2>3, <2>4, <2>5
<1>4. CASE pending # <<>> /\ writer' = "last" /\ Begin("writer", pending)
  <2>1. pending \in Seq(AnyRow) /\ pending \in Seq(Queued) /\ queue \in Seq(Queued)
    BY QueuedRows DEF Typed
  <2>2. /\ JobsTyped' /\ Locked' /\ Ahead' /\ Writing("writer")' = pending
        /\ Writing("stop")' = Writing("stop") /\ Writing("engine")' = Writing("engine")
    BY <1>2, <1>4, <2>1, Begins DEF Jobs
  <2>3. Flush' = Flush /\ Solo' = Solo
    BY <2>2, SameStop
  <2>4. Line' = Line
    <3>1. Join(<<>>, <<>>, <<>>, pending, queue) = Join(<<>>, pending, <<>>, <<>>, queue)
      <4> DEFINE X == Seq(Queued)
      <4>1. \A f, p, q \in X : Join(f, <<>>, <<>>, p, q) = Join(f, p, <<>>, <<>>, q)
        BY JoinMoves
      <4>2. <<>> \in X /\ pending \in X /\ queue \in X
        BY <2>1, EmptySeq
      <4> HIDE DEF X
      <4> QED BY <4>1, <4>2
    <3> QED BY <1>1, <1>2, <2>2, <2>3, <3>1 DEF Line
  <2>5. Lined' /\ Apart' /\ Accounted'
    <3>1. Dropped' = Dropped /\ (db \cup failed)' = db \cup failed
      BY <1>1 DEF Dropped
    <3> QED BY <1>1, <2>2, <2>3, <2>4, <3>1, Moving
  <2>6. Typed' /\ Budgeted'
    <3>1. pending' \in Seq(Queued)
      BY <1>1, EmptySeq
    <3> QED BY <1>1, <1>4, <2>2, <3>1 DEF Typed, JobsTyped, Budgeted, Phases
  <2>7. Working'
    <3>1. Writing("writer")' \in Seq(Queued) /\ Flush' \in Seq(Queued)
      BY <2>1, <2>2, <2>3 DEF Working
    <3> QED BY <1>1, <1>2, <1>4, <2>2, <2>3, <3>1 DEF Working
  <2>8. Emptied'
    BY <1>1, <1>2, <1>4, <2>2 DEF Emptied
  <2> QED BY <2>2, <2>5, <2>6, <2>7, <2>8
<1> QED BY <1>1, <1>3, <1>4

LEMMA InvClosed == ASSUME Inv, Closed PROVE Inv'
<1> USE DEF Inv
<1>1. /\ phase = "draining" /\ Flushed /\ phase' = "closed"
      /\ UNCHANGED <<made, bus, queue, budget, pending, writer, job, lock, taken, db, failed, over,
                     evicted, cancelled, failures, row, ended, arrived>>
  BY DEF Closed, rows, session
<1>2. Writing("stop") = <<>>
  BY <1>1, Idling DEF Flushed, Idle, Jobs
<1>3. /\ Writing("writer")' = Writing("writer") /\ Writing("stop")' = Writing("stop")
      /\ Writing("engine")' = Writing("engine") /\ Flush' = Flush /\ Solo' = Solo
      /\ Line' = Line
  BY <1>1 DEF Writing, Flush, Solo, Line
<1>4. Lined' /\ Apart' /\ Accounted'
  <2>1. Dropped' = Dropped /\ (db \cup failed)' = db \cup failed
    BY <1>1 DEF Dropped
  <2> QED BY <1>1, <1>3, <2>1, Moving
<1>5. Typed' /\ Budgeted'
  BY <1>1 DEF Typed, Budgeted, Phases
<1>6. Locked' /\ Ahead'
  BY <1>1, <1>3 DEF Locked, Ahead, Writing
<1>7. Working' /\ Emptied'
  BY <1>1, <1>2, <1>3, StopsJob DEF Working, Emptied
<1> QED BY <1>4, <1>5, <1>6, <1>7

----------------------------------------------------------------------------
(* The invariant holds in every behaviour *)

LEMMA InvInit == ASSUME Init PROVE Inv
<1>1. /\ made = 0 /\ bus = <<>> /\ queue = <<>> /\ budget = 0 /\ pending = <<>>
      /\ writer = "getting" /\ job = [j \in Jobs |-> NoJob] /\ lock = <<>> /\ taken = <<>>
      /\ phase = "running"
      /\ db = {} /\ failed = {} /\ over = {} /\ evicted = {} /\ cancelled = {}
      /\ failures = FALSE /\ row = "none" /\ ended = FALSE /\ arrived = <<>>
  BY DEF Init
<1>2. NoJob \in [ops : Seq(AnyRow), stage : Stages] /\ NoJob.ops = <<>> /\ NoJob.stage = "none"
  BY EmptySeq DEF NoJob, Stages
<1>3. <<>> \in Seq(Queued) /\ <<>> \in Seq(Jobs) /\ Len(<<>>) = 0 /\ 1..0 = {}
  BY EmptySeq
<1>4. \A j \in Jobs : Writing(j) = <<>> /\ job[j].stage = "none"
  BY <1>1, <1>2 DEF Writing
<1>5. /\ Writing("writer") = <<>> /\ Writing("stop") = <<>> /\ Writing("engine") = <<>>
      /\ Flush = <<>> /\ Solo = <<>>
  BY <1>4, StopsJob DEF Jobs
<1>6. Typed
  BY <1>1, <1>2, <1>3 DEF Typed, Phases
<1>7. Locked /\ Ahead
  BY <1>1, <1>3, <1>4 DEF Locked, Ahead, Once, Occurs
<1>8. Working /\ Emptied
  BY <1>1, <1>3, <1>5 DEF Working, Emptied
<1>9. Line = <<>>
  BY <1>1, <1>5 DEF Line, Join
<1>10. From = 0
  BY <1>1, <1>3, <1>9 DEF From
<1>11. Lined
  <2>1. Matches(<<>>, arrived, From)
    BY MatchesNone
  <2> QED BY <1>9, <1>10, <2>1 DEF Lined
<1>12. Apart /\ Accounted
  <2>1. IdsOf(bus) = {} /\ IdsOf(arrived) = {} /\ IdsOf(Solo) = {} /\ IdsOf(Writing("engine")) = {}
        /\ Settled = {}
    BY <1>1, <1>5, IdsNone DEF Settled
  <2>2. Distinct(<<>>)
    BY <1>3 DEF Distinct
  <2> QED BY <1>1, <1>3, <2>1, <2>2 DEF Apart, Accounted
<1>13. Budgeted
  <2>1. Count(queue, {"snapshot"}) = 0 /\ Count(arrived, {"status"}) = 0
    BY <1>1, CountNone
  <2> QED BY <1>1, <2>1 DEF Budgeted, Telemetry
<1> QED BY <1>6, <1>7, <1>8, <1>11, <1>12, <1>13 DEF Inv

LEMMA InvStutters == ASSUME Inv, UNCHANGED vars PROVE Inv'
<1> USE DEF Inv
<1>1. UNCHANGED <<made, bus, queue, budget, pending, writer, job, lock, taken, phase, db, failed,
                  over, evicted, cancelled, failures, row, ended, arrived>>
  BY DEF vars, rows, session
<1>2. /\ Writing("writer")' = Writing("writer") /\ Writing("stop")' = Writing("stop")
      /\ Writing("engine")' = Writing("engine") /\ Flush' = Flush /\ Solo' = Solo
      /\ Line' = Line
  BY <1>1 DEF Writing, Flush, Solo, Line
<1>3. Lined' /\ Apart' /\ Accounted'
  <2>1. Dropped' = Dropped /\ (db \cup failed)' = db \cup failed
    BY <1>1 DEF Dropped
  <2> QED BY <1>1, <1>2, <2>1, Moving
<1>4. Typed' /\ Budgeted'
  BY <1>1 DEF Typed, Budgeted
<1>5. Locked' /\ Ahead'
  BY <1>1, <1>2 DEF Locked, Ahead, Writing
<1>6. Working' /\ Emptied'
  BY <1>1, <1>2 DEF Working, Emptied
<1> QED BY <1>3, <1>4, <1>5, <1>6

LEMMA InvNext == ASSUME Inv, [Next]_vars PROVE Inv'
<1>1. ASSUME NEW kind \in {"signal", "snapshot"}, Publish(kind) PROVE Inv'
  BY <1>1, InvPublish
<1>2. ASSUME NEW kind \in {"signal", "status"}, Persist(kind) PROVE Inv'
  BY <1>2, InvPersist
<1>3. ASSUME NEW j \in {"engine", "stop"}, PersistNow(j) PROVE Inv'
  BY <1>3, InvPersistNow
<1>4. CASE FinalizeEntryAttempts
  BY <1>4, InvFinalizeEntryAttempts
<1>5. CASE Consume
  BY <1>5, InvConsume
<1>6. CASE Collect
  BY <1>6, InvCollect
<1>7. CASE HandOff
  BY <1>7, InvHandOff
<1>8. CASE Committed
  BY <1>8, InvCommitted
<1>9. ASSUME NEW j \in Jobs, CommitBatch(j) \/ BatchFails(j) \/ CommitOne(j) PROVE Inv'
  BY <1>9, InvCommitBatch, InvBatchFails, InvCommitOne
<1>10. CASE Stop
  BY <1>10, InvStop
<1>11. CASE EndSession
  BY <1>11, InvEndSession
<1>12. CASE RecordIntegrity
  BY <1>12, InvRecordIntegrity
<1>13. CASE SaveEnd
  BY <1>13, InvSaveEnd
<1>14. CASE Close
  BY <1>14, InvClose
<1>15. CASE CancelWriter
  BY <1>15, InvCancelWriter
<1>16. CASE LastFlush
  BY <1>16, InvLastFlush
<1>17. CASE Closed
  BY <1>17, InvClosed
<1>18. CASE UNCHANGED vars
  BY <1>18, InvStutters
<1> QED BY <1>1, <1>2, <1>3, <1>4, <1>5, <1>6, <1>7, <1>8, <1>9, <1>10, <1>11, <1>12, <1>13,
           <1>14, <1>15, <1>16, <1>17, <1>18 DEF Next, Engine, Batches, Shutdown

LEMMA Invariance == Spec => []Inv
<1>1. Init => Inv
  BY InvInit
<1>2. Inv /\ [Next]_vars => Inv'
  BY InvNext
<1> QED BY <1>1, <1>2, PTL DEF Spec

----------------------------------------------------------------------------
(* What follows from it *)

\* The unsettled rows, wherever they are, and those of them that were queued.
LEMMA HeldApart ==
  ASSUME Inv
  PROVE  /\ Held \in Seq(AnyRow) /\ Distinct(Held)
         /\ IdsOf(Held) = IdsOf(bus) \cup IdsOf(Line) \cup IdsOf(Solo) \cup IdsOf(Writing("engine"))
         /\ \A x : x \in IdsOf(Line) <=> \E k \in 1..Len(arrived) : From < k /\ arrived[k].id = x
<1> USE DEF Inv
<1> DEFINE w == Writing("writer")
           s == Writing("stop")
           e == Writing("engine")
           X == Seq(AnyRow)
<1>1. /\ bus \in X /\ queue \in X /\ pending \in X /\ taken \in X /\ arrived \in X /\ w \in X
      /\ Flush \in X /\ s \in X /\ e \in X /\ Solo \in X /\ Line \in X
  <2>1. \A q \in Seq(Queued) : q \in X
    BY QueuedRows
  <2>2. /\ bus \in Seq(Queued) /\ queue \in Seq(Queued) /\ pending \in Seq(Queued)
        /\ taken \in Seq(Queued) /\ arrived \in Seq(Queued) /\ w \in Seq(Queued)
        /\ Flush \in Seq(Queued) /\ Line \in Seq(Queued) /\ s \in X /\ e \in X /\ Solo \in X
    BY Places
  <2> QED BY <2>1, <2>2
<1>2. /\ Len(Line) \in Nat /\ Len(arrived) \in Nat /\ From \in Nat
      /\ From + Len(Line) = Len(arrived)
      /\ \A i \in 1..Len(Line) : Line[i] = arrived[From + i]
  BY Lengths DEF Lined, From, Matches
<1>3. \A k \in 1..Len(arrived) : arrived[k].id # 0
  <2>1. \A k \in 1..Len(arrived) : arrived[k] \in Queued
    BY ElementOfSeq DEF Typed
  <2> QED BY <2>1 DEF Queued
<1>4. \A x : x \in IdsOf(Line) <=> \E k \in 1..Len(arrived) : From < k /\ arrived[k].id = x
  <2>1. \A x : x \in IdsOf(Line) <=> x # 0 /\ \E i \in 1..Len(Line) : Line[i].id = x
    BY <1>1, IdsMember
  <2>2. \A i \in 1..Len(Line) : From + i \in 1..Len(arrived) /\ From < From + i
                                /\ Line[i].id = arrived[From + i].id
    BY <1>2
  <2>3. ASSUME NEW k \in 1..Len(arrived), From < k
        PROVE  \E i \in 1..Len(Line) : Line[i].id = arrived[k].id
    <3>1. k - From \in 1..Len(Line) /\ From + (k - From) = k
      BY <1>2, <2>3
    <3>2. Line[k - From] = arrived[k]
      BY <1>2, <3>1
    <3> QED BY <3>1, <3>2
  <2> HIDE DEF Line, From
  <2>4. ASSUME NEW x \in IdsOf(Line)
        PROVE  \E k \in 1..Len(arrived) : From < k /\ arrived[k].id = x
    <3>1. PICK i \in 1..Len(Line) : Line[i].id = x
      BY <2>1
    <3> QED BY <2>2, <3>1
  <2>5. ASSUME NEW k \in 1..Len(arrived), From < k PROVE arrived[k].id \in IdsOf(Line)
    BY <1>3, <2>1, <2>3, <2>5
  <2> QED BY <2>4, <2>5
<1>5. Distinct(Line) /\ IdsOf(Line) \subseteq IdsOf(arrived)
  <2>1. Distinct(Line)
    <3> SUFFICES ASSUME NEW i \in 1..Len(Line), NEW k \in 1..Len(Line), Line[i].id = Line[k].id
                 PROVE  i = k
      BY DEF Distinct
    <3>1. /\ From + i \in 1..Len(arrived) /\ From + k \in 1..Len(arrived)
          /\ arrived[From + i].id = arrived[From + k].id
      BY <1>2
    <3>2. From + i = From + k
      BY <1>3, <3>1 DEF Apart, Distinct
    <3> QED BY <1>2, <3>2
  <2>2. \A k \in 1..Len(arrived) : arrived[k].id \in IdsOf(arrived)
    BY <1>1, <1>3, IdsMember
  <2> QED BY <1>4, <2>1, <2>2
<1>6. /\ IdsOf(arrived) \cap (IdsOf(bus) \cup IdsOf(Solo) \cup IdsOf(e)) = {} /\ Distinct(bus)
      /\ IdsOf(bus) \cap (IdsOf(Solo) \cup IdsOf(e)) = {} /\ IdsOf(Solo) \cap IdsOf(e) = {}
  BY DEF Apart
<1>7. /\ IdsOf(s) = IdsOf(Flush) \cup IdsOf(Solo) /\ IdsOf(Flush) \cap IdsOf(Solo) = {}
      /\ Distinct(Flush) => Distinct(s)
  <2>1. Solo # <<>> => Distinct(Solo)
    <3>1. Solo # <<>> => Len(Solo) = 1
      BY DEF Working, IsFill, IsSessionRow
    <3> QED BY <3>1, DistinctOne
  <2>2. CASE Flush # <<>>
    BY <2>2, StopsJob, IdsNone
  <2>3. CASE Flush = <<>>
    <3>1. Solo = s /\ IdsOf(Flush) = {}
      BY <2>3, StopsJob, IdsNone
    <3>2. Distinct(s)
      <4>1. CASE Solo = <<>>
        BY <2>3, <3>1, <4>1 DEF Distinct
      <4> QED BY <2>1, <3>1, <4>1
    <3> QED BY <3>1, <3>2
  <2> QED BY <2>2, <2>3
<1>8. Distinct(e)
  <2>1. CASE e = <<>>
    <3>1. Len(<<>>) = 0 /\ 1..0 = {}
      BY EmptySeq
    <3> QED BY <2>1, <3>1 DEF Distinct
  <2>2. CASE IsFill(e)
    BY <2>2, DistinctOne DEF IsFill
  <2> QED BY <2>1, <2>2 DEF Working
<1>9. Line = (((Flush \o w) \o taken) \o pending) \o queue
  BY DEF Line, Join
<1>10. Held = (((((bus \o queue) \o pending) \o taken) \o w) \o s) \o e
  BY DEF Held, Writing
<1> DEFINE apart(a, b) == Distinct(a) /\ Distinct(b) /\ IdsOf(a) \cap IdsOf(b) = {}
<1>11. \A a, b \in X : /\ a \o b \in X
                       /\ Distinct(a \o b) <=> apart(a, b)
                       /\ IdsOf(a \o b) = IdsOf(a) \cup IdsOf(b)
  <2> SUFFICES ASSUME NEW a \in X, NEW b \in X
               PROVE  /\ a \o b \in X
                      /\ Distinct(a \o b) <=> apart(a, b)
                      /\ IdsOf(a \o b) = IdsOf(a) \cup IdsOf(b)
    OBVIOUS
  <2>1. a \o b \in X
    BY ConcatProperties
  <2>2. Distinct(a \o b) <=> Distinct(a) /\ Distinct(b) /\ IdsOf(a) \cap IdsOf(b) = {}
    BY DistinctBoth
  <2>3. IdsOf(a \o b) = IdsOf(a) \cup IdsOf(b)
    BY IdsBoth
  <2> QED BY <2>1, <2>2, <2>3
<1> DEFINE l1 == Flush \o w
           l2 == l1 \o taken
           l3 == l2 \o pending
           h1 == bus \o queue
           h2 == h1 \o pending
           h3 == h2 \o taken
           h4 == h3 \o w
           h5 == h4 \o s
<1> HIDE DEF X, w, s, e, apart
<1>12. /\ l1 \in X /\ (Distinct(l1) <=> apart(Flush, w)) /\ IdsOf(l1) = IdsOf(Flush) \cup IdsOf(w)
  BY <1>1, <1>11
<1> HIDE DEF l1
<1>13. l2 \in X /\ (Distinct(l2) <=> apart(l1, taken)) /\ IdsOf(l2) = IdsOf(l1) \cup IdsOf(taken)
  BY <1>1, <1>11, <1>12
<1> HIDE DEF l2
<1>14. /\ l3 \in X /\ (Distinct(l3) <=> apart(l2, pending))
       /\ IdsOf(l3) = IdsOf(l2) \cup IdsOf(pending)
  BY <1>1, <1>11, <1>13
<1> HIDE DEF l3
<1>15. /\ Distinct(Line) <=> apart(l3, queue)
       /\ IdsOf(Line) = IdsOf(l3) \cup IdsOf(queue)
  BY <1>1, <1>9, <1>11, <1>14 DEF l1, l2, l3
<1>16. h1 \in X /\ (Distinct(h1) <=> apart(bus, queue)) /\ IdsOf(h1) = IdsOf(bus) \cup IdsOf(queue)
  BY <1>1, <1>11
<1> HIDE DEF h1
<1>17. /\ h2 \in X /\ (Distinct(h2) <=> apart(h1, pending))
       /\ IdsOf(h2) = IdsOf(h1) \cup IdsOf(pending)
  BY <1>1, <1>11, <1>16
<1> HIDE DEF h2
<1>18. h3 \in X /\ (Distinct(h3) <=> apart(h2, taken)) /\ IdsOf(h3) = IdsOf(h2) \cup IdsOf(taken)
  BY <1>1, <1>11, <1>17
<1> HIDE DEF h3
<1>19. h4 \in X /\ (Distinct(h4) <=> apart(h3, w)) /\ IdsOf(h4) = IdsOf(h3) \cup IdsOf(w)
  BY <1>1, <1>11, <1>18
<1> HIDE DEF h4
<1>20. h5 \in X /\ (Distinct(h5) <=> apart(h4, s)) /\ IdsOf(h5) = IdsOf(h4) \cup IdsOf(s)
  BY <1>1, <1>11, <1>19
<1> HIDE DEF h5
<1>21. Held \in X /\ (Distinct(Held) <=> apart(h5, e)) /\ IdsOf(Held) = IdsOf(h5) \cup IdsOf(e)
  <2>1. Held = h5 \o e
    BY <1>10 DEF h1, h2, h3, h4, h5
  <2> QED BY <1>1, <1>11, <1>20, <2>1
<1> HIDE DEF Line, Held, Flush, Solo
<1>22. IdsOf(Held) = IdsOf(bus) \cup IdsOf(Line) \cup IdsOf(Solo) \cup IdsOf(e)
  BY <1>7, <1>12, <1>13, <1>14, <1>15, <1>16, <1>17, <1>18, <1>19, <1>20, <1>21
<1>23. /\ apart(l3, queue) /\ apart(l2, pending) /\ apart(l1, taken) /\ apart(Flush, w)
  BY <1>5, <1>12, <1>13, <1>14, <1>15 DEF apart
<1>24. Distinct(h1)
  BY <1>5, <1>6, <1>15, <1>16, <1>23 DEF apart
<1>25. Distinct(h2)
  BY <1>5, <1>6, <1>14, <1>15, <1>16, <1>17, <1>23, <1>24 DEF apart
<1>26. Distinct(h3)
  BY <1>5, <1>6, <1>13, <1>14, <1>15, <1>16, <1>17, <1>18, <1>23, <1>25 DEF apart
<1>27. Distinct(h4)
  BY <1>5, <1>6, <1>12, <1>13, <1>14, <1>15, <1>16, <1>17, <1>18, <1>19, <1>23, <1>26 DEF apart
<1>28. Distinct(h5)
  BY <1>5, <1>6, <1>7, <1>12, <1>13, <1>14, <1>15, <1>16, <1>17, <1>18, <1>19, <1>20, <1>23, <1>27
     DEF apart
<1>29. IdsOf(h5) = IdsOf(bus) \cup IdsOf(Line) \cup IdsOf(Solo)
  BY <1>7, <1>12, <1>13, <1>14, <1>15, <1>16, <1>17, <1>18, <1>19, <1>20
<1>30. Distinct(Held)
  BY <1>5, <1>6, <1>8, <1>21, <1>28, <1>29 DEF apart
<1> QED BY <1>4, <1>21, <1>22, <1>30 DEF X, e

\* No row is lost on its way from the engine to the database, or written twice, and the budget
\* counts what it should: whatever interleaving of the subscriber, the writer's batches and their
\* retries, the commits the engine waits for, and the flushes of the shutdown (Repository._writer,
\* _run_batch, flush, persist, persist_now, close; EventBus.publish).
THEOREM NothingIsLost == Spec => []NothingVanishes
<1>1. Inv => NothingVanishes
  <2> SUFFICES ASSUME Inv PROVE NothingVanishes
    OBVIOUS
  <2> USE DEF Inv
  <2> DEFINE A == IdsOf(bus)
             B == IdsOf(Solo)
             C == IdsOf(Writing("engine"))
             D == IdsOf(arrived)
             L == IdsOf(Line)
             W == db \cup failed
             H == IdsOf(Held)
  <2>1. /\ Held \in Seq(AnyRow) /\ Distinct(Held) /\ H = A \cup L \cup B \cup C
        /\ \A x : x \in L <=> \E k \in 1..Len(arrived) : From < k /\ arrived[k].id = x
    BY HeldApart
  <2>2. /\ D \cap (A \cup B \cup C \cup Dropped) = {} /\ A \cap (W \cup Dropped \cup B \cup C) = {}
        /\ B \cap (W \cup Dropped \cup C) = {} /\ C \cap (W \cup Dropped) = {}
        /\ A \cup D \cup B \cup C \cup (W \cup Dropped) = 1..made /\ Settled = W \cup Dropped
        /\ \A k \in 1..Len(arrived) : arrived[k].id \in W <=> k =< From
    BY DEF Apart, Accounted, Settled, Dropped
  <2>3. /\ \A x \in D : x \in L \/ x \in W
        /\ \A x \in L : x \in D /\ x \notin W
    <3>1. arrived \in Seq(Queued) /\ From \in Nat /\ Len(arrived) \in Nat
          /\ \A k \in 1..Len(arrived) : arrived[k].id # 0
      <4>1. arrived \in Seq(Queued) /\ From \in Nat /\ Len(arrived) \in Nat
        BY LenProperties DEF Typed, Lined
      <4>2. \A k \in 1..Len(arrived) : arrived[k] \in Queued
        BY <4>1, ElementOfSeq
      <4> QED BY <4>1, <4>2 DEF Queued
    <3>2. \A x : x \in D <=> x # 0 /\ \E k \in 1..Len(arrived) : arrived[k].id = x
      BY <3>1, IdsMember
    <3>3. ASSUME NEW x \in D PROVE x \in L \/ x \in W
      <4>1. PICK k \in 1..Len(arrived) : arrived[k].id = x
        BY <3>2
      <4>2. k =< From \/ From < k
        BY <3>1
      <4> HIDE DEF D, L, W
      <4> QED BY <2>1, <2>2, <4>1, <4>2
    <3>4. ASSUME NEW x \in L PROVE x \in D /\ x \notin W
      <4>1. PICK k \in 1..Len(arrived) : From < k /\ arrived[k].id = x
        BY <2>1
      <4>2. ~(k =< From)
        BY <3>1, <4>1
      <4> HIDE DEF D, L, W
      <4> QED BY <2>2, <3>1, <3>2, <4>1, <4>2
    <3> QED BY <3>3, <3>4
  <2> HIDE DEF A, B, C, D, L, W, H
  <2>4. H \cup Settled = 1..made /\ H \cap Settled = {}
    BY <2>1, <2>2, <2>3
  <2>5. Cardinality(Settled) + Cardinality(H) = made
    <3>1. made \in Nat /\ IsFiniteSet(1..made) /\ Cardinality(1..made) = made
      <4>1. made \in Nat
        BY DEF Typed
      <4>2. IsFiniteSet(1..made) /\ Cardinality(1..made) = IF 1 > made THEN 0 ELSE made - 1 + 1
        BY <4>1, FS_Interval
      <4> QED BY <4>1, <4>2
    <3>2. Settled \in SUBSET (1..made) /\ H \in SUBSET (1..made) /\ Settled \cup H = 1..made
          /\ Settled \cap H = {}
      BY <2>4
    <3>3. IsFiniteSet(Settled) /\ IsFiniteSet(H)
      BY <3>1, <3>2, FS_Subset
    <3>4. Cardinality(Settled \cup H) = Cardinality(Settled) + Cardinality(H)
      BY <3>2, <3>3, DisjointSizes
    <3> QED BY <3>1, <3>2, <3>4
  <2>6. Cardinality({i \in DOMAIN Held : Held[i].id # 0}) = Cardinality(H)
    BY <2>1, DistinctSize DEF H
  <2> QED BY <2>4, <2>5, <2>6 DEF NothingVanishes, Budgeted, H
<1>2. Spec => []Inv
  BY Invariance
<1> QED BY <1>1, <1>2, PTL

LEMMA ArrivedGrows ==
  ASSUME Inv, [Next]_vars
  PROVE  arrived' = arrived \/ \E more \in Seq(Queued) : arrived' = arrived \o more
<1>1. ASSUME NEW s \in Seq(Queued), Distinct(s), Enqueued(Persisted(s))
      PROVE  \E more \in Seq(Queued) : arrived' = arrived \o more
  BY <1>1, Persisting DEF Stores
<1>2. bus \in Seq(Queued) /\ Distinct(bus) /\ made \in Nat
  BY DEF Inv, Typed, Apart
<1>3. CASE Enqueued(Persisted(bus))
  BY <1>1, <1>2, <1>3
<1>4. ASSUME NEW kind \in {"signal", "status"}, Persist(kind)
      PROVE  \E more \in Seq(Queued) : arrived' = arrived \o more
  <2> DEFINE s == <<[id |-> made + 1, kind |-> kind]>>
  <2>1. kind \in QueueKinds
    BY DEF QueueKinds
  <2>2. s \in Seq(Queued) /\ Distinct(s)
    BY <1>2, <2>1, OneRow
  <2>3. Enqueued(Persisted(s))
    BY <1>4 DEF Persist
  <2> HIDE DEF s
  <2> QED BY <1>1, <2>2, <2>3
<1>5. CASE \E kind \in {"signal", "snapshot"} : Publish(kind)
  BY <1>5 DEF Publish
<1>6. CASE \E j \in {"engine", "stop"} : PersistNow(j)
  BY <1>6 DEF PersistNow
<1>7. CASE FinalizeEntryAttempts
  BY <1>7 DEF FinalizeEntryAttempts, Flushing
<1>8. CASE Consume
  BY <1>3, <1>8 DEF Consume
<1>9. CASE Collect
  BY <1>9 DEF Collect
<1>10. CASE HandOff \/ Committed
  BY <1>10 DEF HandOff, Committed
<1>11. CASE Batches
  BY <1>11 DEF Batches, CommitBatch, BatchFails, CommitOne
<1>12. CASE Stop
  BY <1>3, <1>12 DEF Stop
<1>13. CASE Shutdown
  BY <1>13 DEF Shutdown, EndSession, RecordIntegrity, SaveEnd, SaveSession, Close, CancelWriter,
               LastFlush, Closed, Flushing
<1>14. CASE UNCHANGED vars
  BY <1>14 DEF vars
<1> QED BY <1>4, <1>5, <1>6, <1>7, <1>8, <1>9, <1>10, <1>11, <1>12, <1>13, <1>14 DEF Next, Engine

LEMMA OrderStep ==
  ASSUME Inv, Inv', [Next]_vars, NEW k \in DOMAIN arrived, arrived[k].id \in db',
         NEW i \in 1..(k - 1)
  PROVE  arrived[i].id \in db' \cup failed'
<1> DEFINE n == Len(arrived)
           later == arrived'
           from == From'
           W == db' \cup failed'
<1>1. arrived \in Seq(Queued) /\ n \in Nat /\ DOMAIN arrived = 1..n
  BY LenProperties DEF Inv, Typed
<1>2. i \in 1..n /\ k \in 1..n /\ i < k
  BY <1>1
<1>3. Len(later) \in Nat /\ n =< Len(later) /\ \A p \in 1..n : later[p] = arrived[p]
  <2>1. CASE later = arrived
    BY <1>1, <2>1
  <2>2. ASSUME NEW more \in Seq(Queued), later = arrived \o more
        PROVE  Len(later) \in Nat /\ n =< Len(later) /\ \A p \in 1..n : later[p] = arrived[p]
    <3>1. /\ Len(arrived \o more) = n + Len(more) /\ Len(more) \in Nat
          /\ \A p \in 1..(n + Len(more)) :
                (arrived \o more)[p] = IF p =< n THEN arrived[p] ELSE more[p - n]
      BY <1>1, ConcatProperties, LenProperties
    <3> QED BY <1>1, <2>2, <3>1
  <2> QED BY <2>1, <2>2, ArrivedGrows
<1>4. from \in Nat /\ \A p \in 1..Len(later) : later[p].id \in W <=> p =< from
  BY DEF Inv, Apart, Lined
<1> HIDE DEF later, from, n, W
<1>5. /\ i \in 1..Len(later) /\ k \in 1..Len(later)
      /\ later[i] = arrived[i] /\ later[k] = arrived[k]
  BY <1>1, <1>2, <1>3
<1>6. k =< from
  BY <1>4, <1>5 DEF W
<1>7. i =< from
  BY <1>1, <1>2, <1>4, <1>6
<1> QED BY <1>4, <1>5, <1>7 DEF W

\* Rows reach the database in the order they were queued, or are known to have failed, even when
\* a flush takes over what the writer collects, while the writer commits, and either falls back to
\* single rows (Repository._write_lock, flush, _run_batch).
THEOREM OrderIsKept == Spec => RowsInOrder
<1>1. ASSUME Inv, Inv', [Next]_vars
      PROVE  [\A k \in DOMAIN arrived : arrived[k].id \in db' \ db =>
                \A i \in 1..(k - 1) : arrived[i].id \in db' \cup failed']_vars
  BY <1>1, OrderStep
<1>2. Spec => []Inv /\ [][Next]_vars
  BY Invariance DEF Spec
<1> QED BY <1>1, <1>2, PTL DEF RowsInOrder

LEMMA NothingHeld ==
  ASSUME Inv, phase \in {"recording", "closed"} PROVE IdsOf(Held) = {}
<1> USE DEF Inv
<1>1. /\ bus = <<>> /\ Writing("engine") = <<>> /\ queue = <<>> /\ pending = <<>> /\ taken = <<>>
      /\ Writing("writer") = <<>>
      /\ Writing("stop") = <<>> \/ IsSessionRow(Writing("stop"))
  BY DEF Emptied
<1>2. Flush = <<>> /\ IdsOf(Solo) = {}
  <2>1. CASE Writing("stop") = <<>>
    BY <2>1, StopsJob, IdsNone
  <2>2. CASE IsSessionRow(Writing("stop"))
    <3>1. Flush = <<>>
      BY <2>2 DEF Flush, FromQueue, IsSessionRow, QueueKinds
    <3>2. Solo = Writing("stop") /\ Solo \in Seq(AnyRow)
      BY <3>1, StopsJob, Places
    <3>3. \A i \in 1..Len(Solo) : Solo[i].id = 0
      BY <2>2, <3>2 DEF IsSessionRow
    <3> HIDE DEF Solo
    <3>4. \A x : x \in IdsOf(Solo) <=> x # 0 /\ \E i \in 1..Len(Solo) : Solo[i].id = x
      BY <3>2, IdsMember
    <3> QED BY <3>1, <3>3, <3>4
  <2> QED BY <1>1, <2>1, <2>2
<1>3. Line = <<>>
  BY <1>1, <1>2 DEF Line, Join
<1>4. IdsOf(Held) = IdsOf(bus) \cup IdsOf(Line) \cup IdsOf(Solo) \cup IdsOf(Writing("engine"))
  BY HeldApart
<1> HIDE DEF Line, Held, Solo
<1> QED BY <1>1, <1>2, <1>3, <1>4, IdsNone

\* A row that says "complete" was made when nothing had failed or been dropped, and still none has.
LEMMA CompleteIsTrue ==
  ASSUME Inv, NEW j \in Jobs, NEW o \in Range(Writing(j)), o.kind = "complete"
  PROVE  failed = {} /\ over = {}
<1> USE DEF Inv
<1>1. /\ Writing(j) \in Seq(AnyRow) /\ DOMAIN Writing(j) = 1..Len(Writing(j))
      /\ Writing("writer") \in Seq(Queued) /\ Flush \in Seq(Queued)
  <2>1. Writing(j) \in Seq(AnyRow)
    BY DEF Typed, Writing
  <2> QED BY <2>1, Places, LenProperties
<1>2. PICK i \in 1..Len(Writing(j)) : Writing(j)[i] = o
  BY <1>1 DEF Range
<1>3. ASSUME Writing(j) \in Seq(Queued) PROVE FALSE
  <2>1. o \in Queued
    BY <1>2, <1>3, ElementOfSeq
  <2> QED BY <2>1 DEF Queued, QueueKinds
<1>4. ~IsFill(Writing(j))
  BY <1>2 DEF IsFill
<1>5. j = "stop" /\ Flush = <<>> /\ Solo = Writing("stop")
  <2>1. j # "writer"
    BY <1>1, <1>3
  <2>2. j # "engine"
    <3>1. Writing(j) # <<>>
      <4>1. Len(<<>>) = 0 /\ 1..0 = {}
        BY EmptySeq
      <4> QED BY <1>2, <4>1
    <3> QED BY <1>4, <3>1 DEF Working
  <2>3. j = "stop"
    BY <2>1, <2>2 DEF Jobs
  <2>4. Flush = <<>>
    BY <1>1, <1>3, <2>3, StopsJob
  <2> QED BY <2>3, <2>4, StopsJob
<1>6. Solo # <<>> /\ IsSessionRow(Solo)
  <2>1. Len(<<>>) = 0 /\ 1..0 = {}
    BY EmptySeq
  <2>2. Solo # <<>>
    BY <1>2, <1>5, <2>1
  <2> QED BY <1>4, <1>5, <2>2 DEF Working
<1>7. i = 1
  BY <1>2, <1>5, <1>6 DEF IsSessionRow
<1> QED BY <1>2, <1>5, <1>6, <1>7 DEF Working

LEMMA HonestStep ==
  ASSUME Inv, Next, row' # row, row' = "complete"
  PROVE  failed' = {} /\ over' = {}
<1>1. ASSUME NEW ops, Written(ops) PROVE \E o \in Range(ops) : o.kind = "complete"
  <2>1. \E kind \in Summaries : Kind(ops, kind)
    BY <1>1 DEF Written
  <2>2. row' = CHOOSE kind \in Summaries : Kind(ops, kind)
    BY <1>1, <2>1 DEF Written
  <2>3. Kind(ops, row')
    BY <2>1, <2>2
  <2> QED BY <2>3 DEF Kind
<1>2. ASSUME NEW j \in Jobs, CommitBatch(j) PROVE failed' = {} /\ over' = {}
  <2>1. Written(Writing(j)) /\ failed' = failed /\ over' = over
    BY <1>2 DEF CommitBatch, Writing
  <2> QED BY <1>1, <2>1, CompleteIsTrue
<1>3. ASSUME NEW j \in Jobs, CommitOne(j) PROVE failed' = {} /\ over' = {}
  <2> DEFINE h == Head(Writing(j))
  <2>1. Written(<<h>>) /\ failed' = failed /\ over' = over
    BY <1>3 DEF CommitOne, Writing
  <2>2. h \in Range(Writing(j))
    <3>1. Writing(j) \in Seq(AnyRow) /\ Writing(j) # <<>>
      <4>1. Holds(j) /\ JobsTyped
        BY <1>3 DEF CommitOne, Inv, Typed, JobsTyped
      <4>2. Writing(j) # <<>>
        BY <4>1, OneLocked DEF Inv
      <4> QED BY <4>1, <4>2 DEF JobsTyped, Writing
    <3>2. /\ h = Writing(j)[1] /\ 1 \in 1..Len(Writing(j))
          /\ DOMAIN Writing(j) = 1..Len(Writing(j))
      BY <3>1, HeadAndTail, LenProperties
    <3> QED BY <3>2 DEF Range
  <2> HIDE DEF h
  <2>3. h.kind = "complete"
    <3>1. Range(<<h>>) = {h}
      BY DEF Range
    <3> QED BY <1>1, <2>1, <3>1
  <2> QED BY <2>1, <2>2, <2>3, CompleteIsTrue
<1>4. CASE Engine
  BY <1>4 DEF Engine, Publish, Persist, PersistNow, FinalizeEntryAttempts, Flushing, session, rows
<1>5. CASE Consume \/ Collect \/ HandOff \/ Committed \/ Stop
  BY <1>5 DEF Consume, Collect, HandOff, Committed, Stop, session
<1>6. CASE Shutdown
  BY <1>6 DEF Shutdown, EndSession, RecordIntegrity, SaveEnd, SaveSession, Close, CancelWriter,
              LastFlush, Closed, Flushing, session
<1>7. ASSUME NEW j \in Jobs, BatchFails(j) PROVE FALSE
  BY <1>7 DEF BatchFails
<1> QED BY <1>2, <1>3, <1>4, <1>5, <1>6, <1>7 DEF Next, Batches

\* The shutdown writes the integrity row, and returns, only when no row is unsettled; and the row
\* calls the session complete only if no write failed and none was dropped for the budget
\* (Runtime.stop, Repository.end_session, record_integrity, close).
THEOREM TheEndIsHonest == Spec => EndIsHonest
<1> DEFINE AllSettled == phase \in {"recording", "closed"} => IdsOf(Held) = {}
<1>1. Inv => AllSettled
  BY NothingHeld
<1>2. ASSUME Inv, AllSettled', [Next]_vars
      PROVE  [/\ phase' # phase /\ phase' \in {"recording", "closed"} => IdsOf(Held)' = {}
              /\ row' # row /\ row' = "complete" => failed' = {} /\ over' = {}]_vars
  <2>1. phase' \in {"recording", "closed"} => IdsOf(Held)' = {}
    BY <1>2
  <2>2. ASSUME Next, row' # row, row' = "complete" PROVE failed' = {} /\ over' = {}
    BY <1>2, <2>2, HonestStep
  <2>3. UNCHANGED vars => row' = row
    BY DEF vars, session
  <2> QED BY <1>2, <2>1, <2>2, <2>3
<1>3. Spec => []Inv /\ [][Next]_vars
  BY Invariance DEF Spec
<1> HIDE DEF AllSettled
<1> QED BY <1>1, <1>2, <1>3, PTL DEF EndIsHonest

----------------------------------------------------------------------------
(* Migrations: what the steps make of a record *)

\* A record that has been through the second step, or was written after it.
Labelled(r) ==
    /\ r.amount = "ui" /\ r.provenance # None
    /\ r.provenance = "SIMULATED" => r.simulated
    /\ r.simulated => r.provenance \in {"SIMULATED", "UNKNOWN_LEGACY"}
    /\ r.provenance = "VERIFIED_ONCHAIN" => r.tx

\* A record as it may be in a database of some version.
RowOK(version, r) ==
    /\ r \in Payload
    /\ version < 2 => r.provenance = None
    /\ version = 2 => Labelled(r)
    /\ version > 2 => Readable(r)

\* The same for an outcome.
OutcomeOK(version, o) ==
    /\ o \in Outcome
    /\ version >= 4 => o.said /\ None \notin {o.market, o.execution}

\* Two records tell the same story: who verified it, whether it happened, and
\* that there was a signature.
SameStory(r, s) ==
    /\ Verified(s) <=> Verified(r)
    /\ s.simulated = r.simulated
    /\ (s.tx \/ s.reported) = (r.tx \/ r.reported)

\* The second and the third step turn records into records.
LEMMA StepTypes ==
  ASSUME NEW r \in Payload
  PROVE  /\ ProvenanceAndUnits(r) \in Payload
         /\ RepairLegacySimulated(r) \in Payload
<1>1. /\ r.simulated \in BOOLEAN /\ r.provenance \in Labels \cup {None} /\ r.tx \in BOOLEAN
      /\ r.units \in {"UI", "LEGACY", None} /\ r.reported \in BOOLEAN /\ r.kept \in BOOLEAN
  BY DEF Payload
<1>2. ProvenanceAndUnits(r) \in Payload
  BY <1>1 DEF ProvenanceAndUnits, Payload, Labels
<1>3. RepairLegacySimulated(r) \in Payload
  BY <1>1 DEF RepairLegacySimulated, Payload, Labels
<1> QED BY <1>2, <1>3

\* Whatever its age, a record is labelled after the second step, ...
LEMMA LabelledBySecond ==
  ASSUME NEW r \in Payload, r.provenance = None PROVE Labelled(ProvenanceAndUnits(r))
BY NoneAssumption DEF Payload, ProvenanceAndUnits, Labelled, Labels

\* ... and can be read after the third.
LEMMA ReadableByThird ==
  ASSUME NEW r \in Payload, Labelled(r) PROVE Readable(RepairLegacySimulated(r))
BY NoneAssumption DEF Payload, RepairLegacySimulated, Labelled, Readable, Labels

\* Neither step changes the story.
LEMMA StepsKeepStory ==
  ASSUME NEW r \in Payload
  PROVE  /\ SameStory(r, ProvenanceAndUnits(r))
         /\ SameStory(r, RepairLegacySimulated(r))
<1>1. ProvenanceAndUnits(r) # None /\ RepairLegacySimulated(r) # None /\ r # None
  BY StepTypes, NoneAssumption
<1>2. /\ r.simulated \in BOOLEAN /\ r.provenance \in Labels \cup {None} /\ r.tx \in BOOLEAN
      /\ r.reported \in BOOLEAN
  BY DEF Payload
<1>3. SameStory(r, ProvenanceAndUnits(r))
  BY <1>1, <1>2, NoneAssumption DEF ProvenanceAndUnits, SameStory, Verified, Labels
<1>4. SameStory(r, RepairLegacySimulated(r))
  BY <1>1, <1>2, NoneAssumption DEF RepairLegacySimulated, SameStory, Verified, Labels, Payload
<1> QED BY <1>3, <1>4

\* A step that is due makes a record of its version out of one of the version before.
LEMMA MigrateRowOK ==
  ASSUME NEW n \in 1..Latest, NEW r, RowOK(n - 1, r)
  PROVE  RowOK(n, MigrateRow(n, r)) /\ SameStory(r, MigrateRow(n, r))
<1> USE DEF RowOK, MigrateRow, Latest
<1>1. CASE n = 1
  BY <1>1 DEF SameStory
<1>2. CASE n = 2
  BY <1>2, StepTypes, LabelledBySecond, StepsKeepStory
<1>3. CASE n = 3
  BY <1>3, StepTypes, ReadableByThird, StepsKeepStory
<1>4. CASE n \in {4, 5}
  BY <1>4 DEF SameStory
<1> QED BY <1>1, <1>2, <1>3, <1>4

\* The fourth step does the same for an outcome, and guesses nothing.
LEMMA OutcomeProvenanceOK ==
  ASSUME NEW o \in Outcome
  PROVE  /\ OutcomeOK(4, OutcomeProvenance(o)) /\ OutcomeOK(5, OutcomeProvenance(o))
         /\ (OutcomeProvenance(o).market = "LIVE") = (o.market = "LIVE")
<1>1. /\ o.simulated \in BOOLEAN /\ o.market \in {"LIVE", "SYNTHETIC", "UNKNOWN_LEGACY", None}
      /\ o.execution \in {"SIMULATED", "MANUAL_SIGNAL", "AUTONOMOUS", None} /\ o.said \in BOOLEAN
  BY DEF Outcome
<1>2. None \notin {"LIVE", "SYNTHETIC", "UNKNOWN_LEGACY", "SIMULATED", "MANUAL_SIGNAL",
                   "AUTONOMOUS"}
  BY NoneAssumption DEF Labels
<1>3. OutcomeProvenance(o) \in Outcome
  BY <1>1 DEF OutcomeProvenance, Outcome, Executed
<1> QED BY <1>1, <1>2, <1>3 DEF OutcomeProvenance, OutcomeOK, Executed, Outcome

----------------------------------------------------------------------------
(* Databases *)

\* What a database of its version promises.
Sound(d) ==
    /\ d \in Database
    /\ \A n \in 1..d.version : Columns(n, {}) \subseteq d.columns
    /\ \A i \in Records : d.rows[i] # None => RowOK(d.version, d.rows[i])
    /\ d.outcome # None => OutcomeOK(d.version, d.outcome)

\* `e` has all that `d` has, and says the same about it.
Continues(d, e) ==
    /\ d.columns \subseteq e.columns /\ d.version <= e.version
    /\ \A i \in Records : d.rows[i] # None => e.rows[i] # None /\ SameStory(d.rows[i], e.rows[i])
    /\ d.outcome # None => /\ e.outcome # None
                           /\ (e.outcome.market = "LIVE") = (d.outcome.market = "LIVE")

\* What ApplyStep makes of what its process sees.
Applied(n, d) ==
    [version |-> n, columns |-> d.columns, rows |-> Migrate(n, d.rows),
     outcome |-> MigrateOutcome(n, d.outcome)]

LEMMA ContinuesItself == ASSUME NEW d PROVE d \in Database => Continues(d, d)
BY DEF Continues, SameStory, Database

LEMMA ContinuesTransitive ==
  ASSUME NEW d \in Database, NEW e \in Database, NEW f \in Database, Continues(d, e),
         Continues(e, f)
  PROVE  Continues(d, f)
BY DEF Continues, SameStory, Database, Latest

LEMMA AppliedIsSound ==
  ASSUME NEW d, Sound(d), NEW n \in 1..Latest, d.version = n - 1,
         Columns(n, {}) \subseteq d.columns
  PROVE  Sound(Applied(n, d)) /\ Continues(d, Applied(n, d))
<1> DEFINE e == Applied(n, d)
<1>1. /\ e.version = n /\ e.columns = d.columns /\ e.rows = Migrate(n, d.rows)
      /\ e.outcome = MigrateOutcome(n, d.outcome)
  BY DEF Applied
<1>2. ASSUME NEW i \in Records
      PROVE  /\ d.rows[i] = None => e.rows[i] = None
             /\ d.rows[i] # None => /\ e.rows[i] # None /\ RowOK(n, e.rows[i])
                                    /\ SameStory(d.rows[i], e.rows[i])
  <2>1. CASE d.rows[i] = None
    BY <1>1, <2>1 DEF Migrate
  <2>2. CASE d.rows[i] # None
    <3>1. RowOK(n - 1, d.rows[i])
      BY <2>2 DEF Sound
    <3>2. e.rows[i] = MigrateRow(n, d.rows[i])
      BY <1>1, <2>2 DEF Migrate
    <3>3. RowOK(n, e.rows[i]) /\ SameStory(d.rows[i], e.rows[i])
      BY <3>1, <3>2, MigrateRowOK
    <3> QED BY <2>2, <3>3, NoneAssumption DEF RowOK
  <2> QED BY <2>1, <2>2
<1>3. /\ d.outcome = None => e.outcome = None
      /\ d.outcome # None => /\ e.outcome # None /\ OutcomeOK(n, e.outcome)
                             /\ (e.outcome.market = "LIVE") = (d.outcome.market = "LIVE")
  <2>1. CASE d.outcome = None \/ n # 4
    BY <1>1, <2>1 DEF MigrateOutcome, Sound, OutcomeOK, Latest
  <2>2. CASE d.outcome # None /\ n = 4
    <3>1. d.outcome \in Outcome
      BY <2>2 DEF Sound, OutcomeOK
    <3>2. e.outcome = OutcomeProvenance(d.outcome)
      BY <1>1, <2>2 DEF MigrateOutcome
    <3> QED BY <2>2, <3>1, <3>2, OutcomeProvenanceOK, NoneAssumption DEF OutcomeOK
  <2> QED BY <2>1, <2>2
<1>4. e \in Database
  <2>1. e.rows \in [Records -> Payload \cup {None}]
    <3>1. \A i \in Records : e.rows[i] \in Payload \cup {None}
      BY <1>2 DEF RowOK
    <3> QED BY <1>1, <3>1 DEF Migrate
  <2>2. /\ e.outcome \in Outcome \cup {None} /\ e.version \in 0..Latest
        /\ e.columns \subseteq AllColumns
    BY <1>1, <1>3 DEF OutcomeOK, Sound, Database, Latest
  <2>3. e = [version |-> e.version, columns |-> e.columns, rows |-> e.rows, outcome |-> e.outcome]
    BY DEF Applied
  <2> HIDE DEF e
  <2> QED BY <2>1, <2>2, <2>3 DEF Database
<1>5. \A k \in 1..e.version : Columns(k, {}) \subseteq e.columns
  BY <1>1 DEF Sound, Latest
<1> HIDE DEF e
<1>6. d.version <= e.version
  BY <1>1 DEF Latest
<1> QED BY <1>1, <1>2, <1>3, <1>4, <1>5, <1>6 DEF Sound, Continues, e

----------------------------------------------------------------------------
(* The inductive invariant *)

\* A process that works on a step has not left its database behind: when
\* another got ahead, its step is not newer than what it sees.
AtWork(p) ==
    /\ step[p] \in 1..Latest /\ step[p] <= View(p).version + 1
    /\ pc[p] = "alter" => Columns(step[p], {}) \subseteq View(p).columns \cup missing[p]
    /\ pc[p] = "rows" => Columns(step[p], {}) \subseteq View(p).columns

\* A transaction has the only write lock, and carries on what is committed.
InTransaction(p) ==
    /\ MayWrite(p) /\ Sound(work[p]) /\ Continues(file, work[p])
    /\ step[p] = work[p].version + 1

\* How far a process has come, what it has in hand, and what is committed.
ProcessOK(p) ==
    /\ work[p] # None => InTransaction(p)
    /\ pc[p] \in {"columns", "alter", "rows"} => AtWork(p)
    /\ pc[p] = "commit" => work[p] # None /\ work[p].version = Latest
    /\ pc[p] = "ready" => work[p] = None /\ file.version = Latest
    /\ pc[p] = "closed" => work[p] = None

SchemaInv == SchemaTypeOK /\ Sound(file) /\ \A p \in Migrators : ProcessOK(p)

\* The records a program of some version wrote are what RowOK says of it.
LEMMA WrittenOK ==
  ASSUME NEW version \in 0..Latest, NEW r \in WrittenRecords(version) PROVE RowOK(version, r)
<1>1. ASSUME NEW l \in Legacy PROVE l \in Payload /\ l.provenance = None
  BY <1>1 DEF Legacy, Payload
<1>2. ASSUME NEW c \in Current PROVE c \in Payload /\ Labelled(c) /\ Readable(c)
  BY <1>2, NoneAssumption DEF Current, Payload, Labelled, Readable, Labels
<1>3. ASSUME NEW l \in Legacy
      PROVE  FirstProvenanceAndUnits(l) \in Payload /\ Labelled(FirstProvenanceAndUnits(l))
  BY <1>1, NoneAssumption
  DEF FirstProvenanceAndUnits, ProvenanceAndUnits, Payload, Labelled, Labels, Legacy
<1>4. ASSUME NEW l \in Legacy
      PROVE  ProvenanceAndUnits(l) \in Payload /\ Labelled(ProvenanceAndUnits(l))
  BY <1>1, StepTypes, LabelledBySecond
<1>5. CASE version \in {0, 1}
  BY <1>1, <1>5 DEF WrittenRecords, RowOK
<1>6. CASE version = 2
  BY <1>2, <1>3, <1>4, <1>6 DEF WrittenRecords, RowOK
<1>7. CASE version \in 3..Latest
  <2>1. PICK c \in Payload :
          Labelled(c) /\ (r = RepairLegacySimulated(c) \/ (r = c /\ c \in Current))
    <3>1. r \in {RepairLegacySimulated(x) :
                     x \in Current \cup {ProvenanceAndUnits(l) : l \in Legacy}}
                  \cup Current
      BY <1>7 DEF WrittenRecords, Latest
    <3> QED BY <1>2, <1>4, <3>1
  <2> QED BY <1>2, <1>7, <2>1, StepTypes, ReadableByThird DEF RowOK, Latest
<1> QED BY <1>5, <1>6, <1>7 DEF Latest

LEMMA WrittenOutcomesOK ==
  ASSUME NEW version \in 0..Latest, NEW o \in WrittenOutcomes(version)
  PROVE  OutcomeOK(version, o)
<1>1. None \notin {"LIVE", "SYNTHETIC", "SIMULATED", "MANUAL_SIGNAL", "AUTONOMOUS"}
  BY NoneAssumption DEF Labels
<1>2. ASSUME NEW c \in OldOutcome PROVE c \in Outcome
  BY <1>2 DEF OldOutcome, Outcome
<1>3. ASSUME NEW c \in CurrentOutcome PROVE OutcomeOK(version, c)
  BY <1>1, <1>3 DEF CurrentOutcome, Outcome, OutcomeOK
<1>4. CASE version < 4
  BY <1>2, <1>4 DEF WrittenOutcomes, OutcomeOK, Latest
<1>5. CASE version \in {4, 5}
  BY <1>2, <1>3, <1>5, OutcomeProvenanceOK DEF WrittenOutcomes
<1> QED BY <1>4, <1>5 DEF Latest

LEMMA SchemaInvInit == SchemaInit => SchemaInv
<1> SUFFICES ASSUME SchemaInit PROVE SchemaInv
  OBVIOUS
<1>1. \A n \in 0..Latest : Columns(n, {}) \subseteq AllColumns
  BY DEF Columns, AllColumns, Latest
<1>2. Sound(file)
  <2>1. CASE \E version \in 0..Latest :
               \E records \in [Records -> WrittenRecords(version) \cup {None}],
                  outcome \in WrittenOutcomes(version) :
                 file = [version |-> version, rows |-> records, outcome |-> outcome,
                       columns |-> UNION {Columns(n, {}) : n \in 0..version}]
    <3>1. PICK version \in 0..Latest :
            \E records \in [Records -> WrittenRecords(version) \cup {None}],
               outcome \in WrittenOutcomes(version) :
              file = [version |-> version, rows |-> records, outcome |-> outcome,
                    columns |-> UNION {Columns(n, {}) : n \in 0..version}]
      BY <2>1
    <3>2. PICK records \in [Records -> WrittenRecords(version) \cup {None}],
               outcome \in WrittenOutcomes(version) :
            file = [version |-> version, rows |-> records, outcome |-> outcome,
                  columns |-> UNION {Columns(n, {}) : n \in 0..version}]
      BY <3>1
    <3>3. \A i \in Records : records[i] # None => RowOK(version, records[i])
      BY WrittenOK
    <3>4. OutcomeOK(version, outcome)
      BY WrittenOutcomesOK
    <3>5. UNION {Columns(n, {}) : n \in 0..version} \subseteq AllColumns
      BY <1>1 DEF Latest
    <3>6. \A n \in 1..version : Columns(n, {}) \subseteq UNION {Columns(k, {}) : k \in 0..version}
      BY DEF Latest
    <3>7. records \in [Records -> Payload \cup {None}] /\ outcome \in Outcome
      BY <3>3, <3>4 DEF RowOK, OutcomeOK
    <3> QED BY <3>2, <3>3, <3>4, <3>5, <3>6, <3>7 DEF Sound, Database
  <2>2. CASE file = [version |-> 0, rows |-> [i \in Records |-> None], outcome |-> None,
                   columns |-> AllColumns]
    BY <2>2 DEF Sound, Database, Latest
  <2> QED BY <2>1, <2>2 DEF SchemaInit
<1>3. SchemaTypeOK
  BY <1>2, MigrationsAssumption DEF SchemaInit, SchemaTypeOK, Sound, Latest
<1> QED BY <1>2, <1>3 DEF SchemaInit, SchemaInv, ProcessOK

\* A step of one process leaves the others what they rely on: it touches the
\* database only while nobody else is in a transaction, and only adds to it.
LEMMA OthersStay ==
  ASSUME SchemaInv, NEW p \in Migrators, NEW q \in Migrators \ {p}, SchemaTypeOK',
         \A r \in Migrators \ {p} : /\ work'[r] = work[r] /\ pc'[r] = pc[r]
                                    /\ step'[r] = step[r] /\ missing'[r] = missing[r],
         work'[p] \in {work[p], None} \/ MayWrite(p),
         UNCHANGED file \/ (MayWrite(p) /\ Sound(file') /\ Continues(file, file'))
  PROVE  ProcessOK(q)'
<1> USE DEF SchemaInv
<1>1. ProcessOK(q) /\ file \in Database /\ file' \in Database
  BY DEF SchemaTypeOK
<1>2. CASE work[q] # None
  <2>1. InTransaction(q)
    BY <1>1, <1>2 DEF ProcessOK
  <2>2. work[p] = None /\ ~MayWrite(p)
    BY <1>2, <2>1 DEF InTransaction, MayWrite
  <2>3. UNCHANGED file /\ work'[p] = None
    BY <2>2
  <2>4. MayWrite(q)'
    BY <2>1, <2>3 DEF InTransaction, MayWrite
  <2>5. View(q)' = View(q)
    BY <1>2 DEF View
  <2> QED
    BY <1>1, <1>2, <2>1, <2>3, <2>4, <2>5 DEF ProcessOK, InTransaction, AtWork
<1>3. CASE work[q] = None
  <2>1. work'[q] = None
    BY <1>3
  <2>2. file.columns \subseteq file'.columns /\ file.version <= file'.version
    BY <1>1 DEF Continues, Database, Latest
  <2>3. View(q) = file /\ (View(q))' = file'
    BY <1>3, <2>1 DEF View
  <2>4. file.version \in 0..Latest /\ file'.version \in 0..Latest
    BY <1>1 DEF Database
  <2>5. step[q] \in 0..(Latest + 1)
    BY DEF SchemaTypeOK
  <2> QED
    BY <1>1, <1>3, <2>1, <2>2, <2>3, <2>4, <2>5 DEF ProcessOK, AtWork, Latest
<1> QED BY <1>2, <1>3

\* What an action says of its own process, and of the others.
LEMMA Moves ==
  ASSUME SchemaTypeOK, NEW p \in Migrators
  PROVE  /\ \A where : Goes(p, where) =>
              pc'[p] = where /\ \A r \in Migrators \ {p} : pc'[r] = pc[r]
         /\ Gone(p) =>
              /\ pc'[p] = "closed" /\ work'[p] = None /\ step'[p] = 0 /\ missing'[p] = {}
              /\ \A r \in Migrators \ {p} : /\ work'[r] = work[r] /\ pc'[r] = pc[r]
                                            /\ step'[r] = step[r] /\ missing'[r] = missing[r]
BY DEF SchemaTypeOK, Goes, Gone

\* A run that fails or dies leaves nothing behind.
LEMMA GoneOK ==
  ASSUME SchemaInv, NEW p \in Migrators, Gone(p), UNCHANGED file, crashes' \in 0..MaxCrashes
  PROVE  SchemaInv'
<1> USE DEF SchemaInv
<1>1. SchemaTypeOK'
  BY DEF SchemaTypeOK, Gone, Goes, Latest
<1>2. /\ pc'[p] = "closed" /\ work'[p] = None
      /\ \A r \in Migrators \ {p} : /\ work'[r] = work[r] /\ pc'[r] = pc[r]
                                    /\ step'[r] = step[r] /\ missing'[r] = missing[r]
  BY Moves
<1>3. ProcessOK(p)'
  BY <1>2 DEF ProcessOK
<1>4. \A q \in Migrators \ {p} : ProcessOK(q)'
  BY <1>1, <1>2, OthersStay
<1>5. Sound(file)'
  BY DEF Sound, RowOK, OutcomeOK
<1> QED BY <1>1, <1>3, <1>4, <1>5

----------------------------------------------------------------------------
(* One lemma for each action *)

LEMMA ConnectOK == ASSUME SchemaInv, NEW p \in Migrators, Connect(p) PROVE SchemaInv'
<1> USE DEF SchemaInv, Connect
<1>1. file \in Database /\ work[p] = None /\ View(p) = file /\ View(p)' = file
  BY DEF ProcessOK, View, SchemaTypeOK
<1>2. SchemaTypeOK'
  BY DEF SchemaTypeOK, Goes, Latest, Database
<1>3. /\ pc'[p] = IF file.version = Latest THEN "ready" ELSE "columns"
      /\ step'[p] = file.version + 1
  BY DEF SchemaTypeOK, Goes
<1>4. ProcessOK(p)'
  BY <1>1, <1>3 DEF ProcessOK, AtWork, Database, Latest
<1>5. \A q \in Migrators \ {p} : ProcessOK(q)'
  <2>1. \A r \in Migrators \ {p} : /\ work'[r] = work[r] /\ pc'[r] = pc[r]
                                   /\ step'[r] = step[r] /\ missing'[r] = missing[r]
    BY DEF SchemaTypeOK, Goes
  <2> QED BY <1>2, <2>1, OthersStay
<1> QED BY <1>2, <1>4, <1>5 DEF Sound, RowOK, OutcomeOK

LEMMA FindMissingOK == ASSUME SchemaInv, NEW p \in Migrators, FindMissing(p) PROVE SchemaInv'
<1> USE DEF SchemaInv, FindMissing
<1>1. ProcessOK(p) /\ AtWork(p) /\ View(p)' = View(p)
  BY DEF ProcessOK, View
<1>2. /\ Columns(step[p], View(p).columns) = Columns(step[p], {}) \ View(p).columns
      /\ Columns(step[p], {}) \subseteq AllColumns
  BY <1>1 DEF AtWork, Columns, AllColumns, Latest
<1>3. SchemaTypeOK'
  BY <1>2 DEF SchemaTypeOK, Goes
<1>4. /\ missing'[p] = Columns(step[p], {}) \ View(p).columns /\ step'[p] = step[p]
      /\ pc'[p] = IF missing'[p] = {} THEN "rows" ELSE "alter"
      /\ work'[p] = work[p]
  BY <1>2 DEF SchemaTypeOK, Goes
<1>5. AtWork(p)'
  BY <1>1, <1>4 DEF AtWork
<1>6. work[p] # None => InTransaction(p)'
  BY <1>1, <1>4 DEF ProcessOK, InTransaction, MayWrite
<1>7. ProcessOK(p)'
  BY <1>4, <1>5, <1>6 DEF ProcessOK
<1>8. \A q \in Migrators \ {p} : ProcessOK(q)'
  <2>1. \A r \in Migrators \ {p} : /\ work'[r] = work[r] /\ pc'[r] = pc[r]
                                   /\ step'[r] = step[r] /\ missing'[r] = missing[r]
    BY DEF SchemaTypeOK, Goes
  <2> QED BY <1>3, <2>1, OthersStay
<1> QED BY <1>3, <1>7, <1>8 DEF Sound, RowOK, OutcomeOK

\* A database with one more column is as sound, and continues what it was.
LEMMA ColumnAdded ==
  ASSUME NEW d, Sound(d), NEW c \in AllColumns
  PROVE  LET e == [d EXCEPT !.columns = @ \cup {c}]
         IN  /\ Sound(e) /\ e.version = d.version /\ e.columns = d.columns \cup {c}
             /\ \A f \in Database : Continues(f, d) => Continues(f, e)
             /\ Continues(d, e)
<1> DEFINE e == [d EXCEPT !.columns = @ \cup {c}]
<1>1. /\ e \in Database /\ e.version = d.version /\ e.columns = d.columns \cup {c}
      /\ e.rows = d.rows /\ e.outcome = d.outcome
  BY DEF Sound, Database
<1>2. Continues(d, d)
  BY ContinuesItself DEF Sound
<1> HIDE DEF e
<1>3. Sound(e)
  BY <1>1 DEF Sound
<1>4. Continues(d, e) /\ \A f \in Database : Continues(f, d) => Continues(f, e)
  BY <1>1, <1>2 DEF Continues
<1> QED BY <1>1, <1>3, <1>4 DEF e

LEMMA AddColumnOK == ASSUME SchemaInv, NEW p \in Migrators, AddColumn(p) PROVE SchemaInv'
<1> USE DEF SchemaInv
<1>1. ProcessOK(p) /\ AtWork(p) /\ MayWrite(p) /\ pc[p] = "alter" /\ UNCHANGED crashes
  BY DEF ProcessOK, AddColumn
<1>2. PICK c \in missing[p] :
        IF c \in View(p).columns THEN Gone(p) /\ UNCHANGED file
        ELSE /\ missing' = [missing EXCEPT ![p] = @ \ {c}]
             /\ Goes(p, IF missing[p] = {c} THEN "rows" ELSE "alter")
             /\ IF work[p] = None
                THEN file' = [file EXCEPT !.columns = @ \cup {c}] /\ UNCHANGED work
                ELSE work' = [work EXCEPT ![p].columns = @ \cup {c}] /\ UNCHANGED file
             /\ UNCHANGED step
  BY DEF AddColumn
<1>3. CASE c \in View(p).columns
  BY <1>1, <1>2, <1>3, GoneOK DEF SchemaTypeOK
<1>4. CASE c \notin View(p).columns
  <2>1. c \in AllColumns
    BY DEF SchemaTypeOK
  <2>2. /\ missing'[p] = missing[p] \ {c} /\ step'[p] = step[p]
        /\ pc'[p] = IF missing[p] = {c} THEN "rows" ELSE "alter"
        /\ \A r \in Migrators \ {p} : /\ pc'[r] = pc[r] /\ missing'[r] = missing[r]
                                      /\ step'[r] = step[r]
    BY <1>2, <1>4 DEF SchemaTypeOK, Goes
  <2>3. /\ pc' \in [Migrators -> {"closed", "columns", "alter", "rows", "commit", "ready"}]
        /\ step' = step /\ missing' \in [Migrators -> SUBSET AllColumns] /\ crashes' = crashes
    BY <1>1, <1>2, <1>4 DEF SchemaTypeOK, Goes
  <2>4. ASSUME (View(p))' = [View(p) EXCEPT !.columns = @ \cup {c}], Sound(View(p))
        PROVE  AtWork(p)'
    BY <1>1, <2>1, <2>2, <2>4, ColumnAdded DEF AtWork
  <2>5. CASE work[p] = None
    <3>1. /\ file' = [file EXCEPT !.columns = @ \cup {c}] /\ work' = work /\ View(p) = file
          /\ View(p)' = file'
      BY <1>2, <1>4, <2>5 DEF View
    <3>2. Sound(file') /\ Continues(file, file')
      BY <2>1, <3>1, ColumnAdded
    <3>3. SchemaTypeOK'
      BY <2>3, <3>1, <3>2 DEF SchemaTypeOK, Sound
    <3>4. ProcessOK(p)'
      BY <2>2, <2>4, <2>5, <3>1 DEF ProcessOK
    <3>5. \A q \in Migrators \ {p} : ProcessOK(q)'
      BY <1>1, <2>2, <3>1, <3>2, <3>3, OthersStay
    <3> QED BY <3>2, <3>3, <3>4, <3>5
  <2>6. CASE work[p] # None
    <3>1. InTransaction(p) /\ work[p] \in Database /\ file \in Database
      BY <1>1, <2>6 DEF ProcessOK, InTransaction, Sound
    <3>2. /\ work' = [work EXCEPT ![p].columns = @ \cup {c}] /\ file' = file
          /\ work'[p] = [work[p] EXCEPT !.columns = @ \cup {c}]
          /\ \A r \in Migrators \ {p} : work'[r] = work[r]
      BY <1>2, <1>4, <2>6 DEF SchemaTypeOK
    <3>3. /\ Sound(work'[p]) /\ Continues(file, work'[p]) /\ work'[p].version = work[p].version
      BY <2>1, <3>1, <3>2, ColumnAdded DEF InTransaction
    <3>4. work'[p] # None
      BY <3>3, NoneAssumption DEF Sound
    <3>5. View(p) = work[p] /\ View(p)' = work'[p]
      BY <2>6, <3>4 DEF View
    <3>6. SchemaTypeOK'
      BY <2>3, <3>2, <3>3 DEF SchemaTypeOK, Sound
    <3>7. InTransaction(p)'
      BY <2>2, <3>1, <3>2, <3>3 DEF InTransaction, MayWrite
    <3>8. ProcessOK(p)'
      BY <2>2, <2>4, <3>1, <3>2, <3>5, <3>7 DEF ProcessOK, InTransaction
    <3>9. \A q \in Migrators \ {p} : ProcessOK(q)'
      BY <1>1, <2>2, <3>2, <3>6, OthersStay
    <3> QED BY <3>2, <3>6, <3>8, <3>9 DEF Sound, RowOK, OutcomeOK
  <2> QED BY <2>5, <2>6
<1> QED BY <1>3, <1>4

LEMMA ApplyStepOK == ASSUME SchemaInv, NEW p \in Migrators, ApplyStep(p) PROVE SchemaInv'
<1> USE DEF SchemaInv
<1>1. /\ ProcessOK(p) /\ AtWork(p) /\ MayWrite(p) /\ pc[p] = "rows"
      /\ file' = file /\ crashes' = crashes
  BY DEF ProcessOK, ApplyStep
<1>2. CASE step[p] <= View(p).version
  BY <1>1, <1>2, GoneOK DEF ApplyStep, SchemaTypeOK
<1>3. CASE ~(step[p] <= View(p).version)
  <2> DEFINE e == Applied(step[p], View(p))
  <2>1. Sound(View(p)) /\ Continues(file, View(p)) /\ View(p) \in Database /\ file \in Database
    BY <1>1, ContinuesItself DEF View, ProcessOK, InTransaction, Sound
  <2>2. step[p] \in 1..Latest /\ View(p).version = step[p] - 1
    BY <1>1, <1>3, <2>1 DEF AtWork, Database, Latest
  <2>3. Sound(e) /\ Continues(View(p), e) /\ e.version = step[p]
    BY <1>1, <2>1, <2>2, AppliedIsSound DEF AtWork, Applied
  <2>4. e \in Database /\ e # None
    BY <2>3, NoneAssumption DEF Sound
  <2>5. Continues(file, e)
    BY <2>1, <2>3, <2>4, ContinuesTransitive
  <2>6. /\ work' = [work EXCEPT ![p] = e] /\ step' = [step EXCEPT ![p] = @ + 1]
        /\ Goes(p, IF step[p] = Latest THEN "commit" ELSE "columns") /\ missing' = missing
    BY <1>3 DEF ApplyStep, Applied
  <2> HIDE DEF e
  <2>7. SchemaTypeOK'
    BY <1>1, <2>2, <2>4, <2>6 DEF SchemaTypeOK, Goes, Latest
  <2>8. /\ work'[p] = e /\ step'[p] = step[p] + 1
        /\ pc'[p] = IF step[p] = Latest THEN "commit" ELSE "columns"
        /\ \A r \in Migrators \ {p} : /\ work'[r] = work[r] /\ pc'[r] = pc[r]
                                      /\ step'[r] = step[r] /\ missing'[r] = missing[r]
    BY <2>6 DEF SchemaTypeOK, Goes
  <2>9. View(p)' = e
    BY <2>4, <2>8 DEF View
  <2>10. InTransaction(p)'
    BY <1>1, <2>3, <2>5, <2>8 DEF InTransaction, MayWrite
  <2>11. pc'[p] = "columns" => AtWork(p)'
    BY <2>2, <2>3, <2>8, <2>9 DEF AtWork, Latest
  <2>12. ProcessOK(p)'
    BY <2>3, <2>4, <2>8, <2>10, <2>11 DEF ProcessOK
  <2>13. \A q \in Migrators \ {p} : ProcessOK(q)'
    BY <1>1, <2>7, <2>8, OthersStay
  <2> QED BY <1>1, <2>7, <2>12, <2>13 DEF Sound, RowOK, OutcomeOK
<1> QED BY <1>2, <1>3

LEMMA CommitOK ==
  ASSUME SchemaInv, NEW p \in Migrators, Commit(p)
  PROVE  SchemaInv' /\ Continues(file, file')
<1> USE DEF SchemaInv
<1>1. /\ ProcessOK(p) /\ pc[p] = "commit" /\ work[p] # None /\ InTransaction(p)
      /\ work[p].version = Latest /\ file' = work[p] /\ UNCHANGED <<step, missing, crashes>>
  BY DEF ProcessOK, Commit
<1>2. Sound(file') /\ Continues(file, file') /\ MayWrite(p)
  BY <1>1 DEF InTransaction
<1>3. SchemaTypeOK'
  BY <1>1, <1>2 DEF Commit, SchemaTypeOK, Goes, Sound
<1>4. /\ work'[p] = None /\ pc'[p] = "ready"
      /\ \A r \in Migrators \ {p} : work'[r] = work[r] /\ pc'[r] = pc[r]
  BY DEF Commit, SchemaTypeOK, Goes
<1>5. ProcessOK(p)'
  BY <1>1, <1>4 DEF ProcessOK
<1>6. \A q \in Migrators \ {p} : ProcessOK(q)'
  BY <1>1, <1>2, <1>3, <1>4, OthersStay
<1> QED BY <1>2, <1>3, <1>5, <1>6

LEMMA CrashOK == ASSUME SchemaInv, NEW p \in Migrators, Crash(p) PROVE SchemaInv'
<1>1. crashes' \in 0..MaxCrashes
  BY MigrationsAssumption DEF Crash, SchemaInv, SchemaTypeOK
<1> QED BY <1>1, GoneOK DEF Crash

\* A row the program writes is one it can read, and takes the place of none.
LEMMA SaveOK ==
  ASSUME SchemaInv, NEW p \in Migrators, Save(p)
  PROVE  SchemaInv' /\ Continues(file, file')
<1> USE DEF SchemaInv
<1>1. /\ file \in Database /\ Sound(file) /\ file.version = Latest /\ MayWrite(p)
      /\ UNCHANGED <<work, pc, step, missing, crashes>> /\ work[p] = None
  BY DEF ProcessOK, Save, Sound
<1>2. Sound(file') /\ Continues(file, file') /\ file'.version = Latest
  <2>1. CASE \E i \in Records, r \in Current :
               file.rows[i] = None /\ file' = [file EXCEPT !.rows[i] = r]
    <3>1. PICK i \in Records, r \in Current :
               file.rows[i] = None /\ file' = [file EXCEPT !.rows[i] = r]
      BY <2>1
    <3>2. RowOK(Latest, r)
      <4>1. r \in WrittenRecords(Latest)
        BY DEF WrittenRecords, Latest
      <4> QED BY <4>1, WrittenOK DEF Latest
    <3>3. /\ file'.version = file.version /\ file'.columns = file.columns
          /\ file'.outcome = file.outcome
          /\ file'.rows = [file.rows EXCEPT ![i] = r]
      BY <1>1, <3>1 DEF Database
    <3>4. file' \in Database
      BY <1>1, <3>1, <3>2 DEF Database, RowOK
    <3>5. \A j \in Records : file'.rows[j] = IF j = i THEN r ELSE file.rows[j]
      BY <1>1, <3>3 DEF Database
    <3>6. Sound(file')
      BY <1>1, <3>2, <3>3, <3>4, <3>5 DEF Sound
    <3>7. Continues(file, file')
      BY <1>1, <3>1, <3>3, <3>5, ContinuesItself DEF Continues
    <3> QED BY <1>1, <3>3, <3>6, <3>7
  <2>2. CASE \E o \in CurrentOutcome : file.outcome = None /\ file' = [file EXCEPT !.outcome = o]
    <3>1. PICK o \in CurrentOutcome : file.outcome = None /\ file' = [file EXCEPT !.outcome = o]
      BY <2>2
    <3>2. OutcomeOK(Latest, o)
      <4>1. o \in WrittenOutcomes(Latest)
        BY DEF WrittenOutcomes, Latest
      <4> QED BY <4>1, WrittenOutcomesOK DEF Latest
    <3>3. /\ file'.version = file.version /\ file'.columns = file.columns /\ file'.outcome = o
          /\ file'.rows = file.rows
      BY <1>1, <3>1 DEF Database
    <3>4. file' \in Database
      BY <1>1, <3>1, <3>2 DEF Database, OutcomeOK
    <3>5. Sound(file')
      BY <1>1, <3>2, <3>3, <3>4 DEF Sound
    <3>6. Continues(file, file')
      BY <1>1, <3>1, <3>3, ContinuesItself DEF Continues
    <3> QED BY <1>1, <3>3, <3>5, <3>6
  <2> QED BY <2>1, <2>2 DEF Save
<1>3. SchemaTypeOK'
  BY <1>1, <1>2 DEF SchemaTypeOK, Sound
<1>4. ProcessOK(p)'
  BY <1>1, <1>2 DEF ProcessOK, Save
<1>5. \A q \in Migrators \ {p} : ProcessOK(q)'
  BY <1>1, <1>2, <1>3, OthersStay
<1> QED BY <1>2, <1>3, <1>4, <1>5

\* The invariant holds of every step.
LEMMA SchemaInvNext == SchemaInv /\ [SchemaNext]_schemaVars => SchemaInv'
<1> SUFFICES ASSUME SchemaInv, [SchemaNext]_schemaVars PROVE SchemaInv'
  OBVIOUS
<1>1. CASE UNCHANGED schemaVars
  BY <1>1 DEF schemaVars, SchemaInv, SchemaTypeOK, Sound, ProcessOK, AtWork, InTransaction,
     MayWrite, View,
              RowOK, OutcomeOK, Continues, SameStory
<1>2. ASSUME NEW p \in Migrators, Proceed(p) \/ Crash(p) \/ Save(p) PROVE SchemaInv'
  BY <1>2, ConnectOK, FindMissingOK, AddColumnOK, ApplyStepOK, CommitOK, CrashOK, SaveOK DEF Proceed
<1> QED BY <1>1, <1>2 DEF SchemaNext

----------------------------------------------------------------------------
(* The theorems *)

\* Whatever process has migrated the database, and whatever died on the way.
LEMMA SchemaInvariance == SchemaSpec => []SchemaInv
<1> QED BY SchemaInvInit, SchemaInvNext, PTL DEF SchemaSpec

\* Every variable has its type, in particular every record has the fields the
\* migrations give it.
THEOREM MigrationsTypes == SchemaSpec => []SchemaTypeOK
<1>1. SchemaInv => SchemaTypeOK
  BY DEF SchemaInv
<1> QED BY <1>1, SchemaInvariance, PTL

\* Repository.init returns with a database whose every row the program can load,
\* for any number of processes that migrate it at once and of deaths among them.
THEOREM Readability == SchemaSpec => []ReadyIsReadable
<1>1. SchemaInv => ReadyIsReadable
  <2> SUFFICES ASSUME SchemaInv, NEW p \in Migrators, pc[p] = "ready"
               PROVE  /\ file.version = Latest /\ file.columns = AllColumns
                      /\ \A i \in Records : file.rows[i] # None => Readable(file.rows[i])
                      /\ file.outcome # None => file.outcome.said /\ None \notin {file.outcome.market,
                                                                            file.outcome.execution}
    BY DEF ReadyIsReadable
  <2>1. file.version = Latest /\ Sound(file)
    BY DEF SchemaInv, ProcessOK
  <2>2. file.columns = AllColumns
    BY <2>1 DEF Sound, Database, AllColumns, Latest
  <2> QED BY <2>1, <2>2 DEF Sound, RowOK, OutcomeOK, Latest
<1> QED BY <1>1, SchemaInvariance, PTL

\* No statement of the migrations, and no row written beside them, changes what a
\* committed record says of its verification, its simulation or its signature.
THEOREM Evidence == SchemaSpec => EvidenceIsKept
<1>1. SchemaInv /\ [SchemaNext]_schemaVars => Continues(file, file')
  <2> SUFFICES ASSUME SchemaInv, [SchemaNext]_schemaVars PROVE Continues(file, file')
    OBVIOUS
  <2>1. Continues(file, file)
    BY ContinuesItself DEF SchemaInv, SchemaTypeOK
  <2>2. CASE UNCHANGED file
    BY <2>1, <2>2
  <2>3. ASSUME NEW p \in Migrators, AddColumn(p), ~UNCHANGED file PROVE Continues(file, file')
    <3>1. PICK c \in AllColumns : file' = [file EXCEPT !.columns = @ \cup {c}]
      BY <2>3 DEF AddColumn, SchemaInv, SchemaTypeOK
    <3> QED BY <3>1, ColumnAdded DEF SchemaInv
  <2> QED
    BY <2>2, <2>3, CommitOK, SaveOK
    DEF SchemaNext, Proceed, schemaVars, Connect, FindMissing, ApplyStep, Crash
<1>2. Continues(file, file') =>
        \A i \in Records : file.rows[i] # None =>
          /\ Verified(file'.rows[i]) <=> Verified(file.rows[i])
          /\ file'.rows[i].simulated = file.rows[i].simulated
          /\ (file'.rows[i].tx \/ file'.rows[i].reported) =
               (file.rows[i].tx \/ file.rows[i].reported)
          /\ file.outcome # None => (file'.outcome.market = "LIVE") = (file.outcome.market = "LIVE")
  BY DEF Continues, SameStory
<1> QED BY <1>1, <1>2, SchemaInvariance, PTL DEF SchemaSpec, EvidenceIsKept
=============================================================================

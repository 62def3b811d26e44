------------------------------ MODULE DataLemmas -----------------------------
(***************************************************************************)
(* What MapThenSumSet computes, for a finite set and a function into the   *)
(* integers: nothing for the empty set, and one summand more for one       *)
(* element more, whichever order the elements are taken in; a sum of       *)
(* natural numbers is one.  The theorems about money rest on these lemmas. *)
(*                                                                         *)
(* MapThenSumSet is a recursive function chosen with CHOOSE.  The lemmas   *)
(* show that it exists and that it does not depend on the choices it       *)
(* makes, by induction over the subsets of a finite set.  Induction is     *)
(* over a set of the cases that hold, from a least case that does not, so  *)
(* that every step is first-order.                                         *)
(*                                                                         *)
(* And how the members of a finite set are numbered in an order, and what  *)
(* becomes of a queue in which nobody stands twice.                        *)
(***************************************************************************)
EXTENDS Integers, FiniteSetsExt, FiniteSetTheorems, WellFoundedInduction,
        SequenceTheorems, TLAPS

SumOf(f, S) == MapThenSumSet(LAMBDA o : f[o], S)

----------------------------------------------------------------------------
(* Induction *)

\* A set of natural numbers has a least one.
LEMMA LeastNat ==
  ASSUME NEW S \in SUBSET Nat, S # {} PROVE \E n \in S : \A k \in S : n =< k
<1> DEFINE R == OpToRel(<, Nat)
<1>1. IsWellFoundedOn(R, Nat)
  BY NatLessThanWellFounded
<1>2. \A x, y \in Nat : <<x, y>> \in R <=> x < y
  BY DEF OpToRel
<1> HIDE DEF R
<1>3. PICK n \in S : \A k \in S : ~(<<k, n>> \in R)
  BY <1>1, WFMin
<1>4. \A k \in S : ~(k < n)
  BY <1>2, <1>3
<1>5. S \subseteq Nat
  OBVIOUS
<1>6. \A k \in S : n =< k
  BY <1>4, <1>5, SMT
<1> QED BY <1>6

\* A set of natural numbers with zero and every successor has them all.
LEMMA CountUp ==
  ASSUME NEW Q, 0 \in Q, \A n \in Nat : n \in Q => n + 1 \in Q
  PROVE  Nat \subseteq Q
<1>1. CASE Nat \ Q = {}
  BY <1>1
<1>2. CASE Nat \ Q # {}
  <2>1. PICK n \in Nat \ Q : \A k \in Nat \ Q : n =< k
    BY <1>2, LeastNat
  <2>2. n # 0 /\ n \in Nat /\ n - 1 \in Nat
    BY <2>1
  <2>3. n - 1 \in Q
    BY <2>1, <2>2
  <2>4. (n - 1) + 1 \in Q
    BY <2>2, <2>3
  <2> QED BY <2>1, <2>2, <2>4
<1> QED BY <1>1, <1>2

\* If a set of sets has the empty one, and each finite one whose members can be
\* taken away one at a time without leaving it, it has all the subsets of a
\* finite set.
LEMMA SetInduction ==
  ASSUME NEW S, IsFiniteSet(S), NEW Q, {} \in Q,
         \A s \in SUBSET S : s # {} /\ (\A x \in s : s \ {x} \in Q) => s \in Q
  PROVE  SUBSET S \subseteq Q
<1> DEFINE N == {n \in Nat : \A s \in SUBSET S : Cardinality(s) = n => s \in Q}
<1>1. \A s \in SUBSET S : IsFiniteSet(s) /\ Cardinality(s) \in Nat
  BY FS_Subset, FS_CardinalityType
<1>2. 0 \in N
  BY <1>1, FS_EmptySet
<1>3. ASSUME NEW n \in Nat, n \in N PROVE n + 1 \in N
  <2>1. ASSUME NEW s \in SUBSET S, Cardinality(s) = n + 1 PROVE s \in Q
    <3>1. s # {}
      <4>1. Cardinality({}) = 0
        BY FS_EmptySet
      <4> QED BY <2>1, <4>1
    <3>2. ASSUME NEW x \in s PROVE s \ {x} \in Q
      <4>1. Cardinality(s \ {x}) = Cardinality(s) - 1
        BY <1>1, FS_RemoveElement
      <4>2. Cardinality(s \ {x}) = n
        BY <2>1, <4>1
      <4> QED BY <1>3, <4>2
    <3> QED BY <3>1, <3>2
  <2> QED BY <2>1
<1> HIDE DEF N
<1>4. Nat \subseteq N
  BY <1>2, <1>3, CountUp
<1>5. \A s \in SUBSET S : Cardinality(s) \in N
  BY <1>1, <1>4
<1> QED BY <1>5 DEF N

----------------------------------------------------------------------------
(* The recursive function behind MapThenSumSet *)

Pick(s) == CHOOSE x \in s : TRUE
SumStep(g, f, s) == IF s = {} THEN 0 ELSE f[Pick(s)] + g[s \ {Pick(s)}]
Sums(f, S) == CHOOSE g : g = [s \in SUBSET S |-> SumStep(g, f, s)]

LEMMA SumOfIsSums == ASSUME NEW f, NEW S PROVE SumOf(f, S) = Sums(f, S)[S]
BY DEF SumOf, Sums, SumStep, Pick, MapThenSumSet, MapThenFoldSet

\* The recursive function exists.
LEMMA SumsExist ==
  ASSUME NEW D, NEW f \in [D -> Int], NEW S \in SUBSET D, IsFiniteSet(S)
  PROVE  \E g \in [SUBSET S -> Int] : g = [s \in SUBSET S |-> SumStep(g, f, s)]
<1> DEFINE Good(g, n) == \A s \in SUBSET S : Cardinality(s) =< n => g[s] = SumStep(g, f, s)
           N == {n \in Nat : \E g \in [SUBSET S -> Int] : Good(g, n)}
<1>1. \A s \in SUBSET S : IsFiniteSet(s) /\ Cardinality(s) \in Nat
  BY FS_Subset, FS_CardinalityType
<1>2. \A s \in SUBSET S : s # {} => /\ Pick(s) \in s
                                    /\ s \ {Pick(s)} \in SUBSET S
                                    /\ Cardinality(s \ {Pick(s)}) = Cardinality(s) - 1
  <2> SUFFICES ASSUME NEW s \in SUBSET S, s # {}
               PROVE  /\ Pick(s) \in s
                      /\ s \ {Pick(s)} \in SUBSET S
                      /\ Cardinality(s \ {Pick(s)}) = Cardinality(s) - 1
    OBVIOUS
  <2>1. Pick(s) \in s
    BY DEF Pick
  <2>2. Cardinality(s \ {Pick(s)}) = Cardinality(s) - 1
    BY <1>1, <2>1, FS_RemoveElement
  <2> QED BY <2>1, <2>2
<1>3. \A g \in [SUBSET S -> Int] : \A s \in SUBSET S : SumStep(g, f, s) \in Int
  <2> SUFFICES ASSUME NEW g \in [SUBSET S -> Int], NEW s \in SUBSET S
               PROVE  SumStep(g, f, s) \in Int
    OBVIOUS
  <2>1. s # {} => f[Pick(s)] \in Int /\ g[s \ {Pick(s)}] \in Int
    BY <1>2
  <2> QED BY <2>1 DEF SumStep
<1>4. 0 \in N
  <2> DEFINE g == [s \in SUBSET S |-> 0]
  <2>1. g \in [SUBSET S -> Int]
    OBVIOUS
  <2>2. Good(g, 0)
    <3> SUFFICES ASSUME NEW s \in SUBSET S, Cardinality(s) =< 0 PROVE g[s] = SumStep(g, f, s)
      OBVIOUS
    <3>1. s = {}
      BY <1>1, FS_EmptySet
    <3> QED BY <3>1 DEF SumStep
  <2> QED BY <2>1, <2>2
<1>5. ASSUME NEW n \in Nat, n \in N PROVE n + 1 \in N
  <2>1. PICK g \in [SUBSET S -> Int] : Good(g, n)
    BY <1>5
  <2> DEFINE h == [s \in SUBSET S |->
                     IF Cardinality(s) = n + 1 THEN SumStep(g, f, s) ELSE g[s]]
  <2>2. h \in [SUBSET S -> Int]
    BY <1>3
  <2>3. Good(h, n + 1)
    <3> SUFFICES ASSUME NEW s \in SUBSET S, Cardinality(s) =< n + 1
                 PROVE  h[s] = SumStep(h, f, s)
      OBVIOUS
    <3>1. h[s] = SumStep(g, f, s)
      BY <1>1, <2>1
    <3>2. CASE s = {}
      BY <3>1, <3>2 DEF SumStep
    <3>3. CASE s # {}
      <4>1. Cardinality(s \ {Pick(s)}) # n + 1
        BY <1>1, <1>2, <3>3
      <4>2. h[s \ {Pick(s)}] = g[s \ {Pick(s)}]
        BY <1>2, <3>3, <4>1
      <4> QED BY <3>1, <3>3, <4>2 DEF SumStep
    <3> QED BY <3>2, <3>3
  <2> HIDE DEF h
  <2>4. \E k \in [SUBSET S -> Int] : Good(k, n + 1)
    BY <2>2, <2>3
  <2> QED BY <2>4
<1> HIDE DEF N
<1>6. Cardinality(S) \in N
  BY <1>1, <1>4, <1>5, CountUp
<1>7. PICK g \in [SUBSET S -> Int] : Good(g, Cardinality(S))
  BY <1>6 DEF N
<1>8. \A s \in SUBSET S : Cardinality(s) =< Cardinality(S)
  BY FS_Subset
<1>9. g = [s \in SUBSET S |-> SumStep(g, f, s)]
  BY <1>7, <1>8
<1> QED BY <1>7, <1>9

\* What Sums chooses is such a function.
LEMMA SumsStep ==
  ASSUME NEW D, NEW f \in [D -> Int], NEW S \in SUBSET D, IsFiniteSet(S), NEW s \in SUBSET S
  PROVE  Sums(f, S)[s] = SumStep(Sums(f, S), f, s)
<1>1. Sums(f, S) = [t \in SUBSET S |-> SumStep(Sums(f, S), f, t)]
  BY SumsExist DEF Sums
<1> QED BY <1>1

\* The sums over the subsets of a part are those over them in the whole.
LEMMA SumsOfPart ==
  ASSUME NEW D, NEW f \in [D -> Int], NEW S \in SUBSET D, IsFiniteSet(S), NEW T \in SUBSET S
  PROVE  Sums(f, T)[T] = Sums(f, S)[T]
<1> DEFINE Q == {s \in SUBSET T : Sums(f, T)[s] = Sums(f, S)[s]}
<1>1. IsFiniteSet(T)
  BY FS_Subset
<1>2. \A s \in SUBSET T : /\ Sums(f, T)[s] = SumStep(Sums(f, T), f, s)
                          /\ Sums(f, S)[s] = SumStep(Sums(f, S), f, s)
  BY <1>1, SumsStep
<1>3. {} \in Q
  BY <1>2 DEF SumStep
<1>4. ASSUME NEW s \in SUBSET T, s # {}, \A x \in s : s \ {x} \in Q PROVE s \in Q
  <2>1. Pick(s) \in s
    BY <1>4 DEF Pick
  <2>2. Sums(f, T)[s \ {Pick(s)}] = Sums(f, S)[s \ {Pick(s)}]
    BY <1>4, <2>1
  <2> QED BY <1>2, <1>4, <2>2 DEF SumStep
<1> HIDE DEF Q
<1>5. SUBSET T \subseteq Q
  BY <1>1, <1>3, <1>4, SetInduction
<1> QED BY <1>5 DEF Q

----------------------------------------------------------------------------
(* The sum of a finite set *)

LEMMA SumOfEmpty == ASSUME NEW D, NEW f \in [D -> Int] PROVE SumOf(f, {}) = 0
<1>1. IsFiniteSet({})
  BY FS_EmptySet
<1>2. Sums(f, {})[{}] = SumStep(Sums(f, {}), f, {})
  BY <1>1, SumsStep
<1> QED BY <1>2, SumOfIsSums DEF SumStep

LEMMA SumOfPicked ==
  ASSUME NEW D, NEW f \in [D -> Int], NEW S \in SUBSET D, IsFiniteSet(S), S # {}
  PROVE  SumOf(f, S) = f[Pick(S)] + SumOf(f, S \ {Pick(S)})
<1>1. Sums(f, S)[S] = SumStep(Sums(f, S), f, S)
  BY SumsStep
<1>2. Sums(f, S \ {Pick(S)})[S \ {Pick(S)}] = Sums(f, S)[S \ {Pick(S)}]
  BY SumsOfPart
<1> QED BY <1>1, <1>2, SumOfIsSums DEF SumStep

LEMMA SumOfInt ==
  ASSUME NEW D, NEW f \in [D -> Int], NEW S \in SUBSET D, IsFiniteSet(S)
  PROVE  SumOf(f, S) \in Int
<1> DEFINE Q == {s \in SUBSET S : SumOf(f, s) \in Int}
<1>1. {} \in Q
  BY SumOfEmpty
<1>2. ASSUME NEW s \in SUBSET S, s # {}, \A x \in s : s \ {x} \in Q PROVE s \in Q
  <2>1. Pick(s) \in s
    BY <1>2 DEF Pick
  <2>2. IsFiniteSet(s)
    BY FS_Subset
  <2>3. SumOf(f, s) = f[Pick(s)] + SumOf(f, s \ {Pick(s)})
    BY <1>2, <2>2, SumOfPicked
  <2>4. f[Pick(s)] \in Int /\ SumOf(f, s \ {Pick(s)}) \in Int
    BY <1>2, <2>1
  <2> QED BY <2>3, <2>4
<1> HIDE DEF Q
<1>3. SUBSET S \subseteq Q
  BY <1>1, <1>2, SetInduction
<1> QED BY <1>3 DEF Q

LEMMA SumOfNat ==
  ASSUME NEW D, NEW f \in [D -> Nat], NEW S \in SUBSET D, IsFiniteSet(S)
  PROVE  SumOf(f, S) \in Nat
<1> DEFINE Q == {s \in SUBSET S : SumOf(f, s) \in Nat}
<1>1. {} \in Q
  BY SumOfEmpty
<1>2. ASSUME NEW s \in SUBSET S, s # {}, \A x \in s : s \ {x} \in Q PROVE s \in Q
  <2>1. Pick(s) \in s
    BY <1>2 DEF Pick
  <2>2. IsFiniteSet(s)
    BY FS_Subset
  <2>3. SumOf(f, s) = f[Pick(s)] + SumOf(f, s \ {Pick(s)})
    BY <1>2, <2>2, SumOfPicked
  <2>4. f[Pick(s)] \in Nat /\ SumOf(f, s \ {Pick(s)}) \in Nat
    BY <1>2, <2>1
  <2> QED BY <2>3, <2>4
<1> HIDE DEF Q
<1>3. SUBSET S \subseteq Q
  BY <1>1, <1>2, SetInduction
<1> QED BY <1>3 DEF Q

\* Any element may be taken first.
LEMMA SumOfMember ==
  ASSUME NEW D, NEW f \in [D -> Int], NEW S \in SUBSET D, IsFiniteSet(S)
  PROVE  /\ SumOf(f, S) \in Int
         /\ \A x \in S : SumOf(f, S) = f[x] + SumOf(f, S \ {x})
<1> DEFINE Q == {s \in SUBSET S : /\ SumOf(f, s) \in Int
                                  /\ \A x \in s : SumOf(f, s) = f[x] + SumOf(f, s \ {x})}
<1>1. \A s \in SUBSET S : IsFiniteSet(s)
  BY FS_Subset
<1>2. {} \in Q
  BY SumOfEmpty
<1>3. ASSUME NEW s \in SUBSET S, s # {}, \A x \in s : s \ {x} \in Q PROVE s \in Q
  <2>1. PICK c \in s : SumOf(f, s) = f[c] + SumOf(f, s \ {c})
    <3>1. Pick(s) \in s
      BY <1>3 DEF Pick
    <3> QED BY <1>1, <1>3, <3>1, SumOfPicked
  <2>2. \A x \in s : f[x] \in Int /\ SumOf(f, s \ {x}) \in Int
    BY <1>3
  <2>3. SumOf(f, s) \in Int
    BY <2>1, <2>2
  <2>4. ASSUME NEW x \in s PROVE SumOf(f, s) = f[x] + SumOf(f, s \ {x})
    <3>1. CASE x = c
      BY <2>1, <3>1
    <3>2. CASE x # c
      <4>1. (s \ {c}) \ {x} = (s \ {x}) \ {c}
        OBVIOUS
      <4>2. SumOf(f, s \ {c}) = f[x] + SumOf(f, (s \ {c}) \ {x})
        BY <1>3, <3>2
      <4>3. SumOf(f, s \ {x}) = f[c] + SumOf(f, (s \ {x}) \ {c})
        BY <1>3, <3>2
      <4>4. (s \ {c}) \ {x} \in SUBSET S /\ SumOf(f, (s \ {c}) \ {x}) = SumOf(f, (s \ {x}) \ {c})
        BY <4>1
      <4>5. SumOf(f, (s \ {c}) \ {x}) \in Int
        BY <1>1, <4>4, SumOfInt
      <4> QED BY <2>1, <2>2, <4>2, <4>3, <4>4, <4>5
    <3> QED BY <3>1, <3>2
  <2> QED BY <2>3, <2>4
<1> HIDE DEF Q
<1>4. SUBSET S \subseteq Q
  BY <1>2, <1>3, SetInduction
<1> QED BY <1>4 DEF Q

LEMMA SumOfAdded ==
  ASSUME NEW D, NEW f \in [D -> Int], NEW S \in SUBSET D, IsFiniteSet(S), NEW x \in D, x \notin S
  PROVE  SumOf(f, S \cup {x}) = f[x] + SumOf(f, S)
<1>1. IsFiniteSet(S \cup {x}) /\ S \cup {x} \in SUBSET D
  BY FS_AddElement
<1>2. (S \cup {x}) \ {x} = S
  OBVIOUS
<1> QED BY <1>1, <1>2, SumOfMember

\* A part sums up to no more than the whole.
LEMMA SumOfPart ==
  ASSUME NEW D, NEW f \in [D -> Nat], NEW S \in SUBSET D, IsFiniteSet(S), NEW T \in SUBSET S
  PROVE  SumOf(f, T) =< SumOf(f, S)
<1> DEFINE Q == {s \in SUBSET S : \A t \in SUBSET s : SumOf(f, t) =< SumOf(f, s)}
<1>1. \A s \in SUBSET S : IsFiniteSet(s) /\ SumOf(f, s) \in Nat
  BY FS_Subset, SumOfNat
<1>2. {} \in Q
  <2>1. \A t \in SUBSET {} : t = {}
    OBVIOUS
  <2>2. SumOf(f, {}) \in Nat /\ {} \in SUBSET S
    BY <1>1
  <2> QED BY <2>1, <2>2
<1>3. ASSUME NEW s \in SUBSET S, s # {}, \A x \in s : s \ {x} \in Q PROVE s \in Q
  <2> SUFFICES ASSUME NEW t \in SUBSET s PROVE SumOf(f, t) =< SumOf(f, s)
    OBVIOUS
  <2>1. CASE t = s
    BY <1>1, <2>1
  <2>2. CASE t # s
    <3>1. PICK x \in s : x \notin t
      BY <2>2
    <3>2. t \in SUBSET (s \ {x})
      BY <3>1
    <3>3. SumOf(f, t) =< SumOf(f, s \ {x})
      BY <1>3, <3>2
    <3>4. SumOf(f, s) = f[x] + SumOf(f, s \ {x})
      BY <1>1, SumOfMember
    <3>5. /\ SumOf(f, t) \in Nat /\ SumOf(f, s) \in Nat /\ SumOf(f, s \ {x}) \in Nat
          /\ f[x] \in Nat
      BY <1>1
    <3> QED BY <3>3, <3>4, <3>5
  <2> QED BY <2>1, <2>2
<1> HIDE DEF Q
<1>4. SUBSET S \subseteq Q
  BY <1>2, <1>3, SetInduction
<1> QED BY <1>4 DEF Q

\* Only what is summed counts.
LEMMA SumOfAlike ==
  ASSUME NEW D, NEW f \in [D -> Int], NEW E, NEW g \in [E -> Int],
         NEW S \in SUBSET D, S \in SUBSET E, IsFiniteSet(S), \A x \in S : f[x] = g[x]
  PROVE  SumOf(f, S) = SumOf(g, S)
<1> DEFINE Q == {s \in SUBSET S : SumOf(f, s) = SumOf(g, s)}
<1>1. {} \in Q
  BY SumOfEmpty
<1>2. ASSUME NEW s \in SUBSET S, s # {}, \A x \in s : s \ {x} \in Q PROVE s \in Q
  <2>1. PICK x \in s : TRUE
    BY <1>2
  <2>2. IsFiniteSet(s)
    BY FS_Subset
  <2>3. SumOf(f, s) = f[x] + SumOf(f, s \ {x}) /\ SumOf(g, s) = g[x] + SumOf(g, s \ {x})
    BY <2>2, SumOfMember
  <2>4. SumOf(f, s \ {x}) = SumOf(g, s \ {x}) /\ f[x] = g[x]
    BY <1>2
  <2> QED BY <2>3, <2>4
<1> HIDE DEF Q
<1>3. SUBSET S \subseteq Q
  BY <1>1, <1>2, SetInduction
<1> QED BY <1>3 DEF Q

LEMMA SumOfSame ==
  ASSUME NEW D, NEW f \in [D -> Int], NEW g \in [D -> Int], NEW S \in SUBSET D, IsFiniteSet(S),
         \A x \in S : f[x] = g[x]
  PROVE  SumOf(f, S) = SumOf(g, S)
BY SumOfAlike

\* A summand outside the set may change freely.
LEMMA SumOfExcept ==
  ASSUME NEW D, NEW f \in [D -> Int], NEW S \in SUBSET D, IsFiniteSet(S),
         NEW x \in D, x \notin S, NEW v \in Int
  PROVE  SumOf([f EXCEPT ![x] = v], S) = SumOf(f, S)
<1> DEFINE g == [f EXCEPT ![x] = v]
<1>1. g \in [D -> Int] /\ \A y \in S : f[y] = g[y]
  OBVIOUS
<1> HIDE DEF g
<1>2. SumOf(f, S) = SumOf(g, S)
  BY <1>1, SumOfSame
<1> QED BY <1>2 DEF g
----------------------------------------------------------------------------
(* Ranks *)

\* How many members of E come up to e, by their keys.
UpTo(E, key, e) == {d \in E : key[d] =< key[e]}
RankIn(E, key, e) == Cardinality(UpTo(E, key, e))

\* Members of a finite set with different keys are numbered by their ranks, in
\* the order of their keys and without a gap.
LEMMA Ranks ==
  ASSUME NEW E, IsFiniteSet(E), NEW key \in [E -> Int],
         \A d, e \in E : key[d] = key[e] => d = e
  PROVE  /\ \A e \in E : RankIn(E, key, e) \in 1..Cardinality(E)
         /\ \A d, e \in E : key[d] < key[e] => RankIn(E, key, d) < RankIn(E, key, e)
         /\ \A d, e \in E : RankIn(E, key, d) = RankIn(E, key, e) => d = e
         /\ \A i \in 1..Cardinality(E) : \E e \in E : RankIn(E, key, e) = i
<1>1. \A e \in E : UpTo(E, key, e) \in SUBSET E /\ e \in UpTo(E, key, e)
  BY DEF UpTo
<1>2. Cardinality(E) \in Nat /\ \A T \in SUBSET E :
        IsFiniteSet(T) /\ Cardinality(T) \in Nat /\ Cardinality(T) =< Cardinality(E)
  BY FS_Subset, FS_CardinalityType
<1>3. ASSUME NEW e \in E PROVE RankIn(E, key, e) \in 1..Cardinality(E)
  <2>1. UpTo(E, key, e) # {} /\ UpTo(E, key, e) \in SUBSET E
    BY <1>1
  <2>2. RankIn(E, key, e) # 0
    BY <1>2, <2>1, FS_EmptySet DEF RankIn
  <2> QED BY <1>2, <2>1, <2>2 DEF RankIn
<1>4. ASSUME NEW d \in E, NEW e \in E, key[d] < key[e]
      PROVE  RankIn(E, key, d) < RankIn(E, key, e)
  <2>1. UpTo(E, key, d) \in SUBSET UpTo(E, key, e)
    BY <1>4 DEF UpTo
  <2>2. e \notin UpTo(E, key, d)
    BY <1>4 DEF UpTo
  <2>3. UpTo(E, key, d) # UpTo(E, key, e)
    BY <1>1, <2>2
  <2>4. IsFiniteSet(UpTo(E, key, e))
    BY <1>1, <1>2
  <2>5. RankIn(E, key, d) =< RankIn(E, key, e) /\ RankIn(E, key, d) # RankIn(E, key, e)
    BY <2>1, <2>3, <2>4, FS_Subset DEF RankIn
  <2> QED BY <1>3, <2>5
<1>5. ASSUME NEW d \in E, NEW e \in E, RankIn(E, key, d) = RankIn(E, key, e) PROVE d = e
  <2>1. ~(key[d] < key[e]) /\ ~(key[e] < key[d])
    BY <1>3, <1>4, <1>5
  <2> QED BY <2>1
<1>6. ASSUME NEW i \in 1..Cardinality(E) PROVE \E e \in E : RankIn(E, key, e) = i
  <2> DEFINE n == Cardinality(E)
             r == [e \in E |-> RankIn(E, key, e)]
  <2>1. r \in Injection(E, 1..n)
    BY <1>3, <1>5 DEF Injection, IsInjective
  <2>2. IsFiniteSet(1..n) /\ Cardinality(1..n) = n
    BY <1>2, FS_Interval
  <2>3. r \in Surjection(E, 1..n)
    BY <2>1, <2>2, FS_Injection
  <2> QED BY <2>3 DEF Surjection
<1> QED BY <1>3, <1>4, <1>5, <1>6
----------------------------------------------------------------------------
(* Queues *)

Once(s) == \A i, j \in 1..Len(s) : s[i] = s[j] => i = j
Occurs(c, s) == \E i \in 1..Len(s) : s[i] = c

LEMMA OnceJoined ==
  ASSUME NEW S, NEW s \in Seq(S), Once(s), NEW b \in S, ~Occurs(b, s)
  PROVE  LET t == Append(s, b) IN
         /\ t \in Seq(S) /\ t # <<>> /\ Once(t)
         /\ \A c : Occurs(c, t) <=> (c = b \/ Occurs(c, s))
<1> DEFINE t == Append(s, b)
           n == Len(s)
<1>1. /\ t \in Seq(S) /\ n \in Nat /\ Len(t) = n + 1
      /\ \A i \in 1..n : t[i] = s[i]
      /\ t[n + 1] = b
  BY AppendProperties, LenProperties
<1>2. /\ \A i, j \in 1..n : s[i] = s[j] => i = j
      /\ \A i \in 1..n : s[i] # b
      /\ \A c : Occurs(c, s) <=> \E i \in 1..n : s[i] = c
  BY DEF Once, Occurs
<1>3. t # <<>>
  BY <1>1, EmptySeq
<1> HIDE DEF t, n
<1>4. Once(t)
  BY <1>1, <1>2 DEF Once
<1>5. ASSUME NEW c PROVE Occurs(c, t) <=> (c = b \/ Occurs(c, s))
  <2>1. ASSUME NEW i \in 1..n, s[i] = c PROVE i \in 1..(n + 1) /\ t[i] = c
    BY <1>1, <2>1
  <2>2. ASSUME NEW i \in 1..(n + 1), t[i] = c, c # b PROVE i \in 1..n /\ s[i] = c
    BY <1>1, <2>2
  <2>3. n + 1 \in 1..(n + 1)
    BY <1>1
  <2>4. Occurs(c, t) <=> \E i \in 1..(n + 1) : t[i] = c
    BY <1>1 DEF Occurs
  <2> QED BY <1>1, <1>2, <2>1, <2>2, <2>3, <2>4
<1> QED BY <1>1, <1>3, <1>4, <1>5 DEF t

LEMMA HeadAndTail ==
  ASSUME NEW S, NEW s \in Seq(S), s # <<>>
  PROVE  /\ Len(s) \in Nat \ {0} /\ Head(s) = s[1] /\ Head(s) \in S
         /\ Tail(s) \in Seq(S) /\ Len(Tail(s)) = Len(s) - 1
         /\ \A i \in 1..(Len(s) - 1) : Tail(s)[i] = s[i + 1]
<1>1. Len(s) \in Nat \ {0}
  BY EmptySeq, LenProperties
<1>2. /\ Tail(s) \in Seq(S) /\ Len(Tail(s)) = Len(s) - 1
      /\ \A i \in 1..(Len(s) - 1) : Tail(s)[i] = s[i + 1]
  BY HeadTailProperties
<1>3. Head(s) = s[1] /\ s[1] \in S
  BY <1>1, ElementOfSeq
<1> QED BY <1>1, <1>2, <1>3

\* Without its head, a sequence of different members has the others, and the same last one.
LEMMA OnceLeft ==
  ASSUME NEW S, NEW s \in Seq(S), s # <<>>, Once(s)
  PROVE  LET t == Tail(s) IN
         /\ t \in Seq(S) /\ Once(t) /\ ~Occurs(Head(s), t)
         /\ \A c : Occurs(c, s) <=> (c = Head(s) \/ Occurs(c, t))
         /\ t = <<>> => s[Len(s)] = Head(s)
         /\ t # <<>> => t[Len(t)] = s[Len(s)] /\ s[Len(s)] # Head(s) /\ s[Len(s)] \in S
<1> DEFINE t == Tail(s)
           n == Len(s)
           h == Head(s)
<1>1. /\ t \in Seq(S) /\ n \in Nat \ {0} /\ h = s[1] /\ Len(t) = n - 1
      /\ \A i \in 1..(n - 1) : t[i] = s[i + 1]
  BY HeadAndTail
<1>2. /\ \A i, j \in 1..n : s[i] = s[j] => i = j
      /\ \A c : Occurs(c, s) <=> \E i \in 1..n : s[i] = c
  BY DEF Once, Occurs
<1>3. t = <<>> <=> Len(t) = 0
  BY <1>1, EmptySeq
<1>4. \A i \in 1..n : s[i] \in S
  BY ElementOfSeq
<1> HIDE DEF t, n, h
<1>5. \A i \in 1..(n - 1) : i + 1 \in 1..n /\ t[i] = s[i + 1] /\ t[i] # h
  BY <1>1, <1>2
<1>6. Once(t)
  <2> SUFFICES ASSUME NEW i \in 1..(n - 1), NEW j \in 1..(n - 1), t[i] = t[j] PROVE i = j
    BY <1>1 DEF Once
  <2>1. i + 1 = j + 1
    BY <1>2, <1>5
  <2> QED BY <2>1
<1>7. ~Occurs(h, t)
  BY <1>1, <1>5 DEF Occurs
<1>8. ASSUME NEW c PROVE Occurs(c, s) <=> (c = h \/ Occurs(c, t))
  <2>1. ASSUME NEW i \in 1..n, s[i] = c, c # h PROVE Occurs(c, t)
    <3>1. i - 1 \in 1..(n - 1) /\ (i - 1) + 1 = i
      BY <1>1, <2>1
    <3>2. t[i - 1] = c
      BY <1>1, <2>1, <3>1
    <3> QED BY <1>1, <3>1, <3>2 DEF Occurs
  <2>2. ASSUME Occurs(c, t) PROVE \E i \in 1..n : s[i] = c
    BY <1>1, <1>5, <2>2 DEF Occurs
  <2>3. \E i \in 1..n : s[i] = h
    <3>1. 1 \in 1..n
      BY <1>1
    <3> QED BY <1>1, <3>1
  <2> QED BY <1>2, <2>1, <2>2, <2>3
<1>9. t = <<>> => s[n] = h
  BY <1>1, <1>3
<1>10. ASSUME t # <<>> PROVE t[n - 1] = s[n] /\ s[n] # h /\ s[n] \in S
  <2>1. n - 1 \in 1..(n - 1) /\ (n - 1) + 1 = n
    BY <1>1, <1>3, <1>10
  <2> QED BY <1>1, <1>4, <1>5, <2>1
<1> QED BY <1>1, <1>6, <1>7, <1>8, <1>9, <1>10 DEF t, n, h

\* Who has commits to make takes its turn again, as the last.
LEMMA OnceTurned ==
  ASSUME NEW S, NEW s \in Seq(S), s # <<>>, Once(s)
  PROVE  LET t == Append(Tail(s), Head(s)) IN
         /\ t \in Seq(S) /\ t # <<>> /\ Once(t) /\ t[Len(t)] = Head(s)
         /\ \A c : Occurs(c, t) <=> Occurs(c, s)
<1>1. /\ Tail(s) \in Seq(S) /\ Once(Tail(s)) /\ ~Occurs(Head(s), Tail(s)) /\ Head(s) \in S
      /\ \A c : Occurs(c, s) <=> (c = Head(s) \/ Occurs(c, Tail(s)))
  BY OnceLeft, HeadAndTail
<1> DEFINE t == Append(Tail(s), Head(s))
<1>2. /\ t \in Seq(S) /\ t # <<>> /\ Once(t)
      /\ \A c : Occurs(c, t) <=> (c = Head(s) \/ Occurs(c, Tail(s)))
  BY <1>1, OnceJoined
<1>3. t[Len(t)] = Head(s)
  BY <1>1, AppendProperties
<1> QED BY <1>1, <1>2, <1>3
=============================================================================

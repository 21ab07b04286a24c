---------------------------- MODULE FoldTheorems ----------------------------
(***************************************************************************)
(* Facts about numbers, finite sets, lists and folds that the proofs of    *)
(* several components rest on.                                             *)
(***************************************************************************)
EXTENDS Integers, SequencesExt, FiniteSetTheorems, SequenceTheorems, WellFoundedInduction, TLAPS

-----------------------------------------------------------------------------
(* Numbers, finite sets and lists. *)

\* Numbers that are not none have a least one; up to a bound, a greatest.
LEMMA LeastOfSome ==
  ASSUME NEW T, T \subseteq Nat, T # {}
  PROVE  \E m \in T : \A x \in T : m <= x
<1>1. IsWellFoundedOn({p \in Nat \X Nat : p[1] < p[2]}, Nat)
  BY NatLessThanWellFounded DEF OpToRel
<1>2. PICK m \in T : \A y \in T : ~ (<<y, m>> \in {p \in Nat \X Nat : p[1] < p[2]})
  BY <1>1, WFMin
<1>3. ASSUME NEW y \in T PROVE m <= y
  <2>1. ~(y < m)
    BY <1>2
  <2>2. QED
    BY <2>1
<1>4. QED
  BY <1>3

LEMMA GreatestOfSome ==
  ASSUME NEW T, NEW n \in Nat, T \subseteq 0 .. n, T # {}
  PROVE  \E m \in T : \A x \in T : x <= m
<1> DEFINE U == {u \in 0 .. n : n - u \in T}
<1>1. U \subseteq Nat /\ U # {}
  <2>1. PICK t \in T : TRUE
    OBVIOUS
  <2>2. n - t \in 0 .. n /\ n - (n - t) = t
    BY <2>1
  <2>3. QED
    BY <2>2
<1>2. PICK u \in U : \A x \in U : u <= x
  <2> HIDE DEF U
  <2>1. QED
    BY <1>1, LeastOfSome
<1>3. ASSUME NEW x \in T PROVE x <= n - u
  <2>1. n - x \in 0 .. n /\ n - (n - x) = x
    OBVIOUS
  <2>2. n - x \in U
    BY <2>1
  <2>3. QED
    BY <1>2, <2>2
<1>4. QED
  BY <1>2, <1>3

\* What holds at first and goes on by one holds up to any number.
LEMMA CountUp ==
  ASSUME NEW n \in Nat, NEW good, 0 \in good, \A i \in 1..n : i - 1 \in good => i \in good
  PROVE  \A i \in 0..n : i \in good
<1> SUFFICES ASSUME NEW k \in 0..n, k \notin good PROVE FALSE
  OBVIOUS
<1> DEFINE bad == {i \in 0..n : i \notin good}
<1>1. bad \subseteq Nat /\ k \in bad
  OBVIOUS
<1>2. PICK m \in bad : \A x \in bad : m <= x
  <2> HIDE DEF bad
  <2>1. QED
    BY <1>1, LeastOfSome
<1>3. m \in 1..n /\ m - 1 \in 0..n /\ ~(m <= m - 1)
  BY <1>2
<1>4. m - 1 \in good
  BY <1>2, <1>3
<1>5. QED
  BY <1>2, <1>3, <1>4

\* An image of a finite set is finite.
LEMMA FiniteImage ==
  ASSUME NEW S, IsFiniteSet(S), NEW f, DOMAIN f = S
  PROVE  IsFiniteSet({f[x] : x \in S})
<1> DEFINE T == {f[x] : x \in S}
           g == [x \in S |-> f[x]]
<1>1. g \in Surjection(S, T)
  BY DEF Surjection
<1>2. QED
  BY <1>1, FS_Surjection

\* One element makes a list.
LEMMA OneIsList ==
  ASSUME NEW T, NEW c \in T
  PROVE  <<c>> \in Seq(T)
<1>1. <<c>> \in [1..1 -> T]
  BY SMTT(30)
<1>2. QED
  BY <1>1, SeqDef, SMTT(30)

\* The list of a finite set has its elements and no other.
LEMMA ListOf ==
  ASSUME NEW S, IsFiniteSet(S)
  PROVE  SetToSeq(S) \in Seq(S) /\ ToSet(SetToSeq(S)) = S
<1> DEFINE n == Cardinality(S)
           Lists == {f \in [1..n -> S] : IsInjective(f)}
<1>1. n \in Nat /\ ExistsBijection(1..n, S)
  BY FS_CardinalityType
<1>2. PICK b \in Bijection(1..n, S) : TRUE
  BY <1>1 DEF ExistsBijection
<1>3. b \in [1..n -> S] /\ IsInjective(b)
  BY <1>2 DEF Bijection, Injection
<1>4. SetToSeq(S) \in [1..n -> S] /\ IsInjective(SetToSeq(S))
  BY <1>3 DEF SetToSeq
<1>5. SetToSeq(S) \in Surjection(1..n, S)
  <2>1. SetToSeq(S) \in Injection(1..n, S)
    BY <1>4 DEF Injection
  <2>2. Cardinality(1..n) = n
    BY <1>1, FS_Interval
  <2>3. QED
    BY <1>1, <2>1, <2>2, FS_Injection
<1>6. SetToSeq(S) \in Seq(S)
  BY <1>1, <1>4
<1>7. \A x \in S : \E i \in 1..n : SetToSeq(S)[i] = x
  BY <1>5 DEF Surjection
<1> HIDE DEF n
<1>8. DOMAIN SetToSeq(S) = 1..n /\ \A i \in 1..n : SetToSeq(S)[i] \in S
  BY <1>4
<1>9. ToSet(SetToSeq(S)) = S
  BY <1>7, <1>8 DEF ToSet
<1>10. QED
  BY <1>6, <1>9

\* What one list has, both have together.
LEMMA JoinedHas ==
  ASSUME NEW V, NEW s \in Seq(V), NEW t \in Seq(V)
  PROVE  s \o t \in Seq(V) /\ ToSet(s \o t) = ToSet(s) \cup ToSet(t)
<1>1. /\ s \o t \in Seq(V) /\ Len(s \o t) = Len(s) + Len(t)
      /\ \A i \in 1 .. Len(s) + Len(t) : (s \o t)[i] = IF i <= Len(s) THEN s[i] ELSE t[i - Len(s)]
  BY ConcatProperties
<1>2. /\ Len(s) \in Nat /\ DOMAIN s = 1..Len(s)
      /\ Len(t) \in Nat /\ DOMAIN t = 1..Len(t)
      /\ DOMAIN (s \o t) = 1..Len(s \o t)
  BY <1>1, LenProperties
<1>3. \A x : x \in ToSet(s \o t) => x \in ToSet(s) \cup ToSet(t)
  <2> SUFFICES ASSUME NEW i \in 1 .. Len(s) + Len(t)
               PROVE  (s \o t)[i] \in ToSet(s) \cup ToSet(t)
    BY <1>1, <1>2 DEF ToSet
  <2>1. CASE i <= Len(s)
    BY <1>1, <1>2, <2>1 DEF ToSet
  <2>2. CASE ~(i <= Len(s))
    <3>1. i - Len(s) \in 1..Len(t)
      BY <1>2, <2>2
    <3>2. (s \o t)[i] = t[i - Len(s)]
      BY <1>1, <2>2
    <3>3. QED
      BY <1>2, <3>1, <3>2 DEF ToSet
  <2>3. QED
    BY <2>1, <2>2
<1>4. ASSUME NEW i \in 1..Len(s) PROVE s[i] \in ToSet(s \o t)
  <2>1. i \in 1 .. Len(s) + Len(t) /\ (s \o t)[i] = s[i]
    BY <1>1, <1>2
  <2>2. QED
    BY <1>1, <1>2, <2>1 DEF ToSet
<1>5. ASSUME NEW i \in 1..Len(t) PROVE t[i] \in ToSet(s \o t)
  <2>1. i + Len(s) \in 1 .. Len(s) + Len(t) /\ (i + Len(s)) - Len(s) = i /\ ~(i + Len(s) <= Len(s))
    BY <1>2
  <2>2. (s \o t)[i + Len(s)] = t[i]
    BY <1>1, <2>1
  <2>3. QED
    BY <1>1, <1>2, <2>1, <2>2 DEF ToSet
<1>6. \A x : x \in ToSet(s) \cup ToSet(t) => x \in ToSet(s \o t)
  BY <1>2, <1>4, <1>5 DEF ToSet
<1>7. QED
  BY <1>1, <1>3, <1>6

-----------------------------------------------------------------------------
(* A fold over a list is the last of a row of values, each obtained from   *)
(* the one before and one element.  FoldLeft is defined by a function on   *)
(* all sets of places; that it exists is shown place by place, and the row *)
(* is its values on the initial segments.                                  *)

\* g folds step over the prefixes of a list of n elements, starting from base.
Folds(g, n, base, step) ==
  \A s \in SUBSET (1..n) :
    g[s] = IF s = {} THEN base ELSE step[<<Max(s), g[s \ {Max(s)}]>>]

FoldExists(n, T, base, step) ==
  \E g \in [SUBSET (1..n) -> T] : Folds(g, n, base, step)

LEMMA MaxOfInitial ==
  ASSUME NEW m \in Nat, NEW s \in SUBSET (1..(m + 1)), m + 1 \in s
  PROVE  Max(s) = m + 1
<1>1. \A y \in s : m + 1 >= y
  OBVIOUS
<1>2. \A x \in s : (\A y \in s : x >= y) => x = m + 1
  OBVIOUS
<1>3. QED
  BY <1>1, <1>2 DEF Max

LEMMA MaxInside ==
  ASSUME NEW m \in Nat, NEW s \in SUBSET (1..m), s # {}
  PROVE  Max(s) \in s
<1> DEFINE T == {t \in Nat : \A x \in s : x <= t}
<1>1. T \subseteq Nat /\ m \in T
  OBVIOUS
<1>2. PICK t \in T : \A x \in T : t <= x
  <2> HIDE DEF T
  <2>1. QED
    BY <1>1, LeastOfSome
<1>3. t \in s
  <2> SUFFICES ASSUME t \notin s PROVE FALSE
    OBVIOUS
  <2>1. \A x \in s : x \in Nat /\ x <= t /\ x # t
    BY <1>2
  <2>2. t \in Nat /\ t # 0
    <3>1. PICK x \in s : TRUE
      OBVIOUS
    <3>2. t \in Nat
      OBVIOUS
    <3>3. QED
      BY <2>1, <3>1, <3>2
  <2>3. t - 1 \in Nat /\ \A x \in s : x <= t - 1
    BY <1>2, <2>1, <2>2
  <2>4. t - 1 \in T /\ ~(t <= t - 1)
    BY <2>3
  <2>5. QED
    BY <1>2, <2>4
<1>4. \A y \in s : t >= y
  BY <1>2
<1>5. QED
  BY <1>3, <1>4 DEF Max

LEMMA FoldGrows ==
  ASSUME NEW n \in Nat, NEW m \in 0..(n - 1), NEW T, NEW base \in T,
         NEW step \in [(1..n) \X T -> T], FoldExists(m, T, base, step)
  PROVE  FoldExists(m + 1, T, base, step)
<1>1. PICK g \in [SUBSET (1..m) -> T] : Folds(g, m, base, step)
  BY DEF FoldExists
<1> DEFINE f == [s \in SUBSET (1..(m + 1)) |->
                   IF s \in SUBSET (1..m) THEN g[s] ELSE step[<<m + 1, g[s \ {m + 1}]>>]]
<1>2. ASSUME NEW s \in SUBSET (1..(m + 1)), s \notin SUBSET (1..m)
      PROVE  /\ m + 1 \in s /\ s \ {m + 1} \in SUBSET (1..m)
             /\ Max(s) = m + 1
  <2>1. m + 1 \in s /\ s \ {m + 1} \in SUBSET (1..m)
    BY <1>2
  <2>2. QED
    BY <2>1, MaxOfInitial
<1>3. f \in [SUBSET (1..(m + 1)) -> T]
  <2>1. ASSUME NEW s \in SUBSET (1..(m + 1)) PROVE f[s] \in T
    <3>1. CASE s \in SUBSET (1..m)
      BY <3>1
    <3>2. CASE s \notin SUBSET (1..m)
      <4>1. g[s \ {m + 1}] \in T
        BY <1>2, <3>2
      <4>2. <<m + 1, g[s \ {m + 1}]>> \in (1..n) \X T
        BY <4>1
      <4>3. QED
        BY <3>2, <4>2
    <3>3. QED
      BY <3>1, <3>2
  <2>2. QED
    BY <2>1
<1>4. ASSUME NEW s \in SUBSET (1..(m + 1))
      PROVE  f[s] = IF s = {} THEN base ELSE step[<<Max(s), f[s \ {Max(s)}]>>]
  <2>1. CASE s \in SUBSET (1..m)
    <3>1. g[s] = IF s = {} THEN base ELSE step[<<Max(s), g[s \ {Max(s)}]>>]
      BY <1>1, <2>1 DEF Folds
    <3>2. s \ {Max(s)} \in SUBSET (1..m) /\ s \ {Max(s)} \in SUBSET (1..(m + 1))
      BY <2>1
    <3>3. f[s] = g[s] /\ f[s \ {Max(s)}] = g[s \ {Max(s)}]
      BY <2>1, <3>2
    <3>4. QED
      BY <3>1, <3>3
  <2>2. CASE s \notin SUBSET (1..m)
    <3>1. m + 1 \in s /\ s \ {m + 1} \in SUBSET (1..m) /\ Max(s) = m + 1
      BY <1>2, <2>2
    <3>2. f[s] = step[<<m + 1, g[s \ {m + 1}]>>] /\ f[s \ {m + 1}] = g[s \ {m + 1}]
      BY <2>2, <3>1
    <3>3. QED
      BY <3>1, <3>2
  <2>3. QED
    BY <2>1, <2>2
<1> HIDE DEF f
<1>5. QED
  BY <1>3, <1>4 DEF FoldExists, Folds

\* A fold over a list is defined: there is a function that satisfies its equation.
LEMMA FoldAlwaysExists ==
  ASSUME NEW n \in Nat, NEW T, NEW base \in T, NEW step \in [(1..n) \X T -> T]
  PROVE  FoldExists(n, T, base, step)
<1> SUFFICES ASSUME ~FoldExists(n, T, base, step) PROVE FALSE
  OBVIOUS
<1> DEFINE bad == {m \in 0..n : ~FoldExists(m, T, base, step)}
<1>1. bad \subseteq Nat /\ n \in bad
  OBVIOUS
<1>2. PICK m \in bad : \A x \in bad : m <= x
  <2> HIDE DEF bad
  <2>1. QED
    BY <1>1, LeastOfSome
<1>3. m # 0
  <2> DEFINE g == [s \in SUBSET (1..0) |-> base]
  <2>1. g \in [SUBSET (1..0) -> T] /\ Folds(g, 0, base, step)
    BY DEF Folds
  <2> HIDE DEF g
  <2>2. FoldExists(0, T, base, step)
    BY <2>1 DEF FoldExists
  <2>3. QED
    BY <1>2, <2>2
<1>4. m - 1 \in 0..(n - 1) /\ m - 1 \notin bad /\ (m - 1) + 1 = m
  BY <1>2, <1>3
<1>5. FoldExists(m - 1, T, base, step)
  BY <1>4
<1>6. FoldExists(m, T, base, step)
  BY <1>4, <1>5, FoldGrows
<1>7. QED
  BY <1>2, <1>6

\* The prefixes of a list, the last element of each taken off.
LEMMA PrefixSteps ==
  ASSUME NEW n \in Nat, NEW i \in 1..n
  PROVE  /\ 1..i \in SUBSET (1..n) /\ 1..i # {}
         /\ Max(1..i) = i /\ (1..i) \ {Max(1..i)} = 1..(i - 1)
         /\ 1..(i - 1) \in SUBSET (1..n)
<1>1. i - 1 \in Nat /\ (i - 1) + 1 = i /\ 1..i \in SUBSET (1..i) /\ i \in 1..i
  OBVIOUS
<1>2. Max(1..i) = i
  BY <1>1, MaxOfInitial
<1>3. (1..i) \ {i} = 1..(i - 1)
  OBVIOUS
<1>4. QED
  BY <1>2, <1>3

=============================================================================

--------------------------------- MODULE Totals --------------------------------
(***************************************************************************)
(* What the tasks of a pipe carry together.  MapThenSumSet() over a finite *)
(* set of tasks, of which the proofs need that it does not depend on the   *)
(* order in which the elements are chosen; FlattenSeq() of their bytes,    *)
(* which lists a set in order.  The induction goes over the elements of a  *)
(* set, as tlapm cannot instantiate a predicate: the natural numbers, or   *)
(* the subsets, that have the property in question.                        *)
(***************************************************************************)
EXTENDS Integers, FiniteSetsExt, SequencesExt, FiniteSetTheorems, SequenceTheorems,
        WellFoundedInduction, TLAPS

(* The bytes of a task, and of a set of tasks. *)
Amount(ts, t) == ts[t].to - ts[t].from

Total(ts, S) == MapThenSumSet(LAMBDA t : ts[t].to - ts[t].from, S)

--------------------------------------------------------------------------------
(* Induction *)

(* A set of natural numbers has a least element. *)
LEMMA LeastNatural ==
    ASSUME NEW S \in SUBSET Nat, S # {}
    PROVE  \E m \in S : \A k \in S : m <= k
<1> DEFINE R == OpToRel(<, Nat)
<1>1. IsWellFoundedOn(R, Nat)
  BY NatLessThanWellFounded
<1>2. \A x, y \in Nat : <<y, x>> \in R <=> y < x
  BY DEF OpToRel
<1> HIDE DEF R
<1>3. PICK m \in S : \A k \in S : ~(<<k, m>> \in R)
  BY <1>1, WFMin
<1>4. \A k \in S : k \in Nat /\ m \in Nat /\ ~(k < m)
  BY <1>2, <1>3
<1>5. \A k \in S : m <= k
  BY <1>4
<1> QED BY <1>5

(* Mathematical induction, for the set of the numbers that have a property. *)
LEMMA NaturalInduction ==
    ASSUME NEW S, 0 \in S, \A n \in Nat : n \in S => n + 1 \in S
    PROVE  Nat \subseteq S
<1> SUFFICES ASSUME Nat \ S # {} PROVE FALSE
  OBVIOUS
<1>1. PICK m \in Nat \ S : \A k \in Nat \ S : m <= k
  BY LeastNatural
<1>2. m # 0 /\ m - 1 \in Nat /\ m - 1 \in S
  BY <1>1
<1> QED BY <1>1, <1>2

--------------------------------------------------------------------------------
(* Sums *)

(* The element that MapThenFoldSet() adds next. *)
Chosen(S) == CHOOSE x \in S : TRUE

(* What the sum of the set s is, given the sums g of smaller sets. *)
NextSum(ts, g, s) == IF s = {} THEN 0 ELSE Amount(ts, Chosen(s)) + g[s \ {Chosen(s)}]

(* g has the sums of the subsets of S. *)
Sums(g, ts, S) == \A s \in SUBSET S : g[s] = NextSum(ts, g, s)

Counts(ts, S) == IsFiniteSet(S) /\ \A t \in S : Amount(ts, t) \in Nat

SameAmounts(ts, us, S) == \A t \in S : Amount(ts, t) = Amount(us, t)

Parts(S, n) == {s \in SUBSET S : Cardinality(s) <= n}

LEMMA PartsFacts ==
    ASSUME NEW S, IsFiniteSet(S)
    PROVE  /\ \A s \in SUBSET S : IsFiniteSet(s) /\ Cardinality(s) \in Nat
           /\ \A s \in SUBSET S : s # {} =>
                 /\ Chosen(s) \in s /\ s \ {Chosen(s)} \in SUBSET S
                 /\ Cardinality(s) # 0
           /\ \A s \in SUBSET S : \A x \in s : Cardinality(s \ {x}) = Cardinality(s) - 1
<1>1. \A s \in SUBSET S : IsFiniteSet(s) /\ Cardinality(s) \in Nat
  BY FS_Subset, FS_CardinalityType
<1>2. \A s \in SUBSET S : s # {} => Chosen(s) \in s /\ Cardinality(s) # 0
  BY <1>1, FS_EmptySet DEF Chosen
<1>3. \A s \in SUBSET S : \A x \in s : Cardinality(s \ {x}) = Cardinality(s) - 1
  BY <1>1, FS_RemoveElement
<1> QED BY <1>1, <1>2, <1>3

(* There is a function that computes the sums. *)
LEMMA SumsExist ==
    ASSUME NEW S, NEW ts, Counts(ts, S)
    PROVE  \E g \in [SUBSET S -> Nat] : Sums(g, ts, S) /\ g = [s \in SUBSET S |-> NextSum(ts, g, s)]
<1>0. IsFiniteSet(S) /\ \A t \in S : Amount(ts, t) \in Nat
  BY DEF Counts
<1> DEFINE Good == {n \in Nat : \E g \in [Parts(S, n) -> Nat] :
                                   \A s \in Parts(S, n) : g[s] = NextSum(ts, g, s)}
<1>1. 0 \in Good
  <2>1. \A s \in Parts(S, 0) : s = {}
    BY <1>0, PartsFacts DEF Parts
  <2>2. PICK g : g = [s \in Parts(S, 0) |-> 0]
    OBVIOUS
  <2>3. g \in [Parts(S, 0) -> Nat] /\ \A s \in Parts(S, 0) : g[s] = NextSum(ts, g, s)
    BY <2>1, <2>2 DEF NextSum
  <2> QED BY <2>3
<1>2. ASSUME NEW n \in Nat, n \in Good PROVE n + 1 \in Good
  <2>1. PICK g \in [Parts(S, n) -> Nat] : \A s \in Parts(S, n) : g[s] = NextSum(ts, g, s)
    BY <1>2
  <2>2. PICK h : h = [s \in Parts(S, n + 1) |-> NextSum(ts, g, s)]
    OBVIOUS
  <2>3. \A s \in Parts(S, n) : s \in Parts(S, n + 1) /\ h[s] = g[s]
    <3>1. \A s \in Parts(S, n) : s \in Parts(S, n + 1)
      BY <1>0, PartsFacts DEF Parts
    <3> QED BY <2>1, <2>2, <3>1
  <2>4. ASSUME NEW s \in Parts(S, n + 1)
        PROVE  h[s] \in Nat /\ h[s] = NextSum(ts, h, s)
    <3>1. h[s] = NextSum(ts, g, s)
      BY <2>2
    <3>2. CASE s = {}
      BY <3>1, <3>2 DEF NextSum
    <3>3. CASE s # {}
      <4>1. PICK x \in s : x = Chosen(s) /\ s \in SUBSET S
        BY <1>0, <3>3, PartsFacts DEF Parts
      <4>2. s \ {x} \in Parts(S, n)
        BY <1>0, <2>4, <4>1, PartsFacts DEF Parts
      <4>3. Amount(ts, x) \in Nat /\ g[s \ {x}] \in Nat /\ g[s \ {x}] = h[s \ {x}]
        BY <1>0, <2>1, <2>3, <4>1, <4>2
      <4> QED BY <3>1, <3>3, <4>1, <4>3 DEF NextSum
    <3> QED BY <3>2, <3>3
  <2>5. h \in [Parts(S, n + 1) -> Nat]
    BY <2>2, <2>4
  <2> QED BY <2>4, <2>5
<1>3. Nat \subseteq Good
  <2> HIDE DEF Good
  <2> QED BY <1>1, <1>2, NaturalInduction
<1>4. PICK n \in Nat : n = Cardinality(S)
  BY <1>0, FS_CardinalityType
<1>5. Parts(S, n) = SUBSET S
  BY <1>4, <1>0, FS_Subset, PartsFacts DEF Parts
<1>6. PICK g \in [Parts(S, n) -> Nat] : \A s \in Parts(S, n) : g[s] = NextSum(ts, g, s)
  BY <1>3
<1>7. g = [s \in SUBSET S |-> NextSum(ts, g, s)]
  BY <1>5, <1>6
<1> QED BY <1>5, <1>6, <1>7 DEF Sums

(* The sum is what such a function says of the whole set. *)
LEMMA TotalSums ==
    ASSUME NEW S, NEW ts, Counts(ts, S)
    PROVE  \E g : Sums(g, ts, S) /\ Total(ts, S) = g[S]
<1>1. PICK g : g = CHOOSE iter : iter = [s \in SUBSET S |-> NextSum(ts, iter, s)]
  OBVIOUS
<1>2. g = [s \in SUBSET S |-> NextSum(ts, g, s)]
  BY <1>1, SumsExist
<1>3. Total(ts, S) = g[S]
  BY <1>1 DEF Total, MapThenSumSet, MapThenFoldSet, Chosen, NextSum, Amount
<1>4. Sums(g, ts, S)
  BY <1>2 DEF Sums
<1> QED BY <1>3, <1>4

(* Sums depend on nothing but the amounts. *)
LEMMA SumsAgree ==
    ASSUME NEW T, IsFiniteSet(T), NEW g, NEW h, NEW ts, NEW us,
           Sums(g, ts, T), Sums(h, us, T), SameAmounts(ts, us, T)
    PROVE  g[T] = h[T]
<1> DEFINE Good == {n \in Nat : \A s \in SUBSET T : Cardinality(s) = n => g[s] = h[s]}
<1>0. IsFiniteSet(T) /\ Cardinality(T) \in Nat
  BY FS_CardinalityType
<1>1. 0 \in Good
  <2>1. \A s \in SUBSET T : Cardinality(s) = 0 => s = {}
    BY <1>0, PartsFacts
  <2> QED BY <2>1 DEF NextSum, Sums
<1>2. ASSUME NEW n \in Nat, n \in Good PROVE n + 1 \in Good
  <2> SUFFICES ASSUME NEW s \in SUBSET T, Cardinality(s) = n + 1 PROVE g[s] = h[s]
    OBVIOUS
  <2>1. s # {}
    BY FS_EmptySet
  <2>2. PICK x \in s : x = Chosen(s)
    BY <1>0, <2>1, PartsFacts
  <2>3. s \ {x} \in SUBSET T /\ Cardinality(s \ {x}) = n
    BY <1>0, PartsFacts
  <2>4. g[s \ {x}] = h[s \ {x}]
    BY <1>2, <2>3
  <2> QED BY <2>1, <2>2, <2>4 DEF NextSum, Sums, SameAmounts
<1>3. Nat \subseteq Good
  <2> HIDE DEF Good
  <2> QED BY <1>1, <1>2, NaturalInduction
<1> QED BY <1>0, <1>3

(* Any element may be added last. *)
LEMMA SumsSplit ==
    ASSUME NEW S, NEW g \in [SUBSET S -> Nat], NEW ts, Counts(ts, S), Sums(g, ts, S)
    PROVE  \A s \in SUBSET S : \A x \in s : g[s] = Amount(ts, x) + g[s \ {x}]
<1>0. IsFiniteSet(S) /\ \A t \in S : Amount(ts, t) \in Nat
  BY DEF Counts
<1> DEFINE Good == {n \in Nat : \A s \in SUBSET S : Cardinality(s) = n =>
                                    \A x \in s : g[s] = Amount(ts, x) + g[s \ {x}]}
<1>1. 0 \in Good
  <2>1. \A s \in SUBSET S : Cardinality(s) = 0 => s = {}
    BY <1>0, PartsFacts
  <2> QED BY <2>1
<1>2. ASSUME NEW n \in Nat, n \in Good PROVE n + 1 \in Good
  <2> SUFFICES ASSUME NEW s \in SUBSET S, Cardinality(s) = n + 1, NEW x \in s
               PROVE  g[s] = Amount(ts, x) + g[s \ {x}]
    OBVIOUS
  <2>1. PICK c \in s : c = Chosen(s)
    BY <1>0, PartsFacts
  <2>2. g[s] = Amount(ts, c) + g[s \ {c}]
    BY <2>1 DEF NextSum, Sums
  <2>3. CASE x = c
    BY <2>2, <2>3
  <2>4. CASE x # c
    <3>0. \A y \in s : s \ {y} \in SUBSET S /\ Cardinality(s \ {y}) = n
      BY <1>0, PartsFacts
    <3>1. /\ s \ {c} \in SUBSET S /\ Cardinality(s \ {c}) = n /\ x \in s \ {c}
          /\ s \ {x} \in SUBSET S /\ Cardinality(s \ {x}) = n /\ c \in s \ {x}
      BY <2>4, <3>0
    <3>2. /\ g[s \ {c}] = Amount(ts, x) + g[(s \ {c}) \ {x}]
          /\ g[s \ {x}] = Amount(ts, c) + g[(s \ {x}) \ {c}]
      BY <1>2, <3>1
    <3>3. (s \ {c}) \ {x} = (s \ {x}) \ {c} /\ (s \ {x}) \ {c} \in SUBSET S
      OBVIOUS
    <3>6. g[(s \ {x}) \ {c}] \in Nat
      BY <3>3
    <3>7. Amount(ts, x) \in Nat /\ Amount(ts, c) \in Nat
      BY <1>0
    <3> SUFFICES ASSUME NEW r \in Nat, r = g[(s \ {x}) \ {c}], NEW a \in Nat, a = Amount(ts, x),
                        NEW b \in Nat, b = Amount(ts, c)
                 PROVE  g[s] = Amount(ts, x) + g[s \ {x}]
      BY <3>6, <3>7
    <3>4. g[s \ {c}] = a + r /\ g[s \ {x}] = b + r /\ g[s] = b + g[s \ {c}]
      BY <2>2, <3>2, <3>3
    <3>5. g[s] = a + g[s \ {x}]
      BY ONLY <3>4, a \in Nat, b \in Nat, r \in Nat
    <3> QED BY <3>5
  <2> QED BY <2>3, <2>4
<1>3. Nat \subseteq Good
  <2> HIDE DEF Good
  <2> QED BY <1>1, <1>2, NaturalInduction
<1> SUFFICES ASSUME NEW s \in SUBSET S PROVE \A x \in s : g[s] = Amount(ts, x) + g[s \ {x}]
  OBVIOUS
<1>4. Cardinality(s) \in Good
  BY <1>0, <1>3, PartsFacts
<1> QED BY <1>4

--------------------------------------------------------------------------------
(* Totals *)

LEMMA TotalFacts ==
    ASSUME NEW S, NEW ts, Counts(ts, S)
    PROVE  /\ Total(ts, S) \in Nat
           /\ S = {} => Total(ts, S) = 0
           /\ \A x \in S : Total(ts, S) = Amount(ts, x) + Total(ts, S \ {x})
<1>0. IsFiniteSet(S)
  BY DEF Counts
<1>1. PICK g : Sums(g, ts, S) /\ Total(ts, S) = g[S]
  BY TotalSums
<1>2. PICK h \in [SUBSET S -> Nat] : Sums(h, ts, S)
  BY SumsExist
<1>3. \A T : SameAmounts(ts, ts, T)
  BY DEF SameAmounts
<1>4. Total(ts, S) = h[S]
  BY <1>0, <1>1, <1>2, <1>3, SumsAgree
<1>5. S = {} => h[S] = 0
  BY <1>2 DEF NextSum, Sums
<1>6. ASSUME NEW x \in S PROVE Total(ts, S) = Amount(ts, x) + Total(ts, S \ {x})
  <2> SUFFICES ASSUME NEW R, R = S \ {x} PROVE Total(ts, S) = Amount(ts, x) + Total(ts, R)
    OBVIOUS
  <2>1. Counts(ts, R)
    BY FS_Subset DEF Counts
  <2>2. PICK k : Sums(k, ts, R) /\ Total(ts, R) = k[R]
    BY <2>1, TotalSums
  <2>3. Sums(h, ts, R) /\ IsFiniteSet(R)
    BY <1>2, <2>1 DEF Sums, Counts
  <2>4. h[R] = k[R]
    BY <1>3, <2>2, <2>3, SumsAgree
  <2>5. h[S] = Amount(ts, x) + h[S \ {x}]
    <3>1. S \in SUBSET S
      OBVIOUS
    <3> QED BY SMTT(30), ZenonT(30), <1>2, <3>1, SumsSplit
  <2> QED BY <1>4, <2>2, <2>4, <2>5
<1>7. h[S] \in Nat
  OBVIOUS
<1> QED BY <1>4, <1>5, <1>6, <1>7

LEMMA TotalSame ==
    ASSUME NEW S, NEW ts, NEW us, Counts(ts, S), SameAmounts(ts, us, S)
    PROVE  Total(us, S) = Total(ts, S)
<1>1. PICK g : Sums(g, ts, S) /\ Total(ts, S) = g[S]
  BY TotalSums
<1>2. Counts(us, S) /\ IsFiniteSet(S)
  BY DEF Counts, SameAmounts
<1>3. PICK h : Sums(h, us, S) /\ Total(us, S) = h[S]
  BY <1>2, TotalSums
<1> QED BY <1>1, <1>2, <1>3, SumsAgree

LEMMA TotalNothing ==
    ASSUME NEW S, IsFiniteSet(S), NEW ts, \A t \in S : Amount(ts, t) = 0
    PROVE  Total(ts, S) = 0
<1>1. Counts(ts, S)
  BY DEF Counts
<1>2. PICK g : Sums(g, ts, S) /\ Total(ts, S) = g[S]
  BY <1>1, TotalSums
<1>3. PICK h : h = [s \in SUBSET S |-> 0]
  OBVIOUS
<1>4. Sums(h, ts, S)
  BY <1>3, PartsFacts DEF NextSum, Sums
<1>5. SameAmounts(ts, ts, S)
  BY DEF SameAmounts
<1>6. g[S] = h[S]
  BY <1>2, <1>4, <1>5, SumsAgree
<1> QED BY <1>2, <1>3, <1>6

(* One task changes, leaves the set or joins it. *)
LEMMA TotalLeaves ==
    ASSUME NEW S, NEW ts, NEW us, NEW x \in S, Counts(ts, S), SameAmounts(ts, us, S \ {x})
    PROVE  /\ Total(us, S \ {x}) = Total(ts, S) - Amount(ts, x)
           /\ Total(us, S \ {x}) \in Nat /\ Total(ts, S) \in Nat /\ Amount(ts, x) \in Nat
<1> SUFFICES ASSUME NEW R, R = S \ {x}
             PROVE  /\ Total(us, R) = Total(ts, S) - Amount(ts, x)
                    /\ Total(us, R) \in Nat /\ Total(ts, S) \in Nat /\ Amount(ts, x) \in Nat
  OBVIOUS
<1>1. Counts(ts, R) /\ SameAmounts(ts, us, R)
  BY FS_Subset DEF Counts
<1>2. Total(us, R) = Total(ts, R) /\ Total(ts, R) \in Nat
  BY <1>1, TotalSame, TotalFacts
<1>3. Total(ts, S) = Amount(ts, x) + Total(ts, R) /\ Total(ts, S) \in Nat
  BY TotalFacts
<1>4. Amount(ts, x) \in Nat
  BY DEF Counts
<1> QED BY <1>2, <1>3, <1>4

LEMMA TotalChanges ==
    ASSUME NEW S, NEW ts, NEW us, NEW x \in S, Counts(ts, S), SameAmounts(ts, us, S \ {x}),
           Amount(us, x) \in Nat
    PROVE  Total(us, S) = Total(ts, S) - Amount(ts, x) + Amount(us, x)
<1>1. /\ Total(us, S \ {x}) = Total(ts, S) - Amount(ts, x)
      /\ Total(us, S \ {x}) \in Nat /\ Total(ts, S) \in Nat /\ Amount(ts, x) \in Nat
  BY TotalLeaves
<1>2. Counts(us, S)
  BY DEF Counts, SameAmounts
<1>3. Total(us, S) = Amount(us, x) + Total(us, S \ {x}) /\ Total(us, S) \in Nat
  BY <1>2, TotalFacts
<1> QED BY <1>1, <1>3

LEMMA TotalJoins ==
    ASSUME NEW S, NEW ts, NEW us, NEW x, x \notin S, Counts(ts, S), SameAmounts(ts, us, S),
           Amount(us, x) \in Nat
    PROVE  Total(us, S \cup {x}) = Total(ts, S) + Amount(us, x)
<1> SUFFICES ASSUME NEW T, T = S \cup {x} PROVE Total(us, T) = Total(ts, S) + Amount(us, x)
  OBVIOUS
<1>1. Counts(us, T) /\ x \in T /\ T \ {x} = S
  BY FS_AddElement DEF Counts, SameAmounts
<1>2. Total(us, T) = Amount(us, x) + Total(us, S)
  BY <1>1, TotalFacts
<1>3. Total(us, S) = Total(ts, S) /\ Total(ts, S) \in Nat
  BY TotalSame, TotalFacts
<1> QED BY <1>2, <1>3

--------------------------------------------------------------------------------
(* Concatenations *)

(* What a function g of concatenations has for the first i sequences of s. *)
NextFlat(g, s, i) == IF i = 1 THEN s[i] ELSE g[i - 1] \o s[i]

(* g has the concatenations of the first 1, .., n sequences of s. *)
Flats(g, s, n) == \A i \in 1..n : g[i] = NextFlat(g, s, i)

Agree(s, t, n) == \A i \in 1..n : s[i] = t[i]

LEMMA FlatsStep ==
    ASSUME NEW S, NEW n \in Nat, NEW s, \A i \in 1..(n + 1) : s[i] \in Seq(S),
           NEW g \in [1..n -> Seq(S)], Flats(g, s, n)
    PROVE  \E h \in [1..(n + 1) -> Seq(S)] : Flats(h, s, n + 1)
<1>1. PICK h : h = [i \in 1..(n + 1) |-> IF i <= n THEN g[i] ELSE NextFlat(g, s, i)]
  OBVIOUS
<1>2. \A i \in 1..n : i \in 1..(n + 1) /\ h[i] = g[i] /\ g[i] \in Seq(S)
  BY <1>1
<1>3. ASSUME NEW i \in 1..(n + 1) PROVE h[i] \in Seq(S) /\ h[i] = NextFlat(h, s, i)
  <2>1. h[i] = NextFlat(g, s, i)
    BY <1>1 DEF Flats
  <2>2. CASE i = 1
    BY <2>1, <2>2 DEF NextFlat
  <2>3. CASE i # 1
    <3>1. i - 1 \in 1..n
      BY <2>3
    <3>2. h[i - 1] = g[i - 1] /\ g[i - 1] \in Seq(S) /\ s[i] \in Seq(S)
      BY <1>2, <3>1
    <3>3. g[i - 1] \o s[i] \in Seq(S)
      BY <3>2, ConcatProperties
    <3> QED BY <2>1, <2>3, <3>2, <3>3 DEF NextFlat
  <2> QED BY <2>2, <2>3
<1>4. h \in [1..(n + 1) -> Seq(S)]
  BY <1>1, <1>3
<1> QED BY <1>3, <1>4 DEF Flats

LEMMA FlatsExist ==
    ASSUME NEW S, NEW k \in Nat, NEW s, \A i \in 1..k : s[i] \in Seq(S)
    PROVE  \E g \in [1..k -> Seq(S)] : Flats(g, s, k)
<1> DEFINE Has(n) == \E g \in [1..n -> Seq(S)] : Flats(g, s, n)
           Good == {n \in Nat : n <= k => Has(n)}
<1>1. 0 \in Good
  <2>1. PICK g : g = [i \in 1..0 |-> <<>>]
    OBVIOUS
  <2>2. g \in [1..0 -> Seq(S)] /\ Flats(g, s, 0)
    BY <2>1 DEF Flats
  <2> QED BY <2>2
<1>2. ASSUME NEW n \in Nat, n \in Good PROVE n + 1 \in Good
  <2>1. ASSUME n + 1 <= k PROVE Has(n + 1)
    <3>1. Has(n)
      BY <1>2, <2>1
    <3>2. PICK g \in [1..n -> Seq(S)] : Flats(g, s, n)
      BY <3>1
    <3>3. \A i \in 1..(n + 1) : s[i] \in Seq(S)
      BY <2>1
    <3> QED BY <3>2, <3>3, FlatsStep
  <2> HIDE DEF Has
  <2> QED BY <2>1
<1>3. Nat \subseteq Good
  <2> HIDE DEF Good
  <2> QED BY <1>1, <1>2, NaturalInduction
<1>4. Has(k)
  <2> HIDE DEF Has
  <2> QED BY <1>3
<1> QED BY <1>4

LEMMA FlattenFlats ==
    ASSUME NEW S, NEW s \in Seq(Seq(S)), s # <<>>
    PROVE  \E g : Flats(g, s, Len(s)) /\ FlattenSeq(s) = g[Len(s)]
<1>0. Len(s) \in Nat /\ Len(s) # 0 /\ \A i \in 1..Len(s) : s[i] \in Seq(S)
  BY LenProperties, EmptySeq, ElementOfSeq
<1>1. PICK g : g = CHOOSE f : f = [i \in 1..Len(s) |-> IF i = 1 THEN s[i] ELSE f[i - 1] \o s[i]]
  OBVIOUS
<1>2. PICK h \in [1..Len(s) -> Seq(S)] : Flats(h, s, Len(s))
  BY <1>0, FlatsExist
<1>3. h = [i \in 1..Len(s) |-> IF i = 1 THEN s[i] ELSE h[i - 1] \o s[i]]
  BY <1>2 DEF Flats, NextFlat
<1>4. g = [i \in 1..Len(s) |-> IF i = 1 THEN s[i] ELSE g[i - 1] \o s[i]]
  BY <1>1, <1>3
<1>5. Flats(g, s, Len(s))
  BY <1>4 DEF Flats, NextFlat
<1>6. FlattenSeq(s) = g[Len(s)]
  BY <1>0, <1>1 DEF FlattenSeq
<1> QED BY <1>5, <1>6

LEMMA FlatsAgree ==
    ASSUME NEW n \in Nat, NEW s, NEW t, Agree(s, t, n),
           NEW g, NEW h, Flats(g, s, n), Flats(h, t, n)
    PROVE  \A i \in 1..n : g[i] = h[i]
<1> DEFINE Good == {i \in Nat : i \in 1..n => g[i] = h[i]}
<1>1. 0 \in Good
  OBVIOUS
<1>2. ASSUME NEW i \in Nat, i \in Good PROVE i + 1 \in Good
  <2> SUFFICES ASSUME i + 1 \in 1..n PROVE g[i + 1] = h[i + 1]
    OBVIOUS
  <2>1. g[i + 1] = NextFlat(g, s, i + 1) /\ h[i + 1] = NextFlat(h, t, i + 1)
    BY DEF Flats
  <2>2. (i + 1) - 1 = i /\ s[i + 1] = t[i + 1] /\ (i # 0 => i \in 1..n)
    BY DEF Agree
  <2> QED BY <1>2, <2>1, <2>2 DEF NextFlat
<1>3. Nat \subseteq Good
  <2> HIDE DEF Good
  <2> QED BY <1>1, <1>2, NaturalInduction
<1> QED BY <1>3

LEMMA FlattenEmpty == FlattenSeq(<<>>) = <<>>
  BY DEF FlattenSeq

(* The facts about a sequence of sequences that the next proofs use. *)
LEMMA Nested ==
    ASSUME NEW S, NEW s \in Seq(Seq(S))
    PROVE  /\ Len(s) \in Nat /\ \A i \in 1..Len(s) : s[i] \in Seq(S)
           /\ s # <<>> => Len(s) # 0 /\ Len(s) \in 1..Len(s)
<1>1. Len(s) \in Nat /\ (s # <<>> => Len(s) # 0)
  BY LenProperties, EmptySeq
<1>2. \A i \in 1..Len(s) : s[i] \in Seq(S)
  BY ElementOfSeq
<1> QED BY <1>1, <1>2

LEMMA FlattenType ==
    ASSUME NEW S, NEW s \in Seq(Seq(S))
    PROVE  FlattenSeq(s) \in Seq(S)
<1>1. CASE s = <<>>
  BY <1>1, FlattenEmpty, EmptySeq
<1>2. CASE s # <<>>
  <2> SUFFICES ASSUME NEW n, n = Len(s) PROVE FlattenSeq(s) \in Seq(S)
    OBVIOUS
  <2>1. PICK g : Flats(g, s, n) /\ FlattenSeq(s) = g[n]
    BY <1>2, FlattenFlats
  <2>2. n \in Nat /\ n \in 1..n /\ \A i \in 1..n : s[i] \in Seq(S)
    BY <1>2, Nested
  <2>3. PICK h \in [1..n -> Seq(S)] : Flats(h, s, n)
    BY <2>2, FlatsExist
  <2>4. n \in Nat /\ Agree(s, s, n) /\ Flats(g, s, n) /\ Flats(h, s, n)
    BY <2>1, <2>2, <2>3 DEF Agree
  <2>5. g[n] = h[n]
    BY ONLY <2>2, <2>4, FlatsAgree
  <2> QED BY <2>1, <2>2, <2>3, <2>5
<1> QED BY <1>1, <1>2

LEMMA FlattenAppend ==
    ASSUME NEW S, NEW s \in Seq(Seq(S)), NEW p \in Seq(S)
    PROVE  FlattenSeq(Append(s, p)) = FlattenSeq(s) \o p
<1> SUFFICES ASSUME NEW t, t = Append(s, p), NEW n, n = Len(s)
             PROVE  FlattenSeq(t) = FlattenSeq(s) \o p
  OBVIOUS
<1>0. n \in Nat
  BY Nested
<1>1. /\ t \in Seq(Seq(S)) /\ t # <<>> /\ Len(t) = n + 1
      /\ (\A i \in 1..n : t[i] = s[i]) /\ t[n + 1] = p
  BY AppendProperties
<1>2. PICK h : Flats(h, t, n + 1) /\ FlattenSeq(t) = h[n + 1]
  BY <1>1, FlattenFlats
<1>3. h[n + 1] = NextFlat(h, t, n + 1) /\ n + 1 \in 1..(n + 1) /\ (n + 1) - 1 = n
  BY <1>0, <1>2 DEF Flats
<1>4. CASE s = <<>>
  <2>1. n = 0
    BY <1>4, EmptySeq
  <2>2. FlattenSeq(s) \o p = p
    BY <1>4, FlattenEmpty, ConcatEmptySeq
  <2> QED BY <1>1, <1>2, <1>3, <2>1, <2>2 DEF NextFlat
<1>5. CASE s # <<>>
  <2>1. PICK g : Flats(g, s, n) /\ FlattenSeq(s) = g[n]
    BY <1>5, FlattenFlats
  <2>2. n # 0 /\ n + 1 # 1 /\ n \in 1..n
    BY <1>0, <1>5, Nested
  <2>3. n \in Nat /\ Agree(s, t, n) /\ Flats(g, s, n) /\ Flats(h, t, n)
    BY <1>0, <1>1, <1>2, <2>1 DEF Flats, Agree
  <2>4. g[n] = h[n]
    BY ONLY <2>2, <2>3, FlatsAgree
  <2> QED BY <1>1, <1>2, <1>3, <2>1, <2>2, <2>4 DEF NextFlat
<1> QED BY <1>4, <1>5


--------------------------------------------------------------------------------
(* Sets of natural numbers, listed in ascending order *)

Ascends(s) == \A i, j \in 1..Len(s) : i < j => s[i] < s[j]

(* The sequence s is what the set B is in ascending order. *)
Lists(s, B) ==
    /\ s \in Seq(Nat) /\ Ascends(s)
    /\ \A i \in 1..Len(s) : s[i] \in B
    /\ \A b \in B : \E i \in 1..Len(s) : s[i] = b

LEMMA ListsFacts ==
    ASSUME NEW s, NEW B, Lists(s, B)
    PROVE  /\ s \in Seq(Nat) /\ Len(s) \in Nat /\ DOMAIN s = 1..Len(s) /\ B \subseteq Nat
           /\ \A i \in 1..Len(s) : s[i] \in Nat
<1>1. s \in Seq(Nat)
  BY DEF Lists
<1>2. Len(s) \in Nat /\ DOMAIN s = 1..Len(s)
  BY <1>1, LenProperties
<1>3. \A i \in 1..Len(s) : s[i] \in Nat
  BY <1>1, ElementOfSeq
<1> QED BY <1>1, <1>2, <1>3 DEF Lists

LEMMA ListsAscend ==
    ASSUME NEW s, NEW B, Lists(s, B), NEW i \in 1..Len(s), NEW j \in 1..Len(s)
    PROVE  /\ i < j => s[i] < s[j]
           /\ i <= j => s[i] <= s[j]
<1>1. \A x, y \in 1..Len(s) : x < y => s[x] < s[y]
  BY DEF Lists, Ascends
<1>2. i < j => s[i] < s[j]
  BY <1>1
<1>3. s[i] \in Nat /\ s[j] \in Nat /\ Len(s) \in Nat
  BY ListsFacts
<1>4. i <= j => i < j \/ i = j
  BY <1>3
<1> QED BY <1>2, <1>3, <1>4

(* If two lists of a set agree before position m, and the first reaches    *)
(* that far, so does the second, and has nothing greater there.            *)
LEMMA ListsStep ==
    ASSUME NEW s, NEW t, NEW B, Lists(s, B), Lists(t, B), NEW m \in 1..Len(s),
           \A n \in 1..(m - 1) : n \in 1..Len(t) /\ s[n] = t[n]
    PROVE  m \in 1..Len(t) /\ t[m] <= s[m]
<1>1. /\ Len(s) \in Nat /\ Len(t) \in Nat /\ s[m] \in B
      /\ \A i \in 1..Len(s) : s[i] \in Nat
      /\ \A i \in 1..Len(t) : t[i] \in Nat
  BY ListsFacts DEF Lists
<1>2. PICK j \in 1..Len(t) : t[j] = s[m]
  BY <1>1 DEF Lists
<1>3. ASSUME j < m PROVE FALSE
  <2>1. j \in 1..(m - 1) /\ j \in 1..Len(s)
    BY <1>1, <1>3
  <2>2. s[j] = s[m] /\ s[j] < s[m]
    BY <1>2, <1>3, <2>1 DEF Lists, Ascends
  <2> QED BY <1>1, <2>1, <2>2
<1>4. m <= j /\ m \in 1..Len(t)
  BY <1>1, <1>3
<1>5. t[m] <= t[j]
  BY <1>4, ListsAscend
<1> QED BY <1>2, <1>4, <1>5

LEMMA ListsUnique ==
    ASSUME NEW s, NEW t, NEW B, Lists(s, B), Lists(t, B)
    PROVE  s = t
<1> DEFINE Same(n) == n \in 1..Len(s) /\ n \in 1..Len(t) /\ s[n] = t[n]
           Odd == {n \in Nat : n # 0 /\ (n <= Len(s) \/ n <= Len(t)) /\ ~Same(n)}
<1>1. /\ Len(s) \in Nat /\ Len(t) \in Nat /\ s \in Seq(Nat) /\ t \in Seq(Nat)
      /\ \A i \in 1..Len(s) : s[i] \in Nat
      /\ \A i \in 1..Len(t) : t[i] \in Nat
  BY ListsFacts
<1>2. ASSUME Odd # {} PROVE FALSE
  <2>1. PICK m \in Odd : \A k \in Odd : m <= k
    BY <1>2, LeastNatural
  <2>2. \A n \in 1..(m - 1) : Same(n)
    <3> SUFFICES ASSUME NEW n \in 1..(m - 1) PROVE Same(n)
      OBVIOUS
    <3>1. n \notin Odd
      BY <2>1
    <3> QED BY <1>1, <2>1, <3>1
  <2>3. \A n \in 1..(m - 1) : n \in 1..Len(t) /\ s[n] = t[n]
    BY <2>2
  <2>4. \A n \in 1..(m - 1) : n \in 1..Len(s) /\ t[n] = s[n]
    BY <2>2
  <2>5. m \in 1..Len(s) => m \in 1..Len(t) /\ t[m] <= s[m]
    <3> HIDE DEF Odd, Same
    <3> QED BY <2>3, ListsStep
  <2>6. m \in 1..Len(t) => m \in 1..Len(s) /\ s[m] <= t[m]
    <3> HIDE DEF Odd, Same
    <3> QED BY <2>4, ListsStep
  <2>7. m \in 1..Len(s) /\ m \in 1..Len(t)
    BY <1>1, <2>5, <2>6
  <2> QED BY <1>1, <2>1, <2>5, <2>6, <2>7
<1>3. \A n \in Nat : n # 0 /\ (n <= Len(s) \/ n <= Len(t)) => Same(n)
  BY <1>2
<1>4. Len(s) = Len(t)
  <2>1. Len(s) # 0 => Len(s) <= Len(t)
    BY <1>1, <1>3
  <2>2. Len(t) # 0 => Len(t) <= Len(s)
    BY <1>1, <1>3
  <2> QED BY <1>1, <2>1, <2>2
<1>5. \A i \in 1..Len(s) : s[i] = t[i]
  BY <1>1, <1>3
<1> HIDE DEF Odd, Same
<1> QED BY <1>1, <1>4, <1>5, SeqEqual

LEMMA ListsNothing ==
    ASSUME NEW s
    PROVE  s = <<>> <=> Lists(s, {})
<1>1. Lists(<<>>, {})
  BY EmptySeq DEF Lists, Ascends
<1>2. Lists(s, {}) => s = <<>>
  BY <1>1, ListsUnique
<1> QED BY <1>1, <1>2

LEMMA ListsConcat ==
    ASSUME NEW s, NEW t, NEW A, NEW B, Lists(s, A), Lists(t, B), \A x \in A, y \in B : x < y
    PROVE  Lists(s \o t, A \cup B)
<1> SUFFICES ASSUME NEW u, u = s \o t PROVE Lists(u, A \cup B)
  OBVIOUS
<1>1. /\ Len(s) \in Nat /\ Len(t) \in Nat /\ s \in Seq(Nat) /\ t \in Seq(Nat)
  BY ListsFacts
<1>2. /\ u \in Seq(Nat) /\ Len(u) = Len(s) + Len(t)
      /\ \A i \in 1..(Len(s) + Len(t)) : u[i] = IF i <= Len(s) THEN s[i] ELSE t[i - Len(s)]
  BY <1>1, ConcatProperties
<1>3. \A i \in 1..Len(s) : i \in 1..Len(u) /\ u[i] = s[i]
  BY <1>1, <1>2
<1>4. \A i \in 1..Len(t) : Len(s) + i \in 1..Len(u) /\ u[Len(s) + i] = t[i]
  BY <1>1, <1>2
<1>5. \A i \in 1..Len(u) : i \in 1..Len(s) \/ (i - Len(s) \in 1..Len(t) /\ u[i] = t[i - Len(s)])
  BY <1>1, <1>2
<1>6. Ascends(u)
  <2> SUFFICES ASSUME NEW i \in 1..Len(u), NEW j \in 1..Len(u), i < j PROVE u[i] < u[j]
    BY DEF Ascends
  <2>1. CASE j \in 1..Len(s)
    BY <1>1, <1>3, <2>1 DEF Lists, Ascends
  <2>2. CASE i \in 1..Len(s) /\ j \notin 1..Len(s)
    <3>1. u[i] \in A
      BY <1>3, <2>2 DEF Lists
    <3>2. u[j] \in B
      BY <1>5, <2>2 DEF Lists
    <3> QED BY <3>1, <3>2
  <2>3. CASE i \notin 1..Len(s) /\ j \notin 1..Len(s)
    <3>1. PICK a \in 1..Len(t), b \in 1..Len(t) : a = i - Len(s) /\ b = j - Len(s)
      BY <1>5, <2>3
    <3>2. a < b /\ u[i] = t[a] /\ u[j] = t[b]
      BY <1>1, <1>2, <1>5, <2>3, <3>1
    <3> QED BY <3>2 DEF Lists, Ascends
  <2> QED BY <1>1, <1>2, <2>1, <2>2, <2>3
<1>7. \A i \in 1..Len(u) : u[i] \in A \cup B
  BY <1>3, <1>5 DEF Lists
<1>8. \A b \in A \cup B : \E i \in 1..Len(u) : u[i] = b
  <2>1. \A b \in A : \E i \in 1..Len(s) : s[i] = b
    BY DEF Lists
  <2>2. \A b \in B : \E i \in 1..Len(t) : t[i] = b
    BY DEF Lists
  <2> QED BY <1>3, <1>4, <2>1, <2>2
<1> QED BY <1>2, <1>6, <1>7, <1>8 DEF Lists

LEMMA ListsRun ==
    ASSUME NEW a \in Nat, NEW b \in Nat, a <= b
    PROVE  Lists([i \in 1..(b - a) |-> a + i], (a + 1)..b)
<1> SUFFICES ASSUME NEW s, s = [i \in 1..(b - a) |-> a + i] PROVE Lists(s, (a + 1)..b)
  OBVIOUS
<1>1. b - a \in Nat /\ \A i \in 1..(b - a) : a + i \in Nat
  OBVIOUS
<1>2. s \in Seq(Nat) /\ Len(s) = b - a
  BY <1>1
<1>3. \A x \in (a + 1)..b : x - a \in 1..Len(s) /\ s[x - a] = x
  BY <1>1, <1>2
<1> QED BY <1>1, <1>2, <1>3 DEF Lists, Ascends

(* A number cuts a list in two. *)
LEMMA ListsCut ==
    ASSUME NEW s, NEW B, NEW k \in Nat, Lists(s, B)
    PROVE  \E n \in 0..Len(s) : \A i \in 1..Len(s) : s[i] <= k <=> i <= n
<1>1. /\ s \in Seq(Nat) /\ Len(s) \in Nat /\ \A i \in 1..Len(s) : s[i] \in Nat
  BY ListsFacts
<1> DEFINE Cut(n) == \A i \in 1..Len(s) : i > n => s[i] > k
           Cuts == {n \in 0..Len(s) : Cut(n)}
<1>2. Len(s) \in Cuts /\ Cuts \subseteq Nat
  BY <1>1
<1>3. PICK n \in Cuts : \A m \in Cuts : n <= m
  BY <1>2, LeastNatural
<1>4. \A i \in 1..Len(s) : i <= n => s[i] <= k
  <2> SUFFICES ASSUME NEW i \in 1..Len(s), i <= n, s[i] > k PROVE FALSE
    BY <1>1
  <2>1. \A j \in 1..Len(s) : j > i - 1 => s[j] > k
    <3> SUFFICES ASSUME NEW j \in 1..Len(s), j > i - 1 PROVE s[j] > k
      OBVIOUS
    <3>1. i <= j
      BY <1>1
    <3>2. s[i] <= s[j]
      BY <3>1, ListsAscend
    <3> QED BY <1>1, <3>2
  <2>2. i - 1 \in Cuts
    BY <1>1, <2>1
  <2>3. n <= i - 1 /\ n \in Nat
    BY <1>2, <1>3, <2>2
  <2> HIDE DEF Cuts
  <2> QED BY <1>1, <2>3
<1>5. \A i \in 1..Len(s) : i > n => s[i] > k
  BY <1>3
<1>6. n \in 0..Len(s)
  BY <1>3
<1> HIDE DEF Cuts, Cut
<1>7. \A i \in 1..Len(s) : s[i] <= k <=> i <= n
  BY <1>1, <1>4, <1>5, <1>6
<1> QED BY <1>6, <1>7

(* A run of a list lists what it holds. *)
LEMMA ListsPart ==
    ASSUME NEW s, NEW B, Lists(s, B), NEW m \in 0..Len(s), NEW n \in 0..Len(s), m <= n
    PROVE  Lists(SubSeq(s, m + 1, n), {s[i] : i \in (m + 1)..n})
<1>1. /\ s \in Seq(Nat) /\ Len(s) \in Nat /\ \A i \in 1..Len(s) : s[i] \in Nat
  BY ListsFacts
<1>2. PICK u : u = SubSeq(s, m + 1, n)
  OBVIOUS
<1>3. /\ u \in Seq(Nat) /\ Len(u) = n - m
      /\ \A i \in 1..(n - m) : u[i] = s[m + i]
  <2>1. /\ m + 1 \in Int /\ n \in Int
        /\ \A i \in (m + 1)..n : s[i] \in Nat
    BY <1>1
  <2>2. /\ u \in Seq(Nat) /\ Len(u) = IF m + 1 <= n THEN n - (m + 1) + 1 ELSE 0
        /\ \A i \in 1..(n - (m + 1) + 1) : u[i] = s[(m + 1) + i - 1]
    BY <1>2, <2>1, SubSeqProperties
  <2> QED BY <1>1, <2>2
<1>4. Ascends(u)
  <2> SUFFICES ASSUME NEW i \in 1..Len(u), NEW j \in 1..Len(u), i < j PROVE u[i] < u[j]
    BY DEF Ascends
  <2>1. m + i \in 1..Len(s) /\ m + j \in 1..Len(s) /\ m + i < m + j
    BY <1>1, <1>3
  <2>2. u[i] = s[m + i] /\ u[j] = s[m + j]
    BY <1>3
  <2> QED BY <2>1, <2>2, ListsAscend
<1>5. \A i \in 1..Len(u) : m + i \in (m + 1)..n /\ u[i] = s[m + i]
  BY <1>1, <1>3
<1>6. \A i \in (m + 1)..n : i - m \in 1..Len(u) /\ u[i - m] = s[i]
  <2> SUFFICES ASSUME NEW i \in (m + 1)..n PROVE i - m \in 1..Len(u) /\ u[i - m] = s[i]
    OBVIOUS
  <2>1. i - m \in 1..(n - m) /\ m + (i - m) = i
    BY <1>1
  <2> QED BY <1>3, <2>1
<1>7. PICK C : C = {s[i] : i \in (m + 1)..n}
  OBVIOUS
<1>8. \A i \in 1..Len(u) : u[i] \in C
  BY <1>5, <1>7
<1>9. \A b \in C : \E i \in 1..Len(u) : u[i] = b
  BY <1>6, <1>7
<1>10. Lists(u, C)
  BY <1>3, <1>4, <1>8, <1>9 DEF Lists
<1> QED BY <1>2, <1>7, <1>10

(* What is left of a list above a number is a suffix of it. *)
LEMMA ListsAbove ==
    ASSUME NEW s, NEW t, NEW B, NEW k \in Nat, Lists(s, B), Lists(t, {b \in B : b > k})
    PROVE  \E n \in 0..Len(s) : t = SubSeq(s, n + 1, Len(s))
<1>1. PICK n \in 0..Len(s) : \A i \in 1..Len(s) : s[i] <= k <=> i <= n
  BY ListsCut
<1>2. Len(s) \in Nat /\ \A i \in 1..Len(s) : s[i] \in Nat
  BY ListsFacts
<1>3. {b \in B : b > k} = {s[i] : i \in (n + 1)..Len(s)}
  <2>1. \A i \in (n + 1)..Len(s) : i \in 1..Len(s) /\ s[i] \in B /\ s[i] > k
    BY <1>1, <1>2 DEF Lists
  <2>2. \A i \in 1..Len(s) : s[i] > k => i \in (n + 1)..Len(s)
    BY <1>1, <1>2
  <2>3. \A b \in B : b > k => \E i \in (n + 1)..Len(s) : b = s[i]
    BY <2>2 DEF Lists
  <2> QED BY <2>1, <2>3
<1>4. Lists(SubSeq(s, n + 1, Len(s)), {b \in B : b > k})
  <2>1. Len(s) \in 0..Len(s) /\ n <= Len(s)
    BY <1>2
  <2> QED BY <1>3, <2>1, ListsPart
<1>5. t = SubSeq(s, n + 1, Len(s))
  BY <1>4, ListsUnique
<1> QED BY <1>5

(* The numbers of an interval leave a list. *)
LEMMA ListsGap ==
    ASSUME NEW s, NEW t, NEW B, NEW a \in Nat, NEW k \in Nat, a <= k, Lists(s, B),
           Lists(t, {b \in B : b <= a \/ b > k})
    PROVE  \E m, n \in 0..Len(s) :
              m <= n /\ t = SubSeq(s, 1, m) \o SubSeq(s, n + 1, Len(s))
<1>1. PICK m \in 0..Len(s) : \A i \in 1..Len(s) : s[i] <= a <=> i <= m
  BY ListsCut
<1>2. PICK n \in 0..Len(s) : \A i \in 1..Len(s) : s[i] <= k <=> i <= n
  BY ListsCut
<1>3. Len(s) \in Nat /\ \A i \in 1..Len(s) : s[i] \in Nat
  BY ListsFacts
<1>4. m <= n
  <2>1. CASE m = 0
    BY <2>1, <1>2
  <2>2. CASE m # 0
    <3>1. m \in 1..Len(s) /\ s[m] <= a /\ s[m] \in Nat
      BY <1>1, <1>3, <2>2
    <3>2. s[m] <= k
      BY <3>1
    <3> QED BY <1>2, <3>1, <3>2
  <2> QED BY <2>1, <2>2
<1> DEFINE Low == {s[i] : i \in 1..m}
           High == {s[i] : i \in (n + 1)..Len(s)}
<1>5. \A x \in Low, y \in High : x < y
  <2>1. \A i \in 1..m, j \in (n + 1)..Len(s) : s[i] < s[j]
    <3> SUFFICES ASSUME NEW i \in 1..m, NEW j \in (n + 1)..Len(s) PROVE s[i] < s[j]
      OBVIOUS
    <3>1. i \in 1..Len(s) /\ j \in 1..Len(s) /\ i < j
      BY <1>3, <1>4
    <3> QED BY <3>1 DEF Lists, Ascends
  <2> QED BY <2>1
<1>6. Low \cup High = {b \in B : b <= a \/ b > k}
  <2>1. \A i \in 1..m : i \in 1..Len(s) /\ s[i] \in B /\ s[i] <= a
    BY <1>1, <1>3 DEF Lists
  <2>2. \A i \in (n + 1)..Len(s) : i \in 1..Len(s) /\ s[i] \in B /\ s[i] > k
    BY <1>2, <1>3 DEF Lists
  <2>3. \A i \in 1..Len(s) : s[i] <= a => i \in 1..m
    BY <1>1, <1>3
  <2>4. \A i \in 1..Len(s) : s[i] > k => i \in (n + 1)..Len(s)
    BY <1>2, <1>3
  <2>5. \A b \in B : \E i \in 1..Len(s) : s[i] = b
    BY DEF Lists
  <2>6. ASSUME NEW b \in B, b <= a \/ b > k PROVE b \in Low \cup High
    <3>1. PICK i \in 1..Len(s) : s[i] = b
      BY <2>5
    <3>2. CASE b <= a
      <4>1. i \in 1..m
        <5>1. s[i] <= a
          BY <3>1, <3>2
        <5> QED BY <2>3, <5>1
      <4>2. s[i] \in Low
        BY <4>1
      <4> HIDE DEF Low
      <4> QED BY <3>1, <4>2
    <3>3. CASE b > k
      <4>1. i \in (n + 1)..Len(s)
        <5>1. s[i] > k
          BY <3>1, <3>3
        <5> QED BY <2>4, <5>1
      <4>2. s[i] \in High
        BY <4>1
      <4> HIDE DEF High
      <4> QED BY <3>1, <4>2
    <3> QED BY <2>6, <3>2, <3>3
  <2>7. \A b \in Low : b \in B /\ b <= a
    BY <2>1
  <2>8. \A b \in High : b \in B /\ b > k
    BY <2>2
  <2> HIDE DEF Low, High
  <2> QED BY <2>6, <2>7, <2>8
<1>7. Lists(SubSeq(s, 1, m), Low)
  <2>1. 0 \in 0..Len(s) /\ 0 <= m /\ 0 + 1 = 1
    BY <1>3
  <2>2. Lists(SubSeq(s, 0 + 1, m), {s[i] : i \in (0 + 1)..m})
    BY <2>1, ListsPart
  <2> QED BY <2>1, <2>2
<1>8. Lists(SubSeq(s, n + 1, Len(s)), High)
  <2>1. Len(s) \in 0..Len(s) /\ n <= Len(s)
    BY <1>3
  <2> QED BY <2>1, ListsPart
<1> HIDE DEF Low, High
<1>9. Lists(SubSeq(s, 1, m) \o SubSeq(s, n + 1, Len(s)), {b \in B : b <= a \/ b > k})
  BY <1>5, <1>6, <1>7, <1>8, ListsConcat
<1>10. t = SubSeq(s, 1, m) \o SubSeq(s, n + 1, Len(s))
  BY <1>9, ListsUnique
<1> QED BY <1>4, <1>10

--------------------------------------------------------------------------------
(* What sequences that follow each other list, one after the other *)

(* The elements of the first n of them. *)
Union(ss, n) == {x \in Nat : \E i \in 1..n : \E j \in 1..Len(ss[i]) : ss[i][j] = x}

(* Each ascends, and stays below those behind it. *)
InTurn(ss) ==
    /\ ss \in Seq(Seq(Nat))
    /\ \A i \in 1..Len(ss) : Ascends(ss[i])
    /\ \A i, j \in 1..Len(ss) : i < j =>
          \A a \in 1..Len(ss[i]), b \in 1..Len(ss[j]) : ss[i][a] < ss[j][b]

LEMMA FlattenStep ==
    ASSUME NEW ss, InTurn(ss), NEW n \in Nat, n + 1 <= Len(ss),
           Lists(FlattenSeq(SubSeq(ss, 1, n)), Union(ss, n))
    PROVE  Lists(FlattenSeq(SubSeq(ss, 1, n + 1)), Union(ss, n + 1))
<1>1. /\ ss \in Seq(Seq(Nat)) /\ Len(ss) \in Nat /\ \A i \in 1..Len(ss) : ss[i] \in Seq(Nat)
  BY LenProperties, ElementOfSeq DEF InTurn
<1>2. n + 1 \in 1..Len(ss) /\ 1 \in 1..Len(ss) /\ n + 1 \in 1..(n + 1) /\ (n + 1) - 1 = n
  BY <1>1
<1>3. PICK r, p : r = SubSeq(ss, 1, n) /\ p = ss[n + 1]
  OBVIOUS
<1>4. r \in Seq(Seq(Nat)) /\ p \in Seq(Nat)
  <2>1. \A i \in 1..n : ss[i] \in Seq(Nat)
    BY <1>1, <1>2
  <2> QED BY <1>1, <1>2, <1>3, <2>1, SubSeqProperties
<1>5. SubSeq(ss, 1, n + 1) = Append(r, p)
  <2>1. SubSeq(ss, 1, n + 1) = SubSeq(ss, 1, (n + 1) - 1) \o <<ss[n + 1]>>
    <3>1. n + 1 \in 1..Len(ss) /\ 1 \in 1..Len(ss) /\ ss \in Seq(Seq(Nat))
      BY <1>1, <1>2
    <3> QED BY <3>1, SubSeqRecursiveSecond
  <2>2. r \o <<p>> = Append(r, p)
    BY <1>4, AppendIsConcat
  <2> QED BY <1>2, <1>3, <2>1, <2>2
<1>6. FlattenSeq(Append(r, p)) = FlattenSeq(r) \o p
  BY <1>4, FlattenAppend
<1> DEFINE P == {x \in Nat : \E j \in 1..Len(p) : p[j] = x}
<1>7. Lists(p, P)
  <2>1. Ascends(p)
    BY <1>1, <1>2, <1>3 DEF InTurn
  <2>2. \A j \in 1..Len(p) : p[j] \in Nat
    BY <1>4, ElementOfSeq
  <2> QED BY <1>4, <2>1, <2>2 DEF Lists
<1>8. \A x \in Union(ss, n), y \in P : x < y
  <2> SUFFICES ASSUME NEW x \in Union(ss, n), NEW y \in P PROVE x < y
    OBVIOUS
  <2>1. PICK i \in 1..n : \E j \in 1..Len(ss[i]) : ss[i][j] = x
    BY DEF Union
  <2>2. PICK a \in 1..Len(ss[i]) : ss[i][a] = x
    BY <2>1
  <2>3. PICK b \in 1..Len(ss[n + 1]) : ss[n + 1][b] = y
    BY <1>3
  <2>4. i \in 1..Len(ss) /\ i < n + 1
    BY <1>1, <1>2
  <2> QED BY <1>2, <2>2, <2>3, <2>4 DEF InTurn
<1>9. Union(ss, n + 1) = Union(ss, n) \cup P
  <2>1. \A i \in 1..(n + 1) : i \in 1..n \/ i = n + 1
    OBVIOUS
  <2>2. \A i \in 1..n : i \in 1..(n + 1)
    OBVIOUS
  <2> QED BY <1>2, <1>3, <2>1, <2>2 DEF Union
<1>10. Lists(FlattenSeq(r) \o p, Union(ss, n) \cup P)
  <2>1. Lists(FlattenSeq(r), Union(ss, n))
    BY <1>3
  <2> HIDE DEF P
  <2> QED BY <1>7, <1>8, <2>1, ListsConcat
<1> QED BY <1>5, <1>6, <1>9, <1>10

LEMMA FlattenLists ==
    ASSUME NEW ss, InTurn(ss)
    PROVE  Lists(FlattenSeq(ss), Union(ss, Len(ss)))
<1> DEFINE Done(n) == Lists(FlattenSeq(SubSeq(ss, 1, n)), Union(ss, n))
           Good == {n \in Nat : n <= Len(ss) => Done(n)}
<1>1. ss \in Seq(Seq(Nat)) /\ Len(ss) \in Nat /\ SubSeq(ss, 1, Len(ss)) = ss
  BY LenProperties, SubSeqFull DEF InTurn
<1>2. 0 \in Good
  <2>1. SubSeq(ss, 1, 0) = <<>>
    BY SubSeqEmpty
  <2>2. Union(ss, 0) = {}
    BY DEF Union
  <2>3. Lists(<<>>, {})
    BY ListsNothing
  <2> QED BY <2>1, <2>2, <2>3, FlattenEmpty
<1>3. ASSUME NEW n \in Nat, n \in Good PROVE n + 1 \in Good
  <2> SUFFICES ASSUME n + 1 <= Len(ss) PROVE Done(n + 1)
    OBVIOUS
  <2>1. Done(n)
    BY <1>1, <1>3
  <2> QED BY <2>1, FlattenStep
<1>4. Nat \subseteq Good
  <2> HIDE DEF Good
  <2> QED BY <1>2, <1>3, NaturalInduction
<1>5. Done(Len(ss))
  <2> HIDE DEF Done
  <2> QED BY <1>1, <1>4
<1> QED BY <1>1, <1>5

(* Runs of consecutive numbers, one behind the other. *)
LEMMA RunsLists ==
    ASSUME NEW n \in Nat, NEW lo \in [1..n -> Nat], NEW hi \in [1..n -> Nat],
           \A i \in 1..n : lo[i] <= hi[i], \A i, j \in 1..n : i < j => hi[i] <= lo[j],
           NEW ss, ss = [i \in 1..n |-> [k \in 1..(hi[i] - lo[i]) |-> lo[i] + k]]
    PROVE  Lists(FlattenSeq(ss), {x \in Nat : \E i \in 1..n : lo[i] < x /\ x <= hi[i]})
<1>1. ASSUME NEW i \in 1..n
      PROVE  /\ ss[i] \in Seq(Nat) /\ Len(ss[i]) = hi[i] - lo[i] /\ lo[i] \in Nat /\ hi[i] \in Nat
             /\ \A k \in 1..Len(ss[i]) : k \in Nat /\ ss[i][k] = lo[i] + k
  <2>1. PICK a \in Nat, b \in Nat : a = lo[i] /\ b = hi[i] /\ a <= b
    OBVIOUS
  <2>2. ss[i] = [k \in 1..(b - a) |-> a + k] /\ b - a \in Nat
    BY <2>1
  <2>3. [k \in 1..(b - a) |-> a + k] \in [1..(b - a) -> Nat]
    BY <2>1
  <2>4. ss[i] \in Seq(Nat) /\ Len(ss[i]) = b - a
    <3>1. PICK r, c : r = ss[i] /\ c = b - a
      OBVIOUS
    <3>2. r \in [1..c -> Nat] /\ c \in Nat
      BY ONLY <2>2, <2>3, <3>1
    <3>3. r \in Seq(Nat) /\ Len(r) = c
      BY ONLY <3>2
    <3> QED BY <3>1, <3>3
  <2> QED BY <2>1, <2>2, <2>4
<1>2. ss \in Seq(Seq(Nat)) /\ Len(ss) = n
  <2>0. DOMAIN ss = 1..n /\ ss = [i \in 1..n |-> ss[i]]
    OBVIOUS
  <2>1. ss \in [1..n -> Seq(Nat)]
    BY <1>1, <2>0
  <2>2. ss \in Seq(Seq(Nat)) /\ DOMAIN ss = 1..n
    BY <2>1
  <2> QED BY <2>2, LenProperties
<1>3. \A i \in 1..n : Ascends(ss[i])
  <2> SUFFICES ASSUME NEW i \in 1..n, NEW k \in 1..Len(ss[i]), NEW m \in 1..Len(ss[i]), k < m
               PROVE  ss[i][k] < ss[i][m]
    BY DEF Ascends
  <2> QED BY <1>1
<1>4. ASSUME NEW i \in 1..n, NEW j \in 1..n, i < j,
             NEW a \in 1..Len(ss[i]), NEW b \in 1..Len(ss[j])
      PROVE  ss[i][a] < ss[j][b]
  <2>1. a \in Nat /\ b \in Nat /\ a <= hi[i] - lo[i] /\ 0 < b /\ hi[i] <= lo[j]
    BY <1>1, <1>4
  <2>2. PICK p \in Nat, q \in Nat, r \in Nat : p = lo[i] /\ q = hi[i] /\ r = lo[j]
    OBVIOUS
  <2>3. ss[i][a] = p + a /\ ss[j][b] = r + b /\ a <= q - p /\ q <= r
    BY <1>1, <2>1, <2>2
  <2>4. p + a < r + b
    BY ONLY p \in Nat, q \in Nat, r \in Nat, <2>1, <2>3
  <2> QED BY <2>3, <2>4
<1>5. Lists(FlattenSeq(ss), Union(ss, n))
  <2>1. InTurn(ss)
    BY ONLY <1>2, <1>3, <1>4 DEF InTurn
  <2> QED BY <1>2, <2>1, FlattenLists
<1>6. ASSUME NEW x \in Nat, NEW i \in 1..n
      PROVE  (\E j \in 1..Len(ss[i]) : ss[i][j] = x) <=> lo[i] < x /\ x <= hi[i]
  <2>1. ASSUME NEW j \in 1..Len(ss[i]), ss[i][j] = x PROVE lo[i] < x /\ x <= hi[i]
    BY <1>1, <2>1
  <2>2. ASSUME lo[i] < x, x <= hi[i] PROVE \E j \in 1..Len(ss[i]) : ss[i][j] = x
    <3>1. x - lo[i] \in 1..Len(ss[i])
      BY <1>1, <2>2
    <3>2. ss[i][x - lo[i]] = lo[i] + (x - lo[i])
      BY <1>1, <3>1
    <3>3. lo[i] + (x - lo[i]) = x
      BY <1>1
    <3> QED BY <3>1, <3>2, <3>3
  <2> QED BY <2>1, <2>2
<1>7. Union(ss, n) = {x \in Nat : \E i \in 1..n : lo[i] < x /\ x <= hi[i]}
  BY <1>6 DEF Union
<1> QED BY <1>5, <1>7

--------------------------------------------------------------------------------
(* The elements of a finite set, in the order of the numbers that f gives them *)

Sorted(s, f, S) ==
    /\ s \in [1..Cardinality(S) -> S]
    /\ \A i, j \in DOMAIN s : i < j => f[s[i]] < f[s[j]]

Numbers(f, S) == IsFiniteSet(S) /\ \A x \in S : f[x] \in Nat /\ \A y \in S : f[x] = f[y] => x = y

LEMMA SortedStep ==
    ASSUME NEW f, NEW S, Numbers(f, S), NEW n \in Nat, Cardinality(S) = n + 1,
           \A T \in SUBSET S : Cardinality(T) = n => \E s : Sorted(s, f, T)
    PROVE  \E s : Sorted(s, f, S)
<1> DEFINE N == {f[x] : x \in S}
<1>1. S # {} /\ N \in SUBSET Nat /\ N # {}
  BY FS_EmptySet DEF Numbers
<1>2. PICK m \in N : \A k \in N : m <= k
  BY <1>1, LeastNatural
<1>3. PICK x \in S : f[x] = m
  BY <1>2
<1>4. \A y \in S \ {x} : f[x] < f[y]
  BY <1>2, <1>3 DEF Numbers
<1>5. Cardinality(S \ {x}) = n
  <2>1. IsFiniteSet(S)
    BY DEF Numbers
  <2>2. Cardinality(S \ {x}) = Cardinality(S) - 1
    BY <2>1, FS_RemoveElement
  <2> QED BY <2>2
<1>6. PICK t : Sorted(t, f, S \ {x})
  BY <1>5
<1>7. t \in [1..n -> S \ {x}] /\ \A i, j \in 1..n : i < j => f[t[i]] < f[t[j]]
  BY <1>5, <1>6 DEF Sorted
<1>8. PICK s : s = [i \in 1..(n + 1) |-> IF i = 1 THEN x ELSE t[i - 1]]
  OBVIOUS
<1>9. \A i \in 2..(n + 1) : i - 1 \in 1..n /\ i \in 1..(n + 1) /\ s[i] = t[i - 1] /\ s[i] \in S \ {x}
  BY <1>7, <1>8
<1>10. s[1] = x /\ \A i \in 1..(n + 1) : i = 1 \/ i \in 2..(n + 1)
  BY <1>8
<1>11. s \in [1..(n + 1) -> S]
  BY <1>8, <1>9, <1>10
<1>12. ASSUME NEW i \in 1..(n + 1), NEW j \in 1..(n + 1), i < j PROVE f[s[i]] < f[s[j]]
  <2>1. j \in 2..(n + 1)
    BY <1>10, <1>12
  <2>2. CASE i = 1
    BY <1>4, <1>9, <1>10, <2>1, <2>2
  <2>3. CASE i \in 2..(n + 1)
    <3>1. i - 1 \in 1..n /\ j - 1 \in 1..n /\ i - 1 < j - 1
      BY <1>9, <1>12, <2>1, <2>3
    <3> QED BY <1>7, <1>9, <2>1, <2>3, <3>1
  <2> QED BY <1>10, <2>2, <2>3
<1> QED BY <1>11, <1>12 DEF Sorted

LEMMA SortedExists ==
    ASSUME NEW f, NEW S, Numbers(f, S)
    PROVE  \E s : Sorted(s, f, S)
<1> DEFINE Good == {n \in Nat : \A T \in SUBSET S : Cardinality(T) = n => \E s : Sorted(s, f, T)}
<1>1. \A T \in SUBSET S : Numbers(f, T) /\ Cardinality(T) \in Nat
  BY FS_Subset, FS_CardinalityType DEF Numbers
<1>2. 0 \in Good
  <2> SUFFICES ASSUME NEW T \in SUBSET S, Cardinality(T) = 0 PROVE \E s : Sorted(s, f, T)
    OBVIOUS
  <2>1. PICK s : s = [i \in 1..0 |-> 0]
    OBVIOUS
  <2>2. s \in [1..0 -> T] /\ DOMAIN s = {}
    BY <2>1
  <2> QED BY <2>2 DEF Sorted
<1>3. ASSUME NEW n \in Nat, n \in Good PROVE n + 1 \in Good
  <2> SUFFICES ASSUME NEW T \in SUBSET S, Cardinality(T) = n + 1 PROVE \E s : Sorted(s, f, T)
    OBVIOUS
  <2>1. \A U \in SUBSET T : Cardinality(U) = n => \E s : Sorted(s, f, U)
    BY <1>3
  <2> HIDE DEF Good
  <2> QED BY <1>1, <2>1, SortedStep
<1>4. Nat \subseteq Good
  <2> HIDE DEF Good
  <2> QED BY <1>2, <1>3, NaturalInduction
<1> QED BY <1>1, <1>4

(* It has all of them. *)
LEMMA SortedAll ==
    ASSUME NEW f, NEW S, Numbers(f, S), NEW s, Sorted(s, f, S)
    PROVE  /\ s \in Seq(S) /\ Len(s) = Cardinality(S)
           /\ \A x \in S : \E i \in 1..Len(s) : s[i] = x
           /\ \A i, j \in 1..Len(s) : i < j => f[s[i]] < f[s[j]]
<1> DEFINE n == Cardinality(S)
<1>1. n \in Nat /\ s \in [1..n -> S] /\ IsFiniteSet(1..n) /\ Cardinality(1..n) = n
  <2>1. n \in Nat
    BY FS_CardinalityType DEF Numbers
  <2>2. s \in [1..n -> S]
    BY DEF Sorted
  <2>3. IsFiniteSet(1..n) /\ Cardinality(1..n) = IF 1 > n THEN 0 ELSE n - 1 + 1
    <3>1. n \in Int /\ 1 \in Int
      BY <2>1
    <3> HIDE DEF n
    <3> QED BY <3>1, FS_Interval
  <2> HIDE DEF n
  <2> QED BY <2>1, <2>2, <2>3
<1>2. s \in Seq(S) /\ Len(s) = n /\ DOMAIN s = 1..n
  BY <1>1
<1>3. \A i, j \in 1..n : i < j => f[s[i]] < f[s[j]]
  BY <1>2 DEF Sorted
<1>4. s \in Injection(1..n, S)
  <2>1. ASSUME NEW i \in 1..n, NEW j \in 1..n, s[i] = s[j] PROVE i = j
    <3>1. s[i] \in S /\ s[j] \in S /\ f[s[i]] \in Nat
      BY <1>1 DEF Numbers
    <3>2. ~(i < j) /\ ~(j < i)
      BY <1>3, <2>1, <3>1
    <3> QED BY <1>1, <3>2
  <2> QED BY <1>1, <2>1 DEF Injection, IsInjective
<1>5. s \in Surjection(1..n, S)
  <2> HIDE DEF n
  <2>1. IsFiniteSet(S) /\ Cardinality(1..n) = Cardinality(S)
    BY <1>1 DEF Numbers, n
  <2> QED BY <1>4, <2>1, FS_Injection
<1>6. \A x \in S : \E i \in 1..n : s[i] = x
  BY <1>5 DEF Surjection
<1> QED BY <1>2, <1>3, <1>6

================================================================================

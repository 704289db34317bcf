------------------------------ MODULE TrainingProofs ------------------------------
(***************************************************************************)
(* Theorems about Training, for any candidates, scores and configurations, *)
(* and whatever was changed in a published artifact.                       *)
(***************************************************************************)
EXTENDS Training, FiniteSetTheorems, SequenceTheorems, WellFoundedInduction, TLAPS

-----------------------------------------------------------------------------
(* Orders and numbers.                                                     *)

\* before orders S: of two elements exactly one is before the other.
Orders(before, S) ==
    /\ \A x \in S : <<x, x>> \notin before
    /\ \A x, y \in S : x # y => <<x, y>> \in before \/ <<y, x>> \in before
    /\ \A x, y, z \in S : <<x, y>> \in before /\ <<y, z>> \in before => <<x, z>> \in before

\* What comes before x, and how much that is.
Preceding(S, before, x) == {y \in S : <<y, x>> \in before}
Rank(S, before, x) == Cardinality(Preceding(S, before, x))

\* The ranks are the numbers from 0 on, an element of a lower rank is before one of a higher.
LEMMA Ranks ==
    ASSUME NEW S, IsFiniteSet(S), NEW before, Orders(before, S)
    PROVE  /\ \A x \in S : Rank(S, before, x) \in 0..(Cardinality(S) - 1)
           /\ \A n \in 0..(Cardinality(S) - 1) : \E x \in S : Rank(S, before, x) = n
           /\ \A x, y \in S : <<x, y>> \in before <=> Rank(S, before, x) < Rank(S, before, y)
<1>1. \A x \in S : /\ IsFiniteSet(Preceding(S, before, x)) /\ Preceding(S, before, x) \subseteq S
                   /\ x \notin Preceding(S, before, x) /\ Rank(S, before, x) \in Nat
  <2>1. SUFFICES ASSUME NEW x \in S
                 PROVE  /\ IsFiniteSet(Preceding(S, before, x)) /\ Preceding(S, before, x) \subseteq S
                        /\ x \notin Preceding(S, before, x) /\ Rank(S, before, x) \in Nat
    OBVIOUS
  <2>2. Preceding(S, before, x) \in SUBSET S /\ x \notin Preceding(S, before, x)
    BY DEF Preceding, Orders
  <2>3. IsFiniteSet(Preceding(S, before, x))
    BY <2>2, FS_Subset
  <2>. QED BY <2>2, <2>3, FS_CardinalityType DEF Rank
<1>2. Cardinality(S) \in Nat
  BY FS_CardinalityType
<1>3. ASSUME NEW x \in S PROVE Rank(S, before, x) \in 0..(Cardinality(S) - 1)
  <2>1. Preceding(S, before, x) \in SUBSET S /\ Preceding(S, before, x) # S
    BY <1>1
  <2>2. Rank(S, before, x) =< Cardinality(S) /\ Rank(S, before, x) # Cardinality(S)
    BY <2>1, FS_Subset DEF Rank
  <2>. QED BY <1>1, <1>2, <2>2
<1>4. ASSUME NEW x \in S, NEW y \in S, <<x, y>> \in before
      PROVE  Rank(S, before, x) < Rank(S, before, y)
  <2>1. Preceding(S, before, x) \cup {x} \in SUBSET Preceding(S, before, y)
    BY <1>4 DEF Preceding, Orders
  <2>2. /\ IsFiniteSet(Preceding(S, before, x)) /\ x \notin Preceding(S, before, x)
        /\ IsFiniteSet(Preceding(S, before, y))
    BY <1>1
  <2>3. Cardinality(Preceding(S, before, x) \cup {x}) = Cardinality(Preceding(S, before, x)) + 1
    BY <2>2, FS_AddElement
  <2>4. Cardinality(Preceding(S, before, x) \cup {x}) =< Cardinality(Preceding(S, before, y))
    BY <2>1, <2>2, FS_Subset
  <2>5. Rank(S, before, x) \in Nat /\ Rank(S, before, y) \in Nat
    BY <1>1
  <2>. QED BY <2>3, <2>4, <2>5 DEF Rank
<1>5. ASSUME NEW x \in S, NEW y \in S, Rank(S, before, x) < Rank(S, before, y)
      PROVE  <<x, y>> \in before
  <2>1. Rank(S, before, x) \in Nat /\ Rank(S, before, y) \in Nat
    BY <1>1
  <2>2. x # y /\ <<y, x>> \notin before
    BY <1>4, <1>5, <2>1
  <2>. QED BY <2>2 DEF Orders
<1>6. ASSUME NEW n \in 0..(Cardinality(S) - 1) PROVE \E x \in S : Rank(S, before, x) = n
  <2>. DEFINE f == [x \in S |-> Rank(S, before, x)]
              T == 0..(Cardinality(S) - 1)
  <2>1. f \in [S -> T]
    BY <1>3
  <2>2. ASSUME NEW x \in S, NEW y \in S, x # y PROVE f[x] # f[y]
    <3>1. Rank(S, before, x) \in Nat /\ Rank(S, before, y) \in Nat
      BY <1>1
    <3>2. Rank(S, before, x) < Rank(S, before, y) \/ Rank(S, before, y) < Rank(S, before, x)
      BY <1>4, <2>2 DEF Orders
    <3>. QED BY <3>1, <3>2
  <2>3. f \in Injection(S, T)
    BY <2>1, <2>2 DEF Injection, IsInjective
  <2>4. IsFiniteSet(T) /\ Cardinality(T) = Cardinality(S)
    BY <1>2, FS_Interval
  <2>5. f \in Surjection(S, T)
    <3>. HIDE DEF f, T
    <3>. QED BY <2>3, <2>4, FS_Injection
  <2>6. \E x \in S : f[x] = n
    BY <2>5 DEF Surjection
  <2>. QED BY <2>6
<1>. QED BY <1>3, <1>4, <1>5, <1>6

\* No two elements have the same rank.
LEMMA RanksDiffer ==
    ASSUME NEW S, IsFiniteSet(S), NEW before, Orders(before, S), NEW x \in S, NEW y \in S,
           Rank(S, before, x) = Rank(S, before, y)
    PROVE  x = y
<1>1. Rank(S, before, x) \in 0..(Cardinality(S) - 1)
      /\ Rank(S, before, y) \in 0..(Cardinality(S) - 1)
  BY Ranks
<1>2. Rank(S, before, x) \in Int /\ Rank(S, before, y) \in Int
  BY <1>1
<1>3. <<x, y>> \notin before /\ <<y, x>> \notin before
  BY <1>2, Ranks
<1>. QED BY <1>3 DEF Orders

\* The first of a finite set that is ordered.
LEMMA FirstOfMany ==
    ASSUME NEW S, IsFiniteSet(S), S # {}, NEW before, Orders(before, S)
    PROVE  \E x \in S : \A y \in S : y = x \/ <<x, y>> \in before
<1>1. Cardinality(S) \in Nat /\ Cardinality(S) # 0
  BY FS_CardinalityType, FS_EmptySet
<1>2. 0 \in 0..(Cardinality(S) - 1)
  BY <1>1
<1>3. PICK x \in S : Rank(S, before, x) = 0
  BY <1>2, Ranks
<1>4. ASSUME NEW y \in S, y # x PROVE <<x, y>> \in before
  <2>1. Rank(S, before, y) \in 0..(Cardinality(S) - 1)
    BY Ranks
  <2>2. Rank(S, before, y) # 0
    BY <1>3, <1>4, RanksDiffer
  <2>3. Rank(S, before, x) < Rank(S, before, y)
    BY <1>3, <2>1, <2>2
  <2>. QED BY <2>3, Ranks
<1>. QED BY <1>4

Smaller == {ss \in Nat \X Nat : ss[1] < ss[2]}

\* There is no infinite descent among the numbers.
LEMMA SmallerIsWellFounded == IsWellFoundedOn(Smaller, Nat)
  BY NatLessThanWellFounded DEF OpToRel, Smaller

\* Of the numbers that are not in S there is a first one.
LEMMA FirstMissing ==
    ASSUME NEW S, Nat \ S # {}
    PROVE  \E m \in Nat \ S : \A k \in Nat : k < m => k \in S
<1>1. PICK m \in Nat \ S : \A k \in Nat \ S : <<k, m>> \notin Smaller
  BY SmallerIsWellFounded, WFMin
<1>. QED BY <1>1 DEF Smaller


-----------------------------------------------------------------------------
(* Sums and averages.                                                      *)

\* What holds of no number, is at first and goes from each to the next, holds of all of them.
LEMMA AllOf ==
    ASSUME NEW N \in Nat, NEW G, 0 \in G,
           \A m \in 1..N : m - 1 \in G => m \in G
    PROVE  \A n \in 0..N : n \in G
<1>. SUFFICES ASSUME NEW n \in 0..N, n \notin G PROVE FALSE
  OBVIOUS
<1>1. Nat \ (G \cup {k \in Nat : k > N}) # {}
  OBVIOUS
<1>2. PICK m \in Nat \ (G \cup {k \in Nat : k > N}) :
            \A k \in Nat : k < m => k \in G \cup {j \in Nat : j > N}
  BY <1>1, FirstMissing
<1>3. m \in 1..N /\ m - 1 \in Nat /\ m - 1 < m
  BY <1>2
<1>4. m - 1 \in G
  BY <1>2, <1>3
<1>. QED BY <1>2, <1>3, <1>4

\* Each value of f is one step from the one before.
Recursive(f, N, base, step) ==
    \A n \in 0..N : f[n] = IF n = 0 THEN base ELSE step[<<n, f[n - 1]>>]

\* A recursive function on the first numbers exists.
LEMMA Recursion ==
    ASSUME NEW N \in Nat, NEW S, NEW base \in S, NEW step \in [(1..N) \X S -> S]
    PROVE  \E f \in [0..N -> S] : Recursive(f, N, base, step)
<1>. DEFINE Good(M) == \E f \in [0..M -> S] :
               \A n \in 0..M : f[n] = IF n = 0 THEN base ELSE step[<<n, f[n - 1]>>]
            G == {M \in 0..N : Good(M)}
<1>1. Good(0)
  <2>. DEFINE f == [k \in 0..0 |-> base]
  <2>1. f \in [0..0 -> S] /\ \A n \in 0..0 : n = 0 /\ f[n] = base
    OBVIOUS
  <2>. HIDE DEF f
  <2>. QED BY <2>1
<1>2. ASSUME NEW M \in 1..N, Good(M - 1) PROVE Good(M)
  <2>1. PICK f \in [0..(M - 1) -> S] :
               \A n \in 0..(M - 1) : f[n] = IF n = 0 THEN base ELSE step[<<n, f[n - 1]>>]
    BY <1>2
  <2>. DEFINE g == [k \in 0..M |-> IF k = M THEN step[<<M, f[M - 1]>>] ELSE f[k]]
  <2>2. M - 1 \in 0..(M - 1) /\ f[M - 1] \in S
    BY <2>1
  <2>3. step[<<M, f[M - 1]>>] \in S
    BY <2>2
  <2>4. /\ \A k \in 0..(M - 1) : k \in 0..M /\ k # M /\ g[k] = f[k]
        /\ g[M] = step[<<M, f[M - 1]>>] /\ M \in 0..M
    OBVIOUS
  <2>5. g \in [0..M -> S]
    <3>1. \A k \in 0..M : k # M => k \in 0..(M - 1)
      OBVIOUS
    <3>. QED BY <2>3, <3>1
  <2>. HIDE DEF g
  <2>6. ASSUME NEW n \in 0..M PROVE g[n] = IF n = 0 THEN base ELSE step[<<n, g[n - 1]>>]
    <3>1. CASE n = M
      <4>1. g[n - 1] = f[M - 1] /\ n # 0
        BY <2>2, <2>4, <3>1
      <4>. QED BY <2>4, <3>1, <4>1
    <3>2. CASE n # M
      <4>1. n \in 0..(M - 1) /\ (n # 0 => n - 1 \in 0..(M - 1))
        BY <3>2
      <4>2. g[n] = f[n] /\ (n # 0 => g[n - 1] = f[n - 1])
        BY <2>4, <4>1
      <4>. QED BY <2>1, <4>1, <4>2
    <3>. QED BY <3>1, <3>2
  <2>. QED BY <2>5, <2>6
<1>. HIDE DEF Good
<1>3. \A n \in 0..N : n \in G
  <2>1. 0 \in G /\ \A m \in 1..N : m - 1 \in G => m \in G
    BY <1>1, <1>2
  <2>. HIDE DEF G
  <2>. QED BY <2>1, AllOf
<1>4. Good(N)
  BY <1>3
<1>. QED BY <1>4 DEF Good, Recursive

\* A function on the first numbers has as many places.
LEMMA LengthOf ==
    ASSUME NEW n \in Nat, NEW f, f = [k \in 1..n |-> f[k]]
    PROVE  Len(f) = n /\ DOMAIN f = 1..n
<1>1. DOMAIN f = 1..n
  OBVIOUS
<1>2. f \in Seq({f[k] : k \in 1..n}) /\ Len(f) = n
  BY <1>1
<1>. QED BY <1>1, <1>2

\* The sums of the first numbers of a list.
Sums(f, N, v) ==
    /\ f \in [0..N -> Nat] /\ f[0] = 0 /\ \A n \in 1..N : f[n] = f[n - 1] + v[n]
    /\ Total(v) = f[N]

\* Total adds the numbers of a list.
LEMMA TotalAdds ==
    ASSUME NEW N \in Nat, NEW v \in [1..N -> Nat]
    PROVE  \E f : Sums(f, N, v)
<1>. DEFINE step == [p \in (1..N) \X Nat |-> p[2] + v[p[1]]]
            is(f) == f = [n \in 0..N |-> IF n = 0 THEN 0 ELSE f[n - 1] + v[n]]
            upTo == CHOOSE f : is(f)
<1>1. step \in [(1..N) \X Nat -> Nat]
  OBVIOUS
<1>2. PICK f \in [0..N -> Nat] : Recursive(f, N, 0, step)
  <2>1. 0 \in Nat
    OBVIOUS
  <2>. HIDE DEF step
  <2>. QED BY <1>1, <2>1, Recursion
<1>3. ASSUME NEW n \in 0..N PROVE f[n] = IF n = 0 THEN 0 ELSE f[n - 1] + v[n]
  <2>1. CASE n = 0
    BY <1>2, <2>1 DEF Recursive
  <2>2. CASE n # 0
    <3>1. n \in 1..N /\ n - 1 \in 0..N
      BY <2>2
    <3>2. <<n, f[n - 1]>> \in (1..N) \X Nat
      BY <3>1
    <3>3. step[<<n, f[n - 1]>>] = f[n - 1] + v[n]
      BY <3>2
    <3>. QED BY <1>2, <2>2, <3>3 DEF Recursive
  <2>. QED BY <2>1, <2>2
<1>4. is(f)
  BY <1>3
<1>5. is(upTo)
  BY <1>4
<1>6. Len(v) = N
  BY LengthOf
<1>7. Total(v) = upTo[N]
  BY <1>6 DEF Total
<1>8. \A n \in 0..N : upTo[n] = IF n = 0 THEN 0 ELSE upTo[n - 1] + v[n]
  BY <1>5
<1>9. DOMAIN upTo = 0..N /\ upTo = [n \in 0..N |-> upTo[n]]
  BY <1>5
<1>. HIDE DEF upTo
<1>10. \A n \in 0..N : upTo[n] \in Nat
  <2>. DEFINE G == {n \in 0..N : upTo[n] \in Nat}
  <2>a. 0 \in 0..N /\ upTo[0] = 0
    BY <1>8
  <2>b. ASSUME NEW m \in 1..N, m - 1 \in G PROVE m \in G
    <3>1. m \in 0..N /\ upTo[m] = upTo[m - 1] + v[m]
      BY <1>8
    <3>2. upTo[m - 1] \in Nat /\ v[m] \in Nat
      BY <2>b
    <3>. QED BY <3>1, <3>2
  <2>1. 0 \in G /\ \A m \in 1..N : m - 1 \in G => m \in G
    BY <2>a, <2>b
  <2>2. \A n \in 0..N : n \in G
    <3>. HIDE DEF G
    <3>. QED BY <2>1, AllOf
  <2>. QED BY <2>2
<1>11. upTo \in [0..N -> Nat]
  BY <1>9, <1>10
<1>12. upTo[0] = 0 /\ \A n \in 1..N : upTo[n] = upTo[n - 1] + v[n]
  <2>1. 0 \in 0..N /\ \A n \in 1..N : n \in 0..N /\ n # 0
    OBVIOUS
  <2>. QED BY <1>8, <2>1
<1>13. Sums(upTo, N, v)
  BY <1>7, <1>11, <1>12 DEF Sums
<1>. QED BY <1>13

\* A sum is a number, greater numbers have a greater sum.
LEMMA TotalsCompare ==
    ASSUME NEW N \in Nat, NEW v \in [1..N -> Nat], NEW u \in [1..N -> Nat],
           \A k \in 1..N : v[k] =< u[k]
    PROVE  /\ Total(v) \in Nat /\ Total(u) \in Nat /\ Total(v) =< Total(u)
           /\ Total(v) = Total(u) => \A k \in 1..N : v[k] = u[k]
<1>1. PICK f : Sums(f, N, v)
  BY TotalAdds
<1>2. PICK g : Sums(g, N, u)
  BY TotalAdds
<1>. DEFINE G == {n \in 0..N : f[n] =< g[n] /\ (f[n] = g[n] => \A k \in 1..n : v[k] = u[k])}
<1>3. 0 \in G
  BY <1>1, <1>2 DEF Sums
<1>4. ASSUME NEW m \in 1..N, m - 1 \in G PROVE m \in G
  <2>1. /\ f[m] = f[m - 1] + v[m] /\ g[m] = g[m - 1] + u[m]
        /\ {f[m - 1], g[m - 1], v[m], u[m]} \subseteq Nat
    BY <1>1, <1>2 DEF Sums
  <2>2. v[m] =< u[m] /\ f[m - 1] =< g[m - 1]
        /\ (f[m - 1] = g[m - 1] => \A k \in 1..(m - 1) : v[k] = u[k])
    BY <1>4
  <2>3. f[m] =< g[m] /\ (f[m] = g[m] => v[m] = u[m] /\ f[m - 1] = g[m - 1])
    <3>1. \A a, b, x, y \in Nat :
             a =< b /\ x =< y => a + x =< b + y /\ (a + x = b + y => x = y /\ a = b)
      OBVIOUS
    <3>2. f[m - 1] \in Nat /\ g[m - 1] \in Nat /\ v[m] \in Nat /\ u[m] \in Nat
      BY <2>1
    <3>3. v[m] =< u[m] /\ f[m - 1] =< g[m - 1]
      BY <2>2
    <3>. HIDE DEF G
    <3>4. f[m - 1] + v[m] =< g[m - 1] + u[m]
          /\ (f[m - 1] + v[m] = g[m - 1] + u[m] => v[m] = u[m] /\ f[m - 1] = g[m - 1])
      BY <3>1, <3>2, <3>3
    <3>. QED BY <2>1, <3>4
  <2>. QED BY <2>2, <2>3
<1>. HIDE DEF G
<1>5. \A n \in 0..N : n \in G
  BY <1>3, <1>4, AllOf
<1>. QED BY <1>1, <1>2, <1>5 DEF G, Sums

\* A sum of numbers is a number.
LEMMA TotalIsNumber ==
    ASSUME NEW N \in Nat, NEW v \in [1..N -> Nat]
    PROVE  Total(v) \in Nat
<1>1. PICK f : Sums(f, N, v)
  BY TotalAdds
<1>. QED BY <1>1 DEF Sums

\* The sum of N times the same.
LEMMA TotalOfSame ==
    ASSUME NEW N \in Nat, NEW c \in Nat
    PROVE  Total([k \in 1..N |-> c]) = N * c
<1>. DEFINE v == [k \in 1..N |-> c]
<1>1. v \in [1..N -> Nat] /\ \A k \in 1..N : v[k] = c
  OBVIOUS
<1>. HIDE DEF v
<1>2. PICK f : Sums(f, N, v)
  BY <1>1, TotalAdds
<1>. DEFINE G == {n \in 0..N : f[n] = n * c}
<1>3. 0 \in G
  BY <1>2 DEF Sums
<1>4. ASSUME NEW m \in 1..N, m - 1 \in G PROVE m \in G
  <2>1. f[m] = (m - 1) * c + c
    BY <1>1, <1>2, <1>4 DEF Sums
  <2>2. (m - 1) * c + c = m * c
    OBVIOUS
  <2>. QED BY <2>1, <2>2
<1>. HIDE DEF G
<1>5. \A n \in 0..N : n \in G
  BY <1>3, <1>4, AllOf
<1>6. Total(v) = N * c
  BY <1>2, <1>5 DEF G, Sums
<1>. QED BY <1>6 DEF v

\* A sum is nothing if all of it is nothing, and most if all of it is most.
LEMMA TotalBounds ==
    ASSUME NEW N \in Nat, NEW c \in Nat, NEW v \in [1..N -> Nat], \A k \in 1..N : v[k] =< c
    PROVE  /\ Total(v) \in 0..(N * c)
           /\ Total(v) = 0 <=> \A k \in 1..N : v[k] = 0
           /\ Total(v) = N * c <=> \A k \in 1..N : v[k] = c
<1>. DEFINE zero == [k \in 1..N |-> 0]
            most == [k \in 1..N |-> c]
<1>1. /\ zero \in [1..N -> Nat] /\ \A k \in 1..N : zero[k] = 0
      /\ most \in [1..N -> Nat] /\ \A k \in 1..N : most[k] = c
  OBVIOUS
<1>2. Total(zero) = 0 /\ Total(most) = N * c
  <2>1. N * 0 = 0
    OBVIOUS
  <2>. QED BY <2>1, TotalOfSame
<1>. HIDE DEF zero, most
<1>3. /\ Total(v) \in Nat
      /\ Total(zero) = Total(v) => \A k \in 1..N : zero[k] = v[k]
  <2>1. \A k \in 1..N : zero[k] =< v[k]
    BY <1>1
  <2>. QED BY <1>1, <2>1, TotalsCompare
<1>4. /\ Total(v) =< Total(most)
      /\ Total(v) = Total(most) => \A k \in 1..N : v[k] = most[k]
  <2>1. \A k \in 1..N : v[k] =< most[k]
    BY <1>1
  <2>. QED BY <1>1, <2>1, TotalsCompare
<1>5. (\A k \in 1..N : v[k] = 0) => v = zero
  BY <1>1
<1>6. (\A k \in 1..N : v[k] = c) => v = most
  BY <1>1
<1>7. N * c \in Nat
  OBVIOUS
<1>8. Total(v) \in 0..(N * c)
  BY <1>2, <1>3, <1>4, <1>7
<1>9. Total(v) = 0 <=> \A k \in 1..N : v[k] = 0
  <2>1. ASSUME Total(v) = 0, NEW k \in 1..N PROVE v[k] = 0
    BY <1>1, <1>2, <1>3, <2>1
  <2>. QED BY <1>2, <1>5, <2>1
<1>10. Total(v) = N * c <=> \A k \in 1..N : v[k] = c
  <2>1. ASSUME Total(v) = N * c, NEW k \in 1..N PROVE v[k] = c
    BY <1>1, <1>2, <1>4, <2>1
  <2>. QED BY <1>2, <1>6, <2>1
<1>. QED BY <1>8, <1>9, <1>10

\* An average is between nothing and most, and most if all of it is.
LEMMA Averages ==
    ASSUME NEW N \in Nat \ {0}, NEW c \in Nat, NEW v \in [1..N -> Nat], \A k \in 1..N : v[k] =< c
    PROVE  Mean(v) \in 0..c /\ (Mean(v) = c <=> \A k \in 1..N : v[k] = c)
<1>1. Len(v) = N /\ v # <<>>
  BY LengthOf
<1>2. Mean(v) = Total(v) \div N
  BY <1>1 DEF Mean
<1>. DEFINE t == Total(v)
<1>3. t \in 0..(N * c) /\ (t = N * c <=> \A k \in 1..N : v[k] = c)
  BY TotalBounds
<1>. HIDE DEF t
<1>4. t \div N \in 0..c /\ (t \div N = c <=> t = N * c)
  <2>1. t \in Nat /\ t =< N * c
    BY <1>3
  <2>2. N * (t \div N) =< t /\ t < N * (t \div N) + N /\ t \div N \in Nat
    BY <2>1
  <2>. DEFINE q == t \div N
  <2>. HIDE DEF q
  <2>3. N * q =< t /\ t < N * q + N /\ q \in Nat
    BY <2>2 DEF q
  <2>4. q =< c /\ (q = c <=> t = N * c)
    <3>1. ASSUME NEW x \in Nat, NEW y \in Nat, x > y PROVE N * x >= N * y + N
      <4>. DEFINE d == x - y - 1
      <4>1. d \in Nat /\ x = y + 1 + d
        BY <3>1
      <4>. HIDE DEF d
      <4>2. N * (y + 1 + d) = N * y + N + N * d /\ N * d \in Nat
        BY <4>1
      <4>. QED BY <4>1, <4>2
    <3>2. N * q \in Nat /\ N * c \in Nat
      BY <2>3
    <3>6. \A a, b, x \in Nat :
             /\ a =< x /\ x =< b => ~(a >= b + N)
             /\ x < a + N => ~(x >= a + N)
      OBVIOUS
    <3>3. ASSUME q > c PROVE FALSE
      <4>1. N * q >= N * c + N
        BY <2>3, <3>1, <3>3
      <4>. DEFINE a == N * q
                  b == N * c
      <4>2. a \in Nat /\ b \in Nat /\ t \in Nat /\ a =< t /\ t =< b /\ a >= b + N
        BY <2>1, <2>3, <3>2, <4>1
      <4>. HIDE DEF a, b
      <4>. QED BY <3>6, <4>2
    <3>4. ASSUME q < c PROVE t # N * c
      <4>1. N * c >= N * q + N
        BY <2>3, <3>1, <3>4
      <4>. DEFINE a == N * q
                  b == N * c
      <4>2. a \in Nat /\ b \in Nat /\ t \in Nat /\ t < a + N /\ b >= a + N
        BY <2>1, <2>3, <3>2, <4>1
      <4>. HIDE DEF a, b
      <4>3. t # b
        BY <3>6, <4>2
      <4>. QED BY <4>3 DEF b
    <3>5. ASSUME q = c PROVE t = N * c
      BY <2>1, <2>3, <3>2, <3>5
    <3>. QED BY <2>3, <3>3, <3>4, <3>5
  <2>. QED BY <2>3, <2>4 DEF q
<1>. QED BY <1>2, <1>3, <1>4 DEF t

\* An average of numbers is a number.
LEMMA AverageIsNumber ==
    ASSUME NEW N \in Nat \ {0}, NEW v \in [1..N -> Nat]
    PROVE  Mean(v) \in Nat
<1>1. Len(v) = N /\ v # <<>>
  BY LengthOf
<1>2. Total(v) \in Nat
  BY TotalsCompare
<1>. QED BY <1>1, <1>2 DEF Mean

\* Ratios are between nothing and one, and exact at both ends.
LEMMA Ratios ==
    ASSUME NEW d \in Nat \ {0}, NEW n \in 0..d
    PROVE  /\ Ratio(n, d) \in 0..Scale /\ (Ratio(n, d) = Scale <=> n = d)
           /\ d =< Scale => (Ratio(n, d) = 0 <=> n = 0)
<1>. DEFINE t == Scale * n
<1>1. Ratio(n, d) = t \div d
  BY DEF Ratio
<1>2. Scale \in Nat \ {0}
  BY MetricsAssumption
<1>3. t \in Nat /\ t =< Scale * d /\ (t = Scale * d <=> n = d)
      /\ (n # 0 => t >= Scale) /\ (n = 0 => t = 0)
  BY <1>2
<1>. HIDE DEF t
<1>. DEFINE q == t \div d
<1>4. d * q =< t /\ t < d * q + d /\ q \in Nat
  BY <1>3
<1>. HIDE DEF q
<1>5. q =< Scale /\ (q = Scale <=> t = Scale * d)
  BY <1>2, <1>3, <1>4
<1>6. d =< Scale => (q = 0 <=> n = 0)
  BY <1>2, <1>3, <1>4
<1>. QED BY <1>1, <1>3, <1>4, <1>5, <1>6 DEF q

\* So are harmonic means.
LEMMA HarmonicMeans ==
    ASSUME NEW p \in 0..Scale, NEW r \in 0..Scale
    PROVE  /\ Harmonic(p, r) \in 0..Scale
           /\ Harmonic(p, r) = Scale <=> p = Scale /\ r = Scale
           /\ p # 0 /\ r # 0 => Harmonic(p, r) # 0
<1>1. Scale \in Nat \ {0} /\ p \in Nat /\ r \in Nat /\ p # Undefined /\ r # Undefined
  BY MetricsAssumption DEF Undefined
<1>2. CASE p + r = 0
  <2>1. Harmonic(p, r) = 0 /\ p = 0 /\ r = 0
    BY <1>1, <1>2 DEF Harmonic
  <2>. QED BY <1>1, <2>1
<1>3. CASE p + r > 0
  <2>. DEFINE t == 2 * p * r
              q == t \div (p + r)
  <2>1. Harmonic(p, r) = q
    BY <1>1, <1>3 DEF Harmonic
  <2>2. t \in Nat /\ t =< (p + r) * Scale /\ (t = (p + r) * Scale <=> p = Scale /\ r = Scale)
        /\ (p # 0 /\ r # 0 => t >= p + r)
    <3>1. t \in Nat /\ t =< (p + r) * Scale
      BY <1>1
    <3>2. t = (p + r) * Scale <=> p = Scale /\ r = Scale
      BY <1>1, <1>3
    <3>3. p # 0 /\ r # 0 => t >= p + r
      BY <1>1
    <3>. QED BY <3>1, <3>2, <3>3
  <2>. DEFINE d == p + r
  <2>3. d \in Nat \ {0}
    BY <1>1, <1>3
  <2>. HIDE DEF t, d
  <2>4. d * (t \div d) =< t /\ t < d * (t \div d) + d /\ (t \div d) \in Nat
    BY <2>2, <2>3
  <2>5. d * q =< t /\ t < d * q + d /\ q \in Nat
    BY <2>4 DEF d
  <2>. HIDE DEF q
  <2>6. q =< Scale /\ (q = Scale <=> t = d * Scale)
    BY <1>1, <2>2, <2>3, <2>5 DEF d
  <2>7. p # 0 /\ r # 0 => q # 0
    BY <2>2, <2>3, <2>5 DEF d
  <2>. QED BY <2>1, <2>2, <2>5, <2>6, <2>7 DEF d
<1>. QED BY <1>1, <1>2, <1>3

\* The mean that is undefined if both are nothing is not nothing.
LEMMA MicroMeans ==
    ASSUME NEW p \in 0..Scale, NEW r \in 0..Scale, p = 0 <=> r = 0
    PROVE  (IF p = Undefined \/ r = Undefined \/ p + r = 0 THEN Undefined ELSE Harmonic(p, r))
              \in {Undefined} \cup 1..Scale
<1>1. Scale \in Nat /\ p \in Int /\ r \in Int /\ p # Undefined /\ r # Undefined
  BY MetricsAssumption DEF Undefined
<1>2. CASE p = 0
  <2>1. p + r = 0
    BY <1>1, <1>2
  <2>. QED BY <2>1
<1>3. CASE p # 0
  <2>1. p + r # 0
    BY <1>1, <1>3
  <2>. DEFINE h == Harmonic(p, r)
  <2>2. h \in 0..Scale /\ h # 0
    BY <1>3, HarmonicMeans
  <2>. HIDE DEF h
  <2>3. h \in 1..Scale
    BY <1>1, <2>2
  <2>. QED BY <1>1, <2>1, <2>3 DEF h
<1>. QED BY <1>2, <1>3

\* Some of the first numbers, in two parts.
LEMMA PartsOf ==
    ASSUME NEW n \in Nat, NEW S \in SUBSET (1..n), NEW T
    PROVE  /\ IsFiniteSet(S) /\ Cardinality(S) \in 0..n /\ (Cardinality(S) = 0 <=> S = {})
           /\ Cardinality(S \cap T) \in Nat /\ Cardinality(S \ T) \in Nat
           /\ Cardinality(S) = Cardinality(S \cap T) + Cardinality(S \ T)
           /\ Cardinality(S \ T) = 0 <=> S \subseteq T
<1>1. IsFiniteSet(1..n) /\ Cardinality(1..n) = n
  BY FS_Interval
<1>2. IsFiniteSet(S) /\ Cardinality(S) =< n /\ Cardinality(S) \in Nat
  BY <1>1, FS_Subset, FS_CardinalityType
<1>3. Cardinality(S) = 0 <=> S = {}
  BY <1>2, FS_EmptySet
<1>4. /\ IsFiniteSet(S \ T) /\ Cardinality(S \ T) = Cardinality(S) - Cardinality(S \cap T)
      /\ IsFiniteSet(S \cap T)
  BY <1>2, FS_Difference, FS_Intersection
<1>5. Cardinality(S \ T) \in Nat /\ Cardinality(S \cap T) \in Nat
  BY <1>4, FS_CardinalityType
<1>6. Cardinality(S \ T) = 0 <=> S \ T = {}
  BY <1>4, FS_EmptySet
<1>7. S \ T = {} <=> S \subseteq T
  OBVIOUS
<1>8. Cardinality(S) \in 0..n /\ Cardinality(S) = Cardinality(S \cap T) + Cardinality(S \ T)
  BY <1>2, <1>4, <1>5
<1>. QED BY <1>2, <1>3, <1>5, <1>6, <1>7, <1>8

-----------------------------------------------------------------------------
(* Metrics.                                                                *)

\* Targets, predictions and scores of n records and w labels, for which Scale is fine enough.
Tables(true, pred, score, n, w) ==
    /\ n \in Nat \ {0} /\ w \in Nat \ {0} /\ n * w =< Scale /\ n =< Scale
    /\ true \in [1..n -> [1..w -> {0, 1}]] /\ pred \in [1..n -> [1..w -> {0, 1}]]
    /\ score \in [1..n -> [1..w -> 0..Unit]]

\* The metrics of a label: its counts add up, its F1 is one if it is there and every
\* prediction of it is right, and the average precision is defined if it is there.
LEMMA MetricsOfLabel ==
    ASSUME NEW true, NEW pred, NEW score, NEW n, NEW w, Tables(true, pred, score, n, w),
           NEW l \in 1..w
    PROVE  LET m == PerLabel(true, pred, score, l)
           IN /\ {m.tp, m.fp, m.fn} \subseteq Nat /\ m.tp + m.fp =< n /\ m.tp + m.fn =< n
              /\ m.f1 \in {Undefined} \cup 0..Scale
              /\ m.f1 = Scale <=> /\ \E i \in 1..n : true[i][l] = 1
                                  /\ \A i \in 1..n : true[i][l] = pred[i][l]
              /\ m.ap \in {Undefined} \cup Nat
              /\ m.ap = Undefined <=> \A i \in 1..n : true[i][l] = 0
<1>. DEFINE rows == DOMAIN true
            P == {i \in rows : true[i][l] = 1}
            Q == {i \in rows : pred[i][l] = 1}
            tp == Cardinality(P \cap Q)
            precision == Ratio(tp, Cardinality(Q))
            recall == Ratio(tp, Cardinality(P))
            column == [i \in rows |-> score[i][l]]
            m == PerLabel(true, pred, score, l)
<1>1. /\ n \in Nat /\ n # 0 /\ rows = 1..n /\ P \in SUBSET (1..n) /\ Q \in SUBSET (1..n)
      /\ n =< Scale /\ DOMAIN score = 1..n /\ score # <<>>
  BY DEF Tables
<1>2. /\ \A i \in 1..n : true[i][l] \in {0, 1} /\ pred[i][l] \in {0, 1} /\ score[i][l] \in 0..Unit
      /\ \A i \in 1..n : (i \in P <=> true[i][l] = 1) /\ (i \in Q <=> pred[i][l] = 1)
  BY <1>1 DEF Tables
<1>3. /\ m.tp = tp /\ m.fp = Cardinality(Q \ P) /\ m.fn = Cardinality(P \ Q)
      /\ m.f1 = Harmonic(precision, recall)
      /\ m.ap = AveragePrecision(P, column)
  BY <1>1 DEF PerLabel
<1>. HIDE DEF m, P, Q
<1>4. /\ Cardinality(P) \in 0..n /\ (Cardinality(P) = 0 <=> P = {}) /\ tp \in Nat
      /\ Cardinality(P \ Q) \in Nat /\ Cardinality(P) = tp + Cardinality(P \ Q)
      /\ (Cardinality(P \ Q) = 0 <=> P \subseteq Q) /\ IsFiniteSet(P)
  BY <1>1, PartsOf
<1>5. /\ Cardinality(Q) \in 0..n /\ (Cardinality(Q) = 0 <=> Q = {})
      /\ Cardinality(Q \ P) \in Nat /\ Cardinality(Q) = tp + Cardinality(Q \ P)
      /\ (Cardinality(Q \ P) = 0 <=> Q \subseteq P)
  <2>1. P \cap Q = Q \cap P
    OBVIOUS
  <2>. QED BY <1>1, <2>1, PartsOf
<1>6. {m.tp, m.fp, m.fn} \subseteq Nat /\ m.tp + m.fp =< n /\ m.tp + m.fn =< n
  BY <1>3, <1>4, <1>5
<1>7. m.f1 \in {Undefined} \cup 0..Scale /\ (m.f1 = Scale <=> P # {} /\ P = Q)
  <2>0. Scale \in Nat /\ Scale # Undefined
    BY MetricsAssumption DEF Undefined
  <2>1. CASE Cardinality(P) = 0 \/ Cardinality(Q) = 0
    <3>1. precision = Undefined \/ recall = Undefined
      BY <2>1 DEF Ratio
    <3>2. m.f1 = Undefined
      BY <1>3, <3>1 DEF Harmonic
    <3>. QED BY <1>4, <1>5, <2>0, <2>1, <3>2
  <2>2. CASE Cardinality(P) # 0 /\ Cardinality(Q) # 0
    <3>1. tp \in 0..Cardinality(P) /\ tp \in 0..Cardinality(Q)
      BY <1>4, <1>5
    <3>2. /\ precision \in 0..Scale /\ (precision = Scale <=> tp = Cardinality(Q))
          /\ recall \in 0..Scale /\ (recall = Scale <=> tp = Cardinality(P))
      <4>. HIDE DEF tp
      <4>. QED BY <1>4, <1>5, <2>2, <3>1, Ratios
    <3>3. m.f1 \in 0..Scale /\ (m.f1 = Scale <=> precision = Scale /\ recall = Scale)
      <4>. HIDE DEF precision, recall
      <4>. QED BY <1>3, <3>2, HarmonicMeans
    <3>4. tp = Cardinality(Q) <=> Q \subseteq P
      BY <1>5
    <3>5. tp = Cardinality(P) <=> P \subseteq Q
      BY <1>4
    <3>. QED BY <1>4, <2>2, <3>2, <3>3, <3>4, <3>5
  <2>. QED BY <1>4, <1>5, <2>1, <2>2
<1>8. (P # {} /\ P = Q) <=> /\ \E i \in 1..n : true[i][l] = 1
                            /\ \A i \in 1..n : true[i][l] = pred[i][l]
  <2>1. P # {} <=> \E i \in 1..n : true[i][l] = 1
    BY <1>1, <1>2
  <2>2. P = Q <=> \A i \in 1..n : true[i][l] = pred[i][l]
    BY <1>1, <1>2
  <2>. QED BY <2>1, <2>2
<1>9. P = {} <=> \A i \in 1..n : true[i][l] = 0
  BY <1>1, <1>2
<1>10. m.ap \in {Undefined} \cup Nat /\ (m.ap = Undefined <=> P = {})
  <2>1. CASE P = {}
    BY <1>3, <2>1 DEF AveragePrecision
  <2>2. CASE P # {}
    <3>. DEFINE above(i) == {j \in DOMAIN column : column[j] >= column[i]}
                term(i) == Ratio(Cardinality(above(i) \cap P), Cardinality(above(i)))
                v == [i \in DOMAIN column |-> IF i \in P THEN term(i) ELSE 0]
    <3>1. m.ap = Total(v) \div Cardinality(P)
      BY <1>3, <2>2 DEF AveragePrecision
    <3>2. ASSUME NEW i \in P PROVE term(i) \in Nat
      <4>1. i \in 1..n /\ i \in above(i) /\ above(i) \in SUBSET (1..n)
        BY <1>1, <1>2
      <4>. DEFINE A == above(i)
      <4>. HIDE DEF above
      <4>2. /\ Cardinality(A) \in Nat /\ Cardinality(A) # 0 /\ Cardinality(A \cap P) \in Nat
            /\ Cardinality(A \ P) \in Nat
            /\ Cardinality(A) = Cardinality(A \cap P) + Cardinality(A \ P)
        <5>1. A \in SUBSET (1..n) /\ A # {}
          BY <4>1
        <5>. HIDE DEF A
        <5>2. /\ Cardinality(A) \in 0..n /\ (Cardinality(A) = 0 <=> A = {})
              /\ Cardinality(A \cap P) \in Nat /\ Cardinality(A \ P) \in Nat
              /\ Cardinality(A) = Cardinality(A \cap P) + Cardinality(A \ P)
          BY <1>1, <5>1, PartsOf
        <5>. DEFINE a == Cardinality(A)
                    b == Cardinality(A \cap P)
                    c == Cardinality(A \ P)
        <5>3. a \in 0..n /\ a # 0 /\ b \in Nat /\ c \in Nat /\ a = b + c
          BY <5>1, <5>2
        <5>. HIDE DEF a, b, c
        <5>4. a \in Nat /\ a # 0 /\ b \in Nat /\ c \in Nat /\ a = b + c
          BY <1>1, <5>3
        <5>. QED BY <5>4 DEF a, b, c
      <4>3. Cardinality(A \cap P) \in 0..Cardinality(A) /\ Cardinality(A) \in Nat \ {0}
        BY <4>2
      <4>. HIDE DEF A
      <4>4. Ratio(Cardinality(A \cap P), Cardinality(A)) \in 0..Scale
        BY <4>3, Ratios
      <4>. QED BY <4>4, MetricsAssumption DEF A
    <3>. HIDE DEF term
    <3>3. v \in [1..n -> Nat]
      BY <1>1, <3>2
    <3>. HIDE DEF v
    <3>4. Total(v) \in Nat
      BY <1>1, <3>3, TotalsCompare
    <3>5. Total(v) \div Cardinality(P) \in Nat
      BY <1>4, <2>2, <3>4
    <3>. QED BY <2>2, <3>1, <3>5 DEF Undefined
  <2>. QED BY <2>1, <2>2
<1>. QED BY <1>6, <1>7, <1>8, <1>9, <1>10 DEF m

\* What the metrics of a split say.
Sound(m, true, pred, n, w) ==
    /\ m.macroF1 \in 0..Scale
    /\ m.macroF1 = Scale <=> \A l \in 1..w : /\ \E i \in 1..n : true[i][l] = 1
                                             /\ \A i \in 1..n : true[i][l] = pred[i][l]
    /\ m.microF1 \in {Undefined} \cup 1..Scale
    /\ m.macroAP \in {Undefined} \cup Nat
    /\ m.macroAP = Undefined <=> \A l \in 1..w : \A i \in 1..n : true[i][l] = 0
    /\ m.samplesF1 \in Nat /\ m.subset \in Nat
    /\ m.hamming \in Nat
    /\ m.hamming = 0 <=> \A l \in 1..w : \A i \in 1..n : true[i][l] = pred[i][l]

\* The average over the labels for which a value is defined.
LEMMA DefinedAverages ==
    ASSUME NEW w \in Nat \ {0}, NEW v \in [1..w -> {Undefined} \cup Nat]
    PROVE  /\ MacroDefinedOnly(v) \in {Undefined} \cup Nat
           /\ MacroDefinedOnly(v) = Undefined <=> \A l \in 1..w : v[l] = Undefined
<1>. DEFINE defined == {k \in DOMAIN v : v[k] # Undefined}
            z == ZeroFilled(v)
<1>1. z \in [1..w -> Nat]
  BY DEF ZeroFilled, Undefined
<1>2. defined \in SUBSET (1..w)
  OBVIOUS
<1>3. defined = {} <=> \A l \in 1..w : v[l] = Undefined
  OBVIOUS
<1>4. MacroDefinedOnly(v) = IF defined = {} THEN Undefined ELSE Total(z) \div Cardinality(defined)
  BY DEF MacroDefinedOnly
<1>. HIDE DEF defined, z
<1>5. Cardinality(defined) \in Nat /\ (Cardinality(defined) = 0 <=> defined = {})
  <2>1. Cardinality(defined) \in 0..w /\ (Cardinality(defined) = 0 <=> defined = {})
    BY <1>2, PartsOf
  <2>. QED BY <2>1
<1>6. Total(z) \in Nat
  BY <1>1, TotalIsNumber
<1>7. defined # {} => Total(z) \div Cardinality(defined) \in Nat
  BY <1>5, <1>6
<1>. QED BY <1>3, <1>4, <1>7 DEF Undefined

\* The mean F1 of the records is a number.
LEMMA SamplesAreScored ==
    ASSUME NEW true, NEW pred, NEW score, NEW n, NEW w, Tables(true, pred, score, n, w)
    PROVE  SamplesF1(true, pred) \in Nat
<1>. DEFINE common(i) == Total([l \in DOMAIN true[i] |-> true[i][l] * pred[i][l]])
            all(i) == Total([l \in DOMAIN true[i] |-> true[i][l] + pred[i][l]])
            v == [i \in DOMAIN true |-> IF all(i) = 0 THEN Scale ELSE Ratio(2 * common(i), all(i))]
<1>1. SamplesF1(true, pred) = Mean(v)
  BY DEF SamplesF1
<1>2. ASSUME NEW i \in 1..n PROVE common(i) \in Nat /\ all(i) \in Nat
  <2>. DEFINE both == [l \in DOMAIN true[i] |-> true[i][l] * pred[i][l]]
              sum == [l \in DOMAIN true[i] |-> true[i][l] + pred[i][l]]
  <2>1. DOMAIN true[i] = 1..w /\ w \in Nat
    BY DEF Tables
  <2>2. \A l \in 1..w : true[i][l] \in {0, 1} /\ pred[i][l] \in {0, 1}
    BY DEF Tables
  <2>3. \A l \in 1..w : true[i][l] * pred[i][l] \in Nat /\ true[i][l] + pred[i][l] \in Nat
    BY <2>2
  <2>4. both \in [1..w -> Nat] /\ sum \in [1..w -> Nat]
    BY <2>1, <2>3
  <2>. HIDE DEF both, sum
  <2>5. Total(both) \in Nat /\ Total(sum) \in Nat
    BY <2>1, <2>4, TotalIsNumber
  <2>. QED BY <2>5 DEF both, sum
<1>. HIDE DEF common, all
<1>3. Scale \in Nat \ {0}
  BY MetricsAssumption
<1>4. ASSUME NEW i \in 1..n, all(i) # 0 PROVE Ratio(2 * common(i), all(i)) \in Nat
  <2>1. 2 * common(i) \in Nat /\ all(i) \in Nat \ {0}
    BY <1>2, <1>4
  <2>2. Scale * (2 * common(i)) \in Nat
    BY <1>3, <2>1
  <2>. QED BY <1>4, <2>1, <2>2 DEF Ratio
<1>5. v \in [1..n -> Nat] /\ n \in Nat \ {0}
  BY <1>3, <1>4 DEF Tables
<1>. HIDE DEF v
<1>. QED BY <1>1, <1>5, AverageIsNumber

\* The metrics of a split are sound.
LEMMA MetricsAreSound ==
    ASSUME NEW true, NEW pred, NEW score, NEW n, NEW w, Tables(true, pred, score, n, w)
    PROVE  Sound(SplitMetrics(true, pred, score), true, pred, n, w)
<1>. DEFINE m == SplitMetrics(true, pred, score)
            per == [l \in DOMAIN true[1] |-> PerLabel(true, pred, score, l)]
            labels == DOMAIN per
            tps == [l \in labels |-> per[l].tp]
            ps == [l \in labels |-> per[l].tp + per[l].fp]
            rs == [l \in labels |-> per[l].tp + per[l].fn]
            f1s == [l \in labels |-> per[l].f1]
            aps == [l \in labels |-> per[l].ap]
            tp == Total(tps)
            p == Ratio(tp, Total(ps))
            r == Ratio(tp, Total(rs))
            cells == (DOMAIN true) \X labels
            wrong == {c \in cells : true[c[1]][c[2]] # pred[c[1]][c[2]]}
            equal == {i \in DOMAIN true : true[i] = pred[i]}
<1>1. /\ n \in Nat \ {0} /\ w \in Nat \ {0} /\ n * w =< Scale
      /\ DOMAIN true = 1..n /\ DOMAIN true[1] = 1..w
      /\ Scale \in Nat \ {0}
  BY MetricsAssumption DEF Tables
<1>2. labels = 1..w
  BY <1>1
<1>3. /\ m.macroF1 = MacroZeroFilled(f1s)
      /\ m.microF1 = (IF p = Undefined \/ r = Undefined \/ p + r = 0 THEN Undefined
                      ELSE Harmonic(p, r))
      /\ m.macroAP = MacroDefinedOnly(aps)
      /\ m.samplesF1 = SamplesF1(true, pred)
      /\ m.subset = Ratio(Cardinality(equal), Len(true))
      /\ m.hamming = Ratio(Cardinality(wrong), Cardinality(cells))
  BY DEF SplitMetrics, Aggregate
<1>4. ASSUME NEW l \in 1..w
      PROVE  /\ {per[l].tp, per[l].fp, per[l].fn} \subseteq Nat
             /\ per[l].tp + per[l].fp =< n /\ per[l].tp + per[l].fn =< n
             /\ per[l].f1 \in {Undefined} \cup 0..Scale
             /\ per[l].f1 = Scale <=> /\ \E i \in 1..n : true[i][l] = 1
                                      /\ \A i \in 1..n : true[i][l] = pred[i][l]
             /\ per[l].ap \in {Undefined} \cup Nat
             /\ per[l].ap = Undefined <=> \A i \in 1..n : true[i][l] = 0
  <2>. DEFINE x == PerLabel(true, pred, score, l)
  <2>1. per[l] = x
    BY <1>1
  <2>2. /\ {x.tp, x.fp, x.fn} \subseteq Nat
        /\ x.tp + x.fp =< n /\ x.tp + x.fn =< n
        /\ x.f1 \in {Undefined} \cup 0..Scale
        /\ x.f1 = Scale <=> /\ \E i \in 1..n : true[i][l] = 1
                            /\ \A i \in 1..n : true[i][l] = pred[i][l]
        /\ x.ap \in {Undefined} \cup Nat
        /\ x.ap = Undefined <=> \A i \in 1..n : true[i][l] = 0
    BY MetricsOfLabel
  <2>. HIDE DEF x, per
  <2>. QED BY <2>1, <2>2
<1>. HIDE DEF m, per
<1>5. /\ m.macroF1 \in 0..Scale
      /\ m.macroF1 = Scale <=> \A l \in 1..w : per[l].f1 = Scale
  <2>. DEFINE v == ZeroFilled(f1s)
  <2>1. \A l \in 1..w : v[l] = IF per[l].f1 = Undefined THEN 0 ELSE per[l].f1
    BY <1>2 DEF ZeroFilled
  <2>2. v \in [1..w -> Nat] /\ \A l \in 1..w : v[l] =< Scale /\ (v[l] = Scale <=> per[l].f1 = Scale)
    <3>1. \A l \in 1..w : v[l] \in Nat /\ v[l] =< Scale /\ (v[l] = Scale <=> per[l].f1 = Scale)
      <4>. HIDE DEF v
      <4>. SUFFICES ASSUME NEW l \in 1..w
                    PROVE  v[l] \in Nat /\ v[l] =< Scale /\ (v[l] = Scale <=> per[l].f1 = Scale)
        OBVIOUS
      <4>1. per[l].f1 \in {Undefined} \cup 0..Scale
        BY <1>4
      <4>. DEFINE f == per[l].f1
      <4>2. v[l] = IF f = Undefined THEN 0 ELSE f
        BY <2>1
      <4>. HIDE DEF f
      <4>3. f \in {Undefined} \cup 0..Scale
        BY <4>1 DEF f
      <4>4. v[l] \in Nat /\ v[l] =< Scale /\ (v[l] = Scale <=> f = Scale)
        BY <1>1, <4>2, <4>3 DEF Undefined
      <4>. QED BY <4>4 DEF f
    <3>2. DOMAIN v = 1..w /\ v = [l \in 1..w |-> v[l]]
      BY <1>2 DEF ZeroFilled
    <3>. HIDE DEF v
    <3>. QED BY <3>1, <3>2
  <2>3. m.macroF1 = Mean(v)
    BY <1>3 DEF MacroZeroFilled
  <2>. HIDE DEF v
  <2>4. Mean(v) \in 0..Scale /\ (Mean(v) = Scale <=> \A l \in 1..w : v[l] = Scale)
    <3>1. v \in [1..w -> Nat] /\ \A l \in 1..w : v[l] =< Scale
      BY <2>2
    <3>2. w \in Nat \ {0} /\ Scale \in Nat
      BY <1>1
    <3>. QED BY <3>1, <3>2, Averages
  <2>. QED BY <2>2, <2>3, <2>4
<1>6. m.microF1 \in {Undefined} \cup 1..Scale
  <2>0. m.microF1 = (IF p = Undefined \/ r = Undefined \/ p + r = 0 THEN Undefined
                     ELSE Harmonic(p, r))
    BY <1>3
  <2>1. /\ tps \in [1..w -> Nat] /\ ps \in [1..w -> Nat] /\ rs \in [1..w -> Nat]
        /\ \A l \in 1..w : tps[l] =< ps[l] /\ tps[l] =< rs[l] /\ ps[l] =< n /\ rs[l] =< n
    <3>1. /\ tps = [l \in 1..w |-> per[l].tp] /\ ps = [l \in 1..w |-> per[l].tp + per[l].fp]
          /\ rs = [l \in 1..w |-> per[l].tp + per[l].fn]
      BY <1>2
    <3>2. ASSUME NEW l \in 1..w
          PROVE  /\ per[l].tp \in Nat /\ per[l].tp + per[l].fp \in Nat /\ per[l].tp + per[l].fn \in Nat
                 /\ per[l].tp =< per[l].tp + per[l].fp /\ per[l].tp =< per[l].tp + per[l].fn
                 /\ per[l].tp + per[l].fp =< n /\ per[l].tp + per[l].fn =< n
      <4>1. per[l].tp \in Nat /\ per[l].fp \in Nat /\ per[l].fn \in Nat
            /\ per[l].tp + per[l].fp =< n /\ per[l].tp + per[l].fn =< n
        BY <1>4
      <4>. QED BY <4>1
    <3>. HIDE DEF tps, ps, rs
    <3>. QED BY <3>1, <3>2
  <2>. HIDE DEF tps, ps, rs
  <2>2. tp \in Nat /\ Total(ps) \in Nat /\ tp =< Total(ps) /\ Total(ps) =< w * n
    <3>1. Total(ps) \in 0..(w * n)
      BY <1>1, <2>1, TotalBounds
    <3>2. tp \in Nat /\ Total(ps) \in Nat /\ tp =< Total(ps)
      BY <1>1, <2>1, TotalsCompare
    <3>. QED BY <1>1, <3>1, <3>2
  <2>3. Total(rs) \in Nat /\ tp =< Total(rs) /\ Total(rs) =< w * n
    <3>1. Total(rs) \in 0..(w * n)
      BY <1>1, <2>1, TotalBounds
    <3>2. Total(rs) \in Nat /\ tp =< Total(rs)
      BY <1>1, <2>1, TotalsCompare
    <3>. QED BY <1>1, <3>1, <3>2
  <2>4. w * n = n * w /\ w * n \in Nat
    BY <1>1
  <2>. DEFINE tq == Total(ps)
              tr == Total(rs)
  <2>. HIDE DEF tp, tq, tr
  <2>5. CASE tq = 0 \/ tr = 0
    <3>1. p = Undefined \/ r = Undefined
      BY <2>5 DEF Ratio, tq, tr
    <3>. HIDE DEF p, r
    <3>. QED BY <2>0, <3>1
  <2>6. CASE tq # 0 /\ tr # 0
    <3>1. tp \in 0..tq /\ tp \in 0..tr /\ tq \in Nat \ {0} /\ tr \in Nat \ {0}
          /\ tq =< Scale /\ tr =< Scale
      BY <1>1, <2>2, <2>3, <2>4, <2>6 DEF tq, tr
    <3>2. /\ p \in 0..Scale /\ (p = 0 <=> tp = 0)
          /\ r \in 0..Scale /\ (r = 0 <=> tp = 0)
      BY <3>1, Ratios DEF tq, tr
    <3>. HIDE DEF p, r
    <3>3. (IF p = Undefined \/ r = Undefined \/ p + r = 0 THEN Undefined ELSE Harmonic(p, r))
             \in {Undefined} \cup 1..Scale
      BY <3>2, MicroMeans
    <3>. QED BY <2>0, <3>3
  <2>. QED BY <2>5, <2>6
<1>7. /\ m.macroAP \in {Undefined} \cup Nat
      /\ m.macroAP = Undefined <=> \A l \in 1..w : per[l].ap = Undefined
  <2>1. aps \in [1..w -> {Undefined} \cup Nat] /\ \A l \in 1..w : aps[l] = per[l].ap
    BY <1>2, <1>4
  <2>. HIDE DEF aps
  <2>2. /\ MacroDefinedOnly(aps) \in {Undefined} \cup Nat
        /\ MacroDefinedOnly(aps) = Undefined <=> \A l \in 1..w : aps[l] = Undefined
    BY <1>1, <2>1, DefinedAverages
  <2>. QED BY <1>3, <2>1, <2>2
<1>8. m.samplesF1 \in Nat
  BY <1>3, SamplesAreScored
<1>9. m.subset \in Nat
  <2>1. Len(true) = n
    BY <1>1, LengthOf DEF Tables
  <2>2. equal \in SUBSET (1..n)
    BY <1>1
  <2>. HIDE DEF equal
  <2>3. Cardinality(equal) \in 0..n
    BY <1>1, <2>2, PartsOf
  <2>. DEFINE e == Cardinality(equal)
  <2>. HIDE DEF e
  <2>4. Ratio(e, n) \in 0..Scale
    BY <1>1, <2>3, Ratios DEF e
  <2>. QED BY <1>1, <1>3, <2>1, <2>4 DEF e
<1>10. /\ m.hamming \in Nat
       /\ m.hamming = 0 <=> \A l \in 1..w : \A i \in 1..n : true[i][l] = pred[i][l]
  <2>1. /\ IsFiniteSet(1..n) /\ Cardinality(1..n) = n
        /\ IsFiniteSet(1..w) /\ Cardinality(1..w) = w
    BY <1>1, FS_Interval
  <2>2. cells = (1..n) \X (1..w)
    BY <1>1, <1>2
  <2>3. IsFiniteSet(cells) /\ Cardinality(cells) = n * w
    <3>1. IsFiniteSet((1..n) \X (1..w)) /\ Cardinality((1..n) \X (1..w)) = Cardinality(1..n) * Cardinality(1..w)
      BY <2>1, FS_Product
    <3>. HIDE DEF cells
    <3>. QED BY <2>1, <2>2, <3>1
  <2>4. wrong \in SUBSET cells
    OBVIOUS
  <2>5. wrong = {} <=> \A l \in 1..w : \A i \in 1..n : true[i][l] = pred[i][l]
    <3>1. ASSUME wrong = {}, NEW l \in 1..w, NEW i \in 1..n PROVE true[i][l] = pred[i][l]
      <4>1. <<i, l>> \in cells /\ <<i, l>> \notin wrong
        BY <2>2, <3>1
      <4>. QED BY <4>1
    <3>2. ASSUME NEW c \in wrong
          PROVE  \E l \in 1..w : \E i \in 1..n : true[i][l] # pred[i][l]
      <4>1. c[1] \in 1..n /\ c[2] \in 1..w /\ true[c[1]][c[2]] # pred[c[1]][c[2]]
        BY <2>2
      <4>. QED BY <4>1
    <3>. HIDE DEF wrong
    <3>. QED BY <3>1, <3>2
  <2>. HIDE DEF wrong, cells
  <2>6. /\ IsFiniteSet(wrong) /\ Cardinality(wrong) =< Cardinality(cells)
        /\ Cardinality(wrong) \in Nat /\ (Cardinality(wrong) = 0 <=> wrong = {})
    BY <2>3, <2>4, FS_Subset, FS_CardinalityType, FS_EmptySet
  <2>. DEFINE e == Cardinality(wrong)
              d == n * w
  <2>7. d \in Nat \ {0} /\ d =< Scale /\ e \in 0..d
    BY <1>1, <2>3, <2>6
  <2>8. m.hamming = Ratio(e, d)
    BY <1>3, <2>3
  <2>9. e = 0 <=> wrong = {}
    BY <2>6
  <2>. HIDE DEF e, d
  <2>10. Ratio(e, d) \in 0..Scale /\ (Ratio(e, d) = 0 <=> e = 0)
    BY <2>7, Ratios
  <2>. QED BY <1>1, <2>5, <2>8, <2>9, <2>10
<1>. QED BY <1>4, <1>5, <1>6, <1>7, <1>8, <1>9, <1>10 DEF Sound, m

-----------------------------------------------------------------------------
(* Selections.                                                             *)

\* Keys of one length are ordered by the first number that differs.
LEMMA KeysAreOrdered ==
    ASSUME NEW m \in Nat, NEW s \in [1..m -> Int], NEW t \in [1..m -> Int]
    PROVE  /\ ~RanksBefore(s, s)
           /\ s # t => RanksBefore(s, t) \/ RanksBefore(t, s)
           /\ \A u \in [1..m -> Int] :
                 RanksBefore(s, t) /\ RanksBefore(t, u) => RanksBefore(s, u)
<1>1. ~RanksBefore(s, s)
  BY DEF RanksBefore
<1>2. s # t => RanksBefore(s, t) \/ RanksBefore(t, s)
  <2>. SUFFICES ASSUME s # t PROVE RanksBefore(s, t) \/ RanksBefore(t, s)
    OBVIOUS
  <2>. DEFINE same == {k \in Nat : k \in 1..m => s[k] = t[k]}
  <2>1. PICK j \in 1..m : s[j] # t[j]
    OBVIOUS
  <2>2. Nat \ same # {}
    BY <2>1
  <2>3. PICK k \in Nat \ same : \A i \in Nat : i < k => i \in same
    <3>. HIDE DEF same
    <3>. QED BY <2>2, FirstMissing
  <2>4. k \in 1..m /\ s[k] # t[k] /\ \A i \in 1..(k - 1) : s[i] = t[i]
    <3>1. k \in 1..m /\ s[k] # t[k]
      BY <2>3
    <3>2. \A i \in 1..(k - 1) : i \in Nat /\ i < k /\ i \in 1..m
      BY <3>1
    <3>3. \A i \in 1..(k - 1) : s[i] = t[i]
      BY <2>3, <3>2
    <3>. QED BY <3>1, <3>3
  <2>5. s[k] > t[k] \/ t[k] > s[k]
    BY <2>4
  <2>. QED BY <2>4, <2>5 DEF RanksBefore
<1>3. ASSUME NEW u \in [1..m -> Int], RanksBefore(s, t), RanksBefore(t, u)
      PROVE  RanksBefore(s, u)
  <2>1. PICK j \in 1..m : s[j] > t[j] /\ \A i \in 1..(j - 1) : s[i] = t[i]
    BY <1>3 DEF RanksBefore
  <2>2. PICK k \in 1..m : t[k] > u[k] /\ \A i \in 1..(k - 1) : t[i] = u[i]
    BY <1>3 DEF RanksBefore
  <2>3. CASE j < k
    <3>1. t[j] = u[j] /\ \A i \in 1..(j - 1) : t[i] = u[i]
      BY <2>2, <2>3
    <3>. QED BY <2>1, <3>1 DEF RanksBefore
  <2>4. CASE j = k
    <3>1. s[j] > u[j]
      BY <2>1, <2>2, <2>4
    <3>2. \A i \in 1..(j - 1) : s[i] = u[i]
      BY <2>1, <2>2, <2>4
    <3>. QED BY <3>1, <3>2 DEF RanksBefore
  <2>5. CASE k < j
    <3>1. s[k] = t[k] /\ \A i \in 1..(k - 1) : s[i] = t[i]
      BY <2>1, <2>5
    <3>. QED BY <2>2, <3>1 DEF RanksBefore
  <2>. QED BY <2>3, <2>4, <2>5
<1>. QED BY <1>1, <1>2, <1>3

\* The values of a function on a finite set are finitely many.
LEMMA ValuesAreFinite ==
    ASSUME NEW S, IsFiniteSet(S), NEW f
    PROVE  IsFiniteSet({f[x] : x \in S}) /\ Cardinality({f[x] : x \in S}) =< Cardinality(S)
<1>. DEFINE T == {f[x] : x \in S}
            g == [x \in S |-> f[x]]
<1>1. g \in Surjection(S, T)
  BY DEF Surjection
<1>. HIDE DEF g, T
<1>2. IsFiniteSet(T) /\ Cardinality(T) =< Cardinality(S)
  BY <1>1, FS_Surjection
<1>. QED BY <1>2 DEF T

\* Of finitely many with different keys BestOf is the one whose key ranks before all others.
LEMMA BestIsFirst ==
    ASSUME NEW S, IsFiniteSet(S), S # {}, NEW m \in Nat, NEW key \in [S -> [1..m -> Int]],
           \A x, y \in S : x # y => key[x] # key[y],
           NEW keyed, keyed = {<<x, key[x]>> : x \in S}
    PROVE  /\ BestOf(keyed) \in S
           /\ \A y \in S : y # BestOf(keyed) => RanksBefore(key[BestOf(keyed)], key[y])
<1>. DEFINE before == {p \in S \X S : RanksBefore(key[p[1]], key[p[2]])}
<1>1. \A x, y \in S : <<x, y>> \in before <=> RanksBefore(key[x], key[y])
  OBVIOUS
<1>. HIDE DEF before
<1>2. Orders(before, S)
  <2>1. \A x \in S : <<x, x>> \notin before
    <3>. TAKE x \in S
    <3>1. key[x] \in [1..m -> Int]
      OBVIOUS
    <3>2. ~RanksBefore(key[x], key[x])
      BY <3>1, KeysAreOrdered
    <3>. QED BY <1>1, <3>2
  <2>2. \A x, y \in S : x # y => <<x, y>> \in before \/ <<y, x>> \in before
    BY <1>1, KeysAreOrdered
  <2>3. \A x, y, z \in S : <<x, y>> \in before /\ <<y, z>> \in before => <<x, z>> \in before
    BY <1>1, KeysAreOrdered
  <2>. QED BY <2>1, <2>2, <2>3 DEF Orders
<1>3. PICK x \in S : \A y \in S : y = x \/ <<x, y>> \in before
  BY <1>2, FirstOfMany
<1>. DEFINE first(k) == \A other \in keyed \ {k} : RanksBefore(k[2], other[2])
            c == CHOOSE k \in keyed : first(k)
<1>4. <<x, key[x]>> \in keyed /\ first(<<x, key[x]>>)
  <2>1. ASSUME NEW other \in keyed \ {<<x, key[x]>>} PROVE RanksBefore(key[x], other[2])
    <3>1. PICK y \in S : other = <<y, key[y]>>
      OBVIOUS
    <3>2. y # x
      BY <3>1
    <3>3. RanksBefore(key[x], key[y])
      BY <1>1, <1>3, <3>2
    <3>. QED BY <3>1, <3>3
  <2>. QED BY <2>1
<1>5. c \in keyed /\ first(c)
  BY <1>4
<1>6. BestOf(keyed) = c[1]
  BY DEF BestOf
<1>. HIDE DEF c
<1>7. PICK z \in S : c = <<z, key[z]>>
  BY <1>5
<1>8. \A y \in S : y # z => <<y, key[y]>> \in keyed \ {c}
  BY <1>7
<1>9. \A y \in S : y # z => RanksBefore(key[z], key[y])
  BY <1>5, <1>7, <1>8
<1>. QED BY <1>6, <1>7, <1>9

-----------------------------------------------------------------------------
(* Predictions.                                                            *)

\* Records with their targets, predictions and scores.
RowsAre(records, n, w) ==
    /\ n \in Nat \ {0} /\ w \in Nat \ {0} /\ n * w =< Scale
    /\ DOMAIN records = 1..n /\ records = [i \in 1..n |-> records[i]]
    /\ \A i \in 1..n : /\ records[i].true \in [1..w -> {0, 1}]
                       /\ records[i].pred \in [1..w -> {0, 1}]
                       /\ records[i].score \in [1..w -> 0..Unit]

TrueOf(records) == [i \in DOMAIN records |-> records[i].true]
PredOf(records) == [i \in DOMAIN records |-> records[i].pred]
ScoreOf(records) == [i \in DOMAIN records |-> records[i].score]

\* What thresholds make of scores are predictions.
LEMMA ThresholdsDecide ==
    ASSUME NEW n \in Nat, NEW w \in Nat, NEW score \in [1..n -> [1..w -> 0..Unit]], NEW threshold
    PROVE  /\ Thresholded(score, threshold) \in [1..n -> [1..w -> {0, 1}]]
           /\ \A i \in 1..n : \A l \in 1..w :
                 Thresholded(score, threshold)[i][l] = 1 <=> Reaches(score[i][l], threshold)
<1>1. DOMAIN score = 1..n /\ \A i \in 1..n : DOMAIN score[i] = 1..w
  OBVIOUS
<1>2. Thresholded(score, threshold)
         = [i \in 1..n |-> [l \in 1..w |-> Bit(Reaches(score[i][l], threshold))]]
  BY <1>1 DEF Thresholded
<1>3. \A i \in 1..n : \A l \in 1..w :
         /\ Bit(Reaches(score[i][l], threshold)) \in {0, 1}
         /\ Bit(Reaches(score[i][l], threshold)) = 1 <=> Reaches(score[i][l], threshold)
  BY DEF Bit
<1>. QED BY <1>2, <1>3

\* There are at least as many cells as rows.
LEMMA RowsFit ==
    ASSUME NEW n \in Nat \ {0}, NEW w \in Nat \ {0}, n * w =< Scale
    PROVE  n =< Scale
<1>1. n =< n * w /\ Scale \in Nat
  BY MetricsAssumption
<1>. QED BY <1>1

\* The metrics of records are sound, with their own predictions or a threshold's.
LEMMA RowsAreSound ==
    ASSUME NEW records, NEW n, NEW w, RowsAre(records, n, w)
    PROVE  /\ Sound(MetricsFrom(records), TrueOf(records), PredOf(records), n, w)
           /\ \A threshold :
                 Sound(MetricsAt(records, threshold), TrueOf(records),
                       Thresholded(ScoreOf(records), threshold), n, w)
<1>1. /\ n \in Nat \ {0} /\ w \in Nat \ {0} /\ n * w =< Scale /\ n =< Scale
  BY RowsFit DEF RowsAre
<1>2. /\ TrueOf(records) \in [1..n -> [1..w -> {0, 1}]]
      /\ PredOf(records) \in [1..n -> [1..w -> {0, 1}]]
      /\ ScoreOf(records) \in [1..n -> [1..w -> 0..Unit]]
  BY DEF RowsAre, TrueOf, PredOf, ScoreOf
<1>3. Sound(MetricsFrom(records), TrueOf(records), PredOf(records), n, w)
  <2>1. Tables(TrueOf(records), PredOf(records), ScoreOf(records), n, w)
    BY <1>1, <1>2 DEF Tables
  <2>2. MetricsFrom(records) = SplitMetrics(TrueOf(records), PredOf(records), ScoreOf(records))
    BY DEF MetricsFrom, TrueOf, PredOf, ScoreOf
  <2>. QED BY <2>1, <2>2, MetricsAreSound
<1>4. ASSUME NEW threshold
      PROVE  Sound(MetricsAt(records, threshold), TrueOf(records),
                   Thresholded(ScoreOf(records), threshold), n, w)
  <2>. DEFINE pred == Thresholded(ScoreOf(records), threshold)
  <2>1. pred \in [1..n -> [1..w -> {0, 1}]]
    BY <1>1, <1>2, ThresholdsDecide
  <2>2. MetricsAt(records, threshold) = SplitMetrics(TrueOf(records), pred, ScoreOf(records))
    BY DEF MetricsAt, TrueOf, ScoreOf
  <2>. HIDE DEF pred
  <2>3. Tables(TrueOf(records), pred, ScoreOf(records), n, w)
    BY <1>1, <1>2, <2>1 DEF Tables
  <2>4. Sound(MetricsAt(records, threshold), TrueOf(records), pred, n, w)
    BY <2>2, <2>3, MetricsAreSound
  <2>. QED BY <2>4 DEF pred
<1>. QED BY <1>3, <1>4

\* The numbers that rank are numbers.
LEMMA SoundNumbers ==
    ASSUME NEW m, NEW true, NEW pred, NEW n, NEW w, Sound(m, true, pred, n, w)
    PROVE  /\ {m.macroAP, m.macroF1, m.microF1, m.subset, m.samplesF1} \subseteq Int
           /\ m.macroF1 \in Nat /\ m.microF1 # 0
           /\ m.macroAP # Undefined => m.macroAP \in Nat
  BY MetricsAssumption DEF Sound, Undefined

\* How many records and labels a split has.
RecordsIn(split) == Len(split.targets)
LabelsIn(split) == Len(split.targets[1])

\* The records of a split.
AreOf(records, split) ==
    /\ RowsAre(records, RecordsIn(split), LabelsIn(split))
    /\ \A i \in 1..RecordsIn(split) : records[i].true = split.targets[i]

\* Candidates are finitely many, each with its n-gram and weights.
LEMMA CandidatesAreKnown ==
    ASSUME NEW c \in BaselineConfigs
    PROVE  /\ IsFiniteSet(Ids(c)) /\ Ids(c) # {} /\ Ids(c) \subseteq Int
           /\ \A id \in Ids(c) : /\ CandidateOf(c, id).id = id /\ CandidateOf(c, id).ngram \in Int
                                 /\ CandidateOf(c, id).weighted \in BOOLEAN
<1>. DEFINE C == [id : Int, ngram : Int, weighted : BOOLEAN]
            s == c.candidates
<1>1. s \in Seq(C) /\ s # <<>>
  <2>1. \A b \in BaselineConfigs :
            b.candidates \in Seq([id : Int, ngram : Int, weighted : BOOLEAN]) /\ b.candidates # <<>>
    BY TrainingAssumption
  <2>. QED BY <2>1
<1>. HIDE DEF s
<1>2. Len(s) \in Nat /\ DOMAIN s = 1..Len(s) /\ \A k \in 1..Len(s) : s[k] \in C
  <2>. HIDE DEF C
  <2>. QED BY <1>1
<1>3. Len(s) # 0
  <2>. HIDE DEF C
  <2>. QED BY <1>1
<1>4. Ids(c) = {s[k].id : k \in 1..Len(s)}
  BY <1>2 DEF Ids, s
<1>5. IsFiniteSet(1..Len(s))
  BY <1>2, FS_Interval
<1>6. IsFiniteSet(Ids(c))
  <2>. DEFINE f == [k \in 1..Len(s) |-> s[k].id]
  <2>1. Ids(c) = {f[k] : k \in 1..Len(s)}
    BY <1>4
  <2>. HIDE DEF f
  <2>2. IsFiniteSet({f[k] : k \in 1..Len(s)})
    BY <1>5, ValuesAreFinite
  <2>. QED BY <2>1, <2>2
<1>7. Ids(c) # {} /\ Ids(c) \subseteq Int
  <2>1. 1 \in 1..Len(s)
    BY <1>2, <1>3
  <2>. QED BY <1>2, <1>4, <2>1
<1>8. ASSUME NEW id \in Ids(c)
      PROVE  CandidateOf(c, id) \in C /\ CandidateOf(c, id).id = id
  <2>1. PICK k \in 1..Len(s) : id = s[k].id
    BY <1>4
  <2>2. ToSet(s) = {s[j] : j \in 1..Len(s)}
    BY <1>2 DEF ToSet
  <2>3. \E x \in ToSet(s) : x.id = id
    BY <2>1, <2>2
  <2>4. CandidateOf(c, id) = CHOOSE x \in ToSet(s) : x.id = id
    BY DEF CandidateOf, s
  <2>5. CandidateOf(c, id) \in ToSet(s) /\ CandidateOf(c, id).id = id
    BY <2>3, <2>4
  <2>. QED BY <1>2, <2>2, <2>5
<1>. QED BY <1>6, <1>7, <1>8


\* A split has a target and every candidate's score for each record and label.
LEMMA SplitsAreSampled ==
    ASSUME NEW split \in Validations \cup Tests, NEW n, n = RecordsIn(split),
           NEW w, w = LabelsIn(split)
    PROVE  /\ n \in Nat \ {0} /\ w \in Nat \ {0} /\ n * w =< Scale
           /\ split.targets \in [1..n -> [1..w -> {0, 1}]]
           /\ \A c \in BaselineConfigs : \A id \in Ids(c) :
                 split.scores[id] \in [1..n -> [1..w -> 0..Unit]]
<1>1. Samples(split)
  BY TrainingAssumption
<1>2. \A c \in BaselineConfigs : Ids(c) \subseteq DOMAIN split.scores
  BY TrainingAssumption
<1>3. /\ {n, w} \subseteq Nat \ {0} /\ n * w =< Scale
      /\ split.targets \in [1..n -> [1..w -> {0, 1}]]
      /\ \A id \in DOMAIN split.scores : split.scores[id] \in [1..n -> [1..w -> 0..Unit]]
  BY <1>1 DEF Samples, RecordsIn, LabelsIn
<1>. QED BY <1>2, <1>3

\* The predictions of a candidate are records of the split, decided by its scores.
LEMMA PredictionsAreRows ==
    ASSUME NEW c \in BaselineConfigs, NEW id \in Ids(c), NEW split \in Validations \cup Tests,
           NEW records, records = PredictionsOf(split, id, c.threshold)
    PROVE  /\ AreOf(records, split)
           /\ \A i \in 1..RecordsIn(split) :
                 /\ records[i].score = split.scores[id][i]
                 /\ \A l \in 1..LabelsIn(split) :
                       records[i].pred[l] = 1 <=> Reaches(records[i].score[l], c.threshold)
<1>. DEFINE n == RecordsIn(split)
            w == LabelsIn(split)
            score == split.scores[id]
            pred == Thresholded(score, c.threshold)
<1>1. /\ n \in Nat \ {0} /\ w \in Nat \ {0} /\ n * w =< Scale
      /\ split.targets \in [1..n -> [1..w -> {0, 1}]] /\ score \in [1..n -> [1..w -> 0..Unit]]
  BY SplitsAreSampled
<1>. HIDE DEF n, w
<1>2. /\ pred \in [1..n -> [1..w -> {0, 1}]]
      /\ \A i \in 1..n : \A l \in 1..w : pred[i][l] = 1 <=> Reaches(score[i][l], c.threshold)
  <2>. HIDE DEF score
  <2>1. n \in Nat /\ w \in Nat
    BY <1>1
  <2>2. Thresholded(score, c.threshold) \in [1..n -> [1..w -> {0, 1}]]
    BY <1>1, <2>1, ThresholdsDecide
  <2>3. ASSUME NEW i \in 1..n, NEW l \in 1..w
        PROVE  Thresholded(score, c.threshold)[i][l] = 1 <=> Reaches(score[i][l], c.threshold)
    BY <1>1, <2>1, ThresholdsDecide
  <2>. QED BY <2>2, <2>3
<1>3. records = [i \in 1..n |-> [true |-> split.targets[i], pred |-> pred[i], score |-> score[i]]]
  BY <1>1 DEF PredictionsOf
<1>. HIDE DEF pred, score
<1>4. DOMAIN records = 1..n /\ records = [i \in 1..n |-> records[i]]
  BY <1>3
<1>5. \A i \in 1..n : /\ records[i].true = split.targets[i] /\ records[i].pred = pred[i]
                      /\ records[i].score = score[i]
  BY <1>3
<1>6. RowsAre(records, n, w)
  BY <1>1, <1>2, <1>4, <1>5 DEF RowsAre
<1>. QED BY <1>2, <1>5, <1>6 DEF AreOf, n, w, score

\* In a validation split every label is somewhere, and so every average precision is defined.
LEMMA ValidationsAreDefined ==
    ASSUME NEW v \in Validations, NEW records, AreOf(records, v)
    PROVE  /\ \A l \in 1..LabelsIn(v) : \E i \in 1..RecordsIn(v) : TrueOf(records)[i][l] = 1
           /\ MetricsFrom(records).macroAP \in Nat
           /\ \A threshold : MetricsAt(records, threshold).macroAP \in Nat
<1>. DEFINE n == RecordsIn(v)
            w == LabelsIn(v)
<1>1. /\ n \in Nat \ {0} /\ w \in Nat \ {0} /\ v.targets \in [1..n -> [1..w -> {0, 1}]]
  BY SplitsAreSampled
<1>2. RowsAre(records, n, w) /\ \A i \in 1..n : records[i].true = v.targets[i]
  BY DEF AreOf
<1>3. \A l \in DOMAIN v.targets[1] : \E i \in DOMAIN v.targets : v.targets[i][l] = 1
  BY TrainingAssumption
<1>. HIDE DEF n, w
<1>4. DOMAIN v.targets[1] = 1..w /\ DOMAIN v.targets = 1..n
  BY <1>1
<1>5. \A i \in 1..n : TrueOf(records)[i] = v.targets[i]
  BY <1>2 DEF TrueOf, RowsAre
<1>6. \A l \in 1..w : \E i \in 1..n : TrueOf(records)[i][l] = 1
  BY <1>3, <1>4, <1>5
<1>7. 1 \in 1..w
  BY <1>1
<1>8. ASSUME NEW m, NEW pred, Sound(m, TrueOf(records), pred, n, w) PROVE m.macroAP \in Nat
  <2>1. m.macroAP # Undefined
    BY <1>6, <1>7, <1>8 DEF Sound
  <2>. QED BY <1>8, <2>1, SoundNumbers
<1>9. MetricsFrom(records).macroAP \in Nat
  BY <1>2, <1>8, RowsAreSound
<1>10. ASSUME NEW threshold PROVE MetricsAt(records, threshold).macroAP \in Nat
  <2>1. Sound(MetricsAt(records, threshold), TrueOf(records),
              Thresholded(ScoreOf(records), threshold), n, w)
    BY <1>2, RowsAreSound
  <2>. QED BY <1>8, <2>1
<1>. QED BY <1>6, <1>9, <1>10 DEF n, w

-----------------------------------------------------------------------------
(* The winner.                                                             *)

\* Metrics by which a candidate is selected and audited.
Ranked(m) == m.macroAP \in Nat /\ m.macroF1 \in Nat /\ m.microF1 \in Int /\ m.microF1 # 0

\* A validation split's metrics are such.
LEMMA ValidationsAreRanked ==
    ASSUME NEW v \in Validations, NEW records, AreOf(records, v)
    PROVE  Ranked(MetricsFrom(records))
<1>1. Sound(MetricsFrom(records), TrueOf(records), PredOf(records), RecordsIn(v), LabelsIn(v))
  BY RowsAreSound DEF AreOf
<1>2. MetricsFrom(records).macroAP \in Nat
  BY ValidationsAreDefined
<1>. DEFINE m == MetricsFrom(records)
<1>3. Sound(m, TrueOf(records), PredOf(records), RecordsIn(v), LabelsIn(v)) /\ m.macroAP \in Nat
  BY <1>1, <1>2
<1>. HIDE DEF m
<1>4. Ranked(m)
  BY <1>3, SoundNumbers DEF Ranked
<1>. QED BY <1>4 DEF m

\* The audit's key orders as the metrics' does: zero counts as undefined, and only the
\* micro F1 is ever undefined, and never zero.
LEMMA AuditOrdersAlike ==
    ASSUME NEW p, Ranked(p), NEW q, Ranked(q), NEW a \in Int, NEW b \in Int
    PROVE  /\ RanksBefore(MetricKey(p), MetricKey(q)) => RanksBefore(AuditKey(a, p), AuditKey(b, q))
           /\ RanksBefore(AuditKey(a, p), AuditKey(b, q)) =>
                 \/ RanksBefore(MetricKey(p), MetricKey(q))
                 \/ MetricKey(p) = MetricKey(q) /\ a > b
<1>. DEFINE audited(value) == IF value = 0 THEN Undefined ELSE value
            A(x, m) == <<audited(m.macroAP), audited(m.macroF1), audited(m.microF1), x>>
<1>1. /\ \A m, x : AuditKey(x, m) = A(x, m)
      /\ \A m : MetricKey(m) = <<m.macroAP, m.macroF1, m.microF1>>
  BY DEF AuditKey, MetricKey
<1>2. ASSUME NEW s \in Nat, NEW t \in Nat
      PROVE  (audited(s) > audited(t) <=> s > t) /\ (audited(s) = audited(t) <=> s = t)
  BY DEF Undefined
<1>3. audited(p.microF1) = p.microF1 /\ audited(q.microF1) = q.microF1
  BY DEF Ranked
<1>. DEFINE AP == audited(p.macroAP) > audited(q.macroAP)
<1>4. /\ audited(p.macroAP) > audited(q.macroAP) <=> p.macroAP > q.macroAP
      /\ audited(p.macroAP) = audited(q.macroAP) <=> p.macroAP = q.macroAP
      /\ audited(p.macroF1) > audited(q.macroF1) <=> p.macroF1 > q.macroF1
      /\ audited(p.macroF1) = audited(q.macroF1) <=> p.macroF1 = q.macroF1
  BY <1>2 DEF Ranked
<1>. HIDE DEF audited
<1>5. ASSUME RanksBefore(MetricKey(p), MetricKey(q)) PROVE RanksBefore(A(a, p), A(b, q))
  <2>1. PICK k \in 1..3 : MetricKey(p)[k] > MetricKey(q)[k]
                          /\ \A j \in 1..(k - 1) : MetricKey(p)[j] = MetricKey(q)[j]
    BY <1>1, <1>5 DEF RanksBefore
  <2>2. A(a, p)[k] > A(b, q)[k] /\ \A j \in 1..(k - 1) : A(a, p)[j] = A(b, q)[j]
    <3>1. CASE k = 1
      BY <1>1, <1>4, <2>1, <3>1
    <3>2. CASE k = 2
      BY <1>1, <1>4, <2>1, <3>2
    <3>3. CASE k = 3
      BY <1>1, <1>3, <1>4, <2>1, <3>3
    <3>. QED BY <3>1, <3>2, <3>3
  <2>3. k \in DOMAIN A(a, p)
    OBVIOUS
  <2>. QED BY <2>2, <2>3 DEF RanksBefore
<1>6. ASSUME RanksBefore(A(a, p), A(b, q))
      PROVE  \/ RanksBefore(MetricKey(p), MetricKey(q))
             \/ MetricKey(p) = MetricKey(q) /\ a > b
  <2>1. PICK k \in 1..4 : A(a, p)[k] > A(b, q)[k] /\ \A j \in 1..(k - 1) : A(a, p)[j] = A(b, q)[j]
    BY <1>6 DEF RanksBefore
  <2>2. CASE k = 4
    <3>1. A(a, p)[1] = A(b, q)[1] /\ A(a, p)[2] = A(b, q)[2] /\ A(a, p)[3] = A(b, q)[3]
      BY <2>1, <2>2
    <3>2. a > b
      BY <2>1, <2>2
    <3>. QED BY <1>1, <1>3, <1>4, <3>1, <3>2
  <2>3. CASE k # 4
    <3>1. k \in 1..3
      BY <2>3
    <3>2. MetricKey(p)[k] > MetricKey(q)[k] /\ \A j \in 1..(k - 1) : MetricKey(p)[j] = MetricKey(q)[j]
      <4>1. CASE k = 1
        BY <1>1, <1>4, <2>1, <4>1
      <4>2. CASE k = 2
        BY <1>1, <1>4, <2>1, <4>2
      <4>3. CASE k = 3
        BY <1>1, <1>3, <1>4, <2>1, <4>3
      <4>. QED BY <3>1, <4>1, <4>2, <4>3
    <3>3. k \in DOMAIN MetricKey(p)
      BY <1>1, <3>1
    <3>. QED BY <3>2, <3>3 DEF RanksBefore
  <2>. QED BY <2>2, <2>3
<1>. QED BY <1>1, <1>5, <1>6


\* Of two keys only one ranks before the other.
LEMMA OneRanksBefore ==
    ASSUME NEW m \in Nat, NEW s \in [1..m -> Int], NEW t \in [1..m -> Int], RanksBefore(s, t)
    PROVE  ~RanksBefore(t, s)
  BY KeysAreOrdered

\* The keys are of numbers.
LEMMA KeysAreNumbers ==
    ASSUME NEW c \in BaselineConfigs, NEW id \in Ids(c), NEW m, Ranked(m)
    PROVE  /\ AuditKey(id, m) \in [1..4 -> Int] /\ AuditKey(id, m)[4] = id
           /\ SelectionKey(c, id, m) \in [1..6 -> Int] /\ SelectionKey(c, id, m)[6] = id
<1>1. /\ id \in Int /\ CandidateOf(c, id).ngram \in Int /\ CandidateOf(c, id).weighted \in BOOLEAN
  BY CandidatesAreKnown
<1>2. m.macroAP \in Int /\ m.macroF1 \in Int /\ m.microF1 \in Int
  BY DEF Ranked
<1>3. AuditKey(id, m) \in [1..4 -> Int] /\ AuditKey(id, m)[4] = id
  <2>. DEFINE audited(value) == IF value = 0 THEN Undefined ELSE value
  <2>1. \A value \in Int : audited(value) \in Int
    BY DEF Undefined
  <2>2. AuditKey(id, m) = <<audited(m.macroAP), audited(m.macroF1), audited(m.microF1), id>>
    BY DEF AuditKey
  <2>. HIDE DEF audited
  <2>3. {audited(m.macroAP), audited(m.macroF1), audited(m.microF1), id} \subseteq Int
    BY <1>1, <1>2, <2>1
  <2>. QED BY <2>2, <2>3
<1>4. SelectionKey(c, id, m) \in [1..6 -> Int] /\ SelectionKey(c, id, m)[6] = id
  <2>. DEFINE x == CandidateOf(c, id)
  <2>1. SelectionKey(c, id, m)
           = <<m.macroAP, m.macroF1, m.microF1, -x.ngram, -Bit(x.weighted), id>>
    BY DEF SelectionKey
  <2>2. -x.ngram \in Int /\ -Bit(x.weighted) \in Int
    BY <1>1 DEF Bit
  <2>. HIDE DEF x
  <2>. QED BY <1>1, <1>2, <2>1, <2>2
<1>. QED BY <1>3, <1>4

\* The audit takes one whose key ranks before all others'.
LEMMA AuditPicks ==
    ASSUME NEW c \in BaselineConfigs, NEW metrics, \A id \in Ids(c) : Ranked(metrics[id]),
           NEW a, a = BestOf({<<id, AuditKey(id, metrics[id])>> : id \in Ids(c)})
    PROVE  /\ a \in Ids(c)
           /\ \A id \in Ids(c) : id # a =>
                 RanksBefore(AuditKey(a, metrics[a]), AuditKey(id, metrics[id]))
<1>. DEFINE key == [id \in Ids(c) |-> AuditKey(id, metrics[id])]
            keyed == {<<id, key[id]>> : id \in Ids(c)}
<1>1. IsFiniteSet(Ids(c)) /\ Ids(c) # {}
  BY CandidatesAreKnown
<1>2. \A id \in Ids(c) : key[id] = AuditKey(id, metrics[id])
  OBVIOUS
<1>3. \A id \in Ids(c) : key[id] \in [1..4 -> Int] /\ key[id][4] = id
  BY <1>2, KeysAreNumbers
<1>4. key \in [Ids(c) -> [1..4 -> Int]] /\ \A x, y \in Ids(c) : x # y => key[x] # key[y]
  BY <1>3
<1>5. a = BestOf(keyed)
  <2>1. keyed = {<<id, AuditKey(id, metrics[id])>> : id \in Ids(c)}
    BY <1>2
  <2>. QED BY <2>1
<1>. HIDE DEF key
<1>6. 4 \in Nat
  OBVIOUS
<1>7. /\ BestOf(keyed) \in Ids(c)
      /\ \A y \in Ids(c) : y # BestOf(keyed) => RanksBefore(key[BestOf(keyed)], key[y])
  <2>. HIDE DEF keyed
  <2>. QED BY <1>1, <1>4, <1>6, BestIsFirst DEF keyed
<1>. QED BY <1>2, <1>5, <1>7

\* The selection takes one whose key ranks before all others'.
LEMMA SelectionPicks ==
    ASSUME NEW c \in BaselineConfigs, NEW metrics, \A id \in Ids(c) : Ranked(metrics[id]),
           NEW s, s = SelectCandidate(c, metrics).winner
    PROVE  /\ s \in Ids(c)
           /\ \A id \in Ids(c) : id # s =>
                 RanksBefore(SelectionKey(c, s, metrics[s]), SelectionKey(c, id, metrics[id]))
<1>. DEFINE key == [id \in Ids(c) |-> SelectionKey(c, id, metrics[id])]
            keyed == {<<id, key[id]>> : id \in Ids(c)}
<1>1. IsFiniteSet(Ids(c)) /\ Ids(c) # {}
  BY CandidatesAreKnown
<1>2. \A id \in Ids(c) : key[id] = SelectionKey(c, id, metrics[id])
  OBVIOUS
<1>3. \A id \in Ids(c) : key[id] \in [1..6 -> Int] /\ key[id][6] = id
  BY <1>2, KeysAreNumbers
<1>4. key \in [Ids(c) -> [1..6 -> Int]] /\ \A x, y \in Ids(c) : x # y => key[x] # key[y]
  BY <1>3
<1>5. s = BestOf(keyed)
  <2>1. keyed = {<<id, SelectionKey(c, id, metrics[id])>> : id \in Ids(c)}
    BY <1>2
  <2>2. s = BestOf({<<id, SelectionKey(c, id, metrics[id])>> : id \in Ids(c)})
    BY DEF SelectCandidate
  <2>. QED BY <2>1, <2>2
<1>. HIDE DEF key
<1>6. 6 \in Nat
  OBVIOUS
<1>7. /\ BestOf(keyed) \in Ids(c)
      /\ \A y \in Ids(c) : y # BestOf(keyed) => RanksBefore(key[BestOf(keyed)], key[y])
  <2>. HIDE DEF keyed
  <2>. QED BY <1>1, <1>4, <1>6, BestIsFirst DEF keyed
<1>. QED BY <1>2, <1>5, <1>7

\* No metrics beat those of the one the audit takes.
LEMMA NothingBeatsTheAudited ==
    ASSUME NEW c \in BaselineConfigs, NEW metrics, \A id \in Ids(c) : Ranked(metrics[id]),
           NEW a, a = BestOf({<<id, AuditKey(id, metrics[id])>> : id \in Ids(c)}),
           NEW id \in Ids(c)
    PROVE  ~RanksBefore(MetricKey(metrics[id]), MetricKey(metrics[a]))
<1>. SUFFICES ASSUME RanksBefore(MetricKey(metrics[id]), MetricKey(metrics[a])) PROVE FALSE
  OBVIOUS
<1>1. a \in Ids(c) /\ (id # a => RanksBefore(AuditKey(a, metrics[a]), AuditKey(id, metrics[id])))
  BY AuditPicks
<1>2. id \in Int /\ a \in Int
  BY <1>1, CandidatesAreKnown
<1>3. RanksBefore(AuditKey(id, metrics[id]), AuditKey(a, metrics[a]))
  BY <1>1, <1>2, AuditOrdersAlike
<1>4. AuditKey(id, metrics[id]) \in [1..4 -> Int] /\ AuditKey(a, metrics[a]) \in [1..4 -> Int]
      /\ 4 \in Nat
  BY <1>1, KeysAreNumbers
<1>5. CASE id = a
  <2>1. ~RanksBefore(AuditKey(id, metrics[id]), AuditKey(id, metrics[id]))
    BY <1>4, KeysAreOrdered
  <2>. QED BY <1>3, <1>5, <2>1
<1>6. CASE id # a
  BY <1>1, <1>3, <1>4, <1>6, OneRanksBefore
<1>. QED BY <1>5, <1>6

\* If the audit takes another than the selection, their metrics are the same, and the
\* selection took the simpler one.
LEMMA DisagreementIsATie ==
    ASSUME NEW c \in BaselineConfigs, NEW metrics, \A id \in Ids(c) : Ranked(metrics[id]),
           NEW a, a = BestOf({<<id, AuditKey(id, metrics[id])>> : id \in Ids(c)}),
           NEW s, s = SelectCandidate(c, metrics).winner, a # s
    PROVE  /\ a \in Ids(c) /\ s \in Ids(c) /\ MetricKey(metrics[a]) = MetricKey(metrics[s]) /\ a > s
           /\ \/ CandidateOf(c, a).ngram > CandidateOf(c, s).ngram
              \/ CandidateOf(c, a).weighted /\ ~CandidateOf(c, s).weighted
<1>1. a \in Ids(c) /\ s \in Ids(c)
  BY AuditPicks, SelectionPicks
<1>. DEFINE p == metrics[a]
            q == metrics[s]
            x == CandidateOf(c, a)
            y == CandidateOf(c, s)
<1>2. Ranked(p) /\ Ranked(q) /\ a \in Int /\ s \in Int
  BY <1>1, CandidatesAreKnown
<1>3. RanksBefore(AuditKey(a, p), AuditKey(s, q))
  BY <1>1, AuditPicks
<1>4. RanksBefore(SelectionKey(c, s, q), SelectionKey(c, a, p))
  BY <1>1, SelectionPicks
<1>5. AuditKey(a, p) \in [1..4 -> Int] /\ AuditKey(s, q) \in [1..4 -> Int] /\ 4 \in Nat
  BY <1>1, KeysAreNumbers
<1>6. /\ {x.ngram, y.ngram} \subseteq Int /\ {x.weighted, y.weighted} \subseteq BOOLEAN
  BY <1>1, CandidatesAreKnown
<1>7. /\ SelectionKey(c, s, q)
            = <<q.macroAP, q.macroF1, q.microF1, -y.ngram, -Bit(y.weighted), s>>
      /\ SelectionKey(c, a, p)
            = <<p.macroAP, p.macroF1, p.microF1, -x.ngram, -Bit(x.weighted), a>>
      /\ MetricKey(q) = <<q.macroAP, q.macroF1, q.microF1>>
      /\ MetricKey(p) = <<p.macroAP, p.macroF1, p.microF1>>
  BY DEF SelectionKey, MetricKey
<1>. HIDE DEF p, q, x, y
<1>8. ~RanksBefore(MetricKey(q), MetricKey(p))
  <2>1. ~RanksBefore(AuditKey(s, q), AuditKey(a, p))
    BY <1>3, <1>5, OneRanksBefore
  <2>. QED BY <1>2, <2>1, AuditOrdersAlike
<1>9. PICK k \in 1..6 : /\ SelectionKey(c, s, q)[k] > SelectionKey(c, a, p)[k]
                        /\ \A j \in 1..(k - 1) : SelectionKey(c, s, q)[j] = SelectionKey(c, a, p)[j]
  BY <1>4, <1>7 DEF RanksBefore
<1>10. k \notin 1..3
  <2>. SUFFICES ASSUME k \in 1..3 PROVE FALSE
    OBVIOUS
  <2>1. /\ MetricKey(q)[k] > MetricKey(p)[k]
        /\ \A j \in 1..(k - 1) : MetricKey(q)[j] = MetricKey(p)[j]
    <3>1. \A j \in 1..3 : /\ SelectionKey(c, s, q)[j] = MetricKey(q)[j]
                          /\ SelectionKey(c, a, p)[j] = MetricKey(p)[j]
      BY <1>7
    <3>. QED BY <1>9, <3>1
  <2>2. k \in DOMAIN MetricKey(q)
    BY <1>7
  <2>. QED BY <1>8, <2>1, <2>2 DEF RanksBefore
<1>11. k \in {4, 5, 6}
  BY <1>10
<1>12. MetricKey(p) = MetricKey(q)
  <2>1. /\ SelectionKey(c, s, q)[1] = SelectionKey(c, a, p)[1]
        /\ SelectionKey(c, s, q)[2] = SelectionKey(c, a, p)[2]
        /\ SelectionKey(c, s, q)[3] = SelectionKey(c, a, p)[3]
    BY <1>9, <1>11
  <2>. QED BY <1>7, <2>1
<1>13. ~RanksBefore(MetricKey(p), MetricKey(q))
  BY <1>8, <1>12
<1>14. a > s
  BY <1>2, <1>3, <1>13, AuditOrdersAlike
<1>15. x.ngram > y.ngram \/ (x.weighted /\ ~y.weighted)
  <2>1. CASE k = 4
    <3>1. -y.ngram > -x.ngram
      BY <1>7, <1>9, <2>1
    <3>. QED BY <1>6, <3>1
  <2>2. CASE k = 5
    <3>1. -Bit(y.weighted) > -Bit(x.weighted)
      BY <1>7, <1>9, <2>2
    <3>. QED BY <1>6, <3>1 DEF Bit
  <2>3. CASE k = 6
    <3>1. s > a
      BY <1>7, <1>9, <2>3
    <3>. QED BY <1>2, <1>14, <3>1
  <2>. QED BY <1>11, <2>1, <2>2, <2>3
<1>. QED BY <1>1, <1>12, <1>14, <1>15 DEF p, q, x, y


-----------------------------------------------------------------------------
(* Rows of a table.                                                        *)

\* f numbers the first rows of R, up to the n-th row of the table.
Numbers(f, R, n) ==
    LET S == R \cap (1..n)
    IN /\ f \in [1..Cardinality(S) -> S] /\ \A i \in S : \E k \in DOMAIN f : f[k] = i
       /\ \A j, k \in DOMAIN f : j # k => f[j] # f[k]

\* The steps by which RowsOf collects rows.
Collects(g, table, R, N) ==
    /\ g[0] = <<>> /\ RowsOf(table, R) = g[N]
    /\ \A n \in 1..N : g[n] = IF n \in R THEN Append(g[n - 1], table[n]) ELSE g[n - 1]

\* RowsOf collects in steps.
LEMMA RowsAreCollected ==
    ASSUME NEW N \in Nat, NEW table, table = [i \in 1..N |-> table[i]], NEW R
    PROVE  \E g : Collects(g, table, R, N)
<1>. DEFINE V == {table[i] : i \in 1..N}
            step == [p \in (1..N) \X Seq(V) |->
                        IF p[1] \in R THEN Append(p[2], table[p[1]]) ELSE p[2]]
            is(g) == g = [n \in 0..N |->
                             IF n = 0 THEN <<>>
                             ELSE IF n \in R THEN Append(g[n - 1], table[n]) ELSE g[n - 1]]
            upTo == CHOOSE g : is(g)
<1>1. step \in [(1..N) \X Seq(V) -> Seq(V)]
  <2>1. ASSUME NEW n \in 1..N, NEW s \in Seq(V)
        PROVE  (IF n \in R THEN Append(s, table[n]) ELSE s) \in Seq(V)
    <3>1. table[n] \in V
      OBVIOUS
    <3>. HIDE DEF V
    <3>2. Append(s, table[n]) \in Seq(V)
      BY <3>1
    <3>. QED BY <3>2
  <2>. HIDE DEF V
  <2>. QED BY <2>1
<1>2. PICK g \in [0..N -> Seq(V)] : Recursive(g, N, <<>>, step)
  <2>1. <<>> \in Seq(V)
    OBVIOUS
  <2>. HIDE DEF step, V
  <2>. QED BY <1>1, <2>1, Recursion
<1>3. ASSUME NEW n \in 0..N
      PROVE  g[n] = IF n = 0 THEN <<>>
                    ELSE IF n \in R THEN Append(g[n - 1], table[n]) ELSE g[n - 1]
  <2>1. CASE n = 0
    BY <1>2, <2>1 DEF Recursive
  <2>2. CASE n # 0
    <3>. DEFINE s == g[n - 1]
    <3>1. n \in 1..N /\ n - 1 \in 0..N
      BY <2>2
    <3>2. s \in Seq(V) /\ <<n, s>> \in (1..N) \X Seq(V)
      <4>. HIDE DEF V, step
      <4>. QED BY <1>2, <3>1
    <3>3. g[n] = step[<<n, s>>]
      <4>. HIDE DEF V, step
      <4>. QED BY <1>2, <2>2 DEF Recursive
    <3>4. step[<<n, s>>] = IF n \in R THEN Append(s, table[n]) ELSE s
      <4>. HIDE DEF V
      <4>. QED BY <3>2
    <3>. QED BY <2>2, <3>3, <3>4
  <2>. QED BY <2>1, <2>2
<1>4. is(g)
  <2>1. g = [n \in 0..N |-> g[n]]
    OBVIOUS
  <2>. QED BY <1>3, <2>1
<1>5. is(upTo)
  BY <1>4
<1>6. Len(table) = N
  BY LengthOf
<1>7. RowsOf(table, R) = upTo[N]
  BY <1>6 DEF RowsOf
<1>8. \A n \in 0..N : upTo[n] = IF n = 0 THEN <<>>
                                ELSE IF n \in R THEN Append(upTo[n - 1], table[n]) ELSE upTo[n - 1]
  BY <1>5
<1>. HIDE DEF upTo
<1>9. Collects(upTo, table, R, N)
  <2>1. \A n \in 1..N : n \in 0..N /\ n # 0
    OBVIOUS
  <2>2. 0 \in 0..N
    OBVIOUS
  <2>. QED BY <1>7, <1>8, <2>1, <2>2 DEF Collects
<1>. QED BY <1>9

\* A list of N.
IsList(table, N) == table = [i \in 1..N |-> table[i]]

\* f numbers the rows that RowsOf collects.
Lists(f, table, R, K) ==
    /\ f \in [1..K -> R] /\ RowsOf(table, R) = [k \in 1..K |-> table[f[k]]]
    /\ \A j, k \in 1..K : j # k => f[j] # f[k]

\* The rows are listed once each.
LEMMA RowsAreListed ==
    ASSUME NEW N \in Nat, NEW table, IsList(table, N),
           NEW R \in SUBSET (1..N), NEW K, K = Cardinality(R)
    PROVE  \E f : Lists(f, table, R, K)
<1>1. PICK g : Collects(g, table, R, N)
  BY RowsAreCollected DEF IsList
<1>. DEFINE listed(n) == \E f : Numbers(f, R, n) /\ g[n] = [k \in DOMAIN f |-> table[f[k]]]
            G == {n \in 0..N : listed(n)}
<1>2. listed(0)
  <2>1. R \cap (1..0) = {} /\ Cardinality(R \cap (1..0)) = 0
    BY FS_EmptySet
  <2>2. <<>> \in [1..0 -> {}] /\ DOMAIN <<>> = {}
    OBVIOUS
  <2>3. Numbers(<<>>, R, 0)
    BY <2>1, <2>2 DEF Numbers
  <2>4. g[0] = [k \in DOMAIN <<>> |-> table[(<<>>)[k]]]
    BY <1>1, <2>2 DEF Collects
  <2>. QED BY <2>3, <2>4
<1>3. ASSUME NEW m \in 1..N, listed(m - 1) PROVE listed(m)
  <2>1. PICK f : Numbers(f, R, m - 1) /\ g[m - 1] = [k \in DOMAIN f |-> table[f[k]]]
    BY <1>3
  <2>. DEFINE S == R \cap (1..(m - 1))
              T == R \cap (1..m)
              c == Cardinality(S)
  <2>2. c \in Nat /\ IsFiniteSet(S)
    <3>1. S \in SUBSET (1..(m - 1)) /\ m - 1 \in Nat
      OBVIOUS
    <3>. HIDE DEF S
    <3>2. IsFiniteSet(S) /\ Cardinality(S) \in 0..(m - 1)
      BY <3>1, PartsOf
    <3>. QED BY <3>2
  <2>3. /\ f \in [1..c -> S] /\ \A i \in S : \E k \in 1..c : f[k] = i
        /\ \A j, k \in 1..c : j # k => f[j] # f[k]
    BY <2>1 DEF Numbers
  <2>4. CASE m \notin R
    <3>1. S = T
      BY <2>4
    <3>2. Numbers(f, R, m)
      BY <2>1, <3>1 DEF Numbers
    <3>3. g[m] = g[m - 1]
      BY <1>1, <2>4 DEF Collects
    <3>. QED BY <2>1, <3>2, <3>3
  <2>5. CASE m \in R
    <3>. DEFINE h == [k \in 1..(c + 1) |-> IF k = c + 1 THEN m ELSE f[k]]
    <3>1. T = S \cup {m} /\ m \notin S
      BY <2>5
    <3>. HIDE DEF S, T
    <3>2. Cardinality(T) = c + 1
      BY <2>2, <3>1, FS_AddElement
    <3>. HIDE DEF c
    <3>3. /\ DOMAIN h = 1..(c + 1) /\ h[c + 1] = m /\ \A k \in 1..c : h[k] = f[k]
          /\ \A k \in 1..(c + 1) : k # c + 1 => k \in 1..c
      BY <2>2
    <3>4. h \in [1..(c + 1) -> T]
      BY <2>2, <2>3, <3>1, <3>3
    <3>5. \A i \in T : \E k \in 1..(c + 1) : h[k] = i
      <4>1. c + 1 \in 1..(c + 1) /\ \A k \in 1..c : k \in 1..(c + 1)
        BY <2>2
      <4>. QED BY <2>3, <3>1, <3>3, <4>1
    <3>6. ASSUME NEW j \in 1..(c + 1), NEW k \in 1..(c + 1), j # k PROVE h[j] # h[k]
      <4>. HIDE DEF h
      <4>. QED BY <2>3, <3>1, <3>3, <3>6
    <3>7. Numbers(h, R, m)
      <4>. HIDE DEF h
      <4>. QED BY <3>2, <3>3, <3>4, <3>5, <3>6 DEF Numbers, T
    <3>8. g[m] = Append(g[m - 1], table[m])
      BY <1>1, <2>5 DEF Collects
    <3>. DEFINE V == {table[i] : i \in 1..N}
                s == [k \in 1..c |-> table[f[k]]]
    <3>9. s \in Seq(V) /\ Len(s) = c /\ table[m] \in V
      <4>1. \A k \in 1..c : table[f[k]] \in V
        BY <2>3 DEF S
      <4>2. s \in [1..c -> V] /\ table[m] \in V
        BY <4>1
      <4>. HIDE DEF s, V
      <4>. QED BY <2>2, <4>2
    <3>10. DOMAIN f = 1..c /\ g[m] = Append(s, table[m])
      BY <2>1, <2>3, <3>8
    <3>11. Append(s, table[m]) = [k \in 1..(c + 1) |-> IF k = c + 1 THEN table[m] ELSE s[k]]
      <4>. HIDE DEF s, V
      <4>. QED BY <2>2, <3>9
    <3>12. g[m] = [k \in 1..(c + 1) |-> table[h[k]]]
      <4>1. \A k \in 1..(c + 1) : table[h[k]] = IF k = c + 1 THEN table[m] ELSE s[k]
        BY <3>3
      <4>. HIDE DEF s, h, V
      <4>2. g[m] = [k \in 1..(c + 1) |-> IF k = c + 1 THEN table[m] ELSE s[k]]
        BY <3>10, <3>11
      <4>3. [k \in 1..(c + 1) |-> IF k = c + 1 THEN table[m] ELSE s[k]]
               = [k \in 1..(c + 1) |-> table[h[k]]]
        BY <4>1
      <4>. QED BY <4>2, <4>3, Zenon
    <3>13. DOMAIN h = 1..(c + 1)
      BY <3>3
    <3>. HIDE DEF h
    <3>. QED BY <3>7, <3>12, <3>13
  <2>. QED BY <2>4, <2>5
<1>. HIDE DEF listed
<1>4. listed(N)
  <2>1. 0 \in G /\ \A m \in 1..N : m - 1 \in G => m \in G
    BY <1>2, <1>3
  <2>2. N \in G
    <3>. HIDE DEF G
    <3>1. \A n \in 0..N : n \in G
      BY <2>1, AllOf
    <3>. QED BY <3>1
  <2>. QED BY <2>2
<1>5. R \cap (1..N) = R
  OBVIOUS
<1>6. PICK f : Numbers(f, R, N) /\ g[N] = [k \in DOMAIN f |-> table[f[k]]]
  BY <1>4 DEF listed
<1>7. f \in [1..K -> R] /\ \A j, k \in 1..K : j # k => f[j] # f[k]
  BY <1>5, <1>6 DEF Numbers
<1>8. RowsOf(table, R) = [k \in 1..K |-> table[f[k]]]
  BY <1>1, <1>6, <1>7 DEF Collects
<1>. QED BY <1>7, <1>8 DEF Lists

\* All rows are the table.
LEMMA AllRowsAreTheTable ==
    ASSUME NEW N \in Nat, NEW table, table = [i \in 1..N |-> table[i]]
    PROVE  RowsOf(table, 1..N) = table
<1>1. PICK g : Collects(g, table, 1..N, N)
  BY RowsAreCollected
<1>. DEFINE G == {n \in 0..N : g[n] = [k \in 1..n |-> table[k]]}
            V == {table[i] : i \in 1..N}
<1>2. 0 \in G
  BY <1>1 DEF Collects
<1>3. ASSUME NEW m \in 1..N, m - 1 \in G PROVE m \in G
  <2>. DEFINE s == [k \in 1..(m - 1) |-> table[k]]
  <2>1. g[m] = Append(s, table[m])
    BY <1>1, <1>3 DEF Collects
  <2>2. s \in [1..(m - 1) -> V] /\ table[m] \in V /\ m - 1 \in Nat
    OBVIOUS
  <2>3. Append(s, table[m]) = [k \in 1..m |-> IF k = m THEN table[m] ELSE s[k]]
    <3>. HIDE DEF s, V
    <3>1. s \in Seq(V) /\ Len(s) = m - 1 /\ (m - 1) + 1 = m
      BY <2>2
    <3>. QED BY <2>2, <3>1
  <2>4. \A k \in 1..m : (IF k = m THEN table[m] ELSE s[k]) = table[k]
    OBVIOUS
  <2>5. g[m] = [k \in 1..m |-> table[k]]
    BY <2>1, <2>3, <2>4
  <2>. QED BY <2>5
<1>4. N \in G
  <2>. HIDE DEF G
  <2>1. \A n \in 0..N : n \in G
    BY <1>2, <1>3, AllOf
  <2>. QED BY <2>1
<1>. QED BY <1>1, <1>4 DEF Collects


-----------------------------------------------------------------------------
(* Confidence.                                                             *)

\* The greatest of finitely many numbers.
LEMMA GreatestOf ==
    ASSUME NEW S, IsFiniteSet(S), S # {}, S \subseteq Int
    PROVE  Max(S) \in S /\ \A y \in S : Max(S) >= y
<1>. DEFINE before == {p \in S \X S : p[1] > p[2]}
<1>1. \A x, y \in S : <<x, y>> \in before <=> x > y
  OBVIOUS
<1>. HIDE DEF before
<1>2. Orders(before, S)
  BY <1>1 DEF Orders
<1>3. PICK x \in S : \A y \in S : y = x \/ <<x, y>> \in before
  BY <1>2, FirstOfMany
<1>4. ASSUME NEW y \in S PROVE x >= y
  <2>1. x \in Int /\ y \in Int
    OBVIOUS
  <2>2. y = x \/ x > y
    BY <1>1, <1>3
  <2>. QED BY <2>1, <2>2
<1>. QED BY <1>4 DEF Max

\* Undefined without a predicted label, and else the score of one.
IsConfidence(c, score, pred, w) ==
    \/ c = Undefined /\ \A l \in 1..w : pred[l] # 1
    \/ c \in 0..Unit /\ \E l \in 1..w : pred[l] = 1 /\ c = score[l]

\* The confidence is the score of a predicted label, if there is one.
LEMMA ConfidenceIsAScore ==
    ASSUME NEW w \in Nat, NEW score \in [1..w -> 0..Unit], NEW pred \in [1..w -> {0, 1}],
           NEW c, c = Confidence(score, pred)
    PROVE  IsConfidence(c, score, pred, w)
<1>. DEFINE S == {score[l] : l \in {k \in DOMAIN pred : pred[k] = 1}}
<1>1. c = IF S = {} THEN Undefined ELSE Max(S)
  BY DEF Confidence
<1>2. Unit \in Nat /\ DOMAIN pred = 1..w
  BY MetricsAssumption
<1>3. S \in SUBSET (0..Unit)
  BY <1>2
<1>4. \A x \in S : \E l \in 1..w : pred[l] = 1 /\ x = score[l]
  BY <1>2
<1>5. S = {} => \A l \in 1..w : pred[l] # 1
  BY <1>2
<1>. HIDE DEF S
<1>6. IsFiniteSet(S) /\ S \subseteq Int
  <2>1. IsFiniteSet(0..Unit)
    BY <1>2, FS_Interval
  <2>2. IsFiniteSet(S)
    BY <1>3, <2>1, FS_Subset
  <2>. QED BY <1>3, <2>2
<1>7. CASE S = {}
  BY <1>1, <1>5, <1>7 DEF IsConfidence
<1>8. CASE S # {}
  <2>1. c \in S
    BY <1>1, <1>6, <1>8, GreatestOf
  <2>2. c \in 0..Unit /\ \E l \in 1..w : pred[l] = 1 /\ c = score[l]
    BY <1>3, <1>4, <2>1
  <2>. QED BY <2>2 DEF IsConfidence
<1>. QED BY <1>7, <1>8

\* A table has the records' targets and scores, and the threshold's predictions.
LEMMA TablesAreRows ==
    ASSUME NEW records, NEW n, NEW w, RowsAre(records, n, w), NEW threshold,
           NEW table, table = ConfidenceTable(records, threshold)
    PROVE  /\ RowsAre(table, n, w)
           /\ TrueOf(table) = TrueOf(records) /\ ScoreOf(table) = ScoreOf(records)
           /\ PredOf(table) = Thresholded(ScoreOf(records), threshold)
           /\ \A i \in 1..n :
                 /\ table[i].score = records[i].score
                 /\ table[i].confidence = Confidence(table[i].score, table[i].pred)
                 /\ \A l \in 1..w :
                       table[i].pred[l] = 1 <=> Reaches(records[i].score[l], threshold)
<1>. DEFINE score == ScoreOf(records)
            pred == Thresholded(score, threshold)
<1>1. /\ n \in Nat \ {0} /\ w \in Nat \ {0} /\ n * w =< Scale /\ n \in Nat /\ w \in Nat
      /\ DOMAIN records = 1..n
      /\ \A i \in 1..n : records[i].true \in [1..w -> {0, 1}]
  BY DEF RowsAre
<1>2. score \in [1..n -> [1..w -> 0..Unit]] /\ \A i \in 1..n : score[i] = records[i].score
  BY DEF RowsAre, ScoreOf
<1>. HIDE DEF score
<1>3. pred \in [1..n -> [1..w -> {0, 1}]]
  BY <1>1, <1>2, ThresholdsDecide
<1>4. \A i \in 1..n : \A l \in 1..w : pred[i][l] = 1 <=> Reaches(score[i][l], threshold)
  BY <1>1, <1>2, ThresholdsDecide
<1>5. table = [i \in 1..n |->
                  [true |-> records[i].true, score |-> score[i], pred |-> pred[i],
                   confidence |-> Confidence(score[i], pred[i])]]
  BY <1>1 DEF ConfidenceTable, ScoreOf, score
<1>. HIDE DEF pred
<1>6. /\ DOMAIN table = 1..n /\ table = [i \in 1..n |-> table[i]]
      /\ \A i \in 1..n : /\ table[i].true = records[i].true /\ table[i].score = score[i]
                         /\ table[i].pred = pred[i]
                         /\ table[i].confidence = Confidence(score[i], pred[i])
  BY <1>5
<1>. HIDE DEF RowsAre
<1>7. RowsAre(table, n, w)
  <2>1. ASSUME NEW i \in 1..n
        PROVE  /\ table[i].true \in [1..w -> {0, 1}] /\ table[i].pred \in [1..w -> {0, 1}]
               /\ table[i].score \in [1..w -> 0..Unit]
    <3>1. score[i] \in [1..w -> 0..Unit] /\ pred[i] \in [1..w -> {0, 1}]
      BY <1>2, <1>3
    <3>. QED BY <1>1, <1>6, <3>1
  <2>. QED BY <1>1, <1>6, <2>1 DEF RowsAre
<1>8. /\ TrueOf(table) = TrueOf(records) /\ ScoreOf(table) = ScoreOf(records)
      /\ PredOf(table) = pred
  <2>1. TrueOf(table) = TrueOf(records)
    BY <1>1, <1>6 DEF TrueOf
  <2>2. ScoreOf(table) = ScoreOf(records)
    BY <1>1, <1>2, <1>6 DEF ScoreOf
  <2>3. PredOf(table) = pred
    BY <1>3, <1>6 DEF PredOf
  <2>. QED BY <2>1, <2>2, <2>3
<1>9. ASSUME NEW i \in 1..n
      PROVE  /\ table[i].score = records[i].score
             /\ table[i].confidence = Confidence(table[i].score, table[i].pred)
             /\ \A l \in 1..w : table[i].pred[l] = 1 <=> Reaches(records[i].score[l], threshold)
  <2>1. table[i].score = score[i] /\ table[i].pred = pred[i] /\ score[i] = records[i].score
        /\ table[i].confidence = Confidence(score[i], pred[i])
    BY <1>2, <1>6
  <2>. QED BY <1>4, <2>1
<1>. QED BY <1>7, <1>8, <1>9 DEF pred, score

\* Some rows of a table are a table.
LEMMA KeptRowsAreRows ==
    ASSUME NEW table, NEW n, NEW w, RowsAre(table, n, w), NEW R \in SUBSET (1..n), R # {},
           NEW K, K = Cardinality(R)
    PROVE  RowsAre(RowsOf(table, R), K, w)
<1>1. /\ n \in Nat /\ w \in Nat \ {0} /\ n * w =< Scale /\ table = [i \in 1..n |-> table[i]]
      /\ \A i \in 1..n : /\ table[i].true \in [1..w -> {0, 1}]
                         /\ table[i].pred \in [1..w -> {0, 1}]
                         /\ table[i].score \in [1..w -> 0..Unit]
  BY DEF RowsAre
<1>2. PICK f : Lists(f, table, R, K)
  <2>1. IsList(table, n)
    BY <1>1 DEF IsList
  <2>. QED BY <1>1, <2>1, RowsAreListed
<1>3. K \in Nat \ {0} /\ K =< n
  <2>1. K \in 0..n /\ (K = 0 <=> R = {})
    BY <1>1, PartsOf
  <2>. QED BY <1>1, <2>1
<1>4. K * w =< Scale
  <2>1. K * w =< n * w
    BY <1>1, <1>3
  <2>2. K * w \in Int /\ n * w \in Int /\ Scale \in Int
    BY <1>1, <1>3, MetricsAssumption
  <2>. QED BY <1>1, <2>1, <2>2
<1>. DEFINE rows == [k \in 1..K |-> table[f[k]]]
<1>5. \A k \in 1..K : rows[k] = table[f[k]] /\ f[k] \in 1..n
  BY <1>2 DEF Lists
<1>6. DOMAIN rows = 1..K /\ rows = [k \in 1..K |-> rows[k]]
  OBVIOUS
<1>. HIDE DEF rows
<1>7. RowsAre(rows, K, w)
  BY <1>1, <1>3, <1>4, <1>5, <1>6 DEF RowsAre
<1>. QED BY <1>2, <1>7 DEF rows, Lists

\* What ranks the abstention thresholds are numbers.
LEMMA HandledAreNumbers ==
    ASSUME NEW table, NEW n, NEW w, RowsAre(table, n, w), NEW R \in SUBSET (1..n)
    PROVE  HandledMetrics(table, R).subset \in Int /\ HandledMetrics(table, R).samplesF1 \in Int
<1>1. CASE R = {}
  BY <1>1 DEF HandledMetrics, Undefined
<1>2. CASE R # {}
  <2>. DEFINE rows == RowsOf(table, R)
              K == Cardinality(R)
              m == MetricsFrom(rows)
  <2>1. RowsAre(rows, K, w)
    BY <1>2, KeptRowsAreRows
  <2>. HIDE DEF rows, K
  <2>2. Sound(m, TrueOf(rows), PredOf(rows), K, w)
    BY <2>1, RowsAreSound
  <2>. HIDE DEF m
  <2>3. m.subset \in Int /\ m.samplesF1 \in Int
    BY <2>2, SoundNumbers
  <2>4. HandledMetrics(table, R) = HandledFrom(m)
    BY <1>2 DEF HandledMetrics, m, rows
  <2>5. HandledFrom(m).subset = m.subset /\ HandledFrom(m).samplesF1 = m.samplesF1
    BY DEF HandledFrom
  <2>. QED BY <2>3, <2>4, <2>5
<1>. QED BY <1>1, <1>2


-----------------------------------------------------------------------------
(* The threshold policy.                                                   *)

\* A grid has finitely many points.
LEMMA GridsAreFinite ==
    ASSUME NEW grid, grid.start \in Int, grid.stop \in Int
    PROVE  IsFiniteSet(GridPoints(grid)) /\ GridPoints(grid) \subseteq Int
<1>1. GridPoints(grid) \in SUBSET (grid.start..grid.stop)
  BY DEF GridPoints
<1>2. IsFiniteSet(grid.start..grid.stop)
  BY FS_Interval
<1>. QED BY <1>1, <1>2, FS_Subset

\* The threshold that is selected is of the grid.
LEMMA ThresholdIsOfTheGrid ==
    ASSUME NEW records, NEW n, NEW w, RowsAre(records, n, w), NEW grid, grid.start \in Int,
           grid.stop \in Int, GridPoints(grid) # {}, NEW reference \in Int
    PROVE  SelectThreshold(Sweep(records, grid), reference) \in GridPoints(grid)
<1>. DEFINE S == GridPoints(grid)
            sweep == Sweep(records, grid)
            key == [bp \in S |-> <<sweep[bp].macroF1, sweep[bp].microF1,
                                   -Distance(bp, reference), bp>>]
            keyed == {<<bp, key[bp]>> : bp \in S}
<1>1. IsFiniteSet(S) /\ S \subseteq Int /\ S # {}
  BY GridsAreFinite
<1>2. DOMAIN sweep = S /\ \A bp \in S : sweep[bp] = MetricsAt(records, Threshold(bp, grid))
  BY DEF Sweep
<1>. HIDE DEF S, sweep
<1>3. ASSUME NEW bp \in S PROVE key[bp] \in [1..4 -> Int] /\ key[bp][4] = bp
  <2>. DEFINE m == sweep[bp]
  <2>1. Sound(m, TrueOf(records), Thresholded(ScoreOf(records), Threshold(bp, grid)), n, w)
    BY <1>2, RowsAreSound
  <2>. HIDE DEF m
  <2>2. m.macroF1 \in Int /\ m.microF1 \in Int
    BY <2>1, SoundNumbers
  <2>3. bp \in Int /\ -Distance(bp, reference) \in Int
    BY <1>1 DEF Distance
  <2>4. key[bp] = <<m.macroF1, m.microF1, -Distance(bp, reference), bp>>
    BY DEF m
  <2>. HIDE DEF key
  <2>. QED BY <2>2, <2>3, <2>4
<1>4. key \in [S -> [1..4 -> Int]] /\ \A x, y \in S : x # y => key[x] # key[y]
  BY <1>3
<1>5. SelectThreshold(sweep, reference) = BestOf(keyed)
  <2>1. keyed = {<<bp, <<sweep[bp].macroF1, sweep[bp].microF1, -Distance(bp, reference), bp>>>> :
                    bp \in DOMAIN sweep}
    BY <1>2
  <2>. HIDE DEF keyed
  <2>. QED BY <2>1 DEF SelectThreshold
<1>. HIDE DEF key
<1>6. 4 \in Nat
  OBVIOUS
<1>7. BestOf(keyed) \in S
  <2>. HIDE DEF keyed
  <2>. QED BY <1>1, <1>4, <1>6, BestIsFirst DEF keyed
<1>. QED BY <1>5, <1>7 DEF S, sweep

\* What a threshold policy consists of.
LEMMA PolicyIs ==
    ASSUME NEW b, NEW c, NEW p, p = ThresholdPolicyOf(b, c)
    PROVE  /\ p.config = c /\ p.sweep = Sweep(b.validation[c.candidate], c.grid)
           /\ DOMAIN p.sweep = GridPoints(c.grid)
           /\ p.selected = SelectThreshold(p.sweep, c.reference)
           /\ p.validation = p.sweep[p.selected]
           /\ p.test = MetricsAt(b.test, Threshold(p.selected, c.grid))
<1>. DEFINE sweep == Sweep(b.validation[c.candidate], c.grid)
            selected == SelectThreshold(sweep, c.reference)
            at == [bp \in {selected, c.reference} |-> MetricsAt(b.test, Threshold(bp, c.grid))]
<1>1. DOMAIN sweep = GridPoints(c.grid)
  BY DEF Sweep
<1>2. at[selected] = MetricsAt(b.test, Threshold(selected, c.grid))
  OBVIOUS
<1>3. p = EvaluatedPolicy(c, selected, sweep, at)
  BY DEF ThresholdPolicyOf, SelectedPolicy, FrozenPolicy
<1>. HIDE DEF sweep, selected, at
<1>4. p = [config |-> c, selected |-> selected, sweep |-> sweep,
           validation |-> sweep[selected], test |-> at[selected],
           comparison |-> Comparison(selected, c.reference, sweep, at)]
  BY <1>3 DEF EvaluatedPolicy
<1>5. /\ p.config = c /\ p.selected = selected /\ p.sweep = sweep
      /\ p.validation = sweep[selected] /\ p.test = at[selected]
  BY <1>4
<1>. QED BY <1>1, <1>2, <1>5 DEF sweep, selected

\* A configuration of build-threshold-policy.
Configured(c) == c.grid \in Grids /\ c.reference \in Int

\* What build-threshold-policy makes agrees with the baseline it was made from.
LEMMA PoliciesAreAccepted ==
    ASSUME NEW b, NEW c, Configured(c), Buildable(b, c), NEW n, NEW w,
           RowsAre(b.validation[c.candidate], n, w), NEW p, p = ThresholdPolicyOf(b, c)
    PROVE  p.selected \in GridPoints(c.grid) /\ AgainstBaseline(p, b)
<1>1. /\ p.config = c /\ p.sweep = Sweep(b.validation[c.candidate], c.grid)
      /\ DOMAIN p.sweep = GridPoints(c.grid)
      /\ p.selected = SelectThreshold(p.sweep, c.reference)
      /\ p.validation = p.sweep[p.selected]
  BY PolicyIs
<1>2. /\ c.grid.start \in Int /\ c.grid.stop \in Int /\ c.reference \in Int
      /\ c.reference \in GridPoints(c.grid) /\ c.candidate = b.winner
  BY DEF Configured, Grids, Buildable
<1>3. p.selected \in GridPoints(c.grid)
  <2>1. GridPoints(c.grid) # {}
    BY <1>2
  <2>. QED BY <1>1, <1>2, <2>1, ThresholdIsOfTheGrid
<1>4. ThresholdIntact(p)
  BY <1>1, <1>3 DEF ThresholdIntact
<1>5. SamePolicy(p, ThresholdPolicyOf(b, p.config))
  BY <1>1, <1>2 DEF SamePolicy
<1>. QED BY <1>1, <1>2, <1>3, <1>4, <1>5 DEF AgainstBaseline

-----------------------------------------------------------------------------
(* The abstention policy.                                                  *)

\* The share of the rows that is handled is a number.
LEMMA CoverageIsNumber ==
    ASSUME NEW table, NEW n, NEW w, RowsAre(table, n, w), NEW R \in SUBSET (1..n)
    PROVE  Len(table) = n /\ Ratio(Cardinality(R), Len(table)) \in Int
<1>1. n \in Nat \ {0} /\ n \in Nat /\ table = [i \in 1..n |-> table[i]]
  BY DEF RowsAre
<1>2. Len(table) = n
  BY <1>1, LengthOf
<1>3. Cardinality(R) \in 0..n
  BY <1>1, PartsOf
<1>. DEFINE r == Cardinality(R)
<1>4. Ratio(r, n) \in 0..Scale
  <2>. HIDE DEF r
  <2>. QED BY <1>1, <1>3, Ratios DEF r
<1>. QED BY <1>2, <1>4, MetricsAssumption

\* Rows are handled or not.
LEMMA HandledAreRows ==
    ASSUME NEW table, NEW n, NEW w, RowsAre(table, n, w), NEW threshold
    PROVE  HandledRows(table, threshold) \in SUBSET (1..n) /\ ForcedRows(table) \in SUBSET (1..n)
  BY DEF HandledRows, ForcedRows, RowsAre

\* The abstention threshold that is selected is one that covers enough.
LEMMA AbstentionIsEligible ==
    ASSUME NEW table, NEW n, NEW w, RowsAre(table, n, w), NEW grid, grid.start \in Int,
           grid.stop \in Int, NEW minimum, NEW sweep, sweep = AbstentionSweep(table, grid),
           Eligible(sweep, minimum) # {}
    PROVE  SelectAbstention(sweep, minimum) \in Eligible(sweep, minimum)
<1>. DEFINE S == Eligible(sweep, minimum)
            key == [bp \in S |-> <<sweep[bp].metrics.subset, sweep[bp].metrics.samplesF1,
                                   sweep[bp].coverage, -bp>>]
            keyed == {<<bp, key[bp]>> : bp \in S}
<1>1. /\ DOMAIN sweep = GridPoints(grid)
      /\ \A bp \in GridPoints(grid) : sweep[bp] = AbstentionAt(table, Threshold(bp, grid))
  BY DEF AbstentionSweep
<1>2. S \in SUBSET GridPoints(grid) /\ S # {}
  BY <1>1 DEF Eligible
<1>3. IsFiniteSet(S) /\ S \subseteq Int
  <2>1. IsFiniteSet(GridPoints(grid)) /\ GridPoints(grid) \subseteq Int
    BY GridsAreFinite
  <2>. HIDE DEF S
  <2>. QED BY <1>2, <2>1, FS_Subset
<1>. HIDE DEF S
<1>4. ASSUME NEW bp \in S PROVE key[bp] \in [1..4 -> Int] /\ key[bp][4] = -bp /\ bp \in Int
  <2>. DEFINE rows == HandledRows(table, Threshold(bp, grid))
              x == sweep[bp].metrics.subset
              y == sweep[bp].metrics.samplesF1
              z == sweep[bp].coverage
  <2>1. /\ sweep[bp].metrics = HandledMetrics(table, rows)
        /\ z = Ratio(Cardinality(rows), Len(table))
    BY <1>1, <1>2 DEF AbstentionAt
  <2>2. rows \in SUBSET (1..n)
    BY HandledAreRows
  <2>. HIDE DEF rows
  <2>3. x \in Int /\ y \in Int
    BY <2>1, <2>2, HandledAreNumbers
  <2>4. z \in Int
    BY <2>1, <2>2, CoverageIsNumber
  <2>5. bp \in Int /\ -bp \in Int
    BY <1>3
  <2>6. key[bp] = <<x, y, z, -bp>>
    OBVIOUS
  <2>. HIDE DEF key, x, y, z
  <2>. QED BY <2>3, <2>4, <2>5, <2>6
<1>5. key \in [S -> [1..4 -> Int]] /\ \A x, y \in S : x # y => key[x] # key[y]
  <2>1. key \in [S -> [1..4 -> Int]]
    BY <1>4
  <2>2. ASSUME NEW x \in S, NEW y \in S, x # y PROVE key[x] # key[y]
    <3>1. key[x][4] = -x /\ key[y][4] = -y /\ x \in Int /\ y \in Int
      BY <1>4
    <3>. HIDE DEF key
    <3>. QED BY <2>2, <3>1
  <2>. QED BY <2>1, <2>2
<1>6. SelectAbstention(sweep, minimum) = BestOf(keyed)
  <2>1. keyed = {<<bp, <<sweep[bp].metrics.subset, sweep[bp].metrics.samplesF1,
                         sweep[bp].coverage, -bp>>>> : bp \in Eligible(sweep, minimum)}
    BY DEF S
  <2>. HIDE DEF keyed
  <2>. QED BY <2>1 DEF SelectAbstention
<1>. HIDE DEF key
<1>7. 4 \in Nat
  OBVIOUS
<1>8. BestOf(keyed) \in S
  <2>. HIDE DEF keyed
  <2>. QED BY <1>2, <1>3, <1>5, <1>7, BestIsFirst DEF keyed
<1>. QED BY <1>6, <1>8 DEF S


\* What an abstention policy consists of.
LEMMA AbstentionIs ==
    ASSUME NEW b, NEW classification, NEW grid, NEW minimum,
           NEW tables, tables = AbstentionTables(b, classification, grid),
           NEW a, a = AbstentionPolicyOf(b, classification, grid, minimum)
    PROVE  /\ a.classification = classification /\ a.grid = grid /\ a.minimum = minimum
           /\ a.sweep = AbstentionSweep(tables.validation, grid)
           /\ a.selected = SelectAbstention(a.sweep, minimum)
           /\ a.validation = AbstentionAt(tables.validation, Threshold(a.selected, grid))
           /\ a.test = AbstentionAt(tables.test, Threshold(a.selected, grid))
           /\ \A split \in {"validation", "test"} :
                 /\ a.bins[split] = ConfidenceBins(tables[split])
                 /\ a.comparison[split] = Arms(tables[split], a[split])
<1>. DEFINE sweep == AbstentionSweep(tables.validation, grid)
            selected == SelectAbstention(sweep, minimum)
            at == [split \in DOMAIN tables |-> AbstentionAt(tables[split], Threshold(selected, grid))]
            e == EvaluatedAbstention(tables, sweep, selected, at)
<1>1. DOMAIN tables = {"validation", "test"}
  BY DEF AbstentionTables
<1>2. SweptAbstention(tables, grid, minimum) = e
  BY DEF SweptAbstention, SelectedAbstention, FrozenAbstention
<1>3. a = [classification |-> classification, grid |-> grid, minimum |-> minimum,
           sweep |-> e.sweep, selected |-> e.selected, validation |-> e.validation,
           test |-> e.test, bins |-> e.bins, comparison |-> e.comparison]
  BY <1>2 DEF AbstentionPolicyOf
<1>4. \A split \in {"validation", "test"} :
         at[split] = AbstentionAt(tables[split], Threshold(selected, grid))
  BY <1>1
<1>. HIDE DEF sweep, selected, at
<1>5. e = [sweep |-> sweep, selected |-> selected, validation |-> at["validation"],
           test |-> at["test"],
           bins |-> [split \in DOMAIN tables |-> ConfidenceBins(tables[split])],
           comparison |-> [split \in DOMAIN tables |-> Arms(tables[split], at[split])]]
  BY DEF EvaluatedAbstention
<1>6. /\ e.sweep = sweep /\ e.selected = selected /\ e.validation = at["validation"]
      /\ e.test = at["test"]
      /\ e.bins = [split \in DOMAIN tables |-> ConfidenceBins(tables[split])]
      /\ e.comparison = [split \in DOMAIN tables |-> Arms(tables[split], at[split])]
  BY <1>5
<1>. HIDE DEF e
<1>7. /\ a.classification = classification /\ a.grid = grid /\ a.minimum = minimum
      /\ a.sweep = sweep /\ a.selected = selected
      /\ a["validation"] = at["validation"] /\ a["test"] = at["test"]
      /\ a.bins = e.bins /\ a.comparison = e.comparison
  BY <1>3, <1>6
<1>8. \A split \in {"validation", "test"} :
         /\ a.bins[split] = ConfidenceBins(tables[split])
         /\ a.comparison[split] = Arms(tables[split], a[split])
  BY <1>1, <1>6, <1>7
<1>9. /\ a.validation = AbstentionAt(tables["validation"], Threshold(a.selected, grid))
      /\ a.test = AbstentionAt(tables["test"], Threshold(a.selected, grid))
  BY <1>4, <1>7
<1>. QED BY <1>7, <1>8, <1>9 DEF sweep, selected

\* What build-abstention-policy makes agrees with what it was made from, and is consistent.
LEMMA AbstentionsAreAccepted ==
    ASSUME NEW b, NEW classification, NEW grid, grid.start \in Int, grid.stop \in Int,
           NEW minimum, NEW n, NEW w, RowsAre(b.validation[b.winner], n, w),
           SomeEligible(b, classification, grid, minimum),
           NEW a, a = AbstentionPolicyOf(b, classification, grid, minimum)
    PROVE  /\ AbstentionAgainstInputs(a, b, classification)
           /\ a.selected \in Eligible(a.sweep, minimum) /\ a.selected \in GridPoints(grid)
<1>. DEFINE tables == AbstentionTables(b, classification, grid)
            table == tables.validation
<1>1. /\ a.classification = classification /\ a.grid = grid /\ a.minimum = minimum
      /\ a.sweep = AbstentionSweep(table, grid)
      /\ a.selected = SelectAbstention(a.sweep, minimum)
      /\ a.validation = AbstentionAt(table, Threshold(a.selected, grid))
      /\ a.comparison["validation"] = Arms(table, a["validation"])
  BY AbstentionIs
<1>2. RowsAre(table, n, w)
  <2>1. table = ConfidenceTable(b.validation[b.winner], Threshold(classification, grid))
    BY DEF AbstentionTables
  <2>. HIDE DEF table
  <2>. QED BY <2>1, TablesAreRows
<1>3. Eligible(a.sweep, minimum) # {}
  BY <1>1 DEF SomeEligible
<1>4. DOMAIN a.sweep = GridPoints(grid)
      /\ \A bp \in GridPoints(grid) : a.sweep[bp] = AbstentionAt(table, Threshold(bp, grid))
  BY <1>1 DEF AbstentionSweep
<1>. HIDE DEF tables
<1>5. a.selected \in Eligible(a.sweep, minimum) /\ a.selected \in GridPoints(grid)
  <2>1. a.selected \in Eligible(a.sweep, minimum)
    <3>. HIDE DEF table
    <3>. QED BY <1>1, <1>2, <1>3, AbstentionIsEligible
  <2>. QED BY <1>4, <2>1 DEF Eligible
<1>6. a.sweep[a.selected] = a.validation
  BY <1>1, <1>4, <1>5
<1>7. LET arm == a.comparison["validation"].selected
      IN /\ arm.count = a.validation.handled /\ arm.coverage = a.validation.coverage
         /\ arm.metrics = a.validation.metrics
  BY <1>1 DEF Arms
<1>8. AbstentionIntact(a)
  BY <1>1, <1>4, <1>5, <1>6, <1>7 DEF AbstentionIntact
<1>9. SameAbstention(a, AbstentionPolicyOf(b, a.classification, a.grid, a.minimum))
  BY <1>1 DEF SameAbstention
<1>. QED BY <1>1, <1>5, <1>8, <1>9 DEF AbstentionAgainstInputs

-----------------------------------------------------------------------------
(* What abstaining drops.                                                  *)

\* What is counted of some rows is counted of all.
LEMMA FewerRowsCountLess ==
    ASSUME NEW n \in Nat, NEW S \in SUBSET (1..n), NEW K \in Nat, NEW f \in [1..K -> 1..n],
           \A j, k \in 1..K : j # k => f[j] # f[k], NEW T \in SUBSET (1..K),
           \A k \in T : f[k] \in S
    PROVE  Cardinality(T) =< Cardinality(S)
<1>. DEFINE g == [k \in T |-> f[k]]
<1>1. g \in [T -> S] /\ \A j, k \in T : j # k => g[j] # g[k]
  OBVIOUS
<1>2. g \in Injection(T, S)
  <2>. HIDE DEF g
  <2>. QED BY <1>1 DEF Injection, IsInjective
<1>3. IsFiniteSet(S)
  BY PartsOf
<1>. HIDE DEF g
<1>. QED BY <1>2, <1>3, FS_Injection

\* The wrong predictions of a label, one way and the other, among rows.
WrongIn(table, l) ==
    [fp |-> {i \in DOMAIN table : table[i].pred[l] = 1} \ {i \in DOMAIN table : table[i].true[l] = 1},
     fn |-> {i \in DOMAIN table : table[i].true[l] = 1} \ {i \in DOMAIN table : table[i].pred[l] = 1}]

\* The wrong predictions HandledFrom counts.
LEMMA ErrorsAreCounted ==
    ASSUME NEW table, NEW n, NEW w, RowsAre(table, n, w), NEW h, h = HandledFrom(MetricsFrom(table)),
           NEW fp, fp = [l \in 1..w |-> Cardinality(WrongIn(table, l).fp)],
           NEW fn, fn = [l \in 1..w |-> Cardinality(WrongIn(table, l).fn)]
    PROVE  /\ h.fp = Total(fp) /\ h.fn = Total(fn)
           /\ fp \in [1..w -> Nat] /\ fn \in [1..w -> Nat]
<1>. DEFINE true == TrueOf(table)
            pred == PredOf(table)
            score == ScoreOf(table)
            per == [l \in DOMAIN true[1] |-> PerLabel(true, pred, score, l)]
            m == MetricsFrom(table)
<1>1. /\ n \in Nat \ {0} /\ n \in Nat /\ w \in Nat \ {0} /\ DOMAIN table = 1..n
      /\ DOMAIN true = 1..n /\ \A i \in 1..n : true[i] = table[i].true /\ pred[i] = table[i].pred
      /\ table[1].true \in [1..w -> {0, 1}]
  <2>1. n \in Nat \ {0} /\ w \in Nat \ {0} /\ DOMAIN table = 1..n /\ 1 \in 1..n
    BY DEF RowsAre
  <2>2. table[1].true \in [1..w -> {0, 1}]
    BY <2>1 DEF RowsAre
  <2>3. DOMAIN true = 1..n /\ \A i \in 1..n : true[i] = table[i].true /\ pred[i] = table[i].pred
    BY <2>1 DEF TrueOf, PredOf
  <2>. QED BY <2>1, <2>2, <2>3
<1>2. DOMAIN true[1] = 1..w
  <2>1. 1 \in 1..n
    BY <1>1
  <2>2. true[1] = table[1].true
    BY <1>1, <2>1
  <2>. HIDE DEF true
  <2>. QED BY <1>1, <2>2
<1>3. m.perLabel = per
  BY DEF MetricsFrom, SplitMetrics, Aggregate, TrueOf, PredOf, ScoreOf
<1>4. ASSUME NEW l \in 1..w
      PROVE  /\ per[l].fp = Cardinality(WrongIn(table, l).fp)
             /\ per[l].fn = Cardinality(WrongIn(table, l).fn)
  <2>. HIDE DEF true, pred, score
  <2>. DEFINE P == {i \in DOMAIN true : true[i][l] = 1}
              Q == {i \in DOMAIN true : pred[i][l] = 1}
  <2>1. per[l].fp = Cardinality(Q \ P) /\ per[l].fn = Cardinality(P \ Q)
    BY <1>2 DEF PerLabel
  <2>2. /\ P = {i \in DOMAIN table : table[i].true[l] = 1}
        /\ Q = {i \in DOMAIN table : table[i].pred[l] = 1}
    BY <1>1
  <2>3. WrongIn(table, l).fp = Q \ P /\ WrongIn(table, l).fn = P \ Q
    BY <2>2 DEF WrongIn
  <2>. HIDE DEF P, Q, per
  <2>. QED BY <2>1, <2>3
<1>5. ASSUME NEW l \in 1..w
      PROVE  /\ Cardinality(WrongIn(table, l).fp) \in Nat
             /\ Cardinality(WrongIn(table, l).fn) \in Nat
  <2>. DEFINE S == WrongIn(table, l).fp
              T == WrongIn(table, l).fn
  <2>1. S \in SUBSET (1..n) /\ T \in SUBSET (1..n)
    BY <1>1 DEF WrongIn
  <2>. HIDE DEF S, T
  <2>2. Cardinality(S) \in 0..n /\ Cardinality(T) \in 0..n
    BY <1>1, <2>1, PartsOf
  <2>. QED BY <1>1, <2>2 DEF S, T
<1>6. h.fp = Total([l \in DOMAIN m.perLabel |-> m.perLabel[l].fp])
      /\ h.fn = Total([l \in DOMAIN m.perLabel |-> m.perLabel[l].fn])
  <2>. HIDE DEF m
  <2>. QED BY DEF HandledFrom, m
<1>7. DOMAIN per = 1..w
  BY <1>2
<1>. HIDE DEF per, m
<1>8. /\ [l \in DOMAIN m.perLabel |-> m.perLabel[l].fp] = fp
      /\ [l \in DOMAIN m.perLabel |-> m.perLabel[l].fn] = fn
  BY <1>3, <1>4, <1>7
<1>. QED BY <1>5, <1>6, <1>8

\* Fewer rows have no more wrong predictions.
LEMMA FewerRowsFewerErrors ==
    ASSUME NEW table, NEW n, NEW w, RowsAre(table, n, w), NEW R \in SUBSET (1..n), R # {},
           NEW h, h = HandledMetrics(table, R), NEW full, full = HandledMetrics(table, DOMAIN table)
    PROVE  h.fp =< full.fp /\ h.fn =< full.fn
<1>. DEFINE rows == RowsOf(table, R)
            K == Cardinality(R)
            fp(t) == [l \in 1..w |-> Cardinality(WrongIn(t, l).fp)]
            fn(t) == [l \in 1..w |-> Cardinality(WrongIn(t, l).fn)]
<1>1. n \in Nat \ {0} /\ n \in Nat /\ w \in Nat /\ DOMAIN table = 1..n /\ IsList(table, n)
  BY DEF RowsAre, IsList
<1>2. RowsAre(rows, K, w)
  BY KeptRowsAreRows
<1>3. RowsOf(table, DOMAIN table) = table
  BY <1>1, AllRowsAreTheTable DEF IsList
<1>4. h = HandledFrom(MetricsFrom(rows)) /\ full = HandledFrom(MetricsFrom(table))
  <2>1. DOMAIN table # {}
    BY <1>1
  <2>. QED BY <1>3, <2>1 DEF HandledMetrics
<1>5. PICK f : Lists(f, table, R, K)
  BY <1>1, RowsAreListed
<1>. HIDE DEF rows, K
<1>6. /\ f \in [1..K -> 1..n] /\ \A j, k \in 1..K : j # k => f[j] # f[k]
      /\ DOMAIN rows = 1..K /\ \A k \in 1..K : rows[k] = table[f[k]]
      /\ K \in Nat
  BY <1>2, <1>5 DEF Lists, RowsAre, rows
<1>7. ASSUME NEW l \in 1..w
      PROVE  /\ Cardinality(WrongIn(rows, l).fp) =< Cardinality(WrongIn(table, l).fp)
             /\ Cardinality(WrongIn(rows, l).fn) =< Cardinality(WrongIn(table, l).fn)
  <2>. DEFINE S == WrongIn(table, l).fp
              T == WrongIn(rows, l).fp
              U == WrongIn(table, l).fn
              V == WrongIn(rows, l).fn
  <2>1. S \in SUBSET (1..n) /\ T \in SUBSET (1..K) /\ U \in SUBSET (1..n) /\ V \in SUBSET (1..K)
    BY <1>1, <1>6 DEF WrongIn
  <2>2. (\A k \in T : f[k] \in S) /\ (\A k \in V : f[k] \in U)
    BY <1>1, <1>6 DEF WrongIn
  <2>. HIDE DEF S, T, U, V
  <2>3. Cardinality(T) =< Cardinality(S)
    BY <1>1, <1>6, <2>1, <2>2, FewerRowsCountLess
  <2>4. Cardinality(V) =< Cardinality(U)
    BY <1>1, <1>6, <2>1, <2>2, FewerRowsCountLess
  <2>. QED BY <2>3, <2>4 DEF S, T, U, V
<1>8. /\ h.fp = Total(fp(rows)) /\ h.fn = Total(fn(rows))
      /\ fp(rows) \in [1..w -> Nat] /\ fn(rows) \in [1..w -> Nat]
  BY <1>2, <1>4, ErrorsAreCounted
<1>9. /\ full.fp = Total(fp(table)) /\ full.fn = Total(fn(table))
      /\ fp(table) \in [1..w -> Nat] /\ fn(table) \in [1..w -> Nat]
  BY <1>4, ErrorsAreCounted
<1>10. \A l \in 1..w : fp(rows)[l] =< fp(table)[l] /\ fn(rows)[l] =< fn(table)[l]
  BY <1>7
<1>. HIDE DEF fp, fn
<1>11. Total(fp(rows)) =< Total(fp(table))
  BY <1>1, <1>8, <1>9, <1>10, TotalsCompare
<1>12. Total(fn(rows)) =< Total(fn(table))
  BY <1>1, <1>8, <1>9, <1>10, TotalsCompare
<1>. QED BY <1>8, <1>9, <1>11, <1>12


\* What is predicted is all that is not forced.
LEMMA PredictedOrForced ==
    ASSUME NEW table, NEW n, NEW w, RowsAre(table, n, w), NEW R, R = (1..n) \ ForcedRows(table)
    PROVE  /\ R \in SUBSET (1..n) /\ R = {i \in 1..n : table[i].confidence # Undefined}
           /\ Cardinality(R) \in Nat /\ Cardinality(ForcedRows(table)) \in Nat
           /\ Cardinality(R) = n - Cardinality(ForcedRows(table))
<1>. DEFINE F == ForcedRows(table)
<1>1. n \in Nat /\ DOMAIN table = 1..n
  BY DEF RowsAre
<1>2. F = {i \in 1..n : table[i].confidence = Undefined}
  BY <1>1 DEF ForcedRows
<1>3. IsFiniteSet(1..n) /\ Cardinality(1..n) = n
  BY <1>1, FS_Interval
<1>4. F \in SUBSET (1..n) /\ (1..n) \cap F = F
  BY <1>2
<1>5. R \in SUBSET (1..n) /\ R = {i \in 1..n : table[i].confidence # Undefined}
  BY <1>2
<1>. HIDE DEF F
<1>6. Cardinality(R) \in 0..n /\ Cardinality(F) \in 0..n
  BY <1>1, <1>4, <1>5, PartsOf
<1>7. Cardinality(R) = Cardinality(1..n) - Cardinality((1..n) \cap F)
  BY <1>3, FS_Difference DEF F
<1>8. Cardinality(R) = n - Cardinality(F) /\ Cardinality(R) \in Nat /\ Cardinality(F) \in Nat
  <2>1. Cardinality((1..n) \cap F) = Cardinality(F)
    BY <1>4
  <2>2. Cardinality(R) = n - Cardinality(F)
    BY <1>3, <1>7, <2>1
  <2>3. Cardinality(R) \in Nat /\ Cardinality(F) \in Nat
    BY <1>1, <1>6
  <2>. QED BY <2>2, <2>3
<1>. QED BY <1>5, <1>8 DEF F

PartCounts(R, part, K) == [k \in 1..K |-> Cardinality({i \in R : part[i] = k})]

\* The counts of the parts of some rows add up.
LEMMA PartsAddUp ==
    ASSUME NEW n \in Nat, NEW R \in SUBSET (1..n), NEW K \in Nat, NEW part \in [R -> 1..K]
    PROVE  Total(PartCounts(R, part, K)) = Cardinality(R)
<1>. DEFINE upTo(m) == {i \in R : part[i] =< m}
            is(m) == {i \in R : part[i] = m}
            counts == PartCounts(R, part, K)
<1>1. \A m : upTo(m) \in SUBSET (1..n) /\ is(m) \in SUBSET (1..n)
  OBVIOUS
<1>2. \A Q \in SUBSET (1..n) : IsFiniteSet(Q) /\ Cardinality(Q) \in Nat
  <2>1. ASSUME NEW Q \in SUBSET (1..n) PROVE IsFiniteSet(Q) /\ Cardinality(Q) \in Nat
    <3>1. IsFiniteSet(Q) /\ Cardinality(Q) \in 0..n
      BY PartsOf
    <3>. QED BY <3>1
  <2>. QED BY <2>1
<1>3. counts \in [1..K -> Nat] /\ \A k \in 1..K : counts[k] = Cardinality(is(k))
  BY <1>1, <1>2 DEF PartCounts
<1>. HIDE DEF counts
<1>4. PICK f : Sums(f, K, counts)
  BY <1>3, TotalAdds
<1>. DEFINE H == {m \in 0..K : f[m] = Cardinality(upTo(m))}
<1>5. 0 \in H
  <2>1. upTo(0) = {}
    <3>1. ASSUME NEW i \in R PROVE ~(part[i] =< 0)
      <4>1. part[i] \in 1..K
        OBVIOUS
      <4>. QED BY <4>1
    <3>. QED BY <3>1
  <2>2. Cardinality(upTo(0)) = 0
    BY <2>1, FS_EmptySet
  <2>. HIDE DEF upTo
  <2>. QED BY <1>4, <2>2 DEF Sums
<1>6. ASSUME NEW m \in 1..K, m - 1 \in H PROVE m \in H
  <2>1. upTo(m) = upTo(m - 1) \cup is(m) /\ upTo(m - 1) \cap is(m) = {}
    <3>1. \A i \in R : part[i] \in Int
      OBVIOUS
    <3>2. \A i \in R : (part[i] =< m <=> part[i] =< m - 1 \/ part[i] = m)
                       /\ ~(part[i] =< m - 1 /\ part[i] = m)
      BY <3>1
    <3>. QED BY <3>2
  <2>2. f[m] = f[m - 1] + counts[m] /\ f[m - 1] = Cardinality(upTo(m - 1))
        /\ counts[m] = Cardinality(is(m))
    <3>. HIDE DEF upTo, is
    <3>. QED BY <1>3, <1>4, <1>6 DEF Sums
  <2>3. /\ IsFiniteSet(upTo(m - 1)) /\ IsFiniteSet(is(m))
        /\ Cardinality(upTo(m - 1)) \in Nat /\ Cardinality(is(m)) \in Nat
    <3>. HIDE DEF upTo, is
    <3>. QED BY <1>1, <1>2
  <2>. HIDE DEF upTo, is
  <2>4. Cardinality(upTo(m - 1) \cup is(m))
           = Cardinality(upTo(m - 1)) + Cardinality(is(m)) - Cardinality(upTo(m - 1) \cap is(m))
    BY <2>3, FS_Union
  <2>5. Cardinality(upTo(m - 1) \cap is(m)) = 0
    BY <2>1, FS_EmptySet
  <2>6. f[m] = Cardinality(upTo(m))
    BY <2>1, <2>2, <2>3, <2>4, <2>5
  <2>. QED BY <2>6
<1>7. K \in H
  <2>. HIDE DEF H
  <2>1. \A m \in 0..K : m \in H
    BY <1>5, <1>6, AllOf
  <2>. QED BY <2>1
<1>8. upTo(K) = R
  <2>1. ASSUME NEW i \in R PROVE part[i] =< K
    <3>1. part[i] \in 1..K
      OBVIOUS
    <3>. QED BY <3>1
  <2>. QED BY <2>1
<1>9. f[K] = Cardinality(upTo(K)) /\ Total(counts) = f[K]
  <2>. HIDE DEF upTo
  <2>. QED BY <1>4, <1>7 DEF Sums
<1>. QED BY <1>8, <1>9 DEF counts

\* Whether a confidence is in a bin.
LEMMA BinsAre ==
    ASSUME NEW c \in 0..Unit
    PROVE  /\ DOMAIN BinBounds = 1..6
           /\ InBin(c, 1) <=> 39 * Unit =< 100 * c /\ 100 * c < 50 * Unit
           /\ InBin(c, 2) <=> 50 * Unit =< 100 * c /\ 100 * c < 60 * Unit
           /\ InBin(c, 3) <=> 60 * Unit =< 100 * c /\ 100 * c < 70 * Unit
           /\ InBin(c, 4) <=> 70 * Unit =< 100 * c /\ 100 * c < 80 * Unit
           /\ InBin(c, 5) <=> 80 * Unit =< 100 * c /\ 100 * c < 90 * Unit
           /\ InBin(c, 6) <=> 90 * Unit =< 100 * c
<1>1. Unit \in Nat \ {0} /\ c \in Nat /\ c =< Unit
  BY MetricsAssumption
<1>2. /\ DOMAIN BinBounds = 1..6 /\ Len(BinBounds) = 6
      /\ BinBounds[1][1] = 39 /\ BinBounds[1][2] = 50
      /\ BinBounds[2][1] = 50 /\ BinBounds[2][2] = 60
      /\ BinBounds[3][1] = 60 /\ BinBounds[3][2] = 70
      /\ BinBounds[4][1] = 70 /\ BinBounds[4][2] = 80
      /\ BinBounds[5][1] = 80 /\ BinBounds[5][2] = 90
      /\ BinBounds[6][1] = 90 /\ BinBounds[6][2] = 100
  BY DEF BinBounds
<1>. QED BY <1>1, <1>2 DEF InBin

\* A confidence that is not below the lowest bound is in exactly one bin.
LEMMA OneBin ==
    ASSUME NEW c \in 0..Unit, 39 * Unit =< 100 * c
    PROVE  \E k \in 1..6 : InBin(c, k) /\ \A j \in 1..6 : InBin(c, j) => j = k
<1>1. Unit \in Nat \ {0} /\ c \in Nat /\ c =< Unit
  BY MetricsAssumption
<1>2. /\ InBin(c, 1) <=> 39 * Unit =< 100 * c /\ 100 * c < 50 * Unit
      /\ InBin(c, 2) <=> 50 * Unit =< 100 * c /\ 100 * c < 60 * Unit
      /\ InBin(c, 3) <=> 60 * Unit =< 100 * c /\ 100 * c < 70 * Unit
      /\ InBin(c, 4) <=> 70 * Unit =< 100 * c /\ 100 * c < 80 * Unit
      /\ InBin(c, 5) <=> 80 * Unit =< 100 * c /\ 100 * c < 90 * Unit
      /\ InBin(c, 6) <=> 90 * Unit =< 100 * c
  BY BinsAre
<1>3. \E k \in 1..6 : InBin(c, k)
  BY <1>1, <1>2
<1>4. ASSUME NEW j \in 1..6, NEW k \in 1..6, InBin(c, j), InBin(c, k) PROVE j = k
  BY <1>1, <1>2, <1>4
<1>. QED BY <1>3, <1>4

\* Every predicted row of high enough confidence is in one bin.
LEMMA BinsAddUp ==
    ASSUME NEW table, NEW n, NEW w, RowsAre(table, n, w), NEW bins, bins = ConfidenceBins(table),
           \A i \in 1..n : table[i].confidence # Undefined =>
               table[i].confidence \in 0..Unit /\ 39 * Unit =< 100 * table[i].confidence
    PROVE  Total([k \in DOMAIN bins.bins |-> bins.bins[k].count]) + bins.unpredicted = n
<1>. DEFINE F == ForcedRows(table)
            R == (1..n) \ F
            in(k) == {i \in DOMAIN table : table[i].confidence # Undefined
                                            /\ InBin(table[i].confidence, k)}
            part == [i \in R |-> CHOOSE k \in 1..6 : InBin(table[i].confidence, k)]
            s == [k \in DOMAIN bins.bins |-> bins.bins[k].count]
<1>1. n \in Nat /\ DOMAIN table = 1..n
  BY DEF RowsAre
<1>2. /\ R \in SUBSET (1..n) /\ R = {i \in 1..n : table[i].confidence # Undefined}
      /\ Cardinality(R) \in Nat /\ Cardinality(F) \in Nat /\ Cardinality(R) = n - Cardinality(F)
  BY PredictedOrForced
<1>3. DOMAIN BinBounds = 1..6
  <2>1. 0 \in 0..Unit
    BY MetricsAssumption
  <2>. QED BY <2>1, BinsAre
<1>4. /\ bins.unpredicted = Cardinality(F) /\ DOMAIN bins.bins = 1..6
      /\ \A k \in 1..6 : bins.bins[k].count = Cardinality(in(k))
  BY <1>3 DEF ConfidenceBins
<1>. HIDE DEF R, F
<1>5. ASSUME NEW i \in R
      PROVE  part[i] \in 1..6 /\ \A k \in 1..6 : InBin(table[i].confidence, k) <=> part[i] = k
  <2>. DEFINE c == table[i].confidence
  <2>1. c \in 0..Unit /\ 39 * Unit =< 100 * c
    BY <1>2
  <2>. HIDE DEF c
  <2>2. PICK k \in 1..6 : InBin(c, k) /\ \A j \in 1..6 : InBin(c, j) => j = k
    BY <2>1, OneBin
  <2>3. part[i] = CHOOSE j \in 1..6 : InBin(c, j)
    BY DEF c
  <2>. HIDE DEF part
  <2>4. part[i] \in 1..6 /\ InBin(c, part[i])
    BY <2>2, <2>3
  <2>5. part[i] = k
    BY <2>2, <2>4
  <2>. QED BY <2>2, <2>5 DEF c
<1>6. part \in [R -> 1..6]
  BY <1>5
<1>. HIDE DEF part
<1>7. ASSUME NEW k \in 1..6 PROVE in(k) = {i \in R : part[i] = k}
  BY <1>1, <1>2, <1>5
<1>8. s = PartCounts(R, part, 6)
  <2>1. s = [k \in 1..6 |-> Cardinality(in(k))]
    BY <1>4
  <2>. QED BY <1>7, <2>1 DEF PartCounts
<1>9. Total(s) = Cardinality(R)
  <2>1. 6 \in Nat
    OBVIOUS
  <2>. HIDE DEF s
  <2>. QED BY <1>1, <1>2, <1>6, <1>8, <2>1, PartsAddUp
<1>. HIDE DEF s
<1>10. Total(s) + bins.unpredicted = n
  BY <1>1, <1>2, <1>4, <1>9
<1>. QED BY <1>10 DEF s


\* A predicted row is as confident as the classification threshold.
LEMMA PredictedAreConfident ==
    ASSUME NEW c \in Nat, NEW k \in Int, NEW den \in Nat \ {0},
           Reaches(c, [bp |-> k, den |-> den]), 100 * k >= 39 * den
    PROVE  39 * Unit =< 100 * c
<1>1. Unit \in Nat \ {0}
  BY MetricsAssumption
<1>2. c * den >= k * Unit
  BY DEF Reaches
<1>3. 100 * (c * den) >= 100 * (k * Unit)
  BY <1>1, <1>2
<1>4. (100 * k) * Unit >= (39 * den) * Unit
  BY <1>1
<1>5. den * (100 * c) >= den * (39 * Unit)
  <2>1. den * (100 * c) = 100 * (c * den)
    OBVIOUS
  <2>2. (100 * k) * Unit = 100 * (k * Unit)
    BY <1>1
  <2>3. (39 * den) * Unit = den * (39 * Unit)
    BY <1>1
  <2>4. {c * den, k * Unit, (39 * den) * Unit} \subseteq Int
    BY <1>1
  <2>. QED BY <1>3, <1>4, <2>1, <2>2, <2>3, <2>4
<1>. DEFINE x == 100 * c
            y == 39 * Unit
<1>6. x \in Int /\ y \in Int /\ den * x >= den * y
  BY <1>1, <1>5
<1>. HIDE DEF x, y
<1>7. x >= y
  BY <1>6
<1>. QED BY <1>7 DEF x, y

\* What is handled is part of what is predicted, with no other errors, and what is predicted
\* is in the bins.
LEMMA AbstainingDrops ==
    ASSUME NEW records, NEW n, NEW w, RowsAre(records, n, w), NEW k \in Int, NEW grid,
           grid.den \in Nat \ {0},
           NEW table, table = ConfidenceTable(records, Threshold(k, grid)),
           NEW threshold, NEW at, at = AbstentionAt(table, threshold),
           NEW full, full = Arms(table, at).full, NEW bins, bins = ConfidenceBins(table)
    PROVE  /\ full.metrics.macro[3] = MetricsAt(records, Threshold(k, grid)).macroF1
           /\ at.handled =< full.count
           /\ at.handled > 0 => at.metrics.fp =< full.metrics.fp /\ at.metrics.fn =< full.metrics.fn
           /\ 100 * k >= 39 * grid.den =>
                 Total([j \in DOMAIN bins.bins |-> bins.bins[j].count]) + bins.unpredicted = at.total
<1>. DEFINE rows == HandledRows(table, threshold)
            F == ForcedRows(table)
            pred == Thresholded(ScoreOf(records), Threshold(k, grid))
<1>1. /\ RowsAre(table, n, w)
      /\ TrueOf(table) = TrueOf(records) /\ ScoreOf(table) = ScoreOf(records)
      /\ PredOf(table) = pred
      /\ \A i \in 1..n :
            /\ table[i].score = records[i].score
            /\ table[i].confidence = Confidence(table[i].score, table[i].pred)
            /\ \A l \in 1..w : table[i].pred[l] = 1 <=> Reaches(records[i].score[l], Threshold(k, grid))
  BY TablesAreRows
<1>2. /\ n \in Nat \ {0} /\ n \in Nat /\ w \in Nat /\ DOMAIN table = 1..n /\ IsList(table, n)
      /\ \A i \in 1..n : table[i].score \in [1..w -> 0..Unit] /\ table[i].pred \in [1..w -> {0, 1}]
  BY <1>1 DEF RowsAre, IsList
<1>3. Len(table) = n
  BY <1>2, LengthOf DEF IsList
<1>4. /\ at.handled = Cardinality(rows) /\ at.forced = Cardinality(F) /\ at.total = n
      /\ at.metrics = HandledMetrics(table, rows)
  BY <1>3 DEF AbstentionAt
<1>5. full.count = n - Cardinality(F) /\ full.metrics = HandledMetrics(table, DOMAIN table)
  BY <1>3, <1>4 DEF Arms
<1>6. rows \in SUBSET (1..n) /\ F \in SUBSET (1..n)
  BY <1>1, HandledAreRows
<1>7. at.handled =< full.count
  <2>. DEFINE R == (1..n) \ F
  <2>1. Cardinality(R) = n - Cardinality(F) /\ R = {i \in 1..n : table[i].confidence # Undefined}
    BY <1>1, PredictedOrForced
  <2>2. rows \in SUBSET R
    BY <1>2, <2>1 DEF HandledRows
  <2>3. IsFiniteSet(R)
    <3>1. R \in SUBSET (1..n)
      OBVIOUS
    <3>. HIDE DEF R
    <3>. QED BY <1>2, <3>1, PartsOf
  <2>. HIDE DEF R, rows, F
  <2>4. Cardinality(rows) =< Cardinality(R)
    BY <2>2, <2>3, FS_Subset
  <2>. QED BY <1>4, <1>5, <2>1, <2>4
<1>8. at.handled > 0 => at.metrics.fp =< full.metrics.fp /\ at.metrics.fn =< full.metrics.fn
  <2>. SUFFICES ASSUME at.handled > 0
                PROVE  at.metrics.fp =< full.metrics.fp /\ at.metrics.fn =< full.metrics.fn
    OBVIOUS
  <2>1. rows # {}
    BY <1>4, FS_EmptySet
  <2>. HIDE DEF rows
  <2>. QED BY <1>1, <1>4, <1>5, <1>6, <2>1, FewerRowsFewerErrors
<1>9. ASSUME 100 * k >= 39 * grid.den
      PROVE  Total([j \in DOMAIN bins.bins |-> bins.bins[j].count]) + bins.unpredicted = at.total
  <2>1. ASSUME NEW i \in 1..n, table[i].confidence # Undefined
        PROVE  table[i].confidence \in 0..Unit /\ 39 * Unit =< 100 * table[i].confidence
    <3>. DEFINE c == table[i].confidence
                score == table[i].score
                p == table[i].pred
    <3>1. c = Confidence(score, p) /\ score \in [1..w -> 0..Unit] /\ p \in [1..w -> {0, 1}]
      BY <1>1, <1>2
    <3>2. \A l \in 1..w : p[l] = 1 => Reaches(score[l], [bp |-> k, den |-> grid.den])
      BY <1>1 DEF Threshold
    <3>3. c # Undefined
      BY <2>1
    <3>. HIDE DEF c, score, p
    <3>4. c \in 0..Unit /\ \E l \in 1..w : p[l] = 1 /\ c = score[l]
      <4>1. \/ c = Undefined /\ \A l \in 1..w : p[l] # 1
            \/ c \in 0..Unit /\ \E l \in 1..w : p[l] = 1 /\ c = score[l]
        <5>1. w \in Nat
          BY <1>2
        <5>2. score \in [1..w -> 0..Unit]
          BY <3>1
        <5>3. p \in [1..w -> {0, 1}]
          BY <3>1
        <5>4. c = Confidence(score, p)
          BY <3>1
        <5>5. IsConfidence(c, score, p, w)
          BY <5>1, <5>2, <5>3, <5>4, ConfidenceIsAScore
        <5>. QED BY <5>5 DEF IsConfidence
      <4>. QED BY <3>3, <4>1
    <3>5. Reaches(c, [bp |-> k, den |-> grid.den]) /\ c \in Nat
      BY <3>2, <3>4, MetricsAssumption
    <3>6. 39 * Unit =< 100 * c
      BY <1>9, <3>5, PredictedAreConfident
    <3>. QED BY <3>4, <3>6 DEF c
  <2>. DEFINE s == [j \in DOMAIN bins.bins |-> bins.bins[j].count]
  <2>2. Total(s) + bins.unpredicted = n
    BY <1>1, <2>1, BinsAddUp
  <2>. QED BY <1>4, <2>2
<1>10. full.metrics.macro[3] = MetricsAt(records, Threshold(k, grid)).macroF1
  <2>. DEFINE m == MetricsFrom(table)
  <2>1. RowsOf(table, DOMAIN table) = table /\ DOMAIN table # {}
    BY <1>2, AllRowsAreTheTable DEF IsList
  <2>2. full.metrics = HandledFrom(m)
    BY <1>5, <2>1 DEF HandledMetrics
  <2>3. m = SplitMetrics(TrueOf(table), PredOf(table), ScoreOf(table))
    BY DEF MetricsFrom, TrueOf, PredOf, ScoreOf
  <2>4. MetricsAt(records, Threshold(k, grid)) = SplitMetrics(TrueOf(records), pred, ScoreOf(records))
    BY DEF MetricsAt, TrueOf, ScoreOf
  <2>. HIDE DEF m, pred
  <2>5. m = MetricsAt(records, Threshold(k, grid))
    BY <1>1, <2>3, <2>4
  <2>6. HandledFrom(m).macro[3] = m.macroF1
    BY DEF HandledFrom
  <2>. QED BY <2>2, <2>5, <2>6
<1>. QED BY <1>7, <1>8, <1>9, <1>10

-----------------------------------------------------------------------------
(* Answers.                                                                *)

\* The list has these labels and no other.
Enumerates(list, S) ==
    /\ \A k \in DOMAIN list : list[k] \in S
    /\ \A l \in S : \E k \in DOMAIN list : list[k] = l
    /\ list = <<>> => S = {}

\* The labels are all listed.
LEMMA HighestFirstLists ==
    ASSUME NEW w \in Nat, NEW S \in SUBSET (1..w), NEW score \in [1..w -> Int],
           NEW list, list = HighestFirst(S, score)
    PROVE  Enumerates(list, S)
<1>. DEFINE before == {p \in S \X S : score[p[1]] > score[p[2]]
                                      \/ (score[p[1]] = score[p[2]] /\ p[1] < p[2])}
            c == Cardinality(S)
            ahead(l) == {k \in S : score[k] > score[l] \/ (score[k] = score[l] /\ k < l)}
<1>1. IsFiniteSet(S) /\ c \in Nat /\ (c = 0 <=> S = {})
  <2>1. IsFiniteSet(S) /\ c \in 0..w /\ (c = 0 <=> S = {})
    BY PartsOf
  <2>. QED BY <2>1
<1>2. \A k, l \in S : <<k, l>> \in before <=> score[k] > score[l] \/ (score[k] = score[l] /\ k < l)
  OBVIOUS
<1>3. \A l \in S : ahead(l) = Preceding(S, before, l)
  BY DEF Preceding
<1>. HIDE DEF before
<1>4. Orders(before, S)
  <2>1. \A l \in S : l \in Int /\ score[l] \in Int
    OBVIOUS
  <2>. QED BY <1>2, <2>1 DEF Orders
<1>5. /\ \A l \in S : Rank(S, before, l) \in 0..(c - 1)
      /\ \A n \in 0..(c - 1) : \E l \in S : Rank(S, before, l) = n
  BY <1>1, <1>4, Ranks
<1>6. list = [n \in 1..c |-> CHOOSE l \in S : Cardinality(ahead(l)) = n - 1]
  BY DEF HighestFirst
<1>. HIDE DEF ahead, c
<1>7. DOMAIN list = 1..c
  BY <1>6
<1>8. ASSUME NEW n \in 1..c PROVE list[n] \in S /\ Rank(S, before, list[n]) = n - 1
  <2>1. list[n] = CHOOSE l \in S : Cardinality(ahead(l)) = n - 1
    BY <1>6
  <2>2. n - 1 \in 0..(c - 1)
    BY <1>1
  <2>3. PICK l \in S : Cardinality(ahead(l)) = n - 1
    BY <1>3, <1>5, <2>2 DEF Rank
  <2>4. list[n] \in S /\ Cardinality(ahead(list[n])) = n - 1
    BY <2>1, <2>3
  <2>. QED BY <1>3, <2>4 DEF Rank
<1>9. ASSUME NEW l \in S PROVE \E n \in 1..c : list[n] = l
  <2>. DEFINE r == Rank(S, before, l)
  <2>1. r \in 0..(c - 1)
    BY <1>5
  <2>. HIDE DEF r
  <2>2. r + 1 \in 1..c /\ (r + 1) - 1 = r
    BY <1>1, <2>1
  <2>3. list[r + 1] \in S /\ Rank(S, before, list[r + 1]) = r
    BY <1>8, <2>2
  <2>4. list[r + 1] = l
    BY <1>1, <1>4, <2>3, RanksDiffer DEF r
  <2>. QED BY <2>2, <2>4
<1>10. list = <<>> => S = {}
  <2>1. list = <<>> => 1..c = {}
    BY <1>7
  <2>. QED BY <1>1, <2>1
<1>. QED BY <1>7, <1>8, <1>9, <1>10 DEF Enumerates

\* The predictions are the scores that reach the threshold.
Decides(pred, score, threshold, w) ==
    \A l \in 1..w : pred[l] = 1 <=> Reaches(score[l], threshold)

\* The answer gives the scores and their predictions, and abstains by their confidence.
Answers(a, score, pred, bundle, w) ==
    /\ a.score = score
    /\ \A l \in 1..w : Bit(l \in ToSet(a.predicted)) = pred[l]
    /\ a.abstention.abstains <=> \/ Confidence(score, pred) = Undefined
                                 \/ ~Reaches(Confidence(score, pred), bundle.abstention)
    /\ ResponseValid(bundle, a)

\* What an answer says: the labels that reach the classification threshold, and whether one
\* of them reaches the other.
LEMMA AnswerIs ==
    ASSUME NEW w \in Nat, NEW score \in [1..w -> 0..Unit], NEW bundle,
           NEW a, a = InferIssue(bundle, score), NEW pred \in [1..w -> {0, 1}],
           Decides(pred, score, bundle.classification, w)
    PROVE  Answers(a, score, pred, bundle, w)
<1>. DEFINE made == Thresholded(<<score>>, bundle.classification)[1]
            S == {l \in DOMAIN score : made[l] = 1}
            list == HighestFirst(S, score)
            c == Confidence(score, pred)
            d == DecideAbstention(score, pred, bundle.abstention)
<1>1. made = pred
  <2>. DEFINE one == <<score>>
              t == bundle.classification
  <2>1. DOMAIN one = 1..1 /\ one[1] = score /\ DOMAIN score = 1..w /\ 1 \in 1..1
    OBVIOUS
  <2>2. made = Thresholded(one, t)[1]
    OBVIOUS
  <2>. HIDE DEF one, made, t
  <2>3. made = [l \in 1..w |-> Bit(Reaches(score[l], t))]
    BY <2>1, <2>2 DEF Thresholded
  <2>5. \A l \in 1..w : pred[l] = 1 <=> Reaches(score[l], t)
    BY DEF t, Decides
  <2>6. ASSUME NEW l \in 1..w PROVE made[l] = pred[l]
    <3>1. made[l] = Bit(Reaches(score[l], t))
      BY <2>3
    <3>2. made[l] \in {0, 1} /\ (made[l] = 1 <=> Reaches(score[l], t))
      BY <3>1 DEF Bit
    <3>3. pred[l] \in {0, 1} /\ (pred[l] = 1 <=> Reaches(score[l], t))
      BY <2>5
    <3>. QED BY <3>2, <3>3
  <2>. QED BY <2>3, <2>6
<1>2. a = [score |-> score, predicted |-> list, abstention |-> d]
  BY <1>1 DEF InferIssue, ApplyThreshold
<1>. HIDE DEF made
<1>3. S \in SUBSET (1..w) /\ S = {l \in 1..w : pred[l] = 1}
  BY <1>1
<1>. HIDE DEF S
<1>4. score \in [1..w -> Int]
  BY MetricsAssumption
<1>5. /\ \A k \in DOMAIN list : list[k] \in S
      /\ \A l \in S : \E k \in DOMAIN list : list[k] = l
      /\ list = <<>> => S = {}
  <2>1. list = HighestFirst(S, score)
    OBVIOUS
  <2>2. S \in SUBSET (1..w)
    BY <1>3
  <2>. HIDE DEF list
  <2>3. Enumerates(list, S)
    BY <1>4, <2>1, <2>2, HighestFirstLists
  <2>. QED BY <2>3 DEF Enumerates
<1>6. a.score = score /\ a.predicted = list /\ a.abstention = d
  BY <1>2
<1>. HIDE DEF list
<1>7. \A l : l \in ToSet(a.predicted) <=> l \in S
  BY <1>5, <1>6 DEF ToSet
<1>8. \A l \in 1..w : Bit(l \in ToSet(a.predicted)) = pred[l]
  BY <1>3, <1>7 DEF Bit
<1>9. d = [confidence |-> c, abstains |-> c = Undefined \/ ~Reaches(c, bundle.abstention),
           reason |-> IF c = Undefined THEN "no_labels_predicted" ELSE "confidence"]
  BY DEF DecideAbstention
<1>10. d.abstains <=> c = Undefined \/ ~Reaches(c, bundle.abstention)
  <2>1. d.abstains = (c = Undefined \/ ~Reaches(c, bundle.abstention))
    <3>. HIDE DEF c
    <3>. QED BY DEF DecideAbstention, c
  <2>. QED BY <2>1
<1>11. S = {} => c = Undefined
  <2>1. S = {} => \A l \in 1..w : pred[l] # 1
    BY <1>3
  <2>. QED BY <2>1, ConfidenceIsAScore DEF IsConfidence
<1>12. ResponseValid(bundle, a)
  <2>1. \A k \in DOMAIN a.predicted : Reaches(a.score[a.predicted[k]], bundle.classification)
    BY <1>3, <1>5, <1>6 DEF Decides
  <2>2. ASSUME a.predicted = <<>>
        PROVE  a.abstention = [confidence |-> Undefined, abstains |-> TRUE,
                               reason |-> "no_labels_predicted"]
    <3>1. c = Undefined
      BY <1>5, <1>6, <1>11, <2>2
    <3>. HIDE DEF c, d
    <3>. QED BY <1>6, <1>9, <3>1
  <2>. QED BY <2>1, <2>2 DEF ResponseValid
<1>. QED BY <1>6, <1>8, <1>10, <1>12 DEF Answers


-----------------------------------------------------------------------------
(* The inductive invariant.                                                *)

InputsKnown == config \in BaselineConfigs /\ validation \in Validations /\ test \in Tests

BaselineTrained == baseline = BaselineOf(config, CandidateSelection(config, validation), test)

\* An altered baseline still has the records of the validation split.
RecordsRemain == \A id \in Ids(config) : AreOf(baseline.validation[id], validation)

PolicySelected ==
    \E c \in ThresholdConfigs(baseline.winner) :
        Buildable(baseline, c) /\ policy = ThresholdPolicyOf(baseline, c)

AbstentionSelected ==
    \E c \in AbstentionConfigs :
        LET grid == ResolveGrid(c, policy.selected)
        IN /\ SomeEligible(baseline, policy.selected, grid, c.minimum)
           /\ abstention = AbstentionPolicyOf(baseline, policy.selected, grid, c.minimum)

\* An altered abstention policy still has a row of its own sweep.
AbstentionSwept ==
    /\ \E c \in AbstentionConfigs : abstention.grid = ResolveGrid(c, policy.selected)
    /\ abstention.validation =
          AbstentionAt(AbstentionTables(baseline, policy.selected, abstention.grid).validation,
                       Threshold(abstention.selected, abstention.grid))

\* The server's answers for a split.
AnswersFor(split) ==
    LET bundle == LoadThresholds(baseline, policy, abstention)
        score == (IF split = "test" THEN test ELSE validation).scores[bundle.model]
    IN [i \in DOMAIN score |-> InferIssue(bundle, score[i])]

\* Where the commands have come after the threshold policy, and after the abstention policy.
PolicyStages ==
    {"threshold staged", "threshold selected", "no abstention policy", "abstention staged",
     "complete", "abstention altered", "abstention reused", "served"}

IInv ==
    /\ InputsKnown
    /\ stage \notin {"start", "baseline altered", "baseline reused"} => BaselineTrained
    /\ stage \in {"baseline altered", "baseline reused"} => RecordsRemain
    /\ stage = "baseline reused" => BaselineAgainstInputs(baseline, config, validation, test)
    /\ stage \in PolicyStages => PolicySelected
    /\ stage = "threshold reused" => AgainstBaseline(policy, baseline)
    /\ stage \in {"abstention staged", "complete"} => AbstentionSelected
    /\ stage \in {"abstention altered", "served"} => AbstentionSwept
    /\ stage = "abstention reused" => AbstentionAgainstInputs(abstention, baseline, policy.selected)
    /\ stage = "served" => answers = [split \in {"validation", "test"} |-> AnswersFor(split)]
    /\ RefusedOnlyOnTies


\* What train-baseline makes.
LEMMA BaselineIs ==
    ASSUME NEW c, NEW v, NEW t,
           NEW records, records = [id \in Ids(c) |-> PredictionsOf(v, id, c.threshold)],
           NEW metrics, metrics = [id \in Ids(c) |-> MetricsFrom(records[id])],
           NEW b, b = BaselineOf(c, CandidateSelection(c, v), t)
    PROVE  /\ b.results = SelectCandidate(c, metrics) /\ b.winner = b.results.winner
           /\ b.results.metrics = metrics /\ b.validation = records
           /\ b.test = PredictionsOf(t, b.winner, c.threshold)
           /\ b.testMetrics = MetricsFrom(b.test)
<1>1. CandidateSelection(c, v) = [results |-> SelectCandidate(c, metrics), validation |-> records]
  BY DEF CandidateSelection
<1>2. SelectCandidate(c, metrics).metrics = metrics
  BY DEF SelectCandidate
<1>q. QED
  BY <1>1, <1>2 DEF BaselineOf

\* A trained baseline has the records of its splits and a candidate for a winner.
LEMMA TrainedIs ==
    ASSUME InputsKnown, BaselineTrained
    PROVE  /\ baseline.winner \in Ids(config) /\ baseline.results.winner = baseline.winner
           /\ baseline.winner = SelectCandidate(config, baseline.results.metrics).winner
           /\ DOMAIN baseline.validation = Ids(config)
           /\ \A id \in Ids(config) :
                 /\ baseline.validation[id] = PredictionsOf(validation, id, config.threshold)
                 /\ baseline.results.metrics[id] = MetricsFrom(baseline.validation[id])
                 /\ AreOf(baseline.validation[id], validation)
                 /\ Ranked(baseline.results.metrics[id])
           /\ baseline.test = PredictionsOf(test, baseline.winner, config.threshold)
           /\ AreOf(baseline.test, test) /\ baseline.testMetrics = MetricsFrom(baseline.test)
<1> DEFINE records == [id \in Ids(config) |-> PredictionsOf(validation, id, config.threshold)]
<1> DEFINE metrics == [id \in Ids(config) |-> MetricsFrom(records[id])]
<1>1. config \in BaselineConfigs /\ validation \in Validations /\ test \in Tests
  BY DEF InputsKnown
<1>2. /\ baseline.results = SelectCandidate(config, metrics)
      /\ baseline.winner = baseline.results.winner
      /\ baseline.results.metrics = metrics /\ baseline.validation = records
      /\ baseline.test = PredictionsOf(test, baseline.winner, config.threshold)
      /\ baseline.testMetrics = MetricsFrom(baseline.test)
  BY BaselineIs DEF BaselineTrained
<1>3. \A id \in Ids(config) :
         /\ records[id] = PredictionsOf(validation, id, config.threshold)
         /\ AreOf(records[id], validation) /\ metrics[id] = MetricsFrom(records[id])
         /\ Ranked(metrics[id])
  <2> TAKE id \in Ids(config)
  <2>1. records[id] = PredictionsOf(validation, id, config.threshold)
    OBVIOUS
  <2>2. metrics[id] = MetricsFrom(records[id])
    OBVIOUS
  <2>h. HIDE DEF records, metrics
  <2>3. AreOf(records[id], validation)
    BY <1>1, <2>1, PredictionsAreRows
  <2>q. QED
    BY <1>1, <2>1, <2>2, <2>3, ValidationsAreRanked
<1>4. DOMAIN records = Ids(config)
  OBVIOUS
<1>h. HIDE DEF records, metrics
<1>5. baseline.winner \in Ids(config)
  BY <1>1, <1>2, <1>3, SelectionPicks
<1>6. AreOf(baseline.test, test)
  BY <1>1, <1>2, <1>5, PredictionsAreRows
<1>q. QED
  BY <1>2, <1>3, <1>4, <1>5, <1>6


\* A candidate's predictions are accepted as its records.
LEMMA PredictionsAreStrict ==
    ASSUME NEW c \in BaselineConfigs, NEW id \in Ids(c), NEW split \in Validations \cup Tests,
           NEW records, records = PredictionsOf(split, id, c.threshold),
           NEW w, w = LabelsIn(split)
    PROVE  SourceAligned(records, split) /\ StrictRecords(records, w, c.threshold)
<1> DEFINE n == RecordsIn(split)
<1>1. /\ RowsAre(records, n, w) /\ \A i \in 1..n : records[i].true = split.targets[i]
      /\ \A i \in 1..n : \A l \in 1..w :
            records[i].pred[l] = 1 <=> Reaches(records[i].score[l], c.threshold)
  BY PredictionsAreRows DEF AreOf
<1>2. /\ n \in Nat \ {0} /\ w \in Nat \ {0}
      /\ DOMAIN records = 1..n /\ records = [i \in 1..n |-> records[i]]
      /\ \A i \in 1..n : /\ records[i].true \in [1..w -> {0, 1}]
                         /\ records[i].pred \in [1..w -> {0, 1}]
                         /\ records[i].score \in [1..w -> 0..Unit]
  BY <1>1 DEF RowsAre
<1>3. Len(records) = n
  BY <1>2, LengthOf
<1>4. ASSUME NEW f, NEW S, f \in [1..w -> S]
      PROVE  Len(f) = w
  BY <1>2, <1>4, LengthOf
<1>5. ASSUME NEW i \in 1..n
      PROVE  /\ Len(records[i].true) = w /\ Len(records[i].pred) = w /\ Len(records[i].score) = w
             /\ \A l \in 1..w : /\ records[i].score[l] \in 0..Unit
                                /\ records[i].pred[l] = Bit(Reaches(records[i].score[l], c.threshold))
  <2>1. Len(records[i].true) = w /\ Len(records[i].pred) = w /\ Len(records[i].score) = w
    BY <1>2, <1>4
  <2>2. ASSUME NEW l \in 1..w
        PROVE  /\ records[i].score[l] \in 0..Unit
               /\ records[i].pred[l] = Bit(Reaches(records[i].score[l], c.threshold))
    <3>1. /\ records[i].score[l] \in 0..Unit /\ records[i].pred[l] \in {0, 1}
          /\ records[i].pred[l] = 1 <=> Reaches(records[i].score[l], c.threshold)
      BY <1>1, <1>2
    <3>q. QED
      BY <3>1 DEF Bit
  <2>q. QED
    BY <2>1, <2>2
<1>6. SourceAligned(records, split)
  BY <1>1, <1>2, <1>3 DEF SourceAligned, RecordsIn
<1>q. QED
  BY <1>2, <1>5, <1>6 DEF StrictRecords

\* A tie the selection and the audit break differently.
BrokenTie(id) ==
    LET metrics == baseline.results.metrics
        other == CandidateOf(config, id)
        winner == CandidateOf(config, baseline.winner)
    IN /\ MetricKey(metrics[id]) = MetricKey(metrics[baseline.winner])
       /\ id > winner.id
       /\ other.ngram > winner.ngram \/ (other.weighted /\ ~winner.weighted)

\* What train-baseline made is refused for a tie only.
LEMMA RefusedForATie ==
    ASSUME InputsKnown, BaselineTrained,
           ~ /\ BaselineAgainstInputs(baseline, config, validation, test)
             /\ ModelConsistent(baseline, config, validation, test)
    PROVE  \E id \in Ids(config) : BrokenTie(id)
<1> DEFINE w == LabelsIn(validation)
<1> DEFINE metrics == baseline.results.metrics
<1> DEFINE again == [id \in Ids(config) |-> MetricsFrom(baseline.validation[id])]
<1> DEFINE a == BestOf({<<id, AuditKey(id, metrics[id])>> : id \in Ids(config)})
<1>1. config \in BaselineConfigs /\ validation \in Validations /\ test \in Tests
  BY DEF InputsKnown
<1>2. LabelsIn(test) = w
  BY <1>1, TrainingAssumption DEF LabelsIn
<1>3. ModelConsistent(baseline, config, validation, test)
  BY TrainedIs DEF ModelConsistent
<1>4. \A id \in Ids(config) : /\ SourceAligned(baseline.validation[id], validation)
                              /\ StrictRecords(baseline.validation[id], w, config.threshold)
  BY <1>1, TrainedIs, PredictionsAreStrict
<1>5. SourceAligned(baseline.test, test) /\ StrictRecords(baseline.test, w, config.threshold)
  BY <1>1, <1>2, TrainedIs, PredictionsAreStrict
<1>6. BaselineIntact(baseline)
  BY TrainedIs DEF BaselineIntact
<1>7. AuditedMetrics(baseline.testMetrics) = AuditedMetrics(MetricsFrom(baseline.test))
  BY TrainedIs
<1>8. ~SelectionAudited(config, baseline)
  BY <1>3, <1>4, <1>5, <1>6, <1>7, TrainedIs DEF BaselineAgainstInputs, LabelsIn
<1>9. \A id \in Ids(config) : metrics[id] = again[id]
  BY TrainedIs
<1>10. {<<id, AuditKey(id, again[id])>> : id \in Ids(config)}
          = {<<id, AuditKey(id, metrics[id])>> : id \in Ids(config)}
  <2>h. HIDE DEF again, metrics
  <2>q. QED
    BY <1>9
<1>11. baseline.results.winner # a
  BY <1>8, <1>9, <1>10, TrainedIs DEF SelectionAudited
<1>12. \A id \in Ids(config) : Ranked(metrics[id])
  BY TrainedIs
<1>13. baseline.winner = SelectCandidate(config, metrics).winner /\ a # baseline.winner
  BY <1>11, TrainedIs
<1>h. HIDE DEF a, metrics
<1>14. a = BestOf({<<id, AuditKey(id, metrics[id])>> : id \in Ids(config)})
  BY DEF a
<1>15. /\ a \in Ids(config) /\ baseline.winner \in Ids(config)
       /\ MetricKey(metrics[a]) = MetricKey(metrics[baseline.winner]) /\ a > baseline.winner
       /\ \/ CandidateOf(config, a).ngram > CandidateOf(config, baseline.winner).ngram
          \/ CandidateOf(config, a).weighted /\ ~CandidateOf(config, baseline.winner).weighted
  BY <1>1, <1>12, <1>13, <1>14, DisagreementIsATie
<1>16. CandidateOf(config, baseline.winner).id = baseline.winner
  BY <1>1, <1>15, CandidatesAreKnown
<1>17. BrokenTie(a)
  BY <1>15, <1>16 DEF BrokenTie, metrics
<1>q. QED
  BY <1>15, <1>17

\* Whatever was changed in a baseline, it has the records of the validation split.
LEMMA AlteredBaselinesRemain ==
    ASSUME InputsKnown, BaselineTrained, NEW b \in AlteredBaselines
    PROVE  \A id \in Ids(config) : AreOf(b.validation[id], validation)
<1> DEFINE old == baseline.validation
<1>1. \A id \in Ids(config) : AreOf(old[id], validation)
  BY TrainedIs
<1>2. CASE b.validation = old
  BY <1>1, <1>2
<1>3. CASE \E k \in Ids(config) : b.validation = [old EXCEPT ![k][1].score[1] = Unit]
  <2>1. PICK k \in Ids(config) : b.validation = [old EXCEPT ![k][1].score[1] = Unit]
    BY <1>3
  <2> DEFINE n == RecordsIn(validation)
  <2> DEFINE w == LabelsIn(validation)
  <2> DEFINE rows == old[k]
  <2> DEFINE altered == [rows EXCEPT ![1].score[1] = Unit]
  <2>2. DOMAIN old = Ids(config)
    BY TrainedIs
  <2>3. b.validation[k] = altered /\ \A id \in Ids(config) \ {k} : b.validation[id] = old[id]
    BY <2>1, <2>2
  <2>4. RowsAre(rows, n, w) /\ \A i \in 1..n : rows[i].true = validation.targets[i]
    BY <1>1 DEF AreOf
  <2>5. /\ n \in Nat \ {0} /\ w \in Nat \ {0} /\ n * w =< Scale
        /\ DOMAIN rows = 1..n
        /\ \A i \in 1..n : /\ rows[i].true \in [1..w -> {0, 1}] /\ rows[i].pred \in [1..w -> {0, 1}]
                           /\ rows[i].score \in [1..w -> 0..Unit]
    BY <2>4 DEF RowsAre
  <2>r. rows[1] = [true |-> rows[1].true, pred |-> rows[1].pred, score |-> rows[1].score]
    <3>1. rows = PredictionsOf(validation, k, config.threshold)
      BY TrainedIs
    <3>2. 1 \in DOMAIN rows
      BY <2>5
    <3>q. QED
      BY <3>1, <3>2 DEF PredictionsOf
  <2>h. HIDE DEF rows, n, w
  <2>6. /\ DOMAIN altered = 1..n /\ altered = [i \in 1..n |-> altered[i]]
        /\ altered[1] = [rows[1] EXCEPT !.score[1] = Unit]
        /\ \A i \in 1..n : i # 1 => altered[i] = rows[i]
    <3>1. DOMAIN altered = 1..n
      BY <2>5
    <3>2. altered = [i \in DOMAIN rows |->
                        IF i = 1 THEN [rows[1] EXCEPT !.score[1] = Unit] ELSE rows[i]]
      OBVIOUS
    <3> DEFINE new == [rows[1] EXCEPT !.score[1] = Unit]
    <3>3. altered = [i \in 1..n |-> IF i = 1 THEN new ELSE rows[i]]
      BY <2>5, <3>2
    <3>4. 1 \in 1..n
      BY <2>5
    <3>h. HIDE DEF altered, new
    <3>5. \A i \in 1..n : altered[i] = IF i = 1 THEN new ELSE rows[i]
      BY <3>3
    <3>6. altered = [i \in 1..n |-> altered[i]]
      BY <3>3, <3>5
    <3>7. altered[1] = new
      BY <3>4, <3>5
    <3>q. QED
      BY <3>1, <3>5, <3>6, <3>7 DEF new
  <2>7. Unit \in 0..Unit
    BY MetricsAssumption
  <2>8. /\ altered[1].true = rows[1].true /\ altered[1].pred = rows[1].pred
        /\ altered[1].score = [rows[1].score EXCEPT ![1] = Unit]
    BY <2>6, <2>r
  <2>9. altered[1].score \in [1..w -> 0..Unit]
    BY <2>5, <2>7, <2>8
  <2>h2. HIDE DEF altered
  <2>10. RowsAre(altered, n, w)
    BY <2>5, <2>6, <2>8, <2>9 DEF RowsAre
  <2>11. \A i \in 1..n : altered[i].true = validation.targets[i]
    BY <2>4, <2>5, <2>6, <2>8
  <2>12. AreOf(altered, validation)
    BY <2>10, <2>11 DEF AreOf, n, w
  <2>q. QED
    BY <1>1, <2>3, <2>12
<1>4. DOMAIN baseline = {"winner", "results", "validation", "test", "testMetrics"}
  BY DEF BaselineTrained, BaselineOf
<1>5. \/ \E id \in Ids(config) :
            \/ b = [baseline EXCEPT !.winner = id, !.results.winner = id]
            \/ b = [baseline EXCEPT !.results.metrics[id].macroF1 = 0]
            \/ b = [baseline EXCEPT !.validation[id][1].score[1] = Unit]
      \/ b = [baseline EXCEPT !.test[1].pred[1] = 1 - @]
      \/ b = [baseline EXCEPT !.testMetrics.macroF1 = Scale]
  BY DEF AlteredBaselines
<1>6. ASSUME NEW id \in Ids(config)
      PROVE  /\ b = [baseline EXCEPT !.winner = id, !.results.winner = id] => b.validation = old
             /\ b = [baseline EXCEPT !.results.metrics[id].macroF1 = 0] => b.validation = old
             /\ b = [baseline EXCEPT !.validation[id][1].score[1] = Unit] =>
                   b.validation = [old EXCEPT ![id][1].score[1] = Unit]
  BY <1>4
<1>7. /\ b = [baseline EXCEPT !.test[1].pred[1] = 1 - @] => b.validation = old
      /\ b = [baseline EXCEPT !.testMetrics.macroF1 = Scale] => b.validation = old
  BY <1>4
<1>q. QED
  BY <1>2, <1>3, <1>5, <1>6, <1>7


\* The threshold policy that was built is accepted, its threshold a number.
LEMMA BuiltPolicyIsAccepted ==
    ASSUME InputsKnown, BaselineTrained, PolicySelected
    PROVE  /\ AgainstBaseline(policy, baseline) /\ policy.selected \in Int
           /\ policy.config.grid \in Grids /\ policy.config.candidate = baseline.winner
           /\ \E c \in ThresholdConfigs(baseline.winner) : policy = ThresholdPolicyOf(baseline, c)
<1>1. PICK c \in ThresholdConfigs(baseline.winner) :
          Buildable(baseline, c) /\ policy = ThresholdPolicyOf(baseline, c)
  BY DEF PolicySelected
<1>2. config \in BaselineConfigs
  BY DEF InputsKnown
<1>3. baseline.winner \in Ids(config) /\ AreOf(baseline.validation[baseline.winner], validation)
  BY TrainedIs
<1>4. \A k \in BaselineConfigs : \A id \in Ids(k) : \A t \in ThresholdConfigs(id) :
          t.grid \in Grids /\ t.reference \in Int
  BY TrainingAssumption
<1>5. Configured(c) /\ c.grid \in Grids
  BY <1>2, <1>3, <1>4 DEF Configured
<1>6. c.candidate = baseline.winner
  BY <1>1 DEF Buildable
<1>7. RowsAre(baseline.validation[c.candidate], RecordsIn(validation), LabelsIn(validation))
  BY <1>3, <1>6 DEF AreOf
<1>8. policy.selected \in GridPoints(c.grid) /\ AgainstBaseline(policy, baseline)
  BY <1>1, <1>5, <1>7, PoliciesAreAccepted
<1>9. GridPoints(c.grid) \subseteq Int
  BY <1>5, GridsAreFinite DEF Grids
<1>10. policy.config = c
  BY <1>1, PolicyIs
<1>q. QED
  BY <1>1, <1>5, <1>6, <1>8, <1>9, <1>10

\* The grid of an abstention policy.
LEMMA GridIs ==
    ASSUME NEW c \in AbstentionConfigs, NEW classification \in Int,
           NEW grid, grid = ResolveGrid(c, classification)
    PROVE  grid.start \in Int /\ grid.stop \in Int /\ grid.den \in Nat \ {0}
<1>1. {c.start, c.stop, c.minimum} \subseteq Int /\ {c.step, c.den} \subseteq Nat \ {0}
  BY TrainingAssumption
<1>q. QED
  BY <1>1 DEF ResolveGrid

\* The abstention policy that was built is accepted, and has a row of its own sweep.
LEMMA BuiltAbstentionIsAccepted ==
    ASSUME InputsKnown, BaselineTrained, PolicySelected, AbstentionSelected
    PROVE  AbstentionAgainstInputs(abstention, baseline, policy.selected) /\ AbstentionSwept
<1>1. PICK c \in AbstentionConfigs :
          /\ SomeEligible(baseline, policy.selected, ResolveGrid(c, policy.selected), c.minimum)
          /\ abstention = AbstentionPolicyOf(baseline, policy.selected,
                                             ResolveGrid(c, policy.selected), c.minimum)
  BY DEF AbstentionSelected
<1> DEFINE grid == ResolveGrid(c, policy.selected)
<1>2. grid.start \in Int /\ grid.stop \in Int
  BY BuiltPolicyIsAccepted, GridIs
<1>3. RowsAre(baseline.validation[baseline.winner], RecordsIn(validation), LabelsIn(validation))
  BY TrainedIs DEF AreOf
<1>h. HIDE DEF grid
<1>4. /\ SomeEligible(baseline, policy.selected, grid, c.minimum)
      /\ abstention = AbstentionPolicyOf(baseline, policy.selected, grid, c.minimum)
  BY <1>1 DEF grid
<1>5. AbstentionAgainstInputs(abstention, baseline, policy.selected)
  BY <1>2, <1>3, <1>4, AbstentionsAreAccepted
<1> DEFINE tables == AbstentionTables(baseline, policy.selected, grid)
<1>6. /\ abstention.grid = grid
      /\ abstention.validation = AbstentionAt(tables.validation, Threshold(abstention.selected, grid))
  BY <1>4, AbstentionIs
<1>q. QED
  BY <1>5, <1>6 DEF AbstentionSwept, grid

\* Whatever was changed in an abstention policy, it has a row of its own sweep.
LEMMA AlteredAbstentionsAreSwept ==
    ASSUME InputsKnown, BaselineTrained, PolicySelected, AbstentionSelected,
           NEW a \in AlteredAbstentions
    PROVE  /\ \E c \in AbstentionConfigs : a.grid = ResolveGrid(c, policy.selected)
           /\ a.validation = AbstentionAt(AbstentionTables(baseline, policy.selected, a.grid).validation,
                                          Threshold(a.selected, a.grid))
<1>1. /\ \E c \in AbstentionConfigs : abstention.grid = ResolveGrid(c, policy.selected)
      /\ abstention.validation =
            AbstentionAt(AbstentionTables(baseline, policy.selected, abstention.grid).validation,
                         Threshold(abstention.selected, abstention.grid))
  BY BuiltAbstentionIsAccepted DEF AbstentionSwept
<1>2. DOMAIN abstention = {"classification", "grid", "minimum", "sweep", "selected", "validation",
                           "test", "bins", "comparison"}
  BY DEF AbstentionSelected, AbstentionPolicyOf
<1>3. CASE \/ a = [abstention EXCEPT !.test = abstention.validation]
           \/ a = [abstention EXCEPT !.classification = @ + 1]
           \/ a = [abstention EXCEPT !.bins["test"] = abstention.bins["validation"]]
  <2>1. a.grid = abstention.grid /\ a.validation = abstention.validation
        /\ a.selected = abstention.selected
    BY <1>2, <1>3
  <2>q. QED
    BY <1>1, <2>1
<1>4. ASSUME NEW bp \in DOMAIN abstention.sweep,
             a = [abstention EXCEPT !.selected = bp, !.validation = abstention.sweep[bp]]
      PROVE  /\ a.grid = abstention.grid
             /\ a.validation = AbstentionAt(
                   AbstentionTables(baseline, policy.selected, a.grid).validation,
                   Threshold(a.selected, a.grid))
  <2> DEFINE tables == AbstentionTables(baseline, policy.selected, abstention.grid)
  <2>1. a.grid = abstention.grid /\ a.selected = bp /\ a.validation = abstention.sweep[bp]
    BY <1>2, <1>4
  <2>2. abstention.sweep = AbstentionSweep(tables.validation, abstention.grid)
    BY AbstentionIs DEF AbstentionSelected
  <2>3. abstention.sweep[bp] = AbstentionAt(tables.validation, Threshold(bp, abstention.grid))
    BY <2>2 DEF AbstentionSweep
  <2>q. QED
    BY <2>1, <2>3
<1>q. QED
  BY <1>1, <1>3, <1>4 DEF AlteredAbstentions


\* The commands start with it.
LEMMA InitSetsIInv == Init => IInv
BY DEF Init, IInv, InputsKnown, PolicyStages, RefusedOnlyOnTies

\* Every command, every change of an artifact and every start of the server keep it.
LEMMA NextKeepsIInv == IInv /\ [Next]_vars => IInv'
<1> SUFFICES ASSUME IInv, [Next]_vars
             PROVE  IInv'
  OBVIOUS
<1>1. UNCHANGED inputs /\ InputsKnown => InputsKnown'
  BY DEF InputsKnown, inputs
<1>2. UNCHANGED <<inputs, baseline>> /\ BaselineTrained => BaselineTrained'
  BY DEF BaselineTrained, inputs
<1>3. UNCHANGED <<inputs, baseline>> /\ RecordsRemain => RecordsRemain'
  BY DEF RecordsRemain, inputs
<1>4. UNCHANGED <<inputs, baseline, policy>> /\ PolicySelected => PolicySelected'
  BY DEF PolicySelected, inputs
<1>5. UNCHANGED <<inputs, baseline, policy, abstention>> /\ AbstentionSelected => AbstentionSelected'
  BY DEF AbstentionSelected, inputs
<1>6. UNCHANGED <<inputs, baseline, policy, abstention>> /\ AbstentionSwept => AbstentionSwept'
  BY DEF AbstentionSwept, inputs
<1>7. InputsKnown
  BY DEF IInv
<1>8. CASE TrainBaseline
  <2>1. stage' = "baseline staged" /\ UNCHANGED inputs
        /\ baseline' = BaselineOf(config, CandidateSelection(config, validation), test)
    BY <1>8 DEF TrainBaseline
  <2>2. BaselineTrained'
    BY <2>1 DEF BaselineTrained, inputs
  <2>q. QED
    BY <1>1, <1>7, <2>1, <2>2 DEF IInv, PolicyStages, RefusedOnlyOnTies
<1>9. CASE ValidateBaseline
  <2>1. /\ stage = "baseline staged" /\ UNCHANGED <<inputs, baseline, policy, abstention>>
        /\ stage' \in {"trained", "baseline refused"}
        /\ stage' = "baseline refused" =>
              ~ /\ BaselineAgainstInputs(baseline, config, validation, test)
                /\ ModelConsistent(baseline, config, validation, test)
    BY <1>9 DEF ValidateBaseline, inputs
  <2>2. BaselineTrained
    BY <2>1 DEF IInv
  <2>3. stage' = "baseline refused" => \E id \in Ids(config) : BrokenTie(id)
    BY <1>7, <2>1, <2>2, RefusedForATie
  <2>4. RefusedOnlyOnTies'
    BY <2>1, <2>3 DEF RefusedOnlyOnTies, BrokenTie, inputs
  <2>q. QED
    BY <1>1, <1>2, <1>7, <2>1, <2>2, <2>4 DEF IInv, PolicyStages, inputs
<1>10. CASE BuildThresholdPolicy
  <2>1. /\ stage = "trained" /\ UNCHANGED <<inputs, baseline, abstention>>
        /\ \/ stage' = "no threshold policy"
           \/ /\ stage' = "threshold staged"
              /\ \E c \in ThresholdConfigs(baseline.winner) :
                    Buildable(baseline, c) /\ policy' = ThresholdPolicyOf(baseline, c)
    BY <1>10 DEF BuildThresholdPolicy, inputs
  <2>2. BaselineTrained'
    BY <1>2, <2>1 DEF IInv, inputs
  <2>3. stage' = "threshold staged" => PolicySelected'
    BY <2>1 DEF PolicySelected, inputs
  <2>q. QED
    BY <1>1, <1>7, <2>1, <2>2, <2>3 DEF IInv, PolicyStages, RefusedOnlyOnTies, inputs
<1>11. CASE ValidateThreshold
  <2>1. /\ stage = "threshold staged" /\ UNCHANGED <<inputs, baseline, policy, abstention>>
        /\ AgainstBaseline(policy, baseline) => stage' = "threshold selected"
    BY <1>11 DEF ValidateThreshold, inputs
  <2>2. BaselineTrained /\ PolicySelected
    BY <2>1 DEF IInv, PolicyStages
  <2>3. stage' = "threshold selected"
    BY <1>7, <2>1, <2>2, BuiltPolicyIsAccepted
  <2>q. QED
    BY <1>1, <1>2, <1>4, <1>7, <2>1, <2>2, <2>3 DEF IInv, RefusedOnlyOnTies, inputs
<1>12. CASE BuildAbstentionPolicy
  <2>1. /\ stage = "threshold selected" /\ UNCHANGED <<inputs, baseline, policy>>
        /\ \/ stage' = "no abstention policy"
           \/ /\ stage' = "abstention staged"
              /\ \E c \in AbstentionConfigs :
                    LET grid == ResolveGrid(c, policy.selected)
                    IN /\ SomeEligible(baseline, policy.selected, grid, c.minimum)
                       /\ abstention' = AbstentionPolicyOf(baseline, policy.selected, grid, c.minimum)
    BY <1>12 DEF BuildAbstentionPolicy, inputs
  <2>2. BaselineTrained' /\ PolicySelected'
    BY <1>2, <1>4, <2>1 DEF IInv, PolicyStages, inputs
  <2>3. stage' = "abstention staged" => AbstentionSelected'
    BY <2>1 DEF AbstentionSelected, inputs
  <2>q. QED
    BY <1>1, <1>7, <2>1, <2>2, <2>3 DEF IInv, RefusedOnlyOnTies, inputs
<1>13. CASE ValidateAbstention
  <2>1. /\ stage = "abstention staged" /\ UNCHANGED <<inputs, baseline, policy, abstention>>
        /\ AbstentionAgainstInputs(abstention, baseline, policy.selected) => stage' = "complete"
    BY <1>13 DEF ValidateAbstention, inputs
  <2>2. BaselineTrained /\ PolicySelected /\ AbstentionSelected
    BY <2>1 DEF IInv, PolicyStages
  <2>3. stage' = "complete"
    BY <1>7, <2>1, <2>2, BuiltAbstentionIsAccepted
  <2>q. QED
    BY <1>1, <1>2, <1>4, <1>5, <1>7, <2>1, <2>2, <2>3 DEF IInv, RefusedOnlyOnTies, inputs
<1>14. CASE Alter
  <2>1. UNCHANGED inputs
    BY <1>14 DEF Alter
  <2>2. CASE stage = "trained" /\ baseline' \in AlteredBaselines
    <3>1. stage' = "baseline altered"
      BY <1>14, <2>2 DEF Alter
    <3>2. BaselineTrained
      BY <2>2 DEF IInv
    <3>3. RecordsRemain'
      BY <1>7, <2>1, <2>2, <3>2, AlteredBaselinesRemain DEF RecordsRemain, inputs
    <3>q. QED
      BY <1>1, <1>7, <2>1, <3>1, <3>3 DEF IInv, PolicyStages, RefusedOnlyOnTies
  <2>3. CASE stage = "threshold selected" /\ UNCHANGED <<baseline, abstention>>
    <3>1. stage' = "threshold altered"
      BY <1>14, <2>3 DEF Alter
    <3>2. BaselineTrained'
      BY <1>2, <2>1, <2>3 DEF IInv, inputs
    <3>q. QED
      BY <1>1, <1>7, <2>1, <3>1, <3>2 DEF IInv, PolicyStages, RefusedOnlyOnTies
  <2>4. CASE stage = "complete" /\ abstention' \in AlteredAbstentions /\ UNCHANGED <<baseline, policy>>
    <3>1. stage' = "abstention altered"
      BY <1>14, <2>4 DEF Alter
    <3>2. BaselineTrained /\ PolicySelected /\ AbstentionSelected
      BY <2>4 DEF IInv, PolicyStages
    <3>3. BaselineTrained' /\ PolicySelected'
      BY <1>2, <1>4, <2>1, <2>4, <3>2 DEF inputs
    <3>4. /\ \E c \in AbstentionConfigs : abstention'.grid = ResolveGrid(c, policy.selected)
          /\ abstention'.validation =
                AbstentionAt(AbstentionTables(baseline, policy.selected, abstention'.grid).validation,
                             Threshold(abstention'.selected, abstention'.grid))
      BY <1>7, <2>4, <3>2, AlteredAbstentionsAreSwept
    <3>5. AbstentionSwept'
      BY <2>4, <3>4 DEF AbstentionSwept
    <3>q. QED
      BY <1>1, <1>7, <2>1, <3>1, <3>3, <3>5 DEF IInv, PolicyStages, RefusedOnlyOnTies
  <2>q. QED
    BY <1>14, <2>2, <2>3, <2>4 DEF Alter
<1>15. CASE Reuse
  <2>1. UNCHANGED <<inputs, baseline, policy, abstention>>
    BY <1>15 DEF Reuse, inputs
  <2>2. CASE stage = "baseline altered" /\ stage' = "baseline reused"
             /\ BaselineAgainstInputs(baseline, config, validation, test)
    <3>1. RecordsRemain'
      BY <1>3, <2>1, <2>2 DEF IInv, inputs
    <3>2. BaselineAgainstInputs(baseline, config, validation, test)'
      BY <2>1, <2>2 DEF inputs
    <3>q. QED
      BY <1>1, <1>7, <2>1, <2>2, <3>1, <3>2 DEF IInv, PolicyStages, RefusedOnlyOnTies, inputs
  <2>3. CASE stage = "threshold altered" /\ stage' = "threshold reused"
             /\ AgainstBaseline(policy, baseline)
    <3>1. BaselineTrained'
      BY <1>2, <2>1, <2>3 DEF IInv, inputs
    <3>2. AgainstBaseline(policy, baseline)'
      BY <2>1, <2>3
    <3>q. QED
      BY <1>1, <1>7, <2>1, <2>3, <3>1, <3>2 DEF IInv, PolicyStages, RefusedOnlyOnTies, inputs
  <2>4. CASE stage = "abstention altered" /\ stage' = "abstention reused"
             /\ AbstentionAgainstInputs(abstention, baseline, policy.selected)
    <3>1. BaselineTrained' /\ PolicySelected'
      BY <1>2, <1>4, <2>1, <2>4 DEF IInv, PolicyStages, inputs
    <3>2. AbstentionAgainstInputs(abstention, baseline, policy.selected)'
      BY <2>1, <2>4
    <3>q. QED
      BY <1>1, <1>7, <2>1, <2>4, <3>1, <3>2 DEF IInv, RefusedOnlyOnTies, inputs
  <2>q. QED
    BY <1>15, <2>2, <2>3, <2>4 DEF Reuse
<1>16. CASE Serve
  <2>1. /\ stage \in {"complete", "abstention altered"} /\ stage' = "served"
        /\ UNCHANGED <<inputs, baseline, policy, abstention>>
    BY <1>16 DEF Serve, inputs
  <2>2. answers' = [split \in {"validation", "test"} |-> AnswersFor(split)]
    BY <1>16 DEF Serve, AnswersFor
  <2>3. (answers = [split \in {"validation", "test"} |-> AnswersFor(split)])'
    BY <2>1, <2>2 DEF AnswersFor, inputs
  <2>4. BaselineTrained /\ PolicySelected
    BY <2>1 DEF IInv, PolicyStages
  <2>5. BaselineTrained' /\ PolicySelected'
    BY <1>2, <1>4, <2>1, <2>4 DEF inputs
  <2>6. AbstentionSwept
    BY <1>7, <2>1, <2>4, BuiltAbstentionIsAccepted DEF IInv
  <2>7. AbstentionSwept'
    BY <1>6, <2>1, <2>6
  <2>q. QED
    BY <1>1, <1>7, <2>1, <2>3, <2>5, <2>7 DEF IInv, RefusedOnlyOnTies, inputs
<1>17. CASE UNCHANGED vars
  <2>1. UNCHANGED <<inputs, baseline, policy, abstention>> /\ UNCHANGED <<stage, answers>>
    BY <1>17 DEF vars, inputs
  <2>2. (answers = [split \in {"validation", "test"} |-> AnswersFor(split)])
           => (answers = [split \in {"validation", "test"} |-> AnswersFor(split)])'
    BY <2>1 DEF AnswersFor, inputs
  <2>3. RefusedOnlyOnTies => RefusedOnlyOnTies'
    BY <2>1 DEF RefusedOnlyOnTies, inputs
  <2>q. QED
    BY <1>1, <1>2, <1>3, <1>4, <1>5, <1>6, <2>1, <2>2, <2>3 DEF IInv, inputs
<1>q. QED
  BY <1>8, <1>9, <1>10, <1>11, <1>12, <1>13, <1>14, <1>15, <1>16, <1>17 DEF Next

\* The invariant holds always.
THEOREM IInvHolds == Spec => []IInv
BY InitSetsIInv, NextKeepsIInv, PTL DEF Spec


\* What a command has just made is refused for a tie of two candidates only.
THEOREM RefusalsAreOnlyOfTies == Spec => []RefusedOnlyOnTies
<1>1. IInv => RefusedOnlyOnTies
  BY DEF IInv
<1>q. QED
  BY <1>1, IInvHolds, PTL

\* Of a split whose labels all have a positive, a macro F1 of one is no mistake.
THEOREM PerfectIsWithoutMistake == Spec => []PerfectMeansNoMistake
<1>1. IInv => PerfectMeansNoMistake
  <2> SUFFICES ASSUME IInv, stage = "trained", NEW id \in Ids(config)
               PROVE  (baseline.results.metrics[id].macroF1 = Scale)
                         = (baseline.results.metrics[id].hamming = 0)
    BY DEF PerfectMeansNoMistake
  <2> DEFINE records == baseline.validation[id]
  <2> DEFINE m == MetricsFrom(records)
  <2> DEFINE n == RecordsIn(validation)
  <2> DEFINE w == LabelsIn(validation)
  <2>1. InputsKnown /\ BaselineTrained /\ validation \in Validations
    BY DEF IInv, InputsKnown
  <2>2. AreOf(records, validation) /\ baseline.results.metrics[id] = m
    BY <2>1, TrainedIs
  <2>3. RowsAre(records, n, w)
    BY <2>2 DEF AreOf
  <2>h. HIDE DEF records, n, w
  <2>4. Sound(m, TrueOf(records), PredOf(records), n, w)
    BY <2>3, RowsAreSound
  <2>5. \A l \in 1..w : \E i \in 1..n : TrueOf(records)[i][l] = 1
    BY <2>1, <2>2, ValidationsAreDefined DEF n, w
  <2>6. m.macroF1 = Scale <=> m.hamming = 0
    BY <2>4, <2>5 DEF Sound
  <2>q. QED
    BY <2>2, <2>6
<1>q. QED
  BY <1>1, IInvHolds, PTL

\* The decision of an artifact that is used again is the one its predictions imply.
THEOREM ReusedDecisionsAlwaysFollow == Spec => []ReusedDecisionsFollow
<1>1. IInv => ReusedDecisionsFollow
  <2> SUFFICES ASSUME IInv
               PROVE  ReusedDecisionsFollow
    OBVIOUS
  <2>1. ASSUME stage = "baseline reused"
        PROVE  \A id \in Ids(config) :
                  ~RanksBefore(MetricKey(MetricsFrom(baseline.validation[id])),
                               MetricKey(MetricsFrom(baseline.validation[baseline.winner])))
    <3> DEFINE metrics == [id \in Ids(config) |-> MetricsFrom(baseline.validation[id])]
    <3>1. config \in BaselineConfigs /\ validation \in Validations
      BY DEF IInv, InputsKnown
    <3>2. BaselineAgainstInputs(baseline, config, validation, test) /\ RecordsRemain
      BY <2>1 DEF IInv
    <3>3. baseline.winner = BestOf({<<id, AuditKey(id, metrics[id])>> : id \in Ids(config)})
      BY <3>2 DEF BaselineAgainstInputs, BaselineIntact, SelectionAudited
    <3>4. \A id \in Ids(config) : metrics[id] = MetricsFrom(baseline.validation[id])
      OBVIOUS
    <3>5. \A id \in Ids(config) : Ranked(metrics[id])
      BY <3>1, <3>2, <3>4, ValidationsAreRanked DEF RecordsRemain
    <3>h. HIDE DEF metrics
    <3>6. baseline.winner \in Ids(config)
      BY <3>1, <3>3, <3>5, AuditPicks
    <3>7. \A id \in Ids(config) : ~RanksBefore(MetricKey(metrics[id]), MetricKey(metrics[baseline.winner]))
      BY <3>1, <3>3, <3>5, NothingBeatsTheAudited
    <3>q. QED
      BY <3>4, <3>6, <3>7
  <2>2. ASSUME stage = "threshold reused"
        PROVE  LET again == ThresholdPolicyOf(baseline, policy.config)
               IN policy.selected = again.selected /\ policy.comparison = again.comparison
    BY <2>2 DEF IInv, AgainstBaseline, SamePolicy
  <2>3. ASSUME stage = "abstention reused"
        PROVE  /\ abstention.classification = policy.selected
               /\ abstention.test = AbstentionPolicyOf(baseline, policy.selected, abstention.grid,
                                                       abstention.minimum).test
    BY <2>3 DEF IInv, AbstentionAgainstInputs, SameAbstention
  <2>q. QED
    BY <2>1, <2>2, <2>3 DEF ReusedDecisionsFollow
<1>q. QED
  BY <1>1, IInvHolds, PTL


\* What is reported of a split, given its records, is what abstaining drops there.
LEMMA SplitDrops ==
    ASSUME NEW records, NEW n, NEW w, RowsAre(records, n, w), NEW k \in Int,
           NEW grid, grid.den \in Nat \ {0}, NEW den, NEW f1,
           f1 = MetricsAt(records, [bp |-> k, den |-> den]).macroF1,
           NEW table, table = ConfidenceTable(records, Threshold(k, grid)),
           NEW threshold, NEW at, at = AbstentionAt(table, threshold),
           NEW full, full = Arms(table, at).full, NEW bins, bins = ConfidenceBins(table)
    PROVE  /\ grid.den = den => full.metrics.macro[3] = f1
           /\ at.handled =< full.count
           /\ at.handled > 0 => at.metrics.fp =< full.metrics.fp /\ at.metrics.fn =< full.metrics.fn
           /\ 100 * k >= 39 * grid.den =>
                 Total([j \in DOMAIN bins.bins |-> bins.bins[j].count]) + bins.unpredicted = at.total
<1>1. /\ full.metrics.macro[3] = MetricsAt(records, Threshold(k, grid)).macroF1
      /\ at.handled =< full.count
      /\ at.handled > 0 => at.metrics.fp =< full.metrics.fp /\ at.metrics.fn =< full.metrics.fn
      /\ 100 * k >= 39 * grid.den =>
            Total([j \in DOMAIN bins.bins |-> bins.bins[j].count]) + bins.unpredicted = at.total
  BY AbstainingDrops
<1>2. grid.den = den => Threshold(k, grid) = [bp |-> k, den |-> den]
  BY DEF Threshold
<1>q. QED
  BY <1>1, <1>2

\* Abstaining drops predictions, and nothing else changes by it.
THEOREM AbstainingOnlyDrops == Spec => []AbstentionOnlyDrops
<1>1. IInv => AbstentionOnlyDrops
  <2> SUFFICES ASSUME IInv, stage = "complete"
               PROVE  AbstentionOnlyDrops
    BY DEF AbstentionOnlyDrops
  <2>1. InputsKnown /\ BaselineTrained /\ PolicySelected /\ AbstentionSelected
    BY DEF IInv, PolicyStages
  <2> DEFINE k == policy.selected
  <2> DEFINE unit == policy.config.grid
  <2> DEFINE records(split) == IF split = "test" THEN baseline.test
                               ELSE baseline.validation[baseline.winner]
  <2> DEFINE source(split) == IF split = "test" THEN test ELSE validation
  <2>2. PICK pc \in ThresholdConfigs(baseline.winner) : policy = ThresholdPolicyOf(baseline, pc)
    BY <2>1, BuiltPolicyIsAccepted
  <2>3. k \in Int /\ policy.config.candidate = baseline.winner /\ AgainstBaseline(policy, baseline)
    BY <2>1, BuiltPolicyIsAccepted
  <2>4. PICK c \in AbstentionConfigs :
            /\ SomeEligible(baseline, k, ResolveGrid(c, k), c.minimum)
            /\ abstention = AbstentionPolicyOf(baseline, k, ResolveGrid(c, k), c.minimum)
    BY <2>1 DEF AbstentionSelected
  <2> DEFINE grid == ResolveGrid(c, k)
  <2> DEFINE tables == AbstentionTables(baseline, k, grid)
  <2>5. grid.start \in Int /\ grid.stop \in Int /\ grid.den \in Nat \ {0}
    BY <2>3, GridIs
  <2>6. \A split \in {"validation", "test"} :
           RowsAre(records(split), RecordsIn(source(split)), LabelsIn(source(split)))
    BY <2>1, TrainedIs DEF AreOf
  <2>7. \A split \in {"validation", "test"} :
           policy[split] = MetricsAt(records(split), [bp |-> k, den |-> unit.den])
    <3>1. /\ policy.config = pc /\ policy.sweep = Sweep(baseline.validation[pc.candidate], pc.grid)
          /\ policy.validation = policy.sweep[k]
          /\ policy.test = MetricsAt(baseline.test, Threshold(k, pc.grid))
      BY <2>2, PolicyIs
    <3>2. k \in DOMAIN policy.sweep
      BY <2>3 DEF AgainstBaseline, ThresholdIntact
    <3>3. policy.sweep[k] = MetricsAt(baseline.validation[pc.candidate], Threshold(k, pc.grid))
      BY <3>1, <3>2 DEF Sweep
    <3>q. QED
      BY <2>3, <3>1, <3>3 DEF Threshold
  <2>8. \A split \in {"validation", "test"} :
           tables[split] = ConfidenceTable(records(split), Threshold(k, grid))
    BY DEF AbstentionTables
  <2>h. HIDE DEF grid, tables, records, source
  <2>9. /\ SomeEligible(baseline, k, grid, c.minimum)
        /\ abstention = AbstentionPolicyOf(baseline, k, grid, c.minimum)
    BY <2>4 DEF grid
  <2>10. /\ abstention.classification = k /\ abstention.grid = grid /\ abstention.minimum = c.minimum
         /\ abstention.sweep = AbstentionSweep(tables.validation, grid)
         /\ abstention.validation = AbstentionAt(tables.validation, Threshold(abstention.selected, grid))
         /\ abstention.test = AbstentionAt(tables.test, Threshold(abstention.selected, grid))
         /\ \A split \in {"validation", "test"} :
               /\ abstention.bins[split] = ConfidenceBins(tables[split])
               /\ abstention.comparison[split] = Arms(tables[split], abstention[split])
    BY <2>9, AbstentionIs DEF tables
  <2>11. \A split \in {"validation", "test"} :
            abstention[split] = AbstentionAt(tables[split], Threshold(abstention.selected, grid))
    BY <2>10
  <2>12. abstention.validation.coverage >= abstention.minimum
    <3>1. RowsAre(baseline.validation[baseline.winner], RecordsIn(validation), LabelsIn(validation))
      BY <2>1, TrainedIs DEF AreOf
    <3>2. abstention.selected \in Eligible(abstention.sweep, c.minimum)
      BY <2>5, <2>9, <3>1, AbstentionsAreAccepted
    <3>3. abstention.selected \in DOMAIN abstention.sweep
          /\ abstention.sweep[abstention.selected].coverage >= abstention.minimum
      BY <2>10, <3>2 DEF Eligible
    <3>4. abstention.sweep[abstention.selected] = abstention.validation
      BY <2>10, <3>3 DEF AbstentionSweep
    <3>q. QED
      BY <3>3, <3>4
  <2>13. ASSUME NEW split \in {"validation", "test"}
         PROVE  LET at == abstention[split]
                    full == abstention.comparison[split].full
                    bins == abstention.bins[split]
                    binned == Total([j \in DOMAIN bins.bins |-> bins.bins[j].count])
                IN /\ grid.den = unit.den => full.metrics.macro[3] = policy[split].macroF1
                   /\ at.handled =< full.count
                   /\ at.handled > 0 => at.metrics.fp =< full.metrics.fp
                                        /\ at.metrics.fn =< full.metrics.fn
                   /\ 100 * k >= 39 * grid.den => binned + bins.unpredicted = at.total
    <3> DEFINE at == abstention[split]
    <3> DEFINE full == abstention.comparison[split].full
    <3> DEFINE bins == abstention.bins[split]
    <3> DEFINE f1 == policy[split].macroF1
    <3> DEFINE den == unit.den
    <3>1. f1 = MetricsAt(records(split), [bp |-> k, den |-> den]).macroF1
      BY <2>7
    <3>2. /\ at = AbstentionAt(tables[split], Threshold(abstention.selected, grid))
          /\ full = Arms(tables[split], at).full /\ bins = ConfidenceBins(tables[split])
      BY <2>10, <2>11
    <3>3. RowsAre(records(split), RecordsIn(source(split)), LabelsIn(source(split)))
          /\ tables[split] = ConfidenceTable(records(split), Threshold(k, grid))
      BY <2>6, <2>8
    <3>h. HIDE DEF at, full, bins, f1, den, k
    <3>4. k \in Int
      BY <2>3 DEF k
    <3>5. /\ grid.den = den => full.metrics.macro[3] = f1
          /\ at.handled =< full.count
          /\ at.handled > 0 => at.metrics.fp =< full.metrics.fp /\ at.metrics.fn =< full.metrics.fn
          /\ 100 * k >= 39 * grid.den =>
                Total([j \in DOMAIN bins.bins |-> bins.bins[j].count]) + bins.unpredicted = at.total
      BY <2>5, <3>1, <3>2, <3>3, <3>4, SplitDrops
    <3>q. QED
      BY <3>5 DEF at, full, bins, f1, den
  <2>q. QED
    BY <2>10, <2>12, <2>13 DEF AbstentionOnlyDrops
<1>q. QED
  BY <1>1, IInvHolds, PTL


\* What the server's answers for n texts have in common with the table of their records.
AnswersAgree(list, scores, table, bundle, n, w) ==
    /\ DOMAIN list = 1..n
    /\ \A i \in 1..n :
          /\ list[i].score = scores[i] /\ ResponseValid(bundle, list[i])
          /\ \A l \in 1..w : Bit(l \in ToSet(list[i].predicted)) = table[i].pred[l]
    /\ {i \in DOMAIN list : ~list[i].abstention.abstains} = HandledRows(table, bundle.abstention)

\* Answers for the texts of a split agree with the table of its records.
LEMMA AnswersAre ==
    ASSUME NEW records, NEW n, NEW w, RowsAre(records, n, w),
           NEW scores \in [1..n -> [1..w -> 0..Unit]],
           \A i \in 1..n : records[i].score = scores[i],
           NEW bundle, NEW list, list = [i \in DOMAIN scores |-> InferIssue(bundle, scores[i])],
           NEW table, table = ConfidenceTable(records, bundle.classification)
    PROVE  AnswersAgree(list, scores, table, bundle, n, w)
<1>1. /\ RowsAre(table, n, w)
      /\ \A i \in 1..n :
            /\ table[i].score = records[i].score
            /\ table[i].confidence = Confidence(table[i].score, table[i].pred)
            /\ \A l \in 1..w :
                  table[i].pred[l] = 1 <=> Reaches(records[i].score[l], bundle.classification)
  BY TablesAreRows
<1>2. DOMAIN scores = 1..n /\ DOMAIN list = 1..n
  OBVIOUS
<1>3. w \in Nat /\ DOMAIN table = 1..n /\ \A i \in 1..n : table[i].pred \in [1..w -> {0, 1}]
  BY <1>1 DEF RowsAre
<1>4. ASSUME NEW i \in 1..n
      PROVE  /\ list[i].score = scores[i] /\ ResponseValid(bundle, list[i])
             /\ \A l \in 1..w : Bit(l \in ToSet(list[i].predicted)) = table[i].pred[l]
             /\ list[i].abstention.abstains <=>
                   \/ table[i].confidence = Undefined
                   \/ ~Reaches(table[i].confidence, bundle.abstention)
  <2> DEFINE score == scores[i]
  <2> DEFINE pred == table[i].pred
  <2> DEFINE a == list[i]
  <2>1. score \in [1..w -> 0..Unit] /\ pred \in [1..w -> {0, 1}] /\ a = InferIssue(bundle, score)
    BY <1>2, <1>3
  <2>2. \A l \in 1..w : pred[l] = 1 <=> Reaches(score[l], bundle.classification)
    BY <1>1
  <2>3. table[i].confidence = Confidence(score, pred)
    BY <1>1
  <2>h. HIDE DEF score, pred, a
  <2>4. /\ a.score = score
        /\ \A l \in 1..w : Bit(l \in ToSet(a.predicted)) = pred[l]
        /\ a.abstention.abstains <=> \/ Confidence(score, pred) = Undefined
                                     \/ ~Reaches(Confidence(score, pred), bundle.abstention)
        /\ ResponseValid(bundle, a)
    <3>1. Decides(pred, score, bundle.classification, w)
      BY <2>2 DEF Decides
    <3>2. Answers(a, score, pred, bundle, w)
      BY <1>3, <2>1, <3>1, AnswerIs
    <3>q. QED
      BY <3>2 DEF Answers
  <2>q. QED
    BY <2>3, <2>4 DEF score, pred, a
<1>5. {i \in DOMAIN list : ~list[i].abstention.abstains} = HandledRows(table, bundle.abstention)
  BY <1>2, <1>3, <1>4 DEF HandledRows
<1>q. QED
  BY <1>2, <1>4, <1>5 DEF AnswersAgree

\* The records with the predictions of the table.
LabelledAs(labelled, records, table, n, w) ==
    /\ DOMAIN labelled = 1..n
    /\ \A i \in 1..n : /\ labelled[i].true = records[i].true
                       /\ labelled[i].score = records[i].score
                       /\ labelled[i].pred = [l \in 1..w |-> table[i].pred[l]]

\* Labels given as the table predicts have the metrics of the records at that threshold.
LEMMA LabelsAreMeasured ==
    ASSUME NEW records, NEW n, NEW w, RowsAre(records, n, w), NEW threshold,
           NEW table, table = ConfidenceTable(records, threshold),
           NEW labelled, LabelledAs(labelled, records, table, n, w)
    PROVE  MetricsFrom(labelled) = MetricsAt(records, threshold)
<1>1. /\ RowsAre(table, n, w) /\ PredOf(table) = Thresholded(ScoreOf(records), threshold)
  BY TablesAreRows
<1>2. DOMAIN records = 1..n /\ DOMAIN table = 1..n
      /\ \A i \in 1..n : table[i].pred \in [1..w -> {0, 1}]
  BY <1>1 DEF RowsAre
<1>3. \A i \in 1..n : labelled[i].pred = table[i].pred
  BY <1>2 DEF LabelledAs
<1>4. TrueOf(labelled) = TrueOf(records) /\ ScoreOf(labelled) = ScoreOf(records)
  BY <1>2 DEF TrueOf, ScoreOf, LabelledAs
<1>5. PredOf(labelled) = PredOf(table)
  BY <1>2, <1>3 DEF PredOf, LabelledAs
<1>6. MetricsFrom(labelled) = SplitMetrics(TrueOf(labelled), PredOf(labelled), ScoreOf(labelled))
  BY DEF MetricsFrom, TrueOf, PredOf, ScoreOf
<1>7. MetricsAt(records, threshold)
         = SplitMetrics(TrueOf(records), Thresholded(ScoreOf(records), threshold), ScoreOf(records))
  BY DEF MetricsAt, TrueOf, ScoreOf
<1>q. QED
  BY <1>1, <1>4, <1>5, <1>6, <1>7

\* The server's answers are what was selected and reported.
THEOREM ServedIsAlwaysAsSelected == Spec => []ServedAsSelected
<1>1. IInv => ServedAsSelected
  <2> SUFFICES ASSUME IInv, stage = "served"
               PROVE  ServedAsSelected
    BY DEF ServedAsSelected
  <2>1. InputsKnown /\ BaselineTrained /\ PolicySelected /\ AbstentionSwept
        /\ answers = [split \in {"validation", "test"} |-> AnswersFor(split)]
    BY DEF IInv, PolicyStages
  <2> DEFINE bundle == LoadThresholds(baseline, policy, abstention)
  <2> DEFINE source(split) == IF split = "test" THEN test ELSE validation
  <2> DEFINE records(split) == IF split = "test" THEN baseline.test
                               ELSE baseline.validation[baseline.winner]
  <2> DEFINE scores(split) == source(split).scores[baseline.winner]
  <2> DEFINE table(split) == ConfidenceTable(records(split), bundle.classification)
  <2> DEFINE tables == AbstentionTables(baseline, policy.selected, abstention.grid)
  <2> DEFINE Both == {"validation", "test"}
  <2>2. baseline.winner \in Ids(config) /\ config \in BaselineConfigs
        /\ validation \in Validations /\ test \in Tests
    BY <2>1, TrainedIs DEF InputsKnown
  <2>3. bundle.model = baseline.winner
        /\ bundle.classification = [bp |-> policy.selected, den |-> ServedUnit]
        /\ bundle.abstention = [bp |-> abstention.selected, den |-> ServedUnit]
    BY DEF LoadThresholds
  <2>4. \A split \in Both :
           answers[split] = [i \in DOMAIN scores(split) |-> InferIssue(bundle, scores(split)[i])]
    BY <2>1, <2>3 DEF AnswersFor
  <2>5. \A split \in Both : AreOf(records(split), source(split))
    BY <2>1, TrainedIs
  <2>6. \A split \in Both : records(split)
           = PredictionsOf(source(split), baseline.winner, config.threshold)
    BY <2>1, <2>2, TrainedIs
  <2>7. \A split \in Both : source(split) \in Validations \cup Tests
    BY <2>2
  <2>h. HIDE DEF source, records, bundle, table
  <2>8. ASSUME NEW split \in Both
        PROVE  /\ RowsAre(records(split), RecordsIn(source(split)), LabelsIn(source(split)))
               /\ scores(split) \in [1..RecordsIn(source(split)) -> [1..LabelsIn(source(split)) -> 0..Unit]]
               /\ \A i \in 1..RecordsIn(source(split)) : records(split)[i].score = scores(split)[i]
    <3>1. RowsAre(records(split), RecordsIn(source(split)), LabelsIn(source(split)))
      BY <2>5 DEF AreOf
    <3>2. scores(split) \in [1..RecordsIn(source(split)) -> [1..LabelsIn(source(split)) -> 0..Unit]]
      BY <2>2, <2>7, SplitsAreSampled
    <3>3. \A i \in 1..RecordsIn(source(split)) : records(split)[i].score = scores(split)[i]
      BY <2>2, <2>6, <2>7, PredictionsAreRows
    <3>q. QED
      BY <3>1, <3>2, <3>3
  <2>9. ASSUME NEW split \in Both
        PROVE  AnswersAgree(answers[split], scores(split), table(split), bundle,
                            RecordsIn(source(split)), LabelsIn(source(split)))
    <3> DEFINE list == answers[split]
    <3> DEFINE given == scores(split)
    <3>1. list = [i \in DOMAIN given |-> InferIssue(bundle, given[i])]
      BY <2>4
    <3>2. table(split) = ConfidenceTable(records(split), bundle.classification)
      BY DEF table
    <3>3. /\ RowsAre(records(split), RecordsIn(source(split)), LabelsIn(source(split)))
          /\ given \in [1..RecordsIn(source(split)) -> [1..LabelsIn(source(split)) -> 0..Unit]]
          /\ \A i \in 1..RecordsIn(source(split)) : records(split)[i].score = given[i]
      BY <2>8
    <3>h. HIDE DEF list, given
    <3>4. AnswersAgree(list, given, table(split), bundle,
                       RecordsIn(source(split)), LabelsIn(source(split)))
      BY <3>1, <3>2, <3>3, AnswersAre
    <3>q. QED
      BY <3>4 DEF list, given
  <2>10. ASSUME NEW split \in DOMAIN answers, NEW i \in DOMAIN answers[split]
         PROVE  ResponseValid(bundle, answers[split][i])
    <3>1. split \in Both
      BY <2>1, <2>10
    <3>2. AnswersAgree(answers[split], scores(split), table(split), bundle,
                       RecordsIn(source(split)), LabelsIn(source(split)))
      BY <2>9, <3>1
    <3>q. QED
      BY <2>10, <3>2 DEF AnswersAgree
  <2>11. ASSUME policy.config.grid.den = ServedUnit,
                NEW labelled,
                labelled = [i \in DOMAIN answers["validation"] |->
                   [true |-> validation.targets[i], score |-> answers["validation"][i].score,
                    pred |-> [l \in DOMAIN validation.targets[i] |->
                                 Bit(l \in ToSet(answers["validation"][i].predicted))]]]
         PROVE  MetricsFrom(labelled).macroF1 = policy.validation.macroF1
    <3> DEFINE n == RecordsIn(validation)
    <3> DEFINE w == LabelsIn(validation)
    <3> DEFINE rows == records("validation")
    <3> DEFINE at == table("validation")
    <3>1. source("validation") = validation /\ rows = baseline.validation[baseline.winner]
      BY DEF source, records
    <3>2. RowsAre(rows, n, w) /\ \A i \in 1..n : rows[i].score = scores("validation")[i]
      BY <2>8, <3>1
    <3>3. \A i \in 1..n : rows[i].true = validation.targets[i]
      BY <2>5, <3>1 DEF AreOf
    <3>4. validation.targets \in [1..n -> [1..w -> {0, 1}]]
      BY <2>2, SplitsAreSampled
    <3>5. /\ DOMAIN answers["validation"] = 1..n
          /\ \A i \in 1..n :
                /\ answers["validation"][i].score = scores("validation")[i]
                /\ \A l \in 1..w : Bit(l \in ToSet(answers["validation"][i].predicted)) = at[i].pred[l]
      BY <2>9, <3>1 DEF AnswersAgree
    <3>h. HIDE DEF n, w, rows, at
    <3>6. DOMAIN labelled = 1..n
      BY <2>11, <3>5
    <3>7. \A i \in 1..n : DOMAIN validation.targets[i] = 1..w
      BY <3>4
    <3>8. \A i \in 1..n : /\ labelled[i].true = rows[i].true /\ labelled[i].score = rows[i].score
                          /\ labelled[i].pred = [l \in 1..w |-> at[i].pred[l]]
      <4> TAKE i \in 1..n
      <4>1. labelled[i] = [true |-> validation.targets[i], score |-> answers["validation"][i].score,
                           pred |-> [l \in DOMAIN validation.targets[i] |->
                                        Bit(l \in ToSet(answers["validation"][i].predicted))]]
        BY <2>11, <3>5
      <4>2. [l \in DOMAIN validation.targets[i] |-> Bit(l \in ToSet(answers["validation"][i].predicted))]
               = [l \in 1..w |-> at[i].pred[l]]
        BY <3>5, <3>7
      <4>q. QED
        BY <3>2, <3>3, <3>5, <4>1, <4>2
    <3>9. at = ConfidenceTable(rows, bundle.classification)
      BY DEF at, table, rows
    <3>10. MetricsFrom(labelled) = MetricsAt(rows, bundle.classification)
      <4>1. LabelledAs(labelled, rows, at, n, w)
        BY <3>6, <3>8 DEF LabelledAs
      <4>q. QED
        BY <3>2, <3>9, <4>1, LabelsAreMeasured
    <3>11. PICK pc \in ThresholdConfigs(baseline.winner) : policy = ThresholdPolicyOf(baseline, pc)
      BY <2>1, BuiltPolicyIsAccepted
    <3>12. /\ policy.config = pc /\ policy.sweep = Sweep(baseline.validation[pc.candidate], pc.grid)
           /\ policy.validation = policy.sweep[policy.selected]
      BY <3>11, PolicyIs
    <3>13. policy.config.candidate = baseline.winner /\ policy.selected \in DOMAIN policy.sweep
      BY <2>1, BuiltPolicyIsAccepted DEF AgainstBaseline, ThresholdIntact
    <3>14. policy.validation = MetricsAt(rows, Threshold(policy.selected, pc.grid))
      BY <3>1, <3>12, <3>13 DEF Sweep
    <3>15. Threshold(policy.selected, pc.grid) = bundle.classification
      BY <2>3, <2>11, <3>12 DEF Threshold
    <3>q. QED
      BY <3>10, <3>14, <3>15
  <2>12. ASSUME abstention.grid.den = ServedUnit
         PROVE  /\ \A split \in Both :
                      {i \in DOMAIN answers[split] : ~answers[split][i].abstention.abstains}
                         = HandledRows(tables[split], Threshold(abstention.selected, abstention.grid))
                /\ Cardinality({i \in DOMAIN answers["validation"] :
                                   ~answers["validation"][i].abstention.abstains})
                      = abstention.validation.handled
    <3>1. /\ Threshold(policy.selected, abstention.grid) = bundle.classification
          /\ Threshold(abstention.selected, abstention.grid) = bundle.abstention
      BY <2>3, <2>12 DEF Threshold
    <3>2. \A split \in Both : tables[split] = table(split)
      BY <3>1 DEF AbstentionTables, table, records
    <3>3. abstention.validation = AbstentionAt(tables.validation, bundle.abstention)
      BY <2>1, <3>1 DEF AbstentionSwept
    <3>4. abstention.validation.handled = Cardinality(HandledRows(tables.validation, bundle.abstention))
      BY <3>3 DEF AbstentionAt
    <3>h. HIDE DEF tables
    <3>5. \A split \in Both :
             {i \in DOMAIN answers[split] : ~answers[split][i].abstention.abstains}
                = HandledRows(tables[split], bundle.abstention)
      BY <2>9, <3>2 DEF AnswersAgree
    <3>6. Cardinality({i \in DOMAIN answers["validation"] :
                          ~answers["validation"][i].abstention.abstains})
             = abstention.validation.handled
      BY <3>4, <3>5
    <3>q. QED
      BY <3>1, <3>5, <3>6 DEF tables
  <2>13. DOMAIN answers = Both
    BY <2>1
  <2>q. QED
    BY <2>10, <2>11, <2>12, <2>13 DEF ServedAsSelected, bundle
<1>q. QED
  BY <1>1, IInvHolds, PTL

=============================================================================

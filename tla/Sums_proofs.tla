----------------------------- MODULE Sums_proofs -----------------------------
(***************************************************************************)
(* Least and greatest elements of sets of natural numbers, and sums over   *)
(* finite sets: what the proofs about several modules need.                *)
(*                                                                         *)
(* SumFunctionOnSet adds the elements of a set in an order that CHOOSE     *)
(* determines.  The lemmas say that the order does not matter: a sum is    *)
(* what is left without any one element, plus that element.  The           *)
(* inductions over the size of a set are by least counterexample (NatMin). *)
(***************************************************************************)
EXTENDS Integers, FiniteSets, FiniteSetsExt, Functions, FiniteSetTheorems, TLAPS

-----------------------------------------------------------------------------
(* Least and greatest elements                                             *)

Below == {ss \in Nat \X Nat : ss[1] < ss[2]}

\* No infinite descent.
LEMMA NatWellFounded == IsWellFoundedOn(Below, Nat)
BY NatLessThanWellFounded DEF OpToRel, Below

\* A set of natural numbers has a least element: induction over the natural
\* numbers, as the absence of a least counterexample.
LEMMA NatMin ==
  ASSUME NEW S \in SUBSET Nat, S # {}
  PROVE  Min(S) \in S /\ \A y \in S : Min(S) <= y
<1>1. \E x \in S : \A y \in S : ~(<<y, x>> \in Below)
  BY NatWellFounded, WFMin
<1>2. PICK x \in S : \A y \in S : ~(<<y, x>> \in Below)
  BY <1>1
<1>3. ASSUME NEW y \in S PROVE x <= y
  <2>1. <<y, x>> \in Nat \X Nat /\ <<y, x>>[1] = y /\ <<y, x>>[2] = x
    OBVIOUS
  <2>2. ~(y < x)
    BY <1>2, <2>1 DEF Below
  <2>. QED  BY <2>2
<1>. QED  BY <1>3 DEF Min

\* One with an upper bound has a greatest.
LEMMA NatMax ==
  ASSUME NEW S \in SUBSET Nat, S # {}, NEW n \in Nat, \A y \in S : y <= n
  PROVE  Max(S) \in S /\ \A y \in S : y <= Max(S)
<1>. DEFINE T == {k \in 0..n : n - k \in S}
<1>1. \A y \in S : n - y \in T
  OBVIOUS
<1>2. T \in SUBSET Nat /\ T # {}
  <2>1. PICK y \in S : TRUE
    OBVIOUS
  <2>2. n - y \in T
    BY <1>1
  <2>. QED  BY <2>2
<1>3. PICK k \in T : \A j \in T : k <= j
  BY <1>2, NatMin
<1>4. n - k \in S
  OBVIOUS
<1>5. ASSUME NEW y \in S PROVE y <= n - k
  BY <1>1, <1>3
<1>. QED  BY <1>4, <1>5 DEF Max

\* Finitely many natural numbers have an upper bound.
LEMMA Bounded ==
  ASSUME NEW K \in Nat, NEW B \in SUBSET (0..K), NEW f, \A b \in B : f[b] \in Nat
  PROVE  \E n \in Nat : \A b \in B : f[b] <= n
<1>. DEFINE Bad == {k \in Nat : ~\E n \in Nat : \A b \in B : b < k => f[b] <= n}
<1>1. SUFFICES Bad = {}
  <2>1. K + 1 \notin Bad /\ K + 1 \in Nat
    BY <1>1
  <2>2. PICK n \in Nat : \A b \in B : b < K + 1 => f[b] <= n
    BY <2>1
  <2>. QED  BY <2>2
<1>2. SUFFICES ASSUME Bad # {} PROVE FALSE
  OBVIOUS
<1>3. PICK k \in Bad : \A j \in Bad : k <= j
  BY <1>2, NatMin
<1>4. k # 0
  <2>1. \A b \in B : b < 0 => f[b] <= 0
    OBVIOUS
  <2>. QED  BY <1>3, <2>1
<1>5. k \in Nat /\ k - 1 \in Nat /\ k - 1 \notin Bad
  <2>1. k \in Nat /\ k - 1 \in Nat
    BY <1>4
  <2>. HIDE DEF Bad
  <2>. QED  BY <1>3, <2>1
<1>6. ~\E n \in Nat : \A b \in B : b < k => f[b] <= n
  OBVIOUS
<1>. HIDE DEF Bad
<1>7. PICK n \in Nat : \A b \in B : b < k - 1 => f[b] <= n
  BY <1>5 DEF Bad
<1>8. CASE k - 1 \in B
  <2>1. f[k - 1] \in Nat
    BY <1>8
  <2>. DEFINE m == IF n <= f[k - 1] THEN f[k - 1] ELSE n
  <2>2. m \in Nat /\ n <= m /\ f[k - 1] <= m
    BY <2>1
  <2>3. ASSUME NEW b \in B, b < k PROVE f[b] <= m
    <3>1. b \in Nat /\ f[b] \in Nat /\ (b = k - 1 \/ b < k - 1)
      BY <1>5, <2>3
    <3>2. CASE b = k - 1
      BY <2>2, <3>2
    <3>3. CASE b < k - 1
      <4>1. f[b] <= n
        BY <1>7, <3>3
      <4>. HIDE DEF m
      <4>. QED  BY <2>2, <3>1, <4>1
    <3>. QED  BY <3>1, <3>2, <3>3
  <2>. HIDE DEF m
  <2>. QED  BY <1>6, <2>2, <2>3
<1>9. CASE k - 1 \notin B
  <2>1. ASSUME NEW b \in B, b < k PROVE f[b] <= n
    <3>1. b \in Nat /\ b < k - 1
      BY <1>5, <1>9, <2>1
    <3>. QED  BY <1>7, <3>1
  <2>. QED  BY <1>6, <2>1
<1>. QED  BY <1>8, <1>9

-----------------------------------------------------------------------------
(* Sums over finite sets                                                   *)

Sum(f, S) == SumFunctionOnSet(f, S)

\* How SumFunctionOnSet adds up f along the subsets of S.
Sums(f, S, sum) ==
  sum = [s \in SUBSET S |-> IF s = {} THEN 0
                            ELSE LET x == CHOOSE x \in s : TRUE IN f[x] + sum[s \ {x}]]

LEMMA SumChosen ==
  ASSUME NEW f, NEW S
  PROVE  Sum(f, S) = (CHOOSE sum : Sums(f, S, sum))[S]
BY Zenon DEF Sum, SumFunctionOnSet, FoldFunctionOnSet, MapThenFoldSet, Sums

\* One element less.
LEMMA OneLess ==
  ASSUME NEW s, IsFiniteSet(s), s # {}
  PROVE  LET x == CHOOSE x \in s : TRUE
         IN  /\ x \in s /\ IsFiniteSet(s \ {x})
             /\ Cardinality(s) \in Nat /\ Cardinality(s \ {x}) \in Nat
             /\ Cardinality(s \ {x}) = Cardinality(s) - 1
<1>. DEFINE x == CHOOSE x \in s : TRUE
<1>1. x \in s
  OBVIOUS
<1>. HIDE DEF x
<1>2. IsFiniteSet(s \ {x}) /\ Cardinality(s \ {x}) = Cardinality(s) - 1
  BY <1>1, FS_RemoveElement
<1>3. Cardinality(s) \in Nat /\ Cardinality(s \ {x}) \in Nat
  BY <1>2, FS_CardinalityType
<1>. QED  BY <1>1, <1>2, <1>3 DEF x

\* The recursion has a solution.
LEMMA SumsExist ==
  ASSUME NEW S, IsFiniteSet(S), NEW f, \A x \in S : f[x] \in Int
  PROVE  \E sum \in [SUBSET S -> Int] : Sums(f, S, sum)
<1>. DEFINE Small(n) == {s \in SUBSET S : Cardinality(s) <= n}
            Adds(g, D) == \A s \in D :
              g[s] = IF s = {} THEN 0
                     ELSE LET x == CHOOSE x \in s : TRUE IN f[x] + g[s \ {x}]
            Bad == {n \in Nat : ~\E g \in [Small(n) -> Int] : Adds(g, Small(n))}
<1>1. \A s \in SUBSET S : IsFiniteSet(s) /\ Cardinality(s) \in Nat
  BY FS_Subset, FS_CardinalityType
<1>2. Cardinality(S) \in Nat /\ Small(Cardinality(S)) = SUBSET S
  BY FS_Subset, FS_CardinalityType
<1>3. SUFFICES Bad = {}
  <2>1. PICK g \in [SUBSET S -> Int] : Adds(g, SUBSET S)
    <3>1. Cardinality(S) \in Nat /\ Cardinality(S) \notin Bad
      BY <1>2, <1>3
    <3>. HIDE DEF Small, Adds
    <3>. QED  BY <1>2, <3>1
  <2>2. g = [s \in SUBSET S |-> g[s]]
    OBVIOUS
  <2>3. g = [s \in SUBSET S |-> IF s = {} THEN 0
                                ELSE LET x == CHOOSE x \in s : TRUE IN f[x] + g[s \ {x}]]
    BY <2>1, <2>2
  <2>. QED  BY <2>3 DEF Sums
<1>4. SUFFICES ASSUME Bad # {} PROVE FALSE
  OBVIOUS
<1>5. PICK k \in Bad : \A j \in Bad : k <= j
  BY <1>4, NatMin
<1>6. CASE k = 0
  <2>1. \A s \in Small(0) : s = {}
    BY <1>1, FS_EmptySet
  <2>. DEFINE g == [s \in Small(0) |-> 0]
  <2>2. g \in [Small(0) -> Int] /\ Adds(g, Small(0))
    BY <2>1
  <2>. HIDE DEF g
  <2>. QED  BY <1>5, <1>6, <2>2
<1>7. CASE k # 0
  <2>1. k \in Nat /\ k - 1 \in Nat /\ k - 1 \notin Bad
    <3>1. k \in Nat /\ k - 1 \in Nat
      BY <1>7
    <3>. HIDE DEF Bad
    <3>. QED  BY <1>5, <3>1
  <2>2. PICK g \in [Small(k - 1) -> Int] : Adds(g, Small(k - 1))
    BY <2>1
  <2>. DEFINE h == [s \in Small(k) |->
                      IF s \in Small(k - 1) THEN g[s]
                      ELSE LET x == CHOOSE x \in s : TRUE IN f[x] + g[s \ {x}]]
  <2>3. ASSUME NEW s \in Small(k), s # {}
        PROVE  LET x == CHOOSE x \in s : TRUE
               IN  x \in S /\ s \ {x} \in Small(k - 1)
    <3>. DEFINE x == CHOOSE x \in s : TRUE
    <3>1. x \in s /\ Cardinality(s) \in Nat /\ Cardinality(s \ {x}) = Cardinality(s) - 1
      BY <1>1, <2>3, OneLess
    <3>. HIDE DEF x
    <3>2. s \ {x} \in Small(k - 1)
      BY <2>1, <3>1
    <3>. QED  BY <3>1, <3>2 DEF x
  <2>4. {} \in Small(k - 1)
    BY <2>1, FS_EmptySet
  <2>5. \A s \in Small(k - 1) : s \in Small(k) /\ h[s] = g[s]
    <3>1. \A s \in Small(k - 1) : s \in Small(k)
      BY <1>1, <2>1
    <3>. HIDE DEF Small
    <3>. QED  BY <3>1
  <2>6. h \in [Small(k) -> Int]
    <3>1. ASSUME NEW s \in Small(k), s \notin Small(k - 1)
          PROVE  LET x == CHOOSE x \in s : TRUE IN f[x] + g[s \ {x}] \in Int
      <4>1. s # {}
        BY <2>4, <3>1
      <4>. HIDE DEF Small
      <4>. QED  BY <2>2, <2>3, <4>1
    <3>. HIDE DEF Small
    <3>. QED  BY <2>2, <3>1
  <2>7. ASSUME NEW s \in Small(k)
        PROVE  h[s] = IF s = {} THEN 0
                      ELSE LET x == CHOOSE x \in s : TRUE IN f[x] + h[s \ {x}]
    <3>1. CASE s = {}
      <4>1. g[{}] = 0
        BY <2>2, <2>4
      <4>. HIDE DEF h, Small
      <4>. QED  BY <2>4, <2>5, <3>1, <4>1
    <3>2. CASE s # {}
      <4>1. PICK x : x = CHOOSE y \in s : TRUE
        OBVIOUS
      <4>2. s \ {x} \in Small(k - 1)
        BY <2>3, <3>2, <4>1
      <4>3. h[s \ {x}] = g[s \ {x}]
        <5>. HIDE DEF h, Small
        <5>. QED  BY <2>5, <4>2
      <4>4. h[s] = f[x] + g[s \ {x}]
        <5>1. CASE s \in Small(k - 1)
          <6>1. g[s] = f[x] + g[s \ {x}]
            BY <2>2, <3>2, <4>1, <5>1
          <6>2. h[s] = g[s]
            <7>. HIDE DEF h, Small
            <7>. QED  BY <2>5, <5>1
          <6>. QED  BY <6>1, <6>2
        <5>2. CASE s \notin Small(k - 1)
          <6>. HIDE DEF Small
          <6>. QED  BY <2>7, <4>1, <5>2
        <5>. QED  BY <5>1, <5>2
      <4>. HIDE DEF h, Small
      <4>. QED  BY <3>2, <4>1, <4>3, <4>4
    <3>. QED  BY <3>1, <3>2
  <2>8. Adds(h, Small(k))
    BY <2>7
  <2>. HIDE DEF h, Small, Adds
  <2>. QED  BY <1>5, <2>6, <2>8
<1>. QED  BY <1>6, <1>7

\* Two solutions agree where what they add up agrees.
LEMMA SumsAgree ==
  ASSUME NEW S, NEW R \in SUBSET S, IsFiniteSet(R), NEW f, NEW g, \A x \in R : f[x] = g[x],
         NEW a, Sums(f, S, a), NEW b, Sums(g, R, b)
  PROVE  \A s \in SUBSET R : a[s] = b[s]
<1>. DEFINE Bad == {n \in Nat : \E s \in SUBSET R : Cardinality(s) = n /\ a[s] # b[s]}
<1>1. \A s \in SUBSET R : IsFiniteSet(s) /\ Cardinality(s) \in Nat
  BY FS_Subset, FS_CardinalityType
<1>2. SUFFICES ASSUME Bad # {} PROVE FALSE
  BY <1>1
<1>3. PICK n \in Bad : \A j \in Bad : n <= j
  BY <1>2, NatMin
<1>4. PICK s \in SUBSET R : Cardinality(s) = n /\ a[s] # b[s]
  BY <1>3
<1>5. /\ \A r \in SUBSET S : a[r] = IF r = {} THEN 0
                                    ELSE LET x == CHOOSE x \in r : TRUE IN f[x] + a[r \ {x}]
      /\ \A r \in SUBSET R : b[r] = IF r = {} THEN 0
                                    ELSE LET x == CHOOSE x \in r : TRUE IN g[x] + b[r \ {x}]
  BY DEF Sums
<1>6. s # {}
  BY <1>4, <1>5
<1>7. PICK x : x = CHOOSE y \in s : TRUE
  OBVIOUS
<1>8. x \in s /\ Cardinality(s \ {x}) \in Nat /\ Cardinality(s \ {x}) = n - 1 /\ n \in Nat
  BY <1>1, <1>4, <1>6, <1>7, OneLess
<1>9. a[s \ {x}] = b[s \ {x}]
  <2>1. Cardinality(s \ {x}) \notin Bad
    <3>. HIDE DEF Bad
    <3>. QED  BY <1>3, <1>8
  <2>. QED  BY <1>8, <2>1
<1>10. a[s] = f[x] + a[s \ {x}] /\ b[s] = g[x] + b[s \ {x}]
  <2>1. a[s] = f[x] + a[s \ {x}]
    BY <1>5, <1>6, <1>7
  <2>2. b[s] = g[x] + b[s \ {x}]
    BY <1>5, <1>6, <1>7
  <2>. QED  BY <2>1, <2>2
<1>. QED  BY <1>4, <1>8, <1>9, <1>10

\* The sum of a finite set is a number, and depends only on what is added.
LEMMA SumSame ==
  ASSUME NEW S, IsFiniteSet(S), NEW f, \A x \in S : f[x] \in Int,
         NEW g, \A x \in S : g[x] = f[x]
  PROVE  Sum(f, S) \in Int /\ Sum(g, S) = Sum(f, S)
<1>. DEFINE a == CHOOSE sum : Sums(f, S, sum)
            b == CHOOSE sum : Sums(g, S, sum)
<1>1. PICK c \in [SUBSET S -> Int] : Sums(f, S, c)
  BY SumsExist
<1>2. PICK d \in [SUBSET S -> Int] : Sums(g, S, d)
  BY SumsExist
<1>3. Sums(f, S, a) /\ Sums(g, S, b)
  BY <1>1, <1>2
<1>4. Sum(f, S) = a[S] /\ Sum(g, S) = b[S]
  BY SumChosen
<1>. HIDE DEF a, b
<1>5. a[S] = c[S] /\ b[S] = a[S]
  BY <1>1, <1>3, SumsAgree
<1>. QED  BY <1>1, <1>4, <1>5

LEMMA SumEmpty == \A f : Sum(f, {}) = 0
<1>. SUFFICES ASSUME NEW f PROVE Sum(f, {}) = 0
  OBVIOUS
<1>. DEFINE a == CHOOSE sum : Sums(f, {}, sum)
<1>1. IsFiniteSet({}) /\ \A x \in {} : f[x] \in Int
  BY FS_EmptySet
<1>2. Sums(f, {}, a)
  BY <1>1, SumsExist
<1>3. Sum(f, {}) = a[{}]
  BY SumChosen
<1>. HIDE DEF a
<1>. QED  BY <1>2, <1>3 DEF Sums

\* One step of the recursion.
LEMMA SumStep ==
  ASSUME NEW S, IsFiniteSet(S), S # {}, NEW f, \A x \in S : f[x] \in Int
  PROVE  \E x \in S : Sum(f, S) = f[x] + Sum(f, S \ {x})
<1>. DEFINE x == CHOOSE x \in S : TRUE
            R == S \ {x}
            a == CHOOSE sum : Sums(f, S, sum)
            b == CHOOSE sum : Sums(f, R, sum)
<1>1. IsFiniteSet(R)
  BY FS_RemoveElement
<1>2. Sums(f, S, a)
  BY SumsExist
<1>3. Sums(f, R, b)
  BY <1>1, SumsExist
<1>4. Sum(f, S) = a[S] /\ Sum(f, R) = b[R]
  BY SumChosen
<1>. HIDE DEF a, b
<1>5. a[S] = f[x] + a[R] /\ x \in S
  BY <1>2 DEF Sums
<1>6. a[R] = b[R]
  <2>. HIDE DEF R
  <2>1. R \in SUBSET S
    BY DEF R
  <2>. QED  BY <1>1, <1>2, <1>3, <2>1, SumsAgree
<1>. QED  BY <1>4, <1>5, <1>6

\* A sum is what is left without any one element, plus that element.
LEMMA SumRemove ==
  ASSUME NEW S, IsFiniteSet(S), NEW f, \A x \in S : f[x] \in Int, NEW y \in S
  PROVE  Sum(f, S) = f[y] + Sum(f, S \ {y})
<1>. DEFINE Wrong(T, z) == z \in T /\ Sum(f, T) # f[z] + Sum(f, T \ {z})
            Bad == {n \in Nat : \E T \in SUBSET S, z \in S : Cardinality(T) = n /\ Wrong(T, z)}
<1>1. \A T \in SUBSET S : IsFiniteSet(T) /\ Cardinality(T) \in Nat
  BY FS_Subset, FS_CardinalityType
<1>2. SUFFICES ASSUME Bad # {} PROVE FALSE
  BY <1>1
<1>3. PICK n \in Bad : \A j \in Bad : n <= j
  BY <1>2, NatMin
<1>4. PICK T \in SUBSET S, z \in S : Cardinality(T) = n /\ Wrong(T, z)
  BY <1>3
<1>5. z \in T /\ T # {} /\ IsFiniteSet(T) /\ \A v \in T : f[v] \in Int
  BY <1>1, <1>4
<1>7. PICK x \in T : Sum(f, T) = f[x] + Sum(f, T \ {x})
  BY <1>5, SumStep
<1>8. x \in T /\ Sum(f, T) = f[x] + Sum(f, T \ {x})
  BY <1>7
<1>9. x # z
  BY <1>4, <1>8
<1>10. \A v \in T : /\ T \ {v} \in SUBSET S
                    /\ Cardinality(T \ {v}) \in Nat /\ Cardinality(T \ {v}) < n
  <2>. SUFFICES ASSUME NEW v \in T
                PROVE  /\ T \ {v} \in SUBSET S
                       /\ Cardinality(T \ {v}) \in Nat /\ Cardinality(T \ {v}) < n
    OBVIOUS
  <2>1. Cardinality(T \ {v}) = n - 1
    BY <1>4, <1>5, FS_RemoveElement
  <2>2. T \ {v} \in SUBSET S /\ Cardinality(T \ {v}) \in Nat /\ n \in Nat
    BY <1>1, <1>4
  <2>. QED  BY <2>1, <2>2
<1>11. \A v \in T, u \in S : ~Wrong(T \ {v}, u)
  <2>. SUFFICES ASSUME NEW v \in T, NEW u \in S, Wrong(T \ {v}, u) PROVE FALSE
    OBVIOUS
  <2>1. Cardinality(T \ {v}) \in Bad
    BY <1>10
  <2>. HIDE DEF Bad
  <2>2. n <= Cardinality(T \ {v})
    BY <1>3, <2>1
  <2>3. Cardinality(T \ {v}) < n /\ Cardinality(T \ {v}) \in Nat /\ n \in Nat
    BY <1>4, <1>10, <1>1
  <2>. QED  BY <2>2, <2>3
<1>12. Sum(f, T \ {x}) = f[z] + Sum(f, (T \ {x}) \ {z})
  BY <1>5, <1>7, <1>9, <1>11
<1>13. Sum(f, T \ {z}) = f[x] + Sum(f, (T \ {z}) \ {x})
  BY <1>4, <1>5, <1>8, <1>9, <1>11
<1>14. (T \ {x}) \ {z} = (T \ {z}) \ {x} /\ IsFiniteSet((T \ {x}) \ {z})
  <2>1. (T \ {x}) \ {z} \in SUBSET S
    BY <1>4
  <2>. QED  BY <1>1, <2>1
<1>15. Sum(f, (T \ {x}) \ {z}) \in Int
  BY <1>5, <1>14, SumSame
<1>16. f[x] \in Int /\ f[z] \in Int
  BY <1>5, <1>7
<1>17. Sum(f, T \ {z}) = f[x] + Sum(f, (T \ {x}) \ {z})
  BY <1>13, <1>14
<1>18. PICK r \in Int : r = Sum(f, (T \ {x}) \ {z})
  BY <1>15
<1>19. Sum(f, T) = f[z] + Sum(f, T \ {z})
  BY <1>8, <1>12, <1>16, <1>17, <1>18
<1>. QED  BY <1>4, <1>19

LEMMA SumAdd ==
  ASSUME NEW S, IsFiniteSet(S), NEW f, \A x \in S : f[x] \in Int, NEW y, y \notin S, f[y] \in Int
  PROVE  Sum(f, S \union {y}) = Sum(f, S) + f[y]
<1>. DEFINE T == S \union {y}
<1>1. IsFiniteSet(T) /\ T \ {y} = S /\ y \in T /\ \A x \in T : f[x] \in Int
  BY FS_AddElement
<1>. HIDE DEF T
<1>2. Sum(f, T) = f[y] + Sum(f, S)
  BY <1>1, SumRemove
<1>3. Sum(f, S) \in Int
  BY SumSame
<1>. QED  BY <1>2, <1>3 DEF T

LEMMA SumOne ==
  ASSUME NEW y, NEW f, f[y] \in Int
  PROVE  Sum(f, {y}) = f[y]
<1>1. IsFiniteSet({}) /\ Sum(f, {}) = 0 /\ {} \union {y} = {y}
  BY FS_EmptySet, SumEmpty
<1>2. Sum(f, {} \union {y}) = Sum(f, {}) + f[y]
  BY <1>1, SumAdd
<1>. QED  BY <1>1, <1>2

\* One element changes.
LEMMA SumChange ==
  ASSUME NEW S, IsFiniteSet(S), NEW f, \A x \in S : f[x] \in Int,
         NEW g, \A x \in S : g[x] \in Int, NEW y, \A x \in S : x # y => g[x] = f[x]
  PROVE  /\ Sum(f, S) \in Int /\ Sum(g, S) \in Int
         /\ y \in S => Sum(g, S) = Sum(f, S) + g[y] - f[y]
         /\ y \notin S => Sum(g, S) = Sum(f, S)
<1>1. Sum(f, S) \in Int /\ Sum(g, S) \in Int
  BY SumSame
<1>2. CASE y \notin S
  BY <1>1, <1>2, SumSame
<1>3. CASE y \in S
  <2>. DEFINE R == S \ {y}
  <2>1. IsFiniteSet(R) /\ \A x \in R : f[x] \in Int /\ g[x] = f[x]
    BY FS_RemoveElement
  <2>2. Sum(f, S) = f[y] + Sum(f, R) /\ Sum(g, S) = g[y] + Sum(g, R)
    BY <1>3, SumRemove
  <2>. HIDE DEF R
  <2>3. Sum(f, R) \in Int /\ Sum(g, R) = Sum(f, R)
    BY <2>1, SumSame
  <2>4. f[y] \in Int /\ g[y] \in Int
    BY <1>3
  <2>. QED  BY <1>1, <1>3, <2>2, <2>3, <2>4
<1>. QED  BY <1>1, <1>2, <1>3

\* What is counted nowhere below zero is not below any of its parts.
LEMMA SumNat ==
  ASSUME NEW S, IsFiniteSet(S), NEW f, \A x \in S : f[x] \in Nat
  PROVE  Sum(f, S) \in Nat /\ \A y \in S : f[y] <= Sum(f, S)
<1>. DEFINE Bad == {n \in Nat : \E T \in SUBSET S : Cardinality(T) = n /\ Sum(f, T) \notin Nat}
<1>1. \A T \in SUBSET S : IsFiniteSet(T) /\ Cardinality(T) \in Nat
  BY FS_Subset, FS_CardinalityType
<1>2. Bad = {}
  <2>. SUFFICES ASSUME Bad # {} PROVE FALSE
    OBVIOUS
  <2>1. PICK n \in Bad : \A j \in Bad : n <= j
    BY NatMin
  <2>2. PICK T \in SUBSET S : Cardinality(T) = n /\ Sum(f, T) \notin Nat
    BY <2>1
  <2>3. T # {}
    BY <2>2, SumEmpty
  <2>4. PICK y \in T : TRUE
    BY <2>3
  <2>5. /\ T \ {y} \in SUBSET S /\ Cardinality(T \ {y}) = n - 1
        /\ Cardinality(T \ {y}) \in Nat /\ n \in Nat
    BY <1>1, <2>2, FS_RemoveElement
  <2>6. Cardinality(T \ {y}) \notin Bad
    <3>. HIDE DEF Bad
    <3>. QED  BY <2>1, <2>5
  <2>7. Sum(f, T \ {y}) \in Nat
    BY <2>5, <2>6
  <2>8. Sum(f, T) = f[y] + Sum(f, T \ {y}) /\ f[y] \in Nat
    BY <1>1, SumRemove
  <2>. QED  BY <2>2, <2>7, <2>8
<1>3. \A T \in SUBSET S : Sum(f, T) \in Nat
  BY <1>1, <1>2
<1>4. ASSUME NEW y \in S PROVE f[y] <= Sum(f, S)
  <2>1. Sum(f, S) = f[y] + Sum(f, S \ {y}) /\ f[y] \in Nat
    BY SumRemove
  <2>2. Sum(f, S \ {y}) \in Nat /\ Sum(f, S) \in Nat
    BY <1>3
  <2>. QED  BY <2>1, <2>2
<1>. QED  BY <1>3, <1>4

\* Elements that count for nothing may be left out.
LEMMA SumSub ==
  ASSUME NEW S, IsFiniteSet(S), NEW f, \A x \in S : f[x] \in Int,
         NEW R \in SUBSET S, \A x \in S : x \notin R => f[x] = 0
  PROVE  Sum(f, S) = Sum(f, R)
<1>. DEFINE Bad == {n \in Nat : \E T \in SUBSET S :
                      R \subseteq T /\ Cardinality(T) = n /\ Sum(f, T) # Sum(f, R)}
<1>1. \A T \in SUBSET S : IsFiniteSet(T) /\ Cardinality(T) \in Nat
  BY FS_Subset, FS_CardinalityType
<1>2. Bad = {}
  <2>. SUFFICES ASSUME Bad # {} PROVE FALSE
    OBVIOUS
  <2>1. PICK n \in Bad : \A j \in Bad : n <= j
    BY NatMin
  <2>2. PICK T \in SUBSET S : R \subseteq T /\ Cardinality(T) = n /\ Sum(f, T) # Sum(f, R)
    BY <2>1
  <2>3. PICK y \in T : y \notin R
    BY <2>2
  <2>4. /\ T \ {y} \in SUBSET S /\ R \subseteq T \ {y} /\ Cardinality(T \ {y}) = n - 1
        /\ Cardinality(T \ {y}) \in Nat /\ n \in Nat
    BY <1>1, <2>2, <2>3, FS_RemoveElement
  <2>5. Cardinality(T \ {y}) \notin Bad
    <3>. HIDE DEF Bad
    <3>. QED  BY <2>1, <2>4
  <2>6. Sum(f, T \ {y}) = Sum(f, R)
    BY <2>4, <2>5
  <2>7. Sum(f, T) = f[y] + Sum(f, T \ {y}) /\ f[y] = 0
    BY <1>1, <2>3, SumRemove
  <2>8. Sum(f, T \ {y}) \in Int
    <3>1. IsFiniteSet(T \ {y}) /\ \A x \in T \ {y} : f[x] \in Int
      BY <1>1, <2>4
    <3>. QED  BY <3>1, SumSame
  <2>. QED  BY <2>2, <2>6, <2>7, <2>8
<1>3. Cardinality(S) \in Nat /\ Cardinality(S) \notin Bad
  BY <1>1, <1>2
<1>. QED  BY <1>3
=============================================================================

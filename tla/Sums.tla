-------------------------------- MODULE Sums --------------------------------
(***************************************************************************)
(* Lemmas about the sums of the community modules, MapThenSumSet and       *)
(* SumSet, over finite sets of integers: which element is chosen first     *)
(* does not matter, and what bounds the terms bounds the sum.              *)
(*                                                                         *)
(* They are proved from the definitions: a set of counterexamples would    *)
(* have a smallest one.                                                    *)
(***************************************************************************)
EXTENDS Integers, FiniteSets, FiniteSetsExt, FiniteSetTheorems,
  WellFoundedInduction, TLAPS

\* The sum of the values of g on S.
SumOver(g, S) == MapThenSumSet(LAMBDA x : g[x], S)

\* The element a sum begins with.
First(s) == CHOOSE x \in s : TRUE

\* What the fold over S makes of a table f of the sums over subsets.
Fold(g, S, f) ==
  [s \in SUBSET S |-> IF s = {} THEN 0 ELSE g[First(s)] + f[s \ {First(s)}]]

\* f adds up g on each of the sets in D.
AddsUp(f, g, D) ==
  \A s \in D : f[s] = IF s = {} THEN 0 ELSE g[First(s)] + f[s \ {First(s)}]

-----------------------------------------------------------------------------

LEMMA LeastOf ==
  ASSUME NEW B, B \subseteq Nat, B # {}
  PROVE  \E n \in B : \A m \in B : n <= m
<1>1. PICK n \in B : \A m \in B : ~(<<m, n>> \in OpToRel(<, Nat))
  BY NatLessThanWellFounded, WFMin
<1>2. \A m \in B : n <= m
  <2> SUFFICES ASSUME NEW m \in B, m < n PROVE FALSE
    OBVIOUS
  <2>1. <<m, n>> \in OpToRel(<, Nat)
    BY DEF OpToRel
  <2>2. QED
    BY <1>1, <2>1
<1>3. QED
  BY <1>2

LEMMA SmallestOf ==
  ASSUME NEW B, B # {}, \A s \in B : IsFiniteSet(s)
  PROVE  \E s \in B : \A t \in B : Cardinality(s) <= Cardinality(t)
<1> DEFINE N == {Cardinality(s) : s \in B}
<1>1. N \subseteq Nat /\ N # {}
  BY FS_CardinalityType
<1>2. PICK n \in N : \A m \in N : n <= m
  BY <1>1, LeastOf
<1>3. QED
  BY <1>2

LEMMA WithoutFirst ==
  ASSUME NEW s, IsFiniteSet(s), s # {}
  PROVE  /\ First(s) \in s
         /\ IsFiniteSet(s \ {First(s)})
         /\ Cardinality(s \ {First(s)}) = Cardinality(s) - 1
         /\ Cardinality(s) \in Nat \ {0}
<1>1. First(s) \in s
  BY DEF First
<1>2. QED
  BY <1>1, FS_RemoveElement, FS_CardinalityType, FS_EmptySet

(* The fold is defined: there are tables for ever larger sets. *)
LEMMA TableExists ==
  ASSUME NEW S, IsFiniteSet(S), NEW g, \A x \in S : g[x] \in Int
  PROVE  \E f \in [SUBSET S -> Int] : AddsUp(f, g, SUBSET S)
<1> DEFINE Small(n) == {s \in SUBSET S : Cardinality(s) <= n}
           Good(n) == \E f \in [Small(n) -> Int] : AddsUp(f, g, Small(n))
           Bad == {n \in Nat : ~Good(n)}
<1>1. \A s \in SUBSET S : IsFiniteSet(s) /\ Cardinality(s) \in Nat /\ Cardinality(s) <= Cardinality(S)
  BY FS_Subset, FS_CardinalityType
<1>2. Good(0)
  <2>1. \A s \in Small(0) : s = {}
    BY <1>1, FS_EmptySet
  <2>2. [s \in Small(0) |-> 0] \in [Small(0) -> Int]
    OBVIOUS
  <2>3. AddsUp([s \in Small(0) |-> 0], g, Small(0))
    BY <2>1 DEF AddsUp
  <2>4. QED
    BY <2>2, <2>3
<1>3. ASSUME NEW n \in Nat, Good(n) PROVE Good(n + 1)
  <2>1. PICK f \in [Small(n) -> Int] : AddsUp(f, g, Small(n))
    BY <1>3
  <2> DEFINE h == [s \in Small(n + 1) |->
                     IF s = {} THEN 0 ELSE g[First(s)] + f[s \ {First(s)}]]
  <2>2. ASSUME NEW s \in Small(n + 1), s # {}
        PROVE  s \ {First(s)} \in Small(n) /\ First(s) \in S
    BY <1>1, <2>2, WithoutFirst
  <2>3. h \in [Small(n + 1) -> Int]
    BY <2>2
  <2>4. \A s \in Small(n) : s \in Small(n + 1) /\ h[s] = f[s]
    BY <1>1, <2>1 DEF AddsUp
  <2>5. AddsUp(h, g, Small(n + 1))
    BY <2>2, <2>4 DEF AddsUp
  <2>6. QED
    BY <2>3, <2>5
<1> HIDE DEF Good
<1>4. Bad = {}
  <2> SUFFICES ASSUME Bad # {} PROVE FALSE
    OBVIOUS
  <2>1. PICK n \in Bad : \A m \in Bad : n <= m
    BY LeastOf
  <2>2. n # 0
    BY <1>2, <2>1
  <2>3. n \in Nat /\ n - 1 \in Nat /\ ~(n <= n - 1)
    BY <2>1, <2>2
  <2>4. Good(n - 1)
    BY <2>1, <2>3
  <2>5. Good((n - 1) + 1)
    BY <1>3, <2>3, <2>4
  <2>6. (n - 1) + 1 = n
    BY <2>3
  <2>7. QED
    BY <2>1, <2>5, <2>6
<1>5. Good(Cardinality(S))
  BY <1>1, <1>4, FS_CardinalityType
<1>6. Small(Cardinality(S)) = SUBSET S
  BY <1>1
<1>7. QED
  BY <1>5, <1>6 DEF Good

(* Tables agree where they overlap, whatever sets they were made for. *)
LEMMA TablesAgree ==
  ASSUME NEW S, NEW T, IsFiniteSet(S), NEW g, \A x \in S : g[x] \in Int,
         NEW f, NEW h, AddsUp(f, g, SUBSET S), AddsUp(h, g, SUBSET T)
  PROVE  \A s \in SUBSET S : f[s] \in Int /\ (s \subseteq T => f[s] = h[s])
<1> DEFINE Ok(s) == f[s] \in Int /\ (s \subseteq T => f[s] = h[s])
           Bad == {s \in SUBSET S : ~Ok(s)}
<1>1. \A s \in SUBSET S : IsFiniteSet(s)
  BY FS_Subset
<1> SUFFICES ASSUME Bad # {} PROVE FALSE
  OBVIOUS
<1>2. PICK s \in Bad : \A t \in Bad : Cardinality(s) <= Cardinality(t)
  BY <1>1, SmallestOf
<1>3. s # {}
  <2>1. {} \in SUBSET S => f[{}] = 0
    BY DEF AddsUp
  <2>2. {} \subseteq T => h[{}] = 0
    BY DEF AddsUp
  <2>3. Ok({})
    BY <2>1, <2>2
  <2> HIDE DEF Ok
  <2>4. QED
    BY <1>2, <2>3
<1>4. /\ First(s) \in s /\ s \ {First(s)} \in SUBSET S
      /\ Cardinality(s \ {First(s)}) < Cardinality(s)
  <2>1. IsFiniteSet(s) /\ s \subseteq S
    BY <1>1, <1>2
  <2>2. /\ First(s) \in s
        /\ Cardinality(s \ {First(s)}) = Cardinality(s) - 1
        /\ Cardinality(s) \in Nat \ {0}
    BY <1>3, <2>1, WithoutFirst, Zenon
  <2>3. QED
    BY <2>1, <2>2
<1>5. Ok(s \ {First(s)})
  <2>1. Cardinality(s) \in Nat /\ Cardinality(s \ {First(s)}) \in Nat
    BY <1>1, <1>2, <1>4, FS_CardinalityType
  <2>2. ~(s \ {First(s)} \in Bad)
    BY <1>2, <1>4, <2>1
  <2>3. QED
    BY <1>4, <2>2
<1>6. f[s] = g[First(s)] + f[s \ {First(s)}] /\ g[First(s)] \in Int
  BY <1>2, <1>3, <1>4 DEF AddsUp
<1>7. s \subseteq T => h[s] = g[First(s)] + h[s \ {First(s)}]
  BY <1>3 DEF AddsUp
<1>8. Ok(s)
  BY <1>5, <1>6, <1>7
<1>9. QED
  BY <1>2, <1>8

(* Any table gives the sum: the one the fold chooses is as good as another. *)
LEMMA SumByTable ==
  ASSUME NEW S, IsFiniteSet(S), NEW g, \A x \in S : g[x] \in Int,
         NEW f, NEW T, S \subseteq T, AddsUp(f, g, SUBSET T)
  PROVE  SumOver(g, S) \in Int /\ SumOver(g, S) = f[S]
<1> DEFINE c == CHOOSE t : t = Fold(g, S, t)
<1>1. SumOver(g, S) = c[S]
  BY Zenon DEF SumOver, MapThenSumSet, MapThenFoldSet, Fold, First
<1>2. \E t : t = Fold(g, S, t)
  <2>1. PICK t \in [SUBSET S -> Int] : AddsUp(t, g, SUBSET S)
    BY TableExists
  <2>2. t = [s \in SUBSET S |-> t[s]]
    BY <2>1
  <2>3. \A s \in SUBSET S : t[s] = Fold(g, S, t)[s]
    BY <2>1 DEF AddsUp, Fold
  <2>4. t = Fold(g, S, t)
    BY <2>2, <2>3 DEF Fold
  <2>5. QED
    BY <2>4
<1>3. c = Fold(g, S, c)
  BY <1>2
<1> HIDE DEF c
<1>4. AddsUp(c, g, SUBSET S)
  BY <1>3 DEF AddsUp, Fold
<1>5. c[S] \in Int /\ c[S] = f[S]
  BY <1>4, TablesAgree
<1>6. QED
  BY <1>1, <1>5

LEMMA SumFirst ==
  ASSUME NEW S, IsFiniteSet(S), NEW g, \A x \in S : g[x] \in Int
  PROVE  /\ SumOver(g, S) \in Int
         /\ SumOver(g, S) = IF S = {} THEN 0
                            ELSE g[First(S)] + SumOver(g, S \ {First(S)})
<1>1. PICK f \in [SUBSET S -> Int] : AddsUp(f, g, SUBSET S)
  BY TableExists
<1>2. SumOver(g, S) \in Int /\ SumOver(g, S) = f[S]
  BY <1>1, SumByTable
<1>3. SumOver(g, S \ {First(S)}) = f[S \ {First(S)}]
  <2>1. IsFiniteSet(S \ {First(S)}) /\ S \ {First(S)} \subseteq S
    BY FS_Subset
  <2>2. QED
    BY <1>1, <2>1, SumByTable
<1>4. QED
  BY <1>1, <1>2, <1>3 DEF AddsUp

(* Any element may come first. *)
LEMMA SumAny ==
  ASSUME NEW S, IsFiniteSet(S), NEW g, \A x \in S : g[x] \in Int, NEW x \in S
  PROVE  SumOver(g, S) = g[x] + SumOver(g, S \ {x})
<1> DEFINE Ok(s) == \A y \in s : SumOver(g, s) = g[y] + SumOver(g, s \ {y})
           Bad == {s \in SUBSET S : ~Ok(s)}
<1>1. \A s \in SUBSET S : /\ IsFiniteSet(s) /\ SumOver(g, s) \in Int
                          /\ Cardinality(s) \in Nat
  BY FS_Subset, SumFirst, FS_CardinalityType
<1>2. Bad = {}
  <2> SUFFICES ASSUME Bad # {} PROVE FALSE
    OBVIOUS
  <2>1. PICK s \in Bad : \A t \in Bad : Cardinality(s) <= Cardinality(t)
    BY <1>1, SmallestOf
  <2>2. s \in SUBSET S /\ ~Ok(s)
    BY <2>1
  <2>3. PICK y \in s : SumOver(g, s) # g[y] + SumOver(g, s \ {y})
    BY <2>2
  <2> DEFINE p == First(s)
  <2>4. p \in s
    BY <2>3 DEF First
  <2>5. SumOver(g, s) = g[p] + SumOver(g, s \ {p})
    BY <1>1, <2>2, <2>4, SumFirst
  <2> HIDE DEF p
  <2>6. p # y
    BY <2>3, <2>5
  <2>7. ASSUME NEW z \in s PROVE Ok(s \ {z})
    <3>1. /\ Cardinality(s \ {z}) = Cardinality(s) - 1
          /\ s \ {z} \in SUBSET S
      BY <1>1, <2>2, FS_RemoveElement
    <3>2. Cardinality(s) \in Nat /\ Cardinality(s \ {z}) \in Nat
      BY <1>1, <2>2, <3>1
    <3>3. ~(s \ {z} \in Bad)
      BY <2>1, <3>1, <3>2
    <3> HIDE DEF Ok
    <3>4. QED
      BY <3>1, <3>3
  <2>8. SumOver(g, s \ {p}) = g[y] + SumOver(g, (s \ {p}) \ {y})
    BY <2>3, <2>4, <2>6, <2>7
  <2>9. SumOver(g, s \ {y}) = g[p] + SumOver(g, (s \ {y}) \ {p})
    BY <2>3, <2>4, <2>6, <2>7
  <2>10. (s \ {p}) \ {y} = (s \ {y}) \ {p}
    OBVIOUS
  <2>11. /\ g[p] \in Int /\ g[y] \in Int
         /\ SumOver(g, (s \ {p}) \ {y}) \in Int
    <3>1. (s \ {p}) \ {y} \in SUBSET S
      BY <2>2
    <3>2. QED
      BY <1>1, <2>2, <2>3, <2>4, <3>1
  <2>12. /\ SumOver(g, s) = g[p] + (g[y] + SumOver(g, (s \ {p}) \ {y}))
         /\ SumOver(g, s \ {y}) = g[p] + SumOver(g, (s \ {p}) \ {y})
    BY <2>5, <2>8, <2>9, <2>10
  <2>13. SumOver(g, s) = g[y] + SumOver(g, s \ {y})
    BY <2>11, <2>12
  <2>14. QED
    BY <2>3, <2>13
<1>3. S \in SUBSET S /\ ~(S \in Bad)
  BY <1>2
<1>4. QED
  BY <1>3

(* The sum depends on the values on the set only. *)
LEMMA SumCongruent ==
  ASSUME NEW S, IsFiniteSet(S), NEW g, NEW h,
         \A x \in S : g[x] \in Int /\ h[x] = g[x]
  PROVE  SumOver(g, S) = SumOver(h, S)
<1>1. PICK f \in [SUBSET S -> Int] : AddsUp(f, g, SUBSET S)
  BY TableExists
<1>2. \A s \in SUBSET S : s # {} => h[First(s)] = g[First(s)]
  BY DEF First
<1>3. AddsUp(f, h, SUBSET S)
  BY <1>1, <1>2 DEF AddsUp
<1>4. SumOver(g, S) = f[S]
  BY <1>1, SumByTable
<1>5. SumOver(h, S) = f[S]
  BY <1>3, SumByTable
<1>6. QED
  BY <1>4, <1>5

(* One term is raised. *)
LEMMA SumChanged ==
  ASSUME NEW S, IsFiniteSet(S), NEW g, NEW h,
         \A y \in S : g[y] \in Int /\ h[y] \in Int,
         NEW x, \A y \in S \ {x} : h[y] = g[y]
  PROVE  /\ x \in S => SumOver(h, S) = SumOver(g, S) + (h[x] - g[x])
         /\ x \notin S => SumOver(h, S) = SumOver(g, S)
<1>2. CASE x \notin S
  <2>1. \A y \in S : g[y] \in Int /\ h[y] = g[y]
    BY <1>2
  <2>2. SumOver(g, S) = SumOver(h, S)
    BY <2>1, SumCongruent
  <2>3. QED
    BY <1>2, <2>2
<1>3. CASE x \in S
  <2>1. IsFiniteSet(S \ {x}) /\ \A y \in S \ {x} : g[y] \in Int /\ h[y] = g[y]
    BY FS_Subset
  <2>2. SumOver(g, S \ {x}) = SumOver(h, S \ {x}) /\ SumOver(g, S \ {x}) \in Int
    BY <2>1, SumCongruent, SumFirst
  <2>3. SumOver(g, S) = g[x] + SumOver(g, S \ {x})
    BY <1>3, SumAny
  <2>4. SumOver(h, S) = h[x] + SumOver(h, S \ {x})
    BY <1>3, SumAny
  <2>5. QED
    BY <1>3, <2>2, <2>3, <2>4
<1>4. QED
  BY <1>2, <1>3

(* What bounds the terms bounds the sum. *)
LEMMA SumBounded ==
  ASSUME NEW S, IsFiniteSet(S), NEW g, NEW L \in Nat,
         \A x \in S : g[x] \in Int /\ 0 <= g[x] /\ g[x] <= L
  PROVE  0 <= SumOver(g, S) /\ SumOver(g, S) <= L * Cardinality(S)
<1> DEFINE Ok(s) == 0 <= SumOver(g, s) /\ SumOver(g, s) <= L * Cardinality(s)
           Bad == {s \in SUBSET S : ~Ok(s)}
<1>1. \A s \in SUBSET S : /\ IsFiniteSet(s) /\ SumOver(g, s) \in Int
                          /\ Cardinality(s) \in Nat
  BY FS_Subset, SumFirst, FS_CardinalityType
<1>2. Bad = {}
  <2> SUFFICES ASSUME Bad # {} PROVE FALSE
    OBVIOUS
  <2>1. PICK s \in Bad : \A t \in Bad : Cardinality(s) <= Cardinality(t)
    BY <1>1, SmallestOf
  <2>2. s \in SUBSET S /\ ~Ok(s)
    BY <2>1
  <2>3. CASE s = {}
    <3>1. SumOver(g, s) = 0 /\ Cardinality(s) = 0
      BY <2>3, SumFirst, FS_EmptySet
    <3>2. QED
      BY <2>2, <3>1
  <2>4. CASE s # {}
    <3> DEFINE p == First(s)
               r == s \ {p}
    <3>1. p \in s /\ SumOver(g, s) = g[p] + SumOver(g, r)
      BY <1>1, <2>2, <2>4, SumFirst DEF First
    <3>2. Cardinality(r) = Cardinality(s) - 1 /\ r \in SUBSET S
      BY <1>1, <2>2, <3>1, FS_RemoveElement
    <3> HIDE DEF p, r
    <3>3. /\ Cardinality(s) \in Nat /\ Cardinality(r) \in Nat
          /\ SumOver(g, r) \in Int /\ g[p] \in Int /\ 0 <= g[p] /\ g[p] <= L
      BY <1>1, <2>2, <3>1, <3>2
    <3>4. Ok(r)
      <4>1. ~(r \in Bad)
        BY <2>1, <3>2, <3>3
      <4> HIDE DEF Ok
      <4>2. QED
        BY <3>2, <4>1
    <3>5. L * Cardinality(s) = L * Cardinality(r) + L
      BY <3>2, <3>3
    <3>6. L * Cardinality(r) \in Nat
      BY <3>3
    <3>7. Ok(s)
      BY <3>1, <3>3, <3>4, <3>5, <3>6
    <3>8. QED
      BY <2>2, <3>7
  <2>5. QED
    BY <2>3, <2>4
<1>3. S \in SUBSET S /\ ~(S \in Bad)
  BY <1>2
<1>4. QED
  BY <1>3

LEMMA SumIsNat ==
  ASSUME NEW S, IsFiniteSet(S), NEW g, \A x \in S : g[x] \in Nat
  PROVE  SumOver(g, S) \in Nat
<1> DEFINE Ok(s) == SumOver(g, s) \in Nat
           Bad == {s \in SUBSET S : ~Ok(s)}
<1>1. \A s \in SUBSET S : IsFiniteSet(s)
  BY FS_Subset
<1> SUFFICES ASSUME Bad # {} PROVE FALSE
  OBVIOUS
<1>2. PICK s \in Bad : \A t \in Bad : Cardinality(s) <= Cardinality(t)
  BY <1>1, SmallestOf
<1>3. /\ s \in SUBSET S /\ IsFiniteSet(s) /\ \A x \in s : g[x] \in Int
      /\ ~(SumOver(g, s) \in Nat)
  BY <1>1
<1>4. SumOver(g, s) = IF s = {} THEN 0
                      ELSE g[First(s)] + SumOver(g, s \ {First(s)})
  BY <1>3, SumFirst
<1>5. s # {}
  BY <1>3, <1>4
<1>6. /\ First(s) \in s
      /\ Cardinality(s \ {First(s)}) = Cardinality(s) - 1
      /\ Cardinality(s) \in Nat \ {0}
  BY <1>3, <1>5, WithoutFirst
<1>7. s \ {First(s)} \notin Bad
  BY <1>2, <1>6
<1>8. SumOver(g, s \ {First(s)}) \in Nat /\ g[First(s)] \in Nat
  BY <1>3, <1>6, <1>7
<1>9. QED
  BY <1>3, <1>4, <1>5, <1>8

LEMMA SumMonotone ==
  ASSUME NEW S, IsFiniteSet(S), NEW g, NEW h,
         \A x \in S : g[x] \in Int /\ h[x] \in Int /\ g[x] <= h[x]
  PROVE  SumOver(g, S) <= SumOver(h, S)
<1> DEFINE Ok(s) == SumOver(g, s) <= SumOver(h, s)
           Bad == {s \in SUBSET S : ~Ok(s)}
<1>1. \A s \in SUBSET S : IsFiniteSet(s)
  BY FS_Subset
<1> SUFFICES ASSUME Bad # {} PROVE FALSE
  OBVIOUS
<1>2. PICK s \in Bad : \A t \in Bad : Cardinality(s) <= Cardinality(t)
  BY <1>1, SmallestOf
<1>3. /\ s \in SUBSET S /\ IsFiniteSet(s) /\ ~(SumOver(g, s) <= SumOver(h, s))
      /\ \A x \in s : g[x] \in Int
      /\ \A x \in s : h[x] \in Int
  BY <1>1
<1>4. /\ SumOver(g, s) = IF s = {} THEN 0 ELSE g[First(s)] + SumOver(g, s \ {First(s)})
      /\ SumOver(h, s) = IF s = {} THEN 0 ELSE h[First(s)] + SumOver(h, s \ {First(s)})
  BY <1>3, SumFirst
<1>5. s # {}
  BY <1>3, <1>4
<1> DEFINE r == s \ {First(s)}
<1>6. /\ First(s) \in s /\ IsFiniteSet(r) /\ r \in SUBSET S
      /\ Cardinality(r) = Cardinality(s) - 1 /\ Cardinality(s) \in Nat \ {0}
  BY <1>3, <1>5, WithoutFirst
<1>7. SumOver(g, r) \in Int /\ SumOver(h, r) \in Int
  <2>1. /\ \A x \in r : g[x] \in Int
        /\ \A x \in r : h[x] \in Int
    BY <1>3
  <2>2. QED
    BY <1>6, <2>1, SumFirst
<1> HIDE DEF r
<1>8. Ok(r)
  <2>1. ~(r \in Bad)
    BY <1>2, <1>6
  <2> HIDE DEF Ok
  <2>2. QED
    BY <1>6, <2>1
<1>9. g[First(s)] \in Int /\ h[First(s)] \in Int /\ g[First(s)] <= h[First(s)]
  BY <1>3, <1>6
<1>10. /\ SumOver(g, s) = g[First(s)] + SumOver(g, r)
       /\ SumOver(h, s) = h[First(s)] + SumOver(h, r)
  BY <1>4, <1>5 DEF r
<1>11. QED
  BY <1>3, <1>7, <1>8, <1>9, <1>10

LEMMA NothingSums ==
  ASSUME NEW S, IsFiniteSet(S), NEW g, \A x \in S : g[x] = 0
  PROVE  SumOver(g, S) = 0
<1> \A x \in S : g[x] \in Int /\ 0 <= g[x] /\ g[x] <= 0
  OBVIOUS
<1>1. 0 <= SumOver(g, S) /\ SumOver(g, S) <= 0 * Cardinality(S)
  BY SumBounded
<1>2. SumOver(g, S) \in Int
  BY SumFirst
<1>3. Cardinality(S) \in Nat
  BY FS_CardinalityType
<1>4. QED
  BY <1>1, <1>2, <1>3

LEMMA SumOfUnion ==
  ASSUME NEW S, IsFiniteSet(S), NEW T, IsFiniteSet(T), S \intersect T = {},
         NEW g, \A x \in S \union T : g[x] \in Int
  PROVE  SumOver(g, S \union T) = SumOver(g, S) + SumOver(g, T)
<1> DEFINE Ok(s) == SumOver(g, S \union s) = SumOver(g, S) + SumOver(g, s)
           Bad == {s \in SUBSET T : ~Ok(s)}
<1>1. \A s \in SUBSET T : IsFiniteSet(s)
  BY FS_Subset
<1> SUFFICES ASSUME Bad # {} PROVE FALSE
  OBVIOUS
<1>2. PICK s \in Bad : \A t \in Bad : Cardinality(s) <= Cardinality(t)
  BY <1>1, SmallestOf
<1>3. /\ s \in SUBSET T /\ IsFiniteSet(s)
      /\ \A x \in s : g[x] \in Int /\ x \notin S
      /\ \A x \in S : g[x] \in Int
      /\ SumOver(g, S) \in Int
  <2>1. \A x \in S : g[x] \in Int
    OBVIOUS
  <2>2. QED
    BY <1>1, <2>1, SumFirst
<1>4. s # {}
  <2> SUFFICES ASSUME s = {} PROVE FALSE
    OBVIOUS
  <2>1. SumOver(g, s) = 0 /\ S \union s = S
    BY <1>3, NothingSums
  <2>2. QED
    BY <1>2, <1>3, <2>1
<1> DEFINE x == First(s)
           r == s \ {x}
<1>5. x \in s /\ IsFiniteSet(r) /\ Cardinality(r) < Cardinality(s)
  <2>1. /\ x \in s /\ IsFiniteSet(r) /\ Cardinality(s) \in Nat
        /\ Cardinality(r) = Cardinality(s) - 1
    BY <1>3, <1>4, WithoutFirst, Zenon
  <2>2. QED
    BY <2>1
<1> HIDE DEF x
<1>6. SumOver(g, S \union r) = SumOver(g, S) + SumOver(g, r)
  <2>1. r \notin Bad
    BY <1>2, <1>5, <1>3, FS_CardinalityType
  <2>2. QED
    BY <1>3, <2>1
<1>7. SumOver(g, S \union s) = g[x] + SumOver(g, S \union r)
  <2>1. /\ IsFiniteSet(S \union s) /\ \A y \in S \union s : g[y] \in Int
        /\ x \in S \union s
    BY <1>3, <1>5, FS_Union
  <2>2. SumOver(g, S \union s) = g[x] + SumOver(g, (S \union s) \ {x})
    BY <2>1, SumAny
  <2>3. (S \union s) \ {x} = S \union r
    BY <1>3, <1>5
  <2>4. QED
    BY <2>2, <2>3
<1>8. SumOver(g, s) = g[x] + SumOver(g, r)
  BY <1>3, <1>5, SumAny
<1>9. SumOver(g, r) \in Int /\ g[x] \in Int
  BY <1>3, <1>5, SumFirst
<1>10. Ok(s)
  BY <1>3, <1>6, <1>7, <1>8, <1>9
<1>11. QED
  BY <1>10

LEMMA SumOfPart ==
  ASSUME NEW T, IsFiniteSet(T), NEW S, S \subseteq T,
         NEW g, \A x \in T : g[x] \in Nat
  PROVE  SumOver(g, S) <= SumOver(g, T)
<1> DEFINE R == T \ S
<1>1. /\ IsFiniteSet(S) /\ IsFiniteSet(R) /\ S \intersect R = {} /\ S \union R = T
      /\ \A x \in S \union R : g[x] \in Int
      /\ \A x \in S : g[x] \in Nat
      /\ \A x \in R : g[x] \in Nat
  BY FS_Subset
<1>2. SumOver(g, S) \in Nat /\ SumOver(g, R) \in Nat
  BY <1>1, SumIsNat
<1> HIDE DEF R
<1>3. SumOver(g, S \union R) = SumOver(g, S) + SumOver(g, R)
  BY <1>1, SumOfUnion
<1>4. SumOver(g, T) = SumOver(g, S) + SumOver(g, R)
  BY <1>1, <1>3, Zenon
<1>5. QED
  BY <1>2, <1>4

(* The sum of a set of numbers is that of their values. *)
LEMMA SumOfSet ==
  ASSUME NEW S, IsFiniteSet(S), S \subseteq Int
  PROVE  SumSet(S) = SumOver([x \in S |-> x], S)
<1> DEFINE g == [x \in S |-> x]
           Table(t) == [s \in SUBSET S |->
                          IF s = {} THEN 0 ELSE First(s) + t[s \ {First(s)}]]
           c == CHOOSE t : t = Table(t)
<1>1. SumSet(S) = c[S]
  BY Zenon DEF SumSet, FoldSet, MapThenFoldSet, First
<1>2. \A s \in SUBSET S : s # {} => g[First(s)] = First(s)
  BY DEF First
<1>3. \E t : t = Table(t)
  <2>1. \A x \in S : g[x] \in Int
    OBVIOUS
  <2> HIDE DEF g
  <2>2. PICK t \in [SUBSET S -> Int] : AddsUp(t, g, SUBSET S)
    BY <2>1, TableExists
  <2>3. \A s \in SUBSET S : t[s] = Table(t)[s]
    BY <1>2, <2>2 DEF AddsUp
  <2>4. t = Table(t)
    BY <2>2, <2>3
  <2>5. QED
    BY <2>4
<1>4. c = Table(c)
  BY <1>3
<1> HIDE DEF c
<1>5. AddsUp(c, g, SUBSET S)
  BY <1>2, <1>4 DEF AddsUp
<1>6. \A x \in S : g[x] \in Int
  OBVIOUS
<1> HIDE DEF g
<1>7. SumOver(g, S) = c[S]
  BY <1>5, <1>6, SumByTable
<1>8. QED
  BY <1>1, <1>7 DEF g

=============================================================================

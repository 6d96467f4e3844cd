----------------------------- MODULE SumLemmas -----------------------------
(***************************************************************************)
(* Sums over finite sets: that SumFunctionOnSet, a fold in an order that   *)
(* CHOOSE fixes, is a sum whatever the order.  The balances, counters and  *)
(* books of the other modules are compared with such sums.                 *)
(*                                                                         *)
(* Induction is by a smallest counterexample, because the provers cannot   *)
(* instantiate an induction theorem's predicate.                           *)
(***************************************************************************)
EXTENDS Integers, FiniteSets, Functions, FiniteSetTheorems, TLAPS

(* Among finitely many sets there is one that contains no other.           *)
LEMMA SmallestSet ==
    ASSUME NEW S, IsFiniteSet(S), NEW B \in SUBSET (SUBSET S), B # {}
    PROVE  \E m \in B : \A n \in B : n \subseteq m => n = m
<1>1. IsWellFoundedOn(StrictSubsetOrdering(S), FiniteSubsetsOf(S))
    BY FS_StrictSubsetOrderingWellFounded
<1>2. B \subseteq FiniteSubsetsOf(S)
    BY FS_FiniteSubsetsOfFinite
<1>3. PICK m \in B : \A n \in B : <<n, m>> \notin StrictSubsetOrdering(S)
    BY <1>1, <1>2, WFMin
<1>4. ASSUME NEW n \in B, n \subseteq m
      PROVE  n = m
  <2>1. n # m => <<n, m>> \in StrictSubsetOrdering(S)
    BY <1>4 DEF StrictSubsetOrdering
  <2>2. QED
    BY <1>3, <2>1
<1>5. QED
    BY <1>4

------------------------------------------------------------------------------
(* The fold has a value.                                                   *)

First(s) == CHOOSE x \in s : TRUE

LEMMA FirstIsIn == \A s : s # {} => First(s) \in s
  BY DEF First

(* g is the recursive function that the fold over S evaluates.             *)
IsFold(g, f, S) ==
    g = [s \in SUBSET S |-> IF s = {} THEN 0 ELSE f[First(s)] + g[s \ {First(s)}]]

Fold(f, S) == CHOOSE g : IsFold(g, f, S)

(* The sum is that function's value at S.                                  *)
LEMMA SumIsFold ==
    ASSUME NEW f, NEW S
    PROVE  SumFunctionOnSet(f, S) = Fold(f, S)[S]
  BY DEF SumFunctionOnSet, FoldFunctionOnSet, MapThenFoldSet, IsFold, Fold, First

(* The fold's value at a set, by its equation.                             *)
LEMMA FoldEquation ==
    ASSUME NEW f, NEW S, NEW g, IsFold(g, f, S), NEW s \in SUBSET S
    PROVE  /\ s = {} => g[s] = 0
           /\ s # {} => g[s] = f[First(s)] + g[s \ {First(s)}]
  BY DEF IsFold

(* Two folds of a function agree wherever both are defined.                *)
LEMMA FoldUnique ==
    ASSUME NEW f, NEW S, IsFiniteSet(S), NEW T \in SUBSET S,
           NEW g, IsFold(g, f, S), NEW h, IsFold(h, f, T)
    PROVE  \A s \in SUBSET T : g[s] = h[s]
<1> DEFINE B == {s \in SUBSET T : g[s] # h[s]}
<1>1. SUFFICES ASSUME B # {} PROVE FALSE
    OBVIOUS
<1>2. PICK m \in B : \A n \in B : n \subseteq m => n = m
  <2>1. B \in SUBSET (SUBSET S)
    OBVIOUS
  <2> HIDE DEF B
  <2>2. QED
    BY <1>1, <2>1, SmallestSet
<1>3. m \in SUBSET T /\ m \in SUBSET S /\ g[m] # h[m]
    OBVIOUS
<1>4. m # {}
    BY <1>3, FoldEquation
<1>5. m \ {First(m)} \in SUBSET T /\ m \ {First(m)} # m
    BY <1>4, FirstIsIn
<1>6. g[m \ {First(m)}] = h[m \ {First(m)}]
    BY <1>2, <1>5
<1>7. g[m] = f[First(m)] + g[m \ {First(m)}]
    BY <1>3, <1>4, FoldEquation
<1>8. h[m] = f[First(m)] + h[m \ {First(m)}]
    BY <1>3, <1>4, FoldEquation
<1>9. QED
    BY <1>3, <1>6, <1>7, <1>8

(* Every function has a fold over a finite set.                            *)
LEMMA FoldExists ==
    ASSUME NEW f, NEW S, IsFiniteSet(S)
    PROVE  IsFold(Fold(f, S), f, S)
<1> DEFINE B == {T \in SUBSET S : ~ \E g : IsFold(g, f, T)}
<1>1. SUFFICES ASSUME B # {} PROVE FALSE
    BY DEF Fold
<1>2. PICK m \in B : \A n \in B : n \subseteq m => n = m
  <2>1. B \in SUBSET (SUBSET S)
    OBVIOUS
  <2> HIDE DEF B
  <2>2. QED
    BY <1>1, <2>1, SmallestSet
<1> DEFINE value(s) == IF s = {} THEN 0
                       ELSE f[First(s)] + Fold(f, s \ {First(s)})[s \ {First(s)}]
           g == [s \in SUBSET m |-> value(s)]
<1>3. ASSUME NEW n \in SUBSET m, n # m
      PROVE  IsFiniteSet(n) /\ IsFold(Fold(f, n), f, n)
  <2>1. n \in SUBSET S /\ n \notin B
    BY <1>2, <1>3
  <2>2. QED
    BY <2>1, FS_Subset DEF Fold
<1>4. ASSUME NEW n \in SUBSET m, n # {}
      PROVE  n \ {First(n)} \in SUBSET m /\ n \ {First(n)} \in SUBSET n /\ n \ {First(n)} # m
    BY <1>4, FirstIsIn
<1>5. ASSUME NEW n \in SUBSET m, n # m
      PROVE  Fold(f, n)[n] = value(n)
  <2>1. IsFiniteSet(n) /\ IsFold(Fold(f, n), f, n)
    BY <1>3, <1>5
  <2>2. CASE n = {}
    BY <2>1, <2>2, FoldEquation
  <2>3. CASE n # {}
    <3> DEFINE r == n \ {First(n)}
    <3>1. r \in SUBSET m /\ r \in SUBSET n /\ r # m
        BY <1>4, <2>3
    <3>2. IsFold(Fold(f, r), f, r)
        BY <1>3, <3>1
    <3>3. Fold(f, n)[r] = Fold(f, r)[r]
        <4> HIDE DEF r
        <4>1. \A s \in SUBSET r : Fold(f, n)[s] = Fold(f, r)[s]
            BY <2>1, <3>1, <3>2, FoldUnique
        <4>2. QED
            BY <4>1
    <3>4. Fold(f, n)[n] = f[First(n)] + Fold(f, n)[r]
        BY <2>1, <2>3, FoldEquation
    <3>5. QED
        BY <2>3, <3>3, <3>4
  <2>4. QED
    BY <2>2, <2>3
<1>6. ASSUME NEW s \in SUBSET m, s # {}
      PROVE  value(s) = f[First(s)] + g[s \ {First(s)}]
  <2> DEFINE r == s \ {First(s)}
  <2>1. r \in SUBSET m /\ r # m
    BY <1>4, <1>6
  <2>2. g[r] = value(r)
    BY <2>1
  <2>3. Fold(f, r)[r] = value(r)
    <3> HIDE DEF r, value
    <3>1. QED
        BY <1>5, <2>1
  <2>4. value(s) = f[First(s)] + Fold(f, r)[r]
    BY <1>6
  <2>5. QED
    BY <2>2, <2>3, <2>4
<1>7. IsFold(g, f, m)
  <2>1. \A s \in SUBSET m :
            value(s) = IF s = {} THEN 0 ELSE f[First(s)] + g[s \ {First(s)}]
    <3>1. value({}) = 0
        OBVIOUS
    <3> HIDE DEF value, g
    <3>2. QED
        BY <1>6, <3>1
  <2>2. g = [s \in SUBSET m |-> IF s = {} THEN 0 ELSE f[First(s)] + g[s \ {First(s)}]]
    <3> DEFINE v(s) == IF s = {} THEN 0 ELSE f[First(s)] + g[s \ {First(s)}]
    <3>1. \A s \in SUBSET m : value(s) = v(s)
        BY <2>1
    <3>2. g = [s \in SUBSET m |-> value(s)]
        OBVIOUS
    <3> HIDE DEF value, g, v
    <3>3. g = [s \in SUBSET m |-> v(s)]
        BY <3>1, <3>2
    <3>4. QED
        BY <3>3 DEF v
  <2> HIDE DEF g
  <2>3. QED
    BY <2>2 DEF IsFold
<1>8. QED
    BY <1>2, <1>7
------------------------------------------------------------------------------
(* The fold is a sum.                                                      *)

LEMMA SumEmpty == ASSUME NEW f PROVE SumFunctionOnSet(f, {}) = 0
  BY SumIsFold, FoldExists, FoldEquation, FS_EmptySet

(* The sum over a set, by the element that the fold takes first.           *)
LEMMA SumFirst ==
    ASSUME NEW f, NEW S, IsFiniteSet(S), S # {}
    PROVE  SumFunctionOnSet(f, S) = f[First(S)] + SumFunctionOnSet(f, S \ {First(S)})
<1> DEFINE r == S \ {First(S)}
           whole == Fold(f, S)
           rest == Fold(f, r)
<1>1. r \in SUBSET S /\ IsFiniteSet(r)
    BY FS_Subset
<1>2. IsFold(whole, f, S) /\ IsFold(rest, f, r)
    BY <1>1, FoldExists
<1>3. whole[S] = f[First(S)] + whole[r]
    BY <1>2, FoldEquation
<1>4. whole[r] = rest[r]
  <2> HIDE DEF r, whole, rest
  <2>1. IsFiniteSet(S) /\ r \in SUBSET S /\ IsFold(whole, f, S) /\ IsFold(rest, f, r)
    BY <1>1, <1>2
  <2>2. \A s \in SUBSET r : whole[s] = rest[s]
    <3>1. \A U \in SUBSET S : \A h :
              IsFold(h, f, U) => \A s \in SUBSET U : whole[s] = h[s]
        BY <2>1, FoldUnique
    <3>2. QED
        BY <2>1, <3>1
  <2>3. QED
    BY <2>2
<1>5. QED
    BY <1>3, <1>4, SumIsFold

(* A sum of integers is one.                                               *)
LEMMA SumInt ==
    ASSUME NEW f, NEW S, IsFiniteSet(S), \A x \in S : f[x] \in Int
    PROVE  SumFunctionOnSet(f, S) \in Int
<1> DEFINE B == {T \in SUBSET S : SumFunctionOnSet(f, T) \notin Int}
<1>1. SUFFICES ASSUME B # {} PROVE FALSE
    OBVIOUS
<1>2. PICK m \in B : \A n \in B : n \subseteq m => n = m
  <2>1. B \in SUBSET (SUBSET S)
    OBVIOUS
  <2> HIDE DEF B
  <2>2. QED
    BY <1>1, <2>1, SmallestSet
<1>3. m # {}
    BY SumEmpty
<1>4. First(m) \in m /\ IsFiniteSet(m) /\ m \in SUBSET S
    BY <1>3, FirstIsIn, FS_Subset
<1>5. SumFunctionOnSet(f, m \ {First(m)}) \in Int
    BY <1>2, <1>4
<1>6. QED
    BY <1>3, <1>4, <1>5, SumFirst

(* Any element may be taken out first.                                     *)
LEMMA SumRemove ==
    ASSUME NEW f, NEW S, IsFiniteSet(S), \A x \in S : f[x] \in Int, NEW y \in S
    PROVE  SumFunctionOnSet(f, S) = f[y] + SumFunctionOnSet(f, S \ {y})
<1> DEFINE sum(T) == SumFunctionOnSet(f, T)
           B == {T \in SUBSET S : \E z \in T : sum(T) # f[z] + sum(T \ {z})}
<1>1. SUFFICES ASSUME B # {} PROVE FALSE
    OBVIOUS
<1>2. PICK m \in B : \A n \in B : n \subseteq m => n = m
  <2>1. B \in SUBSET (SUBSET S)
    OBVIOUS
  <2> HIDE DEF B
  <2>2. QED
    BY <1>1, <2>1, SmallestSet
<1>3. PICK z \in m : sum(m) # f[z] + sum(m \ {z})
    OBVIOUS
<1> DEFINE x == First(m)
           both == m \ {x, z}
<1>4. m \in SUBSET S /\ IsFiniteSet(m) /\ x \in m
    BY FirstIsIn, FS_Subset
<1>5. IsFiniteSet(both) /\ sum(both) \in Int /\ f[x] \in Int /\ f[z] \in Int
    BY <1>4, FS_Subset, SumInt
<1>6. sum(m) = f[x] + sum(m \ {x})
    BY <1>3, <1>4, SumFirst
<1>7. x # z
    BY <1>3, <1>6
<1>8. sum(m \ {x}) = f[z] + sum(both)
  <2>1. m \ {x} \in SUBSET S /\ m \ {x} \notin B /\ z \in m \ {x}
    BY <1>2, <1>4, <1>7
  <2>2. (m \ {x}) \ {z} = both
    OBVIOUS
  <2>3. QED
    BY <2>1, <2>2
<1>9. sum(m \ {z}) = f[x] + sum(both)
  <2>1. m \ {z} \in SUBSET S /\ m \ {z} \notin B /\ x \in m \ {z}
    BY <1>2, <1>4, <1>7
  <2>2. (m \ {z}) \ {x} = both
    OBVIOUS
  <2>3. QED
    BY <2>1, <2>2
<1>10. QED
    BY <1>3, <1>5, <1>6, <1>8, <1>9

LEMMA SumAdd ==
    ASSUME NEW f, NEW S, IsFiniteSet(S), \A x \in S : f[x] \in Int,
           NEW y, y \notin S, f[y] \in Int
    PROVE  SumFunctionOnSet(f, S \cup {y}) = SumFunctionOnSet(f, S) + f[y]
<1> DEFINE T == S \cup {y}
<1>1. IsFiniteSet(T) /\ (\A x \in T : f[x] \in Int) /\ T \ {y} = S /\ y \in T
    BY FS_AddElement
<1>2. SumFunctionOnSet(f, T) = f[y] + SumFunctionOnSet(f, T \ {y})
  <2> HIDE DEF T
  <2>1. QED
    BY <1>1, SumRemove
<1>3. SumFunctionOnSet(f, S) \in Int
    BY SumInt
<1>4. SumFunctionOnSet(f, T) = f[y] + SumFunctionOnSet(f, S)
    BY <1>1, <1>2, Zenon
<1>5. QED
    BY <1>3, <1>4

(* The sum depends on the values in the set only.                          *)
LEMMA SumEqual ==
    ASSUME NEW f, NEW g, NEW S, IsFiniteSet(S), \A x \in S : f[x] = g[x]
    PROVE  SumFunctionOnSet(f, S) = SumFunctionOnSet(g, S)
<1> DEFINE B == {T \in SUBSET S : SumFunctionOnSet(f, T) # SumFunctionOnSet(g, T)}
<1>1. SUFFICES ASSUME B # {} PROVE FALSE
    OBVIOUS
<1>2. PICK m \in B : \A n \in B : n \subseteq m => n = m
  <2>1. B \in SUBSET (SUBSET S)
    OBVIOUS
  <2> HIDE DEF B
  <2>2. QED
    BY <1>1, <2>1, SmallestSet
<1>3. m # {}
    BY SumEmpty
<1>4. First(m) \in m /\ IsFiniteSet(m) /\ m \in SUBSET S
    BY <1>3, FirstIsIn, FS_Subset
<1>5. SumFunctionOnSet(f, m \ {First(m)}) = SumFunctionOnSet(g, m \ {First(m)})
    BY <1>2, <1>4
<1>6. SumFunctionOnSet(f, m) = f[First(m)] + SumFunctionOnSet(f, m \ {First(m)})
    BY <1>3, <1>4, SumFirst
<1>7. SumFunctionOnSet(g, m) = g[First(m)] + SumFunctionOnSet(g, m \ {First(m)})
    BY <1>3, <1>4, SumFirst
<1>8. QED
    BY <1>4, <1>5, <1>6, <1>7

(* The sum of two functions' values is the sum of their sums.              *)
LEMMA SumOfSums ==
    ASSUME NEW f, NEW g, NEW h, NEW S, IsFiniteSet(S),
           \A x \in S : f[x] \in Int /\ g[x] \in Int /\ h[x] = f[x] + g[x]
    PROVE  SumFunctionOnSet(h, S) = SumFunctionOnSet(f, S) + SumFunctionOnSet(g, S)
<1> DEFINE B == {T \in SUBSET S :
                   SumFunctionOnSet(h, T) # SumFunctionOnSet(f, T) + SumFunctionOnSet(g, T)}
<1>1. SUFFICES ASSUME B # {} PROVE FALSE
    OBVIOUS
<1>2. PICK m \in B : \A n \in B : n \subseteq m => n = m
  <2>1. B \in SUBSET (SUBSET S)
    OBVIOUS
  <2> HIDE DEF B
  <2>2. QED
    BY <1>1, <2>1, SmallestSet
<1>3. m # {}
  <2>1. SumFunctionOnSet(h, {}) = SumFunctionOnSet(f, {}) + SumFunctionOnSet(g, {})
    BY SumEmpty
  <2>2. QED
    BY <2>1
<1> DEFINE x == First(m)
           less == m \ {x}
<1>4. x \in m /\ IsFiniteSet(m) /\ IsFiniteSet(less) /\ m \in SUBSET S /\ less \in SUBSET S
    BY <1>3, FirstIsIn, FS_Subset
<1>5. SumFunctionOnSet(h, less) = SumFunctionOnSet(f, less) + SumFunctionOnSet(g, less)
    BY <1>2, <1>4
<1>6. /\ SumFunctionOnSet(f, m) = f[x] + SumFunctionOnSet(f, less)
      /\ SumFunctionOnSet(g, m) = g[x] + SumFunctionOnSet(g, less)
      /\ SumFunctionOnSet(h, m) = h[x] + SumFunctionOnSet(h, less)
    BY <1>3, <1>4, SumFirst
<1>7. SumFunctionOnSet(f, less) \in Int /\ SumFunctionOnSet(g, less) \in Int
    BY <1>4, SumInt
<1>8. f[x] \in Int /\ g[x] \in Int /\ h[x] = f[x] + g[x]
    BY <1>4
<1>9. SumFunctionOnSet(h, m) # SumFunctionOnSet(f, m) + SumFunctionOnSet(g, m)
    BY <1>2
<1> HIDE DEF x, less, B
<1>10. QED
    BY <1>5, <1>6, <1>7, <1>8, <1>9

(* Disjoint parts add up.                                                  *)
LEMMA SumUnion ==
    ASSUME NEW f, NEW S, IsFiniteSet(S), NEW T, IsFiniteSet(T), S \cap T = {},
           \A x \in S \cup T : f[x] \in Int
    PROVE  SumFunctionOnSet(f, S \cup T) = SumFunctionOnSet(f, S) + SumFunctionOnSet(f, T)
<1> DEFINE sum(A) == SumFunctionOnSet(f, A)
           B == {A \in SUBSET T : sum(S \cup A) # sum(S) + sum(A)}
<1>1. SUFFICES ASSUME B # {} PROVE FALSE
    OBVIOUS
<1>2. PICK m \in B : \A n \in B : n \subseteq m => n = m
  <2>1. B \in SUBSET (SUBSET T)
    OBVIOUS
  <2> HIDE DEF B
  <2>2. QED
    BY <1>1, <2>1, SmallestSet
<1>3. sum(S) \in Int
    BY SumInt
<1>4. m # {}
  <2>1. S \cup {} = S /\ sum({}) = 0
    BY SumEmpty
  <2>2. sum(S \cup {}) = sum(S) + sum({})
    BY <1>3, <2>1
  <2>3. QED
    BY <2>2
<1> DEFINE x == First(m)
           r == m \ {x}
<1>5. x \in m /\ x \notin S /\ r \in SUBSET T /\ IsFiniteSet(r) /\ f[x] \in Int
    BY <1>4, FirstIsIn, FS_Subset
<1>6. sum(r) \in Int
    BY <1>5, SumInt
<1>7. sum(S \cup r) = sum(S) + sum(r)
    BY <1>2, <1>5
<1>8. sum(r \cup {x}) = sum(r) + f[x]
    BY <1>5, SumAdd
<1>9. sum((S \cup r) \cup {x}) = sum(S \cup r) + f[x]
  <2>1. IsFiniteSet(S \cup r)
    BY <1>5, FS_Union
  <2>2. x \notin S \cup r /\ \A y \in S \cup r : f[y] \in Int
    BY <1>5
  <2> DEFINE U == S \cup r
  <2> HIDE DEF U, x
  <2>3. QED
    BY <1>5, <2>1, <2>2, SumAdd DEF U
<1>10. r \cup {x} = m /\ (S \cup r) \cup {x} = S \cup m
    BY <1>5
<1>11. sum(m) = sum(r) + f[x] /\ sum(S \cup m) = sum(S \cup r) + f[x]
    BY <1>8, <1>9, <1>10, Zenon
<1>12. sum(S \cup m) # sum(S) + sum(m)
    OBVIOUS
<1>13. QED
  <2> HIDE DEF sum, r, x, B
  <2>1. QED
    BY <1>3, <1>5, <1>6, <1>7, <1>11, <1>12

(* A sum of natural numbers is one, and grows with the set.                *)
LEMMA SumNat ==
    ASSUME NEW f, NEW S, IsFiniteSet(S), \A x \in S : f[x] \in Nat
    PROVE  SumFunctionOnSet(f, S) \in Nat
<1> DEFINE B == {T \in SUBSET S : SumFunctionOnSet(f, T) \notin Nat}
<1>1. SUFFICES ASSUME B # {} PROVE FALSE
    OBVIOUS
<1>2. PICK m \in B : \A n \in B : n \subseteq m => n = m
  <2>1. B \in SUBSET (SUBSET S)
    OBVIOUS
  <2> HIDE DEF B
  <2>2. QED
    BY <1>1, <2>1, SmallestSet
<1>3. m # {}
    BY SumEmpty
<1>4. First(m) \in m /\ IsFiniteSet(m) /\ m \in SUBSET S
    BY <1>3, FirstIsIn, FS_Subset
<1>5. SumFunctionOnSet(f, m \ {First(m)}) \in Nat
    BY <1>2, <1>4
<1>6. QED
    BY <1>3, <1>4, <1>5, SumFirst

LEMMA SumMonotone ==
    ASSUME NEW f, NEW S, IsFiniteSet(S), \A x \in S : f[x] \in Nat, NEW T \in SUBSET S
    PROVE  SumFunctionOnSet(f, T) <= SumFunctionOnSet(f, S)
<1>1. IsFiniteSet(T) /\ IsFiniteSet(S \ T)
    BY FS_Subset
<1>2. SumFunctionOnSet(f, T) \in Nat /\ SumFunctionOnSet(f, S \ T) \in Nat
    BY <1>1, SumNat
<1>3. SumFunctionOnSet(f, T \cup (S \ T)) = SumFunctionOnSet(f, T) + SumFunctionOnSet(f, S \ T)
    BY <1>1, SumUnion
<1>4. T \cup (S \ T) = S
    OBVIOUS
<1>5. SumFunctionOnSet(f, S) = SumFunctionOnSet(f, T) + SumFunctionOnSet(f, S \ T)
    BY <1>3, <1>4, Zenon
<1>6. QED
    BY <1>2, <1>5

(* h gives each element of S another name, in T, with the same value.      *)
Renames(f, g, h, S, T) ==
    /\ \A x \in S : h[x] \in T /\ f[x] = g[h[x]] /\ g[h[x]] \in Int
    /\ \A x, y \in S : h[x] = h[y] => x = y
    /\ \A z \in T : \E x \in S : h[x] = z

(* Renaming the elements changes no sum.                                   *)
LEMMA SumRenamed ==
    ASSUME NEW f, NEW g, NEW h, NEW S, IsFiniteSet(S), NEW T, Renames(f, g, h, S, T)
    PROVE  SumFunctionOnSet(f, S) = SumFunctionOnSet(g, T)
<1> USE DEF Renames
<1> DEFINE Image(A) == {h[x] : x \in A}
           B == {A \in SUBSET S : SumFunctionOnSet(f, A) # SumFunctionOnSet(g, Image(A))}
<1>1. SUFFICES ASSUME B # {} PROVE FALSE
  <2>1. Image(S) = T
    OBVIOUS
  <2>2. B = {} => SumFunctionOnSet(f, S) = SumFunctionOnSet(g, Image(S))
    OBVIOUS
  <2>3. QED
    BY <2>1, <2>2, Zenon
<1>2. PICK m \in B : \A n \in B : n \subseteq m => n = m
  <2>1. B \in SUBSET (SUBSET S)
    OBVIOUS
  <2> HIDE DEF B
  <2>2. QED
    BY <1>1, <2>1, SmallestSet
<1>3. m # {}
  <2>1. Image({}) = {}
    OBVIOUS
  <2>2. SumFunctionOnSet(f, {}) = SumFunctionOnSet(g, Image({}))
    BY <2>1, SumEmpty
  <2>3. QED
    BY <2>2
<1> DEFINE x == First(m)
           r == m \ {x}
<1>4. x \in m /\ r \in SUBSET S /\ r # m /\ IsFiniteSet(m) /\ IsFiniteSet(r)
    BY <1>3, FirstIsIn, FS_Subset
<1>5. SumFunctionOnSet(f, r) = SumFunctionOnSet(g, Image(r))
    BY <1>2, <1>4
<1>6. SumFunctionOnSet(f, m) = f[x] + SumFunctionOnSet(f, r)
    BY <1>3, <1>4, SumFirst
<1>7. /\ IsFiniteSet(Image(m)) /\ h[x] \in Image(m) /\ Image(m) \ {h[x]} = Image(r)
      /\ \A y \in Image(m) : g[y] \in Int
  <2>1. IsFiniteSet(Image(m))
    <3> DEFINE k == [y \in m |-> h[y]]
    <3>1. k \in Surjection(m, Image(m))
        BY DEF Surjection
    <3> HIDE DEF k, Image
    <3>2. QED
        BY <1>4, <3>1, FS_Surjection
  <2>2. Image(m) \ {h[x]} = Image(r)
    BY <1>4
  <2>3. QED
    BY <1>4, <2>1, <2>2
<1>8. SumFunctionOnSet(g, Image(m)) = g[h[x]] + SumFunctionOnSet(g, Image(r))
  <2> HIDE DEF Image, r, x, B
  <2>1. SumFunctionOnSet(g, Image(m)) = g[h[x]] + SumFunctionOnSet(g, Image(m) \ {h[x]})
    BY <1>7, SumRemove
  <2>2. QED
    BY <1>7, <2>1, Zenon
<1>9. f[x] = g[h[x]]
    BY <1>4
<1>10. SumFunctionOnSet(f, m) # SumFunctionOnSet(g, Image(m))
    OBVIOUS
<1>11. QED
    BY <1>5, <1>6, <1>8, <1>9, <1>10, Zenon

------------------------------------------------------------------------------
(* A finite set of integers has a largest element.                         *)
LEMMA LargestElement ==
    ASSUME NEW S, IsFiniteSet(S), S \subseteq Int, S # {}
    PROVE  \E x \in S : \A y \in S : x >= y
<1> DEFINE B == {T \in SUBSET S : T # {} /\ ~ \E x \in T : \A y \in T : x >= y}
<1>1. SUFFICES ASSUME B # {} PROVE FALSE
    OBVIOUS
<1>2. PICK m \in B : \A n \in B : n \subseteq m => n = m
  <2>1. B \in SUBSET (SUBSET S)
    OBVIOUS
  <2> HIDE DEF B
  <2>2. QED
    BY ONLY <1>1, <2>1, SmallestSet, IsFiniteSet(S)
<1>3. PICK x \in m : TRUE
    OBVIOUS
<1>4. m \ {x} \in SUBSET S /\ m \ {x} # m
    BY <1>3
<1>5. m \ {x} # {}
    BY <1>3
<1>6. PICK y \in m \ {x} : \A z \in m \ {x} : y >= z
    BY <1>2, <1>4, <1>5
<1>7. \A z \in m : z = x \/ y >= z
    BY <1>6
<1>8. \E w \in m : \A z \in m : w >= z
  <2>1. CASE x >= y
    BY <1>3, <1>6, <1>7, <2>1
  <2>2. CASE ~(x >= y)
    BY <1>3, <1>6, <1>7, <2>2
  <2>3. QED
    BY <2>1, <2>2
<1>9. QED
    BY <1>8
==============================================================================

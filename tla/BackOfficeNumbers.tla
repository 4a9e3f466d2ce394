------------------------- MODULE BackOfficeNumbers ----------------------------
(***************************************************************************)
(* Proofs about the back office, first half: the components that add up    *)
(* what their rows say - Administrators (the rates of the commission),     *)
(* Interactions (the unread counts), ProjectRating (the scores) and        *)
(* Commission (the amounts) - for all constants that satisfy the           *)
(* assumptions of BackOffice.                                              *)
(*                                                                         *)
(* The library's fold takes the elements of a set in an order it chooses.  *)
(* That a sum does not depend on it is shown by induction over the set of  *)
(* the subsets for which it is known, so that no theorem with an operator  *)
(* for a parameter is needed. From it: a table has one total, by rows or   *)
(* by columns; a change of one number changes the sum by the difference; a *)
(* number that moves from one sum to another leaves the total alone; and   *)
(* numbers that are rounded one by one add up to what is as near as there  *)
(* are numbers.                                                            *)
(***************************************************************************)
EXTENDS BackOffice, FiniteSetsExt, FiniteSetTheorems, SequenceTheorems, TLAPS

-----------------------------------------------------------------------------
(* Sums over finite sets.  The library's principles of induction take an   *)
(* operator as a parameter; these take the set of what has been shown.     *)

LEMMA NaturalsUpwards ==
  ASSUME NEW G \in SUBSET Nat, 0 \in G, \A n \in G : n + 1 \in G
  PROVE  G = Nat
<1> SUFFICES ASSUME Nat \ G # {} PROVE FALSE
  OBVIOUS
<1> DEFINE B == Nat \ G
<1>1. PICK n \in B : \A m \in B : ~ (<<m, n>> \in OpToRel(<, Nat))
  BY NatLessThanWellFounded, WFMin, Zenon
<1>2. n \in Nat /\ n # 0 /\ n - 1 \in Nat /\ n - 1 < n /\ (n - 1) + 1 = n
  OBVIOUS
<1>3. n - 1 \notin G
  BY <1>2
<1>4. <<n - 1, n>> \in OpToRel(<, Nat)
  BY <1>2, Zenon DEF OpToRel
<1>5. n - 1 \in B
  BY <1>2, <1>3
<1> QED
  BY <1>1, <1>4, <1>5, Zenon

\* Induction over a finite set: what holds of the empty set, and of every subset
\* with one more element, holds of the set.  All the sums below rest on it.
LEMMA FiniteSetsUpwards ==
  ASSUME NEW S, IsFiniteSet(S), NEW G, {} \in G,
         \A T \in SUBSET S, x \in S : T \in G /\ x \notin T => T \cup {x} \in G
  PROVE  S \in G
<1> DEFINE N == {n \in Nat : \A T \in SUBSET S : Cardinality(T) = n => T \in G}
<1>1. \A T \in SUBSET S : IsFiniteSet(T) /\ Cardinality(T) \in Nat
  BY FS_Subset, FS_CardinalityType
<1>2. 0 \in N
  BY <1>1, FS_EmptySet
<1>3. ASSUME NEW n \in N PROVE n + 1 \in N
  <2> SUFFICES ASSUME NEW T \in SUBSET S, Cardinality(T) = n + 1 PROVE T \in G
    OBVIOUS
  <2>0. n \in Nat /\ n + 1 # 0 /\ (n + 1) - 1 = n
    OBVIOUS
  <2>1. T # {}
    BY <2>0, FS_EmptySet
  <2>2. PICK x \in T : TRUE
    BY <2>1
  <2>3. T \ {x} \in SUBSET S /\ Cardinality(T \ {x}) = n
    BY <1>1, <2>0, <2>2, FS_RemoveElement
  <2>4. T \ {x} \in G
    BY <2>3
  <2>5. T = (T \ {x}) \cup {x}
    BY <2>2
  <2> QED
    BY <2>2, <2>3, <2>4, <2>5
<1> HIDE DEF N
<1>4. N = Nat
  <2>1. N \in SUBSET Nat
    BY DEF N
  <2> QED
    BY <1>2, <1>3, <2>1, NaturalsUpwards
<1> QED
  BY <1>1, <1>4 DEF N

\* What a sum over s starts with, and what it continues with.
Chosen(s) == CHOOSE x \in s : TRUE
SumStep(f, g, s) == IF s = {} THEN 0 ELSE f[Chosen(s)] + g[s \ {Chosen(s)}]
Summing(f, D, g) == g = [s \in D |-> SumStep(f, g, s)]
Summed(f, S) == CHOOSE g : Summing(f, SUBSET S, g)

LEMMA SumIs ==
  ASSUME NEW f, NEW S
  PROVE  SumFunctionOnSet(f, S) = Summed(f, S)[S]
BY DEF SumFunctionOnSet, FoldFunctionOnSet, MapThenFoldSet, Summed, SumStep, Chosen, Summing

LEMMA ChosenIsIn ==
  ASSUME NEW s, s # {}
  PROVE  Chosen(s) \in s
BY DEF Chosen

\* The function that the sum is computed with exists.
LEMMA SumExists ==
  ASSUME NEW f, NEW S, IsFiniteSet(S)
  PROVE  Summing(f, SUBSET S, Summed(f, S))
<1> DEFINE D(n) == {s \in SUBSET S : Cardinality(s) <= n}
           N == {n \in Nat : \E g : Summing(f, D(n), g)}
<1>1. \A s \in SUBSET S : IsFiniteSet(s) /\ Cardinality(s) \in Nat
  BY FS_Subset, FS_CardinalityType
<1>2. 0 \in N
  <2>1. D(0) = {{}}
    BY <1>1, FS_EmptySet
  <2> DEFINE g == [s \in {{}} |-> 0]
  <2>2. g = [s \in {{}} |-> SumStep(f, g, s)]
    BY DEF SumStep
  <2> QED
    BY <2>1, <2>2 DEF Summing
<1>3. ASSUME NEW n \in N PROVE n + 1 \in N
  <2>1. n \in Nat
    OBVIOUS
  <2>2. PICK g : Summing(f, D(n), g)
    OBVIOUS
  <2> DEFINE h == [s \in D(n + 1) |-> SumStep(f, g, s)]
  <2>3. \A s \in D(n) : s \in D(n + 1) /\ h[s] = g[s]
    <3>1. \A s \in D(n) : s \in D(n + 1)
      BY <1>1, <2>1
    <3>2. \A s \in D(n) : g[s] = SumStep(f, g, s)
      BY <2>2 DEF Summing
    <3> QED
      BY <3>1, <3>2
  <2>4. ASSUME NEW s \in D(n + 1) PROVE SumStep(f, g, s) = SumStep(f, h, s)
    <3>1. CASE s = {}
      BY <3>1 DEF SumStep
    <3>2. CASE s # {}
      <4>1. Chosen(s) \in s
        BY <3>2, ChosenIsIn
      <4>2. Cardinality(s) \in Nat /\ Cardinality(s) <= n + 1 /\ Cardinality(s \ {Chosen(s)}) = Cardinality(s) - 1
        BY <1>1, <4>1, FS_RemoveElement
      <4>3. s \ {Chosen(s)} \in D(n)
        BY <2>1, <4>2
      <4> QED
        BY <2>3, <4>3 DEF SumStep
    <3> QED
      BY <3>1, <3>2
  <2>5. Summing(f, D(n + 1), h)
    BY <2>4 DEF Summing
  <2> HIDE DEF D, h
  <2>6. \E g1 : Summing(f, D(n + 1), g1)
    BY <2>5
  <2> QED
    BY <2>1, <2>6
<1>4. Cardinality(S) \in N
  <2> HIDE DEF N
  <2>1. N \in SUBSET Nat
    BY DEF N
  <2>2. N = Nat
    BY <1>2, <1>3, <2>1, NaturalsUpwards
  <2> QED
    BY <1>1, <2>2
<1>5. D(Cardinality(S)) = SUBSET S
  BY <1>1, FS_Subset
<1>6. \E g : Summing(f, SUBSET S, g)
  BY <1>4, <1>5
<1> QED
  BY <1>6 DEF Summed

LEMMA SumEquations ==
  ASSUME NEW f, NEW S, IsFiniteSet(S), NEW s \in SUBSET S
  PROVE  Summed(f, S)[s] = SumStep(f, Summed(f, S), s)
<1> DEFINE g == Summed(f, S)
<1>1. Summing(f, SUBSET S, g)
  BY SumExists
<1> HIDE DEF g
<1>2. g[s] = SumStep(f, g, s)
  BY <1>1 DEF Summing
<1> QED
  BY <1>2 DEF g

\* Within a larger set the sum over s is the same.
LEMMA SumWithin ==
  ASSUME NEW f, NEW S, IsFiniteSet(S), NEW s \in SUBSET S
  PROVE  Summed(f, S)[s] = SumFunctionOnSet(f, s)
<1> DEFINE N == {n \in Nat : \A t \in SUBSET s : Cardinality(t) = n => Summed(f, S)[t] = Summed(f, s)[t]}
<1>0. IsFiniteSet(s)
  BY FS_Subset
<1>1. \A t \in SUBSET s : IsFiniteSet(t) /\ Cardinality(t) \in Nat
  BY <1>0, FS_Subset, FS_CardinalityType
<1>2. \A t \in SUBSET s : /\ Summed(f, S)[t] = SumStep(f, Summed(f, S), t)
                          /\ Summed(f, s)[t] = SumStep(f, Summed(f, s), t)
  BY <1>0, SumEquations
<1>3. 0 \in N
  BY <1>1, <1>2, FS_EmptySet DEF SumStep
<1>4. ASSUME NEW n \in N PROVE n + 1 \in N
  <2> SUFFICES ASSUME NEW t \in SUBSET s, Cardinality(t) = n + 1
               PROVE  Summed(f, S)[t] = Summed(f, s)[t]
    OBVIOUS
  <2>1. n \in Nat /\ t # {}
    BY FS_EmptySet
  <2>2. Chosen(t) \in t
    BY <2>1, ChosenIsIn
  <2>3. t \ {Chosen(t)} \in SUBSET s /\ Cardinality(t \ {Chosen(t)}) = n
    BY <1>1, <2>1, <2>2, FS_RemoveElement
  <2>4. Summed(f, S)[t \ {Chosen(t)}] = Summed(f, s)[t \ {Chosen(t)}]
    BY <2>3
  <2> QED
    BY <1>2, <2>4 DEF SumStep
<1>5. Cardinality(s) \in N
  <2> HIDE DEF N
  <2>1. N \in SUBSET Nat
    BY DEF N
  <2>2. N = Nat
    BY <1>3, <1>4, <2>1, NaturalsUpwards
  <2> QED
    BY <1>1, <2>2
<1> QED
  BY <1>5, SumIs

\* The sum over nothing, and how a sum is computed.
LEMMA SumUnfolds ==
  ASSUME NEW f, NEW S, IsFiniteSet(S)
  PROVE  /\ S = {} => SumFunctionOnSet(f, S) = 0
         /\ S # {} => /\ Chosen(S) \in S
                      /\ SumFunctionOnSet(f, S) = f[Chosen(S)] + SumFunctionOnSet(f, S \ {Chosen(S)})
<1>1. Summed(f, S)[S] = SumStep(f, Summed(f, S), S)
  BY SumEquations
<1>2. SumFunctionOnSet(f, S) = Summed(f, S)[S]
  BY SumIs
<1>3. S \ {Chosen(S)} \in SUBSET S
  OBVIOUS
<1>4. Summed(f, S)[S \ {Chosen(S)}] = SumFunctionOnSet(f, S \ {Chosen(S)})
  BY <1>3, SumWithin
<1> QED
  BY <1>1, <1>2, <1>4, ChosenIsIn DEF SumStep

\* A sum of integers is one.
LEMMA SumIsInt ==
  ASSUME NEW f, NEW S, IsFiniteSet(S), \A x \in S : f[x] \in Int
  PROVE  SumFunctionOnSet(f, S) \in Int
<1> DEFINE N == {n \in Nat : \A T \in SUBSET S : Cardinality(T) = n => SumFunctionOnSet(f, T) \in Int}
<1>1. \A T \in SUBSET S : IsFiniteSet(T) /\ Cardinality(T) \in Nat
  BY FS_Subset, FS_CardinalityType
<1>2. 0 \in N
  <2>1. \A T \in SUBSET S : Cardinality(T) = 0 => T = {}
    BY <1>1, FS_EmptySet
  <2>2. SumFunctionOnSet(f, {}) = 0
    BY FS_EmptySet, SumUnfolds
  <2> QED
    BY <2>1, <2>2
<1>3. ASSUME NEW n \in N PROVE n + 1 \in N
  <2> SUFFICES ASSUME NEW T \in SUBSET S, Cardinality(T) = n + 1
               PROVE  SumFunctionOnSet(f, T) \in Int
    OBVIOUS
  <2>0. n \in Nat /\ n + 1 # 0 /\ (n + 1) - 1 = n
    OBVIOUS
  <2>1. T # {}
    BY <2>0, FS_EmptySet
  <2>2. /\ Chosen(T) \in T
        /\ SumFunctionOnSet(f, T) = f[Chosen(T)] + SumFunctionOnSet(f, T \ {Chosen(T)})
    BY <1>1, <2>1, SumUnfolds
  <2>3. T \ {Chosen(T)} \in SUBSET S /\ Cardinality(T \ {Chosen(T)}) = n
    BY <1>1, <2>0, <2>2, FS_RemoveElement
  <2>4. SumFunctionOnSet(f, T \ {Chosen(T)}) \in Int
    BY <2>3
  <2>5. f[Chosen(T)] \in Int
    BY <2>2
  <2> QED
    BY <2>2, <2>4, <2>5
<1>4. N = Nat
  <2> HIDE DEF N
  <2>1. N \in SUBSET Nat
    BY DEF N
  <2> QED
    BY <1>2, <1>3, <2>1, NaturalsUpwards
<1> QED
  BY <1>1, <1>4

\* Any element can be counted first.
LEMMA SumTakesOut ==
  ASSUME NEW f, NEW S, IsFiniteSet(S), \A x \in S : f[x] \in Int, NEW e \in S
  PROVE  SumFunctionOnSet(f, S) = f[e] + SumFunctionOnSet(f, S \ {e})
<1> DEFINE Sum(T) == SumFunctionOnSet(f, T)
           N == {n \in Nat : \A T \in SUBSET S : Cardinality(T) = n => \A x \in T : Sum(T) = f[x] + Sum(T \ {x})}
<1>1. \A T \in SUBSET S : IsFiniteSet(T) /\ Cardinality(T) \in Nat
  BY FS_Subset, FS_CardinalityType
<1>2. \A T \in SUBSET S : Sum(T) \in Int
  BY <1>1, SumIsInt
<1>3. \A T \in SUBSET S : T # {} => Chosen(T) \in T /\ Sum(T) = f[Chosen(T)] + Sum(T \ {Chosen(T)})
  BY <1>1, SumUnfolds
<1> HIDE DEF Sum
<1>4. 0 \in N
  BY <1>1, FS_EmptySet
<1>5. ASSUME NEW n \in N PROVE n + 1 \in N
  <2> SUFFICES ASSUME NEW T \in SUBSET S, Cardinality(T) = n + 1, NEW x \in T
               PROVE  Sum(T) = f[x] + Sum(T \ {x})
    OBVIOUS
  <2> DEFINE c == Chosen(T)
  <2>0. n \in Nat /\ (n + 1) - 1 = n
    OBVIOUS
  <2>1. c \in T /\ Sum(T) = f[c] + Sum(T \ {c})
    BY <1>3
  <2> HIDE DEF c
  <2>2. CASE x = c
    BY <2>1, <2>2
  <2>3. CASE x # c
    <3>1. /\ T \ {c} \in SUBSET S /\ Cardinality(T \ {c}) = n /\ x \in T \ {c}
          /\ T \ {x} \in SUBSET S /\ Cardinality(T \ {x}) = n /\ c \in T \ {x}
      BY <1>1, <2>0, <2>1, <2>3, FS_RemoveElement
    <3>2. /\ Sum(T \ {c}) = f[x] + Sum((T \ {c}) \ {x})
          /\ Sum(T \ {x}) = f[c] + Sum((T \ {x}) \ {c})
      BY <3>1
    <3>3. (T \ {c}) \ {x} = (T \ {x}) \ {c} /\ (T \ {c}) \ {x} \in SUBSET S
      OBVIOUS
    <3>4. Sum((T \ {c}) \ {x}) \in Int /\ f[x] \in Int /\ f[c] \in Int
      BY <1>2, <2>1, <3>3
    <3> DEFINE a == f[c]
               b == f[x]
               r == Sum((T \ {c}) \ {x})
    <3>5. Sum(T) = a + (b + r) /\ Sum(T \ {x}) = a + r
      BY <2>1, <3>2, <3>3
    <3>6. a \in Int /\ b \in Int /\ r \in Int
      BY <3>4
    <3> HIDE DEF a, r
    <3>7. Sum(T) = b + Sum(T \ {x})
      <4> HIDE DEF b
      <4> QED
        BY <3>5, <3>6
    <3> QED
      BY <3>7
  <2> QED
    BY <2>2, <2>3
<1>6. N = Nat
  <2> HIDE DEF N
  <2>1. N \in SUBSET Nat
    BY DEF N
  <2> QED
    BY <1>4, <1>5, <2>1, NaturalsUpwards
<1> QED
  BY <1>1, <1>6 DEF Sum

\* A sum of natural numbers is one.
LEMMA SumIsNat ==
  ASSUME NEW f, NEW S, IsFiniteSet(S), \A x \in S : f[x] \in Nat
  PROVE  SumFunctionOnSet(f, S) \in Nat
<1> DEFINE N == {n \in Nat : \A T \in SUBSET S : Cardinality(T) = n => SumFunctionOnSet(f, T) \in Nat}
<1>1. \A T \in SUBSET S : IsFiniteSet(T) /\ Cardinality(T) \in Nat
  BY FS_Subset, FS_CardinalityType
<1>2. 0 \in N
  <2>1. \A T \in SUBSET S : Cardinality(T) = 0 => T = {}
    BY <1>1, FS_EmptySet
  <2>2. SumFunctionOnSet(f, {}) = 0
    BY FS_EmptySet, SumUnfolds
  <2> QED
    BY <2>1, <2>2
<1>3. ASSUME NEW n \in N PROVE n + 1 \in N
  <2> SUFFICES ASSUME NEW T \in SUBSET S, Cardinality(T) = n + 1
               PROVE  SumFunctionOnSet(f, T) \in Nat
    OBVIOUS
  <2>0. n \in Nat /\ n + 1 # 0 /\ (n + 1) - 1 = n
    OBVIOUS
  <2>1. T # {}
    BY <2>0, FS_EmptySet
  <2>2. /\ Chosen(T) \in T
        /\ SumFunctionOnSet(f, T) = f[Chosen(T)] + SumFunctionOnSet(f, T \ {Chosen(T)})
    BY <1>1, <2>1, SumUnfolds
  <2>3. T \ {Chosen(T)} \in SUBSET S /\ Cardinality(T \ {Chosen(T)}) = n
    BY <1>1, <2>0, <2>2, FS_RemoveElement
  <2>4. SumFunctionOnSet(f, T \ {Chosen(T)}) \in Nat
    BY <2>3
  <2>5. f[Chosen(T)] \in Nat
    BY <2>2
  <2> QED
    BY <2>2, <2>4, <2>5
<1>4. N = Nat
  <2> HIDE DEF N
  <2>1. N \in SUBSET Nat
    BY DEF N
  <2> QED
    BY <1>2, <1>3, <2>1, NaturalsUpwards
<1> QED
  BY <1>1, <1>4

LEMMA SumWithout ==
  ASSUME NEW f, NEW S, IsFiniteSet(S), \A x \in S : f[x] \in Nat, NEW e \in S
  PROVE  SumFunctionOnSet(f, S) = f[e] + SumFunctionOnSet(f, S \ {e})
<1>1. \A x \in S : f[x] \in Int
  OBVIOUS
<1> QED
  BY <1>1, SumTakesOut

LEMMA SumWith ==
  ASSUME NEW f, NEW S, IsFiniteSet(S), NEW e, e \notin S, \A x \in S \cup {e} : f[x] \in Nat
  PROVE  SumFunctionOnSet(f, S \cup {e}) = f[e] + SumFunctionOnSet(f, S)
<1>1. IsFiniteSet(S \cup {e}) /\ (S \cup {e}) \ {e} = S /\ e \in S \cup {e}
  BY FS_AddElement
<1> QED
  BY <1>1, SumWithout

\* No element exceeds the sum.
LEMMA SumBounds ==
  ASSUME NEW f, NEW S, IsFiniteSet(S), \A x \in S : f[x] \in Nat, NEW e \in S
  PROVE  f[e] <= SumFunctionOnSet(f, S)
<1>1. SumFunctionOnSet(f, S \ {e}) \in Nat
  BY SumIsNat, FS_Subset
<1> QED
  BY <1>1, SumWithout

\* Sums of equal numbers are equal, and greater sums are those of greater numbers.
LEMMA SumSame ==
  ASSUME NEW f, NEW g, NEW S, IsFiniteSet(S), \A x \in S : f[x] \in Nat /\ f[x] = g[x]
  PROVE  SumFunctionOnSet(f, S) = SumFunctionOnSet(g, S)
<1> DEFINE G == {T \in SUBSET S : SumFunctionOnSet(f, T) = SumFunctionOnSet(g, T)}
<1>1. {} \in G
  BY FS_EmptySet, SumUnfolds
<1>2. ASSUME NEW T \in SUBSET S, NEW x \in S, T \in G, x \notin T PROVE T \cup {x} \in G
  <2>1. IsFiniteSet(T) /\ T \cup {x} \in SUBSET S
    BY FS_Subset
  <2>2. /\ SumFunctionOnSet(f, T \cup {x}) = f[x] + SumFunctionOnSet(f, T)
        /\ SumFunctionOnSet(g, T \cup {x}) = g[x] + SumFunctionOnSet(g, T)
    BY <1>2, <2>1, SumWith
  <2> QED
    BY <1>2, <2>1, <2>2
<1> HIDE DEF G
<1>3. S \in G
  BY <1>1, <1>2, FiniteSetsUpwards
<1> QED
  BY <1>3 DEF G

LEMMA SumAdds ==
  ASSUME NEW f, NEW g, NEW h, NEW S, IsFiniteSet(S),
         \A x \in S : f[x] \in Nat /\ g[x] \in Nat /\ h[x] = f[x] + g[x]
  PROVE  SumFunctionOnSet(h, S) = SumFunctionOnSet(f, S) + SumFunctionOnSet(g, S)
<1> DEFINE G == {T \in SUBSET S : SumFunctionOnSet(h, T) = SumFunctionOnSet(f, T) + SumFunctionOnSet(g, T)}
<1>1. {} \in G
  <2>1. SumFunctionOnSet(f, {}) = 0 /\ SumFunctionOnSet(g, {}) = 0 /\ SumFunctionOnSet(h, {}) = 0
    BY FS_EmptySet, SumUnfolds
  <2> QED
    BY <2>1
<1>2. ASSUME NEW T \in SUBSET S, NEW x \in S, T \in G, x \notin T PROVE T \cup {x} \in G
  <2>1. IsFiniteSet(T) /\ T \cup {x} \in SUBSET S
    BY FS_Subset
  <2>2. \A y \in S : h[y] \in Nat
    OBVIOUS
  <2>3. /\ SumFunctionOnSet(f, T \cup {x}) = f[x] + SumFunctionOnSet(f, T)
        /\ SumFunctionOnSet(g, T \cup {x}) = g[x] + SumFunctionOnSet(g, T)
        /\ SumFunctionOnSet(h, T \cup {x}) = h[x] + SumFunctionOnSet(h, T)
    BY <1>2, <2>1, <2>2, SumWith
  <2>4. SumFunctionOnSet(f, T) \in Nat /\ SumFunctionOnSet(g, T) \in Nat
    BY <2>1, SumIsNat
  <2> QED
    BY <1>2, <2>1, <2>3, <2>4
<1> HIDE DEF G
<1>3. S \in G
  BY <1>1, <1>2, FiniteSetsUpwards
<1> QED
  BY <1>3 DEF G

\* A table by rows and by columns, and the sums r of its rows and c of its columns.
SumTable(rows, columns, r, c, S, K) ==
  /\ IsFiniteSet(S) /\ IsFiniteSet(K)
  /\ \A x \in S, k \in K : rows[x][k] \in Nat /\ columns[k][x] = rows[x][k]
  /\ \A x \in S : r[x] = SumFunctionOnSet(rows[x], K)
  /\ \A k \in K : c[k] = SumFunctionOnSet(columns[k], S)

\* Rows and columns add up to the same: why the badge of a user who owns several
\* targets is the sum over its kinds as well as the sum over its targets.
LEMMA SumByRows ==
  ASSUME NEW rows, NEW columns, NEW r, NEW c, NEW S, NEW K, SumTable(rows, columns, r, c, S, K)
  PROVE  SumFunctionOnSet(r, S) = SumFunctionOnSet(c, K)
<1> /\ IsFiniteSet(S) /\ IsFiniteSet(K)
    /\ \A x \in S, k \in K : rows[x][k] \in Nat /\ columns[k][x] = rows[x][k]
    /\ \A x \in S : r[x] = SumFunctionOnSet(rows[x], K)
    /\ \A k \in K : c[k] = SumFunctionOnSet(columns[k], S)
  BY DEF SumTable
<1> DEFINE Part(T) == [k \in K |-> SumFunctionOnSet(columns[k], T)]
           G == {T \in SUBSET S : SumFunctionOnSet(r, T) = SumFunctionOnSet(Part(T), K)}
<1>0. \A T \in SUBSET S : IsFiniteSet(T)
  BY FS_Subset
<1>1. \A x \in S : r[x] \in Nat
  BY SumIsNat
<1>2. \A T \in SUBSET S, k \in K : Part(T)[k] \in Nat
  <2> SUFFICES ASSUME NEW T \in SUBSET S, NEW k \in K PROVE SumFunctionOnSet(columns[k], T) \in Nat
    OBVIOUS
  <2> QED
    BY <1>0, SumIsNat
<1>3. {} \in G
  <2>1. SumFunctionOnSet(r, {}) = 0 /\ \A k \in K : Part({})[k] = 0
    BY FS_EmptySet, SumUnfolds
  <2> DEFINE zero == Part({})
  <2> HIDE DEF zero
  <2>2. \A k \in K : zero[k] = 0
    BY <2>1 DEF zero
  <2> DEFINE H == {T \in SUBSET K : SumFunctionOnSet(zero, T) = 0}
  <2>3. {} \in H
    BY FS_EmptySet, SumUnfolds
  <2>4. ASSUME NEW T \in SUBSET K, NEW k \in K, T \in H, k \notin T PROVE T \cup {k} \in H
    <3>1. IsFiniteSet(T) /\ \A y \in T \cup {k} : zero[y] \in Nat
      BY <2>2, FS_Subset
    <3>2. SumFunctionOnSet(zero, T \cup {k}) = zero[k] + SumFunctionOnSet(zero, T)
      BY <2>4, <3>1, SumWith
    <3> QED
      BY <2>2, <2>4, <3>2
  <2> HIDE DEF H
  <2>5. K \in H
    BY <2>3, <2>4, FiniteSetsUpwards
  <2> QED
    BY <2>1, <2>5 DEF H, zero
<1>4. ASSUME NEW T \in SUBSET S, NEW x \in S, T \in G, x \notin T PROVE T \cup {x} \in G
  <2>1. IsFiniteSet(T) /\ T \cup {x} \in SUBSET S /\ \A y \in T \cup {x} : y \in S
    BY <1>0
  <2> DEFINE p == Part(T)
             ofX == rows[x]
             q == Part(T \cup {x})
  <2>2. SumFunctionOnSet(r, T \cup {x}) = SumFunctionOnSet(ofX, K) + SumFunctionOnSet(r, T)
    <3>1. SumFunctionOnSet(r, T \cup {x}) = r[x] + SumFunctionOnSet(r, T)
      BY <1>1, <1>4, <2>1, SumWith
    <3> QED
      BY <3>1
  <2>3. \A k \in K : q[k] = ofX[k] + p[k]
    <3> SUFFICES ASSUME NEW k \in K PROVE q[k] = ofX[k] + p[k]
      OBVIOUS
    <3> DEFINE col == columns[k]
    <3>1. /\ \A y \in T \cup {x} : col[y] \in Nat
          /\ col[x] = ofX[k]
      BY <2>1
    <3> HIDE DEF col
    <3>2. SumFunctionOnSet(col, T \cup {x}) = col[x] + SumFunctionOnSet(col, T)
      BY <1>4, <2>1, <3>1, SumWith
    <3> QED
      BY <3>1, <3>2 DEF col
  <2>4. \A k \in K : ofX[k] \in Nat /\ p[k] \in Nat /\ q[k] = ofX[k] + p[k]
    BY <1>2, <2>3
  <2>5. SumFunctionOnSet(r, T) = SumFunctionOnSet(p, K)
    BY <1>4
  <2> HIDE DEF p, ofX, q
  <2>6. SumFunctionOnSet(q, K) = SumFunctionOnSet(ofX, K) + SumFunctionOnSet(p, K)
    BY <2>4, SumAdds
  <2>7. SumFunctionOnSet(r, T \cup {x}) = SumFunctionOnSet(q, K)
    BY <2>2, <2>5, <2>6
  <2> QED
    BY <2>1, <2>7 DEF q
<1> DEFINE parts == Part(S)
<1>5. \A k \in K : parts[k] \in Nat /\ parts[k] = c[k]
  BY <1>2
<1>6. S \in G
  <2> HIDE DEF G
  <2> QED
    BY <1>3, <1>4, FiniteSetsUpwards
<1>7. SumFunctionOnSet(r, S) = SumFunctionOnSet(parts, K)
  BY <1>6
<1> HIDE DEF parts
<1> QED
  BY <1>5, <1>7, SumSame

\* Rounding half up is exact but for a half.
LEMMA RoundsHalfUp ==
  ASSUME NEW x \in Nat, NEW d \in Nat \ {0}
  PROVE  /\ (2 * x + d) \div (2 * d) \in Nat
         /\ 2 * d * ((2 * x + d) \div (2 * d)) - 2 * x <= d
         /\ 2 * x - 2 * d * ((2 * x + d) \div (2 * d)) <= d
<1> DEFINE a == 2 * x + d
           b == 2 * d
           q == a \div b
<1>1. a \in Nat /\ b \in Nat \ {0} /\ a - d = 2 * x /\ b - d = d
  OBVIOUS
<1>2. ASSUME NEW y \in Nat, NEW z \in Nat \ {0}
      PROVE  y \div z \in Nat /\ z * (y \div z) <= y /\ y < z * (y \div z) + z
  OBVIOUS
<1> HIDE DEF a, b
<1>3. q \in Nat /\ b * q <= a /\ a < b * q + b
  BY <1>1, <1>2
<1>4. b * q \in Nat
  BY <1>1, <1>3
<1> HIDE DEF q
<1>5. b * q - 2 * x <= d /\ 2 * x - b * q <= d
  <2> DEFINE m == b * q
  <2>1. m \in Nat /\ m <= a /\ a < m + b
    BY <1>3, <1>4
  <2> HIDE DEF m
  <2>2. m - 2 * x <= d /\ 2 * x - m <= d
    BY <1>1, <2>1
  <2> QED
    BY <2>2 DEF m
<1> QED
  BY <1>3, <1>5 DEF a, b, q

\* A factor can be taken out of a sum.
LEMMA SumScales ==
  ASSUME NEW f, NEW g, NEW S, IsFiniteSet(S), NEW k \in Int,
         \A x \in S : f[x] \in Int /\ g[x] = k * f[x]
  PROVE  SumFunctionOnSet(g, S) = k * SumFunctionOnSet(f, S)
<1> DEFINE G == {T \in SUBSET S : SumFunctionOnSet(g, T) = k * SumFunctionOnSet(f, T)}
<1>1. {} \in G
  <2>1. SumFunctionOnSet(f, {}) = 0 /\ SumFunctionOnSet(g, {}) = 0
    BY FS_EmptySet, SumUnfolds
  <2> QED
    BY <2>1
<1>2. ASSUME NEW T \in SUBSET S, NEW x \in S, T \in G, x \notin T PROVE T \cup {x} \in G
  <2>1. IsFiniteSet(T \cup {x}) /\ IsFiniteSet(T) /\ (T \cup {x}) \ {x} = T
    BY <1>2, FS_Subset
  <2>2. \A y \in T \cup {x} : f[y] \in Int /\ g[y] \in Int
    OBVIOUS
  <2>3. /\ SumFunctionOnSet(f, T \cup {x}) = f[x] + SumFunctionOnSet(f, T)
        /\ SumFunctionOnSet(g, T \cup {x}) = g[x] + SumFunctionOnSet(g, T)
    BY <2>1, <2>2, SumTakesOut
  <2>4. SumFunctionOnSet(f, T) \in Int
    BY <2>1, SumIsInt
  <2> DEFINE a == f[x]
             b == SumFunctionOnSet(f, T)
  <2>5. a \in Int /\ b \in Int /\ g[x] = k * a /\ SumFunctionOnSet(g, T) = k * b
    BY <1>2, <2>4
  <2>6. SumFunctionOnSet(g, T \cup {x}) = k * a + k * b /\ SumFunctionOnSet(f, T \cup {x}) = a + b
    BY <2>3, <2>5
  <2> HIDE DEF a, b
  <2>7. k * a + k * b = k * (a + b)
    BY <2>5
  <2> QED
    BY <2>6, <2>7
<1>3. S \in G
  <2> HIDE DEF G
  <2> QED
    BY <1>1, <1>2, FiniteSetsUpwards
<1> QED
  BY <1>3

\* Sums of numbers that are near are as near as there are numbers.
LEMMA SumNear ==
  ASSUME NEW f, NEW g, NEW S, IsFiniteSet(S), NEW d \in Nat,
         \A x \in S : f[x] \in Int /\ g[x] \in Int /\ f[x] - g[x] <= d /\ g[x] - f[x] <= d
  PROVE  /\ SumFunctionOnSet(f, S) - SumFunctionOnSet(g, S) <= d * Cardinality(S)
         /\ SumFunctionOnSet(g, S) - SumFunctionOnSet(f, S) <= d * Cardinality(S)
<1> DEFINE Near(T) == /\ SumFunctionOnSet(f, T) - SumFunctionOnSet(g, T) <= d * Cardinality(T)
                      /\ SumFunctionOnSet(g, T) - SumFunctionOnSet(f, T) <= d * Cardinality(T)
           G == {T \in SUBSET S : Near(T)}
<1>1. {} \in G
  <2>1. SumFunctionOnSet(f, {}) = 0 /\ SumFunctionOnSet(g, {}) = 0 /\ Cardinality({}) = 0
    BY FS_EmptySet, SumUnfolds
  <2> QED
    BY <2>1
<1>2. ASSUME NEW T \in SUBSET S, NEW x \in S, T \in G, x \notin T PROVE T \cup {x} \in G
  <2>1. /\ IsFiniteSet(T \cup {x}) /\ IsFiniteSet(T) /\ (T \cup {x}) \ {x} = T
        /\ Cardinality(T) \in Nat /\ Cardinality(T \cup {x}) = Cardinality(T) + 1
    BY <1>2, FS_Subset, FS_AddElement, FS_CardinalityType
  <2>3. /\ SumFunctionOnSet(f, T \cup {x}) = f[x] + SumFunctionOnSet(f, T)
        /\ SumFunctionOnSet(g, T \cup {x}) = g[x] + SumFunctionOnSet(g, T)
    BY <2>1, SumTakesOut
  <2>4. SumFunctionOnSet(f, T) \in Int /\ SumFunctionOnSet(g, T) \in Int
    BY <2>1, SumIsInt
  <2> DEFINE a == f[x]
             b == SumFunctionOnSet(f, T)
             u == g[x]
             v == SumFunctionOnSet(g, T)
             n == Cardinality(T)
             m == d * n
  <2>5. /\ a \in Int /\ b \in Int /\ u \in Int /\ v \in Int /\ n \in Nat /\ m \in Int
        /\ a - u <= d /\ u - a <= d /\ b - v <= m /\ v - b <= m
    BY <1>2, <2>1, <2>4
  <2>6. d * Cardinality(T \cup {x}) = m + d
    BY <2>1
  <2>7. SumFunctionOnSet(f, T \cup {x}) = a + b /\ SumFunctionOnSet(g, T \cup {x}) = u + v
    BY <2>3
  <2> HIDE DEF a, b, u, v, n, m
  <2>8. (a + b) - (u + v) <= m + d /\ (u + v) - (a + b) <= m + d
    BY <2>5
  <2> QED
    BY <2>6, <2>7, <2>8
<1>3. S \in G
  <2> HIDE DEF G
  <2> QED
    BY <1>1, <1>2, FiniteSetsUpwards
<1> QED
  BY <1>3

\* What the members of a family of finite sets hold together, each with its index.
LEMMA SumCounts ==
  ASSUME NEW F, NEW S, IsFiniteSet(S), \A x \in S : IsFiniteSet(F[x])
  PROVE  LET U == UNION {{x} \X F[x] : x \in S}
         IN  IsFiniteSet(U) /\ Cardinality(U) = SumFunctionOnSet([x \in S |-> Cardinality(F[x])], S)
<1> DEFINE U(T) == UNION {{x} \X F[x] : x \in T}
           f == [x \in S |-> Cardinality(F[x])]
           G == {T \in SUBSET S : IsFiniteSet(U(T)) /\ Cardinality(U(T)) = SumFunctionOnSet(f, T)}
<1>1. \A x \in S : f[x] = Cardinality(F[x]) /\ f[x] \in Nat
  BY FS_CardinalityType
<1> HIDE DEF f
<1>2. {} \in G
  <2>1. U({}) = {}
    OBVIOUS
  <2> QED
    BY <2>1, FS_EmptySet, SumUnfolds
<1>3. ASSUME NEW T \in SUBSET S, NEW x \in S, T \in G, x \notin T PROVE T \cup {x} \in G
  <2>1. IsFiniteSet(T) /\ T \cup {x} \in SUBSET S
    BY FS_Subset
  <2>2. SumFunctionOnSet(f, T \cup {x}) = f[x] + SumFunctionOnSet(f, T)
    BY <1>1, <1>3, <2>1, SumWith
  <2>3. U(T \cup {x}) = U(T) \cup ({x} \X F[x])
    OBVIOUS
  <2>4. U(T) \cap ({x} \X F[x]) = {}
    BY <1>3
  <2>5. IsFiniteSet({x} \X F[x]) /\ Cardinality({x} \X F[x]) = f[x]
    <3>1. IsFiniteSet({x}) /\ Cardinality({x}) = 1
      BY FS_Singleton
    <3>2. IsFiniteSet({x} \X F[x]) /\ Cardinality({x} \X F[x]) = 1 * Cardinality(F[x])
      BY <3>1, FS_Product
    <3> QED
      BY <1>1, <3>2
  <2>6. IsFiniteSet(U(T)) /\ Cardinality(U(T)) = SumFunctionOnSet(f, T)
    BY <1>3
  <2> DEFINE A == U(T)
             B == {x} \X F[x]
             C == U(T \cup {x})
  <2>7. /\ IsFiniteSet(A) /\ IsFiniteSet(B) /\ A \cap B = {} /\ C = A \cup B
        /\ Cardinality(B) = f[x] /\ Cardinality(A) = SumFunctionOnSet(f, T)
    BY <2>3, <2>4, <2>5, <2>6
  <2> HIDE DEF A, B, C
  <2>8. /\ IsFiniteSet(C)
        /\ Cardinality(C) = Cardinality(A) + Cardinality(B) - Cardinality(A \cap B)
    BY <2>7, FS_Union
  <2>9. Cardinality(C) = Cardinality(A) + Cardinality(B)
    <3>1. Cardinality(A \cap B) = 0
      BY <2>7, FS_EmptySet
    <3>2. Cardinality(A) \in Nat /\ Cardinality(B) \in Nat
      BY <2>7, FS_CardinalityType
    <3> QED
      BY <2>8, <3>1, <3>2
  <2>10. Cardinality(C) = SumFunctionOnSet(f, T \cup {x})
    BY <1>1, <2>1, <2>2, <2>7, <2>9, FS_CardinalityType
  <2> QED
    BY <2>1, <2>8, <2>10 DEF C
<1> HIDE DEF G
<1>4. S \in G
  BY <1>2, <1>3, FiniteSetsUpwards
<1> QED
  BY <1>4 DEF G, f

-----------------------------------------------------------------------------
(* Administrators.                                                         *)

\* The component counts and adds with the operators of the library.
LEMMA AdminLibrary == \A f : Admin!SumFunction(f) = SumFunction(f)
  BY DEF Admin!SumFunction, Admin!SumFunctionOnSet, Admin!FoldFunctionOnSet, Admin!MapThenFoldSet,
     SumFunction, SumFunctionOnSet, FoldFunctionOnSet, MapThenFoldSet

\* List and detail page agree in every state: the two conditions are the same,
\* case by case of the caller's role.
LEMMA AdminProperties == Admin!ListedIsAdmitted
<1> SUFFICES ASSUME NEW by \in AdminIds, Admin!Authorised(by), NEW t \in AdminIds
             PROVE  t \in Admin!GetAdmin(by) <=> t \in Admin!ListAdmins(by) \/ t = by
  BY DEF Admin!ListedIsAdmitted, Admin!GetAdmin, Admin!ListAdmins, Admin!Listed
<1>0. Admin!Exists(by)
  BY DEF Admin!Authorised
<1>1. t \in Admin!GetAdmin(by) <=> Admin!Exists(t) /\ Admin!canViewAdminDetailInScope(by, t)
  BY DEF Admin!GetAdmin
<1>2. CASE admin[by].role = "super"
  <2>1. t \in Admin!ListAdmins(by) <=> Admin!Exists(t)
    BY <1>2 DEF Admin!ListAdmins, Admin!Listed
  <2> QED
    BY <1>0, <1>1, <1>2, <2>1 DEF Admin!canViewAdminDetailInScope
<1>3. CASE admin[by].role = "schoolSuper"
  <2>1. t \in Admin!ListAdmins(by) <=>
          /\ Admin!Exists(t) /\ Admin!adminSchoolIDs(by) # {}
          /\ t = by \/ (admin[t].role \in {"event", "school"} /\ admin[t].school \in Admin!adminSchoolIDs(by))
    BY <1>3 DEF Admin!ListAdmins, Admin!Listed
  <2>2. Admin!canViewAdminDetailInScope(by, t) <=>
          t = by \/ (admin[t].role \in {"school", "event"} /\ admin[t].school \in Admin!adminSchoolIDs(by))
    BY <1>3 DEF Admin!canViewAdminDetailInScope
  <2> QED
    BY <1>0, <1>1, <2>1, <2>2
<1>4. CASE admin[by].role = "school"
  <2>1. Admin!adminSchoolIDs(by) = {admin[by].school} \ {None}
    BY <1>4 DEF Admin!adminSchoolIDs
  <2>2. t \in Admin!ListAdmins(by) <=>
          /\ Admin!Exists(t) /\ admin[by].school # None
          /\ \/ t = by
             \/ admin[t].role \in {"school", "event"} /\ admin[t].school = admin[by].school
             \/ admin[t].role = "schoolSuper" /\ rel[t][admin[by].school].rate > 0
    BY <1>4, <2>1 DEF Admin!ListAdmins, Admin!Listed
  <2>3. Admin!canViewAdminDetailInScope(by, t) <=>
          \/ t = by
          \/ /\ admin[by].school # None
             /\ admin[t].role \in {"schoolSuper", "school", "event"}
             /\ Admin!adminBelongsToSchool(t, admin[by].school)
    BY <1>4 DEF Admin!canViewAdminDetailInScope
  <2>4. CASE admin[t].role = "schoolSuper"
    BY <1>0, <1>1, <2>2, <2>3, <2>4 DEF Admin!adminBelongsToSchool
  <2>5. CASE admin[t].role # "schoolSuper"
    BY <1>0, <1>1, <2>2, <2>3, <2>5 DEF Admin!adminBelongsToSchool
  <2> QED
    BY <2>4, <2>5
<1>5. CASE admin[by].role \notin {"super", "schoolSuper", "school"}
  <2>1. t \in Admin!ListAdmins(by) <=> Admin!Exists(t) /\ t = by
    BY <1>5 DEF Admin!ListAdmins, Admin!Listed
  <2>2. Admin!canViewAdminDetailInScope(by, t) <=> t = by
    BY <1>5 DEF Admin!canViewAdminDetailInScope
  <2> QED
    BY <1>0, <1>1, <2>1, <2>2
<1> QED
  BY <1>2, <1>3, <1>4, <1>5

LEMMA AdminStarts == Admin!Init => Admin!TypeOK
<1> SUFFICES ASSUME Admin!Init PROVE Admin!TypeOK
  OBVIOUS
<1>1. /\ Admin!Enabled("super") \in Admin!Rows /\ Admin!Enabled("schoolSuper") \in Admin!Rows
      /\ Admin!Share(Whole, TRUE) \in Admin!Relations /\ Admin!NoRel \in Admin!Relations
  BY AdminConstants DEF Admin!Enabled, Admin!Rows, Admin!Roles, Admin!Share, Admin!Relations
<1>2. Admin!NoCall \in Admin!CallRecords /\ 0 \in 0..AdminRequests
  <2>1. Admin!Unbound \in [{} -> 0..Whole]
    BY DEF Admin!Unbound
  <2>2. Admin!Unbound \in Admin!Bindings
    BY <2>1 DEF Admin!Bindings
  <2> QED
    BY <2>2, AdminConstants DEF Admin!NoCall, Admin!CallRecords, Admin!Ops
<1>3. PICK first \in AdminIds \ {Root} :
       /\ admin = [a \in AdminIds |-> CASE a = Root -> Admin!Enabled("super")
                                       [] a = first -> Admin!Enabled("schoolSuper")
                                       [] OTHER -> Admin!NoRow]
       /\ rel = [a \in AdminIds |-> [s \in Campus |-> IF a = first THEN Admin!Share(Whole, TRUE) ELSE Admin!NoRel]]
  BY DEF Admin!Init
<1>4. admin \in [AdminIds -> Admin!Rows \cup {Admin!NoRow}]
  <2>1. \A a \in AdminIds : (CASE a = Root -> Admin!Enabled("super")
                               [] a = first -> Admin!Enabled("schoolSuper")
                               [] OTHER -> Admin!NoRow) \in Admin!Rows \cup {Admin!NoRow}
    BY <1>1, <1>3
  <2> QED
    BY <1>3, <2>1
<1>5. rel \in [AdminIds -> [Campus -> Admin!Relations]]
  BY <1>1, <1>3
<1> QED
  BY <1>2, <1>4, <1>5 DEF Admin!Init, Admin!TypeOK

\* What a request has in mind while it is under way.
LEMMA AdminBegins ==
  ASSUME Admin!TypeOK, NEW c \in Calls, NEW by, NEW r \in Admin!CallRecords, Admin!Begin(c, by, r)
  PROVE  Admin!TypeOK'
<1>1. call' \in [Calls -> Admin!CallRecords] /\ requests' \in 0..AdminRequests /\ UNCHANGED <<admin, rel>>
  BY AdminConstants DEF Admin!Begin, Admin!TypeOK
<1> QED
  BY <1>1 DEF Admin!TypeOK

LEMMA AdminCallRecords ==
  /\ Admin!NoCall \in Admin!CallRecords /\ Admin!Unbound \in Admin!Bindings
  /\ \A op \in Admin!Ops, t \in AdminIds, line \in Admin!Rows \cup {Admin!NoRow}, owned \in Admin!Bindings :
       /\ [op |-> op, to |-> t, row |-> line, owned |-> owned] \in Admin!CallRecords
       /\ [Admin!NoCall EXCEPT !.op = op, !.to = t] \in Admin!CallRecords
       /\ [Admin!NoCall EXCEPT !.op = op, !.to = t, !.row = line] \in Admin!CallRecords
       /\ [Admin!NoCall EXCEPT !.op = op, !.to = t, !.owned = owned] \in Admin!CallRecords
  /\ \A s \in Campus, rate \in 0..Whole : [x \in {s} |-> rate] \in Admin!Bindings
<1>1. Admin!Unbound \in Admin!Bindings
  <2>1. Admin!Unbound \in [{} -> 0..Whole]
    BY DEF Admin!Unbound
  <2> QED
    BY <2>1 DEF Admin!Bindings
<1>2. Admin!NoCall \in Admin!CallRecords
  BY <1>1 DEF Admin!NoCall, Admin!CallRecords, Admin!Ops
<1>3. ASSUME NEW s \in Campus, NEW rate \in 0..Whole PROVE [x \in {s} |-> rate] \in Admin!Bindings
  <2>1. [x \in {s} |-> rate] \in [{s} -> 0..Whole] /\ {s} \in SUBSET Campus
    OBVIOUS
  <2> QED
    BY <2>1 DEF Admin!Bindings
<1>4. \A op \in Admin!Ops, t \in AdminIds, line \in Admin!Rows \cup {Admin!NoRow}, owned \in Admin!Bindings :
       /\ [op |-> op, to |-> t, row |-> line, owned |-> owned] \in Admin!CallRecords
       /\ [Admin!NoCall EXCEPT !.op = op, !.to = t] \in Admin!CallRecords
       /\ [Admin!NoCall EXCEPT !.op = op, !.to = t, !.row = line] \in Admin!CallRecords
       /\ [Admin!NoCall EXCEPT !.op = op, !.to = t, !.owned = owned] \in Admin!CallRecords
  BY <1>1 DEF Admin!CallRecords, Admin!NoCall
<1> QED
  BY <1>1, <1>2, <1>3, <1>4

\* The trigger keeps every share of a school within the whole.
LEMMA AdminTrigger ==
  ASSUME NEW r, NEW S, Admin!TriggerAllows(r, S), NEW s \in S,
         \A a \in AdminIds : r[a][s].rate \in Nat
  PROVE  \A a \in AdminIds : r[a][s].rate \in 0..Whole
<1> DEFINE f == [a \in AdminIds |-> r[a][s].rate]
<1>1. SumFunctionOnSet(f, AdminIds) <= Whole
  BY AdminLibrary DEF Admin!TriggerAllows, Admin!SchoolTotal, SumFunction
<1>2. \A a \in AdminIds : f[a] \in Nat /\ f[a] = r[a][s].rate
  OBVIOUS
<1> HIDE DEF f
<1>3. SumFunctionOnSet(f, AdminIds) \in Nat
  BY <1>2, AdminConstants, SumIsNat
<1>4. \A a \in AdminIds : f[a] <= SumFunctionOnSet(f, AdminIds)
  BY <1>2, AdminConstants, SumBounds
<1> QED
  BY <1>1, <1>2, <1>3, <1>4, AdminConstants

LEMMA AdminRows ==
  /\ \A x \in Admin!Rows \cup {Admin!NoRow} : x.enabled \in BOOLEAN
  /\ \A x \in Admin!Relations : x.rate \in 0..Whole /\ x.owner \in BOOLEAN /\ x.row \in BOOLEAN
  /\ \A x \in Admin!Relations, rate \in 0..Whole : x.row => [x EXCEPT !.rate = rate] \in Admin!Relations
  /\ Admin!Relations \subseteq [rate : Nat, owner : BOOLEAN, row : BOOLEAN]
<1>1. ASSUME NEW x \in Admin!Rows \cup {Admin!NoRow} PROVE x.enabled \in BOOLEAN
  <2>1. CASE x \in Admin!Rows
    BY <2>1 DEF Admin!Rows
  <2>2. CASE x = Admin!NoRow
    BY <2>2 DEF Admin!NoRow
  <2> QED
    BY <2>1, <2>2
<1>2. ASSUME NEW x \in Admin!Relations
      PROVE  x.rate \in 0..Whole /\ x.owner \in BOOLEAN /\ x.row \in BOOLEAN
  <2>1. CASE x \in [rate : 0..Whole, owner : BOOLEAN, row : {TRUE}]
    BY <2>1
  <2>2. CASE x = Admin!NoRel
    BY <2>2, AdminConstants DEF Admin!NoRel
  <2> QED
    BY <2>1, <2>2 DEF Admin!Relations
<1>3. ASSUME NEW x \in Admin!Relations, NEW rate \in 0..Whole, x.row
      PROVE  [x EXCEPT !.rate = rate] \in Admin!Relations
  <2>1. x # Admin!NoRel
    BY <1>3 DEF Admin!NoRel
  <2>2. x \in [rate : 0..Whole, owner : BOOLEAN, row : {TRUE}]
    BY <2>1 DEF Admin!Relations
  <2>3. [x EXCEPT !.rate = rate] \in [rate : 0..Whole, owner : BOOLEAN, row : {TRUE}]
    BY <2>2
  <2> QED
    BY <2>3 DEF Admin!Relations
<1>4. ASSUME NEW x \in Admin!Relations PROVE x \in [rate : Nat, owner : BOOLEAN, row : BOOLEAN]
  <2>1. CASE x \in [rate : 0..Whole, owner : BOOLEAN, row : {TRUE}]
    BY <2>1, AdminConstants, \A r \in 0..Whole : r \in Nat
  <2>2. CASE x = Admin!NoRel
    BY <2>2 DEF Admin!NoRel
  <2> QED
    BY <2>1, <2>2 DEF Admin!Relations
<1> QED
  BY <1>1, <1>2, <1>3, <1>4

LEMMA AdminKeeps ==
  ASSUME Admin!TypeOK, [Admin!Next]_Admin!vars
  PROVE  Admin!TypeOK'
<1>1. CASE UNCHANGED Admin!vars
  BY <1>1 DEF Admin!vars, Admin!TypeOK
<1>2. ASSUME NEW c \in Calls, NEW by \in AdminIds, NEW t \in AdminIds,
             \/ Admin!CreateAdmin(c, by, t) \/ Admin!UpdateAdmin(c, by, t) \/ Admin!DeleteAdmin(c, by, t)
             \/ \E flag \in BOOLEAN : Admin!UpdateAdminStatus(c, by, t, flag)
             \/ \E s \in Campus : \/ Admin!BeginRemoveSchool(c, by, t, s)
                                  \/ \E rate \in 0..Whole : Admin!UpdateAdminCommissionRate(c, by, t, s, rate)
      PROVE  Admin!TypeOK'
  <2>1. CASE Admin!CreateAdmin(c, by, t)
    <3>1. PICK line \in Admin!Rows, owned \in Admin!Bindings :
            Admin!Begin(c, by, [op |-> "create", to |-> t, row |-> line, owned |-> owned])
      BY <2>1 DEF Admin!CreateAdmin
    <3> QED
      BY <3>1, AdminCallRecords, AdminBegins DEF Admin!Ops
  <2>2. CASE Admin!UpdateAdmin(c, by, t)
    <3>1. PICK line \in Admin!Edited(by, t), owned \in Admin!Bindings, op \in {"update", "updateWithSchools"} :
            Admin!Begin(c, by, [op |-> op, to |-> t, row |-> line, owned |-> owned])
      BY <2>2 DEF Admin!UpdateAdmin
    <3>2. line \in Admin!Rows
      BY DEF Admin!Edited
    <3> QED
      BY <3>1, <3>2, AdminCallRecords, AdminBegins DEF Admin!Ops
  <2>3. CASE Admin!DeleteAdmin(c, by, t)
    <3>1. Admin!Begin(c, by, [Admin!NoCall EXCEPT !.op = "delete", !.to = t])
      BY <2>3 DEF Admin!DeleteAdmin
    <3>2. [Admin!NoCall EXCEPT !.op = "delete", !.to = t] \in Admin!CallRecords
      BY AdminCallRecords DEF Admin!Ops
    <3> QED
      BY <3>1, <3>2, AdminBegins
  <2>4. ASSUME NEW flag \in BOOLEAN, Admin!UpdateAdminStatus(c, by, t, flag)
        PROVE  Admin!TypeOK'
    <3>1. [admin[t] EXCEPT !.enabled = flag] \in Admin!Rows
      BY <2>4 DEF Admin!UpdateAdminStatus, Admin!Exists, Admin!TypeOK, Admin!Rows
    <3> QED
      <4> DEFINE line == [admin[t] EXCEPT !.enabled = flag]
      <4>1. Admin!Begin(c, by, [Admin!NoCall EXCEPT !.op = "status", !.to = t, !.row = line])
        BY <2>4 DEF Admin!UpdateAdminStatus
      <4> HIDE DEF line
      <4>2. [Admin!NoCall EXCEPT !.op = "status", !.to = t, !.row = line] \in Admin!CallRecords
        BY <3>1, AdminCallRecords DEF Admin!Ops, line
      <4> QED
        BY <4>1, <4>2, AdminBegins
  <2>5. ASSUME NEW s \in Campus, Admin!BeginRemoveSchool(c, by, t, s) PROVE Admin!TypeOK'
    <3>1. 0 \in 0..Whole
      BY AdminConstants
    <3> QED
      <4> DEFINE owned == [x \in {s} |-> 0]
      <4>1. Admin!Begin(c, by, [Admin!NoCall EXCEPT !.op = "removeSchool", !.to = t, !.owned = owned])
        BY <2>5 DEF Admin!BeginRemoveSchool
      <4>2. owned \in Admin!Bindings
        BY <3>1, AdminCallRecords
      <4> HIDE DEF owned
      <4>3. [Admin!NoCall EXCEPT !.op = "removeSchool", !.to = t, !.owned = owned] \in Admin!CallRecords
        BY <4>2, AdminCallRecords DEF Admin!Ops
      <4> QED
        BY <4>1, <4>3, AdminBegins
  <2>6. ASSUME NEW s \in Campus, NEW rate \in 0..Whole,
               Admin!UpdateAdminCommissionRate(c, by, t, s, rate)
        PROVE  Admin!TypeOK'
    <3> DEFINE owned == [x \in {s} |-> rate]
    <3>1. Admin!Begin(c, by, [Admin!NoCall EXCEPT !.op = "commission", !.to = t, !.owned = owned])
      BY <2>6 DEF Admin!UpdateAdminCommissionRate
    <3>2. owned \in Admin!Bindings
      BY <2>6, AdminCallRecords
    <3> HIDE DEF owned
    <3>3. [Admin!NoCall EXCEPT !.op = "commission", !.to = t, !.owned = owned] \in Admin!CallRecords
      BY <3>2, AdminCallRecords DEF Admin!Ops
    <3> QED
      BY <3>1, <3>3, AdminBegins
  <2> QED
    BY <1>2, <2>1, <2>2, <2>3, <2>4, <2>5, <2>6
<1>3. ASSUME NEW c \in Calls,
             \/ Admin!CreateWithSchools(c) \/ Admin!Update(c) \/ Admin!UpdateWithSchools(c) \/ Admin!RemoveSchoolRelation(c)
             \/ Admin!UpdateSchoolCommission(c) \/ Admin!Delete(c) \/ Admin!Fails(c)
      PROVE  Admin!TypeOK'
  <2> DEFINE r == call[c]
  <2>0. /\ r \in Admin!CallRecords /\ r.row \in Admin!Rows \cup {Admin!NoRow} /\ r.owned \in Admin!Bindings
        /\ admin \in [AdminIds -> Admin!Rows \cup {Admin!NoRow}] /\ rel \in [AdminIds -> [Campus -> Admin!Relations]]
        /\ Admin!NoRel \in Admin!Relations /\ Admin!NoCall \in Admin!CallRecords
    BY AdminCallRecords DEF Admin!TypeOK, Admin!CallRecords, Admin!Relations
  <2>1. /\ \A s \in DOMAIN r.owned : s \in Campus /\ r.owned[s] \in 0..Whole
    BY <2>0 DEF Admin!Bindings
  <2>2. \A rate \in 0..Whole, holder \in BOOLEAN : Admin!Share(rate, holder) \in Admin!Relations
    BY DEF Admin!Share, Admin!Relations
  <2>3. /\ \A s \in DOMAIN r.owned : Admin!Share(r.owned[s], TRUE) \in Admin!Relations
    BY <2>1, <2>2
  <2>4. call' \in [Calls -> Admin!CallRecords] /\ requests' \in 0..AdminRequests
    <3>1. Admin!Done(c)
      BY <1>3
         DEF Admin!CreateWithSchools, Admin!Update, Admin!UpdateWithSchools,
             Admin!RemoveSchoolRelation,
                  Admin!UpdateSchoolCommission, Admin!Delete, Admin!Fails
    <3> QED
      BY <2>0, <3>1 DEF Admin!Done, Admin!TypeOK
  <2> HIDE DEF r
  <2>5. CASE Admin!CreateWithSchools(c)
    <3>1. admin' = [admin EXCEPT ![r.to] = r.row]
      BY <2>5 DEF Admin!CreateWithSchools, r
    <3>2. rel' = [rel EXCEPT ![r.to] = [s \in Campus |->
                          IF s \in DOMAIN r.owned THEN Admin!Share(r.owned[s], TRUE) ELSE Admin!NoRel]]
      BY <2>5 DEF Admin!CreateWithSchools, Admin!WriteRelations, r
    <3>3. [s \in Campus |-> IF s \in DOMAIN r.owned THEN Admin!Share(r.owned[s], TRUE) ELSE Admin!NoRel]
            \in [Campus -> Admin!Relations]
      BY <2>0, <2>3
    <3>4. rel' \in [AdminIds -> [Campus -> Admin!Relations]]
      BY <2>0, <3>2, <3>3
    <3>5. admin' \in [AdminIds -> Admin!Rows \cup {Admin!NoRow}]
      BY <2>0, <3>1
    <3> QED
      BY <2>4, <3>4, <3>5 DEF Admin!TypeOK
  <2>6. CASE Admin!Update(c)
    <3>1. rel' = rel /\ Admin!Exists(r.to)
          /\ admin' = [admin EXCEPT ![r.to] =
                 IF r.op = "update" THEN r.row ELSE [@ EXCEPT !.enabled = r.row.enabled]]
      BY <2>6 DEF Admin!Update, r
    <3>2. r.row.enabled \in BOOLEAN
      BY <2>0, AdminRows
    <3>3. r.to \in AdminIds => [admin[r.to] EXCEPT !.enabled = r.row.enabled] \in Admin!Rows
      BY <2>0, <3>1, <3>2 DEF Admin!Exists, Admin!Rows
    <3>4. admin' \in [AdminIds -> Admin!Rows \cup {Admin!NoRow}]
      BY <2>0, <3>1, <3>3
    <3> QED
      BY <2>0, <2>4, <3>1, <3>4 DEF Admin!TypeOK
  <2>7. CASE Admin!UpdateWithSchools(c)
    <3>1. PICK owned \in {r.owned, Admin!Unbound} :
            /\ admin' = [admin EXCEPT ![r.to] = r.row]
            /\ rel' = [rel EXCEPT ![r.to] = Admin!replaceOwnedSchoolsTx(r.to, owned)]
      BY <2>7 DEF Admin!UpdateWithSchools, Admin!WriteRelations, r
    <3>2. \A s \in DOMAIN owned : Admin!Share(owned[s], TRUE) \in Admin!Relations
      BY <2>3, <3>1 DEF Admin!Unbound
    <3>3. r.to \in AdminIds => Admin!replaceOwnedSchoolsTx(r.to, owned) \in [Campus -> Admin!Relations]
      BY <2>0, <3>2 DEF Admin!replaceOwnedSchoolsTx
    <3>4. rel' \in [AdminIds -> [Campus -> Admin!Relations]]
      BY <2>0, <3>1, <3>3
    <3>5. admin' \in [AdminIds -> Admin!Rows \cup {Admin!NoRow}]
      BY <2>0, <3>1
    <3> QED
      BY <2>4, <3>4, <3>5 DEF Admin!TypeOK
  <2>8. CASE Admin!RemoveSchoolRelation(c)
    <3>1. /\ admin' = admin
          /\ rel' = [rel EXCEPT ![r.to] = [s \in Campus |-> IF s \in DOMAIN r.owned THEN Admin!NoRel ELSE @[s]]]
      BY <2>8 DEF Admin!RemoveSchoolRelation, r
    <3>2. r.to \in AdminIds => [s \in Campus |-> IF s \in DOMAIN r.owned THEN Admin!NoRel ELSE rel[r.to][s]]
                                 \in [Campus -> Admin!Relations]
      BY <2>0
    <3>3. rel' \in [AdminIds -> [Campus -> Admin!Relations]]
      BY <2>0, <3>1, <3>2
    <3> QED
      BY <2>0, <2>4, <3>1, <3>3 DEF Admin!TypeOK
  <2>9. CASE Admin!UpdateSchoolCommission(c)
    <3>1. /\ admin' = admin /\ \A s \in DOMAIN r.owned : rel[r.to][s].row
          /\ rel' = [rel EXCEPT ![r.to] = [s \in Campus |->
                          IF s \in DOMAIN r.owned THEN [@[s] EXCEPT !.rate = r.owned[s]] ELSE @[s]]]
      BY <2>9 DEF Admin!UpdateSchoolCommission, Admin!WriteRelations, r
    <3>2. \A x \in Admin!Relations, rate \in 0..Whole : x.row => [x EXCEPT !.rate = rate] \in Admin!Relations
      BY AdminRows
    <3>3. r.to \in AdminIds => [s \in Campus |->
              IF s \in DOMAIN r.owned THEN [rel[r.to][s] EXCEPT !.rate = r.owned[s]] ELSE rel[r.to][s]]
                               \in [Campus -> Admin!Relations]
      BY <2>0, <2>1, <3>1, <3>2
    <3>4. rel' \in [AdminIds -> [Campus -> Admin!Relations]]
      BY <2>0, <3>1, <3>3
    <3> QED
      BY <2>0, <2>4, <3>1, <3>4 DEF Admin!TypeOK
  <2>10. CASE Admin!Delete(c)
    <3>1. /\ admin' = [admin EXCEPT ![r.to] = Admin!NoRow]
          /\ rel' = [rel EXCEPT ![r.to] = [s \in Campus |-> Admin!NoRel]]
      BY <2>10 DEF Admin!Delete, r
    <3> QED
      BY <2>0, <2>4, <3>1 DEF Admin!TypeOK
  <2>11. CASE Admin!Fails(c)
    BY <2>0, <2>4, <2>11 DEF Admin!Fails, Admin!TypeOK
  <2> QED
    BY SMTT(30), <1>3, <2>5, <2>6, <2>7, <2>8, <2>9, <2>10, <2>11
<1>4. ASSUME NEW by \in AdminIds, NEW t \in AdminIds, NEW s \in Campus, NEW rate \in 1..Whole,
             Admin!DelegateSchool(by, t, s, rate)
      PROVE  Admin!TypeOK'
  <2> DEFINE mine == rel[by][s]
             left == IF rate = mine.rate THEN Admin!NoRel ELSE Admin!Share(mine.rate - rate, FALSE)
             theirs == Admin!Share(rel[t][s].rate + rate, TRUE)
  <2>0. /\ admin \in [AdminIds -> Admin!Rows \cup {Admin!NoRow}] /\ rel \in [AdminIds -> [Campus -> Admin!Relations]]
        /\ by # t /\ rate \in 1..mine.rate /\ Whole \in Nat
    BY <1>4, AdminConstants DEF Admin!DelegateSchool, Admin!TypeOK
  <2>1. \A a \in AdminIds, x \in Campus : rel[a][x].rate \in 0..Whole
    BY <2>0, AdminRows
  <2>2. rel' = [rel EXCEPT ![by][s] = left, ![t][s] = theirs]
    BY <1>4, <2>0 DEF Admin!DelegateSchool, Admin!WriteRelations
  <2>3. Admin!TriggerAllows(rel', {s})
    BY <1>4 DEF Admin!DelegateSchool, Admin!WriteRelations
  <2>4. left \in Admin!Relations
    <3>1. mine.rate \in 0..Whole /\ mine.rate - rate \in 0..Whole
      BY <2>0, <2>1
    <3> QED
      BY <3>1 DEF Admin!Relations, Admin!Share
  <2>5. theirs.rate = rel[t][s].rate + rate /\ theirs.rate \in Nat
    BY <2>0, <2>1 DEF Admin!Share
  <2>6. /\ rel'[by][s] = left /\ rel'[t][s] = theirs
        /\ \A a \in AdminIds, x \in Campus : ~(a \in {by, t} /\ x = s) => rel'[a][x] = rel[a][x]
    BY <2>0, <2>2
  <2>7. rel' \in [AdminIds -> [Campus -> [rate : Nat, owner : BOOLEAN, row : BOOLEAN]]]
    <3>1. Admin!Relations \subseteq [rate : Nat, owner : BOOLEAN, row : BOOLEAN]
      BY AdminRows
    <3>2. theirs \in [rate : Nat, owner : BOOLEAN, row : BOOLEAN]
      BY <2>0, <2>1 DEF Admin!Share
    <3> DEFINE R == [rate : Nat, owner : BOOLEAN, row : BOOLEAN]
    <3>3. left \in R /\ theirs \in R /\ rel \in [AdminIds -> [Campus -> R]]
      BY <2>0, <2>4, <3>1, <3>2
    <3> HIDE DEF left, theirs, R
    <3>4. rel' \in [AdminIds -> [Campus -> R]]
      BY <2>0, <2>2, <3>3
    <3> QED
      BY <3>4 DEF R
  <2>8. theirs \in Admin!Relations
    <3>1. \A a \in AdminIds : rel'[a][s].rate \in Nat
      BY <2>7
    <3>2. \A a \in AdminIds : rel'[a][s].rate \in 0..Whole
      BY <2>3, <3>1, AdminTrigger
    <3>3. rel[t][s].rate + rate \in 0..Whole
      BY <2>5, <2>6, <3>2
    <3> QED
      BY <3>3 DEF Admin!Share, Admin!Relations
  <2>9. rel' \in [AdminIds -> [Campus -> Admin!Relations]]
    <3> HIDE DEF left, theirs
    <3> QED
      BY <2>0, <2>2, <2>4, <2>8
  <2>10. admin' \in [AdminIds -> Admin!Rows \cup {Admin!NoRow}]
    <3>1. Admin!Enabled("schoolSuper") \in Admin!Rows
      BY DEF Admin!Enabled, Admin!Rows, Admin!Roles
    <3> QED
      BY <1>4, <2>0, <3>1 DEF Admin!DelegateSchool
  <2>11. requests' \in 0..AdminRequests /\ call' = call
    BY <1>4, AdminConstants DEF Admin!DelegateSchool, Admin!TypeOK
  <2> QED
    BY <2>9, <2>10, <2>11 DEF Admin!TypeOK
<1> QED
  BY <1>1, <1>2, <1>3, <1>4 DEF Admin!Next

-----------------------------------------------------------------------------
(* Interactions.                                                           *)
(*                                                                         *)
(* Nothing is dated later than now, so that a cursor only moves forward    *)
(* and a new visit is the latest one.                                      *)

\* The component counts and adds with the operators of the library.
LEMMA InterLibrary ==
  /\ \A f : Inter!SumFunction(f) = SumFunction(f)
  /\ \A S : Inter!Cardinality(S) = Cardinality(S)
<1>1. \A f : Inter!SumFunction(f) = SumFunction(f)
  BY DEF Inter!SumFunction, Inter!SumFunctionOnSet, Inter!FoldFunctionOnSet, Inter!MapThenFoldSet,
     SumFunction, SumFunctionOnSet, FoldFunctionOnSet, MapThenFoldSet
<1>2. \A S : Inter!Cardinality(S) = Cardinality(S)
  BY DEF Inter!Cardinality, Cardinality
<1> QED
  BY <1>1, <1>2

InterShareRows == [u : Inter!People, at : Inter!Times]
InterVisitRows == [u : Inter!People \cup {None}, at : Inter!Times, dwell : BOOLEAN]

InterInv ==
  /\ member \subseteq Projects /\ approved \subseteq Projects
  /\ mark \in [Marks -> [Inter!Targets -> [Inter!People -> Inter!Times]]]
  /\ share \in [Inter!Targets -> Seq(InterShareRows)] /\ visit \in [Inter!Targets -> Seq(InterVisitRows)]
  /\ seen \in [Inter!Targets -> [Inter!Kinds \cup {"entry"} -> Inter!Times]]
  /\ now \in 1..InterTime /\ changes \in 0..InterChanges
  /\ \A t \in Inter!Targets : /\ \A i \in DOMAIN visit[t] : visit[t][i].at <= now
                              /\ \A k \in Inter!Kinds \cup {"entry"} : seen[t][k] <= now

LEMMA InterStarts == Inter!Init => InterInv
<1> SUFFICES ASSUME Inter!Init PROVE InterInv
  OBVIOUS
<1>1. /\ << >> \in Seq(InterShareRows) /\ << >> \in Seq(InterVisitRows) /\ DOMAIN << >> = {}
  BY EmptySeq
<1>2. 0 \in Inter!Times /\ now = 1 /\ 1 \in 1..InterTime /\ 0 \in 0..InterChanges /\ 0 <= 1
  BY InterConstants DEF Inter!Init, Inter!Times
<1>3. /\ share \in [Inter!Targets -> Seq(InterShareRows)] /\ visit \in [Inter!Targets -> Seq(InterVisitRows)]
      /\ \A t \in Inter!Targets : DOMAIN visit[t] = {}
  BY <1>1 DEF Inter!Init
<1>4. /\ mark \in [Marks -> [Inter!Targets -> [Inter!People -> Inter!Times]]]
      /\ seen \in [Inter!Targets -> [Inter!Kinds \cup {"entry"} -> Inter!Times]]
      /\ \A t \in Inter!Targets, k \in Inter!Kinds \cup {"entry"} : seen[t][k] = 0
  BY <1>2 DEF Inter!Init
<1>5. /\ member \subseteq Projects /\ approved \subseteq Projects /\ changes \in 0..InterChanges
  BY <1>2 DEF Inter!Init
<1> QED
  BY <1>2, <1>3, <1>4, <1>5 DEF InterInv

\* What a new row does to a sequence of rows.
LEMMA InterAppends ==
  ASSUME NEW S, NEW f \in [Inter!Targets -> Seq(S)], NEW t \in Inter!Targets, NEW line \in S, NEW g,
         g = [f EXCEPT ![t] = Append(@, line)]
  PROVE  /\ g \in [Inter!Targets -> Seq(S)]
         /\ \A x \in Inter!Targets : x # t => g[x] = f[x]
         /\ DOMAIN f[t] = 1..Len(f[t]) /\ DOMAIN g[t] = 1..(Len(f[t]) + 1) /\ Len(f[t]) \in Nat
         /\ g[t][Len(f[t]) + 1] = line
         /\ \A i \in 1..Len(f[t]) : g[t][i] = f[t][i]
<1>1. f[t] \in Seq(S) /\ Append(f[t], line) \in Seq(S)
  BY AppendProperties
<1>2. g[t] = Append(f[t], line) /\ g \in [Inter!Targets -> Seq(S)] /\ \A x \in Inter!Targets : x # t => g[x] = f[x]
  BY <1>1
<1>3. Len(f[t]) \in Nat /\ DOMAIN f[t] = 1..Len(f[t])
  BY <1>1, LenProperties
<1>4. Len(g[t]) = Len(f[t]) + 1 /\ DOMAIN g[t] = 1..Len(g[t])
  BY <1>1, <1>2, LenProperties, AppendProperties
<1>5. g[t][Len(f[t]) + 1] = line /\ \A i \in 1..Len(f[t]) : g[t][i] = f[t][i]
  BY <1>1, <1>2, AppendProperties
<1> QED
  BY <1>2, <1>3, <1>4, <1>5

LEMMA InterKeeps ==
  ASSUME InterInv, [Inter!Next]_Inter!vars
  PROVE  InterInv'
<1>0. /\ now \in Nat /\ now \in Inter!Times /\ 0 \in Inter!Times
      /\ Inter!Take => changes' \in 0..InterChanges
  BY InterConstants DEF InterInv, Inter!Times, Inter!Take
<1>1. CASE UNCHANGED Inter!vars
  BY <1>1 DEF Inter!vars, InterInv
<1>2. ASSUME NEW t \in Inter!Targets, NEW u \in Inter!People, Inter!Share(t, u) PROVE InterInv'
  <2>1. [u |-> u, at |-> now] \in InterShareRows
    BY <1>0 DEF InterShareRows
  <2>2. share' \in [Inter!Targets -> Seq(InterShareRows)]
    BY <1>2, <2>1, InterAppends DEF Inter!Share, InterInv
  <2> QED
    BY <1>0, <1>2, <2>2 DEF Inter!Share, InterInv
<1>3. ASSUME NEW t \in Inter!Targets, NEW k \in Marks, NEW u \in Inter!People, Inter!Toggle(t, k, u)
      PROVE  InterInv'
  <2>1. mark \in [Marks -> [Inter!Targets -> [Inter!People -> Inter!Times]]] /\ mark[k] \in [Inter!Targets -> [Inter!People -> Inter!Times]]
    BY DEF InterInv
  <2>2. PICK v \in Inter!Times : mark' = [mark EXCEPT ![k][t][u] = v]
    BY <1>0, <1>3 DEF Inter!Toggle
  <2>3. mark' \in [Marks -> [Inter!Targets -> [Inter!People -> Inter!Times]]]
    <3>1. [mark[k] EXCEPT ![t][u] = v] \in [Inter!Targets -> [Inter!People -> Inter!Times]]
      BY <2>1, <2>2
    <3>2. mark' = [mark EXCEPT ![k] = [mark[k] EXCEPT ![t][u] = v]]
      BY <2>2
    <3> QED
      BY <2>1, <3>1, <3>2
  <2> QED
    BY <1>0, <1>3, <2>3 DEF Inter!Toggle, InterInv
<1>4. ASSUME NEW t \in Inter!Targets, NEW u \in Inter!People \cup {None},
             Inter!RecordView(t, u) \/ Inter!RecordViewDuration(t, u)
      PROVE  InterInv'
  <2>1. PICK d \in BOOLEAN : visit' = [visit EXCEPT ![t] = Append(@, [u |-> u, at |-> now, dwell |-> d])]
    BY <1>4 DEF Inter!RecordView, Inter!RecordViewDuration
  <2> DEFINE line == [u |-> u, at |-> now, dwell |-> d]
  <2>2. line \in InterVisitRows /\ line.at = now
    BY <1>0 DEF InterVisitRows
  <2> HIDE DEF line
  <2>3. visit \in [Inter!Targets -> Seq(InterVisitRows)] /\ visit' = [visit EXCEPT ![t] = Append(@, line)]
    BY <2>1 DEF InterInv, line
  <2>4. /\ visit' \in [Inter!Targets -> Seq(InterVisitRows)]
        /\ \A x \in Inter!Targets : x # t => visit'[x] = visit[x]
        /\ DOMAIN visit[t] = 1..Len(visit[t]) /\ DOMAIN visit'[t] = 1..(Len(visit[t]) + 1) /\ Len(visit[t]) \in Nat
        /\ visit'[t][Len(visit[t]) + 1] = line
        /\ \A i \in 1..Len(visit[t]) : visit'[t][i] = visit[t][i]
    BY <2>2, <2>3, InterAppends
  <2>5. UNCHANGED <<member, approved, mark, share, seen, now>> /\ changes' \in 0..InterChanges
    BY <1>0, <1>4 DEF Inter!RecordView, Inter!RecordViewDuration
  <2>6. \A i \in DOMAIN visit'[t] : visit'[t][i].at <= now
    <3>1. \A i \in 1..(Len(visit[t]) + 1) : i \in 1..Len(visit[t]) \/ i = Len(visit[t]) + 1
      BY <2>4
    <3>2. \A i \in 1..Len(visit[t]) : visit'[t][i].at <= now
      BY <2>4 DEF InterInv
    <3>3. visit'[t][Len(visit[t]) + 1].at <= now
      BY <1>0, <2>2, <2>4
    <3> QED
      BY <2>4, <3>1, <3>2, <3>3
  <2>7. \A x \in Inter!Targets : \A i \in DOMAIN visit'[x] : visit'[x][i].at <= now'
    BY <2>4, <2>5, <2>6 DEF InterInv
  <2> QED
    BY <2>4, <2>5, <2>7 DEF InterInv
<1>5. ASSUME NEW t \in Inter!Targets, NEW kinds, Inter!MarkDashboardViewed(t, kinds) PROVE InterInv'
  <2>1. /\ seen' = [seen EXCEPT ![t] = [k \in DOMAIN @ |-> IF k \in kinds THEN now ELSE @[k]]]
        /\ UNCHANGED <<member, approved, mark, share, visit, now>> /\ changes' \in 0..InterChanges
    BY <1>0, <1>5 DEF Inter!MarkDashboardViewed
  <2>2. [k \in DOMAIN seen[t] |-> IF k \in kinds THEN now ELSE seen[t][k]] \in [Inter!Kinds \cup {"entry"} -> Inter!Times]
    BY <1>0 DEF InterInv
  <2>3. seen' \in [Inter!Targets -> [Inter!Kinds \cup {"entry"} -> Inter!Times]]
    BY <2>1, <2>2 DEF InterInv
  <2>4. \A x \in Inter!Targets, k \in Inter!Kinds \cup {"entry"} : seen'[x][k] <= now
    BY <1>0, <2>1 DEF InterInv
  <2> QED
    BY <2>1, <2>3, <2>4 DEF InterInv
<1>6. ASSUME NEW p \in Projects, Inter!ProjectChanges(p) PROVE InterInv'
  BY <1>0, <1>6 DEF Inter!ProjectChanges, InterInv
<1>7. CASE Inter!Tick
  <2>1. now' = now + 1 /\ now' \in 1..InterTime /\ UNCHANGED <<member, approved, mark, share, visit, seen, changes>>
    BY <1>7, InterConstants DEF Inter!Tick, InterInv
  <2>2. \A t \in Inter!Targets : \A i \in 1..Len(visit[t]) : visit[t][i] \in InterVisitRows
    BY ElementOfSeq DEF InterInv
  <2>3. \A t \in Inter!Targets : DOMAIN visit[t] = 1..Len(visit[t])
    BY LenProperties DEF InterInv
  <2>4. \A t \in Inter!Targets : \A i \in DOMAIN visit[t] : visit[t][i].at \in Nat
    BY <2>2, <2>3 DEF InterVisitRows, Inter!Times
  <2>5. \A t \in Inter!Targets : \A i \in DOMAIN visit[t] : visit[t][i].at <= now'
    BY <1>0, <2>1, <2>4 DEF InterInv
  <2>6. \A t \in Inter!Targets, k \in Inter!Kinds \cup {"entry"} : seen[t][k] <= now'
    BY <1>0, <2>1 DEF InterInv, Inter!Times
  <2> QED
    BY <2>1, <2>5, <2>6 DEF InterInv
<1> QED
  BY <1>1, <1>2, <1>3, <1>4, <1>5, <1>6, <1>7 DEF Inter!Next

LEMMA InterTypes ==
  ASSUME InterInv
  PROVE  Inter!TypeOK
  BY DEF InterInv, Inter!TypeOK, InterShareRows, InterVisitRows

\* Whose share, and whose visit, among the rows of a target is new since the cursor.
InterSharer(s, c, u) ==
  \E i \in DOMAIN s : /\ s[i].u = u /\ s[i].at > c
                      /\ \A j \in 1..(i - 1) : s[j].u # s[i].u

InterFollows(v, j, i) ==
  /\ v[j].u = v[i].u /\ ~v[j].dwell
  /\ v[j].at < v[i].at \/ (v[j].at = v[i].at /\ j < i)
  /\ v[j].at + Window >= v[i].at

InterVisitor(v, c, u) ==
  \E i \in DOMAIN v : /\ v[i].u = u /\ ~v[i].dwell /\ v[i].at > c
                      /\ \A j \in DOMAIN v : ~ InterFollows(v, j, i)

\* What is unread, in these terms, before a step and after it.
LEMMA InterFresh ==
  ASSUME NEW t \in Inter!Targets
  PROVE  /\ Inter!Fresh(t, "share", FALSE) = {u \in Visitors : InterSharer(share[t], seen[t]["share"], u)}
         /\ Inter!Fresh(t, "visit", FALSE) = {u \in Visitors : InterVisitor(visit[t], seen[t]["visit"], u)}
         /\ (Inter!Fresh(t, "share", FALSE))' = {u \in Visitors : InterSharer(share'[t], seen'[t]["share"], u)}
         /\ (Inter!Fresh(t, "visit", FALSE))' = {u \in Visitors : InterVisitor(visit'[t], seen'[t]["visit"], u)}
<1>1. "share" \notin Marks /\ "visit" \notin Marks /\ "share" # "visit"
  BY InterConstants
<1>2. Inter!Fresh(t, "share", FALSE) = {u \in Visitors : InterSharer(share[t], seen[t]["share"], u)}
  BY <1>1 DEF Inter!Fresh, Inter!dashboardUnreadScope, Inter!FirstShare, InterSharer
<1>3. Inter!Fresh(t, "visit", FALSE) = {u \in Visitors : InterVisitor(visit[t], seen[t]["visit"], u)}
  BY <1>1 DEF Inter!Fresh, Inter!dashboardUnreadScope, Inter!FirstVisit, InterVisitor, InterFollows
<1>4. (Inter!Fresh(t, "share", FALSE))' = {u \in Visitors : InterSharer(share'[t], seen'[t]["share"], u)}
  BY <1>1 DEF Inter!Fresh, Inter!dashboardUnreadScope, Inter!FirstShare, InterSharer
<1>5. (Inter!Fresh(t, "visit", FALSE))' = {u \in Visitors : InterVisitor(visit'[t], seen'[t]["visit"], u)}
  BY <1>1 DEF Inter!Fresh, Inter!dashboardUnreadScope, Inter!FirstVisit, InterVisitor, InterFollows
<1> QED
  BY <1>2, <1>3, <1>4, <1>5

\* Who is listed behind the two numbers after a step.
LEMMA InterListed ==
  ASSUME NEW t \in Inter!Targets
  PROVE  /\ Inter!ListUsers(t, "share") = {share[t][i].u : i \in DOMAIN share[t]}
         /\ (Inter!ListUsers(t, "share"))' = {share'[t][i].u : i \in DOMAIN share'[t]}
         /\ (Inter!ListUsers(t, "visit"))' = {visit'[t][i].u : i \in {j \in DOMAIN visit'[t] :
                                                visit'[t][j].u # None /\ ~visit'[t][j].dwell}}
<1>1. "share" \notin Marks /\ "visit" \notin Marks /\ "share" # "visit"
  BY InterConstants
<1>2. Inter!ListUsers(t, "share") = {share[t][i].u : i \in DOMAIN share[t]}
  BY <1>1 DEF Inter!ListUsers
<1>3. (Inter!ListUsers(t, "share"))' = {share'[t][i].u : i \in DOMAIN share'[t]}
  BY <1>1 DEF Inter!ListUsers
<1>4. (Inter!ListUsers(t, "visit"))' = {visit'[t][i].u : i \in {j \in DOMAIN visit'[t] :
                                                visit'[t][j].u # None /\ ~visit'[t][j].dwell}}
  BY <1>1 DEF Inter!ListUsers
<1> QED
  BY <1>2, <1>3, <1>4

\* A further share is new unless its sharer has shared before, and takes nothing back.
LEMMA InterShares ==
  ASSUME NEW s, NEW r, NEW n \in Nat, NEW c, NEW u,
         DOMAIN s = 1..n, DOMAIN r = 1..(n + 1), \A i \in 1..n : r[i] = s[i]
  PROVE  /\ InterSharer(s, c, u) => InterSharer(r, c, u)
         /\ InterSharer(r, c, u) /\ ~ InterSharer(s, c, u) => \A i \in DOMAIN s : s[i].u # u
<1>1. \A i \in 1..n : i \in 1..(n + 1) /\ 1..(i - 1) \subseteq 1..n
  OBVIOUS
<1>2. ASSUME InterSharer(s, c, u) PROVE InterSharer(r, c, u)
  <2>1. PICK i \in 1..n : /\ s[i].u = u /\ s[i].at > c
                          /\ \A j \in 1..(i - 1) : s[j].u # s[i].u
    BY <1>2 DEF InterSharer
  <2>2. /\ i \in DOMAIN r /\ r[i].u = u /\ r[i].at > c
        /\ \A j \in 1..(i - 1) : r[j].u # r[i].u
    BY <1>1, <2>1
  <2> QED
    BY <2>2 DEF InterSharer
<1>3. ASSUME InterSharer(r, c, u), ~ InterSharer(s, c, u) PROVE \A i \in DOMAIN s : s[i].u # u
  <2>1. PICK i \in 1..(n + 1) : /\ r[i].u = u /\ r[i].at > c
                                /\ \A j \in 1..(i - 1) : r[j].u # r[i].u
    BY <1>3 DEF InterSharer
  <2>2. CASE i \in 1..n
    <3>1. /\ i \in DOMAIN s /\ s[i].u = u /\ s[i].at > c
          /\ \A j \in 1..(i - 1) : s[j].u # s[i].u
      BY <1>1, <2>1, <2>2
    <3> QED
      BY <1>3, <3>1 DEF InterSharer
  <2>3. CASE i = n + 1
    <3>1. 1..(i - 1) = 1..n
      BY <2>3
    <3> QED
      BY <2>1, <3>1
  <2> QED
    BY <2>1, <2>2, <2>3
<1> QED
  BY <1>2, <1>3

\* The rows of r are those of v and one more, dated last.
InterGrown(v, r, n, now0) ==
  /\ n \in Nat /\ now0 \in Nat
  /\ DOMAIN v = 1..n /\ DOMAIN r = 1..(n + 1)
  /\ \A i \in 1..n : r[i] = v[i] /\ v[i].at \in Nat /\ v[i].at <= now0
  /\ r[n + 1].at = now0

\* A further visit, dated last, is new unless its visitor came within the window,
\* and takes nothing back.
LEMMA InterVisits ==
  ASSUME NEW v, NEW r, NEW n, NEW c, NEW u, NEW now0, InterGrown(v, r, n, now0)
  PROVE  /\ InterVisitor(v, c, u) => InterVisitor(r, c, u)
         /\ InterVisitor(r, c, u) /\ ~ InterVisitor(v, c, u)
              => \A i \in DOMAIN v : ~ (v[i].u = u /\ ~v[i].dwell /\ v[i].at + Window >= now0)
<1>0. /\ n \in Nat /\ now0 \in Nat
      /\ DOMAIN v = 1..n /\ DOMAIN r = 1..(n + 1)
      /\ \A i \in 1..n : r[i] = v[i] /\ v[i].at \in Nat /\ v[i].at <= now0
      /\ r[n + 1].at = now0
  BY DEF InterGrown
<1>1. \A i \in 1..n : i \in 1..(n + 1) /\ ~ (n + 1 < i) /\ i < n + 1
  BY <1>0
<1>2. \A i \in 1..(n + 1) : i \in 1..n \/ i = n + 1
  BY <1>0
<1>3. \A i, j \in 1..n : InterFollows(r, j, i) <=> InterFollows(v, j, i)
  BY <1>0 DEF InterFollows
<1>4. \A i \in 1..n : ~ InterFollows(r, n + 1, i)
  <2> SUFFICES ASSUME NEW i \in 1..n PROVE ~ InterFollows(r, n + 1, i)
    OBVIOUS
  <2>1. ~ (r[n + 1].at < r[i].at \/ (r[n + 1].at = r[i].at /\ n + 1 < i))
    BY <1>0
  <2> QED
    BY <1>0, <2>1 DEF InterFollows
<1>5. ASSUME InterVisitor(v, c, u) PROVE InterVisitor(r, c, u)
  <2>1. PICK i \in 1..n : /\ v[i].u = u /\ ~v[i].dwell /\ v[i].at > c
                          /\ \A j \in 1..n : ~ InterFollows(v, j, i)
    BY <1>0, <1>5 DEF InterVisitor
  <2>2. /\ i \in DOMAIN r /\ r[i].u = u /\ ~r[i].dwell /\ r[i].at > c
        /\ \A j \in DOMAIN r : ~ InterFollows(r, j, i)
    BY <1>0, <1>1, <1>2, <1>3, <1>4, <2>1
  <2> QED
    BY <1>0, <2>2 DEF InterVisitor
<1>6. ASSUME InterVisitor(r, c, u), ~ InterVisitor(v, c, u)
      PROVE  \A i \in DOMAIN v : ~ (v[i].u = u /\ ~v[i].dwell /\ v[i].at + Window >= now0)
  <2>1. PICK i \in 1..(n + 1) : /\ r[i].u = u /\ ~r[i].dwell /\ r[i].at > c
                                /\ \A j \in 1..(n + 1) : ~ InterFollows(r, j, i)
    BY <1>0, <1>6 DEF InterVisitor
  <2>2. CASE i \in 1..n
    <3>1. /\ i \in DOMAIN v /\ v[i].u = u /\ ~v[i].dwell /\ v[i].at > c
          /\ \A j \in DOMAIN v : ~ InterFollows(v, j, i)
      BY <1>0, <1>1, <1>3, <2>1, <2>2
    <3> QED
      BY <1>0, <1>6, <3>1 DEF InterVisitor
  <2>3. CASE i = n + 1
    <3> SUFFICES ASSUME NEW j \in 1..n, v[j].u = u, ~v[j].dwell, v[j].at + Window >= now0
                 PROVE  FALSE
      BY <1>0
    <3>1. /\ r[j].u = r[i].u /\ ~r[j].dwell /\ r[j].at + Window >= r[i].at
      BY <1>0, <2>1, <2>3
    <3>2. r[j].at < r[i].at \/ (r[j].at = r[i].at /\ j < i)
      BY <1>0, <1>1, <2>3
    <3> QED
      BY <1>0, <1>1, <2>1, <3>1, <3>2 DEF InterFollows
  <2> QED
    BY <1>0, <1>2, <2>1, <2>2, <2>3
<1> QED
  BY <1>0, <1>5, <1>6

\* Looking leaves nothing unread that was read.
LEMMA InterLooks ==
  ASSUME NEW s, NEW c \in Nat, NEW d \in Nat, NEW u, c <= d, \A i \in DOMAIN s : s[i].at \in Nat
  PROVE  /\ InterSharer(s, d, u) => InterSharer(s, c, u)
         /\ InterVisitor(s, d, u) => InterVisitor(s, c, u)
<1>1. \A i \in DOMAIN s : s[i].at > d => s[i].at > c
  OBVIOUS
<1> QED
  BY <1>1 DEF InterSharer, InterVisitor

\* The types of the rows and of the cursors of a target.
LEMMA InterRows ==
  ASSUME InterInv, NEW t \in Inter!Targets
  PROVE  /\ DOMAIN share[t] = 1..Len(share[t]) /\ DOMAIN visit[t] = 1..Len(visit[t])
         /\ Len(share[t]) \in Nat /\ Len(visit[t]) \in Nat
         /\ \A i \in DOMAIN share[t] : share[t][i].at \in Nat
         /\ \A i \in DOMAIN visit[t] : visit[t][i].at \in Nat /\ visit[t][i].at <= now
         /\ seen[t]["share"] \in Nat /\ seen[t]["visit"] \in Nat
         /\ seen[t]["share"] <= now /\ seen[t]["visit"] <= now /\ now \in Nat
<1>1. share[t] \in Seq(InterShareRows) /\ visit[t] \in Seq(InterVisitRows)
  BY DEF InterInv
<1>2. /\ DOMAIN share[t] = 1..Len(share[t]) /\ DOMAIN visit[t] = 1..Len(visit[t])
      /\ Len(share[t]) \in Nat /\ Len(visit[t]) \in Nat
  BY <1>1, LenProperties
<1>3. /\ \A i \in DOMAIN share[t] : share[t][i] \in InterShareRows
      /\ \A i \in DOMAIN visit[t] : visit[t][i] \in InterVisitRows
  BY <1>1, <1>2, ElementOfSeq
<1>4. /\ \A i \in DOMAIN share[t] : share[t][i].at \in Nat
      /\ \A i \in DOMAIN visit[t] : visit[t][i].at \in Nat
  BY <1>3 DEF InterShareRows, InterVisitRows, Inter!Times
<1>5. "share" \in Inter!Kinds /\ "visit" \in Inter!Kinds
  BY DEF Inter!Kinds
<1>6. /\ seen[t]["share"] \in Inter!Times /\ seen[t]["visit"] \in Inter!Times
      /\ seen[t]["share"] <= now /\ seen[t]["visit"] <= now /\ now \in Nat
      /\ \A i \in DOMAIN visit[t] : visit[t][i].at <= now
  BY <1>5 DEF InterInv
<1> QED
  BY <1>2, <1>4, <1>6 DEF Inter!Times

\* What a step may do to the unread shares and visits of a target.
InterNoRepeat(t, u) ==
  /\ InterSharer(share'[t], seen'[t]["share"], u) /\ ~ InterSharer(share[t], seen[t]["share"], u)
       => \A i \in DOMAIN share[t] : share[t][i].u # u
  /\ InterVisitor(visit'[t], seen'[t]["visit"], u) /\ ~ InterVisitor(visit[t], seen[t]["visit"], u)
       => \A i \in DOMAIN visit[t] : ~ (/\ visit[t][i].u = u /\ ~visit[t][i].dwell
                                        /\ visit[t][i].at + Window >= now)

InterNothingTaken(t, u) ==
  \/ seen'[t] # seen[t]
  \/ /\ InterSharer(share[t], seen[t]["share"], u) => InterSharer(share'[t], seen'[t]["share"], u)
     /\ InterVisitor(visit[t], seen[t]["visit"], u) => InterVisitor(visit'[t], seen'[t]["visit"], u)

LEMMA InterUnread ==
  ASSUME InterInv, [Inter!Next]_Inter!vars, NEW t \in Inter!Targets, NEW u
  PROVE  InterNoRepeat(t, u) /\ InterNothingTaken(t, u)
<1>0. /\ DOMAIN share[t] = 1..Len(share[t]) /\ DOMAIN visit[t] = 1..Len(visit[t])
      /\ Len(share[t]) \in Nat /\ Len(visit[t]) \in Nat
      /\ \A i \in DOMAIN share[t] : share[t][i].at \in Nat
      /\ \A i \in DOMAIN visit[t] : visit[t][i].at \in Nat /\ visit[t][i].at <= now
      /\ seen[t]["share"] \in Nat /\ seen[t]["visit"] \in Nat
      /\ seen[t]["share"] <= now /\ seen[t]["visit"] <= now /\ now \in Nat
  BY InterRows
<1>1. ASSUME share'[t] = share[t], visit'[t] = visit[t], seen'[t] = seen[t]
      PROVE  InterNoRepeat(t, u) /\ InterNothingTaken(t, u)
  BY <1>1 DEF InterNoRepeat, InterNothingTaken
<1>2. ASSUME NEW x \in Inter!Targets, NEW w \in Inter!People, Inter!Share(x, w)
      PROVE  InterNoRepeat(t, u) /\ InterNothingTaken(t, u)
  <2>1. [u |-> w, at |-> now] \in InterShareRows
    BY DEF InterShareRows, Inter!Times, InterInv
  <2>2. /\ \A y \in Inter!Targets : y # x => share'[y] = share[y]
        /\ DOMAIN share'[x] = 1..(Len(share[x]) + 1)
        /\ \A i \in 1..Len(share[x]) : share'[x][i] = share[x][i]
    BY <1>2, <2>1, InterAppends DEF Inter!Share, InterInv
  <2>3. visit' = visit /\ seen' = seen
    BY <1>2 DEF Inter!Share
  <2>4. CASE x # t
    BY <1>1, <2>2, <2>3, <2>4
  <2>5. CASE x = t
    <3>1. /\ InterSharer(share[t], seen[t]["share"], u) => InterSharer(share'[t], seen[t]["share"], u)
          /\ InterSharer(share'[t], seen[t]["share"], u) /\ ~ InterSharer(share[t], seen[t]["share"], u)
               => \A i \in DOMAIN share[t] : share[t][i].u # u
      <4> DEFINE a == share[t]
                 b == share'[t]
                 n == Len(a)
      <4>1. n \in Nat /\ DOMAIN a = 1..n /\ DOMAIN b = 1..(n + 1) /\ \A i \in 1..n : b[i] = a[i]
        BY <1>0, <2>2, <2>5
      <4> HIDE DEF a, b, n
      <4>2. \A c : /\ InterSharer(a, c, u) => InterSharer(b, c, u)
                   /\ InterSharer(b, c, u) /\ ~ InterSharer(a, c, u) => \A i \in DOMAIN a : a[i].u # u
        BY <4>1, InterShares
      <4> QED
        BY <4>2 DEF a, b
    <3> QED
      BY <2>3, <3>1 DEF InterNoRepeat, InterNothingTaken
  <2> QED
    BY <2>4, <2>5
<1>3. ASSUME NEW x \in Inter!Targets, NEW w \in Inter!People \cup {None},
             Inter!RecordView(x, w) \/ Inter!RecordViewDuration(x, w)
      PROVE  InterNoRepeat(t, u) /\ InterNothingTaken(t, u)
  <2>1. PICK d \in BOOLEAN : visit' = [visit EXCEPT ![x] = Append(@, [u |-> w, at |-> now, dwell |-> d])]
    BY <1>3 DEF Inter!RecordView, Inter!RecordViewDuration
  <2> DEFINE r == [u |-> w, at |-> now, dwell |-> d]
  <2>2. r \in InterVisitRows /\ r.at = now
    BY DEF InterVisitRows, Inter!Times, InterInv
  <2> HIDE DEF r
  <2>3. visit \in [Inter!Targets -> Seq(InterVisitRows)] /\ visit' = [visit EXCEPT ![x] = Append(@, r)]
    BY <2>1 DEF InterInv, r
  <2>4. /\ \A y \in Inter!Targets : y # x => visit'[y] = visit[y]
        /\ DOMAIN visit'[x] = 1..(Len(visit[x]) + 1)
        /\ visit'[x][Len(visit[x]) + 1] = r
        /\ \A i \in 1..Len(visit[x]) : visit'[x][i] = visit[x][i]
    BY <2>2, <2>3, InterAppends
  <2>5. share' = share /\ seen' = seen
    BY <1>3 DEF Inter!RecordView, Inter!RecordViewDuration
  <2>6. CASE x # t
    BY <1>1, <2>4, <2>5, <2>6
  <2>7. CASE x = t
    <3>1. visit'[t][Len(visit[t]) + 1].at = now
      BY <2>2, <2>4, <2>7
    <3>2. /\ InterVisitor(visit[t], seen[t]["visit"], u) => InterVisitor(visit'[t], seen[t]["visit"], u)
          /\ InterVisitor(visit'[t], seen[t]["visit"], u) /\ ~ InterVisitor(visit[t], seen[t]["visit"], u)
               => \A i \in DOMAIN visit[t] : ~ (/\ visit[t][i].u = u /\ ~visit[t][i].dwell
                                                /\ visit[t][i].at + Window >= now)
      <4> DEFINE a == visit[t]
                 b == visit'[t]
                 n == Len(a)
      <4>1. /\ n \in Nat /\ DOMAIN a = 1..n /\ DOMAIN b = 1..(n + 1) /\ \A i \in 1..n : b[i] = a[i]
            /\ b[n + 1].at = now
        BY <1>0, <2>4, <2>7, <3>1
      <4>2. now \in Nat /\ \A i \in 1..n : a[i].at \in Nat /\ a[i].at <= now
        BY <1>0
      <4> HIDE DEF a, b, n
      <4> InterGrown(a, b, n, now)
        BY <4>1, <4>2 DEF InterGrown
      <4>3. \A c : /\ InterVisitor(a, c, u) => InterVisitor(b, c, u)
                   /\ InterVisitor(b, c, u) /\ ~ InterVisitor(a, c, u)
                        => \A i \in DOMAIN a : ~ (a[i].u = u /\ ~a[i].dwell /\ a[i].at + Window >= now)
        BY InterVisits
      <4> QED
        BY <4>3 DEF a, b
    <3> QED
      BY <2>5, <3>2 DEF InterNoRepeat, InterNothingTaken
  <2> QED
    BY <2>6, <2>7
<1>4. ASSUME NEW x \in Inter!Targets, NEW kinds, Inter!MarkDashboardViewed(x, kinds)
      PROVE  InterNoRepeat(t, u) /\ InterNothingTaken(t, u)
  <2>1. share' = share /\ visit' = visit
    BY <1>4 DEF Inter!MarkDashboardViewed
  <2>2. /\ seen'[t]["share"] \in {seen[t]["share"], now} /\ seen'[t]["visit"] \in {seen[t]["visit"], now}
    BY <1>4 DEF Inter!MarkDashboardViewed, InterInv, Inter!Kinds
  <2>3. /\ InterSharer(share[t], seen'[t]["share"], u) => InterSharer(share[t], seen[t]["share"], u)
        /\ InterVisitor(visit[t], seen'[t]["visit"], u) => InterVisitor(visit[t], seen[t]["visit"], u)
    BY <1>0, <2>2, InterLooks
  <2> QED
    BY <2>1, <2>3 DEF InterNoRepeat, InterNothingTaken
<1>5. ASSUME NEW x \in Inter!Targets, NEW k \in Marks, NEW w \in Inter!People, Inter!Toggle(x, k, w)
      PROVE  InterNoRepeat(t, u) /\ InterNothingTaken(t, u)
  BY <1>1, <1>5 DEF Inter!Toggle
<1>6. ASSUME NEW p \in Projects, Inter!ProjectChanges(p)
      PROVE  InterNoRepeat(t, u) /\ InterNothingTaken(t, u)
  BY <1>1, <1>6 DEF Inter!ProjectChanges
<1>7. CASE Inter!Tick \/ UNCHANGED Inter!vars
  BY <1>1, <1>7 DEF Inter!Tick, Inter!vars
<1> QED
  BY <1>2, <1>3, <1>4, <1>5, <1>6, <1>7 DEF Inter!Next

LEMMA InterSteps ==
  ASSUME InterInv, [Inter!Next]_Inter!vars
  PROVE  Inter!RepeatsAreSilentStep
<1> SUFFICES ASSUME NEW t \in Inter!Targets, NEW k \in {"share", "visit"}
             PROVE  LET before == Inter!Fresh(t, k, FALSE)
                        after  == (Inter!Fresh(t, k, FALSE))'
                        recent == {u \in Visitors : \E i \in DOMAIN visit[t] :
                                     visit[t][i].u = u /\ ~visit[t][i].dwell /\ visit[t][i].at + Window >= now}
                    IN /\ after \ before \subseteq Visitors \ (IF k = "share" THEN Inter!ListUsers(t, k) ELSE recent)
                       /\ before \subseteq after \/ seen'[t] # seen[t]
                       /\ after \subseteq (Inter!ListUsers(t, k))'
  BY DEF Inter!RepeatsAreSilentStep
<1>1. \A u : InterNoRepeat(t, u) /\ InterNothingTaken(t, u)
  BY InterUnread
<1>2. \A u \in Visitors : u # None
  BY InterConstants
<1>3. CASE k = "share"
  <2>1. /\ Inter!Fresh(t, k, FALSE) = {u \in Visitors : InterSharer(share[t], seen[t]["share"], u)}
        /\ (Inter!Fresh(t, k, FALSE))' = {u \in Visitors : InterSharer(share'[t], seen'[t]["share"], u)}
        /\ Inter!ListUsers(t, k) = {share[t][i].u : i \in DOMAIN share[t]}
        /\ (Inter!ListUsers(t, k))' = {share'[t][i].u : i \in DOMAIN share'[t]}
    BY <1>3, InterFresh, InterListed
  <2>2. \A u : InterSharer(share'[t], seen'[t]["share"], u) /\ ~ InterSharer(share[t], seen[t]["share"], u)
                 => \A i \in DOMAIN share[t] : share[t][i].u # u
    BY <1>1 DEF InterNoRepeat
  <2>3. \/ seen'[t] # seen[t]
        \/ \A u : InterSharer(share[t], seen[t]["share"], u) => InterSharer(share'[t], seen'[t]["share"], u)
    BY <1>1 DEF InterNothingTaken
  <2>4. \A u : InterSharer(share'[t], seen'[t]["share"], u) => \E i \in DOMAIN share'[t] : share'[t][i].u = u
    BY DEF InterSharer
  <2>5. /\ (Inter!Fresh(t, k, FALSE))' \ Inter!Fresh(t, k, FALSE) \subseteq Visitors \ Inter!ListUsers(t, k)
        /\ Inter!Fresh(t, k, FALSE) \subseteq (Inter!Fresh(t, k, FALSE))' \/ seen'[t] # seen[t]
        /\ (Inter!Fresh(t, k, FALSE))' \subseteq (Inter!ListUsers(t, k))'
    <3>1. \A u : u \in Inter!ListUsers(t, k) <=> \E i \in DOMAIN share[t] : share[t][i].u = u
      BY <2>1
    <3>2. \A u : u \in (Inter!ListUsers(t, k))' <=> \E i \in DOMAIN share'[t] : share'[t][i].u = u
      BY <2>1
    <3>3. (Inter!Fresh(t, k, FALSE))' \ Inter!Fresh(t, k, FALSE) \subseteq Visitors \ Inter!ListUsers(t, k)
      BY <2>1, <2>2, <3>1
    <3>4. Inter!Fresh(t, k, FALSE) \subseteq (Inter!Fresh(t, k, FALSE))' \/ seen'[t] # seen[t]
      BY <2>1, <2>3
    <3>5. (Inter!Fresh(t, k, FALSE))' \subseteq (Inter!ListUsers(t, k))'
      BY <2>1, <2>4, <3>2
    <3> QED
      BY <3>3, <3>4, <3>5
  <2> QED
    BY <1>3, <2>5
<1>4. CASE k = "visit"
  <2>1. /\ Inter!Fresh(t, k, FALSE) = {u \in Visitors : InterVisitor(visit[t], seen[t]["visit"], u)}
        /\ (Inter!Fresh(t, k, FALSE))' = {u \in Visitors : InterVisitor(visit'[t], seen'[t]["visit"], u)}
        /\ (Inter!ListUsers(t, k))' = {visit'[t][i].u : i \in {j \in DOMAIN visit'[t] :
                                                visit'[t][j].u # None /\ ~visit'[t][j].dwell}}
    BY <1>4, InterFresh, InterListed
  <2>2. \A u : InterVisitor(visit'[t], seen'[t]["visit"], u) /\ ~ InterVisitor(visit[t], seen[t]["visit"], u)
                 => \A i \in DOMAIN visit[t] : ~ (/\ visit[t][i].u = u /\ ~visit[t][i].dwell
                                                  /\ visit[t][i].at + Window >= now)
    BY <1>1 DEF InterNoRepeat
  <2>3. \/ seen'[t] # seen[t]
        \/ \A u : InterVisitor(visit[t], seen[t]["visit"], u) => InterVisitor(visit'[t], seen'[t]["visit"], u)
    BY <1>1 DEF InterNothingTaken
  <2>4. \A u : InterVisitor(visit'[t], seen'[t]["visit"], u)
                 => \E i \in DOMAIN visit'[t] : visit'[t][i].u = u /\ ~visit'[t][i].dwell
    BY DEF InterVisitor
  <2> DEFINE recent == {u \in Visitors : \E i \in DOMAIN visit[t] :
                          visit[t][i].u = u /\ ~visit[t][i].dwell /\ visit[t][i].at + Window >= now}
  <2>5. (Inter!Fresh(t, k, FALSE))' \ Inter!Fresh(t, k, FALSE) \subseteq Visitors \ recent
    BY <2>1, <2>2
  <2>6. /\ Inter!Fresh(t, k, FALSE) \subseteq (Inter!Fresh(t, k, FALSE))' \/ seen'[t] # seen[t]
        /\ (Inter!Fresh(t, k, FALSE))' \subseteq (Inter!ListUsers(t, k))'
    BY ZenonT(30), <1>2, <2>1, <2>3, <2>4
  <2> QED
    BY <1>4, <2>5, <2>6
<1> QED
  BY <1>3, <1>4

\* Only visitors are counted as unread.
LEMMA InterCounts ==
  ASSUME NEW t \in Inter!Targets, NEW k \in Inter!Kinds, NEW entry \in BOOLEAN
  PROVE  Inter!Fresh(t, k, entry) \subseteq Visitors /\ IsFiniteSet(Inter!Fresh(t, k, entry))
         /\ Cardinality(Inter!Fresh(t, k, entry)) \in Nat
<1>1. "share" \notin Marks /\ "visit" \notin Marks /\ "share" # "visit"
  BY InterConstants
<1>2. Inter!Fresh(t, k, entry) \subseteq Visitors
  <2>1. CASE k \in Marks
    BY <2>1 DEF Inter!Fresh
  <2>2. CASE k = "share"
    BY <1>1, <2>2 DEF Inter!Fresh
  <2>3. CASE k = "visit"
    BY <1>1, <2>3 DEF Inter!Fresh
  <2> QED
    BY <2>1, <2>2, <2>3 DEF Inter!Kinds
<1> QED
  BY <1>2, InterConstants, FS_Subset, FS_CardinalityType

LEMMA InterFinite == IsFiniteSet(Inter!Kinds) /\ IsFiniteSet(Inter!People) /\ IsFiniteSet(Inter!Targets)
<1>1. IsFiniteSet({"share", "visit"})
  <2>1. {"share", "visit"} = {"share"} \cup {"visit"}
    OBVIOUS
  <2>2. IsFiniteSet({"share"})
    BY FS_Singleton
  <2>3. IsFiniteSet({"share"} \cup {"visit"})
    BY <2>2, FS_AddElement
  <2> QED
    BY <2>1, <2>3
<1> QED
  BY <1>1, InterConstants, FS_AddElement, FS_Union DEF Inter!Kinds, Inter!People, Inter!Targets

\* The query of the totals counts by kind, those of the targets by target.
LEMMA InterTotals ==
  ASSUME NEW T \in SUBSET Inter!Targets, NEW entry \in BOOLEAN
  PROVE  SumFunction([k \in Inter!Kinds |-> Cardinality(Inter!Pairs(T, k, entry))])
           = SumFunction([t \in T |-> SumFunction([k \in Inter!Kinds |-> Cardinality(Inter!Fresh(t, k, entry))])])
<1> DEFINE rows == [t \in T |-> [k \in Inter!Kinds |-> Cardinality(Inter!Fresh(t, k, entry))]]
           columns == [k \in Inter!Kinds |-> [t \in T |-> Cardinality(Inter!Fresh(t, k, entry))]]
           r == [t \in T |-> SumFunction([k \in Inter!Kinds |-> Cardinality(Inter!Fresh(t, k, entry))])]
           c == [k \in Inter!Kinds |-> Cardinality(Inter!Pairs(T, k, entry))]
<1>0. IsFiniteSet(T) /\ IsFiniteSet(Inter!Kinds)
  BY InterFinite, FS_Subset
<1>1. \A t \in T, k \in Inter!Kinds : rows[t][k] \in Nat /\ columns[k][t] = rows[t][k]
  BY InterCounts
<1>2. \A t \in T : r[t] = SumFunctionOnSet(rows[t], Inter!Kinds)
  BY DEF SumFunction
<1>3. \A k \in Inter!Kinds : c[k] = SumFunctionOnSet(columns[k], T)
  <2> SUFFICES ASSUME NEW k \in Inter!Kinds
               PROVE  Cardinality(Inter!Pairs(T, k, entry)) = SumFunctionOnSet(columns[k], T)
    OBVIOUS
  <2> DEFINE F == [t \in T |-> Inter!Fresh(t, k, entry)]
  <2>1. \A t \in T : IsFiniteSet(F[t])
    BY InterCounts
  <2>2. Inter!Pairs(T, k, entry) = UNION {{t} \X F[t] : t \in T}
    BY DEF Inter!Pairs
  <2>3. columns[k] = [t \in T |-> Cardinality(F[t])]
    OBVIOUS
  <2> HIDE DEF F
  <2>4. Cardinality(UNION {{t} \X F[t] : t \in T}) = SumFunctionOnSet([t \in T |-> Cardinality(F[t])], T)
    BY <1>0, <2>1, SumCounts
  <2> QED
    BY <2>2, <2>3, <2>4
<1>4. SumFunction(r) = SumFunctionOnSet(r, T) /\ SumFunction(c) = SumFunctionOnSet(c, Inter!Kinds)
  BY DEF SumFunction
<1>5. SumFunctionOnSet(r, T) = SumFunctionOnSet(c, Inter!Kinds)
  <2> HIDE DEF rows, columns, r, c
  <2> QED
    <3>1. SumTable(rows, columns, r, c, T, Inter!Kinds)
      BY <1>0, <1>1, <1>2, <1>3 DEF SumTable
    <3> QED
      BY <3>1, SumByRows
<1> QED
  BY <1>4, <1>5

\* Whoever is unread is in a row of his own.
LEMMA InterRowsSuffice ==
  ASSUME InterInv, NEW t \in Inter!Targets, NEW k \in Inter!Kinds \ {"visit"}, NEW entry \in BOOLEAN
  PROVE  Cardinality(Inter!Fresh(t, k, entry)) <= Inter!getInteraction(t, k)
<1>1. "share" \notin Marks /\ "visit" \notin Marks /\ "share" # "visit"
  BY InterConstants
<1>2. Inter!dashboardUnreadScope(t, k, entry) \in Nat
  <2>1. seen[t] \in [Inter!Kinds \cup {"entry"} -> Inter!Times]
    BY DEF InterInv
  <2> QED
    BY <2>1 DEF Inter!dashboardUnreadScope, Inter!Times
<1>3. CASE k \in Marks
  <2>1. \A u \in Inter!People : mark[k][t][u] \in Nat
    BY <1>3 DEF InterInv, Inter!Times
  <2>2. Inter!Fresh(t, k, entry) \subseteq Inter!ListUsers(t, k)
    BY <1>2, <1>3, <2>1 DEF Inter!Fresh, Inter!ListUsers, Inter!People
  <2>3. IsFiniteSet(Inter!ListUsers(t, k))
    <3>1. Inter!ListUsers(t, k) \in SUBSET Inter!People
      BY <1>1, <1>3 DEF Inter!ListUsers
    <3> QED
      BY <3>1, InterFinite, FS_Subset
  <2> QED
    BY InterLibrary, <1>3, <2>2, <2>3, FS_Subset DEF Inter!getInteraction
<1>4. CASE k = "share"
  <2> DEFINE S == Inter!Fresh(t, k, entry)
             n == Len(share[t])
             f == [u \in S |-> CHOOSE i \in DOMAIN share[t] : share[t][i].u = u]
  <2>1. \A u \in S : \E i \in DOMAIN share[t] : share[t][i].u = u
    BY <1>1, <1>4 DEF Inter!Fresh
  <2>2. n \in Nat /\ DOMAIN share[t] = 1..n
    BY InterRows
  <2>3. \A u \in S : f[u] \in 1..n /\ share[t][f[u]].u = u
    BY <2>1, <2>2
  <2> HIDE DEF S, n
  <2>4. f \in Injection(S, 1..n)
    <3>1. f \in [S -> 1..n]
      BY <2>3
    <3> HIDE DEF f
    <3> QED
      BY <2>3, <3>1 DEF Injection, IsInjective
  <2>5. IsFiniteSet(1..n) /\ Cardinality(1..n) = n
    BY <2>2, FS_Interval
  <2>6. Cardinality(S) <= n
    <3> HIDE DEF f
    <3> QED
      BY <2>4, <2>5, FS_Injection
  <2> QED
    BY <1>1, <1>4, <2>6 DEF Inter!getInteraction, S, n
<1> QED
  BY <1>3, <1>4 DEF Inter!Kinds

LEMMA InterAgrees ==
  ASSUME InterInv
  PROVE  Inter!DashboardAgrees
<1>0. member \subseteq Projects /\ CardIds \subseteq Inter!Targets /\ Projects \subseteq Inter!Targets
  BY DEF InterInv, Inter!Targets
<1>1. ASSUME NEW entry \in BOOLEAN
      PROVE  Inter!UnreadDashboardTotals(entry).project
               = SumFunction([p \in member \cap approved |-> Inter!BatchProjectUnread(p, entry)])
  <2> DEFINE T == member \cap approved
  <2>1. \A p \in T : Inter!BatchProjectUnread(p, entry) = SumFunction([k \in Inter!Kinds |-> Cardinality(Inter!Fresh(p, k, entry))])
    BY InterLibrary DEF Inter!BatchProjectUnread
  <2>2. [p \in T |-> Inter!BatchProjectUnread(p, entry)]
          = [p \in T |-> SumFunction([k \in Inter!Kinds |-> Cardinality(Inter!Fresh(p, k, entry))])]
    BY <2>1
  <2>3. T \in SUBSET Inter!Targets
    BY <1>0
  <2>4. Inter!UnreadDashboardTotals(entry).project = SumFunction([k \in Inter!Kinds |-> Cardinality(Inter!Pairs(T, k, entry))])
    BY InterLibrary DEF Inter!UnreadDashboardTotals
  <2> HIDE DEF T
  <2>5. SumFunction([k \in Inter!Kinds |-> Cardinality(Inter!Pairs(T, k, entry))])
          = SumFunction([p \in T |-> Inter!BatchProjectUnread(p, entry)])
    BY <1>1, <2>2, <2>3, InterTotals
  <2> QED
    BY <2>4, <2>5 DEF T
<1>2. Inter!UnreadDashboardTotals(FALSE).talent = SumFunction([t \in CardIds |-> Inter!UnreadForTarget(t)])
  <2>1. Inter!UnreadDashboardTotals(FALSE).talent = SumFunction([k \in Inter!Kinds |-> Cardinality(Inter!Pairs(CardIds, k, FALSE))])
    BY InterLibrary DEF Inter!UnreadDashboardTotals
  <2>2. [t \in CardIds |-> Inter!UnreadForTarget(t)]
          = [t \in CardIds |-> SumFunction([k \in Inter!Kinds |-> Cardinality(Inter!Fresh(t, k, FALSE))])]
    BY InterLibrary DEF Inter!UnreadForTarget
  <2> QED
    BY <1>0, <2>1, <2>2, InterTotals
<1>3. \A p \in member : Inter!BatchProjectUnread(p, FALSE) = Inter!UnreadForTarget(p)
  BY DEF Inter!BatchProjectUnread, Inter!UnreadForTarget
<1> QED
  BY InterLibrary, <1>1, <1>2, <1>3, InterRowsSuffice DEF Inter!DashboardAgrees

-----------------------------------------------------------------------------
(* Ratings of members.                                                     *)

\* The component counts and adds with the operators of the library.
LEMMA RatingLibrary ==
  /\ \A f : Rating!SumFunction(f) = SumFunction(f)
  /\ \A S : Rating!Cardinality(S) = Cardinality(S) /\ Rating!Min(S) = Min(S) /\ Rating!Max(S) = Max(S)
<1>1. \A f : Rating!SumFunction(f) = SumFunction(f)
  BY DEF Rating!SumFunction, Rating!SumFunctionOnSet, Rating!FoldFunctionOnSet,
         Rating!MapThenFoldSet,
     SumFunction, SumFunctionOnSet, FoldFunctionOnSet, MapThenFoldSet
<1>2. \A S : Rating!Cardinality(S) = Cardinality(S) /\ Rating!Min(S) = Min(S) /\ Rating!Max(S) = Max(S)
  BY DEF Rating!Cardinality, Cardinality, Rating!Min, Min, Rating!Max, Max
<1> QED
  BY <1>1, <1>2

\* The request looks for the ratings of a project, the list for those of two
\* memberships: as these are of one project, they find the same.
LEMMA RatingOffers == Rating!OfferedIsAccepted
<1> SUFFICES ASSUME NEW r \in Rating!Cycles, NEW t \in Rating!Cycles, Rating!Active(r),
                    Rating!Active(t), cycle[r].p = cycle[t].p
             PROVE  Rating!CanRate(r, t) <=> Rating!MayRate(r, t)
  BY DEF Rating!OfferedIsAccepted
<1>1. {j \in DOMAIN rating : rating[j].rater = r /\ rating[j].target = t /\ cycle[rating[j].target].p = cycle[r].p}
        = {j \in DOMAIN rating : rating[j].rater = r /\ rating[j].target = t}
  OBVIOUS
<1> DEFINE at == {rating[i].at : i \in {j \in DOMAIN rating : rating[j].rater = r /\ rating[j].target = t}}
<1>2. Rating!CanRate(r, t) <=>
        /\ cycle[r].u # cycle[t].u
        /\ ~Rating!projectRatingFreeze(cycle[r].joined) /\ ~Rating!projectRatingFreeze(cycle[t].joined)
        /\ ~Rating!projectRatingCooldown(at)
  BY DEF Rating!CanRate
<1>3. Rating!MayRate(r, t) <=>
        /\ cycle[r].u # cycle[t].u
        /\ ~Rating!projectRatingFreeze(cycle[r].joined) /\ ~Rating!projectRatingFreeze(cycle[t].joined)
        /\ ~Rating!projectRatingCooldown(at)
  BY <1>1 DEF Rating!MayRate
<1> QED
  BY <1>2, <1>3

\* The score of a membership among the memberships cy, from the ratings rs.
RatingsOf(c, rs) == {i \in DOMAIN rs : rs[i].target = c}
RatingsCounted(cy, c, rs) ==
  {i \in RatingsOf(c, rs) : \A j \in RatingsOf(c, rs) : cy[rs[j].rater].u = cy[rs[i].rater].u => j <= i}
RatingsMean(cy, c, rs) ==
  Rating!RoundedRatio(SumFunction([i \in RatingsCounted(cy, c, rs) |-> rs[i].score * rs[i].weight]),
                      SumFunction([i \in RatingsCounted(cy, c, rs) |-> rs[i].weight]))

LEMMA RatingsMeanIs ==
  ASSUME NEW c, NEW rs
  PROVE  Rating!weightedProjectRatingScore(c, rs) = RatingsMean(cycle, c, rs)
<1>1. Rating!Effective(c, rs) = RatingsCounted(cycle, c, rs)
  BY DEF Rating!Effective, RatingsCounted, RatingsOf
<1> QED
  BY RatingLibrary, <1>1 DEF Rating!weightedProjectRatingScore, RatingsMean

\* It depends on the ratings of this membership and on the users who gave them.
LEMMA RatingsMeanSame ==
  ASSUME NEW c, NEW cy, NEW cz, NEW rs, NEW rt,
         RatingsOf(c, rs) = RatingsOf(c, rt),
         \A i \in RatingsOf(c, rs) : /\ rs[i] = rt[i]
                                     /\ cy[rs[i].rater].u = cz[rs[i].rater].u
  PROVE  RatingsMean(cy, c, rs) = RatingsMean(cz, c, rt)
<1>1. RatingsCounted(cy, c, rs) = RatingsCounted(cz, c, rt)
  BY DEF RatingsCounted
<1> DEFINE I == RatingsCounted(cy, c, rs)
<1>2. \A i \in I : rs[i] = rt[i]
  BY DEF RatingsCounted
<1> HIDE DEF I
<1>3. /\ [i \in I |-> rs[i].score * rs[i].weight] = [i \in I |-> rt[i].score * rt[i].weight]
      /\ [i \in I |-> rs[i].weight] = [i \in I |-> rt[i].weight]
  BY <1>2
<1> QED
  BY <1>1, <1>3 DEF RatingsMean, I

LEMMA RatingRatio ==
  ASSUME NEW sum \in Nat, NEW n \in Nat \ {0}
  PROVE  Rating!RoundedRatio(sum, n) \in Nat
<1>1. 2 * sum + n \in Nat /\ 2 * n \in Nat \ {0}
  OBVIOUS
<1> DEFINE a == 2 * sum + n
           b == 2 * n
<1> HIDE DEF a, b
<1>2. ASSUME NEW x \in Nat, NEW y \in Nat \ {0} PROVE x \div y \in Nat
  OBVIOUS
<1>3. a \in Nat /\ b \in Nat \ {0}
  BY <1>1 DEF a, b
<1>4. a \div b \in Nat
  BY <1>2, <1>3
<1> QED
  BY <1>4 DEF Rating!RoundedRatio, a, b

\* Among finitely many natural numbers one is the greatest, and one the least.
LEMMA RatingExtremes ==
  ASSUME NEW I, NEW f, IsFiniteSet(I), I # {}, \A i \in I : f[i] \in Nat
  PROVE  /\ \E m \in I : \A i \in I : f[i] <= f[m]
         /\ \E m \in I : \A i \in I : f[m] <= f[i]
<1> DEFINE G == {T \in SUBSET I : T # {} => /\ \E m \in T : \A i \in T : f[i] <= f[m]
                                            /\ \E m \in T : \A i \in T : f[m] <= f[i]}
<1>1. {} \in G
  OBVIOUS
<1>2. ASSUME NEW T \in SUBSET I, NEW x \in I, T \in G, x \notin T PROVE T \cup {x} \in G
  <2>1. CASE T = {}
    <3>1. T \cup {x} = {x} /\ f[x] <= f[x]
      BY <2>1
    <3> QED
      BY <3>1
  <2>2. CASE T # {}
    <3>1. PICK m \in T : \A i \in T : f[i] <= f[m]
      BY <1>2, <2>2
    <3>2. PICK l \in T : \A i \in T : f[l] <= f[i]
      BY <1>2, <2>2
    <3>3. f[m] \in Nat /\ f[l] \in Nat /\ f[x] \in Nat /\ \A i \in T : f[i] \in Nat
      BY <3>1, <3>2
    <3>4. \E k \in T \cup {x} : \A i \in T \cup {x} : f[i] <= f[k]
      <4>1. CASE f[x] <= f[m]
        BY <3>1, <4>1
      <4>2. CASE f[m] <= f[x]
        <5>1. \A i \in T \cup {x} : f[i] <= f[x]
          BY <3>1, <3>3, <4>2
        <5> QED
          BY <5>1
      <4> QED
        BY <3>3, <4>1, <4>2
    <3>5. \E k \in T \cup {x} : \A i \in T \cup {x} : f[k] <= f[i]
      <4>1. CASE f[l] <= f[x]
        BY <3>2, <4>1
      <4>2. CASE f[x] <= f[l]
        <5>1. \A i \in T \cup {x} : f[x] <= f[i]
          BY <3>2, <3>3, <4>2
        <5> QED
          BY <5>1
      <4> QED
        BY <3>3, <4>1, <4>2
    <3> QED
      BY <3>4, <3>5
  <2> QED
    BY <2>1, <2>2
<1>3. I \in G
  <2> HIDE DEF G
  <2> QED
    BY <1>1, <1>2, FiniteSetsUpwards
<1> QED
  BY <1>3

\* A membership that was rated has a score.
LEMMA RatingsMeanIsNat ==
  ASSUME NEW c, NEW cy, NEW rs \in Seq(Rating!RatingRecords), RatingsOf(c, rs) # {}
  PROVE  RatingsMean(cy, c, rs) \in Nat
<1> DEFINE I == RatingsCounted(cy, c, rs)
           J == RatingsOf(c, rs)
           id == [i \in J |-> i]
           w == [i \in I |-> rs[i].weight]
           sw == [i \in I |-> rs[i].score * rs[i].weight]
<1>1. DOMAIN rs = 1..Len(rs) /\ Len(rs) \in Nat
  BY LenProperties
<1>2. \A i \in DOMAIN rs : rs[i].weight \in Nat \ {0} /\ rs[i].score \in Nat
  <2>1. \A i \in DOMAIN rs : rs[i] \in Rating!RatingRecords
    BY <1>1, ElementOfSeq
  <2> QED
    BY <2>1, RatingConstants DEF Rating!RatingRecords
<1>3. IsFiniteSet(J) /\ J \subseteq Nat
  <2>1. IsFiniteSet(1..Len(rs)) /\ J \in SUBSET (1..Len(rs))
    BY <1>1, FS_Interval DEF RatingsOf
  <2> QED
    BY <1>1, <2>1, FS_Subset
<1>4. I \subseteq J /\ IsFiniteSet(I)
  BY <1>3, FS_Subset DEF RatingsCounted
<1>5. PICK m \in J : \A i \in J : i <= m
  <2>1. \A i \in J : id[i] \in Nat
    BY <1>3
  <2>2. \E m \in J : \A i \in J : id[i] <= id[m]
    <3> HIDE DEF id, J
    <3> QED
      BY <1>3, <2>1, RatingExtremes DEF J
  <2> QED
    BY <2>2
<1>6. m \in I
  BY <1>5 DEF RatingsCounted
<1>7. \A i \in I : rs[i].weight \in Nat \ {0} /\ rs[i].score \in Nat
  BY <1>2, <1>4 DEF RatingsOf
<1>8. \A i \in I : w[i] \in Nat /\ w[i] # 0 /\ sw[i] \in Nat
  <2>1. ASSUME NEW x \in Nat, NEW y \in Nat PROVE x * y \in Nat
    OBVIOUS
  <2> QED
    BY <1>7, <2>1
<1>9. SumFunction(w) = SumFunctionOnSet(w, I) /\ SumFunction(sw) = SumFunctionOnSet(sw, I)
  BY DEF SumFunction
<1> HIDE DEF I, w, sw
<1>10. SumFunctionOnSet(w, I) \in Nat /\ SumFunctionOnSet(sw, I) \in Nat /\ w[m] <= SumFunctionOnSet(w, I)
  BY <1>4, <1>6, <1>8, SumIsNat, SumBounds
<1>11. SumFunction(w) \in Nat \ {0} /\ SumFunction(sw) \in Nat
  BY <1>6, <1>8, <1>9, <1>10
<1>12. Rating!RoundedRatio(SumFunction(sw), SumFunction(w)) \in Nat
  BY <1>11, RatingRatio
<1> QED
  BY <1>12 DEF RatingsMean, I, w, sw

\* The memberships whose scores a user's index is the mean of.
RatingsPast(u, cs) == {c \in DOMAIN cs : cs[c].u = u /\ cs[c].state = "removed" /\ cs[c].frozen # None}
RatingsPresent(u, cs) == {c \in DOMAIN cs : cs[c].u = u /\ cs[c].state = "active" /\ cs[c].score # None}

\* The index depends on them alone.
LEMMA RatingIndexSame ==
  ASSUME NEW u, NEW cs, NEW ct,
         RatingsPast(u, cs) = RatingsPast(u, ct), RatingsPresent(u, cs) = RatingsPresent(u, ct),
         \A c \in RatingsPast(u, cs) : cs[c].frozen = ct[c].frozen,
         \A c \in RatingsPresent(u, cs) : cs[c].score = ct[c].score
  PROVE  Rating!Collaboration(u, cs) = Rating!Collaboration(u, ct)
<1> DEFINE past == RatingsPast(u, cs)
           present == RatingsPresent(u, cs)
<1>1. /\ [c \in past |-> cs[c].frozen] = [c \in past |-> ct[c].frozen]
      /\ [c \in present |-> cs[c].score] = [c \in present |-> ct[c].score]
  OBVIOUS
<1>2. /\ past = {c \in DOMAIN ct : ct[c].u = u /\ ct[c].state = "removed" /\ ct[c].frozen # None}
      /\ present = {c \in DOMAIN ct : ct[c].u = u /\ ct[c].state = "active" /\ ct[c].score # None}
  BY DEF RatingsPast, RatingsPresent
<1>3. /\ past = {c \in DOMAIN cs : cs[c].u = u /\ cs[c].state = "removed" /\ cs[c].frozen # None}
      /\ present = {c \in DOMAIN cs : cs[c].u = u /\ cs[c].state = "active" /\ cs[c].score # None}
  BY DEF RatingsPast, RatingsPresent
<1> HIDE DEF past, present
<1>4. Rating!Collaboration(u, cs) =
        IF past \cup present = {} THEN Rating!InitialScore
        ELSE Rating!RoundedRatio(SumFunction([c \in past |-> cs[c].frozen]) + SumFunction([c \in present |-> cs[c].score]),
                                 Cardinality(past) + Cardinality(present))
  BY RatingLibrary, <1>3 DEF Rating!Collaboration
<1>5. Rating!Collaboration(u, ct) =
        IF past \cup present = {} THEN Rating!InitialScore
        ELSE Rating!RoundedRatio(SumFunction([c \in past |-> ct[c].frozen]) + SumFunction([c \in present |-> ct[c].score]),
                                 Cardinality(past) + Cardinality(present))
  BY RatingLibrary, <1>2 DEF Rating!Collaboration
<1> QED
  BY <1>1, <1>4, <1>5

LEMMA RatingCycles ==
  ASSUME NEW cs \in Seq(Rating!CycleRecords)
  PROVE  /\ Len(cs) \in Nat /\ DOMAIN cs = 1..Len(cs) /\ IsFiniteSet(DOMAIN cs)
         /\ cs \in [DOMAIN cs -> Rating!CycleRecords]
         /\ \A c \in DOMAIN cs : cs[c] \in Rating!CycleRecords
<1>1. Len(cs) \in Nat /\ DOMAIN cs = 1..Len(cs) /\ cs \in [1..Len(cs) -> Rating!CycleRecords]
  BY LenProperties
<1>2. IsFiniteSet(1..Len(cs))
  BY <1>1, FS_Interval
<1> QED
  BY <1>1, <1>2

\* An index is a number.
LEMMA RatingIndexIsNat ==
  ASSUME NEW u, NEW cs \in Seq(Rating!CycleRecords)
  PROVE  Rating!Collaboration(u, cs) \in Nat
<1> DEFINE past == RatingsPast(u, cs)
           present == RatingsPresent(u, cs)
           f == [c \in past |-> cs[c].frozen]
           g == [c \in present |-> cs[c].score]
<1>0. /\ IsFiniteSet(DOMAIN cs) /\ \A c \in DOMAIN cs : cs[c] \in Rating!CycleRecords
  BY RatingCycles
<1>1. past \in SUBSET DOMAIN cs /\ present \in SUBSET DOMAIN cs
  BY DEF RatingsPast, RatingsPresent
<1>2. /\ IsFiniteSet(past) /\ IsFiniteSet(present)
      /\ Cardinality(past) \in Nat /\ Cardinality(present) \in Nat
  BY <1>0, <1>1, FS_Subset, FS_CardinalityType
<1>3. /\ \A c \in past : f[c] \in Nat
      /\ \A c \in present : g[c] \in Nat
  BY <1>0 DEF RatingsPast, RatingsPresent, Rating!CycleRecords
<1>4. SumFunction(f) = SumFunctionOnSet(f, past) /\ SumFunction(g) = SumFunctionOnSet(g, present)
  BY DEF SumFunction
<1>5. Rating!Collaboration(u, cs) =
        IF past \cup present = {} THEN Rating!InitialScore
        ELSE Rating!RoundedRatio(SumFunction(f) + SumFunction(g), Cardinality(past) + Cardinality(present))
  BY RatingLibrary DEF Rating!Collaboration, RatingsPast, RatingsPresent
<1> HIDE DEF past, present, f, g
<1>6. SumFunctionOnSet(f, past) \in Nat /\ SumFunctionOnSet(g, present) \in Nat
  BY <1>2, <1>3, SumIsNat
<1>7. SumFunction(f) + SumFunction(g) \in Nat
  BY <1>4, <1>6
<1>8. CASE past \cup present = {}
  BY <1>5, <1>8 DEF Rating!InitialScore
<1>9. CASE past \cup present # {}
  <2>1. Cardinality(past) # 0 \/ Cardinality(present) # 0
    BY <1>2, <1>9, FS_EmptySet
  <2>2. Cardinality(past) + Cardinality(present) \in Nat \ {0}
    BY <1>2, <2>1
  <2> QED
    BY <1>5, <1>7, <1>9, <2>2, RatingRatio
<1> QED
  BY <1>8, <1>9

\* The removal of a member leaves its collaboration score alone: the copied score
\* that replaces the live one in the mean is the same number with the same weight.
THEOREM RatingIndexMoves ==
  ASSUME NEW cs \in Seq(Rating!CycleRecords), NEW u, NEW e \in DOMAIN cs, NEW ct,
         cs[e].state = "active", DOMAIN ct = DOMAIN cs,
         \A c \in DOMAIN cs : c # e => ct[c] = cs[c],
         ct[e].u = cs[e].u, ct[e].state = "removed", ct[e].frozen = cs[e].score
  PROVE  Rating!Collaboration(u, ct) = Rating!Collaboration(u, cs)
<1>1. CASE cs[e].u # u \/ cs[e].score = None
  <2>1. RatingsPast(u, cs) = RatingsPast(u, ct) /\ RatingsPresent(u, cs) = RatingsPresent(u, ct)
        /\ e \notin RatingsPast(u, cs) /\ e \notin RatingsPresent(u, cs)
    BY <1>1 DEF RatingsPast, RatingsPresent
  <2>2. /\ \A c \in RatingsPast(u, cs) : cs[c].frozen = ct[c].frozen
        /\ \A c \in RatingsPresent(u, cs) : cs[c].score = ct[c].score
    BY <2>1 DEF RatingsPast, RatingsPresent
  <2> QED
    BY <2>1, <2>2, RatingIndexSame
<1>2. CASE cs[e].u = u /\ cs[e].score # None
  <2> DEFINE past == RatingsPast(u, cs)
             present == RatingsPresent(u, cs)
             past2 == RatingsPast(u, ct)
             present2 == RatingsPresent(u, ct)
             f == [c \in past |-> cs[c].frozen]
             g == [c \in present |-> cs[c].score]
             f2 == [c \in past2 |-> ct[c].frozen]
             g2 == [c \in present2 |-> ct[c].score]
  <2>0. /\ IsFiniteSet(DOMAIN cs) /\ \A c \in DOMAIN cs : cs[c] \in Rating!CycleRecords
    BY RatingCycles
  <2>1. /\ past2 = past \cup {e} /\ e \notin past
        /\ present2 = present \ {e} /\ e \in present
    BY <1>2 DEF RatingsPast, RatingsPresent
  <2>2. past \in SUBSET DOMAIN cs /\ present \in SUBSET DOMAIN cs
    BY DEF RatingsPast, RatingsPresent
  <2>3. IsFiniteSet(past) /\ IsFiniteSet(present) /\ IsFiniteSet(past2) /\ IsFiniteSet(present2)
    BY <2>0, <2>1, <2>2, FS_Subset, FS_AddElement, FS_RemoveElement
  <2>4. /\ \A c \in past : f[c] \in Nat
        /\ \A c \in present : g[c] \in Nat
    BY <2>0 DEF RatingsPast, RatingsPresent, Rating!CycleRecords
  <2>5. /\ \A c \in past : f2[c] = f[c]
        /\ \A c \in present2 : g2[c] = g[c]
        /\ f2[e] = g[e]
    BY <2>1 DEF RatingsPast, RatingsPresent
  <2>6. /\ Rating!Collaboration(u, cs) =
             IF past \cup present = {} THEN Rating!InitialScore
             ELSE Rating!RoundedRatio(SumFunction(f) + SumFunction(g), Cardinality(past) + Cardinality(present))
        /\ Rating!Collaboration(u, ct) =
             IF past2 \cup present2 = {} THEN Rating!InitialScore
             ELSE Rating!RoundedRatio(SumFunction(f2) + SumFunction(g2), Cardinality(past2) + Cardinality(present2))
    BY RatingLibrary DEF Rating!Collaboration, RatingsPast, RatingsPresent
  <2>7. /\ SumFunction(f) = SumFunctionOnSet(f, past) /\ SumFunction(g) = SumFunctionOnSet(g, present)
        /\ SumFunction(f2) = SumFunctionOnSet(f2, past2) /\ SumFunction(g2) = SumFunctionOnSet(g2, present2)
    BY DEF SumFunction
  <2> HIDE DEF past, present, past2, present2, f, g, f2, g2
  <2>8. /\ \A c \in past2 : f2[c] \in Nat
        /\ \A c \in present2 : g2[c] \in Nat
    BY <2>1, <2>4, <2>5
  <2>9. SumFunctionOnSet(f2, past2) = f2[e] + SumFunctionOnSet(f2, past)
    BY <2>1, <2>3, <2>8, SumWith
  <2>10. SumFunctionOnSet(g, present) = g[e] + SumFunctionOnSet(g, present2)
    BY <2>1, <2>3, <2>4, SumWithout
  <2>11. SumFunctionOnSet(f2, past) = SumFunctionOnSet(f, past)
    BY <2>3, <2>4, <2>5, SumSame
  <2>12. SumFunctionOnSet(g2, present2) = SumFunctionOnSet(g, present2)
    BY <2>3, <2>5, <2>8, SumSame
  <2>13. /\ SumFunctionOnSet(f, past) \in Nat /\ SumFunctionOnSet(g, present2) \in Nat /\ g[e] \in Nat
    <3>1. SumFunctionOnSet(f, past) \in Nat /\ SumFunctionOnSet(g2, present2) \in Nat
      BY <2>3, <2>4, <2>8, SumIsNat
    <3> QED
      BY <2>1, <2>4, <2>12, <3>1
  <2>14. SumFunction(f2) + SumFunction(g2) = SumFunction(f) + SumFunction(g)
    <3> DEFINE a == SumFunctionOnSet(f, past)
               b == SumFunctionOnSet(g, present2)
               x == g[e]
    <3>1. SumFunction(f2) = x + a /\ SumFunction(g2) = b /\ SumFunction(f) = a /\ SumFunction(g) = x + b
      BY <2>5, <2>7, <2>9, <2>10, <2>11, <2>12
    <3>2. a \in Nat /\ b \in Nat /\ x \in Nat
      BY <2>13
    <3> HIDE DEF a, b, x
    <3> QED
      BY <3>1, <3>2
  <2>15. Cardinality(past2) + Cardinality(present2) = Cardinality(past) + Cardinality(present)
    <3>1. Cardinality(past2) = Cardinality(past) + 1
      BY <2>1, <2>3, FS_AddElement
    <3>2. Cardinality(present2) = Cardinality(present) - 1
      BY <2>1, <2>3, FS_RemoveElement
    <3>3. Cardinality(past) \in Nat /\ Cardinality(present) \in Nat
      BY <2>3, FS_CardinalityType
    <3> QED
      BY <3>1, <3>2, <3>3
  <2>16. past \cup present # {} /\ past2 \cup present2 # {}
    BY <2>1
  <2> QED
    BY <2>6, <2>14, <2>15, <2>16
<1> QED
  BY <1>1, <1>2

\* When memberships of one user in one project lie, one after the other, and when
\* they were rated; and which of their numbers are the same.
RatingTimes ==
  /\ \A c \in Rating!Cycles : cycle[c].joined <= cycle[c].ended /\ cycle[c].ended <= now
  /\ \A c, d \in Rating!Cycles : c < d /\ cycle[c].p = cycle[d].p /\ cycle[c].u = cycle[d].u
                                   => cycle[c].state # "active" /\ cycle[c].ended < cycle[d].joined
  /\ \A i \in DOMAIN rating :
       LET c == rating[i].target
       IN  /\ cycle[c].joined <= rating[i].at /\ rating[i].at <= now
           /\ cycle[c].state \in {"removed", "lost"} => rating[i].at <= cycle[c].ended

RatingScored(c) ==
  /\ cycle[c].state # "gone" /\ RatingsOf(c, rating) # {} => cycle[c].score = RatingsMean(cycle, c, rating)
  /\ cycle[c].state = "removed" =>
       /\ cycle[c].left = cycle[c].score
       /\ ~cycle[c].edited => cycle[c].frozen = cycle[c].score
       /\ cycle[c].score # None => cycle[c].frozen # None

RatingInv ==
  /\ Rating!TypeOK
  /\ RatingTimes
  /\ \A c \in Rating!Cycles : RatingScored(c)
  /\ \A u \in Users \ unheard : index[u] = Rating!Collaboration(u, cycle)

LEMMA RatingStarts == Rating!Init => RatingInv
<1> SUFFICES ASSUME Rating!Init PROVE RatingInv
  OBVIOUS
<1>1. /\ now = 0 /\ cycle = << >> /\ rating = << >> /\ unheard = {}
      /\ index = [u \in Users |-> Rating!InitialScore]
  BY DEF Rating!Init
<1>2. DOMAIN cycle = {} /\ DOMAIN rating = {} /\ cycle \in Seq(Rating!CycleRecords) /\ rating \in Seq(Rating!RatingRecords)
  BY <1>1, EmptySeq
<1>3. Rating!TypeOK
  BY <1>1, <1>2 DEF Rating!TypeOK, Rating!InitialScore
<1>4. \A u \in Users : Rating!Collaboration(u, cycle) = Rating!InitialScore
  BY <1>2 DEF Rating!Collaboration
<1> QED
  BY <1>1, <1>2, <1>3, <1>4 DEF RatingInv, RatingTimes, Rating!Cycles

LEMMA RatingProperties ==
  ASSUME RatingInv
  PROVE  Rating!TypeOK /\ Rating!OfferedIsAccepted /\ Rating!ScoresAgree
<1>1. \A c : RatingsOf(c, rating) = {i \in DOMAIN rating : rating[i].target = c}
  BY DEF RatingsOf
<1>2. \A c \in Rating!Cycles :
        /\ cycle[c].state # "gone" /\ {i \in DOMAIN rating : rating[i].target = c} # {}
             => cycle[c].score = Rating!weightedProjectRatingScore(c, rating)
        /\ cycle[c].state = "removed" => cycle[c].left = cycle[c].score
        /\ cycle[c].state = "removed" /\ ~cycle[c].edited => cycle[c].frozen = cycle[c].score
  BY <1>1, RatingsMeanIs DEF RatingInv, RatingScored
<1>3. Rating!ScoresAgree
  BY <1>2 DEF Rating!ScoresAgree, RatingInv
<1> QED
  BY <1>3, RatingOffers DEF RatingInv

\* What the invariant says of the rows.
LEMMA RatingFacts ==
  ASSUME RatingInv
  PROVE  /\ now \in Nat
         /\ Len(cycle) \in Nat /\ Rating!Cycles = 1..Len(cycle)
         /\ \A c \in Rating!Cycles : /\ cycle[c].p \in Projects /\ cycle[c].u \in Users /\ cycle[c].weight \in Weights
                                     /\ cycle[c].joined \in Nat /\ cycle[c].ended \in Nat
                                     /\ cycle[c].state \in {"active", "removed", "lost", "gone"}
                                     /\ cycle[c].score \in Nat \cup {None}
         /\ Len(rating) \in Nat /\ DOMAIN rating = 1..Len(rating)
         /\ \A i \in DOMAIN rating : /\ rating[i] \in Rating!RatingRecords
                                     /\ rating[i].rater \in Rating!Cycles /\ rating[i].target \in Rating!Cycles
                                     /\ rating[i].at \in Nat
<1>1. cycle \in Seq(Rating!CycleRecords) /\ rating \in Seq(Rating!RatingRecords) /\ now \in Nat
  BY DEF RatingInv, Rating!TypeOK
<1>2. /\ Len(cycle) \in Nat /\ Rating!Cycles = 1..Len(cycle)
      /\ Len(rating) \in Nat /\ DOMAIN rating = 1..Len(rating)
  BY <1>1, LenProperties DEF Rating!Cycles
<1>3. /\ \A c \in Rating!Cycles : cycle[c] \in Rating!CycleRecords
      /\ \A i \in DOMAIN rating : rating[i] \in Rating!RatingRecords
  BY <1>1, <1>2, ElementOfSeq
<1>4. \A c \in Rating!Cycles : /\ cycle[c].p \in Projects /\ cycle[c].u \in Users /\ cycle[c].weight \in Weights
                               /\ cycle[c].joined \in Nat /\ cycle[c].ended \in Nat
                               /\ cycle[c].state \in {"active", "removed", "lost", "gone"}
                               /\ cycle[c].score \in Nat \cup {None}
  BY <1>3 DEF Rating!CycleRecords
<1>5. \A i \in DOMAIN rating : /\ rating[i].rater \in Rating!Cycles /\ rating[i].target \in Rating!Cycles /\ rating[i].at \in Nat
  BY <1>3 DEF RatingInv, Rating!TypeOK, Rating!Cycles, Rating!RatingRecords
<1> QED
  BY <1>1, <1>2, <1>3, <1>4, <1>5

\* What a change of a membership leaves alone.
RatingMoves(c) ==
  /\ cycle'[c].p = cycle[c].p /\ cycle'[c].u = cycle[c].u
  /\ cycle'[c].joined = cycle[c].joined
  /\ cycle'[c].state = "active" => cycle[c].state = "active"
  /\ \/ /\ cycle'[c].ended = cycle[c].ended
        /\ cycle'[c].state \in {"removed", "lost"} => cycle[c].state = cycle'[c].state
     \/ cycle[c].state = "active" /\ cycle'[c].state # "active" /\ cycle'[c].ended = now

LEMMA RatingTimesKept ==
  ASSUME RatingInv, DOMAIN cycle' = DOMAIN cycle, \A c \in Rating!Cycles : RatingMoves(c),
         now' \in Nat, now <= now', DOMAIN rating' = DOMAIN rating,
         \A i \in DOMAIN rating : rating'[i].target = rating[i].target /\ rating'[i].at = rating[i].at
  PROVE  RatingTimes'
<1>0. /\ now \in Nat /\ Rating!Cycles \subseteq Nat
      /\ \A c \in Rating!Cycles : cycle[c].joined \in Nat /\ cycle[c].ended \in Nat
      /\ \A i \in DOMAIN rating : rating[i].target \in Rating!Cycles /\ rating[i].at \in Nat
  BY RatingFacts
<1>1. ASSUME NEW c \in Rating!Cycles
      PROVE  cycle'[c].joined <= cycle'[c].ended /\ cycle'[c].ended <= now'
  <2>1. cycle[c].joined <= cycle[c].ended /\ cycle[c].ended <= now
    BY DEF RatingInv, RatingTimes
  <2>2. cycle'[c].joined = cycle[c].joined /\ cycle'[c].ended \in {cycle[c].ended, now}
    BY DEF RatingMoves
  <2> QED
    BY <1>0, <2>1, <2>2
<1>2. ASSUME NEW c \in Rating!Cycles, NEW d \in Rating!Cycles, c < d, cycle'[c].p = cycle'[d].p,
             cycle'[c].u = cycle'[d].u
      PROVE  cycle'[c].state # "active" /\ cycle'[c].ended < cycle'[d].joined
  <2>1. cycle[c].p = cycle[d].p /\ cycle[c].u = cycle[d].u /\ cycle'[d].joined = cycle[d].joined
    BY <1>2 DEF RatingMoves
  <2>2. cycle[c].state # "active" /\ cycle[c].ended < cycle[d].joined
    BY <1>2, <2>1 DEF RatingInv, RatingTimes
  <2> QED
    BY <2>1, <2>2 DEF RatingMoves
<1>3. ASSUME NEW i \in DOMAIN rating
      PROVE  LET c == rating'[i].target
             IN  /\ cycle'[c].joined <= rating'[i].at /\ rating'[i].at <= now'
                 /\ cycle'[c].state \in {"removed", "lost"} => rating'[i].at <= cycle'[c].ended
  <2> DEFINE c == rating[i].target
  <2>1. /\ cycle[c].joined <= rating[i].at /\ rating[i].at <= now
        /\ cycle[c].state \in {"removed", "lost"} => rating[i].at <= cycle[c].ended
    BY DEF RatingInv, RatingTimes
  <2>2. RatingMoves(c) /\ rating'[i].target = c /\ rating'[i].at = rating[i].at
    BY <1>0
  <2> HIDE DEF c
  <2>3. /\ cycle'[c].joined = cycle[c].joined
        /\ cycle'[c].state \in {"removed", "lost"} => rating[i].at <= cycle'[c].ended
    BY <2>1, <2>2 DEF RatingMoves
  <2> QED
    BY <1>0, <2>1, <2>2, <2>3
<1> QED
  BY <1>1, <1>2, <1>3 DEF RatingTimes, Rating!Cycles

\* What keeps the type of the memberships.
LEMMA RatingTyped ==
  ASSUME RatingInv, NEW cs, DOMAIN cs = DOMAIN cycle, cs = [c \in DOMAIN cs |-> cs[c]],
         \A c \in Rating!Cycles : cs[c] \in Rating!CycleRecords
  PROVE  cs \in Seq(Rating!CycleRecords)
<1>1. Len(cycle) \in Nat /\ DOMAIN cycle = 1..Len(cycle) /\ Rating!Cycles = DOMAIN cycle
  BY RatingFacts DEF Rating!Cycles
<1>2. cs \in [1..Len(cycle) -> Rating!CycleRecords]
  BY <1>1
<1> QED
  BY <1>1, <1>2, SeqDef

\* How the index is kept when the memberships of one user change, and their index
\* is computed again.
LEMMA RatingIndexKept ==
  ASSUME RatingInv, NEW v \in Users, cycle' \in Seq(Rating!CycleRecords),
         DOMAIN cycle' = DOMAIN cycle,
         Rating!UpdateUserCollaborationScoreTx(v, cycle'),
         \A c \in Rating!Cycles : cycle'[c].u = cycle[c].u /\ (cycle[c].u # v => cycle'[c] = cycle[c])
  PROVE  /\ index' \in [Users -> Nat] /\ unheard' \subseteq Users
         /\ \A u \in Users \ unheard' : index'[u] = Rating!Collaboration(u, cycle')
<1>1. /\ index' = [index EXCEPT ![v] = Rating!Collaboration(v, cycle')] /\ unheard' = unheard \ {v}
      /\ index \in [Users -> Nat] /\ unheard \subseteq Users
  BY DEF Rating!UpdateUserCollaborationScoreTx, RatingInv, Rating!TypeOK
<1>2. Rating!Collaboration(v, cycle') \in Nat
  BY RatingIndexIsNat
<1>3. ASSUME NEW u \in Users \ unheard, u # v
      PROVE  Rating!Collaboration(u, cycle') = Rating!Collaboration(u, cycle)
  <2>1. \A c \in Rating!Cycles : cycle[c].u = u => cycle'[c] = cycle[c]
    BY <1>3
  <2>2. RatingsPast(u, cycle') = RatingsPast(u, cycle) /\ RatingsPresent(u, cycle') = RatingsPresent(u, cycle)
    BY <2>1 DEF RatingsPast, RatingsPresent, Rating!Cycles
  <2>3. /\ \A c \in RatingsPast(u, cycle') : cycle'[c].frozen = cycle[c].frozen
        /\ \A c \in RatingsPresent(u, cycle') : cycle'[c].score = cycle[c].score
    BY <2>1, <2>2 DEF RatingsPast, RatingsPresent, Rating!Cycles
  <2> QED
    BY <2>2, <2>3, RatingIndexSame
<1>4. \A u \in Users \ unheard : index[u] = Rating!Collaboration(u, cycle)
  BY DEF RatingInv
<1>5. \A u \in Users \ unheard' : index'[u] = Rating!Collaboration(u, cycle')
  BY <1>1, <1>3, <1>4
<1> QED
  BY <1>1, <1>2, <1>5

\* A membership whose ratings and scores are left alone keeps what is said of it.
LEMMA RatingScoredKept ==
  ASSUME RatingInv, NEW c \in Rating!Cycles, \A d \in Rating!Cycles : cycle'[d].u = cycle[d].u,
         RatingsOf(c, rating') = RatingsOf(c, rating),
         \A i \in RatingsOf(c, rating) : rating'[i] = rating[i],
         cycle'[c].score = cycle[c].score, cycle'[c].left = cycle[c].left,
         cycle'[c].frozen = cycle[c].frozen, cycle'[c].edited = cycle[c].edited,
         cycle'[c].state # "gone" => cycle[c].state # "gone",
         cycle'[c].state = "removed" => cycle[c].state = "removed"
  PROVE  RatingScored(c)'
<1>1. \A i \in RatingsOf(c, rating) : rating[i].rater \in Rating!Cycles
  BY RatingFacts DEF RatingsOf
<1>2. RatingsMean(cycle', c, rating') = RatingsMean(cycle, c, rating)
  BY <1>1, RatingsMeanSame
<1>3. RatingScored(c)
  BY DEF RatingInv
<1> QED
  BY <1>2, <1>3 DEF RatingScored

\* RateProjectMember.
LEMMA RatingRates ==
  ASSUME RatingInv, NEW r \in Rating!Cycles, NEW t \in Rating!Cycles, NEW s \in Scores,
         Rating!RateProjectMember(r, t, s)
  PROVE  RatingInv'
<1> DEFINE line == [rater |-> r, target |-> t, weight |-> cycle[r].weight, score |-> s, at |-> now]
           rs == Append(rating, line)
           n == Len(rating)
           v == RatingsMean(cycle, t, rs)
           w == cycle[t].u
<1>0. /\ now \in Nat /\ Len(cycle) \in Nat /\ Rating!Cycles = 1..Len(cycle) /\ Rating!Cycles = DOMAIN cycle
      /\ n \in Nat /\ DOMAIN rating = 1..n
      /\ cycle[r].weight \in Weights /\ w \in Users
      /\ cycle \in Seq(Rating!CycleRecords) /\ rating \in Seq(Rating!RatingRecords)
  BY RatingFacts DEF RatingInv, Rating!TypeOK, Rating!Cycles
<1>1. /\ rating' = rs /\ now' = now
      /\ cycle' = [cycle EXCEPT ![t].score = v]
      /\ Rating!UpdateUserCollaborationScoreTx(w, cycle')
      /\ cycle[t].state = "active" /\ cycle[r].state = "active"
  BY RatingsMeanIs
     DEF Rating!RateProjectMember, Rating!UpdateUserCollaborationScoreTx, Rating!MayRate,
         Rating!Active
<1>2. line \in Rating!RatingRecords /\ line.target = t /\ line.at = now /\ line.rater = r
  BY <1>0 DEF Rating!RatingRecords
<1> HIDE DEF line
<1>3. /\ rs \in Seq(Rating!RatingRecords) /\ Len(rs) = n + 1 /\ DOMAIN rs = 1..(n + 1)
      /\ rs[n + 1] = line /\ \A i \in 1..n : rs[i] = rating[i]
  BY <1>0, <1>2, AppendProperties, LenProperties
<1> HIDE DEF rs
<1>4. RatingsOf(t, rs) # {} /\ n + 1 \in RatingsOf(t, rs)
  BY <1>0, <1>2, <1>3 DEF RatingsOf
<1>5. v \in Nat
  BY <1>3, <1>4, RatingsMeanIsNat
<1> HIDE DEF v
<1>6. /\ DOMAIN cycle' = DOMAIN cycle
      /\ \A c \in Rating!Cycles : c # t => cycle'[c] = cycle[c]
      /\ cycle'[t] = [cycle[t] EXCEPT !.score = v]
      /\ cycle' = [c \in DOMAIN cycle' |-> cycle'[c]]
  BY <1>0, <1>1, RatingCycles
<1>7. /\ cycle'[t] \in Rating!CycleRecords
      /\ cycle'[t].u = cycle[t].u /\ cycle'[t].p = cycle[t].p /\ cycle'[t].joined = cycle[t].joined
      /\ cycle'[t].state = cycle[t].state /\ cycle'[t].ended = cycle[t].ended /\ cycle'[t].score = v
  <2>1. cycle[t] \in Rating!CycleRecords
    BY <1>0, RatingCycles
  <2> QED
    BY <1>5, <1>6, <2>1 DEF Rating!CycleRecords
<1>8. cycle' \in Seq(Rating!CycleRecords)
  <2>1. \A c \in Rating!Cycles : cycle'[c] \in Rating!CycleRecords
    BY <1>0, <1>6, <1>7, RatingCycles
  <2> QED
    BY <1>6, <2>1, RatingTyped
<1>9. \A c \in Rating!Cycles : cycle'[c].u = cycle[c].u
  BY <1>6, <1>7
<1>10. /\ index' \in [Users -> Nat] /\ unheard' \subseteq Users
       /\ \A u \in Users \ unheard' : index'[u] = Rating!Collaboration(u, cycle')
  <2>1. \A c \in Rating!Cycles : cycle[c].u # w => cycle'[c] = cycle[c]
    BY <1>6
  <2> QED
    BY <1>0, <1>1, <1>6, <1>8, <1>9, <2>1, RatingIndexKept
<1>11. RatingTimes'
  <2>1. \A c \in Rating!Cycles : /\ cycle'[c].p = cycle[c].p /\ cycle'[c].u = cycle[c].u
                                 /\ cycle'[c].joined = cycle[c].joined /\ cycle'[c].ended = cycle[c].ended
                                 /\ cycle'[c].state = cycle[c].state
    BY <1>6, <1>7
  <2>2. \A i \in 1..(n + 1) : i \in 1..n \/ i = n + 1
    BY <1>0
  <2>3. ASSUME NEW i \in 1..(n + 1)
        PROVE  LET c == rs[i].target
               IN  /\ cycle'[c].joined <= rs[i].at /\ rs[i].at <= now
                   /\ cycle'[c].state \in {"removed", "lost"} => rs[i].at <= cycle'[c].ended
    <3>1. CASE i \in 1..n
      <4>1. rs[i] = rating[i] /\ rating[i].target \in Rating!Cycles
        BY <1>0, <1>3, <3>1, RatingFacts
      <4> QED
        BY SMTT(30), <1>0, <2>1, <3>1, <4>1 DEF RatingInv, RatingTimes
    <3>2. CASE i = n + 1
      <4>1. cycle[t].joined <= cycle[t].ended /\ cycle[t].ended <= now
            /\ cycle[t].joined \in Nat /\ cycle[t].ended \in Nat
        BY RatingFacts DEF RatingInv, RatingTimes
      <4>2. cycle[t].joined <= now
        BY <1>0, <4>1
      <4>3. rs[i] = line
        BY <1>3, <3>2
      <4> QED
        BY <1>0, <1>1, <1>2, <1>7, <4>2, <4>3
    <3> QED
      BY <2>2, <3>1, <3>2
  <2>4. /\ \A c \in Rating!Cycles : cycle'[c].joined <= cycle'[c].ended /\ cycle'[c].ended <= now
        /\ \A c, d \in Rating!Cycles : c < d /\ cycle'[c].p = cycle'[d].p /\ cycle'[c].u = cycle'[d].u
                            => cycle'[c].state # "active" /\ cycle'[c].ended < cycle'[d].joined
    BY <2>1 DEF RatingInv, RatingTimes
  <2>5. Rating!Cycles' = Rating!Cycles /\ DOMAIN rating' = 1..(n + 1)
    BY <1>1, <1>3, <1>6 DEF Rating!Cycles
  <2> QED
    BY <1>1, <2>3, <2>4, <2>5 DEF RatingTimes
<1>12. ASSUME NEW c \in Rating!Cycles PROVE RatingScored(c)'
  <2>1. CASE c = t
    <3>1. RatingsMean(cycle', t, rs) = v
      <4>1. \A i \in RatingsOf(t, rs) : rs[i].rater \in Rating!Cycles
        <5>1. \A i \in 1..(n + 1) : i \in 1..n \/ i = n + 1
          BY <1>0
        <5> QED
          BY <1>0, <1>2, <1>3, <5>1, RatingFacts DEF RatingsOf
      <4>2. RatingsMean(cycle, t, rs) = RatingsMean(cycle', t, rs)
        BY <1>9, <4>1, RatingsMeanSame
      <4> QED
        BY <4>2 DEF v
    <3> QED
      BY <1>1, <1>7, <2>1, <3>1 DEF RatingScored
  <2>2. CASE c # t
    <3>1. RatingsOf(c, rs) = RatingsOf(c, rating)
      <4>1. \A i \in 1..(n + 1) : i \in 1..n \/ i = n + 1
        BY <1>0
      <4>2. \A i \in 1..n : i \in 1..(n + 1)
        BY <1>0
      <4> QED
        BY <1>0, <1>2, <1>3, <2>2, <4>1, <4>2 DEF RatingsOf
    <3>2. \A i \in RatingsOf(c, rating) : rs[i] = rating[i]
      BY <1>0, <1>3 DEF RatingsOf
    <3> QED
      BY <1>1, <1>6, <1>9, <2>2, <3>1, <3>2, RatingScoredKept
  <2> QED
    BY <2>1, <2>2
<1>13. Rating!TypeOK'
  <2>1. \A i \in DOMAIN rs : {rs[i].rater, rs[i].target} \subseteq Rating!Cycles
    <3>1. \A i \in 1..(n + 1) : i \in 1..n \/ i = n + 1
      BY <1>0
    <3> QED
      BY <1>0, <1>2, <1>3, <3>1, RatingFacts
  <2> QED
    BY <1>0, <1>1, <1>3, <1>6, <1>8, <1>10, <2>1 DEF Rating!TypeOK, Rating!Cycles
<1>14. Rating!Cycles' = Rating!Cycles
  BY <1>6 DEF Rating!Cycles
<1> QED
  BY <1>10, <1>11, <1>12, <1>13, <1>14 DEF RatingInv

\* The times of the ratings of a membership have a first and a last one.
LEMMA RatingFirstAndLast ==
  ASSUME RatingInv, NEW c, RatingsOf(c, rating) # {}
  PROVE  LET at == {rating[i].at : i \in RatingsOf(c, rating)}
         IN  /\ Min(at) \in at /\ \A x \in at : Min(at) <= x
             /\ Max(at) \in at /\ \A x \in at : x <= Max(at)
<1> DEFINE I == RatingsOf(c, rating)
           f == [i \in I |-> rating[i].at]
           at == {rating[i].at : i \in I}
<1>1. \A i \in I : f[i] \in Nat
  BY RatingFacts DEF RatingsOf
<1>2. IsFiniteSet(I)
  <2>1. IsFiniteSet(1..Len(rating)) /\ I \in SUBSET (1..Len(rating))
    BY RatingFacts, FS_Interval DEF RatingsOf
  <2> QED
    BY <2>1, FS_Subset
<1>3. /\ \E m \in I : \A i \in I : f[i] <= f[m]
      /\ \E m \in I : \A i \in I : f[m] <= f[i]
  <2> HIDE DEF f, I
  <2> QED
    BY <1>1, <1>2, RatingExtremes DEF I
<1>4. \A i \in I : f[i] = rating[i].at
  OBVIOUS
<1> HIDE DEF f, I
<1>5. \A x \in at : x \in Nat
  BY <1>1, <1>4
<1>6. \E x \in at : \A y \in at : x >= y
  BY <1>1, <1>3, <1>4
<1>7. \E x \in at : \A y \in at : x <= y
  BY <1>3, <1>4
<1>8. Max(at) \in at /\ \A y \in at : Max(at) >= y
  BY <1>6 DEF Max
<1>9. Min(at) \in at /\ \A y \in at : Min(at) <= y
  BY <1>7 DEF Min
<1>10. \A x \in at : x <= Max(at)
  BY <1>5, <1>8
<1> QED
  BY <1>8, <1>9, <1>10 DEF I

\* The copies of a score are found by their times, and they are those of the
\* right membership: no other one of the same user covers the same times.
THEOREM RatingCopies ==
  ASSUME RatingInv, NEW c \in Rating!Cycles, RatingsOf(c, rating) # {}, cycle[c].state # "gone"
  PROVE  /\ Rating!Matches(c) = IF cycle[c].state = "removed" THEN {c} ELSE {}
         /\ cycle[c].state = "removed" => Rating!FrozenOf(c) = {c}
<1> DEFINE at == {rating[i].at : i \in RatingsOf(c, rating)}
<1>0. /\ Rating!Cycles \subseteq Nat /\ cycle[c].state \in {"active", "removed", "lost", "gone"}
      /\ \A d \in Rating!Cycles : cycle[d].joined \in Nat /\ cycle[d].ended \in Nat
  BY RatingFacts
<1>1. /\ Min(at) \in at /\ \A x \in at : Min(at) <= x
      /\ Max(at) \in at /\ \A x \in at : x <= Max(at)
  BY RatingFirstAndLast
<1>2. \A x \in at : /\ x \in Nat /\ cycle[c].joined <= x
                    /\ cycle[c].state \in {"removed", "lost"} => x <= cycle[c].ended
  <2> SUFFICES ASSUME NEW i \in RatingsOf(c, rating)
               PROVE  /\ rating[i].at \in Nat /\ cycle[c].joined <= rating[i].at
                      /\ cycle[c].state \in {"removed", "lost"} => rating[i].at <= cycle[c].ended
    OBVIOUS
  <2>1. i \in DOMAIN rating /\ rating[i].target = c
    BY DEF RatingsOf
  <2> QED
    BY <2>1, RatingFacts DEF RatingInv, RatingTimes
<1>3. Rating!Matches(c) = {d \in Rating!Cycles : /\ cycle[d].state = "removed"
                                                 /\ cycle[d].p = cycle[c].p /\ cycle[d].u = cycle[c].u
                                                 /\ cycle[d].joined <= Min(at) /\ cycle[d].ended >= Max(at)}
  BY RatingLibrary DEF Rating!Matches, RatingsOf
<1> DEFINE first == Min(at)
           last == Max(at)
<1>4. /\ first \in Nat /\ last \in Nat /\ first <= last
      /\ cycle[c].joined <= first
      /\ cycle[c].state \in {"removed", "lost"} => last <= cycle[c].ended
  BY <1>1, <1>2
<1> HIDE DEF at, first, last
<1>5. \A d \in Rating!Cycles : /\ d < c /\ cycle[d].p = cycle[c].p /\ cycle[d].u = cycle[c].u
                                    => cycle[d].ended < cycle[c].joined
                               /\ c < d /\ cycle[d].p = cycle[c].p /\ cycle[d].u = cycle[c].u
                                    => cycle[c].state # "active" /\ cycle[c].ended < cycle[d].joined
                               /\ cycle[d].joined <= cycle[d].ended
  BY DEF RatingInv, RatingTimes
<1>6. ASSUME NEW d \in Rating!Cycles, d # c, cycle[d].p = cycle[c].p, cycle[d].u = cycle[c].u,
             cycle[d].joined <= first, last <= cycle[d].ended
      PROVE  FALSE
  <2>1. CASE d < c
    <3>1. cycle[d].ended < cycle[c].joined
      BY <1>5, <1>6, <2>1
    <3> QED
      BY <1>0, <1>4, <1>6, <3>1
  <2>2. CASE c < d
    <3>1. cycle[c].state # "active" /\ cycle[c].ended < cycle[d].joined
      BY <1>5, <1>6, <2>2
    <3>2. cycle[c].state \in {"removed", "lost"}
      BY <1>0, <3>1
    <3> QED
      BY <1>0, <1>4, <1>6, <3>1, <3>2
  <2> QED
    BY <1>0, <1>6, <2>1, <2>2
<1>7. Rating!Matches(c) = IF cycle[c].state = "removed" THEN {c} ELSE {}
  <2>1. \A d \in Rating!Matches(c) : d = c /\ cycle[c].state = "removed"
    <3> SUFFICES ASSUME NEW d \in Rating!Matches(c) PROVE d = c /\ cycle[c].state = "removed"
      OBVIOUS
    <3>1. /\ d \in Rating!Cycles /\ cycle[d].state = "removed"
          /\ cycle[d].p = cycle[c].p /\ cycle[d].u = cycle[c].u
          /\ cycle[d].joined <= first /\ cycle[d].ended >= last
      BY <1>3 DEF first, last
    <3>2. last <= cycle[d].ended
      BY <1>0, <1>4, <3>1
    <3> QED
      BY <1>6, <3>1, <3>2
  <2>2. cycle[c].state = "removed" => c \in Rating!Matches(c)
    <3>1. cycle[c].joined <= first /\ (cycle[c].state = "removed" => cycle[c].ended >= last)
      <4>1. cycle[c].ended \in Nat /\ last \in Nat /\ (cycle[c].state = "removed" => last <= cycle[c].ended)
        BY <1>0, <1>4
      <4> QED
        BY <1>4, <4>1
    <3> QED
      BY <1>3, <3>1 DEF first, last
  <2> QED
    BY <2>1, <2>2
<1>8. ASSUME cycle[c].state = "removed" PROVE Rating!FrozenOf(c) = {c}
  <2> DEFINE D == {e \in Rating!Cycles : /\ cycle[e].p = cycle[c].p /\ cycle[e].u = cycle[c].u
                                         /\ cycle[e].state = "removed" /\ cycle[e].frozen # None
                                         /\ cycle[c].joined <= cycle[e].ended /\ cycle[e].ended <= cycle[c].ended}
  <2>1. cycle[c].frozen # None
    <3>1. cycle[c].score = RatingsMean(cycle, c, rating)
      BY <1>8 DEF RatingInv, RatingScored
    <3>2. RatingsMean(cycle, c, rating) \in Nat
      BY RatingsMeanIsNat DEF RatingInv, Rating!TypeOK
    <3> QED
      BY <1>8, <3>1, <3>2, RatingConstants DEF RatingInv, RatingScored
  <2>2. c \in D
    BY <1>0, <1>5, <1>8, <2>1
  <2>3. \A e \in D : e = c
    <3> SUFFICES ASSUME NEW e \in D, e # c PROVE FALSE
      OBVIOUS
    <3>1. /\ e \in Rating!Cycles /\ cycle[e].p = cycle[c].p /\ cycle[e].u = cycle[c].u
          /\ cycle[c].joined <= cycle[e].ended /\ cycle[e].ended <= cycle[c].ended
      OBVIOUS
    <3>2. \/ cycle[e].ended < cycle[c].joined
          \/ cycle[c].ended < cycle[e].joined /\ cycle[e].joined <= cycle[e].ended
      BY <1>0, <1>5, <3>1
    <3>3. /\ cycle[c].joined \in Nat /\ cycle[c].ended \in Nat
          /\ cycle[e].joined \in Nat /\ cycle[e].ended \in Nat
      BY <1>0, <3>1
    <3> QED
      BY <3>1, <3>2, <3>3
  <2>4. D = {c}
    BY <2>2, <2>3
  <2>5. Rating!EndedBefore(c, c)
    BY <1>0 DEF Rating!EndedBefore
  <2>6. Rating!Last({c}) = {c}
    BY <2>5 DEF Rating!Last
  <2>7. Rating!FrozenOf(c) = Rating!Last(D)
    BY DEF Rating!FrozenOf
  <2> QED
    BY <2>4, <2>6, <2>7
<1> QED
  BY <1>7, <1>8

\* UpdateProjectRating: what it writes, and its memberships afterwards.
RatingCorrected(c, v) ==
  LET scored == [cycle EXCEPT ![c].score = v]
      found == Rating!Last(Rating!Matches(c))
      kept == UNION {Rating!FrozenOf(d) : d \in found}
  IN  cycle' = [e \in Rating!Cycles |->
                 [scored[e] EXCEPT !.left   = IF e \in found THEN v ELSE @,
                                   !.frozen = IF e \in kept THEN v ELSE @,
                                   !.edited = @ /\ e \notin kept]]

RatingUpdated(c, v) ==
  /\ DOMAIN cycle' = DOMAIN cycle /\ cycle' = [e \in DOMAIN cycle' |-> cycle'[e]]
  /\ \A e \in Rating!Cycles : e # c => cycle'[e] = cycle[e]
  /\ cycle'[c] \in Rating!CycleRecords
  /\ cycle'[c].p = cycle[c].p /\ cycle'[c].u = cycle[c].u
  /\ cycle'[c].joined = cycle[c].joined /\ cycle'[c].ended = cycle[c].ended
  /\ cycle'[c].state = cycle[c].state /\ cycle'[c].score = v
  /\ cycle[c].state = "removed" => cycle'[c].left = v /\ cycle'[c].frozen = v

\* What is written on a row, and what is not.
LEMMA RatingRowSame ==
  ASSUME NEW line \in Rating!CycleRecords
  PROVE  [line EXCEPT !.left = @, !.frozen = @, !.edited = @] = line
  BY DEF Rating!CycleRecords

LEMMA RatingRowScored ==
  ASSUME NEW line \in Rating!CycleRecords, NEW new, NEW v \in Nat, new = [line EXCEPT !.score = v]
  PROVE  /\ new \in Rating!CycleRecords
         /\ new.p = line.p /\ new.u = line.u /\ new.joined = line.joined /\ new.ended = line.ended
         /\ new.state = line.state /\ new.score = v
  BY DEF Rating!CycleRecords

LEMMA RatingUpdatesOne ==
  ASSUME RatingInv, NEW c \in Rating!Cycles, NEW v \in Nat, RatingsOf(c, rating) # {},
         cycle[c].state # "gone",
         RatingCorrected(c, v)
  PROVE  RatingUpdated(c, v)
<1> DEFINE scored == [cycle EXCEPT ![c].score = v]
           found == Rating!Last(Rating!Matches(c))
           kept == UNION {Rating!FrozenOf(d) : d \in found}
<1>5. cycle' = [e \in Rating!Cycles |->
                 [scored[e] EXCEPT !.left   = IF e \in found THEN v ELSE @,
                                   !.frozen = IF e \in kept THEN v ELSE @,
                                   !.edited = @ /\ e \notin kept]]
  BY DEF kept, found, scored, RatingCorrected
<1>1. /\ Rating!Cycles \subseteq Nat /\ cycle \in Seq(Rating!CycleRecords)
      /\ \A e \in Rating!Cycles : cycle[e].ended \in Nat
  BY RatingFacts DEF RatingInv, Rating!TypeOK
<1>z. Rating!Cycles = DOMAIN cycle
  BY DEF Rating!Cycles
<1>2. \A e \in Rating!Cycles : cycle[e] \in Rating!CycleRecords
  BY <1>1, <1>z, RatingCycles
<1>3. Rating!Last({}) = {} /\ Rating!Last({c}) = {c}
  <2>1. Rating!EndedBefore(c, c)
    BY <1>1 DEF Rating!EndedBefore
  <2> QED
    BY <2>1 DEF Rating!Last
<1>4. /\ found = IF cycle[c].state = "removed" THEN {c} ELSE {}
      /\ kept = found
  <2>1. CASE cycle[c].state = "removed"
    <3>1. found = {c} /\ Rating!FrozenOf(c) = {c}
      BY <1>3, <2>1, RatingCopies
    <3> HIDE DEF found
    <3> QED
      BY <2>1, <3>1
  <2>2. CASE cycle[c].state # "removed"
    <3>1. found = {}
      BY <1>3, <2>2, RatingCopies
    <3> HIDE DEF found
    <3> QED
      BY <2>2, <3>1
  <2> QED
    BY <2>1, <2>2
<1> HIDE DEF kept, found
<1>6. /\ scored[c] = [cycle[c] EXCEPT !.score = v]
      /\ \A e \in Rating!Cycles : e # c => scored[e] = cycle[e]
  BY <1>z
<1> HIDE DEF scored
<1>7. DOMAIN cycle' = DOMAIN cycle /\ cycle' = [e \in DOMAIN cycle' |-> cycle'[e]]
  BY <1>z, <1>5
<1>8. \A e \in Rating!Cycles :
        cycle'[e] = [scored[e] EXCEPT !.left   = IF e \in found THEN v ELSE scored[e].left,
                                      !.frozen = IF e \in kept THEN v ELSE scored[e].frozen,
                                      !.edited = scored[e].edited /\ e \notin kept]
  BY <1>5
<1> DEFINE line == scored[c]
<1>9. /\ line \in Rating!CycleRecords
      /\ line.p = cycle[c].p /\ line.u = cycle[c].u /\ line.joined = cycle[c].joined
      /\ line.ended = cycle[c].ended /\ line.state = cycle[c].state /\ line.score = v
  BY <1>2, <1>6, RatingRowScored
<1>10. \A e \in Rating!Cycles : scored[e] \in Rating!CycleRecords
  BY <1>2, <1>6, <1>9
<1>11. \A e \in Rating!Cycles : scored[e].edited \in BOOLEAN
  BY <1>10 DEF Rating!CycleRecords
<1>12. ASSUME NEW e \in Rating!Cycles, e \notin found PROVE cycle'[e] = scored[e]
  <2>1. cycle'[e] = [scored[e] EXCEPT !.left = scored[e].left, !.frozen = scored[e].frozen,
                                      !.edited = scored[e].edited /\ TRUE]
    <3>1. e \notin kept
      BY <1>4, <1>12
    <3> QED
      BY <1>8, <1>12, <3>1
  <2>2. (scored[e].edited /\ TRUE) = scored[e].edited
    BY <1>11
  <2>3. cycle'[e] = [scored[e] EXCEPT !.left = scored[e].left, !.frozen = scored[e].frozen,
                                      !.edited = scored[e].edited]
    BY <2>1, <2>2, Zenon
  <2> QED
    BY <1>10, <2>3, RatingRowSame
<1>13. \A e \in Rating!Cycles : e # c => cycle'[e] = cycle[e]
  BY <1>4, <1>6, <1>12
<1>14. /\ cycle'[c] \in Rating!CycleRecords
       /\ cycle'[c].p = cycle[c].p /\ cycle'[c].u = cycle[c].u
       /\ cycle'[c].joined = cycle[c].joined /\ cycle'[c].ended = cycle[c].ended
       /\ cycle'[c].state = cycle[c].state /\ cycle'[c].score = v
       /\ cycle[c].state = "removed" => cycle'[c].left = v /\ cycle'[c].frozen = v
  <2>1. CASE cycle[c].state = "removed"
    <3>1. c \in found /\ c \in kept
      BY <1>4, <2>1
    <3>2. cycle'[c] = [line EXCEPT !.left = v, !.frozen = v, !.edited = FALSE]
      <4>1. cycle'[c] = [line EXCEPT !.left = v, !.frozen = v, !.edited = line.edited /\ FALSE]
        BY <1>8, <3>1
      <4>2. (line.edited /\ FALSE) = FALSE
        OBVIOUS
      <4> QED
        BY <4>1, <4>2, Zenon
    <3> HIDE DEF line
    <3>4. /\ cycle'[c] \in Rating!CycleRecords
          /\ cycle'[c].p = line.p /\ cycle'[c].u = line.u
          /\ cycle'[c].joined = line.joined /\ cycle'[c].ended = line.ended
          /\ cycle'[c].state = line.state /\ cycle'[c].score = line.score
          /\ cycle'[c].left = v /\ cycle'[c].frozen = v
      BY <1>9, <3>2 DEF Rating!CycleRecords
    <3> QED
      BY <1>9, <3>4
  <2>2. CASE cycle[c].state # "removed"
    <3>1. cycle'[c] = line
      BY <1>4, <1>12, <2>2
    <3> QED
      BY <1>9, <2>2, <3>1
  <2> QED
    BY <2>1, <2>2
<1> QED
  BY <1>7, <1>13, <1>14 DEF RatingUpdated

LEMMA RatingUpdates ==
  ASSUME RatingInv, NEW i \in DOMAIN rating, NEW s \in Scores, Rating!UpdateProjectRating(i, s)
  PROVE  RatingInv'
<1> DEFINE c == rating[i].target
           rs == [rating EXCEPT ![i].score = s]
           v == RatingsMean(cycle, c, rs)
           w == cycle[c].u
<1>0. /\ now \in Nat /\ Rating!Cycles = DOMAIN cycle
      /\ DOMAIN rating = 1..Len(rating) /\ Len(rating) \in Nat
      /\ c \in Rating!Cycles /\ w \in Users /\ s \in Nat /\ rating[i] \in Rating!RatingRecords
      /\ cycle \in Seq(Rating!CycleRecords) /\ rating \in Seq(Rating!RatingRecords)
  BY SMTT(30), RatingFacts, RatingConstants DEF RatingInv, Rating!TypeOK, Rating!Cycles
<1>1. /\ rating' = rs /\ now' = now /\ cycle[c].state # "gone"
      /\ Rating!UpdateUserCollaborationScoreTx(w, cycle')
  BY DEF Rating!UpdateProjectRating, Rating!UpdateUserCollaborationScoreTx
<1>2. /\ rs \in Seq(Rating!RatingRecords) /\ DOMAIN rs = DOMAIN rating
      /\ rs[i] = [rating[i] EXCEPT !.score = s]
      /\ \A j \in DOMAIN rating : j # i => rs[j] = rating[j]
  <2>1. rs = [rating EXCEPT ![i] = [rating[i] EXCEPT !.score = s]]
    OBVIOUS
  <2>2. [rating[i] EXCEPT !.score = s] \in Rating!RatingRecords
    BY <1>0 DEF Rating!RatingRecords
  <2> HIDE DEF rs
  <2> QED
    BY <1>0, <2>1, <2>2, ExceptSeq
<1>3. \A j \in DOMAIN rating : rs[j].target = rating[j].target /\ rs[j].at = rating[j].at /\ rs[j].rater = rating[j].rater
  BY <1>0, <1>2 DEF Rating!RatingRecords
<1>4. /\ \A d : RatingsOf(d, rs) = RatingsOf(d, rating)
      /\ i \in RatingsOf(c, rating)
  BY <1>2, <1>3 DEF RatingsOf
<1>5. v \in Nat /\ RatingsMean(cycle, c, rs) = v
  BY <1>2, <1>4, RatingsMeanIsNat
<1>6. RatingUpdated(c, v)
  <2>1. RatingCorrected(c, Rating!weightedProjectRatingScore(c, rs))
    BY DEF Rating!UpdateProjectRating, Rating!UpdateUserCollaborationScoreTx, RatingCorrected
  <2>2. Rating!weightedProjectRatingScore(c, rs) = v
    BY RatingsMeanIs
  <2> HIDE DEF v, c, rs
  <2> QED
    BY <1>0, <1>1, <1>4, <1>5, <2>1, <2>2, RatingUpdatesOne
<1> HIDE DEF rs, v
<1>7. /\ DOMAIN cycle' = DOMAIN cycle /\ cycle' = [e \in DOMAIN cycle' |-> cycle'[e]]
      /\ \A e \in Rating!Cycles : e # c => cycle'[e] = cycle[e]
      /\ \A e \in Rating!Cycles : e # c => RatingMoves(e)
      /\ \A e \in Rating!Cycles : cycle'[e].u = cycle[e].u
      /\ RatingMoves(c)
  BY <1>6 DEF RatingUpdated, RatingMoves
<1>8. cycle' \in Seq(Rating!CycleRecords)
  <2>1. \A e \in Rating!Cycles : cycle'[e] \in Rating!CycleRecords
    BY <1>0, <1>6, <1>7, RatingCycles DEF RatingUpdated
  <2> QED
    BY <1>7, <2>1, RatingTyped
<1>9. /\ index' \in [Users -> Nat] /\ unheard' \subseteq Users
      /\ \A u \in Users \ unheard' : index'[u] = Rating!Collaboration(u, cycle')
  <2>1. \A e \in Rating!Cycles : cycle[e].u # w => cycle'[e] = cycle[e]
    BY <1>7
  <2> QED
    BY <1>0, <1>1, <1>7, <1>8, <2>1, RatingIndexKept
<1>10. RatingTimes'
  <2>1. \A e \in Rating!Cycles : RatingMoves(e)
    BY <1>7
  <2>2. now' \in Nat /\ now <= now'
    BY <1>0, <1>1
  <2> QED
    BY <1>1, <1>2, <1>3, <1>7, <2>1, <2>2, RatingTimesKept
<1>11. ASSUME NEW e \in Rating!Cycles PROVE RatingScored(e)'
  <2>1. CASE e = c
    <3>1. \A j \in RatingsOf(c, rs) : rs[j].rater \in Rating!Cycles
      BY <1>2, <1>3, RatingFacts DEF RatingsOf
    <3>2. RatingsMean(cycle', c, rs) = v
      BY <1>5, <1>7, <3>1, RatingsMeanSame
    <3>3. v # None
      BY <1>5, RatingConstants
    <3> QED
      BY <1>1, <1>6, <2>1, <3>2, <3>3 DEF RatingScored, RatingUpdated
  <2>2. CASE e # c
    <3>1. \A j \in RatingsOf(e, rating) : rs[j] = rating[j]
      BY <1>2, <2>2 DEF RatingsOf
    <3> QED
      BY <1>1, <1>4, <1>7, <2>2, <3>1, RatingScoredKept
  <2> QED
    BY <2>1, <2>2
<1>12. Rating!TypeOK'
  <2>1. \A j \in DOMAIN rs : {rs[j].rater, rs[j].target} \subseteq Rating!Cycles
    BY <1>2, <1>3, RatingFacts
  <2> QED
    BY <1>0, <1>1, <1>2, <1>7, <1>8, <1>9, <2>1 DEF Rating!TypeOK, Rating!Cycles
<1>13. Rating!Cycles' = Rating!Cycles
  BY <1>7 DEF Rating!Cycles
<1> QED
  BY <1>9, <1>10, <1>11, <1>12, <1>13 DEF RatingInv

\* UpdateUserCollaborationScore.
LEMMA RatingEdits ==
  ASSUME RatingInv, NEW c \in Rating!Cycles, NEW s \in Scores,
         Rating!UpdateUserCollaborationScore(c, s)
  PROVE  RatingInv'
<1> DEFINE w == cycle[c].u
<1>0. /\ now \in Nat /\ w \in Users /\ s \in Nat /\ cycle \in Seq(Rating!CycleRecords) /\ rating \in Seq(Rating!RatingRecords)
  BY RatingFacts, RatingConstants DEF RatingInv, Rating!TypeOK
<1>z. Rating!Cycles = DOMAIN cycle /\ Len(rating) \in Nat /\ DOMAIN rating = 1..Len(rating)
  BY RatingFacts DEF Rating!Cycles
<1>1. /\ rating' = rating /\ now' = now /\ cycle[c].state = "removed"
      /\ cycle' = [cycle EXCEPT ![c].frozen = s, ![c].edited = TRUE]
      /\ Rating!UpdateUserCollaborationScoreTx(w, cycle')
  BY DEF Rating!UpdateUserCollaborationScore, Rating!UpdateUserCollaborationScoreTx
<1>2. /\ DOMAIN cycle' = DOMAIN cycle /\ cycle' = [e \in DOMAIN cycle' |-> cycle'[e]]
      /\ \A e \in Rating!Cycles : e # c => cycle'[e] = cycle[e]
      /\ cycle'[c] = [cycle[c] EXCEPT !.frozen = s, !.edited = TRUE]
  BY <1>0, <1>z, <1>1
<1>3. /\ cycle'[c] \in Rating!CycleRecords
      /\ cycle'[c].p = cycle[c].p /\ cycle'[c].u = cycle[c].u
      /\ cycle'[c].joined = cycle[c].joined /\ cycle'[c].ended = cycle[c].ended
      /\ cycle'[c].state = cycle[c].state /\ cycle'[c].score = cycle[c].score
      /\ cycle'[c].left = cycle[c].left /\ cycle'[c].frozen = s /\ cycle'[c].edited = TRUE
  <2>1. cycle[c] \in Rating!CycleRecords
    BY <1>0, <1>z, RatingCycles
  <2> QED
    BY <1>0, <1>2, <2>1 DEF Rating!CycleRecords
<1>4. cycle' \in Seq(Rating!CycleRecords)
  <2>1. \A e \in Rating!Cycles : cycle'[e] \in Rating!CycleRecords
    BY <1>0, <1>z, <1>2, <1>3, RatingCycles
  <2> QED
    BY <1>2, <2>1, RatingTyped
<1>5. \A e \in Rating!Cycles : cycle'[e].u = cycle[e].u /\ RatingMoves(e)
  BY <1>2, <1>3 DEF RatingMoves
<1>6. /\ index' \in [Users -> Nat] /\ unheard' \subseteq Users
      /\ \A u \in Users \ unheard' : index'[u] = Rating!Collaboration(u, cycle')
  <2>1. \A e \in Rating!Cycles : cycle[e].u # w => cycle'[e] = cycle[e]
    BY <1>2
  <2> QED
    BY <1>0, <1>1, <1>2, <1>4, <1>5, <2>1, RatingIndexKept
<1>7. RatingTimes'
  BY <1>0, <1>1, <1>2, <1>5, RatingTimesKept
<1>8. ASSUME NEW e \in Rating!Cycles PROVE RatingScored(e)'
  <2>1. CASE e = c
    <3>1. RatingsMean(cycle', c, rating) = RatingsMean(cycle, c, rating)
      <4>1. \A i \in RatingsOf(c, rating) : rating[i].rater \in Rating!Cycles
        BY RatingFacts DEF RatingsOf
      <4> QED
        BY <1>5, <4>1, RatingsMeanSame
    <3>2. s # None
      BY <1>0, RatingConstants
    <3>3. RatingScored(c)
      BY DEF RatingInv
    <3> QED
      BY <1>1, <1>3, <2>1, <3>1, <3>2, <3>3 DEF RatingScored
  <2>2. CASE e # c
    BY <1>1, <1>2, <1>5, <2>2, RatingScoredKept
  <2> QED
    BY <2>1, <2>2
<1>9. Rating!TypeOK'
  BY <1>0, <1>z, <1>1, <1>2, <1>4, <1>6, RatingFacts DEF Rating!TypeOK
<1>10. Rating!Cycles' = Rating!Cycles
  BY <1>2 DEF Rating!Cycles
<1> QED
  BY <1>6, <1>7, <1>8, <1>9, <1>10 DEF RatingInv

\* The type is kept by a step that leaves the ratings and the indices alone.
LEMMA RatingTypeKept ==
  ASSUME RatingInv, rating' = rating, index' = index, now' \in Nat,
         cycle' \in Seq(Rating!CycleRecords),
         unheard' \subseteq Users, DOMAIN cycle \subseteq DOMAIN cycle'
  PROVE  Rating!TypeOK'
  BY RatingFacts DEF RatingInv, Rating!TypeOK, Rating!Cycles

\* RemoveMember, syncProjectMembersTx.
LEMMA RatingEnds ==
  ASSUME RatingInv, NEW c \in Rating!Cycles,
         Rating!RemoveMember(c) \/ Rating!syncProjectMembersTx(c)
  PROVE  RatingInv'
<1>0. /\ now \in Nat /\ cycle \in Seq(Rating!CycleRecords) /\ cycle[c] \in Rating!CycleRecords
      /\ unheard \subseteq Users /\ cycle[c].u \in Users
  <2>1. cycle \in Seq(Rating!CycleRecords) /\ now \in Nat /\ cycle[c].u \in Users /\ unheard \subseteq Users
    BY RatingFacts DEF RatingInv, Rating!TypeOK
  <2>2. cycle[c] \in Rating!CycleRecords
    BY <2>1, RatingCycles DEF Rating!Cycles
  <2> QED
    BY <2>1, <2>2
<1>z. Rating!Cycles = DOMAIN cycle
  BY DEF Rating!Cycles
<1>1. /\ rating' = rating /\ now' = now /\ index' = index /\ cycle[c].state = "active"
      /\ \/ unheard' = unheard /\ Rating!RemoveMember(c)
         \/ unheard' = unheard \cup {cycle[c].u} /\ Rating!syncProjectMembersTx(c)
  BY DEF Rating!RemoveMember, Rating!syncProjectMembersTx, Rating!Active
<1>2. /\ DOMAIN cycle' = DOMAIN cycle /\ cycle' = [e \in DOMAIN cycle' |-> cycle'[e]]
      /\ \A e \in Rating!Cycles : e # c => cycle'[e] = cycle[e]
  BY <1>0, <1>z, <1>1 DEF Rating!RemoveMember, Rating!syncProjectMembersTx
<1>3. /\ cycle'[c] \in Rating!CycleRecords
      /\ cycle'[c].p = cycle[c].p /\ cycle'[c].u = cycle[c].u
      /\ cycle'[c].joined = cycle[c].joined /\ cycle'[c].ended = now
      /\ cycle'[c].score = cycle[c].score /\ cycle'[c].edited = cycle[c].edited
      /\ \/ /\ Rating!RemoveMember(c) /\ cycle'[c].state = "removed"
            /\ cycle'[c].left = cycle[c].score /\ cycle'[c].frozen = cycle[c].score
         \/ Rating!syncProjectMembersTx(c) /\ cycle'[c].state = "lost"
  <2>1. CASE Rating!RemoveMember(c)
    <3>1. cycle'[c] = [cycle[c] EXCEPT !.state = "removed", !.ended = now,
                                       !.left = cycle[c].score, !.frozen = cycle[c].score]
      BY <1>0, <1>z, <2>1 DEF Rating!RemoveMember
    <3> QED
      BY ZenonT(30), <1>0, <2>1, <3>1 DEF Rating!CycleRecords
  <2>2. CASE Rating!syncProjectMembersTx(c)
    <3>1. cycle'[c] = [cycle[c] EXCEPT !.state = "lost", !.ended = now]
      BY <1>0, <1>z, <2>2 DEF Rating!syncProjectMembersTx
    <3> QED
      BY <1>0, <2>2, <3>1 DEF Rating!CycleRecords
  <2> QED
    BY <2>1, <2>2
<1>4. cycle' \in Seq(Rating!CycleRecords)
  <2>1. \A e \in Rating!Cycles : cycle'[e] \in Rating!CycleRecords
    BY <1>0, <1>z, <1>2, <1>3, RatingCycles
  <2> QED
    BY <1>2, <2>1, RatingTyped
<1>5. \A e \in Rating!Cycles : cycle'[e].u = cycle[e].u /\ RatingMoves(e)
  BY <1>1, <1>2, <1>3 DEF RatingMoves
<1>6. \A u \in Users \ unheard' : index'[u] = Rating!Collaboration(u, cycle')
  <2>1. ASSUME NEW u \in Users \ unheard'
        PROVE  Rating!Collaboration(u, cycle') = Rating!Collaboration(u, cycle)
    <3>1. CASE Rating!RemoveMember(c) /\ cycle'[c].state = "removed" /\ cycle'[c].frozen = cycle[c].score
      BY <1>0, <1>z, <1>1, <1>2, <1>3, <3>1, RatingIndexMoves
    <3>2. CASE Rating!syncProjectMembersTx(c) /\ cycle'[c].state = "lost"
      <4>1. u # cycle[c].u
        BY <2>1, <3>2 DEF Rating!syncProjectMembersTx
      <4>2. \A e \in Rating!Cycles : cycle[e].u = u => cycle'[e] = cycle[e]
        BY <1>2, <4>1
      <4>3. RatingsPast(u, cycle') = RatingsPast(u, cycle) /\ RatingsPresent(u, cycle') = RatingsPresent(u, cycle)
        BY <1>z, <1>2, <1>5, <4>2 DEF RatingsPast, RatingsPresent
      <4>4. /\ \A e \in RatingsPast(u, cycle') : cycle'[e].frozen = cycle[e].frozen
            /\ \A e \in RatingsPresent(u, cycle') : cycle'[e].score = cycle[e].score
        BY <1>z, <4>2, <4>3 DEF RatingsPast, RatingsPresent
      <4> QED
        BY <4>3, <4>4, RatingIndexSame
    <3> QED
      BY <1>3, <3>1, <3>2
  <2>2. unheard \subseteq unheard'
    BY <1>1
  <2> QED
    BY <1>1, <2>1, <2>2 DEF RatingInv
<1>7. RatingTimes'
  BY <1>0, <1>1, <1>2, <1>5, RatingTimesKept
<1>8. ASSUME NEW e \in Rating!Cycles PROVE RatingScored(e)'
  <2>1. CASE e = c
    <3>1. RatingsMean(cycle', c, rating) = RatingsMean(cycle, c, rating)
      <4>1. \A i \in RatingsOf(c, rating) : rating[i].rater \in Rating!Cycles
        BY RatingFacts DEF RatingsOf
      <4> QED
        BY <1>5, <4>1, RatingsMeanSame
    <3>3. RatingScored(c)
      BY DEF RatingInv
    <3> QED
      BY <1>1, <1>3, <2>1, <3>1, <3>3 DEF RatingScored
  <2>2. CASE e # c
    BY <1>1, <1>2, <1>5, <2>2, RatingScoredKept
  <2> QED
    BY <2>1, <2>2
<1>9. Rating!TypeOK'
  BY <1>0, <1>1, <1>2, <1>4, RatingTypeKept
<1>10. Rating!Cycles' = Rating!Cycles
  BY <1>2 DEF Rating!Cycles
<1> QED
  BY <1>6, <1>7, <1>8, <1>9, <1>10 DEF RatingInv

\* deleteProjectRelations.
LEMMA RatingPurges ==
  ASSUME RatingInv, NEW p \in Projects, Rating!deleteProjectRelations(p)
  PROVE  RatingInv'
<1> DEFINE gone == {c \in Rating!Cycles : cycle[c].p = p}
<1>0. /\ now \in Nat /\ unheard \subseteq Users
      /\ \A c \in Rating!Cycles : cycle[c] \in Rating!CycleRecords
  <2>1. cycle \in Seq(Rating!CycleRecords) /\ now \in Nat /\ unheard \subseteq Users
    BY RatingFacts DEF RatingInv, Rating!TypeOK
  <2> QED
    BY <2>1, RatingCycles DEF Rating!Cycles
<1>z. Rating!Cycles = DOMAIN cycle
  BY DEF Rating!Cycles
<1>1. /\ rating' = rating /\ now' = now /\ index' = index
      /\ unheard' = unheard \cup {cycle[c].u : c \in gone}
      /\ cycle' = [c \in Rating!Cycles |-> IF c \in gone
                                           THEN [cycle[c] EXCEPT !.state = "gone", !.score = None, !.left = None,
                                                                 !.frozen = None, !.edited = FALSE]
                                           ELSE cycle[c]]
  BY DEF Rating!deleteProjectRelations
<1>2. /\ DOMAIN cycle' = DOMAIN cycle /\ cycle' = [e \in DOMAIN cycle' |-> cycle'[e]]
      /\ \A e \in Rating!Cycles : e \notin gone => cycle'[e] = cycle[e]
      /\ \A e \in gone : cycle'[e] = [cycle[e] EXCEPT !.state = "gone", !.score = None, !.left = None,
                                                      !.frozen = None, !.edited = FALSE]
  BY <1>z, <1>1
<1>3. ASSUME NEW e \in gone
      PROVE  /\ cycle'[e] \in Rating!CycleRecords
             /\ cycle'[e].p = cycle[e].p /\ cycle'[e].u = cycle[e].u
             /\ cycle'[e].joined = cycle[e].joined /\ cycle'[e].ended = cycle[e].ended
             /\ cycle'[e].state = "gone"
  <2>1. cycle[e] \in Rating!CycleRecords
    BY <1>0
  <2>2. cycle'[e] = [cycle[e] EXCEPT !.state = "gone", !.score = None, !.left = None,
                                     !.frozen = None, !.edited = FALSE]
    BY <1>2
  <2> QED
    BY <2>1, <2>2 DEF Rating!CycleRecords
<1>g. /\ rating' = rating /\ now' = now /\ index' = index
      /\ \A e \in gone : cycle[e].u \in unheard'
      /\ unheard \subseteq unheard'
  BY <1>1
<1>4. cycle' \in Seq(Rating!CycleRecords)
  <2>1. \A e \in Rating!Cycles : cycle'[e] \in Rating!CycleRecords
    BY <1>0, <1>2, <1>3
  <2> QED
    BY <1>2, <2>1, RatingTyped
<1>5. \A e \in Rating!Cycles : cycle'[e].u = cycle[e].u /\ RatingMoves(e)
  BY <1>2, <1>3 DEF RatingMoves
<1>5a. unheard' \subseteq Users
  BY <1>0, <1>1, RatingFacts
<1>6. \A u \in Users \ unheard' : index'[u] = Rating!Collaboration(u, cycle')
  <2>1. ASSUME NEW u \in Users \ unheard'
        PROVE  Rating!Collaboration(u, cycle') = Rating!Collaboration(u, cycle)
    <3>1. \A e \in Rating!Cycles : cycle[e].u = u => cycle'[e] = cycle[e]
      <4>1. \A e \in gone : cycle[e].u # u
        BY <1>g, <2>1
      <4>2. \A e \in Rating!Cycles : e \notin gone => cycle'[e] = cycle[e]
        BY <1>2
      <4> QED
        BY <4>1, <4>2
    <3>z. DOMAIN cycle' = DOMAIN cycle
      BY <1>2
    <3>2. RatingsPast(u, cycle') = RatingsPast(u, cycle) /\ RatingsPresent(u, cycle') = RatingsPresent(u, cycle)
      BY <1>z, <1>5, <3>1, <3>z DEF RatingsPast, RatingsPresent
    <3>3. /\ \A e \in RatingsPast(u, cycle') : cycle'[e].frozen = cycle[e].frozen
          /\ \A e \in RatingsPresent(u, cycle') : cycle'[e].score = cycle[e].score
      BY <1>z, <3>1, <3>2 DEF RatingsPast, RatingsPresent
    <3> QED
      BY <3>2, <3>3, RatingIndexSame
  <2> QED
    BY <1>g, <2>1 DEF RatingInv
<1>7. RatingTimes'
  <2>1. DOMAIN cycle' = DOMAIN cycle
    BY <1>2
  <2> QED
    BY <1>0, <1>5, <1>g, <2>1, RatingTimesKept
<1>8. ASSUME NEW e \in Rating!Cycles PROVE RatingScored(e)'
  <2>1. CASE e \in gone
    BY <1>3, <2>1 DEF RatingScored
  <2>2. CASE e \notin gone
    BY <1>2, <1>5, <1>g, <2>2, RatingScoredKept
  <2> QED
    BY <2>1, <2>2
<1>9. Rating!TypeOK'
  BY <1>0, <1>1, <1>2, <1>4, <1>5a, RatingTypeKept
<1>10. Rating!Cycles' = Rating!Cycles
  BY <1>2 DEF Rating!Cycles
<1> QED
  BY <1>6, <1>7, <1>8, <1>9, <1>10 DEF RatingInv

\* Join.
LEMMA RatingJoins ==
  ASSUME RatingInv, NEW p \in Projects, NEW u \in Users, NEW weight \in Weights,
         Rating!Join(p, u, weight)
  PROVE  RatingInv'
<1> DEFINE line == [p |-> p, u |-> u, weight |-> weight, joined |-> now, state |-> "active",
                    ended |-> now, score |-> None, left |-> None, frozen |-> None, edited |-> FALSE]
           n == Len(cycle)
<1>0. /\ now \in Nat /\ n \in Nat /\ cycle \in Seq(Rating!CycleRecords) /\ unheard \subseteq Users /\ Rating!Cycles = 1..n
  BY RatingFacts DEF RatingInv, Rating!TypeOK
<1>z. Rating!Cycles = DOMAIN cycle
  BY DEF Rating!Cycles
<1>1. /\ rating' = rating /\ now' = now /\ index' = index /\ unheard' = unheard
      /\ cycle' = Append(cycle, line)
      /\ \A c \in Rating!Cycles : cycle[c].p = p /\ cycle[c].u = u
                                    => cycle[c].state # "active" /\ cycle[c].ended < now
  BY DEF Rating!Join, Rating!Active
<1>2. /\ line \in Rating!CycleRecords /\ line.p = p /\ line.u = u /\ line.joined = now /\ line.ended = now
      /\ line.state = "active" /\ line.score = None
  BY <1>0 DEF Rating!CycleRecords
<1> HIDE DEF line
<1>3. /\ cycle' \in Seq(Rating!CycleRecords) /\ Len(cycle') = n + 1 /\ DOMAIN cycle' = 1..(n + 1)
      /\ cycle'[n + 1] = line /\ \A c \in Rating!Cycles : cycle'[c] = cycle[c]
  BY <1>0, <1>1, <1>2, AppendProperties, LenProperties
<1>4. /\ Rating!Cycles' = 1..(n + 1) /\ Rating!Cycles \subseteq Rating!Cycles' /\ n + 1 \notin Rating!Cycles
      /\ \A c \in Rating!Cycles' : c \in Rating!Cycles \/ c = n + 1
      /\ \A c \in Rating!Cycles : c < n + 1
  BY <1>0, <1>3 DEF Rating!Cycles
<1>5. \A v \in Users : Rating!Collaboration(v, cycle') = Rating!Collaboration(v, cycle)
  <2> SUFFICES ASSUME NEW v \in Users
               PROVE  Rating!Collaboration(v, cycle') = Rating!Collaboration(v, cycle)
    OBVIOUS
  <2>1. RatingsPast(v, cycle') = RatingsPast(v, cycle) /\ RatingsPresent(v, cycle') = RatingsPresent(v, cycle)
    BY <1>z, <1>2, <1>3, <1>4 DEF RatingsPast, RatingsPresent, Rating!Cycles
  <2>2. /\ \A c \in RatingsPast(v, cycle') : cycle'[c].frozen = cycle[c].frozen
        /\ \A c \in RatingsPresent(v, cycle') : cycle'[c].score = cycle[c].score
    BY <1>z, <1>3, <2>1 DEF RatingsPast, RatingsPresent
  <2> QED
    BY <2>1, <2>2, RatingIndexSame
<1>6. \A v \in Users \ unheard' : index'[v] = Rating!Collaboration(v, cycle')
  BY <1>1, <1>5 DEF RatingInv
<1>7. RatingTimes'
  <2>1. ASSUME NEW c \in Rating!Cycles'
        PROVE  cycle'[c].joined <= cycle'[c].ended /\ cycle'[c].ended <= now
    <3>1. CASE c \in Rating!Cycles
      BY <1>3, <3>1 DEF RatingInv, RatingTimes
    <3>2. CASE c = n + 1
      BY <1>0, <1>2, <1>3, <3>2
    <3> QED
      BY <1>4, <3>1, <3>2
  <2>2. ASSUME NEW c \in Rating!Cycles', NEW d \in Rating!Cycles', c < d, cycle'[c].p = cycle'[d].p,
               cycle'[c].u = cycle'[d].u
        PROVE  cycle'[c].state # "active" /\ cycle'[c].ended < cycle'[d].joined
    <3>1. c \in Rating!Cycles
      <4>1. c # n + 1
        BY <1>0, <1>4, <2>2
      <4> QED
        BY <1>4, <4>1
    <3>2. CASE d \in Rating!Cycles
      BY <1>3, <2>2, <3>1, <3>2 DEF RatingInv, RatingTimes
    <3>3. CASE d = n + 1
      <4>1. cycle[c].p = p /\ cycle[c].u = u
        BY <1>2, <1>3, <2>2, <3>1, <3>3
      <4> QED
        BY <1>1, <1>2, <1>3, <3>1, <3>3, <4>1
    <3> QED
      BY <1>4, <3>2, <3>3
  <2>3. ASSUME NEW i \in DOMAIN rating
        PROVE  LET c == rating[i].target
               IN  /\ cycle'[c].joined <= rating[i].at /\ rating[i].at <= now
                   /\ cycle'[c].state \in {"removed", "lost"} => rating[i].at <= cycle'[c].ended
    <3>1. rating[i].target \in Rating!Cycles
      BY RatingFacts
    <3> QED
      BY <1>3, <3>1 DEF RatingInv, RatingTimes
  <2> QED
    BY <1>1, <2>1, <2>2, <2>3 DEF RatingTimes
<1>8. ASSUME NEW e \in Rating!Cycles' PROVE RatingScored(e)'
  <2>1. CASE e = n + 1
    <3>1. RatingsOf(n + 1, rating) = {}
      BY <1>4, RatingFacts DEF RatingsOf
    <3>2. cycle'[e].state = "active"
      BY <1>2, <1>3, <2>1
    <3> QED
      BY <1>1, <2>1, <3>1, <3>2 DEF RatingScored
  <2>2. CASE e \in Rating!Cycles
    <3>1. \A d \in Rating!Cycles : cycle'[d].u = cycle[d].u
      BY <1>3
    <3> QED
      BY <1>1, <1>3, <2>2, <3>1, RatingScoredKept
  <2> QED
    BY <1>4, <2>1, <2>2
<1>9. Rating!TypeOK'
  <2>1. DOMAIN cycle \subseteq DOMAIN cycle'
    BY <1>z, <1>3, <1>4 DEF Rating!Cycles
  <2> QED
    BY <1>0, <1>1, <1>3, <2>1, RatingTypeKept
<1> QED
  BY <1>6, <1>7, <1>8, <1>9 DEF RatingInv

\* Whatever happens to the rows, the invariant of the ratings is kept.
LEMMA RatingKeeps == RatingInv /\ [Rating!Next]_Rating!vars => RatingInv'
<1> SUFFICES ASSUME RatingInv, [Rating!Next]_Rating!vars PROVE RatingInv'
  OBVIOUS
<1>1. CASE Rating!Tick
  <2>1. /\ cycle' = cycle /\ rating' = rating /\ index' = index /\ unheard' = unheard
        /\ now \in Nat /\ now' = now + 1
    BY <1>1, RatingFacts DEF Rating!Tick
  <2>2. Rating!Cycles' = Rating!Cycles /\ now' \in Nat /\ now <= now'
    BY <2>1 DEF Rating!Cycles
  <2>3. \A c \in Rating!Cycles : RatingMoves(c)
    BY <2>1 DEF RatingMoves
  <2>4. RatingTimes'
    BY <2>1, <2>2, <2>3, RatingTimesKept
  <2>5. Rating!TypeOK'
    BY <2>1, <2>2 DEF RatingInv, Rating!TypeOK
  <2>6. \A c \in Rating!Cycles : RatingScored(c)'
    BY <2>1 DEF RatingInv, RatingScored
  <2> QED
    BY <2>1, <2>2, <2>4, <2>5, <2>6 DEF RatingInv
<1>2. CASE \E p \in Projects : Rating!deleteProjectRelations(p) \/ \E u \in Users, w \in Weights : Rating!Join(p, u, w)
  BY <1>2, RatingPurges, RatingJoins
<1>3. CASE \E c \in Rating!Cycles : Rating!RemoveMember(c) \/ Rating!syncProjectMembersTx(c)
  BY <1>3, RatingEnds
<1>4. CASE \E s \in Scores :
             \/ \E r, t \in Rating!Cycles : Rating!RateProjectMember(r, t, s)
             \/ \E i \in DOMAIN rating : Rating!UpdateProjectRating(i, s)
             \/ \E c \in Rating!Cycles : Rating!UpdateUserCollaborationScore(c, s)
  BY <1>4, RatingRates, RatingUpdates, RatingEdits
<1>5. CASE UNCHANGED Rating!vars
  <2>1. cycle' = cycle /\ rating' = rating /\ index' = index /\ unheard' = unheard /\ now' = now
    BY <1>5 DEF Rating!vars
  <2>2. Rating!Cycles' = Rating!Cycles
    BY <2>1 DEF Rating!Cycles
  <2>3. \A c \in Rating!Cycles : RatingScored(c)'
    BY <2>1 DEF RatingInv, RatingScored
  <2>4. RatingTimes' /\ Rating!TypeOK'
    BY <2>1, <2>2 DEF RatingInv, RatingTimes, Rating!TypeOK
  <2> QED
    BY <2>1, <2>2, <2>3, <2>4 DEF RatingInv
<1> QED
  BY <1>1, <1>2, <1>3, <1>4, <1>5 DEF Rating!Next

-----------------------------------------------------------------------------
(* Commission.                                                             *)
(*                                                                         *)
(* The numbers of a settlement are those of the orders that it locked,     *)
(* whose payment stays and to which he adds no second detail.              *)

\* The component counts and adds with the operators of the library.
LEMMA MoneyLibrary ==
  /\ \A f : Money!SumFunction(f) = SumFunction(f)
  /\ \A S : Money!Cardinality(S) = Cardinality(S)
<1>1. \A f : Money!SumFunction(f) = SumFunction(f)
  BY DEF Money!SumFunction, Money!SumFunctionOnSet, Money!FoldFunctionOnSet, Money!MapThenFoldSet,
     SumFunction, SumFunctionOnSet, FoldFunctionOnSet, MapThenFoldSet
<1>2. \A S : Money!Cardinality(S) = Cardinality(S)
  BY DEF Money!Cardinality, Cardinality
<1> QED
  BY <1>1, <1>2

\* A share is the exact one but for half a fen.
LEMMA MoneyShare ==
  ASSUME NEW x \in Nat, NEW r \in Nat
  PROVE  /\ Money!Share(x, r) \in Nat
         /\ Money!Within(2 * Whole * Money!Share(x, r), 2 * x * r, Whole)
<1> DEFINE y == x * r
<1>1. y \in Nat /\ 2 * x * r = 2 * y /\ Whole \in Nat \ {0}
  BY CommissionConstants
<1> HIDE DEF y
<1>2. Money!Share(x, r) = (2 * y + Whole) \div (2 * Whole)
  BY <1>1 DEF Money!Share
<1> QED
  BY <1>1, <1>2, RoundsHalfUp DEF Money!Within

\* The amounts of a settlement of the orders S.
MoneySettled(S, r, total, amounts) ==
  /\ total \in Nat /\ amounts \in [S -> Int]
  /\ SumFunction(amounts) = total
  /\ Money!Within(2 * Whole * total, 2 * Money!Paid(S) * r, Whole)
  /\ \A o \in S : Money!Within(2 * Whole * amounts[o], 2 * paid[o] * r, Whole * Cardinality(S))

LEMMA MoneyPaid ==
  ASSUME NEW S \in SUBSET Orders, \A o \in S : paid[o] \in Nat
  PROVE  /\ IsFiniteSet(S) /\ Money!Paid(S) \in Nat /\ Money!Paid(S) = SumFunctionOnSet(paid, S)
         /\ \A e \in S : Money!Paid(S) = paid[e] + Money!Paid(S \ {e})
<1>1. IsFiniteSet(S)
  BY CommissionConstants, FS_Subset
<1>2. \A T \in SUBSET S : Money!Paid(T) = SumFunctionOnSet(paid, T)
  <2> SUFFICES ASSUME NEW T \in SUBSET S PROVE Money!Paid(T) = SumFunctionOnSet(paid, T)
    OBVIOUS
  <2> DEFINE f == [o \in T |-> paid[o]]
  <2>1. Money!Paid(T) = SumFunctionOnSet(f, T)
    BY MoneyLibrary DEF Money!Paid, SumFunction
  <2>2. SumFunctionOnSet(f, T) = SumFunctionOnSet(paid, T)
    <3>1. IsFiniteSet(T) /\ \A o \in T : f[o] \in Nat /\ f[o] = paid[o]
      BY <1>1, FS_Subset
    <3> HIDE DEF f
    <3> QED
      BY <3>1, SumSame
  <2> QED
    BY <2>1, <2>2
<1>3. SumFunctionOnSet(paid, S) \in Nat
  BY <1>1, SumIsNat
<1>4. \A e \in S : SumFunctionOnSet(paid, S) = paid[e] + SumFunctionOnSet(paid, S \ {e})
  BY <1>1, SumWithout
<1> QED
  BY <1>1, <1>2, <1>3, <1>4

\* However the shares are rounded, the last order makes up for it, and nobody's
\* amount is off by more than half a fen per order.
THEOREM CommissionAddsUp ==
  ASSUME NEW S \in SUBSET Orders, \A o \in S : paid[o] \in Nat, NEW r \in Nat, NEW last \in S
  PROVE  LET c == Money!calculateCommissionAmounts(S, r, last)
         IN  MoneySettled(S, r, c.total, c.amounts)
<1> DEFINE cut   == [o \in S |-> Money!Share(paid[o], r)]
           total == Money!Share(Money!Paid(S), r)
           c == Money!calculateCommissionAmounts(S, r, last)
           n == Cardinality(S)
           rest == SumFunctionOnSet(cut, S \ {last})
<1>0. Whole \in Nat \ {0} /\ IsFiniteSet(S) /\ IsFiniteSet(S \ {last})
      /\ n \in Nat /\ n # 0 /\ Cardinality(S \ {last}) = n - 1
  BY CommissionConstants, MoneyPaid, FS_RemoveElement, FS_CardinalityType, FS_EmptySet
<1>1. \A o \in S : cut[o] \in Nat /\ Money!Within(2 * Whole * cut[o], 2 * paid[o] * r, Whole)
  BY MoneyShare
<1>2. total \in Nat /\ Money!Within(2 * Whole * total, 2 * Money!Paid(S) * r, Whole)
  BY MoneyPaid, MoneyShare
<1>3. rest \in Nat /\ SumFunction(cut) = cut[last] + rest
  <2>1. \A o \in S : cut[o] \in Nat
    BY <1>1
  <2>2. DOMAIN cut = S
    OBVIOUS
  <2> HIDE DEF cut
  <2> QED
    BY <1>0, <2>1, <2>2, SumWithout, SumIsNat DEF SumFunction
<1>4. /\ c.total = total
      /\ c.amounts = [cut EXCEPT ![last] = cut[last] + total - SumFunction(cut)]
  BY MoneyLibrary DEF Money!calculateCommissionAmounts
<1> HIDE DEF c
<1>5. /\ c.amounts \in [S -> Int]
      /\ c.amounts[last] = total - rest
      /\ \A o \in S \ {last} : c.amounts[o] = cut[o]
  <2>1. cut \in [S -> Nat]
    BY <1>1
  <2>2. cut[last] + total - SumFunction(cut) = total - rest /\ total - rest \in Int
    BY <1>1, <1>2, <1>3
  <2> HIDE DEF cut, total, rest
  <2> QED
    BY <1>4, <2>1, <2>2
<1>6. SumFunction(c.amounts) = total
  <2>1. /\ \A o \in S : c.amounts[o] \in Int
        /\ DOMAIN c.amounts = S
    BY <1>5
  <2>2. SumFunctionOnSet(c.amounts, S) = c.amounts[last] + SumFunctionOnSet(c.amounts, S \ {last})
    BY <1>0, <2>1, SumTakesOut
  <2>3. rest = SumFunctionOnSet(c.amounts, S \ {last})
    <3>1. \A o \in S \ {last} : cut[o] \in Nat /\ cut[o] = c.amounts[o]
      BY <1>1, <1>5
    <3> HIDE DEF cut
    <3> QED
      BY <1>0, <3>1, SumSame
  <2> QED
    BY <1>2, <1>3, <1>5, <2>1, <2>2, <2>3 DEF SumFunction
<1>7. Money!Within(2 * Whole * rest, 2 * Money!Paid(S \ {last}) * r, Whole * (n - 1))
  <2> DEFINE f == [o \in S |-> 2 * Whole * cut[o]]
             g == [o \in S |-> 2 * r * paid[o]]
             T == S \ {last}
  <2>0. \A o \in T : cut[o] \in Nat /\ paid[o] \in Nat
    BY <1>1
  <2>1. SumFunctionOnSet(f, T) = (2 * Whole) * rest
    <3>1. \A o \in T : cut[o] \in Int /\ f[o] = (2 * Whole) * cut[o]
      BY <1>0, <1>1
    <3>2. 2 * Whole \in Int
      BY <1>0
    <3> HIDE DEF f, cut, T
    <3> QED
      BY <1>0, <3>1, <3>2, SumScales DEF T
  <2>2. SumFunctionOnSet(g, T) = (2 * r) * Money!Paid(T)
    <3>1. \A o \in T : paid[o] \in Int /\ g[o] = (2 * r) * paid[o]
      OBVIOUS
    <3>2. Money!Paid(T) = SumFunctionOnSet(paid, T)
      BY <2>0, MoneyPaid
    <3> HIDE DEF g, T
    <3> QED
      BY <1>0, <3>1, <3>2, SumScales DEF T
  <2>3. \A o \in T : f[o] \in Int /\ g[o] \in Int /\ f[o] - g[o] <= Whole /\ g[o] - f[o] <= Whole
    <3> SUFFICES ASSUME NEW o \in T
                 PROVE  f[o] \in Int /\ g[o] \in Int /\ f[o] - g[o] <= Whole /\ g[o] - f[o] <= Whole
      OBVIOUS
    <3>1. f[o] = 2 * Whole * cut[o] /\ g[o] = 2 * paid[o] * r
      BY <2>0
    <3>2. f[o] \in Int /\ g[o] \in Int
      BY <1>0, <2>0
    <3> HIDE DEF f, g, cut
    <3> QED
      BY <1>1, <3>1, <3>2 DEF Money!Within
  <2> HIDE DEF f, g, cut, rest
  <2>4. Money!Within(SumFunctionOnSet(f, T), SumFunctionOnSet(g, T), Whole * Cardinality(T))
    BY <1>0, <2>3, SumNear DEF Money!Within
  <2>5. Money!Paid(T) \in Nat
    BY MoneyPaid
  <2>6. (2 * r) * Money!Paid(T) = 2 * Money!Paid(T) * r
    BY <2>5
  <2> QED
    BY <1>0, <2>1, <2>2, <2>4, <2>6
<1>8. ASSUME NEW o \in S PROVE Money!Within(2 * Whole * c.amounts[o], 2 * paid[o] * r, Whole * n)
  <2>1. CASE o # last
    <3> DEFINE x == 2 * Whole * cut[o]
               y == 2 * paid[o] * r
               m == Whole * n
    <3>1. c.amounts[o] = cut[o]
      BY <1>5, <2>1
    <3>2. x \in Int /\ y \in Int /\ x - y <= Whole /\ y - x <= Whole
      BY <1>0, <1>1 DEF Money!Within
    <3>3. m \in Nat /\ Whole <= m
      BY <1>0
    <3> HIDE DEF x, y, m
    <3>4. Money!Within(x, y, m)
      BY <1>0, <3>2, <3>3 DEF Money!Within
    <3> HIDE DEF cut
    <3> QED
      BY <3>1, <3>4 DEF x, y, m
  <2>2. CASE o = last
    <3> DEFINE T == 2 * Whole * total
               P == 2 * Money!Paid(S) * r
               A == 2 * Whole * rest
               B == 2 * Money!Paid(S \ {last}) * r
               y == 2 * paid[last] * r
               m == Whole * (n - 1)
    <3>1. Money!Paid(S) = paid[last] + Money!Paid(S \ {last}) /\ Money!Paid(S \ {last}) \in Nat
      BY MoneyPaid
    <3>2. T \in Int /\ P \in Int /\ A \in Int /\ B \in Int /\ y \in Int /\ m \in Int
      BY <1>0, <1>2, <1>3, <3>1
    <3>3. P = y + B
      BY <3>1
    <3>4. T - P <= Whole /\ P - T <= Whole /\ A - B <= m /\ B - A <= m
      BY <1>2, <1>7 DEF Money!Within
    <3>5. 2 * Whole * c.amounts[last] = T - A
      <4> HIDE DEF total, rest
      <4> QED
        BY <1>0, <1>2, <1>3, <1>5
    <3>6. Whole * n = m + Whole
      BY <1>0
    <3> HIDE DEF T, P, A, B, y, m
    <3>7. Money!Within(T - A, y, m + Whole)
      BY <1>0, <3>2, <3>3, <3>4 DEF Money!Within
    <3> QED
      BY <2>2, <3>5, <3>6, <3>7 DEF y
  <2> QED
    BY <2>1, <2>2
<1> HIDE DEF total
<1>9. MoneySettled(S, r, c.total, c.amounts)
  BY <1>2, <1>4, <1>5, <1>6, <1>8 DEF MoneySettled
<1> QED
  BY <1>9 DEF c

\* What holds of a settlement for ever: its orders are paid, each has its detail,
\* and the numbers are right.
MoneyFine(r) ==
  /\ SumFunction([o \in r.orders |-> detail[o][r.b]]) = r.total
  /\ Money!Within(2 * Whole * r.total, 2 * Money!Paid(r.orders) * r.rate, Whole)
  /\ \A o \in r.orders :
       /\ paid[o] # None /\ detail[o][r.b] # None
       /\ Money!Within(2 * Whole * detail[o][r.b], 2 * paid[o] * r.rate, Whole * Cardinality(r.orders))

MoneyInv ==
  /\ Money!TypeOK
  /\ \A i \in DOMAIN batch : MoneyFine(batch[i])
  /\ \A i, j \in DOMAIN batch :
       i # j /\ batch[i].b = batch[j].b => batch[i].orders \cap batch[j].orders = {}
  /\ \A o \in Orders, b \in Deans :
       detail[o][b] # None => \E i \in DOMAIN batch : batch[i].b = b /\ o \in batch[i].orders

LEMMA MoneyStarts == Money!Init => MoneyInv
  BY CommissionConstants DEF Money!Init, MoneyInv, Money!TypeOK

\* Details and payments that are there stay as they are.
LEMMA MoneyFineSame ==
  ASSUME NEW r \in Money!Batches, MoneyFine(r),
         \A o \in r.orders : paid'[o] = paid[o] /\ detail'[o][r.b] = detail[o][r.b]
  PROVE  MoneyFine(r)'
<1>1. [o \in r.orders |-> detail'[o][r.b]] = [o \in r.orders |-> detail[o][r.b]]
  OBVIOUS
<1>2. [o \in r.orders |-> paid'[o]] = [o \in r.orders |-> paid[o]]
  OBVIOUS
<1>3. Money!Paid(r.orders)' = Money!Paid(r.orders)
  BY <1>2 DEF Money!Paid
<1>4. SumFunction([o \in r.orders |-> detail'[o][r.b]]) = r.total
  BY <1>1 DEF MoneyFine
<1>5. Money!Within(2 * Whole * r.total, 2 * Money!Paid(r.orders)' * r.rate, Whole)
  BY <1>3 DEF MoneyFine
<1> QED
  BY <1>4, <1>5 DEF MoneyFine

LEMMA MoneyBatches ==
  ASSUME Money!TypeOK
  PROVE  /\ batch \in Seq(Money!Batches)
         /\ \A i \in DOMAIN batch :
              /\ batch[i] \in Money!Batches /\ batch[i].b \in Deans /\ batch[i].rate \in 1..Whole
              /\ batch[i].orders \in SUBSET Orders /\ batch[i].total \in Int
<1>1. batch \in Seq(Money!Batches)
  BY DEF Money!TypeOK
<1>2. \A i \in DOMAIN batch : batch[i] \in Money!Batches
  BY <1>1
<1> QED
  BY <1>1, <1>2 DEF Money!Batches

LEMMA MoneyUntouched ==
  ASSUME MoneyInv, Money!TypeOK', batch' = batch, detail' = detail,
         \A o \in Orders : paid[o] # None => paid'[o] = paid[o]
  PROVE  MoneyInv'
<1>1. ASSUME NEW i \in DOMAIN batch PROVE MoneyFine(batch[i])'
  <2>1. batch[i] \in Money!Batches /\ batch[i].orders \subseteq Orders
    BY MoneyBatches DEF MoneyInv
  <2>2. MoneyFine(batch[i])
    BY DEF MoneyInv
  <2>3. \A o \in batch[i].orders : paid'[o] = paid[o]
    BY <2>1, <2>2 DEF MoneyFine
  <2>4. batch'[i] = batch[i]
    OBVIOUS
  <2> QED
    BY <2>1, <2>2, <2>3, <2>4, MoneyFineSame
<1> QED
  BY <1>1 DEF MoneyInv

LEMMA MoneyTyped ==
  ASSUME Money!TypeOK
  PROVE  /\ \A o \in Orders : paid[o] # None => paid[o] \in Nat
         /\ \A b \in Deans : Money!Earns(b) => rates[b] \in 1..Whole
         /\ \A b \in Deans : Money!Rows(b) \in SUBSET Orders /\ \A o \in Money!Rows(b) : paid[o] \in Nat
<1>1. \A o \in Orders : paid[o] # None => paid[o] \in Nat
  BY CommissionConstants DEF Money!TypeOK
<1>2. \A b \in Deans : Money!Earns(b) => rates[b] \in 1..Whole
  BY CommissionConstants DEF Money!TypeOK, Money!Earns
<1> QED
  BY <1>1, <1>2 DEF Money!Rows

\* A settlement locks the orders that have no detail of the beneficiary yet, so
\* that the earlier settlements keep theirs.
LEMMA MoneySettles ==
  ASSUME MoneyInv, NEW b \in Deans, NEW last \in Orders, Money!SettleSchoolPendingOrders(b, last)
  PROVE  MoneyInv'
<1> DEFINE S == Money!Rows(b)
           c == Money!calculateCommissionAmounts(S, rates[b], last)
           r == [b |-> b, rate |-> rates[b], orders |-> S, total |-> c.total]
           n == Len(batch)
<1>1. /\ Money!Earns(b) /\ last \in S
      /\ detail' = [o \in Orders |-> IF o \in S THEN [detail[o] EXCEPT ![b] = c.amounts[o]] ELSE detail[o]]
      /\ batch' = Append(batch, r)
      /\ settled' \subseteq settled \cup S
      /\ UNCHANGED <<paid, due, barred, rates, enabled, revisions>>
  BY DEF Money!SettleSchoolPendingOrders
<1>2. Money!TypeOK /\ rates[b] \in 1..Whole /\ rates[b] \in Nat
      /\ S \in SUBSET Orders /\ \A o \in S : paid[o] \in Nat
  <2>1. Money!TypeOK
    BY DEF MoneyInv
  <2> QED
    BY <1>1, <2>1, MoneyTyped, CommissionConstants
<1>3. MoneySettled(S, rates[b], c.total, c.amounts)
  BY <1>1, <1>2, CommissionAddsUp
<1> HIDE DEF c
<1>4. \A o \in S : paid[o] # None /\ detail[o][b] = None
  BY DEF Money!Rows
<1> HIDE DEF S
<1>5. c.total \in Nat /\ c.amounts \in [S -> Int] /\ \A o \in S : c.amounts[o] # None
  BY <1>3, CommissionConstants DEF MoneySettled
<1>6. r \in Money!Batches
  BY <1>2, <1>5 DEF Money!Batches
<1>7. /\ detail' \in [Orders -> [Deans -> Int \cup {None}]]
      /\ \A o \in S : detail'[o][b] = c.amounts[o]
      /\ \A o \in Orders, x \in Deans : ~(o \in S /\ x = b) => detail'[o][x] = detail[o][x]
  <2>1. detail \in [Orders -> [Deans -> Int \cup {None}]]
    BY <1>2 DEF Money!TypeOK
  <2> QED
    BY <1>1, <1>2, <1>5, <2>1
<1>8. Money!TypeOK'
  <2>1. batch' \in Seq(Money!Batches)
    BY <1>1, <1>2, <1>6, MoneyBatches
  <2>2. settled' \subseteq Orders
    BY <1>1, <1>2 DEF Money!TypeOK
  <2> QED
    BY <1>1, <1>2, <1>7, <2>1, <2>2 DEF Money!TypeOK, Money!Batches
<1>9. /\ n \in Nat /\ DOMAIN batch = 1..n /\ DOMAIN batch' = 1..(n + 1)
      /\ batch'[n + 1] = r /\ \A i \in 1..n : batch'[i] = batch[i]
  <2>1. batch \in Seq(Money!Batches)
    BY <1>2, MoneyBatches
  <2> HIDE DEF r
  <2> QED
    BY <1>1, <1>6, <2>1
<1>10. \A i \in 1..n : /\ batch[i] \in Money!Batches /\ batch[i].b \in Deans
                       /\ batch[i].orders \in SUBSET Orders /\ MoneyFine(batch[i])
  BY <1>2, <1>9, MoneyBatches DEF MoneyInv
<1>11. \A i \in 1..n : batch[i].b = b => batch[i].orders \cap S = {}
  BY <1>4, <1>10 DEF MoneyFine
<1>12. ASSUME NEW i \in 1..n PROVE MoneyFine(batch[i])'
  <2>1. \A o \in batch[i].orders : paid'[o] = paid[o] /\ detail'[o][batch[i].b] = detail[o][batch[i].b]
    BY <1>1, <1>7, <1>10, <1>11
  <2>2. batch'[i] = batch[i] /\ batch[i] \in Money!Batches /\ MoneyFine(batch[i])
    BY <1>9, <1>10
  <2> QED
    BY <2>1, <2>2, MoneyFineSame
<1>13. ASSUME NEW k, k = n + 1 PROVE MoneyFine(batch[k])'
  <2>1. PICK q : q = r
    OBVIOUS
  <2>2. q.b = b /\ q.rate = rates[b] /\ q.orders = S /\ q.total = c.total
    BY <2>1
  <2>3. [o \in q.orders |-> detail'[o][q.b]] = c.amounts
    BY <1>5, <1>7, <2>2
  <2>4. Money!Paid(q.orders)' = Money!Paid(S)
    BY <1>1, <2>2 DEF Money!Paid
  <2>5. \A o \in q.orders : paid'[o] = paid[o] /\ paid[o] # None /\ detail'[o][q.b] = c.amounts[o]
                            /\ c.amounts[o] # None
    BY <1>1, <1>4, <1>5, <1>7, <2>2
  <2>6. /\ SumFunction([o \in q.orders |-> detail'[o][q.b]]) = q.total
        /\ Money!Within(2 * Whole * q.total, 2 * Money!Paid(q.orders)' * q.rate, Whole)
        /\ \A o \in q.orders : Money!Within(2 * Whole * c.amounts[o], 2 * paid[o] * q.rate,
                                            Whole * Cardinality(q.orders))
    BY <1>3, <2>2, <2>3, <2>4 DEF MoneySettled
  <2>7. MoneyFine(q)'
    BY <2>5, <2>6 DEF MoneyFine
  <2>8. batch'[k] = q
    BY <1>9, <1>13, <2>1
  <2> QED
    BY <2>7, <2>8
<1>14. ASSUME NEW i \in DOMAIN batch' PROVE MoneyFine(batch[i])'
  <2>1. i \in 1..n \/ i = n + 1
    BY <1>9
  <2> QED
    BY <1>12, <1>13, <2>1
<1>15. \A i, j \in DOMAIN batch' :
         i # j /\ batch'[i].b = batch'[j].b => batch'[i].orders \cap batch'[j].orders = {}
  <2>1. r.b = b /\ r.orders = S
    OBVIOUS
  <2>2. \A i, j \in 1..n : i # j /\ batch[i].b = batch[j].b => batch[i].orders \cap batch[j].orders = {}
    BY <1>9 DEF MoneyInv
  <2> HIDE DEF r
  <2> QED
    BY <1>9, <1>11, <2>1, <2>2
<1>16. \A o \in Orders, x \in Deans :
         detail'[o][x] # None => \E i \in DOMAIN batch' : batch'[i].b = x /\ o \in batch'[i].orders
  <2>1. r.b = b /\ r.orders = S
    OBVIOUS
  <2>2. \A o \in Orders, x \in Deans :
          detail[o][x] # None => \E i \in 1..n : batch[i].b = x /\ o \in batch[i].orders
    BY <1>9 DEF MoneyInv
  <2> HIDE DEF r
  <2>3. SUFFICES ASSUME NEW o \in Orders, NEW x \in Deans, detail'[o][x] # None
                 PROVE  \E i \in DOMAIN batch' : batch'[i].b = x /\ o \in batch'[i].orders
    OBVIOUS
  <2>4. CASE o \in S /\ x = b
    BY <1>9, <2>1, <2>4
  <2>5. CASE ~(o \in S /\ x = b)
    BY <1>7, <1>9, <2>2, <2>3, <2>5
  <2> QED
    BY <2>4, <2>5
<1> QED
  BY <1>8, <1>14, <1>15, <1>16 DEF MoneyInv

LEMMA MoneyKeeps == MoneyInv /\ [Money!Next]_Money!vars => MoneyInv'
<1> SUFFICES ASSUME MoneyInv, [Money!Next]_Money!vars PROVE MoneyInv'
  OBVIOUS
<1>0. Money!TypeOK
  BY DEF MoneyInv
<1>1. ASSUME NEW b \in Deans, NEW last \in Orders, Money!SettleSchoolPendingOrders(b, last)
      PROVE  MoneyInv'
  BY <1>1, MoneySettles
<1>2. ASSUME NEW o \in Orders, Money!Pay(o) PROVE MoneyInv'
  <2>1. PICK x \in Amounts : paid[o] \in {None, x} /\ paid' = [paid EXCEPT ![o] = x]
    BY <1>2 DEF Money!Pay
  <2>2. /\ due' = [due EXCEPT ![o] = {b \in Deans : rates[b] # None}]
        /\ settled' \subseteq settled
        /\ UNCHANGED <<barred, rates, enabled, detail, batch, revisions>>
    BY <1>2 DEF Money!Pay
  <2>3. /\ paid' \in [Orders -> Amounts \cup {None}] /\ due' \in [Orders -> SUBSET Deans]
        /\ \A p \in Orders : paid[p] # None => paid'[p] = paid[p]
    BY <1>0, <2>1, <2>2 DEF Money!TypeOK
  <2>4. Money!TypeOK'
    BY <1>0, <2>2, <2>3 DEF Money!TypeOK, Money!Batches
  <2> QED
    BY <2>2, <2>3, <2>4, MoneyUntouched
<1>3. ASSUME NEW o \in Orders, Money!UpdateRefundApply(o) PROVE MoneyInv'
  <2>1. barred' = barred \cup {o}
        /\ UNCHANGED <<paid, due, settled, rates, enabled, detail, batch, revisions>>
    BY <1>3 DEF Money!UpdateRefundApply
  <2>2. Money!TypeOK'
    BY <1>0, <2>1 DEF Money!TypeOK, Money!Batches
  <2> QED
    BY <2>1, <2>2, MoneyUntouched
<1>4. ASSUME NEW p \in [Deans -> (0..Whole) \cup {None}], Money!ReplaceRates(p) PROVE MoneyInv'
  <2>1. /\ rates' = p /\ due' = [o \in Orders |-> {b \in due[o] : p[b] # None}]
        /\ revisions' = revisions + 1
        /\ UNCHANGED <<paid, barred, settled, enabled, detail, batch>>
    BY <1>4 DEF Money!ReplaceRates
  <2>2. due' \in [Orders -> SUBSET Deans] /\ revisions' \in Nat
    BY <1>0, <2>1 DEF Money!TypeOK
  <2>3. Money!TypeOK'
    BY <1>0, <2>1, <2>2 DEF Money!TypeOK, Money!Batches
  <2> QED
    BY <2>1, <2>3, MoneyUntouched
<1>5. ASSUME NEW b \in Deans, Money!UpdateStatus(b) PROVE MoneyInv'
  <2>1. /\ enabled' \subseteq enabled \cup {b} /\ revisions' = revisions + 1
        /\ UNCHANGED <<paid, due, barred, settled, rates, detail, batch>>
    BY <1>5 DEF Money!UpdateStatus
  <2>2. enabled' \subseteq Deans /\ revisions' \in Nat
    BY <1>0, <2>1 DEF Money!TypeOK
  <2>3. Money!TypeOK'
    BY <1>0, <2>1, <2>2 DEF Money!TypeOK, Money!Batches
  <2> QED
    BY <2>1, <2>3, MoneyUntouched
<1>6. CASE UNCHANGED Money!vars
  <2>1. UNCHANGED <<paid, due, barred, settled, rates, enabled, detail, batch, revisions>>
    BY <1>6 DEF Money!vars
  <2>2. Money!TypeOK'
    BY <1>0, <2>1 DEF Money!TypeOK, Money!Batches
  <2> QED
    BY <2>1, <2>2, MoneyUntouched
<1> QED
  BY <1>1, <1>2, <1>3, <1>4, <1>5, <1>6 DEF Money!Next

\* A detail belongs to one settlement.
LEMMA MoneyBooks == MoneyInv => Money!BooksBalance
<1> SUFFICES ASSUME MoneyInv PROVE Money!BooksBalance
  OBVIOUS
<1>1. ASSUME NEW i \in DOMAIN batch
      PROVE  /\ Money!SumFunction([o \in batch[i].orders |-> detail[o][batch[i].b]]) = batch[i].total
             /\ Money!Within(2 * Whole * batch[i].total, 2 * Money!Paid(batch[i].orders) * batch[i].rate, Whole)
             /\ \A o \in batch[i].orders :
                  Money!Within(2 * Whole * detail[o][batch[i].b], 2 * paid[o] * batch[i].rate,
                               Whole * Cardinality(batch[i].orders))
  BY MoneyLibrary DEF MoneyInv, MoneyFine
<1>2. ASSUME NEW o \in Orders, NEW b \in Deans
      PROVE  Cardinality({i \in DOMAIN batch : batch[i].b = b /\ o \in batch[i].orders})
               = IF detail[o][b] = None THEN 0 ELSE 1
  <2> DEFINE I == {i \in DOMAIN batch : batch[i].b = b /\ o \in batch[i].orders}
  <2>1. \A i \in DOMAIN batch : o \in batch[i].orders => detail[o][batch[i].b] # None
    BY DEF MoneyInv, MoneyFine
  <2>2. CASE detail[o][b] = None
    <3>1. I = {}
      BY <2>1, <2>2
    <3> HIDE DEF I
    <3> QED
      BY <2>2, <3>1, FS_EmptySet DEF I
  <2>3. CASE detail[o][b] # None
    <3>1. PICK i \in DOMAIN batch : batch[i].b = b /\ o \in batch[i].orders
      BY <2>3 DEF MoneyInv
    <3>2. \A j \in DOMAIN batch : batch[j].b = b /\ o \in batch[j].orders => j = i
      BY <3>1 DEF MoneyInv
    <3>3. I = {i}
      BY <3>1, <3>2
    <3> HIDE DEF I
    <3> QED
      BY <2>3, <3>3, FS_Singleton DEF I
  <2> QED
    BY <2>2, <2>3
<1>3. \A o \in Orders, b \in Deans :
        Cardinality({i \in DOMAIN batch : batch[i].b = b /\ o \in batch[i].orders})
          = IF detail[o][b] = None THEN 0 ELSE 1
  BY <1>2
<1> QED
  BY <1>1, <1>3, MoneyLibrary DEF Money!BooksBalance

\* The school's number and those of the beneficiaries: both are near the exact sum.
LEMMA MoneyCancels ==
  ASSUME NEW w \in Nat \ {0}, NEW n \in Nat, NEW x \in Int, NEW y \in Int, NEW z \in Int,
         Money!Within(w * x, z, w), Money!Within(w * y, z, w * n)
  PROVE  Money!Within(x, y, n + 1)
<1> DEFINE a == w * x
           b == w * y
           c == w * n
<1>1. a \in Int /\ b \in Int /\ c \in Int /\ w \in Int
  OBVIOUS
<1>2. a - b <= c + w /\ b - a <= c + w
  <2>1. a - z <= w /\ z - a <= w /\ b - z <= c /\ z - b <= c
    BY DEF Money!Within
  <2> HIDE DEF a, b, c
  <2> QED
    BY <1>1, <2>1
<1>3. w * (x - y) <= w * (n + 1) /\ w * (y - x) <= w * (n + 1)
  <2>1. w * (x - y) = a - b /\ w * (y - x) = b - a /\ w * (n + 1) = c + w
    OBVIOUS
  <2> QED
    BY <1>2, <2>1
<1>4. ASSUME NEW p \in Int, NEW q \in Int, w * p <= w * q PROVE p <= q
  <2>1. CASE p >= q + 1
    <3>1. w * p >= w * (q + 1) /\ w * (q + 1) = w * q + w /\ w * p \in Int /\ w * q \in Int
      BY <2>1
    <3> QED
      BY <1>4, <3>1
  <2> QED
    BY <2>1
<1>5. x - y <= n + 1 /\ y - x <= n + 1
  BY <1>3, <1>4
<1> QED
  BY <1>5 DEF Money!Within

LEMMA MoneyPending == MoneyInv => Money!PendingIsPaid
<1> SUFFICES ASSUME MoneyInv PROVE Money!PendingIsPaid
  OBVIOUS
<1> DEFINE exact == [b \in Deans |-> Money!SumFunction([o \in Money!Pending(b) |-> paid[o] * rates[b]])]
           each == [b \in Deans |-> Money!AdminRevenueStats(b)]
           total == SumFunctionOnSet(exact, Deans)
           sum == SumFunctionOnSet(each, Deans)
           whole == (2 * total + Whole) \div (2 * Whole)
           n == Cardinality(Deans)
<1>0. Money!TypeOK /\ Whole \in Nat \ {0} /\ IsFiniteSet(Deans) /\ n \in Nat
  BY CommissionConstants, FS_CardinalityType DEF MoneyInv
<1>1. ASSUME NEW b \in Deans
      PROVE  /\ Money!Pending(b) = IF Money!Earns(b) THEN Money!Rows(b) ELSE {}
             /\ Money!Earns(b) => rates[b] \in Nat
             /\ Money!Rows(b) \in SUBSET Orders /\ \A o \in Money!Rows(b) : paid[o] \in Nat
  <2>1. Money!Pending(b) = IF Money!Earns(b) THEN Money!Rows(b) ELSE {}
    BY DEF Money!Pending, Money!Earns, Money!Rows
  <2> QED
    BY <1>0, <2>1, MoneyTyped
<1>2. ASSUME NEW b \in Deans, Money!Earns(b), NEW last \in Money!Rows(b)
      PROVE  Money!AdminRevenueStats(b) = Money!calculateCommissionAmounts(Money!Rows(b), rates[b], last).total
  <2>1. Money!Pending(b) = Money!Rows(b) /\ Money!Rows(b) # {}
    BY <1>1, <1>2
  <2> QED
    BY <2>1 DEF Money!AdminRevenueStats, Money!calculateCommissionAmounts
<1>3. ASSUME NEW b \in Deans, ~(Money!Earns(b) /\ Money!Rows(b) # {})
      PROVE  Money!AdminRevenueStats(b) = 0
  <2>1. Money!Pending(b) = {}
    BY <1>1, <1>3
  <2> QED
    BY <2>1 DEF Money!AdminRevenueStats
\* Each beneficiary's number is near his exact share.
<1>4. ASSUME NEW b \in Deans
      PROVE  /\ exact[b] \in Nat /\ each[b] \in Nat
             /\ Money!Within(2 * Whole * each[b], 2 * exact[b], Whole)
  <2> DEFINE S == Money!Pending(b)
             f == [o \in S |-> paid[o] * rates[b]]
  <2>1. exact[b] = SumFunctionOnSet(f, S) /\ each[b] = Money!AdminRevenueStats(b)
    BY MoneyLibrary DEF SumFunction
  <2>2. CASE S = {}
    <3>1. SumFunctionOnSet(f, {}) = 0
      <4> HIDE DEF f
      <4> QED
        BY FS_EmptySet, SumUnfolds
    <3>2. exact[b] = 0 /\ each[b] = 0
      BY <2>1, <2>2, <3>1 DEF Money!AdminRevenueStats
    <3> HIDE DEF exact, each
    <3> QED
      BY <1>0, <3>2 DEF Money!Within
  <2>3. CASE S # {}
    <3>1. Money!Earns(b) /\ rates[b] \in Nat /\ S \in SUBSET Orders /\ \A o \in S : paid[o] \in Nat
      BY <1>1, <2>3
    <3>2. IsFiniteSet(S) /\ Money!Paid(S) \in Nat /\ Money!Paid(S) = SumFunctionOnSet(paid, S)
      BY <3>1, MoneyPaid
    <3>3. exact[b] = rates[b] * Money!Paid(S)
      <4>1. \A o \in S : paid[o] \in Int /\ f[o] = rates[b] * paid[o]
        BY <3>1
      <4>2. rates[b] \in Int
        BY <3>1
      <4> HIDE DEF f, S, exact
      <4>3. SumFunctionOnSet(f, S) = rates[b] * SumFunctionOnSet(paid, S)
        BY <3>2, <4>1, <4>2, SumScales
      <4> QED
        BY <2>1, <3>2, <4>3
    <3>4. each[b] = Money!Share(Money!Paid(S), rates[b])
      BY <2>1, <2>3 DEF Money!AdminRevenueStats
    <3> HIDE DEF S, f, exact, each
    <3>5. each[b] \in Nat /\ Money!Within(2 * Whole * each[b], 2 * Money!Paid(S) * rates[b], Whole)
      BY <3>1, <3>2, <3>4, MoneyShare
    <3>6. exact[b] \in Nat /\ 2 * exact[b] = 2 * Money!Paid(S) * rates[b]
      BY <3>1, <3>2, <3>3
    <3> QED
      BY <3>5, <3>6
  <2> QED
    BY <2>2, <2>3
<1>5. total \in Nat /\ sum \in Nat
  <2> HIDE DEF exact, each
  <2> QED
    BY <1>0, <1>4, SumIsNat
<1>6. Money!Within(2 * Whole * sum, 2 * total, Whole * n)
  <2> DEFINE f == [b \in Deans |-> 2 * Whole * each[b]]
             g == [b \in Deans |-> 2 * exact[b]]
  <2>1. /\ \A b \in Deans : each[b] \in Int /\ f[b] = (2 * Whole) * each[b]
        /\ \A b \in Deans : exact[b] \in Int /\ g[b] = 2 * exact[b]
        /\ 2 * Whole \in Int
    <3>1. \A b \in Deans : each[b] \in Int /\ exact[b] \in Int
      BY <1>4
    <3> HIDE DEF exact, each
    <3> QED
      BY <1>0, <3>1
  <2>2. \A b \in Deans : /\ f[b] \in Int /\ g[b] \in Int
                         /\ f[b] - g[b] <= Whole /\ g[b] - f[b] <= Whole
    <3>1. \A b \in Deans : f[b] = 2 * Whole * each[b] /\ g[b] = 2 * exact[b]
      OBVIOUS
    <3> HIDE DEF exact, each, f, g
    <3> QED
      BY <1>0, <1>4, <2>1, <3>1 DEF Money!Within
  <2> HIDE DEF exact, each, f, g
  <2>3. SumFunctionOnSet(f, Deans) = (2 * Whole) * sum /\ SumFunctionOnSet(g, Deans) = 2 * total
    BY <1>0, <2>1, SumScales
  <2>4. Money!Within(SumFunctionOnSet(f, Deans), SumFunctionOnSet(g, Deans), Whole * n)
    BY <1>0, <2>2, SumNear DEF Money!Within
  <2> QED
    BY <2>3, <2>4
<1>7. Money!RevenueStats = whole
  <2>1. Money!SumFunction(exact) = total
    <3>1. DOMAIN exact = Deans
      OBVIOUS
    <3> HIDE DEF exact
    <3> QED
      BY <3>1, MoneyLibrary DEF SumFunction
  <2> QED
    BY <2>1 DEF Money!RevenueStats
<1>8. Money!SumFunction([b \in Deans |-> Money!AdminRevenueStats(b)]) = sum
  <2>1. DOMAIN each = Deans
    OBVIOUS
  <2>2. Money!SumFunction(each) = sum
    <3> HIDE DEF each
    <3> QED
      BY <2>1, MoneyLibrary DEF SumFunction
  <2> QED
    BY <2>2
<1>9. whole \in Nat /\ Money!Within(2 * Whole * whole, 2 * total, Whole)
  <2> HIDE DEF total
  <2> QED
    BY <1>0, <1>5, RoundsHalfUp DEF Money!Within
<1>10. Money!Within(2 * whole, 2 * sum, n + 1)
  <2> HIDE DEF total, sum, whole
  <2>1. /\ 2 * whole \in Int /\ 2 * sum \in Int /\ 2 * total \in Int
        /\ Whole * (2 * whole) = 2 * Whole * whole /\ Whole * (2 * sum) = 2 * Whole * sum
    BY <1>0, <1>5, <1>9
  <2> QED
    BY <1>0, <1>6, <1>9, <2>1, MoneyCancels
<1>11. \A b \in Deans :
         IF Money!Earns(b) /\ Money!Rows(b) # {}
         THEN \A last \in Money!Rows(b) :
                Money!AdminRevenueStats(b) = Money!calculateCommissionAmounts(Money!Rows(b), rates[b], last).total
         ELSE Money!AdminRevenueStats(b) = 0
  BY <1>2, <1>3
<1>12. Money!Within(2 * Money!RevenueStats, 2 * Money!SumFunction([b \in Deans |-> Money!AdminRevenueStats(b)]),
                    Money!Cardinality(Deans) + 1)
  <2> HIDE DEF whole, sum, n
  <2> QED
    BY <1>7, <1>8, <1>10, MoneyLibrary DEF n
<1> QED
  BY <1>11, <1>12 DEF Money!PendingIsPaid
===============================================================================

----------------------------- MODULE LedgerSums -----------------------------
(***************************************************************************)
(* Sums over finite sets, for the proofs.  SumOver is a fold, which the    *)
(* community modules define by a recursive function on subsets.  That this *)
(* function exists follows from the well-foundedness of the naturals: were *)
(* there sizes of subsets for which it did not, there would be a least.    *)
(* The induction over subsets is obtained in the same way, with the set of *)
(* the subsets of which a fact holds in place of the fact.                 *)
(*                                                                         *)
(* From this follow what a sum does when a cell changes or is added, and   *)
(* that no cell of a ledger of naturals holds more than its sum.  The last *)
(* parts are about integer division, which rates and interest round down,  *)
(* and about maps whose records are numbered from 0.                       *)
(***************************************************************************)
EXTENDS StorageMaps, Integers, FiniteSetTheorems, WellFoundedInduction, TLAPS

\* The element of a set that a fold takes first.
Taken(s) == CHOOSE x \in s : TRUE

\* One step of the fold, from the sums g over smaller sets.
SumStep(f, g, s) == IF s = {} THEN 0 ELSE f[Taken(s)] + g[s \ {Taken(s)}]

\* g holds the sums of f over the sets in D.
SumsOver(f, D, g) == g = [s \in D |-> SumStep(f, g, s)]

\* The subsets with at most n elements.
Small(S, n) == {s \in SUBSET S : Cardinality(s) <= n}

\* Every set of naturals that is not empty has a least element.
LEMMA LeastNatural ==
    ASSUME NEW T, T \subseteq Nat, T # {}
    PROVE  \E m \in T : \A k \in T : m <= k
<1>1. PICK m \in T : \A k \in T : ~(<<k, m>> \in OpToRel(<, Nat))
  BY NatLessThanWellFounded, WFMin
<1>2. \A k \in T : ~(k < m)
  BY <1>1 DEF OpToRel
<1>3. \A k \in T : m <= k
  BY <1>2
<1> QED BY <1>3

LEMMA FoldIsSum ==
    ASSUME NEW f, NEW S
    PROVE  SumOver(f, S) = (CHOOSE g : SumsOver(f, SUBSET S, g))[S]
BY DEF SumOver, MapThenSumSet, MapThenFoldSet, SumsOver, SumStep, Taken

\* The element taken of a set is one of its own, and leaves one less.
LEMMA TakenIsElement ==
    ASSUME NEW s, IsFiniteSet(s), s # {}
    PROVE  /\ Taken(s) \in s
           /\ IsFiniteSet(s \ {Taken(s)})
           /\ Cardinality(s) \in Nat
           /\ Cardinality(s \ {Taken(s)}) = Cardinality(s) - 1
BY FS_RemoveElement, FS_CardinalityType DEF Taken

\* Sums over the subsets with n elements extend to those with n + 1.
LEMMA SumsExtend ==
    ASSUME NEW f, NEW S, IsFiniteSet(S), NEW n \in Nat, NEW g, SumsOver(f, Small(S, n), g)
    PROVE  \E h : SumsOver(f, Small(S, n + 1), h)
<1> DEFINE h == [s \in Small(S, n + 1) |-> SumStep(f, g, s)]
<1>1. \A s \in Small(S, n) : s \in Small(S, n + 1)
  <2> SUFFICES ASSUME NEW s \in Small(S, n)
               PROVE  s \in Small(S, n + 1)
    OBVIOUS
  <2>1. Cardinality(s) \in Nat
    BY FS_Subset, FS_CardinalityType DEF Small
  <2> QED BY <2>1 DEF Small
<1>2. \A s \in Small(S, n) : h[s] = g[s]
  BY <1>1 DEF SumsOver
<1>3. \A s \in Small(S, n + 1) : s # {} => s \ {Taken(s)} \in Small(S, n)
  <2> SUFFICES ASSUME NEW s \in Small(S, n + 1), s # {}
               PROVE  s \ {Taken(s)} \in Small(S, n)
    OBVIOUS
  <2>1. IsFiniteSet(s)
    BY FS_Subset DEF Small
  <2>2. /\ Cardinality(s) \in Nat /\ Cardinality(s \ {Taken(s)}) = Cardinality(s) - 1
        /\ Cardinality(s) <= n + 1
    BY <2>1, TakenIsElement DEF Small
  <2> QED BY <2>2 DEF Small
<1>4. \A s \in Small(S, n + 1) : SumStep(f, h, s) = SumStep(f, g, s)
  <2> HIDE DEF h
  <2> QED BY <1>2, <1>3 DEF SumStep
<1>5. h = [s \in Small(S, n + 1) |-> SumStep(f, h, s)]
  <2> DEFINE H(s) == SumStep(f, h, s)
             G(s) == SumStep(f, g, s)
  <2>1. h = [s \in Small(S, n + 1) |-> G(s)]
    OBVIOUS
  <2>2. \A s \in Small(S, n + 1) : H(s) = G(s)
    BY <1>4
  <2> HIDE DEF H, G, h
  <2>3. h = [s \in Small(S, n + 1) |-> H(s)]
    BY <2>1, <2>2
  <2> QED BY <2>3 DEF H
<1> HIDE DEF h
<1> QED BY <1>5 DEF SumsOver

\* There are sums over the subsets of each size.
LEMMA SumsOfSize ==
    ASSUME NEW f, NEW S, IsFiniteSet(S), NEW n \in Nat
    PROVE  \E g : SumsOver(f, Small(S, n), g)
<1> DEFINE T == {k \in Nat : ~ \E g : SumsOver(f, Small(S, k), g)}
<1>1. SUFFICES ASSUME T # {} PROVE FALSE
  OBVIOUS
<1>2. PICK m \in T : \A k \in T : m <= k
  BY <1>1, LeastNatural
<1>3. CASE m = 0
  <2>1. \A s \in Small(S, 0) : s = {}
    <3> SUFFICES ASSUME NEW s \in Small(S, 0) PROVE s = {}
      OBVIOUS
    <3>1. IsFiniteSet(s) /\ Cardinality(s) <= 0
      BY FS_Subset DEF Small
    <3>2. Cardinality(s) = 0
      BY <3>1, FS_CardinalityType
    <3> QED BY <3>1, <3>2, FS_EmptySet
  <2> DEFINE g == [s \in Small(S, 0) |-> 0]
             Z(s) == SumStep(f, g, s)
  <2>2. \A s \in Small(S, 0) : Z(s) = 0
    BY <2>1 DEF SumStep
  <2>3. g = [s \in Small(S, 0) |-> 0]
    OBVIOUS
  <2> HIDE DEF g, Z
  <2>4. g = [s \in Small(S, 0) |-> Z(s)]
    BY <2>2, <2>3
  <2>5. SumsOver(f, Small(S, 0), g)
    BY <2>4 DEF SumsOver, Z
  <2> QED BY <1>2, <1>3, <2>5
<1>4. CASE m # 0
  <2>1. m - 1 \in Nat /\ m - 1 \notin T /\ (m - 1) + 1 = m
    BY <1>2, <1>4
  <2>2. PICK g : SumsOver(f, Small(S, m - 1), g)
    BY <2>1
  <2>3. \E h : SumsOver(f, Small(S, (m - 1) + 1), h)
    BY <2>1, <2>2, SumsExtend
  <2> QED BY <1>2, <2>1, <2>3
<1> QED BY <1>3, <1>4

\* All subsets are of a size.
LEMMA AllAreSmall ==
    ASSUME NEW S, IsFiniteSet(S)
    PROVE  Cardinality(S) \in Nat /\ Small(S, Cardinality(S)) = SUBSET S
<1>1. \A s \in SUBSET S : Cardinality(s) <= Cardinality(S)
  BY FS_Subset
<1> QED BY <1>1, FS_CardinalityType DEF Small

\* The sums that the fold takes exist, and end in what the fold returns.
LEMMA SumsExist ==
    ASSUME NEW f, NEW S, IsFiniteSet(S)
    PROVE  \E g : SumsOver(f, SUBSET S, g) /\ SumOver(f, S) = g[S]
<1>1. \E g : SumsOver(f, Small(S, Cardinality(S)), g)
  BY AllAreSmall, SumsOfSize
<1>2. \E g : SumsOver(f, SUBSET S, g)
  BY <1>1, AllAreSmall
<1>3. SumsOver(f, SUBSET S, CHOOSE g : SumsOver(f, SUBSET S, g))
  BY <1>2
<1> QED BY <1>3, FoldIsSum

\* What holds of a set when it holds of that set without any one element,
\* holds of all finite sets.
LEMMA SubsetInduction ==
    ASSUME NEW S, IsFiniteSet(S), NEW P,
           \A s \in SUBSET S : (\A x \in s : s \ {x} \in P) => s \in P
    PROVE  S \in P
<1> DEFINE T == {Cardinality(s) : s \in (SUBSET S) \ P}
<1>1. SUFFICES ASSUME S \notin P PROVE FALSE
  OBVIOUS
<1>2. T # {}
  BY <1>1
<1>3. \A s \in SUBSET S : IsFiniteSet(s) /\ Cardinality(s) \in Nat
  BY FS_Subset, FS_CardinalityType
<1>4. T \subseteq Nat
  BY <1>3
<1>5. PICK m \in T : \A k \in T : m <= k
  <2> HIDE DEF T
  <2> QED BY <1>2, <1>4, LeastNatural
<1>6. PICK s \in (SUBSET S) \ P : m = Cardinality(s)
  BY <1>5
<1>7. PICK x \in s : s \ {x} \notin P
  BY <1>6
<1>8. /\ s \ {x} \in SUBSET S
      /\ Cardinality(s \ {x}) = Cardinality(s) - 1
      /\ Cardinality(s) \in Nat
  BY <1>3, <1>6, <1>7, FS_RemoveElement
<1>9. Cardinality(s \ {x}) \in T
  BY <1>7, <1>8
<1> HIDE DEF T
<1>10. m <= Cardinality(s) - 1
  BY <1>5, <1>8, <1>9
<1> QED BY <1>6, <1>8, <1>10

\* It is enough to look at the set without the element that is taken first.
LEMMA FoldInduction ==
    ASSUME NEW S, IsFiniteSet(S), NEW P,
           \A s \in SUBSET S : (s # {} => s \ {Taken(s)} \in P) => s \in P
    PROVE  S \in P
<1>1. \A s \in SUBSET S : s # {} => Taken(s) \in s
  BY DEF Taken
<1>2. \A s \in SUBSET S : (\A x \in s : s \ {x} \in P) => s \in P
  BY <1>1
<1> QED BY <1>2, SubsetInduction

\* The sum over a subset is the sum on the way to that of the whole set.
LEMMA SumsAgree ==
    ASSUME NEW f, NEW S, IsFiniteSet(S), NEW g, SumsOver(f, SUBSET S, g), NEW s \in SUBSET S
    PROVE  SumOver(f, s) = g[s]
<1>1. IsFiniteSet(s)
  BY FS_Subset
<1>2. PICK h : SumsOver(f, SUBSET s, h) /\ SumOver(f, s) = h[s]
  BY <1>1, SumsExist
<1> DEFINE P == {t \in SUBSET s : h[t] = g[t]}
<1>3. \A t \in SUBSET s : (t # {} => t \ {Taken(t)} \in P) => t \in P
  <2> SUFFICES ASSUME NEW t \in SUBSET s, t # {} => t \ {Taken(t)} \in P
               PROVE  h[t] = g[t]
    OBVIOUS
  <2>1. h[t] = SumStep(f, h, t) /\ g[t] = SumStep(f, g, t)
    <3>1. t \in SUBSET S
      OBVIOUS
    <3> QED BY <1>2, <3>1 DEF SumsOver
  <2> QED BY <2>1 DEF SumStep
<1>4. s \in P
  <2> HIDE DEF P
  <2> QED BY <1>1, <1>3, FoldInduction
<1> QED BY <1>2, <1>4

\* The sum over no elements, and over some: the definition of a fold unfolded.
LEMMA SumUnfolds ==
    ASSUME NEW f, NEW S, IsFiniteSet(S)
    PROVE  SumOver(f, S) = IF S = {} THEN 0
                           ELSE f[Taken(S)] + SumOver(f, S \ {Taken(S)})
<1>1. PICK g : SumsOver(f, SUBSET S, g) /\ SumOver(f, S) = g[S]
  BY SumsExist
<1>2. g[S] = SumStep(f, g, S)
  BY <1>1 DEF SumsOver
<1>3. SumOver(f, S \ {Taken(S)}) = g[S \ {Taken(S)}]
  BY <1>1, SumsAgree
<1> QED BY <1>1, <1>2, <1>3 DEF SumStep

\* A sum of naturals is one, and none of them is more.
LEMMA SumIsInt ==
    ASSUME NEW f, NEW S, IsFiniteSet(S), \A x \in S : f[x] \in Int
    PROVE  SumOver(f, S) \in Int
<1> DEFINE P == {s \in SUBSET S : SumOver(f, s) \in Int}
<1>1. \A s \in SUBSET S : (s # {} => s \ {Taken(s)} \in P) => s \in P
  <2> SUFFICES ASSUME NEW s \in SUBSET S, s # {} => s \ {Taken(s)} \in P
               PROVE  SumOver(f, s) \in Int
    OBVIOUS
  <2>1. IsFiniteSet(s)
    BY FS_Subset
  <2>2. s # {} => Taken(s) \in S
    BY <2>1, TakenIsElement
  <2> QED BY <2>1, <2>2, SumUnfolds
<1> HIDE DEF P
<1>2. S \in P
  BY <1>1, FoldInduction
<1> QED BY <1>2 DEF P

\* Of two ledgers the sums differ as the cells do.
LEMMA SumOfChange ==
    ASSUME NEW f, NEW h, NEW S, IsFiniteSet(S), NEW x \in S, NEW d \in Int,
           \A y \in S : f[y] \in Int,
           h[x] = f[x] + d, \A y \in S \ {x} : h[y] = f[y]
    PROVE  SumOver(h, S) = SumOver(f, S) + d
<1> DEFINE P == {s \in SUBSET S : SumOver(h, s) = SumOver(f, s) + (IF x \in s THEN d ELSE 0)}
<1>1. \A s \in SUBSET S : (s # {} => s \ {Taken(s)} \in P) => s \in P
  <2> SUFFICES ASSUME NEW s \in SUBSET S, s # {} => s \ {Taken(s)} \in P
               PROVE  s \in P
    OBVIOUS
  <2>1. IsFiniteSet(s) /\ SumOver(f, s) \in Int
    BY FS_Subset, SumIsInt
  <2>2. CASE s = {}
    <3>1. SumOver(f, s) = 0 /\ SumOver(h, s) = 0
      BY <2>1, <2>2, SumUnfolds
    <3> QED BY <2>2, <3>1
  <2>3. CASE s # {}
    <3> DEFINE y == Taken(s)
               r == s \ {y}
    <3>1. y \in s /\ y \in S /\ r \in SUBSET S
      BY <2>1, <2>3, TakenIsElement
    <3>2. IsFiniteSet(r) /\ SumOver(f, r) \in Int
      BY <3>1, FS_Subset, SumIsInt
    <3>3. SumOver(h, r) = SumOver(f, r) + (IF x \in r THEN d ELSE 0)
      BY <2>3
    <3>4. SumOver(h, s) = h[y] + SumOver(h, r) /\ SumOver(f, s) = f[y] + SumOver(f, r)
      BY <2>1, <2>3, SumUnfolds
    <3>5. f[y] \in Int
      BY <3>1
    <3> HIDE DEF y
    <3>6. CASE y = x
      BY <3>1, <3>2, <3>3, <3>4, <3>5, <3>6
    <3>7. CASE y # x
      BY <3>1, <3>2, <3>3, <3>4, <3>5, <3>7
    <3> QED BY <3>6, <3>7
  <2> QED BY <2>2, <2>3
<1> HIDE DEF P
<1>2. S \in P
  BY <1>1, FoldInduction
<1> QED BY <1>2 DEF P

\* Any element may be the first.
LEMMA SumOfRest ==
    ASSUME NEW f, NEW S, IsFiniteSet(S), \A x \in S : f[x] \in Int, NEW z \in S
    PROVE  SumOver(f, S) = SumOver(f, S \ {z}) + f[z]
<1> DEFINE P == {s \in SUBSET S : \A x \in s : SumOver(f, s) = SumOver(f, s \ {x}) + f[x]}
<1>1. \A s \in SUBSET S : (\A x \in s : s \ {x} \in P) => s \in P
  <2> SUFFICES ASSUME NEW s \in SUBSET S, \A x \in s : s \ {x} \in P, NEW x \in s
               PROVE  SumOver(f, s) = SumOver(f, s \ {x}) + f[x]
    OBVIOUS
  <2>1. \A t \in SUBSET S : IsFiniteSet(t) /\ SumOver(f, t) \in Int
    BY FS_Subset, SumIsInt
  <2> DEFINE y == Taken(s)
  <2>2. y \in s
    BY <2>1, TakenIsElement
  <2>3. SumOver(f, s) = f[y] + SumOver(f, s \ {y})
    BY <2>1, SumUnfolds
  <2> HIDE DEF y
  <2>4. CASE x = y
    BY <2>1, <2>2, <2>3, <2>4
  <2>5. CASE x # y
    <3>1. SumOver(f, s \ {y}) = SumOver(f, (s \ {y}) \ {x}) + f[x]
      BY <2>2, <2>5
    <3>2. SumOver(f, s \ {x}) = SumOver(f, (s \ {x}) \ {y}) + f[y]
      BY <2>2, <2>5
    <3>3. (s \ {x}) \ {y} = (s \ {y}) \ {x}
      OBVIOUS
    <3>4. SumOver(f, (s \ {y}) \ {x}) \in Int /\ f[x] \in Int /\ f[y] \in Int
      BY <2>1, <2>2
    <3> DEFINE a == SumOver(f, (s \ {y}) \ {x})
    <3>5. /\ SumOver(f, s) = f[y] + SumOver(f, s \ {y}) /\ SumOver(f, s \ {y}) = a + f[x]
          /\ SumOver(f, s \ {x}) = a + f[y] /\ a \in Int /\ f[x] \in Int /\ f[y] \in Int
      BY <2>3, <3>1, <3>2, <3>3, <3>4
    <3> HIDE DEF a
    <3> QED BY <3>5
  <2> QED BY <2>4, <2>5
<1> HIDE DEF P
<1>2. S \in P
  BY <1>1, SubsetInduction
<1> QED BY <1>2 DEF P

\* A new element adds its value.
LEMMA SumOfOneMore ==
    ASSUME NEW f, NEW S, IsFiniteSet(S), NEW z, z \notin S, \A x \in S \cup {z} : f[x] \in Int
    PROVE  SumOver(f, S \cup {z}) = SumOver(f, S) + f[z]
<1>1. IsFiniteSet(S \cup {z}) /\ (S \cup {z}) \ {z} = S
  BY FS_AddElement
<1> QED BY <1>1, SumOfRest

\* The sum depends on the elements alone.
LEMMA SumOfSame ==
    ASSUME NEW f, NEW h, NEW S, IsFiniteSet(S), \A x \in S : h[x] = f[x]
    PROVE  SumOver(h, S) = SumOver(f, S)
<1> DEFINE P == {s \in SUBSET S : SumOver(h, s) = SumOver(f, s)}
<1>1. \A s \in SUBSET S : (s # {} => s \ {Taken(s)} \in P) => s \in P
  <2> SUFFICES ASSUME NEW s \in SUBSET S, s # {} => s \ {Taken(s)} \in P
               PROVE  SumOver(h, s) = SumOver(f, s)
    OBVIOUS
  <2>1. IsFiniteSet(s)
    BY FS_Subset
  <2>2. s # {} => Taken(s) \in S
    BY <2>1, TakenIsElement
  <2> QED BY <2>1, <2>2, SumUnfolds
<1> HIDE DEF P
<1>2. S \in P
  BY <1>1, FoldInduction
<1> QED BY <1>2 DEF P

\* The sum of naturals is one, and none of them is more.
LEMMA SumOfNaturals ==
    ASSUME NEW f, NEW S, IsFiniteSet(S), \A x \in S : f[x] \in Nat
    PROVE  SumOver(f, S) \in Nat /\ \A x \in S : f[x] <= SumOver(f, S)
<1> DEFINE P == {s \in SUBSET S : SumOver(f, s) \in Nat}
<1>1. \A s \in SUBSET S : (s # {} => s \ {Taken(s)} \in P) => s \in P
  <2> SUFFICES ASSUME NEW s \in SUBSET S, s # {} => s \ {Taken(s)} \in P
               PROVE  SumOver(f, s) \in Nat
    OBVIOUS
  <2>1. IsFiniteSet(s)
    BY FS_Subset
  <2>2. CASE s = {}
    <3>1. SumOver(f, s) = 0
      BY <2>1, <2>2, SumUnfolds
    <3> QED BY <3>1
  <2>3. CASE s # {}
    <3>1. f[Taken(s)] \in Nat /\ SumOver(f, s \ {Taken(s)}) \in Nat
      BY <2>1, <2>3, TakenIsElement
    <3>2. SumOver(f, s) = f[Taken(s)] + SumOver(f, s \ {Taken(s)})
      BY <2>1, <2>3, SumUnfolds
    <3> QED BY <3>1, <3>2
  <2> QED BY <2>2, <2>3
<1>2. \A s \in SUBSET S : SumOver(f, s) \in Nat
  <2> SUFFICES ASSUME NEW s \in SUBSET S PROVE SumOver(f, s) \in Nat
    OBVIOUS
  <2>1. IsFiniteSet(s) /\ \A t \in SUBSET s : t \in SUBSET S
    BY FS_Subset
  <2> HIDE DEF P
  <2>2. s \in P
    BY <1>1, <2>1, FoldInduction
  <2> QED BY <2>2 DEF P
<1>3. \A x \in S : f[x] <= SumOver(f, S)
  <2> SUFFICES ASSUME NEW x \in S PROVE f[x] <= SumOver(f, S)
    OBVIOUS
  <2>1. SumOver(f, S) = SumOver(f, S \ {x}) + f[x]
    BY SumOfRest
  <2>2. SumOver(f, S \ {x}) \in Nat /\ f[x] \in Nat
    BY <1>2
  <2> QED BY <2>1, <2>2
<1> QED BY <1>2, <1>3

\* Where the cells are sums, so is their sum.
LEMMA SumOfPairs ==
    ASSUME NEW f, NEW g, NEW h, NEW S, IsFiniteSet(S),
           \A x \in S : f[x] \in Int /\ g[x] \in Int /\ h[x] = f[x] + g[x]
    PROVE  SumOver(h, S) = SumOver(f, S) + SumOver(g, S)
<1> DEFINE P == {s \in SUBSET S : SumOver(h, s) = SumOver(f, s) + SumOver(g, s)}
<1>1. \A s \in SUBSET S : (s # {} => s \ {Taken(s)} \in P) => s \in P
  <2> SUFFICES ASSUME NEW s \in SUBSET S, s # {} => s \ {Taken(s)} \in P
               PROVE  SumOver(h, s) = SumOver(f, s) + SumOver(g, s)
    OBVIOUS
  <2>1. IsFiniteSet(s)
    BY FS_Subset
  <2>2. CASE s = {}
    <3>1. SumOver(f, s) = 0 /\ SumOver(g, s) = 0 /\ SumOver(h, s) = 0
      BY <2>1, <2>2, SumUnfolds
    <3> QED BY <3>1
  <2>3. CASE s # {}
    <3> DEFINE y == Taken(s)
               r == s \ {y}
    <3>1. y \in S /\ IsFiniteSet(r) /\ r \in SUBSET S
      BY <2>1, <2>3, TakenIsElement
    <3>2. SumOver(f, r) \in Int /\ SumOver(g, r) \in Int
      BY <3>1, SumIsInt
    <3>3. /\ SumOver(h, s) = h[y] + SumOver(h, r)
          /\ SumOver(f, s) = f[y] + SumOver(f, r)
          /\ SumOver(g, s) = g[y] + SumOver(g, r)
      BY <2>1, <2>3, SumUnfolds
    <3>4. SumOver(h, r) = SumOver(f, r) + SumOver(g, r)
      BY <2>3
    <3>5. f[y] \in Int /\ g[y] \in Int /\ h[y] = f[y] + g[y]
      BY <3>1
    <3> HIDE DEF y, r
    <3> QED BY <3>2, <3>3, <3>4, <3>5
  <2> QED BY <2>2, <2>3
<1> HIDE DEF P
<1>2. S \in P
  BY <1>1, FoldInduction
<1> QED BY <1>2 DEF P

\* A sum grows with the elements.
LEMMA SumAtMost ==
    ASSUME NEW f, NEW h, NEW S, IsFiniteSet(S),
           \A x \in S : f[x] \in Int /\ h[x] \in Int /\ f[x] <= h[x]
    PROVE  SumOver(f, S) <= SumOver(h, S)
<1> DEFINE g == [x \in S |-> h[x] - f[x]]
<1>1. \A x \in S : g[x] \in Nat /\ h[x] = f[x] + g[x]
  OBVIOUS
<1> HIDE DEF g
<1>2. SumOver(h, S) = SumOver(f, S) + SumOver(g, S)
  BY <1>1, SumOfPairs
<1>3. SumOver(g, S) \in Nat /\ SumOver(f, S) \in Int
  BY <1>1, SumOfNaturals, SumIsInt
<1> QED BY <1>2, <1>3

\* A sum may be taken in two parts.
LEMMA SumOfParts ==
    ASSUME NEW f, NEW A, NEW B, IsFiniteSet(A), IsFiniteSet(B), A \cap B = {},
           \A x \in A \cup B : f[x] \in Int
    PROVE  SumOver(f, A \cup B) = SumOver(f, A) + SumOver(f, B)
<1> DEFINE P == {s \in SUBSET B : SumOver(f, A \cup s) = SumOver(f, A) + SumOver(f, s)}
<1>1. \A s \in SUBSET B : (s # {} => s \ {Taken(s)} \in P) => s \in P
  <2> SUFFICES ASSUME NEW s \in SUBSET B, s # {} => s \ {Taken(s)} \in P
               PROVE  SumOver(f, A \cup s) = SumOver(f, A) + SumOver(f, s)
    OBVIOUS
  <2>1. IsFiniteSet(s) /\ SumOver(f, A) \in Int
    BY FS_Subset, SumIsInt
  <2>2. CASE s = {}
    <3>1. SumOver(f, s) = 0
      BY <2>1, <2>2, SumUnfolds
    <3>2. A \cup s = A
      BY <2>2
    <3>3. SumOver(f, A \cup s) = SumOver(f, A)
      BY <3>2, Zenon
    <3> HIDE DEF P
    <3> QED BY <2>1, <3>1, <3>3
  <2>3. CASE s # {}
    <3> DEFINE y == Taken(s)
               r == s \ {y}
    <3>1. y \in s /\ IsFiniteSet(r) /\ IsFiniteSet(A \cup r) /\ y \notin A \cup r
      BY <2>1, <2>3, TakenIsElement, FS_Union
    <3>2. A \cup s = (A \cup r) \cup {y} /\ f[y] \in Int /\ SumOver(f, r) \in Int
      BY <3>1, SumIsInt
    <3>3. SumOver(f, A \cup s) = SumOver(f, A \cup r) + f[y]
      BY <3>1, <3>2, SumOfOneMore
    <3>4. SumOver(f, s) = f[y] + SumOver(f, r)
      BY <2>1, <2>3, SumUnfolds
    <3>5. SumOver(f, A \cup r) = SumOver(f, A) + SumOver(f, r)
      BY <2>3
    <3> HIDE DEF y, r
    <3> QED BY <2>1, <3>2, <3>3, <3>4, <3>5
  <2> QED BY <2>2, <2>3
<1> HIDE DEF P
<1>2. B \in P
  BY <1>1, FoldInduction
<1> QED BY <1>2 DEF P

\* The same value at every element.
LEMMA SumOfConstant ==
    ASSUME NEW f, NEW S, IsFiniteSet(S), NEW c \in Int, \A x \in S : f[x] = c
    PROVE  SumOver(f, S) = Cardinality(S) * c
<1> DEFINE P == {s \in SUBSET S : SumOver(f, s) = Cardinality(s) * c}
<1>1. \A s \in SUBSET S : (s # {} => s \ {Taken(s)} \in P) => s \in P
  <2> SUFFICES ASSUME NEW s \in SUBSET S, s # {} => s \ {Taken(s)} \in P
               PROVE  SumOver(f, s) = Cardinality(s) * c
    OBVIOUS
  <2>1. IsFiniteSet(s) /\ Cardinality(s) \in Nat
    BY FS_Subset, FS_CardinalityType
  <2>2. CASE s = {}
    <3>1. SumOver(f, s) = 0 /\ Cardinality(s) = 0
      BY <2>1, <2>2, SumUnfolds, FS_EmptySet
    <3> QED BY <3>1
  <2>3. CASE s # {}
    <3>1. /\ f[Taken(s)] = c
          /\ Cardinality(s \ {Taken(s)}) = Cardinality(s) - 1
          /\ SumOver(f, s \ {Taken(s)}) = Cardinality(s \ {Taken(s)}) * c
      BY <2>1, <2>3, TakenIsElement
    <3>2. SumOver(f, s) = f[Taken(s)] + SumOver(f, s \ {Taken(s)})
      BY <2>1, <2>3, SumUnfolds
    <3>3. \A n \in Nat : c + (n - 1) * c = n * c
      OBVIOUS
    <3> QED BY <2>1, <3>1, <3>2, <3>3
  <2> QED BY <2>2, <2>3
<1> HIDE DEF P
<1>2. S \in P
  BY <1>1, FoldInduction
<1> QED BY <1>2 DEF P

\* There are as many pairs with a given tag as there are things to tag.
LEMMA TaggedCardinality ==
    ASSUME NEW R, IsFiniteSet(R), NEW tag
    PROVE  LET D == {<<tag, r>> : r \in R}
           IN  IsFiniteSet(D) /\ Cardinality(D) = Cardinality(R)
<1> DEFINE D == {<<tag, r>> : r \in R}
           b == [r \in R |-> <<tag, r>>]
<1>1. b \in [R -> D] /\ \A r \in R : b[r] = <<tag, r>>
  OBVIOUS
<1>2. \A r, q \in R : b[r] = b[q] => r = q
  BY <1>1
<1>3. \A d \in D : \E r \in R : b[r] = d
  BY <1>1
<1> HIDE DEF D, b
<1>4. b \in Bijection(R, D)
  BY <1>1, <1>2, <1>3 DEF Bijection, Injection, Surjection, IsInjective
<1>5. IsFiniteSet(D) /\ Cardinality(D) = Cardinality(R)
  BY <1>4, FS_Bijection DEF ExistsBijection
<1> QED BY <1>5 DEF D

-----------------------------------------------------------------------------
(* Ledgers                                                                 *)

\* t is the sum of the ledger f.
IsSum(f, t) ==
    /\ f \in [DOMAIN f -> Nat]
    /\ IsFiniteSet(DOMAIN f)
    /\ SumOver(f, DOMAIN f) = t

\* The ledger f with d added to the cell x.
Adjusted(f, x, d) == [f EXCEPT ![x] = @ + d]

\* An empty ledger over a finite set of cells sums to zero.
LEMMA EmptyLedgerSum ==
    ASSUME NEW D, IsFiniteSet(D)
    PROVE  IsSum([x \in D |-> 0], 0)
<1> DEFINE f == [x \in D |-> 0]
           P == {s \in SUBSET D : SumOver(f, s) = 0}
<1>1. f \in [D -> Nat] /\ DOMAIN f = D
  OBVIOUS
<1>2. \A s \in SUBSET D : (s # {} => s \ {Taken(s)} \in P) => s \in P
  <2> SUFFICES ASSUME NEW s \in SUBSET D, s # {} => s \ {Taken(s)} \in P
               PROVE  SumOver(f, s) = 0
    OBVIOUS
  <2>1. IsFiniteSet(s)
    BY FS_Subset
  <2>2. CASE s = {}
    BY <2>1, <2>2, SumUnfolds
  <2>3. CASE s # {}
    <3>1. Taken(s) \in D /\ SumOver(f, s \ {Taken(s)}) = 0
      BY <2>1, <2>3, TakenIsElement
    <3>2. f[Taken(s)] = 0
      BY <3>1
    <3> HIDE DEF f
    <3>3. SumOver(f, s) = f[Taken(s)] + SumOver(f, s \ {Taken(s)})
      BY <2>1, <2>3, SumUnfolds
    <3> QED BY <3>1, <3>2, <3>3
  <2> QED BY <2>2, <2>3
<1> HIDE DEF f, P
<1>3. D \in P
  BY <1>2, FoldInduction
<1>4. SumOver(f, D) = 0
  BY <1>3 DEF P
<1>5. IsSum(f, 0)
  BY <1>1, <1>4 DEF IsSum
<1> QED BY <1>5 DEF f

\* The sum of a ledger is a natural number.
LEMMA SumIsNatural ==
    ASSUME NEW f, NEW t, IsSum(f, t)
    PROVE  t \in Nat
BY SumOfNaturals DEF IsSum

\* A cell never holds more than the sum.
LEMMA CellAtMostSum ==
    ASSUME NEW f, f \in [DOMAIN f -> Nat], NEW t, IsSum(f, t), NEW x \in DOMAIN f
    PROVE  t \in Nat /\ f[x] <= t
BY SumOfNaturals DEF IsSum

\* Adding d to one cell adds d to the sum.
LEMMA AdjustedSum ==
    ASSUME NEW f, f \in [DOMAIN f -> Nat], NEW t, IsSum(f, t),
           NEW x \in DOMAIN f, NEW d \in Int, f[x] + d >= 0
    PROVE  IsSum(Adjusted(f, x, d), t + d)
<1> DEFINE g == Adjusted(f, x, d)
<1>1. /\ DOMAIN g = DOMAIN f
      /\ g[x] = f[x] + d
      /\ \A y \in DOMAIN f \ {x} : g[y] = f[y]
  BY DEF Adjusted
<1>2. g \in [DOMAIN f -> Nat]
  <2>1. f[x] + d \in Nat
    OBVIOUS
  <2> QED BY <2>1 DEF Adjusted
<1> HIDE DEF g
<1>3. SumOver(g, DOMAIN f) = SumOver(f, DOMAIN f) + d
  <2>1. IsFiniteSet(DOMAIN f) /\ \A y \in DOMAIN f : f[y] \in Int
    BY DEF IsSum
  <2> QED BY <1>1, <2>1, SumOfChange
<1>4. IsSum(g, t + d)
  BY <1>1, <1>2, <1>3 DEF IsSum
<1> QED BY <1>4 DEF g

-----------------------------------------------------------------------------
(* Integer division                                                        *)

\* A quotient is the greatest that fits.
LEMMA QuotientsInOrder ==
    ASSUME NEW c \in Nat \ {0}, NEW p \in Nat, NEW q \in Nat, NEW x \in Nat, NEW y \in Nat,
           c * p <= x, x <= y, y < c * q + c
    PROVE  p <= q
<1>1. SUFFICES ASSUME p >= q + 1 PROVE FALSE
  OBVIOUS
<1>2. c * p >= c * (q + 1)
  <2>1. PICK k \in Nat : p = (q + 1) + k
    <3>1. p - (q + 1) \in Nat /\ p = (q + 1) + (p - (q + 1))
      BY <1>1
    <3> QED BY <3>1
  <2>2. c * ((q + 1) + k) = c * (q + 1) + c * k /\ c * k \in Nat /\ c * (q + 1) \in Nat
    OBVIOUS
  <2> QED BY <2>1, <2>2
<1>3. c * (q + 1) = c * q + c /\ c * q \in Nat /\ c * p \in Nat
  OBVIOUS
<1> QED BY <1>2, <1>3

\* Integer division keeps the order, and undoes a product.
LEMMA DivisionKeepsOrder ==
    ASSUME NEW a \in Nat, NEW b \in Nat, NEW c \in Nat \ {0}
    PROVE  /\ a \div c \in Nat
           /\ a <= b => a \div c <= b \div c
           /\ (b * c) \div c = b
<1>1. \A x \in Nat : /\ x \div c \in Nat
                     /\ c * (x \div c) <= x /\ x < c * (x \div c) + c
  OBVIOUS
<1>2. a <= b => a \div c <= b \div c
  BY <1>1, QuotientsInOrder
<1>3. (b * c) \div c = b
  <2> DEFINE m == b * c
             d == m \div c
  <2>1. m \in Nat /\ m = c * b
    OBVIOUS
  <2>2. d \in Nat /\ c * d <= m /\ m < c * d + c
    BY <1>1, <2>1
  <2> HIDE DEF m, d
  <2>3. d <= b
    BY <2>1, <2>2, QuotientsInOrder
  <2>4. b <= d
    BY <2>1, <2>2, QuotientsInOrder
  <2>5. d = b
    BY <2>2, <2>3, <2>4
  <2> QED BY <2>5 DEF d, m
<1> QED BY <1>1, <1>2, <1>3

\* What is lost by rounding a sum down is no more than by rounding its parts.
LEMMA DivisionOfSum ==
    ASSUME NEW a \in Nat, NEW b \in Nat, NEW c \in Nat \ {0}
    PROVE  /\ a \div c \in Nat /\ b \div c \in Nat /\ (a + b) \div c \in Nat
           /\ a \div c + b \div c <= (a + b) \div c
<1>1. \A x \in Nat : /\ x \div c \in Nat
                     /\ c * (x \div c) <= x /\ x < c * (x \div c) + c
  OBVIOUS
<1> DEFINE p == a \div c
           q == b \div c
           s == (a + b) \div c
<1>2. /\ p \in Nat /\ q \in Nat /\ s \in Nat /\ a + b \in Nat
      /\ c * p <= a /\ c * q <= b /\ a + b < c * s + c
  BY <1>1
<1> HIDE DEF p, q, s
<1>3. c * (p + q) = c * p + c * q /\ c * p \in Nat /\ c * q \in Nat
  BY <1>2
<1>4. c * (p + q) <= a + b /\ p + q \in Nat
  BY <1>2, <1>3
<1>5. p + q <= s
  BY <1>2, <1>4, QuotientsInOrder
<1> QED BY <1>2, <1>5 DEF p, q, s

\* A factor keeps the order too.
LEMMA ProductKeepsOrder ==
    ASSUME NEW a \in Nat, NEW b \in Nat, NEW c \in Nat, a <= b
    PROVE  a * c \in Nat /\ b * c \in Nat /\ a * c <= b * c
<1>1. PICK k \in Nat : b = a + k
  <2>1. b - a \in Nat /\ b = a + (b - a)
    OBVIOUS
  <2> QED BY <2>1
<1>2. (a + k) * c = a * c + k * c /\ a * c \in Nat /\ k * c \in Nat
  OBVIOUS
<1> QED BY <1>1, <1>2

-----------------------------------------------------------------------------
(* Records numbered from 0                                                 *)

\* The maps with n records of a type.
Numbered(n, R) == [0 .. n - 1 -> R]

\* The map g has the records of f and one more, at n.
OneMore(f, g, n, v) ==
    /\ n \notin DOMAIN f
    /\ DOMAIN g = DOMAIN f \cup {n}
    /\ g[n] = v
    /\ \A i \in DOMAIN f : i # n /\ g[i] = f[i]

\* The next identifier is the number of records, and is not yet used.
LEMMA FreshRecord ==
    ASSUME NEW R, NEW n \in Nat, NEW f, f \in Numbered(n, R), NEW v, v \in R
    PROVE  /\ FreshId(f) = n
           /\ OneMore(f, Put(f, n, v), n, v)
           /\ n + 1 \in Nat
           /\ Put(f, n, v) \in Numbered(n + 1, R)
<1>1. DOMAIN f = 0 .. n - 1 /\ 0 \in Int /\ n - 1 \in Int
  BY DEF Numbered
<1>2. Cardinality(0 .. n - 1) = n
  BY <1>1, FS_Interval
<1>3. 0 .. (n + 1) - 1 = (0 .. n - 1) \cup {n} /\ n \notin 0 .. n - 1
  OBVIOUS
<1> QED BY <1>1, <1>2, <1>3 DEF Put, FreshId, Numbered, OneMore

\* What is numbered has the identifiers below the next one, and its records have the type.
LEMMA RecordsAreTyped ==
    ASSUME NEW R, NEW n \in Nat, NEW f, f \in Numbered(n, R)
    PROVE  /\ DOMAIN f = 0 .. n - 1
           /\ IsFiniteSet(DOMAIN f)
           /\ \A i \in DOMAIN f : i \in Nat /\ f[i] \in R
<1>1. DOMAIN f = 0 .. n - 1
  BY DEF Numbered
<1>2. IsFiniteSet(0 .. n - 1)
  BY FS_Interval
<1>3. \A i \in 0 .. n - 1 : i \in Nat /\ f[i] \in R
  BY DEF Numbered
<1> QED BY <1>1, <1>2, <1>3

\* Changing one record to another of the type keeps the map typed.
LEMMA RecordChanged ==
    ASSUME NEW R, NEW n \in Nat, NEW f, f \in Numbered(n, R), NEW i, i \in DOMAIN f,
           NEW v, v \in R
    PROVE  /\ [f EXCEPT ![i] = v] \in Numbered(n, R)
           /\ DOMAIN [f EXCEPT ![i] = v] = DOMAIN f
           /\ \A j \in DOMAIN f : [f EXCEPT ![i] = v][j] = IF j = i THEN v ELSE f[j]
BY DEF Numbered

\* A set of identifiers that is not empty has a least one.
LEMMA OldestRecord ==
    ASSUME NEW n \in Nat, NEW S \in SUBSET (0 .. n - 1), S # {}
    PROVE  \E m \in S : \A k \in S : m <= k
<1>1. S \subseteq Nat
  OBVIOUS
<1> QED BY <1>1, LeastNatural
=============================================================================

------------------------- MODULE CalculationsProofs -------------------------
(***************************************************************************)
(* Proofs about the calculations, for every case the constants may hold:   *)
(* both codes find the same dates of a rule; planned movements and the     *)
(* queue tell of every occurrence; a linked payment replaces its plan;     *)
(* the fixed totals count every row once; savings and goals follow the     *)
(* forecast; no operation is lost by an analysis; categories tell of       *)
(* envelopes what the envelopes tell; releases tell every fragment once;   *)
(* deployments recover.                                                    *)
(*                                                                         *)
(* The sums are folds over finite sets.  They are taken apart by induction *)
(* over the subsets of a finite set, and recursion over the months, the    *)
(* releases or the deployments of a series by induction over the numbers,  *)
(* both with the well-foundedness of < on the naturals.                    *)
(***************************************************************************)
EXTENDS Calculations, FiniteSetTheorems, FunctionTheorems, WellFoundedInduction, TLAPS

-----------------------------------------------------------------------------
(* Induction.                                                              *)

\* A set of numbers has a least one.
LEMMA Least ==
  ASSUME NEW T, T \subseteq Nat, T # {}
  PROVE  \E x \in T : \A y \in T : x <= y
<1> DEFINE Less == OpToRel(<, Nat)
<1>1. IsWellFoundedOn(Less, Nat)
  BY NatLessThanWellFounded
<1>2. Less = {p \in Nat \X Nat : p[1] < p[2]}
  BY Zenon DEF OpToRel
<1> HIDE DEF Less
<1>3. PICK x \in T : \A y \in T : <<y, x>> \notin Less
  BY <1>1, WFMin
<1>4. ASSUME NEW y \in T PROVE x <= y
  <2>1. y \in Nat /\ x \in Nat
    OBVIOUS
  <2>2. <<y, x>> \in Nat \X Nat
    BY <2>1
  <2>3. ~(<<y, x>>[1] < <<y, x>>[2])
    BY <1>2, <1>3, <2>2, Zenon
  <2>4. ~(y < x)
    BY <2>3
  <2> QED BY <2>1, <2>4
<1> QED BY <1>4

\* Induction, over a set instead of a predicate.
LEMMA SetInduction ==
  ASSUME NEW S, 0 \in S, \A n \in S : n + 1 \in S
  PROVE  Nat \subseteq S
<1>1. SUFFICES ASSUME Nat \ S # {} PROVE FALSE
  OBVIOUS
<1>2. PICK x \in Nat \ S : \A y \in Nat \ S : x <= y
  BY <1>1, Least
<1>3. x # 0 /\ x - 1 \in Nat /\ x - 1 \in S
  BY <1>2
<1>4. QED
  BY <1>2, <1>3

\* A family with every set whose smaller sets it has holds all subsets.
LEMMA SubsetInduction ==
  ASSUME NEW S, IsFiniteSet(S), NEW W,
         \A s \in SUBSET S : (\A x \in s : s \ {x} \in W) => s \in W
  PROVE  SUBSET S \subseteq W
<1>1. SUFFICES ASSUME NEW r \in SUBSET S, r \notin W PROVE FALSE
  OBVIOUS
<1>2. \A s \in SUBSET S : IsFiniteSet(s) /\ Cardinality(s) \in Nat
  BY FS_Subset, FS_CardinalityType
<1> DEFINE Sizes == {n \in Nat : \E s \in SUBSET S : s \notin W /\ Cardinality(s) = n}
<1>3. PICK n \in Sizes : \A k \in Sizes : n <= k
  <2>1. Cardinality(r) \in Sizes
    BY <1>1, <1>2
  <2> HIDE DEF Sizes
  <2> QED BY <2>1, Least DEF Sizes
<1>4. PICK s \in SUBSET S : s \notin W /\ Cardinality(s) = n
  BY <1>3
<1>5. PICK x \in s : s \ {x} \notin W
  BY <1>4
<1>6. Cardinality(s \ {x}) = n - 1 /\ s \ {x} \in SUBSET S
  BY <1>2, <1>4, <1>5, FS_RemoveElement
<1>7. n - 1 \in Sizes
  BY <1>2, <1>5, <1>6
<1> QED BY <1>3, <1>7

Pick(s) == CHOOSE x \in s : TRUE
Added(g, f, s) == IF s = {} THEN 0 ELSE f[Pick(s)] + g[s \ {Pick(s)}]
Adding(g, f, S) == g = [s \in SUBSET S |-> Added(g, f, s)]

SumOf(f, S) == MapThenSumSet(LAMBDA x : f[x], S)

\* A sum, seen as the function that adds the chosen element last.
LEMMA SumChoice ==
  ASSUME NEW f, NEW S
  PROVE  SumOf(f, S) = (CHOOSE g : Adding(g, f, S))[S]
BY DEF SumOf, MapThenSumSet, MapThenFoldSet, Adding, Added, Pick

\* What is chosen belongs to the set.
LEMMA PickedElement == \A s : s # {} => Pick(s) \in s
BY DEF Pick

\* Such a function exists for every finite set,
LEMMA AddingExists ==
  ASSUME NEW f, NEW S, IsFiniteSet(S)
  PROVE  \E g : Adding(g, f, S)
<1> DEFINE Upto(g, n) == \A s \in SUBSET S : Cardinality(s) <= n => g[s] = Added(g, f, s)
           N == {n \in Nat : \E g : Upto(g, n)}
<1>1. \A s \in SUBSET S : IsFiniteSet(s) /\ Cardinality(s) \in Nat /\ (Cardinality(s) = 0 <=> s = {})
  BY FS_Subset, FS_CardinalityType, FS_EmptySet
<1>2. 0 \in N
  <2>1. Upto([s \in SUBSET S |-> 0], 0)
    BY <1>1 DEF Added
  <2> QED BY <2>1
<1>3. ASSUME NEW n \in N PROVE n + 1 \in N
  <2>1. PICK g : Upto(g, n)
    BY <1>3
  <2> DEFINE h == [s \in SUBSET S |-> Added(g, f, s)]
  <2>2. ASSUME NEW s \in SUBSET S, Cardinality(s) <= n + 1 PROVE h[s] = Added(h, f, s)
    <3>1. CASE s = {}
      BY <3>1 DEF Added
    <3>2. CASE s # {}
      <4>1. PICK t \in SUBSET S : t = s \ {Pick(s)}
        OBVIOUS
      <4>2. Cardinality(t) <= n
        BY <1>1, <2>2, <3>2, <4>1, PickedElement, FS_RemoveElement
      <4>3. g[t] = h[t]
        BY <2>1, <4>2
      <4> QED BY <3>2, <4>1, <4>3 DEF Added
    <3> QED BY <3>1, <3>2
  <2> HIDE DEF h
  <2>3. Upto(h, n + 1)
    BY <2>2
  <2> QED BY <2>3
<1> HIDE DEF N
<1>4. Cardinality(S) \in N
  BY <1>1, <1>2, <1>3, SetInduction
<1>5. PICK g : Upto(g, Cardinality(S))
  BY <1>4 DEF N
<1>6. \A s \in SUBSET S : g[s] = Added(g, f, s)
  BY <1>5, FS_Subset, FS_CardinalityType
<1> DEFINE G == [s \in SUBSET S |-> g[s]]
<1>7. \A s \in SUBSET S : G[s] = Added(G, f, s)
  BY <1>6, PickedElement DEF Added
<1>8. G = [s \in SUBSET S |-> G[s]]
  OBVIOUS
<1> HIDE DEF G
<1>9. Adding(G, f, S)
  BY <1>7, <1>8, Zenon DEF Adding
<1> QED BY <1>9

\* and agrees on the subsets with that of a larger set.
LEMMA AddingUnique ==
  ASSUME NEW f, NEW S, IsFiniteSet(S), NEW g, Adding(g, f, S),
         NEW T, S \subseteq T, NEW h, Adding(h, f, T)
  PROVE  \A s \in SUBSET S : g[s] = h[s]
<1> DEFINE W == {s \in SUBSET S : g[s] = h[s]}
<1>1. ASSUME NEW s \in SUBSET S, \A x \in s : s \ {x} \in W PROVE s \in W
  <2>1. g[s] = Added(g, f, s) /\ h[s] = Added(h, f, s)
    BY DEF Adding
  <2>2. CASE s = {}
    BY <2>1, <2>2 DEF Added
  <2>3. CASE s # {}
    <3>1. s \ {Pick(s)} \in W
      BY <1>1, <2>3, PickedElement
    <3> QED BY <2>1, <3>1 DEF Added
  <2> QED BY <2>2, <2>3
<1> HIDE DEF W
<1>2. SUBSET S \subseteq W
  BY <1>1, SubsetInduction
<1> QED BY <1>2 DEF W

\* The sums over all subsets of a finite set, in one function.
LEMMA SumsOfSubsets ==
  ASSUME NEW f, NEW S, IsFiniteSet(S)
  PROVE  \E g : Adding(g, f, S) /\ \A s \in SUBSET S : SumOf(f, s) = g[s]
<1>1. PICK g : Adding(g, f, S)
  BY AddingExists
<1>2. ASSUME NEW s \in SUBSET S PROVE SumOf(f, s) = g[s]
  <2>1. PICK h : h = CHOOSE a : Adding(a, f, s)
    OBVIOUS
  <2>2. IsFiniteSet(s)
    BY FS_Subset
  <2>3. Adding(h, f, s)
    BY <2>1, <2>2, AddingExists
  <2>4. h[s] = g[s]
    BY <1>1, <2>2, <2>3, AddingUnique
  <2> QED BY <2>1, <2>4, SumChoice
<1> QED BY <1>1, <1>2

\* Nothing adds up to nothing.
LEMMA SumOfNothing ==
  ASSUME NEW f
  PROVE  SumOf(f, {}) = 0
<1>1. PICK g : Adding(g, f, {}) /\ SumOf(f, {}) = g[{}]
  BY SumsOfSubsets, FS_EmptySet
<1> QED BY <1>1 DEF Adding, Added

\* The element chosen first.
LEMMA SumPicked ==
  ASSUME NEW f, NEW S, IsFiniteSet(S), S # {}
  PROVE  SumOf(f, S) = f[Pick(S)] + SumOf(f, S \ {Pick(S)})
<1>1. PICK g : Adding(g, f, S) /\ \A s \in SUBSET S : SumOf(f, s) = g[s]
  BY SumsOfSubsets
<1>2. SumOf(f, S) = g[S] /\ SumOf(f, S \ {Pick(S)}) = g[S \ {Pick(S)}]
  BY <1>1
<1> QED BY <1>1, <1>2 DEF Adding, Added

\* Integers add up to one.
LEMMA SumIsInteger ==
  ASSUME NEW f, NEW S, IsFiniteSet(S), \A x \in S : f[x] \in Int
  PROVE  SumOf(f, S) \in Int
<1> DEFINE W == {s \in SUBSET S : SumOf(f, s) \in Int}
<1>1. ASSUME NEW s \in SUBSET S, \A x \in s : s \ {x} \in W PROVE s \in W
  <2>1. CASE s = {}
    BY <2>1, SumOfNothing
  <2>2. CASE s # {}
    <3>1. Pick(s) \in s /\ IsFiniteSet(s)
      BY <2>2, PickedElement, FS_Subset
    <3>2. SumOf(f, s) = f[Pick(s)] + SumOf(f, s \ {Pick(s)})
      BY <2>2, <3>1, SumPicked
    <3>3. f[Pick(s)] \in Int /\ SumOf(f, s \ {Pick(s)}) \in Int
      BY <1>1, <3>1
    <3> QED BY <3>2, <3>3
  <2> QED BY <2>1, <2>2
<1> HIDE DEF W
<1>2. SUBSET S \subseteq W
  BY <1>1, SubsetInduction
<1> QED BY <1>2 DEF W

\* Any element can be added last.
LEMMA SumElement ==
  ASSUME NEW f, NEW S, IsFiniteSet(S), \A x \in S : f[x] \in Int, NEW e \in S
  PROVE  SumOf(f, S) = f[e] + SumOf(f, S \ {e})
<1> DEFINE W == {s \in SUBSET S : \A x \in s : SumOf(f, s) = f[x] + SumOf(f, s \ {x})}
<1>1. ASSUME NEW s \in SUBSET S, \A x \in s : s \ {x} \in W PROVE s \in W
  <2> SUFFICES ASSUME NEW x \in s PROVE SumOf(f, s) = f[x] + SumOf(f, s \ {x})
    OBVIOUS
  <2>1. PICK p \in s : p = Pick(s)
    BY PickedElement
  <2>2. IsFiniteSet(s)
    BY FS_Subset
  <2>3. SumOf(f, s) = f[p] + SumOf(f, s \ {p})
    BY <2>1, <2>2, SumPicked
  <2>4. CASE x = p
    BY <2>3, <2>4
  <2>5. CASE x # p
    <3>1. PICK rest : rest = SumOf(f, s \ {p, x})
      OBVIOUS
    <3>2. s \ {p, x} = (s \ {p}) \ {x} /\ s \ {p, x} = (s \ {x}) \ {p}
      OBVIOUS
    <3>3. SumOf(f, s \ {p}) = f[x] + rest
      BY <1>1, <2>5, <3>1, <3>2
    <3>4. SumOf(f, s \ {x}) = f[p] + rest
      BY <1>1, <2>5, <3>1, <3>2
    <3>5. rest \in Int /\ f[x] \in Int /\ f[p] \in Int
      <4>1. IsFiniteSet(s \ {p, x})
        BY <2>2, FS_Subset
      <4> QED BY <3>1, <4>1, SumIsInteger
    <3> QED BY <2>3, <3>3, <3>4, <3>5
  <2> QED BY <2>4, <2>5
<1> HIDE DEF W
<1>2. SUBSET S \subseteq W
  BY <1>1, SubsetInduction
<1>3. S \in W
  BY <1>2
<1> QED BY <1>3 DEF W

\* Equal terms have equal sums.
LEMMA SameSum ==
  ASSUME NEW f, NEW h, NEW S, IsFiniteSet(S), \A x \in S : f[x] = h[x]
  PROVE  SumOf(f, S) = SumOf(h, S)
<1> DEFINE W == {s \in SUBSET S : SumOf(f, s) = SumOf(h, s)}
<1>1. ASSUME NEW s \in SUBSET S, \A x \in s : s \ {x} \in W PROVE s \in W
  <2>1. CASE s = {}
    BY <2>1, SumOfNothing
  <2>2. CASE s # {}
    <3>1. Pick(s) \in s /\ IsFiniteSet(s)
      BY <2>2, PickedElement, FS_Subset
    <3>2. SumOf(f, s \ {Pick(s)}) = SumOf(h, s \ {Pick(s)})
      BY <1>1, <3>1
    <3> QED BY <2>2, <3>1, <3>2, SumPicked
  <2> QED BY <2>1, <2>2
<1> HIDE DEF W
<1>2. SUBSET S \subseteq W
  BY <1>1, SubsetInduction
<1> QED BY <1>2 DEF W

\* Disjoint parts are added one by one.
LEMMA SumOfParts ==
  ASSUME NEW f, NEW S, NEW T, IsFiniteSet(S), IsFiniteSet(T), S \cap T = {},
         \A x \in S \cup T : f[x] \in Int
  PROVE  SumOf(f, S \cup T) = SumOf(f, S) + SumOf(f, T)
<1> DEFINE W == {s \in SUBSET S : SumOf(f, s \cup T) = SumOf(f, s) + SumOf(f, T)}
<1>1. ASSUME NEW s \in SUBSET S, \A x \in s : s \ {x} \in W PROVE s \in W
  <2>1. CASE s = {}
    <3>1. SumOf(f, T) \in Int /\ SumOf(f, s) = 0
      BY <2>1, SumOfNothing, SumIsInteger
    <3>2. s \cup T = T
      BY <2>1
    <3>3. SumOf(f, s \cup T) = SumOf(f, T)
      BY <3>2
    <3> QED BY <3>1, <3>3
  <2>2. CASE s # {}
    <3>1. PICK x \in s : TRUE
      BY <2>2
    <3>2. IsFiniteSet(s) /\ IsFiniteSet(s \cup T) /\ IsFiniteSet(s \ {x})
      BY FS_Subset, FS_Union
    <3>3. PICK both : both = SumOf(f, (s \ {x}) \cup T)
      OBVIOUS
    <3>4. (s \cup T) \ {x} = (s \ {x}) \cup T
      OBVIOUS
    <3>5. SumOf(f, s \cup T) = f[x] + both
      BY <3>2, <3>3, <3>4, SumElement
    <3>6. SumOf(f, s) = f[x] + SumOf(f, s \ {x})
      BY <3>2, SumElement
    <3>7. both = SumOf(f, s \ {x}) + SumOf(f, T)
      BY <1>1, <3>3
    <3>8. SumOf(f, s \ {x}) \in Int /\ SumOf(f, T) \in Int /\ f[x] \in Int
      BY <3>2, SumIsInteger
    <3> QED BY <3>5, <3>6, <3>7, <3>8
  <2> QED BY <2>1, <2>2
<1> HIDE DEF W
<1>2. SUBSET S \subseteq W
  BY <1>1, SubsetInduction
<1> QED BY <1>2 DEF W

\* A sum of sums, element by element.
LEMMA SumsAdd ==
  ASSUME NEW f, NEW h, NEW k, NEW S, IsFiniteSet(S),
         \A x \in S : h[x] \in Int /\ k[x] \in Int /\ f[x] = h[x] + k[x]
  PROVE  SumOf(f, S) = SumOf(h, S) + SumOf(k, S)
<1> DEFINE W == {s \in SUBSET S : SumOf(f, s) = SumOf(h, s) + SumOf(k, s)}
<1>1. ASSUME NEW s \in SUBSET S, \A x \in s : s \ {x} \in W PROVE s \in W
  <2>1. CASE s = {}
    BY <2>1, SumOfNothing
  <2>2. CASE s # {}
    <3>1. PICK x \in s : x = Pick(s)
      BY <2>2, PickedElement
    <3>2. IsFiniteSet(s) /\ IsFiniteSet(s \ {x})
      BY FS_Subset
    <3>3. SumOf(f, s \ {x}) = SumOf(h, s \ {x}) + SumOf(k, s \ {x})
      BY <1>1
    <3>4. /\ SumOf(f, s) = f[x] + SumOf(f, s \ {x})
          /\ SumOf(h, s) = h[x] + SumOf(h, s \ {x})
          /\ SumOf(k, s) = k[x] + SumOf(k, s \ {x})
      BY <2>2, <3>1, <3>2, SumPicked
    <3>5. SumOf(h, s \ {x}) \in Int /\ SumOf(k, s \ {x}) \in Int
      BY <3>2, SumIsInteger
    <3> QED BY <3>3, <3>4, <3>5
  <2> QED BY <2>1, <2>2
<1> HIDE DEF W
<1>2. SUBSET S \subseteq W
  BY <1>1, SubsetInduction
<1> QED BY <1>2 DEF W

\* Terms that are zero add nothing.
LEMMA SumOfZeros ==
  ASSUME NEW f, NEW S, IsFiniteSet(S), \A x \in S : f[x] = 0
  PROVE  SumOf(f, S) = 0
<1> DEFINE W == {s \in SUBSET S : SumOf(f, s) = 0}
<1>1. ASSUME NEW s \in SUBSET S, \A x \in s : s \ {x} \in W PROVE s \in W
  <2>1. CASE s = {}
    BY <2>1, SumOfNothing
  <2>2. CASE s # {}
    <3>1. Pick(s) \in s /\ IsFiniteSet(s)
      BY <2>2, PickedElement, FS_Subset
    <3>2. SumOf(f, s \ {Pick(s)}) = 0 /\ f[Pick(s)] = 0
      BY <1>1, <3>1
    <3> QED BY <2>2, <3>1, <3>2, SumPicked
  <2> QED BY <2>1, <2>2
<1> HIDE DEF W
<1>2. SUBSET S \subseteq W
  BY <1>1, SubsetInduction
<1> QED BY <1>2 DEF W

\* A finite set names finitely many.
LEMMA FiniteImage ==
  ASSUME NEW S, IsFiniteSet(S), NEW name
  PROVE  IsFiniteSet({name[x] : x \in S})
<1> DEFINE T == {name[x] : x \in S}
           g == [x \in S |-> name[x]]
<1>1. g \in Surjection(S, T)
  BY DEF Surjection
<1> HIDE DEF g
<1> QED BY <1>1, FS_Surjection

\* Another way to name the elements: a sum over S as one over T.
LEMMA SumRenamed ==
  ASSUME NEW f, NEW h, NEW S, NEW T, IsFiniteSet(S), NEW name \in [S -> T],
         \A x, y \in S : name[x] = name[y] => x = y,
         \A z \in T : \E x \in S : name[x] = z,
         \A x \in S : f[x] \in Int /\ h[name[x]] = f[x]
  PROVE  SumOf(h, T) = SumOf(f, S)
<1> DEFINE Image(s) == {name[x] : x \in s}
           W == {s \in SUBSET S : SumOf(h, Image(s)) = SumOf(f, s)}
<1>1. ASSUME NEW s \in SUBSET S, \A x \in s : s \ {x} \in W PROVE s \in W
  <2>1. CASE s = {}
    BY <2>1, SumOfNothing
  <2>2. CASE s # {}
    <3>1. PICK x \in s : TRUE
      BY <2>2
    <3>2. IsFiniteSet(s) /\ IsFiniteSet(Image(s))
      BY FS_Subset, FiniteImage
    <3>3. Image(s) \ {name[x]} = Image(s \ {x}) /\ name[x] \in Image(s)
      OBVIOUS
    <3>4. \A z \in Image(s) : h[z] \in Int
      OBVIOUS
    <3>5. SumOf(h, Image(s \ {x})) = SumOf(f, s \ {x})
      BY <1>1
    <3> HIDE DEF Image
    <3>6. SumOf(h, Image(s)) = h[name[x]] + SumOf(h, Image(s) \ {name[x]})
      BY <3>2, <3>3, <3>4, SumElement
    <3>7. SumOf(f, s) = f[x] + SumOf(f, s \ {x})
      BY <3>2, SumElement
    <3> QED BY <3>3, <3>5, <3>6, <3>7
  <2> QED BY <2>1, <2>2
<1> HIDE DEF W
<1>2. S \in W
  BY <1>1, SubsetInduction
<1>3. Image(S) = T
  OBVIOUS
<1> QED BY <1>2, <1>3 DEF W

\* The elements of S by what they are named.
Part(S, name, t) == {x \in S : name[x] = t}
\* Terms may be grouped by name first.
LEMMA SumByNames ==
  ASSUME NEW S, IsFiniteSet(S), NEW T, IsFiniteSet(T), NEW f, NEW h, NEW name,
         \A x \in S : f[x] \in Int, \A x \in S : name[x] \in T,
         \A t \in T : h[t] = SumOf(f, Part(S, name, t))
  PROVE  SumOf(f, S) = SumOf(h, T)
<1> DEFINE Named(U) == {x \in S : name[x] \in U}
           W == {U \in SUBSET T : SumOf(f, Named(U)) = SumOf(h, U)}
<1>1. ASSUME NEW U \in SUBSET T, \A t \in U : U \ {t} \in W PROVE U \in W
  <2>1. CASE U = {}
    <3>1. Named(U) = {}
      BY <2>1
    <3> QED BY <2>1, <3>1, SumOfNothing
  <2>2. CASE U # {}
    <3>1. PICK t \in U : t = Pick(U)
      BY <2>2, PickedElement
    <3>2. PICK own, rest : own = Part(S, name, t) /\ rest = Named(U \ {t})
      OBVIOUS
    <3>3. own \cap rest = {} /\ Named(U) = own \cup rest /\ own \subseteq S /\ rest \subseteq S
      BY <3>2 DEF Part
    <3>4. IsFiniteSet(own) /\ IsFiniteSet(rest) /\ IsFiniteSet(U)
      BY <3>3, FS_Subset
    <3>5. SumOf(f, Named(U)) = SumOf(f, own) + SumOf(f, rest)
      <4> HIDE DEF Named
      <4> QED BY <3>3, <3>4, SumOfParts
    <3>6. SumOf(h, U) = h[t] + SumOf(h, U \ {t})
      BY <2>2, <3>1, <3>4, SumPicked
    <3>7. h[t] = SumOf(f, own) /\ SumOf(f, rest) = SumOf(h, U \ {t})
      BY <1>1, <3>2
    <3> QED BY <3>5, <3>6, <3>7
  <2> QED BY <2>1, <2>2
<1> HIDE DEF W
<1>2. T \in W
  <2>1. SUBSET T \subseteq W
    BY <1>1, SubsetInduction, Zenon
  <2> QED BY <2>1
<1>3. Named(T) = S
  OBVIOUS
<1> HIDE DEF Named
<1> QED BY <1>2, <1>3 DEF W

\* The sum of opposites.
LEMMA SumNegated ==
  ASSUME NEW S, IsFiniteSet(S), NEW f, NEW h, \A x \in S : f[x] \in Int /\ h[x] = -f[x]
  PROVE  SumOf(h, S) = -SumOf(f, S) /\ SumOf(f, S) \in Int
<1> DEFINE zero == [x \in S |-> 0]
<1>1. \A x \in S : f[x] \in Int /\ h[x] \in Int /\ zero[x] = f[x] + h[x]
  OBVIOUS
<1>2. \A x \in S : zero[x] = 0
  OBVIOUS
<1> HIDE DEF zero
<1>3. SumOf(zero, S) = 0
  BY <1>2, SumOfZeros
<1>4. SumOf(zero, S) = SumOf(f, S) + SumOf(h, S)
  BY <1>1, SumsAdd
<1>5. SumOf(f, S) \in Int /\ SumOf(h, S) \in Int
  BY <1>1, SumIsInteger
<1> QED BY <1>3, <1>4, <1>5

-----------------------------------------------------------------------------
(* Division.                                                               *)

\* Integer division and its remainder.
LEMMA Division ==
  ASSUME NEW x \in Int, NEW d \in Nat, d > 0
  PROVE  /\ x \div d \in Int /\ x % d = x - d * (x \div d)
         /\ d * (x \div d) <= x /\ x < d * (x \div d) + d
<1>1. x \div d \in Int /\ d * (x \div d) <= x /\ x < d * ((x \div d) + 1)
  OBVIOUS
<1>2. x % d = x - d * (x \div d)
  OBVIOUS
<1>3. d * ((x \div d) + 1) = d * (x \div d) + d
  BY <1>1
<1> QED BY <1>1, <1>2, <1>3

\* The quotient is the one number with its remainder below the divisor.
LEMMA Quotient ==
  ASSUME NEW x \in Int, NEW d \in Nat, d > 0, NEW q \in Int, d * q <= x, x < d * q + d
  PROVE  x \div d = q
<1>1. PICK p \in Int : p = x \div d /\ d * p <= x /\ x < d * p + d
  BY Division
<1>2. CASE p < q
  <2>1. d * (p + 1) <= d * q
    BY <1>2
  <2>2. d * (p + 1) = d * p + d
    OBVIOUS
  <2> QED BY <1>1, <2>1, <2>2
<1>3. CASE q < p
  <2>1. d * (q + 1) <= d * p
    BY <1>3
  <2>2. d * (q + 1) = d * q + d
    OBVIOUS
  <2> QED BY <1>1, <2>1, <2>2
<1> QED BY <1>1, <1>2, <1>3

\* Adding half the divisor first is to round a half up.
LEMMA HalfUp ==
  ASSUME NEW x \in Nat, NEW h \in Nat, h > 0
  PROVE  (x + h) \div (2 * h) = x \div (2 * h) + IF 2 * (x % (2 * h)) >= 2 * h THEN 1 ELSE 0
<1>1. PICK d \in Nat : d = 2 * h /\ d > 0
  OBVIOUS
<1>2. PICK q \in Int : q = x \div d
  BY <1>1, Division
<1>3. PICK r \in Int : r = x % d /\ r = x - d * q /\ d * q <= x /\ x < d * q + d
  BY <1>1, <1>2, Division
<1>4. CASE r >= h
  <2>1. d * (q + 1) = d * q + d
    OBVIOUS
  <2>2. (x + h) \div d = q + 1
    BY <1>1, <1>3, <1>4, <2>1, Quotient
  <2> QED BY <1>1, <1>2, <1>3, <1>4, <2>2
<1>5. CASE r < h
  <2>2. (x + h) \div d = q
    BY <1>1, <1>3, <1>5, Quotient
  <2> QED BY <1>1, <1>2, <1>3, <1>5, <2>2
<1> QED BY <1>3, <1>4, <1>5

-----------------------------------------------------------------------------
(* Dates.                                                                  *)

\* A month number as year and month, and how long the month is.
LEMMA MonthParts ==
  ASSUME NEW m \in Int
  PROVE  /\ YearOf(m) \in Int /\ MonthNo(m) \in 1 .. 12
         /\ YearOf(m) * 12 + MonthNo(m) - 1 = m
         /\ DaysIn(m) \in 28 .. 31
BY DEF YearOf, MonthNo, DaysIn

\* A date of a month, in its fields.
LEMMA DateFields ==
  ASSUME NEW m \in Int, NEW d \in DatesIn(m)
  PROVE  /\ MonthIndex(d) = m
         /\ d[1] = YearOf(m) /\ d[2] = MonthNo(m) /\ d[3] \in 1 .. DaysIn(m)
         /\ d = Date(m, d[3])
<1>1. PICK day \in 1 .. DaysIn(m) : d = <<YearOf(m), MonthNo(m), day>>
  BY DEF DatesIn, Date
<1>2. d[1] = YearOf(m) /\ d[2] = MonthNo(m) /\ d[3] = day
  BY <1>1
<1> QED BY <1>1, <1>2, MonthParts DEF MonthIndex, Date

\* days of the years before a year
YearDays(y) == 365 * y + (y \div 4) - (y \div 100) + (y \div 400)

\* The days before a year grow by its length.
LEMMA LeapDay ==
  ASSUME NEW y \in Int
  PROVE  YearDays(y) - YearDays(y - 1) = IF Leap(y) THEN 366 ELSE 365
BY DEF YearDays, Leap

\* Days of a month are numbered one after the other,
LEMMA DayOfMonth ==
  ASSUME NEW m \in Int, NEW d \in DatesIn(m)
  PROVE  /\ DayNumber(First(m)) \in Int
         /\ DayNumber(d) = DayNumber(First(m)) + d[3] - 1
<1>1. First(m) = <<YearOf(m), MonthNo(m), 1>>
  BY DEF First, Date
<1>2. d[1] = YearOf(m) /\ d[2] = MonthNo(m) /\ d[3] \in Int
  BY DateFields, MonthParts
<1>3. First(m)[1] = YearOf(m) /\ First(m)[2] = MonthNo(m) /\ First(m)[3] = 1
  BY <1>1
<1>4. YearOf(m) \in Int /\ MonthNo(m) \in 1 .. 12
  BY MonthParts
<1>5. PICK years, days : /\ years = YearDays(IF MonthNo(m) <= 2 THEN YearOf(m) - 1 ELSE YearOf(m))
                         /\ days = (153 * ((MonthNo(m) + 9) % 12) + 2) \div 5
  OBVIOUS
<1>6. years \in Int /\ days \in Int
  BY <1>4, <1>5 DEF YearDays
<1>7. DayNumber(d) = years + days + d[3]
  BY <1>2, <1>5 DEF DayNumber, YearDays
<1>8. DayNumber(First(m)) = years + days + 1
  BY <1>3, <1>5 DEF DayNumber, YearDays
<1> QED BY <1>2, <1>6, <1>7, <1>8

\* the next month follows the last of them,
LEMMA MonthLength ==
  ASSUME NEW m \in Int
  PROVE  DayNumber(First(m + 1)) = DayNumber(First(m)) + DaysIn(m)
<1> DEFINE y == YearOf(m)
           n == MonthNo(m)
<1>1. y \in Int /\ n \in 1 .. 12
  BY MonthParts
<1>2. First(m) = <<y, n, 1>>
  BY DEF First, Date
<1>3. First(m + 1) = IF n = 12 THEN <<y + 1, 1, 1>> ELSE <<y, n + 1, 1>>
  BY DEF First, Date, YearOf, MonthNo
<1>4. DaysIn(m) = IF n = 2 THEN (IF Leap(y) THEN 29 ELSE 28)
                  ELSE IF n \in {4, 6, 9, 11} THEN 30 ELSE 31
  BY DEF DaysIn
<1> HIDE DEF y, n
<1>5. \A a \in Int, k \in 1 .. 12, day \in Int :
        DayNumber(<<a, k, day>>) = YearDays(IF k <= 2 THEN a - 1 ELSE a)
                                   + ((153 * ((k + 9) % 12) + 2) \div 5) + day
  BY DEF DayNumber, YearDays
<1>6. YearDays(y) \in Int /\ YearDays(y - 1) \in Int
  BY <1>1 DEF YearDays
<1>7. CASE n = 2
  BY <1>1, <1>2, <1>3, <1>4, <1>5, <1>6, <1>7, LeapDay
<1>8. CASE n # 2 /\ n # 12
  BY <1>1, <1>2, <1>3, <1>4, <1>5, <1>6, <1>8
<1>9. CASE n = 12
  BY <1>1, <1>2, <1>3, <1>4, <1>5, <1>6, <1>9
<1> QED BY <1>7, <1>8, <1>9

\* and so does every later month.
LEMMA MonthsInOrder ==
  ASSUME NEW m \in Int, NEW n \in Int, m < n
  PROVE  DayNumber(First(m)) + DaysIn(m) <= DayNumber(First(n))
<1> DEFINE F(k) == DayNumber(First(k))
           S == {k \in Nat : F(m + 1) <= F(m + 1 + k)}
<1>1. \A k \in Int : F(k) \in Int /\ DaysIn(k) \in 28 .. 31 /\ F(k + 1) = F(k) + DaysIn(k)
  <2> SUFFICES ASSUME NEW k \in Int PROVE F(k) \in Int
    BY MonthParts, MonthLength
  <2>1. First(k) \in DatesIn(k)
    BY MonthParts DEF First, DatesIn
  <2> QED BY <2>1, DayOfMonth
<1> HIDE DEF F
<1>2. 0 \in S
  BY <1>1
<1>3. ASSUME NEW k \in S PROVE k + 1 \in S
  <2>1. F(m + 1 + k + 1) = F(m + 1 + k) + DaysIn(m + 1 + k)
    BY <1>1
  <2> QED BY <1>1, <2>1
<1> HIDE DEF S
<1>4. n - m - 1 \in S
  BY <1>2, <1>3, SetInduction
<1>5. F(m + 1) <= F(n)
  <2>1. m + 1 + (n - m - 1) = n
    OBVIOUS
  <2> QED BY <1>4, <2>1 DEF S
<1> QED BY <1>1, <1>5 DEF F

\* Dates are in the order of their day numbers.
LEMMA OrderOfDays ==
  ASSUME NEW d, NEW e, IsCivil(d), IsCivil(e)
  PROVE  /\ DayNumber(d) \in Int /\ DayNumber(e) \in Int
         /\ UpTo(d, e) <=> DayNumber(d) <= DayNumber(e)
<1> DEFINE m == MonthIndex(d)
           n == MonthIndex(e)
<1>1. /\ m \in Int /\ d[3] \in 1 .. DaysIn(m) /\ DaysIn(m) \in 28 .. 31
      /\ DayNumber(First(m)) \in Int /\ DayNumber(d) = DayNumber(First(m)) + d[3] - 1
  BY DateFields, DayOfMonth, MonthParts DEF IsCivil
<1>2. /\ n \in Int /\ e[3] \in 1 .. DaysIn(n) /\ DaysIn(n) \in 28 .. 31
      /\ DayNumber(First(n)) \in Int /\ DayNumber(e) = DayNumber(First(n)) + e[3] - 1
  BY DateFields, DayOfMonth, MonthParts DEF IsCivil
<1>3. CASE m < n
  BY <1>1, <1>2, <1>3, MonthsInOrder DEF UpTo
<1>4. CASE m = n
  BY <1>1, <1>2, <1>4 DEF UpTo
<1>5. CASE n < m
  BY <1>1, <1>2, <1>5, MonthsInOrder DEF UpTo
<1> HIDE DEF m, n
<1> QED BY <1>1, <1>2, <1>3, <1>4, <1>5

-----------------------------------------------------------------------------
(* Rules.                                                                  *)

\* A distance without remainder is a number of weeks.
LEMMA WholeWeeks ==
  ASSUME NEW x \in Nat, x % 7 = 0
  PROVE  \E q \in Nat : x = 7 * q
<1>1. x \div 7 \in Nat /\ x = 7 * (x \div 7)
  OBVIOUS
<1> QED BY <1>1

\* A weekly rule: first date and steps of seven, or distance from the start.
LEMMA SameWeeks ==
  ASSUME NEW r, IsRule(r), r.recurrence = "HEBDOMADAIRE", NEW m \in Int, NEW d \in DatesIn(m)
  PROVE  d \in OccurrencesIn(r, m) <=> MatchesSql(r, d)
<1> DEFINE distance == DayNumber(First(m)) - DayNumber(r.start)
           first == IF distance <= 0 THEN 0 ELSE (distance + 6) \div 7
           x == DayNumber(d) - DayNumber(r.start)
<1>1. /\ DayNumber(First(m)) \in Int /\ DayNumber(r.start) \in Int /\ DayNumber(d) \in Int
      /\ x = distance + d[3] - 1 /\ d[3] \in 1 .. 31
  <2>1. IsCivil(d) /\ d[3] \in 1 .. DaysIn(m)
    BY DateFields DEF IsCivil
  <2>2. DayNumber(r.start) \in Int /\ DayNumber(d) \in Int
    BY <2>1, OrderOfDays DEF IsRule
  <2>3. d[3] \in 1 .. 31
    <3>1. DaysIn(m) \in 28 .. 31
      BY MonthParts
    <3> QED BY <2>1, <3>1
  <2> QED BY <2>2, <2>3, DayOfMonth
<1>2. UpTo(r.start, d) <=> x >= 0
  <2>1. IsCivil(d)
    BY DateFields DEF IsCivil
  <2> QED BY <1>1, <2>1, OrderOfDays DEF IsRule
<1>3. (x >= 0 /\ x % 7 = 0) <=> \E k \in first .. first + 4 : x = 7 * k
  <2>1. distance \in Int /\ first \in Nat
    BY <1>1
  <2>2. ASSUME x >= 0, x % 7 = 0 PROVE \E k \in first .. first + 4 : x = 7 * k
    <3>1. PICK q \in Nat : x = 7 * q
      <4>1. x \in Nat
        BY <1>1, <2>2
      <4> QED BY <2>2, <4>1, WholeWeeks
    <3>2. PICK f \in Nat : f = first
      BY <2>1
    <3>3. CASE distance <= 0
      BY <1>1, <3>1, <3>3
    <3>4. CASE distance > 0
      <4>1. 7 * f <= distance + 6 /\ distance + 6 < 7 * f + 7
        BY <2>1, <3>2, <3>4
      <4>2. f <= q /\ q <= f + 4
        BY <1>1, <2>1, <3>1, <4>1
      <4> QED BY <3>1, <3>2, <4>2
    <3> QED BY <2>1, <3>3, <3>4
  <2>3. ASSUME NEW k \in first .. first + 4, x = 7 * k PROVE x >= 0 /\ x % 7 = 0
    BY <1>1, <2>1, <2>3
  <2> QED BY <2>2, <2>3
<1>4. UpTo(r.start, d) => UpTo(r.start, Last(m))
  <2>1. /\ MonthIndex(d) = m /\ d[3] \in 1 .. DaysIn(m) /\ DaysIn(m) \in Int
        /\ MonthIndex(Last(m)) = m /\ Last(m)[3] = DaysIn(m)
    <3>1. Last(m) \in DatesIn(m)
      BY MonthParts DEF Last, DatesIn
    <3> QED BY <3>1, DateFields, MonthParts DEF Last, Date
  <2> QED BY <2>1, DateFields DEF UpTo, IsRule, IsCivil
<1>5. BeforeEnd(r, d) => BeforeEnd(r, First(m))
  <2>1. /\ MonthIndex(d) = m /\ d[3] \in 1 .. DaysIn(m) /\ DaysIn(m) \in Int
        /\ MonthIndex(First(m)) = m /\ First(m)[3] = 1
    <3>1. First(m) \in DatesIn(m)
      BY MonthParts DEF First, DatesIn
    <3> QED BY <3>1, DateFields, MonthParts DEF First, Date
  <2>2. r.end # NoDate => r.end[3] \in Int /\ MonthIndex(r.end) \in Int
    BY DateFields, MonthParts DEF IsRule, IsCivil
  <2> QED BY <2>1, <2>2 DEF UpTo, BeforeEnd
<1>6. d \in Weekly(r, m) <=> (\E k \in first .. first + 4 : x = 7 * k) /\ BeforeEnd(r, d)
  <2>1. \A k \in first .. first + 4 : DayNumber(d) = DayNumber(r.start) + 7 * k <=> x = 7 * k
    BY <1>1
  <2> QED BY <2>1 DEF Weekly
<1>7. d \in OccurrencesIn(r, m) <=> UpTo(r.start, d) /\ x % 7 = 0 /\ BeforeEnd(r, d)
  <2> HIDE DEF x, first, distance
  <2> QED BY <1>2, <1>3, <1>4, <1>5, <1>6 DEF OccurrencesIn
<1>8. MatchesSql(r, d) <=> UpTo(r.start, d) /\ x % 7 = 0 /\ BeforeEnd(r, d)
  BY DEF MatchesSql, BeforeEnd
<1> QED BY <1>7, <1>8

\* A rule in months: the day is clamped to the month in both.
LEMMA SameAnniversaries ==
  ASSUME NEW r, IsRule(r), r.recurrence \in {"MENSUELLE", "TRIMESTRIELLE", "ANNUELLE"},
         NEW m \in Int, NEW d \in DatesIn(m)
  PROVE  d \in OccurrencesIn(r, m) <=> MatchesSql(r, d)
<1>1. /\ MonthIndex(d) = m /\ d[3] \in 1 .. DaysIn(m) /\ DaysIn(m) \in Int
      /\ MonthIndex(Last(m)) = m /\ Last(m)[3] = DaysIn(m)
      /\ MonthIndex(First(m)) = m /\ First(m)[3] = 1
  <2>1. DaysIn(m) \in 28 .. 31
    BY MonthParts
  <2>2. Last(m) \in DatesIn(m) /\ First(m) \in DatesIn(m)
    BY <2>1 DEF Last, First, DatesIn
  <2> QED BY <2>1, <2>2, DateFields DEF Last, First, Date
<1>2. MonthIndex(r.start) \in Int /\ r.start[3] \in Int
  <2>1. DaysIn(MonthIndex(r.start)) \in 28 .. 31
    BY MonthParts DEF IsRule, IsCivil
  <2> QED BY <2>1, DateFields DEF IsRule, IsCivil
<1>3. r.end # NoDate => r.end[3] \in Int /\ MonthIndex(r.end) \in Int
  <2> SUFFICES ASSUME r.end # NoDate PROVE r.end[3] \in Int /\ MonthIndex(r.end) \in Int
    OBVIOUS
  <2>1. DaysIn(MonthIndex(r.end)) \in 28 .. 31 /\ IsCivil(r.end)
    BY MonthParts DEF IsRule, IsCivil
  <2> QED BY <2>1, DateFields DEF IsCivil
<1>4. UpTo(r.start, d) => UpTo(r.start, Last(m))
  BY <1>1, <1>2 DEF UpTo
<1>5. BeforeEnd(r, d) => BeforeEnd(r, First(m))
  BY <1>1, <1>3 DEF UpTo, BeforeEnd
<1> DEFINE day == IF r.start[3] <= DaysIn(m) THEN r.start[3] ELSE DaysIn(m)
           far == m - MonthIndex(r.start)
<1>6. d \in OccurrencesIn(r, m) <=> /\ far % Interval(r.recurrence) = 0
                                   /\ d[3] = day /\ UpTo(r.start, d) /\ BeforeEnd(r, d)
  BY <1>4, <1>5 DEF OccurrencesIn, Anniversary
<1>7. MatchesSql(r, d) <=> /\ \/ r.recurrence = "MENSUELLE"
                              \/ r.recurrence = "TRIMESTRIELLE" /\ far % 3 = 0
                              \/ r.recurrence = "ANNUELLE" /\ far % 12 = 0
                           /\ d[3] = day /\ UpTo(r.start, d) /\ BeforeEnd(r, d)
  BY <1>1, <1>2 DEF MatchesSql, BeforeEnd
<1>8. far % 1 = 0
  BY <1>2
<1>9. (far % Interval(r.recurrence) = 0) <=>
        \/ r.recurrence = "MENSUELLE"
        \/ r.recurrence = "TRIMESTRIELLE" /\ far % 3 = 0
        \/ r.recurrence = "ANNUELLE" /\ far % 12 = 0
  <2> HIDE DEF far
  <2> QED BY <1>8 DEF Interval
<1> QED BY <1>6, <1>7, <1>9

\* A rule without recurrence.
LEMMA SameSingle ==
  ASSUME NEW r, IsRule(r), r.recurrence = "AUCUNE", NEW m \in Int, NEW d \in DatesIn(m)
  PROVE  d \in OccurrencesIn(r, m) <=> MatchesSql(r, d)
<1>1. r.end = NoDate
  BY DEF IsRule
<1>2. UpTo(r.start, r.start)
  <2>1. DaysIn(MonthIndex(r.start)) \in 28 .. 31
    BY MonthParts DEF IsRule, IsCivil
  <2> QED BY <2>1, DateFields DEF IsRule, IsCivil, UpTo
<1> QED BY <1>1, <1>2 DEF OccurrencesIn, MatchesSql

\* Both codes give the same dates of every rule in every month.
LEMMA SameDates ==
  ASSUME NEW r, IsRule(r), NEW m \in Int
  PROVE  OccurrencesIn(r, m) = PlannedDates(r, DatesIn(m))
<1>1. OccurrencesIn(r, m) \subseteq DatesIn(m)
  BY DEF OccurrencesIn, Weekly, Anniversary
<1>2. r.recurrence \in Recurrences
  BY DEF IsRule
<1>3. \A d \in DatesIn(m) : d \in OccurrencesIn(r, m) <=> MatchesSql(r, d)
  BY <1>2, SameSingle, SameWeeks, SameAnniversaries DEF Recurrences
<1> QED BY <1>1, <1>3 DEF PlannedDates

-----------------------------------------------------------------------------
(* The fixed base of a month.                                              *)

MonthlySums(S) == MapThenSumSet(Charges!MonthlyAmount, S)
SqlSums(S) == MapThenSumSet(Charges!SqlCharge, S)
AmountSums(S) == LET amount(r) == r.amount IN MapThenSumSet(amount, S)
PlannedSums(S) == LET planned(o) == o.planned IN MapThenSumSet(planned, S)
Sources(kind, rows, o) == {r \in Charges!SourcesOf(o, rows) : Charges!KindOf(r.type) = kind}
SourceSums(kind, rows, S) ==
  LET old(o) == MonthlySums(Sources(kind, rows, o)) IN MapThenSumSet(old, S)

\* The library's sums over a set, for each of the amounts added.
LEMMA MonthlySumsAdd ==
  ASSUME NEW S
  PROVE  MonthlySums(S) = SumOf([r \in S |-> Charges!MonthlyAmount(r)], S)
<1> DEFINE f == [r \in S |-> Charges!MonthlyAmount(r)]
<1>1. \A g : Adding(g, f, S) <=>
         g = [s \in SUBSET S |-> IF s = {} THEN 0
                                 ELSE Charges!MonthlyAmount(Pick(s)) + g[s \ {Pick(s)}]]
  <2>1. \A s \in SUBSET S : s # {} => f[Pick(s)] = Charges!MonthlyAmount(Pick(s))
    BY PickedElement
  <2> HIDE DEF f
  <2> QED BY <2>1, Zenon DEF Adding, Added
<1> HIDE DEF f
<1> QED BY <1>1, SumChoice, Zenon DEF MonthlySums, MapThenSumSet, MapThenFoldSet, Pick, f

\* The sums of the fixed base: the shares the SQL adds,
LEMMA SqlSumsAdd ==
  ASSUME NEW S
  PROVE  SqlSums(S) = SumOf([r \in S |-> Charges!SqlCharge(r)], S)
<1> DEFINE f == [r \in S |-> Charges!SqlCharge(r)]
<1>1. \A g : Adding(g, f, S) <=>
         g = [s \in SUBSET S |-> IF s = {} THEN 0
                                 ELSE Charges!SqlCharge(Pick(s)) + g[s \ {Pick(s)}]]
  <2>1. \A s \in SUBSET S : s # {} => f[Pick(s)] = Charges!SqlCharge(Pick(s))
    BY PickedElement
  <2> HIDE DEF f
  <2> QED BY <2>1, Zenon DEF Adding, Added
<1> HIDE DEF f
<1> QED BY <1>1, SumChoice, Zenon DEF SqlSums, MapThenSumSet, MapThenFoldSet, Pick, f

\* the whole amounts,
LEMMA AmountSumsAdd ==
  ASSUME NEW S
  PROVE  AmountSums(S) = SumOf([r \in S |-> r.amount], S)
<1> DEFINE f == [r \in S |-> r.amount]
<1>1. \A g : Adding(g, f, S) <=>
         g = [s \in SUBSET S |-> IF s = {} THEN 0 ELSE Pick(s).amount + g[s \ {Pick(s)}]]
  <2>1. \A s \in SUBSET S : s # {} => f[Pick(s)] = Pick(s).amount
    BY PickedElement
  <2> HIDE DEF f
  <2> QED BY <2>1, Zenon DEF Adding, Added
<1> HIDE DEF f
<1> QED BY <1>1, SumChoice, Zenon DEF AmountSums, MapThenSumSet, MapThenFoldSet, Pick, f

\* what the occurrences replace,
LEMMA SourceSumsAdd ==
  ASSUME NEW kind, NEW rows, NEW S
  PROVE  SourceSums(kind, rows, S) = SumOf([o \in S |-> MonthlySums(Sources(kind, rows, o))], S)
<1> DEFINE f == [o \in S |-> MonthlySums(Sources(kind, rows, o))]
<1>1. \A g : Adding(g, f, S) <=>
         g = [s \in SUBSET S |-> IF s = {} THEN 0
                ELSE MonthlySums(Sources(kind, rows, Pick(s))) + g[s \ {Pick(s)}]]
  <2>1. \A s \in SUBSET S : s # {} => f[Pick(s)] = MonthlySums(Sources(kind, rows, Pick(s)))
    BY PickedElement
  <2> HIDE DEF f
  <2> QED BY <2>1, Zenon DEF Adding, Added
<1> HIDE DEF f
<1> QED BY <1>1, SumChoice, Zenon DEF SourceSums, MapThenSumSet, MapThenFoldSet, Pick, f

\* and what they plan.
LEMMA PlannedSumsAdd ==
  ASSUME NEW S
  PROVE  PlannedSums(S) = SumOf([o \in S |-> o.planned], S)
<1> DEFINE f == [o \in S |-> o.planned]
<1>1. \A g : Adding(g, f, S) <=>
         g = [s \in SUBSET S |-> IF s = {} THEN 0 ELSE Pick(s).planned + g[s \ {Pick(s)}]]
  <2>1. \A s \in SUBSET S : s # {} => f[Pick(s)] = Pick(s).planned
    BY PickedElement
  <2> HIDE DEF f
  <2> QED BY <2>1, Zenon DEF Adding, Added
<1> HIDE DEF f
<1> QED BY <1>1, SumChoice, Zenon DEF PlannedSums, MapThenSumSet, MapThenFoldSet, Pick, f

\* What the three totals of a month are sums of.
LEMMA ChargeTotals ==
  ASSUME NEW rows, NEW occurrences, NEW kind
  PROVE  /\ Charges!MonthTotals(rows) = [income  |-> MonthlySums(Charges!OfType(rows, "REVENU")),
                                         expense |-> MonthlySums(Charges!OfType(rows, "CHARGE"))]
         /\ Charges!SqlTotals(rows) = [income  |-> AmountSums(Charges!OfType(rows, "REVENU")),
                                       expense |-> SqlSums(Charges!OfType(rows, "CHARGE"))]
         /\ Charges!Written(kind, occurrences) = PlannedSums({o \in occurrences : o.kind = kind})
         /\ Charges!Replaced(kind, occurrences, rows) = SourceSums(kind, rows, occurrences)
<1>1. Charges!MonthTotals(rows) = [income  |-> MonthlySums(Charges!OfType(rows, "REVENU")),
                                   expense |-> MonthlySums(Charges!OfType(rows, "CHARGE"))]
  BY DEF Charges!MonthTotals, MonthlySums, MapThenSumSet, MapThenFoldSet,
         Charges!MapThenSumSet, Charges!MapThenFoldSet
<1>2. Charges!SqlTotals(rows) = [income  |-> AmountSums(Charges!OfType(rows, "REVENU")),
                                 expense |-> SqlSums(Charges!OfType(rows, "CHARGE"))]
  BY DEF Charges!SqlTotals, AmountSums, SqlSums, MapThenSumSet, MapThenFoldSet,
         Charges!MapThenSumSet, Charges!MapThenFoldSet
<1>3. Charges!Written(kind, occurrences) = PlannedSums({o \in occurrences : o.kind = kind})
  BY DEF Charges!Written, PlannedSums, MapThenSumSet, MapThenFoldSet,
         Charges!MapThenSumSet, Charges!MapThenFoldSet
<1>4. Charges!Replaced(kind, occurrences, rows) = SourceSums(kind, rows, occurrences)
  BY DEF Charges!Replaced, SourceSums, Sources, MonthlySums, MapThenSumSet, MapThenFoldSet,
         Charges!MapThenSumSet, Charges!MapThenFoldSet
<1> QED BY <1>1, <1>2, <1>3, <1>4

\* The periods a charge may have.
LEMMA ChargeMonthsValues ==
  ASSUME NEW p \in DOMAIN Charges!ChargeMonths
  PROVE  Charges!ChargeMonths[p] \in {1, 2, 3, 6, 12}
BY DEF Charges!ChargeMonths

\* Half a cent goes up in both: the share of a charge in a month to the cent.
LEMMA SameCharge ==
  ASSUME NEW r, r.period \in DOMAIN Charges!ChargeMonths, r.amount \in Nat, r.share \in Nat
  PROVE  Charges!PersonalCharge(r, TRUE) = Charges!SqlCharge(r) /\ Charges!SqlCharge(r) \in Int
<1>1. PICK x \in Nat : x = r.amount * r.share
  OBVIOUS
<1>2. PICK n \in {1, 2, 3, 6, 12} : n = Charges!ChargeMonths[r.period]
  BY ChargeMonthsValues
<1>3. PICK h \in Nat : h = 5000 * n /\ h > 0 /\ 2 * h = 10000 * n /\ (10000 * n) \div 2 = h
  BY <1>2
<1>4. /\ Charges!PersonalCharge(r, TRUE) = (x + h) \div (2 * h)
      /\ Charges!SqlCharge(r) = x \div (2 * h) + IF 2 * (x % (2 * h)) >= 2 * h THEN 1 ELSE 0
  BY <1>1, <1>2, <1>3 DEF Charges!PersonalCharge, Charges!SqlCharge, Charges!WholeShare
<1>5. (x + h) \div (2 * h) \in Int
  BY <1>3, Division
<1>6. (x + h) \div (2 * h) = x \div (2 * h) + IF 2 * (x % (2 * h)) >= 2 * h THEN 1 ELSE 0
  <2>1. h \in Nat /\ h > 0
    BY <1>3
  <2> QED BY ONLY x \in Nat, <2>1, HalfUp, Zenon
<1> QED BY <1>4, <1>5, <1>6, Zenon

\* The rows of a month are finitely many.
LEMMA FiniteCharges ==
  ASSUME NEW c, Charges!IsMonth(c.rows, c.occurrences)
  PROVE  IsFiniteSet(c.rows) /\ IsFiniteSet(c.occurrences)
BY Zenon DEF Charges!IsMonth, Charges!IsFiniteSet, IsFiniteSet

\* What a row counts in a month.
LEMMA MonthlyAmounts ==
  ASSUME NEW c, Charges!IsMonth(c.rows, c.occurrences), NEW r \in c.rows
  PROVE  /\ Charges!MonthlyAmount(r) \in Int
         /\ r.type = "REVENU" => Charges!MonthlyAmount(r) = r.amount
         /\ r.type = "CHARGE" => Charges!MonthlyAmount(r) = Charges!SqlCharge(r)
<1>1. /\ r.type \in {"CHARGE", "REVENU"} /\ r.period \in DOMAIN Charges!ChargeMonths
      /\ r.amount \in Nat /\ r.share \in 0 .. Charges!WholeShare
  BY DEF Charges!IsMonth
<1>2. r.share \in Nat
  <2>1. Charges!WholeShare \in Nat
    BY DEF Charges!WholeShare
  <2> QED BY <1>1, <2>1
<1>3. Charges!PersonalCharge(r, TRUE) = Charges!SqlCharge(r) /\ Charges!SqlCharge(r) \in Int
  BY <1>1, <1>2, SameCharge, Zenon
<1>4. r.amount \in Int
  BY <1>1
<1> QED BY <1>1, <1>3, <1>4, Zenon DEF Charges!MonthlyAmount

\* The occurrences of a kind have an integer sum.
LEMMA PlannedSumsInteger ==
  ASSUME NEW c, Charges!IsMonth(c.rows, c.occurrences), NEW kind
  PROVE  PlannedSums({o \in c.occurrences : o.kind = kind}) \in Int
<1> DEFINE S == {o \in c.occurrences : o.kind = kind}
<1>1. IsFiniteSet(S)
  BY FiniteCharges, FS_Subset
<1>2. \A o \in S : [x \in S |-> x.planned][o] \in Int
  BY DEF Charges!IsMonth
<1> QED BY <1>1, <1>2, PlannedSumsAdd, SumIsInteger

\* Both ways of adding the rows agree to the cent.
LEMMA SameTotals ==
  ASSUME NEW c, Charges!IsMonth(c.rows, c.occurrences)
  PROVE  Charges!MonthTotals(c.rows) = Charges!SqlTotals(c.rows)
<1> DEFINE R == Charges!OfType(c.rows, "REVENU")
           C == Charges!OfType(c.rows, "CHARGE")
<1>1. /\ IsFiniteSet(R) /\ R \subseteq c.rows /\ \A r \in R : r.type = "REVENU"
      /\ IsFiniteSet(C) /\ C \subseteq c.rows /\ \A r \in C : r.type = "CHARGE"
  BY FS_Subset, FiniteCharges DEF Charges!OfType
<1> HIDE DEF R, C
<1>2. MonthlySums(R) = AmountSums(R)
  <2>1. \A r \in R : [x \in R |-> Charges!MonthlyAmount(x)][r] = [x \in R |-> x.amount][r]
    BY <1>1, MonthlyAmounts
  <2> QED BY <1>1, <2>1, SameSum, MonthlySumsAdd, AmountSumsAdd
<1>3. MonthlySums(C) = SqlSums(C)
  <2>1. \A r \in C : [x \in C |-> Charges!MonthlyAmount(x)][r] = [x \in C |-> Charges!SqlCharge(x)][r]
    BY <1>1, MonthlyAmounts
  <2> QED BY <1>1, <2>1, SameSum, MonthlySumsAdd, SqlSumsAdd
<1> QED BY <1>2, <1>3, ChargeTotals DEF R, C

\* The amounts of rows that no two occurrences share.
LEMMA ReplacedSources ==
  ASSUME NEW c, Charges!IsMonth(c.rows, c.occurrences), NEW kind
  PROVE  SourceSums(kind, c.rows, c.occurrences) =
           MonthlySums({r \in c.rows : /\ Charges!KindOf(r.type) = kind
                                       /\ \E o \in c.occurrences : r.id = o.source})
<1> DEFINE Of(S) == {r \in c.rows : Charges!KindOf(r.type) = kind /\ \E o \in S : r.id = o.source}
           f == [r \in c.rows |-> Charges!MonthlyAmount(r)]
           h == [o \in c.occurrences |-> MonthlySums(Sources(kind, c.rows, o))]
           W == {S \in SUBSET c.occurrences : SumOf(h, S) = SumOf(f, Of(S))}
<1>1. \A S \in SUBSET c.rows : IsFiniteSet(S) /\ MonthlySums(S) = SumOf(f, S) /\ SumOf(f, S) \in Int
  <2> SUFFICES ASSUME NEW S \in SUBSET c.rows
               PROVE  IsFiniteSet(S) /\ MonthlySums(S) = SumOf(f, S) /\ SumOf(f, S) \in Int
    OBVIOUS
  <2>1. IsFiniteSet(S)
    BY FS_Subset, FiniteCharges
  <2>2. \A r \in S : f[r] \in Int /\ f[r] = [x \in S |-> Charges!MonthlyAmount(x)][r]
    BY MonthlyAmounts
  <2> QED BY <2>1, <2>2, SameSum, SumIsInteger, MonthlySumsAdd
<1>2. ASSUME NEW S \in SUBSET c.occurrences, \A o \in S : S \ {o} \in W PROVE S \in W
  <2>1. CASE S = {}
    <3>1. Of(S) = {}
      BY <2>1
    <3> QED BY <2>1, <3>1, SumOfNothing
  <2>2. CASE S # {}
    <3>1. PICK o \in S : o = Pick(S)
      BY <2>2, PickedElement
    <3>2. IsFiniteSet(S)
      BY FS_Subset, FiniteCharges
    <3>3. SumOf(h, S) = h[o] + SumOf(h, S \ {o})
      BY <2>2, <3>1, <3>2, SumPicked
    <3>4. SumOf(h, S \ {o}) = SumOf(f, Of(S \ {o}))
      BY <1>2
    <3> DEFINE own == Sources(kind, c.rows, o)
               rest == Of(S \ {o})
    <3>5. own \in SUBSET c.rows /\ rest \in SUBSET c.rows /\ own \cap rest = {} /\ own \cup rest = Of(S)
      BY DEF Sources, Charges!SourcesOf, Charges!IsMonth
    <3>6. h[o] = SumOf(f, own)
      BY <1>1, <3>5
    <3> HIDE DEF own, rest, Of, f, h
    <3>7. SumOf(f, own \cup rest) = SumOf(f, own) + SumOf(f, rest)
      <4>1. \A r \in own \cup rest : f[r] \in Int
        BY <3>5, MonthlyAmounts DEF f
      <4> QED BY <1>1, <3>5, <4>1, SumOfParts
    <3>8. SumOf(h, S) = SumOf(f, Of(S))
      BY <3>3, <3>4, <3>5, <3>6, <3>7 DEF rest
    <3> QED BY <3>8 DEF h
  <2> QED BY <2>1, <2>2
<1> HIDE DEF W
<1>3. c.occurrences \in W
  <2>1. IsFiniteSet(c.occurrences)
    BY FiniteCharges
  <2>2. SUBSET c.occurrences \subseteq W
    BY <1>2, <2>1, SubsetInduction, Zenon
  <2> QED BY <2>2
<1>4. SumOf(h, c.occurrences) = SumOf(f, Of(c.occurrences))
  BY <1>3 DEF W
<1>5. SourceSums(kind, c.rows, c.occurrences) = SumOf(h, c.occurrences)
  BY SourceSumsAdd
<1>6. Of(c.occurrences) \in SUBSET c.rows
  OBVIOUS
<1> QED BY <1>1, <1>4, <1>5, <1>6

\* One kind of amounts: the rows less those replaced, and the occurrences.
LEMMA ReconciledKind ==
  ASSUME NEW c, Charges!IsMonth(c.rows, c.occurrences), NEW type \in {"CHARGE", "REVENU"}
  PROVE  LET kind == Charges!KindOf(type)
             free == {r \in c.rows : \A o \in c.occurrences : o.source # r.id}
         IN  /\ MonthlySums(Charges!OfType(c.rows, type)) - SourceSums(kind, c.rows, c.occurrences)
                  = MonthlySums(Charges!OfType(free, type))
             /\ MonthlySums(Charges!OfType(free, type)) \in Int
<1> DEFINE kind == Charges!KindOf(type)
           free == {r \in c.rows : \A o \in c.occurrences : o.source # r.id}
           kept == Charges!OfType(free, type)
           replaced == {r \in c.rows : /\ Charges!KindOf(r.type) = kind
                                       /\ \E o \in c.occurrences : r.id = o.source}
           f == [r \in c.rows |-> Charges!MonthlyAmount(r)]
<1>1. \A S \in SUBSET c.rows : IsFiniteSet(S) /\ MonthlySums(S) = SumOf(f, S) /\ SumOf(f, S) \in Int
  <2> SUFFICES ASSUME NEW S \in SUBSET c.rows
               PROVE  IsFiniteSet(S) /\ MonthlySums(S) = SumOf(f, S) /\ SumOf(f, S) \in Int
    OBVIOUS
  <2>1. IsFiniteSet(S)
    BY FS_Subset, FiniteCharges
  <2>2. \A r \in S : f[r] \in Int /\ f[r] = [x \in S |-> Charges!MonthlyAmount(x)][r]
    BY MonthlyAmounts
  <2> QED BY <2>1, <2>2, SameSum, SumIsInteger, MonthlySumsAdd
<1>2. \A r \in c.rows : f[r] \in Int
  BY MonthlyAmounts
<1>3. \A r \in c.rows : Charges!KindOf(r.type) = kind <=> r.type = type
  BY DEF Charges!KindOf, Charges!IsMonth
<1>4. /\ kept \in SUBSET c.rows /\ replaced \in SUBSET c.rows /\ kept \cap replaced = {}
      /\ Charges!OfType(c.rows, type) = kept \cup replaced
  <2> HIDE DEF kind
  <2> QED BY <1>3 DEF Charges!OfType
<1>5. SourceSums(kind, c.rows, c.occurrences) = MonthlySums(replaced)
  BY ReplacedSources
<1> HIDE DEF kept, replaced, f
<1>6. SumOf(f, kept \cup replaced) = SumOf(f, kept) + SumOf(f, replaced)
  BY <1>1, <1>2, <1>4, SumOfParts
<1>7. MonthlySums(Charges!OfType(c.rows, type)) = SumOf(f, kept \cup replaced)
  BY <1>1, <1>4
<1>8. /\ MonthlySums(replaced) = SumOf(f, replaced) /\ SumOf(f, replaced) \in Int
      /\ MonthlySums(kept) = SumOf(f, kept) /\ SumOf(f, kept) \in Int
  BY <1>1, <1>4
<1>9. MonthlySums(Charges!OfType(c.rows, type)) - SourceSums(kind, c.rows, c.occurrences) = MonthlySums(kept)
  BY <1>5, <1>6, <1>7, <1>8
<1> QED BY <1>8, <1>9 DEF kept

-----------------------------------------------------------------------------
(* Deployments.                                                            *)

\* The servers after each of n deployments.
After(g, server, runs, n) ==
  g = [i \in 0 .. n |-> IF i = 0 THEN server ELSE Deployments!Deployed(g[i - 1], runs[i])]

\* The servers a series of deployments leaves, built one by one,
LEMMA SeriesExists ==
  ASSUME NEW server, NEW runs, NEW n \in Nat
  PROVE  \E g : After(g, server, runs, n)
<1> DEFINE S == {k \in Nat : \E g : After(g, server, runs, k)}
<1>1. 0 \in S
  <2> DEFINE g == [i \in 0 .. 0 |-> server]
  <2>1. After(g, server, runs, 0)
    BY DEF After
  <2> QED BY <2>1
<1>2. ASSUME NEW k \in S PROVE k + 1 \in S
  <2>1. PICK g : After(g, server, runs, k)
    BY <1>2
  <2> DEFINE h == [i \in 0 .. k + 1 |-> IF i = k + 1 THEN Deployments!Deployed(g[k], runs[k + 1]) ELSE g[i]]
  <2>2. \A i \in 0 .. k + 1 : h[i] = IF i = 0 THEN server ELSE Deployments!Deployed(h[i - 1], runs[i])
    BY <2>1 DEF After
  <2>3. After(h, server, runs, k + 1)
    BY <2>2 DEF After
  <2> QED BY <2>3
<1> HIDE DEF S
<1>3. n \in S
  BY <1>1, <1>2, SetInduction
<1> QED BY <1>3 DEF S

\* are those of the model.
LEMMA ServersStep ==
  ASSUME NEW server, NEW runs, Len(runs) \in Nat
  PROVE  LET after == Deployments!Servers(server, runs)
         IN  /\ after[0] = server
             /\ \A i \in 1 .. Len(runs) : after[i] = Deployments!Deployed(after[i - 1], runs[i])
<1> DEFINE g == CHOOSE a : After(a, server, runs, Len(runs))
<1>1. After(g, server, runs, Len(runs))
  BY SeriesExists
<1>2. Deployments!Servers(server, runs) = [i \in 0 .. Len(runs) |-> g[i]]
  BY DEF Deployments!Servers, After
<1> HIDE DEF g
<1> QED BY <1>1, <1>2 DEF After

\* A migration only raises the schema.
LEMMA MigratedServer ==
  ASSUME NEW s \in Deployments!States, NEW r \in Deployments!Runs, Deployments!FindsSchema(s)
  PROVE  LET m == Deployments!Migrated(s, r)
         IN  /\ m \in Deployments!States /\ Deployments!FindsSchema(m)
             /\ m.running = s.running /\ m.recorded = s.recorded /\ m.answers = s.answers
             /\ ~(r.steps < 2 \/ m.failed) => r.image.level <= m.schema
<1>1. CASE r.steps < 1 \/ s.failed \/ r.image.level <= s.schema
  BY <1>1 DEF Deployments!Migrated, Deployments!Runs, Deployments!States, Deployments!Images, Deployments!FindsSchema
<1>2. CASE ~(r.steps < 1 \/ s.failed \/ r.image.level <= s.schema)
  <2>1. PICK level \in Nat : /\ level = IF r.reached > s.schema THEN r.reached ELSE s.schema
                             /\ level >= s.schema /\ level >= r.reached
    BY DEF Deployments!States, Deployments!Runs
  <2> DEFINE failed == r.reached < r.image.level
  <2>3. PICK m : m = [s EXCEPT !.schema = level, !.failed = failed]
    OBVIOUS
  <2>4. Deployments!Migrated(s, r) = m
    BY <1>2, <2>1, <2>3 DEF Deployments!Migrated
  <2>2. failed \in BOOLEAN
    OBVIOUS
  <2> HIDE DEF failed
  <2>5. m \in Deployments!States /\ m.schema = level /\ m.failed = failed
        /\ m.running = s.running /\ m.recorded = s.recorded /\ m.answers = s.answers
    BY <2>1, <2>2, <2>3 DEF Deployments!States
  <2>6. Deployments!FindsSchema(m) /\ (~m.failed => r.image.level <= m.schema)
    BY <2>1, <2>5 DEF failed, Deployments!FindsSchema, Deployments!States, Deployments!Runs, Deployments!Images
  <2> QED BY <2>4, <2>5, <2>6
<1> QED BY <1>1, <1>2

\* A deployment, whatever fails in it.
LEMMA DeployedServer ==
  ASSUME NEW s \in Deployments!States, NEW r \in Deployments!Runs, Deployments!FindsSchema(s)
  PROVE  LET d == Deployments!Deployed(s, r)
         IN  /\ d \in Deployments!States /\ Deployments!FindsSchema(d)
             /\ d.recorded \in {s.recorded} \union {x \in {r.image} : r.healthy}
             /\ r.steps = 3 /\ s.running = s.recorded
                /\ (s.recorded # Deployments!NoImage \/ r.healthy)
                => /\ d.running = d.recorded
                   /\ s.answers /\ (r.healthy \/ r.restored) => d.answers
<1>1. PICK m : m = Deployments!Migrated(s, r)
  OBVIOUS
<1>2. /\ m \in Deployments!States /\ Deployments!FindsSchema(m)
      /\ m.running = s.running /\ m.recorded = s.recorded /\ m.answers = s.answers
      /\ ~(r.steps < 2 \/ m.failed) => r.image.level <= m.schema
  BY <1>1, MigratedServer
<1>3. PICK d : d = Deployments!Deployed(s, r)
  OBVIOUS
<1>4. CASE r.steps < 2 \/ m.failed
  <2>1. d = m
    BY <1>1, <1>3, <1>4 DEF Deployments!Deployed
  <2> QED BY <1>2, <1>3, <2>1, <1>4 DEF Deployments!Runs, Deployments!States
<1>5. CASE ~(r.steps < 2 \/ m.failed)
  <2>1. PICK t : t = [m EXCEPT !.running = r.image, !.answers = r.healthy]
    OBVIOUS
  <2>2. /\ t \in Deployments!States /\ Deployments!FindsSchema(t) /\ t.running = r.image /\ t.answers = r.healthy
        /\ t.recorded = s.recorded /\ t.schema = m.schema
    BY <1>2, <1>5, <2>1 DEF Deployments!States, Deployments!Runs, Deployments!Images, Deployments!FindsSchema
  <2>3. d = IF r.steps < 3 THEN t
            ELSE IF r.healthy THEN [t EXCEPT !.recorded = r.image]
            ELSE IF t.recorded = Deployments!NoImage THEN t
            ELSE [t EXCEPT !.running = t.recorded, !.answers = r.restored]
    BY <1>1, <1>3, <1>5, <2>1 DEF Deployments!Deployed, Deployments!Started, Deployments!RolledBack
  <2>4. CASE r.steps < 3
    BY <1>3, <2>2, <2>3, <2>4
  <2>5. CASE r.steps >= 3 /\ r.healthy
    <3>1. d = [t EXCEPT !.recorded = r.image]
      BY <2>3, <2>5 DEF Deployments!Runs
    <3> QED BY <1>2, <1>3, <1>5, <2>2, <2>5, <3>1 DEF Deployments!States, Deployments!Runs, Deployments!Images, Deployments!FindsSchema
  <2>6. CASE r.steps >= 3 /\ ~r.healthy /\ t.recorded = Deployments!NoImage
    BY <1>3, <2>2, <2>3, <2>6 DEF Deployments!Runs
  <2>7. CASE r.steps >= 3 /\ ~r.healthy /\ t.recorded # Deployments!NoImage
    <3>1. d = [t EXCEPT !.running = t.recorded, !.answers = r.restored]
      BY <2>3, <2>7 DEF Deployments!Runs
    <3> QED BY <1>3, <2>2, <2>7, <3>1 DEF Deployments!States, Deployments!Runs, Deployments!Images, Deployments!FindsSchema
  <2> QED BY <2>4, <2>5, <2>6, <2>7 DEF Deployments!Runs
<1> QED BY <1>4, <1>5

\* What a series of deployments leaves at every step, from a server whose images find their schema.
LEMMA DeploymentStates ==
  ASSUME NEW server \in Deployments!States, Deployments!FindsSchema(server),
         NEW runs \in Seq(Deployments!Runs)
  PROVE  LET after == Deployments!Servers(server, runs)
         IN  \A i \in 0 .. Len(runs) :
               /\ after[i] \in Deployments!States /\ Deployments!FindsSchema(after[i])
               /\ after[i].recorded \in {server.recorded}
                    \union {r.image : r \in {t \in {runs[j] : j \in 1 .. i} : t.healthy}}
<1> DEFINE after == Deployments!Servers(server, runs)
           past(i) == {t \in {runs[j] : j \in 1 .. i} : t.healthy}
           Good(i) == /\ after[i] \in Deployments!States /\ Deployments!FindsSchema(after[i])
                      /\ after[i].recorded \in {server.recorded} \union {r.image : r \in past(i)}
           S == {n \in Nat : n <= Len(runs) => Good(n)}
<1>1. /\ after[0] = server /\ Len(runs) \in Nat
      /\ \A i \in 1 .. Len(runs) : after[i] = Deployments!Deployed(after[i - 1], runs[i])
  BY ServersStep
<1> HIDE DEF after
<1>2. 0 \in S
  BY <1>1
<1>3. ASSUME NEW n \in S PROVE n + 1 \in S
  <2>1. CASE n + 1 > Len(runs)
    BY <1>1, <2>1
  <2>2. CASE n + 1 <= Len(runs)
    <3>1. Good(n) /\ n + 1 \in 1 .. Len(runs) /\ n + 1 - 1 = n
      BY <1>1, <2>2
    <3>2. PICK r \in Deployments!Runs : r = runs[n + 1]
      BY <3>1
    <3>3. PICK s \in Deployments!States : s = after[n] /\ Deployments!FindsSchema(s)
      BY <3>1
    <3>4. PICK d : d = Deployments!Deployed(s, r) /\ d = after[n + 1]
      BY <1>1, <3>1, <3>2, <3>3
    <3>5. /\ d \in Deployments!States /\ Deployments!FindsSchema(d)
          /\ d.recorded \in {s.recorded} \union {x \in {r.image} : r.healthy}
      <4> HIDE DEF S, Good
      <4> QED BY <3>3, <3>4, DeployedServer, Zenon
    <3>6. past(n) \subseteq past(n + 1) /\ (r.healthy => r \in past(n + 1))
      BY <3>1, <3>2
    <3>7. d.recorded \in {server.recorded} \union {x.image : x \in past(n + 1)}
      <4> HIDE DEF past
      <4> QED BY <3>1, <3>3, <3>5, <3>6
    <3> QED BY <3>4, <3>5, <3>7
  <2> QED BY <1>1, <2>1, <2>2
<1> HIDE DEF S
<1>4. Nat \subseteq S
  BY <1>2, <1>3, SetInduction, Zenon
<1>5. \A i \in 0 .. Len(runs) : i \in S
  BY <1>1, <1>4
<1> QED BY <1>1, <1>5 DEF S, after

-----------------------------------------------------------------------------
(* Sets in an order.                                                       *)

\* A strict total order of a set.
Orders(R, S) ==
  /\ \A x \in S : <<x, x>> \notin R
  /\ \A x, y, z \in S : <<x, y>> \in R /\ <<y, z>> \in R => <<x, z>> \in R
  /\ \A x, y \in S : x # y => <<x, y>> \in R \/ <<y, x>> \in R

\* A sequence of a set that ascends lists all of it.
LEMMA AscendingLists ==
  ASSUME NEW S, IsFiniteSet(S), NEW R, Orders(R, S),
         NEW s \in [1 .. Cardinality(S) -> S],
         \A i, j \in 1 .. Cardinality(S) : i < j => <<s[i], s[j]>> \in R
  PROVE  \A x \in S : \E i \in 1 .. Cardinality(S) : s[i] = x
<1> DEFINE n == Cardinality(S)
<1>1. n \in Nat
  BY FS_CardinalityType
<1>2. IsFiniteSet(1 .. n) /\ Cardinality(1 .. n) = n
  BY <1>1, FS_Interval
<1>3. \A i, j \in 1 .. n : s[i] = s[j] => i = j
  <2> SUFFICES ASSUME NEW i \in 1 .. n, NEW j \in 1 .. n, s[i] = s[j], i < j PROVE FALSE
    BY <1>1
  <2>1. <<s[i], s[i]>> \in R /\ s[i] \in S
    OBVIOUS
  <2> QED BY <2>1 DEF Orders
<1>4. s \in Injection(1 .. n, S)
  BY <1>3 DEF Injection, IsInjective
<1> HIDE DEF n
<1>5. s \in Surjection(1 .. n, S)
  BY <1>2, <1>4, FS_Injection DEF n
<1> QED BY <1>5 DEF Surjection, n

\* A finite set has a sequence that ascends: each element at its rank.
LEMMA AscendingExists ==
  ASSUME NEW S, IsFiniteSet(S), NEW R, Orders(R, S)
  PROVE  \E s \in [1 .. Cardinality(S) -> S] :
           \A i, j \in 1 .. Cardinality(S) : i < j => <<s[i], s[j]>> \in R
<1> DEFINE n == Cardinality(S)
           upTo(x) == {y \in S : y = x \/ <<y, x>> \in R}
           rank == [x \in S |-> Cardinality(upTo(x))]
<1>1. n \in Nat /\ IsFiniteSet(1 .. n) /\ Cardinality(1 .. n) = n
  BY FS_CardinalityType, FS_Interval
<1>2. ASSUME NEW x \in S PROVE IsFiniteSet(upTo(x)) /\ rank[x] \in 1 .. n
  <2>1. upTo(x) \in SUBSET S
    OBVIOUS
  <2>2. IsFiniteSet(upTo(x)) /\ Cardinality(upTo(x)) <= n /\ Cardinality(upTo(x)) \in Nat
    BY <2>1, FS_Subset, FS_CardinalityType
  <2>3. x \in upTo(x)
    OBVIOUS
  <2>4. upTo(x) # {}
    BY <2>3
  <2>5. Cardinality(upTo(x)) # 0
    BY <2>2, <2>4, FS_EmptySet
  <2> QED BY <1>1, <2>2, <2>5
<1>3. ASSUME NEW x \in S, NEW y \in S, <<x, y>> \in R PROVE rank[x] < rank[y]
  <2>1. upTo(x) \in SUBSET upTo(y)
    BY <1>3 DEF Orders
  <2>2. y \notin upTo(x) /\ y \in upTo(y)
    BY <1>3 DEF Orders
  <2>3. Cardinality(upTo(x)) <= Cardinality(upTo(y))
        /\ Cardinality(upTo(x)) # Cardinality(upTo(y))
    BY <1>2, <2>1, <2>2, FS_Subset
  <2>4. rank[x] \in 1 .. n /\ rank[y] \in 1 .. n
    BY <1>2
  <2> QED BY <1>1, <2>3, <2>4
<1>4. rank \in [S -> 1 .. n]
  BY <1>2
<1> HIDE DEF rank
<1>5. \A x, y \in S : rank[x] = rank[y] => x = y
  <2> SUFFICES ASSUME NEW x \in S, NEW y \in S, rank[x] = rank[y], x # y PROVE FALSE
    OBVIOUS
  <2>1. rank[x] < rank[y] \/ rank[y] < rank[x]
    BY <1>3 DEF Orders
  <2> QED BY <1>1, <1>4, <2>1
<1>6. rank \in Surjection(S, 1 .. n)
  <2>1. rank \in Injection(S, 1 .. n)
    BY <1>4, <1>5 DEF Injection, IsInjective
  <2> QED BY <1>1, <2>1, FS_Injection
<1>7. \A i \in 1 .. n : \E x \in S : rank[x] = i
  BY <1>6 DEF Surjection
<1> DEFINE s == [i \in 1 .. n |-> CHOOSE x \in S : rank[x] = i]
<1>8. \A i \in 1 .. n : s[i] \in S /\ rank[s[i]] = i
  BY <1>7
<1>9. ASSUME NEW i \in 1 .. n, NEW j \in 1 .. n, i < j PROVE <<s[i], s[j]>> \in R
  <2>1. s[i] # s[j]
    BY <1>1, <1>8, <1>9
  <2>2. ~(<<s[j], s[i]>> \in R)
    BY <1>1, <1>3, <1>8, <1>9
  <2> QED BY <1>8, <2>1, <2>2 DEF Orders
<1>10. s \in [1 .. n -> S]
  BY <1>8
<1> HIDE DEF s
<1> QED BY <1>9, <1>10

-----------------------------------------------------------------------------
(* Releases.                                                               *)

\* What the fragments of a project are, in the words of this module.
LEMMA FragmentFacts ==
  ASSUME NEW F, Releases!IsFragments(F)
  PROVE  /\ IsFiniteSet(F)
         /\ \A f \in F : f.name \in Int /\ f.issue \in Int
         /\ \A f, g \in F : f.name = g.name => f = g
BY DEF Releases!IsFragments, Releases!IsFiniteSet, IsFiniteSet

\* Sets are counted and listed alike.
LEMMA SameCount == ASSUME NEW S PROVE Releases!Cardinality(S) = Cardinality(S)
BY Zenon DEF Releases!Cardinality, Cardinality

LEMMA SameRange == ASSUME NEW f PROVE Releases!Range(f) = Range(f)
BY DEF Releases!Range, Range

\* The fragments in the order of their names are all of them.
LEMMA NamesListed ==
  ASSUME NEW F, Releases!IsFragments(F)
  PROVE  \A f \in F : \E i \in 1 .. Cardinality(F) : Releases!ByName(F)[i] = f
<1> DEFINE R == {p \in F \X F : p[1].name < p[2].name}
<1>1. IsFiniteSet(F) /\ (\A f \in F : f.name \in Int) /\ (\A f, g \in F : f.name = g.name => f = g)
  BY FragmentFacts
<1>2. \A f, g \in F : <<f, g>> \in R <=> f.name < g.name
  OBVIOUS
<1>3. Orders(R, F)
  <2> HIDE DEF R
  <2>1. \A f \in F : <<f, f>> \notin R
    BY <1>1, <1>2
  <2>2. \A f, g, h \in F : <<f, g>> \in R /\ <<g, h>> \in R => <<f, h>> \in R
    BY <1>1, <1>2
  <2>3. \A f, g \in F : f # g => <<f, g>> \in R \/ <<g, f>> \in R
    BY <1>1, <1>2
  <2> QED BY <2>1, <2>2, <2>3 DEF Orders
<1> HIDE DEF R
<1>4. \E s \in [1 .. Cardinality(F) -> F] : \A i, j \in DOMAIN s : i < j => s[i].name < s[j].name
  <2>1. PICK s \in [1 .. Cardinality(F) -> F] :
          \A i, j \in 1 .. Cardinality(F) : i < j => <<s[i], s[j]>> \in R
    BY <1>1, <1>3, AscendingExists
  <2>2. \A i, j \in DOMAIN s : i < j => s[i].name < s[j].name
    BY <1>2, <2>1
  <2> QED BY <2>2
<1>5. PICK s : s = Releases!ByName(F)
  OBVIOUS
<1>6. s \in [1 .. Cardinality(F) -> F] /\ \A i, j \in DOMAIN s : i < j => s[i].name < s[j].name
  BY <1>4, <1>5, SameCount, Zenon DEF Releases!ByName, Releases!InOrder
<1>7. \A i, j \in 1 .. Cardinality(F) : i < j => <<s[i], s[j]>> \in R
  BY <1>2, <1>6
<1> QED BY <1>1, <1>3, <1>5, <1>6, <1>7, AscendingLists

\* What is printed, by whatever sections, is all the fragments.
LEMMA PrintedAll ==
  ASSUME NEW F, Releases!IsFragments(F), NEW section, \A f \in F : section[f.type] \in Int
  PROVE  /\ Releases!Printed(F, section) \in Seq(F)
         /\ Range(Releases!Printed(F, section)) = F
<1> DEFINE before(f, g) ==
             \/ section[f.type] < section[g.type]
             \/ section[f.type] = section[g.type] /\ f.issue < g.issue
             \/ section[f.type] = section[g.type] /\ f.issue = g.issue /\ f.name < g.name
           R == {p \in F \X F : before(p[1], p[2])}
<1>1. /\ IsFiniteSet(F) /\ (\A f \in F : f.name \in Int /\ f.issue \in Int)
      /\ \A f, g \in F : f.name = g.name => f = g
  BY FragmentFacts
<1>2. \A f, g \in F : <<f, g>> \in R <=> before(f, g)
  OBVIOUS
<1>3. Orders(R, F)
  <2> HIDE DEF R
  <2>1. \A f \in F : <<f, f>> \notin R
    BY <1>1, <1>2
  <2>2. \A f, g, h \in F : <<f, g>> \in R /\ <<g, h>> \in R => <<f, h>> \in R
    BY <1>1, <1>2
  <2>3. \A f, g \in F : f # g => <<f, g>> \in R \/ <<g, f>> \in R
    BY <1>1, <1>2
  <2> QED BY <2>1, <2>2, <2>3 DEF Orders
<1> HIDE DEF R
<1>4. \E s \in [1 .. Cardinality(F) -> F] : \A i, j \in DOMAIN s : i < j => before(s[i], s[j])
  <2>1. PICK s \in [1 .. Cardinality(F) -> F] :
          \A i, j \in 1 .. Cardinality(F) : i < j => <<s[i], s[j]>> \in R
    BY <1>1, <1>3, AscendingExists
  <2>2. \A i, j \in DOMAIN s : i < j => before(s[i], s[j])
    BY <1>2, <2>1
  <2> QED BY <2>2
<1>5. PICK s : s = Releases!Printed(F, section)
  OBVIOUS
<1>6. s \in [1 .. Cardinality(F) -> F] /\ \A i, j \in DOMAIN s : i < j => before(s[i], s[j])
  <2>1. s = CHOOSE t \in [1 .. Cardinality(F) -> F] :
               \A i, j \in DOMAIN t : i < j => before(t[i], t[j])
    BY <1>5, SameCount, Zenon DEF Releases!Printed, Releases!InOrder
  <2> HIDE DEF before
  <2> QED BY <1>4, <2>1, Zenon
<1>7. \A i, j \in 1 .. Cardinality(F) : i < j => <<s[i], s[j]>> \in R
  BY <1>2, <1>6
<1>8. \A f \in F : \E i \in 1 .. Cardinality(F) : s[i] = f
  <2> HIDE DEF before
  <2> QED BY <1>1, <1>3, <1>6, <1>7, AscendingLists
<1>9. Cardinality(F) \in Nat
  BY <1>1, FS_CardinalityType
<1>10. s \in Seq(F)
  BY <1>6, <1>9
<1>11. Range(s) = F
  BY <1>6, <1>8 DEF Range
<1> QED BY <1>5, <1>10, <1>11

\* A part of the fragments of a project are such fragments too.
LEMMA FewerFragments ==
  ASSUME NEW F, Releases!IsFragments(F), NEW G \in SUBSET F
  PROVE  Releases!IsFragments(G) /\ Cardinality(G) <= Cardinality(F)
<1>1. IsFiniteSet(G) /\ Cardinality(G) <= Cardinality(F)
  BY FragmentFacts, FS_Subset
<1> QED BY <1>1 DEF Releases!IsFragments, Releases!IsFiniteSet, IsFiniteSet

\* Types have a place among the sections.
LEMMA TypesPlaced ==
  ASSUME NEW type \in Releases!Range(Releases!Types)
  PROVE  Releases!SectionOf[type] \in Int /\ Releases!UserSectionOf[type] \in Int
<1>1. type \in {"added", "changed", "deprecated", "removed", "fixed", "security"}
  BY DEF Releases!Range, Releases!Types
<1>2. \E i \in DOMAIN Releases!Types : Releases!Types[i] = type
  BY DEF Releases!Range, Releases!Types
<1>3. \E i \in DOMAIN Releases!UserSections : type \in Releases!UserSections[i]
  <2>1. DOMAIN Releases!UserSections = 1 .. 5
    BY DEF Releases!UserSections
  <2>2. /\ "added" \in Releases!UserSections[1] /\ "changed" \in Releases!UserSections[2]
        /\ "fixed" \in Releases!UserSections[3] /\ "security" \in Releases!UserSections[4]
        /\ "deprecated" \in Releases!UserSections[5] /\ "removed" \in Releases!UserSections[5]
    BY DEF Releases!UserSections
  <2> QED BY <1>1, <2>1, <2>2
<1>4. DOMAIN Releases!Types \subseteq Int /\ DOMAIN Releases!UserSections \subseteq Int
  BY DEF Releases!Types, Releases!UserSections
<1>5. (CHOOSE i \in DOMAIN Releases!Types : Releases!Types[i] = type) \in Int
  BY <1>2, <1>4
<1>6. (CHOOSE i \in DOMAIN Releases!UserSections : type \in Releases!UserSections[i]) \in Int
  BY <1>3, <1>4
<1> QED BY <1>5, <1>6 DEF Releases!SectionOf, Releases!UserSectionOf

\* A section tells of all pending fragments, its notes of those with a line for users.
LEMMA Rendered ==
  ASSUME NEW F, Releases!IsFragments(F), \A f \in F : Releases!WellFormed(f)
  PROVE  /\ Releases!RenderBody(F) \in Seq(F) /\ Range(Releases!RenderBody(F)) = F
         /\ Range(Releases!RenderUserNotes(F)) = {f \in F : f.user}
<1>1. \A f \in F : Releases!SectionOf[f.type] \in Int /\ Releases!UserSectionOf[f.type] \in Int
  BY TypesPlaced DEF Releases!WellFormed
<1> DEFINE G == {f \in F : f.user}
<1>2. Releases!IsFragments(G)
  BY FewerFragments
<1>3. \A f \in G : Releases!UserSectionOf[f.type] \in Int
  BY <1>1
<1> HIDE DEF G
<1>4. Range(Releases!Printed(G, Releases!UserSectionOf)) = G
  BY <1>2, <1>3, PrintedAll
<1>5. Releases!Printed(F, Releases!SectionOf) \in Seq(F) /\ Range(Releases!Printed(F, Releases!SectionOf)) = F
  BY <1>1, PrintedAll
<1> QED BY <1>4, <1>5, Zenon DEF Releases!RenderBody, Releases!RenderUserNotes, G

\* Versions are ordered.
LEMMA OlderOrders ==
  ASSUME NEW a \in Releases!Versions, NEW b \in Releases!Versions
  PROVE  /\ ~Releases!Older(a, a)
         /\ a = b \/ Releases!Older(a, b) \/ Releases!Older(b, a)
         /\ \A c \in Releases!Versions : Releases!Older(a, b) /\ Releases!Older(b, c) => Releases!Older(a, c)
BY DEF Releases!Older, Releases!Versions

\* A bumped version is a newer one.
LEMMA BumpedIsVersion ==
  ASSUME NEW v \in Releases!Versions, NEW bump \in {"patch", "minor", "major"}
  PROVE  Releases!BumpVersion(v, bump) \in Releases!Versions
BY DEF Releases!BumpVersion, Releases!Versions

\* A version that is no smaller than the bump required differs where the fragments ask for it,
\* from the version before and from older ones.
LEMMA RaisedByBump ==
  ASSUME NEW v \in Releases!Versions, NEW w \in Releases!Versions, NEW u \in Releases!Versions,
         NEW F, Releases!Older(v, w), u = v \/ Releases!Older(u, v),
         ~Releases!Older(w, Releases!BumpVersion(v, Releases!RequiredBump(F)))
  PROVE  /\ (\E f \in F : f.type \in {"removed"}) => w[1] # u[1]
         /\ (\E f \in F : f.type \in {"added", "changed", "deprecated"}) => w[1] # u[1] \/ w[2] # u[2]
<1> DEFINE types == {f.type : f \in F}
<1>0. /\ w[1] \in Nat /\ w[2] \in Nat /\ w[3] \in Nat /\ v[1] \in Nat /\ v[2] \in Nat /\ v[3] \in Nat
      /\ u[1] \in Nat /\ u[2] \in Nat /\ u[3] \in Nat
      /\ u[1] < v[1] \/ (u[1] = v[1] /\ u[2] <= v[2])
  BY DEF Releases!Older, Releases!Versions
<1>1. ASSUME NEW f \in F, f.type \in {"removed"} PROVE w[1] # u[1]
  <2>1. "removed" \in types
    BY <1>1
  <2>2. Releases!RequiredBump(F) = "major"
    BY <2>1 DEF Releases!RequiredBump
  <2>3. Releases!BumpVersion(v, "major") = <<v[1] + 1, 0, 0>>
    BY DEF Releases!BumpVersion
  <2>4. ~Releases!Older(w, <<v[1] + 1, 0, 0>>)
    BY <2>2, <2>3
  <2>5. ~(w[1] < v[1] + 1)
    BY <2>4 DEF Releases!Older
  <2> QED BY <1>0, <2>5
<1>2. ASSUME NEW f \in F, f.type \in {"added", "changed", "deprecated"} PROVE w[1] # u[1] \/ w[2] # u[2]
  <2>1. {"added", "changed", "deprecated"} \intersect types # {}
    BY <1>2
  <2>2. Releases!RequiredBump(F) \in {"major", "minor"}
    BY <2>1 DEF Releases!RequiredBump
  <2>3. /\ Releases!BumpVersion(v, "major") = <<v[1] + 1, 0, 0>>
        /\ Releases!BumpVersion(v, "minor") = <<v[1], v[2] + 1, 0>>
    BY DEF Releases!BumpVersion
  <2>4. ~Releases!Older(w, <<v[1] + 1, 0, 0>>) \/ ~Releases!Older(w, <<v[1], v[2] + 1, 0>>)
    BY <2>2, <2>3
  <2>5. ~(w[1] < v[1] + 1) \/ ~(w[1] < v[1] \/ (w[1] = v[1] /\ w[2] < v[2] + 1))
    BY <2>4 DEF Releases!Older
  <2> QED BY <1>0, <2>5
<1> QED BY <1>1, <1>2

\* A section differs from the one below where its fragments ask for it.
Raised(sections, k) ==
  LET v == sections[k].version
      u == sections[k + 1].version IN
  /\ (\E f \in Range(sections[k].body) : f.type \in {"removed"}) => v[1] # u[1]
  /\ (\E f \in Range(sections[k].body) : f.type \in {"added", "changed", "deprecated"})
       => v[1] # u[1] \/ v[2] # u[2]

\* The notes of a section, when there are any, tell users of its fragments.
Noted(t, k) ==
  LET s == t.log.sections[k] IN
  s.version \in DOMAIN t.notes => Range(t.notes[s.version]) = {f \in Range(s.body) : f.user}

\* What every run leaves, complete or cut off: `F' are the fragments of the series, `B' those of
\* the first section, `A' the ones added so far.
SoundTree(t, F, B, A) ==
  LET sections == t.log.sections IN
  /\ DOMAIN t = {"version", "log", "notes", "pending"}
  /\ DOMAIN t.log = {"sections", "unreleased", "compared", "links"}
  /\ t.version \in Releases!Versions /\ t.pending \subseteq F
  /\ sections \in Seq([version: Releases!Versions, body: Seq(F \union B)]) /\ Len(sections) >= 1
  /\ \A f \in A : f \in t.pending \/ \E k \in 1 .. Len(sections) : f \in Range(sections[k].body)
  /\ \A j, k \in 1 .. Len(sections) :
       j < k => Releases!Older(sections[k].version, sections[j].version)
  /\ sections[1].version = t.version \/ Releases!Older(sections[1].version, t.version)
  /\ \A k \in 1 .. Len(sections) - 1 : Raised(sections, k) /\ Noted(t, k)

\* The sections that tell of a fragment.
Telling(t, f) == {k \in 1 .. Len(t.log.sections) : f \in Range(t.log.sections[k].body)}

\* What complete runs leave besides: `P' are the fragments there were at first.
WholeTree(t, P, A) ==
  LET sections == t.log.sections IN
  /\ t.version = sections[1].version
  /\ t.log.compared \in {Releases!NoVersion, t.version}
  /\ t.pending \subseteq A \union P
  /\ \A k \in 1 .. Len(sections) : Range(sections[k].body) \subseteq A \union P
  /\ \A f \in A : IF f \in t.pending THEN Telling(t, f) = {} ELSE \E k : Telling(t, f) = {k}
  /\ \A k \in 1 .. Len(sections) - 1 :
       /\ sections[k].version \in DOMAIN t.notes
       /\ t.log.compared # Releases!NoVersion =>
            <<sections[k + 1].version, sections[k].version>> \in t.log.links

\* A section put on top.
LEMMA SectionOnTop ==
  ASSUME NEW S, NEW sections \in Seq(S), NEW new \in S, NEW after, after = <<new>> \o sections
  PROVE  /\ after \in Seq(S) /\ Len(after) = Len(sections) + 1 /\ Len(sections) \in Nat
         /\ after[1] = new
         /\ \A k \in 1 .. Len(sections) : after[k + 1] = sections[k]
OBVIOUS

\* What the writes of a run leave: the version, the section on top of the others, the notes.
LEMMA WrittenParts ==
  ASSUME NEW t, DOMAIN t.log = {"sections", "unreleased", "compared", "links"},
         NEW v, NEW n \in Nat, NEW r, r = Releases!Written(t, v, n),
         NEW new, new = [version |-> v, body |-> Releases!RenderBody(t.pending)]
  PROVE  /\ DOMAIN r = {"version", "log", "notes", "pending"}
         /\ DOMAIN r.log = {"sections", "unreleased", "compared", "links"}
         /\ r.version = IF n > 0 THEN v ELSE t.version
         /\ r.log.sections = IF n > 1 THEN <<new>> \o t.log.sections ELSE t.log.sections
         /\ n > 2 => /\ DOMAIN r.notes = DOMAIN t.notes \union {v}
                     /\ r.notes[v] = Releases!RenderUserNotes(t.pending)
                     /\ \A u \in DOMAIN t.notes : u # v => r.notes[u] = t.notes[u]
         /\ n <= 2 => r.notes = t.notes
         /\ r.pending \subseteq t.pending
         /\ n <= 3 => r.pending = t.pending
<1> DEFINE log == Releases!InsertRelease(t.log, v, Releases!RenderBody(t.pending))
           linked == Releases!UpdateLinks(log, t.version, v)
           names == Releases!ByName(t.pending)
<1>1. /\ DOMAIN log = DOMAIN t.log /\ log.sections = <<new>> \o t.log.sections
  BY DEF Releases!InsertRelease
<1>2. DOMAIN linked = DOMAIN t.log /\ linked.sections = log.sections
  <2> HIDE DEF log
  <2> QED BY <1>1 DEF Releases!UpdateLinks
<1>3. r = [version |-> IF n > 0 THEN v ELSE t.version,
           log     |-> IF n > 1 THEN linked ELSE t.log,
           notes   |-> IF n > 2
                       THEN [u \in DOMAIN t.notes \union {v} |->
                               IF u = v THEN Releases!RenderUserNotes(t.pending) ELSE t.notes[u]]
                       ELSE t.notes,
           pending |-> t.pending \ {names[i] : i \in 1 .. n - 3}]
  BY Zenon DEF Releases!Written
<1> HIDE DEF log, linked, names
<1>4. n <= 3 => {names[i] : i \in 1 .. n - 3} = {}
  OBVIOUS
<1>5. /\ DOMAIN r = {"version", "log", "notes", "pending"}
      /\ r.version = IF n > 0 THEN v ELSE t.version
      /\ r.log = IF n > 1 THEN linked ELSE t.log
      /\ r.pending = t.pending \ {names[i] : i \in 1 .. n - 3}
  BY ONLY <1>3
<1>6. r.notes = IF n > 2
                THEN [u \in DOMAIN t.notes \union {v} |->
                        IF u = v THEN Releases!RenderUserNotes(t.pending) ELSE t.notes[u]]
                ELSE t.notes
  BY ONLY <1>3
<1>7. n > 2 => /\ DOMAIN r.notes = DOMAIN t.notes \union {v}
               /\ r.notes[v] = Releases!RenderUserNotes(t.pending)
               /\ \A u \in DOMAIN t.notes : u # v => r.notes[u] = t.notes[u]
  BY <1>6
<1>8. n <= 2 => r.notes = t.notes
  BY <1>6
<1>9. r.pending \subseteq t.pending /\ (n <= 3 => r.pending = t.pending)
  BY <1>4, <1>5
<1>10. /\ DOMAIN r.log = {"sections", "unreleased", "compared", "links"}
       /\ r.log.sections = IF n > 1 THEN <<new>> \o t.log.sections ELSE t.log.sections
  BY <1>1, <1>2, <1>5
<1> QED BY <1>5, <1>7, <1>8, <1>9, <1>10

\* Wherever a run is cut off, what it has written is as sound as what was there.
LEMMA SoundWritten ==
  ASSUME NEW F, NEW B, NEW A, NEW t, SoundTree(t, F, B, A),
         Releases!IsFragments(t.pending), \A f \in t.pending : Releases!WellFormed(f),
         NEW v \in Releases!Versions, Releases!Older(t.version, v), v \notin DOMAIN t.notes,
         ~Releases!Older(v, Releases!BumpVersion(t.version, Releases!RequiredBump(t.pending))),
         NEW n \in Nat
  PROVE  SoundTree(Releases!Written(t, v, n), F, B, A)
<1> DEFINE S == [version: Releases!Versions, body: Seq(F \union B)]
<1>1. PICK sections \in Seq(S) : sections = t.log.sections /\ Len(sections) >= 1
  BY DEF SoundTree
<1>2. PICK body : /\ body = Releases!RenderBody(t.pending) /\ Range(body) = t.pending
                  /\ body \in Seq(t.pending)
  BY Rendered
<1>3. PICK notes : notes = Releases!RenderUserNotes(t.pending) /\ Range(notes) = {f \in t.pending : f.user}
  BY Rendered
<1>4. PICK new : new = [version |-> v, body |-> body]
  OBVIOUS
<1>5. new \in S
  <2>1. body \in Seq(F \union B)
    BY <1>2 DEF SoundTree
  <2> QED BY <1>4, <2>1
<1>6. PICK after : after = <<new>> \o sections
  OBVIOUS
<1> HIDE DEF S
<1>7. /\ after \in Seq(S) /\ Len(after) = Len(sections) + 1 /\ Len(sections) \in Nat
      /\ after[1] = new
      /\ \A k \in 1 .. Len(sections) : after[k + 1] = sections[k]
  BY <1>1, <1>5, <1>6, SectionOnTop
<1>8. PICK r : r = Releases!Written(t, v, n)
  OBVIOUS
<1>9. /\ DOMAIN r = {"version", "log", "notes", "pending"}
      /\ DOMAIN r.log = {"sections", "unreleased", "compared", "links"}
      /\ r.version = IF n > 0 THEN v ELSE t.version
      /\ r.log.sections = IF n > 1 THEN after ELSE sections
      /\ n > 2 => /\ DOMAIN r.notes = DOMAIN t.notes \union {v}
                  /\ r.notes[v] = notes
                  /\ \A u \in DOMAIN t.notes : u # v => r.notes[u] = t.notes[u]
      /\ n <= 2 => r.notes = t.notes
      /\ r.pending \subseteq t.pending
      /\ n <= 3 => r.pending = t.pending
  <2>1. DOMAIN t.log = {"sections", "unreleased", "compared", "links"}
    BY DEF SoundTree
  <2>2. new = [version |-> v, body |-> Releases!RenderBody(t.pending)]
    BY <1>2, <1>4
  <2> HIDE DEF SoundTree
  <2>3. PICK m \in Nat : m = n
    OBVIOUS
  <2> QED BY ONLY <1>1, <1>3, <1>6, <1>8, <2>1, <2>2, <2>3, WrittenParts
<1>10. /\ t.version \in Releases!Versions /\ t.pending \subseteq F
       /\ \A f \in A : f \in t.pending \/ \E k \in 1 .. Len(sections) : f \in Range(sections[k].body)
       /\ \A j, k \in 1 .. Len(sections) :
            j < k => Releases!Older(sections[k].version, sections[j].version)
       /\ sections[1].version = t.version \/ Releases!Older(sections[1].version, t.version)
       /\ \A k \in 1 .. Len(sections) - 1 : Raised(sections, k) /\ Noted(t, k)
  BY <1>1 DEF SoundTree
<1>11. \A k \in 1 .. Len(sections) : sections[k].version \in Releases!Versions
  <2>1. \A s \in S : s.version \in Releases!Versions
    BY DEF S
  <2>2. \A k \in 1 .. Len(sections) : sections[k] \in S
    BY <1>1
  <2> QED BY <2>1, <2>2
<1>12. sections[1].version \in Releases!Versions /\ Releases!Older(sections[1].version, v)
  BY <1>1, <1>10, <1>11, OlderOrders
<1>13. \A k \in 1 .. Len(sections) : Releases!Older(sections[k].version, v) /\ sections[k].version # v
  <2> SUFFICES ASSUME NEW k \in 1 .. Len(sections)
               PROVE  Releases!Older(sections[k].version, v) /\ sections[k].version # v
    OBVIOUS
  <2>1. k = 1 \/ Releases!Older(sections[k].version, sections[1].version)
    <3>1. 1 \in 1 .. Len(sections) /\ (k = 1 \/ 1 < k)
      BY <1>1, <1>7
    <3>2. \A j, i \in 1 .. Len(sections) : j < i => Releases!Older(sections[i].version, sections[j].version)
      BY <1>10
    <3> QED BY <3>1, <3>2
  <2>2. Releases!Older(sections[k].version, v)
    BY <1>11, <1>12, <2>1, OlderOrders
  <2> QED BY <1>11, <2>2, OlderOrders
<1>14. CASE n <= 1
  <2>1. r.log.sections = sections /\ r.notes = t.notes /\ r.pending = t.pending
    BY <1>9, <1>14
  <2>2. sections[1].version = r.version \/ Releases!Older(sections[1].version, r.version)
    BY <1>9, <1>10, <1>12
  <2>3. r.version \in Releases!Versions
    BY <1>9, <1>10
  <2>4. \A k \in 1 .. Len(sections) - 1 : Noted(r, k)
    BY <1>1, <1>10, <2>1, Zenon DEF Noted
  <2> QED BY <1>1, <1>8, <1>9, <1>10, <2>1, <2>2, <2>3, <2>4 DEF SoundTree, S
<1>15. CASE n > 1
  <2>1. r.log.sections = after /\ r.version = v
    BY <1>9, <1>15
  <2>2. \A f \in A : f \in r.pending \/ \E k \in 1 .. Len(after) : f \in Range(after[k].body)
    <3> SUFFICES ASSUME NEW f \in A, f \notin r.pending
                 PROVE  \E k \in 1 .. Len(after) : f \in Range(after[k].body)
      OBVIOUS
    <3>1. CASE f \in t.pending
      <4>1. f \in Range(after[1].body) /\ 1 \in 1 .. Len(after)
        BY <1>2, <1>4, <1>7, <3>1
      <4> QED BY <4>1
    <3>2. CASE f \notin t.pending
      <4>1. PICK k \in 1 .. Len(sections) : f \in Range(sections[k].body)
        BY <1>10, <3>2
      <4>2. k + 1 \in 1 .. Len(after) /\ f \in Range(after[k + 1].body)
        BY <1>7, <4>1
      <4> QED BY <4>2
    <3> QED BY <3>1, <3>2
  <2>3. ASSUME NEW j \in 1 .. Len(after), NEW k \in 1 .. Len(after), j < k
        PROVE  Releases!Older(after[k].version, after[j].version)
    <3>1. k - 1 \in 1 .. Len(sections) /\ after[k] = sections[k - 1]
      BY <1>7, <2>3
    <3>2. CASE j = 1
      BY <1>4, <1>7, <1>13, <3>1, <3>2
    <3>3. CASE j # 1
      <4>1. j - 1 \in 1 .. Len(sections) /\ after[j] = sections[j - 1] /\ j - 1 < k - 1
        BY <1>7, <2>3, <3>3
      <4> QED BY <1>10, <3>1, <4>1
    <3> QED BY <3>2, <3>3
  <2>4. Raised(after, 1)
    <3>1. after[1].version = v /\ Range(after[1].body) = t.pending /\ after[2] = sections[1]
      BY <1>1, <1>2, <1>4, <1>7
    <3>2. sections[1].version = t.version \/ Releases!Older(sections[1].version, t.version)
      BY <1>10
    <3>3. /\ (\E f \in t.pending : f.type \in {"removed"}) => v[1] # sections[1].version[1]
          /\ (\E f \in t.pending : f.type \in {"added", "changed", "deprecated"})
               => v[1] # sections[1].version[1] \/ v[2] # sections[1].version[2]
      BY <1>10, <1>12, <3>2, RaisedByBump
    <3> QED BY <3>1, <3>3 DEF Raised
  <2>5. Noted(r, 1)
    <3>1. after[1].version = v /\ Range(after[1].body) = t.pending
      BY <1>2, <1>4, <1>7
    <3>2. n > 2 => Range(r.notes[v]) = {f \in t.pending : f.user}
      BY <1>3, <1>9
    <3>3. n <= 2 => v \notin DOMAIN r.notes
      BY <1>9
    <3> QED BY <2>1, <3>1, <3>2, <3>3 DEF Noted
  <2>6. ASSUME NEW k \in 1 .. Len(after) - 1, k # 1 PROVE Raised(after, k) /\ Noted(r, k)
    <3>1. k - 1 \in 1 .. Len(sections) - 1 /\ k - 1 \in 1 .. Len(sections) /\ k - 1 + 1 = k
      BY <1>7, <2>6
    <3>2. after[k] = sections[k - 1] /\ after[k + 1] = sections[k]
      BY <1>7, <2>6, <3>1
    <3>3. Raised(after, k)
      BY <1>10, <3>1, <3>2 DEF Raised
    <3>4. PICK u : u = sections[k - 1].version /\ u # v /\ after[k].version = u
      BY <1>13, <3>1, <3>2
    <3>5. u \in DOMAIN r.notes => u \in DOMAIN t.notes /\ r.notes[u] = t.notes[u]
      BY <1>9, <3>4
    <3>6. u \in DOMAIN t.notes => Range(t.notes[u]) = {f \in Range(sections[k - 1].body) : f.user}
      BY <1>1, <1>10, <3>1, <3>4 DEF Noted
    <3>7. Noted(r, k)
      BY <2>1, <3>2, <3>4, <3>5, <3>6 DEF Noted
    <3> QED BY <3>3, <3>7
  <2>7. \A k \in 1 .. Len(after) - 1 : Raised(after, k) /\ Noted(r, k)
    BY <2>4, <2>5, <2>6
  <2>8. after \in Seq(S) /\ Len(after) >= 1 /\ after[1].version = v /\ r.pending \subseteq F
    BY <1>4, <1>7, <1>9, <1>10
  <2> QED BY <1>8, <1>9, <2>1, <2>2, <2>3, <2>7, <2>8 DEF SoundTree, S
<1> QED BY <1>14, <1>15

\* A run cut off somewhere leaves the tree as it was or what it has written of a newer version.
LEMMA PreparedTree ==
  ASSUME NEW t, t.version \in Releases!Versions, NEW options,
         options.version \in Releases!Versions \union {Releases!NoVersion},
         NEW cut \in Nat, Cardinality(t.pending) \in Nat,
         NEW r, r = Releases!Prepare(t, options, cut)
  PROVE  \/ r = t
         \/ \E v \in Releases!Versions, n \in Nat :
              /\ r = Releases!Written(t, v, n)
              /\ n = IF cut < 3 + Cardinality(t.pending) THEN cut ELSE 3 + Cardinality(t.pending)
              /\ Releases!Older(t.version, v) /\ v \notin DOMAIN t.notes
              /\ ~Releases!Older(v, Releases!BumpVersion(t.version, Releases!RequiredBump(t.pending)))
              /\ \A f \in t.pending : Releases!WellFormed(f)
<1> SUFFICES ASSUME r # t
             PROVE  \E v \in Releases!Versions, n \in Nat :
              /\ r = Releases!Written(t, v, n)
              /\ n = IF cut < 3 + Cardinality(t.pending) THEN cut ELSE 3 + Cardinality(t.pending)
              /\ Releases!Older(t.version, v) /\ v \notin DOMAIN t.notes
              /\ ~Releases!Older(v, Releases!BumpVersion(t.version, Releases!RequiredBump(t.pending)))
              /\ \A f \in t.pending : Releases!WellFormed(f)
  OBVIOUS
<1>1. PICK v : v = Releases!Target(t, options)
  OBVIOUS
<1>2. PICK n : n = IF cut < 3 + Cardinality(t.pending) THEN cut ELSE 3 + Cardinality(t.pending)
  OBVIOUS
<1>3. ~Releases!Refused(t, options) /\ r = Releases!Written(t, v, n)
  BY <1>1, <1>2, SameCount, Zenon DEF Releases!Prepare
<1>4. /\ Releases!Accepted(options)
      /\ \A f \in t.pending : Releases!WellFormed(f)
      /\ Releases!Older(t.version, v) /\ v \notin DOMAIN t.notes
      /\ ~Releases!Older(v, Releases!BumpVersion(t.version, Releases!RequiredBump(t.pending)))
  BY <1>1, <1>3, Zenon DEF Releases!Refused
<1>5. v \in Releases!Versions
  <2>1. CASE options.version # Releases!NoVersion
    BY <1>1, <2>1, Zenon DEF Releases!Target
  <2>2. CASE options.version = Releases!NoVersion
    <3>1. PICK bump : bump = IF options.bump # "" THEN options.bump ELSE Releases!RequiredBump(t.pending)
      OBVIOUS
    <3>2. v = Releases!BumpVersion(t.version, bump)
      BY <1>1, <2>2, <3>1, Zenon DEF Releases!Target
    <3>3. Releases!RequiredBump(t.pending) \in {"patch", "minor", "major"}
      BY DEF Releases!RequiredBump
    <3>4. bump \in {"patch", "minor", "major"}
      BY <1>4, <3>1, <3>3 DEF Releases!Accepted
    <3> QED BY <3>2, <3>4, BumpedIsVersion
  <2> QED BY <2>1, <2>2
<1> QED BY <1>2, <1>3, <1>4, <1>5

\* A run that is not cut off tells of all pending fragments, once.
LEMMA WholeWritten ==
  ASSUME NEW F, NEW B, NEW A, NEW P, NEW t, SoundTree(t, F, B, A), WholeTree(t, P, A),
         Releases!IsFragments(t.pending), \A f \in t.pending : Releases!WellFormed(f),
         NEW v \in Releases!Versions
  PROVE  WholeTree(Releases!Written(t, v, 3 + Cardinality(t.pending)), P, A)
<1>0. Cardinality(t.pending) \in Nat
  BY FragmentFacts, FS_CardinalityType
<1>8. PICK n \in Nat : n = 3 + Cardinality(t.pending) /\ n > 2
  BY <1>0
<1>1. PICK sections : sections = t.log.sections
  OBVIOUS
<1>2. Len(sections) \in Nat /\ Len(sections) >= 1
  BY <1>1 DEF SoundTree
<1>3. PICK body : body = Releases!RenderBody(t.pending) /\ Range(body) = t.pending
  BY Rendered
<1>4. PICK new : new = [version |-> v, body |-> body]
  OBVIOUS
<1>5. PICK after : after = <<new>> \o sections
  OBVIOUS
<1>6. /\ Len(after) = Len(sections) + 1 /\ after[1] = new
      /\ \A k \in 1 .. Len(sections) : after[k + 1] = sections[k]
  <2>1. PICK S : sections \in Seq(S)
    BY <1>1 DEF SoundTree
  <2>2. sections \in Seq(S \union {new}) /\ new \in S \union {new}
    BY <2>1
  <2> QED BY <1>5, <2>2, SectionOnTop
<1>7. PICK r : r = Releases!Written(t, v, n)
  OBVIOUS
<1>9. /\ r.version = v /\ r.log.sections = after /\ DOMAIN r.notes = DOMAIN t.notes \union {v}
  <2>1. DOMAIN t.log = {"sections", "unreleased", "compared", "links"}
    BY DEF SoundTree
  <2>2. new = [version |-> v, body |-> Releases!RenderBody(t.pending)]
    BY <1>3, <1>4
  <2> HIDE DEF SoundTree, WholeTree
  <2>3. /\ r.version = IF n > 0 THEN v ELSE t.version
        /\ r.log.sections = IF n > 1 THEN <<new>> \o t.log.sections ELSE t.log.sections
        /\ n > 2 => DOMAIN r.notes = DOMAIN t.notes \union {v}
    BY <1>7, <2>1, <2>2, WrittenParts
  <2>4. n > 0 /\ n > 1 /\ n > 2
    BY <1>8
  <2> QED BY <1>1, <1>5, <2>3, <2>4
<1>10. r.pending = {}
  <2>1. \A f \in t.pending : \E i \in 1 .. Cardinality(t.pending) : Releases!ByName(t.pending)[i] = f
    BY NamesListed
  <2>2. r.pending = t.pending \ {Releases!ByName(t.pending)[i] : i \in 1 .. n - 3}
    BY <1>7, Zenon DEF Releases!Written
  <2>3. n - 3 = Cardinality(t.pending)
    BY <1>0, <1>8
  <2> QED BY <2>1, <2>2, <2>3
<1>11. /\ t.log.compared = Releases!NoVersion =>
            r.log.compared = Releases!NoVersion
       /\ t.log.compared # Releases!NoVersion =>
            r.log.compared = v /\ r.log.links = t.log.links \union {<<t.version, v>>}
  <2>1. t.log.compared \in {Releases!NoVersion, t.version} /\ t.version \in Releases!Versions
        /\ DOMAIN t.log = {"sections", "unreleased", "compared", "links"}
    BY DEF WholeTree, SoundTree
  <2>2. Releases!NoVersion \notin Releases!Versions
    BY DEF Releases!NoVersion, Releases!Versions
  <2>3. PICK log : log = Releases!InsertRelease(t.log, v, body)
    OBVIOUS
  <2>4. /\ log.compared = t.log.compared /\ log.links = t.log.links
        /\ DOMAIN log = {"sections", "unreleased", "compared", "links"}
    BY <2>1, <2>3 DEF Releases!InsertRelease
  <2>5. r.log = Releases!UpdateLinks(log, t.version, v)
    <3>1. r.log = IF n > 1 THEN Releases!UpdateLinks(log, t.version, v) ELSE t.log
      BY <1>3, <1>7, <2>3, Zenon DEF Releases!Written
    <3> QED BY <1>8, <3>1
  <2>6. CASE t.log.compared = Releases!NoVersion
    BY <2>1, <2>2, <2>4, <2>5, <2>6 DEF Releases!UpdateLinks
  <2>7. CASE t.log.compared # Releases!NoVersion
    <3>1. log.compared = t.version
      BY <2>1, <2>4, <2>7
    <3>2. r.log = [log EXCEPT !.compared = v, !.links = log.links \union {<<t.version, v>>}]
      BY <2>5, <3>1 DEF Releases!UpdateLinks
    <3> QED BY <2>4, <2>7, <3>2
  <2> QED BY <2>6, <2>7
<1>12. /\ t.version = sections[1].version
       /\ t.pending \subseteq A \union P
       /\ \A k \in 1 .. Len(sections) : Range(sections[k].body) \subseteq A \union P
       /\ \A f \in A : IF f \in t.pending THEN Telling(t, f) = {} ELSE \E k : Telling(t, f) = {k}
       /\ \A k \in 1 .. Len(sections) - 1 :
            /\ sections[k].version \in DOMAIN t.notes
            /\ t.log.compared # Releases!NoVersion =>
                 <<sections[k + 1].version, sections[k].version>> \in t.log.links
  BY <1>1 DEF WholeTree
<1>13. \A k \in 1 .. Len(after) : k = 1 \/ (k - 1 \in 1 .. Len(sections) /\ after[k] = sections[k - 1])
  BY <1>2, <1>6
<1>14. after[1].version = v /\ Range(after[1].body) = t.pending
  BY <1>3, <1>4, <1>6
<1>15. \A k \in 1 .. Len(after) : Range(after[k].body) \subseteq A \union P
  BY <1>12, <1>13, <1>14
<1>16. ASSUME NEW f \in A PROVE \E k : Telling(r, f) = {k}
  <2>1. \A k \in 1 .. Len(after) : k \in Telling(r, f) <=> f \in Range(after[k].body)
    BY <1>9 DEF Telling
  <2>2. \A k \in 1 .. Len(sections) : k \in Telling(t, f) <=> f \in Range(sections[k].body)
    BY <1>1 DEF Telling
  <2>3. Telling(r, f) \subseteq 1 .. Len(after) /\ Telling(t, f) \subseteq 1 .. Len(sections)
    BY <1>1, <1>9 DEF Telling
  <2>4. CASE f \in t.pending
    <3>1. Telling(t, f) = {}
      BY <1>12, <2>4
    <3>2. 1 \in Telling(r, f)
      BY <1>2, <1>6, <1>14, <2>1, <2>4
    <3>3. \A k \in Telling(r, f) : k = 1
      BY <1>13, <2>1, <2>2, <2>3, <3>1
    <3> QED BY <3>2, <3>3
  <2>5. CASE f \notin t.pending
    <3>1. PICK j : Telling(t, f) = {j}
      BY <1>12, <2>5
    <3>2. j \in 1 .. Len(sections) /\ f \in Range(sections[j].body)
      BY <2>2, <2>3, <3>1
    <3>3. j + 1 \in Telling(r, f)
      <4>1. j + 1 \in 1 .. Len(after) /\ after[j + 1] = sections[j]
        BY <1>2, <1>6, <3>2
      <4> QED BY <2>1, <3>2, <4>1
    <3>4. ASSUME NEW k \in Telling(r, f) PROVE k = j + 1
      <4>1. k \in 1 .. Len(after) /\ f \in Range(after[k].body)
        BY <2>1, <2>3
      <4>2. k # 1
        BY <1>14, <2>5, <4>1
      <4>3. k - 1 \in 1 .. Len(sections) /\ f \in Range(sections[k - 1].body)
        BY <1>13, <4>1, <4>2
      <4>4. k - 1 = j
        BY <2>2, <3>1, <4>3
      <4> QED BY <1>2, <1>6, <4>1, <4>4
    <3> QED BY <3>3, <3>4
  <2> QED BY <2>4, <2>5
<1>17. ASSUME NEW k \in 1 .. Len(after) - 1
       PROVE  /\ after[k].version \in DOMAIN r.notes
              /\ r.log.compared # Releases!NoVersion =>
                   <<after[k + 1].version, after[k].version>> \in r.log.links
  <2>1. after[k + 1] = sections[k] /\ k \in 1 .. Len(sections)
    BY <1>2, <1>6
  <2>2. CASE k = 1
    <3>1. after[k].version = v /\ after[k + 1].version = t.version
      BY <1>12, <1>14, <2>1, <2>2
    <3> QED BY <1>9, <1>11, <3>1
  <2>3. CASE k # 1
    <3>1. k - 1 \in 1 .. Len(sections) - 1 /\ after[k] = sections[k - 1] /\ k - 1 + 1 = k
      BY <1>2, <1>6, <1>13, <2>3
    <3>2. sections[k - 1].version \in DOMAIN t.notes
          /\ (t.log.compared # Releases!NoVersion =>
                <<sections[k].version, sections[k - 1].version>> \in t.log.links)
      BY <1>12, <3>1
    <3> QED BY <1>9, <1>11, <2>1, <3>1, <3>2
  <2> QED BY <2>2, <2>3
<1>18. r.version = after[1].version /\ r.log.compared \in {Releases!NoVersion, r.version}
  BY <1>9, <1>11, <1>14
<1>19. \A f \in A : IF f \in r.pending THEN Telling(r, f) = {} ELSE \E k : Telling(r, f) = {k}
  BY <1>10, <1>16
<1>20. WholeTree(r, P, A)
  BY <1>9, <1>10, <1>15, <1>17, <1>18, <1>19 DEF WholeTree
<1> QED BY <1>7, <1>8, <1>20

\* New fragments wait.
LEMMA FragmentsAdded ==
  ASSUME NEW F, NEW B, NEW A, NEW P, NEW t, SoundTree(t, F, B, A), NEW added \in SUBSET F,
         NEW s, s = [t EXCEPT !.pending = @ \union added]
  PROVE  /\ SoundTree(s, F, B, A \union added)
         /\ WholeTree(t, P, A) /\ added \intersect (A \union P) = {} => WholeTree(s, P, A \union added)
<1>1. /\ DOMAIN s = DOMAIN t /\ s.pending = t.pending \union added /\ s.version = t.version
      /\ s.log = t.log /\ s.notes = t.notes
  BY DEF SoundTree
<1>2. SoundTree(s, F, B, A \union added)
  <2>1. \A f \in A \union added :
          f \in s.pending \/ \E k \in 1 .. Len(s.log.sections) : f \in Range(s.log.sections[k].body)
    BY <1>1 DEF SoundTree
  <2>2. \A k \in 1 .. Len(s.log.sections) - 1 : Raised(s.log.sections, k) /\ Noted(s, k)
    BY <1>1 DEF SoundTree, Noted
  <2>3. s.pending \subseteq F
    BY <1>1 DEF SoundTree
  <2> QED BY <1>1, <2>1, <2>2, <2>3 DEF SoundTree
<1>3. ASSUME WholeTree(t, P, A), added \intersect (A \union P) = {} PROVE WholeTree(s, P, A \union added)
  <2>1. \A f : Telling(s, f) = Telling(t, f)
    BY <1>1 DEF Telling
  <2>2. ASSUME NEW f \in added PROVE f \in s.pending /\ Telling(t, f) = {}
    <3>1. \A k \in 1 .. Len(t.log.sections) : f \notin Range(t.log.sections[k].body)
      BY <1>3 DEF WholeTree
    <3> QED BY <1>1, <3>1 DEF Telling
  <2>3. ASSUME NEW f \in A
        PROVE  IF f \in s.pending THEN Telling(t, f) = {} ELSE \E k : Telling(t, f) = {k}
    <3>1. f \in s.pending <=> f \in t.pending
      BY <1>1, <1>3
    <3> QED BY <1>3, <3>1 DEF WholeTree
  <2>4. \A f \in A \union added : IF f \in s.pending THEN Telling(s, f) = {} ELSE \E k : Telling(s, f) = {k}
    BY <2>1, <2>2, <2>3
  <2>5. s.pending \subseteq (A \union added) \union P
        /\ \A k \in 1 .. Len(s.log.sections) : Range(s.log.sections[k].body) \subseteq (A \union added) \union P
    BY <1>1, <1>3 DEF WholeTree
  <2>6. /\ s.version = s.log.sections[1].version
        /\ s.log.compared \in {Releases!NoVersion, s.version}
        /\ \A k \in 1 .. Len(s.log.sections) - 1 :
             /\ s.log.sections[k].version \in DOMAIN s.notes
             /\ s.log.compared # Releases!NoVersion =>
                  <<s.log.sections[k + 1].version, s.log.sections[k].version>> \in s.log.links
    BY <1>1, <1>3 DEF WholeTree
  <2> QED BY <2>4, <2>5, <2>6 DEF WholeTree
<1> QED BY <1>2, <1>3

\* What is printed differs where the parts of the versions do.
LEMMA PartsDiffer ==
  ASSUME NEW v \in Releases!Versions, NEW u \in Releases!Versions
  PROVE  /\ v[1] # u[1] => SubSeq(v, 1, 1) # SubSeq(u, 1, 1)
         /\ v[1] # u[1] \/ v[2] # u[2] => SubSeq(v, 1, 2) # SubSeq(u, 1, 2)
<1>1. v \in Seq(Nat) /\ Len(v) = 3 /\ u \in Seq(Nat) /\ Len(u) = 3
  <2>1. ASSUME NEW w \in Nat \X Nat \X Nat PROVE w \in Seq(Nat) /\ Len(w) = 3
    <3>1. PICK a \in Nat, b \in Nat, c \in Nat : w = <<a, b, c>>
      OBVIOUS
    <3> QED BY <3>1
  <2> QED BY <2>1, Zenon DEF Releases!Versions
<1>2. SubSeq(v, 1, 1)[1] = v[1] /\ SubSeq(u, 1, 1)[1] = u[1]
  BY <1>1
<1>3. /\ SubSeq(v, 1, 2)[1] = v[1] /\ SubSeq(u, 1, 2)[1] = u[1]
      /\ SubSeq(v, 1, 2)[2] = v[2] /\ SubSeq(u, 1, 2)[2] = u[2]
  BY <1>1
<1> QED BY <1>2, <1>3

\* The notes printed of a version are those of its section.
LEMMA NotesOfSection ==
  ASSUME NEW F, NEW B, NEW A, NEW t, SoundTree(t, F, B, A),
         NEW k \in 1 .. Len(t.log.sections)
  PROVE  Releases!ExtractNotes(t.log, t.log.sections[k].version) = t.log.sections[k].body
<1>1. PICK sections : sections = t.log.sections
  OBVIOUS
<1>2. PICK v : v = sections[k].version
  OBVIOUS
<1>3. /\ Len(sections) \in Nat
      /\ \A i \in 1 .. Len(sections) : sections[i].version \in Releases!Versions
      /\ \A j, i \in 1 .. Len(sections) :
           j < i => Releases!Older(sections[i].version, sections[j].version)
  <2>1. sections \in Seq([version: Releases!Versions, body: Seq(F \union B)])
    BY <1>1 DEF SoundTree
  <2>2. PICK S : S = [version: Releases!Versions, body: Seq(F \union B)]
    OBVIOUS
  <2>3. \A i \in 1 .. Len(sections) : sections[i] \in S
    <3>1. sections \in Seq(S)
      BY <2>1, <2>2
    <3> QED BY ONLY <3>1
  <2>4. \A s \in S : s.version \in Releases!Versions
    BY <2>2
  <2> QED BY <1>1, <2>1, <2>3, <2>4 DEF SoundTree
<1>4. ASSUME NEW i \in 1 .. Len(sections), sections[i].version = v PROVE i = k
  <2>1. i < k \/ k < i \/ i = k
    BY <1>1, <1>3
  <2> QED BY <1>1, <1>2, <1>3, <1>4, <2>1, OlderOrders
<1>5. {i \in 1 .. Len(sections) : sections[i].version = v} = {k}
  BY <1>1, <1>2, <1>4
<1>6. Releases!Min({k}) = k
  BY <1>3 DEF Releases!Min
<1>7. Releases!SelectInSeq(sections, LAMBDA s : s.version = v) = k
  BY <1>5, <1>6 DEF Releases!SelectInSeq
<1>8. Releases!ExtractNotes(t.log, v) = t.log.sections[k].body
  BY <1>1, <1>7, Zenon DEF Releases!ExtractNotes
<1> QED BY <1>1, <1>2, <1>8

\* The trees after each of n runs.
TreesAfter(g, tree, runs, n) ==
  g = [i \in 0 .. n |->
         IF i = 0 THEN tree
         ELSE Releases!Prepare([g[i - 1] EXCEPT !.pending = @ \union runs[i].added],
                               runs[i].options, runs[i].cut)]

\* The trees a series of runs leaves, built one by one,
LEMMA TreesExist ==
  ASSUME NEW tree, NEW runs, NEW n \in Nat
  PROVE  \E g : TreesAfter(g, tree, runs, n)
<1> DEFINE next(t, i) == Releases!Prepare([t EXCEPT !.pending = @ \union runs[i].added],
                                          runs[i].options, runs[i].cut)
           S == {k \in Nat : \E g : g = [i \in 0 .. k |-> IF i = 0 THEN tree ELSE next(g[i - 1], i)]}
<1> HIDE DEF next
<1>1. 0 \in S
  <2> DEFINE g == [i \in 0 .. 0 |-> tree]
  <2>1. g = [i \in 0 .. 0 |-> IF i = 0 THEN tree ELSE next(g[i - 1], i)]
    OBVIOUS
  <2> QED BY <2>1
<1>2. ASSUME NEW k \in S PROVE k + 1 \in S
  <2>1. PICK g : g = [i \in 0 .. k |-> IF i = 0 THEN tree ELSE next(g[i - 1], i)]
    BY <1>2
  <2> DEFINE h == [i \in 0 .. k + 1 |-> IF i = k + 1 THEN next(g[k], k + 1) ELSE g[i]]
  <2>2. \A i \in 0 .. k + 1 : h[i] = IF i = 0 THEN tree ELSE next(h[i - 1], i)
    BY <2>1
  <2>3. h = [i \in 0 .. k + 1 |-> IF i = 0 THEN tree ELSE next(h[i - 1], i)]
    BY <2>2
  <2>4. k + 1 \in Nat
    BY <1>2
  <2> HIDE DEF h
  <2> QED BY <2>3, <2>4
<1> HIDE DEF S
<1>3. n \in S
  BY <1>1, <1>2, SetInduction
<1> QED BY <1>3, Zenon DEF S, next, TreesAfter

\* are those of the model.
LEMMA TreesStep ==
  ASSUME NEW tree, NEW runs, Len(runs) \in Nat
  PROVE  \E after : /\ after[0] = tree
                    /\ \A i \in 1 .. Len(runs) :
                         /\ after[i] = Releases!Prepare([after[i - 1] EXCEPT !.pending = @ \union runs[i].added],
                                                        runs[i].options, runs[i].cut)
                         /\ Releases!Trees(tree, runs)[i] = after[i]
                    /\ DOMAIN Releases!Trees(tree, runs) = 1 .. Len(runs)
<1> DEFINE g == CHOOSE a : TreesAfter(a, tree, runs, Len(runs))
<1>1. TreesAfter(g, tree, runs, Len(runs))
  BY TreesExist
<1>2. Releases!Trees(tree, runs) = [i \in 1 .. Len(runs) |-> g[i]]
  BY DEF Releases!Trees, TreesAfter
<1> HIDE DEF g
<1>3. g[0] = tree
  BY <1>1 DEF TreesAfter
<1>4. ASSUME NEW i \in 1 .. Len(runs)
      PROVE  g[i] = Releases!Prepare([g[i - 1] EXCEPT !.pending = @ \union runs[i].added],
                                     runs[i].options, runs[i].cut)
  <2>1. i \in 0 .. Len(runs) /\ i # 0
    OBVIOUS
  <2> QED BY <1>1, <2>1, Zenon DEF TreesAfter
<1> QED BY <1>2, <1>3, <1>4

\* A run after which everything there was is sound, and whole when it was not cut off.
LEMMA RunKeeps ==
  ASSUME NEW F, NEW B, NEW A, NEW P, NEW t, SoundTree(t, F, B, A), Releases!IsFragments(F),
         NEW added \in SUBSET F, NEW options,
         options.version \in Releases!Versions \union {Releases!NoVersion},
         NEW cut \in Nat, NEW s, s = [t EXCEPT !.pending = @ \union added],
         NEW r, r = Releases!Prepare(s, options, cut)
  PROVE  /\ SoundTree(r, F, B, A \union added)
         /\ /\ WholeTree(t, P, A) /\ added \intersect (A \union P) = {}
            /\ cut >= 3 + Cardinality(F)
            => WholeTree(r, P, A \union added)
<1>1. /\ SoundTree(s, F, B, A \union added)
      /\ WholeTree(t, P, A) /\ added \intersect (A \union P) = {} => WholeTree(s, P, A \union added)
  BY FragmentsAdded
<1>2. Releases!IsFragments(s.pending) /\ Cardinality(s.pending) <= Cardinality(F)
  BY <1>1, FewerFragments DEF SoundTree
<1>3. Cardinality(s.pending) \in Nat /\ Cardinality(F) \in Nat
  BY <1>2, FragmentFacts, FS_CardinalityType
<1>4. /\ r = Releases!Prepare(s, options, cut) /\ cut \in Nat
      /\ options.version \in Releases!Versions \union {Releases!NoVersion}
  OBVIOUS
<1>5. s.version \in Releases!Versions
  BY <1>1 DEF SoundTree
<1>6. CASE r = s
  BY <1>1, <1>6
<1>7. CASE r # s
  <2>1. \E v \in Releases!Versions, n \in Nat :
          /\ r = Releases!Written(s, v, n)
          /\ n = IF cut < 3 + Cardinality(s.pending) THEN cut ELSE 3 + Cardinality(s.pending)
          /\ Releases!Older(s.version, v) /\ v \notin DOMAIN s.notes
          /\ ~Releases!Older(v, Releases!BumpVersion(s.version, Releases!RequiredBump(s.pending)))
          /\ \A f \in s.pending : Releases!WellFormed(f)
    <3> DEFINE size == Cardinality(s.pending)
               Out(v, n) == /\ r = Releases!Written(s, v, n)
                            /\ n = IF cut < 3 + size THEN cut ELSE 3 + size
                            /\ Releases!Older(s.version, v) /\ v \notin DOMAIN s.notes
                            /\ ~Releases!Older(v, Releases!BumpVersion(s.version, Releases!RequiredBump(s.pending)))
                            /\ \A f \in s.pending : Releases!WellFormed(f)
    <3>1. r = s \/ \E v \in Releases!Versions, n \in Nat : Out(v, n)
      BY ONLY <1>3, <1>4, <1>5, PreparedTree
    <3> HIDE DEF Out
    <3>2. \E v \in Releases!Versions, n \in Nat : Out(v, n)
      BY ONLY <1>7, <3>1
    <3> QED BY ONLY <3>2 DEF Out
  <2>2. PICK v \in Releases!Versions, n \in Nat :
          /\ r = Releases!Written(s, v, n)
          /\ n = IF cut < 3 + Cardinality(s.pending) THEN cut ELSE 3 + Cardinality(s.pending)
          /\ Releases!Older(s.version, v) /\ v \notin DOMAIN s.notes
          /\ ~Releases!Older(v, Releases!BumpVersion(s.version, Releases!RequiredBump(s.pending)))
          /\ \A f \in s.pending : Releases!WellFormed(f)
    BY ONLY <2>1
  <2>3. SoundTree(r, F, B, A \union added)
    <3>1. SoundTree(Releases!Written(s, v, n), F, B, A \union added)
      BY ONLY <1>1, <1>2, <2>2, SoundWritten, Zenon
    <3> QED BY ONLY <2>2, <3>1
  <2>4. ASSUME WholeTree(s, P, A \union added), cut >= 3 + Cardinality(F)
        PROVE  WholeTree(r, P, A \union added)
    <3>1. n = 3 + Cardinality(s.pending)
      BY ONLY <1>2, <1>3, <1>4, <2>2, <2>4
    <3>2. WholeTree(Releases!Written(s, v, 3 + Cardinality(s.pending)), P, A \union added)
      BY ONLY <1>1, <1>2, <2>2, <2>4, WholeWritten, Zenon
    <3> QED BY ONLY <2>2, <3>1, <3>2
  <2> QED BY <1>1, <2>3, <2>4
<1> QED BY <1>6, <1>7

\* The fragments added by the first runs.
AddedBy(runs, i) == UNION {runs[j].added : j \in 1 .. i}

LEMMA AddedByNext ==
  ASSUME NEW runs, NEW i \in Nat
  PROVE  AddedBy(runs, i + 1) = AddedBy(runs, i) \union runs[i + 1].added
<1>1. 1 .. i + 1 = (1 .. i) \union {i + 1}
  OBVIOUS
<1> QED BY <1>1 DEF AddedBy

\* What every run of a series leaves.
LEMMA SeriesKeeps ==
  ASSUME NEW tree, NEW runs, Releases!IsSeries(tree, runs)
  PROVE  LET F == Releases!FragmentsOf(tree, runs)
             B == Range(tree.log.sections[1].body)
             after == Releases!Trees(tree, runs)
         IN  /\ Len(runs) \in Nat /\ DOMAIN runs = 1 .. Len(runs) /\ DOMAIN after = 1 .. Len(runs)
             /\ \A i \in 1 .. Len(runs) :
                  /\ SoundTree(after[i], F, B, AddedBy(runs, i))
                  /\ (\A j \in 1 .. i : runs[j].cut >= 3 + Cardinality(F)) =>
                       WholeTree(after[i], B \union tree.pending, AddedBy(runs, i))
<1> DEFINE F == Releases!FragmentsOf(tree, runs)
           B == Range(tree.log.sections[1].body)
           P == B \union tree.pending
           A(i) == AddedBy(runs, i)
<1>1. /\ Releases!IsProject(tree) /\ Releases!IsFragments(F) /\ runs \in Seq(Range(runs))
      /\ \A i \in DOMAIN runs :
           /\ runs[i].added \intersect (P \union A(i - 1)) = {}
           /\ runs[i].options.version \in Releases!Versions \union {Releases!NoVersion}
           /\ runs[i].cut \in Nat
  BY SameRange DEF Releases!IsSeries, AddedBy
<1>2. Len(runs) \in Nat /\ DOMAIN runs = 1 .. Len(runs)
  BY <1>1
<1>3. tree.pending \subseteq F /\ \A i \in 1 .. Len(runs) : runs[i].added \subseteq F
  BY <1>2 DEF Releases!FragmentsOf
<1>4. PICK after : /\ after[0] = tree
                   /\ \A i \in 1 .. Len(runs) :
                        /\ after[i] = Releases!Prepare([after[i - 1] EXCEPT !.pending = @ \union runs[i].added],
                                                       runs[i].options, runs[i].cut)
                        /\ Releases!Trees(tree, runs)[i] = after[i]
                   /\ DOMAIN Releases!Trees(tree, runs) = 1 .. Len(runs)
  BY <1>2, TreesStep
<1> HIDE DEF F
<1> DEFINE Good(i) == /\ SoundTree(after[i], F, B, A(i))
                      /\ (\A j \in 1 .. i : runs[j].cut >= 3 + Cardinality(F)) =>
                           WholeTree(after[i], P, A(i))
           S == {n \in Nat : n <= Len(runs) => Good(n)}
<1>5. Good(0)
  <2>1. A(0) = {}
    BY DEF AddedBy
  <2>2. PICK body : body = tree.log.sections[1].body
    OBVIOUS
  <2>3. /\ DOMAIN tree = {"version", "log", "notes", "pending"} /\ tree.version \in Releases!Versions
        /\ DOMAIN tree.log = {"sections", "unreleased", "compared", "links"}
        /\ tree.log.sections = <<[version |-> tree.version, body |-> body]>>
        /\ body \in Seq(Range(body))
        /\ tree.log.compared \in {Releases!NoVersion, tree.version}
    BY <1>1, <2>2, SameRange DEF Releases!IsProject
  <2>4. B = Range(body)
    BY <2>2
  <2>5. body \in Seq(F \union B)
    BY <2>3, <2>4
  <2>6. /\ tree.log.sections \in Seq([version: Releases!Versions, body: Seq(F \union B)])
        /\ Len(tree.log.sections) = 1
        /\ tree.log.sections[1] = [version |-> tree.version, body |-> body]
    BY <2>3, <2>5
  <2> HIDE DEF B
  <2>7. SoundTree(tree, F, B, {})
    BY <1>3, <2>3, <2>6 DEF SoundTree
  <2>8. WholeTree(tree, P, {})
    BY <2>3, <2>4, <2>6 DEF WholeTree
  <2> QED BY <1>4, <2>1, <2>7, <2>8
<1> HIDE DEF B, P
<1>6. ASSUME NEW n \in S PROVE n + 1 \in S
  <2>1. CASE n + 1 > Len(runs)
    BY <1>2, <2>1
  <2>2. CASE n + 1 <= Len(runs)
    <3>1. n \in Nat /\ Good(n) /\ n + 1 \in 1 .. Len(runs) /\ n + 1 - 1 = n
      BY <1>2, <2>2
    <3>2. PICK run : run = runs[n + 1]
      OBVIOUS
    <3>3. /\ run.added \in SUBSET F /\ run.options.version \in Releases!Versions \union {Releases!NoVersion}
          /\ run.cut \in Nat /\ run.added \intersect (A(n) \union P) = {}
      BY <1>1, <1>2, <1>3, <3>1, <3>2
    <3>4. PICK t : t = after[n]
      OBVIOUS
    <3>5. PICK s : s = [t EXCEPT !.pending = @ \union run.added]
      OBVIOUS
    <3>6. PICK r : r = after[n + 1]
      OBVIOUS
    <3>7. r = Releases!Prepare(s, run.options, run.cut)
      BY <1>4, <3>1, <3>2, <3>4, <3>5, <3>6
    <3>8. A(n + 1) = A(n) \union run.added
      BY <3>1, <3>2, AddedByNext
    <3> HIDE DEF A
    <3>9. SoundTree(t, F, B, A(n)) /\ Releases!IsFragments(F)
      BY <1>1, <3>1, <3>4
    <3>10. /\ SoundTree(r, F, B, A(n) \union run.added)
           /\ WholeTree(t, P, A(n)) /\ run.cut >= 3 + Cardinality(F) =>
                WholeTree(r, P, A(n) \union run.added)
      BY <3>3, <3>5, <3>7, <3>9, RunKeeps
    <3>11. ASSUME \A j \in 1 .. n + 1 : runs[j].cut >= 3 + Cardinality(F)
           PROVE  WholeTree(r, P, A(n + 1))
      <4>1. \A j \in 1 .. n : j \in 1 .. n + 1
        BY <3>1
      <4>2. WholeTree(t, P, A(n))
        BY <3>1, <3>4, <3>11, <4>1
      <4>3. run.cut >= 3 + Cardinality(F)
        BY <3>1, <3>2, <3>11
      <4> QED BY <3>8, <3>10, <4>2, <4>3
    <3>12. Good(n + 1)
      BY <3>6, <3>8, <3>10, <3>11
    <3> HIDE DEF Good
    <3> QED BY <3>1, <3>12
  <2> QED BY <1>2, <2>1, <2>2
<1>7. 0 \in S
  BY <1>5
<1> HIDE DEF S, Good
<1>8. Nat \subseteq S
  BY <1>6, <1>7, SetInduction, Zenon
<1>9. \A i \in 1 .. Len(runs) : Good(i)
  BY <1>2, <1>8 DEF S
<1> QED BY <1>2, <1>4, <1>9 DEF Good, F, B, P

\* What FragmentsToldOnce says of the tree that some runs leave, `complete' when none was cut off.
TreeTellsOnce(tree, added, complete) ==
  LET sections == tree.log.sections
      body(k) == Range(sections[k].body)
      told(f) == {k \in DOMAIN sections : f \in body(k)}
      raises(k, n, types) ==
        (\E f \in body(k) : f.type \in types) =>
           SubSeq(sections[k].version, 1, n) # SubSeq(sections[k + 1].version, 1, n)
  IN /\ \A f \in added : f \in tree.pending \/ told(f) # {}
     /\ \A k \in 1 .. Len(sections) - 1 :
          /\ Releases!Older(sections[k + 1].version, sections[k].version)
          /\ raises(k, 1, {"removed"})
          /\ raises(k, 2, {"added", "changed", "deprecated"})
          /\ LET notes == Releases!ComposedNotes(tree, sections[k].version) IN
             /\ notes.technical = sections[k].body
             /\ \A lines \in notes.user : Range(lines) = {f \in body(k) : f.user}
     /\ complete =>
          /\ tree.version = sections[1].version
          /\ \A f \in added : (f \in tree.pending) # (Cardinality(told(f)) = 1)
          /\ \A k \in 1 .. Len(sections) - 1 :
               /\ sections[k].version \in DOMAIN tree.notes
               /\ tree.log.compared # Releases!NoVersion =>
                    <<sections[k + 1].version, sections[k].version>> \in tree.log.links

\* The sound and the whole trees of a series tell its fragments once.
LEMMA SeriesTold ==
  ASSUME NEW tree, NEW runs, Releases!IsSeries(tree, runs),
         NEW i \in DOMAIN Releases!Trees(tree, runs),
         NEW t, t = Releases!Trees(tree, runs)[i]
  PROVE  TreeTellsOnce(t, AddedBy(runs, i),
                  \A j \in 1 .. i : runs[j].cut >= 3 + Cardinality(Releases!FragmentsOf(tree, runs)))
<1>0. PICK added : added = AddedBy(runs, i)
  OBVIOUS
<1> DEFINE sections == t.log.sections
<1>1. PICK F : F = Releases!FragmentsOf(tree, runs)
  OBVIOUS
<1>2. PICK B : B = Range(tree.log.sections[1].body)
  OBVIOUS
<1>3. PICK P : P = B \union tree.pending
  OBVIOUS
<1>4. /\ SoundTree(t, F, B, added)
      /\ (\A j \in 1 .. i : runs[j].cut >= 3 + Cardinality(F)) => WholeTree(t, P, added)
  BY <1>0, <1>1, <1>2, <1>3, SeriesKeeps
<1>5. PICK S : S = [version: Releases!Versions, body: Seq(F \union B)]
  OBVIOUS
<1>6. sections \in Seq(S)
  BY <1>4, <1>5 DEF SoundTree
<1>7. Len(sections) \in Nat /\ DOMAIN sections = 1 .. Len(sections)
      /\ \A k \in 1 .. Len(sections) : sections[k] \in S
  BY ONLY <1>6
<1>8. \A k \in 1 .. Len(sections) : sections[k].version \in Releases!Versions
  BY ONLY <1>5, <1>7
<1>9. \A f \in added : f \in t.pending \/ Telling(t, f) # {}
  BY <1>4 DEF SoundTree, Telling
<1>10. ASSUME NEW k \in 1 .. Len(sections) - 1
       PROVE  /\ Releases!Older(sections[k + 1].version, sections[k].version)
              /\ (\E f \in Range(sections[k].body) : f.type \in {"removed"}) =>
                   SubSeq(sections[k].version, 1, 1) # SubSeq(sections[k + 1].version, 1, 1)
              /\ (\E f \in Range(sections[k].body) : f.type \in {"added", "changed", "deprecated"}) =>
                   SubSeq(sections[k].version, 1, 2) # SubSeq(sections[k + 1].version, 1, 2)
              /\ Releases!ComposedNotes(t, sections[k].version).technical = sections[k].body
              /\ \A lines \in Releases!ComposedNotes(t, sections[k].version).user :
                   Range(lines) = {f \in Range(sections[k].body) : f.user}
  <2>1. k \in 1 .. Len(sections) /\ k + 1 \in 1 .. Len(sections) /\ k < k + 1
    BY <1>7
  <2>2. PICK v \in Releases!Versions, u \in Releases!Versions :
          v = sections[k].version /\ u = sections[k + 1].version
    BY <1>8, <2>1
  <2>3. Releases!Older(u, v) /\ Raised(sections, k) /\ Noted(t, k)
    BY <1>4, <2>1, <2>2 DEF SoundTree
  <2>4. /\ v[1] # u[1] => SubSeq(v, 1, 1) # SubSeq(u, 1, 1)
        /\ v[1] # u[1] \/ v[2] # u[2] => SubSeq(v, 1, 2) # SubSeq(u, 1, 2)
    BY ONLY <2>2, PartsDiffer
  <2>5. /\ (\E f \in Range(sections[k].body) : f.type \in {"removed"}) => v[1] # u[1]
        /\ (\E f \in Range(sections[k].body) : f.type \in {"added", "changed", "deprecated"})
             => v[1] # u[1] \/ v[2] # u[2]
    BY ONLY <2>2, <2>3, Zenon DEF Raised
  <2>6. Releases!ExtractNotes(t.log, v) = sections[k].body
    BY <1>4, <2>1, <2>2, NotesOfSection
  <2>7. v \in DOMAIN t.notes => Range(t.notes[v]) = {f \in Range(sections[k].body) : f.user}
    BY <2>2, <2>3 DEF Noted
  <2>8. Releases!ComposedNotes(t, v) =
          [user |-> IF v \in DOMAIN t.notes THEN {t.notes[v]} ELSE {}, technical |-> sections[k].body]
    BY ONLY <2>6, Zenon DEF Releases!ComposedNotes
  <2>9. PICK notes : notes = Releases!ComposedNotes(t, v)
    OBVIOUS
  <2>10. notes.technical = sections[k].body /\ notes.user = IF v \in DOMAIN t.notes THEN {t.notes[v]} ELSE {}
    BY ONLY <2>8, <2>9
  <2>11. \A lines \in notes.user : Range(lines) = {f \in Range(sections[k].body) : f.user}
    BY ONLY <2>7, <2>10
  <2> QED BY ONLY <2>2, <2>3, <2>4, <2>5, <2>9, <2>10, <2>11
<1>11. ASSUME WholeTree(t, P, added)
       PROVE  /\ t.version = sections[1].version
              /\ \A f \in added : (f \in t.pending) # (Cardinality(Telling(t, f)) = 1)
              /\ \A k \in 1 .. Len(sections) - 1 :
                   /\ sections[k].version \in DOMAIN t.notes
                   /\ t.log.compared # Releases!NoVersion =>
                        <<sections[k + 1].version, sections[k].version>> \in t.log.links
  <2>1. ASSUME NEW f \in added PROVE (f \in t.pending) # (Cardinality(Telling(t, f)) = 1)
    <3>1. CASE f \in t.pending
      <4>1. Telling(t, f) = {}
        BY <1>11, <3>1 DEF WholeTree
      <4> QED BY <3>1, <4>1, FS_EmptySet
    <3>2. CASE f \notin t.pending
      <4>1. PICK k : Telling(t, f) = {k}
        BY <1>11, <3>2 DEF WholeTree
      <4> QED BY <3>2, <4>1, FS_Singleton
    <3> QED BY <3>1, <3>2
  <2> QED BY <1>11, <2>1, Zenon DEF WholeTree
<1>12. \A f : {k \in DOMAIN sections : f \in Range(sections[k].body)} = Telling(t, f)
  BY <1>7, Zenon DEF Telling
<1>13. \A f \in added : f \in t.pending \/ {k \in DOMAIN sections : f \in Range(sections[k].body)} # {}
  BY ONLY <1>9, <1>12, Zenon
<1>14. ASSUME \A j \in 1 .. i : runs[j].cut >= 3 + Cardinality(Releases!FragmentsOf(tree, runs))
       PROVE  /\ t.version = sections[1].version
              /\ \A f \in added :
                   (f \in t.pending)
                   # (Cardinality({k \in DOMAIN sections : f \in Range(sections[k].body)}) = 1)
              /\ \A k \in 1 .. Len(sections) - 1 :
                   /\ sections[k].version \in DOMAIN t.notes
                   /\ t.log.compared # Releases!NoVersion =>
                        <<sections[k + 1].version, sections[k].version>> \in t.log.links
  <2>1. WholeTree(t, P, added)
    BY ONLY <1>1, <1>4, <1>14
  <2> QED BY ONLY <1>11, <1>12, <2>1, Zenon
<1> QED BY ONLY <1>0, <1>10, <1>13, <1>14, Zenon DEF TreeTellsOnce

-----------------------------------------------------------------------------
(* The sums of a budget.                                                   *)

\* The sums of a budget, one lemma each: the cents of movements,
LEMMA CentsAdd ==
  ASSUME NEW b, NEW I, NEW f, \A i \in I : f[i] = b.movements[i].cents
  PROVE  CentsOf(b, I) = SumOf(f, I)
<1> DEFINE Own(g) == g = [s \in SUBSET I |-> IF s = {} THEN 0
                            ELSE b.movements[Pick(s)].cents + g[s \ {Pick(s)}]]
<1>1. \A g : Adding(g, f, I) <=> Own(g)
  <2>1. \A s \in SUBSET I : s # {} => f[Pick(s)] = b.movements[Pick(s)].cents
    BY PickedElement
  <2> QED BY <2>1, Zenon DEF Adding, Added
<1>2. CentsOf(b, I) = (CHOOSE g : Own(g))[I]
  BY DEF CentsOf, Sum, MapThenSumSet, MapThenFoldSet, Pick
<1> HIDE DEF Own
<1>3. (CHOOSE g : Adding(g, f, I)) = (CHOOSE g : Own(g))
  BY <1>1, Zenon
<1> QED BY <1>2, <1>3, SumChoice

\* what plans cover of linked payments,
LEMMA CoveredAdd ==
  ASSUME NEW b, NEW I, NEW f, \A i \in I : f[i] = (-Signed(b.movements[i].kind, Covered(b, i)))
  PROVE  CoveredBy(b, I) = SumOf(f, I)
<1> DEFINE Own(g) == g = [s \in SUBSET I |-> IF s = {} THEN 0
                            ELSE (-Signed(b.movements[Pick(s)].kind, Covered(b, Pick(s)))) + g[s \ {Pick(s)}]]
<1>1. \A g : Adding(g, f, I) <=> Own(g)
  <2>1. \A s \in SUBSET I : s # {} => f[Pick(s)] = (-Signed(b.movements[Pick(s)].kind, Covered(b, Pick(s))))
    BY PickedElement
  <2> QED BY <2>1, Zenon DEF Adding, Added
<1>2. CoveredBy(b, I) = (CHOOSE g : Own(g))[I]
  BY DEF CoveredBy, Sum, MapThenSumSet, MapThenFoldSet, Pick
<1> HIDE DEF Own
<1>3. (CHOOSE g : Adding(g, f, I)) = (CHOOSE g : Own(g))
  BY <1>1, Zenon
<1> QED BY <1>2, <1>3, SumChoice

Unused(b, o) == -Signed(b.plans[o].kind, AtLeast(b.plans[o].planned - CentsOf(b, PaymentsOf(b, o)), 0))

\* what plans have unused,
LEMMA UnusedAdd ==
  ASSUME NEW b, NEW f, \A i \in ReconciledPlans(b) : f[i] = Unused(b, i)
  PROVE  UnusedPlans(b) = SumOf(f, ReconciledPlans(b))
<1>0. PICK R : R = ReconciledPlans(b)
  OBVIOUS
<1> DEFINE Own(g) == g = [s \in SUBSET R |-> IF s = {} THEN 0
                            ELSE Unused(b, Pick(s)) + g[s \ {Pick(s)}]]
<1>1. \A g : Adding(g, f, R) <=> Own(g)
  <2>1. \A s \in SUBSET R : s # {} => f[Pick(s)] = Unused(b, Pick(s))
    BY <1>0, PickedElement
  <2> QED BY <2>1, Zenon DEF Adding, Added
<1>2. UnusedPlans(b) = (CHOOSE g : Own(g))[R]
  BY <1>0 DEF UnusedPlans, Unused, Sum, MapThenSumSet, MapThenFoldSet, Pick
<1> HIDE DEF Own
<1>3. (CHOOSE g : Adding(g, f, R)) = (CHOOSE g : Own(g))
  BY <1>1, Zenon
<1> QED BY <1>0, <1>2, <1>3, SumChoice

Excesses(b, days, final) ==
  LET excess(o) == Excess(b, o, days, final) IN Sum(excess, ReconciledPlans(b))

\* what occurrences add to the base,
LEMMA ExcessAdd ==
  ASSUME NEW b, NEW days, NEW final, NEW f, \A i \in ReconciledPlans(b) : f[i] = Excess(b, i, days, final)
  PROVE  Excesses(b, days, final) = SumOf(f, ReconciledPlans(b))
<1>0. PICK R : R = ReconciledPlans(b)
  OBVIOUS
<1> DEFINE Own(g) == g = [s \in SUBSET R |-> IF s = {} THEN 0
                            ELSE Excess(b, Pick(s), days, final) + g[s \ {Pick(s)}]]
<1>1. \A g : Adding(g, f, R) <=> Own(g)
  <2>1. \A s \in SUBSET R : s # {} => f[Pick(s)] = Excess(b, Pick(s), days, final)
    BY <1>0, PickedElement
  <2> QED BY <2>1, Zenon DEF Adding, Added
<1>2. Excesses(b, days, final) = (CHOOSE g : Own(g))[R]
  BY <1>0 DEF Excesses, Sum, MapThenSumSet, MapThenFoldSet, Pick
<1> HIDE DEF Own
<1>3. (CHOOSE g : Adding(g, f, R)) = (CHOOSE g : Own(g))
  BY <1>1, Zenon
<1> QED BY <1>0, <1>2, <1>3, SumChoice

\* what tracked plans promise,
LEMMA TrackedAdd ==
  ASSUME NEW b, NEW kind, NEW f, \A i \in Tracked(b, kind) : f[i] = b.plans[i].planned
  PROVE  TrackedPlanned(b, kind) = SumOf(f, Tracked(b, kind))
<1>0. PICK R : R = Tracked(b, kind)
  OBVIOUS
<1> DEFINE Own(g) == g = [s \in SUBSET R |-> IF s = {} THEN 0
                            ELSE b.plans[Pick(s)].planned + g[s \ {Pick(s)}]]
<1>1. \A g : Adding(g, f, R) <=> Own(g)
  <2>1. \A s \in SUBSET R : s # {} => f[Pick(s)] = b.plans[Pick(s)].planned
    BY <1>0, PickedElement
  <2> QED BY <2>1, Zenon DEF Adding, Added
<1>2. TrackedPlanned(b, kind) = (CHOOSE g : Own(g))[R]
  BY <1>0 DEF TrackedPlanned, Sum, MapThenSumSet, MapThenFoldSet, Pick
<1> HIDE DEF Own
<1>3. (CHOOSE g : Adding(g, f, R)) = (CHOOSE g : Own(g))
  BY <1>1, Zenon
<1> QED BY <1>0, <1>2, <1>3, SumChoice

Larger(b, o) == AtLeast(b.plans[o].planned, CentsOf(b, PaymentsOf(b, o)))

\* the larger of plan and payments,
LEMMA ProjectedAdd ==
  ASSUME NEW b, NEW kind, NEW f, \A i \in Tracked(b, kind) : f[i] = Larger(b, i)
  PROVE  Projected(b, kind) = CentsOf(b, PaymentsOf(b, Unlinked) \intersect OfKind(b, kind)) + SumOf(f, Tracked(b, kind))
<1>0. PICK R : R = Tracked(b, kind)
  OBVIOUS
<1> DEFINE Own(g) == g = [s \in SUBSET R |-> IF s = {} THEN 0
                            ELSE Larger(b, Pick(s)) + g[s \ {Pick(s)}]]
<1>1. \A g : Adding(g, f, R) <=> Own(g)
  <2>1. \A s \in SUBSET R : s # {} => f[Pick(s)] = Larger(b, Pick(s))
    BY <1>0, PickedElement
  <2> QED BY <2>1, Zenon DEF Adding, Added
<1>2. Projected(b, kind) = CentsOf(b, PaymentsOf(b, Unlinked) \intersect OfKind(b, kind)) + (CHOOSE g : Own(g))[R]
  BY <1>0 DEF Projected, Larger, Sum, MapThenSumSet, MapThenFoldSet, Pick
<1> HIDE DEF Own
<1>3. (CHOOSE g : Adding(g, f, R)) = (CHOOSE g : Own(g))
  BY <1>1, Zenon
<1> QED BY <1>0, <1>2, <1>3, SumChoice

PlannedIn(p, kind, days) == {i \in DOMAIN p : p[i].kind = kind /\ p[i].day \in days}

\* and what is planned on some days.
LEMMA PlannedAdd ==
  ASSUME NEW p, NEW kind, NEW days, NEW f, \A i \in PlannedIn(p, kind, days) : f[i] = p[i].cents
  PROVE  PlannedOn(p, kind, days) = SumOf(f, PlannedIn(p, kind, days))
<1>0. PICK R : R = PlannedIn(p, kind, days)
  OBVIOUS
<1> DEFINE Own(g) == g = [s \in SUBSET R |-> IF s = {} THEN 0
                            ELSE p[Pick(s)].cents + g[s \ {Pick(s)}]]
<1>1. \A g : Adding(g, f, R) <=> Own(g)
  <2>1. \A s \in SUBSET R : s # {} => f[Pick(s)] = p[Pick(s)].cents
    BY <1>0, PickedElement
  <2> QED BY <2>1, Zenon DEF Adding, Added
<1>2. PlannedOn(p, kind, days) = (CHOOSE g : Own(g))[R]
  BY <1>0 DEF PlannedOn, PlannedIn, Sum, MapThenSumSet, MapThenFoldSet, Pick
<1> HIDE DEF Own
<1>3. (CHOOSE g : Adding(g, f, R)) = (CHOOSE g : Own(g))
  BY <1>1, Zenon
<1> QED BY <1>0, <1>2, <1>3, SumChoice

\* A budget in numbers.
LEMMA BudgetFacts ==
  ASSUME NEW b, IsBudget(b)
  PROVE  /\ IsFiniteSet(DOMAIN b.movements) /\ DOMAIN b.movements \subseteq Nat
         /\ \A i \in DOMAIN b.movements :
              /\ b.movements[i].day \in Int /\ b.movements[i].day \in 1 .. DaysIn(b.month)
              /\ b.movements[i].cents \in Int /\ b.movements[i].kind \in {"DEPENSE", "ENTREE"}
         /\ IsFiniteSet(ReconciledPlans(b)) /\ ReconciledPlans(b) \subseteq DOMAIN b.plans
<1>1. IsFiniteSet(DOMAIN b.movements) /\ DOMAIN b.movements \subseteq Nat
  BY DEF IsBudget
<1>2. PICK D \in Nat : D = DaysIn(b.month)
  <2>1. b.month \in Int
    BY DEF IsBudget
  <2>2. DaysIn(b.month) \in 28 .. 31
    BY <2>1, MonthParts
  <2> QED BY <2>2
<1>3. \A i \in DOMAIN b.movements :
        /\ b.movements[i].day \in Int /\ b.movements[i].day \in 1 .. D
        /\ b.movements[i].cents \in Int /\ b.movements[i].kind \in {"DEPENSE", "ENTREE"}
  BY <1>2 DEF IsBudget
<1>4. ReconciledPlans(b) \subseteq DOMAIN b.plans
  BY DEF IsBudget, ReconciledPlans
<1>5. IsFiniteSet(ReconciledPlans(b))
  BY <1>4, FS_Subset DEF IsBudget
<1> QED BY <1>1, <1>2, <1>3, <1>4, <1>5

\* The cents of some movements.
LEMMA CentsAreIntegers ==
  ASSUME NEW b, IsBudget(b), NEW I, I \subseteq DOMAIN b.movements
  PROVE  CentsOf(b, I) \in Int /\ IsFiniteSet(I)
<1> DEFINE f == [i \in I |-> b.movements[i].cents]
<1>1. IsFiniteSet(I) /\ \A i \in I : f[i] \in Int /\ f[i] = b.movements[i].cents
  BY BudgetFacts, FS_Subset
<1> HIDE DEF f
<1>2. CentsOf(b, I) = SumOf(f, I)
  BY <1>1, CentsAdd
<1>3. SumOf(f, I) \in Int
  BY <1>1, SumIsInteger
<1> QED BY <1>1, <1>2, <1>3

\* The order in which payments are covered.
Earlier(b, j, i) == \/ b.movements[j].day < b.movements[i].day
                    \/ b.movements[j].day = b.movements[i].day /\ j < i

\* Of some payments one is the latest.
LEMMA LatestPayment ==
  ASSUME NEW b, IsBudget(b), NEW I, I \subseteq DOMAIN b.movements, I # {}
  PROVE  \E e \in I : \A j \in I : j = e \/ Earlier(b, j, e)
<1> DEFINE W == {S \in SUBSET I : S = {} \/ \E e \in S : \A j \in S : j = e \/ Earlier(b, j, e)}
<1>1. ASSUME NEW S \in SUBSET I, \A i \in S : S \ {i} \in W PROVE S \in W
  <2>1. CASE S = {}
    BY <2>1
  <2>2. CASE S # {}
    <3>1. PICK i \in S : S \ {i} \in W
      BY <1>1, <2>2
    <3>2. CASE S \ {i} = {}
      BY <3>1, <3>2
    <3>3. CASE S \ {i} # {}
      <4>1. PICK e \in S \ {i} : \A j \in S \ {i} : j = e \/ Earlier(b, j, e)
        BY <3>1, <3>3
      <4>2. \A j \in S : j \in Nat /\ b.movements[j].day \in Int
        BY BudgetFacts
      <4>3. CASE Earlier(b, i, e)
        BY <4>1, <4>3
      <4>4. CASE ~Earlier(b, i, e)
        <5>1. Earlier(b, e, i)
          BY <4>1, <4>2, <4>4 DEF Earlier
        <5>2. \A j \in S : j = i \/ Earlier(b, j, i)
          BY <4>1, <4>2, <5>1 DEF Earlier
        <5> QED BY <5>2
      <4> QED BY <4>3, <4>4
    <3> QED BY <3>2, <3>3
  <2> QED BY <2>1, <2>2
<1> HIDE DEF W
<1>2. I \in W
  <2>1. IsFiniteSet(I)
    BY BudgetFacts, FS_Subset
  <2>2. SUBSET I \subseteq W
    BY <1>1, <2>1, SubsetInduction, Zenon
  <2> QED BY <2>2
<1> QED BY <1>2 DEF W

\* Payments of a plan, the earlier ones first, cover it up to its amount.
LEMMA CoveredSum ==
  ASSUME NEW b, IsBudget(b), NEW o \in DOMAIN b.plans,
         NEW Q, Q \subseteq PaymentsOf(b, o),
         \A i \in Q, j \in PaymentsOf(b, o) : Earlier(b, j, i) => j \in Q,
         NEW cov, \A i \in Q : cov[i] = Covered(b, i)
  PROVE  SumOf(cov, Q) = AtMost(CentsOf(b, Q), b.plans[o].planned)
<1> DEFINE P == PaymentsOf(b, o)
           lower(S) == \A i \in S, j \in P : Earlier(b, j, i) => j \in S
           W == {S \in SUBSET Q : lower(S) => SumOf(cov, S) = AtMost(CentsOf(b, S), b.plans[o].planned)}
<1>1. /\ b.plans[o].planned \in Nat /\ o # Unlinked /\ P \subseteq DOMAIN b.movements
      /\ \A i \in P : b.movements[i].link = o
  BY DEF IsBudget, PaymentsOf
<1>2. \A S \in SUBSET Q : IsFiniteSet(S) /\ CentsOf(b, S) \in Int
  BY <1>1, CentsAreIntegers
<1>3. ASSUME NEW S \in SUBSET Q, \A i \in S : S \ {i} \in W PROVE S \in W
  <2>1. CASE S = {}
    <3>1. CentsOf(b, S) = SumOf(cov, {})
      BY <2>1, CentsAdd
    <3> QED BY <1>1, <2>1, <3>1, SumOfNothing DEF AtMost
  <2>2. CASE S # {} /\ lower(S)
    <3>1. PICK e \in S : \A j \in S : j = e \/ Earlier(b, j, e)
      BY <1>1, <2>2, LatestPayment
    <3>2. PICK R : R = S \ {e}
      OBVIOUS
    <3>3. \A j \in P : j \in Nat /\ b.movements[j].day \in Int
      BY <1>1, BudgetFacts
    <3>4. R = {j \in P : Earlier(b, j, e)}
      BY <2>2, <3>1, <3>2, <3>3 DEF Earlier
    <3>5. lower(R)
      BY <3>3, <3>4 DEF Earlier
    <3>6. SumOf(cov, R) = AtMost(CentsOf(b, R), b.plans[o].planned)
      BY <1>3, <3>2, <3>5
    <3>7. PaidBefore(b, e) = CentsOf(b, R)
      <4>1. b.movements[e].link = o
        BY <1>1
      <4> QED BY <3>4, <4>1 DEF PaidBefore, Earlier
    <3>8. Covered(b, e) = AtMost(CentsOf(b, R) + b.movements[e].cents, b.plans[o].planned)
                          - AtMost(CentsOf(b, R), b.plans[o].planned)
      <4>1. b.movements[e].link = o
        BY <1>1
      <4> QED BY <1>1, <3>7, <4>1 DEF Covered
    <3>9. CentsOf(b, S) = CentsOf(b, R) + b.movements[e].cents
      <4> DEFINE f == [i \in S |-> b.movements[i].cents]
      <4>1. \A i \in S : f[i] \in Int /\ f[i] = b.movements[i].cents
        BY <1>1, BudgetFacts
      <4>2. \A i \in R : f[i] = b.movements[i].cents
        BY <3>2
      <4> HIDE DEF f
      <4>3. CentsOf(b, S) = SumOf(f, S) /\ CentsOf(b, R) = SumOf(f, R)
        BY <4>1, <4>2, CentsAdd
      <4>4. SumOf(f, S) = f[e] + SumOf(f, R)
        BY <1>2, <3>2, <4>1, SumElement
      <4> QED BY <1>2, <3>2, <4>1, <4>3, <4>4
    <3>10. PICK c \in Int, x \in Int, plan \in Nat :
             c = CentsOf(b, R) /\ x = b.movements[e].cents /\ plan = b.plans[o].planned
      <4>1. CentsOf(b, R) \in Int
        BY <1>2, <3>2
      <4>2. b.movements[e].cents \in Int
        BY <1>1, BudgetFacts
      <4> QED BY <1>1, <4>1, <4>2
    <3>11. \A i \in S : cov[i] \in Int
      <4> SUFFICES ASSUME NEW i \in S PROVE Covered(b, i) \in Int
        OBVIOUS
      <4>1. b.movements[i].link = o /\ b.movements[i].cents \in Int
        BY <1>1, BudgetFacts
      <4>2. PaidBefore(b, i) \in Int
        BY <1>1, <4>1, CentsAreIntegers DEF PaidBefore
      <4> QED BY <1>1, <4>1, <4>2 DEF Covered, AtMost
    <3>12. SumOf(cov, S) = cov[e] + SumOf(cov, R)
      BY <1>2, <3>2, <3>11, SumElement
    <3>13. SumOf(cov, S) = AtMost(c + x, plan)
      <4>1. cov[e] = AtMost(c + x, plan) - AtMost(c, plan)
        BY <3>8, <3>10
      <4> QED BY <3>6, <3>10, <3>12, <4>1 DEF AtMost
    <3> QED BY <3>9, <3>10, <3>13
  <2> QED BY <2>1, <2>2
<1> HIDE DEF W
<1>4. Q \in W
  <2>1. IsFiniteSet(Q)
    BY <1>2
  <2>2. SUBSET Q \subseteq W
    BY <1>3, <2>1, SubsetInduction, Zenon
  <2> QED BY <2>2
<1> QED BY <1>4 DEF W

\* what a payment adds to the balance, less what its plan already holds
Net(b, i) == Signed(b.movements[i].kind, b.movements[i].cents - Covered(b, i))

\* A payment is covered in part; without a link not at all.
LEMMA CoveredPayment ==
  ASSUME NEW b, IsBudget(b), NEW i \in DOMAIN b.movements
  PROVE  /\ Covered(b, i) \in Int /\ Net(b, i) \in Int
         /\ b.movements[i].link = Unlinked => Covered(b, i) = 0
         /\ b.movements[i].link # Unlinked => /\ b.movements[i].link \in DOMAIN b.plans
                                              /\ b.plans[b.movements[i].link].kind = b.movements[i].kind
<1>1. b.movements[i].cents \in Int /\ b.movements[i].kind \in {"DEPENSE", "ENTREE"}
  BY BudgetFacts
<1>2. b.movements[i].link # Unlinked => /\ b.movements[i].link \in DOMAIN b.plans
                                        /\ b.plans[b.movements[i].link].kind = b.movements[i].kind
                                        /\ b.plans[b.movements[i].link].planned \in Int
  BY DEF IsBudget
<1>3. PaidBefore(b, i) \in Int
  <2>1. {j \in PaymentsOf(b, b.movements[i].link) :
                \/ b.movements[j].day < b.movements[i].day
                \/ b.movements[j].day = b.movements[i].day /\ j < i} \subseteq DOMAIN b.movements
    BY DEF PaymentsOf
  <2> QED BY <2>1, CentsAreIntegers DEF PaidBefore
<1>4. Covered(b, i) \in Int /\ (b.movements[i].link = Unlinked => Covered(b, i) = 0)
  BY <1>1, <1>2, <1>3 DEF Covered, AtMost
<1>5. Net(b, i) \in Int
  BY <1>1, <1>4 DEF Net, Signed
<1> QED BY <1>2, <1>4, <1>5

\* Entries less expenses, as a sum of signed amounts.
LEMMA EntriesSum ==
  ASSUME NEW b, IsBudget(b), NEW I, I \subseteq DOMAIN b.movements,
         NEW f, \A i \in I : f[i] = Signed(b.movements[i].kind, b.movements[i].cents)
  PROVE  EntriesLessExpenses(b, I) = SumOf(f, I) /\ SumOf(f, I) \in Int
<1> DEFINE E == I \intersect OfKind(b, "ENTREE")
           D == I \intersect OfKind(b, "DEPENSE")
           c == [i \in I |-> b.movements[i].cents]
<1>1. \A i \in I : b.movements[i].cents \in Int /\ b.movements[i].kind \in {"DEPENSE", "ENTREE"}
  BY BudgetFacts
<1>2. E \subseteq I /\ D \subseteq I /\ E \cap D = {} /\ E \cup D = I
  BY <1>1 DEF OfKind
<1>3. IsFiniteSet(E) /\ IsFiniteSet(D) /\ IsFiniteSet(I)
  BY <1>2, CentsAreIntegers
<1>4. /\ \A i \in E : c[i] \in Int /\ c[i] = b.movements[i].cents /\ f[i] = c[i]
      /\ \A i \in D : c[i] \in Int /\ c[i] = b.movements[i].cents /\ f[i] = -c[i]
      /\ \A i \in I : f[i] \in Int
  BY <1>1 DEF OfKind, Signed
<1>5. EntriesLessExpenses(b, I) = CentsOf(b, E) - CentsOf(b, D)
  BY DEF EntriesLessExpenses
<1> HIDE DEF E, D, c
<1>6. CentsOf(b, E) = SumOf(c, E) /\ CentsOf(b, D) = SumOf(c, D)
  BY <1>4, CentsAdd
<1>7. SumOf(c, E) = SumOf(f, E)
  BY <1>3, <1>4, SameSum
<1>8. SumOf(f, D) = -SumOf(c, D) /\ SumOf(c, D) \in Int
  BY <1>3, <1>4, SumNegated
<1>9. SumOf(f, I) = SumOf(f, E) + SumOf(f, D)
  BY <1>2, <1>3, <1>4, SumOfParts
<1>10. SumOf(f, E) \in Int /\ SumOf(f, I) \in Int
  BY <1>2, <1>3, <1>4, SumIsInteger
<1> QED BY <1>5, <1>6, <1>7, <1>8, <1>9, <1>10

\* A set of payments: what they move, and what of it their plans cover.
LEMMA NetSum ==
  ASSUME NEW b, IsBudget(b), NEW I, I \subseteq DOMAIN b.movements,
         NEW net, \A i \in I : net[i] = Net(b, i)
  PROVE  /\ EntriesLessExpenses(b, I) + CoveredBy(b, I) = SumOf(net, I)
         /\ EntriesLessExpenses(b, I) \in Int /\ CoveredBy(b, I) \in Int /\ SumOf(net, I) \in Int
<1> DEFINE f == [i \in I |-> Signed(b.movements[i].kind, b.movements[i].cents)]
           c == [i \in I |-> -Signed(b.movements[i].kind, Covered(b, i))]
<1>1. \A i \in I : /\ b.movements[i].cents \in Int /\ b.movements[i].kind \in {"DEPENSE", "ENTREE"}
                   /\ Covered(b, i) \in Int /\ Net(b, i) \in Int
  BY BudgetFacts, CoveredPayment
<1>2. IsFiniteSet(I)
  BY CentsAreIntegers
<1>3. /\ \A i \in I : f[i] = Signed(b.movements[i].kind, b.movements[i].cents)
      /\ \A i \in I : c[i] = -Signed(b.movements[i].kind, Covered(b, i))
      /\ \A i \in I : f[i] \in Int /\ c[i] \in Int /\ net[i] = f[i] + c[i] /\ net[i] \in Int
  BY <1>1 DEF Net, Signed
<1> HIDE DEF f, c
<1>4. SumOf(net, I) = SumOf(f, I) + SumOf(c, I)
  BY <1>2, <1>3, SumsAdd
<1>5. EntriesLessExpenses(b, I) = SumOf(f, I) /\ CoveredBy(b, I) = SumOf(c, I)
  BY <1>3, EntriesSum, CoveredAdd
<1>6. SumOf(f, I) \in Int /\ SumOf(c, I) \in Int /\ SumOf(net, I) \in Int
  BY <1>2, <1>3, SumIsInteger
<1> QED BY <1>4, <1>5, <1>6

\* The payments of a plan add what exceeds it.
LEMMA NetOfPlan ==
  ASSUME NEW b, IsBudget(b), NEW o \in DOMAIN b.plans,
         NEW Q, Q \subseteq PaymentsOf(b, o),
         \A i \in Q, j \in PaymentsOf(b, o) : Earlier(b, j, i) => j \in Q,
         NEW net, \A i \in Q : net[i] = Net(b, i)
  PROVE  SumOf(net, Q) = Signed(b.plans[o].kind, AtLeast(CentsOf(b, Q) - b.plans[o].planned, 0))
<1>1. /\ b.plans[o].planned \in Nat /\ o # Unlinked /\ Q \subseteq DOMAIN b.movements
      /\ b.plans[o].kind \in {"DEPENSE", "ENTREE"}
      /\ \A i \in Q : b.movements[i].link = o
  BY DEF IsBudget, PaymentsOf
<1>2. \A i \in Q : /\ b.movements[i].cents \in Int /\ b.movements[i].kind = b.plans[o].kind
                   /\ Covered(b, i) \in Int
  BY <1>1, BudgetFacts, CoveredPayment
<1>3. IsFiniteSet(Q) /\ CentsOf(b, Q) \in Int
  BY <1>1, CentsAreIntegers
<1> DEFINE f == [i \in Q |-> b.movements[i].cents]
           c == [i \in Q |-> Covered(b, i)]
           d == [i \in Q |-> b.movements[i].cents - Covered(b, i)]
<1>4. /\ \A i \in Q : f[i] = b.movements[i].cents
      /\ \A i \in Q : c[i] = Covered(b, i)
      /\ \A i \in Q : d[i] \in Int /\ c[i] \in Int /\ f[i] = d[i] + c[i]
      /\ \A i \in Q : net[i] = Signed(b.plans[o].kind, d[i])
  BY <1>1, <1>2 DEF Net
<1> HIDE DEF f, c, d
<1>5. SumOf(f, Q) = SumOf(d, Q) + SumOf(c, Q)
  BY <1>3, <1>4, SumsAdd
<1>6. SumOf(f, Q) = CentsOf(b, Q)
  BY <1>4, CentsAdd
<1>7. SumOf(c, Q) = AtMost(CentsOf(b, Q), b.plans[o].planned)
  BY <1>4, CoveredSum
<1>8. SumOf(d, Q) \in Int
  BY <1>3, <1>4, SumIsInteger
<1>9. SumOf(d, Q) = AtLeast(CentsOf(b, Q) - b.plans[o].planned, 0)
  BY <1>1, <1>3, <1>5, <1>6, <1>7, <1>8 DEF AtMost, AtLeast
<1>10. SumOf(net, Q) = Signed(b.plans[o].kind, SumOf(d, Q))
  <2>1. CASE b.plans[o].kind = "ENTREE"
    <3>1. \A i \in Q : net[i] = d[i]
      BY <1>4, <2>1 DEF Signed
    <3> QED BY <1>3, <2>1, <3>1, SameSum DEF Signed
  <2>2. CASE b.plans[o].kind = "DEPENSE"
    <3>1. \A i \in Q : d[i] \in Int /\ net[i] = -d[i]
      BY <1>4, <2>2 DEF Signed
    <3> QED BY <1>3, <2>2, <3>1, SumNegated DEF Signed
  <2> QED BY <1>1, <2>1, <2>2
<1> QED BY <1>9, <1>10

\* Payments up to a day: those without a plan, and what exceeds each plan.
LEMMA NetByPlans ==
  ASSUME NEW b, IsBudget(b), NEW day \in Int
  PROVE  LET M == Moves(b, 1 .. day)
             own == PaymentsOf(b, Unlinked) \intersect M
         IN  /\ EntriesLessExpenses(b, M) + CoveredBy(b, M)
                  = Excesses(b, 1 .. day, FALSE) + EntriesLessExpenses(b, own)
             /\ Excesses(b, 1 .. day, FALSE) \in Int /\ EntriesLessExpenses(b, own) \in Int
             /\ EntriesLessExpenses(b, M) \in Int /\ CoveredBy(b, M) \in Int
<1> DEFINE M == Moves(b, 1 .. day)
           own == PaymentsOf(b, Unlinked) \intersect M
           linked == M \ own
           R == ReconciledPlans(b)
           net == [i \in DOMAIN b.movements |-> Net(b, i)]
           ex == [o \in R |-> SumOf(net, {i \in linked : b.movements[i].link = o})]
           link == [i \in DOMAIN b.movements |-> b.movements[i].link]
<1>1. /\ M \subseteq DOMAIN b.movements /\ own \subseteq DOMAIN b.movements
      /\ linked \subseteq DOMAIN b.movements /\ M = own \cup linked /\ own \cap linked = {}
  BY DEF Moves
<1>2. \A i \in DOMAIN b.movements : net[i] = Net(b, i) /\ net[i] \in Int
  BY CoveredPayment
<1>3. IsFiniteSet(own) /\ IsFiniteSet(linked) /\ IsFiniteSet(R) /\ R \subseteq DOMAIN b.plans
  BY <1>1, CentsAreIntegers, BudgetFacts
<1>4. ASSUME NEW o \in R
      PROVE  ex[o] = Excess(b, o, 1 .. day, FALSE)
  <2>1. PICK Q : Q = {i \in linked : b.movements[i].link = o} /\ o # Unlinked
    BY DEF ReconciledPlans
  <2>2. Q = PaymentsOf(b, o) \intersect M
    BY <2>1 DEF PaymentsOf, Moves
  <2>3. \A i \in Q, j \in PaymentsOf(b, o) : Earlier(b, j, i) => j \in Q
    <3>1. \A j \in DOMAIN b.movements : b.movements[j].day \in Int /\ b.movements[j].day >= 1
      <4>1. DaysIn(b.month) \in 28 .. 31
        BY MonthParts DEF IsBudget
      <4> QED BY <4>1, BudgetFacts
    <3> QED BY <2>2, <3>1 DEF Earlier, Moves, PaymentsOf
  <2>4. SumOf(net, Q) = Signed(b.plans[o].kind, AtLeast(CentsOf(b, Q) - b.plans[o].planned, 0))
    <3>1. Q \subseteq PaymentsOf(b, o) /\ \A i \in Q : net[i] = Net(b, i)
      BY <1>1, <1>2, <2>2
    <3> HIDE DEF net
    <3> QED BY <1>3, <2>3, <3>1, NetOfPlan
  <2>5. ex[o] = SumOf(net, Q)
    BY <2>1
  <2> HIDE DEF ex, net
  <2> QED BY <2>2, <2>4, <2>5 DEF Excess, M
<1>5. (\A i \in linked : net[i] \in Int) /\ \A i \in linked : link[i] \in R
  BY <1>1, <1>2 DEF ReconciledPlans, PaymentsOf
<1>6. \A o \in R : ex[o] = SumOf(net, Part(linked, link, o))
  <2>1. \A o : Part(linked, link, o) = {i \in linked : b.movements[i].link = o}
    BY <1>1 DEF Part
  <2> QED BY <2>1
<1> HIDE DEF net, ex, link, linked
<1>7. SumOf(net, linked) = SumOf(ex, R)
  <2> HIDE DEF R, M, own
  <2> QED BY <1>3, <1>5, <1>6, SumByNames
<1>8. SumOf(ex, R) = Excesses(b, 1 .. day, FALSE)
  BY <1>4, ExcessAdd
<1>9. EntriesLessExpenses(b, M) + CoveredBy(b, M) = SumOf(net, M) /\ EntriesLessExpenses(b, M) \in Int
      /\ CoveredBy(b, M) \in Int
  <2>1. \A i \in M : net[i] = Net(b, i)
    BY <1>1, <1>2
  <2> QED BY <1>1, <2>1, NetSum
<1>10. EntriesLessExpenses(b, own) = SumOf(net, own) /\ SumOf(net, own) \in Int
  <2>1. \A i \in own : net[i] = Signed(b.movements[i].kind, b.movements[i].cents)
    <3> SUFFICES ASSUME NEW i \in own PROVE Net(b, i) = Signed(b.movements[i].kind, b.movements[i].cents)
      BY <1>1, <1>2
    <3>1. i \in DOMAIN b.movements /\ b.movements[i].link = Unlinked
      BY DEF PaymentsOf
    <3>2. Covered(b, i) = 0 /\ b.movements[i].cents \in Int
      BY <3>1, CoveredPayment, BudgetFacts
    <3> QED BY <3>2 DEF Net
  <2> QED BY <1>1, <2>1, EntriesSum
<1>11. SumOf(net, M) = SumOf(net, own) + SumOf(net, linked)
  <2>1. \A i \in own \cup linked : net[i] \in Int
    BY <1>1, <1>2
  <2> HIDE DEF M, own
  <2> QED BY <1>1, <1>3, <2>1, SumOfParts
<1>12. SumOf(net, linked) \in Int
  BY <1>3, <1>5, SumIsInteger
<1> DEFINE total == Excesses(b, 1 .. day, FALSE)
<1> HIDE DEF total
<1>13. /\ EntriesLessExpenses(b, M) + CoveredBy(b, M)
             = total + EntriesLessExpenses(b, own)
       /\ total \in Int /\ EntriesLessExpenses(b, own) \in Int
  <2> HIDE DEF M, own
  <2>1. SumOf(ex, R) = total
    BY <1>8 DEF total
  <2> QED BY <1>7, <2>1, <1>9, <1>10, <1>11, <1>12
<1> QED BY <1>9, <1>13 DEF total

\* What is planned on some days is an integer.
LEMMA PlannedIsInteger ==
  ASSUME NEW p \in Seq([day: Int, kind: {"DEPENSE", "ENTREE"}, cents: Int]), NEW days
  PROVE  PlannedEffect(p, days) \in Int
<1>1. ASSUME NEW kind PROVE PlannedOn(p, kind, days) \in Int
  <2> DEFINE I == PlannedIn(p, kind, days)
             f == [i \in I |-> p[i].cents]
  <2>1. I \subseteq 1 .. Len(p) /\ Len(p) \in Nat
    BY DEF PlannedIn
  <2>2. IsFiniteSet(I)
    <3>1. IsFiniteSet(1 .. Len(p))
      BY <2>1, FS_Interval
    <3> QED BY <2>1, <3>1, FS_Subset
  <2>3. \A i \in I : f[i] \in Int /\ f[i] = p[i].cents
    <3>1. \A i \in 1 .. Len(p) : p[i] \in [day: Int, kind: {"DEPENSE", "ENTREE"}, cents: Int]
      <4>1. PICK X : X = [day: Int, kind: {"DEPENSE", "ENTREE"}, cents: Int] /\ p \in Seq(X)
        OBVIOUS
      <4>2. p \in Seq(X)
        BY <4>1
      <4>3. \A i \in 1 .. Len(p) : p[i] \in X
        BY ONLY <4>2
      <4> QED BY <4>1, <4>3
    <3>2. \A i \in 1 .. Len(p) : p[i].cents \in Int
      BY <3>1
    <3> QED BY <2>1, <3>2
  <2> HIDE DEF f
  <2>4. PlannedOn(p, kind, days) = SumOf(f, I)
    BY <2>3, PlannedAdd
  <2> HIDE DEF I
  <2> QED BY <2>2, <2>3, <2>4, SumIsInteger
<1> QED BY <1>1 DEF PlannedEffect

\* The reference balance, with its sums named.
LEMMA ReferenceSum ==
  ASSUME NEW b, NEW days, NEW final
  PROVE  ReferenceBalance(b, days, final)
           = Base(b) + b.carry + Excesses(b, days, final)
             + EntriesLessExpenses(b, PaymentsOf(b, Unlinked) \intersect Moves(b, days))
BY DEF ReferenceBalance, Excesses

\* The last day of a month is after every payment.
LEMMA WholeMonth ==
  ASSUME NEW b, IsBudget(b)
  PROVE  /\ DaysIn(b.month) \in Int /\ DaysIn(b.month) >= 1
         /\ Moves(b, 1 .. DaysIn(b.month)) = DOMAIN b.movements
         /\ Base(b) \in Int /\ b.carry \in Int
<1>1. DaysIn(b.month) \in 28 .. 31
  BY MonthParts DEF IsBudget
<1>2. Moves(b, 1 .. DaysIn(b.month)) = DOMAIN b.movements
  BY BudgetFacts DEF Moves
<1>3. Base(b) \in Int /\ b.carry \in Int
  <2>1. b.income \in Int /\ b.expense \in Int /\ b.carry \in Int
    BY DEF IsBudget
  <2> QED BY <2>1 DEF Base
<1> QED BY <1>1, <1>2, <1>3

\* What a plan loses when the month closes, and the payments that exceed it, are the payments less the plan.
LEMMA ClosingExcess ==
  ASSUME NEW b, IsBudget(b)
  PROVE  /\ Excesses(b, 1 .. DaysIn(b.month), TRUE)
              = Excesses(b, 1 .. DaysIn(b.month), FALSE) + UnusedPlans(b)
         /\ Excesses(b, 1 .. DaysIn(b.month), FALSE) \in Int /\ UnusedPlans(b) \in Int
<1> DEFINE days == 1 .. DaysIn(b.month)
           R == ReconciledPlans(b)
           open == [o \in R |-> Excess(b, o, days, FALSE)]
           closed == [o \in R |-> Excess(b, o, days, TRUE)]
           unused == [o \in R |-> Unused(b, o)]
<1>1. IsFiniteSet(R) /\ R \subseteq DOMAIN b.plans
  BY BudgetFacts
<1>2. ASSUME NEW o \in R
      PROVE  open[o] \in Int /\ unused[o] \in Int /\ closed[o] = open[o] + unused[o]
  <2>1. PICK plan \in Nat, kind \in {"DEPENSE", "ENTREE"} : b.plans[o].planned = plan /\ b.plans[o].kind = kind
    BY <1>1 DEF IsBudget
  <2>2. PaymentsOf(b, o) \intersect Moves(b, days) = PaymentsOf(b, o)
    BY WholeMonth DEF PaymentsOf
  <2>3. PICK paid \in Int : paid = CentsOf(b, PaymentsOf(b, o))
    BY CentsAreIntegers DEF PaymentsOf
  <2>4. open[o] = Signed(kind, AtLeast(paid - plan, 0))
    BY <2>1, <2>2, <2>3 DEF Excess
  <2>5. closed[o] = Signed(kind, paid - plan)
    BY <2>1, <2>2, <2>3 DEF Excess
  <2>6. unused[o] = -Signed(kind, AtLeast(plan - paid, 0))
    BY <2>1, <2>3 DEF Unused
  <2> HIDE DEF open, closed, unused
  <2> QED BY <2>4, <2>5, <2>6 DEF Signed, AtLeast
<1>3. Excesses(b, days, TRUE) = SumOf(closed, R)
  BY ExcessAdd
<1>4. Excesses(b, days, FALSE) = SumOf(open, R)
  BY ExcessAdd
<1>5. UnusedPlans(b) = SumOf(unused, R)
  BY UnusedAdd
<1> HIDE DEF open, closed, unused, R
<1>6. SumOf(closed, R) = SumOf(open, R) + SumOf(unused, R)
  BY <1>1, <1>2, SumsAdd
<1>7. SumOf(open, R) \in Int /\ SumOf(unused, R) \in Int
  BY <1>1, <1>2, SumIsInteger
<1> QED BY <1>3, <1>4, <1>5, <1>6, <1>7

\* What is tracked beyond the plans is what exceeds them.
LEMMA TrackedExcess ==
  ASSUME NEW b, IsBudget(b)
  PROVE  LET own == PaymentsOf(b, Unlinked)
             beyond(kind) == Projected(b, kind) - TrackedPlanned(b, kind)
         IN  /\ beyond("ENTREE") - beyond("DEPENSE")
                  = Excesses(b, 1 .. DaysIn(b.month), FALSE) + EntriesLessExpenses(b, own)
             /\ \A kind \in {"DEPENSE", "ENTREE"} : Projected(b, kind) \in Int /\ TrackedPlanned(b, kind) \in Int
<1> DEFINE own == PaymentsOf(b, Unlinked)
           days == 1 .. DaysIn(b.month)
           D == DOMAIN b.plans
           R == ReconciledPlans(b)
           larger == [o \in D |-> Larger(b, o)]
           planned == [o \in D |-> b.plans[o].planned]
           more == [o \in D |-> Larger(b, o) - b.plans[o].planned]
           ex == [o \in D |-> Signed(b.plans[o].kind, Larger(b, o) - b.plans[o].planned)]
           cents(kind) == CentsOf(b, own \intersect OfKind(b, kind))
<1>1. IsFiniteSet(D) /\ IsFiniteSet(R) /\ R \subseteq D /\ own \subseteq DOMAIN b.movements
  BY BudgetFacts DEF IsBudget, PaymentsOf
<1>2. ASSUME NEW o \in D
      PROVE  /\ larger[o] = Larger(b, o) /\ planned[o] = b.plans[o].planned
             /\ larger[o] \in Int /\ planned[o] \in Int /\ more[o] \in Int /\ ex[o] \in Int
             /\ larger[o] = more[o] + planned[o]
             /\ b.plans[o].kind \in {"DEPENSE", "ENTREE"} /\ ex[o] = Signed(b.plans[o].kind, more[o])
             /\ o \in R => ex[o] = Excess(b, o, days, FALSE)
             /\ o \notin R => ex[o] = 0
  <2>1. PICK plan \in Nat, kind \in {"DEPENSE", "ENTREE"} : b.plans[o].planned = plan /\ b.plans[o].kind = kind
    BY DEF IsBudget
  <2>2. PICK paid \in Int : paid = CentsOf(b, PaymentsOf(b, o))
    BY CentsAreIntegers DEF PaymentsOf
  <2>3. PaymentsOf(b, o) \intersect Moves(b, days) = PaymentsOf(b, o)
    BY WholeMonth DEF PaymentsOf
  <2>4. Larger(b, o) = AtLeast(plan, paid)
    BY <2>1, <2>2 DEF Larger
  <2>5. Excess(b, o, days, FALSE) = Signed(kind, AtLeast(paid - plan, 0))
    BY <2>1, <2>2, <2>3 DEF Excess
  <2>6. o \notin R => paid = 0
    <3> SUFFICES ASSUME o \notin R PROVE paid = 0
      OBVIOUS
    <3>1. o # Unlinked
      BY DEF IsBudget
    <3>2. PaymentsOf(b, o) = {}
      BY <3>1 DEF ReconciledPlans, PaymentsOf
    <3>3. CentsOf(b, {}) = SumOf([i \in {} |-> 0], {})
      BY CentsAdd
    <3> QED BY <2>2, <3>2, <3>3, SumOfNothing
  <2>7. /\ larger[o] = AtLeast(plan, paid) /\ planned[o] = plan /\ more[o] = AtLeast(plan, paid) - plan
        /\ ex[o] = Signed(kind, AtLeast(plan, paid) - plan)
    BY <2>1, <2>4
  <2> HIDE DEF larger, planned, more, ex, R
  <2>8. larger[o] = Larger(b, o) /\ planned[o] = b.plans[o].planned
    BY <2>1, <2>4, <2>7
  <2>9. /\ larger[o] \in Int /\ planned[o] \in Int /\ more[o] \in Int /\ ex[o] \in Int
        /\ larger[o] = more[o] + planned[o] /\ ex[o] = Signed(kind, more[o])
        /\ ex[o] = Signed(kind, AtLeast(paid - plan, 0))
        /\ o \notin R => ex[o] = 0
    <3>1. PICK a \in Int : a = AtLeast(plan, paid) /\ a - plan = AtLeast(paid - plan, 0)
      BY DEF AtLeast
    <3>2. /\ larger[o] = a /\ planned[o] = plan /\ more[o] = a - plan /\ ex[o] = Signed(kind, a - plan)
          /\ a = IF plan >= paid THEN plan ELSE paid
      BY <2>7, <3>1 DEF AtLeast
    <3>3. Signed(kind, a - plan) \in Int /\ (a - plan = 0 => Signed(kind, a - plan) = 0)
      BY DEF Signed
    <3>4. o \notin R => a - plan = 0
      BY <2>6, <3>2
    <3> QED BY <3>1, <3>2, <3>3, <3>4
  <2> QED BY <2>1, <2>5, <2>8, <2>9
<1> HIDE DEF larger, planned, more, ex
<1>3. ASSUME NEW kind \in {"DEPENSE", "ENTREE"}
      PROVE  /\ Projected(b, kind) - TrackedPlanned(b, kind) = cents(kind) + SumOf(more, Tracked(b, kind))
             /\ Projected(b, kind) \in Int /\ TrackedPlanned(b, kind) \in Int /\ cents(kind) \in Int
             /\ SumOf(more, Tracked(b, kind)) \in Int
  <2>1. PICK T : T = Tracked(b, kind) /\ T \subseteq D /\ IsFiniteSet(T)
    <3>1. Tracked(b, kind) \subseteq D
      BY DEF Tracked
    <3> QED BY <1>1, <3>1, FS_Subset
  <2>2. Projected(b, kind) = cents(kind) + SumOf(larger, T)
    BY <1>2, <2>1, ProjectedAdd
  <2>3. TrackedPlanned(b, kind) = SumOf(planned, T)
    BY <1>2, <2>1, TrackedAdd
  <2>4. SumOf(larger, T) = SumOf(more, T) + SumOf(planned, T)
    <3>1. \A o \in T : more[o] \in Int /\ planned[o] \in Int /\ larger[o] = more[o] + planned[o]
      BY <1>2, <2>1
    <3> QED BY <2>1, <3>1, SumsAdd
  <2>5. SumOf(more, T) \in Int /\ SumOf(planned, T) \in Int
    BY <1>2, <2>1, SumIsInteger
  <2>6. cents(kind) \in Int
    BY <1>1, CentsAreIntegers
  <2> HIDE DEF cents
  <2> QED BY <2>1, <2>2, <2>3, <2>4, <2>5, <2>6
<1>4. SumOf(ex, D) = SumOf(more, Tracked(b, "ENTREE")) - SumOf(more, Tracked(b, "DEPENSE"))
  <2>1. PICK E, F : E = Tracked(b, "ENTREE") /\ F = Tracked(b, "DEPENSE")
    OBVIOUS
  <2>2. E \cup F = D /\ E \cap F = {} /\ E \subseteq D /\ F \subseteq D
    BY <1>2, <2>1 DEF Tracked
  <2>3. IsFiniteSet(E) /\ IsFiniteSet(F)
    BY <1>1, <2>2, FS_Subset
  <2>4. (\A o \in E : ex[o] = more[o]) /\ \A o \in F : more[o] \in Int /\ ex[o] = -more[o]
    BY <1>2, <2>1 DEF Signed, Tracked
  <2>5. SumOf(ex, E) = SumOf(more, E)
    BY <2>3, <2>4, SameSum
  <2>6. SumOf(ex, F) = -SumOf(more, F) /\ SumOf(more, F) \in Int
    BY <2>3, <2>4, SumNegated
  <2>7. SumOf(ex, E \cup F) = SumOf(ex, E) + SumOf(ex, F)
    BY <1>2, <2>2, <2>3, SumOfParts
  <2>8. SumOf(more, E) \in Int
    BY <1>2, <2>2, <2>3, SumIsInteger
  <2> HIDE DEF D
  <2> QED BY <2>1, <2>2, <2>5, <2>6, <2>7, <2>8
<1>5. SumOf(ex, D) = Excesses(b, days, FALSE)
  <2>1. PICK rest : rest = D \ R
    OBVIOUS
  <2>2. D = R \cup rest /\ R \cap rest = {} /\ IsFiniteSet(rest)
    BY <1>1, <2>1, FS_Subset
  <2>3. SumOf(ex, rest) = 0
    BY <1>2, <2>1, <2>2, SumOfZeros
  <2>4. SumOf(ex, R \cup rest) = SumOf(ex, R) + SumOf(ex, rest)
    BY <1>1, <1>2, <2>2, SumOfParts
  <2>5. SumOf(ex, R) = Excesses(b, days, FALSE)
    <3>1. \A o \in R : ex[o] = Excess(b, o, days, FALSE)
      BY <1>1, <1>2
    <3> QED BY <3>1, ExcessAdd
  <2>6. SumOf(ex, R) \in Int
    BY <1>1, <1>2, SumIsInteger
  <2> DEFINE total == Excesses(b, days, FALSE)
  <2>7. SumOf(ex, R) = total
    BY <2>5
  <2>8. SumOf(ex, D) = SumOf(ex, R \cup rest)
    BY <2>2
  <2> HIDE DEF total, D, R
  <2>9. SumOf(ex, D) = total
    BY <2>3, <2>4, <2>6, <2>7, <2>8
  <2> QED BY <2>9 DEF total
<1>6. EntriesLessExpenses(b, own) = cents("ENTREE") - cents("DEPENSE")
  BY DEF EntriesLessExpenses
<1> DEFINE total == Excesses(b, days, FALSE)
<1>7. SumOf(ex, D) = total
  BY <1>5
<1> HIDE DEF total, cents, D
<1>8. (Projected(b, "ENTREE") - TrackedPlanned(b, "ENTREE")) - (Projected(b, "DEPENSE") - TrackedPlanned(b, "DEPENSE"))
        = total + EntriesLessExpenses(b, own)
  BY <1>3, <1>4, <1>6, <1>7
<1> QED BY <1>3, <1>8 DEF total

\* While a month is open it has one reference balance.
LEMMA SameReference ==
  ASSUME NEW b, NEW days, ~b.closed
  PROVE  ReferenceBalance(b, days, b.closed) = ReferenceBalance(b, days, FALSE)
<1>1. \A o : Excess(b, o, days, b.closed) = Excess(b, o, days, FALSE)
  BY DEF Excess
<1> DEFINE f == [o \in ReconciledPlans(b) |-> Excess(b, o, days, FALSE)]
<1>2. \A o \in ReconciledPlans(b) : f[o] = Excess(b, o, days, b.closed)
  BY <1>1
<1>5. \A o \in ReconciledPlans(b) : f[o] = Excess(b, o, days, FALSE)
  OBVIOUS
<1> HIDE DEF f
<1>3. Excesses(b, days, b.closed) = SumOf(f, ReconciledPlans(b))
  BY <1>2, ExcessAdd
<1>4. Excesses(b, days, FALSE) = SumOf(f, ReconciledPlans(b))
  BY <1>5, ExcessAdd
<1> QED BY <1>3, <1>4, ReferenceSum

\* The conditions of BalanceReplacesPlans, for any month.
LEMMA MonthViews ==
  ASSUME NEW b, IsBudget(b)
  PROVE  LET last == DaysIn(b.month) IN
         /\ \A d \in 1 .. last - 1 : DailyBalance(b, d) = ReferenceBalance(b, 1 .. d, FALSE)
         /\ DailyBalance(b, last) = Balance(b)
         /\ b.frozen = {} => Balance(b) = ReferenceBalance(b, 1 .. last, b.closed)
         /\ ~b.closed => (Projected(b, "ENTREE") - Projected(b, "DEPENSE"))
                         - (TrackedPlanned(b, "ENTREE") - TrackedPlanned(b, "DEPENSE"))
                         + Base(b) + b.carry = Balance(b)
         /\ Balance(b) \in Int
<1> DEFINE last == DaysIn(b.month)
           own(d) == EntriesLessExpenses(b, PaymentsOf(b, Unlinked) \intersect Moves(b, 1 .. d))
           extra(d) == Excesses(b, 1 .. d, FALSE)
           paid(d) == EntriesLessExpenses(b, Moves(b, 1 .. d))
           covered(d) == CoveredBy(b, Moves(b, 1 .. d))
           start == Base(b) + b.carry
<1>1. /\ last \in Int /\ last >= 1 /\ Moves(b, 1 .. last) = DOMAIN b.movements
      /\ Base(b) \in Int /\ b.carry \in Int
  BY WholeMonth
<1>2. \A d \in Int : /\ paid(d) + covered(d) = extra(d) + own(d)
                     /\ paid(d) \in Int /\ covered(d) \in Int /\ extra(d) \in Int /\ own(d) \in Int
  BY NetByPlans
<1>3. \A d \in Int : ReferenceBalance(b, 1 .. d, FALSE) = start + extra(d) + own(d)
  BY ReferenceSum
<1>4. /\ Excesses(b, 1 .. last, TRUE) = extra(last) + UnusedPlans(b)
      /\ UnusedPlans(b) \in Int
  BY ClosingExcess
<1>5. ReferenceBalance(b, 1 .. last, TRUE) = start + Excesses(b, 1 .. last, TRUE) + own(last)
  BY ReferenceSum
<1>6. \A d \in 1 .. last : DailyBalance(b, d) = start + paid(d) + covered(d)
                             + IF d = last THEN Adjustment(b) - covered(d) ELSE 0
  BY DEF DailyBalance
<1>7. Balance(b) = start + paid(last) + Adjustment(b)
  BY <1>1 DEF Balance
<1>8. Adjustment(b) \in Int
      /\ (b.frozen = {} => Adjustment(b) = covered(last) + (IF b.closed THEN UnusedPlans(b) ELSE 0))
  <2>1. b.frozen = {} => Adjustment(b) = covered(last) + (IF b.closed THEN UnusedPlans(b) ELSE 0)
    BY <1>1 DEF Adjustment
  <2>2. b.frozen # {} => Adjustment(b) \in Int
    <3>1. b.frozen \subseteq Int
      BY DEF IsBudget
    <3> QED BY <3>1 DEF Adjustment
  <2>3. covered(last) \in Int
    BY <1>1, <1>2
  <2> HIDE DEF covered
  <2> QED BY <1>4, <2>1, <2>2, <2>3
<1>9. /\ (Projected(b, "ENTREE") - TrackedPlanned(b, "ENTREE"))
           - (Projected(b, "DEPENSE") - TrackedPlanned(b, "DEPENSE")) = extra(last) + own(last)
      /\ Projected(b, "ENTREE") \in Int /\ TrackedPlanned(b, "ENTREE") \in Int
      /\ Projected(b, "DEPENSE") \in Int /\ TrackedPlanned(b, "DEPENSE") \in Int
  <2>1. PaymentsOf(b, Unlinked) \intersect Moves(b, 1 .. last) = PaymentsOf(b, Unlinked)
    BY <1>1 DEF PaymentsOf
  <2> QED BY <2>1, TrackedExcess
<1>10. b.frozen # {} => b.closed
  BY DEF IsBudget
<1> DEFINE closing == Excesses(b, 1 .. last, TRUE)
           reference(d) == ReferenceBalance(b, 1 .. d, FALSE)
           closedReference == ReferenceBalance(b, 1 .. last, TRUE)
<1>11. closing = extra(last) + UnusedPlans(b) /\ closedReference = start + closing + own(last)
  BY <1>4, <1>5
<1>12. \A d \in Int : reference(d) = start + extra(d) + own(d)
  BY <1>3
<1>13. start \in Int
  BY <1>1
<1> HIDE DEF own, extra, paid, covered, closing, reference, closedReference, last, start
<1>14. ASSUME NEW d \in 1 .. last - 1 PROVE DailyBalance(b, d) = reference(d)
  <2>1. d \in Int /\ d \in 1 .. last /\ d # last
    BY <1>1
  <2>2. DailyBalance(b, d) = start + paid(d) + covered(d)
    <3>1. start + paid(d) + covered(d) \in Int
      BY <1>2, <1>13, <2>1
    <3>2. DailyBalance(b, d) = start + paid(d) + covered(d) + 0
      BY <1>6, <2>1
    <3> QED BY <3>1, <3>2
  <2>3. reference(d) = start + extra(d) + own(d)
    BY <1>12, <2>1
  <2>4. PICK p \in Int, c \in Int, e \in Int, o \in Int :
          p = paid(d) /\ c = covered(d) /\ e = extra(d) /\ o = own(d) /\ p + c = e + o
    BY <1>2, <2>1
  <2>5. DailyBalance(b, d) = start + p + c /\ reference(d) = start + e + o
    BY <2>2, <2>3, <2>4
  <2> QED BY <1>13, <2>4, <2>5
<1>20. PICK p \in Int, c \in Int, e \in Int, o \in Int, a \in Int, u \in Int :
         /\ p = paid(last) /\ c = covered(last) /\ e = extra(last) /\ o = own(last) /\ p + c = e + o
         /\ a = Adjustment(b) /\ u = UnusedPlans(b)
  <2>1. /\ paid(last) \in Int /\ covered(last) \in Int /\ extra(last) \in Int /\ own(last) \in Int
        /\ paid(last) + covered(last) = extra(last) + own(last)
    BY <1>1, <1>2
  <2> QED BY <1>4, <1>8, <2>1
<1>21. Balance(b) = start + p + a
  BY <1>7, <1>20
<1>15. DailyBalance(b, last) = Balance(b) /\ Balance(b) \in Int
  <2>1. DailyBalance(b, last) = start + p + c + (a - c)
    BY <1>1, <1>6, <1>20
  <2> QED BY <1>13, <1>21, <2>1
<1>16. b.frozen = {} /\ b.closed => Balance(b) = closedReference
  <2> SUFFICES ASSUME b.frozen = {}, b.closed PROVE Balance(b) = closedReference
    OBVIOUS
  <2>1. a = c + u
    BY <1>8, <1>20
  <2>2. closedReference = start + (e + u) + o
    BY <1>11, <1>20
  <2> QED BY <1>13, <1>20, <1>21, <2>1, <2>2
<1>17. b.frozen = {} /\ ~b.closed => Balance(b) = reference(last)
  <2> SUFFICES ASSUME b.frozen = {}, ~b.closed PROVE Balance(b) = reference(last)
    OBVIOUS
  <2>1. a = c + 0
    BY <1>8, <1>20
  <2>2. reference(last) = start + e + o
    BY <1>1, <1>12, <1>20
  <2> QED BY <1>13, <1>20, <1>21, <2>1, <2>2
<1>18. b.frozen = {} => Balance(b) = ReferenceBalance(b, 1 .. last, b.closed)
  <2>1. CASE b.closed
    <3>1. ReferenceBalance(b, 1 .. last, b.closed) = closedReference
      BY <2>1 DEF closedReference
    <3> QED BY <1>16, <2>1, <3>1
  <2>2. CASE ~b.closed
    <3>1. ReferenceBalance(b, 1 .. last, b.closed) = ReferenceBalance(b, 1 .. last, FALSE)
      BY <2>2, SameReference
    <3>2. ReferenceBalance(b, 1 .. last, b.closed) = reference(last)
      BY <3>1 DEF reference
    <3> QED BY <1>17, <2>2, <3>2
  <2> QED BY <2>1, <2>2
<1>19. ~b.closed => (Projected(b, "ENTREE") - Projected(b, "DEPENSE"))
                    - (TrackedPlanned(b, "ENTREE") - TrackedPlanned(b, "DEPENSE"))
                    + Base(b) + b.carry = Balance(b)
  <2> SUFFICES ASSUME ~b.closed
               PROVE  (Projected(b, "ENTREE") - Projected(b, "DEPENSE"))
                      - (TrackedPlanned(b, "ENTREE") - TrackedPlanned(b, "DEPENSE"))
                      + Base(b) + b.carry = Balance(b)
    OBVIOUS
  <2>1. a = c
    BY <1>8, <1>10, <1>20
  <2>2. (Projected(b, "ENTREE") - Projected(b, "DEPENSE"))
          - (TrackedPlanned(b, "ENTREE") - TrackedPlanned(b, "DEPENSE")) = e + o
    BY <1>9, <1>20
  <2>3. start = Base(b) + b.carry
    BY DEF start
  <2> DEFINE t == (Projected(b, "ENTREE") - Projected(b, "DEPENSE"))
                  - (TrackedPlanned(b, "ENTREE") - TrackedPlanned(b, "DEPENSE"))
  <2>4. t = e + o
    BY <2>2
  <2> HIDE DEF t
  <2>5. t + Base(b) + b.carry = Balance(b)
    <3>1. PICK x \in Int, y \in Int : x = Base(b) /\ y = b.carry
      BY <1>1
    <3>2. Balance(b) = x + y + p + c
      BY <1>21, <2>1, <2>3, <3>1
    <3> QED BY ONLY <1>20, <2>4, <3>1, <3>2
  <2> QED BY <2>5 DEF t
<1> QED BY <1>14, <1>15, <1>18, <1>19 DEF last, reference

-----------------------------------------------------------------------------
(* Planned movements.                                                      *)

\* A set has as many elements as ones.
LEMMA CountIsSum ==
  ASSUME NEW S, IsFiniteSet(S), NEW f, \A x \in S : f[x] = 1
  PROVE  SumOf(f, S) = Cardinality(S)
<1> DEFINE W == {s \in SUBSET S : SumOf(f, s) = Cardinality(s)}
<1>1. ASSUME NEW s \in SUBSET S, \A x \in s : s \ {x} \in W PROVE s \in W
  <2>1. IsFiniteSet(s) /\ Cardinality(s) \in Nat
    BY FS_Subset, FS_CardinalityType
  <2>2. CASE s = {}
    BY <2>2, SumOfNothing, FS_EmptySet
  <2>3. CASE s # {}
    <3>1. PICK x \in s : x = Pick(s) /\ f[x] = 1
      BY <2>3, PickedElement
    <3>2. SumOf(f, s) = f[x] + SumOf(f, s \ {x})
      BY <2>1, <2>3, <3>1, SumPicked
    <3>3. Cardinality(s \ {x}) = Cardinality(s) - 1
      BY <2>1, FS_RemoveElement
    <3>4. SumOf(f, s \ {x}) = Cardinality(s \ {x})
      BY <1>1
    <3> QED BY <2>1, <3>1, <3>2, <3>3, <3>4
  <2> QED BY <2>2, <2>3
<1> HIDE DEF W
<1>2. SUBSET S \subseteq W
  BY <1>1, SubsetInduction, Zenon
<1>3. S \in W
  BY <1>2
<1> QED BY <1>3 DEF W

\* Equal terms are multiplied.
LEMMA SumOfConstant ==
  ASSUME NEW S, IsFiniteSet(S), NEW c \in Int, NEW f, \A x \in S : f[x] = c
  PROVE  SumOf(f, S) = c * Cardinality(S)
<1> DEFINE W == {s \in SUBSET S : SumOf(f, s) = c * Cardinality(s)}
<1>1. ASSUME NEW s \in SUBSET S, \A x \in s : s \ {x} \in W PROVE s \in W
  <2>1. IsFiniteSet(s) /\ Cardinality(s) \in Nat
    BY FS_Subset, FS_CardinalityType
  <2>2. CASE s = {}
    BY <2>2, SumOfNothing, FS_EmptySet
  <2>3. CASE s # {}
    <3>1. PICK x \in s : x = Pick(s) /\ f[x] = c
      BY <2>3, PickedElement
    <3>2. SumOf(f, s) = f[x] + SumOf(f, s \ {x})
      BY <2>1, <2>3, <3>1, SumPicked
    <3>3. PICK n \in Int : n = Cardinality(s \ {x}) /\ Cardinality(s) = n + 1
      <4>1. Cardinality(s \ {x}) = Cardinality(s) - 1
        BY <2>1, FS_RemoveElement
      <4> QED BY <2>1, <4>1
    <3>4. SumOf(f, s \ {x}) = c * n
      BY <1>1, <3>3
    <3>5. c * (n + 1) = c + c * n
      OBVIOUS
    <3> QED BY <3>1, <3>2, <3>3, <3>4, <3>5
  <2> QED BY <2>2, <2>3
<1> HIDE DEF W
<1>2. SUBSET S \subseteq W
  BY <1>1, SubsetInduction, Zenon
<1>3. S \in W
  BY <1>2
<1> QED BY <1>3 DEF W

Open(c, r) == {d \in OccurrencesIn(r, c.month) : <<r.id, d>> \notin c.decided}
Counted(c, k, s) == {r \in Maintained(c.rules, c.today) :
                       r.currency = k /\ (s = "simulation" \/ r.status = "CONFIRME")}
Rows(c, k, s) == Undecided(Counted(c, k, s), c.decided, DatesIn(c.month))
OfDay(rows, x) == {y \in rows : y.date = x.date /\ y.rule.kind = x.rule.kind}
RuleCents(S) == LET cents(x) == x.rule.cents IN MapThenSumSet(cents, S)
Movement(rows, x) == [date |-> x.date, kind |-> x.rule.kind,
                      total |-> RuleCents(OfDay(rows, x)), count |-> Cardinality(OfDay(rows, x))]
Counts(S) == LET count(x) == x.count IN Sum(count, S)
Totals(S) == LET total(x) == x.total IN Sum(total, S)
Times(c, S) == LET times(r) == Cardinality(Open(c, r)) IN Sum(times, S)
OpenCents(c, S) == LET cents(r) == r.cents * Cardinality(Open(c, r)) IN Sum(cents, S)

\* The sums of the planned movements: the amounts of the rules,
LEMMA RuleCentsAdd ==
  ASSUME NEW S, NEW f, \A i \in S : f[i] = i.rule.cents
  PROVE  RuleCents(S) = SumOf(f, S)
<1> DEFINE Own(g) == g = [s \in SUBSET S |-> IF s = {} THEN 0
                            ELSE Pick(s).rule.cents + g[s \ {Pick(s)}]]
<1>1. \A g : Adding(g, f, S) <=> Own(g)
  <2>1. \A s \in SUBSET S : s # {} => f[Pick(s)] = Pick(s).rule.cents
    BY PickedElement
  <2> QED BY <2>1, Zenon DEF Adding, Added
<1>2. RuleCents(S) = (CHOOSE g : Own(g))[S]
  BY DEF RuleCents, MapThenSumSet, MapThenFoldSet, Pick
<1> HIDE DEF Own
<1>3. (CHOOSE g : Adding(g, f, S)) = (CHOOSE g : Own(g))
  BY <1>1, Zenon
<1> QED BY <1>2, <1>3, SumChoice

\* how often and
LEMMA CountsAdd ==
  ASSUME NEW S, NEW f, \A i \in S : f[i] = i.count
  PROVE  Counts(S) = SumOf(f, S)
<1> DEFINE Own(g) == g = [s \in SUBSET S |-> IF s = {} THEN 0
                            ELSE Pick(s).count + g[s \ {Pick(s)}]]
<1>1. \A g : Adding(g, f, S) <=> Own(g)
  <2>1. \A s \in SUBSET S : s # {} => f[Pick(s)] = Pick(s).count
    BY PickedElement
  <2> QED BY <2>1, Zenon DEF Adding, Added
<1>2. Counts(S) = (CHOOSE g : Own(g))[S]
  BY DEF Counts, Sum, MapThenSumSet, MapThenFoldSet, Pick
<1> HIDE DEF Own
<1>3. (CHOOSE g : Adding(g, f, S)) = (CHOOSE g : Own(g))
  BY <1>1, Zenon
<1> QED BY <1>2, <1>3, SumChoice

\* how much the movements repeat,
LEMMA TotalsAdd ==
  ASSUME NEW S, NEW f, \A i \in S : f[i] = i.total
  PROVE  Totals(S) = SumOf(f, S)
<1> DEFINE Own(g) == g = [s \in SUBSET S |-> IF s = {} THEN 0
                            ELSE Pick(s).total + g[s \ {Pick(s)}]]
<1>1. \A g : Adding(g, f, S) <=> Own(g)
  <2>1. \A s \in SUBSET S : s # {} => f[Pick(s)] = Pick(s).total
    BY PickedElement
  <2> QED BY <2>1, Zenon DEF Adding, Added
<1>2. Totals(S) = (CHOOSE g : Own(g))[S]
  BY DEF Totals, Sum, MapThenSumSet, MapThenFoldSet, Pick
<1> HIDE DEF Own
<1>3. (CHOOSE g : Adding(g, f, S)) = (CHOOSE g : Own(g))
  BY <1>1, Zenon
<1> QED BY <1>2, <1>3, SumChoice

\* how often and
LEMMA TimesAdd ==
  ASSUME NEW c, NEW S, NEW f, \A i \in S : f[i] = Cardinality(Open(c, i))
  PROVE  Times(c, S) = SumOf(f, S)
<1> DEFINE Own(g) == g = [s \in SUBSET S |-> IF s = {} THEN 0
                            ELSE Cardinality(Open(c, Pick(s))) + g[s \ {Pick(s)}]]
<1>1. \A g : Adding(g, f, S) <=> Own(g)
  <2>1. \A s \in SUBSET S : s # {} => f[Pick(s)] = Cardinality(Open(c, Pick(s)))
    BY PickedElement
  <2> QED BY <2>1, Zenon DEF Adding, Added
<1>2. Times(c, S) = (CHOOSE g : Own(g))[S]
  BY DEF Times, Sum, MapThenSumSet, MapThenFoldSet, Pick
<1> HIDE DEF Own
<1>3. (CHOOSE g : Adding(g, f, S)) = (CHOOSE g : Own(g))
  BY <1>1, Zenon
<1> QED BY <1>2, <1>3, SumChoice

\* how much the rules ask.
LEMMA OpenCentsAdd ==
  ASSUME NEW c, NEW S, NEW f, \A i \in S : f[i] = (i.cents * Cardinality(Open(c, i)))
  PROVE  OpenCents(c, S) = SumOf(f, S)
<1> DEFINE Own(g) == g = [s \in SUBSET S |-> IF s = {} THEN 0
                            ELSE (Pick(s).cents * Cardinality(Open(c, Pick(s)))) + g[s \ {Pick(s)}]]
<1>1. \A g : Adding(g, f, S) <=> Own(g)
  <2>1. \A s \in SUBSET S : s # {} => f[Pick(s)] = (Pick(s).cents * Cardinality(Open(c, Pick(s))))
    BY PickedElement
  <2> QED BY <2>1, Zenon DEF Adding, Added
<1>2. OpenCents(c, S) = (CHOOSE g : Own(g))[S]
  BY DEF OpenCents, Sum, MapThenSumSet, MapThenFoldSet, Pick
<1> HIDE DEF Own
<1>3. (CHOOSE g : Adding(g, f, S)) = (CHOOSE g : Own(g))
  BY <1>1, Zenon
<1> QED BY <1>2, <1>3, SumChoice


\* Planned movements are undecided rows, one a day and kind.
LEMMA MovementsOfRows ==
  ASSUME NEW c, NEW k, NEW s
  PROVE  /\ PlannedMovements(c, c.month, k, s) = {Movement(Rows(c, k, s), x) : x \in Rows(c, k, s)}
         /\ s = "standard" => UnresolvedCount(c, c.month, k) = Counts(PlannedMovements(c, c.month, k, s))
<1>1. PlannedMovements(c, c.month, k, s) = {Movement(Rows(c, k, s), x) : x \in Rows(c, k, s)}
  BY DEF PlannedMovements, Movement, Rows, Counted, OfDay, RuleCents
<1>2. s = "standard" => UnresolvedCount(c, c.month, k) = Counts(PlannedMovements(c, c.month, k, s))
  BY DEF UnresolvedCount, Counts, Sum
<1> QED BY <1>1, <1>2

\* A month has finitely many dates.
LEMMA DatesAreFinite ==
  ASSUME NEW m \in Int
  PROVE  IsFiniteSet(DatesIn(m))
<1> DEFINE f == [day \in 1 .. DaysIn(m) |-> Date(m, day)]
<1>1. IsFiniteSet(1 .. DaysIn(m))
  <2>1. DaysIn(m) \in Int /\ 1 \in Int
    <3>1. DaysIn(m) \in 28 .. 31
      BY MonthParts
    <3> QED BY <3>1
  <2> QED BY <2>1, FS_Interval
<1>2. IsFiniteSet({f[day] : day \in 1 .. DaysIn(m)})
  <2> HIDE DEF f
  <2> QED BY <1>1, FiniteImage
<1>3. {f[day] : day \in 1 .. DaysIn(m)} = DatesIn(m)
  BY DEF DatesIn
<1> QED BY <1>2, <1>3

\* The rows of a month: one for every open date of every rule that counts.
LEMMA RowsOfRules ==
  ASSUME NEW c, IsPlan(c), NEW rules \in SUBSET c.rules
  PROVE  LET rows == Undecided(rules, c.decided, DatesIn(c.month)) IN
         /\ \A r \in rules : Open(c, r) \subseteq DatesIn(c.month) /\ IsFiniteSet(Open(c, r))
         /\ \A x \in rows : x.rule \in rules /\ x.date \in Open(c, x.rule) /\ x = [rule |-> x.rule, date |-> x.date]
         /\ \A r \in rules : \A d \in Open(c, r) : [rule |-> r, date |-> d] \in rows
         /\ IsFiniteSet(rows) /\ IsFiniteSet(rules)
<1> DEFINE rows == Undecided(rules, c.decided, DatesIn(c.month))
<1> DEFINE Of(r) == {d \in PlannedDates(r, DatesIn(c.month)) : <<r.id, d>> \notin c.decided}
<1>0. rows = UNION {{[rule |-> r, date |-> d] : d \in Of(r)} : r \in rules}
  BY Zenon DEF Undecided
<1>1. \A r \in rules : Open(c, r) = Of(r)
  BY SameDates DEF IsPlan, Open
<1>2. IsFiniteSet(DatesIn(c.month)) /\ IsFiniteSet(rules)
  BY DatesAreFinite, FS_Subset DEF IsPlan
<1>3. \A r \in rules : Open(c, r) \subseteq DatesIn(c.month) /\ IsFiniteSet(Open(c, r))
  <2> SUFFICES ASSUME NEW r \in rules PROVE Open(c, r) \subseteq DatesIn(c.month) /\ IsFiniteSet(Open(c, r))
    OBVIOUS
  <2>1. Open(c, r) \subseteq DatesIn(c.month)
    BY <1>1 DEF PlannedDates
  <2> QED BY <1>2, <2>1, FS_Subset
<1>5. \A r \in rules : \A d \in Open(c, r) : [rule |-> r, date |-> d] \in rows
  <2> HIDE DEF rows, Of
  <2> QED BY <1>0, <1>1
<1>6. \A x \in rows : x.rule \in rules /\ x.date \in Open(c, x.rule) /\ x = [rule |-> x.rule, date |-> x.date]
  <2> HIDE DEF rows, Of
  <2> QED BY <1>0, <1>1
<1> HIDE DEF rows
<1>7. IsFiniteSet(rows)
  <2> DEFINE P == rules \X DatesIn(c.month)
             f == [p \in P |-> [rule |-> p[1], date |-> p[2]]]
  <2>1. IsFiniteSet(P)
    BY <1>2, FS_Product
  <2>2. IsFiniteSet({f[p] : p \in P})
    <3> HIDE DEF f, P
    <3> QED BY <2>1, FiniteImage
  <2>3. rows \subseteq {f[p] : p \in P}
    <3> SUFFICES ASSUME NEW x \in rows PROVE x \in {f[p] : p \in P}
      OBVIOUS
    <3>1. x.rule \in rules /\ x.date \in DatesIn(c.month) /\ x = [rule |-> x.rule, date |-> x.date]
      BY <1>3, <1>6
    <3>2. <<x.rule, x.date>> \in P /\ f[<<x.rule, x.date>>] = x
      BY <3>1
    <3> QED BY <3>2
  <2> QED BY <2>2, <2>3, FS_Subset
<1> QED BY <1>2, <1>3, <1>5, <1>6, <1>7 DEF rows

\* A row that is not decided.
LEMMA UndecidedRows ==
  ASSUME NEW rules, NEW decided, NEW dates, NEW x
  PROVE  x \in Undecided(rules, decided, dates) <=>
           /\ x.rule \in rules /\ x.date \in PlannedDates(x.rule, dates)
           /\ <<x.rule.id, x.date>> \notin decided
           /\ x = [rule |-> x.rule, date |-> x.date]
<1> DEFINE Of(r) == {d \in PlannedDates(r, dates) : <<r.id, d>> \notin decided}
           Row(r, d) == [rule |-> r, date |-> d]
<1>1. Undecided(rules, decided, dates) = UNION {{Row(r, d) : d \in Of(r)} : r \in rules}
  BY Zenon DEF Undecided
<1>2. x \in Undecided(rules, decided, dates) <=> \E r \in rules : \E d \in Of(r) : x = Row(r, d)
  <2> HIDE DEF Of, Row
  <2> QED BY <1>1
<1>3. \A r, d : Row(r, d).rule = r /\ Row(r, d).date = d
  OBVIOUS
<1> QED BY <1>2, <1>3

\* The rows of the rules, added in two ways: one by one, and rule by rule.
LEMMA RowsByRule ==
  ASSUME NEW c, IsPlan(c), NEW rules \in SUBSET c.rules
  PROVE  LET rows == Undecided(rules, c.decided, DatesIn(c.month)) IN
         Cardinality(rows) = Times(c, rules) /\ RuleCents(rows) = OpenCents(c, rules)
<1> DEFINE rows == Undecided(rules, c.decided, DatesIn(c.month))
           one == [x \in rows |-> 1]
           cents == [x \in rows |-> x.rule.cents]
           name == [x \in rows |-> x.rule]
           times == [r \in rules |-> Cardinality(Open(c, r))]
           share == [r \in rules |-> r.cents * Cardinality(Open(c, r))]
<1>1. /\ \A r \in rules : Open(c, r) \subseteq DatesIn(c.month) /\ IsFiniteSet(Open(c, r))
      /\ \A x \in rows : x.rule \in rules /\ x.date \in Open(c, x.rule) /\ x = [rule |-> x.rule, date |-> x.date]
      /\ \A r \in rules : \A d \in Open(c, r) : [rule |-> r, date |-> d] \in rows
      /\ IsFiniteSet(rows) /\ IsFiniteSet(rules)
  BY RowsOfRules, Zenon
<1>2. \A r \in rules : r.cents \in Int
  BY DEF IsPlan
<1>3. /\ \A x \in rows : one[x] = 1 /\ one[x] \in Int /\ cents[x] \in Int /\ cents[x] = x.rule.cents
      /\ \A x \in rows : name[x] \in rules /\ name[x] = x.rule
  <2> HIDE DEF rows
  <2> QED BY <1>1, <1>2
<1>4. \A r \in rules : times[r] = Cardinality(Open(c, r)) /\ share[r] = r.cents * Cardinality(Open(c, r))
  OBVIOUS
<1> HIDE DEF rows, one, cents, name, times, share
<1>5. ASSUME NEW r \in rules
      PROVE  /\ times[r] = SumOf(one, Part(rows, name, r))
             /\ share[r] = SumOf(cents, Part(rows, name, r))
  <2>1. PICK part : part = Part(rows, name, r)
    OBVIOUS
  <2>2. /\ part \subseteq rows /\ \A x \in part : x.rule = r /\ x.date \in Open(c, r)
        /\ \A x \in part : x = [rule |-> r, date |-> x.date]
        /\ \A d \in Open(c, r) : [rule |-> r, date |-> d] \in part
    <3>1. \A x : x \in part <=> x \in rows /\ x.rule = r
      BY <1>3, <2>1 DEF Part
    <3> QED BY <1>1, <3>1
  <2>3. IsFiniteSet(part)
    BY <1>1, <2>2, FS_Subset
  <2>4. SumOf(one, part) = Cardinality(part)
    <3>1. \A x \in part : one[x] = 1
      BY <1>3, <2>2
    <3> QED BY <2>3, <3>1, CountIsSum
  <2>5. SumOf(cents, part) = r.cents * Cardinality(part)
    <3>1. \A x \in part : cents[x] = r.cents
      BY <1>3, <2>2
    <3>2. r.cents \in Int
      BY <1>2
    <3> QED BY <2>3, <3>1, <3>2, SumOfConstant
  <2>6. Cardinality(part) = Cardinality(Open(c, r))
    <3> DEFINE date == [x \in part |-> x.date]
    <3>1. date \in Bijection(part, Open(c, r))
      <4>1. date \in [part -> Open(c, r)]
        BY <2>2
      <4>2. \A x, y \in part : date[x] = date[y] => x = y
        BY <2>2
      <4>3. \A d \in Open(c, r) : \E x \in part : date[x] = d
        <5> SUFFICES ASSUME NEW d \in Open(c, r) PROVE \E x \in part : date[x] = d
          OBVIOUS
        <5>1. [rule |-> r, date |-> d] \in part
          BY <2>2
        <5> QED BY <5>1
      <4> QED BY <4>1, <4>2, <4>3 DEF Bijection, Injection, IsInjective, Surjection
    <3> HIDE DEF date
    <3>2. ExistsBijection(part, Open(c, r))
      BY <3>1 DEF ExistsBijection
    <3> QED BY <2>3, <3>2, FS_Bijection
  <2> QED BY <1>4, <2>1, <2>4, <2>5, <2>6
<1>6. SumOf(one, rows) = SumOf(times, rules)
  <2>1. \A r \in rules : times[r] = SumOf(one, Part(rows, name, r))
    BY <1>5
  <2>2. \A x \in rows : one[x] \in Int
    BY <1>3
  <2>3. \A x \in rows : name[x] \in rules
    BY <1>3
  <2>4. IsFiniteSet(rows) /\ IsFiniteSet(rules)
    BY <1>1
  <2> QED BY <2>1, <2>2, <2>3, <2>4, SumByNames
<1>7. SumOf(cents, rows) = SumOf(share, rules)
  <2>1. \A r \in rules : share[r] = SumOf(cents, Part(rows, name, r))
    BY <1>5
  <2>2. \A x \in rows : cents[x] \in Int
    BY <1>3
  <2>3. \A x \in rows : name[x] \in rules
    BY <1>3
  <2>4. IsFiniteSet(rows) /\ IsFiniteSet(rules)
    BY <1>1
  <2> QED BY <2>1, <2>2, <2>3, <2>4, SumByNames
<1>8. SumOf(one, rows) = Cardinality(rows)
  <2>1. \A x \in rows : one[x] = 1
    BY <1>3
  <2> QED BY <1>1, <2>1, CountIsSum
<1>9. RuleCents(rows) = SumOf(cents, rows)
  <2>1. \A x \in rows : cents[x] = x.rule.cents
    BY <1>3
  <2> QED BY <2>1, RuleCentsAdd
<1>10. Times(c, rules) = SumOf(times, rules)
  <2>1. \A r \in rules : times[r] = Cardinality(Open(c, r))
    BY <1>4
  <2> QED BY <2>1, TimesAdd
<1>11. OpenCents(c, rules) = SumOf(share, rules)
  <2>1. \A r \in rules : share[r] = (r.cents * Cardinality(Open(c, r)))
    BY <1>4
  <2> QED BY <2>1, OpenCentsAdd
<1> QED BY <1>6, <1>7, <1>8, <1>9, <1>10, <1>11 DEF rows

\* The movements of a month, for any kinds: they add up to the rows they group.
LEMMA MovementsAdd ==
  ASSUME NEW rows, IsFiniteSet(rows), \A x \in rows : x.rule.cents \in Int, NEW kinds
  PROVE  LET moves == {m \in {Movement(rows, x) : x \in rows} : m.kind \in kinds}
             own == {x \in rows : x.rule.kind \in kinds}
         IN /\ Counts(moves) = Cardinality(own)
            /\ Totals(moves) = RuleCents(own)
            /\ {m.date : m \in moves} = {x.date : x \in own}
<1> DEFINE moves == {m \in {Movement(rows, x) : x \in rows} : m.kind \in kinds}
           own == {x \in rows : x.rule.kind \in kinds}
           name == [x \in own |-> Movement(rows, x)]
           one == [x \in own |-> 1]
           cents == [x \in own |-> x.rule.cents]
           count == [m \in moves |-> m.count]
           total == [m \in moves |-> m.total]
<1>1. \A x : /\ Movement(rows, x).date = x.date /\ Movement(rows, x).kind = x.rule.kind
             /\ Movement(rows, x).total = RuleCents(OfDay(rows, x))
             /\ Movement(rows, x).count = Cardinality(OfDay(rows, x))
  BY DEF Movement
<1>2. moves = {Movement(rows, x) : x \in own}
  <2>1. \A x \in own : Movement(rows, x) \in moves
    BY <1>1
  <2>2. ASSUME NEW m \in moves PROVE \E x \in own : m = Movement(rows, x)
    <3>1. PICK x \in rows : m = Movement(rows, x)
      OBVIOUS
    <3>2. x \in own
      BY <1>1, <3>1
    <3> QED BY <3>1, <3>2
  <2> HIDE DEF moves, own
  <2> QED BY <2>1, <2>2
<1>3. own \subseteq rows /\ IsFiniteSet(own)
  BY FS_Subset
<1>4. \A x \in own : /\ name[x] = Movement(rows, x) /\ one[x] = 1 /\ one[x] \in Int
                     /\ cents[x] \in Int /\ cents[x] = x.rule.cents
  OBVIOUS
<1>5. \A m \in moves : count[m] = m.count /\ total[m] = m.total
  OBVIOUS
<1>6. \A x \in own : \A y \in OfDay(rows, x) : y \in own /\ y.date = x.date /\ y.rule.kind = x.rule.kind
  BY DEF OfDay
<1>7. \A x, y \in own : y.date = x.date /\ y.rule.kind = x.rule.kind => y \in OfDay(rows, x)
  BY DEF OfDay
<1> HIDE DEF moves, own, name, one, cents, count, total
<1>8. IsFiniteSet(moves) /\ \A x \in own : name[x] \in moves
  <2>1. IsFiniteSet({name[x] : x \in own})
    BY <1>3, FiniteImage
  <2> QED BY <1>2, <1>4, <2>1
<1>9. ASSUME NEW x \in own
      PROVE  Part(own, name, Movement(rows, x)) = OfDay(rows, x)
  <2>1. ASSUME NEW y \in own, name[y] = Movement(rows, x) PROVE y \in OfDay(rows, x)
    <3>1. Movement(rows, y) = Movement(rows, x)
      BY <1>4, <2>1
    <3>2. y.date = x.date /\ y.rule.kind = x.rule.kind
      BY <1>1, <3>1
    <3> QED BY <1>7, <3>2
  <2>2. ASSUME NEW y \in OfDay(rows, x) PROVE y \in own /\ name[y] = Movement(rows, x)
    <3>1. y \in own /\ y.date = x.date /\ y.rule.kind = x.rule.kind
      BY <1>6
    <3>2. OfDay(rows, y) = OfDay(rows, x)
      BY <3>1 DEF OfDay
    <3>3. Movement(rows, y) = Movement(rows, x)
      BY <3>1, <3>2 DEF Movement
    <3> QED BY <1>4, <3>1, <3>3
  <2>3. \A y : y \in Part(own, name, Movement(rows, x)) <=> y \in own /\ name[y] = Movement(rows, x)
    BY DEF Part
  <2> QED BY <2>1, <2>2, <2>3
<1>10. ASSUME NEW m \in moves
       PROVE  /\ count[m] = SumOf(one, Part(own, name, m))
              /\ total[m] = SumOf(cents, Part(own, name, m))
  <2>1. PICK x \in own : m = Movement(rows, x)
    BY <1>2
  <2>2. PICK part : part = Part(own, name, m)
    OBVIOUS
  <2>3. part = OfDay(rows, x) /\ part \subseteq own
    BY <1>9, <2>1, <2>2 DEF Part
  <2>4. IsFiniteSet(part)
    BY <1>3, <2>3, FS_Subset
  <2>5. SumOf(one, part) = Cardinality(part)
    <3>1. \A y \in part : one[y] = 1
      BY <1>4, <2>3
    <3> QED BY <2>4, <3>1, CountIsSum
  <2>6. RuleCents(part) = SumOf(cents, part)
    <3>1. \A y \in part : cents[y] = y.rule.cents
      BY <1>4, <2>3
    <3> QED BY <3>1, RuleCentsAdd
  <2> QED BY <1>1, <1>5, <2>1, <2>2, <2>3, <2>5, <2>6
<1>11. Counts(moves) = SumOf(count, moves) /\ Totals(moves) = SumOf(total, moves)
  <2>1. \A m \in moves : count[m] = m.count
    BY <1>5
  <2>2. \A m \in moves : total[m] = m.total
    BY <1>5
  <2> QED BY <2>1, <2>2, CountsAdd, TotalsAdd
<1>12. SumOf(one, own) = SumOf(count, moves)
  <2>1. \A m \in moves : count[m] = SumOf(one, Part(own, name, m))
    BY <1>10
  <2>2. \A x \in own : one[x] \in Int
    BY <1>4
  <2>3. \A x \in own : name[x] \in moves
    BY <1>8
  <2>4. IsFiniteSet(own) /\ IsFiniteSet(moves)
    BY <1>3, <1>8
  <2> QED BY ONLY <2>1, <2>2, <2>3, <2>4, SumByNames
<1>13. SumOf(cents, own) = SumOf(total, moves)
  <2>1. \A m \in moves : total[m] = SumOf(cents, Part(own, name, m))
    BY <1>10
  <2>2. \A x \in own : cents[x] \in Int
    BY <1>4
  <2>3. \A x \in own : name[x] \in moves
    BY <1>8
  <2>4. IsFiniteSet(own) /\ IsFiniteSet(moves)
    BY <1>3, <1>8
  <2> QED BY ONLY <2>1, <2>2, <2>3, <2>4, SumByNames
<1>14. SumOf(one, own) = Cardinality(own)
  <2>1. \A x \in own : one[x] = 1
    BY <1>4
  <2> QED BY <1>3, <2>1, CountIsSum
<1>15. RuleCents(own) = SumOf(cents, own)
  <2>1. \A x \in own : cents[x] = x.rule.cents
    BY <1>4
  <2> QED BY <2>1, RuleCentsAdd
<1>16. {m.date : m \in moves} = {x.date : x \in own}
  <2>1. \A x \in own : Movement(rows, x).date = x.date
    BY <1>1
  <2> QED BY <1>2, <2>1
<1> QED BY <1>11, <1>12, <1>13, <1>14, <1>15, <1>16 DEF moves, own

\* The rules a budget counts, and those of a kind.
LEMMA CountedRules ==
  ASSUME NEW c, IsPlan(c), NEW k
  PROVE  /\ Counted(c, k, "standard") = {r \in c.rules : r.status = "CONFIRME" /\ r.currency = k}
         /\ Counted(c, k, "simulation") =
              {r \in c.rules : /\ r.status = "CONFIRME" \/ MonthIndex(c.today) <= MonthIndex(r.start)
                               /\ r.currency = k}
<1>1. \A r \in c.rules : r.status \in {"CONFIRME", "POTENTIEL"} /\ IsCivil(r.start)
  BY DEF IsPlan, IsRule
<1>2. \A d : IsCivil(d) => d[3] \in Int /\ d[3] >= 1 /\ MonthIndex(d) \in Int
  <2> SUFFICES ASSUME NEW d, IsCivil(d) PROVE d[3] \in Int /\ d[3] >= 1 /\ MonthIndex(d) \in Int
    OBVIOUS
  <2>1. MonthIndex(d) \in Int /\ d \in DatesIn(MonthIndex(d))
    BY DEF IsCivil
  <2>2. d[3] \in 1 .. DaysIn(MonthIndex(d)) /\ DaysIn(MonthIndex(d)) \in 28 .. 31
    BY <2>1, DateFields, MonthParts
  <2> QED BY <2>1, <2>2
<1>3. PICK m : m = MonthIndex(c.today) /\ m \in Int
  BY DEF IsPlan, IsCivil
<1>4. MonthIndex(First(m)) = m /\ First(m)[3] = 1
  <2>1. First(m) \in DatesIn(m)
    <3>1. DaysIn(m) \in 28 .. 31
      BY <1>3, MonthParts
    <3>2. 1 \in 1 .. DaysIn(m)
      BY <3>1
    <3> QED BY <3>2 DEF First, DatesIn
  <2>2. MonthIndex(First(m)) = m
    BY <1>3, <2>1, DateFields
  <2> QED BY <2>2 DEF First, Date
<1>5. \A r \in c.rules : UpTo(First(m), r.start) <=> m <= MonthIndex(r.start)
  <2> SUFFICES ASSUME NEW r \in c.rules PROVE UpTo(First(m), r.start) <=> m <= MonthIndex(r.start)
    OBVIOUS
  <2>1. PICK n, e : /\ n = MonthIndex(r.start) /\ n \in Int
                    /\ e = r.start[3] /\ e \in Int /\ e >= 1
    BY <1>1, <1>2
  <2>2. UpTo(First(m), r.start) <=> m < n \/ (m = n /\ 1 <= e)
    BY <1>4, <2>1 DEF UpTo
  <2> QED BY <1>3, <2>1, <2>2
<1>6. \A r : r \in Maintained(c.rules, c.today)
               <=> r \in c.rules /\ (r.status = "CONFIRME" \/ MonthIndex(c.today) <= MonthIndex(r.start))
  BY <1>1, <1>3, <1>5 DEF Maintained
<1> QED BY <1>6 DEF Counted

\* of some kinds: the movements, the rules and the rows
MovesOf(c, k, s, kinds) == {m \in PlannedMovements(c, c.month, k, s) : m.kind \in kinds}
CountedOf(c, k, s, kinds) == {r \in Counted(c, k, s) : r.kind \in kinds}
RowsOf(c, k, s, kinds) == {x \in Rows(c, k, s) : x.rule.kind \in kinds}

\* A movement for each day and kind, an open date for each rule: the same in number, cents and dates.
LEMMA PlannedViews ==
  ASSUME NEW c, IsPlan(c), NEW k, NEW s, NEW kinds
  PROVE  /\ Counts(MovesOf(c, k, s, kinds)) = Times(c, CountedOf(c, k, s, kinds))
         /\ Totals(MovesOf(c, k, s, kinds)) = OpenCents(c, CountedOf(c, k, s, kinds))
         /\ {m.date : m \in MovesOf(c, k, s, kinds)} = UNION {Open(c, r) : r \in CountedOf(c, k, s, kinds)}
         /\ Counts(MovesOf(c, k, s, kinds)) = Cardinality(RowsOf(c, k, s, kinds))
<1> DEFINE moves == {m \in PlannedMovements(c, c.month, k, s) : m.kind \in kinds}
           own == {r \in Counted(c, k, s) : r.kind \in kinds}
           rows == {x \in Rows(c, k, s) : x.rule.kind \in kinds}
<1>1. own \in SUBSET c.rules /\ Counted(c, k, s) \in SUBSET c.rules
  BY DEF Counted, Maintained
<1>2. moves = {m \in {Movement(Rows(c, k, s), x) : x \in Rows(c, k, s)} : m.kind \in kinds}
  BY MovementsOfRows
<1>3. IsFiniteSet(Rows(c, k, s)) /\ \A x \in Rows(c, k, s) : x.rule \in Counted(c, k, s)
  BY <1>1, RowsOfRules, Zenon DEF Rows
<1>4. \A x \in Rows(c, k, s) : x.rule.cents \in Int
  BY <1>1, <1>3 DEF IsPlan
<1>5. /\ Counts(moves) = Cardinality(rows) /\ Totals(moves) = RuleCents(rows)
      /\ {m.date : m \in moves} = {x.date : x \in rows}
  <2>1. PICK R : R = Rows(c, k, s)
    OBVIOUS
  <2>2. IsFiniteSet(R)
    BY <1>3, <2>1
  <2>3. \A x \in R : x.rule.cents \in Int
    BY <1>4, <2>1
  <2>4. LET M == {m \in {Movement(R, x) : x \in R} : m.kind \in kinds}
            S == {x \in R : x.rule.kind \in kinds}
        IN Counts(M) = Cardinality(S) /\ Totals(M) = RuleCents(S) /\ {m.date : m \in M} = {x.date : x \in S}
    BY ONLY <2>2, <2>3, MovementsAdd, Zenon
  <2>5. moves = {m \in {Movement(R, x) : x \in R} : m.kind \in kinds} /\ rows = {x \in R : x.rule.kind \in kinds}
    BY <1>2, <2>1
  <2> HIDE DEF moves, rows
  <2> QED BY <2>4, <2>5, Zenon
<1>6. rows = Undecided(own, c.decided, DatesIn(c.month))
  <2>1. \A x : x \in Rows(c, k, s) <=>
             /\ x.rule \in Counted(c, k, s) /\ x.date \in PlannedDates(x.rule, DatesIn(c.month))
             /\ <<x.rule.id, x.date>> \notin c.decided /\ x = [rule |-> x.rule, date |-> x.date]
    BY UndecidedRows DEF Rows
  <2>2. \A x : x \in Undecided(own, c.decided, DatesIn(c.month)) <=>
             /\ x.rule \in own /\ x.date \in PlannedDates(x.rule, DatesIn(c.month))
             /\ <<x.rule.id, x.date>> \notin c.decided /\ x = [rule |-> x.rule, date |-> x.date]
    <3> HIDE DEF own
    <3> QED BY UndecidedRows
  <2> QED BY <2>1, <2>2
<1>7. Cardinality(rows) = Times(c, own) /\ RuleCents(rows) = OpenCents(c, own)
  BY <1>1, <1>6, RowsByRule, Zenon
<1>8. {x.date : x \in rows} = UNION {Open(c, r) : r \in own}
  <2>1. /\ \A x \in rows : x.rule \in own /\ x.date \in Open(c, x.rule)
        /\ \A r \in own : \A d \in Open(c, r) : [rule |-> r, date |-> d] \in rows
    BY <1>1, <1>6, RowsOfRules, Zenon
  <2> HIDE DEF rows, own
  <2>2. \A d : d \in {x.date : x \in rows} => d \in UNION {Open(c, r) : r \in own}
    BY <2>1
  <2>3. ASSUME NEW r \in own, NEW d \in Open(c, r) PROVE d \in {x.date : x \in rows}
    <3>1. PICK x \in rows : x = [rule |-> r, date |-> d]
      BY <2>1
    <3> QED BY <3>1
  <2> QED BY <2>2, <2>3
<1>9. MovesOf(c, k, s, kinds) = moves /\ CountedOf(c, k, s, kinds) = own /\ RowsOf(c, k, s, kinds) = rows
  BY DEF MovesOf, CountedOf, RowsOf
<1> HIDE DEF moves, own, rows
<1> QED BY <1>5, <1>7, <1>8, <1>9, Zenon

\* Of a past month that the queue still covers, it asks what a closure counts.
LEMMA PendingRows ==
  ASSUME NEW c, IsPlan(c), NEW k,
         c.month \in MonthIndex(c.today) - (PendingWindowMonths - 1) .. MonthIndex(c.today) - 1
  PROVE  {x \in Pending(c, c.today) : x.rule.currency = k /\ MonthIndex(x.date) = c.month}
           = Rows(c, k, "standard")
<1>1. PICK now \in Int : now = MonthIndex(c.today)
  BY DEF IsPlan, IsCivil
<1>2. c.month \in Int /\ c.month < now /\ c.month \in now - (PendingWindowMonths - 1) .. now
  BY <1>1 DEF PendingWindowMonths
<1>3. \A d : d \in PendingDates(c.today) /\ MonthIndex(d) = c.month <=> d \in DatesIn(c.month)
  <2>1. ASSUME NEW d \in PendingDates(c.today), MonthIndex(d) = c.month PROVE d \in DatesIn(c.month)
    <3>1. PICK n \in now - (PendingWindowMonths - 1) .. now : d \in DatesIn(n)
      BY <1>1 DEF PendingDates
    <3>2. n \in Int
      BY <1>1, <3>1 DEF PendingWindowMonths
    <3>3. MonthIndex(d) = n
      BY <3>1, <3>2, DateFields
    <3> QED BY <2>1, <3>1, <3>3
  <2>2. ASSUME NEW d \in DatesIn(c.month) PROVE d \in PendingDates(c.today) /\ MonthIndex(d) = c.month
    <3>1. MonthIndex(d) = c.month
      BY <1>2, DateFields
    <3>2. UpTo(d, c.today)
      BY <1>1, <1>2, <3>1 DEF UpTo
    <3> QED BY <1>1, <1>2, <3>1, <3>2 DEF PendingDates
  <2> QED BY <2>1, <2>2
<1> DEFINE confirmed == {r \in Maintained(c.rules, c.today) : r.status = "CONFIRME"}
<1>4. \A x : x \in Pending(c, c.today) <=>
           /\ x.rule \in confirmed /\ x.date \in PlannedDates(x.rule, PendingDates(c.today))
           /\ <<x.rule.id, x.date>> \notin c.decided /\ x = [rule |-> x.rule, date |-> x.date]
  BY UndecidedRows DEF Pending
<1>5. \A x : x \in Rows(c, k, "standard") <=>
           /\ x.rule \in Counted(c, k, "standard") /\ x.date \in PlannedDates(x.rule, DatesIn(c.month))
           /\ <<x.rule.id, x.date>> \notin c.decided /\ x = [rule |-> x.rule, date |-> x.date]
  BY UndecidedRows DEF Rows
<1>6. \A r : r \in Counted(c, k, "standard") <=> r \in confirmed /\ r.currency = k
  BY DEF Counted
<1>7. \A r, d : d \in PlannedDates(r, DatesIn(c.month))
                  <=> d \in PlannedDates(r, PendingDates(c.today)) /\ MonthIndex(d) = c.month
  BY <1>3 DEF PlannedDates
<1> HIDE DEF confirmed
<1> QED BY <1>4, <1>5, <1>6, <1>7

IsPlanView(view, c) ==
  LET currencies == {r.currency : r \in c.rules} IN
  /\ view.planned = [k \in currencies |-> [s \in Scenarios |-> PlannedMovements(c, c.month, k, s)]]
  /\ view.unresolved = [k \in currencies |-> UnresolvedCount(c, c.month, k)]
  /\ view.pending = Pending(c, c.today)

\* the rules a scenario counts, as PlansAgree says
RulesOf(c, s) == IF s = "standard" THEN {r \in c.rules : r.status = "CONFIRME"}
                 ELSE {r \in c.rules : r.status = "CONFIRME" \/ MonthIndex(c.today) <= MonthIndex(r.start)}
OwnRules(c, k, s, kind) == {r \in RulesOf(c, s) : r.currency = k /\ r.kind = kind}

\* what a view plans of a kind, and what its queue asks to decide in the month
PlannedOf(view, k, s, kind) == {x \in view.planned[k][s] : x.kind = kind}
QueueOf(view, c, k) == {x \in view.pending : x.rule.currency = k /\ MonthIndex(x.date) = c.month}

\* What a budget counts as planned, rule by rule.
LEMMA PlannedView ==
  ASSUME NEW c, IsPlan(c), NEW view, IsPlanView(view, c), NEW k \in DOMAIN view.planned,
         NEW s \in Scenarios, NEW kind \in {"DEPENSE", "ENTREE"}
  PROVE  /\ Counts(PlannedOf(view, k, s, kind)) = Times(c, OwnRules(c, k, s, kind))
         /\ Totals(PlannedOf(view, k, s, kind)) = OpenCents(c, OwnRules(c, k, s, kind))
         /\ {x.date : x \in PlannedOf(view, k, s, kind)}
              = UNION {Open(c, r) : r \in OwnRules(c, k, s, kind)}
<1> DEFINE moves == PlannedOf(view, k, s, kind)
<1>1. PICK kinds : kinds = {kind}
  OBVIOUS
<1>2. moves = MovesOf(c, k, s, kinds)
  BY <1>1 DEF IsPlanView, MovesOf, PlannedOf
<1>3. OwnRules(c, k, s, kind) = CountedOf(c, k, s, kinds)
  BY <1>1, CountedRules DEF OwnRules, RulesOf, Scenarios, CountedOf
<1> HIDE DEF moves
<1>4. /\ Counts(MovesOf(c, k, s, kinds)) = Times(c, CountedOf(c, k, s, kinds))
      /\ Totals(MovesOf(c, k, s, kinds)) = OpenCents(c, CountedOf(c, k, s, kinds))
      /\ {x.date : x \in MovesOf(c, k, s, kinds)} = UNION {Open(c, r) : r \in CountedOf(c, k, s, kinds)}
  BY PlannedViews
<1>5. /\ Counts(moves) = Times(c, OwnRules(c, k, s, kind))
      /\ Totals(moves) = OpenCents(c, OwnRules(c, k, s, kind))
      /\ {x.date : x \in moves} = UNION {Open(c, r) : r \in OwnRules(c, k, s, kind)}
  BY <1>2, <1>3, <1>4, Zenon
<1> QED BY <1>5 DEF moves

\* What stays unresolved is what the queue asks in that month.
LEMMA UnresolvedView ==
  ASSUME NEW c, IsPlan(c), NEW view, IsPlanView(view, c), NEW k \in DOMAIN view.planned,
         c.month \in MonthIndex(c.today) - (PendingWindowMonths - 1) .. MonthIndex(c.today) - 1
  PROVE  view.unresolved[k] = Cardinality(QueueOf(view, c, k))
<1>1. view.unresolved[k] = UnresolvedCount(c, c.month, k) /\ view.pending = Pending(c, c.today)
  BY DEF IsPlanView
<1>2. UnresolvedCount(c, c.month, k) = Counts(PlannedMovements(c, c.month, k, "standard"))
  BY MovementsOfRows
<1>3. QueueOf(view, c, k) = Rows(c, k, "standard")
  <2>1. QueueOf(view, c, k) = {x \in Pending(c, c.today) : x.rule.currency = k /\ MonthIndex(x.date) = c.month}
    BY <1>1 DEF QueueOf
  <2> QED BY <2>1, PendingRows, Zenon
<1> DEFINE kinds == {"DEPENSE", "ENTREE"}
<1>4. \A x \in Rows(c, k, "standard") : x.rule.kind \in kinds
  <2>1. \A x \in Rows(c, k, "standard") : x.rule \in Counted(c, k, "standard")
    BY UndecidedRows DEF Rows
  <2> QED BY <2>1 DEF Counted, Maintained, IsPlan
<1>5. MovesOf(c, k, "standard", kinds) = PlannedMovements(c, c.month, k, "standard")
  <2>1. \A m \in PlannedMovements(c, c.month, k, "standard") :
          \E x \in Rows(c, k, "standard") : m.kind = x.rule.kind
    BY MovementsOfRows DEF Movement
  <2> QED BY <1>4, <2>1 DEF MovesOf
<1>6. RowsOf(c, k, "standard", kinds) = Rows(c, k, "standard")
  BY <1>4 DEF RowsOf
<1> HIDE DEF kinds
<1>7. Counts(MovesOf(c, k, "standard", kinds)) = Cardinality(RowsOf(c, k, "standard", kinds))
  BY PlannedViews
<1> QED BY <1>1, <1>2, <1>3, <1>5, <1>6, <1>7

-----------------------------------------------------------------------------
(* The months of a forecast and the savings they leave.                    *)

\* The sum of some payments depends on the payments only.
LEMMA SamePayments ==
  ASSUME NEW b, IsBudget(b), NEW c, c.movements = b.movements
  PROVE  /\ \A I \in SUBSET DOMAIN b.movements : CentsOf(c, I) = CentsOf(b, I)
         /\ \A o : PaymentsOf(c, o) = PaymentsOf(b, o)
         /\ \A kind : OfKind(c, kind) = OfKind(b, kind)
         /\ ReconciledPlans(c) = ReconciledPlans(b)
<1>1. ASSUME NEW I \in SUBSET DOMAIN b.movements PROVE CentsOf(c, I) = CentsOf(b, I)
  <2> DEFINE f == [i \in I |-> b.movements[i].cents]
  <2>1. \A i \in I : f[i] = b.movements[i].cents /\ f[i] = c.movements[i].cents
    OBVIOUS
  <2> HIDE DEF f
  <2>2. CentsOf(b, I) = SumOf(f, I)
    BY <2>1, CentsAdd
  <2>3. CentsOf(c, I) = SumOf(f, I)
    BY <2>1, CentsAdd
  <2> QED BY <2>2, <2>3
<1>2. \A o : PaymentsOf(c, o) = PaymentsOf(b, o)
  BY DEF PaymentsOf
<1>3. \A kind : OfKind(c, kind) = OfKind(b, kind)
  BY DEF OfKind
<1>4. ReconciledPlans(c) = ReconciledPlans(b)
  BY DEF ReconciledPlans
<1> QED BY <1>1, <1>2, <1>3, <1>4

\* The adjustment of a month.
LEMMA AdjustmentIsInteger ==
  ASSUME NEW b, IsBudget(b)
  PROVE  Adjustment(b) \in Int
<1> DEFINE D == DOMAIN b.movements
           last == DaysIn(b.month)
<1>1. last \in Int /\ Moves(b, 1 .. last) = D
  BY WholeMonth
<1>2. CoveredBy(b, Moves(b, 1 .. last)) \in Int
  BY <1>1, NetByPlans
<1>3. CoveredBy(b, D) \in Int
  BY <1>1, <1>2
<1>4. UnusedPlans(b) \in Int
  BY ClosingExcess
<1>5. CASE b.frozen # {}
  <2>1. b.frozen \subseteq Int
    BY DEF IsBudget
  <2> QED BY <1>5, <2>1 DEF Adjustment
<1>6. CASE b.frozen = {}
  <2>1. Adjustment(b) = CoveredBy(b, D) + (IF b.closed THEN UnusedPlans(b) ELSE 0)
    BY <1>6 DEF Adjustment
  <2> QED BY <1>3, <1>4, <2>1
<1> QED BY <1>5, <1>6

\* Two months with the same rows, plans, payments and adjustment differ by what they carry.
LEMMA SameFlow ==
  ASSUME NEW b, IsBudget(b), NEW c, IsBudget(c), c.movements = b.movements, c.plans = b.plans,
         c.income = b.income, c.expense = b.expense, c.closed = b.closed, c.frozen = b.frozen
  PROVE  Balance(c) - c.carry = Balance(b) - b.carry
<1> DEFINE D == DOMAIN b.movements
<1>1. \A I \in SUBSET D : CentsOf(c, I) = CentsOf(b, I)
  BY SamePayments
<1>2. /\ \A o : PaymentsOf(c, o) = PaymentsOf(b, o)
      /\ \A kind : OfKind(c, kind) = OfKind(b, kind)
      /\ ReconciledPlans(c) = ReconciledPlans(b)
  BY SamePayments
<1>3. \A I \in SUBSET D : EntriesLessExpenses(c, I) = EntriesLessExpenses(b, I)
  BY <1>1, <1>2 DEF EntriesLessExpenses
<1>4. \A i \in D : PaidBefore(c, i) = PaidBefore(b, i)
  <2> SUFFICES ASSUME NEW i \in D PROVE PaidBefore(c, i) = PaidBefore(b, i)
    OBVIOUS
  <2> DEFINE E == {j \in PaymentsOf(b, b.movements[i].link) :
                     \/ b.movements[j].day < b.movements[i].day
                     \/ b.movements[j].day = b.movements[i].day /\ j < i}
  <2>1. E \in SUBSET D
    BY DEF PaymentsOf
  <2>2. PaidBefore(b, i) = CentsOf(b, E)
    BY DEF PaidBefore
  <2>3. PaidBefore(c, i) = CentsOf(c, E)
    BY <1>2 DEF PaidBefore
  <2> HIDE DEF E
  <2> QED BY <1>1, <2>1, <2>2, <2>3
<1>5. \A i \in D : Covered(c, i) = Covered(b, i)
  BY <1>4 DEF Covered
<1>6. CoveredBy(c, D) = CoveredBy(b, D)
  <2> DEFINE f == [i \in D |-> -Signed(b.movements[i].kind, Covered(b, i))]
  <2>1. \A i \in D : f[i] = (-Signed(b.movements[i].kind, Covered(b, i)))
    OBVIOUS
  <2>2. \A i \in D : f[i] = (-Signed(c.movements[i].kind, Covered(c, i)))
    BY <1>5
  <2> HIDE DEF f, D
  <2>3. CoveredBy(b, D) = SumOf(f, D)
    BY ONLY <2>1, CoveredAdd
  <2>4. CoveredBy(c, D) = SumOf(f, D)
    BY ONLY <2>2, CoveredAdd
  <2> QED BY <2>3, <2>4
<1>7. UnusedPlans(c) = UnusedPlans(b)
  <2> DEFINE R == ReconciledPlans(b)
             f == [o \in R |-> Unused(b, o)]
  <2>1. \A o \in R : f[o] = Unused(b, o)
    OBVIOUS
  <2>2. \A o \in R : f[o] = Unused(c, o)
    <3> SUFFICES ASSUME NEW o \in R PROVE Unused(c, o) = Unused(b, o)
      OBVIOUS
    <3>1. PaymentsOf(b, o) \in SUBSET D
      BY DEF PaymentsOf
    <3>2. CentsOf(c, PaymentsOf(c, o)) = CentsOf(b, PaymentsOf(b, o))
      BY <1>1, <1>2, <3>1
    <3> QED BY <3>2 DEF Unused
  <2> HIDE DEF f
  <2>3. UnusedPlans(b) = SumOf(f, R)
    BY <2>1, UnusedAdd
  <2>4. \A o \in ReconciledPlans(c) : f[o] = Unused(c, o)
    BY <1>2, <2>2
  <2>5. UnusedPlans(c) = SumOf(f, ReconciledPlans(c))
    BY <2>4, UnusedAdd
  <2> QED BY <1>2, <2>3, <2>5
<1>8. Adjustment(c) = Adjustment(b)
  BY <1>6, <1>7 DEF Adjustment
<1>9. EntriesLessExpenses(c, D) = EntriesLessExpenses(b, D)
  BY <1>3
<1> DEFINE flow == EntriesLessExpenses(b, D)
<1>10. Balance(b) = (b.income - b.expense) + b.carry + flow + Adjustment(b)
  BY DEF Balance, Base
<1>11. Balance(c) = (b.income - b.expense) + c.carry + flow + Adjustment(b)
  BY <1>8, <1>9 DEF Balance, Base
<1>12. b.income \in Int /\ b.expense \in Int /\ b.carry \in Int /\ c.carry \in Int
  BY DEF IsBudget
<1>13. flow \in Int /\ Adjustment(b) \in Int
  <2>1. D \subseteq DOMAIN b.movements
    OBVIOUS
  <2>2. D \intersect OfKind(b, "ENTREE") \subseteq DOMAIN b.movements /\ D \intersect OfKind(b, "DEPENSE") \subseteq DOMAIN b.movements
    OBVIOUS
  <2> DEFINE e == CentsOf(b, D \intersect OfKind(b, "ENTREE"))
             p == CentsOf(b, D \intersect OfKind(b, "DEPENSE"))
  <2>3. e \in Int
    BY <2>2, CentsAreIntegers
  <2>4. p \in Int
    BY <2>2, CentsAreIntegers
  <2>5. flow = e - p
    BY DEF EntriesLessExpenses
  <2> HIDE DEF e, p
  <2>6. flow \in Int
    BY <2>3, <2>4, <2>5
  <2>7. Adjustment(b) \in Int
    BY AdjustmentIsInteger
  <2> QED BY <2>6, <2>7
<1> HIDE DEF flow, D
<1> QED BY <1>10, <1>11, <1>12, <1>13

\* A date of the calendar, in its fields.
LEMMA CivilFields ==
  ASSUME NEW d, IsCivil(d)
  PROVE  /\ MonthIndex(d) \in Int /\ d[3] \in 1 .. DaysIn(MonthIndex(d))
         /\ DaysIn(MonthIndex(d)) \in 28 .. 31
<1>1. MonthIndex(d) \in Int
  BY DEF IsCivil
<1>2. PICK day \in 1 .. DaysIn(MonthIndex(d)) : d = Date(MonthIndex(d), day)
  BY DEF IsCivil, DatesIn
<1>3. d[3] = day
  BY <1>2 DEF Date
<1>4. DaysIn(MonthIndex(d)) \in 28 .. 31
  BY <1>1, MonthParts
<1> QED BY <1>1, <1>2, <1>3, <1>4

\* A month of a forecast is a budget with the carry it is given, and it has days left.
LEMMA AheadIsBudget ==
  ASSUME NEW w, IsForecast(w), NEW k \in 0 .. Len(w.budgets) - 1, NEW carry \in Int
  PROVE  LET a == MonthAhead(w, k, carry)
             z == MonthAhead(w, k, 0) IN
         /\ IsBudget(a) /\ a.carry = carry
         /\ a.movements = z.movements /\ a.plans = z.plans /\ a.income = z.income
         /\ a.expense = z.expense /\ a.closed = z.closed /\ a.frozen = z.frozen
         /\ a.month = z.month /\ a.month = w.budgets[k + 1].month
         /\ RemainingDays(a) \in Nat \ {0}
<1>1. PICK n \in 1 .. Len(w.budgets) : n = k + 1
  BY DEF IsForecast
<1>2. PICK b : b = w.budgets[n]
  OBVIOUS
<1>3. IsBudget(b) /\ DOMAIN b = BudgetFields /\ b.month = MonthIndex(w.budgets[1].today) + n - 1
  BY <1>2 DEF IsForecast
<1> DEFINE c(x) == [b EXCEPT !.carry = x]
<1>4. \A x \in Int : /\ IsBudget(c(x)) /\ c(x).carry = x /\ DOMAIN c(x) = BudgetFields
                     /\ c(x).movements = b.movements /\ c(x).plans = b.plans /\ c(x).income = b.income
                     /\ c(x).expense = b.expense /\ c(x).closed = b.closed /\ c(x).frozen = b.frozen
                     /\ c(x).month = b.month /\ c(x).today = b.today
  <2> SUFFICES ASSUME NEW x \in Int
               PROVE /\ IsBudget(c(x)) /\ c(x).carry = x /\ DOMAIN c(x) = BudgetFields
                     /\ c(x).movements = b.movements /\ c(x).plans = b.plans /\ c(x).income = b.income
                     /\ c(x).expense = b.expense /\ c(x).closed = b.closed /\ c(x).frozen = b.frozen
                     /\ c(x).month = b.month /\ c(x).today = b.today
    OBVIOUS
  <2>1. /\ c(x).carry = x /\ DOMAIN c(x) = BudgetFields
        /\ c(x).movements = b.movements /\ c(x).plans = b.plans /\ c(x).income = b.income
        /\ c(x).expense = b.expense /\ c(x).closed = b.closed /\ c(x).frozen = b.frozen
        /\ c(x).month = b.month /\ c(x).today = b.today
    BY <1>3 DEF BudgetFields
  <2> HIDE DEF c
  <2>2. IsBudget(c(x))
    BY <1>3, <2>1 DEF IsBudget
  <2> QED BY <2>1, <2>2
<1> DEFINE m(x) == [c(x) EXCEPT !.today = First(c(x).month), !.movements = LinkedPayments(c(x))]
<1>5. k = 0 => \A x \in Int : MonthAhead(w, k, x) = c(x)
  BY <1>1, <1>2 DEF MonthAhead
<1>6. k # 0 => \A x \in Int : MonthAhead(w, k, x) = m(x)
  BY <1>1, <1>2 DEF MonthAhead
<1>7. \A x \in Int : LinkedPayments(c(x)) = LinkedPayments(b)
  <2> SUFFICES ASSUME NEW x \in Int PROVE LinkedPayments(c(x)) = LinkedPayments(b)
    OBVIOUS
  <2>1. PICK y : y = c(x)
    OBVIOUS
  <2>2. y.movements = b.movements
    BY <1>4, <2>1
  <2>3. PaymentsOf(y, Unlinked) = PaymentsOf(b, Unlinked)
    BY <2>2 DEF PaymentsOf
  <2>4. LinkedPayments(y) = LinkedPayments(b)
    BY <2>2, <2>3 DEF LinkedPayments
  <2> QED BY <2>1, <2>4
<1> HIDE DEF c
<1>8. \A x \in Int : /\ m(x).carry = x /\ m(x).movements = LinkedPayments(b)
                     /\ m(x).plans = b.plans /\ m(x).income = b.income
                     /\ m(x).expense = b.expense /\ m(x).closed = b.closed /\ m(x).frozen = b.frozen
                     /\ m(x).month = b.month /\ m(x).today = First(b.month)
  BY <1>4, <1>7 DEF BudgetFields
<1> HIDE DEF m
<1>9. \A x \in Int : IsBudget(m(x))
  <2> SUFFICES ASSUME NEW x \in Int PROVE IsBudget(m(x))
    OBVIOUS
  <2>1. PICK L : L = LinkedPayments(b)
    OBVIOUS
  <2>2. DOMAIN L = DOMAIN b.movements \ PaymentsOf(b, Unlinked) /\ \A i \in DOMAIN L : L[i] = b.movements[i]
    BY <2>1 DEF LinkedPayments
  <2>3. IsFiniteSet(DOMAIN L) /\ DOMAIN L \subseteq Nat /\ DOMAIN L \subseteq DOMAIN b.movements
    <3>1. DOMAIN L \subseteq DOMAIN b.movements /\ IsFiniteSet(DOMAIN b.movements) /\ DOMAIN b.movements \subseteq Nat
      BY <1>3, <2>2 DEF IsBudget
    <3> QED BY <3>1, FS_Subset
  <2> QED BY <1>3, <1>8, <2>1, <2>2, <2>3 DEF IsBudget
<1>10. b.month \in Int /\ DaysIn(b.month) \in 28 .. 31
  BY <1>3, MonthParts DEF IsBudget
<1>11. CASE k = 0
  <2>1. b.today = w.budgets[1].today /\ b.month = MonthIndex(b.today) /\ IsCivil(b.today)
    <3>1. n = 1
      BY <1>1, <1>11
    <3>2. IsCivil(b.today) /\ b.today = w.budgets[1].today
      BY <1>2, <3>1 DEF IsForecast
    <3>3. MonthIndex(b.today) \in Int
      BY <3>2, CivilFields
    <3> QED BY <1>3, <3>1, <3>2, <3>3
  <2>2. PICK d \in Int : d = b.today[3] /\ d \in 1 .. DaysIn(b.month)
    BY <2>1, CivilFields
  <2>3. RemainingDays(c(carry)) = DaysIn(b.month) - d + 1
    BY <1>4, <2>1, <2>2 DEF RemainingDays
  <2>4. RemainingDays(c(carry)) \in Nat \ {0}
    BY <1>10, <2>2, <2>3
  <2> QED BY <1>2, <1>1, <1>4, <1>5, <1>11, <2>4
<1>12. CASE k # 0
  <2>1. MonthIndex(First(b.month)) = b.month /\ First(b.month)[3] = 1
    <3>1. First(b.month) \in DatesIn(b.month)
      BY <1>10 DEF First, DatesIn
    <3>2. First(b.month)[3] = 1
      BY DEF First, Date
    <3> QED BY <1>10, <3>1, <3>2, DateFields
  <2>2. RemainingDays(m(carry)) = DaysIn(b.month) - 1 + 1
    BY <1>8, <2>1 DEF RemainingDays
  <2>3. RemainingDays(m(carry)) \in Nat \ {0}
    BY <1>10, <2>2
  <2> QED BY <1>2, <1>1, <1>8, <1>9, <1>6, <1>12, <2>3
<1> QED BY <1>11, <1>12

\* What month k adds to what it is given.
MonthFlow(w, k) == ForecastBalance(MonthAhead(w, k, 0), w.planned[k + 1], 0)

\* A forecast is linear in what the month starts from.
LEMMA ForecastOfMonth ==
  ASSUME NEW w, IsForecast(w), NEW k \in 0 .. Len(w.budgets) - 1, NEW carry \in Int, NEW savings \in Int
  PROVE  /\ MonthFlow(w, k) \in Int
         /\ ForecastBalance(MonthAhead(w, k, carry), w.planned[k + 1], savings)
              = carry + MonthFlow(w, k) - savings
<1>1. PICK a, z : a = MonthAhead(w, k, carry) /\ z = MonthAhead(w, k, 0)
  OBVIOUS
<1>2. /\ IsBudget(a) /\ a.carry = carry
      /\ a.movements = z.movements /\ a.plans = z.plans /\ a.income = z.income
      /\ a.expense = z.expense /\ a.closed = z.closed /\ a.frozen = z.frozen /\ a.month = z.month
  BY <1>1, AheadIsBudget
<1>3. IsBudget(z) /\ z.carry = 0
  <2>1. 0 \in Int
    OBVIOUS
  <2>2. IsBudget(MonthAhead(w, k, 0)) /\ MonthAhead(w, k, 0).carry = 0
    BY <2>1, AheadIsBudget
  <2> QED BY <1>1, <2>2
<1>4. Balance(a) - a.carry = Balance(z) - z.carry
  BY <1>2, <1>3, SameFlow
<1>5. Balance(a) \in Int /\ Balance(z) \in Int
  BY <1>2, <1>3, MonthViews
<1>6. PICK p : p = w.planned[k + 1]
  OBVIOUS
<1>7. PlannedEffect(p, 1 .. DaysIn(a.month)) \in Int
  <2>1. k + 1 \in 1 .. Len(w.budgets)
    BY DEF IsForecast
  <2>2. p \in Seq([day: Int, kind: {"DEPENSE", "ENTREE"}, cents: Int])
    BY <1>6, <2>1 DEF IsForecast
  <2> QED BY <2>2, PlannedIsInteger
<1>8. PICK e \in Int : e = PlannedEffect(p, 1 .. DaysIn(a.month))
  BY <1>7
<1>9. ForecastBalance(a, p, savings) = Balance(a) + e - savings /\ ForecastBalance(z, p, 0) = Balance(z) + e - 0
  BY <1>2, <1>8 DEF ForecastBalance
<1>10. MonthFlow(w, k) = Balance(z) + e
  BY <1>1, <1>5, <1>6, <1>9 DEF MonthFlow
<1> QED BY <1>1, <1>2, <1>3, <1>4, <1>5, <1>6, <1>9, <1>10

\* What a forecast leaves at the end of the first n months.
Carried(g, w, n) ==
  g = [k \in 0 .. n |->
         ForecastBalance(MonthAhead(w, k, IF k = 0 THEN w.budgets[1].carry ELSE g[k - 1]),
                         w.planned[k + 1], w.savings)]

\* The months of a projection, built one by one.
LEMMA CarriedExists ==
  ASSUME NEW w, NEW n \in Nat
  PROVE  \E g : Carried(g, w, n)
<1> DEFINE S == {k \in Nat : \E g : Carried(g, w, k)}
           F(k, c) == ForecastBalance(MonthAhead(w, k, c), w.planned[k + 1], w.savings)
<1>0. \A g, m : Carried(g, w, m)
        <=> g = [k \in 0 .. m |-> F(k, IF k = 0 THEN w.budgets[1].carry ELSE g[k - 1])]
  BY Zenon DEF Carried
<1> HIDE DEF F
<1>1. 0 \in S
  <2> DEFINE g == [k \in 0 .. 0 |-> F(0, w.budgets[1].carry)]
  <2>1. g = [k \in 0 .. 0 |-> F(k, IF k = 0 THEN w.budgets[1].carry ELSE g[k - 1])]
    OBVIOUS
  <2> HIDE DEF g
  <2> QED BY <1>0, <2>1
<1>2. ASSUME NEW k \in S PROVE k + 1 \in S
  <2>1. PICK g : Carried(g, w, k)
    BY <1>2
  <2> DEFINE h == [i \in 0 .. k + 1 |-> IF i = k + 1 THEN F(k + 1, g[k]) ELSE g[i]]
  <2>2. \A i \in 0 .. k : g[i] = F(i, IF i = 0 THEN w.budgets[1].carry ELSE g[i - 1])
    BY <1>0, <2>1
  <2>3. \A i \in 0 .. k + 1 : h[i] = F(i, IF i = 0 THEN w.budgets[1].carry ELSE h[i - 1])
    <3> SUFFICES ASSUME NEW i \in 0 .. k + 1
                 PROVE  h[i] = F(i, IF i = 0 THEN w.budgets[1].carry ELSE h[i - 1])
      OBVIOUS
    <3>1. k \in Nat
      OBVIOUS
    <3>2. CASE i = k + 1
      <4>1. i # 0 /\ i - 1 = k /\ k \in 0 .. k + 1 /\ k # k + 1
        BY <3>1, <3>2
      <4>2. h[i - 1] = g[k] /\ h[i] = F(k + 1, g[k])
        BY <3>2, <4>1
      <4> QED BY <3>2, <4>1, <4>2
    <3>3. CASE i # k + 1
      <4>1. i \in 0 .. k
        BY <3>1, <3>3
      <4>2. h[i] = g[i]
        BY <3>3
      <4>3. i # 0 => h[i - 1] = g[i - 1]
        BY <3>1, <4>1
      <4>4. (IF i = 0 THEN w.budgets[1].carry ELSE h[i - 1]) = (IF i = 0 THEN w.budgets[1].carry ELSE g[i - 1])
        BY <4>3
      <4> HIDE DEF h
      <4> QED BY <2>2, <4>1, <4>2, <4>4
    <3> QED BY <3>2, <3>3
  <2>4. h = [i \in 0 .. k + 1 |-> F(i, IF i = 0 THEN w.budgets[1].carry ELSE h[i - 1])]
    <3>1. h = [i \in 0 .. k + 1 |-> h[i]]
      OBVIOUS
    <3> HIDE DEF h
    <3> QED BY <2>3, <3>1
  <2> HIDE DEF h
  <2>5. Carried(h, w, k + 1)
    BY <1>0, <2>4
  <2> QED BY <2>5
<1> HIDE DEF S
<1>3. n \in S
  BY <1>1, <1>2, SetInduction
<1> QED BY <1>3 DEF S

\* Every month starts from what the one before it leaves.
LEMMA ProjectionSteps ==
  ASSUME NEW w, IsForecast(w)
  PROVE  LET p == Projection(w) IN
         /\ \A k \in 0 .. Len(w.budgets) - 1 : p[k] \in Int /\ MonthFlow(w, k) \in Int
         /\ p[0] = w.budgets[1].carry + MonthFlow(w, 0) - w.savings
         /\ \A k \in 1 .. Len(w.budgets) - 1 : p[k] = p[k - 1] + MonthFlow(w, k) - w.savings
<1> DEFINE F(k, c) == ForecastBalance(MonthAhead(w, k, c), w.planned[k + 1], w.savings)
<1>1. PICK n \in Nat : n = Len(w.budgets) - 1
  <2>1. Len(w.budgets) \in Nat \ {0}
    BY DEF IsForecast
  <2>2. PICK l : l = Len(w.budgets)
    OBVIOUS
  <2>3. l - 1 \in Nat
    BY <2>1, <2>2
  <2> QED BY <2>2, <2>3
<1>2. PICK p : p = Projection(w)
  OBVIOUS
<1>3. Carried(p, w, n)
  <2>1. p = [k \in 0 .. n |-> (CHOOSE g : Carried(g, w, n))[k]] \/ p = CHOOSE g : Carried(g, w, n)
    BY <1>1, <1>2 DEF Projection, Carried
  <2>2. PICK g : g = CHOOSE a : Carried(a, w, n)
    OBVIOUS
  <2>3. Carried(g, w, n)
    BY <2>2, CarriedExists
  <2>4. g = [k \in 0 .. n |-> g[k]]
    BY <2>3 DEF Carried
  <2> QED BY <2>1, <2>2, <2>3, <2>4
<1>4. \A k \in 0 .. n : p[k] = F(k, IF k = 0 THEN w.budgets[1].carry ELSE p[k - 1])
  BY <1>3, Zenon DEF Carried
<1>5. w.savings \in Int /\ w.budgets[1].carry \in Int
  <2>1. IsBudget(w.budgets[1])
    BY DEF IsForecast
  <2> QED BY <2>1 DEF IsForecast, IsBudget
<1>6. \A k \in 0 .. n, c \in Int : F(k, c) = c + MonthFlow(w, k) - w.savings /\ MonthFlow(w, k) \in Int
  BY <1>1, <1>5, ForecastOfMonth
<1> HIDE DEF F
<1>7. p[0] = w.budgets[1].carry + MonthFlow(w, 0) - w.savings /\ p[0] \in Int
  <2>1. 0 \in 0 .. n
    BY <1>1
  <2>2. p[0] = F(0, w.budgets[1].carry)
    BY <1>4, <2>1
  <2>3. p[0] = w.budgets[1].carry + MonthFlow(w, 0) - w.savings /\ MonthFlow(w, 0) \in Int
    BY <1>5, <1>6, <2>1, <2>2
  <2> QED BY <1>5, <2>3
<1>8. \A k \in 0 .. n : p[k] \in Int
  <2> DEFINE S == {k \in Nat : k <= n => p[k] \in Int}
  <2>1. 0 \in S
    BY <1>7
  <2>2. ASSUME NEW k \in S PROVE k + 1 \in S
    <3> SUFFICES ASSUME k + 1 <= n PROVE p[k + 1] \in Int
      OBVIOUS
    <3>1. k + 1 \in 0 .. n /\ k + 1 # 0 /\ k + 1 - 1 = k
      BY <1>1
    <3>2. p[k] \in Int
      BY <2>2, <1>1
    <3>3. p[k + 1] = F(k + 1, p[k])
      BY <1>4, <3>1
    <3> QED BY <1>5, <1>6, <3>1, <3>2, <3>3
  <2> HIDE DEF S
  <2>3. Nat \subseteq S
    BY <2>1, <2>2, SetInduction
  <2> QED BY <1>1, <2>3 DEF S
<1>9. \A k \in 1 .. n : p[k] = p[k - 1] + MonthFlow(w, k) - w.savings
  <2> SUFFICES ASSUME NEW k \in 1 .. n PROVE p[k] = p[k - 1] + MonthFlow(w, k) - w.savings
    OBVIOUS
  <2>1. k \in 0 .. n /\ k # 0 /\ k - 1 \in 0 .. n
    BY <1>1
  <2>2. p[k] = F(k, p[k - 1])
    BY <1>4, <2>1
  <2> QED BY <1>6, <1>8, <2>1, <2>2
<1> QED BY <1>1, <1>2, <1>6, <1>7, <1>8, <1>9

\* Without reservations a forecast has its own k + 1 reservations more.
LEMMA ReservationsUndone ==
  ASSUME NEW w, IsForecast(w), "savings" \in DOMAIN w
  PROVE  \A k \in 0 .. Len(w.budgets) - 1 :
           Projection([w EXCEPT !.savings = 0])[k] = Projection(w)[k] + w.savings * (k + 1)
<1>1. PICK z : z = [w EXCEPT !.savings = 0]
  OBVIOUS
<1>2. z.savings = 0 /\ z.budgets = w.budgets /\ z.planned = w.planned /\ z.offset = w.offset
  BY <1>1
<1>3. IsForecast(z)
  BY <1>2 DEF IsForecast
<1>4. \A k : MonthFlow(z, k) = MonthFlow(w, k)
  BY <1>2 DEF MonthFlow, MonthAhead
<1>5. PICK n \in Nat : n = Len(w.budgets) - 1
  <2>1. Len(w.budgets) \in Nat \ {0}
    BY DEF IsForecast
  <2>2. PICK l : l = Len(w.budgets)
    OBVIOUS
  <2>3. l - 1 \in Nat
    BY <2>1, <2>2
  <2> QED BY <2>2, <2>3
<1>6. PICK s \in Int : s = w.savings
  BY DEF IsForecast
<1>7. PICK p, q : p = Projection(w) /\ q = Projection(z)
  OBVIOUS
<1>8. /\ \A k \in 0 .. n : p[k] \in Int /\ MonthFlow(w, k) \in Int
      /\ p[0] = w.budgets[1].carry + MonthFlow(w, 0) - s
      /\ \A k \in 1 .. n : p[k] = p[k - 1] + MonthFlow(w, k) - s
  BY <1>5, <1>6, <1>7, ProjectionSteps
<1>9. /\ \A k \in 0 .. n : q[k] \in Int
      /\ q[0] = w.budgets[1].carry + MonthFlow(w, 0) - 0
      /\ \A k \in 1 .. n : q[k] = q[k - 1] + MonthFlow(w, k) - 0
  BY <1>2, <1>3, <1>4, <1>5, <1>7, ProjectionSteps
<1>10. w.budgets[1].carry \in Int
  <2>1. IsBudget(w.budgets[1])
    BY DEF IsForecast
  <2> QED BY <2>1 DEF IsBudget
<1> DEFINE S == {k \in Nat : k <= n => q[k] = p[k] + s * (k + 1)}
<1>11. 0 \in S
  BY <1>8, <1>9, <1>10
<1>12. ASSUME NEW k \in S PROVE k + 1 \in S
  <2> SUFFICES ASSUME k + 1 <= n PROVE q[k + 1] = p[k + 1] + s * (k + 1 + 1)
    OBVIOUS
  <2>1. k + 1 \in 1 .. n /\ k + 1 - 1 = k /\ k \in 0 .. n /\ k + 1 \in 0 .. n
    OBVIOUS
  <2>2. PICK f \in Int : f = MonthFlow(w, k + 1)
    BY <1>8, <2>1
  <2>3. PICK x \in Int : x = s * (k + 1)
    OBVIOUS
  <2>4. s * (k + 1 + 1) = x + s
    BY <2>3
  <2>5. q[k] = p[k] + x /\ p[k] \in Int
    BY <1>8, <1>12, <2>1, <2>3
  <2>6. p[k + 1] = p[k] + f - s /\ q[k + 1] = q[k] + f - 0
    BY <1>8, <1>9, <2>1, <2>2
  <2> QED BY <2>4, <2>5, <2>6
<1> HIDE DEF S
<1>13. Nat \subseteq S
  BY <1>11, <1>12, SetInduction
<1> QED BY <1>1, <1>5, <1>6, <1>7, <1>13 DEF S

Paying(goals) == {i \in DOMAIN goals : goals[i].contribution > 0 /\ Active(goals[i])}

\* The sums of the goals: what the forecast reserves,
LEMMA SavingsAdd ==
  ASSUME NEW goals, NEW f, \A i \in Paying(goals) : f[i] = goals[i].contribution
  PROVE  GoalSavings(goals) = SumOf(f, Paying(goals))
<1>0. PICK R : R = Paying(goals)
  OBVIOUS
<1> DEFINE Own(g) == g = [s \in SUBSET R |-> IF s = {} THEN 0
                            ELSE goals[Pick(s)].contribution + g[s \ {Pick(s)}]]
<1>1. \A g : Adding(g, f, R) <=> Own(g)
  <2>1. \A s \in SUBSET R : s # {} => f[Pick(s)] = goals[Pick(s)].contribution
    BY <1>0, PickedElement
  <2> QED BY <2>1, Zenon DEF Adding, Added
<1>2. GoalSavings(goals) = (CHOOSE g : Own(g))[R]
  BY <1>0 DEF GoalSavings, Paying, Sum, MapThenSumSet, MapThenFoldSet, Pick
<1> HIDE DEF Own
<1>3. (CHOOSE g : Adding(g, f, R)) = (CHOOSE g : Own(g))
  BY <1>1, Zenon
<1> QED BY <1>0, <1>2, <1>3, SumChoice

\* the planned contributions,
LEMMA ContributionsAdd ==
  ASSUME NEW goals, NEW f, \A i \in Included(goals) : f[i] = goals[i].contribution
  PROVE  TotalPlanned(goals) = SumOf(f, Included(goals))
<1>0. PICK R : R = Included(goals)
  OBVIOUS
<1> DEFINE Own(g) == g = [s \in SUBSET R |-> IF s = {} THEN 0
                            ELSE goals[Pick(s)].contribution + g[s \ {Pick(s)}]]
<1>1. \A g : Adding(g, f, R) <=> Own(g)
  <2>1. \A s \in SUBSET R : s # {} => f[Pick(s)] = goals[Pick(s)].contribution
    BY <1>0, PickedElement
  <2> QED BY <2>1, Zenon DEF Adding, Added
<1>2. TotalPlanned(goals) = (CHOOSE g : Own(g))[R]
  BY <1>0 DEF TotalPlanned, Sum, MapThenSumSet, MapThenFoldSet, Pick
<1> HIDE DEF Own
<1>3. (CHOOSE g : Adding(g, f, R)) = (CHOOSE g : Own(g))
  BY <1>1, Zenon
<1> QED BY <1>0, <1>2, <1>3, SumChoice

\* and what the trajectory commits.
LEMMA CommittedAdd ==
  ASSUME NEW goals, NEW f, \A i \in DOMAIN goals : f[i] = Committed(goals[i])
  PROVE  TotalCommitted(goals) = SumOf(f, DOMAIN goals)
<1>0. PICK R : R = DOMAIN goals
  OBVIOUS
<1> DEFINE Own(g) == g = [s \in SUBSET R |-> IF s = {} THEN 0
                            ELSE Committed(goals[Pick(s)]) + g[s \ {Pick(s)}]]
<1>1. \A g : Adding(g, f, R) <=> Own(g)
  <2>1. \A s \in SUBSET R : s # {} => f[Pick(s)] = Committed(goals[Pick(s)])
    BY <1>0, PickedElement
  <2> QED BY <2>1, Zenon DEF Adding, Added
<1>2. TotalCommitted(goals) = (CHOOSE g : Own(g))[R]
  BY <1>0 DEF TotalCommitted, Sum, MapThenSumSet, MapThenFoldSet, Pick
<1> HIDE DEF Own
<1>3. (CHOOSE g : Adding(g, f, R)) = (CHOOSE g : Own(g))
  BY <1>1, Zenon
<1> QED BY <1>0, <1>2, <1>3, SumChoice

\* The forecast, the capacity and the trajectories reserve the same amount.
LEMMA SameReservations ==
  ASSUME NEW goals, IsFiniteSet(DOMAIN goals), \A i \in DOMAIN goals : IsGoal(goals[i])
  PROVE  /\ TotalPlanned(goals) = GoalSavings(goals)
         /\ TotalCommitted(goals) = GoalSavings(goals)
<1> DEFINE D == DOMAIN goals
           P == Paying(goals)
           f == [i \in D |-> Committed(goals[i])]
<1>1. P \subseteq D /\ Included(goals) = P /\ IsFiniteSet(P) /\ IsFiniteSet(D \ P)
  <2>1. P \subseteq D /\ Included(goals) = P
    BY DEF Paying, Included
  <2> QED BY <2>1, FS_Subset
<1>2. \A i \in P : f[i] = goals[i].contribution
  BY DEF Paying, Committed
<1>3. \A i \in D : f[i] = Committed(goals[i]) /\ f[i] \in Int
  BY DEF IsGoal, Committed
<1>4. \A i \in D \ P : f[i] = 0
  BY DEF Paying, Committed, IsGoal
<1> HIDE DEF f
<1>5. GoalSavings(goals) = SumOf(f, P)
  BY <1>2, SavingsAdd
<1>6. TotalPlanned(goals) = SumOf(f, P)
  <2>1. \A i \in Included(goals) : f[i] = goals[i].contribution
    BY <1>1, <1>2
  <2>2. TotalPlanned(goals) = SumOf(f, Included(goals))
    BY ONLY <2>1, ContributionsAdd
  <2> QED BY <1>1, <2>2
<1>7. TotalCommitted(goals) = SumOf(f, D)
  BY <1>3, CommittedAdd
<1>8. SumOf(f, P \cup (D \ P)) = SumOf(f, P) + SumOf(f, D \ P)
  BY <1>1, <1>3, SumOfParts
<1>9. SumOf(f, D \ P) = 0
  BY <1>1, <1>4, SumOfZeros
<1>10. SumOf(f, P) \in Int
  BY <1>1, <1>3, SumIsInteger
<1>11. P \cup (D \ P) = D
  BY <1>1
<1>12. SumOf(f, D) = SumOf(f, P) + SumOf(f, D \ P)
  BY <1>8, <1>11
<1>13. PICK x \in Int : x = SumOf(f, P)
  BY <1>10
<1>14. SumOf(f, D) = x
  BY <1>9, <1>12, <1>13
<1> QED BY <1>5, <1>6, <1>7, <1>13, <1>14

\* Seven rounded days are not a week: the whole cents of a day and the share of the rest are.
LEMMA ShareOfWeek ==
  ASSUME NEW r \in Int, NEW n \in Nat \ {0}
  PROVE  WeeklyAllowance(r, n) = RoundedShare(r * AtMost(7, n), n)
<1>1. PICK week \in Nat : week = AtMost(7, n)
  BY DEF AtMost
<1>2. PICK q \in Int : q = Truncated(r, n)
  <2>1. r \div n \in Int /\ (-r) \div n \in Int
    BY Division
  <2> QED BY <2>1 DEF Truncated
<1>3. PICK rest \in Int : rest = (r - q * n) * week
  OBVIOUS
<1>4. PICK t \in Int : t = q * week
  OBVIOUS
<1>5. r * week = rest + t * n
  <2>1. PICK u \in Int : u = q * n
    OBVIOUS
  <2>2. rest = r * week - u * week
    BY <1>3, <2>1
  <2>3. u * week = t * n
    BY <1>4, <2>1
  <2> QED BY <2>2, <2>3
<1>6. PICK m \in Nat : m = 2 * n /\ m > 0
  OBVIOUS
<1>7. PICK x \in Int : x = 2 * rest + n
  OBVIOUS
<1>8. PICK z \in Int : z = x \div m /\ m * z <= x /\ x < m * z + m
  BY <1>6, Division
<1>9. (x + m * t) \div m = z + t
  <2>1. m * (z + t) = m * z + m * t
    OBVIOUS
  <2>2. PICK a, b \in Int : a = m * z /\ b = m * t
    OBVIOUS
  <2>3. m * (z + t) <= x + m * t /\ x + m * t < m * (z + t) + m
    BY <1>8, <2>1, <2>2
  <2>4. x + m * t \in Int /\ z + t \in Int
    OBVIOUS
  <2> QED BY <1>6, <2>3, <2>4, Quotient
<1>10. 2 * (r * week) + n = x + m * t
  BY <1>5, <1>6, <1>7
<1>11. RoundedShare(r * week, n) = z + t
  BY <1>6, <1>9, <1>10 DEF RoundedShare
<1>12. WeeklyAllowance(r, n) = t + RoundedShare(rest, n)
  BY <1>1, <1>2, <1>3, <1>4 DEF WeeklyAllowance
<1>13. RoundedShare(rest, n) = z
  BY <1>6, <1>7, <1>8 DEF RoundedShare
<1> QED BY <1>1, <1>11, <1>12, <1>13

\* The states of a trajectory over the first n months.
Course(g, w, mode, n) ==
  g = [k \in 0 .. n |-> IF k = 0 THEN CurrentState(w, mode) ELSE NextState(w, mode, g[k - 1], k)]

\* The months of a trajectory, built one by one,
LEMMA CourseExists ==
  ASSUME NEW w, NEW mode, NEW n \in Nat
  PROVE  \E g : Course(g, w, mode, n)
<1> DEFINE S == {k \in Nat : \E g : Course(g, w, mode, k)}
<1>1. 0 \in S
  <2> DEFINE g == [i \in 0 .. 0 |-> CurrentState(w, mode)]
  <2>1. g = [k \in 0 .. 0 |-> IF k = 0 THEN CurrentState(w, mode) ELSE NextState(w, mode, g[k - 1], k)]
    OBVIOUS
  <2> HIDE DEF g
  <2>2. Course(g, w, mode, 0)
    BY <2>1, Zenon DEF Course
  <2> QED BY <2>2
<1>2. ASSUME NEW k \in S PROVE k + 1 \in S
  <2>1. PICK g : Course(g, w, mode, k)
    BY <1>2
  <2> DEFINE h == [i \in 0 .. k + 1 |-> IF i = k + 1 THEN NextState(w, mode, g[k], k + 1) ELSE g[i]]
  <2>2. \A i \in 0 .. k : g[i] = IF i = 0 THEN CurrentState(w, mode) ELSE NextState(w, mode, g[i - 1], i)
    BY <2>1, Zenon DEF Course
  <2>3. \A i \in 0 .. k + 1 : h[i] = IF i = 0 THEN CurrentState(w, mode) ELSE NextState(w, mode, h[i - 1], i)
    <3> SUFFICES ASSUME NEW i \in 0 .. k + 1
                 PROVE  h[i] = IF i = 0 THEN CurrentState(w, mode) ELSE NextState(w, mode, h[i - 1], i)
      OBVIOUS
    <3>1. CASE i = k + 1
      <4>1. i # 0 /\ i - 1 = k /\ k \in 0 .. k + 1 /\ k # k + 1
        BY <3>1
      <4>2. h[i - 1] = g[k] /\ h[i] = NextState(w, mode, g[k], k + 1)
        BY <3>1, <4>1
      <4> QED BY <3>1, <4>1, <4>2
    <3>2. CASE i # k + 1
      <4>1. i \in 0 .. k
        BY <3>2
      <4>2. h[i] = g[i]
        BY <3>2
      <4>3. i # 0 => h[i - 1] = g[i - 1]
        BY <4>1
      <4> HIDE DEF h
      <4> QED BY <2>2, <4>1, <4>2, <4>3
    <3> QED BY <3>1, <3>2
  <2>4. h = [i \in 0 .. k + 1 |-> h[i]]
    OBVIOUS
  <2> HIDE DEF h
  <2>5. Course(h, w, mode, k + 1)
    BY <2>3, <2>4, Zenon DEF Course
  <2> QED BY <2>5
<1> HIDE DEF S
<1>3. n \in S
  BY <1>1, <1>2, SetInduction
<1> QED BY <1>3 DEF S

\* are those of the model.
LEMMA TrajectorySteps ==
  ASSUME NEW w, NEW mode, NEW n \in Nat, n = Len(w.budgets) - 1
  PROVE  LET t == Trajectory(w, mode) IN
         /\ t[0] = CurrentState(w, mode)
         /\ \A k \in 1 .. n : t[k] = NextState(w, mode, t[k - 1], k)
         /\ DOMAIN t = 0 .. n
<1>1. PICK t : t = Trajectory(w, mode)
  OBVIOUS
<1>2. t = CHOOSE g : Course(g, w, mode, n)
  BY <1>1 DEF Trajectory, Course
<1>3. Course(t, w, mode, n)
  BY <1>2, CourseExists
<1>4. /\ \A k \in 0 .. n : t[k] = IF k = 0 THEN CurrentState(w, mode) ELSE NextState(w, mode, t[k - 1], k)
      /\ DOMAIN t = 0 .. n
  <2>1. DOMAIN t = 0 .. n
    <3>1. PICK A : A = [k \in 0 .. n |-> IF k = 0 THEN CurrentState(w, mode) ELSE NextState(w, mode, t[k - 1], k)]
      OBVIOUS
    <3>2. DOMAIN A = 0 .. n
      BY <3>1, Zenon
    <3>3. t = A
      BY <1>3, <3>1, Zenon DEF Course
    <3> QED BY <3>2, <3>3
  <2>2. \A k \in 0 .. n : t[k] = IF k = 0 THEN CurrentState(w, mode) ELSE NextState(w, mode, t[k - 1], k)
    BY <1>3, Zenon DEF Course
  <2> QED BY <2>1, <2>2
<1>5. 0 \in 0 .. n /\ \A k \in 1 .. n : k \in 0 .. n /\ k # 0
  OBVIOUS
<1> QED BY <1>1, <1>4, <1>5

Paid(w, mode, s, k) == s.balance + KnownFlow(w, k) - Assumed(w, mode).future - TotalCommitted(w.goals)
SafeNow(w, mode, s) == s.safe + Assumed(w, mode).margin
MissingNow(w, s) ==
  LET chosen == w.goals[w.selected]
  IN AtLeast(0, AtLeast(0, chosen.target - s.saved[w.selected]) - Committed(chosen))
Extra(w, mode, s, k) ==
  IF mode = "planned" THEN 0
  ELSE Supplement(w, Paid(w, mode, s, k) - SafeNow(w, mode, s), SafeNow(w, mode, s), MissingNow(w, s))
Saves(w, s, i, extra) ==
  s.saved[i] + AtMost(Committed(w.goals[i]) + IF i = w.selected THEN extra ELSE 0,
                      AtLeast(0, w.goals[i].target - s.saved[i]))

\* One more month, field by field.
LEMMA NextFields ==
  ASSUME NEW w, NEW mode, NEW s, NEW k
  PROVE  LET next == NextState(w, mode, s, k) IN
         /\ next.balance = Paid(w, mode, s, k) - Extra(w, mode, s, k)
         /\ next.safe = SafeNow(w, mode, s)
         /\ next.free = Paid(w, mode, s, k) - SafeNow(w, mode, s)
         /\ next.extra = Extra(w, mode, s, k)
<1>1. NextState(w, mode, s, k) = [balance |-> Paid(w, mode, s, k) - Extra(w, mode, s, k), 
   safe |-> SafeNow(w, mode, s), free |-> Paid(w, mode, s, k) - SafeNow(w, mode, s),
   extra |-> Extra(w, mode, s, k), saved |-> [i \in DOMAIN w.goals |-> Saves(w, s, i, Extra(w, mode, s, k))]]
  BY Zenon DEF NextState, Paid, SafeNow, Extra, MissingNow, Saves
<1> QED BY <1>1

\* What each goal has after one more month.
LEMMA NextSaved ==
  ASSUME NEW w, NEW mode, NEW s, NEW k, NEW i \in DOMAIN w.goals
  PROVE  NextState(w, mode, s, k).saved[i] = Saves(w, s, i, Extra(w, mode, s, k))
<1>1. NextState(w, mode, s, k).saved = [j \in DOMAIN w.goals |-> Saves(w, s, j, Extra(w, mode, s, k))]
  BY Zenon DEF NextState, Paid, SafeNow, Extra, MissingNow, Saves
<1> QED BY <1>1, Zenon

\* The trajectory that makes only the planned contributions is the forecast.
LEMMA PlannedIsForecast ==
  ASSUME NEW w, IsWindow(w)
  PROVE  \A k \in 0 .. Len(w.budgets) - 1 : Trajectory(w, "planned")[k].balance = Projection(w)[k]
<1>1. PICK n \in Nat : n = Len(w.budgets) - 1
  <2>1. Len(w.budgets) \in Nat \ {0}
    BY DEF IsWindow, IsForecast
  <2>2. PICK l : l = Len(w.budgets)
    OBVIOUS
  <2>3. l - 1 \in Nat
    BY <2>1, <2>2
  <2> QED BY <2>2, <2>3
<1>2. PICK t, p : t = Trajectory(w, "planned") /\ p = Projection(w)
  OBVIOUS
<1>3. \A k \in 0 .. n : p[k] \in Int
  BY <1>1, <1>2, ProjectionSteps DEF IsWindow
<1>4. w.savings \in Int /\ TotalCommitted(w.goals) = w.savings
  <2>1. TotalCommitted(w.goals) = GoalSavings(w.goals)
    BY SameReservations DEF IsWindow
  <2> QED BY <2>1 DEF IsWindow, IsForecast
<1>5. t[0] = CurrentState(w, "planned") /\ \A k \in 1 .. n : t[k] = NextState(w, "planned", t[k - 1], k)
  BY <1>1, <1>2, TrajectorySteps
<1>6. t[0].balance = p[0]
  <2>1. 0 \in 0 .. n
    OBVIOUS
  <2>2. CurrentState(w, "planned").balance = p[0] - 0
    BY <1>2 DEF CurrentState, Assumed
  <2> QED BY <1>3, <1>5, <2>1, <2>2
<1>7. \A k \in 1 .. n : t[k].balance = (t[k - 1].balance + (p[k] - p[k - 1] + w.savings) - 0 - w.savings) - 0
  <2> SUFFICES ASSUME NEW k \in 1 .. n
               PROVE  t[k].balance = (t[k - 1].balance + (p[k] - p[k - 1] + w.savings) - 0 - w.savings) - 0
    OBVIOUS
  <2>1. KnownFlow(w, k) = p[k] - p[k - 1] + w.savings
    BY <1>2 DEF KnownFlow, ProjectionCarry
  <2>2. PICK s : s = t[k - 1]
    OBVIOUS
  <2>3. NextState(w, "planned", s, k).balance = (s.balance + KnownFlow(w, k) - 0 - TotalCommitted(w.goals)) - 0
    <3>1. Assumed(w, "planned").future = 0
      BY DEF Assumed
    <3>2. NextState(w, "planned", s, k).balance = Paid(w, "planned", s, k) - Extra(w, "planned", s, k)
      BY NextFields
    <3>3. Extra(w, "planned", s, k) = 0
      BY DEF Extra
    <3>4. Paid(w, "planned", s, k) = s.balance + KnownFlow(w, k) - 0 - TotalCommitted(w.goals)
      BY <3>1, Zenon DEF Paid
    <3> QED BY <3>2, <3>3, <3>4, Zenon
  <2> QED BY <1>4, <1>5, <2>1, <2>2, <2>3
<1> DEFINE S == {k \in Nat : k <= n => t[k].balance = p[k]}
<1>8. 0 \in S
  BY <1>6
<1>9. ASSUME NEW k \in S PROVE k + 1 \in S
  <2> SUFFICES ASSUME k + 1 <= n PROVE t[k + 1].balance = p[k + 1]
    OBVIOUS
  <2>1. k + 1 \in 1 .. n /\ k + 1 - 1 = k /\ k \in 0 .. n /\ k + 1 \in 0 .. n /\ k <= n
    OBVIOUS
  <2>2. t[k].balance = p[k] /\ p[k] \in Int /\ p[k + 1] \in Int
    BY <1>3, <1>9, <2>1
  <2>3. t[k + 1].balance = (t[k].balance + (p[k + 1] - p[k] + w.savings) - 0 - w.savings) - 0
    BY <1>7, <2>1
  <2> QED BY <1>4, <2>2, <2>3
<1> HIDE DEF S
<1>10. Nat \subseteq S
  BY <1>8, <1>9, SetInduction
<1> QED BY <1>1, <1>2, <1>10 DEF S

-----------------------------------------------------------------------------
(* The goals of a window.                                                  *)

\* So many parts of d cover a exactly when their sum does.
LEMMA PartsCover ==
  ASSUME NEW a \in Nat, NEW d \in Nat \ {0}, NEW q \in Int
  PROVE  /\ CeilDiv(a, d) \in Nat
         /\ CeilDiv(a, d) <= q <=> a <= d * q
         /\ CeilDiv(a, d) = 0 <=> a = 0
<1>1. PICK x \in Nat : x = a + d - 1
  OBVIOUS
<1>2. PICK c \in Int : c = x \div d /\ d * c <= x /\ x < d * c + d
  BY <1>1, Division
<1>3. CeilDiv(a, d) = c
  BY <1>1, <1>2 DEF CeilDiv
<1>4. c <= q => a <= d * q
  <2>1. c <= q => d * c <= d * q
    OBVIOUS
  <2>2. a <= d * c
    BY <1>1, <1>2
  <2> QED BY <2>1, <2>2
<1>5. a <= d * q => c <= q
  <2> SUFFICES ASSUME a <= d * q, q < c PROVE FALSE
    OBVIOUS
  <2>1. d * (q + 1) <= d * c
    OBVIOUS
  <2>2. d * (q + 1) = d * q + d
    OBVIOUS
  <2>3. PICK y \in Int, z \in Int : y = d * q /\ z = d * c
    OBVIOUS
  <2> QED BY <1>1, <1>2, <2>1, <2>2, <2>3
<1>6. c \in Nat
  <2> SUFFICES ASSUME c < 0 PROVE FALSE
    OBVIOUS
  <2>1. d * (c + 1) <= 0 /\ d * (c + 1) = d * c + d
    OBVIOUS
  <2> QED BY <1>1, <1>2, <2>1
<1>7. c = 0 <=> a = 0
  <2>1. c = 0 => a = 0
    BY <1>1, <1>2
  <2>2. a = 0 => c = 0
    <3> SUFFICES ASSUME a = 0, c >= 1 PROVE FALSE
      BY <1>6
    <3>1. d * 1 <= d * c
      OBVIOUS
    <3> QED BY <1>1, <1>2, <3>1
  <2> QED BY <2>1, <2>2
<1> QED BY <1>3, <1>4, <1>5, <1>6, <1>7

\* A goal in numbers.
LEMMA GoalFacts ==
  ASSUME NEW g, IsGoal(g)
  PROVE  /\ g.target \in Nat /\ g.saved \in Nat /\ g.contribution \in Nat
         /\ Missing(g) \in Nat /\ Committed(g) \in Nat
         /\ Active(g) <=> Missing(g) > 0
         /\ Active(g) => Missing(g) = g.target - g.saved /\ Committed(g) = g.contribution
         /\ ~Active(g) => Missing(g) = 0 /\ Committed(g) = 0
BY DEF IsGoal, Missing, Active, Committed, AtLeast

\* The contributions needed, and whether so many months give them.
LEMMA NeededMonths ==
  ASSUME NEW g, IsGoal(g), NEW k \in Nat
  PROVE  /\ Needed(g) = Never \/ Needed(g) \in Nat
         /\ Needed(g) # Never /\ Needed(g) <= k <=> Missing(g) <= g.contribution * k
         /\ Needed(g) = 0 <=> Missing(g) = 0
<1>1. PICK m \in Nat, c \in Nat : m = Missing(g) /\ c = g.contribution
  BY GoalFacts
<1>2. CASE m = 0
  <2>1. Needed(g) = 0
    BY <1>1, <1>2 DEF Needed
  <2>2. 0 <= c * k
    BY <1>1
  <2> QED BY <1>1, <1>2, <2>1, <2>2 DEF Never
<1>3. CASE m # 0 /\ c = 0
  <2>1. Needed(g) = Never
    BY <1>1, <1>3 DEF Needed
  <2> QED BY <1>1, <1>3, <2>1 DEF Never
<1>4. CASE m # 0 /\ c # 0
  <2>1. Needed(g) = CeilDiv(m, c)
    BY <1>1, <1>4 DEF Needed
  <2>2. CeilDiv(m, c) \in Nat /\ (CeilDiv(m, c) <= k <=> m <= c * k) /\ (CeilDiv(m, c) = 0 <=> m = 0)
    BY <1>4, PartsCover
  <2> QED BY <1>1, <2>1, <2>2 DEF Never
<1> QED BY <1>2, <1>3, <1>4

\* A contribution that keeps the deadline is one that the goal needs in time.
LEMMA GapTells ==
  ASSUME NEW g, IsGoal(g), NEW today, IsCivil(today), NEW gap \in Gap(g, today)
  PROVE  Status(g, today) = IF gap <= 0 THEN "ON_TRACK" ELSE "BEHIND"
<1>1. /\ Status(g, today) \in {"ON_TRACK", "BEHIND"}
      /\ gap = CeilDiv(Missing(g), MonthsAvailable(g, today)) - g.contribution
  BY DEF Gap, Required
<1>2. PICK a \in Nat \ {0} : a = MonthsAvailable(g, today)
  <2>1. Missing(g) # 0 /\ g.deadline # NoDate /\ ~(MonthsAvailable(g, today) <= 0)
    BY <1>1 DEF Status
  <2>2. MonthIndex(g.deadline) \in Int /\ MonthIndex(today) \in Int
    BY <2>1, CivilFields DEF IsGoal
  <2>3. MonthsAvailable(g, today) \in Int
    BY <2>2 DEF MonthsAvailable
  <2> QED BY <2>1, <2>3
<1>3. PICK m \in Nat, c \in Nat : m = Missing(g) /\ c = g.contribution
  BY GoalFacts
<1>4. CeilDiv(m, a) <= c <=> m <= a * c
  BY PartsCover
<1>5. Status(g, today) = "ON_TRACK" <=> m <= c * a
  <2>1. Needed(g) # Never /\ Needed(g) <= a <=> m <= c * a
    BY <1>3, NeededMonths
  <2>2. Status(g, today) = "ON_TRACK" <=> Needed(g) # Never /\ Needed(g) <= a
    BY <1>1, <1>2 DEF Status
  <2> QED BY <2>1, <2>2
<1>6. c * a = a * c
  OBVIOUS
<1>7. CeilDiv(m, a) \in Nat
  BY PartsCover
<1>8. gap <= 0 <=> CeilDiv(m, a) <= c
  BY <1>1, <1>2, <1>3, <1>7
<1> QED BY <1>1, <1>4, <1>5, <1>6, <1>8

\* A goal is on track exactly when the month it is reached in is not after its deadline.
LEMMA StatusTells ==
  ASSUME NEW g, IsGoal(g), NEW today, IsCivil(today), g.deadline # NoDate,
         Status(g, today) # "REACHED", MonthsAvailable(g, today) <= MaxForecastMonths
  PROVE  Status(g, today) = "ON_TRACK"
           <=> \E r \in ReachMonth(g, today) : r - MonthIndex(today) <= MonthsAvailable(g, today)
<1>1. PICK a \in Int, t \in Int : a = MonthsAvailable(g, today) /\ t = MonthIndex(today)
  <2>1. MonthIndex(g.deadline) \in Int /\ MonthIndex(today) \in Int
    BY CivilFields DEF IsGoal
  <2> QED BY <2>1 DEF MonthsAvailable
<1>2. Missing(g) # 0 /\ a <= 1200
  BY <1>1 DEF Status, MaxForecastMonths
<1>3. Needed(g) = Never \/ Needed(g) \in Nat \ {0}
  <2>1. 0 \in Nat
    OBVIOUS
  <2> QED BY <1>2, <2>1, NeededMonths
<1>4. ReachMonth(g, today) = IF Needed(g) = Never \/ Needed(g) > 1200 THEN {} ELSE {t + Needed(g)}
  BY <1>1 DEF ReachMonth, MaxForecastMonths
<1>5. Status(g, today) = "ON_TRACK" <=> a > 0 /\ Needed(g) # Never /\ Needed(g) <= a
  BY <1>1, <1>2 DEF Status
<1> QED BY <1>1, <1>2, <1>3, <1>4, <1>5 DEF Never

\* An amount between nothing and a cap,
LEMMA Capped ==
  ASSUME NEW a \in Int, NEW m \in Int, m >= 0
  PROVE  LET x == AtMost(AtLeast(0, a), m) IN x \in Int /\ x >= 0 /\ x <= m /\ (x <= a \/ x <= 0)
BY DEF AtMost, AtLeast

\* or between nothing and what is there.
LEMMA Share ==
  ASSUME NEW r \in Int, r >= 0, NEW a \in Int
  PROVE  LET x == AtMost(r, AtLeast(0, a)) IN x \in Int /\ x >= 0 /\ x <= r /\ (x <= a \/ x <= 0)
BY DEF AtMost, AtLeast

\* A window in numbers.
LEMMA WindowNumbers ==
  ASSUME NEW w, IsWindow(w)
  PROVE  /\ Len(w.budgets) - 1 \in Nat /\ Len(w.budgets) \in Nat
         /\ \A k \in 0 .. Len(w.budgets) - 1 : Projection(w)[k] \in Int
         /\ \A k \in 1 .. Len(w.budgets) - 1 : KnownFlow(w, k) \in Int
         /\ TotalCommitted(w.goals) \in Int
         /\ \A mode : /\ Assumed(w, mode).current \in Nat /\ Assumed(w, mode).future \in Nat
                      /\ Assumed(w, mode).margin \in Nat
<1>1. Len(w.budgets) \in Nat \ {0} /\ w.savings \in Int /\ IsForecast(w)
  BY DEF IsWindow, IsForecast
<1>2. PICK n \in Nat : n = Len(w.budgets) - 1 /\ n + 1 = Len(w.budgets)
  <2>1. PICK l : l = Len(w.budgets)
    OBVIOUS
  <2>2. l - 1 \in Nat /\ l - 1 + 1 = l
    BY <1>1, <2>1
  <2> QED BY <2>1, <2>2
<1>3. PICK p : p = Projection(w)
  OBVIOUS
<1>4. \A k \in 0 .. n : p[k] \in Int
  BY <1>1, <1>2, <1>3, ProjectionSteps
<1>5. ASSUME NEW k \in 1 .. n PROVE KnownFlow(w, k) \in Int
  <2>1. k \in 0 .. n /\ k - 1 \in 0 .. n /\ k # 0
    OBVIOUS
  <2>2. KnownFlow(w, k) = p[k] - p[k - 1] + w.savings
    BY <1>3, <2>1 DEF KnownFlow, ProjectionCarry
  <2> QED BY <1>1, <1>4, <2>1, <2>2
<1>6. TotalCommitted(w.goals) \in Int
  <2>1. TotalCommitted(w.goals) = GoalSavings(w.goals)
    BY SameReservations DEF IsWindow
  <2> QED BY <1>1, <2>1 DEF IsWindow
<1>7. ASSUME NEW mode
      PROVE  /\ Assumed(w, mode).current \in Nat /\ Assumed(w, mode).future \in Nat
             /\ Assumed(w, mode).margin \in Nat
  BY DEF IsWindow, Assumed
<1> QED BY <1>1, <1>2, <1>3, <1>4, <1>5, <1>6, <1>7

\* What a trajectory starts with.
LEMMA CurrentFields ==
  ASSUME NEW w, NEW mode
  PROVE  LET state == CurrentState(w, mode)
             a == Assumed(w, mode)
             balance == Projection(w)[0] - a.current IN
         /\ state.balance = balance
         /\ state.safe = AtLeast(0, balance - a.margin) + a.margin
         /\ state.extra = 0
         /\ \A i \in DOMAIN w.goals : state.saved[i] = w.goals[i].saved
BY DEF CurrentState

\* The amounts of a trajectory: a supplement leaves what is protected, and no goal saves beyond
\* its target or loses what it has.
IsCourseState(w, s) ==
  /\ s.balance \in Int /\ s.safe \in Int /\ s.extra \in Int
  /\ s.extra > 0 => s.balance >= s.safe
  /\ \A i \in DOMAIN w.goals :
       /\ s.saved[i] \in Int /\ s.saved[i] >= w.goals[i].saved
       /\ s.saved[i] <= AtLeast(w.goals[i].target, w.goals[i].saved)

\* What a month adds.
LEMMA MonthAdds ==
  ASSUME NEW w, IsWindow(w), NEW mode, NEW s, IsCourseState(w, s), NEW k \in 1 .. Len(w.budgets) - 1
  PROVE  LET next == NextState(w, mode, s, k)
             goal == w.goals[w.selected]
             paid == s.balance + (KnownFlow(w, k) - Assumed(w, mode).future - TotalCommitted(w.goals))
             missing == AtLeast(0, AtLeast(0, goal.target - s.saved[w.selected]) - Committed(goal))
         IN  /\ next.safe = s.safe + Assumed(w, mode).margin
             /\ next.balance = paid - next.extra
             /\ next.extra = IF mode = "planned" THEN 0
                             ELSE AtMost(AtLeast(0, paid - next.safe), missing)
             /\ \A i \in DOMAIN w.goals :
                  next.saved[i] = s.saved[i] + AtMost(Committed(w.goals[i]) + IF i = w.selected THEN next.extra ELSE 0,
                                                      AtLeast(0, w.goals[i].target - s.saved[i]))
<1>1. PICK next : next = NextState(w, mode, s, k)
  OBVIOUS
<1>2. PICK e : e = Extra(w, mode, s, k)
  OBVIOUS
<1>3. /\ next.balance = Paid(w, mode, s, k) - e
      /\ next.safe = SafeNow(w, mode, s)
      /\ next.extra = e
  BY <1>1, <1>2, NextFields
<1>4. \A i \in DOMAIN w.goals : next.saved[i] = Saves(w, s, i, e)
  BY <1>1, <1>2, NextSaved
<1>5. PICK flow \in Int, future \in Int, total \in Int :
        flow = KnownFlow(w, k) /\ future = Assumed(w, mode).future /\ total = TotalCommitted(w.goals)
  BY WindowNumbers
<1>6. Paid(w, mode, s, k) = s.balance + (flow - future - total)
  BY <1>5 DEF Paid, IsCourseState
<1>7. e = IF mode = "planned" THEN 0
          ELSE AtMost(AtLeast(0, Paid(w, mode, s, k) - next.safe), MissingNow(w, s))
  BY <1>2, <1>3 DEF Extra, Supplement
<1> QED BY <1>1, <1>3, <1>4, <1>5, <1>6, <1>7 DEF SafeNow, MissingNow, Saves

\* A month keeps these amounts,
LEMMA NextCourseState ==
  ASSUME NEW w, IsWindow(w), NEW mode, NEW s, IsCourseState(w, s), NEW k \in 1 .. Len(w.budgets) - 1
  PROVE  IsCourseState(w, NextState(w, mode, s, k))
<1>1. PICK next : next = NextState(w, mode, s, k)
  OBVIOUS
<1>2. PICK flow \in Int, margin \in Nat :
        /\ flow = KnownFlow(w, k) - Assumed(w, mode).future - TotalCommitted(w.goals)
        /\ margin = Assumed(w, mode).margin
  <2>1. PICK x \in Int, y \in Int, z \in Int :
          x = KnownFlow(w, k) /\ y = Assumed(w, mode).future /\ z = TotalCommitted(w.goals)
    BY WindowNumbers
  <2> QED BY <2>1, WindowNumbers
<1>3. PICK paid \in Int, before \in Int : paid = s.balance + flow /\ before = s.safe
  BY DEF IsCourseState
<1>4. PICK missing \in Int :
        missing = LET goal == w.goals[w.selected]
                  IN AtLeast(0, AtLeast(0, goal.target - s.saved[w.selected]) - Committed(goal))
  <2>1. IsGoal(w.goals[w.selected]) /\ s.saved[w.selected] \in Int
    BY DEF IsWindow, IsCourseState
  <2> QED BY <2>1, GoalFacts DEF AtLeast
<1>5. /\ next.safe = before + margin
      /\ next.balance = paid - next.extra
      /\ next.extra = IF mode = "planned" THEN 0 ELSE AtMost(AtLeast(0, paid - next.safe), missing)
  BY <1>1, <1>2, <1>3, <1>4, MonthAdds
<1>6. \A i \in DOMAIN w.goals :
        next.saved[i] = s.saved[i] + AtMost(Committed(w.goals[i]) + IF i = w.selected THEN next.extra ELSE 0,
                                            AtLeast(0, w.goals[i].target - s.saved[i]))
  <2>1. next.extra = Extra(w, mode, s, k)
    BY <1>1, NextFields
  <2>2. \A i \in DOMAIN w.goals : next.saved[i] = Saves(w, s, i, Extra(w, mode, s, k))
    BY <1>1, NextSaved
  <2> QED BY <2>1, <2>2 DEF Saves
<1>7. missing >= 0
  BY <1>4 DEF AtLeast
<1>8. /\ next.safe \in Int /\ next.extra \in Int /\ next.extra >= 0 /\ next.balance \in Int
      /\ next.extra > 0 => next.balance >= next.safe
  <2>1. PICK safe \in Int : safe = next.safe
    BY <1>5
  <2>2. PICK e \in Int : /\ e = next.extra /\ e >= 0
                         /\ e = IF mode = "planned" THEN 0 ELSE AtMost(AtLeast(0, paid - safe), missing)
    <3>1. CASE mode = "planned"
      BY <1>5, <3>1
    <3>2. CASE mode # "planned"
      <4>1. PICK e \in Int : e = AtMost(AtLeast(0, paid - safe), missing) /\ e >= 0
        BY <1>7, Capped
      <4> QED BY <1>5, <2>1, <3>2, <4>1
    <3> QED BY <3>1, <3>2
  <2>3. e > 0 => paid - e >= safe
    BY <2>2 DEF AtMost, AtLeast
  <2> QED BY <1>5, <2>1, <2>2, <2>3
<1>9. ASSUME NEW i \in DOMAIN w.goals
      PROVE  /\ next.saved[i] \in Int /\ next.saved[i] >= w.goals[i].saved
             /\ next.saved[i] <= AtLeast(w.goals[i].target, w.goals[i].saved)
  <2>1. PICK t \in Nat, z \in Nat, c \in Nat :
          t = w.goals[i].target /\ z = w.goals[i].saved /\ c = Committed(w.goals[i])
    BY GoalFacts DEF IsWindow
  <2>2. PICK x \in Int : x = s.saved[i] /\ x >= z /\ x <= AtLeast(t, z)
    BY <2>1 DEF IsCourseState
  <2>3. PICK r \in Nat : r = c + IF i = w.selected THEN next.extra ELSE 0
    BY <1>8
  <2>4. next.saved[i] = x + AtMost(r, AtLeast(0, t - x))
    BY <1>6, <2>1, <2>2, <2>3
  <2>5. PICK y \in Int : y = AtMost(r, AtLeast(0, t - x)) /\ y >= 0 /\ (y <= t - x \/ y <= 0)
    <3>1. PICK a \in Int : a = t - x
      OBVIOUS
    <3>2. r \in Int /\ r >= 0
      OBVIOUS
    <3>3. PICK y \in Int : y = AtMost(r, AtLeast(0, a)) /\ y >= 0 /\ (y <= a \/ y <= 0)
      BY <3>2, Share
    <3> QED BY <3>1, <3>3
  <2>6. x + y >= z /\ x + y <= AtLeast(t, z)
    BY <2>2, <2>5 DEF AtLeast
  <2> QED BY <2>1, <2>4, <2>5, <2>6
<1> QED BY <1>1, <1>8, <1>9 DEF IsCourseState

\* so every month of a trajectory has them.
LEMMA CourseStates ==
  ASSUME NEW w, IsWindow(w), NEW mode
  PROVE  \A k \in 0 .. Len(w.budgets) - 1 : IsCourseState(w, Trajectory(w, mode)[k])
<1>1. PICK n \in Nat : n = Len(w.budgets) - 1
  BY WindowNumbers
<1>2. PICK t : t = Trajectory(w, mode)
  OBVIOUS
<1>3. t[0] = CurrentState(w, mode) /\ \A k \in 1 .. n : t[k] = NextState(w, mode, t[k - 1], k)
  BY <1>1, <1>2, TrajectorySteps
<1> DEFINE S == {k \in Nat : k <= n => IsCourseState(w, t[k])}
<1>4. 0 \in S
  <2>1. PICK p \in Int, current \in Nat, margin \in Nat :
          p = Projection(w)[0] /\ current = Assumed(w, mode).current /\ margin = Assumed(w, mode).margin
    BY <1>1, WindowNumbers
  <2>2. PICK s : s = CurrentState(w, mode)
    OBVIOUS
  <2>3. /\ s.balance = p - current /\ s.safe = AtLeast(0, p - current - margin) + margin /\ s.extra = 0
        /\ \A i \in DOMAIN w.goals : s.saved[i] = w.goals[i].saved
    BY <2>1, <2>2, CurrentFields
  <2>4. s.balance \in Int /\ s.safe \in Int /\ s.extra \in Int
    BY <2>3 DEF AtLeast
  <2>5. ASSUME NEW i \in DOMAIN w.goals
        PROVE  /\ s.saved[i] \in Int /\ s.saved[i] >= w.goals[i].saved
               /\ s.saved[i] <= AtLeast(w.goals[i].target, w.goals[i].saved)
    <3>1. w.goals[i].saved \in Nat /\ w.goals[i].target \in Nat
      BY GoalFacts DEF IsWindow
    <3> QED BY <2>3, <3>1 DEF AtLeast
  <2>6. IsCourseState(w, s)
    BY <2>3, <2>4, <2>5 DEF IsCourseState
  <2> QED BY <1>3, <2>2, <2>6
<1>5. ASSUME NEW k \in S PROVE k + 1 \in S
  <2> SUFFICES ASSUME k + 1 <= n PROVE IsCourseState(w, t[k + 1])
    OBVIOUS
  <2>1. k + 1 \in 1 .. n /\ k + 1 - 1 = k /\ k <= n
    OBVIOUS
  <2>2. IsCourseState(w, t[k])
    BY <1>5, <2>1
  <2>3. t[k + 1] = NextState(w, mode, t[k], k + 1)
    BY <1>3, <2>1
  <2> QED BY <1>1, <2>1, <2>2, <2>3, NextCourseState
<1> HIDE DEF S
<1>6. Nat \subseteq S
  BY <1>4, <1>5, SetInduction
<1> QED BY <1>1, <1>2, <1>6 DEF S

\* What the selected goal has in month k.
SavedOf(w, mode, k) == Trajectory(w, mode)[k].saved[w.selected]

\* How the saved amount of the selected goal and the free amount move.
LEMMA SelectedMoves ==
  ASSUME NEW w, IsWindow(w), NEW mode, NEW k \in 1 .. Len(w.budgets) - 1
  PROVE  LET goal == w.goals[w.selected]
             before == Trajectory(w, mode)[k - 1]
             after == Trajectory(w, mode)[k]
             saved == before.saved[w.selected]
             c == Committed(goal)
             flow == KnownFlow(w, k) - Assumed(w, mode).future - TotalCommitted(w.goals)
         IN  /\ saved \in Int /\ before.balance \in Int /\ before.safe \in Int
             /\ flow \in Int /\ after.extra \in Int /\ after.extra >= 0
             /\ after.safe = before.safe + Assumed(w, mode).margin
             /\ after.balance = (before.balance + flow) - after.extra
             /\ after.extra = IF mode = "planned" THEN 0
                              ELSE AtMost(AtLeast(0, (before.balance + flow) - after.safe),
                                          AtLeast(0, AtLeast(0, goal.target - saved) - c))
             /\ mode = "planned" => after.extra = 0
             /\ after.saved[w.selected] = saved + AtMost(c + after.extra, AtLeast(0, goal.target - saved))
<1>1. PICK s, next : s = Trajectory(w, mode)[k - 1] /\ next = Trajectory(w, mode)[k]
  OBVIOUS
<1>2. PICK n \in Nat : n = Len(w.budgets) - 1
  BY WindowNumbers
<1>3. k \in 1 .. n /\ k - 1 \in 0 .. n /\ k \in 0 .. n
  BY <1>2
<1>4. next = NextState(w, mode, s, k)
  BY <1>1, <1>2, <1>3, TrajectorySteps
<1>5. IsCourseState(w, s) /\ IsCourseState(w, next)
  BY <1>1, <1>2, <1>3, CourseStates
<1>6. w.selected \in DOMAIN w.goals /\ IsGoal(w.goals[w.selected])
  BY DEF IsWindow
<1>7. PICK flow \in Int : flow = KnownFlow(w, k) - Assumed(w, mode).future - TotalCommitted(w.goals)
  <2>1. PICK x \in Int, y \in Int, z \in Int :
          x = KnownFlow(w, k) /\ y = Assumed(w, mode).future /\ z = TotalCommitted(w.goals)
    BY WindowNumbers
  <2> QED BY <2>1
<1>8. PICK b \in Int, z \in Int, saved \in Int : b = s.balance /\ z = s.safe /\ saved = s.saved[w.selected]
  BY <1>5, <1>6 DEF IsCourseState
<1>9. /\ next.safe = z + Assumed(w, mode).margin
      /\ next.balance = (b + flow) - next.extra
      /\ next.extra = IF mode = "planned" THEN 0
                      ELSE AtMost(AtLeast(0, (b + flow) - next.safe),
                                  AtLeast(0, AtLeast(0, w.goals[w.selected].target - saved)
                                             - Committed(w.goals[w.selected])))
  <2>1. /\ next.safe = s.safe + Assumed(w, mode).margin
        /\ next.balance = (s.balance + flow) - next.extra
        /\ next.extra = IF mode = "planned" THEN 0
                        ELSE AtMost(AtLeast(0, (s.balance + flow) - next.safe),
                                    AtLeast(0, AtLeast(0, w.goals[w.selected].target - s.saved[w.selected])
                                               - Committed(w.goals[w.selected])))
    BY <1>4, <1>5, <1>7, MonthAdds
  <2>2. next.extra \in Int
    BY <1>5 DEF IsCourseState
  <2> QED BY <1>8, <2>1, <2>2
<1>10. next.saved[w.selected] = saved + AtMost(Committed(w.goals[w.selected]) + next.extra,
                                               AtLeast(0, w.goals[w.selected].target - saved))
  <2>1. next.extra = Extra(w, mode, s, k)
    BY <1>4, NextFields
  <2>2. next.saved[w.selected] = Saves(w, s, w.selected, next.extra)
    BY <1>4, <1>6, <2>1, NextSaved
  <2> QED BY <1>8, <2>2 DEF Saves
<1>11. next.extra \in Int /\ next.extra >= 0
  <2>1. PICK m \in Int : m = AtLeast(0, AtLeast(0, w.goals[w.selected].target - saved)
                                        - Committed(w.goals[w.selected])) /\ m >= 0
    <3>1. PICK t \in Nat, c \in Nat : t = w.goals[w.selected].target /\ c = Committed(w.goals[w.selected])
      BY <1>6, GoalFacts
    <3>2. AtLeast(0, AtLeast(0, t - saved) - c) \in Int /\ AtLeast(0, AtLeast(0, t - saved) - c) >= 0
      BY DEF AtLeast
    <3> QED BY <3>1, <3>2
  <2>2. PICK a \in Int : a = (b + flow) - next.safe
    <3>1. next.safe \in Int
      BY <1>5 DEF IsCourseState
    <3> QED BY <3>1
  <2>3. next.extra = IF mode = "planned" THEN 0 ELSE AtMost(AtLeast(0, a), m)
    BY <1>9, <2>1, <2>2
  <2>4. AtMost(AtLeast(0, a), m) >= 0
    BY <2>1, Capped
  <2>5. next.extra \in Int
    BY <1>5 DEF IsCourseState
  <2> QED BY <2>3, <2>4, <2>5
<1> QED BY <1>1, <1>7, <1>8, <1>9, <1>10, <1>11

\* The selected goal in the current month.
LEMMA SelectedStart ==
  ASSUME NEW w, IsWindow(w), NEW mode
  PROVE  LET state == Trajectory(w, mode)[0]
             a == Assumed(w, mode)
             balance == Projection(w)[0] - a.current IN
         /\ Projection(w)[0] \in Int /\ state.balance = balance
         /\ state.safe = AtLeast(0, balance - a.margin) + a.margin
         /\ state.saved[w.selected] = w.goals[w.selected].saved
<1>1. PICK n \in Nat : n = Len(w.budgets) - 1
  BY WindowNumbers
<1>2. 0 \in 0 .. n
  OBVIOUS
<1>3. Trajectory(w, mode)[0] = CurrentState(w, mode)
  BY <1>1, TrajectorySteps
<1>4. Projection(w)[0] \in Int
  BY <1>1, <1>2, WindowNumbers
<1>5. w.selected \in DOMAIN w.goals
  BY DEF IsWindow
<1> QED BY <1>3, <1>4, <1>5, CurrentFields

\* The planned contributions, one a month up to the target.
LEMMA PlannedSaved ==
  ASSUME NEW w, IsWindow(w)
  PROVE  LET goal == w.goals[w.selected] IN
         \A k \in 0 .. Len(w.budgets) - 1 :
           SavedOf(w, "planned", k) = IF Active(goal) THEN AtMost(goal.target, goal.saved + goal.contribution * k)
                                      ELSE goal.saved
<1>1. PICK n \in Nat : n = Len(w.budgets) - 1
  BY WindowNumbers
<1>2. PICK goal : goal = w.goals[w.selected] /\ IsGoal(goal)
  BY DEF IsWindow
<1>3. PICK t \in Nat, z \in Nat, c \in Nat : t = goal.target /\ z = goal.saved /\ c = goal.contribution
  BY <1>2, GoalFacts
<1> DEFINE Expected(k) == IF Active(goal) THEN AtMost(t, z + c * k) ELSE z
           S == {k \in Nat : k <= n => SavedOf(w, "planned", k) = Expected(k)}
<1>4. Active(goal) <=> z < t
  BY <1>3 DEF Active
<1>5. 0 \in S
  <2>1. SavedOf(w, "planned", 0) = z
    BY <1>2, <1>3, SelectedStart DEF SavedOf
  <2>2. c * 0 = 0
    OBVIOUS
  <2> QED BY <1>4, <2>1, <2>2 DEF AtMost
<1>6. ASSUME NEW k \in S PROVE k + 1 \in S
  <2> SUFFICES ASSUME k + 1 <= n PROVE SavedOf(w, "planned", k + 1) = Expected(k + 1)
    OBVIOUS
  <2>1. k + 1 \in 1 .. n /\ k + 1 - 1 = k /\ k <= n /\ k \in Nat
    OBVIOUS
  <2>2. PICK x \in Int : x = Expected(k) /\ SavedOf(w, "planned", k) = x
    <3>1. SavedOf(w, "planned", k) = Expected(k)
      BY <1>6, <2>1
    <3>2. z + c * k \in Int
      BY <2>1
    <3>3. Expected(k) \in Int
      BY <3>2 DEF AtMost
    <3> QED BY <3>1, <3>3
  <2>3. SavedOf(w, "planned", k + 1) = x + AtMost(Committed(goal) + 0, AtLeast(0, t - x))
    <3>1. PICK j \in 1 .. n : j = k + 1 /\ j - 1 = k
      BY <2>1
    <3>2. PICK a, e : a = Trajectory(w, "planned")[j] /\ e = a.extra
      OBVIOUS
    <3>3. e = 0 /\ a.saved[w.selected] = x + AtMost(Committed(goal) + e, AtLeast(0, t - x))
      <4>1. PICK b : b = Trajectory(w, "planned")[j - 1] /\ b.saved[w.selected] = x
        BY <2>2, <3>1 DEF SavedOf
      <4>2. j \in 1 .. Len(w.budgets) - 1
        BY <1>1, <3>1
      <4>3. /\ a.extra = IF "planned" = "planned" THEN 0
                         ELSE AtMost(AtLeast(0, (b.balance + (KnownFlow(w, j) - Assumed(w, "planned").future
                                                              - TotalCommitted(w.goals))) - a.safe),
                                     AtLeast(0, AtLeast(0, goal.target - b.saved[w.selected]) - Committed(goal)))
            /\ a.saved[w.selected] = b.saved[w.selected] + AtMost(Committed(goal) + a.extra, AtLeast(0, goal.target - b.saved[w.selected]))
        BY <1>2, <3>2, <4>1, <4>2, SelectedMoves, Zenon
      <4>4. e = 0
        BY <3>2, <4>3, Zenon
      <4> QED BY <1>3, <3>2, <4>1, <4>3, <4>4
    <3> QED BY <3>1, <3>2, <3>3 DEF SavedOf
  <2>4. CASE Active(goal)
    <3>1. PICK y \in Int : y = c * k
      OBVIOUS
    <3>2. c * (k + 1) = y + c
      BY <3>1
    <3>3. x = AtMost(t, z + y) /\ Committed(goal) = c
      BY <1>3, <2>2, <2>4, <3>1 DEF Committed
    <3>4. x + AtMost(c + 0, AtLeast(0, t - x)) = AtMost(t, z + (y + c))
      BY <3>3 DEF AtMost, AtLeast
    <3> QED BY <2>3, <2>4, <3>2, <3>3, <3>4
  <2>5. CASE ~Active(goal)
    <3>1. x = z /\ Committed(goal) = 0 /\ z >= t
      BY <1>4, <2>2, <2>5 DEF Committed
    <3>2. x + AtMost(0 + 0, AtLeast(0, t - x)) = z
      BY <3>1 DEF AtMost, AtLeast
    <3> QED BY <2>3, <2>5, <3>1, <3>2
  <2> QED BY <2>4, <2>5
<1> HIDE DEF S
<1>7. Nat \subseteq S
  BY <1>5, <1>6, SetInduction
<1> QED BY <1>1, <1>2, <1>3, <1>7 DEF S

\* The planned trajectory reaches a goal in the month its own forecast tells.
LEMMA PlannedReach ==
  ASSUME NEW w, IsWindow(w), Len(w.budgets) <= MaxForecastMonths
  PROVE  LET month0 == MonthIndex(w.budgets[1].today) IN
         ScheduledReach(w, Trajectory(w, "planned"))
           = {r - month0 : r \in ReachMonth(w.goals[w.selected], w.budgets[1].today)} \intersect Horizon(w)
<1>1. PICK n \in Nat : n = Len(w.budgets) - 1 /\ n < 1200
  <2>1. PICK l \in Nat : l = Len(w.budgets) /\ l - 1 \in Nat
    BY WindowNumbers
  <2>2. l <= 1200
    BY <2>1 DEF MaxForecastMonths
  <2>3. l - 1 < 1200
    BY <2>1, <2>2
  <2> QED BY <2>1, <2>3
<1>2. PICK goal : goal = w.goals[w.selected] /\ IsGoal(goal)
  BY DEF IsWindow
<1>3. PICK t \in Nat, z \in Nat, c \in Nat : t = goal.target /\ z = goal.saved /\ c = goal.contribution
  BY <1>2, GoalFacts
<1>4. PICK month0 \in Int : month0 = MonthIndex(w.budgets[1].today)
  BY CivilFields DEF IsWindow, IsForecast
<1>5. \A k \in 0 .. n : SavedOf(w, "planned", k) >= t <=> Needed(goal) # Never /\ Needed(goal) <= k
  <2> SUFFICES ASSUME NEW k \in 0 .. n
               PROVE  SavedOf(w, "planned", k) >= t <=> Needed(goal) # Never /\ Needed(goal) <= k
    OBVIOUS
  <2>1. PICK y \in Int : y = c * k
    OBVIOUS
  <2>2. Needed(goal) # Never /\ Needed(goal) <= k <=> Missing(goal) <= y
    BY <1>2, <1>3, <2>1, NeededMonths
  <2>3. SavedOf(w, "planned", k) = IF Active(goal) THEN AtMost(t, z + y) ELSE z
    BY <1>1, <1>2, <1>3, <2>1, PlannedSaved
  <2>4. CASE Active(goal)
    <3>1. Missing(goal) = t - z
      BY <1>2, <1>3, <2>4, GoalFacts
    <3>2. SavedOf(w, "planned", k) = AtMost(t, z + y)
      BY <2>3, <2>4
    <3>3. AtMost(t, z + y) >= t <=> t - z <= y
      BY DEF AtMost
    <3> QED BY <2>2, <3>1, <3>2, <3>3
  <2>5. CASE ~Active(goal)
    <3>1. Missing(goal) = 0 /\ z >= t
      BY <1>2, <1>3, <2>5, GoalFacts DEF Active
    <3>2. y >= 0
      BY <2>1
    <3> QED BY <2>2, <2>3, <2>5, <3>1, <3>2
  <2> QED BY <2>4, <2>5
<1>6. PICK reached : reached = ReachedBy(w, Trajectory(w, "planned"))
  OBVIOUS
<1>7. reached = {k \in 0 .. n : Needed(goal) # Never /\ Needed(goal) <= k}
  <2>1. DOMAIN Trajectory(w, "planned") = 0 .. n
    BY <1>1, TrajectorySteps
  <2>2. reached = {k \in 0 .. n : SavedOf(w, "planned", k) >= t}
    BY <1>2, <1>3, <1>6, <2>1 DEF ReachedBy, SavedOf
  <2> QED BY <1>5, <2>2
<1>8. Needed(goal) = Never \/ Needed(goal) \in Nat
  <2>1. 0 \in Nat
    OBVIOUS
  <2> QED BY <1>2, <2>1, NeededMonths
<1>9. PICK alone : alone = {r - month0 : r \in ReachMonth(goal, w.budgets[1].today)}
  OBVIOUS
<1>10. Horizon(w) = 0 .. n
  BY <1>1 DEF Horizon
<1>11. CASE Needed(goal) = Never \/ ~(Needed(goal) <= n)
  <2>1. reached = {}
    BY <1>7, <1>8, <1>11
  <2>2. alone \intersect 0 .. n = {}
    <3>1. CASE Needed(goal) = Never
      BY <1>9, <3>1 DEF ReachMonth
    <3>2. CASE Needed(goal) # Never
      <4>1. PICK m \in Nat : m = Needed(goal) /\ m > n
        BY <1>8, <1>11, <3>2
      <4>2. alone \subseteq {(month0 + m) - month0}
        BY <1>4, <1>9, <4>1 DEF ReachMonth
      <4> QED BY <4>1, <4>2
    <3> QED BY <3>1, <3>2
  <2>3. Earliest(reached) = {}
    BY <2>1 DEF Earliest
  <2> QED BY <1>2, <1>4, <1>6, <1>9, <1>10, <2>2, <2>3 DEF ScheduledReach
<1>12. CASE Needed(goal) # Never /\ Needed(goal) <= n
  <2>1. PICK m \in Nat : m = Needed(goal) /\ m <= n /\ m # Never
    BY <1>8, <1>12
  <2>2. reached = {k \in 0 .. n : m <= k}
    BY <1>7, <2>1
  <2>3. Earliest(reached) = {m}
    BY <2>1, <2>2 DEF Earliest
  <2>4. alone = {(month0 + m) - month0}
    BY <1>1, <1>4, <1>9, <2>1 DEF ReachMonth, MaxForecastMonths
  <2>5. alone \intersect 0 .. n = {m}
    BY <2>1, <2>4
  <2> QED BY <1>2, <1>4, <1>6, <1>9, <1>10, <2>3, <2>5 DEF ScheduledReach
<1> QED BY <1>11, <1>12

\* The supplement never takes from what the goal would have without it.
LEMMA MoreSaved ==
  ASSUME NEW w, IsWindow(w), NEW mode
  PROVE  \A k \in 0 .. Len(w.budgets) - 1 : SavedOf(w, "planned", k) <= SavedOf(w, mode, k)
<1>1. PICK n \in Nat : n = Len(w.budgets) - 1
  BY WindowNumbers
<1>2. PICK goal : goal = w.goals[w.selected] /\ IsGoal(goal)
  BY DEF IsWindow
<1>3. PICK t \in Nat, c \in Nat : t = goal.target /\ c = Committed(goal)
  BY <1>2, GoalFacts
<1>4. ASSUME NEW m, NEW k \in 1 .. n
      PROVE  \E x \in Int, e \in Nat : /\ x = SavedOf(w, m, k - 1) /\ (m = "planned" => e = 0)
                                       /\ SavedOf(w, m, k) = x + AtMost(c + e, AtLeast(0, t - x))
  <2>1. PICK x, e : x = SavedOf(w, m, k - 1) /\ e = Trajectory(w, m)[k].extra
    OBVIOUS
  <2>2. k \in 1 .. Len(w.budgets) - 1
    BY <1>1
  <2>3. x \in Int /\ e \in Nat
    BY <2>1, <2>2, SelectedMoves DEF SavedOf
  <2>4. SavedOf(w, m, k) = x + AtMost(c + e, AtLeast(0, t - x))
    BY <1>2, <1>3, <2>1, <2>2, SelectedMoves, Zenon DEF SavedOf
  <2>5. m = "planned" => e = 0
    BY <2>1, <2>2, SelectedMoves
  <2> QED BY <2>1, <2>3, <2>4, <2>5
<1> DEFINE S == {k \in Nat : k <= n => SavedOf(w, "planned", k) <= SavedOf(w, mode, k)}
<1>5. 0 \in S
  <2>1. goal.saved \in Nat
    BY <1>2, GoalFacts
  <2> QED BY <1>2, <2>1, SelectedStart DEF SavedOf
<1>6. ASSUME NEW k \in S PROVE k + 1 \in S
  <2> SUFFICES ASSUME k + 1 <= n PROVE SavedOf(w, "planned", k + 1) <= SavedOf(w, mode, k + 1)
    OBVIOUS
  <2>1. PICK j \in 1 .. n : j = k + 1 /\ j - 1 = k
    OBVIOUS
  <2>2. PICK x \in Int : x = SavedOf(w, "planned", k) /\ SavedOf(w, "planned", j) = x + AtMost(c, AtLeast(0, t - x))
    <3>1. PICK x \in Int, e \in Nat : /\ x = SavedOf(w, "planned", k) /\ e = 0
                                      /\ SavedOf(w, "planned", j) = x + AtMost(c + e, AtLeast(0, t - x))
      BY <1>4, <2>1
    <3>2. c + e = c
      BY <3>1
    <3> QED BY <3>1, <3>2
  <2>3. PICK y \in Int, e \in Nat : y = SavedOf(w, mode, k) /\ SavedOf(w, mode, j) = y + AtMost(c + e, AtLeast(0, t - y))
    <3>1. PICK y \in Int, e \in Nat : /\ y = SavedOf(w, mode, j - 1)
                                      /\ SavedOf(w, mode, j) = y + AtMost(c + e, AtLeast(0, t - y))
      BY <1>4
    <3> QED BY <2>1, <3>1
  <2>4. x <= y
    BY <1>6, <2>2, <2>3
  <2>5. x + AtMost(c, AtLeast(0, t - x)) <= y + AtMost(c + e, AtLeast(0, t - y))
    BY <2>4 DEF AtMost, AtLeast
  <2> QED BY <2>1, <2>2, <2>3, <2>5
<1> HIDE DEF S
<1>7. Nat \subseteq S
  BY <1>5, <1>6, SetInduction
<1> QED BY <1>1, <1>7 DEF S

\* A month of a trajectory with a supplement: i is the selected goal, flow what the month adds
\* to the balance, m the margin, t the target and c the contribution.
Supplemented(before, after, i, flow, m, t, c) ==
  /\ before.saved[i] \in Int /\ before.balance \in Int /\ before.safe \in Int /\ after.extra \in Int
  /\ after.safe = before.safe + m
  /\ after.balance = (before.balance + flow) - after.extra
  /\ after.extra = AtMost(AtLeast(0, (before.balance + flow) - after.safe),
                          AtLeast(0, AtLeast(0, t - before.saved[i]) - c))
  /\ after.saved[i] = before.saved[i] + AtMost(c + after.extra, AtLeast(0, t - before.saved[i]))

\* Both trajectories with a supplement move like this.
LEMMA SelectedMonth ==
  ASSUME NEW w, IsWindow(w), NEW mode, mode # "planned", NEW k \in 1 .. Len(w.budgets) - 1
  PROVE  Supplemented(Trajectory(w, mode)[k - 1], Trajectory(w, mode)[k], w.selected,
                      KnownFlow(w, k) - Assumed(w, mode).future - TotalCommitted(w.goals),
                      Assumed(w, mode).margin, w.goals[w.selected].target, Committed(w.goals[w.selected]))
<1>1. PICK before, after, goal, flow, m, saved :
        /\ before = Trajectory(w, mode)[k - 1] /\ after = Trajectory(w, mode)[k]
        /\ goal = w.goals[w.selected] /\ m = Assumed(w, mode).margin
        /\ flow = KnownFlow(w, k) - Assumed(w, mode).future - TotalCommitted(w.goals)
        /\ saved = before.saved[w.selected]
  OBVIOUS
<1>2. /\ saved \in Int /\ before.balance \in Int /\ before.safe \in Int /\ after.extra \in Int
      /\ after.safe = before.safe + m
      /\ after.balance = (before.balance + flow) - after.extra
      /\ after.extra = AtMost(AtLeast(0, (before.balance + flow) - after.safe),
                              AtLeast(0, AtLeast(0, goal.target - saved) - Committed(goal)))
      /\ after.saved[w.selected] = saved + AtMost(Committed(goal) + after.extra, AtLeast(0, goal.target - saved))
  BY <1>1, SelectedMoves, SMTT(60)
<1>3. Supplemented(before, after, w.selected, flow, m, goal.target, Committed(goal))
  BY <1>1, <1>2 DEF Supplemented
<1> QED BY <1>1, <1>3

\* The trajectory that protects less and spends less stays ahead until it reaches the target.
LEMMA AheadOneMonth ==
  ASSUME NEW i, NEW t \in Int, NEW c \in Nat, NEW p \in Int, NEW q \in Int, q <= p,
         NEW margin \in Nat, NEW k, NEW j, NEW a, NEW g,
         Supplemented(a[k], a[j], i, p, 0, t, c), Supplemented(g[k], g[j], i, q, margin, t, c),
         a[k].saved[i] >= t
           \/ /\ g[k].saved[i] <= a[k].saved[i]
              /\ g[k].balance - g[k].safe + g[k].saved[i] <= a[k].balance - a[k].safe + a[k].saved[i]
  PROVE  a[j].saved[i] >= t
           \/ /\ g[j].saved[i] <= a[j].saved[i]
              /\ g[j].balance - g[j].safe + g[j].saved[i] <= a[j].balance - a[j].safe + a[j].saved[i]
<1>1. PICK x \in Int, b \in Int, z \in Int, e \in Int :
        /\ x = a[k].saved[i] /\ b = a[k].balance /\ z = a[k].safe /\ e = a[j].extra
        /\ a[j].safe = z /\ a[j].balance = (b + p) - e
        /\ e = AtMost(AtLeast(0, (b + p) - z), AtLeast(0, AtLeast(0, t - x) - c))
        /\ a[j].saved[i] = x + AtMost(c + e, AtLeast(0, t - x))
  <2>1. a[j].safe = a[k].safe
    BY DEF Supplemented
  <2>2. a[k].saved[i] \in Int /\ a[k].balance \in Int /\ a[k].safe \in Int /\ a[j].extra \in Int
    BY DEF Supplemented
  <2>3. a[j].extra = AtMost(AtLeast(0, (a[k].balance + p) - a[k].safe),
                            AtLeast(0, AtLeast(0, t - a[k].saved[i]) - c))
    BY <2>1 DEF Supplemented
  <2>4. /\ a[j].balance = (a[k].balance + p) - a[j].extra
        /\ a[j].saved[i] = a[k].saved[i] + AtMost(c + a[j].extra, AtLeast(0, t - a[k].saved[i]))
    BY DEF Supplemented
  <2> QED BY <2>1, <2>2, <2>3, <2>4
<1>2. PICK y \in Int, d \in Int, v \in Int, f \in Int :
        /\ y = g[k].saved[i] /\ d = g[k].balance /\ v = g[k].safe /\ f = g[j].extra
        /\ g[j].safe = v + margin /\ g[j].balance = (d + q) - f
        /\ f = AtMost(AtLeast(0, (d + q) - (v + margin)), AtLeast(0, AtLeast(0, t - y) - c))
        /\ g[j].saved[i] = y + AtMost(c + f, AtLeast(0, t - y))
  BY DEF Supplemented
<1>3. PICK x2, y2 : /\ x2 = x + AtMost(c + e, AtLeast(0, t - x)) /\ x2 = a[j].saved[i]
                    /\ y2 = y + AtMost(c + f, AtLeast(0, t - y)) /\ y2 = g[j].saved[i]
  BY <1>1, <1>2
<1>4. 0 <= e /\ e <= AtLeast(0, AtLeast(0, t - x) - c)
  <2>1. PICK r \in Int, s \in Int : r = (b + p) - z /\ s = AtLeast(0, t - x) - c
    BY DEF AtLeast
  <2>2. e = AtMost(AtLeast(0, r), AtLeast(0, s))
    BY <1>1, <2>1
  <2> QED BY <2>1, <2>2 DEF AtMost, AtLeast
<1>5. CASE x >= t
  <2>1. x2 >= t
    BY <1>3, <1>4, <1>5 DEF AtMost, AtLeast
  <2> QED BY <1>3, <2>1
<1>6. CASE x < t
  <2>1. y <= x /\ d - v + y <= b - z + x
    BY <1>1, <1>2, <1>6
  <2>2. PICK h \in Int, l \in Int : h = (b + p) - z /\ l = (d + q) - (v + margin)
    OBVIOUS
  <2>3. l + y <= h + x
    BY <2>1, <2>2
  <2>4. CASE x + (c + e) < t
    <3>1. x2 = x + c + e
      BY <1>3, <2>4 DEF AtMost, AtLeast
    <3>2. e < AtLeast(0, AtLeast(0, t - x) - c)
      BY <2>4 DEF AtLeast
    <3>3. e = AtLeast(0, h)
      BY <1>1, <2>2, <3>2 DEF AtMost, AtLeast
    <3>4. y2 \in Int /\ y2 <= y + c + f /\ f <= AtLeast(0, l)
      <4>1. PICK s \in Int : s = AtLeast(0, t - y) - c
        BY DEF AtLeast
      <4>2. f = AtMost(AtLeast(0, l), AtLeast(0, s))
        BY <1>2, <2>2, <4>1
      <4>3. f <= AtLeast(0, l)
        BY <4>2 DEF AtMost, AtLeast
      <4>4. PICK u \in Int : u = AtLeast(0, t - y)
        BY DEF AtLeast
      <4>5. y2 \in Int /\ y2 <= y + c + f
        BY <1>3, <4>4 DEF AtMost
      <4> QED BY <4>3, <4>5
    <3>5. y2 <= x2
      BY <2>1, <2>3, <3>1, <3>3, <3>4 DEF AtLeast
    <3>6. ((d + q) - f) - (v + margin) + y2 <= l + y + c
      BY <2>2, <3>4
    <3>7. ((b + p) - e) - z + x2 = h + x + c
      BY <2>2, <3>1
    <3>8. ((d + q) - f) - (v + margin) + y2 <= ((b + p) - e) - z + x2
      BY <2>3, <3>4, <3>6, <3>7
    <3> QED BY <1>1, <1>2, <1>3, <3>5, <3>8
  <2>5. CASE x + (c + e) >= t
    <3>1. x2 >= t
      BY <1>3, <1>6, <2>5 DEF AtMost, AtLeast
    <3> QED BY <1>3, <3>1
  <2> QED BY <2>4, <2>5
<1> QED BY <1>5, <1>6

\* The trajectory without assumptions reaches the goal whenever the reasonable one does.
LEMMA FasterReach ==
  ASSUME NEW w, IsWindow(w)
  PROVE  \A k \in 0 .. Len(w.budgets) - 1 :
           SavedOf(w, "reasonable", k) >= w.goals[w.selected].target
             => SavedOf(w, "maximum", k) >= w.goals[w.selected].target
<1>1. PICK n \in Nat : n = Len(w.budgets) - 1
  BY WindowNumbers
<1>2. PICK goal : goal = w.goals[w.selected] /\ IsGoal(goal)
  BY DEF IsWindow
<1>3. PICK t \in Nat, c \in Nat : t = goal.target /\ c = Committed(goal)
  BY <1>2, GoalFacts
<1>4. PICK M, R, i : M = Trajectory(w, "maximum") /\ R = Trajectory(w, "reasonable") /\ i = w.selected
  OBVIOUS
<1>5. PICK current \in Nat, future \in Nat, margin \in Nat :
        /\ current = Assumed(w, "reasonable").current /\ future = Assumed(w, "reasonable").future
        /\ margin = Assumed(w, "reasonable").margin
  BY WindowNumbers
<1>6. /\ Assumed(w, "maximum").current = 0 /\ Assumed(w, "maximum").future = 0
      /\ Assumed(w, "maximum").margin = 0
  BY DEF Assumed
<1> DEFINE Ahead(k) == \/ M[k].saved[i] >= t
                       \/ /\ R[k].saved[i] <= M[k].saved[i]
                          /\ R[k].balance - R[k].safe + R[k].saved[i] <= M[k].balance - M[k].safe + M[k].saved[i]
           S == {k \in Nat : k <= n => Ahead(k)}
<1>7. 0 \in S
  <2>1. PICK p \in Int, z \in Nat : p = Projection(w)[0] /\ z = goal.saved
    BY <1>2, GoalFacts, SelectedStart
  <2>2. M[0].balance = p - 0 /\ M[0].safe = AtLeast(0, p - 0 - 0) + 0 /\ M[0].saved[i] = z
    BY <1>2, <1>4, <1>6, <2>1, SelectedStart
  <2>3. /\ R[0].balance = p - current /\ R[0].safe = AtLeast(0, p - current - margin) + margin
        /\ R[0].saved[i] = z
    BY <1>2, <1>4, <1>5, <2>1, SelectedStart
  <2>4. R[0].balance - R[0].safe + R[0].saved[i] <= M[0].balance - M[0].safe + M[0].saved[i]
    BY <2>2, <2>3 DEF AtLeast
  <2>5. R[0].saved[i] <= M[0].saved[i]
    BY <2>2, <2>3
  <2> QED BY <2>4, <2>5
<1>8. ASSUME NEW k \in S PROVE k + 1 \in S
  <2> SUFFICES ASSUME k + 1 <= n PROVE Ahead(k + 1)
    OBVIOUS
  <2>1. PICK j \in 1 .. n : j = k + 1 /\ j - 1 = k
    OBVIOUS
  <2>2. j \in 1 .. Len(w.budgets) - 1
    BY <1>1
  <2>3. PICK p \in Int, q \in Int :
          /\ p = KnownFlow(w, j) - Assumed(w, "maximum").future - TotalCommitted(w.goals)
          /\ q = KnownFlow(w, j) - Assumed(w, "reasonable").future - TotalCommitted(w.goals)
          /\ q <= p
    <3>1. PICK a \in Int, s \in Int : a = KnownFlow(w, j) /\ s = TotalCommitted(w.goals)
      BY <2>2, WindowNumbers
    <3> QED BY <1>5, <1>6, <3>1
  <2>4. Supplemented(M[k], M[j], i, p, 0, t, c)
    <3>1. "maximum" # "planned"
      OBVIOUS
    <3>2. Supplemented(Trajectory(w, "maximum")[j - 1], Trajectory(w, "maximum")[j], w.selected,
                       KnownFlow(w, j) - Assumed(w, "maximum").future - TotalCommitted(w.goals),
                       Assumed(w, "maximum").margin, w.goals[w.selected].target, Committed(w.goals[w.selected]))
      BY <2>2, <3>1, SelectedMonth
    <3> HIDE DEF S
    <3> QED BY <1>2, <1>3, <1>4, <1>6, <2>1, <2>3, <3>2
  <2>5. Supplemented(R[k], R[j], i, q, margin, t, c)
    <3>1. "reasonable" # "planned"
      OBVIOUS
    <3>2. Supplemented(Trajectory(w, "reasonable")[j - 1], Trajectory(w, "reasonable")[j], w.selected,
                       KnownFlow(w, j) - Assumed(w, "reasonable").future - TotalCommitted(w.goals),
                       Assumed(w, "reasonable").margin, w.goals[w.selected].target, Committed(w.goals[w.selected]))
      BY <2>2, <3>1, SelectedMonth
    <3> HIDE DEF S
    <3> QED BY <1>2, <1>3, <1>4, <1>5, <2>1, <2>3, <3>2
  <2>6. Ahead(k)
    BY <1>8
  <2>7. t \in Int
    OBVIOUS
  <2> HIDE DEF S
  <2>8. Ahead(j)
    BY <2>3, <2>4, <2>5, <2>6, <2>7, AheadOneMonth
  <2> QED BY <2>1, <2>8
<1> HIDE DEF S
<1>9. Nat \subseteq S
  BY <1>7, <1>8, SetInduction
<1> SUFFICES ASSUME NEW k \in 0 .. n, R[k].saved[i] >= t PROVE M[k].saved[i] >= t
  BY <1>1, <1>2, <1>3, <1>4 DEF SavedOf
<1>10. k \in S /\ k <= n
  BY <1>9
<1>11. M[k].saved[i] \in Int /\ R[k].saved[i] \in Int
  <2>1. w.selected \in DOMAIN w.goals
    BY DEF IsWindow
  <2> QED BY <1>1, <1>4, <2>1, CourseStates DEF IsCourseState
<1>12. M[k].saved[i] >= t \/ R[k].saved[i] <= M[k].saved[i]
  BY <1>10 DEF S
<1> QED BY <1>11, <1>12

\* The first month of a set, or the one after the horizon.
LEMMA FirstMonth ==
  ASSUME NEW n \in Nat, NEW A, A \subseteq 0 .. n
  PROVE  LET m == Min(Earliest(A) \union {n + 1}) IN
         m \in Nat /\ m <= n + 1 /\ (m \in A \/ m = n + 1) /\ \A a \in A : m <= a
<1> DEFINE T == Earliest(A) \union {n + 1}
<1>1. T \subseteq Nat /\ T # {} /\ Earliest(A) \subseteq A
  <2>1. Earliest(A) \subseteq A /\ A \subseteq Nat /\ n + 1 \in Nat
    BY DEF Earliest
  <2> QED BY <2>1
<1>2. \E x \in T : \A y \in T : x <= y
  BY <1>1, Least
<1>3. Min(T) \in T /\ \A y \in T : Min(T) <= y
  BY <1>2, Zenon DEF Min
<1>4. ASSUME NEW a \in A PROVE Min(T) <= a
  <2>1. A \subseteq Nat
    OBVIOUS
  <2>2. PICK e \in A : \A b \in A : e <= b
    BY <2>1, Least
  <2>3. e \in T
    BY <2>2 DEF Earliest
  <2> QED BY <1>1, <1>3, <2>1, <2>2, <2>3
<1>5. n + 1 \in T
  OBVIOUS
<1> QED BY <1>1, <1>3, <1>4, <1>5

\* More months have a first one that is not later.
LEMMA MoreIsEarlier ==
  ASSUME NEW n \in Nat, NEW A, A \subseteq 0 .. n, NEW B, B \subseteq A
  PROVE  Min(Earliest(A) \union {n + 1}) <= Min(Earliest(B) \union {n + 1})
<1>1. B \subseteq 0 .. n
  OBVIOUS
<1>2. PICK a \in Nat : /\ a = Min(Earliest(A) \union {n + 1})
                       /\ a <= n + 1 /\ \A x \in A : a <= x
  BY FirstMonth
<1>3. PICK b \in Nat : /\ b = Min(Earliest(B) \union {n + 1})
                       /\ (b \in B \/ b = n + 1)
  BY <1>1, FirstMonth
<1> QED BY <1>2, <1>3

-----------------------------------------------------------------------------
(* Analytics.                                                              *)

\* Reports count days like every other module.
LEMMA SameCalendar ==
  /\ \A d : /\ Reports!MonthIndex(d) = MonthIndex(d) /\ Reports!DayNumber(d) = DayNumber(d)
            /\ Reports!Weekday(d) = Weekday(d)
            /\ Reports!IsCivil(d) <=> IsCivil(d)
  /\ \A m : /\ Reports!DatesIn(m) = DatesIn(m) /\ Reports!YearOf(m) = YearOf(m)
            /\ Reports!MonthNo(m) = MonthNo(m)
  /\ \A d, e : Reports!UpTo(d, e) <=> UpTo(d, e)
<1>1. \A d : Reports!MonthIndex(d) = MonthIndex(d)
  BY DEF Reports!MonthIndex, MonthIndex
<1>2. \A d : Reports!DayNumber(d) = DayNumber(d)
  BY DEF Reports!DayNumber, DayNumber
<1>3. \A d : Reports!Weekday(d) = Weekday(d)
  BY <1>2 DEF Reports!Weekday, Weekday
<1>4. \A m : Reports!YearOf(m) = YearOf(m) /\ Reports!MonthNo(m) = MonthNo(m)
  BY DEF Reports!YearOf, YearOf, Reports!MonthNo, MonthNo
<1>5. \A m : Reports!DaysIn(m) = DaysIn(m)
  BY <1>4 DEF Reports!DaysIn, DaysIn, Reports!Leap, Leap
<1>6. \A m : Reports!DatesIn(m) = DatesIn(m)
  BY <1>4, <1>5 DEF Reports!DatesIn, DatesIn, Reports!Date, Date
<1>7. \A d : Reports!IsCivil(d) <=> IsCivil(d)
  BY <1>1, <1>6 DEF Reports!IsCivil, IsCivil
<1>8. \A d, e : Reports!UpTo(d, e) <=> UpTo(d, e)
  BY <1>1 DEF Reports!UpTo, UpTo
<1> QED BY <1>1, <1>2, <1>3, <1>4, <1>6, <1>7, <1>8

\* The week number of a day, counted from a Monday.
WeekOf(d) == (DayNumber(d) + 1) \div 7

\* The Monday of a date is a date, of its month or the one before.
LEMMA MondayIsDate ==
  ASSUME NEW d, IsCivil(d)
  PROVE  LET e == Reports!Monday(d) IN
         /\ IsCivil(e) /\ WeekOf(d) \in Int
         /\ DayNumber(e) = 7 * WeekOf(d) - 1
<1> DEFINE m == MonthIndex(d)
<1>1. /\ m \in Int /\ m - 1 \in Int /\ m - 1 + 1 = m /\ d[3] \in 1 .. DaysIn(m) /\ DaysIn(m) \in 28 .. 31
      /\ DaysIn(m - 1) \in 28 .. 31
      /\ DayNumber(First(m)) \in Int /\ DayNumber(d) = DayNumber(First(m)) + d[3] - 1
  BY DateFields, DayOfMonth, MonthParts DEF IsCivil
<1>2. PICK first \in Int, day \in Int, n \in Int :
        /\ first = DayNumber(First(m)) /\ day = d[3] /\ n = DayNumber(d) /\ n = first + day - 1
  BY <1>1
<1>3. PICK wd \in Int : wd = Weekday(d) /\ wd \in 0 .. 6
  BY <1>2 DEF Weekday
<1>4. PICK k \in Int : k = WeekOf(d) /\ n - wd = 7 * k - 1
  <2>1. PICK x \in Int : x = n + 1
    OBVIOUS
  <2>2. x \div 7 \in Int /\ x % 7 = x - 7 * (x \div 7)
    BY Division
  <2>3. PICK q \in Int : q = x \div 7
    BY <2>2
  <2>4. wd = x - 7 * q
    BY <1>2, <1>3, <2>1, <2>2, <2>3 DEF Weekday
  <2> QED BY <1>2, <2>1, <2>3, <2>4 DEF WeekOf
<1> DEFINE E == DatesIn(m - 1) \union DatesIn(m)
<1>5. \E e \in E : DayNumber(e) = n - wd
  <2>1. CASE day > wd
    <3>1. PICK j \in 1 .. DaysIn(m) : j = day - wd
      BY <1>1, <1>2, <1>3, <2>1
    <3>2. Date(m, j) \in DatesIn(m)
      BY DEF DatesIn
    <3>3. Date(m, j)[3] = j
      BY DEF Date
    <3>4. DayNumber(Date(m, j)) = first + j - 1
      BY <1>1, <1>2, <3>2, <3>3, DayOfMonth
    <3>5. DayNumber(Date(m, j)) = n - wd
      BY <1>2, <3>1, <3>4
    <3> QED BY <3>2, <3>5
  <2>2. CASE day <= wd
    <3>1. PICK p \in Int, l \in Int : p = m - 1 /\ l = DaysIn(p) /\ l \in 28 .. 31 /\ p + 1 = m
      BY <1>1
    <3>2. PICK j \in 1 .. l : j = l + day - wd
      BY <1>1, <1>2, <1>3, <2>2, <3>1
    <3>3. Date(p, j) \in DatesIn(p)
      BY <3>1 DEF DatesIn
    <3>4. Date(p, j)[3] = j
      BY DEF Date
    <3>5. PICK before \in Int : before = DayNumber(First(p)) /\ DayNumber(Date(p, j)) = before + j - 1
      BY <3>3, <3>4, DayOfMonth
    <3>6. first = before + l
      BY <1>2, <3>1, <3>5, MonthLength
    <3>7. DayNumber(Date(p, j)) = n - wd
      BY <1>2, <3>2, <3>5, <3>6
    <3> QED BY <3>1, <3>3, <3>7
  <2> QED BY <1>2, <1>3, <2>1, <2>2
<1>6. Reports!Monday(d) = CHOOSE e \in E : DayNumber(e) = DayNumber(d) - Weekday(d)
  BY SameCalendar DEF Reports!Monday
<1>7. PICK e : e = Reports!Monday(d) /\ e \in E /\ DayNumber(e) = n - wd
  <2> HIDE DEF E
  <2> QED BY <1>2, <1>3, <1>5, <1>6
<1>8. IsCivil(e)
  <2>1. PICK p \in Int : e \in DatesIn(p)
    BY <1>1, <1>7
  <2> QED BY <2>1, DateFields DEF IsCivil
<1> QED BY <1>4, <1>7, <1>8

\* The dates of a period.
LEMMA DatesOfPeriod ==
  ASSUME NEW from, IsCivil(from), NEW to, IsCivil(to), NEW d, IsCivil(d), UpTo(from, d), UpTo(d, to)
  PROVE  /\ MonthIndex(d) \in MonthIndex(from) .. MonthIndex(to)
         /\ d \in Reports!Dates(from, to)
<1>1. MonthIndex(d) \in Int /\ MonthIndex(from) \in Int /\ MonthIndex(to) \in Int
  BY CivilFields
<1>2. MonthIndex(d) \in MonthIndex(from) .. MonthIndex(to)
  BY <1>1 DEF UpTo
<1>3. d \in DatesIn(MonthIndex(d))
  BY DEF IsCivil
<1> QED BY <1>2, <1>3, SameCalendar DEF Reports!Dates

\* The Mondays of a period list that of each of its dates.
LEMMA WeeksOfPeriod ==
  ASSUME NEW from, IsCivil(from), NEW to, IsCivil(to), NEW d, IsCivil(d), UpTo(from, d), UpTo(d, to)
  PROVE  Reports!Monday(d) \in Reports!Weeks(from, to)
<1>1. PICK a, b, e : a = Reports!Monday(from) /\ b = Reports!Monday(to) /\ e = Reports!Monday(d)
  OBVIOUS
<1>2. PICK i \in Int, j \in Int, k \in Int :
        /\ i = WeekOf(from) /\ j = WeekOf(d) /\ k = WeekOf(to)
        /\ IsCivil(a) /\ IsCivil(b) /\ IsCivil(e)
        /\ DayNumber(a) = 7 * i - 1 /\ DayNumber(e) = 7 * j - 1 /\ DayNumber(b) = 7 * k - 1
  BY <1>1, MondayIsDate
<1>3. PICK x \in Int, y \in Int, z \in Int :
        /\ x = DayNumber(from) + 1 /\ y = DayNumber(d) + 1 /\ z = DayNumber(to) + 1 /\ x <= y /\ y <= z
  BY OrderOfDays
<1>4. i <= j /\ j <= k
  BY <1>2, <1>3 DEF WeekOf
<1>5. UpTo(a, e) /\ UpTo(e, b)
  BY <1>2, <1>4, OrderOfDays
<1>6. e \in Reports!Dates(a, b)
  BY <1>2, <1>5, DatesOfPeriod
<1>7. (DayNumber(e) - DayNumber(a)) % 7 = 0
  <2>1. DayNumber(e) - DayNumber(a) = 7 * (j - i)
    BY <1>2
  <2> QED BY <2>1
<1> QED BY <1>1, <1>6, <1>7, SameCalendar DEF Reports!Weeks

\* Years are in the order of months.
LEMMA YearsInOrder ==
  ASSUME NEW m \in Int, NEW n \in Int, m <= n
  PROVE  YearOf(m) \in Int /\ YearOf(m) <= YearOf(n)
BY DEF YearOf

\* Every selected operation has its key in the list.
LEMMA KeyIsListed ==
  ASSUME NEW q, NEW operations, Reports!IsAnalysis(q, operations), NEW o \in Reports!Selected(q, operations)
  PROVE  Reports!Key(q.group, o) \in Reports!BucketKeys(q, Reports!Selected(q, operations))
<1>1. /\ IsCivil(q.from) /\ IsCivil(q.to) /\ IsCivil(o.date)
      /\ UpTo(q.from, o.date) /\ UpTo(o.date, q.to)
      /\ o.kind \in {"DEPENSE", "ENTREE"} /\ q.kind \in {"", o.kind}
  <2>1. o \in operations /\ Reports!UpTo(q.from, o.date) /\ Reports!UpTo(o.date, q.to) /\ q.kind \in {"", o.kind}
    BY Zenon DEF Reports!Selected
  <2>2. Reports!IsCivil(q.from) /\ Reports!IsCivil(q.to) /\ Reports!IsCivil(o.date) /\ o.kind \in {"DEPENSE", "ENTREE"}
    BY <2>1, Zenon DEF Reports!IsAnalysis
  <2>3. \A d, e : Reports!UpTo(d, e) <=> UpTo(d, e)
    BY SameCalendar, Zenon
  <2>4. \A d : Reports!IsCivil(d) <=> IsCivil(d)
    BY SameCalendar, Zenon
  <2>5. UpTo(q.from, o.date) /\ UpTo(o.date, q.to)
    BY <2>1, <2>3, Zenon
  <2>6. IsCivil(q.from) /\ IsCivil(q.to) /\ IsCivil(o.date)
    BY <2>2, <2>4, Zenon
  <2> QED BY <2>1, <2>2, <2>5, <2>6, Zenon
<1>2. PICK m \in Int, f \in Int, t \in Int :
        /\ m = MonthIndex(o.date) /\ f = MonthIndex(q.from) /\ t = MonthIndex(q.to)
        /\ m \in f .. t /\ o.date \in Reports!Dates(q.from, q.to)
  BY <1>1, CivilFields, DatesOfPeriod
<1>3. /\ o.date[1] = YearOf(m) /\ o.date[2] = MonthNo(m)
      /\ q.from[1] = YearOf(f) /\ q.to[1] = YearOf(t)
  BY <1>1, <1>2, DateFields DEF IsCivil
<1>4. CASE q.group = "day"
  <2>1. Reports!Key(q.group, o) = o.date
    BY <1>4 DEF Reports!Key
  <2>2. Reports!BucketKeys(q, Reports!Selected(q, operations)) = Reports!Dates(q.from, q.to)
    BY <1>4 DEF Reports!BucketKeys, Reports!Temporal, Reports!TemporalKeys
  <2> QED BY <1>2, <2>1, <2>2
<1>5. CASE q.group = "week"
  <2>1. Reports!Key(q.group, o) = Reports!Monday(o.date)
    BY <1>5 DEF Reports!Key
  <2>2. Reports!BucketKeys(q, Reports!Selected(q, operations)) = Reports!Weeks(q.from, q.to)
    BY <1>5 DEF Reports!BucketKeys, Reports!Temporal, Reports!TemporalKeys
  <2> QED BY <1>1, <2>1, <2>2, WeeksOfPeriod
<1>6. CASE q.group = "month"
  <2>1. Reports!Key(q.group, o) = <<o.date[1], o.date[2]>>
    BY <1>6 DEF Reports!Key
  <2>2. Reports!BucketKeys(q, Reports!Selected(q, operations)) = {<<YearOf(n), MonthNo(n)>> : n \in f .. t}
    <3>1. Reports!BucketKeys(q, Reports!Selected(q, operations))
            = {<<Reports!YearOf(n), Reports!MonthNo(n)>> :
                 n \in Reports!MonthIndex(q.from) .. Reports!MonthIndex(q.to)}
      BY <1>6 DEF Reports!BucketKeys, Reports!Temporal, Reports!TemporalKeys
    <3> QED BY <1>2, <3>1, SameCalendar
  <2> QED BY <1>2, <1>3, <2>1, <2>2
<1>7. CASE q.group = "year"
  <2>1. Reports!Key(q.group, o) = <<o.date[1]>>
    BY <1>7 DEF Reports!Key
  <2>2. Reports!BucketKeys(q, Reports!Selected(q, operations)) = {<<y>> : y \in q.from[1] .. q.to[1]}
    BY <1>7 DEF Reports!BucketKeys, Reports!Temporal, Reports!TemporalKeys
  <2>3. YearOf(m) \in YearOf(f) .. YearOf(t)
    <3>1. f <= m /\ m <= t
      BY <1>2
    <3>2. YearOf(f) \in Int /\ YearOf(m) \in Int /\ YearOf(t) \in Int
      BY MonthParts
    <3> QED BY <3>1, <3>2, YearsInOrder
  <2> QED BY <1>3, <2>1, <2>2, <2>3
<1>8. CASE q.group = "kind"
  <2>1. PICK k \in 1 .. 2 : Reports!Kinds[k] = o.kind /\ Reports!Key(q.group, o) = <<k>>
    <3>1. \E k \in 1 .. 2 : Reports!Kinds[k] = o.kind
      <4>1. 1 \in 1 .. 2 /\ 2 \in 1 .. 2
        OBVIOUS
      <4>2. Reports!Kinds[1] = "DEPENSE" /\ Reports!Kinds[2] = "ENTREE"
        BY DEF Reports!Kinds
      <4>3. o.kind = "DEPENSE" \/ o.kind = "ENTREE"
        BY <1>1
      <4> QED BY <4>1, <4>2, <4>3, Zenon
    <3>2. Reports!Key(q.group, o) = <<CHOOSE k \in 1 .. 2 : Reports!Kinds[k] = o.kind>>
      BY <1>8 DEF Reports!Key
    <3>3. PICK k : k = CHOOSE j \in 1 .. 2 : Reports!Kinds[j] = o.kind
      OBVIOUS
    <3>4. k \in 1 .. 2 /\ Reports!Kinds[k] = o.kind
      BY <3>1, <3>3, Zenon
    <3> QED BY <3>2, <3>3, <3>4
  <2>2. Reports!BucketKeys(q, Reports!Selected(q, operations)) = Reports!KindKeys(q)
    BY <1>8 DEF Reports!BucketKeys, Reports!Temporal
  <2> QED BY <1>1, <2>1, <2>2 DEF Reports!KindKeys
<1>9. CASE q.group \notin {"day", "week", "month", "year", "kind"}
  <2>1. Reports!BucketKeys(q, Reports!Selected(q, operations))
          = {Reports!Key(q.group, x) : x \in Reports!Selected(q, operations)}
    BY <1>9 DEF Reports!BucketKeys, Reports!Temporal
  <2> QED BY <2>1
<1> QED BY <1>4, <1>5, <1>6, <1>7, <1>8, <1>9

\* What an operation adds to the totals.
AddsTo(field, o) == CASE field = "income"  -> IF o.kind = "ENTREE" THEN o.cents ELSE 0
                       [] field = "expense" -> IF o.kind = "DEPENSE" THEN o.cents ELSE 0
                       [] OTHER             -> 1
Fields == {"income", "expense", "count"}
AreOperations(S) == /\ IsFiniteSet(S)
                    /\ \A o \in S : o.kind \in {"DEPENSE", "ENTREE"} /\ o.cents \in Int
OperationCents(S) == LET cents(o) == o.cents IN MapThenSumSet(cents, S)

\* Their amounts are added by the folds of the lemmas on sums.
LEMMA OperationCentsAdd ==
  ASSUME NEW S
  PROVE  OperationCents(S) = SumOf([r \in S |-> r.cents], S)
<1> DEFINE f == [r \in S |-> r.cents]
<1>1. \A g : Adding(g, f, S) <=>
         g = [s \in SUBSET S |-> IF s = {} THEN 0 ELSE Pick(s).cents + g[s \ {Pick(s)}]]
  <2>1. \A s \in SUBSET S : s # {} => f[Pick(s)] = Pick(s).cents
    BY PickedElement
  <2> HIDE DEF f
  <2> QED BY <2>1, Zenon DEF Adding, Added
<1> HIDE DEF f
<1> QED BY <1>1, SumChoice, Zenon DEF OperationCents, MapThenSumSet, MapThenFoldSet, Pick, f

\* The amounts of one kind are those of all with the other kind counted as nothing.
LEMMA CentsOfKind ==
  ASSUME NEW S, AreOperations(S), NEW kind, NEW f, \A o \in S : f[o] = IF o.kind = kind THEN o.cents ELSE 0
  PROVE  OperationCents({o \in S : o.kind = kind}) = SumOf(f, S) /\ SumOf(f, S) \in Int
<1> DEFINE A == {o \in S : o.kind = kind}
           B == {o \in S : o.kind # kind}
<1>1. IsFiniteSet(A) /\ IsFiniteSet(B) /\ A \cap B = {} /\ A \cup B = S
  BY FS_Subset DEF AreOperations
<1>2. \A o \in S : f[o] \in Int
  BY DEF AreOperations
<1> DEFINE g == [r \in A |-> r.cents]
<1>3. \A o \in A : g[o] = f[o]
  OBVIOUS
<1>4. \A o \in B : f[o] = 0
  OBVIOUS
<1>5. OperationCents(A) = SumOf(f, A)
  <2>1. OperationCents(A) = SumOf(g, A)
    BY OperationCentsAdd
  <2> HIDE DEF A, g
  <2>2. SumOf(g, A) = SumOf(f, A)
    BY <1>1, <1>3, SameSum
  <2> QED BY <2>1, <2>2
<1> HIDE DEF A, B, g
<1>6. SumOf(f, B) = 0
  BY <1>1, <1>4, SumOfZeros
<1>7. SumOf(f, A \cup B) = SumOf(f, A) + SumOf(f, B)
  <2>1. \A o \in A \cup B : f[o] \in Int
    BY <1>1, <1>2
  <2> QED BY <1>1, <2>1, SumOfParts
<1>8. SumOf(f, S) \in Int /\ SumOf(f, A) \in Int
  <2>1. \A o \in A : f[o] \in Int
    BY <1>1, <1>2
  <2>2. IsFiniteSet(S)
    BY DEF AreOperations
  <2> QED BY <1>1, <1>2, <2>1, <2>2, SumIsInteger
<1>9. SumOf(f, S) = SumOf(f, A) + 0
  BY <1>1, <1>6, <1>7
<1>10. SumOf(f, S) = SumOf(f, A)
  BY <1>8, <1>9
<1>11. OperationCents(A) = SumOf(f, S)
  BY <1>5, <1>10
<1> QED BY <1>8, <1>11 DEF A

\* Totals are sums.
LEMMA TotalsAreSums ==
  ASSUME NEW S, AreOperations(S), NEW field \in Fields, NEW f, \A o \in S : f[o] = AddsTo(field, o)
  PROVE  Reports!Totals(S)[field] = SumOf(f, S) /\ SumOf(f, S) \in Int
<1>1. /\ Reports!Totals(S).income = OperationCents({o \in S : o.kind = "ENTREE"})
      /\ Reports!Totals(S).expense = OperationCents({o \in S : o.kind = "DEPENSE"})
      /\ Reports!Totals(S).count = Cardinality(S)
  BY DEF Reports!Totals, OperationCents, Reports!MapThenSumSet, MapThenSumSet, Reports!MapThenFoldSet, MapThenFoldSet,
         Reports!Cardinality, Cardinality
<1>2. CASE field = "income"
  BY <1>1, <1>2, CentsOfKind DEF AddsTo
<1>3. CASE field = "expense"
  BY <1>1, <1>3, CentsOfKind DEF AddsTo
<1>4. CASE field = "count"
  <2>1. \A o \in S : f[o] = 1
    BY <1>4 DEF AddsTo
  <2>2. IsFiniteSet(S)
    BY DEF AreOperations
  <2>3. SumOf(f, S) = Cardinality(S) /\ Cardinality(S) \in Int
    BY <2>1, <2>2, CountIsSum, FS_CardinalityType
  <2> QED BY <1>1, <1>4, <2>3
<1> QED BY <1>2, <1>3, <1>4 DEF Fields

\* The sum of a field over the keys that have an operation.
FieldSum(totals, field, T) == LET part(k) == totals[k][field] IN MapThenSumSet(part, T)
WholeOf(totals, field) == FieldSum(totals, field, {k \in DOMAIN totals : totals[k].count > 0})

\* A field of the keys is added by these folds too.
LEMMA FieldSumAdd ==
  ASSUME NEW totals, NEW field, NEW T
  PROVE  FieldSum(totals, field, T) = SumOf([k \in T |-> totals[k][field]], T)
<1> DEFINE f == [k \in T |-> totals[k][field]]
<1>1. \A g : Adding(g, f, T) <=>
         g = [s \in SUBSET T |-> IF s = {} THEN 0 ELSE totals[Pick(s)][field] + g[s \ {Pick(s)}]]
  <2>1. \A s \in SUBSET T : s # {} => f[Pick(s)] = totals[Pick(s)][field]
    BY PickedElement
  <2> HIDE DEF f
  <2> QED BY <2>1, Zenon DEF Adding, Added
<1> HIDE DEF f
<1> QED BY <1>1, SumChoice, Zenon DEF FieldSum, MapThenSumSet, MapThenFoldSet, Pick, f

\* Parts of operations are operations.
LEMMA PartOfOperations ==
  ASSUME NEW S, AreOperations(S), NEW T, T \subseteq S
  PROVE  AreOperations(T)
BY FS_Subset DEF AreOperations

\* Grouped under any names that are listed, operations add up to what they were.
LEMMA WholeOfParts ==
  ASSUME NEW S, AreOperations(S), NEW name, NEW totals, \A o \in S : name[o] \in DOMAIN totals,
         \A k \in DOMAIN totals : totals[k] = Reports!Totals(Part(S, name, k)), NEW field \in Fields
  PROVE  WholeOf(totals, field) = Reports!Totals(S)[field]
<1> DEFINE f == [o \in S |-> AddsTo(field, o)]
           T == {name[o] : o \in S}
           h == [k \in T |-> totals[k][field]]
<1>1. IsFiniteSet(S) /\ IsFiniteSet(T)
  BY FiniteImage DEF AreOperations
<1>2. \A k : AreOperations(Part(S, name, k))
  BY PartOfOperations DEF Part
<1>3. {k \in DOMAIN totals : totals[k].count > 0} = T
  <2>1. ASSUME NEW k \in DOMAIN totals PROVE totals[k].count > 0 <=> k \in T
    <3>1. totals[k].count = Cardinality(Part(S, name, k))
      <4>1. totals[k] = Reports!Totals(Part(S, name, k))
        OBVIOUS
      <4>2. \A P : Reports!Totals(P).count = Cardinality(P)
        BY DEF Reports!Totals, Reports!Cardinality, Cardinality
      <4> QED BY <4>1, <4>2, Zenon
    <3>2. IsFiniteSet(Part(S, name, k))
      BY <1>2 DEF AreOperations
    <3>3. Cardinality(Part(S, name, k)) > 0 <=> Part(S, name, k) # {}
      BY <3>2, FS_CardinalityType, FS_EmptySet
    <3>4. Part(S, name, k) # {} <=> k \in T
      BY DEF Part
    <3> QED BY <3>1, <3>3, <3>4
  <2>2. T \subseteq DOMAIN totals
    OBVIOUS
  <2> HIDE DEF T
  <2> QED BY <2>1, <2>2
<1>4. WholeOf(totals, field) = SumOf(h, T)
  BY <1>3, FieldSumAdd, Zenon DEF WholeOf
<1>5. \A o \in S : f[o] \in Int
  BY DEF AddsTo, AreOperations, Fields
<1>6. \A k \in T : h[k] = SumOf(f, Part(S, name, k))
  <2>1. ASSUME NEW k \in T PROVE h[k] = SumOf(f, Part(S, name, k))
    <3>1. k \in DOMAIN totals
      OBVIOUS
    <3>2. h[k] = Reports!Totals(Part(S, name, k))[field]
      BY <3>1
    <3>3. \A o \in Part(S, name, k) : f[o] = AddsTo(field, o)
      BY DEF Part
    <3> HIDE DEF f, h, T
    <3> QED BY <1>2, <3>2, <3>3, TotalsAreSums
  <2> QED BY <2>1
<1>7. \A o \in S : f[o] = AddsTo(field, o)
  OBVIOUS
<1>8. \A o \in S : name[o] \in T
  OBVIOUS
<1> HIDE DEF f, h, T
<1>9. SumOf(f, S) = SumOf(h, T)
  BY <1>1, <1>5, <1>6, <1>8, SumByNames
<1> QED BY <1>4, <1>7, <1>9, TotalsAreSums

\* The buckets of a result hold all selected operations, and its series those of each bucket.
IsWhole(result, q, operations, field) ==
  /\ WholeOf([key \in DOMAIN result |-> result[key].total], field)
       = Reports!Totals(Reports!Selected(q, operations))[field]
  /\ q.split # "" => \A key \in DOMAIN result :
       WholeOf(result[key].series, field) = result[key].total[field]

\* An analysis loses no operation.
LEMMA WholeAnalysis ==
  ASSUME NEW q, NEW operations, Reports!IsAnalysis(q, operations),
         NEW result \in Reports!Analytics(q, operations), NEW field \in Fields
  PROVE  IsWhole(result, q, operations, field)
<1>1. PICK S : S = Reports!Selected(q, operations)
  OBVIOUS
<1> DEFINE buckets == Reports!BucketKeys(q, S)
           series == Reports!SeriesKeys(q, S)
           bucketOf == [o \in S |-> Reports!Key(q.group, o)]
           seriesOf == [o \in S |-> Reports!Key(q.split, o)]
           points(key) == [s \in series |-> Reports!Totals(Reports!InSeries(q, Reports!InBucket(q, S, key), s))]
           totals == [key \in DOMAIN result |-> result[key].total]
<1>2. result = [key \in buckets |-> [total |-> Reports!Totals(Reports!InBucket(q, S, key)), series |-> points(key)]]
  BY <1>1, Zenon DEF Reports!Analytics
<1>3. AreOperations(S)
  <2>1. S \subseteq operations
    BY <1>1 DEF Reports!Selected
  <2>2. AreOperations(operations)
    BY DEF Reports!IsAnalysis, Reports!IsFiniteSet, IsFiniteSet, AreOperations
  <2> QED BY <2>1, <2>2, PartOfOperations
<1>4. \A o \in S : bucketOf[o] \in buckets
  BY <1>1, KeyIsListed
<1>5. \A key : Reports!InBucket(q, S, key) = Part(S, bucketOf, key)
  BY DEF Reports!InBucket, Part
<1>6. /\ DOMAIN totals = buckets
      /\ \A key \in buckets : totals[key] = Reports!Totals(Part(S, bucketOf, key))
  <2>1. DOMAIN result = buckets
    BY <1>2, Zenon
  <2>2. \A key \in buckets : result[key] = [total |-> Reports!Totals(Reports!InBucket(q, S, key)), series |-> points(key)]
    BY <1>2, Zenon
  <2> HIDE DEF buckets, points, bucketOf
  <2> QED BY <1>5, <2>1, <2>2
<1>7. WholeOf(totals, field) = Reports!Totals(S)[field]
  <2> HIDE DEF totals, bucketOf, buckets
  <2> QED BY <1>3, <1>4, <1>6, WholeOfParts
<1>8. ASSUME q.split # "", NEW key \in DOMAIN result
      PROVE  WholeOf(result[key].series, field) = result[key].total[field]
  <2>1. PICK B : B = Reports!InBucket(q, S, key)
    OBVIOUS
  <2>2. PICK table, total : /\ table = result[key].series /\ total = result[key].total
                            /\ total = Reports!Totals(B)
                            /\ table = [s \in series |-> Reports!Totals(Reports!InSeries(q, B, s))]
    <3>1. DOMAIN result = buckets
      BY <1>2, Zenon
    <3>2. result[key] = [total |-> Reports!Totals(B), series |-> points(key)]
      BY <1>2, <2>1, <3>1, Zenon
    <3>3. points(key) = [s \in series |-> Reports!Totals(Reports!InSeries(q, B, s))]
      BY <2>1, Zenon
    <3> HIDE DEF points
    <3>4. result[key].total = Reports!Totals(B) /\ result[key].series = points(key)
      BY <3>2
    <3> QED BY <3>3, <3>4
  <2>3. AreOperations(B) /\ B \subseteq S
    <3>1. B \subseteq S
      BY <2>1 DEF Reports!InBucket
    <3> QED BY <1>3, <3>1, PartOfOperations
  <2>4. \A o \in B : seriesOf[o] \in series
    BY <1>8, <2>3 DEF Reports!SeriesKeys
  <2>5. \A s : Reports!InSeries(q, B, s) = Part(B, seriesOf, s)
    BY <2>3 DEF Reports!InSeries, Part
  <2> HIDE DEF series, seriesOf
  <2>6. DOMAIN table = series /\ \A s \in series : table[s] = Reports!Totals(Part(B, seriesOf, s))
    BY <2>2, <2>5
  <2>7. WholeOf(table, field) = Reports!Totals(B)[field]
    BY <2>3, <2>4, <2>6, WholeOfParts
  <2> QED BY <2>2, <2>7
<1> QED BY <1>1, <1>7, <1>8, Zenon DEF IsWhole

-----------------------------------------------------------------------------
(* Envelopes, month by month and by category.                              *)

\* The payments linked to rows, and the rows of a name.
Linked(payments, rows) == {p \in payments : p.link \in {r.id : r \in rows}}

\* What was paid and planned on rows, as the sums of these proofs.
LEMMA PaidIsSum ==
  ASSUME NEW payments, NEW rows
  PROVE  /\ Reports!Paid(payments, rows) = OperationCents(Linked(payments, rows))
         /\ Reports!PaidTimes(payments, rows) = Cardinality(Linked(payments, rows))
         /\ Reports!Planned(rows) = PlannedSums(rows)
<1>1. Reports!Paid(payments, rows) = OperationCents(Linked(payments, rows))
  BY DEF Reports!Paid, Linked, OperationCents, Reports!MapThenSumSet, MapThenSumSet, Reports!MapThenFoldSet, MapThenFoldSet
<1>2. Reports!PaidTimes(payments, rows) = Cardinality(Linked(payments, rows))
  BY DEF Reports!PaidTimes, Linked, Reports!Cardinality, Cardinality
<1>3. Reports!Planned(rows) = PlannedSums(rows)
  BY DEF Reports!Planned, PlannedSums, Reports!MapThenSumSet, MapThenSumSet, Reports!MapThenFoldSet, MapThenFoldSet
<1> QED BY <1>1, <1>2, <1>3

\* What is stored of envelopes, one fact each: a row has its own id, and its envelope and month.
LEMMA EnvelopeFacts ==
  ASSUME NEW rows, NEW payments, Reports!IsEnvelopes(rows, payments)
  PROVE  /\ IsFiniteSet(rows) /\ IsFiniteSet(payments)
         /\ \A r \in rows : r.planned \in Int
         /\ \A p \in payments : p.cents \in Int
         /\ \A r, s \in rows : r.id = s.id => r = s
         /\ \A r, s \in rows : r.source = s.source /\ r.month = s.month => r = s
BY DEF Reports!IsEnvelopes, Reports!IsFiniteSet, IsFiniteSet

\* What was paid is an integer, for any rows.
LEMMA PaidInteger ==
  ASSUME NEW rows, NEW payments, Reports!IsEnvelopes(rows, payments), NEW own
  PROVE  /\ IsFiniteSet(Linked(payments, own))
         /\ Reports!Paid(payments, own) = SumOf([p \in payments |-> p.cents], Linked(payments, own))
         /\ Reports!Paid(payments, own) \in Int
<1> DEFINE L == Linked(payments, own)
           f == [p \in payments |-> p.cents]
           g == [p \in L |-> p.cents]
<1>1. L \subseteq payments /\ IsFiniteSet(L)
  BY EnvelopeFacts, FS_Subset DEF Linked
<1>2. \A p \in L : f[p] = g[p] /\ f[p] \in Int
  BY <1>1, EnvelopeFacts
<1>3. Reports!Paid(payments, own) = SumOf(g, L)
  BY PaidIsSum, OperationCentsAdd
<1> HIDE DEF f, g, L
<1>4. SumOf(g, L) = SumOf(f, L) /\ SumOf(f, L) \in Int
  BY <1>1, <1>2, SameSum, SumIsInteger
<1> QED BY <1>1, <1>3, <1>4 DEF f, L

\* Payments may be added up by any name of their rows.
LEMMA PaidByNames ==
  ASSUME NEW rows, NEW payments, Reports!IsEnvelopes(rows, payments), NEW own, own \subseteq rows,
         NEW name, NEW T, IsFiniteSet(T), \A r \in own : name[r] \in T,
         NEW h, \A t \in T : h[t] = Reports!Paid(payments, Part(own, name, t))
  PROVE  Reports!Paid(payments, own) = SumOf(h, T)
<1> DEFINE L == Linked(payments, own)
           f == [p \in payments |-> p.cents]
           rowOf == [p \in L |-> CHOOSE r \in own : r.id = p.link]
           nameOf == [p \in L |-> name[rowOf[p]]]
<1>1. L \subseteq payments /\ IsFiniteSet(L)
  BY PaidInteger DEF Linked
<1>2. \A p \in L : rowOf[p] \in own /\ rowOf[p].id = p.link
  BY DEF Linked
<1>3. \A t \in T : Linked(payments, Part(own, name, t)) = Part(L, nameOf, t)
  <2>1. ASSUME NEW t \in T, NEW p \in Linked(payments, Part(own, name, t)) PROVE p \in Part(L, nameOf, t)
    <3>1. PICK r \in own : name[r] = t /\ p.link = r.id
      BY <2>1 DEF Linked, Part
    <3>2. p \in L
      BY <2>1, <3>1 DEF Linked
    <3>3. rowOf[p] = r
      BY <1>2, <3>1, <3>2, EnvelopeFacts
    <3> QED BY <3>1, <3>2, <3>3 DEF Part
  <2>2. ASSUME NEW t \in T, NEW p \in Part(L, nameOf, t) PROVE p \in Linked(payments, Part(own, name, t))
    <3>1. p \in L /\ name[rowOf[p]] = t
      BY <2>2 DEF Part
    <3>2. PICK r \in own : r = rowOf[p] /\ r.id = p.link
      BY <1>2, <3>1
    <3>3. r \in Part(own, name, t) /\ p \in payments
      BY <1>1, <3>1, <3>2 DEF Part
    <3> QED BY <3>2, <3>3 DEF Linked
  <2> QED BY <2>1, <2>2
<1>4. \A p \in L : f[p] \in Int
  BY <1>1, EnvelopeFacts
<1>5. \A p \in L : nameOf[p] \in T
  BY <1>2
<1>6. \A t \in T : h[t] = SumOf(f, Linked(payments, Part(own, name, t)))
  BY PaidInteger
<1>7. Reports!Paid(payments, own) = SumOf(f, L)
  BY PaidInteger
<1> HIDE DEF f, nameOf, L
<1>8. \A t \in T : h[t] = SumOf(f, Part(L, nameOf, t))
  BY <1>3, <1>6
<1>9. SumOf(f, L) = SumOf(h, T)
  BY <1>1, <1>4, <1>5, <1>8, SumByNames
<1> QED BY <1>7, <1>9

\* What an envelope tells of one of its rows.
Told(r, payments) == [month |-> r.month, planned |-> r.planned, actual |-> Reports!Paid(payments, {r}),
                      count |-> Reports!PaidTimes(payments, {r})]
CategoryRows(k, rows) == {r \in rows : r.category = k}
Months(rows) == {r.month : r \in rows}

\* An envelope has one month for each of its rows.
LEMMA ToldOnce ==
  ASSUME NEW rows, NEW payments, Reports!IsEnvelopes(rows, payments), NEW r \in rows
  PROVE  /\ Told(r, payments) \in Reports!EnvelopeMonths(r.source, rows, payments)
         /\ \A x \in Reports!EnvelopeMonths(r.source, rows, payments) :
              x.month = r.month => x = Told(r, payments)
         /\ (CHOOSE x \in Reports!EnvelopeMonths(r.source, rows, payments) : x.month = r.month)
              = Told(r, payments)
<1>1. Reports!EnvelopeMonths(r.source, rows, payments)
        = {Told(s, payments) : s \in {t \in rows : t.source = r.source}}
  BY DEF Reports!EnvelopeMonths, Told
<1>2. \A s \in rows : Told(s, payments).month = s.month
  BY DEF Told
<1>3. \A s \in rows : s.source = r.source /\ s.month = r.month => s = r
  BY EnvelopeFacts
<1>4. Told(r, payments) \in Reports!EnvelopeMonths(r.source, rows, payments)
  BY <1>1
<1>5. \A x \in Reports!EnvelopeMonths(r.source, rows, payments) : x.month = r.month => x = Told(r, payments)
  BY <1>1, <1>2, <1>3
<1> QED BY <1>2, <1>4, <1>5

\* The totals of one row are its own.
LEMMA OneRow ==
  ASSUME NEW rows, NEW payments, Reports!IsEnvelopes(rows, payments), NEW r \in rows
  PROVE  /\ Reports!Planned({r}) = r.planned
         /\ Reports!CategoryCount({r}, payments) = Reports!PaidTimes(payments, {r})
<1> DEFINE f == [o \in {r} |-> o.planned]
<1>1. Reports!Planned({r}) = SumOf(f, {r})
  BY PaidIsSum, PlannedSumsAdd
<1>2. f[r] = r.planned /\ r.planned \in Int
  BY EnvelopeFacts
<1> HIDE DEF f
<1>3. SumOf(f, {r}) = f[r] + SumOf(f, {r} \ {r})
  <2>1. PICK S : S = {r}
    OBVIOUS
  <2>2. IsFiniteSet(S) /\ r \in S /\ \A x \in S : f[x] \in Int
    BY <1>2, <2>1, FS_Singleton
  <2> QED BY <2>1, <2>2, SumElement
<1>4. SumOf(f, {r} \ {r}) = 0
  <2>1. {r} \ {r} = {}
    OBVIOUS
  <2> QED BY <2>1, SumOfNothing
<1>5. Reports!Planned({r}) = r.planned
  BY <1>1, <1>2, <1>3, <1>4
<1>6. Reports!CategoryCount({r}, payments) = Reports!PaidTimes(payments, {r})
  BY DEF Reports!CategoryCount
<1> QED BY <1>5, <1>6

\* What a category tells of a month.
CategoryTold(k, m, rows, payments) ==
  [month |-> m, planned |-> Reports!Planned(Reports!InCategory(k, m, rows)),
   actual |-> Reports!Paid(payments, Reports!InCategory(k, m, rows)),
   count |-> Reports!CategoryCount(Reports!InCategory(k, m, rows), payments)]

\* A category tells of each month in which it has a row, once.
LEMMA CategoryMonth ==
  ASSUME NEW rows, NEW payments, NEW k
  PROVE  /\ Reports!CategoryMonths(k, rows, payments)
              = {CategoryTold(k, m, rows, payments) : m \in Months(CategoryRows(k, rows))}
         /\ \A m : CategoryTold(k, m, rows, payments).month = m
<1>1. Reports!CategoryMonths(k, rows, payments)
        = {CategoryTold(k, m, rows, payments) : m \in Months(CategoryRows(k, rows))}
  BY DEF Reports!CategoryMonths, CategoryTold, Months, CategoryRows
<1> QED BY <1>1 DEF CategoryTold

\* A category of a single envelope tells what the envelope tells.
LEMMA SingleEnvelope ==
  ASSUME NEW rows, NEW payments, Reports!IsEnvelopes(rows, payments), NEW k, NEW s,
         CategoryRows(k, rows) = {r \in rows : r.source = s}
  PROVE  Reports!CategoryMonths(k, rows, payments) = Reports!EnvelopeMonths(s, rows, payments)
<1>1. Reports!EnvelopeMonths(s, rows, payments)
        = {Told(r, payments) : r \in CategoryRows(k, rows)}
  BY DEF Reports!EnvelopeMonths, Told
<1>2. ASSUME NEW r \in CategoryRows(k, rows)
      PROVE  CategoryTold(k, r.month, rows, payments) = Told(r, payments)
  <2>1. r \in rows /\ r.source = s
    BY <1>2
  <2>2. Reports!InCategory(k, r.month, rows) = {r}
    <3>1. \A o \in rows : o.source = r.source /\ o.month = r.month => o = r
      BY <2>1, EnvelopeFacts
    <3>2. Reports!InCategory(k, r.month, rows) = {o \in CategoryRows(k, rows) : o.month = r.month}
      BY DEF Reports!InCategory, CategoryRows
    <3> QED BY <2>1, <3>1, <3>2
  <2> QED BY <2>1, <2>2, OneRow DEF CategoryTold, Told
<1> QED BY <1>1, <1>2, CategoryMonth DEF Months

\* What rows of one month were told, added up by envelope.
MonthSum(months, T, m, field) ==
  LET part(s) == (CHOOSE x \in months[s] : x.month = m)[field] IN MapThenSumSet(part, T)

\* It is a fold over the envelopes.
LEMMA MonthSumAdd ==
  ASSUME NEW months, NEW m, NEW field, NEW T
  PROVE  MonthSum(months, T, m, field)
           = SumOf([s \in T |-> (CHOOSE x \in months[s] : x.month = m)[field]], T)
<1> DEFINE f == [s \in T |-> (CHOOSE x \in months[s] : x.month = m)[field]]
<1>1. \A g : Adding(g, f, T) <=>
         g = [S \in SUBSET T |-> IF S = {} THEN 0
                                 ELSE (CHOOSE x \in months[Pick(S)] : x.month = m)[field] + g[S \ {Pick(S)}]]
  <2>1. \A S \in SUBSET T : S # {} => f[Pick(S)] = (CHOOSE x \in months[Pick(S)] : x.month = m)[field]
    BY PickedElement
  <2> HIDE DEF f
  <2> QED BY <2>1, Zenon DEF Adding, Added
<1> HIDE DEF f
<1> QED BY <1>1, SumChoice, Zenon DEF MonthSum, MapThenSumSet, MapThenFoldSet, Pick, f

\* A category tells of a month the sum of what its envelopes tell.
LEMMA CategoryOfMonth ==
  ASSUME NEW rows, NEW payments, Reports!IsEnvelopes(rows, payments), NEW k, NEW m, NEW months,
         \A r \in rows : months[r.source] = Reports!EnvelopeMonths(r.source, rows, payments)
  PROVE  LET own == Reports!InCategory(k, m, rows)
             T == {r.source : r \in own} IN
         /\ Reports!Planned(own) = MonthSum(months, T, m, "planned")
         /\ Reports!Paid(payments, own) = MonthSum(months, T, m, "actual")
<1>1. PICK own : own = Reports!InCategory(k, m, rows)
  OBVIOUS
<1>2. PICK T : T = {r.source : r \in own}
  OBVIOUS
<1>3. own \subseteq rows /\ IsFiniteSet(own) /\ \A r \in own : r.month = m
  <2>1. own \subseteq rows /\ \A r \in own : r.month = m
    BY <1>1 DEF Reports!InCategory
  <2> QED BY <2>1, EnvelopeFacts, FS_Subset
<1> DEFINE name == [r \in own |-> r.source]
           f == [r \in own |-> r.planned]
           said(s) == CHOOSE x \in months[s] : x.month = m
           planned == [s \in T |-> said(s)["planned"]]
           actual == [s \in T |-> said(s)["actual"]]
<1>4. name \in [own -> T] /\ \A s \in T : \E r \in own : name[r] = s
  BY <1>2
<1>5. IsFiniteSet(T)
  <2>1. T = {name[r] : r \in own}
    BY <1>2
  <2> HIDE DEF name
  <2> QED BY <1>3, <2>1, FiniteImage
<1>6. \A q, r \in own : name[q] = name[r] => q = r
  BY <1>3, EnvelopeFacts
<1>7. \A r \in own : said(r.source) = Told(r, payments)
  BY <1>3, ToldOnce
<1>8. \A r \in own : planned[name[r]] = r.planned /\ actual[name[r]] = Reports!Paid(payments, {r})
  <2>1. ASSUME NEW r \in own
        PROVE  planned[name[r]] = r.planned /\ actual[name[r]] = Reports!Paid(payments, {r})
    <3>1. name[r] = r.source /\ r.source \in T
      BY <1>2
    <3>2. planned[name[r]] = said(r.source)["planned"] /\ actual[name[r]] = said(r.source)["actual"]
      BY <3>1
    <3>3. said(r.source) = Told(r, payments)
      BY <1>7
    <3>4. Told(r, payments)["planned"] = r.planned /\ Told(r, payments)["actual"] = Reports!Paid(payments, {r})
      BY DEF Told
    <3> HIDE DEF said, planned, actual, name
    <3> QED BY <3>2, <3>3, <3>4
  <2> QED BY <2>1
<1>9. \A r \in own : f[r] = r.planned /\ r.planned \in Int
  BY <1>3, EnvelopeFacts
<1>10. Reports!Planned(own) = SumOf(f, own)
  BY PaidIsSum, PlannedSumsAdd
<1>11. MonthSum(months, T, m, "planned") = SumOf(planned, T) /\ MonthSum(months, T, m, "actual") = SumOf(actual, T)
  BY MonthSumAdd
<1> HIDE DEF name, f, planned, actual
<1>12. SumOf(planned, T) = SumOf(f, own)
  <2>1. \A r \in own : f[r] \in Int /\ planned[name[r]] = f[r]
    BY <1>8, <1>9
  <2> QED BY <1>3, <1>4, <1>6, <2>1, SumRenamed
<1>13. Reports!Paid(payments, own) = SumOf(actual, T)
  <2>1. \A s \in T : actual[s] = Reports!Paid(payments, Part(own, name, s))
    <3>1. ASSUME NEW s \in T PROVE actual[s] = Reports!Paid(payments, Part(own, name, s))
      <4>1. PICK r \in own : name[r] = s
        BY <1>4
      <4>2. Part(own, name, s) = {r}
        BY <1>6, <4>1 DEF Part
      <4> QED BY <1>8, <4>1, <4>2
    <3> QED BY <3>1
  <2>2. \A r \in own : name[r] \in T
    BY <1>4
  <2> QED BY <1>3, <1>5, <2>1, <2>2, PaidByNames
<1> QED BY <1>1, <1>2, <1>10, <1>11, <1>12, <1>13

\* Rows have payments when a payment is linked to one of them.
LEMMA HasPayments ==
  ASSUME NEW rows, NEW payments, Reports!IsEnvelopes(rows, payments), NEW own
  PROVE  /\ Reports!PaidTimes(payments, own) \in Nat
         /\ Reports!PaidTimes(payments, own) > 0 <=> Linked(payments, own) # {}
<1>1. IsFiniteSet(Linked(payments, own))
  BY PaidInteger
<1> QED BY <1>1, PaidIsSum, FS_CardinalityType, FS_EmptySet

\* The months an envelope or a category counts in its means.
SampledMonths(months, current) == {x.month : x \in Reports!Sample(months, current)}

\* A month is in the sample of a category when it is in that of each of its envelopes.
LEMMA SampledTogether ==
  ASSUME NEW rows, NEW payments, Reports!IsEnvelopes(rows, payments), NEW k, NEW months, NEW current,
         \A r \in rows : months[r.source] = Reports!EnvelopeMonths(r.source, rows, payments),
         NEW x \in Reports!CategoryMonths(k, rows, payments)
  PROVE  x \in Reports!Sample(Reports!CategoryMonths(k, rows, payments), current)
           <=> \A r \in Reports!InCategory(k, x.month, rows) : x.month \in SampledMonths(months[r.source], current)
<1>1. PICK m \in Months(CategoryRows(k, rows)) : x = CategoryTold(k, m, rows, payments) /\ x.month = m
  BY CategoryMonth
<1>2. PICK own : own = Reports!InCategory(k, m, rows) /\ own \subseteq rows /\ \A r \in own : r.month = m
  <2>1. /\ Reports!InCategory(k, m, rows) \subseteq rows
        /\ \A r \in Reports!InCategory(k, m, rows) : r.month = m
    BY DEF Reports!InCategory
  <2> QED BY <2>1
<1>3. own # {}
  BY <1>1, <1>2 DEF Reports!InCategory, Months, CategoryRows
<1>4. x.count > 0 <=> \A r \in own : Reports!PaidTimes(payments, {r}) > 0
  <2>1. x.count = Reports!CategoryCount(own, payments)
    BY <1>1, <1>2 DEF CategoryTold
  <2>2. CASE \E r \in own : Reports!PaidTimes(payments, {r}) = 0
    <3>1. x.count = 0
      BY <2>1, <2>2 DEF Reports!CategoryCount
    <3> QED BY <2>2, <3>1
  <2>3. CASE ~ \E r \in own : Reports!PaidTimes(payments, {r}) = 0
    <3>1. \A r \in own : Reports!PaidTimes(payments, {r}) > 0
      BY <2>3, HasPayments
    <3>2. PICK r \in own : Linked(payments, {r}) # {}
      BY <1>3, <3>1, HasPayments
    <3>3. Linked(payments, own) # {}
      BY <3>2 DEF Linked
    <3>4. x.count > 0
      BY <2>1, <2>3, <3>3, HasPayments DEF Reports!CategoryCount
    <3> QED BY <3>1, <3>4
  <2> QED BY <2>2, <2>3
<1>5. x \in Reports!Sample(Reports!CategoryMonths(k, rows, payments), current) <=> m < current /\ x.count > 0
  BY <1>1 DEF Reports!Sample
<1>6. ASSUME NEW r \in own
      PROVE  m \in SampledMonths(months[r.source], current)
               <=> m < current /\ Reports!PaidTimes(payments, {r}) > 0
  <2>1. r \in rows /\ r.month = m
    BY <1>2
  <2>2. PICK told : told = Told(r, payments) /\ told.month = m /\ told.count = Reports!PaidTimes(payments, {r})
    <3>1. Told(r, payments).month = r.month /\ Told(r, payments).count = Reports!PaidTimes(payments, {r})
      BY DEF Told
    <3> QED BY <2>1, <3>1
  <2>3. PICK of : of = months[r.source] /\ told \in of /\ \A y \in of : y.month = m => y = told
    BY <2>1, <2>2, ToldOnce
  <2> QED BY <2>2, <2>3 DEF SampledMonths, Reports!Sample
<1> QED BY <1>1, <1>2, <1>3, <1>4, <1>5, <1>6

\* What was spent on envelopes, and in the months of a category.
SpentBy(totals, T) == LET spent(s) == totals[s].actual IN MapThenSumSet(spent, T)
ActualSum(S) == MapThenSumSet(LAMBDA x : x.actual, S)
SpentIn(months, T) == LET ofCategory(k) == MapThenSumSet(LAMBDA x : x.actual, months[k])
                      IN MapThenSumSet(ofCategory, T)

\* What was spent is a fold over the envelopes.
LEMMA SpentByAdd ==
  ASSUME NEW totals, NEW T
  PROVE  SpentBy(totals, T) = SumOf([s \in T |-> totals[s].actual], T)
<1> DEFINE f == [s \in T |-> totals[s].actual]
<1>1. \A g : Adding(g, f, T) <=>
         g = [S \in SUBSET T |-> IF S = {} THEN 0 ELSE totals[Pick(S)].actual + g[S \ {Pick(S)}]]
  <2>1. \A S \in SUBSET T : S # {} => f[Pick(S)] = totals[Pick(S)].actual
    BY PickedElement
  <2> HIDE DEF f
  <2> QED BY <2>1, Zenon DEF Adding, Added
<1> HIDE DEF f
<1> QED BY <1>1, SumChoice, Zenon DEF SpentBy, MapThenSumSet, MapThenFoldSet, Pick, f

\* What was spent in the months of one category is a fold over what is told of them.
LEMMA ActualSumAdd ==
  ASSUME NEW T
  PROVE  ActualSum(T) = SumOf([x \in T |-> x.actual], T)
<1> DEFINE f == [x \in T |-> x.actual]
<1>1. \A g : Adding(g, f, T) <=>
         g = [S \in SUBSET T |-> IF S = {} THEN 0 ELSE Pick(S).actual + g[S \ {Pick(S)}]]
  <2>1. \A S \in SUBSET T : S # {} => f[Pick(S)] = Pick(S).actual
    BY PickedElement
  <2> HIDE DEF f
  <2> QED BY <2>1, Zenon DEF Adding, Added
<1> HIDE DEF f
<1> QED BY <1>1, SumChoice, Zenon DEF ActualSum, MapThenSumSet, MapThenFoldSet, Pick, f

\* What was spent in all categories is a fold over the categories.
LEMMA SpentInAdd ==
  ASSUME NEW months, NEW T
  PROVE  SpentIn(months, T) = SumOf([k \in T |-> ActualSum(months[k])], T)
<1> DEFINE f == [k \in T |-> ActualSum(months[k])]
<1>1. SpentIn(months, T) = MapThenSumSet(LAMBDA k : ActualSum(months[k]), T)
  BY Zenon DEF SpentIn, ActualSum
<1>2. \A g : Adding(g, f, T) <=>
         g = [S \in SUBSET T |-> IF S = {} THEN 0 ELSE ActualSum(months[Pick(S)]) + g[S \ {Pick(S)}]]
  <2>1. \A S \in SUBSET T : S # {} => f[Pick(S)] = ActualSum(months[Pick(S)])
    BY PickedElement
  <2> HIDE DEF f
  <2> QED BY <2>1, Zenon DEF Adding, Added
<1> HIDE DEF f
<1> QED BY <1>1, <1>2, SumChoice, Zenon DEF MapThenSumSet, MapThenFoldSet, Pick, f

\* A category tells of all its months what was paid for its rows.
LEMMA SpentInCategory ==
  ASSUME NEW rows, NEW payments, Reports!IsEnvelopes(rows, payments), NEW k
  PROVE  ActualSum(Reports!CategoryMonths(k, rows, payments)) = Reports!Paid(payments, CategoryRows(k, rows))
<1>1. PICK own : own = CategoryRows(k, rows) /\ own \subseteq rows /\ IsFiniteSet(own)
  <2>1. CategoryRows(k, rows) \subseteq rows
    BY DEF CategoryRows
  <2> QED BY <2>1, EnvelopeFacts, FS_Subset
<1> DEFINE M == Months(own)
           R == Reports!CategoryMonths(k, rows, payments)
           month == [r \in own |-> r.month]
           told == [m \in M |-> CategoryTold(k, m, rows, payments)]
           paid == [m \in M |-> Reports!Paid(payments, Part(own, month, m))]
           actual == [x \in R |-> x.actual]
<1>2. IsFiniteSet(M)
  <2>1. M = {month[r] : r \in own}
    BY DEF Months
  <2> HIDE DEF month, M
  <2> QED BY <1>1, <2>1, FiniteImage
<1>3. told \in [M -> R] /\ \A x \in R : \E m \in M : told[m] = x
  BY <1>1, CategoryMonth
<1>4. \A m, n \in M : told[m] = told[n] => m = n
  <2>1. \A m \in M : told[m].month = m
    BY DEF CategoryTold
  <2> HIDE DEF told, M
  <2> QED BY <2>1
<1>5. ASSUME NEW m \in M PROVE paid[m] \in Int /\ actual[told[m]] = paid[m]
  <2>1. Part(own, month, m) = Reports!InCategory(k, m, rows)
    BY <1>1 DEF Part, Reports!InCategory, CategoryRows
  <2>2. told[m].actual = Reports!Paid(payments, Reports!InCategory(k, m, rows))
    BY DEF CategoryTold
  <2>3. paid[m] = told[m].actual /\ paid[m] \in Int
    BY <2>1, <2>2, PaidInteger
  <2>4. told[m] \in R
    BY <1>3
  <2> HIDE DEF told, paid, R
  <2> QED BY <2>3, <2>4
<1>6. ActualSum(R) = SumOf(actual, R)
  BY ActualSumAdd
<1>7. Reports!Paid(payments, own) = SumOf(paid, M)
  <2>1. \A r \in own : month[r] \in M
    BY DEF Months
  <2>2. \A m \in M : paid[m] = Reports!Paid(payments, Part(own, month, m))
    OBVIOUS
  <2> HIDE DEF month, paid, M
  <2> QED BY <1>1, <1>2, <2>1, <2>2, PaidByNames
<1> HIDE DEF M, R, told, paid, actual
<1>8. SumOf(actual, R) = SumOf(paid, M)
  BY <1>2, <1>3, <1>4, <1>5, SumRenamed
<1> QED BY <1>1, <1>6, <1>7, <1>8 DEF R

\* All categories tell as much as all envelopes.
LEMMA SpentOnce ==
  ASSUME NEW rows, NEW payments, Reports!IsEnvelopes(rows, payments),
         NEW sources, sources = {r.source : r \in rows},
         NEW categories, categories = {r.category : r \in rows}
  PROVE  SpentBy([s \in sources |-> Reports!EnvelopeTotals(s, rows, payments)], sources)
           = SpentIn([k \in categories |-> Reports!CategoryMonths(k, rows, payments)], categories)
<1> DEFINE source == [r \in rows |-> r.source]
           category == [r \in rows |-> r.category]
           totals == [s \in sources |-> Reports!EnvelopeTotals(s, rows, payments)]
           months == [k \in categories |-> Reports!CategoryMonths(k, rows, payments)]
           f == [s \in sources |-> totals[s].actual]
           g == [k \in categories |-> ActualSum(months[k])]
<1>1. IsFiniteSet(rows)
  BY EnvelopeFacts
<1>2. IsFiniteSet(sources) /\ IsFiniteSet(categories)
  <2>1. sources = {source[r] : r \in rows}
    OBVIOUS
  <2>2. categories = {category[r] : r \in rows}
    OBVIOUS
  <2> HIDE DEF source, category
  <2>3. IsFiniteSet(sources)
    BY ONLY <1>1, <2>1, FiniteImage
  <2>4. IsFiniteSet(categories)
    BY ONLY <1>1, <2>2, FiniteImage
  <2> QED BY <2>3, <2>4
<1>3. ASSUME NEW s \in sources PROVE f[s] = Reports!Paid(payments, Part(rows, source, s))
  <2>1. Part(rows, source, s) = {r \in rows : r.source = s}
    BY DEF Part
  <2>2. totals[s].actual = Reports!Paid(payments, {r \in rows : r.source = s})
    BY DEF Reports!EnvelopeTotals, Reports!Metrics
  <2>3. f[s] = totals[s].actual
    OBVIOUS
  <2> QED BY <2>1, <2>2, <2>3
<1>4. ASSUME NEW k \in categories PROVE g[k] = Reports!Paid(payments, Part(rows, category, k))
  <2>1. Part(rows, category, k) = CategoryRows(k, rows)
    BY DEF Part, CategoryRows
  <2>2. g[k] = ActualSum(Reports!CategoryMonths(k, rows, payments))
    OBVIOUS
  <2> QED BY <2>1, <2>2, SpentInCategory
<1>5. \A r \in rows : source[r] \in sources /\ category[r] \in categories
  OBVIOUS
<1>6. SpentBy(totals, sources) = SumOf(f, sources) /\ SpentIn(months, categories) = SumOf(g, categories)
  BY SpentByAdd, SpentInAdd
<1> HIDE DEF source, category, f, g
<1>9. rows \subseteq rows /\ Reports!IsEnvelopes(rows, payments)
  OBVIOUS
<1>7. Reports!Paid(payments, rows) = SumOf(f, sources)
  BY ONLY <1>2, <1>3, <1>5, <1>9, PaidByNames
<1>8. Reports!Paid(payments, rows) = SumOf(g, categories)
  BY ONLY <1>2, <1>4, <1>5, <1>9, PaidByNames
<1> QED BY <1>6, <1>7, <1>8

-----------------------------------------------------------------------------
(* The requests and their answers.                                         *)

\* What is asked stays one of the cases.
Asked == /\ request.of = "dates" => request.on \in RuleCases
         /\ request.of = "charges" => request.on \in ChargeCases
         /\ request.of = "releases" => request.on \in ReleaseCases
         /\ request.of = "deployments" => request.on \in DeploymentCases
         /\ request.of = "month" => request.on \in MonthCases
         /\ request.of = "plans" => request.on \in PlanCases
         /\ request.of = "horizon" => request.on \in HorizonCases
         /\ request.of = "analytics" => request.on \in AnalyticsCases
         /\ request.of = "envelopes" => request.on \in EnvelopeCases

\* what BalanceReplacesPlans compares of the views of one month
IsMonthView(view, b, p, savings) ==
  LET last == DaysIn(b.month) IN
  /\ view.balance = Balance(b)
  /\ view.planned = TrackedPlanned(b, "ENTREE") - TrackedPlanned(b, "DEPENSE")
  /\ view.projected = Projected(b, "ENTREE") - Projected(b, "DEPENSE")
  /\ \A d \in 1 .. last : view.daily[d] = DailyBalance(b, d)
  /\ view.forecast = ForecastBalance(b, p, savings)
  /\ \A d \in 1 .. last : view.dailyForecast[d] = DailyForecast(b, p, savings, d)
  /\ \A d \in 1 .. last : view.dailyRemaining[d] = DailyRemaining(b, p, d)

\* what the views of the coming months stand for
IsWindowView(view, w) ==
  /\ view.remaining = Projection(w)
  /\ \A k \in Shown(w) :
       /\ view.weekly[k] = WeeklyAllowance(Projection(w)[k], RemainingDays(MonthAhead(w, k, 0)))
       /\ view.capacity[k] = Capacity(w, k)
  /\ \A mode \in Modes : view.course[mode] = Trajectory(w, mode)
  /\ \A mode \in Modes : view.scheduled[mode] = ScheduledReach(w, Trajectory(w, mode))
  /\ \A i \in DOMAIN w.goals :
       /\ view.gap[i] = Gap(w.goals[i], w.budgets[1].today)
       /\ view.status[i] = Status(w.goals[i], w.budgets[1].today)
       /\ view.reach[i] = ReachMonth(w.goals[i], w.budgets[1].today)

\* what EnvelopeViewsAgree compares of the views of the envelopes
IsEnvelopesView(view, c) ==
  LET sources == {r.source : r \in c.rows}
      categories == {r.category : r \in c.rows}
      byEnvelope(s) == Reports!EnvelopeMonths(s, c.rows, c.payments)
      byCategory(k) == Reports!CategoryMonths(k, c.rows, c.payments) IN
  /\ view.months = [s \in sources |-> byEnvelope(s)]
  /\ view.totals = [s \in sources |-> Reports!EnvelopeTotals(s, c.rows, c.payments)]
  /\ view.means = [s \in sources |-> Reports!Statistics(byEnvelope(s), c.current)]
  /\ view.categoryMonths = [k \in categories |-> byCategory(k)]
  /\ view.categoryMeans = [k \in categories |-> Reports!Statistics(byCategory(k), c.current)]

\* An answer is about what was asked.
Answered ==
  /\ answer.of = "dates" =>
       /\ request.of = "dates"
       /\ answer.decided = OccurrencesIn(request.on.rule, request.on.month)
       /\ answer.listed = PlannedDates(request.on.rule, DatesIn(request.on.month))
  /\ answer.of = "charges" =>
       /\ request.of = "charges"
       /\ answer.month = Charges!MonthTotals(request.on.rows)
       /\ answer.current = Charges!SqlTotals(request.on.rows)
       /\ answer.base = Charges!Reconciled(Charges!MonthTotals(request.on.rows),
                                           request.on.occurrences, request.on.rows)
  /\ answer.of = "releases" =>
       /\ request.of = "releases"
       /\ answer.trees = Releases!Trees(request.on.tree, request.on.runs)
  /\ answer.of = "deployments" =>
       /\ request.of = "deployments"
       /\ answer.servers = Deployments!Servers(request.on.server, request.on.runs)
  /\ answer.of = "month" =>
       /\ request.of = "month"
       /\ IsMonthView(answer, request.on.budget, request.on.planned, request.on.savings)
  /\ answer.of = "plans" => request.of = "plans" /\ IsPlanView(answer, request.on)
  /\ answer.of = "horizon" =>
       request.of = "horizon" /\ ValidWindow(request.on) /\ IsWindowView(answer, request.on)
  /\ answer.of = "analytics" =>
       /\ request.of = "analytics"
       /\ answer.result = Reports!Analytics(request.on.query, request.on.operations)
  /\ answer.of = "envelopes" => request.of = "envelopes" /\ IsEnvelopesView(answer, request.on)

IInv == Asked /\ Answered

\* Nothing is answered at first.
LEMMA InitInvariant == Init => IInv
<1> SUFFICES ASSUME Init PROVE IInv
  OBVIOUS
<1>1. Asked
  BY DEF Init, Ask, Asked
<1>2. Answered
  BY DEF Init, NoAnswer, Answered
<1> QED BY <1>1, <1>2 DEF IInv

\* A step keeps the request.
LEMMA RequestKept == Next => request' = request
BY Zenon DEF Next, Expand, PlanEvents, ForecastMonth, PlanGoals, TotalCharges, Analyse, ReportEnvelopes,
             PrepareReleases, Deploy, Reply

\* Every step keeps what the requests and the answers stand for.
LEMMA NextKeeps == IInv /\ [Next]_vars => IInv'
<1> SUFFICES ASSUME IInv, [Next]_vars PROVE IInv'
  OBVIOUS
<1>1. CASE UNCHANGED vars
  BY <1>1 DEF vars, IInv, Asked, Answered
<1>2. CASE Next
  <2>1. request' = request
    BY <1>2, RequestKept
  <2>2. Asked'
    BY <2>1 DEF IInv, Asked
  <2>3. ASSUME Expand PROVE Answered'
    BY <2>1, <2>3 DEF Expand, Reply, Answered
  <2>4. ASSUME PlanEvents PROVE Answered'
    BY <2>1, <2>4 DEF PlanEvents, Reply, Answered, IsPlanView
  <2>5. ASSUME ForecastMonth PROVE Answered'
    BY <2>1, <2>5 DEF ForecastMonth, Reply, Answered, IsMonthView
  <2>6. ASSUME PlanGoals PROVE Answered'
    BY <2>1, <2>6 DEF PlanGoals, Reply, Answered, IsWindowView
  <2>7. ASSUME TotalCharges PROVE Answered'
    BY <2>1, <2>7 DEF TotalCharges, Reply, Answered
  <2>8. ASSUME Analyse PROVE Answered'
    BY <2>1, <2>8 DEF Analyse, Reply, Answered
  <2>9. ASSUME ReportEnvelopes PROVE Answered'
    BY <2>1, <2>9 DEF ReportEnvelopes, Reply, Answered, IsEnvelopesView
  <2>10. ASSUME PrepareReleases PROVE Answered'
    BY <2>1, <2>10 DEF PrepareReleases, Reply, Answered
  <2>11. ASSUME Deploy PROVE Answered'
    BY <2>1, <2>11 DEF Deploy, Reply, Answered
  <2>12. Answered'
    BY <1>2, <2>3, <2>4, <2>5, <2>6, <2>7, <2>8, <2>9, <2>10, <2>11, Zenon DEF Next
  <2> QED BY <2>2, <2>12 DEF IInv
<1> QED BY <1>1, <1>2

\* Every answer that was given is what the code computes of a case.
THEOREM AnswersFollowRequests == Spec => []IInv
BY InitInvariant, NextKeeps, PTL DEF Spec

\* Decisions and lists find the same dates, for every rule in every month: a start on the 31st,
\* leap years, weeks that cross months and years, ends before the month.
THEOREM DatesAlwaysAgree == Spec => []OccurrencesAgree
<1>1. IInv => OccurrencesAgree
  <2> SUFFICES ASSUME IInv, answer.of = "dates" PROVE answer.decided = answer.listed
    BY DEF OccurrencesAgree
  <2>1. PICK c \in RuleCases : c = request.on
    BY DEF IInv, Asked, Answered
  <2>2. OccurrencesIn(c.rule, c.month) = PlannedDates(c.rule, DatesIn(c.month))
    BY SameDates, RuleAssumption
  <2> QED BY <2>1, <2>2 DEF IInv, Answered
<1> QED BY <1>1, AnswersFollowRequests, PTL

\* Whatever rows a month has, both totals agree to the cent, and an occurrence stands for its row.
THEOREM FixedTotalsAlwaysAgree == Spec => []FixedTotalsAgree
<1>1. IInv => FixedTotalsAgree
  <2> SUFFICES ASSUME IInv, answer.of = "charges" PROVE FixedTotalsAgree
    BY DEF FixedTotalsAgree
  <2>1. PICK c \in ChargeCases : c = request.on
    BY DEF IInv, Asked, Answered
  <2>2. Charges!IsMonth(c.rows, c.occurrences)
    BY ChargeAssumption
  <2> DEFINE free == {r \in c.rows : \A o \in c.occurrences : o.source # r.id}
             kept(type) == MonthlySums(Charges!OfType(free, type))
             written(kind) == PlannedSums({o \in c.occurrences : o.kind = kind})
  <2>3. answer.month = answer.current
    BY <2>1, <2>2, SameTotals DEF IInv, Answered
  <2>4. \A kind : written(kind) \in Int
    BY <2>2, PlannedSumsInteger
  <2>5. /\ MonthlySums(Charges!OfType(c.rows, "REVENU")) - SourceSums("ENTREE", c.rows, c.occurrences)
             = kept("REVENU")
        /\ kept("REVENU") \in Int
    <3>1. Charges!KindOf("REVENU") = "ENTREE"
      BY DEF Charges!KindOf
    <3> QED BY <2>2, <3>1, ReconciledKind
  <2>6. /\ MonthlySums(Charges!OfType(c.rows, "CHARGE")) - SourceSums("DEPENSE", c.rows, c.occurrences)
             = kept("CHARGE")
        /\ kept("CHARGE") \in Int
    <3>1. Charges!KindOf("CHARGE") = "DEPENSE"
      BY DEF Charges!KindOf
    <3> QED BY <2>2, <3>1, ReconciledKind
  <2>7. Charges!Reconciled(Charges!MonthTotals(c.rows), c.occurrences, c.rows)
          = [income  |-> MonthlySums(Charges!OfType(c.rows, "REVENU"))
                         - SourceSums("ENTREE", c.rows, c.occurrences) + written("ENTREE"),
             expense |-> MonthlySums(Charges!OfType(c.rows, "CHARGE"))
                         - SourceSums("DEPENSE", c.rows, c.occurrences) + written("DEPENSE")]
    BY ChargeTotals DEF Charges!Reconciled
  <2>8. answer.base = [income |-> kept("REVENU") + written("ENTREE"),
                       expense |-> kept("CHARGE") + written("DEPENSE")]
    BY <2>1, <2>5, <2>6, <2>7 DEF IInv, Answered
  <2>9. /\ kept("REVENU") + written("ENTREE") = written("ENTREE") + kept("REVENU")
        /\ kept("CHARGE") + written("DEPENSE") = written("DEPENSE") + kept("CHARGE")
    <3> HIDE DEF kept, written
    <3> QED BY <2>4, <2>5, <2>6
  <2> QED BY <2>1, <2>3, <2>8, <2>9 DEF FixedTotalsAgree, MonthlySums, PlannedSums
<1> QED BY <1>1, AnswersFollowRequests, PTL

\* Whatever payments, plans and carry a month has, open, closed or frozen, its balance, its days,
\* its summary and its forecast agree: a linked payment replaces its plan.
THEOREM BalanceAlwaysReplacesPlans == Spec => []BalanceReplacesPlans
<1>1. IInv => BalanceReplacesPlans
  <2> SUFFICES ASSUME IInv, answer.of = "month" PROVE BalanceReplacesPlans
    BY DEF BalanceReplacesPlans
  <2>1. PICK c \in MonthCases : c = request.on
    BY DEF IInv, Asked, Answered
  <2>2. PICK b, p, savings : /\ b = c.budget /\ p = c.planned /\ savings = c.savings
                             /\ IsMonthView(answer, b, p, savings)
    BY <2>1 DEF IInv, Answered
  <2>3. /\ IsBudget(b) /\ savings \in Int
        /\ p \in Seq([day: Int, kind: {"DEPENSE", "ENTREE"}, cents: Int])
    BY <2>2, MonthAssumption
  <2> DEFINE last == DaysIn(b.month)
  <2>4. last \in 1 .. last /\ last \in Int /\ last >= 1 /\ Base(b) \in Int /\ b.carry \in Int
    BY <2>3, WholeMonth
  <2>5. /\ \A d \in 1 .. last - 1 : DailyBalance(b, d) = ReferenceBalance(b, 1 .. d, FALSE)
        /\ DailyBalance(b, last) = Balance(b)
        /\ b.frozen = {} => Balance(b) = ReferenceBalance(b, 1 .. last, b.closed)
        /\ ~b.closed => (Projected(b, "ENTREE") - Projected(b, "DEPENSE"))
                         - (TrackedPlanned(b, "ENTREE") - TrackedPlanned(b, "DEPENSE"))
                         + Base(b) + b.carry = Balance(b)
        /\ Balance(b) \in Int
    BY <2>3, MonthViews, Zenon
  <2>6. PlannedEffect(p, 1 .. last) \in Int
    BY <2>3, PlannedIsInteger
  <2>7. /\ answer.dailyForecast[last] = answer.forecast
        /\ answer.dailyRemaining[last] + b.carry - savings = answer.forecast
    <3>1. PICK x \in Int, y \in Int, e \in Int, t \in Int :
            x = Base(b) /\ y = b.carry /\ e = PlannedEffect(p, 1 .. last) /\ t = Balance(b)
      BY <2>4, <2>5, <2>6
    <3>2. answer.forecast = t + e - savings
      BY <2>2, <3>1 DEF IsMonthView, ForecastBalance
    <3>3. answer.dailyForecast[last] = t + e - savings
      BY <2>2, <2>4, <2>5, <3>1 DEF IsMonthView, DailyForecast
    <3>4. answer.dailyRemaining[last] = x + (t - x - y) + e
      BY <2>2, <2>4, <2>5, <3>1 DEF IsMonthView, DailyRemaining
    <3>5. x + (t - x - y) + e + y - savings = t + e - savings
      <4>1. PICK z \in Int : z = savings
        BY <2>3
      <4>2. x + (t - x - y) + e + y - z = t + e - z
        OBVIOUS
      <4> QED BY <4>1, <4>2
    <3>6. answer.dailyRemaining[last] + b.carry - savings = x + (t - x - y) + e + y - savings
      BY <3>1, <3>4
    <3> HIDE DEF last
    <3> QED BY <3>2, <3>3, <3>5, <3>6
  <2>8. \A d \in 1 .. last - 1 : answer.daily[d] = ReferenceBalance(b, 1 .. d, FALSE)
    <3>1. \A d \in 1 .. last - 1 : d \in 1 .. last
      BY <2>4
    <3> QED BY <2>2, <2>5, <3>1 DEF IsMonthView
  <2>9. answer.daily[last] = answer.balance /\ answer.balance = Balance(b)
    BY <2>2, <2>4, <2>5 DEF IsMonthView
  <2>10. ~b.closed => answer.projected - answer.planned + Base(b) + b.carry = answer.balance
    BY <2>2, <2>5 DEF IsMonthView
  <2> QED BY <2>1, <2>2, <2>5, <2>7, <2>8, <2>9, <2>10, Zenon DEF BalanceReplacesPlans
<1> QED BY <1>1, AnswersFollowRequests, PTL

\* Whatever rules, decisions and today, every open occurrence of a rule that counts is planned
\* once with its amount, and a past month asks in the queue for what its closure counts.
THEOREM PlansAlwaysAgree == Spec => []PlansAgree
<1>1. IInv => PlansAgree
  <2> SUFFICES ASSUME IInv, answer.of = "plans" PROVE PlansAgree
    BY DEF PlansAgree
  <2>1. IsPlan(request.on) /\ IsPlanView(answer, request.on)
    BY PlanAssumption DEF IInv, Asked, Answered
  <2>2. \A k \in DOMAIN answer.planned, s \in Scenarios, kind \in {"DEPENSE", "ENTREE"} :
          /\ Counts(PlannedOf(answer, k, s, kind)) = Times(request.on, OwnRules(request.on, k, s, kind))
          /\ Totals(PlannedOf(answer, k, s, kind)) = OpenCents(request.on, OwnRules(request.on, k, s, kind))
          /\ {x.date : x \in PlannedOf(answer, k, s, kind)}
               = UNION {Open(request.on, r) : r \in OwnRules(request.on, k, s, kind)}
    BY <2>1, PlannedView
  <2>3. ASSUME request.on.month \in MonthIndex(request.on.today) - (PendingWindowMonths - 1)
                                      .. MonthIndex(request.on.today) - 1
        PROVE  \A k \in DOMAIN answer.planned :
                 answer.unresolved[k] = Cardinality(QueueOf(answer, request.on, k))
    BY <2>1, <2>3, UnresolvedView
  <2> QED BY <2>2, <2>3, Zenon
          DEF PlansAgree, Counts, Totals, Times, OpenCents, OwnRules, RulesOf, Open, PlannedOf, QueueOf
<1> QED BY <1>1, AnswersFollowRequests, PTL

\* What the capacity, the trajectories and the weekly allowance show of a month is what the
\* forecast leaves in it (SavingsCapacityService, SavingsTrajectory, BudgetForecastService).
THEOREM SavingsAlwaysFollowForecast == Spec => []SavingsFollowForecast
<1>1. IInv => SavingsFollowForecast
  <2> SUFFICES ASSUME IInv, answer.of = "horizon" PROVE SavingsFollowForecast
    BY DEF SavingsFollowForecast
  <2>1. PICK w : w = request.on
    OBVIOUS
  <2>2. IsWindow(w) /\ IsWindowView(answer, w)
    <3>1. request.of = "horizon" /\ IsWindowView(answer, w)
      BY <2>1 DEF IInv, Answered
    <3>2. w \in HorizonCases
      BY <2>1, <3>1 DEF IInv, Asked
    <3> QED BY <3>1, <3>2, HorizonAssumption
  <2>3. Shown(w) \subseteq Horizon(w) /\ IsForecast(w) /\ "savings" \in DOMAIN w
    <3>1. IsForecast(w) /\ w.offset \in Nat /\ Len(w.budgets) \in Nat \ {0}
      BY <2>2 DEF IsWindow, IsForecast
    <3>2. Shown(w) \subseteq Horizon(w)
      BY <3>1 DEF Shown, Horizon
    <3>3. "savings" \in DOMAIN w
      BY <2>2 DEF IsWindow
    <3> QED BY <3>1, <3>2, <3>3
  <2>4. PICK p : p = Projection(w)
    OBVIOUS
  <2>5. ASSUME NEW k \in Shown(w)
        PROVE  LET days == RemainingDays(MonthAhead(w, k, 0)) IN
               /\ answer.capacity[k].before = Projection([w EXCEPT !.savings = 0])[k]
               /\ answer.capacity[k].after = answer.remaining[k]
               /\ answer.weekly[k] = RoundedShare(answer.remaining[k] * AtMost(7, days), days)
    <3>1. k \in Horizon(w) /\ k \in 0 .. Len(w.budgets) - 1
      BY <2>3 DEF Horizon
    <3>2. PICK r \in Int : r = p[k]
      BY <2>3, <2>4, <3>1, ProjectionSteps
    <3>3. answer.remaining[k] = r /\ answer.capacity[k] = Capacity(w, k)
      BY <2>2, <2>4, <3>2 DEF IsWindowView
    <3>4. BeforeGoals(w, k) = Projection([w EXCEPT !.savings = 0])[k]
      BY <2>3, <3>1, ReservationsUndone DEF BeforeGoals
    <3>5. AfterPlanned(w, k) = r
      <4>1. TotalPlanned(w.goals) = w.savings /\ w.savings \in Int
        BY <2>2, SameReservations DEF IsWindow, IsForecast
      <4>2. PICK x \in Int : x = w.savings * (k + 1)
        BY <3>1, <4>1
      <4>3. AfterPlanned(w, k) = r + x - x
        BY <2>4, <3>2, <4>1, <4>2 DEF AfterPlanned, BeforeGoals
      <4> QED BY <4>3
    <3>6. Capacity(w, k).before = BeforeGoals(w, k) /\ Capacity(w, k).after = AfterPlanned(w, k)
      BY DEF Capacity
    <3>7. PICK days \in Nat \ {0} : days = RemainingDays(MonthAhead(w, k, 0))
      <4>1. 0 \in Int
        OBVIOUS
      <4> QED BY <2>3, <3>1, <4>1, AheadIsBudget
    <3>8. answer.weekly[k] = WeeklyAllowance(r, days)
      BY <2>2, <2>4, <3>2, <3>7 DEF IsWindowView
    <3>9. answer.weekly[k] = RoundedShare(r * AtMost(7, days), days)
      BY <3>8, ShareOfWeek
    <3> QED BY <3>3, <3>4, <3>5, <3>6, <3>7, <3>9
  <2>6. ASSUME NEW k \in Horizon(w) PROVE answer.course["planned"][k].balance = answer.remaining[k]
    <3>1. answer.course["planned"] = Trajectory(w, "planned") /\ answer.remaining = p
      BY <2>2, <2>4 DEF IsWindowView, Modes
    <3>2. Trajectory(w, "planned")[k].balance = p[k]
      BY <2>2, <2>4, PlannedIsForecast DEF Horizon
    <3> QED BY <3>1, <3>2
  <2> QED BY <2>1, <2>5, <2>6, Zenon DEF SavingsFollowForecast
<1> QED BY <1>1, AnswersFollowRequests, PTL

\* Whatever the goals and the months of a window, each view of a goal tells what the others do; a
\* supplement brings the goal forward and takes nothing that is protected.
THEOREM GoalViewsAlwaysAgree == Spec => []GoalViewsAgree
<1>1. IInv => GoalViewsAgree
  <2> SUFFICES ASSUME IInv, answer.of = "horizon" PROVE GoalViewsAgree
    BY DEF GoalViewsAgree
  <2> DEFINE w == request.on
  <2>2. IsWindow(w) /\ ValidWindow(w) /\ IsWindowView(answer, w)
    <3>1. request.of = "horizon" /\ ValidWindow(w) /\ IsWindowView(answer, w)
      BY DEF IInv, Answered
    <3>2. w \in HorizonCases
      BY <3>1 DEF IInv, Asked
    <3> QED BY <3>1, <3>2, HorizonAssumption
  <2> HIDE DEF w
  <2>3. PICK n \in Nat : n = Len(w.budgets) - 1 /\ n + 1 = Len(w.budgets) /\ n + 1 <= MaxForecastMonths
    <3>1. PICK l \in Nat : l = Len(w.budgets) /\ l - 1 \in Nat
      BY <2>2, WindowNumbers
    <3>2. PICK o \in Nat : o = w.offset
      BY <2>2 DEF IsWindow, IsForecast
    <3>3. PICK x \in Int : x = l - o
      OBVIOUS
    <3>4. l <= 1200
      <4>1. x \in 1 .. 24 /\ o \in 0 .. 23
        BY <2>2, <3>1, <3>2, <3>3, Zenon DEF ValidWindow
      <4>2. l = x + o
        BY <3>3
      <4> QED BY <4>1, <4>2
    <3>5. PICK m \in Nat : m = l - 1 /\ m + 1 = l
      <4>1. l - 1 \in Nat /\ l - 1 + 1 = l
        BY <3>1
      <4> QED BY <4>1
    <3>6. m + 1 <= MaxForecastMonths
      BY <3>4, <3>5 DEF MaxForecastMonths
    <3> QED BY <3>1, <3>5, <3>6, Zenon
  <2>4. PICK goal : goal = w.goals[w.selected] /\ IsGoal(goal) /\ w.selected \in DOMAIN w.goals
    BY <2>2 DEF IsWindow
  <2>5. PICK today : today = w.budgets[1].today /\ IsCivil(today)
    BY <2>2 DEF IsWindow, IsForecast
  <2>6. PICK month0 \in Int : month0 = MonthIndex(today)
    BY <2>5, CivilFields
  <2> DEFINE alone == {r - month0 : r \in answer.reach[w.selected]}
             month(mode) == Min(answer.scheduled[mode] \union {Len(w.budgets)})
  <2>7. answer.reach[w.selected] = ReachMonth(goal, today)
    BY <2>2, <2>4, <2>5 DEF IsWindowView
  <2>8. answer.scheduled["planned"] = alone \intersect Horizon(w)
    <3>1. answer.scheduled["planned"] = ScheduledReach(w, Trajectory(w, "planned"))
      BY <2>2 DEF IsWindowView, Modes
    <3>2. Len(w.budgets) <= MaxForecastMonths
      BY <2>3
    <3>3. ScheduledReach(w, Trajectory(w, "planned"))
            = {r - MonthIndex(w.budgets[1].today) : r \in ReachMonth(w.goals[w.selected], w.budgets[1].today)}
              \intersect Horizon(w)
      BY <2>2, <3>2, PlannedReach
    <3> QED BY <2>4, <2>5, <2>6, <2>7, <3>1, <3>3, Zenon
  <2>9. ASSUME goal.deadline # NoDate, answer.status[w.selected] # "REACHED",
               MonthIndex(goal.deadline) - month0 <= MaxForecastMonths
        PROVE  answer.status[w.selected] = "ON_TRACK" <=> \E k \in alone : k <= MonthIndex(goal.deadline) - month0
    <3>1. answer.status[w.selected] = Status(goal, today)
      BY <2>2, <2>4, <2>5 DEF IsWindowView
    <3>2. MonthsAvailable(goal, today) = MonthIndex(goal.deadline) - month0
      BY <2>6 DEF MonthsAvailable
    <3>3. Status(goal, today) = "ON_TRACK"
            <=> \E r \in ReachMonth(goal, today) : r - month0 <= MonthIndex(goal.deadline) - month0
      BY <2>4, <2>5, <2>6, <2>9, <3>1, <3>2, StatusTells
    <3> QED BY <2>7, <3>1, <3>3
  <2>10. ASSUME NEW i \in DOMAIN w.goals, NEW gap \in answer.gap[i]
         PROVE  answer.status[i] = IF gap <= 0 THEN "ON_TRACK" ELSE "BEHIND"
    <3>1. gap \in Gap(w.goals[i], today) /\ answer.status[i] = Status(w.goals[i], today)
      BY <2>2, <2>5 DEF IsWindowView
    <3>2. IsGoal(w.goals[i])
      BY <2>2 DEF IsWindow
    <3> QED BY <2>5, <3>1, <3>2, GapTells
  <2>11. ASSUME NEW slow \in Modes, NEW fast \in Modes,
                \A k \in 0 .. n : SavedOf(w, slow, k) >= goal.target => SavedOf(w, fast, k) >= goal.target
         PROVE  month(fast) <= month(slow)
    <3>1. PICK A, B : A = ReachedBy(w, Trajectory(w, fast)) /\ B = ReachedBy(w, Trajectory(w, slow))
      OBVIOUS
    <3>2. \A mode : DOMAIN Trajectory(w, mode) = 0 .. n
      BY <2>3, TrajectorySteps
    <3>3. A \subseteq 0 .. n /\ B \subseteq A
      BY <2>4, <2>11, <3>1, <3>2 DEF ReachedBy, SavedOf
    <3>4. answer.scheduled[fast] = Earliest(A) /\ answer.scheduled[slow] = Earliest(B)
      BY <2>2, <3>1 DEF IsWindowView, ScheduledReach
    <3>5. Min(Earliest(A) \union {n + 1}) <= Min(Earliest(B) \union {n + 1})
      BY <3>3, MoreIsEarlier
    <3> QED BY <2>3, <3>4, <3>5
  <2>12. month("maximum") <= month("reasonable")
    <3>1. "maximum" \in Modes /\ "reasonable" \in Modes
      BY DEF Modes
    <3>2. \A k \in 0 .. n : SavedOf(w, "reasonable", k) >= goal.target => SavedOf(w, "maximum", k) >= goal.target
      BY <2>2, <2>3, <2>4, FasterReach
    <3> HIDE DEF month
    <3> QED BY <2>11, <3>1, <3>2
  <2>13. month("reasonable") <= month("planned")
    <3>1. "planned" \in Modes /\ "reasonable" \in Modes
      BY DEF Modes
    <3>2. \A k \in 0 .. n : SavedOf(w, "planned", k) >= goal.target => SavedOf(w, "reasonable", k) >= goal.target
      <4>1. ASSUME NEW k \in 0 .. n, SavedOf(w, "planned", k) >= goal.target
            PROVE  SavedOf(w, "reasonable", k) >= goal.target
        <5>1. SavedOf(w, "planned", k) <= SavedOf(w, "reasonable", k)
          BY <2>2, <2>3, MoreSaved
        <5>2. SavedOf(w, "planned", k) \in Int /\ SavedOf(w, "reasonable", k) \in Int
          BY <2>2, <2>3, <2>4, CourseStates DEF SavedOf, IsCourseState
        <5>3. goal.target \in Int
          BY <2>4, GoalFacts
        <5> QED BY <4>1, <5>1, <5>2, <5>3
      <4> QED BY <4>1
    <3> HIDE DEF month
    <3> QED BY <2>11, <3>1, <3>2
  <2>14. ASSUME NEW mode \in Modes, NEW k \in Horizon(w)
         PROVE  LET state == answer.course[mode][k] IN
                /\ state.extra > 0 => state.balance >= state.safe
                /\ \A i \in DOMAIN w.goals : state.saved[i] <= AtLeast(w.goals[i].target, w.goals[i].saved)
    <3>1. answer.course[mode][k] = Trajectory(w, mode)[k]
      BY <2>2 DEF IsWindowView
    <3>2. IsCourseState(w, Trajectory(w, mode)[k])
      BY <2>2, CourseStates DEF Horizon
    <3> QED BY <3>1, <3>2 DEF IsCourseState
  <2>15. /\ answer.scheduled["planned"]
              = {r - MonthIndex(w.budgets[1].today) : r \in answer.reach[w.selected]} \intersect Horizon(w)
         /\ LET ahead == MonthIndex(w.goals[w.selected].deadline) - MonthIndex(w.budgets[1].today) IN
            w.goals[w.selected].deadline # NoDate /\ answer.status[w.selected] # "REACHED"
                /\ ahead <= MaxForecastMonths
              => (answer.status[w.selected] = "ON_TRACK"
                    <=> \E k \in {r - MonthIndex(w.budgets[1].today) : r \in answer.reach[w.selected]} : k <= ahead)
    <3>1. /\ w.goals[w.selected] = goal /\ MonthIndex(w.budgets[1].today) = month0
          /\ alone = {r - month0 : r \in answer.reach[w.selected]}
      BY <2>4, <2>5, <2>6
    <3> HIDE DEF alone
    <3> QED BY <2>8, <2>9, <3>1
  <2>16. /\ \A i \in DOMAIN w.goals : \A gap \in answer.gap[i] :
              answer.status[i] = IF gap <= 0 THEN "ON_TRACK" ELSE "BEHIND"
         /\ \A mode \in Modes, k \in Horizon(w) :
              LET state == answer.course[mode][k] IN
              /\ state.extra > 0 => state.balance >= state.safe
              /\ \A i \in DOMAIN w.goals : state.saved[i] <= AtLeast(w.goals[i].target, w.goals[i].saved)
    BY <2>10, <2>14
  <2> QED BY <2>12, <2>13, <2>15, <2>16, Zenon DEF GoalViewsAgree, w
<1> QED BY <1>1, AnswersFollowRequests, PTL

\* Every selected operation is in exactly one bucket and one series, its amount with it, whatever
\* the period, the grouping and the operations: the keys a period lists always hold those of
\* its operations, weeks that begin in another month or year too.
THEOREM NoOperationEverLost == Spec => []NoOperationLost
<1>1. IInv => NoOperationLost
  <2> SUFFICES ASSUME IInv, answer.of = "analytics" PROVE NoOperationLost
    BY Zenon DEF NoOperationLost
  <2>1. PICK c \in AnalyticsCases : c = request.on
    BY DEF IInv, Asked, Answered
  <2>2. PICK q, operations : q = c.query /\ operations = c.operations
    OBVIOUS
  <2>3. Reports!IsAnalysis(q, operations)
    BY <2>2, AnalyticsAssumption
  <2>4. answer.result = Reports!Analytics(q, operations)
    BY <2>1, <2>2 DEF IInv, Answered
  <2>5. Reports!Selected(q, operations)
          = {o \in operations : /\ UpTo(q.from, o.date) /\ UpTo(o.date, q.to)
                                /\ q.kind \in {"", o.kind}}
    BY SameCalendar DEF Reports!Selected
  <2>6. ASSUME NEW result \in answer.result, NEW field \in Fields
        PROVE  IsWhole(result, q, operations, field)
    <3>1. result \in Reports!Analytics(q, operations)
      BY <2>4, <2>6
    <3> QED BY <2>3, <2>6, <3>1, WholeAnalysis
  <2>7. q = request.on.query /\ operations = request.on.operations
    BY <2>1, <2>2
  <2>8. ASSUME NEW result \in answer.result, NEW field \in {"income", "expense", "count"}
        PROVE  /\ WholeOf([key \in DOMAIN result |-> result[key].total], field)
                    = Reports!Totals({o \in request.on.operations :
                         /\ UpTo(request.on.query.from, o.date) /\ UpTo(o.date, request.on.query.to)
                         /\ request.on.query.kind \in {"", o.kind}})[field]
               /\ request.on.query.split # "" => \A key \in DOMAIN result :
                    WholeOf(result[key].series, field) = result[key].total[field]
    <3>1. field \in Fields
      BY <2>8, Zenon DEF Fields
    <3>2. IsWhole(result, q, operations, field)
      BY <2>6, <2>8, <3>1
    <3> QED BY <2>5, <2>7, <3>2, Zenon DEF IsWhole
  <2> QED BY <2>8, Zenon DEF NoOperationLost, WholeOf, FieldSum
<1> QED BY <1>1, AnswersFollowRequests, PTL

\* For all envelopes and payments, a category tells of a month what its envelopes tell, all
\* categories add up to all envelopes, and a month enters the mean of a category exactly when it
\* enters that of each of its envelopes.
THEOREM EnvelopeViewsAlwaysAgree == Spec => []EnvelopeViewsAgree
<1>1. IInv => EnvelopeViewsAgree
  <2> SUFFICES ASSUME IInv, answer.of = "envelopes" PROVE EnvelopeViewsAgree
    BY Zenon DEF EnvelopeViewsAgree
  <2>1. PICK c \in EnvelopeCases : c = request.on
    BY DEF IInv, Asked, Answered
  <2>2. PICK rows, payments, current, sources, categories :
          /\ rows = c.rows /\ payments = c.payments /\ current = c.current
          /\ sources = {r.source : r \in rows} /\ categories = {r.category : r \in rows}
    OBVIOUS
  <2>3. Reports!IsEnvelopes(rows, payments)
    BY <2>2, EnvelopeAssumption
  <2>4. /\ answer.months = [s \in sources |-> Reports!EnvelopeMonths(s, rows, payments)]
        /\ answer.totals = [s \in sources |-> Reports!EnvelopeTotals(s, rows, payments)]
        /\ answer.means = [s \in sources |-> Reports!Statistics(Reports!EnvelopeMonths(s, rows, payments), current)]
        /\ answer.categoryMonths = [k \in categories |-> Reports!CategoryMonths(k, rows, payments)]
        /\ answer.categoryMeans
             = [k \in categories |-> Reports!Statistics(Reports!CategoryMonths(k, rows, payments), current)]
    BY <2>1, <2>2, Zenon DEF IInv, Answered, IsEnvelopesView
  <2>5. /\ DOMAIN answer.months = sources /\ DOMAIN answer.totals = sources
        /\ DOMAIN answer.categoryMonths = categories
    BY <2>4
  <2>6. SpentBy(answer.totals, DOMAIN answer.totals) = SpentIn(answer.categoryMonths, DOMAIN answer.categoryMonths)
    BY <2>2, <2>3, <2>4, <2>5, SpentOnce
  <2>7. ASSUME NEW k \in DOMAIN answer.categoryMonths, NEW s \in DOMAIN answer.months,
               {r \in c.rows : r.category = k} = {r \in c.rows : r.source = s}
        PROVE  answer.categoryMeans[k] = answer.means[s]
    <3>1. Reports!CategoryMonths(k, rows, payments) = Reports!EnvelopeMonths(s, rows, payments)
      BY <2>2, <2>3, <2>7, SingleEnvelope DEF CategoryRows
    <3> QED BY <2>4, <2>5, <2>7, <3>1
  <2>8. \A r \in rows : answer.months[r.source] = Reports!EnvelopeMonths(r.source, rows, payments)
    BY <2>2, <2>4
  <2>9. ASSUME NEW k \in DOMAIN answer.categoryMonths, NEW x \in answer.categoryMonths[k]
        PROVE  LET T == {r.source : r \in Reports!InCategory(k, x.month, c.rows)} IN
               /\ x.planned = MonthSum(answer.months, T, x.month, "planned")
               /\ x.actual = MonthSum(answer.months, T, x.month, "actual")
               /\ x \in Reports!Sample(answer.categoryMonths[k], c.current)
                    <=> \A r \in Reports!InCategory(k, x.month, c.rows) :
                          x.month \in SampledMonths(answer.months[r.source], c.current)
    <3>1. answer.categoryMonths[k] = Reports!CategoryMonths(k, rows, payments)
      BY <2>4, <2>5, <2>9
    <3>2. PICK m : x = CategoryTold(k, m, rows, payments) /\ x.month = m
      BY <2>9, <3>1, CategoryMonth
    <3>3. PICK own : own = Reports!InCategory(k, m, rows)
      OBVIOUS
    <3>4. x.planned = Reports!Planned(own) /\ x.actual = Reports!Paid(payments, own)
      BY <3>2, <3>3 DEF CategoryTold
    <3>5. /\ Reports!Planned(own) = MonthSum(answer.months, {r.source : r \in own}, m, "planned")
          /\ Reports!Paid(payments, own) = MonthSum(answer.months, {r.source : r \in own}, m, "actual")
      BY <2>3, <2>8, <3>3, CategoryOfMonth
    <3>6. x \in Reports!Sample(answer.categoryMonths[k], current)
            <=> \A r \in own : m \in SampledMonths(answer.months[r.source], current)
      BY <2>3, <2>8, <2>9, <3>1, <3>2, <3>3, SampledTogether
    <3> QED BY <2>2, <3>2, <3>3, <3>4, <3>5, <3>6
  <2> QED BY <2>1, <2>6, <2>7, <2>9, Zenon
          DEF EnvelopeViewsAgree, SpentBy, SpentIn, MonthSum, SampledMonths
<1> QED BY <1>1, AnswersFollowRequests, PTL

\* Any series of releases, with any fragments added before each, any bumps and versions asked for,
\* each cut off anywhere, from any project with one section.
THEOREM FragmentsAlwaysToldOnce == Spec => []FragmentsToldOnce
<1>1. IInv => FragmentsToldOnce
  <2> SUFFICES ASSUME IInv, answer.of = "releases" PROVE FragmentsToldOnce
    BY DEF FragmentsToldOnce
  <2>1. PICK c \in ReleaseCases : c = request.on
    BY DEF IInv, Asked, Answered
  <2>2. PICK tree : tree = c.tree
    OBVIOUS
  <2>3. PICK runs : runs = c.runs
    OBVIOUS
  <2>4. Releases!IsSeries(tree, runs)
    BY <2>2, <2>3, ReleaseAssumption
  <2>5. answer.trees = Releases!Trees(tree, runs) /\ request.on.tree = tree /\ request.on.runs = runs
    BY <2>1, <2>2, <2>3 DEF IInv, Answered
  <2>6. ASSUME NEW i \in DOMAIN answer.trees
        PROVE  TreeTellsOnce(answer.trees[i], UNION {request.on.runs[j].added : j \in 1 .. i},
                        \A j \in 1 .. i : request.on.runs[j].cut >=
                          3 + Cardinality(Releases!FragmentsOf(request.on.tree, request.on.runs)))
    <3>1. PICK t : t = Releases!Trees(tree, runs)[i]
      OBVIOUS
    <3>2. i \in DOMAIN Releases!Trees(tree, runs) /\ answer.trees[i] = t
      BY <2>5, <2>6, <3>1
    <3>3. TreeTellsOnce(t, AddedBy(runs, i),
                   \A j \in 1 .. i :
                     runs[j].cut >= 3 + Cardinality(Releases!FragmentsOf(tree, runs)))
      BY ONLY <2>4, <3>1, <3>2, SeriesTold
    <3> QED BY ONLY <2>5, <3>2, <3>3 DEF AddedBy
  <2> QED BY ONLY <2>6, Zenon DEF FragmentsToldOnce, TreeTellsOnce
<1> QED BY <1>1, AnswersFollowRequests, PTL

\* Any series of deployments, each with any failure and cut off anywhere, from any server whose
\* images find their schema.
THEOREM DeploymentsAlwaysRecover == Spec => []DeploymentsRecover
<1>1. IInv => DeploymentsRecover
  <2> SUFFICES ASSUME IInv, answer.of = "deployments" PROVE DeploymentsRecover
    BY DEF DeploymentsRecover
  <2>1. PICK c \in DeploymentCases : c = request.on
    BY DEF IInv, Asked, Answered
  <2>2. /\ c.server \in Deployments!States /\ Deployments!FindsSchema(c.server)
        /\ c.runs \in Seq(Deployments!Runs)
    BY DeploymentAssumption
  <2>3. PICK after : after = Deployments!Servers(c.server, c.runs) /\ answer.servers = after
    BY <2>1 DEF IInv, Answered
  <2>4. \A i \in 0 .. Len(c.runs) :
          /\ after[i] \in Deployments!States /\ Deployments!FindsSchema(after[i])
          /\ after[i].recorded \in {c.server.recorded}
               \union {r.image : r \in {t \in {c.runs[j] : j \in 1 .. i} : t.healthy}}
    BY <2>2, <2>3, DeploymentStates, Zenon
  <2>5. ASSUME NEW i \in DOMAIN c.runs
        PROVE  c.runs[i].steps = 3 /\ after[i - 1].running = after[i - 1].recorded
               /\ (after[i - 1].recorded # Deployments!NoImage \/ c.runs[i].healthy)
               => /\ after[i].running = after[i].recorded
                  /\ after[i - 1].answers /\ (c.runs[i].healthy \/ c.runs[i].restored) => after[i].answers
    <3>1. i \in 1 .. Len(c.runs) /\ i - 1 \in 0 .. Len(c.runs) /\ Len(c.runs) \in Nat
      BY <2>2
    <3>2. PICK r \in Deployments!Runs : r = c.runs[i]
      BY <2>2
    <3>3. PICK s \in Deployments!States : s = after[i - 1] /\ Deployments!FindsSchema(s)
      BY <2>4, <3>1
    <3>4. after[i] = Deployments!Deployed(s, r)
      BY <2>3, <3>1, <3>2, <3>3, ServersStep
    <3> QED BY <3>2, <3>3, <3>4, DeployedServer, Zenon
  <2>6. \A i \in DOMAIN c.runs : i \in 0 .. Len(c.runs)
    BY <2>2
  <2>7. ASSUME NEW i \in DOMAIN c.runs
        PROVE  /\ answer.servers[i].running.level <= answer.servers[i].schema
               /\ answer.servers[i].recorded \in {c.server.recorded}
                    \union {r.image : r \in {t \in {c.runs[j] : j \in 1 .. i} : t.healthy}}
    BY <2>3, <2>4, <2>6, Zenon DEF Deployments!FindsSchema
  <2>8. ASSUME NEW i \in DOMAIN c.runs
        PROVE  c.runs[i].steps = 3 /\ answer.servers[i - 1].running = answer.servers[i - 1].recorded
               /\ (answer.servers[i - 1].recorded # Deployments!NoImage \/ c.runs[i].healthy)
               => /\ answer.servers[i].running = answer.servers[i].recorded
                  /\ answer.servers[i - 1].answers /\ (c.runs[i].healthy \/ c.runs[i].restored)
                     => answer.servers[i].answers
    BY <2>3, <2>5, Zenon
  <2> QED BY <2>1, <2>7, <2>8 DEF DeploymentsRecover
<1> QED BY <1>1, AnswersFollowRequests, PTL
=============================================================================

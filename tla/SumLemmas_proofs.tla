--------------------------- MODULE SumLemmas_proofs ---------------------------
(***************************************************************************)
(* What the proofs need to know of SumFunctionOnSet(f, S), the sum of f[x]  *)
(* for x in a finite set S, with which the limits and totals of the system  *)
(* are stated.  The sum is defined by a recursion that takes the elements in *)
(* some order; here it is the number of units the elements are worth, which  *)
(* the theorems about Cardinality speak of.                                 *)
(***************************************************************************)
EXTENDS Integers, FiniteSets, FiniteSetTheorems, WellFoundedInduction, TLAPS

\* Of the subsets with a property one has no smaller one with it.
LEMMA LeastSubset ==
    ASSUME NEW S, IsFiniteSet(S), NEW Family, Family \subseteq SUBSET S, Family # {}
    PROVE  \E T \in Family : \A U \in Family : U \subseteq T => U = T
<1>1. FiniteSubsetsOf(S) = SUBSET S
  BY FS_FiniteSubsetsOfFinite
<1>2. IsWellFoundedOn(StrictSubsetOrdering(S), SUBSET S)
  BY <1>1, FS_StrictSubsetOrderingWellFounded
<1>3. PICK T \in Family : \A U \in Family : ~ (<<U, T>> \in StrictSubsetOrdering(S))
  BY <1>2, WFMin
<1>4. ASSUME NEW U \in Family, U \subseteq T, U # T PROVE FALSE
  BY <1>3, <1>4 DEF StrictSubsetOrdering
<1> QED
  BY <1>4

\* The units that elements with a positive value are worth.
Units(f, S) == UNION {{x} \X (1..f[x]) : x \in S}

\* What the elements are worth: the units of those with a positive value, less
\* the units of those with a negative one.
Worth(f, S) == Cardinality(Units(f, S)) - Cardinality(Units([x \in S |-> -f[x]], S))

LEMMA UnitsFinite ==
    ASSUME NEW f, NEW S, IsFiniteSet(S), \A x \in S : f[x] \in Int
    PROVE  IsFiniteSet(Units(f, S))
<1> DEFINE family == {{x} \X (1..f[x]) : x \in S}
           map == [x \in S |-> {x} \X (1..f[x])]
<1>1. map \in Surjection(S, family)
  BY DEF Surjection
<1>2. IsFiniteSet(family)
  BY <1>1, FS_Surjection
<1>3. ASSUME NEW x \in S PROVE IsFiniteSet({x} \X (1..f[x]))
  <2>1. f[x] \in Int /\ IsFiniteSet({x})
    BY FS_Singleton
  <2>2. IsFiniteSet(1..f[x])
    BY <2>1, FS_Interval
  <2> QED
    BY <2>1, <2>2, FS_Product
<1>4. \A T \in family : IsFiniteSet(T)
  BY <1>3
<1> QED
  BY <1>2, <1>4, FS_UNION DEF Units

\* An element brings its units.
LEMMA UnitsOfOneMore ==
    ASSUME NEW f, NEW S, IsFiniteSet(S), \A x \in S : f[x] \in Int, NEW x \in S
    PROVE  /\ Cardinality(Units(f, S)) \in Nat /\ Cardinality(Units(f, S \ {x})) \in Nat
           /\ Cardinality(Units(f, S)) =
                 Cardinality(Units(f, S \ {x})) + (IF f[x] > 0 THEN f[x] ELSE 0)
<1> DEFINE own == {x} \X (1..f[x])
<1>1. IsFiniteSet(S \ {x})
  BY FS_RemoveElement
<1>2. IsFiniteSet(Units(f, S)) /\ IsFiniteSet(Units(f, S \ {x}))
  BY <1>1, UnitsFinite
<1>3. IsFiniteSet(own) /\ Cardinality(own) = IF f[x] > 0 THEN f[x] ELSE 0
  <2>1. IsFiniteSet({x}) /\ Cardinality({x}) = 1
    BY FS_Singleton
  <2>2. IsFiniteSet(1..f[x]) /\ Cardinality(1..f[x]) = IF f[x] > 0 THEN f[x] ELSE 0
    BY FS_Interval
  <2> QED
    BY <2>1, <2>2, FS_Product
<1>4. Units(f, S) = Units(f, S \ {x}) \cup own /\ Units(f, S \ {x}) \cap own = {}
  BY DEF Units
<1> HIDE DEF own
<1>5. Cardinality(Units(f, S)) =
        Cardinality(Units(f, S \ {x})) + Cardinality(own)
           - Cardinality(Units(f, S \ {x}) \cap own)
  BY <1>2, <1>3, <1>4, FS_Union
<1>6. Cardinality(Units(f, S)) \in Nat /\ Cardinality(Units(f, S \ {x})) \in Nat
  BY <1>2, FS_CardinalityType
<1>7. Cardinality(Units(f, S \ {x}) \cap own) = 0
  BY <1>4, FS_EmptySet
<1>8. f[x] \in Int
  OBVIOUS
<1> QED
  BY <1>3, <1>5, <1>6, <1>7, <1>8

LEMMA WorthOfOneMore ==
    ASSUME NEW f, NEW S, IsFiniteSet(S), \A x \in S : f[x] \in Int, NEW x \in S
    PROVE  /\ Worth(f, S) \in Int /\ Worth(f, S \ {x}) \in Int
           /\ Worth(f, S) = f[x] + Worth(f, S \ {x})
<1> DEFINE loss == [y \in S |-> -f[y]]
           rest == [y \in S \ {x} |-> -f[y]]
<1>1. Units(loss, S \ {x}) = Units(rest, S \ {x})
  <2>1. \A y \in S \ {x} : loss[y] = rest[y]
    OBVIOUS
  <2> QED
    BY <2>1 DEF Units
<1>2. (\A y \in S : loss[y] \in Int) /\ loss[x] = -f[x] /\ f[x] \in Int
  OBVIOUS
<1> HIDE DEF loss
<1>3. /\ Cardinality(Units(loss, S)) \in Nat /\ Cardinality(Units(loss, S \ {x})) \in Nat
      /\ Cardinality(Units(loss, S)) =
            Cardinality(Units(loss, S \ {x})) + (IF loss[x] > 0 THEN loss[x] ELSE 0)
  BY <1>2, UnitsOfOneMore
<1>4. /\ Cardinality(Units(f, S)) \in Nat /\ Cardinality(Units(f, S \ {x})) \in Nat
      /\ Cardinality(Units(f, S)) =
            Cardinality(Units(f, S \ {x})) + (IF f[x] > 0 THEN f[x] ELSE 0)
  BY UnitsOfOneMore
<1>5. Worth(f, S) = Cardinality(Units(f, S)) - Cardinality(Units(loss, S))
  BY DEF Worth, loss
<1>6. Worth(f, S \ {x}) = Cardinality(Units(f, S \ {x})) - Cardinality(Units(loss, S \ {x}))
  BY <1>1 DEF Worth
<1> QED
  BY <1>2, <1>3, <1>4, <1>5, <1>6

LEMMA WorthOfNaturals ==
    ASSUME NEW f, NEW S, IsFiniteSet(S), \A x \in S : f[x] \in Nat
    PROVE  Worth(f, S) = Cardinality(Units(f, S)) /\ Worth(f, S) \in Nat
<1> DEFINE loss == [x \in S |-> -f[x]]
<1>1. \A x \in S : 1..loss[x] = {}
  OBVIOUS
<1>2. Units(loss, S) = {}
  BY <1>1 DEF Units
<1>3. Cardinality(Units(f, S)) \in Nat
  <2>1. IsFiniteSet(Units(f, S))
    BY UnitsFinite
  <2> QED
    BY <2>1, FS_CardinalityType
<1> QED
  BY <1>2, <1>3, FS_EmptySet DEF Worth

LEMMA WorthOfNothing == \A f : Worth(f, {}) = 0
<1>1. \A f : Units(f, {}) = {}
  BY DEF Units
<1> QED
  BY <1>1, FS_EmptySet DEF Worth

----------------------------------------------------------------------------
(* The recursion computes what the elements are worth.                     *)

Iterates(iter, f, S) ==
    iter = [s \in SUBSET S |->
              IF s = {} THEN 0
              ELSE LET x == CHOOSE x \in s : TRUE IN f[x] + iter[s \ {x}]]

LEMMA WorthIterates ==
    ASSUME NEW f, NEW S, IsFiniteSet(S), \A x \in S : f[x] \in Int
    PROVE  Iterates([s \in SUBSET S |-> Worth(f, s)], f, S)
<1> DEFINE iter == [s \in SUBSET S |-> Worth(f, s)]
<1>1. ASSUME NEW s \in SUBSET S, s # {}, NEW x, x = CHOOSE y \in s : TRUE
      PROVE  Worth(f, s) = f[x] + iter[s \ {x}]
  <2>1. x \in s /\ IsFiniteSet(s) /\ \A y \in s : f[y] \in Int
    BY <1>1, FS_Subset
  <2> QED
    BY <2>1, WorthOfOneMore
<1>2. \A s \in SUBSET S :
        Worth(f, s) = IF s = {} THEN 0
                      ELSE LET x == CHOOSE x \in s : TRUE IN f[x] + iter[s \ {x}]
  BY <1>1, WorthOfNothing
<1> QED
  BY <1>2 DEF Iterates

LEMMA SumIsWorth ==
    ASSUME NEW f, NEW S, IsFiniteSet(S), \A x \in S : f[x] \in Int
    PROVE  SumFunctionOnSet(f, S) = Worth(f, S)
<1> DEFINE iter == CHOOSE g : Iterates(g, f, S)
<1>1. Iterates(iter, f, S)
  BY WorthIterates
<1>2. SumFunctionOnSet(f, S) = iter[S]
  BY DEF SumFunctionOnSet, FoldFunctionOnSet, MapThenFoldSet, Iterates
<1> HIDE DEF iter
<1> DEFINE Wrong == {s \in SUBSET S : iter[s] # Worth(f, s)}
<1>3. ASSUME Wrong # {} PROVE FALSE
  <2>1. PICK s \in Wrong : \A t \in Wrong : t \subseteq s => t = s
    <3>1. Wrong \subseteq SUBSET S
      OBVIOUS
    <3> HIDE DEF Wrong
    <3> QED
      BY <1>3, <3>1, LeastSubset
  <2>2. s # {}
    BY <1>1, <2>1, WorthOfNothing DEF Iterates
  <2>3. PICK x \in s : iter[s] = f[x] + iter[s \ {x}]
    BY <1>1, <2>2 DEF Iterates
  <2>4. iter[s \ {x}] = Worth(f, s \ {x})
    BY <2>1
  <2>5. IsFiniteSet(s) /\ \A y \in s : f[y] \in Int
    BY FS_Subset
  <2>6. Worth(f, s) = f[x] + Worth(f, s \ {x})
    BY <2>5, WorthOfOneMore
  <2> QED
    BY <2>1, <2>3, <2>4, <2>6
<1> QED
  BY <1>2, <1>3

----------------------------------------------------------------------------
(* What is used of sums.                                                   *)

LEMMA SumOfNothing == \A f : SumFunctionOnSet(f, {}) = 0
BY SumIsWorth, WorthOfNothing, FS_EmptySet

\* Any element can be taken out.
LEMMA SumOfOneMore ==
    ASSUME NEW f, NEW S, IsFiniteSet(S), \A x \in S : f[x] \in Int, NEW x \in S
    PROVE  /\ SumFunctionOnSet(f, S) \in Int /\ SumFunctionOnSet(f, S \ {x}) \in Int
           /\ SumFunctionOnSet(f, S) = f[x] + SumFunctionOnSet(f, S \ {x})
<1>1. IsFiniteSet(S \ {x})
  BY FS_RemoveElement
<1> QED
  BY <1>1, SumIsWorth, WorthOfOneMore

LEMMA SumType ==
    ASSUME NEW f, NEW S, IsFiniteSet(S)
    PROVE  /\ (\A x \in S : f[x] \in Int) => SumFunctionOnSet(f, S) \in Int
           /\ (\A x \in S : f[x] \in Nat) => SumFunctionOnSet(f, S) \in Nat
<1>1. ASSUME \A x \in S : f[x] \in Int PROVE SumFunctionOnSet(f, S) \in Int
  <2>1. CASE S = {}
    BY <2>1, SumOfNothing
  <2>2. ASSUME NEW x \in S PROVE SumFunctionOnSet(f, S) \in Int
    BY <1>1, SumOfOneMore
  <2> QED
    BY <2>1, <2>2
<1>2. ASSUME \A x \in S : f[x] \in Nat PROVE SumFunctionOnSet(f, S) \in Nat
  BY <1>2, SumIsWorth, WorthOfNaturals
<1> QED
  BY <1>1, <1>2

LEMMA SumAgrees ==
    ASSUME NEW f, NEW g, NEW S, IsFiniteSet(S), \A x \in S : f[x] \in Int,
           \A x \in S : g[x] = f[x]
    PROVE  SumFunctionOnSet(g, S) = SumFunctionOnSet(f, S)
<1>1. Units(g, S) = Units(f, S)
  BY DEF Units
<1>2. [x \in S |-> -g[x]] = [x \in S |-> -f[x]]
  OBVIOUS
<1> QED
  BY <1>1, <1>2, SumIsWorth DEF Worth

\* A function that differs at one element.
LEMMA SumOfChange ==
    ASSUME NEW f, NEW g, NEW S, IsFiniteSet(S), \A x \in S : f[x] \in Int,
           NEW x \in S, g[x] \in Int, \A y \in S \ {x} : g[y] = f[y]
    PROVE  SumFunctionOnSet(g, S) = SumFunctionOnSet(f, S) - f[x] + g[x]
<1>1. IsFiniteSet(S \ {x}) /\ \A y \in S : g[y] \in Int
  BY FS_RemoveElement
<1>2. SumFunctionOnSet(g, S \ {x}) = SumFunctionOnSet(f, S \ {x})
  BY <1>1, SumAgrees
<1> QED
  BY <1>1, <1>2, SumOfOneMore

LEMMA SumOfAdded ==
    ASSUME NEW f, NEW S, IsFiniteSet(S), NEW x, x \notin S,
           \A y \in S \cup {x} : f[y] \in Int
    PROVE  SumFunctionOnSet(f, S \cup {x}) = SumFunctionOnSet(f, S) + f[x]
<1>1. IsFiniteSet(S \cup {x}) /\ (S \cup {x}) \ {x} = S
  BY FS_AddElement
<1> QED
  BY <1>1, SumOfOneMore

\* A part of the elements sums up to no more.
LEMMA SumOfPart ==
    ASSUME NEW f, NEW S, IsFiniteSet(S), \A x \in S : f[x] \in Nat, NEW T \in SUBSET S
    PROVE  SumFunctionOnSet(f, T) <= SumFunctionOnSet(f, S)
<1>1. IsFiniteSet(T) /\ \A x \in S : f[x] \in Int
  BY FS_Subset
<1>2. Units(f, T) \subseteq Units(f, S)
  BY DEF Units
<1>3. Cardinality(Units(f, T)) <= Cardinality(Units(f, S))
  BY <1>1, <1>2, UnitsFinite, FS_Subset
<1>4. /\ SumFunctionOnSet(f, T) = Cardinality(Units(f, T))
      /\ SumFunctionOnSet(f, S) = Cardinality(Units(f, S))
  BY <1>1, SumIsWorth, WorthOfNaturals
<1> QED
  BY <1>3, <1>4

\* The sum over a set whose elements are sent to different ones of the same value.
LEMMA SumOfImage ==
    ASSUME NEW f, NEW g, NEW h, NEW S, IsFiniteSet(S), NEW T, IsFiniteSet(T),
           \A y \in T : f[y] \in Int,
           \A x \in S : h[x] \in T /\ g[x] = f[h[x]],
           \A x, y \in S : h[x] = h[y] => x = y
    PROVE  SumFunctionOnSet(g, S) = SumFunctionOnSet(f, {h[x] : x \in S})
<1> DEFINE Image(s) == {h[x] : x \in s}
           Wrong == {s \in SUBSET S : SumFunctionOnSet(g, s) # SumFunctionOnSet(f, Image(s))}
<1>1. ASSUME Wrong # {} PROVE FALSE
  <2>1. PICK s \in Wrong : \A t \in Wrong : t \subseteq s => t = s
    <3>1. Wrong \subseteq SUBSET S
      OBVIOUS
    <3> HIDE DEF Wrong
    <3> QED
      BY <1>1, <3>1, LeastSubset
  <2>2. PICK x : x \in s
    <3>1. Image({}) = {}
      OBVIOUS
    <3> QED
      BY <2>1, <3>1, SumOfNothing
  <2>3. SumFunctionOnSet(g, s \ {x}) = SumFunctionOnSet(f, Image(s \ {x}))
    BY <2>1, <2>2
  <2>4. Image(s \ {x}) = Image(s) \ {h[x]} /\ h[x] \in Image(s)
    BY <2>1, <2>2
  <2>5. /\ IsFiniteSet(s) /\ \A y \in s : g[y] \in Int
        /\ IsFiniteSet(Image(s)) /\ \A y \in Image(s) : f[y] \in Int
    <3>1. IsFiniteSet(s) /\ \A y \in s : y \in S
      BY FS_Subset
    <3>2. Image(s) \subseteq T
      BY <3>1
    <3>3. IsFiniteSet(Image(s))
      BY <3>2, FS_Subset
    <3> QED
      BY <3>1, <3>2, <3>3
  <2> HIDE DEF Image
  <2>6. SumFunctionOnSet(g, s) = g[x] + SumFunctionOnSet(g, s \ {x})
    BY <2>2, <2>5, SumOfOneMore
  <2>7. SumFunctionOnSet(f, Image(s)) = f[h[x]] + SumFunctionOnSet(f, Image(s) \ {h[x]})
    BY <2>4, <2>5, SumOfOneMore
  <2>8. g[x] = f[h[x]]
    BY <2>2
  <2> QED
    BY <2>1, <2>3, <2>4, <2>6, <2>7, <2>8
<1> QED
  BY <1>1
=============================================================================

---------------------------- MODULE SumTheorems ----------------------------
(***************************************************************************)
(* Sums over finite sets (SumFunctionOnSet of the community module         *)
(* Functions), as the quota, the storage and the admission of tokens use   *)
(* them: what the recursive definition of the fold computes, and what      *)
(* follows for natural numbers.  Induction over finite sets is stated for  *)
(* a set of subsets instead of a predicate, which the provers can          *)
(* instantiate; it rests on the least number principle.                    *)
(***************************************************************************)
EXTENDS FiniteSetsExt, FiniteSetTheorems, WellFoundedInduction, TLAPS

Small(S, n) == {s \in SUBSET S : Cardinality(s) <= n}

Pick(s) == CHOOSE x \in s : TRUE

\* g sums f over each set of D: the equation of the fold.
SumsOn(f, D, g) ==
  g = [s \in D |-> IF s = {} THEN 0 ELSE f[Pick(s)] + g[s \ {Pick(s)}]]

SumsOf(f, S, g) == SumsOn(f, SUBSET S, g)

-----------------------------------------------------------------------------

\* A set of natural numbers has a least one.
LEMMA LeastNat ==
  ASSUME NEW T \in SUBSET Nat, T # {}
  PROVE  \E m \in T : \A k \in T : m <= k
<1>1. PICK m \in T : \A k \in T : ~ (<<k, m>> \in OpToRel(<, Nat))
  BY WFMin, NatLessThanWellFounded
<1>2. \A k \in T : ~(k < m)
  BY <1>1 DEF OpToRel
<1> QED
  BY <1>2

\* The sum is the value of such a function, if there is one.
LEMMA SumIs ==
  ASSUME NEW f, NEW S
  PROVE  SumFunctionOnSet(f, S) = (CHOOSE g : SumsOf(f, S, g))[S]
BY DEF SumFunctionOnSet, FoldFunctionOnSet, MapThenFoldSet, SumsOf, SumsOn, Pick
\* There is one: for sets of n + 1 elements it follows from the one for n.
LEMMA SumsExist ==
  ASSUME NEW f, NEW S, IsFiniteSet(S)
  PROVE  \E g : SumsOf(f, S, g)
<1> DEFINE Done == {n \in Nat : \E g : SumsOn(f, Small(S, n), g)}
<1>0. \A s \in SUBSET S : IsFiniteSet(s) /\ Cardinality(s) \in Nat
  BY FS_Subset, FS_CardinalityType
<1>1. 0 \in Done
  <2>1. \A s \in Small(S, 0) : s = {}
    BY <1>0, FS_EmptySet DEF Small
  <2>2. SumsOn(f, Small(S, 0), [s \in Small(S, 0) |-> 0])
    BY <2>1 DEF SumsOf, SumsOn
  <2> QED
    BY <2>2
<1>2. ASSUME NEW n \in Done PROVE n + 1 \in Done
  <2>1. PICK g : SumsOn(f, Small(S, n), g)
    OBVIOUS
  <2> DEFINE h == [s \in Small(S, n + 1) |-> IF s = {} THEN 0 ELSE f[Pick(s)] + g[s \ {Pick(s)}]]
  <2>2. \A s \in Small(S, n + 1) : s # {} => s \ {Pick(s)} \in Small(S, n)
    <3> SUFFICES ASSUME NEW s \in Small(S, n + 1), s # {} PROVE s \ {Pick(s)} \in Small(S, n)
      OBVIOUS
    <3>1. Pick(s) \in s
      BY DEF Pick
    <3>2. Cardinality(s \ {Pick(s)}) = Cardinality(s) - 1
      BY <1>0, <3>1, FS_RemoveElement DEF Small
    <3> QED
      BY <1>0, <3>2 DEF Small
  <2>3. Small(S, n) \subseteq Small(S, n + 1)
    BY <1>0 DEF Small
  <2>4. \A s \in Small(S, n) : h[s] = g[s]
    BY <2>1, <2>3 DEF SumsOf, SumsOn
  <2>5. SumsOn(f, Small(S, n + 1), h)
    BY <2>2, <2>4 DEF SumsOf, SumsOn
  <2> QED
    BY <2>5
<1>3. Done = Nat
  <2>1. SUFFICES ASSUME Nat \ Done # {} PROVE FALSE
    OBVIOUS
  <2>2. PICK m \in Nat \ Done : \A k \in Nat \ Done : m <= k
    <3>1. Nat \ Done \in SUBSET Nat
      OBVIOUS
    <3> QED
      BY <2>1, <3>1, LeastNat
  <2> HIDE DEF Done
  <2>3. m # 0
    BY <1>1
  <2>4. m - 1 \in Nat /\ m - 1 \in Done
    BY <2>2, <2>3
  <2>5. (m - 1) + 1 \in Done
    BY <1>2, <2>4
  <2> QED
    BY <2>2, <2>5
<1>4. Small(S, Cardinality(S)) = SUBSET S
  BY FS_Subset DEF Small
<1>5. Cardinality(S) \in Done
  BY <1>0, <1>3
<1> QED
  BY <1>4, <1>5 DEF SumsOf

\* Two of them agree where both are defined.
LEMMA SumsAgree ==
  ASSUME NEW f, NEW S, IsFiniteSet(S), NEW T, T \subseteq S, NEW g, NEW h,
         SumsOf(f, S, g), SumsOf(f, T, h)
  PROVE  g[T] = h[T]
<1> DEFINE Off == {n \in Nat : \E s \in SUBSET T : Cardinality(s) = n /\ g[s] # h[s]}
<1>0. \A s \in SUBSET S : IsFiniteSet(s) /\ Cardinality(s) \in Nat
  BY FS_Subset, FS_CardinalityType
<1>1. SUFFICES ASSUME g[T] # h[T] PROVE FALSE
  OBVIOUS
<1>2. Cardinality(T) \in Off
  BY <1>0, <1>1
<1>3. PICK m \in Off : \A k \in Off : m <= k
  BY <1>2, LeastNat
<1>4. PICK s \in SUBSET T : Cardinality(s) = m /\ g[s] # h[s]
  OBVIOUS
<1>5. s # {}
  BY <1>4 DEF SumsOf, SumsOn
<1>6. Pick(s) \in s
  BY <1>5 DEF Pick
<1>7. s \ {Pick(s)} \in SUBSET T /\ Cardinality(s \ {Pick(s)}) = m - 1 /\ m - 1 \in Nat
  <2>1. IsFiniteSet(s) /\ s \ {Pick(s)} \in SUBSET T /\ s \ {Pick(s)} \in SUBSET S
    BY <1>0
  <2>2. Cardinality(s \ {Pick(s)}) = m - 1
    BY <1>4, <1>6, <2>1, FS_RemoveElement
  <2>3. m \in Nat /\ Cardinality(s \ {Pick(s)}) \in Nat
    BY <1>0, <2>1
  <2> QED
    BY <2>1, <2>2, <2>3
<1>8. m - 1 \notin Off
  BY <1>3, <1>7
<1>9. g[s \ {Pick(s)}] = h[s \ {Pick(s)}]
  BY <1>7, <1>8
<1> QED
  BY ZenonT(40), <1>4, <1>5, <1>9 DEF SumsOf, SumsOn

\* A function that sums f over the subsets of S gives the sum over each of them.
LEMMA SumsAreSums ==
  ASSUME NEW f, NEW S, IsFiniteSet(S), NEW g, SumsOf(f, S, g), NEW T \in SUBSET S
  PROVE  g[T] = SumFunctionOnSet(f, T)
<1>1. PICK h : h = CHOOSE x : SumsOf(f, T, x)
  OBVIOUS
<1>2. IsFiniteSet(T)
  BY FS_Subset
<1>3. SumsOf(f, T, h)
  BY <1>1, <1>2, SumsExist
<1>4. g[T] = h[T]
  BY <1>3, SumsAgree
<1> QED
  BY <1>1, <1>4, SumIs

\* The equation of the fold.
LEMMA SumEquation ==
  ASSUME NEW f, NEW S, IsFiniteSet(S)
  PROVE  SumFunctionOnSet(f, S) =
           IF S = {} THEN 0 ELSE f[Pick(S)] + SumFunctionOnSet(f, S \ {Pick(S)})
<1>1. PICK g : SumsOf(f, S, g)
  BY SumsExist
<1>2. \A T \in SUBSET S : g[T] = SumFunctionOnSet(f, T)
  BY <1>1, SumsAreSums
<1> QED
  BY <1>1, <1>2 DEF SumsOf, SumsOn

-----------------------------------------------------------------------------

\* Induction over the subsets of a finite set: F holds the ones of a property.
LEMMA SubsetInduction ==
  ASSUME NEW S, IsFiniteSet(S), NEW F,
         \A s \in SUBSET S : (\A x \in s : s \ {x} \in F) => s \in F
  PROVE  S \in F
<1> DEFINE Off == {n \in Nat : \E s \in SUBSET S : Cardinality(s) = n /\ s \notin F}
<1>0. \A s \in SUBSET S : IsFiniteSet(s) /\ Cardinality(s) \in Nat
  BY FS_Subset, FS_CardinalityType
<1>1. SUFFICES ASSUME S \notin F PROVE FALSE
  OBVIOUS
<1>2. Cardinality(S) \in Off
  BY <1>0, <1>1
<1>3. PICK m \in Off : \A k \in Off : m <= k
  BY <1>2, LeastNat
<1>4. PICK s \in SUBSET S : Cardinality(s) = m /\ s \notin F
  OBVIOUS
<1>5. PICK x \in s : s \ {x} \notin F
  BY <1>4
<1>6. Cardinality(s \ {x}) = m - 1
  BY <1>0, <1>4, FS_RemoveElement
<1>7. s \ {x} \in SUBSET S /\ m - 1 \in Nat
  BY <1>0, <1>6
<1>8. m - 1 \in Off
  BY <1>5, <1>6, <1>7
<1> QED
  BY <1>3, <1>8

-----------------------------------------------------------------------------
(* What is used of the sums of natural numbers. *)

\* Nothing sums up to 0.
LEMMA SumEmpty == \A f : SumFunctionOnSet(f, {}) = 0
  BY FS_EmptySet, SumEquation

\* A sum of natural numbers is one.
LEMMA SumInNat ==
  ASSUME NEW S, IsFiniteSet(S), NEW f, \A x \in S : f[x] \in Nat
  PROVE  SumFunctionOnSet(f, S) \in Nat
<1> DEFINE F == {s \in SUBSET S : SumFunctionOnSet(f, s) \in Nat}
<1>1. ASSUME NEW s \in SUBSET S, \A x \in s : s \ {x} \in F PROVE s \in F
  <2>1. CASE s = {}
    BY <2>1, SumEmpty
  <2>2. CASE s # {}
    <3>1. IsFiniteSet(s) /\ Pick(s) \in s
      BY <2>2, FS_Subset DEF Pick
    <3>2. SumFunctionOnSet(f, s) = f[Pick(s)] + SumFunctionOnSet(f, s \ {Pick(s)})
      BY <2>2, <3>1, SumEquation
    <3>3. SumFunctionOnSet(f, s \ {Pick(s)}) \in Nat
      BY <1>1, <3>1
    <3> QED
      BY <3>1, <3>2, <3>3
  <2> QED
    BY <2>1, <2>2
<1> HIDE DEF F
<1>2. S \in F
  BY <1>1, SubsetInduction
<1> QED
  BY <1>2 DEF F

\* Any element may be split off.
LEMMA SumSplit ==
  ASSUME NEW S, IsFiniteSet(S), NEW f, \A x \in S : f[x] \in Nat, NEW x \in S
  PROVE  SumFunctionOnSet(f, S) = f[x] + SumFunctionOnSet(f, S \ {x})
<1> DEFINE Splits(s) == \A y \in s : SumFunctionOnSet(f, s) = f[y] + SumFunctionOnSet(f, s \ {y})
<1> DEFINE F == {s \in SUBSET S : Splits(s)}
<1>0. \A s \in SUBSET S : IsFiniteSet(s) /\ SumFunctionOnSet(f, s) \in Nat
  <2> SUFFICES ASSUME NEW s \in SUBSET S PROVE IsFiniteSet(s) /\ SumFunctionOnSet(f, s) \in Nat
    OBVIOUS
  <2>1. IsFiniteSet(s) /\ \A y \in s : f[y] \in Nat
    BY FS_Subset
  <2> QED
    BY <2>1, SumInNat
<1>1. ASSUME NEW s \in SUBSET S, \A z \in s : s \ {z} \in F, NEW y \in s
      PROVE  SumFunctionOnSet(f, s) = f[y] + SumFunctionOnSet(f, s \ {y})
  <2>1. Pick(s) \in s /\ s # {}
    BY DEF Pick
  <2>2. SumFunctionOnSet(f, s) = f[Pick(s)] + SumFunctionOnSet(f, s \ {Pick(s)})
    BY <1>0, <2>1, SumEquation
  <2>3. CASE y = Pick(s)
    BY <2>2, <2>3
  <2>4. CASE y # Pick(s)
    <3> DEFINE rest == (s \ {y}) \ {Pick(s)}
    <3>1. SumFunctionOnSet(f, s \ {Pick(s)}) = f[y] + SumFunctionOnSet(f, (s \ {Pick(s)}) \ {y})
      BY <1>1, <2>1, <2>4
    <3>2. SumFunctionOnSet(f, s \ {y}) = f[Pick(s)] + SumFunctionOnSet(f, rest)
      BY <1>1, <2>1, <2>4
    <3>3. (s \ {Pick(s)}) \ {y} = rest
      OBVIOUS
    <3>4. SumFunctionOnSet(f, rest) \in Nat /\ f[y] \in Nat /\ f[Pick(s)] \in Nat
      <4>1. rest \in SUBSET S /\ y \in S /\ Pick(s) \in S
        BY <2>1
      <4> QED
        BY <1>0, <4>1
    <3>5. SumFunctionOnSet(f, s) = f[Pick(s)] + (f[y] + SumFunctionOnSet(f, rest))
      BY <2>2, <3>1, <3>3
    <3> HIDE DEF rest
    <3> QED
      BY <3>2, <3>4, <3>5
  <2> QED
    BY <2>3, <2>4
<1>2. \A s \in SUBSET S : (\A z \in s : s \ {z} \in F) => s \in F
  BY <1>1
<1> HIDE DEF F
<1>3. S \in F
  BY <1>2, SubsetInduction
<1> QED
  BY <1>3 DEF F

\* A sum of smaller numbers is smaller.
LEMMA SumMono ==
  ASSUME NEW S, IsFiniteSet(S), NEW f, NEW g,
         \A x \in S : f[x] \in Nat /\ g[x] \in Nat /\ f[x] <= g[x]
  PROVE  SumFunctionOnSet(f, S) <= SumFunctionOnSet(g, S)
<1> DEFINE F == {s \in SUBSET S : SumFunctionOnSet(f, s) <= SumFunctionOnSet(g, s)}
<1>1. ASSUME NEW s \in SUBSET S, \A x \in s : s \ {x} \in F PROVE s \in F
  <2>1. CASE s = {}
    BY <2>1, SumEmpty
  <2>2. CASE s # {}
    <3>1. PICK x \in s : TRUE
      BY <2>2
    <3>2. IsFiniteSet(s) /\ IsFiniteSet(s \ {x})
      BY FS_Subset
    <3>3. SumFunctionOnSet(f, s) = f[x] + SumFunctionOnSet(f, s \ {x})
      BY <3>2, SumSplit
    <3>4. SumFunctionOnSet(g, s) = g[x] + SumFunctionOnSet(g, s \ {x})
      BY <3>2, SumSplit
    <3>5. SumFunctionOnSet(f, s \ {x}) \in Nat /\ SumFunctionOnSet(g, s \ {x}) \in Nat
      BY <3>2, SumInNat
    <3>6. SumFunctionOnSet(f, s \ {x}) <= SumFunctionOnSet(g, s \ {x})
      BY <1>1
    <3> QED
      BY <3>3, <3>4, <3>5, <3>6
  <2> QED
    BY <2>1, <2>2
<1> HIDE DEF F
<1>2. S \in F
  BY <1>1, SubsetInduction
<1> QED
  BY <1>2 DEF F

\* Only the values on the set count.
LEMMA SumSame ==
  ASSUME NEW S, IsFiniteSet(S), NEW f, NEW g, \A x \in S : f[x] \in Nat /\ f[x] = g[x]
  PROVE  SumFunctionOnSet(f, S) = SumFunctionOnSet(g, S)
<1>1. SumFunctionOnSet(f, S) \in Nat /\ SumFunctionOnSet(g, S) \in Nat
  BY SumInNat
<1>2. SumFunctionOnSet(f, S) <= SumFunctionOnSet(g, S)
  BY SumMono
<1>3. SumFunctionOnSet(g, S) <= SumFunctionOnSet(f, S)
  BY SumMono
<1> QED
  BY <1>1, <1>2, <1>3

\* One value changes, and the sum by as much.
LEMMA SumChange ==
  ASSUME NEW S, IsFiniteSet(S), NEW f, NEW g, NEW x \in S, f[x] \in Nat, g[x] \in Nat,
         \A y \in S \ {x} : f[y] \in Nat /\ f[y] = g[y]
  PROVE  SumFunctionOnSet(g, S) = SumFunctionOnSet(f, S) - f[x] + g[x]
<1>1. SumFunctionOnSet(f, S) = f[x] + SumFunctionOnSet(f, S \ {x})
  BY SumSplit
<1>2. SumFunctionOnSet(g, S) = g[x] + SumFunctionOnSet(g, S \ {x})
  BY SumSplit
<1>3. IsFiniteSet(S \ {x})
  BY FS_Subset
<1>4. SumFunctionOnSet(f, S \ {x}) = SumFunctionOnSet(g, S \ {x}) /\ SumFunctionOnSet(f, S \ {x}) \in Nat
  BY <1>3, SumSame, SumInNat
<1> QED
  BY <1>1, <1>2, <1>4

\* No term is greater than the sum.
LEMMA SumMember ==
  ASSUME NEW S, IsFiniteSet(S), NEW f, \A x \in S : f[x] \in Nat, NEW x \in S
  PROVE  f[x] <= SumFunctionOnSet(f, S)
<1>1. SumFunctionOnSet(f, S) = f[x] + SumFunctionOnSet(f, S \ {x})
  BY SumSplit
<1>2. IsFiniteSet(S \ {x})
  BY FS_Subset
<1>3. SumFunctionOnSet(f, S \ {x}) \in Nat
  BY <1>2, SumInNat
<1> QED
  BY <1>1, <1>3

\* A sum of zeros.
LEMMA SumZero ==
  ASSUME NEW S, IsFiniteSet(S), NEW f, \A x \in S : f[x] = 0
  PROVE  SumFunctionOnSet(f, S) = 0
<1> DEFINE F == {s \in SUBSET S : SumFunctionOnSet(f, s) = 0}
<1>1. ASSUME NEW s \in SUBSET S, \A x \in s : s \ {x} \in F PROVE s \in F
  <2>1. CASE s = {}
    BY <2>1, SumEmpty
  <2>2. CASE s # {}
    <3>1. IsFiniteSet(s) /\ Pick(s) \in s
      BY <2>2, FS_Subset DEF Pick
    <3>2. SumFunctionOnSet(f, s) = f[Pick(s)] + SumFunctionOnSet(f, s \ {Pick(s)})
      BY <2>2, <3>1, SumEquation
    <3> QED
      BY <1>1, <3>1, <3>2
  <2> QED
    BY <2>1, <2>2
<1> HIDE DEF F
<1>2. S \in F
  BY <1>1, SubsetInduction
<1> QED
  BY <1>2 DEF F

\* What is zero may be left out.
LEMMA SumSupport ==
  ASSUME NEW S, IsFiniteSet(S), NEW T, NEW f, \A x \in S : f[x] \in Nat, \A x \in S \ T : f[x] = 0
  PROVE  SumFunctionOnSet(f, S) = SumFunctionOnSet(f, S \cap T)
<1> DEFINE F == {s \in SUBSET S : SumFunctionOnSet(f, s) = SumFunctionOnSet(f, s \cap T)}
<1>1. ASSUME NEW s \in SUBSET S, \A x \in s : s \ {x} \in F PROVE s \in F
  <2>1. CASE s = {}
    <3>1. s \cap T = s
      BY <2>1
    <3> QED
      BY <3>1
  <2>2. CASE s # {}
    <3>1. PICK p \in s : SumFunctionOnSet(f, s) = f[p] + SumFunctionOnSet(f, s \ {p})
      <4>1. IsFiniteSet(s) /\ Pick(s) \in s
        BY <2>2, FS_Subset DEF Pick
      <4> QED
        BY <2>2, <4>1, SumEquation
    <3>2. SumFunctionOnSet(f, s \ {p}) = SumFunctionOnSet(f, (s \ {p}) \cap T)
      BY <1>1, <3>1
    <3>3. CASE p \in T
      <4>1. (s \ {p}) \cap T = (s \cap T) \ {p}
        OBVIOUS
      <4>2. IsFiniteSet(s \cap T)
        BY FS_Subset
      <4>3. SumFunctionOnSet(f, s \cap T) = f[p] + SumFunctionOnSet(f, (s \cap T) \ {p})
        BY <3>3, <4>2, SumSplit
      <4> QED
        BY <3>1, <3>2, <4>1, <4>3
    <3>4. CASE p \notin T
      <4>1. (s \ {p}) \cap T = s \cap T /\ f[p] = 0
        BY <3>4
      <4>2. SumFunctionOnSet(f, s \cap T) \in Nat
        <5>1. IsFiniteSet(s \cap T)
          BY FS_Subset
        <5> QED
          BY <5>1, SumInNat
      <4> QED
        BY <3>1, <3>2, <4>1, <4>2
    <3> QED
      BY <3>3, <3>4
  <2> QED
    BY <2>1, <2>2
<1> HIDE DEF F
<1>2. S \in F
  BY <1>1, SubsetInduction
<1> QED
  BY <1>2 DEF F

\* As many terms, each at most m.
LEMMA SumBound ==
  ASSUME NEW S, IsFiniteSet(S), NEW m \in Nat, NEW f, \A x \in S : f[x] \in Nat /\ f[x] <= m
  PROVE  SumFunctionOnSet(f, S) <= m * Cardinality(S)
<1> DEFINE F == {s \in SUBSET S : SumFunctionOnSet(f, s) <= m * Cardinality(s)}
<1>0. \A n \in Nat : m * (n + 1) = m * n + m /\ m * n \in Nat
  OBVIOUS
<1>1. ASSUME NEW s \in SUBSET S, \A x \in s : s \ {x} \in F PROVE s \in F
  <2>1. CASE s = {}
    <3>1. SumFunctionOnSet(f, s) = 0 /\ Cardinality(s) = 0 /\ m * 0 = 0
      BY <2>1, SumEmpty, FS_EmptySet
    <3> QED
      BY <3>1
  <2>2. CASE s # {}
    <3>0. IsFiniteSet(s)
      BY FS_Subset
    <3>1. PICK p \in s : SumFunctionOnSet(f, s) = f[p] + SumFunctionOnSet(f, s \ {p})
      BY <2>2, <3>0, SumEquation DEF Pick
    <3>2. PICK n \in Nat : n = Cardinality(s \ {p})
      BY <3>0, FS_RemoveElement, FS_CardinalityType
    <3>3. Cardinality(s) = n + 1
      <4>1. Cardinality(s \ {p}) = Cardinality(s) - 1 /\ Cardinality(s) \in Nat
        BY <3>0, <3>1, FS_RemoveElement, FS_CardinalityType
      <4> QED
        BY <3>2, <4>1
    <3>4. SumFunctionOnSet(f, s \ {p}) <= m * n
      BY <1>1, <3>1, <3>2
    <3>5. SumFunctionOnSet(f, s \ {p}) \in Nat
      <4>1. IsFiniteSet(s \ {p})
        BY FS_Subset
      <4> QED
        BY <4>1, SumInNat
    <3>6. f[p] \in Nat /\ f[p] <= m /\ m * (n + 1) = m * n + m /\ m * n \in Nat
      BY <1>0, <3>1
    <3>7. SumFunctionOnSet(f, s) <= m * (n + 1)
      <4>1. PICK a \in Nat, b \in Nat, c \in Nat : a = f[p] /\ b = SumFunctionOnSet(f, s \ {p}) /\ c = m * n
        BY <3>5, <3>6
      <4>2. a <= m /\ b <= c /\ SumFunctionOnSet(f, s) = a + b /\ m * (n + 1) = c + m
        BY <3>1, <3>4, <3>6, <4>1
      <4>3. a + b <= c + m
        BY <4>2
      <4> QED
        BY <4>2, <4>3
    <3> QED
      BY <3>3, <3>7
  <2> QED
    BY <2>1, <2>2
<1> HIDE DEF F
<1>2. S \in F
  BY <1>1, SubsetInduction
<1> QED
  BY <1>2 DEF F

=============================================================================

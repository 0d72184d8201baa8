-------------------------------- MODULE Sums --------------------------------
(***************************************************************************)
(* What MapThenSumSet computes, for every finite set.  The sum is taken of *)
(* a function f, and defined like the one of the community modules by a    *)
(* recursion over subsets, which is unfolded here by minimal               *)
(* counterexamples instead of induction.                                   *)
(***************************************************************************)
EXTENDS FiniteSetsExt, Integers, FiniteSetTheorems, WellFoundedInduction, TLAPS

Pick(s) == CHOOSE x \in s : TRUE

\* g is the function on the subsets of S that the recursion defines.
Adds(f, S, g) == g = [s \in SUBSET S |-> IF s = {} THEN 0 ELSE f[Pick(s)] + g[s \ {Pick(s)}]]

SumOf(f, S) == (CHOOSE g : Adds(f, S, g))[S]

LEMMA Picked == ASSUME NEW s, s # {} PROVE Pick(s) \in s
BY DEF Pick

\* Induction on the natural numbers, for a set of them.
LEMMA NatSet ==
    ASSUME NEW P \in SUBSET Nat, 0 \in P, \A n \in P : n + 1 \in P
    PROVE  P = Nat
<1> SUFFICES ASSUME Nat \ P # {} PROVE FALSE
  OBVIOUS
<1> DEFINE R == OpToRel(<, Nat)
           T == Nat \ P
<1>1. IsWellFoundedOn(R, Nat)
  BY NatLessThanWellFounded
<1> HIDE DEF R
<1>2. PICK x \in T : \A y \in T : ~(<<y, x>> \in R)
  BY <1>1, WFMin
<1>3. x # 0 /\ x - 1 \in Nat
  OBVIOUS
<1>4. <<x - 1, x>> \in R
  BY <1>3 DEF R, OpToRel
<1>5. x - 1 \in P
  BY <1>2, <1>3, <1>4
<1>6. (x - 1) + 1 \in P
  BY <1>5
<1> QED BY <1>3, <1>6

\* Induction on the subsets of a finite set, for a set of them.
LEMMA SubsetsSet ==
    ASSUME NEW S, IsFiniteSet(S), NEW P \in SUBSET (SUBSET S),
           \A T \in SUBSET S : (\A U \in SUBSET T : U # T => U \in P) => T \in P
    PROVE  P = SUBSET S
<1> SUFFICES ASSUME (SUBSET S) \ P # {} PROVE FALSE
  OBVIOUS
<1> DEFINE Subs == SUBSET S
           R == StrictSubsetOrdering(S)
           B == Subs \ P
<1>1. IsWellFoundedOn(R, Subs)
  <2>1. IsWellFoundedOn(R, FiniteSubsetsOf(S))
    BY FS_StrictSubsetOrderingWellFounded
  <2>2. FiniteSubsetsOf(S) = Subs
    BY FS_FiniteSubsetsOfFinite
  <2> HIDE DEF R, Subs
  <2> QED BY <2>1, <2>2, Zenon
<1>2. B # {} /\ B \subseteq Subs
  OBVIOUS
<1> HIDE DEF R, B, Subs
<1>3. PICK T \in B : \A U \in B : ~(<<U, T>> \in R)
  BY <1>1, <1>2, WFMin
<1>4. T \in SUBSET S
  BY DEF B, Subs
<1>5. ASSUME NEW U \in SUBSET T, U # T PROVE U \in P
  <2>1. <<U, T>> \in R
    BY <1>4, <1>5 DEF R, StrictSubsetOrdering
  <2> QED BY <1>3, <1>4, <2>1 DEF B, Subs
<1> QED BY <1>4, <1>5 DEF B

-----------------------------------------------------------------------------
(* The recursion defines a function *)

LEMMA AddsExists ==
    ASSUME NEW f, NEW S, IsFiniteSet(S)
    PROVE  \E g : Adds(f, S, g)
<1> DEFINE L(n) == {s \in SUBSET S : Cardinality(s) <= n}
           UpTo(n, g) == g = [s \in L(n) |->
                                IF s = {} THEN 0 ELSE f[Pick(s)] + g[s \ {Pick(s)}]]
           P == {n \in Nat : \E g : UpTo(n, g)}
<1>1. \A s \in SUBSET S : IsFiniteSet(s) /\ Cardinality(s) \in Nat
  BY FS_Subset, FS_CardinalityType
<1>2. 0 \in P
  <2>1. \A s \in L(0) : s = {}
    <3> SUFFICES ASSUME NEW s \in L(0) PROVE s = {}
      OBVIOUS
    <3>1. Cardinality(s) = 0 /\ IsFiniteSet(s)
      BY <1>1
    <3> QED BY <3>1, FS_EmptySet
  <2>2. UpTo(0, [s \in L(0) |-> 0])
    BY <2>1
  <2> QED BY <2>2
<1>3. ASSUME NEW n \in P PROVE n + 1 \in P
  <2>1. PICK g : UpTo(n, g)
    OBVIOUS
  <2> DEFINE h == [s \in L(n + 1) |-> IF s = {} THEN 0 ELSE f[Pick(s)] + g[s \ {Pick(s)}]]
  <2>2. L(n) \subseteq L(n + 1)
    BY <1>1
  <2>3. \A s \in L(n) : h[s] = g[s]
    BY <2>1, <2>2
  <2>4. ASSUME NEW s \in L(n + 1), s # {} PROVE s \ {Pick(s)} \in L(n)
    <3>1. Pick(s) \in s /\ IsFiniteSet(s) /\ Cardinality(s) \in Nat
      BY <1>1, <2>4, Picked
    <3>2. Cardinality(s \ {Pick(s)}) = Cardinality(s) - 1
      BY <3>1, FS_RemoveElement
    <3> QED BY <3>1, <3>2
  <2>5. \A s \in L(n + 1) : h[s] = IF s = {} THEN 0 ELSE f[Pick(s)] + h[s \ {Pick(s)}]
    BY <2>3, <2>4
  <2>6. UpTo(n + 1, h)
    BY <2>5
  <2>7. n + 1 \in Nat
    OBVIOUS
  <2> HIDE DEF h, UpTo
  <2> QED BY <2>6, <2>7
<1>4. Cardinality(S) \in P
  <2> HIDE DEF P
  <2>1. P = Nat
    <3>1. P \in SUBSET Nat
      BY DEF P
    <3> QED BY <1>2, <1>3, <3>1, NatSet
  <2> QED BY <1>1, <2>1
<1>5. PICK g : UpTo(Cardinality(S), g)
  BY <1>4
<1>6. L(Cardinality(S)) = SUBSET S
  BY FS_Subset
<1> QED BY <1>5, <1>6 DEF Adds

LEMMA AddsRule ==
    ASSUME NEW f, NEW S, NEW g, Adds(f, S, g), NEW s \in SUBSET S
    PROVE  g[s] = IF s = {} THEN 0 ELSE f[Pick(s)] + g[s \ {Pick(s)}]
BY DEF Adds

\* and but one, also when it is taken of a larger set.
LEMMA AddsUnique ==
    ASSUME NEW f, NEW S, IsFiniteSet(S), NEW e, NEW g, NEW h, Adds(f, S, g),
           NEW T \in SUBSET S, Adds(e, T, h), \A x \in T : e[x] = f[x]
    PROVE  \A s \in SUBSET T : h[s] = g[s]
<1> DEFINE P == {s \in SUBSET T : h[s] = g[s]}
<1>1. IsFiniteSet(T)
  BY FS_Subset
<1>2. ASSUME NEW s \in SUBSET T, \A u \in SUBSET s : u # s => u \in P
      PROVE  s \in P
  <2>1. CASE s = {}
    BY <2>1, AddsRule
  <2>2. CASE s # {}
    <3>1. Pick(s) \in s
      BY <2>2, Picked
    <3>2. s \ {Pick(s)} \in P
      BY <1>2, <3>1
    <3>3. h[s] = e[Pick(s)] + h[s \ {Pick(s)}] /\ g[s] = f[Pick(s)] + g[s \ {Pick(s)}]
      BY <2>2, AddsRule
    <3> QED BY <3>1, <3>2, <3>3
  <2> QED BY <2>1, <2>2
<1> HIDE DEF P
<1>3. P = SUBSET T
  <2>1. P \in SUBSET (SUBSET T)
    BY DEF P
  <2> QED BY <1>1, <1>2, <2>1, SubsetsSet
<1> QED BY <1>3 DEF P

-----------------------------------------------------------------------------
(* Sums, term by term *)

LEMMA SumAdds ==
    ASSUME NEW f, NEW S, IsFiniteSet(S)
    PROVE  \E g : Adds(f, S, g) /\ \A T \in SUBSET S : SumOf(f, T) = g[T]
<1>1. PICK g : Adds(f, S, g)
  BY AddsExists
<1>2. ASSUME NEW T \in SUBSET S PROVE SumOf(f, T) = g[T]
  <2> DEFINE h == CHOOSE x : Adds(f, T, x)
  <2>1. Adds(f, T, h)
    <3>1. IsFiniteSet(T)
      BY FS_Subset
    <3> QED BY <3>1, AddsExists
  <2>2. SumOf(f, T) = h[T]
    BY DEF SumOf
  <2> HIDE DEF h
  <2>3. \A s \in SUBSET T : h[s] = g[s]
    BY <1>1, <2>1, AddsUnique
  <2> QED BY <2>2, <2>3
<1> QED BY <1>1, <1>2

\* The sum depends on the values of f on S only.
LEMMA SumSame ==
    ASSUME NEW e, NEW f, NEW S, IsFiniteSet(S), \A x \in S : e[x] = f[x]
    PROVE  SumOf(e, S) = SumOf(f, S)
<1>1. PICK g : Adds(f, S, g) /\ SumOf(f, S) = g[S]
  BY SumAdds
<1>2. PICK h : Adds(e, S, h) /\ SumOf(e, S) = h[S]
  BY SumAdds
<1>3. \A s \in SUBSET S : h[s] = g[s]
  BY <1>1, <1>2, AddsUnique
<1> QED BY <1>1, <1>2, <1>3

LEMMA SumEmpty == ASSUME NEW f PROVE SumOf(f, {}) = 0
<1>1. IsFiniteSet({})
  BY FS_EmptySet
<1>2. PICK g : Adds(f, {}, g) /\ SumOf(f, {}) = g[{}]
  BY <1>1, SumAdds
<1> QED BY <1>2, AddsRule

LEMMA SumPick ==
    ASSUME NEW f, NEW S, IsFiniteSet(S), S # {}
    PROVE  SumOf(f, S) = f[Pick(S)] + SumOf(f, S \ {Pick(S)})
<1>1. PICK g : Adds(f, S, g) /\ \A T \in SUBSET S : SumOf(f, T) = g[T]
  BY SumAdds
<1> QED BY <1>1, AddsRule

LEMMA SumType ==
    ASSUME NEW f, NEW S, IsFiniteSet(S), \A x \in S : f[x] \in Int
    PROVE  SumOf(f, S) \in Int
<1> DEFINE P == {T \in SUBSET S : SumOf(f, T) \in Int}
<1>1. ASSUME NEW T \in SUBSET S, \A U \in SUBSET T : U # T => U \in P
      PROVE  T \in P
  <2>1. CASE T = {}
    BY <2>1, SumEmpty
  <2>2. CASE T # {}
    <3>1. IsFiniteSet(T) /\ Pick(T) \in T
      BY <2>2, FS_Subset, Picked
    <3>2. T \ {Pick(T)} \in P
      BY <1>1, <3>1
    <3> QED BY <2>2, <3>1, <3>2, SumPick
  <2> QED BY <2>1, <2>2
<1> HIDE DEF P
<1>2. P = SUBSET S
  <2>1. P \in SUBSET (SUBSET S)
    BY DEF P
  <2> QED BY <1>1, <2>1, SubsetsSet
<1> QED BY <1>2 DEF P

\* Nothing but zeros adds up to zero.
LEMMA SumOfZeros ==
    ASSUME NEW f, NEW S, IsFiniteSet(S), \A x \in S : f[x] = 0
    PROVE  SumOf(f, S) = 0
<1> DEFINE P == {T \in SUBSET S : SumOf(f, T) = 0}
<1>1. ASSUME NEW T \in SUBSET S, \A U \in SUBSET T : U # T => U \in P
      PROVE  T \in P
  <2>1. CASE T = {}
    BY <2>1, SumEmpty
  <2>2. CASE T # {}
    <3>1. IsFiniteSet(T)
      BY FS_Subset
    <3>2. SumOf(f, T) = f[Pick(T)] + SumOf(f, T \ {Pick(T)}) /\ Pick(T) \in T
      BY <2>2, <3>1, SumPick, Picked
    <3>3. T \ {Pick(T)} \in P
      BY <1>1, <3>2
    <3> QED BY <3>2, <3>3
  <2> QED BY <2>1, <2>2
<1>2. P = SUBSET S
  <2> HIDE DEF P
  <2>1. P \in SUBSET (SUBSET S)
    BY DEF P
  <2> QED BY <1>1, <2>1, SubsetsSet
<1> QED BY <1>2

\* Any term may be taken out: the sum does not depend on the order.
LEMMA SumRemove ==
    ASSUME NEW f, NEW S, IsFiniteSet(S), \A x \in S : f[x] \in Int, NEW y \in S
    PROVE  SumOf(f, S) = f[y] + SumOf(f, S \ {y})
<1> DEFINE P == {T \in SUBSET S : \A x \in T : SumOf(f, T) = f[x] + SumOf(f, T \ {x})}
<1>1. ASSUME NEW T \in SUBSET S, \A U \in SUBSET T : U # T => U \in P, NEW x \in T
      PROVE  SumOf(f, T) = f[x] + SumOf(f, T \ {x})
  <2> DEFINE p == Pick(T)
             rest == (T \ {p}) \ {x}
  <2>1. IsFiniteSet(T) /\ p \in T
    BY FS_Subset, Picked
  <2>2. SumOf(f, T) = f[p] + SumOf(f, T \ {p})
    BY <2>1, SumPick
  <2> HIDE DEF p
  <2>3. CASE x = p
    BY <2>2, <2>3
  <2>4. CASE x # p
    <3>1. T \ {p} \in P /\ T \ {x} \in P
      BY <1>1, <2>1
    <3>2. SumOf(f, T \ {p}) = f[x] + SumOf(f, rest)
      BY <2>4, <3>1
    <3>3. SumOf(f, T \ {x}) = f[p] + SumOf(f, rest)
      <4>1. (T \ {x}) \ {p} = rest
        OBVIOUS
      <4> QED BY <2>1, <2>4, <3>1, <4>1
    <3>4. f[p] \in Int /\ f[x] \in Int /\ SumOf(f, rest) \in Int
      <4>1. IsFiniteSet(rest) /\ \A z \in rest : f[z] \in Int
        BY <2>1, FS_Subset
      <4> HIDE DEF rest
      <4> QED BY <2>1, <4>1, SumType
    <3> QED BY <2>2, <3>2, <3>3, <3>4
  <2> QED BY <2>3, <2>4
<1>2. \A T \in SUBSET S : (\A U \in SUBSET T : U # T => U \in P) => T \in P
  BY <1>1
<1> HIDE DEF P
<1>3. P = SUBSET S
  <2>1. P \in SUBSET (SUBSET S)
    BY DEF P
  <2> QED BY <1>2, <2>1, SubsetsSet
<1> QED BY <1>3 DEF P

LEMMA SumAdd ==
    ASSUME NEW f, NEW S, IsFiniteSet(S), NEW y, y \notin S, \A x \in S \union {y} : f[x] \in Int
    PROVE  SumOf(f, S \union {y}) = f[y] + SumOf(f, S)
<1> DEFINE T == S \union {y}
<1>1. IsFiniteSet(T) /\ y \in T /\ T \ {y} = S /\ \A x \in T : f[x] \in Int
  BY FS_AddElement
<1> HIDE DEF T
<1>2. SumOf(f, T) = f[y] + SumOf(f, T \ {y})
  BY <1>1, SumRemove
<1> QED BY <1>1, <1>2 DEF T

\* When one term changes, the sum changes by as much.
LEMMA SumChange ==
    ASSUME NEW e, NEW f, NEW S, IsFiniteSet(S), \A x \in S : e[x] \in Int /\ f[x] \in Int,
           NEW y \in S, \A x \in S \ {y} : e[x] = f[x]
    PROVE  SumOf(e, S) = SumOf(f, S) - f[y] + e[y]
<1>1. SumOf(e, S) = e[y] + SumOf(e, S \ {y}) /\ SumOf(f, S) = f[y] + SumOf(f, S \ {y})
  BY SumRemove
<1>2. IsFiniteSet(S \ {y})
  BY FS_Subset
<1>3. SumOf(e, S \ {y}) = SumOf(f, S \ {y}) /\ SumOf(f, S \ {y}) \in Int
  BY <1>2, SumSame, SumType
<1>4. e[y] \in Int /\ f[y] \in Int
  OBVIOUS
<1> QED BY <1>1, <1>3, <1>4

-----------------------------------------------------------------------------
(* The sums of the model *)

LEMMA SumOfValues ==
    ASSUME NEW f, NEW S
    PROVE  MapThenSumSet(LAMBDA x : f[x], S) = SumOf(f, S)
BY DEF MapThenSumSet, MapThenFoldSet, SumOf, Adds, Pick

AmountsOf(S) == [e \in S |-> e.amount]

LEMMA SumOfAmounts ==
    ASSUME NEW S, IsFiniteSet(S)
    PROVE  MapThenSumSet(LAMBDA e : e.amount, S) = SumOf(AmountsOf(S), S)
<1> DEFINE F(g) == [s \in SUBSET S |->
                      IF s = {} THEN 0 ELSE Pick(s).amount + g[s \ {Pick(s)}]]
           h == CHOOSE g : g = F(g)
<1>1. ASSUME NEW g PROVE (g = F(g)) <=> Adds(AmountsOf(S), S, g)
  <2>1. \A s \in SUBSET S : s # {} => AmountsOf(S)[Pick(s)] = Pick(s).amount
    BY Picked DEF AmountsOf
  <2>2. F(g) = [s \in SUBSET S |->
                  IF s = {} THEN 0 ELSE AmountsOf(S)[Pick(s)] + g[s \ {Pick(s)}]]
    BY <2>1
  <2> QED BY <2>2 DEF Adds
<1>2. h = F(h)
  <2>1. \E g : g = F(g)
    <3>1. PICK g : Adds(AmountsOf(S), S, g)
      BY AddsExists
    <3>2. g = F(g)
      BY <1>1, <3>1
    <3> QED BY <3>2
  <2> QED BY <2>1
<1>3. MapThenSumSet(LAMBDA e : e.amount, S) = h[S]
  BY DEF MapThenSumSet, MapThenFoldSet, Pick
<1> HIDE DEF h, F
<1>4. Adds(AmountsOf(S), S, h)
  BY <1>1, <1>2
<1>5. PICK g : Adds(AmountsOf(S), S, g) /\ SumOf(AmountsOf(S), S) = g[S]
  BY SumAdds
<1>6. h[S] = g[S]
  BY <1>4, <1>5, AddsUnique
<1> QED BY <1>3, <1>5, <1>6

LEMMA SumOfAmountsType ==
    ASSUME NEW S, IsFiniteSet(S), \A e \in S : e.amount \in Int
    PROVE  SumOf(AmountsOf(S), S) \in Int
<1>1. \A e \in S : AmountsOf(S)[e] \in Int
  BY DEF AmountsOf
<1> QED BY <1>1, SumType

LEMMA SumOfAmountsAdd ==
    ASSUME NEW S, IsFiniteSet(S), NEW x, x \notin S, \A e \in S \union {x} : e.amount \in Int
    PROVE  /\ IsFiniteSet(S \union {x})
           /\ SumOf(AmountsOf(S \union {x}), S \union {x}) = x.amount + SumOf(AmountsOf(S), S)
<1> DEFINE f == AmountsOf(S \union {x})
<1>1. \A e \in S \union {x} : f[e] = e.amount
  BY DEF AmountsOf
<1>2. \A e \in S : f[e] = AmountsOf(S)[e]
  BY DEF AmountsOf
<1> HIDE DEF f
<1>3. SumOf(f, S \union {x}) = f[x] + SumOf(f, S)
  BY <1>1, SumAdd
<1>4. SumOf(f, S) = SumOf(AmountsOf(S), S)
  BY <1>2, SumSame
<1> QED BY <1>1, <1>3, <1>4, FS_AddElement DEF f

\* The same of the rows f[t] that a set of names t refers to.
RowAmounts(f, S) == [t \in S |-> f[t].amount]

LEMMA SumOfRowAmounts ==
    ASSUME NEW f, NEW S, IsFiniteSet(S)
    PROVE  MapThenSumSet(LAMBDA t : f[t].amount, S) = SumOf(RowAmounts(f, S), S)
<1> DEFINE F(g) == [s \in SUBSET S |->
                      IF s = {} THEN 0 ELSE f[Pick(s)].amount + g[s \ {Pick(s)}]]
           h == CHOOSE g : g = F(g)
<1>1. ASSUME NEW g PROVE (g = F(g)) <=> Adds(RowAmounts(f, S), S, g)
  <2>1. \A s \in SUBSET S : s # {} => RowAmounts(f, S)[Pick(s)] = f[Pick(s)].amount
    BY Picked DEF RowAmounts
  <2>2. F(g) = [s \in SUBSET S |->
                  IF s = {} THEN 0 ELSE RowAmounts(f, S)[Pick(s)] + g[s \ {Pick(s)}]]
    BY <2>1
  <2> QED BY <2>2 DEF Adds
<1>2. h = F(h)
  <2>1. \E g : g = F(g)
    <3>1. PICK g : Adds(RowAmounts(f, S), S, g)
      BY AddsExists
    <3>2. g = F(g)
      BY <1>1, <3>1
    <3> QED BY <3>2
  <2> QED BY <2>1
<1>3. MapThenSumSet(LAMBDA t : f[t].amount, S) = h[S]
  BY DEF MapThenSumSet, MapThenFoldSet, Pick
<1> HIDE DEF h, F
<1>4. Adds(RowAmounts(f, S), S, h)
  BY <1>1, <1>2
<1>5. PICK g : Adds(RowAmounts(f, S), S, g) /\ SumOf(RowAmounts(f, S), S) = g[S]
  BY SumAdds
<1>6. h[S] = g[S]
  BY <1>4, <1>5, AddsUnique
<1> QED BY <1>3, <1>5, <1>6

\* Rows that keep their amounts keep the sum.
LEMMA RowAmountsSame ==
    ASSUME NEW f, NEW g, NEW S, IsFiniteSet(S), \A t \in S : f[t].amount = g[t].amount
    PROVE  SumOf(RowAmounts(f, S), S) = SumOf(RowAmounts(g, S), S)
<1>1. \A t \in S : RowAmounts(f, S)[t] = RowAmounts(g, S)[t]
  BY DEF RowAmounts
<1> QED BY <1>1, SumSame

LEMMA RowAmountsAdd ==
    ASSUME NEW f, NEW S, IsFiniteSet(S), NEW x, x \notin S,
           \A t \in S \union {x} : f[t].amount \in Int
    PROVE  /\ IsFiniteSet(S \union {x})
           /\ SumOf(RowAmounts(f, S), S) \in Int
           /\ SumOf(RowAmounts(f, S \union {x}), S \union {x}) =
                f[x].amount + SumOf(RowAmounts(f, S), S)
<1> DEFINE h == RowAmounts(f, S \union {x})
<1>1. \A t \in S \union {x} : h[t] = f[t].amount
  BY DEF RowAmounts
<1>2. \A t \in S : h[t] = RowAmounts(f, S)[t]
  BY DEF RowAmounts
<1> HIDE DEF h
<1>3. SumOf(h, S \union {x}) = h[x] + SumOf(h, S)
  BY <1>1, SumAdd
<1>4. SumOf(h, S) = SumOf(RowAmounts(f, S), S)
  BY <1>2, SumSame
<1>5. SumOf(h, S) \in Int
  BY <1>1, SumType
<1> QED BY <1>1, <1>3, <1>4, <1>5, FS_AddElement DEF h

=============================================================================

----------------------------- MODULE FiniteSums -----------------------------
(***************************************************************************)
(* What SumFunctionOnSet of the community module Functions computes.  The    *)
(* library's induction theorems take the property as an operator; here the   *)
(* induction is over a set of subsets, which first-order provers can use.    *)
(***************************************************************************)
EXTENDS FiniteSetTheorems, TLAPS

(* Induction over a finite set: if a set of subsets holds each subset all of     *)
(* whose strict subsets it holds, it holds them all.                             *)
LEMMA SubsetInduction ==
  ASSUME NEW S, IsFiniteSet(S), NEW Good,
         \A U \in SUBSET S : (\A V \in SUBSET U : V # U => V \in Good) => U \in Good
  PROVE  \A U \in SUBSET S : U \in Good
<1> DEFINE Bad == {U \in SUBSET S : U \notin Good}
<1> SUFFICES ASSUME Bad # {} PROVE FALSE
  OBVIOUS
<1>1. IsWellFoundedOn(StrictSubsetOrdering(S), SUBSET S)
  <2>1. FiniteSubsetsOf(S) = SUBSET S
    BY FS_FiniteSubsetsOfFinite, Zenon
  <2>2. IsWellFoundedOn(StrictSubsetOrdering(S), FiniteSubsetsOf(S))
    BY FS_StrictSubsetOrderingWellFounded, Zenon
  <2> QED
    BY <2>1, <2>2, Zenon
<1>2. PICK U \in Bad : \A V \in Bad : ~ (<<V, U>> \in StrictSubsetOrdering(S))
  <2>1. Bad \subseteq SUBSET S
    OBVIOUS
  <2> HIDE DEF Bad
  <2> QED
    BY <1>1, <2>1, WFMin
<1>3. ASSUME NEW V \in SUBSET U, V # U PROVE V \in Good
  <2>1. V \in SUBSET S /\ U \in SUBSET S
    OBVIOUS
  <2>2. <<V, U>> \in StrictSubsetOrdering(S)
    BY <1>3, <2>1 DEF StrictSubsetOrdering
  <2> QED
    BY <1>2, <2>1, <2>2
<1> QED
  BY <1>3

-----------------------------------------------------------------------------
(* The element a fold takes first, and the recursion it follows. *)
First(s) == CHOOSE x \in s : TRUE

Sums(g, f, S) ==
    g = [s \in SUBSET S |-> IF s = {} THEN 0 ELSE f[First(s)] + g[s \ {First(s)}]]

LEMMA FirstIsIn == \A s : s # {} => First(s) \in s
  BY DEF First

(* The recursion determines the sums ... *)
LEMMA SumsAreUnique ==
  ASSUME NEW f, NEW S, IsFiniteSet(S), NEW g, NEW h, Sums(g, f, S), Sums(h, f, S)
  PROVE  g = h
<1> DEFINE Good == {s \in SUBSET S : g[s] = h[s]}
<1>1. ASSUME NEW U \in SUBSET S, \A V \in SUBSET U : V # U => V \in Good
      PROVE  U \in Good
  <2>1. CASE U = {}
    BY <2>1 DEF Sums
  <2>2. CASE U # {}
    <3>1. First(U) \in U
      BY <2>2, FirstIsIn
    <3>2. U \ {First(U)} \in Good
      BY <1>1, <3>1
    <3>3. g[U] = f[First(U)] + g[U \ {First(U)}] /\ h[U] = f[First(U)] + h[U \ {First(U)}]
      BY <2>2 DEF Sums
    <3> QED
      BY <3>2, <3>3
  <2> QED
    BY <2>1, <2>2
<1>2. \A U \in SUBSET S : U \in Good
  <2> HIDE DEF Good
  <2> QED
    BY <1>1, SubsetInduction
<1>3. \A U \in SUBSET S : g[U] = h[U]
  BY <1>2
<1> QED
  BY <1>3 DEF Sums

(* ... and those of a set contain those of its subsets. *)
LEMMA SumsOfSubset ==
  ASSUME NEW f, NEW S, NEW T \in SUBSET S, NEW g, Sums(g, f, S)
  PROVE  Sums([s \in SUBSET T |-> g[s]], f, T)
<1> DEFINE h == [s \in SUBSET T |-> g[s]]
<1>1. ASSUME NEW s \in SUBSET T
      PROVE  h[s] = IF s = {} THEN 0 ELSE f[First(s)] + h[s \ {First(s)}]
  <2>1. s \in SUBSET S /\ s \ {First(s)} \in SUBSET T
    OBVIOUS
  <2>2. g[s] = IF s = {} THEN 0 ELSE f[First(s)] + g[s \ {First(s)}]
    BY <2>1 DEF Sums
  <2> QED
    BY <2>1, <2>2
<1> QED
  BY <1>1 DEF Sums

(* There are sums over every finite set: those of its strict subsets agree where *)
(* they overlap, so they can be put together.                                    *)
LEMMA SumsExist ==
  ASSUME NEW f, NEW S, IsFiniteSet(S)
  PROVE  \E g : Sums(g, f, S)
<1> DEFINE Good == {U \in SUBSET S : \E g : Sums(g, f, U)}
           G(U) == CHOOSE g : Sums(g, f, U)
<1>1. ASSUME NEW U \in SUBSET S, \A V \in SUBSET U : V # U => V \in Good
      PROVE  U \in Good
  <2> DEFINE Rest(s) == s \ {First(s)}
             h == [s \in SUBSET U |-> IF s = {} THEN 0 ELSE f[First(s)] + G(Rest(s))[Rest(s)]]
  <2>1. ASSUME NEW V \in SUBSET U, V # U PROVE Sums(G(V), f, V)
    BY <1>1, <2>1
  <2>2. ASSUME NEW V \in SUBSET U, V # U, NEW W \in SUBSET V PROVE G(V)[W] = G(W)[W]
    <3> DEFINE k == [s \in SUBSET W |-> G(V)[s]]
    <3>1. Sums(G(V), f, V) /\ Sums(G(W), f, W)
      <4>1. W \in SUBSET U /\ W # U
        BY <2>2
      <4> QED
        BY <2>1, <2>2, <4>1
    <3> HIDE DEF G
    <3>2. Sums(k, f, W)
      BY <3>1, SumsOfSubset
    <3>3. IsFiniteSet(W)
      BY FS_Subset
    <3>4. k = G(W)
      <4> HIDE DEF k
      <4> QED
        BY <3>1, <3>2, <3>3, SumsAreUnique
    <3>5. k[W] = G(V)[W]
      OBVIOUS
    <3> QED
      BY <3>4, <3>5
  <2>3. ASSUME NEW V \in SUBSET U, V # U PROVE h[V] = G(V)[V]
    <3>1. Sums(G(V), f, V)
      BY <2>1, <2>3
    <3> HIDE DEF G
    <3>2. CASE V = {}
      BY <3>1, <3>2 DEF Sums
    <3>3. CASE V # {}
      <4>1. G(V)[V] = f[First(V)] + G(V)[Rest(V)]
        BY <3>1, <3>3 DEF Sums
      <4>2. G(V)[Rest(V)] = G(Rest(V))[Rest(V)]
        BY <2>2, <2>3
      <4>3. h[V] = f[First(V)] + G(Rest(V))[Rest(V)]
        BY <3>3
      <4> QED
        BY <4>1, <4>2, <4>3
    <3> QED
      BY <3>2, <3>3
  <2>4. ASSUME NEW s \in SUBSET U
        PROVE  h[s] = IF s = {} THEN 0 ELSE f[First(s)] + h[s \ {First(s)}]
    <3> HIDE DEF G
    <3>1. CASE s = {}
      BY <3>1
    <3>2. CASE s # {}
      <4>1. Rest(s) \in SUBSET U /\ Rest(s) # U
        BY <3>2, FirstIsIn
      <4>2. h[Rest(s)] = G(Rest(s))[Rest(s)]
        BY <2>3, <4>1
      <4>3. h[s] = f[First(s)] + G(Rest(s))[Rest(s)]
        BY <3>2
      <4> QED
        BY <3>2, <4>2, <4>3
    <3> QED
      BY <3>1, <3>2
  <2>5. Sums(h, f, U)
    <3>1. h = [s \in SUBSET U |-> h[s]]
      OBVIOUS
    <3> HIDE DEF h
    <3> QED
      BY <2>4, <3>1 DEF Sums
  <2> QED
    BY <2>5
<1>2. \A U \in SUBSET S : U \in Good
  <2> HIDE DEF Good
  <2> QED
    BY <1>1, SubsetInduction
<1> QED
  BY <1>2

-----------------------------------------------------------------------------
(* SumFunctionOnSet folds + in the order of First. *)
LEMMA SumIsFold ==
  ASSUME NEW f, NEW S
  PROVE  SumFunctionOnSet(f, S) = (CHOOSE g : Sums(g, f, S))[S]
  BY DEF SumFunctionOnSet, FoldFunctionOnSet, MapThenFoldSet, Sums, First

(* The sum over nothing is 0, and the sum over something starts with its first    *)
(* element.                                                                       *)
LEMMA SumStep ==
  ASSUME NEW f, NEW S, IsFiniteSet(S)
  PROVE  SumFunctionOnSet(f, S) =
           IF S = {} THEN 0 ELSE f[First(S)] + SumFunctionOnSet(f, S \ {First(S)})
<1> DEFINE G(U) == CHOOSE g : Sums(g, f, U)
           T == S \ {First(S)}
           k == [s \in SUBSET T |-> G(S)[s]]
<1>1. IsFiniteSet(T)
  BY FS_RemoveElement
<1>2. Sums(G(S), f, S) /\ Sums(G(T), f, T)
  BY <1>1, SumsExist
<1>3. SumFunctionOnSet(f, S) = G(S)[S] /\ SumFunctionOnSet(f, T) = G(T)[T]
  BY SumIsFold
<1> HIDE DEF G
<1>4. Sums(k, f, T)
  BY <1>2, SumsOfSubset
<1>5. k = G(T)
  <2> HIDE DEF k, T
  <2> QED
    BY <1>1, <1>2, <1>4, SumsAreUnique
<1>6. k[T] = G(S)[T]
  OBVIOUS
<1>7. G(S)[S] = IF S = {} THEN 0 ELSE f[First(S)] + G(S)[T]
  BY <1>2 DEF Sums
<1> QED
  BY <1>3, <1>5, <1>6, <1>7

(* A sum of naturals is a natural. *)
LEMMA SumType ==
  ASSUME NEW f, NEW S, IsFiniteSet(S), \A x \in S : f[x] \in Nat
  PROVE  \A U \in SUBSET S : SumFunctionOnSet(f, U) \in Nat
<1> DEFINE Good == {U \in SUBSET S : SumFunctionOnSet(f, U) \in Nat}
<1>1. ASSUME NEW U \in SUBSET S, \A V \in SUBSET U : V # U => V \in Good
      PROVE  U \in Good
  <2>1. IsFiniteSet(U)
    BY FS_Subset
  <2>2. CASE U = {}
    <3>1. SumFunctionOnSet(f, U) = 0
      BY <2>1, <2>2, SumStep
    <3> QED
      BY <3>1
  <2>3. CASE U # {}
    <3>1. First(U) \in U /\ U \ {First(U)} \in Good
      BY <1>1, <2>3, FirstIsIn
    <3>2. SumFunctionOnSet(f, U) = f[First(U)] + SumFunctionOnSet(f, U \ {First(U)})
      BY <2>1, <2>3, SumStep
    <3> QED
      BY <3>1, <3>2
  <2> QED
    BY <2>2, <2>3
<1>2. \A U \in SUBSET S : U \in Good
  <2> HIDE DEF Good
  <2> QED
    BY <1>1, SubsetInduction
<1> QED
  BY <1>2

(* Functions that agree on a set have the same sum over it. *)
LEMMA SumOfEqual ==
  ASSUME NEW f, NEW g, NEW S, IsFiniteSet(S), \A x \in S : f[x] = g[x]
  PROVE  SumFunctionOnSet(f, S) = SumFunctionOnSet(g, S)
<1> DEFINE Good == {U \in SUBSET S : SumFunctionOnSet(f, U) = SumFunctionOnSet(g, U)}
<1>1. ASSUME NEW U \in SUBSET S, \A V \in SUBSET U : V # U => V \in Good
      PROVE  U \in Good
  <2>1. IsFiniteSet(U)
    BY FS_Subset
  <2>2. CASE U = {}
    <3>1. SumFunctionOnSet(f, U) = 0
      BY <2>1, <2>2, SumStep
    <3>2. SumFunctionOnSet(g, U) = 0
      BY <2>1, <2>2, SumStep
    <3> QED
      BY <3>1, <3>2
  <2>3. CASE U # {}
    <3>1. First(U) \in U /\ U \ {First(U)} \in Good
      BY <1>1, <2>3, FirstIsIn
    <3>2. /\ SumFunctionOnSet(f, U) = f[First(U)] + SumFunctionOnSet(f, U \ {First(U)})
          /\ SumFunctionOnSet(g, U) = g[First(U)] + SumFunctionOnSet(g, U \ {First(U)})
      BY <2>1, <2>3, SumStep
    <3> QED
      BY <3>1, <3>2
  <2> QED
    BY <2>2, <2>3
<1>2. \A U \in SUBSET S : U \in Good
  <2> HIDE DEF Good
  <2> QED
    BY <1>1, SubsetInduction
<1> QED
  BY <1>2

(* The order does not matter: any element may be taken out of a sum. *)
LEMMA SumTakesOut ==
  ASSUME NEW f, NEW S, IsFiniteSet(S), \A x \in S : f[x] \in Nat
  PROVE  \A x \in S : SumFunctionOnSet(f, S) = f[x] + SumFunctionOnSet(f, S \ {x})
<1> DEFINE Sum(U) == SumFunctionOnSet(f, U)
           Good == {U \in SUBSET S : \A x \in U : Sum(U) = f[x] + Sum(U \ {x})}
<1>a. \A U \in SUBSET S : Sum(U) \in Nat
  BY SumType
<1>b. \A U \in SUBSET S : IsFiniteSet(U)
  BY FS_Subset
<1>c. \A U \in SUBSET S : U # {} => Sum(U) = f[First(U)] + Sum(U \ {First(U)})
  BY <1>b, SumStep
<1> HIDE DEF Sum
<1>1. ASSUME NEW U \in SUBSET S, \A V \in SUBSET U : V # U => V \in Good
      PROVE  U \in Good
  <2> SUFFICES ASSUME NEW x \in U PROVE Sum(U) = f[x] + Sum(U \ {x})
    OBVIOUS
  <2> DEFINE c == First(U)
  <2>1. c \in U /\ Sum(U) = f[c] + Sum(U \ {c})
    BY <1>c, FirstIsIn
  <2> HIDE DEF c
  <2>2. CASE c = x
    BY <2>1, <2>2
  <2>3. CASE c # x
    <3>1. /\ U \ {c} \in Good /\ x \in U \ {c}
          /\ U \ {x} \in Good /\ c \in U \ {x}
      BY <1>1, <2>1, <2>3
    <3>2. /\ Sum(U \ {c}) = f[x] + Sum((U \ {c}) \ {x})
          /\ Sum(U \ {x}) = f[c] + Sum((U \ {x}) \ {c})
      BY <3>1
    <3>3. (U \ {c}) \ {x} = (U \ {x}) \ {c}
      OBVIOUS
    <3> DEFINE r == Sum((U \ {x}) \ {c})
    <3>4. f[x] \in Nat /\ f[c] \in Nat /\ r \in Nat
      BY <1>a, <2>1
    <3>5. Sum(U \ {c}) = f[x] + r /\ Sum(U \ {x}) = f[c] + r
      BY <3>2, <3>3
    <3> HIDE DEF r
    <3>6. f[c] + (f[x] + r) = f[x] + (f[c] + r)
      BY <3>4
    <3> QED
      BY <2>1, <3>5, <3>6
  <2> QED
    BY <2>2, <2>3
<1>2. \A U \in SUBSET S : U \in Good
  <2> HIDE DEF Good
  <2> QED
    BY <1>1, SubsetInduction
<1> QED
  BY <1>2 DEF Sum

(* A sum of zeros is 0. *)
LEMMA SumOfZeros ==
  ASSUME NEW f, NEW S, IsFiniteSet(S), \A x \in S : f[x] = 0
  PROVE  SumFunctionOnSet(f, S) = 0
<1> DEFINE Good == {U \in SUBSET S : SumFunctionOnSet(f, U) = 0}
<1>1. ASSUME NEW U \in SUBSET S, \A V \in SUBSET U : V # U => V \in Good
      PROVE  U \in Good
  <2>1. SumFunctionOnSet(f, U) =
          IF U = {} THEN 0 ELSE f[First(U)] + SumFunctionOnSet(f, U \ {First(U)})
    <3>1. IsFiniteSet(U)
      BY FS_Subset
    <3> QED
      BY <3>1, SumStep
  <2>2. ASSUME U # {} PROVE f[First(U)] = 0 /\ U \ {First(U)} \in Good
    BY <1>1, <2>2, FirstIsIn
  <2> QED
    BY <2>1, <2>2
<1>2. \A U \in SUBSET S : U \in Good
  <2> HIDE DEF Good
  <2> QED
    BY <1>1, SubsetInduction
<1> QED
  BY <1>2

(* Adding to one element adds to the sum. *)
LEMMA SumAfterChange ==
  ASSUME NEW S, IsFiniteSet(S), NEW x \in S, NEW f, NEW g,
         \A y \in S : f[y] \in Nat /\ g[y] \in Nat,
         \A y \in S : y # x => g[y] = f[y]
  PROVE  SumFunctionOnSet(g, S) = SumFunctionOnSet(f, S) + g[x] - f[x]
<1>1. IsFiniteSet(S \ {x})
  BY FS_RemoveElement
<1>2. SumFunctionOnSet(f, S \ {x}) = SumFunctionOnSet(g, S \ {x})
  BY <1>1, SumOfEqual
<1>3. /\ SumFunctionOnSet(f, S) = f[x] + SumFunctionOnSet(f, S \ {x})
      /\ SumFunctionOnSet(g, S) = g[x] + SumFunctionOnSet(g, S \ {x})
  BY SumTakesOut
<1>4. SumFunctionOnSet(f, S \ {x}) \in Nat
  BY SumType
<1> QED
  BY <1>2, <1>3, <1>4
=============================================================================

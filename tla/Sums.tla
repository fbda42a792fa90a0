-------------------------------- MODULE Sums --------------------------------
(***************************************************************************)
(* Facts about the sums the system computes over rows: a sum over a finite *)
(* set is an integer, does not depend on the order the elements are taken  *)
(* in, and changes by the elements that are added, removed or changed.     *)
(* At the end, facts about the items of a sequence that are in a set, such *)
(* as the waiters of a queue, a semaphore or a condition that are alive,   *)
(* and about what is left of a sequence without its first items.           *)
(*                                                                         *)
(* SumFunctionOnSet of the community modules is a fold, whose recursion    *)
(* tlapm knows as a CHOOSE.  Each induction below is the choice of a       *)
(* smallest counterexample (Smallest), which the library's WFMin gives     *)
(* without an operator as a parameter.                                     *)
(***************************************************************************)
EXTENDS SequencesExt, FiniteSetTheorems, SequenceTheorems, TLAPS

(* The recursive function that sums f over the subsets of S. *)
IsSum(g, f, S) ==
  g = [T \in SUBSET S |->
         IF T = {} THEN 0
         ELSE LET x == CHOOSE x \in T : TRUE IN f[x] + g[T \ {x}]]

(* One element of a set, the same whenever it is asked for. *)
Some(T) == CHOOSE x \in T : TRUE

(* Of any subsets of a finite set, one has no other among its own subsets. *)
LEMMA Smallest ==
  ASSUME NEW S, IsFiniteSet(S), NEW Bad \in SUBSET (SUBSET S), Bad # {}
  PROVE  \E T \in Bad : \A U \in SUBSET T : U # T => U \notin Bad
  <1>1. IsWellFoundedOn(StrictSubsetOrdering(S), SUBSET S)
    BY FS_StrictSubsetOrderingWellFounded, FS_FiniteSubsetsOfFinite
  <1>2. PICK T \in Bad : \A U \in Bad : ~(<<U, T>> \in StrictSubsetOrdering(S))
    BY <1>1, WFMin
  <1> QED BY <1>2 DEF StrictSubsetOrdering

(* Of a set of naturals one is the least: its interval from 0 is minimal   *)
(* among those of the others, as finite sets are well founded by inclusion.*)
LEMMA LeastNatural ==
  ASSUME NEW T \in SUBSET Nat, T # {}
  PROVE  \E m \in T : \A k \in T : m <= k
<1> DEFINE I == {0..n : n \in T}
<1>1. \A n \in T : 0..n \in FiniteSubsetsOf(Nat)
  BY FS_Interval DEF FiniteSubsetsOf
<1>2. I \subseteq FiniteSubsetsOf(Nat)
  BY <1>1
<1>3. I # {}
  OBVIOUS
<1>4. IsWellFoundedOn(StrictSubsetOrdering(Nat), FiniteSubsetsOf(Nat))
  BY FS_StrictSubsetOrderingWellFounded
<1>5. PICK x \in I : \A y \in I : <<y, x>> \notin StrictSubsetOrdering(Nat)
  BY <1>2, <1>3, <1>4, WFMin, Zenon
<1>6. PICK m \in T : x = 0..m
  OBVIOUS
<1>7. ASSUME NEW k \in T, k < m
      PROVE  FALSE
  <2>1. 0..k \subseteq 0..m /\ 0..k # 0..m
    <3>1. m \in 0..m /\ m \notin 0..k
      BY <1>7
    <3>2. 0..k \subseteq 0..m
      BY <1>7
    <3>. QED BY <3>1, <3>2
  <2>2. 0..k \in SUBSET Nat /\ 0..m \in SUBSET Nat
    OBVIOUS
  <2>3. <<0..k, 0..m>> \in StrictSubsetOrdering(Nat)
    BY <2>1, <2>2, Zenon DEF StrictSubsetOrdering
  <2>4. 0..k \in I
    OBVIOUS
  <2>. QED BY <1>5, <1>6, <2>3, <2>4
<1>. QED BY <1>7

(* Of some positions of a sequence one is the last. *)
LEMMA LastPosition ==
  ASSUME NEW n \in Nat, NEW D \in SUBSET (1..n), D # {}
  PROVE  \E i \in D : \A j \in D : i >= j
<1> DEFINE T == {n - i : i \in D}
<1>1. T \in SUBSET Nat /\ T # {}
  <2>1. \A i \in D : n - i \in Nat
    OBVIOUS
  <2>2. PICK i \in D : TRUE
    OBVIOUS
  <2>3. n - i \in T
    OBVIOUS
  <2>. QED BY <2>1, <2>3
<1>2. PICK m \in T : \A k \in T : m <= k
  BY <1>1, LeastNatural
<1>3. PICK i \in D : m = n - i
  OBVIOUS
<1>4. \A j \in D : i >= j
  <2>. TAKE j \in D
  <2>1. n - j \in T
    OBVIOUS
  <2>. QED BY <1>2, <1>3, <2>1
<1>. QED BY <1>4

(* It is one of them. *)
LEMMA SomeIn ==
  ASSUME NEW T, T # {}
  PROVE  Some(T) \in T
  BY DEF Some

(* The fold is the value of the chosen function of that kind. *)
LEMMA SumIsChosen ==
  ASSUME NEW f, NEW S
  PROVE  SumFunctionOnSet(f, S) = (CHOOSE g : IsSum(g, f, S))[S]
  BY DEF SumFunctionOnSet, FoldFunctionOnSet, MapThenFoldSet, IsSum

(* Its equation. *)
LEMMA IsSumAt ==
  ASSUME NEW g, NEW f, NEW S, IsSum(g, f, S), NEW T \in SUBSET S
  PROVE  g[T] = IF T = {} THEN 0 ELSE f[Some(T)] + g[T \ {Some(T)}]
  BY DEF IsSum, Some

(* Two such functions agree where both are defined. *)
LEMMA IsSumUnique ==
  ASSUME NEW f, NEW S, NEW R, IsFiniteSet(S), NEW g, NEW h,
         IsSum(g, f, S), IsSum(h, f, R), NEW T \in SUBSET (S \cap R)
  PROVE  g[T] = h[T]
  <1> DEFINE Bad == {U \in SUBSET S : U \subseteq R /\ g[U] # h[U]}
  <1>1. SUFFICES ASSUME Bad # {} PROVE FALSE
    OBVIOUS
  <1>2. PICK U \in Bad : \A X \in SUBSET U : X # U => X \notin Bad
    <2> HIDE DEF Bad
    <2>1. Bad \in SUBSET (SUBSET S)  BY DEF Bad
    <2> QED BY <1>1, <2>1, Smallest
  <1>3. U \in SUBSET S /\ U \in SUBSET R /\ g[U] # h[U]
    BY <1>2
  <1>4. U # {}
    BY <1>3, IsSumAt
  <1> HIDE DEF Bad
  <1> DEFINE V == U \ {Some(U)}
  <1>5. g[V] = h[V]
    BY <1>2, <1>3, <1>4, SomeIn DEF Bad
  <1>6. g[U] = f[Some(U)] + g[V]
    BY <1>3, <1>4, IsSumAt
  <1>7. h[U] = f[Some(U)] + h[V]
    BY <1>3, <1>4, IsSumAt
  <1>8. g[U] # h[U]
    BY <1>3
  <1> HIDE DEF V
  <1> QED BY <1>5, <1>6, <1>7, <1>8

(* There is one for every finite set: on a set it is the first summand and *)
(* the one of the set without it, which the smaller sets have.             *)
LEMMA IsSumExists ==
  ASSUME NEW f, NEW S, IsFiniteSet(S)
  PROVE  \E g : IsSum(g, f, S)
  <1> DEFINE Bad == {U \in SUBSET S : ~ \E g : IsSum(g, f, U)}
  <1>1. SUFFICES ASSUME Bad # {} PROVE FALSE
    OBVIOUS
  <1>2. PICK U \in Bad : \A X \in SUBSET U : X # U => X \notin Bad
    <2> HIDE DEF Bad
    <2>1. Bad \in SUBSET (SUBSET S)  BY DEF Bad
    <2> QED BY <1>1, <2>1, Smallest
  <1>3. U \in SUBSET S /\ \A g : ~IsSum(g, f, U)
    BY <1>2
  <1> DEFINE G(X) == CHOOSE g : IsSum(g, f, X)
             val(X) == IF X = {} THEN 0
                       ELSE f[Some(X)] + G(X \ {Some(X)})[X \ {Some(X)}]
             h == [X \in SUBSET U |-> val(X)]
  <1>4. \A X \in SUBSET U : X # U => IsSum(G(X), f, X)
    <2> TAKE X \in SUBSET U
    <2> SUFFICES ASSUME X # U PROVE IsSum(G(X), f, X)
      OBVIOUS
    <2>1. \E g : IsSum(g, f, X)
      BY <1>2, <1>3
    <2> QED BY <2>1
  <1>5. ASSUME NEW X \in SUBSET U, X # U
        PROVE  h[X] = G(X)[X]
    <2>1. CASE X = {}
      BY <2>1, <1>4, <1>5, IsSumAt
    <2>2. CASE X # {}
      <3> DEFINE Y == X \ {Some(X)}
      <3>1. Y \in SUBSET X /\ Y # U /\ Y \in SUBSET U
        BY <1>5, <2>2, SomeIn
      <3>2. IsSum(G(X), f, X) /\ IsSum(G(Y), f, Y)
        BY <1>4, <1>5, <3>1
      <3>3. IsFiniteSet(X)
        BY <1>3, FS_Subset
      <3>4. G(X)[Y] = G(Y)[Y]
        <4> HIDE DEF G, Y
        <4> QED BY <3>1, <3>2, <3>3, IsSumUnique
      <3>5. G(X)[X] = f[Some(X)] + G(X)[Y]
        <4> HIDE DEF G
        <4> QED BY <2>2, <3>2, IsSumAt
      <3> QED BY <2>2, <3>4, <3>5
    <2> QED BY <2>1, <2>2
  <1>6. ASSUME NEW X \in SUBSET U
        PROVE  h[X] = IF X = {} THEN 0 ELSE f[Some(X)] + h[X \ {Some(X)}]
    <2>1. CASE X = {}
      BY <2>1
    <2>2. CASE X # {}
      <3> DEFINE Y == X \ {Some(X)}
      <3>1. Y \in SUBSET U /\ Y # U
        BY <2>2, SomeIn
      <3>2. h[Y] = G(Y)[Y]
        BY <1>5, <3>1
      <3> QED BY <2>2, <3>2
    <2> QED BY <2>1, <2>2
  <1>7. IsSum(h, f, U)
    <2>1. h = [X \in SUBSET U |-> h[X]]
      OBVIOUS
    <2> HIDE DEF h
    <2> QED BY <1>6, <2>1 DEF IsSum, Some
  <1> QED BY <1>3, <1>7

(* What the fold is, whatever larger set the recursion is taken over. *)
LEMMA SumWithin ==
  ASSUME NEW f, NEW S, IsFiniteSet(S), NEW g, IsSum(g, f, S), NEW T \in SUBSET S
  PROVE  g[T] = SumFunctionOnSet(f, T)
  <1>1. IsFiniteSet(T)
    BY FS_Subset
  <1>2. PICK h : h = CHOOSE k : IsSum(k, f, T)
    OBVIOUS
  <1>3. IsSum(h, f, T)
    BY <1>1, <1>2, IsSumExists
  <1>4. g[T] = h[T]
    BY <1>3, IsSumUnique
  <1> QED BY <1>2, <1>4, SumIsChosen

(* Over no elements it is zero. *)
LEMMA SumEmpty ==
  ASSUME NEW f
  PROVE  SumFunctionOnSet(f, {}) = 0
  <1>1. IsFiniteSet({})
    BY FS_EmptySet
  <1>2. PICK g : IsSum(g, f, {})
    BY <1>1, IsSumExists
  <1>3. {} \in SUBSET {}
    OBVIOUS
  <1> QED BY <1>1, <1>2, <1>3, SumWithin, IsSumAt

(* Over some it is the first summand and the sum of the rest. *)
LEMMA SumFirst ==
  ASSUME NEW f, NEW S, IsFiniteSet(S), S # {}
  PROVE  SumFunctionOnSet(f, S)
           = f[Some(S)] + SumFunctionOnSet(f, S \ {Some(S)})
  <1>1. PICK g : IsSum(g, f, S)
    BY IsSumExists
  <1>2. g[S] = f[Some(S)] + g[S \ {Some(S)}]
    BY <1>1, IsSumAt
  <1>3. g[S] = SumFunctionOnSet(f, S)
    BY <1>1, SumWithin
  <1>4. g[S \ {Some(S)}] = SumFunctionOnSet(f, S \ {Some(S)})
    <2> DEFINE T == S \ {Some(S)}
    <2>1. T \in SUBSET S
      OBVIOUS
    <2> SUFFICES g[T] = SumFunctionOnSet(f, T)
      OBVIOUS
    <2> HIDE DEF T
    <2> QED BY <1>1, <2>1, SumWithin
  <1> QED BY <1>2, <1>3, <1>4

(* A sum of integers over a set is an integer. *)
LEMMA SumInt ==
  ASSUME NEW f, NEW S, IsFiniteSet(S), \A x \in S : f[x] \in Int
  PROVE  SumFunctionOnSet(f, S) \in Int
  <1> DEFINE Bad == {U \in SUBSET S : SumFunctionOnSet(f, U) \notin Int}
  <1>1. SUFFICES ASSUME Bad # {} PROVE FALSE
    OBVIOUS
  <1>2. PICK U \in Bad : \A X \in SUBSET U : X # U => X \notin Bad
    <2> HIDE DEF Bad
    <2>1. Bad \in SUBSET (SUBSET S)  BY DEF Bad
    <2> QED BY <1>1, <2>1, Smallest
  <1>3. U \in SUBSET S /\ SumFunctionOnSet(f, U) \notin Int
    BY <1>2
  <1>4. U # {}
    BY <1>3, SumEmpty
  <1>5. IsFiniteSet(U) /\ Some(U) \in U
    BY <1>3, <1>4, FS_Subset, SomeIn
  <1>6. SumFunctionOnSet(f, U \ {Some(U)}) \in Int
    BY <1>2, <1>3, <1>5
  <1>7. SumFunctionOnSet(f, U) = f[Some(U)] + SumFunctionOnSet(f, U \ {Some(U)})
    BY <1>4, <1>5, SumFirst
  <1> QED BY <1>3, <1>5, <1>6, <1>7

(* And of natural numbers a natural number. *)
LEMMA SumNat ==
  ASSUME NEW f, NEW S, IsFiniteSet(S), \A x \in S : f[x] \in Nat
  PROVE  SumFunctionOnSet(f, S) \in Nat
  <1> DEFINE Bad == {U \in SUBSET S : SumFunctionOnSet(f, U) \notin Nat}
  <1>1. SUFFICES ASSUME Bad # {} PROVE FALSE
    OBVIOUS
  <1>2. PICK U \in Bad : \A X \in SUBSET U : X # U => X \notin Bad
    <2> HIDE DEF Bad
    <2>1. Bad \in SUBSET (SUBSET S)  BY DEF Bad
    <2> QED BY <1>1, <2>1, Smallest
  <1>3. U \in SUBSET S /\ SumFunctionOnSet(f, U) \notin Nat
    BY <1>2
  <1>4. U # {}
    BY <1>3, SumEmpty
  <1>5. IsFiniteSet(U) /\ Some(U) \in U
    BY <1>3, <1>4, FS_Subset, SomeIn
  <1>6. SumFunctionOnSet(f, U \ {Some(U)}) \in Nat
    BY <1>2, <1>3, <1>5
  <1>7. SumFunctionOnSet(f, U) = f[Some(U)] + SumFunctionOnSet(f, U \ {Some(U)})
    BY <1>4, <1>5, SumFirst
  <1> QED BY <1>3, <1>5, <1>6, <1>7

(* Functions that agree on a set have the same sum over it. *)
LEMMA SumSame ==
  ASSUME NEW f, NEW g, NEW S, IsFiniteSet(S), \A x \in S : f[x] = g[x]
  PROVE  SumFunctionOnSet(f, S) = SumFunctionOnSet(g, S)
  <1> DEFINE Bad == {U \in SUBSET S : SumFunctionOnSet(f, U) # SumFunctionOnSet(g, U)}
  <1>1. SUFFICES ASSUME Bad # {} PROVE FALSE
    OBVIOUS
  <1>2. PICK U \in Bad : \A X \in SUBSET U : X # U => X \notin Bad
    <2> HIDE DEF Bad
    <2>1. Bad \in SUBSET (SUBSET S)  BY DEF Bad
    <2> QED BY <1>1, <2>1, Smallest
  <1>3. U \in SUBSET S /\ SumFunctionOnSet(f, U) # SumFunctionOnSet(g, U)
    BY <1>2
  <1>4. U # {}
    BY <1>3, SumEmpty
  <1>5. IsFiniteSet(U) /\ Some(U) \in U
    BY <1>3, <1>4, FS_Subset, SomeIn
  <1>6. SumFunctionOnSet(f, U \ {Some(U)}) = SumFunctionOnSet(g, U \ {Some(U)})
    BY <1>2, <1>3, <1>5
  <1>7. SumFunctionOnSet(f, U) = f[Some(U)] + SumFunctionOnSet(f, U \ {Some(U)})
    BY <1>4, <1>5, SumFirst
  <1>8. SumFunctionOnSet(g, U) = g[Some(U)] + SumFunctionOnSet(g, U \ {Some(U)})
    BY <1>4, <1>5, SumFirst
  <1> QED BY <1>3, <1>5, <1>6, <1>7, <1>8

(* Any element may be taken first.  In a smallest counterexample the first *)
(* element x of the fold is not e; taking e from what x leaves, and x from *)
(* what e leaves, gives the same sum.                                      *)
LEMMA SumRemove ==
  ASSUME NEW f, NEW S, IsFiniteSet(S), \A x \in S : f[x] \in Int, NEW e \in S
  PROVE  SumFunctionOnSet(f, S) = f[e] + SumFunctionOnSet(f, S \ {e})
  <1> DEFINE Good(U) == \A d \in U :
               SumFunctionOnSet(f, U) = f[d] + SumFunctionOnSet(f, U \ {d})
             Bad == {U \in SUBSET S : ~Good(U)}
  <1>1. SUFFICES ASSUME Bad # {} PROVE FALSE
    OBVIOUS
  <1>2. PICK U \in Bad : \A X \in SUBSET U : X # U => X \notin Bad
    <2> HIDE DEF Bad
    <2>1. Bad \in SUBSET (SUBSET S)  BY DEF Bad
    <2> QED BY <1>1, <2>1, Smallest
  <1>3. U \in SUBSET S /\ \A X \in SUBSET U : X # U => Good(X)
    BY <1>2
  <1>4. PICK d \in U : SumFunctionOnSet(f, U) # f[d] + SumFunctionOnSet(f, U \ {d})
    BY <1>2
  <1>5. IsFiniteSet(U) /\ Some(U) \in U
    BY <1>3, <1>4, FS_Subset, SomeIn
  <1> DEFINE x == Some(U)
  <1>6. SumFunctionOnSet(f, U) = f[x] + SumFunctionOnSet(f, U \ {x})
    BY <1>4, <1>5, SumFirst
  <1>7. d # x
    BY <1>4, <1>6
  <1> DEFINE X == U \ {x}
             D == U \ {d}
             R == U \ {x, d}
  <1>8. SumFunctionOnSet(f, X) = f[d] + SumFunctionOnSet(f, R)
    <2>1. X \in SUBSET U /\ X # U /\ d \in X /\ X \ {d} = R
      BY <1>5, <1>7
    <2> HIDE DEF X, R
    <2>2. Good(X)
      BY <1>3, <2>1
    <2> QED BY <2>1, <2>2
  <1>9. SumFunctionOnSet(f, D) = f[x] + SumFunctionOnSet(f, R)
    <2>1. D \in SUBSET U /\ D # U /\ x \in D /\ D \ {x} = R
      BY <1>5, <1>7
    <2> HIDE DEF D, R, x
    <2>2. Good(D)
      BY <1>3, <2>1
    <2> QED BY <2>1, <2>2
  <1>10. SumFunctionOnSet(f, R) \in Int /\ f[x] \in Int /\ f[d] \in Int
    <2>1. R \in SUBSET S
      BY <1>3
    <2>2. IsFiniteSet(R)
      BY <2>1, FS_Subset
    <2> HIDE DEF R
    <2> QED BY <1>3, <1>5, <2>1, <2>2, SumInt
  <1> HIDE DEF R, X, D, x
  <1>11. SumFunctionOnSet(f, U) = f[x] + SumFunctionOnSet(f, X)
    BY <1>6 DEF X
  <1>12. SumFunctionOnSet(f, U) # f[d] + SumFunctionOnSet(f, D)
    BY <1>4 DEF D
  <1> QED BY <1>8, <1>9, <1>10, <1>11, <1>12

(* A larger set of natural numbers has no smaller sum. *)
LEMMA SumGrows ==
  ASSUME NEW f, NEW S, IsFiniteSet(S), \A x \in S : f[x] \in Nat, NEW T \in SUBSET S
  PROVE  SumFunctionOnSet(f, T) <= SumFunctionOnSet(f, S)
  <1> DEFINE Bad == {U \in SUBSET S : T \subseteq U /\ ~(SumFunctionOnSet(f, T) <= SumFunctionOnSet(f, U))}
  <1>1. SUFFICES ASSUME Bad # {} PROVE FALSE
    OBVIOUS
  <1>2. PICK U \in Bad : \A X \in SUBSET U : X # U => X \notin Bad
    <2> HIDE DEF Bad
    <2>1. Bad \in SUBSET (SUBSET S)  BY DEF Bad
    <2> QED BY <1>1, <2>1, Smallest
  <1>3. /\ U \in SUBSET S /\ T \in SUBSET U
        /\ ~(SumFunctionOnSet(f, T) <= SumFunctionOnSet(f, U))
    BY <1>2
  <1>4. IsFiniteSet(T) /\ IsFiniteSet(U) /\ IsFiniteSet(S)
    BY <1>3, FS_Subset
  <1>5. SumFunctionOnSet(f, T) \in Nat /\ SumFunctionOnSet(f, U) \in Nat
    BY <1>3, <1>4, SumNat
  <1>6. PICK e \in U : e \notin T
    BY <1>3, <1>5
  <1> DEFINE R == U \ {e}
  <1>7. R \in SUBSET U /\ R # U /\ T \subseteq R /\ IsFiniteSet(R)
    BY <1>3, <1>4, <1>6, FS_Subset
  <1> HIDE DEF R
  <1>8. SumFunctionOnSet(f, R) \in Nat
    BY <1>3, <1>7, SumNat
  <1>9. SumFunctionOnSet(f, T) <= SumFunctionOnSet(f, R)
    BY <1>2, <1>3, <1>7
  <1>10. SumFunctionOnSet(f, U) = f[e] + SumFunctionOnSet(f, R)
    BY <1>3, <1>4, SumRemove DEF R
  <1>11. f[e] \in Nat
    BY <1>3
  <1> QED BY <1>3, <1>5, <1>8, <1>9, <1>10, <1>11

-----------------------------------------------------------------------------
(* What the rest of the development cites: sums of all values of f. *)

(* SumFunction sums over the whole domain. *)
LEMMA SumOfAll ==
  ASSUME NEW f
  PROVE  SumFunction(f) = SumFunctionOnSet(f, DOMAIN f)
BY DEF SumFunction

(* Of a function of nothing it is zero. *)
LEMMA SumOfNone ==
  ASSUME NEW f, DOMAIN f = {}
  PROVE  SumFunction(f) = 0
BY SumOfAll, SumEmpty

(* Of integers it is an integer. *)
LEMMA SumIsInt ==
  ASSUME NEW f, IsFiniteSet(DOMAIN f), \A x \in DOMAIN f : f[x] \in Int
  PROVE  SumFunction(f) \in Int
BY SumOfAll, SumInt

(* Of natural numbers it is a natural number. *)
LEMMA SumIsNat ==
  ASSUME NEW f, IsFiniteSet(DOMAIN f), \A x \in DOMAIN f : f[x] \in Nat
  PROVE  SumFunction(f) \in Nat
BY SumOfAll, SumNat

(* What e adds to the sum of f. *)
Share(f, e) == IF e \in DOMAIN f THEN f[e] ELSE 0

(* The sum of f without e. *)
LEMMA SumWithout ==
  ASSUME NEW f, IsFiniteSet(DOMAIN f), \A x \in DOMAIN f : f[x] \in Int, NEW e
  PROVE  SumFunction(f) = Share(f, e) + SumFunctionOnSet(f, DOMAIN f \ {e})
  <1>1. CASE e \in DOMAIN f
    BY <1>1, SumOfAll, SumRemove DEF Share
  <1>2. CASE e \notin DOMAIN f
    <2>1. DOMAIN f \ {e} = DOMAIN f
      BY <1>2
    <2>2. SumFunctionOnSet(f, DOMAIN f) \in Int
      BY SumInt
    <2> QED BY <1>2, <2>1, <2>2, SumOfAll DEF Share
  <1> QED BY <1>1, <1>2

(* An element that is added, removed or changed changes the sum by just    *)
(* the difference of its shares.                                           *)
LEMMA SumChange ==
  ASSUME NEW f, IsFiniteSet(DOMAIN f), \A x \in DOMAIN f : f[x] \in Int,
         NEW g, NEW e, DOMAIN g \ {e} = DOMAIN f \ {e},
         \A x \in DOMAIN f \ {e} : g[x] = f[x], Share(g, e) \in Int
  PROVE  SumFunction(g) = SumFunction(f) - Share(f, e) + Share(g, e)
  <1> DEFINE R == DOMAIN f \ {e}
  <1>1. IsFiniteSet(R) /\ SumFunctionOnSet(f, R) \in Int
    <2>1. IsFiniteSet(R)
      BY FS_Subset
    <2> QED BY <2>1, SumInt
  <1>2. IsFiniteSet(DOMAIN g) /\ \A x \in DOMAIN g : g[x] \in Int
    <2>1. DOMAIN g \subseteq R \cup {e}
      OBVIOUS
    <2>2. IsFiniteSet(R \cup {e})
      BY <1>1, FS_AddElement
    <2>3. IsFiniteSet(DOMAIN g)
      BY <2>1, <2>2, FS_Subset
    <2> QED BY <2>3 DEF Share
  <1>3. SumFunction(f) = Share(f, e) + SumFunctionOnSet(f, R)
    BY SumWithout
  <1>4. SumFunction(g) = Share(g, e) + SumFunctionOnSet(g, R)
    BY <1>2, SumWithout
  <1>5. SumFunctionOnSet(g, R) = SumFunctionOnSet(f, R)
    <2> HIDE DEF R
    <2> QED BY <1>1, SumSame DEF R
  <1>6. Share(f, e) \in Int
    BY DEF Share
  <1> QED BY <1>1, <1>3, <1>4, <1>5, <1>6

(* More summands, all natural numbers, make no smaller sum. *)
LEMMA SumOfMore ==
  ASSUME NEW f, IsFiniteSet(DOMAIN f), \A x \in DOMAIN f : f[x] \in Nat,
         NEW g, DOMAIN g \subseteq DOMAIN f, \A x \in DOMAIN g : g[x] = f[x]
  PROVE  SumFunction(g) <= SumFunction(f)
  <1>1. IsFiniteSet(DOMAIN g)
    BY FS_Subset
  <1>2. SumFunctionOnSet(g, DOMAIN g) = SumFunctionOnSet(f, DOMAIN g)
    BY <1>1, SumSame
  <1> QED BY <1>2, SumOfAll, SumGrows

-----------------------------------------------------------------------------
(* The n positions of at, in their order. *)
Lists(f, n, at) ==
  /\ f \in [1..n -> at]
  /\ \A i, j \in 1..n : i < j => f[i] < f[j]
  /\ \A x \in at : \E i \in 1..n : f[i] = x

Upto(at, i) == {j \in at : j <= i}

(* A member of at has a rank among its members. *)
LEMMA UptoFinite ==
  ASSUME NEW m \in Nat, NEW at \in SUBSET (1..m)
  PROVE  /\ IsFiniteSet(at) /\ Cardinality(at) \in Nat
         /\ \A i \in at : /\ IsFiniteSet(Upto(at, i))
                          /\ Cardinality(Upto(at, i)) \in 1..Cardinality(at)
  <1>1. IsFiniteSet(1..m)
    BY FS_Interval
  <1>2. IsFiniteSet(at) /\ Cardinality(at) \in Nat
    BY <1>1, FS_Subset, FS_CardinalityType
  <1>3. ASSUME NEW i \in at
        PROVE  IsFiniteSet(Upto(at, i)) /\ Cardinality(Upto(at, i)) \in 1..Cardinality(at)
    <2>1. Upto(at, i) \in SUBSET at /\ i \in Upto(at, i)
      BY DEF Upto
    <2>2. /\ IsFiniteSet(Upto(at, i)) /\ Cardinality(Upto(at, i)) \in Nat
          /\ Cardinality(Upto(at, i)) <= Cardinality(at)
      BY <1>2, <2>1, FS_Subset, FS_CardinalityType
    <2>3. Cardinality(Upto(at, i)) # 0
      BY <2>1, <2>2, FS_EmptySet
    <2>4. QED
      BY <1>2, <2>2, <2>3
  <1>4. QED
    BY <1>2, <1>3

(* Its own position is what a member of at has. *)
LEMMA ListedAt ==
  ASSUME NEW m \in Nat, NEW at \in SUBSET (1..m), NEW n \in Nat, NEW f, Lists(f, n, at)
  PROVE  /\ n = Cardinality(at)
         /\ \A k \in 1..n : Cardinality(Upto(at, f[k])) = k
         /\ \A k \in 1..n : \A i \in at : Cardinality(Upto(at, i)) = k => i = f[k]
  <1>1. /\ f \in [1..n -> at]
        /\ \A i, j \in 1..n : i < j => f[i] < f[j]
        /\ \A x \in at : \E i \in 1..n : f[i] = x
    BY DEF Lists
  <1>2. \A i \in at : i \in Int
    OBVIOUS
  <1>3. \A i, j \in 1..n : f[i] = f[j] => i = j
    <2>1. SUFFICES ASSUME NEW i \in 1..n, NEW j \in 1..n, f[i] = f[j], i # j PROVE FALSE
      OBVIOUS
    <2>2. i < j \/ j < i
      BY <2>1
    <2>3. f[i] < f[j] \/ f[j] < f[i]
      BY <1>1, <2>2
    <2>4. f[i] \in Int /\ f[j] \in Int
      BY <1>1, <1>2
    <2>5. QED
      BY <2>1, <2>3, <2>4
  <1>4. n = Cardinality(at)
    <2>1. f \in Injection(1..n, at)
      BY <1>1, <1>3 DEF Injection, IsInjective
    <2>2. f \in Surjection(1..n, at)
      BY <1>1, Zenon DEF Surjection
    <2>3. ExistsBijection(1..n, at)
      BY <2>1, <2>2, Zenon DEF Bijection, ExistsBijection
    <2>4. QED
      BY <2>3, FS_CountingElements
  <1>5. ASSUME NEW k \in 1..n PROVE Cardinality(Upto(at, f[k])) = k
    <2> DEFINE g == [i \in 1..k |-> f[i]]
    <2>1. \A i \in 1..k : i \in 1..n
      OBVIOUS
    <2>2. \A i \in 1..k : f[i] \in Upto(at, f[k])
      <3>1. SUFFICES ASSUME NEW i \in 1..k PROVE f[i] \in at /\ f[i] <= f[k]
        BY DEF Upto
      <3>2. i = k \/ i < k
        OBVIOUS
      <3>3. f[i] \in Int /\ f[k] \in Int /\ f[i] \in at
        BY <1>1, <1>2, <2>1
      <3>4. i < k => f[i] < f[k]
        BY <1>1, <2>1
      <3>5. QED
        BY <3>2, <3>3, <3>4
    <2>3. g \in Injection(1..k, Upto(at, f[k]))
      BY <1>3, <2>1, <2>2 DEF Injection, IsInjective
    <2>4. \A x \in Upto(at, f[k]) : \E i \in 1..k : g[i] = x
      <3>1. SUFFICES ASSUME NEW x \in at, x <= f[k] PROVE \E i \in 1..k : g[i] = x
        BY DEF Upto
      <3>2. PICK i \in 1..n : f[i] = x
        BY <1>1
      <3>3. f[i] \in Int /\ f[k] \in Int
        BY <1>1, <1>2
      <3>4. ~(k < i)
        BY <1>1, <3>1, <3>2, <3>3
      <3>5. i \in 1..k
        BY <3>4
      <3>6. QED
        BY <3>2, <3>5
    <2>5. g \in Surjection(1..k, Upto(at, f[k]))
      BY <2>2, <2>4, Zenon DEF Surjection
    <2>6. ExistsBijection(1..k, Upto(at, f[k]))
      BY <2>3, <2>5, Zenon DEF Bijection, ExistsBijection
    <2>7. k \in Nat
      OBVIOUS
    <2>8. QED
      BY <2>6, <2>7, FS_CountingElements
  <1>6. \A k \in 1..n : \A i \in at : Cardinality(Upto(at, i)) = k => i = f[k]
    BY <1>1, <1>5
  <1>7. QED
    BY <1>4, <1>5, <1>6

(* Any positions can be listed in their order. *)
LEMMA ListExists ==
  ASSUME NEW m \in Nat, NEW at \in SUBSET (1..m)
  PROVE  \E f : Lists(f, Cardinality(at), at)
  <1> DEFINE n == Cardinality(at)
             rank == [i \in at |-> Cardinality(Upto(at, i))]
  <1>1. /\ IsFiniteSet(at) /\ n \in Nat
        /\ \A i \in at : IsFiniteSet(Upto(at, i)) /\ rank[i] \in 1..n
    BY UptoFinite
  <1>2. \A i, j \in at : i < j => rank[i] < rank[j]
    <2>1. SUFFICES ASSUME NEW i \in at, NEW j \in at, i < j PROVE rank[i] < rank[j]
      OBVIOUS
    <2>2. i \in Int /\ j \in Int
      OBVIOUS
    <2>3. Upto(at, i) \in SUBSET Upto(at, j)
      <3>1. \A x \in at : x \in Int
        OBVIOUS
      <3>2. \A x \in Upto(at, i) : x \in Upto(at, j)
        BY <2>1, <2>2, <3>1 DEF Upto
      <3>3. QED
        BY <3>2
    <2>4. j \in Upto(at, j) /\ j \notin Upto(at, i)
      BY <2>1, <2>2 DEF Upto
    <2>5. /\ Cardinality(Upto(at, i)) <= Cardinality(Upto(at, j))
          /\ Cardinality(Upto(at, i)) # Cardinality(Upto(at, j))
      BY <1>1, <2>3, <2>4, FS_Subset
    <2>6. rank[i] \in Int /\ rank[j] \in Int
      BY <1>1
    <2>7. QED
      BY <2>5, <2>6
  <1> HIDE DEF rank, n
  <1>3. \A i, j \in at : rank[i] = rank[j] => i = j
    <2>1. SUFFICES ASSUME NEW i \in at, NEW j \in at, rank[i] = rank[j], i # j PROVE FALSE
      OBVIOUS
    <2>2. i < j \/ j < i
      BY <2>1
    <2>3. rank[i] < rank[j] \/ rank[j] < rank[i]
      BY <1>2, <2>2
    <2>4. rank[i] \in Int /\ rank[j] \in Int
      BY <1>1
    <2>5. QED
      BY <2>1, <2>3, <2>4
  <1>4. \A k \in 1..n : \E i \in at : rank[i] = k
    <2>1. rank \in Injection(at, 1..n)
      BY <1>1, <1>3 DEF Injection, IsInjective, rank
    <2>2. IsFiniteSet(1..n) /\ Cardinality(1..n) = n
      BY <1>1, FS_Interval
    <2>3. rank \in Surjection(at, 1..n)
      BY <2>1, <2>2, FS_Injection DEF n
    <2>4. QED
      BY <2>3, Zenon DEF Surjection
  <1> DEFINE f == [k \in 1..n |-> CHOOSE i \in at : rank[i] = k]
  <1>5. \A k \in 1..n : f[k] \in at /\ rank[f[k]] = k
    BY <1>4
  <1> HIDE DEF f
  <1>6. f \in [1..n -> at]
    BY <1>5 DEF f
  <1>7. \A k, l \in 1..n : k < l => f[k] < f[l]
    <2>1. SUFFICES ASSUME NEW k \in 1..n, NEW l \in 1..n, k < l, ~(f[k] < f[l]) PROVE FALSE
      OBVIOUS
    <2>2. f[k] \in Int /\ f[l] \in Int /\ f[k] \in at /\ f[l] \in at
      <3>1. \A x \in at : x \in Int
        OBVIOUS
      <3>2. f[k] \in at /\ f[l] \in at
        BY <1>5
      <3>3. QED
        BY <3>1, <3>2
    <2>3. f[k] = f[l] \/ f[l] < f[k]
      BY <2>1, <2>2
    <2>4. CASE f[k] = f[l]
      BY <1>5, <2>1, <2>4
    <2>5. CASE f[l] < f[k]
      <3>1. rank[f[l]] < rank[f[k]]
        BY <1>2, <2>2, <2>5
      <3>2. l < k
        BY <1>5, <3>1
      <3>3. QED
        BY <2>1, <3>2
    <2>6. QED
      BY <2>3, <2>4, <2>5
  <1>8. \A x \in at : \E k \in 1..n : f[k] = x
    <2>1. SUFFICES ASSUME NEW x \in at PROVE \E k \in 1..n : f[k] = x
      OBVIOUS
    <2>2. rank[x] \in 1..n /\ f[rank[x]] \in at /\ rank[f[rank[x]]] = rank[x]
      BY <1>1, <1>5
    <2>3. f[rank[x]] = x
      BY <1>3, <2>2
    <2>4. QED
      BY <2>2, <2>3
  <1>9. Lists(f, n, at)
    BY <1>6, <1>7, <1>8 DEF Lists
  <1>10. QED
    BY <1>9 DEF n

(* The items of ws that are in S, as they stand in it. *)
Selected(ws, S) ==
  LET at == {i \in DOMAIN ws : ws[i] \in S}
      Nth(k) == CHOOSE i \in at : Cardinality({j \in at : j <= i}) = k
  IN [k \in 1..Cardinality(at) |-> ws[Nth(k)]]

InOrder(ws, at) ==
  [k \in 1..Cardinality(at) |-> ws[CHOOSE i \in at : Cardinality({j \in at : j <= i}) = k]]

Places(ws, S) == {i \in DOMAIN ws : ws[i] \in S}

Follows(us, ws, f, n) == \A k \in 1..n : us[k] = ws[f[k]]

(* Selected is read off such a list. *)
LEMMA SelectedIs ==
  ASSUME NEW T, NEW ws \in Seq(T), NEW S, NEW n \in Nat, NEW f, Lists(f, n, Places(ws, S))
  PROVE  /\ Follows(Selected(ws, S), ws, f, n)
         /\ Selected(ws, S) \in Seq(S) /\ Selected(ws, S) \in Seq(T) /\ Len(Selected(ws, S)) = n
  <1> DEFINE at == Places(ws, S)
  <1>1. Len(ws) \in Nat /\ at \in SUBSET (1..Len(ws))
    BY DEF Places
  <1>2. /\ n = Cardinality(at)
        /\ \A k \in 1..n : Cardinality(Upto(at, f[k])) = k
        /\ \A k \in 1..n : \A i \in at : Cardinality(Upto(at, i)) = k => i = f[k]
    BY <1>1, ListedAt
  <1>3. \A k \in 1..n : f[k] \in at
    BY DEF Lists
  <1>4. \A k \in 1..n : (CHOOSE i \in at : Cardinality(Upto(at, i)) = k) = f[k]
    BY <1>2, <1>3
  <1>5. Selected(ws, S) = [k \in 1..Cardinality(at) |->
                         ws[CHOOSE i \in at : Cardinality(Upto(at, i)) = k]]
    BY DEF Selected, Places, Upto
  <1> HIDE DEF at
  <1>6. Selected(ws, S) = [k \in 1..n |-> ws[f[k]]]
    BY <1>2, <1>4, <1>5
  <1>7. \A k \in 1..n : ws[f[k]] \in S /\ ws[f[k]] \in T
    BY <1>3 DEF at, Places
  <1>8. Follows(Selected(ws, S), ws, f, n)
    BY <1>6 DEF Follows
  <1>9. QED
    BY <1>6, <1>7, <1>8

(* Its items are those of ws in S. *)
LEMMA SelectedHas ==
  ASSUME NEW T, NEW ws \in Seq(T), NEW S
  PROVE  /\ Selected(ws, S) \in Seq(S) /\ Selected(ws, S) \in Seq(T) /\ Len(Selected(ws, S)) \in Nat
         /\ \E f : /\ Lists(f, Len(Selected(ws, S)), Places(ws, S))
                   /\ Follows(Selected(ws, S), ws, f, Len(Selected(ws, S)))
  <1> DEFINE at == Places(ws, S)
             n == Cardinality(at)
  <1>1. Len(ws) \in Nat /\ at \in SUBSET (1..Len(ws))
    BY DEF Places
  <1>2. n \in Nat
    BY <1>1, UptoFinite
  <1>3. PICK f : Lists(f, n, at)
    BY <1>1, ListExists
  <1> HIDE DEF n
  <1>4. /\ Follows(Selected(ws, S), ws, f, n)
        /\ Selected(ws, S) \in Seq(S) /\ Selected(ws, S) \in Seq(T) /\ Len(Selected(ws, S)) = n
    BY <1>2, <1>3, SelectedIs
  <1>5. QED
    BY <1>2, <1>3, <1>4

(* What is kept are the members of S, and each in its turn. *)
LEMMA SelectedMembers ==
  ASSUME NEW T, NEW ws \in Seq(T), NEW S
  PROVE  /\ \A i \in DOMAIN ws :
              ws[i] \in S => \E k \in DOMAIN Selected(ws, S) : Selected(ws, S)[k] = ws[i]
         /\ \A k \in DOMAIN Selected(ws, S) :
              \E i \in DOMAIN ws : ws[i] \in S /\ Selected(ws, S)[k] = ws[i]
  <1> DEFINE us == Selected(ws, S)
  <1>1. Len(us) \in Nat /\ DOMAIN us = 1..Len(us)
    BY SelectedHas
  <1>2. PICK f : Lists(f, Len(us), Places(ws, S)) /\ Follows(us, ws, f, Len(us))
    BY SelectedHas
  <1> HIDE DEF us
  <1>3. \A k \in 1..Len(us) : f[k] \in Places(ws, S) /\ us[k] = ws[f[k]]
    BY <1>1, <1>2 DEF Lists, Follows
  <1>4. \A x \in Places(ws, S) : \E k \in 1..Len(us) : f[k] = x
    BY <1>2 DEF Lists
  <1>5. ASSUME NEW i \in DOMAIN ws, ws[i] \in S PROVE \E k \in 1..Len(us) : us[k] = ws[i]
    <2>1. i \in Places(ws, S)
      BY <1>5 DEF Places
    <2>2. PICK k \in 1..Len(us) : f[k] = i
      BY <1>4, <2>1
    <2>3. QED
      BY <1>3, <2>2
  <1>6. ASSUME NEW k \in 1..Len(us) PROVE \E i \in DOMAIN ws : ws[i] \in S /\ us[k] = ws[i]
    BY <1>3 DEF Places
  <1>7. QED
    BY <1>1, <1>5, <1>6 DEF us

LEMMA SelectedNone ==
  ASSUME NEW T, NEW ws \in Seq(T), NEW S, \A i \in DOMAIN ws : ws[i] \notin S
  PROVE  Selected(ws, S) = <<>>
  <1> DEFINE us == Selected(ws, S)
  <1>1. us \in Seq(T)
    BY SelectedHas
  <1>2. \A k \in DOMAIN us : FALSE
    BY SelectedMembers
  <1> HIDE DEF us
  <1>3. us = <<>>
    <2>1. Len(us) \in Nat /\ DOMAIN us = 1..Len(us)
      BY <1>1
    <2>2. ASSUME Len(us) # 0 PROVE FALSE
      <3>1. 1 \in DOMAIN us
        BY <2>1, <2>2
      <3>2. QED
        BY <1>2, <3>1
    <2>3. QED
      BY <1>1, <2>2, EmptySeq
  <1>4. QED
    BY <1>3 DEF us

LEMMA SelectedSame ==
  ASSUME NEW T, NEW ws \in Seq(T), NEW S, NEW S2,
         \A i \in DOMAIN ws : ws[i] \in S <=> ws[i] \in S2
  PROVE  Selected(ws, S) = Selected(ws, S2)
  <1>1. Places(ws, S) = Places(ws, S2)
    BY DEF Places
  <1>2. Selected(ws, S) = InOrder(ws, Places(ws, S)) /\ Selected(ws, S2) = InOrder(ws, Places(ws, S2))
    BY DEF Selected, InOrder, Places
  <1>3. QED
    BY <1>1, <1>2

(* Another one at the end. *)
LEMMA SelectedLonger ==
  ASSUME NEW T, NEW ws \in Seq(T), NEW S, NEW x \in T, NEW vs \in Seq(T),
         Len(vs) = Len(ws) + 1, vs[Len(ws) + 1] = x, \A i \in 1..Len(ws) : vs[i] = ws[i]
  PROVE  /\ x \in S => Selected(vs, S) = Append(Selected(ws, S), x)
         /\ x \notin S => Selected(vs, S) = Selected(ws, S)
  <1> DEFINE us == Selected(ws, S)
             n == Len(us)
  <1>1. /\ Len(ws) \in Nat /\ Len(vs) = Len(ws) + 1 /\ vs \in Seq(T) /\ DOMAIN vs = 1..Len(ws) + 1
        /\ DOMAIN ws = 1..Len(ws)
        /\ vs[Len(ws) + 1] = x /\ \A i \in 1..Len(ws) : vs[i] = ws[i]
    OBVIOUS
  <1>2. n \in Nat /\ us \in Seq(T)
    BY SelectedHas
  <1>3. PICK f : Lists(f, n, Places(ws, S)) /\ Follows(us, ws, f, n)
    BY SelectedHas
  <1> HIDE DEF us, n
  <1>4. /\ f \in [1..n -> Places(ws, S)]
        /\ \A i, j \in 1..n : i < j => f[i] < f[j]
        /\ \A y \in Places(ws, S) : \E i \in 1..n : f[i] = y
    BY <1>3 DEF Lists
  <1>5. \A y \in Places(ws, S) : y \in 1..Len(ws)
    BY <1>1 DEF Places
  <1>6. ASSUME x \notin S PROVE Selected(vs, S) = us
    <2>1. Places(vs, S) = Places(ws, S)
      BY <1>1, <1>6 DEF Places
    <2>2. /\ Follows(Selected(vs, S), vs, f, n)
          /\ Selected(vs, S) \in Seq(T) /\ Len(Selected(vs, S)) = n
      <3>1. Lists(f, n, Places(vs, S)) /\ vs \in Seq(T) /\ n \in Nat
        BY <1>1, <1>2, <1>3, <2>1
      <3>2. QED
        BY <3>1, SelectedIs
    <2>3. \A k \in 1..n : vs[f[k]] = ws[f[k]]
      BY <1>1, <1>4, <1>5
    <2>4. \A k \in 1..n : Selected(vs, S)[k] = us[k]
      BY <1>3, <2>2, <2>3 DEF Follows
    <2>5. Len(us) = n
      BY DEF n
    <2>6. QED
      BY <1>2, <2>2, <2>4, <2>5, SeqEqual
  <1>7. ASSUME x \in S PROVE Selected(vs, S) = Append(us, x)
    <2> DEFINE g == [k \in 1..n + 1 |-> IF k = n + 1 THEN Len(ws) + 1 ELSE f[k]]
    <2>1. Places(vs, S) = Places(ws, S) \cup {Len(ws) + 1}
      BY <1>1, <1>7 DEF Places
    <2>2. g \in [1..n + 1 -> Places(vs, S)]
      BY <1>2, <1>4, <2>1
    <2>3. ASSUME NEW i \in 1..n + 1, NEW j \in 1..n + 1, i < j PROVE g[i] < g[j]
      <3>1. i \in 1..n /\ i # n + 1
        BY <1>2, <2>3
      <3>2. CASE j = n + 1
        BY <1>1, <1>4, <1>5, <3>1, <3>2
      <3>3. CASE j # n + 1
        BY <1>2, <1>4, <2>3, <3>1, <3>3
      <3>4. QED
        BY <3>2, <3>3
    <2>4. ASSUME NEW y \in Places(vs, S) PROVE \E i \in 1..n + 1 : g[i] = y
      <3>1. CASE y = Len(ws) + 1
        BY <1>2, <3>1
      <3>2. CASE y \in Places(ws, S)
        <4>1. PICK i \in 1..n : f[i] = y
          BY <1>4, <3>2
        <4>2. i \in 1..n + 1 /\ i # n + 1
          BY <1>2
        <4>3. QED
          BY <4>1, <4>2
      <3>3. QED
        BY <2>1, <3>1, <3>2
    <2>5. Lists(g, n + 1, Places(vs, S))
      BY <2>2, <2>3, <2>4 DEF Lists
    <2>6. n + 1 \in Nat
      BY <1>2
    <2> HIDE DEF g
    <2>7. /\ Follows(Selected(vs, S), vs, g, n + 1)
          /\ Selected(vs, S) \in Seq(T) /\ Len(Selected(vs, S)) = n + 1
      <3>1. vs \in Seq(T)
        BY <1>1
      <3>2. QED
        BY <2>5, <2>6, <3>1, SelectedIs
    <2>8. Append(us, x) \in Seq(T) /\ Len(Append(us, x)) = n + 1
      BY <1>2 DEF n
    <2>9. ASSUME NEW k \in 1..n + 1 PROVE Selected(vs, S)[k] = Append(us, x)[k]
      <3>1. Selected(vs, S)[k] = vs[g[k]]
        BY <2>7 DEF Follows
      <3>2. CASE k = n + 1
        <4>1. g[k] = Len(ws) + 1
          BY <1>2, <3>2 DEF g
        <4>2. Append(us, x)[k] = x
          BY <1>2, <3>2 DEF n
        <4>3. QED
          BY <1>1, <3>1, <4>1, <4>2
      <3>3. CASE k # n + 1
        <4>1. k \in 1..n /\ g[k] = f[k]
          BY <1>2, <3>3 DEF g
        <4>2. Append(us, x)[k] = us[k]
          BY <1>2, <4>1 DEF n
        <4>3. us[k] = ws[f[k]]
          BY <1>3, <4>1 DEF Follows
        <4>4. vs[f[k]] = ws[f[k]]
          BY <1>1, <1>4, <1>5, <4>1
        <4>5. QED
          BY <3>1, <4>1, <4>2, <4>3, <4>4
      <3>4. QED
        BY <3>2, <3>3
    <2> HIDE DEF n
    <2>10. QED
      BY <2>7, <2>8, <2>9, SeqEqual
  <1>8. QED
    BY <1>6, <1>7 DEF us

LEMMA SelectedAppend ==
  ASSUME NEW T, NEW ws \in Seq(T), NEW S, NEW x \in T
  PROVE  /\ x \in S => Selected(Append(ws, x), S) = Append(Selected(ws, S), x)
         /\ x \notin S => Selected(Append(ws, x), S) = Selected(ws, S)
  <1>1. /\ Append(ws, x) \in Seq(T) /\ Len(Append(ws, x)) = Len(ws) + 1
        /\ Append(ws, x)[Len(ws) + 1] = x /\ \A i \in 1..Len(ws) : Append(ws, x)[i] = ws[i]
    OBVIOUS
  <1>2. QED
    BY <1>1, SelectedLonger

(* r is q without its head, and with ws behind it. *)
Advanced(r, q, ws) ==
  /\ \A i \in DOMAIN r : \/ i \in 1..Len(q) - 1 /\ i + 1 \in DOMAIN q /\ r[i] = q[i + 1]
                         \/ \E j \in DOMAIN ws : i = Len(q) - 1 + j /\ r[i] = ws[j]
  /\ \A i \in DOMAIN q : i = 1 \/ (i - 1 \in DOMAIN r /\ r[i - 1] = q[i])
  /\ \A j \in DOMAIN ws : Len(q) - 1 + j \in DOMAIN r /\ r[Len(q) - 1 + j] = ws[j]

(* A queue whose head was taken while more came in. *)
LEMMA TakenAndAdded ==
  ASSUME NEW T, NEW q \in Seq(T), q # <<>>, NEW ws \in Seq(T), NEW r, r = Tail(q) \o ws
  PROVE  /\ r \in Seq(T) /\ Len(r) = Len(q) - 1 + Len(ws) /\ Advanced(r, q, ws)
         /\ Len(q) \in Nat \ {0} /\ Len(ws) \in Nat /\ Head(q) = q[1] /\ Head(q) \in T
  <1>1. Len(q) \in Nat \ {0} /\ Len(ws) \in Nat /\ Head(q) = q[1] /\ q[1] \in T
    OBVIOUS
  <1>2. Tail(q) \in Seq(T) /\ Len(Tail(q)) = Len(q) - 1
        /\ \A i \in 1..Len(q) - 1 : Tail(q)[i] = q[i + 1]
    OBVIOUS
  <1>3. /\ r \in Seq(T) /\ Len(r) = Len(q) - 1 + Len(ws)
        /\ \A i \in 1..Len(q) - 1 : r[i] = q[i + 1]
        /\ \A i \in 1..Len(ws) : r[Len(q) - 1 + i] = ws[i]
    BY <1>1, <1>2
  <1>4. DOMAIN r = 1..Len(q) - 1 + Len(ws) /\ DOMAIN q = 1..Len(q) /\ DOMAIN ws = 1..Len(ws)
    BY <1>3
  <1>5. ASSUME NEW i \in DOMAIN r
        PROVE  \/ i \in 1..Len(q) - 1 /\ i + 1 \in DOMAIN q /\ r[i] = q[i + 1]
               \/ \E j \in DOMAIN ws : i = Len(q) - 1 + j /\ r[i] = ws[j]
    <2>1. CASE i <= Len(q) - 1
      BY <1>1, <1>3, <1>4, <2>1
    <2>2. CASE ~(i <= Len(q) - 1)
      <3> DEFINE j == i - (Len(q) - 1)
      <3>1. j \in 1..Len(ws) /\ i = Len(q) - 1 + j
        BY <1>1, <1>4, <2>2
      <3>2. r[Len(q) - 1 + j] = ws[j]
        BY <1>3, <3>1
      <3>3. QED
        BY <1>4, <3>1, <3>2
    <2>3. QED
      BY <2>1, <2>2
  <1>6. ASSUME NEW i \in DOMAIN q, i # 1
        PROVE  i - 1 \in DOMAIN r /\ r[i - 1] = q[i]
    <2> DEFINE k == i - 1
    <2>1. k \in 1..Len(q) - 1 /\ i = k + 1
      BY <1>1, <1>4, <1>6
    <2>2. QED
      BY <1>1, <1>3, <1>4, <2>1
  <1>7. \A j \in DOMAIN ws : Len(q) - 1 + j \in DOMAIN r /\ r[Len(q) - 1 + j] = ws[j]
    BY <1>1, <1>3, <1>4
  <1>8. Advanced(r, q, ws)
    <2>1. \A i \in DOMAIN q : i = 1 \/ (i - 1 \in DOMAIN r /\ r[i - 1] = q[i])
      BY <1>6
    <2>2. QED
      BY <1>5, <1>7, <2>1, Zenon DEF Advanced
  <1>9. QED
    BY <1>1, <1>3, <1>8

LEMMA FromPlace ==
  ASSUME NEW T, NEW ws \in Seq(T), NEW n \in 0..Len(ws), NEW vs,
         vs = SubSeq(ws, n + 1, Len(ws))
  PROVE  /\ vs \in Seq(T) /\ Len(vs) = Len(ws) - n /\ DOMAIN vs = 1..Len(ws) - n
         /\ \A i \in 1..Len(ws) - n : vs[i] = ws[i + n]
  OBVIOUS

(* What stands before the first that is kept goes, or it goes as well. *)
LEMMA SelectedDrop ==
  ASSUME NEW T, NEW ws \in Seq(T), NEW S, NEW n \in 0..Len(ws), NEW vs \in Seq(T),
         Len(vs) = Len(ws) - n, \A i \in 1..Len(ws) - n : vs[i] = ws[i + n],
         \A j \in 1..n : ws[j] \notin S
  PROVE  Selected(vs, S) = Selected(ws, S)
  <1> DEFINE us == Selected(ws, S)
             m == Len(us)
  <1>1. /\ Len(ws) \in Nat /\ n \in Int /\ n >= 0 /\ DOMAIN vs = 1..Len(ws) - n
        /\ DOMAIN ws = 1..Len(ws) /\ n <= Len(ws)
    OBVIOUS
  <1>2. m \in Nat /\ us \in Seq(T) /\ Len(us) = m
    BY SelectedHas
  <1>3. PICK f : Lists(f, m, Places(ws, S)) /\ Follows(us, ws, f, m)
    BY SelectedHas
  <1> HIDE DEF us, m
  <1>4. /\ f \in [1..m -> Places(ws, S)]
        /\ \A i, j \in 1..m : i < j => f[i] < f[j]
        /\ \A y \in Places(ws, S) : \E i \in 1..m : f[i] = y
    BY <1>3 DEF Lists
  <1>5. \A y \in Places(ws, S) : y \in 1..Len(ws) /\ ~(y <= n) /\ y - n \in Places(vs, S)
    <2>1. SUFFICES ASSUME NEW y \in 1..Len(ws), ws[y] \in S
                   PROVE  ~(y <= n) /\ y - n \in 1..Len(ws) - n /\ vs[y - n] \in S
      BY <1>1 DEF Places
    <2>2. ~(y <= n)
      BY <2>1
    <2>3. y - n \in 1..Len(ws) - n /\ (y - n) + n = y
      BY <1>1, <2>2
    <2>4. QED
      BY <2>1, <2>2, <2>3
  <1>6. \A y \in Places(vs, S) : y \in Int /\ y + n \in Places(ws, S)
    <2>1. SUFFICES ASSUME NEW y \in 1..Len(ws) - n, vs[y] \in S
                   PROVE  y + n \in 1..Len(ws) /\ ws[y + n] \in S
      BY <1>1 DEF Places
    <2>2. QED
      BY <1>1, <2>1
  <1> DEFINE g == [k \in 1..m |-> f[k] - n]
  <1>7. g \in [1..m -> Places(vs, S)]
    BY <1>4, <1>5
  <1>8. \A i, j \in 1..m : i < j => g[i] < g[j]
    <2>1. SUFFICES ASSUME NEW i \in 1..m, NEW j \in 1..m, i < j PROVE g[i] < g[j]
      OBVIOUS
    <2>2. f[i] < f[j] /\ f[i] \in Int /\ f[j] \in Int
      BY <1>4, <1>5, <2>1
    <2>3. QED
      BY <1>1, <2>2
  <1>9. \A y \in Places(vs, S) : \E i \in 1..m : g[i] = y
    <2>1. SUFFICES ASSUME NEW y \in Places(vs, S) PROVE \E i \in 1..m : g[i] = y
      OBVIOUS
    <2>2. PICK i \in 1..m : f[i] = y + n
      BY <1>4, <1>6
    <2>3. g[i] = y
      BY <1>1, <1>6, <2>2
    <2>4. QED
      BY <2>3
  <1>10. Lists(g, m, Places(vs, S))
    BY <1>7, <1>8, <1>9 DEF Lists
  <1> HIDE DEF g
  <1>11. /\ Follows(Selected(vs, S), vs, g, m) /\ Selected(vs, S) \in Seq(T) /\ Len(Selected(vs, S)) = m
    BY <1>2, <1>10, SelectedIs
  <1>12. ASSUME NEW k \in 1..m PROVE Selected(vs, S)[k] = us[k]
    <2>1. Selected(vs, S)[k] = vs[g[k]] /\ us[k] = ws[f[k]]
      BY <1>3, <1>11 DEF Follows
    <2>2. f[k] \in 1..Len(ws) /\ ~(f[k] <= n) /\ g[k] = f[k] - n
      BY <1>4, <1>5 DEF g
    <2>3. g[k] \in 1..Len(ws) - n /\ g[k] + n = f[k]
      BY <1>1, <2>2
    <2>4. QED
      BY <2>1, <2>3
  <1>13. QED
    BY <1>2, <1>11, <1>12, SeqEqual DEF us

LEMMA SelectedTake ==
  ASSUME NEW T, NEW ws \in Seq(T), NEW S, NEW n \in 1..Len(ws), NEW vs \in Seq(T),
         Len(vs) = Len(ws) - n, \A i \in 1..Len(ws) - n : vs[i] = ws[i + n],
         \A j \in 1..n - 1 : ws[j] \notin S, ws[n] \in S
  PROVE  /\ Selected(ws, S) # <<>> /\ Len(Selected(ws, S)) >= 1 /\ Selected(ws, S)[1] = ws[n]
         /\ Len(Selected(vs, S)) = Len(Selected(ws, S)) - 1
         /\ \A k \in 1..Len(Selected(vs, S)) : Selected(vs, S)[k] = Selected(ws, S)[k + 1]
  <1> DEFINE us == Selected(ws, S)
             m == Len(us)
  <1>1. /\ Len(ws) \in Nat /\ n \in Int /\ n >= 1 /\ DOMAIN vs = 1..Len(ws) - n
        /\ DOMAIN ws = 1..Len(ws) /\ n <= Len(ws)
    OBVIOUS
  <1>2. m \in Nat /\ us \in Seq(T) /\ Len(us) = m
    BY SelectedHas
  <1>3. PICK f : Lists(f, m, Places(ws, S)) /\ Follows(us, ws, f, m)
    BY SelectedHas
  <1> HIDE DEF us, m
  <1>4. /\ f \in [1..m -> Places(ws, S)]
        /\ \A i, j \in 1..m : i < j => f[i] < f[j]
        /\ \A y \in Places(ws, S) : \E i \in 1..m : f[i] = y
    BY <1>3 DEF Lists
  <1>5. \A y \in Places(ws, S) : y \in 1..Len(ws) /\ y >= n /\ (y # n => y - n \in Places(vs, S))
    <2>1. SUFFICES ASSUME NEW y \in 1..Len(ws), ws[y] \in S
                   PROVE  y >= n /\ (y # n => y - n \in 1..Len(ws) - n /\ vs[y - n] \in S)
      BY <1>1 DEF Places
    <2>2. y >= n
      BY <1>1, <2>1
    <2>3. ASSUME y # n PROVE y - n \in 1..Len(ws) - n /\ vs[y - n] \in S
      <3>1. y - n \in 1..Len(ws) - n /\ (y - n) + n = y
        BY <1>1, <2>2, <2>3
      <3>2. QED
        BY <2>1, <3>1
    <2>4. QED
      BY <2>2, <2>3
  <1>6. \A y \in Places(vs, S) : y \in Int /\ y >= 1 /\ y + n \in Places(ws, S)
    <2>1. SUFFICES ASSUME NEW y \in 1..Len(ws) - n, vs[y] \in S
                   PROVE  y + n \in 1..Len(ws) /\ ws[y + n] \in S
      BY <1>1 DEF Places
    <2>2. QED
      BY <1>1, <2>1
  <1>7. m >= 1 /\ f[1] = n
    <2>1. n \in Places(ws, S)
      BY <1>1 DEF Places
    <2>2. PICK i \in 1..m : f[i] = n
      BY <1>4, <2>1
    <2>3. m >= 1 /\ 1 \in 1..m
      BY <1>2, <2>2
    <2>4. f[1] \in Int /\ f[1] >= n
      BY <1>4, <1>5, <2>3
    <2>5. i = 1 \/ 1 < i
      OBVIOUS
    <2>6. QED
      BY <1>1, <1>4, <2>2, <2>3, <2>4, <2>5
  <1>8. \A k \in 1..m - 1 : k + 1 \in 1..m /\ f[k + 1] > n /\ f[k + 1] \in Places(ws, S)
                            /\ f[k + 1] \in 1..Len(ws)
    <2>1. SUFFICES ASSUME NEW k \in 1..m - 1
                   PROVE  /\ k + 1 \in 1..m /\ f[k + 1] > n /\ f[k + 1] \in Places(ws, S)
                          /\ f[k + 1] \in 1..Len(ws)
      OBVIOUS
    <2>2. k + 1 \in 1..m /\ 1 \in 1..m /\ 1 < k + 1
      BY <1>2
    <2>3. f[1] < f[k + 1] /\ f[k + 1] \in Places(ws, S)
      BY <1>4, <2>2
    <2>4. f[k + 1] \in 1..Len(ws)
      BY <1>5, <2>3
    <2>5. QED
      BY <1>1, <1>7, <2>2, <2>3, <2>4
  <1> DEFINE g == [k \in 1..m - 1 |-> f[k + 1] - n]
  <1>9. g \in [1..m - 1 -> Places(vs, S)]
    <2>1. SUFFICES ASSUME NEW k \in 1..m - 1 PROVE f[k + 1] - n \in Places(vs, S)
      OBVIOUS
    <2>2. f[k + 1] # n
      BY <1>1, <1>8
    <2>3. QED
      BY <1>5, <1>8, <2>2
  <1>10. \A i, j \in 1..m - 1 : i < j => g[i] < g[j]
    <2>1. SUFFICES ASSUME NEW i \in 1..m - 1, NEW j \in 1..m - 1, i < j PROVE g[i] < g[j]
      OBVIOUS
    <2>2. i + 1 < j + 1 /\ i + 1 \in 1..m /\ j + 1 \in 1..m
      BY <1>8, <2>1
    <2>3. f[i + 1] < f[j + 1] /\ f[i + 1] \in Int /\ f[j + 1] \in Int
      BY <1>4, <1>8, <2>2
    <2>4. QED
      BY <1>1, <2>3
  <1>11. \A y \in Places(vs, S) : \E i \in 1..m - 1 : g[i] = y
    <2>1. SUFFICES ASSUME NEW y \in Places(vs, S) PROVE \E i \in 1..m - 1 : g[i] = y
      OBVIOUS
    <2>2. PICK i \in 1..m : f[i] = y + n
      BY <1>4, <1>6
    <2>3. i # 1
      BY <1>1, <1>6, <1>7, <2>2
    <2>4. i - 1 \in 1..m - 1 /\ (i - 1) + 1 = i
      BY <1>2, <2>3
    <2>5. g[i - 1] = y
      BY <1>1, <1>6, <2>2, <2>4
    <2>6. QED
      BY <2>4, <2>5
  <1>12. Lists(g, m - 1, Places(vs, S))
    BY <1>9, <1>10, <1>11 DEF Lists
  <1>13. m - 1 \in Nat
    BY <1>2, <1>7
  <1> HIDE DEF g
  <1>14. /\ Follows(Selected(vs, S), vs, g, m - 1) /\ Selected(vs, S) \in Seq(T) /\ Len(Selected(vs, S)) = m - 1
    BY <1>12, <1>13, SelectedIs
  <1>15. ASSUME NEW k \in 1..m - 1 PROVE Selected(vs, S)[k] = us[k + 1]
    <2>1. Selected(vs, S)[k] = vs[g[k]] /\ us[k + 1] = ws[f[k + 1]]
      BY <1>3, <1>8, <1>14 DEF Follows
    <2>2. g[k] = f[k + 1] - n
      BY DEF g
    <2>3. g[k] \in 1..Len(ws) - n /\ g[k] + n = f[k + 1]
      <3> DEFINE y == f[k + 1]
      <3>1. y \in 1..Len(ws) /\ y > n /\ g[k] = y - n
        BY <1>8, <2>2
      <3> HIDE DEF y
      <3>2. y - n \in 1..Len(ws) - n /\ (y - n) + n = y
        BY <1>1, <3>1
      <3>3. QED
        BY <3>1, <3>2 DEF y
    <2>4. QED
      BY <2>1, <2>3
  <1>16. us[1] = ws[n] /\ us # <<>>
    <2>1. 1 \in 1..m
      BY <1>2, <1>7
    <2>2. us[1] = ws[f[1]]
      BY <1>3, <2>1 DEF Follows
    <2>3. QED
      BY <1>2, <1>7, <2>2
  <1>17. QED
    BY <1>2, <1>7, <1>14, <1>15, <1>16 DEF us

LEMMA RemoveAtIs ==
  ASSUME NEW T, NEW us \in Seq(T), NEW k \in 1..Len(us)
  PROVE  /\ RemoveAt(us, k) \in Seq(T) /\ Len(RemoveAt(us, k)) = Len(us) - 1
         /\ \A j \in 1..Len(us) - 1 : RemoveAt(us, k)[j] = IF j < k THEN us[j] ELSE us[j + 1]
  <1> DEFINE s1 == SubSeq(us, 1, k - 1)
             s2 == SubSeq(us, k + 1, Len(us))
  <1>1. /\ Len(us) \in Nat /\ k \in Int /\ 1 <= k /\ k <= Len(us)
    OBVIOUS
  <1>2. /\ s1 \in Seq(T) /\ Len(s1) = k - 1 /\ \A j \in 1..k - 1 : s1[j] = us[j]
    BY <1>1
  <1>3. /\ s2 \in Seq(T) /\ Len(s2) = Len(us) - k /\ \A j \in 1..Len(us) - k : s2[j] = us[j + k]
    BY <1>1
  <1>4. RemoveAt(us, k) = s1 \o s2
    BY DEF RemoveAt
  <1> HIDE DEF s1, s2
  <1>5. /\ s1 \o s2 \in Seq(T) /\ Len(s1 \o s2) = Len(s1) + Len(s2)
        /\ \A j \in 1..Len(s1) + Len(s2) :
             (s1 \o s2)[j] = IF j <= Len(s1) THEN s1[j] ELSE s2[j - Len(s1)]
    BY <1>2, <1>3, ConcatProperties
  <1>6. Len(s1) + Len(s2) = Len(us) - 1 /\ Len(s1) = k - 1
    BY <1>1, <1>2, <1>3
  <1>7. ASSUME NEW j \in 1..Len(us) - 1
        PROVE  RemoveAt(us, k)[j] = IF j < k THEN us[j] ELSE us[j + 1]
    <2>1. RemoveAt(us, k)[j] = IF j <= k - 1 THEN s1[j] ELSE s2[j - (k - 1)]
      BY <1>4, <1>5, <1>6
    <2>2. CASE j < k
      <3>1. j \in 1..k - 1 /\ j <= k - 1
        BY <1>1, <2>2
      <3>2. QED
        BY <1>2, <2>1, <2>2, <3>1
    <2>3. CASE ~(j < k)
      <3>1. /\ j - (k - 1) \in 1..Len(us) - k /\ ~(j <= k - 1)
            /\ (j - (k - 1)) + k = j + 1
        BY <1>1, <2>3
      <3>2. s2[j - (k - 1)] = us[j + 1]
        BY <1>3, <3>1
      <3>3. QED
        BY <2>1, <2>3, <3>1, <3>2
    <2>4. QED
      BY <2>2, <2>3
  <1>8. QED
    BY <1>4, <1>5, <1>6, <1>7

(* S2 has what S has in ws but for the place p. *)
AllBut(ws, S, p, S2) == \A i \in 1..Len(ws) : ws[i] \in S2 <=> (ws[i] \in S /\ i # p)

(* One that is not kept any more. *)
LEMMA SelectedWithout ==
  ASSUME NEW T, NEW ws \in Seq(T), NEW S, NEW S2, NEW p \in 1..Len(ws), ws[p] \in S,
         AllBut(ws, S, p, S2)
  PROVE  \E k \in 1..Len(Selected(ws, S)) :
           Selected(ws, S)[k] = ws[p] /\ Selected(ws, S2) = RemoveAt(Selected(ws, S), k)
  <1> DEFINE us == Selected(ws, S)
             m == Len(us)
  <1>1. Len(ws) \in Nat /\ DOMAIN ws = 1..Len(ws)
    OBVIOUS
  <1>2. m \in Nat /\ us \in Seq(T) /\ Len(us) = m
    BY SelectedHas
  <1>3. PICK f : Lists(f, m, Places(ws, S)) /\ Follows(us, ws, f, m)
    BY SelectedHas
  <1> HIDE DEF us, m
  <1>4. /\ f \in [1..m -> Places(ws, S)]
        /\ \A i, j \in 1..m : i < j => f[i] < f[j]
        /\ \A y \in Places(ws, S) : \E i \in 1..m : f[i] = y
    BY <1>3 DEF Lists
  <1>5. Places(ws, S2) = Places(ws, S) \ {p} /\ p \in Places(ws, S)
    BY <1>1 DEF Places, AllBut
  <1>6. PICK k \in 1..m : f[k] = p
    BY <1>4, <1>5
  <1>7. \A y \in Places(ws, S) : y \in Int
    BY <1>1 DEF Places
  <1> DEFINE g == [j \in 1..m - 1 |-> IF j < k THEN f[j] ELSE f[j + 1]]
  <1>8. \A j \in 1..m - 1 : j \in 1..m /\ j + 1 \in 1..m
    BY <1>2
  <1>9. \A i, j \in 1..m : f[i] = f[j] => i = j
    <2>1. SUFFICES ASSUME NEW i \in 1..m, NEW j \in 1..m, f[i] = f[j], i # j PROVE FALSE
      OBVIOUS
    <2>2. i < j \/ j < i
      BY <2>1
    <2>3. f[i] < f[j] \/ f[j] < f[i]
      BY <1>4, <2>2
    <2>4. f[i] \in Int /\ f[j] \in Int
      BY <1>4, <1>7
    <2>5. QED
      BY <2>1, <2>3, <2>4
  <1>10. g \in [1..m - 1 -> Places(ws, S2)]
    <2>1. SUFFICES ASSUME NEW j \in 1..m - 1 PROVE g[j] \in Places(ws, S) /\ g[j] # p
      BY <1>5
    <2>2. CASE j < k
      <3>1. g[j] = f[j] /\ j # k
        BY <2>2
      <3>2. QED
        BY <1>4, <1>6, <1>8, <1>9, <3>1
    <2>3. CASE ~(j < k)
      <3>1. g[j] = f[j + 1] /\ j + 1 # k
        BY <2>3
      <3>2. QED
        BY <1>4, <1>6, <1>8, <1>9, <3>1
    <2>4. QED
      BY <2>2, <2>3
  <1>11. \A i, j \in 1..m - 1 : i < j => g[i] < g[j]
    <2>1. SUFFICES ASSUME NEW i \in 1..m - 1, NEW j \in 1..m - 1, i < j PROVE g[i] < g[j]
      OBVIOUS
    <2>2. CASE j < k
      <3>1. g[i] = f[i] /\ g[j] = f[j]
        BY <2>1, <2>2
      <3>2. QED
        BY <1>4, <1>8, <2>1, <3>1
    <2>3. CASE ~(j < k) /\ i < k
      <3>1. g[i] = f[i] /\ g[j] = f[j + 1] /\ i < j + 1
        BY <2>1, <2>3
      <3>2. QED
        BY <1>4, <1>8, <3>1
    <2>4. CASE ~(i < k)
      <3>1. g[i] = f[i + 1] /\ g[j] = f[j + 1] /\ i + 1 < j + 1
        BY <2>1, <2>4
      <3>2. QED
        BY <1>4, <1>8, <3>1
    <2>5. QED
      BY <2>2, <2>3, <2>4
  <1>12. \A y \in Places(ws, S2) : \E i \in 1..m - 1 : g[i] = y
    <2>1. SUFFICES ASSUME NEW y \in Places(ws, S), y # p PROVE \E i \in 1..m - 1 : g[i] = y
      BY <1>5
    <2>2. PICK i \in 1..m : f[i] = y
      BY <1>4
    <2>3. i # k
      BY <1>6, <2>1, <2>2
    <2>4. CASE i < k
      <3>1. i \in 1..m - 1
        BY <1>2, <2>4
      <3>2. g[i] = y
        BY <2>2, <2>4, <3>1
      <3>3. QED
        BY <3>1, <3>2
    <2>5. CASE ~(i < k)
      <3>1. i - 1 \in 1..m - 1 /\ ~(i - 1 < k) /\ (i - 1) + 1 = i
        BY <1>2, <2>3, <2>5
      <3>2. g[i - 1] = y
        BY <2>2, <3>1
      <3>3. QED
        BY <3>1, <3>2
    <2>6. QED
      BY <2>4, <2>5
  <1>13. Lists(g, m - 1, Places(ws, S2))
    BY <1>10, <1>11, <1>12 DEF Lists
  <1>14. m - 1 \in Nat
    BY <1>2
  <1> HIDE DEF g
  <1>15. /\ Follows(Selected(ws, S2), ws, g, m - 1) /\ Selected(ws, S2) \in Seq(T)
         /\ Len(Selected(ws, S2)) = m - 1
    BY <1>13, <1>14, SelectedIs
  <1>16. /\ RemoveAt(us, k) \in Seq(T) /\ Len(RemoveAt(us, k)) = m - 1
         /\ \A j \in 1..m - 1 : RemoveAt(us, k)[j] = IF j < k THEN us[j] ELSE us[j + 1]
    BY <1>2, RemoveAtIs
  <1>17. ASSUME NEW j \in 1..m - 1 PROVE Selected(ws, S2)[j] = RemoveAt(us, k)[j]
    <2>1. Selected(ws, S2)[j] = ws[g[j]]
      BY <1>15 DEF Follows
    <2>2. us[j] = ws[f[j]] /\ us[j + 1] = ws[f[j + 1]]
      BY <1>3, <1>8 DEF Follows
    <2>3. g[j] = IF j < k THEN f[j] ELSE f[j + 1]
      BY DEF g
    <2>4. QED
      BY <1>16, <2>1, <2>2, <2>3
  <1>18. Selected(ws, S2) = RemoveAt(us, k)
    BY <1>15, <1>16, <1>17, SeqEqual
  <1>19. us[k] = ws[p]
    BY <1>3, <1>6 DEF Follows
  <1>20. QED
    BY <1>2, <1>6, <1>18, <1>19 DEF us

(* What is kept stands there once if it did before. *)
LEMMA SelectedApart ==
  ASSUME NEW T, NEW ws \in Seq(T), NEW S, \A i, j \in DOMAIN ws : ws[i] = ws[j] => i = j
  PROVE  \A k, l \in DOMAIN Selected(ws, S) : Selected(ws, S)[k] = Selected(ws, S)[l] => k = l
  <1> DEFINE us == Selected(ws, S)
             m == Len(us)
  <1>1. m \in Nat /\ us \in Seq(T) /\ DOMAIN us = 1..m
    BY SelectedHas
  <1>2. PICK f : Lists(f, m, Places(ws, S)) /\ Follows(us, ws, f, m)
    BY SelectedHas
  <1> HIDE DEF us, m
  <1>3. /\ f \in [1..m -> Places(ws, S)]
        /\ \A i, j \in 1..m : i < j => f[i] < f[j]
    BY <1>2 DEF Lists
  <1>4. \A k \in 1..m : f[k] \in DOMAIN ws /\ us[k] = ws[f[k]] /\ f[k] \in Int
    BY <1>2, <1>3 DEF Places, Follows
  <1>5. ASSUME NEW k \in 1..m, NEW l \in 1..m, us[k] = us[l] PROVE k = l
    <2>1. f[k] = f[l]
      BY <1>4, <1>5
    <2>2. ~(k < l) /\ ~(l < k)
      BY <1>3, <1>4, <2>1
    <2>3. QED
      BY <1>1, <2>2
  <1>6. QED
    BY <1>1, <1>5 DEF us
(* Two items of it stand in the order they have in ws. *)
LEMMA SelectedOrder ==
  ASSUME NEW T, NEW ws \in Seq(T), NEW S
  PROVE  \A k, l \in DOMAIN Selected(ws, S) : k < l =>
           \E i, j \in DOMAIN ws :
             i < j /\ Selected(ws, S)[k] = ws[i] /\ Selected(ws, S)[l] = ws[j]
  <1> DEFINE us == Selected(ws, S)
             m == Len(us)
  <1>1. m \in Nat /\ us \in Seq(T) /\ DOMAIN us = 1..m
    BY SelectedHas
  <1>2. PICK f : Lists(f, m, Places(ws, S)) /\ Follows(us, ws, f, m)
    BY SelectedHas
  <1> HIDE DEF us, m
  <1>3. /\ f \in [1..m -> Places(ws, S)]
        /\ \A i, j \in 1..m : i < j => f[i] < f[j]
    BY <1>2 DEF Lists
  <1>4. \A k \in 1..m : f[k] \in DOMAIN ws /\ us[k] = ws[f[k]]
    BY <1>2, <1>3 DEF Places, Follows
  <1>5. ASSUME NEW k \in 1..m, NEW l \in 1..m, k < l
        PROVE  \E i, j \in DOMAIN ws : i < j /\ us[k] = ws[i] /\ us[l] = ws[j]
    BY <1>3, <1>4, <1>5
  <1>6. QED
    BY <1>1, <1>5 DEF us

(* The first n places of a sequence that does not repeat hold as many      *)
(* members of S as there are places that hold one.                         *)
Held(ws, n, S) == {x \in S : \E i \in 1..n : ws[i] = x}

LEMMA HeldCounted ==
  ASSUME NEW T, NEW ws \in Seq(T), \A i, j \in DOMAIN ws : ws[i] = ws[j] => i = j,
         NEW n \in 0..Len(ws), NEW S
  PROVE  /\ IsFiniteSet(Held(ws, n, S)) /\ Cardinality(Held(ws, n, S)) \in Nat
         /\ Cardinality({i \in 1..n : ws[i] \in S}) = Cardinality(Held(ws, n, S))
  <1> DEFINE at == {i \in 1..n : ws[i] \in S}
             f == [i \in at |-> ws[i]]
             xs == Held(ws, n, S)
  <1>1. IsFiniteSet(at)
    <2>1. IsFiniteSet(1..n)
      BY FS_Interval
    <2>2. QED
      BY <2>1, FS_Subset
  <1>2. at \subseteq DOMAIN ws
    OBVIOUS
  <1>3. f \in Bijection(at, xs)
    <2>1. f \in [at -> xs]
      BY DEF Held
    <2>2. \A i, j \in at : f[i] = f[j] => i = j
      BY <1>2
    <2>3. \A x \in xs : \E i \in at : f[i] = x
      BY DEF Held
    <2> HIDE DEF f, at, xs
    <2>4. f \in Injection(at, xs)
      BY <2>1, <2>2 DEF Injection, IsInjective
    <2>5. f \in Surjection(at, xs)
      BY <2>1, <2>3 DEF Surjection
    <2>6. QED
      BY <2>4, <2>5 DEF Bijection
  <1>4. ExistsBijection(at, xs)
    BY <1>3 DEF ExistsBijection
  <1> HIDE DEF at, xs
  <1>5. IsFiniteSet(xs) /\ Cardinality(at) = Cardinality(xs)
    BY <1>1, <1>4, FS_Bijection
  <1>6. QED
    BY <1>5, FS_CardinalityType DEF at, xs

(* A sequence without its first k items.                                   *)
LEMMA RestIs ==
  ASSUME NEW S, NEW s \in Seq(S), NEW k \in Nat, k <= Len(s)
  PROVE  LET r == SubSeq(s, k + 1, Len(s)) IN
         /\ r \in Seq(S) /\ Len(r) = Len(s) - k /\ Len(r) \in Nat /\ DOMAIN r = 1..Len(r)
         /\ \A j \in 1..Len(r) : r[j] = s[k + j] /\ k + j \in 1..Len(s)
  <1> DEFINE n == Len(s)
             r == SubSeq(s, k + 1, n)
  <1>1. n \in Nat /\ DOMAIN s = 1..n
    BY LenProperties
  <1>2. \A i \in (k + 1)..n : s[i] \in S
    BY <1>1, ElementOfSeq
  <1> HIDE DEF n
  <1>3. k + 1 \in Int /\ n \in Int
    BY <1>1
  <1>4. /\ r \in Seq(S)
        /\ Len(r) = IF k + 1 <= n THEN n - (k + 1) + 1 ELSE 0
        /\ \A i \in 1..n - (k + 1) + 1 : r[i] = s[k + 1 + i - 1]
    BY <1>2, <1>3, SubSeqProperties
  <1>5. k <= n
    BY DEF n
  <1> HIDE DEF r
  <1> DEFINE m == Len(r)
  <1>6. m = IF k + 1 <= n THEN n - (k + 1) + 1 ELSE 0
    BY <1>4
  <1> HIDE DEF m
  <1>7. m = n - k /\ m \in Nat /\ n - (k + 1) + 1 = m
    BY <1>1, <1>5, <1>6
  <1>8. ASSUME NEW j \in 1..m PROVE r[j] = s[k + j] /\ k + j \in 1..n
    <2>1. k + j \in 1..n /\ k + 1 + j - 1 = k + j
      BY <1>1, <1>7
    <2>2. r[j] = s[k + 1 + j - 1]
      BY <1>4, <1>7
    <2>3. QED
      BY <2>1, <2>2
  <1>9. DOMAIN r = 1..Len(r)
    BY <1>4, LenProperties
  <1>10. QED
    BY <1>4, <1>7, <1>8, <1>9 DEF m, n, r

(* A set whose members are all the same.                                   *)
LEMMA AtMostOne ==
  ASSUME NEW S, IsFiniteSet(S), \A k, l \in S : k = l
  PROVE  Cardinality(S) <= 1
  <1>1. CASE S = {}
    BY <1>1, FS_EmptySet
  <1>2. CASE S # {}
    <2>1. PICK k : S = {k}
      BY <1>2
    <2>2. Cardinality(S) = 1
      BY <2>1, FS_Singleton
    <2>3. QED
      BY <2>2
  <1>3. QED
    BY <1>1, <1>2

(* Multiples of m grow.                                                    *)
LEMMA Multiples ==
  ASSUME NEW m \in Nat, NEW k \in Nat
  PROVE  /\ m * k \in Nat /\ m * (k + 1) = m * k + m
         /\ \A l \in Nat : k <= l => m * k <= m * l
  OBVIOUS
=============================================================================

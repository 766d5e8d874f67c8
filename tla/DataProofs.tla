----------------------------- MODULE DataProofs -----------------------------
(***************************************************************************)
(* Facts about data that the proofs of several modules need: induction     *)
(* over natural numbers and over the subsets of a finite set, and folds,   *)
(* whose value is shown not to depend on the order of the elements.        *)
(*                                                                         *)
(* The provers cannot instantiate a theorem whose parameter is an          *)
(* operator, so that a predicate is a set here, and what a fold does with  *)
(* an element is a function: step[d][v] is v combined with element d.      *)
(***************************************************************************)
EXTENDS Naturals, FiniteSets, FiniteSetsExt, FiniteSetTheorems, WellFoundedInduction, TLAPS

-----------------------------------------------------------------------------
(* Natural numbers: a set of them has a least element, ...                 *)
LEMMA LeastOf ==
    ASSUME NEW T, T \subseteq Nat, T # {}
    PROVE  Min(T) \in T /\ \A y \in T : Min(T) <= y
<1> DEFINE R == {s \in Nat \X Nat : s[1] < s[2]}
<1>1. IsWellFoundedOn(R, Nat)
  BY NatLessThanWellFounded DEF OpToRel
<1>2. \E x \in T : \A y \in T : ~(<<y, x>> \in R)
  BY <1>1, WFMin
<1>3. \E x \in T : \A y \in T : ~(y < x)
  BY <1>2
<1>4. \E x \in T : \A y \in T : x <= y
  BY <1>3
<1> QED
  BY <1>4 DEF Min

(* What is in a set of numbers and below all of it is its minimum.         *)
LEMMA MinIs == ASSUME NEW T, T \subseteq Nat, NEW m \in T, \A y \in T : m <= y PROVE Min(T) = m
<1>1. Min(T) \in T /\ Min(T) <= m
  BY LeastOf
<1>2. m <= Min(T) /\ m \in Nat /\ Min(T) \in Nat
  BY <1>1
<1> QED
  BY <1>1, <1>2

(* ... so that what holds of 0 and passes from each to the next holds of   *)
(* all.                                                                    *)
LEMMA Induction ==
    ASSUME NEW S, 0 \in S, \A n \in Nat : n \in S => n + 1 \in S
    PROVE  Nat \subseteq S
<1> DEFINE T == Nat \ S
<1> SUFFICES ASSUME T # {} PROVE FALSE
  OBVIOUS
<1>1. PICK x \in T : \A y \in T : x <= y
  BY LeastOf
<1>2. x \in Nat /\ x # 0 /\ x - 1 \in Nat /\ ~(x <= x - 1) /\ (x - 1) + 1 = x
  OBVIOUS
<1> QED
  BY <1>1, <1>2

(* The size of a set that loses an element.                                *)
LEMMA OneLess ==
    ASSUME NEW D, IsFiniteSet(D), NEW t \in SUBSET D, NEW d \in t
    PROVE  /\ t \ {d} \in SUBSET D
           /\ Cardinality(t) \in Nat /\ Cardinality(t \ {d}) \in Nat
           /\ Cardinality(t) = Cardinality(t \ {d}) + 1
<1>1. IsFiniteSet(t)
  BY FS_Subset
<1>2. Cardinality(t) \in Nat /\ Cardinality(t) # 0
  BY <1>1, FS_CardinalityType, FS_EmptySet
<1>3. IsFiniteSet(t \ {d}) /\ Cardinality(t \ {d}) = Cardinality(t) - 1
  BY <1>1, FS_RemoveElement
<1> QED
  BY <1>2, <1>3

(* Induction over the subsets of a finite set: what passes to a set from   *)
(* the sets with one element less holds of all.                            *)
LEMMA SubsetInduction ==
    ASSUME NEW D, IsFiniteSet(D), NEW S,
           {} \in S,
           \A t \in SUBSET D : t # {} /\ (\A d \in t : t \ {d} \in S) => t \in S
    PROVE  SUBSET D \subseteq S
<1> DEFINE N == {m \in Nat : \A t \in SUBSET D : Cardinality(t) = m => t \in S}
<1>1. 0 \in N
  <2> SUFFICES ASSUME NEW t \in SUBSET D, Cardinality(t) = 0 PROVE t \in S
    OBVIOUS
  <2>1. t = {}
    BY FS_Subset, FS_EmptySet
  <2> QED
    BY <2>1
<1>2. ASSUME NEW m \in Nat, m \in N PROVE m + 1 \in N
  <2> SUFFICES ASSUME NEW t \in SUBSET D, Cardinality(t) = m + 1 PROVE t \in S
    OBVIOUS
  <2>1. t # {}
    BY FS_EmptySet
  <2>2. ASSUME NEW d \in t PROVE t \ {d} \in S
    <3>1. t \ {d} \in SUBSET D /\ Cardinality(t \ {d}) = m
      BY OneLess
    <3> QED
      BY <3>1, <1>2
  <2> QED
    BY <2>1, <2>2
<1>3. Nat \subseteq N
  <2>1. \A m \in Nat : m \in N => m + 1 \in N
    BY <1>2
  <2> HIDE DEF N
  <2> QED
    BY <1>1, <2>1, Induction
<1>4. ASSUME NEW t \in SUBSET D PROVE t \in S
  <2>1. Cardinality(t) \in Nat
    BY FS_Subset, FS_CardinalityType
  <2> QED
    BY <1>3, <2>1
<1> QED
  BY <1>4

(* A set of numbers up to n has a greatest element.                        *)
LEMMA GreatestOf ==
    ASSUME NEW n \in Nat, NEW T, T \subseteq 1..n, T # {}
    PROVE  Max(T) \in T /\ \A y \in T : Max(T) >= y
<1> DEFINE U == {n - x : x \in T}
<1>1. U \subseteq Nat /\ U # {}
  OBVIOUS
<1>2. Min(U) \in U /\ \A y \in U : Min(U) <= y
  <2> HIDE DEF U
  <2> QED
    BY <1>1, LeastOf
<1>3. PICK x \in T : Min(U) = n - x
  BY <1>2
<1>4. \A y \in T : n - x <= n - y
  <2>1. \A y \in T : n - y \in U
    OBVIOUS
  <2> HIDE DEF U
  <2> QED
    BY <1>2, <1>3, <2>1
<1>5. \A y \in T : x >= y
  <2> SUFFICES ASSUME NEW y \in T PROVE x >= y
    OBVIOUS
  <2>1. x \in Nat /\ y \in Nat /\ n - x <= n - y
    BY <1>4
  <2> QED
    BY <2>1
<1> QED
  BY <1>5 DEF Max

(* The prefixes of 1..n.                                                   *)
LEMMA LastOf ==
    ASSUME NEW k \in Nat
    PROVE  Max(1..(k + 1)) = k + 1 /\ (1..(k + 1)) \ {k + 1} = 1..k /\ 1..(k + 1) # {}
<1>1. k + 1 \in 1..(k + 1) /\ \A y \in 1..(k + 1) : k + 1 >= y
  OBVIOUS
<1>2. \A x \in 1..(k + 1) : (\A y \in 1..(k + 1) : x >= y) => x = k + 1
  BY <1>1
<1>3. Max(1..(k + 1)) = k + 1
  BY <1>1, <1>2 DEF Max
<1> QED
  BY <1>1, <1>3

-----------------------------------------------------------------------------
(* The fold of MapThenFoldSet: it takes an element of the set, any one,    *)
(* and goes on with the rest.                                              *)
Taken(t) == CHOOSE x \in t : TRUE
FoldBody(step, base, g, t) ==
    IF t = {} THEN base ELSE step[Taken(t)][g[t \ {Taken(t)}]]
IsFold(g, step, base, D) == g = [t \in SUBSET D |-> FoldBody(step, base, g, t)]
TypedFold(g, step, base, D, V) ==
    IsFiniteSet(D) /\ step \in [D -> [V -> V]] /\ base \in V /\ IsFold(g, step, base, D)

(* h is defined as the fold is, for values of the type at least.           *)
Follows(h, step, base, D, V) ==
    /\ h[{}] = base
    /\ \A t \in SUBSET D : t # {} /\ h[t \ {Taken(t)}] \in V =>
                                h[t] = step[Taken(t)][h[t \ {Taken(t)}]]

(* The order of two steps does not matter.                                 *)
Commutes(step, D, V) ==
    \A c, d \in D : \A v \in V : step[c][step[d][v]] = step[d][step[c][v]]

(* It is one of them.                                                      *)
LEMMA TakenIsIn == \A t : t # {} => Taken(t) \in t
BY DEF Taken

(* The recursion has a solution, whichever element is taken: set by set,   *)
(* from the smallest up.                                                   *)
TakeBody(take, step, base, g, t) ==
    IF t = {} THEN base ELSE step[take[t]][g[t \ {take[t]}]]

Takes(take, D) == \A t \in SUBSET D : t # {} => take[t] \in t
IsRecursion(g, take, step, base, D) == g = [t \in SUBSET D |-> TakeBody(take, step, base, g, t)]

(* There is such a function.                                               *)
LEMMA RecursionExists ==
    ASSUME NEW D, IsFiniteSet(D), NEW take, Takes(take, D),
           NEW step, NEW base
    PROVE  \E g : IsRecursion(g, take, step, base, D)
<1> DEFINE Solved(g, m) == \A t \in SUBSET D : Cardinality(t) <= m =>
                               g[t] = TakeBody(take, step, base, g, t)
           N == {m \in Nat : \E g : Solved(g, m)}
<1> USE DEF Takes
<1>0. \A t \in SUBSET D : Cardinality(t) \in Nat
  BY FS_Subset, FS_CardinalityType
<1>1. 0 \in N
  <2> DEFINE g == [t \in SUBSET D |-> base]
  <2>1. ASSUME NEW t \in SUBSET D, Cardinality(t) <= 0
        PROVE  g[t] = TakeBody(take, step, base, g, t)
    <3>1. Cardinality(t) = 0
      BY <1>0, <2>1
    <3>2. t = {}
      BY <3>1, FS_Subset, FS_EmptySet
    <3> QED
      BY <3>2 DEF TakeBody
  <2> HIDE DEF g
  <2> QED
    BY <2>1
<1>2. ASSUME NEW m \in Nat, m \in N PROVE m + 1 \in N
  <2>1. PICK g : Solved(g, m)
    BY <1>2
  <2> DEFINE h == [t \in SUBSET D |-> TakeBody(take, step, base, g, t)]
  <2>2. ASSUME NEW t \in SUBSET D, Cardinality(t) <= m + 1
        PROVE  h[t] = TakeBody(take, step, base, h, t)
    <3>1. CASE t = {}
      BY <3>1 DEF TakeBody
    <3>2. CASE t # {}
      <4> DEFINE r == t \ {take[t]}
      <4>1. r \in SUBSET D /\ Cardinality(t) = Cardinality(r) + 1
        BY <3>2, OneLess
      <4>2. Cardinality(r) <= m
        <5> HIDE DEF r
        <5> QED
          BY <1>0, <2>2, <4>1
      <4>3. h[r] = TakeBody(take, step, base, g, r) /\ g[r] = TakeBody(take, step, base, g, r)
        <5> HIDE DEF r
        <5> QED
          BY <2>1, <4>1, <4>2
      <4>4. h[t] = TakeBody(take, step, base, g, t)
        OBVIOUS
      <4> HIDE DEF h
      <4> QED
        BY <3>2, <4>3, <4>4 DEF TakeBody
    <3> QED
      BY <3>1, <3>2
  <2> HIDE DEF h
  <2> QED
    BY <2>2
<1>3. Cardinality(D) \in N
  <2>1. \A m \in Nat : m \in N => m + 1 \in N
    BY <1>2
  <2> HIDE DEF N
  <2> QED
    BY <1>0, <1>1, <2>1, Induction
<1>4. PICK g : Solved(g, Cardinality(D))
  BY <1>3
<1> DEFINE h == [t \in SUBSET D |-> g[t]]
<1>5. ASSUME NEW t \in SUBSET D PROVE h[t] = TakeBody(take, step, base, h, t)
  <2>1. Cardinality(t) <= Cardinality(D)
    BY FS_Subset
  <2>2. g[t] = TakeBody(take, step, base, g, t)
    BY <1>4, <2>1
  <2>3. h[t] = g[t] /\ \A d : h[t \ {d}] = g[t \ {d}]
    OBVIOUS
  <2> HIDE DEF h
  <2> QED
    BY <2>2, <2>3 DEF TakeBody
<1>6. h = [t \in SUBSET D |-> TakeBody(take, step, base, h, t)]
  <2>1. h = [t \in SUBSET D |-> h[t]]
    OBVIOUS
  <2> HIDE DEF h
  <2> QED
    BY <2>1, <1>5
<1> HIDE DEF h
<1> QED
  BY <1>6 DEF IsRecursion

(* In particular, the fold of MapThenFoldSet is there.                     *)
LEMMA FoldExists ==
    ASSUME NEW D, IsFiniteSet(D), NEW step, NEW base
    PROVE  \E g : IsFold(g, step, base, D)
<1> DEFINE take == [t \in SUBSET D |-> Taken(t)]
<1>1. \A t \in SUBSET D : take[t] = Taken(t)
  OBVIOUS
<1>2. Takes(take, D)
  BY <1>1, TakenIsIn DEF Takes
<1> HIDE DEF take
<1>3. PICK g : IsRecursion(g, take, step, base, D)
  BY <1>2, RecursionExists
<1>4. \A t \in SUBSET D : TakeBody(take, step, base, g, t) = FoldBody(step, base, g, t)
  BY <1>1 DEF TakeBody, FoldBody
<1>5. g = [t \in SUBSET D |-> FoldBody(step, base, g, t)]
  BY <1>3, <1>4 DEF IsRecursion
<1> QED
  BY <1>5 DEF IsFold

(* What it does for each set.                                              *)
LEMMA FoldAt ==
    ASSUME NEW D, NEW step, NEW base, NEW g, IsFold(g, step, base, D)
    PROVE  /\ g[{}] = base
           /\ \A t \in SUBSET D : t # {} => g[t] = step[Taken(t)][g[t \ {Taken(t)}]]
<1>1. \A t \in SUBSET D : g[t] = FoldBody(step, base, g, t)
  BY DEF IsFold
<1>2. g[{}] = base
  BY <1>1 DEF FoldBody
<1>3. \A t \in SUBSET D : t # {} => g[t] = step[Taken(t)][g[t \ {Taken(t)}]]
  BY <1>1 DEF FoldBody
<1> QED
  BY <1>2, <1>3

(* Its values are of the type of the base and of the steps.                *)
LEMMA FoldType ==
    ASSUME NEW D, NEW V, NEW step, NEW base, NEW g, TypedFold(g, step, base, D, V)
    PROVE  g \in [SUBSET D -> V]
<1>t. IsFiniteSet(D) /\ step \in [D -> [V -> V]] /\ base \in V /\ IsFold(g, step, base, D)
  BY DEF TypedFold
<1>a. g[{}] = base /\ \A t \in SUBSET D : t # {} => g[t] = step[Taken(t)][g[t \ {Taken(t)}]]
  BY <1>t, FoldAt
<1> DEFINE S == {t \in SUBSET D : g[t] \in V}
<1>1. {} \in S
  BY <1>t, <1>a
<1>2. ASSUME NEW t \in SUBSET D, t # {}, \A d \in t : t \ {d} \in S PROVE t \in S
  <2>1. Taken(t) \in t /\ g[t \ {Taken(t)}] \in V
    BY <1>2, TakenIsIn
  <2>2. g[t] = step[Taken(t)][g[t \ {Taken(t)}]]
    BY <1>2, <1>a
  <2> QED
    BY <1>t, <2>1, <2>2
<1>3. SUBSET D \subseteq S
  <2>1. \A t \in SUBSET D : t # {} /\ (\A d \in t : t \ {d} \in S) => t \in S
    BY <1>2
  <2> HIDE DEF S
  <2> QED
    BY <1>t, <1>1, <2>1, SubsetInduction
<1> QED
  BY <1>t, <1>3 DEF IsFold

(* Two folds agree where their steps do: one of them may be defined on a   *)
(* larger set, and need do its step only for values of the type.           *)
LEMMA FoldsAgree ==
    ASSUME NEW D, NEW V, NEW step, NEW base, NEW g, TypedFold(g, step, base, D, V),
           NEW h, Follows(h, step, base, D, V)
    PROVE  \A t \in SUBSET D : h[t] = g[t]
<1>t. IsFiniteSet(D) /\ step \in [D -> [V -> V]] /\ base \in V /\ IsFold(g, step, base, D)
  BY DEF TypedFold
<1>a. g[{}] = base /\ \A t \in SUBSET D : t # {} => g[t] = step[Taken(t)][g[t \ {Taken(t)}]]
  BY <1>t, FoldAt
<1>b. g \in [SUBSET D -> V]
  BY FoldType
<1> DEFINE S == {t \in SUBSET D : h[t] = g[t]}
<1>1. {} \in S
  BY <1>a DEF Follows
<1>2. ASSUME NEW t \in SUBSET D, t # {}, \A d \in t : t \ {d} \in S PROVE t \in S
  <2>1. Taken(t) \in t /\ h[t \ {Taken(t)}] = g[t \ {Taken(t)}]
    BY <1>2, TakenIsIn
  <2>2. g[t \ {Taken(t)}] \in V
    BY <1>b
  <2>3. g[t] = step[Taken(t)][g[t \ {Taken(t)}]]
    BY <1>2, <1>a
  <2> QED
    BY <1>2, <2>1, <2>2, <2>3 DEF Follows
<1>3. SUBSET D \subseteq S
  <2>1. \A t \in SUBSET D : t # {} /\ (\A d \in t : t \ {d} \in S) => t \in S
    BY <1>2
  <2> HIDE DEF S
  <2> QED
    BY <1>t, <1>1, <2>1, SubsetInduction
<1> QED
  BY <1>3

(* If the steps commute, any element may be taken first.                   *)
LEMMA FoldAny ==
    ASSUME NEW D, NEW V, NEW step, NEW base, NEW g, TypedFold(g, step, base, D, V),
           Commutes(step, D, V), NEW e \in D
    PROVE  g[D] = step[e][g[D \ {e}]]
<1>t. IsFiniteSet(D) /\ step \in [D -> [V -> V]] /\ base \in V /\ IsFold(g, step, base, D)
  BY DEF TypedFold
<1>a. g[{}] = base /\ \A t \in SUBSET D : t # {} => g[t] = step[Taken(t)][g[t \ {Taken(t)}]]
  BY <1>t, FoldAt
<1>b. g \in [SUBSET D -> V]
  BY FoldType
<1> DEFINE S == {t \in SUBSET D : \A d \in t : g[t] = step[d][g[t \ {d}]]}
<1>1. {} \in S
  OBVIOUS
<1>2. ASSUME NEW t \in SUBSET D, t # {}, \A d \in t : t \ {d} \in S PROVE t \in S
  <2> DEFINE c == Taken(t)
  <2>1. c \in t /\ g[t] = step[c][g[t \ {c}]]
    BY <1>2, TakenIsIn, <1>a
  <2> HIDE DEF c
  <2>2. ASSUME NEW d \in t PROVE g[t] = step[d][g[t \ {d}]]
    <3>1. CASE d = c
      BY <2>1, <3>1
    <3>2. CASE d # c
      <4> DEFINE r == (t \ {c}) \ {d}
      <4>1. r = (t \ {d}) \ {c} /\ r \in SUBSET D
        OBVIOUS
      <4>2. t \ {c} \in S /\ t \ {d} \in S /\ d \in t \ {c} /\ c \in t \ {d}
        BY <1>2, <2>1, <3>2
      <4>3. g[t \ {c}] = step[d][g[r]]
        BY <4>2
      <4>4. g[t \ {d}] = step[c][g[r]]
        BY <4>1, <4>2
      <4>5. g[r] \in V
        <5> HIDE DEF r
        <5> QED
          BY <4>1, <1>b
      <4> HIDE DEF r
      <4>6. step[c][step[d][g[r]]] = step[d][step[c][g[r]]]
        BY <2>1, <4>5 DEF Commutes
      <4> QED
        BY <2>1, <4>3, <4>4, <4>6
    <3> QED
      BY <3>1, <3>2
  <2> QED
    BY <2>2
<1>3. SUBSET D \subseteq S
  <2>1. \A t \in SUBSET D : t # {} /\ (\A d \in t : t \ {d} \in S) => t \in S
    BY <1>2
  <2> HIDE DEF S
  <2> QED
    BY <1>t, <1>1, <2>1, SubsetInduction
<1> QED
  BY <1>3

-----------------------------------------------------------------------------
(* FoldLeft: the fold over 1..n that takes the greatest element, and so    *)
(* ends with it.  Its values for the prefixes of 1..n are what it has when *)
(* it has come so far.                                                     *)
LeftFold(g, step, base, n, V) ==
    /\ g \in [SUBSET (1..n) -> V] /\ g[{}] = base
    /\ \A t \in SUBSET (1..n) : t # {} =>
           /\ Max(t) \in t
           /\ g[t \ {Max(t)}] \in V /\ g[t] = step[Max(t)][g[t \ {Max(t)}]]

(* There is one.                                                           *)
LEMMA LeftFoldExists ==
    ASSUME NEW n \in Nat, NEW V, NEW step \in [1..n -> [V -> V]], NEW base \in V
    PROVE  \E g : LeftFold(g, step, base, n, V)
<1> DEFINE D == 1..n
           take == [t \in SUBSET D |-> Max(t)]
<1>1. IsFiniteSet(D)
  BY FS_Interval
<1>2. \A t \in SUBSET D : take[t] = Max(t) /\ (t # {} => Max(t) \in t)
  BY GreatestOf
<1>t. Takes(take, D)
  BY <1>2 DEF Takes
<1> HIDE DEF D, take
<1>3. PICK g : IsRecursion(g, take, step, base, D)
  BY <1>1, <1>t, RecursionExists
<1>4. /\ {} \in SUBSET D /\ g[{}] = base
      /\ \A t \in SUBSET D : t # {} => g[t] = step[Max(t)][g[t \ {Max(t)}]]
  <2>1. \A t \in SUBSET D : g[t] = TakeBody(take, step, base, g, t)
    BY <1>3 DEF IsRecursion
  <2> QED
    BY <1>2, <2>1 DEF TakeBody
<1> DEFINE S == {t \in SUBSET D : g[t] \in V}
<1>5. ASSUME NEW t \in SUBSET D, t # {}, \A d \in t : t \ {d} \in S
      PROVE  t \in S
  <2>1. Max(t) \in t /\ Max(t) \in D /\ g[t \ {Max(t)}] \in V
    BY <1>2, <1>5
  <2>2. step[Max(t)] \in [V -> V]
    BY <2>1 DEF D
  <2> QED
    BY <1>4, <1>5, <2>1, <2>2
<1>6. SUBSET D \subseteq S
  <2>1. {} \in S
    BY <1>4
  <2>2. \A t \in SUBSET D : t # {} /\ (\A d \in t : t \ {d} \in S) => t \in S
    BY <1>5
  <2> HIDE DEF S
  <2> QED
    BY <1>1, <2>1, <2>2, SubsetInduction
<1>7. g \in [SUBSET D -> V]
  <2>1. \A t \in SUBSET D : g[t] \in V
    BY <1>6
  <2>2. g = [t \in SUBSET D |-> g[t]]
    BY <1>3 DEF IsRecursion
  <2> QED
    BY <2>1, <2>2
<1>8. ASSUME NEW t \in SUBSET D, t # {}
      PROVE  /\ Max(t) \in t
             /\ g[t \ {Max(t)}] \in V /\ g[t] = step[Max(t)][g[t \ {Max(t)}]]
  BY <1>2, <1>4, <1>7, <1>8
<1> QED
  BY <1>4, <1>7, <1>8 DEF LeftFold, D

(* A function that follows the steps has, prefix by prefix, their values.  *)
Stages(f, n) == [k \in 0..n |-> f[1..k]]
LeftFollows(f, step, base, n, V) ==
    /\ f[{}] = base
    /\ \A t \in SUBSET (1..n) : t # {} /\ f[t \ {Max(t)}] \in V =>
                                    f[t] = step[Max(t)][f[t \ {Max(t)}]]
IsLeft(h, step, base, n, V) ==
    /\ h \in [0..n -> V] /\ h[0] = base
    /\ \A k \in 1..n : h[k] = step[k][h[k - 1]]

(* It has.                                                                 *)
LEMMA LeftFollowsSteps ==
    ASSUME NEW n \in Nat, NEW V, NEW step \in [1..n -> [V -> V]], NEW base \in V,
           NEW f, LeftFollows(f, step, base, n, V)
    PROVE  IsLeft(Stages(f, n), step, base, n, V)
<1> DEFINE h == Stages(f, n)
           S == {k \in Nat : k <= n => h[k] \in V}
<1>1. h[0] = base
  <2>1. 1..0 = {} /\ 0 \in 0..n
    OBVIOUS
  <2> QED
    BY <2>1 DEF Stages, LeftFollows
<1>2. ASSUME NEW k \in Nat, k + 1 <= n, h[k] \in V
      PROVE  h[k + 1] = step[k + 1][h[k]] /\ h[k + 1] \in V
  <2>1. k \in 0..n /\ k + 1 \in 0..n /\ k + 1 \in 1..n /\ k + 1 \in Nat /\ k + 1 # 0
        /\ k + 1 - 1 = k
    BY <1>2
  <2>2. h[k] = f[1..k] /\ h[k + 1] = f[1..(k + 1)]
    BY <2>1 DEF Stages
  <2>3. Max(1..(k + 1)) = k + 1 /\ (1..(k + 1)) \ {k + 1} = 1..k /\ 1..(k + 1) # {}
    BY <2>1, LastOf
  <2>4. 1..(k + 1) \in SUBSET (1..n)
    BY <1>2
  <2>5. f[1..(k + 1)] = step[k + 1][f[1..k]]
    BY <1>2, <2>2, <2>3, <2>4 DEF LeftFollows
  <2> QED
    BY <1>2, <2>1, <2>2, <2>5
<1>3. Nat \subseteq S
  <2>1. 0 \in S
    BY <1>1
  <2>2. ASSUME NEW k \in Nat, k \in S PROVE k + 1 \in S
    <3>1. k + 1 <= n => h[k + 1] \in V
      BY <1>2, <2>2
    <3> QED
      BY <3>1
  <2> HIDE DEF S
  <2> QED
    BY <2>1, <2>2, Induction
<1>4. \A k \in 0..n : h[k] \in V
  BY <1>3
<1>5. h \in [0..n -> V]
  BY <1>4 DEF Stages
<1>6. ASSUME NEW k \in 1..n PROVE h[k] = step[k][h[k - 1]]
  <2>1. k - 1 \in Nat /\ k - 1 + 1 = k /\ k <= n /\ k - 1 \in 0..n
    OBVIOUS
  <2> QED
    BY <1>2, <1>4, <2>1
<1> QED
  BY <1>1, <1>5, <1>6 DEF IsLeft
=============================================================================

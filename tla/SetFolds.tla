------------------------------ MODULE SetFolds ------------------------------
(***************************************************************************)
(* What the folds of the community modules compute on a finite set: the    *)
(* empty set gives Base, and any other Op of the value of the element that *)
(* Pick takes and of the fold of the rest.  An instance of this module is  *)
(* about the fold with the operators it is given; data is what the values  *)
(* are taken from, such as the sequence whose indices are folded.          *)
(***************************************************************************)
EXTENDS FiniteSets, Folds, FiniteSetTheorems, WellFoundedInduction, TLAPS

CONSTANTS Op(_, _), Base, Value(_, _), Pick(_)

Fold(data, S) == MapThenFoldSet(Op, Base, LAMBDA x : Value(data, x), LAMBDA s : Pick(s), S)

(* Pick takes an element of every subset that has one.                     *)
Picks(S) == \A s \in SUBSET S : s # {} => Pick(s) \in s

(* The recursive function inside of a fold of S.                           *)
IsFold(f, data, S) ==
    f = [s \in SUBSET S |-> IF s = {} THEN Base ELSE Op(Value(data, Pick(s)), f[s \ {Pick(s)}])]
FoldOf(data, S) == CHOOSE f : IsFold(f, data, S)

LEMMA FoldIsFoldOf == \A data, S : Fold(data, S) = FoldOf(data, S)[S]
  BY Zenon DEF Fold, MapThenFoldSet, FoldOf, IsFold

(* Induction over the subsets of a finite set, as a smallest one of any    *)
(* collection of them.                                                     *)
LEMMA SmallestSubset ==
    ASSUME NEW S, IsFiniteSet(S), NEW T, T \subseteq SUBSET S, T # {}
    PROVE  \E x \in T : \A y \in T : y \subseteq x => y = x
  <1>1. IsWellFoundedOn(StrictSubsetOrdering(S), SUBSET S)
    BY FS_StrictSubsetOrderingWellFounded, FS_FiniteSubsetsOfFinite
  <1>2. PICK x \in T : \A y \in T : ~(<<y, x>> \in StrictSubsetOrdering(S))
    BY <1>1, WFMin
  <1> QED BY <1>2 DEF StrictSubsetOrdering

(* A fold of a set goes through the folds of its subsets.                  *)
LEMMA FoldsAgree ==
    ASSUME NEW data, NEW S, IsFiniteSet(S), Picks(S), NEW U \in SUBSET S,
           NEW f, IsFold(f, data, S), NEW g, IsFold(g, data, U)
    PROVE  \A s \in SUBSET U : f[s] = g[s]
  <1> SUFFICES ASSUME {s \in SUBSET U : f[s] # g[s]} # {} PROVE FALSE
    OBVIOUS
  <1>1. IsFiniteSet(U)
    BY FS_Subset
  <1>2. PICK s \in SUBSET U : f[s] # g[s] /\ \A t \in SUBSET U : t \subseteq s /\ t # s => f[t] = g[t]
    <2> DEFINE T == {s \in SUBSET U : f[s] # g[s]}
    <2>0. T \subseteq SUBSET U /\ T # {}
      OBVIOUS
    <2>1. PICK s \in T : \A t \in T : t \subseteq s => t = s
      <3> HIDE DEF T
      <3> QED BY <1>1, <2>0, SmallestSubset
    <2>2. s \in SUBSET U /\ f[s] # g[s]
      OBVIOUS
    <2>3. ASSUME NEW t \in SUBSET U, t \subseteq s, t # s PROVE f[t] = g[t]
      BY <2>1, <2>3
    <2> HIDE DEF T
    <2> QED BY <2>2, <2>3
  <1>3. CASE s = {}
    BY <1>2, <1>3 DEF IsFold
  <1>4. CASE s # {}
    <2>1. Pick(s) \in s
      BY <1>4 DEF Picks
    <2>2. f[s \ {Pick(s)}] = g[s \ {Pick(s)}]
      BY <1>2, <2>1
    <2>3. f[s] = Op(Value(data, Pick(s)), f[s \ {Pick(s)}])
      BY <1>4 DEF IsFold
    <2>4. g[s] = Op(Value(data, Pick(s)), g[s \ {Pick(s)}])
      BY <1>4 DEF IsFold
    <2> QED BY <1>2, <2>2, <2>3, <2>4
  <1> QED BY <1>3, <1>4

LEMMA FoldsMeet ==
    ASSUME NEW data, NEW S, IsFiniteSet(S), Picks(S), NEW U \in SUBSET S,
           IsFold(FoldOf(data, S), data, S), IsFold(FoldOf(data, U), data, U)
    PROVE  FoldOf(data, S)[U] = FoldOf(data, U)[U]
  <1>1. \A s \in SUBSET U : FoldOf(data, S)[s] = FoldOf(data, U)[s]
    BY FoldsAgree
  <1> QED BY <1>1

LEMMA FoldExists ==
    ASSUME NEW data, NEW S, IsFiniteSet(S), Picks(S)
    PROVE  IsFold(FoldOf(data, S), data, S)
  <1> DEFINE Good(U) == \E f : IsFold(f, data, U)
             T == {U \in SUBSET S : ~Good(U)}
  <1>1. ASSUME NEW U, Good(U) PROVE IsFold(FoldOf(data, U), data, U)
    BY <1>1, Zenon DEF FoldOf
  <1>2. CASE T = {}
    <2>1. Good(S)
      BY <1>2
    <2> QED BY <1>1, <2>1
  <1>3. CASE T # {}
    <2>1. PICK V \in SUBSET S : ~Good(V) /\ \A U \in SUBSET V : U # V => Good(U)
      <3>0. T \subseteq SUBSET S
        OBVIOUS
      <3>1. PICK V \in T : \A U \in T : U \subseteq V => U = V
        <4> HIDE DEF T
        <4> QED BY <1>3, <3>0, SmallestSubset
      <3>2. V \in SUBSET S /\ ~Good(V)
        OBVIOUS
      <3>3. ASSUME NEW U \in SUBSET V, U # V PROVE Good(U)
        <4> HIDE DEF Good
        <4> QED BY <3>1, <3>2, <3>3
      <3> HIDE DEF Good, T
      <3> QED BY <3>2, <3>3
    <2> HIDE DEF Good, T
    <2>2. IsFiniteSet(V)
      BY FS_Subset
    <2> DEFINE value(s) == IF s = {} THEN Base
                           ELSE Op(Value(data, Pick(s)), FoldOf(data, s \ {Pick(s)})[s \ {Pick(s)}])
               h == [s \in SUBSET V |-> value(s)]
    <2>3. ASSUME NEW u \in SUBSET V, u # V PROVE h[u] = FoldOf(data, u)[u]
      <3>1. IsFold(FoldOf(data, u), data, u) /\ IsFiniteSet(u)
        BY <1>1, <2>1, <2>2, <2>3, FS_Subset
      <3>2. CASE u = {}
        BY <3>1, <3>2 DEF IsFold
      <3>3. CASE u # {}
        <4> DEFINE w == u \ {Pick(u)}
        <4>0. Pick(u) \in u /\ Picks(u)
          BY <3>3 DEF Picks
        <4>1. w \in SUBSET u /\ w # u /\ w \in SUBSET V /\ w # V
          BY <2>3, <3>3, <4>0
        <4>2. IsFold(FoldOf(data, w), data, w)
          BY <1>1, <2>1, <4>1
        <4>3. FoldOf(data, u)[w] = FoldOf(data, w)[w]
          BY <3>1, <4>0, <4>1, <4>2, FoldsMeet
        <4>4. FoldOf(data, u)[u] = Op(Value(data, Pick(u)), FoldOf(data, u)[w])
          BY <3>1, <3>3 DEF IsFold
        <4> QED BY <3>3, <4>3, <4>4
      <3> QED BY <3>2, <3>3
    <2>4. ASSUME NEW s \in SUBSET V
          PROVE  h[s] = IF s = {} THEN Base ELSE Op(Value(data, Pick(s)), h[s \ {Pick(s)}])
      <3>1. CASE s = {}
        BY <3>1
      <3>2. CASE s # {}
        <4>1. s \ {Pick(s)} \in SUBSET V /\ s \ {Pick(s)} # V
          BY <3>2 DEF Picks
        <4> QED BY <2>3, <3>2, <4>1
      <3> QED BY <3>1, <3>2
    <2>5. IsFold(h, data, V)
      <3> HIDE DEF value
      <3> QED BY <2>4 DEF IsFold
    <2>6. Good(V)
      BY <2>5, Zenon DEF Good
    <2> QED BY <2>1, <2>6
  <1> QED BY <1>2, <1>3

(* The two equations of a fold.                                            *)
LEMMA FoldOfNone == \A data : Fold(data, {}) = Base
  <1> SUFFICES ASSUME NEW data PROVE Fold(data, {}) = Base
    OBVIOUS
  <1>1. IsFold(FoldOf(data, {}), data, {})
    <2>1. Picks({})
      BY DEF Picks
    <2> QED BY <2>1, FoldExists, FS_EmptySet
  <1>2. FoldOf(data, {})[{}] = Base
    BY <1>1 DEF IsFold
  <1> QED BY <1>2, FoldIsFoldOf

LEMMA FoldOfMore ==
    ASSUME NEW data, NEW S, IsFiniteSet(S), Picks(S), S # {}
    PROVE  /\ Pick(S) \in S
           /\ Fold(data, S) = Op(Value(data, Pick(S)), Fold(data, S \ {Pick(S)}))
  <1> DEFINE u == S \ {Pick(S)}
  <1>1. Pick(S) \in S
    BY DEF Picks
  <1>2. u \in SUBSET S /\ IsFiniteSet(u) /\ Picks(u)
    BY FS_Subset DEF Picks
  <1>3. IsFold(FoldOf(data, S), data, S) /\ IsFold(FoldOf(data, u), data, u)
    BY <1>2, FoldExists
  <1>4. FoldOf(data, S)[u] = FoldOf(data, u)[u]
    BY <1>2, <1>3, FoldsMeet
  <1>5. FoldOf(data, S)[S] = Op(Value(data, Pick(S)), FoldOf(data, S)[u])
    BY <1>3 DEF IsFold
  <1> HIDE DEF u
  <1>6. Fold(data, S) = Op(Value(data, Pick(S)), Fold(data, u))
    BY <1>4, <1>5, FoldIsFoldOf
  <1> QED BY <1>1, <1>6 DEF u
=============================================================================

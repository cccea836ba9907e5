-------------------------- MODULE RegionWalkProofs --------------------------
(***************************************************************************)
(* The walk of RegionWalk answers reachability, for trees of every size.   *)
(*                                                                         *)
(* The loop keeps no list of what it has visited, so the invariant says    *)
(* that such a set exists: either every code in it but the current one has *)
(* been left upward, each counted by i once, or the walk is inside a set   *)
(* that is closed under parents and holds no entry of the holiday.  When   *)
(* the cap is exceeded the first is impossible, by counting.               *)
(***************************************************************************)
EXTENDS RegionWalk, FiniteSetTheorems, FunctionTheorems, WellFoundedInduction, TLAPS

Names0 == Name \union {NoName}
IsSub(x) == \E n \in 1..Len(h.subs) : Fold(h.subs[n]) = x
cur == Fold(current)

IdxOK ==
    /\ DOMAIN parentIdx \subseteq Names0
    /\ IsFiniteSet(DOMAIN parentIdx)
    /\ DOMAIN parentIdx # {} => Cardinality(DOMAIN parentIdx) < MaxNodes
    /\ \A n \in DOMAIN parentIdx : parentIdx[n] \in Code /\ Fold(parentIdx[n]) # NoName

\* Every code of S but the current one was no entry and has been left upward.
Left(S) ==
    /\ \A n \in S \ {cur} : /\ n \in DOMAIN parentIdx /\ ~IsSub(n)
                            /\ Fold(parentIdx[n]) \in S
    /\ Cardinality(S \ {cur}) = i

\* A closed set without an entry: no entry is ever reached from inside it.
Hopeless(S) == Closed(S) /\ \A n \in S : ~IsSub(n)

Walking(S) ==
    /\ S \subseteq Names0 /\ IsFiniteSet(S)
    /\ Fold(code) \in S /\ cur \in S
    /\ Left(S) \/ Hopeless(S)

SomeReached == \E n \in 1..Len(h.subs) : Reaches(code, Fold(h.subs[n]))

WInv ==
    /\ TypeOK
    /\ pc \in {"start", "fetch"} => tree = <<>>
    /\ pc = "walk" => /\ IdxOK
                      /\ Reaches(code, cur)
                      /\ \E S \in SUBSET Names0 : Walking(S)
    /\ WalkIsReachability

-----------------------------------------------------------------------------

\* A nonempty set of positions has a last one.
LEMMA LastExists ==
    ASSUME NEW N \in Nat, NEW T \in SUBSET (1..N), T # {}
    PROVE  \E n \in T : \A m \in T : m <= n
<1> DEFINE U == {N - n : n \in T}
<1>1. U \subseteq Nat /\ U # {}
  <2>1. \A n \in T : N - n \in Nat
    OBVIOUS
  <2>2. U \subseteq Nat
    BY <2>1
  <2>3. PICK n \in T : TRUE
    OBVIOUS
  <2>4. N - n \in U
    OBVIOUS
  <2> QED  BY <2>2, <2>4
<1>2. PICK u \in U : \A y \in U : ~(<<y, u>> \in OpToRel(<, Nat))
  BY <1>1, NatLessThanWellFounded, WFMin
<1>3. \A y \in U : ~(y < u)
  BY <1>1, <1>2 DEF OpToRel
<1>4. PICK n \in T : u = N - n
  OBVIOUS
<1>5. \A m \in T : m <= n
  <2> SUFFICES ASSUME NEW m \in T PROVE m <= n
    OBVIOUS
  <2>1. N - m \in U
    OBVIOUS
  <2> QED  BY <2>1, <1>3, <1>4
<1> QED  BY <1>5

\* The index maps codes to codes and has finitely many keys.
LEMMA IndexType ==
    ASSUME NEW t \in Tree
    PROVE  LET idx == buildParentIndex(t)
           IN  /\ DOMAIN idx \subseteq Names0
               /\ IsFiniteSet(DOMAIN idx)
               /\ DOMAIN idx # {} => Cardinality(DOMAIN idx) < MaxNodes
               /\ \A x \in DOMAIN idx : idx[x] \in Code /\ Fold(idx[x]) # NoName
<1> DEFINE K == {Fold(t[n].code) : n \in Indexed(t)}
           idx == buildParentIndex(t)
<1>1. PICK N \in 0..MaxNodes : t \in [1..N -> Node]
  BY DEF Tree
<1>2. N \in Nat /\ Len(t) = N /\ \A n \in 1..N : t[n] \in Node
  BY <1>1, BoundAssumption
<1>3. Indexed(t) \subseteq 2..N
  <2> SUFFICES ASSUME NEW n \in Indexed(t) PROVE n \in 2..N
    OBVIOUS
  <2>1. n \in 1..N /\ t[n].parent # 0
    BY <1>2 DEF Indexed
  <2>2. t[n].parent \in Nat
    BY <1>2, <2>1, BoundAssumption DEF Node
  <2>3. t[n].parent < n
    BY <1>2, <2>1 DEF Tree, IsTree
  <2> QED  BY <1>2, <2>1, <2>2, <2>3
<1>4. \A n \in 1..N : t[n].code \in Code /\ Fold(t[n].code) \in Names0
  BY <1>2 DEF Node, Code, Fold, Names0
<1>5. K \subseteq Names0
  BY <1>3, <1>4
<1>6. IsFiniteSet(K) /\ (K # {} => Cardinality(K) < MaxNodes)
  <2> DEFINE f == [n \in Indexed(t) |-> Fold(t[n].code)]
  <2>1. IsFiniteSet(Indexed(t)) /\ Cardinality(Indexed(t)) <= (IF 2 > N THEN 0 ELSE N - 1)
    <3>1. IsFiniteSet(2..N) /\ Cardinality(2..N) = IF 2 > N THEN 0 ELSE N - 2 + 1
      BY <1>2, FS_Interval
    <3>2. IsFiniteSet(Indexed(t)) /\ Cardinality(Indexed(t)) <= Cardinality(2..N)
      BY <1>3, <3>1, FS_Subset
    <3> QED  BY <1>2, <3>1, <3>2
  <2>2. f \in Surjection(Indexed(t), K)
    BY Zenon DEF Surjection
  <2>3. IsFiniteSet(K) /\ Cardinality(K) <= Cardinality(Indexed(t))
    BY <2>1, <2>2, FS_Surjection
  <2>4. Cardinality(K) \in Nat /\ Cardinality(Indexed(t)) \in Nat
    BY <2>1, <2>3, FS_CardinalityType
  <2>5. K # {} => N >= 2
    <3> SUFFICES ASSUME NEW n \in Indexed(t) PROVE N >= 2
      OBVIOUS
    <3> QED  BY <1>2, <1>3
  <2> QED  BY <2>1, <2>3, <2>4, <2>5, <1>1, <1>2, BoundAssumption
<1>7. \A x \in K : LastOf(t, x) \in Indexed(t)
  <2> SUFFICES ASSUME NEW x \in K PROVE LastOf(t, x) \in Indexed(t)
    OBVIOUS
  <2> DEFINE T == {n \in Indexed(t) : Fold(t[n].code) = x}
  <2>1. T \in SUBSET (1..N) /\ T # {}
    BY <1>2, <1>3
  <2>2. PICK n \in T : \A m \in T : m <= n
    BY <1>2, <2>1, LastExists
  <2>3. \E k \in Indexed(t) :
           /\ Fold(t[k].code) = x
           /\ \A m \in Indexed(t) : Fold(t[m].code) = x => m <= k
    BY <2>2
  <2> QED  BY <2>3 DEF LastOf
<1>8. \A n \in Indexed(t) : t[n].parent \in 1..N
  <2> SUFFICES ASSUME NEW n \in Indexed(t) PROVE t[n].parent \in 1..N
    OBVIOUS
  <2>1. n \in 1..N /\ t[n].parent # 0
    BY <1>2 DEF Indexed
  <2>2. t[n].parent \in 0..MaxNodes
    BY <1>2, <2>1 DEF Node
  <2>3. t[n].parent < n
    BY <1>2, <2>1 DEF Tree, IsTree
  <2> QED  BY <1>2, <2>1, <2>2, <2>3, BoundAssumption
<1>9. idx = [x \in K |-> t[t[LastOf(t, x)].parent].code]
  BY DEF buildParentIndex
<1>10. \A x \in K : idx[x] \in Code /\ Fold(idx[x]) # NoName
  <2>1. \A n \in Indexed(t) : Fold(t[t[n].parent].code) # NoName
    BY DEF Indexed
  <2> QED  BY <2>1, <1>4, <1>7, <1>8, <1>9
<1> HIDE DEF K
<1>11. DOMAIN idx = K
  BY <1>9
<1> QED  BY <1>5, <1>6, <1>10, <1>11

\* From inside a hopeless set no entry is reached.
LEMMA HopelessMeansNone ==
    ASSUME NEW S \in SUBSET Names0, Fold(code) \in S, Hopeless(S)
    PROVE  ~SomeReached
<1> SUFFICES ASSUME NEW n \in 1..Len(h.subs), Reaches(code, Fold(h.subs[n])) PROVE FALSE
  BY DEF SomeReached
<1>1. Fold(h.subs[n]) \in S
  BY DEF Reaches, Names0, Hopeless
<1> QED  BY <1>1 DEF Hopeless, IsSub

-----------------------------------------------------------------------------

\* The call starts well typed.
LEMMA TypeInit == Init => TypeOK
<1> SUFFICES ASSUME Init PROVE TypeOK
  OBVIOUS
<1>1. <<>> \in Tree
  <2>1. <<>> \in [1..0 -> Node] /\ IsTree(<<>>)
    BY DEF IsTree
  <2> QED  BY <2>1, BoundAssumption DEF Tree
<1> QED  BY <1>1, BoundAssumption DEF Init, TypeOK

\* The invariant holds when the call starts, where there is no tree yet.
LEMMA WalkInit == Init => WInv
  BY TypeInit DEF Init, WInv, WalkIsReachability

\* Steps that only move the program counter keep the types.
LEMMA TypeFrame ==
    ASSUME TypeOK, UNCHANGED <<h, code, tree, parentIdx, current, i>>,
           pc' \in {"start", "fetch", "walk", "done"},
           result' \in {"none", "true", "false", "error"}
    PROVE  TypeOK'
  BY DEF TypeOK

\* Up to the fetch nothing is known but that no tree has been fetched.
LEMMA StartStep == WInv /\ (FastPath \/ NeedTree \/ FetchFails) => WInv'
<1> SUFFICES ASSUME WInv, FastPath \/ NeedTree \/ FetchFails PROVE WInv'
  OBVIOUS
<1>1. tree = <<>> /\ tree' = <<>> /\ pc' # "walk"
  BY DEF WInv, FastPath, Nationwide, EmptyCode, FlatMatch, NoSubdivisions, NoPrefix, NeedTree,
         FetchFails, Return
<1>2. TypeOK'
  <2>1. /\ UNCHANGED <<h, code, tree, parentIdx, current, i>>
        /\ pc' \in {"fetch", "done"}
        /\ result' \in {result, "true", "false", "error"}
    BY DEF FastPath, Nationwide, EmptyCode, FlatMatch, NoSubdivisions, NoPrefix, NeedTree,
           FetchFails, Return
  <2>2. TypeOK /\ result \in {"none", "true", "false", "error"}
    BY DEF WInv, TypeOK
  <2> QED  BY <2>1, <2>2, TypeFrame
<1> QED  BY <1>1, <1>2 DEF WInv, WalkIsReachability

\* The walk starts at the code, having visited nothing.
LEMMA FetchStep == WInv /\ Fetch => WInv'
<1> SUFFICES ASSUME WInv, Fetch PROVE WInv'
  OBVIOUS
<1>1. PICK t \in Tree : tree' = t /\ parentIdx' = buildParentIndex(t)
  BY DEF Fetch
<1>2. pc' = "walk" /\ current' = code /\ code' = code /\ h' = h /\ i' = 0 /\ code \in Code
  BY DEF Fetch, WInv, TypeOK
<1>3. IdxOK'
  BY <1>1, IndexType DEF IdxOK
<1>4. Reaches(code, cur)'
  BY <1>2 DEF Reaches, cur
<1>5. (\E S \in SUBSET Names0 : Walking(S))'
  <2>0. PICK S : S = {Fold(code)}
    OBVIOUS
  <2>1. Fold(code) \in Names0 /\ S \in SUBSET Names0
    BY <1>2, <2>0 DEF Code, Fold, Names0
  <2>2. IsFiniteSet(S)
    BY <2>0, FS_Singleton
  <2>3. S \ {cur'} = {} /\ cur' = Fold(code) /\ Fold(code) \in S
    BY <1>2, <2>0 DEF cur
  <2>4. Cardinality(S \ {cur'}) = i'
    BY <2>3, <1>2, FS_EmptySet
  <2>5. Left(S)'
    BY <2>3, <2>4 DEF Left
  <2>6. Walking(S)'
    BY <1>2, <2>1, <2>2, <2>3, <2>5 DEF Walking
  <2> QED  BY <2>1, <2>6
<1>6. WalkIsReachability'
  BY <1>2 DEF WalkIsReachability
<1>7. TypeOK'
  BY <1>1, <1>2, <1>3, BoundAssumption DEF WInv, TypeOK, IdxOK, Names0, Fetch
<1> QED  BY <1>2, <1>3, <1>4, <1>5, <1>6, <1>7 DEF WInv

\* The answer of a walk that ends in this step.
LEMMA Answer ==
    ASSUME WInv, pc = "walk", pc' = "done", UNCHANGED <<h, code, tree, parentIdx, current, i>>,
           \/ result' = "true" /\ SomeReached
           \/ result' = "false" /\ ~SomeReached
    PROVE  WInv'
<1>1. Reaches(code, cur) <=> Reaches(code, cur)'
  BY DEF Reaches, cur, Closed
<1>2. SomeReached' <=> SomeReached
  BY DEF SomeReached, Reaches, Closed
<1>3. result' = "true" <=> SomeReached'
  BY <1>2
<1>4. WalkIsReachability'
  BY <1>3 DEF WalkIsReachability, SomeReached
<1>5. TypeOK'
  BY TypeFrame DEF WInv
<1> QED  BY <1>4, <1>5 DEF WInv

\* A match ends the walk with yes: the entry that matched was reached.
LEMMA MatchStep == WInv /\ WalkMatch => WInv'
<1> SUFFICES ASSUME WInv, WalkMatch PROVE WInv'
  OBVIOUS
<1>1. pc = "walk" /\ pc' = "done" /\ result' = "true"
      /\ UNCHANGED <<h, code, tree, parentIdx, current, i>>
  BY DEF WalkMatch, Return
<1>2. PICK n \in 1..Len(h.subs) : Fold(h.subs[n]) = cur
  BY DEF WalkMatch, InSubs, EqualFold, cur
<1>3. Reaches(code, Fold(h.subs[n]))
  BY <1>1, <1>2 DEF WInv
<1>4. SomeReached
  BY <1>3 DEF SomeReached
<1> QED  BY <1>1, <1>4, Answer

\* At a code without parent nothing more can be reached, so that no is right.
LEMMA RootStep == WInv /\ WalkRoot => WInv'
<1> SUFFICES ASSUME WInv, WalkRoot PROVE WInv'
  OBVIOUS
<1>1. pc = "walk" /\ pc' = "done" /\ result' = "false"
      /\ UNCHANGED <<h, code, tree, parentIdx, current, i>>
  BY DEF WalkRoot, Return
<1>2. cur \notin DOMAIN parentIdx /\ ~IsSub(cur)
  BY DEF WalkRoot, InSubs, IsSub, EqualFold, cur
<1>3. PICK S \in SUBSET Names0 : Walking(S)
  BY <1>1 DEF WInv
<1>4. Hopeless(S)
  <2>1. CASE Left(S)
    BY <2>1, <1>2 DEF Left, Hopeless, Closed
  <2> QED  BY <1>3, <2>1 DEF Walking
<1>5. ~SomeReached
  BY <1>3, <1>4, HopelessMeansNone DEF Walking
<1> QED  BY <1>1, <1>5, Answer

\* Beyond the cap more codes would have been left than the index has keys.
LEMMA CappedStep == WInv /\ WalkCapped => WInv'
<1> SUFFICES ASSUME WInv, WalkCapped PROVE WInv'
  OBVIOUS
<1>1. pc = "walk" /\ pc' = "done" /\ result' = "false"
      /\ UNCHANGED <<h, code, tree, parentIdx, current, i>>
  BY DEF WalkCapped, Return
<1>2. ~(i <= Cardinality(DOMAIN parentIdx)) /\ i \in Nat
  BY BoundAssumption DEF WalkCapped, WithinCap, WInv, TypeOK
<1>3. PICK S \in SUBSET Names0 : Walking(S)
  BY <1>1 DEF WInv
<1>4. IsFiniteSet(DOMAIN parentIdx)
  BY <1>1 DEF WInv, IdxOK
<1>5. ~Left(S)
  <2> SUFFICES ASSUME Left(S) PROVE FALSE
    OBVIOUS
  <2>1. S \ {cur} \in SUBSET DOMAIN parentIdx
    BY DEF Left
  <2>2. Cardinality(S \ {cur}) <= Cardinality(DOMAIN parentIdx)
    BY <1>4, <2>1, FS_Subset
  <2> QED  BY <1>2, <2>2 DEF Left
<1>6. ~SomeReached
  BY <1>3, <1>5, HopelessMeansNone DEF Walking
<1> QED  BY <1>1, <1>6, Answer

-----------------------------------------------------------------------------
\* One round upward: the current code joins those that have been left, unless
\* its parent has been seen before; then the set is closed.
LEMMA UpStep == WInv /\ WalkUp => WInv'
<1> SUFFICES ASSUME WInv, WalkUp PROVE WInv'
  OBVIOUS
<1>1. /\ pc = "walk" /\ pc' = "walk"
      /\ UNCHANGED <<h, code, tree, parentIdx, result>>
      /\ current' = parentIdx[cur]
  BY DEF WalkUp, cur
<1>2. cur \in DOMAIN parentIdx /\ ~IsSub(cur)
  BY DEF WalkUp, InSubs, IsSub, EqualFold, cur
<1>3. IdxOK /\ IdxOK'
  BY <1>1 DEF WInv, IdxOK
<1>4. current' \in Code /\ cur' = Fold(parentIdx[cur]) /\ cur' \in Names0
  BY <1>1, <1>2, <1>3 DEF IdxOK, cur, Code, Fold, Names0
<1>5. i \in Nat /\ i < MaxNodes /\ i' = i + 1
  <2>1. i \in Nat /\ i <= Cardinality(DOMAIN parentIdx)
    BY BoundAssumption DEF WInv, TypeOK, WalkUp, WithinCap
  <2>2. Cardinality(DOMAIN parentIdx) < MaxNodes /\ Cardinality(DOMAIN parentIdx) \in Nat
    BY <1>2, <1>3, FS_CardinalityType DEF IdxOK
  <2>3. i < MaxNodes
    BY <2>1, <2>2, BoundAssumption
  <2> QED  BY <2>1, <2>3, BoundAssumption DEF WalkUp
<1>6. Reaches(code, cur)'
  BY <1>1, <1>2, <1>4 DEF WInv, Reaches, Closed
<1>7. PICK S \in SUBSET Names0 : Walking(S)
  BY <1>1 DEF WInv
<1>8. cur \in S /\ IsFiniteSet(S) /\ Fold(code) \in S
  BY <1>7 DEF Walking
<1>9. (\E X \in SUBSET Names0 : Walking(X))'
  <2>1. CASE Hopeless(S)
    <3>1. cur' \in S
      BY <2>1, <1>2, <1>4, <1>8 DEF Hopeless, Closed
    <3>2. Hopeless(S)'
      BY <2>1, <1>1 DEF Hopeless, Closed, IsSub
    <3>3. Walking(S)'
      BY <1>1, <1>8, <3>1, <3>2 DEF Walking
    <3> QED  BY <3>3
  <2>2. CASE Left(S) /\ cur' \in S
    <3>1. Hopeless(S)
      BY <2>2, <1>2, <1>4 DEF Left, Hopeless, Closed
    <3>2. Hopeless(S)'
      BY <3>1, <1>1 DEF Hopeless, Closed, IsSub
    <3>3. Walking(S)'
      BY <2>2, <1>1, <1>8, <3>2 DEF Walking
    <3> QED  BY <3>3
  <2>3. CASE Left(S) /\ cur' \notin S
    <3>0. PICK X : X = S \union {cur'}
      OBVIOUS
    <3>1. X \in SUBSET Names0 /\ IsFiniteSet(X) /\ X \ {cur'} = S
      BY <1>4, <1>8, <2>3, <3>0, FS_AddElement
    <3>2. Cardinality(S) = i + 1
      <4>1. Cardinality(S \ {cur}) = Cardinality(S) - 1
        BY <1>8, FS_RemoveElement
      <4>2. Cardinality(S \ {cur}) = i /\ Cardinality(S) \in Nat
        BY <1>8, <2>3, FS_CardinalityType DEF Left
      <4> QED  BY <4>1, <4>2
    <3>4. \A n \in S : n \in DOMAIN parentIdx /\ ~IsSub(n) /\ Fold(parentIdx[n]) \in X
      BY <1>2, <1>4, <2>3, <3>0 DEF Left
    <3>5. Left(X)'
      <4>1. \A n \in X \ {cur'} :
               n \in DOMAIN parentIdx /\ ~IsSub(n)' /\ Fold(parentIdx[n]) \in X
        BY <1>1, <3>1, <3>4 DEF IsSub
      <4>2. Cardinality(X \ {cur'}) = i'
        BY <1>5, <3>1, <3>2
      <4> QED  BY <1>1, <4>1, <4>2 DEF Left
    <3>6. Walking(X)'
      BY <1>1, <1>8, <3>0, <3>1, <3>5 DEF Walking
    <3> QED  BY <3>1, <3>6
  <2> QED  BY <1>7, <2>1, <2>2, <2>3 DEF Walking
<1>10. WalkIsReachability'
  BY <1>1 DEF WalkIsReachability
<1>11. TypeOK'
  BY <1>1, <1>4, <1>5, BoundAssumption DEF WInv, TypeOK
<1> QED  BY <1>1, <1>3, <1>6, <1>9, <1>10, <1>11 DEF WInv

-----------------------------------------------------------------------------

\* The inductive invariant of the call, of which the following theorems are
\* consequences (client_isinregion.go:79-125).
THEOREM WalkInvariance == Spec => []WInv
<1>1. WInv /\ [Next]_vars => WInv'
  <2> SUFFICES ASSUME WInv, [Next]_vars PROVE WInv'
    OBVIOUS
  <2>1. CASE FastPath \/ NeedTree \/ FetchFails
    BY <2>1, StartStep
  <2>2. CASE Fetch
    BY <2>2, FetchStep
  <2>3. CASE WalkMatch
    BY <2>3, MatchStep
  <2>4. CASE WalkRoot
    BY <2>4, RootStep
  <2>5. CASE WalkUp
    BY <2>5, UpStep
  <2>6. CASE WalkCapped
    BY <2>6, CappedStep
  <2>7. CASE UNCHANGED vars
    BY <2>7 DEF vars, WInv, TypeOK, IdxOK, Walking, Left, Hopeless, IsSub, cur,
                Reaches, Closed, WalkIsReachability
  <2> QED  BY <2>1, <2>2, <2>3, <2>4, <2>5, <2>6, <2>7 DEF Next
<1> QED  BY WalkInit, <1>1, PTL DEF Spec

\* The walk's variables keep their types; above all i stays within the number
\* of nodes, so no walk takes more rounds than the tree has nodes (client_isinregion.go:111-124).
THEOREM TypeCorrect == Spec => []TypeOK
<1>1. WInv => TypeOK
  BY DEF WInv
<1> QED  BY <1>1, WalkInvariance, PTL

\* For every tree and every holiday the capped walk finds an entry of the
\* holiday exactly if one can be reached (client_isinregion.go:106-124).
THEOREM WalkCorrect == Spec => []WalkIsReachability
<1>1. WInv => WalkIsReachability
  BY DEF WInv
<1> QED  BY <1>1, WalkInvariance, PTL

\* What a call knows when it has left the fast paths, and what those answered.
PathInv ==
    /\ pc \in {"start", "fetch"} => tree = <<>> /\ parentIdx = <<>>
    /\ tree = <<>> => DOMAIN parentIdx = {}
    /\ pc = "done" => result # "none"
    /\ pc = "walk" /\ tree = <<>> => current = code
    /\ pc \in {"fetch", "walk"} \/ tree # <<>> => NoMatch
    /\ pc = "done" /\ result = "error" => NoMatch
    /\ pc = "done" /\ tree = <<>> /\ result = "true" => FlatIsInRegion(code)
    /\ pc = "done" /\ tree = <<>> /\ result = "false" => ~FlatIsInRegion(code)

\* The checks of the client's fast paths and those of Holiday.IsInRegion.
LEMMA FlatChecks == NoMatch => ~FlatIsInRegion(code)
  BY DEF NoMatch, Asks, InSubs, FlatIsInRegion

LEMMA PathStep == PathInv /\ [Next]_vars => PathInv'
<1> SUFFICES ASSUME PathInv, [Next]_vars PROVE PathInv'
  OBVIOUS
<1>0. UNCHANGED <<h, code>>
  BY DEF Next, vars, FastPath, NeedTree, Fetch, FetchFails, WalkMatch, WalkRoot, WalkUp, WalkCapped
<1>1. (FlatIsInRegion(code)' <=> FlatIsInRegion(code)) /\ (NoMatch' <=> NoMatch)
  BY <1>0 DEF FlatIsInRegion, NoMatch, Asks, InSubs
<1>2. CASE FastPath
  <2>1. pc = "start" /\ pc' = "done" /\ UNCHANGED <<tree, parentIdx>>
    BY <1>2 DEF FastPath, Nationwide, EmptyCode, FlatMatch, NoSubdivisions, NoPrefix, Return
  <2>2. result' = IF FlatIsInRegion(code) THEN "true" ELSE "false"
    <3>1. CASE Nationwide
      BY <3>1 DEF Nationwide, Return, FlatIsInRegion
    <3>2. CASE EmptyCode
      BY <3>2 DEF EmptyCode, Return, FlatIsInRegion
    <3>3. CASE FlatMatch
      BY <3>3 DEF FlatMatch, Asks, InSubs, Return, FlatIsInRegion
    <3>4. CASE NoSubdivisions \/ NoPrefix
      BY <3>4, FlatChecks DEF NoSubdivisions, NoPrefix, Return
    <3> QED  BY <1>2, <3>1, <3>2, <3>3, <3>4 DEF FastPath
  <2> QED  BY <1>1, <2>1, <2>2 DEF PathInv
<1>3. CASE NeedTree
  BY <1>1, <1>3 DEF NeedTree, PathInv
<1>4. CASE Fetch
  <2>1. pc = "fetch" /\ pc' = "walk" /\ current' = code' /\ parentIdx' = buildParentIndex(tree')
    BY <1>0, <1>4 DEF Fetch
  <2>2. tree' = <<>> => DOMAIN parentIdx' = {}
    BY <2>1 DEF buildParentIndex, Indexed
  <2> QED  BY <1>1, <2>1, <2>2 DEF PathInv
<1>5. CASE FetchFails
  BY <1>1, <1>5 DEF FetchFails, Return, PathInv
<1>6. CASE WalkMatch
  <2>1. pc = "walk" /\ pc' = "done" /\ result' = "true" /\ InSubs(current) /\ UNCHANGED <<tree, parentIdx>>
    BY <1>6 DEF WalkMatch, Return
  <2>2. tree # <<>>
    BY <2>1 DEF PathInv, NoMatch
  <2> QED  BY <1>1, <2>1, <2>2 DEF PathInv
<1>7. CASE WalkRoot \/ WalkCapped
  <2>1. pc = "walk" /\ pc' = "done" /\ result' = "false" /\ UNCHANGED <<tree, parentIdx>>
    BY <1>7 DEF WalkRoot, WalkCapped, Return
  <2> QED  BY <1>1, <2>1, FlatChecks DEF PathInv
<1>8. CASE WalkUp
  <2>1. tree # <<>> /\ pc' = "walk" /\ UNCHANGED <<tree, parentIdx>>
    BY <1>8 DEF WalkUp, PathInv
  <2> QED  BY <1>1, <2>1, <1>8 DEF WalkUp, PathInv
<1>9. CASE UNCHANGED vars
  BY <1>0, <1>1, <1>9 DEF vars, PathInv
<1> QED  BY <1>2, <1>3, <1>4, <1>5, <1>6, <1>7, <1>8, <1>9 DEF Next

\* A code that is not empty reaches no empty one.
LEMMA ReachesNames ==
    ASSUME TypeOK, Fold(code) # NoName, NEW x, Reaches(code, x)
    PROVE  x \in Name
<1>1. Fold(code) \in Name
  BY DEF TypeOK, Code, Fold
<1>2. \A n \in DOMAIN parentIdx : Fold(parentIdx[n]) \in Name
  BY DEF TypeOK, Code, Fold
<1>3. Closed(Name)
  BY <1>2 DEF Closed
<1>4. Name \in SUBSET (Name \union {NoName})
  OBVIOUS
<1> QED  BY <1>1, <1>3, <1>4 DEF Reaches

\* Without an index a code reaches itself only.
LEMMA ReachesItself ==
    ASSUME TypeOK, DOMAIN parentIdx = {}, NEW x
    PROVE  Reaches(code, x) <=> x = Fold(code)
<1>1. {Fold(code)} \in SUBSET (Name \union {NoName})
  BY DEF TypeOK, Code, Fold
<1>2. Closed({Fold(code)})
  BY DEF Closed
<1> QED  BY <1>1, <1>2 DEF Reaches

\* The client asks Holiday.IsInRegion's question of the code and of all it can
\* reach, and never fetches when the code itself will do (holiday.go:65-78,
\* client_isinregion.go:79-124).
THEOREM FlatCorrect == Spec => []FlatAgrees
<1>1. Init => PathInv
  BY DEF Init, PathInv
<1>2. ASSUME WInv, PathInv, pc = "done"
      PROVE  FlatIsInRegion(code) => result = "true" /\ tree = <<>>
  <2>1. result \in {"true", "false", "error"}
    BY <1>2 DEF WInv, TypeOK, PathInv
  <2> QED  BY <1>2, <2>1, FlatChecks DEF PathInv
<1>3. ASSUME WInv, PathInv, pc = "done", result \in {"true", "false"}
      PROVE  result = "true" <=> \E c \in Code : Reaches(code, Fold(c)) /\ FlatIsInRegion(c)
  <2>0. TypeOK /\ code \in Code /\ h.subs \in Subs
    BY <1>3 DEF WInv, TypeOK, Holiday
  <2>1. CASE tree = <<>>
    <3>1. \A c \in Code : Reaches(code, Fold(c)) <=> Fold(c) = Fold(code)
      BY <1>3, <2>0, <2>1, ReachesItself DEF PathInv
    <3>2. \A c \in Code : Fold(c) = Fold(code) => (FlatIsInRegion(c) <=> FlatIsInRegion(code))
      BY DEF FlatIsInRegion, EqualFold
    <3> QED  BY <1>3, <2>0, <2>1, <3>1, <3>2 DEF PathInv
  <2>2. CASE tree # <<>>
    <3>1. NoMatch
      BY <1>3, <2>2 DEF PathInv
    <3>2. \A c \in Code : Reaches(code, Fold(c)) =>
             (FlatIsInRegion(c) <=> \E n \in 1..Len(h.subs) : Fold(h.subs[n]) = Fold(c))
      <4> SUFFICES ASSUME NEW c \in Code, Reaches(code, Fold(c))
                   PROVE  FlatIsInRegion(c) <=> \E n \in 1..Len(h.subs) : Fold(h.subs[n]) = Fold(c)
        OBVIOUS
      <4>1. Fold(c) # NoName /\ ~h.nationwide
        BY <2>0, <3>1, ReachesNames, NameAssumption DEF NoMatch, Asks
      <4> QED  BY <4>1 DEF FlatIsInRegion, EqualFold
    <3>3. \A n \in 1..Len(h.subs) : h.subs[n] \in Code
      BY <2>0, BoundAssumption DEF Subs
    <3>4. result = "true" <=> \E n \in 1..Len(h.subs) : Reaches(code, Fold(h.subs[n]))
      BY <1>3, <2>2 DEF WInv, WalkIsReachability
    <3> QED  BY <3>2, <3>3, <3>4
  <2> QED  BY <2>1, <2>2
<1>4. WInv /\ PathInv => FlatAgrees
  BY <1>2, <1>3 DEF FlatAgrees
<1> QED  BY <1>1, <1>4, PathStep, WalkInvariance, PTL DEF Spec

-----------------------------------------------------------------------------
(* Trees whose codes are distinct.                                         *)

\* After the fetch the index is that of the tree.
FromTree ==
    /\ pc \in {"start", "fetch"} => tree = <<>>
    /\ tree # <<>> => parentIdx = buildParentIndex(tree)

LEMMA FromTreeStep == FromTree /\ [Next]_vars => FromTree'
<1> SUFFICES ASSUME FromTree, [Next]_vars PROVE FromTree'
  OBVIOUS
<1>1. CASE Fetch
  BY <1>1 DEF Fetch, FromTree
<1>2. CASE UNCHANGED <<code, tree, parentIdx>>
  <2>1. pc' \in {"start", "fetch"} => pc \in {"start", "fetch"}
    BY <1>2 DEF Next, vars, FastPath, Nationwide, EmptyCode, FlatMatch, NoSubdivisions, NoPrefix,
                NeedTree, Fetch, FetchFails, WalkMatch, WalkRoot, WalkUp, WalkCapped, Return
  <2> QED  BY <1>2, <2>1 DEF FromTree
<1> QED
  BY <1>1, <1>2 DEF Next, vars, FastPath, NeedTree, FetchFails, WalkMatch, WalkRoot,
                    WalkUp, WalkCapped

\* On such a tree the index leads from every node to its parent, and from
\* nothing else.
LEMMA TidyIndex ==
    ASSUME TypeOK, Tidy, parentIdx = buildParentIndex(tree)
    PROVE  /\ \A n \in 1..Len(tree) : tree[n].parent # 0 =>
                 /\ tree[n].parent \in 1..Len(tree)
                 /\ Fold(tree[n].code) \in DOMAIN parentIdx
                 /\ parentIdx[Fold(tree[n].code)] = tree[tree[n].parent].code
           /\ \A x \in DOMAIN parentIdx :
                 \E n \in 1..Len(tree) : tree[n].parent # 0 /\ Fold(tree[n].code) = x
           /\ \A n \in 1..Len(tree) : Fold(tree[n].code) \in Names0
<1>1. PICK N \in 0..MaxNodes : tree \in [1..N -> Node]
  BY DEF TypeOK, Tree
<1>2. N \in Nat /\ Len(tree) = N /\ \A n \in 1..N : tree[n] \in Node
  BY <1>1, BoundAssumption
<1>3. IsTree(tree)
  BY DEF TypeOK, Tree
<1>4. \A n \in 1..Len(tree) : tree[n].parent # 0 => tree[n].parent \in 1..Len(tree)
  <2> SUFFICES ASSUME NEW n \in 1..N, tree[n].parent # 0 PROVE tree[n].parent \in 1..N
    BY <1>2
  <2>1. tree[n].parent \in 0..MaxNodes
    BY <1>2 DEF Node
  <2>2. tree[n].parent < n
    BY <1>2, <1>3 DEF IsTree
  <2> QED  BY <1>2, <2>1, <2>2, BoundAssumption
<1>5. Indexed(tree) = {n \in 1..Len(tree) : tree[n].parent # 0}
  BY <1>4 DEF Indexed, Tidy
<1>6. \A n \in Indexed(tree) : LastOf(tree, Fold(tree[n].code)) = n
  <2> SUFFICES ASSUME NEW n \in Indexed(tree) PROVE LastOf(tree, Fold(tree[n].code)) = n
    OBVIOUS
  <2> DEFINE IsLast(k) == /\ Fold(tree[k].code) = Fold(tree[n].code)
                          /\ \A m \in Indexed(tree) :
                                Fold(tree[m].code) = Fold(tree[n].code) => m <= k
  <2>1. \A m \in Indexed(tree) : Fold(tree[m].code) = Fold(tree[n].code) => m = n
    BY <1>5 DEF Tidy, EqualFold
  <2>2. n \in Nat
    BY <1>2, <1>5
  <2>3. IsLast(n)
    BY <2>1, <2>2
  <2>4. PICK k : k = LastOf(tree, Fold(tree[n].code))
    OBVIOUS
  <2>5. k \in Indexed(tree) /\ IsLast(k)
    BY <2>3, <2>4 DEF LastOf
  <2> QED  BY <2>1, <2>4, <2>5
<1>7. /\ DOMAIN parentIdx = {Fold(tree[n].code) : n \in Indexed(tree)}
      /\ \A n \in Indexed(tree) :
            parentIdx[Fold(tree[n].code)] = tree[tree[n].parent].code
  BY <1>6 DEF buildParentIndex
<1>8. \A n \in 1..Len(tree) : Fold(tree[n].code) \in Names0
  BY <1>2 DEF Node, Code, Fold, Names0
<1> QED  BY <1>4, <1>5, <1>7, <1>8

\* What reaches an entry through the index lies below it in the tree.
LEMMA ReachedIsAbove ==
    ASSUME TypeOK, Tidy, FromTree, tree # <<>>, ~InSubs(code), SomeReached
    PROVE  \E m, n \in 1..Len(tree) :
              EqualFold(tree[n].code, code) /\ InSubs(tree[m].code) /\ Below(m, n)
<1>1. PICK j \in 1..Len(h.subs) : Reaches(code, Fold(h.subs[j]))
  BY DEF SomeReached
<1> DEFINE x == Fold(h.subs[j])
<1>2. Fold(code) \in Names0
  BY DEF TypeOK, Code, Fold, Names0
<1>3. PICK n \in 1..Len(tree) : EqualFold(tree[n].code, code)
  <2> SUFFICES ASSUME \A n \in 1..Len(tree) : ~EqualFold(tree[n].code, code) PROVE FALSE
    OBVIOUS
  <2>1. Closed({Fold(code)})
    BY TidyIndex DEF Closed, FromTree, EqualFold
  <2>2. {Fold(code)} \in SUBSET Names0
    BY <1>2
  <2>3. x = Fold(code)
    BY <1>1, <2>1, <2>2 DEF Reaches, Names0
  <2> QED  BY <2>3 DEF InSubs, EqualFold
<1> DEFINE Above == {m \in 1..Len(tree) : Below(m, n)}
           S == {Fold(tree[m].code) : m \in Above}
<1>4. Fold(code) \in S
  BY <1>3 DEF Below, EqualFold
<1>5. Closed(S)
  <2> SUFFICES ASSUME NEW m \in Above, Fold(tree[m].code) \in DOMAIN parentIdx
               PROVE  Fold(parentIdx[Fold(tree[m].code)]) \in S
    BY DEF Closed
  <2>1. PICK k \in 1..Len(tree) : tree[k].parent # 0 /\ Fold(tree[k].code) = Fold(tree[m].code)
    BY TidyIndex DEF FromTree
  <2>2. k = m
    BY <2>1 DEF Tidy, EqualFold
  <2>3. /\ tree[m].parent \in 1..Len(tree)
        /\ parentIdx[Fold(tree[m].code)] = tree[tree[m].parent].code
    BY <2>1, <2>2, TidyIndex DEF FromTree
  <2>4. Below(tree[m].parent, n)
    BY <2>1, <2>2 DEF Below
  <2> QED  BY <2>3, <2>4
<1>6. S \in SUBSET Names0
  BY TidyIndex DEF FromTree
<1>7. x \in S
  BY <1>1, <1>4, <1>5, <1>6 DEF Reaches, Names0
<1>8. PICK m \in Above : x = Fold(tree[m].code)
  BY <1>7
<1> QED  BY <1>3, <1>8 DEF InSubs, EqualFold

\* And the other way about.
LEMMA AboveIsReached ==
    ASSUME TypeOK, Tidy, FromTree, tree # <<>>, NEW m \in 1..Len(tree), NEW n \in 1..Len(tree),
           EqualFold(tree[n].code, code), InSubs(tree[m].code), Below(m, n)
    PROVE  SomeReached
<1>1. PICK j \in 1..Len(h.subs) : Fold(h.subs[j]) = Fold(tree[m].code)
  BY DEF InSubs, EqualFold
<1>2. Reaches(code, Fold(h.subs[j]))
  <2> SUFFICES ASSUME NEW S \in SUBSET Names0, Fold(code) \in S, Closed(S)
               PROVE  Fold(tree[m].code) \in S
    BY <1>1 DEF Reaches, Names0
  <2> DEFINE T == {k \in 1..Len(tree) : Fold(tree[k].code) \in S}
  <2>1. n \in T
    BY DEF EqualFold
  <2>2. \A k \in T : tree[k].parent # 0 => tree[k].parent \in T
    <3> SUFFICES ASSUME NEW k \in T, tree[k].parent # 0 PROVE tree[k].parent \in T
      OBVIOUS
    <3>1. /\ tree[k].parent \in 1..Len(tree)
          /\ Fold(tree[k].code) \in DOMAIN parentIdx
          /\ parentIdx[Fold(tree[k].code)] = tree[tree[k].parent].code
      BY TidyIndex DEF FromTree
    <3> QED  BY <3>1 DEF Closed
  <2>3. m \in T
    BY <2>1, <2>2 DEF Below
  <2> QED  BY <2>3
<1> QED  BY <1>2 DEF SomeReached

\* Every entry of the index is an edge of the tree, repeated codes or not.
LEMMA IndexIsFromTree ==
    ASSUME TypeOK, FromTree, tree # <<>>
    PROVE  \A x \in DOMAIN parentIdx : \E n \in 1..Len(tree) :
              tree[n].parent # 0 /\ Fold(tree[n].code) = x /\ parentIdx[x] = tree[tree[n].parent].code
<1> SUFFICES ASSUME NEW x \in DOMAIN parentIdx
             PROVE  \E n \in 1..Len(tree) :
                       /\ tree[n].parent # 0 /\ Fold(tree[n].code) = x
                       /\ parentIdx[x] = tree[tree[n].parent].code
  OBVIOUS
<1>1. PICK N \in Nat : Len(tree) = N
  <2>1. PICK N \in 0..MaxNodes : tree \in [1..N -> Node]
    BY DEF TypeOK, Tree
  <2> QED  BY <2>1, BoundAssumption
<1>2. parentIdx = buildParentIndex(tree)
  BY DEF FromTree
<1>3. x \in {Fold(tree[n].code) : n \in Indexed(tree)}
  BY <1>2 DEF buildParentIndex
<1> DEFINE T == {n \in Indexed(tree) : Fold(tree[n].code) = x}
<1>4. T \in SUBSET (1..N) /\ T # {}
  BY <1>1, <1>3 DEF Indexed
<1>5. PICK n \in T : \A m \in T : m <= n
  BY <1>1, <1>4, LastExists
<1>6. \E k \in Indexed(tree) :
         /\ Fold(tree[k].code) = x
         /\ \A m \in Indexed(tree) : Fold(tree[m].code) = x => m <= k
  BY <1>5
<1>7. LastOf(tree, x) \in Indexed(tree) /\ Fold(tree[LastOf(tree, x)].code) = x
  BY <1>6 DEF LastOf
<1>8. parentIdx[x] = tree[tree[LastOf(tree, x)].parent].code
  BY <1>2, <1>3 DEF buildParentIndex
<1> QED  BY <1>7, <1>8 DEF Indexed

\* What holds the parents of all occurrences holds those the index knows.
LEMMA AncestralIsClosed ==
    ASSUME TypeOK, FromTree, tree # <<>>, NEW S, Ancestral(S)
    PROVE  Closed(S)
<1> SUFFICES ASSUME NEW x \in S, x \in DOMAIN parentIdx PROVE Fold(parentIdx[x]) \in S
  BY DEF Closed
<1>1. PICK n \in 1..Len(tree) :
         tree[n].parent # 0 /\ Fold(tree[n].code) = x /\ parentIdx[x] = tree[tree[n].parent].code
  BY IndexIsFromTree
<1> QED  BY <1>1 DEF Ancestral

\* On every tree a yes comes along its edges, and where codes are distinct the
\* answer is containment, at any depth and in any spelling
\* (client_isinregion.go:111-124, 146-174).
THEOREM ContainmentCorrect == Spec => []AnswerFollowsTree
<1>1. Init => FromTree
  BY DEF Init, FromTree
<1>2. ASSUME WInv, FromTree, PathInv, pc = "done", tree # <<>>, result \in {"true", "false"}
      PROVE  /\ result = "true" =>
                   \A S \in SUBSET (Name \union {NoName}) :
                      Fold(code) \in S /\ Ancestral(S) => \E n \in 1..Len(h.subs) : Fold(h.subs[n]) \in S
             /\ Tidy => (result = "true" <=>
                   \E m, n \in 1..Len(tree) :
                      EqualFold(tree[n].code, code) /\ InSubs(tree[m].code) /\ Below(m, n))
  <2>1. TypeOK /\ (result = "true" <=> SomeReached)
    BY <1>2 DEF WInv, WalkIsReachability, SomeReached
  <2>2. ~InSubs(code)
    BY <1>2 DEF PathInv, NoMatch
  <2>3. ASSUME SomeReached, NEW S \in SUBSET (Name \union {NoName}), Fold(code) \in S, Ancestral(S)
        PROVE  \E n \in 1..Len(h.subs) : Fold(h.subs[n]) \in S
    <3>1. Closed(S)
      BY <1>2, <2>1, <2>3, AncestralIsClosed
    <3> QED  BY <2>3, <3>1 DEF SomeReached, Reaches
  <2>4. ASSUME Tidy
        PROVE  SomeReached <=> \E m, n \in 1..Len(tree) :
                  EqualFold(tree[n].code, code) /\ InSubs(tree[m].code) /\ Below(m, n)
    BY <1>2, <2>1, <2>2, <2>4, ReachedIsAbove, AboveIsReached
  <2> QED  BY <2>1, <2>3, <2>4
<1>3. WInv /\ FromTree /\ PathInv => AnswerFollowsTree
  BY <1>2 DEF AnswerFollowsTree
<1>4. Init => PathInv
  BY DEF Init, PathInv
<1> QED  BY <1>1, <1>3, <1>4, FromTreeStep, PathStep, WalkInvariance, PTL DEF Spec
-----------------------------------------------------------------------------

\* The steps that may be left: those of the walk are the nodes not yet counted.
StepsLeft == CASE pc = "start" -> MaxNodes + 3
               [] pc = "fetch" -> MaxNodes + 2
               [] pc = "walk"  -> MaxNodes - i + 1
               [] pc = "done"  -> 0

\* On every tree, cyclic indexes included, each step of a call leaves fewer steps to
\* take, and never more than the size of a tree and 3
\* (client_isinregion.go:106-112).
THEOREM WalksEnd == Spec => [](StepsLeft \in 0..(MaxNodes + 3)) /\ [][StepsLeft' < StepsLeft]_vars
<1>1. TypeOK => StepsLeft \in 0..(MaxNodes + 3)
  <2> SUFFICES ASSUME TypeOK PROVE StepsLeft \in 0..(MaxNodes + 3)
    OBVIOUS
  <2>1. i \in Int /\ 0 <= i /\ i <= MaxNodes /\ MaxNodes \in Nat
    BY BoundAssumption DEF TypeOK
  <2> QED  BY <2>1 DEF StepsLeft, TypeOK
<1>2. WInv /\ WInv' /\ [Next]_vars => [StepsLeft' < StepsLeft]_vars
  <2> SUFFICES ASSUME WInv, WInv', Next PROVE StepsLeft' < StepsLeft
    BY DEF vars
  <2>1. i \in Int /\ 0 <= i /\ i <= MaxNodes /\ MaxNodes \in Nat
    BY BoundAssumption DEF WInv, TypeOK
  <2>2. i' \in Int /\ 0 <= i'
    BY BoundAssumption DEF WInv, TypeOK
  <2>3. CASE FastPath \/ NeedTree \/ FetchFails
    BY <2>1, <2>3 DEF FastPath, Nationwide, EmptyCode, FlatMatch, NoSubdivisions, NoPrefix,
           NeedTree, FetchFails, Return, StepsLeft
  <2>4. CASE Fetch
    BY <2>1, <2>2, <2>4 DEF Fetch, StepsLeft
  <2>5. CASE WalkMatch \/ WalkRoot \/ WalkCapped
    BY <2>1, <2>5 DEF WalkMatch, WalkRoot, WalkCapped, Return, StepsLeft
  <2>6. CASE WalkUp
    <3>1. pc = "walk" /\ pc' = "walk" /\ i' = i + 1
      BY <2>1, <2>6 DEF WalkUp
    <3> QED  BY <2>1, <3>1 DEF StepsLeft
  <2> QED  BY <2>3, <2>4, <2>5, <2>6 DEF Next
<1> QED  BY <1>1, <1>2, TypeCorrect, WalkInvariance, PTL DEF Spec
=============================================================================

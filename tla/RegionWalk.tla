----------------------------- MODULE RegionWalk -----------------------------
(***************************************************************************)
(* Client.IsInRegion (client_isinregion.go): does a holiday apply to a     *)
(* subdivision, given the subdivision tree the upstream returns?  The fast *)
(* paths, the fetch, the child -> parent index and the capped walk upward. *)
(*                                                                         *)
(* The tree is whatever the upstream sends: codes may repeat, differ in    *)
(* case from one occurrence to the next, or be empty, so that the index    *)
(* built from a finite tree can still hold a cycle.                        *)
(***************************************************************************)
EXTENDS Integers, FiniteSets, Sequences

CONSTANTS
    Name,       \* subdivision codes up to letter case, the empty one excluded
    NoName,     \* the empty code
    Hyphenated, \* those that carry a country prefix
    Spelling,   \* letter cases a code occurs in
    MaxNodes,   \* bound: nodes of a tree
    MaxSubs     \* bound: entries of h.Subdivisions

ASSUME NameAssumption  == NoName \notin Name /\ Hyphenated \subseteq Name
ASSUME BoundAssumption == MaxNodes \in Nat /\ MaxSubs \in Nat

Code   == [name : Name \union {NoName}, spelling : Spelling]
Fold(c) == c.name                           \* strings.ToUpper
EqualFold(c, d) == Fold(c) = Fold(d)        \* strings.EqualFold

\* A tree, listed depth first: each node names its parent's place, 0 at the
\* top.  Between a parent and its child there are only descendants of the
\* parent.
Node == [code : Code, parent : 0..MaxNodes]
IsTree(t) ==
    /\ \A n \in 1..Len(t) : t[n].parent < n
    /\ \A n \in 1..Len(t), m \in 1..Len(t) :
          t[n].parent < m /\ m < n => t[m].parent >= t[n].parent
Tree == {t \in UNION {[1..n -> Node] : n \in 0..MaxNodes} : IsTree(t)}

Subs == UNION {[1..n -> Code] : n \in 0..MaxSubs}

VARIABLES
    h,          \* the holiday: [nationwide, subs]
    code,       \* the code asked for
    pc,         \* "start", "fetch", "walk" or "done"
    tree,       \* the tree that was fetched
    parentIdx,  \* child -> parent, keyed by folded code
    current, i, \* loop variables of the walk
    result      \* "none", "true", "false" or "error"

vars == <<h, code, pc, tree, parentIdx, current, i, result>>

Holiday == [nationwide : BOOLEAN, subs : Subs]
InSubs(c) == \E n \in 1..Len(h.subs) : EqualFold(h.subs[n], c)

TypeOK ==
    /\ h \in Holiday
    /\ code \in Code
    /\ pc \in {"start", "fetch", "walk", "done"}
    /\ tree \in Tree
    /\ DOMAIN parentIdx \subseteq Name \union {NoName}
    /\ \A n \in DOMAIN parentIdx : parentIdx[n] \in Code /\ Fold(parentIdx[n]) # NoName
    /\ current \in Code
    /\ i \in 0..MaxNodes
    /\ result \in {"none", "true", "false", "error"}

Init ==
    /\ h \in Holiday
    /\ code \in Code
    /\ pc = "start" /\ result = "none"
    /\ tree = <<>> /\ parentIdx = <<>>
    /\ current = code /\ i = 0

Return(r) == pc' = "done" /\ result' = r

-----------------------------------------------------------------------------

(* Holiday.IsInRegion: no tree, no I/O.                                    *)

FlatIsInRegion(c) ==
    \/ h.nationwide
    \/ Fold(c) # NoName /\ \E n \in 1..Len(h.subs) : EqualFold(h.subs[n], c)

-----------------------------------------------------------------------------
(* Client.IsInRegion: what it answers before it needs a tree.              *)

Nationwide == h.nationwide /\ Return("true")

EmptyCode_First == Fold(code) = NoName /\ Return("false")
EmptyCode == ~h.nationwide /\ Fold(code) = NoName /\ Return("false")

\* Past the first two checks, and past the loop over h.Subdivisions.
Asks    == ~h.nationwide /\ Fold(code) # NoName
NoMatch == Asks /\ ~InSubs(code)

FlatMatch == Asks /\ InSubs(code) /\ Return("true")

\* No country to fetch the tree for.
NoSubdivisions == NoMatch /\ h.subs = <<>> /\ Return("false")

splitCountry == Fold(h.subs[1]) \in Hyphenated

NoPrefix == NoMatch /\ h.subs # <<>> /\ ~splitCountry /\ Return("false")

FastPath ==
    /\ pc = "start"
    /\ Nationwide \/ EmptyCode \/ FlatMatch \/ NoSubdivisions \/ NoPrefix
    /\ UNCHANGED <<h, code, tree, parentIdx, current, i>>

NeedTree ==
    /\ pc = "start"
    /\ NoMatch /\ h.subs # <<>> /\ splitCountry
    /\ pc' = "fetch"
    /\ UNCHANGED <<h, code, tree, parentIdx, current, i, result>>

-----------------------------------------------------------------------------
(* The fetch and the walk.                                                 *)

\* The nodes that get an entry: those below a parent with a code.  A code that
\* occurs twice keeps the parent of its last occurrence.
Indexed_OneLevel(t) == {n \in 1..Len(t) :
    /\ t[n].parent # 0 /\ t[t[n].parent].parent = 0
    /\ Fold(t[t[n].parent].code) # NoName}
Indexed(t) == {n \in 1..Len(t) :
                 t[n].parent # 0 /\ Fold(t[t[n].parent].code) # NoName}
LastOf(t, x) == CHOOSE n \in Indexed(t) :
                   /\ Fold(t[n].code) = x
                   /\ \A m \in Indexed(t) : Fold(t[m].code) = x => m <= n
buildParentIndex(t) ==
    [x \in {Fold(t[n].code) : n \in Indexed(t)} |-> t[t[LastOf(t, x)].parent].code]

\* c.Subdivisions answers with a tree, or fails.
Fetch ==
    /\ pc = "fetch"
    /\ pc' = "walk"
    /\ \E t \in Tree : tree' = t /\ parentIdx' = buildParentIndex(t)
    /\ current' = code /\ i' = 0
    /\ UNCHANGED <<h, code, result>>

FetchFails ==
    /\ pc = "fetch"
    /\ Return("error")
    /\ UNCHANGED <<h, code, tree, parentIdx, current, i>>

\* The loop condition: i <= len(parentIdx).
WithinCap_OneShort == i < Cardinality(DOMAIN parentIdx)
WithinCap_NoCap == TRUE
WithinCap == i <= Cardinality(DOMAIN parentIdx)

WalkMatch ==
    /\ pc = "walk" /\ WithinCap
    /\ InSubs(current)
    /\ Return("true")
    /\ UNCHANGED <<h, code, tree, parentIdx, current, i>>

WalkRoot ==
    /\ pc = "walk" /\ WithinCap
    /\ ~InSubs(current) /\ Fold(current) \notin DOMAIN parentIdx
    /\ Return("false")
    /\ UNCHANGED <<h, code, tree, parentIdx, current, i>>

\* The counter stops at MaxNodes + 1, which the cap keeps it from reaching.
WalkUp ==
    /\ pc = "walk" /\ WithinCap
    /\ ~InSubs(current) /\ Fold(current) \in DOMAIN parentIdx
    /\ current' = parentIdx[Fold(current)]
    /\ i' = IF i <= MaxNodes THEN i + 1 ELSE i
    /\ UNCHANGED <<h, code, pc, tree, parentIdx, result>>

WalkCapped ==
    /\ pc = "walk" /\ ~WithinCap
    /\ Return("false")
    /\ UNCHANGED <<h, code, tree, parentIdx, current, i>>

Next == \/ FastPath \/ NeedTree \/ Fetch \/ FetchFails
        \/ WalkMatch \/ WalkRoot \/ WalkUp \/ WalkCapped

Spec == Init /\ [][Next]_vars

\* The loop goes on; that the fetch before it returns is module Request's.
Walk == WalkMatch \/ WalkRoot \/ WalkUp \/ WalkCapped
FairSpec == Spec /\ WF_vars(Walk)

-----------------------------------------------------------------------------
(* What must be true of it.                                                *)

\* S holds the parents of all its members.
Closed(S) == \A n \in S \intersect DOMAIN parentIdx : Fold(parentIdx[n]) \in S
\* x is c or can be reached from it through the index, in any number of steps.
Reaches(c, x) == \A S \in SUBSET (Name \union {NoName}) : Fold(c) \in S /\ Closed(S) => x \in S

\* The walk answers yes exactly if some entry of the holiday can be reached:
\* the cap of len(parentIdx)+1 rounds never cuts a walk short of an answer, and
\* a cycle in the index never keeps it from one (client_isinregion.go:106-122).
WalkIsReachability ==
    pc = "done" /\ tree # <<>> /\ result \in {"true", "false"} =>
        (result = "true" <=> \E n \in 1..Len(h.subs) : Reaches(code, Fold(h.subs[n])))

\* A node of a tree is m or below m.
Below(m, n) == \A S \in SUBSET (1..Len(tree)) :
    n \in S /\ (\A k \in S : tree[k].parent # 0 => tree[k].parent \in S) => m \in S
Tidy == /\ \A n, m \in 1..Len(tree) : EqualFold(tree[n].code, tree[m].code) => n = m
        /\ \A n \in 1..Len(tree) : Fold(tree[n].code) # NoName

\* S holds the codes of the parents of every occurrence of its members.
Ancestral(S) == \A n \in 1..Len(tree) :
    Fold(tree[n].code) \in S /\ tree[n].parent # 0 => Fold(tree[tree[n].parent].code) \in S

\* The answer follows the tree.  However often codes repeat, and whatever entries
\* of the index they overwrite, a yes comes along edges of the tree.  Where codes
\* are distinct it is containment: the code lies at or below a subdivision the
\* holiday names, however deep and however it is spelled
\* (client_isinregion.go:111-124, 146-174).
AnswerFollowsTree ==
    pc = "done" /\ tree # <<>> /\ result \in {"true", "false"} =>
        /\ result = "true" =>
              \A S \in SUBSET (Name \union {NoName}) :
                 Fold(code) \in S /\ Ancestral(S) => \E n \in 1..Len(h.subs) : Fold(h.subs[n]) \in S
        /\ Tidy => (result = "true" <=>
              \E m, n \in 1..Len(tree) :
                 EqualFold(tree[n].code, code) /\ InSubs(tree[m].code) /\ Below(m, n))

\* Client.IsInRegion is Holiday.IsInRegion of the code or of one it can reach: on
\* the fast paths, with a tree, and with an empty tree alike.  What the flat test
\* settles costs no request, and so cannot fail (holiday.go:65-78,
\* client_isinregion.go:79-124).
FlatAgrees ==
    pc = "done" =>
        /\ result \in {"true", "false"} =>
              (result = "true" <=> \E c \in Code : Reaches(code, Fold(c)) /\ FlatIsInRegion(c))
        /\ FlatIsInRegion(code) => result = "true" /\ tree = <<>>

\* Every walk ends, on cyclic indexes too (client_isinregion.go:106-109).
EveryWalkEnds == pc = "walk" ~> pc = "done"
=============================================================================

------------------------------- MODULE CliProofs -------------------------------
(***************************************************************************)
(* The exit-code contract of Cli, the reading of its lines and the end of  *)
(* its loops, for every set of tokens and years and command lines of any   *)
(* length.                                                                 *)
(***************************************************************************)
EXTENDS Cli, Functions, SequenceTheorems, FiniteSetTheorems, TLAPS

USE ArgsAssumption

-----------------------------------------------------------------------------
(* Types.                                                                  *)

\* The lists of reorderArgs and what flag.Parse has left are tokens.
Lists ==
    /\ flags \in Seq(Token) /\ positionals \in Seq(Token) /\ args \in Seq(Token)

LEMMA TypeInit == Init => TypeOK /\ Lists
<1> SUFFICES ASSUME Init PROVE TypeOK /\ Lists
  OBVIOUS
<1>1. argv \in Seq(Token) /\ Len(argv) <= MaxArgs
  BY DEF Init
<1>2. Lists
  BY DEF Init, Lists
<1>3. strs \in [StringFlag("school") -> Values] /\ bools \in [BoolFlag -> BOOLEAN]
  BY DEF Init, Values
<1>4. cmd \in Command /\ pc = "run" /\ i = 1 /\ flags = <<>> /\ positionals = <<>>
      /\ args = <<>> /\ request = None /\ sent = FALSE /\ exit = -1
  BY DEF Init
<1>5. i \in 1..(MaxArgs + 1) /\ Len(flags) + Len(positionals) = i - 1
  BY <1>4
<1>6. \A s \in {flags, positionals, args} : \A k \in DOMAIN s : s[k] \in Token
  BY <1>4
<1>7. QED
  BY <1>1, <1>2, <1>3, <1>4, <1>5, <1>6 DEF TypeOK

LEMMA TypeReorder ==
    ASSUME TypeOK, Lists, Reorder
    PROVE  TypeOK' /\ Lists'
<1>1. /\ UNCHANGED <<line, strs, bools, outcome>>
      /\ pc' \in {"reorder", "parse"}
  BY DEF Reorder, ReorderWord, ReorderAlone, ReorderPair, ReorderUnpaired, ReorderEnd,
         InLoop, ToPositionals, ToFlags, parsed
<1>2. /\ i' \in 1..(MaxArgs + 1)
      /\ Len(flags') + Len(positionals') = i' - 1
      /\ Lists'
  <2>1. i \in Nat /\ Len(argv) \in Nat /\ argv \in Seq(Token) /\ Len(argv) <= MaxArgs
    BY DEF TypeOK
  <2>2. CASE ReorderWord
    BY <2>1, <2>2 DEF ReorderWord, InLoop, ToPositionals, TypeOK, Lists, parsed
  <2>3. ASSUME NEW n \in {1, 2}, ToFlags(n), i + n <= Len(argv) + 1
        PROVE  /\ i' \in 1..(MaxArgs + 1)
               /\ Len(flags') + Len(positionals') = i' - 1
               /\ Lists'
    <3> DEFINE taken == SubSeq(argv, i, i + n - 1)
    <3>1. i \in 1..(MaxArgs + 1) /\ \A k \in i..(i + n - 1) : argv[k] \in Token
      BY <2>1, <2>3 DEF TypeOK
    <3>2. taken \in Seq(Token) /\ Len(taken) = n
      BY <2>1, <2>3, <3>1, SubSeqProperties
    <3>3. flags' = flags \o taken /\ i' = i + n /\ UNCHANGED <<positionals, args>>
      BY <2>3 DEF ToFlags, parsed
    <3> HIDE DEF taken
    <3>4. flags' \in Seq(Token) /\ Len(flags') = Len(flags) + n
      BY <3>2, <3>3, ConcatProperties DEF Lists
    <3>5. Len(flags) \in Nat /\ Len(positionals) \in Nat /\ Len(flags) + Len(positionals) = i - 1
      BY DEF Lists, TypeOK
    <3>6. i' \in 1..(MaxArgs + 1)
      BY <2>1, <2>3, <3>1, <3>3
    <3>7. Len(flags') + Len(positionals') = i' - 1
      <4>1. Len(positionals') = Len(positionals)
        BY <3>3
      <4>2. i \in Nat /\ n \in Nat /\ i' = i + n /\ Len(flags') = Len(flags) + n
        BY <2>1, <2>3, <3>3, <3>4
      <4>3. QED
        BY <3>5, <4>1, <4>2
    <3>8. Lists'
      BY <3>3, <3>4 DEF Lists
    <3>9. QED
      BY <3>6, <3>7, <3>8
  <2>4. CASE ReorderAlone \/ ReorderUnpaired
    BY <2>1, <2>3, <2>4 DEF ReorderAlone, ReorderUnpaired, InLoop
  <2>5. CASE ReorderPair
    <3>1. i < Len(argv) /\ ToFlags(2)
      BY <2>5 DEF ReorderPair, TakesNext
    <3>2. i + 2 <= Len(argv) + 1
      BY <2>1, <3>1
    <3>3. QED
      BY <2>3, <3>1, <3>2, Zenon
  <2>6. CASE ReorderEnd
    BY <2>6 DEF ReorderEnd, reorder, TypeOK, Lists
  <2>7. QED
    BY <2>2, <2>4, <2>5, <2>6 DEF Reorder
<1>3. QED
  BY <1>1, <1>2 DEF TypeOK, Lists, line, outcome

LEMMA TypeParse ==
    ASSUME TypeOK, Lists, Parse
    PROVE  TypeOK' /\ Lists'
<1>1. UNCHANGED <<line, reorder, request, sent>>
  BY DEF Parse, ParseEnd, ParseTerminator, ParseError, ParseBool, ParseString, parsed,
         outcome
<1>2. pc' \in {"parse", "check", "done"} /\ exit' \in {-1, 0, 1, 2}
  BY DEF Parse, ParseEnd, ParseTerminator, ParseError, ParseBool, ParseString, AtFlag,
         Exit, outcome, TypeOK
<1>3. args' \in Seq(Token)
  <2>1. args # <<>> => Tail(args) \in Seq(Token)
    BY HeadTailProperties DEF Lists
  <2>2. Tail(args) \in Seq(Token) /\ Tail(args) # <<>> => Tail(Tail(args)) \in Seq(Token)
    BY HeadTailProperties
  <2>3. QED
    BY <2>1, <2>2 DEF Parse, ParseEnd, ParseTerminator, ParseError, ParseBool, ParseString, AtFlag,
       parsed, Lists
<1>4. strs' \in [StringFlag("school") -> Values]
  <2>1. CASE ParseString
    <3>1. args # <<>> /\ Head(args) \in Token /\ StringFlag(cmd) \subseteq StringFlag("school")
      BY <2>1 DEF ParseString, AtFlag, Lists, StringFlag
    <3>2. Tail(args) # <<>> => args[2] \in Token
      BY <3>1 DEF Lists
    <3>3. QED
      BY <2>1, <3>1, <3>2 DEF ParseString, TypeOK, Values
  <2>2. QED
    BY <2>1 DEF Parse, ParseEnd, ParseTerminator, ParseError, ParseBool, parsed, TypeOK
<1>5. bools' \in [BoolFlag -> BOOLEAN]
  BY DEF Parse, ParseEnd, ParseTerminator, ParseError, ParseBool, ParseString, parsed,
         TypeOK
<1>6. QED
  BY <1>1, <1>2, <1>3, <1>4, <1>5 DEF TypeOK, Lists, line, reorder

LEMMA TypeHandle ==
    ASSUME TypeOK, Lists, Run \/ Handle
    PROVE  TypeOK' /\ Lists'
<1>1. UNCHANGED <<line, reorder, parsed>>
  BY DEF Run, Handle, RunUsage, RunInfo, RunHandler, CheckFails, Ask, Rejected, Unsendable,
         Failed, NothingFound, Found, Render
<1>2. /\ pc' \in {"reorder", "library", "render", "done"}
      /\ sent' \in BOOLEAN /\ exit' \in {-1, 0, 1, 2}
  BY DEF Run, Handle, RunUsage, RunInfo, RunHandler, CheckFails, Ask, Rejected, Unsendable,
         Failed, NothingFound, Found, Render, Exit, outcome, libErrExitCode, TypeOK
<1>3. request' \in Request \union {None}
  <2>1. CASE Ask
    <3>1. strs["lang"] \in Values /\ strs["region"] \in Values
      BY DEF TypeOK, StringFlag
    <3>2. Chosen(strs["format"], bools).text \in Format
      <4>1. PICK x \in Format : Chosen(strs["format"], bools) = Plain(x)
        BY <2>1 DEF Ask, Acceptable
      <4>2. Plain(x).text = x
        BY DEF Plain
      <4>3. QED
        BY <4>1, <4>2
    <3>3. cmd # "countries" => args[1] \in Values /\ args[2] \in Values
      <4>1. cmd # "countries" => Len(args) = 2
        BY <2>1 DEF Ask, Acceptable, NArg
      <4>2. QED
        BY <4>1 DEF Lists, Values
    <3>4. Default \in Values
      BY DEF Values
    <3>5. QED
      BY <2>1, <3>1, <3>2, <3>3, <3>4 DEF Ask, Asked, Request
  <2>2. QED
    BY <2>1 DEF Run, Handle, RunUsage, RunInfo, RunHandler, CheckFails, Rejected, Unsendable,
       Failed, NothingFound, Found, Render, outcome, TypeOK
<1>4. QED
  BY <1>1, <1>2, <1>3 DEF TypeOK, Lists, line, reorder, parsed

LEMMA TypeLists ==
    ASSUME TypeOK, Lists, [Next]_vars
    PROVE  TypeOK' /\ Lists'
<1>1. CASE UNCHANGED vars
  BY <1>1 DEF vars, line, reorder, parsed, outcome, TypeOK, Lists
<1>2. QED
  BY <1>1, TypeReorder, TypeParse, TypeHandle DEF Next

\* Types, for lines of any length: in particular reorderArgs keeps every token it
\* has passed, and what the library is asked is made of what was typed.
THEOREM TypeCorrect == Spec => []TypeOK
<1>1. TypeOK /\ Lists /\ [Next]_vars => (TypeOK /\ Lists)'
  BY TypeLists
<1>2. QED
  BY <1>1, TypeInit, PTL DEF Spec

-----------------------------------------------------------------------------
(* The exit code.                                                          *)

\* Something was sent only once the library was asked, and a run that has not
\* ended has no exit code.
SentLate == sent => pc \in {"render", "done"}
ExitLast == pc # "done" => exit = -1

CInv == SentLate /\ ExitLast /\ UsageErrorSendsNothing

\* libErrExitCode (public.go:8-18): what is not one of the sentinels is not the
\* caller's mistake.
LEMMA FailureIsNotUsage ==
    ASSUME NEW e \in OtherError
    PROVE  libErrExitCode(e) = 1
BY DEF libErrExitCode, OtherError, Sentinel

LEMMA CInit == Init => CInv
BY DEF Init, CInv, SentLate, ExitLast, UsageErrorSendsNothing

LEMMA RunStep ==
    ASSUME CInv, Run
    PROVE  CInv'
BY DEF CInv, SentLate, ExitLast, UsageErrorSendsNothing, Run, RunUsage, RunInfo,
       RunHandler, Exit, outcome

LEMMA ReorderStep ==
    ASSUME CInv, Reorder
    PROVE  CInv'
<1>1. pc = "reorder" /\ pc' \in {"reorder", "parse"} /\ UNCHANGED outcome
  BY DEF Reorder, ReorderWord, ReorderAlone, ReorderPair, ReorderUnpaired, ReorderEnd,
         InLoop, ToPositionals, ToFlags
<1>2. QED
  BY <1>1 DEF CInv, SentLate, ExitLast, UsageErrorSendsNothing, outcome

LEMMA ParseStep ==
    ASSUME CInv, Parse
    PROVE  CInv'
<1>1. pc = "parse" /\ sent' = sent
  BY DEF Parse, ParseEnd, ParseTerminator, ParseError, ParseBool, ParseString, AtFlag,
         outcome
<1>2. \/ pc' \in {"parse", "check"} /\ exit' = exit
      \/ pc' = "done" /\ exit' = 2
  BY DEF Parse, ParseEnd, ParseTerminator, ParseError, ParseBool, ParseString, AtFlag,
         Exit, outcome
<1>3. ~sent /\ exit = -1
  BY <1>1 DEF CInv, SentLate, ExitLast
<1>4. QED
  BY <1>1, <1>2, <1>3 DEF CInv, SentLate, ExitLast, UsageErrorSendsNothing

LEMMA HandleStep ==
    ASSUME CInv, Handle
    PROVE  CInv'
<1> USE DEF CInv, SentLate, ExitLast, UsageErrorSendsNothing, Exit
<1>1. CASE CheckFails
  BY <1>1 DEF CheckFails
<1>2. CASE Ask
  BY <1>2 DEF Ask
<1>3. CASE Rejected
  BY <1>3 DEF Rejected
<1>4. CASE Unsendable
  BY <1>4 DEF Unsendable
<1>5. CASE Failed
  BY <1>5, FailureIsNotUsage DEF Failed
<1>6. CASE NothingFound
  BY <1>6 DEF NothingFound
<1>7. CASE Found
  BY <1>7 DEF Found
<1>8. CASE Render
  BY <1>8 DEF Render
<1>9. QED
  BY <1>1, <1>2, <1>3, <1>4, <1>5, <1>6, <1>7, <1>8 DEF Handle

\* A run sends nothing before the library accepted what it was asked, and has
\* an exit code only when it has ended.
THEOREM RunInvariance == Spec => []CInv
<1>1. CInv /\ [Next]_vars => CInv'
  <2>1. ASSUME CInv, UNCHANGED vars
        PROVE  CInv'
    BY <2>1 DEF vars, outcome, CInv, SentLate, ExitLast, UsageErrorSendsNothing
  <2>2. QED
    BY <2>1, RunStep, ReorderStep, ParseStep, HandleStep DEF Next
<1>2. QED
  BY <1>1, CInit, PTL DEF Spec

\* Exit code 2 is for the caller's mistakes, whatever was typed: no run that ends
\* with it has sent a request (public.go:8-18, main.go:210-215).
THEOREM MistakesStayLocal == Spec => []UsageErrorSendsNothing
<1>1. CInv => UsageErrorSendsNothing
  BY DEF CInv
<1>2. QED
  BY <1>1, RunInvariance, PTL

-----------------------------------------------------------------------------
(* Order.  reorderArgs sorts the line into the tokens that belong to flags  *)
(* and the free words, each in the order typed; flag.Parse then meets every *)
(* flag, with the word it owns right behind it, before any free word.       *)

\* s lists the tokens of l at the positions S, in the order of the line.
InOrder(l, s, S) ==
    \E w \in [1..Len(s) -> S] :
        /\ \A x \in S : \E k \in 1..Len(s) : w[k] = x
        /\ \A j, k \in 1..Len(s) : j < k => w[j] < w[k]
        /\ \A k \in 1..Len(s) : s[k] = l[w[k]]

\* Flags and the words they own.
Bound(l) == DOMAIN l \ Free(l)

From(S, b) == {j \in S : j >= b}
Below(S, b) == {j \in S : j < b}

\* No flag before position b owns the word at b.
Boundary(l, b) == b \in 1..(Len(l) + 1) /\ (b > 1 => ~TakesValue(l[b - 1]))

\* What the flag at position j gives.
ValueAt(l, j) == IF l[j].kind = "set" THEN Plain(l[j].text) ELSE l[j + 1]
SaysOn(t) == t.kind = "flag" \/ t.text \in Yes

IsLast(S, j) == j \in S /\ \A k \in S : k <= j

\* The flags before position b have been read into ss and bs: none is bad, and
\* the last of each name counts.
StringRead(l, v, f, b) ==
    LET G == Below(Given(l, f), b)
    IN \/ G = {} /\ v = Default
       \/ \E j \in G : IsLast(G, j) /\ v = ValueAt(l, j)
BoolRead(l, v, f, b) ==
    LET G == Below(Given(l, f), b)
    IN \/ G = {} /\ ~v
       \/ \E j \in G : IsLast(G, j) /\ (v <=> SaysOn(l[j]))
ReadUpTo(c, l, ss, bs, b) ==
    /\ \A j \in Below(DOMAIN l, b) : ~BadFlag(c, l[j])
    /\ \A f \in StringFlag("school") : StringRead(l, ss[f], f, b)
    /\ \A f \in BoolFlag : BoolRead(l, bs[f], f, b)

FlagsRead(b) == ReadUpTo(cmd, argv, strs, bools, b)

Sorted ==
    /\ Boundary(argv, i)
    /\ InOrder(argv, flags, Below(Bound(argv), i))
    /\ InOrder(argv, positionals, Below(Free(argv), i))

\* flag.Parse has read the flags before b and has the others in front of it.
Parsing ==
    \E b \in 1..(Len(argv) + 1), s, p \in Seq(Token) :
        /\ Boundary(argv, b) /\ FlagsRead(b)
        /\ args = s \o p
        /\ InOrder(argv, s, From(Bound(argv), b))
        /\ InOrder(argv, p, Free(argv))

\* The handler sees the free words and every flag read.
Ready == FlagsRead(Len(argv) + 1) /\ InOrder(argv, args, Free(argv))

LineInv ==
    cmd \in Handler /\ WellFormed(argv) =>
        /\ pc \in {"run", "reorder"} => FlagsRead(1) /\ Sorted
        /\ pc = "parse" => Parsing
        /\ pc = "check" => Ready
        /\ pc \in {"run", "reorder", "parse", "check"} => request = None
        /\ OrderIsIrrelevant

LEMMA InOrderEmpty ==
    ASSUME NEW l
    PROVE  InOrder(l, <<>>, {})
<1> DEFINE w == [k \in 1..0 |-> k]
<1>1. w \in [1..Len(<<>>) -> {}]
  OBVIOUS
<1>2. QED
  BY <1>1 DEF InOrder

LEMMA InOrderNil ==
    ASSUME NEW l, NEW S, NEW s \in Seq(Token), InOrder(l, s, S)
    PROVE  s = <<>> <=> S = {}
<1>1. s # <<>> => Len(s) \in Nat /\ Len(s) >= 1
  BY EmptySeq
<1>2. S # {} => s # <<>>
  BY DEF InOrder
<1>3. s # <<>> => S # {}
  BY <1>1 DEF InOrder
<1>4. QED
  BY <1>2, <1>3

\* A list in order stays in order when the next position's token is appended.
LEMMA InOrderAppend ==
    ASSUME NEW l \in Seq(Token), NEW s \in Seq(Token), NEW S \in SUBSET Nat,
           NEW x \in DOMAIN l, \A y \in S : y < x, InOrder(l, s, S)
    PROVE  InOrder(l, Append(s, l[x]), S \union {x})
<1> DEFINE n == Len(s)
           T == S \union {x}
           a == Append(s, l[x])
<1>1. PICK w \in [1..n -> S] :
        /\ \A y \in S : \E k \in 1..n : w[k] = y
        /\ \A j, k \in 1..n : j < k => w[j] < w[k]
        /\ \A k \in 1..n : s[k] = l[w[k]]
  BY DEF InOrder
<1> DEFINE v == [k \in 1..(n + 1) |-> IF k = n + 1 THEN x ELSE w[k]]
<1>2. n \in Nat /\ x \in Nat /\ l[x] \in Token
  BY LenProperties
<1>3. Len(a) = n + 1 /\ a[n + 1] = l[x] /\ \A k \in 1..n : a[k] = s[k]
  BY <1>2, AppendProperties
<1> HIDE DEF n, a
<1>4. v \in [1..(n + 1) -> T] /\ v[n + 1] = x /\ \A k \in 1..n : v[k] = w[k] /\ w[k] \in S
  BY <1>1, <1>2
<1>5. \A y \in T : \E k \in 1..(n + 1) : v[k] = y
  <2>1. ASSUME NEW y \in S PROVE \E k \in 1..(n + 1) : v[k] = y
    <3>1. PICK k \in 1..n : w[k] = y
      BY <1>1
    <3>2. k \in 1..(n + 1) /\ v[k] = y
      BY <1>2, <1>4, <3>1
    <3>3. QED
      BY <3>2
  <2>2. n + 1 \in 1..(n + 1)
    BY <1>2
  <2>3. QED
    BY <1>4, <2>1, <2>2
<1>6. \A j, k \in 1..(n + 1) : j < k => v[j] < v[k]
  <2>1. \A k \in 1..(n + 1) : k \in 1..n \/ k = n + 1
    BY <1>2
  <2>2. ASSUME NEW j \in 1..n, NEW k \in 1..n, j < k PROVE v[j] < v[k]
    BY <1>1, <1>4, <2>2
  <2>3. \A j \in 1..n : v[j] < v[n + 1]
    BY <1>4
  <2>4. \A j \in 1..(n + 1) : ~(n + 1 < j)
    BY <1>2
  <2>5. QED
    BY <2>1, <2>2, <2>3, <2>4
<1>7. \A k \in 1..(n + 1) : a[k] = l[v[k]]
  BY <1>1, <1>2, <1>3, <1>4
<1> HIDE DEF v, T
<1>8. InOrder(l, a, T)
  BY <1>3, <1>4, <1>5, <1>6, <1>7 DEF InOrder
<1>9. QED
  BY <1>8 DEF a, T

\* The head of a list in order is the token of the least position.
LEMMA InOrderHead ==
    ASSUME NEW l \in Seq(Token), NEW s \in Seq(Token), NEW S \in SUBSET Nat,
           s # <<>>, InOrder(l, s, S)
    PROVE  \E x \in S : /\ \A y \in S : x <= y
                        /\ Head(s) = l[x]
                        /\ InOrder(l, Tail(s), S \ {x})
<1> DEFINE n == Len(s)
<1>1. PICK w \in [1..n -> S] :
        /\ \A y \in S : \E k \in 1..n : w[k] = y
        /\ \A j, k \in 1..n : j < k => w[j] < w[k]
        /\ \A k \in 1..n : s[k] = l[w[k]]
  BY DEF InOrder
<1> DEFINE x == w[1]
           v == [k \in 1..(n - 1) |-> w[k + 1]]
           a == Tail(s)
<1>2. n \in Nat /\ n >= 1 /\ Head(s) = s[1]
  BY EmptySeq
<1>3. Len(a) = n - 1 /\ \A k \in 1..(n - 1) : a[k] = s[k + 1]
  BY <1>2, HeadTailProperties
<1> HIDE DEF n, a
<1>4. x \in S /\ \A k \in 1..n : w[k] \in S /\ w[k] \in Nat /\ (k # 1 => x < w[k])
  <2>1. \A k \in 1..n : w[k] \in S /\ w[k] \in Nat
    BY <1>1
  <2>2. 1 \in 1..n /\ \A k \in 1..n : k # 1 => 1 < k
    BY <1>2
  <2>3. QED
    BY <1>1, <2>1, <2>2
<1>5. v \in [1..(n - 1) -> S \ {x}] /\ \A k \in 1..(n - 1) : v[k] = w[k + 1]
  BY <1>2, <1>4
<1>6. \A y \in S \ {x} : \E k \in 1..(n - 1) : v[k] = y
  <2>1. ASSUME NEW y \in S \ {x} PROVE \E k \in 1..(n - 1) : v[k] = y
    <3>1. PICK k \in 1..n : w[k] = y
      BY <1>1
    <3>2. k - 1 \in 1..(n - 1) /\ v[k - 1] = y
      BY <1>2, <1>5, <2>1, <3>1
    <3>3. QED
      BY <3>2
  <2>2. QED
    BY <2>1
<1>7. \A j, k \in 1..(n - 1) : j < k => v[j] < v[k]
  BY <1>1, <1>2, <1>5
<1>8. \A k \in 1..(n - 1) : a[k] = l[v[k]]
  BY <1>1, <1>2, <1>3, <1>5
<1>9. \A y \in S : x <= y
  BY <1>1, <1>2, <1>4
<1>10. Head(s) = l[x]
  BY <1>1, <1>2
<1> HIDE DEF v, x
<1>11. InOrder(l, a, S \ {x})
  <2>1. 1..Len(a) = 1..(n - 1)
    BY <1>3
  <2>2. /\ v \in [1..Len(a) -> S \ {x}]
        /\ \A y \in S \ {x} : \E k \in 1..Len(a) : v[k] = y
        /\ \A j, k \in 1..Len(a) : j < k => v[j] < v[k]
        /\ \A k \in 1..Len(a) : a[k] = l[v[k]]
    BY <1>5, <1>6, <1>7, <1>8, <2>1, Zenon
  <2>3. QED
    BY <2>2, Zenon DEF InOrder
<1>12. QED
  BY <1>4, <1>9, <1>10, <1>11 DEF a

\* A list in order has as many tokens as there are positions; a list of two is
\* the first and the last of them.
LEMMA InOrderCount ==
    ASSUME NEW l \in Seq(Token), NEW s \in Seq(Token), NEW S \in SUBSET Nat,
           InOrder(l, s, S)
    PROVE  /\ Cardinality(S) = Len(s)
           /\ Len(s) = 2 => /\ \E x \in S : s[1] = l[x] /\ \A y \in S : x <= y
                            /\ \E x \in S : s[2] = l[x] /\ \A y \in S : y <= x
<1> DEFINE n == Len(s)
<1>1. PICK w \in [1..n -> S] :
        /\ \A y \in S : \E k \in 1..n : w[k] = y
        /\ \A j, k \in 1..n : j < k => w[j] < w[k]
        /\ \A k \in 1..n : s[k] = l[w[k]]
  BY DEF InOrder
<1>2. n \in Nat
  BY LenProperties
<1> HIDE DEF n
<1>3. \A k \in 1..n : w[k] \in S /\ w[k] \in Nat
  BY <1>1
<1>4. w \in Bijection(1..n, S)
  <2>1. \A j, k \in 1..n : w[j] = w[k] => j = k
    BY <1>1, <1>2, <1>3
  <2>2. QED
    BY <1>1, <2>1 DEF Bijection, Injection, Surjection, IsInjective
<1>5. Cardinality(S) = n
  BY <1>2, <1>4, FS_CountingElements DEF ExistsBijection
<1>6. n = 2 => /\ \E x \in S : s[1] = l[x] /\ \A y \in S : x <= y
               /\ \E x \in S : s[2] = l[x] /\ \A y \in S : y <= x
  <2>1. SUFFICES ASSUME n = 2
        PROVE  /\ \E x \in S : s[1] = l[x] /\ \A y \in S : x <= y
               /\ \E x \in S : s[2] = l[x] /\ \A y \in S : y <= x
    OBVIOUS
  <2>2. /\ w[1] \in S /\ w[2] \in S /\ w[1] \in Nat /\ w[2] \in Nat
        /\ w[1] < w[2] /\ s[1] = l[w[1]] /\ s[2] = l[w[2]]
    BY <1>1, <1>3, <2>1
  <2>3. \A y \in S : y = w[1] \/ y = w[2]
    BY <1>1, <2>1
  <2>4. \A y \in S : w[1] <= y /\ y <= w[2]
    BY <2>2, <2>3
  <2>5. QED
    BY <2>2, <2>4, Zenon
<1>7. QED
  BY <1>5, <1>6 DEF n

\* The head and the tail of a concatenation are those of its first list.
LEMMA ConcatHead ==
    ASSUME NEW s \in Seq(Token), NEW p \in Seq(Token), s # <<>>
    PROVE  /\ s \o p # <<>>
           /\ Head(s \o p) = Head(s)
           /\ Tail(s \o p) = Tail(s) \o p
<1> DEFINE a == s \o p
<1>1. Len(s) \in Nat /\ Len(s) >= 1 /\ Len(p) \in Nat
  BY EmptySeq, LenProperties
<1>2. a \in Seq(Token) /\ Len(a) = Len(s) + Len(p)
      /\ \A k \in 1..(Len(s) + Len(p)) : a[k] = IF k <= Len(s) THEN s[k] ELSE p[k - Len(s)]
  BY ConcatProperties
<1> HIDE DEF a
<1>3. a # <<>>
  BY <1>1, <1>2
<1>4. Tail(s) \in Seq(Token) /\ Len(Tail(s)) = Len(s) - 1
      /\ \A k \in 1..(Len(s) - 1) : Tail(s)[k] = s[k + 1]
  BY HeadTailProperties
<1>5. Tail(a) \in Seq(Token) /\ Len(Tail(a)) = Len(a) - 1
      /\ \A k \in 1..(Len(a) - 1) : Tail(a)[k] = a[k + 1]
  BY <1>2, <1>3, HeadTailProperties
<1> DEFINE r == Tail(s) \o p
<1>6. r \in Seq(Token) /\ Len(r) = Len(Tail(s)) + Len(p)
      /\ \A k \in 1..(Len(Tail(s)) + Len(p)) :
            r[k] = IF k <= Len(Tail(s)) THEN Tail(s)[k] ELSE p[k - Len(Tail(s))]
  BY <1>4, ConcatProperties
<1> HIDE DEF r
<1>7. ASSUME NEW k \in 1..(Len(s) - 1 + Len(p)) PROVE Tail(a)[k] = r[k]
  <2>1. Tail(a)[k] = a[k + 1]
    BY <1>1, <1>2, <1>5
  <2>2. a[k + 1] = IF k + 1 <= Len(s) THEN s[k + 1] ELSE p[k + 1 - Len(s)]
    BY <1>1, <1>2
  <2>3. CASE k + 1 <= Len(s)
    <3>1. k \in 1..(Len(s) - 1) /\ k <= Len(Tail(s))
      BY <1>1, <1>4, <2>3
    <3>2. r[k] = Tail(s)[k]
      BY <1>1, <1>4, <1>6, <3>1
    <3>3. QED
      BY <1>4, <2>1, <2>2, <2>3, <3>1, <3>2
  <2>4. CASE ~(k + 1 <= Len(s))
    <3>1. k - (Len(s) - 1) = k + 1 - Len(s)
      BY <1>1
    <3>2. r[k] = p[k - (Len(s) - 1)]
      BY <1>1, <1>4, <1>6, <2>4
    <3>3. QED
      BY <2>1, <2>2, <2>4, <3>1, <3>2
  <2>5. QED
    BY <2>3, <2>4
<1>8. Tail(a) = r
  <2>1. Len(Tail(a)) = Len(s) - 1 + Len(p) /\ Len(r) = Len(s) - 1 + Len(p)
    BY <1>1, <1>2, <1>4, <1>5, <1>6
  <2>2. QED
    BY <1>5, <1>6, <1>7, <2>1, SeqEqual
<1>9. Head(a) = Head(s)
  <2>1. Head(a) = a[1] /\ Head(s) = s[1]
    BY <1>2, <1>3
  <2>2. QED
    BY <1>1, <1>2, <2>1
<1>10. QED
  BY <1>3, <1>8, <1>9 DEF a, r

\* A token is of one of three kinds, and a word is determined by its text.
LEMMA TokenKinds ==
    ASSUME NEW t \in Token
    PROVE  /\ t.kind \in {"word", "flag", "set"}
           /\ IsWord(t) => t = Plain(t.text)
<1>1. t = Plain(t.text) \/ t = Bare(t.name) \/ t = Assigned(t.name, t.text)
  BY TokenAssumption
<1>2. \A n, w : Plain(w).kind = "word" /\ Bare(n).kind = "flag" /\ Assigned(n, w).kind = "set"
  BY DEF Plain, Bare, Assigned
<1>3. t = Plain(t.text) => t.kind = "word"
  BY <1>2, Zenon
<1>4. t = Bare(t.name) => t.kind = "flag"
  BY <1>2, Zenon
<1>5. t = Assigned(t.name, t.text) => t.kind = "set"
  BY <1>2, Zenon
<1>6. QED
  BY <1>1, <1>3, <1>4, <1>5 DEF IsWord

LEMMA LinePositions ==
    ASSUME NEW l \in Seq(Token)
    PROVE  /\ Len(l) \in Nat /\ DOMAIN l = 1..Len(l)
           /\ \A j \in DOMAIN l : j \in Nat /\ l[j] \in Token
           /\ Free(l) \subseteq DOMAIN l /\ Bound(l) \subseteq DOMAIN l
           /\ \A j \in DOMAIN l : j \in Bound(l) <=> j \notin Free(l)
BY LenProperties DEF Free, Bound

LEMMA BelowNext ==
    ASSUME NEW S \in SUBSET Nat, NEW b \in Nat
    PROVE  Below(S, b + 1) = IF b \in S THEN Below(S, b) \union {b} ELSE Below(S, b)
<1>1. \A j \in S : j < b + 1 <=> j < b \/ j = b
  OBVIOUS
<1>2. QED
  BY <1>1 DEF Below

LEMMA FromNext ==
    ASSUME NEW S \in SUBSET Nat, NEW b \in Nat, NEW x \in From(S, b), \A y \in From(S, b) : x <= y
    PROVE  From(S, b) \ {x} = From(S, x + 1)
<1>1. \A j \in S : j >= b /\ j # x <=> j >= x + 1
  <2>1. \A j \in S : j \in Nat /\ (j >= b => x <= j)
    BY DEF From
  <2>2. x \in Nat /\ x >= b
    BY DEF From
  <2>3. QED
    BY <2>1, <2>2
<1>2. QED
  BY <1>1 DEF From

\* What stands at a boundary of a well-formed line, and where the next one is.
LEMMA AtBoundary ==
    ASSUME NEW l \in Seq(Token), WellFormed(l), NEW b, Boundary(l, b), b <= Len(l)
    PROVE  /\ b \in DOMAIN l
           /\ IsWord(l[b]) => b \in Free(l) /\ Boundary(l, b + 1)
           /\ ~IsWord(l[b]) => b \in Bound(l)
           /\ ~TakesValue(l[b]) => Boundary(l, b + 1)
           /\ TakesValue(l[b]) => /\ b + 1 \in Bound(l) /\ IsWord(l[b + 1])
                                  /\ ~StartsWithDash(l[b + 1]) /\ l[b + 1].text # ""
                                  /\ Boundary(l, b + 2)
<1>1. b \in 1..Len(l) /\ b \in Nat /\ Len(l) \in Nat /\ DOMAIN l = 1..Len(l)
  BY LenProperties DEF Boundary
<1>2. b > 1 => ~TakesValue(l[b - 1])
  BY DEF Boundary
<1>3. ~Owned(l, b)
  BY <1>2 DEF Owned
<1>4. IsWord(l[b]) => ~TakesValue(l[b])
  BY DEF IsWord, TakesValue
<1>5. ~TakesValue(l[b]) => Boundary(l, b + 1)
  BY <1>1 DEF Boundary
<1>6. ASSUME TakesValue(l[b])
      PROVE  /\ b + 1 \in Bound(l) /\ IsWord(l[b + 1])
             /\ ~StartsWithDash(l[b + 1]) /\ l[b + 1].text # ""
             /\ Boundary(l, b + 2)
  <2>1. b < Len(l) /\ ~StartsWithDash(l[b + 1]) /\ l[b + 1].text # ""
    BY <1>1, <1>6 DEF WellFormed
  <2>2. IsWord(l[b + 1]) /\ ~TakesValue(l[b + 1])
    BY <2>1 DEF StartsWithDash, IsWord, TakesValue
  <2>3. /\ b + 1 \in DOMAIN l /\ (b + 1) - 1 = b /\ b + 1 > 1
        /\ b + 2 \in 1..(Len(l) + 1) /\ (b + 2) - 1 = b + 1
    <3>1. b \in Int /\ 1 <= b /\ Len(l) \in Int
      BY <1>1
    <3>2. b < Len(l)
      BY <2>1
    <3>3. b + 1 \in 1..Len(l)
      BY <3>1, <3>2
    <3>4. b + 2 \in 1..(Len(l) + 1)
      BY <3>1, <3>2
    <3>5. QED
      BY <1>1, <3>1, <3>3, <3>4
  <2>4. Owned(l, b + 1)
    BY <1>6, <2>3 DEF Owned
  <2>5. QED
    BY <2>1, <2>2, <2>3, <2>4 DEF Bound, Free, Boundary
<1>7. QED
  BY <1>1, <1>3, <1>4, <1>5, <1>6 DEF Free, Bound

\* The first token from a boundary on that is not a free word is a flag.
LEMMA NextFlag ==
    ASSUME NEW l \in Seq(Token), WellFormed(l), NEW b, Boundary(l, b),
           NEW x \in From(Bound(l), b), \A y \in From(Bound(l), b) : x <= y
    PROVE  /\ ~IsWord(l[x]) /\ Boundary(l, x) /\ x <= Len(l)
           /\ \A j \in DOMAIN l : b <= j /\ j < x => IsWord(l[j])
<1>1. /\ b \in Nat /\ b >= 1 /\ Len(l) \in Nat /\ DOMAIN l = 1..Len(l)
      /\ x \in Bound(l) /\ x \in 1..Len(l) /\ x >= b
  BY LinePositions DEF Boundary, From
<1>2. ~IsWord(l[x])
  <2>1. SUFFICES ASSUME IsWord(l[x]) PROVE FALSE
    OBVIOUS
  <2>2. x > 1 /\ TakesValue(l[x - 1])
    BY <1>1, <2>1 DEF Bound, Free, Owned
  <2>3. x - 1 \in DOMAIN l /\ x - 1 \in Bound(l)
    BY <1>1, <2>2 DEF Bound, Free, TakesValue, IsWord
  <2>4. ~(x - 1 >= b)
    BY <1>1, <2>3 DEF From
  <2>5. x = b
    BY <1>1, <2>4
  <2>6. QED
    BY <2>2, <2>5 DEF Boundary
<1>3. Boundary(l, x)
  <2>1. SUFFICES ASSUME x > 1, TakesValue(l[x - 1]) PROVE FALSE
    BY <1>1 DEF Boundary
  <2>2. x - 1 \in DOMAIN l /\ (x - 1) + 1 = x
    BY <1>1, <2>1
  <2>3. ~StartsWithDash(l[x])
    BY <2>1, <2>2 DEF WellFormed
  <2>4. QED
    BY <1>2, <2>3 DEF StartsWithDash
<1>4. ASSUME NEW j \in DOMAIN l, b <= j, j < x PROVE IsWord(l[j])
  <2>1. j \notin Bound(l)
    BY <1>1, <1>4 DEF From
  <2>2. QED
    BY <2>1 DEF Bound, Free
<1>5. QED
  BY <1>1, <1>2, <1>3, <1>4

\* Words do not change what has been read.
LEMMA ReadSkip ==
    ASSUME NEW l \in Seq(Token), NEW c, NEW ss, NEW bs, NEW b \in Nat, NEW x \in Nat, b <= x,
           \A j \in DOMAIN l : b <= j /\ j < x => IsWord(l[j]),
           ReadUpTo(c, l, ss, bs, b)
    PROVE  ReadUpTo(c, l, ss, bs, x)
<1>1. \A j \in DOMAIN l : j \in Nat
  BY LinePositions
<1>2. \A j \in DOMAIN l : ~IsWord(l[j]) => (j < x <=> j < b)
  BY <1>1
<1>3. \A f : Below(Given(l, f), x) = Below(Given(l, f), b)
  BY <1>2 DEF Below, Given
<1>4. \A j \in Below(DOMAIN l, x) : ~BadFlag(c, l[j])
  BY <1>2 DEF ReadUpTo, Below, BadFlag
<1>5. QED
  BY <1>3, <1>4 DEF ReadUpTo, StringRead, BoolRead

\* Reading the flag at x adds it to those of its name.
LEMMA GivenNext ==
    ASSUME NEW l \in Seq(Token), NEW x \in DOMAIN l, ~IsWord(l[x]), NEW f
    PROVE  /\ l[x].name # f => Below(Given(l, f), x + 1) = Below(Given(l, f), x)
           /\ l[x].name = f => IsLast(Below(Given(l, f), x + 1), x)
<1>1. \A j \in DOMAIN l : j \in Nat
  BY LinePositions
<1>2. \A j \in DOMAIN l : j < x + 1 <=> j < x \/ j = x
  BY <1>1
<1>3. Given(l, f) \subseteq DOMAIN l /\ (x \in Given(l, f) <=> l[x].name = f)
  BY DEF Given
<1>4. l[x].name # f => Below(Given(l, f), x + 1) = Below(Given(l, f), x)
  BY <1>2, <1>3 DEF Below
<1>5. l[x].name = f => IsLast(Below(Given(l, f), x + 1), x)
  <2>1. x < x + 1 /\ \A j \in DOMAIN l : j < x + 1 => j <= x
    BY <1>1
  <2>2. QED
    BY <1>3, <2>1 DEF Below, IsLast
<1>6. QED
  BY <1>4, <1>5

LEMMA NoBadNext ==
    ASSUME NEW l \in Seq(Token), NEW c, NEW x \in DOMAIN l, ~BadFlag(c, l[x]),
           \A j \in Below(DOMAIN l, x) : ~BadFlag(c, l[j])
    PROVE  \A j \in Below(DOMAIN l, x + 1) : ~BadFlag(c, l[j])
<1>1. \A j \in DOMAIN l : j \in Nat
  BY LinePositions
<1>2. \A j \in DOMAIN l : j < x + 1 <=> j < x \/ j = x
  BY <1>1
<1>3. QED
  BY <1>2 DEF Below

\* A flag with a value sets the value of its name and no other.
LEMMA ReadString ==
    ASSUME NEW l \in Seq(Token), NEW c, NEW ss \in [StringFlag("school") -> Values], NEW bs,
           NEW x \in DOMAIN l, ~IsWord(l[x]), l[x].name \in StringFlag(c), ~BadFlag(c, l[x]),
           ReadUpTo(c, l, ss, bs, x)
    PROVE  ReadUpTo(c, l, [ss EXCEPT ![l[x].name] = ValueAt(l, x)], bs, x + 1)
<1> DEFINE n == l[x].name
           new == [ss EXCEPT ![n] = ValueAt(l, x)]
<1>1. n \in StringFlag("school") /\ n \notin BoolFlag
  BY DEF StringFlag, BoolFlag
<1>2. \A j \in Below(DOMAIN l, x + 1) : ~BadFlag(c, l[j])
  BY NoBadNext DEF ReadUpTo
<1>3. ASSUME NEW f \in StringFlag("school") PROVE StringRead(l, new[f], f, x + 1)
  <2>1. CASE f = n
    <3>1. new[f] = ValueAt(l, x) /\ IsLast(Below(Given(l, f), x + 1), x)
      BY <1>1, <2>1, GivenNext
    <3>2. QED
      BY <3>1 DEF StringRead, IsLast
  <2>2. CASE f # n
    <3>1. new[f] = ss[f] /\ Below(Given(l, f), x + 1) = Below(Given(l, f), x)
      BY <2>2, GivenNext
    <3>2. QED
      BY <1>3, <3>1 DEF ReadUpTo, StringRead
  <2>3. QED
    BY <2>1, <2>2
<1>4. ASSUME NEW f \in BoolFlag PROVE BoolRead(l, bs[f], f, x + 1)
  <2>1. Below(Given(l, f), x + 1) = Below(Given(l, f), x)
    BY <1>1, <1>4, GivenNext
  <2>2. QED
    BY <1>4, <2>1 DEF ReadUpTo, BoolRead
<1>5. QED
  BY <1>2, <1>3, <1>4 DEF ReadUpTo

\* A Boolean flag sets its own value and no other.
LEMMA ReadBool ==
    ASSUME NEW l \in Seq(Token), NEW c, NEW ss, NEW bs \in [BoolFlag -> BOOLEAN],
           NEW x \in DOMAIN l, ~IsWord(l[x]), l[x].name \in BoolFlag, ~BadFlag(c, l[x]),
           ReadUpTo(c, l, ss, bs, x)
    PROVE  ReadUpTo(c, l, ss, [bs EXCEPT ![l[x].name] = SaysOn(l[x])], x + 1)
<1> DEFINE n == l[x].name
           new == [bs EXCEPT ![n] = SaysOn(l[x])]
<1>1. \A f \in StringFlag("school") : f # n
  BY DEF StringFlag, BoolFlag
<1>2. \A j \in Below(DOMAIN l, x + 1) : ~BadFlag(c, l[j])
  BY NoBadNext DEF ReadUpTo
<1>3. ASSUME NEW f \in StringFlag("school") PROVE StringRead(l, ss[f], f, x + 1)
  <2>1. Below(Given(l, f), x + 1) = Below(Given(l, f), x)
    BY <1>1, <1>3, GivenNext
  <2>2. QED
    BY <1>3, <2>1 DEF ReadUpTo, StringRead
<1>4. ASSUME NEW f \in BoolFlag PROVE BoolRead(l, new[f], f, x + 1)
  <2>1. CASE f = n
    <3>1. new[f] = SaysOn(l[x]) /\ IsLast(Below(Given(l, f), x + 1), x)
      BY <2>1, GivenNext
    <3>2. QED
      BY <3>1 DEF BoolRead, IsLast
  <2>2. CASE f # n
    <3>1. new[f] = bs[f] /\ Below(Given(l, f), x + 1) = Below(Given(l, f), x)
      BY <2>2, GivenNext
    <3>2. QED
      BY <1>4, <3>1 DEF ReadUpTo, BoolRead
  <2>3. QED
    BY <2>1, <2>2
<1>5. QED
  BY <1>2, <1>3, <1>4 DEF ReadUpTo

\* When all flags have been read, their values are what the line says.
LEMMA ReadAll ==
    ASSUME NEW l \in Seq(Token), NEW c, NEW ss, NEW bs, ReadUpTo(c, l, ss, bs, Len(l) + 1)
    PROVE  /\ \A j \in DOMAIN l : ~BadFlag(c, l[j])
           /\ \A f \in StringFlag("school") : ss[f] = StringOf(l, f)
           /\ \A f \in BoolFlag : bs[f] <=> IsOn(l, f)
<1>1. \A j \in DOMAIN l : j \in Nat /\ j < Len(l) + 1
  BY LinePositions
<1>2. \A f : Below(Given(l, f), Len(l) + 1) = Given(l, f) /\ Given(l, f) \subseteq Nat
  BY <1>1 DEF Below, Given
<1>3. ASSUME NEW f, NEW j, IsLast(Given(l, f), j) PROVE LastGiven(l, f) = j
  <2>1. \A k \in Given(l, f) : k \in Nat
    BY <1>2
  <2>2. \A k \in Given(l, f) : (\A m \in Given(l, f) : m <= k) => k = j
    BY <1>3, <2>1 DEF IsLast
  <2>3. QED
    BY <1>3, <2>2 DEF IsLast, LastGiven
<1>4. ASSUME NEW f \in StringFlag("school") PROVE ss[f] = StringOf(l, f)
  <2>1. StringRead(l, ss[f], f, Len(l) + 1)
    BY <1>4 DEF ReadUpTo
  <2>2. \/ Given(l, f) = {} /\ ss[f] = Default
        \/ \E j \in Given(l, f) : IsLast(Given(l, f), j) /\ ss[f] = ValueAt(l, j)
    BY <1>2, <2>1 DEF StringRead
  <2>3. QED
    BY <1>3, <2>2 DEF StringOf, ValueAt
<1>5. ASSUME NEW f \in BoolFlag PROVE bs[f] <=> IsOn(l, f)
  <2>1. BoolRead(l, bs[f], f, Len(l) + 1)
    BY <1>5 DEF ReadUpTo
  <2>2. \/ Given(l, f) = {} /\ ~bs[f]
        \/ \E j \in Given(l, f) : IsLast(Given(l, f), j) /\ (bs[f] <=> SaysOn(l[j]))
    BY <1>2, <2>1 DEF BoolRead
  <2>3. QED
    BY <1>3, <2>2 DEF IsOn, SaysOn
<1>6. QED
  BY <1>1, <1>4, <1>5 DEF ReadUpTo, Below

\* The first token that reorderArgs looks at, and the first flag value.
LEMMA LineInit ==
    ASSUME Init
    PROVE  FlagsRead(1) /\ Sorted
<1>1. argv \in Seq(Token) /\ Len(argv) \in Nat /\ i = 1 /\ flags = <<>> /\ positionals = <<>>
      /\ (\A f \in StringFlag("school") : strs[f] = Default) /\ (\A f \in BoolFlag : ~bools[f])
  BY DEF Init
<1>2. \A S \in SUBSET DOMAIN argv : Below(S, 1) = {}
  BY <1>1, LinePositions DEF Below
<1>3. Below(DOMAIN argv, 1) = {} /\ Below(Bound(argv), 1) = {} /\ Below(Free(argv), 1) = {}
      /\ \A f : Below(Given(argv, f), 1) = {}
  BY <1>2 DEF Bound, Free, Given
<1>4. FlagsRead(1)
  BY <1>1, <1>3 DEF FlagsRead, ReadUpTo, StringRead, BoolRead
<1>5. Boundary(argv, 1)
  BY <1>1 DEF Boundary
<1>6. Sorted
  BY <1>1, <1>3, <1>5, InOrderEmpty DEF Sorted
<1>7. QED
  BY <1>4, <1>6

\* What ToFlags appends.
LEMMA SliceOne ==
    ASSUME NEW l \in Seq(Token), NEW j \in DOMAIN l, NEW s \in Seq(Token)
    PROVE  s \o SubSeq(l, j, j) = Append(s, l[j])
<1>1. j \in 1..Len(l) /\ j \in j..Len(l) /\ j \in Int /\ j < j + 1 /\ l[j] \in Token
  BY LinePositions
<1>2. SubSeq(l, j, j) = <<l[j]>> \o SubSeq(l, j + 1, j)
  BY <1>1, SubSeqRecursiveFirst
<1>3. SubSeq(l, j + 1, j) = <<>>
  BY <1>1, SubSeqEmpty
<1>4. <<l[j]>> \in Seq(Token)
  BY <1>1
<1>5. SubSeq(l, j, j) = <<l[j]>>
  BY <1>2, <1>3, <1>4, ConcatEmptySeq
<1>6. QED
  BY <1>1, <1>5, AppendIsConcat

LEMMA SliceTwo ==
    ASSUME NEW l \in Seq(Token), NEW j \in DOMAIN l, j + 1 \in DOMAIN l, NEW s \in Seq(Token)
    PROVE  s \o SubSeq(l, j, j + 1) = Append(Append(s, l[j]), l[j + 1])
<1>1. j \in Nat /\ j >= 1 /\ j + 1 <= Len(l) /\ l[j] \in Token /\ l[j + 1] \in Token
  BY LinePositions
<1>2. SubSeq(l, j, j + 1) = <<l[j]>> \o SubSeq(l, j + 1, j + 1)
  <2>1. j \in 1..Len(l) /\ j + 1 \in j..Len(l)
    BY <1>1, LinePositions
  <2>2. QED
    BY <2>1, SubSeqRecursiveFirst
<1>3. SubSeq(l, j + 1, j + 1) \in Seq(Token) /\ <<l[j]>> \in Seq(Token)
  BY <1>1, SubSeqProperties
<1>4. s \o SubSeq(l, j, j + 1) = (s \o <<l[j]>>) \o SubSeq(l, j + 1, j + 1)
  <2>1. ASSUME NEW u \in Seq(Token), NEW v \in Seq(Token)
        PROVE  (s \o u) \o v = s \o (u \o v)
    BY ConcatAssociative
  <2>2. QED
    BY <1>2, <1>3, <2>1, Zenon
<1>5. s \o <<l[j]>> = Append(s, l[j]) /\ Append(s, l[j]) \in Seq(Token)
  BY <1>1, AppendIsConcat, AppendProperties
<1>6. QED
  BY <1>4, <1>5, SliceOne

\* Every step of reorderArgs moves one token to the list it belongs to, or a
\* flag together with the word it owns.
LEMMA SortStep ==
    ASSUME TypeOK, Lists, WellFormed(argv), Sorted,
           ReorderWord \/ ReorderAlone \/ ReorderPair \/ ReorderUnpaired
    PROVE  Sorted'
<1> DEFINE B == Bound(argv)
           F == Free(argv)
<1>1. /\ argv \in Seq(Token) /\ argv' = argv /\ i <= Len(argv)
      /\ flags \in Seq(Token) /\ positionals \in Seq(Token)
      /\ Boundary(argv, i) /\ InOrder(argv, flags, Below(B, i))
      /\ InOrder(argv, positionals, Below(F, i))
  BY DEF TypeOK, Lists, Sorted, ReorderWord, ReorderAlone, ReorderPair, ReorderUnpaired,
         InLoop, ToPositionals, ToFlags, line
<1>2. /\ i \in DOMAIN argv /\ i \in Nat /\ argv[i] \in Token
      /\ B \in SUBSET Nat /\ F \in SUBSET Nat
      /\ \A S : Below(S, i) \in SUBSET S /\ \A y \in Below(S, i) : y < i
  BY <1>1, AtBoundary, LinePositions DEF Below
<1>3. \A j \in DOMAIN argv : j \in B <=> j \notin F
  BY <1>1, LinePositions
<1> HIDE DEF B, F
<1>4. /\ Below(B, i + 1) = IF i \in B THEN Below(B, i) \union {i} ELSE Below(B, i)
      /\ Below(F, i + 1) = IF i \in F THEN Below(F, i) \union {i} ELSE Below(F, i)
  BY <1>2, BelowNext
<1>5. ASSUME i' = i + 1 \/ i' = i + 2,
             Boundary(argv, i'), InOrder(argv, flags', Below(B, i')),
             InOrder(argv, positionals', Below(F, i'))
      PROVE  Sorted'
  BY <1>1, <1>5 DEF Sorted, B, F
<1>6. CASE ReorderWord
  <2>1. i \in F /\ Boundary(argv, i + 1)
    BY <1>1, <1>6, AtBoundary DEF ReorderWord, F
  <2>2. positionals' = Append(positionals, argv[i]) /\ i' = i + 1 /\ flags' = flags
    BY <1>6 DEF ReorderWord, ToPositionals
  <2>3. InOrder(argv, positionals', Below(F, i) \union {i})
    BY <1>1, <1>2, <2>2, InOrderAppend
  <2>4. QED
    BY <1>1, <1>2, <1>3, <1>4, <1>5, <2>1, <2>2, <2>3
<1>7. CASE ReorderAlone \/ ReorderUnpaired
  <2>1. ~IsWord(argv[i]) /\ ToFlags(1)
    BY <1>7 DEF ReorderAlone, ReorderUnpaired
  <2>2. ~TakesValue(argv[i])
    <3>1. CASE ReorderAlone
      BY <3>1 DEF ReorderAlone, Alone, TakesValue
    <3>2. CASE ReorderUnpaired
      <4>1. SUFFICES ASSUME TakesValue(argv[i]) PROVE FALSE
        OBVIOUS
      <4>2. i < Len(argv) /\ ~StartsWithDash(argv[i + 1]) /\ argv[i + 1].text # ""
        BY <1>2, <4>1 DEF WellFormed
      <4>3. QED
        BY <3>2, <4>2 DEF ReorderUnpaired, TakesNext
    <3>3. QED
      BY <1>7, <3>1, <3>2
  <2>3. i \in B /\ Boundary(argv, i + 1)
    BY <1>1, <2>1, <2>2, AtBoundary DEF B
  <2>4. flags' = Append(flags, argv[i]) /\ i' = i + 1 /\ positionals' = positionals
    <3>1. flags' = flags \o SubSeq(argv, i, i + 1 - 1) /\ i' = i + 1 /\ positionals' = positionals
      BY <2>1 DEF ToFlags
    <3>2. i + 1 - 1 = i
      BY <1>2
    <3>3. QED
      BY <1>1, <1>2, <3>1, <3>2, SliceOne
  <2>5. InOrder(argv, flags', Below(B, i) \union {i})
    BY <1>1, <1>2, <2>4, InOrderAppend
  <2>6. QED
    BY <1>1, <1>2, <1>3, <1>4, <1>5, <2>3, <2>4, <2>5
<1>8. CASE ReorderPair
  <2>1. ~IsWord(argv[i]) /\ ~Alone(argv[i]) /\ ToFlags(2)
    BY <1>8 DEF ReorderPair
  <2>2. TakesValue(argv[i])
    BY <1>2, <2>1, TokenKinds DEF Alone, TakesValue, IsWord
  <2>3. i \in B /\ i + 1 \in B /\ Boundary(argv, i + 2)
    BY <1>1, <2>1, <2>2, AtBoundary DEF B
  <2>4. i + 1 \in DOMAIN argv /\ argv[i + 1] \in Token
    BY <1>1, <2>3, LinePositions DEF B
  <2>5. /\ flags' = Append(Append(flags, argv[i]), argv[i + 1])
        /\ i' = i + 2 /\ positionals' = positionals
    <3>1. flags' = flags \o SubSeq(argv, i, i + 2 - 1) /\ i' = i + 2 /\ positionals' = positionals
      BY <2>1 DEF ToFlags
    <3>2. i + 2 - 1 = i + 1
      BY <1>2
    <3>3. QED
      BY <1>1, <1>2, <2>4, <3>1, <3>2, SliceTwo
  <2>6. InOrder(argv, Append(flags, argv[i]), Below(B, i + 1))
    BY <1>1, <1>2, <1>4, <2>3, InOrderAppend
  <2>7. Append(flags, argv[i]) \in Seq(Token) /\ \A y \in Below(B, i + 1) : y < i + 1
    BY <1>1, <1>2, AppendProperties DEF Below
  <2>8. Below(B, i + 1) \in SUBSET Nat
    BY <1>2 DEF Below
  <2>9. InOrder(argv, flags', Below(B, i + 1) \union {i + 1})
    BY <1>1, <2>4, <2>5, <2>6, <2>7, <2>8, InOrderAppend
  <2>10. /\ Below(B, i + 2) = Below(B, i + 1) \union {i + 1}
         /\ Below(F, i + 2) = Below(F, i)
    <3>1. i + 1 \in Nat /\ (i + 1) + 1 = i + 2
      BY <1>2
    <3>2. /\ Below(B, (i + 1) + 1) = IF i + 1 \in B THEN Below(B, i + 1) \union {i + 1}
                                                    ELSE Below(B, i + 1)
          /\ Below(F, (i + 1) + 1) = IF i + 1 \in F THEN Below(F, i + 1) \union {i + 1}
                                                    ELSE Below(F, i + 1)
      BY <1>2, <3>1, BelowNext, Zenon
    <3>3. i \notin F /\ i + 1 \notin F
      BY <1>2, <1>3, <2>3, <2>4
    <3>4. QED
      BY <1>4, <2>3, <3>1, <3>2, <3>3
  <2>11. QED
    BY <1>1, <1>5, <2>3, <2>5, <2>9, <2>10
<1>9. QED
  BY <1>6, <1>7, <1>8

\* When reorderArgs is done, flag.Parse has the whole line in front of it.
LEMMA SortEnd ==
    ASSUME TypeOK, Lists, FlagsRead(1), Sorted, ReorderEnd
    PROVE  Parsing'
<1>1. /\ argv \in Seq(Token) /\ i > Len(argv) /\ args' = flags \o positionals
      /\ UNCHANGED <<cmd, argv, strs, bools>>
      /\ flags \in Seq(Token) /\ positionals \in Seq(Token)
  BY DEF TypeOK, Lists, ReorderEnd, line
<1>2. Len(argv) \in Nat /\ \A j \in DOMAIN argv : j < i /\ j >= 1
  BY <1>1, LinePositions DEF TypeOK
<1>3. Bound(argv) \subseteq DOMAIN argv /\ Free(argv) \subseteq DOMAIN argv
  BY <1>1, LinePositions
<1>4. Below(Bound(argv), i) = From(Bound(argv), 1) /\ Below(Free(argv), i) = Free(argv)
  BY <1>2, <1>3 DEF Below, From
<1>5. 1 \in 1..(Len(argv) + 1) /\ Boundary(argv, 1)
  BY <1>2 DEF Boundary
<1>6. InOrder(argv, flags, From(Bound(argv), 1)) /\ InOrder(argv, positionals, Free(argv))
  BY <1>4 DEF Sorted
<1>7. QED
  BY <1>1, <1>5, <1>6 DEF Parsing, FlagsRead

\* A line with a bad flag, or one that names none, has no reading.
LEMMA BadFlagNoReading ==
    ASSUME NEW c, NEW l, NEW j \in DOMAIN l, BadFlag(c, l[j])
    PROVE  Reading(c, l) = None
BY DEF Reading

\* Every step of flag.Parse reads the next flag of the line with what it owns,
\* rejects a line that has no reading, or leaves the free words.
LEMMA ParseReads ==
    ASSUME TypeOK, Lists, cmd \in Handler, WellFormed(argv), Parsing, request = None, Parse
    PROVE  \/ pc' = "parse" /\ Parsing'
           \/ pc' = "check" /\ Ready'
           \/ pc' = "done" /\ Reading(cmd, argv) = None
<1>1. argv \in Seq(Token) /\ argv' = argv /\ cmd' = cmd /\ pc = "parse"
      /\ strs \in [StringFlag("school") -> Values] /\ bools \in [BoolFlag -> BOOLEAN]
  BY DEF TypeOK, Parse, ParseEnd, ParseTerminator, ParseError, ParseBool, ParseString, AtFlag, line
<1>2. PICK b \in 1..(Len(argv) + 1), s \in Seq(Token), p \in Seq(Token) :
        /\ Boundary(argv, b) /\ FlagsRead(b)
        /\ args = s \o p
        /\ InOrder(argv, s, From(Bound(argv), b))
        /\ InOrder(argv, p, Free(argv))
  BY DEF Parsing
<1>3. /\ Len(argv) \in Nat /\ DOMAIN argv = 1..Len(argv) /\ b \in Nat
      /\ \A j \in DOMAIN argv : j \in Nat /\ argv[j] \in Token
      /\ Bound(argv) \in SUBSET Nat /\ Free(argv) \in SUBSET Nat
      /\ \A j : From(Bound(argv), j) \in SUBSET Nat
  BY <1>1, LinePositions DEF From
<1>4. CASE s = <<>>
  <2>1. args = p
    BY <1>2, <1>4, ConcatEmptySeq
  <2>2. From(Bound(argv), b) = {}
    BY <1>2, <1>4, InOrderNil
  <2>3. \A j \in DOMAIN argv : b <= j /\ j < Len(argv) + 1 => IsWord(argv[j])
    BY <2>2 DEF From, Bound, Free
  <2>4. FlagsRead(Len(argv) + 1)
    <3>1. Len(argv) + 1 \in Nat /\ b <= Len(argv) + 1
      BY <1>3
    <3>2. QED
      BY <1>1, <1>2, <1>3, <2>3, <3>1, ReadSkip DEF FlagsRead
  <2>5. args # <<>> => /\ IsWord(Head(args)) /\ Head(args) # Plain("--")
    <3>1. SUFFICES ASSUME p # <<>> PROVE IsWord(Head(p)) /\ Head(p) # Plain("--")
      BY <2>1
    <3>2. PICK x \in Free(argv) : Head(p) = argv[x]
      BY <1>1, <1>2, <1>3, <3>1, InOrderHead
    <3>3. QED
      BY <3>2 DEF Free, WellFormed
  <2>6. ParseEnd
    BY <2>5 DEF Parse, ParseTerminator, ParseError, ParseBool, ParseString, AtFlag
  <2>7. pc' = "check" /\ UNCHANGED <<cmd, argv, args, strs, bools>>
    BY <2>6 DEF ParseEnd, line, parsed
  <2>8. Ready
    BY <1>2, <2>1, <2>4 DEF Ready
  <2>9. QED
    BY <2>7, <2>8 DEF Ready, FlagsRead
<1>5. CASE s # <<>>
  <2>1. PICK x \in From(Bound(argv), b) :
          /\ \A y \in From(Bound(argv), b) : x <= y
          /\ Head(s) = argv[x]
          /\ InOrder(argv, Tail(s), From(Bound(argv), b) \ {x})
    BY <1>1, <1>2, <1>3, <1>5, InOrderHead
  <2>2. /\ args # <<>> /\ Head(args) = argv[x] /\ Tail(args) = Tail(s) \o p
        /\ Tail(s) \in Seq(Token)
    BY <1>2, <1>5, <2>1, ConcatHead, HeadTailProperties
  <2>3. x \in DOMAIN argv /\ x \in Nat /\ x >= b
    BY <1>1, <1>3, <2>1, LinePositions DEF From
  <2>4. /\ ~IsWord(argv[x]) /\ Boundary(argv, x) /\ x <= Len(argv)
        /\ \A j \in DOMAIN argv : b <= j /\ j < x => IsWord(argv[j])
    BY <1>1, <1>2, <2>1, NextFlag
  <2>5. ReadUpTo(cmd, argv, strs, bools, x)
    BY <1>1, <1>2, <1>3, <2>3, <2>4, ReadSkip DEF FlagsRead
  <2>6. InOrder(argv, Tail(s), From(Bound(argv), x + 1))
    BY <1>3, <2>1, FromNext
  <2>7. argv[x].kind \in {"flag", "set"}
    BY <1>3, <2>3, <2>4, TokenKinds DEF IsWord
  <2>8. TakesValue(argv[x])
          => /\ x + 1 \in Bound(argv) /\ IsWord(argv[x + 1]) /\ Boundary(argv, x + 2)
             /\ Tail(s) # <<>> /\ Head(Tail(s)) = argv[x + 1]
             /\ InOrder(argv, Tail(Tail(s)), From(Bound(argv), x + 2))
             /\ Tail(Tail(s)) \in Seq(Token)
    <3>1. SUFFICES ASSUME TakesValue(argv[x])
          PROVE  /\ x + 1 \in Bound(argv) /\ IsWord(argv[x + 1]) /\ Boundary(argv, x + 2)
                 /\ Tail(s) # <<>> /\ Head(Tail(s)) = argv[x + 1]
                 /\ InOrder(argv, Tail(Tail(s)), From(Bound(argv), x + 2))
                 /\ Tail(Tail(s)) \in Seq(Token)
      OBVIOUS
    <3>2. x + 1 \in Bound(argv) /\ IsWord(argv[x + 1]) /\ Boundary(argv, x + 2)
      BY <1>1, <2>4, <3>1, AtBoundary
    <3>3. x + 1 \in From(Bound(argv), x + 1)
      BY <2>3, <3>2 DEF From
    <3>4. Tail(s) # <<>>
      BY <2>2, <2>6, <3>3, InOrderNil
    <3>5. PICK y \in From(Bound(argv), x + 1) :
            /\ \A z \in From(Bound(argv), x + 1) : y <= z
            /\ Head(Tail(s)) = argv[y]
            /\ InOrder(argv, Tail(Tail(s)), From(Bound(argv), x + 1) \ {y})
      <4>1. Tail(s) \in Seq(Token) /\ From(Bound(argv), x + 1) \in SUBSET Nat
        BY <1>3, <2>2
      <4>2. QED
        BY <1>1, <2>6, <3>4, <4>1, InOrderHead
    <3>6. y \in Nat /\ y >= x + 1
      BY <1>3, <3>5 DEF From
    <3>7. y = x + 1
      BY <2>3, <3>3, <3>5, <3>6
    <3>8. x + 1 \in Nat /\ (x + 1) + 1 = x + 2
      BY <2>3
    <3>9. From(Bound(argv), x + 1) \ {x + 1} = From(Bound(argv), (x + 1) + 1)
      BY <1>3, <3>5, <3>7, <3>8, FromNext
    <3>10. QED
      BY <2>2, <3>2, <3>4, <3>5, <3>7, <3>8, <3>9, HeadTailProperties
  <2>9. ~ParseEnd /\ ~ParseTerminator
    <3>1. IsWord(Plain("--"))
      BY DEF IsWord, Plain
    <3>2. QED
      BY <2>2, <2>4, <3>1 DEF ParseEnd, ParseTerminator
  <2>10. CASE ParseError
    <3>1. BadFlag(cmd, argv[x])
      <4>1. argv[x].name \in StringFlag(cmd) /\ argv[x].kind = "flag" => TakesValue(argv[x])
        BY DEF StringFlag, BoolFlag, TakesValue
      <4>2. TakesValue(argv[x]) => Tail(args) # <<>>
        BY <1>2, <2>2, <2>8, ConcatHead
      <4>3. QED
        BY <2>2, <2>4, <2>10, <4>1, <4>2 DEF ParseError, BadFlag
    <3>2. QED
      BY <2>3, <2>10, <3>1, BadFlagNoReading DEF ParseError, Exit
  <2>11. CASE ParseBool
    <3>1. /\ argv[x].name \in BoolFlag
          /\ bools' = [bools EXCEPT ![argv[x].name] = SaysOn(argv[x])]
          /\ args' = Tail(s) \o p /\ strs' = strs /\ pc' = "parse"
      BY <1>1, <2>2, <2>11 DEF ParseBool, SaysOn
    <3>2. ~BadFlag(cmd, argv[x])
      BY <2>2, <2>7, <2>11 DEF ParseBool, BadFlag, FlagSet
    <3>3. ReadUpTo(cmd, argv, strs, bools', x + 1)
      BY <1>1, <2>3, <2>4, <2>5, <3>1, <3>2, ReadBool
    <3>4. Boundary(argv, x + 1) /\ x + 1 \in 1..(Len(argv) + 1)
      BY <1>1, <2>4, <3>1, AtBoundary DEF TakesValue, Boundary
    <3>5. QED
      BY <1>1, <1>2, <2>2, <2>6, <3>1, <3>3, <3>4 DEF Parsing, FlagsRead
  <2>12. CASE ParseString
    <3> DEFINE n == argv[x].name
    <3>1. n \in StringFlag(cmd) /\ n \notin BoolFlag /\ bools' = bools /\ pc' = "parse"
      BY <1>1, <2>2, <2>12 DEF ParseString, StringFlag, BoolFlag
    <3>2. ~BadFlag(cmd, argv[x])
      BY <3>1 DEF BadFlag, FlagSet
    <3>3. ReadUpTo(cmd, argv, [strs EXCEPT ![n] = ValueAt(argv, x)], bools, x + 1)
      BY <1>1, <2>3, <2>4, <2>5, <3>1, <3>2, ReadString
    <3>4. CASE argv[x].kind = "set"
      <4>1. /\ strs' = [strs EXCEPT ![n] = ValueAt(argv, x)]
            /\ args' = Tail(s) \o p
        BY <2>2, <2>12, <3>4 DEF ParseString, ValueAt
      <4>2. Boundary(argv, x + 1) /\ x + 1 \in 1..(Len(argv) + 1)
        BY <1>1, <2>4, <3>4, AtBoundary DEF TakesValue, Boundary
      <4>3. QED
        BY <1>1, <1>2, <2>2, <2>6, <3>1, <3>3, <4>1, <4>2 DEF Parsing, FlagsRead
    <3>5. CASE argv[x].kind = "flag"
      <4>1. TakesValue(argv[x])
        BY <3>1, <3>5 DEF TakesValue
      <4>2. Tail(args) # <<>> /\ Head(Tail(args)) = argv[x + 1] /\ Tail(Tail(args)) = Tail(Tail(s)) \o p
        <5>1. Tail(s) \in Seq(Token) /\ Tail(s) # <<>> /\ p \in Seq(Token)
          BY <1>2, <2>2, <2>8, <4>1
        <5>2. /\ Tail(s) \o p # <<>> /\ Head(Tail(s) \o p) = Head(Tail(s))
              /\ Tail(Tail(s) \o p) = Tail(Tail(s)) \o p
          BY <5>1, ConcatHead
        <5>3. QED
          BY <2>2, <2>8, <4>1, <5>2
      <4>3. args[2] = Head(Tail(args))
        <5>1. args \in Seq(Token)
          BY DEF Lists
        <5>2. /\ Tail(args) \in Seq(Token) /\ Len(Tail(args)) = Len(args) - 1
              /\ \A k \in 1..Len(Tail(args)) : Tail(args)[k] = args[k + 1]
          BY <2>2, <5>1, HeadTailProperties
        <5>3. Len(Tail(args)) \in Nat /\ Len(Tail(args)) >= 1
          <6>1. Tail(args) # <<>> /\ Tail(args) \in Seq(Token)
            BY <4>2, <5>2
          <6>2. QED
            BY <6>1, EmptySeq
        <5>4. Head(Tail(args)) = Tail(args)[1]
          BY <5>2, <5>3
        <5>5. Tail(args)[1] = args[2]
          <6>1. 1 \in 1..Len(Tail(args)) /\ 1 + 1 = 2
            BY <5>3
          <6>2. QED
            BY <5>2, <6>1
        <5>6. QED
          BY <5>4, <5>5
      <4>4. /\ strs' = [strs EXCEPT ![n] = ValueAt(argv, x)]
            /\ args' = Tail(Tail(s)) \o p
        BY <2>2, <2>12, <3>5, <4>2, <4>3 DEF ParseString, ValueAt
      <4>5. \A j \in DOMAIN argv : x + 1 <= j /\ j < x + 2 => IsWord(argv[j])
        <5>1. \A j \in DOMAIN argv : x + 1 <= j /\ j < x + 2 => j = x + 1
          BY <1>3, <2>3
        <5>2. QED
          BY <2>8, <4>1, <5>1
      <4>6. ReadUpTo(cmd, argv, [strs EXCEPT ![n] = ValueAt(argv, x)], bools, x + 2)
        <5>1. x + 1 \in Nat /\ x + 2 \in Nat /\ x + 1 <= x + 2
          BY <2>3
        <5>2. QED
          BY <1>1, <3>3, <4>5, <5>1, ReadSkip
      <4>7. Boundary(argv, x + 2) /\ x + 2 \in 1..(Len(argv) + 1)
        BY <2>8, <4>1 DEF Boundary
      <4>8. QED
        BY <1>1, <1>2, <2>8, <3>1, <4>1, <4>4, <4>6, <4>7 DEF Parsing, FlagsRead
    <3>6. QED
      BY <2>7, <3>4, <3>5
  <2>13. QED
    BY <2>9, <2>10, <2>11, <2>12 DEF Parse
<1>6. QED
  BY <1>4, <1>5

\* A string flag is at its default or holds a word.
LEMMA ReadIsWord ==
    ASSUME NEW l \in Seq(Token), WellFormed(l), NEW c, NEW ss, NEW bs, NEW b,
           ReadUpTo(c, l, ss, bs, b), NEW f \in StringFlag("school")
    PROVE  ss[f] = Default \/ ss[f] = Plain(ss[f].text)
<1>1. SUFFICES ASSUME NEW j \in Given(l, f), ss[f] = ValueAt(l, j)
      PROVE  ss[f] = Plain(ss[f].text)
  BY DEF ReadUpTo, StringRead, Below
<1>2. j \in DOMAIN l /\ l[j] \in Token /\ ~IsWord(l[j]) /\ l[j].name = f /\ f \notin BoolFlag
  BY LinePositions DEF Given, StringFlag, BoolFlag
<1>3. CASE l[j].kind = "set"
  <2>1. \A w : Plain(w).text = w
    BY DEF Plain
  <2>2. ss[f] = Plain(l[j].text)
    BY <1>1, <1>3 DEF ValueAt
  <2>3. QED
    BY <2>1, <2>2
<1>4. CASE l[j].kind = "flag"
  <2>1. TakesValue(l[j])
    BY <1>2, <1>4 DEF TakesValue
  <2>2. j < Len(l) /\ ~StartsWithDash(l[j + 1])
    BY <1>2, <2>1 DEF WellFormed
  <2>3. j + 1 \in DOMAIN l
    BY <1>2, <2>2, LinePositions
  <2>4. l[j + 1] \in Token /\ IsWord(l[j + 1])
    BY <2>2, <2>3, LinePositions DEF StartsWithDash
  <2>5. l[j + 1] = Plain(l[j + 1].text)
    BY <2>4, TokenKinds
  <2>6. QED
    BY <1>1, <1>4, <2>5 DEF ValueAt
<1>5. QED
  BY <1>2, <1>3, <1>4, TokenKinds DEF IsWord

\* The handler's checks pass exactly the lines that have a reading, and it asks
\* the library for what the reading says.
LEMMA CheckReads ==
    ASSUME TypeOK, Lists, cmd \in Handler, WellFormed(argv), Ready
    PROVE  IF Acceptable(cmd, args, strs["format"], bools)
           THEN Reading(cmd, argv) = Asked(cmd, args, strs["format"], bools, strs)
           ELSE Reading(cmd, argv) = None
<1>1. argv \in Seq(Token) /\ args \in Seq(Token) /\ bools \in [BoolFlag -> BOOLEAN]
  BY DEF TypeOK, Lists
<1>2. ReadUpTo(cmd, argv, strs, bools, Len(argv) + 1) /\ InOrder(argv, args, Free(argv))
  BY DEF Ready, FlagsRead
<1>3. /\ \A j \in DOMAIN argv : ~BadFlag(cmd, argv[j])
      /\ \A f \in StringFlag("school") : strs[f] = StringOf(argv, f)
      /\ \A f \in BoolFlag : bools[f] <=> IsOn(argv, f)
  BY <1>1, <1>2, ReadAll
<1>4. /\ {"region", "lang", "format"} \subseteq StringFlag("school")
      /\ {"json", "csv"} \subseteq BoolFlag
  BY DEF StringFlag, BoolFlag
<1>5. Free(argv) \in SUBSET Nat /\ Free(argv) \subseteq DOMAIN argv
  BY <1>1, LinePositions
<1>6. Cardinality(Free(argv)) = Len(args)
  BY <1>1, <1>2, <1>5, InOrderCount
<1>7. Len(args) = 2 => /\ args[1] = argv[FirstFree(argv)] /\ args[2] = argv[LastFree(argv)]
                       /\ IsWord(args[2])
  <2>1. SUFFICES ASSUME Len(args) = 2
        PROVE  /\ args[1] = argv[FirstFree(argv)] /\ args[2] = argv[LastFree(argv)]
               /\ IsWord(args[2])
    OBVIOUS
  <2>2. /\ \E x \in Free(argv) : args[1] = argv[x] /\ \A y \in Free(argv) : x <= y
        /\ \E x \in Free(argv) : args[2] = argv[x] /\ \A y \in Free(argv) : y <= x
    BY <1>1, <1>2, <1>5, <2>1, InOrderCount
  <2>3. PICK x \in Free(argv) : args[1] = argv[x] /\ \A y \in Free(argv) : x <= y
    BY <2>2
  <2>4. PICK z \in Free(argv) : args[2] = argv[z] /\ \A y \in Free(argv) : y <= z
    BY <2>2
  <2>5. \A y \in Free(argv) : y \in Nat
    BY <1>5
  <2>6. FirstFree(argv) = x
    <3>1. \A y \in Free(argv) : (\A k \in Free(argv) : y <= k) => y = x
      BY <2>3, <2>5
    <3>2. QED
      BY <2>3, <3>1 DEF FirstFree
  <2>7. LastFree(argv) = z
    <3>1. \A y \in Free(argv) : (\A k \in Free(argv) : k <= y) => y = z
      BY <2>4, <2>5
    <3>2. QED
      BY <2>4, <3>1 DEF LastFree
  <2>8. QED
    BY <2>3, <2>4, <2>6, <2>7 DEF Free
<1> DEFINE chosen == Chosen(strs["format"], bools)
<1>8. chosen = Plain(FormatOf(argv))
  <2>1. strs["format"] = StringOf(argv, "format")
        /\ (strs["format"] = Default \/ strs["format"] = Plain(strs["format"].text))
    BY <1>1, <1>2, <1>3, <1>4, ReadIsWord
  <2>2. (bools["json"] <=> IsOn(argv, "json")) /\ (bools["csv"] <=> IsOn(argv, "csv"))
    BY <1>3, <1>4
  <2>3. CASE bools["json"]
    BY <2>2, <2>3 DEF Chosen, FormatOf
  <2>4. CASE ~bools["json"] /\ bools["csv"]
    BY <2>2, <2>4 DEF Chosen, FormatOf
  <2>5. CASE ~bools["json"] /\ ~bools["csv"]
    BY <2>1, <2>2, <2>5 DEF Chosen, FormatOf
  <2>6. QED
    BY <2>3, <2>4, <2>5
<1>9. \A w : Plain(w).text = w
  BY DEF Plain
<1>10. /\ chosen.text = FormatOf(argv)
       /\ (\E x \in Format : chosen = Plain(x)) <=> FormatOf(argv) \in Format
  <2>1. chosen.text = FormatOf(argv)
    BY <1>8, <1>9
  <2>2. \A x : chosen = Plain(x) => x = FormatOf(argv)
    BY <1>9, <2>1
  <2>3. QED
    BY <1>8, <2>1, <2>2
<1> HIDE DEF chosen
<1>11. cmd # "school" => strs["region"] = Default
  <2>1. SUFFICES ASSUME cmd # "school" PROVE StringOf(argv, "region") = Default
    BY <1>3, <1>4
  <2>2. "region" \notin FlagSet(cmd)
    BY <2>1 DEF FlagSet, BoolFlag, StringFlag
  <2>3. Given(argv, "region") = {}
    BY <1>3, <2>2 DEF Given, BadFlag
  <2>4. QED
    BY <2>3 DEF StringOf
<1>12. Acceptable(cmd, args, strs["format"], bools)
         <=> /\ Cardinality(Free(argv)) = NArg(cmd)
             /\ cmd # "countries" => argv[LastFree(argv)].text \in Year
             /\ FormatOf(argv) \in Format
  <2>1. cmd # "countries" => NArg(cmd) = 2
    BY DEF NArg
  <2>2. Acceptable(cmd, args, strs["format"], bools)
          <=> /\ Len(args) = NArg(cmd)
              /\ cmd # "countries" => IsWord(args[2]) /\ args[2].text \in Year
              /\ \E x \in Format : chosen = Plain(x)
    BY DEF Acceptable, chosen
  <2>3. QED
    BY <1>6, <1>7, <1>10, <2>1, <2>2
<1>13. CASE Acceptable(cmd, args, strs["format"], bools)
  <2>1. cmd # "countries" => Len(args) = 2
    BY <1>6, <1>12, <1>13 DEF NArg
  <2>2. Reading(cmd, argv) =
          [country |-> IF cmd = "countries" THEN Default ELSE argv[FirstFree(argv)],
           year    |-> IF cmd = "countries" THEN Default ELSE argv[LastFree(argv)],
           region  |-> IF cmd = "school" THEN StringOf(argv, "region") ELSE Default,
           lang    |-> StringOf(argv, "lang"), format |-> FormatOf(argv)]
    BY <1>3, <1>12, <1>13 DEF Reading
  <2>3. Asked(cmd, args, strs["format"], bools, strs) =
          [country |-> IF cmd = "countries" THEN Default ELSE args[1],
           year    |-> IF cmd = "countries" THEN Default ELSE args[2],
           region  |-> strs["region"], lang |-> strs["lang"], format |-> FormatOf(argv)]
    BY <1>10 DEF Asked, chosen
  <2>4. /\ strs["lang"] = StringOf(argv, "lang")
        /\ strs["region"] = IF cmd = "school" THEN StringOf(argv, "region") ELSE Default
    BY <1>3, <1>4, <1>11
  <2>5. QED
    BY <1>7, <1>13, <2>1, <2>2, <2>3, <2>4
<1>14. CASE ~Acceptable(cmd, args, strs["format"], bools)
  BY <1>12, <1>14 DEF Reading
<1>15. QED
  BY <1>13, <1>14

-----------------------------------------------------------------------------
(* The order of a line.                                                    *)

LEMMA LineStep ==
    ASSUME TypeOK, Lists, LineInv, [Next]_vars
    PROVE  LineInv'
<1>1. UNCHANGED <<cmd, argv>>
  BY DEF Next, Run, RunUsage, RunInfo, RunHandler, Reorder, ReorderWord, ReorderAlone,
         ReorderPair, ReorderUnpaired, ReorderEnd, ToPositionals, ToFlags, Parse, ParseEnd,
         ParseTerminator, ParseError, ParseBool, ParseString, Handle, CheckFails, Ask,
         Rejected, Unsendable, Failed, NothingFound, Found, Render, vars, line
<1>2. SUFFICES ASSUME cmd \in Handler, WellFormed(argv)
      PROVE  /\ pc' \in {"run", "reorder"} => FlagsRead(1)' /\ Sorted'
             /\ pc' = "parse" => Parsing'
             /\ pc' = "check" => Ready'
             /\ pc' \in {"run", "reorder", "parse", "check"} => request' = None
             /\ pc' \in {"library", "render", "done"} => request' = Reading(cmd, argv)
  BY <1>1 DEF LineInv, OrderIsIrrelevant
<1> DEFINE Goal == /\ pc' \in {"run", "reorder"} => FlagsRead(1)' /\ Sorted'
                   /\ pc' = "parse" => Parsing'
                   /\ pc' = "check" => Ready'
                   /\ pc' \in {"run", "reorder", "parse", "check"} => request' = None
                   /\ pc' \in {"library", "render", "done"} => request' = Reading(cmd, argv)
<1>3. /\ pc \in {"run", "reorder"} => FlagsRead(1) /\ Sorted
      /\ pc = "parse" => Parsing
      /\ pc = "check" => Ready
      /\ pc \in {"run", "reorder", "parse", "check"} => request = None
      /\ pc \in {"library", "render", "done"} => request = Reading(cmd, argv)
  BY <1>2 DEF LineInv, OrderIsIrrelevant
<1>4. CASE Run
  <2>1. RunHandler /\ pc = "run"
    BY <1>2, <1>4 DEF Run, RunUsage, RunInfo, RunHandler, Handler
  <2>2. pc' = "reorder" /\ UNCHANGED <<cmd, argv, i, flags, positionals, strs, bools, request>>
    BY <2>1 DEF RunHandler, line, reorder, parsed, outcome
  <2>3. FlagsRead(1)' /\ Sorted'
    BY <1>3, <2>1, <2>2 DEF FlagsRead, Sorted
  <2>4. QED
    BY <1>3, <2>1, <2>2, <2>3
<1>5. CASE Reorder
  <2>1. pc = "reorder" /\ UNCHANGED <<cmd, argv, strs, bools, request>>
    BY <1>5 DEF Reorder, ReorderWord, ReorderAlone, ReorderPair, ReorderUnpaired, ReorderEnd,
           InLoop, ToPositionals, ToFlags, line, parsed, outcome
  <2>2. CASE ReorderEnd
    <3>1. pc' = "parse"
      BY <2>2 DEF ReorderEnd
    <3>2. Parsing'
      BY <1>3, <2>1, <2>2, SortEnd
    <3>3. QED
      BY <1>3, <2>1, <3>1, <3>2
  <2>3. CASE ReorderWord \/ ReorderAlone \/ ReorderPair \/ ReorderUnpaired
    <3>1. pc' = "reorder"
      BY <2>1, <2>3 DEF ReorderWord, ReorderAlone, ReorderPair, ReorderUnpaired,
             ToPositionals, ToFlags
    <3>2. Sorted'
      BY <1>2, <1>3, <2>1, <2>3, SortStep
    <3>3. FlagsRead(1)'
      BY <1>3, <2>1 DEF FlagsRead
    <3>4. QED
      BY <1>3, <2>1, <3>1, <3>2, <3>3
  <2>4. QED
    BY <1>5, <2>2, <2>3 DEF Reorder
<1>6. CASE Parse
  <2>1. pc = "parse" /\ request' = request
    BY <1>6 DEF Parse, ParseEnd, ParseTerminator, ParseError, ParseBool, ParseString, AtFlag,
           outcome
  <2>2. \/ pc' = "parse" /\ Parsing'
        \/ pc' = "check" /\ Ready'
        \/ pc' = "done" /\ Reading(cmd, argv) = None
    BY <1>2, <1>3, <1>6, <2>1, ParseReads
  <2>3. QED
    BY <1>3, <2>1, <2>2
<1>7. CASE Handle
  <2>1. CASE CheckFails
    <3>1. pc = "check" /\ pc' = "done" /\ request' = request
          /\ ~Acceptable(cmd, args, strs["format"], bools)
      BY <2>1 DEF CheckFails, Exit
    <3>2. QED
      BY <1>2, <1>3, <3>1, CheckReads
  <2>2. CASE Ask
    <3>1. pc = "check" /\ pc' = "library" /\ Acceptable(cmd, args, strs["format"], bools)
          /\ request' = Asked(cmd, args, strs["format"], bools, strs)
      BY <2>2 DEF Ask
    <3>2. QED
      BY <1>2, <1>3, <3>1, CheckReads
  <2>3. CASE Rejected \/ Unsendable \/ Failed \/ NothingFound \/ Found \/ Render
    <3>1. pc \in {"library", "render"} /\ pc' \in {"render", "done"} /\ request' = request
      BY <2>3 DEF Rejected, Unsendable, Failed, NothingFound, Found, Render, Exit
    <3>2. QED
      BY <1>3, <3>1
  <2>4. QED
    BY <1>7, <2>1, <2>2, <2>3 DEF Handle
<1>8. CASE UNCHANGED vars
  <2>1. UNCHANGED <<cmd, argv, pc, i, flags, positionals, args, strs, bools, request>>
    BY <1>8 DEF vars, line, reorder, parsed, outcome
  <2>2. QED
    BY <1>3, <2>1 DEF FlagsRead, Sorted, Parsing, Ready
<1>9. QED
  BY <1>4, <1>5, <1>6, <1>7, <1>8 DEF Next

\* Wherever the flags of a well-formed line stand, and however many there are,
\* the library is asked just what the line says as a whole, and a line that says
\* nothing is refused (main.go:132-193, public.go:56-97).
THEOREM FlagsAnywhere == Spec => []OrderIsIrrelevant
<1>1. Init => LineInv
  <2>1. Init => pc = "run" /\ request = None
    BY DEF Init
  <2>2. QED
    BY <2>1, LineInit DEF LineInv, OrderIsIrrelevant
<1>2. TypeOK /\ Lists /\ [Next]_vars => (TypeOK /\ Lists)'
  BY TypeLists
<1>3. TypeOK /\ Lists /\ LineInv /\ [Next]_vars => LineInv'
  BY LineStep
<1>4. LineInv => OrderIsIrrelevant
  BY DEF LineInv, OrderIsIrrelevant
<1>5. QED
  BY <1>1, <1>2, <1>3, <1>4, TypeInit, PTL DEF Spec
-----------------------------------------------------------------------------
(* The end of a run.                                                       *)

\* What is ahead of a run at p, with reorderArgs at the j-th token and n tokens
\* left to flag.Parse.
StepsLeft(p, j, n) ==
    CASE p = "run"     -> 2 * MaxArgs + 6
      [] p = "reorder" -> 2 * MaxArgs + 6 - j
      [] p = "parse"   -> n + 4
      [] p = "check"   -> 3
      [] p = "library" -> 2
      [] p = "render"  -> 1
      [] p = "done"    -> 0

Short == Len(args) <= MaxArgs

LEMMA TailIsShorter ==
    ASSUME NEW s \in Seq(Token), s # <<>>
    PROVE  Tail(s) \in Seq(Token) /\ Len(Tail(s)) = Len(s) - 1 /\ Len(s) \in Nat
BY HeadTailProperties

\* flag.Parse takes at least one token at every turn.
LEMMA ParseShortens ==
    ASSUME Lists, Parse
    PROVE  /\ Len(args') \in Nat /\ Len(args') <= Len(args)
           /\ \/ pc' \in {"check", "done"}
              \/ pc' = "parse" /\ Len(args') < Len(args)
<1>1. args \in Seq(Token) /\ Len(args) \in Nat
  BY DEF Lists
<1>2. CASE ParseEnd \/ ParseError
  BY <1>1, <1>2 DEF ParseEnd, ParseError, Exit, parsed
<1>3. CASE ParseTerminator
  BY <1>1, <1>3, TailIsShorter DEF ParseTerminator
<1>4. CASE ParseBool
  BY <1>1, <1>4, TailIsShorter DEF ParseBool, AtFlag
<1>5. CASE ParseString
  <2>1. args # <<>> /\ pc' = "parse"
    BY <1>5 DEF ParseString, AtFlag
  <2>2. Tail(args) \in Seq(Token) /\ Len(Tail(args)) = Len(args) - 1
    BY <1>1, <2>1, TailIsShorter
  <2>3. CASE args' = Tail(args)
    BY <1>1, <2>1, <2>2, <2>3
  <2>4. CASE Tail(args) # <<>> /\ args' = Tail(Tail(args))
    <3>1. Len(Tail(Tail(args))) = Len(Tail(args)) - 1 /\ Tail(Tail(args)) \in Seq(Token)
      BY <2>2, <2>4, TailIsShorter
    <3>2. QED
      BY <1>1, <2>1, <2>2, <2>4, <3>1
  <2>5. QED
    BY <1>5, <2>3, <2>4 DEF ParseString
<1>6. QED
  BY <1>2, <1>3, <1>4, <1>5 DEF Parse

\* reorderArgs moves at least one token at every turn, and loses none.
LEMMA ReorderAdvances ==
    ASSUME TypeOK, Lists, Reorder
    PROVE  /\ pc = "reorder"
           /\ \/ pc' = "reorder" /\ i' > i /\ args' = args
              \/ pc' = "parse" /\ Len(args') = i - 1
<1>1. i \in Nat /\ flags \in Seq(Token) /\ positionals \in Seq(Token)
      /\ Len(flags) + Len(positionals) = i - 1
  BY DEF TypeOK, Lists
<1>2. CASE ReorderWord \/ ReorderAlone \/ ReorderPair \/ ReorderUnpaired
  BY <1>1, <1>2 DEF ReorderWord, ReorderAlone, ReorderPair, ReorderUnpaired, InLoop,
         ToPositionals, ToFlags, parsed
<1>3. CASE ReorderEnd
  <2>1. Len(flags \o positionals) = Len(flags) + Len(positionals)
    BY <1>1
  <2>2. QED
    BY <1>1, <1>3, <2>1 DEF ReorderEnd
<1>4. QED
  BY <1>2, <1>3 DEF Reorder

LEMMA RunShrinks ==
    ASSUME TypeOK, Lists, Short, Next
    PROVE  /\ Short'
           /\ StepsLeft(pc', i', Len(args')) < StepsLeft(pc, i, Len(args))
<1>1. /\ i \in Nat /\ 1 <= i /\ i <= MaxArgs + 1 /\ MaxArgs \in Nat
      /\ Len(args) \in Nat /\ Len(args) <= MaxArgs
  BY DEF TypeOK, Lists, Short
<1>2. CASE Run
  <2>1. pc = "run" /\ pc' \in {"reorder", "done"} /\ UNCHANGED <<i, args>>
    BY <1>2 DEF Run, RunUsage, RunInfo, RunHandler, Exit, reorder, parsed
  <2>2. QED
    BY <1>1, <2>1 DEF StepsLeft, Short
<1>3. CASE Reorder
  <2>1. /\ pc = "reorder"
        /\ \/ pc' = "reorder" /\ i' > i /\ args' = args
           \/ pc' = "parse" /\ Len(args') = i - 1
    BY <1>3, ReorderAdvances
  <2>2. i' \in Nat
    BY <1>3, TypeReorder DEF TypeOK
  <2>3. QED
    BY <1>1, <2>1, <2>2 DEF StepsLeft, Short
<1>4. CASE Parse
  <2>1. pc = "parse"
    BY <1>4 DEF Parse, ParseEnd, ParseTerminator, ParseError, ParseBool, ParseString, AtFlag
  <2>2. QED
    BY <1>1, <1>4, <2>1, ParseShortens DEF StepsLeft, Short
<1>5. CASE Handle
  <2>1. /\ \/ pc = "check" /\ pc' \in {"library", "done"}
           \/ pc = "library" /\ pc' \in {"render", "done"}
           \/ pc = "render" /\ pc' = "done"
        /\ args' = args
    BY <1>5 DEF Handle, CheckFails, Ask, Rejected, Unsendable, Failed, NothingFound, Found,
           Render, Exit, parsed
  <2>2. QED
    BY <1>1, <2>1 DEF StepsLeft, Short
<1>6. QED
  BY <1>2, <1>3, <1>4, <1>5 DEF Next

\* A run of n tokens makes at most 2 * n + 6 steps: reorderArgs and flag.Parse
\* each consume a token at every turn, whatever the line (main.go:142-193).
THEOREM RunsEnd ==
    Spec => /\ [](StepsLeft(pc, i, Len(args)) \in 0..(2 * MaxArgs + 6))
            /\ [][StepsLeft(pc', i', Len(args')) < StepsLeft(pc, i, Len(args))]_vars
<1> DEFINE I == TypeOK /\ Lists /\ Short
           Less == StepsLeft(pc', i', Len(args')) < StepsLeft(pc, i, Len(args))
<1>1. Init => I
  <2>1. ASSUME Init PROVE Short
    BY <2>1 DEF Init, Short
  <2>2. QED
    BY <2>1, TypeInit
<1>2. I /\ [Next]_vars => I' /\ [Less]_vars
  <2>1. CASE UNCHANGED vars
    <3>1. I /\ UNCHANGED vars => Short'
      BY DEF Short, vars, parsed
    <3>2. QED
      BY <2>1, <3>1, TypeLists
  <2>2. ASSUME I, Next PROVE Short' /\ Less
    BY <2>2, RunShrinks
  <2>3. QED
    BY <2>1, <2>2, TypeLists
<1>3. I => StepsLeft(pc, i, Len(args)) \in 0..(2 * MaxArgs + 6)
  <2>1. SUFFICES ASSUME I PROVE StepsLeft(pc, i, Len(args)) \in 0..(2 * MaxArgs + 6)
    OBVIOUS
  <2>2. /\ i \in Nat /\ 1 <= i /\ i <= MaxArgs + 1 /\ MaxArgs \in Nat
        /\ Len(args) \in Nat /\ Len(args) <= MaxArgs
        /\ pc \in {"run", "reorder", "parse", "check", "library", "render", "done"}
    BY <2>1 DEF TypeOK, Lists, Short
  <2>3. QED
    BY <2>2 DEF StepsLeft
<1> HIDE DEF I, Less
<1>4. QED
  <2>1. Spec => []I /\ [][Less]_vars
    BY <1>1, <1>2, PTL DEF Spec
  <2>2. Spec => [](StepsLeft(pc, i, Len(args)) \in 0..(2 * MaxArgs + 6))
    BY <1>3, <2>1, PTL
  <2>3. QED
    BY <2>1, <2>2 DEF Less
=============================================================================

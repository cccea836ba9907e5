------------------------------ MODULE DecodeProofs ------------------------------
(***************************************************************************)
(* Proofs about Decode for bodies of any length and every cap.             *)
(*                                                                         *)
(* The decoder meets its bytes one at a time and in chunks of any size;    *)
(* Start, End and Rest read the same places off the body as a whole.  The  *)
(* invariant DInv says where the one stands relative to the other.         *)
(***************************************************************************)
EXTENDS Decode, WellFoundedInduction, TLAPS

USE CapAssumption

-----------------------------------------------------------------------------
(* Places in a body.                                                       *)

LEMMA Minimum ==
    ASSUME NEW T \in SUBSET Nat, T # {}
    PROVE  \E n \in T : \A m \in T : n <= m
<1>1. PICK n \in T : \A m \in T : ~(<<m, n>> \in OpToRel(<, Nat))
  BY NatLessThanWellFounded, WFMin, Zenon
<1>2. ASSUME NEW m \in T
      PROVE  n <= m
  <2>1. ~(m < n)
    BY <1>1, <1>2 DEF OpToRel
  <2>2. QED
    BY <2>1, <1>2
<1>3. QED
  BY <1>2

\* FirstOther is the first place from i on whose byte is not in S.
LEMMA FirstOtherIs ==
    ASSUME NEW b \in Seq(Byte), NEW i \in Nat \ {0}, NEW S
    PROVE  LET f == FirstOther(b, i, S)
           IN  /\ f \in Nat /\ f \in 1..(Len(b) + 1)
               /\ f <= Len(b) => f >= i /\ b[f] \notin S
               /\ f > Len(b) \/ i <= f
               /\ \A m \in i..Len(b) : m < f => b[m] \in S
<1> DEFINE Other == {n \in i..Len(b) : b[n] \notin S}
<1>0. Len(b) \in Nat
  OBVIOUS
<1>1. CASE Other = {}
  BY <1>0, <1>1 DEF FirstOther
<1>2. CASE Other # {}
  <2>1. Other \in SUBSET Nat
    BY <1>0
  <2>2. \E n \in Other : \A m \in Other : n <= m
    BY <1>2, <2>1, Minimum
  <2> DEFINE f == CHOOSE n \in Other : \A m \in Other : n <= m
  <2>3. f \in Other /\ \A m \in Other : f <= m
    BY <2>2
  <2>4. FirstOther(b, i, S) = f
    BY <1>2 DEF FirstOther
  <2> HIDE DEF f
  <2>5. \A m \in i..Len(b) : m < f => b[m] \in S
    BY <2>3, <1>0
  <2>6. QED
    BY <2>3, <2>4, <2>5, <1>0
<1>3. QED
  BY <1>1, <1>2

\* The three places of a body, and that a document has two ends.
Places ==
    /\ Len(body) \in Nat
    /\ Start \in Nat /\ End \in Nat /\ Rest \in Nat
    /\ Start \in 1..(Len(body) + 1) /\ End \in 1..(Len(body) + 1) /\ Rest \in 1..(Len(body) + 1)
    /\ Start <= Len(body) => body[Start] # "space"
    /\ \A m \in 1..Len(body) : m < Start => body[m] = "space"
    /\ End <= Len(body) => Start <= End /\ body[End] \notin {"space", "open"}
    /\ \A m \in Start..Len(body) : m < End => body[m] \in {"space", "open"}
    /\ Rest <= Len(body) => End < Rest /\ body[Rest] # "space"
    /\ \A m \in (End + 1)..Len(body) : m < Rest => body[m] = "space"
    /\ HasDocument => Start < End /\ End <= Len(body) /\ body[Start] = "open"
    /\ HasDocument <=> At(Start, {"open"}) /\ At(End, {"close"})

LEMMA PlacesOf ==
    ASSUME TypeOK
    PROVE  Places
<1>1. body \in Seq(Byte) /\ Len(body) \in Nat
  BY DEF TypeOK, Body
<1>2. /\ Start \in 1..(Len(body) + 1)
      /\ Start <= Len(body) => body[Start] # "space"
      /\ \A m \in 1..Len(body) : m < Start => body[m] = "space"
  BY <1>1, FirstOtherIs DEF Start
<1>3. /\ End \in 1..(Len(body) + 1)
      /\ End <= Len(body) => Start <= End /\ body[End] \notin {"space", "open"}
      /\ \A m \in Start..Len(body) : m < End => body[m] \in {"space", "open"}
  <2>1. Start \in Nat \ {0}
    BY <1>1, <1>2
  <2>2. QED
    BY <1>1, <2>1, FirstOtherIs DEF End
<1>4. /\ Rest \in 1..(Len(body) + 1)
      /\ Rest <= Len(body) => End + 1 <= Rest /\ body[Rest] # "space"
      /\ \A m \in (End + 1)..Len(body) : m < Rest => body[m] = "space"
  <2>1. End + 1 \in Nat \ {0}
    BY <1>1, <1>3
  <2>2. QED
    BY <1>1, <2>1, FirstOtherIs DEF Rest
<1>5. HasDocument => Start < End /\ End <= Len(body) /\ body[Start] = "open"
  BY <1>1, <1>2, <1>3 DEF HasDocument, At
<1>6. QED
  BY <1>1, <1>2, <1>3, <1>4, <1>5 DEF Places, HasDocument

-----------------------------------------------------------------------------
(* The invariant.                                                          *)

Decoding == {"before", "document", "unmarshal", "after"}

\* Where the decoder stands among the places of the body.
Scanned ==
    /\ phase = "fill" => pos = 0
    /\ phase = "before" => pos < Start
    /\ phase = "document" => At(Start, {"open"}) /\ Start <= pos /\ pos < End
    /\ phase = "unmarshal" => HasDocument /\ pos = End
    /\ phase = "after" => HasDocument /\ fits /\ End <= pos /\ pos < Rest

\* Which way the body came, and that only a call that is over has a verdict.
Routed ==
    /\ phase = "problem" => route = "error"
    /\ phase = "fill" => route = "cached"
    /\ phase \in Decoding => /\ route # "error"
                             /\ route = "cached" => ~Oversized /\ ends = "eof"
    /\ phase # "done" => result = "none"

Verdicts == WholeDocumentsOnly /\ VerdictIgnoresChunks

DInv == TypeOK /\ Scanned /\ Routed /\ Verdicts

\* Without a verdict there is nothing to say of it.
LEMMA NoVerdict ==
    ASSUME result = "none"
    PROVE  Verdicts
BY DEF Verdicts, WholeDocumentsOnly, VerdictIgnoresChunks

\* The places depend on the body alone.
LEMMA PlacesStay ==
    ASSUME UNCHANGED input
    PROVE  /\ Start' = Start /\ End' = End /\ Rest' = Rest
           /\ HasDocument' = HasDocument /\ Oversized' = Oversized
           /\ Available' = Available /\ Limit' = Limit
           /\ body' = body /\ ends' = ends /\ fits' = fits /\ route' = route
           /\ \A S : At(Start, S)' = At(Start, S) /\ At(Rest, S)' = At(Rest, S)
<1>1. body' = body /\ ends' = ends /\ fits' = fits /\ route' = route
  BY DEF input
<1>2. Start' = Start
  BY <1>1 DEF Start
<1>3. End' = End
  BY <1>1, <1>2 DEF End
<1>4. Rest' = Rest
  BY <1>1, <1>3 DEF Rest
<1>5. QED
  BY <1>1, <1>2, <1>3, <1>4 DEF HasDocument, At, Oversized, Available, Limit

LEMMA DInit == Init => DInv
<1> SUFFICES ASSUME Init PROVE DInv
  OBVIOUS
<1>1. TypeOK
  BY DEF Init, TypeOK, Available, Body
<1>2. Scanned
  BY <1>1, PlacesOf DEF Init, Scanned, Places
<1>3. Routed
  BY DEF Init, Routed, Decoding
<1>4. Verdicts
  BY NoVerdict DEF Init
<1>5. QED
  BY <1>1, <1>2, <1>3, <1>4 DEF DInv

LEMMA TypeStep ==
    ASSUME TypeOK, [Next]_vars
    PROVE  TypeOK'
<1>1. Len(body) \in Nat /\ Available \in Nat /\ Available <= Len(body)
  BY DEF TypeOK, Body, Available
<1>2. CASE UNCHANGED vars
  BY <1>2 DEF TypeOK, vars, Available
<1>3. CASE Next
  <2> USE DEF TypeOK, input, Available
  <2>1. CASE FillCut \/ FillTooLarge \/ FillWhole \/ Problem
    BY <2>1 DEF FillCut, FillTooLarge, FillWhole, Problem, Return
  <2>2. CASE Refill
    BY <1>1, <2>2 DEF Refill
  <2>3. CASE Skip \/ Open \/ Close
    BY <1>1, <2>3 DEF Skip, Open, Close
  <2>4. CASE Empty \/ Broken \/ Misfit \/ Fit \/ Trailing \/ Decoded
    BY <2>4 DEF Empty, Broken, Misfit, Fit, Trailing, Decoded, Return, Gate
  <2>5. QED
    BY <1>3, <2>1, <2>2, <2>3, <2>4 DEF Next
<1>4. QED
  BY <1>2, <1>3

-----------------------------------------------------------------------------
(* Steps that give no verdict.                                             *)

LEMMA ScanStep ==
    ASSUME DInv, FillWhole \/ Refill \/ Skip \/ Open \/ Close \/ Fit
    PROVE  Scanned' /\ Routed' /\ result' = "none"
<1> USE DEF DInv, TypeOK
<1>1. Places
  BY PlacesOf
<1>2. UNCHANGED input /\ read <= Len(body) /\ result' = result
  BY <1>1 DEF FillWhole, Refill, Skip, Open, Close, Fit, Available, Places
<1>3. result = "none" /\ phase # "problem" /\ phase # "done"
  BY DEF FillWhole, Refill, Skip, Open, Close, Fit, Routed
<1>4. Scanned'
  <2> USE PlacesStay, <1>1, <1>2 DEF Scanned, Places, At
  <2>1. CASE FillWhole
    BY <2>1 DEF FillWhole
  <2>2. CASE Refill
    BY <2>2 DEF Refill
  <2>3. CASE Skip
    BY <2>3 DEF Skip
  <2>4. CASE Open
    BY <2>4 DEF Open
  <2>5. CASE Close
    BY <2>5 DEF Close, HasDocument
  <2>6. CASE Fit
    BY <2>6 DEF Fit
  <2>7. QED
    BY <2>1, <2>2, <2>3, <2>4, <2>5, <2>6
<1>5. Routed'
  BY <1>2, <1>3, PlacesStay
  DEF Routed, Decoding, FillWhole, Refill, Skip, Open, Close, Fit
<1>6. QED
  BY <1>2, <1>3, <1>4, <1>5

-----------------------------------------------------------------------------
(* Steps that give one.                                                    *)

LEMMA ReturnStep ==
    ASSUME NEW r, Return(r)
    PROVE  UNCHANGED input /\ result' = r /\ Scanned' /\ Routed'
BY DEF Return, Scanned, Routed, Decoding

LEMMA VerdictStep ==
    ASSUME DInv, \/ FillCut \/ FillTooLarge \/ Problem \/ Empty \/ Broken
                 \/ Misfit \/ Trailing \/ Decoded
    PROVE  Scanned' /\ Routed' /\ Verdicts'
<1> USE DEF DInv, TypeOK
<1>1. Places
  BY PlacesOf
<1>2. UNCHANGED input /\ Scanned' /\ Routed'
  BY ReturnStep DEF FillCut, FillTooLarge, Problem, Empty, Broken, Misfit, Trailing, Decoded
<1>3. read <= Len(body) /\ read <= Cap
  BY <1>1 DEF Available, Places
<1>4. phase # "problem" => route # "error"
  BY DEF FillCut, FillTooLarge, Problem, Empty, Broken, Misfit, Trailing, Decoded,
         Routed, Decoding
<1>5. Verdicts'
  <2> USE PlacesStay, ReturnStep, <1>1, <1>2, <1>3, <1>4
      DEF Verdicts, WholeDocumentsOnly, VerdictIgnoresChunks, Limit, Places, At, Oversized
  <2>1. CASE FillCut
    BY <2>1 DEF FillCut, Routed
  <2>2. CASE FillTooLarge
    BY <2>2 DEF FillTooLarge, Routed
  <2>3. CASE Problem
    BY <2>3 DEF Problem, Routed
  <2>4. CASE Empty
    BY <2>4 DEF Empty, Eof, Exhausted, Available, Routed, Decoding, Scanned
  <2>5. CASE Broken
    BY <2>5 DEF Broken, Eof, Exhausted, Available, Routed, Decoding, Scanned, Gate
  <2>6. CASE Misfit
    BY <2>6 DEF Misfit, Routed, Decoding, Scanned, Gate
  <2>7. CASE Trailing
    BY <2>7 DEF Trailing, More, Routed, Decoding, Scanned
  <2>8. CASE Decoded
    BY <2>8 DEF Decoded, NoMore, Exhausted, Available, Routed, Decoding, Scanned
  <2>9. QED
    BY <2>1, <2>2, <2>3, <2>4, <2>5, <2>6, <2>7, <2>8
<1>6. QED
  BY <1>2, <1>5

LEMMA DNext ==
    ASSUME DInv, [Next]_vars
    PROVE  DInv'
<1>1. TypeOK'
  BY TypeStep DEF DInv
<1>2. Scanned' /\ Routed' /\ Verdicts'
  <2>1. CASE UNCHANGED vars
    <3>1. UNCHANGED <<input, phase, read, pos, result>>
      BY <2>1 DEF vars, input
    <3>2. QED
      BY <3>1, PlacesStay DEF DInv, Scanned, Routed, Decoding, Verdicts,
         WholeDocumentsOnly, VerdictIgnoresChunks
  <2>2. CASE FillWhole \/ Refill \/ Skip \/ Open \/ Close \/ Fit
    <3>1. Scanned' /\ Routed' /\ result' = "none"
      BY <2>2, ScanStep
    <3>2. Verdicts'
      BY <3>1 DEF Verdicts, WholeDocumentsOnly, VerdictIgnoresChunks
    <3>3. QED
      BY <3>1, <3>2
  <2>3. CASE \/ FillCut \/ FillTooLarge \/ Problem \/ Empty \/ Broken
             \/ Misfit \/ Trailing \/ Decoded
    BY <2>3, VerdictStep
  <2>4. QED
    BY <2>1, <2>2, <2>3 DEF Next
<1>3. QED
  BY <1>1, <1>2 DEF DInv

\* The invariant: where the decoder stands between Start, End and Rest of the
\* body, whichever way it came (request.go:240-280, transport_cache.go:181-203).
THEOREM DecodeInvariance == Spec => []DInv
<1>1. QED
  BY DInit, DNext, PTL DEF Spec

\* No call reads past its limit, nor scans what it has not read
\* (request.go:240-247).
THEOREM TypeCorrect == Spec => []TypeOK
<1>1. DInv => TypeOK
  BY DEF DInv
<1>2. QED
  BY <1>1, DecodeInvariance, PTL

\* Whatever the cap and however long the body: what is handed out is one whole
\* document within the limit, and a body that holds one is handed out
\* (request.go:245, 269-277, transport_cache.go:181-203).
THEOREM DocumentsWhole == Spec => []WholeDocumentsOnly
<1>1. DInv => WholeDocumentsOnly
  BY DEF DInv, Verdicts
<1>2. QED
  BY <1>1, DecodeInvariance, PTL

\* The verdict is a function of the bytes: in whatever chunks they are read, a
\* shorter body is sorted the same way, and a document that the cap cuts off is
\* too large (request.go:250-280).
THEOREM VerdictsStable == Spec => []VerdictIgnoresChunks
<1>1. DInv => VerdictIgnoresChunks
  BY DEF DInv, Verdicts
<1>2. QED
  BY <1>1, DecodeInvariance, PTL
-----------------------------------------------------------------------------

\* What may be left to do: phases, bytes to read and bytes to scan.
PhasesLeft(p) == CASE p = "fill" -> 5      [] p = "before" -> 4
                   [] p = "document" -> 3  [] p = "unmarshal" -> 2
                   [] p = "after" -> 1     [] p = "problem" -> 1
                   [] p = "done" -> 0
WorkLeft(p, r, n) == PhasesLeft(p) + (Available - r) + (Available - n)

\* Fewer phases, or more bytes read or scanned, leave less to do.
LEMMA LessWork ==
  ASSUME TypeOK, TypeOK', read <= read', pos <= pos',
         \/ PhasesLeft(phase') < PhasesLeft(phase)
         \/ PhasesLeft(phase') = PhasesLeft(phase) /\ (read < read' \/ pos < pos')
  PROVE  WorkLeft(phase', read', pos') < WorkLeft(phase, read, pos)
<1>1. body \in Seq(Byte) /\ Len(body) \in Nat
  BY DEF TypeOK, Body
<1>2. Available \in Int
  BY <1>1 DEF Available
<1>3. PhasesLeft(phase) \in 0..5 /\ PhasesLeft(phase') \in 0..5
  BY DEF TypeOK, PhasesLeft
<1>4. read \in Int /\ read' \in Int /\ pos \in Int /\ pos' \in Int
  BY DEF TypeOK
<1>5. QED
  BY <1>2, <1>3, <1>4 DEF WorkLeft

\* Every body is judged: whatever the chunks, each step leaves less to do, and
\* there never is more than twice the cap of it (request.go:245-281).
THEOREM DecodingEnds ==
  Spec => /\ [](WorkLeft(phase, read, pos) \in 0..(2 * Cap + 5))
          /\ [][WorkLeft(phase, read, pos)' < WorkLeft(phase, read, pos)]_vars
<1>1. ASSUME TypeOK PROVE WorkLeft(phase, read, pos) \in 0..(2 * Cap + 5)
  <2>1. Len(body) \in Nat /\ Cap \in Nat
    BY <1>1 DEF TypeOK, Body
  <2>2. Available \in Nat /\ Available <= Cap
    BY <2>1 DEF Available
  <2>3. PhasesLeft(phase) \in 0..5
    BY <1>1 DEF TypeOK, PhasesLeft
  <2>4. read \in Int /\ pos \in Int /\ 0 <= pos /\ pos <= read /\ read <= Available
    BY <1>1, <2>2 DEF TypeOK
  <2>5. QED
    BY <2>1, <2>2, <2>3, <2>4 DEF WorkLeft
<1>2. TypeOK => WorkLeft(phase, read, pos) \in 0..(2 * Cap + 5)
  BY <1>1
<1>3. ASSUME TypeOK, TypeOK', Next PROVE WorkLeft(phase', read', pos') < WorkLeft(phase, read, pos)
  <2>1. read \in Int /\ pos \in Int
    BY <1>3 DEF TypeOK
  <2>2. CASE FillCut \/ FillTooLarge \/ FillWhole \/ Problem
    <3>1. PhasesLeft(phase') < PhasesLeft(phase) /\ read' = read /\ pos' = pos
      BY <2>2 DEF FillCut, FillTooLarge, FillWhole, Problem, Return, PhasesLeft
    <3>2. QED
      BY <1>3, <2>1, <3>1, LessWork
  <2>3. CASE Refill \/ Skip
    <3>1. phase' = phase /\ read' \in Int
      BY <1>3, <2>3 DEF Refill, Skip, TypeOK
    <3>2. (read < read' /\ pos' = pos) \/ (read' = read /\ pos' = pos + 1)
      BY <2>1, <2>3 DEF Refill, Skip
    <3>3. QED
      BY <1>3, <2>1, <3>1, <3>2, LessWork
  <2>4. CASE Open \/ Close
    <3>1. PhasesLeft(phase') < PhasesLeft(phase) /\ read' = read /\ pos' = pos + 1
      BY <2>4 DEF Open, Close, PhasesLeft
    <3>2. QED
      BY <1>3, <2>1, <3>1, LessWork
  <2>5. CASE Empty \/ Broken \/ Misfit \/ Fit \/ Trailing \/ Decoded
    <3>1. PhasesLeft(phase') < PhasesLeft(phase) /\ read' = read /\ pos' = pos
      BY <2>5 DEF Empty, Broken, Misfit, Fit, Trailing, Decoded, Return, PhasesLeft
    <3>2. QED
      BY <1>3, <2>1, <3>1, LessWork
  <2>6. QED
    BY <1>3, <2>2, <2>3, <2>4, <2>5 DEF Next
<1>4. ASSUME Next PROVE WorkLeft(phase, read, pos)' = WorkLeft(phase', read', pos')
  <2>1. body' = body
    BY <1>4 DEF Next, FillCut, FillTooLarge, FillWhole, Problem, Refill, Skip, Open, Close, Empty,
       Broken, Misfit, Fit, Trailing, Decoded, Return, input
  <2>2. Available' = Available
    BY <2>1 DEF Available
  <2>3. QED
    BY <2>2 DEF WorkLeft, PhasesLeft
<1>5. TypeOK /\ TypeOK' /\ [Next]_vars
        => [WorkLeft(phase, read, pos)' < WorkLeft(phase, read, pos)]_vars
  BY <1>3, <1>4
<1>6. QED
  BY <1>2, <1>5, TypeCorrect, PTL DEF Spec
=============================================================================

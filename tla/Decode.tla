------------------------------- MODULE Decode -------------------------------
(***************************************************************************)
(* The last part of a call (request.go, transport_cache.go): one JSON      *)
(* document is taken from a body of any length, and what went wrong is     *)
(* sorted into empty, too large, malformed and failed.  A body goes one of *)
(* three ways: to the decoder of doJSONGet as it arrives, through a reader *)
(* that stops after Cap bytes; to the same decoder once cacheTransport has *)
(* read it ahead; or, with a status of 400 and above, to buildAPIError.    *)
(*                                                                         *)
(* The decoder reads ahead in chunks of its own choosing, so how much of   *)
(* the budget is left when an error surfaces (limited.N) is not determined *)
(* by the body alone.                                                      *)
(***************************************************************************)
EXTENDS Integers, Sequences, FiniteSets

CONSTANTS
    Cap,        \* maxResponseBytes
    ErrorCap,   \* apiErrorBodyCap
    MaxLen      \* bound: length of a body

ASSUME CapAssumption == {Cap, ErrorCap} \subseteq Nat \ {0} /\ MaxLen \in Nat

\* White space; a byte that opens or continues a document; one that completes
\* it; one that no document has there.
Byte == {"space", "open", "close", "bad"}
Body == UNION {[1..n -> Byte] : n \in 0..MaxLen}

VARIABLES
    body,       \* what the upstream sends
    ends,       \* how the transfer ends: "eof", or "cut" by a failure
    fits,       \* the document has the shape of T (and, strict, no other fields), or
                \* names a problem that parseAPIMessage looks for
    route,      \* "direct", "cached" or "error"
    phase,      \* "fill", "problem", "before", "document", "unmarshal", "after" or "done"
    read,       \* bytes the decoder has taken from the limited reader
    pos,        \* bytes it has scanned
    result      \* "none", or what becomes of the call

vars == <<body, ends, fits, route, phase, read, pos, result>>
input == <<body, ends, fits, route>>

\* How far the limited reader goes.
Available == IF Len(body) < Cap THEN Len(body) ELSE Cap

TypeOK ==
    /\ body \in Body /\ ends \in {"eof", "cut"} /\ fits \in BOOLEAN
    /\ route \in {"direct", "cached", "error"}
    /\ phase \in {"fill", "problem", "before", "document", "unmarshal", "after", "done"}
    /\ read \in 0..Available
    /\ pos \in 0..read
    /\ result \in {"none", "data", "message", "plain", "empty", "tooLarge", "malformed", "failed"}

Init ==
    /\ body \in Body /\ ends \in {"eof", "cut"} /\ fits \in BOOLEAN
    /\ \/ route = "direct" /\ phase = "before"
       \/ route = "cached" /\ phase = "fill"
       \/ route = "error"  /\ phase = "problem"
    /\ read = 0 /\ pos = 0 /\ result = "none"

Return(r) == phase' = "done" /\ result' = r /\ UNCHANGED <<input, read, pos>>

\* The mid-truncation gate: limited.N = 0.
Gate_Absent == "malformed"
Gate == IF read = Cap THEN "tooLarge" ELSE "malformed"

-----------------------------------------------------------------------------
(* Where the one document of a body is.                                    *)

\* The place of the first byte of b, from place i on, that is not one of S; one
\* past the end if there is none.
FirstOther(b, i, S) ==
    LET Other == {n \in i..Len(b) : b[n] \notin S}
    IN  IF Other = {} THEN Len(b) + 1 ELSE CHOOSE n \in Other : \A m \in Other : n <= m

Start == FirstOther(body, 1, {"space"})
End   == FirstOther(body, Start, {"space", "open"})
At(n, S) == n <= Len(body) /\ body[n] \in S
HasDocument == At(Start, {"open"}) /\ At(End, {"close"})
\* The first byte behind the document that is not white space.
Rest == FirstOther(body, End + 1, {"space"})

-----------------------------------------------------------------------------
(* cacheTransport reads one byte further than the cap before it decides.   *)

Oversized == Len(body) > Cap

FillCut == phase = "fill" /\ ~Oversized /\ ends = "cut" /\ Return("failed")

FillTooLarge == phase = "fill" /\ Oversized /\ Return("tooLarge")

FillWhole_CutToo ==
    /\ phase = "fill" /\ ~Oversized
    /\ phase' = "before"
    /\ UNCHANGED <<input, read, pos, result>>
FillWhole ==
    /\ phase = "fill" /\ ~Oversized /\ ends = "eof"
    /\ phase' = "before"
    /\ UNCHANGED <<input, read, pos, result>>

-----------------------------------------------------------------------------
(* json.Decoder.                                                           *)

\* External: the decoder has scanned all it has and reads a chunk.
Refill_Unlimited ==
    /\ phase \in {"before", "document", "after"} /\ pos = read
    /\ \E n \in (read + 1)..Len(body) : read' = n
    /\ UNCHANGED <<input, phase, pos, result>>
Refill ==
    /\ phase \in {"before", "document", "after"} /\ pos = read
    /\ \E n \in (read + 1)..Available : read' = n
    /\ UNCHANGED <<input, phase, pos, result>>

\* A byte that does not change what the decoder is looking for.
Skip ==
    /\ pos < read
    /\ \/ phase \in {"before", "after"} /\ body[pos + 1] = "space"
       \/ phase = "document" /\ body[pos + 1] \in {"space", "open"}
    /\ pos' = pos + 1
    /\ UNCHANGED <<input, phase, read, result>>

Open ==
    /\ phase = "before" /\ pos < read /\ body[pos + 1] = "open"
    /\ phase' = "document" /\ pos' = pos + 1
    /\ UNCHANGED <<input, read, result>>

Close ==
    /\ phase = "document" /\ pos < read /\ body[pos + 1] = "close"
    /\ phase' = "unmarshal" /\ pos' = pos + 1
    /\ UNCHANGED <<input, read, result>>

\* The limited reader has ended, by its budget or with the transfer.
Exhausted == pos = read /\ read = Available
Eof == Exhausted /\ (ends = "eof" \/ read = Cap)

-----------------------------------------------------------------------------
(* What doJSONGet makes of it.                                             *)

Empty == phase = "before" /\ Eof /\ Return("empty")

\* A syntax error, an unfinished document, or a failed read.
Broken ==
    /\ \/ phase = "before" /\ pos < read /\ body[pos + 1] \in {"close", "bad"}
       \/ phase = "document" /\ pos < read /\ body[pos + 1] = "bad"
       \/ phase = "before" /\ Exhausted /\ ~Eof
       \/ phase = "document" /\ Exhausted
    /\ Return(Gate)

Misfit == phase = "unmarshal" /\ ~fits /\ Return(Gate)

Fit ==
    /\ phase = "unmarshal" /\ fits
    /\ phase' = "after"
    /\ UNCHANGED <<input, read, pos, result>>

\* decoder.More: another value, or any other byte but a closing one, waits.
More_AnyByte == pos < read
More == pos < read /\ body[pos + 1] \in {"open", "bad"}
NoMore == \/ pos < read /\ body[pos + 1] = "close"
          \/ Exhausted

Trailing == phase = "after" /\ More /\ Return("tooLarge")
Decoded  == phase = "after" /\ NoMore /\ Return("data")

\* buildAPIError reads up to its own cap, whatever then happens, and looks for a
\* message in what it has got, which must be one document and nothing else.
Problem_FirstDocument ==
    /\ phase = "problem"
    /\ Return(IF At(Start, {"open"}) /\ fits THEN "message" ELSE "plain")
Problem ==
    /\ phase = "problem"
    /\ Return(IF HasDocument /\ fits /\ End <= ErrorCap /\ (Rest > Len(body) \/ Rest > ErrorCap)
              THEN "message" ELSE "plain")

Next == \/ FillCut \/ FillTooLarge \/ FillWhole \/ Problem
        \/ Refill \/ Skip \/ Open \/ Close
        \/ Empty \/ Broken \/ Misfit \/ Fit \/ Trailing \/ Decoded

Spec == Init /\ [][Next]_vars

-----------------------------------------------------------------------------
(* What must be true of it.                                                *)

Limit == IF route = "error" THEN ErrorCap ELSE Cap

\* What is handed out, data or the message of an API error, is one whole document
\* that ends within the cap; and a body which holds one, with white space around
\* it, is handed out however it arrives, even if white space runs past the cap
\* (request.go:245, 269-277).  Only a cache wants all of the body within the cap,
\* and the end of it (transport_cache.go:181-203).
WholeDocumentsOnly ==
    /\ result \in {"data", "message"} => HasDocument /\ End <= Limit /\ fits
    /\ (/\ result # "none" /\ HasDocument /\ fits /\ End <= Limit /\ Rest = Len(body) + 1
        /\ route = "cached" => ~Oversized /\ ends = "eof")
          => result \in {"data", "message"}

\* The verdict depends on the bytes, not on how they arrive.  Below the cap it is
\* the same whether or not a cache comes between, except that a cache sees a
\* transfer break off where the decoder sees a document that breaks off (or one
\* that is complete); a document that the cap cuts off is too large, not malformed
\* (request.go:250-280, transport_cache.go:181-203).
VerdictIgnoresChunks ==
    /\ result # "none" /\ route # "error" /\ Len(body) < Cap =>
        result = IF route = "cached" /\ ends = "cut" THEN "failed"
                 ELSE IF Start > Len(body) THEN (IF ends = "eof" THEN "empty" ELSE "malformed")
                 ELSE IF ~HasDocument \/ ~fits THEN "malformed"
                 ELSE IF At(Rest, {"open", "bad"}) THEN "tooLarge" ELSE "data"
    /\ result # "none" /\ route # "error" /\ Oversized /\ At(Start, {"open"}) /\ Start <= Cap /\ End > Cap
          => result = "tooLarge"
=============================================================================

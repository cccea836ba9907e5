------------------------------ MODULE MCDecode ------------------------------
(* Model checking of Decode: every body of up to MaxLen bytes, cut anywhere *)
(* and delivered in any chunks.                                             *)
EXTENDS Decode
=============================================================================

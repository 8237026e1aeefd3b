----------------------------- MODULE MCEndpoint -----------------------------
(***************************************************************************)
(* Instances of Endpoint for TLC: bytes of one bit, so that a segment has  *)
(* four values.                                                            *)
(***************************************************************************)
EXTENDS Endpoint
=============================================================================

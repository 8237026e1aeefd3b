----------------------------- MODULE MCEchoTest -----------------------------
(***************************************************************************)
(* Instances of EchoTest for TLC.                                          *)
(***************************************************************************)
EXTENDS EchoTest, TLC

CONSTANTS x, y, z, v     \* ids

\* Two sections, then one.
LongThenShort == <<2, 1>>

\* One section each.
ShortLines == <<1, 1>>

IdSymmetry == Permutations(PacketIds)
=============================================================================

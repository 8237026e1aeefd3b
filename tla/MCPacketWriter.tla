--------------------------- MODULE MCPacketWriter ---------------------------
(***************************************************************************)
(* Instances of PacketWriter for TLC.                                      *)
(***************************************************************************)
EXTENDS PacketWriter, TLC

CONSTANTS p1, p2,     \* packets of the application
          x, y, z,    \* ids
          a, b        \* endpoints

\* Two sections and one.
OutSizes == [p \in Outgoing |-> IF p = p1 THEN 3 ELSE 2]

\* The ids of peers are those of one endpoint.
OneAsker == [id \in PeerIds |-> {a}]

\* The two own ids are alike in every safety property.
OwnIdSymmetry == Permutations(OwnIds)
=============================================================================

--------------------------- MODULE MCPacketReader ---------------------------
(***************************************************************************)
(* Instances of PacketReader for TLC.                                      *)
(***************************************************************************)
EXTENDS PacketReader, TLC

CONSTANTS p1, p2, p3, p4, \* packets
          x, y, z         \* packet ids

\* Two packets with ids of their own.
TwoIds == p1 :> x @@ p2 :> y

\* Two senders that draw the same id, and packets with ids of their own.
SharedId == p1 :> x @@ p2 :> x @@ p3 :> y @@ p4 :> z

DeliverySizes == x :> 3 @@ y :> 2 @@ z :> 1

\* Three packets in flight at once.
ThreeIds == p1 :> x @@ p2 :> y @@ p3 :> z

\* Beyond a word of two bits: three sections, which leave padding in the last
\* byte of two, and four, which do not.
ThreeSizes == x :> 5 @@ y :> 2 @@ z :> 7

\* One section per unit: two sections in a word of three bits, and four, which
\* fill two bytes of two bits.
RevisedSizes == x :> 2 @@ y :> 4
=============================================================================

---------------------------- MODULE PacketBuffer ----------------------------
(***************************************************************************)
(* The byte buffer under each packet table of a PacketHandler.  The first  *)
(* ScratchSize cells are the area datagrams are received into and composed *)
(* in; packets are laid out behind it, one after another.  Freeing a       *)
(* packet moves everything behind it down over it (memmove) and subtracts  *)
(* its size from every start that lies behind, as 32-bit arithmetic does.  *)
(*                                                                         *)
(* Definitions marked Variant, here and in the other modules, model bugs   *)
(* the code does not have; no specification uses them.  They show which    *)
(* property would notice (see README.md).                                  *)
(***************************************************************************)
EXTENDS Integers

CONSTANTS ScratchSize,   \* 4096
          Capacity,      \* the size asked for in the constructor
          WordModulus    \* 2^32

ASSUME BufferAssumption ==
    /\ ScratchSize \in Nat
    /\ Capacity \in Nat
    /\ WordModulus \in Nat
    /\ ScratchSize + 2 * Capacity + 1 < WordModulus

BufferSize == ScratchSize + Capacity

Address == 0 .. BufferSize - 1

\* The start of a slot that holds no packet, ~0U.
NoStart == WordModulus - 1

Word == 0 .. WordModulus - 1

Subtract(a, b) == IF a >= b THEN a - b ELSE a - b + WordModulus

\* Variant: only as many cells move as were freed.
CloseGapShort(mem, start, size) ==
    [a \in Address |-> IF start <= a /\ a < start + size /\ a + size < BufferSize
                       THEN mem[a + size]
                       ELSE mem[a]]

\* The cells of the packet at start are overwritten by what follows them; the
\* last cells of the buffer keep what they held.
CloseGap(mem, start, size) ==
    [a \in Address |-> IF start <= a /\ a + size < BufferSize
                       THEN mem[a + size]
                       ELSE mem[a]]

\* Variants: no start follows its data; every start moves.
ShiftedStartUnchanged(other, start, size) == other
ShiftedStartAlways(other, start, size) == Subtract(other, size)

\* Where a packet that started at other starts once the gap is closed.
ShiftedStart(other, start, size) ==
    IF other > start THEN Subtract(other, size) ELSE other
=============================================================================

-------------------------- MODULE WriteTableProofs --------------------------
(***************************************************************************)
(* What each operation on a write table preserves, for every value of the  *)
(* constants.  The theorems about PacketWriter rest on these lemmas.       *)
(***************************************************************************)
EXTENDS WriteTable, TLAPS

(***************************************************************************)
(* The invariant of the table.  The start of a slot without a packet is    *)
(* NoStart less the size of every packet freed since the slot was emptied. *)
(* Nothing ever gives buffer back, so that what the packets in the table   *)
(* occupy and what has been freed fit into the used part together: such a  *)
(* start stays beyond the buffer.  total[i] is the size of the packets in  *)
(* the first i slots.                                                      *)
(***************************************************************************)
Totals(t, total) ==
    /\ total \in [0 .. MaxWritePackets -> Nat]
    /\ \A i \in Slots : total[i + 1] = total[i] + t.info[i].size
    /\ \A m, n \in 0 .. MaxWritePackets : m <= n => total[m] <= total[n]

Fits(t, sum) ==
    /\ sum <= t.used - ScratchSize
    /\ \A i \in Slots \ Packets(t) :
          /\ t.info[i].size = 0
          /\ NoStart - t.info[i].start + sum <= t.used - ScratchSize

Accounted(t) == \E total : Totals(t, total) /\ Fits(t, total[MaxWritePackets])

DistinctIds(t) == \A i, j \in Packets(t) : i # j => t.info[i].id # t.info[j].id

ReadyIsLive(t) == \A i \in Slots : t.info[i].ready => i \in Live(t)

TableInv(t) == /\ t \in Tables
               /\ Layout(t)
               /\ Accounted(t)
               /\ DistinctIds(t)
               /\ ReadyIsLive(t)

\* Slot i of u is slot i of t, but may lie elsewhere.
SameSlot(t, u, i) ==
    /\ u.info[i].type = t.info[i].type
    /\ u.info[i].id = t.info[i].id
    /\ u.info[i].index = t.info[i].index
    /\ u.info[i].rev = t.info[i].rev
    /\ u.info[i].size = t.info[i].size
    /\ u.info[i].to = t.info[i].to
    /\ u.info[i].ready = t.info[i].ready
    /\ u.info[i].time = t.info[i].time

\* The region of slot i holds in u what it held in t.
SameData(t, u, i) ==
    \A c \in Nat : c < t.info[i].size =>
        u.mem[u.info[i].start + c] = t.mem[t.info[i].start + c]

-----------------------------------------------------------------------------
\* The types of the parts of a slot, as the provers need them.
LEMMA SlotParts ==
    ASSUME NEW t \in Tables, NEW i \in Slots
    PROVE  /\ t.info[i] \in SlotType
           /\ t.info[i].start \in Nat /\ t.info[i].start < WordModulus
           /\ t.info[i].size \in Nat
           /\ t.used \in Nat /\ t.used <= BufferSize /\ ScratchSize <= t.used
           /\ ScratchSize \in Nat /\ BufferSize \in Nat
           /\ WordModulus \in Nat /\ NoStart \in Nat
           /\ BufferSize < NoStart
           /\ i \in Nat /\ MaxWritePackets \in Nat
           /\ i \in 0 .. MaxWritePackets /\ i + 1 \in 0 .. MaxWritePackets
<1>1. t.info[i] \in SlotType /\ t.used \in ScratchSize .. BufferSize
  BY DEF Tables
<1>2. t.info[i].start \in Word /\ t.info[i].size \in Nat
  BY <1>1 DEF SlotType
<1>3. QED
  BY <1>1, <1>2, BufferAssumption, WriteTableAssumption
     DEF Word, Slots, BufferSize, NoStart

\* The start of a slot without a packet points beyond the buffer, and freeing a
\* packet of the table takes it no further than a word can hold.
LEMMA IdleStart ==
    ASSUME NEW t, TableInv(t), NEW i \in Slots \ Packets(t)
    PROVE  t.info[i].size = 0 /\ IsWildMove(t, i)
<1>1. PICK total : Totals(t, total) /\ Fits(t, total[MaxWritePackets])
  BY DEF TableInv, Accounted
<1>2. total[MaxWritePackets] \in Nat
  BY <1>1, WriteTableAssumption DEF Totals
<1>3. /\ t.info[i].size = 0
      /\ NoStart - t.info[i].start + total[MaxWritePackets] <= t.used - ScratchSize
  BY <1>1 DEF Fits
<1>4. t.used - ScratchSize <= Capacity /\ t.info[i].start \in Nat /\ t.used \in Nat
  BY SlotParts, BufferAssumption DEF TableInv, BufferSize
<1>5. QED
  BY <1>2, <1>3, <1>4, BufferAssumption DEF IsWildMove, NoStart, BufferSize

\* One packet more or less moves the totals behind its slot.
LEMMA TotalsChange ==
    ASSUME NEW t \in Tables, NEW u \in Tables, NEW total, Totals(t, total),
           NEW i \in Slots, NEW d \in Int,
           u.info[i].size = t.info[i].size + d,
           \A j \in Slots \ {i} : u.info[j].size = t.info[j].size
    PROVE  \E new : /\ Totals(u, new)
                    /\ new[MaxWritePackets] = total[MaxWritePackets] + d
<1> DEFINE new == [n \in 0 .. MaxWritePackets |->
                      IF n <= i THEN total[n] ELSE total[n] + d]
<1>1. /\ i \in Nat /\ i + 1 \in 0 .. MaxWritePackets /\ MaxWritePackets \in Nat
      /\ t.info[i].size \in Nat /\ u.info[i].size \in Nat /\ i < MaxWritePackets
  BY SlotParts, WriteTableAssumption DEF Slots
<1>2. /\ \A n \in 0 .. MaxWritePackets : total[n] \in Nat
      /\ total[i + 1] = total[i] + t.info[i].size
      /\ \A m, n \in 0 .. MaxWritePackets : m <= n => total[m] <= total[n]
  BY DEF Totals
<1>3. \A n \in 0 .. MaxWritePackets :
         new[n] = IF n <= i THEN total[n] ELSE total[n] + d
  OBVIOUS
<1>4. \A n \in 0 .. MaxWritePackets :
         n > i => total[i] + u.info[i].size <= total[n] + d
  <2> SUFFICES ASSUME NEW n \in 0 .. MaxWritePackets, n > i
               PROVE  total[i] + u.info[i].size <= total[n] + d
    OBVIOUS
  <2>1. i + 1 <= n
    BY <1>1
  <2>2. total[i + 1] <= total[n]
    BY <1>1, <1>2, <2>1
  <2>3. QED
    BY <1>1, <1>2, <2>2
<1>5. new \in [0 .. MaxWritePackets -> Nat]
  <2> SUFFICES ASSUME NEW n \in 0 .. MaxWritePackets PROVE new[n] \in Nat
    OBVIOUS
  <2>1. CASE n <= i
    BY <1>2, <2>1
  <2>2. CASE n > i
    BY <1>1, <1>2, <1>4, <2>2
  <2>3. QED
    BY <1>1, <2>1, <2>2
<1> HIDE DEF new
<1>6. \A j \in Slots : new[j + 1] = new[j] + u.info[j].size
  <2> SUFFICES ASSUME NEW j \in Slots PROVE new[j + 1] = new[j] + u.info[j].size
    OBVIOUS
  <2>1. /\ j \in 0 .. MaxWritePackets /\ j + 1 \in 0 .. MaxWritePackets
        /\ j \in Nat /\ t.info[j].size \in Nat
    BY SlotParts
  <2>2. total[j + 1] = total[j] + t.info[j].size
    BY DEF Totals
  <2>3. CASE j = i
    BY <1>1, <1>2, <1>3, <2>1, <2>2, <2>3
  <2>4. CASE j < i
    <3>1. new[j] = total[j] /\ new[j + 1] = total[j + 1]
      BY <1>1, <1>3, <2>1, <2>4
    <3>2. QED
      BY <2>1, <2>2, <2>4, <3>1
  <2>5. CASE j > i
    <3>1. new[j] = total[j] + d /\ new[j + 1] = total[j + 1] + d
      BY <1>1, <1>3, <2>1, <2>5
    <3>2. QED
      BY <1>2, <2>1, <2>2, <2>5, <3>1
  <2>6. QED
    BY <1>1, <2>1, <2>3, <2>4, <2>5
<1>7. \A m, n \in 0 .. MaxWritePackets : m <= n => new[m] <= new[n]
  <2> SUFFICES ASSUME NEW m \in 0 .. MaxWritePackets,
                      NEW n \in 0 .. MaxWritePackets, m <= n
               PROVE  new[m] <= new[n]
    OBVIOUS
  <2>1. total[m] <= total[n] /\ total[m] \in Nat /\ total[n] \in Nat
    BY <1>2
  <2>2. CASE n <= i
    BY <1>1, <1>3, <2>1, <2>2
  <2>3. CASE m > i
    BY <1>1, <1>3, <2>1, <2>3
  <2>4. CASE m <= i /\ n > i
    <3>1. i \in 0 .. MaxWritePackets
      BY <1>1
    <3>2. total[m] <= total[i] /\ total[i] \in Nat
      BY <1>2, <2>4, <3>1
    <3>3. total[i] + u.info[i].size <= total[n] + d
      BY <1>4, <2>4
    <3>4. new[m] = total[m] /\ new[n] = total[n] + d
      BY <1>1, <1>3, <2>4
    <3>5. QED
      BY <1>1, <2>1, <3>2, <3>3, <3>4
  <2>5. QED
    BY <1>1, <2>2, <2>3, <2>4
<1>8. new[MaxWritePackets] = total[MaxWritePackets] + d
  BY <1>1, <1>3
<1>9. QED
  BY <1>5, <1>6, <1>7, <1>8 DEF Totals

-----------------------------------------------------------------------------
(***************************************************************************)
(* freeWritePacket: what moves, and that a packet and its data move        *)
(* together.  Freeing an answer moves nothing.                             *)
(***************************************************************************)
LEMMA FreeSlotType == FreeSlot \in SlotType
  BY BufferAssumption, WriteTableAssumption
     DEF FreeSlot, SlotType, NoStart, Word, Untimed

LEMMA CloseGapType ==
    ASSUME NEW mem \in [Address -> Cell], NEW start \in Nat, NEW size \in Nat
    PROVE  CloseGap(mem, start, size) \in [Address -> Cell]
<1>1. BufferSize \in Nat
  BY BufferAssumption DEF BufferSize
<1>2. ASSUME NEW a \in Address, a + size < BufferSize
      PROVE  a + size \in Address
  BY <1>1, <1>2 DEF Address
<1>3. QED
  BY <1>2 DEF CloseGap

\* Where the other slots start once slot i is free: behind a packet, lower by
\* its size.
LEMMA ShiftedSlotStart ==
    ASSUME NEW t, TableInv(t), NEW i \in Live(t), NEW j \in Slots \ {i}
    PROVE  LET old == t.info[j]
               new == ShiftedSlot(t, j, i)
           IN  /\ new \in SlotType
               /\ new = [old EXCEPT !.start = new.start]
               /\ \/ /\ j \in Packets(t) /\ i \in Packets(t)
                     /\ t.info[i].start + t.info[i].size <= old.start
                     /\ new.start = old.start - t.info[i].size
                  \/ /\ j \in Packets(t) /\ i \in Packets(t)
                     /\ old.start + old.size <= t.info[i].start
                     /\ new.start = old.start
                  \/ /\ j \notin Packets(t) /\ i \in Packets(t)
                     /\ new.start = old.start - t.info[i].size
                  \/ /\ i \notin Packets(t)
                     /\ new.start = old.start
<1> DEFINE new == ShiftedStart(t.info[j].start, t.info[i].start, t.info[i].size)
<1>1. /\ i \in Slots /\ j \in Slots /\ t \in Tables /\ Layout(t)
      /\ t.info[i].start \in Nat /\ t.info[i].size \in Nat
      /\ t.info[j].start \in Nat /\ t.info[j].start < WordModulus
      /\ t.info[j].size \in Nat /\ t.info[j] \in SlotType
      /\ WordModulus \in Nat
  BY SlotParts DEF TableInv, Live
<1>2. CASE i \notin Packets(t)
  <2>1. t.info[i].size = 0
    BY <1>1, <1>2, IdleStart
  <2>2. new = t.info[j].start
    BY <1>1, <2>1 DEF ShiftedStart, Subtract
  <2>3. QED
    BY <1>1, <1>2, <2>2 DEF ShiftedSlot, SlotType
<1>3. CASE i \in Packets(t) /\ j \in Packets(t)
  <2>1. \/ t.info[i].start + t.info[i].size <= t.info[j].start
        \/ t.info[j].start + t.info[j].size <= t.info[i].start
    BY <1>1, <1>3 DEF Layout, RegionsDisjoint
  <2>2. CASE t.info[j].start + t.info[j].size <= t.info[i].start
    <3>1. new = t.info[j].start
      BY <1>1, <2>2 DEF ShiftedStart
    <3>2. QED
      BY <1>1, <1>3, <2>2, <3>1 DEF ShiftedSlot, SlotType
  <2>3. CASE t.info[i].start + t.info[i].size <= t.info[j].start
    <3>1. new = t.info[j].start - t.info[i].size
      BY <1>1, <2>3 DEF ShiftedStart, Subtract
    <3>2. new \in Word
      BY <1>1, <2>3, <3>1 DEF Word
    <3> HIDE DEF new
    <3>3. ShiftedSlot(t, j, i) = [t.info[j] EXCEPT !.start = new]
      BY DEF ShiftedSlot, new
    <3>4. QED
      BY <1>1, <1>3, <2>3, <3>1, <3>2, <3>3 DEF SlotType
  <2>4. QED
    BY <2>1, <2>2, <2>3
<1>4. CASE i \in Packets(t) /\ j \notin Packets(t)
  <2>1. t.info[j].start > BufferSize
    BY <1>1, <1>4, IdleStart DEF IsWildMove
  <2>2. t.info[i].start + t.info[i].size <= t.used /\ t.used <= BufferSize
        /\ t.used \in Nat /\ BufferSize \in Nat
    BY <1>1, <1>4, SlotParts DEF Layout, InBounds
  <2>3. new = t.info[j].start - t.info[i].size /\ t.info[j].start >= t.info[i].size
    BY <1>1, <2>1, <2>2 DEF ShiftedStart, Subtract
  <2>4. new \in Word
    BY <1>1, <2>3 DEF Word
  <2> HIDE DEF new
  <2>5. ShiftedSlot(t, j, i) = [t.info[j] EXCEPT !.start = new]
    BY DEF ShiftedSlot, new
  <2>6. QED
    BY <1>1, <1>4, <2>3, <2>4, <2>5 DEF SlotType
<1>5. QED
  BY <1>2, <1>3, <1>4

\* The cells of the other packets move with their slots.
LEMMA ClosingKeepsData ==
    ASSUME NEW t, TableInv(t), NEW i \in Live(t), NEW j \in Packets(t) \ {i}
    PROVE  SameData(t, FreeWritePacket(t, i), j)
<1> SUFFICES ASSUME NEW c \in Nat, c < t.info[j].size
             PROVE  CloseGap(t.mem, t.info[i].start, t.info[i].size)
                            [ShiftedSlot(t, j, i).start + c]
                      = t.mem[t.info[j].start + c]
  BY DEF SameData, FreeWritePacket, Packets, Live
<1>1. /\ i \in Slots /\ j \in Slots /\ t \in Tables /\ Layout(t)
      /\ t.info[i].start \in Nat /\ t.info[i].size \in Nat
      /\ t.info[j].start \in Nat /\ t.info[j].size \in Nat
      /\ t.used \in Nat /\ t.used <= BufferSize /\ BufferSize \in Nat
      /\ t.info[j].start + t.info[j].size <= t.used
  BY SlotParts DEF TableInv, Live, Packets, Layout, InBounds
<1>2. t.info[j].start + c \in Address /\ t.info[j].start + c < BufferSize
  BY <1>1 DEF Address
<1>3. CASE /\ t.info[i].start + t.info[i].size <= t.info[j].start
           /\ ShiftedSlot(t, j, i).start = t.info[j].start - t.info[i].size
  <2>1. /\ t.info[j].start - t.info[i].size + c \in Address
        /\ t.info[i].start <= t.info[j].start - t.info[i].size + c
        /\ t.info[j].start - t.info[i].size + c + t.info[i].size
             = t.info[j].start + c
    BY <1>1, <1>2, <1>3 DEF Address
  <2>2. QED
    BY <1>2, <1>3, <2>1 DEF CloseGap
<1>4. CASE /\ t.info[j].start + t.info[j].size <= t.info[i].start
           /\ ShiftedSlot(t, j, i).start = t.info[j].start
  BY <1>1, <1>2, <1>4 DEF CloseGap
<1>5. CASE i \notin Packets(t) /\ ShiftedSlot(t, j, i).start = t.info[j].start
  <2>1. t.info[i].start > BufferSize
    BY <1>1, <1>5, IdleStart DEF IsWildMove
  <2>2. QED
    BY <1>1, <1>2, <1>5, <2>1 DEF CloseGap
<1>6. j \in Slots \ {i} /\ j \in Packets(t)
  BY <1>1
<1>7. \/ /\ t.info[i].start + t.info[i].size <= t.info[j].start
         /\ ShiftedSlot(t, j, i).start = t.info[j].start - t.info[i].size
      \/ /\ t.info[j].start + t.info[j].size <= t.info[i].start
         /\ ShiftedSlot(t, j, i).start = t.info[j].start
      \/ i \notin Packets(t) /\ ShiftedSlot(t, j, i).start = t.info[j].start
  BY <1>6, ShiftedSlotStart
<1>8. QED
  BY <1>3, <1>4, <1>5, <1>7

\* freeWritePacket empties slot i and moves the others without changing them.
LEMMA FreePreserves ==
    ASSUME NEW t, TableInv(t), NEW i \in Live(t)
    PROVE  LET u == FreeWritePacket(t, i)
           IN  /\ TableInv(u)
               /\ u.info[i] = FreeSlot
               /\ \A j \in Slots \ {i} : SameSlot(t, u, j)
               /\ Live(u) = Live(t) \ {i}
               /\ Packets(u) = Packets(t) \ {i}
               /\ \A j \in Packets(u) : SameData(t, u, j)
<1> DEFINE u == FreeWritePacket(t, i)
<1>1. /\ t \in Tables /\ Layout(t) /\ DistinctIds(t) /\ ReadyIsLive(t)
      /\ i \in Slots
      /\ t.info[i].start \in Nat /\ t.info[i].size \in Nat
      /\ t.used \in Nat /\ ScratchSize \in Nat
  BY SlotParts DEF TableInv, Live
<1>2. /\ u.info = [j \in Slots |-> IF j = i THEN FreeSlot ELSE ShiftedSlot(t, j, i)]
      /\ u.used = t.used
      /\ u.mem = CloseGap(t.mem, t.info[i].start, t.info[i].size)
  BY DEF FreeWritePacket
<1>3. \A j \in Packets(t) \ {i} : SameData(t, u, j)
  BY ClosingKeepsData
<1>4. u \in Tables
  <2>1. u.info \in [Slots -> SlotType]
    BY <1>2, ShiftedSlotStart, FreeSlotType
  <2>2. u.mem \in [Address -> Cell]
    BY <1>1, <1>2, CloseGapType DEF Tables
  <2>3. QED
    BY <1>1, <2>1, <2>2 DEF Tables, FreeWritePacket
<1> HIDE DEF u
<1>5. u.info[i] = FreeSlot /\ \A j \in Slots \ {i} : u.info[j] = ShiftedSlot(t, j, i)
  BY <1>1, <1>2
<1>6. \A j \in Slots \ {i} : SameSlot(t, u, j)
  <2> SUFFICES ASSUME NEW j \in Slots \ {i} PROVE SameSlot(t, u, j)
    OBVIOUS
  <2>1. t.info[j] \in SlotType
    BY <1>1, SlotParts
  <2>2. u.info[j] = [t.info[j] EXCEPT !.start = u.info[j].start]
    BY <1>5, ShiftedSlotStart
  <2>3. QED
    BY <2>1, <2>2 DEF SameSlot, SlotType
<1>7. Live(u) = Live(t) \ {i}
  BY <1>1, <1>5, <1>6 DEF Live, FreeSlot, SameSlot
<1>8. Packets(u) = Packets(t) \ {i}
  <2>1. \A j \in Live(u) : u.info[j].type = t.info[j].type
    BY <1>6, <1>7 DEF Live, SameSlot
  <2>2. QED
    BY <1>7, <2>1 DEF Packets
<1>9. ASSUME NEW j \in Slots \ {i}
      PROVE  /\ u.info[j].size = t.info[j].size /\ u.info[j].id = t.info[j].id
             /\ t.info[j].start \in Nat /\ t.info[j].size \in Nat
             /\ \/ /\ j \in Packets(t) /\ i \in Packets(t)
                   /\ t.info[i].start + t.info[i].size <= t.info[j].start
                   /\ u.info[j].start = t.info[j].start - t.info[i].size
                \/ /\ j \in Packets(t) /\ i \in Packets(t)
                   /\ t.info[j].start + t.info[j].size <= t.info[i].start
                   /\ u.info[j].start = t.info[j].start
                \/ /\ j \notin Packets(t) /\ i \in Packets(t)
                   /\ u.info[j].start = t.info[j].start - t.info[i].size
                \/ /\ i \notin Packets(t)
                   /\ u.info[j].start = t.info[j].start
  <2>1. u.info[j].size = t.info[j].size /\ u.info[j].id = t.info[j].id
    BY <1>6 DEF SameSlot
  <2>2. t.info[j].start \in Nat /\ t.info[j].size \in Nat
    BY <1>1, SlotParts
  <2>3. QED
    BY <1>5, <2>1, <2>2, ShiftedSlotStart
<1>10. \A j \in Packets(u) : j \in Slots \ {i} /\ j \in Packets(t)
  BY <1>8 DEF Packets, Live
<1>11. InBounds(u)
  <2> SUFFICES ASSUME NEW j \in Packets(u)
               PROVE  /\ ScratchSize <= u.info[j].start
                      /\ u.info[j].start + u.info[j].size <= u.used
    BY DEF InBounds
  <2>1. /\ ScratchSize <= t.info[j].start
        /\ t.info[j].start + t.info[j].size <= t.used
    BY <1>1, <1>10 DEF Layout, InBounds
  <2>2. i \in Packets(t) => ScratchSize <= t.info[i].start
    BY <1>1 DEF Layout, InBounds
  <2>3. QED
    BY <1>1, <1>2, <1>9, <1>10, <2>1, <2>2
<1>12. RegionsDisjoint(u)
  <2> SUFFICES ASSUME NEW j \in Packets(u), NEW k \in Packets(u), j # k
               PROVE  \/ u.info[j].start + u.info[j].size <= u.info[k].start
                      \/ u.info[k].start + u.info[k].size <= u.info[j].start
    BY DEF RegionsDisjoint
  <2>1. \/ t.info[j].start + t.info[j].size <= t.info[k].start
        \/ t.info[k].start + t.info[k].size <= t.info[j].start
    BY <1>1, <1>10 DEF Layout, RegionsDisjoint
  <2>2. QED
    BY <1>1, <1>9, <1>10, <2>1
<1>13. Accounted(u)
  <2>1. PICK total : Totals(t, total) /\ Fits(t, total[MaxWritePackets])
    BY DEF TableInv, Accounted
  <2>2. u.info[i].size = t.info[i].size + (-t.info[i].size)
    BY <1>1, <1>5 DEF FreeSlot
  <2>3. PICK new : /\ Totals(u, new)
                   /\ new[MaxWritePackets]
                        = total[MaxWritePackets] + (-t.info[i].size)
    BY <1>1, <1>4, <1>9, <2>1, <2>2, TotalsChange
  <2>4. /\ total[MaxWritePackets] \in Nat /\ new[MaxWritePackets] \in Nat
        /\ NoStart \in Nat
    BY <2>1, <2>3, WriteTableAssumption, BufferAssumption DEF Totals, NoStart
  <2>5. /\ total[MaxWritePackets] <= t.used - ScratchSize
        /\ \A j \in Slots \ Packets(t) :
              /\ t.info[j].size = 0
              /\ NoStart - t.info[j].start + total[MaxWritePackets]
                   <= t.used - ScratchSize
    BY <2>1 DEF Fits
  <2>6. i \notin Packets(t) => t.info[i].size = 0
    BY <1>1, <2>5
  <2>7. \A j \in Slots \ Packets(u) :
           /\ u.info[j].size = 0
           /\ NoStart - u.info[j].start + new[MaxWritePackets]
                <= u.used - ScratchSize
    <3> SUFFICES ASSUME NEW j \in Slots \ Packets(u)
                 PROVE  /\ u.info[j].size = 0
                        /\ NoStart - u.info[j].start + new[MaxWritePackets]
                             <= u.used - ScratchSize
      OBVIOUS
    <3>1. CASE j = i
      BY <1>1, <1>2, <1>5, <2>3, <2>4, <2>5, <3>1 DEF FreeSlot
    <3>2. CASE j # i
      <4>1. j \in Slots \ {i} /\ j \notin Packets(t)
        BY <1>8, <3>2
      <4>2. /\ t.info[j].size = 0
            /\ NoStart - t.info[j].start + total[MaxWritePackets]
                 <= t.used - ScratchSize
        BY <2>5, <4>1
      <4>3. QED
        BY <1>1, <1>2, <1>9, <2>3, <2>4, <2>6, <4>1, <4>2
    <3>3. QED
      BY <3>1, <3>2
  <2>8. new[MaxWritePackets] <= u.used - ScratchSize
    BY <1>1, <1>2, <2>3, <2>4, <2>5
  <2>9. QED
    BY <2>3, <2>7, <2>8 DEF Accounted, Fits
<1>14. DistinctIds(u) /\ ReadyIsLive(u)
  <2>1. DistinctIds(u)
    BY <1>1, <1>9, <1>10 DEF DistinctIds
  <2>2. \A j \in Slots : u.info[j].ready => j # i /\ t.info[j].ready
    BY <1>5, <1>6 DEF FreeSlot, SameSlot
  <2>3. QED
    BY <1>1, <1>7, <2>1, <2>2 DEF ReadyIsLive
<1>15. QED
  BY <1>3, <1>4, <1>5, <1>6, <1>7, <1>8, <1>11, <1>12, <1>13, <1>14
     DEF u, TableInv, Layout

-----------------------------------------------------------------------------
(***************************************************************************)
(* The other operations.                                                   *)
(***************************************************************************)

\* What leaves the packets where they are preserves the invariant.
LEMMA Undisturbed ==
    ASSUME NEW t, TableInv(t), NEW u \in Tables,
           u.used = t.used, Packets(u) = Packets(t),
           \A j \in Slots : /\ u.info[j].start = t.info[j].start
                            /\ u.info[j].size = t.info[j].size,
           \A j \in Packets(t) : u.info[j].id = t.info[j].id,
           ReadyIsLive(u)
    PROVE  TableInv(u)
<1>1. /\ t \in Tables /\ Layout(t) /\ Accounted(t) /\ DistinctIds(t)
      /\ \A j \in Packets(t) : j \in Slots
  BY DEF TableInv, Packets, Live
<1>2. Layout(u)
  BY <1>1 DEF Layout, InBounds, RegionsDisjoint
<1>3. DistinctIds(u)
  BY <1>1 DEF DistinctIds
<1>4. Accounted(u)
  BY <1>1 DEF Accounted, Totals, Fits
<1>5. QED
  BY <1>2, <1>3, <1>4 DEF TableInv

\* allocateWritePacket: the packet is laid out behind all others.
LEMMA AllocatePreserves ==
    ASSUME NEW t, TableInv(t), NEW i \in Slots \ Live(t), NEW id \in OwnIds,
           ~HasUsedPacketID(t, id), NEW size \in Nat, CanAllocate(t, size),
           NEW u, u = AllocateWritePacket(t, i, id, size)
    PROVE  /\ TableInv(u)
           /\ u.info[i].id = id /\ u.info[i].size = size
           /\ ~u.info[i].ready
           /\ \A j \in Slots \ {i} : u.info[j] = t.info[j]
           /\ Packets(u) = Packets(t) \union {i}
           /\ u.mem = t.mem
<1> DEFINE slot == [FreeSlot EXCEPT !.id = id, !.start = t.used, !.size = size]
<1>1. /\ t \in Tables /\ Layout(t) /\ Accounted(t) /\ DistinctIds(t)
      /\ ReadyIsLive(t) /\ i \in Slots /\ i \notin Packets(t)
      /\ t.used \in Nat /\ ScratchSize \in Nat /\ BufferSize \in Nat
      /\ ScratchSize <= t.used /\ BufferSize < NoStart /\ WordModulus \in Nat
      /\ t.info \in [Slots -> SlotType]
  BY SlotParts DEF TableInv, Packets, Tables
<1>2. t.used + size <= BufferSize
  BY <1>1 DEF CanAllocate, AvailableWritePacketSize
<1>3. /\ slot.id = id /\ slot.start = t.used /\ slot.size = size
      /\ slot.type = "Normal" /\ slot.ready = FALSE
  BY DEF FreeSlot
<1>4. slot \in SlotType
  <2>1. t.used \in Word /\ id \in Ids
    BY <1>1, <1>2, BufferAssumption DEF Word, NoStart, Ids
  <2>2. QED
    BY <2>1, FreeSlotType DEF SlotType, FreeSlot
<1> HIDE DEF slot
<1>5. u.info = [t.info EXCEPT ![i] = slot] /\ u.used = t.used + size /\ u.mem = t.mem
  BY DEF AllocateWritePacket, slot
<1>6. u \in Tables
  <2>1. u.info \in [Slots -> SlotType] /\ u.used \in ScratchSize .. BufferSize
    BY <1>1, <1>2, <1>4, <1>5
  <2>2. QED
    BY <1>1, <1>5, <2>1 DEF Tables, AllocateWritePacket
<1>7. u.info[i] = slot /\ \A j \in Slots \ {i} : u.info[j] = t.info[j]
  BY <1>1, <1>5
<1>8. Packets(u) = Packets(t) \union {i}
  <2>1. id # NoId
    BY WriteTableAssumption DEF Ids
  <2>2. QED
    BY <1>1, <1>3, <1>7, <2>1 DEF Packets, Live
<1>9. \A j \in Packets(t) : /\ j \in Slots \ {i} /\ u.info[j] = t.info[j]
                            /\ t.info[j].start \in Nat /\ t.info[j].size \in Nat
                            /\ ScratchSize <= t.info[j].start
                            /\ t.info[j].start + t.info[j].size <= t.used
  <2> SUFFICES ASSUME NEW j \in Packets(t)
               PROVE  /\ j \in Slots \ {i} /\ u.info[j] = t.info[j]
                      /\ t.info[j].start \in Nat /\ t.info[j].size \in Nat
                      /\ ScratchSize <= t.info[j].start
                      /\ t.info[j].start + t.info[j].size <= t.used
    OBVIOUS
  <2>1. j \in Slots \ {i}
    BY <1>1 DEF Packets, Live
  <2>2. QED
    BY <1>1, <1>7, <2>1, SlotParts DEF Layout, InBounds
<1>10. InBounds(u)
  BY <1>1, <1>3, <1>5, <1>7, <1>8, <1>9 DEF InBounds
<1>11. RegionsDisjoint(u)
  <2> SUFFICES ASSUME NEW j \in Packets(u), NEW k \in Packets(u), j # k
               PROVE  \/ u.info[j].start + u.info[j].size <= u.info[k].start
                      \/ u.info[k].start + u.info[k].size <= u.info[j].start
    BY DEF RegionsDisjoint
  <2>1. CASE j = i
    BY <1>3, <1>7, <1>8, <1>9, <2>1
  <2>2. CASE k = i
    BY <1>3, <1>7, <1>8, <1>9, <2>2
  <2>3. CASE j \in Packets(t) /\ k \in Packets(t)
    BY <1>1, <1>9, <2>3 DEF Layout, RegionsDisjoint
  <2>4. QED
    BY <1>8, <2>1, <2>2, <2>3
<1>12. Accounted(u)
  <2>1. PICK total : Totals(t, total) /\ Fits(t, total[MaxWritePackets])
    BY <1>1 DEF Accounted
  <2>2. t.info[i].size = 0
    BY <1>1, <2>1 DEF Fits
  <2>3. PICK new : /\ Totals(u, new)
                   /\ new[MaxWritePackets] = total[MaxWritePackets] + size
    BY <1>1, <1>3, <1>6, <1>7, <2>1, <2>2, TotalsChange
  <2>4. total[MaxWritePackets] \in Nat /\ NoStart \in Nat
    BY <1>1, <2>1, WriteTableAssumption, BufferAssumption DEF Totals, NoStart
  <2>5. \A j \in Slots \ Packets(u) :
           /\ j \in Slots \ Packets(t) /\ u.info[j] = t.info[j]
           /\ t.info[j].start \in Nat
    BY <1>1, <1>7, <1>8, SlotParts
  <2>6. Fits(u, new[MaxWritePackets])
    BY <1>1, <1>5, <2>1, <2>3, <2>4, <2>5 DEF Fits
  <2>7. QED
    BY <2>3, <2>6 DEF Accounted
<1>13. DistinctIds(u)
  BY <1>1, <1>3, <1>7, <1>8, <1>9 DEF DistinctIds, HasUsedPacketID
<1>14. ReadyIsLive(u)
  BY <1>1, <1>3, <1>7 DEF ReadyIsLive, Live
<1>15. QED
  BY <1>3, <1>5, <1>6, <1>7, <1>8, <1>10, <1>11, <1>12, <1>13, <1>14
     DEF slot, TableInv, Layout

\* setPacketEndpoint and markWritePacketReady change a slot that is in use.
LEMMA EndpointPreserves ==
    ASSUME NEW t, TableInv(t), NEW id \in OwnIds, NEW to \in Peers
    PROVE  LET u == WithEndpoint(t, id, to)
           IN  /\ TableInv(u)
               /\ Packets(u) = Packets(t)
               /\ u.mem = t.mem
               /\ \A j \in Slots :
                     u.info[j] = IF IsFirst(t, j, id)
                                 THEN [t.info[j] EXCEPT !.to = to]
                                 ELSE t.info[j]
<1> DEFINE u == WithEndpoint(t, id, to)
<1>1. /\ t \in Tables /\ ReadyIsLive(t)
      /\ t.info \in [Slots -> SlotType]
  BY DEF TableInv, Tables
<1>2. /\ u.info = [j \in Slots |-> IF IsFirst(t, j, id)
                                   THEN [t.info[j] EXCEPT !.to = to]
                                   ELSE t.info[j]]
      /\ u.used = t.used /\ u.mem = t.mem
      /\ u = [info |-> u.info, used |-> t.used, mem |-> t.mem]
  BY <1>1 DEF WithEndpoint, Tables
<1> HIDE DEF u
<1>3. ASSUME NEW j \in Slots
      PROVE  /\ u.info[j] \in SlotType
             /\ u.info[j].type = t.info[j].type /\ u.info[j].id = t.info[j].id
             /\ u.info[j].start = t.info[j].start
             /\ u.info[j].size = t.info[j].size
             /\ u.info[j].ready = t.info[j].ready
  BY <1>1, <1>2 DEF SlotType
<1>4. u \in Tables
  <2>1. u.info \in [Slots -> SlotType]
    BY <1>2, <1>3
  <2>2. QED
    BY <1>1, <1>2, <2>1 DEF Tables
<1>5. Live(u) = Live(t) /\ Packets(u) = Packets(t)
  BY <1>3 DEF Live, Packets
<1>6. ReadyIsLive(u)
  BY <1>1, <1>3, <1>5 DEF ReadyIsLive
<1>7. TableInv(u)
  BY <1>2, <1>3, <1>4, <1>5, <1>6, Undisturbed DEF Packets, Live
<1>8. QED
  BY <1>2, <1>5, <1>7 DEF u

LEMMA ReadyPreserves ==
    ASSUME NEW t, TableInv(t), NEW id \in OwnIds
    PROVE  LET u == WithReady(t, id)
           IN  /\ TableInv(u)
               /\ Packets(u) = Packets(t)
               /\ u.mem = t.mem
               /\ \A j \in Slots :
                     u.info[j] = IF IsFirst(t, j, id)
                                 THEN [t.info[j] EXCEPT !.ready = TRUE]
                                 ELSE t.info[j]
<1> DEFINE u == WithReady(t, id)
<1>1. /\ t \in Tables /\ ReadyIsLive(t)
      /\ t.info \in [Slots -> SlotType]
  BY DEF TableInv, Tables
<1>2. /\ u.info = [j \in Slots |-> IF IsFirst(t, j, id)
                                   THEN [t.info[j] EXCEPT !.ready = TRUE]
                                   ELSE t.info[j]]
      /\ u.used = t.used /\ u.mem = t.mem
      /\ u = [info |-> u.info, used |-> t.used, mem |-> t.mem]
  <2> DEFINE info == [j \in Slots |-> IF IsFirst(t, j, id)
                                      THEN [t.info[j] EXCEPT !.ready = TRUE]
                                      ELSE t.info[j]]
  <2>1. u = [t EXCEPT !.info = info]
    BY DEF WithReady
  <2> HIDE DEF info
  <2>2. u = [info |-> info, used |-> t.used, mem |-> t.mem]
    BY <1>1, <2>1 DEF Tables
  <2>3. QED
    BY <2>2 DEF info
<1> HIDE DEF u
<1>3. ASSUME NEW j \in Slots
      PROVE  /\ u.info[j] \in SlotType
             /\ u.info[j].type = t.info[j].type /\ u.info[j].id = t.info[j].id
             /\ u.info[j].start = t.info[j].start
             /\ u.info[j].size = t.info[j].size
             /\ u.info[j].ready => t.info[j].ready \/ t.info[j].id = id
  <2>1. t.info[j] \in SlotType
    BY <1>1
  <2>2. CASE IsFirst(t, j, id)
    <3>1. u.info[j] = [t.info[j] EXCEPT !.ready = TRUE] /\ t.info[j].id = id
      BY <1>2, <2>2 DEF IsFirst
    <3>2. QED
      BY <2>1, <3>1 DEF SlotType
  <2>3. CASE ~IsFirst(t, j, id)
    BY <1>2, <2>1, <2>3
  <2>4. QED
    BY <2>2, <2>3
<1>4. u \in Tables
  <2>1. u.info \in [Slots -> SlotType]
    BY <1>2, <1>3
  <2>2. QED
    BY <1>1, <1>2, <2>1 DEF Tables
<1>5. Live(u) = Live(t) /\ Packets(u) = Packets(t)
  BY <1>3 DEF Live, Packets
<1>6. ReadyIsLive(u)
  BY <1>1, <1>3, <1>5, WriteTableAssumption DEF ReadyIsLive, Live, Ids
<1>7. TableInv(u)
  BY <1>2, <1>3, <1>4, <1>5, <1>6, Undisturbed DEF Packets, Live
<1>8. QED
  BY <1>2, <1>5, <1>7 DEF u

\* The region of slot i holds what the application wrote for p.
Written(t, i, p) ==
    \A c \in Nat : c < t.info[i].size => t.mem[t.info[i].start + c] = <<p, c>>

\* The application's memcpy fills the region of its packet and no other.
LEMMA FillPreserves ==
    ASSUME NEW t, TableInv(t), NEW i \in Packets(t), NEW p \in Outgoing
    PROVE  LET u == FillPacket(t, i, p)
           IN  /\ TableInv(u)
               /\ u.info = t.info
               /\ Written(u, i, p)
               /\ \A j \in Packets(t) \ {i} : SameData(t, u, j)
<1> DEFINE u == FillPacket(t, i, p)
<1>1. /\ t \in Tables /\ Layout(t) /\ ReadyIsLive(t)
      /\ i \in Slots
      /\ t.info[i].start \in Nat /\ t.info[i].size \in Nat
      /\ BufferSize \in Nat
  BY SlotParts DEF TableInv, Packets, Live
<1>2. /\ u.info = t.info /\ u.used = t.used
      /\ u.mem = [a \in Address |->
                     IF t.info[i].start <= a /\ a < t.info[i].start + t.info[i].size
                     THEN <<p, a - t.info[i].start>>
                     ELSE t.mem[a]]
      /\ u = [info |-> t.info, used |-> t.used, mem |-> u.mem]
  BY DEF FillPacket
<1> HIDE DEF u
<1>3. u \in Tables
  <2>1. ASSUME NEW a \in Address, t.info[i].start <= a
        PROVE  <<p, a - t.info[i].start>> \in Cell
    BY <1>1, <2>1 DEF Address, Cell
  <2>2. u.mem \in [Address -> Cell]
    BY <1>1, <1>2, <2>1 DEF Tables
  <2>3. QED
    BY <1>1, <1>2, <2>2 DEF Tables
<1>4. Live(u) = Live(t) /\ Packets(u) = Packets(t) /\ ReadyIsLive(u)
  BY <1>1, <1>2 DEF Live, Packets, ReadyIsLive
<1>5. TableInv(u)
  BY <1>2, <1>3, <1>4, Undisturbed
<1>6. ASSUME NEW j \in Packets(t), NEW c \in Nat, c < t.info[j].size
      PROVE  /\ t.info[j].start + c \in Address
             /\ j \in Slots /\ t.info[j].start \in Nat /\ t.info[j].size \in Nat
  <2>1. /\ j \in Slots /\ t.info[j].start \in Nat /\ t.info[j].size \in Nat
        /\ t.info[j].start + t.info[j].size <= t.used
        /\ t.used \in Nat /\ t.used <= BufferSize
    BY <1>1, SlotParts DEF Packets, Live, Layout, InBounds
  <2>2. QED
    BY <1>1, <1>6, <2>1 DEF Address
<1>7. Written(u, i, p)
  <2> SUFFICES ASSUME NEW c \in Nat, c < t.info[i].size
               PROVE  u.mem[t.info[i].start + c] = <<p, c>>
    BY <1>2 DEF Written
  <2>1. t.info[i].start + c \in Address
    BY <1>6
  <2>2. (t.info[i].start + c) - t.info[i].start = c
    BY <1>1
  <2>3. QED
    BY <1>1, <1>2, <2>1, <2>2
<1>8. ASSUME NEW j \in Packets(t) \ {i} PROVE SameData(t, u, j)
  <2> SUFFICES ASSUME NEW c \in Nat, c < t.info[j].size
               PROVE  u.mem[t.info[j].start + c] = t.mem[t.info[j].start + c]
    BY <1>2 DEF SameData
  <2>1. /\ t.info[j].start + c \in Address
        /\ t.info[j].start \in Nat /\ t.info[j].size \in Nat
    BY <1>6
  <2>2. \/ t.info[i].start + t.info[i].size <= t.info[j].start
        \/ t.info[j].start + t.info[j].size <= t.info[i].start
    BY <1>1 DEF Layout, RegionsDisjoint
  <2>3. ~(/\ t.info[i].start <= t.info[j].start + c
          /\ t.info[j].start + c < t.info[i].start + t.info[i].size)
    BY <1>1, <2>1, <2>2
  <2>4. QED
    BY <1>2, <2>1, <2>3
<1>9. QED
  BY <1>2, <1>5, <1>7, <1>8 DEF u

\* An answer takes a free slot and none of the buffer.
LEMMA AnswerPreserves ==
    ASSUME NEW t, TableInv(t), NEW i \in Slots \ Live(t),
           NEW answer \in [type : Answers, id : PeerIds, index : 0 .. MaxIndex,
                           rev : 0 .. MaxRev, to : Peers]
    PROVE  LET u == SetSlot(t, i, AnswerSlot(t.info[i], answer))
           IN  /\ TableInv(u)
               /\ Packets(u) = Packets(t)
               /\ u.mem = t.mem
               /\ \A j \in Slots \ {i} : u.info[j] = t.info[j]
               /\ u.info[i].type = answer.type /\ u.info[i].id = answer.id
               /\ u.info[i].to = answer.to /\ u.info[i].time = Untimed
<1> DEFINE slot == AnswerSlot(t.info[i], answer)
           u == SetSlot(t, i, slot)
<1>1. /\ t \in Tables /\ ReadyIsLive(t)
      /\ t.info \in [Slots -> SlotType] /\ t.info[i] \in SlotType
      /\ i \notin Packets(t)
  BY DEF TableInv, Tables, Packets
<1>2. /\ slot \in SlotType
      /\ slot.type = answer.type /\ slot.id = answer.id /\ slot.to = answer.to
      /\ slot.time = Untimed
      /\ slot.start = t.info[i].start /\ slot.size = t.info[i].size
  BY <1>1 DEF AnswerSlot, SlotType, Ids
<1> HIDE DEF slot
<1>3. /\ u.info = [t.info EXCEPT ![i] = slot]
      /\ u.used = t.used /\ u.mem = t.mem
      /\ u = [info |-> u.info, used |-> t.used, mem |-> t.mem]
  BY DEF SetSlot
<1> HIDE DEF u
<1>4. u.info[i] = slot /\ \A j \in Slots \ {i} : u.info[j] = t.info[j]
  BY <1>1, <1>3
<1>5. u \in Tables
  <2>1. u.info \in [Slots -> SlotType]
    BY <1>1, <1>2, <1>3
  <2>2. QED
    BY <1>1, <1>3, <2>1 DEF Tables
<1>6. Packets(u) = Packets(t)
  <2>1. u.info[i].type # "Normal"
    BY <1>2, <1>4 DEF Answers
  <2>2. QED
    BY <1>1, <1>4, <2>1 DEF Packets, Live
<1>7. ReadyIsLive(u)
  <2>1. u.info[i].id # NoId
    BY <1>2, <1>4, WriteTableAssumption DEF Ids
  <2>2. QED
    BY <1>1, <1>4, <2>1 DEF ReadyIsLive, Live
<1>8. TableInv(u)
  <2>1. \A j \in Packets(t) : j \in Slots \ {i}
    BY <1>1 DEF Packets, Live
  <2>2. \A j \in Slots : /\ u.info[j].start = t.info[j].start
                         /\ u.info[j].size = t.info[j].size
    BY <1>2, <1>4
  <2>3. \A j \in Packets(t) : u.info[j].id = t.info[j].id
    BY <1>4, <2>1
  <2>4. u.used = t.used
    BY <1>3
  <2>5. QED
    BY <1>5, <1>6, <1>7, <2>2, <2>3, <2>4, Undisturbed
<1>9. QED
  BY <1>2, <1>3, <1>4, <1>6, <1>8 DEF u, slot

\* The tables differ in the ages of packets.
OnlyTimesDiffer(t, u) ==
    /\ u \in Tables /\ u.used = t.used /\ u.mem = t.mem
    /\ \A j \in Slots :
          \/ u.info[j] = t.info[j]
          \/ \E time \in Age \union {Untimed} :
                u.info[j] = [t.info[j] EXCEPT !.time = time]

\* An acknowledgement and the clock change nothing but ages.
LEMMA TimePreserves ==
    ASSUME NEW t, TableInv(t), NEW u, OnlyTimesDiffer(t, u)
    PROVE  /\ TableInv(u)
           /\ Packets(u) = Packets(t)
           /\ Live(u) = Live(t)
           /\ u.mem = t.mem
           /\ \A j \in Slots :
                 /\ u.info[j].type = t.info[j].type /\ u.info[j].id = t.info[j].id
                 /\ u.info[j].rev = t.info[j].rev
                 /\ u.info[j].start = t.info[j].start
                 /\ u.info[j].size = t.info[j].size
                 /\ u.info[j].to = t.info[j].to
                 /\ u.info[j].ready = t.info[j].ready
<1>1. /\ t \in Tables /\ ReadyIsLive(t)
      /\ t.info \in [Slots -> SlotType]
      /\ u \in Tables /\ u.used = t.used /\ u.mem = t.mem
  BY DEF TableInv, Tables, OnlyTimesDiffer
<1>2. ASSUME NEW j \in Slots
      PROVE  /\ u.info[j].type = t.info[j].type /\ u.info[j].id = t.info[j].id
             /\ u.info[j].rev = t.info[j].rev
             /\ u.info[j].start = t.info[j].start
             /\ u.info[j].size = t.info[j].size
             /\ u.info[j].to = t.info[j].to
             /\ u.info[j].ready = t.info[j].ready
  BY <1>1 DEF SlotType, OnlyTimesDiffer
<1>3. Live(u) = Live(t) /\ Packets(u) = Packets(t) /\ ReadyIsLive(u)
  BY <1>1, <1>2 DEF Live, Packets, ReadyIsLive
<1>4. TableInv(u)
  BY <1>1, <1>2, <1>3, Undisturbed DEF Packets, Live
<1>5. QED
  BY <1>1, <1>2, <1>3, <1>4

LEMMA AcknowledgeTime ==
    ASSUME NEW t, TableInv(t), NEW i \in Slots
    PROVE  LET u == SetSlot(t, i, [t.info[i] EXCEPT !.time = 0])
           IN  /\ OnlyTimesDiffer(t, u)
               /\ \A j \in Slots \ {i} : u.info[j] = t.info[j]
<1>1. t \in Tables /\ t.info \in [Slots -> SlotType] /\ t.info[i] \in SlotType
  BY DEF TableInv, Tables
<1>2. 0 \in Age
  BY WriteTableAssumption DEF Age
<1>3. [t.info[i] EXCEPT !.time = 0] \in SlotType
  BY <1>1, <1>2 DEF SlotType
<1>4. QED
  BY <1>1, <1>2, <1>3 DEF SetSlot, Tables, OnlyTimesDiffer

LEMMA AgeTime ==
    ASSUME NEW t, TableInv(t)
    PROVE  /\ OnlyTimesDiffer(t, AgeTable(t))
           /\ \A j \in Slots :
                 t.info[j].time = Untimed => AgeTable(t).info[j] = t.info[j]
<1> DEFINE u == AgeTable(t)
<1>1. t \in Tables /\ \A j \in Slots : t.info[j] \in SlotType
  BY DEF TableInv, Tables
<1>2. /\ u.info = [j \in Slots |-> IF t.info[j].time \in 0 .. WriteTimeout - 1
                                   THEN [t.info[j] EXCEPT !.time = @ + 1]
                                   ELSE t.info[j]]
      /\ u.used = t.used /\ u.mem = t.mem
      /\ u = [info |-> u.info, used |-> t.used, mem |-> t.mem]
  BY DEF AgeTable
<1> HIDE DEF u
<1>3. ASSUME NEW j \in Slots
      PROVE  /\ u.info[j] \in SlotType
             /\ t.info[j].time = Untimed => u.info[j] = t.info[j]
             /\ \/ u.info[j] = t.info[j]
                \/ \E time \in Age \union {Untimed} :
                      u.info[j] = [t.info[j] EXCEPT !.time = time]
  <2>1. CASE t.info[j].time \in 0 .. WriteTimeout - 1
    <3>1. /\ t.info[j].time + 1 \in Age
          /\ t.info[j].time # Untimed
      BY <2>1, WriteTableAssumption DEF Age, Untimed
    <3>2. u.info[j] = [t.info[j] EXCEPT !.time = t.info[j].time + 1]
      BY <1>2, <2>1
    <3>3. u.info[j] \in SlotType
      BY <1>1, <3>1, <3>2 DEF SlotType
    <3>4. QED
      BY <3>1, <3>2, <3>3
  <2>2. CASE t.info[j].time \notin 0 .. WriteTimeout - 1
    BY <1>1, <1>2, <2>2
  <2>3. QED
    BY <2>1, <2>2
<1>4. u \in Tables
  <2>1. u.info \in [Slots -> SlotType]
    BY <1>2, <1>3
  <2>2. QED
    BY <1>1, <1>2, <2>1 DEF Tables
<1>5. QED
  BY <1>2, <1>3, <1>4 DEF u, OnlyTimesDiffer

\* The table a PacketHandler is constructed with.
LEMMA EmptyTableInv ==
    TableInv(EmptyTable) /\ Live(EmptyTable) = {} /\ Packets(EmptyTable) = {}
<1>1. EmptyTable \in Tables
  BY FreeSlotType, BufferAssumption DEF EmptyTable, Tables, BufferSize, Cell
<1>2. Live(EmptyTable) = {} /\ Packets(EmptyTable) = {}
  BY DEF Live, Packets, EmptyTable, FreeSlot
<1>3. Accounted(EmptyTable)
  <2> DEFINE total == [n \in 0 .. MaxWritePackets |-> 0]
  <2>1. \A i \in Slots : /\ i \in 0 .. MaxWritePackets
                         /\ i + 1 \in 0 .. MaxWritePackets
    BY WriteTableAssumption DEF Slots
  <2>2. MaxWritePackets \in 0 .. MaxWritePackets
    BY WriteTableAssumption
  <2>3. Totals(EmptyTable, total)
    BY <2>1 DEF Totals, EmptyTable, FreeSlot
  <2>4. total[MaxWritePackets] = 0
    BY <2>2
  <2> HIDE DEF total
  <2>5. Fits(EmptyTable, total[MaxWritePackets])
    BY <2>4, BufferAssumption DEF Fits, EmptyTable, FreeSlot, NoStart
  <2>6. QED
    BY <2>3, <2>5 DEF Accounted
<1>4. QED
  BY <1>1, <1>2, <1>3
     DEF TableInv, Layout, InBounds, RegionsDisjoint, DistinctIds, ReadyIsLive,
         EmptyTable, FreeSlot
=============================================================================

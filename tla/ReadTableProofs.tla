--------------------------- MODULE ReadTableProofs --------------------------
(***************************************************************************)
(* What each operation on a read table preserves, for every value of the   *)
(* constants.  The theorems about PacketReader rest on these lemmas.       *)
(***************************************************************************)
EXTENDS ReadTable, TLAPS

\* A packet that is not empty has a section.
LEMMA RequiredSectionsType ==
    ASSUME NEW size \in Nat \ {0}
    PROVE  GetRequiredSections(size) \in Nat \ {0}
  BY FormatAssumption DEF GetRequiredSections

LEMMA InitialBitsType ==
    ASSUME NEW size \in Nat \ {0}
    PROVE  InitialBits(size) \in SUBSET Nat
<1>1. GetRequiredSections(size) \in Nat \ {0}
  BY RequiredSectionsType
<1>2. DynamicBytes(size) \in Nat \ {0}
  BY <1>1, FormatAssumption DEF DynamicBytes
<1>3. (DynamicBytes(size) - 1) * ByteBits \in Nat
  BY <1>2, FormatAssumption
<1>4. DynamicBytes(size) * ByteBits \in Nat
  BY <1>2, FormatAssumption
<1>5. QED
  BY <1>1, <1>3, <1>4, FormatAssumption DEF InitialBits

\* A section of a slot lies inside the region of the slot.
LEMMA SectionInRegion ==
    ASSUME NEW slot \in SlotType, NEW index \in Nat, NEW a \in SectionRange(slot, index)
    PROVE  /\ slot.start <= a
           /\ a < slot.start + slot.size
           /\ a \in Nat
<1>1. SectionOffset(index) \in Nat
  BY FormatAssumption DEF SectionOffset
<1>2. slot.start \in Nat /\ slot.size \in Nat
  BY BufferAssumption DEF SlotType, Word
<1>3. QED
  BY <1>1, <1>2, FormatAssumption DEF SectionRange, SectionLength

-----------------------------------------------------------------------------
(***************************************************************************)
(* Taking a packet out of the buffer: what moves, and that a packet and    *)
(* its data move together.                                                 *)
(***************************************************************************)

\* Where the other packets are once the packet of slot i is gone.
LEMMA ShiftedSlotPosition ==
    ASSUME NEW t \in Tables, Layout(t),
           NEW i \in Live(t), NEW j \in Live(t) \ {i}
    PROVE  LET old == t.info[j]
               new == ShiftedSlot(t, j, i)
           IN  /\ new.id = old.id /\ new.rev = old.rev /\ new.size = old.size
               /\ new.bits = old.bits /\ new.time = old.time
               /\ \/ /\ old.start + old.size <= t.info[i].start
                     /\ new.start = old.start
                  \/ /\ t.info[i].start + t.info[i].size <= old.start
                     /\ new.start = old.start - t.info[i].size
<1>1. /\ i \in Slots /\ j \in Slots /\ i # j
      /\ t.info[i] \in SlotType /\ t.info[j] \in SlotType
      /\ t.info[i].start \in Nat /\ t.info[i].size \in Nat \ {0}
      /\ t.info[j].start \in Word /\ t.info[j].start \in Nat
      /\ t.info[j].size \in Nat \ {0}
  BY BufferAssumption, ReadTableAssumption
     DEF Live, Tables, SlotType, Word, Layout, InBounds
<1>2. \/ t.info[i].start + t.info[i].size <= t.info[j].start
      \/ t.info[j].start + t.info[j].size <= t.info[i].start
  BY <1>1 DEF Layout, RegionsDisjoint
<1>3. CASE t.info[i].start + t.info[i].size <= t.info[j].start
  <2>1. ShiftedStart(t.info[j].start, t.info[i].start, t.info[i].size)
          = t.info[j].start - t.info[i].size
    BY <1>1, <1>3 DEF ShiftedStart, Subtract
  <2>2. t.info[j].start - t.info[i].size \in Word
    BY <1>1, <1>3, BufferAssumption DEF Word
  <2>3. QED
    BY <1>1, <1>3, <2>1, <2>2 DEF ShiftedSlot, SlotType
<1>4. CASE t.info[j].start + t.info[j].size <= t.info[i].start
  <2>1. ShiftedStart(t.info[j].start, t.info[i].start, t.info[i].size)
          = t.info[j].start
    BY <1>1, <1>4 DEF ShiftedStart
  <2>2. QED
    BY <1>1, <1>4, <2>1 DEF ShiftedSlot, SlotType
<1>5. QED
  BY <1>2, <1>3, <1>4

\* The cells of the other packets move with their slots.
LEMMA ClosingKeepsData ==
    ASSUME NEW t \in Tables, Layout(t),
           NEW i \in Live(t), NEW j \in Live(t) \ {i},
           NEW c \in Nat, c < t.info[j].size
    PROVE  CloseGap(t.mem, t.info[i].start, t.info[i].size)
                   [ShiftedSlot(t, j, i).start + c]
             = t.mem[t.info[j].start + c]
<1>1. /\ t.used \in ScratchSize .. BufferSize
      /\ t.info[i].start \in Nat /\ t.info[i].size \in Nat
      /\ t.info[j].start \in Nat /\ t.info[j].size \in Nat
      /\ t.info[j].start + t.info[j].size <= t.used
  BY BufferAssumption DEF Live, Tables, SlotType, Word, Layout, InBounds
<1>2. BufferSize \in Nat
  BY BufferAssumption DEF BufferSize
<1>3. t.info[j].start + c \in Address
  BY <1>1, <1>2, BufferAssumption DEF Address
<1>4. CASE /\ t.info[j].start + t.info[j].size <= t.info[i].start
           /\ ShiftedSlot(t, j, i).start = t.info[j].start
  BY <1>1, <1>2, <1>3, <1>4 DEF CloseGap
<1>5. CASE /\ t.info[i].start + t.info[i].size <= t.info[j].start
           /\ ShiftedSlot(t, j, i).start = t.info[j].start - t.info[i].size
  <2>1. /\ t.info[j].start - t.info[i].size + c \in Address
        /\ t.info[i].start <= t.info[j].start - t.info[i].size + c
        /\ t.info[j].start - t.info[i].size + c + t.info[i].size
             = t.info[j].start + c
    BY <1>1, <1>2, <1>3, <1>5 DEF Address
  <2>2. t.info[j].start + c < BufferSize
    BY <1>2, <1>3 DEF Address
  <2>3. QED
    BY <2>1, <2>2, <1>5 DEF CloseGap
<1>6. QED
  BY <1>4, <1>5, ShiftedSlotPosition

\* The starts of free slots are shifted as well, and stay words.
LEMMA ShiftedSlotType ==
    ASSUME NEW t \in Tables, Layout(t), NEW i \in Live(t), NEW j \in Slots
    PROVE  /\ ShiftedSlot(t, j, i) \in SlotType
           /\ ShiftedSlot(t, j, i).id = t.info[j].id
<1>1. /\ i \in Slots
      /\ t.info[j] \in SlotType
      /\ t.info[j].start \in Word
      /\ t.info[i].start \in Nat /\ t.info[i].size \in Nat
      /\ t.info[i].start + t.info[i].size <= t.used
      /\ t.used \in ScratchSize .. BufferSize
  BY BufferAssumption DEF Live, Tables, SlotType, Word, Layout, InBounds
<1>2. t.info[i].size < WordModulus
  BY <1>1, BufferAssumption DEF BufferSize
<1>3. ShiftedStart(t.info[j].start, t.info[i].start, t.info[i].size) \in Word
  BY <1>1, <1>2, BufferAssumption DEF ShiftedStart, Subtract, Word
<1>4. QED
  BY <1>1, <1>3 DEF ShiftedSlot, SlotType

\* The rest of the buffer keeps its type.
LEMMA CloseGapType ==
    ASSUME NEW mem \in [Address -> Cell], NEW start \in Nat, NEW size \in Nat
    PROVE  CloseGap(mem, start, size) \in [Address -> Cell]
<1>1. BufferSize \in Nat
  BY BufferAssumption DEF BufferSize
<1>2. ASSUME NEW a \in Address, a + size < BufferSize
      PROVE  a + size \in Address
  BY <1>1, <1>2 DEF Address
<1>3. QED
  BY <1>2 DEF CloseGap

LEMMA FreeSlotType == FreeSlot \in SlotType
  BY BufferAssumption, ReadTableAssumption
     DEF FreeSlot, SlotType, NoStart, Word, Rev, Untimed

(***************************************************************************)
(* freeReadPacket preserves the invariant of the table and removes exactly *)
(* the packet of slot i.                                                   *)
(***************************************************************************)
LEMMA FreePreserves ==
    ASSUME NEW t, TableInv(t), NEW i \in Live(t)
    PROVE  /\ TableInv(FreeReadPacket(t, i))
           /\ Live(FreeReadPacket(t, i)) = Live(t) \ {i}
           /\ \A j \in Live(t) \ {i} :
                 FreeReadPacket(t, i).info[j].id = t.info[j].id
<1> DEFINE u == FreeReadPacket(t, i)
<1>1. /\ t \in Tables /\ Layout(t) /\ UniqueIds(t) /\ ReceivedDataIntact(t)
  BY DEF TableInv
<1>2. /\ i \in Slots
      /\ t.info[i].start \in Nat /\ t.info[i].size \in Nat
  BY <1>1, BufferAssumption DEF Live, Tables, SlotType, Word
<1>3. /\ u.info = [j \in Slots |-> IF j = i THEN FreeSlot ELSE ShiftedSlot(t, j, i)]
      /\ u.used = t.used
      /\ u.mem = CloseGap(t.mem, t.info[i].start, t.info[i].size)
  BY DEF FreeReadPacket
<1>4. u \in Tables
  <2>1. u.info \in [Slots -> SlotType]
    BY <1>1, <1>3, ShiftedSlotType, FreeSlotType
  <2>2. u.mem \in [Address -> Cell]
    BY <1>1, <1>2, <1>3, CloseGapType DEF Tables
  <2>3. QED
    BY <1>1, <2>1, <2>2 DEF Tables, FreeReadPacket
<1> HIDE DEF u
<1>5. \A j \in Slots \ {i} : u.info[j] = ShiftedSlot(t, j, i)
  BY <1>3
<1>6. \A j \in Slots \ {i} : u.info[j].id = t.info[j].id
  BY <1>1, <1>5, ShiftedSlotType
<1>7. Live(u) = Live(t) \ {i}
  <2>1. u.info[i].id = NoId
    BY <1>2, <1>3 DEF FreeSlot
  <2>2. QED
    BY <1>6, <2>1 DEF Live
<1>8. \A j \in Live(u) :
         /\ j \in Live(t) \ {i}
         /\ u.info[j] = ShiftedSlot(t, j, i)
         /\ u.info[j].id = t.info[j].id /\ u.info[j].rev = t.info[j].rev
         /\ u.info[j].size = t.info[j].size /\ u.info[j].bits = t.info[j].bits
         /\ \/ /\ t.info[j].start + t.info[j].size <= t.info[i].start
               /\ u.info[j].start = t.info[j].start
            \/ /\ t.info[i].start + t.info[i].size <= t.info[j].start
               /\ u.info[j].start = t.info[j].start - t.info[i].size
  BY <1>1, <1>5, <1>7, ShiftedSlotPosition DEF Live
<1>9. \A j \in Live(u) : t.info[j].start \in Nat /\ t.info[j].size \in Nat
  BY <1>1, <1>8, BufferAssumption DEF Live, Tables, SlotType, Word
<1>10. InBounds(u)
  <2> SUFFICES ASSUME NEW j \in Live(u)
               PROVE  /\ ScratchSize <= u.info[j].start
                      /\ u.info[j].start + u.info[j].size <= u.used
                      /\ u.info[j].size = SizeOf[u.info[j].id]
    BY DEF InBounds
  <2>1. /\ ScratchSize <= t.info[j].start
        /\ ScratchSize <= t.info[i].start
        /\ t.info[j].start + t.info[j].size <= t.used
        /\ t.info[j].size = SizeOf[t.info[j].id]
        /\ t.used \in Int /\ ScratchSize \in Int
    BY <1>1, <1>8, BufferAssumption DEF Layout, InBounds, Tables, BufferSize
  <2>2. /\ u.info[j].size = t.info[j].size /\ u.info[j].id = t.info[j].id
        /\ \/ u.info[j].start = t.info[j].start
           \/ /\ t.info[i].start + t.info[i].size <= t.info[j].start
              /\ u.info[j].start = t.info[j].start - t.info[i].size
    BY <1>8
  <2>3. /\ t.info[i].start \in Int /\ t.info[i].size \in Nat
        /\ t.info[j].start \in Int /\ t.info[j].size \in Nat
        /\ u.used = t.used
    BY <1>2, <1>3, <1>9
  <2>4. CASE u.info[j].start = t.info[j].start
    BY <2>1, <2>2, <2>3, <2>4
  <2>5. CASE /\ t.info[i].start + t.info[i].size <= t.info[j].start
             /\ u.info[j].start = t.info[j].start - t.info[i].size
    BY <2>1, <2>2, <2>3, <2>5
  <2>6. QED
    BY <2>2, <2>4, <2>5
<1>11. RegionsDisjoint(u)
  <2> SUFFICES ASSUME NEW j \in Live(u), NEW k \in Live(u), j # k
               PROVE  \/ u.info[j].start + u.info[j].size <= u.info[k].start
                      \/ u.info[k].start + u.info[k].size <= u.info[j].start
    BY DEF RegionsDisjoint
  <2>1. \/ t.info[j].start + t.info[j].size <= t.info[k].start
        \/ t.info[k].start + t.info[k].size <= t.info[j].start
    BY <1>1, <1>8 DEF Layout, RegionsDisjoint
  <2>2. /\ u.info[j].size = t.info[j].size /\ u.info[k].size = t.info[k].size
        /\ t.info[j].start \in Nat /\ t.info[j].size \in Nat
        /\ t.info[k].start \in Nat /\ t.info[k].size \in Nat
    BY <1>8, <1>9
  <2>3. \/ /\ t.info[j].start + t.info[j].size <= t.info[i].start
           /\ u.info[j].start = t.info[j].start
        \/ /\ t.info[i].start + t.info[i].size <= t.info[j].start
           /\ u.info[j].start = t.info[j].start - t.info[i].size
    BY <1>8
  <2>4. \/ /\ t.info[k].start + t.info[k].size <= t.info[i].start
           /\ u.info[k].start = t.info[k].start
        \/ /\ t.info[i].start + t.info[i].size <= t.info[k].start
           /\ u.info[k].start = t.info[k].start - t.info[i].size
    BY <1>8
  <2>5. QED
    BY <1>2, <2>1, <2>2, <2>3, <2>4
<1>12. UniqueIds(u)
  BY <1>1, <1>8, <1>9 DEF UniqueIds
<1>13. ReceivedDataIntact(u)
  <2> SUFFICES ASSUME NEW j \in Live(u),
                      NEW k \in u.info[j].bits \ InitialBits(u.info[j].size),
                      NEW a \in SectionRange(u.info[j], k)
               PROVE  Genuine(u.mem[a], u.info[j].id, u.info[j].rev,
                              a - u.info[j].start)
    BY DEF ReceivedDataIntact
  <2> DEFINE c == a - u.info[j].start
  <2>1. u.info[j] \in SlotType /\ k \in Nat /\ u.info[j].start \in Nat
    BY <1>4, <1>8, BufferAssumption DEF Live, Tables, SlotType, Word
  <2>2. /\ c \in Nat /\ c < t.info[j].size
        /\ a = u.info[j].start + c
    BY <1>8, <1>9, <2>1, SectionInRegion DEF SlotType
  <2> HIDE DEF c
  <2>3. u.mem[a] = t.mem[t.info[j].start + c]
    <3>1. CloseGap(t.mem, t.info[i].start, t.info[i].size)
                  [ShiftedSlot(t, j, i).start + c]
            = t.mem[t.info[j].start + c]
      BY <1>1, <1>8, <2>2, ClosingKeepsData
    <3>2. QED
      BY <1>3, <1>8, <2>2, <3>1
  <2>4. t.info[j].start + c \in SectionRange(t.info[j], k)
    BY <1>8, <1>9, <2>1, <2>2, FormatAssumption
       DEF SectionRange, SectionLength, SectionOffset
  <2>5. Genuine(t.mem[t.info[j].start + c], t.info[j].id, t.info[j].rev,
                (t.info[j].start + c) - t.info[j].start)
    BY <1>1, <1>8, <1>9, <2>4 DEF ReceivedDataIntact
  <2>6. (t.info[j].start + c) - t.info[j].start = c
    BY <1>9, <2>2
  <2>7. QED
    BY <1>8, <2>3, <2>5, <2>6 DEF c
<1>14. QED
  BY <1>4, <1>6, <1>7, <1>10, <1>11, <1>12, <1>13 DEF u, TableInv, Layout, Live

-----------------------------------------------------------------------------
(***************************************************************************)
(* Placing a packet of which nothing has arrived behind all others.        *)
(***************************************************************************)
Place(t, i, slot) == [info |-> [t.info EXCEPT ![i] = slot],
                      used |-> t.used + slot.size,
                      mem  |-> t.mem]

LEMMA PlacePreserves ==
    ASSUME NEW t, TableInv(t), NEW i \in Slots \ Live(t),
           NEW slot \in SlotType, slot.id \in Ids, ~HasPacket(t, slot.id),
           slot.start = t.used, slot.size = SizeOf[slot.id],
           slot.size <= AvailableReadPacketSize(t),
           slot.bits \subseteq InitialBits(slot.size)
    PROVE  /\ TableInv(Place(t, i, slot))
           /\ Live(Place(t, i, slot)) = Live(t) \union {i}
<1> DEFINE u == Place(t, i, slot)
<1>1. /\ t \in Tables /\ Layout(t) /\ UniqueIds(t) /\ ReceivedDataIntact(t)
  BY DEF TableInv
<1>2. /\ u.info = [t.info EXCEPT ![i] = slot]
      /\ u.used = t.used + slot.size
      /\ u.mem = t.mem
  BY DEF Place
<1>3. /\ t.info \in [Slots -> SlotType]
      /\ t.used \in Nat /\ slot.size \in Nat /\ BufferSize \in Nat
      /\ ScratchSize <= t.used
  BY <1>1, BufferAssumption DEF Tables, SlotType, BufferSize
<1>4. t.used + slot.size \in ScratchSize .. BufferSize
  BY <1>1, <1>3, BufferAssumption DEF AvailableReadPacketSize
<1>5. u \in Tables
  BY <1>1, <1>3, <1>4 DEF Tables, Place
<1> HIDE DEF u
<1>6. /\ u.info[i] = slot
      /\ \A j \in Slots \ {i} : u.info[j] = t.info[j]
  BY <1>2, <1>3
<1>7. Live(u) = Live(t) \union {i}
  BY <1>6, ReadTableAssumption DEF Live
<1>8. \A j \in Live(t) :
         /\ u.info[j] = t.info[j]
         /\ t.info[j].start \in Nat /\ t.info[j].size \in Nat
         /\ ScratchSize <= t.info[j].start
         /\ t.info[j].start + t.info[j].size <= t.used
         /\ t.info[j].size = SizeOf[t.info[j].id]
  BY <1>1, <1>3, <1>6, BufferAssumption DEF Live, Layout, InBounds, SlotType, Word
<1>9. InBounds(u)
  <2> SUFFICES ASSUME NEW j \in Live(u)
               PROVE  /\ ScratchSize <= u.info[j].start
                      /\ u.info[j].start + u.info[j].size <= u.used
                      /\ u.info[j].size = SizeOf[u.info[j].id]
    BY DEF InBounds
  <2>1. CASE j = i
    BY <1>2, <1>3, <1>6, <2>1
  <2>2. CASE j \in Live(t)
    BY <1>2, <1>3, <1>8, <2>2
  <2>3. QED
    BY <1>7, <2>1, <2>2
<1>10. RegionsDisjoint(u)
  <2> SUFFICES ASSUME NEW j \in Live(u), NEW k \in Live(u), j # k
               PROVE  \/ u.info[j].start + u.info[j].size <= u.info[k].start
                      \/ u.info[k].start + u.info[k].size <= u.info[j].start
    BY DEF RegionsDisjoint
  <2>1. CASE j = i
    BY <1>6, <1>7, <1>8, <2>1
  <2>2. CASE k = i
    BY <1>6, <1>7, <1>8, <2>2
  <2>3. CASE j \in Live(t) /\ k \in Live(t)
    BY <1>1, <1>8, <2>3 DEF Layout, RegionsDisjoint
  <2>4. QED
    BY <1>7, <2>1, <2>2, <2>3
<1>11. UniqueIds(u)
  BY <1>1, <1>6, <1>7, <1>8 DEF UniqueIds, HasPacket, Live
<1>12. ReceivedDataIntact(u)
  <2> SUFFICES ASSUME NEW j \in Live(u),
                      NEW k \in u.info[j].bits \ InitialBits(u.info[j].size),
                      NEW a \in SectionRange(u.info[j], k)
               PROVE  Genuine(u.mem[a], u.info[j].id, u.info[j].rev,
                              a - u.info[j].start)
    BY DEF ReceivedDataIntact
  <2>1. j \in Live(t)
    BY <1>6, <1>7
  <2>2. QED
    BY <1>1, <1>2, <1>8, <2>1 DEF ReceivedDataIntact
<1>13. QED
  BY <1>5, <1>7, <1>9, <1>10, <1>11, <1>12 DEF u, TableInv, Layout

\* allocateReadPacket, called for an id that has no slot.
LEMMA AllocatePreserves ==
    ASSUME NEW t, TableInv(t), NEW i \in Slots \ Live(t),
           NEW id \in Ids, NEW rev \in Rev, ~HasPacket(t, id),
           CanAllocate(t, SizeOf[id])
    PROVE  LET u == AllocateReadPacket(t, i, id, SizeOf[id], rev)
           IN  /\ TableInv(u)
               /\ Live(u) = Live(t) \union {i}
               /\ u.info[i].id = id /\ u.info[i].rev = rev
               /\ \A j \in Live(t) : u.info[j].id = t.info[j].id
<1> DEFINE slot == [id |-> id, rev |-> rev, start |-> t.used,
                    size |-> SizeOf[id], bits |-> InitialBits(SizeOf[id]),
                    time |-> Untimed]
<1>1. t \in Tables
  BY DEF TableInv
<1>2. SizeOf[id] \in Nat \ {0}
  BY ReadTableAssumption
<1>3. t.used \in Word
  BY <1>1, BufferAssumption DEF Tables, Word, BufferSize
<1>4. slot \in SlotType
  BY <1>2, <1>3, InitialBitsType DEF SlotType
<1>5. AllocateReadPacket(t, i, id, SizeOf[id], rev) = Place(t, i, slot)
  BY <1>1 DEF AllocateReadPacket, Place, Tables
<1>6. /\ TableInv(Place(t, i, slot))
      /\ Live(Place(t, i, slot)) = Live(t) \union {i}
  BY <1>4, PlacePreserves DEF CanAllocate
<1>7. /\ Place(t, i, slot).info[i] = slot
      /\ \A j \in Live(t) : Place(t, i, slot).info[j] = t.info[j]
  BY <1>1 DEF Place, Tables, Live
<1>8. QED
  BY <1>5, <1>6, <1>7

\* receivedSection making room for a newer revision.
LEMMA RevisePreserves ==
    ASSUME NEW t, TableInv(t), NEW i \in Live(t), NEW rev \in Rev,
           CanRevise(t, i)
    PROVE  LET u == ReviseReadPacket(t, i, rev)
           IN  /\ TableInv(u)
               /\ Live(u) = Live(t)
               /\ u.info[i].rev = rev
               /\ \A j \in Live(t) : u.info[j].id = t.info[j].id
<1> DEFINE f == FreeReadPacket(t, i)
           slot == [t.info[i] EXCEPT !.rev = rev, !.start = t.used, !.bits = {}]
<1>1. /\ t \in Tables /\ Layout(t) /\ UniqueIds(t)
      /\ i \in Slots
  BY DEF TableInv, Live
<1>2. /\ TableInv(f)
      /\ Live(f) = Live(t) \ {i}
      /\ \A j \in Live(t) \ {i} : f.info[j].id = t.info[j].id
  BY FreePreserves
<1>3. t.used \in Word
  BY <1>1, BufferAssumption DEF Tables, Word, BufferSize
<1>4. /\ t.info[i] \in SlotType
      /\ slot \in SlotType
      /\ slot.id = t.info[i].id /\ slot.size = t.info[i].size
      /\ slot.start = t.used /\ slot.bits = {} /\ slot.rev = rev
  BY <1>1, <1>3 DEF SlotType, Tables
<1>5. /\ slot.id \in Ids
      /\ slot.size = SizeOf[slot.id]
      /\ f.used = t.used
  BY <1>1, <1>4 DEF Live, SlotType, Layout, InBounds, FreeReadPacket
<1>6. ~HasPacket(f, slot.id)
  BY <1>1, <1>2, <1>4, <1>5, ReadTableAssumption DEF HasPacket, UniqueIds, Live
<1>7. /\ TableInv(Place(f, i, slot))
      /\ Live(Place(f, i, slot)) = Live(f) \union {i}
  BY <1>1, <1>2, <1>4, <1>5, <1>6, PlacePreserves
     DEF CanRevise, AvailableReadPacketSize
<1>8. ReviseReadPacket(t, i, rev) = Place(f, i, slot)
  BY <1>1, <1>4 DEF ReviseReadPacket, Place, FreeReadPacket
<1>9. /\ Place(f, i, slot).info[i] = slot
      /\ \A j \in Live(t) \ {i} : Place(f, i, slot).info[j] = f.info[j]
  BY <1>1 DEF Place, FreeReadPacket, Live
<1>10. QED
  BY <1>2, <1>4, <1>7, <1>8, <1>9

-----------------------------------------------------------------------------
(***************************************************************************)
(* Storing a section, and the passing of time.                             *)
(***************************************************************************)

\* The second half of receivedSection, for a datagram of the slot's revision.
LEMMA StorePreserves ==
    ASSUME NEW t, TableInv(t), NEW i \in Live(t), NEW p \in Packets,
           NEW index \in Nat, NEW rev,
           IdOf[p] = t.info[i].id, rev = t.info[i].rev
    PROVE  LET u == StoreSection(t, i, p, index, rev)
           IN  /\ TableInv(u)
               /\ Live(u) = Live(t)
               /\ \A j \in Live(t) : u.info[j].id = t.info[j].id
<1> DEFINE u == StoreSection(t, i, p, index, rev)
           slot == [t.info[i] EXCEPT !.bits = @ \union {index}, !.time = 0]
           written == SectionRange(t.info[i], index)
<1>1. /\ t \in Tables /\ Layout(t) /\ UniqueIds(t) /\ ReceivedDataIntact(t)
      /\ i \in Slots
  BY DEF TableInv, Live
<1>2. /\ t.info \in [Slots -> SlotType] /\ t.mem \in [Address -> Cell]
      /\ t.info[i] \in SlotType
      /\ t.info[i].start \in Nat /\ t.info[i].size \in Nat
      /\ t.info[i].rev \in Rev
  BY <1>1, BufferAssumption DEF Tables, SlotType, Word
<1>3. /\ u.info = [t.info EXCEPT ![i] = slot]
      /\ u.used = t.used
      /\ u.mem = [a \in Address |-> IF a \in written
                                     THEN <<p, rev, a - t.info[i].start>>
                                     ELSE t.mem[a]]
  BY DEF StoreSection
<1>4. /\ u.info[i] \in SlotType
      /\ u.info[i].id = t.info[i].id /\ u.info[i].rev = t.info[i].rev
      /\ u.info[i].start = t.info[i].start /\ u.info[i].size = t.info[i].size
      /\ u.info[i].bits = t.info[i].bits \union {index}
  <2>1. u.info[i] = slot
    BY <1>1, <1>2, <1>3
  <2>2. /\ slot.id = t.info[i].id /\ slot.rev = t.info[i].rev
        /\ slot.start = t.info[i].start /\ slot.size = t.info[i].size
        /\ slot.bits = t.info[i].bits \union {index}
    BY <1>2 DEF SlotType
  <2>3. t.info[i].bits \union {index} \in SUBSET Nat
    BY <1>2 DEF SlotType
  <2>4. 0 \in Age \union {Untimed}
    BY ReadTableAssumption DEF Age
  <2>5. slot \in SlotType
    BY <1>2, <2>3, <2>4 DEF SlotType
  <2>6. QED
    BY <2>1, <2>2, <2>5
<1>5. \A j \in Slots \ {i} : u.info[j] = t.info[j]
  BY <1>1, <1>2, <1>3
<1>6. \A a \in written : a \in Nat /\ a - t.info[i].start \in Nat
                         /\ t.info[i].start <= a
                         /\ a < t.info[i].start + t.info[i].size
  BY <1>2, SectionInRegion
<1>7. u \in Tables
  <2>1. u.info \in [Slots -> SlotType]
    BY <1>1, <1>2, <1>3, <1>4
  <2>2. \A a \in written : <<p, rev, a - t.info[i].start>> \in Cell
    BY <1>2, <1>6 DEF Cell
  <2>3. u.mem \in [Address -> Cell]
    BY <1>2, <1>3, <2>2
  <2>4. QED
    BY <1>1, <2>1, <2>3 DEF Tables, StoreSection
<1> HIDE DEF u
<1>8. \A j \in Slots :
         /\ u.info[j].id = t.info[j].id /\ u.info[j].rev = t.info[j].rev
         /\ u.info[j].start = t.info[j].start /\ u.info[j].size = t.info[j].size
  BY <1>4, <1>5
<1>9. Live(u) = Live(t)
  BY <1>8 DEF Live
<1>10. Layout(u) /\ UniqueIds(u)
  <2>1. \A j \in Live(t) : j \in Slots
    BY DEF Live
  <2>2. InBounds(u)
    BY <1>1, <1>3, <1>8, <1>9, <2>1 DEF Layout, InBounds
  <2>3. RegionsDisjoint(u)
    BY <1>1, <1>8, <1>9, <2>1 DEF Layout, RegionsDisjoint
  <2>4. UniqueIds(u)
    BY <1>1, <1>8, <1>9, <2>1 DEF UniqueIds
  <2>5. QED
    BY <2>2, <2>3, <2>4 DEF Layout
<1>11. ReceivedDataIntact(u)
  <2> SUFFICES ASSUME NEW j \in Live(u),
                      NEW k \in u.info[j].bits \ InitialBits(u.info[j].size),
                      NEW a \in SectionRange(u.info[j], k)
               PROVE  Genuine(u.mem[a], u.info[j].id, u.info[j].rev,
                              a - u.info[j].start)
    BY DEF ReceivedDataIntact
  <2>1. /\ j \in Live(t) /\ j \in Slots
        /\ u.info[j] \in SlotType /\ t.info[j] \in SlotType /\ k \in Nat
    BY <1>1, <1>7, <1>9 DEF Live, Tables, SlotType
  <2>2. a \in SectionRange(t.info[j], k)
    BY <1>8, <2>1 DEF SectionRange
  <2>3. /\ a \in Nat
        /\ t.info[j].start <= a /\ a < t.info[j].start + t.info[j].size
    BY <2>1, <2>2, SectionInRegion
  <2>4. a \in Address
    BY <1>1, <2>1, <2>3, BufferAssumption
       DEF Address, Layout, InBounds, Tables, SlotType, Word, BufferSize
  <2>5. CASE a \in written
    <3>1. j = i
      <4> SUFFICES ASSUME j # i PROVE FALSE
        OBVIOUS
      <4>1. \/ t.info[j].start + t.info[j].size <= t.info[i].start
            \/ t.info[i].start + t.info[i].size <= t.info[j].start
        BY <1>1, <2>1 DEF Layout, RegionsDisjoint
      <4>2. t.info[j].start \in Nat /\ t.info[j].size \in Nat
        BY <2>1, BufferAssumption DEF SlotType, Word
      <4>3. QED
        BY <1>2, <1>6, <2>3, <2>5, <4>1, <4>2
    <3>2. u.mem[a] = <<p, t.info[i].rev, a - t.info[i].start>>
      BY <1>3, <2>4, <2>5
    <3>3. QED
      BY <1>4, <3>1, <3>2 DEF Genuine
  <2>6. CASE a \notin written
    <3>1. u.mem[a] = t.mem[a]
      BY <1>3, <2>4, <2>6
    <3>2. k \in t.info[j].bits
      <4>1. CASE j # i
        BY <1>5, <2>1, <4>1
      <4>2. CASE j = i
        BY <1>4, <2>2, <2>6, <4>2
      <4>3. QED
        BY <4>1, <4>2
    <3>3. Genuine(t.mem[a], t.info[j].id, t.info[j].rev, a - t.info[j].start)
      BY <1>1, <1>8, <2>1, <2>2, <3>2 DEF ReceivedDataIntact
    <3>4. QED
      BY <1>8, <2>1, <3>1, <3>3
  <2>7. QED
    BY <2>5, <2>6
<1>12. \A j \in Live(t) : u.info[j].id = t.info[j].id
  BY <1>8 DEF Live
<1>13. QED
  BY <1>7, <1>9, <1>10, <1>11, <1>12 DEF u, TableInv

\* A tick changes nothing but ages.
LEMMA AgePreserves ==
    ASSUME NEW t, TableInv(t)
    PROVE  /\ TableInv(AgeTable(t))
           /\ Live(AgeTable(t)) = Live(t)
           /\ \A j \in Live(t) : AgeTable(t).info[j].id = t.info[j].id
<1> DEFINE u == AgeTable(t)
<1>1. /\ t \in Tables /\ Layout(t) /\ UniqueIds(t) /\ ReceivedDataIntact(t)
  BY DEF TableInv
<1>2. /\ \A j \in Slots : t.info[j] \in SlotType
      /\ u.info = [j \in Slots |-> IF t.info[j].time \in 0 .. ReadTimeout - 1
                                   THEN [t.info[j] EXCEPT !.time = @ + 1]
                                   ELSE t.info[j]]
      /\ u.used = t.used /\ u.mem = t.mem
  BY <1>1 DEF Tables, AgeTable
<1>3. ASSUME NEW j \in Slots
      PROVE  /\ u.info[j] \in SlotType
             /\ u.info[j].id = t.info[j].id /\ u.info[j].rev = t.info[j].rev
             /\ u.info[j].start = t.info[j].start
             /\ u.info[j].size = t.info[j].size
             /\ u.info[j].bits = t.info[j].bits
  <2>1. CASE t.info[j].time \in 0 .. ReadTimeout - 1
    BY <1>2, <2>1, ReadTableAssumption DEF SlotType, Age
  <2>2. CASE t.info[j].time \notin 0 .. ReadTimeout - 1
    BY <1>2, <2>2
  <2>3. QED
    BY <2>1, <2>2
<1>4. u \in Tables
  BY <1>1, <1>2, <1>3 DEF Tables, AgeTable
<1> HIDE DEF u
<1>5. Live(u) = Live(t) /\ \A j \in Live(t) : j \in Slots
  BY <1>3 DEF Live
<1>6. InBounds(u) /\ RegionsDisjoint(u) /\ UniqueIds(u)
  BY <1>1, <1>2, <1>3, <1>5 DEF Layout, InBounds, RegionsDisjoint, UniqueIds
<1>7. ReceivedDataIntact(u)
  <2> SUFFICES ASSUME NEW j \in Live(u),
                      NEW k \in u.info[j].bits \ InitialBits(u.info[j].size),
                      NEW a \in SectionRange(u.info[j], k)
               PROVE  Genuine(u.mem[a], u.info[j].id, u.info[j].rev,
                              a - u.info[j].start)
    BY DEF ReceivedDataIntact
  <2>1. j \in Live(t) /\ j \in Slots
    BY <1>5
  <2>2. a \in SectionRange(t.info[j], k)
    BY <1>3, <2>1 DEF SectionRange
  <2>3. Genuine(t.mem[a], t.info[j].id, t.info[j].rev, a - t.info[j].start)
    BY <1>1, <1>3, <2>1, <2>2 DEF ReceivedDataIntact
  <2>4. QED
    BY <1>2, <1>3, <2>1, <2>3
<1>8. QED
  BY <1>3, <1>4, <1>5, <1>6, <1>7 DEF u, TableInv, Layout

\* The table a PacketHandler is constructed with.
LEMMA EmptyTableInv ==
    TableInv(EmptyTable) /\ Live(EmptyTable) = {}
<1>1. EmptyTable \in Tables
  BY FreeSlotType, BufferAssumption DEF EmptyTable, Tables, BufferSize, Cell
<1>2. Live(EmptyTable) = {}
  BY DEF Live, EmptyTable, FreeSlot
<1>3. QED
  BY <1>1, <1>2
     DEF TableInv, Layout, InBounds, RegionsDisjoint, UniqueIds, ReceivedDataIntact

-----------------------------------------------------------------------------
(***************************************************************************)
(* What each operation does to the slots in use, beside preserving the     *)
(* invariant.                                                              *)
(***************************************************************************)

\* The same packet, in the same revision, with the same sections received.
SamePacket(a, b) == /\ a.id = b.id /\ a.rev = b.rev
                    /\ a.size = b.size /\ a.bits = b.bits

\* The slots of S describe the same packets in both tables.
KeepsPackets(t, u, S) == \A j \in S : SamePacket(t.info[j], u.info[j])

GainsSections(a, b, S) == /\ b.id = a.id /\ b.rev = a.rev
                          /\ b.bits = a.bits \union S

LEMMA FreeKeeps ==
    ASSUME NEW t, TableInv(t), NEW i \in Live(t)
    PROVE  /\ KeepsPackets(t, FreeReadPacket(t, i), Live(t) \ {i})
           /\ FreeReadPacket(t, i).used = t.used
<1>1. t \in Tables /\ Layout(t)
  BY DEF TableInv
<1>2. ASSUME NEW j \in Live(t) \ {i}
      PROVE  SamePacket(t.info[j], FreeReadPacket(t, i).info[j])
  <2>1. FreeReadPacket(t, i).info[j] = ShiftedSlot(t, j, i)
    BY DEF FreeReadPacket, Live
  <2>2. QED
    BY <1>1, <2>1, ShiftedSlotPosition DEF SamePacket
<1>3. QED
  BY <1>2 DEF KeepsPackets, FreeReadPacket

LEMMA AllocateKeeps ==
    ASSUME NEW t \in Tables, NEW i \in Slots \ Live(t), NEW id, NEW size, NEW rev
    PROVE  LET u == AllocateReadPacket(t, i, id, size, rev)
           IN  /\ KeepsPackets(t, u, Live(t))
               /\ u.info[i].bits = InitialBits(size)
               /\ u.used = t.used + size
  BY DEF AllocateReadPacket, KeepsPackets, SamePacket, Tables, Live

LEMMA ReviseKeeps ==
    ASSUME NEW t, TableInv(t), NEW i \in Live(t), NEW rev \in Rev
    PROVE  LET u == ReviseReadPacket(t, i, rev)
           IN  /\ KeepsPackets(t, u, Live(t) \ {i})
               /\ u.info[i].bits = {}
               /\ u.used = t.used + t.info[i].size
<1> DEFINE u == ReviseReadPacket(t, i, rev)
<1>1. t \in Tables /\ Layout(t) /\ i \in Slots /\ t.info[i] \in SlotType
  BY DEF TableInv, Live, Tables
<1>2. ASSUME NEW j \in Live(t) \ {i}
      PROVE  SamePacket(t.info[j], u.info[j])
  <2>1. u.info[j] = ShiftedSlot(t, j, i)
    BY DEF ReviseReadPacket, Live
  <2>2. QED
    BY <1>1, <2>1, ShiftedSlotPosition DEF SamePacket
<1>3. u.info[i].bits = {}
  BY <1>1 DEF ReviseReadPacket, SlotType
<1>4. QED
  BY <1>2, <1>3 DEF KeepsPackets, ReviseReadPacket

LEMMA StoreKeeps ==
    ASSUME NEW t \in Tables, NEW i \in Live(t), NEW p \in Packets,
           NEW index \in Nat, NEW rev \in Rev
    PROVE  LET u == StoreSection(t, i, p, index, rev)
           IN  /\ KeepsPackets(t, u, Live(t) \ {i})
               /\ GainsSections(t.info[i], u.info[i], {index})
               /\ u.used = t.used
<1> DEFINE u == StoreSection(t, i, p, index, rev)
           slot == [t.info[i] EXCEPT !.bits = @ \union {index}, !.time = 0]
<1>1. i \in Slots /\ t.info \in [Slots -> SlotType] /\ t.info[i] \in SlotType
  BY DEF Live, Tables
<1>2. u.info = [t.info EXCEPT ![i] = slot]
  BY DEF StoreSection
<1>3. u.info[i] = slot /\ \A j \in Slots \ {i} : u.info[j] = t.info[j]
  BY <1>1, <1>2
<1>4. /\ slot.id = t.info[i].id /\ slot.rev = t.info[i].rev
      /\ slot.bits = t.info[i].bits \union {index}
  BY <1>1 DEF SlotType
<1>5. u.used = t.used
  BY DEF StoreSection
<1>6. KeepsPackets(t, u, Live(t) \ {i})
  BY <1>3 DEF KeepsPackets, SamePacket, Live
<1>7. QED
  BY <1>3, <1>4, <1>5, <1>6 DEF GainsSections

\* What receivedSection marks.
Gained(size, index) == IF OutOfRange(size, index) THEN {} ELSE {index}

LEMMA ReceivedPreserves ==
    ASSUME NEW t, TableInv(t), NEW i \in Live(t), NEW p \in Packets,
           NEW index \in Nat, NEW rev,
           IdOf[p] = t.info[i].id, rev = t.info[i].rev
    PROVE  LET u == ReceivedSection(t, i, p, index, rev)
           IN  /\ TableInv(u)
               /\ Live(u) = Live(t)
               /\ \A j \in Live(t) : u.info[j].id = t.info[j].id
<1>1. CASE OutOfRange(t.info[i].size, index)
  BY <1>1 DEF ReceivedSection
<1>2. CASE ~OutOfRange(t.info[i].size, index)
  <2>1. ReceivedSection(t, i, p, index, rev) = StoreSection(t, i, p, index, rev)
    BY <1>2 DEF ReceivedSection
  <2>2. QED
    BY <2>1, StorePreserves
<1>3. QED
  BY <1>1, <1>2

LEMMA ReceivedKeeps ==
    ASSUME NEW t \in Tables, NEW i \in Live(t), NEW p \in Packets,
           NEW index \in Nat, NEW rev \in Rev
    PROVE  LET u == ReceivedSection(t, i, p, index, rev)
           IN  /\ KeepsPackets(t, u, Live(t) \ {i})
               /\ GainsSections(t.info[i], u.info[i], Gained(t.info[i].size, index))
               /\ u.used = t.used
<1>1. CASE OutOfRange(t.info[i].size, index)
  <2>1. ReceivedSection(t, i, p, index, rev) = t
    BY <1>1 DEF ReceivedSection
  <2>2. Gained(t.info[i].size, index) = {}
    BY <1>1 DEF Gained
  <2>3. KeepsPackets(t, t, Live(t) \ {i})
    BY DEF KeepsPackets, SamePacket
  <2>4. t.info[i].bits = t.info[i].bits \union {}
    <3>1. t.info[i] \in SlotType
      BY DEF Tables, Live
    <3>2. QED
      BY <3>1 DEF SlotType
  <2>5. QED
    BY <2>1, <2>2, <2>3, <2>4 DEF GainsSections
<1>2. CASE ~OutOfRange(t.info[i].size, index)
  <2>1. ReceivedSection(t, i, p, index, rev) = StoreSection(t, i, p, index, rev)
    BY <1>2 DEF ReceivedSection
  <2>2. Gained(t.info[i].size, index) = {index}
    BY <1>2 DEF Gained
  <2> DEFINE u == StoreSection(t, i, p, index, rev)
  <2>3. /\ KeepsPackets(t, u, Live(t) \ {i})
        /\ GainsSections(t.info[i], u.info[i], {index})
        /\ u.used = t.used
    BY StoreKeeps
  <2> HIDE DEF u
  <2>4. QED
    BY <2>1, <2>2, <2>3 DEF GainsSections, u
<1>3. QED
  BY <1>1, <1>2

LEMMA AgeKeeps ==
    ASSUME NEW t \in Tables
    PROVE  /\ KeepsPackets(t, AgeTable(t), Live(t))
           /\ AgeTable(t).used = t.used
<1>1. ASSUME NEW j \in Slots
      PROVE  SamePacket(t.info[j], AgeTable(t).info[j])
  <2>1. t.info[j] \in SlotType
    BY DEF Tables
  <2>2. QED
    BY <2>1 DEF AgeTable, SamePacket, SlotType
<1>2. QED
  BY <1>1 DEF KeepsPackets, AgeTable, Live
=============================================================================

------------------------------ MODULE ReadTable -----------------------------
(***************************************************************************)
(* The table of partly received packets of a PacketHandler: the slots      *)
(* m_ReadPacketInfos, the buffer m_ReadBuffer they point into and          *)
(* m_UsedReadBufferSize, as one value                                      *)
(*   [info : slot -> slot record, used : Nat, mem : address -> cell]       *)
(* and the operations on it as operators from tables to tables.            *)
(*                                                                         *)
(* A packet is what one call of allocateWritePacket at some sender made: it*)
(* has an id (two packets may have the same), a size and contents.  A cell *)
(* of the buffer holds Junk or <<p, rev, c>>: payload unit c of packet p   *)
(* as it was in revision rev.                                              *)
(***************************************************************************)
EXTENDS PacketFormat, PacketBuffer

CONSTANTS Packets,           \* packets any peer sends to this handler
          IdOf,              \* [Packets -> ids]
          SizeOf,            \* [ids -> sizes]
          NoId,              \* m_ID = 0: the slot is free
          Junk,              \* contents nobody has written
          MaxRev,            \* highest revision a peer sends (12 bits)
          MaxReadPackets,    \* number of slots
          ReadTimeout        \* m_ReadTimeout in ticks

Ids == { IdOf[p] : p \in Packets }

(***************************************************************************)
(* The sender never puts an empty packet on the wire (it has no section),  *)
(* and two packets that share an id are taken to share their size: what    *)
(* the code does with headers that contradict each other is not modelled.  *)
(***************************************************************************)
ASSUME ReadTableAssumption ==
    /\ NoId \notin Ids
    /\ SizeOf \in [Ids -> Nat \ {0}]
    /\ Junk \notin Packets \X Nat \X Nat
    /\ MaxRev \in Nat
    /\ MaxReadPackets \in Nat
    /\ ReadTimeout \in Nat \ {0}

Slots == 0 .. MaxReadPackets - 1

Rev == 0 .. MaxRev

Cell == (Packets \X Rev \X Nat) \union {Junk}

\* A m_Time that was never set, else the ticks since then, counted up to the
\* timeout.
Untimed == -1
Age == 0 .. ReadTimeout

FreeSlot == [id |-> NoId, rev |-> 0, start |-> NoStart, size |-> 0,
             bits |-> {}, time |-> Untimed]

EmptyTable == [info |-> [i \in Slots |-> FreeSlot],
               used |-> ScratchSize,
               mem  |-> [a \in Address |-> Junk]]

Live(t) == { i \in Slots : t.info[i].id # NoId }

HasPacket(t, id) == \E i \in Slots : t.info[i].id = id

\* Every lookup takes the first slot with the id.
IsFirst(t, i, id) == /\ t.info[i].id = id
                     /\ \A j \in Slots : j < i => t.info[j].id # id

AvailableReadPackets(t) == Slots \ Live(t)

AvailableReadPacketSize(t) == BufferSize - t.used

\* Variant: any size is accepted while there is a free slot.
CanAllocateAnySize(t, size) == AvailableReadPackets(t) # {}

CanAllocate(t, size) == /\ AvailableReadPackets(t) # {}
                        /\ size <= AvailableReadPacketSize(t)

\* allocateReadPacket in slot i, the first free one.
AllocateReadPacket(t, i, id, size, rev) ==
    [info |-> [t.info EXCEPT ![i] = [id |-> id, rev |-> rev, start |-> t.used,
                                     size |-> size, bits |-> InitialBits(size),
                                     time |-> Untimed]],
     used |-> t.used + size,
     mem  |-> t.mem]

\* Slot j once the packet of slot i has been taken out of the buffer.
ShiftedSlot(t, j, i) ==
    [t.info[j] EXCEPT !.start = ShiftedStart(t.info[j].start,
                                             t.info[i].start, t.info[i].size)]

\* Variant: the freed cells can be allocated again.
FreeReadPacketReclaiming(t, i) ==
    [info |-> [j \in Slots |-> IF j = i THEN FreeSlot ELSE ShiftedSlot(t, j, i)],
     used |-> t.used - t.info[i].size,
     mem  |-> CloseGap(t.mem, t.info[i].start, t.info[i].size)]

\* freeReadPacket of slot i.  used keeps counting the packet.
FreeReadPacket(t, i) ==
    [info |-> [j \in Slots |-> IF j = i THEN FreeSlot
                                        ELSE ShiftedSlot(t, j, i)],
     used |-> t.used,
     mem  |-> CloseGap(t.mem, t.info[i].start, t.info[i].size)]

\* receivedSection with a higher revision: the packet of slot i gives up its
\* place and takes a new one of the same size behind all others.
CanRevise(t, i) == t.info[i].size <= AvailableReadPacketSize(t)

\* Variants: the new place is not counted as used; the padding is put back.
ReviseReadPacketUncounted(t, i, rev) ==
    [info |-> [j \in Slots |->
                  IF j = i
                  THEN [t.info[i] EXCEPT !.rev = rev, !.start = t.used, !.bits = {}]
                  ELSE ShiftedSlot(t, j, i)],
     used |-> t.used,
     mem  |-> CloseGap(t.mem, t.info[i].start, t.info[i].size)]
ReviseReadPacketPadded(t, i, rev) ==
    [info |-> [j \in Slots |->
                  IF j = i
                  THEN [t.info[i] EXCEPT !.rev = rev, !.start = t.used,
                                         !.bits = InitialBits(t.info[i].size)]
                  ELSE ShiftedSlot(t, j, i)],
     used |-> t.used + t.info[i].size,
     mem  |-> CloseGap(t.mem, t.info[i].start, t.info[i].size)]

ReviseReadPacket(t, i, rev) ==
    [info |-> [j \in Slots |->
                  IF j = i
                  THEN [t.info[i] EXCEPT !.rev = rev, !.start = t.used,
                                         !.bits = {}]
                  ELSE ShiftedSlot(t, j, i)],
     used |-> t.used + t.info[i].size,
     mem  |-> CloseGap(t.mem, t.info[i].start, t.info[i].size)]

\* hasHandledSection for the packet of slot i.  A newer revision is looked up
\* in the bitmap of the old one.
HasHandledSection(t, i, index, rev) ==
    \/ rev < t.info[i].rev
    \/ OutOfRange(t.info[i].size, index)
    \/ index \in t.info[i].bits

\* Where receivedSection writes a section of the packet in slot.
SectionRange(slot, index) ==
    LET first == slot.start + SectionOffset(index)
    IN  first .. first + SectionLength(index, slot.size) - 1

\* Variant: the section does not restart the timeout.
StoreSectionUntimed(t, i, p, index, rev) ==
    [info |-> [t.info EXCEPT
                  ![i] = [t.info[i] EXCEPT !.bits = @ \union {index}]],
     used |-> t.used,
     mem  |-> [a \in Address |->
                  IF a \in SectionRange(t.info[i], index)
                  THEN <<p, rev, a - t.info[i].start>>
                  ELSE t.mem[a]]]

\* The rest of receivedSection: mark the section, restart the timeout, copy
\* the payload.
StoreSection(t, i, p, index, rev) ==
    [info |-> [t.info EXCEPT
                  ![i] = [t.info[i] EXCEPT !.bits = @ \union {index}, !.time = 0]],
     used |-> t.used,
     mem  |-> [a \in Address |->
                  IF a \in SectionRange(t.info[i], index)
                  THEN <<p, rev, a - t.info[i].start>>
                  ELSE t.mem[a]]]

\* receivedSection of a section of the revision in slot i.  An index past the
\* last section counts as received: nothing is marked, timed or copied.
ReceivedSection(t, i, p, index, rev) ==
    IF OutOfRange(t.info[i].size, index)
    THEN t
    ELSE StoreSection(t, i, p, index, rev)

ReadPacketDone(t, i) == BitsDone(t.info[i].bits, t.info[i].size)

\* What getReadPacket gives the callback: the cells of the packet in slot i.
Contents(t, i) ==
    [c \in 1 .. t.info[i].size |-> t.mem[t.info[i].start + c - 1]]

\* One tick on every packet that has a time.
AgeTable(t) ==
    [info |-> [i \in Slots |-> IF t.info[i].time \in 0 .. ReadTimeout - 1
                               THEN [t.info[i] EXCEPT !.time = @ + 1]
                               ELSE t.info[i]],
     used |-> t.used,
     mem  |-> t.mem]

-----------------------------------------------------------------------------
(***************************************************************************)
(* What a table should always look like.                                   *)
(***************************************************************************)
SlotType == [id : Ids \union {NoId}, rev : Rev, start : Word, size : Nat,
             bits : SUBSET Nat, time : Age \union {Untimed}]

Tables == [info : [Slots -> SlotType],
           used : ScratchSize .. BufferSize,
           mem  : [Address -> Cell]]

\* Packets lie behind the scratch area, inside what is used, with the size
\* their senders announced.
InBounds(t) ==
    \A i \in Live(t) :
        /\ ScratchSize <= t.info[i].start
        /\ t.info[i].start + t.info[i].size <= t.used
        /\ t.info[i].size = SizeOf[t.info[i].id]

\* No two packets share a cell.
RegionsDisjoint(t) ==
    \A i, j \in Live(t) :
        i # j => \/ t.info[i].start + t.info[i].size <= t.info[j].start
                 \/ t.info[j].start + t.info[j].size <= t.info[i].start

Layout(t) == InBounds(t) /\ RegionsDisjoint(t)

\* One slot per packet id.
UniqueIds(t) ==
    \A i, j \in Live(t) : t.info[i].id = t.info[j].id => i = j

\* A cell holds unit c of revision rev of some packet with this id.
Genuine(cell, id, rev, c) ==
    \E p \in Packets : IdOf[p] = id /\ cell = <<p, rev, c>>

\* The sections marked as received are in the buffer, where the packet is
\* now, whatever was freed or moved since they came.
ReceivedDataIntact(t) ==
    \A i \in Live(t) :
        \A k \in t.info[i].bits \ InitialBits(t.info[i].size) :
            \A a \in SectionRange(t.info[i], k) :
                Genuine(t.mem[a], t.info[i].id, t.info[i].rev,
                        a - t.info[i].start)

\* The inductive invariant of the table.
TableInv(t) ==
    /\ t \in Tables
    /\ Layout(t)
    /\ UniqueIds(t)
    /\ ReceivedDataIntact(t)
=============================================================================

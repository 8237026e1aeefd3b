------------------------------ MODULE WriteTable ----------------------------
(***************************************************************************)
(* The table of outgoing datagrams of a PacketHandler: the slots           *)
(* m_WritePacketInfos, the buffer m_WriteBuffer and m_UsedWriteBufferSize, *)
(* as one value [info, used, mem], and the operations on it.               *)
(*                                                                         *)
(* A slot holds a packet of the application (type Normal, with a region of *)
(* the buffer) or an answer to a peer (Acknowledge, Reject, MaxSize, with  *)
(* no region: m_Start and m_Size are left as the free slot had them).  The *)
(* bitmap m_Bits of a write slot is left out: acknowledgements set bits in *)
(* it, and only freeWritePacket reads them, as a pointer (UndefinedFree).  *)
(* A cell of the buffer holds Junk or <<p, c>>, unit c of what the         *)
(* application wrote for its packet p.                                     *)
(***************************************************************************)
EXTENDS PacketFormat, PacketBuffer

CONSTANTS Outgoing,          \* packets the application may send
          OutSize,           \* [Outgoing -> sizes]
          OwnIds,            \* ids newPacketID may draw
          PeerIds,           \* ids of the packets peers send here
          NoId,              \* m_ID = 0
          Peers,             \* endpoints
          NoEndpoint,        \* an endpoint that was never set
          Junk,
          MaxIndex,          \* highest section index on the wire (20 bits)
          MaxRev,            \* highest revision on the wire (12 bits)
          MaxWritePackets,
          WriteTimeout       \* m_WriteTimeout in ticks

Ids == OwnIds \union PeerIds

ASSUME WriteTableAssumption ==
    /\ NoId \notin Ids
    /\ OutSize \in [Outgoing -> Nat]
    /\ NoEndpoint \notin Peers
    /\ Junk \notin Outgoing \X Nat
    /\ MaxIndex \in Nat
    /\ MaxRev \in Nat
    /\ MaxWritePackets \in Nat \ {0}
    /\ WriteTimeout \in Nat \ {0}

Slots == 0 .. MaxWritePackets - 1

Cell == (Outgoing \X Nat) \union {Junk}

Answers == {"Acknowledge", "Reject", "MaxSize"}

Untimed == -1
Age == 0 .. WriteTimeout

\* What freeWritePacket leaves in a slot.
FreeSlot == [type |-> "Normal", id |-> NoId, index |-> 0, rev |-> 0,
             start |-> NoStart, size |-> 0, to |-> NoEndpoint,
             ready |-> FALSE, time |-> Untimed]

EmptyTable == [info |-> [i \in Slots |-> FreeSlot],
               used |-> ScratchSize,
               mem  |-> [a \in Address |-> Junk]]

Live(t) == { i \in Slots : t.info[i].id # NoId }

\* Every lookup takes the first slot with the id.
IsFirst(t, i, id) == /\ t.info[i].id = id
                     /\ \A j \in Slots : j < i => t.info[j].id # id

\* hasUsedPacketID: m_UsedPacketIDs is never filled, so only the slots count.
HasUsedPacketID(t, id) == \E i \in Slots : t.info[i].id = id

AvailableWritePackets(t) == Slots \ Live(t)

AvailableWritePacketSize(t) == BufferSize - t.used

\* Variant: any size is accepted while there is a free slot.
CanAllocateAnySize(t, size) == AvailableWritePackets(t) # {}

CanAllocate(t, size) == /\ AvailableWritePackets(t) # {}
                        /\ size <= AvailableWritePacketSize(t)

SetSlot(t, i, slot) == [info |-> [t.info EXCEPT ![i] = slot],
                        used |-> t.used,
                        mem  |-> t.mem]

\* allocateWritePacket in slot i, the first free one.  Variant: the packet is
\* ready from the start.
AllocateWritePacketReady(t, i, id, size) ==
    [info |-> [t.info EXCEPT ![i] = [FreeSlot EXCEPT !.id = id, !.start = t.used,
                                                     !.size = size, !.ready = TRUE]],
     used |-> t.used + size,
     mem  |-> t.mem]

AllocateWritePacket(t, i, id, size) ==
    [info |-> [t.info EXCEPT ![i] = [FreeSlot EXCEPT !.id = id, !.start = t.used,
                                                     !.size = size]],
     used |-> t.used + size,
     mem  |-> t.mem]

\* acknowledgePacket, rejectPacket, sendMaxSizePacket: an answer in the first
\* free slot, at once ready to be sent.  Variant: with the time it was asked for.
AnswerSlotTimed(slot, answer) ==
    [slot EXCEPT !.type = answer.type, !.id = answer.id,
                 !.index = answer.index, !.rev = answer.rev, !.to = answer.to,
                 !.ready = TRUE, !.time = 0]

AnswerSlot(slot, answer) ==
    [slot EXCEPT !.type = answer.type, !.id = answer.id,
                 !.index = answer.index, !.rev = answer.rev, !.to = answer.to,
                 !.ready = TRUE, !.time = Untimed]

\* setPacketEndpoint and markWritePacketReady: the first slot with the id, if
\* there is one.  Variant: the first slot in use.
WithEndpointFirst(t, id, to) ==
    [t EXCEPT !.info =
        [i \in Slots |-> IF i \in Live(t) /\ \A j \in Live(t) : i <= j
                         THEN [t.info[i] EXCEPT !.to = to]
                         ELSE t.info[i]]]

WithEndpoint(t, id, to) ==
    [t EXCEPT !.info = [i \in Slots |-> IF IsFirst(t, i, id)
                                        THEN [t.info[i] EXCEPT !.to = to]
                                        ELSE t.info[i]]]
WithReady(t, id) ==
    [t EXCEPT !.info = [i \in Slots |-> IF IsFirst(t, i, id)
                                        THEN [t.info[i] EXCEPT !.ready = TRUE]
                                        ELSE t.info[i]]]

\* The application's memcpy into the region of slot i.
FillPacket(t, i, p) ==
    [info |-> t.info,
     used |-> t.used,
     mem  |-> [a \in Address |->
                  IF t.info[i].start <= a /\ a < t.info[i].start + t.info[i].size
                  THEN <<p, a - t.info[i].start>>
                  ELSE t.mem[a]]]

\* Slot j once the packet of slot i has been taken out of the buffer.
ShiftedSlot(t, j, i) ==
    [t.info[j] EXCEPT !.start = ShiftedStart(t.info[j].start,
                                             t.info[i].start, t.info[i].size)]

\* freeWritePacket moves memory from wherever m_Start points.  For an answer
\* that is outside the buffer.
IsWildMove(t, i) == t.info[i].start > BufferSize

\* For a packet too large for the word it deletes m_BitsDynamic, which was never
\* allocated: the word next to bytes that were never written.
UndefinedFree(t, i) == IsWildMove(t, i) \/ ~UsesWord(t.info[i].size)

\* freeWritePacket of slot i, where the program goes on.  A wild move then moves
\* memory onto itself (the size of an answer is 0).
FreeWritePacket(t, i) ==
    [info |-> [j \in Slots |-> IF j = i THEN FreeSlot ELSE ShiftedSlot(t, j, i)],
     used |-> t.used,
     mem  |-> CloseGap(t.mem, t.info[i].start, t.info[i].size)]

\* One tick on every packet that has a time.
AgeTable(t) ==
    [info |-> [i \in Slots |-> IF t.info[i].time \in 0 .. WriteTimeout - 1
                               THEN [t.info[i] EXCEPT !.time = @ + 1]
                               ELSE t.info[i]],
     used |-> t.used,
     mem  |-> t.mem]

\* The datagrams of one visit of the send loop to slot i: every section of a
\* packet, or the one datagram of an answer.
SectionDatagram(t, i, index) ==
    [type |-> "Normal", id |-> t.info[i].id, index |-> index,
     rev |-> t.info[i].rev, size |-> t.info[i].size, to |-> t.info[i].to,
     data |-> [c \in 1 .. SectionLength(index, t.info[i].size) |->
                  t.mem[t.info[i].start + SectionOffset(index) + c - 1]]]

AnswerDatagram(slot) ==
    [type |-> slot.type, id |-> slot.id, index |-> slot.index, rev |-> slot.rev,
     to |-> slot.to]

DatagramsOf(t, i) ==
    IF t.info[i].type = "Normal"
    THEN { SectionDatagram(t, i, k) :
             k \in 0 .. GetRequiredSections(t.info[i].size) - 1 }
    ELSE { AnswerDatagram(t.info[i]) }

\* What is sent before a write closes the socket: the sections up to the one
\* that fails, nothing of an answer.
CutShort(t, i) ==
    IF t.info[i].type = "Normal"
    THEN { { SectionDatagram(t, i, k) : k \in 0 .. failing - 1 } :
             failing \in 0 .. GetRequiredSections(t.info[i].size) - 1 }
    ELSE { {} }

-----------------------------------------------------------------------------
SlotType == [type : {"Normal"} \union Answers, id : Ids \union {NoId},
             index : 0 .. MaxIndex, rev : 0 .. MaxRev, start : Word, size : Nat,
             to : Peers \union {NoEndpoint}, ready : BOOLEAN,
             time : Age \union {Untimed}]

Tables == [info : [Slots -> SlotType],
           used : ScratchSize .. BufferSize,
           mem  : [Address -> Cell]]

\* The slots that own a region of the buffer.
Packets(t) == { i \in Live(t) : t.info[i].type = "Normal" }

InBounds(t) ==
    \A i \in Packets(t) : /\ ScratchSize <= t.info[i].start
                          /\ t.info[i].start + t.info[i].size <= t.used

RegionsDisjoint(t) ==
    \A i, j \in Packets(t) :
        i # j => \/ t.info[i].start + t.info[i].size <= t.info[j].start
                 \/ t.info[j].start + t.info[j].size <= t.info[i].start

Layout(t) == InBounds(t) /\ RegionsDisjoint(t)
=============================================================================

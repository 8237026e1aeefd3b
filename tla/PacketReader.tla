---------------------------- MODULE PacketReader ----------------------------
(***************************************************************************)
(* The receiving side of ReliableUDP::PacketHandler: what updatePackets    *)
(* does to the read table, from the expiry of stalled packets to the       *)
(* datagrams it drains from the socket, with allocateReadPacket,           *)
(* hasHandledSection, receivedSection, readPacketDone, the callback and    *)
(* freeReadPacket.  One call of updatePackets is a sequence of steps: a    *)
(* call, one step per slot of the expiry loop, one step per datagram, the  *)
(* end of the drain.  Datagrams are any section of any packet a peer may   *)
(* send, in any order, any number of times or never: the network is the    *)
(* weakest one UDP allows.  The index of a packet beyond the word may also *)
(* be one the packet does not have, for which the code has branches of its *)
(* own.  Datagrams shorter than a header or without the magic number       *)
(* change nothing and are left out.                                        *)
(***************************************************************************)
EXTENDS ReadTable, RotatingArray, Sequences, FiniteSets

VARIABLES
    bound,       \* m_Socket.isBound()
    pc,          \* where in updatePackets: "idle", "expire", "drain"
    cursor,      \* i of the expiry loop
    table,       \* the read table
    handled,     \* m_HandledPacketIDs
    reply,       \* the acknowledgement or rejection the last step asked for
    delivered    \* history: what the callback was called with

vars == <<bound, pc, cursor, table, handled, reply, delivered>>

\* The Normal datagrams on the wire: section index of packet p in revision rev.
Sections(p) == 0 .. GetRequiredSections(SizeOf[IdOf[p]]) - 1

\* The first index past the last section stands for all of them.
Strays(p) ==
    { k \in {GetRequiredSections(SizeOf[IdOf[p]])} : OutOfRange(SizeOf[IdOf[p]], k) }

Datagrams ==
    UNION { [pkt : {p}, index : Sections(p) \union Strays(p), rev : Rev] : p \in Packets }

NoReply == [type |-> "none"]
Acknowledge(p, index, rev) ==
    [type |-> "ack", pkt |-> p, index |-> index, rev |-> rev]
Reject(p, rev) == [type |-> "reject", pkt |-> p, rev |-> rev]

Replies == {NoReply}
             \union { Acknowledge(d.pkt, d.index, d.rev) : d \in Datagrams }
             \union { Reject(d.pkt, d.rev) : d \in Datagrams }

Init ==
    /\ bound = FALSE
    /\ pc = "idle"
    /\ cursor = 0
    /\ table = EmptyTable
    /\ handled \in NewRotatingArrays(Ids \union {NoId})
    /\ reply = NoReply
    /\ delivered = << >>

-----------------------------------------------------------------------------
\* bind or connect of the socket.
Bind ==
    /\ ~bound
    /\ bound' = TRUE
    /\ UNCHANGED <<pc, cursor, table, handled, reply, delivered>>

\* The application calls updatePackets; the clock is read here.
Update ==
    /\ pc = "idle"
    /\ bound
    /\ pc' = "expire"
    /\ cursor' = 0
    /\ reply' = NoReply
    /\ UNCHANGED <<bound, table, handled, delivered>>

\* The expiry loop frees by id: the first slot with the id of the slot it is at.
ExpireNext ==
    /\ pc = "expire"
    /\ cursor < MaxReadPackets
    /\ cursor' = cursor + 1
    /\ LET slot == table.info[cursor]
       IN  IF slot.id # NoId /\ slot.time = ReadTimeout
           THEN \E i \in Slots : /\ IsFirst(table, i, slot.id)
                                 /\ table' = FreeReadPacket(table, i)
           ELSE table' = table
    /\ UNCHANGED <<bound, pc, handled, reply, delivered>>

ExpireDone ==
    /\ pc = "expire"
    /\ cursor = MaxReadPackets
    /\ pc' = "drain"
    /\ cursor' = 0
    /\ UNCHANGED <<bound, table, handled, reply, delivered>>

-----------------------------------------------------------------------------
(***************************************************************************)
(* One turn of the drain loop on a Normal datagram.                        *)
(***************************************************************************)

\* Variant: the packet keeps its slot after the callback.
FinishKeepingSlot(t, i, d) ==
    /\ reply' = Acknowledge(d.pkt, d.index, d.rev)
    /\ table' = t
    /\ IF ReadPacketDone(t, i)
       THEN /\ handled' = Insert(handled, t.info[i].id)
            /\ delivered' = Append(delivered, [id   |-> t.info[i].id,
                                               rev  |-> t.info[i].rev,
                                               data |-> Contents(t, i)])
       ELSE UNCHANGED <<handled, delivered>>

\* receivedSection has accepted the section for slot i of t: acknowledge it,
\* and hand the packet to the callback and free it if all of it is there.
Finish(t, i, d) ==
    /\ reply' = Acknowledge(d.pkt, d.index, d.rev)
    /\ IF ReadPacketDone(t, i)
       THEN /\ handled' = Insert(handled, t.info[i].id)
            /\ delivered' = Append(delivered, [id   |-> t.info[i].id,
                                               rev  |-> t.info[i].rev,
                                               data |-> Contents(t, i)])
            /\ table' = FreeReadPacket(t, i)
       ELSE /\ table' = t
            /\ UNCHANGED <<handled, delivered>>

\* hasHandledPacketID: the datagram is dropped without an answer.
DropHandled(d) ==
    /\ Contains(handled, IdOf[d.pkt])
    /\ reply' = NoReply
    /\ UNCHANGED <<table, handled, delivered>>

\* The first section of a packet to arrive allocates its slot ...
Open(d) ==
    LET id == IdOf[d.pkt]
    IN  /\ ~Contains(handled, id)
        /\ ~HasPacket(table, id)
        /\ CanAllocate(table, SizeOf[id])
        /\ \E i \in Slots :
              /\ IsFirst(table, i, NoId)
              /\ Finish(ReceivedSection(
                          AllocateReadPacket(table, i, id, SizeOf[id], d.rev),
                          i, d.pkt, d.index, d.rev),
                        i, d)

\* Variant: a packet there is no room for is acknowledged.
RefuseWithAcknowledge(d) ==
    LET id == IdOf[d.pkt]
    IN  /\ ~Contains(handled, id)
        /\ ~HasPacket(table, id)
        /\ ~CanAllocate(table, SizeOf[id])
        /\ reply' = Acknowledge(d.pkt, d.index, d.rev)
        /\ UNCHANGED <<table, handled, delivered>>

\* ... or is rejected when no slot or not enough of the buffer is left.
Refuse(d) ==
    LET id == IdOf[d.pkt]
    IN  /\ ~Contains(handled, id)
        /\ ~HasPacket(table, id)
        /\ ~CanAllocate(table, SizeOf[id])
        /\ reply' = Reject(d.pkt, d.rev)
        /\ UNCHANGED <<table, handled, delivered>>

\* A section that is there already, or of an older revision.
Ignore(d) ==
    LET id == IdOf[d.pkt]
    IN  /\ ~Contains(handled, id)
        /\ \E i \in Slots : /\ IsFirst(table, i, id)
                            /\ HasHandledSection(table, i, d.index, d.rev)
        /\ reply' = NoReply
        /\ UNCHANGED <<table, handled, delivered>>

\* A further section of the revision being received.
Continue(d) ==
    LET id == IdOf[d.pkt]
    IN  /\ ~Contains(handled, id)
        /\ \E i \in Slots :
              /\ IsFirst(table, i, id)
              /\ ~HasHandledSection(table, i, d.index, d.rev)
              /\ d.rev = table.info[i].rev
              /\ Finish(ReceivedSection(table, i, d.pkt, d.index, d.rev), i, d)

\* A section of a newer revision: what was received of the old one is given
\* up, and the packet as a whole if the buffer cannot hold it a second time.
Revise(d) ==
    LET id == IdOf[d.pkt]
    IN  /\ ~Contains(handled, id)
        /\ \E i \in Slots :
              /\ IsFirst(table, i, id)
              /\ ~HasHandledSection(table, i, d.index, d.rev)
              /\ d.rev > table.info[i].rev
              /\ IF CanRevise(table, i)
                 THEN Finish(ReceivedSection(ReviseReadPacket(table, i, d.rev),
                                          i, d.pkt, d.index, d.rev),
                             i, d)
                 ELSE /\ table' = FreeReadPacket(table, i)
                      /\ reply' = Reject(d.pkt, d.rev)
                      /\ UNCHANGED <<handled, delivered>>

Receive(d) ==
    /\ pc = "drain"
    /\ \/ DropHandled(d)
       \/ Open(d)
       \/ Refuse(d)
       \/ Ignore(d)
       \/ Continue(d)
       \/ Revise(d)
    /\ UNCHANGED <<bound, pc, cursor>>

\* readFrom returns 0: nothing is left to read, or the socket failed and has
\* closed itself.
DrainDone ==
    /\ pc = "drain"
    /\ pc' = "idle"
    /\ bound' \in {bound, FALSE}
    /\ reply' = NoReply
    /\ UNCHANGED <<cursor, table, handled, delivered>>

\* Time passes, except between the reading of the clock and the end of the
\* expiry loop: there only the time that was read counts.
Tick ==
    /\ pc # "expire"
    /\ table' = AgeTable(table)
    /\ UNCHANGED <<bound, pc, cursor, handled, reply, delivered>>

Next ==
    \/ Bind
    \/ Update
    \/ ExpireNext
    \/ ExpireDone
    \/ \E d \in Datagrams : Receive(d)
    \/ DrainDone
    \/ Tick

Spec == Init /\ [][Next]_vars

(***************************************************************************)
(* The application keeps calling updatePackets while the socket is bound,  *)
(* each call ends (the socket runs empty now and then), and the clock does *)
(* not stop.  No datagram has to arrive.                                   *)
(***************************************************************************)
Fairness ==
    /\ WF_vars(Update)
    /\ WF_vars(ExpireNext)
    /\ WF_vars(ExpireDone)
    /\ WF_vars(DrainDone)
    /\ SF_vars(Tick)

FairSpec == Spec /\ Fairness
-----------------------------------------------------------------------------
(***************************************************************************)
(* Properties.                                                             *)
(***************************************************************************)

\* What the variables hold.
TypeOK ==
    /\ bound \in BOOLEAN
    /\ pc \in {"idle", "expire", "drain"}
    /\ cursor \in 0 .. MaxReadPackets
    /\ table \in Tables
    /\ handled \in RotatingArrays(Ids \union {NoId})
    /\ reply \in Replies
    /\ delivered \in Seq([id : Ids, rev : Rev, data : Seq(Cell)])

\* However packets are allocated, completed, expired, revised and moved
\* (freeReadPacket and receivedSection shift every later packet), the slots in
\* use describe disjoint regions of the buffer, behind the scratch area.
TableLayout == Layout(table)

\* Compaction never separates a slot from its data: each section marked in a
\* bitmap is in the buffer at the place the slot now points to.
DataIntact == ReceivedDataIntact(table)

\* An id has one place at most: a slot, where every operation finds it by
\* taking the first with that id, or m_HandledPacketIDs once the packet has been
\* handed to the callback.  No late duplicate opens a second slot or reopens
\* one while the ring remembers the id.
OneHomePerId ==
    /\ UniqueIds(table)
    /\ \A i \in Live(table) : ~Contains(handled, table.info[i].id)

\* The callback sees every unit of a packet, each from a datagram of one
\* revision of a packet with that id.
DeliveredWhole ==
    \A n \in DOMAIN delivered :
        LET packet == delivered[n]
        IN  /\ Len(packet.data) = SizeOf[packet.id]
            /\ \A c \in DOMAIN packet.data :
                   Genuine(packet.data[c], packet.id, packet.rev, c - 1)

\* A packet id is handed to the callback again only after RingSize other
\* deliveries have pushed it out of m_HandledPacketIDs.
RedeliveryWindow ==
    \A m, n \in DOMAIN delivered :
        m < n /\ delivered[m].id = delivered[n].id => n - m > RingSize

\* After the step the section is marked in a slot of its packet, or the step
\* handed the packet to the callback.
Kept(id, rev, k) ==
    \/ \E i \in Live(table') : /\ table'.info[i].id = id
                               /\ table'.info[i].rev = rev
                               /\ k \in table'.info[i].bits
    \/ \E n \in DOMAIN delivered' \ DOMAIN delivered :
          delivered'[n].id = id /\ delivered'[n].rev = rev

\* The step takes away the packet of slot i because it has timed out, or what
\* was received of it because a newer revision has been accepted or rejected.
GivenUp(i) ==
    \/ pc = "expire" /\ table.info[i].time = ReadTimeout
    \/ /\ reply'.type \in {"ack", "reject"}
       /\ IdOf[reply'.pkt] = table.info[i].id
       /\ reply'.rev > table.info[i].rev

\* A sender may forget a section once it is acknowledged: the section is held
\* then, and stays while other packets come, move and go until its packet is
\* delivered or given up.  The one exception is an index the packet does not
\* have, which is acknowledged and held nowhere.
AcknowledgedKept ==
    [][/\ reply' # reply /\ reply'.type = "ack" =>
             \/ reply'.index \notin Sections(reply'.pkt)
             \/ Kept(IdOf[reply'.pkt], reply'.rev, reply'.index)
       /\ \A i \in Live(table) :
             \/ GivenUp(i)
             \/ \A k \in table.info[i].bits \ InitialBits(table.info[i].size) :
                   Kept(table.info[i].id, table.info[i].rev, k)]_vars

\* m_UsedReadBufferSize counts every packet ever allocated, so that all the
\* packets a handler delivers in its life have to fit its read buffer once.
TotalSize(packets) ==
    LET sum[n \in 0 .. Len(packets)] ==
            IF n = 0 THEN 0 ELSE sum[n - 1] + SizeOf[packets[n].id]
    IN  sum[Len(packets)]

LifetimeCapacity == TotalSize(delivered) <= table.used - ScratchSize

\* The sections still to come could complete the packet of this slot.
SectionsSuffice(slot) ==
    BitsDone(slot.bits \union 0 .. GetRequiredSections(slot.size) - 1, slot.size)

\* The padding of the bitmap of bytes is put at the wrong end: a packet too
\* large for the word whose sections do not fill the last byte is never
\* completed, whatever arrives.
PaddingStrands ==
    LET Stranded(id) == /\ ~UsesWord(SizeOf[id])
                        /\ GetRequiredSections(SizeOf[id]) % ByteBits # 0
    IN  /\ \A i \in Live(table) :
               Stranded(table.info[i].id) <=> ~SectionsSuffice(table.info[i])
        /\ \A n \in DOMAIN delivered : ~Stranded(delivered[n].id)

\* Whether the packet of a slot can be completed once revision rev of it has
\* been accepted: a newer revision clears the padding of the bitmap as well.
Completable(slot, rev) ==
    IF rev > slot.rev
    THEN GetRequiredSections(slot.size) = BitmapSize(slot.size)
    ELSE SectionsSuffice(slot)

\* A packet that has been revised is delivered only if its sections fill the
\* bitmap: a revision makes the packet completable exactly if they do, no other
\* step makes it more or less completable, and none delivers a packet that is
\* not, be it the step that revises it.
RevisionStrands ==
    [][\A i \in Live(table) :
          /\ i \in Live(table') =>
                (SectionsSuffice(table'.info[i])
                  <=> Completable(table.info[i], table'.info[i].rev))
          /\ \A n \in DOMAIN delivered' \ DOMAIN delivered :
                delivered'[n].id = table.info[i].id =>
                    Completable(table.info[i], delivered'[n].rev)]_vars

\* A slot opened by an index its packet does not have: no section is in it and
\* no timeout runs.
Idle(slot) == slot.time = Untimed /\ slot.bits = InitialBits(slot.size)

\* Every packet with a section in its slot leaves it, delivered or timed out,
\* or the socket has been closed.  An idle slot waits for a section for ever.
EverySlotReleased ==
    \A i \in Slots, x \in Ids :
        table.info[i].id = x /\ ~Idle(table.info[i])
            ~> table.info[i].id # x \/ ~bound

(***************************************************************************)
(* The receiving side implements PacketDelivery: a message is being        *)
(* received while a slot has its id, and the ids ignored are those in the  *)
(* elements of m_HandledPacketIDs that no delivery has overwritten yet.    *)
(***************************************************************************)
WholeMessages ==
    UNION { { [id   |-> id, rev |-> r,
               data |-> [c \in 1 .. SizeOf[id] |-> <<origin[c], r, c - 1>>]] :
                 r \in Rev,
                 origin \in [1 .. SizeOf[id] -> { p \in Packets : IdOf[p] = id }] } :
            id \in Ids }

Delivery == INSTANCE PacketDelivery WITH
    MessageIds <- Ids,
    Messages   <- WholeMessages,
    Window     <- RingSize,
    delivered  <- delivered,
    receiving  <- { table.info[i].id : i \in Live(table) },
    ignored    <- { handled.elems[k] : k \in { j \in Position : j >= Len(delivered) } }
                      \ {NoId}

\* Every step of the handler is a step of PacketDelivery or invisible to the
\* application: it gets whole messages only, one per step, no id twice within
\* RingSize deliveries, and an id stays ignored only until a delivery
\* overwrites the ring element that happened to hold it.
ImplementsDelivery == Delivery!Spec
=============================================================================

------------------------- MODULE PacketDeliveryProofs -----------------------
(***************************************************************************)
(* What PacketReader promises its application and its senders, for every   *)
(* value of the constants: whole packets, the window in which none is      *)
(* repeated, acknowledgements of what is held, and that every behaviour of *)
(* PacketReader is one of PacketDelivery.                                  *)
(***************************************************************************)
EXTENDS PacketReaderProofs, WellFoundedInduction

(***************************************************************************)
(* Every step either stores nothing (Quiet), or stores the section of one  *)
(* datagram (Stored) and then acknowledges and maybe delivers (Finish).    *)
(***************************************************************************)

\* Nothing is acknowledged between the reading of the clock and the drain.
Silence == pc = "expire" => reply = NoReply

\* At most one packet is missing, and it has been given up.
Quiet ==
    /\ UNCHANGED <<handled, delivered>>
    /\ table'.used = table.used
    /\ TableInv(table')
    /\ \/ Live(table') = Live(table)
       \/ \E i \in Live(table) : Live(table') = Live(table) \ {i} /\ GivenUp(i)
    /\ KeepsPackets(table, table', Live(table'))
    /\ reply'.type = "ack" => reply' = reply /\ Live(table') = Live(table)

\* The three ways for the section of datagram d to get into slot i of t.
Opened(t, i, d) ==
    /\ i \notin Live(table)
    /\ ~HasPacket(table, IdOf[d.pkt])
    /\ t.info[i].bits
         = InitialBits(t.info[i].size) \union Gained(t.info[i].size, d.index)
    /\ t.used = table.used + t.info[i].size

Continued(t, i, d) ==
    /\ i \in Live(table)
    /\ table.info[i].id = t.info[i].id
    /\ table.info[i].rev = t.info[i].rev
    /\ d.index \in Sections(d.pkt)
    /\ t.info[i].bits = table.info[i].bits \union {d.index}
    /\ t.used = table.used

Revised(t, i, d) ==
    /\ i \in Live(table)
    /\ table.info[i].id = t.info[i].id
    /\ table.info[i].rev < t.info[i].rev
    /\ d.index \in Sections(d.pkt)
    /\ t.info[i].bits = {d.index}
    /\ t.used = table.used + t.info[i].size

Stored(t, i, d) ==
    /\ TableInv(t)
    /\ i \in Live(t)
    /\ Live(t) = Live(table) \union {i}
    /\ KeepsPackets(table, t, Live(table) \ {i})
    /\ t.info[i].id = IdOf[d.pkt]
    /\ t.info[i].rev = d.rev
    /\ ~Contains(handled, t.info[i].id)
    /\ Opened(t, i, d) \/ Continued(t, i, d) \/ Revised(t, i, d)

LEMMA OpenStores ==
    ASSUME IInv, NEW d \in Datagrams, Open(d)
    PROVE  \E t \in Tables, i \in Slots : Stored(t, i, d) /\ Finish(t, i, d)
<1> DEFINE id == IdOf[d.pkt]
<1>1. /\ d.pkt \in Packets /\ id \in Ids /\ d.rev \in Rev /\ d.index \in Nat
  BY DatagramType
<1>2. /\ ~Contains(handled, id) /\ ~HasPacket(table, id)
      /\ CanAllocate(table, SizeOf[id])
  BY DEF Open
<1>3. PICK i \in Slots :
         /\ IsFirst(table, i, NoId)
         /\ Finish(ReceivedSection(
                     AllocateReadPacket(table, i, id, SizeOf[id], d.rev),
                     i, d.pkt, d.index, d.rev),
                   i, d)
  BY DEF Open
<1> DEFINE a == AllocateReadPacket(table, i, id, SizeOf[id], d.rev)
           t == ReceivedSection(a, i, d.pkt, d.index, d.rev)
<1>4. TableInv(table) /\ table \in Tables /\ i \in Slots \ Live(table)
  BY <1>3, LiveId DEF IInv, TableInv
<1>5. /\ TableInv(a)
      /\ Live(a) = Live(table) \union {i}
      /\ a.info[i].id = id /\ a.info[i].rev = d.rev
  BY <1>1, <1>2, <1>4, AllocatePreserves
<1>6. /\ KeepsPackets(table, a, Live(table))
      /\ a.info[i].bits = InitialBits(SizeOf[id])
      /\ a.used = table.used + SizeOf[id]
  BY <1>4, AllocateKeeps
<1> HIDE DEF a
<1>7. TableInv(t) /\ Live(t) = Live(a)
  BY <1>1, <1>5, ReceivedPreserves
<1>8. /\ KeepsPackets(a, t, Live(a) \ {i})
      /\ GainsSections(a.info[i], t.info[i], Gained(a.info[i].size, d.index))
      /\ t.used = a.used
  <2>1. a \in Tables /\ i \in Live(a)
    BY <1>5 DEF TableInv
  <2>2. QED
    BY <1>1, <1>5, <1>6, <2>1, ReceivedKeeps
<1> HIDE DEF t
<1>9. /\ t \in Tables /\ i \in Live(t)
      /\ t.info[i].id = id /\ t.info[i].rev = d.rev
      /\ t.info[i].size = SizeOf[id]
      /\ t.info[i].bits = InitialBits(SizeOf[id]) \union Gained(SizeOf[id], d.index)
  <2>1. a.info[i].size = SizeOf[id]
    BY <1>5 DEF TableInv, Layout, InBounds
  <2>2. QED
    BY <1>5, <1>6, <1>7, <1>8, <2>1 DEF TableInv, Layout, InBounds, GainsSections
<1>10. Live(a) \ {i} = Live(table) /\ Live(table) \ {i} = Live(table)
  BY <1>4, <1>5
<1>11. KeepsPackets(table, t, Live(table) \ {i})
  BY <1>6, <1>8, <1>10 DEF KeepsPackets, SamePacket
<1>12. Opened(t, i, d)
  BY <1>2, <1>4, <1>6, <1>8, <1>9 DEF Opened
<1>13. Stored(t, i, d)
  BY <1>2, <1>5, <1>7, <1>8, <1>9, <1>11, <1>12 DEF Stored
<1>14. Finish(t, i, d)
  BY <1>3 DEF t, a
<1>15. QED
  BY <1>9, <1>13, <1>14

\* hasHandledSection keeps an index the packet does not have from the others.
LEMMA HandledIsInRange ==
    ASSUME NEW d \in Datagrams, TableInv(table), NEW i \in Live(table),
           IdOf[d.pkt] = table.info[i].id,
           ~HasHandledSection(table, i, d.index, d.rev)
    PROVE  /\ d.index \in Sections(d.pkt)
           /\ Gained(table.info[i].size, d.index) = {d.index}
<1>1. table.info[i].size = SizeOf[IdOf[d.pkt]]
  BY DEF TableInv, Layout, InBounds
<1>2. ~OutOfRange(table.info[i].size, d.index)
  BY DEF HasHandledSection
<1>3. QED
  BY <1>1, <1>2, DatagramType DEF Gained

LEMMA ContinueStores ==
    ASSUME IInv, NEW d \in Datagrams, Continue(d)
    PROVE  \E t \in Tables, i \in Slots : Stored(t, i, d) /\ Finish(t, i, d)
<1>1. /\ d.pkt \in Packets /\ IdOf[d.pkt] \in Ids /\ d.rev \in Rev /\ d.index \in Nat
  BY DatagramType
<1>2. PICK i \in Slots :
         /\ IsFirst(table, i, IdOf[d.pkt])
         /\ ~HasHandledSection(table, i, d.index, d.rev)
         /\ d.rev = table.info[i].rev
         /\ Finish(ReceivedSection(table, i, d.pkt, d.index, d.rev), i, d)
  BY DEF Continue
<1> DEFINE t == ReceivedSection(table, i, d.pkt, d.index, d.rev)
<1>3. /\ TableInv(table) /\ table \in Tables
      /\ i \in Live(table) /\ IdOf[d.pkt] = table.info[i].id
  BY <1>1, <1>2, LiveId DEF IInv, TableInv, IsFirst
<1>4. TableInv(t) /\ Live(t) = Live(table)
  BY <1>1, <1>2, <1>3, ReceivedPreserves
<1>5. /\ KeepsPackets(table, t, Live(table) \ {i})
      /\ GainsSections(table.info[i], t.info[i], Gained(table.info[i].size, d.index))
      /\ t.used = table.used
  BY <1>1, <1>3, ReceivedKeeps
<1> HIDE DEF t
<1>6. ~Contains(handled, IdOf[d.pkt])
  BY DEF Continue
<1>7. Continued(t, i, d)
  <2>1. d.index \in Sections(d.pkt) /\ Gained(table.info[i].size, d.index) = {d.index}
    BY <1>2, <1>3, HandledIsInRange
  <2>2. QED
    BY <1>3, <1>5, <2>1 DEF Continued, GainsSections
<1>8. Stored(t, i, d)
  BY <1>2, <1>3, <1>4, <1>5, <1>6, <1>7 DEF Stored, GainsSections
<1>9. Finish(t, i, d)
  BY <1>2 DEF t
<1>10. QED
  BY <1>4, <1>8, <1>9 DEF TableInv

LEMMA ReviseStores ==
    ASSUME IInv, NEW d \in Datagrams, NEW i \in Slots,
           IsFirst(table, i, IdOf[d.pkt]), d.rev > table.info[i].rev,
           ~HasHandledSection(table, i, d.index, d.rev),
           CanRevise(table, i), ~Contains(handled, IdOf[d.pkt])
    PROVE  Stored(ReceivedSection(ReviseReadPacket(table, i, d.rev),
                               i, d.pkt, d.index, d.rev), i, d)
<1>1. /\ d.pkt \in Packets /\ IdOf[d.pkt] \in Ids /\ d.rev \in Rev /\ d.index \in Nat
  BY DatagramType
<1>2. TableInv(table) /\ i \in Live(table) /\ IdOf[d.pkt] = table.info[i].id
  BY <1>1, LiveId DEF IInv, TableInv, IsFirst
<1> DEFINE r == ReviseReadPacket(table, i, d.rev)
           t == ReceivedSection(r, i, d.pkt, d.index, d.rev)
<1>3. /\ TableInv(r)
      /\ Live(r) = Live(table)
      /\ r.info[i].rev = d.rev
      /\ r.info[i].id = table.info[i].id
  BY <1>1, <1>2, RevisePreserves
<1>4. /\ KeepsPackets(table, r, Live(table) \ {i})
      /\ r.info[i].bits = {}
      /\ r.used = table.used + table.info[i].size
  BY <1>1, <1>2, ReviseKeeps
<1> HIDE DEF r
<1>5. TableInv(t) /\ Live(t) = Live(r)
  BY <1>1, <1>2, <1>3, ReceivedPreserves
<1>6. /\ KeepsPackets(r, t, Live(r) \ {i})
      /\ GainsSections(r.info[i], t.info[i], Gained(r.info[i].size, d.index))
      /\ t.used = r.used
  <2>1. r \in Tables /\ i \in Live(r)
    BY <1>2, <1>3 DEF TableInv
  <2>2. QED
    BY <1>1, <1>4, <2>1, ReceivedKeeps
<1> HIDE DEF t
<1>7. /\ t.info[i].id = table.info[i].id /\ t.info[i].rev = d.rev
      /\ t.info[i].size = table.info[i].size
      /\ d.index \in Sections(d.pkt) /\ t.info[i].bits = {d.index}
  <2>1. r.info[i].size = table.info[i].size /\ t.info[i].size = table.info[i].size
    BY <1>2, <1>3, <1>5, <1>6 DEF TableInv, Layout, InBounds, GainsSections
  <2>2. d.index \in Sections(d.pkt) /\ Gained(r.info[i].size, d.index) = {d.index}
    BY <1>2, <2>1, HandledIsInRange
  <2>3. QED
    BY <1>3, <1>4, <1>6, <2>1, <2>2 DEF GainsSections
<1>8. KeepsPackets(table, t, Live(table) \ {i})
  BY <1>3, <1>4, <1>6 DEF KeepsPackets, SamePacket
<1>9. Revised(t, i, d)
  BY <1>2, <1>3, <1>4, <1>6, <1>7, DatagramType DEF Revised
<1>10. Stored(t, i, d)
  BY <1>2, <1>3, <1>5, <1>7, <1>8, <1>9 DEF Stored
<1>11. QED
  BY <1>10 DEF t, r

\* The table loses one packet, and no acknowledgement is sent.
LEMMA FreeIsQuiet ==
    ASSUME IInv, NEW i \in Live(table), table' = FreeReadPacket(table, i),
           UNCHANGED <<handled, delivered>>, reply'.type # "ack", GivenUp(i)
    PROVE  Quiet
<1>1. TableInv(table)
  BY DEF IInv
<1>2. /\ TableInv(table')
      /\ Live(table') = Live(table) \ {i}
  BY <1>1, FreePreserves
<1>3. /\ KeepsPackets(table, table', Live(table) \ {i})
      /\ table'.used = table.used
  BY <1>1, FreeKeeps
<1>4. QED
  BY <1>2, <1>3 DEF Quiet

LEMMA SameTableIsQuiet ==
    ASSUME IInv, UNCHANGED <<table, handled, delivered>>,
           reply'.type = "ack" => reply' = reply
    PROVE  Quiet
<1>1. KeepsPackets(table, table', Live(table'))
  BY DEF KeepsPackets, SamePacket
<1>2. QED
  BY <1>1 DEF Quiet, IInv

LEMMA ReviseCases ==
    ASSUME IInv, NEW d \in Datagrams, Revise(d)
    PROVE  \/ Quiet
           \/ \E t \in Tables, i \in Slots : Stored(t, i, d) /\ Finish(t, i, d)
<1>1. PICK i \in Slots :
         /\ IsFirst(table, i, IdOf[d.pkt])
         /\ ~HasHandledSection(table, i, d.index, d.rev)
         /\ d.rev > table.info[i].rev
         /\ IF CanRevise(table, i)
            THEN Finish(ReceivedSection(ReviseReadPacket(table, i, d.rev),
                                     i, d.pkt, d.index, d.rev),
                        i, d)
            ELSE /\ table' = FreeReadPacket(table, i)
                 /\ reply' = Reject(d.pkt, d.rev)
                 /\ UNCHANGED <<handled, delivered>>
  BY DEF Revise
<1>2. CASE CanRevise(table, i)
  <2> DEFINE t == ReceivedSection(ReviseReadPacket(table, i, d.rev),
                               i, d.pkt, d.index, d.rev)
  <2>1. Finish(t, i, d)
    BY <1>1, <1>2
  <2>2. Stored(t, i, d)
    BY <1>1, <1>2, ReviseStores DEF Revise
  <2> HIDE DEF t
  <2>3. t \in Tables
    BY <2>2 DEF Stored, TableInv
  <2>4. QED
    BY <2>1, <2>2, <2>3
<1>3. CASE ~CanRevise(table, i)
  <2>1. i \in Live(table)
    BY <1>1, DatagramType, LiveId DEF IInv, TableInv, IsFirst
  <2>2. reply'.type # "ack"
    BY <1>1, <1>3 DEF Reject
  <2>3. GivenUp(i)
    BY <1>1, <1>3 DEF GivenUp, Reject, IsFirst
  <2>4. QED
    BY <1>1, <1>3, <2>1, <2>2, <2>3, FreeIsQuiet
<1>4. QED
  BY <1>2, <1>3

LEMMA StepCases ==
    ASSUME IInv, Silence, [Next]_vars
    PROVE  \/ Quiet
           \/ \E d \in Datagrams, t \in Tables, i \in Slots :
                 Stored(t, i, d) /\ Finish(t, i, d)
<1>1. CASE Bind \/ UNCHANGED vars
  BY <1>1, SameTableIsQuiet DEF Bind, vars
<1>2. CASE Update \/ DrainDone
  <2>1. reply' = NoReply /\ UNCHANGED <<table, handled, delivered>>
    BY <1>2 DEF Update, DrainDone
  <2>2. reply'.type # "ack"
    BY <2>1 DEF NoReply
  <2>3. QED
    BY <2>1, <2>2, SameTableIsQuiet
<1>3. CASE ExpireNext
  <2>1. reply'.type # "ack" /\ UNCHANGED <<handled, delivered>>
    BY <1>3 DEF ExpireNext, Silence, NoReply
  <2>2. CASE table' = table
    BY <2>1, <2>2, SameTableIsQuiet
  <2>3. CASE /\ table.info[cursor].id # NoId
             /\ table.info[cursor].time = ReadTimeout
             /\ \E i \in Slots : /\ IsFirst(table, i, table.info[cursor].id)
                                /\ table' = FreeReadPacket(table, i)
    <3>1. PICK i \in Slots : /\ IsFirst(table, i, table.info[cursor].id)
                             /\ table' = FreeReadPacket(table, i)
      BY <2>3
    <3>2. i \in Live(table) /\ cursor \in Live(table)
      BY <1>3, <2>3, <3>1, ReadTableAssumption
         DEF IsFirst, Live, ExpireNext, IInv, TypeOK, Slots
    <3>3. i = cursor
      BY <3>1, <3>2 DEF IInv, TableInv, UniqueIds, IsFirst
    <3>4. GivenUp(i)
      BY <1>3, <2>3, <3>3 DEF GivenUp, ExpireNext
    <3>5. QED
      BY <2>1, <3>1, <3>2, <3>4, FreeIsQuiet
  <2>4. QED
    BY <1>3, <2>2, <2>3 DEF ExpireNext
<1>4. CASE ExpireDone
  BY <1>4, SameTableIsQuiet DEF ExpireDone
<1>5. ASSUME NEW d \in Datagrams, Receive(d)
      PROVE  \/ Quiet
             \/ \E t \in Tables, i \in Slots : Stored(t, i, d) /\ Finish(t, i, d)
  <2>1. CASE DropHandled(d) \/ Refuse(d) \/ Ignore(d)
    <3>1. reply'.type # "ack" /\ UNCHANGED <<table, handled, delivered>>
      BY <2>1 DEF DropHandled, Refuse, Ignore, NoReply, Reject
    <3>2. QED
      BY <3>1, SameTableIsQuiet
  <2>2. CASE Open(d)
    BY <2>2, OpenStores
  <2>3. CASE Continue(d)
    BY <2>3, ContinueStores
  <2>4. CASE Revise(d)
    BY <2>4, ReviseCases
  <2>5. QED
    BY <1>5, <2>1, <2>2, <2>3, <2>4 DEF Receive
<1>6. CASE Tick
  <2>1. TableInv(table)
    BY DEF IInv
  <2>2. /\ TableInv(table')
        /\ Live(table') = Live(table)
    BY <1>6, <2>1, AgePreserves DEF Tick
  <2>3. /\ KeepsPackets(table, table', Live(table))
        /\ table'.used = table.used
    BY <1>6, <2>1, AgeKeeps DEF Tick, TableInv
  <2>4. QED
    BY <1>6, <2>2, <2>3 DEF Tick, Quiet
<1>7. QED
  BY <1>1, <1>2, <1>3, <1>4, <1>5, <1>6 DEF Next

LEMMA SilencePreserved ==
    ASSUME Silence, [Next]_vars
    PROVE  Silence'
  BY DEF Silence, Next, Bind, Update, ExpireNext, ExpireDone, Receive, DrainDone,
         Tick, vars

\* A slot in use holds a packet of the size its sender announced.
LEMMA LiveSize ==
    ASSUME NEW t, TableInv(t), NEW i \in Live(t)
    PROVE  /\ i \in Slots /\ t \in Tables
           /\ t.info[i].id \in Ids
           /\ t.info[i].size = SizeOf[t.info[i].id]
           /\ t.info[i].size \in Nat \ {0}
           /\ t.info[i].start \in Nat
           /\ t.info[i].rev \in Rev
<1>1. t \in Tables /\ i \in Slots /\ t.info[i] \in SlotType
  BY DEF TableInv, Live, Tables
<1>2. t.info[i].id \in Ids
  BY <1>1, LiveId
<1>3. t.info[i].size = SizeOf[t.info[i].id]
  BY DEF TableInv, Layout, InBounds
<1>4. QED
  BY <1>1, <1>2, <1>3, ReadTableAssumption, BufferAssumption DEF SlotType, Word

-----------------------------------------------------------------------------
(***************************************************************************)
(* Acknowledgements.                                                       *)
(***************************************************************************)

\* What the end of a turn of the drain loop leaves of the packet in slot j of t.
LEMMA FinishKeeps ==
    ASSUME IInv, NEW d \in Datagrams, NEW t \in Tables, NEW i \in Slots,
           Stored(t, i, d), Finish(t, i, d),
           NEW j \in Live(t), NEW k \in t.info[j].bits
    PROVE  Kept(t.info[j].id, t.info[j].rev, k)
<1>1. TableInv(t) /\ i \in Live(t)
  BY DEF Stored
<1>2. CASE ReadPacketDone(t, i)
  <2> DEFINE packet == [id |-> t.info[i].id, rev |-> t.info[i].rev,
                        data |-> Contents(t, i)]
  <2>1. /\ delivered' = Append(delivered, packet)
        /\ table' = FreeReadPacket(t, i)
    BY <1>2 DEF Finish
  <2>2. /\ Live(table') = Live(t) \ {i}
        /\ KeepsPackets(t, table', Live(t) \ {i})
    BY <1>1, <2>1, FreePreserves, FreeKeeps
  <2>3. CASE j = i
    <3>1. packet.id = t.info[j].id /\ packet.rev = t.info[j].rev
      BY <2>3
    <3> HIDE DEF packet
    <3>2. /\ Len(delivered) + 1 \in DOMAIN delivered' \ DOMAIN delivered
          /\ delivered'[Len(delivered) + 1] = packet
      BY <2>1 DEF IInv, TypeOK
    <3>3. QED
      BY <3>1, <3>2 DEF Kept
  <2>4. CASE j # i
    <3>1. j \in Live(table') /\ SamePacket(t.info[j], table'.info[j])
      BY <2>2, <2>4 DEF KeepsPackets
    <3>2. QED
      BY <3>1 DEF Kept, SamePacket
  <2>5. QED
    BY <2>3, <2>4
<1>3. CASE ~ReadPacketDone(t, i)
  <2>1. table' = t
    BY <1>3 DEF Finish
  <2>2. QED
    BY <2>1 DEF Kept
<1>4. QED
  BY <1>2, <1>3

\* What one step does to the sections received and to the one acknowledged.
AckStep ==
    reply' # reply /\ reply'.type = "ack" =>
        \/ reply'.index \notin Sections(reply'.pkt)
        \/ Kept(IdOf[reply'.pkt], reply'.rev, reply'.index)

KeepStep ==
    \A i \in Live(table) :
        \/ GivenUp(i)
        \/ \A k \in table.info[i].bits \ InitialBits(table.info[i].size) :
              Kept(table.info[i].id, table.info[i].rev, k)

KeptStep ==
    /\ reply' # reply /\ reply'.type = "ack" =>
          \/ reply'.index \notin Sections(reply'.pkt)
          \/ Kept(IdOf[reply'.pkt], reply'.rev, reply'.index)
    /\ \A i \in Live(table) :
          \/ GivenUp(i)
          \/ \A k \in table.info[i].bits \ InitialBits(table.info[i].size) :
                Kept(table.info[i].id, table.info[i].rev, k)

LEMMA AckStepHolds ==
    ASSUME IInv, Silence, [Next]_vars
    PROVE  AckStep
<1>1. CASE Quiet
  BY <1>1 DEF Quiet, AckStep
<1>2. ASSUME NEW d \in Datagrams, NEW t \in Tables, NEW i \in Slots,
             Stored(t, i, d), Finish(t, i, d)
      PROVE  AckStep
  <2>1. reply'.pkt = d.pkt /\ reply'.rev = d.rev /\ reply'.index = d.index
    BY <1>2 DEF Finish, Acknowledge
  <2>2. /\ TableInv(t) /\ i \in Live(t)
        /\ t.info[i].id = IdOf[d.pkt] /\ t.info[i].rev = d.rev
    BY <1>2 DEF Stored
  <2>3. t.info[i].size = SizeOf[IdOf[d.pkt]]
    BY <2>2 DEF TableInv, Layout, InBounds
  <2>4. d.index \in Sections(d.pkt) => d.index \in t.info[i].bits
    BY <1>2, <2>3, DatagramType DEF Stored, Opened, Continued, Revised, Gained
  <2>5. d.index \in Sections(d.pkt) => Kept(IdOf[d.pkt], d.rev, d.index)
    BY <1>2, <2>2, <2>4, FinishKeeps
  <2>6. QED
    BY <2>1, <2>5 DEF AckStep
<1>3. QED
  BY <1>1, <1>2, StepCases

LEMMA KeepStepHolds ==
    ASSUME IInv, Silence, [Next]_vars
    PROVE  KeepStep
<1> SUFFICES ASSUME NEW j \in Live(table), ~GivenUp(j),
                    NEW k \in table.info[j].bits
             PROVE  Kept(table.info[j].id, table.info[j].rev, k)
  BY DEF KeepStep
<1>1. CASE Quiet
  <2>1. j \in Live(table') /\ SamePacket(table.info[j], table'.info[j])
    BY <1>1 DEF Quiet, KeepsPackets
  <2>2. QED
    BY <2>1 DEF Kept, SamePacket
<1>2. ASSUME NEW d \in Datagrams, NEW t \in Tables, NEW i \in Slots,
             Stored(t, i, d), Finish(t, i, d)
      PROVE  Kept(table.info[j].id, table.info[j].rev, k)
  <2>1. /\ Live(t) = Live(table) \union {i}
        /\ KeepsPackets(table, t, Live(table) \ {i})
        /\ t.info[i].id = IdOf[d.pkt] /\ t.info[i].rev = d.rev
        /\ Opened(t, i, d) \/ Continued(t, i, d) \/ Revised(t, i, d)
    BY <1>2 DEF Stored
  <2>2. CASE j # i
    <3>1. j \in Live(t) /\ SamePacket(table.info[j], t.info[j])
      BY <2>1, <2>2 DEF KeepsPackets
    <3>2. QED
      BY <1>2, <3>1, FinishKeeps DEF SamePacket
  <2>3. CASE j = i /\ Continued(t, i, d)
    <3>1. /\ j \in Live(t) /\ k \in t.info[j].bits
          /\ t.info[j].id = table.info[j].id /\ t.info[j].rev = table.info[j].rev
      BY <2>1, <2>3 DEF Continued
    <3>2. QED
      BY <1>2, <3>1, FinishKeeps
  <2>4. ~(j = i /\ Opened(t, i, d))
    BY DEF Opened
  <2>5. ~(j = i /\ Revised(t, i, d))
    <3> SUFFICES ASSUME j = i, Revised(t, i, d) PROVE FALSE
      OBVIOUS
    <3>1. reply'.type = "ack" /\ reply'.pkt = d.pkt /\ reply'.rev = d.rev
      BY <1>2 DEF Finish, Acknowledge
    <3>2. /\ table.info[j].id = IdOf[d.pkt]
          /\ table.info[j].rev < d.rev
      BY <2>1 DEF Revised
    <3>3. table.info[j].rev \in Int /\ d.rev \in Int
      BY LiveSize, DatagramType DEF IInv, Rev
    <3>4. GivenUp(j)
      BY <3>1, <3>2, <3>3 DEF GivenUp
    <3>5. QED
      BY <3>4
  <2>6. QED
    BY <2>1, <2>2, <2>3, <2>4, <2>5
<1>3. QED
  BY <1>1, <1>2, StepCases

\* A sender that gets an acknowledgement may forget the section: it is in the
\* table, and stays there whatever other packets do, until its packet has been
\* delivered, has timed out or has been revised.
THEOREM AcknowledgeCorrectness == Spec => AcknowledgedKept
<1>1. Init => Silence
  BY DEF Init, Silence, NoReply
<1>2. IInv /\ Silence /\ [Next]_vars => Silence' /\ [AckStep /\ KeepStep]_vars
  BY SilencePreserved, AckStepHolds, KeepStepHolds
<1>3. AckStep /\ KeepStep <=> KeptStep
  BY DEF AckStep, KeepStep, KeptStep
<1>4. Spec => [][KeptStep]_vars
  <2>1. IInv /\ Silence /\ [Next]_vars => Silence' /\ [KeptStep]_vars
    BY <1>2, <1>3
  <2>2. QED
    BY <1>1, <2>1, Invariance, PTL DEF Spec
<1>5. QED
  BY <1>4 DEF AcknowledgedKept, KeptStep

-----------------------------------------------------------------------------
(***************************************************************************)
(* Division, for divisors that are not numerals.                           *)
(***************************************************************************)
LEMMA DivisionType ==
    ASSUME NEW n \in Nat, NEW k \in Nat \ {0}
    PROVE  /\ n % k \in 0 .. k - 1
           /\ n \div k \in Nat
           /\ n = k * (n \div k) + (n % k)
<1>1. n % k \in 0 .. k - 1
  OBVIOUS
<1>2. n = k * (n \div k) + (n % k)
  OBVIOUS
<1>3. n \div k \in Int
  OBVIOUS
<1>4. CASE n \div k <= -1
  <2>1. k * (n \div k) <= -k
    BY <1>3, <1>4
  <2>2. QED
    BY <1>1, <1>2, <1>3, <2>1
<1>5. QED
  BY <1>1, <1>2, <1>3, <1>4

\* A multiple of k that is less than k away from 0 is 0.
LEMMA SmallMultiple ==
    ASSUME NEW z \in Int, NEW k \in Nat \ {0}, -k < k * z, k * z < k
    PROVE  z = 0
<1>1. CASE z >= 1
  <2>1. k * z >= k
    BY <1>1
  <2>2. QED
    BY <2>1
<1>2. CASE z <= -1
  <2>1. k * z <= -k
    BY <1>2
  <2>2. QED
    BY <2>1
<1>3. QED
  BY <1>1, <1>2

LEMMA DivisionUnique ==
    ASSUME NEW n \in Nat, NEW k \in Nat \ {0}, NEW q \in Int, NEW r \in 0 .. k - 1,
           n = k * q + r
    PROVE  n \div k = q /\ n % k = r
<1> DEFINE z == q - (n \div k)
<1>1. /\ n = k * (n \div k) + (n % k)
      /\ n % k \in 0 .. k - 1 /\ n \div k \in Int
  BY DivisionType
<1>2. z \in Int /\ k * z = (n % k) - r
  BY <1>1
<1>3. z = 0 => n \div k = q /\ n % k = r
  BY <1>1
<1> HIDE DEF z
<1>4. -k < k * z /\ k * z < k
  BY <1>1, <1>2
<1>5. z = 0
  BY <1>2, <1>4, SmallMultiple
<1>6. QED
  BY <1>3, <1>5

-----------------------------------------------------------------------------
(***************************************************************************)
(* The ring of handled ids: the element an id was inserted at is           *)
(* overwritten by the delivery RingSize later, not before.                 *)
(***************************************************************************)

\* The position of the next insertion.
LEMMA NextPosition ==
    ASSUME NEW n \in Nat
    PROVE  /\ n % RingSize \in Position
           /\ ((n % RingSize) + 1) % RingSize = (n + 1) % RingSize
<1> DEFINE q == n \div RingSize
           r == n % RingSize
<1>1. /\ RingSize \in Nat \ {0} /\ q \in Int /\ r \in 0 .. RingSize - 1
      /\ n = RingSize * q + r
  BY DivisionType, RotatingArrayAssumption
<1> HIDE DEF q, r
<1>2. CASE r + 1 < RingSize
  <2>1. (n + 1) % RingSize = r + 1
    <3>1. /\ n + 1 \in Nat /\ r + 1 \in 0 .. RingSize - 1
          /\ n + 1 = RingSize * q + (r + 1)
      BY <1>1, <1>2
    <3>2. QED
      BY <1>1, <3>1, DivisionUnique
  <2>2. (r + 1) % RingSize = r + 1
    BY <1>1, <1>2
  <2>3. QED
    BY <1>1, <2>1, <2>2 DEF r, Position
<1>3. CASE r + 1 = RingSize
  <2>1. n + 1 = RingSize * (q + 1) + 0
    BY <1>1, <1>3
  <2>2. (n + 1) % RingSize = 0
    <3>1. n + 1 \in Nat /\ q + 1 \in Int /\ 0 \in 0 .. RingSize - 1
      BY <1>1
    <3>2. QED
      BY <1>1, <2>1, <3>1, DivisionUnique
  <2>3. (r + 1) % RingSize = 0
    BY <1>1, <1>3
  <2>4. QED
    BY <1>1, <2>2, <2>3 DEF r, Position
<1>4. QED
  BY <1>1, <1>2, <1>3

\* Less than RingSize insertions apart, the positions differ.
LEMMA OtherPosition ==
    ASSUME NEW m \in Nat, NEW n \in Nat, m < n, n < m + RingSize
    PROVE  m % RingSize # n % RingSize
<1> DEFINE z == (n \div RingSize) - (m \div RingSize)
<1>1. /\ RingSize \in Nat \ {0}
      /\ m \div RingSize \in Int /\ m = RingSize * (m \div RingSize) + (m % RingSize)
      /\ n \div RingSize \in Int /\ n = RingSize * (n \div RingSize) + (n % RingSize)
      /\ m % RingSize \in Int /\ n % RingSize \in Int
  BY DivisionType, RotatingArrayAssumption
<1>2. z \in Int /\ n - m = RingSize * z + ((n % RingSize) - (m % RingSize))
  BY <1>1
<1> HIDE DEF z
<1>3. SUFFICES ASSUME m % RingSize = n % RingSize PROVE FALSE
  OBVIOUS
<1>4. n - m = RingSize * z
  BY <1>1, <1>2, <1>3
<1>5. z = 0
  BY <1>1, <1>2, <1>4, SmallMultiple
<1>6. QED
  BY <1>1, <1>4, <1>5

\* The last RingSize deliveries are remembered, each at its position.
Remembers(ring, packets) ==
    /\ ring.index = Len(packets) % RingSize
    /\ \A n \in 1 .. Len(packets) :
          n > Len(packets) - RingSize =>
              ring.elems[(n - 1) % RingSize] = packets[n].id

LEMMA InsertRemembers ==
    ASSUME NEW V, NEW ring \in RotatingArrays(V),
           NEW S, NEW packets \in Seq(S), NEW packet \in S,
           Remembers(ring, packets)
    PROVE  Remembers(Insert(ring, packet.id), Append(packets, packet))
<1> DEFINE new == Insert(ring, packet.id)
           longer == Append(packets, packet)
           len == Len(packets)
<1>1. /\ len \in Nat /\ Len(longer) = len + 1
      /\ longer[len + 1] = packet
      /\ \A n \in 1 .. len : longer[n] = packets[n]
  OBVIOUS
<1>2. /\ ring.elems \in [Position -> V] /\ ring.index \in Position
      /\ ring.index = len % RingSize
      /\ \A n \in 1 .. len :
            n > len - RingSize => ring.elems[(n - 1) % RingSize] = packets[n].id
  BY DEF RotatingArrays, Remembers
<1>3. /\ new.elems = [ring.elems EXCEPT ![ring.index] = packet.id]
      /\ new.index = (len + 1) % RingSize
  BY <1>1, <1>2, NextPosition DEF Insert
<1> HIDE DEF new, longer, len
<1>4. ASSUME NEW n \in 1 .. len + 1, n > len + 1 - RingSize
      PROVE  new.elems[(n - 1) % RingSize] = longer[n].id
  <2>1. CASE n = len + 1
    BY <1>1, <1>2, <1>3, <2>1
  <2>2. CASE n <= len
    <3>1. n - 1 \in Nat /\ n \in 1 .. len /\ n > len - RingSize
      BY <1>1, <1>4, <2>2, RotatingArrayAssumption
    <3>2. (n - 1) % RingSize \in Position
      BY <3>1, NextPosition
    <3>3. (n - 1) % RingSize # len % RingSize
      <4>1. len \in Nat /\ n - 1 < len /\ len < (n - 1) + RingSize
        BY <1>1, <1>4, <2>2, RotatingArrayAssumption
      <4>2. QED
        BY <3>1, <4>1, OtherPosition
    <3>4. new.elems[(n - 1) % RingSize] = ring.elems[(n - 1) % RingSize]
      BY <1>2, <1>3, <3>2, <3>3
    <3>5. QED
      BY <1>1, <1>2, <3>1, <3>4
  <2>3. QED
    BY <1>1, <2>1, <2>2
<1>5. QED
  <2>1. ASSUME NEW n \in 1 .. Len(longer), n > Len(longer) - RingSize
        PROVE  new.elems[(n - 1) % RingSize] = longer[n].id
    <3>1. Len(longer) = len + 1 /\ len \in Nat /\ RingSize \in Nat
      BY <1>1, RotatingArrayAssumption
    <3>2. n \in 1 .. len + 1
      BY <2>1, <3>1
    <3>3. n > len + 1 - RingSize
      BY <2>1, <3>1
    <3>4. QED
      BY <1>4, <3>2, <3>3
  <2>2. new.index = Len(longer) % RingSize
    BY <1>1, <1>3
  <2>3. Remembers(new, longer)
    BY <2>1, <2>2 DEF Remembers
  <2>4. QED
    BY <2>3 DEF new, longer

LEMMA RememberedIsContained ==
    ASSUME NEW ring, NEW S, NEW packets \in Seq(S), Remembers(ring, packets),
           NEW n \in 1 .. Len(packets), n > Len(packets) - RingSize
    PROVE  Contains(ring, packets[n].id)
<1>1. ring.elems[(n - 1) % RingSize] = packets[n].id
  BY DEF Remembers
<1>2. n - 1 \in Nat
  OBVIOUS
<1>3. (n - 1) % RingSize \in Position
  BY <1>2, NextPosition
<1>4. QED
  BY <1>1, <1>3 DEF Contains

(***************************************************************************)
(* The deliveries a step makes: one at most, of a packet whose sections    *)
(* are all there.                                                          *)
(***************************************************************************)
Handed(t, i) == [id |-> t.info[i].id, rev |-> t.info[i].rev, data |-> Contents(t, i)]

Completed(t, i) ==
    /\ ReadPacketDone(t, i)
    /\ handled' = Insert(handled, Handed(t, i).id)
    /\ delivered' = Append(delivered, Handed(t, i))
    /\ table' = FreeReadPacket(t, i)

LEMMA DeliveryCases ==
    ASSUME IInv, Silence, [Next]_vars
    PROVE  \/ UNCHANGED <<handled, delivered>>
           \/ \E d \in Datagrams, t \in Tables, i \in Slots :
                 Stored(t, i, d) /\ Completed(t, i)
<1>1. CASE Quiet
  BY <1>1 DEF Quiet
<1>2. ASSUME NEW d \in Datagrams, NEW t \in Tables, NEW i \in Slots,
             Stored(t, i, d), Finish(t, i, d)
      PROVE  \/ UNCHANGED <<handled, delivered>>
             \/ Stored(t, i, d) /\ Completed(t, i)
  <2>1. Handed(t, i).id = t.info[i].id
    BY DEF Handed
  <2>2. CASE ReadPacketDone(t, i)
    <3>1. /\ handled' = Insert(handled, Handed(t, i).id)
          /\ delivered' = Append(delivered, Handed(t, i))
          /\ table' = FreeReadPacket(t, i)
      BY <1>2, <2>1, <2>2 DEF Finish, Handed
    <3>2. QED
      BY <1>2, <2>2, <3>1 DEF Completed
  <2>3. CASE ~ReadPacketDone(t, i)
    BY <1>2, <2>3 DEF Finish
  <2>4. QED
    BY <2>2, <2>3
<1>3. QED
  BY <1>1, <1>2, StepCases

DeliveryType == [id : Ids, rev : Rev, data : Seq(Cell)]

\* What is handed over has the type of a delivery, and was not remembered.
LEMMA HandedType ==
    ASSUME IInv, NEW d \in Datagrams, NEW t \in Tables, NEW i \in Slots,
           Stored(t, i, d)
    PROVE  /\ Handed(t, i) \in DeliveryType
           /\ Handed(t, i).id = t.info[i].id
           /\ t.info[i].id \in Ids
           /\ ~Contains(handled, Handed(t, i).id)
           /\ delivered \in Seq(DeliveryType)
           /\ handled \in RotatingArrays(Ids \union {NoId})
<1>1. /\ TableInv(t) /\ i \in Live(t) /\ t.info[i] \in SlotType
      /\ t.info[i].id \in Ids /\ t.info[i].rev \in Rev
      /\ ~Contains(handled, t.info[i].id)
  BY LiveId DEF Stored, Tables, SlotType
<1>2. Contents(t, i) \in Seq(Cell)
  BY <1>1, ContentsType
<1>3. QED
  BY <1>1, <1>2 DEF Handed, DeliveryType, IInv, TypeOK

-----------------------------------------------------------------------------
(***************************************************************************)
(* The window in which no id is repeated.                                  *)
(***************************************************************************)
LEMMA WindowPreserved ==
    ASSUME IInv, Silence, Remembers(handled, delivered), RedeliveryWindow,
           [Next]_vars
    PROVE  Remembers(handled, delivered)' /\ RedeliveryWindow'
<1>1. CASE UNCHANGED <<handled, delivered>>
  BY <1>1 DEF Remembers, RedeliveryWindow
<1>2. ASSUME NEW d \in Datagrams, NEW t \in Tables, NEW i \in Slots,
             Stored(t, i, d), Completed(t, i)
      PROVE  Remembers(handled, delivered)' /\ RedeliveryWindow'
  <2> DEFINE packet == Handed(t, i)
             len == Len(delivered)
  <2>1. /\ packet \in DeliveryType
        /\ delivered \in Seq(DeliveryType)
        /\ handled \in RotatingArrays(Ids \union {NoId})
        /\ ~Contains(handled, packet.id)
    BY <1>2, HandedType
  <2>2. handled' = Insert(handled, packet.id) /\ delivered' = Append(delivered, packet)
    BY <1>2 DEF Completed
  <2> HIDE DEF packet
  <2>3. Remembers(handled', delivered')
    BY <2>1, <2>2, InsertRemembers
  <2>4. /\ len \in Nat /\ DOMAIN delivered = 1 .. len
        /\ DOMAIN delivered' = 1 .. len + 1
        /\ delivered'[len + 1] = packet
        /\ \A n \in 1 .. len : delivered'[n] = delivered[n]
    BY <2>1, <2>2
  <2>5. ASSUME NEW m \in DOMAIN delivered', NEW n \in DOMAIN delivered',
               m < n, delivered'[m].id = delivered'[n].id
        PROVE  n - m > RingSize
    <3>1. m \in 1 .. len
      BY <2>4, <2>5
    <3>2. CASE n \in 1 .. len
      BY <2>4, <2>5, <3>1, <3>2 DEF RedeliveryWindow
    <3>3. CASE n = len + 1
      <4>1. delivered[m].id = packet.id
        BY <2>4, <2>5, <3>1, <3>3
      <4>2. ~(m > len - RingSize)
        BY <2>1, <3>1, <4>1, RememberedIsContained
      <4>3. QED
        BY <2>4, <3>1, <3>3, <4>2, RotatingArrayAssumption
    <3>4. QED
      BY <2>4, <3>2, <3>3
  <2>6. RedeliveryWindow'
    BY <2>5 DEF RedeliveryWindow
  <2>7. QED
    BY <2>3, <2>6 DEF Remembers
<1>3. QED
  BY <1>1, <1>2, DeliveryCases

LEMMA WindowInit == Init => Remembers(handled, delivered) /\ RedeliveryWindow
<1> SUFFICES ASSUME Init PROVE Remembers(handled, delivered) /\ RedeliveryWindow
  OBVIOUS
<1>1. delivered = << >> /\ handled.index = 0
  BY DEF Init, NewRotatingArrays
<1>2. 0 % RingSize = 0
  BY RotatingArrayAssumption
<1>3. QED
  BY <1>1, <1>2 DEF Remembers, RedeliveryWindow

LEMMA WindowInvariance ==
    Spec => [](Silence /\ Remembers(handled, delivered) /\ RedeliveryWindow)
<1>1. Init => Silence /\ Remembers(handled, delivered) /\ RedeliveryWindow
  BY WindowInit DEF Init, Silence
<1>2. IInv /\ (Silence /\ Remembers(handled, delivered) /\ RedeliveryWindow) /\ [Next]_vars
        => (Silence /\ Remembers(handled, delivered) /\ RedeliveryWindow)'
  BY SilencePreserved, WindowPreserved
<1>3. QED
  BY <1>1, <1>2, Invariance, PTL DEF Spec

\* Whatever duplicates the network makes and however late they come, an id is
\* not handed to the callback again within RingSize deliveries.
THEOREM WindowCorrectness == Spec => []RedeliveryWindow
  BY WindowInvariance, PTL

-----------------------------------------------------------------------------
(***************************************************************************)
(* Sections and bitmaps.                                                   *)
(***************************************************************************)
LEMMA LessMultiple ==
    ASSUME NEW a \in Int, NEW b \in Int, NEW k \in Nat \ {0}, k * a < k * b
    PROVE  a < b
<1> SUFFICES ASSUME a >= b PROVE FALSE
  OBVIOUS
<1> DEFINE z == a - b
<1>1. z \in Nat /\ k * z = k * a - k * b
  OBVIOUS
<1> HIDE DEF z
<1>2. k * z >= 0
  BY <1>1
<1>3. k * a \in Int /\ k * b \in Int
  OBVIOUS
<1>4. QED
  BY <1>1, <1>2, <1>3

\* Division that rounds up.
LEMMA RoundedUp ==
    ASSUME NEW n \in Nat, NEW k \in Nat \ {0}
    PROVE  /\ (n + k - 1) \div k \in Nat
           /\ k * ((n + k - 1) \div k) \in Nat
           /\ n <= k * ((n + k - 1) \div k)
           /\ k * ((n + k - 1) \div k) < n + k
<1> DEFINE q == (n + k - 1) \div k
           r == (n + k - 1) % k
<1>1. n + k - 1 \in Nat
  OBVIOUS
<1>2. q \in Nat /\ r \in 0 .. k - 1 /\ n + k - 1 = k * q + r
  BY <1>1, DivisionType
<1> HIDE DEF q, r
<1>3. k * q \in Nat
  BY <1>2
<1>4. QED
  BY <1>2, <1>3 DEF q

\* The packets the padding of the byte array keeps from ever being complete.
Stranded(size) == ~UsesWord(size) /\ GetRequiredSections(size) % ByteBits # 0

\* The sections of a packet that goes without bytes fit the word; otherwise the
\* bytes have less than a byte to spare, and none unless the packet is stranded.
LEMMA SectionsFit ==
    ASSUME NEW size \in Nat \ {0}
    PROVE  /\ GetRequiredSections(size) \in Nat \ {0}
           /\ size <= SectionSize * GetRequiredSections(size)
           /\ UsesWord(size) => GetRequiredSections(size) <= WordBits
           /\ DynamicBytes(size) \in Nat
           /\ DynamicBytes(size) * ByteBits \in Nat
           /\ GetRequiredSections(size) <= DynamicBytes(size) * ByteBits
           /\ DynamicBytes(size) * ByteBits < GetRequiredSections(size) + ByteBits
           /\ GetRequiredSections(size) % ByteBits = 0
                <=> DynamicBytes(size) * ByteBits = GetRequiredSections(size)
<1> DEFINE req == GetRequiredSections(size)
           bytes == DynamicBytes(size)
           spare == req % ByteBits
           whole == req \div ByteBits
<1>1. /\ req \in Nat \ {0}
      /\ size <= SectionSize * req /\ SectionSize * req < size + SectionSize
      /\ SectionSize * req \in Nat
  BY RequiredSectionsType, RoundedUp, FormatAssumption DEF GetRequiredSections
<1> HIDE DEF req
<1>2. /\ bytes \in Nat /\ ByteBits * bytes \in Nat
      /\ req <= ByteBits * bytes /\ ByteBits * bytes < req + ByteBits
  BY <1>1, RoundedUp, FormatAssumption DEF DynamicBytes, req
<1> HIDE DEF bytes
<1>3. bytes * ByteBits = ByteBits * bytes
  BY <1>2, FormatAssumption
<1>4. UsesWord(size) => req <= WordBits
  <2> SUFFICES ASSUME UsesWord(size) PROVE req <= WordBits
    OBVIOUS
  <2>1. size <= WordBits * SectionSize
    BY DEF UsesWord
  <2>2. SectionSize * (WordBits + 1) = WordBits * SectionSize + SectionSize
    BY FormatAssumption
  <2>3. WordBits * SectionSize \in Nat
    BY FormatAssumption
  <2>4. SectionSize * req < SectionSize * (WordBits + 1)
    BY <1>1, <2>1, <2>2, <2>3, FormatAssumption
  <2>5. WordBits + 1 \in Int /\ req \in Int /\ SectionSize \in Nat \ {0}
    BY <1>1, FormatAssumption
  <2>6. req < WordBits + 1
    BY <2>4, <2>5, LessMultiple
  <2>7. QED
    BY <1>1, <2>6, FormatAssumption
<1>5. /\ spare \in 0 .. ByteBits - 1 /\ whole \in Nat
      /\ req = ByteBits * whole + spare
  BY <1>1, DivisionType, FormatAssumption
<1> HIDE DEF spare, whole
<1>6. ASSUME spare = 0 PROVE ByteBits * bytes = req
  <2> DEFINE z == bytes - whole
  <2>1. z \in Int /\ ByteBits * z = ByteBits * bytes - req
    <3>1. ByteBits * z = ByteBits * bytes - ByteBits * whole
      BY <1>2, <1>5, FormatAssumption
    <3>2. req = ByteBits * whole
      BY <1>5, <1>6, FormatAssumption
    <3>3. QED
      BY <1>2, <1>5, <3>1, <3>2
  <2>2. z = 0 => bytes = whole
    BY <1>2, <1>5
  <2> HIDE DEF z
  <2>3. -ByteBits < ByteBits * z /\ ByteBits * z < ByteBits
    BY <1>1, <1>2, <2>1, FormatAssumption
  <2>4. z = 0
    BY <2>1, <2>3, SmallMultiple, FormatAssumption
  <2>5. QED
    BY <1>5, <1>6, <2>2, <2>4, FormatAssumption
<1>7. ASSUME ByteBits * bytes = req PROVE spare = 0
  <2>1. req = ByteBits * bytes + 0 /\ 0 \in 0 .. ByteBits - 1 /\ bytes \in Int
    BY <1>1, <1>2, <1>7, FormatAssumption
  <2>2. QED
    BY <1>1, <2>1, DivisionUnique, FormatAssumption DEF spare
<1>8. QED
  BY <1>1, <1>2, <1>3, <1>4, <1>6, <1>7 DEF req, bytes, spare

\* The initial bits leave the last bit of the bytes clear, and there are none
\* when the sections fill the bytes.
LEMMA BytePadding ==
    ASSUME NEW size \in Nat \ {0}, ~UsesWord(size)
    PROVE  /\ \A k \in InitialBits(size) :
                 k \in Nat /\ k < DynamicBytes(size) * ByteBits - 1
           /\ ~Stranded(size) => InitialBits(size) = {}
<1> DEFINE req == GetRequiredSections(size)
           total == DynamicBytes(size) * ByteBits
           last == (DynamicBytes(size) - 1) * ByteBits
<1>1. /\ req \in Nat /\ total \in Nat
      /\ req <= total /\ total < req + ByteBits
      /\ ~Stranded(size) => total = req
  BY SectionsFit DEF Stranded
<1>2. last = total - ByteBits /\ DynamicBytes(size) \in Nat
  BY SectionsFit, FormatAssumption
<1>3. InitialBits(size) = { last + i : i \in 0 .. total - req - 1 }
  BY DEF InitialBits
<1>4. InitialBits(size) \in SUBSET Nat
  BY InitialBitsType
<1> HIDE DEF req, total, last
<1>5. \A k \in InitialBits(size) : k < total - 1
  BY <1>1, <1>2, <1>3, FormatAssumption
<1>6. ~Stranded(size) => InitialBits(size) = {}
  BY <1>1, <1>3
<1>7. QED
  BY <1>4, <1>5, <1>6 DEF total

\* Besides the padding only sections are marked.
Marked(slot) ==
    slot.bits \subseteq InitialBits(slot.size)
                          \union 0 .. GetRequiredSections(slot.size) - 1

\* A bitmap of ones: every section has been marked, as a section.
LEMMA DoneMeansWhole ==
    ASSUME NEW size \in Nat \ {0}, NEW bits,
           bits \subseteq InitialBits(size) \union 0 .. GetRequiredSections(size) - 1,
           BitsDone(bits, size)
    PROVE  /\ ~Stranded(size)
           /\ \A k \in 0 .. GetRequiredSections(size) - 1 :
                 k \in bits \ InitialBits(size)
<1> DEFINE req == GetRequiredSections(size)
           total == DynamicBytes(size) * ByteBits
<1>1. /\ req \in Nat \ {0} /\ total \in Nat
      /\ UsesWord(size) => req <= WordBits
      /\ req <= total
      /\ req % ByteBits = 0 <=> total = req
  BY SectionsFit
<1>2. bits = 0 .. BitmapSize(size) - 1
  BY DEF BitsDone
<1>3. CASE UsesWord(size)
  <2>1. BitmapSize(size) = WordBits /\ InitialBits(size) = req .. WordBits - 1
    BY <1>3 DEF BitmapSize, InitialBits
  <2>2. QED
    BY <1>1, <1>2, <1>3, <2>1, FormatAssumption DEF Stranded
<1>4. CASE ~UsesWord(size)
  <2>1. BitmapSize(size) = total
    BY <1>4 DEF BitmapSize
  <2>2. \A k \in InitialBits(size) : k \in Nat /\ k < total - 1
    BY <1>4, BytePadding
  <2> HIDE DEF total, req
  <2>3. total - 1 \in bits
    BY <1>1, <1>2, <2>1
  <2>4. total - 1 \in 0 .. req - 1
    <3>1. total - 1 \notin InitialBits(size)
      BY <1>1, <2>2
    <3>2. QED
      BY <2>3, <3>1 DEF req
  <2>5. total = req
    BY <1>1, <2>4
  <2>6. ~Stranded(size)
    BY <1>1, <2>5 DEF Stranded, req
  <2>7. InitialBits(size) = {}
    BY <1>4, <2>6, BytePadding
  <2>8. \A k \in 0 .. req - 1 : k \in bits
    BY <1>1, <1>2, <2>1, <2>5
  <2>9. QED
    BY <2>6, <2>7, <2>8 DEF req
<1>5. QED
  BY <1>3, <1>4

\* The sections and the padding make a bitmap of ones, unless stranded.
LEMMA PaddingCompletes ==
    ASSUME NEW size \in Nat \ {0}, ~Stranded(size)
    PROVE  InitialBits(size) \union 0 .. GetRequiredSections(size) - 1
             = 0 .. BitmapSize(size) - 1
<1> DEFINE req == GetRequiredSections(size)
           total == DynamicBytes(size) * ByteBits
<1>1. /\ req \in Nat \ {0} /\ total \in Nat
      /\ UsesWord(size) => req <= WordBits
      /\ req % ByteBits = 0 <=> total = req
  BY SectionsFit
<1>2. CASE UsesWord(size)
  <2>1. BitmapSize(size) = WordBits /\ InitialBits(size) = req .. WordBits - 1
    BY <1>2 DEF BitmapSize, InitialBits
  <2>2. QED
    BY <1>1, <1>2, <2>1, FormatAssumption
<1>3. CASE ~UsesWord(size)
  <2>1. BitmapSize(size) = total /\ total = req
    BY <1>1, <1>3 DEF BitmapSize, Stranded
  <2>2. InitialBits(size) = {}
    BY <1>3, BytePadding
  <2>3. QED
    BY <2>1, <2>2
<1>4. QED
  BY <1>2, <1>3

-----------------------------------------------------------------------------
(***************************************************************************)
(* What the bitmaps of the read table hold.                                *)
(***************************************************************************)
AllMarked(t) == \A i \in Live(t) : Marked(t.info[i])

\* A slot whose packet has not been revised still has its padding.
AllPadded(t) == \A i \in Live(t) : InitialBits(t.info[i].size) \subseteq t.info[i].bits

\* Where nobody revises, the padding stays.
Bitmaps(t) == AllMarked(t) /\ (MaxRev = 0 => AllPadded(t))

\* Moving packets and giving some up leaves the bitmaps of the others alone.
LEMMA KeptBitmaps ==
    ASSUME NEW t, NEW u, Bitmaps(t), Live(u) \subseteq Live(t),
           KeepsPackets(t, u, Live(u))
    PROVE  Bitmaps(u)
<1>1. ASSUME NEW i \in Live(u)
      PROVE  /\ i \in Live(t)
             /\ u.info[i].size = t.info[i].size /\ u.info[i].bits = t.info[i].bits
  BY DEF KeepsPackets, SamePacket
<1>2. AllMarked(u)
  BY <1>1 DEF Bitmaps, AllMarked, Marked
<1>3. MaxRev = 0 => AllPadded(u)
  BY <1>1 DEF Bitmaps, AllPadded
<1>4. QED
  BY <1>2, <1>3 DEF Bitmaps

LEMMA StoredBitmaps ==
    ASSUME IInv, Bitmaps(table),
           NEW d \in Datagrams, NEW t \in Tables, NEW i \in Slots, Stored(t, i, d)
    PROVE  Bitmaps(t)
<1> DEFINE size == t.info[i].size
           sections == 0 .. GetRequiredSections(size) - 1
<1>1. /\ TableInv(t) /\ TableInv(table) /\ i \in Live(t)
      /\ Live(t) = Live(table) \union {i}
      /\ KeepsPackets(table, t, Live(table) \ {i})
      /\ t.info[i].id = IdOf[d.pkt] /\ t.info[i].rev = d.rev
      /\ Opened(t, i, d) \/ Continued(t, i, d) \/ Revised(t, i, d)
  BY DEF Stored, IInv
<1>2. /\ size = SizeOf[t.info[i].id] /\ size \in Nat \ {0}
      /\ t.info[i].rev \in Rev
  BY <1>1, LiveSize
<1>3. /\ d.index \in Sections(d.pkt) => d.index \in sections
      /\ Gained(size, d.index) \subseteq sections
  BY <1>1, <1>2, DatagramType DEF Sections, Gained
<1>4. i \in Live(table) /\ table.info[i].id = t.info[i].id
        => table.info[i].size = size /\ table.info[i].rev \in Rev
  BY <1>1, <1>2, LiveSize
<1> HIDE DEF size
<1>5. Marked(t.info[i])
  <2>1. CASE Opened(t, i, d)
    BY <1>3, <2>1 DEF Opened, Marked, size
  <2>2. CASE Continued(t, i, d)
    <3>1. /\ t.info[i].bits = table.info[i].bits \union {d.index}
          /\ table.info[i].size = size /\ Marked(table.info[i])
      BY <1>4, <2>2 DEF Continued, Bitmaps, AllMarked
    <3>2. QED
      BY <1>3, <2>2, <3>1 DEF Continued, Marked, size
  <2>3. CASE Revised(t, i, d)
    BY <1>3, <2>3 DEF Revised, Marked, size
  <2>4. QED
    BY <1>1, <2>1, <2>2, <2>3
<1>6. ASSUME MaxRev = 0
      PROVE  InitialBits(t.info[i].size) \subseteq t.info[i].bits
  <2>1. CASE Opened(t, i, d)
    BY <2>1 DEF Opened
  <2>2. CASE Continued(t, i, d)
    <3>1. /\ t.info[i].bits = table.info[i].bits \union {d.index}
          /\ table.info[i].size = t.info[i].size
          /\ InitialBits(table.info[i].size) \subseteq table.info[i].bits
      BY <1>4, <1>6, <2>2 DEF Continued, Bitmaps, AllPadded, size
    <3>2. QED
      BY <3>1
  <2>3. CASE Revised(t, i, d)
    <3>1. table.info[i].rev \in Rev /\ table.info[i].rev < t.info[i].rev
      BY <1>4, <2>3 DEF Revised
    <3>2. QED
      BY <1>2, <1>6, <3>1 DEF Rev
  <2>4. QED
    BY <1>1, <2>1, <2>2, <2>3
<1>7. ASSUME NEW j \in Live(t), j # i
      PROVE  /\ j \in Live(table)
             /\ t.info[j].size = table.info[j].size
             /\ t.info[j].bits = table.info[j].bits
  BY <1>1, <1>7 DEF KeepsPackets, SamePacket
<1>8. AllMarked(t)
  <2> SUFFICES ASSUME NEW j \in Live(t), j # i PROVE Marked(t.info[j])
    BY <1>5 DEF AllMarked
  <2>1. Marked(table.info[j])
    BY <1>7 DEF Bitmaps, AllMarked
  <2>2. QED
    BY <1>7, <2>1 DEF Marked
<1>9. ASSUME MaxRev = 0 PROVE AllPadded(t)
  <2> SUFFICES ASSUME NEW j \in Live(t), j # i
               PROVE  InitialBits(t.info[j].size) \subseteq t.info[j].bits
    BY <1>6, <1>9 DEF AllPadded
  <2>1. InitialBits(table.info[j].size) \subseteq table.info[j].bits
    BY <1>7, <1>9 DEF Bitmaps, AllPadded
  <2>2. QED
    BY <1>7, <2>1
<1>10. QED
  BY <1>8, <1>9 DEF Bitmaps

LEMMA BitmapsPreserved ==
    ASSUME IInv, Silence, Bitmaps(table), [Next]_vars
    PROVE  Bitmaps(table)'
<1>1. CASE Quiet
  <2>1. Live(table') \subseteq Live(table) /\ KeepsPackets(table, table', Live(table'))
    BY <1>1 DEF Quiet
  <2>2. Bitmaps(table')
    BY <2>1, KeptBitmaps
  <2>3. QED
    BY <2>2
<1>2. ASSUME NEW d \in Datagrams, NEW t \in Tables, NEW i \in Slots,
             Stored(t, i, d), Finish(t, i, d)
      PROVE  Bitmaps(table')
  <2>1. Bitmaps(t) /\ TableInv(t) /\ i \in Live(t)
    BY <1>2, StoredBitmaps DEF Stored
  <2>2. CASE table' = t
    BY <2>1, <2>2
  <2>3. CASE table' = FreeReadPacket(t, i)
    <3>1. /\ Live(table') = Live(t) \ {i}
          /\ KeepsPackets(t, table', Live(t) \ {i})
      BY <2>1, <2>3, FreePreserves, FreeKeeps
    <3>2. QED
      BY <2>1, <3>1, KeptBitmaps
  <2>4. QED
    BY <1>2, <2>2, <2>3 DEF Finish
<1>3. QED
  BY <1>1, <1>2, StepCases

-----------------------------------------------------------------------------
(***************************************************************************)
(* Whole packets: every unit the callback is given came from a datagram.   *)
(***************************************************************************)
Whole(packet) ==
    /\ Len(packet.data) = SizeOf[packet.id]
    /\ \A c \in DOMAIN packet.data :
          Genuine(packet.data[c], packet.id, packet.rev, c - 1)

LEMMA HandedWhole ==
    ASSUME NEW t, TableInv(t), NEW i \in Live(t), Marked(t.info[i]),
           ReadPacketDone(t, i)
    PROVE  Whole(Handed(t, i)) /\ ~Stranded(t.info[i].size)
<1> DEFINE slot == t.info[i]
           size == t.info[i].size
           start == t.info[i].start
           req == GetRequiredSections(size)
<1>1. /\ size = SizeOf[slot.id] /\ size \in Nat \ {0}
      /\ start \in Nat /\ slot \in SlotType
  BY LiveSize DEF Tables
<1>2. /\ ~Stranded(size)
      /\ \A k \in 0 .. req - 1 : k \in slot.bits \ InitialBits(size)
  <2>1. slot.bits \subseteq InitialBits(size) \union 0 .. req - 1
    BY DEF Marked
  <2>2. BitsDone(slot.bits, size)
    BY DEF ReadPacketDone
  <2>3. QED
    BY <1>1, <2>1, <2>2, DoneMeansWhole
<1>3. /\ Len(Contents(t, i)) = size
      /\ DOMAIN Contents(t, i) = 1 .. size
  BY ContentsType
<1>4. ASSUME NEW c \in 1 .. size
      PROVE  Genuine(Contents(t, i)[c], slot.id, slot.rev, c - 1)
  <2> DEFINE k == (c - 1) \div SectionSize
             rest == (c - 1) % SectionSize
  <2>1. /\ c - 1 \in Nat
        /\ k \in Nat /\ rest \in 0 .. SectionSize - 1
        /\ c - 1 = SectionSize * k + rest
    <3>1. c - 1 \in Nat /\ SectionSize \in Nat \ {0}
      BY <1>1, FormatAssumption
    <3>2. QED
      BY <3>1, DivisionType
  <2> HIDE DEF k, rest
  <2>2. k \in 0 .. req - 1
    <3>1. req \in Nat \ {0} /\ size <= SectionSize * req
      BY <1>1, SectionsFit
    <3>2. SectionSize * k \in Nat /\ SectionSize * req \in Nat
      BY <2>1, <3>1, FormatAssumption
    <3>3. SectionSize * k < SectionSize * req
      BY <1>1, <2>1, <3>1, <3>2, FormatAssumption
    <3>4. k < req
      BY <2>1, <3>1, <3>3, LessMultiple, FormatAssumption
    <3>5. QED
      BY <2>1, <3>1, <3>4
  <2>3. start + c - 1 \in SectionRange(slot, k)
    <3> DEFINE offset == SectionOffset(k)
    <3>1. offset = SectionSize * k /\ offset \in Nat
      BY <2>1, FormatAssumption DEF SectionOffset
    <3> HIDE DEF offset
    <3>2. /\ start + offset <= start + c - 1
          /\ c - 1 < offset + SectionSize
          /\ c - 1 < size
      BY <1>1, <2>1, <3>1, FormatAssumption
    <3>3. start + c - 1 <= start + offset + SectionLength(k, size) - 1
      BY <1>1, <2>1, <3>1, <3>2, FormatAssumption DEF SectionLength, offset
    <3>4. SectionLength(k, size) \in Int
      BY <1>1, <3>1, FormatAssumption DEF SectionLength, offset
    <3>5. SectionRange(slot, k)
            = start + offset .. start + offset + SectionLength(k, size) - 1
      BY DEF SectionRange, offset
    <3>6. QED
      BY <1>1, <3>1, <3>2, <3>3, <3>4, <3>5
  <2>4. Genuine(t.mem[start + c - 1], slot.id, slot.rev, (start + c - 1) - start)
    <3>1. k \in slot.bits \ InitialBits(size)
      BY <1>2, <2>2
    <3>2. ReceivedDataIntact(t)
      BY DEF TableInv
    <3>3. QED
      BY <2>3, <3>1, <3>2 DEF ReceivedDataIntact
  <2>5. (start + c - 1) - start = c - 1
    BY <1>1
  <2>6. Contents(t, i)[c] = t.mem[start + c - 1]
    BY DEF Contents
  <2>7. QED
    BY <2>4, <2>5, <2>6
<1>5. QED
  BY <1>1, <1>2, <1>3, <1>4 DEF Whole, Handed

LEMMA CompletedIsWhole ==
    ASSUME IInv, Bitmaps(table),
           NEW d \in Datagrams, NEW t \in Tables, NEW i \in Slots,
           Stored(t, i, d), Completed(t, i)
    PROVE  Whole(Handed(t, i)) /\ ~Stranded(SizeOf[Handed(t, i).id])
<1>1. TableInv(t) /\ i \in Live(t) /\ Marked(t.info[i]) /\ ReadPacketDone(t, i)
  BY StoredBitmaps DEF Stored, Completed, Bitmaps, AllMarked
<1>2. Handed(t, i).id = t.info[i].id /\ t.info[i].size = SizeOf[t.info[i].id]
  BY <1>1, LiveSize DEF Handed
<1>3. QED
  BY <1>1, <1>2, HandedWhole

\* No delivery is short of a unit or of a stranded size.
Deliveries == \A n \in DOMAIN delivered :
                 Whole(delivered[n]) /\ ~Stranded(SizeOf[delivered[n].id])

LEMMA DeliveriesPreserved ==
    ASSUME IInv, Silence, Bitmaps(table), Deliveries, [Next]_vars
    PROVE  Deliveries'
<1>1. CASE UNCHANGED <<handled, delivered>>
  BY <1>1 DEF Deliveries
<1>2. ASSUME NEW d \in Datagrams, NEW t \in Tables, NEW i \in Slots,
             Stored(t, i, d), Completed(t, i)
      PROVE  Deliveries'
  <2> DEFINE packet == Handed(t, i)
  <2>1. Whole(packet) /\ ~Stranded(SizeOf[packet.id])
    BY <1>2, CompletedIsWhole
  <2>2. /\ packet \in DeliveryType
        /\ delivered \in Seq(DeliveryType)
        /\ delivered' = Append(delivered, packet)
    BY <1>2, HandedType DEF Completed
  <2> HIDE DEF packet
  <2>3. ASSUME NEW n \in DOMAIN delivered'
        PROVE  Whole(delivered'[n]) /\ ~Stranded(SizeOf[delivered'[n].id])
    <3>1. \/ n \in DOMAIN delivered /\ delivered'[n] = delivered[n]
          \/ delivered'[n] = packet
      BY <2>2, <2>3
    <3>2. QED
      BY <2>1, <3>1 DEF Deliveries
  <2>4. QED
    BY <2>3 DEF Deliveries
<1>3. QED
  BY <1>1, <1>2, DeliveryCases

LEMMA BitmapInvariance == Spec => [](Silence /\ Bitmaps(table) /\ Deliveries)
<1>1. Init => Silence /\ Bitmaps(table) /\ Deliveries
  <2> SUFFICES ASSUME Init PROVE Silence /\ Bitmaps(table) /\ Deliveries
    OBVIOUS
  <2>1. Live(table) = {} /\ delivered = << >> /\ pc = "idle"
    BY EmptyTableInv DEF Init
  <2>2. QED
    BY <2>1 DEF Silence, Bitmaps, AllMarked, AllPadded, Deliveries
<1>2. IInv /\ (Silence /\ Bitmaps(table) /\ Deliveries) /\ [Next]_vars
        => (Silence /\ Bitmaps(table) /\ Deliveries)'
  BY SilencePreserved, BitmapsPreserved, DeliveriesPreserved
<1>3. QED
  BY <1>1, <1>2, Invariance, PTL DEF Spec

\* The callback is given every unit of a packet, each from a datagram of one
\* revision of a packet with that id: the padding of the bitmap never stands in
\* for a section.
THEOREM DeliveryCorrectness == Spec => []DeliveredWhole
<1>1. Deliveries => DeliveredWhole
  BY DEF Deliveries, Whole, DeliveredWhole
<1>2. QED
  BY <1>1, BitmapInvariance, PTL

-----------------------------------------------------------------------------
(***************************************************************************)
(* Packets that cannot be completed.                                       *)
(***************************************************************************)
LEMMA SufficesUnlessStranded ==
    ASSUME NEW slot, slot.size \in Nat \ {0}, Marked(slot)
    PROVE  /\ SectionsSuffice(slot) => ~Stranded(slot.size)
           /\ InitialBits(slot.size) \subseteq slot.bits =>
                 (~Stranded(slot.size) => SectionsSuffice(slot))
<1> DEFINE size == slot.size
           sections == 0 .. GetRequiredSections(size) - 1
           all == slot.bits \union sections
<1>1. all \subseteq InitialBits(size) \union sections
  BY DEF Marked
<1>2. SectionsSuffice(slot) <=> BitsDone(all, size)
  BY DEF SectionsSuffice
<1>3. ASSUME BitsDone(all, size) PROVE ~Stranded(size)
  BY <1>1, <1>3, DoneMeansWhole
<1>4. ASSUME InitialBits(size) \subseteq slot.bits, ~Stranded(size)
      PROVE  BitsDone(all, size)
  <2>1. all = InitialBits(size) \union sections
    BY <1>1, <1>4
  <2>2. QED
    BY <1>4, <2>1, PaddingCompletes DEF BitsDone
<1>5. QED
  BY <1>2, <1>3, <1>4

\* What PaddingStrands says of packets that have been revised as well.
StrandedForGood ==
    /\ \A i \in Live(table) :
          Stranded(SizeOf[table.info[i].id]) => ~SectionsSuffice(table.info[i])
    /\ \A n \in DOMAIN delivered : ~Stranded(SizeOf[delivered[n].id])

LEMMA BitmapsStrand ==
    ASSUME IInv, Bitmaps(table), Deliveries
    PROVE  StrandedForGood /\ (MaxRev = 0 => PaddingStrands)
<1>1. ASSUME NEW i \in Live(table)
      PROVE  /\ SectionsSuffice(table.info[i]) => ~Stranded(SizeOf[table.info[i].id])
             /\ MaxRev = 0 =>
                   (~Stranded(SizeOf[table.info[i].id])
                      => SectionsSuffice(table.info[i]))
  <2>1. /\ table.info[i].size \in Nat \ {0}
        /\ table.info[i].size = SizeOf[table.info[i].id]
    BY LiveSize DEF IInv
  <2>2. /\ Marked(table.info[i])
        /\ MaxRev = 0 => InitialBits(table.info[i].size) \subseteq table.info[i].bits
    BY DEF Bitmaps, AllMarked, AllPadded
  <2>3. QED
    BY <2>1, <2>2, SufficesUnlessStranded
<1>2. \A n \in DOMAIN delivered : ~Stranded(SizeOf[delivered[n].id])
  BY DEF Deliveries
<1>3. StrandedForGood
  BY <1>1, <1>2 DEF StrandedForGood
<1>4. MaxRev = 0 => PaddingStrands
  BY <1>1, <1>2 DEF PaddingStrands, Stranded
<1>5. QED
  BY <1>3, <1>4

\* A packet too large for the word whose sections do not fill the last byte is
\* never completed and never delivered, revised or not.
THEOREM StrandingCorrectness == Spec => []StrandedForGood
<1>1. IInv /\ (Silence /\ Bitmaps(table) /\ Deliveries) => StrandedForGood
  BY BitmapsStrand
<1>2. QED
  BY <1>1, Invariance, BitmapInvariance, PTL

\* And among the packets of peers that revise nothing, those are the only ones
\* that cannot be completed.
THEOREM PaddingCorrectness ==
    ASSUME MaxRev = 0
    PROVE  Spec => []PaddingStrands
<1>1. IInv /\ (Silence /\ Bitmaps(table) /\ Deliveries) => PaddingStrands
  BY BitmapsStrand
<1>2. QED
  BY <1>1, Invariance, BitmapInvariance, PTL

-----------------------------------------------------------------------------
\* What one step does to the packets that can be completed.
RevisionStep ==
    \A i \in Live(table) :
       /\ i \in Live(table') =>
             (SectionsSuffice(table'.info[i])
               <=> Completable(table.info[i], table'.info[i].rev))
       /\ \A n \in DOMAIN delivered' \ DOMAIN delivered :
             delivered'[n].id = table.info[i].id =>
                 Completable(table.info[i], delivered'[n].rev)

\* Sections alone fill a bitmap only if it has no bit more.
LEMMA SectionsAlone ==
    ASSUME NEW slot, slot.size \in Nat \ {0},
           slot.bits \subseteq 0 .. GetRequiredSections(slot.size) - 1
    PROVE  SectionsSuffice(slot)
             <=> GetRequiredSections(slot.size) = BitmapSize(slot.size)
<1> DEFINE req == GetRequiredSections(slot.size)
           bitmap == BitmapSize(slot.size)
<1>1. /\ req \in Nat \ {0}
      /\ bitmap \in Nat
  BY SectionsFit, FormatAssumption DEF BitmapSize
<1>2. slot.bits \union 0 .. req - 1 = 0 .. req - 1
  OBVIOUS
<1>3. SectionsSuffice(slot) <=> 0 .. req - 1 = 0 .. bitmap - 1
  BY <1>2 DEF SectionsSuffice, BitsDone
<1> HIDE DEF req, bitmap
<1>4. ASSUME 0 .. req - 1 = 0 .. bitmap - 1 PROVE req = bitmap
  <2>1. \A n \in Nat : n < req <=> n < bitmap
    BY <1>1, <1>4
  <2>2. ~(req < bitmap) /\ ~(bitmap < req)
    BY <1>1, <2>1
  <2>3. QED
    BY <1>1, <2>2
<1>5. QED
  BY <1>3, <1>4 DEF req, bitmap

\* Whether a packet can be completed is a matter of its bitmap.
LEMMA SameSuffices ==
    ASSUME NEW a, NEW b, SamePacket(a, b)
    PROVE  SectionsSuffice(a) <=> SectionsSuffice(b)
  BY DEF SamePacket, SectionsSuffice

LEMMA SameRevision ==
    ASSUME NEW slot, slot.rev \in Int
    PROVE  Completable(slot, slot.rev) <=> SectionsSuffice(slot)
  BY DEF Completable

LEMMA DoneSuffices ==
    ASSUME NEW slot, slot.size \in Nat \ {0}, BitsDone(slot.bits, slot.size)
    PROVE  SectionsSuffice(slot)
<1> DEFINE req == GetRequiredSections(slot.size)
           bitmap == BitmapSize(slot.size)
<1>1. /\ req \in Nat /\ bitmap \in Nat /\ req <= bitmap
  BY SectionsFit, FormatAssumption DEF BitmapSize
<1>2. slot.bits = 0 .. bitmap - 1
  BY DEF BitsDone
<1> HIDE DEF req, bitmap
<1>3. slot.bits \union 0 .. req - 1 = 0 .. bitmap - 1
  BY <1>1, <1>2
<1>4. QED
  BY <1>3 DEF req, bitmap, SectionsSuffice, BitsDone

\* A section the packet has fills a place the sections to come would fill.
LEMMA StoredCompletable ==
    ASSUME IInv, NEW d \in Datagrams, NEW t \in Tables, NEW i \in Slots,
           Stored(t, i, d), NEW j \in Live(table)
    PROVE  /\ j \in Live(t) /\ t.info[j].id = table.info[j].id
           /\ SectionsSuffice(t.info[j])
                <=> Completable(table.info[j], t.info[j].rev)
<1>1. /\ TableInv(t) /\ TableInv(table)
      /\ KeepsPackets(table, t, Live(table) \ {i})
      /\ Live(t) = Live(table) \union {i}
      /\ t.info[i].id = IdOf[d.pkt]
      /\ Opened(t, i, d) \/ Continued(t, i, d) \/ Revised(t, i, d)
  BY DEF Stored, IInv
<1>2. /\ j \in Live(t) /\ t.info[j].rev \in Int /\ table.info[j].rev \in Int
      /\ t.info[j].size = SizeOf[t.info[j].id] /\ t.info[j].size \in Nat \ {0}
      /\ table.info[j].size = SizeOf[table.info[j].id]
  BY <1>1, LiveSize DEF Rev
<1>3. CASE j # i
  <2>1. SamePacket(table.info[j], t.info[j])
    BY <1>1, <1>3 DEF KeepsPackets
  <2>2. t.info[j].rev = table.info[j].rev /\ t.info[j].id = table.info[j].id
    BY <2>1 DEF SamePacket
  <2>3. QED
    BY <1>2, <2>1, <2>2, SameSuffices, SameRevision
<1>4. CASE j = i /\ Continued(t, i, d)
  <2>1. /\ t.info[j].id = table.info[j].id
        /\ t.info[j].rev = table.info[j].rev
        /\ t.info[j].bits = table.info[j].bits \union {d.index}
        /\ d.index \in 0 .. GetRequiredSections(table.info[j].size) - 1
    BY <1>1, <1>2, <1>4 DEF Continued, Sections
  <2>2. t.info[j].bits \union 0 .. GetRequiredSections(table.info[j].size) - 1
          = table.info[j].bits \union 0 .. GetRequiredSections(table.info[j].size) - 1
    BY <2>1
  <2>3. SectionsSuffice(t.info[j]) <=> SectionsSuffice(table.info[j])
    BY <1>2, <2>1, <2>2 DEF SectionsSuffice
  <2>4. QED
    BY <1>2, <2>1, <2>3, SameRevision
<1>5. CASE j = i /\ Revised(t, i, d)
  <2>1. /\ t.info[j].id = table.info[j].id
        /\ t.info[j].rev > table.info[j].rev
        /\ t.info[j].bits = {d.index}
        /\ d.index \in 0 .. GetRequiredSections(t.info[j].size) - 1
    BY <1>1, <1>2, <1>5 DEF Revised, Sections
  <2>2. SectionsSuffice(t.info[j])
          <=> GetRequiredSections(t.info[j].size) = BitmapSize(t.info[j].size)
    BY <1>2, <2>1, SectionsAlone
  <2>3. QED
    BY <1>2, <2>1, <2>2 DEF Completable
<1>6. QED
  BY <1>1, <1>3, <1>4, <1>5 DEF Opened

LEMMA RevisionStepHolds ==
    ASSUME IInv, Silence, [Next]_vars
    PROVE  RevisionStep
<1> SUFFICES ASSUME NEW j \in Live(table)
             PROVE  /\ j \in Live(table') =>
                          (SectionsSuffice(table'.info[j])
                            <=> Completable(table.info[j], table'.info[j].rev))
                    /\ \A n \in DOMAIN delivered' \ DOMAIN delivered :
                          delivered'[n].id = table.info[j].id =>
                              Completable(table.info[j], delivered'[n].rev)
  BY DEF RevisionStep
<1>1. CASE Quiet
  <2>1. delivered' = delivered /\ KeepsPackets(table, table', Live(table'))
    BY <1>1 DEF Quiet
  <2>2. ASSUME j \in Live(table')
        PROVE  SectionsSuffice(table'.info[j])
                 <=> Completable(table.info[j], table'.info[j].rev)
    <3>1. SamePacket(table.info[j], table'.info[j])
      BY <2>1, <2>2 DEF KeepsPackets
    <3>2. table'.info[j].rev = table.info[j].rev /\ table.info[j].rev \in Int
      BY <3>1, LiveSize DEF SamePacket, IInv, Rev
    <3>3. QED
      BY <3>1, <3>2, SameSuffices, SameRevision
  <2>3. QED
    BY <2>1, <2>2
<1>2. ASSUME NEW d \in Datagrams, NEW t \in Tables, NEW i \in Slots,
             Stored(t, i, d), Finish(t, i, d)
      PROVE  /\ j \in Live(table') =>
                   (SectionsSuffice(table'.info[j])
                     <=> Completable(table.info[j], table'.info[j].rev))
             /\ \A n \in DOMAIN delivered' \ DOMAIN delivered :
                   delivered'[n].id = table.info[j].id =>
                       Completable(table.info[j], delivered'[n].rev)
  <2>1. /\ j \in Live(t) /\ t.info[j].id = table.info[j].id
        /\ SectionsSuffice(t.info[j]) <=> Completable(table.info[j], t.info[j].rev)
    BY <1>2, StoredCompletable
  <2>2. TableInv(t) /\ i \in Live(t)
    BY <1>2 DEF Stored
  <2>3. CASE ~ReadPacketDone(t, i)
    <3>1. table' = t /\ delivered' = delivered
      BY <1>2, <2>3 DEF Finish
    <3>2. QED
      BY <2>1, <3>1
  <2>4. CASE ReadPacketDone(t, i)
    <3> DEFINE packet == [id |-> t.info[i].id, rev |-> t.info[i].rev,
                          data |-> Contents(t, i)]
    <3>1. /\ delivered' = Append(delivered, packet)
          /\ table' = FreeReadPacket(t, i)
      BY <1>2, <2>4 DEF Finish
    <3>2. /\ Live(table') = Live(t) \ {i}
          /\ KeepsPackets(t, table', Live(t) \ {i})
      BY <2>2, <3>1, FreePreserves, FreeKeeps
    <3>3. ASSUME j \in Live(table')
          PROVE  SectionsSuffice(table'.info[j])
                   <=> Completable(table.info[j], table'.info[j].rev)
      <4>1. SamePacket(t.info[j], table'.info[j])
        BY <3>2, <3>3 DEF KeepsPackets
      <4>2. table'.info[j].rev = t.info[j].rev
        BY <4>1 DEF SamePacket
      <4>3. QED
        BY <2>1, <4>1, <4>2, SameSuffices
    <3>4. packet.id = t.info[i].id /\ packet.rev = t.info[i].rev
      OBVIOUS
    <3> HIDE DEF packet
    <3>5. ASSUME NEW n \in DOMAIN delivered' \ DOMAIN delivered,
                 delivered'[n].id = table.info[j].id
          PROVE  Completable(table.info[j], delivered'[n].rev)
      <4>1. delivered'[n] = packet
        BY <3>1 DEF IInv, TypeOK
      <4>2. j = i
        BY <2>1, <2>2, <3>4, <3>5, <4>1 DEF TableInv, UniqueIds
      <4>3. t.info[i].size \in Nat \ {0}
        BY <2>2, LiveSize
      <4>4. SectionsSuffice(t.info[i])
        BY <2>4, <4>3, DoneSuffices DEF ReadPacketDone
      <4>5. QED
        BY <2>1, <3>4, <4>1, <4>2, <4>4
    <3>6. QED
      BY <3>3, <3>5
  <2>5. QED
    BY <2>3, <2>4
<1>3. QED
  BY <1>1, <1>2, StepCases

\* A packet that has been revised is delivered only if its sections fill the
\* bitmap: the revision takes the padding away with the sections, and nothing
\* but another revision changes whether the packet can be completed.
THEOREM RevisionCorrectness == Spec => RevisionStrands
<1>1. IInv /\ Silence /\ [Next]_vars => [RevisionStep]_vars
  BY RevisionStepHolds
<1>2. Spec => [][RevisionStep]_vars
  BY <1>1, Invariance, WindowInvariance, PTL DEF Spec
<1>3. QED
  BY <1>2 DEF RevisionStrands, RevisionStep

-----------------------------------------------------------------------------
(***************************************************************************)
(* What a read buffer is good for.  The bytes of a packet are never given  *)
(* back: what has been delivered and what is in the table fit the used     *)
(* part together.                                                          *)
(***************************************************************************)
LEMMA Smallest ==
    ASSUME NEW D, D \subseteq Nat, D # {}
    PROVE  \E n \in D : \A m \in D : n <= m
<1> DEFINE Less == OpToRel(<, Nat)
<1>1. IsWellFoundedOn(Less, Nat)
  BY NatLessThanWellFounded
<1>2. \A m, n \in Nat : m < n => <<m, n>> \in Less
  BY DEF OpToRel
<1> HIDE DEF Less
<1>3. PICK n \in D : \A m \in D : <<m, n>> \notin Less
  BY <1>1, WFMin
<1>4. ASSUME NEW m \in D PROVE n <= m
  <2>1. m \in Nat /\ n \in Nat /\ ~(m < n)
    BY <1>2, <1>3
  <2>2. QED
    BY <2>1
<1>5. QED
  BY <1>4

\* sum[n] is the size of the first n packets.
Sums(packets, sum) ==
    sum = [n \in 0 .. Len(packets) |->
              IF n = 0 THEN 0 ELSE sum[n - 1] + SizeOf[packets[n].id]]

\* TotalSize is defined by such a sum, and there is one only.
LEMMA TotalSizeIsSum ==
    ASSUME NEW S, NEW packets \in Seq(S), NEW sum, Sums(packets, sum)
    PROVE  TotalSize(packets) = sum[Len(packets)]
<1> DEFINE len == Len(packets)
           other == CHOOSE f : Sums(packets, f)
           D == { n \in 0 .. len : sum[n] # other[n] }
<1>1. Sums(packets, other)
  OBVIOUS
<1>2. TotalSize(packets) = other[len]
  BY DEF TotalSize, Sums
<1>3. len \in Nat
  OBVIOUS
<1> HIDE DEF other
<1>4. D = {}
  <2> SUFFICES ASSUME D # {} PROVE FALSE
    OBVIOUS
  <2>1. D \subseteq Nat
    BY <1>3
  <2>2. \A n \in 0 .. len : sum[n] = other[n] \/ n \in D
    OBVIOUS
  <2>3. \A n \in D : n \in 0 .. len /\ sum[n] # other[n]
    OBVIOUS
  <2> HIDE DEF D
  <2>4. PICK n \in D : \A m \in D : n <= m
    BY <2>1, Smallest
  <2>5. n \in 0 .. len /\ sum[n] # other[n]
    BY <2>3
  <2>6. n # 0
    BY <1>1, <1>3, <2>5 DEF Sums
  <2>7. n - 1 \in 0 .. len /\ sum[n - 1] = other[n - 1]
    <3>1. n - 1 \in 0 .. len /\ ~(n <= n - 1)
      BY <1>3, <2>5, <2>6
    <3>2. QED
      BY <2>2, <2>4, <3>1
  <2>8. /\ sum[n] = sum[n - 1] + SizeOf[packets[n].id]
        /\ other[n] = other[n - 1] + SizeOf[packets[n].id]
    BY <1>1, <2>5, <2>6 DEF Sums
  <2>9. QED
    BY <2>5, <2>7, <2>8
<1>5. QED
  BY <1>2, <1>3, <1>4

LEMMA SumsAppend ==
    ASSUME NEW S, NEW packets \in Seq(S), NEW packet \in S,
           NEW sum, Sums(packets, sum)
    PROVE  \E new : /\ Sums(Append(packets, packet), new)
                    /\ new[Len(packets) + 1]
                         = sum[Len(packets)] + SizeOf[packet.id]
<1> DEFINE len == Len(packets)
           longer == Append(packets, packet)
           new == [n \in 0 .. len + 1 |->
                      IF n = len + 1 THEN sum[len] + SizeOf[packet.id] ELSE sum[n]]
<1>1. /\ len \in Nat /\ Len(longer) = len + 1
      /\ longer[len + 1] = packet
      /\ \A n \in 1 .. len : longer[n] = packets[n]
  OBVIOUS
<1>2. \A n \in 0 .. len :
         sum[n] = IF n = 0 THEN 0 ELSE sum[n - 1] + SizeOf[packets[n].id]
  BY DEF Sums
<1>3. \A n \in 0 .. len + 1 :
         new[n] = IF n = len + 1 THEN sum[len] + SizeOf[packet.id] ELSE sum[n]
  OBVIOUS
<1>4. DOMAIN new = 0 .. len + 1 /\ new = [n \in 0 .. len + 1 |-> new[n]]
  OBVIOUS
<1> HIDE DEF new, longer, len
<1>5. ASSUME NEW n \in 0 .. len + 1
      PROVE  new[n] = IF n = 0 THEN 0 ELSE new[n - 1] + SizeOf[longer[n].id]
  <2>1. CASE n = len + 1
    <3>1. /\ n # 0 /\ n - 1 = len /\ len \in 0 .. len + 1 /\ len # len + 1
      BY <1>1, <2>1
    <3>2. new[n - 1] = sum[len] /\ longer[n] = packet
      BY <1>1, <1>3, <2>1, <3>1
    <3>3. QED
      BY <1>3, <2>1, <3>1, <3>2
  <2>2. CASE n = 0
    BY <1>1, <1>2, <1>3, <2>2
  <2>3. CASE n \in 1 .. len
    <3>1. /\ n - 1 \in 0 .. len + 1 /\ n - 1 # len + 1 /\ n # len + 1
          /\ n \in 0 .. len /\ n # 0
      BY <1>1, <2>3
    <3>2. new[n - 1] = sum[n - 1] /\ new[n] = sum[n] /\ longer[n] = packets[n]
      BY <1>1, <1>3, <2>3, <3>1
    <3>3. QED
      BY <1>2, <3>1, <3>2
  <2>4. QED
    BY <1>1, <2>1, <2>2, <2>3
<1>6. Sums(longer, new)
  <2>1. new = [n \in 0 .. Len(longer) |->
                  IF n = 0 THEN 0 ELSE new[n - 1] + SizeOf[longer[n].id]]
    BY <1>1, <1>4, <1>5
  <2>2. QED
    BY <2>1 DEF Sums
<1>7. new[len + 1] = sum[len] + SizeOf[packet.id]
  BY <1>1, <1>3
<1>8. QED
  BY <1>6, <1>7 DEF longer, len

\* The size of the packet in slot i, if there is one.
Weight(t, i) == IF i \in Live(t) THEN t.info[i].size ELSE 0

\* total[i] is the size of the packets in the first i slots.
Totals(t, total) ==
    /\ total \in [0 .. MaxReadPackets -> Nat]
    /\ \A i \in Slots : total[i + 1] = total[i] + Weight(t, i)
    /\ \A m, n \in 0 .. MaxReadPackets : m <= n => total[m] <= total[n]

LEMMA WeightType ==
    ASSUME NEW t, TableInv(t), NEW i \in Slots
    PROVE  /\ Weight(t, i) \in Nat
           /\ i \in Nat /\ i < MaxReadPackets /\ MaxReadPackets \in Nat
           /\ i \in 0 .. MaxReadPackets /\ i + 1 \in 0 .. MaxReadPackets
<1>1. Weight(t, i) \in Nat
  BY LiveSize DEF Weight
<1>2. QED
  BY <1>1, ReadTableAssumption DEF Slots

\* A change of the weight of one slot moves the totals behind it.
LEMMA TotalsChange ==
    ASSUME NEW t, TableInv(t), NEW u, TableInv(u), NEW total, Totals(t, total),
           NEW i \in Slots, NEW d \in Int, Weight(u, i) = Weight(t, i) + d,
           \A j \in Slots \ {i} : Weight(u, j) = Weight(t, j)
    PROVE  \E new : /\ Totals(u, new)
                    /\ new[MaxReadPackets] = total[MaxReadPackets] + d
<1> DEFINE new == [n \in 0 .. MaxReadPackets |->
                      IF n <= i THEN total[n] ELSE total[n] + d]
<1>1. /\ i \in Nat /\ i + 1 \in 0 .. MaxReadPackets /\ MaxReadPackets \in Nat
      /\ Weight(t, i) \in Nat /\ Weight(u, i) \in Nat /\ i < MaxReadPackets
  BY WeightType
<1>2. /\ \A n \in 0 .. MaxReadPackets : total[n] \in Nat
      /\ total[i + 1] = total[i] + Weight(t, i)
      /\ \A m, n \in 0 .. MaxReadPackets : m <= n => total[m] <= total[n]
  BY DEF Totals
<1>3. \A n \in 0 .. MaxReadPackets :
         new[n] = IF n <= i THEN total[n] ELSE total[n] + d
  OBVIOUS
<1>4. \A n \in 0 .. MaxReadPackets :
         n > i => total[i] + Weight(u, i) <= total[n] + d
  <2> SUFFICES ASSUME NEW n \in 0 .. MaxReadPackets, n > i
               PROVE  total[i] + Weight(u, i) <= total[n] + d
    OBVIOUS
  <2>1. i + 1 <= n
    BY <1>1
  <2>2. total[i + 1] <= total[n]
    BY <1>1, <1>2, <2>1
  <2>3. QED
    BY <1>1, <1>2, <2>2
<1>5. new \in [0 .. MaxReadPackets -> Nat]
  <2> SUFFICES ASSUME NEW n \in 0 .. MaxReadPackets PROVE new[n] \in Nat
    OBVIOUS
  <2>1. CASE n <= i
    BY <1>2, <2>1
  <2>2. CASE n > i
    BY <1>1, <1>2, <1>4, <2>2
  <2>3. QED
    BY <1>1, <2>1, <2>2
<1> HIDE DEF new
<1>6. \A j \in Slots : new[j + 1] = new[j] + Weight(u, j)
  <2> SUFFICES ASSUME NEW j \in Slots PROVE new[j + 1] = new[j] + Weight(u, j)
    OBVIOUS
  <2>1. /\ j \in 0 .. MaxReadPackets /\ j + 1 \in 0 .. MaxReadPackets
        /\ j \in Nat /\ Weight(t, j) \in Nat
    BY WeightType
  <2>2. total[j + 1] = total[j] + Weight(t, j)
    BY DEF Totals
  <2>3. CASE j = i
    BY <1>1, <1>2, <1>3, <2>1, <2>2, <2>3
  <2>4. CASE j < i
    <3>1. new[j] = total[j] /\ new[j + 1] = total[j + 1]
      BY <1>1, <1>3, <2>1, <2>4
    <3>2. QED
      BY <2>1, <2>2, <2>4, <3>1
  <2>5. CASE j > i
    <3>1. new[j] = total[j] + d /\ new[j + 1] = total[j + 1] + d
      BY <1>1, <1>3, <2>1, <2>5
    <3>2. QED
      BY <1>2, <2>1, <2>2, <2>5, <3>1
  <2>6. QED
    BY <1>1, <2>1, <2>3, <2>4, <2>5
<1>7. \A m, n \in 0 .. MaxReadPackets : m <= n => new[m] <= new[n]
  <2> SUFFICES ASSUME NEW m \in 0 .. MaxReadPackets,
                      NEW n \in 0 .. MaxReadPackets, m <= n
               PROVE  new[m] <= new[n]
    OBVIOUS
  <2>1. total[m] <= total[n] /\ total[m] \in Nat /\ total[n] \in Nat
    BY <1>2
  <2>2. CASE n <= i
    BY <1>1, <1>3, <2>1, <2>2
  <2>3. CASE m > i
    BY <1>1, <1>3, <2>1, <2>3
  <2>4. CASE m <= i /\ n > i
    <3>1. i \in 0 .. MaxReadPackets
      BY <1>1
    <3>2. total[m] <= total[i] /\ total[i] \in Nat
      BY <1>2, <2>4, <3>1
    <3>3. total[i] + Weight(u, i) <= total[n] + d
      BY <1>4, <2>4
    <3>4. new[m] = total[m] /\ new[n] = total[n] + d
      BY <1>1, <1>3, <2>4
    <3>5. QED
      BY <1>1, <2>1, <3>2, <3>3, <3>4
  <2>5. QED
    BY <1>1, <2>2, <2>3, <2>4
<1>8. new[MaxReadPackets] = total[MaxReadPackets] + d
  BY <1>1, <1>3
<1>9. QED
  BY <1>5, <1>6, <1>7, <1>8 DEF Totals

(***************************************************************************)
(* What the packets in the table and a sum of deliveries account for.      *)
(***************************************************************************)
Accounted(t, sum) ==
    \E total : Totals(t, total) /\ sum + total[MaxReadPackets] <= t.used - ScratchSize

LEMMA AccountedBound ==
    ASSUME NEW t, TableInv(t), NEW sum \in Int, Accounted(t, sum)
    PROVE  sum <= t.used - ScratchSize
<1>1. PICK total : /\ Totals(t, total)
                   /\ sum + total[MaxReadPackets] <= t.used - ScratchSize
  BY DEF Accounted
<1>2. total[MaxReadPackets] \in Nat
  BY <1>1, ReadTableAssumption DEF Totals
<1>3. t.used \in Int /\ ScratchSize \in Int
  BY BufferAssumption DEF TableInv, Tables, BufferSize
<1>4. QED
  BY <1>1, <1>2, <1>3

\* The weight of slot i changes by d, the used part by more or as much.
LEMMA AccountedChange ==
    ASSUME NEW t, TableInv(t), NEW u, TableInv(u),
           NEW sum \in Int, NEW more \in Int, Accounted(t, sum),
           NEW i \in Slots, \A j \in Slots \ {i} : Weight(u, j) = Weight(t, j),
           Weight(u, i) - Weight(t, i) + more <= u.used - t.used
    PROVE  Accounted(u, sum + more)
<1> DEFINE d == Weight(u, i) - Weight(t, i)
<1>1. PICK total : /\ Totals(t, total)
                   /\ sum + total[MaxReadPackets] <= t.used - ScratchSize
  BY DEF Accounted
<1>2. d \in Int /\ Weight(u, i) = Weight(t, i) + d
  BY WeightType
<1>3. d + more <= u.used - t.used
  OBVIOUS
<1> HIDE DEF d
<1>4. PICK new : /\ Totals(u, new)
                 /\ new[MaxReadPackets] = total[MaxReadPackets] + d
  BY <1>1, <1>2, TotalsChange
<1>5. total[MaxReadPackets] \in Nat
  BY <1>1, ReadTableAssumption DEF Totals
<1>6. t.used \in Int /\ u.used \in Int /\ ScratchSize \in Int
  BY BufferAssumption DEF TableInv, Tables, BufferSize
<1>7. (sum + more) + new[MaxReadPackets] <= u.used - ScratchSize
  BY <1>1, <1>2, <1>3, <1>4, <1>5, <1>6
<1>8. QED
  BY <1>4, <1>7 DEF Accounted

LEMMA AccountedSame ==
    ASSUME NEW t, NEW u, NEW sum, Accounted(t, sum), u.used = t.used,
           \A j \in Slots : Weight(u, j) = Weight(t, j)
    PROVE  Accounted(u, sum)
<1>1. PICK total : /\ Totals(t, total)
                   /\ sum + total[MaxReadPackets] <= t.used - ScratchSize
  BY DEF Accounted
<1>2. Totals(u, total)
  BY <1>1 DEF Totals
<1>3. QED
  BY <1>1, <1>2 DEF Accounted

LEMMA FreeAccounted ==
    ASSUME NEW t, TableInv(t), NEW i \in Live(t), NEW u, TableInv(u),
           Live(u) = Live(t) \ {i}, KeepsPackets(t, u, Live(u)), u.used = t.used,
           NEW sum \in Int, Accounted(t, sum),
           NEW more \in Int, more <= t.info[i].size
    PROVE  Accounted(u, sum + more)
<1>1. i \in Slots /\ t.info[i].size \in Nat
  BY LiveSize
<1>2. \A j \in Slots \ {i} : Weight(u, j) = Weight(t, j)
  BY DEF Weight, KeepsPackets, SamePacket
<1>3. Weight(u, i) = 0 /\ Weight(t, i) = t.info[i].size
  BY <1>1 DEF Weight
<1>4. t.used \in Int
  BY BufferAssumption DEF TableInv, Tables, BufferSize
<1>5. Weight(u, i) - Weight(t, i) + more <= u.used - t.used
  BY <1>1, <1>3, <1>4
<1>6. QED
  BY <1>1, <1>2, <1>5, AccountedChange

LEMMA StoredAccounted ==
    ASSUME IInv, NEW d \in Datagrams, NEW t \in Tables, NEW i \in Slots,
           Stored(t, i, d), NEW sum \in Int, Accounted(table, sum)
    PROVE  Accounted(t, sum)
<1>1. /\ TableInv(t) /\ TableInv(table) /\ i \in Live(t)
      /\ Live(t) = Live(table) \union {i}
      /\ KeepsPackets(table, t, Live(table) \ {i})
      /\ Opened(t, i, d) \/ Continued(t, i, d) \/ Revised(t, i, d)
  BY DEF Stored, IInv
<1>2. \A j \in Slots \ {i} : Weight(t, j) = Weight(table, j)
  BY <1>1 DEF Weight, KeepsPackets, SamePacket
<1>3. /\ Weight(t, i) = t.info[i].size /\ t.info[i].size \in Nat
      /\ t.info[i].size = SizeOf[t.info[i].id]
  BY <1>1, LiveSize DEF Weight
<1>4. table.used \in Int
  BY <1>1, BufferAssumption DEF TableInv, Tables, BufferSize
<1>5. Weight(t, i) - Weight(table, i) + 0 <= t.used - table.used
  <2>1. CASE Opened(t, i, d)
    <3>1. Weight(table, i) = 0 /\ t.used = table.used + t.info[i].size
      BY <2>1 DEF Opened, Weight
    <3>2. QED
      BY <1>3, <1>4, <3>1
  <2>2. ASSUME i \in Live(table), table.info[i].id = t.info[i].id
        PROVE  Weight(table, i) = t.info[i].size
    BY <1>1, <1>3, <2>2, LiveSize DEF Weight
  <2>3. CASE Continued(t, i, d)
    <3>1. Weight(table, i) = t.info[i].size /\ t.used = table.used
      BY <2>2, <2>3 DEF Continued
    <3>2. QED
      BY <1>3, <1>4, <3>1
  <2>4. CASE Revised(t, i, d)
    <3>1. Weight(table, i) = t.info[i].size /\ t.used = table.used + t.info[i].size
      BY <2>2, <2>4 DEF Revised
    <3>2. QED
      BY <1>3, <1>4, <3>1
  <2>5. QED
    BY <1>1, <2>1, <2>3, <2>4
<1>6. Accounted(t, sum + 0)
  BY <1>1, <1>2, <1>5, AccountedChange
<1>7. QED
  BY <1>6

LifetimeAccount ==
    \E sum : /\ Sums(delivered, sum)
             /\ sum[Len(delivered)] \in Nat
             /\ Accounted(table, sum[Len(delivered)])

LEMMA LifetimePreserved ==
    ASSUME IInv, Silence, LifetimeAccount, [Next]_vars
    PROVE  LifetimeAccount'
<1> PICK sum : /\ Sums(delivered, sum)
               /\ sum[Len(delivered)] \in Nat
               /\ Accounted(table, sum[Len(delivered)])
  BY DEF LifetimeAccount
<1> DEFINE all == sum[Len(delivered)]
<1>1. CASE Quiet
  <2>1. /\ delivered' = delivered /\ table'.used = table.used
        /\ TableInv(table') /\ TableInv(table)
        /\ KeepsPackets(table, table', Live(table'))
    BY <1>1 DEF Quiet, IInv
  <2>2. CASE Live(table') = Live(table)
    <3>1. \A j \in Slots : Weight(table', j) = Weight(table, j)
      BY <2>1, <2>2 DEF Weight, KeepsPackets, SamePacket
    <3>2. Accounted(table', all)
      BY <2>1, <3>1, AccountedSame
    <3>3. QED
      BY <2>1, <3>2 DEF LifetimeAccount
  <2>3. CASE \E i \in Live(table) : Live(table') = Live(table) \ {i}
    <3>1. PICK i \in Live(table) : Live(table') = Live(table) \ {i}
      BY <2>3
    <3>2. 0 \in Int /\ 0 <= table.info[i].size /\ all \in Int
      BY <2>1, LiveSize
    <3>3. Accounted(table', all + 0)
      BY <2>1, <3>1, <3>2, FreeAccounted
    <3>4. Accounted(table', all)
      BY <3>2, <3>3
    <3>5. QED
      BY <2>1, <3>4 DEF LifetimeAccount
  <2>4. QED
    BY <1>1, <2>2, <2>3 DEF Quiet
<1>2. ASSUME NEW d \in Datagrams, NEW t \in Tables, NEW i \in Slots,
             Stored(t, i, d), Finish(t, i, d)
      PROVE  LifetimeAccount'
  <2>1. TableInv(t) /\ i \in Live(t) /\ Accounted(t, all) /\ all \in Int
    BY <1>2, StoredAccounted DEF Stored
  <2>2. CASE ~ReadPacketDone(t, i)
    <3>1. table' = t /\ delivered' = delivered
      BY <1>2, <2>2 DEF Finish
    <3>2. QED
      BY <2>1, <3>1 DEF LifetimeAccount
  <2>3. CASE ReadPacketDone(t, i)
    <3> DEFINE packet == Handed(t, i)
               size == t.info[i].size
    <3>1. delivered' = Append(delivered, packet) /\ table' = FreeReadPacket(t, i)
      BY <1>2, <2>3 DEF Finish, Handed
    <3>2. /\ packet \in DeliveryType /\ delivered \in Seq(DeliveryType)
          /\ size = SizeOf[packet.id] /\ size \in Nat
      BY <1>2, <2>1, HandedType, LiveSize
    <3> HIDE DEF packet
    <3>3. PICK new : /\ Sums(delivered', new)
                     /\ new[Len(delivered) + 1] = all + SizeOf[packet.id]
      BY <3>1, <3>2, SumsAppend
    <3>4. Len(delivered') = Len(delivered) + 1
      BY <3>1, <3>2
    <3>5. /\ TableInv(table') /\ Live(table') = Live(t) \ {i}
          /\ KeepsPackets(t, table', Live(table'))
          /\ table'.used = t.used
      BY <2>1, <3>1, FreePreserves, FreeKeeps
    <3>6. size \in Int /\ size <= t.info[i].size
      BY <3>2
    <3>7. Accounted(table', all + size)
      BY <2>1, <3>5, <3>6, FreeAccounted
    <3>8. new[Len(delivered')] = all + size /\ all + size \in Nat
      BY <3>2, <3>3, <3>4
    <3>9. QED
      BY <3>3, <3>7, <3>8 DEF LifetimeAccount
  <2>4. QED
    BY <2>2, <2>3
<1>3. QED
  BY <1>1, <1>2, StepCases

LEMMA LifetimeInit == Init => LifetimeAccount
<1> SUFFICES ASSUME Init PROVE LifetimeAccount
  OBVIOUS
<1> DEFINE sum == [n \in 0 .. Len(delivered) |-> 0]
           total == [n \in 0 .. MaxReadPackets |-> 0]
<1>1. /\ delivered = << >> /\ Len(delivered) = 0
      /\ table = EmptyTable /\ Live(table) = {} /\ table.used = ScratchSize
  BY EmptyTableInv DEF Init, EmptyTable
<1>2. Sums(delivered, sum) /\ sum[Len(delivered)] = 0
  BY <1>1 DEF Sums
<1>3. Totals(table, total) /\ total[MaxReadPackets] = 0
  BY <1>1, ReadTableAssumption DEF Totals, Weight, Slots
<1> HIDE DEF sum, total
<1>4. Accounted(table, 0)
  BY <1>1, <1>3, BufferAssumption DEF Accounted
<1>5. QED
  BY <1>2, <1>4 DEF LifetimeAccount

\* Everything a handler delivers in its life has to fit its read buffer once:
\* used counts it, whatever was freed in between.
THEOREM CapacityCorrectness == Spec => []LifetimeCapacity
<1>1. Init => Silence /\ LifetimeAccount
  BY LifetimeInit DEF Init, Silence
<1>2. IInv /\ (Silence /\ LifetimeAccount) /\ [Next]_vars
        => (Silence /\ LifetimeAccount)'
  BY SilencePreserved, LifetimePreserved
<1>3. IInv /\ LifetimeAccount => LifetimeCapacity
  <2> SUFFICES ASSUME IInv, LifetimeAccount PROVE LifetimeCapacity
    OBVIOUS
  <2>1. PICK sum : /\ Sums(delivered, sum)
                   /\ sum[Len(delivered)] \in Nat
                   /\ Accounted(table, sum[Len(delivered)])
    BY DEF LifetimeAccount
  <2>2. TotalSize(delivered) = sum[Len(delivered)]
    BY <2>1, TotalSizeIsSum DEF IInv, TypeOK
  <2>3. sum[Len(delivered)] <= table.used - ScratchSize
    BY <2>1, AccountedBound DEF IInv
  <2>4. QED
    BY <2>2, <2>3 DEF LifetimeCapacity
<1>4. QED
  BY <1>1, <1>2, <1>3, Invariance, PTL DEF Spec

-----------------------------------------------------------------------------
(***************************************************************************)
(* PacketReader implements PacketDelivery.  Under the refinement mapping a *)
(* step that opens a slot is Begin, one that frees a slot without a        *)
(* delivery is Abandon, one that completes a packet is Deliver, and all    *)
(* others stutter.                                                         *)
(***************************************************************************)
Receiving(t) == { t.info[i].id : i \in Live(t) }

Ignored(ring, len) ==
    { ring.elems[k] : k \in { j \in Position : j >= len } } \ {NoId}

\* What PacketDelivery calls recent or ignored is in the ring.
LEMMA RecentIsContained ==
    ASSUME IInv, Remembers(handled, delivered), NEW id,
           id \in Delivery!Recent \union Ignored(handled, Len(delivered))
    PROVE  Contains(handled, id)
<1>1. CASE id \in Delivery!Recent
  <2>1. PICK n \in DOMAIN delivered : /\ n > Len(delivered) - RingSize
                                      /\ id = delivered[n].id
    BY <1>1 DEF Delivery!Recent
  <2>2. n \in 1 .. Len(delivered) /\ delivered \in Seq(DeliveryType)
    BY <2>1 DEF IInv, TypeOK, DeliveryType
  <2>3. QED
    BY <2>1, <2>2, RememberedIsContained
<1>2. CASE id \in Ignored(handled, Len(delivered))
  BY <1>2 DEF Ignored, Contains
<1>3. QED
  BY <1>1, <1>2

\* A delivery takes one id at most from those ignored.
LEMMA InsertShrinksIgnored ==
    ASSUME NEW V, NEW ring \in RotatingArrays(V), NEW v, NEW len \in Nat,
           ring.index = len % RingSize
    PROVE  Ignored(Insert(ring, v), len + 1) \subseteq Ignored(ring, len)
<1>1. /\ ring.elems \in [Position -> V]
      /\ Insert(ring, v).elems = [ring.elems EXCEPT ![ring.index] = v]
  BY DEF RotatingArrays, Insert
<1>2. ASSUME NEW k \in Position, k >= len + 1
      PROVE  k >= len /\ Insert(ring, v).elems[k] = ring.elems[k]
  <2>1. len \in 0 .. RingSize - 1 /\ k # len /\ RingSize \in Nat \ {0}
    BY <1>2, RotatingArrayAssumption DEF Position
  <2>2. RingSize * 0 = 0
    BY <2>1
  <2>3. len = RingSize * 0 + len
    BY <2>2
  <2>4. len % RingSize = len
    BY <2>1, <2>3, DivisionUnique
  <2>5. QED
    BY <1>1, <1>2, <2>1, <2>4 DEF Position
<1>3. QED
  BY <1>2 DEF Ignored

\* WholeMessages, id by id and message by message.
Message(id, r, origin) ==
    [id |-> id, rev |-> r,
     data |-> [c \in 1 .. SizeOf[id] |-> <<origin[c], r, c - 1>>]]

MessagesOf(id) ==
    { Message(id, r, origin) :
         r \in Rev, origin \in [1 .. SizeOf[id] -> { p \in Packets : IdOf[p] = id }] }

\* A whole delivery is a message of PacketDelivery.
LEMMA WholeIsMessage ==
    ASSUME NEW m, NEW id \in Ids, NEW rev \in Rev, NEW data \in Seq(Cell),
           m = [id |-> id, rev |-> rev, data |-> data], Whole(m)
    PROVE  m \in WholeMessages
<1> DEFINE origin == [c \in 1 .. SizeOf[id] |->
                         CHOOSE p \in Packets : IdOf[p] = id
                                                /\ data[c] = <<p, rev, c - 1>>]
           senders == { p \in Packets : IdOf[p] = id }
<1>1. /\ Len(data) = SizeOf[id] /\ DOMAIN data = 1 .. SizeOf[id]
      /\ \A c \in 1 .. SizeOf[id] : \E p \in Packets :
            IdOf[p] = id /\ data[c] = <<p, rev, c - 1>>
  BY DEF Whole, Genuine
<1>2. \A c \in 1 .. SizeOf[id] : /\ origin[c] \in senders
                                 /\ data[c] = <<origin[c], rev, c - 1>>
  BY <1>1
<1>3. origin \in [1 .. SizeOf[id] -> senders]
  BY <1>2
<1> HIDE DEF origin
<1>4. data = [c \in 1 .. SizeOf[id] |-> <<origin[c], rev, c - 1>>]
  <2>1. data = [c \in 1 .. SizeOf[id] |-> data[c]]
    BY <1>1
  <2>2. QED
    BY <1>2, <2>1
<1>5. m = Message(id, rev, origin)
  BY <1>4 DEF Message
<1>6. m \in MessagesOf(id)
  BY <1>3, <1>5 DEF MessagesOf
<1>7. WholeMessages = UNION { MessagesOf(x) : x \in Ids }
  BY DEF WholeMessages, MessagesOf, Message
<1>8. QED
  BY <1>6, <1>7

LEMMA CompletedDelivers ==
    ASSUME IInv, Bitmaps(table), Remembers(handled, delivered),
           NEW d \in Datagrams, NEW t \in Tables, NEW i \in Slots,
           Stored(t, i, d), Completed(t, i)
    PROVE  /\ Handed(t, i) \in WholeMessages
           /\ Handed(t, i).id \notin Delivery!Recent
                                       \union Ignored(handled, Len(delivered))
           /\ delivered' = Append(delivered, Handed(t, i))
           /\ Receiving(table') = Receiving(table) \ {Handed(t, i).id}
           /\ Ignored(handled', Len(delivered'))
                \subseteq Ignored(handled, Len(delivered))
<1> DEFINE packet == Handed(t, i)
<1>1. /\ packet \in DeliveryType /\ packet.id = t.info[i].id
      /\ ~Contains(handled, packet.id)
      /\ delivered \in Seq(DeliveryType)
      /\ handled \in RotatingArrays(Ids \union {NoId})
  BY HandedType
<1>2. packet \in WholeMessages
  <2>1. /\ packet = [id |-> t.info[i].id, rev |-> t.info[i].rev, data |-> Contents(t, i)]
        /\ TableInv(t) /\ i \in Live(t) /\ Whole(packet)
    BY CompletedIsWhole DEF Handed, Stored
  <2>2. t.info[i].id \in Ids /\ t.info[i].rev \in Rev /\ Contents(t, i) \in Seq(Cell)
    BY <2>1, LiveSize, ContentsType
  <2> HIDE DEF packet
  <2>3. QED
    BY <2>1, <2>2, WholeIsMessage
<1>3. /\ handled' = Insert(handled, packet.id)
      /\ delivered' = Append(delivered, packet)
      /\ table' = FreeReadPacket(t, i)
  BY DEF Completed
<1>4. Receiving(table') = Receiving(table) \ {packet.id}
  <2>1. /\ TableInv(t) /\ TableInv(table) /\ i \in Live(t)
        /\ Live(t) = Live(table) \union {i}
        /\ KeepsPackets(table, t, Live(table) \ {i})
        /\ Opened(t, i, d) \/ Continued(t, i, d) \/ Revised(t, i, d)
        /\ t.info[i].id = IdOf[d.pkt]
    BY DEF Stored, IInv
  <2>2. /\ Live(table') = Live(table) \ {i}
        /\ \A j \in Live(table) \ {i} : table'.info[j].id = table.info[j].id
    BY <1>3, <2>1, FreePreserves DEF KeepsPackets, SamePacket
  <2>3. \A j \in Live(table) : table.info[j].id = packet.id <=> j = i
    <3>1. CASE Opened(t, i, d)
      BY <1>1, <2>1, <3>1 DEF Opened, HasPacket, Live
    <3>2. CASE i \in Live(table) /\ table.info[i].id = t.info[i].id
      BY <1>1, <2>1, <3>2 DEF TableInv, UniqueIds
    <3>3. QED
      BY <2>1, <3>1, <3>2 DEF Continued, Revised
  <2> HIDE DEF packet
  <2>4. QED
    BY <2>2, <2>3 DEF Receiving
<1>5. Ignored(handled', Len(delivered')) \subseteq Ignored(handled, Len(delivered))
  <2>1. Len(delivered) \in Nat /\ handled.index = Len(delivered) % RingSize
    BY <1>1 DEF Remembers
  <2> HIDE DEF packet
  <2>2. Len(delivered') = Len(delivered) + 1
    BY <1>1, <1>3
  <2>3. QED
    BY <1>1, <1>3, <2>1, <2>2, InsertShrinksIgnored
<1>6. QED
  BY <1>1, <1>2, <1>3, <1>4, <1>5, RecentIsContained

LEMMA DeliveryVars ==
    Delivery!vars = <<delivered, Receiving(table), Ignored(handled, Len(delivered))>>
  BY DEF Delivery!vars, Receiving, Ignored

\* The ids being received, when the same packets are in use or one is not.
LEMMA KeptReceiving ==
    ASSUME NEW t, NEW u, TableInv(t), Live(u) \subseteq Live(t),
           KeepsPackets(t, u, Live(u))
    PROVE  /\ Live(u) = Live(t) => Receiving(u) = Receiving(t)
           /\ \A i \in Live(t) : Live(u) = Live(t) \ {i} =>
                 Receiving(u) = Receiving(t) \ {t.info[i].id}
<1>1. \A j \in Live(u) : j \in Live(t) /\ u.info[j].id = t.info[j].id
  BY DEF KeepsPackets, SamePacket
<1>2. Live(u) = Live(t) => Receiving(u) = Receiving(t)
  BY <1>1 DEF Receiving
<1>3. ASSUME NEW i \in Live(t), Live(u) = Live(t) \ {i}
      PROVE  Receiving(u) = Receiving(t) \ {t.info[i].id}
  <2>1. \A j \in Live(t) : t.info[j].id = t.info[i].id => j = i
    BY DEF TableInv, UniqueIds
  <2>2. QED
    BY <1>1, <1>3, <2>1 DEF Receiving
<1>4. QED
  BY <1>2, <1>3

\* Storing a section opens its packet or leaves the ids being received alone.
LEMMA StoredReceiving ==
    ASSUME IInv, NEW d \in Datagrams, NEW t \in Tables, NEW i \in Slots,
           Stored(t, i, d)
    PROVE  \/ Receiving(t) = Receiving(table)
           \/ /\ t.info[i].id \in Ids
              /\ t.info[i].id \notin Receiving(table)
              /\ Receiving(t) = Receiving(table) \union {t.info[i].id}
<1>1. /\ TableInv(t) /\ i \in Live(t)
      /\ Live(t) = Live(table) \union {i}
      /\ KeepsPackets(table, t, Live(table) \ {i})
      /\ t.info[i].id = IdOf[d.pkt]
      /\ Opened(t, i, d) \/ Continued(t, i, d) \/ Revised(t, i, d)
  BY DEF Stored
<1>2. \A j \in Live(table) \ {i} : t.info[j].id = table.info[j].id
  BY <1>1 DEF KeepsPackets, SamePacket
<1>3. CASE Opened(t, i, d)
  <2>1. t.info[i].id \in Ids
    BY <1>1, LiveSize
  <2>2. /\ i \notin Live(table)
        /\ \A j \in Live(table) : table.info[j].id # t.info[i].id
    BY <1>1, <1>3 DEF Opened, HasPacket, Live
  <2>3. QED
    BY <1>1, <1>2, <2>1, <2>2 DEF Receiving
<1>4. CASE i \in Live(table) /\ table.info[i].id = t.info[i].id
  BY <1>1, <1>2, <1>4 DEF Receiving
<1>5. QED
  BY <1>1, <1>3, <1>4 DEF Continued, Revised

LEMMA DeliveryStep ==
    ASSUME IInv, Silence, Bitmaps(table), Remembers(handled, delivered),
           [Next]_vars
    PROVE  [Delivery!Next]_(Delivery!vars)
<1> DEFINE receiving == Receiving(table)
           ignored == Ignored(handled, Len(delivered))
<1>1. TableInv(table)
  BY DEF IInv
<1>2. Delivery!vars = <<delivered, receiving, ignored>>
  BY DeliveryVars
<1>3. Delivery!vars' = <<delivered, receiving, ignored>>'
  BY DEF Delivery!vars, Receiving, Ignored
<1>4. CASE Quiet
  <2>1. /\ UNCHANGED delivered /\ ignored' = ignored
        /\ Live(table') \subseteq Live(table)
        /\ KeepsPackets(table, table', Live(table'))
    BY <1>4 DEF Quiet, Ignored
  <2>2. CASE Live(table') = Live(table)
    <3>1. receiving' = receiving
      BY <1>1, <2>1, <2>2, KeptReceiving
    <3>2. QED
      BY <1>2, <1>3, <2>1, <3>1
  <2>3. ASSUME NEW i \in Live(table), Live(table') = Live(table) \ {i}
        PROVE  Delivery!Next
    <3>1. Receiving(table') = Receiving(table) \ {table.info[i].id}
      <4>1. \A j \in Live(table) : Live(table') = Live(table) \ {j} =>
               Receiving(table') = Receiving(table) \ {table.info[j].id}
        <5> HIDE DEF receiving, ignored
        <5>1. QED
          BY <1>1, <2>1, KeptReceiving
      <4>2. QED
        BY <4>1, <2>3
    <3>2. PICK id \in Ids : id = table.info[i].id
      BY <1>1, LiveSize
    <3>3. id \in Receiving(table)
      BY <3>2 DEF Receiving
    <3>4. receiving' = receiving \ {id}
      BY <3>1, <3>2
    <3>5. Delivery!Abandon(id)
      BY <2>1, <3>3, <3>4 DEF Delivery!Abandon, Receiving, Ignored
    <3> HIDE DEF receiving, ignored
    <3>6. QED
      BY <3>5 DEF Delivery!Next
  <2>4. QED
    BY <1>4, <2>2, <2>3 DEF Quiet
<1>5. ASSUME NEW d \in Datagrams, NEW t \in Tables, NEW i \in Slots,
             Stored(t, i, d), Finish(t, i, d), ~ReadPacketDone(t, i)
      PROVE  [Delivery!Next]_(Delivery!vars)
  <2>1. table' = t /\ UNCHANGED delivered /\ ignored' = ignored
    BY <1>5 DEF Finish, Ignored
  <2>2. CASE Receiving(t) = receiving
    <3>1. receiving' = receiving
      BY <2>1, <2>2
    <3>2. QED
      BY <1>2, <1>3, <2>1, <3>1
  <2>3. CASE /\ t.info[i].id \in Ids
             /\ t.info[i].id \notin receiving
             /\ Receiving(t) = receiving \union {t.info[i].id}
    <3> DEFINE id == t.info[i].id
    <3>1. receiving' = receiving \union {id}
      BY <2>1, <2>3
    <3>2. id \notin Delivery!Recent \union ignored
      BY <1>5, RecentIsContained DEF Stored
    <3>3. Delivery!Begin(id)
      BY <2>1, <2>3, <3>1, <3>2 DEF Delivery!Begin, Receiving, Ignored
    <3>4. QED
      BY <2>3, <3>3 DEF Delivery!Next
  <2>4. QED
    BY <1>5, <2>2, <2>3, StoredReceiving
<1>6. ASSUME NEW d \in Datagrams, NEW t \in Tables, NEW i \in Slots,
             Stored(t, i, d), Completed(t, i)
      PROVE  Delivery!Next
  <2> DEFINE packet == Handed(t, i)
  <2>1. /\ packet \in WholeMessages
        /\ packet.id \notin Delivery!Recent \union ignored
        /\ delivered' = Append(delivered, packet)
        /\ receiving' = receiving \ {packet.id}
        /\ ignored' \subseteq ignored
    BY <1>6, CompletedDelivers
  <2> HIDE DEF packet
  <2>2. Delivery!Deliver(packet)
    BY <2>1 DEF Delivery!Deliver, Receiving, Ignored
  <2>3. QED
    BY <2>1, <2>2 DEF Delivery!Next
<1>7. ASSUME NEW d \in Datagrams, NEW t \in Tables, NEW i \in Slots,
             Stored(t, i, d), Finish(t, i, d), ReadPacketDone(t, i)
      PROVE  Completed(t, i)
  BY <1>7 DEF Finish, Completed, Handed
<1>8. QED
  BY <1>4, <1>5, <1>6, <1>7, StepCases

LEMMA DeliveryInit == Init => Delivery!Init
<1> SUFFICES ASSUME Init PROVE Delivery!Init
  OBVIOUS
<1>1. /\ delivered = << >> /\ Len(delivered) = 0
      /\ Live(table) = {}
  BY EmptyTableInv DEF Init
<1>2. handled.elems \in [Position -> Ids \union {NoId}]
  BY DEF Init, NewRotatingArrays
<1>3. Receiving(table) = {}
  BY <1>1 DEF Receiving
<1>4. Ignored(handled, Len(delivered)) \subseteq Ids
  BY <1>2 DEF Ignored
<1>5. QED
  BY <1>1, <1>3, <1>4 DEF Delivery!Init, Receiving, Ignored

\* The receiving side keeps the promise of PacketDelivery: whatever the network
\* does, the application sees whole messages, one per step, none repeated within
\* RingSize deliveries, and none begun while it is recent or ignored.
THEOREM DeliveryRefinement == Spec => ImplementsDelivery
<1>1. Init => Delivery!Init
  BY DeliveryInit
<1>2. /\ IInv
      /\ Silence /\ Remembers(handled, delivered) /\ RedeliveryWindow
      /\ Silence /\ Bitmaps(table) /\ Deliveries
      /\ [Next]_vars
      => [Delivery!Next]_(Delivery!vars)
  BY DeliveryStep
<1>3. Spec => Delivery!Spec
  BY <1>1, <1>2, Invariance, WindowInvariance, BitmapInvariance, PTL
     DEF Spec, Delivery!Spec
<1>4. QED
  BY <1>3 DEF ImplementsDelivery
=============================================================================

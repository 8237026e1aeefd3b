-------------------------- MODULE PacketReaderProofs ------------------------
(***************************************************************************)
(* Theorems about PacketReader, for every value of the constants.          *)
(***************************************************************************)
EXTENDS PacketReader, ReadTableProofs

(***************************************************************************)
(* The inductive invariant: the invariant of the table and, so that an id  *)
(* cannot come to life while the ring remembers it, OneHomePerId.          *)
(***************************************************************************)
IInv ==
    /\ TypeOK
    /\ TableInv(table)
    /\ OneHomePerId

\* What is in the ring after an insertion was there before or is the new value.
LEMMA InsertContains ==
    ASSUME NEW V, NEW ring \in RotatingArrays(V), NEW v \in V, NEW w
    PROVE  /\ Insert(ring, v) \in RotatingArrays(V)
           /\ Contains(Insert(ring, v), w) => w = v \/ Contains(ring, w)
<1>1. /\ ring.elems \in [Position -> V] /\ ring.index \in Position
  BY DEF RotatingArrays
<1>2. (ring.index + 1) % RingSize \in Position
  BY <1>1, RotatingArrayAssumption DEF Position
<1>3. QED
  BY <1>1, <1>2 DEF Insert, RotatingArrays, Contains

\* Only slots in use have an id of a packet.
LEMMA LiveId ==
    ASSUME NEW t \in Tables, NEW i \in Slots
    PROVE  /\ i \in Live(t) <=> t.info[i].id \in Ids
           /\ IsFirst(t, i, NoId) => i \notin Live(t)
  BY ReadTableAssumption DEF Live, Tables, SlotType, IsFirst

LEMMA DatagramType ==
    ASSUME NEW d \in Datagrams
    PROVE  /\ d.pkt \in Packets /\ IdOf[d.pkt] \in Ids
           /\ d.rev \in Rev
           /\ d.index \in Nat
           /\ ~OutOfRange(SizeOf[IdOf[d.pkt]], d.index) <=> d.index \in Sections(d.pkt)
<1>1. /\ d.pkt \in Packets /\ d.rev \in Rev
      /\ d.index \in Sections(d.pkt) \union Strays(d.pkt)
  BY DEF Datagrams
<1>2. IdOf[d.pkt] \in Ids
  BY <1>1 DEF Ids
<1>3. SizeOf[IdOf[d.pkt]] \in Nat \ {0}
  BY <1>2, ReadTableAssumption
<1>4. GetRequiredSections(SizeOf[IdOf[d.pkt]]) \in Nat
  BY <1>3, RequiredSectionsType
<1>5. CASE d.index \in Sections(d.pkt)
  BY <1>1, <1>2, <1>4, <1>5 DEF Sections, OutOfRange
<1>6. CASE d.index \in Strays(d.pkt)
  BY <1>1, <1>2, <1>4, <1>6 DEF Sections, Strays
<1>7. QED
  BY <1>1, <1>5, <1>6

LEMMA InitInv == Init => IInv
<1> SUFFICES ASSUME Init PROVE IInv
  OBVIOUS
<1>1. TableInv(table) /\ Live(table) = {}
  BY EmptyTableInv DEF Init
<1>2. handled \in RotatingArrays(Ids \union {NoId})
  BY RotatingArrayAssumption DEF Init, NewRotatingArrays, RotatingArrays, Position
<1>3. TypeOK
  <2>1. reply \in Replies
    BY DEF Init, Replies
  <2>2. delivered \in Seq([id : Ids, rev : Rev, data : Seq(Cell)])
    BY DEF Init
  <2>3. bound \in BOOLEAN
    BY DEF Init
  <2>4. pc \in {"idle", "expire", "drain"} /\ cursor \in 0 .. MaxReadPackets
    BY ReadTableAssumption DEF Init
  <2>5. table \in Tables
    BY <1>1 DEF TableInv
  <2>6. QED
    BY <1>2, <2>1, <2>2, <2>3, <2>4, <2>5 DEF TypeOK
<1>4. OneHomePerId
  BY <1>1 DEF OneHomePerId, TableInv
<1>5. QED
  BY <1>1, <1>3, <1>4 DEF IInv

\* The callback gets a sequence of cells of the buffer.
LEMMA ContentsType ==
    ASSUME NEW t, TableInv(t), NEW i \in Live(t)
    PROVE  /\ Contents(t, i) \in Seq(Cell)
           /\ Len(Contents(t, i)) = t.info[i].size
           /\ DOMAIN Contents(t, i) = 1 .. t.info[i].size
<1>1. /\ t.mem \in [Address -> Cell]
      /\ t.info[i].size \in Nat /\ t.info[i].start \in Nat
      /\ t.info[i].start + t.info[i].size <= BufferSize
      /\ BufferSize \in Nat
  BY BufferAssumption
     DEF TableInv, Tables, SlotType, Word, Layout, InBounds, BufferSize, Live
<1>2. \A c \in 1 .. t.info[i].size : t.info[i].start + c - 1 \in Address
  BY <1>1 DEF Address
<1>3. Contents(t, i) \in [1 .. t.info[i].size -> Cell]
  BY <1>1, <1>2 DEF Contents
<1>4. QED
  BY <1>1, <1>3

(***************************************************************************)
(* The common end of Open, Continue and Revise: whatever table the section *)
(* has been stored in, acknowledging, delivering and freeing preserve the  *)
(* invariant.                                                              *)
(***************************************************************************)
LEMMA FinishPreserves ==
    ASSUME IInv, NEW t, TableInv(t), NEW i \in Live(t), NEW d \in Datagrams,
           \A j \in Live(t) : ~Contains(handled, t.info[j].id),
           Finish(t, i, d), UNCHANGED <<bound, pc, cursor>>
    PROVE  IInv'
<1>1. /\ t \in Tables /\ i \in Slots /\ t.info[i].id \in Ids
      /\ t.info[i].rev \in Rev
  BY LiveId DEF TableInv, Live, Tables, SlotType
<1>2. reply' \in Replies
  BY DEF Finish, Replies
<1>3. CASE ReadPacketDone(t, i)
  <2>1. /\ handled' = Insert(handled, t.info[i].id)
        /\ delivered' = Append(delivered, [id   |-> t.info[i].id,
                                           rev  |-> t.info[i].rev,
                                           data |-> Contents(t, i)])
        /\ table' = FreeReadPacket(t, i)
    BY <1>3 DEF Finish
  <2>2. /\ TableInv(table')
        /\ Live(table') = Live(t) \ {i}
        /\ \A j \in Live(t) \ {i} : table'.info[j].id = t.info[j].id
    BY <2>1, FreePreserves
  <2>3. /\ handled' \in RotatingArrays(Ids \union {NoId})
        /\ \A w : Contains(handled', w) => w = t.info[i].id \/ Contains(handled, w)
    BY <1>1, <2>1, InsertContains DEF IInv, TypeOK
  <2>4. \A j \in Live(table') : ~Contains(handled', table'.info[j].id)
    BY <2>2, <2>3 DEF TableInv, UniqueIds
  <2>5. Contents(t, i) \in Seq(Cell)
    BY ContentsType
  <2>6. delivered' \in Seq([id : Ids, rev : Rev, data : Seq(Cell)])
    BY <1>1, <2>1, <2>5 DEF IInv, TypeOK
  <2>7. TypeOK'
    BY <1>2, <2>2, <2>3, <2>6 DEF IInv, TypeOK, TableInv
  <2>8. QED
    BY <2>2, <2>4, <2>7 DEF IInv, OneHomePerId, TableInv
<1>4. CASE ~ReadPacketDone(t, i)
  <2>1. table' = t /\ handled' = handled /\ delivered' = delivered
    BY <1>4 DEF Finish
  <2>2. TypeOK'
    BY <1>1, <1>2, <2>1 DEF IInv, TypeOK
  <2>3. QED
    BY <2>1, <2>2 DEF IInv, OneHomePerId, TableInv
<1>5. QED
  BY <1>3, <1>4

(***************************************************************************)
(* One lemma per way the drain loop treats a datagram.                     *)
(***************************************************************************)

\* A step that leaves the table, the ring and the deliveries alone.
LEMMA QuietStepPreserves ==
    ASSUME IInv, UNCHANGED <<table, handled, delivered>>,
           bound' \in BOOLEAN, pc' \in {"idle", "expire", "drain"},
           cursor' \in 0 .. MaxReadPackets, reply' \in Replies
    PROVE  IInv'
<1>1. TypeOK'
  BY DEF IInv, TypeOK
<1>2. TableInv(table')
  BY DEF IInv
<1>3. OneHomePerId'
  BY DEF IInv, OneHomePerId
<1>4. QED
  BY <1>1, <1>2, <1>3 DEF IInv

\* A step that changes the table but not the ring, and brings no id to life.
LEMMA TableStepPreserves ==
    ASSUME IInv, UNCHANGED <<handled, delivered>>,
           TableInv(table'),
           Live(table') \subseteq Live(table),
           \A j \in Live(table') : table'.info[j].id = table.info[j].id,
           bound' \in BOOLEAN, pc' \in {"idle", "expire", "drain"},
           cursor' \in 0 .. MaxReadPackets, reply' \in Replies
    PROVE  IInv'
<1>1. TypeOK'
  BY DEF IInv, TypeOK, TableInv
<1>2. OneHomePerId'
  BY DEF IInv, OneHomePerId, TableInv
<1>3. QED
  BY <1>1, <1>2 DEF IInv

LEMMA OpenPreserves ==
    ASSUME IInv, NEW d \in Datagrams, Open(d), UNCHANGED <<bound, pc, cursor>>
    PROVE  IInv'
<1> DEFINE id == IdOf[d.pkt]
<1>1. /\ d.pkt \in Packets /\ id \in Ids /\ d.rev \in Rev /\ d.index \in Nat
  BY DatagramType
<1>2. /\ ~Contains(handled, id) /\ ~HasPacket(table, id)
      /\ CanAllocate(table, SizeOf[id])
  BY DEF Open
<1>3. PICK i \in Slots :
         /\ IsFirst(table, i, NoId)
         /\ Finish(ReceivedSection(
                     AllocateReadPacket(table, i, id, SizeOf[id], d.rev),
                     i, d.pkt, d.index, d.rev),
                   i, d)
  BY DEF Open
<1> DEFINE a == AllocateReadPacket(table, i, id, SizeOf[id], d.rev)
           t == ReceivedSection(a, i, d.pkt, d.index, d.rev)
<1>4. TableInv(table) /\ i \in Slots \ Live(table)
  BY <1>3, LiveId DEF IInv, TableInv
<1>5. /\ TableInv(a)
      /\ Live(a) = Live(table) \union {i}
      /\ a.info[i].id = id /\ a.info[i].rev = d.rev
      /\ \A j \in Live(table) : a.info[j].id = table.info[j].id
  BY <1>1, <1>2, <1>4, AllocatePreserves
<1> HIDE DEF a
<1>6. /\ TableInv(t)
      /\ Live(t) = Live(a)
      /\ \A j \in Live(a) : t.info[j].id = a.info[j].id
  BY <1>1, <1>5, ReceivedPreserves
<1> HIDE DEF t
<1>7. \A j \in Live(t) : ~Contains(handled, t.info[j].id)
  BY <1>2, <1>5, <1>6 DEF IInv, OneHomePerId
<1>8. Finish(t, i, d)
  BY <1>3 DEF t, a
<1>9. QED
  BY <1>5, <1>6, <1>7, <1>8, FinishPreserves

LEMMA ContinuePreserves ==
    ASSUME IInv, NEW d \in Datagrams, Continue(d), UNCHANGED <<bound, pc, cursor>>
    PROVE  IInv'
<1>1. /\ d.pkt \in Packets /\ IdOf[d.pkt] \in Ids /\ d.index \in Nat
  BY DatagramType
<1>2. PICK i \in Slots :
         /\ IsFirst(table, i, IdOf[d.pkt])
         /\ d.rev = table.info[i].rev
         /\ Finish(ReceivedSection(table, i, d.pkt, d.index, d.rev), i, d)
  BY DEF Continue
<1> DEFINE t == ReceivedSection(table, i, d.pkt, d.index, d.rev)
<1>3. TableInv(table) /\ i \in Live(table) /\ IdOf[d.pkt] = table.info[i].id
  BY <1>1, <1>2, LiveId DEF IInv, TableInv, IsFirst
<1>4. /\ TableInv(t)
      /\ Live(t) = Live(table)
      /\ \A j \in Live(table) : t.info[j].id = table.info[j].id
  BY <1>1, <1>2, <1>3, ReceivedPreserves
<1> HIDE DEF t
<1>5. \A j \in Live(t) : ~Contains(handled, t.info[j].id)
  BY <1>4 DEF IInv, OneHomePerId
<1>6. Finish(t, i, d)
  BY <1>2 DEF t
<1>7. QED
  BY <1>3, <1>4, <1>5, <1>6, FinishPreserves

LEMMA RevisePacketPreserves ==
    ASSUME IInv, NEW d \in Datagrams, Revise(d), UNCHANGED <<bound, pc, cursor>>
    PROVE  IInv'
<1>1. /\ d.pkt \in Packets /\ IdOf[d.pkt] \in Ids /\ d.rev \in Rev /\ d.index \in Nat
  BY DatagramType
<1>2. PICK i \in Slots :
         /\ IsFirst(table, i, IdOf[d.pkt])
         /\ IF CanRevise(table, i)
            THEN Finish(ReceivedSection(ReviseReadPacket(table, i, d.rev),
                                     i, d.pkt, d.index, d.rev),
                        i, d)
            ELSE /\ table' = FreeReadPacket(table, i)
                 /\ reply' = Reject(d.pkt, d.rev)
                 /\ UNCHANGED <<handled, delivered>>
  BY DEF Revise
<1>3. TableInv(table) /\ i \in Live(table) /\ IdOf[d.pkt] = table.info[i].id
  BY <1>1, <1>2, LiveId DEF IInv, TableInv, IsFirst
<1>4. CASE CanRevise(table, i)
  <2> DEFINE r == ReviseReadPacket(table, i, d.rev)
             t == ReceivedSection(r, i, d.pkt, d.index, d.rev)
  <2>1. /\ TableInv(r)
        /\ Live(r) = Live(table)
        /\ r.info[i].rev = d.rev
        /\ \A j \in Live(table) : r.info[j].id = table.info[j].id
    BY <1>1, <1>3, <1>4, RevisePreserves
  <2> HIDE DEF r
  <2>2. /\ TableInv(t)
        /\ Live(t) = Live(r)
        /\ \A j \in Live(r) : t.info[j].id = r.info[j].id
    BY <1>1, <1>3, <2>1, ReceivedPreserves
  <2> HIDE DEF t
  <2>3. \A j \in Live(t) : ~Contains(handled, t.info[j].id)
    BY <2>1, <2>2 DEF IInv, OneHomePerId
  <2>4. Finish(t, i, d)
    BY <1>2, <1>4 DEF t, r
  <2>5. QED
    BY <1>3, <2>1, <2>2, <2>3, <2>4, FinishPreserves
<1>5. CASE ~CanRevise(table, i)
  <2>1. /\ table' = FreeReadPacket(table, i)
        /\ reply' \in Replies
        /\ UNCHANGED <<handled, delivered>>
    BY <1>2, <1>5 DEF Replies
  <2>2. /\ TableInv(table')
        /\ Live(table') = Live(table) \ {i}
        /\ \A j \in Live(table) \ {i} : table'.info[j].id = table.info[j].id
    BY <1>3, <2>1, FreePreserves
  <2>3. QED
    BY <2>1, <2>2, TableStepPreserves DEF IInv, TypeOK
<1>6. QED
  BY <1>4, <1>5

LEMMA ReceivePreserves ==
    ASSUME IInv, NEW d \in Datagrams, Receive(d)
    PROVE  IInv'
<1>1. UNCHANGED <<bound, pc, cursor>>
  BY DEF Receive
<1>2. CASE DropHandled(d) \/ Refuse(d) \/ Ignore(d)
  <2>1. reply' \in Replies /\ UNCHANGED <<table, handled, delivered>>
    BY <1>2 DEF DropHandled, Refuse, Ignore, Replies
  <2>2. QED
    BY <1>1, <2>1, QuietStepPreserves DEF IInv, TypeOK
<1>3. CASE Open(d)
  BY <1>1, <1>3, OpenPreserves
<1>4. CASE Continue(d)
  BY <1>1, <1>4, ContinuePreserves
<1>5. CASE Revise(d)
  BY <1>1, <1>5, RevisePacketPreserves
<1>6. QED
  BY <1>2, <1>3, <1>4, <1>5 DEF Receive

-----------------------------------------------------------------------------
LEMMA ExpireNextPreserves ==
    ASSUME IInv, ExpireNext
    PROVE  IInv'
<1>1. /\ cursor' \in 0 .. MaxReadPackets /\ cursor \in Slots
      /\ UNCHANGED <<bound, pc, handled, reply, delivered>>
  BY ReadTableAssumption DEF ExpireNext, IInv, TypeOK, Slots
<1>2. CASE table' = table
  BY <1>1, <1>2, QuietStepPreserves DEF IInv, TypeOK
<1>3. CASE \E i \in Slots : /\ IsFirst(table, i, table.info[cursor].id)
                            /\ table.info[cursor].id # NoId
                            /\ table' = FreeReadPacket(table, i)
  <2>1. PICK i \in Slots : /\ IsFirst(table, i, table.info[cursor].id)
                           /\ table.info[cursor].id # NoId
                           /\ table' = FreeReadPacket(table, i)
    BY <1>3
  <2>2. TableInv(table) /\ i \in Live(table)
    BY <2>1 DEF IInv, IsFirst, Live
  <2>3. /\ TableInv(table')
        /\ Live(table') = Live(table) \ {i}
        /\ \A j \in Live(table) \ {i} : table'.info[j].id = table.info[j].id
    BY <2>1, <2>2, FreePreserves
  <2>4. QED
    BY <1>1, <2>3, TableStepPreserves DEF IInv, TypeOK
<1>4. QED
  BY <1>2, <1>3 DEF ExpireNext

LEMMA NextPreserves ==
    ASSUME IInv, [Next]_vars
    PROVE  IInv'
<1>1. CASE Bind
  BY <1>1, QuietStepPreserves DEF Bind, IInv, TypeOK
<1>2. CASE Update
  BY <1>2, QuietStepPreserves, ReadTableAssumption DEF Update, Replies, IInv, TypeOK
<1>3. CASE ExpireNext
  BY <1>3, ExpireNextPreserves
<1>4. CASE ExpireDone
  BY <1>4, QuietStepPreserves, ReadTableAssumption DEF ExpireDone, IInv, TypeOK
<1>5. ASSUME NEW d \in Datagrams, Receive(d)
      PROVE  IInv'
  BY <1>5, ReceivePreserves
<1>6. CASE DrainDone
  BY <1>6, QuietStepPreserves DEF DrainDone, Replies, IInv, TypeOK
<1>7. CASE Tick
  <2>1. /\ TableInv(table')
        /\ Live(table') = Live(table)
        /\ \A j \in Live(table) : table'.info[j].id = table.info[j].id
    BY <1>7, AgePreserves DEF Tick, IInv
  <2>2. QED
    BY <1>7, <2>1, TableStepPreserves DEF Tick, IInv, TypeOK
<1>8. CASE UNCHANGED vars
  BY <1>8, QuietStepPreserves DEF vars, IInv, TypeOK
<1>9. QED
  BY <1>1, <1>2, <1>3, <1>4, <1>5, <1>6, <1>7, <1>8 DEF Next

LEMMA Invariance == Spec => []IInv
<1>1. Init => IInv
  BY InitInv
<1>2. IInv /\ [Next]_vars => IInv'
  BY NextPreserves
<1>3. QED
  BY <1>1, <1>2, PTL DEF Spec

-----------------------------------------------------------------------------
\* The variables keep their types: no start or size leaves its word, what is
\* used never exceeds the buffer, and only whole sequences of cells are delivered.
THEOREM TypeCorrectness == Spec => []TypeOK
<1>1. IInv => TypeOK
  BY DEF IInv
<1>2. QED
  BY <1>1, Invariance, PTL

\* Whatever is allocated, completed, expired, revised and moved, packets in the
\* read table occupy disjoint regions inside the used part of the buffer.
THEOREM LayoutCorrectness == Spec => []TableLayout
<1>1. IInv => TableLayout
  BY DEF IInv, TableInv, TableLayout
<1>2. QED
  BY <1>1, Invariance, PTL

\* A section marked as received is in the buffer where its slot points to,
\* however often freeReadPacket and receivedSection moved it.
THEOREM DataCorrectness == Spec => []DataIntact
<1>1. IInv => DataIntact
  BY DEF IInv, TableInv, DataIntact
<1>2. QED
  BY <1>1, Invariance, PTL

\* An id has one slot at most, and none while m_HandledPacketIDs remembers it.
THEOREM HomeCorrectness == Spec => []OneHomePerId
<1>1. IInv => OneHomePerId
  BY DEF IInv
<1>2. QED
  BY <1>1, Invariance, PTL
=============================================================================

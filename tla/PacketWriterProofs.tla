-------------------------- MODULE PacketWriterProofs ------------------------
(***************************************************************************)
(* Theorems about PacketWriter, for every value of its constants: the      *)
(* layout of the write table and what is sent, also when own and peers'    *)
(* ids collide, and what the application gains where they differ.          *)
(***************************************************************************)
EXTENDS PacketWriter, WriteTableProofs

(***************************************************************************)
(* The inductive invariant behind SentIntact says whose packet is in a     *)
(* slot.  An id may be that of several packets of the application, one     *)
(* after another, and of an answer at the same time; but while a packet is *)
(* being prepared, no other packet in the table has its id.                *)
(***************************************************************************)
Owns(p, i) ==
    /\ app[p].state # "new"
    /\ app[p].id = table.info[i].id
    /\ table.info[i].size = OutSize[p]
    /\ table.info[i].ready => app[p].state = "ready"
    /\ app[p].state \in {"filled", "addressed", "ready"} => Written(table, i, p)

EveryPacketOwned == \A i \in Packets(table) : \E p \in Outgoing : Owns(p, i)

PreparedOwns ==
    \A p \in Outgoing : Preparing(p) =>
        \A i \in Packets(table) : table.info[i].id = app[p].id => Owns(p, i)

OnePrepared ==
    \A p \in Outgoing : Preparing(p) =>
        /\ app[p].id \in OwnIds
        /\ \A q \in Outgoing : Preparing(q) => q = p

Ownership == EveryPacketOwned /\ PreparedOwns /\ OnePrepared

Inv == TypeOK /\ TableInv(table) /\ Ownership

-----------------------------------------------------------------------------
\* What a packet in the table is, read off the invariant.
LEMMA PacketFacts ==
    ASSUME Inv, NEW i \in Packets(table)
    PROVE  /\ i \in Slots /\ i \in Live(table)
           /\ table.info[i].id \in OwnIds
           /\ table.info[i].type = "Normal"
           /\ \E p \in Outgoing : Owns(p, i)
<1>1. PICK p \in Outgoing : Owns(p, i)
  BY DEF Inv, Ownership, EveryPacketOwned
<1>2. /\ i \in Slots /\ i \in Live(table) /\ table.info[i].type = "Normal"
      /\ table.info[i].id # NoId
  BY DEF Packets, Live
<1>3. app[p].id \in OwnIds \union {NoId}
  BY DEF Inv, TypeOK, AppRecords
<1>4. QED
  BY <1>1, <1>2, <1>3 DEF Owns

\* A step that only takes packets out of the table, or moves them with their
\* data, while the application at most goes on to address its packet or gives it
\* up.
PacketsKept ==
    /\ Packets(table') \subseteq Packets(table)
    /\ \A j \in Packets(table') :
          /\ table'.info[j].id = table.info[j].id
          /\ table'.info[j].size = table.info[j].size
          /\ table'.info[j].ready => table.info[j].ready
          /\ SameData(table, table', j)

AppMoves(q) ==
    \/ app'[q] = app[q]
    \/ /\ Preparing(q)
       /\ app'[q].id = app[q].id
       /\ \/ app'[q].state = "abandoned"
          \/ app[q].state = "filled" /\ app'[q].state = "addressed"

\* Whose packet a ready slot holds does not change as long as it is there, nor
\* where the application sends it.
OwnersKept ==
    \A j \in Packets(table) \intersect Packets(table'), q \in Outgoing :
        table.info[j].ready /\ Owns(q, j) => Owns(q, j)' /\ app'[q].to = app[q].to

LEMMA OwnershipKept ==
    ASSUME Inv, PacketsKept, \A q \in Outgoing : AppMoves(q)
    PROVE  Ownership' /\ OwnersKept
<1>1. ASSUME NEW p \in Outgoing, NEW i \in Packets(table'), Owns(p, i)
      PROVE  Owns(p, i)'
  <2>1. /\ i \in Packets(table)
        /\ table'.info[i].id = table.info[i].id
        /\ table'.info[i].size = table.info[i].size
        /\ table'.info[i].ready => table.info[i].ready
        /\ SameData(table, table', i)
    BY DEF PacketsKept
  <2>2. Written(table, i, p) => Written(table', i, p)
    BY <2>1 DEF SameData, Written
  <2>3. CASE app'[p] = app[p]
    BY <1>1, <2>1, <2>2, <2>3 DEF Owns
  <2>4. CASE /\ Preparing(p) /\ app'[p].id = app[p].id
             /\ app'[p].state = "abandoned"
    BY <1>1, <2>1, <2>4 DEF Owns, Preparing
  <2>5. CASE /\ Preparing(p) /\ app'[p].id = app[p].id
             /\ app[p].state = "filled" /\ app'[p].state = "addressed"
    BY <1>1, <2>1, <2>2, <2>5 DEF Owns, Preparing
  <2>6. QED
    BY <2>3, <2>4, <2>5 DEF AppMoves
<1>2. \A p \in Outgoing : Preparing(p)' => Preparing(p) /\ app'[p].id = app[p].id
  BY DEF AppMoves, Preparing
<1>3. EveryPacketOwned'
  BY <1>1 DEF Inv, Ownership, EveryPacketOwned, PacketsKept
<1>4. PreparedOwns'
  BY <1>1, <1>2 DEF Inv, Ownership, PreparedOwns, PacketsKept
<1>5. OnePrepared'
  BY <1>2 DEF Inv, Ownership, OnePrepared
<1>6. OwnersKept
  <2> SUFFICES ASSUME NEW j \in Packets(table'), NEW q \in Outgoing,
                      table.info[j].ready, Owns(q, j)
               PROVE  Owns(q, j)' /\ app'[q].to = app[q].to
    BY DEF OwnersKept
  <2>1. app'[q] = app[q]
    BY DEF Owns, Preparing, AppMoves
  <2>2. QED
    BY <1>1, <2>1
<1>7. QED
  BY <1>3, <1>4, <1>5, <1>6 DEF Ownership

\* freeWritePacket(id), whoever calls it.
LEMMA FreeStep ==
    ASSUME Inv, NEW id, id # NoId, Free(id)
    PROVE  /\ TableInv(table')
           /\ PacketsKept
           /\ pc' \in {pc, "crashed"}
<1>1. PICK i \in Slots : /\ IsFirst(table, i, id)
                         /\ table' = FreeWritePacket(table, i)
                         /\ pc' \in {pc, "crashed"}
  BY DEF Free
<1>2. i \in Live(table) /\ TableInv(table)
  BY <1>1 DEF IsFirst, Live, Inv
<1>3. /\ TableInv(table')
      /\ \A j \in Slots \ {i} : SameSlot(table, table', j)
      /\ Packets(table') = Packets(table) \ {i}
      /\ \A j \in Packets(table') : SameData(table, table', j)
  BY <1>1, <1>2, FreePreserves
<1>4. \A j \in Packets(table') : j \in Slots \ {i}
  BY <1>3 DEF Packets, Live
<1>5. QED
  BY <1>1, <1>3, <1>4 DEF PacketsKept, SameSlot

\* A table left as it was, but for addresses, ages and answers.
LEMMA UnmovedKept ==
    ASSUME Inv, Packets(table') \subseteq Packets(table), table'.mem = table.mem,
           \A j \in Packets(table) :
              /\ table'.info[j].id = table.info[j].id
              /\ table'.info[j].size = table.info[j].size
              /\ table'.info[j].start = table.info[j].start
              /\ table'.info[j].ready = table.info[j].ready
    PROVE  PacketsKept
  BY DEF PacketsKept, SameData

-----------------------------------------------------------------------------
(***************************************************************************)
(* One lemma per group of actions that change the table.                   *)
(***************************************************************************)

\* A step that puts nothing on the wire and leaves the table alone, or nearly.
LEMMA TypeKept ==
    ASSUME Inv, TableInv(table'),
           bound' \in BOOLEAN, elapsed' \in BOOLEAN, canSendOld' \in BOOLEAN,
           pc' \in {"idle", "expire", "drain", "send", "crashed"},
           cursor' \in 0 .. MaxWritePackets,
           sendPacket' \in Slots, lastPacket' \in Slots,
           sent' \in {{}, sent},
           app' \in [Outgoing -> AppRecords]
    PROVE  TypeOK'
<1>1. \A d \in sent' : d.type \in {"Normal"} \union Answers /\ d.id \in Ids
  BY DEF Inv, TypeOK
<1>2. QED
  BY <1>1 DEF TypeOK, TableInv

LEMMA ProgressType ==
    ASSUME Inv, NEW p \in Outgoing, NEW state \in AppStates, Progress(p, state)
    PROVE  /\ app' \in [Outgoing -> AppRecords]
           /\ app'[p].state = state /\ app'[p].id = app[p].id
           /\ app'[p].to = app[p].to
           /\ \A q \in Outgoing \ {p} : app'[q] = app[q]
<1>1. app \in [Outgoing -> AppRecords]
  BY DEF Inv, TypeOK
<1>2. app' = [app EXCEPT ![p] = [app[p] EXCEPT !.state = state]]
  BY DEF Progress
<1>3. /\ [app[p] EXCEPT !.state = state] \in AppRecords
      /\ [app[p] EXCEPT !.state = state].state = state
      /\ [app[p] EXCEPT !.state = state].id = app[p].id
      /\ [app[p] EXCEPT !.state = state].to = app[p].to
  BY <1>1 DEF AppRecords
<1>4. QED
  BY <1>1, <1>2, <1>3

LEMMA AllocateStep ==
    ASSUME Inv, NEW p \in Outgoing, Allocate(p)
    PROVE  Inv' /\ OwnersKept
<1>1. PICK id \in OwnIds, i \in Slots :
         /\ ~HasUsedPacketID(table, id)
         /\ IsFirst(table, i, NoId)
         /\ table' = AllocateWritePacket(table, i, id, OutSize[p])
         /\ app' = [app EXCEPT ![p] = [state |-> "allocated", id |-> id,
                                        to |-> NoEndpoint]]
  BY DEF Allocate
<1>2. /\ TableInv(table) /\ i \in Slots \ Live(table)
      /\ OutSize[p] \in Nat /\ CanAllocate(table, OutSize[p])
      /\ app \in [Outgoing -> AppRecords]
      /\ id # NoId
  BY <1>1, WriteTableAssumption
     DEF Inv, TypeOK, IsFirst, Live, Allocate, Ids
<1>3. /\ TableInv(table')
      /\ table'.info[i].id = id /\ table'.info[i].size = OutSize[p]
      /\ ~table'.info[i].ready
      /\ \A j \in Slots \ {i} : table'.info[j] = table.info[j]
      /\ Packets(table') = Packets(table) \union {i}
      /\ table'.mem = table.mem
  <2>1. /\ TableInv(table) /\ i \in Slots \ Live(table)
        /\ id \in OwnIds /\ ~HasUsedPacketID(table, id)
        /\ OutSize[p] \in Nat /\ CanAllocate(table, OutSize[p])
    BY <1>1, <1>2
  <2>2. QED
    BY <1>1, <2>1, AllocatePreserves
<1>4. /\ app'[p].state = "allocated" /\ app'[p].id = id
      /\ \A q \in Outgoing \ {p} : app'[q] = app[q]
      /\ app' \in [Outgoing -> AppRecords]
  <2>1. [state |-> "allocated", id |-> id, to |-> NoEndpoint] \in AppRecords
    BY DEF AppRecords, AppStates
  <2>2. QED
    BY <1>1, <1>2, <2>1
<1>5. TypeOK'
  BY <1>3, <1>4, TypeKept DEF Inv, TypeOK, Allocate, handlerVars
<1>6. Owns(p, i)'
  BY <1>3, <1>4 DEF Owns
<1>7. ASSUME NEW j \in Packets(table), NEW q \in Outgoing, Owns(q, j)
      PROVE  Owns(q, j)' /\ app'[q] = app[q]
  <2>1. j \in Slots \ {i} /\ table'.info[j] = table.info[j]
    BY <1>2, <1>3 DEF Packets, Live
  <2>2. q # p
    BY <1>7 DEF Owns, Allocate
  <2>3. QED
    BY <1>3, <1>4, <1>7, <2>1, <2>2 DEF Owns, Written
<1>8. EveryPacketOwned'
  BY <1>3, <1>6, <1>7 DEF Inv, Ownership, EveryPacketOwned
<1>9. \A q \in Outgoing : Preparing(q)' => q = p
  <2>1. \A q \in Outgoing : ~Preparing(q)
    BY DEF Allocate
  <2>2. QED
    BY <1>4, <2>1 DEF Preparing
<1>10. PreparedOwns'
  <2> SUFFICES ASSUME NEW j \in Packets(table'), table'.info[j].id = id
               PROVE  Owns(p, j)'
    BY <1>4, <1>9 DEF PreparedOwns
  <2>1. j = i
    BY <1>1, <1>3 DEF HasUsedPacketID, Packets, Live
  <2>2. QED
    BY <1>6, <2>1
<1>11. OnePrepared'
  BY <1>4, <1>9 DEF OnePrepared
<1>12. OwnersKept
  BY <1>7 DEF OwnersKept
<1>13. QED
  BY <1>3, <1>5, <1>8, <1>10, <1>11, <1>12 DEF Inv, Ownership

\* What every preparing packet's slot is.
LEMMA PreparingFacts ==
    ASSUME Inv, NEW p \in Outgoing, Preparing(p)
    PROVE  /\ app[p].id \in OwnIds /\ app[p].id # NoId
           /\ \A q \in Outgoing : Preparing(q) => q = p
           /\ \A i \in Packets(table) : table.info[i].id = app[p].id => Owns(p, i)
           /\ \A i, j \in Packets(table) :
                 table.info[i].id = table.info[j].id => i = j
  BY WriteTableAssumption
     DEF Inv, Ownership, OnePrepared, PreparedOwns, TableInv, DistinctIds, Ids

\* The packet being prepared is not ready.
LEMMA PreparingIsNotReady ==
    ASSUME Inv, NEW p \in Outgoing, Preparing(p), NEW i \in Packets(table),
           table.info[i].id = app[p].id
    PROVE  ~table.info[i].ready
<1>1. Owns(p, i)
  BY PreparingFacts
<1>2. QED
  BY <1>1 DEF Owns, Preparing

\* memcpy goes to the packet of the id that was allocated, an answer of that id
\* is passed over; when the packet is gone it goes nowhere.
LEMMA FillStep ==
    ASSUME Inv, NEW p \in Outgoing, Fill(p)
    PROVE  Inv' /\ OwnersKept
<1>1. /\ Preparing(p) /\ app[p].state = "allocated"
      /\ Progress(p, "filled") /\ "filled" \in AppStates
      /\ TableInv(table)
  BY DEF Fill, Preparing, AppStates, Inv
<1>2. /\ app' \in [Outgoing -> AppRecords]
      /\ app'[p].state = "filled" /\ app'[p].id = app[p].id
      /\ \A q \in Outgoing \ {p} : app'[q] = app[q]
  BY <1>1, ProgressType
<1>3. \A i \in Slots : IsFirstSized(table, i, app[p].id) =>
         i \in Packets(table)
  BY <1>1, PreparingFacts, IdleStart DEF IsFirstSized
<1>4. \A i \in Packets(table) :
         /\ table.info[i].id = app[p].id /\ table.info[i].size # 0
         => IsFirstSized(table, i, app[p].id)
  <2> SUFFICES ASSUME NEW i \in Packets(table),
                      table.info[i].id = app[p].id, table.info[i].size # 0,
                      NEW j \in Slots, j < i, table.info[j].id = app[p].id,
                      table.info[j].size # 0
               PROVE  FALSE
    BY DEF IsFirstSized, Packets, Live
  <2>1. j \in Packets(table)
    BY <1>1, IdleStart
  <2>2. j = i
    BY <1>1, <2>1, PreparingFacts
  <2>3. QED
    BY <2>2 DEF Packets, Live, Slots
<1>5. /\ TableInv(table')
      /\ table'.info = table.info
      /\ Packets(table') = Packets(table)
      /\ \A i \in Packets(table) :
            IF table.info[i].id = app[p].id
            THEN Written(table', i, p)
            ELSE SameData(table, table', i)
  <2>1. CASE \E i \in Slots : IsFirstSized(table, i, app[p].id)
    <3>1. PICK i \in Slots : /\ IsFirstSized(table, i, app[p].id)
                             /\ table' = FillPacket(table, i, p)
      BY <2>1 DEF Fill
    <3>2. i \in Packets(table) /\ table.info[i].id = app[p].id
      BY <1>3, <3>1 DEF IsFirstSized
    <3>3. /\ TableInv(table')
          /\ table'.info = table.info
          /\ Written(table', i, p)
          /\ \A j \in Packets(table) \ {i} : SameData(table, table', j)
      BY <1>1, <3>1, <3>2, FillPreserves
    <3>4. Packets(table') = Packets(table)
      BY <3>3 DEF Packets, Live
    <3>5. \A j \in Packets(table) : table.info[j].id = app[p].id => j = i
      BY <1>1, <3>2, PreparingFacts
    <3>6. QED
      BY <3>2, <3>3, <3>4, <3>5
  <2>2. CASE ~\E i \in Slots : IsFirstSized(table, i, app[p].id)
    <3>1. table' = table
      BY <2>2 DEF Fill
    <3>2. \A i \in Packets(table) : table.info[i].id = app[p].id =>
             table.info[i].size = 0
      BY <1>4, <2>2 DEF Packets, Live
    <3>3. QED
      BY <1>1, <3>1, <3>2 DEF Written, SameData
  <2>3. QED
    BY <2>1, <2>2
<1>6. TypeOK'
  BY <1>2, <1>5, TypeKept DEF Inv, TypeOK, Fill, handlerVars
<1>7. ASSUME NEW i \in Packets(table), table.info[i].id = app[p].id
      PROVE  Owns(p, i)'
  <2>1. Owns(p, i) /\ Written(table', i, p)
    BY <1>1, <1>5, <1>7, PreparingFacts
  <2>2. QED
    BY <1>1, <1>2, <1>5, <2>1 DEF Owns
<1>8. ASSUME NEW i \in Packets(table), table.info[i].id # app[p].id,
             NEW q \in Outgoing, Owns(q, i)
      PROVE  Owns(q, i)' /\ app'[q] = app[q]
  <2>1. SameData(table, table', i) /\ q # p
    BY <1>5, <1>8 DEF Owns
  <2>2. Written(table, i, q) => Written(table', i, q)
    BY <1>5, <2>1 DEF SameData, Written
  <2>3. app'[q] = app[q]
    BY <1>2, <2>1
  <2>4. QED
    BY <1>5, <1>8, <2>2, <2>3 DEF Owns
<1>9. EveryPacketOwned'
  <2> SUFFICES ASSUME NEW i \in Packets(table)
               PROVE  \E q \in Outgoing : Owns(q, i)'
    BY <1>5 DEF EveryPacketOwned
  <2>1. PICK q \in Outgoing : Owns(q, i)
    BY DEF Inv, Ownership, EveryPacketOwned
  <2>2. QED
    BY <1>7, <1>8, <2>1
<1>10. \A q \in Outgoing : Preparing(q)' => q = p
  BY <1>1, <1>2, PreparingFacts DEF Preparing
<1>11. PreparedOwns'
  BY <1>2, <1>5, <1>7, <1>10 DEF PreparedOwns
<1>12. OnePrepared'
  BY <1>1, <1>2, <1>10, PreparingFacts DEF OnePrepared
<1>13. OwnersKept
  BY <1>1, <1>8, PreparingIsNotReady DEF OwnersKept
<1>14. QED
  BY <1>5, <1>6, <1>9, <1>11, <1>12, <1>13 DEF Inv, Ownership

\* The invariant is kept by a step that keeps the packets and puts nothing new
\* on the wire.
LEMMA KeptStep ==
    ASSUME Inv, TableInv(table'), PacketsKept, \A q \in Outgoing : AppMoves(q),
           bound' \in BOOLEAN, elapsed' \in BOOLEAN, canSendOld' \in BOOLEAN,
           pc' \in {"idle", "expire", "drain", "send", "crashed"},
           cursor' \in 0 .. MaxWritePackets,
           sendPacket' \in Slots, lastPacket' \in Slots,
           sent' \in {{}, sent},
           app' \in [Outgoing -> AppRecords]
    PROVE  Inv' /\ OwnersKept
  BY TypeKept, OwnershipKept DEF Inv

LEMMA EndpointApp ==
    ASSUME Inv, NEW p \in Outgoing, NEW to \in Peers, SetPacketEndpoint(p, to)
    PROVE  /\ app' \in [Outgoing -> AppRecords]
           /\ app'[p].state = "addressed" /\ app'[p].id = app[p].id
           /\ app'[p].to = to
           /\ \A q \in Outgoing \ {p} : app'[q] = app[q]
<1>1. app \in [Outgoing -> AppRecords]
  BY DEF Inv, TypeOK
<1>2. app' = [app EXCEPT ![p] = [app[p] EXCEPT !.state = "addressed", !.to = to]]
  BY <1>1 DEF SetPacketEndpoint, AppRecords
<1>3. /\ [app[p] EXCEPT !.state = "addressed", !.to = to] \in AppRecords
      /\ [app[p] EXCEPT !.state = "addressed", !.to = to].state = "addressed"
      /\ [app[p] EXCEPT !.state = "addressed", !.to = to].to = to
      /\ [app[p] EXCEPT !.state = "addressed", !.to = to].id = app[p].id
  BY <1>1 DEF AppRecords, AppStates
<1>4. QED
  BY <1>1, <1>2, <1>3

LEMMA EndpointStep ==
    ASSUME Inv, NEW p \in Outgoing, NEW to \in Peers, SetPacketEndpoint(p, to)
    PROVE  Inv' /\ OwnersKept
<1>1. /\ Preparing(p) /\ app[p].state = "filled"
      /\ table' = WithEndpoint(table, app[p].id, to)
      /\ TableInv(table)
  BY DEF SetPacketEndpoint, Preparing, Inv
<1>2. /\ app' \in [Outgoing -> AppRecords]
      /\ app'[p].state = "addressed" /\ app'[p].id = app[p].id
      /\ \A q \in Outgoing \ {p} : app'[q] = app[q]
  BY EndpointApp
<1>3. app[p].id \in OwnIds
  BY <1>1, PreparingFacts
<1>4. /\ TableInv(table')
      /\ Packets(table') = Packets(table)
      /\ table'.mem = table.mem
      /\ \A j \in Slots : table'.info[j] = IF IsFirst(table, j, app[p].id)
                                           THEN [table.info[j] EXCEPT !.to = to]
                                           ELSE table.info[j]
  BY <1>1, <1>3, EndpointPreserves
<1>5. \A j \in Packets(table) : /\ table'.info[j].id = table.info[j].id
                                /\ table'.info[j].size = table.info[j].size
                                /\ table'.info[j].start = table.info[j].start
                                /\ table'.info[j].ready = table.info[j].ready
  <2> SUFFICES ASSUME NEW j \in Packets(table)
               PROVE  /\ table'.info[j].id = table.info[j].id
                      /\ table'.info[j].size = table.info[j].size
                      /\ table'.info[j].start = table.info[j].start
                      /\ table'.info[j].ready = table.info[j].ready
    OBVIOUS
  <2>1. j \in Slots /\ table.info[j] \in SlotType
    BY <1>1, SlotParts DEF TableInv, Packets, Live
  <2>2. QED
    BY <1>4, <2>1 DEF SlotType
<1>6. PacketsKept
  BY <1>4, <1>5, UnmovedKept
<1>7. \A q \in Outgoing : AppMoves(q)
  BY <1>1, <1>2 DEF AppMoves
<1>8. QED
  BY <1>2, <1>4, <1>6, <1>7, KeptStep
     DEF Inv, TypeOK, SetPacketEndpoint, handlerVars

\* The packet that becomes ready is the one the application filled, or none.
LEMMA ReadyStep ==
    ASSUME Inv, NEW p \in Outgoing, MarkWritePacketReady(p)
    PROVE  /\ Inv' /\ OwnersKept
           /\ app'[p].to = app[p].to
           /\ \A j \in Packets(table) :
                 table.info[j].id = app[p].id => Owns(p, j)'
<1>1. /\ Preparing(p) /\ app[p].state = "addressed"
      /\ Progress(p, "ready") /\ "ready" \in AppStates
      /\ table' = WithReady(table, app[p].id)
      /\ TableInv(table)
  BY DEF MarkWritePacketReady, Preparing, AppStates, Inv
<1>2. /\ app' \in [Outgoing -> AppRecords]
      /\ app'[p].state = "ready" /\ app'[p].id = app[p].id
      /\ app'[p].to = app[p].to
      /\ \A q \in Outgoing \ {p} : app'[q] = app[q]
  BY <1>1, ProgressType
<1>3. app[p].id \in OwnIds
  BY <1>1, PreparingFacts
<1>4. /\ TableInv(table')
      /\ Packets(table') = Packets(table)
      /\ table'.mem = table.mem
      /\ \A j \in Slots : table'.info[j] = IF IsFirst(table, j, app[p].id)
                                           THEN [table.info[j] EXCEPT !.ready = TRUE]
                                           ELSE table.info[j]
  BY <1>1, <1>3, ReadyPreserves
<1>5. ASSUME NEW j \in Packets(table)
      PROVE  /\ table'.info[j].id = table.info[j].id
             /\ table'.info[j].size = table.info[j].size
             /\ table'.info[j].start = table.info[j].start
             /\ \A q : Written(table, j, q) => Written(table', j, q)
  <2>1. /\ table'.info[j].id = table.info[j].id
        /\ table'.info[j].size = table.info[j].size
        /\ table'.info[j].start = table.info[j].start
    BY <1>1, <1>4, SlotParts DEF TableInv, Packets, Live, SlotType
  <2>2. QED
    BY <1>4, <2>1 DEF Written
<1>6. TypeOK'
  BY <1>2, <1>4, TypeKept DEF Inv, TypeOK, MarkWritePacketReady, handlerVars
<1>7. ASSUME NEW j \in Packets(table), table.info[j].id = app[p].id
      PROVE  Owns(p, j)'
  <2>1. Owns(p, j)
    BY <1>1, <1>7, PreparingFacts
  <2>2. QED
    BY <1>1, <1>2, <1>5, <2>1 DEF Owns
<1>8. ASSUME NEW j \in Packets(table), table.info[j].id # app[p].id,
             NEW q \in Outgoing, Owns(q, j)
      PROVE  Owns(q, j)' /\ app'[q] = app[q]
  <2>1. app'[q] = app[q]
    BY <1>2, <1>8 DEF Owns
  <2>2. table'.info[j] = table.info[j]
    BY <1>4, <1>8 DEF IsFirst, Packets, Live
  <2>3. QED
    BY <1>5, <1>8, <2>1, <2>2 DEF Owns
<1>9. EveryPacketOwned'
  <2> SUFFICES ASSUME NEW j \in Packets(table)
               PROVE  \E q \in Outgoing : Owns(q, j)'
    BY <1>4 DEF EveryPacketOwned
  <2>1. PICK q \in Outgoing : Owns(q, j)
    BY DEF Inv, Ownership, EveryPacketOwned
  <2>2. QED
    BY <1>7, <1>8, <2>1
<1>10. \A q \in Outgoing : ~Preparing(q)'
  <2>1. \A q \in Outgoing \ {p} : ~Preparing(q)
    BY <1>1, PreparingFacts
  <2>2. QED
    BY <1>2, <2>1 DEF Preparing
<1>11. OwnersKept
  BY <1>1, <1>8, PreparingIsNotReady DEF OwnersKept
<1>12. QED
  BY <1>2, <1>4, <1>6, <1>7, <1>9, <1>10, <1>11
     DEF Inv, Ownership, PreparedOwns, OnePrepared

LEMMA AbandonStep ==
    ASSUME Inv, NEW p \in Outgoing, Abandon(p)
    PROVE  Inv' /\ OwnersKept
<1>1. /\ Preparing(p) /\ Progress(p, "abandoned") /\ "abandoned" \in AppStates
      /\ TableInv(table)
  BY DEF Abandon, AppStates, Inv
<1>2. /\ app' \in [Outgoing -> AppRecords]
      /\ app'[p].state = "abandoned" /\ app'[p].id = app[p].id
      /\ \A q \in Outgoing \ {p} : app'[q] = app[q]
  BY <1>1, ProgressType
<1>3. app[p].id # NoId
  BY <1>1, PreparingFacts
<1>4. TableInv(table') /\ PacketsKept /\ pc' \in {pc, "crashed"}
  <2>1. CASE Free(app[p].id)
    BY <1>3, <2>1, FreeStep
  <2>2. CASE UNCHANGED <<table, pc>>
    BY <1>1, <2>2, UnmovedKept
  <2>3. QED
    BY <2>1, <2>2 DEF Abandon
<1>5. \A q \in Outgoing : AppMoves(q)
  BY <1>1, <1>2 DEF AppMoves
<1>6. QED
  BY <1>2, <1>4, <1>5, KeptStep DEF Inv, TypeOK, Abandon

LEMMA ExpireStep ==
    ASSUME Inv, ExpireNext
    PROVE  Inv' /\ OwnersKept
<1>1. /\ cursor \in Slots /\ cursor' \in 0 .. MaxWritePackets
      /\ TableInv(table)
  BY WriteTableAssumption DEF ExpireNext, Inv, TypeOK, Slots
<1>2. TableInv(table') /\ PacketsKept /\ pc' \in {pc, "crashed"}
  <2>1. CASE table.info[cursor].id # NoId /\ Free(table.info[cursor].id)
    BY <2>1, FreeStep
  <2>2. CASE UNCHANGED <<table, pc>>
    BY <1>1, <2>2, UnmovedKept
  <2>3. QED
    BY <2>1, <2>2 DEF ExpireNext
<1>3. \A q \in Outgoing : AppMoves(q)
  BY DEF ExpireNext, AppMoves
<1>4. QED
  BY <1>1, <1>2, <1>3, KeptStep DEF Inv, TypeOK, ExpireNext

LEMMA RejectStep ==
    ASSUME Inv, NEW id \in OwnIds, NEW rev, ReceiveReject(id, rev)
    PROVE  Inv' /\ OwnersKept
<1>1. TableInv(table') /\ PacketsKept /\ pc' \in {pc, "crashed"}
  BY FreeStep, WriteTableAssumption DEF ReceiveReject, Ids
<1>2. \A q \in Outgoing : AppMoves(q)
  BY DEF ReceiveReject, AppMoves
<1>3. QED
  BY <1>1, <1>2, KeptStep DEF Inv, TypeOK, ReceiveReject

\* What the receiving side asks for, and what the slot it gets then holds.
LEMMA AnswerStep ==
    ASSUME Inv, NEW answer \in AnswerRequests, Answer(answer)
    PROVE  Inv' /\ OwnersKept
<1>1. /\ answer \in [type : Answers, id : PeerIds, index : 0 .. MaxIndex,
                     rev : 0 .. MaxRev, to : Peers]
      /\ TableInv(table)
  BY AnswerTypesAssumption DEF AnswerRequests, Inv
<1>2. \A q \in Outgoing : AppMoves(q)
  BY DEF Answer, AppMoves
<1>3. CASE AvailableWritePackets(table) # {}
  <2>1. PICK i \in Slots :
          /\ IsFirst(table, i, NoId)
          /\ table' = SetSlot(table, i, AnswerSlot(table.info[i], answer))
    BY <1>3 DEF Answer
  <2>2. i \in Slots \ Live(table)
    BY <2>1 DEF IsFirst, Live
  <2>3. /\ TableInv(table')
        /\ Packets(table') = Packets(table)
        /\ table'.mem = table.mem
        /\ \A j \in Slots \ {i} : table'.info[j] = table.info[j]
    BY <1>1, <2>1, <2>2, AnswerPreserves
  <2>4. \A j \in Packets(table) : table'.info[j] = table.info[j]
    BY <2>2, <2>3 DEF Packets, Live
  <2>5. PacketsKept
    BY <2>3, <2>4, UnmovedKept
  <2>6. sent' = {}
    BY <1>3 DEF Answer
  <2>7. QED
    BY <1>2, <2>3, <2>5, <2>6, KeptStep DEF Inv, TypeOK, Answer
<1>4. CASE AvailableWritePackets(table) = {}
  <2>1. table' = table /\ sent' \subseteq {AnswerDatagram(answer)}
    BY <1>4 DEF Answer
  <2>2. PacketsKept
    BY <2>1, UnmovedKept
  <2>3. Ownership' /\ OwnersKept
    BY <1>2, <2>2, OwnershipKept
  <2>4. \A d \in sent' : d.type \in {"Normal"} \union Answers /\ d.id \in Ids
    BY <1>1, <2>1 DEF AnswerDatagram, Ids
  <2>5. TypeOK'
    BY <2>1, <2>4 DEF Inv, TypeOK, Answer
  <2>6. QED
    BY <1>1, <2>1, <2>3, <2>5 DEF Inv
<1>5. QED
  BY <1>3, <1>4

LEMMA TimesKept ==
    ASSUME Inv, OnlyTimesDiffer(table, table')
    PROVE  TableInv(table') /\ PacketsKept
<1>1. TableInv(table)
  BY DEF Inv
<1>2. /\ TableInv(table')
      /\ Packets(table') = Packets(table)
      /\ table'.mem = table.mem
      /\ \A j \in Slots :
            /\ table'.info[j].id = table.info[j].id
            /\ table'.info[j].start = table.info[j].start
            /\ table'.info[j].size = table.info[j].size
            /\ table'.info[j].ready = table.info[j].ready
  BY <1>1, TimePreserves
<1>3. QED
  BY <1>2, UnmovedKept DEF Packets, Live

LEMMA AcknowledgeStep ==
    ASSUME Inv, NEW id \in OwnIds, NEW index, NEW rev,
           ReceiveAcknowledge(id, index, rev)
    PROVE  Inv' /\ OwnersKept
<1>1. PICK i \in Slots :
         /\ table' = SetSlot(table, i, [table.info[i] EXCEPT !.time = 0])
         /\ pc' \in {pc, "crashed"}
  BY DEF ReceiveAcknowledge
<1>2. OnlyTimesDiffer(table, table')
  BY <1>1, AcknowledgeTime DEF Inv
<1>3. \A q \in Outgoing : AppMoves(q)
  BY DEF ReceiveAcknowledge, AppMoves
<1>4. QED
  BY <1>1, <1>2, <1>3, TimesKept, KeptStep DEF Inv, TypeOK, ReceiveAcknowledge

LEMMA TickStep ==
    ASSUME Inv, Tick
    PROVE  Inv' /\ OwnersKept
<1>1. OnlyTimesDiffer(table, table')
  BY AgeTime DEF Tick, Inv
<1>2. \A q \in Outgoing : AppMoves(q)
  BY DEF Tick, AppMoves
<1>3. QED
  BY <1>1, <1>2, TimesKept, KeptStep DEF Inv, TypeOK, Tick

\* The steps of updatePackets between the loops.
LEMMA QuietStep ==
    ASSUME Inv, Bind \/ Update \/ ExpireDone \/ DrainDone \/ SendDone
    PROVE  Inv' /\ OwnersKept
<1>1. table' = table /\ app' = app /\ TableInv(table)
  BY DEF Bind, Update, ExpireDone, DrainDone, SendDone, Inv
<1>2. PacketsKept
  BY <1>1, UnmovedKept
<1>3. \A q \in Outgoing : AppMoves(q)
  BY <1>1 DEF AppMoves
<1>4. /\ sendPacket \in Slots /\ lastPacket \in Slots /\ MaxWritePackets \in Nat \ {0}
      /\ cursor \in 0 .. MaxWritePackets
  BY WriteTableAssumption DEF Inv, TypeOK
<1>5. sendPacket = 0 => MaxWritePackets - 1 \in Slots
  BY <1>4 DEF Slots
<1>6. sendPacket # 0 => sendPacket - 1 \in Slots
  BY <1>4 DEF Slots
<1>7. DrainDone => lastPacket' \in Slots
  BY <1>5, <1>6 DEF DrainDone
<1>8. sendPacket' \in Slots /\ lastPacket' \in Slots
  <2>1. sendPacket' = sendPacket
    BY DEF Bind, Update, ExpireDone, DrainDone, SendDone
  <2>2. lastPacket' = lastPacket \/ DrainDone
    BY DEF Bind, Update, ExpireDone, SendDone
  <2>3. QED
    BY <1>4, <1>7, <2>1, <2>2
<1>9. cursor' \in 0 .. MaxWritePackets
  <2>1. cursor' = cursor \/ cursor' = 0
    BY DEF Bind, Update, ExpireDone, DrainDone, SendDone
  <2>2. 0 \in 0 .. MaxWritePackets
    BY <1>4
  <2>3. QED
    BY <1>4, <2>1, <2>2
<1>10. QED
  BY <1>1, <1>2, <1>3, <1>8, <1>9, KeptStep
     DEF Inv, TypeOK, Bind, Update, ExpireDone, DrainDone, SendDone

\* Every datagram of a visit bears the id and endpoint of the slot visited.
LEMMA DatagramFacts ==
    ASSUME NEW t, NEW i \in Slots, NEW d \in DatagramsOf(t, i)
    PROVE  /\ d.type = t.info[i].type
           /\ d.id = t.info[i].id
           /\ d.to = t.info[i].to
           /\ d.type = "Normal" =>
                 \E k \in 0 .. GetRequiredSections(t.info[i].size) - 1 :
                    d = SectionDatagram(t, i, k)
  BY DEF DatagramsOf, SectionDatagram, AnswerDatagram

\* What a visit sends are datagrams of the slot, which is ready.
LEMMA SendFacts ==
    ASSUME Inv, SendNext, NEW d \in sent'
    PROVE  /\ sendPacket \in Slots
           /\ table.info[sendPacket].ready
           /\ d \in DatagramsOf(table, sendPacket)
<1>1. sendPacket \in Slots
  BY DEF Inv, TypeOK
<1>2. CASE sent' = IF Due(table.info[sendPacket])
                   THEN DatagramsOf(table, sendPacket)
                   ELSE {}
  BY <1>1, <1>2 DEF Due
<1>3. CASE Due(table.info[sendPacket]) /\ sent' \in CutShort(table, sendPacket)
  <2>1. table.info[sendPacket].type = "Normal"
    BY <1>3 DEF CutShort
  <2>2. PICK failing \in 0 .. GetRequiredSections(table.info[sendPacket].size) - 1 :
            sent' = { SectionDatagram(table, sendPacket, k) : k \in 0 .. failing - 1 }
    BY <1>3, <2>1 DEF CutShort
  <2>3. PICK k \in 0 .. failing - 1 : d = SectionDatagram(table, sendPacket, k)
    BY <2>2
  <2>4. k \in 0 .. GetRequiredSections(table.info[sendPacket].size) - 1
    <3>1. table.info[sendPacket].size \in Nat
      BY <1>1, SlotParts DEF Inv, TableInv
    <3>2. GetRequiredSections(table.info[sendPacket].size) \in Nat
      BY <3>1, FormatAssumption DEF GetRequiredSections
    <3>3. QED
      BY <2>2, <2>3, <3>2
  <2>5. d \in DatagramsOf(table, sendPacket)
    BY <2>1, <2>3, <2>4 DEF DatagramsOf
  <2>6. QED
    BY <1>1, <1>3, <2>5 DEF Due
<1>4. QED
  BY <1>2, <1>3 DEF SendNext

LEMMA SendStep ==
    ASSUME Inv, SendNext
    PROVE  Inv' /\ OwnersKept
<1>1. table' = table /\ app' = app /\ TableInv(table) /\ sendPacket \in Slots
  BY DEF SendNext, Inv, TypeOK
<1>2. PacketsKept
  BY <1>1, UnmovedKept
<1>3. Ownership' /\ OwnersKept
  BY <1>1, <1>2, OwnershipKept DEF AppMoves
<1>4. (sendPacket + 1) % MaxWritePackets \in Slots
  BY <1>1, WriteTableAssumption DEF Slots
<1>5. ASSUME NEW d \in sent'
      PROVE  d.type \in {"Normal"} \union Answers /\ d.id \in Ids
  <2>1. table.info[sendPacket].ready /\ d \in DatagramsOf(table, sendPacket)
    BY <1>5, SendFacts
  <2>2. d.type = table.info[sendPacket].type /\ d.id = table.info[sendPacket].id
    BY <1>1, <2>1, DatagramFacts
  <2>3. sendPacket \in Live(table)
    BY <1>1, <2>1 DEF TableInv, ReadyIsLive
  <2>4. table.info[sendPacket] \in SlotType
    BY <1>1, SlotParts DEF TableInv
  <2>5. QED
    BY <2>2, <2>3, <2>4 DEF Live, SlotType
<1>6. TypeOK'
  BY <1>1, <1>4, <1>5 DEF Inv, TypeOK, SendNext
<1>7. QED
  BY <1>1, <1>3, <1>6 DEF Inv

-----------------------------------------------------------------------------
LEMMA InvInit == Init => Inv
<1> SUFFICES ASSUME Init PROVE Inv
  OBVIOUS
<1>1. /\ table = EmptyTable /\ sent = {}
      /\ app = [p \in Outgoing |-> [state |-> "new", id |-> NoId, to |-> NoEndpoint]]
  BY DEF Init
<1>2. TableInv(table) /\ Packets(table) = {}
  BY <1>1, EmptyTableInv
<1>3. app \in [Outgoing -> AppRecords]
  BY <1>1 DEF AppRecords, AppStates
<1>4. 0 \in Slots /\ 0 \in 0 .. MaxWritePackets
  BY WriteTableAssumption DEF Slots
<1>5. TypeOK
  BY <1>1, <1>2, <1>3, <1>4 DEF Init, TypeOK, TableInv
<1>6. Ownership
  BY <1>1, <1>2
     DEF Ownership, EveryPacketOwned, PreparedOwns, OnePrepared, Preparing
<1>7. QED
  BY <1>2, <1>5, <1>6 DEF Inv

LEMMA InvStep ==
    ASSUME Inv, [Next]_vars
    PROVE  Inv' /\ OwnersKept
<1>1. ASSUME NEW p \in Outgoing, Allocate(p) PROVE Inv' /\ OwnersKept
  BY <1>1, AllocateStep
<1>2. ASSUME NEW p \in Outgoing, Fill(p) PROVE Inv' /\ OwnersKept
  BY <1>2, FillStep
<1>3. ASSUME NEW p \in Outgoing, NEW to \in Peers, SetPacketEndpoint(p, to)
      PROVE  Inv' /\ OwnersKept
  BY <1>3, EndpointStep
<1>4. ASSUME NEW p \in Outgoing, MarkWritePacketReady(p) PROVE Inv' /\ OwnersKept
  BY <1>4, ReadyStep
<1>5. ASSUME NEW p \in Outgoing, Abandon(p) PROVE Inv' /\ OwnersKept
  BY <1>5, AbandonStep
<1>6. CASE Bind \/ Update \/ ExpireDone \/ DrainDone \/ SendDone
  BY <1>6, QuietStep
<1>7. CASE ExpireNext
  BY <1>7, ExpireStep
<1>8. ASSUME NEW answer \in AnswerRequests, Answer(answer) PROVE Inv' /\ OwnersKept
  BY <1>8, AnswerStep
<1>9. ASSUME NEW id \in OwnIds, NEW index \in 0 .. MaxIndex,
             NEW rev \in 0 .. MaxRev, ReceiveAcknowledge(id, index, rev)
      PROVE  Inv' /\ OwnersKept
  BY <1>9, AcknowledgeStep
<1>10. ASSUME NEW id \in OwnIds, NEW rev \in 0 .. MaxRev, ReceiveReject(id, rev)
       PROVE  Inv' /\ OwnersKept
  BY <1>10, RejectStep
<1>11. CASE SendNext
  BY <1>11, SendStep
<1>12. CASE Tick
  BY <1>12, TickStep
<1>13. CASE UNCHANGED vars
  BY <1>13 DEF Inv, TypeOK, Ownership, EveryPacketOwned, PreparedOwns, OnePrepared,
               Owns, OwnersKept, Preparing, vars, handlerVars
<1>14. QED
  BY <1>1, <1>2, <1>3, <1>4, <1>5, <1>6, <1>7, <1>8, <1>9, <1>10, <1>11, <1>12,
     <1>13 DEF Next

-----------------------------------------------------------------------------
(***************************************************************************)
(* What is sent is what was written.                                       *)
(***************************************************************************)

\* The units of a section are units of its packet.
LEMMA SectionInside ==
    ASSUME NEW size \in Nat, NEW k \in Nat, NEW c \in 1 .. SectionLength(k, size)
    PROVE  /\ SectionOffset(k) + c - 1 \in Nat
           /\ SectionOffset(k) + c - 1 < size
           /\ SectionOffset(k) \in Nat
<1>1. SectionOffset(k) \in Nat
  BY FormatAssumption DEF SectionOffset
<1>2. QED
  BY <1>1, FormatAssumption DEF SectionLength

\* A visit sends what the packet's owner wrote.
LEMMA SentCarries ==
    ASSUME Inv, SendNext, NEW d \in sent', d.type = "Normal",
           NEW p \in Outgoing, Owns(p, sendPacket)
    PROVE  Carries(d, p)'
<1> DEFINE i == sendPacket
<1>1. i \in Slots /\ table.info[i].ready /\ d \in DatagramsOf(table, i)
  BY SendFacts
<1>2. PICK k \in 0 .. GetRequiredSections(table.info[i].size) - 1 :
             d = SectionDatagram(table, i, k)
  BY <1>1, DatagramFacts
<1>3. /\ app[p].state = "ready" /\ app[p].id = table.info[i].id
      /\ table.info[i].size = OutSize[p] /\ Written(table, i, p)
  BY <1>1 DEF Owns
<1>4. table.info[i].size \in Nat /\ table.info[i].start \in Nat
  BY <1>1, SlotParts DEF Inv, TableInv
<1>5. /\ d.id = table.info[i].id /\ d.size = table.info[i].size /\ d.index = k
      /\ d.data = [c \in 1 .. SectionLength(k, table.info[i].size) |->
                     table.mem[table.info[i].start + SectionOffset(k) + c - 1]]
  BY <1>2 DEF SectionDatagram
<1>6. app' = app
  BY DEF SendNext
<1> HIDE DEF i
<1>7. ASSUME NEW c \in DOMAIN d.data
      PROVE  d.data[c] = <<p, SectionOffset(k) + c - 1>>
  <2>1. c \in 1 .. SectionLength(k, table.info[i].size)
    BY <1>5
  <2>2. /\ SectionOffset(k) + c - 1 \in Nat
        /\ SectionOffset(k) + c - 1 < table.info[i].size
        /\ SectionOffset(k) \in Nat /\ c \in Int
    BY <1>4, <2>1, SectionInside
  <2>3. table.mem[table.info[i].start + (SectionOffset(k) + c - 1)]
          = <<p, SectionOffset(k) + c - 1>>
    BY <1>3, <2>2 DEF Written
  <2>4. table.info[i].start + SectionOffset(k) + c - 1
          = table.info[i].start + (SectionOffset(k) + c - 1)
    BY <1>4, <2>2
  <2>5. d.data[c] = table.mem[table.info[i].start + SectionOffset(k) + c - 1]
    BY <1>5, <2>1
  <2>6. QED
    BY <2>3, <2>4, <2>5
<1>8. QED
  BY <1>3, <1>5, <1>6, <1>7 DEF Carries

LEMMA SentIntactStep ==
    ASSUME Inv, SentIntact, [Next]_vars
    PROVE  SentIntact'
<1>1. CASE SendNext
  <2> SUFFICES ASSUME NEW d \in sent', d.type = "Normal"
               PROVE  \E p \in Outgoing : Carries(d, p)'
    BY DEF SentIntact
  <2>1. /\ sendPacket \in Slots /\ table.info[sendPacket].ready
        /\ table.info[sendPacket].type = "Normal"
    BY <1>1, SendFacts, DatagramFacts
  <2>2. sendPacket \in Packets(table)
    BY <2>1 DEF Inv, TableInv, ReadyIsLive, Packets
  <2>3. PICK p \in Outgoing : Owns(p, sendPacket)
    BY <2>2, PacketFacts
  <2>4. QED
    BY <1>1, <2>3, SentCarries
<1>2. CASE \E answer \in AnswerRequests : Answer(answer)
  <2>1. PICK answer \in AnswerRequests : Answer(answer)
    BY <1>2
  <2>2. answer.type # "Normal"
    BY <2>1, AnswerTypesAssumption DEF AnswerRequests, Answers
  <2>3. sent' \subseteq {AnswerDatagram(answer)}
    BY <2>1 DEF Answer
  <2>4. AnswerDatagram(answer).type = answer.type
    BY DEF AnswerDatagram
  <2>5. QED
    BY <2>2, <2>3, <2>4 DEF SentIntact
<1>3. CASE sent' = {}
  BY <1>3 DEF SentIntact
<1>4. CASE sent' = sent /\ app' = app
  BY <1>4 DEF SentIntact, Carries
<1>5. QED
  <2>1. CASE UNCHANGED vars
    BY <1>4, <2>1 DEF vars
  <2>2. CASE Bind \/ Update \/ ExpireNext \/ ExpireDone
    BY <1>3, <1>4, <2>2 DEF Bind, Update, ExpireNext, ExpireDone
  <2>3. CASE DrainDone \/ SendDone \/ Tick
    BY <1>3, <2>3 DEF DrainDone, SendDone, Tick
  <2>4. ASSUME NEW id \in OwnIds, NEW index, NEW rev,
               ReceiveAcknowledge(id, index, rev) \/ ReceiveReject(id, rev)
        PROVE  SentIntact'
    BY <1>3, <2>4 DEF ReceiveAcknowledge, ReceiveReject
  <2>5. ASSUME NEW p \in Outgoing,
               \/ Allocate(p) \/ Fill(p) \/ MarkWritePacketReady(p) \/ Abandon(p)
               \/ \E to \in Peers : SetPacketEndpoint(p, to)
        PROVE  SentIntact'
    BY <1>3, <2>5
       DEF Allocate, Fill, MarkWritePacketReady, Abandon, SetPacketEndpoint
  <2>6. QED
    BY <1>1, <1>2, <2>1, <2>2, <2>3, <2>4, <2>5 DEF Next

-----------------------------------------------------------------------------
(***************************************************************************)
(* The theorems that hold whatever ids peers choose.                       *)
(***************************************************************************)
LEMMA Invariance == Spec => []Inv
<1>1. Inv /\ [Next]_vars => Inv'
  BY InvStep
<1>2. QED
  BY <1>1, InvInit, PTL DEF Spec

\* Whatever the application, the peers and the clock do, the state stays in its
\* type: above all, sizes fit the used part of the buffer and no start wraps
\* around below zero.
THEOREM TypeCorrectness == Spec => []TypeOK
<1>1. Inv => TypeOK
  BY DEF Inv
<1>2. QED
  BY <1>1, Invariance, PTL

\* freeWritePacket leaves the packets in disjoint regions of the used part of
\* the buffer, and every other slot pointing outside it: the start ~0U of a free
\* slot is shifted with the others, but never by more than the buffer holds.
THEOREM LayoutCorrectness == Spec => []TableLayout
<1>1. Inv => TableLayout
  BY IdleStart DEF Inv, TableInv, TableLayout
<1>2. QED
  BY <1>1, Invariance, PTL

\* sendPacket puts on the wire what the application copied into the buffer for a
\* packet it marked ready, however often freeWritePacket moved it in between.
THEOREM ContentCorrectness == Spec => []SentIntact
<1>1. Init => SentIntact
  BY DEF Init, SentIntact
<1>2. QED
  BY <1>1, Invariance, SentIntactStep, PTL DEF Spec

-----------------------------------------------------------------------------
(***************************************************************************)
(* Own and peers' ids apart.  Nothing in the code keeps them apart (both   *)
(* are drawn at random from 32 bits): it is the hypothesis of the theorems *)
(* that follow, and the run WriterCollision shows what is lost without it. *)
(***************************************************************************)
Apart == OwnIds \intersect PeerIds = {}

AnswersAreAnswers ==
    \A i \in Live(table) : table.info[i].type \in Answers =>
        /\ table.info[i].id \in PeerIds
        /\ table.info[i].to \in Askers[table.info[i].id]
        /\ table.info[i].time = Untimed

ReadyAddressed ==
    \A i \in Packets(table) : table.info[i].ready =>
        \E p \in Outgoing : Owns(p, i) /\ table.info[i].to = app[p].to

PreparedAddressed ==
    \A p \in Outgoing : app[p].state = "addressed" =>
        \A i \in Packets(table) :
            table.info[i].id = app[p].id => table.info[i].to = app[p].to

Addressing == AnswersAreAnswers /\ ReadyAddressed /\ PreparedAddressed

\* What is in the table under an own id is a packet, the only one with the id.
LEMMA OwnSlot ==
    ASSUME Apart, Inv, AnswersAreAnswers, NEW i \in Slots,
           table.info[i].id \in OwnIds
    PROVE  /\ i \in Packets(table)
           /\ \A j \in Slots : table.info[j].id = table.info[i].id => j = i
<1>1. ASSUME NEW j \in Slots, table.info[j].id \in OwnIds
      PROVE  j \in Packets(table)
  <2>1. j \in Live(table)
    BY <1>1, WriteTableAssumption DEF Live, Ids
  <2>2. table.info[j].type \in {"Normal"} \union Answers
    BY SlotParts DEF Inv, TableInv, SlotType
  <2>3. table.info[j].type \notin Answers
    BY <1>1, <2>1 DEF AnswersAreAnswers, Apart
  <2>4. QED
    BY <2>1, <2>2, <2>3 DEF Packets
<1>2. QED
  BY <1>1 DEF Inv, TableInv, DistinctIds

(***************************************************************************)
(* What a step may do to slot j.                                           *)
(***************************************************************************)
FreesId(id) ==
    \/ \E p \in Outgoing : Preparing(p) /\ id = app[p].id
    \/ \E i \in Slots : /\ table.info[i].id = id /\ id # NoId
                        /\ table.info[i].time = WriteTimeout
    \/ id \in OwnIds /\ \E rev \in 0 .. MaxRev : ReceiveReject(id, rev)

Freed(j) == /\ table'.info[j] = FreeSlot
            /\ FreesId(table.info[j].id)

Allocated(j) == /\ table.info[j].id = NoId
                /\ table'.info[j].type = "Normal"
                /\ table'.info[j].id \in OwnIds
                /\ ~table'.info[j].ready
                /\ \A p \in Outgoing : ~Preparing(p)

Answered(j) == /\ table.info[j].id = NoId
               /\ table'.info[j].type \in Answers
               /\ table'.info[j].id \in PeerIds
               /\ table'.info[j].to \in Askers[table'.info[j].id]
               /\ table'.info[j].time = Untimed

Readdressed(j) == \E p \in Outgoing, to \in Peers :
                     /\ app[p].state = "filled"
                     /\ table.info[j].id = app[p].id
                     /\ table'.info[j] = [table.info[j] EXCEPT !.to = to]

Readied(j) == \E p \in Outgoing :
                 /\ MarkWritePacketReady(p)
                 /\ app[p].state = "addressed"
                 /\ table.info[j].id = app[p].id
                 /\ table'.info[j] = [table.info[j] EXCEPT !.ready = TRUE]

Retimed(j) == /\ table.info[j].time # Untimed \/ table.info[j].id \in OwnIds
              /\ \E time \in Age \union {Untimed} :
                    table'.info[j] = [table.info[j] EXCEPT !.time = time]

SlotStep(j) ==
    \/ SameSlot(table, table', j)
    \/ Freed(j)
    \/ Allocated(j)
    \/ Answered(j)
    \/ Readdressed(j)
    \/ Readied(j)
    \/ Retimed(j)

LEMMA FreeSlots ==
    ASSUME Inv, NEW id, id # NoId, Free(id), FreesId(id), NEW j \in Slots
    PROVE  SlotStep(j)
<1>1. PICK i \in Slots : /\ IsFirst(table, i, id)
                         /\ table' = FreeWritePacket(table, i)
  BY DEF Free
<1>2. i \in Live(table) /\ TableInv(table) /\ table.info[i].id = id
  BY <1>1 DEF IsFirst, Live, Inv
<1>3. /\ \A k \in Slots \ {i} : SameSlot(table, table', k)
      /\ table'.info[i] = FreeSlot
  BY <1>1, <1>2, FreePreserves
<1>4. QED
  BY <1>2, <1>3 DEF SlotStep, Freed

LEMMA SlotSteps ==
    ASSUME Inv, [Next]_vars, NEW j \in Slots
    PROVE  SlotStep(j)
<1>1. CASE table' = table
  BY <1>1 DEF SlotStep, SameSlot
<1>2. ASSUME NEW p \in Outgoing, Allocate(p) PROVE SlotStep(j)
  <2>1. PICK id \in OwnIds, i \in Slots :
           /\ ~HasUsedPacketID(table, id)
           /\ IsFirst(table, i, NoId)
           /\ table' = AllocateWritePacket(table, i, id, OutSize[p])
    BY <1>2 DEF Allocate
  <2>2. /\ TableInv(table) /\ i \in Slots \ Live(table)
        /\ OutSize[p] \in Nat /\ CanAllocate(table, OutSize[p])
    BY <1>2, <2>1, WriteTableAssumption DEF Inv, IsFirst, Live, Allocate
  <2>3. /\ table'.info[i].id = id /\ ~table'.info[i].ready
        /\ \A k \in Slots \ {i} : table'.info[k] = table.info[k]
        /\ i \in Packets(table')
    BY <2>1, <2>2, AllocatePreserves
  <2>4. CASE j = i
    <3>1. Allocated(j)
      BY <1>2, <2>1, <2>3, <2>4 DEF Allocated, Allocate, IsFirst, Packets
    <3>2. QED
      BY <3>1 DEF SlotStep
  <2>5. CASE j # i
    BY <2>3, <2>5 DEF SlotStep, SameSlot
  <2>6. QED
    BY <2>4, <2>5
<1>3. ASSUME NEW p \in Outgoing, Fill(p) PROVE SlotStep(j)
  <2>1. table'.info = table.info
    BY <1>3 DEF Fill, FillPacket
  <2>2. QED
    BY <2>1 DEF SlotStep, SameSlot
<1>4. ASSUME NEW p \in Outgoing, NEW to \in Peers, SetPacketEndpoint(p, to)
      PROVE  SlotStep(j)
  <2>1. /\ app[p].id \in OwnIds /\ TableInv(table) /\ app[p].state = "filled"
        /\ table' = WithEndpoint(table, app[p].id, to)
    BY <1>4, PreparingFacts DEF SetPacketEndpoint, Preparing, Inv
  <2>2. table'.info[j] = IF IsFirst(table, j, app[p].id)
                         THEN [table.info[j] EXCEPT !.to = to]
                         ELSE table.info[j]
    BY <2>1, EndpointPreserves
  <2>3. CASE IsFirst(table, j, app[p].id)
    BY <2>1, <2>2, <2>3 DEF SlotStep, Readdressed, IsFirst
  <2>4. CASE ~IsFirst(table, j, app[p].id)
    BY <2>2, <2>4 DEF SlotStep, SameSlot
  <2>5. QED
    BY <2>3, <2>4
<1>5. ASSUME NEW p \in Outgoing, MarkWritePacketReady(p) PROVE SlotStep(j)
  <2>1. /\ app[p].id \in OwnIds /\ TableInv(table)
        /\ table' = WithReady(table, app[p].id)
        /\ app[p].state = "addressed"
    BY <1>5, PreparingFacts DEF MarkWritePacketReady, Preparing, Inv
  <2>2. table'.info[j] = IF IsFirst(table, j, app[p].id)
                         THEN [table.info[j] EXCEPT !.ready = TRUE]
                         ELSE table.info[j]
    BY <2>1, ReadyPreserves
  <2>3. CASE IsFirst(table, j, app[p].id)
    BY <1>5, <2>1, <2>2, <2>3 DEF SlotStep, Readied, IsFirst
  <2>4. CASE ~IsFirst(table, j, app[p].id)
    BY <2>2, <2>4 DEF SlotStep, SameSlot
  <2>5. QED
    BY <2>3, <2>4
<1>6. ASSUME NEW p \in Outgoing, Abandon(p) PROVE SlotStep(j)
  <2>1. app[p].id # NoId /\ FreesId(app[p].id)
    BY <1>6, PreparingFacts DEF Abandon, FreesId
  <2>2. QED
    BY <1>1, <1>6, <2>1, FreeSlots DEF Abandon
<1>7. CASE ExpireNext
  <2>1. CASE table.info[cursor].id # NoId /\ table.info[cursor].time = WriteTimeout
             /\ Free(table.info[cursor].id)
    <3>1. cursor \in Slots
      BY <1>7, WriteTableAssumption DEF ExpireNext, Inv, TypeOK, Slots
    <3>2. FreesId(table.info[cursor].id)
      BY <2>1, <3>1 DEF FreesId
    <3>3. QED
      BY <2>1, <3>2, FreeSlots
  <2>2. QED
    BY <1>1, <1>7, <2>1 DEF ExpireNext
<1>8. ASSUME NEW answer \in AnswerRequests, Answer(answer) PROVE SlotStep(j)
  <2>1. CASE AvailableWritePackets(table) # {}
    <3>1. PICK i \in Slots :
            /\ IsFirst(table, i, NoId)
            /\ table' = SetSlot(table, i, AnswerSlot(table.info[i], answer))
      BY <1>8, <2>1 DEF Answer
    <3>2. i \in Slots \ Live(table) /\ table.info[i].id = NoId /\ TableInv(table)
      BY <3>1 DEF IsFirst, Live, Inv
    <3>3. /\ answer \in [type : Answers, id : PeerIds, index : 0 .. MaxIndex,
                         rev : 0 .. MaxRev, to : Peers]
          /\ answer.to \in Askers[answer.id]
      BY AnswerTypesAssumption DEF AnswerRequests
    <3>4. /\ \A k \in Slots \ {i} : table'.info[k] = table.info[k]
          /\ table'.info[i].type = answer.type /\ table'.info[i].id = answer.id
          /\ table'.info[i].to = answer.to /\ table'.info[i].time = Untimed
      BY <3>1, <3>2, <3>3, AnswerPreserves
    <3>5. QED
      BY <3>2, <3>3, <3>4 DEF SlotStep, SameSlot, Answered
  <2>2. QED
    BY <1>1, <1>8, <2>1 DEF Answer
<1>9. ASSUME NEW id \in OwnIds, NEW index, NEW rev,
             ReceiveAcknowledge(id, index, rev)
      PROVE  SlotStep(j)
  <2>1. PICK i \in Slots :
           /\ table.info[i].id = id
           /\ table' = SetSlot(table, i, [table.info[i] EXCEPT !.time = 0])
    BY <1>9 DEF ReceiveAcknowledge, IsFirst
  <2>2. /\ OnlyTimesDiffer(table, table')
        /\ \A k \in Slots \ {i} : table'.info[k] = table.info[k]
    BY <2>1, AcknowledgeTime DEF Inv
  <2>3. CASE j = i
    <3>1. table.info[j].id \in OwnIds
      BY <2>1, <2>3
    <3>2. QED
      BY <2>2, <3>1 DEF OnlyTimesDiffer, SlotStep, SameSlot, Retimed
  <2>4. CASE j # i
    BY <2>2, <2>4 DEF SlotStep, SameSlot
  <2>5. QED
    BY <2>3, <2>4
<1>10. ASSUME NEW id \in OwnIds, NEW rev \in 0 .. MaxRev, ReceiveReject(id, rev)
       PROVE  SlotStep(j)
  <2>1. id # NoId /\ FreesId(id)
    BY <1>10, WriteTableAssumption DEF FreesId, Ids
  <2>2. QED
    BY <1>10, <2>1, FreeSlots DEF ReceiveReject
<1>11. CASE Tick
  <2>1. table' = AgeTable(table) /\ TableInv(table)
    BY <1>11 DEF Tick, Inv
  <2>2. /\ OnlyTimesDiffer(table, table')
        /\ table.info[j].time = Untimed => table'.info[j] = table.info[j]
    BY <2>1, AgeTime
  <2>3. QED
    BY <2>2 DEF OnlyTimesDiffer, SlotStep, SameSlot, Retimed
<1>12. CASE \/ Bind \/ Update \/ ExpireDone \/ DrainDone \/ SendNext \/ SendDone
            \/ UNCHANGED vars
  BY <1>1, <1>12 DEF Bind, Update, ExpireDone, DrainDone, SendNext, SendDone, vars
<1>13. QED
  BY <1>2, <1>3, <1>4, <1>5, <1>6, <1>7, <1>8, <1>9, <1>10, <1>11, <1>12 DEF Next

\* Only packets of the application are ever freed.
LEMMA FreedIsPacket ==
    ASSUME Apart, Inv, AnswersAreAnswers, NEW i \in Slots,
           FreesId(table.info[i].id)
    PROVE  table.info[i].id \in OwnIds /\ i \in Packets(table)
<1>1. table.info[i].id \in OwnIds
  <2>1. ASSUME NEW p \in Outgoing, Preparing(p), table.info[i].id = app[p].id
        PROVE  table.info[i].id \in OwnIds
    BY <2>1, PreparingFacts
  <2>2. ASSUME NEW k \in Slots, table.info[k].id = table.info[i].id,
               table.info[k].id # NoId, table.info[k].time = WriteTimeout
        PROVE  table.info[i].id \in OwnIds
    <3>1. k \in Live(table)
      BY <2>2 DEF Live
    <3>2. table.info[k].time # Untimed
      BY <2>2, WriteTableAssumption DEF Untimed
    <3>3. table.info[k].type \in {"Normal"} \union Answers
      BY SlotParts DEF Inv, TableInv, SlotType
    <3>4. k \in Packets(table)
      BY <3>1, <3>2, <3>3 DEF AnswersAreAnswers, Packets
    <3>5. QED
      BY <2>2, <3>4, PacketFacts
  <2>3. QED
    BY <2>1, <2>2 DEF FreesId
<1>2. QED
  BY <1>1, OwnSlot

\* The application addresses its packet by setPacketEndpoint and not otherwise.
LEMMA AddressedBy ==
    ASSUME Inv, [Next]_vars, NEW p \in Outgoing, app'[p].state = "addressed"
    PROVE  \/ app'[p] = app[p] /\ \A q \in Outgoing : ~Allocate(q)
           \/ \E to \in Peers : /\ SetPacketEndpoint(p, to)
                                /\ app'[p].id = app[p].id /\ app'[p].to = to
<1>1. app \in [Outgoing -> AppRecords]
  BY DEF Inv, TypeOK
<1>2. ASSUME NEW q \in Outgoing, Allocate(q) PROVE FALSE
  <2>1. /\ \A r \in Outgoing : ~Preparing(r)
        /\ \E id : app' = [app EXCEPT ![q] = [state |-> "allocated", id |-> id,
                                               to |-> NoEndpoint]]
    BY <1>2 DEF Allocate
  <2>2. QED
    BY <1>1, <2>1 DEF Preparing
<1>3. ASSUME NEW q \in Outgoing, NEW state \in AppStates, Progress(q, state),
             state # "addressed"
      PROVE  app'[p] = app[p]
  BY <1>3, ProgressType
<1>4. ASSUME NEW q \in Outgoing, Fill(q) \/ MarkWritePacketReady(q) \/ Abandon(q)
      PROVE  app'[p] = app[p]
  <2>1. \E state \in {"filled", "ready", "abandoned"} : Progress(q, state)
    BY <1>4 DEF Fill, MarkWritePacketReady, Abandon
  <2>2. QED
    BY <1>3, <2>1 DEF AppStates
<1>5. ASSUME NEW q \in Outgoing, NEW to \in Peers, SetPacketEndpoint(q, to)
      PROVE  \/ app'[p] = app[p]
             \/ \E too \in Peers : /\ SetPacketEndpoint(p, too)
                                   /\ app'[p].id = app[p].id /\ app'[p].to = too
  BY <1>5, EndpointApp
<1>6. CASE app' = app
  BY <1>2, <1>6
<1>7. CASE \/ Bind \/ Update \/ ExpireNext \/ ExpireDone \/ DrainDone \/ SendNext
           \/ SendDone \/ Tick \/ UNCHANGED vars
  BY <1>6, <1>7 DEF Bind, Update, ExpireNext, ExpireDone, DrainDone, SendNext,
                    SendDone, Tick, vars
<1>8. ASSUME NEW id, NEW index, NEW rev,
             ReceiveAcknowledge(id, index, rev) \/ ReceiveReject(id, rev)
      PROVE  app' = app
  BY <1>8 DEF ReceiveAcknowledge, ReceiveReject
<1>9. ASSUME NEW answer, Answer(answer) PROVE app' = app
  BY <1>9 DEF Answer
<1>10. QED
  BY <1>2, <1>4, <1>5, <1>6, <1>7, <1>8, <1>9 DEF Next

LEMMA AddressingStep ==
    ASSUME Apart, Inv, Inv', OwnersKept, Addressing, [Next]_vars
    PROVE  Addressing'
<1>1. \A j \in Slots : table.info[j] \in SlotType /\ table'.info[j] \in SlotType
  BY DEF Inv, TypeOK, Tables
<1>2. \A j \in Slots : FreesId(table.info[j].id) => j \in Packets(table)
  BY FreedIsPacket DEF Addressing
<1>3. AnswersAreAnswers'
  <2> SUFFICES ASSUME NEW j \in Live(table'), table'.info[j].type \in Answers
               PROVE  /\ table'.info[j].id \in PeerIds
                      /\ table'.info[j].to \in Askers[table'.info[j].id]
                      /\ table'.info[j].time = Untimed
    BY DEF AnswersAreAnswers
  <2>1. j \in Slots /\ table'.info[j].id # NoId /\ SlotStep(j)
    BY SlotSteps DEF Live
  <2>2. ASSUME table'.info[j].id = table.info[j].id,
               table'.info[j].type = table.info[j].type
        PROVE  /\ table.info[j].id \in PeerIds
               /\ table.info[j].to \in Askers[table.info[j].id]
               /\ table.info[j].time = Untimed /\ table.info[j].id \notin OwnIds
    BY <2>1, <2>2 DEF Addressing, AnswersAreAnswers, Live, Apart
  <2>3. CASE SameSlot(table, table', j)
    BY <2>2, <2>3 DEF SameSlot
  <2>4. CASE Freed(j)
    BY <2>1, <2>4 DEF Freed, FreeSlot
  <2>5. CASE Allocated(j)
    BY <2>5 DEF Allocated, Answers
  <2>6. CASE Answered(j)
    BY <2>6 DEF Answered
  <2>7. CASE Readdressed(j)
    <3>1. PICK p \in Outgoing, to \in Peers :
             /\ app[p].state = "filled"
             /\ table.info[j].id = app[p].id
             /\ table'.info[j] = [table.info[j] EXCEPT !.to = to]
      BY <2>7 DEF Readdressed
    <3>2. table.info[j].id \in OwnIds
      BY <3>1, PreparingFacts DEF Preparing
    <3>3. table'.info[j].id = table.info[j].id /\ table'.info[j].type = table.info[j].type
      BY <1>1, <2>1, <3>1 DEF SlotType
    <3>4. QED
      BY <2>2, <3>2, <3>3
  <2>8. CASE Readied(j)
    BY <1>1, <2>1, <2>2, <2>8 DEF Readied, SlotType
  <2>9. CASE Retimed(j)
    <3>1. table'.info[j].id = table.info[j].id /\ table'.info[j].type = table.info[j].type
      BY <1>1, <2>1, <2>9 DEF Retimed, SlotType
    <3>2. QED
      BY <2>2, <2>9, <3>1 DEF Retimed
  <2>10. QED
    BY <2>1, <2>3, <2>4, <2>5, <2>6, <2>7, <2>8, <2>9 DEF SlotStep
<1>4. ReadyAddressed'
  <2> SUFFICES ASSUME NEW j \in Packets(table'), table'.info[j].ready
               PROVE  \E p \in Outgoing : /\ Owns(p, j)'
                                          /\ table'.info[j].to = app'[p].to
    BY DEF ReadyAddressed
  <2>1. /\ j \in Slots /\ table'.info[j].id # NoId
        /\ table'.info[j].type = "Normal" /\ SlotStep(j)
    BY SlotSteps DEF Packets, Live
  <2>2. ASSUME table'.info[j].id = table.info[j].id,
               table'.info[j].type = table.info[j].type
        PROVE  j \in Packets(table)
    BY <2>1, <2>2 DEF Packets, Live
  <2>3. ASSUME j \in Packets(table), table.info[j].ready,
               table'.info[j].to = table.info[j].to
        PROVE  \E p \in Outgoing : Owns(p, j)' /\ table'.info[j].to = app'[p].to
    <3>1. PICK p \in Outgoing : Owns(p, j) /\ table.info[j].to = app[p].to
      BY <2>3 DEF Addressing, ReadyAddressed
    <3>2. Owns(p, j)' /\ app'[p].to = app[p].to
      BY <2>3, <3>1 DEF OwnersKept
    <3>3. QED
      BY <2>3, <3>1, <3>2
  <2>4. CASE SameSlot(table, table', j)
    BY <2>2, <2>3, <2>4 DEF SameSlot
  <2>5. CASE Freed(j)
    BY <2>1, <2>5 DEF Freed, FreeSlot
  <2>6. CASE Allocated(j)
    BY <2>6 DEF Allocated
  <2>7. CASE Answered(j)
    BY <2>1, <2>7 DEF Answered, Answers
  <2>8. CASE Readdressed(j)
    <3>1. PICK p \in Outgoing, to \in Peers :
             /\ app[p].state = "filled"
             /\ table.info[j].id = app[p].id
             /\ table'.info[j] = [table.info[j] EXCEPT !.to = to]
      BY <2>8 DEF Readdressed
    <3>2. /\ table'.info[j].id = table.info[j].id
          /\ table'.info[j].type = table.info[j].type
          /\ table'.info[j].ready = table.info[j].ready
      BY <1>1, <2>1, <3>1 DEF SlotType
    <3>3. Preparing(p) /\ j \in Packets(table)
      BY <2>2, <3>1, <3>2 DEF Preparing
    <3>4. QED
      BY <3>1, <3>2, <3>3, PreparingIsNotReady
  <2>9. CASE Readied(j)
    <3>1. PICK p \in Outgoing :
             /\ MarkWritePacketReady(p)
             /\ app[p].state = "addressed"
             /\ table.info[j].id = app[p].id
             /\ table'.info[j] = [table.info[j] EXCEPT !.ready = TRUE]
      BY <2>9 DEF Readied
    <3>2. /\ table'.info[j].id = table.info[j].id
          /\ table'.info[j].type = table.info[j].type
          /\ table'.info[j].to = table.info[j].to
      BY <1>1, <2>1, <3>1 DEF SlotType
    <3>3. j \in Packets(table)
      BY <2>2, <3>2
    <3>4. Owns(p, j)' /\ app'[p].to = app[p].to
      BY <3>1, <3>3, ReadyStep
    <3>5. table.info[j].to = app[p].to
      BY <3>1, <3>3 DEF Addressing, PreparedAddressed
    <3>6. QED
      BY <3>2, <3>4, <3>5
  <2>10. CASE Retimed(j)
    <3>1. /\ table'.info[j].id = table.info[j].id
          /\ table'.info[j].type = table.info[j].type
          /\ table'.info[j].to = table.info[j].to
          /\ table'.info[j].ready = table.info[j].ready
      BY <1>1, <2>1, <2>10 DEF Retimed, SlotType
    <3>2. QED
      BY <2>2, <2>3, <3>1
  <2>11. QED
    BY <2>1, <2>4, <2>5, <2>6, <2>7, <2>8, <2>9, <2>10 DEF SlotStep
<1>5. PreparedAddressed'
  <2> SUFFICES ASSUME NEW p \in Outgoing, app'[p].state = "addressed",
                      NEW j \in Packets(table'), table'.info[j].id = app'[p].id
               PROVE  table'.info[j].to = app'[p].to
    BY DEF PreparedAddressed
  <2>1. /\ j \in Slots /\ table'.info[j].id # NoId
        /\ table'.info[j].type = "Normal" /\ SlotStep(j)
    BY SlotSteps DEF Packets, Live
  <2>2. CASE app'[p] = app[p]
    <3>1. /\ Preparing(p) /\ app[p].state = "addressed"
          /\ \A q \in Outgoing : Preparing(q) => q = p
      BY <2>2, PreparingFacts DEF Preparing
    <3>2. ASSUME table'.info[j].id = table.info[j].id,
                 table'.info[j].type = table.info[j].type
          PROVE  table.info[j].to = app'[p].to
      BY <2>1, <2>2, <3>1, <3>2 DEF Addressing, PreparedAddressed, Packets, Live
    <3>3. CASE SameSlot(table, table', j)
      BY <3>2, <3>3 DEF SameSlot
    <3>4. CASE Freed(j)
      BY <2>1, <3>4 DEF Freed, FreeSlot
    <3>5. CASE Allocated(j)
      BY <3>1, <3>5 DEF Allocated
    <3>6. CASE Answered(j)
      BY <2>1, <3>6 DEF Answered, Answers
    <3>7. CASE Readdressed(j)
      <4>1. PICK q \in Outgoing : app[q].state = "filled"
        BY <3>7 DEF Readdressed
      <4>2. q = p
        BY <3>1, <4>1 DEF Preparing
      <4>3. QED
        BY <3>1, <4>1, <4>2
    <3>8. CASE Readied(j)
      BY <1>1, <2>1, <3>2, <3>8 DEF Readied, SlotType
    <3>9. CASE Retimed(j)
      BY <1>1, <2>1, <3>2, <3>9 DEF Retimed, SlotType
    <3>10. QED
      BY <2>1, <3>3, <3>4, <3>5, <3>6, <3>7, <3>8, <3>9 DEF SlotStep
  <2>3. ASSUME NEW to \in Peers, SetPacketEndpoint(p, to), app'[p].id = app[p].id,
               app'[p].to = to
        PROVE  table'.info[j].to = app'[p].to
    <3>1. /\ app[p].id \in OwnIds /\ TableInv(table)
          /\ table' = WithEndpoint(table, app[p].id, to)
      BY <2>3, PreparingFacts DEF SetPacketEndpoint, Preparing, Inv
    <3>2. table'.info[j] = IF IsFirst(table, j, app[p].id)
                           THEN [table.info[j] EXCEPT !.to = to]
                           ELSE table.info[j]
      BY <2>1, <3>1, EndpointPreserves
    <3>3. table.info[j].id = app[p].id
      BY <1>1, <2>1, <2>3, <3>2 DEF IsFirst
    <3>4. \A i \in Slots : table.info[i].id = table.info[j].id => i = j
      BY <2>1, <3>1, <3>3, OwnSlot DEF Addressing
    <3>5. IsFirst(table, j, app[p].id)
      BY <2>1, <3>3, <3>4 DEF IsFirst, Slots
    <3>6. QED
      BY <1>1, <2>1, <2>3, <3>2, <3>5 DEF SlotType
  <2>4. QED
    BY <2>2, <2>3, AddressedBy
<1>6. QED
  BY <1>3, <1>4, <1>5 DEF Addressing

LEMMA SentAddressedStep ==
    ASSUME Inv, Addressing, SentAddressed, [Next]_vars
    PROVE  SentAddressed'
<1> DEFINE Right(d) == IF d.type = "Normal"
                       THEN \E p \in Outgoing : /\ Carries(d, p)'
                                                /\ d.to = app'[p].to
                       ELSE d.to \in Askers[d.id]
<1>1. CASE SendNext
  <2> SUFFICES ASSUME NEW d \in sent' PROVE Right(d)
    BY DEF SentAddressed
  <2>1. /\ sendPacket \in Slots /\ table.info[sendPacket].ready
        /\ d \in DatagramsOf(table, sendPacket)
    BY <1>1, SendFacts
  <2>2. /\ d.to = table.info[sendPacket].to
        /\ d.id = table.info[sendPacket].id
        /\ d.type = table.info[sendPacket].type
    BY <2>1, DatagramFacts
  <2>3. sendPacket \in Live(table)
    BY <2>1 DEF Inv, TableInv, ReadyIsLive
  <2>4. table.info[sendPacket].type \in {"Normal"} \union Answers
    BY <2>1, SlotParts DEF Inv, TableInv, SlotType
  <2>5. CASE d.type = "Normal"
    <3>1. sendPacket \in Packets(table)
      BY <2>2, <2>3, <2>5 DEF Packets
    <3>2. PICK p \in Outgoing : /\ Owns(p, sendPacket)
                                /\ table.info[sendPacket].to = app[p].to
      BY <2>1, <3>1 DEF Addressing, ReadyAddressed
    <3>3. Carries(d, p)' /\ app' = app
      BY <1>1, <2>5, <3>2, SentCarries DEF SendNext
    <3>4. QED
      BY <2>2, <2>5, <3>2, <3>3
  <2>6. CASE d.type # "Normal"
    BY <2>2, <2>3, <2>4, <2>6 DEF Addressing, AnswersAreAnswers
  <2>7. QED
    BY <2>5, <2>6
<1>2. ASSUME NEW answer \in AnswerRequests, Answer(answer)
      PROVE  SentAddressed'
  <2> SUFFICES ASSUME NEW d \in sent' PROVE Right(d)
    BY DEF SentAddressed
  <2>1. d = AnswerDatagram(answer)
    BY <1>2 DEF Answer
  <2>2. /\ d.type = answer.type /\ d.id = answer.id /\ d.to = answer.to
    BY <2>1 DEF AnswerDatagram
  <2>3. /\ answer.type # "Normal" /\ answer.to \in Askers[answer.id]
    BY AnswerTypesAssumption DEF AnswerRequests, Answers
  <2>4. QED
    BY <2>2, <2>3
<1>3. CASE sent' = {} \/ (sent' = sent /\ app' = app)
  BY <1>3 DEF SentAddressed, Carries
<1>4. CASE \/ Bind \/ Update \/ ExpireNext \/ ExpireDone \/ DrainDone \/ SendDone
           \/ Tick \/ UNCHANGED vars
  BY <1>3, <1>4 DEF Bind, Update, ExpireNext, ExpireDone, DrainDone, SendDone, Tick,
                    vars
<1>5. ASSUME NEW id, NEW index, NEW rev,
             ReceiveAcknowledge(id, index, rev) \/ ReceiveReject(id, rev)
      PROVE  SentAddressed'
  BY <1>3, <1>5 DEF ReceiveAcknowledge, ReceiveReject
<1>6. ASSUME NEW p \in Outgoing,
             \/ Allocate(p) \/ Fill(p) \/ MarkWritePacketReady(p) \/ Abandon(p)
             \/ \E to \in Peers : SetPacketEndpoint(p, to)
      PROVE  SentAddressed'
  BY <1>3, <1>6
     DEF Allocate, Fill, MarkWritePacketReady, Abandon, SetPacketEndpoint
<1>7. QED
  BY <1>1, <1>2, <1>4, <1>5, <1>6 DEF Next

\* Packets of up to WordBits sections are recorded in the word: a larger one has
\* a bitmap pointer that was never set.
FitsWord == \A p \in Outgoing : UsesWord(OutSize[p])

LEMMA PacketFitsWord ==
    ASSUME FitsWord, Inv, NEW i \in Packets(table)
    PROVE  UsesWord(table.info[i].size)
<1>1. PICK p \in Outgoing : table.info[i].size = OutSize[p]
  BY PacketFacts DEF Owns
<1>2. QED
  BY <1>1 DEF FitsWord

\* Memory is moved inside the buffer and no bitmap deleted: what is freed is a
\* packet that fits the word.
LEMMA FreeTame ==
    ASSUME Apart, FitsWord, Inv, AnswersAreAnswers, NEW id, Free(id), FreesId(id)
    PROVE  pc' = pc
<1>1. PICK i \in Slots :
         /\ table.info[i].id = id
         /\ pc' \in IF UndefinedFree(table, i) THEN {pc, "crashed"} ELSE {pc}
  BY DEF Free, IsFirst
<1>2. i \in Packets(table)
  BY <1>1, FreedIsPacket
<1>3. /\ table.info[i].start \in Nat /\ table.info[i].size \in Nat
      /\ table.info[i].start + table.info[i].size <= table.used
      /\ table.used \in Nat /\ table.used <= BufferSize /\ BufferSize \in Nat
  BY <1>2, SlotParts DEF Inv, TableInv, Layout, InBounds
<1>4. ~IsWildMove(table, i)
  BY <1>3 DEF IsWildMove
<1>5. QED
  BY <1>1, <1>2, <1>4, PacketFitsWord DEF UndefinedFree

LEMMA NoWildMoveStep ==
    ASSUME Apart, FitsWord, Inv, Addressing, NoWildMove, [Next]_vars
    PROVE  NoWildMove'
<1> USE DEF NoWildMove
<1>1. CASE pc' = pc
  BY <1>1
<1>2. ASSUME NEW p \in Outgoing, Abandon(p) PROVE NoWildMove'
  <2>1. FreesId(app[p].id)
    BY <1>2 DEF Abandon, FreesId
  <2>2. QED
    BY <1>1, <1>2, <2>1, FreeTame DEF Abandon, Addressing
<1>3. CASE ExpireNext
  <2>1. CASE table.info[cursor].id # NoId /\ table.info[cursor].time = WriteTimeout
             /\ Free(table.info[cursor].id)
    <3>1. cursor \in Slots
      BY <1>3, WriteTableAssumption DEF ExpireNext, Inv, TypeOK, Slots
    <3>2. FreesId(table.info[cursor].id)
      BY <2>1, <3>1 DEF FreesId
    <3>3. QED
      BY <1>1, <2>1, <3>2, FreeTame DEF Addressing
  <2>2. QED
    BY <1>1, <1>3, <2>1 DEF ExpireNext
<1>4. ASSUME NEW id \in OwnIds, NEW rev \in 0 .. MaxRev, ReceiveReject(id, rev)
      PROVE  NoWildMove'
  <2>1. FreesId(id)
    BY <1>4 DEF FreesId
  <2>2. QED
    BY <1>1, <1>4, <2>1, FreeTame DEF ReceiveReject, Addressing
<1>5. ASSUME NEW id \in OwnIds, NEW index, NEW rev,
             ReceiveAcknowledge(id, index, rev)
      PROVE  NoWildMove'
  <2>1. PICK i \in Slots :
           /\ table.info[i].id = id
           /\ pc' \in IF UsesWord(table.info[i].size) THEN {pc} ELSE {pc, "crashed"}
    BY <1>5 DEF ReceiveAcknowledge, IsFirst
  <2>2. i \in Packets(table)
    BY <2>1, OwnSlot DEF Addressing
  <2>3. UsesWord(table.info[i].size)
    BY <2>2, PacketFitsWord
  <2>4. QED
    BY <1>1, <2>1, <2>3
<1>6. CASE \/ Bind \/ Update \/ ExpireDone \/ DrainDone \/ SendNext \/ SendDone
           \/ Tick \/ UNCHANGED vars
  BY <1>1, <1>6 DEF Bind, Update, ExpireDone, DrainDone, SendNext, SendDone, Tick,
                    vars, handlerVars
<1>7. ASSUME NEW answer, Answer(answer) PROVE NoWildMove'
  BY <1>1, <1>7 DEF Answer
<1>8. ASSUME NEW p \in Outgoing,
             \/ Allocate(p) \/ Fill(p) \/ MarkWritePacketReady(p)
             \/ \E to \in Peers : SetPacketEndpoint(p, to)
      PROVE  NoWildMove'
  BY <1>1, <1>8
     DEF Allocate, Fill, MarkWritePacketReady, SetPacketEndpoint, handlerVars
<1>9. QED
  BY <1>2, <1>3, <1>4, <1>5, <1>6, <1>7, <1>8 DEF Next

LEMMA AnswersStayStep ==
    ASSUME Apart, Inv, Addressing, [Next]_vars,
           NEW i \in Live(table), table.info[i].type \in Answers
    PROVE  /\ i \in Live(table')
           /\ table'.info[i].type = table.info[i].type
           /\ table'.info[i].id = table.info[i].id
<1>1. /\ i \in Slots /\ table.info[i].id # NoId /\ SlotStep(i)
      /\ table.info[i] \in SlotType
  BY SlotSteps, SlotParts DEF Live, Inv, TableInv
<1>2. ~Freed(i)
  <2>1. i \notin Packets(table)
    BY DEF Packets, Answers
  <2>2. QED
    BY <1>1, <2>1, FreedIsPacket DEF Freed, Addressing
<1>3. ~Allocated(i) /\ ~Answered(i)
  BY <1>1 DEF Allocated, Answered
<1>4. /\ table'.info[i].type = table.info[i].type
      /\ table'.info[i].id = table.info[i].id
  <2>1. CASE SameSlot(table, table', i)
    BY <2>1 DEF SameSlot
  <2>2. CASE Readdressed(i)
    BY <1>1, <2>2 DEF Readdressed, SlotType
  <2>3. CASE Readied(i)
    BY <1>1, <2>3 DEF Readied, SlotType
  <2>4. CASE Retimed(i)
    BY <1>1, <2>4 DEF Retimed, SlotType
  <2>5. QED
    BY <1>1, <1>2, <1>3, <2>1, <2>2, <2>3, <2>4 DEF SlotStep
<1>5. QED
  BY <1>1, <1>4 DEF Live

LEMMA UnacknowledgedStep ==
    ASSUME Apart, Inv, Addressing, [Next]_vars,
           NEW i \in Packets(table), table.info[i].ready,
           table.info[i].time = Untimed, table'.info[i].id # table.info[i].id
    PROVE  \E rev \in 0 .. MaxRev : ReceiveReject(table.info[i].id, rev)
<1>1. /\ i \in Slots /\ table.info[i].id # NoId /\ SlotStep(i)
      /\ table.info[i] \in SlotType /\ table.info[i].id \in OwnIds
  BY SlotSteps, SlotParts, PacketFacts DEF Packets, Live, Inv, TableInv
<1>2. Freed(i)
  <2>1. ~SameSlot(table, table', i)
    BY DEF SameSlot
  <2>2. ~Allocated(i) /\ ~Answered(i)
    BY <1>1 DEF Allocated, Answered
  <2>3. ~Readdressed(i)
    BY <1>1 DEF Readdressed, SlotType
  <2>4. ~Readied(i)
    BY <1>1 DEF Readied, SlotType
  <2>5. ~Retimed(i)
    BY <1>1 DEF Retimed, SlotType
  <2>6. QED
    BY <1>1, <2>1, <2>2, <2>3, <2>4, <2>5 DEF SlotStep
<1>3. ASSUME NEW p \in Outgoing, Preparing(p), table.info[i].id = app[p].id
      PROVE  FALSE
  <2>1. Owns(p, i)
    BY <1>3, PreparingFacts
  <2>2. QED
    BY <1>3, <2>1 DEF Owns, Preparing
<1>4. ASSUME NEW k \in Slots, table.info[k].id = table.info[i].id,
             table.info[k].time = WriteTimeout
      PROVE  FALSE
  <2>1. k = i
    BY <1>1, <1>4, OwnSlot DEF Addressing
  <2>2. QED
    BY <1>4, <2>1, WriteTableAssumption DEF Untimed
<1>5. QED
  BY <1>2, <1>3, <1>4 DEF Freed, FreesId

-----------------------------------------------------------------------------
(***************************************************************************)
(* The theorems that need the ids apart.                                   *)
(***************************************************************************)
LEMMA AddressingInvariance == ASSUME Apart PROVE Spec => [](Inv /\ Addressing)
<1>1. Init => Addressing
  <2>1. Init => table = EmptyTable /\ \A p \in Outgoing : app[p].state = "new"
    BY DEF Init
  <2>2. QED
    BY <2>1, EmptyTableInv
       DEF Addressing, AnswersAreAnswers, ReadyAddressed, PreparedAddressed
<1>2. Inv /\ Addressing /\ [Next]_vars => (Inv /\ Addressing)'
  BY InvStep, AddressingStep
<1>3. QED
  BY <1>1, <1>2, InvInit, PTL DEF Spec

\* setPacketEndpoint finds the packet it is called for, whatever was freed and
\* allocated since: what was written for a packet goes to the endpoint that was
\* set for it, and an answer to an endpoint packets of its id came from.
THEOREM AddressCorrectness == ASSUME Apart PROVE Spec => []SentAddressed
<1>1. Init => SentAddressed
  BY DEF Init, SentAddressed
<1>2. Inv /\ Addressing /\ SentAddressed /\ [Next]_vars => SentAddressed'
  BY SentAddressedStep
<1>3. QED
  BY <1>1, <1>2, AddressingInvariance, PTL DEF Spec

\* No timeout, rejection or call of the application makes freeWritePacket move
\* memory from outside the buffer or delete a bitmap that was not allocated, and
\* no acknowledgement writes through one.
THEOREM MoveCorrectness == ASSUME Apart, FitsWord PROVE Spec => []NoWildMove
<1>1. Init => NoWildMove
  BY DEF Init, NoWildMove
<1>2. Inv /\ Addressing /\ NoWildMove /\ [Next]_vars => NoWildMove'
  BY NoWildMoveStep
<1>3. QED
  BY <1>1, <1>2, AddressingInvariance, PTL DEF Spec

\* An answer is never taken out of its slot again: nothing frees it.
THEOREM AnswerCorrectness == ASSUME Apart PROVE Spec => AnswersStay
<1>1. Inv /\ Addressing /\ [Next]_vars =>
        [\A i \in Live(table) :
            table.info[i].type \in Answers =>
                /\ i \in Live(table)'
                /\ table'.info[i].type = table.info[i].type
                /\ table'.info[i].id = table.info[i].id]_vars
  BY AnswersStayStep
<1>2. QED
  BY <1>1, AddressingInvariance, PTL DEF Spec, AnswersStay

\* A packet that was never acknowledged leaves the table by a rejection only.
THEOREM TimeoutCorrectness == ASSUME Apart PROVE Spec => UnacknowledgedStays
<1>1. Inv /\ Addressing /\ [Next]_vars =>
        [\A i \in Packets(table) :
            /\ table.info[i].ready
            /\ table.info[i].time = Untimed
            /\ table'.info[i].id # table.info[i].id
            => \E rev \in 0 .. MaxRev : ReceiveReject(table.info[i].id, rev)]_vars
  BY UnacknowledgedStep
<1>2. QED
  BY <1>1, AddressingInvariance, PTL DEF Spec, UnacknowledgedStays
=============================================================================

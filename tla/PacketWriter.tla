---------------------------- MODULE PacketWriter ----------------------------
(***************************************************************************)
(* The sending side of ReliableUDP::PacketHandler: the calls an            *)
(* application makes to send a packet, and what updatePackets does to the  *)
(* write table: expiry, the acknowledgements and rejections drained from   *)
(* the socket, the answers the receiving side asks for, and the rotating   *)
(* send loop.  Peers may acknowledge or reject any own id at any time,     *)
(* again and again: acknowledgements are sent over UDP and never expire at *)
(* the peer.  A datagram dropped because the receiving side has handled    *)
(* its id looks here like one that never came.                             *)
(*                                                                         *)
(* The application prepares one packet at a time, but may call             *)
(* updatePackets in between; its callback runs inside the drain loop.      *)
(***************************************************************************)
EXTENDS WriteTable, FiniteSets

CONSTANTS SendCount,     \* m_SendCount, datagrams per update
          AnswerTypes,   \* what the receiving side answers with; all of
                         \* Answers but where a run needs fewer states
          Askers         \* [PeerIds -> the endpoints packets of that id came from]

ASSUME SendCountAssumption == SendCount \in Nat
ASSUME AnswerTypesAssumption == AnswerTypes \subseteq Answers
ASSUME AskersAssumption == Askers \in [PeerIds -> SUBSET Peers]

VARIABLES
    bound,        \* m_Socket.isBound()
    pc,           \* where in updatePackets: "idle", "expire", "drain", "send";
                  \* "crashed" after undefined behaviour ended the program
    cursor,       \* i of the expiry loop
    table,        \* the write table
    sendPacket,   \* m_SendPacket
    lastPacket,   \* lastPacket of the send loop
    elapsed,      \* more than m_SendoutTimer since m_LastSendout
    canSendOld,   \* canSendOldPackets
    sent,         \* the datagrams the last step put on the wire
    app           \* [Outgoing -> what the application has done with the packet:
                  \* how far it got, under what id, to what endpoint]

handlerVars == <<bound, pc, cursor, sendPacket, lastPacket, elapsed, canSendOld>>
vars == <<handlerVars, table, sent, app>>

AppStates == {"new", "allocated", "filled", "addressed", "ready", "abandoned"}
AppRecords == [state : AppStates, id : OwnIds \union {NoId},
               to : Peers \union {NoEndpoint}]

Preparing(p) == app[p].state \in {"allocated", "filled", "addressed"}

\* What the receiving side answers, to the endpoint it heard from: an
\* acknowledged section, a rejected packet, the reply to a MaxSize request.
AnswerRequests ==
    { answer \in [type : AnswerTypes, id : PeerIds, index : 0 .. MaxIndex,
                  rev : 0 .. MaxRev, to : Peers] :
        /\ answer.to \in Askers[answer.id]
        /\ answer.type \in {"Reject", "MaxSize"} => answer.index = 0
        /\ answer.type = "MaxSize" => answer.rev = 0 }

Init ==
    /\ bound = FALSE
    /\ pc = "idle"
    /\ cursor = 0
    /\ table = EmptyTable
    /\ sendPacket = 0
    /\ lastPacket = 0
    /\ elapsed = FALSE
    /\ canSendOld = FALSE
    /\ sent = {}
    /\ app = [p \in Outgoing |-> [state |-> "new", id |-> NoId, to |-> NoEndpoint]]

-----------------------------------------------------------------------------
(***************************************************************************)
(* The application, between updates or in the callback.                    *)
(***************************************************************************)
AppTurn == pc \in {"idle", "drain"}

Progress(p, state) == app' = [app EXCEPT ![p].state = state]

\* newPacketID draws any id no slot has.  Without a free slot or enough buffer
\* the call returns nullptr and nothing changes.
Allocate(p) ==
    /\ AppTurn
    /\ app[p].state = "new"
    /\ \A q \in Outgoing : ~Preparing(q)
    /\ CanAllocate(table, OutSize[p])
    /\ \E id \in OwnIds, i \in Slots :
          /\ ~HasUsedPacketID(table, id)
          /\ IsFirst(table, i, NoId)
          /\ table' = AllocateWritePacket(table, i, id, OutSize[p])
          /\ app' = [app EXCEPT ![p] = [state |-> "allocated", id |-> id,
                                         to |-> NoEndpoint]]
    /\ sent' = {}
    /\ UNCHANGED handlerVars

\* getWritePacket skips slots of size 0, then memcpy.
IsFirstSized(t, i, id) ==
    /\ t.info[i].id = id /\ t.info[i].size # 0
    /\ \A j \in Slots : j < i => t.info[j].id # id \/ t.info[j].size = 0

Fill(p) ==
    /\ AppTurn
    /\ app[p].state = "allocated"
    /\ IF \E i \in Slots : IsFirstSized(table, i, app[p].id)
       THEN \E i \in Slots : /\ IsFirstSized(table, i, app[p].id)
                             /\ table' = FillPacket(table, i, p)
       ELSE table' = table
    /\ Progress(p, "filled")
    /\ sent' = {}
    /\ UNCHANGED handlerVars

SetPacketEndpoint(p, to) ==
    /\ AppTurn
    /\ app[p].state = "filled"
    /\ table' = WithEndpoint(table, app[p].id, to)
    /\ app' = [app EXCEPT ![p].state = "addressed", ![p].to = to]
    /\ sent' = {}
    /\ UNCHANGED handlerVars

MarkWritePacketReady(p) ==
    /\ AppTurn
    /\ app[p].state = "addressed"
    /\ table' = WithReady(table, app[p].id)
    /\ Progress(p, "ready")
    /\ sent' = {}
    /\ UNCHANGED handlerVars

\* freeWritePacket(id).  Moving memory from outside the buffer, or deleting a
\* pointer nobody set, may end the program.
Free(id) ==
    \E i \in Slots :
        /\ IsFirst(table, i, id)
        /\ table' = FreeWritePacket(table, i)
        /\ pc' \in IF UndefinedFree(table, i) THEN {pc, "crashed"} ELSE {pc}

\* The application gives a packet up before it is ready.
Abandon(p) ==
    /\ AppTurn
    /\ Preparing(p)
    /\ IF HasUsedPacketID(table, app[p].id)
       THEN Free(app[p].id)
       ELSE UNCHANGED <<table, pc>>
    /\ Progress(p, "abandoned")
    /\ sent' = {}
    /\ UNCHANGED <<bound, cursor, sendPacket, lastPacket, elapsed, canSendOld>>

-----------------------------------------------------------------------------
(***************************************************************************)
(* updatePackets.                                                          *)
(***************************************************************************)
Bind ==
    /\ ~bound
    /\ pc = "idle"
    /\ bound' = TRUE
    /\ UNCHANGED <<pc, cursor, table, sendPacket, lastPacket, elapsed,
                   canSendOld, sent, app>>

\* The clock is read here; whether the sendout timer has run out is decided by
\* this reading.
Update ==
    /\ pc = "idle"
    /\ bound
    /\ pc' = "expire"
    /\ cursor' = 0
    /\ canSendOld' = elapsed
    /\ elapsed' = FALSE
    /\ sent' = {}
    /\ UNCHANGED <<bound, table, sendPacket, lastPacket, app>>

\* Variants: a packet that was never acknowledged counts as long overdue; the
\* last slot is not looked at.
ExpireNextUntimed ==
    /\ pc = "expire"
    /\ cursor < MaxWritePackets
    /\ cursor' = cursor + 1
    /\ LET slot == table.info[cursor]
       IN  IF slot.id # NoId /\ slot.ready /\ slot.time \in {Untimed, WriteTimeout}
           THEN Free(slot.id)
           ELSE UNCHANGED <<table, pc>>
    /\ UNCHANGED <<bound, sendPacket, lastPacket, elapsed, canSendOld, sent, app>>

ExpireNextButLast ==
    /\ pc = "expire"
    /\ cursor < MaxWritePackets
    /\ cursor' = cursor + 1
    /\ LET slot == table.info[cursor]
       IN  IF /\ slot.id # NoId /\ slot.ready /\ slot.time = WriteTimeout
              /\ cursor + 1 < MaxWritePackets
           THEN Free(slot.id)
           ELSE UNCHANGED <<table, pc>>
    /\ UNCHANGED <<bound, sendPacket, lastPacket, elapsed, canSendOld, sent, app>>

ExpireNext ==
    /\ pc = "expire"
    /\ cursor < MaxWritePackets
    /\ cursor' = cursor + 1
    /\ LET slot == table.info[cursor]
       IN  IF slot.id # NoId /\ slot.ready /\ slot.time = WriteTimeout
           THEN Free(slot.id)
           ELSE UNCHANGED <<table, pc>>
    /\ UNCHANGED <<bound, sendPacket, lastPacket, elapsed, canSendOld, sent, app>>

ExpireDone ==
    /\ pc = "expire"
    /\ cursor = MaxWritePackets
    /\ pc' = "drain"
    /\ cursor' = 0
    /\ UNCHANGED <<bound, table, sendPacket, lastPacket, elapsed, canSendOld,
                   sent, app>>

\* acknowledgePacket, rejectPacket or sendMaxSizePacket, called by the receiving
\* side: a slot is taken if there is one, else the datagram is sent at once, or
\* closes the socket.
Answer(answer) ==
    /\ pc = "drain"
    /\ bound
    /\ IF AvailableWritePackets(table) # {}
       THEN /\ \E i \in Slots :
                 /\ IsFirst(table, i, NoId)
                 /\ table' = SetSlot(table, i, AnswerSlot(table.info[i], answer))
            /\ sent' = {}
            /\ bound' = bound
       ELSE /\ table' = table
            /\ \/ sent' = {AnswerDatagram(answer)} /\ bound' = bound
               \/ sent' = {} /\ bound' = FALSE
    /\ UNCHANGED <<pc, cursor, sendPacket, lastPacket, elapsed, canSendOld, app>>

\* An acknowledgement restarts the timeout of the first slot with its id, when
\* the revision fits.  For a packet too large for the word the code writes
\* through m_BitsDynamic, which was never allocated.
ReceiveAcknowledge(id, index, rev) ==
    /\ pc = "drain"
    /\ bound
    /\ \E i \in Slots :
          /\ IsFirst(table, i, id)
          /\ table.info[i].rev = rev
          /\ UsesWord(table.info[i].size)
                \/ index < GetRequiredSections(table.info[i].size)
          /\ table' = SetSlot(table, i, [table.info[i] EXCEPT !.time = 0])
          /\ pc' \in IF UsesWord(table.info[i].size) THEN {pc} ELSE {pc, "crashed"}
    /\ sent' = {}
    /\ UNCHANGED <<bound, cursor, sendPacket, lastPacket, elapsed, canSendOld, app>>

\* A rejection frees the first slot with its id, when the revision fits.
ReceiveReject(id, rev) ==
    /\ pc = "drain"
    /\ bound
    /\ \E i \in Slots : IsFirst(table, i, id) /\ table.info[i].rev = rev
    /\ Free(id)
    /\ sent' = {}
    /\ UNCHANGED <<bound, cursor, sendPacket, lastPacket, elapsed, canSendOld, app>>

\* Variant: every update starts over at slot 0.
DrainDoneRestarting ==
    /\ pc = "drain"
    /\ pc' = "send"
    /\ bound' \in {bound, FALSE}
    /\ sendPacket' = 0
    /\ lastPacket' = MaxWritePackets - 1
    /\ sent' = {}
    /\ UNCHANGED <<cursor, table, elapsed, canSendOld, app>>

\* readFrom returns 0: the socket is empty, or has failed and closed itself.
\* The send loop will stop one slot short of a full turn.
DrainDone ==
    /\ pc = "drain"
    /\ pc' = "send"
    /\ bound' \in {bound, FALSE}
    /\ lastPacket' = IF sendPacket = 0 THEN MaxWritePackets - 1 ELSE sendPacket - 1
    /\ sent' = {}
    /\ UNCHANGED <<cursor, table, sendPacket, elapsed, canSendOld, app>>

\* m_ToSend is reset to m_SendCount but never counted down, so that a visit
\* sends all sections of a packet and every slot is visited.
Sending == sendPacket # lastPacket /\ SendCount # 0

\* Variant: an answer that has been sent gives its slot back.
SendNextReleasing ==
    /\ pc = "send"
    /\ Sending
    /\ sent' = IF bound /\ table.info[sendPacket].ready
               THEN DatagramsOf(table, sendPacket)
               ELSE {}
    /\ table' = IF bound /\ table.info[sendPacket].type \in Answers
                THEN SetSlot(table, sendPacket, FreeSlot)
                ELSE table
    /\ sendPacket' = (sendPacket + 1) % MaxWritePackets
    /\ UNCHANGED <<bound, pc, cursor, lastPacket, elapsed, canSendOld, app>>

\* Whether the visit of the send loop puts the slot on the wire.  writeTo does
\* nothing on a closed socket.
Due(slot) ==
    /\ bound
    /\ slot.ready
    /\ slot.time = Untimed \/ canSendOld

\* One turn of the send loop.  A write that fails may close the socket.
SendNext ==
    /\ pc = "send"
    /\ Sending
    /\ \/ /\ sent' = IF Due(table.info[sendPacket])
                     THEN DatagramsOf(table, sendPacket)
                     ELSE {}
          /\ bound' = bound
       \/ /\ Due(table.info[sendPacket])
          /\ sent' \in CutShort(table, sendPacket)
          /\ bound' = FALSE
    /\ sendPacket' = (sendPacket + 1) % MaxWritePackets
    /\ UNCHANGED <<pc, cursor, table, lastPacket, elapsed, canSendOld, app>>

SendDone ==
    /\ pc = "send"
    /\ ~Sending
    /\ pc' = "idle"
    /\ sent' = {}
    /\ UNCHANGED <<bound, cursor, table, sendPacket, lastPacket, elapsed,
                   canSendOld, app>>

\* Time passes, except while the reading of the clock is being used up.
Tick ==
    /\ pc \in {"idle", "drain", "send"}
    /\ table' = AgeTable(table)
    /\ elapsed' \in {elapsed, TRUE}
    /\ sent' = {}
    /\ UNCHANGED <<bound, pc, cursor, sendPacket, lastPacket, canSendOld, app>>

Next ==
    \/ \E p \in Outgoing : \/ Allocate(p)
                           \/ Fill(p)
                           \/ \E to \in Peers : SetPacketEndpoint(p, to)
                           \/ MarkWritePacketReady(p)
                           \/ Abandon(p)
    \/ Bind
    \/ Update
    \/ ExpireNext
    \/ ExpireDone
    \/ \E answer \in AnswerRequests : Answer(answer)
    \/ \E id \in OwnIds, index \in 0 .. MaxIndex, rev \in 0 .. MaxRev :
          ReceiveAcknowledge(id, index, rev)
    \/ \E id \in OwnIds, rev \in 0 .. MaxRev : ReceiveReject(id, rev)
    \/ DrainDone
    \/ SendNext
    \/ SendDone
    \/ Tick

Spec == Init /\ [][Next]_vars

(***************************************************************************)
(* The application keeps calling updatePackets while the socket is bound,  *)
(* each call ends (the socket runs empty now and then), the clock does not *)
(* stop.                                                                   *)
(***************************************************************************)
Fairness ==
    /\ WF_vars(Update)
    /\ WF_vars(ExpireNext)
    /\ WF_vars(ExpireDone)
    /\ WF_vars(DrainDone)
    /\ WF_vars(SendNext)
    /\ WF_vars(SendDone)
    /\ SF_vars(Tick)

FairSpec == Spec /\ Fairness

-----------------------------------------------------------------------------
(***************************************************************************)
(* Properties.                                                             *)
(***************************************************************************)

\* What the variables hold.
TypeOK ==
    /\ bound \in BOOLEAN
    /\ pc \in {"idle", "expire", "drain", "send", "crashed"}
    /\ cursor \in 0 .. MaxWritePackets
    /\ table \in Tables
    /\ sendPacket \in Slots
    /\ lastPacket \in Slots
    /\ elapsed \in BOOLEAN
    /\ canSendOld \in BOOLEAN
    /\ \A d \in sent : d.type \in {"Normal"} \union Answers /\ d.id \in Ids
    /\ app \in [Outgoing -> AppRecords]

\* However packets are allocated, freed by rejections, timeouts or the
\* application, and moved, those in the write table occupy disjoint regions of
\* the used part of the buffer, and a slot that holds none points outside it.
TableLayout ==
    /\ Layout(table)
    /\ \A i \in Slots \ Packets(table) : /\ IsWildMove(table, i)
                                         /\ table.info[i].size = 0

\* A datagram carries, unit by unit, what the application wrote for one packet
\* it has marked ready, although the packet may have been moved between memcpy
\* and send, and its id may be that of an answer in the table.
Carries(d, p) ==
    /\ app[p].state = "ready" /\ app[p].id = d.id
    /\ d.size = OutSize[p]
    /\ \A c \in DOMAIN d.data :
          d.data[c] = <<p, SectionOffset(d.index) + c - 1>>

SentIntact ==
    \A d \in sent : d.type = "Normal" => \E p \in Outgoing : Carries(d, p)

\* As long as own and peers' ids differ, what was written for a packet goes to
\* the endpoint the application set for that packet, although setPacketEndpoint
\* finds it by its id, and answers come and go beside it; and an answer goes to
\* an endpoint packets of its id came from.
SentAddressed ==
    \A d \in sent : IF d.type = "Normal"
                    THEN \E p \in Outgoing : Carries(d, p) /\ d.to = app[p].to
                    ELSE d.to \in Askers[d.id]

\* Nothing makes freeWritePacket move memory from outside the buffer: answers
\* are in the table beside packets, but no timeout, acknowledgement or
\* rejection ever frees one as long as own and peers' ids differ.  Nor is an
\* unset bitmap pointer used, where the packets fit the word.
NoWildMove == pc # "crashed"

\* An answer is never taken out of its slot again.
AnswersStay ==
    [][\A i \in Live(table) :
          table.info[i].type \in Answers =>
              /\ i \in Live(table)'
              /\ table'.info[i].type = table.info[i].type
              /\ table'.info[i].id = table.info[i].id]_vars

\* A packet that is ready and has not been acknowledged leaves the table in one
\* way only, by a rejection of its id: it never times out.
UnacknowledgedStays ==
    [][\A i \in Packets(table) :
          /\ table.info[i].ready
          /\ table.info[i].time = Untimed
          /\ table'.info[i].id # table.info[i].id
          => \E rev \in 0 .. MaxRev : ReceiveReject(table.info[i].id, rev)]_vars

\* What is ready and not acknowledged is sent by some later update, again and
\* again, whatever slot the rotation starts at, until it leaves the table.
Pending(i, id) ==
    /\ table.info[i].id = id
    /\ table.info[i].ready
    /\ table.info[i].time = Untimed
    /\ table.info[i].type = "Normal" => table.info[i].size > 0

PendingIsSent ==
    \A i \in Slots, id \in Ids :
        Pending(i, id) ~> \/ \E d \in sent : d.id = id
                          \/ ~Pending(i, id)
                          \/ ~bound

\* A packet of which something has been acknowledged is given up when the
\* acknowledgements stop, whether all of it arrived or not.
Acknowledging ==
    \E id \in OwnIds, index \in 0 .. MaxIndex, rev \in 0 .. MaxRev :
        ReceiveAcknowledge(id, index, rev)

AcknowledgedReleased ==
    \/ []<><<Acknowledging>>_vars
    \/ \A i \in Slots, id \in OwnIds :
           (table.info[i].id = id /\ table.info[i].ready /\ table.info[i].time # Untimed)
              ~> (table.info[i].id # id \/ ~bound)
=============================================================================

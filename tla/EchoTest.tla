------------------------------ MODULE EchoTest ------------------------------
(***************************************************************************)
(* Tests/Src/Main.cpp: a client and a server in two threads of one program,*)
(* each a whole PacketHandler (the read table of PacketReader and the      *)
(* write table of PacketWriter, which its answers share with its own       *)
(* packets), over a network that loses, repeats and reorders datagrams.    *)
(* A socket may close itself, at the end of a drain or while it sends.     *)
(* The client sends the lines that are typed, the server's callback sends  *)
(* each packet back, the client's callback prints what comes back.         *)
(*                                                                         *)
(* A step is one turn of the client's loop up to updatePackets, the expiry *)
(* loops of one call, one datagram, or one send loop: within each of these *)
(* a handler meets nothing but itself.  A payload unit is <<line, k>>, unit *)
(* k of that line.                                                         *)
(***************************************************************************)
EXTENDS Integers, Sequences, FiniteSets

CONSTANTS LineSize,          \* the sizes of the lines of the input, in order
          PacketIds,         \* what rand() | 1 yields
          NoId, Junk, NoEndpoint,
          SectionSize, WordBits, ByteBits, ScratchSize, Capacity, WordModulus,
          RingSize,
          MaxPackets,        \* slots of each table (64)
          ReadTimeout, WriteTimeout,
          Failing,           \* the handlers whose sockets may close themselves
          Interrupts,        \* whether SIGINT may come
          Lossy              \* whether the network forgets what it was given

Lines == DOMAIN LineSize

ASSUME EchoTestAssumption ==
    /\ LineSize \in Seq(Nat)
    \* No section is past the end of another packet with its id, and the
    \* bitmap is the word.
    /\ \A k, l \in Lines :
          LineSize[k] > SectionSize /\ LineSize[l] > SectionSize
             => LineSize[k] = LineSize[l]
    /\ \A l \in Lines : LineSize[l] <= WordBits * SectionSize
    /\ Cardinality(PacketIds) >= MaxPackets    \* newPacketID always finds one
    /\ {Interrupts, Lossy} \subseteq BOOLEAN
    /\ Failing \subseteq {"client", "server"}

\* What the modules of the handlers assume of the same constants.
ASSUME HandlerAssumption ==
    /\ {SectionSize, WordBits, ByteBits, RingSize} \subseteq Nat \ {0}
    /\ {MaxPackets, ReadTimeout, WriteTimeout} \subseteq Nat \ {0}
    /\ {ScratchSize, Capacity, WordModulus} \subseteq Nat
    /\ ScratchSize + 2 * Capacity + 1 < WordModulus
    /\ NoId \notin PacketIds
    /\ NoEndpoint \notin {"client", "server"}
    /\ Junk \notin Lines \X Nat

Handlers == {"client", "server"}
Other(h) == IF h = "client" THEN "server" ELSE "client"

R == INSTANCE ReadTable WITH
    Packets <- PacketIds, IdOf <- [id \in PacketIds |-> id],
    SizeOf <- [id \in PacketIds |-> 1],
    MaxRev <- 0, MaxReadPackets <- MaxPackets
W == INSTANCE WriteTable WITH
    Outgoing <- Lines, OutSize <- LineSize,
    OwnIds <- PacketIds, PeerIds <- PacketIds, Peers <- Handlers,
    MaxIndex <- WordBits - 1, MaxRev <- 0, MaxWritePackets <- MaxPackets
Ring == INSTANCE RotatingArray

VARIABLES
    at,           \* where each thread is
    running,      \* the flag SIGINT clears
    serverUp,     \* the flag main waits for
    rtable,       \* the read table of each handler
    wtable,       \* its write table
    handled,      \* its m_HandledPacketIDs
    net,          \* datagrams that may arrive, now or again
    typed,        \* the ids the lines so far were sent under, NoId without room
    drawn,        \* history: ids each handler drew for packets ...
    reused,       \* ... and those it drew more than once
    delivered     \* history: what each callback was called with

threads == <<at, running, serverUp>>
tables  == <<rtable, wtable, handled>>
history == <<typed, drawn, reused, delivered>>
vars == <<threads, tables, net, history>>

Init ==
    /\ at = [client |-> "wait", server |-> "bind"]
    /\ running = TRUE
    /\ serverUp = FALSE
    /\ rtable = [h \in Handlers |-> R!EmptyTable]
    /\ wtable = [h \in Handlers |-> W!EmptyTable]
    \* server is a static object, its memory is zero; client is a local one.
    /\ \E ring \in Ring!NewRotatingArrays(PacketIds \union {NoId}) :
          handled = [client |-> ring,
                     server |-> [elems |-> [k \in Ring!Position |-> NoId], index |-> 0]]
    /\ net = {}
    /\ typed = << >>
    /\ drawn = [h \in Handlers |-> {}]
    /\ reused = [h \in Handlers |-> {}]
    /\ delivered = [h \in Handlers |-> << >>]

Go(h, place) == at' = [at EXCEPT ![h] = place]

-----------------------------------------------------------------------------
(***************************************************************************)
(* The two threads.                                                        *)
(***************************************************************************)

\* serverFunc: only a server that could bind raises the flag.
ServerBind ==
    /\ at.server = "bind"
    /\ \/ Go("server", "idle") /\ serverUp' = TRUE
       \/ Go("server", "done") /\ UNCHANGED serverUp
    /\ UNCHANGED <<running, tables, net, history>>

\* while (!serverUp); -- the flag is a plain bool, so that a compiler may read
\* it once: main then spins for ever.
MainWait ==
    /\ at.client = "wait"
    /\ Go("client", IF serverUp THEN "connect" ELSE "spin")
    /\ UNCHANGED <<running, serverUp, tables, net, history>>

\* Variant: the server is not told that the client gives up.
MainConnectQuiet ==
    /\ at.client = "connect"
    /\ Go("client", "idle") \/ Go("client", "join")
    /\ UNCHANGED <<running, serverUp, tables, net, history>>

\* A client that cannot connect tells the server to stop, and waits for it.
MainConnect ==
    /\ at.client = "connect"
    /\ \/ Go("client", "idle") /\ UNCHANGED running
       \/ Go("client", "join") /\ running' = FALSE
    /\ UNCHANGED <<serverUp, tables, net, history>>

Interrupt ==
    /\ Interrupts
    /\ running
    /\ running' = FALSE
    /\ UNCHANGED <<at, serverUp, tables, net, history>>

\* Where a thread goes from its loop.
Behind(h) == IF h = "client" THEN "join" ELSE "done"

LeaveLoop(h) ==
    /\ at[h] = "idle"
    /\ ~running
    /\ Go(h, Behind(h))
    /\ UNCHANGED <<running, serverUp, tables, net, history>>

\* serverThread.join()
MainJoin ==
    /\ at.client = "join"
    /\ at.server = "done"
    /\ Go("client", "done")
    /\ UNCHANGED <<running, serverUp, tables, net, history>>

\* Undefined behaviour that ends the process ends both threads.
Crash == at' = [h \in Handlers |-> "crashed"]

-----------------------------------------------------------------------------
(***************************************************************************)
(* Packets of the applications.                                            *)
(***************************************************************************)
First(table, slots, id) ==
    CHOOSE i \in slots : /\ table.info[i].id = id
                         /\ \A j \in slots : j < i => table.info[j].id # id

\* memcpy of data into the region of slot i.
Copied(w, i, data) ==
    [w EXCEPT !.mem = [a \in W!Address |->
        LET c == a - w.info[i].start + 1
        IN  IF c \in DOMAIN data THEN data[c] ELSE @[a]]]

\* allocateWritePacket, memcpy, setPacketEndpoint, markWritePacketReady with a
\* freshly drawn id.
Queued(w, id, data, to) ==
    LET i == First(w, W!Slots, NoId)
        allocated == W!AllocateWritePacket(w, i, id, Len(data))
    IN  W!WithReady(W!WithEndpoint(Copied(allocated, i, data), id, to), id)

Text(l) == [c \in 1 .. LineSize[l] |-> <<l, c - 1>>]

\* Ids newPacketID may return.
FreshIds(h) == { id \in PacketIds : ~W!HasUsedPacketID(wtable[h], id) }

Draw(h, id) ==
    /\ drawn' = [drawn EXCEPT ![h] = @ \union {id}]
    /\ reused' = [reused EXCEPT ![h] = @ \union ({id} \intersect drawn[h])]

\* IsCINReady() is constant on Windows, and elsewhere true of half a line:
\* getline may block, for as long as nobody types.
GetLine ==
    /\ at.client = "idle"
    /\ running
    /\ Go("client", "getline")
    /\ UNCHANGED <<running, serverUp, tables, net, history>>

\* main sends the line, also one that came after SIGINT.  It does not look at
\* what allocateWritePacket returned: without room it copies through a null
\* pointer.  An empty line (and each getline after the end of the input) copies
\* nothing.
TypeLine(l) ==
    /\ at.client = "getline"
    /\ l = Len(typed) + 1
    /\ IF W!CanAllocate(wtable.client, LineSize[l])
       THEN /\ \E id \in FreshIds("client") :
                 /\ wtable' = [wtable EXCEPT !.client = Queued(@, id, Text(l), "server")]
                 /\ typed' = Append(typed, id)
                 /\ Draw("client", id)
            /\ Go("client", "typed")
       ELSE /\ IF LineSize[l] > 0 THEN Crash ELSE Go("client", "typed")
            /\ typed' = Append(typed, NoId)
            /\ UNCHANGED <<wtable, drawn, reused>>
    /\ UNCHANGED <<running, serverUp, rtable, handled, net, delivered>>

-----------------------------------------------------------------------------
(***************************************************************************)
(* updatePackets of handler h.                                             *)
(***************************************************************************)

\* The tables before each turn of the expiry loops, and after the last.
RExpiring(r) ==
    LET f[n \in 0 .. MaxPackets] ==
            IF n = 0 THEN r
            ELSE LET t == f[n - 1]
                     s == t.info[n - 1]
                 IN  IF s.id # NoId /\ s.time = ReadTimeout
                     THEN R!FreeReadPacket(t, First(t, R!Slots, s.id))
                     ELSE t
    IN  f

WIsExpired(s) == s.id # NoId /\ s.ready /\ s.time = WriteTimeout

WExpiring(w) ==
    LET f[n \in 0 .. MaxPackets] ==
            IF n = 0 THEN w
            ELSE LET t == f[n - 1]
                     s == t.info[n - 1]
                 IN  IF WIsExpired(s)
                     THEN W!FreeWritePacket(t, First(t, W!Slots, s.id))
                     ELSE t
    IN  f

\* Whether one of the frees is of an answer.
ExpiresAnswer(w) ==
    \E n \in W!Slots :
        LET t == WExpiring(w)[n]
        IN  WIsExpired(t.info[n]) /\ W!IsWildMove(t, First(t, W!Slots, t.info[n].id))

\* The clock is read and both expiry loops run.
Update(h) ==
    /\ at[h] = "typed" \/ (at[h] = "idle" /\ running)
    /\ rtable' = [rtable EXCEPT ![h] = RExpiring(@)[MaxPackets]]
    /\ wtable' = [wtable EXCEPT ![h] = WExpiring(@)[MaxPackets]]
    /\ \/ Go(h, "drain")
       \/ (ExpiresAnswer(wtable[h]) /\ Crash)
    /\ UNCHANGED <<running, serverUp, handled, net, history>>

\* acknowledgePacket, rejectPacket: a slot, or without one a single datagram.
Answer(h, type, d) ==
    [type |-> type, id |-> d.id, index |-> IF type = "Reject" THEN 0 ELSE d.index,
     rev |-> d.rev, to |-> Other(h)]

\* Variant: every answer is sent at once.
HasSlotNever(h) == FALSE

HasSlot(h) == W!AvailableWritePackets(wtable[h]) # {}

Answered(h, answer) ==
    IF HasSlot(h)
    THEN LET i == First(wtable[h], W!Slots, NoId)
         IN  W!SetSlot(wtable[h], i, W!AnswerSlot(wtable[h].info[i], answer))
    ELSE wtable[h]

SendAtOnce(h, answer) ==
    net' = IF HasSlot(h) THEN net ELSE net \union {W!AnswerDatagram(answer)}

\* receivedSection with the payload of d.  What is copied past its end (the
\* slot may be of a larger packet with the same id) is an earlier datagram's.
Stored(r, i, d) ==
    LET first == r.info[i].start + R!SectionOffset(d.index)
    IN  [R!StoreSection(r, i, Junk, d.index, d.rev) EXCEPT
           !.mem = [a \in R!Address |->
                      IF a \in R!SectionRange(r.info[i], d.index)
                      THEN IF a - first < Len(d.data) THEN d.data[a - first + 1] ELSE Junk
                      ELSE r.mem[a]]]

\* Variant: ... is acknowledged.
RefuseAcknowledging(h, d) ==
    /\ ~R!HasPacket(rtable[h], d.id)
    /\ ~R!CanAllocate(rtable[h], d.size)
    /\ LET answer == Answer(h, "Acknowledge", d)
       IN  /\ wtable' = [wtable EXCEPT ![h] = Answered(h, answer)]
           /\ SendAtOnce(h, answer)
    /\ UNCHANGED <<rtable, handled, history>>

\* A section that finds no room is rejected ...
Refuse(h, d) ==
    /\ ~R!HasPacket(rtable[h], d.id)
    /\ ~R!CanAllocate(rtable[h], d.size)
    /\ LET answer == Answer(h, "Reject", d)
       IN  /\ wtable' = [wtable EXCEPT ![h] = Answered(h, answer)]
           /\ SendAtOnce(h, answer)
    /\ UNCHANGED <<rtable, handled, history>>

\* ... that is there already ...
Ignore(h, d) ==
    /\ R!HasPacket(rtable[h], d.id)
    /\ R!HasHandledSection(rtable[h], First(rtable[h], R!Slots, d.id), d.index, d.rev)
    /\ UNCHANGED <<tables, history, net>>

\* What the callback of h does to the write table w.  serverPacketHandler sends
\* the packet back, or gives up silently when there is no room for it.
Callback(h, w, data) ==
    IF h = "server" /\ W!CanAllocate(w, Len(data))
    THEN \E id \in { x \in PacketIds : ~W!HasUsedPacketID(w, x) } :
            /\ wtable' = [wtable EXCEPT ![h] = Queued(w, id, data, "client")]
            /\ Draw(h, id)
    ELSE /\ wtable' = [wtable EXCEPT ![h] = w]
         /\ UNCHANGED <<drawn, reused>>

\* ... or that is stored and acknowledged, and may complete its packet.
Accept(h, d) ==
    LET r   == rtable[h]
        new == ~R!HasPacket(r, d.id)
        i   == First(r, R!Slots, IF new THEN NoId ELSE d.id)
        s   == Stored(IF new THEN R!AllocateReadPacket(r, i, d.id, d.size, d.rev) ELSE r,
                      i, d)
        answer == Answer(h, "Acknowledge", d)
        w   == Answered(h, answer)
    IN  /\ new => R!CanAllocate(r, d.size)
        /\ ~new => ~R!HasHandledSection(r, i, d.index, d.rev)
        /\ SendAtOnce(h, answer)
        /\ IF R!ReadPacketDone(s, i)
           THEN /\ handled' = [handled EXCEPT ![h] = Ring!Insert(@, d.id)]
                /\ delivered' = [delivered EXCEPT ![h] = Append(@, R!Contents(s, i))]
                /\ Callback(h, w, R!Contents(s, i))
                /\ rtable' = [rtable EXCEPT ![h] = R!FreeReadPacket(s, i)]
           ELSE /\ rtable' = [rtable EXCEPT ![h] = s]
                /\ wtable' = [wtable EXCEPT ![h] = w]
                /\ UNCHANGED <<handled, drawn, reused, delivered>>
        /\ UNCHANGED typed

ReceiveNormal(h, d) ==
    /\ d.type = "Normal"
    /\ Refuse(h, d) \/ Ignore(h, d) \/ Accept(h, d)
    /\ UNCHANGED at

\* An acknowledgement restarts the timeout of the first slot with its id ...
ReceiveAcknowledge(h, d) ==
    /\ d.type = "Acknowledge"
    /\ IF W!HasUsedPacketID(wtable[h], d.id)
       THEN wtable' = [wtable EXCEPT ![h].info[First(wtable[h], W!Slots, d.id)].time = 0]
       ELSE UNCHANGED wtable
    /\ UNCHANGED <<at, rtable, handled, history, net>>

\* ... a rejection frees it, and may crash when that is an answer.
ReceiveReject(h, d) ==
    /\ d.type = "Reject"
    /\ IF W!HasUsedPacketID(wtable[h], d.id)
       THEN LET i == First(wtable[h], W!Slots, d.id)
            IN  /\ wtable' = [wtable EXCEPT ![h] = W!FreeWritePacket(@, i)]
                /\ UNCHANGED at \/ (W!IsWildMove(wtable[h], i) /\ Crash)
       ELSE UNCHANGED <<wtable, at>>
    /\ UNCHANGED <<rtable, handled, history, net>>

\* The id of a delivered packet: datagrams of every type are dropped.
DropHandled(h, d) ==
    /\ Ring!Contains(handled[h], d.id)
    /\ UNCHANGED <<at, tables, history, net>>

\* One turn of the drain loop.  All revisions are 0.
Receive(h, d) ==
    /\ at[h] = "drain"
    /\ d \in net
    /\ d.to = h
    /\ \/ DropHandled(h, d)
       \/ /\ ~Ring!Contains(handled[h], d.id)
          /\ ReceiveNormal(h, d) \/ ReceiveAcknowledge(h, d) \/ ReceiveReject(h, d)
    /\ UNCHANGED <<running, serverUp>>

\* Variant: the loop always starts at slot 0.
SendLoopRestarting(h, last) ==
    LET w       == wtable[h]
        ready   == { i \in W!Slots \ {MaxPackets - 1} : w.info[i].ready }
        pending == { i \in ready : w.info[i].time = W!Untimed }
    IN  /\ at[h] = "drain"
        /\ \E due \in {pending, ready} :
              net' = net \union UNION { W!DatagramsOf(w, i) : i \in due }
        /\ Go(h, "idle")
        /\ UNCHANGED <<running, serverUp, tables, history>>

\* readFrom returned 0 and the send loop visits every slot but one, the one
\* before m_SendPacket (which PacketWriter follows).  What has a time is sent
\* again when m_SendoutTimer has run out.
SendLoop(h, last) ==
    LET w       == wtable[h]
        ready   == { i \in W!Slots \ {last} : w.info[i].ready }
        pending == { i \in ready : w.info[i].time = W!Untimed }
    IN  /\ at[h] = "drain"
        /\ \E due \in {pending, ready} :
              net' = net \union UNION { W!DatagramsOf(w, i) : i \in due }
        /\ Go(h, "idle")
        /\ UNCHANGED <<running, serverUp, tables, history>>

\* readFrom closes the socket and nothing is sent, or writeTo does and nothing
\* is sent from then on; the loop ends, too.  A client leaves running as it is:
\* it joins a server nobody has stopped.
SocketFails(h) ==
    /\ h \in Failing
    /\ at[h] = "drain"
    /\ LET ready == { i \in W!Slots : wtable[h].info[i].ready }
       IN  \E sent \in SUBSET UNION { W!DatagramsOf(wtable[h], i) : i \in ready } :
              net' = net \union sent
    /\ Go(h, Behind(h))
    /\ UNCHANGED <<running, serverUp, tables, history>>

-----------------------------------------------------------------------------
(***************************************************************************)
(* The network and the clock.                                              *)
(***************************************************************************)

\* A datagram is lost when its addressee looks for it.  Only for the packets
\* of the client does that differ from never receiving it (see Fairness).
Lose(d) ==
    /\ Lossy
    /\ d.type = "Normal" /\ d.to = "server"
    /\ at[d.to] = "drain"
    /\ net' = net \ {d}
    /\ UNCHANGED <<threads, tables, history>>

\* Time passes; m_ReadTimeout and m_WriteTimeout (2 s) are counted in ticks.
Tick ==
    /\ at.client # "crashed"
    /\ rtable' = [h \in Handlers |-> R!AgeTable(rtable[h])]
    /\ wtable' = [h \in Handlers |-> W!AgeTable(wtable[h])]
    /\ UNCHANGED <<threads, handled, net, history>>

-----------------------------------------------------------------------------
Next ==
    \/ ServerBind
    \/ MainWait
    \/ MainConnect
    \/ Interrupt
    \/ MainJoin
    \/ \E h \in Handlers : \/ LeaveLoop(h)
                           \/ Update(h)
                           \/ \E last \in W!Slots : SendLoop(h, last)
                           \/ SocketFails(h)
    \/ GetLine
    \/ \E l \in Lines : TypeLine(l)
    \/ \E d \in net : Receive(d.to, d) \/ Lose(d)
    \/ Tick

Spec == Init /\ [][Next]_vars

\* A datagram with section k of line l, and the server reading it.
Carries(d, l, k) ==
    d.type = "Normal" /\ d.to = "server" /\ d.index = k /\ d.data[1] = <<l, k * SectionSize>>

ReceiveSection(l, k) == \E d \in net : Carries(d, l, k) /\ Receive("server", d)

\* SF_vars(ReceiveSection(l, k)), with ENABLED written out.
SectionArrives(l, k) ==
    []<>(at.server = "drain" /\ \E d \in net : Carries(d, l, k))
        => []<><<ReceiveSection(l, k)>>_vars

\* What a thread does between two drains, or before and after its loop.
MainGoesOn   == MainWait \/ MainConnect \/ LeaveLoop("client") \/ Update("client") \/ MainJoin
ServerGoesOn == ServerBind \/ LeaveLoop("server") \/ Update("server")

(***************************************************************************)
(* Both threads go on, a drain ends (the socket runs empty now and then),  *)
(* m_SendPacket moves on so that no slot of the client is always the one   *)
(* left out (so the client's drains end, too), and a section that is sent  *)
(* again and again is not lost every time.  Nothing is assumed of answers, *)
(* echoes, the clock, SIGINT, a failing socket or the input: the client    *)
(* may stay in getline for ever.                                           *)
(***************************************************************************)
Fairness ==
    /\ WF_vars(MainGoesOn)
    /\ WF_vars(ServerGoesOn)
    /\ WF_vars(\E last \in W!Slots : SendLoop("server", last))
    /\ \A i \in W!Slots :
          SF_vars(\E last \in W!Slots \ {i} : SendLoop("client", last))
    /\ \A l \in Lines : \A k \in 0 .. W!GetRequiredSections(LineSize[l]) - 1 :
          SectionArrives(l, k)

FairSpec == Spec /\ Fairness

-----------------------------------------------------------------------------
TypeOK ==
    /\ at.client \in {"wait", "spin", "connect", "idle", "getline", "typed", "drain",
                      "join", "done", "crashed"}
    /\ at.server \in {"bind", "idle", "drain", "done", "crashed"}
    /\ {running, serverUp} \subseteq BOOLEAN
    /\ \A h \in Handlers :
          /\ rtable[h].info \in [R!Slots -> R!SlotType]
          /\ rtable[h].used \in ScratchSize .. R!BufferSize
          /\ rtable[h].mem \in [R!Address -> W!Cell]
          /\ wtable[h] \in W!Tables
          /\ handled[h] \in Ring!RotatingArrays(PacketIds \union {NoId})
          /\ drawn[h] \subseteq PacketIds /\ reused[h] \subseteq drawn[h]
          /\ \A n \in DOMAIN delivered[h] : delivered[h][n] \in Seq(W!Cell)
    /\ typed \in Seq(PacketIds \union {NoId}) /\ Len(typed) <= Len(LineSize)
    /\ \A d \in net : d.id \in PacketIds /\ d.to \in Handlers

Stopped == at.client \in {"join", "done", "crashed"} \/ at.server = "done" \/ ~running

Calls(h) == { delivered[h][n] : n \in DOMAIN delivered[h] }

(***************************************************************************)
(* What the server's callback gets is a whole line that was sent, with no  *)
(* unit of another, and what the client prints is what the server was      *)
(* given, although sections travel in any order, tables are compacted under*)
(* them and both handlers draw ids from one small range.  A packet of      *)
(* several sections must not share its id with another of its sender:      *)
(* sections are told apart by id only.                                     *)
(***************************************************************************)
Unmixed(h, data) == Len(data) <= SectionSize \/ reused[Other(h)] = {}

SentLines == { l \in DOMAIN typed : typed[l] # NoId }

EchoFaithful ==
    /\ \A data \in Calls("server") :
          Unmixed("server", data) => \E l \in SentLines : data = Text(l)
    /\ \A data \in Calls("client") :
          Unmixed("client", data) => data \in Calls("server")

(***************************************************************************)
(* No line is served twice and none is printed twice, however often its    *)
(* datagrams are repeated: the ring of handled ids remembers as many ids as *)
(* there are lines.                                                        *)
(***************************************************************************)
CalledOnce ==
    \A h \in Handlers : Len(delivered[h]) = Cardinality(Calls(h))

(***************************************************************************)
(* The timeout of a packet of one section runs only once the other side's  *)
(* callback has had it, unless its id has been used before: an answer to   *)
(* the earlier packet is repeated for ever and counts for the later.       *)
(***************************************************************************)
AckMeansReached ==
    \A h \in Handlers : \A i \in W!Packets(wtable[h]) :
        LET slot == wtable[h].info[i]
        IN  /\ slot.time # W!Untimed
            /\ slot.size \in 1 .. SectionSize
            /\ slot.id \notin reused[h]
            => [c \in 1 .. slot.size |-> wtable[h].mem[slot.start + c - 1]]
                  \in Calls(Other(h))

(***************************************************************************)
(* While the two sides have drawn different ids, the slot of an            *)
(* acknowledgement is never given back, and each echo needs one more beside*)
(* those of the lines so far: with 64 slots a client sees at most 63 of its*)
(* lines, then the server falls silent for good.  (An id of both sides     *)
(* blurs this: what was meant for a packet may free an answer.)  Lines are *)
(* told apart by their first units; one that is printed again when the ring*)
(* of handled ids has forgotten it needs no new slot.                      *)
(***************************************************************************)
FirstUnits(h) == { data[1] : data \in Calls(h) }

EchoCapacity ==
    drawn.client \intersect drawn.server = {} => Cardinality(FirstUnits("client")) < MaxPackets

(***************************************************************************)
(* A line with a slot is served or rejected, however often it is lost and  *)
(* whatever else is under way, unless the program stops, the client waits  *)
(* for input for ever, or the id has been used before: the server then     *)
(* takes the line for the earlier one, and the client sends it for ever.   *)
(***************************************************************************)
Waiting(l) ==
    /\ l \in DOMAIN typed
    /\ \E i \in W!Packets(wtable.client) : wtable.client.info[i].id = typed[l]

StaysInGetline == <>[](at.client = "getline")

LineArrives ==
    \A l \in Lines :
        Waiting(l) /\ LineSize[l] > 0
            ~> \/ Text(l) \in Calls("server")
               \/ ~Waiting(l)
               \/ typed[l] \in reused.client
               \/ Stopped
               \/ StaysInGetline

(***************************************************************************)
(* Once main is past its first wait, an interrupt ends both threads, and   *)
(* so does a failure to connect, unless main waits for input for ever.  A  *)
(* client whose socket has closed ends with the interrupt only.            *)
(***************************************************************************)
Ended == \A h \in Handlers : at[h] \in {"done", "crashed"}

ProgramEnds ==
    at.client = "connect" \/ (~running /\ at.client \notin {"wait", "spin"})
        ~> (running /\ at.client = "idle") \/ Ended \/ StaysInGetline

(***************************************************************************)
(* The program implements EchoService: to whoever types, its two handlers, *)
(* their tables, ids and datagrams look like a server that is called with  *)
(* each line once and a client that is called with each of those once.     *)
(* As for CalledOnce, the ring remembers as many ids as there are lines.   *)
(***************************************************************************)
Service == INSTANCE EchoService WITH
    Input   <- [l \in Lines |-> Text(l)],
    sent    <- SentLines,
    served  <- delivered.server,
    printed <- delivered.client,
    reusing <- { h \in Handlers : reused[h] # {} }

ImplementsService == Service!Spec
=============================================================================

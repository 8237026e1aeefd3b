# ReliableUDP in TLA+

ModRGB is a small C++ project for RGB controllers. What it builds today is
`Libraries/ReliableUDP`: a packet layer over UDP sockets that cuts packets into
sections, acknowledges every section, resends until told, and puts packets together
again on the other side. This directory holds TLA+ modules of that library, TLC
configurations that check them on small instances, and TLAPS proofs of what holds
for every instance.

Run `tlc -config <Run>.cfg <MCModule>` for a run (`PROJECT.json` pairs them) and
`tlapm <Module>.tla` for the proofs.

## The system

| part | state | operations | made correct by |
|---|---|---|---|
| `PacketHandler`, receiving side (`PacketHandler.cpp`) | read slots (id, revision, start, size, bitmap, time), read buffer, used size, ring of handled ids | expire, drain datagrams, allocate, store a section, revise, deliver through the callback, free (compacts the buffer) | slots describe disjoint regions and their own data; whole packets, once, are delivered; what is acknowledged is held until it is delivered or given up; slots are given back |
| `PacketHandler`, sending side | write slots (type, id, index, revision, start, size, endpoint, ready, time), write buffer, send position, sendout timer | allocate, address, mark ready, free, take acknowledgements and rejections, queue answers, rotating send loop, expire | every datagram carries one packet's data to the right endpoint; what is pending is sent; only what was acknowledged times out |
| packet buffers | bytes behind a 4096-byte scratch area | append, close a gap by `memmove`, shift 32-bit starts | no start points into another packet |
| packet format | none | number of sections, section lengths, bitmaps and their padding | the bitmap is full exactly when everything has arrived |
| `RotatingArray` | 16 elements, an index | insert, scan | an id is remembered for 16 deliveries |
| `Socket` (`Networking/Socket.cpp`) | type, endpoints, timeouts, handle; in the system: open, mode, listening, peer | construct, move, destroy, bind, connect, listen, accept, read, write, configure, close | no handle leaks or is shared; the object says of the handle what the system knows |
| `Endpoint`, `Address` | eight segments seen as bytes, as an IPv4 value or as IPv6; a port | convert from and to `sockaddr`, resolve, print | an answer goes back to the node and port a datagram came from; a text denotes one address |
| echo test (`Tests/Src/Main.cpp`) | a client and a server, each a handler in a thread of its own, two flags | send what is typed, echo it, print what comes back, stop on SIGINT | lines arrive whole and once; both threads end |
| older library (`Library/`) | buffer, packets, server | an earlier protocol, not part of the build | not modelled (see below) |

How they interact: the application calls `updatePackets` in a loop. One call expires
slots of both tables, drains the socket with `readFrom` (a Normal datagram goes to the
read table and may call the application's callback; an acknowledgement or rejection
goes to the write table), and then sends from the write table with `writeTo`. The two
sides of one handler meet in the write table: the receiving side queues its answers
there, beside the application's own packets. Two handlers meet only in datagrams.
There is one thread per handler, no lock and nothing on disk. What is hard is the
network (datagrams lost, repeated, out of order, from senders that drew the same id),
the order of calls (application calls between updates and from inside the callback),
time (timeouts that race late answers), and limits (a used size that only grows, slots
that only fill, bitmaps that do not fill their bytes). `PROJECT.json` lists 40 such
hazards at the lines where they bite, with the properties that would notice.

## Modules

| module | models | depends on |
|---|---|---|
| `PacketFormat` | sections and bitmaps | |
| `PacketBuffer` | scratch area, compaction, 32-bit starts | |
| `RotatingArray` | `Utils/RotatingArray.h` | |
| `ReadTable` | read slots, buffer and used size as one value, each function of the code as an operator from tables to tables | `PacketFormat`, `PacketBuffer` |
| `PacketReader` | the receiving side of `updatePackets` as a state machine | `ReadTable`, `RotatingArray` |
| `PacketDelivery` | the abstract specification: what the receiving side promises | |
| `WriteTable` | write slots, buffer and used size as one value | `PacketFormat`, `PacketBuffer` |
| `PacketWriter` | the application's calls and the sending side of `updatePackets` | `WriteTable` |
| `Socket` | `Networking::Socket` and the system calls under it | |
| `EchoTest` | the echo program: the read and the write table of two handlers, the ring, both callbacks, both threads, and the network between them | `ReadTable`, `WriteTable`, `RotatingArray` |
| `EchoService` | the abstract specification: what the echo program promises to whoever types | |
| `Endpoint` | addresses, endpoints, their text, and the way from and to `sockaddr` | |
| `MCPacketReader`, `MCPacketWriter`, `MCSocket`, `MCEchoTest`, `MCEndpoint` | instances for TLC | |
| `ReadTableProofs`, `WriteTableProofs` | lemmas about the operators on tables | `ReadTable`, `WriteTable` |
| `PacketReaderProofs` | theorems about the receiving side: types, layout, data | `PacketReader`, `ReadTableProofs` |
| `PacketDeliveryProofs` | theorems about deliveries, and the refinement of `PacketDelivery` | `PacketReaderProofs` |
| `PacketWriterProofs` | theorems about the sending side | `PacketWriter`, `WriteTableProofs` |
| `SocketProofs`, `EndpointProofs` | theorems about sockets and endpoints | `Socket`, `Endpoint` |
| `EchoTestProofs` | theorems about the echo program, and the refinement of `EchoService` | `EchoTest`, `EchoService`, `WriteTableProofs` |

### State and actions against the code

*Cells.* A size counts payload units and a cell of the buffer holds where its contents
came from (`<<packet, revision, unit>>` or `<<packet, unit>>`) instead of a byte, so
that "the right data" can be said. `SectionSize` stands for 4084, `WordBits` for 32,
`ByteBits` for 8, `ScratchSize` for 4096, `WordModulus` for 2^32, `RingSize` for 16.

*updatePackets is not atomic.* Both state machines have a program counter. One step is
one slot of the expiry loop, one datagram of the drain loop, one slot of the send loop;
the clock is read once, at the call, so `Tick` is not enabled during expiry. Steps of
the application happen between calls and (sending side) inside the drain loop, where
the callback runs. The drain may end with a closed socket, as `readFrom` may close it.

*Datagrams.* `PacketReader` may receive any section of any packet in any revision at any
time and any number of times; that includes loss, duplication and reordering without a
network variable. The index of a packet of more than 32 sections may also be one it does
not have (`Strays`; the first of them stands for all): the code acknowledges it, marks
nothing, and gives the slot it may have opened no time. `PacketWriter` may receive any acknowledgement or rejection of an own
id likewise, and be asked for any answer. Both are weaker than a real peer, so safety
carries over to every composition.

*Undefined behaviour is a choice.* `m_HandledPacketIDs` starts with whatever its memory
held (`NewRotatingArrays`). Freeing an answer slot computes addresses outside the
buffer; an acknowledgement of a packet of more than 32 sections writes through a pointer
nobody allocated, and freeing such a packet deletes it (`UndefinedFree`). Each time the
step either goes on or ends in `pc = "crashed"`.

*Socket.* Each public function is one action; a system call in `Refusals` may fail
wherever it is called, so that every early return and every `reportError` is taken. So
is the silent one of `bind` and `connect` on Windows when `WSAStartup` failed before
`main`: `started` says whether it succeeded, and `Startups` which of the two a run
looks at (other systems have `{TRUE}`). A
read or write ends with data, with 0, with an error that closes the socket, with
"would block" or with another error. `result` is what the call returned and whether
the error callback was reached. `m_LocalEndpoint` (only ever told to the program) and
the directions shut down (any ending is possible anyway) are left out.

*The echo program.* `EchoTest` puts the two sides together: each handler has the read
table of `PacketReader` and the write table of `PacketWriter`, in which its answers and
its own packets now compete for the same slots, and what one handler sends is what the
other may receive. The network `net` is the set of datagrams sent so far; each of them
may arrive, never, once or again, in any order. Within one thread nothing but the
handler itself touches its tables, so a step is larger than in the two parts: the
expiry loops of one call, one datagram, one send loop. Of the send loop it keeps that
one slot is left out, any slot, and that packets with a time are resent when a timer
says so, at any time; `PacketWriter` has the rotation. Both loops end when `running` is
false or the socket has closed itself, at the end of a drain or while it sends
(`SocketFails`, for the handlers in `Failing`); a client that leaves the second way does
not clear `running`, and joins a server nobody has stopped. `IsCINReady` is constant on
Windows and elsewhere true of half a line, so the client is in `getline` from `GetLine`
until `TypeLine`, updates nothing meanwhile, and sends what it read even after a SIGINT.
A payload unit is
`<<line, k>>`, so that a line can be told from another wherever it is. A line without a
slot crashes the client (a `memcpy` through the null pointer nobody looked at), and the
crash is a state of both threads. `running` and `serverUp` are plain `bool`s: `MainWait`
may read `serverUp` once, as a compiler that hoists the load would.

*Endpoints.* A segment has `ByteBase * ByteBase` values, and of these `Segments` occur.
The unions are read as the little-endian machine reads them. A `sockaddr` is its family
and its bytes in network order. One endpoint object is followed from a constructor, a
datagram's sender or a resolved name to the call that uses it as a destination.

*Variants.* Definitions commented as variants are bugs the code does not have: a start
that is not shifted, a slot that is kept, an index off by one. No specification uses
them. `PROJECT.json` ("mutants") names, for each property of each passing run, a variant
that TLC finds to violate it: the property can fail, and says something of that code.

## Runs

| run | instance | shows | distinct states |
|---|---|---|---|
| `ReaderCompaction` | 3 packets of 3, 1 and 4 sections, word of 2 bits, 3 slots, buffer of 20 | `TypeOK`, `TableLayout`, `DataIntact`: packets freed from under each other never lose or mix their data; `LifetimeCapacity`: what a handler delivers in its life fits its buffer once; `PaddingStrands`: a packet beyond the word is completable exactly when it fills its last byte | 437669 |
| `ReaderDelivery` | 4 packets, two with one id, ring of 2 | `OneHomePerId`, `DeliveredWhole`, `RedeliveryWindow`, and `ImplementsDelivery`: the handler implements `PacketDelivery` | 21848 |
| `ReaderRevisions` | 2 packets in 2 revisions (2 sections in a word of 3 bits, 4 sections that fill 2 bytes, and an index past them), fairness | `TableLayout`, `DataIntact` across revisions; `RevisionStrands`: a revised packet is completable exactly when its sections fill the bitmap, and nothing else is delivered, in the revising step either; `AcknowledgedKept`: a section that was acknowledged is held, and stays until its packet is delivered or given up; `EverySlotReleased`: so does every slot with a section | 137613 |
| `WriterSafety` | 2 packets, 2 own ids, 2 endpoints, all answers, 2 slots | `TableLayout`, `SentAddressed`: what was written for a packet goes where that packet was to go; `SentIntact`, `NoWildMove` | 2805192 |
| `WriterCollision` | an own id that is also a peer's, packets beyond the word | `SentIntact` survives (as `TableLayout` does, by a theorem); the program may crash, so deadlock is not checked there | 2238106 |
| `WriterLiveness` | 1 own id, 3 slots, fairness | `TypeOK`, `AnswersStay`, `UnacknowledgedStays`, `PendingIsSent`, `AcknowledgedReleased` | 31728 |
| `SocketSafety` | 2 objects, 2 handles, 2 endpoints, every system call may fail, `WSAStartup` too | `TypeOK`, `HandlesOwned`, `DescribesHandle`, `NonBlockingKept`, `ReachesAsked`, `FalseMeansRefused` | 73413 |
| `EchoSafety` | a line of 2 sections and one of 1, 4 ids, 2 slots, ring of 2, the server's socket may close | `TypeOK`, `EchoFaithful`: callbacks get whole lines; `CalledOnce`; `AckMeansReached`: a timeout only runs for what was served; `EchoCapacity`: a client sees fewer different lines than it has slots; `ImplementsService`: each line that goes out is served at most once, each of these printed at most once, and nothing else happens to whoever types | 455958 |
| `EchoLiveness` | 2 short lines, 2 ids, ring of 1, SIGINT, losses, the client's socket may close, fairness | `LineArrives`: every line with a slot is served or rejected; `ProgramEnds`: SIGINT or a failed connect ends both threads; both unless the client waits for input for ever | 147058 |
| `EndpointValues` | all addresses of 3 segments, 2 ports | `ReplyReachesSender`, `TextDenotesAddress` | 105084 |
| `SocketMode` | 1 object, nothing fails | violation: see Findings | |
| `SocketNarrow` | 1 object, narrow pointers | violation: see Findings | |

Some of these properties state what the code does although one might wish otherwise:
`LifetimeCapacity` (the used size never shrinks), `PaddingStrands` and `RevisionStrands`
(packets that can never be completed), `AnswersStay` (every acknowledgement keeps its
slot for ever), `UnacknowledgedStays` (no packet to a silent peer times out),
`AcknowledgedReleased` (a half-acknowledged packet is dropped), `EchoCapacity` (the
server keeps a slot for each acknowledgement, so that with 64 of them a client sees at
most 63 different lines, as long as the two sides have not drawn the same id: an
acknowledgement meant for a packet may otherwise give a time to an answer, and expiry
then frees it; an echo that comes once more when the ring of 16 has forgotten it is
printed again and needs no new slot of the server, so that calls are not bounded, only
lines). Others name an exception because the code has it: `AcknowledgedKept` and
`EverySlotReleased` promise nothing of an index its packet does not have, which is
acknowledged, held nowhere, and leaves a slot that never expires; `ProgramEnds` promises
nothing where the client's socket has closed and no SIGINT comes, as main then joins a
server nobody has stopped. No document promises
the contrary, so they are recorded as behaviour and not as findings; a change of the
code will show in them first.

*Bounds.* Three slots are the fewest in which one packet is freed with one before it and
one behind it; sizes of one, two and three sections with a short last section reach
every branch of the layout arithmetic; buffers are large enough for all packets once and
too small for all of them twice, so that rejections and refused revisions happen. The
largest packet of `ReaderCompaction` fills two bytes of bits and the other one beyond
the word leaves padding. In `ReaderRevisions` the revised packets are one in the word that
cannot be completed any more and one in bytes that can, and may be completed by the very
step that revises it. `WriterSafety` has two endpoints, so that a datagram to the wrong
one can be told, and one that peers ask from. In `EchoTest` two slots are enough for a table to fill with
answers while a packet waits, and two lines to share an id, to be compacted under each
other or to exhaust what a ring of one remembers. Four ids let both sides draw all of
theirs apart, which `EchoCapacity` is about, or share any; the acknowledgement and the
echo of a short line that is served first take both slots of the server, and the other
line is served when there is no room to send it back. `Endpoint` needs the segment 0,
the segment of ones that marks IPv4 and one more whose bytes differ, in eight places:
every run of zeros at every place occurs. A ring of 1 or 2 forgets within the run. A
timeout of 2 ticks tells young, nearly expired and expired. Two own ids and two packets
are what it takes to reuse an id that answers are still on the way for. On the sending
side two slots let a packet and an answer compete, three let the rotation start
anywhere. Two socket objects and handles suffice for sharing, since every property
relates at most two objects. Ages stop at the timeout, since the code only asks whether
it was reached. The modulus of starts is kept larger than the starts can shift
(`BufferAssumption`), which is what 2^32 is for the buffers the code is used with.
`EchoSafety` lets the server's socket close and `EchoLiveness` the client's (`Failing`);
the theorems hold for both. `delivered` is a history variable; it is bounded by `LifetimeCapacity` itself. Symmetry
is used for own ids (`WriterSafety`), for objects and endpoints (`SocketSafety`), and
for ids (`EchoSafety`): in runs of invariants, and in the last also of a refinement,
which speaks of single steps and in which no id occurs.

*Fairness.* The application calls `updatePackets` again and again while the socket is
bound (the loops in `Tests/Src/Main.cpp`), a loop over slots goes on, a drain ends (the
socket runs empty now and then: with a peer that never pauses it would not, see the
hazard at `PacketHandler.cpp:80`), and the clock does not stop. `Tick` has strong
fairness because expiry disables it for a while in each call. No datagram, no answer
and no call of the application other than `updatePackets` is assumed ever to come.
`EverySlotReleased` is about slots with a section in them: one opened by an index its
packet does not have is `Idle`, without a time, and stays.
In `EchoTest` both threads go on (`MainGoesOn`, `ServerGoesOn`: each does something of
what it does outside the drain), no slot of the client is for ever the one its send
loop leaves out (`m_SendPacket` moves on, which `PendingIsSent` shows in `PacketWriter`),
and a section that is sent again and again is not lost every time: `SectionArrives` is
the strong fairness of its arrival, with the enabling condition written out. Only the
client's own packets are removed from the network by `Lose`, when the server looks for
them; for all others never receiving them is the same, as nothing is assumed to bring
them. Answers, echoes, the clock, the input and SIGINT are not assumed to come. The
client may therefore stay in `getline` for ever, where it sends nothing and does not see
an interrupt; `StaysInGetline` is the case in which `LineArrives` and `ProgramEnds`
promise nothing. A client that updates between two lines, as it does while `select` has
nothing to read, is within them, and so is one that updates once per line, as on Windows,
for as long as lines are typed. `LineArrives` excludes lines sent under an id used before: the server takes such a line
for the earlier one, and the client sends it for ever.

## Findings

1. `SocketMode`. `Socket.h:67` and `:69` say "timeout == 0: Non blocking". For a bound
   socket that is not the whole story: a timeout of 0 makes the handle non-blocking and
   a later one of 2000 does not make it blocking again. The object then says it blocks
   and every read returns at once. On POSIX systems the option is moreover given four
   bytes where a `timeval` is expected, so that the call reports an error after having
   changed the mode.
2. `SocketNarrow`. `isBound` compares a `std::uintptr_t` with `~0ULL`. With 32-bit
   pointers they are never equal: each new socket claims to be bound and `bind` and
   `connect` return `false` without trying or reporting. The build names 32-bit targets.

## Proofs

TLAPS checks these for every value of the constants that satisfies the assumptions
named in the modules, and the hypotheses in the last column.

| theorem | the specification implies | hypotheses |
|---|---|---|
| `PacketReaderProofs!TypeCorrectness` | `[]TypeOK` | |
| `PacketReaderProofs!LayoutCorrectness` | `[]TableLayout` | |
| `PacketReaderProofs!DataCorrectness` | `[]DataIntact` | |
| `PacketReaderProofs!HomeCorrectness` | `[]OneHomePerId` | |
| `PacketDeliveryProofs!AcknowledgeCorrectness` | `AcknowledgedKept` | |
| `PacketDeliveryProofs!WindowCorrectness` | `[]RedeliveryWindow` | |
| `PacketDeliveryProofs!DeliveryCorrectness` | `[]DeliveredWhole` | |
| `PacketDeliveryProofs!StrandingCorrectness` | `[]StrandedForGood` | |
| `PacketDeliveryProofs!PaddingCorrectness` | `[]PaddingStrands` | `MaxRev = 0` |
| `PacketDeliveryProofs!RevisionCorrectness` | `RevisionStrands` | |
| `PacketDeliveryProofs!CapacityCorrectness` | `[]LifetimeCapacity` | |
| `PacketDeliveryProofs!DeliveryRefinement` | `ImplementsDelivery` | |
| `PacketWriterProofs!TypeCorrectness` | `[]TypeOK` | |
| `PacketWriterProofs!LayoutCorrectness` | `[]TableLayout` | |
| `PacketWriterProofs!ContentCorrectness` | `[]SentIntact` | |
| `PacketWriterProofs!AddressCorrectness` | `[]SentAddressed` | `Apart` |
| `PacketWriterProofs!MoveCorrectness` | `[]NoWildMove` | `Apart`, `FitsWord` |
| `PacketWriterProofs!AnswerCorrectness` | `AnswersStay` | `Apart` |
| `PacketWriterProofs!TimeoutCorrectness` | `UnacknowledgedStays` | `Apart` |
| `SocketProofs!TypeCorrectness` | `[]TypeOK` | |
| `SocketProofs!HandlesCorrectness` | `[]HandlesOwned` | `Wide` |
| `SocketProofs!DescriptionCorrectness` | `[]DescribesHandle` | `Wide` |
| `SocketProofs!ModeCorrectness` | `[]NonBlockingKept` | `Wide` |
| `SocketProofs!AddressCorrectness` | `[]ReachesAsked` | `Wide` |
| `SocketProofs!RefusalCorrectness` | `[]FalseMeansRefused` | `Wide` |
| `EndpointProofs!ReplyCorrectness` | `[]ReplyReachesSender` | |
| `EndpointProofs!TextCorrectness` | `[]TextDenotesAddress` | |
| `EchoTestProofs!TypeCorrectness` | `[]TypeOK` | |
| `EchoTestProofs!ContentCorrectness` | `[]EchoFaithful` | |
| `EchoTestProofs!ReachCorrectness` | `[]AckMeansReached` | |
| `EchoTestProofs!OnceCorrectness` | `[]CalledOnce` | `Enough` |
| `EchoTestProofs!CapacityCorrectness` | `[]EchoCapacity` | |
| `EchoTestProofs!ServiceRefinement` | `ImplementsService` | `Enough` |

The hypotheses are of theorems and not of modules, because the code does not see to
them and other runs are about what happens without them. `Apart`: no own id is a
peer's id, which `newPacketID` makes likely and does not ensure (`WriterCollision`).
`FitsWord`: no packet has more sections than the word of a bitmap has bits; the bitmap
of a larger one is never allocated (`WriterCollision` again). `MaxRev = 0`: peers revise
nothing; with revisions a packet can be stranded although its sections fill the last
byte, which is what `RevisionStrands` says (`ReaderRevisions`). `Wide`: a pointer is as
wide as `~0ULL` (`SocketNarrow` is about the builds where it is not). `Enough`: the input has
no more lines than the ring has elements, 16. The program does not bound its input; of
a longer one `RedeliveryWindow` says what is left, that a packet is not delivered again
before 16 others have been. The module assumptions are positive section and bitmap
sizes, positive packet sizes, ids that agree on a packet's size, and a modulus of starts
larger than the addresses. `EchoTest` assumes the same of both handlers
(`HandlerAssumption`), and of the input that no line needs more sections than the word
of a bitmap has bits and that lines longer than a section are of one length
(`EchoTestAssumption`): two packets of different lengths under one id would be sections
past each other's end, which is the header that contradicts itself of "Not modelled".

*Receiving side, tables.* The inductive invariant is `IInv == TypeOK /\ TableInv(table)
/\ OneHomePerId`, and `TableInv` is type, layout, one slot per id, and intact data. None
of these stands alone. That data stays intact needs the regions to be disjoint (or a
new section would overwrite another packet, and closing a gap would move cells that
belong to no one's offset); that regions stay disjoint when one is freed needs every
later start to be shifted by the same amount, which needs the types; that a lookup by
id finds the slot the step is about needs ids to be unique. `ReadTableProofs` proves
that each operator of `ReadTable` keeps `TableInv`, and that it keeps the other packets
(`KeepsPackets`) and adds one section to its own (`GainsSection`): the lemmas on
allocation, storing, revising, freeing and ageing, over lemmas on `CloseGap`,
`ShiftedStart` and section ranges. `PacketReaderProofs` proves one step per action from
them. `DataIntact` speaks of every cell of every marked section, so it covers the
arithmetic of section offsets for all sizes, which the runs see for a few.

*Receiving side, deliveries.* `PacketDeliveryProofs` first reduces every step to two
kinds (`StepCases`): a `Quiet` one, in which at most one packet is given up, and one in
which a section is `Stored` (in a slot just `Opened`, `Continued` or `Revised`) before
`Finish` acknowledges and perhaps delivers. Each property then has an invariant of its
own beside `IInv`. `AcknowledgedKept` is read off the two kinds of steps: a `Quiet` one
gives up what has timed out or is refused in a newer revision and keeps all else
(`KeepsPackets`), a `Stored` one keeps what it does not revise (`FinishKeeps`).
`Remembers` says that the ring holds the last `RingSize` delivered
ids at the positions `(n - 1) % RingSize`; that an insertion overwrites the oldest and
no other is the arithmetic of remainders for a size that is no numeral
(`DivisionUnique`), and gives `RedeliveryWindow`. `Bitmaps` says that a bitmap holds
nothing but section numbers and the padding it began with; a full bitmap then means
that every section was stored (`DoneMeansWhole`), which with `DataIntact` gives
`DeliveredWhole`, and a padding that begins behind the last byte written is never filled,
which gives the two statements on stranded packets; `RevisionStrands` adds what a revision
makes of a bitmap, for a packet that stays and for one delivered in the same step. `LifetimeAccount` counts: the sizes
delivered so far and the sizes of the packets in the table fit the used part together.
The sums are functions picked by their recursion, and `Sums` is shown to determine them;
no induction over the deliveries is needed, since a step adds one term.
*Refinement.* The mapping takes the ids in the table for those being received and the
ring elements not yet overwritten for those ignored. A `Quiet` step is a stutter or
`Abandon`; a `Stored` one that completes nothing is a stutter (a section more or a
revision) or `Begin`; one that completes a packet is `Deliver`, and `Bitmaps` is what
makes the message it delivers a whole one.

*Sending side.* `Inv == TypeOK /\ TableInv(table) /\ Ownership`. The table's part is more
than its layout: a free slot holds the start `~0U`, and every `freeWritePacket` shifts
it like the others. That it never comes to look like an address is a matter of totals:
what the packets in the table occupy, plus all that such a start has been shifted by,
never exceeds the used size, because nothing gives buffer back (`Fits`). `Ownership`
says which packet of the application is in a slot, although an id may be that of
several packets one after the other and of an answer at the same time: what makes it
inductive is that while a packet is being prepared no other packet in the table has its
id, as `newPacketID` looks before the application does. Both hold for colliding ids
too. `Addressing` needs `Apart`: an answer with an own id would be found by
`setPacketEndpoint` before the packet. From it follow the endpoints, that nothing but a
packet is ever freed, and so that no free computes with the size of an answer. `SentAddressed` joins them to
`Ownership`: the slot a datagram was made of is of one packet of the application, and
its endpoint is the one that was set for that packet.

*Sockets.* The inductive invariant says that every open handle is held by an object,
that no two objects hold one handle, that each object fits its handle (the type and
remote endpoint are those the system has), and that its mode is the handle's or a
refusal was reported. The uniqueness of holders is what makes the rest inductive:
without it, closing, connecting or changing the mode through one object would make
another object's description wrong. The lemma `Change` states it once, for a step that
touches one object and its handle, and each action is reduced to it. `ReachesAsked` and
`FalseMeansRefused` speak of the call that just returned and follow from the invariant
before that call; the second says that a silent refusal is of a socket that was open, or
of a process in which `WSAStartup` failed. `TypeOK` does not need `Wide`: an object that wrongly counts as bound
uses a value that is no handle, and no call of the system succeeds on it.

*Endpoints.* The invariant is small (an endpoint is made of the peer it was read from,
what was sent is made of the endpoint); the theorems are about values. Two digits in a
base that is no numeral are proved to be read back from their number (`Joined`,
`Digits`), which gives both byte orders: `Node(ToSockAddr(e))` is the groups of `e`
(`SentNode`) and the groups of `ToEndpoint(e, s)` are `Node(s)` (`ReceivedNode`), IPv4 and
IPv6. For the text, `Runs` is the loop invariant of `toString`: the run it has open and
the longest it has closed contain zeros only, and the closed one at least one. The loop
has eight turns, so its states are written out and no induction is needed.

*The echo program.* What a server was sent cannot be read from the state once the slot
of a packet is free, but its datagrams may still arrive. So the invariant
`Inv == Threads /\ Records /\ \E book : Explains(book)` says that books exist which
explain the state: the histories of the model and `said[h][x]`, the contents handler `h`
has sent under id `x`. By the books every packet in a write table has been said, every
datagram is a section of something said, every section a read table holds is of
something said under its id, every acknowledgement, queued, on its way or counted as
the time of a packet, is for contents the other callback has had (if they fit a section
and their id was drawn once), and every call is of something the other side said. None of these holds alone: the datagrams are what the
tables held when they were sent, the sections what the datagrams were, the calls what
the sections were, and the server's tables again what its callback had. A step enters
one thing in the books (`Entered`: nothing, a line, or a call and what is sent back), and
`NextStep` shows that the new books explain the new state; that old entries stay true
of everything else is `Grows`, once for all steps. An id drawn twice has two contents,
and a packet of several sections may then be put together of both: `Explains` says
nothing of the later units of such a packet, only of its first, which is enough for the
rest. `EchoFaithful` and `AckMeansReached` are read off the books. The lemmas of
`WriteTableProofs` are used as they stand; what is added to them is which slots survive
a free when answers and packets share ids (`Survives`). The read tables have weaker
layouts here than in `PacketReader`, where an id has one size, so `Shelf` and its lemmas
are their own. The expiry loops are functions defined by recursion; that they are the
turns of the loop, and that what each turn keeps all keep, needs induction over numbers,
done through well-foundedness for sets (`CountUp`), as the induction theorems of the
library take operators.

`CalledOnce` needs `OnceInv` beside the books. A packet is known by its head, the first
unit, which stays right even where ids are reused. The server never sends one head
under two ids, each id delivered is in the ring at the position of its delivery, and no
two deliveries have the same head. With these a datagram whose id is not in the ring
has a head that was not delivered. The heads are as many as the lines at most, which
with `Enough` keeps the ring from wrapping round. `EchoCapacity` needs no `OnceInv` and
no bound on the input. It adds `RoomInv`: while
the ids of the two sides are apart, no answer of the server has a time, so that none
expires, and there is an answer for each head sent back (its acknowledgement found a
slot, or the packet sent back would not have found one either), and one slot for the
last packet beside them; and `HeadsInv`: what the client is called with, for the first
time or again, begins with a head the server has sent back. The heads the client has
seen are then fewer than the slots, although the calls need not be.
*Refinement.* The mapping forgets everything but which lines have an id, what the two
callbacks had, and who has drawn an id twice. A line is `Send`, a delivery is `Serve` or
`Show` (`OnceInv` makes the call a new one, `EchoFaithful` says of what), and every
other step is a stutter.

*Model-checked only.* Liveness under fairness (`EverySlotReleased`, `PendingIsSent`,
`AcknowledgedReleased`, `LineArrives`, `ProgramEnds`), which the prover does not reach.
Every other property of a passing run is stated by a theorem.

## Not modelled

* headers that contradict each other (the same id with another size, sizes of 0, id 0),
  datagrams shorter than their header says, and an index past the last section of a
  packet of at most 32 sections (it sets a bit of the padding, or shifts past the word);
* the contents of the write bitmap (written, never read; its pointer is, see above), and
  what is overwritten when the bitmap of a revised packet is cleared past its end;
* pointers returned by `allocateWritePacket` and kept across `updatePackets`: nothing in
  the repository does that, the echo program copies at once;
* the error callback using the socket it is called for, error texts;
* the wire layout of headers (`PacketHeader.cpp`): magic number and type bits only
  filter and dispatch, and the 16-bit index of an acknowledgement only reaches the
  write bitmap;
* `ToHost`, `isValid`, equality of endpoints: values compared or printed;
* `Flags`, `Version`, `Core`: bit wrappers, packing and printing, without state;
* everything under `Library/`. The build leaves it out, and it does not compile:
  `StripPacket` declares the same constructor twice (`Packets.h:67`), `Packet.cpp` hands a
  lambda to `std::find`, `Server.cpp` applies `std::remove` and a predicate of the wrong
  type to a map, and `writeTo` is declared with `void*` and defined with `const void*`.
  What such a program does is not defined, so a model of it would have nothing to follow.

## Plan

1. Headers that contradict each other: the same id with another size while the packet is
   being received. The read table would then hold sections past the end of a slot, and
   the assumption of `EchoTest` on the lengths of lines could go.
2. The error callback that closes or moves its socket, as an action of `Socket` between
   `reportError` and the rest of the call.

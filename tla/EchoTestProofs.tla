---------------------------- MODULE EchoTestProofs ---------------------------
(***************************************************************************)
(* The safety properties of the echo program hold for every value of the   *)
(* constants.  Both handlers keep a write table as in PacketWriter, so that*)
(* the lemmas of WriteTableProofs are used as they stand.                  *)
(*                                                                         *)
(* The invariant speaks of what has been sent under each id.  The state    *)
(* only has parts of that (typed for the client, nothing for the server),  *)
(* so the invariant says that there are books that explain the state: the  *)
(* histories it has, and beside them said[h][x], the contents handler h has*)
(* sent under id x.  Every packet in a table, every datagram on its way and*)
(* every section received is of one of them.                               *)
(***************************************************************************)
EXTENDS EchoTest, FiniteSetTheorems, SequenceTheorems, WellFoundedInduction, TLAPS

WP == INSTANCE WriteTableProofs WITH
    Outgoing <- Lines, OutSize <- LineSize,
    OwnIds <- PacketIds, PeerIds <- PacketIds, Peers <- Handlers,
    MaxIndex <- WordBits - 1, MaxRev <- 0, MaxWritePackets <- MaxPackets

Data == Seq(W!Cell)

Sizes == { LineSize[l] : l \in Lines }

\* Section k of a packet with these contents.
Section(data, k) ==
    [c \in 1 .. W!SectionLength(k, Len(data)) |-> data[W!SectionOffset(k) + c]]

\* The contents of the packet in slot i of the write table w.
Held(w, i) == [c \in 1 .. w.info[i].size |-> w.mem[w.info[i].start + c - 1]]

(***************************************************************************)
(* The books: the histories of the model, the sets of contents each        *)
(* callback has had, and said.                                             *)
(***************************************************************************)
Books == [said   : [Handlers -> [PacketIds -> SUBSET Data]],
          drawn  : [Handlers -> SUBSET PacketIds],
          reused : [Handlers -> SUBSET PacketIds],
          typed  : Seq(PacketIds \union {NoId}),
          calls  : [Handlers -> SUBSET Data]]

\* What is in them is of the histories.
Matches(book) ==
    /\ book \in Books
    /\ book.drawn = drawn /\ book.reused = reused /\ book.typed = typed
    /\ book.calls = [h \in Handlers |-> Calls(h)]

\* Contents with an id that is not reused are all there is under that id, what
\* the client sends are lines, what the server sends it has been called with,
\* and what is called is sent by the other side (see Unmixed).
Consistent(book) ==
    /\ book \in Books
    /\ \A h \in Handlers : \A x \in PacketIds :
          /\ book.said[h][x] # {} => x \in book.drawn[h]
          /\ \A P, Q \in book.said[h][x] : P # Q => x \in book.reused[h]
          /\ \A P \in book.said[h][x] : Len(P) \in Sizes
    /\ \A x \in PacketIds : \A P \in book.said["client"][x] :
          \E l \in Lines : /\ l \in DOMAIN book.typed
                           /\ book.typed[l] = x /\ P = Text(l)
    /\ \A x \in PacketIds : book.said["server"][x] \subseteq book.calls["server"]
    /\ \A h \in Handlers : \A P \in book.calls[h] :
          /\ Len(P) \in Sizes \ {0}
          /\ Len(P) <= SectionSize \/ book.reused[Other(h)] = {} =>
                \E x \in PacketIds : P \in book.said[Other(h)][x]

(***************************************************************************)
(* What the tables and the datagrams hold, by the books.                   *)
(***************************************************************************)

\* What an acknowledgement of packet x of h tells h.
Acknowledged(book, h, x) ==
    /\ book.said[h][x] # {}
    /\ x \notin book.reused[h] =>
          \A P \in book.said[h][x] : Len(P) <= SectionSize => P \in book.calls[Other(h)]

WriteSlotInv(book, h, w, i) ==
    LET s == w.info[i]
    IN  /\ s.to = Other(h)
        /\ s.type = "Normal" =>
              /\ Held(w, i) \in book.said[h][s.id]
              /\ s.time # W!Untimed => Acknowledged(book, h, s.id)
        /\ s.type # "Normal" => book.said[Other(h)][s.id] # {}
        /\ s.type = "Acknowledge" => Acknowledged(book, Other(h), s.id)

WriteInv(book, h, w) ==
    /\ WP!TableInv(w)
    /\ \A i \in W!Live(w) : WriteSlotInv(book, h, w, i)

\* The layout of a read table.
Shelves == [info : [R!Slots -> R!SlotType],
            used : ScratchSize .. R!BufferSize,
            mem  : [R!Address -> W!Cell]]

Shelf(r) ==
    /\ r \in Shelves
    /\ \A i \in R!Live(r) :
          /\ ScratchSize <= r.info[i].start
          /\ r.info[i].start + r.info[i].size <= r.used
          /\ r.info[i].size \in Sizes \ {0}
          /\ R!InitialBits(r.info[i].size) \subseteq r.info[i].bits
          /\ r.info[i].bits \subseteq 0 .. WordBits - 1
    /\ R!RegionsDisjoint(r)

\* Unit c of a packet is in section k.
InSection(c, k) == k * SectionSize < c /\ c <= k * SectionSize + SectionSize

ReadSlotInv(book, h, r, i) ==
    LET s    == r.info[i]
        data == R!Contents(r, i)
        from == book.said[Other(h)][s.id]
    IN  /\ from # {}
        /\ 0 \in s.bits => \E P \in from : P # << >> /\ data[1] = P[1]
        /\ s.id \notin book.reused[Other(h)] =>
              \A P \in from :
                 /\ Len(P) = s.size
                 /\ \A k \in s.bits : \A c \in 1 .. s.size :
                       InSection(c, k) => data[c] = P[c]

ReadInv(book, h, r) ==
    /\ Shelf(r)
    /\ \A i \in R!Live(r) : ReadSlotInv(book, h, r, i)

\* A packet in the table between two datagrams has several sections.
Unfinished(r) == \A i \in R!Live(r) : SectionSize < r.info[i].size

DatagramInv(book, d) ==
    /\ d.to \in Handlers /\ d.id \in PacketIds
    /\ d.type = "Normal" =>
          /\ d.rev = 0 /\ d.index \in Nat
          /\ \E P \in book.said[Other(d.to)][d.id] :
                /\ d.size = Len(P)
                /\ d.index * SectionSize < Len(P)
                /\ d.data = Section(P, d.index)
    /\ d.type # "Normal" => book.said[d.to][d.id] # {}
    /\ d.type = "Acknowledge" => Acknowledged(book, d.to, d.id)

Threads ==
    /\ at \in [Handlers -> {"wait", "spin", "connect", "bind", "idle", "getline",
                            "typed", "drain", "join", "done", "crashed"}]
    /\ at["client"] # "bind"
    /\ at["server"] \notin {"wait", "spin", "connect", "getline", "typed", "join"}
    /\ running \in BOOLEAN /\ serverUp \in BOOLEAN

Records ==
    /\ Len(typed) <= Len(LineSize)
    /\ \A h \in Handlers : reused[h] \subseteq drawn[h]
    /\ delivered \in [Handlers -> Seq(Data)]
    /\ DOMAIN rtable = Handlers /\ DOMAIN wtable = Handlers
    /\ handled \in [Handlers -> Ring!RotatingArrays(PacketIds \union {NoId})]

Fits(book, h, w, r) == WriteInv(book, h, w) /\ ReadInv(book, h, r) /\ Unfinished(r)

Explains(book) ==
    /\ Matches(book)
    /\ Consistent(book)
    /\ \A d \in net : DatagramInv(book, d)
    /\ \A h \in Handlers : Fits(book, h, wtable[h], rtable[h])

-----------------------------------------------------------------------------
(***************************************************************************)
(* What the instantiated modules assume, and that both instances of        *)
(* WriteTable are the same.                                                *)
(***************************************************************************)
LEMMA ConstantTypes ==
    /\ SectionSize \in Nat \ {0} /\ WordBits \in Nat \ {0} /\ ByteBits \in Nat \ {0}
    /\ RingSize \in Nat \ {0} /\ MaxPackets \in Nat \ {0}
    /\ ReadTimeout \in Nat \ {0} /\ WriteTimeout \in Nat \ {0}
    /\ ScratchSize \in Nat /\ Capacity \in Nat /\ WordModulus \in Nat
    /\ NoId \notin PacketIds
    /\ NoEndpoint \notin Handlers
    /\ Junk \notin Lines \X Nat
    /\ LineSize \in [Lines -> Nat]
    /\ Lines = 1 .. Len(LineSize) /\ Len(LineSize) \in Nat
<1>1. LineSize \in [1 .. Len(LineSize) -> Nat] /\ Len(LineSize) \in Nat
  BY EchoTestAssumption
<1>2. QED
  BY <1>1, HandlerAssumption DEF Handlers, Lines

\* The assumptions of WriteTable, PacketFormat and PacketBuffer.
LEMMA WTable == WP!WriteTableAssumption
  BY ConstantTypes DEF WP!WriteTableAssumption, WP!Ids

LEMMA WFormat == WP!FormatAssumption
  BY ConstantTypes DEF WP!FormatAssumption

LEMMA WBuffer == WP!BufferAssumption
  BY ConstantTypes, HandlerAssumption DEF WP!BufferAssumption

LEMMA SameValues ==
    /\ W!Slots = WP!Slots
    /\ W!Address = WP!Address
    /\ W!BufferSize = WP!BufferSize
    /\ W!Cell = WP!Cell
    /\ W!Untimed = WP!Untimed
    /\ W!FreeSlot = WP!FreeSlot
    /\ W!EmptyTable = WP!EmptyTable
    /\ W!SlotType = WP!SlotType
    /\ W!Tables = WP!Tables
  BY DEF W!Slots, WP!Slots, W!Address, WP!Address, W!BufferSize, WP!BufferSize,
         W!Cell, WP!Cell, W!Untimed, WP!Untimed, W!FreeSlot, WP!FreeSlot,
         W!EmptyTable, WP!EmptyTable, W!SlotType, WP!SlotType, W!Tables, WP!Tables,
         W!NoStart, WP!NoStart, W!Answers, WP!Answers, W!Ids, WP!Ids,
         W!Word, WP!Word, W!Age, WP!Age

LEMMA SameTables ==
    ASSUME NEW t
    PROVE  /\ W!Live(t) = WP!Live(t)
           /\ W!Packets(t) = WP!Packets(t)
           /\ W!AgeTable(t) = WP!AgeTable(t)
           /\ W!AvailableWritePackets(t) = WP!AvailableWritePackets(t)
           /\ \A id : W!HasUsedPacketID(t, id) <=> WP!HasUsedPacketID(t, id)
           /\ \A size : W!CanAllocate(t, size) <=> WP!CanAllocate(t, size)
           /\ \A i : W!FreeWritePacket(t, i) = WP!FreeWritePacket(t, i)
           /\ \A i, s : W!SetSlot(t, i, s) = WP!SetSlot(t, i, s)
           /\ \A s, a : W!AnswerSlot(s, a) = WP!AnswerSlot(s, a)
           /\ \A id, to : W!WithEndpoint(t, id, to) = WP!WithEndpoint(t, id, to)
           /\ \A id : W!WithReady(t, id) = WP!WithReady(t, id)
           /\ \A i, id, size :
                 W!AllocateWritePacket(t, i, id, size)
                   = WP!AllocateWritePacket(t, i, id, size)
  BY SameValues
     DEF W!Live, WP!Live, W!Packets, WP!Packets, W!AgeTable, WP!AgeTable,
         W!AvailableWritePackets, WP!AvailableWritePackets,
         W!HasUsedPacketID, WP!HasUsedPacketID, W!CanAllocate, WP!CanAllocate,
         W!AvailableWritePacketSize, WP!AvailableWritePacketSize,
         W!FreeWritePacket, WP!FreeWritePacket, W!ShiftedSlot, WP!ShiftedSlot,
         W!ShiftedStart, WP!ShiftedStart, W!Subtract, WP!Subtract,
         W!CloseGap, WP!CloseGap, W!SetSlot, WP!SetSlot,
         W!AnswerSlot, WP!AnswerSlot, W!WithEndpoint, WP!WithEndpoint,
         W!WithReady, WP!WithReady, W!IsFirst, WP!IsFirst,
         W!AllocateWritePacket, WP!AllocateWritePacket

-----------------------------------------------------------------------------
(***************************************************************************)
(* Finite recursion.  A set that holds 0 and with each number the next one *)
(* holds all numbers up to a bound.                                        *)
(***************************************************************************)
LEMMA CountUp ==
    ASSUME NEW n \in Nat, NEW S, 0 \in S,
           \A k \in Nat : k < n /\ k \in S => k + 1 \in S
    PROVE  \A k \in 0 .. n : k \in S
<1> DEFINE T == (0 .. n) \ S
<1> SUFFICES ASSUME T # {} PROVE FALSE
  OBVIOUS
<1>1. T \subseteq Nat
  OBVIOUS
<1>2. PICK x \in T : \A y \in T : ~ (<<y, x>> \in OpToRel(<, Nat))
  <2> HIDE DEF T
  <2>1. QED
    BY <1>1, NatLessThanWellFounded, WFMin
<1>3. x # 0 /\ x \in Nat /\ x - 1 \in Nat /\ x <= n
  OBVIOUS
<1>4. ASSUME x - 1 \notin S PROVE FALSE
  <2>1. x - 1 \in T
    BY <1>3, <1>4
  <2>2. <<x - 1, x>> \in OpToRel(<, Nat)
    BY <1>3 DEF OpToRel
  <2>3. QED
    BY <2>1, <2>2, <1>2
<1>5. QED
  BY <1>3, <1>4

\* The first slot with an id, where there is one.
LEMMA FirstSlot ==
    ASSUME NEW table, NEW id, \E i \in W!Slots : table.info[i].id = id
    PROVE  LET i == First(table, W!Slots, id)
           IN  /\ i \in W!Slots
               /\ table.info[i].id = id
               /\ \A j \in W!Slots : j < i => table.info[j].id # id
<1> DEFINE T == { i \in W!Slots : table.info[i].id = id }
<1>1. T \subseteq Nat /\ T # {}
  BY ConstantTypes DEF W!Slots
<1>2. PICK x \in T : \A y \in T : ~ (<<y, x>> \in OpToRel(<, Nat))
  <2> HIDE DEF T
  <2>1. QED
    BY <1>1, NatLessThanWellFounded, WFMin
<1>3. \A y \in T : ~ (y < x)
  <2>1. \A y \in T : y < x => <<y, x>> \in OpToRel(<, Nat)
    BY <1>1 DEF OpToRel
  <2>2. QED
    BY <2>1, <1>2
<1>4. \A j \in W!Slots : j < x => table.info[j].id # id
  BY <1>3
<1>5. x \in W!Slots /\ table.info[x].id = id
  OBVIOUS
<1>6. QED
  BY <1>4, <1>5 DEF First

-----------------------------------------------------------------------------
(***************************************************************************)
(* The operations on a write table.                                        *)
(***************************************************************************)

\* Slot i of u is what slot i of w was, wherever its data lie.
SameSlot(w, u, i) ==
    /\ u.info[i].type = w.info[i].type
    /\ u.info[i].id = w.info[i].id
    /\ u.info[i].to = w.info[i].to
    /\ w.info[i].type = "Normal" => Held(u, i) = Held(w, i)

\* The types of a write slot, one by one.
LEMMA WriteSlotParts ==
    ASSUME NEW w, WP!TableInv(w), NEW i \in W!Slots
    PROVE  /\ w.info[i].start \in Nat /\ w.info[i].size \in Nat
           /\ w.info[i].type \in {"Normal", "Acknowledge", "Reject", "MaxSize"}
           /\ w.info[i].id \in PacketIds \union {NoId}
           /\ w.info[i].ready \in BOOLEAN
           /\ w.info[i].rev = 0
           /\ w.used \in Nat /\ w.used <= W!BufferSize /\ W!BufferSize \in Nat
           /\ w.mem \in [W!Address -> W!Cell]
           /\ w.info \in [W!Slots -> W!SlotType]
           /\ w \in W!Tables
           /\ i \in Nat
<1>1. w \in W!Tables
  BY SameValues DEF WP!TableInv
<1>2. w.info[i] \in W!SlotType /\ w.used \in ScratchSize .. W!BufferSize
  BY <1>1 DEF W!Tables
<1>3. W!BufferSize \in Nat /\ i \in Nat
  BY ConstantTypes DEF W!BufferSize, W!Slots
<1>4. /\ w.info[i].start \in Nat /\ w.info[i].rev = 0 /\ w.info[i].size \in Nat
      /\ w.info[i].ready \in BOOLEAN
  BY <1>2, ConstantTypes DEF W!SlotType, W!Word
<1>5. /\ w.info[i].type \in {"Normal", "Acknowledge", "Reject", "MaxSize"}
      /\ w.info[i].id \in PacketIds \union {NoId}
  BY <1>2 DEF W!SlotType, W!Ids, W!Answers
<1>6. w.used \in Nat /\ w.used <= W!BufferSize
  BY <1>2, <1>3, ConstantTypes
<1>7. QED
  BY <1>1, <1>3, <1>4, <1>5, <1>6 DEF W!Tables

\* A slot whose data only moved holds the same contents.
LEMMA SameDataHeld ==
    ASSUME NEW w, WP!TableInv(w), NEW u, WP!TableInv(u), NEW i \in W!Slots,
           WP!SameData(w, u, i), u.info[i].size = w.info[i].size
    PROVE  Held(u, i) = Held(w, i)
<1>1. /\ w.info[i].start \in Nat /\ w.info[i].size \in Nat
      /\ u.info[i].start \in Nat
  BY WriteSlotParts
<1>2. ASSUME NEW c \in 1 .. w.info[i].size
      PROVE  u.mem[u.info[i].start + c - 1] = w.mem[w.info[i].start + c - 1]
  <2>1. c - 1 \in Nat /\ c - 1 < w.info[i].size
    BY <1>1
  <2>2. u.mem[u.info[i].start + (c - 1)] = w.mem[w.info[i].start + (c - 1)]
    BY <2>1 DEF WP!SameData
  <2>3. /\ u.info[i].start + (c - 1) = u.info[i].start + c - 1
        /\ w.info[i].start + (c - 1) = w.info[i].start + c - 1
    BY <1>1
  <2>4. QED
    BY <2>2, <2>3
<1>3. QED
  BY <1>2 DEF Held

\* A packet is a slot in use that is of type Normal.
LEMMA PacketSlot ==
    ASSUME NEW w, NEW i
    PROVE  i \in W!Packets(w) <=> i \in W!Live(w) /\ w.info[i].type = "Normal"
  BY DEF W!Packets

\* freeWritePacket takes one slot out of the table.
LEMMA FreeWrite ==
    ASSUME NEW w, WP!TableInv(w), NEW i \in W!Live(w)
    PROVE  LET u == W!FreeWritePacket(w, i)
           IN  /\ WP!TableInv(u)
               /\ W!Live(u) = W!Live(w) \ {i}
               /\ \A j \in W!Live(u) : /\ SameSlot(w, u, j)
                                       /\ u.info[j].time = w.info[j].time
<1> DEFINE u == WP!FreeWritePacket(w, i)
<1>1. W!FreeWritePacket(w, i) = u /\ W!Live(w) = WP!Live(w) /\ W!Live(u) = WP!Live(u)
  BY SameTables
<1>2. /\ WP!TableInv(u)
      /\ \A j \in WP!Slots \ {i} : WP!SameSlot(w, u, j)
      /\ WP!Live(u) = WP!Live(w) \ {i}
      /\ WP!Packets(u) = WP!Packets(w) \ {i}
      /\ \A j \in WP!Packets(u) : WP!SameData(w, u, j)
  BY <1>1, WP!FreePreserves, WTable, WFormat, WBuffer
<1> HIDE DEF u
<1>3. ASSUME NEW j \in W!Live(u)
      PROVE  SameSlot(w, u, j) /\ u.info[j].time = w.info[j].time
  <2>1. j \in W!Slots /\ j \in WP!Slots \ {i} /\ j \in W!Live(w)
    BY <1>1, <1>2, SameValues DEF W!Live
  <2>2. WP!SameSlot(w, u, j)
    BY <2>1, <1>2
  <2>3. /\ u.info[j].type = w.info[j].type /\ u.info[j].id = w.info[j].id
        /\ u.info[j].size = w.info[j].size /\ u.info[j].to = w.info[j].to
        /\ u.info[j].time = w.info[j].time
    BY <2>2 DEF WP!SameSlot
  <2>4. ASSUME w.info[j].type = "Normal" PROVE Held(u, j) = Held(w, j)
    <3>1. j \in WP!Packets(u)
      BY <2>3, <2>4, <1>1, PacketSlot, SameTables
    <3>2. QED
      BY <3>1, <2>1, <2>3, <1>2, SameDataHeld
  <2>5. QED
    BY <2>3, <2>4 DEF SameSlot
<1>4. QED
  BY <1>1, <1>2, <1>3

\* Where the packets of a table lie.
LEMMA PacketPlaces ==
    ASSUME NEW w, WP!TableInv(w), NEW i \in W!Packets(w)
    PROVE  /\ i \in W!Slots
           /\ w.info[i].start + w.info[i].size <= W!BufferSize
           /\ \A j \in W!Packets(w) \ {i} :
                 \/ w.info[i].start + w.info[i].size <= w.info[j].start
                 \/ w.info[j].start + w.info[j].size <= w.info[i].start
<1>1. /\ i \in W!Slots /\ i \in WP!Packets(w)
      /\ W!Packets(w) = WP!Packets(w)
  BY SameTables DEF W!Packets, W!Live
<1>2. WP!Layout(w)
  BY DEF WP!TableInv
<1>3. w.info[i].start + w.info[i].size <= w.used
  BY <1>1, <1>2 DEF WP!Layout, WP!InBounds
<1>4. w.info[i].start + w.info[i].size <= W!BufferSize
  BY <1>1, <1>3, WriteSlotParts
<1>5. QED
  BY <1>1, <1>2, <1>4 DEF WP!Layout, WP!RegionsDisjoint

\* memcpy into the region of a packet changes that packet only.
LEMMA CopyData ==
    ASSUME NEW w, WP!TableInv(w), NEW i \in W!Packets(w), NEW data \in Data,
           Len(data) = w.info[i].size
    PROVE  LET u == Copied(w, i, data)
           IN  /\ WP!TableInv(u)
               /\ u.info = w.info
               /\ Held(u, i) = data
               /\ \A j \in W!Packets(w) \ {i} : Held(u, j) = Held(w, j)
<1> DEFINE u == Copied(w, i, data)
           first == w.info[i].start
<1>1. /\ i \in W!Slots /\ first \in Nat /\ w.info[i].size \in Nat
      /\ first + w.info[i].size <= W!BufferSize /\ W!BufferSize \in Nat
      /\ w \in W!Tables /\ w.mem \in [W!Address -> W!Cell]
  BY PacketPlaces, WriteSlotParts
<1>2. /\ DOMAIN data = 1 .. w.info[i].size
      /\ \A c \in 1 .. w.info[i].size : data[c] \in W!Cell
      /\ data = [c \in 1 .. w.info[i].size |-> data[c]]
  BY DEF Data
<1>3. /\ u.info = w.info /\ u.used = w.used
      /\ u.mem = [a \in W!Address |-> IF a - first + 1 \in DOMAIN data
                                      THEN data[a - first + 1] ELSE w.mem[a]]
      /\ u = [info |-> u.info, used |-> u.used, mem |-> u.mem]
      /\ first = w.info[i].start
  BY <1>1 DEF Copied, W!Tables
<1> HIDE DEF u, first
<1>a. \A a \in W!Address :
         u.mem[a] = IF a - first + 1 \in 1 .. w.info[i].size
                    THEN data[a - first + 1] ELSE w.mem[a]
  BY <1>2, <1>3
<1>4. u.mem \in [W!Address -> W!Cell]
  BY <1>1, <1>2, <1>3
<1>5. u \in W!Tables
  BY <1>1, <1>3, <1>4 DEF W!Tables
<1>6. WP!TableInv(u)
  <2>1. WP!Packets(u) = WP!Packets(w) /\ WP!ReadyIsLive(u)
    BY <1>3 DEF WP!Packets, WP!Live, WP!TableInv, WP!ReadyIsLive
  <2>2. QED
    BY <2>1, <1>3, <1>5, SameValues, WP!Undisturbed, WTable, WFormat, WBuffer
<1>7. Held(u, i) = data
  <2>1. ASSUME NEW c \in 1 .. w.info[i].size
        PROVE  u.mem[first + c - 1] = data[c]
    <3> DEFINE a == first + c - 1
    <3>1. a \in W!Address /\ a - first + 1 = c
      BY <1>1, <1>3 DEF W!Address
    <3> HIDE DEF a
    <3>2. u.mem[a] = data[c]
      BY <3>1, <1>a
    <3>3. QED
      BY <3>2 DEF a
  <2>2. Held(u, i) = [c \in 1 .. w.info[i].size |-> u.mem[first + c - 1]]
    BY <1>3 DEF Held
  <2>3. QED
    BY <2>1, <2>2, <1>2
<1>8. ASSUME NEW j \in W!Packets(w) \ {i}
      PROVE  Held(u, j) = Held(w, j)
  <2>1. /\ j \in W!Slots /\ w.info[j].start \in Nat /\ w.info[j].size \in Nat
        /\ w.info[j].start + w.info[j].size <= W!BufferSize
    BY PacketPlaces, WriteSlotParts
  <2>2. \/ first + w.info[i].size <= w.info[j].start
        \/ w.info[j].start + w.info[j].size <= first
    BY <1>3, PacketPlaces
  <2>3. ASSUME NEW c \in 1 .. w.info[j].size
        PROVE  u.mem[w.info[j].start + c - 1] = w.mem[w.info[j].start + c - 1]
    <3> DEFINE a == w.info[j].start + c - 1
    <3>1. a \in W!Address
      BY <1>1, <2>1 DEF W!Address
    <3>2. a - first + 1 \notin 1 .. w.info[i].size
      <4>1. first \in Nat /\ c \in Nat /\ 1 <= c /\ c <= w.info[j].size
        BY <1>1, <1>3, <2>1
      <4>2. w.info[i].size \in Nat /\ w.info[j].start \in Nat /\ w.info[j].size \in Nat
        BY <1>1, <2>1
      <4>3. /\ a - first + 1 = w.info[j].start + c - first
            /\ a - first + 1 \in Int
        BY <4>1, <4>2
      <4>4. CASE first + w.info[i].size <= w.info[j].start
        BY <4>1, <4>2, <4>3, <4>4
      <4>5. CASE w.info[j].start + w.info[j].size <= first
        BY <4>1, <4>2, <4>3, <4>5
      <4>6. QED
        BY <2>2, <4>4, <4>5
    <3> HIDE DEF a
    <3>3. u.mem[a] = w.mem[a]
      BY <3>1, <3>2, <1>a
    <3>4. QED
      BY <3>3 DEF a
  <2>4. QED
    BY <2>3, <1>3 DEF Held
<1>9. QED
  BY <1>3, <1>6, <1>7, <1>8 DEF u

\* hasUsedPacketID, availableWritePackets.
LEMMA WriteLookups ==
    ASSUME NEW w
    PROVE  /\ \A id \in PacketIds : W!HasUsedPacketID(w, id) <=>
                 \E i \in W!Live(w) : w.info[i].id = id
           /\ W!AvailableWritePackets(w) # {} =>
                 /\ First(w, W!Slots, NoId) \in W!Slots \ W!Live(w)
                 /\ w.info[First(w, W!Slots, NoId)].id = NoId
<1>1. \A id \in PacketIds : W!HasUsedPacketID(w, id) <=>
         \E i \in W!Live(w) : w.info[i].id = id
  BY ConstantTypes DEF W!HasUsedPacketID, W!Live
<1>2. ASSUME W!AvailableWritePackets(w) # {}
      PROVE  /\ First(w, W!Slots, NoId) \in W!Slots \ W!Live(w)
             /\ w.info[First(w, W!Slots, NoId)].id = NoId
  <2>1. \E i \in W!Slots : w.info[i].id = NoId
    BY <1>2 DEF W!AvailableWritePackets, W!Live
  <2>2. QED
    BY <2>1, FirstSlot DEF W!Live
<1>3. QED
  BY <1>1, <1>2

\* A packet of the application enters the table as it was written.
LEMMA QueuePacket ==
    ASSUME NEW w, WP!TableInv(w), NEW id \in PacketIds, ~W!HasUsedPacketID(w, id),
           NEW data \in Data, W!CanAllocate(w, Len(data)), NEW to \in Handlers
    PROVE  LET i == First(w, W!Slots, NoId)
               u == Queued(w, id, data, to)
           IN  /\ WP!TableInv(u)
               /\ i \in W!Slots \ W!Live(w)
               /\ W!Live(u) = W!Live(w) \union {i}
               /\ u.info[i].type = "Normal" /\ u.info[i].id = id
               /\ u.info[i].to = to /\ u.info[i].time = W!Untimed
               /\ Held(u, i) = data
               /\ \A j \in W!Live(w) : /\ SameSlot(w, u, j)
                                       /\ u.info[j].time = w.info[j].time
<1> DEFINE i == First(w, W!Slots, NoId)
           w1 == W!AllocateWritePacket(w, i, id, Len(data))
           w2 == Copied(w1, i, data)
           w3 == W!WithEndpoint(w2, id, to)
           u  == W!WithReady(w3, id)
<1>0. Queued(w, id, data, to) = u
  BY DEF Queued
<1>1. i \in W!Slots \ W!Live(w) /\ Len(data) \in Nat
  BY WriteLookups DEF W!CanAllocate, Data
<1>2. /\ WP!TableInv(w1)
      /\ w1.info[i].id = id /\ w1.info[i].size = Len(data)
      /\ \A j \in W!Slots \ {i} : w1.info[j] = w.info[j]
      /\ WP!Packets(w1) = WP!Packets(w) \union {i}
      /\ w1.mem = w.mem
  <2> HIDE DEF i
  <2>1. i \in WP!Slots \ WP!Live(w) /\ ~WP!HasUsedPacketID(w, id)
        /\ WP!CanAllocate(w, Len(data)) /\ W!Slots = WP!Slots
        /\ w1 = WP!AllocateWritePacket(w, i, id, Len(data))
    BY <1>1, SameTables, SameValues
  <2>2. QED
    BY <2>1, <1>1, WP!AllocatePreserves, WTable, WFormat, WBuffer
<1>3. /\ w1.info[i].type = "Normal" /\ w1.info[i].time = W!Untimed
  <2>1. w.info \in [W!Slots -> W!SlotType]
    BY <1>1, WriteSlotParts
  <2>2. QED
    BY <2>1, <1>1 DEF W!AllocateWritePacket, W!FreeSlot
<1>4. i \in W!Packets(w1)
  BY <1>1, <1>2, SameTables
<1> HIDE DEF w1, i
<1>5. /\ WP!TableInv(w2) /\ w2.info = w1.info /\ Held(w2, i) = data
      /\ \A j \in W!Packets(w1) \ {i} : Held(w2, j) = Held(w1, j)
  BY <1>2, <1>4, CopyData
<1>6. \A j \in W!Slots : WP!IsFirst(w2, j, id) <=> j = i
  <2>1. \A j \in W!Slots \ {i} : w2.info[j].id # id
    BY <1>2, <1>5 DEF W!HasUsedPacketID
  <2>2. w2.info[i].id = id
    BY <1>2, <1>5
  <2>3. WP!Slots = W!Slots /\ \A j \in W!Slots : j \in Nat
    BY SameValues, ConstantTypes DEF W!Slots
  <2>4. QED
    BY <2>1, <2>2, <2>3, <1>1 DEF WP!IsFirst
<1> HIDE DEF w2
<1>7. /\ WP!TableInv(w3) /\ WP!Packets(w3) = WP!Packets(w2) /\ w3.mem = w2.mem
      /\ \A j \in W!Slots : w3.info[j] = IF j = i THEN [w2.info[j] EXCEPT !.to = to]
                                                  ELSE w2.info[j]
  <2>1. w3 = WP!WithEndpoint(w2, id, to) /\ W!Slots = WP!Slots
    BY SameTables, SameValues
  <2> HIDE DEF w3
  <2>2. /\ WP!TableInv(w3) /\ WP!Packets(w3) = WP!Packets(w2) /\ w3.mem = w2.mem
        /\ \A j \in WP!Slots : w3.info[j] = IF WP!IsFirst(w2, j, id)
                                           THEN [w2.info[j] EXCEPT !.to = to]
                                           ELSE w2.info[j]
    BY <2>1, <1>5, WP!EndpointPreserves, WTable, WFormat, WBuffer
  <2>3. QED
    BY <2>1, <2>2, <1>6
<1> HIDE DEF w3
<1>8. \A j \in W!Slots : WP!IsFirst(w3, j, id) <=> j = i
  <2>1. \A j \in W!Slots : w2.info[j] \in W!SlotType
    BY <1>5, WriteSlotParts
  <2>2. \A j \in W!Slots : w3.info[j].id = w2.info[j].id
    BY <2>1, <1>7 DEF W!SlotType
  <2>3. QED
    BY <2>2, <1>6, <1>1, SameValues DEF WP!IsFirst
<1>9. /\ WP!TableInv(u) /\ WP!Packets(u) = WP!Packets(w3) /\ u.mem = w3.mem
      /\ \A j \in W!Slots : u.info[j] = IF j = i THEN [w3.info[j] EXCEPT !.ready = TRUE]
                                                 ELSE w3.info[j]
  <2>1. u = WP!WithReady(w3, id) /\ W!Slots = WP!Slots
    BY SameTables, SameValues
  <2> HIDE DEF u
  <2>2. /\ WP!TableInv(u) /\ WP!Packets(u) = WP!Packets(w3) /\ u.mem = w3.mem
        /\ \A j \in WP!Slots : u.info[j] = IF WP!IsFirst(w3, j, id)
                                          THEN [w3.info[j] EXCEPT !.ready = TRUE]
                                          ELSE w3.info[j]
    BY <2>1, <1>7, WP!ReadyPreserves, WTable, WFormat, WBuffer
  <2>3. QED
    BY <2>1, <2>2, <1>8
<1> HIDE DEF u
<1>10. /\ u.info[i].type = "Normal" /\ u.info[i].id = id /\ u.info[i].to = to
       /\ u.info[i].time = W!Untimed /\ u.info[i].start = w2.info[i].start
       /\ u.info[i].size = w2.info[i].size
  <2>1. w2.info[i] \in W!SlotType /\ w2.info[i] = w1.info[i]
    BY <1>1, <1>5, WriteSlotParts
  <2>2. w3.info[i] = [w2.info[i] EXCEPT !.to = to]
    BY <1>1, <1>7
  <2>3. u.info[i] = [w3.info[i] EXCEPT !.ready = TRUE]
    BY <1>1, <1>9
  <2>4. QED
    BY <2>1, <2>2, <2>3, <1>2, <1>3 DEF W!SlotType
<1>11. Held(u, i) = data
  BY <1>5, <1>7, <1>9, <1>10 DEF Held
<1>12. ASSUME NEW j \in W!Slots \ {i}
       PROVE  /\ u.info[j] = w.info[j]
              /\ j \in W!Packets(w) => Held(u, j) = Held(w, j)
  <2>1. u.info[j] = w.info[j] /\ w1.info[j] = w.info[j] /\ w2.info[j] = w.info[j]
    BY <1>2, <1>5, <1>7, <1>9
  <2>2. ASSUME j \in W!Packets(w) PROVE Held(w2, j) = Held(w1, j)
    BY <2>2, <1>2, <1>5, SameTables
  <2>3. QED
    BY <2>1, <2>2, <1>2, <1>7, <1>9 DEF Held
<1>13. ASSUME NEW j \in W!Live(w)
       PROVE  SameSlot(w, u, j) /\ u.info[j].time = w.info[j].time
  <2>1. j \in W!Slots \ {i}
    BY <1>1 DEF W!Live
  <2>2. QED
    BY <2>1, <1>12, PacketSlot, <1>13 DEF SameSlot
<1>14. W!Live(u) = W!Live(w) \union {i}
  BY <1>1, <1>10, <1>12, ConstantTypes DEF W!Live
<1>15. QED
  BY <1>0, <1>1, <1>9, <1>10, <1>11, <1>13, <1>14 DEF i

\* An answer enters the table.
LEMMA QueueAnswer ==
    ASSUME NEW w, WP!TableInv(w), W!AvailableWritePackets(w) # {},
           NEW answer \in [type : {"Acknowledge", "Reject"}, id : PacketIds,
                           index : 0 .. WordBits - 1, rev : {0}, to : Handlers]
    PROVE  LET i == First(w, W!Slots, NoId)
               u == W!SetSlot(w, i, W!AnswerSlot(w.info[i], answer))
           IN  /\ WP!TableInv(u)
               /\ i \in W!Slots \ W!Live(w)
               /\ W!Live(u) = W!Live(w) \union {i}
               /\ u.info[i].type = answer.type /\ u.info[i].id = answer.id
               /\ u.info[i].to = answer.to /\ u.info[i].time = W!Untimed
               /\ \A j \in W!Live(w) : /\ SameSlot(w, u, j)
                                       /\ u.info[j].time = w.info[j].time
<1> DEFINE i == First(w, W!Slots, NoId)
           u == W!SetSlot(w, i, W!AnswerSlot(w.info[i], answer))
<1>1. i \in W!Slots \ W!Live(w)
  BY WriteLookups
<1> HIDE DEF i
<1>2. answer \in [type : WP!Answers, id : PacketIds, index : 0 .. WordBits - 1,
                  rev : 0 .. 0, to : Handlers]
  BY DEF WP!Answers
<1>3. i \in WP!Slots \ WP!Live(w) /\ W!Slots = WP!Slots
      /\ u = WP!SetSlot(w, i, WP!AnswerSlot(w.info[i], answer))
      /\ W!Untimed = WP!Untimed
  BY <1>1, SameTables, SameValues
<1> HIDE DEF u
<1>4. /\ WP!TableInv(u) /\ u.mem = w.mem
      /\ \A j \in W!Slots \ {i} : u.info[j] = w.info[j]
      /\ u.info[i].type = answer.type /\ u.info[i].id = answer.id
      /\ u.info[i].to = answer.to /\ u.info[i].time = W!Untimed
  BY <1>2, <1>3, WP!AnswerPreserves, WTable, WFormat, WBuffer
<1>5. W!Live(u) = W!Live(w) \union {i}
  BY <1>1, <1>4, ConstantTypes DEF W!Live
<1>6. ASSUME NEW j \in W!Live(w)
      PROVE  SameSlot(w, u, j) /\ u.info[j].time = w.info[j].time
  <2>1. u.info[j] = w.info[j]
    BY <1>1, <1>4 DEF W!Live
  <2>2. QED
    BY <2>1, <1>4 DEF SameSlot, Held
<1>7. QED
  BY <1>1, <1>4, <1>5, <1>6 DEF u, i

\* A tick, and an acknowledgement for slot i.
LEMMA OnlyTimes ==
    ASSUME NEW w, WP!TableInv(w), NEW u, WP!OnlyTimesDiffer(w, u)
    PROVE  /\ WP!TableInv(u)
           /\ W!Live(u) = W!Live(w)
           /\ \A j \in W!Live(w) : SameSlot(w, u, j)
<1>1. /\ WP!TableInv(u) /\ WP!Live(u) = WP!Live(w) /\ u.mem = w.mem
      /\ \A j \in WP!Slots :
            /\ u.info[j].type = w.info[j].type /\ u.info[j].id = w.info[j].id
            /\ u.info[j].start = w.info[j].start
            /\ u.info[j].size = w.info[j].size
            /\ u.info[j].to = w.info[j].to
  BY WP!TimePreserves, WTable, WFormat, WBuffer
<1>2. \A j \in W!Live(w) : j \in WP!Slots
  BY SameValues DEF W!Live
<1>3. QED
  BY <1>1, <1>2, SameTables DEF SameSlot, Held

\* Time passes: what has no time gets none.
LEMMA AgeWrite ==
    ASSUME NEW w, WP!TableInv(w)
    PROVE  LET u == W!AgeTable(w)
           IN  /\ WP!TableInv(u)
               /\ W!Live(u) = W!Live(w)
               /\ \A j \in W!Live(w) :
                     /\ SameSlot(w, u, j)
                     /\ w.info[j].time = W!Untimed => u.info[j].time = W!Untimed
<1> DEFINE u == W!AgeTable(w)
<1>1. /\ WP!OnlyTimesDiffer(w, u)
      /\ \A j \in W!Slots : w.info[j].time = W!Untimed => u.info[j] = w.info[j]
  BY SameTables, SameValues, WP!AgeTime, WTable, WFormat, WBuffer
<1> HIDE DEF u
<1>2. QED
  BY <1>1, OnlyTimes DEF W!Live, u

\* An acknowledgement sets one time.
LEMMA AcknowledgeWrite ==
    ASSUME NEW w, WP!TableInv(w), NEW i \in W!Slots
    PROVE  LET u == [w EXCEPT !.info[i].time = 0]
           IN  /\ WP!TableInv(u)
               /\ W!Live(u) = W!Live(w)
               /\ \A j \in W!Live(w) :
                     /\ SameSlot(w, u, j)
                     /\ j # i => u.info[j].time = w.info[j].time
<1> DEFINE u == [w EXCEPT !.info[i].time = 0]
<1>1. w \in W!Tables
  BY WriteSlotParts
<1>2. u = WP!SetSlot(w, i, [w.info[i] EXCEPT !.time = 0]) /\ i \in WP!Slots
  BY <1>1, SameValues DEF WP!SetSlot, W!Tables
<1>3. /\ WP!OnlyTimesDiffer(w, u)
      /\ \A j \in W!Slots \ {i} : u.info[j] = w.info[j]
  <2> HIDE DEF u
  <2>1. QED
    BY <1>2, SameValues, WP!AcknowledgeTime, WTable, WFormat, WBuffer
<1> HIDE DEF u
<1>4. QED
  BY <1>3, OnlyTimes DEF W!Live, u

-----------------------------------------------------------------------------
(***************************************************************************)
(* The expiry loop of a write table.                                       *)
(***************************************************************************)

\* One turn of the loop.
WTurn(t, n) == IF WIsExpired(t.info[n])
               THEN W!FreeWritePacket(t, First(t, W!Slots, t.info[n].id))
               ELSE t

\* The loop is what its recursive definition says.
LEMMA WExpiringTurns ==
    ASSUME NEW w
    PROVE  /\ WExpiring(w)[0] = w
           /\ \A n \in 1 .. MaxPackets :
                 WExpiring(w)[n] = WTurn(WExpiring(w)[n - 1], n - 1)
<1> DEFINE Loop(f, n) == f = [m \in 0 .. n |-> IF m = 0 THEN w ELSE WTurn(f[m - 1], m - 1)]
           S == { n \in Nat : \E f : Loop(f, n) }
<1>1. 0 \in S
  <2>1. Loop([m \in 0 .. 0 |-> w], 0)
    OBVIOUS
  <2>2. QED
    BY <2>1
<1>2. ASSUME NEW k \in Nat, k \in S PROVE k + 1 \in S
  <2>1. PICK f : Loop(f, k)
    BY <1>2
  <2> DEFINE g == [m \in 0 .. k + 1 |-> IF m <= k THEN f[m] ELSE WTurn(f[k], k)]
  <2>2. ASSUME NEW m \in 0 .. k + 1
        PROVE  g[m] = IF m = 0 THEN w ELSE WTurn(g[m - 1], m - 1)
    <3>1. CASE m = 0
      <4>1. 0 <= k /\ 0 \in 0 .. k
        OBVIOUS
      <4>2. f[0] = w
        BY <2>1, <4>1
      <4>3. QED
        BY <3>1, <4>1, <4>2
    <3>2. CASE m # 0 /\ m <= k
      <4>1. m \in 0 .. k /\ m - 1 \in 0 .. k + 1 /\ m - 1 <= k
        BY <3>2
      <4>2. f[m] = WTurn(f[m - 1], m - 1)
        BY <2>1, <3>2, <4>1
      <4>3. QED
        BY <3>2, <4>1, <4>2
    <3>3. CASE m = k + 1
      <4>1. ~ (m <= k) /\ m - 1 = k /\ k \in 0 .. k + 1 /\ k <= k /\ m # 0
        BY <3>3
      <4>2. QED
        BY <4>1
    <3>4. QED
      BY <3>1, <3>2, <3>3
  <2>3. Loop(g, k + 1)
    <3>1. g = [m \in 0 .. k + 1 |-> g[m]]
      OBVIOUS
    <3> HIDE DEF g
    <3>2. QED
      BY <2>2, <3>1
  <2> HIDE DEF Loop, g
  <2>4. QED
    BY <2>3
<1>3. MaxPackets \in S
  <2> HIDE DEF S
  <2>1. \A k \in Nat : k < MaxPackets /\ k \in S => k + 1 \in S
    BY <1>2
  <2>2. MaxPackets \in Nat /\ MaxPackets \in 0 .. MaxPackets
    BY ConstantTypes
  <2>3. \A k \in 0 .. MaxPackets : k \in S
    BY <1>1, <2>1, <2>2, CountUp
  <2>4. QED
    BY <2>2, <2>3
<1>4. \E f : Loop(f, MaxPackets)
  BY <1>3
<1>5. Loop(WExpiring(w), MaxPackets)
  BY <1>4 DEF WExpiring, WTurn
<1>6. QED
  <2>1. \A n \in 1 .. MaxPackets : n \in 0 .. MaxPackets /\ n # 0
    BY ConstantTypes
  <2>2. 0 \in 0 .. MaxPackets
    BY ConstantTypes
  <2>3. QED
    BY <1>5, <2>1, <2>2

\* The slots of u are slots of w, with the same packets and times.
Survives(w, u) ==
    /\ WP!TableInv(u)
    /\ W!Live(u) \subseteq W!Live(w)
    /\ \A j \in W!Live(u) : SameSlot(w, u, j) /\ u.info[j].time = w.info[j].time

\* The slots of answers, which have no time and no id of a packet in the table.
AnswersOf(w) == { i \in W!Live(w) : w.info[i].type # "Normal" }

Separate(w) ==
    \A i \in AnswersOf(w) :
        /\ w.info[i].time = W!Untimed
        /\ \A j \in W!Live(w) \ AnswersOf(w) : w.info[j].id # w.info[i].id

\* A lookup of the id of a packet finds no answer, and freeing what it finds
\* keeps the answers.
LEMMA FreeFirst ==
    ASSUME NEW w, WP!TableInv(w), NEW n \in W!Live(w)
    PROVE  LET i == First(w, W!Slots, w.info[n].id)
               u == W!FreeWritePacket(w, i)
           IN  /\ i \in W!Live(w) /\ w.info[i].id = w.info[n].id
               /\ Survives(w, u)
               /\ Separate(w) /\ n \notin AnswersOf(w) => AnswersOf(u) = AnswersOf(w)
<1> DEFINE id == w.info[n].id
           i  == First(w, W!Slots, id)
           u  == W!FreeWritePacket(w, i)
<1>1. n \in W!Slots /\ id # NoId
  BY DEF W!Live
<1>2. i \in W!Slots /\ w.info[i].id = id
  <2>1. \E j \in W!Slots : w.info[j].id = id
    BY <1>1
  <2> HIDE DEF id
  <2>2. QED
    BY <2>1, FirstSlot
<1>3. i \in W!Live(w) /\ id = w.info[n].id
  BY <1>1, <1>2 DEF W!Live
<1> HIDE DEF id, i
<1>4. /\ WP!TableInv(u)
      /\ W!Live(u) = W!Live(w) \ {i}
      /\ \A j \in W!Live(u) : /\ SameSlot(w, u, j)
                              /\ u.info[j].time = w.info[j].time
  BY <1>3, FreeWrite
<1> HIDE DEF u
<1>5. Survives(w, u)
  BY <1>4 DEF Survives
<1>6. ASSUME Separate(w), n \notin AnswersOf(w) PROVE AnswersOf(u) = AnswersOf(w)
  <2>1. i \notin AnswersOf(w)
    BY <1>2, <1>3, <1>6 DEF Separate
  <2>2. QED
    BY <2>1, <1>4 DEF AnswersOf, SameSlot
<1>7. QED
  BY <1>2, <1>3, <1>5, <1>6 DEF u, i, id

\* What survives two changes survives both.
LEMMA SurvivesStep ==
    ASSUME NEW w, NEW t, NEW u, Survives(w, t), Survives(t, u)
    PROVE  Survives(w, u)
  BY DEF Survives, SameSlot

\* The turns of the loop free packets, and no answer that is separate.
LEMMA ExpireWrite ==
    ASSUME NEW w, WP!TableInv(w)
    PROVE  LET u == WExpiring(w)[MaxPackets]
           IN  /\ Survives(w, u)
               /\ Separate(w) => AnswersOf(u) = AnswersOf(w)
<1> DEFINE f == WExpiring(w)
           S == { n \in Nat : n <= MaxPackets =>
                                 /\ Survives(w, f[n])
                                 /\ Separate(w) => AnswersOf(f[n]) = AnswersOf(w) }
<1>1. /\ f[0] = w
      /\ \A n \in 1 .. MaxPackets : f[n] = WTurn(f[n - 1], n - 1)
  BY WExpiringTurns
<1> HIDE DEF f
<1>2. 0 \in S
  BY <1>1 DEF Survives, SameSlot
<1>3. ASSUME NEW k \in Nat, k < MaxPackets, k \in S PROVE k + 1 \in S
  <2> DEFINE t == f[k]
             u == f[k + 1]
  <2>1. /\ Survives(w, t) /\ (Separate(w) => AnswersOf(t) = AnswersOf(w))
        /\ WP!TableInv(t)
    BY <1>3, ConstantTypes DEF Survives
  <2>2. u = WTurn(t, k) /\ k \in W!Slots
    <3>1. k + 1 \in 1 .. MaxPackets /\ (k + 1) - 1 = k /\ k \in 0 .. MaxPackets - 1
      BY <1>3, ConstantTypes
    <3>2. QED
      BY <1>1, <3>1 DEF W!Slots
  <2> HIDE DEF t, u
  <2>3. Survives(w, u) /\ (Separate(w) => AnswersOf(u) = AnswersOf(w))
    <3>1. CASE ~WIsExpired(t.info[k])
      BY <2>1, <2>2, <3>1 DEF WTurn
    <3>2. CASE WIsExpired(t.info[k])
      <4>1. k \in W!Live(t) /\ t.info[k].time # W!Untimed
        BY <2>2, <3>2, ConstantTypes DEF WIsExpired, W!Live, W!Untimed
      <4>2. u = W!FreeWritePacket(t, First(t, W!Slots, t.info[k].id))
        BY <2>2, <3>2 DEF WTurn
      <4>3. /\ Survives(t, u)
            /\ Separate(t) /\ k \notin AnswersOf(t) => AnswersOf(u) = AnswersOf(t)
        BY <2>1, <4>1, <4>2, FreeFirst
      <4>4. ASSUME Separate(w) PROVE AnswersOf(u) = AnswersOf(w)
        <5>1. AnswersOf(t) = AnswersOf(w)
          BY <2>1, <4>4
        <5>2. \A j \in W!Live(t) : t.info[j].type = w.info[j].type /\ t.info[j].id = w.info[j].id
                 /\ t.info[j].time = w.info[j].time /\ j \in W!Live(w)
          BY <2>1 DEF Survives, SameSlot
        <5>3. Separate(t)
          BY <4>4, <5>1, <5>2 DEF Separate, AnswersOf
        <5>4. k \notin AnswersOf(t)
          BY <4>1, <5>3 DEF Separate
        <5>5. QED
          BY <4>3, <5>1, <5>3, <5>4
      <4>5. QED
        BY <2>1, <4>3, <4>4, SurvivesStep
    <3>3. QED
      BY <3>1, <3>2
  <2>4. QED
    BY <1>3, <2>3, ConstantTypes DEF u
<1>4. QED
  <2> HIDE DEF S
  <2>1. \A k \in Nat : k < MaxPackets /\ k \in S => k + 1 \in S
    BY <1>3
  <2>2. MaxPackets \in Nat /\ MaxPackets \in 0 .. MaxPackets
    BY ConstantTypes
  <2>3. \A k \in 0 .. MaxPackets : k \in S
    BY <1>2, <2>1, <2>2, CountUp
  <2>4. MaxPackets \in S /\ MaxPackets <= MaxPackets
    BY <2>2, <2>3
  <2>5. QED
    BY <2>4 DEF S, f

-----------------------------------------------------------------------------
(***************************************************************************)
(* Sections and the bitmap.                                                *)
(***************************************************************************)
LEMMA DivisionType ==
    ASSUME NEW n \in Nat, NEW k \in Nat \ {0}
    PROVE  /\ n % k \in 0 .. k - 1
           /\ n \div k \in Nat
           /\ n = k * (n \div k) + (n % k)
<1>1. n % k \in 0 .. k - 1
  OBVIOUS
<1>2. n = k * (n \div k) + (n % k)
  OBVIOUS
<1>3. n \div k \in Int
  OBVIOUS
<1>4. CASE n \div k <= -1
  <2>1. k * (n \div k) <= -k
    BY <1>3, <1>4
  <2>2. QED
    BY <1>1, <1>2, <1>3, <2>1
<1>5. QED
  BY <1>1, <1>2, <1>3, <1>4

\* Products with one positive factor are ordered as the others.
LEMMA LessMultiple ==
    ASSUME NEW a \in Int, NEW b \in Int, NEW k \in Nat \ {0}, a * k < b * k
    PROVE  a < b
<1> SUFFICES ASSUME a >= b PROVE FALSE
  OBVIOUS
<1> DEFINE z == a - b
<1>1. z \in Nat /\ z * k = a * k - b * k
  OBVIOUS
<1> HIDE DEF z
<1>2. z * k >= 0
  BY <1>1
<1>3. a * k \in Int /\ b * k \in Int
  OBVIOUS
<1>4. QED
  BY <1>1, <1>2, <1>3

\* A unit is in exactly one section, of those its packet needs.
LEMMA UnitSection ==
    ASSUME NEW c \in Nat \ {0}
    PROVE  \E k \in Nat : InSection(c, k)
<1> DEFINE k == (c - 1) \div SectionSize
<1>1. /\ SectionSize \in Nat \ {0} /\ c - 1 \in Nat
  BY ConstantTypes
<1>2. /\ k \in Nat /\ (c - 1) % SectionSize \in 0 .. SectionSize - 1
      /\ c - 1 = SectionSize * k + ((c - 1) % SectionSize)
  BY <1>1, DivisionType
<1>3. SectionSize * k = k * SectionSize /\ k * SectionSize \in Nat
  BY <1>1, <1>2
<1> HIDE DEF k
<1>4. InSection(c, k)
  BY <1>1, <1>2, <1>3 DEF InSection
<1>5. QED
  BY <1>2, <1>4

\* A word has a bit for each section of a line, and the bits of the initial
\* bitmap are those past the last section.
LEMMA SectionFacts ==
    ASSUME NEW size \in Sizes
    PROVE  /\ size \in Nat
           /\ R!BitmapSize(size) = WordBits
           /\ R!InitialBits(size) \subseteq 0 .. WordBits - 1
           /\ \A k \in Nat : k * SectionSize < size =>
                 k \in 0 .. WordBits - 1 /\ k \notin R!InitialBits(size)
           /\ \A k \in Nat : \A c \in 1 .. size : InSection(c, k) =>
                 k \in 0 .. WordBits - 1 /\ k \notin R!InitialBits(size)
           /\ size \in 1 .. SectionSize =>
                 R!InitialBits(size) = 1 .. WordBits - 1
<1>1. /\ size \in Nat /\ size <= WordBits * SectionSize
      /\ SectionSize \in Nat \ {0} /\ WordBits \in Nat \ {0}
  BY ConstantTypes, EchoTestAssumption DEF Sizes
<1>2. /\ R!BitmapSize(size) = WordBits
      /\ R!InitialBits(size) = R!GetRequiredSections(size) .. WordBits - 1
  BY <1>1 DEF R!UsesWord, R!BitmapSize, R!InitialBits
<1> DEFINE req == R!GetRequiredSections(size)
<1>3. req \in Nat /\ size <= req * SectionSize /\ req * SectionSize < size + SectionSize
  <2> DEFINE n == size + SectionSize - 1
  <2>1. n \in Nat
    BY <1>1
  <2>2. n \div SectionSize \in Nat /\ n = SectionSize * (n \div SectionSize) + (n % SectionSize)
        /\ n % SectionSize \in 0 .. SectionSize - 1
    BY <1>1, <2>1, DivisionType
  <2>3. req = n \div SectionSize /\ n = size + SectionSize - 1
    BY DEF R!GetRequiredSections
  <2> HIDE DEF n, req
  <2>4. req \in Nat /\ n = SectionSize * req + (n % SectionSize)
    BY <2>2, <2>3
  <2>5. SectionSize * req = req * SectionSize /\ req * SectionSize \in Nat
    BY <1>1, <2>4
  <2>6. QED
    BY <1>1, <2>2, <2>3, <2>4, <2>5
<1> HIDE DEF req
<1>4. ASSUME NEW k \in Nat, k * SectionSize < size
      PROVE  k \in 0 .. WordBits - 1 /\ k \notin req .. WordBits - 1
  <2>1. k * SectionSize \in Nat /\ req * SectionSize \in Nat /\ WordBits * SectionSize \in Nat
    BY <1>1, <1>3
  <2>2. k * SectionSize < req * SectionSize /\ k * SectionSize < WordBits * SectionSize
    BY <1>1, <1>3, <1>4, <2>1
  <2>3. k < req /\ k < WordBits
    BY <1>1, <1>3, <2>2, LessMultiple
  <2>4. QED
    BY <1>1, <1>3, <2>3
<1>5. ASSUME NEW k \in Nat, NEW c \in 1 .. size, InSection(c, k)
      PROVE  k * SectionSize < size
  <2>1. k * SectionSize \in Nat
    BY <1>1
  <2>2. QED
    BY <1>1, <1>5, <2>1 DEF InSection
<1>6. ASSUME size \in 1 .. SectionSize PROVE req = 1
  <2>1. 0 * SectionSize < req * SectionSize /\ req * SectionSize < 2 * SectionSize
    BY <1>1, <1>3, <1>6
  <2>2. 0 < req /\ req < 2
    BY <1>1, <1>3, <2>1, LessMultiple
  <2>3. QED
    BY <1>3, <2>2
<1>7. QED
  BY <1>1, <1>2, <1>3, <1>4, <1>5, <1>6 DEF req

-----------------------------------------------------------------------------
(***************************************************************************)
(* The operations on a read table.  (The lemmas of ReadTableProofs speak of*)
(* the cells of PacketReader.)                                             *)
(***************************************************************************)
LEMMA ReadValues ==
    /\ R!Slots = W!Slots /\ R!Slots = 0 .. MaxPackets - 1
    /\ \A a \in Int : a \in R!Address <=> 0 <= a /\ a < R!BufferSize
    /\ R!Address \subseteq Nat
    /\ R!BufferSize \in Nat
    /\ R!Ids = PacketIds
    /\ \A a \in Int : a \in R!Word <=> 0 <= a /\ a < WordModulus
    /\ R!Word \subseteq Nat
    /\ R!BufferSize < WordModulus
    /\ R!Rev = {0}
    /\ R!FreeSlot \in R!SlotType /\ R!FreeSlot.id = NoId
<1>1. R!Slots = W!Slots /\ R!Slots = 0 .. MaxPackets - 1
  BY DEF R!Slots, W!Slots
<1>2. R!BufferSize \in Nat /\ R!BufferSize < WordModulus
  BY ConstantTypes, HandlerAssumption DEF R!BufferSize
<1>a. /\ \A a \in Int : a \in R!Address <=> 0 <= a /\ a < R!BufferSize
      /\ R!Address \subseteq Nat
  BY <1>2 DEF R!Address
<1>3. R!Ids = PacketIds
  BY DEF R!Ids
<1>4. /\ \A a \in Int : a \in R!Word <=> 0 <= a /\ a < WordModulus
      /\ R!Word \subseteq Nat /\ WordModulus \in Nat
  BY ConstantTypes DEF R!Word
<1>5. R!Rev = {0}
  BY DEF R!Rev
<1>6. R!FreeSlot \in R!SlotType /\ R!FreeSlot.id = NoId
  BY <1>2, <1>4, <1>5 DEF R!FreeSlot, R!SlotType, R!NoStart, R!Untimed
<1>7. QED
  BY <1>1, <1>2, <1>a, <1>3, <1>4, <1>5, <1>6

\* The types of a read slot, one by one.
LEMMA ReadSlotParts ==
    ASSUME NEW r, Shelf(r), NEW i \in R!Slots
    PROVE  /\ r.info[i] \in R!SlotType /\ r.info \in [R!Slots -> R!SlotType]
           /\ r.info[i].id \in PacketIds \union {NoId}
           /\ r.info[i].rev = 0
           /\ r.info[i].start \in Nat /\ r.info[i].start \in R!Word
           /\ r.info[i].size \in Nat /\ r.info[i].bits \in SUBSET Nat
           /\ r.used \in Nat /\ ScratchSize <= r.used /\ r.used <= R!BufferSize
           /\ r.mem \in [R!Address -> W!Cell]
           /\ r = [info |-> r.info, used |-> r.used, mem |-> r.mem]
<1>1. r \in Shelves
  BY DEF Shelf
<1>2. /\ r.info \in [R!Slots -> R!SlotType] /\ r.used \in ScratchSize .. R!BufferSize
      /\ r.mem \in [R!Address -> W!Cell]
      /\ r = [info |-> r.info, used |-> r.used, mem |-> r.mem]
  BY <1>1 DEF Shelves
<1>3. r.info[i] \in R!SlotType
  BY <1>2
<1>4. /\ r.info[i].id \in PacketIds \union {NoId} /\ r.info[i].rev = 0
      /\ r.info[i].start \in R!Word /\ r.info[i].start \in Nat
      /\ r.info[i].size \in Nat /\ r.info[i].bits \in SUBSET Nat
  BY <1>3, ReadValues DEF R!SlotType
<1>5. r.used \in Nat /\ ScratchSize <= r.used /\ r.used <= R!BufferSize
  BY <1>2, ReadValues, ConstantTypes
<1>6. QED
  BY <1>2, <1>3, <1>4, <1>5

\* Where the packets of a table lie.
LEMMA ReadPlaces ==
    ASSUME NEW r, Shelf(r), NEW i \in R!Live(r)
    PROVE  /\ i \in R!Slots /\ r.info[i].id \in PacketIds
           /\ ScratchSize <= r.info[i].start
           /\ r.info[i].start + r.info[i].size <= r.used
           /\ r.info[i].start + r.info[i].size <= R!BufferSize
           /\ r.info[i].size \in Sizes /\ r.info[i].size \in Nat \ {0}
           /\ \A c \in 1 .. r.info[i].size : r.info[i].start + c - 1 \in R!Address
           /\ \A j \in R!Live(r) \ {i} :
                 \/ r.info[i].start + r.info[i].size <= r.info[j].start
                 \/ r.info[j].start + r.info[j].size <= r.info[i].start
<1>1. i \in R!Slots /\ r.info[i].id # NoId
  BY DEF R!Live
<1>2. /\ r.info[i].start \in Nat /\ r.info[i].size \in Nat
      /\ r.used \in Nat /\ r.used <= R!BufferSize
      /\ r.info[i].id \in PacketIds
  BY <1>1, ReadSlotParts
<1>3. /\ ScratchSize <= r.info[i].start
      /\ r.info[i].start + r.info[i].size <= r.used
      /\ r.info[i].size \in Sizes \ {0}
      /\ R!RegionsDisjoint(r)
  BY DEF Shelf
<1>4. r.info[i].start + r.info[i].size <= R!BufferSize
  BY <1>2, <1>3, ReadValues
<1>a. ASSUME NEW c \in 1 .. r.info[i].size
      PROVE  r.info[i].start + c - 1 \in R!Address
  <2>1. /\ r.info[i].start + c - 1 \in Int /\ 0 <= r.info[i].start + c - 1
        /\ r.info[i].start + c - 1 < R!BufferSize
    BY <1>2, <1>4, ReadValues
  <2>2. QED
    BY <2>1, ReadValues
<1>5. QED
  BY <1>1, <1>2, <1>3, <1>4, <1>a DEF R!RegionsDisjoint

\* Slot i of u is what slot i of r was, wherever its data lie.
Keeps(r, u, i) ==
    /\ u.info[i].id = r.info[i].id
    /\ u.info[i].size = r.info[i].size
    /\ u.info[i].bits = r.info[i].bits
    /\ R!Contents(u, i) = R!Contents(r, i)

\* freeReadPacket takes one slot out of the table.
LEMMA FreeRead ==
    ASSUME NEW r, Shelf(r), NEW i \in R!Live(r)
    PROVE  LET u == R!FreeReadPacket(r, i)
           IN  /\ Shelf(u)
               /\ R!Live(u) = R!Live(r) \ {i}
               /\ \A j \in R!Live(u) : Keeps(r, u, j)
<1> DEFINE u == R!FreeReadPacket(r, i)
           start == r.info[i].start
           size == r.info[i].size
<1>1. /\ i \in R!Slots /\ start \in Nat /\ size \in Nat \ {0}
      /\ start + size <= R!BufferSize /\ size < WordModulus
      /\ start = r.info[i].start /\ size = r.info[i].size
      /\ r.used \in Nat /\ start + size <= r.used /\ r.used <= R!BufferSize
      /\ ScratchSize <= r.used /\ R!BufferSize \in Nat /\ ScratchSize \in Nat
      /\ WordModulus \in Nat /\ ScratchSize <= start
      /\ R!BufferSize < WordModulus /\ r.mem \in [R!Address -> W!Cell]
  <2>1. /\ i \in R!Slots /\ start \in Nat /\ size \in Nat \ {0}
        /\ start + size <= R!BufferSize /\ start + size <= r.used
        /\ ScratchSize <= start /\ R!BufferSize \in Nat
        /\ R!BufferSize < WordModulus
    BY ReadPlaces, ReadSlotParts, ReadValues
  <2> HIDE DEF start, size
  <2>2. ScratchSize \in Nat /\ WordModulus \in Nat
    BY ConstantTypes
  <2>3. size < WordModulus
    BY <2>1, <2>2
  <2>4. /\ r.used \in Nat /\ r.used <= R!BufferSize /\ ScratchSize <= r.used
        /\ r.mem \in [R!Address -> W!Cell]
    BY <2>1, ReadSlotParts
  <2>5. start = r.info[i].start /\ size = r.info[i].size
    BY DEF start, size
  <2>6. QED
    BY <2>1, <2>2, <2>3, <2>4, <2>5
<1> HIDE DEF start, size
<1>2. /\ u.info = [j \in R!Slots |-> IF j = i THEN R!FreeSlot ELSE R!ShiftedSlot(r, j, i)]
      /\ u.used = r.used
      /\ u.mem = R!CloseGap(r.mem, start, size)
      /\ u = [info |-> u.info, used |-> u.used, mem |-> u.mem]
  BY <1>1 DEF R!FreeReadPacket
<1> HIDE DEF u
<1>3. \A a \in R!Address : u.mem[a] = IF start <= a /\ a + size < R!BufferSize
                                      THEN r.mem[a + size] ELSE r.mem[a]
  BY <1>2 DEF R!CloseGap
<1>4. u.mem \in [R!Address -> W!Cell]
  <2>1. \A a \in R!Address : a + size < R!BufferSize => a + size \in R!Address
    <3>1. \A a \in R!Address : a + size \in Int /\ 0 <= a + size
      BY <1>1, ReadValues
    <3>2. QED
      BY <3>1, ReadValues
  <2>2. \A a \in R!Address : u.mem[a] \in W!Cell
    BY <1>1, <1>3, <2>1
  <2>3. u.mem = [a \in R!Address |-> u.mem[a]]
    BY <1>2 DEF R!CloseGap
  <2>4. QED
    BY <2>2, <2>3
<1>5. ASSUME NEW j \in R!Slots \ {i}
      PROVE  /\ u.info[j] \in R!SlotType
             /\ u.info[j].id = r.info[j].id /\ u.info[j].size = r.info[j].size
             /\ u.info[j].bits = r.info[j].bits
             /\ u.info[j].start = R!ShiftedStart(r.info[j].start, start, size)
  <2>1. u.info[j] = [r.info[j] EXCEPT !.start = R!ShiftedStart(r.info[j].start, start, size)]
    BY <1>1, <1>2 DEF R!ShiftedSlot
  <2>2. r.info[j] \in R!SlotType /\ r.info[j].start \in R!Word /\ r.info[j].start \in Nat
    BY ReadSlotParts
  <2>3. R!ShiftedStart(r.info[j].start, start, size) \in R!Word
    <3>1. /\ r.info[j].start < WordModulus
      BY <2>2, ReadValues
    <3>2. /\ R!ShiftedStart(r.info[j].start, start, size) \in Int
          /\ 0 <= R!ShiftedStart(r.info[j].start, start, size)
          /\ R!ShiftedStart(r.info[j].start, start, size) < WordModulus
      BY <1>1, <2>2, <3>1 DEF R!ShiftedStart, R!Subtract
    <3>3. QED
      BY <3>2, ReadValues
  <2>4. QED
    BY <2>1, <2>2, <2>3 DEF R!SlotType
<1>6. u.info[i] = R!FreeSlot
  BY <1>1, <1>2
<1>7. u \in Shelves
  <2>1. \A j \in R!Slots : u.info[j] \in R!SlotType
    BY <1>5, <1>6, ReadValues
  <2>2. u.info \in [R!Slots -> R!SlotType]
    BY <2>1, <1>2
  <2>3. QED
    BY <1>1, <1>2, <1>4, <2>2 DEF Shelves
<1>8. R!Live(u) = R!Live(r) \ {i}
  BY <1>1, <1>5, <1>6, ReadValues DEF R!Live
<1>9. ASSUME NEW j \in R!Live(u)
      PROVE  /\ j \in R!Live(r) \ {i} /\ j \in R!Slots \ {i}
             /\ r.info[j].start \in Nat /\ r.info[j].size \in Nat \ {0}
             /\ ScratchSize <= r.info[j].start
             /\ r.info[j].start + r.info[j].size <= r.used
             /\ \/ /\ r.info[j].start + r.info[j].size <= start
                   /\ u.info[j].start = r.info[j].start
                \/ /\ start + size <= r.info[j].start
                   /\ u.info[j].start = r.info[j].start - size
  <2>1. j \in R!Live(r) \ {i} /\ j \in R!Slots \ {i}
    BY <1>8 DEF R!Live
  <2>2. /\ r.info[j].start \in Nat /\ r.info[j].size \in Nat \ {0}
        /\ ScratchSize <= r.info[j].start
        /\ r.info[j].start + r.info[j].size <= r.used
    BY <2>1, ReadPlaces, ReadSlotParts
  <2>3. \/ start + size <= r.info[j].start
        \/ r.info[j].start + r.info[j].size <= start
    BY <1>1, <2>1, ReadPlaces
  <2>4. CASE start + size <= r.info[j].start
    <3>1. R!ShiftedStart(r.info[j].start, start, size) = r.info[j].start - size
      BY <1>1, <2>2, <2>4 DEF R!ShiftedStart, R!Subtract
    <3>2. QED
      BY <1>5, <2>1, <2>2, <2>4, <3>1
  <2>5. CASE r.info[j].start + r.info[j].size <= start
    <3>1. R!ShiftedStart(r.info[j].start, start, size) = r.info[j].start
      BY <1>1, <2>2, <2>5 DEF R!ShiftedStart
    <3>2. QED
      BY <1>5, <2>1, <2>2, <2>5, <3>1
  <2>6. QED
    BY <2>3, <2>4, <2>5
<1>10. ASSUME NEW j \in R!Live(u)
       PROVE  Keeps(r, u, j)
  <2>1. ASSUME NEW c \in 1 .. r.info[j].size
        PROVE  u.mem[u.info[j].start + c - 1] = r.mem[r.info[j].start + c - 1]
    <3> DEFINE a == u.info[j].start + c - 1
               b == r.info[j].start + c - 1
    <3>0. c \in Nat /\ 1 <= c /\ c <= r.info[j].size
      BY <1>9
    <3>1. CASE /\ r.info[j].start + r.info[j].size <= start
               /\ u.info[j].start = r.info[j].start
      <4>0. a = b /\ a \in Int /\ 0 <= a /\ a < R!BufferSize /\ ~ (start <= a)
        BY <1>1, <1>9, <3>0, <3>1
      <4>1. a = b /\ a \in R!Address /\ ~ (start <= a)
        BY <4>0, ReadValues
      <4> HIDE DEF a, b
      <4>2. u.mem[a] = r.mem[b]
        BY <1>3, <4>1
      <4>3. QED
        BY <4>2 DEF a, b
    <3>2. CASE /\ start + size <= r.info[j].start
               /\ u.info[j].start = r.info[j].start - size
      <4>0. /\ b = a + size /\ a \in Int /\ 0 <= a /\ a < R!BufferSize
            /\ start <= a /\ a + size < R!BufferSize
        BY <1>1, <1>9, <3>0, <3>2
      <4>1. b = a + size /\ a \in R!Address /\ start <= a /\ a + size < R!BufferSize
        BY <4>0, ReadValues
      <4> HIDE DEF a, b
      <4>2. u.mem[a] = r.mem[b]
        BY <1>3, <4>1
      <4>3. QED
        BY <4>2 DEF a, b
    <3>3. QED
      BY <1>9, <3>1, <3>2
  <2>2. u.info[j].size = r.info[j].size
    BY <1>5, <1>9
  <2>3. R!Contents(u, j) = R!Contents(r, j)
    BY <2>1, <2>2 DEF R!Contents
  <2>4. QED
    BY <1>5, <1>9, <2>3 DEF Keeps
<1>11. ASSUME NEW j \in R!Live(u)
       PROVE  /\ ScratchSize <= u.info[j].start
              /\ u.info[j].start + u.info[j].size <= u.used
              /\ u.info[j].size \in Sizes \ {0}
              /\ R!InitialBits(u.info[j].size) \subseteq u.info[j].bits
              /\ u.info[j].bits \subseteq 0 .. WordBits - 1
  <2>1. u.info[j].size = r.info[j].size /\ u.info[j].bits = r.info[j].bits
    BY <1>5, <1>9
  <2>2. /\ r.info[j].size \in Sizes \ {0}
        /\ R!InitialBits(r.info[j].size) \subseteq r.info[j].bits
        /\ r.info[j].bits \subseteq 0 .. WordBits - 1
    BY <1>9 DEF Shelf
  <2>3. ScratchSize <= u.info[j].start /\ u.info[j].start + u.info[j].size <= u.used
    <3>1. /\ r.info[j].start \in Nat /\ r.info[j].size \in Nat
          /\ ScratchSize <= r.info[j].start
          /\ r.info[j].start + r.info[j].size <= r.used
          /\ u.used = r.used
      BY <1>2, <1>9
    <3>2. CASE u.info[j].start = r.info[j].start
      BY <2>1, <3>1, <3>2
    <3>3. CASE /\ start + size <= r.info[j].start
               /\ u.info[j].start = r.info[j].start - size
      BY <1>1, <2>1, <3>1, <3>3
    <3>4. QED
      BY <1>9, <3>2, <3>3
  <2>4. QED
    BY <2>1, <2>2, <2>3
<1>12. ASSUME NEW j \in R!Live(u), NEW k \in R!Live(u), j # k
       PROVE  \/ u.info[j].start + u.info[j].size <= u.info[k].start
              \/ u.info[k].start + u.info[k].size <= u.info[j].start
  <2>1. \/ r.info[j].start + r.info[j].size <= r.info[k].start
        \/ r.info[k].start + r.info[k].size <= r.info[j].start
    BY <1>9, <1>12, ReadPlaces
  <2>2. u.info[j].size = r.info[j].size /\ u.info[k].size = r.info[k].size
    BY <1>5, <1>9
  <2>3. /\ r.info[j].start \in Nat /\ r.info[j].size \in Nat
        /\ r.info[k].start \in Nat /\ r.info[k].size \in Nat
    BY <1>9
  <2>4. /\ \/ /\ r.info[j].start + r.info[j].size <= start
              /\ u.info[j].start = r.info[j].start
           \/ /\ start + size <= r.info[j].start
              /\ u.info[j].start = r.info[j].start - size
        /\ \/ /\ r.info[k].start + r.info[k].size <= start
              /\ u.info[k].start = r.info[k].start
           \/ /\ start + size <= r.info[k].start
              /\ u.info[k].start = r.info[k].start - size
    BY <1>9
  <2>5. QED
    BY <1>1, <2>1, <2>2, <2>3, <2>4
<1>13. QED
  BY <1>7, <1>8, <1>10, <1>11, <1>12 DEF u, Shelf, R!RegionsDisjoint

\* A table with the same places, sizes and contents is as good.
LEMMA SameShelf ==
    ASSUME NEW r, Shelf(r), NEW u \in Shelves,
           u.used = r.used, R!Live(u) = R!Live(r),
           \A j \in R!Live(r) : /\ u.info[j].start = r.info[j].start
                                /\ u.info[j].size = r.info[j].size
                                /\ r.info[j].bits \subseteq u.info[j].bits
                                /\ u.info[j].bits \subseteq 0 .. WordBits - 1
    PROVE  Shelf(u)
  BY DEF Shelf, R!RegionsDisjoint

\* A tick changes nothing but ages.
LEMMA AgeRead ==
    ASSUME NEW r, Shelf(r)
    PROVE  LET u == R!AgeTable(r)
           IN  /\ Shelf(u)
               /\ R!Live(u) = R!Live(r)
               /\ \A j \in R!Live(u) : Keeps(r, u, j)
<1> DEFINE u == R!AgeTable(r)
<1>1. /\ u.info = [j \in R!Slots |-> IF r.info[j].time \in 0 .. ReadTimeout - 1
                                     THEN [r.info[j] EXCEPT !.time = @ + 1]
                                     ELSE r.info[j]]
      /\ u.used = r.used /\ u.mem = r.mem
      /\ u = [info |-> u.info, used |-> u.used, mem |-> u.mem]
  BY DEF R!AgeTable
<1> HIDE DEF u
<1>2. ASSUME NEW j \in R!Slots
      PROVE  /\ u.info[j] \in R!SlotType
             /\ u.info[j].id = r.info[j].id /\ u.info[j].start = r.info[j].start
             /\ u.info[j].size = r.info[j].size
             /\ u.info[j].bits = r.info[j].bits
  <2>1. r.info[j] \in R!SlotType
    BY ReadSlotParts
  <2>2. CASE r.info[j].time \in 0 .. ReadTimeout - 1
    <3>1. u.info[j] = [r.info[j] EXCEPT !.time = @ + 1]
      BY <1>1, <2>2
    <3>2. r.info[j].time + 1 \in R!Age
      BY <2>2, ConstantTypes DEF R!Age
    <3>3. QED
      BY <2>1, <3>1, <3>2 DEF R!SlotType
  <2>3. CASE r.info[j].time \notin 0 .. ReadTimeout - 1
    BY <1>1, <2>1, <2>3
  <2>4. QED
    BY <2>2, <2>3
<1>3. r \in Shelves
  BY DEF Shelf
<1>4. u \in Shelves
  BY <1>1, <1>2, <1>3 DEF Shelves
<1>5. R!Live(u) = R!Live(r) /\ \A j \in R!Live(r) : j \in R!Slots
  BY <1>2 DEF R!Live
<1>6. Shelf(u)
  <2>1. \A j \in R!Live(r) : r.info[j].bits \subseteq 0 .. WordBits - 1
    BY DEF Shelf
  <2>2. \A j \in R!Live(r) : /\ u.info[j].start = r.info[j].start
                             /\ u.info[j].size = r.info[j].size
                             /\ r.info[j].bits \subseteq u.info[j].bits
                             /\ u.info[j].bits \subseteq 0 .. WordBits - 1
    BY <1>2, <1>5, <2>1
  <2>3. u.used = r.used /\ R!Live(u) = R!Live(r)
    BY <1>1, <1>5
  <2>4. QED
    BY <1>4, <2>2, <2>3, SameShelf
<1>7. \A j \in R!Live(u) : Keeps(r, u, j)
  BY <1>1, <1>2, <1>5 DEF Keeps, R!Contents
<1>8. QED
  BY <1>5, <1>6, <1>7 DEF u

\* A packet gets the first free slot and the place behind all others.
LEMMA AllocateRead ==
    ASSUME NEW r, Shelf(r), NEW id \in PacketIds, NEW size \in Sizes \ {0},
           R!CanAllocate(r, size)
    PROVE  LET i == First(r, R!Slots, NoId)
               u == R!AllocateReadPacket(r, i, id, size, 0)
           IN  /\ Shelf(u)
               /\ i \in R!Slots \ R!Live(r)
               /\ R!Live(u) = R!Live(r) \union {i}
               /\ u.info[i].id = id /\ u.info[i].size = size
               /\ u.info[i].bits = R!InitialBits(size)
               /\ \A j \in R!Live(r) : Keeps(r, u, j)
<1> DEFINE i == First(r, R!Slots, NoId)
           u == R!AllocateReadPacket(r, i, id, size, 0)
           slot == [id |-> id, rev |-> 0, start |-> r.used, size |-> size,
                    bits |-> R!InitialBits(size), time |-> R!Untimed]
<1>1. i \in R!Slots \ R!Live(r)
  <2>1. \E j \in W!Slots : r.info[j].id = NoId
    BY ReadValues DEF R!CanAllocate, R!AvailableReadPackets, R!Live
  <2>2. QED
    BY <2>1, FirstSlot, ReadValues DEF R!Live
<1> HIDE DEF i
<1>2. /\ r.used \in Nat /\ size \in Nat /\ r.used + size <= R!BufferSize
      /\ ScratchSize <= r.used /\ ScratchSize \in Nat /\ R!BufferSize \in Nat
      /\ r.mem \in [R!Address -> W!Cell]
      /\ r.info \in [R!Slots -> R!SlotType]
  <2>1. size <= R!BufferSize - r.used
    BY DEF R!CanAllocate, R!AvailableReadPacketSize
  <2>2. /\ r.used \in Nat /\ ScratchSize <= r.used
        /\ r.mem \in [R!Address -> W!Cell]
        /\ r.info \in [R!Slots -> R!SlotType]
    BY <1>1, ReadSlotParts
  <2>3. size \in Nat /\ ScratchSize \in Nat /\ R!BufferSize \in Nat
    BY SectionFacts, ReadValues, ConstantTypes
  <2>4. r.used + size <= R!BufferSize
    BY <2>1, <2>2, <2>3
  <2>5. QED
    BY <2>2, <2>3, <2>4
<1>3. /\ u.info = [r.info EXCEPT ![i] = slot]
      /\ u.used = r.used + size /\ u.mem = r.mem
      /\ u = [info |-> u.info, used |-> u.used, mem |-> u.mem]
  BY DEF R!AllocateReadPacket
<1> HIDE DEF u
<1>4. slot \in R!SlotType
  <2>1. r.used \in R!Word
    <3>1. r.used < WordModulus
      BY <1>2, ReadValues, ConstantTypes
    <3>2. QED
      BY <1>2, <3>1, ReadValues
  <2>2. R!InitialBits(size) \in SUBSET Nat
    BY SectionFacts, ConstantTypes
  <2>3. id \in R!Ids /\ 0 \in R!Rev
    BY ReadValues
  <2>4. QED
    BY <1>2, <2>1, <2>2, <2>3 DEF R!SlotType, R!Untimed
<1>5. /\ u.info[i] = slot
      /\ \A j \in R!Slots \ {i} : u.info[j] = r.info[j]
  BY <1>1, <1>2, <1>3
<1>6. /\ u.info[i].id = id /\ u.info[i].start = r.used /\ u.info[i].size = size
      /\ u.info[i].bits = R!InitialBits(size)
  BY <1>5
<1> HIDE DEF slot
<1>7. u \in Shelves
  <2>1. u.info \in [R!Slots -> R!SlotType]
    BY <1>1, <1>2, <1>3, <1>4
  <2>2. u.used \in ScratchSize .. R!BufferSize
    BY <1>2, <1>3
  <2>3. QED
    BY <1>2, <1>3, <2>1, <2>2 DEF Shelves
<1>8. R!Live(u) = R!Live(r) \union {i}
  BY <1>1, <1>5, <1>6, ConstantTypes DEF R!Live
<1>9. \A j \in R!Live(r) : u.info[j] = r.info[j] /\ j # i
  BY <1>1, <1>5 DEF R!Live
<1>10. \A j \in R!Live(r) :
          /\ r.info[j].start \in Nat /\ r.info[j].size \in Nat
          /\ r.info[j].start + r.info[j].size <= r.used
  BY ReadPlaces, ReadSlotParts
<1>11. ASSUME NEW j \in R!Live(u)
       PROVE  /\ ScratchSize <= u.info[j].start
              /\ u.info[j].start + u.info[j].size <= u.used
              /\ u.info[j].size \in Sizes \ {0}
              /\ R!InitialBits(u.info[j].size) \subseteq u.info[j].bits
              /\ u.info[j].bits \subseteq 0 .. WordBits - 1
  <2>1. CASE j = i
    <3>1. R!InitialBits(size) \subseteq 0 .. WordBits - 1
      BY SectionFacts
    <3>2. u.info[j].start + u.info[j].size <= u.used
      BY <1>2, <1>3, <1>6, <2>1
    <3>3. QED
      BY <1>2, <1>6, <2>1, <3>1, <3>2
  <2>2. CASE j \in R!Live(r)
    <3>1. u.info[j].start + u.info[j].size <= u.used
      BY <1>2, <1>3, <1>9, <1>10, <2>2
    <3>2. QED
      BY <1>9, <2>2, <3>1 DEF Shelf
  <2>3. QED
    BY <1>8, <2>1, <2>2
<1>12. ASSUME NEW j \in R!Live(u), NEW k \in R!Live(u), j # k
       PROVE  \/ u.info[j].start + u.info[j].size <= u.info[k].start
              \/ u.info[k].start + u.info[k].size <= u.info[j].start
  <2>1. CASE j \in R!Live(r) /\ k \in R!Live(r)
    BY <1>9, <1>12, <2>1 DEF Shelf, R!RegionsDisjoint
  <2>2. CASE j = i \/ k = i
    BY <1>6, <1>8, <1>9, <1>10, <1>12, <2>2
  <2>3. QED
    BY <1>8, <2>1, <2>2
<1>13. Shelf(u)
  BY <1>7, <1>11, <1>12 DEF Shelf, R!RegionsDisjoint
<1>14. \A j \in R!Live(r) : Keeps(r, u, j)
  BY <1>3, <1>9 DEF Keeps, R!Contents
<1>15. QED
  BY <1>1, <1>6, <1>8, <1>13, <1>14 DEF u, i

\* Where a section of the packet in slot i is written: its units and no others.
LEMMA WrittenUnits ==
    ASSUME NEW r, Shelf(r), NEW i \in R!Live(r), NEW k \in Nat
    PROVE  /\ k * SectionSize \in Nat
           /\ R!SectionOffset(k) = k * SectionSize
           /\ \A c \in 1 .. r.info[i].size :
                 /\ r.info[i].start + c - 1 \in R!SectionRange(r.info[i], k)
                      <=> InSection(c, k)
                 /\ (r.info[i].start + c - 1) - (r.info[i].start + k * SectionSize)
                      = c - 1 - k * SectionSize
           /\ \A a \in R!SectionRange(r.info[i], k) :
                 /\ r.info[i].start <= a
                 /\ a < r.info[i].start + r.info[i].size
                 /\ a \in Nat
<1> DEFINE start == r.info[i].start
           size == r.info[i].size
           off == k * SectionSize
<1>1. /\ start \in Nat /\ size \in Nat \ {0}
      /\ SectionSize \in Nat \ {0} /\ off \in Nat
  BY ReadPlaces, ReadSlotParts, ConstantTypes
<1>2. R!SectionOffset(k) = off
  BY DEF R!SectionOffset
<1> DEFINE len == R!SectionLength(k, size)
<1>3. /\ len = IF SectionSize < size - off THEN SectionSize ELSE size - off
      /\ R!SectionRange(r.info[i], k) = (start + off) .. (start + off) + len - 1
  BY <1>2 DEF R!SectionLength, R!SectionRange
<1>4. \A c \in 1 .. size : InSection(c, k) <=> off < c /\ c <= off + SectionSize
  BY DEF InSection
<1> HIDE DEF start, size, off, len
<1>a. len \in Int /\ len <= SectionSize /\ len <= size - off
  BY <1>1, <1>3
<1>5. ASSUME NEW c \in 1 .. size
      PROVE  /\ start + c - 1 \in (start + off) .. (start + off) + len - 1
                  <=> off < c /\ c <= off + SectionSize
             /\ (start + c - 1) - (start + off) = c - 1 - off
  <2>1. start + c - 1 \in (start + off) .. (start + off) + len - 1
                  <=> off < c /\ c <= off + len
    BY <1>1, <1>a
  <2>2. CASE SectionSize < size - off
    BY <1>1, <1>3, <2>1, <2>2
  <2>3. CASE ~ (SectionSize < size - off)
    <3>1. len = size - off
      BY <1>3, <2>3
    <3>2. off + len = size /\ size <= off + SectionSize
      BY <1>1, <2>3, <3>1
    <3>3. c <= off + len /\ c <= off + SectionSize
      BY <1>1, <3>2
    <3>4. QED
      BY <1>1, <2>1, <3>3
  <2>4. QED
    BY <2>2, <2>3
<1>6. ASSUME NEW a \in (start + off) .. (start + off) + len - 1
      PROVE  start <= a /\ a < start + size /\ a \in Nat
  BY <1>1, <1>a
<1>7. QED
  BY <1>1, <1>2, <1>3, <1>4, <1>5, <1>6 DEF start, size, off

\* receivedSection: the section is in its place, the rest as it was.
LEMMA StoreRead ==
    ASSUME NEW r, Shelf(r), NEW i \in R!Live(r), NEW d,
           d.index \in 0 .. WordBits - 1, d.rev = 0, d.data \in Data
    PROVE  LET u == Stored(r, i, d)
               off == d.index * SectionSize
           IN  /\ Shelf(u)
               /\ R!Live(u) = R!Live(r)
               /\ u.info[i].id = r.info[i].id /\ u.info[i].size = r.info[i].size
               /\ u.info[i].bits = r.info[i].bits \union {d.index}
               /\ R!Contents(u, i) \in Data
               /\ Len(R!Contents(u, i)) = r.info[i].size
               /\ \A c \in 1 .. r.info[i].size :
                     /\ ~InSection(c, d.index) =>
                           R!Contents(u, i)[c] = R!Contents(r, i)[c]
                     /\ InSection(c, d.index) /\ c - off <= Len(d.data) =>
                           R!Contents(u, i)[c] = d.data[c - off]
               /\ \A j \in R!Live(r) \ {i} : Keeps(r, u, j)
<1> DEFINE u == Stored(r, i, d)
           off == d.index * SectionSize
           range == R!SectionRange(r.info[i], d.index)
           slot == [r.info[i] EXCEPT !.bits = @ \union {d.index}, !.time = 0]
           first == r.info[i].start + R!SectionOffset(d.index)
<1>1. /\ i \in R!Slots /\ d.index \in Nat /\ off \in Nat
      /\ first = r.info[i].start + off
      /\ r.info[i] \in R!SlotType /\ r.info \in [R!Slots -> R!SlotType]
      /\ r.info[i].start \in Nat /\ r.info[i].size \in Nat
      /\ r.mem \in [R!Address -> W!Cell]
      /\ r \in Shelves
  <2>1. i \in R!Slots /\ d.index \in Nat
    BY ReadPlaces, ConstantTypes
  <2>2. off \in Nat /\ R!SectionOffset(d.index) = off
    BY <2>1, WrittenUnits
  <2>3. QED
    BY <2>1, <2>2, ReadSlotParts DEF Shelf
<1>2. /\ u.info = [r.info EXCEPT ![i] = slot]
      /\ u.used = r.used
      /\ u.mem = [a \in R!Address |->
                    IF a \in range
                    THEN IF a - first < Len(d.data) THEN d.data[a - first + 1] ELSE Junk
                    ELSE r.mem[a]]
      /\ u = [info |-> u.info, used |-> u.used, mem |-> u.mem]
  <2> DEFINE b == R!StoreSection(r, i, Junk, d.index, d.rev)
             m == [a \in R!Address |->
                     IF a \in range
                     THEN IF a - first < Len(d.data) THEN d.data[a - first + 1] ELSE Junk
                     ELSE r.mem[a]]
  <2>1. u = [b EXCEPT !.mem = m]
    BY DEF Stored
  <2>2. b = [info |-> [r.info EXCEPT ![i] = slot], used |-> r.used, mem |-> b.mem]
    BY DEF R!StoreSection
  <2> HIDE DEF b, u, slot
  <2>3. u = [info |-> [r.info EXCEPT ![i] = slot], used |-> r.used, mem |-> m]
    <3> HIDE DEF m
    <3>1. QED
      BY <2>1, <2>2
  <2>4. QED
    BY <2>3
<1> HIDE DEF u, range, slot, first, off
<1>a. \A a \in R!Address :
         u.mem[a] = IF a \in range
                    THEN IF a - first < Len(d.data) THEN d.data[a - first + 1] ELSE Junk
                    ELSE r.mem[a]
  BY <1>2
<1>b. /\ \A c \in 1 .. r.info[i].size :
            /\ r.info[i].start + c - 1 \in range <=> InSection(c, d.index)
            /\ (r.info[i].start + c - 1) - first = c - 1 - off
            /\ r.info[i].start + c - 1 \in R!Address
      /\ \A a \in range : /\ r.info[i].start <= a
                          /\ a < r.info[i].start + r.info[i].size
                          /\ a \in Nat
      /\ \A a \in range : a - first \in Nat
  <2>1. /\ \A c \in 1 .. r.info[i].size :
            /\ r.info[i].start + c - 1 \in range <=> InSection(c, d.index)
            /\ (r.info[i].start + c - 1) - (r.info[i].start + off) = c - 1 - off
        /\ \A a \in range : /\ r.info[i].start <= a
                            /\ a < r.info[i].start + r.info[i].size
                            /\ a \in Nat
    BY <1>1, WrittenUnits DEF range, off
  <2>2. \A c \in 1 .. r.info[i].size : r.info[i].start + c - 1 \in R!Address
    BY ReadPlaces
  <2>3. \A a \in range : a \in Nat /\ first <= a /\ first \in Nat
    <3>1. range = first .. first + R!SectionLength(d.index, r.info[i].size) - 1
      BY DEF range, first, R!SectionRange
    <3>2. QED
      BY <1>1, <2>1, <3>1
  <2>4. QED
    BY <1>1, <2>1, <2>2, <2>3
<1>3. /\ u.info[i] = slot
      /\ \A j \in R!Slots \ {i} : u.info[j] = r.info[j]
  BY <1>1, <1>2
<1>4. /\ slot \in R!SlotType
      /\ slot.id = r.info[i].id /\ slot.start = r.info[i].start
      /\ slot.size = r.info[i].size /\ slot.bits = r.info[i].bits \union {d.index}
  <2>1. /\ r.info[i].bits \in SUBSET Nat /\ 0 \in R!Age
        /\ r.info[i].bits \union {d.index} \in SUBSET Nat
    <3>1. r.info[i].bits \in SUBSET Nat
      BY <1>1, ReadSlotParts
    <3>2. 0 \in R!Age
      BY ConstantTypes DEF R!Age
    <3>3. d.index \in Nat
      BY <1>1
    <3>4. QED
      BY <3>1, <3>2, <3>3
  <2>2. slot = [r.info[i] EXCEPT !.bits = r.info[i].bits \union {d.index}, !.time = 0]
    BY DEF slot
  <2> DEFINE bits == r.info[i].bits \union {d.index}
  <2>3. bits \in SUBSET Nat /\ slot = [r.info[i] EXCEPT !.bits = bits, !.time = 0]
    BY <2>1, <2>2
  <2> HIDE DEF bits
  <2>4. /\ slot \in R!SlotType /\ slot.id = r.info[i].id
        /\ slot.start = r.info[i].start /\ slot.size = r.info[i].size
        /\ slot.bits = bits
    BY <1>1, <2>1, <2>3 DEF R!SlotType
  <2>5. QED
    BY <2>4 DEF bits
<1>5. u.mem \in [R!Address -> W!Cell]
  <2>1. ASSUME NEW a \in R!Address PROVE u.mem[a] \in W!Cell
    <3>1. CASE a \in range /\ a - first < Len(d.data)
      <4>1. a - first + 1 \in 1 .. Len(d.data)
        BY <1>b, <3>1 DEF Data
      <4>2. d.data[a - first + 1] \in W!Cell
        BY <4>1 DEF Data
      <4>3. QED
        BY <1>a, <3>1, <4>2
    <3>2. CASE a \in range /\ ~ (a - first < Len(d.data))
      BY <1>a, <3>2 DEF W!Cell
    <3>3. CASE a \notin range
      BY <1>1, <1>a, <3>3
    <3>4. QED
      BY <3>1, <3>2, <3>3
  <2>2. u.mem = [a \in R!Address |-> u.mem[a]]
    BY <1>2
  <2>3. QED
    BY <2>1, <2>2
<1>6. u \in Shelves
  <2>1. u.info \in [R!Slots -> R!SlotType]
    BY <1>1, <1>2, <1>4
  <2>2. QED
    BY <1>1, <1>2, <1>5, <2>1 DEF Shelves
<1>7. R!Live(u) = R!Live(r) /\ \A j \in R!Live(r) : j \in R!Slots
  BY <1>1, <1>3, <1>4 DEF R!Live
<1>8. Shelf(u)
  <2>1. \A j \in R!Live(r) : r.info[j].bits \subseteq 0 .. WordBits - 1
    BY DEF Shelf
  <2>2. \A j \in R!Live(r) : /\ u.info[j].start = r.info[j].start
                             /\ u.info[j].size = r.info[j].size
                             /\ r.info[j].bits \subseteq u.info[j].bits
                             /\ u.info[j].bits \subseteq 0 .. WordBits - 1
    <3> TAKE j \in R!Live(r)
    <3>1. CASE j = i
      BY <1>3, <1>4, <2>1, <3>1
    <3>2. CASE j # i
      BY <1>3, <1>7, <2>1, <3>2
    <3>3. QED
      BY <3>1, <3>2
  <2>3. QED
    BY <1>2, <1>6, <1>7, <2>2, SameShelf
<1>9. /\ u.info[i].id = r.info[i].id /\ u.info[i].start = r.info[i].start
      /\ u.info[i].size = r.info[i].size
      /\ u.info[i].bits = r.info[i].bits \union {d.index}
  BY <1>3, <1>4
<1>10. R!Contents(u, i) = [c \in 1 .. r.info[i].size |-> u.mem[r.info[i].start + c - 1]]
       /\ R!Contents(r, i) = [c \in 1 .. r.info[i].size |-> r.mem[r.info[i].start + c - 1]]
  BY <1>9 DEF R!Contents
<1>11. ASSUME NEW c \in 1 .. r.info[i].size
       PROVE  /\ R!Contents(u, i)[c] \in W!Cell
              /\ ~InSection(c, d.index) => R!Contents(u, i)[c] = R!Contents(r, i)[c]
              /\ InSection(c, d.index) /\ c - off <= Len(d.data) =>
                    R!Contents(u, i)[c] = d.data[c - off]
  <2> DEFINE a == r.info[i].start + c - 1
  <2>1. /\ a \in range <=> InSection(c, d.index)
        /\ a - first = c - 1 - off /\ a \in R!Address
    BY <1>b
  <2>2. R!Contents(u, i)[c] = u.mem[a] /\ R!Contents(r, i)[c] = r.mem[a]
    BY <1>10
  <2>3. c \in Nat /\ Len(d.data) \in Nat /\ (c - 1 - off) + 1 = c - off
        /\ (c - 1 - off < Len(d.data) <=> c - off <= Len(d.data))
    BY <1>1 DEF Data
  <2> HIDE DEF a
  <2>4. u.mem[a] \in W!Cell
    BY <1>5, <2>1
  <2>5. ASSUME InSection(c, d.index), c - off <= Len(d.data)
        PROVE  u.mem[a] = d.data[c - off]
    BY <1>a, <2>1, <2>3, <2>5
  <2>6. ASSUME ~InSection(c, d.index) PROVE u.mem[a] = r.mem[a]
    BY <1>a, <2>1, <2>6
  <2>7. QED
    BY <2>2, <2>4, <2>5, <2>6
<1>12. R!Contents(u, i) \in Data /\ Len(R!Contents(u, i)) = r.info[i].size
  <2>1. R!Contents(u, i) \in [1 .. r.info[i].size -> W!Cell]
    BY <1>10, <1>11
  <2>2. QED
    BY <1>1, <2>1 DEF Data
<1>13. ASSUME NEW j \in R!Live(r) \ {i} PROVE Keeps(r, u, j)
  <2>1. /\ j \in R!Slots \ {i} /\ u.info[j] = r.info[j]
        /\ r.info[j].start \in Nat /\ r.info[j].size \in Nat
        /\ \A c \in 1 .. r.info[j].size : r.info[j].start + c - 1 \in R!Address
        /\ \/ r.info[i].start + r.info[i].size <= r.info[j].start
           \/ r.info[j].start + r.info[j].size <= r.info[i].start
    <3>1. j \in R!Slots \ {i}
      BY <1>7
    <3>2. QED
      BY <1>3, <3>1, ReadPlaces, ReadSlotParts
  <2>2. ASSUME NEW c \in 1 .. r.info[j].size
        PROVE  u.mem[r.info[j].start + c - 1] = r.mem[r.info[j].start + c - 1]
    <3> DEFINE a == r.info[j].start + c - 1
    <3>1. a \in R!Address
      BY <2>1
    <3>2. a \notin range
      <4>1. ~ (r.info[i].start <= a /\ a < r.info[i].start + r.info[i].size)
        BY <1>1, <2>1
      <4> HIDE DEF a
      <4>2. QED
        BY <1>b, <4>1
    <3> HIDE DEF a
    <3>3. u.mem[a] = r.mem[a]
      BY <1>a, <3>1, <3>2
    <3>4. QED
      BY <3>3 DEF a
  <2>3. R!Contents(u, j) = R!Contents(r, j)
    BY <2>1, <2>2 DEF R!Contents
  <2>4. QED
    BY <2>1, <2>3 DEF Keeps
<1>14. QED
  BY <1>7, <1>8, <1>9, <1>11, <1>12, <1>13 DEF u, off

\* The expiry loop of a read table.
RIsExpired(s) == s.id # NoId /\ s.time = ReadTimeout

RTurn(t, n) == IF RIsExpired(t.info[n])
               THEN R!FreeReadPacket(t, First(t, R!Slots, t.info[n].id))
               ELSE t

\* RExpiring is its turns: the function it is defined by exists.
LEMMA RExpiringTurns ==
    ASSUME NEW r
    PROVE  /\ RExpiring(r)[0] = r
           /\ \A n \in 1 .. MaxPackets :
                 RExpiring(r)[n] = RTurn(RExpiring(r)[n - 1], n - 1)
<1> DEFINE Loop(f, n) == f = [m \in 0 .. n |-> IF m = 0 THEN r ELSE RTurn(f[m - 1], m - 1)]
           S == { n \in Nat : \E f : Loop(f, n) }
<1>1. 0 \in S
  <2>1. Loop([m \in 0 .. 0 |-> r], 0)
    OBVIOUS
  <2>2. QED
    BY <2>1
<1>2. ASSUME NEW k \in Nat, k \in S PROVE k + 1 \in S
  <2>1. PICK f : Loop(f, k)
    BY <1>2
  <2> DEFINE g == [m \in 0 .. k + 1 |-> IF m <= k THEN f[m] ELSE RTurn(f[k], k)]
  <2>2. ASSUME NEW m \in 0 .. k + 1
        PROVE  g[m] = IF m = 0 THEN r ELSE RTurn(g[m - 1], m - 1)
    <3>1. CASE m = 0
      <4>1. 0 <= k /\ 0 \in 0 .. k
        OBVIOUS
      <4>2. f[0] = r
        BY <2>1, <4>1
      <4>3. QED
        BY <3>1, <4>1, <4>2
    <3>2. CASE m # 0 /\ m <= k
      <4>1. m \in 0 .. k /\ m - 1 \in 0 .. k + 1 /\ m - 1 <= k
        BY <3>2
      <4>2. f[m] = RTurn(f[m - 1], m - 1)
        BY <2>1, <3>2, <4>1
      <4>3. QED
        BY <3>2, <4>1, <4>2
    <3>3. CASE m = k + 1
      <4>1. ~ (m <= k) /\ m - 1 = k /\ k \in 0 .. k + 1 /\ k <= k /\ m # 0
        BY <3>3
      <4>2. QED
        BY <4>1
    <3>4. QED
      BY <3>1, <3>2, <3>3
  <2>3. Loop(g, k + 1)
    <3>1. g = [m \in 0 .. k + 1 |-> g[m]]
      OBVIOUS
    <3> HIDE DEF g
    <3>2. QED
      BY <2>2, <3>1
  <2> HIDE DEF Loop, g
  <2>4. QED
    BY <2>3
<1>3. MaxPackets \in S
  <2> HIDE DEF S
  <2>1. \A k \in Nat : k < MaxPackets /\ k \in S => k + 1 \in S
    BY <1>2
  <2>2. MaxPackets \in Nat /\ MaxPackets \in 0 .. MaxPackets
    BY ConstantTypes
  <2>3. \A k \in 0 .. MaxPackets : k \in S
    BY <1>1, <2>1, <2>2, CountUp
  <2>4. QED
    BY <2>2, <2>3
<1>4. \E f : Loop(f, MaxPackets)
  BY <1>3
<1>5. Loop(RExpiring(r), MaxPackets)
  BY <1>4 DEF RExpiring, RTurn, RIsExpired
<1>6. QED
  <2>1. \A n \in 1 .. MaxPackets : n \in 0 .. MaxPackets /\ n # 0
    BY ConstantTypes
  <2>2. 0 \in 0 .. MaxPackets
    BY ConstantTypes
  <2>3. QED
    BY <1>5, <2>1, <2>2

\* The slots of u are slots of r, with the same packets.
Spares(r, u) ==
    /\ Shelf(u)
    /\ R!Live(u) \subseteq R!Live(r)
    /\ \A j \in R!Live(u) : Keeps(r, u, j)

\* Freeing twice only frees.
LEMMA SparesStep ==
    ASSUME NEW r, NEW t, NEW u, Spares(r, t), Spares(t, u)
    PROVE  Spares(r, u)
  BY DEF Spares, Keeps

\* A slot in use is found by its id, or another with that id is.
LEMMA FirstLive ==
    ASSUME NEW r, NEW n \in R!Live(r)
    PROVE  LET i == First(r, R!Slots, r.info[n].id)
           IN  i \in R!Live(r) /\ r.info[i].id = r.info[n].id
<1> DEFINE id == r.info[n].id
           i  == First(r, R!Slots, id)
<1>1. n \in W!Slots /\ id # NoId
  BY ReadValues DEF R!Live
<1>2. i \in R!Slots /\ r.info[i].id = id
  <2>1. \E j \in W!Slots : r.info[j].id = id
    BY <1>1
  <2> HIDE DEF id
  <2>2. QED
    BY <2>1, FirstSlot, ReadValues
<1>3. QED
  BY <1>1, <1>2 DEF R!Live

\* The expiry loop of the read table only frees.
LEMMA ExpireRead ==
    ASSUME NEW r, Shelf(r)
    PROVE  Spares(r, RExpiring(r)[MaxPackets])
<1> DEFINE f == RExpiring(r)
           S == { n \in Nat : n <= MaxPackets => Spares(r, f[n]) }
<1>1. /\ f[0] = r
      /\ \A n \in 1 .. MaxPackets : f[n] = RTurn(f[n - 1], n - 1)
  BY RExpiringTurns
<1> HIDE DEF f
<1>2. 0 \in S
  BY <1>1 DEF Spares, Keeps
<1>3. ASSUME NEW k \in Nat, k < MaxPackets, k \in S PROVE k + 1 \in S
  <2> DEFINE t == f[k]
             u == f[k + 1]
  <2>1. Spares(r, t) /\ Shelf(t)
    BY <1>3, ConstantTypes DEF Spares
  <2>2. u = RTurn(t, k) /\ k \in R!Slots
    <3>1. k + 1 \in 1 .. MaxPackets /\ (k + 1) - 1 = k /\ k \in 0 .. MaxPackets - 1
      BY <1>3, ConstantTypes
    <3>2. QED
      BY <1>1, <3>1, ReadValues
  <2> HIDE DEF t, u
  <2>3. Spares(r, u)
    <3>1. CASE ~RIsExpired(t.info[k])
      BY <2>1, <2>2, <3>1 DEF RTurn
    <3>2. CASE RIsExpired(t.info[k])
      <4>1. k \in R!Live(t)
        BY <2>2, <3>2 DEF RIsExpired, R!Live
      <4> DEFINE i == First(t, R!Slots, t.info[k].id)
      <4>2. u = R!FreeReadPacket(t, i) /\ i \in R!Live(t)
        BY <2>2, <3>2, <4>1, FirstLive DEF RTurn
      <4> HIDE DEF i
      <4>3. Spares(t, u)
        BY <2>1, <4>2, FreeRead DEF Spares
      <4>4. QED
        BY <2>1, <4>3, SparesStep
    <3>3. QED
      BY <3>1, <3>2
  <2>4. QED
    BY <1>3, <2>3, ConstantTypes DEF u
<1>4. QED
  <2> HIDE DEF S
  <2>1. \A k \in Nat : k < MaxPackets /\ k \in S => k + 1 \in S
    BY <1>3
  <2>2. MaxPackets \in Nat /\ MaxPackets \in 0 .. MaxPackets
    BY ConstantTypes
  <2>3. \A k \in 0 .. MaxPackets : k \in S
    BY <1>2, <2>1, <2>2, CountUp
  <2>4. MaxPackets \in S /\ MaxPackets <= MaxPackets
    BY <2>2, <2>3
  <2>5. QED
    BY <2>4 DEF S, f

\* The tables a PacketHandler is constructed with.
LEMMA EmptyTables ==
    /\ WP!TableInv(W!EmptyTable) /\ W!Live(W!EmptyTable) = {}
    /\ Shelf(R!EmptyTable) /\ R!Live(R!EmptyTable) = {}
<1>1. WP!TableInv(W!EmptyTable)
  BY SameValues, WP!EmptyTableInv, WTable, WFormat, WBuffer
<1>2. W!Live(W!EmptyTable) = {}
  BY DEF W!Live, W!EmptyTable, W!FreeSlot
<1>3. R!Live(R!EmptyTable) = {}
  BY DEF R!Live, R!EmptyTable, R!FreeSlot
<1>4. R!EmptyTable \in Shelves
  <2>1. ScratchSize \in ScratchSize .. R!BufferSize
    BY ConstantTypes DEF R!BufferSize
  <2>2. Junk \in W!Cell
    BY DEF W!Cell
  <2>3. QED
    BY <2>1, <2>2, ReadValues DEF R!EmptyTable, Shelves
<1>5. QED
  BY <1>1, <1>2, <1>3, <1>4 DEF Shelf, R!RegionsDisjoint

-----------------------------------------------------------------------------
(***************************************************************************)
(* The books only grow, and what they say of tables and datagrams stays    *)
(* true: new contents under an id that had some make it a reused one.      *)
(***************************************************************************)
Grows(book, new) ==
    \A h \in Handlers :
        /\ book.reused[h] \subseteq new.reused[h]
        /\ book.calls[h] \subseteq new.calls[h]
        /\ \A x \in PacketIds :
              /\ book.said[h][x] \subseteq new.said[h][x]
              /\ \/ new.said[h][x] = book.said[h][x]
                 \/ book.said[h][x] = {}
                 \/ x \in new.reused[h]

\* The other side of a handler is the other handler.
LEMMA OtherType ==
    ASSUME NEW h \in Handlers
    PROVE  Other(h) \in Handlers /\ Other(Other(h)) = h
  BY DEF Handlers, Other

\* What an acknowledgement tells stays true as the books grow ...
LEMMA AcknowledgedGrows ==
    ASSUME NEW book, NEW new, Grows(book, new), NEW h \in Handlers,
           NEW x \in PacketIds, Acknowledged(book, h, x)
    PROVE  Acknowledged(new, h, x)
<1>1. book.said[h][x] # {} /\ book.said[h][x] \subseteq new.said[h][x]
  BY DEF Acknowledged, Grows
<1>2. ASSUME x \notin new.reused[h], NEW P \in new.said[h][x], Len(P) <= SectionSize
      PROVE  P \in new.calls[Other(h)]
  <2>1. new.said[h][x] = book.said[h][x] /\ x \notin book.reused[h]
    BY <1>1, <1>2 DEF Grows
  <2>2. P \in book.calls[Other(h)]
    BY <1>2, <2>1 DEF Acknowledged
  <2>3. QED
    BY <2>2, OtherType DEF Grows
<1>3. QED
  BY <1>1, <1>2 DEF Acknowledged

\* Slot j of table u holds what slot i of w holds.
LEMMA WriteSlotGrows ==
    ASSUME NEW book, NEW new, Grows(book, new), NEW h \in Handlers,
           NEW w, NEW u, WP!TableInv(w), NEW i \in W!Live(w),
           SameSlot(w, u, i), WriteSlotInv(book, h, w, i),
           \/ u.info[i].time = w.info[i].time
           \/ u.info[i].time = W!Untimed
           \/ w.info[i].time # W!Untimed
           \/ Acknowledged(book, h, w.info[i].id)
    PROVE  WriteSlotInv(new, h, u, i)
<1>1. w.info[i].id \in PacketIds /\ Other(h) \in Handlers
  BY WriteSlotParts, OtherType DEF W!Live
<1>2. /\ u.info[i].type = w.info[i].type /\ u.info[i].id = w.info[i].id
      /\ u.info[i].to = w.info[i].to
      /\ w.info[i].type = "Normal" => Held(u, i) = Held(w, i)
  BY DEF SameSlot
<1>3. ASSUME w.info[i].type = "Normal"
      PROVE  /\ Held(u, i) \in new.said[h][u.info[i].id]
             /\ u.info[i].time # W!Untimed => Acknowledged(new, h, u.info[i].id)
  <2>1. Held(w, i) \in book.said[h][w.info[i].id]
    BY <1>3 DEF WriteSlotInv
  <2>2. Held(u, i) \in new.said[h][u.info[i].id]
    BY <1>1, <1>2, <1>3, <2>1 DEF Grows
  <2>3. ASSUME u.info[i].time # W!Untimed PROVE Acknowledged(book, h, w.info[i].id)
    BY <1>3, <2>3 DEF WriteSlotInv
  <2>4. QED
    BY <1>1, <1>2, <2>2, <2>3, AcknowledgedGrows
<1>4. ASSUME w.info[i].type # "Normal"
      PROVE  new.said[Other(h)][u.info[i].id] # {}
  <2>1. book.said[Other(h)][w.info[i].id] # {}
    BY <1>4 DEF WriteSlotInv
  <2>2. QED
    BY <1>1, <1>2, <2>1 DEF Grows
<1>5. ASSUME w.info[i].type = "Acknowledge"
      PROVE  Acknowledged(new, Other(h), u.info[i].id)
  <2>1. Acknowledged(book, Other(h), w.info[i].id)
    BY <1>5 DEF WriteSlotInv
  <2>2. QED
    BY <1>1, <1>2, <2>1, AcknowledgedGrows
<1>6. u.info[i].to = Other(h)
  BY <1>2 DEF WriteSlotInv
<1>7. QED
  BY <1>2, <1>3, <1>4, <1>5, <1>6 DEF WriteSlotInv

\* ... what a read slot holds too ...
LEMMA ReadSlotGrows ==
    ASSUME NEW book, NEW new, Grows(book, new), NEW h \in Handlers,
           NEW r, NEW u, Shelf(r), NEW i \in R!Live(r),
           Keeps(r, u, i), ReadSlotInv(book, h, r, i)
    PROVE  ReadSlotInv(new, h, u, i)
<1> DEFINE id == r.info[i].id
           from == book.said[Other(h)][id]
           size == r.info[i].size
           bits == r.info[i].bits
           data == R!Contents(r, i)
<1>1. id \in PacketIds /\ Other(h) \in Handlers
  BY ReadPlaces, OtherType
<1>2. /\ u.info[i].id = id /\ u.info[i].size = size /\ u.info[i].bits = bits
      /\ R!Contents(u, i) = data
  BY DEF Keeps
<1>3. /\ from # {}
      /\ 0 \in bits => \E P \in from : P # << >> /\ data[1] = P[1]
      /\ id \notin book.reused[Other(h)] =>
              \A P \in from :
                 /\ Len(P) = size
                 /\ \A k \in bits : \A c \in 1 .. size :
                       InSection(c, k) => data[c] = P[c]
  BY DEF ReadSlotInv
<1>4. /\ from \subseteq new.said[Other(h)][id]
      /\ book.reused[Other(h)] \subseteq new.reused[Other(h)]
      /\ id \notin new.reused[Other(h)] => new.said[Other(h)][id] = from
  BY <1>1, <1>3 DEF Grows
<1> HIDE DEF id, from, size, bits, data
<1>5. 0 \in bits => \E P \in new.said[Other(h)][id] : P # << >> /\ data[1] = P[1]
  BY <1>3, <1>4
<1>6. new.said[Other(h)][id] # {}
  BY <1>3, <1>4
<1>7. ASSUME id \notin new.reused[Other(h)], NEW P \in new.said[Other(h)][id]
      PROVE  /\ Len(P) = size
             /\ \A k \in bits : \A c \in 1 .. size :
                   InSection(c, k) => data[c] = P[c]
  <2>1. id \notin book.reused[Other(h)] /\ P \in from
    BY <1>4, <1>7
  <2>2. QED
    BY <1>3, <2>1
<1>8. QED
  BY <1>2, <1>5, <1>6, <1>7 DEF ReadSlotInv

\* ... and what a datagram carries.
LEMMA DatagramGrows ==
    ASSUME NEW book, NEW new, Grows(book, new), NEW d, DatagramInv(book, d)
    PROVE  DatagramInv(new, d)
<1>1. d.to \in Handlers /\ Other(d.to) \in Handlers /\ d.id \in PacketIds
  BY OtherType DEF DatagramInv
<1>2. book.said[d.to][d.id] \subseteq new.said[d.to][d.id]
      /\ book.said[Other(d.to)][d.id] \subseteq new.said[Other(d.to)][d.id]
  BY <1>1 DEF Grows
<1>3. d.type = "Acknowledge" => Acknowledged(new, d.to, d.id)
  BY <1>1, AcknowledgedGrows DEF DatagramInv
<1>4. QED
  BY <1>1, <1>2, <1>3 DEF DatagramInv

\* Books that stay, and books that grow twice, have grown.
LEMMA SameGrows == ASSUME NEW book PROVE Grows(book, book)
  BY DEF Grows

LEMMA GrowsStep ==
    ASSUME NEW a, NEW b, NEW c, Grows(a, b), Grows(b, c)
    PROVE  Grows(a, c)
<1> SUFFICES ASSUME NEW h \in Handlers, NEW x \in PacketIds
             PROVE  /\ a.reused[h] \subseteq c.reused[h]
                    /\ a.calls[h] \subseteq c.calls[h]
                    /\ a.said[h][x] \subseteq c.said[h][x]
                    /\ \/ c.said[h][x] = a.said[h][x]
                       \/ a.said[h][x] = {}
                       \/ x \in c.reused[h]
  BY DEF Grows
<1>1. /\ a.reused[h] \subseteq b.reused[h] /\ b.reused[h] \subseteq c.reused[h]
      /\ a.calls[h] \subseteq b.calls[h] /\ b.calls[h] \subseteq c.calls[h]
      /\ a.said[h][x] \subseteq b.said[h][x] /\ b.said[h][x] \subseteq c.said[h][x]
      /\ b.said[h][x] = a.said[h][x] \/ a.said[h][x] = {} \/ x \in b.reused[h]
      /\ c.said[h][x] = b.said[h][x] \/ b.said[h][x] = {} \/ x \in c.reused[h]
  BY DEF Grows
<1>2. QED
  BY <1>1

(***************************************************************************)
(* Entries of the books.                                                   *)
(***************************************************************************)

\* main has sent a line under this id, or none.
Line(b, id) == [said |-> b.said, drawn |-> b.drawn, reused |-> b.reused,
                typed |-> Append(b.typed, id), calls |-> b.calls]

\* h has sent data under a freshly drawn id.
Say(b, h, id, data) ==
    [said   |-> [g \in Handlers |-> [x \in PacketIds |->
                   IF g = h /\ x = id THEN b.said[g][x] \union {data}
                                      ELSE b.said[g][x]]],
     drawn  |-> [b.drawn EXCEPT ![h] = @ \union {id}],
     reused |-> [b.reused EXCEPT ![h] = @ \union ({id} \intersect b.drawn[h])],
     typed  |-> b.typed,
     calls  |-> b.calls]

\* The callback of h has been called with data.
Call(b, h, data) == [said |-> b.said, drawn |-> b.drawn, reused |-> b.reused,
                     typed |-> b.typed,
                     calls |-> [b.calls EXCEPT ![h] = @ \union {data}]]

\* The types of the books, one by one.
LEMMA BookParts ==
    ASSUME NEW b \in Books
    PROVE  /\ b.said \in [Handlers -> [PacketIds -> SUBSET Data]]
           /\ b.drawn \in [Handlers -> SUBSET PacketIds]
           /\ b.reused \in [Handlers -> SUBSET PacketIds]
           /\ b.typed \in Seq(PacketIds \union {NoId})
           /\ b.calls \in [Handlers -> SUBSET Data]
  BY DEF Books

\* Each entry keeps the books consistent and grows them: a line,
LEMMA LineEntry ==
    ASSUME NEW b, Consistent(b), NEW id \in PacketIds \union {NoId}
    PROVE  Consistent(Line(b, id)) /\ Grows(b, Line(b, id))
<1> DEFINE c == Line(b, id)
<1>1. /\ c.said = b.said /\ c.drawn = b.drawn /\ c.reused = b.reused
      /\ c.calls = b.calls /\ c.typed = Append(b.typed, id)
      /\ c = [said |-> c.said, drawn |-> c.drawn, reused |-> c.reused,
              typed |-> c.typed, calls |-> c.calls]
  BY DEF Line
<1> HIDE DEF c
<1>2. b \in Books
  BY DEF Consistent
<1>3. /\ c.typed \in Seq(PacketIds \union {NoId})
      /\ \A l \in DOMAIN b.typed : l \in DOMAIN c.typed /\ c.typed[l] = b.typed[l]
  <2>1. b.typed \in Seq(PacketIds \union {NoId})
    BY <1>2, BookParts
  <2>2. QED
    BY <1>1, <2>1
<1>4. c \in Books
  BY <1>1, <1>2, <1>3, BookParts DEF Books
<1>5. \A x \in PacketIds : \A P \in c.said["client"][x] :
          \E l \in Lines : l \in DOMAIN c.typed /\ c.typed[l] = x /\ P = Text(l)
  BY <1>1, <1>3 DEF Consistent
<1>6. Consistent(c)
  BY <1>1, <1>4, <1>5 DEF Consistent
<1>7. Grows(b, c)
  BY <1>1 DEF Grows
<1>8. QED
  BY <1>6, <1>7 DEF c

\* a packet that is sent,
LEMMA SayEntry ==
    ASSUME NEW b, Consistent(b), NEW h \in Handlers, NEW id \in PacketIds,
           NEW data \in Data, Len(data) \in Sizes,
           h = "client" => \E l \in Lines : /\ l \in DOMAIN b.typed
                                            /\ b.typed[l] = id /\ data = Text(l),
           h = "server" => data \in b.calls["server"]
    PROVE  LET c == Say(b, h, id, data)
           IN  /\ Consistent(c) /\ Grows(b, c)
               /\ data \in c.said[h][id]
               /\ \A x \in PacketIds :
                     /\ c.said[Other(h)][x] = b.said[Other(h)][x]
                     /\ c.said[h][x] = IF x = id THEN b.said[h][x] \union {data}
                                                 ELSE b.said[h][x]
<1> DEFINE c == Say(b, h, id, data)
<1>1. /\ c.said = [g \in Handlers |-> [x \in PacketIds |->
                   IF g = h /\ x = id THEN b.said[g][x] \union {data}
                                      ELSE b.said[g][x]]]
      /\ c.drawn = [b.drawn EXCEPT ![h] = @ \union {id}]
      /\ c.reused = [b.reused EXCEPT ![h] = @ \union ({id} \intersect b.drawn[h])]
      /\ c.typed = b.typed /\ c.calls = b.calls
      /\ c = [said |-> c.said, drawn |-> c.drawn, reused |-> c.reused,
              typed |-> c.typed, calls |-> c.calls]
  BY DEF Say
<1> HIDE DEF c
<1>2. b \in Books
  BY DEF Consistent
<1>3. /\ b.said \in [Handlers -> [PacketIds -> SUBSET Data]]
      /\ b.drawn \in [Handlers -> SUBSET PacketIds]
      /\ b.reused \in [Handlers -> SUBSET PacketIds]
  BY <1>2, BookParts
<1>4. \A g \in Handlers : \A x \in PacketIds :
         c.said[g][x] = IF g = h /\ x = id THEN b.said[g][x] \union {data}
                                           ELSE b.said[g][x]
  BY <1>1
<1>5. \A g \in Handlers :
         /\ c.drawn[g] = IF g = h THEN b.drawn[g] \union {id} ELSE b.drawn[g]
         /\ c.reused[g] = IF g = h THEN b.reused[g] \union ({id} \intersect b.drawn[g])
                                   ELSE b.reused[g]
  BY <1>1, <1>3
<1>6. c \in Books
  <2>1. c.said \in [Handlers -> [PacketIds -> SUBSET Data]]
    <3>1. \A g \in Handlers : \A x \in PacketIds : b.said[g][x] \in SUBSET Data
      BY <1>3
    <3>2. \A g \in Handlers : \A x \in PacketIds :
             (IF g = h /\ x = id THEN b.said[g][x] \union {data}
                                ELSE b.said[g][x]) \in SUBSET Data
      BY <3>1
    <3>3. \A g \in Handlers :
             [x \in PacketIds |-> IF g = h /\ x = id THEN b.said[g][x] \union {data}
                                  ELSE b.said[g][x]] \in [PacketIds -> SUBSET Data]
      BY <3>2
    <3>4. QED
      BY <1>1, <3>3
  <2>2. /\ c.drawn \in [Handlers -> SUBSET PacketIds]
        /\ c.reused \in [Handlers -> SUBSET PacketIds]
    BY <1>1, <1>3
  <2>3. QED
    BY <1>1, <1>2, <2>1, <2>2, BookParts DEF Books
<1>7. ASSUME NEW g \in Handlers, NEW x \in PacketIds
      PROVE  /\ c.said[g][x] # {} => x \in c.drawn[g]
             /\ \A P, Q \in c.said[g][x] : P # Q => x \in c.reused[g]
             /\ \A P \in c.said[g][x] : Len(P) \in Sizes
  <2>1. /\ b.said[g][x] # {} => x \in b.drawn[g]
        /\ \A P, Q \in b.said[g][x] : P # Q => x \in b.reused[g]
        /\ \A P \in b.said[g][x] : Len(P) \in Sizes
    BY DEF Consistent
  <2>2. CASE g = h /\ x = id
    <3>1. c.said[g][x] = b.said[g][x] \union {data}
      BY <1>4, <2>2
    <3>2. x \in c.drawn[g]
      BY <1>5, <2>2
    <3>3. ASSUME NEW P \in c.said[g][x], NEW Q \in c.said[g][x], P # Q
          PROVE  x \in c.reused[g]
      <4>1. b.said[g][x] # {}
        BY <3>1, <3>3
      <4>2. QED
        BY <1>5, <2>1, <2>2, <4>1
    <3>4. QED
      BY <2>1, <3>1, <3>2, <3>3
  <2>3. CASE ~(g = h /\ x = id)
    BY <1>4, <1>5, <2>1, <2>3
  <2>4. QED
    BY <2>2, <2>3
<1>8. ASSUME NEW x \in PacketIds, NEW P \in c.said["client"][x]
      PROVE  \E l \in Lines : l \in DOMAIN c.typed /\ c.typed[l] = x /\ P = Text(l)
  <2>1. CASE P \in b.said["client"][x]
    BY <1>1, <2>1 DEF Consistent
  <2>2. CASE h = "client" /\ x = id /\ P = data
    BY <1>1, <2>2
  <2>3. "client" \in Handlers
    BY DEF Handlers
  <2>4. QED
    BY <1>4, <1>8, <2>1, <2>2, <2>3
<1>9. ASSUME NEW x \in PacketIds
      PROVE  c.said["server"][x] \subseteq c.calls["server"]
  <2>1. "server" \in Handlers /\ b.said["server"][x] \subseteq b.calls["server"]
    BY DEF Handlers, Consistent
  <2>2. QED
    BY <1>1, <1>4, <2>1
<1>10. ASSUME NEW g \in Handlers, NEW P \in c.calls[g]
       PROVE  /\ Len(P) \in Sizes \ {0}
              /\ Len(P) <= SectionSize \/ c.reused[Other(g)] = {} =>
                    \E x \in PacketIds : P \in c.said[Other(g)][x]
  <2>1. /\ Len(P) \in Sizes \ {0}
        /\ Len(P) <= SectionSize \/ b.reused[Other(g)] = {} =>
              \E x \in PacketIds : P \in b.said[Other(g)][x]
    BY <1>1 DEF Consistent
  <2>2. /\ c.reused[Other(g)] = {} => b.reused[Other(g)] = {}
        /\ \A x \in PacketIds : b.said[Other(g)][x] \subseteq c.said[Other(g)][x]
    BY <1>4, <1>5, OtherType
  <2>3. QED
    BY <2>1, <2>2
<1>11. Consistent(c)
  BY <1>6, <1>7, <1>8, <1>9, <1>10 DEF Consistent
<1>12. Grows(b, c)
  <2> SUFFICES ASSUME NEW g \in Handlers, NEW x \in PacketIds
               PROVE  /\ b.reused[g] \subseteq c.reused[g]
                      /\ b.calls[g] \subseteq c.calls[g]
                      /\ b.said[g][x] \subseteq c.said[g][x]
                      /\ \/ c.said[g][x] = b.said[g][x]
                         \/ b.said[g][x] = {}
                         \/ x \in c.reused[g]
    BY DEF Grows
  <2>1. b.said[g][x] # {} => x \in b.drawn[g]
    BY DEF Consistent
  <2>2. QED
    BY <1>1, <1>4, <1>5, <2>1
<1>13. Other(h) \in Handlers /\ Other(h) # h
  BY DEF Other, Handlers
<1>14. QED
  BY <1>4, <1>11, <1>12, <1>13 DEF c

\* and a call.
LEMMA CallEntry ==
    ASSUME NEW b, Consistent(b), NEW h \in Handlers,
           NEW data \in Data, Len(data) \in Sizes \ {0},
           Len(data) <= SectionSize \/ b.reused[Other(h)] = {} =>
              \E x \in PacketIds : data \in b.said[Other(h)][x]
    PROVE  LET c == Call(b, h, data)
           IN  /\ Consistent(c) /\ Grows(b, c)
               /\ data \in c.calls[h]
<1> DEFINE c == Call(b, h, data)
<1>1. /\ c.said = b.said /\ c.drawn = b.drawn /\ c.reused = b.reused
      /\ c.typed = b.typed /\ c.calls = [b.calls EXCEPT ![h] = @ \union {data}]
      /\ c = [said |-> c.said, drawn |-> c.drawn, reused |-> c.reused,
              typed |-> c.typed, calls |-> c.calls]
  BY DEF Call
<1> HIDE DEF c
<1>2. b \in Books
  BY DEF Consistent
<1>3. /\ c.calls \in [Handlers -> SUBSET Data]
      /\ \A g \in Handlers : c.calls[g] = IF g = h THEN b.calls[g] \union {data}
                                                   ELSE b.calls[g]
  <2>1. b.calls \in [Handlers -> SUBSET Data]
    BY <1>2, BookParts
  <2>2. QED
    BY <1>1, <2>1
<1>4. c \in Books
  BY <1>1, <1>2, <1>3, BookParts DEF Books
<1>5. \A g \in Handlers : \A P \in c.calls[g] :
          /\ Len(P) \in Sizes \ {0}
          /\ Len(P) <= SectionSize \/ c.reused[Other(g)] = {} =>
                \E x \in PacketIds : P \in c.said[Other(g)][x]
  BY <1>1, <1>3 DEF Consistent
<1>6. \A x \in PacketIds : c.said["server"][x] \subseteq c.calls["server"]
  BY <1>1, <1>3 DEF Consistent, Handlers
<1>7. Consistent(c)
  BY <1>1, <1>4, <1>5, <1>6 DEF Consistent
<1>8. Grows(b, c)
  BY <1>1, <1>3 DEF Grows
<1>9. QED
  BY <1>3, <1>7, <1>8 DEF c

-----------------------------------------------------------------------------
(***************************************************************************)
(* A section arrives.                                                      *)
(***************************************************************************)
LEMMA SectionUnits ==
    ASSUME NEW P \in Data, Len(P) \in Sizes, NEW k \in Nat,
           k * SectionSize < Len(P)
    PROVE  /\ Section(P, k) \in Data
           /\ k \in 0 .. WordBits - 1
           /\ Len(P) <= SectionSize => k = 0
           /\ \A c \in 1 .. Len(P) : InSection(c, k) =>
                 /\ c - k * SectionSize <= Len(Section(P, k))
                 /\ Section(P, k)[c - k * SectionSize] = P[c]
<1> DEFINE off == k * SectionSize
           len == W!SectionLength(k, Len(P))
<1>1. /\ SectionSize \in Nat \ {0} /\ off \in Nat /\ Len(P) \in Nat
      /\ \A c \in 1 .. Len(P) : P[c] \in W!Cell
  BY ConstantTypes DEF Data
<1>2. /\ W!SectionOffset(k) = off
      /\ len = IF SectionSize < Len(P) - off THEN SectionSize ELSE Len(P) - off
      /\ \A c \in 1 .. Len(P) : InSection(c, k) <=> off < c /\ c <= off + SectionSize
  BY DEF W!SectionOffset, W!SectionLength, InSection
<1>3. Section(P, k) = [c \in 1 .. len |-> P[off + c]]
  BY <1>2 DEF Section
<1>4. off < Len(P)
  OBVIOUS
<1>5. k \in 0 .. WordBits - 1
  BY SectionFacts
<1>6. ASSUME Len(P) <= SectionSize PROVE k = 0
  <2>1. k * SectionSize < 1 * SectionSize
    BY <1>1, <1>6
  <2>2. k < 1
    BY <1>1, <2>1, LessMultiple
  <2>3. QED
    BY <2>2
<1> HIDE DEF off, len
<1>7. len \in Nat /\ off + len <= Len(P)
  BY <1>1, <1>2, <1>4
<1>8. Section(P, k) \in Data /\ Len(Section(P, k)) = len
  <2>1. \A c \in 1 .. len : P[off + c] \in W!Cell
    BY <1>1, <1>7
  <2>2. Section(P, k) \in [1 .. len -> W!Cell]
    BY <1>3, <2>1
  <2>3. QED
    BY <1>7, <2>2 DEF Data
<1>9. ASSUME NEW c \in 1 .. Len(P), off < c, c <= off + SectionSize
      PROVE  c - off <= len /\ Section(P, k)[c - off] = P[c]
  <2>1. c - off \in 1 .. len /\ off + (c - off) = c
    BY <1>1, <1>2, <1>9
  <2>2. QED
    BY <1>3, <2>1
<1>10. QED
  BY <1>2, <1>5, <1>6, <1>8, <1>9 DEF off

\* A unit is in one section only.
LEMMA OneSection ==
    ASSUME NEW c \in Nat, NEW k \in Nat, NEW l \in Nat, InSection(c, k), InSection(c, l)
    PROVE  k = l
<1>1. /\ SectionSize \in Nat \ {0} /\ k * SectionSize \in Nat /\ l * SectionSize \in Nat
      /\ (k + 1) * SectionSize = k * SectionSize + SectionSize
      /\ (l + 1) * SectionSize = l * SectionSize + SectionSize
  BY ConstantTypes
<1>2. k * SectionSize < (l + 1) * SectionSize /\ l * SectionSize < (k + 1) * SectionSize
  BY <1>1 DEF InSection
<1>3. k < l + 1 /\ l < k + 1
  BY <1>1, <1>2, LessMultiple
<1>4. QED
  BY <1>3

\* What a datagram of a packet is, by the books.
LEMMA NormalDatagram ==
    ASSUME NEW book, Consistent(book), NEW d, DatagramInv(book, d), d.type = "Normal"
    PROVE  \E P \in book.said[Other(d.to)][d.id] :
              /\ P \in Data /\ Len(P) \in Sizes \ {0} /\ P # << >>
              /\ d.size = Len(P) /\ d.index * SectionSize < Len(P)
              /\ d.data = Section(P, d.index)
              /\ d.rev = 0 /\ d.index \in Nat /\ d.index \in 0 .. WordBits - 1
              /\ d.data \in Data
<1>1. d.to \in Handlers /\ Other(d.to) \in Handlers /\ d.id \in PacketIds
      /\ d.rev = 0 /\ d.index \in Nat
  BY OtherType DEF DatagramInv
<1>2. PICK P \in book.said[Other(d.to)][d.id] :
         /\ d.size = Len(P) /\ d.index * SectionSize < Len(P)
         /\ d.data = Section(P, d.index)
  BY DEF DatagramInv
<1>3. P \in Data /\ Len(P) \in Sizes
  <2>1. book \in Books
    BY DEF Consistent
  <2>2. book.said \in [Handlers -> [PacketIds -> SUBSET Data]]
    BY <2>1, BookParts
  <2>3. QED
    BY <1>1, <2>2 DEF Consistent
<1>4. Len(P) # 0 /\ P # << >>
  <2>1. d.index * SectionSize \in Nat /\ Len(P) \in Nat
    BY <1>1, <1>3, ConstantTypes DEF Data
  <2>2. QED
    BY <1>2, <2>1
<1>5. d.index \in 0 .. WordBits - 1 /\ d.data \in Data
  BY <1>1, <1>2, <1>3, SectionUnits
<1>6. QED
  BY <1>1, <1>2, <1>3, <1>4, <1>5

\* The slot a section is for, and the table it is in.
SlotOf(r, d) == First(r, R!Slots, IF ~R!HasPacket(r, d.id) THEN NoId ELSE d.id)

TableFor(r, d) ==
    IF ~R!HasPacket(r, d.id)
    THEN R!AllocateReadPacket(r, SlotOf(r, d), d.id, d.size, d.rev)
    ELSE r

\* The slot a section belongs into, found or allocated.
LEMMA PlaceSection ==
    ASSUME NEW book, Consistent(book), NEW h \in Handlers, NEW r, ReadInv(book, h, r),
           Unfinished(r), NEW d, DatagramInv(book, d), d.type = "Normal", d.to = h,
           ~R!HasPacket(r, d.id) => R!CanAllocate(r, d.size)
    PROVE  LET i == SlotOf(r, d)
               t == TableFor(r, d)
           IN  /\ ReadInv(book, h, t)
               /\ i \in R!Live(t) /\ t.info[i].id = d.id
               /\ \A j \in R!Live(t) \ {i} : SectionSize < t.info[j].size
               /\ t.info[i].size <= SectionSize => t.info[i].size = d.size
<1> DEFINE i == SlotOf(r, d)
           t == TableFor(r, d)
<1>1. d.id \in PacketIds /\ d.id # NoId /\ Shelf(r) /\ Other(h) \in Handlers
  BY ConstantTypes, OtherType DEF DatagramInv, ReadInv
<1>2. PICK P \in book.said[Other(h)][d.id] :
         /\ Len(P) \in Sizes \ {0} /\ d.size = Len(P) /\ d.rev = 0
  BY NormalDatagram
<1>3. CASE R!HasPacket(r, d.id)
  <2>1. t = r /\ i = First(r, R!Slots, d.id)
    BY <1>3 DEF TableFor, SlotOf
  <2>2. PICK n \in R!Slots : r.info[n].id = d.id
    BY <1>3 DEF R!HasPacket
  <2>3. n \in R!Live(r)
    BY <1>1, <2>2 DEF R!Live
  <2>4. i \in R!Live(r) /\ r.info[i].id = d.id
    BY <2>1, <2>2, <2>3, FirstLive
  <2> HIDE DEF i, t
  <2>5. /\ \A j \in R!Live(r) : SectionSize < r.info[j].size
        /\ SectionSize \in Nat /\ r.info[i].size \in Nat
    BY <1>1, <2>4, ReadPlaces, ConstantTypes DEF Unfinished
  <2>6. ~ (r.info[i].size <= SectionSize)
    BY <2>4, <2>5
  <2>7. QED
    BY <2>1, <2>4, <2>5, <2>6 DEF i, t
<1>4. CASE ~R!HasPacket(r, d.id)
  <2>1. /\ i = First(r, R!Slots, NoId)
        /\ t = R!AllocateReadPacket(r, First(r, R!Slots, NoId), d.id, d.size, 0)
        /\ R!CanAllocate(r, d.size)
    BY <1>2, <1>4 DEF TableFor, SlotOf
  <2> HIDE DEF i, t
  <2>2. /\ Shelf(t)
        /\ i \in R!Slots \ R!Live(r)
        /\ R!Live(t) = R!Live(r) \union {i}
        /\ t.info[i].id = d.id /\ t.info[i].size = d.size
        /\ t.info[i].bits = R!InitialBits(d.size)
        /\ \A j \in R!Live(r) : Keeps(r, t, j)
    BY <1>1, <1>2, <2>1, AllocateRead
  <2>3. \A j \in R!Live(r) : ReadSlotInv(book, h, t, j) /\ SectionSize < t.info[j].size
    BY <1>1, <2>2, ReadSlotGrows, SameGrows DEF ReadInv, Unfinished, Keeps
  <2>4. ReadSlotInv(book, h, t, i)
    <3>1. d.size \in Sizes /\ 0 * SectionSize < d.size
      BY <1>2, ConstantTypes DEF Sizes
    <3>2. /\ 0 \notin R!InitialBits(d.size)
          /\ R!InitialBits(d.size) \subseteq Nat
          /\ \A k \in Nat : \A c \in 1 .. d.size : InSection(c, k) =>
                k \notin R!InitialBits(d.size)
      BY <3>1, SectionFacts, ConstantTypes
    <3>3. ASSUME d.id \notin book.reused[Other(h)],
                 NEW Q \in book.said[Other(h)][d.id]
          PROVE  Len(Q) = d.size
      BY <1>1, <1>2, <3>3 DEF Consistent
    <3>4. QED
      BY <1>2, <2>2, <3>2, <3>3 DEF ReadSlotInv
  <2>5. QED
    BY <2>2, <2>3, <2>4 DEF ReadInv, i, t
<1>5. QED
  BY <1>3, <1>4

\* Sections of a packet whose id is not reused end up as its contents; a packet
\* of one section is complete at once.
LEMMA StoreSection ==
    ASSUME NEW book, Consistent(book), NEW h \in Handlers, NEW t, ReadInv(book, h, t),
           NEW d, DatagramInv(book, d), d.type = "Normal", d.to = h,
           NEW i \in R!Live(t), t.info[i].id = d.id,
           \A j \in R!Live(t) \ {i} : SectionSize < t.info[j].size,
           t.info[i].size <= SectionSize => t.info[i].size = d.size
    PROVE  LET u == Stored(t, i, d)
               Q == R!Contents(u, i)
               from == book.said[Other(h)][d.id]
           IN  /\ ReadInv(book, h, u)
               /\ R!Live(u) = R!Live(t)
               /\ \A j \in R!Live(u) \ {i} : SectionSize < u.info[j].size
               /\ Q \in Data /\ Len(Q) \in Sizes \ {0}
               /\ SectionSize < u.info[i].size \/ R!ReadPacketDone(u, i)
               /\ R!ReadPacketDone(u, i) =>
                     /\ \E P \in from : P # << >> /\ Q[1] = P[1]
                     /\ Len(Q) <= SectionSize \/ d.id \notin book.reused[Other(h)] =>
                           Q \in from
               /\ d.id \notin book.reused[Other(h)] =>
                     \A P \in from : Len(P) <= SectionSize =>
                        R!ReadPacketDone(u, i) /\ Q = P
<1> DEFINE u == Stored(t, i, d)
           Q == R!Contents(u, i)
           from == book.said[Other(h)][d.id]
           k == d.index
           size == t.info[i].size
           old == R!Contents(t, i)
           bits == t.info[i].bits
<1>1. PICK P \in from :
         /\ P \in Data /\ Len(P) \in Sizes \ {0} /\ P # << >>
         /\ d.size = Len(P) /\ k * SectionSize < Len(P)
         /\ d.data = Section(P, k)
         /\ d.rev = 0 /\ k \in Nat /\ k \in 0 .. WordBits - 1
         /\ d.data \in Data
  BY NormalDatagram
<1>2. /\ k = 0 \/ SectionSize < Len(P)
      /\ \A c \in 1 .. Len(P) : InSection(c, k) =>
            /\ c - k * SectionSize <= Len(d.data)
            /\ d.data[c - k * SectionSize] = P[c]
  <2>1. /\ Len(P) <= SectionSize => k = 0
        /\ \A c \in 1 .. Len(P) : InSection(c, k) =>
             /\ c - k * SectionSize <= Len(Section(P, k))
             /\ Section(P, k)[c - k * SectionSize] = P[c]
    BY <1>1, SectionUnits
  <2>2. Len(P) \in Nat /\ SectionSize \in Nat
    BY <1>1, ConstantTypes DEF Data
  <2>3. QED
    BY <1>1, <2>1, <2>2
<1>3. Shelf(t) /\ d.id \in PacketIds /\ Other(h) \in Handlers
  BY OtherType DEF ReadInv, DatagramInv
<1>4. /\ Shelf(u)
      /\ R!Live(u) = R!Live(t)
      /\ u.info[i].id = d.id /\ u.info[i].size = size
      /\ u.info[i].bits = bits \union {k}
      /\ Q \in Data /\ Len(Q) = size
      /\ \A c \in 1 .. size :
            /\ ~InSection(c, k) => Q[c] = old[c]
            /\ InSection(c, k) /\ c - k * SectionSize <= Len(d.data) =>
                  Q[c] = d.data[c - k * SectionSize]
      /\ \A j \in R!Live(t) \ {i} : Keeps(t, u, j)
  BY <1>1, <1>3, StoreRead
<1>5. /\ size \in Sizes /\ size \in Nat \ {0}
      /\ bits \subseteq 0 .. WordBits - 1 /\ R!InitialBits(size) \subseteq bits
      /\ SectionSize \in Nat \ {0} /\ WordBits \in Nat \ {0}
  BY <1>3, ReadPlaces, ConstantTypes DEF Shelf
<1>6. /\ from # {}
      /\ 0 \in bits => \E S \in from : S # << >> /\ old[1] = S[1]
      /\ d.id \notin book.reused[Other(h)] =>
              \A S \in from :
                 /\ Len(S) = size
                 /\ \A m \in bits : \A c \in 1 .. size :
                       InSection(c, m) => old[c] = S[c]
  BY DEF ReadInv, ReadSlotInv
<1>7. R!ReadPacketDone(u, i) <=> bits \union {k} = 0 .. WordBits - 1
  <2>1. R!BitmapSize(size) = WordBits
    BY <1>5, SectionFacts
  <2> HIDE DEF u
  <2>2. QED
    BY <1>4, <2>1 DEF R!ReadPacketDone, R!BitsDone
<1>8. size <= SectionSize => size = Len(P)
  BY <1>1
<1> HIDE DEF u, Q, from, k, size, old, bits
<1>a. u.info[i].id = d.id /\ u.info[i].size = size /\ u.info[i].bits = bits \union {k}
      /\ R!Contents(u, i) = Q
  BY <1>4 DEF Q
\* A single section completes its packet.
<1>9. ASSUME size <= SectionSize PROVE bits \union {k} = 0 .. WordBits - 1 /\ k = 0
  <2>1. k = 0
    BY <1>2, <1>5, <1>8, <1>9
  <2>2. R!InitialBits(size) = 1 .. WordBits - 1
    BY <1>5, <1>9, SectionFacts
  <2>3. /\ \A m \in 0 .. WordBits - 1 : m = 0 \/ m \in 1 .. WordBits - 1
        /\ 0 \in 0 .. WordBits - 1
    BY <1>5
  <2>4. 1 .. WordBits - 1 \subseteq bits
    BY <1>5, <2>2
  <2>5. 0 .. WordBits - 1 \subseteq bits \union {k}
    BY <2>1, <2>3, <2>4
  <2>6. bits \union {k} \subseteq 0 .. WordBits - 1
    BY <1>5, <2>1, <2>3
  <2>7. QED
    BY <2>1, <2>5, <2>6
\* The units of a packet whose id is not reused.
<1>10. ASSUME d.id \notin book.reused[Other(h)]
       PROVE  /\ from = {P} /\ Len(P) = size
              /\ \A m \in bits \union {k} : \A c \in 1 .. size :
                    InSection(c, m) => Q[c] = P[c]
  <2>1. \A S \in from : S = P
    BY <1>1, <1>3, <1>10 DEF Consistent, from
  <2>2. Len(P) = size
    BY <1>1, <1>6, <1>10
  <2>3. ASSUME NEW m \in bits \union {k}, NEW c \in 1 .. size, InSection(c, m)
        PROVE  Q[c] = P[c]
    <3>1. m \in Nat /\ c \in Nat /\ k \in Nat
      BY <1>1, <1>5
    <3>2. CASE InSection(c, k)
      BY <1>2, <1>4, <2>2, <3>2
    <3>3. CASE ~InSection(c, k)
      <4>1. m \in bits
        BY <2>3, <3>3
      <4>2. QED
        BY <1>1, <1>4, <1>6, <1>10, <2>3, <3>3, <4>1
    <3>4. QED
      BY <3>2, <3>3
  <2>4. QED
    BY <1>1, <2>1, <2>2, <2>3
\* The first unit.
<1>11. ASSUME 0 \in bits \union {k}
       PROVE  \E S \in from : S # << >> /\ Q[1] = S[1]
  <2>1. 1 \in 1 .. size /\ 1 \in 1 .. Len(P) /\ InSection(1, 0)
    BY <1>1, <1>5, ConstantTypes DEF InSection, Sizes
  <2>2. CASE k = 0
    BY <1>1, <1>2, <1>4, <2>1, <2>2
  <2>3. CASE k # 0
    <3>1. ~InSection(1, k)
      BY <1>1, <2>1, <2>3, OneSection
    <3>2. QED
      BY <1>4, <1>6, <1>11, <2>1, <2>3, <3>1
  <2>4. QED
    BY <2>2, <2>3
\* All units of all sections.
<1>12. ASSUME bits \union {k} = 0 .. WordBits - 1, d.id \notin book.reused[Other(h)]
       PROVE  Q = P
  <2>1. ASSUME NEW c \in 1 .. size PROVE Q[c] = P[c]
    <3>0. c \in Nat \ {0}
      BY <1>5
    <3>1. PICK m \in Nat : InSection(c, m)
      BY <3>0, UnitSection
    <3>2. m \in 0 .. WordBits - 1
      BY <1>5, <3>1, SectionFacts
    <3>3. QED
      BY <1>10, <1>12, <3>1, <3>2
  <2>2. Q \in Seq(W!Cell) /\ P \in Seq(W!Cell) /\ Len(Q) = Len(P) /\ Len(P) = size
    BY <1>1, <1>4, <1>10, <1>12 DEF Data
  <2>3. QED
    BY <2>1, <2>2
<1>13. ReadInv(book, h, u)
  <2>0. ASSUME d.id \notin book.reused[Other(h)], NEW S \in from
        PROVE  /\ Len(S) = size
               /\ \A m \in bits \union {k} : \A c \in 1 .. size :
                     InSection(c, m) => Q[c] = S[c]
    BY <1>10, <2>0
  <2>1. ReadSlotInv(book, h, u, i)
    <3>1. /\ from # {}
          /\ 0 \in u.info[i].bits =>
                \E S \in from : S # << >> /\ R!Contents(u, i)[1] = S[1]
          /\ u.info[i].id \notin book.reused[Other(h)] =>
               \A S \in from :
                 /\ Len(S) = u.info[i].size
                 /\ \A m \in u.info[i].bits : \A c \in 1 .. u.info[i].size :
                       InSection(c, m) => R!Contents(u, i)[c] = S[c]
      BY <1>a, <1>6, <1>11, <2>0
    <3>2. from = book.said[Other(h)][u.info[i].id]
      BY <1>a DEF from
    <3>3. QED
      BY <3>1, <3>2 DEF ReadSlotInv
  <2>2. \A j \in R!Live(t) \ {i} : ReadSlotInv(book, h, u, j)
    BY <1>3, <1>4, ReadSlotGrows, SameGrows DEF ReadInv
  <2>3. QED
    BY <1>4, <2>1, <2>2 DEF ReadInv
<1>14. \A j \in R!Live(u) \ {i} : SectionSize < u.info[j].size
  BY <1>4 DEF Keeps
<1>15. Len(Q) \in Sizes \ {0} /\ Len(Q) = size
  BY <1>4, <1>5
<1>16. SectionSize < size \/ R!ReadPacketDone(u, i)
  BY <1>5, <1>7, <1>9
<1>17. ASSUME R!ReadPacketDone(u, i)
       PROVE  /\ \E S \in from : S # << >> /\ Q[1] = S[1]
              /\ size <= SectionSize \/ d.id \notin book.reused[Other(h)] => Q \in from
  <2>1. bits \union {k} = 0 .. WordBits - 1 /\ 0 \in 0 .. WordBits - 1
    BY <1>5, <1>7, <1>17
  <2>2. ASSUME size <= SectionSize PROVE Q = P
    <3>1. k = 0 /\ size = Len(P)
      BY <1>8, <1>9, <2>2
    <3>2. ASSUME NEW c \in 1 .. size PROVE Q[c] = P[c]
      <4>1. InSection(c, 0)
        BY <1>5, <2>2 DEF InSection
      <4>2. QED
        BY <1>2, <1>4, <3>1, <4>1
    <3>3. Q \in Seq(W!Cell) /\ P \in Seq(W!Cell) /\ Len(Q) = Len(P)
      BY <1>1, <1>4, <3>1 DEF Data
    <3>4. QED
      BY <1>4, <3>2, <3>3
  <2>3. QED
    BY <1>1, <1>11, <1>12, <2>1, <2>2
<1>18. ASSUME d.id \notin book.reused[Other(h)], NEW S \in from, Len(S) <= SectionSize
       PROVE  R!ReadPacketDone(u, i) /\ Q = S
  <2>1. S = P /\ size <= SectionSize
    BY <1>10, <1>18
  <2>2. bits \union {k} = 0 .. WordBits - 1
    BY <1>9, <2>1
  <2>3. QED
    BY <1>7, <1>12, <1>18, <2>1, <2>2
<1>19. QED
  BY <1>a, <1>4, <1>13, <1>14, <1>15, <1>16, <1>17, <1>18 DEF u, Q, from

-----------------------------------------------------------------------------
(***************************************************************************)
(* Tables and datagrams after a step.                                      *)
(***************************************************************************)

\* Nothing of u is new since w but the slots in fresh; a packet has a time that
\* had none only if it is acknowledged.
Carried(book, h, w, u, fresh) ==
    /\ WP!TableInv(u)
    /\ W!Live(u) \subseteq W!Live(w) \union fresh
    /\ \A i \in W!Live(u) \ fresh :
          /\ SameSlot(w, u, i)
          /\ \/ u.info[i].time = w.info[i].time
             \/ u.info[i].time = W!Untimed
             \/ w.info[i].time # W!Untimed
             \/ Acknowledged(book, h, w.info[i].id)

\* A table whose slots are carried over, with fresh ones that fit the books.
LEMMA WriteKept ==
    ASSUME NEW book, NEW new, Grows(book, new), NEW h \in Handlers,
           NEW w, WriteInv(book, h, w),
           NEW u, NEW fresh, Carried(book, h, w, u, fresh),
           \A i \in fresh : WriteSlotInv(new, h, u, i)
    PROVE  WriteInv(new, h, u)
<1>1. WP!TableInv(w) /\ \A i \in W!Live(w) : WriteSlotInv(book, h, w, i)
  BY DEF WriteInv
<1>2. ASSUME NEW i \in W!Live(u), i \notin fresh
      PROVE  WriteSlotInv(new, h, u, i)
  <2>1. i \in W!Live(w) /\ i \in W!Live(u) \ fresh
    BY <1>2 DEF Carried
  <2>2. /\ SameSlot(w, u, i)
        /\ \/ u.info[i].time = w.info[i].time
           \/ u.info[i].time = W!Untimed
           \/ w.info[i].time # W!Untimed
           \/ Acknowledged(book, h, w.info[i].id)
    BY <2>1 DEF Carried
  <2>3. QED
    BY <1>1, <2>1, <2>2, WriteSlotGrows
<1>3. WP!TableInv(u)
  BY DEF Carried
<1>4. QED
  BY <1>2, <1>3 DEF WriteInv

\* Nothing is new.
LEMMA QuietKept ==
    ASSUME NEW book, NEW new, Grows(book, new), NEW h \in Handlers,
           NEW w, WriteInv(book, h, w), NEW u, Carried(book, h, w, u, {})
    PROVE  WriteInv(new, h, u)
<1>1. \A i \in {} : WriteSlotInv(new, h, u, i)
  OBVIOUS
<1>2. QED
  BY <1>1, WriteKept

\* Nothing changes.
LEMMA SameKept ==
    ASSUME NEW book, NEW new, Grows(book, new), NEW h \in Handlers,
           NEW w, WriteInv(book, h, w)
    PROVE  WriteInv(new, h, w)
<1>1. Carried(book, h, w, w, {})
  BY DEF Carried, SameSlot, WriteInv
<1>2. QED
  BY <1>1, QuietKept

\* Packets are freed.
LEMMA SurvivorsKept ==
    ASSUME NEW book, NEW new, Grows(book, new), NEW h \in Handlers,
           NEW w, WriteInv(book, h, w), NEW u, Survives(w, u)
    PROVE  WriteInv(new, h, u)
<1>1. Carried(book, h, w, u, {})
  BY DEF Carried, Survives
<1>2. QED
  BY <1>1, QuietKept

\* A read table that has lost packets at most.
LEMMA ReadKept ==
    ASSUME NEW book, NEW new, Grows(book, new), NEW h \in Handlers,
           NEW r, ReadInv(book, h, r), NEW u, Spares(r, u)
    PROVE  /\ ReadInv(new, h, u)
           /\ Unfinished(r) => Unfinished(u)
<1>1. Shelf(r) /\ Shelf(u) /\ \A i \in R!Live(r) : ReadSlotInv(book, h, r, i)
  BY DEF ReadInv, Spares
<1>2. \A i \in R!Live(u) : i \in R!Live(r) /\ Keeps(r, u, i)
  BY DEF Spares
<1>3. \A i \in R!Live(u) : ReadSlotInv(new, h, u, i)
  BY <1>1, <1>2, ReadSlotGrows
<1>4. ASSUME Unfinished(r) PROVE Unfinished(u)
  BY <1>2, <1>4 DEF Unfinished, Keeps
<1>5. QED
  BY <1>1, <1>3, <1>4 DEF ReadInv

\* Every section the send loop goes through starts within the packet.
LEMMA RequiredStart ==
    ASSUME NEW size \in Nat, NEW k \in 0 .. W!GetRequiredSections(size) - 1
    PROVE  k \in Nat /\ k * SectionSize < size
<1> DEFINE n == size + SectionSize - 1
           q == n \div SectionSize
<1>1. SectionSize \in Nat \ {0} /\ n \in Nat
  BY ConstantTypes
<1>2. q \in Nat /\ n = SectionSize * q + (n % SectionSize)
      /\ n % SectionSize \in 0 .. SectionSize - 1
  BY <1>1, DivisionType
<1>3. W!GetRequiredSections(size) = q
  BY DEF W!GetRequiredSections
<1> HIDE DEF q
<1>4. k \in Nat /\ k < q
  BY <1>2, <1>3
<1>5. ~ (q * SectionSize < (k + 1) * SectionSize)
  BY <1>1, <1>2, <1>4, LessMultiple
<1>6. /\ q * SectionSize \in Nat /\ k * SectionSize \in Nat
      /\ SectionSize * q = q * SectionSize
      /\ (k + 1) * SectionSize = k * SectionSize + SectionSize
  BY <1>1, <1>2, <1>4
<1>7. QED
  BY <1>1, <1>2, <1>4, <1>5, <1>6

\* What the send loop sends is of packets in the table.
LEMMA SentDatagrams ==
    ASSUME NEW book, NEW h \in Handlers, NEW w, WriteInv(book, h, w),
           NEW i \in W!Slots, w.info[i].ready, NEW d \in W!DatagramsOf(w, i)
    PROVE  DatagramInv(book, d)
<1> DEFINE s == w.info[i]
           held == Held(w, i)
<1>1. WP!TableInv(w)
  BY DEF WriteInv
<1>2. i \in W!Live(w)
  <2>1. i \in WP!Live(w)
    BY <1>1, SameValues DEF WP!TableInv, WP!ReadyIsLive
  <2>2. QED
    BY <2>1, SameTables
<1>3. WriteSlotInv(book, h, w, i)
  BY <1>2 DEF WriteInv
<1>4. /\ s.id \in PacketIds /\ s.start \in Nat /\ s.size \in Nat /\ s.rev = 0
  BY <1>1, <1>2, WriteSlotParts DEF W!Live
<1>5. s.to = Other(h) /\ Other(h) \in Handlers /\ Other(Other(h)) = h
  BY <1>3, OtherType DEF WriteSlotInv
<1>6. CASE s.type = "Normal"
  <2>1. PICK k \in 0 .. W!GetRequiredSections(s.size) - 1 : d = W!SectionDatagram(w, i, k)
    BY <1>6 DEF W!DatagramsOf
  <2>2. k \in Nat /\ k * SectionSize < s.size
    BY <1>4, RequiredStart
  <2>3. held \in book.said[h][s.id]
    BY <1>3, <1>6 DEF WriteSlotInv
  <2>4. Len(held) = s.size
    BY <1>4 DEF Held
  <2>5. d.data = Section(held, k)
    <3> DEFINE len == W!SectionLength(k, s.size)
               off == W!SectionOffset(k)
    <3>1. off = k * SectionSize /\ off \in Nat /\ SectionSize \in Nat \ {0}
      BY <2>2, ConstantTypes DEF W!SectionOffset
    <3>2. len = IF SectionSize < s.size - off THEN SectionSize ELSE s.size - off
      BY DEF W!SectionLength
    <3>3. /\ d.data = [c \in 1 .. len |-> w.mem[s.start + off + c - 1]]
          /\ Section(held, k) = [c \in 1 .. len |-> held[off + c]]
      BY <2>1, <2>4 DEF W!SectionDatagram, Section
    <3> HIDE DEF len, off
    <3>4. ASSUME NEW c \in 1 .. len
          PROVE  w.mem[s.start + off + c - 1] = held[off + c]
      <4>1. len \in Nat /\ off + len <= s.size
        BY <1>4, <2>2, <3>1, <3>2
      <4>2. off + c \in 1 .. s.size /\ s.start + off + c - 1 = s.start + (off + c) - 1
        BY <1>4, <3>1, <4>1
      <4>3. QED
        BY <4>2 DEF Held
    <3>5. QED
      BY <3>3, <3>4
  <2>6. /\ d.to = Other(h) /\ d.id = s.id /\ d.type = "Normal" /\ d.rev = 0
        /\ d.index = k /\ d.size = s.size
    BY <1>4, <1>5, <2>1 DEF W!SectionDatagram
  <2> HIDE DEF s, held
  <2>7. QED
    BY <1>4, <1>5, <2>2, <2>3, <2>4, <2>5, <2>6 DEF DatagramInv
<1>7. CASE s.type # "Normal"
  <2>1. d = W!AnswerDatagram(s)
    BY <1>7 DEF W!DatagramsOf
  <2>2. d.type = s.type /\ d.id = s.id /\ d.to = Other(h)
    BY <1>5, <2>1 DEF W!AnswerDatagram
  <2>3. /\ book.said[Other(h)][s.id] # {}
        /\ s.type = "Acknowledge" => Acknowledged(book, Other(h), s.id)
    BY <1>3, <1>7 DEF WriteSlotInv
  <2>4. QED
    BY <1>4, <1>5, <1>7, <2>2, <2>3 DEF DatagramInv
<1>8. QED
  BY <1>6, <1>7

\* What becomes of an answer: a slot of the table or a datagram.
LEMMA AnswerKept ==
    ASSUME NEW book, NEW new, Grows(book, new), NEW h \in Handlers,
           WriteInv(book, h, wtable[h]),
           NEW answer \in [type : {"Acknowledge", "Reject"}, id : PacketIds,
                           index : 0 .. WordBits - 1, rev : {0}, to : Handlers],
           answer.to = Other(h), new.said[Other(h)][answer.id] # {},
           answer.type = "Acknowledge" => Acknowledged(new, Other(h), answer.id)
    PROVE  /\ WriteInv(new, h, Answered(h, answer))
           /\ DatagramInv(new, W!AnswerDatagram(answer))
<1> DEFINE w == wtable[h]
           i == First(w, W!Slots, NoId)
           u == W!SetSlot(w, i, W!AnswerSlot(w.info[i], answer))
<1>1. WP!TableInv(w)
  BY DEF WriteInv
<1>2. answer.type \in {"Acknowledge", "Reject"} /\ answer.id \in PacketIds
      /\ answer.to \in Handlers /\ Other(h) \in Handlers
  BY OtherType
<1> DEFINE d == W!AnswerDatagram(answer)
<1>d. DatagramInv(new, d)
  <2>1. d.type = answer.type /\ d.id = answer.id /\ d.to = Other(h)
    BY DEF W!AnswerDatagram
  <2> HIDE DEF d
  <2>2. d.type # "Normal"
    BY <1>2, <2>1
  <2>3. QED
    BY <1>2, <2>1, <2>2 DEF DatagramInv
<1> HIDE DEF d
<1>3. CASE HasSlot(h)
  <2>1. W!AvailableWritePackets(w) # {}
    BY <1>3 DEF HasSlot
  <2>2. /\ WP!TableInv(u)
        /\ i \in W!Slots \ W!Live(w)
        /\ W!Live(u) = W!Live(w) \union {i}
        /\ u.info[i].type = answer.type /\ u.info[i].id = answer.id
        /\ u.info[i].to = answer.to /\ u.info[i].time = W!Untimed
        /\ \A j \in W!Live(w) : /\ SameSlot(w, u, j)
                                /\ u.info[j].time = w.info[j].time
    BY <1>1, <2>1, QueueAnswer
  <2>3. Answered(h, answer) = u
    BY <1>3 DEF Answered
  <2> HIDE DEF u, i, w
  <2>4. WriteSlotInv(new, h, u, i)
    BY <1>2, <2>2 DEF WriteSlotInv
  <2>5. WriteInv(book, h, w)
    BY DEF w
  <2>6. Carried(book, h, w, u, {i})
    BY <2>2 DEF Carried
  <2>7. WriteInv(new, h, u)
    BY <2>4, <2>5, <2>6, WriteKept
  <2>8. QED
    BY <2>3, <2>7, <1>d DEF d
<1>4. CASE ~HasSlot(h)
  <2>1. Answered(h, answer) = w
    BY <1>4 DEF Answered
  <2> HIDE DEF w
  <2>2. WriteInv(book, h, w)
    BY DEF w
  <2>3. WriteInv(new, h, w)
    BY <2>2, SameKept
  <2>4. QED
    BY <2>1, <2>3, <1>d DEF d
<1>5. QED
  BY <1>3, <1>4

-----------------------------------------------------------------------------
(***************************************************************************)
(* The threads.                                                            *)
(***************************************************************************)
LEMMA ThreadsInit == ASSUME Init PROVE Threads
<1>1. at = [client |-> "wait", server |-> "bind"] /\ running = TRUE /\ serverUp = FALSE
  BY DEF Init
<1>2. /\ DOMAIN at = Handlers /\ at["client"] = "wait" /\ at["server"] = "bind"
      /\ at = [h \in Handlers |-> at[h]]
  BY <1>1 DEF Handlers
<1>3. \A h \in Handlers : at[h] = "wait" \/ at[h] = "bind"
  BY <1>2 DEF Handlers
<1>4. QED
  BY <1>1, <1>2, <1>3 DEF Threads

\* Each thread keeps to its places.
LEMMA ThreadsStep ==
    ASSUME Threads, [Next]_vars
    PROVE  Threads'
<1> DEFINE Places == {"wait", "spin", "connect", "bind", "idle", "getline",
                      "typed", "drain", "join", "done", "crashed"}
           Server == {"wait", "spin", "connect", "getline", "typed", "join"}
<1>1. /\ at \in [Handlers -> Places] /\ at["client"] # "bind"
      /\ at["server"] \notin Server
      /\ running \in BOOLEAN /\ serverUp \in BOOLEAN
      /\ "client" \in Handlers /\ "server" \in Handlers
  BY DEF Threads, Handlers
<1>2. ASSUME NEW h \in Handlers, NEW place, Go(h, place),
             \/ place \in {"idle", "drain", "done"}
             \/ h = "client" /\ place \in Places \ {"bind"}
      PROVE  /\ at' \in [Handlers -> Places] /\ at'["client"] # "bind"
             /\ at'["server"] \notin Server
  BY <1>1, <1>2 DEF Go, Handlers
<1>3. ASSUME Crash
      PROVE  /\ at' \in [Handlers -> Places] /\ at'["client"] # "bind"
             /\ at'["server"] \notin Server
  BY <1>1, <1>3 DEF Crash, Handlers
<1>4. CASE UNCHANGED vars
  BY <1>4 DEF Threads, vars, threads
<1>5. CASE ServerBind
  BY <1>1, <1>2, <1>5 DEF ServerBind, Threads
<1>6. CASE MainWait
  <2>1. Go("client", "connect") \/ Go("client", "spin")
    BY <1>6 DEF MainWait
  <2>2. QED
    BY <1>1, <1>2, <1>6, <2>1 DEF MainWait, Threads
<1>7. CASE MainConnect
  BY <1>1, <1>2, <1>7 DEF MainConnect, Threads
<1>8. CASE Interrupt
  BY <1>1, <1>8 DEF Interrupt, Threads
<1>9. CASE MainJoin
  BY <1>1, <1>2, <1>9 DEF MainJoin, Threads
<1>10. ASSUME NEW h \in Handlers, LeaveLoop(h) PROVE Threads'
  <2>1. Go(h, "done") \/ (h = "client" /\ Go(h, "join"))
    BY <1>10 DEF LeaveLoop, Behind
  <2>2. QED
    BY <1>1, <1>2, <1>10, <2>1 DEF LeaveLoop, Threads
<1>11. ASSUME NEW h \in Handlers, Update(h) PROVE Threads'
  <2>1. Go(h, "drain") \/ Crash
    BY <1>11 DEF Update
  <2>2. UNCHANGED <<running, serverUp>>
    BY <1>11 DEF Update
  <2>3. QED
    BY <1>1, <1>2, <1>3, <2>1, <2>2 DEF Threads
<1>12. ASSUME NEW h \in Handlers, NEW last \in W!Slots, SendLoop(h, last)
       PROVE  Threads'
  <2>1. Go(h, "idle") /\ UNCHANGED <<running, serverUp>>
    BY <1>12 DEF SendLoop
  <2>2. QED
    BY <1>1, <1>2, <2>1 DEF Threads
<1>13. ASSUME NEW l \in Lines, TypeLine(l) PROVE Threads'
  <2>1. Go("client", "typed") \/ Crash
    BY <1>13 DEF TypeLine
  <2>2. UNCHANGED <<running, serverUp>>
    BY <1>13 DEF TypeLine
  <2>3. QED
    BY <1>1, <1>2, <1>3, <2>1, <2>2 DEF Threads
<1>14. ASSUME NEW d, Receive(d.to, d) PROVE Threads'
  <2>1. UNCHANGED at \/ Crash
    BY <1>14 DEF Receive, DropHandled, ReceiveNormal, ReceiveAcknowledge, ReceiveReject
  <2>2. UNCHANGED <<running, serverUp>>
    BY <1>14 DEF Receive
  <2>3. QED
    BY <1>1, <1>3, <2>1, <2>2 DEF Threads
<1>15. ASSUME NEW d, Lose(d) PROVE Threads'
  BY <1>1, <1>15 DEF Lose, threads, Threads
<1>16. CASE Tick
  BY <1>1, <1>16 DEF Tick, threads, Threads
<1>17. CASE GetLine
  BY <1>1, <1>2, <1>17 DEF GetLine, Threads
<1>18. ASSUME NEW h \in Handlers, SocketFails(h) PROVE Threads'
  <2>1. /\ Go(h, "done") \/ (h = "client" /\ Go(h, "join"))
        /\ UNCHANGED <<running, serverUp>>
    BY <1>18 DEF SocketFails, Behind
  <2>2. QED
    BY <1>1, <1>2, <2>1 DEF Threads
<1>19. QED
  BY <1>4, <1>5, <1>6, <1>7, <1>8, <1>9, <1>10, <1>11, <1>12, <1>13, <1>14, <1>15,
     <1>16, <1>17, <1>18
     DEF Next

-----------------------------------------------------------------------------
(***************************************************************************)
(* Steps that enter nothing in the books.                                  *)
(***************************************************************************)
LEMMA QuietStep ==
    ASSUME NEW book, Explains(book), Records, UNCHANGED <<history, handled>>,
           DOMAIN rtable' = Handlers, DOMAIN wtable' = Handlers,
           \A h \in Handlers : Fits(book, h, wtable'[h], rtable'[h]),
           \A d \in net' : d \in net \/ DatagramInv(book, d)
    PROVE  Records' /\ Explains(book)'
<1>1. Records'
  BY DEF Records, history
<1>2. Matches(book)'
  BY DEF Explains, Matches, history, Calls
<1>3. \A d \in net' : DatagramInv(book, d)
  BY DEF Explains
<1>4. Consistent(book)
  BY DEF Explains
<1>5. QED
  BY <1>1, <1>2, <1>3, <1>4 DEF Explains

\* What explained books say of the tables of one handler.
LEMMA ExplainedParts ==
    ASSUME NEW book, Explains(book), Records, NEW h \in Handlers
    PROVE  /\ Consistent(book)
           /\ WriteInv(book, h, wtable[h]) /\ WP!TableInv(wtable[h])
           /\ ReadInv(book, h, rtable[h]) /\ Shelf(rtable[h])
           /\ Unfinished(rtable[h])
           /\ DOMAIN rtable = Handlers /\ DOMAIN wtable = Handlers
           /\ Fits(book, h, wtable[h], rtable[h])
  BY DEF Explains, Fits, WriteInv, ReadInv, Records

\* Threads take turns.
LEMMA ThreadSteps ==
    ASSUME NEW book, Explains(book), Records, UNCHANGED <<tables, net, history>>
    PROVE  Records' /\ Explains(book)'
<1>1. /\ DOMAIN rtable' = Handlers /\ DOMAIN wtable' = Handlers
      /\ \A h \in Handlers : Fits(book, h, wtable'[h], rtable'[h])
      /\ UNCHANGED <<history, handled>> /\ net' = net
  BY ExplainedParts DEF tables, Records
<1>2. QED
  BY <1>1, QuietStep

\* Sections are lost, or nothing happens to the tables.
LEMMA LoseStep ==
    ASSUME NEW book, Explains(book), Records, NEW d, Lose(d)
    PROVE  Records' /\ Explains(book)'
<1>1. /\ DOMAIN rtable' = Handlers /\ DOMAIN wtable' = Handlers
      /\ \A h \in Handlers : Fits(book, h, wtable'[h], rtable'[h])
      /\ UNCHANGED <<history, handled>> /\ net' \subseteq net
  BY ExplainedParts DEF tables, Records, Lose
<1>2. QED
  BY <1>1, QuietStep

\* Time passes.
LEMMA TickStep ==
    ASSUME NEW book, Explains(book), Records, Tick
    PROVE  Records' /\ Explains(book)'
<1>1. /\ DOMAIN rtable' = Handlers /\ DOMAIN wtable' = Handlers
      /\ UNCHANGED <<history, handled>> /\ net' = net
      /\ \A h \in Handlers : /\ rtable'[h] = R!AgeTable(rtable[h])
                             /\ wtable'[h] = W!AgeTable(wtable[h])
  BY DEF Tick
<1>2. ASSUME NEW h \in Handlers
      PROVE  Fits(book, h, wtable'[h], rtable'[h])
  <2> DEFINE w == wtable[h]
             u == W!AgeTable(w)
             r == rtable[h]
             s == R!AgeTable(r)
  <2>1. /\ WriteInv(book, h, w) /\ WP!TableInv(w)
        /\ ReadInv(book, h, r) /\ Shelf(r) /\ Unfinished(r)
    BY ExplainedParts
  <2>2. /\ WP!TableInv(u) /\ W!Live(u) = W!Live(w)
        /\ \A j \in W!Live(w) : /\ SameSlot(w, u, j)
                                /\ w.info[j].time = W!Untimed => u.info[j].time = W!Untimed
    BY <2>1, AgeWrite
  <2>3. /\ Shelf(s) /\ R!Live(s) = R!Live(r)
        /\ \A j \in R!Live(s) : Keeps(r, s, j)
    BY <2>1, AgeRead
  <2>4. wtable'[h] = u /\ rtable'[h] = s
    BY <1>1
  <2> HIDE DEF w, u, r, s
  <2>5. Carried(book, h, w, u, {})
    BY <2>2 DEF Carried
  <2>6. Spares(r, s)
    BY <2>3 DEF Spares
  <2>7. WriteInv(book, h, u)
    BY <2>1, <2>5, SameGrows, QuietKept
  <2>8. ReadInv(book, h, s) /\ Unfinished(s)
    BY <2>1, <2>6, SameGrows, ReadKept
  <2>9. QED
    BY <2>4, <2>7, <2>8 DEF Fits
<1>3. QED
  BY <1>1, <1>2, QuietStep

\* The expiry loops.
LEMMA UpdateStep ==
    ASSUME NEW book, Explains(book), Records, NEW h \in Handlers, Update(h)
    PROVE  Records' /\ Explains(book)'
<1> DEFINE w == wtable[h]
           u == WExpiring(w)[MaxPackets]
           r == rtable[h]
           s == RExpiring(r)[MaxPackets]
<1>1. /\ WriteInv(book, h, w) /\ WP!TableInv(w)
      /\ ReadInv(book, h, r) /\ Shelf(r) /\ Unfinished(r)
  BY ExplainedParts
<1>2. Survives(w, u)
  BY <1>1, ExpireWrite
<1>3. Spares(r, s)
  BY <1>1, ExpireRead
<1>4. /\ DOMAIN rtable' = Handlers /\ DOMAIN wtable' = Handlers
      /\ UNCHANGED <<history, handled>> /\ net' = net
      /\ rtable'[h] = s /\ wtable'[h] = u
      /\ \A g \in Handlers \ {h} : rtable'[g] = rtable[g] /\ wtable'[g] = wtable[g]
  BY ExplainedParts DEF Update
<1> HIDE DEF w, u, r, s
<1>5. WriteInv(book, h, u)
  BY <1>1, <1>2, SameGrows, SurvivorsKept
<1>6. ReadInv(book, h, s) /\ Unfinished(s)
  BY <1>1, <1>3, SameGrows, ReadKept
<1>7. ASSUME NEW g \in Handlers
      PROVE  Fits(book, g, wtable'[g], rtable'[g])
  <2>1. CASE g = h
    BY <1>4, <1>5, <1>6, <2>1 DEF Fits
  <2>2. CASE g # h
    BY <1>4, <2>2, ExplainedParts
  <2>3. QED
    BY <2>1, <2>2
<1>8. QED
  BY <1>4, <1>7, QuietStep

\* What is sent is of the packets and answers in the table.
LEMMA SendLoopStep ==
    ASSUME NEW book, Explains(book), Records, NEW h \in Handlers,
           SocketFails(h) \/ \E last \in W!Slots : SendLoop(h, last)
    PROVE  Records' /\ Explains(book)'
<1> DEFINE w == wtable[h]
           ready == { i \in W!Slots : w.info[i].ready }
<1>1. /\ DOMAIN rtable' = Handlers /\ DOMAIN wtable' = Handlers
      /\ \A g \in Handlers : Fits(book, g, wtable'[g], rtable'[g])
      /\ UNCHANGED <<history, handled>>
  BY ExplainedParts DEF tables, Records, SendLoop, SocketFails
<1>2. net' \subseteq net \union UNION { W!DatagramsOf(w, i) : i \in ready }
  <2>1. CASE SocketFails(h)
    BY <2>1 DEF SocketFails
  <2>2. CASE \E last \in W!Slots : SendLoop(h, last)
    <3>1. PICK due \in SUBSET ready :
             net' = net \union UNION { W!DatagramsOf(w, i) : i \in due }
      BY <2>2 DEF SendLoop
    <3>2. QED
      BY <3>1
  <2>3. QED
    BY <2>1, <2>2
<1>3. ASSUME NEW d \in net', d \notin net
      PROVE  DatagramInv(book, d)
  <2>1. PICK i \in ready : d \in W!DatagramsOf(w, i)
    BY <1>2, <1>3
  <2>2. i \in W!Slots /\ w.info[i].ready
    OBVIOUS
  <2>3. WriteInv(book, h, w)
    BY ExplainedParts
  <2>4. QED
    BY <2>1, <2>2, <2>3, SentDatagrams
<1>4. QED
  BY <1>1, <1>3, QuietStep

\* Datagrams that change nothing.
LEMMA IgnoreStep ==
    ASSUME NEW book, Explains(book), Records, NEW h, NEW d,
           DropHandled(h, d) \/ (ReceiveNormal(h, d) /\ Ignore(h, d))
    PROVE  Records' /\ Explains(book)'
<1>1. UNCHANGED <<tables, net, history>>
  BY DEF DropHandled, Ignore
<1>2. QED
  BY <1>1, ThreadSteps

\* The answers to a section.
LEMMA AnswerType ==
    ASSUME NEW book, Explains(book), NEW h \in Handlers, NEW d \in net, d.to = h,
           d.type = "Normal", NEW type \in {"Acknowledge", "Reject"}
    PROVE  LET answer == Answer(h, type, d)
           IN  /\ answer \in [type : {"Acknowledge", "Reject"}, id : PacketIds,
                              index : 0 .. WordBits - 1, rev : {0}, to : Handlers]
               /\ answer.type = type /\ answer.id = d.id /\ answer.to = Other(h)
               /\ book.said[Other(h)][d.id] # {}
<1>1. DatagramInv(book, d) /\ Consistent(book)
  BY DEF Explains
<1>2. /\ book.said[Other(h)][d.id] # {}
      /\ d.rev = 0 /\ d.index \in 0 .. WordBits - 1
  BY <1>1, NormalDatagram
<1>3. d.id \in PacketIds /\ Other(h) \in Handlers
  BY <1>1, OtherType DEF DatagramInv
<1>4. 0 \in 0 .. WordBits - 1
  BY ConstantTypes
<1>5. QED
  BY <1>2, <1>3, <1>4 DEF Answer

\* A rejection is queued or sent.
LEMMA RefuseStep ==
    ASSUME NEW book, Explains(book), Records, NEW h \in Handlers, NEW d \in net,
           d.to = h, d.type = "Normal", Refuse(h, d)
    PROVE  Records' /\ Explains(book)'
<1> DEFINE answer == Answer(h, "Reject", d)
           w == Answered(h, answer)
<1>1. /\ answer \in [type : {"Acknowledge", "Reject"}, id : PacketIds,
                     index : 0 .. WordBits - 1, rev : {0}, to : Handlers]
      /\ answer.type = "Reject" /\ answer.to = Other(h)
      /\ book.said[Other(h)][answer.id] # {}
  BY AnswerType
<1>2. /\ wtable' = [wtable EXCEPT ![h] = w]
      /\ SendAtOnce(h, answer)
      /\ UNCHANGED <<rtable, handled, history>>
  BY DEF Refuse
<1> HIDE DEF answer
<1>3. WriteInv(book, h, w) /\ DatagramInv(book, W!AnswerDatagram(answer))
  <2>1. WriteInv(book, h, wtable[h])
    BY ExplainedParts
  <2>2. answer.type # "Acknowledge"
    BY <1>1
  <2>3. QED
    BY <1>1, <2>1, <2>2, SameGrows, AnswerKept
<1>4. \A x \in net' : x \in net \/ DatagramInv(book, x)
  BY <1>2, <1>3 DEF SendAtOnce
<1> HIDE DEF w
<1>5. ASSUME NEW g \in Handlers
      PROVE  Fits(book, g, wtable'[g], rtable'[g])
  <2>1. Fits(book, g, wtable[g], rtable[g]) /\ DOMAIN wtable = Handlers
    BY ExplainedParts
  <2>2. wtable'[g] = (IF g = h THEN w ELSE wtable[g]) /\ rtable'[g] = rtable[g]
    BY <1>2, <2>1
  <2>3. QED
    BY <1>3, <2>1, <2>2 DEF Fits
<1>6. DOMAIN rtable' = Handlers /\ DOMAIN wtable' = Handlers
  BY <1>2, ExplainedParts
<1>7. QED
  BY <1>2, <1>4, <1>5, <1>6, QuietStep

\* The write table of one handler changes, and nothing else of the tables.
LEMMA WriteOnly ==
    ASSUME NEW book, Explains(book), Records, NEW h \in Handlers, NEW u,
           WriteInv(book, h, u), wtable' = [wtable EXCEPT ![h] = u],
           UNCHANGED <<rtable, handled, history, net>>
    PROVE  Records' /\ Explains(book)'
<1>1. ASSUME NEW g \in Handlers
      PROVE  Fits(book, g, wtable'[g], rtable'[g])
  <2>1. Fits(book, g, wtable[g], rtable[g]) /\ DOMAIN wtable = Handlers
    BY ExplainedParts
  <2>2. wtable'[g] = (IF g = h THEN u ELSE wtable[g]) /\ rtable'[g] = rtable[g]
    BY <2>1
  <2>3. QED
    BY <2>1, <2>2 DEF Fits
<1>2. DOMAIN rtable' = Handlers /\ DOMAIN wtable' = Handlers
  BY ExplainedParts
<1>3. QED
  BY <1>1, <1>2, QuietStep

\* An acknowledgement gives a time to a packet with its id.
LEMMA AcknowledgeStep ==
    ASSUME NEW book, Explains(book), Records, NEW h \in Handlers, NEW d \in net,
           d.to = h, ReceiveAcknowledge(h, d)
    PROVE  Records' /\ Explains(book)'
<1> DEFINE w == wtable[h]
           i == First(w, W!Slots, d.id)
           u == [w EXCEPT !.info[i].time = 0]
<1>1. /\ WriteInv(book, h, w) /\ WP!TableInv(w) /\ DOMAIN wtable = Handlers
  BY ExplainedParts
<1>2. d.id \in PacketIds /\ Acknowledged(book, h, d.id)
  BY DEF Explains, DatagramInv, ReceiveAcknowledge
<1>3. CASE W!HasUsedPacketID(w, d.id)
  <2>1. \E j \in W!Slots : w.info[j].id = d.id
    BY <1>3 DEF W!HasUsedPacketID
  <2>2. i \in W!Slots /\ w.info[i].id = d.id
    BY <2>1, FirstSlot
  <2>3. wtable' = [wtable EXCEPT ![h].info[i].time = 0]
    BY <1>3 DEF ReceiveAcknowledge
  <2>4. wtable' = [wtable EXCEPT ![h] = u]
    BY <2>3
  <2> HIDE DEF i
  <2>5. /\ WP!TableInv(u)
        /\ W!Live(u) = W!Live(w)
        /\ \A j \in W!Live(w) :
              /\ SameSlot(w, u, j)
              /\ j # i => u.info[j].time = w.info[j].time
    BY <1>1, <2>2, AcknowledgeWrite
  <2> HIDE DEF u, w
  <2>6. Carried(book, h, w, u, {})
    BY <1>2, <2>2, <2>5 DEF Carried
  <2>7. WriteInv(book, h, u)
    BY <1>1, <2>6, SameGrows, QuietKept
  <2>8. QED
    BY <2>4, <2>7, WriteOnly DEF ReceiveAcknowledge
<1>4. CASE ~W!HasUsedPacketID(w, d.id)
  <2>1. UNCHANGED <<tables, net, history>>
    BY <1>4 DEF ReceiveAcknowledge, tables
  <2>2. QED
    BY <2>1, ThreadSteps
<1>5. QED
  BY <1>3, <1>4

\* A rejection frees a packet with its id.
LEMMA RejectStep ==
    ASSUME NEW book, Explains(book), Records, NEW h \in Handlers, NEW d \in net,
           d.to = h, ReceiveReject(h, d)
    PROVE  Records' /\ Explains(book)'
<1> DEFINE w == wtable[h]
           i == First(w, W!Slots, d.id)
           u == W!FreeWritePacket(w, i)
<1>1. /\ WriteInv(book, h, w) /\ WP!TableInv(w) /\ DOMAIN wtable = Handlers
  BY ExplainedParts
<1>2. d.id \in PacketIds /\ d.id # NoId
  BY ConstantTypes DEF Explains, DatagramInv
<1>3. CASE W!HasUsedPacketID(w, d.id)
  <2>1. \E j \in W!Slots : w.info[j].id = d.id
    BY <1>3 DEF W!HasUsedPacketID
  <2>2. i \in W!Slots /\ w.info[i].id = d.id
    BY <2>1, FirstSlot
  <2>3. i \in W!Live(w)
    BY <1>2, <2>2 DEF W!Live
  <2>4. wtable' = [wtable EXCEPT ![h] = u]
    BY <1>3 DEF ReceiveReject
  <2> HIDE DEF i
  <2>5. /\ WP!TableInv(u)
        /\ W!Live(u) = W!Live(w) \ {i}
        /\ \A j \in W!Live(u) : /\ SameSlot(w, u, j)
                                /\ u.info[j].time = w.info[j].time
    BY <1>1, <2>3, FreeWrite
  <2> HIDE DEF u, w
  <2>6. Survives(w, u)
    BY <2>5 DEF Survives
  <2>7. WriteInv(book, h, u)
    BY <1>1, <2>6, SameGrows, SurvivorsKept
  <2>8. QED
    BY <2>4, <2>7, WriteOnly DEF ReceiveReject
<1>4. CASE ~W!HasUsedPacketID(w, d.id)
  <2>1. UNCHANGED <<tables, net, history>>
    BY <1>4 DEF ReceiveReject, tables
  <2>2. QED
    BY <2>1, ThreadSteps
<1>5. QED
  BY <1>3, <1>4

-----------------------------------------------------------------------------
(***************************************************************************)
(* Steps that make entries: lines that are typed and packets delivered.    *)
(***************************************************************************)
LEMMA FitsGrows ==
    ASSUME NEW book, NEW new, Grows(book, new), NEW h \in Handlers, NEW w, NEW r,
           Fits(book, h, w, r)
    PROVE  Fits(new, h, w, r)
<1>1. WriteInv(new, h, w)
  BY SameKept DEF Fits
<1>2. Spares(r, r)
  BY DEF Fits, ReadInv, Spares, Keeps
<1>3. QED
  BY <1>1, <1>2, ReadKept DEF Fits

\* What TypeLine does to the books.
LEMMA TypeLineStep ==
    ASSUME NEW book, Explains(book), Records, NEW l \in Lines, TypeLine(l)
    PROVE  \E new :
              /\ Records' /\ Explains(new)'
              /\ UNCHANGED <<handled, delivered>>
              /\ wtable'["server"] = wtable["server"]
              /\ \/ new = Line(book, NoId)
                 \/ \E id \in PacketIds :
                       new = Say(Line(book, id), "client", id, Text(l))
<1> DEFINE w == wtable["client"]
<1>1. /\ l = Len(typed) + 1 /\ UNCHANGED <<rtable, handled, net, delivered>>
  BY DEF TypeLine
<1>2. /\ Consistent(book) /\ Matches(book) /\ WriteInv(book, "client", w)
      /\ WP!TableInv(w) /\ DOMAIN wtable = Handlers /\ DOMAIN rtable = Handlers
      /\ \A g \in Handlers : Fits(book, g, wtable[g], rtable[g])
      /\ "client" \in Handlers /\ "server" \in Handlers
      /\ Other("client") = "server" /\ book \in Books
  BY ExplainedParts DEF Explains, Handlers, Other, Matches
<1>3. book.typed = typed /\ typed \in Seq(PacketIds \union {NoId})
      /\ book.drawn = drawn /\ book.reused = reused
      /\ book.calls = [g \in Handlers |-> Calls(g)]
  BY <1>2, BookParts DEF Matches
<1>4. ASSUME NEW id \in PacketIds \union {NoId}, typed' = Append(typed, id)
      PROVE  Len(typed') <= Len(LineSize)
  <2>1. Len(typed') = Len(typed) + 1
    BY <1>3, <1>4
  <2>2. QED
    BY <1>1, <2>1, ConstantTypes
<1>5. CASE /\ typed' = Append(typed, NoId)
           /\ UNCHANGED <<wtable, drawn, reused>>
  <2>1. PICK new : new = Line(book, NoId)
    OBVIOUS
  <2>2. Consistent(new) /\ Grows(book, new)
    BY <1>2, <2>1, LineEntry
  <2>3. Matches(new)'
    BY <1>1, <1>3, <1>5, <2>1, <2>2 DEF Matches, Line, Calls, Consistent
  <2>4. \A d \in net' : DatagramInv(new, d)
    BY <1>1, <2>2, DatagramGrows DEF Explains
  <2>5. \A g \in Handlers : Fits(new, g, wtable'[g], rtable'[g])
    BY <1>1, <1>2, <1>5, <2>2, FitsGrows
  <2>6. Explains(new)'
    BY <2>2, <2>3, <2>4, <2>5 DEF Explains
  <2>7. Records'
    BY <1>1, <1>4, <1>5 DEF Records
  <2>8. QED
    BY <1>1, <1>5, <2>1, <2>6, <2>7
<1>6. ASSUME NEW id \in FreshIds("client"),
             wtable' = [wtable EXCEPT !["client"] = Queued(@, id, Text(l), "server")],
             typed' = Append(typed, id), Draw("client", id),
             W!CanAllocate(w, LineSize[l])
      PROVE  \E new : /\ Records' /\ Explains(new)'
                      /\ new = Say(Line(book, id), "client", id, Text(l))
  <2> DEFINE data == Text(l)
             u == Queued(w, id, data, "server")
             i == First(w, W!Slots, NoId)
  <2>1. id \in PacketIds /\ ~W!HasUsedPacketID(w, id)
    BY <1>6 DEF FreshIds
  <2>2. LineSize[l] \in Nat /\ LineSize[l] \in Sizes
    BY ConstantTypes DEF Sizes
  <2>3. data \in Data /\ Len(data) = LineSize[l]
    <3>1. \A c \in 1 .. LineSize[l] : <<l, c - 1>> \in W!Cell
      <4>1. \A c \in 1 .. LineSize[l] : c - 1 \in Nat
        BY <2>2
      <4>2. QED
        BY <4>1 DEF W!Cell
    <3>2. data \in [1 .. LineSize[l] -> W!Cell]
      BY <3>1 DEF Text
    <3>3. QED
      BY <2>2, <3>2 DEF Data
  <2> HIDE DEF data, i
  <2>4. /\ WP!TableInv(u)
        /\ i \in W!Slots \ W!Live(w)
        /\ W!Live(u) = W!Live(w) \union {i}
        /\ u.info[i].type = "Normal" /\ u.info[i].id = id
        /\ u.info[i].to = "server" /\ u.info[i].time = W!Untimed
        /\ Held(u, i) = data
        /\ \A j \in W!Live(w) : /\ SameSlot(w, u, j)
                                /\ u.info[j].time = w.info[j].time
    BY <1>2, <1>6, <2>1, <2>3, QueuePacket DEF i
  <2>5. PICK line : line = Line(book, id)
    OBVIOUS
  <2>6. PICK new : new = Say(line, "client", id, data)
    OBVIOUS
  <2>7. Consistent(line) /\ Grows(book, line)
    BY <1>2, <2>1, <2>5, LineEntry
  <2>8. /\ l \in DOMAIN line.typed /\ line.typed[l] = id
    BY <1>1, <1>3, <2>1, <2>5 DEF Line
  <2>9. Consistent(new) /\ Grows(line, new) /\ data \in new.said["client"][id]
    <3>1. \E k \in Lines : /\ k \in DOMAIN line.typed
                           /\ line.typed[k] = id /\ data = Text(k)
      BY <2>8 DEF data
    <3>2. "client" # "server"
      OBVIOUS
    <3>3. Len(data) \in Sizes
      BY <2>2, <2>3
    <3>4. QED
      BY <1>2, <2>1, <2>3, <2>6, <2>7, <3>1, <3>2, <3>3, SayEntry
  <2>10. Grows(book, new)
    BY <2>7, <2>9, GrowsStep
  <2>11. wtable'["client"] = u /\ wtable'["server"] = wtable["server"]
    BY <1>2, <1>6 DEF data
  <2> HIDE DEF u, w
  <2>12. WriteInv(new, "client", u)
    <3>1. WriteSlotInv(new, "client", u, i)
      BY <1>2, <2>4, <2>9 DEF WriteSlotInv
    <3>2. Carried(book, "client", w, u, {i})
      BY <2>4 DEF Carried
    <3>3. QED
      BY <1>2, <2>10, <3>1, <3>2, WriteKept
  <2>13. ASSUME NEW g \in Handlers
         PROVE  Fits(new, g, wtable'[g], rtable'[g])
    <3>1. Fits(new, g, wtable[g], rtable[g]) /\ rtable'[g] = rtable[g]
      BY <1>1, <1>2, <2>10, FitsGrows
    <3>2. CASE g = "client"
      BY <2>11, <2>12, <3>1, <3>2 DEF Fits
    <3>3. CASE g = "server"
      BY <2>11, <3>1, <3>3
    <3>4. QED
      BY <3>2, <3>3 DEF Handlers
  <2>14. Matches(new)'
    <3>1. new.drawn = drawn' /\ new.reused = reused'
      BY <1>3, <1>6, <2>5, <2>6 DEF Draw, Say, Line
    <3>2. new.typed = typed' /\ new.calls = [g \in Handlers |-> Calls(g)]'
      BY <1>1, <1>3, <1>6, <2>5, <2>6 DEF Say, Line, Calls
    <3>3. QED
      BY <2>9, <3>1, <3>2 DEF Matches, Consistent
  <2>15. \A d \in net' : DatagramInv(new, d)
    BY <1>1, <2>10, DatagramGrows DEF Explains
  <2>16. Explains(new)'
    BY <2>9, <2>13, <2>14, <2>15 DEF Explains
  <2>17. Records'
    <3>1. Len(typed') <= Len(LineSize)
      BY <1>4, <1>6, <2>1
    <3>2. \A h \in Handlers : reused'[h] \subseteq drawn'[h]
      <4>1. \A h \in Handlers : reused[h] \subseteq drawn[h]
        BY DEF Records
      <4>2. /\ drawn \in [Handlers -> SUBSET PacketIds]
            /\ reused \in [Handlers -> SUBSET PacketIds]
        BY <1>2, <1>3, BookParts
      <4>3. QED
        BY <1>2, <1>6, <4>1, <4>2 DEF Draw
    <3>3. QED
      BY <1>1, <1>6, <3>1, <3>2 DEF Records
  <2>18. QED
    BY <2>5, <2>6, <2>16, <2>17 DEF data
<1>7. \/ /\ typed' = Append(typed, NoId) /\ UNCHANGED <<wtable, drawn, reused>>
      \/ /\ W!CanAllocate(w, LineSize[l])
         /\ \E id \in FreshIds("client") :
              /\ wtable' = [wtable EXCEPT !["client"] = Queued(@, id, Text(l), "server")]
              /\ typed' = Append(typed, id)
              /\ Draw("client", id)
  BY DEF TypeLine
<1>8. QED
  <2>1. CASE typed' = Append(typed, NoId) /\ UNCHANGED <<wtable, drawn, reused>>
    BY <1>5, <2>1
  <2>2. ASSUME NEW id \in FreshIds("client"), W!CanAllocate(w, LineSize[l]),
               wtable' = [wtable EXCEPT !["client"] = Queued(@, id, Text(l), "server")],
               typed' = Append(typed, id), Draw("client", id)
        PROVE  \E new :
              /\ Records' /\ Explains(new)'
              /\ UNCHANGED <<handled, delivered>>
              /\ wtable'["server"] = wtable["server"]
              /\ \/ new = Line(book, NoId)
                 \/ \E x \in PacketIds :
                       new = Say(Line(book, x), "client", x, Text(l))
    <3>1. PICK new : /\ Records' /\ Explains(new)'
                     /\ new = Say(Line(book, id), "client", id, Text(l))
      BY <1>6, <2>2
    <3>2. id \in PacketIds
      BY DEF FreshIds
    <3>3. wtable'["server"] = wtable["server"]
      BY <1>2, <2>2
    <3>4. QED
      BY <1>1, <3>1, <3>2, <3>3
  <2>3. QED
    BY <1>7, <2>1, <2>2

\* What a packet that is delivered does to the books: it is called with, and
\* the server may send it back.
Delivers(book, new, h, d) ==
    LET w == Answered(h, Answer(h, "Acknowledge", d))
    IN  \E Q \in Data :
          /\ Q # << >>
          /\ \E P \in book.said[Other(h)][d.id] : P # << >> /\ Q[1] = P[1]
          /\ handled' = [handled EXCEPT ![h] = Ring!Insert(@, d.id)]
          /\ delivered' = [delivered EXCEPT ![h] = Append(@, Q)]
          /\ \/ /\ new = Call(book, h, Q)
                /\ wtable' = [wtable EXCEPT ![h] = w]
             \/ \E id \in PacketIds :
                   /\ h = "server"
                   /\ new = Say(Call(book, "server", Q), "server", id, Q)
                   /\ ~W!HasUsedPacketID(w, id) /\ W!CanAllocate(w, Len(Q))
                   /\ wtable' = [wtable EXCEPT ![h] = Queued(w, id, Q, "client")]

\* The two outcomes of Accept, with the names the lemmas use.
LEMMA AcceptParts ==
    ASSUME NEW h, NEW d, Accept(h, d)
    PROVE  LET r == rtable[h]
               i == SlotOf(r, d)
               s == Stored(TableFor(r, d), i, d)
               answer == Answer(h, "Acknowledge", d)
               w == Answered(h, answer)
               Q == R!Contents(s, i)
           IN  /\ ~R!HasPacket(r, d.id) => R!CanAllocate(r, d.size)
               /\ SendAtOnce(h, answer)
               /\ UNCHANGED typed
               /\ \/ /\ R!ReadPacketDone(s, i)
                     /\ handled' = [handled EXCEPT ![h] = Ring!Insert(@, d.id)]
                     /\ delivered' = [delivered EXCEPT ![h] = Append(@, Q)]
                     /\ Callback(h, w, Q)
                     /\ rtable' = [rtable EXCEPT ![h] = R!FreeReadPacket(s, i)]
                  \/ /\ ~R!ReadPacketDone(s, i)
                     /\ rtable' = [rtable EXCEPT ![h] = s]
                     /\ wtable' = [wtable EXCEPT ![h] = w]
                     /\ UNCHANGED <<handled, drawn, reused, delivered>>
  BY DEF Accept, SlotOf, TableFor

\* The calls after one more.
LEMMA AppendCalls ==
    ASSUME delivered \in [Handlers -> Seq(Data)], NEW h \in Handlers, NEW Q \in Data,
           delivered' = [delivered EXCEPT ![h] = Append(@, Q)]
    PROVE  /\ delivered' \in [Handlers -> Seq(Data)]
           /\ \A g \in Handlers : Calls(g)' = IF g = h THEN Calls(h) \union {Q} ELSE Calls(g)
<1> DEFINE s == delivered[h]
<1>1. s \in Seq(Data)
  OBVIOUS
<1>2. delivered'[h] = Append(s, Q) /\ \A g \in Handlers \ {h} : delivered'[g] = delivered[g]
  OBVIOUS
<1> HIDE DEF s
<1> DEFINE more == Append(s, Q)
<1>3. /\ more \in Seq(Data) /\ DOMAIN more = 1 .. Len(s) + 1
      /\ DOMAIN s = 1 .. Len(s) /\ Len(s) \in Nat
      /\ more[Len(s) + 1] = Q
      /\ \A n \in 1 .. Len(s) : more[n] = s[n]
  BY <1>1
<1> HIDE DEF more
<1>4. \A n \in 1 .. Len(s) + 1 : n \in 1 .. Len(s) \/ n = Len(s) + 1
  BY <1>3
<1>5. { more[n] : n \in DOMAIN more } = { s[n] : n \in DOMAIN s } \union {Q}
  <2>1. \A n \in 1 .. Len(s) : n \in 1 .. Len(s) + 1
    BY <1>3
  <2>2. Len(s) + 1 \in 1 .. Len(s) + 1
    BY <1>3
  <2>3. { more[n] : n \in DOMAIN more } \subseteq { s[n] : n \in DOMAIN s } \union {Q}
    BY <1>3, <1>4
  <2>4. { s[n] : n \in DOMAIN s } \union {Q} \subseteq { more[n] : n \in DOMAIN more }
    BY <1>3, <2>1, <2>2
  <2>5. QED
    BY <2>3, <2>4
<1>6. Calls(h)' = Calls(h) \union {Q}
  BY <1>2, <1>5 DEF Calls, s, more
<1>7. \A g \in Handlers \ {h} : Calls(g)' = Calls(g)
  BY <1>2 DEF Calls
<1>8. delivered' \in [Handlers -> Seq(Data)]
  BY <1>3 DEF s, more
<1>9. QED
  BY <1>6, <1>7, <1>8

\* The ring stays a ring.
LEMMA InsertType ==
    ASSUME NEW ring \in Ring!RotatingArrays(PacketIds \union {NoId}), NEW id \in PacketIds
    PROVE  Ring!Insert(ring, id) \in Ring!RotatingArrays(PacketIds \union {NoId})
<1>1. (ring.index + 1) % RingSize \in 0 .. RingSize - 1
  <2>1. ring.index + 1 \in Nat /\ RingSize \in Nat \ {0}
    BY ConstantTypes DEF Ring!RotatingArrays, Ring!Position
  <2>2. QED
    BY <2>1, DivisionType
<1>2. QED
  BY <1>1 DEF Ring!Insert, Ring!RotatingArrays, Ring!Position

\* A section that is stored either waits for others or is delivered.
LEMMA AcceptStep ==
    ASSUME NEW book, Explains(book), Records, NEW h \in Handlers, NEW d \in net,
           d.to = h, d.type = "Normal", Accept(h, d)
    PROVE  \E new :
              /\ Records' /\ Explains(new)' /\ UNCHANGED typed
              /\ \/ /\ new = book
                    /\ UNCHANGED <<handled, drawn, reused, delivered>>
                    /\ wtable' = [wtable EXCEPT
                                    ![h] = Answered(h, Answer(h, "Acknowledge", d))]
                 \/ Delivers(book, new, h, d)
<1> DEFINE r == rtable[h]
           i == SlotOf(r, d)
           t == TableFor(r, d)
           s == Stored(t, i, d)
           answer == Answer(h, "Acknowledge", d)
           w == Answered(h, answer)
           Q == R!Contents(s, i)
           from == book.said[Other(h)][d.id]
<1>1. /\ ~R!HasPacket(r, d.id) => R!CanAllocate(r, d.size)
      /\ SendAtOnce(h, answer)
      /\ UNCHANGED typed
      /\ \/ /\ R!ReadPacketDone(s, i)
            /\ handled' = [handled EXCEPT ![h] = Ring!Insert(@, d.id)]
            /\ delivered' = [delivered EXCEPT ![h] = Append(@, Q)]
            /\ Callback(h, w, Q)
            /\ rtable' = [rtable EXCEPT ![h] = R!FreeReadPacket(s, i)]
         \/ /\ ~R!ReadPacketDone(s, i)
            /\ rtable' = [rtable EXCEPT ![h] = s]
            /\ wtable' = [wtable EXCEPT ![h] = w]
            /\ UNCHANGED <<handled, drawn, reused, delivered>>
  BY AcceptParts
<1>2. /\ Consistent(book) /\ Matches(book) /\ book \in Books
      /\ ReadInv(book, h, r) /\ Unfinished(r) /\ WriteInv(book, h, wtable[h])
      /\ DOMAIN wtable = Handlers /\ DOMAIN rtable = Handlers
      /\ \A g \in Handlers : Fits(book, g, wtable[g], rtable[g])
      /\ DatagramInv(book, d) /\ d.id \in PacketIds
      /\ Other(h) \in Handlers /\ Other(Other(h)) = h
  BY ExplainedParts, OtherType DEF Explains, DatagramInv, Matches
<1> HIDE DEF r
<1>3. /\ ReadInv(book, h, t)
      /\ i \in R!Live(t) /\ t.info[i].id = d.id
      /\ \A j \in R!Live(t) \ {i} : SectionSize < t.info[j].size
      /\ t.info[i].size <= SectionSize => t.info[i].size = d.size
  BY <1>1, <1>2, PlaceSection
<1> HIDE DEF i, t
<1>4. /\ ReadInv(book, h, s)
      /\ R!Live(s) = R!Live(t)
      /\ \A j \in R!Live(s) \ {i} : SectionSize < s.info[j].size
      /\ Q \in Data /\ Len(Q) \in Sizes \ {0}
      /\ SectionSize < s.info[i].size \/ R!ReadPacketDone(s, i)
      /\ R!ReadPacketDone(s, i) =>
            /\ \E P \in from : P # << >> /\ Q[1] = P[1]
            /\ Len(Q) <= SectionSize \/ d.id \notin book.reused[Other(h)] =>
                  Q \in from
      /\ d.id \notin book.reused[Other(h)] =>
            \A P \in from : Len(P) <= SectionSize =>
               R!ReadPacketDone(s, i) /\ Q = P
  BY <1>2, <1>3, StoreSection
<1> HIDE DEF s, Q
<1>5. /\ answer \in [type : {"Acknowledge", "Reject"}, id : PacketIds,
                     index : 0 .. WordBits - 1, rev : {0}, to : Handlers]
      /\ answer.type = "Acknowledge" /\ answer.id = d.id /\ answer.to = Other(h)
      /\ from # {}
  BY AnswerType
<1> HIDE DEF answer
\* What becomes of the answer, for whatever the books then say.
<1>6. ASSUME NEW new, Grows(book, new), Acknowledged(new, Other(h), d.id)
      PROVE  WriteInv(new, h, w) /\ \A x \in net' : DatagramInv(new, x)
  <2>1. new.said[Other(h)][answer.id] # {}
    BY <1>2, <1>5, <1>6 DEF Acknowledged
  <2>2. WriteInv(new, h, w) /\ DatagramInv(new, W!AnswerDatagram(answer))
    BY <1>2, <1>5, <1>6, <2>1, AnswerKept
  <2>3. \A x \in net : DatagramInv(new, x)
    BY <1>6, DatagramGrows DEF Explains
  <2>4. QED
    BY <1>1, <2>2, <2>3 DEF SendAtOnce
<1> HIDE DEF w, from
\* The packet is not complete yet.
<1>7. CASE ~R!ReadPacketDone(s, i)
  <2>1. /\ rtable' = [rtable EXCEPT ![h] = s] /\ wtable' = [wtable EXCEPT ![h] = w]
        /\ UNCHANGED <<history, handled>>
    BY <1>1, <1>7 DEF history
  <2>2. Acknowledged(book, Other(h), d.id)
    BY <1>4, <1>5, <1>7 DEF Acknowledged, from
  <2>3. WriteInv(book, h, w) /\ \A x \in net' : DatagramInv(book, x)
    BY <1>6, <2>2, SameGrows
  <2>4. ReadInv(book, h, s) /\ Unfinished(s)
    BY <1>4, <1>7 DEF Unfinished
  <2>5. ASSUME NEW g \in Handlers
        PROVE  Fits(book, g, wtable'[g], rtable'[g])
    <3>1. /\ wtable'[g] = (IF g = h THEN w ELSE wtable[g])
          /\ rtable'[g] = (IF g = h THEN s ELSE rtable[g])
      BY <1>2, <2>1
    <3>2. QED
      BY <1>2, <2>3, <2>4, <3>1 DEF Fits
  <2>6. DOMAIN rtable' = Handlers /\ DOMAIN wtable' = Handlers
    BY <1>2, <2>1
  <2>7. Records' /\ Explains(book)'
    BY <2>1, <2>3, <2>5, <2>6, QuietStep
  <2>8. QED
    BY <1>1, <1>7, <2>7 DEF w, answer
\* The packet is delivered.
<1>8. CASE R!ReadPacketDone(s, i)
  <2> DEFINE u == R!FreeReadPacket(s, i)
  <2>1. /\ handled' = [handled EXCEPT ![h] = Ring!Insert(@, d.id)]
        /\ delivered' = [delivered EXCEPT ![h] = Append(@, Q)]
        /\ Callback(h, w, Q)
        /\ rtable' = [rtable EXCEPT ![h] = u]
    BY <1>1, <1>8
  <2>2. /\ \E P \in from : P # << >> /\ Q[1] = P[1]
        /\ Len(Q) <= SectionSize \/ d.id \notin book.reused[Other(h)] => Q \in from
    BY <1>4, <1>8
  <2>3. PICK call : call = Call(book, h, Q)
    OBVIOUS
  <2>4. Consistent(call) /\ Grows(book, call) /\ Q \in call.calls[h] /\ call \in Books
    <3>1. ASSUME Len(Q) <= SectionSize \/ book.reused[Other(h)] = {}
          PROVE  \E x \in PacketIds : Q \in book.said[Other(h)][x]
      BY <1>2, <2>2, <3>1 DEF from
    <3>2. Consistent(call) /\ Grows(book, call) /\ Q \in call.calls[h]
      BY <1>2, <1>4, <2>3, <3>1, CallEntry
    <3>3. QED
      BY <3>2 DEF Consistent
  <2>5. Acknowledged(call, Other(h), d.id)
    <3>1. call.said = book.said /\ call.reused = book.reused
      BY <2>3 DEF Call
    <3>2. \A P \in from : d.id \notin book.reused[Other(h)] /\ Len(P) <= SectionSize => P = Q
      BY <1>4
    <3>3. QED
      BY <1>2, <1>5, <2>4, <3>1, <3>2 DEF Acknowledged, from
  <2>6. WriteInv(call, h, w) /\ \A x \in net' : DatagramInv(call, x)
    BY <1>6, <2>4, <2>5
  <2>7. ReadInv(book, h, u) /\ Unfinished(u)
    <3>1. Shelf(s) /\ i \in R!Live(s)
      BY <1>3, <1>4 DEF ReadInv
    <3>2. /\ Shelf(u) /\ R!Live(u) = R!Live(s) \ {i}
          /\ \A j \in R!Live(u) : Keeps(s, u, j)
      BY <3>1, FreeRead
    <3> HIDE DEF u
    <3>3. Spares(s, u)
      BY <3>2 DEF Spares
    <3>4. ReadInv(book, h, u)
      BY <1>4, <3>3, SameGrows, ReadKept
    <3>5. Unfinished(u)
      BY <1>4, <3>2 DEF Unfinished, Keeps
    <3>6. QED
      BY <3>4, <3>5
  <2> HIDE DEF u
  <2>8. /\ delivered \in [Handlers -> Seq(Data)]
        /\ handled \in [Handlers -> Ring!RotatingArrays(PacketIds \union {NoId})]
        /\ \A g \in Handlers : reused[g] \subseteq drawn[g]
        /\ Len(typed) <= Len(LineSize)
    BY DEF Records
  <2>9. /\ delivered' \in [Handlers -> Seq(Data)]
        /\ \A g \in Handlers : Calls(g)' = IF g = h THEN Calls(h) \union {Q} ELSE Calls(g)
    BY <1>4, <2>1, <2>8, AppendCalls
  <2>10. handled' \in [Handlers -> Ring!RotatingArrays(PacketIds \union {NoId})]
    BY <1>2, <2>1, <2>8, InsertType
  <2>11. /\ call.typed = typed' /\ call.calls = [g \in Handlers |-> Calls(g)]'
         /\ call.drawn = drawn /\ call.reused = reused
    <3>1. /\ book.typed = typed /\ book.calls = [g \in Handlers |-> Calls(g)]
          /\ book.drawn = drawn /\ book.reused = reused
      BY <1>2 DEF Matches
    <3>2. call.calls = [book.calls EXCEPT ![h] = @ \union {Q}]
          /\ call.typed = book.typed /\ call.drawn = book.drawn
          /\ call.reused = book.reused
      BY <2>3 DEF Call
    <3>3. call.calls = [g \in Handlers |-> IF g = h THEN Calls(h) \union {Q} ELSE Calls(g)]
      BY <3>1, <3>2
    <3>4. call.calls = [g \in Handlers |-> Calls(g)']
      BY <2>9, <3>3
    <3>5. call.typed = typed' /\ call.drawn = drawn /\ call.reused = reused
      BY <1>1, <3>1, <3>2
    <3>6. QED
      BY <3>4, <3>5
  \* Fits and the datagrams, once the write table does.
  <2>12. ASSUME NEW new, Grows(call, new), Consistent(new), NEW v, WriteInv(new, h, v),
                wtable' = [wtable EXCEPT ![h] = v], Matches(new)',
                \A g \in Handlers : reused'[g] \subseteq drawn'[g]
         PROVE  Records' /\ Explains(new)'
    <3>1. Grows(book, new)
      BY <2>4, <2>12, GrowsStep
    <3>2. ReadInv(new, h, u)
      <4>1. Spares(u, u)
        BY <2>7 DEF ReadInv, Spares, Keeps
      <4>2. QED
        BY <2>7, <3>1, <4>1, ReadKept
    <3>3. ASSUME NEW g \in Handlers
          PROVE  Fits(new, g, wtable'[g], rtable'[g])
      <4>1. /\ wtable'[g] = (IF g = h THEN v ELSE wtable[g])
            /\ rtable'[g] = (IF g = h THEN u ELSE rtable[g])
        BY <1>2, <2>1, <2>12
      <4>2. Fits(new, g, wtable[g], rtable[g])
        BY <1>2, <3>1, FitsGrows
      <4>3. QED
        BY <2>7, <2>12, <3>2, <4>1, <4>2 DEF Fits
    <3>4. \A x \in net' : DatagramInv(new, x)
      BY <2>6, <2>12, DatagramGrows
    <3>5. Explains(new)'
      BY <2>12, <3>3, <3>4 DEF Explains
    <3>6. DOMAIN rtable' = Handlers /\ DOMAIN wtable' = Handlers
      BY <1>2, <2>1, <2>12
    <3>7. Records'
      BY <1>1, <2>8, <2>9, <2>10, <2>12, <3>6 DEF Records
    <3>8. QED
      BY <3>5, <3>7
  <2>13. Q # << >>
    <3>1. Len(Q) # 0
      BY <1>4
    <3>2. QED
      BY <3>1
  <2>14. /\ \/ wtable' = [wtable EXCEPT ![h] = w] /\ UNCHANGED <<drawn, reused>>
            \/ /\ h = "server" /\ W!CanAllocate(w, Len(Q))
               /\ \E id \in { x \in PacketIds : ~W!HasUsedPacketID(w, x) } :
                     /\ wtable' = [wtable EXCEPT ![h] = Queued(w, id, Q, "client")]
                     /\ Draw(h, id)
    BY <2>1 DEF Callback
  <2>15. CASE wtable' = [wtable EXCEPT ![h] = w] /\ UNCHANGED <<drawn, reused>>
    <3>1. Matches(call)'
      BY <2>4, <2>11, <2>15 DEF Matches
    <3>2. Records' /\ Explains(call)'
      BY <2>4, <2>6, <2>8, <2>12, <2>15, <3>1, SameGrows
    <3>3. Delivers(book, call, h, d)
      BY <1>4, <2>1, <2>2, <2>3, <2>13, <2>15 DEF Delivers, w, answer, from
    <3>4. QED
      BY <1>1, <3>2, <3>3
  <2>16. ASSUME h = "server", W!CanAllocate(w, Len(Q)),
                NEW id \in PacketIds, ~W!HasUsedPacketID(w, id),
                wtable' = [wtable EXCEPT ![h] = Queued(w, id, Q, "client")],
                Draw(h, id)
         PROVE  \E new : /\ Records' /\ Explains(new)'
                         /\ Delivers(book, new, h, d)
    <3> DEFINE v == Queued(w, id, Q, "client")
               n == First(w, W!Slots, NoId)
    <3>1. PICK new : new = Say(call, "server", id, Q)
      OBVIOUS
    <3>2. Consistent(new) /\ Grows(call, new) /\ Q \in new.said["server"][id]
      <4>1. Len(Q) \in Sizes /\ "server" # "client" /\ "server" \in Handlers
        BY <1>4 DEF Handlers
      <4>2. Q \in call.calls["server"]
        BY <2>4, <2>16
      <4>3. QED
        BY <1>4, <2>4, <2>16, <3>1, <4>1, <4>2, SayEntry
    <3>3. WP!TableInv(w) /\ "client" \in Handlers /\ Other(h) = "client"
      BY <2>6, <2>16 DEF WriteInv, Handlers, Other
    <3>4. /\ WP!TableInv(v)
          /\ n \in W!Slots \ W!Live(w)
          /\ W!Live(v) = W!Live(w) \union {n}
          /\ v.info[n].type = "Normal" /\ v.info[n].id = id
          /\ v.info[n].to = "client" /\ v.info[n].time = W!Untimed
          /\ Held(v, n) = Q
          /\ \A j \in W!Live(w) : /\ SameSlot(w, v, j)
                                  /\ v.info[j].time = w.info[j].time
      BY <1>4, <2>16, <3>3, QueuePacket
    <3>5. wtable' = [wtable EXCEPT ![h] = v]
      BY <2>16
    <3> HIDE DEF v, n
    <3>6. WriteInv(new, h, v)
      <4>1. WriteSlotInv(new, h, v, n)
        BY <2>16, <3>2, <3>3, <3>4 DEF WriteSlotInv
      <4>2. Carried(call, h, w, v, {n})
        BY <3>4 DEF Carried
      <4>3. QED
        BY <2>6, <3>2, <4>1, <4>2, WriteKept
    <3>7. new.drawn = drawn' /\ new.reused = reused'
      BY <2>11, <2>16, <3>1 DEF Draw, Say
    <3>8. new.typed = typed' /\ new.calls = [g \in Handlers |-> Calls(g)]'
      BY <2>11, <3>1 DEF Say
    <3>9. Matches(new)'
      BY <3>2, <3>7, <3>8 DEF Matches, Consistent
    <3>10. \A g \in Handlers : reused'[g] \subseteq drawn'[g]
      <4>1. /\ drawn \in [Handlers -> SUBSET PacketIds]
            /\ reused \in [Handlers -> SUBSET PacketIds]
        BY <2>4, <2>11, BookParts
      <4>2. QED
        BY <2>8, <2>16, <4>1 DEF Draw
    <3>11. Records' /\ Explains(new)'
      BY <2>12, <3>2, <3>5, <3>6, <3>9, <3>10
    <3>12. Delivers(book, new, h, d)
      <4>1. new = Say(Call(book, "server", Q), "server", id, Q)
        BY <2>3, <2>16, <3>1
      <4>2. wtable' = [wtable EXCEPT ![h] = Queued(w, id, Q, "client")]
        BY <2>16
      <4>3. QED
        BY <1>4, <2>1, <2>2, <2>13, <2>16, <4>1, <4>2 DEF Delivers, w, answer, from
    <3>13. QED
      BY <3>11, <3>12
  <2>17. QED
    BY <1>1, <2>14, <2>15, <2>16
<1>9. QED
  BY <1>7, <1>8

-----------------------------------------------------------------------------
(***************************************************************************)
(* The invariant.                                                          *)
(***************************************************************************)
Inv == Threads /\ Records /\ \E book : Explains(book)

EmptyBook == [said   |-> [h \in Handlers |-> [x \in PacketIds |-> {}]],
              drawn  |-> [h \in Handlers |-> {}],
              reused |-> [h \in Handlers |-> {}],
              typed  |-> << >>,
              calls  |-> [h \in Handlers |-> {}]]

\* Empty books explain the initial states.
LEMMA EmptyBookParts == EmptyBook \in Books /\ Consistent(EmptyBook)
<1>1. /\ EmptyBook.said \in [Handlers -> [PacketIds -> SUBSET Data]]
      /\ EmptyBook.drawn \in [Handlers -> SUBSET PacketIds]
      /\ EmptyBook.reused \in [Handlers -> SUBSET PacketIds]
      /\ EmptyBook.typed \in Seq(PacketIds \union {NoId})
      /\ EmptyBook.calls \in [Handlers -> SUBSET Data]
  BY DEF EmptyBook
<1>2. EmptyBook \in Books
  BY <1>1 DEF Books, EmptyBook
<1>3. \A h \in Handlers : EmptyBook.calls[h] = {}
                          /\ \A x \in PacketIds : EmptyBook.said[h][x] = {}
  BY DEF EmptyBook
<1>4. "client" \in Handlers /\ "server" \in Handlers
  BY DEF Handlers
<1> HIDE DEF EmptyBook
<1>5. QED
  BY <1>2, <1>3, <1>4 DEF Consistent

LEMMA ExplainInit ==
    ASSUME Init
    PROVE  Records /\ Explains(EmptyBook)
<1>1. /\ rtable = [h \in Handlers |-> R!EmptyTable]
      /\ wtable = [h \in Handlers |-> W!EmptyTable]
      /\ net = {} /\ typed = << >>
      /\ drawn = [h \in Handlers |-> {}] /\ reused = [h \in Handlers |-> {}]
      /\ delivered = [h \in Handlers |-> << >>]
  BY DEF Init
<1>2. handled \in [Handlers -> Ring!RotatingArrays(PacketIds \union {NoId})]
  <2>1. PICK ring \in Ring!NewRotatingArrays(PacketIds \union {NoId}) :
           handled = [client |-> ring,
                      server |-> [elems |-> [k \in Ring!Position |-> NoId], index |-> 0]]
    BY DEF Init
  <2>2. 0 \in Ring!Position
    BY ConstantTypes DEF Ring!Position
  <2> DEFINE zero == [elems |-> [k \in Ring!Position |-> NoId], index |-> 0]
             Arrays == Ring!RotatingArrays(PacketIds \union {NoId})
  <2>3. ring \in Arrays /\ zero \in Arrays
    BY <2>2 DEF Ring!RotatingArrays, Ring!NewRotatingArrays
  <2> HIDE DEF zero, Arrays
  <2>4. handled = [client |-> ring, server |-> zero]
    BY <2>1 DEF zero
  <2>5. handled \in [Handlers -> Arrays]
    BY <2>3, <2>4 DEF Handlers
  <2>6. QED
    BY <2>5 DEF Arrays
<1>3. Records
  <2>1. Len(typed) = 0 /\ \A h \in Handlers : reused[h] \subseteq drawn[h]
    BY <1>1
  <2>2. delivered \in [Handlers -> Seq(Data)]
    BY <1>1
  <2>3. 0 <= Len(LineSize)
    BY ConstantTypes
  <2>4. QED
    BY <1>1, <1>2, <2>1, <2>2, <2>3 DEF Records
<1>4. Matches(EmptyBook)
  <2>1. [h \in Handlers |-> Calls(h)] = [h \in Handlers |-> {}]
    <3>1. \A h \in Handlers : DOMAIN delivered[h] = {}
      BY <1>1
    <3>2. \A h \in Handlers : Calls(h) = {}
      BY <3>1 DEF Calls
    <3>3. QED
      BY <3>2
  <2>2. QED
    BY <1>1, <2>1, EmptyBookParts DEF Matches, EmptyBook
<1>5. ASSUME NEW h \in Handlers
      PROVE  Fits(EmptyBook, h, wtable[h], rtable[h])
  <2>1. wtable[h] = W!EmptyTable /\ rtable[h] = R!EmptyTable
    BY <1>1
  <2>2. /\ WP!TableInv(W!EmptyTable) /\ W!Live(W!EmptyTable) = {}
        /\ Shelf(R!EmptyTable) /\ R!Live(R!EmptyTable) = {}
    BY EmptyTables
  <2>3. QED
    BY <2>1, <2>2 DEF Fits, WriteInv, ReadInv, Unfinished
<1>6. QED
  BY <1>1, <1>3, <1>4, <1>5, EmptyBookParts DEF Explains

\* What a step enters in the books.
Entered(book, new) ==
    \/ new = book /\ UNCHANGED <<handled, delivered>>
    \/ /\ UNCHANGED <<handled, delivered>>
       /\ wtable'["server"] = wtable["server"]
       /\ \/ new = Line(book, NoId)
          \/ \E l \in Lines : \E id \in PacketIds :
                new = Say(Line(book, id), "client", id, Text(l))
    \/ \E h \in Handlers : \E d \in net :
          /\ d.to = h /\ d.type = "Normal"
          /\ ~Ring!Contains(handled[h], d.id)
          /\ Delivers(book, new, h, d)

\* Every step is explained by books that grew by one entry.
LEMMA NextStep ==
    ASSUME NEW book, Explains(book), Records, [Next]_vars
    PROVE  \E new : Records' /\ Explains(new)' /\ Entered(book, new)
<1> DEFINE Goal == \E new : Records' /\ Explains(new)' /\ Entered(book, new)
<1>q. ASSUME Records' /\ Explains(book)', UNCHANGED <<handled, delivered>>
      PROVE  Goal
  BY <1>q DEF Entered
<1> HIDE DEF Goal
<1>1. CASE UNCHANGED vars
  <2>1. UNCHANGED <<tables, net, history, handled, delivered>>
    BY <1>1 DEF vars, tables, history
  <2>2. QED
    BY <1>q, <2>1, ThreadSteps DEF Goal
<1>2. CASE \/ ServerBind \/ MainWait \/ MainConnect \/ Interrupt \/ MainJoin \/ GetLine
           \/ \E h \in Handlers : LeaveLoop(h)
  <2>1. UNCHANGED <<tables, net, history>>
    BY <1>2 DEF ServerBind, MainWait, MainConnect, Interrupt, MainJoin, GetLine, LeaveLoop
  <2>2. UNCHANGED <<handled, delivered>>
    BY <2>1 DEF tables, history
  <2>3. QED
    BY <1>q, <2>1, <2>2, ThreadSteps DEF Goal
<1>3. ASSUME NEW h \in Handlers, Update(h) PROVE Goal
  <2>1. UNCHANGED <<handled, delivered>>
    BY <1>3 DEF Update, history
  <2>2. QED
    BY <1>q, <1>3, <2>1, UpdateStep
<1>4. ASSUME NEW h \in Handlers, SocketFails(h) \/ \E last \in W!Slots : SendLoop(h, last)
      PROVE  Goal
  <2>1. UNCHANGED <<handled, delivered>>
    BY <1>4 DEF SendLoop, SocketFails, history, tables
  <2>2. QED
    BY <1>q, <1>4, <2>1, SendLoopStep
<1>5. ASSUME NEW l \in Lines, TypeLine(l) PROVE Goal
  <2>1. PICK new :
              /\ Records' /\ Explains(new)'
              /\ UNCHANGED <<handled, delivered>>
              /\ wtable'["server"] = wtable["server"]
              /\ \/ new = Line(book, NoId)
                 \/ \E id \in PacketIds :
                       new = Say(Line(book, id), "client", id, Text(l))
    BY <1>5, TypeLineStep
  <2>2. Entered(book, new)
    BY <2>1 DEF Entered
  <2>3. QED
    BY <2>1, <2>2 DEF Goal
<1>6. ASSUME NEW d \in net, Receive(d.to, d) PROVE Goal
  <2> DEFINE h == d.to
  <2>1. h \in Handlers
    BY DEF Explains, DatagramInv
  <2>2. \/ DropHandled(h, d)
        \/ /\ ~Ring!Contains(handled[h], d.id)
           /\ ReceiveNormal(h, d) \/ ReceiveAcknowledge(h, d) \/ ReceiveReject(h, d)
    BY <1>6 DEF Receive
  <2>3. CASE DropHandled(h, d) \/ (ReceiveNormal(h, d) /\ Ignore(h, d))
    <3>1. UNCHANGED <<handled, delivered>>
      BY <2>3 DEF DropHandled, Ignore, tables, history
    <3>2. QED
      BY <1>q, <2>3, <3>1, IgnoreStep
  <2>4. CASE ReceiveAcknowledge(h, d)
    <3>1. UNCHANGED <<handled, delivered>>
      BY <2>4 DEF ReceiveAcknowledge, history
    <3>2. QED
      BY <1>q, <2>1, <2>4, <3>1, AcknowledgeStep
  <2>5. CASE ReceiveReject(h, d)
    <3>1. UNCHANGED <<handled, delivered>>
      BY <2>5 DEF ReceiveReject, history
    <3>2. QED
      BY <1>q, <2>1, <2>5, <3>1, RejectStep
  <2>6. CASE d.type = "Normal" /\ Refuse(h, d)
    <3>1. UNCHANGED <<handled, delivered>>
      BY <2>6 DEF Refuse, history
    <3>2. QED
      BY <1>q, <2>1, <2>6, <3>1, RefuseStep
  <2>7. CASE d.type = "Normal" /\ Accept(h, d) /\ ~Ring!Contains(handled[h], d.id)
    <3>1. PICK new :
              /\ Records' /\ Explains(new)' /\ UNCHANGED typed
              /\ \/ /\ new = book
                    /\ UNCHANGED <<handled, drawn, reused, delivered>>
                    /\ wtable' = [wtable EXCEPT
                                    ![h] = Answered(h, Answer(h, "Acknowledge", d))]
                 \/ Delivers(book, new, h, d)
      BY <2>1, <2>7, AcceptStep
    <3>2. Entered(book, new)
      BY <2>1, <2>7, <3>1 DEF Entered
    <3>3. QED
      BY <3>1, <3>2 DEF Goal
  <2>8. QED
    BY <2>2, <2>3, <2>4, <2>5, <2>6, <2>7 DEF ReceiveNormal
<1>7. ASSUME NEW d \in net, Lose(d) PROVE Goal
  <2>1. UNCHANGED <<handled, delivered>>
    BY <1>7 DEF Lose, history, tables
  <2>2. QED
    BY <1>q, <1>7, <2>1, LoseStep
<1>8. CASE Tick
  <2>1. UNCHANGED <<handled, delivered>>
    BY <1>8 DEF Tick, history
  <2>2. QED
    BY <1>q, <1>8, <2>1, TickStep DEF Goal
<1>9. QED
  BY <1>1, <1>2, <1>3, <1>4, <1>5, <1>6, <1>7, <1>8 DEF Next, Goal

\* The invariant.
LEMMA InvInit == ASSUME Init PROVE Inv
  BY ThreadsInit, ExplainInit DEF Inv

LEMMA InvStep ==
    ASSUME Inv, [Next]_vars
    PROVE  Inv'
<1>1. PICK book : Explains(book)
  BY DEF Inv
<1>2. Threads'
  BY ThreadsStep DEF Inv
<1>3. PICK new : Records' /\ Explains(new)'
  BY <1>1, NextStep DEF Inv
<1>4. QED
  BY <1>2, <1>3 DEF Inv

LEMMA Invariance == Spec => []Inv
  BY InvInit, InvStep, PTL DEF Spec

-----------------------------------------------------------------------------
(***************************************************************************)
(* What the invariant says of the program.                                 *)
(***************************************************************************)
LEMMA InvTypes == ASSUME Inv PROVE TypeOK
<1>1. PICK book : Explains(book)
  BY DEF Inv
<1>2. Threads /\ Records
  BY DEF Inv
<1>3. /\ at.client \in {"wait", "spin", "connect", "idle", "getline", "typed", "drain",
                        "join", "done", "crashed"}
      /\ at.server \in {"bind", "idle", "drain", "done", "crashed"}
      /\ {running, serverUp} \subseteq BOOLEAN
  <2>1. "client" \in Handlers /\ "server" \in Handlers
    BY DEF Handlers
  <2>2. QED
    BY <1>2, <2>1 DEF Threads
<1>4. book \in Books /\ book.drawn = drawn /\ book.reused = reused /\ book.typed = typed
  BY <1>1 DEF Explains, Matches
<1>5. typed \in Seq(PacketIds \union {NoId}) /\ Len(typed) <= Len(LineSize)
  BY <1>2, <1>4, BookParts DEF Records
<1>6. \A d \in net : d.id \in PacketIds /\ d.to \in Handlers
  BY <1>1 DEF Explains, DatagramInv
<1>7. ASSUME NEW h \in Handlers
      PROVE  /\ rtable[h].info \in [R!Slots -> R!SlotType]
             /\ rtable[h].used \in ScratchSize .. R!BufferSize
             /\ rtable[h].mem \in [R!Address -> W!Cell]
             /\ wtable[h] \in W!Tables
             /\ handled[h] \in Ring!RotatingArrays(PacketIds \union {NoId})
             /\ drawn[h] \subseteq PacketIds /\ reused[h] \subseteq drawn[h]
             /\ \A n \in DOMAIN delivered[h] : delivered[h][n] \in Seq(W!Cell)
  <2>1. Shelf(rtable[h]) /\ WP!TableInv(wtable[h])
    BY <1>1, <1>2, ExplainedParts
  <2>2. rtable[h] \in Shelves /\ wtable[h] \in W!Tables
    BY <2>1, SameValues DEF Shelf, WP!TableInv
  <2>3. drawn[h] \subseteq PacketIds
    BY <1>4, BookParts
  <2>4. \A n \in DOMAIN delivered[h] : delivered[h][n] \in Seq(W!Cell)
    <3>1. delivered[h] \in Seq(Data)
      BY <1>2 DEF Records
    <3>2. QED
      BY <3>1 DEF Data
  <2>5. QED
    BY <1>2, <2>2, <2>3, <2>4 DEF Shelves, Records
<1>8. QED
  BY <1>3, <1>5, <1>6, <1>7 DEF TypeOK

\* What is called was said by the other side, and the client says lines.
LEMMA InvFaithful == ASSUME Inv PROVE EchoFaithful
<1>1. PICK book : Explains(book)
  BY DEF Inv
<1>2. /\ Consistent(book) /\ book.reused = reused /\ book.typed = typed
      /\ \A h \in Handlers : book.calls[h] = Calls(h)
  BY <1>1 DEF Explains, Matches
<1>3. /\ "client" \in Handlers /\ "server" \in Handlers
      /\ Other("client") = "server" /\ Other("server") = "client"
  BY DEF Handlers, Other
<1>4. ASSUME NEW data \in Calls("server"), Unmixed("server", data)
      PROVE  \E l \in SentLines : data = Text(l)
  <2>1. PICK x \in PacketIds : data \in book.said["client"][x]
    BY <1>2, <1>3, <1>4 DEF Consistent, Unmixed
  <2>2. PICK l \in Lines : /\ l \in DOMAIN book.typed
                           /\ book.typed[l] = x /\ data = Text(l)
    BY <1>2, <2>1 DEF Consistent
  <2>3. l \in SentLines
    BY <1>2, <2>1, <2>2, ConstantTypes DEF SentLines
  <2>4. QED
    BY <2>2, <2>3
<1>5. ASSUME NEW data \in Calls("client"), Unmixed("client", data)
      PROVE  data \in Calls("server")
  <2>1. PICK x \in PacketIds : data \in book.said["server"][x]
    BY <1>2, <1>3, <1>5 DEF Consistent, Unmixed
  <2>2. QED
    BY <1>2, <1>3, <2>1 DEF Consistent
<1>6. QED
  BY <1>4, <1>5 DEF EchoFaithful

\* A packet with a time has been acknowledged.
LEMMA InvReached == ASSUME Inv PROVE AckMeansReached
<1>1. PICK book : Explains(book)
  BY DEF Inv
<1>2. /\ book.reused = reused /\ \A h \in Handlers : book.calls[h] = Calls(h)
  BY <1>1 DEF Explains, Matches
<1>3. ASSUME NEW h \in Handlers, NEW i \in W!Packets(wtable[h]),
             wtable[h].info[i].time # W!Untimed,
             wtable[h].info[i].size \in 1 .. SectionSize,
             wtable[h].info[i].id \notin reused[h]
      PROVE  Held(wtable[h], i) \in Calls(Other(h))
  <2> DEFINE w == wtable[h]
             s == w.info[i]
  <2>1. i \in W!Live(w) /\ s.type = "Normal" /\ i \in W!Slots
    BY DEF W!Packets, W!Live
  <2>2. WriteInv(book, h, w) /\ WP!TableInv(w)
    BY <1>1, ExplainedParts DEF Inv
  <2>3. WriteSlotInv(book, h, w, i)
    BY <2>1, <2>2 DEF WriteInv
  <2>4. Held(w, i) \in book.said[h][s.id] /\ Acknowledged(book, h, s.id)
    BY <1>3, <2>1, <2>3 DEF WriteSlotInv
  <2>5. s.size \in Nat /\ SectionSize \in Nat
    BY <2>1, <2>2, WriteSlotParts, ConstantTypes
  <2>6. Len(Held(w, i)) <= SectionSize
    <3>1. Len(Held(w, i)) = s.size
      BY <2>5 DEF Held
    <3>2. QED
      BY <1>3, <2>5, <3>1
  <2>7. Other(h) \in Handlers
    BY OtherType
  <2>8. QED
    BY <1>2, <1>3, <2>4, <2>6, <2>7 DEF Acknowledged
<1>4. QED
  BY <1>3 DEF AckMeansReached, Held

(***************************************************************************)
(* The state keeps its type: no slot, buffer, ring or datagram of either   *)
(* handler leaves its range, whatever the network does and whichever ids   *)
(* are drawn.                                                              *)
(***************************************************************************)
THEOREM TypeCorrectness == Spec => []TypeOK
<1>1. Inv => TypeOK
  BY InvTypes
<1>2. QED
  BY <1>1, Invariance, PTL

(***************************************************************************)
(* The server is only called with whole lines that were sent, and the      *)
(* client only with what the server was called with, for any input, any    *)
(* number of slots and any buffer, as long as sections of several packets  *)
(* cannot meet under one id (see Unmixed).                                 *)
(***************************************************************************)
THEOREM ContentCorrectness == Spec => []EchoFaithful
<1>1. Inv => EchoFaithful
  BY InvFaithful
<1>2. QED
  BY <1>1, Invariance, PTL

(***************************************************************************)
(* A packet of one section whose id was drawn once has a time only if the  *)
(* other side's callback has had it: what acknowledgePacket sends is never *)
(* early, however long it waits in a slot or on the network.               *)
(***************************************************************************)
THEOREM ReachCorrectness == Spec => []AckMeansReached
<1>1. Inv => AckMeansReached
  BY InvReached
<1>2. QED
  BY <1>1, Invariance, PTL

-----------------------------------------------------------------------------
(***************************************************************************)
(* While the ring has an element for every line, nothing is delivered      *)
(* twice.  A packet is known by its first unit, its head: what is delivered*)
(* has the head of a packet that was sent under the same id, and no other  *)
(* id carries that head.                                                   *)
(***************************************************************************)
Enough == Len(LineSize) <= RingSize

\* The server sends a head under one id only.
OneId(book) ==
    \A x, y \in PacketIds : \A P \in book.said["server"][x], Q \in book.said["server"][y] :
        P # << >> /\ Q # << >> /\ P[1] = Q[1] => x = y

\* The ids of what has been delivered to h are all in its ring, the n-th at
\* position n - 1.
Numbered(book, h, del, ring) ==
    /\ Len(del) <= RingSize
    /\ Len(del) < RingSize => ring.index = Len(del)
    /\ \A n \in 1 .. Len(del) :
          /\ del[n] # << >>
          /\ ring.elems[n - 1] \in PacketIds
          /\ \E P \in book.said[Other(h)][ring.elems[n - 1]] :
                P # << >> /\ P[1] = del[n][1]
    /\ \A m, n \in 1 .. Len(del) : del[m][1] = del[n][1] => m = n

OnceInv(book) ==
    /\ OneId(book)
    /\ \A h \in Handlers : Numbered(book, h, delivered[h], handled[h])

\* The heads of the client are the starts of the lines, each under the id it
\* was sent with.
LEMMA ClientHeads ==
    ASSUME NEW book, Consistent(book), NEW x \in PacketIds,
           NEW P \in book.said["client"][x], P # << >>
    PROVE  \E l \in Lines : /\ l \in DOMAIN book.typed
                            /\ book.typed[l] = x /\ P[1] = <<l, 0>>
<1>1. PICK l \in Lines : /\ l \in DOMAIN book.typed
                         /\ book.typed[l] = x /\ P = Text(l)
  BY DEF Consistent
<1>2. LineSize[l] \in Nat /\ LineSize[l] # 0
  <2>1. LineSize[l] \in Nat
    BY ConstantTypes
  <2>2. ASSUME LineSize[l] = 0 PROVE FALSE
    BY <1>1, <2>2 DEF Text
  <2>3. QED
    BY <2>1, <2>2
<1>3. P[1] = <<l, 0>>
  <2>1. 1 \in 1 .. LineSize[l] /\ 1 - 1 = 0
    BY <1>2
  <2>2. QED
    BY <1>1, <2>1 DEF Text
<1>4. QED
  BY <1>1, <1>3

\* Every packet that has been sent starts like a line, and no head is under two
\* ids.
LEMMA Heads ==
    ASSUME NEW book, Explains(book), Records, OnceInv(book), NEW h \in Handlers,
           NEW x \in PacketIds, NEW P \in book.said[h][x], P # << >>
    PROVE  /\ \E l \in Lines : P[1] = <<l, 0>>
           /\ h = "server" => \E n \in 1 .. Len(delivered["server"]) :
                                 delivered["server"][n][1] = P[1]
           /\ \A y \in PacketIds : \A Q \in book.said[h][y] :
                 Q # << >> /\ Q[1] = P[1] => x = y
<1>1. Consistent(book) /\ book.calls = [g \in Handlers |-> Calls(g)]
      /\ "client" \in Handlers /\ "server" \in Handlers /\ Other("server") = "client"
  BY DEF Explains, Matches, Handlers, Other
<1>2. CASE h = "client"
  <2>1. PICK l \in Lines : book.typed[l] = x /\ P[1] = <<l, 0>>
    BY <1>1, <1>2, ClientHeads
  <2>2. ASSUME NEW y \in PacketIds, NEW Q \in book.said[h][y], Q # << >>, Q[1] = P[1]
        PROVE  x = y
    <3>1. PICK k \in Lines : book.typed[k] = y /\ Q[1] = <<k, 0>>
      BY <1>1, <1>2, <2>2, ClientHeads
    <3>2. k = l
      BY <2>1, <2>2, <3>1
    <3>3. QED
      BY <2>1, <3>1, <3>2
  <2>3. QED
    BY <1>2, <2>1, <2>2
<1>3. CASE h = "server"
  <2>1. P \in Calls("server")
    BY <1>1, <1>3 DEF Consistent
  <2>2. delivered["server"] \in Seq(Data)
    BY <1>1 DEF Records
  <2>3. PICK n \in 1 .. Len(delivered["server"]) : P = delivered["server"][n]
    BY <2>1, <2>2 DEF Calls
  <2>4. PICK y \in PacketIds : \E S \in book.said["client"][y] : S # << >> /\ S[1] = P[1]
    BY <1>1, <2>3 DEF OnceInv, Numbered
  <2>5. \E l \in Lines : P[1] = <<l, 0>>
    BY <1>1, <2>4, ClientHeads
  <2>6. \A z \in PacketIds : \A Q \in book.said[h][z] :
           Q # << >> /\ Q[1] = P[1] => x = z
    BY <1>3 DEF OnceInv, OneId
  <2>7. QED
    BY <2>3, <2>5, <2>6
<1>4. QED
  BY <1>2, <1>3 DEF Handlers

\* The numbers up to n, and a set with as many different elements.
LEMMA CountTo ==
    ASSUME NEW n \in Nat
    PROVE  IsFiniteSet(1 .. n) /\ Cardinality(1 .. n) = n
<1>1. 1 \in Int /\ n \in Int
  OBVIOUS
<1>2. IsFiniteSet(1 .. n) /\ Cardinality(1 .. n) = IF 1 > n THEN 0 ELSE n - 1 + 1
  BY ONLY <1>1, FS_Interval
<1>3. (IF 1 > n THEN 0 ELSE n - 1 + 1) = n
  OBVIOUS
<1>4. QED
  BY <1>2, <1>3

\* As many different things as there are numbers need as many elements.
LEMMA Different ==
    ASSUME NEW n \in Nat, NEW T, IsFiniteSet(T), NEW f \in [1 .. n -> T],
           \A j, m \in 1 .. n : f[j] = f[m] => j = m
    PROVE  n <= Cardinality(T)
<1>1. f \in Injection(1 .. n, T)
  <2>1. DOMAIN f = 1 .. n
    OBVIOUS
  <2>2. IsInjective(f)
    BY ONLY <2>1, \A j, m \in 1 .. n : f[j] = f[m] => j = m DEF IsInjective
  <2>3. QED
    BY <2>2 DEF Injection
<1>2. Cardinality(1 .. n) <= Cardinality(T)
  BY <1>1, FS_Injection
<1>3. QED
  BY <1>2, CountTo

\* Different starts of lines are at most as many as the lines.
LEMMA AtMostLines ==
    ASSUME NEW n \in Nat, NEW f, \A m \in 1 .. n : \E l \in Lines : f[m] = <<l, 0>>,
           \A j, m \in 1 .. n : f[j] = f[m] => j = m
    PROVE  n <= Len(LineSize)
<1> DEFINE g == [m \in 1 .. n |-> CHOOSE l \in Lines : f[m] = <<l, 0>>]
<1>1. \A m \in 1 .. n : g[m] \in Lines /\ f[m] = <<g[m], 0>>
  OBVIOUS
<1>2. g \in [1 .. n -> Lines]
  BY <1>1
<1> HIDE DEF g
<1>3. \A j, m \in 1 .. n : g[j] = g[m] => j = m
  BY <1>1
<1>4. IsFiniteSet(Lines) /\ Cardinality(Lines) = Len(LineSize)
  BY ConstantTypes, CountTo
<1>5. QED
  BY <1>2, <1>3, <1>4, Different

\* Nothing that was said is taken back.
SaysMore(book, new) ==
    \A h \in Handlers : \A x \in PacketIds : book.said[h][x] \subseteq new.said[h][x]

\* Numbers stay as more is said.
LEMMA NumberedGrows ==
    ASSUME NEW book, NEW new, SaysMore(book, new), NEW h \in Handlers, NEW del, NEW ring,
           Numbered(book, h, del, ring)
    PROVE  Numbered(new, h, del, ring)
<1>1. ASSUME NEW n \in 1 .. Len(del)
      PROVE  /\ del[n] # << >>
             /\ ring.elems[n - 1] \in PacketIds
             /\ \E P \in new.said[Other(h)][ring.elems[n - 1]] :
                   P # << >> /\ P[1] = del[n][1]
  <2>1. /\ del[n] # << >>
        /\ ring.elems[n - 1] \in PacketIds
        /\ \E P \in book.said[Other(h)][ring.elems[n - 1]] :
              P # << >> /\ P[1] = del[n][1]
    BY DEF Numbered
  <2>2. book.said[Other(h)][ring.elems[n - 1]] \subseteq new.said[Other(h)][ring.elems[n - 1]]
    BY <2>1, OtherType DEF SaysMore
  <2>3. QED
    BY <2>1, <2>2
<1>2. QED
  BY <1>1 DEF Numbered

\* A delivery: its head is a new one, so that the ring still has room.
LEMMA DeliverNumbered ==
    ASSUME Enough, NEW book, Explains(book), Records, OnceInv(book),
           NEW h \in Handlers, NEW id \in PacketIds, ~Ring!Contains(handled[h], id),
           NEW Q \in Data, Q # << >>,
           \E P \in book.said[Other(h)][id] : P # << >> /\ Q[1] = P[1]
    PROVE  /\ \A m \in 1 .. Len(delivered[h]) : delivered[h][m][1] # Q[1]
           /\ Numbered(book, h, Append(delivered[h], Q), Ring!Insert(handled[h], id))
<1> DEFINE del == delivered[h]
           ring == handled[h]
           len == Len(del)
           elems == ring.elems
<1>1. /\ Len(del) <= RingSize
      /\ Len(del) < RingSize => ring.index = Len(del)
      /\ \A n \in 1 .. Len(del) :
            /\ del[n] # << >>
            /\ ring.elems[n - 1] \in PacketIds
            /\ \E P \in book.said[Other(h)][ring.elems[n - 1]] :
                  P # << >> /\ P[1] = del[n][1]
      /\ \A m, n \in 1 .. Len(del) : del[m][1] = del[n][1] => m = n
  <2>1. Numbered(book, h, del, ring)
    BY DEF OnceInv
  <2>2. QED
    BY <2>1 DEF Numbered
<1>2. del \in Seq(Data) /\ len \in Nat /\ RingSize \in Nat \ {0} /\ Len(LineSize) \in Nat
      /\ ring.elems \in [Ring!Position -> PacketIds \union {NoId}]
      /\ Other(h) \in Handlers
  BY ConstantTypes, OtherType DEF Records, Ring!RotatingArrays
<1>3. PICK S \in book.said[Other(h)][id] : S # << >> /\ Q[1] = S[1]
  OBVIOUS
<1>4. \A k \in 0 .. RingSize - 1 : elems[k] # id
  BY DEF Ring!Contains, Ring!Position
<1>5. ASSUME NEW m \in 1 .. len
      PROVE  del[m][1] # Q[1] /\ \E l \in Lines : del[m][1] = <<l, 0>>
  <2>1. PICK P \in book.said[Other(h)][elems[m - 1]] : P # << >> /\ P[1] = del[m][1]
    BY <1>1
  <2>2. elems[m - 1] \in PacketIds /\ m - 1 \in 0 .. RingSize - 1
    BY <1>1, <1>2
  <2>3. elems[m - 1] # id
    BY <1>4, <2>2
  <2>4. /\ \E l \in Lines : P[1] = <<l, 0>>
        /\ S[1] = P[1] => elems[m - 1] = id
    BY <1>2, <1>3, <2>1, <2>2, Heads
  <2>5. QED
    BY <1>3, <2>1, <2>3, <2>4
<1>6. \E l \in Lines : Q[1] = <<l, 0>>
  BY <1>2, <1>3, Heads
<1> HIDE DEF len
<1>7. len + 1 <= Len(LineSize)
  <2> DEFINE f == [m \in 1 .. len + 1 |-> IF m = len + 1 THEN Q[1] ELSE del[m][1]]
  <2>1. \A m \in 1 .. len + 1 : m = len + 1 \/ m \in 1 .. len
    BY <1>2
  <2>2. len + 1 \in Nat /\ \A m \in 1 .. len : m # len + 1
    BY <1>2
  <2>3. \A m \in 1 .. len + 1 : \E l \in Lines : f[m] = <<l, 0>>
    BY <1>5, <1>6, <2>1
  <2>4. \A j, m \in 1 .. len + 1 : f[j] = f[m] => j = m
    BY <1>1, <1>5, <2>1, <2>2 DEF len
  <2> HIDE DEF f
  <2>5. QED
    BY <2>2, <2>3, <2>4, AtMostLines
<1>8. len + 1 <= RingSize /\ len < RingSize
  BY <1>2, <1>7 DEF Enough
<1> DEFINE more == Append(del, Q)
           next == Ring!Insert(ring, id)
<1>9. /\ next.elems = [elems EXCEPT ![len] = id]
      /\ next.index = (len + 1) % RingSize
  BY <1>1, <1>8 DEF Ring!Insert, len
<1>10. /\ Len(more) = len + 1 /\ more[len + 1] = Q
       /\ \A n \in 1 .. len : more[n] = del[n]
  BY <1>2 DEF len
<1> HIDE DEF more, next, del, ring
<1>11. Len(more) < RingSize => next.index = Len(more)
  <2>1. ASSUME len + 1 < RingSize PROVE (len + 1) % RingSize = len + 1
    BY <1>2, <2>1
  <2>2. QED
    BY <1>9, <1>10, <2>1
<1>12. ASSUME NEW n \in 1 .. len + 1
       PROVE  /\ more[n] # << >>
              /\ next.elems[n - 1] \in PacketIds
              /\ \E P \in book.said[Other(h)][next.elems[n - 1]] :
                    P # << >> /\ P[1] = more[n][1]
  <2>1. n - 1 \in Ring!Position /\ len \in Ring!Position
    BY <1>2, <1>8 DEF Ring!Position
  <2>2. CASE n = len + 1
    <3>1. next.elems[n - 1] = id
      <4>1. n - 1 = len
        BY <1>2, <2>2
      <4>2. QED
        BY <1>2, <1>9, <2>1, <4>1
    <3>2. QED
      BY <1>3, <1>10, <2>2, <3>1
  <2>3. CASE n \in 1 .. len
    <3>1. n - 1 # len
      BY <1>2, <2>3
    <3>2. next.elems[n - 1] = elems[n - 1]
      BY <1>2, <1>9, <2>1, <3>1
    <3>3. QED
      BY <1>1, <1>10, <2>3, <3>2 DEF len
  <2>4. n = len + 1 \/ n \in 1 .. len
    BY <1>2
  <2>5. QED
    BY <2>2, <2>3, <2>4
<1>13. \A j, n \in 1 .. len + 1 : more[j][1] = more[n][1] => j = n
  <2>1. \A n \in 1 .. len + 1 : n = len + 1 \/ n \in 1 .. len
    BY <1>2
  <2>2. QED
    BY <1>1, <1>5, <1>10, <2>1 DEF len
<1>14. Numbered(book, h, more, next)
  BY <1>8, <1>10, <1>11, <1>12, <1>13 DEF Numbered
<1>15. QED
  BY <1>5, <1>14 DEF more, next, del, ring, len

\* Handler h has said Q under id, and no more.
Adds(book, new, h, id, Q) ==
    /\ SaysMore(book, new)
    /\ \A g \in Handlers : \A y \in PacketIds :
          \A P \in new.said[g][y] : P \in book.said[g][y] \/ (g = h /\ y = id /\ P = Q)

\* What Say adds to what is said.
LEMMA SaySaid ==
    ASSUME NEW book, NEW line, line.said = book.said, NEW h \in Handlers,
           NEW id \in PacketIds, NEW Q
    PROVE  Adds(book, Say(line, h, id, Q), h, id, Q)
<1> DEFINE new == Say(line, h, id, Q)
<1>1. new.said = [g \in Handlers |-> [y \in PacketIds |->
                    IF g = h /\ y = id THEN line.said[g][y] \union {Q} ELSE line.said[g][y]]]
  BY DEF Say
<1>2. ASSUME NEW g \in Handlers, NEW y \in PacketIds
      PROVE  new.said[g][y] = IF g = h /\ y = id THEN book.said[g][y] \union {Q}
                                                 ELSE book.said[g][y]
  BY <1>1
<1>3. ASSUME NEW g \in Handlers, NEW y \in PacketIds
      PROVE  /\ book.said[g][y] \subseteq new.said[g][y]
             /\ \A P \in new.said[g][y] : P \in book.said[g][y] \/ (g = h /\ y = id /\ P = Q)
  <2>1. CASE g = h /\ y = id
    <3>1. new.said[g][y] = book.said[g][y] \union {Q}
      BY <1>2, <2>1
    <3>2. QED
      BY <2>1, <3>1
  <2>2. CASE ~(g = h /\ y = id)
    <3>1. new.said[g][y] = book.said[g][y]
      BY <1>2, <2>2
    <3>2. QED
      BY <3>1
  <2>3. QED
    BY <2>1, <2>2
<1> HIDE DEF new
<1>4. Adds(book, new, h, id, Q)
  BY <1>3 DEF Adds, SaysMore
<1>5. QED
  BY <1>4 DEF new

\* Nothing has been delivered.
LEMMA OnceInit == ASSUME Init PROVE OnceInv(EmptyBook)
<1>1. delivered = [h \in Handlers |-> << >>]
      /\ \A h \in Handlers : handled[h].index = 0
  BY DEF Init, Handlers, Ring!NewRotatingArrays
<1>2. \A h \in Handlers : Numbered(EmptyBook, h, delivered[h], handled[h])
  BY <1>1, ConstantTypes DEF Numbered
<1>3. OneId(EmptyBook)
  <2>1. \A x \in PacketIds : EmptyBook.said["server"][x] = {}
    BY DEF EmptyBook, Handlers
  <2>2. QED
    BY <2>1 DEF OneId
<1>4. QED
  BY <1>2, <1>3 DEF OnceInv

\* Every step keeps heads apart.
LEMMA OnceStep ==
    ASSUME Enough, NEW book, Explains(book), Records, OnceInv(book), NEW new,
           Entered(book, new)
    PROVE  OnceInv(new)' /\ SaysMore(book, new)
<1>1. /\ book \in Books /\ OneId(book) /\ "client" \in Handlers /\ "server" \in Handlers
      /\ \A h \in Handlers : Numbered(book, h, delivered[h], handled[h])
  BY DEF Explains, Matches, OnceInv, Handlers
<1>2. ASSUME SaysMore(book, new), OneId(new), UNCHANGED <<handled, delivered>>
      PROVE  OnceInv(new)'
  <2>1. \A h \in Handlers : Numbered(new, h, delivered[h], handled[h])
    BY <1>1, <1>2, NumberedGrows
  <2>2. QED
    BY <1>2, <2>1 DEF OnceInv
<1>3. ASSUME \A x \in PacketIds : \A P \in new.said["server"][x] : P \in book.said["server"][x]
      PROVE  OneId(new)
  BY <1>1, <1>3 DEF OneId
<1>4. CASE new = book /\ UNCHANGED <<handled, delivered>>
  BY <1>1, <1>2, <1>4 DEF SaysMore
<1>5. CASE new = Line(book, NoId) /\ UNCHANGED <<handled, delivered>>
  <2>1. new.said = book.said /\ SaysMore(book, new)
    BY <1>5 DEF Line, SaysMore
  <2>2. QED
    BY <1>2, <1>3, <1>5, <2>1
<1>6. ASSUME NEW l \in Lines, NEW id \in PacketIds, UNCHANGED <<handled, delivered>>,
             new = Say(Line(book, id), "client", id, Text(l))
      PROVE  OnceInv(new)' /\ SaysMore(book, new)
  <2> DEFINE text == Text(l)
             line == Line(book, id)
  <2>1. line.said = book.said
    BY DEF Line
  <2>2. new = Say(line, "client", id, text)
    BY <1>6
  <2> HIDE DEF text, line
  <2>3. /\ SaysMore(book, new)
        /\ \A y \in PacketIds : \A P \in new.said["server"][y] : P \in book.said["server"][y]
    <3>1. "server" # "client"
      OBVIOUS
    <3>2. Adds(book, new, "client", id, text)
      BY <1>1, <2>1, <2>2, SaySaid
    <3>3. QED
      BY <1>1, <3>1, <3>2 DEF Adds
  <2>4. QED
    BY <1>2, <1>3, <1>6, <2>3
<1>7. ASSUME NEW h \in Handlers, NEW d \in net, d.to = h,
             ~Ring!Contains(handled[h], d.id), Delivers(book, new, h, d)
      PROVE  OnceInv(new)' /\ SaysMore(book, new)
  <2> DEFINE w == Answered(h, Answer(h, "Acknowledge", d))
  <2>1. PICK Q \in Data :
          /\ Q # << >>
          /\ \E P \in book.said[Other(h)][d.id] : P # << >> /\ Q[1] = P[1]
          /\ handled' = [handled EXCEPT ![h] = Ring!Insert(@, d.id)]
          /\ delivered' = [delivered EXCEPT ![h] = Append(@, Q)]
          /\ \/ new = Call(book, h, Q)
             \/ \E id \in PacketIds :
                   /\ h = "server"
                   /\ new = Say(Call(book, "server", Q), "server", id, Q)
    BY <1>7 DEF Delivers
  <2>2. d.id \in PacketIds
    BY DEF Explains, DatagramInv
  <2>3. /\ \A m \in 1 .. Len(delivered[h]) : delivered[h][m][1] # Q[1]
        /\ Numbered(book, h, Append(delivered[h], Q), Ring!Insert(handled[h], d.id))
    BY <1>7, <2>1, <2>2, DeliverNumbered
  <2>4. \A g \in Handlers : Numbered(book, g, delivered'[g], handled'[g])
    <3>1. \A g \in Handlers :
             /\ delivered'[g] = IF g = h THEN Append(delivered[h], Q) ELSE delivered[g]
             /\ handled'[g] = IF g = h THEN Ring!Insert(handled[h], d.id) ELSE handled[g]
      BY <2>1 DEF Records
    <3>2. QED
      BY <1>1, <2>3, <3>1
  <2>5. ASSUME SaysMore(book, new), OneId(new)
        PROVE  OnceInv(new)'
    BY <2>4, <2>5, NumberedGrows DEF OnceInv
  <2>6. CASE new = Call(book, h, Q)
    <3>1. new.said = book.said /\ SaysMore(book, new)
      BY <2>6 DEF Call, SaysMore
    <3>2. QED
      BY <1>3, <2>5, <3>1
  <2>7. ASSUME NEW id \in PacketIds, h = "server",
               new = Say(Call(book, "server", Q), "server", id, Q)
        PROVE  OnceInv(new)' /\ SaysMore(book, new)
    <3>1. PICK call : call = Call(book, "server", Q)
      OBVIOUS
    <3>2. call.said = book.said /\ new = Say(call, "server", id, Q)
      BY <2>7, <3>1 DEF Call
    <3>3. /\ SaysMore(book, new)
          /\ \A y \in PacketIds : \A P \in new.said["server"][y] :
                P \in book.said["server"][y] \/ (y = id /\ P = Q)
      <4>1. Adds(book, new, "server", id, Q)
        BY <1>1, <2>7, <3>2, SaySaid
      <4>2. QED
        BY <1>1, <4>1 DEF Adds
    \* No packet of the server has this head yet.
    <3>4. ASSUME NEW y \in PacketIds, NEW P \in book.said["server"][y], P # << >>
          PROVE  P[1] # Q[1]
      <4>1. \E n \in 1 .. Len(delivered["server"]) : delivered["server"][n][1] = P[1]
        BY <1>1, <3>4, Heads
      <4>2. QED
        BY <2>3, <2>7, <4>1
    <3>5. ASSUME NEW x \in PacketIds, NEW y \in PacketIds,
                 NEW P \in new.said["server"][x], NEW S \in new.said["server"][y],
                 P # << >>, S # << >>, P[1] = S[1]
          PROVE  x = y
      <4>1. P \in book.said["server"][x] \/ (P = Q /\ x = id)
        BY <3>3
      <4>2. S \in book.said["server"][y] \/ (S = Q /\ y = id)
        BY <3>3
      <4>3. QED
        BY <1>1, <3>4, <3>5, <4>1, <4>2 DEF OneId
    <3>6. OneId(new)
      BY <3>5 DEF OneId
    <3>7. QED
      BY <2>5, <3>3, <3>6
  <2>8. QED
    BY <2>1, <2>6, <2>7
<1>8. QED
  BY <1>4, <1>5, <1>6, <1>7 DEF Entered

\* Different calls have different contents.
LEMMA CountCalls ==
    ASSUME NEW book, OnceInv(book), Records
    PROVE  CalledOnce
<1>1. ASSUME NEW h \in Handlers
      PROVE  Len(delivered[h]) = Cardinality(Calls(h))
  <2> DEFINE del == delivered[h]
             len == Len(del)
  <2>1. del \in [1 .. len -> Data] /\ len \in Nat /\ DOMAIN del = 1 .. len
    BY DEF Records
  <2>2. \A m, n \in 1 .. len : del[m][1] = del[n][1] => m = n
    BY DEF OnceInv, Numbered
  <2>3. Calls(h) = { del[n] : n \in 1 .. len }
    BY <2>1 DEF Calls
  <2> HIDE DEF del, len
  <2>4. del \in Surjection(1 .. len, Calls(h))
    <3>1. del \in [1 .. len -> Calls(h)]
      BY <2>1, <2>3
    <3>2. \A t \in Calls(h) : \E n \in 1 .. len : del[n] = t
      BY <2>3
    <3>3. QED
      BY <3>1, <3>2 DEF Surjection
  <2>5. del \in Injection(1 .. len, Calls(h))
    <3>1. IsInjective(del)
      BY <2>1, <2>2 DEF IsInjective
    <3>2. QED
      BY <2>4, <3>1 DEF Surjection, Injection
  <2>6. IsFiniteSet(1 .. len) /\ Cardinality(1 .. len) = len
    BY <2>1, CountTo
  <2>7. Cardinality(Calls(h)) = Cardinality(1 .. len)
    BY ONLY <2>4, <2>5, <2>6, FS_Surjection
  <2>8. QED
    BY <2>6, <2>7 DEF del, len
<1>2. QED
  BY <1>1 DEF CalledOnce

-----------------------------------------------------------------------------
(***************************************************************************)
(* While the ids of the two sides are apart, what the server sends back    *)
(* takes room for good: no datagram and no expiry frees a slot with an     *)
(* answer, and there is an answer for each head that was sent back.        *)
(***************************************************************************)
Apart == drawn["client"] \intersect drawn["server"] = {}

Lasting(w) == \A i \in AnswersOf(w) : w.info[i].time = W!Untimed

Stays(w, u) == Lasting(w) => Lasting(u) /\ AnswersOf(w) \subseteq AnswersOf(u)

\* The heads of the packets of the server.
Echoed(book) ==
    LET packets == UNION { book.said["server"][x] : x \in PacketIds }
    IN  { P[1] : P \in packets \ {<< >>} }

RoomInv(book) ==
    Apart => /\ Lasting(wtable["server"])
             /\ IsFiniteSet(Echoed(book))
             /\ Cardinality(Echoed(book)) <= Cardinality(AnswersOf(wtable["server"]))
             /\ Cardinality(Echoed(book)) < MaxPackets

\* The ids of answers are of the other side, those of packets its own.
LEMMA ApartIds ==
    ASSUME NEW book, Explains(book), Records, Apart
    PROVE  \A i \in W!Live(wtable["server"]) :
              LET id == wtable["server"].info[i].id
              IN  i \in AnswersOf(wtable["server"]) <=> id \notin drawn["server"]
<1> DEFINE w == wtable["server"]
<1>1. /\ "server" \in Handlers /\ "client" \in Handlers /\ Other("server") = "client"
      /\ book.drawn = drawn /\ book \in Books
  BY DEF Handlers, Other, Explains, Matches
<1>2. Consistent(book) /\ WriteInv(book, "server", w) /\ WP!TableInv(w)
  BY <1>1, ExplainedParts
<1>3. ASSUME NEW i \in W!Live(w)
      PROVE  i \in AnswersOf(w) <=> w.info[i].id \notin drawn["server"]
  <2>1. WriteSlotInv(book, "server", w, i)
    BY <1>2 DEF WriteInv
  <2>2. i \in W!Slots /\ w.info[i].id # NoId
    BY DEF W!Live
  <2>3. w.info[i].id \in PacketIds
    BY <1>2, <2>2, WriteSlotParts
  <2>4. CASE w.info[i].type = "Normal"
    <3>1. book.said["server"][w.info[i].id] # {}
      BY <2>1, <2>4 DEF WriteSlotInv
    <3>2. w.info[i].id \in drawn["server"]
      BY <1>1, <1>2, <2>3, <3>1 DEF Consistent
    <3>3. QED
      BY <2>4, <3>2 DEF AnswersOf
  <2>5. CASE w.info[i].type # "Normal"
    <3>1. book.said["client"][w.info[i].id] # {}
      BY <1>1, <2>1, <2>5 DEF WriteSlotInv
    <3>2. w.info[i].id \in drawn["client"]
      BY <1>1, <1>2, <2>3, <3>1 DEF Consistent
    <3>3. w.info[i].id \notin drawn["server"]
      BY <3>2 DEF Apart
    <3>4. QED
      BY <2>5, <3>3 DEF AnswersOf
  <2>6. QED
    BY <2>4, <2>5
<1>4. QED
  BY <1>3

\* A table that stays, or that keeps its answers twice, keeps its answers.
LEMMA SameStays == ASSUME NEW w PROVE Stays(w, w)
  BY DEF Stays

LEMMA StaysStep ==
    ASSUME NEW w, NEW t, NEW u, Stays(w, t), Stays(t, u)
    PROVE  Stays(w, u)
  BY DEF Stays

\* An answer that finds a slot takes it.
LEMMA AnsweredStays ==
    ASSUME NEW h \in Handlers, WP!TableInv(wtable[h]),
           NEW answer \in [type : {"Acknowledge", "Reject"}, id : PacketIds,
                           index : 0 .. WordBits - 1, rev : {0}, to : Handlers]
    PROVE  LET w == wtable[h]
               u == Answered(h, answer)
           IN  /\ WP!TableInv(u)
               /\ Stays(w, u)
               /\ W!AvailableWritePackets(u) # {} =>
                     \E i \in W!Slots \ W!Live(w) : AnswersOf(u) = AnswersOf(w) \union {i}
<1> DEFINE w == wtable[h]
           i == First(w, W!Slots, NoId)
           u == W!SetSlot(w, i, W!AnswerSlot(w.info[i], answer))
<1>1. CASE HasSlot(h)
  <2>1. W!AvailableWritePackets(w) # {} /\ Answered(h, answer) = u
    BY <1>1 DEF HasSlot, Answered
  <2>2. /\ WP!TableInv(u)
        /\ i \in W!Slots \ W!Live(w)
        /\ W!Live(u) = W!Live(w) \union {i}
        /\ u.info[i].type = answer.type
        /\ u.info[i].time = W!Untimed
        /\ \A j \in W!Live(w) : /\ SameSlot(w, u, j)
                                /\ u.info[j].time = w.info[j].time
    BY <2>1, QueueAnswer
  <2>3. answer.type # "Normal"
    OBVIOUS
  <2> HIDE DEF w, i, u
  <2>4. AnswersOf(u) = AnswersOf(w) \union {i}
    BY <2>2, <2>3 DEF AnswersOf, SameSlot
  <2>5. Stays(w, u)
    BY <2>2, <2>4 DEF Stays, Lasting, AnswersOf
  <2>6. QED
    BY <2>1, <2>2, <2>4, <2>5 DEF w
<1>2. CASE ~HasSlot(h)
  <2>1. Answered(h, answer) = w /\ W!AvailableWritePackets(w) = {}
    BY <1>2 DEF HasSlot, Answered
  <2>2. QED
    BY <2>1, SameStays
<1>3. QED
  BY <1>1, <1>2

\* A packet of the application takes a slot beside those of the answers.
LEMMA QueuedStays ==
    ASSUME NEW w, WP!TableInv(w), NEW id \in PacketIds, ~W!HasUsedPacketID(w, id),
           NEW data \in Data, W!CanAllocate(w, Len(data)), NEW to \in Handlers
    PROVE  LET u == Queued(w, id, data, to)
           IN  /\ AnswersOf(u) = AnswersOf(w)
               /\ Stays(w, u)
               /\ \E i \in W!Slots : AnswersOf(u) \subseteq W!Slots \ {i}
<1> DEFINE i == First(w, W!Slots, NoId)
           u == Queued(w, id, data, to)
<1>1. /\ i \in W!Slots \ W!Live(w)
      /\ W!Live(u) = W!Live(w) \union {i}
      /\ u.info[i].type = "Normal"
      /\ \A j \in W!Live(w) : /\ SameSlot(w, u, j)
                              /\ u.info[j].time = w.info[j].time
  BY QueuePacket
<1> HIDE DEF i, u
<1>2. AnswersOf(u) = AnswersOf(w)
  BY <1>1 DEF AnswersOf, SameSlot
<1>3. Stays(w, u)
  BY <1>1, <1>2 DEF Stays, Lasting, AnswersOf
<1>4. AnswersOf(u) \subseteq W!Slots \ {i}
  BY <1>1, <1>2 DEF AnswersOf, W!Live
<1>5. QED
  BY <1>1, <1>2, <1>3, <1>4 DEF u

\* The steps that do not call a callback.
LEMMA TickStays ==
    ASSUME NEW book, Explains(book), Records, Tick
    PROVE  Stays(wtable["server"], wtable'["server"])
<1> DEFINE w == wtable["server"]
           u == W!AgeTable(w)
<1>1. wtable'["server"] = u /\ "server" \in Handlers
  BY DEF Tick, Handlers
<1>2. WP!TableInv(w)
  BY <1>1, ExplainedParts
<1>3. /\ W!Live(u) = W!Live(w)
      /\ \A j \in W!Live(w) : /\ SameSlot(w, u, j)
                              /\ w.info[j].time = W!Untimed => u.info[j].time = W!Untimed
  BY <1>2, AgeWrite
<1> HIDE DEF w, u
<1>4. Stays(w, u)
  BY <1>3 DEF Stays, Lasting, AnswersOf, SameSlot
<1>5. QED
  BY <1>1, <1>4 DEF w

\* Expiry frees no answer without a time ...
LEMMA UpdateStays ==
    ASSUME NEW book, Explains(book), Records, Apart, Update("server")
    PROVE  Stays(wtable["server"], wtable'["server"])
<1> DEFINE w == wtable["server"]
           u == WExpiring(w)[MaxPackets]
<1>1. wtable'["server"] = u /\ "server" \in Handlers
  <2>1. "server" \in Handlers
    BY DEF Handlers
  <2>2. DOMAIN wtable = Handlers
    BY DEF Records
  <2>3. QED
    BY <2>1, <2>2 DEF Update
<1>2. WP!TableInv(w)
  BY <1>1, ExplainedParts
<1>3. Survives(w, u) /\ (Separate(w) => AnswersOf(u) = AnswersOf(w))
  BY <1>2, ExpireWrite
<1>4. \A i \in W!Live(w) : i \in AnswersOf(w) <=> w.info[i].id \notin drawn["server"]
  BY ApartIds
<1> HIDE DEF w, u
<1>5. ASSUME Lasting(w) PROVE Separate(w)
  BY <1>4, <1>5 DEF Lasting, Separate, AnswersOf
<1>6. Stays(w, u)
  BY <1>3, <1>5 DEF Stays, Lasting, AnswersOf, Survives
<1>7. QED
  BY <1>1, <1>6 DEF w

\* ... no acknowledgement gives an answer a time, as it finds a packet ...
LEMMA AcknowledgeStays ==
    ASSUME NEW book, Explains(book), Records, Apart, NEW d \in net, d.to = "server",
           ReceiveAcknowledge("server", d)
    PROVE  Stays(wtable["server"], wtable'["server"])
<1> DEFINE w == wtable["server"]
           i == First(w, W!Slots, d.id)
           u == [w EXCEPT !.info[i].time = 0]
<1>1. "server" \in Handlers /\ WP!TableInv(w) /\ DOMAIN wtable = Handlers
  BY ExplainedParts DEF Handlers
<1>2. d.id \in PacketIds /\ d.id # NoId /\ d.id \in drawn["server"]
  <2>1. Consistent(book) /\ book.drawn = drawn /\ d.id \in PacketIds
        /\ book.said["server"][d.id] # {}
    BY DEF Explains, Matches, DatagramInv, ReceiveAcknowledge
  <2>2. QED
    BY <1>1, <2>1, ConstantTypes DEF Consistent
<1>3. CASE W!HasUsedPacketID(w, d.id)
  <2>1. \E j \in W!Slots : w.info[j].id = d.id
    BY <1>3 DEF W!HasUsedPacketID
  <2>2. i \in W!Slots /\ w.info[i].id = d.id
    BY <2>1, FirstSlot
  <2>3. wtable' = [wtable EXCEPT !["server"].info[i].time = 0]
    BY <1>3 DEF ReceiveAcknowledge
  <2>4. wtable'["server"] = u
    BY <1>1, <2>3
  <2> HIDE DEF i
  <2>5. /\ W!Live(u) = W!Live(w)
        /\ \A j \in W!Live(w) :
              /\ SameSlot(w, u, j)
              /\ j # i => u.info[j].time = w.info[j].time
    BY <1>1, <2>2, AcknowledgeWrite
  <2>6. i \in W!Live(w)
    BY <1>2, <2>2 DEF W!Live
  <2>7. i \notin AnswersOf(w)
    BY <1>2, <2>2, <2>6, ApartIds
  <2> HIDE DEF u, w
  <2>8. Stays(w, u)
    BY <2>5, <2>7 DEF Stays, Lasting, AnswersOf, SameSlot
  <2>9. QED
    BY <2>4, <2>8 DEF w
<1>4. CASE ~W!HasUsedPacketID(w, d.id)
  BY <1>4, SameStays DEF ReceiveAcknowledge
<1>5. QED
  BY <1>3, <1>4

\* ... and no rejection frees one.
LEMMA RejectStays ==
    ASSUME NEW book, Explains(book), Records, Apart, NEW d \in net, d.to = "server",
           ReceiveReject("server", d)
    PROVE  Stays(wtable["server"], wtable'["server"])
<1> DEFINE w == wtable["server"]
           i == First(w, W!Slots, d.id)
           u == W!FreeWritePacket(w, i)
<1>1. "server" \in Handlers /\ WP!TableInv(w) /\ DOMAIN wtable = Handlers
  BY ExplainedParts DEF Handlers
<1>2. d.id \in PacketIds /\ d.id # NoId /\ d.id \in drawn["server"]
  <2>1. Consistent(book) /\ book.drawn = drawn /\ d.id \in PacketIds
        /\ book.said["server"][d.id] # {}
    BY DEF Explains, Matches, DatagramInv, ReceiveReject
  <2>2. QED
    BY <1>1, <2>1, ConstantTypes DEF Consistent
<1>3. CASE W!HasUsedPacketID(w, d.id)
  <2>1. \E j \in W!Slots : w.info[j].id = d.id
    BY <1>3 DEF W!HasUsedPacketID
  <2>2. i \in W!Slots /\ w.info[i].id = d.id
    BY <2>1, FirstSlot
  <2>3. wtable'["server"] = u
    BY <1>1, <1>3 DEF ReceiveReject
  <2> HIDE DEF i
  <2>4. i \in W!Live(w)
    BY <1>2, <2>2 DEF W!Live
  <2>5. /\ W!Live(u) = W!Live(w) \ {i}
        /\ \A j \in W!Live(u) : /\ SameSlot(w, u, j)
                                /\ u.info[j].time = w.info[j].time
    BY <1>1, <2>4, FreeWrite
  <2>6. i \notin AnswersOf(w)
    BY <1>2, <2>2, <2>4, ApartIds
  <2> HIDE DEF u, w
  <2>7. Stays(w, u)
    BY <2>5, <2>6 DEF Stays, Lasting, AnswersOf, SameSlot
  <2>8. QED
    BY <2>3, <2>7 DEF w
<1>4. CASE ~W!HasUsedPacketID(w, d.id)
  BY <1>4, SameStays DEF ReceiveReject
<1>5. QED
  BY <1>3, <1>4

\* What is said adds its head to those of the server.
LEMMA EchoedAdds ==
    ASSUME NEW book, NEW new, NEW T,
           \A x \in PacketIds : \A P \in new.said["server"][x] :
              P # << >> => P \in book.said["server"][x] \/ P[1] \in T
    PROVE  Echoed(new) \subseteq Echoed(book) \union T
<1>1. ASSUME NEW H \in Echoed(new), H \notin T
      PROVE  H \in Echoed(book)
  <2>1. PICK x \in PacketIds : \E P \in new.said["server"][x] : P # << >> /\ P[1] = H
    BY DEF Echoed
  <2>2. PICK P \in new.said["server"][x] : P # << >> /\ P[1] = H
    BY <2>1
  <2>3. P \in book.said["server"][x]
    BY <1>1, <2>2
  <2>4. QED
    BY <2>2, <2>3 DEF Echoed
<1>2. QED
  BY <1>1

\* A delivery.  What is sent back has been acknowledged in a slot, or there
\* would be none for it.
SentBack(book, new) ==
    \E H : \E i \in W!Slots \ AnswersOf(wtable["server"]) : \E j \in W!Slots :
        /\ Echoed(new) \subseteq Echoed(book) \union {H}
        /\ AnswersOf(wtable'["server"]) = AnswersOf(wtable["server"]) \union {i}
        /\ AnswersOf(wtable'["server"]) \subseteq W!Slots \ {j}

LEMMA DeliverStays ==
    ASSUME NEW book, Explains(book), Records, NEW h \in Handlers, NEW d \in net,
           d.to = h, d.type = "Normal", NEW new, Delivers(book, new, h, d)
    PROVE  /\ Stays(wtable["server"], wtable'["server"])
           /\ Echoed(new) \subseteq Echoed(book) \/ SentBack(book, new)
<1> DEFINE w == wtable["server"]
           v == wtable'["server"]
           t == Answered(h, Answer(h, "Acknowledge", d))
<1>1. /\ WP!TableInv(wtable[h]) /\ DOMAIN wtable = Handlers
      /\ "client" \in Handlers /\ "server" \in Handlers
  BY ExplainedParts DEF Handlers
<1>2. /\ WP!TableInv(t)
      /\ Stays(wtable[h], t)
      /\ W!AvailableWritePackets(t) # {} =>
            \E i \in W!Slots \ W!Live(wtable[h]) : AnswersOf(t) = AnswersOf(wtable[h]) \union {i}
  <2>1. Answer(h, "Acknowledge", d) \in
           [type : {"Acknowledge", "Reject"}, id : PacketIds,
            index : 0 .. WordBits - 1, rev : {0}, to : Handlers]
    BY AnswerType
  <2>2. QED
    BY <1>1, <2>1, AnsweredStays
<1>3. PICK Q \in Data :
        \/ /\ new = Call(book, h, Q)
           /\ wtable' = [wtable EXCEPT ![h] = t]
        \/ \E id \in PacketIds :
              /\ h = "server"
              /\ new = Say(Call(book, "server", Q), "server", id, Q)
              /\ ~W!HasUsedPacketID(t, id) /\ W!CanAllocate(t, Len(Q))
              /\ wtable' = [wtable EXCEPT ![h] = Queued(t, id, Q, "client")]
  BY DEF Delivers
<1> HIDE DEF t
<1>4. CASE new = Call(book, h, Q) /\ wtable' = [wtable EXCEPT ![h] = t]
  <2>1. Echoed(new) \subseteq Echoed(book)
    BY <1>4 DEF Call, Echoed
  <2>2. CASE h = "server"
    <3>1. v = t
      BY <1>1, <1>4, <2>2
    <3>2. QED
      BY <1>2, <2>1, <2>2, <3>1
  <2>3. CASE h # "server"
    <3>1. v = w
      BY <1>1, <1>4, <2>3
    <3>2. QED
      BY <2>1, <3>1, SameStays
  <2>4. QED
    BY <2>2, <2>3
<1>5. ASSUME NEW id \in PacketIds, h = "server",
             new = Say(Call(book, "server", Q), "server", id, Q),
             ~W!HasUsedPacketID(t, id), W!CanAllocate(t, Len(Q)),
             wtable' = [wtable EXCEPT ![h] = Queued(t, id, Q, "client")]
      PROVE  Stays(w, v) /\ SentBack(book, new)
  <2>1. v = Queued(t, id, Q, "client")
    BY <1>1, <1>5
  <2>2. PICK call : call = Call(book, "server", Q)
    OBVIOUS
  <2>3. call.said = book.said /\ new = Say(call, "server", id, Q)
    BY <1>5, <2>2 DEF Call
  <2>4. Adds(book, new, "server", id, Q)
    BY <1>1, <1>5, <2>3, SaySaid
  <2>5. Echoed(new) \subseteq Echoed(book) \union {Q[1]}
    <3>1. \A x \in PacketIds : \A P \in new.said["server"][x] :
             P # << >> => P \in book.said["server"][x] \/ P[1] \in {Q[1]}
      BY <1>1, <2>4 DEF Adds
    <3>2. QED
      BY <3>1, EchoedAdds
  <2>6. /\ AnswersOf(v) = AnswersOf(t)
        /\ Stays(t, v)
        /\ \E j \in W!Slots : AnswersOf(v) \subseteq W!Slots \ {j}
    BY <1>1, <1>2, <1>5, <2>1, QueuedStays
  <2>7. W!AvailableWritePackets(t) # {}
    BY <1>5 DEF W!CanAllocate
  <2>8. PICK i \in W!Slots \ W!Live(w) : AnswersOf(t) = AnswersOf(w) \union {i}
    BY <1>2, <1>5, <2>7
  <2>9. i \in W!Slots \ AnswersOf(w)
    BY <2>8 DEF AnswersOf
  <2>10. Stays(w, v)
    BY <1>2, <1>5, <2>6, StaysStep
  <2>11. PICK j \in W!Slots : AnswersOf(v) \subseteq W!Slots \ {j}
    BY <2>6
  <2>12. AnswersOf(v) = AnswersOf(w) \union {i}
    BY <2>6, <2>8
  <2>13. SentBack(book, new)
    <3> HIDE DEF w, v
    <3>1. \E H : Echoed(new) \subseteq Echoed(book) \union {H}
      BY <2>5
    <3>2. QED
      BY <2>9, <2>11, <2>12, <3>1 DEF SentBack, w, v
  <2>14. QED
    BY <2>10, <2>13
<1>6. QED
  BY <1>3, <1>4, <1>5

\* Every step keeps the answers of the server.
LEMMA AnswersStay ==
    ASSUME NEW book, Explains(book), Records, Apart, [Next]_vars
    PROVE  Stays(wtable["server"], wtable'["server"])
<1> DEFINE Goal == Stays(wtable["server"], wtable'["server"])
<1>u. ASSUME wtable'["server"] = wtable["server"] PROVE Goal
  BY <1>u, SameStays
<1> HIDE DEF Goal
<1>a. DOMAIN wtable = Handlers /\ "server" \in Handlers
  BY DEF Records, Handlers
<1>1. CASE \/ UNCHANGED vars
           \/ ServerBind \/ MainWait \/ MainConnect \/ Interrupt \/ MainJoin \/ GetLine
           \/ \E h \in Handlers : \/ LeaveLoop(h) \/ SocketFails(h)
                                  \/ \E last \in W!Slots : SendLoop(h, last)
  <2>1. wtable' = wtable
    BY <1>1 DEF vars, tables, ServerBind, MainWait, MainConnect, Interrupt, MainJoin,
                GetLine, LeaveLoop, SocketFails, SendLoop
  <2>2. QED
    BY <1>u, <2>1 DEF Goal
<1>2. ASSUME NEW h \in Handlers, Update(h) PROVE Goal
  <2>1. CASE h = "server"
    BY <1>2, <2>1, UpdateStays DEF Goal
  <2>2. CASE h # "server"
    <3>1. wtable'["server"] = wtable["server"]
      BY <1>a, <1>2, <2>2 DEF Update
    <3>2. QED
      BY <1>u, <3>1
  <2>3. QED
    BY <2>1, <2>2
<1>3. ASSUME NEW l \in Lines, TypeLine(l) PROVE Goal
  <2>1. wtable'["server"] = wtable["server"]
    BY <1>3, TypeLineStep
  <2>2. QED
    BY <1>u, <2>1
<1>4. ASSUME NEW d \in net, Receive(d.to, d) PROVE Goal
  <2> DEFINE h == d.to
  <2>1. h \in Handlers
    BY DEF Explains, DatagramInv
  <2>2. \/ DropHandled(h, d)
        \/ ReceiveNormal(h, d) \/ ReceiveAcknowledge(h, d) \/ ReceiveReject(h, d)
    BY <1>4 DEF Receive
  <2>3. CASE DropHandled(h, d) \/ (ReceiveNormal(h, d) /\ Ignore(h, d))
    <3>1. wtable' = wtable
      BY <2>3 DEF DropHandled, Ignore, tables
    <3>2. QED
      BY <1>u, <3>1
  <2>4. CASE ReceiveAcknowledge(h, d)
    <3>1. CASE h = "server"
      BY <2>4, <3>1, AcknowledgeStays DEF Goal
    <3>2. CASE h # "server"
      <4>1. wtable'["server"] = wtable["server"]
        BY <1>a, <2>4, <3>2 DEF ReceiveAcknowledge
      <4>2. QED
        BY <1>u, <4>1
    <3>3. QED
      BY <3>1, <3>2
  <2>5. CASE ReceiveReject(h, d)
    <3>1. CASE h = "server"
      BY <2>5, <3>1, RejectStays DEF Goal
    <3>2. CASE h # "server"
      <4>1. wtable'["server"] = wtable["server"]
        BY <1>a, <2>5, <3>2 DEF ReceiveReject
      <4>2. QED
        BY <1>u, <4>1
    <3>3. QED
      BY <3>1, <3>2
  <2>6. ASSUME d.type = "Normal", NEW type \in {"Acknowledge", "Reject"},
               wtable' = [wtable EXCEPT ![h] = Answered(h, Answer(h, type, d))]
        PROVE  Goal
    <3> DEFINE answer == Answer(h, type, d)
    <3>1. answer \in [type : {"Acknowledge", "Reject"}, id : PacketIds,
                      index : 0 .. WordBits - 1, rev : {0}, to : Handlers]
      BY <2>1, <2>6, AnswerType
    <3>2. WP!TableInv(wtable[h])
      BY <2>1, ExplainedParts
    <3>3. wtable' = [wtable EXCEPT ![h] = Answered(h, answer)]
      BY <2>6
    <3> HIDE DEF answer, h
    <3>4. Stays(wtable[h], Answered(h, answer))
      BY <2>1, <3>1, <3>2, AnsweredStays
    <3>5. CASE h = "server"
      BY <1>a, <3>3, <3>4, <3>5 DEF Goal
    <3>6. CASE h # "server"
      BY <1>a, <1>u, <3>3, <3>6
    <3>7. QED
      BY <3>5, <3>6
  <2>7. CASE d.type = "Normal" /\ Refuse(h, d)
    BY <2>6, <2>7 DEF Refuse
  <2>8. CASE d.type = "Normal" /\ Accept(h, d)
    <3>1. PICK new :
             \/ wtable' = [wtable EXCEPT ![h] = Answered(h, Answer(h, "Acknowledge", d))]
             \/ Delivers(book, new, h, d)
      BY <2>1, <2>8, AcceptStep
    <3>2. CASE Delivers(book, new, h, d)
      BY <2>1, <2>8, <3>2, DeliverStays DEF Goal
    <3>3. QED
      BY <2>6, <2>8, <3>1, <3>2
  <2>9. QED
    BY <2>2, <2>3, <2>4, <2>5, <2>7, <2>8 DEF ReceiveNormal
<1>5. ASSUME NEW d \in net, Lose(d) PROVE Goal
  BY <1>u, <1>5 DEF Lose, tables
<1>6. CASE Tick
  BY <1>6, TickStays DEF Goal
<1>7. QED
  BY <1>1, <1>2, <1>3, <1>4, <1>5, <1>6 DEF Next, Goal

\* There are at most as many answers as slots.
LEMMA AnswersFinite ==
    ASSUME NEW w
    PROVE  /\ IsFiniteSet(AnswersOf(w)) /\ Cardinality(AnswersOf(w)) \in Nat
           /\ IsFiniteSet(W!Slots) /\ Cardinality(W!Slots) = MaxPackets
<1>1. /\ 0 \in Int /\ MaxPackets - 1 \in Int /\ MaxPackets \in Nat \ {0}
      /\ W!Slots = 0 .. MaxPackets - 1
  BY ConstantTypes DEF W!Slots
<1>2. /\ IsFiniteSet(W!Slots)
      /\ Cardinality(W!Slots) = IF 0 > MaxPackets - 1 THEN 0 ELSE (MaxPackets - 1) - 0 + 1
  BY ONLY <1>1, FS_Interval
<1>3. Cardinality(W!Slots) = MaxPackets
  BY <1>1, <1>2
<1>4. AnswersOf(w) \in SUBSET W!Slots
  BY DEF AnswersOf, W!Live
<1>5. IsFiniteSet(AnswersOf(w))
  BY ONLY <1>2, <1>4, FS_Subset
<1>6. Cardinality(AnswersOf(w)) \in Nat
  BY ONLY <1>5, FS_CardinalityType
<1>7. QED
  BY <1>2, <1>3, <1>5, <1>6

\* The numbers before and after a step.
LEMMA RoomCount ==
    ASSUME NEW book, IsFiniteSet(Echoed(book)), NEW w,
           Cardinality(Echoed(book)) <= Cardinality(AnswersOf(w)),
           Cardinality(Echoed(book)) < MaxPackets,
           NEW new, NEW u, AnswersOf(w) \subseteq AnswersOf(u),
           \/ Echoed(new) \subseteq Echoed(book)
           \/ \E H : \E i \in W!Slots \ AnswersOf(w) : \E j \in W!Slots :
                 /\ Echoed(new) \subseteq Echoed(book) \union {H}
                 /\ AnswersOf(u) = AnswersOf(w) \union {i}
                 /\ AnswersOf(u) \subseteq W!Slots \ {j}
    PROVE  /\ IsFiniteSet(Echoed(new))
           /\ Cardinality(Echoed(new)) <= Cardinality(AnswersOf(u))
           /\ Cardinality(Echoed(new)) < MaxPackets
<1> DEFINE E == Echoed(book)
           F == Echoed(new)
           A == AnswersOf(w)
           B == AnswersOf(u)
           S == W!Slots
<1>1. /\ IsFiniteSet(A) /\ IsFiniteSet(B) /\ IsFiniteSet(S)
      /\ Cardinality(A) \in Nat /\ Cardinality(B) \in Nat
      /\ Cardinality(S) = MaxPackets /\ MaxPackets \in Nat
  BY AnswersFinite, ConstantTypes
<1>2. IsFiniteSet(E) /\ Cardinality(E) <= Cardinality(A) /\ Cardinality(E) < MaxPackets
      /\ A \subseteq B
  OBVIOUS
<1>3. \/ F \subseteq E
      \/ \E H : \E i \in S \ A : \E j \in S :
            /\ F \subseteq E \union {H} /\ B = A \union {i} /\ B \subseteq S \ {j}
  OBVIOUS
<1> HIDE DEF E, F, A, B, S
<1>4. Cardinality(E) \in Nat
  BY ONLY <1>2, FS_CardinalityType
<1>5. CASE F \subseteq E
  <2>1. F \in SUBSET E /\ A \in SUBSET B
    BY <1>2, <1>5
  <2>2. IsFiniteSet(F) /\ Cardinality(F) <= Cardinality(E)
    BY ONLY <1>2, <2>1, FS_Subset
  <2>3. Cardinality(A) <= Cardinality(B)
    BY ONLY <1>1, <2>1, FS_Subset
  <2>4. Cardinality(F) \in Nat
    BY ONLY <2>2, FS_CardinalityType
  <2>5. Cardinality(F) <= Cardinality(B) /\ Cardinality(F) < MaxPackets
    BY <1>1, <1>2, <1>4, <2>2, <2>3, <2>4
  <2>6. QED
    BY <2>2, <2>5 DEF F, B
<1>6. ASSUME NEW H, NEW i \in S \ A, NEW j \in S,
             F \subseteq E \union {H}, B = A \union {i}, B \subseteq S \ {j}
      PROVE  /\ IsFiniteSet(F) /\ Cardinality(F) <= Cardinality(B)
             /\ Cardinality(F) < MaxPackets
  <2>1. /\ IsFiniteSet(E \union {H})
        /\ Cardinality(E \union {H}) = IF H \in E THEN Cardinality(E) ELSE Cardinality(E) + 1
    BY ONLY <1>2, FS_AddElement
  <2>2. F \in SUBSET (E \union {H}) /\ i \notin A
    BY <1>6
  <2>3. IsFiniteSet(F) /\ Cardinality(F) <= Cardinality(E \union {H})
    BY ONLY <2>1, <2>2, FS_Subset
  <2>4. Cardinality(F) \in Nat
    BY ONLY <2>3, FS_CardinalityType
  <2>5. Cardinality(A \union {i}) = IF i \in A THEN Cardinality(A) ELSE Cardinality(A) + 1
    BY ONLY <1>1, FS_AddElement
  <2>6. Cardinality(B) = Cardinality(A) + 1
    BY <1>6, <2>2, <2>5
  <2>7. B \in SUBSET S /\ B # S
    BY <1>6
  <2>8. Cardinality(B) <= Cardinality(S) /\ (Cardinality(S) = Cardinality(B) => S = B)
    BY ONLY <1>1, <2>7, FS_Subset
  <2>9. Cardinality(B) < MaxPackets
    BY <1>1, <2>7, <2>8
  <2>10. Cardinality(F) <= Cardinality(E) + 1
    BY <1>4, <2>1, <2>3, <2>4
  <2>11. Cardinality(F) <= Cardinality(B) /\ Cardinality(F) < MaxPackets
    BY <1>1, <1>2, <1>4, <2>4, <2>6, <2>9, <2>10
  <2>12. QED
    BY <2>3, <2>11
<1>7. QED
  BY <1>3, <1>5, <1>6 DEF F, B

\* Nothing has been sent back.
LEMMA RoomInit == ASSUME Init PROVE RoomInv(EmptyBook)
<1>1. "server" \in Handlers /\ wtable["server"] = W!EmptyTable
  BY DEF Init, Handlers
<1>2. AnswersOf(wtable["server"]) = {}
  BY <1>1, EmptyTables DEF AnswersOf
<1>3. Echoed(EmptyBook) = {}
  BY <1>1 DEF Echoed, EmptyBook
<1>4. IsFiniteSet({}) /\ Cardinality({}) = 0
  BY ONLY FS_EmptySet
<1>5. 0 <= 0 /\ 0 < MaxPackets
  BY ConstantTypes
<1>6. QED
  BY <1>2, <1>3, <1>4, <1>5 DEF RoomInv, Lasting

\* Ids are not undrawn.
LEMMA StaysApart ==
    ASSUME NEW book, Explains(book), NEW new, Explains(new)', Entered(book, new), Apart'
    PROVE  Apart
<1>1. book.drawn = drawn /\ new.drawn = drawn' /\ book \in Books
      /\ "client" \in Handlers /\ "server" \in Handlers
  BY DEF Explains, Matches, Handlers
<1>2. \A g \in Handlers : book.drawn[g] \subseteq new.drawn[g]
  <2> DEFINE Goal == \A g \in Handlers : book.drawn[g] \subseteq new.drawn[g]
  <2>1. book.drawn \in [Handlers -> SUBSET PacketIds]
    BY <1>1, BookParts
  <2>2. ASSUME NEW line, line.drawn = book.drawn, NEW h \in Handlers, NEW id, NEW Q,
               new = Say(line, h, id, Q)
        PROVE  Goal
    <3>1. new.drawn = [book.drawn EXCEPT ![h] = @ \union {id}]
      BY <2>2 DEF Say
    <3>2. QED
      BY <2>1, <3>1
  <2>3. ASSUME NEW id PROVE Line(book, id).drawn = book.drawn
    BY DEF Line
  <2>4. ASSUME NEW h, NEW Q PROVE Call(book, h, Q).drawn = book.drawn
    BY DEF Call
  <2>5. CASE new = book
    BY <2>5
  <2>6. CASE new = Line(book, NoId)
    BY <2>3, <2>6
  <2>7. ASSUME NEW l \in Lines, NEW id \in PacketIds,
               new = Say(Line(book, id), "client", id, Text(l))
        PROVE  Goal
    <3> HIDE DEF Goal
    <3>1. QED
      BY <1>1, <2>2, <2>3, <2>7
  <2>8. ASSUME NEW h \in Handlers, NEW d, Delivers(book, new, h, d) PROVE Goal
    <3> HIDE DEF Goal
    <3>1. PICK Q : \/ new = Call(book, h, Q)
                   \/ \E id : new = Say(Call(book, "server", Q), "server", id, Q)
      BY <2>8 DEF Delivers
    <3>2. CASE new = Call(book, h, Q)
      <4>1. new.drawn = book.drawn
        BY <2>4, <3>2
      <4>2. QED
        BY <4>1 DEF Goal
    <3>3. CASE \E id : new = Say(Call(book, "server", Q), "server", id, Q)
      <4>1. PICK id : new = Say(Call(book, "server", Q), "server", id, Q)
        BY <3>3
      <4>2. QED
        BY <1>1, <2>2, <2>4, <4>1
    <3>4. QED
      BY <3>1, <3>2, <3>3
  <2> HIDE DEF Goal
  <2>9. Goal
    BY <2>5, <2>6, <2>7, <2>8 DEF Entered, Goal
  <2>10. QED
    BY <2>9 DEF Goal
<1>3. QED
  BY <1>1, <1>2 DEF Apart

\* Every step leaves an answer for each echo.
LEMMA RoomStep ==
    ASSUME NEW book, Explains(book), Records, RoomInv(book), [Next]_vars,
           NEW new, Explains(new)', Entered(book, new)
    PROVE  RoomInv(new)'
<1> SUFFICES ASSUME Apart'
             PROVE  /\ Lasting(wtable["server"])'
                    /\ IsFiniteSet(Echoed(new))
                    /\ Cardinality(Echoed(new)) <= Cardinality(AnswersOf(wtable["server"]))'
                    /\ Cardinality(Echoed(new)) < MaxPackets
  BY DEF RoomInv
<1> DEFINE w == wtable["server"]
           u == wtable'["server"]
<1>1. Apart
  BY StaysApart
<1>2. /\ Lasting(w) /\ IsFiniteSet(Echoed(book))
      /\ Cardinality(Echoed(book)) <= Cardinality(AnswersOf(w))
      /\ Cardinality(Echoed(book)) < MaxPackets
  BY <1>1 DEF RoomInv
<1>3. Stays(w, u)
  BY <1>1, AnswersStay
<1>4. Lasting(u) /\ AnswersOf(w) \subseteq AnswersOf(u)
  BY <1>2, <1>3 DEF Stays
<1>5. Echoed(new) \subseteq Echoed(book) \/ SentBack(book, new)
  <2>1. CASE new = book
    BY <2>1
  <2>2. CASE new = Line(book, NoId)
    BY <2>2 DEF Line, Echoed
  <2>3. ASSUME NEW l \in Lines, NEW id \in PacketIds,
               new = Say(Line(book, id), "client", id, Text(l))
        PROVE  Echoed(new) \subseteq Echoed(book)
    <3> DEFINE text == Text(l)
               line == Line(book, id)
    <3>1. line.said = book.said
      BY DEF Line
    <3>2. new = Say(line, "client", id, text)
      BY <2>3
    <3> HIDE DEF text, line
    <3>3. "client" \in Handlers /\ "server" \in Handlers /\ "client" # "server"
      BY DEF Handlers
    <3>4. Adds(book, new, "client", id, text)
      BY <3>1, <3>2, <3>3, SaySaid
    <3>5. \A x \in PacketIds : \A P \in new.said["server"][x] :
             P # << >> => P \in book.said["server"][x] \/ P[1] \in {}
      BY <3>3, <3>4 DEF Adds
    <3>6. Echoed(new) \subseteq Echoed(book) \union {}
      BY <3>5, EchoedAdds
    <3>7. QED
      BY <3>6
  <2>4. ASSUME NEW h \in Handlers, NEW d \in net, d.to = h, d.type = "Normal",
               Delivers(book, new, h, d)
        PROVE  Echoed(new) \subseteq Echoed(book) \/ SentBack(book, new)
    BY <2>4, DeliverStays
  <2>5. QED
    BY <2>1, <2>2, <2>3, <2>4 DEF Entered
<1>6. \/ Echoed(new) \subseteq Echoed(book)
      \/ \E H : \E i \in W!Slots \ AnswersOf(w) : \E j \in W!Slots :
            /\ Echoed(new) \subseteq Echoed(book) \union {H}
            /\ AnswersOf(u) = AnswersOf(w) \union {i}
            /\ AnswersOf(u) \subseteq W!Slots \ {j}
  BY <1>5 DEF SentBack
<1> HIDE DEF w, u
<1>7. /\ IsFiniteSet(Echoed(new))
      /\ Cardinality(Echoed(new)) <= Cardinality(AnswersOf(u))
      /\ Cardinality(Echoed(new)) < MaxPackets
  BY <1>2, <1>4, <1>6, RoomCount
<1>8. QED
  BY <1>4, <1>7 DEF u, Lasting, AnswersOf

\* What the client is called with starts like something the server sent back.
HeadsInv(book) == FirstUnits("client") \subseteq Echoed(book)

\* No step takes back what was said.
LEMMA EnteredSays ==
    ASSUME NEW book, NEW new, Entered(book, new)
    PROVE  SaysMore(book, new)
<1> "client" \in Handlers /\ "server" \in Handlers
  BY DEF Handlers
<1>1. ASSUME new.said = book.said PROVE SaysMore(book, new)
  BY <1>1 DEF SaysMore
<1>2. ASSUME NEW line, line.said = book.said, NEW h \in Handlers, NEW id \in PacketIds,
             NEW Q, new = Say(line, h, id, Q)
      PROVE  SaysMore(book, new)
  BY <1>2, SaySaid DEF Adds
<1>3. ASSUME NEW id PROVE Line(book, id).said = book.said
  BY DEF Line
<1>4. ASSUME NEW h, NEW Q PROVE Call(book, h, Q).said = book.said
  BY DEF Call
<1>5. CASE new = book \/ new = Line(book, NoId)
  BY <1>1, <1>3, <1>5
<1>6. ASSUME NEW l \in Lines, NEW id \in PacketIds,
             new = Say(Line(book, id), "client", id, Text(l))
      PROVE  SaysMore(book, new)
  <2>1. PICK text : text = Text(l)
    OBVIOUS
  <2>2. QED
    BY <1>2, <1>3, <1>6, <2>1
<1>7. ASSUME NEW h \in Handlers, NEW d, Delivers(book, new, h, d)
      PROVE  SaysMore(book, new)
  <2>1. PICK Q : \/ new = Call(book, h, Q)
                 \/ \E id \in PacketIds : new = Say(Call(book, "server", Q), "server", id, Q)
    BY <1>7 DEF Delivers
  <2>2. CASE new = Call(book, h, Q)
    BY <1>1, <1>4, <2>2
  <2>3. CASE \E id \in PacketIds : new = Say(Call(book, "server", Q), "server", id, Q)
    BY <1>2, <1>4, <2>3
  <2>4. QED
    BY <2>1, <2>2, <2>3
<1>8. QED
  BY <1>5, <1>6, <1>7 DEF Entered

LEMMA HeadsStep ==
    ASSUME NEW book, Explains(book), Records, HeadsInv(book), NEW new, Entered(book, new)
    PROVE  HeadsInv(new)'
<1>1. "client" \in Handlers /\ "server" \in Handlers /\ Other("client") = "server"
  BY DEF Handlers, Other
<1>2. Echoed(book) \subseteq Echoed(new)
  <2>1. SaysMore(book, new)
    BY EnteredSays
  <2>2. QED
    BY <1>1, <2>1 DEF Echoed, SaysMore
<1>3. ASSUME delivered'["client"] = delivered["client"] PROVE HeadsInv(new)'
  BY <1>2, <1>3 DEF HeadsInv, FirstUnits, Calls
<1>4. ASSUME NEW h \in Handlers, NEW d \in net, Delivers(book, new, h, d)
      PROVE  HeadsInv(new)'
  <2>1. PICK Q \in Data :
          /\ \E P \in book.said[Other(h)][d.id] : P # << >> /\ Q[1] = P[1]
          /\ delivered' = [delivered EXCEPT ![h] = Append(@, Q)]
    BY <1>4 DEF Delivers
  <2>2. CASE h # "client"
    BY <1>1, <1>3, <2>1, <2>2 DEF Records
  <2>3. CASE h = "client"
    <3>1. PICK P \in book.said["server"][d.id] : P # << >> /\ Q[1] = P[1]
      BY <1>1, <2>1, <2>3
    <3>2. d.id \in PacketIds
      BY DEF Explains, DatagramInv
    <3>3. Q[1] \in Echoed(book)
      BY <3>1, <3>2 DEF Echoed
    <3>4. delivered["client"] \in Seq(Data) /\ delivered'["client"] = Append(delivered["client"], Q)
      BY <1>1, <2>1, <2>3 DEF Records
    <3>5. \A data \in Calls("client")' : data = Q \/ data \in Calls("client")
      BY <3>4 DEF Calls
    <3>6. QED
      BY <1>2, <3>3, <3>5 DEF HeadsInv, FirstUnits
  <2>4. QED
    BY <2>2, <2>3
<1>5. QED
  BY <1>3, <1>4 DEF Entered

\* There are fewer different starts of what the client is called with than
\* slots, however often the ring has forgotten one.
LEMMA CountEchoes ==
    ASSUME NEW book, RoomInv(book), HeadsInv(book)
    PROVE  EchoCapacity
<1> SUFFICES ASSUME Apart PROVE Cardinality(FirstUnits("client")) < MaxPackets
  BY DEF EchoCapacity, Apart
<1>1. /\ IsFiniteSet(Echoed(book)) /\ Cardinality(Echoed(book)) < MaxPackets
      /\ FirstUnits("client") \in SUBSET Echoed(book)
  BY DEF RoomInv, HeadsInv
<1>2. /\ IsFiniteSet(FirstUnits("client"))
      /\ Cardinality(FirstUnits("client")) <= Cardinality(Echoed(book))
  BY ONLY <1>1, FS_Subset
<1>3. Cardinality(Echoed(book)) \in Nat
  BY ONLY <1>1, FS_CardinalityType
<1>4. Cardinality(FirstUnits("client")) \in Nat
  BY ONLY <1>2, FS_CardinalityType
<1>5. QED
  BY <1>1, <1>2, <1>3, <1>4, ConstantTypes

\* The invariant of the room there is.
Roomy == Inv /\ \E book : Explains(book) /\ RoomInv(book) /\ HeadsInv(book)

(***************************************************************************)
(* A server whose answers are never given back falls silent: with the ids  *)
(* of both sides apart, the client prints fewer different lines than a     *)
(* table has slots, however many are typed, however long it waits, and     *)
(* whatever the rings of handled ids have forgotten.                       *)
(***************************************************************************)
THEOREM CapacityCorrectness == Spec => []EchoCapacity
<1>1. Init => Roomy
  <2> SUFFICES ASSUME Init PROVE Roomy
    OBVIOUS
  <2>1. Inv /\ Explains(EmptyBook) /\ RoomInv(EmptyBook)
    BY InvInit, ExplainInit, RoomInit
  <2>2. delivered["client"] = << >>
    BY DEF Init, Handlers
  <2>3. HeadsInv(EmptyBook)
    BY <2>2 DEF HeadsInv, FirstUnits, Calls
  <2>4. QED
    BY <2>1, <2>3 DEF Roomy
<1>2. Roomy /\ [Next]_vars => Roomy'
  <2> SUFFICES ASSUME Roomy, [Next]_vars PROVE Roomy'
    OBVIOUS
  <2>1. Inv /\ Records
    BY DEF Roomy, Inv
  <2>2. Inv'
    BY <2>1, InvStep
  <2>3. PICK book : Explains(book) /\ RoomInv(book) /\ HeadsInv(book)
    BY DEF Roomy
  <2>4. PICK new : Explains(new)' /\ Entered(book, new)
    BY <2>1, <2>3, NextStep
  <2>5. RoomInv(new)'
    BY <2>1, <2>3, <2>4, RoomStep
  <2>6. HeadsInv(new)'
    BY <2>1, <2>3, <2>4, HeadsStep
  <2>7. QED
    BY <2>2, <2>4, <2>5, <2>6 DEF Roomy
<1>3. Roomy => EchoCapacity
  BY CountEchoes DEF Roomy
<1>4. QED
  BY <1>1, <1>2, <1>3, PTL DEF Spec

-----------------------------------------------------------------------------
(***************************************************************************)
(* The invariant of what is delivered.                                     *)
(***************************************************************************)
Served == Inv /\ \E book : Explains(book) /\ OnceInv(book)

\* It holds in every reachable state.
LEMMA ServedInvariance == ASSUME Enough PROVE Spec => []Served
<1>1. Init => Served
  <2> SUFFICES ASSUME Init PROVE Served
    OBVIOUS
  <2>1. Inv /\ Explains(EmptyBook) /\ OnceInv(EmptyBook)
    BY InvInit, ExplainInit, OnceInit
  <2>2. QED
    BY <2>1 DEF Served
<1>2. Served /\ [Next]_vars => Served'
  <2> SUFFICES ASSUME Served, [Next]_vars PROVE Served'
    OBVIOUS
  <2>1. Inv /\ Records
    BY DEF Served, Inv
  <2>2. Inv'
    BY <2>1, InvStep
  <2>3. PICK book : Explains(book) /\ OnceInv(book)
    BY DEF Served
  <2>4. PICK new : Explains(new)' /\ Entered(book, new)
    BY <2>1, <2>3, NextStep
  <2>5. OnceInv(new)'
    BY <2>1, <2>3, <2>4, OnceStep
  <2>6. QED
    BY <2>2, <2>4, <2>5 DEF Served
<1>3. QED
  BY <1>1, <1>2, PTL DEF Spec

(***************************************************************************)
(* While the ring of handled ids has as many elements as there are lines,  *)
(* no line is served twice and none is printed twice, however often the    *)
(* network repeats their datagrams and whichever ids are drawn.            *)
(***************************************************************************)
THEOREM OnceCorrectness == ASSUME Enough PROVE Spec => []CalledOnce
<1>1. Served => CalledOnce
  BY CountCalls DEF Served, Inv
<1>2. QED
  BY <1>1, ServedInvariance, PTL

-----------------------------------------------------------------------------
(***************************************************************************)
(* The refinement of EchoService.                                          *)
(***************************************************************************)

\* One call more, in the terms of the service.
LEMMA CallIsNew ==
    ASSUME NEW s \in Seq(Data), NEW Q \in Data, Q # << >>,
           \A m, n \in 1 .. Len(s) + 1 : Append(s, Q)[m][1] = Append(s, Q)[n][1] => m = n
    PROVE  Service!NewCall(s, Append(s, Q)) /\ Service!Newest(Append(s, Q)) = Q
<1> DEFINE more == Append(s, Q)
<1>1. /\ Len(s) \in Nat /\ DOMAIN s = 1 .. Len(s)
      /\ Len(more) = Len(s) + 1 /\ more[Len(s) + 1] = Q /\ more # << >>
      /\ \A n \in 1 .. Len(s) : more[n] = s[n]
  OBVIOUS
<1>2. \A m, n \in 1 .. Len(s) + 1 : more[m][1] = more[n][1] => m = n
  OBVIOUS
<1> HIDE DEF more
<1>3. Service!Newest(more) = Q
  BY <1>1 DEF Service!Newest
<1>4. ASSUME NEW n \in DOMAIN s PROVE s[n] # Q
  <2>1. n \in 1 .. Len(s) + 1 /\ Len(s) + 1 \in 1 .. Len(s) + 1 /\ n # Len(s) + 1
    BY <1>1
  <2>2. more[n] # more[Len(s) + 1]
    BY <1>2, <2>1
  <2>3. QED
    BY <1>1, <2>2
<1>5. Q \notin Service!Elements(s)
  BY <1>4 DEF Service!Elements
<1>6. more = Append(s, Q)
  BY DEF more
<1>7. QED
  BY <1>1, <1>3, <1>5, <1>6 DEF Service!NewCall

\* A line that is sent under an id, or not at all.
LEMMA LinesSent ==
    ASSUME typed \in Seq(PacketIds \union {NoId}), NEW id \in PacketIds \union {NoId},
           typed' = Append(typed, id), (Len(typed) <= Len(LineSize))'
    PROVE  /\ id = NoId => SentLines' = SentLines
           /\ id # NoId => /\ Len(typed) + 1 \in Lines
                           /\ SentLines' = SentLines \union {Len(typed) + 1}
           /\ \A l \in SentLines : l < Len(typed) + 1
<1>1. /\ Len(typed) \in Nat /\ DOMAIN typed = 1 .. Len(typed)
      /\ DOMAIN typed' = 1 .. Len(typed) + 1 /\ Len(typed') = Len(typed) + 1
      /\ typed'[Len(typed) + 1] = id
      /\ \A l \in 1 .. Len(typed) : typed'[l] = typed[l]
  OBVIOUS
<1>2. \A l \in 1 .. Len(typed) + 1 : l \in 1 .. Len(typed) \/ l = Len(typed) + 1
  BY <1>1
<1>3. \A l \in 1 .. Len(typed) : l \in 1 .. Len(typed) + 1 /\ l < Len(typed) + 1
  BY <1>1
<1>4. Len(typed) + 1 \in 1 .. Len(typed) + 1
  BY <1>1
<1>5. Len(typed) + 1 \in Lines
  BY <1>1, ConstantTypes
<1> DEFINE number == Len(typed) + 1
<1>6. SentLines' \subseteq SentLines \union {number}
  BY <1>1, <1>2 DEF SentLines
<1>7. SentLines \subseteq SentLines'
  BY <1>1, <1>3 DEF SentLines
<1>8. number \in SentLines' <=> id # NoId
  BY <1>1, <1>4 DEF SentLines
<1>9. number \notin SentLines
  BY <1>1, <1>3 DEF SentLines
<1>10. \A l \in SentLines : l < number
  BY <1>1, <1>3 DEF SentLines
<1>11. QED
  BY <1>5, <1>6, <1>7, <1>8, <1>9, <1>10

\* Ids that Say draws a second time are of the sender.
LEMMA SayReuses ==
    ASSUME NEW line, line.reused = reused, DOMAIN reused = Handlers,
           NEW h \in Handlers, NEW id, NEW Q, reused' = Say(line, h, id, Q).reused
    PROVE  { g \in Handlers : reused[g] # {} }' \in
              {{ g \in Handlers : reused[g] # {} }, { g \in Handlers : reused[g] # {} } \union {h}}
<1>1. reused' = [reused EXCEPT ![h] = @ \union ({id} \intersect line.drawn[h])]
  BY DEF Say
<1>2. /\ reused[h] \subseteq reused'[h]
      /\ \A g \in Handlers \ {h} : reused'[g] = reused[g]
  BY <1>1
<1>3. QED
  BY <1>2

Reusing == { h \in Handlers : reused[h] # {} }

\* A callback that is called is Serve or Show.
LEMMA ServiceCall ==
    ASSUME NEW book, Explains(book), Records, NEW new, Explains(new)', Records',
           OnceInv(new)', EchoFaithful',
           NEW h \in Handlers, NEW d \in net, Delivers(book, new, h, d)
    PROVE  Service!Serve \/ Service!Show
<1>1. PICK Q \in Data :
          /\ Q # << >>
          /\ delivered' = [delivered EXCEPT ![h] = Append(@, Q)]
          /\ \/ new = Call(book, h, Q)
             \/ \E id \in PacketIds :
                   /\ h = "server"
                   /\ new = Say(Call(book, "server", Q), "server", id, Q)
  BY DEF Delivers
<1>2. /\ book.reused = reused /\ book.typed = typed /\ book \in Books
      /\ new.reused = reused' /\ new.typed = typed'
      /\ "client" \in Handlers /\ "server" \in Handlers /\ "client" # "server"
  BY DEF Explains, Matches, Handlers
<1>3. DOMAIN reused = Handlers
  BY <1>2, BookParts
<1>4. delivered[h] \in Seq(Data) /\ delivered'[h] = Append(delivered[h], Q)
  BY <1>1 DEF Records
<1>5. /\ delivered' \in [Handlers -> Seq(Data)]
      /\ \A g \in Handlers : Calls(g)' = IF g = h THEN Calls(h) \union {Q} ELSE Calls(g)
  BY <1>1, AppendCalls DEF Records
<1>6. /\ Service!NewCall(delivered[h], delivered'[h])
      /\ Service!Newest(delivered'[h]) = Q
  <2>1. \A m, n \in 1 .. Len(delivered'[h]) :
           delivered'[h][m][1] = delivered'[h][n][1] => m = n
    BY DEF OnceInv, Numbered
  <2>2. Len(delivered'[h]) = Len(delivered[h]) + 1
    BY <1>4
  <2>3. \A m, n \in 1 .. Len(delivered[h]) + 1 :
           Append(delivered[h], Q)[m][1] = Append(delivered[h], Q)[n][1] => m = n
    BY <1>4, <2>1, <2>2
  <2>4. QED
    BY <1>1, <1>4, <2>3, CallIsNew
<1>7. typed' = typed
  BY <1>1, <1>2 DEF Call, Say
<1>8. SentLines' = SentLines
  BY <1>7 DEF SentLines
<1>9. SentLines \subseteq Lines
  <2>1. typed \in Seq(PacketIds \union {NoId}) /\ Len(typed) <= Len(LineSize)
    BY <1>2, BookParts DEF Records
  <2>2. \A l \in DOMAIN typed : l \in Lines
    BY <2>1, ConstantTypes
  <2>3. QED
    BY <2>2 DEF SentLines
<1>10. \/ reused' = reused
       \/ h = "server" /\ \E id \in PacketIds :
                             reused' = Say(Call(book, "server", Q), "server", id, Q).reused
  <2>1. CASE new = Call(book, h, Q)
    <3>1. new.reused = book.reused
      BY <2>1 DEF Call
    <3>2. QED
      BY <1>2, <3>1
  <2>2. CASE \E id \in PacketIds :
                /\ h = "server"
                /\ new = Say(Call(book, "server", Q), "server", id, Q)
    BY <1>2, <2>2
  <2>3. QED
    BY <1>1, <2>1, <2>2
<1>11. Reusing' \in {Reusing, Reusing \union {"server"}} /\ (h = "client" => Reusing' = Reusing)
  <2>1. CASE reused' = reused
    BY <2>1 DEF Reusing
  <2>2. ASSUME NEW id \in PacketIds, h = "server",
               reused' = Say(Call(book, "server", Q), "server", id, Q).reused
        PROVE  Reusing' \in {Reusing, Reusing \union {"server"}}
    <3>1. PICK call : call = Call(book, "server", Q)
      OBVIOUS
    <3>2. call.reused = reused
      BY <1>2, <3>1 DEF Call
    <3>3. reused' = Say(call, "server", id, Q).reused
      BY <2>2, <3>1
    <3>4. QED
      BY <1>2, <1>3, <3>2, <3>3, SayReuses DEF Reusing
  <2>3. QED
    BY <1>2, <1>10, <2>1, <2>2
<1>12. CASE h = "server"
  <2>1. reused'["client"] = reused["client"]
    <3>1. book.reused \in [Handlers -> SUBSET PacketIds]
      BY <1>2, BookParts
    <3>2. ASSUME NEW id \in PacketIds,
                 reused' = Say(Call(book, "server", Q), "server", id, Q).reused
          PROVE  reused'["client"] = reused["client"]
      <4>1. PICK call : call = Call(book, "server", Q)
        OBVIOUS
      <4>2. call.reused = reused
        BY <1>2, <4>1 DEF Call
      <4>3. reused' = [reused EXCEPT !["server"] = @ \union ({id} \intersect call.drawn["server"])]
        BY <3>2, <4>1, <4>2 DEF Say
      <4>4. QED
        BY <1>2, <1>3, <4>3
    <3>3. QED
      BY <1>10, <3>2
  <2>2. Q \in Calls("server")'
    BY <1>2, <1>5, <1>12
  <2>3. ASSUME Len(Q) <= SectionSize \/ "client" \notin Reusing
        PROVE  \E l \in SentLines : Q = [k \in Lines |-> Text(k)][l]
    <3>1. Unmixed("server", Q)'
      BY <1>2, <2>1, <2>3 DEF Unmixed, Other, Reusing
    <3>2. PICK l \in SentLines : Q = Text(l)
      BY <1>8, <2>2, <3>1 DEF EchoFaithful
    <3>3. QED
      BY <1>9, <3>2
  <2>4. delivered'["client"] = delivered["client"]
    BY <1>1, <1>2, <1>12 DEF Records
  <2>5. Service!Serve
    BY <1>6, <1>8, <1>11, <1>12, <2>3, <2>4 DEF Service!Serve, Service!Sound, Reusing
  <2>6. QED
    BY <2>5
<1>13. CASE h = "client"
  <2>1. Q \in Calls("client")' /\ Calls("server")' = Calls("server")
    BY <1>2, <1>5, <1>13
  <2>2. reused' = reused
    BY <1>2, <1>10, <1>13
  <2>3. ASSUME Len(Q) <= SectionSize \/ "server" \notin Reusing
        PROVE  Q \in Service!Elements(delivered["server"])
    <3>1. Unmixed("client", Q)'
      BY <1>2, <2>2, <2>3 DEF Unmixed, Other, Reusing
    <3>2. Q \in Calls("server")
      BY <2>1, <3>1 DEF EchoFaithful
    <3>3. QED
      BY <3>2 DEF Calls, Service!Elements
  <2>4. delivered'["server"] = delivered["server"]
    BY <1>1, <1>2, <1>13 DEF Records
  <2>5. Service!Show
    BY <1>6, <1>8, <1>11, <1>13, <2>3, <2>4 DEF Service!Show, Service!Sound, Reusing
  <2>6. QED
    BY <2>5
<1>14. QED
  BY <1>12, <1>13 DEF Handlers

\* Every step is one of the service, or none.
LEMMA ServiceStep ==
    ASSUME NEW book, Explains(book), Records, NEW new, Explains(new)', Records',
           OnceInv(new)', EchoFaithful', Entered(book, new)
    PROVE  [Service!Next]_(Service!vars)
<1>1. /\ book.reused = reused /\ book.typed = typed /\ book \in Books
      /\ new.reused = reused' /\ new.typed = typed'
      /\ "client" \in Handlers /\ "server" \in Handlers /\ "client" # "server"
  BY DEF Explains, Matches, Handlers
<1>2. DOMAIN reused = Handlers /\ typed \in Seq(PacketIds \union {NoId})
  BY <1>1, BookParts
<1>3. ASSUME SentLines' = SentLines, Reusing' = Reusing, UNCHANGED delivered
      PROVE  UNCHANGED Service!vars
  BY <1>3 DEF Service!vars, Reusing
<1>4. CASE new = book /\ UNCHANGED <<handled, delivered>>
  <2>1. typed' = typed /\ reused' = reused
    BY <1>1, <1>4
  <2>2. QED
    BY <1>3, <1>4, <2>1 DEF SentLines, Reusing
<1>5. CASE new = Line(book, NoId) /\ UNCHANGED <<handled, delivered>>
  <2>1. typed' = Append(typed, NoId) /\ reused' = reused
    BY <1>1, <1>5 DEF Line
  <2>2. SentLines' = SentLines
    BY <1>2, <2>1, LinesSent DEF Records
  <2>3. QED
    BY <1>3, <1>5, <2>1, <2>2 DEF Reusing
<1>6. ASSUME NEW l \in Lines, NEW id \in PacketIds, UNCHANGED <<handled, delivered>>,
             new = Say(Line(book, id), "client", id, Text(l))
      PROVE  Service!Next
  <2>1. PICK line : line = Line(book, id)
    OBVIOUS
  <2>2. PICK text : text = Text(l)
    OBVIOUS
  <2>3. line.reused = reused
    BY <1>1, <2>1 DEF Line
  <2>4. new = Say(line, "client", id, text)
    BY <1>6, <2>1, <2>2
  <2>5. typed' = Append(typed, id) /\ id # NoId
    <3>1. line.typed = Append(typed, id)
      BY <1>1, <2>1 DEF Line
    <3>2. QED
      BY <1>1, <2>4, <3>1, ConstantTypes DEF Say
  <2>6. reused' = Say(line, "client", id, text).reused
    BY <1>1, <2>4
  <2>7. /\ Len(typed) + 1 \in Lines
        /\ SentLines' = SentLines \union {Len(typed) + 1}
        /\ \A k \in SentLines : k < Len(typed) + 1
    BY <1>2, <2>5, LinesSent DEF Records
  <2>8. Reusing' \in {Reusing, Reusing \union {"client"}}
    <3>1. "client" \in Handlers /\ DOMAIN reused = Handlers
      BY <1>1, <1>2
    <3>2. QED
      BY <2>3, <2>6, <3>1, SayReuses DEF Reusing
  <2>9. PICK number : number = Len(typed) + 1
    OBVIOUS
  <2>10. Service!Send(number)
    BY <1>6, <2>7, <2>8, <2>9 DEF Service!Send, Reusing
  <2>11. number \in DOMAIN [k \in Lines |-> Text(k)]
    BY <2>7, <2>9
  <2>12. QED
    BY <2>10, <2>11 DEF Service!Next
<1>7. ASSUME NEW h \in Handlers, NEW d \in net, Delivers(book, new, h, d)
      PROVE  Service!Next
  BY <1>7, ServiceCall DEF Service!Next
<1>8. QED
  BY <1>3, <1>4, <1>5, <1>6, <1>7 DEF Entered

(***************************************************************************)
(* The program implements EchoService while the ring of handled ids does   *)
(* not forget: whatever the network does, whichever ids are drawn and      *)
(* whenever a handler frees, moves or resends a packet, each step is a line*)
(* that goes out, one call of the server with a line that was sent and not *)
(* served yet, one of the client with what was served and not printed yet, *)
(* or nothing to whoever types.                                            *)
(***************************************************************************)
THEOREM ServiceRefinement == ASSUME Enough PROVE Spec => ImplementsService
<1>1. Init => Service!Init
  <2> SUFFICES ASSUME Init PROVE Service!Init
    OBVIOUS
  <2>1. /\ typed = << >> /\ \A h \in Handlers : reused[h] = {} /\ delivered[h] = << >>
        /\ "client" \in Handlers /\ "server" \in Handlers
    BY DEF Init, Handlers
  <2>2. SentLines = {}
    BY <2>1 DEF SentLines
  <2>3. QED
    BY <2>1, <2>2 DEF Service!Init
<1>2. Served => EchoFaithful
  BY InvFaithful DEF Served
<1>3. Served /\ EchoFaithful' /\ [Next]_vars => [Service!Next]_(Service!vars)
  <2> SUFFICES ASSUME Served, EchoFaithful', [Next]_vars
               PROVE  [Service!Next]_(Service!vars)
    OBVIOUS
  <2>1. Records
    BY DEF Served, Inv
  <2>2. PICK book : Explains(book) /\ OnceInv(book)
    BY DEF Served
  <2>3. PICK new : Records' /\ Explains(new)' /\ Entered(book, new)
    BY <2>1, <2>2, NextStep
  <2>4. OnceInv(new)'
    BY <2>1, <2>2, <2>3, OnceStep
  <2>5. QED
    BY <2>1, <2>2, <2>3, <2>4, ServiceStep
<1>4. QED
  BY <1>1, <1>2, <1>3, ServedInvariance, PTL DEF Spec, ImplementsService, Service!Spec
=============================================================================

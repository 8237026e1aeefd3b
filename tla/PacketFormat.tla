---------------------------- MODULE PacketFormat ----------------------------
(***************************************************************************)
(* How a packet is cut into sections and which bitmap records the sections *)
(* that have arrived (Libraries/ReliableUDP, PacketHandler.cpp).  A size   *)
(* counts payload units; SectionSize stands for 4096 - sizeof(PacketHeader)*)
(* = 4084 bytes.  A bitmap is the set of the positions of its 1 bits.      *)
(***************************************************************************)
EXTENDS Integers

CONSTANTS SectionSize,   \* payload units one datagram carries (4084)
          WordBits,      \* bits of the in-place bitmap m_Bits (32)
          ByteBits       \* bits of one byte of m_BitsDynamic (8)

ASSUME FormatAssumption ==
    /\ SectionSize \in Nat \ {0}
    /\ WordBits \in Nat \ {0}
    /\ ByteBits \in Nat \ {0}

\* Sections needed for a packet of this size.
GetRequiredSections(size) == (size + SectionSize - 1) \div SectionSize

\* Up to WordBits full sections the bitmap is the 32-bit word itself, beyond
\* that it is an array of bytes on the heap.
UsesWord(size) == size <= WordBits * SectionSize

DynamicBytes(size) == (GetRequiredSections(size) + ByteBits - 1) \div ByteBits

\* Looked at only where the bitmap is an array of bytes.
OutOfRange(size, index) ==
    ~UsesWord(size) /\ index >= GetRequiredSections(size)

BitmapSize(size) ==
    IF UsesWord(size) THEN WordBits ELSE DynamicBytes(size) * ByteBits

\* Variants: the last section counts as received; the padding of the byte array
\* at the end of its last byte.
InitialBitsOneMore(size) == GetRequiredSections(size) - 1 .. BitmapSize(size) - 1
InitialBitsHigh(size) == GetRequiredSections(size) .. BitmapSize(size) - 1

\* The bits set when the slot is allocated, so that a bitmap of ones means
\* that every section is there.  The word gets the bits past the last
\* section; the byte array gets as many LOW bits of its last byte.
InitialBits(size) ==
    LET required == GetRequiredSections(size)
    IN  IF UsesWord(size)
        THEN required .. WordBits - 1
        ELSE { (DynamicBytes(size) - 1) * ByteBits + i :
                 i \in 0 .. DynamicBytes(size) * ByteBits - required - 1 }

\* All bits are ones.
BitsDone(bits, size) == bits = 0 .. BitmapSize(size) - 1

\* Section index of a packet carries the payload units
\* SectionOffset(index) .. SectionOffset(index) + SectionLength(index, size) - 1.
SectionOffset(index) == index * SectionSize

SectionLength(index, size) ==
    IF SectionSize < size - SectionOffset(index)
    THEN SectionSize
    ELSE size - SectionOffset(index)
=============================================================================

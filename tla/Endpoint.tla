------------------------------ MODULE Endpoint ------------------------------
(***************************************************************************)
(* Networking::Address and Networking::Endpoint, and how the system's      *)
(* sockaddr is made of them and turned back (Socket.cpp).  One endpoint    *)
(* object is followed from where it comes from (a constructor, a name, the *)
(* sender of a datagram) to where it is used (the receiver of another).    *)
(*                                                                         *)
(* An address is m_Segments, eight 16-bit segments, the least significant  *)
(* first; m_Bytes and m_IPv4 are views of it on a little-endian machine.   *)
(* SegmentBase stands for 2^16, ByteBase for 2^8.  A sockaddr has its bytes *)
(* in network order, the most significant first.                           *)
(***************************************************************************)
EXTENDS Integers, Sequences

CONSTANTS ByteBase,          \* values of a byte (256)
          Segments,          \* the segments that occur
          Ports,             \* the ports that occur
          PositiveErrors     \* whether GetAddrInfo reports errors above 0

SegmentBase == ByteBase * ByteBase

\* The segment 0xFFFF, which marks an IPv4 address.
Mapped == SegmentBase - 1

ASSUME EndpointAssumption ==
    /\ ByteBase \in Nat \ {0, 1}
    /\ Segments \subseteq 0 .. SegmentBase - 1
    /\ {0, Mapped} \subseteq Segments
    /\ Ports \subseteq 0 .. SegmentBase - 1
    /\ 0 \in Ports
    /\ PositiveErrors \in BOOLEAN

Index     == 0 .. 7
Addresses == [Index -> Segments]

-----------------------------------------------------------------------------
(***************************************************************************)
(* Address and Endpoint.                                                   *)
(***************************************************************************)

\* Address(IPv4Address): the low two segments, below 0xFFFF.
FromIPv4(value) ==
    [i \in Index |-> CASE i = 0 -> value % SegmentBase
                       [] i = 1 -> value \div SegmentBase
                       [] i = 2 -> Mapped
                       [] OTHER -> 0]

\* m_Bytes[i].
Byte(a, i) == (IF i % 2 = 0 THEN a[i \div 2] ELSE a[i \div 2] \div ByteBase) % ByteBase

IsIPv4(a) == a[2] = Mapped /\ \A i \in 3 .. 7 : a[i] = 0

NoEndpoint == [address |-> [i \in Index |-> 0], port |-> 0]

Endpoints == [address : Addresses, port : Ports]

(***************************************************************************)
(* Address::toString: dotted bytes, or hexadecimal groups of which the     *)
(* longest run of zeros (the first of them) becomes "::".  A run is noticed *)
(* at the nonzero group that ends it, so a trailing one stays.  Group k is *)
(* m_Segments[8 - k].                                                      *)
(***************************************************************************)
Groups(a) == [k \in 1 .. 8 |-> a[8 - k]]

NewScan == [start |-> 1, colons |-> 1, from |-> 0, to |-> 0, total |-> 0]

\* One group and the colon before it.  Variant: each colon starts a run.
ScanGroupLate(s, k, zero) ==
    LET start  == IF k > 1 THEN k ELSE s.start
        colons == IF k > 1 THEN s.colons + 1 ELSE s.colons
    IN  CASE zero -> [s EXCEPT !.start = start, !.colons = colons]
          [] ~zero /\ colons > 1 /\ s.total < colons ->
                [start |-> start, colons |-> 0, from |-> start, to |-> k, total |-> colons]
          [] OTHER -> [s EXCEPT !.start = start, !.colons = 0]

ScanGroup(s, k, zero) ==
    LET start  == IF k > 1 /\ s.colons = 0 THEN k ELSE s.start
        colons == IF k > 1 THEN s.colons + 1 ELSE s.colons
    IN  CASE zero -> [s EXCEPT !.start = start, !.colons = colons]
          [] ~zero /\ colons > 1 /\ s.total < colons ->
                [start |-> start, colons |-> 0, from |-> start, to |-> k, total |-> colons]
          [] OTHER -> [s EXCEPT !.start = start, !.colons = 0]

Scan(groups) ==
    LET f[k \in 0 .. 8] == IF k = 0 THEN NewScan
                           ELSE ScanGroup(f[k - 1], k, groups[k] = 0)
    IN  f[8]

\* Groups from .. to - 1 are what "::" stands for.
ToString(a) ==
    IF IsIPv4(a)
    THEN [form |-> "dotted", bytes |-> [n \in 1 .. 4 |-> Byte(a, 4 - n)]]
    ELSE LET groups == Groups(a)
             s      == Scan(groups)
         IN  IF s.total = 0
             THEN [form |-> "full", groups |-> groups]
             ELSE [form |-> "short", head |-> SubSeq(groups, 1, s.from - 1),
                                     tail |-> SubSeq(groups, s.to, 8)]

-----------------------------------------------------------------------------
(***************************************************************************)
(* ToSockAddr and ToEndpoint.                                              *)
(***************************************************************************)
NetworkOrder(port) == <<port \div ByteBase, port % ByteBase>>

\* Variant: the bytes of an IPv6 address are not turned round.
ToSockAddrUnturned(e) ==
    IF IsIPv4(e.address)
    THEN [family |-> "INET", port |-> NetworkOrder(e.port),
          bytes |-> [n \in 1 .. 4 |-> Byte(e.address, 4 - n)]]
    ELSE [family |-> "INET6", port |-> NetworkOrder(e.port),
          bytes |-> [n \in 1 .. 16 |-> Byte(e.address, n - 1)]]

ToSockAddr(e) ==
    IF IsIPv4(e.address)
    THEN [family |-> "INET", port |-> NetworkOrder(e.port),
          bytes |-> [n \in 1 .. 4 |-> Byte(e.address, 4 - n)]]
    ELSE [family |-> "INET6", port |-> NetworkOrder(e.port),
          bytes |-> [n \in 1 .. 16 |-> Byte(e.address, 16 - n)]]

HostPort(s) == ByteBase * s.port[1] + s.port[2]

\* Any other family leaves the endpoint as it was.
ToEndpoint(e, s) ==
    CASE s.family = "INET" ->
           [address |-> FromIPv4((s.bytes[1] * ByteBase + s.bytes[2]) * SegmentBase
                                    + s.bytes[3] * ByteBase + s.bytes[4]),
            port |-> HostPort(s)]
      [] s.family = "INET6" ->
           [address |-> [i \in Index |-> s.bytes[15 - 2 * i] * ByteBase + s.bytes[16 - 2 * i]],
            port |-> HostPort(s)]
      [] OTHER -> e

-----------------------------------------------------------------------------
(***************************************************************************)
(* The life of one endpoint.                                               *)
(***************************************************************************)
VARIABLES
    endpoint,     \* the object
    peer,         \* the sockaddr the system will name: of a sender, of a host
    known,        \* the endpoint was made of peer
    sent,         \* the sockaddr given to the system
    crashed

vars == <<endpoint, peer, known, sent, crashed>>

NoSockAddr == [family |-> "UNSPEC"]

Families == {"INET", "INET6"}

\* What the system may name: a node as groups, most significant first.
Named(family, groups, port) ==
    [family |-> family, port |-> NetworkOrder(port),
     bytes |-> [n \in 1 .. 2 * Len(groups) |->
                  IF n % 2 = 1 THEN groups[(n + 1) \div 2] \div ByteBase
                               ELSE groups[n \div 2] % ByteBase]]

SockAddrs == { Named("INET", g, p) : g \in [1 .. 2 -> Segments], p \in Ports }
                \union { Named("INET6", g, p) : g \in [1 .. 8 -> Segments], p \in Ports }

Init ==
    /\ \/ endpoint \in Endpoints /\ peer = NoSockAddr
       \/ /\ \E s \in Segments, t \in Segments, p \in Ports :
                endpoint = [address |-> FromIPv4(s + t * SegmentBase), port |-> p]
          /\ peer = NoSockAddr
       \/ endpoint = NoEndpoint /\ peer \in SockAddrs
    /\ known = FALSE
    /\ sent = NoSockAddr
    /\ crashed = FALSE

\* readFrom and accept of a socket that is not connected: the system filled in
\* the sockaddr of the peer.
ReadFrom ==
    /\ ~crashed
    /\ peer # NoSockAddr
    /\ endpoint' = ToEndpoint(endpoint, peer)
    /\ known' = TRUE
    /\ sent' = NoSockAddr
    /\ UNCHANGED <<peer, crashed>>

\* readFrom of a connected socket: the sockaddr is made of m_RemoteEndpoint.
ReadFromConnected ==
    /\ ~crashed
    /\ peer = NoSockAddr
    /\ peer' = ToSockAddr(endpoint)
    /\ endpoint' = ToEndpoint(NoEndpoint, ToSockAddr(endpoint))
    /\ known' = TRUE
    /\ sent' = NoSockAddr
    /\ UNCHANGED crashed

(***************************************************************************)
(* ResolveFromHost, asked for one family or for any: the first result, or  *)
(* an empty endpoint.  Only errors below 0 are noticed; after another one  *)
(* the code follows a pointer nobody has set.                              *)
(***************************************************************************)
ResolveFromHost(families) ==
    /\ ~crashed
    /\ peer # NoSockAddr
    /\ \/ /\ peer.family \in families
          /\ endpoint' = ToEndpoint(NoEndpoint, peer)
          /\ known' = TRUE
          /\ UNCHANGED crashed
       \/ /\ endpoint' = NoEndpoint
          /\ known' = FALSE
          /\ UNCHANGED crashed
       \/ /\ PositiveErrors
          /\ crashed' = TRUE
          /\ UNCHANGED <<endpoint, known>>
    /\ sent' = NoSockAddr
    /\ UNCHANGED peer

\* bind, connect, writeTo and ToHost give the endpoint to the system.
WriteTo ==
    /\ ~crashed
    /\ sent' = ToSockAddr(endpoint)
    /\ UNCHANGED <<endpoint, peer, known, crashed>>

Next ==
    \/ ReadFrom
    \/ ReadFromConnected
    \/ \E families \in {{"INET"}, {"INET6"}, Families} : ResolveFromHost(families)
    \/ WriteTo

Spec == Init /\ [][Next]_vars

-----------------------------------------------------------------------------
\* The node a sockaddr names, as the eight groups of an IPv6 address.
Node(s) ==
    LET group(n) == s.bytes[2 * n - 1] * ByteBase + s.bytes[2 * n]
    IN  IF s.family = "INET" THEN <<0, 0, 0, 0, 0, Mapped, group(1), group(2)>>
                             ELSE [n \in 1 .. 8 |-> group(n)]

(***************************************************************************)
(* An answer to the endpoint readFrom reported goes to the node and port   *)
(* the datagram came from, through two conversions and two byte orders;    *)
(* only a sender whose IPv6 address stands for an IPv4 one is answered by  *)
(* the other family.                                                       *)
(***************************************************************************)
ReplyReachesSender ==
    known /\ sent # NoSockAddr =>
        /\ Node(sent) = Node(peer)
        /\ sent.port = peer.port
        /\ sent.family # peer.family => peer.family = "INET6" /\ sent.family = "INET"

\* What a text stands for: "::" is as many zeros as are missing, at least one.
Denoted(text) ==
    CASE text.form = "full" -> text.groups
      [] text.form = "dotted" ->
            <<0, 0, 0, 0, 0, Mapped, text.bytes[1] * ByteBase + text.bytes[2],
                                     text.bytes[3] * ByteBase + text.bytes[4]>>
      [] OTHER ->
            LET written == Len(text.head) + Len(text.tail)
            IN  IF written > 7 THEN << >>
                ELSE text.head \o [n \in 1 .. 8 - written |-> 0] \o text.tail

(***************************************************************************)
(* The text of an address can be read back as that address, whichever run  *)
(* of zeros was left out of it.                                            *)
(***************************************************************************)
TextDenotesAddress ==
    Denoted(ToString(endpoint.address)) = Groups(endpoint.address)
=============================================================================

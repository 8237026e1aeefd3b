--------------------------- MODULE EndpointProofs ---------------------------
(***************************************************************************)
(* Theorems about Endpoint, for every width of a byte and every segment and*)
(* port: an answer reaches the sender it is meant for, and the text of an  *)
(* address can be read back.  Both are about values, so the invariant says *)
(* little: what an endpoint and a sockaddr look like, and which endpoint or*)
(* sockaddr was made of which.                                             *)
(***************************************************************************)
EXTENDS Endpoint, SequenceTheorems, TLAPS

Bytes == 0 .. ByteBase - 1

AnySegment == 0 .. SegmentBase - 1

AnyEndpoint == [address : [Index -> AnySegment], port : AnySegment]

\* A sockaddr as the system and ToSockAddr fill it in.
AnySockAddr == [family : {"INET"}, port : Bytes \X Bytes, bytes : [1 .. 4 -> Bytes]]
                  \union [family : {"INET6"}, port : Bytes \X Bytes,
                          bytes : [1 .. 16 -> Bytes]]

-----------------------------------------------------------------------------
(***************************************************************************)
(* Numbers of two digits in a base that is not a numeral.                  *)
(***************************************************************************)
LEMMA Division ==
    ASSUME NEW n \in Nat, NEW k \in Nat \ {0}
    PROVE  /\ n % k \in 0 .. k - 1
           /\ n \div k \in Nat
           /\ n = k * (n \div k) + (n % k)
<1>1. n % k \in 0 .. k - 1
  OBVIOUS
<1>2. n = k * (n \div k) + (n % k)
  OBVIOUS
<1>3. n \div k \in Int
  OBVIOUS
<1>4. CASE n \div k <= -1
  <2>1. k * (n \div k) <= -k
    BY <1>3, <1>4
  <2>2. QED
    BY <1>1, <1>2, <1>3, <2>1
<1>5. QED
  BY <1>1, <1>2, <1>3, <1>4

\* Two quotients with remainders below k are the same.
LEMMA SameDigits ==
    ASSUME NEW k \in Nat \ {0}, NEW q \in Int, NEW p \in Int,
           NEW r \in 0 .. k - 1, NEW t \in 0 .. k - 1,
           k * q + r = k * p + t
    PROVE  q = p /\ r = t
<1> DEFINE z == q - p
<1>1. z \in Int /\ k * z = t - r
  OBVIOUS
<1>2. z = 0 => q = p /\ r = t
  BY <1>1
<1> HIDE DEF z
<1>3. CASE z >= 1
  <2>1. k * z >= k
    BY <1>1, <1>3
  <2>2. QED
    BY <1>1, <2>1
<1>4. CASE z <= -1
  <2>1. k * z <= -k
    BY <1>1, <1>4
  <2>2. QED
    BY <1>1, <2>1
<1>5. QED
  BY <1>1, <1>2, <1>3, <1>4

\* The digits of a number that was put together of two.
LEMMA Joined ==
    ASSUME NEW k \in Nat \ {0}, NEW q \in Nat, NEW r \in 0 .. k - 1
    PROVE  /\ q * k + r \in Nat
           /\ (q * k + r) \div k = q
           /\ (q * k + r) % k = r
<1> DEFINE n == q * k + r
<1>1. n \in Nat /\ n = k * q + r
  OBVIOUS
<1> HIDE DEF n
<1>2. /\ n % k \in 0 .. k - 1 /\ n \div k \in Nat
      /\ n = k * (n \div k) + (n % k)
  BY <1>1, Division
<1>3. n \div k = q /\ n % k = r
  BY <1>1, <1>2, SameDigits
<1>4. QED
  BY <1>1, <1>3 DEF n

LEMMA TwoDigits ==
    ASSUME NEW k \in Nat \ {0}, NEW q \in 0 .. k - 1, NEW r \in 0 .. k - 1
    PROVE  q * k + r \in 0 .. k * k - 1
<1>1. q * k <= (k - 1) * k
  OBVIOUS
<1>2. (k - 1) * k = k * k - k
  OBVIOUS
<1>3. q * k \in Nat /\ k * k \in Nat
  OBVIOUS
<1>4. QED
  BY <1>1, <1>2, <1>3

\* A number below k * k is its two digits.
LEMMA Digits ==
    ASSUME NEW k \in Nat \ {0}, NEW n \in 0 .. k * k - 1
    PROVE  /\ n \div k \in 0 .. k - 1
           /\ n % k \in 0 .. k - 1
           /\ (n \div k) % k = n \div k
           /\ (n \div k) * k + (n % k) = n
<1> DEFINE q == n \div k
           r == n % k
<1>1. n \in Nat /\ k * k \in Nat /\ n < k * k
  OBVIOUS
<1>2. r \in 0 .. k - 1 /\ q \in Nat /\ n = k * q + r
  BY <1>1, Division
<1> HIDE DEF q, r
<1>3. q < k
  <2>1. CASE q >= k
    <3>1. k * q >= k * k
      BY <1>2, <2>1
    <3>2. QED
      BY <1>1, <1>2, <3>1
  <2>2. QED
    BY <1>2, <2>1
<1>4. q % k = q
  <2>1. q = 0 * k + q /\ q \in 0 .. k - 1
    BY <1>2, <1>3
  <2>2. QED
    BY <2>1, Joined
<1>5. q * k + r = n
  BY <1>2
<1>6. QED
  BY <1>2, <1>3, <1>4, <1>5 DEF q, r

LEMMA Bases ==
    /\ ByteBase \in Nat \ {0} /\ SegmentBase \in Nat \ {0}
    /\ SegmentBase = ByteBase * ByteBase
    /\ Mapped \in AnySegment /\ 0 \in AnySegment
    /\ Segments \subseteq AnySegment /\ Ports \subseteq AnySegment
<1>1. ByteBase * ByteBase >= ByteBase
  BY EndpointAssumption
<1>2. QED
  BY <1>1, EndpointAssumption DEF SegmentBase, Mapped, AnySegment

-----------------------------------------------------------------------------
(***************************************************************************)
(* Bytes of a segment, and of a port.                                      *)
(***************************************************************************)
LEMMA SegmentBytes ==
    ASSUME NEW x \in AnySegment
    PROVE  /\ x \div ByteBase \in Bytes /\ x % ByteBase \in Bytes
           /\ (x \div ByteBase) % ByteBase = x \div ByteBase
           /\ (x \div ByteBase) * ByteBase + (x % ByteBase) = x
  BY Bases, Digits DEF AnySegment, Bytes

LEMMA BytesSegment ==
    ASSUME NEW p \in Bytes, NEW q \in Bytes
    PROVE  /\ p * ByteBase + q \in AnySegment
           /\ (p * ByteBase + q) \div ByteBase = p
           /\ (p * ByteBase + q) % ByteBase = q
<1>1. ByteBase \in Nat \ {0} /\ p \in 0 .. ByteBase - 1 /\ q \in 0 .. ByteBase - 1
      /\ p \in Nat
  BY Bases DEF Bytes
<1>2. p * ByteBase + q \in 0 .. ByteBase * ByteBase - 1
  BY <1>1, TwoDigits
<1>3. QED
  BY <1>1, <1>2, Joined, Bases DEF AnySegment

LEMMA PortOrder ==
    /\ \A port \in AnySegment : NetworkOrder(port) \in Bytes \X Bytes
    /\ \A s \in AnySockAddr : /\ HostPort(s) \in AnySegment
                              /\ NetworkOrder(HostPort(s)) = s.port
<1>1. \A port \in AnySegment : NetworkOrder(port) \in Bytes \X Bytes
  BY SegmentBytes DEF NetworkOrder
<1>2. ASSUME NEW s \in AnySockAddr
      PROVE  HostPort(s) \in AnySegment /\ NetworkOrder(HostPort(s)) = s.port
  <2>1. PICK p \in Bytes, q \in Bytes : s.port = <<p, q>>
    BY DEF AnySockAddr
  <2>2. HostPort(s) = p * ByteBase + q
    BY <2>1, Bases DEF HostPort, Bytes
  <2>3. QED
    BY <2>1, <2>2, BytesSegment DEF NetworkOrder
<1>3. QED
  BY <1>1, <1>2

LEMMA ByteOfAddress ==
    ASSUME NEW a \in [Index -> AnySegment]
    PROVE  /\ \A i \in 0 .. 15 : Byte(a, i) \in Bytes
           /\ \A i \in Index : Byte(a, 2 * i + 1) * ByteBase + Byte(a, 2 * i) = a[i]
<1>1. ASSUME NEW i \in Index
      PROVE  /\ Byte(a, 2 * i + 1) = a[i] \div ByteBase
             /\ Byte(a, 2 * i) = a[i] % ByteBase
  <2>1. /\ (2 * i) % 2 = 0 /\ (2 * i) \div 2 = i
        /\ (2 * i + 1) % 2 = 1 /\ (2 * i + 1) \div 2 = i
    BY DEF Index
  <2>2. a[i] \in AnySegment
    OBVIOUS
  <2>3. (a[i] \div ByteBase) % ByteBase = a[i] \div ByteBase
    BY <2>2, SegmentBytes
  <2>4. QED
    BY <2>1, <2>3 DEF Byte
<1>2. ASSUME NEW i \in 0 .. 15 PROVE Byte(a, i) \in Bytes
  <2>1. PICK j \in Index : i = 2 * j \/ i = 2 * j + 1
    <3>1. i \div 2 \in Index /\ (i = 2 * (i \div 2) \/ i = 2 * (i \div 2) + 1)
      BY DEF Index
    <3>2. QED
      BY <3>1
  <2>2. a[j] \in AnySegment
    OBVIOUS
  <2>3. QED
    BY <1>1, <2>1, <2>2, SegmentBytes
<1>3. ASSUME NEW i \in Index
      PROVE  Byte(a, 2 * i + 1) * ByteBase + Byte(a, 2 * i) = a[i]
  <2>1. a[i] \in AnySegment
    OBVIOUS
  <2>2. QED
    BY <1>1, <2>1, SegmentBytes
<1>4. QED
  BY <1>2, <1>3

-----------------------------------------------------------------------------
(***************************************************************************)
(* Eight groups, and the sockaddr that names them.                         *)
(***************************************************************************)
LEMMA EightGroups ==
    ASSUME NEW g, DOMAIN g = 1 .. 8, g = [k \in 1 .. 8 |-> g[k]]
    PROVE  g = <<g[1], g[2], g[3], g[4], g[5], g[6], g[7], g[8]>>
  OBVIOUS

LEMMA IPv4Groups ==
    ASSUME NEW a \in [Index -> AnySegment], IsIPv4(a)
    PROVE  Groups(a) = <<0, 0, 0, 0, 0, Mapped, a[1], a[0]>>
<1>1. a[7] = 0 /\ a[6] = 0 /\ a[5] = 0 /\ a[4] = 0 /\ a[3] = 0 /\ a[2] = Mapped
  BY DEF IsIPv4
<1>2. Groups(a) = <<a[7], a[6], a[5], a[4], a[3], a[2], a[1], a[0]>>
  BY EightGroups DEF Groups
<1>3. QED
  BY <1>1, <1>2

\* ToSockAddr: the address, its port and its family, whichever the form.
LEMMA SentNode ==
    ASSUME NEW e \in AnyEndpoint
    PROVE  /\ ToSockAddr(e) \in AnySockAddr
           /\ Node(ToSockAddr(e)) = Groups(e.address)
           /\ ToSockAddr(e).port = NetworkOrder(e.port)
           /\ ToSockAddr(e).family = IF IsIPv4(e.address) THEN "INET" ELSE "INET6"
<1> DEFINE a == e.address
           s == ToSockAddr(e)
<1>1. a \in [Index -> AnySegment] /\ NetworkOrder(e.port) \in Bytes \X Bytes
  BY PortOrder DEF AnyEndpoint
<1>2. \A i \in 0 .. 15 : Byte(a, i) \in Bytes
  BY <1>1, ByteOfAddress
<1>3. \A i \in Index : Byte(a, 2 * i + 1) * ByteBase + Byte(a, 2 * i) = a[i]
  BY <1>1, ByteOfAddress
<1> HIDE DEF a
<1>4. CASE IsIPv4(a)
  <2> DEFINE b == [n \in 1 .. 4 |-> Byte(a, 4 - n)]
  <2>1. s = [family |-> "INET", port |-> NetworkOrder(e.port), bytes |-> b]
    BY <1>4 DEF ToSockAddr, a
  <2>2. b \in [1 .. 4 -> Bytes]
    BY <1>2
  <2>3. b[1] = Byte(a, 3) /\ b[2] = Byte(a, 2) /\ b[3] = Byte(a, 1) /\ b[4] = Byte(a, 0)
    OBVIOUS
  <2> HIDE DEF b, s
  <2>4. Byte(a, 3) * ByteBase + Byte(a, 2) = a[1]
    <3>1. 1 \in Index /\ 2 * 1 + 1 = 3 /\ 2 * 1 = 2
      BY DEF Index
    <3>2. QED
      BY <1>3, <3>1
  <2>5. Byte(a, 1) * ByteBase + Byte(a, 0) = a[0]
    <3>1. 0 \in Index /\ 2 * 0 + 1 = 1 /\ 2 * 0 = 0
      BY DEF Index
    <3>2. QED
      BY <1>3, <3>1
  <2>6. Node(s) = <<0, 0, 0, 0, 0, Mapped, b[1] * ByteBase + b[2], b[3] * ByteBase + b[4]>>
    BY <2>1 DEF Node
  <2>7. Node(s) = Groups(a)
    BY <1>1, <1>4, <2>3, <2>4, <2>5, <2>6, IPv4Groups DEF a
  <2>8. s \in AnySockAddr
    BY <1>1, <2>1, <2>2 DEF AnySockAddr
  <2>9. s.port = NetworkOrder(e.port) /\ s.family = "INET"
    BY <2>1
  <2>10. QED
    BY <1>4, <2>7, <2>8, <2>9 DEF s, a
<1>5. CASE ~IsIPv4(a)
  <2> DEFINE b == [n \in 1 .. 16 |-> Byte(a, 16 - n)]
  <2>1. s = [family |-> "INET6", port |-> NetworkOrder(e.port), bytes |-> b]
    BY <1>5 DEF ToSockAddr, a
  <2>2. b \in [1 .. 16 -> Bytes]
    BY <1>2
  <2>3. ASSUME NEW n \in 1 .. 8
        PROVE  b[2 * n - 1] * ByteBase + b[2 * n] = a[8 - n]
    <3>1. 8 - n \in Index /\ 2 * (8 - n) + 1 = 16 - (2 * n - 1) /\ 2 * (8 - n) = 16 - 2 * n
          /\ 2 * n - 1 \in 1 .. 16 /\ 2 * n \in 1 .. 16
      BY DEF Index
    <3>2. b[2 * n - 1] = Byte(a, 2 * (8 - n) + 1) /\ b[2 * n] = Byte(a, 2 * (8 - n))
      BY <3>1
    <3> HIDE DEF b
    <3>3. QED
      BY <1>3, <3>1, <3>2
  <2> HIDE DEF b, s
  <2>4. Node(s) = [n \in 1 .. 8 |-> b[2 * n - 1] * ByteBase + b[2 * n]]
    BY <2>1 DEF Node
  <2>5. Node(s) = Groups(a)
    BY <2>3, <2>4 DEF Groups
  <2>6. s \in AnySockAddr
    BY <1>1, <2>1, <2>2 DEF AnySockAddr
  <2>7. s.port = NetworkOrder(e.port) /\ s.family = "INET6"
    BY <2>1
  <2>8. QED
    BY <1>5, <2>5, <2>6, <2>7 DEF s, a
<1>6. QED
  BY <1>4, <1>5

\* ToEndpoint: the same the other way.
LEMMA ReceivedNode ==
    ASSUME NEW s \in AnySockAddr, NEW e
    PROVE  /\ ToEndpoint(e, s) \in AnyEndpoint
           /\ Groups(ToEndpoint(e, s).address) = Node(s)
           /\ ToEndpoint(e, s).port = HostPort(s)
           /\ s.family = "INET" => IsIPv4(ToEndpoint(e, s).address)
           /\ s.family \in {"INET", "INET6"}
<1> DEFINE r == ToEndpoint(e, s)
           b == s.bytes
<1>1. HostPort(s) \in AnySegment
  BY PortOrder
<1>2. CASE s.family = "INET"
  <2> DEFINE hi == b[1] * ByteBase + b[2]
             lo == b[3] * ByteBase + b[4]
             value == (b[1] * ByteBase + b[2]) * SegmentBase + b[3] * ByteBase + b[4]
             a == FromIPv4(value)
  <2>1. b \in [1 .. 4 -> Bytes]
    BY <1>2 DEF AnySockAddr
  <2>2. hi \in AnySegment /\ lo \in AnySegment
    BY <2>1, BytesSegment
  <2>3. value = hi * SegmentBase + lo
    BY <2>1, Bases DEF Bytes
  <2>4. r = [address |-> a, port |-> HostPort(s)]
    BY <1>2 DEF ToEndpoint
  <2>5. Node(s) = <<0, 0, 0, 0, 0, Mapped, hi, lo>>
    BY <1>2 DEF Node
  <2> HIDE DEF hi, lo, value, r
  <2>6. hi \in Nat /\ lo \in 0 .. SegmentBase - 1
    BY <2>2 DEF AnySegment
  <2>7. value % SegmentBase = lo /\ value \div SegmentBase = hi
    BY <2>3, <2>6, Bases, Joined
  <2>8. a \in [Index -> AnySegment]
    BY <2>2, <2>7, Bases DEF FromIPv4
  <2>9. a[0] = lo /\ a[1] = hi /\ a[2] = Mapped /\ \A i \in 3 .. 7 : a[i] = 0
    BY <2>7 DEF FromIPv4, Index
  <2> HIDE DEF a
  <2>10. IsIPv4(a)
    BY <2>9 DEF IsIPv4
  <2>11. Groups(a) = Node(s)
    BY <2>5, <2>8, <2>9, <2>10, IPv4Groups
  <2>12. r \in AnyEndpoint /\ r.address = a /\ r.port = HostPort(s)
    BY <1>1, <2>4, <2>8 DEF AnyEndpoint
  <2>13. QED
    BY <1>2, <2>10, <2>11, <2>12 DEF r
<1>3. CASE s.family = "INET6"
  <2> DEFINE a == [i \in Index |-> b[15 - 2 * i] * ByteBase + b[16 - 2 * i]]
  <2>1. b \in [1 .. 16 -> Bytes]
    BY <1>3 DEF AnySockAddr
  <2>2. r = [address |-> a, port |-> HostPort(s)]
    BY <1>3 DEF ToEndpoint
  <2>3. Node(s) = [n \in 1 .. 8 |-> b[2 * n - 1] * ByteBase + b[2 * n]]
    BY <1>3 DEF Node
  <2> HIDE DEF b, r
  <2>4. ASSUME NEW i \in Index
        PROVE  b[15 - 2 * i] * ByteBase + b[16 - 2 * i] \in AnySegment
    <3>1. 15 - 2 * i \in 1 .. 16 /\ 16 - 2 * i \in 1 .. 16
      BY DEF Index
    <3>2. b[15 - 2 * i] \in Bytes /\ b[16 - 2 * i] \in Bytes
      BY <2>1, <3>1
    <3>3. QED
      BY <3>2, BytesSegment
  <2>5. a \in [Index -> AnySegment]
    BY <2>4
  <2>6. ASSUME NEW n \in 1 .. 8
        PROVE  a[8 - n] = b[2 * n - 1] * ByteBase + b[2 * n]
    <3>1. 8 - n \in Index /\ 15 - 2 * (8 - n) = 2 * n - 1 /\ 16 - 2 * (8 - n) = 2 * n
      BY DEF Index
    <3>2. a[8 - n] = b[15 - 2 * (8 - n)] * ByteBase + b[16 - 2 * (8 - n)]
      BY <3>1
    <3>3. QED
      BY <3>1, <3>2
  <2> HIDE DEF a
  <2>7. Groups(a) = Node(s)
    BY <2>3, <2>6 DEF Groups
  <2>8. r \in AnyEndpoint /\ r.address = a /\ r.port = HostPort(s)
    BY <1>1, <2>2, <2>5 DEF AnyEndpoint
  <2>9. QED
    BY <1>3, <2>7, <2>8 DEF r
<1>4. s.family \in {"INET", "INET6"}
  BY DEF AnySockAddr
<1>5. QED
  BY <1>2, <1>3, <1>4

-----------------------------------------------------------------------------
(***************************************************************************)
(* The invariant.                                                          *)
(***************************************************************************)
IInv ==
    /\ endpoint \in AnyEndpoint
    /\ peer \in AnySockAddr \union {NoSockAddr}
    /\ known => peer # NoSockAddr /\ endpoint = ToEndpoint(NoEndpoint, peer)
    /\ sent # NoSockAddr => sent = ToSockAddr(endpoint)

LEMMA NoSockAddrEmpty == NoSockAddr \notin AnySockAddr
<1>1. \A s \in AnySockAddr : s.family # "UNSPEC"
  BY DEF AnySockAddr
<1>2. NoSockAddr.family = "UNSPEC"
  BY DEF NoSockAddr
<1>3. QED
  BY <1>1, <1>2

LEMMA NoEndpointType == NoEndpoint \in AnyEndpoint
  BY Bases DEF NoEndpoint, AnyEndpoint

LEMMA NamedType ==
    ASSUME NEW n \in {2, 8}, NEW g \in [1 .. n -> Segments], NEW port \in Ports,
           NEW family, family = IF n = 2 THEN "INET" ELSE "INET6"
    PROVE  Named(family, g, port) \in AnySockAddr
<1> DEFINE bytes == [m \in 1 .. 2 * Len(g) |->
                        IF m % 2 = 1 THEN g[(m + 1) \div 2] \div ByteBase
                                     ELSE g[m \div 2] % ByteBase]
<1>1. Len(g) = n
  OBVIOUS
<1>2. ASSUME NEW m \in 1 .. 2 * n
      PROVE  (IF m % 2 = 1 THEN g[(m + 1) \div 2] \div ByteBase
                           ELSE g[m \div 2] % ByteBase) \in Bytes
  <2>1. CASE m % 2 = 1
    <3>1. (m + 1) \div 2 \in 1 .. n
      BY <2>1
    <3>2. g[(m + 1) \div 2] \in AnySegment
      BY <3>1, Bases
    <3>3. QED
      BY <2>1, <3>2, SegmentBytes
  <2>2. CASE m % 2 # 1
    <3>1. m \div 2 \in 1 .. n
      BY <2>2
    <3>2. g[m \div 2] \in AnySegment
      BY <3>1, Bases
    <3>3. QED
      BY <2>2, <3>2, SegmentBytes
  <2>3. QED
    BY <2>1, <2>2
<1>3. bytes \in [1 .. 2 * n -> Bytes]
  BY <1>1, <1>2
<1>4. Named(family, g, port) = [family |-> family, port |-> NetworkOrder(port),
                                bytes |-> bytes]
  BY DEF Named
<1>5. NetworkOrder(port) \in Bytes \X Bytes
  BY Bases, PortOrder
<1> HIDE DEF bytes
<1>6. CASE n = 2
  BY <1>3, <1>4, <1>5, <1>6 DEF AnySockAddr
<1>7. CASE n = 8
  <2>1. bytes \in [1 .. 16 -> Bytes] /\ family = "INET6"
    BY <1>3, <1>7
  <2>2. QED
    BY <1>4, <1>5, <2>1 DEF AnySockAddr
<1>8. QED
  BY <1>6, <1>7

LEMMA InitInv == ASSUME Init PROVE IInv
<1>1. SockAddrs \subseteq AnySockAddr
  <2>1. \A g \in [1 .. 2 -> Segments], p \in Ports : Named("INET", g, p) \in AnySockAddr
    BY NamedType
  <2>2. \A g \in [1 .. 8 -> Segments], p \in Ports : Named("INET6", g, p) \in AnySockAddr
    BY NamedType
  <2>3. QED
    BY <2>1, <2>2 DEF SockAddrs
<1>2. CASE endpoint \in Endpoints /\ peer = NoSockAddr
  <2>1. endpoint \in AnyEndpoint
    <3>1. Addresses \subseteq [Index -> AnySegment] /\ Ports \subseteq AnySegment
      BY Bases DEF Addresses
    <3>2. QED
      BY <1>2, <3>1 DEF Endpoints, AnyEndpoint
  <2>2. QED
    BY <1>2, <2>1 DEF Init, IInv
<1>3. ASSUME NEW s \in Segments, NEW t \in Segments, NEW p \in Ports,
             endpoint = [address |-> FromIPv4(s + t * SegmentBase), port |-> p],
             peer = NoSockAddr
      PROVE  IInv
  <2>1. s \in 0 .. SegmentBase - 1 /\ t \in 0 .. SegmentBase - 1 /\ t \in Nat
    BY Bases DEF AnySegment
  <2>2. s + t * SegmentBase = t * SegmentBase + s
    BY <2>1, Bases
  <2>3. /\ (s + t * SegmentBase) \div SegmentBase = t
        /\ (s + t * SegmentBase) % SegmentBase = s
    <3>1. /\ (t * SegmentBase + s) \div SegmentBase = t
          /\ (t * SegmentBase + s) % SegmentBase = s
      BY <2>1, Bases, Joined
    <3> DEFINE value == t * SegmentBase + s
    <3> HIDE DEF value
    <3>2. value \div SegmentBase = t /\ value % SegmentBase = s
      BY <3>1 DEF value
    <3>3. s + t * SegmentBase = value
      BY <2>2 DEF value
    <3>4. QED
      BY <3>2, <3>3
  <2>4. FromIPv4(s + t * SegmentBase) \in [Index -> AnySegment]
    BY <2>3, Bases DEF FromIPv4
  <2>5. endpoint \in AnyEndpoint
    BY <1>3, <2>4, Bases DEF AnyEndpoint
  <2>6. QED
    BY <1>3, <2>5 DEF Init, IInv
<1>4. CASE endpoint = NoEndpoint /\ peer \in SockAddrs
  BY <1>1, <1>4, NoEndpointType DEF Init, IInv
<1>5. QED
  BY <1>2, <1>3, <1>4 DEF Init

\* What an endpoint is made of a sockaddr does not depend on what it was.
LEMMA Overwritten ==
    ASSUME NEW s \in AnySockAddr, NEW e
    PROVE  ToEndpoint(e, s) = ToEndpoint(NoEndpoint, s)
<1>1. s.family = "INET" \/ s.family = "INET6"
  BY ReceivedNode
<1>2. QED
  BY <1>1 DEF ToEndpoint

LEMMA NextInv == ASSUME IInv, [Next]_vars PROVE IInv'
<1>1. CASE UNCHANGED vars
  BY <1>1 DEF vars, IInv
<1>2. CASE ReadFrom
  <2>1. peer \in AnySockAddr
    BY <1>2 DEF ReadFrom, IInv
  <2>2. /\ endpoint' = ToEndpoint(NoEndpoint, peer)
        /\ endpoint' \in AnyEndpoint
    BY <1>2, <2>1, Overwritten, ReceivedNode DEF ReadFrom
  <2>3. peer' = peer /\ sent' = NoSockAddr
    BY <1>2 DEF ReadFrom
  <2>4. QED
    BY <2>1, <2>2, <2>3, NoSockAddrEmpty DEF IInv
<1>3. CASE ReadFromConnected
  <2>1. endpoint \in AnyEndpoint
    BY DEF IInv
  <2>2. peer' \in AnySockAddr /\ peer' = ToSockAddr(endpoint)
    BY <1>3, <2>1, SentNode DEF ReadFromConnected
  <2>3. endpoint' = ToEndpoint(NoEndpoint, peer') /\ sent' = NoSockAddr
    BY <1>3, <2>2 DEF ReadFromConnected
  <2>4. endpoint' \in AnyEndpoint
    BY <2>2, <2>3, ReceivedNode
  <2>5. QED
    BY <2>2, <2>3, <2>4, NoSockAddrEmpty DEF IInv
<1>4. ASSUME NEW families \in {{"INET"}, {"INET6"}, Families}, ResolveFromHost(families)
      PROVE  IInv'
  <2>1. peer \in AnySockAddr /\ peer' = peer /\ sent' = NoSockAddr
    BY <1>4 DEF ResolveFromHost, IInv
  <2>2. CASE endpoint' = ToEndpoint(NoEndpoint, peer) /\ known' = TRUE
    BY <2>1, <2>2, ReceivedNode, NoSockAddrEmpty DEF IInv
  <2>3. CASE endpoint' = NoEndpoint /\ known' = FALSE
    BY <2>1, <2>3, NoEndpointType DEF IInv
  <2>4. CASE UNCHANGED <<endpoint, known>>
    BY <2>1, <2>4 DEF IInv
  <2>5. QED
    BY <1>4, <2>2, <2>3, <2>4 DEF ResolveFromHost
<1>5. CASE WriteTo
  BY <1>5 DEF WriteTo, IInv
<1>6. QED
  BY <1>1, <1>2, <1>3, <1>4, <1>5 DEF Next

LEMMA Invariance == Spec => []IInv
  BY InitInv, NextInv, PTL DEF Spec

\* An answer goes to the node and port its datagram came from, through both
\* conversions, whatever the sockaddr the system named.
THEOREM ReplyCorrectness == Spec => []ReplyReachesSender
<1>1. IInv => ReplyReachesSender
  <2> SUFFICES ASSUME IInv, known, sent # NoSockAddr
               PROVE  /\ Node(sent) = Node(peer)
                      /\ sent.port = peer.port
                      /\ sent.family # peer.family
                            => peer.family = "INET6" /\ sent.family = "INET"
    BY DEF ReplyReachesSender
  <2>1. /\ peer \in AnySockAddr /\ endpoint \in AnyEndpoint
        /\ endpoint = ToEndpoint(NoEndpoint, peer)
        /\ sent = ToSockAddr(endpoint)
    BY DEF IInv
  <2>2. Node(sent) = Node(peer)
    BY <2>1, SentNode, ReceivedNode
  <2>3. sent.port = peer.port
    BY <2>1, SentNode, ReceivedNode, PortOrder
  <2>4. /\ sent.family = IF IsIPv4(endpoint.address) THEN "INET" ELSE "INET6"
        /\ peer.family = "INET" => IsIPv4(endpoint.address)
        /\ peer.family \in {"INET", "INET6"}
    BY <2>1, SentNode, ReceivedNode
  <2>5. QED
    BY <2>2, <2>3, <2>4
<1>2. QED
  BY <1>1, Invariance, PTL

-----------------------------------------------------------------------------
(***************************************************************************)
(* toString's scan for the longest run of zeros, group by group.           *)
(***************************************************************************)
Step(g, s, k) == ScanGroup(s, k, g[k] = 0)

ScanStates(g, f) ==
    f = [k \in 0 .. 8 |-> IF k = 0 THEN NewScan ELSE Step(g, f[k - 1], k)]

\* After k groups: the run that may still grow (start, colons) and the longest
\* that has ended (from, to, total) are of zeros only.
Runs(g, k, s) ==
    /\ s \in [start : Nat, colons : Nat, from : Nat, to : Nat, total : Nat]
    /\ k = 0 => s.start = 1 /\ s.colons = 1
    /\ s.colons > 0 => /\ s.start >= 1
                       /\ k > 0 => s.start <= k
                       /\ \A j \in s.start .. k : g[j] = 0
    /\ s.total > 0 => /\ s.from >= 1 /\ s.from < s.to /\ s.to <= k
                      /\ \A j \in s.from .. s.to - 1 : g[j] = 0

LEMMA NewScanRuns == ASSUME NEW g PROVE Runs(g, 0, NewScan)
  BY DEF Runs, NewScan

LEMMA StepRuns ==
    ASSUME NEW g \in [1 .. 8 -> Nat], NEW k \in 1 .. 8, NEW s, Runs(g, k - 1, s)
    PROVE  Runs(g, k, Step(g, s, k))
<1> DEFINE start  == IF k > 1 /\ s.colons = 0 THEN k ELSE s.start
           colons == IF k > 1 THEN s.colons + 1 ELSE s.colons
<1>1. s \in [start : Nat, colons : Nat, from : Nat, to : Nat, total : Nat]
  BY DEF Runs
<1>2. start \in Nat /\ colons \in Nat /\ colons > 0
  BY <1>1 DEF Runs
<1>3. /\ start >= 1 /\ start <= k
      /\ colons > 1 => start < k
      /\ \A j \in start .. k - 1 : g[j] = 0
  <2>1. CASE k = 1
    BY <1>1, <2>1 DEF Runs
  <2>2. CASE k > 1 /\ s.colons = 0
    BY <1>1, <2>2 DEF Runs
  <2>3. CASE k > 1 /\ s.colons > 0
    BY <1>1, <2>3 DEF Runs
  <2>4. QED
    BY <1>1, <2>1, <2>2, <2>3
<1>4. s.total > 0 => /\ s.from >= 1 /\ s.from < s.to /\ s.to <= k
                     /\ \A j \in s.from .. s.to - 1 : g[j] = 0
  BY <1>1 DEF Runs
<1> DEFINE t == Step(g, s, k)
<1>5. \/ /\ g[k] = 0
         /\ t = [s EXCEPT !.start = start, !.colons = colons]
      \/ /\ g[k] # 0 /\ colons > 1
         /\ t = [start |-> start, colons |-> 0, from |-> start, to |-> k,
                 total |-> colons]
      \/ t = [s EXCEPT !.start = start, !.colons = 0]
  BY DEF Step, ScanGroup
<1> HIDE DEF start, colons, t
<1>6. CASE g[k] = 0 /\ t = [s EXCEPT !.start = start, !.colons = colons]
  <2>1. /\ t \in [start : Nat, colons : Nat, from : Nat, to : Nat, total : Nat]
        /\ t.start = start /\ t.colons = colons
        /\ t.from = s.from /\ t.to = s.to /\ t.total = s.total
    BY <1>1, <1>2, <1>6
  <2>2. \A j \in start .. k : g[j] = 0
    BY <1>2, <1>3, <1>6
  <2>3. QED
    BY <1>2, <1>3, <1>4, <2>1, <2>2 DEF Runs, t
<1>7. CASE /\ g[k] # 0 /\ colons > 1
           /\ t = [start |-> start, colons |-> 0, from |-> start, to |-> k,
                   total |-> colons]
  <2>1. /\ t \in [start : Nat, colons : Nat, from : Nat, to : Nat, total : Nat]
        /\ t.colons = 0 /\ t.from = start /\ t.to = k
    BY <1>2, <1>7
  <2>2. QED
    BY <1>2, <1>3, <1>7, <2>1 DEF Runs, t
<1>8. CASE t = [s EXCEPT !.start = start, !.colons = 0]
  <2>1. /\ t \in [start : Nat, colons : Nat, from : Nat, to : Nat, total : Nat]
        /\ t.colons = 0
        /\ t.from = s.from /\ t.to = s.to /\ t.total = s.total
    BY <1>1, <1>2, <1>8
  <2>2. QED
    BY <1>4, <2>1 DEF Runs, t
<1>9. QED
  BY <1>5, <1>6, <1>7, <1>8 DEF t

\* The eight steps, one after the other.
LEMMA ScanRuns ==
    ASSUME NEW g \in [1 .. 8 -> Nat]
    PROVE  Runs(g, 8, Scan(g))
<1> DEFINE s1 == Step(g, NewScan, 1)
           s2 == Step(g, s1, 2)
           s3 == Step(g, s2, 3)
           s4 == Step(g, s3, 4)
           s5 == Step(g, s4, 5)
           s6 == Step(g, s5, 6)
           s7 == Step(g, s6, 7)
           s8 == Step(g, s7, 8)
           states == [k \in 0 .. 8 |->
                        CASE k = 0 -> NewScan [] k = 1 -> s1 [] k = 2 -> s2
                          [] k = 3 -> s3 [] k = 4 -> s4 [] k = 5 -> s5
                          [] k = 6 -> s6 [] k = 7 -> s7 [] k = 8 -> s8]
           f == CHOOSE h : ScanStates(g, h)
<1>1. Scan(g) = f[8]
  BY DEF Scan, ScanStates, Step
<1>2. /\ states[0] = NewScan /\ states[1] = s1 /\ states[2] = s2 /\ states[3] = s3
      /\ states[4] = s4 /\ states[5] = s5 /\ states[6] = s6 /\ states[7] = s7
      /\ states[8] = s8
  OBVIOUS
<1>3. \A k \in 1 .. 8 : states[k] = Step(g, states[k - 1], k)
  <2>1. \A k \in 1 .. 8 : k = 1 \/ k = 2 \/ k = 3 \/ k = 4 \/ k = 5 \/ k = 6 \/ k = 7 \/ k = 8
    OBVIOUS
  <2> HIDE DEF states
  <2>2. QED
    BY <1>2, <2>1
<1>4. ScanStates(g, states)
  <2>1. states = [k \in 0 .. 8 |-> states[k]]
    OBVIOUS
  <2> HIDE DEF states
  <2>2. QED
    BY <1>2, <1>3, <2>1 DEF ScanStates
<1>5. ScanStates(g, f)
  BY <1>4
<1> HIDE DEF f
<1>6. f[0] = NewScan /\ \A k \in 1 .. 8 : f[k] = Step(g, f[k - 1], k)
  BY <1>5 DEF ScanStates
<1>7. Runs(g, 0, f[0])
  BY <1>6, NewScanRuns
<1>8. \A k \in 1 .. 8 : Runs(g, k - 1, f[k - 1]) => Runs(g, k, f[k])
  BY <1>6, StepRuns
<1>9. Runs(g, 1, f[1]) /\ Runs(g, 2, f[2]) /\ Runs(g, 3, f[3]) /\ Runs(g, 4, f[4])
  BY <1>7, <1>8
<1>10. Runs(g, 5, f[5]) /\ Runs(g, 6, f[6]) /\ Runs(g, 7, f[7]) /\ Runs(g, 8, f[8])
  BY <1>8, <1>9
<1>11. QED
  BY <1>1, <1>10

\* Zeros between two parts of a sequence, in the place of the zeros it has there.
LEMMA ZerosBack ==
    ASSUME NEW g \in [1 .. 8 -> Nat], NEW from \in 1 .. 8, NEW to \in 1 .. 8, from < to,
           \A j \in from .. to - 1 : g[j] = 0
    PROVE  /\ Len(SubSeq(g, 1, from - 1)) = from - 1
           /\ Len(SubSeq(g, to, 8)) = 9 - to
           /\ SubSeq(g, 1, from - 1) \o [n \in 1 .. to - from |-> 0] \o SubSeq(g, to, 8) = g
<1> DEFINE head == SubSeq(g, 1, from - 1)
           zeros == [n \in 1 .. to - from |-> 0]
           middle == SubSeq(g, from, to - 1)
           tail == SubSeq(g, to, 8)
<1>1. g \in Seq(Nat) /\ Len(g) = 8
  <2>1. g \in Seq(Nat)
    <3>1. [1 .. 8 -> Nat] \in { [1 .. n -> Nat] : n \in Nat }
      OBVIOUS
    <3>2. Seq(Nat) = UNION { [1 .. n -> Nat] : n \in Nat }
      BY SeqDef, Zenon
    <3>3. QED
      BY <3>1, <3>2, Zenon
  <2>2. Len(g) = 8
    OBVIOUS
  <2>3. QED
    BY <2>1, <2>2
<1>2. \A i \in 1 .. 8 : g[i] \in Nat
  OBVIOUS
<1>3. head \in Seq(Nat) /\ Len(head) = from - 1
  BY <1>2, SubSeqProperties
<1>4. tail \in Seq(Nat) /\ Len(tail) = 9 - to
  BY <1>2, SubSeqProperties
<1>5. /\ middle \in Seq(Nat) /\ Len(middle) = to - from
      /\ \A i \in 1 .. to - from : middle[i] = g[from + i - 1]
  BY <1>2, SubSeqProperties
<1>6. \A i \in 1 .. to - from : middle[i] = 0
  BY <1>5
<1>7. zeros = middle
  <2>1. middle \in [1 .. to - from -> Nat]
    BY <1>5, LenProperties
  <2> HIDE DEF middle
  <2>2. QED
    BY <1>6, <2>1
<1>8. head \o middle = SubSeq(g, 1, to - 1)
  <2>1. /\ 1 \in 1 .. Len(g) + 1 /\ from - 1 \in 1 - 1 .. Len(g)
        /\ to - 1 \in from - 1 .. Len(g) /\ (from - 1) + 1 = from
    BY <1>1
  <2>2. QED
    BY <1>1, <2>1, ConcatAdjacentSubSeq
<1>9. SubSeq(g, 1, to - 1) \o tail = SubSeq(g, 1, 8)
  <2>1. /\ 1 \in 1 .. Len(g) + 1 /\ to - 1 \in 1 - 1 .. Len(g)
        /\ 8 \in to - 1 .. Len(g) /\ (to - 1) + 1 = to
    BY <1>1
  <2>2. QED
    BY <1>1, <2>1, ConcatAdjacentSubSeq
<1>10. SubSeq(g, 1, 8) = g
  BY <1>1, SubSeqFull
<1> HIDE DEF head, zeros, middle, tail
<1>11. head \o zeros \o tail = g
  BY <1>7, <1>8, <1>9, <1>10
<1>12. QED
  BY <1>3, <1>4, <1>11 DEF head, zeros, tail

LEMMA TextDenotes ==
    ASSUME NEW a \in [Index -> AnySegment]
    PROVE  Denoted(ToString(a)) = Groups(a)
<1>1. CASE IsIPv4(a)
  <2> DEFINE b == [n \in 1 .. 4 |-> Byte(a, 4 - n)]
             text == ToString(a)
  <2>1. text = [form |-> "dotted", bytes |-> b]
    BY <1>1 DEF ToString
  <2>2. b[1] = Byte(a, 3) /\ b[2] = Byte(a, 2) /\ b[3] = Byte(a, 1) /\ b[4] = Byte(a, 0)
    OBVIOUS
  <2> HIDE DEF b, text
  <2>3. Denoted(text) = <<0, 0, 0, 0, 0, Mapped, b[1] * ByteBase + b[2],
                                                b[3] * ByteBase + b[4]>>
    BY <2>1 DEF Denoted
  <2>4. \A i \in Index : Byte(a, 2 * i + 1) * ByteBase + Byte(a, 2 * i) = a[i]
    BY ByteOfAddress
  <2>5. Byte(a, 3) * ByteBase + Byte(a, 2) = a[1]
    <3>1. 1 \in Index /\ 2 * 1 + 1 = 3 /\ 2 * 1 = 2
      BY DEF Index
    <3>2. QED
      BY <2>4, <3>1
  <2>6. Byte(a, 1) * ByteBase + Byte(a, 0) = a[0]
    <3>1. 0 \in Index /\ 2 * 0 + 1 = 1 /\ 2 * 0 = 0
      BY DEF Index
    <3>2. QED
      BY <2>4, <3>1
  <2>7. QED
    BY <1>1, <2>2, <2>3, <2>5, <2>6, IPv4Groups DEF text
<1>2. CASE ~IsIPv4(a)
  <2> DEFINE g == Groups(a)
             s == Scan(g)
             text == ToString(a)
  <2>1. g \in [1 .. 8 -> Nat]
    <3>1. \A k \in 1 .. 8 : 8 - k \in Index /\ a[8 - k] \in AnySegment
      BY DEF Index
    <3>2. AnySegment \subseteq Nat
      BY Bases DEF AnySegment
    <3>3. QED
      BY <3>1, <3>2 DEF Groups
  <2>2. text = IF s.total = 0
               THEN [form |-> "full", groups |-> g]
               ELSE [form |-> "short", head |-> SubSeq(g, 1, s.from - 1),
                                       tail |-> SubSeq(g, s.to, 8)]
    BY <1>2 DEF ToString
  <2>3. Runs(g, 8, s)
    BY <2>1, ScanRuns
  <2> HIDE DEF g, s, text
  <2>4. CASE s.total = 0
    BY <2>2, <2>4 DEF Denoted, text, g
  <2>5. CASE s.total # 0
    <3>1. /\ s.from \in 1 .. 8 /\ s.to \in 1 .. 8 /\ s.from < s.to
          /\ \A j \in s.from .. s.to - 1 : g[j] = 0
      BY <2>3, <2>5 DEF Runs
    <3> DEFINE head == SubSeq(g, 1, s.from - 1)
               tail == SubSeq(g, s.to, 8)
    <3>2. /\ Len(head) = s.from - 1 /\ Len(tail) = 9 - s.to
          /\ head \o [n \in 1 .. s.to - s.from |-> 0] \o tail = g
      BY <2>1, <3>1, ZerosBack
    <3>3. text = [form |-> "short", head |-> head, tail |-> tail]
      BY <2>2, <2>5
    <3> HIDE DEF head, tail
    <3>4. /\ ~(Len(head) + Len(tail) > 7)
          /\ 8 - (Len(head) + Len(tail)) = s.to - s.from
      <4>1. Len(head) = s.from - 1 /\ Len(tail) = 9 - s.to
        BY <3>2
      <4>2. s.from \in 1 .. 8 /\ s.to \in 1 .. 8 /\ s.from < s.to
        BY <3>1
      <4>3. Len(head) + Len(tail) = 8 - (s.to - s.from)
        <5>1. PICK x \in Int, y \in Int : x = Len(head) /\ y = Len(tail)
          BY <4>1, <4>2
        <5>2. PICK p \in Int, q \in Int : p = s.from /\ q = s.to
          BY <4>2
        <5>3. x = p - 1 /\ y = 9 - q
          BY <4>1, <5>1, <5>2
        <5>4. x + y = 8 - (q - p)
          BY <5>3
        <5>5. QED
          BY <5>1, <5>2, <5>4
      <4>4. QED
        BY <4>2, <4>3
    <3>5. Denoted(text) = IF Len(head) + Len(tail) > 7 THEN << >>
                          ELSE head \o [n \in 1 .. 8 - (Len(head) + Len(tail)) |-> 0] \o tail
      BY <3>3 DEF Denoted
    <3>6. Denoted(text) = g
      BY <3>2, <3>4, <3>5
    <3>7. QED
      BY <3>6 DEF text, g
  <2>6. QED
    BY <2>4, <2>5
<1>3. QED
  BY <1>1, <1>2

\* The text of an address can be read back as that address: what "::" leaves out
\* is zeros only, and at least one group of them.
THEOREM TextCorrectness == Spec => []TextDenotesAddress
<1>1. IInv => TextDenotesAddress
  BY TextDenotes DEF IInv, AnyEndpoint, TextDenotesAddress
<1>2. QED
  BY <1>1, Invariance, PTL
=============================================================================

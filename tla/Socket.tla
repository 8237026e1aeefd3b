------------------------------- MODULE Socket -------------------------------
(***************************************************************************)
(* ReliableUDP::Networking::Socket: the objects that wrap the operating    *)
(* system's sockets, the calls of a program on them, and as much of the    *)
(* operating system as those calls can tell.  A call of the system in      *)
(* Refusals may fail, one in Unsupported always does: a timeout of four    *)
(* bytes, for one, is refused by POSIX systems and accepted by Windows.    *)
(* m_LocalEndpoint is left out: the program is told it, no call depends on *)
(* it.  So is the direction shut down, since a call on an open socket may  *)
(* end in any way at any time.                                             *)
(* reportError is a flag in the result of the call that reached it; the    *)
(* callback it may lead to is taken not to use the socket.                 *)
(***************************************************************************)
EXTENDS Integers

CONSTANTS Objects,          \* places for Socket objects
          Handles,          \* handles the system may give out
          PointerModulus,   \* 2 ^ (bits of std::uintptr_t)
          LongModulus,      \* 2 ^ (bits of unsigned long long), 2 ^ 64
          Endpoints,
          NoEndpoint,       \* Endpoint {}: not valid
          Timeouts,         \* milliseconds a program may ask for
          DefaultTimeout,   \* 2000
          Refusals,
          Unsupported,
          Startups          \* how WSAStartup may end; {TRUE} but on Windows

SystemCalls == {"socket", "bind", "connect", "nonblocking", "timeout", "name",
                "listen", "accept", "close", "shutdown"}

ASSUME SocketAssumption ==
    /\ LongModulus \in Nat /\ PointerModulus \in 2 .. LongModulus
    /\ Handles \subseteq 0 .. PointerModulus - 2
    /\ NoEndpoint \notin Endpoints
    /\ {0, DefaultTimeout} \subseteq Timeouts /\ Timeouts \subseteq Nat
    /\ Refusals \subseteq SystemCalls
    /\ Unsupported \subseteq SystemCalls
    /\ Startups \subseteq BOOLEAN

VARIABLES
    object,    \* [Objects -> a Socket, or NoObject where there is none]
    kernel,    \* [Handles -> what the system knows of its socket]
    result,    \* what the last call did
    refused,   \* history: objects whose handle the system would not make
               \* non-blocking, which was reported
    started    \* g_WSAState.isInitialized(), settled before main

vars == <<object, kernel, result, refused, started>>

Types == {"TCP", "UDP"}

\* ~0ULL as m_Socket stores it.
NoHandle == (LongModulus - 1) % PointerModulus

NewObject(type) ==
    [made |-> TRUE, type |-> type, remote |-> NoEndpoint,
     write |-> DefaultTimeout, read |-> DefaultTimeout, handle |-> NoHandle]

NoObject == [NewObject("TCP") EXCEPT !.made = FALSE]

ClosedHandle == [open |-> FALSE, type |-> "TCP", nonblocking |-> FALSE,
                 listening |-> FALSE, peer |-> NoEndpoint]

\* Variant: 0 is taken for no handle.
IsBoundNonzero(o) == o.handle # 0

\* isBound compares with ~0ULL.
IsBound(o) == o.handle # LongModulus - 1

IsConnected(o) == o.remote # NoEndpoint

IsNonBlocking(o) == o.read = 0 \/ o.write = 0

IsOpen(h) == h \in Handles /\ kernel[h].open

Free == { h \in Handles : ~kernel[h].open }

\* Whether a system call may succeed, whether it may fail; on a handle that is
\* not open it fails.
Outcomes(call) == IF call \in Unsupported THEN {FALSE}
                  ELSE IF call \in Refusals THEN BOOLEAN
                  ELSE {TRUE}

OutcomesOn(h, call) == IF IsOpen(h) THEN Outcomes(call) ELSE {FALSE}

\* What a call returned and whether it reached reportError.  op tells bind and
\* connect ("open") and readFrom and writeTo ("transfer") from the others; bound
\* is whether "open" found its object bound to an open handle.
Nothing == [op |-> "other", done |-> FALSE, reported |-> FALSE, bound |-> FALSE,
            asked |-> NoEndpoint, reached |-> NoEndpoint]

Return(done, reported) ==
    result' = [Nothing EXCEPT !.done = done, !.reported = reported]

Init ==
    /\ object = [s \in Objects |-> NoObject]
    /\ kernel = [h \in Handles |-> ClosedHandle]
    /\ result = Nothing
    /\ refused = {}
    /\ started \in Startups

-----------------------------------------------------------------------------
(***************************************************************************)
(* Objects.                                                                *)
(***************************************************************************)
Construct(s, type) ==
    /\ ~object[s].made
    /\ object' = [object EXCEPT ![s] = NewObject(type)]
    /\ Return(TRUE, FALSE)
    /\ UNCHANGED <<kernel, refused, started>>

\* Variant: the object moved from keeps its handle.
MoveSharing(s, t) ==
    /\ object[s].made /\ ~object[t].made
    /\ object' = [object EXCEPT ![t] = object[s]]
    /\ refused' = IF s \in refused THEN refused \union {t} ELSE refused
    /\ Return(TRUE, FALSE)
    /\ UNCHANGED <<kernel, started>>

\* The object moved from loses its handle, and only that.
Move(s, t) ==
    /\ object[s].made /\ ~object[t].made
    /\ object' = [object EXCEPT ![t] = object[s], ![s].handle = NoHandle]
    /\ refused' = IF s \in refused THEN (refused \ {s}) \union {t} ELSE refused
    /\ Return(TRUE, FALSE)
    /\ UNCHANGED <<kernel, started>>

\* What close leaves of an object and of the system's sockets.
ClosedObject(o) == [o EXCEPT !.handle = NoHandle, !.remote = NoEndpoint]

KernelWithout(h) == [g \in Handles |-> IF g = h THEN ClosedHandle ELSE kernel[g]]

\* The system gives the handle up even when it reports an error.
Close(s) ==
    /\ object[s].made
    /\ IF IsBound(object[s])
       THEN /\ object' = [object EXCEPT ![s] = ClosedObject(@)]
            /\ kernel' = KernelWithout(object[s].handle)
            /\ \E ok \in OutcomesOn(object[s].handle, "close") :
                  Return(TRUE, ~ok)
       ELSE /\ UNCHANGED <<object, kernel>>
            /\ Return(FALSE, FALSE)
    /\ refused' = refused \ {s}
    /\ UNCHANGED started

\* Variant: the handle is left open.
DestroyLeaking(s) ==
    /\ object[s].made
    /\ object' = [object EXCEPT ![s] = NoObject]
    /\ kernel' = kernel
    /\ refused' = refused \ {s}
    /\ Return(TRUE, FALSE)
    /\ UNCHANGED started

Destroy(s) ==
    /\ object[s].made
    /\ object' = [object EXCEPT ![s] = NoObject]
    /\ kernel' = KernelWithout(object[s].handle)
    /\ refused' = refused \ {s}
    /\ \E ok \in IF IsBound(object[s]) THEN OutcomesOn(object[s].handle, "close")
                                       ELSE {TRUE} :
          Return(TRUE, ~ok)
    /\ UNCHANGED started

-----------------------------------------------------------------------------
(***************************************************************************)
(* Opening.                                                                *)
(***************************************************************************)

\* How the system takes the mode the timeouts ask for.
Modes(o) ==
    IF IsNonBlocking(o)
    THEN { [nonblocking |-> ok, ok |-> ok] : ok \in Outcomes("nonblocking") }
    ELSE { [nonblocking |-> FALSE, ok |-> ok] : ok \in Outcomes("timeout") }

KernelWith(h, type, mode, peer) ==
    [kernel EXCEPT ![h] = [open |-> TRUE, type |-> type,
                           nonblocking |-> mode.nonblocking,
                           listening |-> FALSE, peer |-> peer]]

Remember(s, o, mode) ==
    refused' = IF IsNonBlocking(o) /\ ~mode.ok THEN refused \union {s} ELSE refused

\* bind or connect, call in the system's terms: on Windows, nothing where
\* WSAStartup failed, and no word of it; no socket to be had; a socket that the
\* second call of the system refuses, closed again; or an open one.  A mode the
\* system refuses is reported, and the socket stays open, and so is a name it
\* does not tell.
Open(call, s, remote, naming) ==
    LET ReturnOpen(done, reported) ==
            result' = [Nothing EXCEPT !.op = "open", !.done = done,
                                      !.reported = reported,
                                      !.bound = IsOpen(object[s].handle)]
    IN  /\ object[s].made
        /\ IF IsBound(object[s])
           THEN /\ ReturnOpen(FALSE, FALSE)
                /\ UNCHANGED <<object, kernel, refused>>
           ELSE \/ /\ ~started
                   /\ ReturnOpen(FALSE, FALSE)
                   /\ UNCHANGED <<object, kernel, refused>>
                \/ /\ started
                   /\ Free # {} => FALSE \in Outcomes("socket")
                   /\ ReturnOpen(FALSE, TRUE)
                   /\ UNCHANGED <<object, kernel, refused>>
                \/ /\ started
                   /\ Free # {} /\ TRUE \in Outcomes("socket")
                   /\ FALSE \in Outcomes(call)
                   /\ object' = [object EXCEPT ![s] = ClosedObject(@)]
                   /\ ReturnOpen(FALSE, TRUE)
                   /\ UNCHANGED <<kernel, refused>>
                \/ /\ started
                   /\ TRUE \in Outcomes("socket") \intersect Outcomes(call)
                   /\ \E h \in Free, mode \in Modes(object[s]), named \in naming :
                         /\ object' = [object EXCEPT ![s] = [@ EXCEPT !.handle = h,
                                                                     !.remote = remote]]
                         /\ kernel' = KernelWith(h, object[s].type, mode, remote)
                         /\ ReturnOpen(TRUE, ~mode.ok \/ ~named)
                         /\ Remember(s, object[s], mode)
        /\ UNCHANGED started

Bind(s) == Open("bind", s, NoEndpoint, {TRUE})

Connect(s, e) == Open("connect", s, e, Outcomes("name"))

\* Only an unbound socket of another type than TCP is turned away; the system
\* refuses everything else that cannot listen.
Listen(s) ==
    /\ object[s].made
    /\ LET o == object[s]
       IN  IF ~IsBound(o) /\ o.type # "TCP"
           THEN Return(FALSE, FALSE) /\ kernel' = kernel
           ELSE \E ok \in OutcomesOn(o.handle, "listen") :
                   IF ok /\ kernel[o.handle].type = "TCP"
                   THEN /\ kernel' = [kernel EXCEPT ![o.handle].listening = TRUE]
                        /\ Return(TRUE, FALSE)
                   ELSE Return(FALSE, TRUE) /\ kernel' = kernel
    /\ UNCHANGED <<object, refused, started>>

\* accept makes the object t; it has the type and timeouts of s.
Accept(s, t) ==
    /\ object[s].made /\ ~object[t].made
    /\ LET o     == object[s]
           fresh == [NewObject(o.type) EXCEPT !.write = o.write, !.read = o.read]
       IN  \/ /\ ~IsBound(o) /\ o.type # "TCP"
              /\ object' = [object EXCEPT ![t] = NewObject(o.type)]
              /\ Return(FALSE, FALSE)
              /\ UNCHANGED <<kernel, refused>>
           \/ /\ ~IsBound(o) => o.type = "TCP"
              /\ IsOpen(o.handle) /\ Free # {} /\ kernel[o.handle].listening
                    => FALSE \in Outcomes("accept")
              /\ object' = [object EXCEPT ![t] = fresh]
              /\ Return(FALSE, TRUE)
              /\ UNCHANGED <<kernel, refused>>
           \/ /\ IsOpen(o.handle) /\ kernel[o.handle].listening
              /\ TRUE \in Outcomes("accept")
              /\ \E h \in Free, e \in Endpoints, mode \in Modes(o),
                    named \in Outcomes("name") :
                    /\ object' = [object EXCEPT
                                     ![t] = [fresh EXCEPT !.handle = h, !.remote = e]]
                    /\ kernel' = KernelWith(h, kernel[o.handle].type, mode, e)
                    /\ Return(TRUE, ~mode.ok \/ ~named)
                    /\ Remember(t, o, mode)
    /\ UNCHANGED started

-----------------------------------------------------------------------------
(***************************************************************************)
(* Settings.                                                               *)
(***************************************************************************)

\* Variant: the type changes whether there is a handle or not.
SetTypeAnyTime(s, type) ==
    /\ object[s].made
    /\ object' = [object EXCEPT ![s].type = type]
    /\ Return(TRUE, FALSE)
    /\ UNCHANGED <<kernel, refused, started>>

SetType(s, type) ==
    /\ object[s].made
    /\ object' = IF IsBound(object[s]) THEN object
                                       ELSE [object EXCEPT ![s].type = type]
    /\ Return(TRUE, FALSE)
    /\ UNCHANGED <<kernel, refused, started>>

\* Variant: the handle stays as it is.
SetTimeoutUnswitched(s, side, timeout) ==
    /\ object[s].made
    /\ object' = [object EXCEPT ![s] = [@ EXCEPT ![side] = timeout]]
    /\ Return(TRUE, FALSE)
    /\ UNCHANGED <<kernel, refused, started>>

\* Variant: the timeout is kept in the unit the system takes.
SetTimeoutConverted(s, side, timeout) ==
    /\ object[s].made
    /\ object' = [object EXCEPT ![s] = [@ EXCEPT ![side] = 1000 * timeout]]
    /\ Return(TRUE, FALSE)
    /\ UNCHANGED <<kernel, refused, started>>

\* setWriteTimeout, setReadTimeout: with a timeout of 0 the handle is made
\* non-blocking first; nothing makes it blocking again.
SetTimeout(s, side, timeout) ==
    /\ object[s].made
    /\ LET o == object[s]
           updated == [object EXCEPT ![s] = [@ EXCEPT ![side] = timeout]]
       IN  IF ~IsBound(o)
           THEN /\ object' = updated
                /\ Return(TRUE, FALSE)
                /\ UNCHANGED kernel
           ELSE \E switched \in IF timeout = 0 THEN OutcomesOn(o.handle, "nonblocking")
                                              ELSE {FALSE},
                   taken \in OutcomesOn(o.handle, "timeout") :
                   /\ kernel' = IF switched
                                THEN [kernel EXCEPT ![o.handle].nonblocking = TRUE]
                                ELSE kernel
                   /\ LET ok == (timeout = 0 => switched) /\ taken
                      IN  /\ object' = IF ok THEN updated ELSE object
                          /\ Return(ok, ~ok)
    /\ UNCHANGED <<refused, started>>

SetNonBlocking(s) ==
    /\ object[s].made
    /\ LET o == object[s]
           updated == [object EXCEPT ![s] = [@ EXCEPT !.write = 0, !.read = 0]]
       IN  IF ~IsBound(o)
           THEN /\ object' = updated
                /\ Return(TRUE, FALSE)
                /\ UNCHANGED kernel
           ELSE \E ok \in OutcomesOn(o.handle, "nonblocking") :
                   /\ kernel' = IF ok
                                THEN [kernel EXCEPT ![o.handle].nonblocking = TRUE]
                                ELSE kernel
                   /\ object' = IF ok THEN updated ELSE object
                   /\ Return(ok, ~ok)
    /\ UNCHANGED <<refused, started>>

\* closeW, closeR, closeRW.
Shutdown(s) ==
    /\ object[s].made
    /\ IF ~IsBound(object[s])
       THEN Return(FALSE, FALSE)
       ELSE \E ok \in OutcomesOn(object[s].handle, "shutdown") : Return(ok, ~ok)
    /\ UNCHANGED <<object, kernel, refused, started>>

-----------------------------------------------------------------------------
(***************************************************************************)
(* Reading and writing.  What a call of the system ends with: "data", some *)
(* bytes went through; "zero", it returned 0 (end of a stream, a datagram  *)
(* without contents); "lost", an error that means the connection is gone;  *)
(* "again", nothing to be had now; "error", any other error.               *)
(***************************************************************************)
Endings(h) == IF IsOpen(h) THEN {"data", "zero", "lost", "again", "error"}
                           ELSE {"lost", "error"}

\* What the ending does to the socket.
After(s, ending) ==
    LET o      == object[s]
        closes == ending = "lost" \/ (ending = "zero" /\ IsNonBlocking(o))
    IN  /\ object' = IF closes THEN [object EXCEPT ![s] = ClosedObject(o)] ELSE object
        /\ kernel' = IF closes THEN KernelWithout(o.handle) ELSE kernel
        /\ refused' = IF closes THEN refused \ {s} ELSE refused
        /\ \E closed \in IF closes THEN OutcomesOn(o.handle, "close") ELSE {TRUE} :
              Return(ending = "data", ending = "error" \/ ~closed)

\* The same for readFrom and writeTo: asked is the endpoint the program gave or
\* was given, reached the one that received or sent.
Transferred(s, ending, asked, reached) ==
    IF ending = "data"
    THEN /\ result' = [Nothing EXCEPT !.op = "transfer", !.done = TRUE,
                                      !.asked = asked, !.reached = reached]
         /\ UNCHANGED <<object, kernel, refused>>
    ELSE After(s, ending)

Unmoved(reported) ==
    /\ Return(FALSE, reported)
    /\ UNCHANGED <<object, kernel, refused>>

PeerOf(h) == IF IsOpen(h) THEN kernel[h].peer ELSE NoEndpoint

\* read and write loop until all bytes went through or a call ends otherwise;
\* what went through before does not show.
Read(s) ==
    /\ object[s].made
    /\ IF IsBound(object[s])
       THEN \E ending \in Endings(object[s].handle) : After(s, ending)
       ELSE Unmoved(FALSE)
    /\ UNCHANGED started

Write(s) ==
    /\ object[s].made
    /\ IF IsBound(object[s])
       THEN \E ending \in Endings(object[s].handle) :
               /\ ending = "data" => PeerOf(object[s].handle) # NoEndpoint
               /\ After(s, ending)
       ELSE Unmoved(FALSE)
    /\ UNCHANGED started

\* A connected socket is read without asking for the sender: the system lets in
\* only what its peer sent, and readFrom returns m_RemoteEndpoint.
ReadFrom(s) ==
    /\ object[s].made
    /\ LET o    == object[s]
           peer == PeerOf(o.handle)
       IN  IF ~IsBound(o) THEN Unmoved(FALSE)
           ELSE \E ending \in Endings(o.handle),
                   from \in IF peer = NoEndpoint THEN Endpoints ELSE {peer} :
                   Transferred(s, ending, IF IsConnected(o) THEN o.remote ELSE from,
                               from)
    /\ UNCHANGED started

\* Where a datagram goes that a socket is asked to send to e.
Target(o, e) == IF IsConnected(o) THEN PeerOf(o.handle) ELSE e

\* Variant: a connected socket writes to its peer whoever is asked for.
WriteToPeer(s, e) ==
    /\ object[s].made
    /\ IF ~IsBound(object[s]) THEN Unmoved(FALSE)
       ELSE \E ending \in Endings(object[s].handle) :
               Transferred(s, ending, e, Target(object[s], e))
    /\ UNCHANGED started

\* A connected socket writes to its peer only.
WriteTo(s, e) ==
    /\ object[s].made
    /\ LET o == object[s]
       IN  IF ~IsBound(o) THEN Unmoved(FALSE)
           ELSE IF IsConnected(o) /\ o.remote # e THEN Unmoved(TRUE)
           ELSE \E ending \in Endings(o.handle) :
                   Transferred(s, ending, e, Target(o, e))
    /\ UNCHANGED started

Next ==
    \E s \in Objects :
        \/ \E type \in Types : Construct(s, type) \/ SetType(s, type)
        \/ \E t \in Objects \ {s} : Move(s, t) \/ Accept(s, t)
        \/ Close(s)
        \/ Destroy(s)
        \/ Bind(s)
        \/ \E e \in Endpoints : Connect(s, e) \/ WriteTo(s, e)
        \/ Listen(s)
        \/ \E side \in {"write", "read"}, timeout \in Timeouts :
              SetTimeout(s, side, timeout)
        \/ SetNonBlocking(s)
        \/ Shutdown(s)
        \/ Read(s)
        \/ Write(s)
        \/ ReadFrom(s)

Spec == Init /\ [][Next]_vars

-----------------------------------------------------------------------------
(***************************************************************************)
(* Properties.                                                             *)
(***************************************************************************)

\* What the variables hold.
Ends == Endpoints \union {NoEndpoint}

ObjectType == [made : BOOLEAN, type : Types, remote : Ends, write : Timeouts,
               read : Timeouts, handle : Handles \union {NoHandle}]

HandleType == [open : BOOLEAN, type : Types, nonblocking : BOOLEAN,
               listening : BOOLEAN, peer : Ends]

ResultType == [op : {"open", "transfer", "other"}, done : BOOLEAN,
               reported : BOOLEAN, bound : BOOLEAN, asked : Ends, reached : Ends]

TypeOK ==
    /\ object \in [Objects -> ObjectType]
    /\ kernel \in [Handles -> HandleType]
    /\ result \in ResultType
    /\ refused \subseteq Objects
    /\ started \in Startups

\* Through failed binds and connects, accepts, moves, and reads and writes that
\* close the socket under their caller, no handle of the system is lost, shared
\* by two objects, or used after it was closed.
HandlesOwned ==
    /\ \A h \in Handles :
          kernel[h].open => \E s \in Objects : object[s].made /\ object[s].handle = h
    /\ \A s, t \in Objects :
          object[s].made /\ object[t].made /\ object[s].handle = object[t].handle
             => s = t \/ object[s].handle = NoHandle
    /\ \A s \in Objects : object[s].made /\ IsBound(object[s]) => IsOpen(object[s].handle)

\* m_Type and m_RemoteEndpoint say what the system knows: isConnected is what
\* readFrom and writeTo choose their system call by.
DescribesHandle ==
    \A s \in Objects :
        LET o == object[s]
        IN  o.made /\ IsOpen(o.handle) => /\ kernel[o.handle].type = o.type
                                          /\ kernel[o.handle].peer = o.remote

\* A socket that says it is non-blocking is, unless the system would not have it
\* and that was reported: updatePackets would hang in readFrom.
NonBlockingKept ==
    \A s \in Objects :
        LET o == object[s]
        IN  o.made /\ IsOpen(o.handle) /\ IsNonBlocking(o)
               => kernel[o.handle].nonblocking \/ s \in refused

\* A datagram goes to the endpoint writeTo was given, and comes from the one
\* readFrom returns, connected or not.
ReachesAsked ==
    result.op = "transfer" => result.asked = result.reached

\* bind and connect turn a program away because its socket is open already, or
\* because the system refused, which is reported; only where WSAStartup failed
\* is every call refused in silence.
FalseMeansRefused ==
    result.op = "open" /\ ~result.done =>
        result.reported \/ result.bound \/ ~started

\* Socket.h says "timeout == 0: Non blocking" of both timeouts: a bound socket
\* is non-blocking exactly when one of them is 0.
TimeoutsSayMode ==
    \A s \in Objects :
        LET o == object[s]
        IN  o.made /\ IsOpen(o.handle)
               => (IsNonBlocking(o) <=> kernel[o.handle].nonblocking)
=============================================================================

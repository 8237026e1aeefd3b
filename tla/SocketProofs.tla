---------------------------- MODULE SocketProofs ----------------------------
(***************************************************************************)
(* Theorems about Socket, for every value of the constants and every       *)
(* choice of system calls that may fail.  They hold where a pointer is as  *)
(* wide as ~0ULL: elsewhere isBound is always true.                        *)
(***************************************************************************)
EXTENDS Socket, TLAPS

Wide == PointerModulus = LongModulus

Holds(o, h) == o.made /\ o.handle = h

\* What an object says of its handle is so.
Fits(o, k) ==
    o.made /\ o.handle # NoHandle => /\ k[o.handle].open
                                     /\ k[o.handle].type = o.type
                                     /\ k[o.handle].peer = o.remote

Moded(s, o, k, r) ==
    o.made /\ o.handle # NoHandle /\ IsNonBlocking(o)
       => k[o.handle].nonblocking \/ s \in r

(***************************************************************************)
(* The inductive invariant.  That two objects never hold one handle is     *)
(* what keeps a close or a change of mode through one of them from making  *)
(* the other wrong about its own.                                          *)
(***************************************************************************)
IInv ==
    /\ object \in [Objects -> ObjectType]
    /\ kernel \in [Handles -> HandleType]
    /\ \A h \in Handles : kernel[h].open => \E s \in Objects : Holds(object[s], h)
    /\ \A s, t \in Objects, h \in Handles :
          Holds(object[s], h) /\ Holds(object[t], h) => s = t
    /\ \A s \in Objects : Fits(object[s], kernel) /\ Moded(s, object[s], kernel, refused)

\* The value of a new object's m_Socket is not a handle, and isBound knows it.
LEMMA NoHandleBound ==
    ASSUME Wide
    PROVE  /\ NoHandle \notin Handles
           /\ \A o : IsBound(o) <=> o.handle # NoHandle
<1>1. NoHandle = LongModulus - 1
  BY SocketAssumption DEF Wide, NoHandle
<1>2. NoHandle \notin Handles
  BY <1>1, SocketAssumption DEF Wide
<1>3. QED
  BY <1>1, <1>2 DEF IsBound

\* One object changes, and with it only the handle it had and the one it has.
LEMMA Change ==
    ASSUME Wide, IInv, NEW s \in Objects, NEW o \in ObjectType,
           NEW k \in [Handles -> HandleType],
           object' = [object EXCEPT ![s] = o],
           kernel' = k,
           \A h \in Handles : ~Holds(object[s], h) /\ ~Holds(o, h) => k[h] = kernel[h],
           \A t \in Objects \ {s} : t \in refused => t \in refused',
           Fits(o, k), Moded(s, o, k, refused'),
           \A h \in Handles : Holds(o, h) => Holds(object[s], h) \/ ~kernel[h].open,
           \A h \in Handles : Holds(object[s], h) /\ ~Holds(o, h) => ~k[h].open
    PROVE  IInv'
<1> USE DEF IInv
<1>1. object' \in [Objects -> ObjectType] /\ kernel' \in [Handles -> HandleType]
  OBVIOUS
<1>2. object'[s] = o /\ \A t \in Objects \ {s} : object'[t] = object[t]
  OBVIOUS
<1>3. ASSUME NEW t \in Objects \ {s}, NEW h \in Handles, Holds(object[t], h)
      PROVE  /\ ~Holds(object[s], h) /\ ~Holds(o, h)
             /\ k[h] = kernel[h]
  <2>1. ~Holds(object[s], h)
    BY <1>3
  <2>2. kernel[h].open
    BY <1>3, NoHandleBound DEF Fits, Holds
  <2>3. QED
    BY <1>3, <2>1, <2>2
<1>4. \A h \in Handles : kernel'[h].open => \E t \in Objects : Holds(object'[t], h)
  <2> SUFFICES ASSUME NEW h \in Handles, k[h].open, ~Holds(o, h)
               PROVE  \E t \in Objects : Holds(object'[t], h)
    BY <1>2
  <2>1. ~Holds(object[s], h)
    OBVIOUS
  <2>2. kernel[h].open
    BY <2>1
  <2>3. PICK t \in Objects : Holds(object[t], h)
    BY <2>2
  <2>4. QED
    BY <1>2, <2>1, <2>3
<1>5. \A r, t \in Objects, h \in Handles :
         Holds(object'[r], h) /\ Holds(object'[t], h) => r = t
  BY <1>2, <1>3
<1>6. ASSUME NEW t \in Objects
      PROVE  Fits(object'[t], kernel') /\ Moded(t, object'[t], kernel', refused')
  <2>1. CASE t = s
    BY <2>1, <1>2
  <2>2. CASE t # s /\ object[t].made /\ object[t].handle # NoHandle
    <3>1. object[t].handle \in Handles
      BY <2>2 DEF ObjectType
    <3>2. k[object[t].handle] = kernel[object[t].handle]
      BY <1>3, <2>2, <3>1 DEF Holds
    <3>3. QED
      BY <1>2, <2>2, <3>2 DEF Fits, Moded
  <2>3. CASE t # s /\ ~(object[t].made /\ object[t].handle # NoHandle)
    BY <1>2, <2>3 DEF Fits, Moded
  <2>4. QED
    BY <2>1, <2>2, <2>3
<1>7. QED
  BY <1>1, <1>4, <1>5, <1>6

LEMMA Stays ==
    ASSUME IInv, UNCHANGED <<object, kernel>>,
           \A t \in Objects : t \in refused => t \in refused'
    PROVE  IInv'
  BY DEF IInv, Fits, Moded

LEMMA InitInv == ASSUME Wide, Init PROVE IInv
<1>1. NoObject \in ObjectType /\ ~NoObject.made
  BY SocketAssumption DEF NoObject, NewObject, ObjectType, Types, Ends
<1>2. ClosedHandle \in HandleType /\ ~ClosedHandle.open
  BY DEF ClosedHandle, HandleType, Types, Ends
<1>3. \A s \in Objects : object[s] = NoObject
  BY DEF Init
<1>4. QED
  BY <1>1, <1>2, <1>3 DEF Init, IInv, Holds, Fits, Moded

\* The shape of a new, a closed and an opened object.
LEMMA NewObjectType ==
    ASSUME NEW type \in Types
    PROVE  /\ NewObject(type) \in ObjectType
           /\ NewObject(type).handle = NoHandle
  BY SocketAssumption DEF NewObject, ObjectType, Ends

LEMMA ClosedObjectType ==
    ASSUME NEW o \in ObjectType
    PROVE  /\ ClosedObject(o) \in ObjectType
           /\ ClosedObject(o).handle = NoHandle
  BY DEF ClosedObject, ObjectType, Ends

\* close, of whatever object: its handle is given back.
LEMMA KernelWithoutType ==
    ASSUME kernel \in [Handles -> HandleType], NEW g
    PROVE  /\ KernelWithout(g) \in [Handles -> HandleType]
           /\ \A h \in Handles : IF h = g THEN ~KernelWithout(g)[h].open
                                          ELSE KernelWithout(g)[h] = kernel[h]
<1>1. ClosedHandle \in HandleType /\ ~ClosedHandle.open
  BY DEF ClosedHandle, HandleType, Types, Ends
<1>2. QED
  BY <1>1 DEF KernelWithout

\* An object without a handle takes the place of another, which gives up its own.
LEMMA GiveUp ==
    ASSUME Wide, IInv, NEW s \in Objects, object[s].made,
           NEW o \in ObjectType, ~o.made \/ o.handle = NoHandle,
           object' = [object EXCEPT ![s] = o],
           kernel' = KernelWithout(object[s].handle),
           refused' = refused \ {s}
    PROVE  IInv'
<1> DEFINE k == KernelWithout(object[s].handle)
<1>1. /\ k \in [Handles -> HandleType]
      /\ \A h \in Handles : IF h = object[s].handle THEN ~k[h].open
                                                    ELSE k[h] = kernel[h]
  BY KernelWithoutType DEF IInv
<1>2. \A h \in Handles : ~Holds(o, h)
  BY NoHandleBound DEF Holds
<1> HIDE DEF k
<1>3. Fits(o, k) /\ Moded(s, o, k, refused')
  BY DEF Fits, Moded
<1>4. kernel' = k
  BY DEF k
<1>5. \A h \in Handles : ~Holds(object[s], h) /\ ~Holds(o, h) => k[h] = kernel[h]
  BY <1>1 DEF Holds
<1>6. \A t \in Objects \ {s} : t \in refused => t \in refused'
  OBVIOUS
<1>7. k \in [Handles -> HandleType]
  BY <1>1
<1>8. \A h \in Handles : Holds(object[s], h) /\ ~Holds(o, h) => ~k[h].open
  BY <1>1 DEF Holds
<1>9. \A h \in Handles : Holds(o, h) => Holds(object[s], h) \/ ~kernel[h].open
  BY <1>2
<1>10. QED
  BY <1>3, <1>4, <1>5, <1>6, <1>7, <1>8, <1>9, Change

\* An object without a handle takes the place of one without.
LEMMA NoHandles ==
    ASSUME Wide, IInv, NEW s \in Objects, ~object[s].made \/ object[s].handle = NoHandle,
           NEW o \in ObjectType, ~o.made \/ o.handle = NoHandle,
           object' = [object EXCEPT ![s] = o],
           UNCHANGED <<kernel, refused>>
    PROVE  IInv'
<1>1. \A h \in Handles : ~Holds(o, h) /\ ~Holds(object[s], h)
  BY NoHandleBound DEF Holds
<1>2. Fits(o, kernel) /\ Moded(s, o, kernel, refused')
  BY DEF Fits, Moded
<1>3. /\ kernel \in [Handles -> HandleType] /\ kernel' = kernel
      /\ \A t \in Objects \ {s} : t \in refused => t \in refused'
  BY DEF IInv
<1>4. QED
  BY <1>1, <1>2, <1>3, Change

\* The system's sockets once one more is open.
LEMMA KernelWithType ==
    ASSUME kernel \in [Handles -> HandleType], NEW h \in Free, NEW type \in Types, NEW remote \in Ends,
           NEW mode, mode.nonblocking \in BOOLEAN
    PROVE  LET k == KernelWith(h, type, mode, remote)
           IN  /\ k \in [Handles -> HandleType]
               /\ k[h].open /\ k[h].type = type /\ k[h].peer = remote
               /\ k[h].nonblocking = mode.nonblocking
               /\ \A g \in Handles : g # h => k[g] = kernel[g]
<1> DEFINE k == KernelWith(h, type, mode, remote)
           new == [open |-> TRUE, type |-> type, nonblocking |-> mode.nonblocking,
                   listening |-> FALSE, peer |-> remote]
<1>1. h \in Handles
  BY DEF Free
<1>2. new \in HandleType
  BY DEF HandleType
<1>3. k = [kernel EXCEPT ![h] = new]
  BY DEF KernelWith
<1>4. /\ new.open /\ new.type = type /\ new.peer = remote
      /\ new.nonblocking = mode.nonblocking
  OBVIOUS
<1> HIDE DEF new, k
<1>5. QED
  BY <1>1, <1>2, <1>3, <1>4 DEF k

\* An object without a handle gets one that was free.
LEMMA Acquire ==
    ASSUME Wide, IInv, NEW s \in Objects, ~object[s].made \/ object[s].handle = NoHandle,
           NEW o \in ObjectType, NEW h \in Free, o.made, o.handle = h,
           NEW k \in [Handles -> HandleType],
           k[h].open, k[h].type = o.type, k[h].peer = o.remote,
           \A g \in Handles : g # h => k[g] = kernel[g],
           IsNonBlocking(o) => k[h].nonblocking \/ s \in refused',
           \A t \in Objects : t \in refused => t \in refused',
           object' = [object EXCEPT ![s] = o],
           kernel' = k
    PROVE  IInv'
<1>1. h \in Handles /\ ~kernel[h].open
  BY DEF Free
<1>2. Fits(o, k) /\ Moded(s, o, k, refused')
  BY DEF Fits, Moded
<1>3. \A g \in Handles : ~Holds(object[s], g)
  BY NoHandleBound DEF Holds
<1>4. \A g \in Handles : ~Holds(object[s], g) /\ ~Holds(o, g) => k[g] = kernel[g]
  BY DEF Holds
<1>5. \A g \in Handles : Holds(o, g) => ~kernel[g].open
  BY <1>1 DEF Holds
<1>6. QED
  BY <1>2, <1>3, <1>4, <1>5, Change

\* An object keeps its handle, and of the handle nothing changes but its mode.
LEMMA Adjust ==
    ASSUME Wide, IInv, NEW s \in Objects, object[s].made,
           NEW o \in ObjectType, o.made, o.handle = object[s].handle,
           o.handle # NoHandle => o.type = object[s].type /\ o.remote = object[s].remote,
           NEW k \in [Handles -> HandleType],
           \A h \in Handles : /\ k[h].open = kernel[h].open
                              /\ k[h].type = kernel[h].type
                              /\ k[h].peer = kernel[h].peer
                              /\ h # o.handle => k[h] = kernel[h],
           Moded(s, o, k, refused),
           object' = [object EXCEPT ![s] = o], kernel' = k, refused' = refused
    PROVE  IInv'
<1>1. o.handle \in Handles \union {NoHandle}
  BY DEF ObjectType
<1>2. Fits(o, k)
  BY <1>1 DEF Fits, IInv
<1>3. \A h \in Handles : Holds(o, h) <=> Holds(object[s], h)
  BY DEF Holds
<1>4. \A h \in Handles : ~Holds(object[s], h) /\ ~Holds(o, h) => k[h] = kernel[h]
  BY DEF Holds
<1>5. Moded(s, o, k, refused')
  OBVIOUS
<1>6. \A t \in Objects \ {s} : t \in refused => t \in refused'
  OBVIOUS
<1>7. QED
  BY <1>2, <1>3, <1>4, <1>5, <1>6, Change

\* The system lets a handle listen.
LEMMA ListeningType ==
    ASSUME kernel \in [Handles -> HandleType], NEW h \in Handles
    PROVE  LET k == [kernel EXCEPT ![h].listening = TRUE]
           IN  /\ k \in [Handles -> HandleType]
               /\ \A g \in Handles : /\ k[g].open = kernel[g].open
                                     /\ k[g].type = kernel[g].type
                                     /\ k[g].peer = kernel[g].peer
                                     /\ k[g].nonblocking = kernel[g].nonblocking
                                     /\ g # h => k[g] = kernel[g]
  BY DEF HandleType

\* The system makes a handle non-blocking.
LEMMA SwitchType ==
    ASSUME kernel \in [Handles -> HandleType], NEW h \in Handles
    PROVE  LET k == [kernel EXCEPT ![h].nonblocking = TRUE]
           IN  /\ k \in [Handles -> HandleType]
               /\ k[h].nonblocking
               /\ \A g \in Handles : /\ k[g].open = kernel[g].open
                                     /\ k[g].type = kernel[g].type
                                     /\ k[g].peer = kernel[g].peer
                                     /\ g # h => k[g] = kernel[g]
                                     /\ kernel[g].nonblocking => k[g].nonblocking
  BY DEF HandleType

-----------------------------------------------------------------------------
(***************************************************************************)
(* Each call preserves the invariant.                                      *)
(***************************************************************************)
LEMMA ConstructInv ==
    ASSUME Wide, IInv, NEW s \in Objects, NEW type \in Types, Construct(s, type)
    PROVE  IInv'
<1>1. NewObject(type) \in ObjectType /\ NewObject(type).handle = NoHandle
  BY NewObjectType
<1>2. QED
  BY <1>1, NoHandles DEF Construct

LEMMA MoveInv ==
    ASSUME Wide, IInv, NEW s \in Objects, NEW t \in Objects \ {s}, Move(s, t)
    PROVE  IInv'
<1> DEFINE o == [object[s] EXCEPT !.handle = NoHandle]
<1>1. object[s] \in ObjectType /\ object[s].made /\ ~object[t].made
  BY DEF IInv, Move
<1>2. /\ o \in ObjectType
      /\ o.handle = NoHandle
  BY <1>1 DEF ObjectType
<1>3. /\ object'[s] = o /\ object'[t] = object[s]
      /\ \A r \in Objects \ {s, t} : object'[r] = object[r]
      /\ object' \in [Objects -> ObjectType]
  BY <1>1, <1>2 DEF Move, IInv
<1> HIDE DEF o
<1>4. kernel' = kernel
  BY DEF Move
<1>5. \A h \in Handles : /\ ~Holds(object'[s], h) /\ ~Holds(object[t], h)
                         /\ Holds(object'[t], h) <=> Holds(object[s], h)
  BY <1>1, <1>2, <1>3, NoHandleBound DEF Holds
<1>6. \A h \in Handles : kernel'[h].open => \E r \in Objects : Holds(object'[r], h)
  <2> SUFFICES ASSUME NEW h \in Handles, kernel[h].open
               PROVE  \E r \in Objects : Holds(object'[r], h)
    BY <1>4
  <2>1. PICK r \in Objects : Holds(object[r], h)
    BY DEF IInv
  <2>2. QED
    BY <2>1, <1>3, <1>5
<1>7. \A r, q \in Objects, h \in Handles :
         Holds(object'[r], h) /\ Holds(object'[q], h) => r = q
  BY <1>3, <1>5 DEF IInv
<1>8. s \in refused => t \in refused'
  BY DEF Move
<1>9. \A r \in Objects \ {s, t} : r \in refused => r \in refused'
  BY DEF Move
<1>10. ASSUME NEW r \in Objects
       PROVE  Fits(object'[r], kernel') /\ Moded(r, object'[r], kernel', refused')
  <2>1. CASE r = s
    BY <2>1, <1>2, <1>3 DEF Fits, Moded
  <2>2. CASE r = t
    BY <2>2, <1>1, <1>3, <1>4, <1>8 DEF Fits, Moded, IInv
  <2>3. CASE r \notin {s, t}
    BY <2>3, <1>3, <1>4, <1>9 DEF Fits, Moded, IInv
  <2>4. QED
    BY <2>1, <2>2, <2>3
<1>11. QED
  BY <1>3, <1>4, <1>6, <1>7, <1>10 DEF IInv

LEMMA CloseInv ==
    ASSUME Wide, IInv, NEW s \in Objects, Close(s)
    PROVE  IInv'
<1>1. object[s].made /\ ClosedObject(object[s]) \in ObjectType
  BY ClosedObjectType DEF Close, IInv
<1>2. ClosedObject(object[s]).handle = NoHandle
  BY ClosedObjectType DEF IInv
<1>3. CASE IsBound(object[s])
  BY <1>1, <1>2, <1>3, GiveUp DEF Close
<1>4. CASE ~IsBound(object[s])
  <2>1. object[s].handle = NoHandle
    BY <1>4, NoHandleBound
  <2>2. object' = [object EXCEPT ![s] = object[s]]
    BY <1>4 DEF Close, IInv
  <2>3. kernel \in [Handles -> HandleType] /\ kernel' = kernel
    BY <1>4 DEF Close, IInv
  <2>4. \A t \in Objects \ {s} : t \in refused => t \in refused'
    BY DEF Close
  <2>5. \A h \in Handles : ~Holds(object[s], h)
    BY <2>1, NoHandleBound DEF Holds
  <2>6. Fits(object[s], kernel) /\ Moded(s, object[s], kernel, refused')
    BY <2>1 DEF Fits, Moded
  <2>7. object[s] \in ObjectType
    BY DEF IInv
  <2>8. QED
    BY <2>2, <2>3, <2>4, <2>5, <2>6, <2>7, Change
<1>5. QED
  BY <1>3, <1>4

LEMMA DestroyInv ==
    ASSUME Wide, IInv, NEW s \in Objects, Destroy(s)
    PROVE  IInv'
<1>1. NoObject \in ObjectType /\ ~NoObject.made
  BY SocketAssumption DEF NoObject, NewObject, ObjectType, Types, Ends
<1>2. QED
  BY <1>1, GiveUp DEF Destroy

LEMMA SetTypeInv ==
    ASSUME Wide, IInv, NEW s \in Objects, NEW type \in Types, SetType(s, type)
    PROVE  IInv'
<1>1. CASE IsBound(object[s])
  BY <1>1, Stays DEF SetType
<1>2. CASE ~IsBound(object[s])
  <2> DEFINE o == [object[s] EXCEPT !.type = type]
  <2>1. object[s].handle = NoHandle
    BY <1>2, NoHandleBound
  <2>2. o \in ObjectType /\ o.handle = NoHandle
    BY <2>1 DEF ObjectType, IInv
  <2>3. object' = [object EXCEPT ![s] = o] /\ UNCHANGED <<kernel, refused>>
    BY <1>2 DEF SetType
  <2> HIDE DEF o
  <2>4. QED
    BY <2>1, <2>2, <2>3, NoHandles
<1>3. QED
  BY <1>1, <1>2

\* A mode that is not what the timeouts ask for is remembered.
LEMMA ModesRemembered ==
    ASSUME NEW s, NEW o, NEW mode \in Modes(o), Remember(s, o, mode)
    PROVE  /\ mode.nonblocking \in BOOLEAN
           /\ IsNonBlocking(o) => mode.nonblocking \/ s \in refused'
           /\ \A t \in Objects : t \in refused => t \in refused'
<1>1. \A c : Outcomes(c) \subseteq BOOLEAN
  BY DEF Outcomes
<1>2. CASE IsNonBlocking(o)
  <2>1. PICK ok \in Outcomes("nonblocking") : mode = [nonblocking |-> ok, ok |-> ok]
    BY <1>2 DEF Modes
  <2>2. mode.nonblocking \in BOOLEAN /\ mode.nonblocking = mode.ok
    BY <2>1, <1>1
  <2>3. QED
    BY <2>2 DEF Remember
<1>3. CASE ~IsNonBlocking(o)
  <2>1. PICK ok \in Outcomes("timeout") : mode = [nonblocking |-> FALSE, ok |-> ok]
    BY <1>3 DEF Modes
  <2>2. QED
    BY <1>3, <2>1 DEF Remember
<1>4. QED
  BY <1>2, <1>3

LEMMA OpenInv ==
    ASSUME Wide, IInv, NEW call, NEW s \in Objects, NEW remote \in Ends, NEW naming,
           Open(call, s, remote, naming)
    PROVE  IInv'
<1>1. object[s].made /\ object[s] \in ObjectType
  BY DEF Open, IInv
<1>2. CASE UNCHANGED <<object, kernel, refused>>
  BY <1>2, Stays
<1>3. CASE /\ ~IsBound(object[s])
           /\ object' = [object EXCEPT ![s] = ClosedObject(@)]
           /\ UNCHANGED <<kernel, refused>>
  <2>1. object[s].handle = NoHandle
    BY <1>3, NoHandleBound
  <2>2. ClosedObject(object[s]) \in ObjectType /\ ClosedObject(object[s]).handle = NoHandle
    BY <1>1, ClosedObjectType
  <2>3. QED
    BY <1>3, <2>1, <2>2, NoHandles
<1>4. ASSUME ~IsBound(object[s]),
             NEW h \in Free, NEW mode \in Modes(object[s]),
             object' = [object EXCEPT ![s] = [@ EXCEPT !.handle = h, !.remote = remote]],
             kernel' = KernelWith(h, object[s].type, mode, remote),
             Remember(s, object[s], mode)
      PROVE  IInv'
  <2> DEFINE o == [object[s] EXCEPT !.handle = h, !.remote = remote]
  <2>1. object[s].handle = NoHandle
    BY <1>4, NoHandleBound
  <2>2. o \in ObjectType /\ o.made
    BY <1>1 DEF ObjectType, Free
  <2>3. o.handle = h /\ o.remote = remote /\ o.type = object[s].type
    BY <1>1 DEF ObjectType
  <2>4. IsNonBlocking(o) <=> IsNonBlocking(object[s])
    BY <1>1 DEF ObjectType, IsNonBlocking
  <2>5. object' = [object EXCEPT ![s] = o]
    BY <1>4
  <2> HIDE DEF o
  <2>6. /\ mode.nonblocking \in BOOLEAN
        /\ IsNonBlocking(o) => mode.nonblocking \/ s \in refused'
    BY <1>4, <2>4, ModesRemembered
  <2>7. \A t \in Objects : t \in refused => t \in refused'
    BY <1>4, ModesRemembered
  <2> DEFINE k == KernelWith(h, object[s].type, mode, remote)
  <2>8. object[s].type \in Types
    BY <1>1 DEF ObjectType
  <2>9. /\ k \in [Handles -> HandleType]
        /\ k[h].open /\ k[h].type = o.type /\ k[h].peer = o.remote
        /\ k[h].nonblocking = mode.nonblocking
    BY <2>3, <2>6, <2>8, KernelWithType DEF IInv
  <2>10. \A g \in Handles : g # h => k[g] = kernel[g]
    BY <2>6, <2>8, KernelWithType DEF IInv
  <2>11. kernel' = k
    BY <1>4
  <2> HIDE DEF k
  <2>12. QED
    BY <2>1, <2>2, <2>3, <2>5, <2>6, <2>7, <2>9, <2>10, <2>11, Acquire
<1>5. QED
  BY <1>2, <1>3, <1>4 DEF Open

LEMMA ListenInv ==
    ASSUME Wide, IInv, NEW s \in Objects, Listen(s)
    PROVE  IInv'
<1>1. CASE kernel' = kernel
  BY <1>1, Stays DEF Listen
<1>2. ASSUME IsOpen(object[s].handle),
             kernel' = [kernel EXCEPT ![object[s].handle].listening = TRUE]
      PROVE  IInv'
  <2> DEFINE k == [kernel EXCEPT ![object[s].handle].listening = TRUE]
  <2>1. /\ k \in [Handles -> HandleType]
        /\ \A h \in Handles : /\ k[h].open = kernel[h].open
                              /\ k[h].type = kernel[h].type
                              /\ k[h].peer = kernel[h].peer
                              /\ k[h].nonblocking = kernel[h].nonblocking
                              /\ h # object[s].handle => k[h] = kernel[h]
    BY <1>2, ListeningType DEF IsOpen, IInv
  <2>2. object[s] \in ObjectType /\ object[s].made
    BY DEF IInv, Listen
  <2>3. kernel' = k
    BY <1>2
  <2> HIDE DEF k
  <2>4. Moded(s, object[s], k, refused)
    BY <1>2, <2>1 DEF Moded, IInv, IsOpen
  <2>5. object' = [object EXCEPT ![s] = object[s]] /\ refused' = refused
    BY DEF Listen, IInv
  <2>6. QED
    BY <2>1, <2>2, <2>3, <2>4, <2>5, Adjust
<1>3. QED
  BY <1>1, <1>2 DEF Listen, OutcomesOn

LEMMA AcceptInv ==
    ASSUME Wide, IInv, NEW s \in Objects, NEW t \in Objects \ {s}, Accept(s, t)
    PROVE  IInv'
<1> DEFINE fresh == [NewObject(object[s].type) EXCEPT !.write = object[s].write,
                                                     !.read = object[s].read]
<1>1. object[s].made /\ ~object[t].made /\ object[s] \in ObjectType
  BY DEF Accept, IInv
<1>2. /\ NewObject(object[s].type) \in ObjectType
      /\ NewObject(object[s].type).handle = NoHandle
      /\ NewObject(object[s].type).made
      /\ NewObject(object[s].type).type = object[s].type
  BY <1>1, NewObjectType DEF ObjectType, NewObject
<1>3. /\ fresh \in ObjectType /\ fresh.handle = NoHandle /\ fresh.made
      /\ fresh.type = object[s].type
      /\ fresh.write = object[s].write /\ fresh.read = object[s].read
  BY <1>1, <1>2 DEF ObjectType
<1> HIDE DEF fresh
<1>4. CASE object' = [object EXCEPT ![t] = NewObject(object[s].type)]
           /\ UNCHANGED <<kernel, refused>>
  BY <1>1, <1>2, <1>4, NoHandles
<1>5. CASE object' = [object EXCEPT ![t] = fresh] /\ UNCHANGED <<kernel, refused>>
  BY <1>1, <1>3, <1>5, NoHandles
<1>6. ASSUME IsOpen(object[s].handle),
             NEW h \in Free, NEW e \in Endpoints, NEW mode \in Modes(object[s]),
             object' = [object EXCEPT ![t] = [fresh EXCEPT !.handle = h, !.remote = e]],
             kernel' = KernelWith(h, kernel[object[s].handle].type, mode, e),
             Remember(t, object[s], mode)
      PROVE  IInv'
  <2> DEFINE o == [fresh EXCEPT !.handle = h, !.remote = e]
  <2>1. kernel[object[s].handle].type = object[s].type
    BY <1>1, <1>6, NoHandleBound DEF IInv, Fits, IsOpen
  <2>2. /\ o \in ObjectType /\ o.made /\ o.handle = h /\ o.remote = e
        /\ o.type = object[s].type
        /\ o.write = object[s].write /\ o.read = object[s].read
    BY <1>3 DEF ObjectType, Free, Ends
  <2>3. object' = [object EXCEPT ![t] = o]
    BY <1>6
  <2> HIDE DEF o
  <2>4. IsNonBlocking(o) <=> IsNonBlocking(object[s])
    BY <2>2 DEF IsNonBlocking
  <2>5. /\ mode.nonblocking \in BOOLEAN
        /\ IsNonBlocking(o) => mode.nonblocking \/ t \in refused'
    BY <1>6, <2>4, ModesRemembered
  <2>6. \A r \in Objects : r \in refused => r \in refused'
    BY <1>6, ModesRemembered
  <2> DEFINE k == KernelWith(h, object[s].type, mode, e)
  <2>7. object[s].type \in Types /\ e \in Ends
    BY <1>1 DEF ObjectType, Ends
  <2>8. /\ k \in [Handles -> HandleType]
        /\ k[h].open /\ k[h].type = o.type /\ k[h].peer = o.remote
        /\ k[h].nonblocking = mode.nonblocking
    BY <2>2, <2>5, <2>7, KernelWithType DEF IInv
  <2>9. \A g \in Handles : g # h => k[g] = kernel[g]
    BY <2>5, <2>7, KernelWithType DEF IInv
  <2>10. kernel' = k
    BY <1>6, <2>1
  <2> HIDE DEF k
  <2>11. QED
    BY <1>1, <2>2, <2>3, <2>5, <2>6, <2>8, <2>9, <2>10, Acquire
<1>7. QED
  BY <1>4, <1>5, <1>6 DEF Accept, fresh

\* The timeouts of an object change; with a bound handle its mode may too, and
\* does when the object then says it is non-blocking.
LEMMA Retime ==
    ASSUME Wide, IInv, NEW s \in Objects, object[s].made,
           NEW o \in ObjectType, o.made, o.handle = object[s].handle,
           o.type = object[s].type, o.remote = object[s].remote,
           object' = [object EXCEPT ![s] = o], refused' = refused,
           \/ kernel' = kernel /\ (IsNonBlocking(o) => IsNonBlocking(object[s]))
           \/ kernel' = kernel /\ o.handle = NoHandle
           \/ IsOpen(o.handle) /\ kernel' = [kernel EXCEPT ![o.handle].nonblocking = TRUE]
    PROVE  IInv'
<1>1. CASE kernel' = kernel /\ (IsNonBlocking(o) => IsNonBlocking(object[s]))
  <2>1. Moded(s, o, kernel, refused)
    BY <1>1 DEF Moded, IInv
  <2>2. kernel \in [Handles -> HandleType] /\ kernel' = kernel
    BY <1>1 DEF IInv
  <2>3. QED
    BY <2>1, <2>2, Adjust
<1>2. CASE kernel' = kernel /\ o.handle = NoHandle
  <2>1. Moded(s, o, kernel, refused)
    BY <1>2 DEF Moded
  <2>2. kernel \in [Handles -> HandleType] /\ kernel' = kernel
    BY <1>2 DEF IInv
  <2>3. QED
    BY <2>1, <2>2, Adjust
<1>3. CASE IsOpen(o.handle) /\ kernel' = [kernel EXCEPT ![o.handle].nonblocking = TRUE]
  <2> DEFINE k == [kernel EXCEPT ![o.handle].nonblocking = TRUE]
  <2>1. /\ k \in [Handles -> HandleType]
        /\ k[o.handle].nonblocking
    BY <1>3, SwitchType DEF IsOpen, IInv
  <2>2. \A h \in Handles : /\ k[h].open = kernel[h].open
                           /\ k[h].type = kernel[h].type
                           /\ k[h].peer = kernel[h].peer
                           /\ h # o.handle => k[h] = kernel[h]
    BY <1>3, SwitchType DEF IsOpen, IInv
  <2>3. kernel' = k
    BY <1>3
  <2> HIDE DEF k
  <2>4. Moded(s, o, k, refused)
    BY <2>1 DEF Moded
  <2>5. QED
    BY <2>1, <2>2, <2>3, <2>4, Adjust
<1>4. QED
  BY <1>1, <1>2, <1>3

LEMMA SetTimeoutInv ==
    ASSUME Wide, IInv, NEW s \in Objects, NEW side \in {"write", "read"},
           NEW timeout \in Timeouts, SetTimeout(s, side, timeout)
    PROVE  IInv'
<1> DEFINE o == [object[s] EXCEPT ![side] = timeout]
<1>1. object[s].made /\ object[s] \in ObjectType /\ refused' = refused
  BY DEF SetTimeout, IInv
<1>2. /\ o \in ObjectType /\ o.made /\ o.handle = object[s].handle
      /\ o.type = object[s].type /\ o.remote = object[s].remote
      /\ IsNonBlocking(o) => timeout = 0 \/ IsNonBlocking(object[s])
  <2>1. CASE side = "write"
    BY <1>1, <2>1 DEF ObjectType, IsNonBlocking
  <2>2. CASE side = "read"
    BY <1>1, <2>2 DEF ObjectType, IsNonBlocking
  <2>3. QED
    BY <2>1, <2>2
<1>3. [object EXCEPT ![s] = [@ EXCEPT ![side] = timeout]] = [object EXCEPT ![s] = o]
  OBVIOUS
<1> HIDE DEF o
<1>4. CASE ~IsBound(object[s])
  <2>1. object[s].handle = NoHandle
    BY <1>4, NoHandleBound
  <2>2. object' = [object EXCEPT ![s] = o] /\ kernel' = kernel
    BY <1>3, <1>4 DEF SetTimeout
  <2>3. QED
    BY <1>1, <1>2, <2>1, <2>2, Retime
<1>5. CASE IsBound(object[s])
  <2>1. object[s].handle \in Handles /\ IsOpen(object[s].handle)
    BY <1>1, <1>5, NoHandleBound DEF IInv, ObjectType, Fits, IsOpen
  <2>2. PICK switched \in IF timeout = 0 THEN OutcomesOn(object[s].handle, "nonblocking")
                                        ELSE {FALSE},
             taken \in OutcomesOn(object[s].handle, "timeout") :
             /\ kernel' = IF switched
                          THEN [kernel EXCEPT ![object[s].handle].nonblocking = TRUE]
                          ELSE kernel
             /\ object' = IF (timeout = 0 => switched) /\ taken
                          THEN [object EXCEPT ![s] = o] ELSE object
    BY <1>3, <1>5 DEF SetTimeout
  <2>3. object = [object EXCEPT ![s] = object[s]]
    BY DEF IInv
  <2>4. CASE switched
    <3>1. kernel' = [kernel EXCEPT ![object[s].handle].nonblocking = TRUE]
      BY <2>2, <2>4
    <3>2. CASE object' = [object EXCEPT ![s] = o]
      BY <1>1, <1>2, <2>1, <3>1, <3>2, Retime
    <3>3. CASE object' = [object EXCEPT ![s] = object[s]]
      BY <1>1, <2>1, <3>1, <3>3, Retime
    <3>4. QED
      BY <2>2, <2>3, <3>2, <3>3
  <2>5. CASE ~switched
    <3>1. kernel' = kernel
      BY <2>2, <2>5
    <3>2. CASE object' = object
      BY <1>1, <3>1, <3>2, Stays
    <3>3. CASE timeout # 0 /\ object' = [object EXCEPT ![s] = o]
      BY <1>1, <1>2, <3>1, <3>3, Retime
    <3>4. QED
      BY <2>2, <2>5, <3>2, <3>3
  <2>6. QED
    BY <2>4, <2>5
<1>6. QED
  BY <1>4, <1>5

LEMMA SetNonBlockingInv ==
    ASSUME Wide, IInv, NEW s \in Objects, SetNonBlocking(s)
    PROVE  IInv'
<1> DEFINE o == [object[s] EXCEPT !.write = 0, !.read = 0]
<1>1. object[s].made /\ object[s] \in ObjectType /\ refused' = refused
  BY DEF SetNonBlocking, IInv
<1>2. /\ o \in ObjectType /\ o.made /\ o.handle = object[s].handle
      /\ o.type = object[s].type /\ o.remote = object[s].remote
  BY <1>1, SocketAssumption DEF ObjectType
<1>3. [object EXCEPT ![s] = [@ EXCEPT !.write = 0, !.read = 0]] = [object EXCEPT ![s] = o]
  OBVIOUS
<1> HIDE DEF o
<1>4. CASE ~IsBound(object[s])
  <2>1. object[s].handle = NoHandle
    BY <1>4, NoHandleBound
  <2>2. object' = [object EXCEPT ![s] = o] /\ kernel' = kernel
    BY <1>3, <1>4 DEF SetNonBlocking
  <2>3. QED
    BY <1>1, <1>2, <2>1, <2>2, Retime
<1>5. CASE IsBound(object[s])
  <2>1. object[s].handle \in Handles /\ IsOpen(object[s].handle)
    BY <1>1, <1>5, NoHandleBound DEF IInv, ObjectType, Fits, IsOpen
  <2>2. CASE UNCHANGED <<object, kernel>>
    BY <1>1, <2>2, Stays
  <2>3. CASE /\ object' = [object EXCEPT ![s] = o]
             /\ kernel' = [kernel EXCEPT ![object[s].handle].nonblocking = TRUE]
    BY <1>1, <1>2, <2>1, <2>3, Retime
  <2>4. QED
    BY <1>3, <1>5, <2>2, <2>3 DEF SetNonBlocking
<1>6. QED
  BY <1>4, <1>5

\* read, write, readFrom, writeTo: a call that ends the socket closes it.
LEMMA AfterInv ==
    ASSUME Wide, IInv, NEW s \in Objects, object[s].made, NEW ending, After(s, ending)
    PROVE  IInv'
<1>1. ClosedObject(object[s]) \in ObjectType /\ ClosedObject(object[s]).handle = NoHandle
  BY ClosedObjectType DEF IInv
<1>2. CASE ending = "lost" \/ (ending = "zero" /\ IsNonBlocking(object[s]))
  BY <1>1, <1>2, GiveUp DEF After
<1>3. CASE ~(ending = "lost" \/ (ending = "zero" /\ IsNonBlocking(object[s])))
  BY <1>3, Stays DEF After
<1>4. QED
  BY <1>2, <1>3

LEMMA TransferredInv ==
    ASSUME Wide, IInv, NEW s \in Objects, object[s].made, NEW ending, NEW asked,
           NEW reached, Transferred(s, ending, asked, reached)
    PROVE  IInv'
  BY AfterInv, Stays DEF Transferred

LEMMA UnmovedInv ==
    ASSUME IInv, NEW reported, Unmoved(reported)
    PROVE  IInv'
  BY Stays DEF Unmoved

LEMMA NextInv == ASSUME Wide, IInv, [Next]_vars PROVE IInv'
<1>1. CASE UNCHANGED vars
  BY <1>1, Stays DEF vars
<1>2. CASE Next
  <2> SUFFICES ASSUME NEW s \in Objects,
                      \/ \E type \in Types : Construct(s, type) \/ SetType(s, type)
                      \/ \E t \in Objects \ {s} : Move(s, t) \/ Accept(s, t)
                      \/ Close(s)
                      \/ Destroy(s)
                      \/ Bind(s)
                      \/ \E e \in Endpoints : Connect(s, e) \/ WriteTo(s, e)
                      \/ Listen(s)
                      \/ \E side \in {"write", "read"}, timeout \in Timeouts :
                            SetTimeout(s, side, timeout)
                      \/ SetNonBlocking(s)
                      \/ Shutdown(s)
                      \/ Read(s)
                      \/ Write(s)
                      \/ ReadFrom(s)
               PROVE  IInv'
    BY <1>2 DEF Next
  <2>1. ASSUME NEW type \in Types, Construct(s, type) \/ SetType(s, type) PROVE IInv'
    BY <2>1, ConstructInv, SetTypeInv
  <2>2. ASSUME NEW t \in Objects \ {s}, Move(s, t) \/ Accept(s, t) PROVE IInv'
    BY <2>2, MoveInv, AcceptInv
  <2>3. CASE Close(s)
    BY <2>3, CloseInv
  <2>4. CASE Destroy(s)
    BY <2>4, DestroyInv
  <2>5. CASE Bind(s)
    <3>1. NoEndpoint \in Ends
      BY DEF Ends
    <3>2. QED
      BY <2>5, <3>1, OpenInv DEF Bind
  <2>6. ASSUME NEW e \in Endpoints, Connect(s, e) PROVE IInv'
    <3>1. e \in Ends
      BY DEF Ends
    <3>2. QED
      BY <2>6, <3>1, OpenInv DEF Connect
  <2>7. ASSUME NEW e \in Endpoints, WriteTo(s, e) PROVE IInv'
    BY <2>7, TransferredInv, UnmovedInv DEF WriteTo
  <2>8. CASE Listen(s)
    BY <2>8, ListenInv
  <2>9. ASSUME NEW side \in {"write", "read"}, NEW timeout \in Timeouts,
               SetTimeout(s, side, timeout)
        PROVE  IInv'
    BY <2>9, SetTimeoutInv
  <2>10. CASE SetNonBlocking(s)
    BY <2>10, SetNonBlockingInv
  <2>11. CASE Shutdown(s)
    BY <2>11, Stays DEF Shutdown
  <2>12. CASE Read(s)
    BY <2>12, AfterInv, UnmovedInv DEF Read
  <2>13. CASE Write(s)
    BY <2>13, AfterInv, UnmovedInv DEF Write
  <2>14. CASE ReadFrom(s)
    BY <2>14, TransferredInv, UnmovedInv DEF ReadFrom
  <2>15. QED
    BY <2>1, <2>2, <2>3, <2>4, <2>5, <2>6, <2>7, <2>8, <2>9, <2>10, <2>11, <2>12,
       <2>13, <2>14
<1>3. QED
  BY <1>1, <1>2

LEMMA Invariance == ASSUME Wide PROVE Spec => []IInv
<1>1. Init => IInv
  BY InitInv
<1>2. IInv /\ [Next]_vars => IInv'
  BY NextInv
<1>3. QED
  BY <1>1, <1>2, PTL DEF Spec

-----------------------------------------------------------------------------
(***************************************************************************)
(* Through failed binds and connects, accepts, moves, reads and writes that*)
(* close the socket: no handle leaks, is shared or used after its close,   *)
(* for any number of objects and handles.                                  *)
(***************************************************************************)
THEOREM HandlesCorrectness == ASSUME Wide PROVE Spec => []HandlesOwned
<1>1. IInv => HandlesOwned
  <2> SUFFICES ASSUME IInv PROVE HandlesOwned
    OBVIOUS
  <2>1. \A s \in Objects : object[s].handle \in Handles \union {NoHandle}
    BY DEF IInv, ObjectType
  <2>2. \A h \in Handles :
           kernel[h].open => \E s \in Objects : object[s].made /\ object[s].handle = h
    BY DEF IInv, Holds
  <2>3. \A s, t \in Objects :
           object[s].made /\ object[t].made /\ object[s].handle = object[t].handle
              => s = t \/ object[s].handle = NoHandle
    BY <2>1 DEF IInv, Holds
  <2>4. \A s \in Objects :
           object[s].made /\ IsBound(object[s]) => IsOpen(object[s].handle)
    BY <2>1, NoHandleBound DEF IInv, Fits, IsOpen
  <2>5. QED
    BY <2>2, <2>3, <2>4 DEF HandlesOwned
<1>2. QED
  BY <1>1, Invariance, PTL

\* What m_Type and m_RemoteEndpoint say of an open handle is so.
THEOREM DescriptionCorrectness == ASSUME Wide PROVE Spec => []DescribesHandle
<1>1. IInv => DescribesHandle
  BY NoHandleBound DEF IInv, Fits, DescribesHandle, IsOpen
<1>2. QED
  BY <1>1, Invariance, PTL

\* A socket that says it is non-blocking is, or the refusal was reported.
THEOREM ModeCorrectness == ASSUME Wide PROVE Spec => []NonBlockingKept
<1>1. IInv => NonBlockingKept
  BY NoHandleBound DEF IInv, Moded, NonBlockingKept, IsOpen
<1>2. QED
  BY <1>1, Invariance, PTL

-----------------------------------------------------------------------------
(***************************************************************************)
(* What calls return.                                                      *)
(***************************************************************************)
Returned == ReachesAsked /\ FalseMeansRefused

\* What WSAStartup returned stays as it was.
LEMMA StartedKept == ASSUME [Next]_vars PROVE started' = started
<1>1. ASSUME NEW s, NEW t, NEW type,
             \/ Construct(s, type) \/ SetType(s, type) \/ Move(s, t) \/ Accept(s, t)
             \/ Close(s) \/ Destroy(s) \/ Listen(s)
      PROVE  started' = started
  BY <1>1 DEF Construct, SetType, Move, Accept, Close, Destroy, Listen
<1>2. ASSUME NEW s, NEW e, Bind(s) \/ Connect(s, e)
      PROVE  started' = started
  BY <1>2 DEF Bind, Connect, Open
<1>3. ASSUME NEW s, NEW side, NEW timeout,
             SetTimeout(s, side, timeout) \/ SetNonBlocking(s) \/ Shutdown(s)
      PROVE  started' = started
  BY <1>3 DEF SetTimeout, SetNonBlocking, Shutdown
<1>4. ASSUME NEW s, NEW e, Read(s) \/ Write(s) \/ ReadFrom(s) \/ WriteTo(s, e)
      PROVE  started' = started
  BY <1>4 DEF Read, Write, ReadFrom, WriteTo
<1>5. QED
  BY <1>1, <1>2, <1>3, <1>4 DEF Next, vars

LEMMA OtherReturns ==
    ASSUME NEW done, NEW reported, Return(done, reported)
    PROVE  Returned'
  BY DEF Return, Nothing, Returned, ReachesAsked, FalseMeansRefused

LEMMA AfterReturns ==
    ASSUME NEW s, NEW ending, After(s, ending)
    PROVE  Returned'
  BY OtherReturns DEF After

LEMMA UnmovedReturns ==
    ASSUME NEW reported, Unmoved(reported)
    PROVE  Returned'
  BY OtherReturns DEF Unmoved

LEMMA TransferredReturns ==
    ASSUME NEW s, NEW ending, NEW asked, Transferred(s, ending, asked, asked)
    PROVE  Returned'
<1>1. CASE ending = "data"
  BY <1>1 DEF Transferred, Nothing, Returned, ReachesAsked, FalseMeansRefused
<1>2. CASE ending # "data"
  BY <1>2, AfterReturns DEF Transferred
<1>3. QED
  BY <1>1, <1>2

\* A bound object's peer is m_RemoteEndpoint.
LEMMA PeerIsRemote ==
    ASSUME Wide, IInv, NEW s \in Objects, object[s].made, IsBound(object[s])
    PROVE  PeerOf(object[s].handle) = object[s].remote /\ IsOpen(object[s].handle)
  BY NoHandleBound DEF IInv, ObjectType, Fits, IsOpen, PeerOf

LEMMA OpenReturns ==
    ASSUME Wide, IInv, NEW call, NEW s \in Objects, NEW remote, NEW naming,
           Open(call, s, remote, naming)
    PROVE  Returned'
<1>1. object[s].made
  BY DEF Open
<1>2. CASE IsBound(object[s])
  <2>1. IsOpen(object[s].handle)
    BY <1>1, <1>2, PeerIsRemote
  <2>2. QED
    BY <1>2, <2>1 DEF Open, Nothing, Returned, ReachesAsked, FalseMeansRefused
<1>3. CASE ~IsBound(object[s])
  BY <1>3 DEF Open, Nothing, Returned, ReachesAsked, FalseMeansRefused
<1>4. QED
  BY <1>2, <1>3

LEMMA WriteToReturns ==
    ASSUME Wide, IInv, NEW s \in Objects, NEW e \in Endpoints, WriteTo(s, e)
    PROVE  Returned'
<1>1. CASE ~IsBound(object[s]) \/ (IsConnected(object[s]) /\ object[s].remote # e)
  BY <1>1, UnmovedReturns DEF WriteTo
<1>2. CASE IsBound(object[s]) /\ (IsConnected(object[s]) => object[s].remote = e)
  <2>1. object[s].made
    BY DEF WriteTo
  <2>2. Target(object[s], e) = e
    BY <1>2, <2>1, PeerIsRemote DEF Target
  <2>3. PICK ending : Transferred(s, ending, e, Target(object[s], e))
    BY <1>2 DEF WriteTo
  <2>4. QED
    BY <2>2, <2>3, TransferredReturns
<1>3. QED
  BY <1>1, <1>2

LEMMA ReadFromReturns ==
    ASSUME Wide, IInv, NEW s \in Objects, ReadFrom(s)
    PROVE  Returned'
<1>1. CASE ~IsBound(object[s])
  BY <1>1, UnmovedReturns DEF ReadFrom
<1>2. CASE IsBound(object[s])
  <2>1. PeerOf(object[s].handle) = object[s].remote
    BY <1>2, PeerIsRemote DEF ReadFrom
  <2>2. PICK ending \in Endings(object[s].handle),
             from \in IF PeerOf(object[s].handle) = NoEndpoint
                      THEN Endpoints ELSE {PeerOf(object[s].handle)} :
             Transferred(s, ending,
                         IF IsConnected(object[s]) THEN object[s].remote ELSE from, from)
    BY <1>2 DEF ReadFrom
  <2>3. IsConnected(object[s]) => object[s].remote = from
    BY <2>1, <2>2 DEF IsConnected
  <2>4. QED
    BY <2>2, <2>3, TransferredReturns
<1>3. QED
  BY <1>1, <1>2

LEMMA NextReturns == ASSUME Wide, IInv, Returned, [Next]_vars PROVE Returned'
<1>1. CASE UNCHANGED vars
  BY <1>1 DEF vars, Returned, ReachesAsked, FalseMeansRefused
<1>2. CASE Next
  <2>1. PICK s \in Objects :
           \/ \E type \in Types : Construct(s, type) \/ SetType(s, type)
           \/ \E t \in Objects \ {s} : Move(s, t) \/ Accept(s, t)
           \/ Close(s) \/ Destroy(s) \/ Listen(s) \/ SetNonBlocking(s) \/ Shutdown(s)
           \/ Bind(s)
           \/ \E e \in Endpoints : Connect(s, e) \/ WriteTo(s, e)
           \/ \E side \in {"write", "read"}, timeout \in Timeouts :
                 SetTimeout(s, side, timeout)
           \/ Read(s) \/ Write(s) \/ ReadFrom(s)
    BY <1>2 DEF Next
  <2>2. ASSUME NEW type \in Types, Construct(s, type) \/ SetType(s, type) PROVE Returned'
    BY <2>2, OtherReturns DEF Construct, SetType
  <2>3. ASSUME NEW t \in Objects \ {s}, Move(s, t) PROVE Returned'
    BY <2>3, OtherReturns DEF Move
  <2>4. ASSUME NEW t \in Objects \ {s}, Accept(s, t) PROVE Returned'
    BY <2>4, OtherReturns DEF Accept
  <2>5. CASE Close(s) \/ Destroy(s)
    BY <2>5, OtherReturns DEF Close, Destroy
  <2>6. CASE Listen(s) \/ Shutdown(s)
    BY <2>6, OtherReturns DEF Listen, Shutdown
  <2>7. CASE SetNonBlocking(s)
    BY <2>7, OtherReturns DEF SetNonBlocking
  <2>8. ASSUME NEW side \in {"write", "read"}, NEW timeout \in Timeouts,
               SetTimeout(s, side, timeout)
        PROVE  Returned'
    BY <2>8, OtherReturns DEF SetTimeout
  <2>9. CASE Bind(s)
    BY <2>9, OpenReturns DEF Bind
  <2>10. ASSUME NEW e \in Endpoints, Connect(s, e) PROVE Returned'
    BY <2>10, OpenReturns DEF Connect
  <2>11. ASSUME NEW e \in Endpoints, WriteTo(s, e) PROVE Returned'
    BY <2>11, WriteToReturns
  <2>12. CASE Read(s) \/ Write(s)
    BY <2>12, AfterReturns, UnmovedReturns DEF Read, Write
  <2>13. CASE ReadFrom(s)
    BY <2>13, ReadFromReturns
  <2>14. QED
    BY <2>1, <2>2, <2>3, <2>4, <2>5, <2>6, <2>7, <2>8, <2>9, <2>10, <2>11, <2>12,
       <2>13
<1>3. QED
  BY <1>1, <1>2

LEMMA ReturnsInvariance == ASSUME Wide PROVE Spec => [](IInv /\ Returned)
<1>1. Init => IInv /\ Returned
  BY InitInv DEF Init, Nothing, Returned, ReachesAsked, FalseMeansRefused
<1>2. IInv /\ Returned /\ [Next]_vars => (IInv /\ Returned)'
  BY NextInv, NextReturns
<1>3. QED
  BY <1>1, <1>2, PTL DEF Spec

\* A datagram goes where it was asked to go and came from where readFrom says.
THEOREM AddressCorrectness == ASSUME Wide PROVE Spec => []ReachesAsked
<1>1. IInv /\ Returned => ReachesAsked
  BY DEF Returned
<1>2. QED
  BY <1>1, ReturnsInvariance, PTL

\* bind and connect turn a program away without reporting why in two cases only:
\* its socket is open already, or on Windows the sockets of the system never
\* started.
THEOREM RefusalCorrectness == ASSUME Wide PROVE Spec => []FalseMeansRefused
<1>1. IInv /\ Returned => FalseMeansRefused
  BY DEF Returned
<1>2. QED
  BY <1>1, ReturnsInvariance, PTL

-----------------------------------------------------------------------------
(***************************************************************************)
(* Types.  Nothing here asks for Wide: where a pointer is narrower, every  *)
(* object counts as bound, and the calls go on with the value NoHandle.    *)
(***************************************************************************)
Typing ==
    /\ object \in [Objects -> ObjectType]
    /\ kernel \in [Handles -> HandleType]
    /\ result \in ResultType
    /\ refused \subseteq Objects

LEMMA OutcomeType ==
    /\ \A c : Outcomes(c) \subseteq BOOLEAN
    /\ \A h, c : OutcomesOn(h, c) \subseteq BOOLEAN
    /\ \A o : \A mode \in Modes(o) : mode.nonblocking \in BOOLEAN /\ mode.ok \in BOOLEAN
<1>1. \A c : Outcomes(c) \subseteq BOOLEAN
  BY DEF Outcomes
<1>2. \A h, c : OutcomesOn(h, c) \subseteq BOOLEAN
  BY <1>1 DEF OutcomesOn
<1>3. ASSUME NEW o, NEW mode \in Modes(o)
      PROVE  mode.nonblocking \in BOOLEAN /\ mode.ok \in BOOLEAN
  <2>1. CASE IsNonBlocking(o)
    <3>1. PICK ok \in Outcomes("nonblocking") : mode = [nonblocking |-> ok, ok |-> ok]
      BY <1>3, <2>1 DEF Modes
    <3>2. QED
      BY <1>1, <3>1
  <2>2. CASE ~IsNonBlocking(o)
    <3>1. PICK ok \in Outcomes("timeout") : mode = [nonblocking |-> FALSE, ok |-> ok]
      BY <1>3, <2>2 DEF Modes
    <3>2. QED
      BY <1>1, <3>1
  <2>3. QED
    BY <2>1, <2>2
<1>4. QED
  BY <1>1, <1>2, <1>3

LEMMA ReturnType ==
    ASSUME NEW done \in BOOLEAN, NEW reported \in BOOLEAN, Return(done, reported)
    PROVE  result' \in ResultType
  BY DEF Return, Nothing, ResultType, Ends

\* One object and the handles change.
LEMMA Typed ==
    ASSUME Typing, NEW s \in Objects, NEW o \in ObjectType,
           object' = [object EXCEPT ![s] = o],
           kernel' \in [Handles -> HandleType],
           result' \in ResultType, refused' \subseteq Objects
    PROVE  Typing'
  BY DEF Typing

LEMMA Untouched ==
    ASSUME Typing, UNCHANGED <<object, kernel, refused>>, result' \in ResultType
    PROVE  Typing'
  BY DEF Typing

LEMMA NoObjectType == NoObject \in ObjectType
  BY SocketAssumption DEF NoObject, NewObject, ObjectType, Types, Ends

LEMMA MoveTyped ==
    ASSUME Typing, NEW s \in Objects, NEW t \in Objects \ {s}, Move(s, t)
    PROVE  Typing'
<1> DEFINE o == [object[s] EXCEPT !.handle = NoHandle]
<1>1. object \in [Objects -> ObjectType] /\ object[s] \in ObjectType
  BY DEF Typing
<1>2. o \in ObjectType
  BY <1>1 DEF ObjectType
<1>3. object' = [object EXCEPT ![t] = object[s], ![s] = o]
  BY <1>1 DEF Move
<1> HIDE DEF o
<1>4. object' \in [Objects -> ObjectType]
  BY <1>1, <1>2, <1>3
<1>5. result' \in ResultType
  BY ReturnType DEF Move
<1>6. kernel' \in [Handles -> HandleType] /\ refused' \subseteq Objects
  BY DEF Move, Typing
<1>7. QED
  BY <1>4, <1>5, <1>6 DEF Typing

LEMMA CloseTyped ==
    ASSUME Typing, NEW s \in Objects, Close(s) \/ Destroy(s)
    PROVE  Typing'
<1>1. object \in [Objects -> ObjectType] /\ object[s] \in ObjectType
  BY DEF Typing
<1>2. PICK o \in {ClosedObject(object[s]), NoObject, object[s]} :
         object' = [object EXCEPT ![s] = o]
  BY <1>1 DEF Close, Destroy
<1>3. o \in ObjectType
  BY <1>1, ClosedObjectType, NoObjectType
<1>4. kernel' \in {kernel, KernelWithout(object[s].handle)}
  BY DEF Close, Destroy
<1>5. kernel' \in [Handles -> HandleType]
  BY <1>4, KernelWithoutType DEF Typing
<1>6. refused' \subseteq Objects
  BY DEF Close, Destroy, Typing
<1>7. result' \in ResultType
  <2>1. PICK done \in BOOLEAN, reported \in BOOLEAN : Return(done, reported)
    BY OutcomeType DEF Close, Destroy
  <2>2. QED
    BY <2>1, ReturnType
<1>8. QED
  BY <1>2, <1>3, <1>5, <1>6, <1>7, Typed

\* The result of bind and connect.
LEMMA OpenTyped ==
    ASSUME Typing, NEW call, NEW s \in Objects, NEW remote \in Ends,
           NEW naming \in SUBSET BOOLEAN, Open(call, s, remote, naming)
    PROVE  Typing'
<1>1. object \in [Objects -> ObjectType] /\ object[s] \in ObjectType
      /\ kernel \in [Handles -> HandleType] /\ refused \subseteq Objects
  BY DEF Typing
<1>2. \A done, reported \in BOOLEAN :
         result' = [Nothing EXCEPT !.op = "open", !.done = done, !.reported = reported,
                                   !.bound = IsOpen(object[s].handle)]
            => result' \in ResultType
  <2>1. IsOpen(object[s].handle) \in BOOLEAN
    BY <1>1 DEF IsOpen, HandleType
  <2> DEFINE b == IsOpen(object[s].handle)
  <2> HIDE DEF b
  <2>2. \A done, reported \in BOOLEAN :
           b \in BOOLEAN =>
           [Nothing EXCEPT !.op = "open", !.done = done, !.reported = reported,
                           !.bound = b] \in ResultType
    BY DEF Nothing, ResultType, Ends
  <2>3. QED
    BY <2>1, <2>2 DEF b
<1>3. CASE UNCHANGED <<object, kernel, refused>> /\ result' \in ResultType
  BY <1>3, Untouched
<1>4. CASE /\ object' = [object EXCEPT ![s] = ClosedObject(@)]
           /\ UNCHANGED <<kernel, refused>> /\ result' \in ResultType
  BY <1>1, <1>4, ClosedObjectType, Typed
<1>5. ASSUME NEW h \in Free, NEW mode \in Modes(object[s]),
             object' = [object EXCEPT ![s] = [@ EXCEPT !.handle = h, !.remote = remote]],
             kernel' = KernelWith(h, object[s].type, mode, remote),
             Remember(s, object[s], mode), result' \in ResultType
      PROVE  Typing'
  <2> DEFINE o == [object[s] EXCEPT !.handle = h, !.remote = remote]
  <2>1. o \in ObjectType
    BY <1>1 DEF ObjectType, Free
  <2>2. object' = [object EXCEPT ![s] = o]
    BY <1>5
  <2> HIDE DEF o
  <2>3. object[s].type \in Types /\ mode.nonblocking \in BOOLEAN
    BY <1>1, OutcomeType DEF ObjectType
  <2>4. kernel' \in [Handles -> HandleType]
    BY <1>1, <1>5, <2>3, KernelWithType
  <2>5. refused' \subseteq Objects
    BY <1>1, <1>5 DEF Remember
  <2>6. QED
    BY <1>5, <2>1, <2>2, <2>4, <2>5, Typed
<1>6. CASE IsBound(object[s])
  <2>1. UNCHANGED <<object, kernel, refused>> /\ result' \in ResultType
    BY <1>2, <1>6 DEF Open
  <2>2. QED
    BY <2>1, <1>3
<1>7. CASE ~IsBound(object[s])
  <2>1. \/ UNCHANGED <<object, kernel, refused>> /\ result' \in ResultType
        \/ /\ object' = [object EXCEPT ![s] = ClosedObject(@)]
           /\ UNCHANGED <<kernel, refused>> /\ result' \in ResultType
        \/ \E h \in Free, mode \in Modes(object[s]) :
              /\ object' = [object EXCEPT ![s] = [@ EXCEPT !.handle = h, !.remote = remote]]
              /\ kernel' = KernelWith(h, object[s].type, mode, remote)
              /\ Remember(s, object[s], mode)
              /\ result' \in ResultType
    BY <1>2, <1>7, OutcomeType DEF Open
  <2>2. QED
    BY <2>1, <1>3, <1>4, <1>5
<1>8. QED
  BY <1>6, <1>7

LEMMA ListenTyped ==
    ASSUME Typing, NEW s \in Objects, Listen(s)
    PROVE  Typing'
<1>1. UNCHANGED <<object, refused>>
  BY DEF Listen
<1>2. result' \in ResultType
  <2>1. PICK done \in BOOLEAN, reported \in BOOLEAN : Return(done, reported)
    BY DEF Listen
  <2>2. QED
    BY <2>1, ReturnType
<1>3. kernel' \in [Handles -> HandleType]
  <2>1. \/ kernel' = kernel
        \/ /\ IsOpen(object[s].handle)
           /\ kernel' = [kernel EXCEPT ![object[s].handle].listening = TRUE]
    BY DEF Listen, OutcomesOn
  <2>2. QED
    BY <2>1, ListeningType DEF Typing, IsOpen
<1>4. QED
  BY <1>1, <1>2, <1>3 DEF Typing

LEMMA AcceptTyped ==
    ASSUME Typing, NEW s \in Objects, NEW t \in Objects \ {s}, Accept(s, t)
    PROVE  Typing'
<1> DEFINE fresh == [NewObject(object[s].type) EXCEPT !.write = object[s].write,
                                                     !.read = object[s].read]
<1>1. object \in [Objects -> ObjectType] /\ object[s] \in ObjectType
      /\ kernel \in [Handles -> HandleType] /\ refused \subseteq Objects
  BY DEF Typing
<1>2. NewObject(object[s].type) \in ObjectType /\ fresh \in ObjectType
  BY <1>1, NewObjectType DEF ObjectType
<1> HIDE DEF fresh
<1>3. ASSUME NEW o \in {NewObject(object[s].type), fresh},
             object' = [object EXCEPT ![t] = o],
             UNCHANGED <<kernel, refused>>, result' \in ResultType
      PROVE  Typing'
  BY <1>1, <1>2, <1>3, Typed
<1>4. ASSUME IsOpen(object[s].handle),
             NEW h \in Free, NEW e \in Endpoints, NEW mode \in Modes(object[s]),
             object' = [object EXCEPT ![t] = [fresh EXCEPT !.handle = h, !.remote = e]],
             kernel' = KernelWith(h, kernel[object[s].handle].type, mode, e),
             Remember(t, object[s], mode), result' \in ResultType
      PROVE  Typing'
  <2> DEFINE o == [fresh EXCEPT !.handle = h, !.remote = e]
  <2>1. o \in ObjectType
    BY <1>2 DEF ObjectType, Free, Ends
  <2>2. object' = [object EXCEPT ![t] = o]
    BY <1>4
  <2> HIDE DEF o
  <2>3. /\ kernel[object[s].handle].type \in Types /\ e \in Ends
        /\ mode.nonblocking \in BOOLEAN
    BY <1>1, <1>4, OutcomeType DEF HandleType, IsOpen, Ends
  <2>4. kernel' \in [Handles -> HandleType]
    BY <1>1, <1>4, <2>3, KernelWithType
  <2>5. refused' \subseteq Objects
    BY <1>1, <1>4 DEF Remember
  <2>6. QED
    BY <1>4, <2>1, <2>2, <2>4, <2>5, Typed
<1>5. result' \in ResultType
  <2>1. PICK done \in BOOLEAN, reported \in BOOLEAN : Return(done, reported)
    BY OutcomeType DEF Accept
  <2>2. QED
    BY <2>1, ReturnType
<1>6. QED
  BY <1>3, <1>4, <1>5 DEF Accept, fresh

LEMMA SetTimeoutTyped ==
    ASSUME Typing, NEW s \in Objects, NEW side \in {"write", "read"},
           NEW timeout \in Timeouts, SetTimeout(s, side, timeout)
    PROVE  Typing'
<1> DEFINE o == [object[s] EXCEPT ![side] = timeout]
<1>1. object \in [Objects -> ObjectType] /\ object[s] \in ObjectType
      /\ kernel \in [Handles -> HandleType] /\ refused \subseteq Objects
  BY DEF Typing
<1>2. o \in ObjectType
  <2>1. CASE side = "write"
    BY <1>1, <2>1 DEF ObjectType
  <2>2. CASE side = "read"
    BY <1>1, <2>2 DEF ObjectType
  <2>3. QED
    BY <2>1, <2>2
<1>3. object' \in {object, [object EXCEPT ![s] = o]}
  BY DEF SetTimeout
<1> HIDE DEF o
<1>4. object' \in [Objects -> ObjectType]
  BY <1>1, <1>2, <1>3
<1>5. result' \in ResultType
  <2>1. PICK done \in BOOLEAN, reported \in BOOLEAN : Return(done, reported)
    <3>1. CASE ~IsBound(object[s])
      BY <3>1 DEF SetTimeout
    <3>2. CASE IsBound(object[s])
      <4>1. PICK switched \in IF timeout = 0 THEN OutcomesOn(object[s].handle, "nonblocking")
                                            ELSE {FALSE},
                 taken \in OutcomesOn(object[s].handle, "timeout") :
               Return((timeout = 0 => switched) /\ taken,
                      ~((timeout = 0 => switched) /\ taken))
        BY <3>2 DEF SetTimeout
      <4>2. QED
        BY <4>1
    <3>3. QED
      BY <3>1, <3>2
  <2>2. QED
    BY <2>1, ReturnType
<1>6. kernel' \in [Handles -> HandleType]
  <2>1. \/ kernel' = kernel
        \/ /\ IsOpen(object[s].handle)
           /\ kernel' = [kernel EXCEPT ![object[s].handle].nonblocking = TRUE]
    BY DEF SetTimeout, OutcomesOn
  <2>2. QED
    BY <1>1, <2>1, SwitchType DEF IsOpen
<1>7. refused' \subseteq Objects
  BY <1>1 DEF SetTimeout
<1>8. QED
  BY <1>4, <1>5, <1>6, <1>7 DEF Typing

LEMMA SetNonBlockingTyped ==
    ASSUME Typing, NEW s \in Objects, SetNonBlocking(s)
    PROVE  Typing'
<1> DEFINE o == [object[s] EXCEPT !.write = 0, !.read = 0]
<1>1. object \in [Objects -> ObjectType] /\ object[s] \in ObjectType
      /\ kernel \in [Handles -> HandleType] /\ refused \subseteq Objects
  BY DEF Typing
<1>2. o \in ObjectType
  BY <1>1, SocketAssumption DEF ObjectType
<1>3. object' \in {object, [object EXCEPT ![s] = o]}
  BY DEF SetNonBlocking
<1> HIDE DEF o
<1>4. object' \in [Objects -> ObjectType]
  BY <1>1, <1>2, <1>3
<1>5. result' \in ResultType
  <2>1. PICK done \in BOOLEAN, reported \in BOOLEAN : Return(done, reported)
    <3>1. CASE ~IsBound(object[s])
      BY <3>1 DEF SetNonBlocking
    <3>2. CASE IsBound(object[s])
      <4>1. PICK ok \in OutcomesOn(object[s].handle, "nonblocking") : Return(ok, ~ok)
        BY <3>2 DEF SetNonBlocking
      <4>2. ok \in BOOLEAN /\ (~ok) \in BOOLEAN
        BY OutcomeType
      <4>3. QED
        BY <4>1, <4>2
    <3>3. QED
      BY <3>1, <3>2
  <2>2. QED
    BY <2>1, ReturnType
<1>6. kernel' \in [Handles -> HandleType]
  <2>1. \/ kernel' = kernel
        \/ /\ IsOpen(object[s].handle)
           /\ kernel' = [kernel EXCEPT ![object[s].handle].nonblocking = TRUE]
    BY DEF SetNonBlocking, OutcomesOn
  <2>2. QED
    BY <1>1, <2>1, SwitchType DEF IsOpen
<1>7. refused' \subseteq Objects
  BY <1>1 DEF SetNonBlocking
<1>8. QED
  BY <1>4, <1>5, <1>6, <1>7 DEF Typing

LEMMA AfterTyped ==
    ASSUME Typing, NEW s \in Objects, NEW ending, After(s, ending)
    PROVE  Typing'
<1> DEFINE closes == ending = "lost" \/ (ending = "zero" /\ IsNonBlocking(object[s]))
<1>1. result' \in ResultType
  <2>1. PICK closed \in IF closes THEN OutcomesOn(object[s].handle, "close") ELSE {TRUE} :
           Return(ending = "data", ending = "error" \/ ~closed)
    BY DEF After
  <2>2. (ending = "data") \in BOOLEAN /\ (ending = "error" \/ ~closed) \in BOOLEAN
    OBVIOUS
  <2>3. QED
    BY <2>1, <2>2, ReturnType
<1>2. object[s] \in ObjectType
  BY DEF Typing
<1>3. CASE closes
  <2>1. ClosedObject(object[s]) \in ObjectType
    BY <1>2, ClosedObjectType
  <2>2. KernelWithout(object[s].handle) \in [Handles -> HandleType]
    BY KernelWithoutType DEF Typing
  <2>3. refused' \subseteq Objects
    BY <1>3 DEF After, Typing
  <2>4. /\ object' = [object EXCEPT ![s] = ClosedObject(object[s])]
        /\ kernel' = KernelWithout(object[s].handle)
    BY <1>3 DEF After
  <2>5. QED
    BY <1>1, <2>1, <2>2, <2>3, <2>4, Typed
<1>4. CASE ~closes
  <2>1. UNCHANGED <<object, kernel, refused>>
    BY <1>4 DEF After
  <2>2. QED
    BY <1>1, <2>1, Untouched
<1>5. QED
  BY <1>3, <1>4

LEMMA UnmovedTyped ==
    ASSUME Typing, NEW reported \in BOOLEAN, Unmoved(reported)
    PROVE  Typing'
  BY ReturnType, Untouched DEF Unmoved

LEMMA TransferredTyped ==
    ASSUME Typing, NEW s \in Objects, NEW ending, NEW asked \in Ends,
           NEW reached \in Ends, Transferred(s, ending, asked, reached)
    PROVE  Typing'
<1>1. CASE ending = "data"
  <2>1. result' \in ResultType /\ UNCHANGED <<object, kernel, refused>>
    BY <1>1 DEF Transferred, Nothing, ResultType, Ends
  <2>2. QED
    BY <2>1, Untouched
<1>2. CASE ending # "data"
  BY <1>2, AfterTyped DEF Transferred
<1>3. QED
  BY <1>1, <1>2

LEMMA PeerType == ASSUME Typing, NEW h PROVE PeerOf(h) \in Ends
  BY DEF Typing, PeerOf, IsOpen, HandleType, Ends

LEMMA ReadFromTyped ==
    ASSUME Typing, NEW s \in Objects, ReadFrom(s)
    PROVE  Typing'
<1>1. CASE ~IsBound(object[s])
  BY <1>1, UnmovedTyped DEF ReadFrom
<1>2. CASE IsBound(object[s])
  <2>1. PICK ending \in Endings(object[s].handle),
             from \in IF PeerOf(object[s].handle) = NoEndpoint
                      THEN Endpoints ELSE {PeerOf(object[s].handle)} :
             Transferred(s, ending,
                         IF IsConnected(object[s]) THEN object[s].remote ELSE from, from)
    BY <1>2 DEF ReadFrom
  <2>2. from \in Ends
    BY PeerType DEF Ends
  <2>3. (IF IsConnected(object[s]) THEN object[s].remote ELSE from) \in Ends
    BY <2>2 DEF Typing, ObjectType
  <2>4. QED
    BY <2>1, <2>2, <2>3, TransferredTyped
<1>3. QED
  BY <1>1, <1>2

LEMMA WriteToTyped ==
    ASSUME Typing, NEW s \in Objects, NEW e \in Endpoints, WriteTo(s, e)
    PROVE  Typing'
<1>1. CASE ~IsBound(object[s]) \/ (IsConnected(object[s]) /\ object[s].remote # e)
  BY <1>1, UnmovedTyped DEF WriteTo
<1>2. CASE IsBound(object[s]) /\ (IsConnected(object[s]) => object[s].remote = e)
  <2>1. e \in Ends /\ Target(object[s], e) \in Ends
    BY PeerType DEF Target, Ends
  <2>2. PICK ending : Transferred(s, ending, e, Target(object[s], e))
    BY <1>2 DEF WriteTo
  <2>3. QED
    BY <2>1, <2>2, TransferredTyped
<1>3. QED
  BY <1>1, <1>2

LEMMA NextTyped == ASSUME Typing, [Next]_vars PROVE Typing'
<1>1. CASE UNCHANGED vars
  BY <1>1 DEF vars, Typing
<1>2. CASE Next
  <2>1. PICK s \in Objects :
           \/ \E type \in Types : Construct(s, type) \/ SetType(s, type)
           \/ \E t \in Objects \ {s} : Move(s, t) \/ Accept(s, t)
           \/ Close(s) \/ Destroy(s) \/ Listen(s) \/ SetNonBlocking(s) \/ Shutdown(s)
           \/ Bind(s)
           \/ \E e \in Endpoints : Connect(s, e) \/ WriteTo(s, e)
           \/ \E side \in {"write", "read"}, timeout \in Timeouts :
                 SetTimeout(s, side, timeout)
           \/ Read(s) \/ Write(s) \/ ReadFrom(s)
    BY <1>2 DEF Next
  <2>2. ASSUME NEW type \in Types, Construct(s, type) PROVE Typing'
    <3>1. NewObject(type) \in ObjectType
      BY NewObjectType
    <3>2. result' \in ResultType
      BY <2>2, ReturnType DEF Construct
    <3>3. QED
      BY <2>2, <3>1, <3>2, Typed DEF Construct, Typing
  <2>3. ASSUME NEW type \in Types, SetType(s, type) PROVE Typing'
    <3> DEFINE o == [object[s] EXCEPT !.type = type]
    <3>1. o \in ObjectType
      BY DEF Typing, ObjectType
    <3>2. object' \in {object, [object EXCEPT ![s] = o]}
      BY <2>3 DEF SetType
    <3> HIDE DEF o
    <3>3. object' \in [Objects -> ObjectType]
      BY <3>1, <3>2 DEF Typing
    <3>4. result' \in ResultType
      BY <2>3, ReturnType DEF SetType
    <3>5. QED
      BY <2>3, <3>3, <3>4 DEF SetType, Typing
  <2>4. ASSUME NEW t \in Objects \ {s}, Move(s, t) \/ Accept(s, t) PROVE Typing'
    BY <2>4, MoveTyped, AcceptTyped
  <2>5. CASE Close(s) \/ Destroy(s)
    BY <2>5, CloseTyped
  <2>6. CASE Listen(s) \/ SetNonBlocking(s)
    BY <2>6, ListenTyped, SetNonBlockingTyped
  <2>7. CASE Shutdown(s)
    <3>1. PICK done \in BOOLEAN, reported \in BOOLEAN : Return(done, reported)
      <4>1. CASE ~IsBound(object[s])
        BY <2>7, <4>1 DEF Shutdown
      <4>2. CASE IsBound(object[s])
        <5>1. PICK ok \in OutcomesOn(object[s].handle, "shutdown") : Return(ok, ~ok)
          BY <2>7, <4>2 DEF Shutdown
        <5>2. ok \in BOOLEAN /\ (~ok) \in BOOLEAN
          BY OutcomeType
        <5>3. QED
          BY <5>1, <5>2
      <4>3. QED
        BY <4>1, <4>2
    <3>2. result' \in ResultType
      BY <3>1, ReturnType
    <3>3. QED
      BY <2>7, <3>2, Untouched DEF Shutdown
  <2>8. CASE Bind(s)
    <3>1. NoEndpoint \in Ends
      BY DEF Ends
    <3>2. QED
      BY <2>8, <3>1, OpenTyped DEF Bind
  <2>9. ASSUME NEW e \in Endpoints, Connect(s, e) PROVE Typing'
    <3>1. e \in Ends /\ Outcomes("name") \in SUBSET BOOLEAN
      BY OutcomeType DEF Ends
    <3>2. QED
      BY <2>9, <3>1, OpenTyped DEF Connect
  <2>10. ASSUME NEW e \in Endpoints, WriteTo(s, e) PROVE Typing'
    BY <2>10, WriteToTyped
  <2>11. ASSUME NEW side \in {"write", "read"}, NEW timeout \in Timeouts,
                SetTimeout(s, side, timeout)
         PROVE  Typing'
    BY <2>11, SetTimeoutTyped
  <2>12. CASE Read(s) \/ Write(s)
    BY <2>12, AfterTyped, UnmovedTyped DEF Read, Write
  <2>13. CASE ReadFrom(s)
    BY <2>13, ReadFromTyped
  <2>14. QED
    BY <2>1, <2>2, <2>3, <2>4, <2>5, <2>6, <2>7, <2>8, <2>9, <2>10, <2>11, <2>12,
       <2>13
<1>3. QED
  BY <1>1, <1>2

\* Objects, handles and results hold what they should, on narrow pointers too: a
\* call on an object that is not bound writes to no handle of the system.
THEOREM TypeCorrectness == Spec => []TypeOK
<1>1. Init => Typing
  <2>1. ClosedHandle \in HandleType /\ Nothing \in ResultType
    BY DEF ClosedHandle, HandleType, Nothing, ResultType, Types, Ends
  <2>2. QED
    BY <2>1, NoObjectType DEF Init, Typing
<1>2. Typing /\ [Next]_vars => Typing'
  BY NextTyped
<1>3. Init => TypeOK
  BY <1>1 DEF Init, Typing, TypeOK
<1>4. TypeOK /\ [Next]_vars => TypeOK'
  <2> SUFFICES ASSUME TypeOK, [Next]_vars PROVE TypeOK'
    OBVIOUS
  <2>1. Typing'
    BY <1>2 DEF TypeOK, Typing
  <2>2. (started \in Startups)'
    BY StartedKept DEF TypeOK
  <2>3. QED
    BY <2>1, <2>2 DEF Typing, TypeOK
<1>5. QED
  BY <1>3, <1>4, PTL DEF Spec
=============================================================================

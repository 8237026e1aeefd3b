--------------------------- MODULE PacketDelivery ---------------------------
(***************************************************************************)
(* What the receiving side of a PacketHandler promises to its application, *)
(* without slots, buffers or bitmaps: whole messages, one at a time, and   *)
(* no id again while one of the Window last deliveries had it.  It does    *)
(* not promise that every message arrives: a message may be abandoned, and *)
(* some ids are ignored at first, because the ring of handled ids starts   *)
(* with whatever its memory held.                                          *)
(***************************************************************************)
EXTENDS Integers, Sequences

CONSTANTS MessageIds,   \* packet ids
          Messages,     \* whole messages, records with a field id
          Window        \* deliveries an id is remembered for

VARIABLES
    delivered,   \* the messages handed to the application, in order
    receiving,   \* ids of which something but not everything has arrived
    ignored      \* ids taken for handled that never were

vars == <<delivered, receiving, ignored>>

Recent == { delivered[n].id : n \in { k \in DOMAIN delivered :
                                          k > Len(delivered) - Window } }

Init ==
    /\ delivered = << >>
    /\ receiving = {}
    /\ ignored \in SUBSET MessageIds

\* Something arrives of a message that is neither recent nor ignored.
Begin(id) ==
    /\ id \notin receiving \union Recent \union ignored
    /\ receiving' = receiving \union {id}
    /\ UNCHANGED <<delivered, ignored>>

\* The message is given up: too long without news, or no room for a revision.
Abandon(id) ==
    /\ id \in receiving
    /\ receiving' = receiving \ {id}
    /\ UNCHANGED <<delivered, ignored>>

\* The last missing piece arrives.  A delivery may end the time an id is ignored.
Deliver(m) ==
    /\ m.id \notin Recent \union ignored
    /\ delivered' = Append(delivered, m)
    /\ receiving' = receiving \ {m.id}
    /\ ignored' \in SUBSET ignored

Next ==
    \/ \E id \in MessageIds : Begin(id) \/ Abandon(id)
    \/ \E m \in Messages : Deliver(m)

Spec == Init /\ [][Next]_vars
=============================================================================

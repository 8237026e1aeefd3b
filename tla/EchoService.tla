----------------------------- MODULE EchoService ----------------------------
(***************************************************************************)
(* What the echo program promises to whoever types, without packets, ids,  *)
(* sections or datagrams: lines are sent in the order they are typed, the  *)
(* server is called with lines that were sent and the client with what the *)
(* server was called with, in any order and each at most once.  It does not*)
(* promise that a line is sent, served or printed.                         *)
(*                                                                         *)
(* A sender that has drawn an id a second time spoils this for contents    *)
(* longer than a section: they may be put together of several.             *)
(***************************************************************************)
EXTENDS Integers, Sequences

CONSTANTS Input,         \* the lines, in the order they are typed
          SectionSize    \* what one datagram carries

VARIABLES
    sent,       \* the numbers of the lines that were sent
    served,     \* what the server was called with, in order
    printed,    \* what the client was called with, in order
    reusing     \* who has drawn an id more than once

Elements(s) == { s[n] : n \in DOMAIN s }

Newest(s) == s[Len(s)]

\* There is one call more, and it is no repetition.
NewCall(before, after) ==
    /\ after # << >>
    /\ after = Append(before, Newest(after))
    /\ Newest(after) \notin Elements(before)

\* Contents that a sender cannot have spoilt.
Sound(data, sender) == Len(data) <= SectionSize \/ sender \notin reusing

Init ==
    /\ sent = {}
    /\ served = << >>
    /\ printed = << >>
    /\ reusing = {}

\* A line goes out; whether its id is new is not for the caller to see.
Send(l) ==
    /\ \A k \in sent : k < l
    /\ sent' = sent \union {l}
    /\ reusing' \in {reusing, reusing \union {"client"}}
    /\ UNCHANGED <<served, printed>>

\* The server is called, and sends back what it was called with if it can.
Serve ==
    /\ NewCall(served, served')
    /\ Sound(Newest(served'), "client") => \E l \in sent : Newest(served') = Input[l]
    /\ reusing' \in {reusing, reusing \union {"server"}}
    /\ UNCHANGED <<sent, printed>>

Show ==
    /\ NewCall(printed, printed')
    /\ Sound(Newest(printed'), "server") => Newest(printed') \in Elements(served)
    /\ UNCHANGED <<sent, served, reusing>>

Next == (\E l \in DOMAIN Input : Send(l)) \/ Serve \/ Show

vars == <<sent, served, printed, reusing>>

Spec == Init /\ [][Next]_vars
=============================================================================

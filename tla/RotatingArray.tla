---------------------------- MODULE RotatingArray ---------------------------
(***************************************************************************)
(* Utils/RotatingArray.h: a ring of RingSize values.  insert overwrites    *)
(* the element at m_Index; nothing is ever taken out.  The elements of a   *)
(* new array are not initialised: each may hold any value.                 *)
(***************************************************************************)
EXTENDS Integers

CONSTANT RingSize     \* number of elements (16 in PacketHandler.h)

ASSUME RotatingArrayAssumption == RingSize \in Nat \ {0}

Position == 0 .. RingSize - 1

RotatingArrays(Value) == [elems : [Position -> Value], index : Position]

\* m_Elements has no initialiser, m_Index starts at 0.
NewRotatingArrays(Value) == [elems : [Position -> Value], index : {0}]

\* Variants: the index stays; it runs past the end; one element is not looked at.
InsertInPlace(array, value) ==
    [array EXCEPT !.elems = [@ EXCEPT ![array.index] = value]]
InsertUnwrapped(array, value) ==
    [elems |-> [array.elems EXCEPT ![array.index] = value], index |-> array.index + 1]
ContainsButLast(array, value) ==
    \E k \in Position \ {RingSize - 1} : array.elems[k] = value

Insert(array, value) ==
    [elems |-> [array.elems EXCEPT ![array.index] = value],
     index |-> (array.index + 1) % RingSize]

Contains(array, value) == \E k \in Position : array.elems[k] = value
=============================================================================

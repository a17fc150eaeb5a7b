---------------------------- MODULE BoundedQueue ----------------------------
(***************************************************************************)
(* What the holding registers of the SSP UART promise to their users: a    *)
(* first-in first-out queue of at most Capacity words, written and read at *)
(* most once per clock, possibly both in the same clock, and emptied by a  *)
(* clear.  Nothing here mentions pointers, flags or memory.                *)
(***************************************************************************)
EXTENDS Naturals, Sequences

CONSTANTS Capacity,   \* the most words the queue holds
          Word        \* the words that can be stored

VARIABLE queue        \* the stored words, oldest first

Init == queue = << >>

Put(w) ==
    /\ Len(queue) < Capacity
    /\ queue' = Append(queue, w)

Get ==
    /\ queue # << >>
    /\ queue' = Tail(queue)

(* A read and a write accepted in one clock: the length stays as it was.   *)
PutGet(w) ==
    /\ queue # << >>
    /\ Len(queue) < Capacity
    /\ queue' = Append(Tail(queue), w)

Clear == queue' = << >>

Next ==
    \/ \E w \in Word : Put(w) \/ PutGet(w)
    \/ Get
    \/ Clear

Spec == Init /\ [][Next]_queue
=============================================================================

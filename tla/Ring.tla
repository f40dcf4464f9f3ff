-------------------------------- MODULE Ring --------------------------------
(***************************************************************************)
(* The circular buffers of the drivers (keyboard.c, hw/serial.c) and of    *)
(* the GUI (gui.c): an array, the place to put and the place to take.  One *)
(* cell stays empty, so that head = tail means empty.  A cell that nobody  *)
(* can read any more is kept at 0.                                         *)
(***************************************************************************)
EXTENDS Naturals, Sequences

CONSTANT RingSize  \* 256 in both drivers, MAX_QUEUE_EVENTS in the GUI

ASSUME RingAssumption == RingSize \in Nat \ {0}

EmptyRing == [cell |-> [i \in 0 .. RingSize - 1 |-> 0], head |-> 0, tail |-> 0]

\* Mutant: the index does not go around.
BadAfter(i) == i + 1

After(i) == (i + 1) % RingSize

RingIsEmpty(r) == r.head = r.tail
\* Mutant: the last place is used too, and a full ring looks empty.
BadRingIsFull(r) == FALSE

RingIsFull(r)  == After(r.head) = r.tail

\* A full ring drops what comes.
RingPush(r, c) ==
    IF RingIsFull(r) THEN r
    ELSE [r EXCEPT !.cell[r.head] = c, !.head = After(@)]

RingHead(r) == r.cell[r.tail]
RingPop(r)  == [r EXCEPT !.cell[r.tail] = 0, !.tail = After(@)]

\* What a reader will still get, in order.
RingCount(r) == (r.head + RingSize - r.tail) % RingSize
RingSeq(r) == [i \in 1 .. RingCount(r) |-> r.cell[(r.tail + i - 1) % RingSize]]
=============================================================================

--------------------------- MODULE CircularBuffer ---------------------------
(***************************************************************************)
(* The circular buffer of buffer.c, in which the com servers keep received *)
(* characters and the callers that wait for one.                           *)
(***************************************************************************)
EXTENDS Integers, Sequences

CONSTANTS
    Values,         \* what is kept: characters, or tids
    buffer_size

\* What the constants have to be.
BufferAssumption == buffer_size \in Nat \ {0}

Indices == 0 .. buffer_size - 1

VARIABLES
    buffer, front, back, current_size,
    pushed, popped  \* what the last call put in and returned, as sequences

vars == <<buffer, front, back, current_size, pushed, popped>>

\* The array holds whatever its place in memory held.
bufferInitial ==
    /\ buffer \in [Indices -> Values]
    /\ front = 0
    /\ back = 0
    /\ current_size = 0
    /\ pushed = << >>
    /\ popped = << >>

\* The assertion before a push.
\* (Mutant: off by one.)
HasPlaceOrIsFull == current_size <= buffer_size

HasPlace == current_size < buffer_size

Wrapped(i) == i % buffer_size

\* bufferPush and bufferPushChar.
bufferPush(value) ==
    /\ HasPlace
    /\ buffer' = [buffer EXCEPT ![back] = value]
    /\ back' = Wrapped(back + 1)
    /\ current_size' = current_size + 1
    /\ pushed' = <<value>>
    /\ popped' = << >>
    /\ UNCHANGED front

bufferPop ==
    /\ current_size > 0
    /\ popped' = <<buffer[front]>>
    /\ front' = Wrapped(front + 1)
    /\ current_size' = current_size - 1
    /\ pushed' = << >>
    /\ UNCHANGED <<buffer, back>>

Init == bufferInitial
Next == bufferPop \/ \E value \in Values : bufferPush(value)
Spec == Init /\ [][Next]_vars

-----------------------------------------------------------------------------
(* Properties                                                              *)

Contents == [i \in 1 .. current_size |-> buffer[Wrapped(front + i - 1)]]

\* Indices that wrap and a count kept beside them (buffer.c:28-29, 51-52) make
\* a queue: what is pushed is popped once, in order, whatever the array held.
Queue == INSTANCE Fifo WITH items <- Contents, in <- pushed, out <- popped

BufferIsFifo == Queue!Init /\ [][Queue!Next]_<<Contents, pushed, popped>>
=============================================================================

------------------------------- MODULE ByteFifo -------------------------------
(***************************************************************************)
(* What OSTLS_Read and OSTLS_Write promise of the bytes they move: a       *)
(* bounded queue.  A byte is its position in the stream, counted from 1,   *)
(* so that a lost, repeated or reordered byte shows.                       *)
(***************************************************************************)
EXTENDS ByteRuns

CONSTANT Capacity

VARIABLES
    queue,   (* the bytes accepted and not yet handed on                   *)
    taken,   (* how many have been handed on                               *)
    last     (* what the latest transfer handed on                         *)

fifoVars == <<queue, taken, last>>

FifoInit == queue = <<>> /\ taken = 0 /\ last = <<>>

(* The next n bytes of the stream are accepted ...                         *)
Put == \E n \in 1..(Capacity - Len(queue)) :
    /\ queue' = queue \o Run(taken + Len(queue), n)
    /\ UNCHANGED <<taken, last>>

(* ... and the oldest n handed on.                                         *)
Get == \E n \in 1..Len(queue) :
    /\ last' = SubSeq(queue, 1, n)
    /\ queue' = SubSeq(queue, n + 1, Len(queue))
    /\ taken' = taken + n

FifoSpec == FifoInit /\ [][Put \/ Get]_fifoVars

=============================================================================

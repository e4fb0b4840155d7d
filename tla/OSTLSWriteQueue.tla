--------------------------- MODULE OSTLSWriteQueue ---------------------------
(***************************************************************************)
(* The bytes between OSTLS_Write and the TLS layer (os9/ostls_async.c):    *)
(* the linear write buffer, moved to the front when there is something to  *)
(* move, and the two consumers that take from it, BearSSL's send buffer    *)
(* and the 1.3 record under construction.  A byte is its position in the   *)
(* caller's stream, counted from 1; 0 is cleared memory.                   *)
(***************************************************************************)
EXTENDS ByteMoves

CONSTANT BufSize     (* OSTLS_WRITE_BUF_SIZE                               *)

ASSUME QueueAssumption == BufSize \in Nat \ {0} /\ MaxBytes \in Nat

VARIABLES
    writeBuf,    (* write_buf                                              *)
    writePos,    (* write_pos                                              *)
    writeAvail,  (* write_avail                                            *)
    inFlight,    (* t13_send_off < t13_send_len                            *)
    written,     (* how many bytes OSTLS_Write has accepted                *)
    taken,       (* how many the TLS layer has taken                       *)
    record       (* what it took last                                      *)

queueVars == <<mode, writeBuf, writePos, writeAvail, inFlight, written, taken, record>>

Cells == 0..(BufSize - 1)

QueueInit ==
    /\ mode \in {"1.2", "1.3"}
    /\ writeBuf = [j \in Cells |-> 0] /\ writePos = 0 /\ writeAvail = 0
    /\ inFlight = FALSE
    /\ written = 0 /\ taken = 0 /\ record = <<>>

-----------------------------------------------------------------------------
(* OSTLS_Write.                                                            *)

(* Variant: the bytes left over from a short take stay where they are.     *)
NoCompaction == writeBuf

Compacted ==
    IF writePos > 0 /\ writeAvail > 0
    THEN Copy(writeBuf, 0, writeBuf, writePos, writeAvail)
    ELSE writeBuf

(* The position after the compaction.                                      *)
CompactedPos == IF writePos > 0 /\ writeAvail > 0 THEN 0 ELSE writePos

(* What fits is appended behind the bytes that wait, at write_avail: that  *)
(* is their end only because they start at 0.                              *)
Write ==
    /\ written < MaxBytes
    /\ \E len \in 1..(MaxBytes - written) :
         LET n == Least(len, BufSize - writeAvail) IN
           /\ writeBuf' = Copy(Compacted, writeAvail,
                               [i \in 0..(n - 1) |-> written + i + 1], 0, n)
           /\ writeAvail' = writeAvail + n
           /\ written' = written + n
    /\ writePos' = CompactedPos
    /\ UNCHANGED <<mode, inFlight, taken, record>>

-----------------------------------------------------------------------------
(* The TLS layer takes bytes.                                              *)

(* Variant: the position is kept when the queue runs empty.                *)
KeepPos(n) == writePos' = writePos + n

(* Past the bytes taken; back to the front when none is left.              *)
MovePos(n) == writePos' = IF n = writeAvail THEN 0 ELSE writePos + n

Take(n) ==
    /\ record' = [i \in 1..n |-> writeBuf[writePos + i - 1]]
    /\ MovePos(n)
    /\ writeAvail' = writeAvail - n
    /\ taken' = taken + n

(* pump_ring_to_bearssl_sendapp: as much as BearSSL has room for.          *)
SendApp12 ==
    /\ mode = "1.2" /\ writeAvail > 0
    /\ \E alen \in 1..BufSize : Take(Least(writeAvail, alen))
    /\ UNCHANGED <<mode, writeBuf, inFlight, written>>

(* pump_tls13_build_send: the whole queue becomes one record, unless one   *)
(* is in flight.  The chunk is cut at the size of the queue, which it      *)
(* never exceeds.                                                          *)
BuildSend13 ==
    /\ mode = "1.3" /\ writeAvail > 0 /\ ~inFlight
    /\ Take(Least(writeAvail, BufSize))
    /\ inFlight' = TRUE
    /\ UNCHANGED <<mode, writeBuf, written>>

(* pump_tls13_step: the last of the record went out.                       *)
RecordSent13 ==
    /\ mode = "1.3" /\ inFlight /\ inFlight' = FALSE
    /\ UNCHANGED <<mode, writeBuf, writePos, writeAvail, written, taken, record>>

QueueNext == Write \/ SendApp12 \/ BuildSend13 \/ RecordSent13

QueueSpec == QueueInit /\ [][QueueNext]_queueVars

-----------------------------------------------------------------------------
(* Properties.                                                             *)

(* The type invariant; the bytes that wait lie inside the array.           *)
QueueTypeOK ==
    /\ mode \in {"1.2", "1.3"}
    /\ writeBuf \in [Cells -> 0..MaxBytes]
    /\ writePos \in 0..BufSize /\ writeAvail \in 0..(BufSize - writePos)
    /\ inFlight \in BOOLEAN
    /\ written \in 0..MaxBytes /\ taken \in 0..written

(* The queue hands on the caller's bytes, each once and in order, whatever *)
(* was taken between two Writes and wherever the bytes left over lie.      *)
Waiting == [i \in 1..writeAvail |-> writeBuf[writePos + i - 1]]

QueueFifo == INSTANCE ByteFifo WITH
    Capacity <- BufSize, queue <- Waiting, taken <- taken, last <- record
QueueImplementsFifo == QueueFifo!FifoSpec

=============================================================================

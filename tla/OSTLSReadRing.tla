---------------------------- MODULE OSTLSReadRing ----------------------------
(***************************************************************************)
(* The bytes between the TLS layer and OSTLS_Read (os9/ostls_async.c): the *)
(* read ring of the connection and, for TLS 1.3, the plaintext of one      *)
(* record staged in the handshake context's plain_buf until the ring has   *)
(* room for it.  The arrays are modelled cell by cell; a byte is its       *)
(* position in the peer's stream, counted from 1, and 0 is cleared memory  *)
(* or a byte that is not the peer's application data.                      *)
(***************************************************************************)
EXTENDS ByteMoves

CONSTANTS
    RingSize,    (* OSTLS_READ_BUF_SIZE                                    *)
    PlainSize    (* sizeof plain_buf                                       *)

ASSUME RingAssumption ==
    RingSize \in Nat \ {0} /\ PlainSize \in Nat \ {0} /\ MaxBytes \in Nat

VARIABLES
    readBuf,    (* read_buf                                                *)
    readPos,    (* read_pos                                                *)
    readAvail,  (* read_avail                                              *)
    plainBuf,   (* hs13->plain_buf                                         *)
    plainOff,   (* t13_plain_off                                           *)
    plainLen,   (* t13_plain_len                                           *)
    decrypted,  (* how many bytes the TLS layer has handed over            *)
    read,       (* how many OSTLS_Read has returned                        *)
    out         (* the caller's buffer after the latest OSTLS_Read         *)

stageVars == <<plainBuf, plainOff, plainLen>>
ringVars == <<mode, readBuf, readPos, readAvail, stageVars, decrypted, read, out>>

RingCells  == 0..(RingSize - 1)
PlainCells == 0..(PlainSize - 1)

RingInit ==
    /\ mode \in {"1.2", "1.3"}
    /\ readBuf = [j \in RingCells |-> 0] /\ readPos = 0 /\ readAvail = 0
    /\ plainBuf = [j \in PlainCells |-> 0] /\ plainOff = 0 /\ plainLen = 0
    /\ decrypted = 0 /\ read = 0 /\ out = <<>>

-----------------------------------------------------------------------------
(* Filling the ring, up to its end; the rest goes in with the next step.   *)

WriteIdx == (readPos + readAvail) % RingSize

(* Variant: the room is what is free at the end, without looking at the    *)
(* bytes still unread there.                                               *)
RoomToEnd(n) == Least(n, RingSize - WriteIdx)

(* How many of n bytes the ring takes now.                                 *)
Room(n) == Least(n, Least(RingSize - WriteIdx, RingSize - readAvail))

Fill(src, from, n) ==
    /\ readBuf' = Copy(readBuf, WriteIdx, src, from, n)
    /\ readAvail' = readAvail + n

(* pump_bearssl_recvapp_to_ring: BearSSL holds alen bytes and keeps those  *)
(* that are not acknowledged.                                              *)
RecvApp12 ==
    /\ mode = "1.2" /\ readAvail < RingSize
    /\ \E alen \in 1..(MaxBytes - decrypted) :
         /\ Fill([i \in 0..(alen - 1) |-> decrypted + i + 1], 0, Room(alen))
         /\ decrypted' = decrypted + Room(alen)
    /\ UNCHANGED <<mode, readPos, stageVars, read, out>>

(* pump_tls13_deliver_plain, from a buffer staged up to len.               *)
Deliver(buf, off, len) ==
    IF off < len /\ readAvail < RingSize
    THEN Fill(buf, off, Room(len - off)) /\ plainOff' = off + Room(len - off)
    ELSE UNCHANGED <<readBuf, readAvail>> /\ plainOff' = off

(* The 1.3 step delivers what is staged before it decrypts again.          *)
DeliverStaged13 ==
    /\ mode = "1.3" /\ plainOff < plainLen
    /\ Deliver(plainBuf, plainOff, plainLen)
    /\ UNCHANGED <<mode, readPos, plainBuf, plainLen, decrypted, read, out>>

(* Variant: the next record is decrypted while the last is still staged.   *)
AnyTime == TRUE

MayDecrypt == plainOff >= plainLen

(* pump_tls13_consume_record, an application record of n bytes.            *)
ConsumeData13 ==
    /\ mode = "1.3" /\ MayDecrypt
    /\ \E n \in 0..Least(PlainSize, MaxBytes - decrypted) :
         LET filled == Copy(plainBuf, 0, [i \in 0..(n - 1) |-> decrypted + i + 1], 0, n) IN
           /\ plainBuf' = filled /\ plainLen' = n
           /\ Deliver(filled, 0, n)
           /\ decrypted' = decrypted + n
    /\ UNCHANGED <<mode, readPos, read, out>>

(* The same for a record that is not application data: it is decrypted     *)
(* into the same buffer.                                                   *)
ConsumeOther13 ==
    /\ mode = "1.3" /\ MayDecrypt
    /\ \E n \in 1..PlainSize :
         plainBuf' = Copy(plainBuf, 0, [i \in 0..(n - 1) |-> 0], 0, n)
    /\ UNCHANGED <<mode, readBuf, readPos, readAvail, plainOff, plainLen, decrypted,
                   read, out>>

-----------------------------------------------------------------------------
(* OSTLS_Read.                                                             *)

(* Variant: the second piece continues behind the end of the array.        *)
ReadUnwrapped(n) ==
    [i \in 1..n |-> IF readPos + i - 1 < RingSize THEN readBuf[readPos + i - 1] ELSE 0]

(* The n oldest bytes, in up to two pieces.                                *)
Unread(n) ==
    LET first == Least(RingSize - readPos, n) IN
    [i \in 1..n |-> IF i <= first THEN readBuf[readPos + i - 1] ELSE readBuf[i - first - 1]]

Read ==
    /\ readAvail > 0
    /\ \E cap \in 1..RingSize :
         LET n == Least(readAvail, cap) IN
           /\ out' = Unread(n)
           /\ readPos' = (readPos + n) % RingSize /\ readAvail' = readAvail - n
           /\ read' = read + n
    /\ UNCHANGED <<mode, readBuf, stageVars, decrypted>>

RingNext == RecvApp12 \/ DeliverStaged13 \/ ConsumeData13 \/ ConsumeOther13 \/ Read

RingSpec == RingInit /\ [][RingNext]_ringVars

-----------------------------------------------------------------------------
(* Properties.                                                             *)

(* The type invariant; readPos and readAvail index the array.              *)
RingTypeOK ==
    /\ mode \in {"1.2", "1.3"}
    /\ readBuf \in [RingCells -> 0..MaxBytes] /\ readPos \in RingCells
    /\ readAvail \in 0..RingSize
    /\ plainBuf \in [PlainCells -> 0..MaxBytes]
    /\ plainLen \in 0..PlainSize /\ plainOff \in 0..plainLen
    /\ decrypted \in 0..MaxBytes /\ read \in 0..MaxBytes

(* Every byte the TLS layer handed over is in exactly one place: read, in  *)
(* the ring, or staged in plain_buf, which no later record overwrites.     *)
StagedIntact ==
    /\ decrypted = read + readAvail + (plainLen - plainOff)
    /\ \A i \in plainOff..(plainLen - 1) : plainBuf[i] = read + readAvail + (i - plainOff) + 1

(* The ring is a queue of the peer's bytes: OSTLS_Read returns each once,  *)
(* in order, wherever the ring wraps.                                      *)
Contents == [i \in 1..readAvail |-> readBuf[(readPos + i - 1) % RingSize]]

RingFifo == INSTANCE ByteFifo WITH
    Capacity <- RingSize, queue <- Contents, taken <- read, last <- out
RingImplementsFifo == RingFifo!FifoSpec

=============================================================================

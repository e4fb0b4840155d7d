------------------------- MODULE OSTLSBuffers_proofs -------------------------
(***************************************************************************)
(* Proofs about OSTLSBuffers for every size of the ring, of plain_buf and  *)
(* of the queue.                                                           *)
(*                                                                         *)
(* The read ring's invariant is the place of every byte: the ring's cells  *)
(* hold the bytes after the last one read, plain_buf the ones after those. *)
(*                                                                         *)
(* OSTLS_Write copies to write_buf + write_avail, the end of the waiting   *)
(* bytes only when they start at 0; the queue's invariant says why they do:*)
(* whatever the TLS layer leaves is either nothing, and then write_pos is  *)
(* 0, or moved.                                                            *)
(***************************************************************************)
EXTENDS OSTLSBuffers, StreamLemmas

(* The read ring.                                                          *)

(* The cell of the i-th unread byte, counted from 0.                       *)
Cell(p, i) == (p + i) % RingSize

RingHolds == \A i \in 0..(readAvail - 1) : readBuf[Cell(readPos, i)] = read + i + 1

(* A 1.2 session stages nothing.                                           *)
NoStage12 == mode = "1.2" => plainLen = 0

RingInv == RingTypeOK /\ StagedIntact /\ RingHolds /\ NoStage12

USE RingAssumption

-----------------------------------------------------------------------------
(* The remainder, for the indexes that occur: at most one turn.            *)
LEMMA OneTurn ==
    ASSUME NEW a \in 0..(2 * RingSize - 1)
    PROVE  a % RingSize = IF a < RingSize THEN a ELSE a - RingSize
  BY SMT

LEMMA CellInRing ==
    ASSUME RingTypeOK, NEW i \in 0..RingSize
    PROVE  /\ Cell(readPos, i) = IF readPos + i < RingSize THEN readPos + i ELSE readPos + i - RingSize
           /\ Cell(readPos, i) \in RingCells
  <1>1. readPos \in 0..(RingSize - 1) BY DEF RingTypeOK, RingCells
  <1>2. readPos + i \in 0..(2 * RingSize - 1) BY <1>1
  <1>3. QED BY <1>1, <1>2, OneTurn DEF Cell, RingCells

(* Room(n) fits behind the unread bytes and before the array's end.        *)
LEMMA RoomFits ==
    ASSUME RingTypeOK, NEW n \in Nat
    PROVE  /\ WriteIdx = Cell(readPos, readAvail) /\ WriteIdx \in RingCells
           /\ Room(n) \in 0..n /\ Room(n) <= RingSize - readAvail
           /\ WriteIdx + Room(n) <= RingSize
  <1>1. readAvail \in 0..RingSize BY DEF RingTypeOK
  <1>2. WriteIdx = Cell(readPos, readAvail) /\ WriteIdx \in RingCells
    BY <1>1, CellInRing DEF WriteIdx, Cell
  <1>3. QED BY <1>1, <1>2 DEF Room, Least, RingCells

(* Appending the next k bytes of the stream, when they fit, leaves the     *)
(* ring holding the longer run.                                            *)
LEMMA AppendHolds ==
    ASSUME RingTypeOK, RingHolds, NEW src, NEW from \in Nat, NEW k \in Nat,
           k <= RingSize - readAvail, WriteIdx + k <= RingSize,
           \A i \in 0..(k - 1) : src[from + i] = read + readAvail + i + 1,
           read + readAvail + k <= MaxBytes,
           Fill(src, from, k), UNCHANGED <<readPos, read>>
    PROVE  /\ readBuf' \in [RingCells -> 0..MaxBytes]
           /\ readAvail' = readAvail + k /\ readAvail' \in 0..RingSize
           /\ RingHolds'
  <1> DEFINE w == WriteIdx
  <1>1. /\ readAvail \in 0..RingSize /\ readPos \in 0..(RingSize - 1)
        /\ readBuf \in [RingCells -> 0..MaxBytes] /\ read \in Nat
    BY DEF RingTypeOK, RingCells
  <1>2. w = Cell(readPos, readAvail) /\ w \in RingCells
    BY RoomFits, k \in Nat
  <1>3. readAvail' = readAvail + k /\ readAvail' \in 0..RingSize
    BY <1>1 DEF Fill
  <1>4. \A j \in RingCells : readBuf'[j] =
            IF j \in w..(w + k - 1) THEN read + readAvail + (j - w) + 1 ELSE readBuf[j]
    <2> SUFFICES ASSUME NEW j \in RingCells
                 PROVE  readBuf'[j] = IF j \in w..(w + k - 1)
                                      THEN read + readAvail + (j - w) + 1 ELSE readBuf[j]
      OBVIOUS
    <2>1. readBuf'[j] = IF j \in w..(w + k - 1) THEN src[from + j - w] ELSE readBuf[j]
      BY <1>1 DEF Fill, Copy
    <2>2. ASSUME j \in w..(w + k - 1)
          PROVE  src[from + j - w] = read + readAvail + (j - w) + 1
      <3>1. j - w \in 0..(k - 1) /\ from + j - w = from + (j - w)
        BY <1>2, <2>2 DEF RingCells
      <3>2. QED BY <3>1
    <2>3. QED BY <2>1, <2>2
  <1>5. DOMAIN readBuf' = RingCells /\ readBuf' = [j \in RingCells |-> readBuf'[j]]
    BY <1>1 DEF Fill, Copy
  <1>6. readBuf' \in [RingCells -> 0..MaxBytes]
    <2>1. ASSUME NEW j \in RingCells PROVE readBuf'[j] \in 0..MaxBytes
      <3>1. CASE j \in w..(w + k - 1)
        <4>1. w \in Int /\ j \in Int /\ readAvail \in Nat
          BY <1>1, <1>2 DEF RingCells
        <4>2. readBuf'[j] = read + readAvail + (j - w) + 1
          BY <1>4, <3>1
        <4>3. j - w \in 0..(k - 1)
          BY <3>1, <4>1
        <4>4. QED BY <1>1, <4>1, <4>2, <4>3, MaxBytes \in Nat, read + readAvail + k <= MaxBytes
      <3>2. CASE j \notin w..(w + k - 1)
        BY <1>1, <1>4, <3>2
      <3>3. QED BY <3>1, <3>2
    <2>2. QED BY <1>5, <2>1
  <1>7. RingHolds'
    <2> SUFFICES ASSUME NEW i \in 0..(readAvail + k - 1)
                 PROVE  readBuf'[Cell(readPos, i)] = read + i + 1
      BY <1>1, <1>3 DEF RingHolds
    <2>1. i \in 0..RingSize
      BY <1>1
    <2>2. /\ Cell(readPos, i) = IF readPos + i < RingSize THEN readPos + i ELSE readPos + i - RingSize
          /\ Cell(readPos, i) \in RingCells
      BY <2>1, CellInRing
    <2>3. w = IF readPos + readAvail < RingSize THEN readPos + readAvail
              ELSE readPos + readAvail - RingSize
      BY <1>1, <1>2, CellInRing
    <2>4. CASE i < readAvail
      <3>1. Cell(readPos, i) \notin w..(w + k - 1)
        BY <1>1, <2>2, <2>3, <2>4
      <3>2. readBuf[Cell(readPos, i)] = read + i + 1
        BY <1>1, <2>4 DEF RingHolds
      <3>3. QED BY <1>4, <2>2, <3>1, <3>2
    <2>5. CASE i >= readAvail
      <3>1. Cell(readPos, i) = w + (i - readAvail)
        BY <1>1, <2>2, <2>3, <2>5
      <3>2. w \in Int /\ Cell(readPos, i) \in w..(w + k - 1)
        <4>1. w \in Int /\ readAvail \in Int
          BY <1>1, <1>2 DEF RingCells
        <4>2. i - readAvail \in 0..(k - 1)
          BY <2>5, <4>1
        <4>3. QED BY <3>1, <4>1, <4>2
      <3>3. readBuf'[Cell(readPos, i)] = read + readAvail + (Cell(readPos, i) - w) + 1
        BY <1>4, <2>2, <3>2
      <3>4. QED BY <1>1, <3>1, <3>2, <3>3
    <2>6. readAvail \in Int /\ i \in Int
      BY <1>1
    <2>7. QED BY <2>4, <2>5, <2>6
  <1>8. QED BY <1>3, <1>6, <1>7

-----------------------------------------------------------------------------
(* The invariant holds initially ...                                       *)
LEMMA RingInitInv == RingInit => RingInv
  BY DEF RingInit, RingInv, RingTypeOK, StagedIntact, RingHolds, NoStage12, RingCells, PlainCells

(* ... BearSSL's bytes keep it ...                                         *)
LEMMA RecvApp12Inv == RingInv /\ RecvApp12 => RingInv'
  <1> SUFFICES ASSUME RingInv, RecvApp12 PROVE RingInv'
    OBVIOUS
  <1> USE DEF RingInv
  <1>1. PICK alen \in 1..(MaxBytes - decrypted) :
           /\ Fill([i \in 0..(alen - 1) |-> decrypted + i + 1], 0, Room(alen))
           /\ decrypted' = decrypted + Room(alen)
    BY DEF RecvApp12
  <1> DEFINE src == [i \in 0..(alen - 1) |-> decrypted + i + 1]
             k == Room(alen)
  <1>2. /\ mode = "1.2" /\ UNCHANGED <<mode, readPos, read, stageVars>>
        /\ UNCHANGED <<plainBuf, plainOff, plainLen>>
    BY DEF RecvApp12, stageVars
  <1>3. decrypted \in Nat /\ read \in Nat /\ readAvail \in Nat /\ decrypted = read + readAvail
    BY <1>2 DEF RingTypeOK, StagedIntact, NoStage12
  <1>4. alen \in Nat /\ alen <= MaxBytes - decrypted
    BY <1>1, <1>3
  <1>5. k \in 0..alen /\ k <= RingSize - readAvail /\ WriteIdx + k <= RingSize
    BY <1>4, RoomFits
  <1>6. \A i \in 0..(k - 1) : src[0 + i] = read + readAvail + i + 1
    BY <1>3, <1>4, <1>5
  <1>7. /\ readBuf' \in [RingCells -> 0..MaxBytes]
        /\ readAvail' = readAvail + k /\ readAvail' \in 0..RingSize /\ RingHolds'
    <2>1. k \in Nat /\ read + readAvail + k <= MaxBytes
      BY <1>3, <1>4, <1>5
    <2>2. Fill(src, 0, k)
      BY <1>1
    <2> HIDE DEF src, k
    <2>3. QED BY <1>2, <1>5, <1>6, <2>1, <2>2, AppendHolds
  <1>8. RingTypeOK'
    BY <1>1, <1>2, <1>3, <1>4, <1>5, <1>7 DEF RingTypeOK
  <1>9. StagedIntact' /\ NoStage12'
    <2>1. plainLen = 0 /\ plainOff = 0
      BY <1>2 DEF RingTypeOK, NoStage12
    <2>2. plainLen' = 0 /\ plainOff' = 0 /\ decrypted' = read' + readAvail'
      BY <1>1, <1>2, <1>3, <1>5, <1>7, <2>1
    <2>3. read' \in Nat /\ readAvail' \in Nat
      BY <1>2, <1>3, <1>7
    <2>4. QED BY <2>2, <2>3 DEF StagedIntact, NoStage12
  <1>10. QED BY <1>7, <1>8, <1>9

(* ... and so does a delivery from a staged buffer: it moves some k bytes. *)
LEMMA DeliverInv ==
    ASSUME RingTypeOK, RingHolds, NEW buf, NEW off \in Nat, NEW len \in Nat, off <= len,
           \A i \in off..(len - 1) : buf[i] = read + readAvail + (i - off) + 1,
           read + readAvail + (len - off) <= MaxBytes,
           Deliver(buf, off, len), UNCHANGED <<readPos, read>>
    PROVE  \E k \in 0..(len - off) :
              /\ plainOff' = off + k /\ readAvail' = readAvail + k
              /\ k <= RingSize - readAvail
              /\ readBuf' \in [RingCells -> 0..MaxBytes] /\ RingHolds'
  <1>1. readAvail \in Nat /\ readAvail <= RingSize /\ read \in Nat
    BY DEF RingTypeOK
  <1>2. CASE off < len /\ readAvail < RingSize
    <2> DEFINE k == Room(len - off)
    <2>1. Fill(buf, off, k) /\ plainOff' = off + k
      BY <1>2 DEF Deliver
    <2>2. k \in 0..(len - off) /\ k <= RingSize - readAvail /\ WriteIdx + k <= RingSize
      BY <1>2, RoomFits
    <2> HIDE DEF k
    <2>3. \A i \in 0..(k - 1) : buf[off + i] = read + readAvail + i + 1
      <3>1. TAKE i \in 0..(k - 1)
      <3>2. off + i \in off..(len - 1) /\ (off + i) - off = i
        BY <2>2
      <3>3. QED BY <3>2
    <2>4. k \in Nat /\ read + readAvail + k <= MaxBytes
      BY <1>1, <2>2
    <2>5. readBuf' \in [RingCells -> 0..MaxBytes] /\ readAvail' = readAvail + k /\ RingHolds'
      BY <2>1, <2>2, <2>3, <2>4, AppendHolds
    <2>6. QED BY <2>1, <2>2, <2>5
  <1>3. CASE ~(off < len /\ readAvail < RingSize)
    <2>1. UNCHANGED <<readBuf, readAvail>> /\ plainOff' = off
      BY <1>3 DEF Deliver
    <2>2. RingHolds' /\ readBuf' \in [RingCells -> 0..MaxBytes]
      BY <2>1 DEF RingHolds, RingTypeOK
    <2>3. /\ 0 \in 0..(len - off) /\ 0 <= RingSize - readAvail
          /\ off + 0 = off /\ readAvail + 0 = readAvail
      BY <1>1
    <2>4. QED BY <2>1, <2>2, <2>3
  <1>4. QED BY <1>2, <1>3

(* The rest of a staged record ...                                         *)
LEMMA DeliverStagedInv == RingInv /\ DeliverStaged13 => RingInv'
  <1> SUFFICES ASSUME RingInv, DeliverStaged13 PROVE RingInv'
    OBVIOUS
  <1> USE DEF RingInv
  <1>1. mode = "1.3" /\ Deliver(plainBuf, plainOff, plainLen)
    BY DEF DeliverStaged13
  <1>2. UNCHANGED <<mode, readPos, plainBuf, plainLen, decrypted, read, out>>
    BY DEF DeliverStaged13
  <1>3. /\ plainOff \in Nat /\ plainLen \in Nat /\ plainOff <= plainLen
        /\ read \in Nat /\ readAvail \in Nat /\ decrypted \in Nat /\ decrypted <= MaxBytes
    BY DEF RingTypeOK
  <1>4. \A i \in plainOff..(plainLen - 1) : plainBuf[i] = read + readAvail + (i - plainOff) + 1
    BY DEF StagedIntact
  <1>5. decrypted = read + readAvail + (plainLen - plainOff)
    BY DEF StagedIntact
  <1>6. PICK k \in 0..(plainLen - plainOff) :
           /\ plainOff' = plainOff + k /\ readAvail' = readAvail + k
           /\ k <= RingSize - readAvail
           /\ readBuf' \in [RingCells -> 0..MaxBytes] /\ RingHolds'
    <2>1. RingTypeOK /\ RingHolds /\ UNCHANGED <<readPos, read>>
      BY <1>2
    <2>2. plainOff \in Nat /\ plainLen \in Nat /\ plainOff <= plainLen
      BY <1>3
    <2>3. read + readAvail + (plainLen - plainOff) <= MaxBytes
      BY <1>3, <1>5
    <2>4. QED BY <1>1, <1>4, <2>1, <2>2, <2>3, DeliverInv, ZenonT(60)
  <1>7. plainOff' = plainOff + k /\ readAvail' = readAvail + k
    BY <1>6
  <1>8. plainOff + k \in 0..plainLen /\ readAvail + k \in 0..RingSize
    BY <1>3, <1>6
  <1>9. RingTypeOK'
    BY <1>2, <1>6, <1>8 DEF RingTypeOK
  <1>10. decrypted = read + (readAvail + k) + (plainLen - (plainOff + k))
    BY <1>3, <1>5
  <1>11. ASSUME NEW i \in (plainOff + k)..(plainLen - 1)
         PROVE  plainBuf[i] = read + (readAvail + k) + (i - (plainOff + k)) + 1
    <2>1. i \in plainOff..(plainLen - 1) /\ i \in Int
      BY <1>3
    <2>2. plainBuf[i] = read + readAvail + (i - plainOff) + 1
      BY <1>4, <2>1
    <2>3. QED BY <1>3, <2>1, <2>2
  <1>12. StagedIntact' /\ NoStage12'
    BY <1>1, <1>2, <1>7, <1>10, <1>11 DEF StagedIntact, NoStage12
  <1>13. QED BY <1>6, <1>9, <1>12

(* ... a new record, decrypted over a buffer that was delivered ...        *)
LEMMA ConsumeDataInv == RingInv /\ ConsumeData13 => RingInv'
  <1> SUFFICES ASSUME RingInv, ConsumeData13 PROVE RingInv'
    OBVIOUS
  <1> USE DEF RingInv
  <1> DEFINE Filled(n) == Copy(plainBuf, 0, [i \in 0..(n - 1) |-> decrypted + i + 1], 0, n)
  <1>1. mode = "1.3" /\ plainOff >= plainLen
    BY DEF ConsumeData13, MayDecrypt
  <1>2. UNCHANGED <<mode, readPos, read, out>>
    BY DEF ConsumeData13
  <1>3. PICK n \in 0..Least(PlainSize, MaxBytes - decrypted) :
           /\ plainBuf' = Filled(n) /\ plainLen' = n
           /\ Deliver(Filled(n), 0, n) /\ decrypted' = decrypted + n
    BY DEF ConsumeData13
  <1>4. /\ plainOff \in Nat /\ plainLen \in Nat /\ plainOff = plainLen
        /\ read \in Nat /\ readAvail \in Nat /\ decrypted \in Nat /\ decrypted <= MaxBytes
    BY <1>1 DEF RingTypeOK
  <1>5. decrypted = read + readAvail
    BY <1>4 DEF StagedIntact
  <1>6. n \in Nat /\ n <= PlainSize /\ n <= MaxBytes - decrypted
    BY <1>3, <1>4 DEF Least
  <1>7. /\ \A i \in 0..(n - 1) : Filled(n)[i] = decrypted + i + 1
        /\ Filled(n) \in [PlainCells -> 0..MaxBytes]
    <2>1. plainBuf \in [PlainCells -> 0..MaxBytes]
      BY DEF RingTypeOK
    <2>2. \A i \in 0..(n - 1) : Filled(n)[i] = decrypted + i + 1
      BY <1>4, <1>6, <2>1 DEF Copy, PlainCells
    <2>3. \A i \in PlainCells : Filled(n)[i] \in 0..MaxBytes
      BY <1>4, <1>6, <2>1 DEF Copy, PlainCells
    <2>4. Filled(n) = [i \in PlainCells |-> Filled(n)[i]]
      BY <2>1 DEF Copy
    <2> HIDE DEF Filled
    <2>5. QED BY <2>2, <2>3, <2>4
  <1> HIDE DEF Filled
  <1>8. \A i \in 0..(n - 1) : Filled(n)[i] = read + readAvail + (i - 0) + 1
    <2>1. TAKE i \in 0..(n - 1)
    <2>2. Filled(n)[i] = decrypted + i + 1
      BY <1>7
    <2>3. i \in Int /\ i - 0 = i
      BY <1>6
    <2>4. QED BY <1>5, <2>2, <2>3
  <1>9. read + readAvail + (n - 0) <= MaxBytes
    BY <1>4, <1>5, <1>6
  <1>10. PICK k \in 0..(n - 0) :
            /\ plainOff' = 0 + k /\ readAvail' = readAvail + k
            /\ k <= RingSize - readAvail
            /\ readBuf' \in [RingCells -> 0..MaxBytes] /\ RingHolds'
    <2>1. RingTypeOK /\ RingHolds /\ UNCHANGED <<readPos, read>>
      BY <1>2
    <2>2. 0 \in Nat /\ n \in Nat /\ 0 <= n /\ Deliver(Filled(n), 0, n)
      BY <1>3, <1>6
    <2>3. QED BY <1>8, <1>9, <2>1, <2>2, DeliverInv, Zenon
  <1>11. k \in Nat /\ k <= n /\ 0 + k = k
    BY <1>6
  <1>12. /\ plainOff' = k /\ readAvail' = readAvail + k
         /\ plainLen' = n /\ decrypted' = decrypted + n /\ plainBuf' = Filled(n)
    BY <1>3, <1>10, <1>11
  <1>13. /\ n \in 0..PlainSize /\ k \in 0..n
         /\ decrypted + n \in 0..MaxBytes /\ readAvail + k \in 0..RingSize
    BY <1>4, <1>6, <1>10, <1>11
  <1>14. RingTypeOK'
    BY <1>2, <1>7, <1>10, <1>12, <1>13 DEF RingTypeOK
  <1>15. decrypted + n = read + (readAvail + k) + (n - k)
    BY <1>4, <1>5, <1>6, <1>11
  <1>16. ASSUME NEW i \in k..(n - 1)
         PROVE  Filled(n)[i] = read + (readAvail + k) + (i - k) + 1
    <2>1. i \in 0..(n - 1) /\ i \in Int
      BY <1>6, <1>11
    <2>2. Filled(n)[i] = decrypted + i + 1
      BY <1>7, <2>1
    <2>3. QED BY <1>4, <1>5, <1>11, <2>1, <2>2
  <1>17. StagedIntact' /\ NoStage12'
    BY <1>1, <1>2, <1>12, <1>15, <1>16 DEF StagedIntact, NoStage12
  <1>18. QED BY <1>10, <1>14, <1>17

(* ... one that carries no application data ...                            *)
LEMMA ConsumeOtherInv == RingInv /\ ConsumeOther13 => RingInv'
  <1> SUFFICES ASSUME RingInv, ConsumeOther13 PROVE RingInv'
    OBVIOUS
  <1> USE DEF RingInv
  <1>1. /\ mode = "1.3" /\ plainOff >= plainLen
        /\ UNCHANGED <<mode, readBuf, readPos, readAvail, plainOff, plainLen,
                       decrypted, read, out>>
    BY DEF ConsumeOther13, MayDecrypt
  <1>2. PICK n \in 1..PlainSize :
           plainBuf' = Copy(plainBuf, 0, [i \in 0..(n - 1) |-> 0], 0, n)
    BY DEF ConsumeOther13
  <1>3. plainBuf' \in [PlainCells -> 0..MaxBytes]
    BY <1>2 DEF Copy, RingTypeOK, PlainCells
  <1>4. RingTypeOK'
    BY <1>1, <1>3 DEF RingTypeOK
  <1>5. StagedIntact'
    BY <1>1 DEF StagedIntact, RingTypeOK
  <1>6. RingHolds' /\ NoStage12'
    BY <1>1 DEF RingHolds, NoStage12
  <1>7. QED BY <1>4, <1>5, <1>6

(* ... and OSTLS_Read, which returns a run of the stream.                  *)
LEMMA OstlsReadInv ==
    ASSUME RingInv, Read
    PROVE  /\ RingInv'
           /\ \E n \in 1..readAvail : /\ out' = Run(read, n)
                                      /\ readAvail' = readAvail - n /\ read' = read + n
  <1> USE DEF RingInv
  <1>1. PICK cap \in 1..RingSize :
           LET n == Least(readAvail, cap) IN
           /\ out' = Unread(n) /\ readPos' = (readPos + n) % RingSize
           /\ readAvail' = readAvail - n /\ read' = read + n
    BY DEF Read
  <1> DEFINE n == Least(readAvail, cap)
  <1>2. /\ readAvail > 0
        /\ UNCHANGED <<mode, readBuf, decrypted, plainBuf, plainOff, plainLen>>
    BY DEF Read, stageVars
  <1>3. /\ readAvail \in 0..RingSize /\ read \in Nat /\ readPos \in 0..(RingSize - 1)
        /\ decrypted \in Nat /\ decrypted <= MaxBytes
        /\ plainOff \in Nat /\ plainLen \in Nat /\ plainOff <= plainLen
    BY DEF RingTypeOK, RingCells
  <1>4. n \in 1..readAvail
    BY <1>2, <1>3 DEF Least
  <1>5. /\ out' = Unread(n) /\ readPos' = Cell(readPos, n)
        /\ readAvail' = readAvail - n /\ read' = read + n
    BY <1>1 DEF Cell
  <1> HIDE DEF n
  <1>6. /\ readPos' = IF readPos + n < RingSize THEN readPos + n ELSE readPos + n - RingSize
        /\ readPos' \in RingCells
    BY <1>3, <1>4, <1>5, CellInRing
  <1>7. out' = Run(read, n)
    <2>1. ASSUME NEW i \in 1..n
          PROVE  Unread(n)[i] = read + i
      <3>1. i - 1 \in 0..(readAvail - 1) /\ i - 1 \in 0..RingSize
        BY <1>3, <1>4
      <3>2. readBuf[Cell(readPos, i - 1)] = read + i
        BY <1>3, <3>1 DEF RingHolds
      <3>3. Cell(readPos, i - 1) = IF readPos + (i - 1) < RingSize THEN readPos + (i - 1)
                                   ELSE readPos + (i - 1) - RingSize
        BY <3>1, CellInRing
      <3>4. Unread(n)[i] = readBuf[Cell(readPos, i - 1)]
        BY <1>3, <1>4, <3>3 DEF Unread, Least
      <3>5. QED BY <3>2, <3>4
    <2>2. Unread(n) = [i \in 1..n |-> Unread(n)[i]]
      BY DEF Unread
    <2>3. QED BY <1>5, <2>1, <2>2 DEF Run
  <1>8. RingHolds'
    <2> SUFFICES ASSUME NEW i \in 0..(readAvail - n - 1)
                 PROVE  readBuf[Cell(readPos', i)] = read + n + i + 1
      BY <1>2, <1>3, <1>4, <1>5 DEF RingHolds
    <2>1. n + i \in 0..(readAvail - 1) /\ n + i \in 0..RingSize
      BY <1>3, <1>4
    <2>2. readBuf[Cell(readPos, n + i)] = read + (n + i) + 1
      BY <2>1 DEF RingHolds
    <2>3. Cell(readPos, n + i) = IF readPos + (n + i) < RingSize THEN readPos + (n + i)
                                 ELSE readPos + (n + i) - RingSize
      BY <2>1, CellInRing
    <2>4. Cell(readPos', i) = Cell(readPos, n + i)
      <3> DEFINE p == IF readPos + n < RingSize THEN readPos + n ELSE readPos + n - RingSize
      <3>1. p \in 0..(RingSize - 1) /\ p + i \in 0..(2 * RingSize - 1)
        BY <1>3, <1>4
      <3>2. Cell(p, i) = IF p + i < RingSize THEN p + i ELSE p + i - RingSize
        <4> HIDE DEF p
        <4>1. QED BY <3>1, OneTurn DEF Cell
      <3>3. Cell(p, i) = Cell(readPos, n + i)
        BY <1>3, <1>4, <2>1, <2>3, <3>1, <3>2
      <3>4. readPos' = p
        BY <1>6
      <3>5. QED BY <3>3, <3>4
    <2>5. QED BY <1>3, <1>4, <2>2, <2>4
  <1>9. read + n <= MaxBytes /\ decrypted = (read + n) + (readAvail - n) + (plainLen - plainOff)
    BY <1>3, <1>4 DEF StagedIntact
  <1>10. RingTypeOK'
    BY <1>2, <1>3, <1>4, <1>5, <1>6, <1>9 DEF RingTypeOK
  <1>11. StagedIntact'
    <2>1. readAvail' + read' = readAvail + read
      BY <1>3, <1>4, <1>5
    <2>2. read' + readAvail' = read + readAvail
      BY <1>3, <1>4, <1>5
    <2>3. QED BY <1>2, <1>5, <1>9, <2>2 DEF StagedIntact
  <1>12. NoStage12'
    BY <1>2 DEF NoStage12
  <1>13. QED BY <1>4, <1>5, <1>7, <1>8, <1>10, <1>11, <1>12

-----------------------------------------------------------------------------
(* Every step keeps the invariant.                                         *)
LEMMA RingStepInv == RingInv /\ [RingNext]_ringVars => RingInv'
  <1> SUFFICES ASSUME RingInv, [RingNext]_ringVars PROVE RingInv'
    OBVIOUS
  <1>1. CASE RecvApp12
    BY <1>1, RecvApp12Inv
  <1>2. CASE DeliverStaged13
    BY <1>2, DeliverStagedInv
  <1>3. CASE ConsumeData13
    BY <1>3, ConsumeDataInv
  <1>4. CASE ConsumeOther13
    BY <1>4, ConsumeOtherInv
  <1>5. CASE Read
    BY <1>5, OstlsReadInv
  <1>6. CASE UNCHANGED ringVars
    BY <1>6 DEF ringVars, stageVars, RingInv, RingTypeOK, StagedIntact, RingHolds, NoStage12
  <1>7. QED BY <1>1, <1>2, <1>3, <1>4, <1>5, <1>6 DEF RingNext

(* The place of every byte, in every reachable state.                      *)
THEOREM RingInvariance == RingSpec => []RingInv
  <1>1. RingInit => RingInv
    BY RingInitInv
  <1>2. RingInv /\ [RingNext]_ringVars => RingInv'
    BY RingStepInv
  <1>3. QED BY <1>1, <1>2, PTL DEF RingSpec

(* Positions and lengths stay inside the arrays, for every size.           *)
THEOREM RingTypeCorrect == RingSpec => []RingTypeOK
  <1>1. RingInv => RingTypeOK
    BY DEF RingInv
  <1>2. QED BY <1>1, RingInvariance, PTL

(* No record overwrites bytes of the one before, and none is lost between  *)
(* plain_buf, the ring and the caller.                                     *)
THEOREM NothingLost == RingSpec => []StagedIntact
  <1>1. RingInv => StagedIntact
    BY DEF RingInv
  <1>2. QED BY <1>1, RingInvariance, PTL

-----------------------------------------------------------------------------
(* Under the invariant the contents of the ring are a run of the stream.   *)
LEMMA ContentsAre ==
    ASSUME RingTypeOK, RingHolds
    PROVE  Contents = Run(read, readAvail)
  <1>1. readAvail \in Nat /\ read \in Nat
    BY DEF RingTypeOK
  <1>2. ASSUME NEW i \in 1..readAvail
        PROVE  readBuf[(readPos + i - 1) % RingSize] = read + i
    <2>1. i - 1 \in 0..(readAvail - 1)
      BY <1>1
    <2>2. readBuf[(readPos + (i - 1)) % RingSize] = read + (i - 1) + 1
      BY <2>1 DEF RingHolds, Cell
    <2>3. readPos + (i - 1) = readPos + i - 1 /\ read + (i - 1) + 1 = read + i
      BY <1>1, <2>1 DEF RingTypeOK, RingCells
    <2>4. QED BY <2>2, <2>3
  <1>3. QED BY <1>2 DEF Contents, Run

(* Filling the ring by k bytes is a Put of the queue, or nothing.          *)
LEMMA FillPuts ==
    ASSUME RingTypeOK, RingHolds, (Contents = Run(read, readAvail))',
           NEW k \in Nat, k <= RingSize - readAvail,
           readAvail' = readAvail + k, read' = read, out' = out
    PROVE  [RingFifo!Put \/ RingFifo!Get]_RingFifo!fifoVars
  <1>1. readAvail \in Nat /\ read \in Nat
    BY DEF RingTypeOK
  <1>2. Contents = Run(read, readAvail) /\ Contents' = Run(read, readAvail + k)
    BY ContentsAre
  <1>3. CASE k = 0
    <2>1. Contents' = Contents
      BY <1>1, <1>2, <1>3
    <2>2. QED BY <2>1 DEF RingFifo!fifoVars
  <1>4. CASE k > 0
    <2>1. Len(Contents) = readAvail
      BY <1>1, <1>2, RunSeq
    <2>2. k \in 1..(RingSize - Len(Contents))
      BY <1>1, <1>4, <2>1
    <2>3. Contents' = Contents \o Run(read + Len(Contents), k)
      <3>1. Run(read, readAvail) \o Run(read + readAvail, k) = Run(read, readAvail + k)
        BY <1>1, RunAppend
      <3>2. QED BY <1>2, <2>1, <3>1
    <2>4. RingFifo!Put
      BY <2>2, <2>3 DEF RingFifo!Put, RingFifo!Run, Run
    <2>5. QED BY <2>4
  <1>5. QED BY <1>3, <1>4

(* OSTLS_Read is a Get of the queue.                                       *)
LEMMA ReadGets ==
    ASSUME RingInv, Read, (Contents = Run(read, readAvail))'
    PROVE  RingFifo!Get
  <1>1. PICK n \in 1..readAvail : /\ out' = Run(read, n)
                                  /\ readAvail' = readAvail - n /\ read' = read + n
    BY OstlsReadInv
  <1>2. readAvail \in Nat /\ read \in Nat
    BY DEF RingInv, RingTypeOK
  <1>3. Contents = Run(read, readAvail)
    BY ContentsAre DEF RingInv
  <1>4. Len(Contents) = readAvail
    BY <1>2, <1>3, RunSeq
  <1>5. /\ SubSeq(Contents, 1, n) = Run(read, n)
        /\ SubSeq(Contents, n + 1, readAvail) = Run(read + n, readAvail - n)
    BY <1>2, <1>3, RunCut
  <1>6. Contents' = Run(read + n, readAvail - n)
    BY <1>1
  <1>7. QED BY <1>1, <1>4, <1>5, <1>6 DEF RingFifo!Get

(* Whatever the TLS layer does, the ring grows by some k or stays.         *)
Grows == \E k \in 0..(RingSize - readAvail) : readAvail' = readAvail + k

LEMMA RoomGrows ==
    ASSUME RingTypeOK, NEW src, NEW from, NEW n \in Nat, Fill(src, from, Room(n))
    PROVE  Grows
  <1>1. Room(n) \in Nat /\ Room(n) <= RingSize - readAvail
    BY RoomFits
  <1>2. QED BY <1>1 DEF Fill, Grows, RingTypeOK

LEMMA StaysGrows ==
    ASSUME RingTypeOK, readAvail' = readAvail
    PROVE  Grows
  <1>1. 0 \in 0..(RingSize - readAvail) /\ readAvail + 0 = readAvail
    BY DEF RingTypeOK
  <1>2. QED BY <1>1 DEF Grows

LEMMA DeliverGrows ==
    ASSUME RingTypeOK, NEW buf, NEW off \in Nat, NEW len \in Nat, Deliver(buf, off, len)
    PROVE  Grows
  <1>1. CASE off < len /\ readAvail < RingSize
    <2>1. Fill(buf, off, Room(len - off)) /\ len - off \in Nat
      BY <1>1 DEF Deliver
    <2>2. QED BY <2>1, RoomGrows
  <1>2. CASE ~(off < len /\ readAvail < RingSize)
    <2>1. readAvail' = readAvail
      BY <1>2 DEF Deliver
    <2>2. QED BY <2>1, StaysGrows
  <1>3. QED BY <1>1, <1>2

LEMMA TlsGrows ==
    ASSUME RingTypeOK, RecvApp12 \/ DeliverStaged13 \/ ConsumeData13 \/ ConsumeOther13
    PROVE  Grows /\ read' = read /\ out' = out
  <1>1. read' = read /\ out' = out
    BY DEF RecvApp12, DeliverStaged13, ConsumeData13, ConsumeOther13
  <1>2. CASE RecvApp12
    <2>1. PICK alen \in 1..(MaxBytes - decrypted) :
             Fill([i \in 0..(alen - 1) |-> decrypted + i + 1], 0, Room(alen))
      BY <1>2 DEF RecvApp12
    <2>2. alen \in Nat
      BY DEF RingTypeOK
    <2>3. Grows
      BY <2>1, <2>2, RoomGrows
    <2>4. QED BY <1>1, <2>3
  <1>3. CASE DeliverStaged13
    <2>1. Deliver(plainBuf, plainOff, plainLen) /\ plainOff \in Nat /\ plainLen \in Nat
      BY <1>3 DEF DeliverStaged13, RingTypeOK
    <2>2. Grows
      BY <2>1, DeliverGrows
    <2>3. QED BY <1>1, <2>2
  <1>4. CASE ConsumeData13
    <2>1. PICK n \in 0..Least(PlainSize, MaxBytes - decrypted) :
             Deliver(Copy(plainBuf, 0, [i \in 0..(n - 1) |-> decrypted + i + 1], 0, n), 0, n)
      BY <1>4 DEF ConsumeData13
    <2>2. n \in Nat
      BY DEF RingTypeOK, Least
    <2>3. Grows
      BY <2>1, <2>2, DeliverGrows
    <2>4. QED BY <1>1, <2>3
  <1>5. CASE ConsumeOther13
    BY <1>1, <1>5, StaysGrows DEF ConsumeOther13
  <1>6. QED BY <1>2, <1>3, <1>4, <1>5

(* Every step of the ring is one of the queue, or none.                    *)
LEMMA RingStepFifo ==
    ASSUME RingInv, RingInv', [RingNext]_ringVars
    PROVE  [RingFifo!Put \/ RingFifo!Get]_RingFifo!fifoVars
  <1>1. (Contents = Run(read, readAvail))'
    BY ContentsAre, PTL DEF RingInv
  <1>2. RingTypeOK /\ RingHolds
    BY DEF RingInv
  <1>3. CASE Read
    BY <1>1, <1>3, ReadGets
  <1>4. CASE RecvApp12 \/ DeliverStaged13 \/ ConsumeData13 \/ ConsumeOther13
    <2>1. read' = read /\ out' = out /\ Grows
      BY <1>2, <1>4, TlsGrows
    <2>2. PICK k \in 0..(RingSize - readAvail) : readAvail' = readAvail + k
      BY <2>1 DEF Grows
    <2>3. k \in Nat /\ k <= RingSize - readAvail
      BY <1>2 DEF RingTypeOK
    <2>4. QED BY <1>1, <1>2, <2>1, <2>2, <2>3, FillPuts
  <1>5. CASE UNCHANGED ringVars
    BY <1>5 DEF ringVars, Contents, RingFifo!fifoVars
  <1>6. QED BY <1>3, <1>4, <1>5 DEF RingNext

(* OSTLS_Read hands the caller the peer's bytes, each once and in order:   *)
(* the ring implements the queue, for every size and every way the pieces  *)
(* fall.                                                                   *)
THEOREM RingIsFifo == RingSpec => RingImplementsFifo
  <1>1. RingInit => RingFifo!FifoInit
    <2> SUFFICES ASSUME RingInit PROVE RingFifo!FifoInit
      OBVIOUS
    <2>1. Contents = <<>>
      BY DEF RingInit, Contents
    <2>2. QED BY <2>1 DEF RingInit, RingFifo!FifoInit
  <1>2. RingInv /\ RingInv' /\ [RingNext]_ringVars => [RingFifo!Put \/ RingFifo!Get]_RingFifo!fifoVars
    BY RingStepFifo
  <1>3. QED BY <1>1, <1>2, RingInvariance, PTL DEF RingSpec, RingImplementsFifo, RingFifo!FifoSpec

-----------------------------------------------------------------------------
(* The write queue.                                                        *)

(* The waiting bytes are the ones after the last one taken ...             *)
QueueHolds == \A i \in 0..(writeAvail - 1) : writeBuf[writePos + i] = taken + i + 1

(* ... all that were written, at the front when there are none.            *)
Counted == written = taken + writeAvail /\ (writeAvail = 0 => writePos = 0)

QueueInv == QueueTypeOK /\ QueueHolds /\ Counted

USE QueueAssumption

-----------------------------------------------------------------------------
(* The numbers of the queue, as naturals.                                  *)
LEMMA Numbers ==
    ASSUME QueueTypeOK
    PROVE  /\ writePos \in Nat /\ writeAvail \in Nat /\ writePos + writeAvail <= BufSize
           /\ written \in Nat /\ taken \in Nat /\ written <= MaxBytes /\ taken <= written
  BY DEF QueueTypeOK

(* After the compaction the waiting bytes start at 0.                      *)
LEMMA CompactedHolds ==
    ASSUME QueueInv
    PROVE  /\ Compacted \in [Cells -> 0..MaxBytes] /\ CompactedPos = 0
           /\ \A i \in 0..(writeAvail - 1) : Compacted[i] = taken + i + 1
  <1>1. /\ writePos \in Nat /\ writeAvail \in Nat /\ writePos + writeAvail <= BufSize
        /\ writeBuf \in [Cells -> 0..MaxBytes]
    BY Numbers DEF QueueInv, QueueTypeOK
  <1>2. \A i \in 0..(writeAvail - 1) : writeBuf[writePos + i] = taken + i + 1
    BY DEF QueueInv, QueueHolds
  <1>3. CASE writePos > 0 /\ writeAvail > 0
    <2>1. Compacted = Copy(writeBuf, 0, writeBuf, writePos, writeAvail) /\ CompactedPos = 0
      BY <1>3 DEF Compacted, CompactedPos
    <2>2. ASSUME NEW i \in 0..(writeAvail - 1)
          PROVE  Compacted[i] = taken + i + 1
      <3>1. i \in Cells /\ i \in 0..(0 + writeAvail - 1) /\ writePos + i - 0 = writePos + i
        BY <1>1 DEF Cells
      <3>2. Compacted[i] = writeBuf[writePos + i]
        BY <1>1, <2>1, <3>1 DEF Copy
      <3>3. QED BY <1>2, <3>2
    <2>3. Compacted \in [Cells -> 0..MaxBytes]
      BY <1>1, <2>1 DEF Copy, Cells
    <2>4. QED BY <2>1, <2>2, <2>3
  <1>4. CASE ~(writePos > 0 /\ writeAvail > 0)
    <2>1. Compacted = writeBuf /\ CompactedPos = writePos /\ writePos = 0
      BY <1>1, <1>4 DEF Compacted, CompactedPos, QueueInv, Counted
    <2>2. \A i \in 0..(writeAvail - 1) : writePos + i = i
      BY <1>1, <2>1
    <2>3. QED BY <1>1, <1>2, <2>1, <2>2
  <1>5. QED BY <1>3, <1>4

-----------------------------------------------------------------------------
(* The invariant holds initially ...                                       *)
LEMMA QueueInitInv == QueueInit => QueueInv
  <1> SUFFICES ASSUME QueueInit PROVE QueueInv
    OBVIOUS
  <1>1. 0 \in 0..BufSize /\ BufSize - 0 = BufSize /\ 0 \in 0..MaxBytes /\ 0 \in 0..0
    OBVIOUS
  <1>2. QueueTypeOK
    BY <1>1 DEF QueueInit, QueueTypeOK
  <1>3. QueueHolds /\ Counted
    BY DEF QueueInit, QueueHolds, Counted
  <1>4. QED BY <1>2, <1>3 DEF QueueInv

(* ... OSTLS_Write appends the next bytes of the caller's stream ...       *)
LEMMA OstlsWriteInv ==
    ASSUME QueueInv, Write
    PROVE  /\ QueueInv'
           /\ \E n \in 0..(BufSize - writeAvail) :
                 writeAvail' = writeAvail + n /\ taken' = taken /\ record' = record
  <1>1. PICK len \in 1..(MaxBytes - written) :
           LET n == Least(len, BufSize - writeAvail) IN
           /\ writeBuf' = Copy(Compacted, writeAvail,
                               [i \in 0..(n - 1) |-> written + i + 1], 0, n)
           /\ writeAvail' = writeAvail + n
           /\ written' = written + n
    BY DEF Write
  <1> DEFINE n == Least(len, BufSize - writeAvail)
             src == [i \in 0..(n - 1) |-> written + i + 1]
  <1>2. writePos' = CompactedPos /\ UNCHANGED <<mode, inFlight, taken, record>>
    BY DEF Write
  <1>3. /\ writePos \in Nat /\ writeAvail \in Nat /\ writePos + writeAvail <= BufSize
        /\ written \in Nat /\ taken \in Nat /\ written <= MaxBytes /\ taken <= written
        /\ written = taken + writeAvail
    BY Numbers DEF QueueInv, Counted
  <1>4. len \in Nat /\ len <= MaxBytes - written
    BY <1>3
  <1>5. n \in Nat /\ n <= len /\ n <= BufSize - writeAvail
    BY <1>3, <1>4 DEF Least
  <1>6. \A i \in 0..(n - 1) : src[i] = written + i + 1
    OBVIOUS
  <1>7. /\ writeBuf' = Copy(Compacted, writeAvail, src, 0, n)
        /\ writeAvail' = writeAvail + n /\ written' = written + n
    BY <1>1
  <1> HIDE DEF n, src
  <1>8. /\ Compacted \in [Cells -> 0..MaxBytes] /\ writePos' = 0
        /\ \A i \in 0..(writeAvail - 1) : Compacted[i] = taken + i + 1
    BY <1>2, CompactedHolds
  <1> DEFINE buf == Copy(Compacted, writeAvail, src, 0, n)
  <1>9. \A j \in Cells :
           buf[j] = IF j \in writeAvail..(writeAvail + n - 1) THEN written + (j - writeAvail) + 1
                    ELSE Compacted[j]
    <2> SUFFICES ASSUME NEW j \in Cells
                 PROVE  buf[j] = IF j \in writeAvail..(writeAvail + n - 1)
                                 THEN written + (j - writeAvail) + 1 ELSE Compacted[j]
      OBVIOUS
    <2>1. buf[j] = IF j \in writeAvail..(writeAvail + n - 1) THEN src[0 + j - writeAvail]
                   ELSE Compacted[j]
      BY <1>8 DEF Copy
    <2>2. j \in Int
      BY DEF Cells
    <2>3. ASSUME j \in writeAvail..(writeAvail + n - 1)
          PROVE  src[0 + j - writeAvail] = written + (j - writeAvail) + 1
      <3>1. 0 + j - writeAvail = j - writeAvail /\ j - writeAvail \in 0..(n - 1)
        BY <1>3, <1>5, <2>2, <2>3
      <3>2. QED BY <1>6, <3>1
    <2>4. QED BY <2>1, <2>3
  <1>10. buf \in [Cells -> 0..MaxBytes]
    <2>1. buf = [j \in Cells |-> buf[j]]
      BY <1>8 DEF Copy
    <2> HIDE DEF buf
    <2>2. ASSUME NEW j \in Cells PROVE buf[j] \in 0..MaxBytes
      <3>1. CASE j \in writeAvail..(writeAvail + n - 1)
        <4>1. j - writeAvail \in 0..(n - 1) /\ written + n <= MaxBytes
          BY <1>3, <1>4, <1>5, <3>1
        <4>2. QED BY <1>3, <1>5, <1>9, <3>1, <4>1
      <3>2. CASE j \notin writeAvail..(writeAvail + n - 1)
        BY <1>8, <1>9, <3>2
      <3>3. QED BY <3>1, <3>2
    <2>3. QED BY <2>1, <2>2
  <1>11. ASSUME NEW i \in 0..(writeAvail + n - 1)
         PROVE  buf[0 + i] = taken + i + 1
    <2>1. i \in Cells /\ i \in Int /\ 0 + i = i
      BY <1>3, <1>5 DEF Cells
    <2>2. CASE i < writeAvail
      <3>1. i \notin writeAvail..(writeAvail + n - 1) /\ i \in 0..(writeAvail - 1)
        BY <1>3, <1>5, <2>1, <2>2
      <3>2. QED BY <1>8, <1>9, <2>1, <3>1
    <2>3. CASE i >= writeAvail
      <3>1. i \in writeAvail..(writeAvail + n - 1)
        BY <1>3, <1>5, <2>1, <2>3
      <3>2. buf[i] = written + (i - writeAvail) + 1
        BY <1>9, <2>1, <3>1
      <3>3. QED BY <1>3, <2>1, <3>2
    <2>4. QED BY <1>3, <2>1, <2>2, <2>3
  <1>12. writeBuf' = buf
    BY <1>7
  <1> HIDE DEF buf
  <1>13. QueueHolds'
    <2>1. writePos' = 0 /\ writeAvail' = writeAvail + n /\ taken' = taken
      BY <1>2, <1>7, <1>8
    <2>2. QED BY <1>3, <1>5, <1>11, <1>12, <2>1 DEF QueueHolds
  <1>14. /\ written + n = taken + (writeAvail + n)
         /\ writeAvail + n \in 0..BufSize /\ BufSize - 0 = BufSize
         /\ written + n \in 0..MaxBytes /\ taken \in 0..(written + n) /\ 0 \in 0..BufSize
    BY <1>3, <1>4, <1>5
  <1>15. QueueTypeOK'
    BY <1>2, <1>7, <1>8, <1>10, <1>12, <1>14 DEF QueueInv, QueueTypeOK
  <1>16. Counted'
    BY <1>2, <1>7, <1>8, <1>14 DEF Counted
  <1>17. n \in 0..(BufSize - writeAvail)
    BY <1>3, <1>5
  <1>18. QED BY <1>2, <1>7, <1>13, <1>15, <1>16, <1>17 DEF QueueInv

(* ... and the TLS layer takes a run of it.                                *)
LEMMA TakeInv ==
    ASSUME QueueInv, NEW n \in 1..writeAvail, Take(n),
           inFlight' \in BOOLEAN, UNCHANGED <<mode, writeBuf, written>>
    PROVE  /\ QueueInv'
           /\ record' = Run(taken, n) /\ writeAvail' = writeAvail - n /\ taken' = taken + n
  <1>1. /\ writePos \in Nat /\ writeAvail \in Nat /\ writePos + writeAvail <= BufSize
        /\ written \in Nat /\ taken \in Nat /\ written <= MaxBytes /\ taken <= written
        /\ written = taken + writeAvail
    BY Numbers DEF QueueInv, Counted
  <1>2. n \in Nat /\ n >= 1 /\ n <= writeAvail
    BY <1>1
  <1>3. /\ record' = [i \in 1..n |-> writeBuf[writePos + i - 1]]
        /\ writePos' = (IF n = writeAvail THEN 0 ELSE writePos + n)
        /\ writeAvail' = writeAvail - n /\ taken' = taken + n
    BY DEF Take, MovePos
  <1>4. \A i \in 0..(writeAvail - 1) : writeBuf[writePos + i] = taken + i + 1
    BY DEF QueueInv, QueueHolds
  <1>5. record' = Run(taken, n)
    <2>1. ASSUME NEW i \in 1..n PROVE writeBuf[writePos + i - 1] = taken + i
      <3>1. i - 1 \in 0..(writeAvail - 1) /\ writePos + (i - 1) = writePos + i - 1
        BY <1>1, <1>2
      <3>2. writeBuf[writePos + (i - 1)] = taken + (i - 1) + 1
        BY <1>4, <3>1
      <3>3. taken + (i - 1) + 1 = taken + i
        BY <1>1, <1>2
      <3>4. QED BY <3>1, <3>2, <3>3
    <2>2. QED BY <1>3, <2>1 DEF Run
  <1>6. CASE n = writeAvail
    <2>1. writePos' = 0 /\ writeAvail' = 0 /\ taken' = taken + n
      BY <1>1, <1>3, <1>6
    <2>2. /\ 0 \in 0..BufSize /\ 0 \in 0..(BufSize - 0)
          /\ taken + n \in 0..written /\ written = (taken + n) + 0
      BY <1>1, <1>2, <1>6
    <2>3. QueueTypeOK'
      BY <2>1, <2>2 DEF QueueInv, QueueTypeOK
    <2>4. QueueHolds' /\ Counted'
      BY <2>1, <2>2 DEF QueueHolds, Counted
    <2>5. QED BY <1>3, <1>5, <2>3, <2>4 DEF QueueInv
  <1>7. CASE n # writeAvail
    <2>1. writePos' = writePos + n /\ writeAvail' = writeAvail - n /\ taken' = taken + n
      BY <1>3, <1>7
    <2>2. /\ writePos + n \in 0..BufSize /\ writeAvail - n \in 0..(BufSize - (writePos + n))
          /\ taken + n \in 0..written /\ written = (taken + n) + (writeAvail - n)
          /\ writeAvail - n # 0
      BY <1>1, <1>2, <1>7
    <2>3. QueueTypeOK'
      BY <2>1, <2>2 DEF QueueInv, QueueTypeOK
    <2>4. ASSUME NEW i \in 0..(writeAvail - n - 1)
          PROVE  writeBuf[(writePos + n) + i] = (taken + n) + i + 1
      <3>1. n + i \in 0..(writeAvail - 1) /\ writePos + (n + i) = (writePos + n) + i
        BY <1>1, <1>2
      <3>2. writeBuf[writePos + (n + i)] = taken + (n + i) + 1
        BY <1>4, <3>1
      <3>3. taken + (n + i) + 1 = (taken + n) + i + 1
        BY <1>1, <1>2
      <3>4. QED BY <3>1, <3>2, <3>3
    <2>5. QueueHolds'
      BY <2>1, <2>4 DEF QueueHolds
    <2>6. Counted'
      BY <2>1, <2>2 DEF Counted
    <2>7. QED BY <1>3, <1>5, <2>3, <2>5, <2>6 DEF QueueInv
  <1>8. QED BY <1>6, <1>7

LEMMA SendApp12Takes ==
    ASSUME QueueInv, SendApp12
    PROVE  \E n \in 1..writeAvail : Take(n)
  <1>1. PICK alen \in 1..BufSize : Take(Least(writeAvail, alen))
    BY DEF SendApp12
  <1>2. writeAvail > 0 /\ writeAvail \in Nat
    BY Numbers DEF QueueInv, SendApp12
  <1>3. Least(writeAvail, alen) \in 1..writeAvail
    BY <1>2 DEF Least
  <1>4. QED BY <1>1, <1>3

LEMMA BuildSend13Takes ==
    ASSUME QueueInv, BuildSend13
    PROVE  \E n \in 1..writeAvail : Take(n)
  <1>1. Take(Least(writeAvail, BufSize)) /\ writeAvail > 0
    BY DEF BuildSend13
  <1>2. writeAvail \in Nat
    BY Numbers DEF QueueInv
  <1>3. Least(writeAvail, BufSize) \in 1..writeAvail
    BY <1>1, <1>2 DEF Least
  <1>4. QED BY <1>1, <1>3

(* Every step keeps the invariant; what the TLS layer takes is a run.      *)
LEMMA TakerInv ==
    ASSUME QueueInv, SendApp12 \/ BuildSend13
    PROVE  /\ QueueInv'
           /\ \E n \in 1..writeAvail : /\ record' = Run(taken, n)
                                       /\ writeAvail' = writeAvail - n /\ taken' = taken + n
  <1>1. UNCHANGED <<mode, writeBuf, written>> /\ inFlight' \in BOOLEAN
    BY DEF SendApp12, BuildSend13, QueueInv, QueueTypeOK
  <1>2. PICK n \in 1..writeAvail : Take(n)
    BY SendApp12Takes, BuildSend13Takes
  <1>3. QED BY <1>1, <1>2, TakeInv

LEMMA QueueStepInv == QueueInv /\ [QueueNext]_queueVars => QueueInv'
  <1> SUFFICES ASSUME QueueInv, [QueueNext]_queueVars PROVE QueueInv'
    OBVIOUS
  <1>1. CASE Write
    BY <1>1, OstlsWriteInv
  <1>2. CASE SendApp12 \/ BuildSend13
    BY <1>2, TakerInv
  <1>3. CASE RecordSent13
    BY <1>3 DEF RecordSent13, QueueInv, QueueTypeOK, QueueHolds, Counted
  <1>4. CASE UNCHANGED queueVars
    BY <1>4 DEF queueVars, QueueInv, QueueTypeOK, QueueHolds, Counted
  <1>5. QED BY <1>1, <1>2, <1>3, <1>4 DEF QueueNext

(* The waiting bytes lie inside write_buf, for every size.                 *)
THEOREM QueueTypeCorrect == QueueSpec => []QueueTypeOK
  <1>1. QueueInit => QueueInv
    BY QueueInitInv
  <1>2. QueueInv /\ [QueueNext]_queueVars => QueueInv'
    BY QueueStepInv
  <1>3. QueueInv => QueueTypeOK
    BY DEF QueueInv
  <1>4. QED BY <1>1, <1>2, <1>3, PTL DEF QueueSpec

-----------------------------------------------------------------------------
(* Under the invariant the waiting bytes are a run of the stream.          *)
LEMMA WaitingAre ==
    ASSUME QueueInv
    PROVE  Waiting = Run(taken, writeAvail)
  <1>1. writePos \in Nat /\ writeAvail \in Nat /\ taken \in Nat
    BY Numbers DEF QueueInv
  <1>2. ASSUME NEW i \in 1..writeAvail
        PROVE  writeBuf[writePos + i - 1] = taken + i
    <2>1. i - 1 \in 0..(writeAvail - 1) /\ writePos + (i - 1) = writePos + i - 1
      BY <1>1
    <2>2. writeBuf[writePos + (i - 1)] = taken + (i - 1) + 1
      BY <2>1 DEF QueueInv, QueueHolds
    <2>3. taken + (i - 1) + 1 = taken + i
      BY <1>1
    <2>4. QED BY <2>1, <2>2, <2>3
  <1>3. QED BY <1>2 DEF Waiting, Run

(* OSTLS_Write is a Put of the queue, or nothing when it is full.          *)
LEMMA WritePuts ==
    ASSUME QueueInv, Write, (Waiting = Run(taken, writeAvail))'
    PROVE  [QueueFifo!Put \/ QueueFifo!Get]_QueueFifo!fifoVars
  <1>1. PICK n \in 0..(BufSize - writeAvail) :
           writeAvail' = writeAvail + n /\ taken' = taken /\ record' = record
    BY OstlsWriteInv
  <1>2. writeAvail \in Nat /\ taken \in Nat
    BY Numbers DEF QueueInv
  <1>3. Waiting = Run(taken, writeAvail) /\ Waiting' = Run(taken, writeAvail + n)
    BY <1>1, WaitingAre
  <1>4. CASE n = 0
    <2>1. Waiting' = Waiting
      BY <1>2, <1>3, <1>4
    <2>2. QED BY <1>1, <2>1 DEF QueueFifo!fifoVars
  <1>5. CASE n # 0
    <2>1. Len(Waiting) = writeAvail
      BY <1>2, <1>3, RunSeq
    <2>2. n \in 1..(BufSize - Len(Waiting))
      BY <1>2, <1>5, <2>1
    <2>3. Waiting' = Waiting \o Run(taken + Len(Waiting), n)
      <3>1. n \in Nat
        BY <1>2
      <3>2. Run(taken, writeAvail) \o Run(taken + writeAvail, n) = Run(taken, writeAvail + n)
        BY <1>2, <3>1, RunAppend
      <3>3. QED BY <1>3, <2>1, <3>2
    <2>4. QueueFifo!Put
      BY <1>1, <2>2, <2>3 DEF QueueFifo!Put, QueueFifo!Run, Run
    <2>5. QED BY <2>4
  <1>6. QED BY <1>4, <1>5

(* What the TLS layer takes is a Get.                                      *)
LEMMA TakerGets ==
    ASSUME QueueInv, SendApp12 \/ BuildSend13, (Waiting = Run(taken, writeAvail))'
    PROVE  QueueFifo!Get
  <1>1. PICK n \in 1..writeAvail : /\ record' = Run(taken, n)
                                   /\ writeAvail' = writeAvail - n /\ taken' = taken + n
    BY TakerInv
  <1>2. writeAvail \in Nat /\ taken \in Nat
    BY Numbers DEF QueueInv
  <1>3. Waiting = Run(taken, writeAvail)
    BY WaitingAre
  <1>4. Len(Waiting) = writeAvail
    BY <1>2, <1>3, RunSeq
  <1>5. /\ SubSeq(Waiting, 1, n) = Run(taken, n)
        /\ SubSeq(Waiting, n + 1, writeAvail) = Run(taken + n, writeAvail - n)
    BY <1>2, <1>3, RunCut
  <1>6. Waiting' = Run(taken + n, writeAvail - n)
    BY <1>1
  <1>7. QED BY <1>1, <1>4, <1>5, <1>6 DEF QueueFifo!Get

(* Every step of the write queue is one of the queue, or none.             *)
LEMMA QueueStepFifo ==
    ASSUME QueueInv, QueueInv', [QueueNext]_queueVars
    PROVE  [QueueFifo!Put \/ QueueFifo!Get]_QueueFifo!fifoVars
  <1>1. (Waiting = Run(taken, writeAvail))'
    BY WaitingAre, PTL
  <1>2. CASE Write
    BY <1>1, <1>2, WritePuts
  <1>3. CASE SendApp12 \/ BuildSend13
    BY <1>1, <1>3, TakerGets
  <1>4. CASE RecordSent13
    BY <1>4 DEF RecordSent13, Waiting, QueueFifo!fifoVars
  <1>5. CASE UNCHANGED queueVars
    BY <1>5 DEF queueVars, Waiting, QueueFifo!fifoVars
  <1>6. QED BY <1>2, <1>3, <1>4, <1>5 DEF QueueNext

(* The TLS layer is handed the caller's bytes, each once and in order,     *)
(* however short its takes and whatever OSTLS_Write had to move.           *)
THEOREM QueueIsFifo == QueueSpec => QueueImplementsFifo
  <1>1. QueueInit => QueueFifo!FifoInit
    <2> SUFFICES ASSUME QueueInit PROVE QueueFifo!FifoInit
      OBVIOUS
    <2>1. Waiting = <<>>
      BY DEF QueueInit, Waiting
    <2>2. QED BY <2>1 DEF QueueInit, QueueFifo!FifoInit
  <1>2. QueueInit => QueueInv
    BY QueueInitInv
  <1>3. QueueInv /\ [QueueNext]_queueVars => QueueInv'
    BY QueueStepInv
  <1>4. QueueInv /\ QueueInv' /\ [QueueNext]_queueVars => [QueueFifo!Put \/ QueueFifo!Get]_QueueFifo!fifoVars
    BY QueueStepFifo
  <1>5. QED BY <1>1, <1>2, <1>3, <1>4, PTL DEF QueueSpec, QueueImplementsFifo, QueueFifo!FifoSpec

-----------------------------------------------------------------------------
(* The two side by side: a step of one direction leaves the other alone, so*)
(* whatever was shown of the ring and of the queue holds of the pair.      *)
THEOREM SideBySide == Spec => RingSpec /\ QueueSpec
  <1>1. Init => RingInit /\ QueueInit
    BY DEF Init
  <1>2. [Next]_<<ringVars, queueVars>> => [RingNext]_ringVars
    <2>1. QueueNext => UNCHANGED mode
      BY DEF QueueNext, Write, SendApp12, BuildSend13, RecordSent13
    <2> QED BY <2>1 DEF Next, ringVars, queueVars, stageVars
  <1>3. [Next]_<<ringVars, queueVars>> => [QueueNext]_queueVars
    <2>1. RingNext => UNCHANGED mode
      BY DEF RingNext, RecvApp12, DeliverStaged13, ConsumeData13, ConsumeOther13, Read
    <2> QED BY <2>1 DEF Next, ringVars, queueVars, stageVars
  <1> QED BY <1>1, <1>2, <1>3, PTL DEF Spec, RingSpec, QueueSpec

=============================================================================

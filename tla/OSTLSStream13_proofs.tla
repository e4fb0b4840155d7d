------------------------ MODULE OSTLSStream13_proofs ------------------------
(***************************************************************************)
(* Proofs about OSTLSStream13 for every size of the header, the records and*)
(* the buffers, every bound and every amount OTSnd takes: the counts stay  *)
(* inside their buffers, no byte OSTLS_Write accepted is lost or sent      *)
(* twice, and Closed leaves no plaintext staged and nothing unread.        *)
(***************************************************************************)
EXTENDS OSTLSStream13, StreamLemmas

Record == [kind : Kinds, n : 0..MaxData, key : 0..MaxRecords]
Places == {"app", "top", "flush", "flow", "sndrel", "records", "nodata", "rcvrel", "end"}

(* The type invariant in four pieces.                                      *)
Marks ==
    /\ state \in {"Open", "Closing"} \cup Terminal
    /\ pc \in Places /\ event \in Events
    /\ ot \in {"dataxfer", "outrel", "inrel", "idle"}

Flags ==
    /\ closeReq \in BOOLEAN
    /\ peerClosed \in BOOLEAN /\ ordConsumed \in BOOLEAN /\ discConsumed \in BOOLEAN
    /\ nfOrd \in BOOLEAN /\ nfDisc \in BOOLEAN /\ wantWrite \in BOOLEAN
    /\ ordInd \in BOOLEAN /\ discInd \in BOOLEAN /\ goOwed \in BOOLEAN
    /\ peerDone \in BOOLEAN /\ truncated \in BOOLEAN /\ cached \in BOOLEAN

(* The key of the next record is at most the number of records sent.       *)
Counts ==
    /\ readAvail \in 0..RingSize /\ writeAvail \in 0..QueueSize
    /\ room \in 0..SendRoom /\ queued \in Nat /\ transit \in Nat
    /\ sent \in 0..MaxRecords /\ accepted \in 0..MaxWrite
    /\ recvLen \in 0..IoSize /\ staged \in 0..MaxData
    /\ flight \in 0..QueueSize /\ unsent \in 0..(HeaderSize + QueueSize)
    /\ wired \in 0..MaxWrite
    /\ peerKey \in 0..sent

Stream == records \in Seq(Record)

(* A Pump that is under way works on a session that is not over: whatever  *)
(* ends the session also returns.  Without it a step could move Failed to  *)
(* Closed over plaintext that is still staged.                             *)
InPump == pc # "app" => state \notin Terminal

IInv == Marks /\ Flags /\ Counts /\ Stream /\ InPump /\ WrittenOnce /\ NothingStranded

(* The groups of variables are expanded in every step below.               *)
USE DEF endVars, indVars, flowVars, netVars, callerVars, ownVars, inVars, plainVars, outVars

-----------------------------------------------------------------------------
(* The sizes, as natural numbers.                                          *)
LEMMA Sizes ==
    /\ HeaderSize \in Nat /\ HeaderSize > 0 /\ MaxData \in Nat /\ RingSize \in Nat
    /\ QueueSize \in Nat /\ SendRoom \in Nat /\ SendRoom > 0
    /\ MaxRecords \in Nat /\ MaxWrite \in Nat
    /\ IoSize \in Nat /\ IoSize >= HeaderSize + MaxData
  <1>1. HeaderSize \in Nat \ {0} /\ MaxData \in Nat \ {0} /\ RingSize \in Nat \ {0}
    BY PathAssumption, Zenon
  <1>2. QueueSize \in Nat \ {0} /\ SendRoom \in Nat \ {0}
    BY PathAssumption, Zenon
  <1>3. MaxRecords \in Nat /\ MaxWrite \in Nat
    BY PathAssumption, Zenon
  <1> QED BY <1>1, <1>2, <1>3, StreamAssumption

(* What takes the release and the disconnect leaves BOOLEANs.              *)
LEMMA ReleaseTypes ==
    ASSUME Flags, TakeRelease
    PROVE  peerClosed' \in BOOLEAN /\ ordConsumed' \in BOOLEAN /\ discConsumed' \in BOOLEAN
           /\ ordInd' \in BOOLEAN /\ discInd' \in BOOLEAN
  <1>1. CASE ordConsumed
    BY <1>1, Zenon DEF Flags, TakeRelease
  <1>2. CASE ~ordConsumed
    BY <1>2, Zenon DEF Flags, TakeRelease
  <1> QED BY <1>1, <1>2

LEMMA DisconnectTypes ==
    ASSUME Flags, TakeDisconnect
    PROVE  peerClosed' \in BOOLEAN /\ ordConsumed' \in BOOLEAN /\ discConsumed' \in BOOLEAN
           /\ ordInd' \in BOOLEAN /\ discInd' \in BOOLEAN
  <1>1. CASE discConsumed
    BY <1>1, Zenon DEF Flags, TakeDisconnect
  <1>2. CASE ~discConsumed
    BY <1>2, Zenon DEF Flags, TakeDisconnect
  <1> QED BY <1>1, <1>2

(* The first record, and what is left of the stream without it.            *)
LEMMA HeadAndTail ==
    ASSUME Stream, records # <<>>
    PROVE  /\ Head(records) \in Record /\ Tail(records) \in Seq(Record)
           /\ Head(records).n \in 0..MaxData /\ Head(records).kind \in Kinds
  <1>1. Head(records) \in Record /\ Tail(records) \in Seq(Record)
    BY HeadTailProperties DEF Stream
  <1> QED BY <1>1 DEF Record

(* What Deliver leaves staged and in the ring.                             *)
LEMMA DeliverBounds ==
    ASSUME Counts, NEW p \in 0..MaxData, Deliver(p)
    PROVE  staged' \in 0..MaxData /\ readAvail' \in 0..RingSize
  BY Sizes DEF Counts, Deliver, Least

LEMMA InitInv == Init => IInv
  <1> SUFFICES ASSUME Init PROVE IInv
    OBVIOUS
  <1>1. Flags
    BY DEF Init, PathInit, Flags
  <1>2. Marks
    BY DEF Init, PathInit, Marks, Places, Events, Terminal
  <1>3. Counts
    BY Sizes DEF Init, PathInit, Counts
  <1>4. Stream
    BY DEF Init, PathInit, Stream
  <1>5. InPump /\ NothingStranded
    BY DEF Init, PathInit, InPump, NothingStranded, Terminal
  <1>6. WrittenOnce
    BY DEF Init, PathInit, WrittenOnce
  <1> QED BY <1>1, <1>2, <1>3, <1>4, <1>5, <1>6 DEF IInv

(* Outside a step of the program nothing moves.                            *)
LEMMA StutterInv == IInv /\ UNCHANGED vars => IInv'
  <1> SUFFICES ASSUME IInv, UNCHANGED vars PROVE IInv'
    OBVIOUS
  <1>1. Flags' /\ Marks'
    BY DEF IInv, Flags, Marks, vars, pathVars
  <1>2. Counts'
    BY DEF IInv, Counts, vars, pathVars
  <1>3. Stream' /\ InPump' /\ NothingStranded'
    BY DEF IInv, Stream, InPump, NothingStranded, vars, pathVars
  <1>4. WrittenOnce'
    BY DEF IInv, WrittenOnce, vars, pathVars
  <1> QED BY <1>1, <1>2, <1>3, <1>4 DEF IInv

-----------------------------------------------------------------------------
(* The peer, the network and the caller.                                   *)

LEMMA PeerSends13Inv == IInv /\ PeerSends13 => IInv'
  <1> SUFFICES ASSUME IInv, PeerSends13 PROVE IInv'
    OBVIOUS
  <1> PICK k \in Kinds, n \in 0..MaxData :
        /\ PeerSends([kind |-> k, n |-> n, key |-> peerKey])
        /\ peerKey' = IF k \in {"update", "ticketUpdate"} THEN peerKey + 1 ELSE peerKey
        /\ UNCHANGED <<recvLen, staged, flight, unsent, cached, wired>>
    BY DEF PeerSends13
  <1> DEFINE r == [kind |-> k, n |-> n, key |-> peerKey]
  <1>0. r \in Record /\ Size(r) \in Nat
    BY Sizes DEF IInv, Counts, Record, Size
  <1>1. Flags'
    BY DEF IInv, Flags, PeerSends, NetworkOnly
  <1>2. Marks'
    BY DEF IInv, Marks, Places, Events, Terminal, PeerSends, NetworkOnly
  <1>3. Counts'
    <2>1. sent' \in 0..MaxRecords /\ sent' = sent + 1
      BY Sizes DEF IInv, Counts, PeerSends
    <2>2. transit' \in Nat
      BY <1>0 DEF IInv, Counts, PeerSends
    <2>3. peerKey' \in 0..sent'
      BY <2>1, Sizes DEF IInv, Counts
    <2> HIDE DEF r
    <2> QED BY <2>1, <2>2, <2>3 DEF IInv, Counts, PeerSends, NetworkOnly
  <1>4. Stream'
    <2> HIDE DEF r
    <2>1. records' = Append(records, r)
      BY DEF PeerSends, r
    <2>2. Append(records, r) \in Seq(Record)
      BY <1>0, AppendProperties DEF IInv, Stream
    <2> QED BY <2>1, <2>2 DEF Stream
  <1>5. InPump' /\ NothingStranded'
    BY DEF IInv, InPump, NothingStranded, PeerSends, NetworkOnly
  <1>6. WrittenOnce'
    BY DEF IInv, WrittenOnce, PeerSends, NetworkOnly
  <1> QED BY <1>1, <1>2, <1>3, <1>4, <1>5, <1>6 DEF IInv

LEMMA CloseInv == IInv /\ Close => IInv'
  <1> SUFFICES ASSUME IInv, Close PROVE IInv'
    OBVIOUS
  <1>1. Flags'
    BY DEF IInv, Flags, Close, AfterSndRelease
  <1>2. Marks'
    BY DEF IInv, Marks, Places, Events, Terminal, Bump, Rank, Close, AfterSndRelease
  <1>3. Counts'
    BY Sizes DEF IInv, Counts, Close, AfterSndRelease
  <1>4. Stream'
    BY DEF IInv, Stream, Close, AfterSndRelease
  <1>5. InPump' /\ NothingStranded'
    BY Sizes DEF IInv, Counts, InPump, NothingStranded, Terminal, Close, AfterSndRelease
  <1>6. WrittenOnce'
    BY Sizes DEF IInv, Counts, WrittenOnce, Close, AfterSndRelease
  <1> QED BY <1>1, <1>2, <1>3, <1>4, <1>5, <1>6 DEF IInv

LEMMA ArriveInv == IInv /\ Arrive /\ UNCHANGED ownVars => IInv'
  <1> SUFFICES ASSUME IInv, Arrive /\ UNCHANGED ownVars PROVE IInv'
    OBVIOUS
  <1>1. Flags'
    BY DEF IInv, Flags, Arrive, NetworkOnly
  <1>2. Marks'
    BY DEF IInv, Marks, Places, Events, Terminal, Bump, Rank, Arrive, NetworkOnly
  <1>3. Counts'
    BY Sizes DEF IInv, Counts, Arrive, NetworkOnly
  <1>4. Stream'
    BY DEF IInv, Stream, Arrive, NetworkOnly
  <1>5. InPump' /\ NothingStranded'
    BY Sizes DEF IInv, Counts, InPump, NothingStranded, Terminal, Arrive, NetworkOnly
  <1>6. WrittenOnce'
    BY Sizes DEF IInv, Counts, WrittenOnce, Arrive, NetworkOnly
  <1> QED BY <1>1, <1>2, <1>3, <1>4, <1>5, <1>6 DEF IInv

LEMMA PeerDiesInv == IInv /\ PeerDies /\ UNCHANGED ownVars => IInv'
  <1> SUFFICES ASSUME IInv, PeerDies /\ UNCHANGED ownVars PROVE IInv'
    OBVIOUS
  <1>1. Flags'
    BY DEF IInv, Flags, PeerDies, NetworkOnly
  <1>2. Marks'
    BY DEF IInv, Marks, Places, Events, Terminal, Bump, Rank, PeerDies, NetworkOnly
  <1>3. Counts'
    BY Sizes DEF IInv, Counts, PeerDies, NetworkOnly
  <1>4. Stream'
    BY DEF IInv, Stream, PeerDies, NetworkOnly
  <1>5. InPump' /\ NothingStranded'
    BY Sizes DEF IInv, Counts, InPump, NothingStranded, Terminal, PeerDies, NetworkOnly
  <1>6. WrittenOnce'
    BY Sizes DEF IInv, Counts, WrittenOnce, PeerDies, NetworkOnly
  <1> QED BY <1>1, <1>2, <1>3, <1>4, <1>5, <1>6 DEF IInv

LEMMA PeerReleaseInv == IInv /\ PeerRelease /\ UNCHANGED ownVars => IInv'
  <1> SUFFICES ASSUME IInv, PeerRelease /\ UNCHANGED ownVars PROVE IInv'
    OBVIOUS
  <1>1. Flags'
    BY DEF IInv, Flags, PeerRelease, NetworkOnly
  <1>2. Marks'
    BY DEF IInv, Marks, Places, Events, Terminal, Bump, Rank, PeerRelease, NetworkOnly
  <1>3. Counts'
    BY Sizes DEF IInv, Counts, PeerRelease, NetworkOnly
  <1>4. Stream'
    BY DEF IInv, Stream, PeerRelease, NetworkOnly
  <1>5. InPump' /\ NothingStranded'
    BY Sizes DEF IInv, Counts, InPump, NothingStranded, Terminal, PeerRelease,
       NetworkOnly
  <1>6. WrittenOnce'
    BY Sizes DEF IInv, Counts, WrittenOnce, PeerRelease, NetworkOnly
  <1> QED BY <1>1, <1>2, <1>3, <1>4, <1>5, <1>6 DEF IInv

LEMMA PeerAbortInv == IInv /\ PeerAbort /\ UNCHANGED ownVars => IInv'
  <1> SUFFICES ASSUME IInv, PeerAbort /\ UNCHANGED ownVars PROVE IInv'
    OBVIOUS
  <1>1. Flags'
    BY DEF IInv, Flags, PeerAbort, NetworkOnly
  <1>2. Marks'
    BY DEF IInv, Marks, Places, Events, Terminal, Bump, Rank, PeerAbort, NetworkOnly
  <1>3. Counts'
    BY Sizes DEF IInv, Counts, PeerAbort, NetworkOnly
  <1>4. Stream'
    BY DEF IInv, Stream, PeerAbort, NetworkOnly
  <1>5. InPump' /\ NothingStranded'
    BY Sizes DEF IInv, Counts, InPump, NothingStranded, Terminal, PeerAbort, NetworkOnly
  <1>6. WrittenOnce'
    BY Sizes DEF IInv, Counts, WrittenOnce, PeerAbort, NetworkOnly
  <1> QED BY <1>1, <1>2, <1>3, <1>4, <1>5, <1>6 DEF IInv

LEMMA SendDrainsInv == IInv /\ SendDrains /\ UNCHANGED ownVars => IInv'
  <1> SUFFICES ASSUME IInv, SendDrains /\ UNCHANGED ownVars PROVE IInv'
    OBVIOUS
  <1>1. Flags'
    BY DEF IInv, Flags, SendDrains, NetworkOnly
  <1>2. Marks'
    BY DEF IInv, Marks, Places, Events, Terminal, Bump, Rank, SendDrains, NetworkOnly
  <1>3. Counts'
    BY Sizes DEF IInv, Counts, SendDrains, NetworkOnly
  <1>4. Stream'
    BY DEF IInv, Stream, SendDrains, NetworkOnly
  <1>5. InPump' /\ NothingStranded'
    BY Sizes DEF IInv, Counts, InPump, NothingStranded, Terminal, SendDrains,
       NetworkOnly
  <1>6. WrittenOnce'
    BY Sizes DEF IInv, Counts, WrittenOnce, SendDrains, NetworkOnly
  <1> QED BY <1>1, <1>2, <1>3, <1>4, <1>5, <1>6 DEF IInv

LEMMA WriteInv == IInv /\ Write /\ UNCHANGED ownVars => IInv'
  <1> SUFFICES ASSUME IInv, Write /\ UNCHANGED ownVars PROVE IInv'
    OBVIOUS
  <1>1. Flags'
    BY DEF IInv, Flags, Write
  <1>2. Marks'
    BY DEF IInv, Marks, Places, Events, Terminal, Bump, Rank, Write
  <1>3. Counts'
    <2>1. PICK n \in 1..Least(MaxWrite - accepted, QueueSize - writeAvail) :
           writeAvail' = writeAvail + n /\ accepted' = accepted + n
      BY DEF Write
    <2>2. n \in Nat /\ n <= MaxWrite - accepted /\ n <= QueueSize - writeAvail
      BY <2>1, Sizes DEF IInv, Counts, Least
    <2>3. writeAvail' \in 0..QueueSize /\ accepted' \in 0..MaxWrite
      BY <2>1, <2>2, Sizes DEF IInv, Counts
    <2> QED BY <2>3 DEF IInv, Counts, Write
  <1>4. Stream'
    BY DEF IInv, Stream, Write
  <1>5. InPump' /\ NothingStranded'
    BY Sizes DEF IInv, Counts, InPump, NothingStranded, Terminal, Write
  <1>6. WrittenOnce'
    BY Sizes DEF IInv, Counts, WrittenOnce, Write, Least
  <1> QED BY <1>1, <1>2, <1>3, <1>4, <1>5, <1>6 DEF IInv

LEMMA ReadInv == IInv /\ Read /\ UNCHANGED ownVars => IInv'
  <1> SUFFICES ASSUME IInv, Read /\ UNCHANGED ownVars PROVE IInv'
    OBVIOUS
  <1>1. Flags'
    BY DEF IInv, Flags, Read
  <1>2. Marks'
    BY DEF IInv, Marks, Places, Events, Terminal, Bump, Rank, Read
  <1>3. Counts'
    BY Sizes DEF IInv, Counts, Read
  <1>4. Stream'
    BY DEF IInv, Stream, Read
  <1>5. InPump' /\ NothingStranded'
    BY Sizes DEF IInv, Counts, InPump, NothingStranded, Terminal, Read
  <1>6. WrittenOnce'
    BY Sizes DEF IInv, Counts, WrittenOnce, Read
  <1> QED BY <1>1, <1>2, <1>3, <1>4, <1>5, <1>6 DEF IInv

-----------------------------------------------------------------------------
(* OSTLS_Pump.                                                             *)

LEMMA PumpBeginInv == IInv /\ PumpBegin /\ UNCHANGED ownVars => IInv'
  <1> SUFFICES ASSUME IInv, PumpBegin /\ UNCHANGED ownVars PROVE IInv'
    OBVIOUS
  <1>1. Flags'
    BY DEF IInv, Flags, PumpBegin, PumpOnly
  <1>2. Marks'
    BY DEF IInv, Marks, Places, Events, Terminal, Bump, Rank, PumpBegin, PumpOnly
  <1>3. Counts'
    BY Sizes DEF IInv, Counts, PumpBegin, PumpOnly
  <1>4. Stream'
    BY DEF IInv, Stream, PumpBegin, PumpOnly
  <1>5. InPump' /\ NothingStranded'
    BY Sizes DEF IInv, Counts, InPump, NothingStranded, Terminal, PumpBegin, PumpOnly
  <1>6. WrittenOnce'
    BY Sizes DEF IInv, Counts, WrittenOnce, PumpBegin, PumpOnly
  <1> QED BY <1>1, <1>2, <1>3, <1>4, <1>5, <1>6 DEF IInv

LEMMA TopInv == IInv /\ Top("flush") /\ UNCHANGED ownVars => IInv'
  <1> SUFFICES ASSUME IInv, Top("flush") /\ UNCHANGED ownVars PROVE IInv'
    OBVIOUS
  <1>1. Flags'
    <2>1. CASE nfDisc /\ ~discConsumed
      <3>1. TakeDisconnect
        BY <2>1 DEF Top
      <3> QED BY <3>1, DisconnectTypes DEF IInv, Flags, Top, PumpOnly
    <2>2. CASE ~(nfDisc /\ ~discConsumed)
      BY <2>2 DEF IInv, Flags, Top, PumpOnly
    <2> QED BY <2>1, <2>2
  <1>2. Marks'
    BY DEF IInv, Marks, Places, Events, Terminal, Bump, Rank, Top, TakeDisconnect,
       FailLoudly, Return, Goto, PumpOnly
  <1>3. Counts'
    BY Sizes DEF IInv, Counts, Top, TakeDisconnect, FailLoudly, Return, Goto, PumpOnly
  <1>4. Stream'
    BY DEF IInv, Stream, Top, TakeDisconnect, FailLoudly, Return, Goto, PumpOnly
  <1>5. InPump' /\ NothingStranded'
    BY Sizes DEF IInv, Counts, InPump, NothingStranded, Terminal, Top, TakeDisconnect,
       FailLoudly, Return, Goto, PumpOnly
  <1>6. WrittenOnce'
    BY Sizes DEF IInv, Counts, WrittenOnce, Top, TakeDisconnect, FailLoudly, Return,
       Goto, PumpOnly
  <1> QED BY <1>1, <1>2, <1>3, <1>4, <1>5, <1>6 DEF IInv

LEMMA FlushNothingInv == IInv /\ FlushNothing => IInv'
  <1> SUFFICES ASSUME IInv, FlushNothing PROVE IInv'
    OBVIOUS
  <1>1. Flags'
    BY DEF IInv, Flags, FlushNothing, FlushRest, Goto, StepOnly, PumpOnly
  <1>2. Marks'
    BY DEF IInv, Marks, Places, Events, Terminal, Bump, Rank, FlushNothing, FlushRest,
       Goto, StepOnly, PumpOnly
  <1>3. Counts'
    BY Sizes DEF IInv, Counts, FlushNothing, FlushRest, Goto, StepOnly, PumpOnly
  <1>4. Stream'
    BY DEF IInv, Stream, FlushNothing, FlushRest, Goto, StepOnly, PumpOnly
  <1>5. InPump' /\ NothingStranded'
    BY Sizes DEF IInv, Counts, InPump, NothingStranded, Terminal, FlushNothing,
       FlushRest, Goto, StepOnly, PumpOnly
  <1>6. WrittenOnce'
    BY Sizes DEF IInv, Counts, WrittenOnce, FlushNothing, FlushRest, Goto, StepOnly,
       PumpOnly
  <1> QED BY <1>1, <1>2, <1>3, <1>4, <1>5, <1>6 DEF IInv

LEMMA FlushSomeInv == IInv /\ FlushSome => IInv'
  <1> SUFFICES ASSUME IInv, FlushSome PROVE IInv'
    OBVIOUS
  <1>0. wired + flight \in 0..MaxWrite
    BY Sizes DEF IInv, Counts, WrittenOnce
  <1>1. Flags'
    BY DEF IInv, Flags, FlushSome, FlushRest, Again, CanSnd, Least, StepOnly, PumpOnly
  <1>2. Marks'
    BY DEF IInv, Marks, Places, Events, Terminal, Bump, Rank, FlushSome, FlushRest,
       Again, CanSnd, Least, StepOnly, PumpOnly
  <1>3. Counts'
    <2>1. unsent' \in 0..(HeaderSize + QueueSize) /\ room' \in 0..SendRoom
      BY Sizes DEF IInv, Counts, FlushSome, Least
    <2>2. flight' \in 0..QueueSize /\ wired' \in 0..MaxWrite
      BY <1>0, Sizes DEF IInv, Counts, FlushSome
    <2> QED BY <2>1, <2>2 DEF IInv, Counts, FlushSome, FlushRest, StepOnly, PumpOnly
  <1>4. Stream'
    BY DEF IInv, Stream, FlushSome, FlushRest, Again, CanSnd, Least, StepOnly, PumpOnly
  <1>5. InPump' /\ NothingStranded'
    BY Sizes DEF IInv, Counts, InPump, NothingStranded, Terminal, FlushSome, FlushRest,
       Again, CanSnd, Least, StepOnly, PumpOnly
  <1>6. WrittenOnce'
    BY Sizes DEF IInv, Counts, WrittenOnce, FlushSome, FlushRest, Again, CanSnd, Least,
       StepOnly, PumpOnly
  <1> QED BY <1>1, <1>2, <1>3, <1>4, <1>5, <1>6 DEF IInv

LEMMA FlushBlockedInv == IInv /\ FlushBlocked => IInv'
  <1> SUFFICES ASSUME IInv, FlushBlocked PROVE IInv'
    OBVIOUS
  <1>1. Flags'
    BY DEF IInv, Flags, FlushBlocked, FlushRest, Goto, StepOnly, PumpOnly
  <1>2. Marks'
    BY DEF IInv, Marks, Places, Events, Terminal, Bump, Rank, FlushBlocked, FlushRest,
       Goto, StepOnly, PumpOnly
  <1>3. Counts'
    BY Sizes DEF IInv, Counts, FlushBlocked, FlushRest, Goto, StepOnly, PumpOnly
  <1>4. Stream'
    BY DEF IInv, Stream, FlushBlocked, FlushRest, Goto, StepOnly, PumpOnly
  <1>5. InPump' /\ NothingStranded'
    BY Sizes DEF IInv, Counts, InPump, NothingStranded, Terminal, FlushBlocked,
       FlushRest, Goto, StepOnly, PumpOnly
  <1>6. WrittenOnce'
    BY Sizes DEF IInv, Counts, WrittenOnce, FlushBlocked, FlushRest, Goto, StepOnly,
       PumpOnly
  <1> QED BY <1>1, <1>2, <1>3, <1>4, <1>5, <1>6 DEF IInv

LEMMA SetWantWriteInv == IInv /\ SetWantWrite => IInv'
  <1> SUFFICES ASSUME IInv, SetWantWrite PROVE IInv'
    OBVIOUS
  <1>1. Flags'
    BY DEF IInv, Flags, SetWantWrite, FlushRest, Goto, StepOnly, PumpOnly
  <1>2. Marks'
    BY DEF IInv, Marks, Places, Events, Terminal, Bump, Rank, SetWantWrite, FlushRest,
       Goto, StepOnly, PumpOnly
  <1>3. Counts'
    BY Sizes DEF IInv, Counts, SetWantWrite, FlushRest, Goto, StepOnly, PumpOnly
  <1>4. Stream'
    BY DEF IInv, Stream, SetWantWrite, FlushRest, Goto, StepOnly, PumpOnly
  <1>5. InPump' /\ NothingStranded'
    BY Sizes DEF IInv, Counts, InPump, NothingStranded, Terminal, SetWantWrite,
       FlushRest, Goto, StepOnly, PumpOnly
  <1>6. WrittenOnce'
    BY Sizes DEF IInv, Counts, WrittenOnce, SetWantWrite, FlushRest, Goto, StepOnly,
       PumpOnly
  <1> QED BY <1>1, <1>2, <1>3, <1>4, <1>5, <1>6 DEF IInv

LEMMA FlushLooksInv == IInv /\ FlushLooks => IInv'
  <1> SUFFICES ASSUME IInv, FlushLooks PROVE IInv'
    OBVIOUS
  <1>1. Flags'
    BY DEF IInv, Flags, FlushLooks, FlushRest, Goto, StepOnly, PumpOnly
  <1>2. Marks'
    BY DEF IInv, Marks, Places, Events, Terminal, Bump, Rank, FlushLooks, FlushRest,
       Goto, StepOnly, PumpOnly
  <1>3. Counts'
    BY Sizes DEF IInv, Counts, FlushLooks, FlushRest, Goto, StepOnly, PumpOnly
  <1>4. Stream'
    BY DEF IInv, Stream, FlushLooks, FlushRest, Goto, StepOnly, PumpOnly
  <1>5. InPump' /\ NothingStranded'
    BY Sizes DEF IInv, Counts, InPump, NothingStranded, Terminal, FlushLooks,
       FlushRest, Goto, StepOnly, PumpOnly
  <1>6. WrittenOnce'
    BY Sizes DEF IInv, Counts, WrittenOnce, FlushLooks, FlushRest, Goto, StepOnly,
       PumpOnly
  <1> QED BY <1>1, <1>2, <1>3, <1>4, <1>5, <1>6 DEF IInv

LEMMA FlushReleaseInv == IInv /\ FlushRelease => IInv'
  <1> SUFFICES ASSUME IInv, FlushRelease PROVE IInv'
    OBVIOUS
  <1>1. Flags'
    BY ReleaseTypes DEF IInv, Flags, FlushRelease, FlushRest, StepOnly, PumpOnly
  <1>2. Marks'
    BY DEF IInv, Marks, Places, Events, Terminal, Bump, Rank, FlushRelease, FlushRest,
       Goto, TakeRelease, AfterRcvRelease, StepOnly, PumpOnly
  <1>3. Counts'
    BY Sizes DEF IInv, Counts, FlushRelease, FlushRest, Goto, TakeRelease,
       AfterRcvRelease, StepOnly, PumpOnly
  <1>4. Stream'
    BY DEF IInv, Stream, FlushRelease, FlushRest, Goto, TakeRelease, AfterRcvRelease,
       StepOnly, PumpOnly
  <1>5. InPump' /\ NothingStranded'
    BY Sizes DEF IInv, Counts, InPump, NothingStranded, Terminal, FlushRelease,
       FlushRest, Goto, TakeRelease, AfterRcvRelease, StepOnly, PumpOnly
  <1>6. WrittenOnce'
    BY Sizes DEF IInv, Counts, WrittenOnce, FlushRelease, FlushRest, Goto, TakeRelease,
       AfterRcvRelease, StepOnly, PumpOnly
  <1> QED BY <1>1, <1>2, <1>3, <1>4, <1>5, <1>6 DEF IInv

LEMMA FlushAbortedInv == IInv /\ FlushAborted => IInv'
  <1> SUFFICES ASSUME IInv, FlushAborted PROVE IInv'
    OBVIOUS
  <1>1. Flags'
    BY DisconnectTypes DEF IInv, Flags, FlushAborted, FlushRest, StepOnly, PumpOnly
  <1>2. Marks'
    BY DEF IInv, Marks, Places, Events, Terminal, Bump, Rank, FlushAborted, FlushRest,
       TakeDisconnect, FailMutely, Return, StepOnly, PumpOnly
  <1>3. Counts'
    BY Sizes DEF IInv, Counts, FlushAborted, FlushRest, TakeDisconnect, FailMutely,
       Return, StepOnly, PumpOnly
  <1>4. Stream'
    BY DEF IInv, Stream, FlushAborted, FlushRest, TakeDisconnect, FailMutely, Return,
       StepOnly, PumpOnly
  <1>5. InPump' /\ NothingStranded'
    BY Sizes DEF IInv, Counts, InPump, NothingStranded, Terminal, FlushAborted,
       FlushRest, TakeDisconnect, FailMutely, Return, StepOnly, PumpOnly
  <1>6. WrittenOnce'
    BY Sizes DEF IInv, Counts, WrittenOnce, FlushAborted, FlushRest, TakeDisconnect,
       FailMutely, Return, StepOnly, PumpOnly
  <1> QED BY <1>1, <1>2, <1>3, <1>4, <1>5, <1>6 DEF IInv

LEMMA FlushErrorInv == IInv /\ FlushError => IInv'
  <1> SUFFICES ASSUME IInv, FlushError PROVE IInv'
    OBVIOUS
  <1>1. Flags'
    BY DEF IInv, Flags, FlushError, FlushRest, FailMutely, Return, StepOnly, PumpOnly
  <1>2. Marks'
    BY DEF IInv, Marks, Places, Events, Terminal, Bump, Rank, FlushError, FlushRest,
       FailMutely, Return, StepOnly, PumpOnly
  <1>3. Counts'
    BY Sizes DEF IInv, Counts, FlushError, FlushRest, FailMutely, Return, StepOnly,
       PumpOnly
  <1>4. Stream'
    BY DEF IInv, Stream, FlushError, FlushRest, FailMutely, Return, StepOnly, PumpOnly
  <1>5. InPump' /\ NothingStranded'
    BY Sizes DEF IInv, Counts, InPump, NothingStranded, Terminal, FlushError, FlushRest,
       FailMutely, Return, StepOnly, PumpOnly
  <1>6. WrittenOnce'
    BY Sizes DEF IInv, Counts, WrittenOnce, FlushError, FlushRest, FailMutely, Return,
       StepOnly, PumpOnly
  <1> QED BY <1>1, <1>2, <1>3, <1>4, <1>5, <1>6 DEF IInv

LEMMA DeliverStagedInv == IInv /\ DeliverStaged => IInv'
  <1> SUFFICES ASSUME IInv, DeliverStaged PROVE IInv'
    OBVIOUS
  <1>1. Flags'
    BY DEF IInv, Flags, DeliverStaged, Deliver, Again, Return, StepOnly, PumpOnly
  <1>2. Marks'
    BY DEF IInv, Marks, Places, Events, Terminal, Bump, Rank, DeliverStaged, Deliver,
       Again, Return, StepOnly, PumpOnly
  <1>3. Counts'
    <2>1. staged' \in 0..MaxData /\ readAvail' \in 0..RingSize
      BY DeliverBounds DEF IInv, Counts, DeliverStaged
    <2> QED BY <2>1 DEF IInv, Counts, DeliverStaged, StepOnly, PumpOnly
  <1>4. Stream'
    BY DEF IInv, Stream, DeliverStaged, Deliver, Again, Return, StepOnly, PumpOnly
  <1>5. InPump' /\ NothingStranded'
    BY Sizes DEF IInv, Counts, InPump, NothingStranded, Terminal, DeliverStaged,
       Deliver, Again, Return, StepOnly, PumpOnly
  <1>6. WrittenOnce'
    BY Sizes DEF IInv, Counts, WrittenOnce, DeliverStaged, Deliver, Again, Return,
       StepOnly, PumpOnly
  <1> QED BY <1>1, <1>2, <1>3, <1>4, <1>5, <1>6 DEF IInv

LEMMA BuildSendInv == IInv /\ BuildSend => IInv'
  <1> SUFFICES ASSUME IInv, BuildSend PROVE IInv'
    OBVIOUS
  <1>1. Flags'
    BY DEF IInv, Flags, BuildSend, Builds, Again, StepOnly, PumpOnly
  <1>2. Marks'
    BY DEF IInv, Marks, Places, Events, Terminal, Bump, Rank, BuildSend, Builds, Again,
       StepOnly, PumpOnly
  <1>3. Counts'
    BY Sizes DEF IInv, Counts, BuildSend, Builds, Again, StepOnly, PumpOnly
  <1>4. Stream'
    BY DEF IInv, Stream, BuildSend, Builds, Again, StepOnly, PumpOnly
  <1>5. InPump' /\ NothingStranded'
    BY Sizes DEF IInv, Counts, InPump, NothingStranded, Terminal, BuildSend, Builds,
       Again, StepOnly, PumpOnly
  <1>6. WrittenOnce'
    BY Sizes DEF IInv, Counts, WrittenOnce, BuildSend, Builds, Again, StepOnly, PumpOnly
  <1> QED BY <1>1, <1>2, <1>3, <1>4, <1>5, <1>6 DEF IInv

LEMMA ConsumeInv == IInv /\ Consume => IInv'
  <1> SUFFICES ASSUME IInv, Consume PROVE IInv'
    OBVIOUS
  <1> DEFINE r == Head(records)
  <1>0. /\ r \in Record /\ Tail(records) \in Seq(Record)
        /\ r.n \in 0..MaxData /\ r.kind \in Kinds /\ recvLen >= Size(r)
    BY HeadAndTail DEF IInv, Consume, Decrypts, Whole
  <1> HIDE DEF r
  <1>1. Flags'
    <2>1. peerClosed' \in BOOLEAN
      BY DEF IInv, Flags, Consume
    <2>2. cached' \in BOOLEAN
      <3>1. UNCHANGED cached \/ cached' = (cached \/ r.kind # "update")
        BY DEF Consume, r
      <3> QED BY <3>1 DEF IInv, Flags
    <2> QED BY <2>1, <2>2 DEF IInv, Flags, Consume, StepOnly, PumpOnly
  <1>2. Marks'
    BY DEF IInv, Marks, Places, Events, Terminal, Bump, Rank, Consume, Decrypts, Whole,
       Leftover, Size, Deliver, FailLoudly, Again, Return, StepOnly, PumpOnly
  <1>3. Counts'
    <2>1. recvLen' \in 0..IoSize
      BY <1>0, Sizes DEF IInv, Counts, Consume, Leftover, Size, r
    <2>2. staged' \in 0..MaxData /\ readAvail' \in 0..RingSize
      <3>1. UNCHANGED plainVars \/ Deliver(r.n)
        BY DEF Consume, r
      <3>2. CASE UNCHANGED plainVars
        BY <3>2 DEF IInv, Counts
      <3>3. CASE Deliver(r.n)
        BY <3>3, <1>0, DeliverBounds DEF IInv
      <3> QED BY <3>1, <3>2, <3>3
    <2> QED BY <2>1, <2>2 DEF IInv, Counts, Consume, StepOnly, PumpOnly
  <1>4. Stream'
    BY <1>0 DEF IInv, Stream, Consume
  <1>5. InPump' /\ NothingStranded'
    BY DEF IInv, Counts, InPump, NothingStranded, Terminal, Consume, Decrypts,
       FailLoudly,
       Again, Return
  <1>6. WrittenOnce'
    BY DEF IInv, WrittenOnce, Consume, StepOnly, PumpOnly
  <1> QED BY <1>1, <1>2, <1>3, <1>4, <1>5, <1>6 DEF IInv

LEMMA ReceiveNothingInv == IInv /\ ReceiveNothing => IInv'
  <1> SUFFICES ASSUME IInv, ReceiveNothing PROVE IInv'
    OBVIOUS
  <1>1. Flags'
    BY DEF IInv, Flags, ReceiveNothing, Idle13, CanRcv, ReceiveRest, Goto, StepOnly,
       PumpOnly
  <1>2. Marks'
    BY DEF IInv, Marks, Places, Events, Terminal, Bump, Rank, ReceiveNothing, Idle13,
       CanRcv, ReceiveRest, Goto, StepOnly, PumpOnly
  <1>3. Counts'
    BY Sizes DEF IInv, Counts, ReceiveNothing, Idle13, CanRcv, ReceiveRest, Goto,
       StepOnly, PumpOnly
  <1>4. Stream'
    BY DEF IInv, Stream, ReceiveNothing, Idle13, CanRcv, ReceiveRest, Goto, StepOnly,
       PumpOnly
  <1>5. InPump' /\ NothingStranded'
    BY Sizes DEF IInv, Counts, InPump, NothingStranded, Terminal, ReceiveNothing,
       Idle13, CanRcv, ReceiveRest, Goto, StepOnly, PumpOnly
  <1>6. WrittenOnce'
    BY Sizes DEF IInv, Counts, WrittenOnce, ReceiveNothing, Idle13, CanRcv, ReceiveRest,
       Goto, StepOnly, PumpOnly
  <1> QED BY <1>1, <1>2, <1>3, <1>4, <1>5, <1>6 DEF IInv

LEMMA ReceiveDataInv == IInv /\ ReceiveData => IInv'
  <1> SUFFICES ASSUME IInv, ReceiveData PROVE IInv'
    OBVIOUS
  <1>1. Flags'
    BY DEF IInv, Flags, ReceiveData, Idle13, CanRcv, ReceiveRest, Again, Least,
       StepOnly, PumpOnly
  <1>2. Marks'
    BY DEF IInv, Marks, Places, Events, Terminal, Bump, Rank, ReceiveData, Idle13,
       CanRcv, ReceiveRest, Again, Least, StepOnly, PumpOnly
  <1>3. Counts'
    BY Sizes DEF IInv, Counts, ReceiveData, Idle13, CanRcv, ReceiveRest, Again, Least,
       StepOnly, PumpOnly
  <1>4. Stream'
    BY DEF IInv, Stream, ReceiveData, Idle13, CanRcv, ReceiveRest, Again, Least,
       StepOnly, PumpOnly
  <1>5. InPump' /\ NothingStranded'
    BY Sizes DEF IInv, Counts, InPump, NothingStranded, Terminal, ReceiveData, Idle13,
       CanRcv, ReceiveRest, Again, Least, StepOnly, PumpOnly
  <1>6. WrittenOnce'
    BY Sizes DEF IInv, Counts, WrittenOnce, ReceiveData, Idle13, CanRcv, ReceiveRest,
       Again, Least, StepOnly, PumpOnly
  <1> QED BY <1>1, <1>2, <1>3, <1>4, <1>5, <1>6 DEF IInv

LEMMA ReceiveNoDataInv == IInv /\ ReceiveNoData => IInv'
  <1> SUFFICES ASSUME IInv, ReceiveNoData PROVE IInv'
    OBVIOUS
  <1>1. Flags'
    BY DEF IInv, Flags, ReceiveNoData, Idle13, CanRcv, ReceiveRest, Goto, StepOnly,
       PumpOnly
  <1>2. Marks'
    BY DEF IInv, Marks, Places, Events, Terminal, Bump, Rank, ReceiveNoData, Idle13,
       CanRcv, ReceiveRest, Goto, StepOnly, PumpOnly
  <1>3. Counts'
    BY Sizes DEF IInv, Counts, ReceiveNoData, Idle13, CanRcv, ReceiveRest, Goto,
       StepOnly, PumpOnly
  <1>4. Stream'
    BY DEF IInv, Stream, ReceiveNoData, Idle13, CanRcv, ReceiveRest, Goto, StepOnly,
       PumpOnly
  <1>5. InPump' /\ NothingStranded'
    BY Sizes DEF IInv, Counts, InPump, NothingStranded, Terminal, ReceiveNoData, Idle13,
       CanRcv, ReceiveRest, Goto, StepOnly, PumpOnly
  <1>6. WrittenOnce'
    BY Sizes DEF IInv, Counts, WrittenOnce, ReceiveNoData, Idle13, CanRcv, ReceiveRest,
       Goto, StepOnly, PumpOnly
  <1> QED BY <1>1, <1>2, <1>3, <1>4, <1>5, <1>6 DEF IInv

LEMMA NoDataInv == IInv /\ NoData => IInv'
  <1> SUFFICES ASSUME IInv, NoData PROVE IInv'
    OBVIOUS
  <1>1. Flags'
    BY DEF IInv, Flags, NoData, ReceiveRest, Goto, StepOnly,
       PumpOnly
  <1>2. Marks'
    BY DEF IInv, Marks, Places, Events, Terminal, Bump, Rank, NoData, ReceiveRest, Goto, StepOnly, PumpOnly
  <1>3. Counts'
    BY Sizes DEF IInv, Counts, NoData, ReceiveRest, Goto,
       StepOnly, PumpOnly
  <1>4. Stream'
    BY DEF IInv, Stream, NoData, ReceiveRest, Goto, StepOnly,
       PumpOnly
  <1>5. InPump' /\ NothingStranded'
    BY Sizes DEF IInv, Counts, InPump, NothingStranded, Terminal, NoData, ReceiveRest, Goto, StepOnly, PumpOnly
  <1>6. WrittenOnce'
    BY Sizes DEF IInv, Counts, WrittenOnce, NoData, ReceiveRest, Goto, StepOnly, PumpOnly
  <1> QED BY <1>1, <1>2, <1>3, <1>4, <1>5, <1>6 DEF IInv

LEMMA ReceiveLooksInv == IInv /\ ReceiveLooks => IInv'
  <1> SUFFICES ASSUME IInv, ReceiveLooks PROVE IInv'
    OBVIOUS
  <1>1. Flags'
    BY DEF IInv, Flags, ReceiveLooks, Idle13, CanRcv, ReceiveRest, Goto, StepOnly,
       PumpOnly
  <1>2. Marks'
    BY DEF IInv, Marks, Places, Events, Terminal, Bump, Rank, ReceiveLooks, Idle13,
       CanRcv, ReceiveRest, Goto, StepOnly, PumpOnly
  <1>3. Counts'
    BY Sizes DEF IInv, Counts, ReceiveLooks, Idle13, CanRcv, ReceiveRest, Goto,
       StepOnly, PumpOnly
  <1>4. Stream'
    BY DEF IInv, Stream, ReceiveLooks, Idle13, CanRcv, ReceiveRest, Goto, StepOnly,
       PumpOnly
  <1>5. InPump' /\ NothingStranded'
    BY Sizes DEF IInv, Counts, InPump, NothingStranded, Terminal, ReceiveLooks, Idle13,
       CanRcv, ReceiveRest, Goto, StepOnly, PumpOnly
  <1>6. WrittenOnce'
    BY Sizes DEF IInv, Counts, WrittenOnce, ReceiveLooks, Idle13, CanRcv, ReceiveRest,
       Goto, StepOnly, PumpOnly
  <1> QED BY <1>1, <1>2, <1>3, <1>4, <1>5, <1>6 DEF IInv

LEMMA ReceiveReleaseInv == IInv /\ ReceiveRelease => IInv'
  <1> SUFFICES ASSUME IInv, ReceiveRelease PROVE IInv'
    OBVIOUS
  <1>1. Flags'
    BY ReleaseTypes DEF IInv, Flags, ReceiveRelease, ReceiveRest, StepOnly, PumpOnly
  <1>2. Marks'
    BY DEF IInv, Marks, Places, Events, Terminal, Bump, Rank, ReceiveRelease, ReceiveRest, Again, TakeRelease, AfterRcvRelease, StepOnly, PumpOnly
  <1>3. Counts'
    BY Sizes DEF IInv, Counts, ReceiveRelease, ReceiveRest, Again,
       TakeRelease, AfterRcvRelease, StepOnly, PumpOnly
  <1>4. Stream'
    BY DEF IInv, Stream, ReceiveRelease, ReceiveRest, Again,
       TakeRelease, AfterRcvRelease, StepOnly, PumpOnly
  <1>5. InPump' /\ NothingStranded'
    BY Sizes DEF IInv, Counts, InPump, NothingStranded, Terminal, ReceiveRelease,
       ReceiveRest, Again, TakeRelease, AfterRcvRelease, StepOnly,
       PumpOnly
  <1>6. WrittenOnce'
    BY Sizes DEF IInv, Counts, WrittenOnce, ReceiveRelease, ReceiveRest,
       Again, TakeRelease, AfterRcvRelease, StepOnly, PumpOnly
  <1> QED BY <1>1, <1>2, <1>3, <1>4, <1>5, <1>6 DEF IInv

LEMMA ReceiveAbortedInv == IInv /\ ReceiveAborted => IInv'
  <1> SUFFICES ASSUME IInv, ReceiveAborted PROVE IInv'
    OBVIOUS
  <1>1. Flags'
    BY DisconnectTypes DEF IInv, Flags, ReceiveAborted, ReceiveRest, StepOnly, PumpOnly
  <1>2. Marks'
    BY DEF IInv, Marks, Places, Events, Terminal, Bump, Rank, ReceiveAborted, Idle13,
       CanRcv, ReceiveRest, TakeDisconnect, FailMutely, Return, StepOnly, PumpOnly
  <1>3. Counts'
    BY Sizes DEF IInv, Counts, ReceiveAborted, Idle13, CanRcv, ReceiveRest,
       TakeDisconnect, FailMutely, Return, StepOnly, PumpOnly
  <1>4. Stream'
    BY DEF IInv, Stream, ReceiveAborted, Idle13, CanRcv, ReceiveRest, TakeDisconnect,
       FailMutely, Return, StepOnly, PumpOnly
  <1>5. InPump' /\ NothingStranded'
    BY Sizes DEF IInv, Counts, InPump, NothingStranded, Terminal, ReceiveAborted,
       Idle13, CanRcv, ReceiveRest, TakeDisconnect, FailMutely, Return, StepOnly,
       PumpOnly
  <1>6. WrittenOnce'
    BY Sizes DEF IInv, Counts, WrittenOnce, ReceiveAborted, Idle13, CanRcv, ReceiveRest,
       TakeDisconnect, FailMutely, Return, StepOnly, PumpOnly
  <1> QED BY <1>1, <1>2, <1>3, <1>4, <1>5, <1>6 DEF IInv

LEMMA ReceiveErrorInv == IInv /\ ReceiveError => IInv'
  <1> SUFFICES ASSUME IInv, ReceiveError PROVE IInv'
    OBVIOUS
  <1>1. Flags'
    BY DEF IInv, Flags, ReceiveError, Idle13, CanRcv, ReceiveRest, FailMutely, Return,
       StepOnly, PumpOnly
  <1>2. Marks'
    BY DEF IInv, Marks, Places, Events, Terminal, Bump, Rank, ReceiveError, Idle13,
       CanRcv, ReceiveRest, FailMutely, Return, StepOnly, PumpOnly
  <1>3. Counts'
    BY Sizes DEF IInv, Counts, ReceiveError, Idle13, CanRcv, ReceiveRest, FailMutely,
       Return, StepOnly, PumpOnly
  <1>4. Stream'
    BY DEF IInv, Stream, ReceiveError, Idle13, CanRcv, ReceiveRest, FailMutely, Return,
       StepOnly, PumpOnly
  <1>5. InPump' /\ NothingStranded'
    BY Sizes DEF IInv, Counts, InPump, NothingStranded, Terminal, ReceiveError, Idle13,
       CanRcv, ReceiveRest, FailMutely, Return, StepOnly, PumpOnly
  <1>6. WrittenOnce'
    BY Sizes DEF IInv, Counts, WrittenOnce, ReceiveError, Idle13, CanRcv, ReceiveRest,
       FailMutely, Return, StepOnly, PumpOnly
  <1> QED BY <1>1, <1>2, <1>3, <1>4, <1>5, <1>6 DEF IInv

LEMMA EndInv == IInv /\ End => IInv'
  <1> SUFFICES ASSUME IInv, End PROVE IInv'
    OBVIOUS
  <1>1. Flags'
    BY DEF IInv, Flags, End, Ended, Return, StepOnly, PumpOnly
  <1>2. Marks'
    BY DEF IInv, Marks, Places, Events, Terminal, Bump, Rank, End, Ended, Return,
       StepOnly, PumpOnly
  <1>3. Counts'
    BY Sizes DEF IInv, Counts, End, Ended, Return, StepOnly, PumpOnly
  <1>4. Stream'
    BY DEF IInv, Stream, End, Ended, Return, StepOnly, PumpOnly
  <1>5. InPump' /\ NothingStranded'
    BY Sizes DEF IInv, Counts, InPump, NothingStranded, Terminal, End, Ended, Return,
       StepOnly, PumpOnly
  <1>6. WrittenOnce'
    BY Sizes DEF IInv, Counts, WrittenOnce, End, Ended, Return, StepOnly, PumpOnly
  <1> QED BY <1>1, <1>2, <1>3, <1>4, <1>5, <1>6 DEF IInv

-----------------------------------------------------------------------------
LEMMA NextInv == IInv /\ [Next]_vars => IInv'
  <1> SUFFICES ASSUME IInv, [Next]_vars PROVE IInv'
    OBVIOUS
  <1>1. CASE UNCHANGED vars
    BY <1>1, StutterInv
  <1>2. CASE PeerSends13
    BY <1>2, PeerSends13Inv
  <1>3. CASE Close
    BY <1>3, CloseInv
  <1>4. CASE Network /\ UNCHANGED ownVars
    BY <1>4, ArriveInv, PeerDiesInv, PeerReleaseInv, PeerAbortInv, SendDrainsInv, Zenon
       DEF Network
  <1>5. CASE Write /\ UNCHANGED ownVars
    BY <1>5, WriteInv
  <1>6. CASE Read /\ UNCHANGED ownVars
    BY <1>6, ReadInv
  <1>7. CASE CallerPumps /\ UNCHANGED ownVars
    BY <1>7, PumpBeginInv DEF CallerPumps, PumpNow, PollTick
  <1>8. CASE Top("flush") /\ UNCHANGED ownVars
    BY <1>8, TopInv
  <1>9. CASE Flush
    BY <1>9, FlushNothingInv, FlushSomeInv, FlushBlockedInv, SetWantWriteInv,
       FlushLooksInv, FlushReleaseInv, FlushAbortedInv, FlushErrorInv, Zenon DEF Flush
  <1>10. CASE Receive
    BY <1>10, ReceiveNothingInv, ReceiveDataInv, ReceiveNoDataInv, NoDataInv,
       ReceiveLooksInv, ReceiveReleaseInv, ReceiveAbortedInv, ReceiveErrorInv, Zenon
       DEF Receive
  <1>11. CASE DeliverStaged \/ BuildSend \/ Consume \/ End
    BY <1>11, DeliverStagedInv, BuildSendInv, ConsumeInv, EndInv, Zenon
  <1> QED BY <1>1, <1>2, <1>3, <1>4, <1>5, <1>6, <1>7, <1>8, <1>9, <1>10, <1>11, Zenon
          DEF Next, PumpStep, Step

(* The inductive invariant: the counts, and that no step works on a session*)
(* that is over.                                                           *)
THEOREM Invariance == Spec => []IInv
  <1>1. Init => IInv
    BY InitInv
  <1>2. IInv /\ [Next]_vars => IInv'
    BY NextInv
  <1> QED BY <1>1, <1>2, PTL DEF Spec

(* The pieces say what TypeOK says.                                        *)
LEMMA Pieces == IInv => TypeOK
  <1> SUFFICES ASSUME IInv PROVE TypeOK
    OBVIOUS
  <1>1. peerKey \in 0..MaxRecords
    BY Sizes DEF IInv, Counts
  <1>2. pc \in {"app", "top"} \cup {"flush", "flow", "sndrel", "records", "nodata", "rcvrel", "end"}
    BY DEF IInv, Marks, Places
  <1>3. records \in Seq([kind : Kinds, n : 0..MaxData, key : 0..MaxRecords])
    BY DEF IInv, Stream, Record
  <1>4. PathTypeOK({"flush", "flow", "sndrel", "records", "nodata", "rcvrel", "end"},
                   [kind : Kinds, n : 0..MaxData, key : 0..MaxRecords])
    BY <1>2, <1>3, Zenon DEF PathTypeOK, IInv, Marks, Flags, Counts
  <1> QED BY <1>1, <1>4 DEF TypeOK, IInv, Flags, Counts

(* Every buffer and counter of an open 1.3 session stays inside its bounds:*)
(* pump_ot_recv_tls13 never runs past ssl_iobuf, OSTLS_Write never past the*)
(* queue, pump_tls13_deliver_plain never past the ring.                    *)
THEOREM TypeCorrect == Spec => []TypeOK
  BY Invariance, Pieces, PTL

(* A record under way is never overwritten by the next one and no byte that*)
(* OSTLS_Write accepted leaves the sum of queue, flight and wire           *)
(* (pump_tls13_build_send, ostls_send_raw), however little OTSnd takes.    *)
THEOREM NoByteLostOrTwice == Spec => []WrittenOnce
  <1>1. IInv => WrittenOnce
    BY DEF IInv
  <1> QED BY <1>1, Invariance, PTL

(* pump_tls13_step and pump_tls13_consume_record reach Closed only when the*)
(* staged plaintext has gone to the ring.                                  *)
THEOREM NothingLeftStaged == Spec => []NothingStranded
  <1>1. IInv => NothingStranded
    BY DEF IInv
  <1> QED BY <1>1, Invariance, PTL

-----------------------------------------------------------------------------
(* Nothing unread at the end.                                              *)

SizeOf == [r \in Record |-> HeaderSize + r.n]

(* Nothing of the stream was lost on its way.                              *)
Unhurt == ~truncated /\ ~discInd /\ ~discConsumed

(* What was sent and is not consumed.                                      *)
Units == recvLen + queued + transit

(* The units of the records that were sent and not consumed are those in   *)
(* the record buffer, in the endpoint and under way; an abort or a peer    *)
(* that died took some of them.                                            *)
Tally ==
    \E n \in Nat :
        /\ Weighs(SizeOf, records, n)
        /\ n >= Units
        /\ Unhurt => n = Units

(* close_notify is the last the peer sends.                                *)
LastWord ==
    \A i \in 1..Len(records) :
        records[i].kind = "notify" => i = Len(records) /\ peerDone

(* What the release, the abort and Closed say of the rest of the stream.   *)
Ends ==
    /\ discConsumed => state = "Failed"
    /\ ordInd => nfOrd
    /\ nfOrd => transit = 0 /\ peerDone
    /\ peerClosed => nfOrd \/ state = "Closed"
    /\ pc \in {"sndrel", "rcvrel"} => nfOrd
    /\ state = "Closed" =>
           peerDone /\ (records = <<>> \/ (recvLen < HeaderSize /\ transit = 0))

EInv == IInv /\ Tally /\ LastWord /\ Ends

LEMMA SizeOfSizes ==
    /\ SizeOf \in [Record -> Nat]
    /\ \A r \in Record : SizeOf[r] = Size(r) /\ Size(r) \in Nat /\ Size(r) >= HeaderSize
  BY Sizes DEF SizeOf, Record, Size

LEMMA UnitsNat ==
    ASSUME IInv
    PROVE  recvLen \in Nat /\ queued \in Nat /\ transit \in Nat /\ Units \in Nat
  <1>1. recvLen \in Nat /\ queued \in Nat /\ transit \in Nat
    BY Sizes DEF IInv, Counts
  <1> QED BY <1>1 DEF Units

(* The tally of the same records, when no unit is made.                    *)
LEMMA SameTally ==
    ASSUME IInv, IInv', Tally, UNCHANGED records,
           Units' <= Units,
           Unhurt' =>
               /\ Unhurt
               /\ Units' = Units
    PROVE  Tally'
  <1>1. PICK n \in Nat :
          /\ Weighs(SizeOf, records, n)
          /\ n >= Units
          /\ Unhurt => n = Units
    BY DEF Tally
  <1>2. Units \in Nat /\ Units' \in Nat
    <2>1. /\ recvLen \in Nat /\ queued \in Nat /\ transit \in Nat
          /\ recvLen' \in Nat /\ queued' \in Nat /\ transit' \in Nat
      BY Sizes DEF IInv, Counts
    <2>2. Units \in Nat
      BY <2>1 DEF Units
    <2>3. Units' \in Nat
      <3>1. \A a, b, c \in Nat : a + b + c \in Nat
        OBVIOUS
      <3>2. recvLen' + queued' + transit' \in Nat
        BY <2>1, <3>1
      <3> QED BY <3>2 DEF Units
    <2> QED BY <2>2, <2>3
  <1>3. Weighs(SizeOf, records', n)
    BY <1>1
  <1>4. /\ n >= Units'
        /\ Unhurt' => n = Units'
    <2>1. n >= Units'
      BY <1>1, <1>2
    <2>2. ASSUME Unhurt' PROVE n = Units'
      BY <1>1, <1>2, <2>2
    <2> QED BY <2>1, <2>2
  <1> QED BY <1>3, <1>4 DEF Tally

(* A step that touches neither the records nor the units.                  *)
Quiet == UNCHANGED <<records, recvLen, queued, transit, truncated, peerDone, nfOrd>>

LEMMA QuietKeeps ==
    ASSUME EInv, IInv', Quiet,
           discInd \/ discConsumed => discInd' \/ discConsumed'
    PROVE  Tally' /\ LastWord'
  <1>1. Tally'
    <2>1. Units' = Units
      BY DEF Quiet, Units
    <2>2. Units' <= Units
      BY <2>1, UnitsNat DEF EInv, Units
    <2> QED BY <2>1, <2>2, SameTally DEF EInv, Unhurt, Quiet
  <1>2. LastWord'
    BY DEF EInv, LastWord, Quiet
  <1> QED BY <1>1, <1>2

LEMMA CallerEnds ==
    ASSUME EInv, IInv',
           Close \/ ((SendDrains \/ Write \/ Read \/ PumpBegin \/ Top("flush"))
                     /\ UNCHANGED ownVars)
    PROVE  EInv'
  <1>1. Quiet /\ (discInd \/ discConsumed => discInd' \/ discConsumed')
    BY DEF Quiet, Close, SendDrains, Write, Read, PumpBegin, Top, NetworkOnly, PumpOnly,
       Goto, TakeDisconnect
  <1>2. CASE Close
    BY <1>1, <1>2, QuietKeeps DEF EInv, IInv, InPump, Marks, Ends, Quiet, Close, Terminal
  <1>3. CASE SendDrains /\ UNCHANGED ownVars
    BY <1>1, <1>3, QuietKeeps DEF EInv, Ends, Quiet, SendDrains, NetworkOnly
  <1>4. CASE (Write \/ Read \/ PumpBegin) /\ UNCHANGED ownVars
    BY <1>1, <1>4, QuietKeeps DEF EInv, Ends, Quiet, Write, Read, PumpBegin
  <1>5. CASE Top("flush") /\ UNCHANGED ownVars
    BY <1>1, <1>5, QuietKeeps DEF EInv, IInv, InPump, Terminal, Ends, Quiet, Top, Goto,
       TakeDisconnect, FailLoudly
  <1> QED BY <1>2, <1>3, <1>4, <1>5

LEMMA FlushEnds ==
    ASSUME EInv, IInv', Flush
    PROVE  EInv'
  <1>1. Quiet /\ (discInd \/ discConsumed => discInd' \/ discConsumed')
    BY DEF Quiet, Flush, FlushNothing, FlushSome, FlushBlocked, SetWantWrite,
       FlushLooks, FlushRelease, FlushAborted, FlushError, FlushRest, StepOnly, PumpOnly,
       TakeRelease, TakeDisconnect
  <1>2. CASE FlushNothing \/ FlushSome \/ FlushBlocked \/ SetWantWrite \/ FlushLooks
    BY <1>1, <1>2, QuietKeeps DEF EInv, Ends, Quiet, FlushNothing, FlushSome,
       FlushBlocked, SetWantWrite, FlushLooks, Goto, Again
  <1>3. CASE FlushRelease
    BY <1>1, <1>3, QuietKeeps DEF EInv, Ends, Quiet, FlushRelease, TakeRelease, Goto
  <1>4. CASE FlushAborted \/ FlushError
    BY <1>1, <1>4, QuietKeeps DEF EInv, IInv, InPump, Terminal, Ends, Quiet,
       FlushAborted, FlushError, TakeDisconnect, FailMutely
  <1> QED BY <1>2, <1>3, <1>4 DEF Flush

LEMMA ReceiveEnds ==
    ASSUME EInv, IInv', Receive, ~ReceiveData
    PROVE  EInv'
  <1>1. Quiet /\ (discInd \/ discConsumed => discInd' \/ discConsumed')
    BY DEF Quiet, Receive, ReceiveNothing, ReceiveNoData, NoData, ReceiveLooks,
       ReceiveRelease, ReceiveAborted, ReceiveError, ReceiveRest, StepOnly, PumpOnly, TakeRelease,
       TakeDisconnect
  <1>2. CASE ReceiveNothing \/ ReceiveNoData \/ NoData \/ ReceiveLooks
    BY <1>1, <1>2, QuietKeeps DEF EInv, Ends, Quiet, ReceiveNothing, ReceiveNoData, NoData,
       ReceiveLooks, Goto
  <1>3. CASE ReceiveRelease
    BY <1>1, <1>3, QuietKeeps DEF EInv, Ends, Quiet, ReceiveRelease, TakeRelease, Again
  <1>4. CASE ReceiveAborted \/ ReceiveError
    BY <1>1, <1>4, QuietKeeps DEF EInv, IInv, InPump, Terminal, Ends, Quiet, Idle13,
       ReceiveAborted, ReceiveError, TakeDisconnect, FailMutely
  <1> QED BY <1>2, <1>3, <1>4 DEF Receive

(* Closed here is the end of the peer's stream.                            *)
LEMMA StepEnds ==
    ASSUME EInv, IInv', DeliverStaged \/ BuildSend \/ End
    PROVE  EInv'
  <1>1. Quiet /\ (discInd \/ discConsumed => discInd' \/ discConsumed')
    BY DEF Quiet, DeliverStaged, BuildSend, End, StepOnly, PumpOnly
  <1>2. CASE DeliverStaged \/ BuildSend
    BY <1>1, <1>2, QuietKeeps DEF EInv, Ends, Quiet, DeliverStaged, BuildSend,
       Again, Return
  <1>3. CASE End
    BY <1>1, <1>3, QuietKeeps DEF EInv, IInv, InPump, Terminal, Ends, Quiet, End,
       Ended, Return
  <1> QED BY <1>2, <1>3

-----------------------------------------------------------------------------
(* The steps that move units.                                              *)

LEMMA ReceiveDataEnds ==
    ASSUME EInv, IInv', ReceiveData
    PROVE  EInv'
  <1>1. Tally'
    <2>1. PICK k \in Int :
            queued' = queued - k /\ recvLen' = recvLen + k /\ transit' = transit
      <3>1. Least(queued, IoSize - recvLen) \in Int
        BY Sizes DEF EInv, IInv, Counts, Least
      <3> QED BY <3>1 DEF ReceiveData, ReceiveRest, StepOnly, PumpOnly
    <2>2. Units' = Units /\ Units' <= Units
      BY <2>1, UnitsNat DEF EInv, Units
    <2> QED BY <2>2, SameTally DEF EInv, Unhurt, ReceiveData, ReceiveRest, StepOnly, PumpOnly
  <1>2. LastWord'
    BY DEF EInv, LastWord, ReceiveData, ReceiveRest, StepOnly, PumpOnly
  <1>3. Ends'
    BY DEF EInv, IInv, InPump, Terminal, Idle13, Ends, Again, ReceiveData, ReceiveRest, StepOnly,
       PumpOnly
  <1> QED BY <1>1, <1>2, <1>3 DEF EInv

LEMMA NetworkEnds ==
    ASSUME EInv, IInv', Arrive \/ PeerDies \/ PeerRelease \/ PeerAbort, UNCHANGED ownVars
    PROVE  EInv'
  <1>0. /\ recvLen \in Nat /\ queued \in Nat /\ transit \in Nat
        /\ recvLen' \in Nat /\ queued' \in Nat /\ transit' \in Nat
    BY Sizes DEF EInv, IInv, Counts
  <1>1. Tally'
    <2>1. CASE Arrive
      <3>1. Units' = Units /\ Units' <= Units
        BY <1>0, <2>1 DEF Arrive, Units
      <3> QED BY <2>1, <3>1, SameTally DEF EInv, Unhurt, Arrive, NetworkOnly
    <2>2. CASE PeerDies
      <3>1. Units' <= Units
        <4>1. transit' <= transit /\ UNCHANGED <<recvLen, queued>>
          BY <1>0, <2>2 DEF PeerDies
        <4>2. ASSUME NEW a \in Nat, NEW b \in Nat, NEW c \in Nat, NEW d \in Nat, d <= c
              PROVE  a + b + d <= a + b + c
          BY <4>2
        <4>3. recvLen + queued + transit' <= recvLen + queued + transit
          BY <1>0, <4>1, <4>2
        <4> QED BY <4>1, <4>3 DEF Units
      <3> QED BY <2>2, <3>1, SameTally DEF EInv, Unhurt, PeerDies, NetworkOnly
    <2>3. CASE PeerRelease
      <3>1. Units' = Units /\ Units' <= Units
        BY <1>0, <2>3 DEF PeerRelease, Units
      <3> QED BY <2>3, <3>1, SameTally DEF EInv, Unhurt, PeerRelease, NetworkOnly
    <2>4. CASE PeerAbort
      <3>1. Units' <= Units
        BY <1>0, <2>4 DEF PeerAbort, Units
      <3> QED BY <2>4, <3>1, SameTally DEF EInv, Unhurt, PeerAbort
    <2> QED BY <2>1, <2>2, <2>3, <2>4
  <1>2. LastWord'
    BY DEF EInv, LastWord, Arrive, PeerDies, PeerRelease, PeerAbort
  <1>3. Ends'
    BY <1>0 DEF EInv, Ends, Arrive, PeerDies, PeerRelease, PeerAbort, NetworkOnly
  <1> QED BY <1>1, <1>2, <1>3 DEF EInv

LEMMA PeerSends13Ends ==
    ASSUME EInv, IInv', PeerSends13
    PROVE  EInv'
  <1> PICK k \in Kinds, n \in 0..MaxData :
        /\ PeerSends([kind |-> k, n |-> n, key |-> peerKey])
        /\ UNCHANGED <<recvLen, staged, flight, unsent, cached, wired>>
    BY DEF PeerSends13
  <1> DEFINE r == [kind |-> k, n |-> n, key |-> peerKey]
  <1>0. r \in Record /\ r.kind = k
    BY Sizes DEF EInv, IInv, Counts, Record
  <1> HIDE DEF r
  <1>1. /\ records' = Append(records, r) /\ transit' = transit + Size(r)
        /\ peerDone' = (r.kind \in {"notify", "fatal"})
        /\ ~peerDone /\ UNCHANGED <<nfOrd, nfDisc, indVars, queued, truncated>>
        /\ UNCHANGED <<state, endVars, recvLen, pc>>
    BY DEF PeerSends, NetworkOnly, r
  <1>2. Tally'
    <2>1. PICK m \in Nat :
            /\ Weighs(SizeOf, records, m)
            /\ m >= Units
            /\ Unhurt => m = Units
      BY DEF EInv, Tally
    <2>2. Weighs(SizeOf, records', m + Size(r)) /\ Size(r) \in Nat
      BY <1>0, <1>1, <2>1, WeighsAppend, SizeOfSizes DEF EInv, IInv, Stream
    <2>3. Units \in Nat /\ Units' = Units + Size(r)
      BY <1>1, <2>2, UnitsNat DEF EInv, Units
    <2>4. UNCHANGED Unhurt
      BY <1>1 DEF Unhurt
    <2>5. /\ m + Size(r) \in Nat
          /\ m + Size(r) >= Units'
          /\ Unhurt' => m + Size(r) = Units'
      BY <2>1, <2>2, <2>3, <2>4
    <2> QED BY <2>2, <2>5 DEF Tally
  <1>3. LastWord'
    <2> SUFFICES ASSUME NEW i \in 1..Len(records'), records'[i].kind = "notify"
                 PROVE  i = Len(records') /\ peerDone'
      BY DEF LastWord
    <2>1. /\ Len(records') = Len(records) + 1 /\ Len(records) \in Nat
          /\ records'[Len(records) + 1] = r
          /\ \A j \in 1..Len(records) : records'[j] = records[j]
      BY <1>0, <1>1, AppendProperties, LenProperties DEF EInv, IInv, Stream
    <2>2. i \notin 1..Len(records)
      BY <1>1, <2>1 DEF EInv, LastWord
    <2>3. i = Len(records) + 1
      BY <2>1, <2>2
    <2>4. r.kind = "notify"
      BY <2>1, <2>3
    <2> QED BY <1>1, <2>1, <2>3, <2>4
  <1>4. Ends'
    BY <1>1 DEF EInv, Ends
  <1> QED BY <1>2, <1>3, <1>4 DEF EInv

(* A record leaves the buffer, and the sum, with all its units.            *)
LEMMA ConsumeEnds ==
    ASSUME EInv, IInv', Consume
    PROVE  EInv'
  <1> DEFINE r == Head(records)
  <1>0. /\ records # <<>> /\ records \in Seq(Record) /\ r \in Record
        /\ recvLen >= Size(r) /\ Size(r) \in Nat /\ SizeOf[r] = Size(r)
    BY HeadAndTail, SizeOfSizes DEF EInv, IInv, Stream, Consume, Decrypts, Whole
  <1> HIDE DEF r
  <1>1. /\ recvLen' = recvLen - Size(r) /\ records' = Tail(records)
        /\ UNCHANGED <<queued, transit, truncated, peerDone, nfOrd, ordInd, discInd,
                       discConsumed>>
        /\ pc' \in {"app", "top"}
    BY DEF Consume, FailLoudly, Again, Return, Leftover, StepOnly, PumpOnly, r
  <1>2. Tally'
    <2>1. PICK m \in Nat :
            /\ Weighs(SizeOf, records, m)
            /\ m >= Units
            /\ Unhurt => m = Units
      BY DEF EInv, Tally
    <2>2. Weighs(SizeOf, records', m - Size(r)) /\ Size(r) <= m
      BY <1>0, <1>1, <2>1, WeighsTail, SizeOfSizes DEF r
    <2>3. Units \in Nat /\ Units' = Units - Size(r)
      BY <1>0, <1>1, UnitsNat DEF EInv, Units
    <2>4. UNCHANGED Unhurt
      BY <1>1 DEF Unhurt
    <2>5. /\ m - Size(r) \in Nat
          /\ m - Size(r) >= Units'
          /\ Unhurt' => m - Size(r) = Units'
      BY <1>0, <2>1, <2>2, <2>3, <2>4
    <2> QED BY <2>2, <2>5 DEF Tally
  <1>3. /\ Len(records) \in Nat \ {0} /\ Len(records') = Len(records) - 1 /\ r = records[1]
        /\ \A i \in 1..(Len(records) - 1) : records'[i] = records[i + 1]
    BY <1>0, <1>1, HeadTailProperties, EmptySeq DEF r
  <1>4. LastWord'
    <2> SUFFICES ASSUME NEW i \in 1..Len(records'), records'[i].kind = "notify"
                 PROVE  i = Len(records') /\ peerDone'
      BY DEF LastWord
    <2>1. i + 1 \in 1..Len(records) /\ records[i + 1].kind = "notify"
      BY <1>3
    <2>2. i + 1 = Len(records) /\ peerDone
      BY <2>1 DEF EInv, LastWord
    <2>3. i = Len(records')
      BY <1>3, <2>2
    <2> QED BY <1>1, <2>2, <2>3
  <1>5. Ends'
    <2>1. CASE r.kind = "notify"
      <3>1. 1 \in 1..Len(records) /\ records[1].kind = "notify"
        BY <1>3, <2>1
      <3>2. Len(records) = 1 /\ peerDone
        BY <3>1 DEF EInv, LastWord
      <3>3. records' = <<>>
        BY <1>0, <1>1, <1>3, <3>2, EmptySeq, HeadTailProperties
      <3>4. state' \in {"Closed", "Failed"}  /\ (peerClosed' => peerClosed \/ state' = "Closed")
        BY <2>1 DEF Consume, FailLoudly, r
      <3>5. discConsumed => FALSE
        BY DEF EInv, IInv, Ends, InPump, Terminal, Consume, Decrypts
      <3>6. state # "Closed"
        BY DEF EInv, IInv, Ends, InPump, Terminal, Consume
      <3> QED BY <1>1, <3>2, <3>3, <3>4, <3>5, <3>6 DEF EInv, Ends
    <2>2. CASE r.kind # "notify"
      <3>1. state' \in {state, "Failed"} /\ UNCHANGED peerClosed
        BY <2>2 DEF Consume, FailLoudly, r
      <3>2. state \notin {"Closed", "Failed"}
        BY DEF EInv, IInv, InPump, Terminal, Consume
      <3> QED BY <1>1, <3>1, <3>2 DEF EInv, Ends
    <2> QED BY <2>1, <2>2
  <1> QED BY <1>2, <1>4, <1>5 DEF EInv

-----------------------------------------------------------------------------
LEMMA InitEnds == Init => EInv
  <1> SUFFICES ASSUME Init PROVE EInv
    OBVIOUS
  <1>1. Tally
    <2>1. Weighs(SizeOf, records, 0)
      BY WeighsNothing DEF Init, PathInit
    <2>2. Units = 0
      BY DEF Units, Init, PathInit
    <2> QED BY <2>1, <2>2 DEF Tally
  <1>2. LastWord /\ Ends
    BY DEF LastWord, Ends, Init, PathInit
  <1> QED BY <1>1, <1>2, InitInv DEF EInv

LEMMA NextEnds == EInv /\ [Next]_vars => EInv'
  <1> SUFFICES ASSUME EInv, [Next]_vars PROVE EInv'
    OBVIOUS
  <1>0. IInv'
    BY NextInv DEF EInv
  <1>1. CASE UNCHANGED vars
    <2>1. Tally' /\ LastWord' /\ Ends'
      BY <1>1 DEF EInv, Tally, Units, Unhurt, LastWord, Ends, vars, pathVars
    <2> QED BY <1>0, <2>1 DEF EInv
  <1>2. CASE PeerSends13
    BY <1>0, <1>2, PeerSends13Ends
  <1>3. CASE Close
    BY <1>0, <1>3, CallerEnds
  <1>4. CASE (Network \/ Write \/ Read \/ CallerPumps) /\ UNCHANGED ownVars
    BY <1>0, <1>4, CallerEnds, NetworkEnds, Zenon
       DEF Network, CallerPumps, PumpNow, PollTick
  <1>5. CASE PumpStep
    BY <1>0, <1>5, CallerEnds, FlushEnds, StepEnds, ConsumeEnds, ReceiveDataEnds,
       ReceiveEnds, Zenon DEF PumpStep, Step
  <1> QED BY <1>1, <1>2, <1>3, <1>4, <1>5, Zenon DEF Next

(* A Closed session whose endpoint is drained has nothing left to read.    *)
LEMMA NothingUnread == EInv => ReadToTheEnd
  <1> SUFFICES ASSUME EInv, state = "Closed", queued = 0, ~truncated, ~discInd
               PROVE  records = <<>>
    BY DEF ReadToTheEnd
  <1>1. CASE records # <<>>
    <2>1. recvLen < HeaderSize /\ transit = 0 /\ Unhurt
      BY <1>1 DEF EInv, Ends, Unhurt
    <2>2. PICK m \in Nat : Weighs(SizeOf, records, m) /\ m = Units
      BY <2>1 DEF EInv, Tally
    <2>3. m < HeaderSize
      BY <2>1, <2>2, Sizes DEF EInv, IInv, Counts, Units
    <2>4. Head(records) \in Record /\ records \in Seq(Record)
      BY <1>1, HeadAndTail DEF EInv, IInv, Stream
    <2>5. SizeOf[Head(records)] <= m
      BY <1>1, <2>2, <2>4, WeighsTail, SizeOfSizes
    <2> QED BY <2>3, <2>4, <2>5, SizeOfSizes, Sizes
  <1> QED BY <1>1

(* pump_tls13_step and pump_tls13_consume_record close a session only after*)
(* every record the endpoint handed over: with nothing left in the endpoint*)
(* and no abort, no data of the peer is unread.                            *)
THEOREM NothingUnreadAtTheEnd == Spec => []ReadToTheEnd
  <1>1. Init => EInv
    BY InitEnds
  <1>2. EInv /\ [Next]_vars => EInv'
    BY NextEnds
  <1>3. EInv => ReadToTheEnd
    BY NothingUnread
  <1> QED BY <1>1, <1>2, <1>3, PTL DEF Spec

=============================================================================

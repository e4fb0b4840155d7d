---------------------------- MODULE OSTLSStream13 ----------------------------
(***************************************************************************)
(* The data path of an open TLS 1.3 session (os9/ostls_async.c), from the  *)
(* endpoint to the caller and back: the raw record buffer, the record that *)
(* is decrypted and staged, the read ring, the write queue and the record  *)
(* in flight, under OTSnd's flow control, a release, an abort, close_notify*)
(* and OSTLS_Close.                                                        *)
(***************************************************************************)
EXTENDS OSTLSDataPath

CONSTANT IoSize   (* sizeof ssl_iobuf *)

(* The buffer holds the largest record.                                    *)
ASSUME StreamAssumption == IoSize \in Nat /\ IoSize >= HeaderSize + MaxData

VARIABLES
    (* struct OSTLSConnection *)
    recvLen,         (* tls13_recv_len                                     *)
    staged,          (* t13_plain_len - t13_plain_off                      *)
    flight,          (* plaintext bytes in t13_send_rec                    *)
    unsent,          (* t13_send_len - t13_send_off                        *)
    cached,          (* a ticket of this session is in the cache           *)
    (* the peer *)
    peerKey,         (* its key generation                                 *)
    (* history *)
    wired            (* bytes of records sent entirely                     *)

ownVars   == <<recvLen, staged, flight, unsent, cached, peerKey, wired>>
inVars    == <<recvLen, records, cached>>
plainVars == <<staged, readAvail>>
outVars   == <<writeAvail, flight, unsent, wired>>
vars      == <<pathVars, ownVars>>

Kinds == {"data", "ticket", "update", "ticketUpdate", "notify"}

Init ==
    /\ PathInit
    /\ recvLen = 0 /\ staged = 0 /\ flight = 0 /\ unsent = 0 /\ cached = FALSE
    /\ peerKey = 0 /\ wired = 0

(* A record under the peer's present key; after a KeyUpdate it sends with  *)
(* the next one.                                                           *)
PeerSends13 ==
    \E k \in Kinds, n \in 0..MaxData :
        /\ k # "data" => n = 1
        /\ PeerSends([kind |-> k, n |-> n, key |-> peerKey])
        /\ peerKey' = IF k \in {"update", "ticketUpdate"} THEN peerKey + 1 ELSE peerKey
        /\ UNCHANGED <<recvLen, staged, flight, unsent, cached, wired>>

(* OSTLS_Close of a 1.3 session                                            *)
Close ==
    /\ pc = "app" /\ ~closeReq /\ closeReq' = TRUE
    /\ IF state \in Terminal THEN UNCHANGED <<state, ot>>
       ELSE /\ state' = "Closing"
            /\ ot' = IF discInd THEN ot ELSE AfterSndRelease(ot)
    /\ UNCHANGED <<endVars, nfOrd, nfDisc, readAvail, writeAvail, pc, event, ordInd, discInd,
                   queued, flowVars, records, netVars, accepted, ownVars>>

-----------------------------------------------------------------------------
(* pump_tls13_step, the record in flight: ostls_send_raw.                  *)

StepOnly == PumpOnly /\ UNCHANGED peerKey

FlushRest == UNCHANGED <<inVars, plainVars, queued>> /\ StepOnly

CanSnd == ot = "dataxfer" /\ unsent > 0

(* Nothing in flight, or not a state to send in.                           *)
FlushNothing ==
    /\ pc = "flush" /\ ~CanSnd
    /\ Goto("records")
    /\ UNCHANGED <<state, endVars, outVars, indVars, flowVars>> /\ FlushRest

(* What fits; SendDrains decides how much that is.                         *)
FlushSome ==
    /\ pc = "flush" /\ CanSnd /\ room > 0 /\ ~discInd
    /\ unsent' = unsent - Least(unsent, room) /\ room' = room - Least(unsent, room)
    /\ IF room >= unsent
       THEN flight' = 0 /\ wired' = wired + flight /\ Bump("Writable")
       ELSE UNCHANGED <<flight, wired, event>>
    /\ Again
    /\ UNCHANGED <<state, endVars, writeAvail, indVars, wantWrite, goOwed>> /\ FlushRest

(* No room: OTSnd takes nothing, or answers kOTFlowErr and owes T_GODATA;  *)
(* nf_want_write is set after the call returned.                           *)
FlushBlocked ==
    /\ pc = "flush" /\ CanSnd /\ room = 0 /\ ~discInd
    /\ \/ Goto("records") /\ UNCHANGED goOwed
       \/ Goto("flow") /\ goOwed' = TRUE
    /\ UNCHANGED <<state, endVars, outVars, indVars, wantWrite, room>> /\ FlushRest

SetWantWrite ==
    /\ pc = "flow" /\ Goto("records")
    /\ wantWrite' = TRUE
    /\ UNCHANGED <<state, endVars, outVars, indVars, room, goOwed>> /\ FlushRest

(* kOTLookErr: a release that OTLook told of is taken by the next step, an *)
(* abort ends the connection.                                              *)
FlushLooks ==
    /\ pc = "flush" /\ CanSnd /\ ordInd
    /\ Goto("sndrel")
    /\ UNCHANGED <<state, endVars, outVars, indVars, flowVars>> /\ FlushRest

FlushRelease ==
    /\ pc = "sndrel"
    /\ TakeRelease /\ Goto("records")
    /\ UNCHANGED <<state, outVars, flowVars>> /\ FlushRest

FlushAborted ==
    /\ pc = "flush" /\ CanSnd /\ discInd
    /\ TakeDisconnect /\ FailMutely
    /\ UNCHANGED <<outVars, flowVars>> /\ FlushRest

FlushError ==
    /\ pc = "flush" /\ CanSnd /\ ~discInd
    /\ FailMutely
    /\ UNCHANGED <<endVars, outVars, indVars, flowVars>> /\ FlushRest

Flush == FlushNothing \/ FlushSome \/ FlushBlocked \/ SetWantWrite \/ FlushLooks
         \/ FlushRelease \/ FlushAborted \/ FlushError

-----------------------------------------------------------------------------
(* pump_tls13_step, the record layer: the first of these that applies.     *)

(* Variant: the room left in the ring is not looked at.                    *)
DeliverUnbounded(p) ==
    /\ staged' = 0 /\ readAvail' = readAvail + p
    /\ IF p > 0 THEN Bump("Readable") ELSE UNCHANGED event

(* pump_tls13_deliver_plain of p bytes: how far the end of the ring lets   *)
(* it is a choice.                                                         *)
Deliver(p) ==
    IF p > 0 /\ readAvail < RingSize
    THEN /\ \E k \in 1..Least(p, RingSize - readAvail) :
              staged' = p - k /\ readAvail' = readAvail + k
         /\ Bump("Readable")
    ELSE staged' = p /\ UNCHANGED <<readAvail, event>>

DeliverStaged ==
    /\ pc = "records" /\ staged > 0
    /\ Deliver(staged)
    /\ IF readAvail < RingSize THEN Again ELSE Return
    /\ UNCHANGED <<state, endVars, inVars, outVars, indVars, queued, flowVars>> /\ StepOnly

(* Variant: a record is built over the one in flight.                      *)
BuildsAlways == staged = 0 /\ writeAvail > 0

Builds == staged = 0 /\ writeAvail > 0 /\ unsent = 0

(* pump_tls13_build_send                                                   *)
BuildSend ==
    /\ pc = "records" /\ Builds
    /\ flight' = writeAvail /\ unsent' = HeaderSize + writeAvail /\ writeAvail' = 0
    /\ UNCHANGED event /\ Again
    /\ UNCHANGED <<state, endVars, inVars, plainVars, wired, indVars, queued,
                   flowVars>> /\ StepOnly

(* Variant: a record that fills the buffer exactly is not taken for whole. *)
WholeButLast == records # <<>> /\ recvLen >= HeaderSize /\ recvLen > Size(Head(records))

Whole == records # <<>> /\ recvLen >= HeaderSize /\ recvLen >= Size(Head(records))

(* Variant: records are decrypted although plaintext is still staged.      *)
DecryptsAlways == ~Builds /\ Whole

Decrypts == staged = 0 /\ ~Builds /\ Whole

(* Variant: what follows the record in the buffer is forgotten.            *)
LeftoverDropped(r) == 0

Leftover(r) == recvLen - Size(r)

(* pump_tls13_consume_record: the receiving key never changes, so a record *)
(* under the next one fails.  Of a record with two messages the first is   *)
(* looked at; a KeyUpdate is refused and the refusal ignored.              *)
Consume ==
    /\ pc = "records" /\ Decrypts
    /\ LET r == Head(records) IN
         /\ recvLen' = Leftover(r) /\ records' = Tail(records)
         /\ \/ /\ r.key # 0
               /\ FailLoudly /\ UNCHANGED <<peerClosed, plainVars, cached>>
            \/ /\ r.key = 0 /\ r.kind = "data"
               /\ Deliver(r.n)
               /\ Again /\ UNCHANGED <<state, peerClosed, cached>>
            \/ /\ r.key = 0 /\ r.kind = "notify"
               /\ peerClosed' = TRUE /\ state' = "Closed" /\ Bump("Closed")
               /\ Return /\ UNCHANGED <<plainVars, cached>>
            \/ /\ r.key = 0 /\ r.kind \in {"ticket", "update", "ticketUpdate"}
               /\ cached' = (cached \/ r.kind # "update")
               /\ UNCHANGED <<state, peerClosed, plainVars, event>> /\ Again
    /\ UNCHANGED <<ordConsumed, discConsumed, outVars, indVars, queued, flowVars>> /\ StepOnly

-----------------------------------------------------------------------------
(* pump_tls13_step, receiving: pump_ot_recv_tls13.                         *)

Idle13 == pc = "records" /\ staged = 0 /\ ~Builds /\ ~Whole

ReceiveRest == UNCHANGED <<records, cached, plainVars, outVars, flowVars>> /\ StepOnly

CanRcv == ~peerClosed /\ recvLen < IoSize /\ ot \in {"dataxfer", "outrel"}

ReceiveNothing ==
    /\ Idle13 /\ ~CanRcv
    /\ Goto("end")
    /\ UNCHANGED <<state, endVars, recvLen, indVars, queued>> /\ ReceiveRest

(* OTRcv hands over the bytes there are before it tells of a release; where*)
(* the stream is cut is Arrive's choice.                                   *)
ReceiveData ==
    /\ Idle13 /\ CanRcv /\ queued > 0 /\ ~discInd
    /\ LET k == Least(queued, IoSize - recvLen) IN
         queued' = queued - k /\ recvLen' = recvLen + k
    /\ UNCHANGED event /\ Again
    /\ UNCHANGED <<state, endVars, indVars>> /\ ReceiveRest

(* kOTNoDataErr; nf_ord_release is looked at after the call returned.      *)
ReceiveNoData ==
    /\ Idle13 /\ CanRcv /\ queued = 0 /\ ~discInd
    /\ Goto("nodata")
    /\ UNCHANGED <<state, endVars, recvLen, indVars, queued>> /\ ReceiveRest

NoData ==
    /\ pc = "nodata"
    /\ IF nfOrd /\ ~ordConsumed THEN Goto("rcvrel") ELSE Goto("end")
    /\ UNCHANGED <<state, endVars, recvLen, indVars, queued>> /\ ReceiveRest

(* 0, or kOTLookErr with T_ORDREL.                                         *)
ReceiveLooks ==
    /\ Idle13 /\ CanRcv /\ queued = 0 /\ ordInd
    /\ Goto("rcvrel")
    /\ UNCHANGED <<state, endVars, recvLen, indVars, queued>> /\ ReceiveRest

ReceiveRelease ==
    /\ pc = "rcvrel"
    /\ TakeRelease /\ UNCHANGED event /\ Again
    /\ UNCHANGED <<state, recvLen, queued>> /\ ReceiveRest

ReceiveAborted ==
    /\ Idle13 /\ CanRcv /\ discInd
    /\ TakeDisconnect /\ FailMutely
    /\ UNCHANGED <<recvLen, queued>> /\ ReceiveRest

ReceiveError ==
    /\ Idle13 /\ CanRcv /\ ~discInd
    /\ FailMutely
    /\ UNCHANGED <<endVars, recvLen, indVars, queued>> /\ ReceiveRest

(* Variant: the record in flight is waited for.                            *)
EndedAndSent == peerClosed /\ staged = 0 /\ recvLen < HeaderSize /\ unsent = 0

(* The peer is gone and no record is begun.                                *)
Ended == peerClosed /\ staged = 0 /\ recvLen < HeaderSize

(* The end of the step.                                                    *)
End ==
    /\ pc = "end"
    /\ IF Ended
       THEN state' = "Closed" /\ Bump("Closed") /\ Return
       ELSE UNCHANGED <<state, event>> /\ Return
    /\ UNCHANGED <<endVars, inVars, plainVars, outVars, indVars, queued, flowVars>> /\ StepOnly

Receive == ReceiveNothing \/ ReceiveData \/ ReceiveNoData \/ NoData \/ ReceiveLooks
           \/ ReceiveRelease \/ ReceiveAborted \/ ReceiveError

Step == Flush \/ DeliverStaged \/ BuildSend \/ Consume \/ Receive \/ End

PumpStep == Step \/ (Top("flush") /\ UNCHANGED ownVars)

Next == \/ PeerSends13 \/ Close \/ PumpStep
        \/ (Network \/ Write \/ Read \/ CallerPumps) /\ UNCHANGED ownVars

Spec == Init /\ [][Next]_vars

(* The caller keeps pumping, at the next poll tick when it is told to wait,*)
(* and reads what it gets; TCP delivers what was sent, both ways.          *)
FairSpec ==
    /\ Spec
    /\ WF_vars(PumpStep \/ (CallerPumps /\ state \notin Terminal /\ UNCHANGED ownVars))
    /\ SF_vars(Read /\ UNCHANGED ownVars)
    /\ WF_vars((Arrive \/ SendDrains) /\ UNCHANGED ownVars)

-----------------------------------------------------------------------------
(* Properties.                                                             *)

(* The type invariant; every count stays inside its buffer.                *)
TypeOK ==
    /\ PathTypeOK({"flush", "flow", "sndrel", "records", "nodata", "rcvrel", "end"},
                  [kind : Kinds, n : 0..MaxData, key : 0..MaxRecords])
    /\ recvLen \in 0..IoSize /\ staged \in 0..MaxData
    /\ flight \in 0..QueueSize /\ unsent \in 0..(HeaderSize + QueueSize)
    /\ cached \in BOOLEAN /\ peerKey \in 0..MaxRecords /\ wired \in 0..MaxWrite

(* Closed is never reached over plaintext still staged: Pump does no more  *)
(* work there, so OSTLS_Read could not get it.                             *)
NothingStranded == state = "Closed" => staged = 0

(* Nor over a record still to be read, if the endpoint has handed over all *)
(* that arrived; EndMeansAll is about the rest.                            *)
ReadToTheEnd ==
    state = "Closed" /\ queued = 0 /\ ~truncated /\ ~discInd =>
        \A i \in DOMAIN records : records[i].kind # "data" \/ records[i].n = 0

(* Every byte OSTLS_Write accepted is on the wire, in the record in flight *)
(* or queued: a record is not replaced before the last of it has gone.     *)
WrittenOnce ==
    /\ accepted = wired + flight + writeAvail
    /\ (flight > 0) <=> (unsent > 0)

(* With a caller that pumps and reads, what has arrived and what is being  *)
(* sent move on: no full ring, record buffer or staged record holds up     *)
(* another for ever.  Nor does an nf_want_write set after the T_GODATA that*)
(* should clear it, for a caller that defers to its poll tick.             *)
HasWork == staged > 0 \/ Whole \/ (queued > 0 /\ ~peerClosed) \/ CanSnd
NoStall == HasWork ~> (~HasWork \/ state \in Terminal)

(* After the peer's release the connection ends by itself, unless the rest *)
(* of a record that was begun is still missing.                            *)
FinSettles == peerClosed ~> (state \in Terminal \/ (recvLen >= HeaderSize /\ ~Whole))

-----------------------------------------------------------------------------
(* What the documents say and the code does not do.                        *)

(* ostls_async.h, kOSTLSEventClosed: "peer FIN received; drain then close":*)
(* after the FIN of a peer that sent whole records, Closed means that they *)
(* were all received.                                                      *)
EndMeansAll ==
    state = "Closed" /\ ~truncated /\ ~discInd =>
        \A i \in DOMAIN records : records[i].kind # "data" \/ records[i].n = 0

=============================================================================

---------------------------- MODULE OSTLSStream12 ----------------------------
(***************************************************************************)
(* The data path of an open TLS 1.2 session (os9/ostls_async.c):           *)
(* pump_bearssl_step moves units between the endpoint, the BearSSL engine  *)
(* (SslEngine), the read ring and the write queue.                         *)
(***************************************************************************)
EXTENDS OSTLSDataPath

CONSTANT MaxOut   (* plaintext the largest outgoing record takes *)

ASSUME OutAssumption == MaxOut \in Nat \ {0}

Ssl == INSTANCE SslEngine

VARIABLES
    eng,             (* conn->sc.eng                                       *)
    (* history *)
    wired,           (* bytes of records sent entirely                     *)
    dropped          (* bytes of records taken from the engine unsent      *)

ownVars  == <<eng, wired, dropped>>
sentVars == <<wired, dropped>>
vars     == <<pathVars, ownVars>>

Init == PathInit /\ eng = Ssl!Established /\ wired = 0 /\ dropped = 0

PeerSends12 ==
    \E k \in {"data", "warning", "fatal", "notify"}, n \in 0..MaxData :
        /\ k # "data" => n = 1
        /\ PeerSends([kind |-> k, n |-> n])
        /\ UNCHANGED ownVars

(* OSTLS_Close of a 1.2 session: close_notify, and the engine waits for the*)
(* peer's.                                                                 *)
Close ==
    /\ pc = "app" /\ ~closeReq /\ closeReq' = TRUE
    /\ IF state \in Terminal THEN UNCHANGED <<state, eng>>
       ELSE state' = "Closing" /\ eng' = Ssl!EngineClose(eng)
    /\ UNCHANGED <<endVars, nfOrd, nfDisc, readAvail, writeAvail, pc, event, indVars, queued,
                   flowVars, records, netVars, accepted, sentVars>>

-----------------------------------------------------------------------------
(* pump_bearssl_step: BR_SSL_CLOSED.                                       *)

EngineEnds ==
    /\ pc = "step" /\ Ssl!IsClosed(eng)
    /\ IF eng.err = "ok" THEN state' = "Closed" /\ Bump("Closed") /\ Return ELSE FailLoudly
    /\ UNCHANGED <<endVars, readAvail, writeAvail, indVars, queued, flowVars, records, ownVars>>
    /\ PumpOnly

-----------------------------------------------------------------------------
(* pump_ot_send_from_bearssl.                                              *)

SendRest == UNCHANGED <<readAvail, writeAvail, queued, records>> /\ PumpOnly

HasRecord == pc = "step" /\ Ssl!SendRec(eng)
CanSnd    == HasRecord /\ ot = "dataxfer"

SendNothing ==
    /\ pc = "step" /\ ~Ssl!IsClosed(eng) /\ ~Ssl!SendRec(eng)
    /\ Goto("recv")
    /\ UNCHANGED <<state, endVars, indVars, flowVars, ownVars>> /\ SendRest

(* The record goes nowhere; the engine is told it went.                    *)
DropRecord ==
    /\ eng' = Ssl!SendRecAck(eng, eng.unsent)
    /\ dropped' = dropped + eng.flight
    /\ UNCHANGED <<wired, event>> /\ Again

SendGone ==
    /\ HasRecord /\ ot # "dataxfer"
    /\ DropRecord
    /\ UNCHANGED <<state, endVars, indVars, flowVars>> /\ SendRest

(* What fits; SendDrains decides how much that is.                         *)
SendSome ==
    /\ CanSnd /\ room > 0 /\ ~discInd
    /\ LET k == Least(eng.unsent, room) IN
         /\ room' = room - k
         /\ eng' = Ssl!SendRecAck(eng, k)
         /\ wired' = IF k = eng.unsent THEN wired + eng.flight ELSE wired
    /\ UNCHANGED event /\ Again
    /\ UNCHANGED <<state, endVars, indVars, wantWrite, goOwed, dropped>> /\ SendRest

(* No room: OTSnd takes nothing, or answers kOTFlowErr and owes T_GODATA;  *)
(* nf_want_write is set after the call returned.                           *)
SendBlocked ==
    /\ CanSnd /\ room = 0 /\ ~discInd
    /\ \/ Goto("recv") /\ UNCHANGED goOwed
       \/ Goto("flow") /\ goOwed' = TRUE
    /\ UNCHANGED <<state, endVars, indVars, wantWrite, room, ownVars>> /\ SendRest

SetWantWrite ==
    /\ pc = "flow" /\ Goto("recv")
    /\ wantWrite' = TRUE
    /\ UNCHANGED <<state, endVars, indVars, room, goOwed, ownVars>> /\ SendRest

(* kOTLookErr: a release that OTLook told of is taken by the next step.    *)
SendLooks ==
    /\ CanSnd /\ ordInd
    /\ Goto("sndrel")
    /\ UNCHANGED <<state, endVars, indVars, flowVars, ownVars>> /\ SendRest

SendRelease ==
    /\ pc = "sndrel"
    /\ TakeRelease /\ DropRecord
    /\ UNCHANGED <<state, flowVars>> /\ SendRest

SendAborted ==
    /\ CanSnd /\ discInd
    /\ TakeDisconnect /\ FailMutely
    /\ UNCHANGED <<flowVars, ownVars>> /\ SendRest

SendError ==
    /\ CanSnd /\ ~discInd
    /\ FailMutely
    /\ UNCHANGED <<endVars, indVars, flowVars, ownVars>> /\ SendRest

Send == SendNothing \/ SendGone \/ SendSome \/ SendBlocked \/ SetWantWrite \/ SendLooks
        \/ SendRelease \/ SendAborted \/ SendError

-----------------------------------------------------------------------------
(* pump_ot_recv_into_bearssl.  Its branch for an endpoint that cannot      *)
(* receive is not reached: whatever takes it there sets peer_closed or     *)
(* ends the connection.                                                    *)

ReceiveRest == UNCHANGED <<readAvail, writeAvail, flowVars, sentVars>> /\ PumpOnly

Receiving == pc = "recv" /\ Ssl!RecvRec(eng) /\ ~peerClosed

ReceiveNothing ==
    /\ pc = "recv" /\ ~Receiving
    /\ Goto("plain")
    /\ UNCHANGED <<state, endVars, indVars, queued, records, eng>> /\ ReceiveRest

ReceiveData ==
    /\ Receiving /\ queued > 0 /\ ~discInd
    /\ LET r == Head(records)
           k == Least(queued, Ssl!Wanted(eng, r))
       IN /\ queued' = queued - k
          /\ eng' = Ssl!RecvRecAck(eng, r, k)
          /\ records' = IF Ssl!Completes(eng, r, k) THEN Tail(records) ELSE records
    /\ UNCHANGED event /\ Again
    /\ UNCHANGED <<state, endVars, indVars>> /\ ReceiveRest

(* kOTNoDataErr; nf_ord_release is looked at after the call returned.      *)
ReceiveNoData ==
    /\ Receiving /\ queued = 0 /\ ~discInd
    /\ Goto("nodata")
    /\ UNCHANGED <<state, endVars, indVars, queued, records, eng>> /\ ReceiveRest

NoData ==
    /\ pc = "nodata"
    /\ IF nfOrd /\ ~ordConsumed THEN Goto("rcvrel") ELSE Goto("plain")
    /\ UNCHANGED <<state, endVars, indVars, queued, records, eng>> /\ ReceiveRest

(* 0, or kOTLookErr with T_ORDREL.                                         *)
ReceiveLooks ==
    /\ Receiving /\ queued = 0 /\ ordInd
    /\ Goto("rcvrel")
    /\ UNCHANGED <<state, endVars, indVars, queued, records, eng>> /\ ReceiveRest

ReceiveRelease ==
    /\ pc = "rcvrel"
    /\ TakeRelease /\ UNCHANGED event /\ Again
    /\ UNCHANGED <<state, queued, records, eng>> /\ ReceiveRest

ReceiveAborted ==
    /\ Receiving /\ discInd
    /\ TakeDisconnect /\ FailMutely
    /\ UNCHANGED <<queued, records, eng>> /\ ReceiveRest

ReceiveError ==
    /\ Receiving /\ ~discInd
    /\ FailMutely
    /\ UNCHANGED <<endVars, indVars, queued, records, eng>> /\ ReceiveRest

Receive == ReceiveNothing \/ ReceiveData \/ ReceiveNoData \/ NoData \/ ReceiveLooks
           \/ ReceiveRelease \/ ReceiveAborted \/ ReceiveError

-----------------------------------------------------------------------------
(* The plaintext, both ways, and the end of the step.                      *)

PlainRest == UNCHANGED <<endVars, indVars, queued, flowVars, records, sentVars>> /\ PumpOnly

Takes == Ssl!RecvApp(eng) /\ readAvail < RingSize
Gives == writeAvail > 0 /\ Ssl!SendApp(eng)

(* pump_bearssl_recvapp_to_ring; how far the end of the ring lets it is a  *)
(* choice.                                                                 *)
TakePlain ==
    /\ pc = "plain" /\ Takes
    /\ \E k \in 1..Least(eng.plain, RingSize - readAvail) :
         readAvail' = readAvail + k /\ eng' = Ssl!RecvAppAck(eng, k)
    /\ Bump("Readable") /\ Again
    /\ UNCHANGED <<state, writeAvail>> /\ PlainRest

(* pump_ring_to_bearssl_sendapp                                            *)
GivePlain ==
    /\ pc = "plain" /\ ~Takes /\ Gives
    /\ LET k == Least(writeAvail, MaxOut) IN
         /\ writeAvail' = writeAvail - k
         /\ eng' = Ssl!SendAppAck(eng, k)
         /\ IF k = writeAvail THEN Bump("Writable") ELSE UNCHANGED event
    /\ Again
    /\ UNCHANGED <<state, readAvail>> /\ PlainRest

(* Variant: plaintext the ring had no room for is not waited for.          *)
DrainedAlways == TRUE

Drained == ~Ssl!RecvApp(eng)

End ==
    /\ pc = "plain" /\ ~Takes /\ ~Gives
    /\ IF peerClosed /\ Drained
       THEN state' = "Closed" /\ Bump("Closed")
       ELSE UNCHANGED <<state, event>>
    /\ Return
    /\ UNCHANGED <<readAvail, writeAvail, eng>> /\ PlainRest

Step == EngineEnds \/ Send \/ Receive \/ TakePlain \/ GivePlain \/ End

PumpStep == Step \/ (Top("step") /\ UNCHANGED ownVars)

Next == \/ PeerSends12 \/ Close \/ PumpStep
        \/ (Network \/ Write \/ Read \/ CallerPumps) /\ UNCHANGED ownVars

Spec == Init /\ [][Next]_vars

(* The caller keeps pumping, at the next poll tick when it is told to wait,*)
(* and reads what it gets; TCP delivers what was sent, both ways.          *)
FairSpec ==
    /\ Spec
    /\ WF_vars(PumpStep \/ (CallerPumps /\ state \notin Terminal /\ UNCHANGED ownVars))
    /\ SF_vars(Read /\ UNCHANGED ownVars)
    /\ WF_vars((Arrive \/ SendDrains) /\ UNCHANGED ownVars)

-----------------------------------------------------------------------------
(* Properties.                                                             *)

(* The type invariant: every count stays inside its buffer.                *)
TypeOK ==
    /\ PathTypeOK({"step", "flow", "sndrel", "recv", "nodata", "rcvrel", "plain"},
                  [kind : Ssl!Kinds, n : 0..MaxData])
    /\ eng \in Ssl!Engine /\ eng.plain <= MaxData /\ eng.unsent <= HeaderSize + MaxOut
    /\ eng.got < HeaderSize + MaxData
    /\ wired \in 0..MaxWrite /\ dropped \in 0..MaxWrite

(* A session the caller did not close is not Closed over plaintext in the  *)
(* engine or a record still to be read, if the endpoint has handed over all*)
(* that arrived.                                                           *)
ReadToTheEnd ==
    state = "Closed" /\ ~closeReq /\ queued = 0 /\ ~truncated /\ ~discInd =>
        /\ eng.plain = 0
        /\ \A i \in DOMAIN records : records[i].kind # "data" \/ records[i].n = 0

(* Every byte OSTLS_Write accepted is on the wire, in the engine's record  *)
(* or queued; bytes are dropped only when the peer has released.           *)
WrittenOnce ==
    /\ accepted = wired + dropped + eng.flight + writeAvail
    /\ dropped > 0 => peerClosed

(* The comment of OSTLS_Close: "The next few Pumps will drain the          *)
(* close_notify out and transition to Closed naturally".  So they do once  *)
(* the peer answers with its close_notify or releases the connection,      *)
(* whatever was on its way at the time; without a Close as well.           *)
PeerEnds ==
    \/ nfOrd
    \/ eng.shut \/ \E i \in DOMAIN records : records[i].kind \in {"notify", "fatal"}
PeerEndsIt == PeerEnds ~> (state \in Terminal \/ truncated)

=============================================================================

---------------------------- MODULE OSTLSDataPath ----------------------------
(***************************************************************************)
(* What the two data paths of an open session (os9/ostls_async.c) share:   *)
(* the endpoint with its indications, flow control and stream, the peer    *)
(* and the network, the caller's OSTLS_Write and OSTLS_Read, and the frame *)
(* of OSTLS_Pump.  OSTLSStream13 and OSTLSStream12 add a record layer.     *)
(*                                                                         *)
(* TCP cuts records anywhere: the units of the wire are counted, and the   *)
(* records keep their order.  A Pump is cut at every Open Transport call   *)
(* whose answer is used after another interrupt can land (pc).             *)
(***************************************************************************)
EXTENDS Integers, Sequences

CONSTANTS
    HeaderSize,   (* units of a record header                              *)
    MaxData,      (* units of plaintext in the largest record of the peer  *)
    RingSize,     (* OSTLS_READ_BUF_SIZE                                   *)
    QueueSize,    (* OSTLS_WRITE_BUF_SIZE                                  *)
    SendRoom,     (* what OT buffers before flow control                   *)
    MaxRecords,   (* bound: records the peer sends                         *)
    MaxWrite      (* bound: bytes the caller writes                        *)

ASSUME PathAssumption ==
    /\ \A n \in {HeaderSize, MaxData, RingSize, QueueSize, SendRoom} : n \in Nat \ {0}
    /\ MaxRecords \in Nat /\ MaxWrite \in Nat

VARIABLES
    (* struct OSTLSConnection *)
    state, closeReq,
    peerClosed, ordConsumed, discConsumed,
    nfOrd, nfDisc,   (* nf_ord_release, nf_disconnect                      *)
    wantWrite,       (* nf_want_write                                      *)
    readAvail, writeAvail,
    (* OSTLS_Pump's locals *)
    pc, event,       (* where it is; best_event, kept after the return     *)
    (* Open Transport *)
    ot,              (* the state of the endpoint                          *)
    queued,          (* units received and not yet read                    *)
    ordInd, discInd, (* T_ORDREL, T_DISCONNECT raised and not consumed     *)
    room,            (* units OTSnd takes before flow control              *)
    goOwed,          (* kOTFlowErr was returned, T_GODATA is owed          *)
    (* the peer and the network *)
    records,         (* sent and not yet consumed                          *)
    transit,         (* units under way                                    *)
    sent,            (* how many records were sent                         *)
    peerDone,        (* the peer sends no more                             *)
    truncated,       (* it died inside a record                            *)
    (* history *)
    accepted         (* bytes OSTLS_Write took                             *)

endVars    == <<peerClosed, ordConsumed, discConsumed>>
indVars    == <<ot, ordInd, discInd>>
flowVars   == <<wantWrite, room, goOwed>>
netVars    == <<transit, sent, peerDone, truncated>>
callerVars == <<closeReq, accepted>>
pathVars   == <<state, endVars, nfOrd, nfDisc, readAvail, writeAvail, pc, event, indVars,
                queued, flowVars, records, netVars, callerVars>>

Terminal == {"Closed", "Failed"}
Events   == {"None", "Writable", "Readable", "Closed", "Failed"}
Rank     == [None |-> 0, Writable |-> 1, Readable |-> 2, Closed |-> 3, Failed |-> 4]

Bump(e)  == event' = IF Rank[e] > Rank[event] THEN e ELSE event
Least(a, b) == IF a < b THEN a ELSE b
Size(r)  == HeaderSize + r.n

(* The handshake has just completed; nothing has moved yet.                *)
PathInit ==
    /\ state = "Open" /\ closeReq = FALSE
    /\ peerClosed = FALSE /\ ordConsumed = FALSE /\ discConsumed = FALSE
    /\ nfOrd = FALSE /\ nfDisc = FALSE /\ wantWrite = FALSE
    /\ readAvail = 0 /\ writeAvail = 0
    /\ pc = "app" /\ event = "None"
    /\ ot = "dataxfer" /\ queued = 0 /\ ordInd = FALSE /\ discInd = FALSE
    /\ room = SendRoom /\ goOwed = FALSE
    /\ records = <<>> /\ transit = 0 /\ sent = 0 /\ peerDone = FALSE /\ truncated = FALSE
    /\ accepted = 0

-----------------------------------------------------------------------------
(* The peer, the network and the notifier: between any two steps.          *)

NetworkOnly == UNCHANGED <<state, endVars, readAvail, writeAvail, pc, event, callerVars>>

(* After close_notify or a fatal alert the peer sends no more.             *)
PeerSends(r) ==
    /\ ~peerDone /\ sent < MaxRecords /\ sent' = sent + 1
    /\ records' = Append(records, r) /\ transit' = transit + Size(r)
    /\ peerDone' = (r.kind \in {"notify", "fatal"})
    /\ UNCHANGED <<nfOrd, nfDisc, indVars, queued, flowVars, truncated>>
    /\ NetworkOnly

Arrive ==
    /\ transit > 0
    /\ \E n \in 1..transit : transit' = transit - n /\ queued' = queued + n
    /\ UNCHANGED <<nfOrd, nfDisc, records, indVars, flowVars, sent, peerDone, truncated>>
    /\ NetworkOnly

(* The peer's process ends inside a record; its system still sends a FIN.  *)
PeerDies ==
    /\ transit > 0 /\ ~truncated
    /\ transit' \in 0..(transit - 1)
    /\ truncated' = TRUE /\ peerDone' = TRUE
    /\ UNCHANGED <<nfOrd, nfDisc, records, indVars, queued, flowVars, sent>>
    /\ NetworkOnly

(* The FIN follows the last byte: T_ORDREL, with bytes perhaps unread.     *)
PeerRelease ==
    /\ transit = 0 /\ ~nfOrd /\ ~discInd /\ ~discConsumed
    /\ peerDone' = TRUE
    /\ ordInd' = TRUE /\ nfOrd' = TRUE
    /\ UNCHANGED <<nfDisc, records, ot, discInd, queued, flowVars, transit, sent, truncated>>
    /\ NetworkOnly

(* T_DISCONNECT: what was not read is gone.                                *)
PeerAbort ==
    /\ ot # "idle" /\ ~discInd
    /\ discInd' = TRUE /\ ordInd' = FALSE /\ nfDisc' = TRUE
    /\ queued' = 0 /\ transit' = 0 /\ peerDone' = TRUE
    /\ UNCHANGED <<nfOrd, records, ot, flowVars, sent, truncated>>
    /\ NetworkOnly

(* The network takes what OTSnd buffered; T_GODATA, when it is owed.       *)
SendDrains ==
    /\ room < SendRoom
    /\ room' \in (room + 1)..SendRoom
    /\ goOwed' = FALSE
    /\ wantWrite' = IF goOwed THEN FALSE ELSE wantWrite
    /\ UNCHANGED <<nfOrd, nfDisc, records, indVars, queued, netVars>>
    /\ NetworkOnly

Network == Arrive \/ PeerDies \/ PeerRelease \/ PeerAbort \/ SendDrains

-----------------------------------------------------------------------------
(* The caller.                                                             *)

(* OSTLS_Write                                                             *)
Write ==
    /\ pc = "app" /\ state = "Open"
    /\ \E n \in 1..Least(MaxWrite - accepted, QueueSize - writeAvail) :
         writeAvail' = writeAvail + n /\ accepted' = accepted + n
    /\ UNCHANGED <<state, closeReq, endVars, nfOrd, nfDisc, readAvail, pc, event, indVars,
                   queued, flowVars, records, netVars>>

(* OSTLS_Read                                                              *)
Read ==
    /\ pc = "app" /\ state # "Failed" /\ readAvail > 0
    /\ \E n \in 1..readAvail : readAvail' = readAvail - n
    /\ UNCHANGED <<state, endVars, nfOrd, nfDisc, writeAvail, pc, event, indVars, queued,
                   flowVars, records, netVars, callerVars>>

AfterSndRelease(s) ==
    IF s = "dataxfer" THEN "outrel" ELSE IF s = "inrel" THEN "idle" ELSE s
AfterRcvRelease(s) ==
    IF s = "dataxfer" THEN "inrel" ELSE IF s = "outrel" THEN "idle" ELSE s

-----------------------------------------------------------------------------
(* OSTLS_Pump.                                                             *)

PumpOnly == UNCHANGED <<closeReq, accepted, nfOrd, nfDisc, netVars>>

(* Back to the caller with the best event.                                 *)
Return == pc' = "app"

(* A step that did something: max_steps may be used up, or round again.    *)
Again == pc' \in {"app", "top"}

Goto(p) == pc' = p /\ UNCHANGED event

PumpBegin ==
    /\ pc = "app"
    /\ IF state \in Terminal
       THEN /\ event' = IF state = "Closed" /\ readAvail > 0 THEN "Readable" ELSE state
            /\ UNCHANGED pc
       ELSE event' = "None" /\ pc' = "top"
    /\ UNCHANGED <<state, endVars, readAvail, writeAvail, indVars, queued, flowVars, records>>
    /\ PumpOnly

(* OSTLS_WantWrite tells the caller whether to pump at once ...            *)
WantWrite == wantWrite

PumpNow == ~WantWrite /\ PumpBegin

(* ... or to put it off to its next poll tick: it does not wait for        *)
(* T_GODATA to clear the flag.                                             *)
PollTick == WantWrite /\ PumpBegin

CallerPumps == PumpNow \/ PollTick

(* ostls_fail, with and without the Failed event in the result.            *)
FailLoudly == state' = "Failed" /\ Bump("Failed") /\ Return
FailMutely == state' = "Failed" /\ UNCHANGED event /\ Return

(* OTRcvDisconnect ends the connection.                                    *)
TakeDisconnect ==
    /\ discConsumed' = TRUE
    /\ IF discConsumed THEN UNCHANGED <<ot, discInd>>
       ELSE ot' = "idle" /\ discInd' = FALSE
    /\ UNCHANGED <<peerClosed, ordConsumed, ordInd>>

(* OTRcvOrderlyDisconnect, unless it was taken before.  An abort that came *)
(* in between makes OT refuse the call.                                    *)
TakeRelease ==
    /\ peerClosed' = TRUE /\ ordConsumed' = TRUE
    /\ IF ordConsumed THEN UNCHANGED <<ot, ordInd>>
       ELSE /\ ordInd' = FALSE
            /\ ot' = IF discInd THEN ot ELSE AfterRcvRelease(ot)
    /\ UNCHANGED <<discConsumed, discInd>>

(* The top of the loop; the record layer begins at p.                      *)
Top(p) ==
    /\ pc = "top"
    /\ IF nfDisc /\ ~discConsumed
       THEN TakeDisconnect /\ FailLoudly
       ELSE Goto(p) /\ UNCHANGED <<state, endVars, indVars>>
    /\ UNCHANGED <<readAvail, writeAvail, queued, flowVars, records>>
    /\ PumpOnly

-----------------------------------------------------------------------------
(* The type invariant of what is shared; pcs are the record layer's places.*)
PathTypeOK(pcs, recs) ==
    /\ state \in {"Open", "Closing"} \cup Terminal /\ closeReq \in BOOLEAN
    /\ peerClosed \in BOOLEAN /\ ordConsumed \in BOOLEAN /\ discConsumed \in BOOLEAN
    /\ nfOrd \in BOOLEAN /\ nfDisc \in BOOLEAN /\ wantWrite \in BOOLEAN
    /\ readAvail \in 0..RingSize /\ writeAvail \in 0..QueueSize
    /\ pc \in {"app", "top"} \cup pcs /\ event \in Events
    /\ ot \in {"dataxfer", "outrel", "inrel", "idle"} /\ queued \in Nat
    /\ ordInd \in BOOLEAN /\ discInd \in BOOLEAN
    /\ room \in 0..SendRoom /\ goOwed \in BOOLEAN
    /\ records \in Seq(recs)
    /\ transit \in Nat /\ sent \in 0..MaxRecords
    /\ peerDone \in BOOLEAN /\ truncated \in BOOLEAN
    /\ accepted \in 0..MaxWrite

=============================================================================

---------------------------- MODULE BlockingFetch ----------------------------
(***************************************************************************)
(* OSTLS_Fetch (os9/ostls_fetch.c): one call, which sets up a synchronous, *)
(* blocking endpoint and a BearSSL engine (SslEngine), sends the request,  *)
(* collects the response until its buffer is full or the peer closes, and  *)
(* tests an absolute deadline on a tick count that wraps.                  *)
(*                                                                         *)
(* The call is cut where it blocks, in OTSnd and OTRcv: time passes and the*)
(* network moves between any two steps.                                    *)
(***************************************************************************)
EXTENDS Integers, Sequences

CONSTANTS
    HeaderSize, MaxOut,   (* of SslEngine                                  *)
    MaxData,      (* units of plaintext in the largest record of the peer  *)
    Request,      (* units of the request                                  *)
    OutCap,       (* out_cap                                               *)
    Limit,        (* 60 * 60 ticks                                         *)
    Wrap,         (* TickCount() is taken modulo this: 2^32                *)
    MaxRecords    (* bound: records the peer sends                         *)

ASSUME FetchAssumption ==
    /\ \A n \in {HeaderSize, MaxOut, MaxData, Request, OutCap, Limit} : n \in Nat \ {0}
    /\ MaxRecords \in Nat /\ Wrap \in Nat /\ Limit < Wrap

Ssl == INSTANCE SslEngine

VARIABLES
    (* OSTLS_Fetch's locals *)
    pc,           (* the setup step, "loop", the call that blocks, "done"  *)
    eng,          (* gFetchClient.eng                                      *)
    handshakeDone, requestSent, collected, deadline,
    result, outLen,
    (* Open Transport and the clock *)
    ep,           (* the provider                                          *)
    now,          (* TickCount()                                           *)
    queued,       (* units received and not yet read                       *)
    event,        (* what OTLook would tell                                *)
    (* the peer and the network *)
    records,      (* sent and not yet consumed                             *)
    transit,      (* units under way                                       *)
    sent,         (* how many records were sent                            *)
    response,     (* units of data in them                                 *)
    answered,     (* handshake records of the peer                         *)
    ended,        (* "open", or how the peer ended: "notify", "cut"        *)
    (* history *)
    wired,        (* records the engine sent entirely                      *)
    elapsed       (* ticks since the deadline was set, up to Limit + 1     *)

callVars == <<pc, eng, handshakeDone, requestSent, collected, deadline, result, outLen, ep>>
peerVars == <<records, transit, sent, response, answered, ended>>
vars     == <<callVars, now, queued, event, peerVars, wired, elapsed>>

Least(a, b) == IF a < b THEN a ELSE b

(* The checks before the loop, in their order; from "bind" to the end there*)
(* is a provider to close.                                                 *)
Setup    == <<"args", "clock", "config", "open", "bind", "dns", "connect", "entropy", "reset">>
SetupAt(i) == pc = Setup[i]

Init ==
    /\ pc = "args" /\ eng = Ssl!Reset /\ handshakeDone = FALSE
    /\ requestSent = 0 /\ collected = 0 /\ deadline = 0
    /\ result = "none" /\ outLen = 0 /\ ep = "none"
    /\ now \in 0..(Wrap - 1) /\ queued = 0 /\ event = "none"
    /\ records = <<>> /\ transit = 0 /\ sent = 0 /\ response = 0 /\ answered = 0
    /\ ended = "open" /\ wired = 0 /\ elapsed = 0

-----------------------------------------------------------------------------
(* The clock, the peer and the network.                                    *)

OutsideOnly == UNCHANGED callVars

Tick ==
    /\ pc \in {"loop", "snd", "rcv"} /\ elapsed <= Limit
    /\ now' = (now + 1) % Wrap /\ elapsed' = elapsed + 1
    /\ UNCHANGED <<queued, event, peerVars, wired>> /\ OutsideOnly

Connected == pc \in {"entropy", "reset", "loop", "snd", "rcv"}

(* A server answers what it has heard, and sends data once its handshake is*)
(* over.                                                                   *)
PeerSends ==
    /\ Connected /\ ended = "open" /\ sent < MaxRecords
    /\ \E k \in Ssl!Kinds, n \in 1..MaxData :
         /\ k = "hello" => answered < 2 /\ wired > answered
         /\ k = "data"  => answered = 2
         /\ k # "data"  => n = 1
         /\ records' = Append(records, [kind |-> k, n |-> n])
         /\ transit' = transit + Ssl!Size([kind |-> k, n |-> n])
         /\ answered' = IF k = "hello" THEN answered + 1 ELSE answered
         /\ response' = IF k = "data" THEN response + n ELSE response
         /\ ended' = IF k \in {"notify", "fatal"} THEN "notify" ELSE "open"
    /\ sent' = sent + 1
    /\ UNCHANGED <<now, queued, event, wired, elapsed>> /\ OutsideOnly

Arrive ==
    /\ transit > 0
    /\ \E n \in 1..transit : transit' = transit - n /\ queued' = queued + n
    /\ UNCHANGED <<now, event, records, sent, response, answered, ended, wired, elapsed>>
    /\ OutsideOnly

(* A FIN, perhaps inside a record.                                         *)
PeerReleases ==
    /\ Connected /\ event = "none"
    /\ event' = "release" /\ transit' = 0
    /\ ended' = IF ended = "notify" /\ transit = 0 THEN "notify" ELSE "cut"
    /\ UNCHANGED <<now, queued, records, sent, response, answered, wired, elapsed>>
    /\ OutsideOnly

PeerAborts ==
    /\ Connected /\ event # "abort"
    /\ event' = "abort" /\ transit' = 0 /\ queued' = 0 /\ ended' = "cut"
    /\ UNCHANGED <<now, records, sent, response, answered, wired, elapsed>>
    /\ OutsideOnly

Outside == Tick \/ PeerSends \/ Arrive \/ PeerReleases \/ PeerAborts

-----------------------------------------------------------------------------
(* OSTLS_Fetch.                                                            *)

CallOnly == UNCHANGED <<now, event, transit, sent, response, answered, ended>>

(* An early return: the provider, if there is one, is closed.              *)
Fails(why) ==
    /\ pc' = "done" /\ result' = why
    /\ ep' = IF ep = "open" THEN "closed" ELSE ep

(* Each check passes, or ends the call; the last one sets the deadline.    *)
SetupFails ==
    /\ \E i \in DOMAIN Setup : SetupAt(i) /\ Fails(Setup[i])
    /\ UNCHANGED <<eng, handshakeDone, requestSent, collected, deadline, outLen, queued,
                   records, wired, elapsed>> /\ CallOnly

SetupPasses ==
    /\ \E i \in DOMAIN Setup :
         /\ SetupAt(i)
         /\ pc' = IF i = Len(Setup) THEN "loop" ELSE Setup[i + 1]
    /\ ep' = IF pc = "open" THEN "open" ELSE ep
    /\ UNCHANGED <<eng, handshakeDone, requestSent, collected, result, outLen, queued,
                   records, wired, elapsed>> /\ CallOnly

(* Variant: the limit is forgotten.                                        *)
DeadlineNow == now

Deadline == (now + Limit) % Wrap

SetDeadline == deadline' = IF pc = "reset" THEN Deadline ELSE deadline

Begin == SetupFails \/ (SetupPasses /\ SetDeadline)

(* The branches of the loop, the first that applies.                       *)
Late == now > deadline

TimesOut ==
    /\ pc = "loop" /\ Late
    /\ Fails("timeout")
    /\ UNCHANGED <<eng, handshakeDone, requestSent, collected, deadline, outLen, queued,
                   records, wired, elapsed>> /\ CallOnly

Succeeds ==
    /\ pc' = "done" /\ result' = "OK" /\ ep' = "closed"

(* BR_SSL_CLOSED: a clean end after some plaintext is the response's.      *)
EngineEnds ==
    /\ pc = "loop" /\ ~Late /\ Ssl!IsClosed(eng)
    /\ IF eng.err = "ok" /\ collected > 0
       THEN Succeeds /\ outLen' = collected
       ELSE Fails(IF eng.err = "ok" THEN "nobytes" ELSE "sslerror") /\ UNCHANGED outLen
    /\ UNCHANGED <<eng, handshakeDone, requestSent, collected, deadline, queued, records,
                   wired, elapsed>> /\ CallOnly

InLoop == pc = "loop" /\ ~Late /\ ~Ssl!IsClosed(eng)
(* handshake_done is set in front of the branches.                         *)
Done   == handshakeDone \/ Ssl!SendApp(eng) \/ Ssl!RecvApp(eng)

Gives == Done /\ requestSent < Request /\ Ssl!SendApp(eng)
Takes == Done /\ Ssl!RecvApp(eng) /\ collected < OutCap

GivesRequest ==
    /\ InLoop /\ Gives /\ handshakeDone' = Done
    /\ LET k == Least(Request - requestSent, MaxOut) IN
         eng' = Ssl!SendAppAck(eng, k) /\ requestSent' = requestSent + k
    /\ UNCHANGED <<pc, collected, deadline, result, outLen, ep, queued, records, wired,
                   elapsed>> /\ CallOnly

TakesResponse ==
    /\ InLoop /\ ~Gives /\ Takes /\ handshakeDone' = Done
    /\ LET k == Least(eng.plain, OutCap - collected) IN
         /\ collected' = collected + k
         /\ eng' = Ssl!RecvAppAck(eng, k)
         /\ IF collected + k = OutCap
            THEN Succeeds /\ outLen' = OutCap
            ELSE UNCHANGED <<pc, result, outLen, ep>>
    /\ UNCHANGED <<requestSent, deadline, queued, records, wired, elapsed>> /\ CallOnly

(* It goes into OTSnd or OTRcv.                                            *)
Blocks ==
    /\ InLoop /\ ~Gives /\ ~Takes /\ handshakeDone' = Done
    /\ \/ Ssl!SendRec(eng) /\ pc' = "snd"
       \/ ~Ssl!SendRec(eng) /\ Ssl!RecvRec(eng) /\ pc' = "rcv"
    /\ UNCHANGED <<eng, requestSent, collected, deadline, result, outLen, ep, queued, records,
                   wired, elapsed>> /\ CallOnly

Sends ==
    /\ pc = "snd" /\ event # "abort" /\ pc' = "loop"
    /\ \E k \in 1..eng.unsent :
         /\ eng' = Ssl!SendRecAck(eng, k)
         /\ wired' = IF k = eng.unsent THEN wired + 1 ELSE wired
    /\ UNCHANGED <<handshakeDone, requestSent, collected, deadline, result, outLen, ep, queued,
                   records, elapsed>> /\ CallOnly

Receives ==
    /\ pc = "rcv" /\ queued > 0 /\ pc' = "loop"
    /\ LET r == Head(records)
           k == Least(queued, Ssl!Wanted(eng, r))
       IN /\ queued' = queued - k
          /\ eng' = Ssl!RecvRecAck(eng, r, k)
          /\ records' = IF Ssl!Completes(eng, r, k) THEN Tail(records) ELSE records
    /\ UNCHANGED <<handshakeDone, requestSent, collected, deadline, result, outLen, ep, wired,
                   elapsed>> /\ CallOnly

(* 0 bytes at the end of the stream: round again.                          *)
ReceivesNothing ==
    /\ pc = "rcv" /\ queued = 0 /\ event = "release" /\ pc' = "loop"
    /\ UNCHANGED <<eng, handshakeDone, requestSent, collected, deadline, result, outLen, ep,
                   queued, records, wired, elapsed>> /\ CallOnly

(* Variant: the response so far is good enough when the stream ends.       *)
BreaksOnError(why) ==
    IF collected > 0 THEN Succeeds /\ outLen' = collected ELSE Fails(why) /\ UNCHANGED outLen

GivesUp(why) == Fails(why) /\ UNCHANGED outLen

(* OTSnd and OTRcv answer with an error, or with a look error once the     *)
(* bytes in front of a release are read.                                   *)
CallFails ==
    /\ \/ pc = "snd" /\ GivesUp("sndfail")
       \/ pc = "rcv" /\ GivesUp("rcvfail")
    /\ UNCHANGED <<eng, handshakeDone, requestSent, collected, deadline, queued, records,
                   wired, elapsed>> /\ CallOnly

Loop == TimesOut \/ EngineEnds \/ GivesRequest \/ TakesResponse \/ Blocks \/ Sends
        \/ Receives \/ ReceivesNothing \/ CallFails

Next == Outside \/ Begin \/ Loop

Spec == Init /\ [][Next]_vars

-----------------------------------------------------------------------------
(* Properties.                                                             *)

(* The call returns with its provider closed, and OK means the whole       *)
(* response, or as much as the buffer holds: a stream that ends without    *)
(* close_notify is an error, however much came before.                     *)
ReturnsTheWhole ==
    pc = "done" =>
        /\ ep # "open"
        /\ result = "OK" => outLen = Least(response, OutCap)
        /\ result # "OK" => outLen = 0

(* ostls_fetch.h: "60-second total deadline": the call does not give up    *)
(* earlier, unless the tick count wraps in that minute.                    *)
TimeoutIsLate == result = "timeout" => elapsed > Limit \/ deadline < Limit

=============================================================================

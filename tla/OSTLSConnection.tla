--------------------------- MODULE OSTLSConnection ---------------------------
(***************************************************************************)
(* The life of one asynchronous TLS connection (os9/ostls_async.c): the    *)
(* caller's Start, Pump, Close and Dispose, the Open Transport endpoints   *)
(* the connection opens, the notifier that runs at interrupt time, the two *)
(* timeouts, and the reconnect for TLS 1.2 when a server declines 1.3.     *)
(*                                                                         *)
(* Three parties interleave: the application thread (pc says where in a    *)
(* Pump it is), the notifier, and the network.  A Pump is one PumpBegin    *)
(* followed by rounds of PumpPre (the check at the top of the loop) and    *)
(* one step; interrupts land between any two of these.  Where the code     *)
(* looks at a flag, or at OT's answer, and makes an OT call on the strength*)
(* of it, the look and the call are two steps: an abort may land between.  *)
(*                                                                         *)
(* The bytes are left out: how much OTSnd and OTRcv move, what a record    *)
(* holds and what the TLS engine makes of it are choices of the step.      *)
(***************************************************************************)
EXTENDS Integers

CONSTANTS
    MaxOpens,          (* bound: how many endpoints the model may open     *)
    ConnectTimeout,    (* connect_timeout_ticks                            *)
    HandshakeTimeout   (* handshake_timeout_ticks                          *)

(* A TLS 1.3 attempt and one reconnect need two endpoints; a timeout of 0  *)
(* is replaced by the default in OSTLS_New.                                *)
ASSUME ConnAssumption ==
    /\ MaxOpens \in Nat /\ MaxOpens >= 2
    /\ ConnectTimeout \in Nat \ {0}
    /\ HandshakeTimeout \in Nat \ {0}

VARIABLES
    (* struct OSTLSConnection *)
    state,         (* OSTLSState                                           *)
    phase,         (* connect_phase                                        *)
    osErr,         (* os_err                                               *)
    mode,          (* tls13_mode                                           *)
    disabled,      (* tls13_disabled                                       *)
    started,
    closeReq,      (* close_requested                                      *)
    closeNotify,   (* close_notify_sent                                    *)
    peerClosed,    (* peer_closed                                          *)
    ordConsumed,   (* ord_consumed                                         *)
    discConsumed,  (* disc_consumed                                        *)
    ep,            (* the EndpointRef, NoEp when NULL                      *)
    epOpen,        (* ep_open                                              *)
    nf,            (* the nf_* flags that are set                          *)
    nfResult,      (* nf_last_result                                       *)
    hs13,          (* the 1.3 handshake context is allocated               *)
    hsUnsent,      (* msg_offset < msg_len in that context                 *)
    engine,        (* BearSSL's context: none, seeded (initialised but not *)
                   (* reset), running (reset, its own handshake drives)    *)
    disposed,
    tryTls13,      (* g_ostls_try_tls13, the process-wide switch           *)
    (* time *)
    sinceStart,    (* TickCount() - start_ticks, saturating                *)
    sinceHs,       (* TickCount() - handshake_start_ticks, saturating      *)
    (* OSTLS_Pump's locals *)
    pc,            (* where the application thread is                      *)
    best,          (* best_event                                           *)
    (* Open Transport *)
    eps,           (* the state of each endpoint                           *)
    ind,           (* indications raised and not yet consumed              *)
    opened,        (* how many endpoints have been opened                  *)
    (* history *)
    age,           (* ticks since the current public state was entered     *)
    stray          (* an OT call was made that nothing of this endpoint    *)
                   (* called for                                           *)

lifeVars  == <<started, closeReq, closeNotify, disposed>>
peerVars  == <<peerClosed, ordConsumed, discConsumed>>
tlsVars   == <<mode, disabled, hs13, hsUnsent, engine>>
nfVars    == <<nf, nfResult>>
epVars    == <<ep, epOpen>>
otVars    == <<eps, ind, opened>>
timeVars  == <<sinceStart, sinceHs>>
vars == <<state, phase, osErr, lifeVars, peerVars, tlsVars, nfVars, epVars,
          otVars, timeVars, tryTls13, pc, best, age, stray>>

Endpoints == 1..MaxOpens
NoEp      == 0

States   == {"Idle", "Connecting", "Handshaking", "Open", "Closing", "Closed", "Failed"}
Terminal == {"Closed", "Failed"}
Session  == {"Handshaking", "Open", "Closing"}
Phases   == {"NeedsOpen", "OpenInFlight", "NeedsBind", "BindInFlight",
             "NeedsConnect", "ConnectInFlight", "Done"}
Modes    == {"Off", "Trying", "Open13"}
Errors   == {"none", "ClockBefore2000", "OTConfigFail", "OTOpenFail", "OTBindFail",
             "OTConnectFail", "OTSndFail", "OTRcvFail", "EntropyFail",
             "ClientResetFail", "BearSSLError", "ConnectTimeout",
             "HandshakeTimeout", "PeerClosed", "WrongState"}
Flags    == {"open", "bind", "connect", "ord", "disc"}
Results  == {"ok", "err"}
Engines  == {"none", "seeded", "running"}
Events   == {"None", "Connected", "HandshakeDone", "Closed", "Failed"}
Places   == {"app", "pre", "step", "reopen", "answer", "rcvconnect",
             "nodata", "rcvrel", "sndrel", "record"}
EpStates == {"free", "opening", "unbnd", "binding", "idle", "outcon",
             "dataxfer", "outrel", "inrel", "closed"}
Indications == {"T_CONNECT", "T_ORDREL", "T_DISCONNECT"}

(* event_priority: Readable and Writable belong to the data path.          *)
Rank == [None |-> 0, Connected |-> 1, HandshakeDone |-> 2, Closed |-> 3, Failed |-> 4]

(* event_bump *)
Bump(e) == best' = IF Rank[e] > Rank[best] THEN e ELSE best

Least(a, b) == IF a < b THEN a ELSE b

(* Moving to another public state; age counts from there.                  *)
GoTo(s)  == state' = s /\ age' = 0
Stay     == UNCHANGED <<state, age>>

-----------------------------------------------------------------------------
(* OSTLS_New's result: Idle, nothing opened.                               *)
Init ==
    /\ state = "Idle" /\ phase = "NeedsOpen" /\ osErr = "none"
    /\ mode = "Off" /\ disabled = FALSE /\ hs13 = FALSE /\ hsUnsent = FALSE
    /\ engine = "none"
    /\ started = FALSE /\ closeReq = FALSE /\ closeNotify = FALSE /\ disposed = FALSE
    /\ peerClosed = FALSE /\ ordConsumed = FALSE /\ discConsumed = FALSE
    /\ ep = NoEp /\ epOpen = FALSE
    /\ nf = {} /\ nfResult = "ok"
    /\ sinceStart = 0 /\ sinceHs = 0
    /\ pc = "app" /\ best = "None"
    /\ eps = [e \in Endpoints |-> "free"] /\ ind = [e \in Endpoints |-> {}] /\ opened = 0
    /\ age = 0 /\ stray = FALSE
    /\ tryTls13 \in BOOLEAN

-----------------------------------------------------------------------------
(* Open Transport, as os9/ostls_async.c uses it (external).                *)

Live(e) == eps[e] \notin {"free", "closed"}

(* OTAsyncOpenEndpointInContext accepted: completion comes by notifier.    *)
OpenEndpoint ==
    /\ opened < MaxOpens
    /\ opened' = opened + 1
    /\ eps' = [eps EXCEPT ![opened + 1] = "opening"]
    /\ UNCHANGED ind

(* The indication a call of OTRcv... would take is there.                  *)
Holds(e, i) == e # NoEp /\ i \in ind[e]

(* It is there, or an abort has replaced it since: OT refuses the call.    *)
CalledFor(e, i) == Holds(e, i) \/ Holds(e, "T_DISCONNECT")

(* OTCloseProvider: the endpoint and all it had to say are gone.           *)
CloseProvider(e) ==
    /\ eps' = [eps EXCEPT ![e] = "closed"]
    /\ ind' = [ind EXCEPT ![e] = {}]

(* OTRcvDisconnect and OTSndDisconnect end the connection; the endpoint    *)
(* stays bound.  No other call is accepted over an abort not yet taken.    *)
Abort(e) ==
    /\ eps' = [eps EXCEPT ![e] = "idle"]
    /\ ind' = [ind EXCEPT ![e] = {}]

(* OTSndOrderlyDisconnect and OTRcvOrderlyDisconnect: one half each.       *)
AfterSndRelease(s) ==
    IF s = "dataxfer" THEN "outrel" ELSE IF s = "inrel" THEN "idle" ELSE s
AfterRcvRelease(s) ==
    IF s = "dataxfer" THEN "inrel" ELSE IF s = "outrel" THEN "idle" ELSE s

(* What OTSnd and OTRcv can answer: an outstanding abort is always         *)
(* reported, an outstanding release may be.                                *)
SndResults(e) ==
    IF "T_DISCONNECT" \in ind[e] THEN {"lookDisc"}
    ELSE {"all", "some", "none", "error"} \cup
         (IF "T_ORDREL" \in ind[e] THEN {"lookOrd"} ELSE {})
RcvResults(e) ==
    IF "T_DISCONNECT" \in ind[e] THEN {"lookDisc"}
    ELSE {"data", "nodata", "error"} \cup
         (IF "T_ORDREL" \in ind[e] THEN {"lookOrd", "zero"} ELSE {})

(* Moves of the network: a connect answered or refused, a FIN, a reset.    *)
Notify(f, r) ==
    IF disposed THEN UNCHANGED nfVars
    ELSE nf' = nf \cup {f} /\ nfResult' = r

OpenComplete(e) ==
    /\ eps[e] = "opening"
    /\ \E r \in Results :
         /\ eps' = [eps EXCEPT ![e] = IF r = "ok" THEN "unbnd" ELSE "closed"]
         /\ Notify("open", r)
         /\ ep' = IF disposed THEN ep ELSE IF r = "ok" THEN e ELSE NoEp
    /\ UNCHANGED <<state, phase, osErr, lifeVars, peerVars, tlsVars, epOpen, ind,
                   opened, timeVars, tryTls13, pc, best, age, stray>>

NotifierOnly == UNCHANGED <<state, phase, osErr, lifeVars, peerVars, tlsVars, epVars,
                            opened, timeVars, tryTls13, pc, best, age, stray>>

BindComplete(e) ==
    /\ eps[e] = "binding"
    /\ \E r \in Results :
         /\ eps' = [eps EXCEPT ![e] = IF r = "ok" THEN "idle" ELSE "unbnd"]
         /\ Notify("bind", r)
    /\ UNCHANGED ind
    /\ NotifierOnly

(* T_CONNECT: answered (to be taken with OTRcvConnect), or the lookup of   *)
(* the name failed.                                                        *)
ConnectComplete(e) ==
    /\ eps[e] = "outcon" /\ ind[e] = {}
    /\ \E r \in Results :
         /\ eps' = [eps EXCEPT ![e] = IF r = "ok" THEN "outcon" ELSE "idle"]
         /\ ind' = [ind EXCEPT ![e] = IF r = "ok" THEN {"T_CONNECT"} ELSE {}]
         /\ Notify("connect", r)
    /\ NotifierOnly

Connected(e) == eps[e] \in {"dataxfer", "outrel", "inrel"} \/ "T_CONNECT" \in ind[e]

PeerRelease(e) ==
    /\ eps[e] # "inrel" /\ Connected(e) /\ ind[e] \cap {"T_ORDREL", "T_DISCONNECT"} = {}
    /\ ind' = [ind EXCEPT ![e] = @ \cup {"T_ORDREL"}]
    /\ Notify("ord", "ok")
    /\ UNCHANGED eps
    /\ NotifierOnly

PeerAbort(e) ==
    /\ (eps[e] = "outcon" \/ Connected(e)) /\ "T_DISCONNECT" \notin ind[e]
    /\ ind' = [ind EXCEPT ![e] = {"T_DISCONNECT"}]
    /\ \E r \in Results : Notify("disc", r)
    /\ UNCHANGED eps
    /\ NotifierOnly

Network == \E e \in Endpoints :
    \/ OpenComplete(e) \/ BindComplete(e) \/ ConnectComplete(e)
    \/ PeerRelease(e) \/ PeerAbort(e)

(* Time matters while a deadline is running.                               *)
Tick ==
    /\ state \in {"Connecting", "Handshaking"} /\ ~disposed
    /\ sinceStart' = Least(sinceStart + 1, ConnectTimeout + 1)
    /\ sinceHs' = Least(sinceHs + 1, HandshakeTimeout + 1)
    /\ age' = Least(age + 1, ConnectTimeout + HandshakeTimeout)
    /\ UNCHANGED <<state, phase, osErr, lifeVars, peerVars, tlsVars, nfVars, epVars,
                   otVars, tryTls13, pc, best, stray>>

-----------------------------------------------------------------------------
(* The caller's operations, between Pumps.                                 *)

Caller == pc = "app" /\ ~disposed

(* Variant: a failure path that forgets os_err.                            *)
FailUnrecorded(err) == GoTo("Failed") /\ UNCHANGED osErr

(* ostls_fail, from a state that is not terminal; Start's own failures set *)
(* the same fields.  The first error is kept.                              *)
Fail(err) ==
    /\ GoTo("Failed")
    /\ osErr' = IF osErr = "none" THEN err ELSE osErr

(* Variant: the reconnect inherits the first attempt's start_ticks.        *)
KeepStartTicks == sinceStart' = IF started THEN sinceStart ELSE 0

(* start_ticks = TickCount() *)
TakeStartTicks == sinceStart' = 0

(* OSTLS_SetTryTLS13 *)
SetTryTLS13 ==
    /\ Caller
    /\ tryTls13' \in BOOLEAN
    /\ UNCHANGED <<state, phase, osErr, lifeVars, peerVars, tlsVars, nfVars, epVars,
                   otVars, timeVars, pc, best, age, stray>>

(* OSTLS_Start: the clock, the configuration and the open can each fail.   *)
Start ==
    /\ Caller /\ ~started /\ state = "Idle"
    /\ \/ /\ \E err \in {"ClockBefore2000", "OTConfigFail", "OTOpenFail"} : Fail(err)
          /\ UNCHANGED <<phase, started, otVars, sinceStart>>
       \/ /\ OpenEndpoint
          /\ GoTo("Connecting") /\ phase' = "OpenInFlight"
          /\ TakeStartTicks /\ started' = TRUE
          /\ UNCHANGED osErr
    /\ UNCHANGED <<closeReq, closeNotify, disposed, peerVars, tlsVars, nfVars, epVars,
                   sinceHs, tryTls13, pc, best, stray>>

(* OSTLS_Close before the session is up: a hard disconnect, and Failed.    *)
CloseEarly ==
    /\ state \in {"Connecting", "Handshaking"}
    /\ GoTo("Failed") /\ osErr' = "WrongState"
    /\ IF /\ epOpen /\ eps[ep] \in {"outcon", "dataxfer", "outrel", "inrel"}
          /\ ~Holds(ep, "T_DISCONNECT")
       THEN Abort(ep) ELSE UNCHANGED <<eps, ind>>
    /\ UNCHANGED closeNotify

(* OSTLS_Close of a session: 1.3 releases the transport, 1.2 queues        *)
(* BearSSL's close_notify.                                                 *)
CloseSession ==
    /\ state \in {"Open", "Closing"}
    /\ GoTo("Closing") /\ closeNotify' = TRUE
    /\ IF mode = "Open13" /\ ~Holds(ep, "T_DISCONNECT")
       THEN eps' = [eps EXCEPT ![ep] = AfterSndRelease(@)]
       ELSE UNCHANGED eps
    /\ UNCHANGED <<ind, osErr>>

(* Variants: Close of a connection never started jumps to Closed; Close of *)
(* a closed one aborts it.                                                 *)
CloseIdleToClosed ==
    /\ state \in {"Idle", "Closed", "Failed"}
    /\ IF state = "Idle" THEN GoTo("Closed") ELSE Stay
    /\ UNCHANGED <<eps, ind, osErr, closeNotify>>
CloseAbortsClosed ==
    /\ state \in {"Idle", "Closed", "Failed"}
    /\ IF state = "Closed" THEN GoTo("Failed") /\ osErr' = "WrongState"
       ELSE Stay /\ UNCHANGED osErr
    /\ UNCHANGED <<eps, ind, closeNotify>>

CloseNothing ==
    /\ state \in {"Idle", "Closed", "Failed"}
    /\ Stay
    /\ UNCHANGED <<eps, ind, osErr, closeNotify>>

Close ==
    /\ Caller /\ ~closeReq
    /\ closeReq' = TRUE
    /\ CloseEarly \/ CloseSession \/ CloseNothing
    /\ UNCHANGED <<phase, started, disposed, peerVars, tlsVars, nfVars, epVars, opened,
                   timeVars, tryTls13, pc, best, stray>>

(* Variants: the reference is dropped without OTCloseProvider; a failed    *)
(* connection's endpoint is taken for gone.                                *)
DropReference ==
    ep' = NoEp /\ epOpen' = FALSE /\ UNCHANGED <<eps, ind>>
ReleaseUnlessFailed ==
    IF epOpen /\ ep # NoEp /\ state # "Failed"
    THEN CloseProvider(ep) /\ ep' = NoEp /\ epOpen' = FALSE
    ELSE UNCHANGED <<eps, ind, epVars>>

(* The tear-down Dispose and the reconnect share: an endpoint goes if Pump *)
(* has picked it up.                                                       *)
ReleaseEndpoint ==
    IF epOpen /\ ep # NoEp
    THEN CloseProvider(ep) /\ ep' = NoEp /\ epOpen' = FALSE
    ELSE UNCHANGED <<eps, ind, epVars>>

(* OSTLS_Dispose                                                           *)
Dispose ==
    /\ Caller
    /\ disposed' = TRUE
    /\ hs13' = FALSE
    /\ ReleaseEndpoint
    /\ UNCHANGED <<state, phase, osErr, started, closeReq, closeNotify, peerVars, mode,
                   disabled, hsUnsent, engine, nfVars, opened, timeVars, tryTls13, pc,
                   best, age, stray>>

-----------------------------------------------------------------------------
(* OSTLS_Pump: the loop, and pump_handshake_or_open_pre at its top.        *)

(* A step that made progress: the budget is used up, or round again.       *)
Again  == pc' \in {"pre", "app"}
Return == pc' = "app"

(* A terminal state, and Idle, return at once; nothing changes.            *)
PumpBegin ==
    /\ Caller /\ state \in {"Connecting"} \cup Session
    /\ pc' = "pre" /\ best' = "None"
    /\ UNCHANGED <<state, phase, osErr, lifeVars, peerVars, tlsVars, nfVars, epVars,
                   otVars, timeVars, tryTls13, age, stray>>

(* Variant: only the 1.2 engine's handshake is timed.                      *)
HandshakeDue12 == state = "Handshaking" /\ mode = "Off" /\ sinceHs > HandshakeTimeout

HandshakeDue == state = "Handshaking" /\ sinceHs > HandshakeTimeout
AbortSeen    == "disc" \in nf /\ ~discConsumed

PumpPre ==
    /\ pc = "pre"
    /\ \/ /\ HandshakeDue
          /\ Fail("HandshakeTimeout") /\ Bump("Failed") /\ Return
          /\ UNCHANGED <<eps, ind, discConsumed, stray>>
       \/ /\ ~HandshakeDue /\ AbortSeen
          /\ Abort(ep) /\ discConsumed' = TRUE
          /\ stray' = (stray \/ ~Holds(ep, "T_DISCONNECT"))
          /\ Fail("OTSndFail") /\ Bump("Failed") /\ Return
       \/ /\ ~HandshakeDue /\ ~AbortSeen
          /\ pc' = "step"
          /\ Stay
          /\ UNCHANGED <<osErr, best, eps, ind, discConsumed, stray>>
    /\ UNCHANGED <<phase, lifeVars, peerClosed, ordConsumed, tlsVars, nfVars, epVars,
                   opened, timeVars, tryTls13>>

-----------------------------------------------------------------------------
(* pump_connect_step                                                       *)

ConnectDue == sinceStart > ConnectTimeout
AtPhase(p) == /\ pc = "step" /\ state = "Connecting" /\ ~ConnectDue
              /\ "disc" \notin nf /\ phase = p

ConnectRest == UNCHANGED <<lifeVars, peerVars, opened, sinceStart, tryTls13>>

FailConnect(err) == Fail(err) /\ Bump("Failed") /\ Return /\ UNCHANGED phase

Advance(p) == phase' = p /\ Again /\ Stay /\ UNCHANGED <<osErr, best>>

ConnectTimedOut ==
    /\ pc = "step" /\ state = "Connecting" /\ ConnectDue
    /\ FailConnect("ConnectTimeout")
    /\ ConnectRest /\ UNCHANGED <<nfVars, epVars, eps, ind, tlsVars, sinceHs, stray>>

ConnectAborted ==
    /\ pc = "step" /\ state = "Connecting" /\ ~ConnectDue /\ "disc" \in nf
    /\ nf' = nf \ {"disc"}
    /\ FailConnect("OTConnectFail")
    /\ ConnectRest /\ UNCHANGED <<nfResult, epVars, eps, ind, tlsVars, sinceHs, stray>>

(* Nothing from the notifier yet: back to the caller.                      *)
AwaitNotifier ==
    /\ \E p \in {<<"OpenInFlight", "open">>, <<"BindInFlight", "bind">>,
                 <<"ConnectInFlight", "connect">>} :
          AtPhase(p[1]) /\ p[2] \notin nf
    /\ Return /\ Stay
    /\ ConnectRest
    /\ UNCHANGED <<phase, osErr, best, nfVars, epVars, eps, ind, tlsVars, sinceHs, stray>>

TakeOpen ==
    /\ AtPhase("OpenInFlight") /\ "open" \in nf
    /\ nf' = nf \ {"open"}
    /\ IF nfResult # "ok" \/ ep = NoEp
       THEN FailConnect("OTOpenFail") /\ UNCHANGED epOpen
       ELSE epOpen' = TRUE /\ Advance("NeedsBind")
    /\ ConnectRest /\ UNCHANGED <<nfResult, ep, eps, ind, tlsVars, sinceHs, stray>>

SubmitBind ==
    /\ AtPhase("NeedsBind")
    /\ stray' = (stray \/ eps[ep] # "unbnd")
    /\ \/ FailConnect("OTBindFail") /\ UNCHANGED eps
       \/ eps' = [eps EXCEPT ![ep] = "binding"] /\ Advance("BindInFlight")
    /\ ConnectRest /\ UNCHANGED <<nfVars, epVars, ind, tlsVars, sinceHs>>

TakeBind ==
    /\ AtPhase("BindInFlight") /\ "bind" \in nf
    /\ nf' = nf \ {"bind"}
    /\ IF nfResult # "ok" THEN FailConnect("OTBindFail") ELSE Advance("NeedsConnect")
    /\ ConnectRest /\ UNCHANGED <<nfResult, epVars, eps, ind, tlsVars, sinceHs, stray>>

SubmitConnect ==
    /\ AtPhase("NeedsConnect")
    /\ stray' = (stray \/ eps[ep] # "idle")
    /\ \/ FailConnect("OTConnectFail") /\ UNCHANGED eps
       \/ eps' = [eps EXCEPT ![ep] = "outcon"] /\ Advance("ConnectInFlight")
    /\ ConnectRest /\ UNCHANGED <<nfVars, epVars, ind, tlsVars, sinceHs>>

(* T_CONNECT is flagged: from here to OTRcvConnect an abort is not looked  *)
(* for again.                                                              *)
SeeConnect ==
    /\ AtPhase("ConnectInFlight") /\ "connect" \in nf
    /\ nf' = nf \ {"connect"} /\ pc' = "answer"
    /\ Stay
    /\ ConnectRest
    /\ UNCHANGED <<phase, osErr, best, nfResult, epVars, eps, ind, tlsVars, sinceHs, stray>>

(* nf_last_result is noErr, T_CONNECT's own or that of an abort since.     *)
ReadAnswer ==
    /\ pc = "answer" /\ nfResult = "ok" /\ pc' = "rcvconnect"
    /\ Stay
    /\ ConnectRest
    /\ UNCHANGED <<phase, osErr, best, nfVars, epVars, eps, ind, tlsVars, sinceHs, stray>>

(* It is an error, or OTRcvConnect returned one: always when an abort has  *)
(* taken T_CONNECT's place.                                                *)
RefuseConnect ==
    /\ \/ pc = "answer" /\ nfResult # "ok" /\ UNCHANGED stray
       \/ pc = "rcvconnect" /\ stray' = (stray \/ ~CalledFor(ep, "T_CONNECT"))
    /\ FailConnect("OTConnectFail")
    /\ ConnectRest /\ UNCHANGED <<nfVars, epVars, eps, ind, tlsVars, sinceHs>>

(* ostls_setup_bearssl: what it arms, and how it can fail.                 *)

(* Variant: the reconnect offers 1.3 again.                                *)
AlwaysWants13 == tryTls13

Wants13 == tryTls13 /\ ~disabled

(* Variant: the entropy layer's own code is passed through.                *)
RawSetupErrors == {"ClockBefore2000", "EntropyFail", "SeedFileMissing"}

SetupErrors == {"ClockBefore2000", "EntropyFail"}

SetupFails ==
    /\ Bump("Failed") /\ Return
    /\ UNCHANGED <<hs13, hsUnsent>>
    /\ \/ /\ \E err \in SetupErrors : Fail(err)
          /\ UNCHANGED <<mode, engine, sinceHs>>
       \/ /\ ~Wants13 \/ ~hs13
          /\ Fail("ClientResetFail")
          /\ mode' = "Off" /\ engine' = "seeded" /\ sinceHs' = 0

(* Variant: 1.3 is armed though its context could not be allocated.        *)
ArmUnallocated ==
    /\ Wants13
    /\ hs13' \in BOOLEAN /\ hsUnsent' = FALSE /\ mode' = "Trying" /\ engine' = "seeded"

Arm13 ==
    /\ Wants13
    /\ hs13' = TRUE /\ hsUnsent' = FALSE /\ mode' = "Trying" /\ engine' = "seeded"

(* 1.3 is off or declined, or its context could not be allocated.          *)
Reset12 ==
    /\ ~Wants13 \/ ~hs13
    /\ mode' = "Off" /\ engine' = "running"
    /\ UNCHANGED <<hs13, hsUnsent>>

(* OTRcvConnect accepted.                                                  *)
TakeConnect ==
    /\ pc = "rcvconnect" /\ Holds(ep, "T_CONNECT")
    /\ eps' = [eps EXCEPT ![ep] = "dataxfer"]
    /\ ind' = [ind EXCEPT ![ep] = @ \ {"T_CONNECT"}]
    /\ phase' = "Done"
    /\ \/ SetupFails
       \/ /\ Arm13 \/ Reset12
          /\ sinceHs' = 0
          /\ GoTo("Handshaking") /\ Bump("Connected") /\ Again
          /\ UNCHANGED osErr
    /\ ConnectRest /\ UNCHANGED <<nfVars, epVars, disabled, stray>>

ConnectStep == \/ ConnectTimedOut \/ ConnectAborted \/ AwaitNotifier \/ TakeOpen
               \/ SubmitBind \/ TakeBind \/ SubmitConnect
               \/ SeeConnect \/ ReadAnswer \/ RefuseConnect \/ TakeConnect

-----------------------------------------------------------------------------
(* The session's step: pump_tls13_step and pump_bearssl_step.              *)

InSession(m) == pc = "step" /\ state \in Session /\ (m = "Off" <=> mode = "Off")

SessionRest == UNCHANGED <<phase, started, closeReq, closeNotify, disposed, disabled,
                           nfVars, epVars, opened, timeVars, tryTls13>>

(* ostls_fail where the caller of the step sets no event: it returns -1    *)
(* and Pump leaves the loop with the best event it had.                    *)
FailQuietly(err) == Fail(err) /\ Return /\ UNCHANGED best
FailLoudly(err)  == Fail(err) /\ Bump("Failed") /\ Return

Progress == Again  /\ Stay /\ UNCHANGED <<osErr, best>>
Nothing  == Return /\ Stay /\ UNCHANGED <<osErr, best>>
Goto(p)  == pc' = p /\ Stay /\ UNCHANGED <<osErr, best>>

(* Reaching Closed, with its event.                                        *)
CloseDown == GoTo("Closed") /\ Bump("Closed") /\ Return /\ UNCHANGED osErr

NoPeerNews == UNCHANGED <<peerVars, eps, ind, stray>>

(* OTRcvOrderlyDisconnect, unless it was called before; its answer is not  *)
(* looked at, so a call refused over an abort counts as made.              *)
TakeRelease ==
    /\ peerClosed' = TRUE /\ ordConsumed' = TRUE
    /\ IF ~ordConsumed /\ Holds(ep, "T_ORDREL")
       THEN /\ eps' = [eps EXCEPT ![ep] = AfterRcvRelease(@)]
            /\ ind' = [ind EXCEPT ![ep] = @ \ {"T_ORDREL"}]
       ELSE UNCHANGED <<eps, ind>>
    /\ stray' = (stray \/ (~ordConsumed /\ ~CalledFor(ep, "T_ORDREL")))
    /\ UNCHANGED discConsumed

(* OTRcvDisconnect, unless it was called before.                           *)
TakeDisconnect ==
    /\ discConsumed' = TRUE
    /\ IF discConsumed THEN UNCHANGED <<eps, ind, stray>>
       ELSE Abort(ep) /\ stray' = (stray \/ ~Holds(ep, "T_DISCONNECT"))
    /\ UNCHANGED <<peerClosed, ordConsumed>>

CanSend == eps[ep] \in {"dataxfer", "outcon"}
CanRcv  == eps[ep] \in {"dataxfer", "outrel"}

(* OTRcv's answers, the same in pump_ot_recv_tls13 and                     *)
(* pump_ot_recv_into_bearssl.  A release that OTRcv's 0 or OTLook told of  *)
(* is taken by the next step; kOTNoDataErr leads to the look at            *)
(* nf_ord_release.  An abort stays until it is taken.                      *)
Receive ==
    /\ CanRcv
    /\ \E r \in RcvResults(ep) :
         \/ r = "data" /\ Progress /\ NoPeerNews
         \/ r = "nodata" /\ Goto("nodata") /\ NoPeerNews
         \/ r \in {"zero", "lookOrd"} /\ Goto("rcvrel") /\ NoPeerNews
         \/ r = "lookDisc" /\ TakeDisconnect /\ FailQuietly("PeerClosed")
         \/ r = "error" /\ NoPeerNews /\ FailQuietly("OTRcvFail")

(* ostls_send_raw and pump_ot_send_from_bearssl when something ends the    *)
(* connection or its sending half.                                         *)
SendCut ==
    /\ CanSend
    /\ \E r \in SndResults(ep) :
         \/ r = "lookOrd" /\ Goto("sndrel") /\ NoPeerNews
         \/ r = "lookDisc" /\ TakeDisconnect /\ FailQuietly("PeerClosed")
         \/ r = "error" /\ NoPeerNews /\ FailQuietly("OTSndFail")

TlsKept == UNCHANGED <<mode, hs13, hsUnsent, engine>>

(* nf_ord_release, looked at after OTRcv had nothing.                      *)
NoData ==
    /\ pc = "nodata"
    /\ IF "ord" \in nf /\ ~ordConsumed
       THEN Goto("rcvrel") ELSE Nothing
    /\ NoPeerNews /\ SessionRest /\ TlsKept

ReceivedRelease ==
    /\ pc = "rcvrel"
    /\ TakeRelease /\ Progress
    /\ SessionRest /\ TlsKept

(* A send that met the release: BearSSL's record is given up, the          *)
(* handshake message waits, after an application record the step goes on.  *)
SentRelease ==
    /\ pc = "sndrel"
    /\ TakeRelease
    /\ IF mode = "Off" THEN Progress ELSE IF hsUnsent THEN Nothing ELSE Goto("record")
    /\ SessionRest /\ TlsKept

StepRelease == NoData \/ ReceivedRelease \/ SentRelease

-----------------------------------------------------------------------------
(* TLS 1.3: pump_tls13_step.  The handshake itself (tls13_handshake_step)  *)
(* is an oracle: it wants bytes, made a message, finished, declined or     *)
(* failed.                                                                 *)

FlushHandshake ==
    /\ InSession("13") /\ hsUnsent
    /\ \/ ~CanSend /\ Nothing /\ NoPeerNews /\ UNCHANGED hsUnsent
       \/ SendCut /\ UNCHANGED hsUnsent
       \/ /\ CanSend /\ NoPeerNews
          /\ \E r \in SndResults(ep) :
               \/ r = "all" /\ hsUnsent' = FALSE /\ Goto("step")
               \/ r = "some" /\ Progress /\ UNCHANGED hsUnsent
               \/ r = "none" /\ Nothing /\ UNCHANGED hsUnsent
    /\ SessionRest /\ UNCHANGED <<mode, hs13, engine>>

(* An application record in flight.                                        *)
FlushRecord ==
    /\ InSession("13") /\ ~hsUnsent /\ state # "Handshaking"
    /\ SendCut
    /\ SessionRest /\ TlsKept

Shaking13 == InSession("13") /\ state = "Handshaking" /\ mode = "Trying" /\ ~hsUnsent

HandshakeDone13 ==
    /\ Shaking13
    /\ GoTo("Open") /\ mode' = "Open13" /\ Bump("HandshakeDone") /\ Again
    /\ NoPeerNews /\ SessionRest /\ UNCHANGED <<osErr, hs13, hsUnsent, engine>>

HandshakeWantsRead13 ==
    /\ Shaking13
    /\ Receive \/ (Nothing /\ NoPeerNews)
    /\ SessionRest /\ TlsKept

HandshakeMoves13 ==
    /\ Shaking13
    /\ hsUnsent' \in BOOLEAN /\ Progress
    /\ NoPeerNews /\ SessionRest /\ UNCHANGED <<mode, hs13, engine>>

HandshakeFails13 ==
    /\ Shaking13
    /\ FailLoudly("BearSSLError")
    /\ NoPeerNews /\ SessionRest /\ TlsKept

(* ostls_fallback_to_tls12, first the old endpoint ...                     *)
FallbackClose ==
    /\ Shaking13
    /\ ReleaseEndpoint
    /\ pc' = "reopen"
    /\ UNCHANGED <<state, phase, osErr, lifeVars, peerVars, tlsVars, nfVars, opened,
                   timeVars, tryTls13, best, age, stray>>

(* Variant: only the flags of the connect arc are cleared.                 *)
ForgetConnectFlags == nf' = nf \ {"open", "bind", "connect"} /\ UNCHANGED nfResult

ForgetFlags == nf' = {} /\ UNCHANGED nfResult

(* ... then what the notifier said of it, and a new endpoint.              *)
FallbackReopen ==
    /\ pc = "reopen"
    /\ ForgetFlags
    /\ peerClosed' = FALSE /\ ordConsumed' = FALSE /\ discConsumed' = FALSE
    /\ closeNotify' = FALSE
    /\ mode' = "Off" /\ disabled' = TRUE /\ engine' = "none"
    /\ hs13' = FALSE /\ hsUnsent' = FALSE
    /\ \/ /\ \E err \in {"OTConfigFail", "OTOpenFail"} : FailLoudly(err)
          /\ UNCHANGED <<otVars, phase, sinceStart>>
       \/ /\ OpenEndpoint
          /\ GoTo("Connecting") /\ phase' = "OpenInFlight" /\ TakeStartTicks
          /\ Again /\ UNCHANGED <<osErr, best>>
    /\ UNCHANGED <<started, closeReq, disposed, epVars, sinceHs, tryTls13, stray>>

(* Open and Closing: the record layer.                                     *)
Record13 ==
    /\ \/ InSession("13") /\ ~hsUnsent /\ state # "Handshaking"
       \/ pc = "record"
    /\ \/ NoPeerNews /\ Progress
       \/ NoPeerNews /\ Nothing
       \/ NoPeerNews /\ FailLoudly("BearSSLError")
       \/ /\ peerClosed' = TRUE /\ CloseDown
          /\ UNCHANGED <<ordConsumed, discConsumed, eps, ind, stray>>
       \/ ~peerClosed /\ Receive
       \/ peerClosed /\ CloseDown /\ NoPeerNews
    /\ SessionRest /\ TlsKept

Step13 == \/ FlushHandshake \/ FlushRecord \/ HandshakeDone13 \/ HandshakeWantsRead13
          \/ HandshakeMoves13 \/ HandshakeFails13 \/ FallbackClose \/ FallbackReopen
          \/ Record13

-----------------------------------------------------------------------------
(* TLS 1.2: pump_bearssl_step.  BearSSL's engine state is a choice.        *)

Rest12 == SessionRest /\ TlsKept

EngineEnded12 ==
    /\ InSession("Off")
    /\ NoPeerNews
    /\ \/ state # "Handshaking" /\ CloseDown
       \/ state = "Handshaking" /\ FailLoudly("PeerClosed")
       \/ FailLoudly("BearSSLError")
    /\ Rest12

HandshakeDone12 ==
    /\ InSession("Off") /\ state = "Handshaking"
    /\ GoTo("Open") /\ Bump("HandshakeDone") /\ Again
    /\ NoPeerNews /\ UNCHANGED osErr /\ Rest12

Send12 ==
    /\ InSession("Off")
    /\ \/ NoPeerNews /\ Progress
       \/ SendCut
    /\ Rest12

Receive12 ==
    /\ InSession("Off") /\ ~peerClosed
    /\ \/ ~CanRcv /\ NoPeerNews /\ Progress
       \/ Receive
    /\ Rest12

Drain12 ==
    /\ InSession("Off") /\ NoPeerNews /\ Nothing
    /\ Rest12

(* The peer is gone and the engine holds no plaintext.                     *)
PeerGone12 ==
    /\ InSession("Off") /\ peerClosed
    /\ NoPeerNews /\ CloseDown
    /\ Rest12

Step12 == \/ EngineEnded12 \/ HandshakeDone12 \/ Send12 \/ Receive12 \/ Drain12
          \/ PeerGone12

-----------------------------------------------------------------------------
PumpStep == ConnectStep \/ StepRelease \/ Step13 \/ Step12

Next == \/ SetTryTLS13 \/ Start \/ Close \/ Dispose
        \/ PumpBegin \/ PumpPre \/ PumpStep
        \/ Network \/ Tick

Spec == Init /\ [][Next]_vars

(* The caller must call Pump until the connection settles, and the clock   *)
(* runs; the network owes nothing.                                         *)
Fairness == WF_vars(PumpBegin) /\ WF_vars(PumpPre) /\ WF_vars(PumpStep) /\ WF_vars(Tick)

FairSpec == Spec /\ Fairness

-----------------------------------------------------------------------------
(* Properties.                                                             *)

(* The type invariant.                                                     *)
TypeOK ==
    /\ state \in States /\ phase \in Phases /\ osErr \in Errors /\ mode \in Modes
    /\ disabled \in BOOLEAN /\ started \in BOOLEAN /\ closeReq \in BOOLEAN
    /\ closeNotify \in BOOLEAN /\ disposed \in BOOLEAN /\ hs13 \in BOOLEAN
    /\ hsUnsent \in BOOLEAN /\ engine \in Engines
    /\ peerClosed \in BOOLEAN /\ ordConsumed \in BOOLEAN /\ discConsumed \in BOOLEAN
    /\ ep \in Endpoints \cup {NoEp} /\ epOpen \in BOOLEAN
    /\ nf \subseteq Flags /\ nfResult \in Results
    /\ tryTls13 \in BOOLEAN
    /\ sinceStart \in 0..(ConnectTimeout + 1) /\ sinceHs \in 0..(HandshakeTimeout + 1)
    /\ age \in 0..(ConnectTimeout + HandshakeTimeout)
    /\ pc \in Places /\ best \in Events
    /\ eps \in [Endpoints -> EpStates] /\ ind \in [Endpoints -> SUBSET Indications]
    /\ opened \in 0..MaxOpens /\ stray \in BOOLEAN

(* A reconnect never leaves the declined endpoint open beside the new one, *)
(* whatever the notifier reports meanwhile (ostls_fallback_to_tls12).      *)
OneLiveEndpoint == \A e, f \in Endpoints : Live(e) /\ Live(f) => e = f

(* An endpoint that Pump has picked up is closed by Dispose; the only one  *)
(* that can outlive the connection is one whose open Pump never saw.       *)
DisposeReleases == disposed => \A e \in Endpoints : Live(e) => phase = "OpenInFlight"

(* A call that takes an indication is made only on an endpoint that raised *)
(* it, and once: OT refuses it only where an abort has come between the    *)
(* look and the call.  Bind and connect are made in their states.  So no   *)
(* flag of the declined endpoint reaches the new one, whenever the         *)
(* notifier set it (ostls_fallback_to_tls12).                              *)
NoStrayCall == ~stray

(* OSTLS_GetLastError is noErr exactly until the connection fails.         *)
FailedIffError == (state = "Failed") <=> (osErr # "none")

(* While a session runs, the context its step dereferences is there: the   *)
(* 1.3 handshake context when tls13_mode says so, a reset BearSSL engine   *)
(* otherwise, over an endpoint that is connected or has been.              *)
SessionReady ==
    state \in Session /\ ~disposed /\ pc # "reopen" =>
        /\ ep # NoEp /\ epOpen
        /\ eps[ep] \in {"dataxfer", "outrel", "inrel", "idle"}
        /\ IF mode = "Off" THEN engine = "running" ELSE hs13 /\ engine = "seeded"
        /\ (mode = "Trying") <=> (state = "Handshaking" /\ mode # "Off")

(* One reconnect at most: the second attempt never offers 1.3.             *)
FallbackOnce == opened <= 2 /\ (opened = 2 => disabled)

(* Failed and Closed are final, and the error recorded first stays.        *)
TerminalIsFinal ==
    [][(state \in Terminal) => state' = state /\ osErr' = osErr]_vars

(* A timeout is reported only when this attempt had its whole budget: the  *)
(* reconnect and the second handshake start their own.                     *)
FullBudget ==
    [][/\ osErr' = "ConnectTimeout" => osErr = osErr' \/ age > ConnectTimeout
       /\ osErr' = "HandshakeTimeout" => osErr = osErr' \/ age > HandshakeTimeout]_vars

(* The connection is one of the public contract: its state, its error, the *)
(* one reconnect, Close and Dispose move as OSTLSLifecycle says.           *)
Lifecycle == INSTANCE OSTLSLifecycle WITH
    Error <- Errors \ {"none"}, NoError <- "none", Aborted <- "WrongState",
    error <- osErr, declined <- disabled, asked <- closeReq, gone <- disposed
ImplementsLifecycle == Lifecycle!LcSpec

(* A caller that keeps pumping sees the connection leave Connecting and    *)
(* Handshaking, whatever OT and the peer do or do not report.              *)
Settles ==
    state \in {"Connecting", "Handshaking"} ~>
        (state \notin {"Connecting", "Handshaking"} \/ disposed)

-----------------------------------------------------------------------------
(* What a document says and the code does not do.                          *)

(* ostls_async.h, OSTLS_Dispose: "Tears down any live OT endpoint first".  *)
DisposeTearsDown == disposed => \A e \in Endpoints : ~Live(e)

=============================================================================

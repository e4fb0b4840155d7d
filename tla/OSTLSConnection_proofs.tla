------------------------ MODULE OSTLSConnection_proofs ------------------------
(***************************************************************************)
(* Proofs about OSTLSConnection for every MaxOpens and every pair of       *)
(* timeouts.  The invariants TLC checks are not inductive: they say what   *)
(* must not happen, and hold because of where the endpoint stands at each  *)
(* point of the connect arc and which of its indications the notifier's    *)
(* flags still stand for.  IInv says that.                                 *)
(***************************************************************************)
EXTENDS OSTLSConnection, TLAPS

-----------------------------------------------------------------------------
(* The inductive invariant.                                                *)

(* At most the endpoint opened last is in use; a second one only after the *)
(* first was closed for good.                                              *)
InvOpened ==
    /\ opened <= 2 /\ (opened = 2 => disabled) /\ (opened = 0 <=> ~started)
    /\ state = "Idle" => ~started
    /\ ~started => nf = {} /\ state \in {"Idle", "Failed"}
    /\ started => phase # "NeedsOpen"
    /\ \A e \in Endpoints : e > opened <=> eps[e] = "free"
    /\ \A e \in Endpoints : e < opened => eps[e] = "closed"
    /\ \A e \in Endpoints :
          eps[e] \in {"free", "opening", "unbnd", "binding", "closed"} => ind[e] = {}

(* Who holds the endpoint: Pump once it took the open, nobody before.      *)
InvHeld ==
    /\ ep \in {NoEp, opened}
    /\ epOpen => ep # NoEp
    /\ phase = "OpenInFlight" =>
          ~epOpen /\ opened # 0 /\ eps[opened] \in {"opening", "unbnd", "closed"}
    /\ phase # "OpenInFlight" =>
          \A e \in Endpoints : Live(e) => eps[e] # "opening" /\ epOpen /\ ep = e
    /\ disposed => \A e \in Endpoints : Live(e) => phase = "OpenInFlight"
    /\ pc # "app" => ~disposed /\ state \in {"Connecting"} \cup Session
    /\ pc = "reopen" => ep = NoEp /\ ~epOpen /\ \A e \in Endpoints : ~Live(e)

(* Where the endpoint stands while the connect arc runs.                   *)
InvArc ==
    state = "Connecting" /\ ~disposed =>
        /\ phase = "OpenInFlight" =>
              /\ nf \subseteq {"open"}
              /\ "open" \in nf /\ nfResult = "ok" /\ ep # NoEp => eps[opened] = "unbnd"
        /\ phase # "OpenInFlight" => epOpen
        /\ phase = "NeedsBind" => nf = {} /\ eps[ep] = "unbnd"
        /\ phase = "BindInFlight" =>
              /\ nf \subseteq {"bind"}
              /\ eps[ep] \in {"binding", "idle", "unbnd"} /\ ind[ep] = {}
              /\ "bind" \in nf /\ nfResult = "ok" => eps[ep] = "idle"
              /\ "bind" \in nf => eps[ep] # "binding"
        /\ phase = "NeedsConnect" => nf = {} /\ eps[ep] = "idle" /\ ind[ep] = {}
        /\ phase = "ConnectInFlight" =>
              /\ nf \subseteq {"connect", "ord", "disc"}
              /\ eps[ep] \in {"outcon", "idle"}
              /\ "connect" \in nf =>
                    eps[ep] = "idle" \/ ind[ep] \cap {"T_CONNECT", "T_DISCONNECT"} # {}
              /\ "connect" \in nf /\ nfResult = "ok" =>
                    ind[ep] \cap {"T_CONNECT", "T_DISCONNECT"} # {}
        /\ phase \notin {"NeedsOpen", "Done"}

(* A running session: its endpoint, and the context its step uses.         *)
InvSession ==
    /\ state \in Session /\ ~disposed /\ pc # "reopen" =>
          /\ epOpen /\ phase = "Done" /\ nf \subseteq {"ord", "disc"}
          /\ eps[ep] \in {"dataxfer", "outrel", "inrel", "idle"} /\ "T_CONNECT" \notin ind[ep]
          /\ mode = "Off" => engine = "running"
    /\ state = "Closing" => closeReq
    /\ pc = "reopen" => state = "Handshaking" /\ mode = "Trying" /\ phase = "Done"
    /\ mode # "Off" => ~disabled /\ (disposed \/ (hs13 /\ engine = "seeded"))
    /\ state \in {"Idle", "Connecting"} => mode = "Off" /\ ~hs13
    /\ state \in Session /\ mode # "Off" => (mode = "Trying" <=> state = "Handshaking")

(* Each flag of the notifier stands for an indication OT still holds.      *)
InvFlags ==
    state \notin Terminal /\ ~disposed /\ pc # "reopen" =>
        /\ ~discConsumed
        /\ "disc" \in nf => ep # NoEp /\ "T_DISCONNECT" \in ind[ep]
        /\ "ord" \in nf /\ ~ordConsumed =>
              ep # NoEp /\ ind[ep] \cap {"T_ORDREL", "T_DISCONNECT"} # {}
        /\ ep # NoEp /\ "T_DISCONNECT" \in ind[ep] => "disc" \in nf

(* The deadlines run from the start of the attempt they belong to.         *)
InvClock ==
    /\ state = "Connecting" => sinceStart <= age
    /\ state = "Handshaking" => sinceHs <= age

(* What Pump has just looked at still holds when the call comes, or an     *)
(* abort has taken its place.                                              *)
InvLooked ==
    /\ pc \in {"answer", "rcvconnect"} =>
          /\ state = "Connecting" /\ phase = "ConnectInFlight" /\ "connect" \notin nf
          /\ eps[ep] = "idle" \/ ind[ep] \cap {"T_CONNECT", "T_DISCONNECT"} # {}
          /\ pc = "rcvconnect" \/ nfResult = "ok" =>
                ind[ep] \cap {"T_CONNECT", "T_DISCONNECT"} # {}
    /\ pc \in {"nodata", "rcvrel", "sndrel", "record"} => state \in Session
    /\ pc \in {"rcvrel", "sndrel"} =>
          ordConsumed \/ ind[ep] \cap {"T_ORDREL", "T_DISCONNECT"} # {}
    /\ pc = "record" \/ (pc = "sndrel" /\ mode # "Off" /\ ~hsUnsent) =>
          state # "Handshaking"

IInv == /\ TypeOK /\ InvOpened /\ InvHeld /\ InvArc /\ InvSession /\ InvFlags
        /\ InvClock /\ InvLooked /\ FailedIffError /\ NoStrayCall

-----------------------------------------------------------------------------
(* The abbreviations every action is written with.                         *)
USE DEF lifeVars, peerVars, tlsVars, nfVars, epVars, otVars, timeVars,
        GoTo, Stay, Bump, Again, Return, Session, Terminal, Places

-----------------------------------------------------------------------------
(* What the operations on the endpoint keep of its type.                   *)

EndpointTypes ==
    /\ eps \in [Endpoints -> EpStates] /\ ind \in [Endpoints -> SUBSET Indications]
    /\ ep \in Endpoints \cup {NoEp} /\ epOpen \in BOOLEAN
    /\ stray \in BOOLEAN

(* OTCloseProvider leaves endpoint states and indications well formed.     *)
LEMMA CloseProviderTypes ==
    ASSUME EndpointTypes, NEW e, CloseProvider(e)
    PROVE  eps' \in [Endpoints -> EpStates] /\ ind' \in [Endpoints -> SUBSET Indications]
  BY DEF EndpointTypes, CloseProvider, EpStates

(* So do the disconnect calls ...                                          *)
LEMMA AbortTypes ==
    ASSUME EndpointTypes, NEW e, Abort(e)
    PROVE  eps' \in [Endpoints -> EpStates] /\ ind' \in [Endpoints -> SUBSET Indications]
  BY DEF EndpointTypes, Abort, EpStates

(* ... the tear-down Dispose and the reconnect share ...                   *)
LEMMA ReleaseEndpointTypes ==
    ASSUME EndpointTypes, ReleaseEndpoint, UNCHANGED stray
    PROVE  EndpointTypes'
  BY CloseProviderTypes DEF EndpointTypes, ReleaseEndpoint

(* ... and the release taken once.                                         *)
LEMMA TakeReleaseTypes ==
    ASSUME EndpointTypes, TakeRelease, UNCHANGED epVars
    PROVE  EndpointTypes'
  <1>1. eps' \in [Endpoints -> EpStates] /\ ind' \in [Endpoints -> SUBSET Indications]
    BY DEF EndpointTypes, TakeRelease, AfterRcvRelease, EpStates
  <1>2. stray' \in BOOLEAN
    BY DEF EndpointTypes, TakeRelease
  <1>3. QED BY <1>1, <1>2 DEF EndpointTypes

(* ostls_fail keeps the fields it sets well formed.                        *)
LEMMA FailTypes ==
    ASSUME TypeOK, NEW err \in Errors, Fail(err)
    PROVE  state' \in States /\ osErr' \in Errors /\ age' = 0
  BY DEF TypeOK, Fail, States

-----------------------------------------------------------------------------
(* IInv holds of the states OSTLS_New makes.                               *)
LEMMA InitInvariant == Init => IInv
  <1>. SUFFICES ASSUME Init PROVE IInv
    OBVIOUS
  <1>. USE DEF Init
  <1>1. TypeOK
    <2>1. eps \in [Endpoints -> EpStates] /\ ind \in [Endpoints -> SUBSET Indications]
      BY DEF EpStates
    <2>2. opened \in 0..MaxOpens /\ age \in 0..(ConnectTimeout + HandshakeTimeout)
      BY ConnAssumption
    <2>3. sinceStart \in 0..(ConnectTimeout + 1) /\ sinceHs \in 0..(HandshakeTimeout + 1)
      BY ConnAssumption
    <2>4. tryTls13 \in BOOLEAN
      OBVIOUS
    <2>5. QED
      BY <2>1, <2>2, <2>3, <2>4 DEF TypeOK, States, Phases, Modes, Errors, Results,
         Engines, Events
  <1>2. InvOpened /\ InvHeld /\ InvArc /\ InvSession
    BY DEF InvOpened, InvHeld, InvArc, InvSession, Endpoints, Live
  <1>3. InvFlags /\ InvClock /\ InvLooked /\ FailedIffError /\ NoStrayCall
    BY DEF InvFlags, InvClock, InvLooked, FailedIffError, NoStrayCall
  <1>4. QED BY <1>1, <1>2, <1>3 DEF IInv

-----------------------------------------------------------------------------
(* The caller's operations keep IInv.                                      *)
LEMMA CallerStep ==
    ASSUME IInv, SetTryTLS13 \/ Start \/ Close \/ Dispose
    PROVE  IInv'
  <1>1. CASE SetTryTLS13
    BY <1>1, ConnAssumption DEF IInv, InvOpened, InvHeld, InvArc, InvSession, InvFlags,
       InvClock, InvLooked, FailedIffError, NoStrayCall, TypeOK, Live, SetTryTLS13
  <1>2. CASE Start
    <2>1. TypeOK'
      <3>1. state' \in States /\ phase' \in Phases /\ osErr' \in Errors /\ age' = 0
        BY <1>2, FailTypes DEF IInv, TypeOK, Start, States, Phases, Errors
      <3>2. eps' \in [Endpoints -> EpStates] /\ ind' \in [Endpoints -> SUBSET Indications]
        BY <1>2 DEF IInv, TypeOK, Start, OpenEndpoint, EpStates
      <3>3. opened' \in 0..MaxOpens /\ sinceStart' \in 0..(ConnectTimeout + 1)
        BY <1>2, ConnAssumption DEF IInv, TypeOK, Start, OpenEndpoint, TakeStartTicks
      <3>4. started' \in BOOLEAN
        BY <1>2 DEF IInv, TypeOK, Start
      <3>5. QED BY <1>2, <3>1, <3>2, <3>3, <3>4, ConnAssumption DEF IInv, TypeOK, Start
    <2>2. (InvOpened /\ InvHeld /\ InvArc)'
      BY <1>2, ConnAssumption DEF IInv, InvOpened, InvHeld, InvArc, TypeOK, Endpoints,
         Live, Start, Fail, OpenEndpoint
    <2>3. (InvSession /\ InvFlags /\ InvClock /\ InvLooked /\ FailedIffError /\ NoStrayCall)'
      BY <1>2, ConnAssumption DEF IInv, InvSession, InvFlags, InvClock, InvLooked,
         FailedIffError, NoStrayCall, Start, Fail, OpenEndpoint, TakeStartTicks
    <2>4. QED BY <2>1, <2>2, <2>3 DEF IInv
  <1>3. CASE Close
    <2>1. TypeOK'
      <3>1. state' \in States /\ osErr' \in Errors /\ age' \in 0..(ConnectTimeout + HandshakeTimeout)
        BY <1>3, ConnAssumption DEF IInv, TypeOK, Close, CloseEarly, CloseSession,
           CloseNothing, States, Errors
      <3>2. eps' \in [Endpoints -> EpStates] /\ ind' \in [Endpoints -> SUBSET Indications]
        BY <1>3, AbortTypes DEF IInv, TypeOK, EndpointTypes, Close, CloseEarly,
           CloseSession, CloseNothing, AfterSndRelease, EpStates
      <3>3. closeNotify' \in BOOLEAN
        BY <1>3 DEF IInv, TypeOK, Close, CloseEarly, CloseSession, CloseNothing
      <3>4. QED BY <1>3, <3>1, <3>2, <3>3 DEF IInv, TypeOK, Close
    <2>2. (InvOpened /\ InvHeld /\ InvArc)'
      BY <1>3, ConnAssumption DEF IInv, InvOpened, InvHeld, InvArc, TypeOK, Endpoints,
         Live, Close, Abort, AfterSndRelease, Caller, CloseEarly, CloseNothing,
         CloseSession
    <2>3. (InvSession /\ InvFlags /\ InvClock /\ InvLooked /\ FailedIffError /\ NoStrayCall)'
      BY <1>3, ConnAssumption DEF IInv, InvSession, InvFlags, InvClock, InvLooked,
         FailedIffError, NoStrayCall, TypeOK, Close, AfterSndRelease, Caller,
         CloseEarly, CloseNothing, CloseSession
    <2>4. QED BY <2>1, <2>2, <2>3 DEF IInv
  <1>4. CASE Dispose
    <2>1. TypeOK'
      <3>1. EndpointTypes'
        BY <1>4, ReleaseEndpointTypes DEF IInv, TypeOK, EndpointTypes, Dispose
      <3>2. disposed' \in BOOLEAN /\ hs13' \in BOOLEAN
        BY <1>4 DEF Dispose
      <3>3. QED BY <1>4, <3>1, <3>2 DEF IInv, TypeOK, EndpointTypes, Dispose
    <2>2. (InvOpened /\ InvHeld /\ InvArc)'
      BY <1>4, ConnAssumption DEF IInv, InvOpened, InvHeld, InvArc, TypeOK, Live,
         Dispose, Caller, CloseProvider, ReleaseEndpoint
    <2>3. (InvSession /\ InvFlags /\ InvClock /\ InvLooked /\ FailedIffError /\ NoStrayCall)'
      BY <1>4, ConnAssumption DEF IInv, InvSession, InvFlags, InvClock, InvLooked,
         FailedIffError, NoStrayCall, Dispose, Caller
    <2>4. QED BY <2>1, <2>2, <2>3 DEF IInv
  <1>5. QED BY <1>1, <1>2, <1>3, <1>4

(* The top of the loop keeps IInv: the disconnect it takes is still there. *)
LEMMA LoopTopStep ==
    ASSUME IInv, PumpBegin \/ PumpPre
    PROVE  IInv'
  <1>1. CASE PumpBegin
    BY <1>1, ConnAssumption DEF IInv, InvOpened, InvHeld, InvArc, InvSession,
       InvFlags, InvClock, InvLooked, FailedIffError, NoStrayCall, TypeOK, Events,
       Live, PumpBegin, Caller
  <1>2. CASE PumpPre
    <2>1. TypeOK'
      <3>1. EndpointTypes'
        BY <1>2, AbortTypes DEF IInv, TypeOK, EndpointTypes, PumpPre
      <3>2. state' \in States /\ osErr' \in Errors /\ age' \in 0..(ConnectTimeout + HandshakeTimeout)
        BY <1>2, ConnAssumption DEF IInv, TypeOK, PumpPre, Fail, States, Errors
      <3>3. pc' \in Places /\ best' \in Events /\ discConsumed' \in BOOLEAN
        BY <1>2 DEF IInv, TypeOK, PumpPre, Events
      <3>4. QED BY <1>2, <3>1, <3>2, <3>3 DEF IInv, TypeOK, EndpointTypes, PumpPre
    <2>2. (InvOpened /\ InvHeld /\ InvArc)'
      BY <1>2, ConnAssumption DEF IInv, InvOpened, InvHeld, InvArc, InvFlags, TypeOK,
         Live, PumpPre, Abort, AbortSeen, Fail
    <2>3. (InvSession /\ InvFlags /\ InvClock /\ InvLooked /\ FailedIffError /\ NoStrayCall)'
      BY <1>2, ConnAssumption DEF IInv, InvSession, InvFlags, InvClock, InvLooked,
         FailedIffError, NoStrayCall, InvHeld, TypeOK, Holds, PumpPre, AbortSeen,
         Fail
    <2>4. QED BY <2>1, <2>2, <2>3 DEF IInv
  <1>3. QED BY <1>1, <1>2

(* Every step of the connect arc keeps IInv.                               *)
LEMMA ConnectArcStep ==
    ASSUME IInv, ConnectStep
    PROVE  IInv'
  <1>1. CASE ConnectTimedOut
    BY <1>1, ConnAssumption DEF IInv, InvOpened, InvHeld, InvArc, InvSession,
       InvFlags, InvClock, InvLooked, FailedIffError, NoStrayCall, TypeOK, States,
       Errors, Events, Live, ConnectTimedOut, ConnectRest, Fail, FailConnect
  <1>2. CASE ConnectAborted
    BY <1>2, ConnAssumption DEF IInv, InvOpened, InvHeld, InvArc, InvSession,
       InvFlags, InvClock, InvLooked, FailedIffError, NoStrayCall, TypeOK, States,
       Errors, Events, Live, ConnectAborted, ConnectRest, Fail, FailConnect
  <1>3. CASE AwaitNotifier
    BY <1>3, ConnAssumption DEF IInv, InvOpened, InvHeld, InvArc, InvSession,
       InvFlags, InvClock, InvLooked, FailedIffError, NoStrayCall, TypeOK, Live,
       AwaitNotifier, AtPhase, ConnectRest
  <1>4. CASE TakeOpen
    <2>1. TypeOK'
      <3>1. nf' \subseteq Flags /\ epOpen' \in BOOLEAN /\ phase' \in Phases
        BY <1>4 DEF IInv, TypeOK, TakeOpen, FailConnect, Advance, Phases
      <3>2. state' \in States /\ osErr' \in Errors /\ age' \in 0..(ConnectTimeout + HandshakeTimeout)
        BY <1>4, ConnAssumption DEF IInv, TypeOK, TakeOpen, FailConnect, Advance, Fail,
           States, Errors
      <3>3. pc' \in Places /\ best' \in Events
        BY <1>4 DEF IInv, TypeOK, TakeOpen, FailConnect, Advance, Events
      <3>4. QED BY <1>4, <3>1, <3>2, <3>3 DEF IInv, TypeOK, TakeOpen, ConnectRest
    <2>2. (InvOpened /\ InvHeld /\ InvArc)'
      BY <1>4, ConnAssumption DEF IInv, InvOpened, InvHeld, InvArc, InvSession,
         InvFlags, TypeOK, Endpoints, NoEp, Live, TakeOpen, Advance, AtPhase,
         ConnectRest, Fail, FailConnect
    <2>3. (InvSession /\ InvFlags /\ InvClock /\ InvLooked /\ FailedIffError /\ NoStrayCall)'
      BY <1>4, ConnAssumption DEF IInv, InvSession, InvFlags, InvClock, InvLooked,
         FailedIffError, NoStrayCall, TakeOpen, Advance, AtPhase, ConnectRest,
         Fail, FailConnect
    <2>4. QED BY <2>1, <2>2, <2>3 DEF IInv
  <1>5. CASE SubmitBind
    BY <1>5, ConnAssumption DEF IInv, InvOpened, InvHeld, InvArc, InvSession,
       InvFlags, InvClock, InvLooked, FailedIffError, NoStrayCall, TypeOK, States,
       Phases, Errors, Events, EpStates, Live, SubmitBind, Advance, AtPhase,
       ConnectRest, Fail, FailConnect
  <1>6. CASE TakeBind
    BY <1>6, ConnAssumption DEF IInv, InvOpened, InvHeld, InvArc, InvSession,
       InvFlags, InvClock, InvLooked, FailedIffError, NoStrayCall, TypeOK, States,
       Phases, Errors, Events, Live, TakeBind, Advance, AtPhase, ConnectRest, Fail,
       FailConnect
  <1>7. CASE SubmitConnect
    BY <1>7, ConnAssumption DEF IInv, InvOpened, InvHeld, InvArc, InvSession,
       InvFlags, InvClock, InvLooked, FailedIffError, NoStrayCall, TypeOK, States,
       Phases, Errors, Events, EpStates, Indications, Live, SubmitConnect, Advance,
       AtPhase, ConnectRest, Fail, FailConnect
  <1>8. CASE RefuseConnect
    BY <1>8, ConnAssumption DEF IInv, InvOpened, InvHeld, InvArc, InvSession, InvFlags,
       InvClock, InvLooked, FailedIffError, NoStrayCall, TypeOK, States, Errors, Events,
       Live, Holds, CalledFor, RefuseConnect, ConnectRest, Fail, FailConnect
  <1>9. CASE TakeConnect
    <2>1. TypeOK'
      <3>1. eps' \in [Endpoints -> EpStates] /\ ind' \in [Endpoints -> SUBSET Indications]
        BY <1>9 DEF IInv, TypeOK, TakeConnect, EpStates
      <3>2. nf' \subseteq Flags /\ phase' \in Phases /\ stray' \in BOOLEAN
        BY <1>9 DEF IInv, TypeOK, TakeConnect, Phases
      <3>3. state' \in States /\ osErr' \in Errors /\ age' = 0
        BY <1>9 DEF IInv, TypeOK, TakeConnect, SetupFails, SetupErrors, Fail, States,
           Errors
      <3>4. pc' \in Places /\ best' \in Events
        BY <1>9 DEF IInv, TypeOK, TakeConnect, SetupFails, Events
      <3>5. mode' \in Modes /\ engine' \in Engines
        BY <1>9 DEF IInv, TypeOK, TakeConnect, SetupFails, Arm13, Reset12, Modes,
           Engines
      <3>6. hs13' \in BOOLEAN /\ hsUnsent' \in BOOLEAN
        BY <1>9 DEF IInv, TypeOK, TakeConnect, SetupFails, Arm13, Reset12
      <3>7. sinceHs' \in 0..(HandshakeTimeout + 1)
        BY <1>9, ConnAssumption DEF IInv, TypeOK, TakeConnect, SetupFails
      <3>8. UNCHANGED <<lifeVars, peerVars, opened, sinceStart, tryTls13, nfResult, epVars, disabled>>
        BY <1>9 DEF TakeConnect, ConnectRest
      <3>9. QED
        BY <3>1, <3>2, <3>3, <3>4, <3>5, <3>6, <3>7, <3>8, ConnAssumption DEF IInv,
           TypeOK
    <2>2. (InvOpened /\ InvHeld /\ InvArc)'
      BY <1>9, ConnAssumption DEF IInv, InvOpened, InvHeld, InvArc, InvLooked,
         TypeOK, Live, TakeConnect, ConnectRest, Fail, SetupFails
    <2>3. (InvSession /\ InvFlags /\ InvClock /\ InvLooked /\ FailedIffError /\ NoStrayCall)'
      BY <1>9, ConnAssumption DEF IInv, InvSession, InvFlags, InvClock, InvLooked,
         FailedIffError, NoStrayCall, InvHeld, InvArc, TypeOK, Holds, TakeConnect,
         Arm13, AtPhase, ConnectRest, Fail, Reset12, SetupErrors, SetupFails,
         Wants13
    <2>4. QED BY <2>1, <2>2, <2>3 DEF IInv
  <1>10. CASE SeeConnect
    BY <1>10, ConnAssumption DEF IInv, InvOpened, InvHeld, InvArc, InvSession,
       InvFlags, InvClock, InvLooked, FailedIffError, NoStrayCall, TypeOK, Live,
       SeeConnect, AtPhase, ConnectRest
  <1>11. CASE ReadAnswer
    BY <1>11, ConnAssumption DEF IInv, InvOpened, InvHeld, InvArc, InvSession,
       InvFlags, InvClock, InvLooked, FailedIffError, NoStrayCall, TypeOK, Live,
       ReadAnswer, ConnectRest
  <1>12. QED BY <1>1, <1>2, <1>3, <1>4, <1>5, <1>6, <1>7, <1>8, <1>9, <1>10, <1>11
         DEF ConnectStep

-----------------------------------------------------------------------------
(* How a step of the session ends, whichever call it made.                 *)

(* A slice that neither ends the session nor touches the endpoint: what it *)
(* goes on to was looked at.                                               *)
SliceMoves ==
    /\ UNCHANGED <<state, age, osErr, best>> /\ NoPeerNews
    /\ pc' \in {"app", "pre", "step", "nodata", "rcvrel", "sndrel", "record"}
    /\ pc' \in {"rcvrel", "sndrel"} =>
          ordConsumed \/ ind[ep] \cap {"T_ORDREL", "T_DISCONNECT"} # {}
    /\ pc' = "record" \/ (pc' = "sndrel" /\ mode # "Off" /\ ~hsUnsent') =>
          state # "Handshaking"

(* A slice that fails, having taken an abort or nothing.                   *)
SliceCut ==
    /\ \E err \in Errors \ {"none"} : FailQuietly(err)
    /\ NoPeerNews \/ (TakeDisconnect /\ ep # NoEp /\ "T_DISCONNECT" \in ind[ep])

SliceRest == SessionRest /\ UNCHANGED <<mode, hs13, engine>> /\ hsUnsent' \in BOOLEAN

InSlice == state \in Session /\ pc \notin {"app", "reopen"} /\ epOpen

LEMMA MovesKeep ==
    ASSUME IInv, InSlice, SliceMoves, SliceRest
    PROVE  IInv'
  <1>. USE DEF SliceRest, SliceMoves, InSlice
  <1>1. TypeOK'
    BY DEF IInv, TypeOK, NoPeerNews, SessionRest
  <1>2. (InvOpened /\ InvHeld)'
    BY ConnAssumption DEF IInv, InvOpened, InvHeld, Live, NoPeerNews, SessionRest
  <1>3. InvArc'
    BY DEF InvArc
  <1>4. (InvSession /\ InvFlags)'
    BY ConnAssumption DEF IInv, InvSession, InvFlags, NoPeerNews, SessionRest
  <1>5. (InvClock /\ FailedIffError /\ NoStrayCall)'
    BY DEF IInv, InvClock, FailedIffError, NoStrayCall, NoPeerNews, SessionRest
  <1>6. InvLooked'
    BY DEF IInv, InvLooked, NoPeerNews, SessionRest
  <1>7. QED BY <1>1, <1>2, <1>3, <1>4, <1>5, <1>6 DEF IInv

LEMMA CutKeeps ==
    ASSUME IInv, InSlice, SliceCut, SliceRest
    PROVE  IInv'
  <1>. USE DEF SliceRest, InSlice
  <1>1. PICK err \in Errors \ {"none"} : FailQuietly(err)
    BY DEF SliceCut
  <1>2. /\ state' = "Failed" /\ age' = 0 /\ osErr' = err /\ pc' = "app" /\ best' = best
    BY <1>1 DEF IInv, FailedIffError, FailQuietly, Fail
  <1>3. CASE NoPeerNews
    <2>1. TypeOK'
      BY <1>2, <1>3, ConnAssumption DEF IInv, TypeOK, States, NoPeerNews, SessionRest
    <2>2. (InvOpened /\ InvHeld /\ InvArc)'
      BY <1>2, <1>3, ConnAssumption DEF IInv, InvOpened, InvHeld, InvArc, Live,
         NoPeerNews, SessionRest
    <2>3. (InvSession /\ InvFlags /\ InvClock /\ InvLooked)'
      BY <1>2, <1>3, ConnAssumption DEF IInv, InvSession, InvFlags, InvClock, InvLooked,
         NoPeerNews, SessionRest
    <2>4. (FailedIffError /\ NoStrayCall)'
      BY <1>2, <1>3 DEF IInv, FailedIffError, NoStrayCall, NoPeerNews
    <2>5. QED BY <2>1, <2>2, <2>3, <2>4 DEF IInv
  <1>4. CASE TakeDisconnect /\ ep # NoEp /\ "T_DISCONNECT" \in ind[ep]
    <2>1. UNCHANGED <<eps, ind>> \/ (/\ eps' = [eps EXCEPT ![ep] = "idle"]
                                    /\ ind' = [ind EXCEPT ![ep] = {}])
      BY <1>4 DEF TakeDisconnect, Abort
    <2>2. UNCHANGED <<stray, peerClosed, ordConsumed>> /\ discConsumed' = TRUE
      BY <1>4 DEF TakeDisconnect, Holds, IInv, TypeOK
    <2>3. ep \in Endpoints /\ ep = opened /\ phase = "Done" /\ eps[ep] \notin {"free", "closed"}
      BY <1>4, ConnAssumption DEF IInv, TypeOK, InvHeld, InvSession
    <2>4. TypeOK'
      <3>1. eps' \in [Endpoints -> EpStates] /\ ind' \in [Endpoints -> SUBSET Indications]
        BY <2>1 DEF IInv, TypeOK, EpStates
      <3>2. QED
        BY <1>2, <2>2, <3>1, ConnAssumption DEF IInv, TypeOK, States, SessionRest
    <2>5. InvOpened'
      BY <1>2, <2>1, <2>3, ConnAssumption DEF IInv, TypeOK, InvOpened, SessionRest
    <2>6. InvHeld'
      BY <1>2, <2>1, <2>3, ConnAssumption DEF IInv, TypeOK, InvHeld, Live, SessionRest
    <2>7. (InvArc /\ InvSession /\ InvFlags /\ InvClock /\ InvLooked)'
      BY <1>2, ConnAssumption DEF IInv, InvArc, InvSession, InvFlags, InvClock,
         InvLooked, SessionRest
    <2>8. (FailedIffError /\ NoStrayCall)'
      BY <1>2, <2>2 DEF IInv, FailedIffError, NoStrayCall
    <2>9. QED BY <2>4, <2>5, <2>6, <2>7, <2>8 DEF IInv
  <1>5. QED BY <1>3, <1>4 DEF SliceCut

(* A running session holds its endpoint.                                   *)
LEMMA SessionInSlice ==
    ASSUME IInv, NEW m, InSession(m)
    PROVE  InSlice /\ ep # NoEp /\ ep \in Endpoints
  BY ConnAssumption DEF IInv, TypeOK, InvHeld, InvSession, InSlice, InSession

(* OTRcv's answers are slices ...                                          *)
LEMMA ReceiveSlice ==
    ASSUME IInv, InSlice, ep # NoEp, Receive
    PROVE  SliceCut \/ SliceMoves
  <1>1. PICK r \in RcvResults(ep) :
           \/ r = "data" /\ Progress /\ NoPeerNews
           \/ r = "nodata" /\ Goto("nodata") /\ NoPeerNews
           \/ r \in {"zero", "lookOrd"} /\ Goto("rcvrel") /\ NoPeerNews
           \/ r = "lookDisc" /\ TakeDisconnect /\ FailQuietly("PeerClosed")
           \/ r = "error" /\ NoPeerNews /\ FailQuietly("OTRcvFail")
    BY DEF Receive
  <1>2. CASE r = "data" /\ Progress /\ NoPeerNews
    BY <1>2 DEF SliceMoves, Progress
  <1>3. CASE r = "nodata" /\ Goto("nodata") /\ NoPeerNews
    BY <1>3 DEF SliceMoves, Goto
  <1>4. CASE r \in {"zero", "lookOrd"} /\ Goto("rcvrel") /\ NoPeerNews
    <2>1. "T_ORDREL" \in ind[ep]
      BY <1>4, r \in RcvResults(ep) DEF RcvResults
    <2>2. QED BY <1>4, <2>1 DEF SliceMoves, Goto
  <1>5. CASE r = "lookDisc" /\ TakeDisconnect /\ FailQuietly("PeerClosed")
    <2>1. "T_DISCONNECT" \in ind[ep]
      BY <1>5, r \in RcvResults(ep) DEF RcvResults
    <2>2. QED BY <1>5, <2>1 DEF SliceCut, Errors
  <1>6. CASE r = "error" /\ NoPeerNews /\ FailQuietly("OTRcvFail")
    BY <1>6 DEF SliceCut, Errors
  <1>7. QED BY <1>1, <1>2, <1>3, <1>4, <1>5, <1>6

(* ... and so are OTSnd's, where a release met by an application record    *)
(* comes after the handshake.                                              *)
LEMMA SendCutSlice ==
    ASSUME IInv, InSlice, ep # NoEp, SendCut,
           mode = "Off" \/ hsUnsent' \/ state # "Handshaking"
    PROVE  SliceCut \/ SliceMoves
  <1>1. PICK r \in SndResults(ep) :
           \/ r = "lookOrd" /\ Goto("sndrel") /\ NoPeerNews
           \/ r = "lookDisc" /\ TakeDisconnect /\ FailQuietly("PeerClosed")
           \/ r = "error" /\ NoPeerNews /\ FailQuietly("OTSndFail")
    BY DEF SendCut
  <1>2. CASE r = "lookOrd" /\ Goto("sndrel") /\ NoPeerNews
    <2>1. "T_ORDREL" \in ind[ep]
      BY <1>2, r \in SndResults(ep) DEF SndResults
    <2>2. QED BY <1>2, <2>1 DEF SliceMoves, Goto
  <1>3. CASE r = "lookDisc" /\ TakeDisconnect /\ FailQuietly("PeerClosed")
    <2>1. "T_DISCONNECT" \in ind[ep]
      BY <1>3, r \in SndResults(ep) DEF SndResults
    <2>2. QED BY <1>3, <2>1 DEF SliceCut, Errors
  <1>4. CASE r = "error" /\ NoPeerNews /\ FailQuietly("OTSndFail")
    BY <1>4 DEF SliceCut, Errors
  <1>5. QED BY <1>1, <1>2, <1>3, <1>4

(* So do the look at nf_ord_release and the two calls that take a release. *)
LEMMA ReleaseStep ==
    ASSUME IInv, StepRelease
    PROVE  IInv'
  <1>1. CASE NoData
    BY <1>1, ConnAssumption DEF IInv, InvOpened, InvHeld, InvArc, InvSession, InvFlags,
       InvClock, InvLooked, FailedIffError, NoStrayCall, TypeOK, Live, NoData, Goto,
       Nothing, NoPeerNews, SessionRest, TlsKept
  <1>2. CASE ReceivedRelease \/ SentRelease
    <2>1. /\ TakeRelease /\ SessionRest /\ TlsKept /\ pc \in {"rcvrel", "sndrel"}
          /\ UNCHANGED <<state, age, osErr, best>>
          /\ pc' \in {"app", "pre", "record"}
          /\ pc' = "record" => pc = "sndrel" /\ mode # "Off" /\ ~hsUnsent
      BY <1>2 DEF ReceivedRelease, SentRelease, Progress, Nothing, Goto
    <2>2. TypeOK'
      <3>1. EndpointTypes'
        BY <2>1, TakeReleaseTypes DEF IInv, TypeOK, EndpointTypes, SessionRest
      <3>2. peerClosed' \in BOOLEAN /\ ordConsumed' \in BOOLEAN /\ discConsumed' \in BOOLEAN
        BY <2>1 DEF IInv, TypeOK, TakeRelease
      <3>3. QED
        BY <2>1, <3>1, <3>2 DEF IInv, TypeOK, EndpointTypes, SessionRest, TlsKept
    <2>3. (InvOpened /\ InvHeld /\ InvArc)'
      BY <2>1, ConnAssumption DEF IInv, InvOpened, InvHeld, InvArc, InvLooked, TypeOK,
         Endpoints, Live, TakeRelease, AfterRcvRelease, SessionRest
    <2>4. (InvSession /\ InvFlags)'
      BY <2>1, ConnAssumption DEF IInv, InvSession, InvFlags, InvHeld, InvLooked,
         TypeOK, TakeRelease, AfterRcvRelease, SessionRest, TlsKept
    <2>5. (InvClock /\ InvLooked /\ FailedIffError /\ NoStrayCall)'
      BY <2>1, ConnAssumption DEF IInv, InvClock, InvLooked, FailedIffError,
         NoStrayCall, InvSession, InvHeld, TakeRelease, Holds, CalledFor,
         SessionRest, TlsKept
    <2>6. QED BY <2>2, <2>3, <2>4, <2>5 DEF IInv
  <1>3. QED BY <1>1, <1>2 DEF StepRelease

(* A step of the TLS 1.3 path keeps IInv, the reconnect included.          *)
LEMMA Session13Step ==
    ASSUME IInv, Step13
    PROVE  IInv'
  <1>1. CASE FlushHandshake
    <2>1. InSlice /\ ep # NoEp /\ SliceRest
      BY <1>1, SessionInSlice DEF FlushHandshake, SliceRest, IInv, TypeOK
    <2>2. CASE SendCut /\ UNCHANGED hsUnsent
      <3>1. hsUnsent'
        BY <1>1, <2>2 DEF FlushHandshake
      <3>2. QED BY <2>1, <2>2, <3>1, SendCutSlice, MovesKeep, CutKeeps
    <2>3. CASE NoPeerNews /\ (Nothing \/ Goto("step") \/ Progress)
      <3>1. SliceMoves
        BY <2>3 DEF SliceMoves, Nothing, Goto, Progress
      <3>2. QED BY <2>1, <3>1, MovesKeep
    <2>4. (SendCut /\ UNCHANGED hsUnsent) \/ (NoPeerNews /\ (Nothing \/ Goto("step") \/ Progress))
      BY <1>1 DEF FlushHandshake
    <2>5. QED BY <2>2, <2>3, <2>4
  <1>2. CASE FlushRecord
    <2>1. InSlice /\ ep # NoEp /\ SliceRest
      BY <1>2, SessionInSlice DEF FlushRecord, SliceRest, TlsKept, IInv, TypeOK
    <2>2. SendCut /\ state # "Handshaking"
      BY <1>2 DEF FlushRecord
    <2>3. QED BY <2>1, <2>2, SendCutSlice, MovesKeep, CutKeeps
  <1>3. CASE HandshakeDone13
    BY <1>3, ConnAssumption DEF IInv, InvOpened, InvHeld, InvArc, InvSession,
       InvFlags, InvClock, InvLooked, FailedIffError, NoStrayCall, TypeOK, States,
       Modes, Events, Live, HandshakeDone13, InSession, NoPeerNews, SessionRest,
       Shaking13
  <1>4. CASE HandshakeWantsRead13
    <2>1. InSlice /\ ep # NoEp /\ SliceRest
      BY <1>4, SessionInSlice DEF HandshakeWantsRead13, Shaking13, SliceRest, TlsKept,
         IInv, TypeOK
    <2>2. CASE Receive
      BY <2>1, <2>2, ReceiveSlice, MovesKeep, CutKeeps
    <2>3. CASE Nothing /\ NoPeerNews
      <3>1. SliceMoves
        BY <2>3 DEF SliceMoves, Nothing
      <3>2. QED BY <2>1, <3>1, MovesKeep
    <2>4. QED BY <1>4, <2>2, <2>3 DEF HandshakeWantsRead13
  <1>5. CASE HandshakeMoves13
    BY <1>5, ConnAssumption DEF IInv, InvOpened, InvHeld, InvArc, InvSession, InvFlags,
       InvClock, InvLooked, FailedIffError, NoStrayCall, TypeOK, Live, HandshakeMoves13,
       InSession, NoPeerNews, Progress, SessionRest, Shaking13
  <1>6. CASE HandshakeFails13
    BY <1>6, ConnAssumption DEF IInv, InvOpened, InvHeld, InvArc, InvSession,
       InvFlags, InvClock, InvLooked, FailedIffError, NoStrayCall, TypeOK, States,
       Errors, Events, Live, HandshakeFails13, Fail, FailLoudly, NoPeerNews,
       SessionRest, TlsKept
  <1>7. CASE FallbackClose
    <2>1. TypeOK'
      <3>1. EndpointTypes'
        BY <1>7, ReleaseEndpointTypes DEF IInv, TypeOK, EndpointTypes, FallbackClose
      <3>2. QED
        BY <1>7, <3>1 DEF IInv, TypeOK, EndpointTypes, FallbackClose
    <2>2. (InvOpened /\ InvHeld /\ InvArc)'
      BY <1>7, ConnAssumption DEF IInv, InvOpened, InvHeld, InvArc, InvSession, TypeOK,
         Live, FallbackClose, CloseProvider, InSession, ReleaseEndpoint, Shaking13
    <2>3. (InvSession /\ InvFlags /\ InvClock /\ InvLooked /\ FailedIffError /\ NoStrayCall)'
      BY <1>7, ConnAssumption DEF IInv, InvSession, InvFlags, InvClock, InvLooked,
         FailedIffError, NoStrayCall, InvHeld, FallbackClose, InSession, Shaking13
    <2>4. QED BY <2>1, <2>2, <2>3 DEF IInv
  <1>8. CASE FallbackReopen
    <2>1. TypeOK'
      <3>1. eps' \in [Endpoints -> EpStates] /\ ind' \in [Endpoints -> SUBSET Indications]
        BY <1>8 DEF IInv, TypeOK, FallbackReopen, OpenEndpoint, EpStates
      <3>2. state' \in States /\ phase' \in Phases /\ osErr' \in Errors /\ age' = 0
        BY <1>8 DEF IInv, TypeOK, FallbackReopen, FailLoudly, Fail, States, Phases,
           Errors
      <3>3. pc' \in Places /\ best' \in Events
        BY <1>8 DEF IInv, TypeOK, FallbackReopen, FailLoudly, Events
      <3>4. opened' \in 0..MaxOpens /\ sinceStart' \in 0..(ConnectTimeout + 1)
        BY <1>8, ConnAssumption DEF IInv, TypeOK, FallbackReopen, OpenEndpoint,
           TakeStartTicks
      <3>5. /\ mode' \in Modes /\ engine' \in Engines /\ nf' \subseteq Flags
            /\ nfResult' \in Results /\ disabled' \in BOOLEAN
        BY <1>8 DEF IInv, TypeOK, FallbackReopen, ForgetFlags, Modes, Engines
      <3>6. /\ peerClosed' \in BOOLEAN /\ ordConsumed' \in BOOLEAN /\ discConsumed' \in BOOLEAN
            /\ closeNotify' \in BOOLEAN /\ hs13' \in BOOLEAN /\ hsUnsent' \in BOOLEAN
        BY <1>8 DEF FallbackReopen
      <3>7. UNCHANGED <<started, closeReq, disposed, epVars, sinceHs, tryTls13, stray>>
        BY <1>8 DEF FallbackReopen
      <3>8. QED
        BY <3>1, <3>2, <3>3, <3>4, <3>5, <3>6, <3>7, ConnAssumption DEF IInv, TypeOK
    <2>2. InvOpened'
      BY <1>8, ConnAssumption DEF IInv, InvOpened, InvHeld, InvSession, TypeOK, NoEp,
         Live, FallbackReopen, Fail, FailLoudly, OpenEndpoint
    <2>3. InvHeld'
      BY <1>8, ConnAssumption DEF IInv, InvHeld, TypeOK, Endpoints, Live,
         FallbackReopen, FailLoudly, OpenEndpoint
    <2>4. InvArc'
      BY <1>8, ConnAssumption DEF InvArc, FallbackReopen, Fail, FailLoudly, ForgetFlags
    <2>5. (InvSession /\ InvFlags /\ InvClock /\ InvLooked /\ FailedIffError /\ NoStrayCall)'
      BY <1>8, ConnAssumption DEF IInv, InvSession, InvFlags, InvClock, InvLooked,
         FailedIffError, NoStrayCall, InvHeld, FallbackReopen, Fail, FailLoudly,
         ForgetFlags, TakeStartTicks
    <2>6. QED BY <2>1, <2>2, <2>3, <2>4, <2>5 DEF IInv
  <1>9. CASE Record13
    <2>1. InSlice /\ ep # NoEp /\ ep \in Endpoints /\ SliceRest /\ phase = "Done"
      BY <1>9, SessionInSlice, ConnAssumption DEF Record13, InSlice, SliceRest, TlsKept,
         IInv, InvSession, InvLooked, InvHeld, TypeOK
    <2>2. CASE Receive
      BY <2>1, <2>2, ReceiveSlice, MovesKeep, CutKeeps
    <2>3. CASE NoPeerNews /\ (Progress \/ Nothing)
      <3>1. SliceMoves
        BY <2>3 DEF SliceMoves, Progress, Nothing
      <3>2. QED BY <2>1, <3>1, MovesKeep
    <2>4. CASE /\ UNCHANGED <<ordConsumed, discConsumed, eps, ind, stray>>
               /\ peerClosed' \in BOOLEAN /\ (CloseDown \/ FailLoudly("BearSSLError"))
      <3>1. /\ UNCHANGED <<ordConsumed, discConsumed, eps, ind, stray>>
            /\ peerClosed' \in BOOLEAN /\ pc' = "app" /\ best' \in Events /\ age' = 0
            /\ \/ state' = "Closed" /\ osErr' = osErr
               \/ state' = "Failed" /\ osErr' = "BearSSLError"
        BY <2>1, <2>4 DEF CloseDown, FailLoudly, Fail, Events, IInv, TypeOK,
           FailedIffError, InSlice
      <3>2. TypeOK'
        BY <2>1, <3>1, ConnAssumption DEF IInv, TypeOK, States, Errors, SliceRest,
           SessionRest
      <3>3. (InvOpened /\ InvHeld /\ InvArc)'
        <4>1. InvOpened'
          BY <2>1, <3>1 DEF IInv, InvOpened, InSlice, SliceRest, SessionRest
        <4>2. InvHeld'
          BY <2>1, <3>1 DEF IInv, InvHeld, Live, SliceRest, SessionRest
        <4>3. InvArc'
          BY <3>1 DEF InvArc
        <4>4. QED BY <4>1, <4>2, <4>3
      <3>4. (InvSession /\ InvFlags /\ InvClock /\ InvLooked)'
        BY <2>1, <3>1 DEF IInv, InvSession, InvFlags, InvClock, InvLooked, SliceRest,
           SessionRest
      <3>5. (FailedIffError /\ NoStrayCall)'
        BY <2>1, <3>1 DEF IInv, FailedIffError, NoStrayCall, InSlice
      <3>6. QED BY <3>2, <3>3, <3>4, <3>5 DEF IInv
    <2>5. \/ Receive
          \/ NoPeerNews /\ (Progress \/ Nothing)
          \/ /\ UNCHANGED <<ordConsumed, discConsumed, eps, ind, stray>>
             /\ peerClosed' \in BOOLEAN /\ (CloseDown \/ FailLoudly("BearSSLError"))
      <3>1. peerClosed \in BOOLEAN
        BY DEF IInv, TypeOK
      <3>2. CASE NoPeerNews /\ (FailLoudly("BearSSLError") \/ CloseDown)
        BY <3>1, <3>2 DEF NoPeerNews
      <3>3. CASE /\ peerClosed' = TRUE /\ CloseDown
                 /\ UNCHANGED <<ordConsumed, discConsumed, eps, ind, stray>>
        BY <3>3
      <3>4. QED BY <1>9, <3>2, <3>3 DEF Record13
    <2>6. QED BY <2>2, <2>3, <2>4, <2>5
  <1>10. QED BY <1>1, <1>2, <1>3, <1>4, <1>5, <1>6, <1>7, <1>8, <1>9 DEF Step13

(* A step of the TLS 1.2 path keeps IInv.                                  *)
LEMMA Session12Step ==
    ASSUME IInv, Step12
    PROVE  IInv'
  <1>1. CASE EngineEnded12
    BY <1>1, ConnAssumption DEF IInv, InvOpened, InvHeld, InvArc, InvSession,
       InvFlags, InvClock, InvLooked, FailedIffError, NoStrayCall, TypeOK, States,
       Errors, Events, Live, EngineEnded12, CloseDown, Fail, FailLoudly, InSession,
       NoPeerNews, Rest12, SessionRest, TlsKept
  <1>2. CASE HandshakeDone12
    BY <1>2, ConnAssumption DEF IInv, InvOpened, InvHeld, InvArc, InvSession, InvFlags,
       InvClock, InvLooked, FailedIffError, NoStrayCall, TypeOK, States, Events, Live,
       HandshakeDone12, InSession, NoPeerNews, Rest12, SessionRest, TlsKept
  <1>3. CASE Send12
    <2>1. InSlice /\ ep # NoEp /\ SliceRest /\ mode = "Off"
      BY <1>3, SessionInSlice DEF Send12, Rest12, InSession, SliceRest, TlsKept,
         IInv, TypeOK
    <2>2. CASE SendCut
      BY <2>1, <2>2, SendCutSlice, MovesKeep, CutKeeps
    <2>3. CASE NoPeerNews /\ Progress
      <3>1. SliceMoves
        BY <2>3 DEF SliceMoves, Progress
      <3>2. QED BY <2>1, <3>1, MovesKeep
    <2>4. QED BY <1>3, <2>2, <2>3 DEF Send12
  <1>4. CASE Receive12
    <2>1. InSlice /\ ep # NoEp /\ SliceRest
      BY <1>4, SessionInSlice DEF Receive12, Rest12, SliceRest, TlsKept, IInv, TypeOK
    <2>2. CASE Receive
      BY <2>1, <2>2, ReceiveSlice, MovesKeep, CutKeeps
    <2>3. CASE NoPeerNews /\ Progress
      <3>1. SliceMoves
        BY <2>3 DEF SliceMoves, Progress
      <3>2. QED BY <2>1, <3>1, MovesKeep
    <2>4. QED BY <1>4, <2>2, <2>3 DEF Receive12
  <1>5. CASE Drain12
    BY <1>5, ConnAssumption DEF IInv, InvOpened, InvHeld, InvArc, InvSession,
       InvFlags, InvClock, InvLooked, FailedIffError, NoStrayCall, TypeOK, Live,
       Drain12, InSession, NoPeerNews, Nothing, Rest12, SessionRest, TlsKept
  <1>6. CASE PeerGone12
    BY <1>6, ConnAssumption DEF IInv, InvOpened, InvHeld, InvArc, InvSession,
       InvFlags, InvClock, InvLooked, FailedIffError, NoStrayCall, TypeOK, States,
       Events, Live, PeerGone12, CloseDown, InSession, NoPeerNews, Rest12,
       SessionRest, TlsKept
  <1>7. QED BY <1>1, <1>2, <1>3, <1>4, <1>5, <1>6 DEF Step12

-----------------------------------------------------------------------------
(* Interrupts and the clock.                                               *)

(* The endpoint in use is the one opened last, and Pump's own once it took *)
(* the open.                                                               *)
LEMMA CurrentEndpoint ==
    ASSUME IInv, NEW e \in Endpoints, Live(e)
    PROVE  e = opened /\ started /\ (phase # "OpenInFlight" => epOpen /\ ep = e)
  BY ConnAssumption DEF IInv, InvOpened, InvHeld, Live, Endpoints, TypeOK

(* Only an endpoint whose open completed while Pump was not looking, or    *)
(* the one Pump holds, hears from the network.                             *)
LEMMA NetworkStep ==
    ASSUME IInv, Network
    PROVE  IInv'
  <1>. SUFFICES ASSUME NEW e \in Endpoints,
                       \/ OpenComplete(e) \/ BindComplete(e) \/ ConnectComplete(e)
                       \/ PeerRelease(e) \/ PeerAbort(e)
                PROVE  IInv'
    BY DEF Network
  <1>1. CASE OpenComplete(e)
    <2>1. Live(e) /\ e = opened /\ phase = "OpenInFlight"
      BY <1>1, CurrentEndpoint DEF IInv, InvHeld, Live, OpenComplete
    <2>2. TypeOK'
      <3>1. eps' \in [Endpoints -> EpStates] /\ ind' \in [Endpoints -> SUBSET Indications]
        BY <1>1 DEF IInv, TypeOK, OpenComplete, EpStates
      <3>2. nf' \subseteq Flags /\ nfResult' \in Results
        BY <1>1 DEF IInv, TypeOK, OpenComplete, Notify, Flags
      <3>3. ep' \in Endpoints \cup {NoEp}
        BY <1>1 DEF IInv, TypeOK, OpenComplete
      <3>4. QED
        BY <1>1, <3>1, <3>2, <3>3 DEF IInv, TypeOK, OpenComplete
    <2>3. InvOpened'
      BY <1>1, <2>1, ConnAssumption DEF IInv, InvOpened, Endpoints, OpenComplete
    <2>4. InvHeld'
      BY <1>1, <2>1, ConnAssumption DEF IInv, InvHeld, OpenComplete
    <2>5. InvArc'
      BY <1>1, <2>1, ConnAssumption DEF IInv, InvArc, TypeOK, OpenComplete, Notify
    <2>6. (InvSession /\ InvFlags /\ InvClock /\ InvLooked /\ FailedIffError /\ NoStrayCall)'
      BY <1>1, <2>1, ConnAssumption DEF IInv, InvSession, InvFlags, InvClock, InvLooked,
         FailedIffError, NoStrayCall, InvOpened, TypeOK, OpenComplete, Notify
    <2>7. QED BY <2>2, <2>3, <2>4, <2>5, <2>6 DEF IInv
  <1>2. CASE BindComplete(e)
    <2>1. Live(e) /\ e = opened /\ e = ep /\ phase # "OpenInFlight"
      BY <1>2, CurrentEndpoint DEF IInv, InvHeld, Live, BindComplete
    <2>2. TypeOK'
      <3>1. eps' \in [Endpoints -> EpStates] /\ ind' \in [Endpoints -> SUBSET Indications]
        BY <1>2 DEF IInv, TypeOK, BindComplete, EpStates
      <3>2. nf' \subseteq Flags /\ nfResult' \in Results
        BY <1>2 DEF IInv, TypeOK, BindComplete, Notify, Flags
      <3>3. ep' \in Endpoints \cup {NoEp}
        BY <1>2 DEF IInv, TypeOK, BindComplete, NotifierOnly
      <3>4. QED
        BY <1>2, <3>1, <3>2, <3>3 DEF IInv, TypeOK, BindComplete, NotifierOnly
    <2>3. InvOpened'
      BY <1>2, <2>1, ConnAssumption DEF IInv, InvOpened, Endpoints, BindComplete,
         NotifierOnly
    <2>4. InvHeld'
      BY <1>2, <2>1, ConnAssumption DEF IInv, InvHeld, Live, BindComplete, NotifierOnly
    <2>5. InvArc'
      BY <1>2, <2>1, ConnAssumption DEF IInv, InvArc, TypeOK, BindComplete,
         NotifierOnly, Notify
    <2>6. (InvSession /\ InvFlags /\ InvClock /\ InvLooked /\ FailedIffError /\ NoStrayCall)'
      BY <1>2, <2>1, ConnAssumption DEF IInv, InvSession, InvFlags, InvClock, InvLooked,
         FailedIffError, NoStrayCall, BindComplete, NotifierOnly, Notify
    <2>7. QED BY <2>2, <2>3, <2>4, <2>5, <2>6 DEF IInv
  <1>3. CASE ConnectComplete(e)
    <2>1. Live(e) /\ e = opened /\ e = ep /\ phase # "OpenInFlight"
      BY <1>3, CurrentEndpoint DEF IInv, InvHeld, Live, ConnectComplete
    <2>2. TypeOK'
      <3>1. eps' \in [Endpoints -> EpStates] /\ ind' \in [Endpoints -> SUBSET Indications]
        BY <1>3 DEF IInv, TypeOK, ConnectComplete, EpStates, Indications
      <3>2. nf' \subseteq Flags /\ nfResult' \in Results
        BY <1>3 DEF IInv, TypeOK, ConnectComplete, Notify, Flags
      <3>3. ep' \in Endpoints \cup {NoEp}
        BY <1>3 DEF IInv, TypeOK, ConnectComplete, NotifierOnly
      <3>4. QED
        BY <1>3, <3>1, <3>2, <3>3 DEF IInv, TypeOK, ConnectComplete, NotifierOnly
    <2>3. InvOpened'
      BY <1>3, <2>1, ConnAssumption DEF IInv, InvOpened, Endpoints, ConnectComplete,
         NotifierOnly
    <2>4. InvHeld'
      BY <1>3, <2>1, ConnAssumption DEF IInv, InvHeld, Live, ConnectComplete,
         NotifierOnly
    <2>5. InvArc'
      BY <1>3, <2>1, ConnAssumption DEF IInv, InvArc, TypeOK, ConnectComplete,
         NotifierOnly, Notify
    <2>6. (InvSession /\ InvFlags /\ InvClock /\ InvLooked /\ FailedIffError /\ NoStrayCall)'
      BY <1>3, <2>1, ConnAssumption DEF IInv, InvSession, InvFlags, InvClock, InvLooked,
         FailedIffError, NoStrayCall, ConnectComplete, NotifierOnly, Notify
    <2>7. QED BY <2>2, <2>3, <2>4, <2>5, <2>6 DEF IInv
  <1>4. CASE PeerRelease(e)
    <2>1. Live(e) /\ e = opened /\ e = ep /\ phase # "OpenInFlight"
      BY <1>4, CurrentEndpoint DEF IInv, InvOpened, InvHeld, Live, PeerRelease,
         Connected
    <2>2. TypeOK'
      <3>1. eps' \in [Endpoints -> EpStates] /\ ind' \in [Endpoints -> SUBSET Indications]
        BY <1>4 DEF IInv, TypeOK, PeerRelease, Indications
      <3>2. nf' \subseteq Flags /\ nfResult' \in Results
        BY <1>4 DEF IInv, TypeOK, PeerRelease, Notify, Flags, Results
      <3>3. ep' \in Endpoints \cup {NoEp}
        BY <1>4 DEF IInv, TypeOK, PeerRelease, NotifierOnly
      <3>4. QED
        BY <1>4, <3>1, <3>2, <3>3 DEF IInv, TypeOK, PeerRelease, NotifierOnly
    <2>3. InvOpened'
      BY <1>4, <2>1, ConnAssumption DEF IInv, InvOpened, Endpoints, PeerRelease,
         Connected, NotifierOnly
    <2>4. InvHeld'
      BY <1>4, <2>1, ConnAssumption DEF IInv, InvHeld, Live, PeerRelease, NotifierOnly
    <2>5. InvArc'
      BY <1>4, <2>1, ConnAssumption DEF IInv, InvOpened, InvArc, PeerRelease, Connected,
         NotifierOnly, Notify
    <2>6. (InvSession /\ InvFlags /\ InvClock /\ FailedIffError /\ NoStrayCall)'
      BY <1>4, <2>1, ConnAssumption DEF IInv, InvSession, InvFlags, InvClock,
         FailedIffError, NoStrayCall, InvHeld, TypeOK, PeerRelease, NotifierOnly,
         Notify
    <2>7. InvLooked'
      <3>1. /\ UNCHANGED <<ep, eps, pc, state, phase, mode, hsUnsent, ordConsumed>>
            /\ "connect" \in nf' => "connect" \in nf
        BY <1>4 DEF PeerRelease, NotifierOnly, Notify
      <3>2. ep \in Endpoints => ind[ep] \subseteq ind'[ep]
        BY <1>4 DEF IInv, TypeOK, PeerRelease
      <3>3. phase = "ConnectInFlight" /\ state = "Connecting" /\ ~disposed =>
               "T_CONNECT" \in ind'[ep]
        BY <1>4, <2>1 DEF IInv, InvArc, TypeOK, PeerRelease, Connected
      <3>4. pc \notin {"app", "pre", "step", "reopen"} => ep \in Endpoints /\ ~disposed
        BY ConnAssumption DEF IInv, InvHeld, InvLooked, InvArc, InvSession, TypeOK
      <3>5. QED BY <3>1, <3>2, <3>3, <3>4 DEF IInv, InvLooked
    <2>8. QED BY <2>2, <2>3, <2>4, <2>5, <2>6, <2>7 DEF IInv
  <1>5. CASE PeerAbort(e)
    <2>1. Live(e) /\ e = opened /\ e = ep /\ phase # "OpenInFlight"
      BY <1>5, CurrentEndpoint DEF IInv, InvOpened, InvHeld, Live, PeerAbort, Connected
    <2>2. TypeOK'
      <3>1. eps' \in [Endpoints -> EpStates] /\ ind' \in [Endpoints -> SUBSET Indications]
        BY <1>5 DEF IInv, TypeOK, PeerAbort, Indications
      <3>2. nf' \subseteq Flags /\ nfResult' \in Results
        BY <1>5 DEF IInv, TypeOK, PeerAbort, Notify, Flags
      <3>3. ep' \in Endpoints \cup {NoEp}
        BY <1>5 DEF IInv, TypeOK, PeerAbort, NotifierOnly
      <3>4. QED
        BY <1>5, <3>1, <3>2, <3>3 DEF IInv, TypeOK, PeerAbort, NotifierOnly
    <2>3. InvOpened'
      BY <1>5, <2>1, ConnAssumption DEF IInv, InvOpened, Endpoints, PeerAbort,
         Connected, NotifierOnly
    <2>4. InvHeld'
      BY <1>5, <2>1, ConnAssumption DEF IInv, InvHeld, Live, PeerAbort, NotifierOnly
    <2>5. InvArc'
      BY <1>5, <2>1, ConnAssumption DEF IInv, InvOpened, InvArc, TypeOK, PeerAbort,
         Connected, NotifierOnly, Notify
    <2>6. (InvSession /\ InvFlags /\ InvClock /\ InvLooked /\ FailedIffError /\ NoStrayCall)'
      BY <1>5, <2>1, ConnAssumption DEF IInv, InvSession, InvFlags, InvClock, InvLooked,
         FailedIffError, NoStrayCall, InvHeld, TypeOK, PeerAbort, NotifierOnly, Notify
    <2>7. QED BY <2>2, <2>3, <2>4, <2>5, <2>6 DEF IInv
  <1>6. QED BY <1>1, <1>2, <1>3, <1>4, <1>5

(* The clock moves the deadlines and age together.                         *)
LEMMA TickStep == IInv /\ Tick => IInv'
  BY ConnAssumption DEF IInv, InvOpened, InvHeld, InvArc, InvSession, InvFlags,
     InvClock, InvLooked, FailedIffError, NoStrayCall, TypeOK, Live, Tick, Least

-----------------------------------------------------------------------------
(* Nothing but a step of the program, the network or the clock changes a   *)
(* variable of IInv.                                                       *)
LEMMA StutterStep == IInv /\ UNCHANGED vars => IInv'
  BY DEF vars, IInv, InvOpened, InvHeld, InvArc, InvSession, InvFlags, InvClock, InvLooked,
     FailedIffError, NoStrayCall, TypeOK, Live

(* Every step keeps IInv.                                                  *)
LEMMA InvariantStep == IInv /\ [Next]_vars => IInv'
  BY CallerStep, LoopTopStep, ConnectArcStep, ReleaseStep, Session13Step, Session12Step, NetworkStep,
     TickStep, StutterStep
     DEF Next, PumpStep

(* The inductive invariant holds in every behaviour, for every number of   *)
(* endpoints and every pair of timeouts.                                   *)
THEOREM Invariance == Spec => []IInv
  <1>1. Init => IInv
    BY InitInvariant
  <1>2. IInv /\ [Next]_vars => IInv'
    BY InvariantStep
  <1>3. QED BY <1>1, <1>2, PTL DEF Spec

-----------------------------------------------------------------------------
(* What the invariant is for: the invariants, the action properties and the*)
(* refinement of OSTLSLifecycle that the runs check on one instance.       *)

USE DEF lifeVars, peerVars, tlsVars, nfVars, epVars, otVars, timeVars,
        GoTo, Stay, Bump, Again, Return, Session, Terminal, Places

-----------------------------------------------------------------------------
(* Invariants.                                                             *)

(* Every variable keeps its type; in particular a failure records one of   *)
(* the kOSTLSAsync_* codes, whatever call of OSTLS_Pump it happens in.     *)
THEOREM TypeCorrect == Spec => []TypeOK
  <1>1. IInv => TypeOK
    BY DEF IInv
  <1>2. QED BY <1>1, Invariance, PTL

(* Neither a reconnect nor a failed start ever leaves two endpoints open   *)
(* (ostls_fallback_to_tls12, OSTLS_Start).                                 *)
THEOREM OneEndpoint == Spec => []OneLiveEndpoint
  <1>1. IInv => OneLiveEndpoint
    BY CurrentEndpoint DEF OneLiveEndpoint
  <1>2. QED BY <1>1, Invariance, PTL

(* OSTLS_Dispose closes the endpoint unless Pump never saw its open.       *)
THEOREM DisposeClosesHeld == Spec => []DisposeReleases
  <1>1. IInv => DisposeReleases
    BY DEF IInv, InvHeld, DisposeReleases
  <1>2. QED BY <1>1, Invariance, PTL

(* OTRcvConnect, OTRcvDisconnect and OTRcvOrderlyDisconnect are only made  *)
(* for an indication of the endpoint in use, taken once, though an abort   *)
(* may replace it between the look and the call; OTBind and OTConnect are  *)
(* made in their states.                                                   *)
THEOREM NoCallAstray == Spec => []NoStrayCall
  <1>1. IInv => NoStrayCall
    BY DEF IInv
  <1>2. QED BY <1>1, Invariance, PTL

(* OSTLS_GetLastError is noErr exactly while the connection has not failed.*)
THEOREM ErrorMeansFailed == Spec => []FailedIffError
  <1>1. IInv => FailedIffError
    BY DEF IInv
  <1>2. QED BY <1>1, Invariance, PTL

(* A session's step always finds its endpoint and its TLS context.         *)
THEOREM SessionHasContext == Spec => []SessionReady
  <1>1. IInv => SessionReady
    BY DEF IInv, InvHeld, InvSession, SessionReady
  <1>2. QED BY <1>1, Invariance, PTL

(* The reconnect for TLS 1.2 happens at most once.                         *)
THEOREM OneFallback == Spec => []FallbackOnce
  <1>1. IInv => FallbackOnce
    BY DEF IInv, InvOpened, FallbackOnce
  <1>2. QED BY <1>1, Invariance, PTL

-----------------------------------------------------------------------------
(* The public contract.                                                    *)

(* Every step of the connection is a step of its public contract, or is    *)
(* invisible to the caller.                                                *)
LEMMA ContractStep ==
    ASSUME IInv, [Next]_vars
    PROVE  [Lifecycle!LcNext]_(Lifecycle!lcVars)
  <1>. USE DEF IInv, TypeOK, InvHeld, InvOpened, InvSession, FailedIffError, Errors,
               Lifecycle!lcVars, Lifecycle!Move, Lifecycle!Break
  <1>1. ASSUME SetTryTLS13 PROVE UNCHANGED Lifecycle!lcVars
    BY <1>1 DEF SetTryTLS13, Caller
  <1>2. ASSUME Start PROVE Lifecycle!LcStart \/ Lifecycle!Break
    BY <1>2 DEF Lifecycle!LcStart, Start, Caller, Fail
  <1>3. ASSUME Close PROVE Lifecycle!AskClose
    <2>1. CASE CloseEarly
      BY <1>3, <2>1 DEF Close, Caller, CloseEarly, Lifecycle!AskClose
    <2>2. CASE CloseSession
      BY <1>3, <2>2 DEF Close, Caller, CloseSession, Lifecycle!AskClose
    <2>3. CASE CloseNothing
      BY <1>3, <2>3 DEF Close, Caller, CloseNothing, Lifecycle!AskClose
    <2>4. QED BY <1>3, <2>1, <2>2, <2>3 DEF Close
  <1>4. ASSUME Dispose PROVE Lifecycle!Discard
    BY <1>4 DEF Lifecycle!Discard, Dispose, Caller
  <1>5. ASSUME PumpBegin PROVE UNCHANGED Lifecycle!lcVars
    BY <1>5 DEF PumpBegin, Caller
  <1>6. ASSUME PumpPre PROVE Lifecycle!Break \/ UNCHANGED Lifecycle!lcVars
    BY <1>6 DEF PumpPre, Fail
  <1>7. ASSUME ConnectTimedOut PROVE Lifecycle!Break
    BY <1>7 DEF ConnectTimedOut, ConnectRest, Fail, FailConnect
  <1>8. ASSUME ConnectAborted PROVE Lifecycle!Break
    BY <1>8 DEF ConnectAborted, ConnectRest, Fail, FailConnect
  <1>9. ASSUME AwaitNotifier PROVE UNCHANGED Lifecycle!lcVars
    BY <1>9 DEF AwaitNotifier, ConnectRest
  <1>10. ASSUME TakeOpen PROVE Lifecycle!Break \/ UNCHANGED Lifecycle!lcVars
    BY <1>10 DEF TakeOpen, Advance, AtPhase, ConnectRest, Fail, FailConnect
  <1>11. ASSUME SubmitBind PROVE Lifecycle!Break \/ UNCHANGED Lifecycle!lcVars
    BY <1>11 DEF SubmitBind, Advance, AtPhase, ConnectRest, Fail, FailConnect
  <1>12. ASSUME TakeBind PROVE Lifecycle!Break \/ UNCHANGED Lifecycle!lcVars
    BY <1>12 DEF TakeBind, Advance, AtPhase, ConnectRest, Fail, FailConnect
  <1>13. ASSUME SubmitConnect PROVE Lifecycle!Break \/ UNCHANGED Lifecycle!lcVars
    BY <1>13 DEF SubmitConnect, Advance, AtPhase, ConnectRest, Fail, FailConnect
  <1>14. ASSUME RefuseConnect PROVE Lifecycle!Break
    BY <1>14 DEF RefuseConnect, InvLooked, ConnectRest, Fail, FailConnect
  <1>15. ASSUME TakeConnect PROVE Lifecycle!TransportUp \/ Lifecycle!Break
    BY <1>15 DEF Lifecycle!TransportUp, TakeConnect, InvLooked, ConnectRest, Fail,
       SetupErrors, SetupFails
  <1>16. ASSUME FlushHandshake PROVE Lifecycle!Break \/ UNCHANGED Lifecycle!lcVars
    BY <1>16 DEF FlushHandshake, Abort, AfterRcvRelease, CanSend, Goto, Fail,
       FailQuietly, InSession, NoPeerNews, Nothing, Progress, SendCut, SessionRest,
       SndResults, TakeDisconnect, TakeRelease
  <1>17. ASSUME FlushRecord PROVE Lifecycle!Break \/ UNCHANGED Lifecycle!lcVars
    BY <1>17 DEF FlushRecord, Goto, Fail, FailQuietly, InSession, SendCut,
       SessionRest
  <1>18. ASSUME HandshakeDone13 PROVE Lifecycle!SessionUp
    BY <1>18 DEF Lifecycle!SessionUp, HandshakeDone13, InSession, SessionRest, Shaking13
  <1>19. ASSUME HandshakeWantsRead13 PROVE Lifecycle!Break \/ UNCHANGED Lifecycle!lcVars
    BY <1>19 DEF HandshakeWantsRead13, Fail, FailQuietly, InSession, Nothing, Progress,
       Goto, Receive, SessionRest, Shaking13
  <1>20. ASSUME HandshakeMoves13 PROVE UNCHANGED Lifecycle!lcVars
    BY <1>20 DEF HandshakeMoves13, Progress, SessionRest
  <1>21. ASSUME HandshakeFails13 PROVE Lifecycle!Break
    BY <1>21 DEF HandshakeFails13, Fail, FailLoudly, InSession, SessionRest, Shaking13
  <1>22. ASSUME FallbackClose PROVE UNCHANGED Lifecycle!lcVars
    BY <1>22 DEF FallbackClose
  <1>23. ASSUME FallbackReopen PROVE Lifecycle!Decline \/ Lifecycle!Break
    BY <1>23 DEF Lifecycle!Decline, FallbackReopen, Fail, FailLoudly
  <1>24. ASSUME Record13 PROVE Lifecycle!PeerLeaves \/ Lifecycle!Break \/ UNCHANGED Lifecycle!lcVars
    BY <1>24 DEF Lifecycle!PeerLeaves, Record13, CloseDown, Fail, FailLoudly,
       FailQuietly, InSession, InvLooked, Nothing, Progress, Goto, Receive, SessionRest
  <1>25. ASSUME EngineEnded12 PROVE Lifecycle!PeerLeaves \/ Lifecycle!Break
    BY <1>25 DEF Lifecycle!PeerLeaves, EngineEnded12, CloseDown, Fail, FailLoudly,
       InSession, Rest12, SessionRest
  <1>26. ASSUME HandshakeDone12 PROVE Lifecycle!SessionUp
    BY <1>26 DEF Lifecycle!SessionUp, HandshakeDone12, InSession, Rest12, SessionRest
  <1>27. ASSUME Send12 PROVE Lifecycle!Break \/ UNCHANGED Lifecycle!lcVars
    BY <1>27 DEF Send12, Goto, Fail, FailQuietly, InSession, Progress, Rest12, SendCut,
       SessionRest
  <1>28. ASSUME Receive12 PROVE Lifecycle!Break \/ UNCHANGED Lifecycle!lcVars
    BY <1>28 DEF Receive12, Goto, Fail, FailQuietly, InSession, Nothing, Progress,
       Receive, Rest12, SessionRest
  <1>29. ASSUME Drain12 PROVE UNCHANGED Lifecycle!lcVars
    BY <1>29 DEF Drain12, Nothing, Rest12, SessionRest
  <1>30. ASSUME PeerGone12 PROVE Lifecycle!PeerLeaves
    BY <1>30 DEF Lifecycle!PeerLeaves, PeerGone12, CloseDown, InSession, Rest12,
       SessionRest
  <1>31. ASSUME Network PROVE UNCHANGED Lifecycle!lcVars
    BY <1>31 DEF Network, OpenComplete, BindComplete, ConnectComplete, PeerRelease,
       PeerAbort, NotifierOnly
  <1>32. ASSUME Tick PROVE UNCHANGED Lifecycle!lcVars
    BY <1>32 DEF Tick
  <1>33. ASSUME UNCHANGED vars PROVE UNCHANGED Lifecycle!lcVars
    BY <1>33 DEF vars
  <1>34. ASSUME SeeConnect \/ ReadAnswer \/ StepRelease PROVE UNCHANGED Lifecycle!lcVars
    BY <1>34 DEF SeeConnect, ReadAnswer, StepRelease, NoData, ReceivedRelease,
       SentRelease, ConnectRest, SessionRest, Goto, Nothing, Progress, TlsKept
  <1>35. QED
    BY <1>1, <1>2, <1>3, <1>4, <1>5, <1>6, <1>7, <1>8, <1>9, <1>10, <1>11, <1>12, <1>13,
       <1>14, <1>15, <1>16, <1>17, <1>18, <1>19, <1>20, <1>21, <1>22, <1>23, <1>24,
       <1>25, <1>26, <1>27, <1>28, <1>29, <1>30, <1>31, <1>32, <1>33, <1>34 DEF Next, PumpStep,
       ConnectStep, Step13, Step12, Lifecycle!LcNext

(* The connection implements its public contract.                          *)
THEOREM Contract == Spec => ImplementsLifecycle
  <1>1. Init => Lifecycle!LcInit
    BY DEF Init, Lifecycle!LcInit
  <1>2. IInv /\ [Next]_vars => [Lifecycle!LcNext]_(Lifecycle!lcVars)
    BY ContractStep
  <1>3. QED
    BY <1>1, <1>2, Invariance, PTL DEF Spec, ImplementsLifecycle, Lifecycle!LcSpec

(* Once Failed or Closed, always, and with the error recorded first.       *)
THEOREM TerminalStays == Spec => TerminalIsFinal
  <1>1. ASSUME IInv, [Next]_vars
        PROVE  (state \in Terminal) => state' = state /\ osErr' = osErr
    BY <1>1, ContractStep DEF Lifecycle!LcNext, Lifecycle!LcStart,
       Lifecycle!TransportUp, Lifecycle!Decline, Lifecycle!SessionUp,
       Lifecycle!PeerLeaves, Lifecycle!Break, Lifecycle!AskClose, Lifecycle!Discard,
       Lifecycle!Move, Lifecycle!lcVars
  <1>2. QED BY <1>1, Invariance, PTL DEF Spec, TerminalIsFinal

-----------------------------------------------------------------------------
(* The deadlines.                                                          *)

(* The errors a step may add: a timeout only when its deadline has passed. *)
LEMMA NewErrors ==
    ASSUME IInv, [Next]_vars
    PROVE  \/ osErr' \in {osErr} \cup (Errors \ {"ConnectTimeout", "HandshakeTimeout"})
           \/ osErr' = "ConnectTimeout" /\ state = "Connecting" /\ ConnectDue
           \/ osErr' = "HandshakeTimeout" /\ state = "Handshaking" /\ HandshakeDue
  <1>. USE DEF IInv, TypeOK, FailedIffError, Errors, Fail
  <1>1. ASSUME SetTryTLS13 \/ Start \/ Close \/ Dispose
        PROVE  osErr' \in {osErr} \cup (Errors \ {"ConnectTimeout", "HandshakeTimeout"})
    BY <1>1 DEF SetTryTLS13, Start, Close, CloseEarly, CloseSession, CloseNothing,
       Dispose
  <1>2. ASSUME PumpBegin \/ PumpPre
        PROVE  \/ osErr' \in {osErr, "OTSndFail"}
               \/ osErr' = "HandshakeTimeout" /\ HandshakeDue
    BY <1>2 DEF PumpBegin, PumpPre
  <1>3. ASSUME ConnectStep
        PROVE  \/ osErr' \in {osErr} \cup (Errors \ {"ConnectTimeout", "HandshakeTimeout"})
               \/ osErr' = "ConnectTimeout" /\ state = "Connecting" /\ ConnectDue
    BY <1>3 DEF ConnectStep, ConnectTimedOut, ConnectAborted, AwaitNotifier, TakeOpen,
       SubmitBind, TakeBind, SubmitConnect, SeeConnect, ReadAnswer, RefuseConnect,
       TakeConnect, SetupFails,
       SetupErrors, FailConnect, Advance
  <1>4. ASSUME Step13
        PROVE  osErr' \in {osErr} \cup (Errors \ {"ConnectTimeout", "HandshakeTimeout"})
    BY <1>4 DEF Step13, FlushHandshake, FlushRecord, HandshakeDone13,
       HandshakeWantsRead13, HandshakeMoves13, HandshakeFails13, FallbackClose,
       FallbackReopen, Record13, SendCut, Receive, Progress, Nothing, Goto,
       CloseDown, FailLoudly, FailQuietly
  <1>5. ASSUME Step12
        PROVE  osErr' \in {osErr} \cup (Errors \ {"ConnectTimeout", "HandshakeTimeout"})
    BY <1>5 DEF Step12, EngineEnded12, HandshakeDone12, Send12, Receive12, Drain12,
       PeerGone12, SendCut, Receive, Progress, Nothing, Goto, CloseDown, FailLoudly,
       FailQuietly
  <1>6. ASSUME Network \/ Tick \/ UNCHANGED vars
        PROVE  UNCHANGED osErr
    BY <1>6 DEF Network, OpenComplete, BindComplete, ConnectComplete, PeerRelease,
       PeerAbort, NotifierOnly, Tick, vars
  <1>7. HandshakeDue => state = "Handshaking"
    BY DEF HandshakeDue
  <1>8. ASSUME StepRelease PROVE UNCHANGED osErr
    BY <1>8 DEF StepRelease, NoData, ReceivedRelease, SentRelease, Goto, Nothing,
       Progress
  <1>9. QED
    BY <1>1, <1>2, <1>3, <1>4, <1>5, <1>6, <1>7, <1>8 DEF Next, PumpStep

(* A timeout is reported only once the attempt, the first or the           *)
(* reconnect, has had its whole budget.                                    *)
THEOREM WholeBudget == Spec => FullBudget
  <1>1. ASSUME IInv, [Next]_vars
        PROVE  /\ osErr' = "ConnectTimeout" => osErr = osErr' \/ age > ConnectTimeout
               /\ osErr' = "HandshakeTimeout" => osErr = osErr' \/ age > HandshakeTimeout
    BY <1>1, NewErrors, ConnAssumption DEF IInv, InvClock, TypeOK, ConnectDue,
       HandshakeDue
  <1>2. QED BY <1>1, Invariance, PTL DEF Spec, FullBudget

=============================================================================

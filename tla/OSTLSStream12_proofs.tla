------------------------ MODULE OSTLSStream12_proofs ------------------------
(***************************************************************************)
(* Proofs about OSTLSStream12 for every size of the header, the records and*)
(* the buffers, every bound and every amount OTSnd takes: the counts stay  *)
(* inside their buffers, no byte OSTLS_Write accepted is lost or sent twice*)
(* unless the peer has released, and Closed leaves nothing unread.         *)
(***************************************************************************)
EXTENDS OSTLSStream12, StreamLemmas

Record == [kind : Ssl!Kinds, n : 0..MaxData]
Places == {"app", "top", "step", "flow", "sndrel", "recv", "nodata", "rcvrel", "plain"}

(* The groups of variables are expanded in every step below.               *)
USE DEF endVars, indVars, flowVars, netVars, callerVars, ownVars, sentVars

-----------------------------------------------------------------------------
LEMMA Sizes ==
    /\ HeaderSize \in Nat /\ HeaderSize > 0 /\ MaxData \in Nat /\ RingSize \in Nat
    /\ QueueSize \in Nat /\ SendRoom \in Nat /\ SendRoom > 0
    /\ MaxRecords \in Nat /\ MaxWrite \in Nat /\ MaxOut \in Nat /\ MaxOut > 0
  <1>1. HeaderSize \in Nat \ {0} /\ MaxData \in Nat \ {0} /\ RingSize \in Nat \ {0}
    BY PathAssumption, Zenon
  <1>2. QueueSize \in Nat \ {0} /\ SendRoom \in Nat \ {0}
    BY PathAssumption, Zenon
  <1>3. MaxRecords \in Nat /\ MaxWrite \in Nat
    BY PathAssumption, Zenon
  <1> QED BY <1>1, <1>2, <1>3, OutAssumption

-----------------------------------------------------------------------------
(* The engine of an open session.                                          *)

(* Application data flows in main's loop only; a clean end takes the peer's*)
(* close_notify; a record that is gone leaves no payload.                  *)
Sane(e) ==
    /\ e \in Ssl!Engine
    /\ e.program \in {"main", "room", "closing"}
    /\ e.program = "main" <=> e.app = 1
    /\ e.program = "main" => ~e.notified
    /\ e.err = "ok" => e.notified
    /\ e.plain > 0 => e.program = "main"
    /\ e.unsent = 0 => e.flight = 0
    /\ e.unsent <= HeaderSize + MaxOut /\ e.plain <= MaxData

LEMMA EngineFields ==
    ASSUME NEW e \in Ssl!Engine
    PROVE  /\ e.got \in Nat /\ e.plain \in Nat /\ e.unsent \in Nat /\ e.flight \in 0..MaxOut
           /\ e.app \in 0..2 /\ e.program \in Ssl!Programs
           /\ e.err \in {"none", "ok", "error"}
  BY DEF Ssl!Engine

(* A session that is being closed.                                         *)
LEMMA SaneClosing ==
    ASSUME NEW d \in Ssl!Engine, d.program \in {"room", "closing"}, d.app # 1,
           d.err = "none", d.plain = 0, d.unsent = 0 => d.flight = 0,
           d.unsent <= HeaderSize + MaxOut
    PROVE  Sane(d)
  BY Sizes DEF Sane

LEMMA FailKeeps ==
    ASSUME NEW e, Sane(e), NEW why \in {"ok", "error"}, why = "ok" => e.notified
    PROVE  LET d == Ssl!Fail(e, why) IN
           /\ Sane(d) /\ d.err = why /\ d.got = e.got /\ d.plain = e.plain
           /\ d.notified = e.notified /\ d.program = e.program /\ d.flight = e.flight
  <1> DEFINE d == Ssl!Fail(e, why)
  <1>1. e \in Ssl!Engine
    BY DEF Sane
  <1>2. d = [e EXCEPT !.err = why]
    BY DEF Ssl!Fail
  <1> HIDE DEF d
  <1>3. d \in Ssl!Engine
    BY <1>1, <1>2 DEF Ssl!Engine
  <1>4. /\ d.err = why /\ d.got = e.got /\ d.plain = e.plain /\ d.app = e.app
        /\ d.notified = e.notified /\ d.program = e.program /\ d.flight = e.flight
        /\ d.unsent = e.unsent
    BY <1>1, <1>2 DEF Ssl!Engine
  <1>5. Sane(d)
    BY <1>3, <1>4 DEF Sane
  <1> QED BY <1>4, <1>5 DEF d

LEMMA SealKeeps ==
    ASSUME NEW e, Sane(e), e.program = "room", e.unsent = 0
    PROVE  LET d == [Ssl!SealedMessage(e) EXCEPT !.program = "closing"] IN
           /\ Sane(d) /\ d.err = e.err /\ d.got = e.got /\ d.plain = e.plain
           /\ d.notified = e.notified /\ d.program = "closing" /\ d.flight = e.flight
  <1> DEFINE d == [Ssl!SealedMessage(e) EXCEPT !.program = "closing"]
  <1>1. e \in Ssl!Engine
    BY DEF Sane
  <1>2. d = [e EXCEPT !.unsent = HeaderSize + 1, !.flight = 0, !.program = "closing"]
    BY <1>1 DEF Ssl!Engine, Ssl!SealedMessage
  <1> HIDE DEF d
  <1>3. d \in Ssl!Engine
    <2>1. HeaderSize + 1 \in Nat /\ 0 \in 0..MaxOut /\ "closing" \in Ssl!Programs
      BY Sizes DEF Ssl!Programs
    <2> QED BY <1>1, <1>2, <2>1 DEF Ssl!Engine
  <1>4. /\ d.err = e.err /\ d.got = e.got /\ d.plain = e.plain /\ d.app = e.app
        /\ d.notified = e.notified /\ d.program = "closing" /\ d.flight = 0
        /\ d.unsent = HeaderSize + 1
    BY <1>1, <1>2 DEF Ssl!Engine
  <1>5. e.flight = 0 /\ HeaderSize + 1 <= HeaderSize + MaxOut /\ HeaderSize + 1 # 0
    BY Sizes DEF Sane
  <1>6. e.app # 1
    BY DEF Sane
  <1>7. Sane(d)
    BY <1>3, <1>4, <1>5, <1>6 DEF Sane
  <1> QED BY <1>4, <1>5, <1>7 DEF d

(* What the closing program does leaves the rest of the engine alone.      *)
LEMMA ClosingKeeps ==
    ASSUME NEW e, Sane(e), e.err = "none", e.program \in {"room", "closing"}
    PROVE  LET d == Ssl!Closing(e) IN
           /\ Sane(d) /\ d.got = e.got /\ d.plain = e.plain /\ d.notified = e.notified
           /\ d.program \in {"room", "closing"} /\ d.flight = e.flight
  <1>1. CASE e.unsent > 0
    BY <1>1 DEF Ssl!Closing
  <1>2. CASE ~(e.unsent > 0) /\ e.program = "room"
    <2>1. e.unsent = 0
      BY <1>2, EngineFields DEF Sane
    <2>2. Ssl!Closing(e) = [Ssl!SealedMessage(e) EXCEPT !.program = "closing"]
      BY <1>2 DEF Ssl!Closing
    <2> QED BY <1>2, <2>1, <2>2, SealKeeps
  <1>3. CASE ~(e.unsent > 0) /\ e.program # "room" /\ e.notified
    <2>1. Ssl!Closing(e) = Ssl!Fail(e, "ok")
      BY <1>3 DEF Ssl!Closing
    <2> QED BY <1>3, <2>1, FailKeeps
  <1>4. CASE ~(e.unsent > 0) /\ e.program # "room" /\ ~e.notified
    BY <1>4 DEF Ssl!Closing
  <1> QED BY <1>1, <1>2, <1>3, <1>4

(* br_ssl_engine_sendrec_ack                                               *)
LEMMA SendAck ==
    ASSUME NEW e, Sane(e), e.err = "none", NEW k \in 1..e.unsent
    PROVE  LET d == Ssl!SendRecAck(e, k) IN
           /\ Sane(d) /\ d.got = e.got /\ d.plain = e.plain /\ d.notified = e.notified
           /\ d.program = "main" <=> e.program = "main"
           /\ d.flight = IF k = e.unsent THEN 0 ELSE e.flight
  <1> DEFINE left == [e EXCEPT !.unsent = e.unsent - k,
                               !.flight = IF k = e.unsent THEN 0 ELSE e.flight]
  <1>0. Ssl!SendRecAck(e, k) =
          IF left.unsent = 0 /\ Ssl!IsClosing(e) THEN Ssl!Closing(left) ELSE left
    BY DEF Ssl!SendRecAck
  <1>1. /\ e \in Ssl!Engine /\ e.unsent \in Nat /\ e.unsent <= HeaderSize + MaxOut
        /\ e.unsent - k \in Nat /\ e.unsent - k <= HeaderSize + MaxOut
        /\ e.flight \in 0..MaxOut /\ 0 \in 0..MaxOut
    BY EngineFields, Sizes DEF Sane
  <1>2. left \in Ssl!Engine
    BY <1>1 DEF Ssl!Engine
  <1>3. /\ left.got = e.got /\ left.plain = e.plain /\ left.app = e.app
        /\ left.notified = e.notified /\ left.err = e.err /\ left.program = e.program
        /\ left.unsent = e.unsent - k
        /\ left.flight = IF k = e.unsent THEN 0 ELSE e.flight
    BY <1>1 DEF Ssl!Engine
  <1> HIDE DEF left
  <1>4. left.unsent = 0 => left.flight = 0
    BY <1>1, <1>3
  <1>5. Sane(left)
    BY <1>1, <1>2, <1>3, <1>4 DEF Sane
  <1>6. e.program # "main" <=> Ssl!IsClosing(e)
    BY DEF Sane, Ssl!IsClosing
  <1>7. CASE left.unsent = 0 /\ Ssl!IsClosing(e)
    <2>1. Ssl!SendRecAck(e, k) = Ssl!Closing(left)
      BY <1>0, <1>7
    <2>2. left.program \in {"room", "closing"} /\ left.err = "none"
      BY <1>3, <1>7 DEF Ssl!IsClosing
    <2> QED BY <1>3, <1>5, <1>6, <1>7, <2>1, <2>2, ClosingKeeps
  <1>8. CASE ~(left.unsent = 0 /\ Ssl!IsClosing(e))
    <2>1. Ssl!SendRecAck(e, k) = left
      BY <1>0, <1>8
    <2> QED BY <1>3, <1>5, <2>1
  <1> QED BY <1>7, <1>8

(* br_ssl_engine_recvrec_ack: the count of a record, its end or not.       *)
LEMMA GotKeeps ==
    ASSUME NEW e, Sane(e), NEW g \in Nat
    PROVE  LET d == [e EXCEPT !.got = g] IN
           /\ Sane(d) /\ d.err = e.err /\ d.got = g /\ d.plain = e.plain
           /\ d.notified = e.notified /\ d.program = e.program /\ d.flight = e.flight
  <1> DEFINE d == [e EXCEPT !.got = g]
  <1>1. e \in Ssl!Engine
    BY DEF Sane
  <1>2. d \in Ssl!Engine
    BY <1>1 DEF Ssl!Engine
  <1>3. /\ d.err = e.err /\ d.got = g /\ d.plain = e.plain /\ d.app = e.app
        /\ d.notified = e.notified /\ d.program = e.program /\ d.flight = e.flight
        /\ d.unsent = e.unsent
    BY <1>1 DEF Ssl!Engine
  <1> HIDE DEF d
  <1>4. Sane(d)
    BY <1>2, <1>3 DEF Sane
  <1> QED BY <1>3, <1>4 DEF d

LEMMA DataAck ==
    ASSUME NEW e, Sane(e), NEW r \in Record, e.plain = 0, r.kind = "data"
    PROVE  LET d == Ssl!Received(e, r) IN
           /\ Sane(d) /\ d.got = e.got /\ d.notified = e.notified
           /\ d.program = e.program /\ d.flight = e.flight
           /\ d.plain > 0 => e.program = "main"
  <1>1. r.n \in Nat /\ r.n <= MaxData
    BY Sizes DEF Record
  <1>2. e \in Ssl!Engine /\ e.app \in 0..2
    BY EngineFields DEF Sane
  <1>3. CASE r.n = 0 \/ e.app = 2
    <2>1. Ssl!Received(e, r) = e
      BY <1>1, <1>3 DEF Ssl!Received
    <2> QED BY <2>1 DEF Sane
  <1>4. CASE r.n > 0 /\ e.app = 1
    <2> DEFINE d == [e EXCEPT !.plain = r.n]
    <2>1. Ssl!Received(e, r) = d
      BY <1>1, <1>4 DEF Ssl!Received
    <2>2. d \in Ssl!Engine
      BY <1>1, <1>2 DEF Ssl!Engine
    <2>3. /\ d.err = e.err /\ d.got = e.got /\ d.plain = r.n /\ d.app = e.app
          /\ d.notified = e.notified /\ d.program = e.program /\ d.flight = e.flight
          /\ d.unsent = e.unsent
      BY <1>2 DEF Ssl!Engine
    <2> HIDE DEF d
    <2>4. e.program = "main"
      BY <1>4 DEF Sane
    <2>5. Sane(d)
      BY <1>1, <2>2, <2>3, <2>4 DEF Sane
    <2> QED BY <2>1, <2>3, <2>4, <2>5
  <1>5. CASE r.n > 0 /\ e.app = 0
    <2>1. Ssl!Received(e, r) = Ssl!Fail(e, "error")
      BY <1>1, <1>5 DEF Ssl!Received
    <2> QED BY <2>1, FailKeeps DEF Sane
  <1> QED BY <1>1, <1>2, <1>3, <1>4, <1>5

(* An alert: a fatal one ends the session, close_notify closes it, and a   *)
(* session being closed expects no data after any.                         *)
LEMMA AlertAck ==
    ASSUME NEW e, Sane(e), NEW r \in Record, e.plain = 0, e.err = "none",
           r.kind \in {"warning", "fatal", "notify"}
    PROVE  LET d == Ssl!Received(e, r) IN
           /\ Sane(d) /\ d.got = e.got /\ d.plain = 0 /\ d.flight = e.flight
           /\ d.notified => e.notified \/ r.kind = "notify"
           /\ d.program # "main" => d.notified \/ e.program # "main"
           /\ e.notified => d.notified
  <1>1. Ssl!Received(e, r) = Ssl!Alert(e, r.kind)
    BY DEF Ssl!Received
  <1>2. e \in Ssl!Engine /\ (Ssl!IsClosing(e) <=> e.program # "main")
    BY DEF Sane, Ssl!IsClosing
  <1>3. CASE r.kind = "fatal"
    <2>1. Ssl!Alert(e, r.kind) = Ssl!Fail(e, "error")
      BY <1>3 DEF Ssl!Alert
    <2> QED BY <1>1, <2>1, FailKeeps
  <1>4. CASE r.kind = "warning" /\ ~Ssl!IsClosing(e)
    <2>1. Ssl!Alert(e, r.kind) = e
      BY <1>4 DEF Ssl!Alert
    <2> QED BY <1>1, <2>1
  <1>5. CASE r.kind # "fatal" /\ Ssl!IsClosing(e)
    <2> DEFINE d == [[e EXCEPT !.shut = r.kind = "notify"]
                       EXCEPT !.app = 0, !.notified = e.notified \/ r.kind = "notify"]
    <2>1. Ssl!Alert(e, r.kind) = Ssl!Closing(d)
      BY <1>5 DEF Ssl!Alert
    <2>2. d \in Ssl!Engine
      <3> DEFINE sh == r.kind = "notify"
                 no == e.notified \/ r.kind = "notify"
      <3>1. sh \in BOOLEAN /\ no \in BOOLEAN /\ 0 \in 0..2
        OBVIOUS
      <3>2. d = [e EXCEPT !.shut = sh, !.app = 0, !.notified = no]
        BY <1>2 DEF Ssl!Engine
      <3> HIDE DEF d, sh, no
      <3> QED BY <1>2, <3>1, <3>2 DEF Ssl!Engine
    <2>3. /\ d.err = e.err /\ d.got = e.got /\ d.plain = e.plain /\ d.app = 0
          /\ d.program = e.program /\ d.flight = e.flight /\ d.unsent = e.unsent
      BY <1>2 DEF Ssl!Engine
    <2>4. d.notified <=> e.notified \/ r.kind = "notify"
      BY <1>2 DEF Ssl!Engine
    <2> HIDE DEF d
    <2>5. Sane(d)
      <3>1. /\ e.program \in {"room", "closing"} /\ e.unsent <= HeaderSize + MaxOut
            /\ e.unsent = 0 => e.flight = 0
        BY <1>5 DEF Sane, Ssl!IsClosing
      <3> QED BY <2>2, <2>3, <3>1, SaneClosing
    <2>6. d.program \in {"room", "closing"} /\ d.err = "none"
      BY <1>5, <2>3 DEF Ssl!IsClosing
    <2>7. LET c == Ssl!Closing(d) IN
           /\ Sane(c) /\ c.got = d.got /\ c.plain = d.plain /\ c.notified = d.notified
           /\ c.program \in {"room", "closing"} /\ c.flight = d.flight
      BY <2>5, <2>6, ClosingKeeps
    <2> QED BY <1>1, <1>2, <1>5, <2>1, <2>3, <2>4, <2>7
  <1>6. CASE r.kind = "notify" /\ ~Ssl!IsClosing(e)
    <2> DEFINE d == [[e EXCEPT !.shut = r.kind = "notify"]
                       EXCEPT !.program = "room", !.notified = TRUE,
                              !.app = IF e.app = 1 /\ ~TRUE THEN 2 ELSE 0]
    <2>1. Ssl!Alert(e, r.kind) = Ssl!Closing(d)
      BY <1>2, <1>6 DEF Ssl!Alert, Ssl!DoClose, Ssl!Engine
    <2>2. d = [e EXCEPT !.shut = TRUE, !.program = "room", !.notified = TRUE, !.app = 0]
      BY <1>2, <1>6 DEF Ssl!Engine
    <2> HIDE DEF d
    <2>3. d \in Ssl!Engine
      <3>1. "room" \in Ssl!Programs /\ 0 \in 0..2 /\ TRUE \in BOOLEAN
        BY DEF Ssl!Programs
      <3> QED BY <1>2, <2>2, <3>1 DEF Ssl!Engine
    <2>4. /\ d.err = e.err /\ d.got = e.got /\ d.plain = e.plain /\ d.app = 0
          /\ d.program = "room" /\ d.flight = e.flight /\ d.unsent = e.unsent
      BY <1>2, <2>2 DEF Ssl!Engine
    <2>5. d.notified
      BY <1>2, <2>2 DEF Ssl!Engine
    <2>6. Sane(d)
      BY <2>3, <2>4, <2>5 DEF Sane
    <2>7. LET c == Ssl!Closing(d) IN
           /\ Sane(c) /\ c.got = d.got /\ c.plain = d.plain /\ c.notified = d.notified
           /\ c.program \in {"room", "closing"} /\ c.flight = d.flight
      BY <2>4, <2>6, ClosingKeeps
    <2> QED BY <1>1, <1>6, <2>1, <2>4, <2>5, <2>7
  <1> QED BY <1>3, <1>4, <1>5, <1>6

(* What the caller's side does to it.                                      *)
LEMMA GiveAck ==
    ASSUME NEW e, Sane(e), NEW k \in 1..MaxOut
    PROVE  LET d == Ssl!SendAppAck(e, k) IN
           /\ Sane(d) /\ d.err = e.err /\ d.got = e.got /\ d.plain = e.plain
           /\ d.notified = e.notified /\ d.program = e.program /\ d.flight = k
  <1> DEFINE d == Ssl!SendAppAck(e, k)
  <1>1. e \in Ssl!Engine
    BY DEF Sane
  <1>2. d = [e EXCEPT !.unsent = HeaderSize + k, !.flight = k]
    BY DEF Ssl!SendAppAck, Ssl!SealedData
  <1> HIDE DEF d
  <1>3. /\ HeaderSize + k \in Nat /\ k \in 0..MaxOut /\ HeaderSize + k # 0
        /\ HeaderSize + k <= HeaderSize + MaxOut
    BY Sizes
  <1>4. d \in Ssl!Engine
    BY <1>1, <1>2, <1>3 DEF Ssl!Engine
  <1>5. /\ d.err = e.err /\ d.got = e.got /\ d.plain = e.plain /\ d.app = e.app
        /\ d.notified = e.notified /\ d.program = e.program /\ d.flight = k
        /\ d.unsent = HeaderSize + k
    BY <1>1, <1>2 DEF Ssl!Engine
  <1>6. Sane(d)
    BY <1>3, <1>4, <1>5 DEF Sane
  <1> QED BY <1>5, <1>6 DEF d

LEMMA PlainKeeps ==
    ASSUME NEW e, Sane(e), NEW p \in 0..e.plain
    PROVE  LET d == [e EXCEPT !.plain = p] IN
           /\ Sane(d) /\ d.err = e.err /\ d.got = e.got /\ d.plain = p /\ d.app = e.app
           /\ d.notified = e.notified /\ d.program = e.program /\ d.flight = e.flight
           /\ d.unsent = e.unsent
  <1> DEFINE d == [e EXCEPT !.plain = p]
  <1>1. e \in Ssl!Engine /\ e.plain \in Nat
    BY EngineFields DEF Sane
  <1>2. p \in Nat /\ p <= e.plain
    BY <1>1
  <1>3. d \in Ssl!Engine
    BY <1>1, <1>2 DEF Ssl!Engine
  <1>4. /\ d.err = e.err /\ d.got = e.got /\ d.plain = p /\ d.app = e.app
        /\ d.notified = e.notified /\ d.program = e.program /\ d.flight = e.flight
        /\ d.unsent = e.unsent
    BY <1>1 DEF Ssl!Engine
  <1> HIDE DEF d
  <1>5. (p > 0 => e.plain > 0) /\ (e.plain <= MaxData => p <= MaxData)
    BY <1>1, <1>2, Sizes
  <1>6. Sane(d)
    BY <1>3, <1>4, <1>5 DEF Sane
  <1> QED BY <1>4, <1>6 DEF d

(* br_ssl_engine_close                                                     *)
LEMMA CloseAck ==
    ASSUME NEW e, Sane(e)
    PROVE  LET d == Ssl!EngineClose(e) IN
           /\ Sane(d) /\ d.got = e.got /\ d.notified = e.notified /\ d.flight = e.flight
           /\ d.plain > 0 => e.plain > 0
  <1>1. CASE Ssl!IsClosed(e) \/ Ssl!IsClosing(e)
    BY <1>1 DEF Ssl!EngineClose
  <1>2. CASE ~(Ssl!IsClosed(e) \/ Ssl!IsClosing(e))
    <2>1. /\ e \in Ssl!Engine /\ e.plain \in Nat /\ e.program = "main" /\ e.err = "none"
          /\ e.app = 1 /\ ~e.notified
      BY <1>2, EngineFields DEF Sane, Ssl!IsClosed, Ssl!IsClosing
    <2> DEFINE d == [e EXCEPT !.plain = 0]
               c == [d EXCEPT !.program = "room", !.notified = FALSE,
                              !.app = IF d.app = 1 /\ ~FALSE THEN 2 ELSE 0]
    <2>2. (IF Ssl!RecvApp(e) THEN 0 ELSE e.plain) = 0
      BY <2>1 DEF Ssl!RecvApp, Ssl!IsClosed
    <2>3. Ssl!EngineClose(e) = Ssl!Closing(c)
      BY <1>2, <2>2 DEF Ssl!EngineClose, Ssl!DoClose
    <2>4. /\ Sane(d) /\ d.err = e.err /\ d.got = e.got /\ d.plain = 0 /\ d.app = 1
          /\ d.notified = e.notified /\ d.program = e.program /\ d.flight = e.flight
          /\ d.unsent = e.unsent
      BY <2>1, PlainKeeps
    <2> HIDE DEF d
    <2>5. c = [d EXCEPT !.program = "room", !.notified = FALSE, !.app = 2] /\ d \in Ssl!Engine
      BY <2>4 DEF Sane
    <2> HIDE DEF c
    <2>6. c \in Ssl!Engine
      <3>1. "room" \in Ssl!Programs /\ 2 \in 0..2 /\ FALSE \in BOOLEAN
        BY DEF Ssl!Programs
      <3> QED BY <2>5, <3>1 DEF Ssl!Engine
    <2>7. /\ c.err = "none" /\ c.got = e.got /\ c.plain = 0 /\ c.app = 2
          /\ c.program = "room" /\ c.flight = e.flight /\ c.unsent = e.unsent
      BY <2>1, <2>4, <2>5 DEF Ssl!Engine
    <2>8. c.notified = FALSE
      BY <2>5 DEF Ssl!Engine
    <2>9. Sane(c)
      <3>1. e.unsent <= HeaderSize + MaxOut /\ (e.unsent = 0 => e.flight = 0)
        BY DEF Sane
      <3> QED BY <2>6, <2>7, <3>1, SaneClosing
    <2>10. LET b == Ssl!Closing(c) IN
           /\ Sane(b) /\ b.got = c.got /\ b.plain = c.plain /\ b.notified = c.notified
           /\ b.flight = c.flight
      BY <2>7, <2>9, ClosingKeeps
    <2>11. e.notified = FALSE
      BY <2>1 DEF Ssl!Engine
    <2> DEFINE b == Ssl!Closing(c)
    <2>12. Sane(b) /\ b.got = e.got /\ b.plain = 0 /\ b.flight = e.flight
      BY <2>7, <2>10
    <2>13. b.notified = e.notified
      BY <2>8, <2>10, <2>11
    <2> HIDE DEF b
    <2>14. ~(b.plain > 0)
      BY <2>12
    <2>15. Ssl!EngineClose(e) = b
      BY <2>3 DEF b
    <2> QED BY <2>12, <2>13, <2>14, <2>15
  <1> QED BY <1>1, <1>2

-----------------------------------------------------------------------------
(* The inductive invariant.                                                *)

Marks ==
    /\ state \in {"Open", "Closing"} \cup Terminal
    /\ pc \in Places /\ event \in Events
    /\ ot \in {"dataxfer", "outrel", "inrel", "idle"}

Flags ==
    /\ closeReq \in BOOLEAN
    /\ peerClosed \in BOOLEAN /\ ordConsumed \in BOOLEAN /\ discConsumed \in BOOLEAN
    /\ nfOrd \in BOOLEAN /\ nfDisc \in BOOLEAN /\ wantWrite \in BOOLEAN
    /\ ordInd \in BOOLEAN /\ discInd \in BOOLEAN /\ goOwed \in BOOLEAN
    /\ peerDone \in BOOLEAN /\ truncated \in BOOLEAN

Counts ==
    /\ readAvail \in 0..RingSize /\ writeAvail \in 0..QueueSize
    /\ room \in 0..SendRoom /\ queued \in Nat /\ transit \in Nat
    /\ sent \in 0..MaxRecords /\ accepted \in 0..MaxWrite
    /\ wired \in Nat /\ dropped \in Nat

Stream == records \in Seq(Record)

(* A Pump that is under way works on a session that is not over, with an   *)
(* engine that has not ended.                                              *)
InPump ==
    /\ pc # "app" => state \notin Terminal
    /\ pc \in {"flow", "recv", "nodata", "rcvrel", "plain"} => eng.err = "none"
    /\ pc = "sndrel" => Ssl!SendRec(eng)

(* The peer's close_notify is the last of its stream; only it or the caller*)
(* takes the engine out of main's loop.                                    *)
Drive ==
    /\ Sane(eng)
    /\ eng.notified => records = <<>> /\ eng.plain = 0 /\ peerDone
    /\ ~closeReq /\ eng.program # "main" => eng.notified

SizeOf == [r \in Record |-> HeaderSize + r.n]

(* Nothing of the stream was lost on its way.                              *)
Unhurt == ~truncated /\ ~discInd /\ ~discConsumed

(* What was sent and is not consumed.                                      *)
Units == eng.got + queued + transit

(* The units of the records that were sent and not consumed are those in   *)
(* the engine, in the endpoint and under way; an abort or a peer that died *)
(* took some of them.  The engine holds less than the first record.        *)
Tally ==
    /\ \E n \in Nat :
           /\ Weighs(SizeOf, records, n)
           /\ n >= Units
           /\ Unhurt => n = Units
    /\ records # <<>> => eng.got < Size(Head(records))

(* A close_notify or a fatal alert is the last the peer sends.             *)
LastWord ==
    \A i \in 1..Len(records) :
        /\ records[i].kind # "hello"
        /\ records[i].kind \in {"notify", "fatal"} => i = Len(records) /\ peerDone

(* What the release, the abort and Closed say of the rest of the stream.   *)
Ends ==
    /\ discConsumed => state = "Failed"
    /\ ordInd => nfOrd
    /\ nfOrd => transit = 0 /\ peerDone
    /\ peerClosed => nfOrd
    /\ pc \in {"sndrel", "rcvrel"} => nfOrd
    /\ ot # "dataxfer" => peerClosed \/ state = "Failed"
    /\ state = "Closed" /\ ~closeReq =>
           eng.plain = 0 /\ peerDone /\ (records = <<>> \/ transit = 0)

IInv == /\ Marks /\ Flags /\ Counts /\ Stream /\ InPump /\ Drive /\ Tally /\ LastWord /\ Ends
        /\ WrittenOnce

LEMMA SizeOfSizes ==
    /\ SizeOf \in [Record -> Nat]
    /\ \A r \in Record :
          /\ SizeOf[r] = Size(r) /\ Size(r) \in Nat /\ Size(r) > 0
          /\ Size(r) <= HeaderSize + MaxData /\ Ssl!Size(r) = Size(r)
  BY Sizes DEF SizeOf, Record, Size, Ssl!Size

LEMMA UnitsNat ==
    ASSUME IInv
    PROVE  /\ eng.got \in Nat /\ queued \in Nat /\ transit \in Nat /\ Units \in Nat
           /\ eng.plain \in Nat /\ eng.unsent \in Nat /\ eng.flight \in 0..MaxOut
  <1>1. queued \in Nat /\ transit \in Nat
    BY DEF IInv, Counts
  <1>2. eng \in Ssl!Engine
    BY DEF IInv, Drive, Sane
  <1>3. /\ eng.got \in Nat /\ eng.plain \in Nat /\ eng.unsent \in Nat
        /\ eng.flight \in 0..MaxOut
    BY <1>2, EngineFields
  <1>4. eng.got + queued + transit \in Nat
    BY <1>1, <1>3
  <1> QED BY <1>1, <1>3, <1>4 DEF Units

(* What takes the release and the disconnect leaves BOOLEANs.              *)
LEMMA ReleaseTypes ==
    ASSUME Flags, TakeRelease
    PROVE  peerClosed' \in BOOLEAN /\ ordConsumed' \in BOOLEAN /\ discConsumed' \in BOOLEAN
           /\ ordInd' \in BOOLEAN /\ discInd' \in BOOLEAN
  <1>1. CASE ordConsumed
    BY <1>1, Zenon DEF Flags, TakeRelease
  <1>2. CASE ~ordConsumed
    BY <1>2, Zenon DEF Flags, TakeRelease
  <1> QED BY <1>1, <1>2

LEMMA DisconnectTypes ==
    ASSUME Flags, TakeDisconnect
    PROVE  peerClosed' \in BOOLEAN /\ ordConsumed' \in BOOLEAN /\ discConsumed' \in BOOLEAN
           /\ ordInd' \in BOOLEAN /\ discInd' \in BOOLEAN
  <1>1. CASE discConsumed
    BY <1>1, Zenon DEF Flags, TakeDisconnect
  <1>2. CASE ~discConsumed
    BY <1>2, Zenon DEF Flags, TakeDisconnect
  <1> QED BY <1>1, <1>2

(* The tally of the same records and engine, when no unit is made.         *)
LEMMA SameTally ==
    ASSUME IInv, UNCHANGED <<records, eng>>, queued' \in Nat, transit' \in Nat,
           queued' + transit' <= queued + transit,
           Unhurt' => Unhurt /\ queued' + transit' = queued + transit
    PROVE  Tally'
  <1>1. PICK n \in Nat :
          /\ Weighs(SizeOf, records, n)
          /\ n >= Units
          /\ Unhurt => n = Units
    BY DEF IInv, Tally
  <1>2. Units = eng.got + (queued + transit) /\ Units' = eng.got + (queued' + transit')
    BY UnitsNat DEF Units
  <1>3. Weighs(SizeOf, records', n)
    BY <1>1
  <1>4. /\ n >= Units'
        /\ Unhurt' => n = Units'
    <2>1. n >= Units'
      BY <1>1, <1>2, UnitsNat
    <2>2. ASSUME Unhurt' PROVE n = Units'
      BY <1>1, <1>2, <2>2
    <2> QED BY <2>1, <2>2
  <1>5. records' # <<>> => eng'.got < Size(Head(records'))
    BY DEF IInv, Tally
  <1> QED BY <1>3, <1>4, <1>5 DEF Tally

-----------------------------------------------------------------------------
(* A step that moves neither units nor bytes.                              *)

Quiet == UNCHANGED <<closeReq, nfOrd, writeAvail, queued, records, transit, sent, peerDone,
                     truncated, accepted, eng, wired, dropped>>

LEMMA QuietInv ==
    ASSUME IInv, Quiet, Marks', Flags', InPump', Ends',
           readAvail' \in 0..RingSize, room' \in 0..SendRoom,
           discInd \/ discConsumed => discInd' \/ discConsumed',
           peerClosed => peerClosed'
    PROVE  IInv'
  <1>1. Counts' /\ Stream'
    BY DEF IInv, Counts, Stream, Quiet
  <1>2. Drive' /\ LastWord'
    BY DEF IInv, Drive, LastWord, Quiet
  <1>3. WrittenOnce'
    BY DEF IInv, WrittenOnce, Quiet
  <1>4. Tally'
    <2>1. UNCHANGED <<records, eng, queued, transit>>
      BY DEF Quiet
    <2>2. queued' \in Nat /\ transit' \in Nat /\ queued' + transit' = queued + transit
          /\ queued' + transit' <= queued + transit
      BY <2>1, UnitsNat
    <2>3. Unhurt' => Unhurt
      BY DEF Unhurt, Quiet
    <2> QED BY <2>1, <2>2, <2>3, SameTally
  <1> QED BY <1>1, <1>2, <1>3, <1>4 DEF IInv

LEMMA StutterInv == IInv /\ UNCHANGED vars => IInv'
  <1> SUFFICES ASSUME IInv, UNCHANGED vars PROVE IInv'
    OBVIOUS
  <1>1. Quiet /\ UNCHANGED <<readAvail, room, discInd, discConsumed, peerClosed>>
    BY DEF Quiet, vars, pathVars
  <1>2. Marks' /\ Flags'
    BY DEF IInv, Marks, Flags, vars, pathVars
  <1>3. InPump' /\ Ends'
    BY DEF IInv, InPump, Ends, vars, pathVars
  <1>4. readAvail' \in 0..RingSize /\ room' \in 0..SendRoom
    BY <1>1 DEF IInv, Counts
  <1> QED BY <1>1, <1>2, <1>3, <1>4, QuietInv

LEMMA SendDrainsInv == IInv /\ SendDrains /\ UNCHANGED ownVars => IInv'
  <1> SUFFICES ASSUME IInv, SendDrains, UNCHANGED ownVars PROVE IInv'
    OBVIOUS
  <1>1. Quiet /\ UNCHANGED <<state, pc, readAvail, indVars, endVars>>
    BY DEF Quiet, SendDrains, NetworkOnly
  <1>2. Marks' /\ Flags'
    <2>1. Marks'
      BY DEF IInv, Marks, SendDrains, NetworkOnly
    <2>2. wantWrite' \in BOOLEAN /\ goOwed' \in BOOLEAN
      BY Zenon DEF IInv, Flags, SendDrains
    <2>3. UNCHANGED nfDisc
      BY DEF SendDrains
    <2> QED BY <1>1, <2>1, <2>2, <2>3 DEF IInv, Flags, Quiet
  <1>3. InPump' /\ Ends'
    BY <1>1 DEF IInv, InPump, Ends, Quiet
  <1>4. readAvail' \in 0..RingSize /\ room' \in 0..SendRoom
    BY <1>1, Sizes DEF IInv, Counts, SendDrains
  <1> QED BY <1>1, <1>2, <1>3, <1>4, QuietInv

LEMMA ReadInv == IInv /\ Read /\ UNCHANGED ownVars => IInv'
  <1> SUFFICES ASSUME IInv, Read, UNCHANGED ownVars PROVE IInv'
    OBVIOUS
  <1>1. Quiet /\ UNCHANGED <<room, discInd, discConsumed, peerClosed>>
    BY DEF Quiet, Read
  <1>2. Marks' /\ Flags'
    BY DEF IInv, Marks, Flags, Read
  <1>3. InPump' /\ Ends'
    BY DEF IInv, InPump, Ends, Read
  <1>4. readAvail' \in 0..RingSize /\ room' \in 0..SendRoom
    BY <1>1, Sizes DEF IInv, Counts, Read
  <1> QED BY <1>1, <1>2, <1>3, <1>4, QuietInv

LEMMA PumpBeginInv == IInv /\ PumpBegin /\ UNCHANGED ownVars => IInv'
  <1> SUFFICES ASSUME IInv, PumpBegin, UNCHANGED ownVars PROVE IInv'
    OBVIOUS
  <1>1. Quiet /\ UNCHANGED <<readAvail, room, discInd, discConsumed, peerClosed>>
    BY DEF Quiet, PumpBegin, PumpOnly
  <1>2. Marks' /\ Flags'
    BY DEF IInv, Marks, Places, Events, Terminal, Flags, PumpBegin, PumpOnly
  <1>3. InPump' /\ Ends'
    BY DEF IInv, InPump, Terminal, Ends, PumpBegin, PumpOnly
  <1>4. readAvail' \in 0..RingSize /\ room' \in 0..SendRoom
    BY <1>1 DEF IInv, Counts
  <1> QED BY <1>1, <1>2, <1>3, <1>4, QuietInv

LEMMA TopInv == IInv /\ Top("step") /\ UNCHANGED ownVars => IInv'
  <1> SUFFICES ASSUME IInv, Top("step"), UNCHANGED ownVars PROVE IInv'
    OBVIOUS
  <1>1. Quiet /\ UNCHANGED <<readAvail, room, peerClosed>>
        /\ (discInd \/ discConsumed => discInd' \/ discConsumed')
    BY DEF Quiet, Top, PumpOnly, TakeDisconnect
  <1>2. Marks'
    BY DEF IInv, Marks, Places, Events, Terminal, Bump, Rank, Top, TakeDisconnect,
       FailLoudly, Return, Goto
  <1>3. Flags'
    <2>1. CASE nfDisc /\ ~discConsumed
      <3>1. TakeDisconnect
        BY <2>1 DEF Top
      <3> QED BY <3>1, DisconnectTypes DEF IInv, Flags, Top, PumpOnly
    <2>2. CASE ~(nfDisc /\ ~discConsumed)
      BY <2>2 DEF IInv, Flags, Top, PumpOnly
    <2> QED BY <2>1, <2>2
  <1>4. InPump'
    BY DEF IInv, InPump, Terminal, Top, FailLoudly, Return, Goto
  <1>6. Ends'
    BY <1>1 DEF IInv, InPump, Terminal, Ends, Quiet, Top, TakeDisconnect, FailLoudly,
       Return, Goto
  <1>5. readAvail' \in 0..RingSize /\ room' \in 0..SendRoom
    BY <1>1 DEF IInv, Counts
  <1> QED BY <1>1, <1>2, <1>3, <1>4, <1>5, <1>6, QuietInv

-----------------------------------------------------------------------------
(* OSTLS_Pump, where it moves neither: pump_ot_send_from_bearssl and       *)
(* pump_ot_recv_into_bearssl find nothing to do, or the endpoint says why. *)

LEMMA SendNothingInv == IInv /\ SendNothing => IInv'
  <1> SUFFICES ASSUME IInv, SendNothing PROVE IInv'
    OBVIOUS
  <1>1. Quiet /\ UNCHANGED <<readAvail, room, peerClosed, discConsumed, discInd>>
    BY DEF Quiet, SendNothing, SendRest, PumpOnly
  <1>2. Marks'
    BY DEF IInv, Marks, Places, Events, Terminal, Bump, Rank, SendNothing, SendRest,
       PumpOnly, Goto
  <1>3. Flags'
    BY DEF IInv, Flags, SendNothing, SendRest, PumpOnly
  <1>4. InPump'
    BY <1>1 DEF IInv, InPump, Terminal, Quiet, SendNothing, Goto, Ssl!IsClosed
  <1>5. Ends'
    BY <1>1 DEF IInv, InPump, Terminal, Ends, Quiet, SendNothing, SendRest, PumpOnly, Goto
  <1>6. readAvail' \in 0..RingSize /\ room' \in 0..SendRoom
    BY <1>1 DEF IInv, Counts
  <1> QED BY <1>1, <1>2, <1>3, <1>4, <1>5, <1>6, QuietInv

LEMMA SendBlockedInv == IInv /\ SendBlocked => IInv'
  <1> SUFFICES ASSUME IInv, SendBlocked PROVE IInv'
    OBVIOUS
  <1>1. Quiet /\ UNCHANGED <<readAvail, room, peerClosed, discConsumed, discInd>>
    BY DEF Quiet, SendBlocked, SendRest, PumpOnly
  <1>2. Marks'
    BY DEF IInv, Marks, Places, Events, Terminal, Bump, Rank, SendBlocked, SendRest,
       PumpOnly, Goto
  <1>3. Flags'
    BY DEF IInv, Flags, SendBlocked, SendRest, PumpOnly
  <1>4. InPump'
    BY <1>1 DEF IInv, InPump, Terminal, Quiet, SendBlocked, Goto, CanSnd, HasRecord,
       Ssl!SendRec, Ssl!IsClosed
  <1>5. Ends'
    BY <1>1 DEF IInv, InPump, Terminal, Ends, Quiet, SendBlocked, SendRest, PumpOnly, Goto
  <1>6. readAvail' \in 0..RingSize /\ room' \in 0..SendRoom
    BY <1>1 DEF IInv, Counts
  <1> QED BY <1>1, <1>2, <1>3, <1>4, <1>5, <1>6, QuietInv

LEMMA SetWantWriteInv == IInv /\ SetWantWrite => IInv'
  <1> SUFFICES ASSUME IInv, SetWantWrite PROVE IInv'
    OBVIOUS
  <1>1. Quiet /\ UNCHANGED <<readAvail, room, peerClosed, discConsumed, discInd>>
    BY DEF Quiet, SetWantWrite, SendRest, PumpOnly
  <1>2. Marks'
    BY DEF IInv, Marks, Places, Events, Terminal, Bump, Rank, SetWantWrite, SendRest,
       PumpOnly, Goto
  <1>3. Flags'
    BY DEF IInv, Flags, SetWantWrite, SendRest, PumpOnly
  <1>4. InPump'
    BY <1>1 DEF IInv, InPump, Terminal, Quiet, SetWantWrite, Goto
  <1>5. Ends'
    BY <1>1 DEF IInv, InPump, Terminal, Ends, Quiet, SetWantWrite, SendRest, PumpOnly, Goto
  <1>6. readAvail' \in 0..RingSize /\ room' \in 0..SendRoom
    BY <1>1 DEF IInv, Counts
  <1> QED BY <1>1, <1>2, <1>3, <1>4, <1>5, <1>6, QuietInv

LEMMA SendLooksInv == IInv /\ SendLooks => IInv'
  <1> SUFFICES ASSUME IInv, SendLooks PROVE IInv'
    OBVIOUS
  <1>1. Quiet /\ UNCHANGED <<readAvail, room, peerClosed, discConsumed, discInd>>
    BY DEF Quiet, SendLooks, SendRest, PumpOnly
  <1>2. Marks'
    BY DEF IInv, Marks, Places, Events, Terminal, Bump, Rank, SendLooks, SendRest,
       PumpOnly, Goto
  <1>3. Flags'
    BY DEF IInv, Flags, SendLooks, SendRest, PumpOnly
  <1>4. InPump'
    BY <1>1 DEF IInv, InPump, Terminal, Quiet, SendLooks, CanSnd, HasRecord, Goto
  <1>5. Ends'
    BY <1>1 DEF IInv, InPump, Terminal, Ends, Quiet, SendLooks, SendRest, PumpOnly, Goto
  <1>6. readAvail' \in 0..RingSize /\ room' \in 0..SendRoom
    BY <1>1 DEF IInv, Counts
  <1> QED BY <1>1, <1>2, <1>3, <1>4, <1>5, <1>6, QuietInv

LEMMA SendAbortedInv == IInv /\ SendAborted => IInv'
  <1> SUFFICES ASSUME IInv, SendAborted PROVE IInv'
    OBVIOUS
  <1>1. Quiet /\ UNCHANGED <<readAvail, room, peerClosed>>
        /\ (discInd \/ discConsumed => discInd' \/ discConsumed')
    BY DEF Quiet, SendAborted, SendRest, PumpOnly, TakeDisconnect
  <1>2. Marks'
    BY DEF IInv, Marks, Places, Events, Terminal, Bump, Rank, SendAborted, SendRest,
       PumpOnly, TakeDisconnect, FailMutely, Return
  <1>3. Flags'
    BY DisconnectTypes DEF IInv, Flags, SendAborted, SendRest, PumpOnly
  <1>4. InPump'
    BY <1>1 DEF IInv, InPump, Terminal, Quiet, SendAborted, FailMutely, Return
  <1>5. Ends'
    BY <1>1 DEF IInv, InPump, Terminal, Ends, Quiet, SendAborted, SendRest, PumpOnly,
       TakeDisconnect, FailMutely, Return, CanSnd, HasRecord
  <1>6. readAvail' \in 0..RingSize /\ room' \in 0..SendRoom
    BY <1>1 DEF IInv, Counts
  <1> QED BY <1>1, <1>2, <1>3, <1>4, <1>5, <1>6, QuietInv

LEMMA SendErrorInv == IInv /\ SendError => IInv'
  <1> SUFFICES ASSUME IInv, SendError PROVE IInv'
    OBVIOUS
  <1>1. Quiet /\ UNCHANGED <<readAvail, room, peerClosed, discConsumed, discInd>>
    BY DEF Quiet, SendError, SendRest, PumpOnly
  <1>2. Marks'
    BY DEF IInv, Marks, Places, Events, Terminal, Bump, Rank, SendError, SendRest,
       PumpOnly, FailMutely, Return
  <1>3. Flags'
    BY DEF IInv, Flags, SendError, SendRest, PumpOnly
  <1>4. InPump'
    BY <1>1 DEF IInv, InPump, Terminal, Quiet, SendError, FailMutely, Return
  <1>5. Ends'
    BY <1>1 DEF IInv, InPump, Terminal, Ends, Quiet, SendError, SendRest, PumpOnly,
       FailMutely, Return, CanSnd, HasRecord
  <1>6. readAvail' \in 0..RingSize /\ room' \in 0..SendRoom
    BY <1>1 DEF IInv, Counts
  <1> QED BY <1>1, <1>2, <1>3, <1>4, <1>5, <1>6, QuietInv

LEMMA ReceiveNothingInv == IInv /\ ReceiveNothing => IInv'
  <1> SUFFICES ASSUME IInv, ReceiveNothing PROVE IInv'
    OBVIOUS
  <1>1. Quiet /\ UNCHANGED <<readAvail, room, peerClosed, discConsumed, discInd>>
    BY DEF Quiet, ReceiveNothing, ReceiveRest, PumpOnly
  <1>2. Marks'
    BY DEF IInv, Marks, Places, Events, Terminal, Bump, Rank, ReceiveNothing, ReceiveRest,
       PumpOnly, Goto
  <1>3. Flags'
    BY DEF IInv, Flags, ReceiveNothing, ReceiveRest, PumpOnly
  <1>4. InPump'
    BY <1>1 DEF IInv, InPump, Terminal, Quiet, ReceiveNothing, Goto
  <1>5. Ends'
    BY <1>1 DEF IInv, InPump, Terminal, Ends, Quiet, ReceiveNothing, ReceiveRest,
       PumpOnly, Goto
  <1>6. readAvail' \in 0..RingSize /\ room' \in 0..SendRoom
    BY <1>1 DEF IInv, Counts
  <1> QED BY <1>1, <1>2, <1>3, <1>4, <1>5, <1>6, QuietInv

LEMMA ReceiveNoDataInv == IInv /\ ReceiveNoData => IInv'
  <1> SUFFICES ASSUME IInv, ReceiveNoData PROVE IInv'
    OBVIOUS
  <1>1. Quiet /\ UNCHANGED <<readAvail, room, peerClosed, discConsumed, discInd>>
    BY DEF Quiet, ReceiveNoData, ReceiveRest, PumpOnly
  <1>2. Marks'
    BY DEF IInv, Marks, Places, Events, Terminal, Bump, Rank, ReceiveNoData, ReceiveRest,
       PumpOnly, Goto, Receiving
  <1>3. Flags'
    BY DEF IInv, Flags, ReceiveNoData, ReceiveRest, PumpOnly
  <1>4. InPump'
    BY <1>1 DEF IInv, InPump, Terminal, Quiet, ReceiveNoData, Goto, Receiving
  <1>5. Ends'
    BY <1>1 DEF IInv, InPump, Terminal, Ends, Quiet, ReceiveNoData, ReceiveRest, PumpOnly,
       Goto, Receiving
  <1>6. readAvail' \in 0..RingSize /\ room' \in 0..SendRoom
    BY <1>1 DEF IInv, Counts
  <1> QED BY <1>1, <1>2, <1>3, <1>4, <1>5, <1>6, QuietInv

LEMMA ReceiveReleaseInv == IInv /\ ReceiveRelease => IInv'
  <1> SUFFICES ASSUME IInv, ReceiveRelease PROVE IInv'
    OBVIOUS
  <1>1. Quiet /\ UNCHANGED <<readAvail, room, discConsumed, discInd>>
        /\ (peerClosed => peerClosed')
    BY DEF Quiet, ReceiveRelease, ReceiveRest, PumpOnly, TakeRelease
  <1>2. Marks'
    BY DEF IInv, Marks, Places, Events, Terminal, Bump, Rank, ReceiveRelease, ReceiveRest,
       PumpOnly, TakeRelease, Again, AfterRcvRelease
  <1>3. Flags'
    BY ReleaseTypes DEF IInv, Flags, ReceiveRelease, ReceiveRest, PumpOnly
  <1>4. InPump'
    BY <1>1 DEF IInv, InPump, Terminal, Quiet, ReceiveRelease, Again,
       AfterRcvRelease
  <1>5. Ends'
    BY <1>1 DEF IInv, InPump, Terminal, Ends, Quiet, ReceiveRelease, ReceiveRest,
       PumpOnly, TakeRelease, Again, AfterRcvRelease
  <1>6. readAvail' \in 0..RingSize /\ room' \in 0..SendRoom
    BY <1>1 DEF IInv, Counts
  <1> QED BY <1>1, <1>2, <1>3, <1>4, <1>5, <1>6, QuietInv

LEMMA ReceiveAbortedInv == IInv /\ ReceiveAborted => IInv'
  <1> SUFFICES ASSUME IInv, ReceiveAborted PROVE IInv'
    OBVIOUS
  <1>1. Quiet /\ UNCHANGED <<readAvail, room, peerClosed>>
        /\ (discInd \/ discConsumed => discInd' \/ discConsumed')
    BY DEF Quiet, ReceiveAborted, ReceiveRest, PumpOnly, TakeDisconnect
  <1>2. Marks'
    BY DEF IInv, Marks, Places, Events, Terminal, Bump, Rank, ReceiveAborted, ReceiveRest,
       PumpOnly, TakeDisconnect, FailMutely, Return, Receiving
  <1>3. Flags'
    BY DisconnectTypes DEF IInv, Flags, ReceiveAborted, ReceiveRest, PumpOnly
  <1>4. InPump'
    BY <1>1 DEF IInv, InPump, Terminal, Quiet, ReceiveAborted, FailMutely, Return, Receiving
  <1>5. Ends'
    BY <1>1 DEF IInv, InPump, Terminal, Ends, Quiet, ReceiveAborted, ReceiveRest,
       PumpOnly, TakeDisconnect, FailMutely, Return, Receiving
  <1>6. readAvail' \in 0..RingSize /\ room' \in 0..SendRoom
    BY <1>1 DEF IInv, Counts
  <1> QED BY <1>1, <1>2, <1>3, <1>4, <1>5, <1>6, QuietInv

LEMMA ReceiveErrorInv == IInv /\ ReceiveError => IInv'
  <1> SUFFICES ASSUME IInv, ReceiveError PROVE IInv'
    OBVIOUS
  <1>1. Quiet /\ UNCHANGED <<readAvail, room, peerClosed, discConsumed, discInd>>
    BY DEF Quiet, ReceiveError, ReceiveRest, PumpOnly
  <1>2. Marks'
    BY DEF IInv, Marks, Places, Events, Terminal, Bump, Rank, ReceiveError, ReceiveRest,
       PumpOnly, FailMutely, Return, Receiving
  <1>3. Flags'
    BY DEF IInv, Flags, ReceiveError, ReceiveRest, PumpOnly
  <1>4. InPump'
    BY <1>1 DEF IInv, InPump, Terminal, Quiet, ReceiveError, FailMutely, Return, Receiving
  <1>5. Ends'
    BY <1>1 DEF IInv, InPump, Terminal, Ends, Quiet, ReceiveError, ReceiveRest, PumpOnly,
       FailMutely, Return, Receiving
  <1>6. readAvail' \in 0..RingSize /\ room' \in 0..SendRoom
    BY <1>1 DEF IInv, Counts
  <1> QED BY <1>1, <1>2, <1>3, <1>4, <1>5, <1>6, QuietInv

LEMMA NoDataInv == IInv /\ NoData => IInv'
  <1> SUFFICES ASSUME IInv, NoData PROVE IInv'
    OBVIOUS
  <1>1. Quiet /\ UNCHANGED <<readAvail, room, peerClosed, discConsumed, discInd>>
    BY DEF Quiet, NoData, ReceiveRest, PumpOnly
  <1>2. Marks'
    BY DEF IInv, Marks, Places, Events, Terminal, Bump, Rank, NoData, ReceiveRest,
       PumpOnly, Goto
  <1>3. Flags'
    BY DEF IInv, Flags, NoData, ReceiveRest, PumpOnly
  <1>4. InPump'
    BY <1>1 DEF IInv, InPump, Terminal, Quiet, NoData, Goto
  <1>5. Ends'
    BY <1>1 DEF IInv, InPump, Terminal, Ends, Quiet, NoData, ReceiveRest, PumpOnly,
       Goto
  <1>6. readAvail' \in 0..RingSize /\ room' \in 0..SendRoom
    BY <1>1 DEF IInv, Counts
  <1> QED BY <1>1, <1>2, <1>3, <1>4, <1>5, <1>6, QuietInv

LEMMA ReceiveLooksInv == IInv /\ ReceiveLooks => IInv'
  <1> SUFFICES ASSUME IInv, ReceiveLooks PROVE IInv'
    OBVIOUS
  <1>1. Quiet /\ UNCHANGED <<readAvail, room, peerClosed, discConsumed, discInd>>
    BY DEF Quiet, ReceiveLooks, ReceiveRest, PumpOnly
  <1>2. Marks'
    BY DEF IInv, Marks, Places, Events, Terminal, Bump, Rank, ReceiveLooks, ReceiveRest,
       PumpOnly, Goto, Receiving
  <1>3. Flags'
    BY DEF IInv, Flags, ReceiveLooks, ReceiveRest, PumpOnly
  <1>4. InPump'
    BY <1>1 DEF IInv, InPump, Terminal, Quiet, ReceiveLooks, Goto, Receiving
  <1>5. Ends'
    BY <1>1 DEF IInv, InPump, Terminal, Ends, Quiet, ReceiveLooks, ReceiveRest, PumpOnly,
       Goto, Receiving
  <1>6. readAvail' \in 0..RingSize /\ room' \in 0..SendRoom
    BY <1>1 DEF IInv, Counts
  <1> QED BY <1>1, <1>2, <1>3, <1>4, <1>5, <1>6, QuietInv

-----------------------------------------------------------------------------
(* What ends a session.                                                    *)

(* BR_SSL_CLOSED: a clean end took the peer's close_notify, and nothing    *)
(* comes after it.                                                         *)
LEMMA EngineEndsInv == IInv /\ EngineEnds => IInv'
  <1> SUFFICES ASSUME IInv, EngineEnds PROVE IInv'
    OBVIOUS
  <1>1. Quiet /\ UNCHANGED <<readAvail, room, peerClosed, discConsumed, discInd>>
    BY DEF Quiet, EngineEnds, PumpOnly
  <1>2. Marks'
    BY DEF IInv, Marks, Places, Events, Terminal, Bump, Rank, EngineEnds, PumpOnly, FailLoudly, Return
  <1>3. Flags'
    BY DEF IInv, Flags, EngineEnds, PumpOnly
  <1>4. InPump'
    BY <1>1 DEF IInv, InPump, Terminal, Quiet, EngineEnds, FailLoudly, Return
  <1>5. Ends'
    BY <1>1 DEF IInv, InPump, Terminal, Ends, Quiet, EngineEnds, PumpOnly,
       FailLoudly, Return, Drive, Sane
  <1>6. readAvail' \in 0..RingSize /\ room' \in 0..SendRoom
    BY <1>1 DEF IInv, Counts
  <1> QED BY <1>1, <1>2, <1>3, <1>4, <1>5, <1>6, QuietInv

(* The peer has released, and the engine has no plaintext.                 *)
LEMMA EndInv == IInv /\ End => IInv'
  <1> SUFFICES ASSUME IInv, End PROVE IInv'
    OBVIOUS
  <1>1. Quiet /\ UNCHANGED <<readAvail, room, peerClosed, discConsumed, discInd>>
    BY DEF Quiet, End, PlainRest, PumpOnly
  <1>2. Marks'
    BY DEF IInv, Marks, Places, Events, Terminal, Bump, Rank, End, PlainRest, PumpOnly,
       Return
  <1>3. Flags'
    BY DEF IInv, Flags, End, PlainRest, PumpOnly
  <1>4. InPump'
    BY <1>1 DEF IInv, InPump, Terminal, Quiet, End, Return
  <1>5. Ends'
    <2>1. UNCHANGED <<indVars, endVars>> /\ state # "Closed" /\ state # "Failed"
      BY DEF IInv, InPump, Terminal, End, PlainRest
    <2>2. CASE peerClosed /\ Drained
      <3>1. transit = 0 /\ peerDone /\ state' = "Closed"
        BY <2>2 DEF IInv, Ends, End
      <3>2. eng.err = "none" /\ (eng.app # 1 \/ ~(eng.plain > 0))
        BY <2>2 DEF IInv, InPump, End, Drained, Ssl!RecvApp, Ssl!IsClosed
      <3>3. eng.plain = 0
        BY <3>2, UnitsNat DEF IInv, Drive, Sane
      <3> QED BY <1>1, <2>1, <3>1, <3>3 DEF IInv, Ends, Quiet, End, Return
    <2>3. CASE ~(peerClosed /\ Drained)
      BY <1>1, <2>1, <2>3 DEF IInv, Ends, Quiet, End, Return
    <2> QED BY <2>2, <2>3
  <1>6. readAvail' \in 0..RingSize /\ room' \in 0..SendRoom
    BY <1>1 DEF IInv, Counts
  <1> QED BY <1>1, <1>2, <1>3, <1>4, <1>5, <1>6, QuietInv

-----------------------------------------------------------------------------
(* The peer and the network.                                               *)

LEMMA PeerSends12Inv == IInv /\ PeerSends12 => IInv'
  <1> SUFFICES ASSUME IInv, PeerSends12 PROVE IInv'
    OBVIOUS
  <1> PICK k \in {"data", "warning", "fatal", "notify"}, n \in 0..MaxData :
        /\ PeerSends([kind |-> k, n |-> n])
        /\ UNCHANGED ownVars
    BY DEF PeerSends12
  <1> DEFINE r == [kind |-> k, n |-> n]
  <1>0. r \in Record /\ r.kind = k
    BY DEF Record, Ssl!Kinds
  <1>1. /\ records' = Append(records, r) /\ transit' = transit + Size(r)
        /\ peerDone' = (r.kind \in {"notify", "fatal"})
        /\ ~peerDone /\ sent < MaxRecords /\ sent' = sent + 1
        /\ UNCHANGED <<nfOrd, nfDisc, indVars, queued, flowVars, truncated>>
        /\ UNCHANGED <<state, endVars, readAvail, writeAvail, pc, event, callerVars, ownVars>>
    BY DEF PeerSends, NetworkOnly
  <1> HIDE DEF r
  <1>2. Size(r) \in Nat /\ SizeOf[r] = Size(r) /\ Size(r) > 0
    BY <1>0, SizeOfSizes
  <1>3. /\ Len(records') = Len(records) + 1 /\ Len(records) \in Nat
        /\ records'[Len(records) + 1] = r /\ records' \in Seq(Record)
        /\ \A j \in 1..Len(records) : records'[j] = records[j]
    BY <1>0, <1>1, AppendProperties, LenProperties DEF IInv, Stream
  <1>4. Marks' /\ InPump' /\ WrittenOnce'
    BY <1>1 DEF IInv, Marks, InPump, WrittenOnce
  <1>5. Flags'
    <2>1. peerDone' \in BOOLEAN
      BY <1>1
    <2> QED BY <1>1, <2>1 DEF IInv, Flags
  <1>6. Counts'
    <2>1. sent' \in 0..MaxRecords
      BY <1>1, Sizes DEF IInv, Counts
    <2>2. transit' \in Nat
      BY <1>1, <1>2 DEF IInv, Counts
    <2> QED BY <1>1, <2>1, <2>2 DEF IInv, Counts
  <1>7. Stream'
    BY <1>3 DEF Stream
  <1>8. Drive'
    BY <1>1 DEF IInv, Drive
  <1>9. Tally'
    <2>1. PICK m \in Nat :
            /\ Weighs(SizeOf, records, m)
            /\ m >= Units
            /\ Unhurt => m = Units
      BY DEF IInv, Tally
    <2>2. Weighs(SizeOf, records', m + Size(r))
      BY <1>0, <1>1, <1>2, <2>1, WeighsAppend, SizeOfSizes DEF IInv, Stream
    <2>3. Units \in Nat /\ Units' = Units + Size(r)
      BY <1>1, <1>2, UnitsNat DEF Units
    <2>4. UNCHANGED Unhurt
      BY <1>1 DEF Unhurt
    <2>5. /\ m + Size(r) \in Nat
          /\ m + Size(r) >= Units'
          /\ Unhurt' => m + Size(r) = Units'
      BY <1>2, <2>1, <2>3, <2>4
    <2>6. eng.got < Size(Head(records'))
      <3>1. CASE records = <<>>
        <4>1. m = 0 /\ Head(records') = r
          BY <1>1, <2>1, <3>1, WeighsNothing
        <4>2. eng.got = 0
          BY <2>1, <4>1, UnitsNat DEF Units
        <4> QED BY <1>2, <4>1, <4>2
      <3>2. CASE records # <<>>
        <4>1. Head(records') = Head(records)
          BY <1>0, <1>1, <1>3, <3>2, HeadTailProperties, AppendProperties, EmptySeq
             DEF IInv, Stream
        <4> QED BY <3>2, <4>1 DEF IInv, Tally
      <3> QED BY <3>1, <3>2
    <2> QED BY <1>1, <2>2, <2>5, <2>6 DEF Tally
  <1>10. LastWord'
    <2> SUFFICES ASSUME NEW i \in 1..Len(records')
                 PROVE  /\ records'[i].kind # "hello"
                        /\ records'[i].kind \in {"notify", "fatal"}
                              => i = Len(records') /\ peerDone'
      BY DEF LastWord
    <2>1. CASE i \in 1..Len(records)
      <3>1. records'[i] = records[i]
        BY <1>3, <2>1
      <3> QED BY <1>1, <2>1, <3>1 DEF IInv, LastWord
    <2>2. CASE i \notin 1..Len(records)
      <3>1. i = Len(records) + 1
        BY <1>3, <2>2
      <3> QED BY <1>0, <1>1, <1>3, <3>1
    <2> QED BY <2>1, <2>2
  <1>11. Ends'
    BY <1>1 DEF IInv, Ends
  <1> QED BY <1>4, <1>5, <1>6, <1>7, <1>8, <1>9, <1>10, <1>11 DEF IInv

LEMMA ArriveInv == IInv /\ Arrive /\ UNCHANGED ownVars => IInv'
  <1> SUFFICES ASSUME IInv, Arrive, UNCHANGED ownVars PROVE IInv'
    OBVIOUS
  <1>1. /\ UNCHANGED <<state, endVars, nfOrd, nfDisc, readAvail, writeAvail, pc, event, indVars,
                       flowVars, records, sent, peerDone, truncated, callerVars, ownVars>>
        /\ transit > 0 /\ transit' \in Nat /\ queued' \in Nat
        /\ queued' + transit' = queued + transit
    BY UnitsNat DEF Arrive, NetworkOnly
  <1>2. Marks' /\ Flags' /\ InPump'
    BY <1>1 DEF IInv, Marks, Flags, InPump
  <1>3. Counts' /\ Stream' /\ WrittenOnce'
    BY <1>1 DEF IInv, Counts, Stream, WrittenOnce
  <1>4. Drive' /\ LastWord'
    BY <1>1 DEF IInv, Drive, LastWord
  <1>5. Tally'
    <2>1. Unhurt' => Unhurt
      BY <1>1 DEF Unhurt
    <2> QED BY <1>1, <2>1, UnitsNat, SameTally
  <1>6. Ends'
    BY <1>1, UnitsNat DEF IInv, Ends
  <1> QED BY <1>2, <1>3, <1>4, <1>5, <1>6 DEF IInv

LEMMA PeerDiesInv == IInv /\ PeerDies /\ UNCHANGED ownVars => IInv'
  <1> SUFFICES ASSUME IInv, PeerDies, UNCHANGED ownVars PROVE IInv'
    OBVIOUS
  <1>1. /\ UNCHANGED <<state, endVars, nfOrd, nfDisc, readAvail, writeAvail, pc, event, indVars,
                       flowVars, records, sent, queued, callerVars, ownVars>>
        /\ truncated' = TRUE /\ peerDone' = TRUE
    BY DEF PeerDies, NetworkOnly
  <1>2. transit > 0 /\ transit' \in Nat /\ transit' < transit
    BY UnitsNat DEF PeerDies
  <1>3. Marks' /\ Flags' /\ InPump'
    BY <1>1 DEF IInv, Marks, Flags, InPump
  <1>4. Counts' /\ Stream' /\ WrittenOnce'
    BY <1>1, <1>2 DEF IInv, Counts, Stream, WrittenOnce
  <1>5. Drive' /\ LastWord'
    BY <1>1 DEF IInv, Drive, LastWord
  <1>6. Tally'
    <2>1. ~Unhurt'
      BY <1>1 DEF Unhurt
    <2>2. queued' \in Nat /\ queued' + transit' <= queued + transit
      BY <1>1, <1>2, UnitsNat
    <2> QED BY <1>1, <1>2, <2>1, <2>2, SameTally
  <1>7. Ends'
    BY <1>1, <1>2 DEF IInv, Ends
  <1> QED BY <1>3, <1>4, <1>5, <1>6, <1>7 DEF IInv

LEMMA PeerReleaseInv == IInv /\ PeerRelease /\ UNCHANGED ownVars => IInv'
  <1> SUFFICES ASSUME IInv, PeerRelease, UNCHANGED ownVars PROVE IInv'
    OBVIOUS
  <1>1. /\ UNCHANGED <<state, endVars, nfDisc, readAvail, writeAvail, pc, event, ot, discInd,
                       flowVars, records, sent, transit, queued, truncated, callerVars, ownVars>>
        /\ transit = 0 /\ peerDone' = TRUE /\ ordInd' = TRUE /\ nfOrd' = TRUE
    BY DEF PeerRelease, NetworkOnly
  <1>2. Marks' /\ Flags' /\ InPump'
    BY <1>1 DEF IInv, Marks, Flags, InPump
  <1>3. Counts' /\ Stream' /\ WrittenOnce'
    BY <1>1 DEF IInv, Counts, Stream, WrittenOnce
  <1>4. Drive' /\ LastWord'
    BY <1>1 DEF IInv, Drive, LastWord
  <1>5. Tally'
    <2>1. Unhurt' => Unhurt
      BY <1>1 DEF Unhurt
    <2>2. queued' \in Nat /\ transit' \in Nat /\ queued' + transit' = queued + transit
          /\ queued' + transit' <= queued + transit
      BY <1>1, UnitsNat
    <2> QED BY <1>1, <2>1, <2>2, SameTally
  <1>6. Ends'
    BY <1>1 DEF IInv, Ends
  <1> QED BY <1>2, <1>3, <1>4, <1>5, <1>6 DEF IInv

LEMMA PeerAbortInv == IInv /\ PeerAbort /\ UNCHANGED ownVars => IInv'
  <1> SUFFICES ASSUME IInv, PeerAbort, UNCHANGED ownVars PROVE IInv'
    OBVIOUS
  <1>1. /\ UNCHANGED <<state, endVars, nfOrd, readAvail, writeAvail, pc, event, ot,
                       flowVars, records, sent, truncated, callerVars, ownVars>>
        /\ transit' = 0 /\ queued' = 0 /\ peerDone' = TRUE
        /\ discInd' = TRUE /\ ordInd' = FALSE /\ nfDisc' = TRUE
    BY DEF PeerAbort, NetworkOnly
  <1>2. Marks' /\ Flags' /\ InPump'
    <2>1. Marks' /\ InPump'
      BY <1>1 DEF IInv, Marks, InPump
    <2>2. Flags'
      BY <1>1, Zenon DEF IInv, Flags
    <2> QED BY <2>1, <2>2
  <1>3. Counts' /\ Stream' /\ WrittenOnce'
    BY <1>1 DEF IInv, Counts, Stream, WrittenOnce
  <1>4. Drive' /\ LastWord'
    BY <1>1 DEF IInv, Drive, LastWord
  <1>5. Tally'
    <2>1. ~Unhurt'
      BY <1>1 DEF Unhurt
    <2>2. queued' \in Nat /\ transit' \in Nat /\ queued' + transit' <= queued + transit
      BY <1>1, UnitsNat
    <2> QED BY <1>1, <2>1, <2>2, SameTally
  <1>6. Ends'
    BY <1>1 DEF IInv, Ends
  <1> QED BY <1>2, <1>3, <1>4, <1>5, <1>6 DEF IInv

-----------------------------------------------------------------------------
(* The caller.                                                             *)

(* br_ssl_engine_close discards plaintext and moves no unit of the wire.   *)
LEMMA CloseInv == IInv /\ Close => IInv'
  <1> SUFFICES ASSUME IInv, Close PROVE IInv'
    OBVIOUS
  <1>1. /\ UNCHANGED <<endVars, nfOrd, nfDisc, readAvail, writeAvail, pc, event, indVars, queued,
                       flowVars, records, netVars, accepted, sentVars>>
        /\ pc = "app" /\ closeReq' = TRUE
        /\ \/ state \in Terminal /\ UNCHANGED <<state, eng>>
           \/ state \notin Terminal /\ state' = "Closing" /\ eng' = Ssl!EngineClose(eng)
    BY DEF Close
  <1>2. /\ Sane(eng') /\ eng'.got = eng.got /\ eng'.flight = eng.flight
        /\ eng'.notified = eng.notified
        /\ eng'.plain > 0 => eng.plain > 0
    BY <1>1, CloseAck DEF IInv, Drive
  <1>3. eng'.plain \in Nat
    BY <1>2, EngineFields DEF Sane
  <1>4. Marks'
    BY <1>1 DEF IInv, Marks
  <1>5. Flags'
    BY <1>1, Zenon DEF IInv, Flags
  <1>6. Counts' /\ Stream'
    BY <1>1 DEF IInv, Counts, Stream
  <1>7. InPump'
    BY <1>1 DEF IInv, InPump
  <1>8. WrittenOnce'
    BY <1>1, <1>2 DEF IInv, WrittenOnce
  <1>9. Drive'
    BY <1>1, <1>2, <1>3 DEF IInv, Drive
  <1>10. LastWord'
    BY <1>1 DEF IInv, LastWord
  <1>11. Tally'
    <2>1. UNCHANGED Units /\ UNCHANGED Unhurt
      BY <1>1, <1>2 DEF Units, Unhurt
    <2> QED BY <1>1, <1>2, <2>1 DEF IInv, Tally
  <1>12. Ends'
    BY <1>1 DEF IInv, Ends, Terminal
  <1> QED BY <1>4, <1>5, <1>6, <1>7, <1>8, <1>9, <1>10, <1>11, <1>12 DEF IInv

LEMMA WriteInv == IInv /\ Write /\ UNCHANGED ownVars => IInv'
  <1> SUFFICES ASSUME IInv, Write, UNCHANGED ownVars PROVE IInv'
    OBVIOUS
  <1>1. PICK n \in 1..Least(MaxWrite - accepted, QueueSize - writeAvail) :
          writeAvail' = writeAvail + n /\ accepted' = accepted + n
    BY DEF Write
  <1>2. /\ n \in Nat /\ n <= MaxWrite - accepted /\ n <= QueueSize - writeAvail
        /\ accepted \in Nat /\ writeAvail \in Nat
    BY <1>1, Sizes DEF IInv, Counts, Least
  <1>3. UNCHANGED <<state, closeReq, endVars, nfOrd, nfDisc, readAvail, pc, event, indVars,
                    queued, flowVars, records, netVars, ownVars>>
    BY DEF Write
  <1>4. writeAvail' \in 0..QueueSize /\ accepted' \in 0..MaxWrite
    BY <1>1, <1>2, Sizes
  <1>5. Marks' /\ Flags' /\ InPump'
    BY <1>3 DEF IInv, Marks, Flags, InPump
  <1>6. Counts' /\ Stream'
    BY <1>3, <1>4 DEF IInv, Counts, Stream
  <1>7. Drive' /\ LastWord' /\ Ends'
    BY <1>3 DEF IInv, Drive, LastWord, Ends
  <1>8. Tally'
    BY <1>3 DEF IInv, Tally, Units, Unhurt
  <1>9. WrittenOnce'
    <2>1. wired \in Nat /\ dropped \in Nat
      BY DEF IInv, Counts
    <2>2. accepted' = wired + dropped + eng.flight + writeAvail'
      BY <1>1, <1>2, <2>1, UnitsNat DEF IInv, WrittenOnce
    <2> QED BY <1>3, <2>2 DEF IInv, WrittenOnce
  <1> QED BY <1>5, <1>6, <1>7, <1>8, <1>9 DEF IInv

-----------------------------------------------------------------------------
(* pump_ot_send_from_bearssl, when the engine is told that units went.     *)

(* What such a step does to the rest, given what it does to the endpoint.  *)
LEMMA SentInv ==
    ASSUME IInv, Marks', Flags', Ends',
           SendRest, UNCHANGED state, pc # "app", Again, Ssl!SendRec(eng),
           NEW k \in 1..eng.unsent, eng' = Ssl!SendRecAck(eng, k),
           room' \in 0..SendRoom, wired' \in Nat, dropped' \in Nat,
           wired' + dropped' = wired + dropped + (IF k = eng.unsent THEN eng.flight ELSE 0),
           dropped' > 0 => peerClosed',
           UNCHANGED discInd, UNCHANGED discConsumed
    PROVE  IInv'
  <1>1. UNCHANGED <<readAvail, writeAvail, queued, records, closeReq, accepted, nfOrd, nfDisc,
                    netVars>>
    BY DEF SendRest, PumpOnly
  <1>2. eng.err = "none"
    BY DEF Ssl!SendRec, Ssl!IsClosed
  <1>3. /\ Sane(eng') /\ eng'.got = eng.got /\ eng'.plain = eng.plain
        /\ eng'.notified = eng.notified
        /\ eng'.program = "main" <=> eng.program = "main"
        /\ eng'.flight = IF k = eng.unsent THEN 0 ELSE eng.flight
    BY <1>2, SendAck DEF IInv, Drive
  <1>4. Counts' /\ Stream'
    BY <1>1 DEF IInv, Counts, Stream
  <1>5. InPump'
    BY DEF IInv, InPump, Again
  <1>6. Drive'
    BY <1>1, <1>3 DEF IInv, Drive
  <1>7. LastWord'
    BY <1>1 DEF IInv, LastWord
  <1>8. Tally'
    <2>1. UNCHANGED Units /\ UNCHANGED Unhurt
      BY <1>1, <1>3 DEF Units, Unhurt
    <2> QED BY <1>1, <1>3, <2>1 DEF IInv, Tally
  <1>9. WrittenOnce'
    <2>1. /\ wired \in Nat /\ dropped \in Nat /\ writeAvail \in Nat /\ eng.flight \in Nat
          /\ accepted = wired + dropped + eng.flight + writeAvail
      BY UnitsNat, Sizes DEF IInv, Counts, WrittenOnce
    <2>2. wired' + dropped' + eng'.flight = wired + dropped + eng.flight
      BY <1>3, <2>1
    <2>3. accepted = wired' + dropped' + eng'.flight + writeAvail
      BY <2>1, <2>2
    <2> QED BY <1>1, <2>3 DEF WrittenOnce
  <1> QED BY <1>4, <1>5, <1>6, <1>7, <1>8, <1>9 DEF IInv

LEMMA WholeRecord ==
    ASSUME IInv, Ssl!SendRec(eng)
    PROVE  eng.unsent \in 1..eng.unsent /\ eng.unsent \in Nat /\ eng.unsent > 0
  BY UnitsNat DEF Ssl!SendRec

LEMMA SendGoneInv == IInv /\ SendGone => IInv'
  <1> SUFFICES ASSUME IInv, SendGone PROVE IInv'
    OBVIOUS
  <1>1. /\ UNCHANGED <<state, endVars, indVars, flowVars, event, wired>> /\ SendRest
        /\ Ssl!SendRec(eng) /\ pc # "app" /\ Again /\ ot # "dataxfer"
        /\ eng' = Ssl!SendRecAck(eng, eng.unsent) /\ dropped' = dropped + eng.flight
    BY DEF SendGone, DropRecord, HasRecord
  <1>2. peerClosed
    BY <1>1 DEF IInv, Ends, InPump, Terminal
  <1>3. Marks'
    BY <1>1 DEF IInv, Marks, Places, Again
  <1>4. Flags'
    BY <1>1 DEF IInv, Flags, SendRest, PumpOnly
  <1>5. Ends'
    BY <1>1 DEF IInv, Ends, InPump, Terminal, SendRest, PumpOnly
  <1>6. /\ wired' \in Nat /\ dropped' \in Nat /\ room' \in 0..SendRoom
        /\ wired' + dropped' = wired + dropped + eng.flight
    BY <1>1, UnitsNat DEF IInv, Counts
  <1>7. eng.unsent \in 1..eng.unsent
    BY <1>1, WholeRecord
  <1> QED BY <1>1, <1>2, <1>3, <1>4, <1>5, <1>6, <1>7, SentInv

LEMMA SendReleaseInv == IInv /\ SendRelease => IInv'
  <1> SUFFICES ASSUME IInv, SendRelease PROVE IInv'
    OBVIOUS
  <1>1. /\ UNCHANGED <<state, flowVars, event, wired>> /\ SendRest /\ pc # "app"
        /\ pc = "sndrel" /\ Again /\ TakeRelease
        /\ eng' = Ssl!SendRecAck(eng, eng.unsent) /\ dropped' = dropped + eng.flight
    BY DEF SendRelease, DropRecord
  <1>2. peerClosed' = TRUE /\ nfOrd /\ UNCHANGED <<discInd, discConsumed>>
    BY <1>1 DEF IInv, Ends, TakeRelease
  <1>3. Marks'
    BY <1>1 DEF IInv, Marks, Places, Again, TakeRelease, AfterRcvRelease
  <1>4. Flags'
    BY <1>1, ReleaseTypes DEF IInv, Flags, SendRest, PumpOnly
  <1>5. Ends'
    BY <1>1, <1>2 DEF IInv, Ends, InPump, Terminal, SendRest, PumpOnly
  <1>6. /\ wired' \in Nat /\ dropped' \in Nat /\ room' \in 0..SendRoom
        /\ wired' + dropped' = wired + dropped + eng.flight
    BY <1>1, UnitsNat DEF IInv, Counts
  <1>7. Ssl!SendRec(eng)
    BY <1>1 DEF IInv, InPump
  <1>8. eng.unsent \in 1..eng.unsent
    BY <1>7, WholeRecord
  <1> QED BY <1>1, <1>2, <1>3, <1>4, <1>5, <1>6, <1>7, <1>8, SentInv

LEMMA SendSomeInv == IInv /\ SendSome => IInv'
  <1> SUFFICES ASSUME IInv, SendSome PROVE IInv'
    OBVIOUS
  <1> DEFINE k == Least(eng.unsent, room)
  <1>1. /\ UNCHANGED <<state, endVars, indVars, wantWrite, goOwed, event, dropped>> /\ SendRest
        /\ Ssl!SendRec(eng) /\ pc # "app" /\ Again /\ room > 0 /\ room' = room - k
        /\ eng' = Ssl!SendRecAck(eng, k)
        /\ wired' = IF k = eng.unsent THEN wired + eng.flight ELSE wired
    BY DEF SendSome, CanSnd, HasRecord
  <1>2. k \in 1..eng.unsent /\ room' \in 0..SendRoom
    BY <1>1, WholeRecord, Sizes DEF IInv, Counts, Least
  <1> HIDE DEF k
  <1>3. Marks'
    BY <1>1 DEF IInv, Marks, Places, Again
  <1>4. Flags'
    BY <1>1 DEF IInv, Flags, SendRest, PumpOnly
  <1>5. Ends'
    BY <1>1 DEF IInv, Ends, InPump, Terminal, SendRest, PumpOnly, Again
  <1>6. /\ wired' \in Nat /\ dropped' \in Nat
        /\ wired' + dropped' = wired + dropped + (IF k = eng.unsent THEN eng.flight ELSE 0)
    BY <1>1, UnitsNat DEF IInv, Counts
  <1>7. dropped' > 0 => peerClosed'
    BY <1>1 DEF IInv, WrittenOnce
  <1> QED BY <1>1, <1>2, <1>3, <1>4, <1>5, <1>6, <1>7, SentInv

-----------------------------------------------------------------------------
(* The plaintext, both ways.                                               *)

LEMMA TakePlainInv == IInv /\ TakePlain => IInv'
  <1> SUFFICES ASSUME IInv, TakePlain PROVE IInv'
    OBVIOUS
  <1>1. PICK k \in 1..Least(eng.plain, RingSize - readAvail) :
          readAvail' = readAvail + k /\ eng' = Ssl!RecvAppAck(eng, k)
    BY DEF TakePlain
  <1>2. /\ k \in Nat /\ k > 0 /\ k <= eng.plain /\ k <= RingSize - readAvail
        /\ eng.plain - k \in 0..eng.plain /\ readAvail' \in 0..RingSize
    BY <1>1, UnitsNat, Sizes DEF IInv, Counts, Least
  <1>3. /\ Sane(eng') /\ eng'.got = eng.got /\ eng'.plain = eng.plain - k
        /\ eng'.notified = eng.notified /\ eng'.program = eng.program
        /\ eng'.flight = eng.flight
    BY <1>1, <1>2, PlainKeeps DEF IInv, Drive, Ssl!RecvAppAck
  <1>4. /\ UNCHANGED <<state, writeAvail, endVars, indVars, queued, flowVars, records, sentVars,
                       closeReq, accepted, nfOrd, nfDisc, netVars>>
        /\ pc = "plain" /\ Again
    BY DEF TakePlain, PlainRest, PumpOnly
  <1>5. Marks'
    BY <1>4 DEF IInv, Marks, Places, Again, Events, Bump, Rank, TakePlain
  <1>6. Flags'
    BY <1>4 DEF IInv, Flags
  <1>7. Counts' /\ Stream'
    BY <1>2, <1>4 DEF IInv, Counts, Stream
  <1>8. InPump'
    BY <1>4 DEF IInv, InPump, Again
  <1>9. Drive'
    <2>1. ~eng.notified
      BY <1>2 DEF IInv, Drive
    <2> QED BY <1>3, <1>4, <2>1 DEF IInv, Drive
  <1>10. LastWord' /\ WrittenOnce'
    BY <1>3, <1>4 DEF IInv, LastWord, WrittenOnce
  <1>11. Tally'
    <2>1. UNCHANGED Units /\ UNCHANGED Unhurt
      BY <1>3, <1>4 DEF Units, Unhurt
    <2> QED BY <1>3, <1>4, <2>1 DEF IInv, Tally
  <1>12. Ends'
    BY <1>4 DEF IInv, Ends, InPump, Terminal, Again
  <1> QED BY <1>5, <1>6, <1>7, <1>8, <1>9, <1>10, <1>11, <1>12 DEF IInv

LEMMA GivePlainInv == IInv /\ GivePlain => IInv'
  <1> SUFFICES ASSUME IInv, GivePlain PROVE IInv'
    OBVIOUS
  <1> DEFINE k == Least(writeAvail, MaxOut)
  <1>1. /\ writeAvail > 0 /\ Ssl!SendApp(eng)
        /\ writeAvail' = writeAvail - k /\ eng' = Ssl!SendAppAck(eng, k)
    BY DEF GivePlain, Gives
  <1>2. k \in 1..MaxOut /\ k <= writeAvail /\ writeAvail' \in 0..QueueSize /\ k \in Nat
    BY <1>1, Sizes DEF IInv, Counts, Least
  <1> HIDE DEF k
  <1>3. /\ Sane(eng') /\ eng'.got = eng.got /\ eng'.plain = eng.plain
        /\ eng'.notified = eng.notified /\ eng'.program = eng.program
        /\ eng'.flight = k /\ eng.flight = 0
    <2>1. eng.flight = 0
      BY <1>1 DEF IInv, Drive, Sane, Ssl!SendApp
    <2> QED BY <1>1, <1>2, <2>1, GiveAck DEF IInv, Drive
  <1>4. /\ UNCHANGED <<state, readAvail, endVars, indVars, queued, flowVars, records, sentVars,
                       closeReq, accepted, nfOrd, nfDisc, netVars>>
        /\ pc = "plain" /\ Again
    BY DEF GivePlain, PlainRest, PumpOnly
  <1>5. Marks'
    BY <1>4 DEF IInv, Marks, Places, Again, Events, Bump, Rank, GivePlain
  <1>6. Flags'
    BY <1>4 DEF IInv, Flags
  <1>7. Counts' /\ Stream'
    BY <1>2, <1>4 DEF IInv, Counts, Stream
  <1>8. InPump'
    BY <1>4 DEF IInv, InPump, Again
  <1>9. Drive' /\ LastWord'
    BY <1>3, <1>4 DEF IInv, Drive, LastWord
  <1>10. WrittenOnce'
    <2>1. wired \in Nat /\ dropped \in Nat /\ writeAvail \in Nat
      BY Sizes DEF IInv, Counts
    <2>2. accepted = wired + dropped + eng'.flight + writeAvail'
      BY <1>1, <1>2, <1>3, <2>1 DEF IInv, WrittenOnce
    <2> QED BY <1>4, <2>2 DEF IInv, WrittenOnce
  <1>11. Tally'
    <2>1. UNCHANGED Units /\ UNCHANGED Unhurt
      BY <1>3, <1>4 DEF Units, Unhurt
    <2> QED BY <1>3, <1>4, <2>1 DEF IInv, Tally
  <1>12. Ends'
    BY <1>3, <1>4 DEF IInv, Ends, Again
  <1> QED BY <1>5, <1>6, <1>7, <1>8, <1>9, <1>10, <1>11, <1>12 DEF IInv

-----------------------------------------------------------------------------
(* pump_ot_recv_into_bearssl, when units came.                             *)

(* How much of the record OTRcv is asked for.                              *)
LEMMA WantedBounds ==
    ASSUME NEW e, e.got \in Nat, NEW r \in Record, e.got < Size(r), queued \in Nat, queued > 0
    PROVE  LET k == Least(queued, Ssl!Wanted(e, r)) IN
           /\ k \in Nat /\ k > 0 /\ k <= queued
           /\ ~Ssl!Completes(e, r, k) => e.got + k < Size(r)
           /\ Ssl!Completes(e, r, k) => e.got + k = Size(r)
  <1>1. r.n \in Nat /\ Ssl!Size(r) = HeaderSize + r.n /\ Size(r) = HeaderSize + r.n
        /\ HeaderSize \in Nat
    BY Sizes DEF Record, Size, Ssl!Size
  <1>2. CASE e.got < HeaderSize
    BY <1>1, <1>2 DEF Least, Ssl!Wanted, Ssl!Completes
  <1>3. CASE e.got >= HeaderSize
    BY <1>1, <1>3 DEF Least, Ssl!Wanted, Ssl!Completes
  <1> QED BY <1>1, <1>2, <1>3

(* br_ssl_engine_recvrec_ack in the middle of a record, and at its end.    *)
LEMMA ReceiveDataInv == IInv /\ ReceiveData => IInv'
  <1> SUFFICES ASSUME IInv, ReceiveData PROVE IInv'
    OBVIOUS
  <1> DEFINE r == Head(records)
             k == Least(queued, Ssl!Wanted(eng, r))
             w == Ssl!Completes(eng, r, k)
  <1>1. /\ eng' = Ssl!RecvRecAck(eng, r, k) /\ queued' = queued - k
        /\ records' = IF w THEN Tail(records) ELSE records
        /\ pc = "recv" /\ Again /\ queued > 0
        /\ UNCHANGED <<state, event, endVars, indVars, readAvail, writeAvail, flowVars, sentVars,
                       closeReq, accepted, nfOrd, nfDisc, netVars>>
    BY DEF ReceiveData, Receiving, ReceiveRest, PumpOnly
  <1>2. /\ Sane(eng) /\ eng.err = "none" /\ eng.plain = 0 /\ eng.got \in Nat
        /\ queued \in Nat /\ transit \in Nat /\ records \in Seq(Record)
        /\ state \notin {"Closed", "Failed"}
    BY <1>1, UnitsNat DEF IInv, Drive, Stream, InPump, Terminal, ReceiveData, Receiving,
       Ssl!RecvRec
  <1>3. PICK m \in Nat :
          /\ Weighs(SizeOf, records, m)
          /\ m >= Units
          /\ Unhurt => m = Units
    BY DEF IInv, Tally
  <1>4. records # <<>>
    <2>1. m > 0
      BY <1>1, <1>2, <1>3 DEF Units
    <2> QED BY <1>3, <2>1, WeighsNothing
  <1>5. /\ r \in Record /\ r = records[1] /\ Tail(records) \in Seq(Record)
        /\ Len(records) \in Nat \ {0} /\ Len(Tail(records)) = Len(records) - 1
        /\ \A i \in 1..(Len(records) - 1) : Tail(records)[i] = records[i + 1]
    BY <1>2, <1>4, HeadTailProperties, EmptySeq
  <1>6. /\ k \in Nat /\ k > 0 /\ k <= queued
        /\ ~w => eng.got + k < Size(r)
        /\ w => eng.got + k = Size(r)
    BY <1>1, <1>2, <1>4, <1>5, WantedBounds DEF IInv, Tally
  <1>7. ~eng.notified
    BY <1>4 DEF IInv, Drive
  <1>8. Size(r) \in Nat /\ SizeOf[r] = Size(r)
    BY <1>5, SizeOfSizes
  <1> HIDE DEF r, k, w
  <1>9. queued' \in Nat
    BY <1>1, <1>2, <1>6
  <1>10. Marks'
    BY <1>1 DEF IInv, Marks, Places, Again
  <1>11. Flags'
    BY <1>1 DEF IInv, Flags
  <1>12. Counts'
    BY <1>1, <1>9 DEF IInv, Counts
  <1>13. InPump'
    BY <1>1 DEF IInv, InPump, Again
  <1>14. Ends'
    BY <1>1, <1>2 DEF IInv, Ends, Again
  <1>15. UNCHANGED Unhurt
    BY <1>1 DEF Unhurt
  <1>16. CASE ~w
    <2>1. eng' = [eng EXCEPT !.got = eng.got + k] /\ records' = records
      BY <1>1, <1>16 DEF w, Ssl!RecvRecAck
    <2>2. eng.got + k \in Nat
      BY <1>2, <1>6
    <2>3. /\ Sane(eng') /\ eng'.got = eng.got + k /\ eng'.plain = 0
          /\ eng'.notified = eng.notified /\ eng'.program = eng.program
          /\ eng'.flight = eng.flight
      BY <1>2, <2>1, <2>2, GotKeeps
    <2>4. Stream' /\ Drive' /\ LastWord'
      BY <1>1, <2>1, <2>3 DEF IInv, Stream, Drive, LastWord
    <2>5. WrittenOnce'
      BY <1>1, <2>3 DEF IInv, WrittenOnce
    <2>6. Tally'
      <3>1. Units' = Units
        BY <1>1, <1>2, <1>6, <2>3 DEF Units
      <3>2. eng'.got < Size(Head(records'))
        BY <1>6, <1>16, <2>1, <2>3 DEF r
      <3> QED BY <1>3, <1>15, <2>1, <3>1, <3>2 DEF Tally
    <2> QED BY <1>10, <1>11, <1>12, <1>13, <1>14, <2>4, <2>5, <2>6 DEF IInv
  <1>17. CASE w
    <2> DEFINE d == [eng EXCEPT !.got = 0]
    <2>1. eng' = Ssl!Received(d, r) /\ records' = Tail(records)
      BY <1>1, <1>17 DEF w, Ssl!RecvRecAck
    <2>2. /\ Sane(d) /\ d.err = "none" /\ d.got = 0 /\ d.plain = 0
          /\ d.notified = eng.notified /\ d.program = eng.program /\ d.flight = eng.flight
      <3>1. 0 \in Nat
        OBVIOUS
      <3> QED BY <1>2, <3>1, GotKeeps
    <2> HIDE DEF d
    <2>3. r.kind \in {"data", "warning", "fatal", "notify"}
      <3>1. r.kind \in Ssl!Kinds
        BY <1>5 DEF Record
      <3>2. 1 \in 1..Len(records)
        BY <1>5
      <3>3. records[1].kind # "hello"
        BY <3>2 DEF IInv, LastWord
      <3> QED BY <1>5, <3>1, <3>3 DEF Ssl!Kinds
    <2>4. /\ Sane(eng') /\ eng'.got = 0 /\ eng'.flight = eng.flight
          /\ eng'.notified => eng'.plain = 0 /\ r.kind = "notify"
          /\ ~closeReq /\ eng'.program # "main" => eng'.notified
      <3>1. CASE r.kind = "data"
        <4>1. /\ Sane(eng') /\ eng'.got = 0 /\ eng'.notified = eng.notified
              /\ eng'.program = eng.program /\ eng'.flight = eng.flight
          BY <1>5, <2>1, <2>2, <3>1, DataAck
        <4> QED BY <1>7, <4>1 DEF IInv, Drive
      <3>2. CASE r.kind \in {"warning", "fatal", "notify"}
        <4>1. /\ Sane(eng') /\ eng'.got = 0 /\ eng'.plain = 0 /\ eng'.flight = eng.flight
              /\ eng'.notified => eng.notified \/ r.kind = "notify"
              /\ eng'.program # "main" => eng'.notified \/ eng.program # "main"
          BY <1>5, <2>1, <2>2, <3>2, AlertAck
        <4> QED BY <1>7, <4>1 DEF IInv, Drive
      <3> QED BY <2>3, <3>1, <3>2
    <2>5. Stream'
      BY <1>5, <2>1 DEF Stream
    <2>6. Drive'
      <3>1. ASSUME eng'.notified PROVE records' = <<>> /\ peerDone
        <4>1. 1 \in 1..Len(records) /\ records[1].kind = "notify"
          BY <1>5, <2>4, <3>1
        <4>2. Len(records) = 1 /\ peerDone
          BY <4>1 DEF IInv, LastWord
        <4>3. records' = <<>>
          BY <1>5, <2>1, <4>2, EmptySeq
        <4> QED BY <4>2, <4>3
      <3> QED BY <1>1, <2>4, <3>1 DEF Drive
    <2>7. LastWord'
      <3> SUFFICES ASSUME NEW i \in 1..Len(records')
                   PROVE  /\ records'[i].kind # "hello"
                          /\ records'[i].kind \in {"notify", "fatal"}
                                => i = Len(records') /\ peerDone'
        BY DEF LastWord
      <3>1. i + 1 \in 1..Len(records) /\ records'[i] = records[i + 1]
            /\ (i + 1 = Len(records) => i = Len(records'))
        <4>1. Len(records') = Len(records) - 1 /\ records'[i] = Tail(records)[i]
          BY <1>5, <2>1
        <4>2. i \in 1..(Len(records) - 1)
          BY <4>1
        <4>3. Tail(records)[i] = records[i + 1]
          BY <1>5, <4>2
        <4>4. i + 1 \in 1..Len(records) /\ (i + 1 = Len(records) => i = Len(records) - 1)
          <5>1. Len(records) \in Nat
            BY <1>5
          <5>2. ASSUME NEW L \in Nat, NEW j \in 1..(L - 1)
                PROVE  j + 1 \in 1..L /\ (j + 1 = L => j = L - 1)
            OBVIOUS
          <5> QED BY <4>2, <5>1, <5>2
        <4> QED BY <4>1, <4>3, <4>4, Zenon
      <3>2. /\ records[i + 1].kind # "hello"
            /\ records[i + 1].kind \in {"notify", "fatal"} => i + 1 = Len(records) /\ peerDone
        BY <3>1 DEF IInv, LastWord
      <3>3. UNCHANGED peerDone
        BY <1>1
      <3> QED BY <3>1, <3>2, <3>3
    <2>8. WrittenOnce'
      BY <1>1, <2>4 DEF IInv, WrittenOnce
    <2>9. Tally'
      <3>1. /\ Size(r) <= m /\ Weighs(SizeOf, records', m - Size(r))
        BY <1>2, <1>3, <1>4, <1>8, <2>1, WeighsTail, SizeOfSizes DEF r
      <3>2. Units' = Units - Size(r) /\ Units \in Nat
        BY <1>1, <1>2, <1>6, <1>17, <2>4, UnitsNat DEF Units
      <3>3. /\ m - Size(r) \in Nat
            /\ m - Size(r) >= Units'
            /\ Unhurt' => m - Size(r) = Units'
        BY <1>3, <1>8, <1>15, <3>1, <3>2
      <3>4. ASSUME records' # <<>> PROVE eng'.got < Size(Head(records'))
        <4>1. Head(records') \in Record
          BY <2>5, <3>4, HeadTailProperties DEF Stream
        <4>2. Size(Head(records')) \in Nat /\ Size(Head(records')) > 0
          BY <4>1, SizeOfSizes
        <4> QED BY <2>4, <4>2
      <3> QED BY <3>1, <3>3, <3>4 DEF Tally
    <2> QED BY <1>10, <1>11, <1>12, <1>13, <1>14, <2>5, <2>6, <2>7, <2>8, <2>9 DEF IInv
  <1> QED BY <1>16, <1>17

-----------------------------------------------------------------------------
LEMMA InitInv == Init => IInv
  <1> SUFFICES ASSUME Init PROVE IInv
    OBVIOUS
  <1>1. Flags /\ Marks
    BY DEF Init, PathInit, Flags, Marks, Places, Events, Terminal
  <1>2. Counts /\ Stream
    BY Sizes DEF Init, PathInit, Counts, Stream
  <1>3. /\ eng.err = "none" /\ eng.program = "main" /\ eng.app = 1 /\ ~eng.notified
        /\ eng.got = 0 /\ eng.plain = 0 /\ eng.flight = 0 /\ eng.unsent = 0
        /\ eng \in Ssl!Engine
    <2>1. eng = [err |-> "none", program |-> "main", app |-> 1, shut |-> FALSE,
                 notified |-> FALSE, got |-> 0, plain |-> 0, flight |-> 0, unsent |-> 0]
      BY DEF Init, Ssl!Established, Ssl!Reset, Ssl!SealedMessage
    <2>2. "main" \in Ssl!Programs /\ 0 \in 0..MaxOut
      BY Sizes DEF Ssl!Programs
    <2> QED BY <2>1, <2>2 DEF Ssl!Engine
  <1>4. Drive
    BY <1>3, Sizes DEF Drive, Sane
  <1>5. InPump /\ LastWord /\ Ends
    BY DEF Init, PathInit, InPump, LastWord, Ends, Terminal
  <1>6. Tally
    <2>1. Weighs(SizeOf, records, 0)
      BY WeighsNothing DEF Init, PathInit
    <2>2. Units = 0
      BY <1>3 DEF Units, Init, PathInit
    <2>3. records = <<>>
      BY DEF Init, PathInit
    <2> QED BY <2>1, <2>2, <2>3 DEF Tally
  <1>7. WrittenOnce
    BY <1>3 DEF Init, PathInit, WrittenOnce
  <1> QED BY <1>1, <1>2, <1>4, <1>5, <1>6, <1>7 DEF IInv

LEMMA NextInv == IInv /\ [Next]_vars => IInv'
  <1> SUFFICES ASSUME IInv, [Next]_vars PROVE IInv'
    OBVIOUS
  <1>1. CASE UNCHANGED vars
    BY <1>1, StutterInv
  <1>2. CASE PeerSends12 \/ Close
    BY <1>2, PeerSends12Inv, CloseInv, Zenon
  <1>3. CASE Network /\ UNCHANGED ownVars
    BY <1>3, ArriveInv, PeerDiesInv, PeerReleaseInv, PeerAbortInv, SendDrainsInv, Zenon
       DEF Network
  <1>4. CASE (Write \/ Read \/ CallerPumps \/ Top("step")) /\ UNCHANGED ownVars
    BY <1>4, WriteInv, ReadInv, PumpBeginInv, TopInv, Zenon
       DEF CallerPumps, PumpNow, PollTick
  <1>5. CASE Send
    BY <1>5, SendNothingInv, SendGoneInv, SendSomeInv, SendBlockedInv, SetWantWriteInv,
       SendLooksInv, SendReleaseInv, SendAbortedInv, SendErrorInv, Zenon DEF Send
  <1>6. CASE Receive
    BY <1>6, ReceiveNothingInv, ReceiveDataInv, ReceiveNoDataInv, NoDataInv,
       ReceiveLooksInv, ReceiveReleaseInv, ReceiveAbortedInv, ReceiveErrorInv, Zenon
       DEF Receive
  <1>7. CASE EngineEnds \/ TakePlain \/ GivePlain \/ End
    BY <1>7, EngineEndsInv, TakePlainInv, GivePlainInv, EndInv, Zenon
  <1> QED BY <1>1, <1>2, <1>3, <1>4, <1>5, <1>6, <1>7, Zenon DEF Next, PumpStep, Step

(* The inductive invariant: the counts, where the units of the stream are, *)
(* and what the engine's program says of the peer's close_notify.          *)
THEOREM Invariance == Spec => []IInv
  <1>1. Init => IInv
    BY InitInv
  <1>2. IInv /\ [Next]_vars => IInv'
    BY NextInv
  <1> QED BY <1>1, <1>2, PTL DEF Spec

-----------------------------------------------------------------------------
(* What it implies.                                                        *)

LEMMA Pieces == IInv => TypeOK
  <1> SUFFICES ASSUME IInv PROVE TypeOK
    OBVIOUS
  <1>1. pc \in {"app", "top"} \cup {"step", "flow", "sndrel", "recv", "nodata", "rcvrel", "plain"}
    BY DEF IInv, Marks, Places
  <1>2. records \in Seq([kind : Ssl!Kinds, n : 0..MaxData])
    BY DEF IInv, Stream, Record
  <1>3. PathTypeOK({"step", "flow", "sndrel", "recv", "nodata", "rcvrel", "plain"},
                   [kind : Ssl!Kinds, n : 0..MaxData])
    BY <1>1, <1>2, Zenon DEF PathTypeOK, IInv, Marks, Flags, Counts
  <1>4. eng \in Ssl!Engine /\ eng.plain <= MaxData /\ eng.unsent <= HeaderSize + MaxOut
    BY DEF IInv, Drive, Sane
  <1>5. eng.got < HeaderSize + MaxData
    <2>1. CASE records = <<>>
      <3>1. PICK n \in Nat : Weighs(SizeOf, records, n) /\ n >= Units
        BY DEF IInv, Tally
      <3>2. n = 0
        BY <2>1, <3>1, WeighsNothing
      <3>3. eng.got = 0
        BY <3>1, <3>2, UnitsNat DEF Units
      <3> QED BY <3>3, Sizes
    <2>2. CASE records # <<>>
      <3>1. Head(records) \in Record
        BY <2>2, HeadTailProperties DEF IInv, Stream
      <3>2. Size(Head(records)) \in Nat /\ Size(Head(records)) <= HeaderSize + MaxData
        BY <3>1, SizeOfSizes
      <3> QED BY <2>2, <3>2, UnitsNat, Sizes DEF IInv, Tally
    <2> QED BY <2>1, <2>2
  <1>6. wired \in 0..MaxWrite /\ dropped \in 0..MaxWrite
    <2>1. /\ wired \in Nat /\ dropped \in Nat /\ writeAvail \in Nat /\ eng.flight \in Nat
          /\ accepted = wired + dropped + eng.flight + writeAvail
          /\ accepted \in 0..MaxWrite
      BY UnitsNat, Sizes DEF IInv, Counts, WrittenOnce
    <2> QED BY <2>1, Sizes
  <1> QED BY <1>3, <1>4, <1>5, <1>6 DEF TypeOK

(* A Closed session whose endpoint is drained has nothing left to read.    *)
LEMMA NothingUnread == IInv => ReadToTheEnd
  <1> SUFFICES ASSUME IInv, state = "Closed", ~closeReq, queued = 0, ~truncated, ~discInd
               PROVE  /\ eng.plain = 0
                      /\ records = <<>>
    BY DEF ReadToTheEnd
  <1>1. eng.plain = 0 /\ (records = <<>> \/ transit = 0)
    BY DEF IInv, Ends
  <1>2. CASE records # <<>>
    <2>1. transit = 0 /\ Unhurt
      BY <1>1, <1>2 DEF IInv, Ends, Unhurt
    <2>2. PICK m \in Nat : Weighs(SizeOf, records, m) /\ m = Units
      BY <2>1 DEF IInv, Tally
    <2>3. Head(records) \in Record /\ records \in Seq(Record)
      BY <1>2, HeadTailProperties DEF IInv, Stream
    <2>4. SizeOf[Head(records)] <= m
      BY <1>2, <2>2, <2>3, WeighsTail, SizeOfSizes
    <2>5. m < Size(Head(records))
      BY <1>2, <2>1, <2>2, UnitsNat DEF IInv, Tally, Units
    <2>6. SizeOf[Head(records)] = Size(Head(records)) /\ Size(Head(records)) \in Nat
      BY <2>3, SizeOfSizes
    <2> QED BY <2>4, <2>5, <2>6
  <1> QED BY <1>1, <1>2

(* Every buffer and counter of an open 1.2 session stays inside its bounds:*)
(* pump_ot_recv_into_bearssl hands the engine no more than the record it   *)
(* waits for, pump_bearssl_recvapp_to_ring never runs past the ring.       *)
THEOREM TypeCorrect == Spec => []TypeOK
  BY Invariance, Pieces, PTL

(* No byte that OSTLS_Write accepted leaves the sum of queue, record and   *)
(* wire, however little OTSnd takes (pump_ring_to_bearssl_sendapp,         *)
(* pump_ot_send_from_bearssl); what goes nowhere does so after a release.  *)
THEOREM NoByteLostOrTwice == Spec => []WrittenOnce
  <1>1. IInv => WrittenOnce
    BY DEF IInv
  <1> QED BY <1>1, Invariance, PTL

(* pump_bearssl_step closes a session nobody asked to close only after     *)
(* every record the endpoint handed over: with nothing left in the endpoint*)
(* and no abort, no data of the peer is unread, on the wire's side or in   *)
(* the engine.                                                             *)
THEOREM NothingUnreadAtTheEnd == Spec => []ReadToTheEnd
  BY Invariance, NothingUnread, PTL

=============================================================================

------------------------ MODULE BlockingFetch_proofs ------------------------
(***************************************************************************)
(* Proofs about BlockingFetch for every size of the records, the request   *)
(* and the caller's buffer, every limit and every width of the tick count: *)
(* OK is returned with the whole response or with the buffer full, never   *)
(* with what came before a stream that was cut, and the call does not give *)
(* up early.                                                               *)
(***************************************************************************)
EXTENDS BlockingFetch, StreamLemmas

Record  == [kind : Ssl!Kinds, n : 1..MaxData]
Looping == {"loop", "snd", "rcv"}

USE DEF callVars, peerVars

-----------------------------------------------------------------------------
LEMMA Sizes ==
    /\ HeaderSize \in Nat /\ HeaderSize > 0 /\ MaxOut \in Nat /\ MaxOut > 0
    /\ MaxData \in Nat /\ MaxData > 0 /\ Request \in Nat /\ OutCap \in Nat /\ OutCap > 0
    /\ Limit \in Nat /\ Limit > 0 /\ MaxRecords \in Nat /\ Wrap \in Nat /\ Limit < Wrap
  <1>1. HeaderSize \in Nat \ {0} /\ MaxOut \in Nat \ {0} /\ MaxData \in Nat \ {0}
    BY FetchAssumption, Zenon
  <1>2. Request \in Nat \ {0} /\ OutCap \in Nat \ {0} /\ Limit \in Nat \ {0}
    BY FetchAssumption, Zenon
  <1>3. MaxRecords \in Nat /\ Wrap \in Nat /\ Limit < Wrap
    BY FetchAssumption, Zenon
  <1> QED BY <1>1, <1>2, <1>3

-----------------------------------------------------------------------------
(* The engine of a call that never closes its session itself.              *)

(* Application data flows in main's loop only; whoever closes has heard the*)
(* peer's close_notify, and a clean end takes that too.                    *)
Sane(e) ==
    /\ e \in Ssl!Engine
    /\ e.app = IF e.program = "main" THEN 1 ELSE 0
    /\ e.notified <=> e.program \in {"room", "closing"}
    /\ e.err = "ok" => e.notified
    /\ e.plain > 0 => e.program = "main"

LEMMA FailKeeps ==
    ASSUME NEW e, Sane(e), NEW why \in {"ok", "error"}, why = "ok" => e.notified
    PROVE  LET d == Ssl!Fail(e, why) IN
           /\ Sane(d) /\ d.err = why /\ d.got = e.got /\ d.plain = e.plain
           /\ d.notified = e.notified /\ d.program = e.program /\ d.unsent = e.unsent
  BY DEF Sane, Ssl!Engine, Ssl!Fail

LEMMA SealKeeps ==
    ASSUME NEW e, Sane(e), NEW p \in {"finished", "closing"},
           p = "finished" => e.program = "hello",
           p = "closing" => e.program = "room"
    PROVE  LET d == [Ssl!SealedMessage(e) EXCEPT !.program = p] IN
           /\ Sane(d) /\ d.err = e.err /\ d.got = e.got /\ d.plain = e.plain
           /\ d.notified = e.notified /\ d.program = p /\ d.unsent = HeaderSize + 1
  <1> DEFINE d == [Ssl!SealedMessage(e) EXCEPT !.program = p]
  <1>0. e \in Ssl!Engine
    BY DEF Sane
  <1>1. d = [e EXCEPT !.unsent = HeaderSize + 1, !.flight = 0, !.program = p]
    BY DEF Sane, Ssl!Engine, Ssl!SealedMessage
  <1> HIDE DEF d
  <1>2. d \in Ssl!Engine
    <2>1. HeaderSize + 1 \in Nat /\ 0 \in 0..MaxOut /\ p \in Ssl!Programs
      BY Sizes DEF Ssl!Programs
    <2> QED BY <1>0, <1>1, <2>1 DEF Ssl!Engine
  <1>3. /\ d.err = e.err /\ d.got = e.got /\ d.plain = e.plain /\ d.app = e.app
        /\ d.notified = e.notified /\ d.program = p /\ d.unsent = HeaderSize + 1
    BY <1>0, <1>1 DEF Ssl!Engine
  <1>4. Sane(d)
    BY <1>2, <1>3 DEF Sane
  <1> QED BY <1>3, <1>4 DEF d

(* What the closing program does leaves the rest of the engine alone.      *)
LEMMA ClosingKeeps ==
    ASSUME NEW e, Sane(e), e.err = "none", e.program \in {"room", "closing"}
    PROVE  LET d == Ssl!Closing(e) IN
           /\ Sane(d) /\ d.got = e.got /\ d.plain = e.plain /\ d.notified = e.notified
           /\ d.err # "error" /\ d.program \in {"room", "closing"}
  <1>1. e.notified
    BY DEF Sane
  <1> QED BY <1>1, FailKeeps, SealKeeps DEF Ssl!Closing

(* br_ssl_engine_sendrec_ack                                               *)
LEMMA SendAck ==
    ASSUME NEW e, Sane(e), e.err = "none", NEW k \in 1..e.unsent
    PROVE  LET d == Ssl!SendRecAck(e, k) IN
           /\ Sane(d) /\ d.got = e.got /\ d.plain = e.plain /\ d.notified = e.notified
           /\ d.err # "error"
           /\ e.program \notin {"room", "closing"} =>
                  d.program = e.program /\ d.unsent = e.unsent - k
  <1> DEFINE left == [e EXCEPT !.unsent = e.unsent - k,
                               !.flight = IF k = e.unsent THEN 0 ELSE e.flight]
  <1>1. /\ Sane(left) /\ left.got = e.got /\ left.plain = e.plain
        /\ left.notified = e.notified /\ left.err = "none" /\ left.program = e.program
        /\ left.unsent = e.unsent - k
    <2>1. e.unsent \in Nat /\ e.unsent - k \in Nat /\ e.flight \in 0..MaxOut /\ 0 \in 0..MaxOut
      BY Sizes DEF Sane, Ssl!Engine
    <2>2. left \in Ssl!Engine
      BY <2>1 DEF Sane, Ssl!Engine
    <2>3. /\ left.got = e.got /\ left.plain = e.plain /\ left.app = e.app
          /\ left.notified = e.notified /\ left.err = "none" /\ left.program = e.program
          /\ left.unsent = e.unsent - k
      BY DEF Sane, Ssl!Engine
    <2> HIDE DEF left
    <2> QED BY <2>2, <2>3 DEF Sane
  <1>2. Ssl!SendRecAck(e, k) =
          IF left.unsent = 0 /\ Ssl!IsClosing(e) THEN Ssl!Closing(left) ELSE left
    BY DEF Ssl!SendRecAck
  <1> HIDE DEF left
  <1> QED BY <1>1, <1>2, ClosingKeeps DEF Ssl!IsClosing

(* br_ssl_engine_recvrec_ack, inside a record.                             *)
LEMMA PartAck ==
    ASSUME NEW e, Sane(e), NEW r \in Record, NEW k \in Nat, ~Ssl!Completes(e, r, k)
    PROVE  LET d == Ssl!RecvRecAck(e, r, k) IN
           d = [e EXCEPT !.got = e.got + k] /\ Sane(d)
  BY Sizes DEF Sane, Ssl!Engine, Ssl!Programs, Ssl!RecvRecAck

(* The engine when a record is whole.                                      *)
LEMMA WholeAck ==
    ASSUME NEW e, Sane(e), NEW r, NEW k, Ssl!Completes(e, r, k)
    PROVE  LET d == [e EXCEPT !.got = 0] IN
           /\ Ssl!RecvRecAck(e, r, k) = Ssl!Received(d, r)
           /\ Sane(d) /\ d.err = e.err /\ d.got = 0 /\ d.plain = e.plain
           /\ d.notified = e.notified /\ d.program = e.program /\ d.unsent = e.unsent
           /\ d.app = e.app
  <1>1. Ssl!RecvRecAck(e, r, k) = Ssl!Received([e EXCEPT !.got = 0], r)
    BY DEF Ssl!RecvRecAck
  <1>2. LET d == [e EXCEPT !.got = 0] IN
           /\ Sane(d) /\ d.err = e.err /\ d.got = 0 /\ d.plain = e.plain
           /\ d.notified = e.notified /\ d.program = e.program /\ d.unsent = e.unsent
           /\ d.app = e.app
    BY DEF Sane, Ssl!Engine
  <1> QED BY <1>1, <1>2

(* A record of the server, by its kind.                                    *)
LEMMA DataAck ==
    ASSUME NEW e, Sane(e), NEW r \in Record, e.plain = 0, e.err = "none", r.kind = "data"
    PROVE  LET d == Ssl!Received(e, r) IN
           /\ Sane(d) /\ d.got = e.got
           /\ d.program = e.program /\ d.notified = e.notified /\ d.unsent = e.unsent
           /\ \/ d.err = "error"
              \/ d.err = "none" /\ d.plain = r.n
  <1>1. r.n \in Nat /\ r.n > 0 /\ r \in Record
    BY Sizes DEF Record
  <1>2. CASE e.program = "main"
    <2>1. e.app = 1
      BY <1>2 DEF Sane
    <2>2. Ssl!Received(e, r) = [e EXCEPT !.plain = r.n]
      BY <1>1, <2>1 DEF Ssl!Received
    <2> QED BY <1>1, <1>2, <2>2 DEF Sane, Ssl!Engine
  <1>3. CASE e.program # "main"
    <2>1. e.app = 0
      BY <1>3 DEF Sane
    <2>2. Ssl!Received(e, r) = Ssl!Fail(e, "error")
      BY <1>1, <2>1 DEF Ssl!Received
    <2> QED BY <2>2, FailKeeps
  <1> QED BY <1>2, <1>3

LEMMA HelloAck ==
    ASSUME NEW e, Sane(e), NEW r \in Record, e.plain = 0, e.err = "none", r.kind = "hello",
           e.program \in {"hello", "finished"}
    PROVE  LET d == Ssl!Received(e, r) IN
           /\ Sane(d) /\ d.got = e.got /\ d.plain = 0 /\ d.err = "none" /\ ~d.notified
           /\ d.program = IF e.program = "hello" THEN "finished" ELSE "main"
  <1>1. Ssl!Received(e, r) = Ssl!Handshake(e)
    BY DEF Ssl!Received
  <1>2. ~e.notified
    BY DEF Sane
  <1>3. CASE e.program = "hello"
    <2>1. Ssl!Handshake(e) = [Ssl!SealedMessage(e) EXCEPT !.program = "finished"]
      BY <1>3 DEF Ssl!Handshake, Ssl!IsClosing
    <2> DEFINE d == Ssl!Handshake(e)
    <2>2. /\ Sane(d) /\ d.err = e.err /\ d.got = e.got /\ d.plain = e.plain
          /\ d.notified = e.notified /\ d.program = "finished"
      BY <1>3, <2>1, SealKeeps
    <2> HIDE DEF d
    <2>3. Ssl!Received(e, r) = d
      BY <1>1 DEF d
    <2> QED BY <1>2, <1>3, <2>2, <2>3
  <1>4. CASE e.program = "finished"
    <2>1. Ssl!Handshake(e) = [e EXCEPT !.program = "main", !.app = 1]
      BY <1>4 DEF Ssl!Handshake, Ssl!IsClosing
    <2>2. e \in Ssl!Engine
      BY DEF Sane
    <2> DEFINE d == Ssl!Received(e, r)
    <2>3. d = [e EXCEPT !.program = "main", !.app = 1]
      BY <1>1, <2>1
    <2> HIDE DEF d
    <2>4. d \in Ssl!Engine
      <3>1. "main" \in Ssl!Programs /\ 1 \in 0..2
        BY DEF Ssl!Programs
      <3> QED BY <2>2, <2>3, <3>1 DEF Ssl!Engine
    <2>5. /\ d.err = e.err /\ d.got = e.got /\ d.plain = e.plain
          /\ d.notified = e.notified /\ d.program = "main" /\ d.app = 1
      BY <2>2, <2>3 DEF Ssl!Engine
    <2>6. Sane(d)
      BY <1>2, <2>4, <2>5 DEF Sane
    <2> QED BY <1>2, <1>4, <2>5, <2>6 DEF d
  <1> QED BY <1>3, <1>4

LEMMA AlertAck ==
    ASSUME NEW e, Sane(e), NEW r \in Record, e.plain = 0, e.err = "none", ~e.notified,
           r.kind \in {"warning", "fatal", "notify"}
    PROVE  LET d == Ssl!Received(e, r) IN
           /\ Sane(d) /\ d.got = e.got /\ d.plain = 0
           /\ \/ r.kind = "warning" /\ d = e
              \/ r.kind = "fatal" /\ d.err = "error" /\ d.program = e.program
              \/ r.kind = "notify" /\ d.err # "error" /\ d.notified
  <1>1. Ssl!Received(e, r) = Ssl!Alert(e, r.kind) /\ ~Ssl!IsClosing(e)
    BY DEF Ssl!Received, Sane, Ssl!IsClosing
  <1>2. CASE r.kind = "warning"
    <2>1. Ssl!Alert(e, r.kind) = e
      BY <1>1, <1>2 DEF Ssl!Alert
    <2> QED BY <1>1, <1>2, <2>1
  <1>3. CASE r.kind = "fatal"
    <2>1. Ssl!Alert(e, r.kind) = Ssl!Fail(e, "error")
      BY <1>3 DEF Ssl!Alert
    <2> QED BY <1>1, <1>3, <2>1, FailKeeps
  <1>4. CASE r.kind = "notify"
    <2> DEFINE d == [[e EXCEPT !.shut = r.kind = "notify"]
                       EXCEPT !.program = "room", !.notified = TRUE,
                              !.app = IF e.app = 1 /\ ~TRUE THEN 2 ELSE 0]
    <2>1. Ssl!Alert(e, r.kind) = Ssl!Closing(d)
      BY <1>1, <1>4 DEF Ssl!Alert, Ssl!DoClose
    <2>2. Sane(d) /\ d.err = "none" /\ d.got = e.got /\ d.plain = 0 /\ d.notified
          /\ d.program = "room"
      <3>1. d = [e EXCEPT !.shut = TRUE, !.program = "room", !.notified = TRUE, !.app = 0]
        BY <1>4 DEF Sane, Ssl!Engine
      <3>0. e \in Ssl!Engine
        BY DEF Sane
      <3> HIDE DEF d
      <3>2. d \in Ssl!Engine
        <4>1. "room" \in Ssl!Programs /\ 0 \in 0..2 /\ TRUE \in BOOLEAN
          BY DEF Ssl!Programs
        <4> QED BY <3>0, <3>1, <4>1 DEF Ssl!Engine
      <3>3. /\ d.err = "none" /\ d.got = e.got /\ d.plain = 0 /\ d.notified
            /\ d.program = "room" /\ d.app = 0
        BY <3>0, <3>1 DEF Ssl!Engine
      <3> QED BY <3>2, <3>3 DEF Sane
    <2> HIDE DEF d
    <2> QED BY <1>1, <1>4, <2>1, <2>2, ClosingKeeps
  <1> QED BY <1>2, <1>3, <1>4

(* What the caller's side does to it.                                      *)
LEMMA GiveAck ==
    ASSUME NEW e, Sane(e), NEW k \in 0..MaxOut
    PROVE  LET d == Ssl!SendAppAck(e, k) IN
           /\ Sane(d) /\ d.err = e.err /\ d.got = e.got /\ d.plain = e.plain
           /\ d.notified = e.notified /\ d.program = e.program
  <1> DEFINE d == Ssl!SendAppAck(e, k)
  <1>1. e \in Ssl!Engine
    BY DEF Sane
  <1>2. d = [e EXCEPT !.unsent = HeaderSize + k, !.flight = k]
    BY DEF Ssl!SendAppAck, Ssl!SealedData
  <1> HIDE DEF d
  <1>3. HeaderSize + k \in Nat
    BY Sizes
  <1>4. d \in Ssl!Engine
    BY <1>1, <1>2, <1>3 DEF Ssl!Engine
  <1>5. /\ d.err = e.err /\ d.got = e.got /\ d.plain = e.plain /\ d.app = e.app
        /\ d.notified = e.notified /\ d.program = e.program
    BY <1>1, <1>2 DEF Ssl!Engine
  <1>6. Sane(d)
    BY <1>4, <1>5 DEF Sane
  <1> QED BY <1>5, <1>6 DEF d

LEMMA TakeAck ==
    ASSUME NEW e, Sane(e), NEW k \in 0..e.plain
    PROVE  LET d == Ssl!RecvAppAck(e, k) IN
           /\ Sane(d) /\ d.err = e.err /\ d.got = e.got /\ d.plain = e.plain - k
           /\ d.notified = e.notified /\ d.program = e.program /\ d.unsent = e.unsent
  <1> DEFINE d == Ssl!RecvAppAck(e, k)
  <1>1. e \in Ssl!Engine /\ e.plain \in Nat /\ (e.plain > 0 => e.program = "main")
    BY DEF Sane, Ssl!Engine
  <1>2. d = [e EXCEPT !.plain = e.plain - k] /\ e.plain - k \in Nat
    BY <1>1 DEF Ssl!RecvAppAck
  <1>3. e.plain - k > 0 => e.program = "main"
    BY <1>1
  <1> HIDE DEF d
  <1>4. d \in Ssl!Engine
    BY <1>1, <1>2 DEF Ssl!Engine
  <1>5. /\ d.err = e.err /\ d.got = e.got /\ d.plain = e.plain - k /\ d.app = e.app
        /\ d.notified = e.notified /\ d.program = e.program /\ d.unsent = e.unsent
    BY <1>1, <1>2 DEF Ssl!Engine
  <1>6. Sane(d)
    BY <1>3, <1>4, <1>5 DEF Sane
  <1> QED BY <1>5, <1>6 DEF d

-----------------------------------------------------------------------------
(* The inductive invariant, in pieces.                                     *)

Before  == {"args", "clock", "config", "open", "bind", "dns", "connect", "entropy", "reset"}
Holding == {"bind", "dns", "connect", "entropy", "reset"} \cup Looping

(* Where the call is, what it holds and what it would return.              *)
Calls ==
    /\ pc \in Before \cup Looping \cup {"done"}
    /\ ep = "open" => pc \in Holding
    /\ pc \in Holding => ep = "open"
    /\ pc # "done" => result = "none" /\ outLen = 0
    /\ requestSent \in Nat /\ collected \in Nat
    /\ pc # "done" => collected < OutCap

(* The engine where it is used.                                            *)
Drive ==
    /\ Sane(eng)
    /\ pc = "snd" => eng.err = "none" /\ eng.unsent > 0
    /\ pc = "rcv" => eng.err = "none" /\ eng.unsent = 0 /\ eng.plain = 0

Wire ==
    /\ records \in Seq(Record)
    /\ queued \in Nat /\ transit \in Nat /\ response \in Nat
    /\ answered \in 0..2 /\ wired \in Nat

(* After close_notify, and after a fatal alert, the peer sends no more.    *)
LastWord ==
    /\ eng.notified => records = <<>> /\ eng.plain = 0 /\ ended # "open"
    /\ \A i \in 1..Len(records) :
           records[i].kind \in {"notify", "fatal"} => i = Len(records) /\ ended # "open"

(* A handshake record of the server is on its way only while the engine's  *)
(* program waits for it.                                                   *)
Greetings ==
    /\ eng.program = "hello" => answered <= 1
    /\ eng.program = "hello" => wired <= 1 /\ (eng.unsent > 0 => wired = 0)
    /\ eng.program = "finished" => answered >= 1
    /\ eng.program = "main" => answered = 2
    /\ eng.err # "error" => \A i \in 1..Len(records) : records[i].kind = "hello" =>
           \/ eng.program = "hello" /\ answered = 1
           \/ eng.program = "finished" /\ answered = 2
    /\ eng.err # "error" => \A i, j \in 1..Len(records) :
           records[i].kind = "hello" /\ records[j].kind = "hello" => i = j

SizeOf == [r \in Record |-> HeaderSize + r.n]
DataOf == [r \in Record |-> IF r.kind = "data" THEN r.n ELSE 0]

(* No unit arrives that is not of a record that was sent; the engine has   *)
(* got less than the first of them.                                        *)
Units == eng.got + queued + transit
Sized ==
    /\ \E n \in Nat : Weighs(SizeOf, records, n) /\ n >= Units
    /\ records # <<>> => eng.got < Ssl!Size(Head(records))

(* The data the server sent is in the caller's buffer, in the engine or in *)
(* the records to come.                                                    *)
Rest   == response - collected - eng.plain
Summed == eng.err # "error" => Rest \in Nat /\ Weighs(DataOf, records, Rest)

IInv == Calls /\ Drive /\ Wire /\ LastWord /\ Greetings /\ Sized /\ Summed
        /\ ReturnsTheWhole

-----------------------------------------------------------------------------
LEMMA Weights ==
    /\ SizeOf \in [Record -> Nat] /\ DataOf \in [Record -> Nat]
    /\ \A r \in Record : /\ SizeOf[r] = Ssl!Size(r) /\ Ssl!Size(r) \in Nat
                          /\ Ssl!Size(r) = HeaderSize + r.n /\ r.n \in Nat /\ r.n > 0
                          /\ DataOf[r] = IF r.kind = "data" THEN r.n ELSE 0
  BY Sizes DEF SizeOf, DataOf, Record, Ssl!Size

(* The setup, check by check.                                              *)
LEMMA SetupChain ==
    ASSUME SetupPasses
    PROVE  /\ pc \in Before
           /\ pc' = CASE pc = "args" -> "clock"      [] pc = "clock" -> "config"
                      [] pc = "config" -> "open"     [] pc = "open" -> "bind"
                      [] pc = "bind" -> "dns"        [] pc = "dns" -> "connect"
                      [] pc = "connect" -> "entropy" [] pc = "entropy" -> "reset"
                      [] pc = "reset" -> "loop"
  <1>1. PICK i \in 1..9 : pc = Setup[i] /\ pc' = IF i = 9 THEN "loop" ELSE Setup[i + 1]
    BY DEF SetupPasses, SetupAt, Setup
  <1>2. i = 1 \/ i = 2 \/ i = 3 \/ i = 4 \/ i = 5 \/ i = 6 \/ i = 7 \/ i = 8 \/ i = 9
    BY <1>1
  <1> QED BY <1>1, <1>2 DEF Setup, Before

(* Nothing of the call moves while it waits, nothing of the stream while it*)
(* works.                                                                  *)
LEMMA WaitKeeps ==
    ASSUME IInv, UNCHANGED callVars, UNCHANGED response
    PROVE  Calls' /\ Drive' /\ ReturnsTheWhole'
  <1>1. Calls'
    BY DEF IInv, Calls
  <1>2. Drive'
    BY DEF IInv, Drive, Sane
  <1>3. ReturnsTheWhole'
    BY DEF IInv, ReturnsTheWhole, Least
  <1> QED BY <1>1, <1>2, <1>3

StreamVars == <<eng, records, queued, transit, response, answered, ended, wired, collected>>

LEMMA StreamKeeps ==
    ASSUME IInv, UNCHANGED StreamVars
    PROVE  Wire' /\ LastWord' /\ Greetings' /\ Sized' /\ Summed'
  BY DEF IInv, StreamVars, Wire, LastWord, Greetings, Sized, Units, Summed, Rest

LEMMA InitInv == Init => IInv
  <1> SUFFICES ASSUME Init PROVE IInv
    OBVIOUS
  <1>1. /\ eng \in Ssl!Engine /\ eng.program = "hello" /\ eng.app = 0 /\ eng.err = "none"
        /\ eng.notified = FALSE /\ eng.plain = 0 /\ eng.got = 0
    <2>1. eng = [err |-> "none", program |-> "hello", app |-> 0, shut |-> FALSE,
                 notified |-> FALSE, got |-> 0, plain |-> 0, flight |-> 0,
                 unsent |-> HeaderSize + 1]
      BY DEF Init, Ssl!Reset, Ssl!SealedMessage
    <2>2. HeaderSize + 1 \in Nat /\ 0 \in 0..MaxOut /\ "hello" \in Ssl!Programs
      BY Sizes DEF Ssl!Programs
    <2> QED BY <2>1, <2>2 DEF Ssl!Engine
  <1>2. Calls /\ Drive
    BY <1>1, Sizes DEF Init, Calls, Drive, Sane, Before, Looping, Holding
  <1>3. Wire /\ LastWord /\ Greetings
    BY <1>1, EmptySeq DEF Init, Wire, LastWord, Greetings
  <1>4. Weighs(SizeOf, records, 0) /\ Weighs(DataOf, records, 0)
    BY WeighsNothing DEF Init
  <1>5. Units = 0 /\ Rest = 0
    BY <1>1 DEF Init, Units, Rest
  <1>6. Sized /\ Summed
    BY <1>4, <1>5 DEF Sized, Summed, Init
  <1>7. ReturnsTheWhole
    BY DEF Init, ReturnsTheWhole
  <1> QED BY <1>2, <1>3, <1>6, <1>7 DEF IInv

-----------------------------------------------------------------------------
(* The peer and the network.                                               *)

LEMMA TickInv == IInv /\ Tick => IInv'
  <1> SUFFICES ASSUME IInv, Tick PROVE IInv'
    OBVIOUS
  <1>1. UNCHANGED callVars /\ UNCHANGED StreamVars /\ UNCHANGED response
    BY DEF Tick, OutsideOnly, StreamVars
  <1> QED BY <1>1, WaitKeeps, StreamKeeps DEF IInv

LEMMA PeerSendsInv == IInv /\ PeerSends => IInv'
  <1> SUFFICES ASSUME IInv, PeerSends PROVE IInv'
    OBVIOUS
  <1>1. PICK k \in Ssl!Kinds, n \in 1..MaxData :
         /\ k = "hello" => answered < 2 /\ wired > answered
         /\ k = "data"  => answered = 2
         /\ records' = Append(records, [kind |-> k, n |-> n])
         /\ transit' = transit + Ssl!Size([kind |-> k, n |-> n])
         /\ answered' = IF k = "hello" THEN answered + 1 ELSE answered
         /\ response' = IF k = "data" THEN response + n ELSE response
         /\ ended' = IF k \in {"notify", "fatal"} THEN "notify" ELSE "open"
    BY DEF PeerSends
  <1> DEFINE r == [kind |-> k, n |-> n]
  <1>2. /\ r \in Record /\ r.kind = k /\ r.n = n /\ n \in Nat /\ records \in Seq(Record)
        /\ Ssl!Size(r) \in Nat /\ SizeOf[r] = Ssl!Size(r)
        /\ DataOf[r] = IF k = "data" THEN n ELSE 0
    BY Weights, Sizes DEF Record, IInv, Wire
  <1> HIDE DEF r
  <1>3. /\ records' = Append(records, r) /\ transit' = transit + Ssl!Size(r)
        /\ UNCHANGED callVars /\ UNCHANGED <<queued, wired>>
        /\ ended = "open" /\ pc # "done"
    BY <1>1 DEF PeerSends, OutsideOnly, Connected, r
  <1>4. /\ Len(records) \in Nat /\ Len(records') = Len(records) + 1
        /\ records'[Len(records) + 1] = r
        /\ \A j \in 1..Len(records) : records'[j] = records[j]
        /\ records' \in Seq(Record)
    BY <1>2, <1>3, AppendProperties, LenProperties
  <1>5. Calls' /\ Drive' /\ ReturnsTheWhole'
    BY <1>3 DEF IInv, Calls, Drive, Sane, ReturnsTheWhole
  <1>6. Wire'
    <2>1. transit' \in Nat
      BY <1>2, <1>3 DEF IInv, Wire
    <2>2. response' \in Nat
      BY <1>1, <1>2 DEF IInv, Wire
    <2>3. answered' \in 0..2
      BY <1>1 DEF IInv, Wire
    <2> QED BY <1>3, <1>4, <2>1, <2>2, <2>3 DEF IInv, Wire
  <1>7. LastWord'
    <2>1. ~eng'.notified
      BY <1>3 DEF IInv, LastWord
    <2>2. ASSUME NEW i \in 1..Len(records'), records'[i].kind \in {"notify", "fatal"}
          PROVE  i = Len(records') /\ ended' # "open"
      <3>1. i \notin 1..Len(records)
        BY <1>3, <1>4, <2>2 DEF IInv, LastWord
      <3>2. i = Len(records) + 1
        BY <1>4, <2>2, <3>1
      <3>3. k \in {"notify", "fatal"}
        BY <1>2, <1>4, <2>2, <3>2
      <3> QED BY <1>1, <1>4, <3>2, <3>3
    <2> QED BY <2>1, <2>2 DEF LastWord
  <1>8. Greetings'
    <2>1. CASE k # "hello"
      <3>1. UNCHANGED <<eng, answered, wired>>
        BY <1>1, <1>3, <2>1
      <3>2. ASSUME NEW i \in 1..Len(records'), records'[i].kind = "hello"
            PROVE  i \in 1..Len(records) /\ records[i].kind = "hello"
        <4>1. i # Len(records) + 1
          BY <1>2, <1>4, <2>1, <3>2
        <4> QED BY <1>4, <3>2, <4>1
      <3> QED BY <3>1, <3>2 DEF IInv, Greetings
    <2>2. CASE k = "hello"
      <3>1. answered < 2 /\ wired > answered /\ answered' = answered + 1 /\ UNCHANGED <<eng, wired>>
        BY <1>1, <1>3, <2>2
      <3>2. /\ answered = 0 => eng.program = "hello"
            /\ answered = 1 => eng.program = "finished"
        <4>1. answered \in 0..2 /\ wired \in Nat
          BY DEF IInv, Wire
        <4>2. eng.program \in {"hello", "finished", "main", "room", "closing"}
          BY DEF IInv, Drive, Sane, Ssl!Engine, Ssl!Programs
        <4>3. eng.program \notin {"room", "closing"}
          BY <1>3 DEF IInv, LastWord, Drive, Sane
        <4> QED BY <3>1, <4>1, <4>2, <4>3 DEF IInv, Greetings
      <3>3. eng.err # "error" => \A i \in 1..Len(records) : records[i].kind # "hello"
        BY <3>1, <3>2 DEF IInv, Greetings, Wire
      <3>4. eng'.err # "error" =>
              \A i \in 1..Len(records') : records'[i].kind = "hello" => i = Len(records')
        BY <1>4, <3>1, <3>3
      <3>5. answered \in {0, 1} /\ answered' \in {1, 2} /\ (answered = 1 => answered' = 2)
            /\ (answered = 0 => answered' = 1)
        BY <3>1 DEF IInv, Wire
      <3> QED BY <3>1, <3>2, <3>4, <3>5 DEF IInv, Greetings
    <2> QED BY <2>1, <2>2
  <1>9. Sized'
    <2>1. PICK m \in Nat : Weighs(SizeOf, records, m) /\ m >= Units
      BY DEF IInv, Sized
    <2>2. Weighs(SizeOf, records', m + Ssl!Size(r))
      BY <1>2, <1>3, <2>1, WeighsAppend, Weights
    <2>3. /\ eng.got \in Nat /\ queued \in Nat /\ transit \in Nat
      BY DEF IInv, Drive, Sane, Wire, Ssl!Engine
    <2>4. Units \in Nat /\ Units' = Units + Ssl!Size(r)
      BY <1>2, <1>3, <2>3 DEF Units
    <2>5. m + Ssl!Size(r) \in Nat /\ m + Ssl!Size(r) >= Units'
      BY <1>2, <2>1, <2>4
    <2>6. eng'.got < Ssl!Size(Head(records'))
      <3>1. CASE records = <<>>
        <4>1. m = 0
          BY <2>1, <3>1, WeighsNothing
        <4>2. eng.got = 0
          BY <2>1, <2>3, <4>1 DEF Units
        <4>3. Head(records') = r
          BY <1>2, <1>3, <1>4, <3>1, EmptySeq
        <4> QED BY <1>2, <1>3, <4>2, <4>3, Weights, Sizes
      <3>2. CASE records # <<>>
        <4>1. Head(records') = Head(records)
          BY <1>2, <1>4, <3>2, HeadTailProperties, EmptySeq
        <4> QED BY <1>3, <3>2, <4>1 DEF IInv, Sized
      <3> QED BY <3>1, <3>2
    <2> QED BY <2>2, <2>5, <2>6 DEF Sized
  <1>10. Summed'
    <2> SUFFICES ASSUME eng'.err # "error"
                 PROVE  Rest' \in Nat /\ Weighs(DataOf, records', Rest')
      BY DEF Summed
    <2>1. Rest \in Nat /\ Weighs(DataOf, records, Rest)
      BY <1>3 DEF IInv, Summed
    <2>2. Weighs(DataOf, records', Rest + DataOf[r])
      BY <1>2, <1>3, <2>1, WeighsAppend, Weights
    <2>3. eng.plain \in Nat /\ response \in Nat /\ collected \in Nat
      BY DEF IInv, Drive, Sane, Wire, Calls, Ssl!Engine
    <2>4. response' = response + DataOf[r] /\ DataOf[r] \in Nat
      BY <1>1, <1>2, <2>3
    <2>5. Rest' = Rest + DataOf[r]
      BY <1>3, <2>3, <2>4 DEF Rest
    <2> QED BY <2>1, <2>2, <2>4, <2>5
  <1> QED BY <1>5, <1>6, <1>7, <1>8, <1>9, <1>10 DEF IInv

(* Units that arrive, or are lost with an end of the stream.               *)
LEMMA UnitsInv ==
    ASSUME IInv, Arrive \/ PeerReleases \/ PeerAborts
    PROVE  IInv'
  <1>1. /\ UNCHANGED callVars /\ UNCHANGED <<records, response, answered, wired>>
        /\ ended # "open" => ended' # "open"
    BY DEF Arrive, PeerReleases, PeerAborts, OutsideOnly
  <1>2. Calls' /\ Drive' /\ ReturnsTheWhole'
    BY <1>1, WaitKeeps
  <1>3. /\ queued \in Nat /\ transit \in Nat /\ eng.got \in Nat
    BY DEF IInv, Wire, Drive, Sane, Ssl!Engine
  <1>4. queued' \in Nat /\ transit' \in Nat /\ eng.got + queued' + transit' <= eng.got + queued + transit
    <2>1. CASE Arrive
      BY <1>3, <2>1 DEF Arrive
    <2>2. CASE PeerReleases
      BY <1>3, <2>2 DEF PeerReleases
    <2>3. CASE PeerAborts
      BY <1>3, <2>3 DEF PeerAborts
    <2> QED BY <2>1, <2>2, <2>3
  <1>5. Wire'
    BY <1>1, <1>4 DEF IInv, Wire
  <1>6. LastWord'
    BY <1>1 DEF IInv, LastWord
  <1>7. Greetings'
    BY <1>1 DEF IInv, Greetings
  <1>8. Sized'
    <2>1. PICK m \in Nat : Weighs(SizeOf, records, m) /\ m >= Units
      BY DEF IInv, Sized
    <2>2. m >= Units'
      BY <1>1, <1>3, <1>4, <2>1 DEF Units
    <2> QED BY <1>1, <2>1, <2>2 DEF IInv, Sized
  <1>9. Summed'
    BY <1>1 DEF IInv, Summed, Rest
  <1> QED BY <1>2, <1>5, <1>6, <1>7, <1>8, <1>9 DEF IInv

-----------------------------------------------------------------------------
(* OSTLS_Fetch.                                                            *)

(* A return that is not OK.                                                *)
LEMMA FailsInv ==
    ASSUME IInv, pc # "done", NEW why, why # "OK", Fails(why),
           UNCHANGED <<requestSent, outLen>>, UNCHANGED StreamVars
    PROVE  IInv'
  <1>1. Calls' /\ Drive'
    BY DEF IInv, Calls, Drive, Sane, Fails, Holding, Looping, StreamVars
  <1>2. ReturnsTheWhole'
    BY DEF IInv, Calls, Fails, ReturnsTheWhole
  <1> QED BY <1>1, <1>2, StreamKeeps DEF IInv

LEMMA SetupFailsInv == IInv /\ SetupFails => IInv'
  <1> SUFFICES ASSUME IInv, SetupFails PROVE IInv'
    OBVIOUS
  <1>1. PICK i \in 1..9 : pc = Setup[i] /\ Fails(Setup[i])
    BY DEF SetupFails, SetupAt, Setup
  <1>2. i = 1 \/ i = 2 \/ i = 3 \/ i = 4 \/ i = 5 \/ i = 6 \/ i = 7 \/ i = 8 \/ i = 9
    BY <1>1
  <1>3. Setup[i] # "OK" /\ pc # "done"
    BY <1>1, <1>2 DEF Setup
  <1> QED BY <1>1, <1>3, FailsInv DEF SetupFails, CallOnly, StreamVars

LEMMA SetupPassesInv == IInv /\ SetupPasses => IInv'
  <1> SUFFICES ASSUME IInv, SetupPasses PROVE IInv'
    OBVIOUS
  <1>1. UNCHANGED StreamVars /\ UNCHANGED <<requestSent, result, outLen>>
    BY DEF SetupPasses, CallOnly, StreamVars
  <1>2. Calls'
    BY <1>1, SetupChain DEF IInv, Calls, SetupPasses, Before, Holding, Looping, StreamVars
  <1>3. Drive'
    BY <1>1, SetupChain DEF IInv, Drive, Sane, Before, StreamVars
  <1>4. ReturnsTheWhole'
    BY <1>1, SetupChain DEF IInv, Before, ReturnsTheWhole
  <1> QED BY <1>1, <1>2, <1>3, <1>4, StreamKeeps DEF IInv

LEMMA TimesOutInv == IInv /\ TimesOut => IInv'
  BY FailsInv DEF TimesOut, CallOnly, StreamVars

LEMMA CallFailsInv == IInv /\ CallFails => IInv'
  BY FailsInv DEF CallFails, GivesUp, CallOnly, StreamVars

(* A clean end is the server's close_notify: nothing is to come.           *)
LEMMA EngineEndsInv == IInv /\ EngineEnds => IInv'
  <1> SUFFICES ASSUME IInv, EngineEnds PROVE IInv'
    OBVIOUS
  <1>1. UNCHANGED StreamVars /\ UNCHANGED requestSent /\ pc = "loop"
    BY DEF EngineEnds, CallOnly, StreamVars
  <1>2. CASE ~(eng.err = "ok" /\ collected > 0)
    BY <1>1, <1>2, FailsInv DEF EngineEnds
  <1>3. CASE eng.err = "ok" /\ collected > 0
    <2>1. pc' = "done" /\ result' = "OK" /\ ep' = "closed" /\ outLen' = collected
      BY <1>3 DEF EngineEnds, Succeeds
    <2>2. records = <<>> /\ eng.plain = 0
      BY <1>3 DEF IInv, Drive, Sane, LastWord
    <2>3. Rest = 0
      BY <1>3, <2>2, WeighsNothing DEF IInv, Summed
    <2>4. response = collected /\ collected \in Nat /\ collected < OutCap
      BY <1>1, <2>2, <2>3 DEF IInv, Rest, Wire, Calls
    <2>5. outLen' = Least(response', OutCap)
      BY <1>1, <2>1, <2>4 DEF Least, StreamVars
    <2>6. Calls' /\ Drive'
      BY <1>1, <2>1 DEF IInv, Calls, Drive, Sane, Holding, Looping, StreamVars
    <2>7. ReturnsTheWhole'
      BY <2>1, <2>5 DEF ReturnsTheWhole
    <2> QED BY <1>1, <2>6, <2>7, StreamKeeps DEF IInv
  <1> QED BY <1>2, <1>3

LEMMA GivesRequestInv == IInv /\ GivesRequest => IInv'
  <1> SUFFICES ASSUME IInv, GivesRequest PROVE IInv'
    OBVIOUS
  <1> DEFINE k == Least(Request - requestSent, MaxOut)
  <1>1. k \in 0..MaxOut
    BY Sizes DEF IInv, Calls, GivesRequest, Gives, Least
  <1> HIDE DEF k
  <1>2. /\ eng' = Ssl!SendAppAck(eng, k) /\ requestSent' = requestSent + k /\ pc = "loop"
        /\ UNCHANGED <<pc, collected, result, outLen, ep, queued, transit, records, wired,
                       response, answered, ended>>
    BY DEF GivesRequest, InLoop, CallOnly, k
  <1>3. /\ Sane(eng') /\ eng'.err = eng.err /\ eng'.got = eng.got /\ eng'.plain = eng.plain
        /\ eng'.notified = eng.notified /\ eng'.program = eng.program
    BY <1>1, <1>2, GiveAck DEF IInv, Drive
  <1>4. eng.program = "main"
    <2>1. eng.app = 1
      BY DEF GivesRequest, Gives, Ssl!SendApp
    <2> QED BY <2>1 DEF IInv, Drive, Sane
  <1>5. Calls'
    BY <1>1, <1>2 DEF IInv, Calls
  <1>6. Drive' /\ Wire' /\ ReturnsTheWhole'
    BY <1>2, <1>3 DEF IInv, Drive, Wire, ReturnsTheWhole
  <1>7. LastWord' /\ Greetings'
    BY <1>2, <1>3, <1>4 DEF IInv, LastWord, Greetings
  <1>8. Sized' /\ Summed'
    BY <1>2, <1>3 DEF IInv, Sized, Units, Summed, Rest
  <1> QED BY <1>5, <1>6, <1>7, <1>8 DEF IInv

LEMMA TakesResponseInv == IInv /\ TakesResponse => IInv'
  <1> SUFFICES ASSUME IInv, TakesResponse PROVE IInv'
    OBVIOUS
  <1> DEFINE k == Least(eng.plain, OutCap - collected)
  <1>1. /\ eng.plain \in Nat /\ collected \in Nat /\ response \in Nat /\ collected < OutCap
        /\ eng.err = "none" /\ pc = "loop"
    BY DEF IInv, Calls, Drive, Sane, Wire, Ssl!Engine, TakesResponse, InLoop, Takes,
       Ssl!IsClosed
  <1>2. k \in 0..eng.plain /\ k \in Nat /\ collected + k <= OutCap
    BY <1>1, Sizes DEF Least
  <1> HIDE DEF k
  <1>3. /\ eng' = Ssl!RecvAppAck(eng, k) /\ collected' = collected + k
        /\ UNCHANGED <<requestSent, queued, transit, records, wired, response, answered, ended>>
        /\ IF collected + k = OutCap
           THEN Succeeds /\ outLen' = OutCap
           ELSE UNCHANGED <<pc, result, outLen, ep>>
    BY DEF TakesResponse, CallOnly, k
  <1>4. /\ Sane(eng') /\ eng'.err = eng.err /\ eng'.got = eng.got
        /\ eng'.plain = eng.plain - k /\ eng'.notified = eng.notified
        /\ eng'.program = eng.program /\ eng'.unsent = eng.unsent
    BY <1>2, <1>3, TakeAck DEF IInv, Drive
  <1>5. Rest' = Rest /\ Rest \in Nat
    <2>1. Rest \in Nat
      BY <1>1 DEF IInv, Summed
    <2>2. response - (collected + k) - (eng.plain - k) = response - collected - eng.plain
      BY <1>1, <1>2
    <2> QED BY <1>3, <1>4, <2>1, <2>2 DEF Rest
  <1>6. Calls'
    <2>1. collected + k \in Nat /\ (collected + k # OutCap => collected + k < OutCap)
      BY <1>1, <1>2, Sizes
    <2>2. CASE collected + k = OutCap
      BY <1>3, <2>1, <2>2 DEF IInv, Calls, Succeeds, Holding, Looping
    <2>3. CASE collected + k # OutCap
      BY <1>3, <2>1, <2>3 DEF IInv, Calls
    <2> QED BY <2>2, <2>3
  <1>7. Drive'
    BY <1>1, <1>3, <1>4 DEF IInv, Drive, Succeeds
  <1>8. Wire' /\ Greetings'
    BY <1>3, <1>4 DEF IInv, Wire, Greetings
  <1>9. LastWord'
    <2>1. eng.plain > 0
      BY DEF TakesResponse, Takes, Ssl!RecvApp
    <2>2. ~eng.notified
      BY <2>1 DEF IInv, LastWord
    <2> QED BY <1>3, <1>4, <2>2 DEF IInv, LastWord
  <1>10. Sized' /\ Summed'
    BY <1>3, <1>4, <1>5 DEF IInv, Sized, Units, Summed
  <1>11. ReturnsTheWhole'
    <2>1. CASE collected + k = OutCap
      <3>1. response >= OutCap
        BY <1>1, <1>2, <1>5, <2>1 DEF Rest
      <3>2. Least(response', OutCap) = OutCap
        BY <1>1, <1>3, <3>1, Sizes DEF Least
      <3> QED BY <1>3, <2>1, <3>2 DEF Succeeds, ReturnsTheWhole
    <2>2. CASE collected + k # OutCap
      BY <1>1, <1>3, <2>2 DEF ReturnsTheWhole
    <2> QED BY <2>1, <2>2
  <1> QED BY <1>6, <1>7, <1>8, <1>9, <1>10, <1>11 DEF IInv

LEMMA BlocksInv == IInv /\ Blocks => IInv'
  <1> SUFFICES ASSUME IInv, Blocks PROVE IInv'
    OBVIOUS
  <1>1. UNCHANGED StreamVars /\ UNCHANGED <<requestSent, result, outLen, ep>> /\ pc = "loop"
    BY DEF Blocks, InLoop, CallOnly, StreamVars
  <1>2. /\ pc' \in {"snd", "rcv"}
        /\ pc' = "snd" => eng.err = "none" /\ eng.unsent > 0
        /\ pc' = "rcv" => eng.err = "none" /\ eng.unsent = 0 /\ eng.plain = 0
    <2>1. eng.unsent \in Nat
      BY DEF IInv, Drive, Sane, Ssl!Engine
    <2> QED BY <2>1 DEF Blocks, InLoop, Ssl!SendRec, Ssl!RecvRec, Ssl!IsClosed
  <1>3. Calls'
    BY <1>1, <1>2 DEF IInv, Calls, Holding, Looping, StreamVars
  <1>4. Drive' /\ ReturnsTheWhole'
    BY <1>1, <1>2 DEF IInv, Drive, Sane, ReturnsTheWhole, StreamVars
  <1> QED BY <1>1, <1>3, <1>4, StreamKeeps DEF IInv

LEMMA ReceivesNothingInv == IInv /\ ReceivesNothing => IInv'
  <1> SUFFICES ASSUME IInv, ReceivesNothing PROVE IInv'
    OBVIOUS
  <1>1. /\ UNCHANGED StreamVars /\ UNCHANGED <<requestSent, result, outLen, ep>>
        /\ pc = "rcv" /\ pc' = "loop"
    BY DEF ReceivesNothing, CallOnly, StreamVars
  <1>2. Calls'
    BY <1>1 DEF IInv, Calls, Holding, Looping, StreamVars
  <1>3. Drive' /\ ReturnsTheWhole'
    BY <1>1 DEF IInv, Drive, Sane, ReturnsTheWhole, StreamVars
  <1> QED BY <1>1, <1>2, <1>3, StreamKeeps DEF IInv

LEMMA SendsInv == IInv /\ Sends => IInv'
  <1> SUFFICES ASSUME IInv, Sends PROVE IInv'
    OBVIOUS
  <1>1. PICK k \in 1..eng.unsent :
          /\ eng' = Ssl!SendRecAck(eng, k)
          /\ wired' = IF k = eng.unsent THEN wired + 1 ELSE wired
    BY DEF Sends
  <1>2. /\ pc = "snd" /\ pc' = "loop" /\ eng.err = "none" /\ eng.unsent \in Nat
        /\ UNCHANGED <<requestSent, collected, result, outLen, ep, queued, transit, records,
                       response, answered, ended>>
    BY DEF Sends, CallOnly, IInv, Drive, Sane, Ssl!Engine
  <1>3. /\ Sane(eng') /\ eng'.got = eng.got /\ eng'.plain = eng.plain
        /\ eng'.notified = eng.notified /\ eng'.err # "error"
        /\ eng.program \notin {"room", "closing"} =>
               eng'.program = eng.program /\ eng'.unsent = eng.unsent - k
    BY <1>1, <1>2, SendAck DEF IInv, Drive
  <1>4. Calls'
    BY <1>2 DEF IInv, Calls, Holding, Looping
  <1>5. Drive' /\ ReturnsTheWhole'
    BY <1>2, <1>3 DEF Drive, ReturnsTheWhole
  <1>6. wired \in Nat /\ wired' \in Nat
    BY <1>1 DEF IInv, Wire
  <1>7. Wire'
    BY <1>2, <1>6 DEF IInv, Wire
  <1>8. LastWord'
    BY <1>2, <1>3 DEF IInv, LastWord
  <1>9. Greetings'
    <2>1. CASE eng.program \in {"room", "closing"}
      <3>1. eng'.program \notin {"hello", "finished", "main"} /\ records' = <<>>
        BY <1>2, <1>3, <2>1 DEF IInv, LastWord, Drive, Sane
      <3> QED BY <3>1 DEF Greetings
    <2>2. CASE eng.program \notin {"room", "closing"}
      <3>1. /\ eng.program = "hello" => wired = 0
            /\ eng'.program = "hello" => wired' <= 1 /\ (eng'.unsent > 0 => wired' = 0)
        BY <1>1, <1>2, <1>3, <1>6, <2>2 DEF IInv, Drive, Greetings
      <3> QED BY <1>2, <1>3, <2>2, <3>1 DEF IInv, Greetings
    <2> QED BY <2>1, <2>2
  <1>10. Sized' /\ Summed'
    BY <1>2, <1>3 DEF IInv, Sized, Units, Summed, Rest
  <1> QED BY <1>4, <1>5, <1>7, <1>8, <1>9, <1>10 DEF IInv

(* How much of the record OTRcv is asked for.                              *)
LEMMA WantedBounds ==
    ASSUME NEW e, Sane(e), NEW r \in Record, e.got < Ssl!Size(r), queued \in Nat, queued > 0
    PROVE  LET k == Least(queued, Ssl!Wanted(e, r)) IN
           /\ k \in Nat /\ k > 0 /\ k <= queued /\ e.got \in Nat
           /\ ~Ssl!Completes(e, r, k) => e.got + k < Ssl!Size(r)
           /\ Ssl!Completes(e, r, k) => e.got + k = Ssl!Size(r)
  <1>1. /\ e.got \in Nat /\ r.n \in Nat /\ r.n > 0 /\ Ssl!Size(r) = HeaderSize + r.n
        /\ HeaderSize \in Nat
    BY Weights, Sizes DEF Sane, Ssl!Engine
  <1>2. CASE e.got < HeaderSize
    BY <1>1, <1>2 DEF Least, Ssl!Wanted, Ssl!Completes
  <1>3. CASE e.got >= HeaderSize
    BY <1>1, <1>3 DEF Least, Ssl!Wanted, Ssl!Completes
  <1> QED BY <1>1, <1>2, <1>3

(* br_ssl_engine_recvrec_ack in the middle of a record, and at its end.    *)
LEMMA ReceivesInv == IInv /\ Receives => IInv'
  <1> SUFFICES ASSUME IInv, Receives PROVE IInv'
    OBVIOUS
  <1> DEFINE r == Head(records)
             k == Least(queued, Ssl!Wanted(eng, r))
             w == Ssl!Completes(eng, r, k)
  <1>1. /\ eng' = Ssl!RecvRecAck(eng, r, k) /\ queued' = queued - k
        /\ records' = IF w THEN Tail(records) ELSE records
        /\ pc = "rcv" /\ pc' = "loop" /\ queued > 0
        /\ UNCHANGED <<requestSent, collected, result, outLen, ep, transit, response, answered,
                       ended, wired>>
    BY DEF Receives, CallOnly
  <1>2. /\ Sane(eng) /\ eng.err = "none" /\ eng.unsent = 0 /\ eng.plain = 0 /\ eng.got \in Nat
        /\ queued \in Nat /\ transit \in Nat /\ records \in Seq(Record)
    BY <1>1 DEF IInv, Drive, Wire, Sane, Ssl!Engine
  <1>3. PICK m \in Nat : Weighs(SizeOf, records, m) /\ m >= Units
    BY DEF IInv, Sized
  <1>4. records # <<>>
    <2>1. m > 0
      BY <1>1, <1>2, <1>3 DEF Units
    <2> QED BY <1>3, <2>1, WeighsNothing
  <1>5. /\ r \in Record /\ r = records[1] /\ Tail(records) \in Seq(Record)
        /\ Len(records) \in Nat \ {0} /\ Len(Tail(records)) = Len(records) - 1
        /\ \A i \in 1..(Len(records) - 1) : Tail(records)[i] = records[i + 1]
    BY <1>2, <1>4, HeadTailProperties, EmptySeq
  <1>6. /\ k \in Nat /\ k > 0 /\ k <= queued
        /\ ~w => eng.got + k < Ssl!Size(r)
        /\ w => eng.got + k = Ssl!Size(r)
    BY <1>1, <1>2, <1>4, <1>5, WantedBounds DEF IInv, Sized
  <1>7. ~eng.notified
    BY <1>4 DEF IInv, LastWord
  <1>8. Ssl!Size(r) \in Nat /\ SizeOf[r] = Ssl!Size(r) /\ DataOf[r] = IF r.kind = "data" THEN r.n ELSE 0
    BY <1>5, Weights
  <1> HIDE DEF r, k, w
  <1>9. queued - k \in Nat
    BY <1>2, <1>6
  <1>10. Calls'
    BY <1>1 DEF IInv, Calls, Holding, Looping
  <1>11. ReturnsTheWhole'
    BY <1>1 DEF ReturnsTheWhole
  <1>12. CASE ~w
    <2>1. eng' = [eng EXCEPT !.got = eng.got + k] /\ Sane(eng') /\ records' = records
      BY <1>1, <1>2, <1>5, <1>6, <1>12, PartAck DEF w
    <2>2. eng \in Ssl!Engine
      BY <1>2 DEF Sane
    <2>3. /\ eng'.got = eng.got + k /\ eng'.err = "none" /\ eng'.plain = 0
          /\ eng'.notified = eng.notified /\ eng'.program = eng.program
          /\ eng'.unsent = eng.unsent
      BY <1>2, <2>1, <2>2 DEF Ssl!Engine
    <2>4. Drive' /\ Wire'
      BY <1>1, <1>9, <2>1 DEF IInv, Drive, Wire
    <2>5. LastWord' /\ Greetings'
      BY <1>1, <1>2, <2>1, <2>3 DEF IInv, LastWord, Greetings
    <2>6. Units' = Units
      BY <1>1, <1>2, <1>6, <2>3 DEF Units
    <2>7. Sized'
      BY <1>3, <1>6, <1>12, <2>1, <2>3, <2>6 DEF Sized, r
    <2>8. Summed'
      BY <1>1, <1>2, <2>1, <2>3 DEF IInv, Summed, Rest
    <2> QED BY <1>10, <1>11, <2>4, <2>5, <2>7, <2>8 DEF IInv
  <1>13. CASE w
    <2> DEFINE d == [eng EXCEPT !.got = 0]
    <2>1. /\ eng' = Ssl!Received(d, r) /\ records' = Tail(records)
          /\ Sane(d) /\ d.err = "none" /\ d.got = 0 /\ d.plain = 0
          /\ d.notified = eng.notified /\ d.program = eng.program /\ d.unsent = 0
      BY <1>1, <1>2, <1>5, <1>13, WholeAck DEF w
    <2> HIDE DEF d
    <2>2. /\ Sane(eng') /\ eng'.got = 0
          /\ r.kind = "data" =>
                 /\ eng'.program = eng.program /\ eng'.notified = eng.notified
                 /\ eng'.unsent = 0
                 /\ eng'.err = "error" \/ (eng'.err = "none" /\ eng'.plain = r.n)
          /\ r.kind = "hello" =>
                 /\ eng'.plain = 0 /\ eng'.err = "none" /\ ~eng'.notified
                 /\ \/ eng.program = "hello" /\ eng'.program = "finished" /\ answered = 1
                    \/ eng.program = "finished" /\ eng'.program = "main" /\ answered = 2
          /\ r.kind = "warning" => eng' = d
          /\ r.kind = "fatal" => eng'.err = "error" /\ eng'.plain = 0 /\ eng'.program = eng.program
          /\ r.kind = "notify" => eng'.err # "error" /\ eng'.plain = 0 /\ eng'.notified
      <3>1. r.kind \in {"data", "hello", "warning", "fatal", "notify"}
        BY <1>5 DEF Record, Ssl!Kinds
      <3>2. CASE r.kind = "data"
        BY <1>5, <2>1, <3>2, DataAck
      <3>3. CASE r.kind = "hello"
        <4>1. \/ eng.program = "hello" /\ answered = 1
              \/ eng.program = "finished" /\ answered = 2
          <5>1. 1 \in 1..Len(records) /\ records[1].kind = "hello"
            BY <1>5, <3>3
          <5> QED BY <1>2, <5>1 DEF IInv, Greetings
        <4> QED BY <1>5, <2>1, <3>3, <4>1, HelloAck
      <3>4. CASE r.kind \in {"warning", "fatal", "notify"}
        BY <1>5, <1>7, <2>1, <3>4, AlertAck
      <3> QED BY <3>1, <3>2, <3>3, <3>4
    <2>3. r.kind \in {"data", "hello", "warning", "fatal", "notify"}
      BY <1>5 DEF Record, Ssl!Kinds
    <2>4. Drive' /\ Wire'
      BY <1>1, <1>5, <1>9, <2>1, <2>2 DEF IInv, Drive, Wire
    <2>5. ASSUME NEW i \in 1..Len(records')
          PROVE  /\ i + 1 \in 1..Len(records) /\ records'[i] = records[i + 1]
                 /\ i + 1 = Len(records) => i = Len(records')
                 /\ i + 1 # 1 /\ i \in Nat
      BY <1>5, <2>1
    <2>6. LastWord'
      <3>1. ASSUME NEW i \in 1..Len(records'), records'[i].kind \in {"notify", "fatal"}
            PROVE  i = Len(records') /\ ended' # "open"
        BY <1>1, <2>5, <3>1 DEF IInv, LastWord
      <3>2. ASSUME eng'.notified
            PROVE  records' = <<>> /\ eng'.plain = 0 /\ ended' # "open"
        <4>1. CASE r.kind = "notify"
          <5>1. 1 \in 1..Len(records) /\ records[1].kind = "notify"
            BY <1>5, <4>1
          <5>2. Len(records) = 1 /\ ended # "open"
            BY <5>1 DEF IInv, LastWord
          <5>3. records' = <<>>
            BY <1>5, <2>1, <5>2, EmptySeq
          <5> QED BY <1>1, <2>2, <4>1, <5>2, <5>3
        <4>2. CASE r.kind = "fatal"
          <5>1. ~eng'.notified
            BY <1>7, <2>1, <2>2, <4>2 DEF Sane
          <5> QED BY <3>2, <5>1
        <4>3. CASE r.kind \in {"data", "hello", "warning"}
          BY <1>7, <2>1, <2>2, <3>2, <4>3
        <4> QED BY <2>3, <4>1, <4>2, <4>3
      <3> QED BY <3>1, <3>2 DEF LastWord
    <2>7. Greetings'
      <3>1. CASE r.kind = "hello"
        <4>1. \A i \in 1..Len(records') : records'[i].kind # "hello"
          <5> SUFFICES ASSUME NEW i \in 1..Len(records'), records'[i].kind = "hello"
                       PROVE  FALSE
            OBVIOUS
          <5>1. 1 \in 1..Len(records) /\ records[1].kind = "hello"
            BY <1>5, <3>1
          <5>2. i + 1 = 1
            BY <1>2, <2>5, <5>1 DEF IInv, Greetings
          <5> QED BY <2>5, <5>2
        <4>2. \/ eng'.program = "finished" /\ answered' = 1
              \/ eng'.program = "main" /\ answered' = 2
          BY <1>1, <2>2, <3>1
        <4>3. /\ eng'.program # "hello"
              /\ eng'.program = "finished" => answered' >= 1
              /\ eng'.program = "main" => answered' = 2
          BY <4>2
        <4> QED BY <4>1, <4>3 DEF Greetings
      <3>2. CASE r.kind = "notify"
        <4>1. eng'.program \notin {"hello", "finished", "main"}
          BY <2>2, <3>2 DEF Sane
        <4>2. records' = <<>>
          BY <2>2, <2>6, <3>2 DEF LastWord
        <4> QED BY <4>1, <4>2 DEF Greetings
      <3>3. CASE r.kind \in {"data", "warning", "fatal"}
        <4>1. eng'.program = eng.program /\ (eng'.err # "error" => eng'.unsent = 0)
              /\ (eng.program = "hello" => wired <= 1 /\ answered <= 1)
          BY <2>1, <2>2, <3>3 DEF IInv, Greetings
        <4>2. eng.program = "hello" => (eng'.unsent > 0 => wired = 0)
          <5>1. CASE r.kind = "fatal"
            BY <1>2, <1>5, <2>1, <5>1 DEF Ssl!Received, Ssl!Alert, Ssl!Fail, Sane, Ssl!Engine
          <5>2. CASE r.kind # "fatal"
            BY <2>1, <2>2, <3>3, <5>2
          <5> QED BY <5>1, <5>2
        <4>3. ASSUME NEW i \in 1..Len(records'), records'[i].kind = "hello"
              PROVE  \/ eng.program = "hello" /\ answered = 1
                     \/ eng.program = "finished" /\ answered = 2
          BY <1>2, <2>5, <4>3 DEF IInv, Greetings
        <4>4. ASSUME NEW i \in 1..Len(records'), NEW j \in 1..Len(records'),
                     records'[i].kind = "hello", records'[j].kind = "hello"
              PROVE  i = j
          <5>1. i + 1 = j + 1
            BY <1>2, <2>5, <4>4 DEF IInv, Greetings
          <5> QED BY <2>5, <5>1
        <4> QED BY <1>1, <4>1, <4>2, <4>3, <4>4 DEF IInv, Greetings
      <3> QED BY <2>3, <3>1, <3>2, <3>3
    <2>8. Sized'
      <3>1. Weighs(SizeOf, records', m - Ssl!Size(r)) /\ Ssl!Size(r) <= m
        BY <1>2, <1>3, <1>4, <1>8, <2>1, WeighsTail, Weights DEF r
      <3>2. Units' = Units - Ssl!Size(r) /\ Units \in Nat
        BY <1>1, <1>2, <1>6, <1>8, <1>13, <2>2 DEF Units
      <3>3. m - Ssl!Size(r) \in Nat /\ m - Ssl!Size(r) >= Units'
        BY <1>3, <1>8, <3>1, <3>2
      <3>4. records' # <<>> => eng'.got < Ssl!Size(Head(records'))
        <4>1. records' # <<>> => Head(records') \in Record
          BY <1>5, <2>1, HeadTailProperties
        <4> QED BY <2>2, <4>1, Weights, Sizes
      <3> QED BY <3>1, <3>3, <3>4 DEF Sized
    <2>9. Summed'
      <3> SUFFICES ASSUME eng'.err # "error"
                   PROVE  Rest' \in Nat /\ Weighs(DataOf, records', Rest')
        BY DEF Summed
      <3>1. Rest \in Nat /\ Weighs(DataOf, records, Rest)
        BY <1>2 DEF IInv, Summed
      <3>2. /\ DataOf[r] \in Nat /\ DataOf[r] <= Rest
            /\ Weighs(DataOf, records', Rest - DataOf[r])
        BY <1>2, <1>4, <2>1, <3>1, WeighsTail, Weights DEF r
      <3>3. eng'.plain = DataOf[r]
        BY <1>8, <2>1, <2>2, <2>3
      <3>4. response \in Nat /\ collected \in Nat
        BY DEF IInv, Wire, Calls
      <3>5. Rest' = Rest - DataOf[r]
        BY <1>1, <1>2, <3>2, <3>3, <3>4 DEF Rest
      <3> QED BY <3>1, <3>2, <3>5
    <2> QED BY <1>10, <1>11, <2>4, <2>6, <2>7, <2>8, <2>9 DEF IInv
  <1> QED BY <1>12, <1>13

-----------------------------------------------------------------------------
LEMMA NextInv == IInv /\ [Next]_vars => IInv'
  <1> SUFFICES ASSUME IInv, [Next]_vars PROVE IInv'
    OBVIOUS
  <1>1. CASE UNCHANGED vars
    <2>1. UNCHANGED callVars /\ UNCHANGED StreamVars /\ UNCHANGED response
      BY <1>1 DEF vars, StreamVars
    <2> QED BY <2>1, WaitKeeps, StreamKeeps DEF IInv
  <1>2. CASE Outside
    BY <1>2, TickInv, PeerSendsInv, UnitsInv, Zenon DEF Outside
  <1>3. CASE Begin
    BY <1>3, SetupFailsInv, SetupPassesInv, Zenon DEF Begin
  <1>4. CASE Loop
    BY <1>4, TimesOutInv, EngineEndsInv, GivesRequestInv, TakesResponseInv, BlocksInv,
       SendsInv, ReceivesInv, ReceivesNothingInv, CallFailsInv, Zenon DEF Loop
  <1> QED BY <1>1, <1>2, <1>3, <1>4, Zenon DEF Next

(* OSTLS_Fetch (os9/ostls_fetch.c) returns OK only with everything the     *)
(* server sent before its close_notify, or with out_cap bytes; a FIN, an   *)
(* abort or a failing call in the middle is never taken for the end, and   *)
(* the provider is closed on every way out.                                *)
THEOREM WholeOrError == Spec => []ReturnsTheWhole
  <1>1. Init => IInv
    BY InitInv
  <1>2. IInv /\ [Next]_vars => IInv'
    BY NextInv
  <1>3. IInv => ReturnsTheWhole
    BY DEF IInv
  <1> QED BY <1>1, <1>2, <1>3, PTL DEF Spec

-----------------------------------------------------------------------------
(* The deadline.                                                           *)

(* Until the limit is over, a deadline that did not wrap is as far ahead as*)
(* the rest of the limit.                                                  *)
Clock ==
    /\ now \in 0..(Wrap - 1) /\ deadline \in 0..(Wrap - 1) /\ elapsed \in Nat
    /\ pc \in Before => elapsed = 0
    /\ pc \in Looping /\ deadline >= Limit /\ elapsed <= Limit =>
           now = deadline - Limit + elapsed
    /\ result = "timeout" => pc = "done"

CInv == Clock /\ TimeoutIsLate

LEMMA InitClock == Init => CInv
  BY Sizes DEF Init, CInv, Clock, TimeoutIsLate, Before, Looping

LEMMA NextClock == CInv /\ [Next]_vars => CInv'
  <1> SUFFICES ASSUME CInv, [Next]_vars PROVE CInv'
    OBVIOUS
  <1>1. CASE Tick
    <2>1. pc \in Looping /\ pc' = pc /\ elapsed <= Limit /\ elapsed' = elapsed + 1
          /\ now' = (now + 1) % Wrap /\ UNCHANGED <<deadline, result>>
      BY <1>1 DEF Tick, OutsideOnly, Looping
    <2>2. now + 1 < Wrap => now' = now + 1
      BY <2>1, Sizes DEF CInv, Clock
    <2>3. now' \in 0..(Wrap - 1)
      BY <2>1, Sizes DEF CInv, Clock
    <2>4. Clock'
      BY <2>1, <2>2, <2>3, Sizes DEF CInv, Clock, Before, Looping
    <2>5. TimeoutIsLate'
      BY <2>1 DEF CInv, Clock, TimeoutIsLate, Looping
    <2> QED BY <2>4, <2>5 DEF CInv
  <1>2. CASE UNCHANGED vars \/ PeerSends \/ Arrive \/ PeerReleases \/ PeerAborts
    <2>1. UNCHANGED <<pc, now, deadline, elapsed, result>>
      BY <1>2 DEF vars, PeerSends, Arrive, PeerReleases, PeerAborts, OutsideOnly
    <2> QED BY <2>1 DEF CInv, Clock, TimeoutIsLate
  <1>3. CASE SetupFails
    <2>1. PICK i \in 1..9 : pc = Setup[i] /\ Fails(Setup[i])
      BY <1>3 DEF SetupFails, SetupAt, Setup
    <2>2. i = 1 \/ i = 2 \/ i = 3 \/ i = 4 \/ i = 5 \/ i = 6 \/ i = 7 \/ i = 8 \/ i = 9
      BY <2>1
    <2>3. result' # "timeout" /\ pc' = "done" /\ UNCHANGED <<now, deadline, elapsed>>
      BY <1>3, <2>1, <2>2 DEF Setup, SetupFails, Fails, CallOnly
    <2> QED BY <2>3 DEF CInv, Clock, TimeoutIsLate, Before, Looping
  <1>4. CASE SetupPasses /\ SetDeadline
    <2>1. UNCHANGED <<now, elapsed, result>> /\ elapsed = 0 /\ result # "timeout"
      BY <1>4, SetupChain DEF SetupPasses, CallOnly, CInv, Clock, Before
    <2>2. CASE pc # "reset"
      <3>1. pc' \in Before /\ UNCHANGED deadline
        BY <1>4, <2>2, SetupChain DEF Before, SetDeadline
      <3> QED BY <2>1, <3>1 DEF CInv, Clock, TimeoutIsLate, Before, Looping
    <2>3. CASE pc = "reset"
      <3>1. pc' = "loop" /\ deadline' = (now + Limit) % Wrap
        BY <1>4, <2>3, SetupChain DEF SetDeadline, Deadline
      <3>2. now + Limit < Wrap => deadline' = now + Limit
        BY <3>1, Sizes DEF CInv, Clock
      <3>3. now + Limit >= Wrap => deadline' = now + Limit - Wrap
        BY <3>1, Sizes DEF CInv, Clock
      <3>4. deadline' \in 0..(Wrap - 1)
        BY <3>1, Sizes DEF CInv, Clock
      <3> QED BY <2>1, <3>1, <3>2, <3>3, <3>4, Sizes
              DEF CInv, Clock, TimeoutIsLate, Before, Looping
    <2> QED BY <2>2, <2>3
  <1>5. CASE TimesOut
    <2>1. pc = "loop" /\ now > deadline /\ pc' = "done" /\ UNCHANGED <<now, deadline, elapsed>>
      BY <1>5 DEF TimesOut, Late, Fails, CallOnly
    <2>2. elapsed > Limit \/ deadline < Limit
      BY <2>1, Sizes DEF CInv, Clock, Looping
    <2> QED BY <2>1, <2>2 DEF CInv, Clock, TimeoutIsLate, Before, Looping
  <1>6. CASE EngineEnds \/ GivesRequest \/ TakesResponse \/ Blocks \/ Sends \/ Receives
             \/ ReceivesNothing \/ CallFails
    <2>1. /\ pc \in Looping /\ pc' \in Looping \cup {"done"}
          /\ UNCHANGED <<now, deadline, elapsed>>
          /\ UNCHANGED result \/ (result' # "timeout" /\ pc' = "done")
      BY <1>6 DEF EngineEnds, GivesRequest, TakesResponse, Blocks, Sends, Receives,
         ReceivesNothing, CallFails, GivesUp, Fails, Succeeds, InLoop, CallOnly, Looping
    <2> QED BY <2>1 DEF CInv, Clock, TimeoutIsLate, Before, Looping
  <1> QED BY <1>1, <1>2, <1>3, <1>4, <1>5, <1>6, Zenon DEF Next, Outside, Begin, Loop

(* The deadline of OSTLS_Fetch: with a tick count that does not wrap in the*)
(* minute, the call never gives up before the minute is over.              *)
THEOREM NeverEarly == Spec => []TimeoutIsLate
  <1>1. Init => CInv
    BY InitClock
  <1>2. CInv /\ [Next]_vars => CInv'
    BY NextClock
  <1>3. CInv => TimeoutIsLate
    BY DEF CInv
  <1> QED BY <1>1, <1>2, <1>3, PTL DEF Spec

=============================================================================

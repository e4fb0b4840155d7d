------------------------------ MODULE SslEngine ------------------------------
(***************************************************************************)
(* The BearSSL engine of a client (os9/ssl_engine_cw8.c, the handshake     *)
(* program bearssl/src/ssl/ssl_hs_common.t0), as the TLS 1.2 connection and*)
(* the blocking fetch drive it: a record being received, its plaintext, a  *)
(* record being sent, and the handshake program, which also answers alerts *)
(* and closes the session.  Every operator takes an engine and returns one.*)
(*                                                                         *)
(* The two buffers are disjoint (set_buffer with bidi = 1).  Payload given *)
(* to the engine is sealed at once: its users flush, or fill the record.   *)
(* The server does not renegotiate, and an alert is a record of its own.   *)
(***************************************************************************)
EXTENDS Integers

CONSTANTS
    HeaderSize,   (* units of a record header                              *)
    MaxOut        (* plaintext the largest outgoing record takes           *)

Kinds == {"data", "hello", "warning", "fatal", "notify"}
Size(r) == HeaderSize + r.n

(* Where the handshake program waits: for ServerHello to ServerHelloDone,  *)
(* for Finished, in main's loop, for room to write close_notify, for it to *)
(* be gone and the peer's to come.                                         *)
Programs == {"hello", "finished", "main", "room", "closing"}

Engine == [
    err     : {"none", "ok", "error"},  (* br_ssl_engine_fail was called   *)
    program : Programs,
    app     : 0..2,                     (* application_data                *)
    shut    : BOOLEAN,                  (* shutdown_recv                   *)
    notified : BOOLEAN,                 (* do-close's cnr                  *)
    got     : Nat,                      (* ixa of an unfinished record     *)
    plain   : Nat,                      (* ixb - ixa of a decrypted one    *)
    flight  : 0..MaxOut,                (* payload of the sealed record    *)
    unsent  : Nat ]                     (* oxc - oxa of the sealed record  *)

SealedData(e, n)   == [e EXCEPT !.unsent = HeaderSize + n, !.flight = n]
SealedMessage(e)   == [e EXCEPT !.unsent = HeaderSize + 1, !.flight = 0]

(* br_ssl_client_reset: the ClientHello is ready to be sent.               *)
Reset == SealedMessage([err |-> "none", program |-> "hello", app |-> 0, shut |-> FALSE,
                        notified |-> FALSE, got |-> 0, plain |-> 0,
                        flight |-> 0, unsent |-> 0])

(* The handshake is over and nothing has moved.                            *)
Established == [Reset EXCEPT !.program = "main", !.app = 1, !.unsent = 0]

-----------------------------------------------------------------------------
(* br_ssl_engine_current_state: BR_SSL_CLOSED, SENDREC, RECVREC, SENDAPP   *)
(* and RECVAPP.                                                            *)

IsClosed(e) == e.err # "none"
SendRec(e)  == ~IsClosed(e) /\ e.unsent > 0
RecvRec(e)  == ~IsClosed(e) /\ ~e.shut /\ e.plain = 0
SendApp(e)  == ~IsClosed(e) /\ e.app = 1 /\ e.unsent = 0
RecvApp(e)  == ~IsClosed(e) /\ e.app = 1 /\ e.plain > 0

Fail(e, why) == [e EXCEPT !.err = why]

-----------------------------------------------------------------------------
(* The handshake program, run until it waits again.                        *)

(* Variant: room is not waited for.                                        *)
ClosingAtOnce(e) ==
    IF e.program = "room" THEN [SealedMessage(e) EXCEPT !.program = "closing"]
    ELSE IF e.unsent = 0 /\ e.notified THEN Fail(e, "ok")
    ELSE e

(* wait-for-close and the two loops of do-close: close_notify is written   *)
(* when there is room; the session ends when it is gone and the peer's has *)
(* come.                                                                   *)
Closing(e) ==
    IF e.unsent > 0 THEN e
    ELSE IF e.program = "room" THEN [SealedMessage(e) EXCEPT !.program = "closing"]
    ELSE IF e.notified THEN Fail(e, "ok")
    ELSE e

(* do-close.  Data of the peer is discarded from now on (2), or no more is *)
(* expected (0).                                                           *)
DoClose(e, cnr) ==
    Closing([e EXCEPT !.program = "room", !.notified = cnr,
                      !.app = IF e.app = 1 /\ ~cnr THEN 2 ELSE 0])

IsClosing(e) == e.program \in {"room", "closing"}

(* An alert in front of the program.  A session being closed expects no    *)
(* data after any alert.                                                   *)
Alert(e, kind) ==
    LET heard == [e EXCEPT !.shut = kind = "notify"] IN
    CASE kind = "fatal" -> Fail(e, "error")
      [] kind # "fatal" /\ IsClosing(e) ->
             Closing([heard EXCEPT !.app = 0, !.notified = e.notified \/ kind = "notify"])
      [] kind = "warning" /\ ~IsClosing(e) -> e
      [] kind = "notify" /\ ~IsClosing(e)  -> DoClose(heard, TRUE)

(* A handshake record: the server's flight is answered when it is complete,*)
(* its Finished ends the handshake.                                        *)
Handshake(e) ==
    CASE e.program = "hello"    -> [SealedMessage(e) EXCEPT !.program = "finished"]
      [] e.program = "finished" -> [e EXCEPT !.program = "main", !.app = 1]
      [] IsClosing(e)           -> e

-----------------------------------------------------------------------------
(* The operations.                                                         *)

(* Variant: what arrived of the record is not counted.                     *)
WantedAgain(e, r) == IF e.got < HeaderSize THEN HeaderSize - e.got ELSE Size(r)

(* br_ssl_engine_recvrec_buf: first the header, then the record to its end.*)
Wanted(e, r) == IF e.got < HeaderSize THEN HeaderSize - e.got ELSE Size(r) - e.got

(* A whole record.                                                         *)
Received(e, r) ==
    CASE r.kind = "data" /\ (r.n = 0 \/ e.app = 2) -> e
      [] r.kind = "data" /\ r.n > 0 /\ e.app = 1   -> [e EXCEPT !.plain = r.n]
      [] r.kind = "data" /\ r.n > 0 /\ e.app = 0   -> Fail(e, "error")
      [] r.kind = "hello"                          -> Handshake(e)
      [] r.kind \in {"warning", "fatal", "notify"} -> Alert(e, r.kind)

(* br_ssl_engine_recvrec_ack of k units of the record r.                   *)
Completes(e, r, k) == e.got + k >= HeaderSize /\ e.got + k = Size(r)
RecvRecAck(e, r, k) ==
    IF Completes(e, r, k) THEN Received([e EXCEPT !.got = 0], r)
    ELSE [e EXCEPT !.got = e.got + k]

(* Variant: the program is not told that there is room again.              *)
SendRecAckQuiet(e, k) == [e EXCEPT !.unsent = e.unsent - k,
                                   !.flight = IF k = e.unsent THEN 0 ELSE e.flight]

(* br_ssl_engine_sendrec_ack of k > 0 units: the program runs when it may  *)
(* be waiting for room.                                                    *)
SendRecAck(e, k) ==
    LET left == [e EXCEPT !.unsent = e.unsent - k,
                          !.flight = IF k = e.unsent THEN 0 ELSE e.flight]
    IN IF left.unsent = 0 /\ IsClosing(e) THEN Closing(left) ELSE left

(* br_ssl_engine_recvapp_ack                                               *)
RecvAppAck(e, k) == [e EXCEPT !.plain = e.plain - k]

(* br_ssl_engine_sendapp_ack, and the flush.                               *)
SendAppAck(e, k) == SealedData(e, k)

(* br_ssl_engine_close: data the caller did not take is discarded.         *)
EngineClose(e) ==
    IF IsClosed(e) \/ IsClosing(e) THEN e
    ELSE DoClose([e EXCEPT !.plain = IF RecvApp(e) THEN 0 ELSE e.plain], FALSE)

=============================================================================

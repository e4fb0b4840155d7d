---------------------------- MODULE TLS13Handshake ----------------------------
(***************************************************************************)
(* The TLS 1.3 client of os9/ostls_tls13_handshake.c, stepped by           *)
(* pump_tls13_step, against a server that keeps RFC 8446: one ClientHello  *)
(* or two, a full handshake or a resumed one, the server's encrypted flight*)
(* packed into records, its Certificate cut across them anywhere behind the*)
(* message header.                                                         *)
(***************************************************************************)
EXTENDS TLS13Terms

CONSTANTS
    ChainSizes,     \* the sizes a server's Certificate message may have
    MaxFragment,    \* the most a record may carry: 2^14
    Overhead,       \* what sealing adds to it: type byte and tag
    BufSize         \* sizeof plain_buf, and sizeof msg_buf

ASSUME HandshakeAssumption ==
    /\ ChainSizes \subseteq 1..BufSize /\ ChainSizes # {}
    /\ MaxFragment \in Nat \ {0} /\ Overhead \in Nat \ {0}
    /\ BufSize \in Nat /\ BufSize >= MaxFragment + Overhead

VARIABLES
    c,          \* the client: tls13_hs_ctx, and the fields of the connection below
    s,          \* the server
    peer,       \* what kind of server it is; never changes
    toServer, toClient      \* the two directions of the TCP connection

vars == <<c, s, peer, toServer, toClient>>

None == <<"none">>
NoKey == FreshKey(None)
NoMessage == [type |-> "none"]
TheTicket == <<"ticket">>
ThePsk == <<"psk">>

Phases == {"SendClientHello", "RecvServerHello", "RecvEncryptedExtensions",
           "RecvCertRequestOrCert", "RecvCertificate", "RecvCertificateVerify",
           "RecvFinished", "SendFinished", "Complete"}
Encrypted == {"RecvEncryptedExtensions", "RecvCertRequestOrCert", "RecvCertificate",
              "RecvCertificateVerify", "RecvFinished"}

-------------------------------------------------------------------------------
(* Messages, and the records that carry them.                              *)

(* A message is a run of units, of which the first is its header.          *)
Size(m) == IF m.type = "Certificate" THEN m.size ELSE 1
Units(m) == [i \in 1..Size(m) |-> [msg |-> m, unit |-> i]]

Plain(m) == [type |-> "handshake", key |-> NoKey, data |-> Units(m)]
ChangeCipherSpec == [type |-> "ccs", key |-> NoKey, data |-> <<>>]
Alert == [type |-> "alert", key |-> NoKey, data |-> <<>>]
Sealed(key, units) == [type |-> "sealed", key |-> key, data |-> units]

(* The message at the front of the plaintext: the code takes as many bytes *)
(* as its header says, whatever they are.                                  *)
HasMessage(units) == units # <<>> /\ Len(units) >= Size(units[1].msg)
FrontMessage(units) ==
    LET m == units[1].msg IN
    IF SubSeq(units, 1, Size(m)) = Units(m) THEN m ELSE [type |-> "garbled"]
BehindMessage(units) == SubSeq(units, Size(units[1].msg) + 1, Len(units))

-------------------------------------------------------------------------------
(* The client.                                                             *)

NewClient(ticket) ==
    [phase |-> "SendClientHello", transcript |-> <<>>,
     offer |-> ticket,                                  \* offer_ticket, or None
     share |-> [group |-> "none", n |-> 0], hellos |-> 0,   \* the ECDHE key pair; how many so far
     hrrGroup |-> "none", hrrReceived |-> FALSE,
     random |-> 0, cookie |-> FALSE, accepted |-> FALSE, certRequest |-> FALSE,
     secret |-> None, clientSecret |-> None, serverSecret |-> None, resMaster |-> None,
     read |-> NoKey, write |-> NoKey,
     plain |-> <<>>,                                    \* unread part of plain_buf
     msg |-> NoMessage, unsent |-> FALSE, pending |-> FALSE, \* msg_buf and what it holds
     pkey |-> FALSE, recv |-> <<>>,                     \* the certificate's key; ssl_iobuf
     ticket |-> None, error |-> "none",
     outcome |-> "none"]                                \* what the connection made of it

Runs(phase) == c.outcome = "none" /\ ~ c.unsent /\ c.phase = phase

Failed(k, why) == [k EXCEPT !.error = why, !.outcome = "failed"]

(* A step that needs more bytes takes what has arrived.                    *)
Arrived(k) == SubSeq(toClient, 1, k)
Receive == /\ c.outcome \in {"none", "open"} /\ ~ c.unsent
           /\ c.recv = <<>> /\ ~ HasMessage(c.plain)
           /\ c.phase \in Encrypted \cup {"RecvServerHello", "Complete"}
           /\ \E k \in 1..Len(toClient) :
                /\ c' = [c EXCEPT !.recv = Arrived(k)]
                /\ toClient' = SubSeq(toClient, k + 1, Len(toClient))
           /\ UNCHANGED <<s, peer, toServer>>

(* The key pair of the hello being built, and the fields of the first one  *)
(* that a second one must repeat.                                          *)
Group == IF c.hrrReceived THEN c.hrrGroup ELSE "x25519"
NewShare == [group |-> Group, n |-> c.hellos + 1]
FreshRandom == c.hellos + 1

Random == IF c.random = 0 THEN FreshRandom ELSE c.random

BinderBase == IF c.hrrReceived THEN c.transcript ELSE <<>>
Truncated == [type |-> "ClientHello", random |-> Random, share |-> NewShare,
              cookie |-> c.cookie, ticket |-> c.offer, binder |-> None]
ClientHello == [Truncated EXCEPT !.binder =
                   IF c.offer = None THEN None ELSE Binder(ThePsk, BinderBase, Truncated)]

SendClientHello ==
    /\ Runs("SendClientHello")
    /\ c' = [c EXCEPT !.phase = "RecvServerHello", !.share = NewShare, !.random = Random,
                      !.hellos = @ + 1, !.msg = ClientHello, !.unsent = TRUE,
                      !.transcript = Append(IF c.hrrReceived THEN @ ELSE <<>>, ClientHello)]
    /\ UNCHANGED <<s, peer, toServer, toClient>>

(* The bytes of msg_buf go out; nothing else happens until all have.       *)
Flush == /\ c.outcome = "none" /\ c.unsent
         /\ toServer' = Append(toServer, c.msg)
         /\ c' = [c EXCEPT !.unsent = FALSE]
         /\ UNCHANGED <<s, peer, toClient>>

-------------------------------------------------------------------------------
(* RecvServerHello: one plaintext record at a time.                        *)

HeadIs(type) == c.recv # <<>> /\ c.recv[1].type = type
Behind == Tail(c.recv)
Ahead == c.recv

(* A ChangeCipherSpec answers "want bytes" even when ServerHello is        *)
(* buffered behind it, so the step goes on to receive.                     *)
BehindCCS == Behind
SkipCCS == /\ Runs("RecvServerHello") /\ HeadIs("ccs")
           /\ \E k \in 0..Len(toClient) :
                /\ c' = [c EXCEPT !.recv = BehindCCS \o Arrived(k)]
                /\ toClient' = SubSeq(toClient, k + 1, Len(toClient))
           /\ UNCHANGED <<s, peer, toServer>>

Declined == /\ Runs("RecvServerHello")
            /\ \/ HeadIs("alert")
               \/ HeadIs("handshake") /\ c.recv[1].data[1].msg.type = "ServerHello12"
            /\ c' = [c EXCEPT !.recv = Behind, !.outcome = "fallback"]
            /\ UNCHANGED <<s, peer, toServer, toClient>>

(* A HelloRetryRequest replaces the transcript and asks for another hello; *)
(* hrr_pending lives only until the dispatcher has seen it.                *)
RestartTranscript(m) == Append(MessageHash(c.transcript), m)

HelloRetryRequest(m) ==
    LET k == [c EXCEPT !.recv = Behind, !.cookie = @ \/ m.cookie] IN
    c' = IF c.hrrReceived THEN Failed(k, "hrr_double")
         ELSE IF m.group = "none" THEN Failed([k EXCEPT !.hrrReceived = TRUE], "hrr_group")
         ELSE [k EXCEPT !.hrrReceived = TRUE, !.hrrGroup = m.group,
                        !.transcript = RestartTranscript(m),
                        !.phase = "SendClientHello"]

(* Otherwise the keys of the handshake follow from this transcript, the    *)
(* shared secret, and the ticket's PSK if the server took it.              *)
PskIf(accepted) == IF accepted /\ c.offer # None THEN ThePsk ELSE Zeros

ServerHello(m) ==
    LET accepted == c.accepted \/ m.psk
        transcript == Append(c.transcript, m)
        secret == HandshakeSecret(EarlySecret(PskIf(accepted)), DH(c.share, m.share))
        client == Derive(secret, "c hs traffic", transcript)
        server == Derive(secret, "s hs traffic", transcript)
        k == [c EXCEPT !.recv = Behind, !.accepted = accepted]
    IN c' = IF m.share.group # c.share.group THEN Failed(k, "sh_group")
            ELSE [k EXCEPT !.transcript = transcript, !.secret = secret,
                           !.clientSecret = client, !.serverSecret = server,
                           !.read = FreshKey(server), !.write = FreshKey(client),
                           !.phase = "RecvEncryptedExtensions"]

RecvServerHello ==
    /\ Runs("RecvServerHello") /\ HeadIs("handshake")
    /\ LET m == c.recv[1].data[1].msg IN
          \/ m.type = "HelloRetryRequest" /\ HelloRetryRequest(m)
          \/ m.type = "ServerHello" /\ ServerHello(m)
    /\ UNCHANGED <<s, peer, toServer, toClient>>

-------------------------------------------------------------------------------
(* tls13_read_encrypted_hs: records are opened and appended to what is     *)
(* left of the last one until a whole message is there.                    *)

Overwritten(rec) == rec.data
Appended(rec) == c.plain \o rec.data

FitsAlone(rec) == Len(rec.data) + Overhead <= BufSize
Fits(rec) == Len(c.plain) + Len(rec.data) + Overhead <= BufSize

ReadRecord ==
    /\ c.outcome = "none" /\ ~ c.unsent /\ c.phase \in Encrypted
    /\ ~ HasMessage(c.plain) /\ ~ c.pending /\ c.recv # <<>>
    /\ LET rec == c.recv[1] IN
         c' = IF rec.type = "ccs" THEN [c EXCEPT !.recv = Behind]
              ELSE IF rec.type # "sealed" THEN Failed(c, "unexpected")
              ELSE IF ~ Fits(rec) THEN Failed(c, "reassembly")
              ELSE IF ~ Opens(c.read, rec) THEN Failed(c, "bad_mac")
              ELSE [c EXCEPT !.recv = Behind, !.read = Used(@), !.plain = Appended(rec)]
    /\ UNCHANGED <<s, peer, toServer, toClient>>

(* A handler runs once its message is whole: it may fail, or note the      *)
(* message in the transcript and go on.                                    *)
Handles(phase) == Runs(phase) /\ HasMessage(c.plain) /\ ~ c.pending
Message == FrontMessage(c.plain)
Taken == [c EXCEPT !.plain = BehindMessage(@), !.msg = Message]
Noted(m, phase) == [Taken EXCEPT !.transcript = Append(@, m), !.phase = phase]

RecvEncryptedExtensions ==
    /\ Handles("RecvEncryptedExtensions")
    /\ c' = IF Message.type # "EncryptedExtensions" THEN Failed(Taken, "unexpected")
            ELSE Noted(Message, IF c.accepted THEN "RecvFinished" ELSE "RecvCertRequestOrCert")
    /\ UNCHANGED <<s, peer, toServer, toClient>>

(* A CertificateRequest is noted; a Certificate is left in msg_buf for the *)
(* next handler.                                                           *)
RecvCertRequestOrCert ==
    /\ Handles("RecvCertRequestOrCert")
    /\ c' = IF Message.type = "CertificateRequest"
            THEN [Noted(Message, "RecvCertificate") EXCEPT !.certRequest = TRUE]
            ELSE IF Message.type = "Certificate"
            THEN [Taken EXCEPT !.pending = TRUE, !.phase = "RecvCertificate"]
            ELSE Failed(Taken, "unexpected")
    /\ UNCHANGED <<s, peer, toServer, toClient>>

(* The validator's verdict is the peer's trustworthiness.                  *)
RecvCertificate ==
    /\ Runs("RecvCertificate") /\ (c.pending \/ HasMessage(c.plain))
    /\ LET m == IF c.pending THEN c.msg ELSE Message
           k == IF c.pending THEN [c EXCEPT !.pending = FALSE] ELSE Taken
       IN c' = IF m.type # "Certificate" THEN Failed(k, "unexpected")
               ELSE IF ~ m.trusted THEN Failed(k, "x509")
               ELSE [k EXCEPT !.pkey = TRUE, !.transcript = Append(@, m),
                              !.phase = "RecvCertificateVerify"]
    /\ UNCHANGED <<s, peer, toServer, toClient>>

RecvCertificateVerify ==
    /\ Handles("RecvCertificateVerify")
    /\ c' = IF Message.type # "CertificateVerify" THEN Failed(Taken, "unexpected")
            ELSE IF Message.over # c.transcript THEN Failed(Taken, "bad_signature")
            ELSE Noted(Message, "RecvFinished")
    /\ UNCHANGED <<s, peer, toServer, toClient>>

(* The server's Finished closes the transcript of the application keys.    *)
(* client_hs_secret and server_hs_secret are reused: for the client's      *)
(* application key, and for the key of the client's own Finished.          *)
RecvFinished ==
    /\ Handles("RecvFinished")
    /\ LET transcript == Append(c.transcript, Message)
           master == MasterSecret(c.secret)
       IN c' = IF Message.type # "Finished" THEN Failed(Taken, "unexpected")
               ELSE IF Message.mac # Mac(FinishedKey(c.serverSecret), c.transcript)
               THEN Failed(Taken, "bad_finished")
               ELSE [Taken EXCEPT !.transcript = transcript, !.secret = master,
                        !.read = FreshKey(Derive(master, "s ap traffic", transcript)),
                        !.serverSecret = FinishedKey(c.clientSecret),
                        !.clientSecret = Derive(master, "c ap traffic", transcript),
                        !.phase = "SendFinished"]
    /\ UNCHANGED <<s, peer, toServer, toClient>>

BeforeFinished(m) == c.transcript
ThroughFinished(m) == Append(c.transcript, m)

SendFinished ==
    /\ Runs("SendFinished")
    /\ LET m == [type |-> "Finished", mac |-> Mac(c.serverSecret, c.transcript)]
           transcript == ThroughFinished(m)
       IN c' = [c EXCEPT !.msg = [type |-> "Sealed", key |-> c.write, inner |-> m],
                         !.unsent = TRUE, !.transcript = Append(@, m),
                         !.resMaster = Derive(c.secret, "res master", transcript),
                         !.write = FreshKey(c.clientSecret),
                         !.clientSecret = None, !.serverSecret = None,
                         !.phase = "Complete"]
    /\ UNCHANGED <<s, peer, toServer, toClient>>

(* The connection opens once the last message is on the wire.              *)
Open == /\ Runs("Complete")
        /\ c' = [c EXCEPT !.outcome = "open"]
        /\ UNCHANGED <<s, peer, toServer, toClient>>

(* A record of the open session: a ticket is turned into a PSK and cached; *)
(* an alert ends the connection.                                           *)
PostHandshake ==
    /\ c.outcome = "open" /\ c.recv # <<>> /\ c.recv[1].type = "sealed"
    /\ LET rec == c.recv[1]
           m == FrontMessage(rec.data)
           k == [c EXCEPT !.recv = Behind, !.read = Used(@)]
       IN c' = IF ~ Opens(c.read, rec) THEN Failed(c, "bad_mac")
               ELSE IF m.type = "NewSessionTicket"
               THEN [k EXCEPT !.ticket = ResumptionPsk(c.resMaster, m.nonce)]
               ELSE Failed(k, "alert")
    /\ UNCHANGED <<s, peer, toServer, toClient>>

-------------------------------------------------------------------------------
(* The server: RFC 8446, with the freedoms a peer has.                     *)

Peers == [v13 : BOOLEAN,                \* speaks TLS 1.3
          group : {"x25519", "p256", "none"},   \* the group it insists on
          cookie : BOOLEAN,             \* wants a second hello that echoes a cookie
          knows : BOOLEAN,              \* still has the PSK of the ticket offered
          asksCert : BOOLEAN,           \* sends a CertificateRequest
          ccs : BOOLEAN,                \* sends ChangeCipherSpec for middleboxes
          chain : ChainSizes, trusted : BOOLEAN]

NewServer == [phase |-> "start", transcript |-> <<>>, first |-> NoMessage, secret |-> None,
              clientSecret |-> None, serverSecret |-> None, resMaster |-> None,
              read |-> NoKey, write |-> NoKey, flight |-> <<>>, psk |-> FALSE]

Compat == IF peer.ccs THEN <<ChangeCipherSpec>> ELSE <<>>
Says(recs) == toClient' = toClient \o recs

(* The flight under the handshake keys, each message over all before it.   *)
Flight(transcript, secret, psk) ==
    LET one == <<[type |-> "EncryptedExtensions"]>>
        req == IF peer.asksCert THEN <<[type |-> "CertificateRequest"]>> ELSE <<>>
        crt == <<[type |-> "Certificate", size |-> peer.chain, trusted |-> peer.trusted]>>
        vrf == <<[type |-> "CertificateVerify", over |-> transcript \o one \o req \o crt]>>
        all == IF psk THEN one ELSE one \o req \o crt \o vrf
    IN Append(all, [type |-> "Finished",
                    mac |-> Mac(FinishedKey(secret), transcript \o all)])

AllUnits(messages) ==
    LET first[n \in 0..Len(messages)] ==       \* those of the first n messages
            IF n = 0 THEN <<>> ELSE first[n - 1] \o Units(messages[n])
    IN first[Len(messages)]

Reject == /\ s' = [s EXCEPT !.phase = "rejected"]
          /\ Says(<<Alert>>)

GoodBinder(m, base) ==
    m.binder = Binder(ThePsk, base, [m EXCEPT !.binder = None])

(* ServerHello, and the keys of the handshake.                             *)
Accept(m, base) ==
    LET psk == m.ticket # None /\ peer.knows
        hello == [type |-> "ServerHello", share |-> [group |-> m.share.group, n |-> 0],
                  psk |-> psk]
        transcript == Append(Append(base, m), hello)
        secret == HandshakeSecret(EarlySecret(IF psk THEN ThePsk ELSE Zeros),
                                  DH(m.share, hello.share))
        client == Derive(secret, "c hs traffic", transcript)
        server == Derive(secret, "s hs traffic", transcript)
        flight == Flight(transcript, server, psk)
    IN IF psk /\ ~ GoodBinder(m, base) THEN Reject
       ELSE /\ s' = [s EXCEPT !.phase = "flight", !.psk = psk,
                          !.transcript = transcript \o flight, !.secret = MasterSecret(secret),
                          !.clientSecret = client, !.serverSecret = server,
                          !.read = FreshKey(client), !.write = FreshKey(server),
                          !.flight = AllUnits(flight)]
            /\ Says(<<Plain(hello)>> \o (IF s.phase = "start" THEN Compat ELSE <<>>))

NeedsRetry(m) == peer.cookie \/ m.share.group # peer.group

Retry(m) ==
    LET hrr == [type |-> "HelloRetryRequest", cookie |-> peer.cookie,
                group |-> IF m.share.group # peer.group THEN peer.group ELSE "none"]
    IN /\ s' = [s EXCEPT !.phase = "retry", !.first = m,
                         !.transcript = Append(MessageHash(<<m>>), hrr)]
       /\ Says(<<Plain(hrr)>> \o Compat)

(* A second hello repeats the first, save what it was asked to change.     *)
GoodRetry(m) == /\ m.random = s.first.random /\ m.ticket = s.first.ticket
                /\ m.share.group = peer.group /\ m.cookie = peer.cookie

ServerHears ==
    /\ toServer # <<>> /\ s.phase \in {"start", "retry"}
    /\ toServer' = Tail(toServer)
    /\ LET m == Head(toServer) IN
         IF ~ peer.v13
         THEN /\ s' = [s EXCEPT !.phase = "done"]
              /\ Says(<<Plain([type |-> "ServerHello12"])>>)
         ELSE IF peer.group = "none" THEN Reject
         ELSE IF s.phase = "retry"
         THEN IF GoodRetry(m) THEN Accept(m, s.transcript) ELSE Reject
         ELSE IF NeedsRetry(m) THEN Retry(m) ELSE Accept(m, <<>>)
    /\ UNCHANGED <<c, peer>>

(* The flight leaves in records of any size, then the key changes.         *)
ServerSends ==
    /\ s.phase = "flight"
    /\ \E k \in 1..MaxFragment :
         /\ k <= Len(s.flight)
         /\ Says(<<Sealed(s.write, SubSeq(s.flight, 1, k))>>)
         /\ s' = IF k < Len(s.flight)
                 THEN [s EXCEPT !.flight = SubSeq(@, k + 1, Len(@)), !.write = Used(@)]
                 ELSE [s EXCEPT !.flight = <<>>, !.phase = "waits",
                         !.write = FreshKey(Derive(s.secret, "s ap traffic", s.transcript))]
    /\ UNCHANGED <<c, peer, toServer>>

(* The client's Finished: answered with a ticket, or with an alert when a  *)
(* Certificate was asked for and did not come first.                       *)
ServerFinishes ==
    /\ s.phase = "waits" /\ toServer # <<>>
    /\ toServer' = Tail(toServer)
    /\ LET rec == Head(toServer)
           good == /\ Opens(s.read, rec) /\ (peer.asksCert => s.psk)
                   /\ rec.inner.mac = Mac(FinishedKey(s.clientSecret), s.transcript)
           resMaster == Derive(s.secret, "res master", Append(s.transcript, rec.inner))
       IN IF good
          THEN /\ s' = [s EXCEPT !.phase = "done", !.resMaster = resMaster, !.write = Used(@),
                            !.read = FreshKey(Derive(s.secret, "c ap traffic", s.transcript))]
               /\ Says(<<Sealed(s.write, Units([type |-> "NewSessionTicket", nonce |-> 1]))>>)
          ELSE /\ s' = [s EXCEPT !.phase = "rejected"]
               /\ Says(<<Sealed(s.write, Units([type |-> "alert"]))>>)
    /\ UNCHANGED <<c, peer>>

-------------------------------------------------------------------------------
Init == /\ c \in {NewClient(t) : t \in {None, TheTicket}}
        /\ peer \in {p \in Peers : p.knows => c.offer = TheTicket}
        /\ s = NewServer /\ toServer = <<>> /\ toClient = <<>>

Client == \/ Receive \/ SendClientHello \/ Flush \/ SkipCCS \/ Declined \/ RecvServerHello
          \/ ReadRecord \/ RecvEncryptedExtensions \/ RecvCertRequestOrCert \/ RecvCertificate
          \/ RecvCertificateVerify \/ RecvFinished \/ SendFinished \/ Open \/ PostHandshake
Server == ServerHears \/ ServerSends \/ ServerFinishes

Next == Client \/ Server

Spec == Init /\ [][Next]_vars

(* The caller pumps, the server answers, TCP delivers.                     *)
FairSpec == Spec /\ WF_vars(Client) /\ WF_vars(Server)

-------------------------------------------------------------------------------
(* Types.                                                                  *)
TypeOK ==
    /\ c.phase \in Phases /\ c.outcome \in {"none", "open", "fallback", "failed"}
    /\ peer \in Peers /\ Len(c.plain) <= BufSize /\ c.hellos \in 0..2
    /\ s.phase \in {"start", "retry", "flight", "waits", "done", "rejected"}
    /\ c.outcome = "failed" <=> c.error # "none"

(* The client fails, or goes back to TLS 1.2, for a reason the server      *)
(* gave: never over its own keys, order or bookkeeping, however the flight *)
(* is packed and cut, after a retry, with a ticket, or both.  Of its own   *)
(* limits this flight can meet two: a HelloRetryRequest that names no      *)
(* group, and a record that does not fit behind a Certificate the last one *)
(* left unfinished.  A ServerHello or a header of four bytes in pieces, a  *)
(* cut in a message other than Certificate and a message larger than       *)
(* msg_buf are not sent.                                                   *)
MayOverflow == peer.chain - 1 + MaxFragment + Overhead > BufSize

NoFalseAlarm ==
    /\ c.outcome = "fallback" => ~ peer.v13 \/ peer.group = "none"
    /\ c.outcome = "failed" =>
         \/ c.error = "x509" /\ ~ peer.trusted
         \/ c.error = "alert" /\ s.phase = "rejected"
         \/ c.error = "hrr_group" /\ peer.cookie /\ peer.group = "x25519"
         \/ c.error = "reassembly" /\ ~ s.psk /\ MayOverflow

(* The server finds nothing to object to: the second hello repeats the     *)
(* first, the binder is over what it should be, and the client's Finished  *)
(* is the one expected.  (A server that wants a Certificate objects.)      *)
NothingToReject ==
    s.phase = "rejected" => peer.group = "none" \/ (peer.asksCert /\ ~ s.psk)

(* When both are done they hold the same keys, in step, agree on whether   *)
(* the session was resumed, and would resume it from the same secret; and  *)
(* the client has seen the server's certificate or used its ticket.        *)
Agreement ==
    /\ c.outcome = "open" => c.pkey \/ (c.accepted /\ c.offer # None)
    /\ c.outcome = "open" /\ s.phase = "done" =>
         /\ c.accepted = s.psk /\ c.write = s.read /\ c.resMaster = s.resMaster
         /\ c.plain = <<>> /\ c.read.secret = s.write.secret
         /\ c.ticket # None => c.ticket = ResumptionPsk(s.resMaster, 1) /\ c.read = s.write

(* A server that keeps answering gets every attempt to an end: open, back  *)
(* to TLS 1.2, or failed.                                                  *)
Finishes == <>(c.outcome # "none")

(* "We'll send an empty Certificate message later", the handler of the     *)
(* CertificateRequest says: then no server that asked would object.        *)
RequestAnswered == s.phase = "rejected" => peer.group = "none"
===============================================================================

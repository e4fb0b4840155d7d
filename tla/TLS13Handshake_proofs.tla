------------------------- MODULE TLS13Handshake_proofs -------------------------
(***************************************************************************)
(* What TLS13Handshake promises, proved for every size of a chain, a       *)
(* record and a buffer.  Everything client and server say, sign and derive *)
(* follows from two things that never change: what kind of server it is,   *)
(* p, and what the client has to offer, o.  The invariant says, stage by   *)
(* stage, that both hold those values, and that what is on its way to the  *)
(* client is the rest of the server's flight, piece by piece.              *)
(***************************************************************************)
EXTENDS TLS13Handshake, StreamLemmas

-------------------------------------------------------------------------------
(* The values.                                                             *)

Refuses(p) == ~ p.v13 \/ p.group = "none"
Retries(p) == p.cookie \/ p.group # "x25519"
Resumes(p, o) == o # None /\ p.knows

(* The hellos.                                                             *)
FirstShare == [group |-> "x25519", n |-> 1]
SecondShare(p) == [group |-> p.group, n |-> 2]

Bare(share, cookie, o) == [type |-> "ClientHello", random |-> 1, share |-> share,
                           cookie |-> cookie, ticket |-> o, binder |-> None]
Bound(share, cookie, o, base) ==
    [Bare(share, cookie, o) EXCEPT !.binder =
        IF o = None THEN None ELSE Binder(ThePsk, base, Bare(share, cookie, o))]

FirstHello(o) == Bound(FirstShare, FALSE, o, <<>>)
RetryGroup(p) == IF "x25519" # p.group THEN p.group ELSE "none"
TheRetry(p) == [type |-> "HelloRetryRequest", cookie |-> p.cookie, group |-> RetryGroup(p)]
RetryBase(p, o) == Append(MessageHash(<<FirstHello(o)>>), TheRetry(p))
SecondHello(p, o) == Bound(SecondShare(p), p.cookie, o, RetryBase(p, o))

TheShare(p) == IF Retries(p) THEN SecondShare(p) ELSE FirstShare
TheHello(p, o) == IF Retries(p) THEN SecondHello(p, o) ELSE FirstHello(o)
Base(p, o) == IF Retries(p) THEN RetryBase(p, o) ELSE <<>>
Answer(p, o) == [type |-> "ServerHello", share |-> [group |-> TheShare(p).group, n |-> 0],
                 psk |-> Resumes(p, o)]

(* The keys of the handshake.                                              *)
Hellos(p, o) == Append(Append(Base(p, o), TheHello(p, o)), Answer(p, o))
ShakeSecret(p, o) == HandshakeSecret(EarlySecret(IF Resumes(p, o) THEN ThePsk ELSE Zeros),
                                     DH(TheShare(p), [group |-> TheShare(p).group, n |-> 0]))
ClientShake(p, o) == Derive(ShakeSecret(p, o), "c hs traffic", Hellos(p, o))
ServerShake(p, o) == Derive(ShakeSecret(p, o), "s hs traffic", Hellos(p, o))

(* The flight, and the transcript as it grows.                             *)
Extensions == [type |-> "EncryptedExtensions"]
Request == [type |-> "CertificateRequest"]
Certificate(p) == [type |-> "Certificate", size |-> p.chain, trusted |-> p.trusted]
WithExtensions(p, o) == Append(Hellos(p, o), Extensions)
WithRequest(p, o) == IF p.asksCert THEN Append(WithExtensions(p, o), Request)
                     ELSE WithExtensions(p, o)
WithCertificate(p, o) == Append(WithRequest(p, o), Certificate(p))
Signed(p, o) == [type |-> "CertificateVerify", over |-> WithCertificate(p, o)]
Unfinished(p, o) == IF Resumes(p, o) THEN WithExtensions(p, o)
                    ELSE Append(WithCertificate(p, o), Signed(p, o))
ServerDone(p, o) == [type |-> "Finished",
                     mac |-> Mac(FinishedKey(ServerShake(p, o)), Unfinished(p, o))]
Whole(p, o) == Append(Unfinished(p, o), ServerDone(p, o))

Messages(p, o) ==
    IF Resumes(p, o) THEN <<Extensions, ServerDone(p, o)>>
    ELSE IF p.asksCert
    THEN <<Extensions, Request, Certificate(p), Signed(p, o), ServerDone(p, o)>>
    ELSE <<Extensions, Certificate(p), Signed(p, o), ServerDone(p, o)>>

Stream(p, o) == AllUnits(Messages(p, o))

(* The keys of the session.                                                *)
Master(p, o) == MasterSecret(ShakeSecret(p, o))
ClientApp(p, o) == Derive(Master(p, o), "c ap traffic", Whole(p, o))
ServerApp(p, o) == Derive(Master(p, o), "s ap traffic", Whole(p, o))
ClientDone(p, o) == [type |-> "Finished",
                     mac |-> Mac(FinishedKey(ClientShake(p, o)), Whole(p, o))]
ClientDoneSealed(p, o) ==
    [type |-> "Sealed", key |-> FreshKey(ClientShake(p, o)), inner |-> ClientDone(p, o)]
Resumption(p, o) == Derive(Master(p, o), "res master", Append(Whole(p, o), ClientDone(p, o)))
Ticket == [type |-> "NewSessionTicket", nonce |-> 1]
Objection == [type |-> "alert"]
OldHello == [type |-> "ServerHello12"]

-------------------------------------------------------------------------------
(* The two sides, in parts.                                                *)

ClientFields ==
    {"phase", "transcript", "offer", "share", "hellos", "hrrGroup", "hrrReceived", "random",
     "cookie", "accepted", "certRequest", "secret", "clientSecret", "serverSecret",
     "resMaster", "read", "write", "plain", "msg", "unsent", "pending", "pkey", "recv",
     "ticket", "error", "outcome"}
ServerFields ==
    {"phase", "transcript", "first", "secret", "clientSecret", "serverSecret", "resMaster",
     "read", "write", "flight", "psk"}

(* The client has not come to an end.                                      *)
Trying(k) == k.outcome = "none" /\ k.error = "none" /\ k.ticket = None

(* It has not had a key to read with.                                      *)
Unkeyed(k) == /\ Trying(k) /\ k.plain = <<>> /\ k.pending = FALSE
              /\ k.accepted = FALSE /\ k.random = 1 /\ k.hellos \in 1..2

SaidFirst(k) ==
    /\ Unkeyed(k) /\ k.phase = "RecvServerHello" /\ k.share = FirstShare /\ k.hellos = 1
    /\ k.hrrReceived = FALSE /\ k.cookie = FALSE /\ k.transcript = <<FirstHello(k.offer)>>

WasAsked(k, p) ==
    /\ Unkeyed(k) /\ k.phase = "SendClientHello" /\ k.hellos = 1 /\ k.cookie = p.cookie
    /\ k.hrrReceived = TRUE /\ k.hrrGroup = p.group /\ k.transcript = RetryBase(p, k.offer)

SaidSecond(k, p) ==
    /\ Unkeyed(k) /\ k.phase = "RecvServerHello" /\ k.share = SecondShare(p)
    /\ k.transcript = Append(RetryBase(p, k.offer), SecondHello(p, k.offer))

SaidAll(k, p) ==
    /\ Unkeyed(k) /\ k.phase = "RecvServerHello" /\ k.share = TheShare(p)
    /\ k.transcript = Append(Base(p, k.offer), TheHello(p, k.offer))

(* It reads the flight: which of its messages it has had, and what it      *)
(* made of them.                                                           *)
Keyed(k, p) ==
    /\ Trying(k) /\ k.hellos \in 0..2 /\ k.accepted = Resumes(p, k.offer)
    /\ k.secret = ShakeSecret(p, k.offer) /\ k.write = FreshKey(ClientShake(p, k.offer))
    /\ k.clientSecret = ClientShake(p, k.offer) /\ k.serverSecret = ServerShake(p, k.offer)
    /\ k.read = [secret |-> ServerShake(p, k.offer), seq |-> k.read.seq] /\ k.read.seq \in Nat

HasTaken(k, p, j) ==
    \/ /\ k.phase = "RecvEncryptedExtensions" /\ j = 0 /\ k.pending = FALSE
       /\ k.transcript = Hellos(p, k.offer)
    \/ /\ k.phase = "RecvCertRequestOrCert" /\ j = 1 /\ k.pending = FALSE
       /\ ~ Resumes(p, k.offer) /\ k.transcript = WithExtensions(p, k.offer)
    \/ /\ k.phase = "RecvCertificate" /\ j = 2 /\ k.pending = FALSE /\ p.asksCert
       /\ ~ Resumes(p, k.offer) /\ k.transcript = WithRequest(p, k.offer)
    \/ /\ k.phase = "RecvCertificate" /\ j = 2 /\ k.pending = TRUE /\ ~ p.asksCert
       /\ ~ Resumes(p, k.offer) /\ k.transcript = WithRequest(p, k.offer)
       /\ k.msg = Certificate(p)
    \/ /\ k.phase = "RecvCertificateVerify" /\ k.pending = FALSE /\ k.pkey = TRUE
       /\ ~ Resumes(p, k.offer) /\ j = Len(Messages(p, k.offer)) - 2
       /\ k.transcript = WithCertificate(p, k.offer)
    \/ /\ k.phase = "RecvFinished" /\ k.pending = FALSE
       /\ k.pkey = TRUE \/ Resumes(p, k.offer)
       /\ j = Len(Messages(p, k.offer)) - 1 /\ k.transcript = Unfinished(p, k.offer)

(* It has read the flight.                                                 *)
Checked(k, p) ==
    /\ k.hellos \in 0..2 /\ k.plain = <<>> /\ k.accepted = Resumes(p, k.offer)
    /\ k.pkey = TRUE \/ Resumes(p, k.offer)
    /\ k.error = "none"

ToFinish(k, p) ==
    /\ Checked(k, p) /\ Trying(k) /\ k.phase = "SendFinished"
    /\ k.transcript = Whole(p, k.offer) /\ k.secret = Master(p, k.offer)
    /\ k.clientSecret = ClientApp(p, k.offer)
    /\ k.serverSecret = FinishedKey(ClientShake(p, k.offer))
    /\ k.read = FreshKey(ServerApp(p, k.offer))
    /\ k.write = FreshKey(ClientShake(p, k.offer))

Finished(k, p) ==
    /\ Checked(k, p) /\ k.phase = "Complete" /\ k.outcome \in {"none", "open"}
    /\ k.resMaster = Resumption(p, k.offer) /\ k.write = FreshKey(ClientApp(p, k.offer))

(* The server: what it has asked for, and what it has settled on.          *)
Asking(v, p, o) ==
    v.phase = "retry" /\ v.first = FirstHello(o) /\ v.transcript = RetryBase(p, o)

Settled(v, p, o) ==
    /\ v.psk = Resumes(p, o) /\ v.transcript = Whole(p, o) /\ v.secret = Master(p, o)
    /\ v.clientSecret = ClientShake(p, o)

Serving(v, p, o) ==
    /\ Settled(v, p, o) /\ v.read = FreshKey(ClientShake(p, o))
    /\ v.phase \in {"flight", "waits"}
    /\ v.phase = "waits" => v.flight = <<>> /\ v.write = FreshKey(ServerApp(p, o))

-------------------------------------------------------------------------------
(* The way of the flight.  at[j] is how many units its first j messages    *)
(* have; cut[i] how many have come out of the first i of the records under *)
(* way, with those that came before.                                       *)

LaidOut(at, units, ms) ==
    /\ at \in [0..Len(ms) -> Nat] /\ at[0] = 0 /\ at[Len(ms)] = Len(units)
    /\ \A j \in 1..Len(ms) : /\ at[j] = at[j - 1] + Size(ms[j]) /\ at[j] <= Len(units)
                             /\ SubSeq(units, at[j - 1] + 1, at[j]) = Units(ms[j])

At(p, o) == CHOOSE at : LaidOut(at, Stream(p, o), Messages(p, o))

Piece(p, o, i, j) == SubSeq(Stream(p, o), i + 1, j)

(* The client has n units behind it and holds plain; recs are under way,   *)
(* sealed under the numbers from seq on; the rest is the server's.         *)
Carried(n, plain, seq, recs, v, p, o) ==
    /\ IsSeq(recs) /\ seq \in Nat
    /\ \E cut \in [0..Len(recs) -> 0..Len(Stream(p, o))] :
         /\ n <= cut[0] /\ plain = Piece(p, o, n, cut[0])
         /\ seq = 0 => cut[0] = 0
         /\ \A i \in 1..Len(recs) :
              /\ cut[i - 1] < cut[i] /\ cut[i] - cut[i - 1] <= MaxFragment
              /\ recs[i] = Sealed([secret |-> ServerShake(p, o), seq |-> seq + i - 1],
                                  Piece(p, o, cut[i - 1], cut[i]))
         /\ \/ /\ v.phase = "flight" /\ v.flight = Piece(p, o, cut[Len(recs)], Len(Stream(p, o)))
               /\ v.write = [secret |-> ServerShake(p, o), seq |-> seq + Len(recs)]
               /\ cut[Len(recs)] < Len(Stream(p, o))
            \/ v.phase = "waits" /\ cut[Len(recs)] = Len(Stream(p, o))

MaybeCCS == {<<>>, <<ChangeCipherSpec>>}

-------------------------------------------------------------------------------
(* The stages.  k is the client, v the server, q what is on its way to the *)
(* server, w to the client, read by it or not.                             *)

Fresh(k, v, q, w) ==
    k = NewClient(k.offer) /\ v = NewServer /\ q = <<>> /\ w = <<>>

Greeting(k, v, q, w) ==
    /\ SaidFirst(k) /\ v = NewServer /\ w = <<>>
    /\ \/ k.unsent = TRUE /\ k.msg = FirstHello(k.offer) /\ q = <<>>
       \/ k.unsent = FALSE /\ q = <<FirstHello(k.offer)>>

TurnedAway(k, v, p, q, w) ==
    /\ SaidFirst(k) /\ k.unsent = FALSE /\ Refuses(p) /\ q = <<>>
    /\ v.phase = "done" \/ (v.phase = "rejected" /\ p.group = "none")
    /\ w = Then(Plain(OldHello), <<>>) \/ w = Then(Alert, <<>>)

FellBack(k, v, p, q) ==
    /\ k.outcome = "fallback" /\ k.error = "none" /\ k.hellos = 1 /\ k.plain = <<>>
    /\ k.phase = "RecvServerHello" /\ Refuses(p) /\ q = <<>>
    /\ v.phase = "done" \/ (v.phase = "rejected" /\ p.group = "none")

AskedAgain(k, v, p, q, w) ==
    /\ SaidFirst(k) /\ k.unsent = FALSE /\ Retries(p) /\ ~ Refuses(p)
    /\ Asking(v, p, k.offer) /\ q = <<>>
    /\ \E ccs \in MaybeCCS : w = Then(Plain(TheRetry(p)), ccs)

NoGroupNamed(k, v, p, q) ==
    /\ k.outcome = "failed" /\ k.error = "hrr_group" /\ k.hellos = 1 /\ k.plain = <<>>
    /\ k.phase = "RecvServerHello" /\ p.cookie /\ p.group = "x25519"
    /\ v.phase = "retry" /\ q = <<>>

GreetingAgain(k, v, p, q, w) ==
    /\ Retries(p) /\ ~ Refuses(p) /\ p.group # "x25519"
    /\ Asking(v, p, k.offer) /\ w \in MaybeCCS
    /\ \/ WasAsked(k, p) /\ k.unsent = FALSE /\ q = <<>>
       \/ SaidSecond(k, p) /\ k.unsent = TRUE /\ k.msg = SecondHello(p, k.offer) /\ q = <<>>
       \/ SaidSecond(k, p) /\ k.unsent = FALSE /\ q = <<SecondHello(p, k.offer)>>

Answered(k, v, p, q, w) ==
    /\ SaidAll(k, p) /\ k.unsent = FALSE /\ Serving(v, p, k.offer) /\ q = <<>>
    /\ \E before, behind \in MaybeCCS : \E recs :
         /\ w = before \o Then(Plain(Answer(p, k.offer)), behind \o recs)
         /\ Carried(0, <<>>, 0, recs, v, p, k.offer)

Reading(k, v, p, q, w) ==
    /\ Keyed(k, p) /\ k.unsent = FALSE /\ Serving(v, p, k.offer) /\ q = <<>>
    /\ \E j \in 0..Len(Messages(p, k.offer)) : \E before \in MaybeCCS : \E recs :
         /\ HasTaken(k, p, j)
         /\ w = before \o recs
         /\ before # <<>> => k.read.seq = 0
         /\ Carried(At(p, k.offer)[j], k.plain, k.read.seq, recs, v, p, k.offer)

GaveUp(k, v, p, q) ==
    /\ k.outcome = "failed" /\ k.hellos \in 0..2 /\ k.phase \in Encrypted
    /\ \/ k.error = "x509" /\ p.trusted = FALSE
       \/ k.error = "reassembly" /\ ~ Resumes(p, k.offer)
          /\ p.chain - 1 + MaxFragment + Overhead > BufSize
    /\ v.phase \in {"flight", "waits"} /\ v.psk = Resumes(p, k.offer) /\ q = <<>>

Finishing(k, v, p, q, w) ==
    /\ Serving(v, p, k.offer) /\ v.phase = "waits" /\ w = <<>>
    /\ \/ ToFinish(k, p) /\ k.unsent = FALSE /\ q = <<>>
       \/ /\ Finished(k, p) /\ k.unsent = TRUE /\ k.msg = ClientDoneSealed(p, k.offer)
          /\ k.outcome = "none" /\ q = <<>> /\ k.ticket = None
          /\ k.read = FreshKey(ServerApp(p, k.offer))
       \/ /\ Finished(k, p) /\ k.unsent = FALSE /\ q = <<ClientDoneSealed(p, k.offer)>>
          /\ k.ticket = None /\ k.read = FreshKey(ServerApp(p, k.offer))

Over(k, v, p, q, w) ==
    /\ Finished(k, p) /\ k.unsent = FALSE /\ q = <<>> /\ v.phase = "done"
    /\ Settled(v, p, k.offer) /\ v.resMaster = Resumption(p, k.offer)
    /\ v.read = FreshKey(ClientApp(p, k.offer))
    /\ v.write = Used(FreshKey(ServerApp(p, k.offer)))
    /\ \/ /\ w = Then(Sealed(FreshKey(ServerApp(p, k.offer)), Units(Ticket)), <<>>)
          /\ k.read = FreshKey(ServerApp(p, k.offer)) /\ k.ticket = None
       \/ /\ w = <<>> /\ k.read = Used(FreshKey(ServerApp(p, k.offer)))
          /\ k.ticket = ResumptionPsk(Resumption(p, k.offer), 1) /\ k.outcome = "open"

Objected(k, v, p, q, w) ==
    /\ k.phase = "Complete" /\ k.plain = <<>> /\ k.hellos \in 0..2 /\ k.unsent = FALSE
    /\ v.phase = "rejected" /\ p.asksCert /\ ~ v.psk /\ q = <<>>
    /\ \/ /\ Finished(k, p) /\ k.ticket = None /\ k.read = FreshKey(ServerApp(p, k.offer))
          /\ w = Then(Sealed(FreshKey(ServerApp(p, k.offer)), Units(Objection)), <<>>)
       \/ k.outcome = "failed" /\ k.error = "alert"

Stage(k, v, p, q, w) ==
    \/ Fresh(k, v, q, w)
    \/ Greeting(k, v, q, w)
    \/ TurnedAway(k, v, p, q, w)
    \/ FellBack(k, v, p, q)
    \/ AskedAgain(k, v, p, q, w)
    \/ NoGroupNamed(k, v, p, q)
    \/ GreetingAgain(k, v, p, q, w)
    \/ Answered(k, v, p, q, w)
    \/ Reading(k, v, p, q, w)
    \/ GaveUp(k, v, p, q)
    \/ Finishing(k, v, p, q, w)
    \/ Over(k, v, p, q, w)
    \/ Objected(k, v, p, q, w)

(* The records, and what kind of server it is.                             *)
Shapes ==
    /\ DOMAIN c = ClientFields /\ DOMAIN s = ServerFields
    /\ peer \in Peers /\ (peer.knows => c.offer = TheTicket) /\ c.offer \in {None, TheTicket}
    /\ IsSeq(c.recv) /\ IsSeq(toClient) /\ Len(c.plain) <= BufSize

IInv == Shapes /\ Stage(c, s, peer, toServer, c.recv \o toClient)

-------------------------------------------------------------------------------
(* The messages of the flight and their units.                             *)

(* What HandshakeAssumption gives, size by size.                           *)
LEMMA Constants ==
    /\ \A n \in ChainSizes : n \in Nat \ {0} /\ n <= BufSize
    /\ MaxFragment \in Nat \ {0} /\ Overhead \in Nat \ {0}
    /\ BufSize \in Nat /\ MaxFragment + Overhead <= BufSize
  BY HandshakeAssumption

(* The fields of a server and what they range over.                        *)
LEMMA PeerIs ==
    ASSUME NEW p \in Peers
    PROVE  /\ p.v13 \in BOOLEAN /\ p.cookie \in BOOLEAN /\ p.knows \in BOOLEAN
           /\ p.asksCert \in BOOLEAN /\ p.ccs \in BOOLEAN /\ p.trusted \in BOOLEAN
           /\ p.chain \in ChainSizes /\ p.group \in {"x25519", "p256", "none"}
  BY DEF Peers

(* Every message of the flight but the Certificate is one unit.            *)
LEMMA SizesAre ==
    ASSUME NEW p \in Peers, NEW o
    PROVE  /\ Size(Extensions) = 1 /\ Size(Request) = 1 /\ Size(Signed(p, o)) = 1
           /\ Size(ServerDone(p, o)) = 1 /\ Size(Certificate(p)) = p.chain
           /\ Size(Ticket) = 1 /\ Size(Objection) = 1
  BY DEF Size, Extensions, Request, Signed, ServerDone, Certificate, Ticket, Objection

(* How many messages the flight has, which are where, and that each has a  *)
(* size.                                                                   *)
LEMMA MessagesAre ==
    ASSUME NEW p \in Peers, NEW o
    PROVE  /\ IsSeq(Messages(p, o))
           /\ Len(Messages(p, o)) = IF Resumes(p, o) THEN 2 ELSE IF p.asksCert THEN 5 ELSE 4
           /\ Messages(p, o)[1] = Extensions
           /\ Messages(p, o)[Len(Messages(p, o))] = ServerDone(p, o)
           /\ ~ Resumes(p, o) =>
                /\ Messages(p, o)[Len(Messages(p, o)) - 1] = Signed(p, o)
                /\ Messages(p, o)[Len(Messages(p, o)) - 2] = Certificate(p)
                /\ p.asksCert => Messages(p, o)[2] = Request
           /\ \A j \in 1..Len(Messages(p, o)) :
                /\ Size(Messages(p, o)[j]) \in Nat \ {0}
                /\ Size(Messages(p, o)[j]) # 1 =>
                     ~ Resumes(p, o) /\ Size(Messages(p, o)[j]) = p.chain
<1>1. p.chain \in Nat \ {0}
  BY PeerIs, Constants
<1> DEFINE a == Extensions
           b == Request
           d == Certificate(p)
           e == Signed(p, o)
           f == ServerDone(p, o)
           ms == Messages(p, o)
<1>2. /\ Size(a) = 1 /\ Size(b) = 1 /\ Size(d) = p.chain /\ Size(e) = 1 /\ Size(f) = 1
  BY SizesAre
<1> HIDE DEF a, b, d, e, f
<1>3. CASE Resumes(p, o)
  <2>1. ms = <<a, f>>
    BY <1>3 DEF Messages, a, f
  <2>2. IsSeq(<<a, f>>) /\ Len(<<a, f>>) = 2 /\ <<a, f>>[1] = a /\ <<a, f>>[2] = f
    <3>1. <<a, f>> \in Seq({a, f})
      OBVIOUS
    <3> QED BY <3>1 DEF IsSeq
  <2>3. \A j \in 1..2 : j = 1 \/ j = 2
    OBVIOUS
  <2> HIDE DEF ms
  <2>4. \A j \in 1..Len(ms) : Size(ms[j]) = 1
    BY <1>2, <2>1, <2>2, <2>3
  <2> QED BY <1>3, <2>1, <2>2, <2>4 DEF ms, a, f
<1>4. CASE ~ Resumes(p, o) /\ p.asksCert
  <2>1. ms = <<a, b, d, e, f>>
    BY <1>4 DEF Messages, a, b, d, e, f
  <2>2. /\ IsSeq(<<a, b, d, e, f>>) /\ Len(<<a, b, d, e, f>>) = 5
        /\ <<a, b, d, e, f>>[1] = a /\ <<a, b, d, e, f>>[2] = b /\ <<a, b, d, e, f>>[3] = d
        /\ <<a, b, d, e, f>>[4] = e /\ <<a, b, d, e, f>>[5] = f
    <3>1. <<a, b, d, e, f>> \in Seq({a, b, d, e, f})
      OBVIOUS
    <3> QED BY <3>1 DEF IsSeq
  <2>3. \A j \in 1..5 : j = 1 \/ j = 2 \/ j = 3 \/ j = 4 \/ j = 5
    OBVIOUS
  <2> HIDE DEF ms
  <2>4. \A j \in 1..Len(ms) : Size(ms[j]) = 1 \/ Size(ms[j]) = p.chain
    BY <1>2, <2>1, <2>2, <2>3
  <2> QED BY <1>1, <1>4, <2>1, <2>2, <2>4 DEF ms, a, b, d, e, f
<1>5. CASE ~ Resumes(p, o) /\ ~ p.asksCert
  <2>1. ms = <<a, d, e, f>>
    BY <1>5 DEF Messages, a, d, e, f
  <2>2. /\ IsSeq(<<a, d, e, f>>) /\ Len(<<a, d, e, f>>) = 4
        /\ <<a, d, e, f>>[1] = a /\ <<a, d, e, f>>[2] = d
        /\ <<a, d, e, f>>[3] = e /\ <<a, d, e, f>>[4] = f
    <3>1. <<a, d, e, f>> \in Seq({a, d, e, f})
      OBVIOUS
    <3> QED BY <3>1 DEF IsSeq
  <2>3. \A j \in 1..4 : j = 1 \/ j = 2 \/ j = 3 \/ j = 4
    OBVIOUS
  <2> HIDE DEF ms
  <2>4. \A j \in 1..Len(ms) : Size(ms[j]) = 1 \/ Size(ms[j]) = p.chain
    BY <1>2, <2>1, <2>2, <2>3
  <2> QED BY <1>1, <1>5, <2>1, <2>2, <2>4 DEF ms, a, d, e, f
<1> QED BY <1>3, <1>4, <1>5

(* The concatenation is defined for every number of messages: the first    *)
(* for which it were not would follow one for which it is.                 *)
LEMMA UnitsExist ==
    ASSUME NEW ms, NEW N \in Nat
    PROVE  \E f : f = [n \in 0..N |-> IF n = 0 THEN <<>> ELSE f[n - 1] \o Units(ms[n])]
<1> DEFINE Exists(k) == \E f : f = [n \in 0..k |-> IF n = 0 THEN <<>> ELSE f[n - 1] \o Units(ms[n])]
           Missing == {k \in Nat : ~ Exists(k)}
<1>1. SUFFICES ASSUME Missing # {} PROVE FALSE
  OBVIOUS
<1>2. PICK k \in Missing : \A j \in Missing : k <= j
  BY <1>1, LeastNatural
<1>3. Exists(0)
  <2> DEFINE f == [n \in 0..0 |-> <<>>]
  <2>1. f = [n \in 0..0 |-> IF n = 0 THEN <<>> ELSE f[n - 1] \o Units(ms[n])]
    <3>1. \A n \in 0..0 : n = 0
      OBVIOUS
    <3> QED BY <3>1
  <2> QED BY <2>1
<1>4. k # 0 /\ k \in Nat
  BY <1>2, <1>3
<1>5. k - 1 \in Nat /\ Exists(k - 1)
  <2>1. k - 1 \in Nat /\ ~ (k <= k - 1)
    BY <1>4
  <2>2. k - 1 \notin Missing
    BY <1>2, <2>1
  <2> QED BY <2>1, <2>2
<1>6. PICK g : g = [n \in 0..(k - 1) |-> IF n = 0 THEN <<>> ELSE g[n - 1] \o Units(ms[n])]
  BY <1>5
<1> DEFINE h == [n \in 0..k |-> IF n = 0 THEN <<>> ELSE g[n - 1] \o Units(ms[n])]
<1>7. \A n \in 0..k : n # 0 => n - 1 \in 0..k /\ n - 1 \in 0..(k - 1)
  BY <1>4
<1>8. \A m \in 0..(k - 1) : h[m] = g[m]
  <2> TAKE m \in 0..(k - 1)
  <2>1. m \in 0..k
    BY <1>4
  <2>2. g[m] = IF m = 0 THEN <<>> ELSE g[m - 1] \o Units(ms[m])
    BY <1>6
  <2> QED BY <2>1, <2>2
<1>9. h = [n \in 0..k |-> IF n = 0 THEN <<>> ELSE h[n - 1] \o Units(ms[n])]
  <2>1. \A n \in 0..k : n # 0 => h[n - 1] = g[n - 1]
    BY <1>7, <1>8
  <2> HIDE DEF h
  <2>2. h = [n \in 0..k |-> IF n = 0 THEN <<>> ELSE g[n - 1] \o Units(ms[n])]
    BY DEF h
  <2> QED BY <2>1, <2>2
<1> HIDE DEF h
<1>10. Exists(k)
  BY <1>9
<1> QED BY <1>2, <1>10

(* AllUnits is the last value of its recursive function.                   *)
LEMMA UnitsAre ==
    ASSUME NEW ms, Len(ms) \in Nat
    PROVE  \E f : /\ f = [n \in 0..Len(ms) |-> IF n = 0 THEN <<>> ELSE f[n - 1] \o Units(ms[n])]
                  /\ AllUnits(ms) = f[Len(ms)]
<1>1. \E f : f = [n \in 0..Len(ms) |-> IF n = 0 THEN <<>> ELSE f[n - 1] \o Units(ms[n])]
  BY UnitsExist
<1> QED BY <1>1 DEF AllUnits

(* The units of the first n messages begin with those of any fewer.        *)
LEMMA Layout ==
    ASSUME NEW ms, IsSeq(ms), \A j \in 1..Len(ms) : Size(ms[j]) \in Nat
    PROVE  IsSeq(AllUnits(ms)) /\ \E at : LaidOut(at, AllUnits(ms), ms)
<1>1. Len(ms) \in Nat
  BY AppendIs
<1>2. PICK f : /\ f = [n \in 0..Len(ms) |-> IF n = 0 THEN <<>> ELSE f[n - 1] \o Units(ms[n])]
               /\ AllUnits(ms) = f[Len(ms)]
  BY <1>1, UnitsAre
<1> DEFINE W == [msg : {ms[j] : j \in 1..Len(ms)}, unit : Nat]
<1>3. f[0] = <<>> /\ \A n \in 1..Len(ms) : f[n] = f[n - 1] \o Units(ms[n]) /\ n - 1 \in 0..Len(ms)
  <2>1. 0 \in 0..Len(ms) /\ \A n \in 1..Len(ms) : n \in 0..Len(ms) /\ n # 0 /\ n - 1 \in 0..Len(ms)
    BY <1>1
  <2> QED BY <1>2, <2>1
<1>4. \A n \in 1..Len(ms) : Units(ms[n]) \in Seq(W) /\ Len(Units(ms[n])) = Size(ms[n])
  <2> TAKE n \in 1..Len(ms)
  <2>1. Size(ms[n]) \in Nat
    OBVIOUS
  <2> DEFINE u == Units(ms[n])
  <2>2. u = [i \in 1..Size(ms[n]) |-> [msg |-> ms[n], unit |-> i]]
    BY DEF Units
  <2>3. \A i \in 1..Size(ms[n]) : [msg |-> ms[n], unit |-> i] \in W
    OBVIOUS
  <2> HIDE DEF W, u
  <2>4. u \in Seq(W) /\ Len(u) = Size(ms[n])
    BY <2>1, <2>2, <2>3
  <2> QED BY <2>4 DEF u
<1> HIDE DEF W
<1> DEFINE Good(n) ==
             /\ f[n] \in Seq(W)
             /\ n # 0 => Len(f[n]) = Len(f[n - 1]) + Size(ms[n])
             /\ \A j \in 0..n : /\ Len(f[j]) \in Nat /\ Len(f[j]) <= Len(f[n])
                                /\ j # 0 => SubSeq(f[n], Len(f[j - 1]) + 1, Len(f[j])) = Units(ms[j])
<1> HIDE DEF Good
<1>5. ASSUME NEW n \in 0..Len(ms) PROVE Good(n)
  <2> DEFINE Bad == {m \in 0..Len(ms) : ~ Good(m)}
  <2>1. SUFFICES ASSUME Bad # {} PROVE FALSE
    OBVIOUS
  <2>2. Bad \subseteq Nat
    BY <1>1
  <2>3. PICK k \in Bad : \A j \in Bad : k <= j
    BY <2>1, <2>2, LeastNatural
  <2>4. Good(0)
    <3>1. f[0] \in Seq(W) /\ Len(f[0]) = 0
      BY <1>3
    <3>2. \A j \in 0..0 : j = 0
      OBVIOUS
    <3> QED BY <3>1, <3>2 DEF Good
  <2>5. k \in 1..Len(ms) /\ k - 1 \in 0..Len(ms) /\ k - 1 \in 0..k /\ ~ (k <= k - 1)
    BY <1>1, <2>3, <2>4
  <2>6. Good(k - 1)
    BY <2>3, <2>5
  <2>7. f[k] = f[k - 1] \o Units(ms[k]) /\ f[k - 1] \in Seq(W) /\ Units(ms[k]) \in Seq(W)
    BY <1>3, <1>4, <2>5, <2>6 DEF Good
  <2> DEFINE a == f[k - 1]
             b == Units(ms[k])
  <2>8. Len(b) = Size(ms[k]) /\ Size(ms[k]) \in Nat
    BY <1>4, <2>5
  <2>9. /\ f[k] \in Seq(W) /\ Len(a) \in Nat /\ Len(f[k]) = Len(a) + Len(b)
        /\ \A i \in 1..Len(a) : f[k][i] = a[i]
        /\ \A i \in 1..Len(b) : f[k][Len(a) + i] = b[i]
    <3> HIDE DEF a, b
    <3>1. f[k] = a \o b /\ a \in Seq(W) /\ b \in Seq(W)
      BY <2>7 DEF a, b
    <3> QED BY <3>1
  <2>10. ASSUME NEW j \in 0..k
         PROVE  /\ Len(f[j]) \in Nat /\ Len(f[j]) <= Len(f[k])
                /\ j # 0 => SubSeq(f[k], Len(f[j - 1]) + 1, Len(f[j])) = Units(ms[j])
    <3>1. CASE j = k
      <4>1. SubSeq(f[k], Len(a) + 1, Len(f[k])) = b
        <5> DEFINE x == Len(a)
                   y == Len(f[k])
                   t == f[k]
        <5>1. t \in Seq(W) /\ x \in Nat /\ y \in Nat /\ x <= y /\ y <= Len(t) /\ y - x = Len(b)
          BY <2>8, <2>9
        <5>2. b \in Seq(W) /\ \A i \in 1..Len(b) : t[x + i] = b[i]
          BY <2>7, <2>9
        <5> HIDE DEF x, y, t, b
        <5>3. /\ SubSeq(t, x + 1, y) \in Seq(W) /\ Len(SubSeq(t, x + 1, y)) = y - x
              /\ \A u \in 1..(y - x) : SubSeq(t, x + 1, y)[u] = t[x + u]
          BY <5>1, PieceIs
        <5>4. SubSeq(t, x + 1, y) = b
          BY <5>1, <5>2, <5>3, SeqEqual
        <5> QED BY <5>4 DEF x, y, t
      <4>2. Len(f[k]) \in Nat /\ Len(f[j]) = Len(f[k]) /\ Len(f[k]) <= Len(f[k])
        BY <2>8, <2>9, <3>1
      <4> HIDE DEF a, b
      <4>3. SubSeq(f[k], Len(f[k - 1]) + 1, Len(f[k])) = Units(ms[k])
        BY <4>1 DEF a, b
      <4> QED BY <3>1, <4>2, <4>3
    <3>2. CASE j # k
      <4>1. j \in 0..(k - 1) /\ (j # 0 => j - 1 \in 0..(k - 1))
        BY <2>5, <3>2
      <4>2. /\ Len(f[j]) \in Nat /\ Len(f[j]) <= Len(a)
            /\ j # 0 => SubSeq(a, Len(f[j - 1]) + 1, Len(f[j])) = Units(ms[j])
        BY <2>6, <4>1 DEF Good
      <4>3. ASSUME j # 0
            PROVE  SubSeq(f[k], Len(f[j - 1]) + 1, Len(f[j])) = SubSeq(a, Len(f[j - 1]) + 1, Len(f[j]))
        <5>1. Good(j - 1) /\ Good(j)
          <6>1. j \in 0..Len(ms) /\ j - 1 \in 0..Len(ms) /\ ~ (k <= j) /\ ~ (k <= j - 1)
            BY <1>1, <2>5, <4>1, <4>3
          <6> QED BY <2>3, <6>1
        <5>2. Len(f[j - 1]) \in Nat /\ Len(f[j - 1]) <= Len(f[j])
          <6>1. j - 1 \in 0..j
            BY <4>1, <4>3
          <6> QED BY <5>1, <6>1 DEF Good
        <5> DEFINE x == Len(f[j - 1])
                   y == Len(f[j])
                   t == f[k]
                   d == f[k - 1]
        <5>3. /\ x \in Nat /\ y \in Nat /\ x <= y /\ y <= Len(d) /\ y <= Len(t)
              /\ t \in Seq(W) /\ d \in Seq(W) /\ Len(d) \in Nat
              /\ \A i \in 1..Len(d) : t[i] = d[i]
          <6>1. t \in Seq(W) /\ d \in Seq(W) /\ Len(d) \in Nat /\ \A i \in 1..Len(d) : t[i] = d[i]
            BY <2>7, <2>9
          <6>2. x \in Nat /\ y \in Nat /\ x <= y /\ y <= Len(d)
            BY <4>2, <5>2
          <6>3. Len(t) = Len(d) + Len(b) /\ Len(b) \in Nat
            BY <2>8, <2>9
          <6> HIDE DEF x, y, t, d, b
          <6> QED BY <6>1, <6>2, <6>3
        <5> HIDE DEF x, y, t, d
        <5>4. /\ SubSeq(d, x + 1, y) \in Seq(W) /\ Len(SubSeq(d, x + 1, y)) = y - x
              /\ \A u \in 1..(y - x) : SubSeq(d, x + 1, y)[u] = d[x + u]
          BY <5>3, PieceIs
        <5>5. /\ SubSeq(t, x + 1, y) \in Seq(W) /\ Len(SubSeq(t, x + 1, y)) = y - x
              /\ \A u \in 1..(y - x) : SubSeq(t, x + 1, y)[u] = t[x + u]
          BY <5>3, PieceIs
        <5>6. \A u \in 1..(y - x) : d[x + u] = t[x + u]
          <6> TAKE u \in 1..(y - x)
          <6>1. x + u \in 1..Len(d)
            BY <5>3
          <6> QED BY <5>3, <6>1
        <5>7. SubSeq(t, x + 1, y) = SubSeq(d, x + 1, y)
          <6>1. Len(SubSeq(t, x + 1, y)) = Len(SubSeq(d, x + 1, y))
            BY <5>4, <5>5
          <6>2. \A u \in 1..Len(SubSeq(t, x + 1, y)) :
                  SubSeq(t, x + 1, y)[u] = SubSeq(d, x + 1, y)[u]
            BY <5>4, <5>5, <5>6
          <6> QED BY <5>4, <5>5, <6>1, <6>2, SeqEqual
        <5> QED BY <5>7 DEF x, y, t, d
      <4>4. Len(f[j]) <= Len(f[k])
        BY <2>8, <2>9, <4>2
      <4> QED BY <4>2, <4>3, <4>4
    <3> QED BY <3>1, <3>2
  <2>11. Good(k)
    <3>1. f[k] \in Seq(W) /\ Len(f[k]) = Len(f[k - 1]) + Size(ms[k])
      BY <2>8, <2>9
    <3> QED BY <2>10, <3>1 DEF Good
  <2> QED BY <2>3, <2>11
<1> DEFINE at == [j \in 0..Len(ms) |-> Len(f[j])]
<1>6. /\ at \in [0..Len(ms) -> Nat] /\ at[0] = 0 /\ at[Len(ms)] = Len(AllUnits(ms))
  <2>1. \A j \in 0..Len(ms) : Len(f[j]) \in Nat
    <3> TAKE j \in 0..Len(ms)
    <3>1. j \in 0..j
      BY <1>1
    <3> QED BY <1>5, <3>1 DEF Good
  <2>2. Len(f[0]) = 0 /\ 0 \in 0..Len(ms) /\ Len(ms) \in 0..Len(ms)
    BY <1>1, <1>3
  <2> QED BY <1>2, <2>1, <2>2
<1>7. ASSUME NEW j \in 1..Len(ms)
      PROVE  /\ at[j] = at[j - 1] + Size(ms[j]) /\ at[j] <= Len(AllUnits(ms))
             /\ SubSeq(AllUnits(ms), at[j - 1] + 1, at[j]) = Units(ms[j])
  <2>1. /\ j \in 0..Len(ms) /\ j - 1 \in 0..Len(ms) /\ j # 0 /\ Len(ms) \in 0..Len(ms)
    BY <1>1
  <2>2. at[j] = Len(f[j]) /\ at[j - 1] = Len(f[j - 1])
    BY <2>1
  <2>3. Len(f[j]) = Len(f[j - 1]) + Size(ms[j])
    BY <1>5, <2>1 DEF Good
  <2>4. Good(Len(ms))
    BY <1>5, <2>1
  <2>5. /\ Len(f[j]) <= Len(f[Len(ms)])
        /\ SubSeq(f[Len(ms)], Len(f[j - 1]) + 1, Len(f[j])) = Units(ms[j])
    BY <2>1, <2>4 DEF Good
  <2> QED BY <1>2, <2>2, <2>3, <2>5
<1>8. IsSeq(AllUnits(ms))
  <2>1. Good(Len(ms))
    BY <1>1, <1>5
  <2> QED BY <1>2, <2>1 DEF IsSeq, Good
<1> HIDE DEF at
<1>9. LaidOut(at, AllUnits(ms), ms)
  BY <1>6, <1>7 DEF LaidOut
<1> QED BY <1>8, <1>9

(* The transcripts up to ServerHello are sequences.                        *)
LEMMA HellosAre ==
    ASSUME NEW p, NEW o
    PROVE  IsSeq(Base(p, o)) /\ IsSeq(Hellos(p, o)) /\ IsSeq(RetryBase(p, o))
<1>1. IsSeq(<<>>) /\ IsSeq(MessageHash(<<FirstHello(o)>>))
  BY ShortSeq DEF MessageHash
<1>2. IsSeq(RetryBase(p, o))
  BY <1>1, AppendIs DEF RetryBase
<1>3. IsSeq(Base(p, o))
  BY <1>1, <1>2 DEF Base
<1>4. IsSeq(Append(Base(p, o), TheHello(p, o)))
  BY <1>3, AppendIs
<1>5. IsSeq(Hellos(p, o))
  BY <1>4, AppendIs DEF Hellos
<1> QED BY <1>2, <1>3, <1>5

(* The server's flight is the one the client expects, behind the hellos.   *)
LEMMA FlightIs ==
    ASSUME NEW o
    PROVE  /\ Flight(Hellos(peer, o), ServerShake(peer, o), Resumes(peer, o)) = Messages(peer, o)
           /\ Hellos(peer, o) \o Messages(peer, o) = Whole(peer, o)
<1> DEFINE T == Hellos(peer, o)
           K == ServerShake(peer, o)
           a == Extensions
           b == Request
           d == Certificate(peer)
           e == Signed(peer, o)
           f == ServerDone(peer, o)
           F == Flight(T, K, Resumes(peer, o))
<1>1. IsSeq(T) /\ IsSeq(<<a>>) /\ IsSeq(<<a, b>>) /\ IsSeq(<<a, d>>) /\ IsSeq(<<a, b, d>>)
      /\ IsSeq(<<a, d, e>>) /\ IsSeq(<<a, b, d, e>>)
  <2>1. /\ <<a>> \in Seq({a, b, d, e}) /\ <<a, b>> \in Seq({a, b, d, e})
        /\ <<a, d>> \in Seq({a, b, d, e}) /\ <<a, b, d>> \in Seq({a, b, d, e})
        /\ <<a, d, e>> \in Seq({a, b, d, e}) /\ <<a, b, d, e>> \in Seq({a, b, d, e})
    <3> HIDE DEF a, b, d, e
    <3> QED OBVIOUS
  <2> QED BY <2>1, HellosAre DEF IsSeq
<1>2. CASE Resumes(peer, o)
  <2>1. T \o <<a>> = WithExtensions(peer, o)
    BY <1>1, JoinOne DEF WithExtensions
  <2>2. F = Append(<<a>>, [type |-> "Finished", mac |-> Mac(FinishedKey(K), T \o <<a>>)])
    BY <1>2 DEF Flight, Extensions
  <2>3. F = Append(<<a>>, f)
    BY <1>2, <2>1, <2>2 DEF ServerDone, Unfinished
  <2>4. F = <<a, f>>
    BY <2>3, TupleIs
  <2>5. T \o Append(<<a>>, f) = Append(WithExtensions(peer, o), f)
    BY <1>1, <2>1, JoinAppend
  <2> QED BY <1>2, <2>3, <2>4, <2>5 DEF Messages, Whole, Unfinished
<1>3. CASE ~ Resumes(peer, o) /\ peer.asksCert
  <2>1. /\ <<a>> \o <<b>> = <<a, b>> /\ <<a, b>> \o <<d>> = <<a, b, d>>
        /\ <<a, b, d>> \o <<e>> = <<a, b, d, e>>
    <3> HIDE DEF a, b, d, e
    <3>1. /\ <<a>> \o <<b>> = Append(<<a>>, b) /\ <<a, b>> \o <<d>> = Append(<<a, b>>, d)
          /\ <<a, b, d>> \o <<e>> = Append(<<a, b, d>>, e)
      BY <1>1, JoinOne
    <3>2. Append(<<a>>, b) = <<a, b>> /\ Append(<<a, b>>, d) = <<a, b, d>>
      BY TupleIs
    <3>3. Append(<<a, b, d>>, e) = <<a, b, d, e>>
      BY TupleIs
    <3> QED BY <3>1, <3>2, <3>3
  <2>2. /\ T \o <<a>> = WithExtensions(peer, o)
        /\ WithExtensions(peer, o) \o <<b>> = WithRequest(peer, o)
        /\ WithRequest(peer, o) \o <<d>> = WithCertificate(peer, o)
    <3>1. IsSeq(WithExtensions(peer, o)) /\ IsSeq(WithRequest(peer, o))
      BY <1>1, AppendIs DEF WithExtensions, WithRequest
    <3>2. T \o <<a>> = WithExtensions(peer, o)
      BY <1>1, JoinOne DEF WithExtensions
    <3>3. WithExtensions(peer, o) \o <<b>> = WithRequest(peer, o)
      BY <1>3, <3>1, JoinOne DEF WithRequest
    <3>4. WithRequest(peer, o) \o <<d>> = WithCertificate(peer, o)
      BY <3>1, JoinOne DEF WithCertificate
    <3> QED BY <3>2, <3>3, <3>4
  <2>3. F = LET vrf == <<[type |-> "CertificateVerify", over |-> T \o <<a>> \o <<b>> \o <<d>>]>>
                all == <<a>> \o <<b>> \o <<d>> \o vrf
            IN Append(all, [type |-> "Finished", mac |-> Mac(FinishedKey(K), T \o all)])
    BY <1>3 DEF Flight, Extensions, Request, Certificate
  <2>4. [type |-> "CertificateVerify", over |-> T \o <<a>> \o <<b>> \o <<d>>] = e
    <3>1. T \o <<a>> \o <<b>> \o <<d>> = WithCertificate(peer, o)
      BY <2>2
    <3> QED BY <3>1 DEF Signed
  <2>5. T \o <<a, b, d, e>> = Unfinished(peer, o)
    <3>1. T \o Append(<<a>>, b) = Append(T \o <<a>>, b)
      BY <1>1, JoinAppend
    <3>2. T \o Append(<<a, b>>, d) = Append(T \o <<a, b>>, d)
      BY <1>1, JoinAppend
    <3>3. T \o Append(<<a, b, d>>, e) = Append(T \o <<a, b, d>>, e)
      BY <1>1, JoinAppend
    <3>4. Append(WithExtensions(peer, o), b) = WithRequest(peer, o)
      BY <1>3 DEF WithRequest
    <3>5. /\ Append(<<a>>, b) = <<a, b>> /\ Append(<<a, b>>, d) = <<a, b, d>>
          /\ Append(<<a, b, d>>, e) = <<a, b, d, e>>
      <4> HIDE DEF a, b, d, e
      <4>1. Append(<<a>>, b) = <<a, b>> /\ Append(<<a, b>>, d) = <<a, b, d>>
        BY TupleIs
      <4>2. Append(<<a, b, d>>, e) = <<a, b, d, e>>
        BY TupleIs
      <4> QED BY <4>1, <4>2
    <3>6. T \o <<a, b, d, e>> = Append(Append(WithRequest(peer, o), d), e)
      <4> HIDE DEF T, a, b, d, e
      <4> QED BY <2>2, <3>1, <3>2, <3>3, <3>4, <3>5
    <3> QED BY <1>3, <3>6 DEF Unfinished, WithCertificate
  <2>6. F = Append(<<a, b, d, e>>, f)
    <3>1. F = Append(<<a, b, d, e>>, [type |-> "Finished", mac |-> Mac(FinishedKey(K), T \o <<a, b, d, e>>)])
      BY <2>1, <2>3, <2>4
    <3> QED BY <2>5, <3>1 DEF ServerDone
  <2>7. T \o Append(<<a, b, d, e>>, f) = Append(T \o <<a, b, d, e>>, f)
    BY <1>1, JoinAppend
  <2>8. Append(<<a, b, d, e>>, f) = <<a, b, d, e, f>>
    BY TupleIs
  <2> QED BY <1>3, <2>5, <2>6, <2>7, <2>8 DEF Messages, Whole
<1>4. CASE ~ Resumes(peer, o) /\ ~ peer.asksCert
  <2>1. /\ <<a>> \o <<>> = <<a>> /\ <<a>> \o <<d>> = <<a, d>>
        /\ <<a, d>> \o <<e>> = <<a, d, e>>
    <3> HIDE DEF a, d, e
    <3>1. /\ <<a>> \o <<>> = <<a>> /\ <<a>> \o <<d>> = Append(<<a>>, d)
          /\ <<a, d>> \o <<e>> = Append(<<a, d>>, e)
      BY <1>1, JoinOne
    <3>2. Append(<<a>>, d) = <<a, d>> /\ Append(<<a, d>>, e) = <<a, d, e>>
      BY TupleIs
    <3> QED BY <3>1, <3>2
  <2>2. /\ T \o <<a>> = WithExtensions(peer, o)
        /\ WithExtensions(peer, o) \o <<>> = WithRequest(peer, o)
        /\ WithRequest(peer, o) \o <<d>> = WithCertificate(peer, o)
    <3>1. IsSeq(WithExtensions(peer, o)) /\ IsSeq(WithRequest(peer, o))
      BY <1>1, AppendIs DEF WithExtensions, WithRequest
    <3>2. T \o <<a>> = WithExtensions(peer, o)
      BY <1>1, JoinOne DEF WithExtensions
    <3>3. WithExtensions(peer, o) \o <<>> = WithRequest(peer, o)
      BY <1>4, <3>1, JoinOne DEF WithRequest
    <3>4. WithRequest(peer, o) \o <<d>> = WithCertificate(peer, o)
      BY <3>1, JoinOne DEF WithCertificate
    <3> QED BY <3>2, <3>3, <3>4
  <2>3. F = LET vrf == <<[type |-> "CertificateVerify", over |-> T \o <<a>> \o <<>> \o <<d>>]>>
                all == <<a>> \o <<>> \o <<d>> \o vrf
            IN Append(all, [type |-> "Finished", mac |-> Mac(FinishedKey(K), T \o all)])
    BY <1>4 DEF Flight, Extensions, Certificate
  <2>4. [type |-> "CertificateVerify", over |-> T \o <<a>> \o <<>> \o <<d>>] = e
    <3>1. T \o <<a>> \o <<>> \o <<d>> = WithCertificate(peer, o)
      BY <2>2
    <3> QED BY <3>1 DEF Signed
  <2>5. T \o <<a, d, e>> = Unfinished(peer, o)
    <3>1. T \o Append(<<a>>, d) = Append(T \o <<a>>, d)
      BY <1>1, JoinAppend
    <3>2. T \o Append(<<a, d>>, e) = Append(T \o <<a, d>>, e)
      BY <1>1, JoinAppend
    <3>3. WithExtensions(peer, o) = WithRequest(peer, o)
      BY <1>4 DEF WithRequest
    <3>4. T \o <<a, d, e>> = Append(Append(WithRequest(peer, o), d), e)
      BY <2>2, <3>1, <3>2, <3>3, TupleIs
    <3> QED BY <1>4, <3>4 DEF Unfinished, WithCertificate
  <2>6. F = Append(<<a, d, e>>, f)
    <3>1. F = Append(<<a, d, e>>, [type |-> "Finished", mac |-> Mac(FinishedKey(K), T \o <<a, d, e>>)])
      BY <2>1, <2>3, <2>4
    <3> QED BY <2>5, <3>1 DEF ServerDone
  <2>7. T \o Append(<<a, d, e>>, f) = Append(T \o <<a, d, e>>, f)
    BY <1>1, JoinAppend
  <2>8. Append(<<a, d, e>>, f) = <<a, d, e, f>>
    BY TupleIs
  <2> QED BY <1>4, <2>5, <2>6, <2>7, <2>8 DEF Messages, Whole
<1> QED BY <1>2, <1>3, <1>4

(* The flight is a sequence of units, and At lays its messages out in it.  *)
LEMMA StreamIs ==
    ASSUME NEW p \in Peers, NEW o
    PROVE  /\ IsSeq(Stream(p, o)) /\ Len(Stream(p, o)) \in Nat
           /\ LaidOut(At(p, o), Stream(p, o), Messages(p, o))
<1>1. IsSeq(Messages(p, o)) /\ \A j \in 1..Len(Messages(p, o)) : Size(Messages(p, o)[j]) \in Nat
  BY MessagesAre
<1>2. IsSeq(Stream(p, o)) /\ \E at : LaidOut(at, Stream(p, o), Messages(p, o))
  BY <1>1, Layout DEF Stream
<1>3. Len(Stream(p, o)) \in Nat
  BY <1>2, AppendIs
<1> QED BY <1>2, <1>3 DEF At

-------------------------------------------------------------------------------
(* What the client finds in plain_buf.                                     *)

(* The first unit of a message names it.                                   *)
LEMMA OneUnit ==
    ASSUME NEW m, Size(m) \in Nat \ {0}
    PROVE  Units(m)[1] = [msg |-> m, unit |-> 1] /\ Units(m)[1].msg = m
<1>1. 1 \in 1..Size(m)
  OBVIOUS
<1> QED BY <1>1 DEF Units

(* At the end of the jth message the next is at the front, once it is      *)
(* whole; until then less than all of it is there.                         *)
LEMMA FrontIs ==
    ASSUME NEW p \in Peers, NEW o, NEW j \in Nat, j + 1 <= Len(Messages(p, o)),
           NEW top \in 0..Len(Stream(p, o)), At(p, o)[j] <= top,
           NEW plain, plain = Piece(p, o, At(p, o)[j], top)
    PROVE  /\ Len(plain) = top - At(p, o)[j] /\ Len(plain) \in Nat
           /\ HasMessage(plain) =>
                /\ FrontMessage(plain) = Messages(p, o)[j + 1]
                /\ At(p, o)[j + 1] \in 0..top
                /\ BehindMessage(plain) = Piece(p, o, At(p, o)[j + 1], top)
                /\ Len(BehindMessage(plain)) \in 0..Len(plain)
           /\ ~ HasMessage(plain) =>
                plain = <<>> \/ Len(plain) < Size(Messages(p, o)[j + 1])
<1> DEFINE S == Stream(p, o)
           a == At(p, o)[j]
           b == At(p, o)[j + 1]
           m == Messages(p, o)[j + 1]
<1>1. PICK V : S \in Seq(V)
  BY StreamIs DEF IsSeq
<1>2. j + 1 \in 1..Len(Messages(p, o)) /\ j \in 0..Len(Messages(p, o)) /\ j + 1 - 1 = j
  <2>1. Len(Messages(p, o)) \in Nat
    BY MessagesAre, AppendIs
  <2> QED BY <2>1
<1>3. /\ a \in Nat /\ b = a + Size(m) /\ b <= Len(S) /\ SubSeq(S, a + 1, b) = Units(m)
      /\ Size(m) \in Nat \ {0}
  <2>1. LaidOut(At(p, o), S, Messages(p, o))
    BY StreamIs
  <2>2. a \in Nat
    BY <1>2, <2>1 DEF LaidOut
  <2>3. b = At(p, o)[j + 1 - 1] + Size(m) /\ b <= Len(S)
        /\ SubSeq(S, At(p, o)[j + 1 - 1] + 1, b) = Units(m)
    BY <1>2, <2>1 DEF LaidOut
  <2>4. Size(m) \in Nat \ {0}
    BY <1>2, MessagesAre
  <2> QED BY <1>2, <2>2, <2>3, <2>4
<1>4. Units(m)[1].msg = m
  BY <1>3, OneUnit
<1>5. Len(S) \in Nat /\ top \in Nat /\ top <= Len(S) /\ a <= top /\ plain = SubSeq(S, a + 1, top)
      /\ b \in Nat
  BY <1>1, <1>3 DEF Piece
<1> HIDE DEF S, a, b, m
<1>6. /\ plain \in Seq(V) /\ Len(plain) = top - a
      /\ \A u \in 1..(top - a) : plain[u] = S[a + u]
      /\ a = top <=> plain = <<>>
  <2>1. a \in Nat /\ top \in Nat /\ a <= top /\ top <= Len(S) /\ S \in Seq(V)
    BY <1>1, <1>3, <1>5
  <2>2. /\ SubSeq(S, a + 1, top) \in Seq(V) /\ Len(SubSeq(S, a + 1, top)) = top - a
        /\ \A u \in 1..(top - a) : SubSeq(S, a + 1, top)[u] = S[a + u]
        /\ a = top <=> SubSeq(S, a + 1, top) = <<>>
    BY <2>1, PieceIs
  <2>3. plain = SubSeq(S, a + 1, top)
    BY <1>5
  <2> QED BY <2>2, <2>3
<1>7. \A u \in 1..(b - a) : Units(m)[u] = S[a + u]
  <2>1. a \in Nat /\ b \in Nat /\ a <= b /\ b <= Len(S) /\ S \in Seq(V)
    BY <1>1, <1>3, <1>5
  <2>2. \A u \in 1..(b - a) : SubSeq(S, a + 1, b)[u] = S[a + u]
    BY <2>1, PieceIs
  <2> QED BY <1>3, <2>2
<1>8. plain # <<>> => plain[1].msg = m
  <2>1. ASSUME plain # <<>> PROVE plain[1] = Units(m)[1]
    <3>1. 1 \in 1..(top - a) /\ 1 \in 1..(b - a)
      BY <1>3, <1>5, <1>6, <2>1
    <3> QED BY <1>6, <1>7, <3>1
  <2> QED BY <1>4, <2>1
<1>9. HasMessage(plain) <=> plain # <<>> /\ top - a >= Size(m)
  BY <1>6, <1>8 DEF HasMessage
<1>10. ASSUME HasMessage(plain)
       PROVE  /\ FrontMessage(plain) = m /\ b \in 0..top
              /\ BehindMessage(plain) = SubSeq(S, b + 1, top)
              /\ Len(BehindMessage(plain)) \in 0..Len(plain)
  <2>1. plain[1].msg = m /\ a <= b /\ b <= top /\ b - a = Size(m)
    <3>1. plain # <<>> /\ top - a >= Size(m)
      BY <1>9, <1>10
    <3>2. a \in Nat /\ b = a + Size(m) /\ Size(m) \in Nat
      BY <1>3
    <3>3. a <= b /\ b <= top /\ b - a = Size(m)
      BY <1>5, <3>1, <3>2
    <3> QED BY <1>8, <3>1, <3>3
  <2>2. /\ SubSeq(plain, 1, b - a) = SubSeq(S, a + 1, b)
        /\ SubSeq(plain, b - a + 1, top - a) = SubSeq(S, b + 1, top)
    <3>1. a \in Nat /\ b \in Nat /\ top \in Nat /\ a <= b /\ b <= top /\ top <= Len(S)
      BY <1>3, <1>5, <2>1
    <3>2. /\ SubSeq(SubSeq(S, a + 1, top), 1, b - a) = SubSeq(S, a + 1, b)
          /\ SubSeq(SubSeq(S, a + 1, top), b - a + 1, top - a) = SubSeq(S, b + 1, top)
      BY <1>1, <3>1, PiecesCut
    <3>3. plain = SubSeq(S, a + 1, top)
      BY <1>5
    <3> QED BY <3>2, <3>3
  <2>3. FrontMessage(plain) = m
    BY <1>3, <2>1, <2>2 DEF FrontMessage
  <2>4. BehindMessage(plain) = SubSeq(S, b + 1, top)
    BY <1>6, <2>1, <2>2 DEF BehindMessage
  <2>5. Len(SubSeq(S, b + 1, top)) = top - b
    BY <1>1, <1>5, <2>1, PieceIs
  <2>6. b \in 0..top /\ top - b \in 0..(top - a)
    <3>1. a \in Nat /\ b \in Nat /\ top \in Nat
      BY <1>3, <1>5
    <3> QED BY <2>1, <3>1
  <2>7. Len(plain) = top - a
    BY <1>6
  <2> QED BY <2>3, <2>4, <2>5, <2>6, <2>7
<1>11. ~ HasMessage(plain) => plain = <<>> \/ Len(plain) < Size(m)
  <2>1. Size(m) \in Nat /\ top - a \in Nat
    BY <1>3, <1>5
  <2>2. Len(plain) = top - a
    BY <1>6
  <2> QED BY <1>9, <2>1, <2>2
<1>12. Len(plain) \in Nat
  <2>1. a \in Nat /\ top \in Nat /\ a <= top
    BY <1>3, <1>5
  <2> QED BY <1>6, <2>1
<1> QED BY <1>6, <1>10, <1>11, <1>12 DEF S, a, b, m, Piece

-------------------------------------------------------------------------------
(* The way of the flight, step by step.                                    *)

(* The server sends the next record.                                       *)
LEMMA CarriedSend ==
    ASSUME NEW p \in Peers, NEW o, NEW n, NEW plain, NEW seq, NEW recs, NEW v, NEW w,
           Carried(n, plain, seq, recs, v, p, o), v.phase = "flight",
           NEW k \in 1..MaxFragment, k <= Len(v.flight),
           \/ /\ k < Len(v.flight) /\ w.phase = "flight"
              /\ w.flight = SubSeq(v.flight, k + 1, Len(v.flight)) /\ w.write = Used(v.write)
           \/ k = Len(v.flight) /\ w.phase = "waits"
    PROVE  Carried(n, plain, seq, Append(recs, Sealed(v.write, SubSeq(v.flight, 1, k))), w, p, o)
<1> DEFINE S == Stream(p, o)
           L == Len(S)
           N == Len(recs)
           rec == Sealed(v.write, SubSeq(v.flight, 1, k))
           more == Append(recs, rec)
           K == ServerShake(p, o)
<1>1. PICK V : S \in Seq(V)
  BY StreamIs DEF IsSeq
<1>2. IsSeq(recs) /\ seq \in Nat
  BY DEF Carried
<1>3. PICK cut \in [0..N -> 0..L] :
         /\ n <= cut[0] /\ plain = Piece(p, o, n, cut[0])
         /\ seq = 0 => cut[0] = 0
         /\ \A i \in 1..N :
              /\ cut[i - 1] < cut[i] /\ cut[i] - cut[i - 1] <= MaxFragment
              /\ recs[i] = Sealed([secret |-> K, seq |-> seq + i - 1],
                                  Piece(p, o, cut[i - 1], cut[i]))
         /\ v.flight = Piece(p, o, cut[N], L)
         /\ v.write = [secret |-> K, seq |-> seq + N]
  BY DEF Carried
<1>4. /\ IsSeq(more) /\ N \in Nat /\ Len(more) = N + 1 /\ more[N + 1] = rec
      /\ \A i \in 1..N : more[i] = recs[i]
  BY <1>2, AppendIs
<1>5. L \in Nat /\ MaxFragment \in Nat
  BY <1>1, Constants
<1> DEFINE top == cut[N]
<1>6. top \in Nat /\ top <= L
  BY <1>3, <1>4, <1>5
<1> HIDE DEF S, L, N, rec, more, K, top
<1>7. Len(v.flight) = L - top /\ v.flight = SubSeq(S, top + 1, L)
  <2>1. v.flight = SubSeq(S, top + 1, L)
    BY <1>3 DEF Piece, top, S, L
  <2>2. L \in Nat /\ L <= Len(S)
    BY <1>5 DEF L
  <2> QED BY <1>1, <1>6, <2>1, <2>2, PieceIs
<1> DEFINE next == top + k
<1>8. next \in Nat /\ top < next /\ next <= L /\ k \in Nat /\ next - top = k /\ k <= MaxFragment
  BY <1>5, <1>6, <1>7
<1>9. /\ SubSeq(v.flight, 1, k) = Piece(p, o, top, next)
      /\ SubSeq(v.flight, k + 1, Len(v.flight)) = Piece(p, o, next, L)
  <2>1. L \in Nat /\ L <= Len(S) /\ top <= next
    <3>1. L \in Nat /\ L <= Len(S)
      BY <1>5 DEF L
    <3>2. top <= next
      BY <1>6, <1>8
    <3> QED BY <3>1, <3>2
  <2> HIDE DEF next
  <2>2. /\ SubSeq(SubSeq(S, top + 1, L), 1, next - top) = SubSeq(S, top + 1, next)
        /\ SubSeq(SubSeq(S, top + 1, L), next - top + 1, L - top) = SubSeq(S, next + 1, L)
    BY <1>1, <1>6, <1>8, <2>1, PiecesCut
  <2> QED BY <1>7, <1>8, <2>2 DEF Piece, S
<1> DEFINE f == [i \in 0..(N + 1) |-> IF i = N + 1 THEN next ELSE cut[i]]
<1>10. f \in [0..Len(more) -> 0..L] /\ f[0] = cut[0] /\ f[N + 1] = next
  <2>1. \A i \in 0..(N + 1) : i # N + 1 => i \in 0..N
    BY <1>4
  <2>2. 0 \in 0..(N + 1) /\ 0 # N + 1 /\ N + 1 \in 0..(N + 1)
    BY <1>4
  <2>3. \A i \in 0..(N + 1) : f[i] \in 0..L
    BY <1>3, <1>5, <1>8, <2>1 DEF N, L, S
  <2> QED BY <1>4, <2>2, <2>3
<1>11. ASSUME NEW i \in 1..(N + 1)
       PROVE  /\ f[i - 1] < f[i] /\ f[i] - f[i - 1] <= MaxFragment
              /\ more[i] = Sealed([secret |-> K, seq |-> seq + i - 1], Piece(p, o, f[i - 1], f[i]))
  <2>1. CASE i = N + 1
    <3>1. i - 1 = N /\ N \in 0..(N + 1) /\ N # N + 1 /\ i \in 0..(N + 1)
      BY <1>4, <2>1
    <3>2. f[i] = next /\ f[i - 1] = top
      BY <2>1, <3>1 DEF top
    <3>3. rec = Sealed([secret |-> K, seq |-> seq + N], Piece(p, o, top, next))
      BY <1>3, <1>9 DEF rec, K, N
    <3>4. seq + N = seq + i - 1
      BY <1>2, <1>4, <2>1
    <3> QED BY <1>4, <1>8, <2>1, <3>2, <3>3, <3>4
  <2>2. CASE i # N + 1
    <3>1. i \in 1..N /\ i \in 0..(N + 1) /\ i - 1 \in 0..(N + 1) /\ i - 1 # N + 1
      BY <1>4, <2>2
    <3>2. f[i] = cut[i] /\ f[i - 1] = cut[i - 1]
      BY <2>2, <3>1
    <3> QED BY <1>3, <1>4, <3>1, <3>2 DEF N, K
  <2> QED BY <2>1, <2>2
<1>12. \/ /\ w.phase = "flight" /\ w.flight = Piece(p, o, f[N + 1], L)
          /\ w.write = [secret |-> K, seq |-> seq + (N + 1)] /\ f[N + 1] < L
       \/ w.phase = "waits" /\ f[N + 1] = L
  <2>1. CASE k < Len(v.flight) /\ w.phase = "flight"
    <3>1. w.flight = Piece(p, o, next, L) /\ next < L
      <4>1. w.flight = Piece(p, o, next, L)
        BY <1>9, <2>1
      <4>2. k < L - top
        BY <1>7, <2>1
      <4>3. next < L
        BY <1>5, <1>6, <1>8, <4>2
      <4> QED BY <4>1, <4>3
    <3>2. Used(v.write) = [secret |-> K, seq |-> seq + N + 1] /\ seq + N + 1 = seq + (N + 1)
      BY <1>2, <1>3, <1>4 DEF Used, K, N
    <3> QED BY <1>10, <2>1, <3>1, <3>2
  <2>2. CASE k = Len(v.flight) /\ w.phase = "waits"
    <3>1. next = L
      BY <1>5, <1>6, <1>7, <2>2
    <3> QED BY <1>10, <2>2, <3>1
  <2> QED BY <2>1, <2>2
<1> HIDE DEF f, next
<1>13. \E g \in [0..Len(more) -> 0..L] :
         /\ n <= g[0] /\ plain = Piece(p, o, n, g[0])
         /\ seq = 0 => g[0] = 0
         /\ \A i \in 1..Len(more) :
              /\ g[i - 1] < g[i] /\ g[i] - g[i - 1] <= MaxFragment
              /\ more[i] = Sealed([secret |-> K, seq |-> seq + i - 1],
                                  Piece(p, o, g[i - 1], g[i]))
         /\ \/ /\ w.phase = "flight" /\ w.flight = Piece(p, o, g[Len(more)], L)
               /\ w.write = [secret |-> K, seq |-> seq + Len(more)]
               /\ g[Len(more)] < L
            \/ w.phase = "waits" /\ g[Len(more)] = L
  <2> f \in [0..Len(more) -> 0..L]
    BY <1>10
  <2> WITNESS f \in [0..Len(more) -> 0..L]
  <2>1. n <= f[0] /\ plain = Piece(p, o, n, f[0]) /\ (seq = 0 => f[0] = 0)
    BY <1>3, <1>10
  <2> QED BY <1>4, <1>11, <1>12, <2>1
<1> QED BY <1>2, <1>4, <1>13 DEF Carried, more, rec, L, S, K

(* The client opens the first of the records.                              *)
LEMMA CarriedRead ==
    ASSUME NEW p \in Peers, NEW o, NEW n \in Nat, NEW plain, NEW seq, NEW recs, NEW v,
           Carried(n, plain, seq, recs, v, p, o), recs # <<>>
    PROVE  \E d : /\ recs = Then(Sealed([secret |-> ServerShake(p, o), seq |-> seq], d), Following(recs))
                  /\ Len(d) \in 0..MaxFragment /\ Len(plain) \in Nat
                  /\ Len(plain \o d) = Len(plain) + Len(d)
                  /\ Carried(n, plain \o d, seq + 1, Following(recs), v, p, o)
<1> DEFINE S == Stream(p, o)
           L == Len(S)
           N == Len(recs)
           rest == Following(recs)
           K == ServerShake(p, o)
<1>1. PICK V : S \in Seq(V)
  BY StreamIs DEF IsSeq
<1>2. IsSeq(recs) /\ seq \in Nat
  BY DEF Carried
<1>3. PICK cut \in [0..N -> 0..L] :
         /\ n <= cut[0] /\ plain = Piece(p, o, n, cut[0])
         /\ \A i \in 1..N :
              /\ cut[i - 1] < cut[i] /\ cut[i] - cut[i - 1] <= MaxFragment
              /\ recs[i] = Sealed([secret |-> K, seq |-> seq + i - 1],
                                  Piece(p, o, cut[i - 1], cut[i]))
         /\ \/ /\ v.phase = "flight" /\ v.flight = Piece(p, o, cut[N], L)
               /\ v.write = [secret |-> K, seq |-> seq + N]
               /\ cut[N] < L
            \/ v.phase = "waits" /\ cut[N] = L
  BY DEF Carried
<1>4. PICK R : recs \in Seq(R)
  BY <1>2 DEF IsSeq
<1>5. /\ N \in Nat \ {0} /\ rest \in Seq(R) /\ Len(rest) = N - 1
      /\ \A i \in 1..(N - 1) : rest[i] = recs[i + 1]
      /\ recs[1] \in R
  BY <1>4, EmptySeq, HeadTailProperties DEF Following
<1>6. recs = Then(recs[1], rest)
  BY <1>2, FollowingIs
<1> DEFINE a == cut[0]
           b == cut[1]
           d == Piece(p, o, a, b)
<1>7. L \in Nat /\ MaxFragment \in Nat
  BY <1>1, Constants
<1>8. a \in Nat /\ b \in Nat /\ a < b /\ b <= L /\ b - a <= MaxFragment /\ n <= a
  <2>1. 0 \in 0..N /\ 1 \in 0..N /\ 1 \in 1..N /\ 1 - 1 = 0
    BY <1>5
  <2>2. cut[1 - 1] < cut[1] /\ cut[1] - cut[1 - 1] <= MaxFragment
    BY <1>3, <2>1
  <2> QED BY <1>3, <1>7, <2>1, <2>2
<1>9. recs[1] = Sealed([secret |-> K, seq |-> seq], d)
  <2>1. 1 \in 1..N /\ 1 - 1 = 0 /\ seq + 1 - 1 = seq
    BY <1>2, <1>5
  <2> QED BY <1>3, <2>1
<1> HIDE DEF S, L, N, rest, K
<1>10. plain \o d = Piece(p, o, n, b) /\ Len(plain) = a - n /\ Len(d) = b - a
      /\ Len(plain \o d) = Len(plain) + Len(d)
  <2> HIDE DEF a, b, d
  <2>1. plain = SubSeq(S, n + 1, a) /\ d = SubSeq(S, a + 1, b)
    BY <1>3 DEF Piece, d, a, S
  <2>2. b <= Len(S) /\ a <= Len(S) /\ a <= b
    BY <1>7, <1>8 DEF L
  <2>3. plain \o d = SubSeq(S, n + 1, b)
    BY <1>1, <1>8, <2>1, <2>2, PiecesJoin
  <2>4. Len(plain) = a - n /\ Len(d) = b - a
    BY <1>1, <1>8, <2>1, <2>2, PieceIs
  <2>5. Len(SubSeq(S, n + 1, b)) = b - n
    <3>1. n <= b
      BY <1>8
    <3> QED BY <1>1, <1>8, <2>2, <3>1, PieceIs
  <2>6. a - n + (b - a) = b - n
    BY <1>8
  <2> QED BY <2>3, <2>4, <2>5, <2>6 DEF Piece, S
<1> DEFINE f == [i \in 0..(N - 1) |-> cut[i + 1]]
<1>11. f \in [0..Len(rest) -> 0..L] /\ f[0] = b /\ f[N - 1] = cut[N]
  <2>1. \A i \in 0..(N - 1) : i + 1 \in 0..N
    BY <1>5
  <2>2. 0 \in 0..(N - 1) /\ N - 1 \in 0..(N - 1) /\ N - 1 + 1 = N /\ 0 + 1 = 1
    BY <1>5
  <2>3. \A i \in 0..(N - 1) : f[i] \in 0..L
    BY <1>3, <2>1 DEF N, L, S
  <2>4. f[0] = cut[0 + 1] /\ f[N - 1] = cut[N - 1 + 1]
    BY <2>2
  <2>5. DOMAIN f = 0..Len(rest)
    BY <1>5
  <2> QED BY <1>5, <2>2, <2>3, <2>4, <2>5
<1>12. ASSUME NEW i \in 1..(N - 1)
       PROVE  /\ f[i - 1] < f[i] /\ f[i] - f[i - 1] <= MaxFragment
              /\ rest[i] = Sealed([secret |-> K, seq |-> seq + 1 + i - 1], Piece(p, o, f[i - 1], f[i]))
  <2>1. i + 1 \in 1..N /\ i \in 0..(N - 1) /\ i - 1 \in 0..(N - 1) /\ i - 1 + 1 = i /\ i + 1 - 1 = i
    BY <1>5
  <2>2. f[i] = cut[i + 1] /\ f[i - 1] = cut[i]
    BY <2>1
  <2>3. /\ cut[i + 1 - 1] < cut[i + 1] /\ cut[i + 1] - cut[i + 1 - 1] <= MaxFragment
        /\ recs[i + 1] = Sealed([secret |-> K, seq |-> seq + (i + 1) - 1],
                                Piece(p, o, cut[i + 1 - 1], cut[i + 1]))
    BY <1>3, <2>1 DEF N, K
  <2>4. seq + (i + 1) - 1 = seq + 1 + i - 1
    BY <1>2
  <2> QED BY <1>5, <2>1, <2>2, <2>3, <2>4
<1>13. \/ /\ v.phase = "flight" /\ v.flight = Piece(p, o, f[N - 1], L)
          /\ v.write = [secret |-> K, seq |-> seq + 1 + (N - 1)] /\ f[N - 1] < L
       \/ v.phase = "waits" /\ f[N - 1] = L
  <2>1. seq + 1 + (N - 1) = seq + N
    BY <1>2, <1>5
  <2> QED BY <1>3, <1>11, <2>1 DEF L, N, S, K
<1> HIDE DEF f
<1>14. Carried(n, plain \o d, seq + 1, rest, v, p, o)
  <2>1. \E g \in [0..Len(rest) -> 0..L] :
         /\ n <= g[0] /\ plain \o d = Piece(p, o, n, g[0])
         /\ seq + 1 = 0 => g[0] = 0
         /\ \A i \in 1..Len(rest) :
              /\ g[i - 1] < g[i] /\ g[i] - g[i - 1] <= MaxFragment
              /\ rest[i] = Sealed([secret |-> K, seq |-> seq + 1 + i - 1],
                                  Piece(p, o, g[i - 1], g[i]))
         /\ \/ /\ v.phase = "flight" /\ v.flight = Piece(p, o, g[Len(rest)], L)
               /\ v.write = [secret |-> K, seq |-> seq + 1 + Len(rest)]
               /\ g[Len(rest)] < L
            \/ v.phase = "waits" /\ g[Len(rest)] = L
    <3> f \in [0..Len(rest) -> 0..L]
      BY <1>11
    <3> WITNESS f \in [0..Len(rest) -> 0..L]
    <3>1. n <= f[0] /\ plain \o d = Piece(p, o, n, f[0]) /\ (seq + 1 = 0 => f[0] = 0)
      <4>1. n <= b /\ seq + 1 # 0
        BY <1>2, <1>8
      <4> QED BY <1>10, <1>11, <4>1
    <3>2. \A i \in 1..Len(rest) :
              /\ f[i - 1] < f[i] /\ f[i] - f[i - 1] <= MaxFragment
              /\ rest[i] = Sealed([secret |-> K, seq |-> seq + 1 + i - 1],
                                  Piece(p, o, f[i - 1], f[i]))
      BY <1>5, <1>12
    <3> QED BY <1>5, <1>13, <3>1, <3>2
  <2>2. IsSeq(rest) /\ seq + 1 \in Nat
    BY <1>2, <1>5 DEF IsSeq
  <2> QED BY <2>1, <2>2 DEF Carried, L, S, K
<1>15. Len(d) \in 0..MaxFragment /\ Len(plain) \in Nat
  BY <1>7, <1>8, <1>10
<1>16. recs = Then(Sealed([secret |-> K, seq |-> seq], d), rest)
  BY <1>6, <1>9
<1> HIDE DEF a, b, d
<1> QED BY <1>10, <1>14, <1>15, <1>16 DEF K, rest

(* It takes the next message, when that is whole.                          *)
LEMMA CarriedTake ==
    ASSUME NEW p \in Peers, NEW o, NEW j \in Nat, j + 1 <= Len(Messages(p, o)),
           NEW plain, NEW seq, NEW recs, NEW v,
           Carried(At(p, o)[j], plain, seq, recs, v, p, o)
    PROVE  /\ Len(plain) \in Nat
           /\ HasMessage(plain) =>
                /\ FrontMessage(plain) = Messages(p, o)[j + 1]
                /\ Carried(At(p, o)[j + 1], BehindMessage(plain), seq, recs, v, p, o)
                /\ Len(BehindMessage(plain)) \in 0..Len(plain)
           /\ ~ HasMessage(plain) =>
                plain = <<>> \/ Len(plain) < Size(Messages(p, o)[j + 1])
<1> DEFINE L == Len(Stream(p, o))
           N == Len(recs)
<1>1. IsSeq(recs) /\ seq \in Nat /\ N \in Nat
  <2>1. IsSeq(recs) /\ seq \in Nat
    BY DEF Carried
  <2> QED BY <2>1, AppendIs
<1>2. PICK cut \in [0..N -> 0..L] :
         /\ At(p, o)[j] <= cut[0] /\ plain = Piece(p, o, At(p, o)[j], cut[0])
         /\ seq = 0 => cut[0] = 0
         /\ \A i \in 1..N :
              /\ cut[i - 1] < cut[i] /\ cut[i] - cut[i - 1] <= MaxFragment
              /\ recs[i] = Sealed([secret |-> ServerShake(p, o), seq |-> seq + i - 1],
                                  Piece(p, o, cut[i - 1], cut[i]))
         /\ \/ /\ v.phase = "flight" /\ v.flight = Piece(p, o, cut[N], L)
               /\ v.write = [secret |-> ServerShake(p, o), seq |-> seq + N]
               /\ cut[N] < L
            \/ v.phase = "waits" /\ cut[N] = L
  BY DEF Carried
<1>3. cut[0] \in 0..L
  BY <1>1, <1>2
<1>4. /\ Len(plain) = cut[0] - At(p, o)[j] /\ Len(plain) \in Nat
      /\ HasMessage(plain) =>
                /\ FrontMessage(plain) = Messages(p, o)[j + 1]
                /\ At(p, o)[j + 1] \in 0..cut[0]
                /\ BehindMessage(plain) = Piece(p, o, At(p, o)[j + 1], cut[0])
                /\ Len(BehindMessage(plain)) \in 0..Len(plain)
      /\ ~ HasMessage(plain) =>
                plain = <<>> \/ Len(plain) < Size(Messages(p, o)[j + 1])
  BY <1>2, <1>3, FrontIs
<1>5. ASSUME HasMessage(plain)
      PROVE  Carried(At(p, o)[j + 1], BehindMessage(plain), seq, recs, v, p, o)
  <2>1. At(p, o)[j + 1] <= cut[0] /\ BehindMessage(plain) = Piece(p, o, At(p, o)[j + 1], cut[0])
    BY <1>3, <1>4, <1>5
  <2> QED BY <1>1, <1>2, <2>1 DEF Carried
<1> QED BY <1>4, <1>5

(* And then a record has been read.                                        *)
LEMMA CarriedStarted ==
    ASSUME NEW p \in Peers, NEW o, NEW j \in Nat, j + 1 <= Len(Messages(p, o)),
           NEW plain, NEW seq, NEW recs, NEW v, HasMessage(plain),
           Carried(At(p, o)[j], plain, seq, recs, v, p, o)
    PROVE  seq # 0
<1>1. SUFFICES ASSUME seq = 0 PROVE FALSE
  OBVIOUS
<1>2. PICK cut \in [0..Len(recs) -> 0..Len(Stream(p, o))] :
         /\ At(p, o)[j] <= cut[0] /\ plain = Piece(p, o, At(p, o)[j], cut[0])
         /\ cut[0] = 0
  BY <1>1 DEF Carried
<1>3. At(p, o)[j] \in Nat
  <2>1. Len(Messages(p, o)) \in Nat
    BY MessagesAre, AppendIs
  <2>2. LaidOut(At(p, o), Stream(p, o), Messages(p, o)) /\ j \in 0..Len(Messages(p, o))
    BY <2>1, StreamIs
  <2> QED BY <2>2 DEF LaidOut
<1>4. At(p, o)[j] = 0 /\ plain = Piece(p, o, 0, 0)
  BY <1>2, <1>3
<1>5. Piece(p, o, 0, 0) = <<>>
  <2>1. PICK V : Stream(p, o) \in Seq(V)
    BY StreamIs DEF IsSeq
  <2>2. 0 \in Nat /\ 0 <= 0 /\ 0 <= Len(Stream(p, o))
    BY <2>1
  <2>3. SubSeq(Stream(p, o), 0 + 1, 0) = <<>>
    BY <2>1, <2>2, PieceIs
  <2> QED BY <2>3 DEF Piece
<1> QED BY <1>4, <1>5 DEF HasMessage

(* Nothing is left on the way behind the last message.                     *)
LEMMA CarriedEnd ==
    ASSUME NEW p \in Peers, NEW o, NEW plain, NEW seq, NEW recs, NEW v,
           Carried(At(p, o)[Len(Messages(p, o))], plain, seq, recs, v, p, o)
    PROVE  plain = <<>> /\ recs = <<>> /\ v.phase = "waits"
<1> DEFINE S == Stream(p, o)
           L == Len(S)
           N == Len(recs)
<1>1. /\ IsSeq(recs) /\ N \in Nat /\ L \in Nat /\ At(p, o)[Len(Messages(p, o))] = L
      /\ \E V : S \in Seq(V)
  <2>1. IsSeq(recs)
    BY DEF Carried
  <2>2. LaidOut(At(p, o), S, Messages(p, o)) /\ IsSeq(S)
    BY StreamIs
  <2> QED BY <2>1, <2>2, AppendIs DEF LaidOut, IsSeq
<1>2. PICK cut \in [0..N -> 0..L] :
         /\ L <= cut[0] /\ plain = Piece(p, o, L, cut[0])
         /\ \A i \in 1..N : cut[i - 1] < cut[i]
         /\ \/ v.phase = "flight" /\ cut[N] < L
            \/ v.phase = "waits" /\ cut[N] = L
  BY <1>1 DEF Carried
<1>3. cut[0] = L
  <2>1. cut[0] \in 0..L
    BY <1>1, <1>2
  <2> QED BY <1>1, <1>2, <2>1
<1>4. N = 0
  <2>1. SUFFICES ASSUME N # 0 PROVE FALSE
    OBVIOUS
  <2>2. 1 \in 1..N /\ 1 \in 0..N /\ 1 - 1 = 0
    BY <1>1, <2>1
  <2>3. cut[1 - 1] < cut[1] /\ cut[1] \in 0..L
    BY <1>2, <2>2
  <2> QED BY <1>1, <1>3, <2>2, <2>3
<1>5. plain = <<>>
  <2>1. PICK V : S \in Seq(V)
    BY <1>1
  <2>2. SubSeq(S, L + 1, L) = <<>>
    <3>1. L <= L
      BY <1>1
    <3> QED BY <1>1, <2>1, <3>1, PieceIs
  <2> QED BY <1>2, <1>3, <2>2 DEF Piece
<1>6. recs = <<>>
  BY <1>1, <1>4, EmptySeq DEF IsSeq
<1>7. v.phase = "waits"
  BY <1>1, <1>2, <1>3, <1>4
<1> QED BY <1>5, <1>6, <1>7

-------------------------------------------------------------------------------
(* Which stages a step can be taken in.                                    *)

(* The fields of a client that has not begun.                              *)
LEMMA NewClientIs ==
    ASSUME NEW k, k = NewClient(k.offer)
    PROVE  /\ DOMAIN k = ClientFields /\ k.phase = "SendClientHello" /\ k.transcript = <<>>
           /\ k.hellos = 0 /\ k.hrrReceived = FALSE /\ k.random = 0 /\ k.cookie = FALSE
           /\ k.accepted = FALSE /\ k.plain = <<>> /\ k.unsent = FALSE /\ k.pending = FALSE
           /\ k.recv = <<>> /\ k.ticket = None /\ k.error = "none" /\ k.outcome = "none"
  BY DEF NewClient, ClientFields

(* The fields of a server that has not begun.                              *)
LEMMA NewServerIs ==
    /\ DOMAIN NewServer = ServerFields /\ NewServer.phase = "start" /\ NewServer.psk = FALSE
    /\ NewServer.transcript = <<>>
  BY DEF NewServer, ServerFields

(* By what the client waits for.                                           *)
LEMMA ClientStage ==
    ASSUME NEW k, NEW v, NEW p, NEW q, NEW w, Stage(k, v, p, q, w)
    PROVE  /\ k.outcome = "none" /\ ~ k.unsent /\ k.phase = "SendClientHello" =>
                Fresh(k, v, q, w) \/ GreetingAgain(k, v, p, q, w)
           /\ k.outcome = "none" /\ k.unsent =>
                \/ Greeting(k, v, q, w) \/ GreetingAgain(k, v, p, q, w)
                \/ Finishing(k, v, p, q, w)
           /\ k.outcome = "none" /\ ~ k.unsent /\ k.phase = "RecvServerHello" =>
                \/ Greeting(k, v, q, w) \/ TurnedAway(k, v, p, q, w) \/ AskedAgain(k, v, p, q, w)
                \/ GreetingAgain(k, v, p, q, w) \/ Answered(k, v, p, q, w)
           /\ k.outcome = "none" /\ k.phase \in Encrypted => Reading(k, v, p, q, w)
           /\ k.outcome = "none" /\ k.phase = "SendFinished" => Finishing(k, v, p, q, w)
           /\ k.outcome \in {"none", "open"} /\ k.phase = "Complete" =>
                \/ Finishing(k, v, p, q, w) \/ Over(k, v, p, q, w) \/ Objected(k, v, p, q, w)
           /\ k.outcome = "open" => k.phase = "Complete"
<1> USE DEF Encrypted
<1>1. CASE Fresh(k, v, q, w)
  BY <1>1, NewClientIs DEF Fresh
<1>2. CASE Greeting(k, v, q, w)
  BY <1>2 DEF Greeting, SaidFirst, Unkeyed, Trying
<1>3. CASE TurnedAway(k, v, p, q, w)
  BY <1>3 DEF TurnedAway, SaidFirst, Unkeyed, Trying
<1>4. CASE FellBack(k, v, p, q)
  BY <1>4 DEF FellBack
<1>5. CASE AskedAgain(k, v, p, q, w)
  BY <1>5 DEF AskedAgain, SaidFirst, Unkeyed, Trying
<1>6. CASE NoGroupNamed(k, v, p, q)
  BY <1>6 DEF NoGroupNamed
<1>7. CASE GreetingAgain(k, v, p, q, w)
  BY <1>7 DEF GreetingAgain, WasAsked, SaidSecond, Unkeyed, Trying
<1>8. CASE Answered(k, v, p, q, w)
  BY <1>8 DEF Answered, SaidAll, Unkeyed, Trying
<1>9. CASE Reading(k, v, p, q, w)
  BY <1>9 DEF Reading, Keyed, Trying, HasTaken
<1>10. CASE GaveUp(k, v, p, q)
  BY <1>10 DEF GaveUp
<1>11. CASE Finishing(k, v, p, q, w)
  BY <1>11 DEF Finishing, ToFinish, Finished, Trying
<1>12. CASE Over(k, v, p, q, w)
  BY <1>12 DEF Over, Finished
<1>13. CASE Objected(k, v, p, q, w)
  BY <1>13 DEF Objected, Finished
<1> QED BY <1>1, <1>2, <1>3, <1>4, <1>5, <1>6, <1>7, <1>8, <1>9, <1>10, <1>11, <1>12, <1>13
        DEF Stage

(* By what the server waits for.                                           *)
LEMMA ServerStage ==
    ASSUME NEW k, NEW v, NEW p, NEW q, NEW w, Stage(k, v, p, q, w)
    PROVE  /\ v.phase = "start" => Fresh(k, v, q, w) \/ Greeting(k, v, q, w)
           /\ v.phase = "retry" =>
                \/ AskedAgain(k, v, p, q, w) \/ NoGroupNamed(k, v, p, q)
                \/ GreetingAgain(k, v, p, q, w)
           /\ v.phase = "flight" =>
                \/ Answered(k, v, p, q, w) \/ Reading(k, v, p, q, w) \/ GaveUp(k, v, p, q)
           /\ v.phase = "waits" =>
                \/ Answered(k, v, p, q, w) \/ Reading(k, v, p, q, w) \/ GaveUp(k, v, p, q)
                \/ Finishing(k, v, p, q, w)
<1>1. CASE Fresh(k, v, q, w) \/ Greeting(k, v, q, w)
  BY <1>1, NewServerIs DEF Fresh, Greeting
<1>2. CASE TurnedAway(k, v, p, q, w) \/ FellBack(k, v, p, q)
  BY <1>2 DEF TurnedAway, FellBack
<1>3. CASE AskedAgain(k, v, p, q, w) \/ NoGroupNamed(k, v, p, q) \/ GreetingAgain(k, v, p, q, w)
  BY <1>3 DEF AskedAgain, NoGroupNamed, GreetingAgain, Asking
<1>4. CASE Answered(k, v, p, q, w) \/ Reading(k, v, p, q, w) \/ GaveUp(k, v, p, q)
  BY <1>4 DEF Answered, Reading, GaveUp, Serving
<1>5. CASE Finishing(k, v, p, q, w) \/ Over(k, v, p, q, w) \/ Objected(k, v, p, q, w)
  BY <1>5 DEF Finishing, Over, Objected
<1> QED BY <1>1, <1>2, <1>3, <1>4, <1>5 DEF Stage

(* No stage but the first asks what of the wire the client has read.       *)
LEMMA RecvOnly ==
    ASSUME NEW k, DOMAIN k = ClientFields, NEW x, NEW k2, k2 = [k EXCEPT !.recv = x]
    PROVE  /\ DOMAIN k2 = ClientFields /\ k2.recv = x /\ k2.phase = k.phase
           /\ k2.transcript = k.transcript /\ k2.offer = k.offer /\ k2.share = k.share
           /\ k2.hellos = k.hellos /\ k2.hrrGroup = k.hrrGroup
           /\ k2.hrrReceived = k.hrrReceived /\ k2.random = k.random /\ k2.cookie = k.cookie
           /\ k2.accepted = k.accepted /\ k2.secret = k.secret
           /\ k2.clientSecret = k.clientSecret /\ k2.serverSecret = k.serverSecret
           /\ k2.resMaster = k.resMaster /\ k2.read = k.read /\ k2.write = k.write
           /\ k2.plain = k.plain /\ k2.msg = k.msg /\ k2.unsent = k.unsent
           /\ k2.pending = k.pending /\ k2.pkey = k.pkey /\ k2.ticket = k.ticket
           /\ k2.error = k.error /\ k2.outcome = k.outcome
  BY DEF ClientFields

(* What is said of the client does not ask what it has read into its       *)
(* buffer.                                                                 *)
LEMMA PartsSame ==
    ASSUME NEW k, DOMAIN k = ClientFields, NEW x, NEW k2, k2 = [k EXCEPT !.recv = x], NEW p
    PROVE  /\ SaidFirst(k) => SaidFirst(k2)
           /\ WasAsked(k, p) => WasAsked(k2, p)
           /\ SaidSecond(k, p) => SaidSecond(k2, p)
           /\ SaidAll(k, p) => SaidAll(k2, p)
           /\ Keyed(k, p) => Keyed(k2, p)
           /\ \A j : HasTaken(k, p, j) => HasTaken(k2, p, j)
           /\ ToFinish(k, p) => ToFinish(k2, p)
           /\ Finished(k, p) => Finished(k2, p)
<1>1. /\ Trying(k) => Trying(k2)
      /\ Checked(k, p) => Checked(k2, p)
  BY RecvOnly DEF Trying, Checked
<1>2. Unkeyed(k) => Unkeyed(k2)
  BY <1>1, RecvOnly DEF Unkeyed
<1>3. SaidFirst(k) => SaidFirst(k2)
  BY <1>2, RecvOnly DEF SaidFirst
<1>4. WasAsked(k, p) => WasAsked(k2, p)
  BY <1>2, RecvOnly DEF WasAsked
<1>5. SaidSecond(k, p) => SaidSecond(k2, p)
  BY <1>2, RecvOnly DEF SaidSecond
<1>6. SaidAll(k, p) => SaidAll(k2, p)
  BY <1>2, RecvOnly DEF SaidAll
<1>7. Keyed(k, p) => Keyed(k2, p)
  BY <1>1, RecvOnly DEF Keyed
<1>8. ASSUME NEW j, HasTaken(k, p, j) PROVE HasTaken(k2, p, j)
  BY <1>8, RecvOnly DEF HasTaken
<1>9. ToFinish(k, p) => ToFinish(k2, p)
  BY <1>1, RecvOnly DEF ToFinish
<1>10. Finished(k, p) => Finished(k2, p)
  BY <1>1, RecvOnly DEF Finished
<1> QED BY <1>3, <1>4, <1>5, <1>6, <1>7, <1>8, <1>9, <1>10

(* Nor does any stage but the first, as long as what is on its way stays.  *)
LEMMA StageSame ==
    ASSUME NEW k, DOMAIN k = ClientFields, NEW x, NEW k2, k2 = [k EXCEPT !.recv = x],
           NEW v, NEW p, NEW q, NEW w, Stage(k, v, p, q, w), k.phase # "SendClientHello"
    PROVE  Stage(k2, v, p, q, w)
<1>1. ~ Fresh(k, v, q, w)
  BY NewClientIs DEF Fresh
<1>2. /\ k2.phase = k.phase /\ k2.offer = k.offer /\ k2.hellos = k.hellos /\ k2.read = k.read
      /\ k2.plain = k.plain /\ k2.msg = k.msg /\ k2.unsent = k.unsent /\ k2.ticket = k.ticket
      /\ k2.error = k.error /\ k2.outcome = k.outcome
  BY RecvOnly
<1>3. /\ SaidFirst(k) => SaidFirst(k2)
      /\ WasAsked(k, p) => WasAsked(k2, p)
      /\ SaidSecond(k, p) => SaidSecond(k2, p)
      /\ SaidAll(k, p) => SaidAll(k2, p)
      /\ Keyed(k, p) => Keyed(k2, p)
      /\ \A j : HasTaken(k, p, j) => HasTaken(k2, p, j)
      /\ ToFinish(k, p) => ToFinish(k2, p)
      /\ Finished(k, p) => Finished(k2, p)
  BY PartsSame
<1>4. CASE Greeting(k, v, q, w)
  BY <1>2, <1>3, <1>4 DEF Stage, Greeting
<1>5. CASE TurnedAway(k, v, p, q, w)
  BY <1>2, <1>3, <1>5 DEF Stage, TurnedAway
<1>6. CASE FellBack(k, v, p, q)
  BY <1>2, <1>6 DEF Stage, FellBack
<1>7. CASE AskedAgain(k, v, p, q, w)
  BY <1>2, <1>3, <1>7 DEF Stage, AskedAgain
<1>8. CASE NoGroupNamed(k, v, p, q)
  BY <1>2, <1>8 DEF Stage, NoGroupNamed
<1>9. CASE GreetingAgain(k, v, p, q, w)
  BY <1>2, <1>3, <1>9 DEF Stage, GreetingAgain
<1>10. CASE Answered(k, v, p, q, w)
  BY <1>2, <1>3, <1>10 DEF Stage, Answered
<1>11. CASE Reading(k, v, p, q, w)
  BY <1>2, <1>3, <1>11 DEF Stage, Reading
<1>12. CASE GaveUp(k, v, p, q)
  BY <1>2, <1>12 DEF Stage, GaveUp
<1>13. CASE Finishing(k, v, p, q, w)
  BY <1>2, <1>3, <1>13 DEF Stage, Finishing
<1>14. CASE Over(k, v, p, q, w)
  BY <1>2, <1>3, <1>14 DEF Stage, Over
<1>15. CASE Objected(k, v, p, q, w)
  BY <1>2, <1>3, <1>15 DEF Stage, Objected
<1> QED BY <1>1, <1>4, <1>5, <1>6, <1>7, <1>8, <1>9, <1>10, <1>11, <1>12, <1>13, <1>14, <1>15
        DEF Stage

-------------------------------------------------------------------------------
(* What is at the front of the wire.                                       *)

Wire == c.recv \o toClient

(* What the client has read, and the wire behind it, is a first record and *)
(* the rest.                                                               *)
LEMMA WireIs ==
    ASSUME NEW r, NEW t, IsSeq(r), IsSeq(t), r # <<>>
    PROVE  /\ IsSeq(Following(r)) /\ IsSeq(Following(r) \o t)
           /\ r \o t = Then(r[1], Following(r) \o t)
<1>1. IsSeq(Following(r)) /\ r = Then(r[1], Following(r))
  BY FollowingIs
<1>2. Then(r[1], Following(r)) \o t = Then(r[1], Following(r) \o t)
  BY <1>1, ThenIs
<1>3. IsSeq(Following(r) \o t)
  BY <1>1, JoinIs
<1> QED BY <1>1, <1>2, <1>3

(* Two sequences are the same only with the same first item and the same   *)
(* rest.                                                                   *)
LEMMA SameFront ==
    ASSUME NEW a, NEW b, NEW x, NEW y, IsSeq(b), IsSeq(y), Then(x, y) = Then(a, b)
    PROVE  x = a /\ y = b
<1>1. Then(a, b)[1] = a /\ Following(Then(a, b)) = b
  BY ThenIs
<1>2. Then(x, y)[1] = x /\ Following(Then(x, y)) = y
  BY ThenIs
<1> QED BY <1>1, <1>2

(* A ChangeCipherSpec is there, in front of the rest, or is not.           *)
LEMMA CCSIs ==
    ASSUME NEW ccs \in MaybeCCS, NEW z, IsSeq(z)
    PROVE  /\ IsSeq(ccs) /\ IsSeq(ccs \o z)
           /\ \/ ccs = <<>> /\ ccs \o z = z
              \/ ccs = Then(ChangeCipherSpec, <<>>) /\ ccs \o z = Then(ChangeCipherSpec, z)
<1>1. CASE ccs = <<>>
  <2>1. IsSeq(<<>>) /\ <<>> \o z = z
    BY ShortSeq, JoinOne
  <2> QED BY <1>1, <2>1
<1>2. CASE ccs = <<ChangeCipherSpec>>
  <2>1. IsSeq(<<>>) /\ <<>> \o z = z
    BY ShortSeq, JoinOne
  <2>2. ccs = Then(ChangeCipherSpec, <<>>)
    BY <1>2, ThenIs
  <2>3. ccs \o z = Then(ChangeCipherSpec, z) /\ IsSeq(ccs)
    <3> DEFINE e == <<>>
    <3> HIDE DEF e
    <3>3. IsSeq(e)
      BY <2>1 DEF e
    <3>4. Then(ChangeCipherSpec, e) \o z = Then(ChangeCipherSpec, e \o z)
      BY <3>3, ThenIs
    <3>1. Then(ChangeCipherSpec, <<>>) \o z = Then(ChangeCipherSpec, <<>> \o z)
      BY <3>4 DEF e
    <3>2. IsSeq(Then(ChangeCipherSpec, <<>>))
      BY <2>1, ThenIs
    <3> QED BY <2>1, <2>2, <3>1, <3>2
  <2>4. IsSeq(Then(ChangeCipherSpec, z))
    BY ThenIs
  <2> QED BY <2>2, <2>3, <2>4
<1> QED BY <1>1, <1>2 DEF MaybeCCS

(* Nothing but a lone ChangeCipherSpec is one record and a MaybeCCS.       *)
LEMMA NothingFollows ==
    ASSUME NEW x, NEW y, IsSeq(y)
    PROVE  /\ Then(x, y) # <<>> /\ <<>> \in MaybeCCS /\ IsSeq(<<>>)
           /\ Then(x, y) \in MaybeCCS => x = ChangeCipherSpec /\ y = <<>>
<1>1. Then(x, y) # <<>> /\ IsSeq(<<>>)
  BY ThenIs, ShortSeq
<1>2. ASSUME Then(x, y) = <<ChangeCipherSpec>> PROVE x = ChangeCipherSpec /\ y = <<>>
  <2>1. Then(ChangeCipherSpec, <<>>) = <<ChangeCipherSpec>>
    BY ThenIs
  <2> QED BY <1>1, <1>2, <2>1, SameFront
<1> QED BY <1>1, <1>2 DEF MaybeCCS

(* The record types, told apart.                                           *)
LEMMA TypesDiffer ==
    /\ ChangeCipherSpec.type = "ccs" /\ Alert.type = "alert"
    /\ \A m : Plain(m).type = "handshake" /\ Plain(m).data = Units(m)
    /\ \A k, d : /\ Sealed(k, d).type = "sealed" /\ Sealed(k, d).key = k
                 /\ Sealed(k, d).data = d
  BY DEF ChangeCipherSpec, Alert, Plain, Sealed

(* The records that are read before there is a key.                        *)
LEMMA PlainIs ==
    ASSUME NEW m, m.type # "Certificate"
    PROVE  Plain(m).data[1].msg = m
<1>1. Size(m) = 1
  BY DEF Size
<1>2. Units(m)[1].msg = m
  <2>1. Size(m) \in Nat \ {0}
    BY <1>1
  <2> QED BY <2>1, OneUnit
<1> QED BY <1>2, TypesDiffer

(* The messages the client may get before it has a key, told apart.        *)
LEMMA HellosDiffer ==
    /\ Plain(OldHello).data[1].msg.type = "ServerHello12"
    /\ \A p : /\ Plain(TheRetry(p)).data[1].msg = TheRetry(p)
              /\ TheRetry(p).type = "HelloRetryRequest" /\ TheRetry(p).cookie = p.cookie
              /\ TheRetry(p).group = RetryGroup(p)
    /\ \A p, o : /\ Plain(Answer(p, o)).data[1].msg = Answer(p, o)
                 /\ Answer(p, o).type = "ServerHello" /\ Answer(p, o).psk = Resumes(p, o)
                 /\ Answer(p, o).share = [group |-> TheShare(p).group, n |-> 0]
<1>1. OldHello.type = "ServerHello12" /\ Plain(OldHello).data[1].msg = OldHello
  <2>1. OldHello.type = "ServerHello12"
    BY DEF OldHello
  <2> QED BY <2>1, PlainIs
<1>2. ASSUME NEW p
      PROVE  /\ Plain(TheRetry(p)).data[1].msg = TheRetry(p)
             /\ TheRetry(p).type = "HelloRetryRequest" /\ TheRetry(p).cookie = p.cookie
             /\ TheRetry(p).group = RetryGroup(p)
  <2>1. /\ TheRetry(p).type = "HelloRetryRequest" /\ TheRetry(p).cookie = p.cookie
        /\ TheRetry(p).group = RetryGroup(p)
    BY DEF TheRetry
  <2> QED BY <2>1, PlainIs
<1>3. ASSUME NEW p, NEW o
      PROVE  /\ Plain(Answer(p, o)).data[1].msg = Answer(p, o)
             /\ Answer(p, o).type = "ServerHello" /\ Answer(p, o).psk = Resumes(p, o)
             /\ Answer(p, o).share = [group |-> TheShare(p).group, n |-> 0]
  <2>1. /\ Answer(p, o).type = "ServerHello" /\ Answer(p, o).psk = Resumes(p, o)
        /\ Answer(p, o).share = [group |-> TheShare(p).group, n |-> 0]
    BY DEF Answer
  <2> QED BY <2>1, PlainIs
<1> QED BY <1>1, <1>2, <1>3

(* What a client that waits for ServerHello finds there: x, and then y.    *)
LEMMA FrontOfHellos ==
    ASSUME NEW k, NEW v, NEW p, NEW q, NEW x, NEW y, IsSeq(y)
    PROVE  /\ ~ Fresh(k, v, q, Then(x, y)) /\ ~ Greeting(k, v, q, Then(x, y))
           /\ TurnedAway(k, v, p, q, Then(x, y)) =>
                y = <<>> /\ (x = Plain(OldHello) \/ x = Alert)
           /\ AskedAgain(k, v, p, q, Then(x, y)) => x = Plain(TheRetry(p)) /\ y \in MaybeCCS
           /\ GreetingAgain(k, v, p, q, Then(x, y)) =>
                x = ChangeCipherSpec /\ y = <<>> /\ GreetingAgain(k, v, p, q, y)
           /\ Answered(k, v, p, q, Then(x, y)) =>
                \/ x = ChangeCipherSpec /\ Answered(k, v, p, q, y)
                \/ /\ x = Plain(Answer(p, k.offer))
                   /\ \E behind \in MaybeCCS : \E recs :
                        y = behind \o recs /\ Carried(0, <<>>, 0, recs, v, p, k.offer)
<1>0. Then(x, y) # <<>> /\ <<>> \in MaybeCCS /\ IsSeq(<<>>)
  BY NothingFollows
<1>1. ~ Fresh(k, v, q, Then(x, y)) /\ ~ Greeting(k, v, q, Then(x, y))
  BY <1>0 DEF Fresh, Greeting
<1>2. ASSUME TurnedAway(k, v, p, q, Then(x, y))
      PROVE  y = <<>> /\ (x = Plain(OldHello) \/ x = Alert)
  <2>1. Then(x, y) = Then(Plain(OldHello), <<>>) \/ Then(x, y) = Then(Alert, <<>>)
    BY <1>2 DEF TurnedAway
  <2>2. ASSUME NEW a, Then(x, y) = Then(a, <<>>) PROVE x = a /\ y = <<>>
    BY <1>0, <2>2, SameFront
  <2> QED BY <2>1, <2>2
<1>3. ASSUME AskedAgain(k, v, p, q, Then(x, y)) PROVE x = Plain(TheRetry(p)) /\ y \in MaybeCCS
  <2>1. PICK ccs \in MaybeCCS : Then(x, y) = Then(Plain(TheRetry(p)), ccs)
    BY <1>3 DEF AskedAgain
  <2>2. IsSeq(ccs)
    BY <1>0, CCSIs
  <2> QED BY <2>1, <2>2, SameFront
<1>4. ASSUME GreetingAgain(k, v, p, q, Then(x, y))
      PROVE  x = ChangeCipherSpec /\ y = <<>> /\ GreetingAgain(k, v, p, q, y)
  <2>1. Then(x, y) \in MaybeCCS
    BY <1>4 DEF GreetingAgain
  <2>2. x = ChangeCipherSpec /\ y = <<>>
    BY <2>1, NothingFollows
  <2> QED BY <1>0, <1>4, <2>2 DEF GreetingAgain
<1>5. ASSUME Answered(k, v, p, q, Then(x, y))
      PROVE  \/ x = ChangeCipherSpec /\ Answered(k, v, p, q, y)
             \/ /\ x = Plain(Answer(p, k.offer))
                /\ \E behind \in MaybeCCS : \E recs :
                     y = behind \o recs /\ Carried(0, <<>>, 0, recs, v, p, k.offer)
  <2>0. PICK before \in MaybeCCS, behind \in MaybeCCS :
         \E recs : /\ Then(x, y) = before \o Then(Plain(Answer(p, k.offer)), behind \o recs)
                   /\ Carried(0, <<>>, 0, recs, v, p, k.offer)
    BY <1>5 DEF Answered
  <2>1. PICK recs :
          /\ Then(x, y) = before \o Then(Plain(Answer(p, k.offer)), behind \o recs)
          /\ Carried(0, <<>>, 0, recs, v, p, k.offer)
    BY <2>0
  <2> DEFINE z == Then(Plain(Answer(p, k.offer)), behind \o recs)
  <2>2. IsSeq(recs)
    BY <2>1 DEF Carried
  <2>3. IsSeq(behind \o recs)
    BY <2>2, CCSIs
  <2>4. IsSeq(z)
    BY <2>3, ThenIs
  <2>5. Then(x, y) = before \o z
    BY <2>1
  <2>6. \/ before \o z = z
        \/ before \o z = Then(ChangeCipherSpec, z)
    <3> HIDE DEF z
    <3> QED BY <2>4, CCSIs
  <2>7. CASE before \o z = z
    <3>1. x = Plain(Answer(p, k.offer)) /\ y = behind \o recs
      <4>1. Then(x, y) = Then(Plain(Answer(p, k.offer)), behind \o recs)
        BY <2>5, <2>7
      <4> DEFINE d == behind \o recs
                 a == Plain(Answer(p, k.offer))
      <4>2. IsSeq(d) /\ Then(x, y) = Then(a, d)
        BY <2>3, <4>1
      <4> HIDE DEF a, d
      <4>3. x = a /\ y = d
        BY <4>2, SameFront
      <4> QED BY <4>3 DEF a, d
    <3> QED BY <2>1, <3>1
  <2>8. CASE before \o z = Then(ChangeCipherSpec, z)
    <3>1. x = ChangeCipherSpec /\ y = z
      <4> HIDE DEF z
      <4> QED BY <2>4, <2>5, <2>8, SameFront
    <3>2. <<>> \o z = z
      <4> HIDE DEF z
      <4> QED BY <2>4, JoinOne
    <3>3. y = <<>> \o Then(Plain(Answer(p, k.offer)), behind \o recs)
      BY <3>1, <3>2
    <3>4. Answered(k, v, p, q, y)
      BY <1>0, <1>5, <2>1, <3>3 DEF Answered
    <3> QED BY <3>1, <3>4
  <2> QED BY <2>6, <2>7, <2>8
<1> QED BY <1>1, <1>2, <1>3, <1>4, <1>5

-------------------------------------------------------------------------------
(* The actions keep the invariant.  First, what is read of the wire.       *)

(* More of the wire comes into the client's buffer.                        *)
LEMMA ReceiveInv == ASSUME IInv, Receive PROVE IInv'
<1>1. PICK n \in 1..Len(toClient) :
         /\ c' = [c EXCEPT !.recv = Arrived(n)]
         /\ toClient' = SubSeq(toClient, n + 1, Len(toClient))
  BY DEF Receive
<1>2. UNCHANGED <<s, peer, toServer>> /\ c.recv = <<>> /\ c.phase # "SendClientHello"
  BY DEF Receive, Encrypted
<1>3. Shapes /\ Stage(c, s, peer, toServer, Wire)
  BY DEF IInv, Wire
<1>4. /\ DOMAIN c = ClientFields /\ IsSeq(toClient)
  BY <1>3 DEF Shapes
<1>5. n \in 0..Len(toClient)
  <2>1. Len(toClient) \in Nat
    BY <1>4, AppendIs
  <2> QED BY <2>1
<1>6. /\ IsSeq(Arrived(n)) /\ IsSeq(toClient') /\ Arrived(n) \o toClient' = toClient
  BY <1>1, <1>4, <1>5, Parted DEF Arrived
<1>7. Wire = toClient
  BY <1>2, <1>4, JoinOne DEF Wire
<1>8. c'.recv = Arrived(n) /\ DOMAIN c' = ClientFields /\ c'.plain = c.plain /\ c'.offer = c.offer
  BY <1>1, <1>4, RecvOnly
<1>9. Stage(c', s, peer, toServer, toClient)
  BY <1>1, <1>2, <1>3, <1>4, <1>7, StageSame
<1>10. Shapes'
  BY <1>2, <1>3, <1>6, <1>8 DEF Shapes
<1> QED BY <1>2, <1>6, <1>8, <1>9, <1>10 DEF IInv

(* What a step that reads a record starts from.                            *)
LEMMA ReadsFrom ==
    ASSUME IInv, c.recv # <<>>
    PROVE  /\ Shapes /\ DOMAIN c = ClientFields /\ peer \in Peers
           /\ IsSeq(Following(c.recv)) /\ IsSeq(Following(c.recv) \o toClient)
           /\ Following(c.recv) = Behind /\ IsSeq(toClient)
           /\ Stage(c, s, peer, toServer, Then(c.recv[1], Following(c.recv) \o toClient))
<1>1. Shapes /\ Stage(c, s, peer, toServer, c.recv \o toClient)
  BY DEF IInv
<1>2. DOMAIN c = ClientFields /\ peer \in Peers /\ IsSeq(c.recv) /\ IsSeq(toClient)
  BY <1>1 DEF Shapes
<1> QED BY <1>1, <1>2, WireIs DEF Behind, Following

(* A ChangeCipherSpec before ServerHello is dropped.                       *)
LEMMA SkipCCSInv == ASSUME IInv, SkipCCS PROVE IInv'
<1>1. PICK n \in 0..Len(toClient) :
         /\ c' = [c EXCEPT !.recv = Behind \o Arrived(n)]
         /\ toClient' = SubSeq(toClient, n + 1, Len(toClient))
  BY DEF SkipCCS, BehindCCS
<1>2. /\ UNCHANGED <<s, peer, toServer>> /\ c.recv # <<>> /\ c.recv[1].type = "ccs"
      /\ c.phase = "RecvServerHello" /\ c.outcome = "none" /\ ~ c.unsent
  BY DEF SkipCCS, HeadIs, Runs
<1> DEFINE x == c.recv[1]
           y == Following(c.recv) \o toClient
<1>3. /\ Shapes /\ DOMAIN c = ClientFields /\ IsSeq(Following(c.recv)) /\ IsSeq(y)
      /\ Following(c.recv) = Behind /\ IsSeq(toClient)
      /\ Stage(c, s, peer, toServer, Then(x, y))
  BY <1>2, ReadsFrom
<1>4. /\ IsSeq(Arrived(n)) /\ IsSeq(toClient') /\ Arrived(n) \o toClient' = toClient
  BY <1>1, <1>3, Parted DEF Arrived
<1>5. Stage(c, s, peer, toServer, y)
  <2> HIDE DEF x, y
  <2>1. \/ Greeting(c, s, toServer, Then(x, y))
        \/ TurnedAway(c, s, peer, toServer, Then(x, y))
        \/ AskedAgain(c, s, peer, toServer, Then(x, y))
        \/ GreetingAgain(c, s, peer, toServer, Then(x, y))
        \/ Answered(c, s, peer, toServer, Then(x, y))
    BY <1>2, <1>3, ClientStage
  <2>2. x # Alert /\ \A m : x # Plain(m)
    BY <1>2, TypesDiffer DEF x
  <2>3. GreetingAgain(c, s, peer, toServer, y) \/ Answered(c, s, peer, toServer, y)
    <3>1. IsSeq(y)
      BY <1>3
    <3>2. ~ Greeting(c, s, toServer, Then(x, y))
      BY <3>1, FrontOfHellos
    <3>3. ~ TurnedAway(c, s, peer, toServer, Then(x, y))
      BY <2>2, <3>1, FrontOfHellos
    <3>4. ~ AskedAgain(c, s, peer, toServer, Then(x, y))
      BY <2>2, <3>1, FrontOfHellos
    <3>5. GreetingAgain(c, s, peer, toServer, Then(x, y)) => GreetingAgain(c, s, peer, toServer, y)
      BY <3>1, FrontOfHellos
    <3>6. Answered(c, s, peer, toServer, Then(x, y)) => Answered(c, s, peer, toServer, y)
      BY <2>2, <3>1, FrontOfHellos
    <3> QED BY <2>1, <3>2, <3>3, <3>4, <3>5, <3>6
  <2> QED BY <2>3 DEF Stage
<1>6. /\ c'.recv = Behind \o Arrived(n) /\ DOMAIN c' = ClientFields
      /\ c'.plain = c.plain /\ c'.offer = c.offer
  BY <1>1, <1>3, RecvOnly
<1>7. IsSeq(c'.recv) /\ c'.recv \o toClient' = y
  <2>1. IsSeq(Behind) /\ IsSeq(Behind \o Arrived(n))
    BY <1>3, <1>4, JoinIs
  <2>2. (Behind \o Arrived(n)) \o toClient' = Behind \o (Arrived(n) \o toClient')
    <3> DEFINE a == Arrived(n)
               b == Behind
    <3>1. IsSeq(a) /\ IsSeq(b) /\ IsSeq(toClient')
      BY <1>4, <2>1
    <3> HIDE DEF a, b
    <3>2. (b \o a) \o toClient' = b \o (a \o toClient')
      BY <3>1, JoinAssoc
    <3> QED BY <3>2 DEF a, b
  <2> QED BY <1>3, <1>4, <1>6, <2>1, <2>2
<1>8. Stage(c', s, peer, toServer, y)
  BY <1>1, <1>2, <1>3, <1>5, StageSame
<1>9. Shapes'
  BY <1>2, <1>3, <1>4, <1>6, <1>7 DEF Shapes
<1> QED BY <1>2, <1>7, <1>8, <1>9 DEF IInv

(* An old hello or an alert sends the connection back to TLS 1.2.          *)
LEMMA DeclinedInv == ASSUME IInv, Declined PROVE IInv'
<1>1. /\ c' = [c EXCEPT !.recv = Behind, !.outcome = "fallback"]
      /\ UNCHANGED <<s, peer, toServer, toClient>>
      /\ c.phase = "RecvServerHello" /\ c.outcome = "none" /\ ~ c.unsent /\ c.recv # <<>>
      /\ \/ c.recv[1].type = "alert"
         \/ c.recv[1].type = "handshake" /\ c.recv[1].data[1].msg.type = "ServerHello12"
  BY DEF Declined, HeadIs, Runs
<1> DEFINE x == c.recv[1]
           y == Following(c.recv) \o toClient
<1>2. /\ Shapes /\ DOMAIN c = ClientFields /\ IsSeq(Following(c.recv)) /\ IsSeq(y)
      /\ Following(c.recv) = Behind /\ Stage(c, s, peer, toServer, Then(x, y))
  BY <1>1, ReadsFrom
<1>3. TurnedAway(c, s, peer, toServer, Then(x, y))
  <2> HIDE DEF x, y
  <2>1. \/ Greeting(c, s, toServer, Then(x, y))
        \/ TurnedAway(c, s, peer, toServer, Then(x, y))
        \/ AskedAgain(c, s, peer, toServer, Then(x, y))
        \/ GreetingAgain(c, s, peer, toServer, Then(x, y))
        \/ Answered(c, s, peer, toServer, Then(x, y))
    BY <1>1, <1>2, ClientStage
  <2>2. /\ x # ChangeCipherSpec /\ x # Plain(TheRetry(peer))
        /\ x # Plain(Answer(peer, c.offer))
    BY <1>1, TypesDiffer, HellosDiffer DEF x
  <2> QED BY <1>2, <2>1, <2>2, FrontOfHellos
<1>4. /\ DOMAIN c' = ClientFields /\ c'.recv = Behind /\ c'.outcome = "fallback"
      /\ c'.plain = c.plain /\ c'.offer = c.offer /\ c'.phase = c.phase
      /\ c'.error = c.error /\ c'.hellos = c.hellos
  BY <1>1, <1>2 DEF ClientFields
<1>5. FellBack(c', s, peer, toServer)
  BY <1>3, <1>4 DEF TurnedAway, SaidFirst, Unkeyed, Trying, FellBack
<1>6. Stage(c', s, peer, toServer, c'.recv \o toClient)
  BY <1>5 DEF Stage
<1>7. Shapes'
  BY <1>1, <1>2, <1>4 DEF Shapes
<1> QED BY <1>1, <1>6, <1>7 DEF IInv

(* The two hellos.                                                         *)
LEMMA FirstHelloIs ==
    ASSUME c = NewClient(c.offer)
    PROVE  ClientHello = FirstHello(c.offer) /\ NewShare = FirstShare /\ Random = 1
<1>1. c.hellos = 0 /\ c.hrrReceived = FALSE /\ c.random = 0 /\ c.cookie = FALSE
  BY NewClientIs
<1>2. NewShare = FirstShare /\ Random = 1 /\ BinderBase = <<>>
  BY <1>1 DEF NewShare, Group, FirstShare, Random, FreshRandom, BinderBase
<1>3. Truncated = Bare(FirstShare, FALSE, c.offer)
  BY <1>1, <1>2 DEF Truncated, Bare
<1> QED BY <1>2, <1>3 DEF ClientHello, FirstHello, Bound

(* After a retry the client builds SecondHello: the first one's random and *)
(* ticket, the share and the cookie that were asked for, the binder over   *)
(* the retried transcript.                                                 *)
LEMMA SecondHelloIs ==
    ASSUME NEW p, WasAsked(c, p)
    PROVE  /\ ClientHello = SecondHello(p, c.offer) /\ NewShare = SecondShare(p) /\ Random = 1
           /\ c.hellos + 1 = 2
<1>1. /\ c.hellos = 1 /\ c.hrrReceived = TRUE /\ c.random = 1 /\ c.cookie = p.cookie
      /\ c.hrrGroup = p.group /\ c.transcript = RetryBase(p, c.offer)
  BY DEF WasAsked, Unkeyed
<1>2. /\ NewShare = SecondShare(p) /\ Random = 1 /\ BinderBase = RetryBase(p, c.offer)
      /\ c.hellos + 1 = 2
  BY <1>1 DEF NewShare, Group, SecondShare, Random, BinderBase
<1>3. Truncated = Bare(SecondShare(p), p.cookie, c.offer)
  BY <1>1, <1>2 DEF Truncated, Bare
<1> QED BY <1>2, <1>3 DEF ClientHello, SecondHello, Bound

(* A hello is built.                                                       *)
LEMMA SendClientHelloInv == ASSUME IInv, SendClientHello PROVE IInv'
<1>1. /\ c.outcome = "none" /\ ~ c.unsent /\ c.phase = "SendClientHello"
      /\ c' = [c EXCEPT !.phase = "RecvServerHello", !.share = NewShare, !.random = Random,
                        !.hellos = @ + 1, !.msg = ClientHello, !.unsent = TRUE,
                        !.transcript = Append(IF c.hrrReceived THEN @ ELSE <<>>, ClientHello)]
      /\ UNCHANGED <<s, peer, toServer, toClient>>
  BY DEF SendClientHello, Runs
<1>2. Shapes /\ Stage(c, s, peer, toServer, c.recv \o toClient) /\ DOMAIN c = ClientFields
  BY DEF IInv, Shapes
<1>3. /\ DOMAIN c' = ClientFields /\ c'.recv = c.recv /\ c'.plain = c.plain
      /\ c'.offer = c.offer /\ c'.phase = "RecvServerHello" /\ c'.share = NewShare
      /\ c'.random = Random /\ c'.hellos = c.hellos + 1 /\ c'.msg = ClientHello
      /\ c'.unsent = TRUE /\ c'.outcome = c.outcome /\ c'.error = c.error
      /\ c'.ticket = c.ticket /\ c'.pending = c.pending /\ c'.accepted = c.accepted
      /\ c'.hrrReceived = c.hrrReceived /\ c'.cookie = c.cookie
      /\ c'.transcript = Append(IF c.hrrReceived THEN c.transcript ELSE <<>>, ClientHello)
  BY <1>1, <1>2 DEF ClientFields
<1>4. Shapes'
  BY <1>1, <1>2, <1>3 DEF Shapes
<1>5. CASE Fresh(c, s, toServer, c.recv \o toClient)
  <2>1. c = NewClient(c.offer) /\ s = NewServer /\ toServer = <<>> /\ c.recv \o toClient = <<>>
    BY <1>5 DEF Fresh
  <2>2. ClientHello = FirstHello(c.offer) /\ NewShare = FirstShare /\ Random = 1
    BY <2>1, FirstHelloIs
  <2>3. /\ c.hellos = 0 /\ c.hrrReceived = FALSE /\ c.accepted = FALSE /\ c.plain = <<>>
        /\ c.pending = FALSE /\ c.ticket = None /\ c.error = "none" /\ c.cookie = FALSE
    BY <2>1, NewClientIs
  <2>4. Append(<<>>, FirstHello(c.offer)) = <<FirstHello(c.offer)>>
    <3> DEFINE h == FirstHello(c.offer)
    <3> HIDE DEF h
    <3>1. Append(<<>>, h) = <<h>>
      OBVIOUS
    <3> QED BY <3>1 DEF h
  <2>5. Trying(c') /\ Unkeyed(c')
    BY <1>1, <1>3, <2>2, <2>3 DEF Trying, Unkeyed
  <2>6. SaidFirst(c')
    <3>1. c'.transcript = Append(<<>>, FirstHello(c.offer))
      BY <1>3, <2>2, <2>3
    <3>2. c'.transcript = <<FirstHello(c'.offer)>>
      BY <1>3, <2>4, <3>1
    <3>3. /\ c'.phase = "RecvServerHello" /\ c'.share = FirstShare /\ c'.hellos = 1
          /\ c'.hrrReceived = FALSE /\ c'.cookie = FALSE
      BY <1>3, <2>2, <2>3
    <3> QED BY <2>5, <3>2, <3>3 DEF SaidFirst
  <2>7. Greeting(c', s, toServer, c'.recv \o toClient)
    BY <1>3, <2>1, <2>2, <2>6 DEF Greeting
  <2> QED BY <1>1, <1>4, <2>7 DEF IInv, Stage
<1>6. CASE GreetingAgain(c, s, peer, toServer, c.recv \o toClient)
  <2>1. /\ Retries(peer) /\ ~ Refuses(peer) /\ peer.group # "x25519"
        /\ Asking(s, peer, c.offer) /\ c.recv \o toClient \in MaybeCCS
        /\ WasAsked(c, peer) /\ toServer = <<>>
    BY <1>1, <1>6 DEF GreetingAgain, SaidSecond
  <2>2. /\ ClientHello = SecondHello(peer, c.offer) /\ NewShare = SecondShare(peer)
        /\ Random = 1 /\ c.hellos + 1 = 2
    BY <2>1, SecondHelloIs
  <2>3. /\ c.accepted = FALSE /\ c.plain = <<>> /\ c.pending = FALSE /\ c.ticket = None
        /\ c.error = "none" /\ c.hrrReceived = TRUE /\ c.transcript = RetryBase(peer, c.offer)
    BY <2>1 DEF WasAsked, Unkeyed, Trying
  <2>4. Trying(c') /\ Unkeyed(c')
    BY <1>1, <1>3, <2>2, <2>3 DEF Trying, Unkeyed
  <2>5. SaidSecond(c', peer)
    BY <1>3, <2>2, <2>3, <2>4 DEF SaidSecond
  <2>6. GreetingAgain(c', s, peer, toServer, c'.recv \o toClient)
    BY <1>3, <2>1, <2>2, <2>5 DEF GreetingAgain
  <2> QED BY <1>1, <1>4, <2>6 DEF IInv, Stage
<1> QED BY <1>1, <1>2, <1>5, <1>6, ClientStage

(* What was built goes to the server.                                      *)
LEMMA FlushInv == ASSUME IInv, Flush PROVE IInv'
<1>1. /\ c.outcome = "none" /\ c.unsent /\ toServer' = Append(toServer, c.msg)
      /\ c' = [c EXCEPT !.unsent = FALSE] /\ UNCHANGED <<s, peer, toClient>>
  BY DEF Flush
<1>2. Shapes /\ Stage(c, s, peer, toServer, c.recv \o toClient) /\ DOMAIN c = ClientFields
  BY DEF IInv, Shapes
<1>3. /\ DOMAIN c' = ClientFields /\ c'.recv = c.recv /\ c'.plain = c.plain
      /\ c'.offer = c.offer /\ c'.phase = c.phase /\ c'.share = c.share
      /\ c'.random = c.random /\ c'.hellos = c.hellos /\ c'.cookie = c.cookie
      /\ c'.unsent = FALSE /\ c'.outcome = c.outcome /\ c'.error = c.error
      /\ c'.ticket = c.ticket /\ c'.pending = c.pending /\ c'.accepted = c.accepted
      /\ c'.hrrReceived = c.hrrReceived /\ c'.transcript = c.transcript
      /\ c'.pkey = c.pkey /\ c'.resMaster = c.resMaster /\ c'.read = c.read
      /\ c'.write = c.write
  BY <1>1, <1>2 DEF ClientFields
<1>4. Shapes'
  BY <1>1, <1>2, <1>3 DEF Shapes
<1>5. /\ SaidFirst(c) => SaidFirst(c')
      /\ SaidSecond(c, peer) => SaidSecond(c', peer)
      /\ Finished(c, peer) => Finished(c', peer)
  <2>1. Unkeyed(c) => Unkeyed(c')
    BY <1>3 DEF Unkeyed, Trying
  <2>2. Checked(c, peer) => Checked(c', peer)
    BY <1>3 DEF Checked
  <2> QED BY <1>3, <2>1, <2>2 DEF SaidFirst, SaidSecond, Finished
<1>6. ASSUME NEW m, c.msg = m, toServer = <<>> PROVE toServer' = <<m>>
  BY <1>1, <1>6
<1>7. CASE Greeting(c, s, toServer, c.recv \o toClient)
  <2>1. toServer' = <<FirstHello(c.offer)>>
    BY <1>1, <1>6, <1>7 DEF Greeting
  <2>2. Greeting(c', s, toServer', c'.recv \o toClient)
    BY <1>3, <1>5, <1>7, <2>1 DEF Greeting
  <2> QED BY <1>1, <1>4, <2>2 DEF IInv, Stage
<1>8. CASE GreetingAgain(c, s, peer, toServer, c.recv \o toClient)
  <2>1. toServer' = <<SecondHello(peer, c.offer)>> /\ SaidSecond(c, peer)
    BY <1>1, <1>6, <1>8 DEF GreetingAgain
  <2>2. GreetingAgain(c', s, peer, toServer', c'.recv \o toClient)
    BY <1>3, <1>5, <1>8, <2>1 DEF GreetingAgain
  <2> QED BY <1>1, <1>4, <2>2 DEF IInv, Stage
<1>9. CASE Finishing(c, s, peer, toServer, c.recv \o toClient)
  <2>1. /\ toServer' = <<ClientDoneSealed(peer, c.offer)>> /\ Finished(c, peer)
        /\ c.ticket = None /\ c.read = FreshKey(ServerApp(peer, c.offer))
    BY <1>1, <1>6, <1>9 DEF Finishing
  <2>2. Finishing(c', s, peer, toServer', c'.recv \o toClient)
    BY <1>3, <1>5, <1>9, <2>1 DEF Finishing
  <2> QED BY <1>1, <1>4, <2>2 DEF IInv, Stage
<1> QED BY <1>1, <1>2, <1>7, <1>8, <1>9, ClientStage

-------------------------------------------------------------------------------
(* ServerHello.                                                            *)

(* A HelloRetryRequest: the client builds another hello, or finds no group *)
(* in it.                                                                  *)
LEMMA AskedInv ==
    ASSUME IInv, c.recv # <<>>, UNCHANGED <<s, peer, toServer, toClient>>,
           AskedAgain(c, s, peer, toServer,
                      Then(c.recv[1], Following(c.recv) \o toClient)),
           HelloRetryRequest(TheRetry(peer))
    PROVE  IInv'
<1> DEFINE m == TheRetry(peer)
           y == Following(c.recv) \o toClient
<1>1. /\ Shapes /\ DOMAIN c = ClientFields /\ IsSeq(Following(c.recv)) /\ IsSeq(y)
      /\ Following(c.recv) = Behind /\ peer \in Peers
  BY ReadsFrom
<1>2. y \in MaybeCCS
  BY <1>1, FrontOfHellos
<1>3. /\ SaidFirst(c) /\ c.unsent = FALSE /\ Retries(peer) /\ ~ Refuses(peer)
      /\ Asking(s, peer, c.offer) /\ toServer = <<>>
  BY DEF AskedAgain
<1>4. /\ c.hrrReceived = FALSE /\ c.cookie = FALSE /\ c.transcript = <<FirstHello(c.offer)>>
      /\ c.hellos = 1 /\ c.plain = <<>> /\ c.phase = "RecvServerHello" /\ c.random = 1
      /\ c.outcome = "none" /\ c.error = "none" /\ c.ticket = None /\ c.pending = FALSE
      /\ c.accepted = FALSE
  BY <1>3 DEF SaidFirst, Unkeyed, Trying
<1>5. m.cookie = peer.cookie /\ m.group = RetryGroup(peer) /\ peer.cookie \in BOOLEAN
  BY <1>1, HellosDiffer, PeerIs
<1>6. CASE RetryGroup(peer) = "none"
  <2>1. c' = Failed([[c EXCEPT !.recv = Behind, !.cookie = @ \/ m.cookie]
                     EXCEPT !.hrrReceived = TRUE], "hrr_group")
    BY <1>4, <1>5, <1>6 DEF HelloRetryRequest
  <2>2. /\ DOMAIN c' = ClientFields /\ c'.recv = Behind /\ c'.outcome = "failed"
        /\ c'.error = "hrr_group" /\ c'.hellos = c.hellos /\ c'.plain = c.plain
        /\ c'.offer = c.offer /\ c'.phase = c.phase
    BY <1>1, <2>1 DEF Failed, ClientFields
  <2>3. peer.group = "x25519" /\ peer.cookie
    BY <1>3, <1>6 DEF RetryGroup, Refuses, Retries
  <2>4. NoGroupNamed(c', s, peer, toServer)
    BY <1>3, <1>4, <2>2, <2>3 DEF NoGroupNamed, Asking
  <2>5. Shapes'
    BY <1>1, <2>2 DEF Shapes
  <2> QED BY <2>4, <2>5 DEF IInv, Stage
<1>7. CASE RetryGroup(peer) # "none"
  <2>1. c' = [[c EXCEPT !.recv = Behind, !.cookie = @ \/ m.cookie]
              EXCEPT !.hrrReceived = TRUE, !.hrrGroup = m.group,
                     !.transcript = RestartTranscript(m), !.phase = "SendClientHello"]
    BY <1>4, <1>5, <1>7 DEF HelloRetryRequest
  <2>2. /\ DOMAIN c' = ClientFields /\ c'.recv = Behind /\ c'.outcome = c.outcome
        /\ c'.error = c.error /\ c'.hellos = c.hellos /\ c'.plain = c.plain
        /\ c'.offer = c.offer /\ c'.phase = "SendClientHello" /\ c'.unsent = c.unsent
        /\ c'.ticket = c.ticket /\ c'.pending = c.pending /\ c'.accepted = c.accepted
        /\ c'.random = c.random /\ c'.hrrReceived = TRUE /\ c'.hrrGroup = m.group
        /\ c'.transcript = RestartTranscript(m)
    BY <1>1, <2>1 DEF ClientFields
  <2>3. c'.cookie = (c.cookie \/ m.cookie)
    BY <1>1, <2>1 DEF ClientFields
  <2>4. c'.cookie = peer.cookie
    BY <1>4, <1>5, <2>3
  <2>5. peer.group # "x25519" /\ m.group = peer.group
    BY <1>5, <1>7 DEF RetryGroup
  <2>6. RestartTranscript(m) = RetryBase(peer, c.offer)
    BY <1>4 DEF RestartTranscript, RetryBase
  <2>7. WasAsked(c', peer)
    <3> HIDE DEF m
    <3>1. Unkeyed(c')
      BY <1>4, <2>2 DEF Unkeyed, Trying
    <3> QED BY <1>4, <2>2, <2>4, <2>5, <2>6, <3>1 DEF WasAsked
  <2>8. GreetingAgain(c', s, peer, toServer, c'.recv \o toClient)
    BY <1>1, <1>2, <1>3, <2>2, <2>5, <2>7 DEF GreetingAgain
  <2>9. Shapes'
    BY <1>1, <2>2 DEF Shapes
  <2> QED BY <2>8, <2>9 DEF IInv, Stage
<1> QED BY <1>6, <1>7

(* A ServerHello: from here the client holds the server's keys.            *)
LEMMA AnsweredInv ==
    ASSUME IInv, c.recv # <<>>, UNCHANGED <<s, peer, toServer, toClient>>,
           Answered(c, s, peer, toServer,
                    Then(c.recv[1], Following(c.recv) \o toClient)),
           c.recv[1] = Plain(Answer(peer, c.offer)),
           ServerHello(Answer(peer, c.offer))
    PROVE  IInv'
<1> DEFINE o == c.offer
           m == Answer(peer, c.offer)
           y == Following(c.recv) \o toClient
<1>1. /\ Shapes /\ DOMAIN c = ClientFields /\ IsSeq(Following(c.recv)) /\ IsSeq(y)
      /\ Following(c.recv) = Behind /\ peer \in Peers
  BY ReadsFrom
<1>2a. PICK before \in MaybeCCS :
       \E recs : y = before \o recs /\ Carried(0, <<>>, 0, recs, s, peer, o)
  <2> DEFINE x == c.recv[1]
  <2>1. x # ChangeCipherSpec
    <3>1. Plain(m) # ChangeCipherSpec
      BY TypesDiffer
    <3> QED BY <3>1
  <2>2. Answered(c, s, peer, toServer, Then(x, y)) /\ IsSeq(y)
    BY <1>1
  <2> HIDE DEF x, y, m
  <2>3. \E behind \in MaybeCCS : \E recs :
          y = behind \o recs /\ Carried(0, <<>>, 0, recs, s, peer, c.offer)
    BY <2>1, <2>2, FrontOfHellos
  <2> QED BY <2>3
<1>2. PICK recs :
         y = before \o recs /\ Carried(0, <<>>, 0, recs, s, peer, o)
  BY <1>2a
<1>3. /\ SaidAll(c, peer) /\ c.unsent = FALSE /\ Serving(s, peer, o) /\ toServer = <<>>
  BY DEF Answered
<1>4. /\ c.share = TheShare(peer) /\ c.transcript = Append(Base(peer, o), TheHello(peer, o))
      /\ c.hellos \in 1..2 /\ c.plain = <<>> /\ c.phase = "RecvServerHello"
      /\ c.outcome = "none" /\ c.error = "none" /\ c.ticket = None /\ c.pending = FALSE
      /\ c.accepted = FALSE
  BY <1>3 DEF SaidAll, Unkeyed, Trying
<1>5. /\ m.psk = Resumes(peer, o) /\ m.share = [group |-> TheShare(peer).group, n |-> 0]
      /\ m.share.group = c.share.group
  BY <1>4, HellosDiffer
<1> DEFINE accepted == c.accepted \/ m.psk
<1>6. accepted = Resumes(peer, o)
  BY <1>4, <1>5 DEF Resumes
<1>7. Append(c.transcript, m) = Hellos(peer, o)
  BY <1>4 DEF Hellos
<1>8. HandshakeSecret(EarlySecret(PskIf(accepted)), DH(c.share, m.share)) = ShakeSecret(peer, o)
  <2>1. PskIf(accepted) = IF Resumes(peer, o) THEN ThePsk ELSE Zeros
    BY <1>6 DEF PskIf, Resumes
  <2> HIDE DEF accepted, m
  <2> QED BY <1>4, <1>5, <2>1 DEF ShakeSecret
<1>9. c' = [[c EXCEPT !.recv = Behind, !.accepted = accepted]
            EXCEPT !.transcript = Hellos(peer, o), !.secret = ShakeSecret(peer, o),
                   !.clientSecret = ClientShake(peer, o), !.serverSecret = ServerShake(peer, o),
                   !.read = FreshKey(ServerShake(peer, o)),
                   !.write = FreshKey(ClientShake(peer, o)),
                   !.phase = "RecvEncryptedExtensions"]
  BY <1>5, <1>7, <1>8 DEF ServerHello, ClientShake, ServerShake
<1> HIDE DEF accepted
<1>10. /\ DOMAIN c' = ClientFields /\ c'.recv = Behind /\ c'.outcome = c.outcome
       /\ c'.error = c.error /\ c'.hellos = c.hellos /\ c'.plain = c.plain
       /\ c'.offer = c.offer /\ c'.phase = "RecvEncryptedExtensions" /\ c'.unsent = c.unsent
       /\ c'.ticket = c.ticket /\ c'.pending = c.pending /\ c'.accepted = accepted
       /\ c'.transcript = Hellos(peer, o) /\ c'.secret = ShakeSecret(peer, o)
       /\ c'.clientSecret = ClientShake(peer, o) /\ c'.serverSecret = ServerShake(peer, o)
       /\ c'.read = FreshKey(ServerShake(peer, o)) /\ c'.write = FreshKey(ClientShake(peer, o))
  BY <1>1, <1>9 DEF ClientFields
<1>11. /\ c'.read.seq = 0 /\ c'.read = [secret |-> ServerShake(peer, o), seq |-> c'.read.seq]
  BY <1>10 DEF FreshKey
<1>12. Keyed(c', peer)
  <2>1. c'.hellos \in 0..2
    BY <1>4, <1>10
  <2>2. Trying(c') /\ c'.accepted = Resumes(peer, c'.offer)
    BY <1>4, <1>6, <1>10 DEF Trying
  <2> QED BY <1>10, <1>11, <2>1, <2>2 DEF Keyed
<1>13. 0 \in 0..Len(Messages(peer, o)) /\ At(peer, o)[0] = 0
  <2>1. Len(Messages(peer, o)) \in Nat
    BY <1>1, MessagesAre, AppendIs
  <2> QED BY <1>1, <2>1, StreamIs DEF LaidOut
<1>14. HasTaken(c', peer, 0)
  BY <1>4, <1>10 DEF HasTaken
<1>15. Carried(At(peer, c'.offer)[0], c'.plain, c'.read.seq, recs, s, peer, c'.offer)
  BY <1>2, <1>4, <1>10, <1>11, <1>13
<1>16. Reading(c', s, peer, toServer, c'.recv \o toClient)
  BY <1>1, <1>2, <1>3, <1>4, <1>10, <1>11, <1>12, <1>13, <1>14, <1>15 DEF Reading
<1>17. Shapes'
  BY <1>1, <1>10 DEF Shapes
<1> QED BY <1>16, <1>17 DEF IInv, Stage

(* Whatever record stands in front while the client waits for ServerHello. *)
LEMMA RecvServerHelloInv == ASSUME IInv, RecvServerHello PROVE IInv'
<1> DEFINE x == c.recv[1]
           y == Following(c.recv) \o toClient
           m == x.data[1].msg
<1>1. /\ c.phase = "RecvServerHello" /\ c.outcome = "none" /\ ~ c.unsent /\ c.recv # <<>>
      /\ x.type = "handshake" /\ UNCHANGED <<s, peer, toServer, toClient>>
      /\ \/ m.type = "HelloRetryRequest" /\ HelloRetryRequest(m)
         \/ m.type = "ServerHello" /\ ServerHello(m)
  BY DEF RecvServerHello, HeadIs, Runs
<1>2. /\ IsSeq(y) /\ Stage(c, s, peer, toServer, Then(x, y))
  BY <1>1, ReadsFrom
<1>3. x # ChangeCipherSpec /\ x # Alert /\ x # Plain(OldHello)
  BY <1>1, TypesDiffer, HellosDiffer
<1>4. \/ Greeting(c, s, toServer, Then(x, y))
      \/ TurnedAway(c, s, peer, toServer, Then(x, y))
      \/ AskedAgain(c, s, peer, toServer, Then(x, y))
      \/ GreetingAgain(c, s, peer, toServer, Then(x, y))
      \/ Answered(c, s, peer, toServer, Then(x, y))
  BY <1>1, <1>2, ClientStage
<1>5. CASE AskedAgain(c, s, peer, toServer, Then(x, y))
  <2>1. x = Plain(TheRetry(peer))
    BY <1>2, <1>5, FrontOfHellos
  <2>2. m = TheRetry(peer) /\ m.type = "HelloRetryRequest"
    BY <2>1, HellosDiffer
  <2>3. HelloRetryRequest(TheRetry(peer))
    BY <1>1, <2>2
  <2> QED BY <1>1, <1>5, <2>3, AskedInv
<1>6. CASE Answered(c, s, peer, toServer, Then(x, y))
  <2>1. x = Plain(Answer(peer, c.offer))
    <3> HIDE DEF x, y
    <3> QED BY <1>2, <1>3, <1>6, FrontOfHellos
  <2>2. m = Answer(peer, c.offer) /\ m.type = "ServerHello"
    BY <2>1, HellosDiffer
  <2>3. ServerHello(Answer(peer, c.offer))
    BY <1>1, <2>2
  <2> QED BY <1>1, <1>6, <2>1, <2>3, AnsweredInv
<1>7. /\ ~ Greeting(c, s, toServer, Then(x, y)) /\ ~ TurnedAway(c, s, peer, toServer, Then(x, y))
      /\ ~ GreetingAgain(c, s, peer, toServer, Then(x, y))
  <2> HIDE DEF x, y
  <2>1. IsSeq(y)
    BY <1>2
  <2>2. ~ Greeting(c, s, toServer, Then(x, y))
    BY <2>1, FrontOfHellos
  <2>3. ~ TurnedAway(c, s, peer, toServer, Then(x, y))
    BY <1>3, <2>1, FrontOfHellos
  <2>4. ~ GreetingAgain(c, s, peer, toServer, Then(x, y))
    BY <1>3, <2>1, FrontOfHellos
  <2> QED BY <2>2, <2>3, <2>4
<1> QED BY <1>4, <1>5, <1>6, <1>7

-------------------------------------------------------------------------------
(* The flight: its records, and the messages in them.                      *)

(* A client that reads the flight has a message of it to come.             *)
LEMMA MessagesLeft ==
    ASSUME NEW k, NEW p \in Peers, NEW j, HasTaken(k, p, j)
    PROVE  j \in Nat /\ j + 1 <= Len(Messages(p, k.offer)) /\ Len(Messages(p, k.offer)) \in Nat
           /\ j \in 0..Len(Messages(p, k.offer)) /\ j + 1 \in 1..Len(Messages(p, k.offer))
<1> DEFINE L == Len(Messages(p, k.offer))
<1>1. L = IF Resumes(p, k.offer) THEN 2 ELSE IF p.asksCert THEN 5 ELSE 4
  BY MessagesAre
<1> HIDE DEF L
<1>2. j \in Nat /\ j + 1 <= L
  BY <1>1 DEF HasTaken, L
<1>3. L \in Nat
  BY <1>1
<1>4. j \in 0..L /\ j + 1 \in 1..L
  BY <1>2, <1>3
<1> QED BY <1>2, <1>3, <1>4 DEF L

(* The record in front is a ChangeCipherSpec, or opens under the client's  *)
(* key and number.                                                         *)
LEMMA FrontOfFlight ==
    ASSUME NEW k, NEW v, NEW p \in Peers, NEW q, NEW x, NEW y, IsSeq(y),
           Reading(k, v, p, q, Then(x, y))
    PROVE  \/ x = ChangeCipherSpec /\ Reading(k, v, p, q, y)
           \/ \E j, d :
                /\ HasTaken(k, p, j)
                /\ x = Sealed([secret |-> ServerShake(p, k.offer), seq |-> k.read.seq], d)
                /\ Len(d) \in 0..MaxFragment /\ Len(k.plain) \in Nat
                /\ Len(k.plain \o d) = Len(k.plain) + Len(d)
                /\ Carried(At(p, k.offer)[j], k.plain, k.read.seq, Then(x, y), v, p, k.offer)
                /\ Carried(At(p, k.offer)[j], k.plain \o d, k.read.seq + 1, y, v, p, k.offer)
<1> DEFINE o == k.offer
<1>0. PICK j \in 0..Len(Messages(p, o)), before \in MaybeCCS :
       \E recs : /\ HasTaken(k, p, j) /\ Then(x, y) = before \o recs
                 /\ before # <<>> => k.read.seq = 0
                 /\ Carried(At(p, o)[j], k.plain, k.read.seq, recs, v, p, o)
  BY DEF Reading
<1>1. PICK recs :
         /\ HasTaken(k, p, j) /\ Then(x, y) = before \o recs
         /\ before # <<>> => k.read.seq = 0
         /\ Carried(At(p, o)[j], k.plain, k.read.seq, recs, v, p, o)
  BY <1>0
<1>2. IsSeq(recs)
  BY <1>1 DEF Carried
<1>3. \/ Then(x, y) = recs
      \/ Then(x, y) = Then(ChangeCipherSpec, recs)
  BY <1>1, <1>2, CCSIs
<1>4. CASE Then(x, y) = Then(ChangeCipherSpec, recs)
  <2>1. x = ChangeCipherSpec /\ y = recs
    BY <1>2, <1>4, SameFront
  <2>2. <<>> \in MaybeCCS /\ y = <<>> \o recs
    BY <1>2, <2>1, JoinOne DEF MaybeCCS
  <2>3. Reading(k, v, p, q, y)
    BY <1>1, <2>2 DEF Reading
  <2> QED BY <2>1, <2>3
<1>5. CASE Then(x, y) = recs
  <2>1. recs # <<>> /\ recs[1] = x /\ Following(recs) = y
    BY <1>5, ThenIs
  <2> DEFINE n == At(p, o)[j]
             K == [secret |-> ServerShake(p, o), seq |-> k.read.seq]
             plain == k.plain
             seq == k.read.seq
  <2>2. n \in Nat /\ j \in Nat
    <3>1. LaidOut(At(p, o), Stream(p, o), Messages(p, o))
      BY StreamIs
    <3> QED BY <3>1 DEF LaidOut
  <2>3. Carried(n, plain, seq, recs, v, p, o)
    BY <1>1
  <2>4. \E d : /\ recs = Then(Sealed([secret |-> ServerShake(p, o), seq |-> seq], d), Following(recs))
               /\ Len(d) \in 0..MaxFragment /\ Len(plain) \in Nat
               /\ Len(plain \o d) = Len(plain) + Len(d)
               /\ Carried(n, plain \o d, seq + 1, Following(recs), v, p, o)
    <3> HIDE DEF n, plain, seq, o
    <3> QED BY <2>1, <2>2, <2>3, CarriedRead
  <2>5. PICK d : /\ recs = Then(Sealed(K, d), y)
                 /\ Len(d) \in 0..MaxFragment /\ Len(plain) \in Nat
                 /\ Len(plain \o d) = Len(plain) + Len(d)
                 /\ Carried(n, plain \o d, seq + 1, y, v, p, o)
    BY <2>1, <2>4
  <2>6. x = Sealed(K, d)
    <3> DEFINE z == Sealed(K, d)
    <3>1. Then(x, y) = Then(z, y)
      BY <1>5, <2>5
    <3> HIDE DEF z
    <3>2. x = z
      BY <3>1, SameFront
    <3> QED BY <3>2 DEF z
  <2> QED BY <1>1, <1>5, <2>3, <2>5, <2>6
<1> QED BY <1>3, <1>4, <1>5

(* A record is opened behind the units that wait, or does not fit there.   *)
LEMMA ReadRecordInv == ASSUME IInv, ReadRecord PROVE IInv'
<1> DEFINE x == c.recv[1]
           y == Following(c.recv) \o toClient
           o == c.offer
<1>1. /\ c.outcome = "none" /\ ~ c.unsent /\ c.phase \in Encrypted /\ c.recv # <<>>
      /\ ~ HasMessage(c.plain) /\ UNCHANGED <<s, peer, toServer, toClient>>
  BY DEF ReadRecord
<1>2. c' = IF x.type = "ccs" THEN [c EXCEPT !.recv = Behind]
           ELSE IF x.type # "sealed" THEN Failed(c, "unexpected")
           ELSE IF ~ Fits(x) THEN Failed(c, "reassembly")
           ELSE IF ~ Opens(c.read, x) THEN Failed(c, "bad_mac")
           ELSE [c EXCEPT !.recv = Behind, !.read = Used(@), !.plain = Appended(x)]
  BY DEF ReadRecord
<1>3. /\ Shapes /\ DOMAIN c = ClientFields /\ IsSeq(Following(c.recv)) /\ IsSeq(y)
      /\ Following(c.recv) = Behind /\ peer \in Peers
      /\ Stage(c, s, peer, toServer, Then(x, y))
  BY <1>1, ReadsFrom
<1>4. Reading(c, s, peer, toServer, Then(x, y))
  BY <1>1, <1>3, ClientStage
<1>5. /\ Keyed(c, peer) /\ c.unsent = FALSE /\ Serving(s, peer, o) /\ toServer = <<>>
  BY <1>4 DEF Reading
<1>6. CASE x = ChangeCipherSpec /\ Reading(c, s, peer, toServer, y)
  <2>1. c' = [c EXCEPT !.recv = Behind]
    BY <1>2, <1>6, TypesDiffer
  <2>2. DOMAIN c' = ClientFields /\ c'.recv = Behind /\ c'.plain = c.plain /\ c'.offer = c.offer
    BY <1>3, <2>1, RecvOnly
  <2>3. Stage(c, s, peer, toServer, y)
    BY <1>6 DEF Stage
  <2>4. c.phase # "SendClientHello"
    BY <1>1 DEF Encrypted
  <2>5. Stage(c', s, peer, toServer, y)
    BY <1>3, <2>1, <2>3, <2>4, StageSame
  <2>6. Shapes'
    BY <1>1, <1>3, <2>2 DEF Shapes
  <2> QED BY <1>1, <1>3, <2>2, <2>5, <2>6 DEF IInv
<1>7. ASSUME NEW j, NEW d, HasTaken(c, peer, j),
             x = Sealed([secret |-> ServerShake(peer, o), seq |-> c.read.seq], d),
             Len(d) \in 0..MaxFragment, Len(c.plain) \in Nat,
             Len(c.plain \o d) = Len(c.plain) + Len(d),
             Carried(At(peer, o)[j], c.plain, c.read.seq, Then(x, y), s, peer, o),
             Carried(At(peer, o)[j], c.plain \o d, c.read.seq + 1, y, s, peer, o)
      PROVE  IInv'
  <2>1. x.type = "sealed" /\ x.data = d /\ Opens(c.read, x)
    <3>1. /\ x.type = "sealed" /\ x.data = d
          /\ x.key = [secret |-> ServerShake(peer, o), seq |-> c.read.seq]
      BY <1>7, TypesDiffer
    <3>2. c.read = [secret |-> ServerShake(peer, o), seq |-> c.read.seq]
      BY <1>5 DEF Keyed
    <3> QED BY <3>1, <3>2 DEF Opens
  <2>2. /\ j \in Nat /\ j + 1 <= Len(Messages(peer, o)) /\ j \in 0..Len(Messages(peer, o))
        /\ j + 1 \in 1..Len(Messages(peer, o))
    BY <1>3, <1>7, MessagesLeft
  <2>3. CASE ~ Fits(x)
    <3>1. c' = Failed(c, "reassembly")
      BY <1>2, <2>1, <2>3
    <3>2. /\ DOMAIN c' = ClientFields /\ c'.recv = c.recv /\ c'.outcome = "failed"
          /\ c'.error = "reassembly" /\ c'.hellos = c.hellos /\ c'.plain = c.plain
          /\ c'.offer = c.offer /\ c'.phase = c.phase
      BY <1>3, <3>1 DEF Failed, ClientFields
    <3> DEFINE n == Len(c.plain)
               e == Len(d)
               z == Size(Messages(peer, o)[j + 1])
    <3>3. n = 0 \/ n < z
      <4>1. c.plain = <<>> => n = 0
        BY ShortSeq
      <4> DEFINE plain == c.plain
                 seq == c.read.seq
                 w == Then(x, y)
      <4>2. Carried(At(peer, o)[j], plain, seq, w, s, peer, o) /\ ~ HasMessage(plain)
        BY <1>1, <1>7
      <4> HIDE DEF plain, seq, w, o
      <4>3. plain = <<>> \/ Len(plain) < Size(Messages(peer, o)[j + 1])
        BY <1>3, <2>2, <4>2, CarriedTake
      <4> QED BY <4>1, <4>3 DEF plain
    <3>4. /\ z \in Nat \ {0}
          /\ z # 1 => ~ Resumes(peer, o) /\ z = peer.chain
      BY <1>3, <2>2, MessagesAre
    <3>5. n + e + Overhead > BufSize
      <4>1. ~ (n + e + Overhead <= BufSize)
        BY <2>1, <2>3 DEF Fits
      <4> QED BY <1>7, <4>1, Constants
    <3>6. n # 0
      <4>1. e <= MaxFragment /\ e \in Nat
        BY <1>7, Constants
      <4> HIDE DEF n, e
      <4> QED BY <3>5, <4>1, Constants
    <3>7. ~ Resumes(peer, o) /\ peer.chain - 1 + MaxFragment + Overhead > BufSize
      <4>1. n \in Nat /\ e \in Nat /\ e <= MaxFragment
        BY <1>7, Constants
      <4> HIDE DEF n, e, z
      <4>2. z # 1 /\ n <= z - 1
        BY <3>3, <3>4, <3>6, <4>1
      <4>3. ~ Resumes(peer, o) /\ z = peer.chain
        BY <3>4, <4>2
      <4>4. z - 1 + MaxFragment + Overhead > BufSize
        BY <3>4, <3>5, <4>1, <4>2, Constants
      <4> QED BY <4>3, <4>4
    <3>8. GaveUp(c', s, peer, toServer)
      <4>1. c'.hellos \in 0..2 /\ c'.phase \in Encrypted
        BY <1>1, <1>5, <3>2 DEF Keyed
      <4>2. s.phase \in {"flight", "waits"} /\ s.psk = Resumes(peer, c'.offer)
        BY <1>5, <3>2 DEF Serving, Settled
      <4> QED BY <1>5, <3>2, <3>7, <4>1, <4>2 DEF GaveUp
    <3>9. Shapes'
      BY <1>1, <1>3, <3>2 DEF Shapes
    <3> QED BY <1>1, <3>8, <3>9 DEF IInv, Stage
  <2>4. CASE Fits(x)
    <3>1. c' = [c EXCEPT !.recv = Behind, !.read = Used(@), !.plain = c.plain \o d]
      BY <1>2, <2>1, <2>4 DEF Appended
    <3>2. /\ DOMAIN c' = ClientFields /\ c'.recv = Behind /\ c'.outcome = c.outcome
          /\ c'.error = c.error /\ c'.hellos = c.hellos /\ c'.plain = c.plain \o d
          /\ c'.offer = c.offer /\ c'.phase = c.phase /\ c'.ticket = c.ticket
          /\ c'.accepted = c.accepted /\ c'.secret = c.secret /\ c'.write = c.write
          /\ c'.clientSecret = c.clientSecret /\ c'.serverSecret = c.serverSecret
          /\ c'.pending = c.pending /\ c'.transcript = c.transcript /\ c'.msg = c.msg
          /\ c'.pkey = c.pkey /\ c'.unsent = c.unsent /\ c'.read = Used(c.read)
      BY <1>3, <3>1 DEF ClientFields
    <3>3. /\ c'.read = [secret |-> ServerShake(peer, o), seq |-> c.read.seq + 1]
          /\ c'.read.seq = c.read.seq + 1 /\ c'.read.seq \in Nat
      <4>1. /\ c.read = [secret |-> ServerShake(peer, o), seq |-> c.read.seq]
            /\ c.read.seq \in Nat
        BY <1>5 DEF Keyed
      <4> DEFINE n == c.read.seq
                 K == ServerShake(peer, o)
      <4>2. c'.read = Used([secret |-> K, seq |-> n]) /\ n \in Nat
        BY <3>2, <4>1
      <4> HIDE DEF n, K
      <4>3. c'.read = [secret |-> K, seq |-> n + 1]
        BY <4>2 DEF Used
      <4> QED BY <4>2, <4>3 DEF n, K
    <3>4. Keyed(c', peer)
      BY <1>5, <3>2, <3>3 DEF Keyed, Trying
    <3>5. HasTaken(c', peer, j)
      BY <1>7, <3>2 DEF HasTaken
    <3>6. Reading(c', s, peer, toServer, y)
      <4>1. <<>> \in MaybeCCS /\ y = <<>> \o y
        BY <1>3, JoinOne DEF MaybeCCS
      <4>2. Carried(At(peer, c'.offer)[j], c'.plain, c'.read.seq, y, s, peer, c'.offer)
        BY <1>7, <3>2, <3>3
      <4> HIDE DEF y
      <4> QED BY <1>5, <2>2, <3>2, <3>4, <3>5, <4>1, <4>2 DEF Reading
    <3>7. Len(c'.plain) <= BufSize
      <4>1. Len(c.plain) + Len(d) + Overhead <= BufSize
        BY <2>1, <2>4 DEF Fits
      <4>2. Len(d) \in Nat
        BY <1>7, Constants
      <4> QED BY <1>7, <3>2, <4>1, <4>2, Constants
    <3>8. Shapes'
      BY <1>1, <1>3, <3>2, <3>7 DEF Shapes
    <3> QED BY <1>1, <1>3, <3>2, <3>6, <3>8 DEF IInv, Stage
  <2> QED BY <2>3, <2>4
<1>8. \/ x = ChangeCipherSpec /\ Reading(c, s, peer, toServer, y)
      \/ \E j, d :
           /\ HasTaken(c, peer, j)
           /\ x = Sealed([secret |-> ServerShake(peer, o), seq |-> c.read.seq], d)
           /\ Len(d) \in 0..MaxFragment /\ Len(c.plain) \in Nat
           /\ Len(c.plain \o d) = Len(c.plain) + Len(d)
           /\ Carried(At(peer, o)[j], c.plain, c.read.seq, Then(x, y), s, peer, o)
           /\ Carried(At(peer, o)[j], c.plain \o d, c.read.seq + 1, y, s, peer, o)
  <2> HIDE DEF x, y
  <2> QED BY <1>3, <1>4, FrontOfFlight DEF o
<1> QED BY <1>6, <1>7, <1>8

(* The messages of the flight, each taken when it is whole.                *)

Arriving(n, plain, seq, w, v, p, o) ==
    \E before \in MaybeCCS : \E recs :
        /\ w = before \o recs /\ (before # <<>> => seq = 0)
        /\ Carried(n, plain, seq, recs, v, p, o)

(* What the client keeps from one message of the flight to the next.       *)
SameKeys(k, d) ==
    /\ DOMAIN k = ClientFields /\ k.recv = d.recv /\ k.offer = d.offer /\ k.hellos = d.hellos
    /\ k.outcome = d.outcome /\ k.error = d.error /\ k.ticket = d.ticket
    /\ k.accepted = d.accepted /\ k.secret = d.secret /\ k.write = d.write /\ k.read = d.read
    /\ k.clientSecret = d.clientSecret /\ k.serverSecret = d.serverSecret
    /\ k.unsent = d.unsent

(* A client in a phase that is encrypted is at one of the flight's         *)
(* messages.                                                               *)
LEMMA ReadsFlight ==
    ASSUME IInv, c.outcome = "none", c.phase \in Encrypted
    PROVE  /\ Shapes /\ DOMAIN c = ClientFields /\ peer \in Peers /\ Keyed(c, peer)
           /\ c.unsent = FALSE /\ Serving(s, peer, c.offer) /\ toServer = <<>>
           /\ \E j \in 0..Len(Messages(peer, c.offer)) :
                /\ HasTaken(c, peer, j)
                /\ Arriving(At(peer, c.offer)[j], c.plain, c.read.seq, c.recv \o toClient,
                            s, peer, c.offer)
<1>1. Shapes /\ Stage(c, s, peer, toServer, c.recv \o toClient)
  BY DEF IInv
<1>2. DOMAIN c = ClientFields /\ peer \in Peers
  BY <1>1 DEF Shapes
<1>3. Reading(c, s, peer, toServer, c.recv \o toClient)
  BY <1>1, ClientStage
<1> QED BY <1>1, <1>2, <1>3 DEF Reading, Arriving

(* A handler that takes its message and keeps the keys is at the next      *)
(* message.                                                                *)
LEMMA GoesOn ==
    ASSUME Shapes, Keyed(c, peer), c.unsent = FALSE, Serving(s, peer, c.offer),
           toServer = <<>>, UNCHANGED <<s, peer, toServer, toClient>>,
           NEW i \in 0..Len(Messages(peer, c.offer)),
           Arriving(At(peer, c.offer)[i], c'.plain, c.read.seq, c.recv \o toClient,
                    s, peer, c.offer),
           Len(c'.plain) <= BufSize, HasTaken(c', peer, i), SameKeys(c', c)
    PROVE  IInv'
<1>1. /\ DOMAIN c' = ClientFields /\ c'.recv = c.recv /\ c'.offer = c.offer
      /\ c'.hellos = c.hellos /\ c'.outcome = c.outcome /\ c'.error = c.error
      /\ c'.ticket = c.ticket /\ c'.accepted = c.accepted /\ c'.secret = c.secret
      /\ c'.write = c.write /\ c'.read = c.read /\ c'.clientSecret = c.clientSecret
      /\ c'.serverSecret = c.serverSecret /\ c'.unsent = c.unsent
  BY DEF SameKeys
<1>2. Keyed(c', peer)
  BY <1>1 DEF Keyed, Trying
<1>3a. PICK before \in MaybeCCS :
       \E recs : /\ c.recv \o toClient = before \o recs /\ (before # <<>> => c.read.seq = 0)
                 /\ Carried(At(peer, c.offer)[i], c'.plain, c.read.seq, recs, s, peer, c.offer)
  BY DEF Arriving
<1>3. PICK recs :
         /\ c.recv \o toClient = before \o recs /\ (before # <<>> => c.read.seq = 0)
         /\ Carried(At(peer, c.offer)[i], c'.plain, c.read.seq, recs, s, peer, c.offer)
  BY <1>3a
<1>4. Reading(c', s, peer, toServer, c'.recv \o toClient)
  BY <1>1, <1>2, <1>3 DEF Reading
<1>5. Shapes'
  BY <1>1 DEF Shapes
<1> QED BY <1>4, <1>5 DEF IInv, Stage

(* The next message, when it is whole.                                     *)
LEMMA Takes ==
    ASSUME Shapes, peer \in Peers, NEW j, HasTaken(c, peer, j), HasMessage(c.plain),
           Arriving(At(peer, c.offer)[j], c.plain, c.read.seq, c.recv \o toClient,
                    s, peer, c.offer)
    PROVE  /\ Message = Messages(peer, c.offer)[j + 1]
           /\ Carried(At(peer, c.offer)[j + 1], BehindMessage(c.plain), c.read.seq,
                      c.recv \o toClient, s, peer, c.offer)
           /\ Arriving(At(peer, c.offer)[j + 1], BehindMessage(c.plain), c.read.seq,
                       c.recv \o toClient, s, peer, c.offer)
           /\ Len(BehindMessage(c.plain)) <= BufSize
           /\ j + 1 \in 0..Len(Messages(peer, c.offer))
<1> DEFINE o == c.offer
           plain == c.plain
           seq == c.read.seq
           w == c.recv \o toClient
<1>0. PICK before \in MaybeCCS :
       \E recs : /\ w = before \o recs /\ (before # <<>> => seq = 0)
                 /\ Carried(At(peer, o)[j], plain, seq, recs, s, peer, o)
  BY DEF Arriving
<1>1. PICK recs :
         /\ w = before \o recs /\ (before # <<>> => seq = 0)
         /\ Carried(At(peer, o)[j], plain, seq, recs, s, peer, o)
  BY <1>0
<1>2. j \in Nat /\ j + 1 <= Len(Messages(peer, o)) /\ j + 1 \in 1..Len(Messages(peer, o))
  BY MessagesLeft
<1>3. HasMessage(plain) /\ Len(plain) <= BufSize
  BY DEF Shapes
<1> HIDE DEF o, plain, seq, w
<1>4. /\ FrontMessage(plain) = Messages(peer, o)[j + 1]
      /\ Carried(At(peer, o)[j + 1], BehindMessage(plain), seq, recs, s, peer, o)
      /\ Len(BehindMessage(plain)) \in 0..Len(plain) /\ seq # 0 /\ Len(plain) \in Nat
  <2>1. Carried(At(peer, o)[j], plain, seq, recs, s, peer, o)
    BY <1>1
  <2>2. j \in Nat /\ j + 1 <= Len(Messages(peer, o))
    BY <1>2 DEF o
  <2>3. Len(plain) \in Nat
    BY <2>1, <2>2, CarriedTake
  <2>5. Carried(At(peer, o)[j + 1], BehindMessage(plain), seq, recs, s, peer, o)
    BY <1>3, <2>1, <2>2, CarriedTake
  <2>4. FrontMessage(plain) = Messages(peer, o)[j + 1]
    BY <1>3, <2>1, <2>2, CarriedTake, ZenonT(30)
  <2>6. Len(BehindMessage(plain)) \in 0..Len(plain)
    BY <1>3, <2>1, <2>2, CarriedTake
  <2>7. seq # 0
    BY <1>3, <2>1, <2>2, CarriedStarted
  <2> QED BY <2>3, <2>4, <2>5, <2>6, <2>7
<1>5. w = recs
  <2>1. before = <<>> /\ IsSeq(recs)
    BY <1>1, <1>4 DEF Carried
  <2> QED BY <1>1, <2>1, JoinOne
<1>6. Len(BehindMessage(plain)) <= BufSize
  BY <1>3, <1>4, Constants
<1>7. Arriving(At(peer, o)[j + 1], BehindMessage(plain), seq, w, s, peer, o)
  BY <1>1, <1>4, <1>5 DEF Arriving
<1>8. j + 1 \in 0..Len(Messages(peer, o))
  BY <1>2
<1> QED BY <1>4, <1>5, <1>6, <1>7, <1>8 DEF Message, o, plain, seq, w

(* What a handler changes that only notes its message.                     *)
LEMMA NotedIs ==
    ASSUME DOMAIN c = ClientFields, NEW m, NEW phase, NEW k, Message = m,
           k = Noted(m, phase)
    PROVE  /\ SameKeys(k, c) /\ k.plain = BehindMessage(c.plain) /\ k.phase = phase
           /\ k.transcript = Append(c.transcript, m) /\ k.pending = c.pending
           /\ k.pkey = c.pkey /\ k.msg = m
  BY DEF Noted, Taken, SameKeys, ClientFields

(* The first message of the flight is EncryptedExtensions.                 *)
LEMMA RecvEncryptedExtensionsInv == ASSUME IInv, RecvEncryptedExtensions PROVE IInv'
<1> DEFINE o == c.offer
           w == c.recv \o toClient
<1>1. /\ c.outcome = "none" /\ c.phase = "RecvEncryptedExtensions" /\ HasMessage(c.plain)
      /\ c' = IF Message.type # "EncryptedExtensions" THEN Failed(Taken, "unexpected")
              ELSE Noted(Message, IF c.accepted THEN "RecvFinished" ELSE "RecvCertRequestOrCert")
      /\ UNCHANGED <<s, peer, toServer, toClient>>
  BY DEF RecvEncryptedExtensions, Handles, Runs
<1>2. /\ Shapes /\ DOMAIN c = ClientFields /\ peer \in Peers /\ Keyed(c, peer)
      /\ c.unsent = FALSE /\ Serving(s, peer, o) /\ toServer = <<>>
  BY <1>1, ReadsFlight DEF Encrypted
<1>3. PICK j \in 0..Len(Messages(peer, o)) :
         HasTaken(c, peer, j) /\ Arriving(At(peer, o)[j], c.plain, c.read.seq, w, s, peer, o)
  BY <1>1, ReadsFlight DEF Encrypted
<1>4. j = 0 /\ c.pending = FALSE /\ c.transcript = Hellos(peer, o)
  BY <1>1, <1>3 DEF HasTaken
<1>5. /\ Message = Messages(peer, o)[j + 1] /\ Len(BehindMessage(c.plain)) <= BufSize
      /\ Arriving(At(peer, o)[j + 1], BehindMessage(c.plain), c.read.seq, w, s, peer, o)
      /\ j + 1 \in 0..Len(Messages(peer, o))
  BY <1>1, <1>2, <1>3, Takes
<1>6. Message = Extensions /\ Message.type = "EncryptedExtensions" /\ j + 1 = 1
  <2>1. Messages(peer, o)[1] = Extensions /\ Extensions.type = "EncryptedExtensions"
    BY <1>2, MessagesAre DEF Extensions
  <2> QED BY <1>4, <1>5, <2>1
<1>7. c' = Noted(Extensions, IF c.accepted THEN "RecvFinished" ELSE "RecvCertRequestOrCert")
  BY <1>1, <1>6
<1>8. /\ SameKeys(c', c) /\ c'.plain = BehindMessage(c.plain)
      /\ c'.phase = (IF c.accepted THEN "RecvFinished" ELSE "RecvCertRequestOrCert")
      /\ c'.transcript = WithExtensions(peer, o) /\ c'.pending = FALSE /\ c'.offer = o
  <2>1. /\ SameKeys(c', c) /\ c'.plain = BehindMessage(c.plain)
        /\ c'.phase = (IF c.accepted THEN "RecvFinished" ELSE "RecvCertRequestOrCert")
        /\ c'.transcript = Append(c.transcript, Extensions) /\ c'.pending = c.pending
    BY <1>2, <1>6, <1>7, NotedIs
  <2> QED BY <1>4, <2>1 DEF WithExtensions, SameKeys
<1>9. c.accepted = Resumes(peer, o)
  BY <1>2 DEF Keyed
<1>10. HasTaken(c', peer, j + 1)
  <2>1. CASE Resumes(peer, o)
    <3>1. Len(Messages(peer, o)) = 2 /\ Unfinished(peer, o) = WithExtensions(peer, o)
      BY <1>2, <2>1, MessagesAre DEF Unfinished
    <3>2. c'.phase = "RecvFinished" /\ j + 1 = Len(Messages(peer, o)) - 1
      BY <1>6, <1>8, <1>9, <2>1, <3>1
    <3> QED BY <1>8, <2>1, <3>1, <3>2 DEF HasTaken
  <2>2. CASE ~ Resumes(peer, o)
    <3>1. c'.phase = "RecvCertRequestOrCert"
      BY <1>8, <1>9, <2>2
    <3> QED BY <1>6, <1>8, <2>2, <3>1 DEF HasTaken
  <2> QED BY <2>1, <2>2
<1> HIDE DEF w
<1> QED BY <1>1, <1>2, <1>5, <1>8, <1>10, GoesOn DEF w

(* The second, without a ticket taken, is CertificateRequest or            *)
(* Certificate; a Certificate is left for the next handler.                *)
LEMMA RecvCertRequestOrCertInv == ASSUME IInv, RecvCertRequestOrCert PROVE IInv'
<1> DEFINE o == c.offer
           w == c.recv \o toClient
<1>1. /\ c.outcome = "none" /\ c.phase = "RecvCertRequestOrCert" /\ HasMessage(c.plain)
      /\ c' = IF Message.type = "CertificateRequest"
              THEN [Noted(Message, "RecvCertificate") EXCEPT !.certRequest = TRUE]
              ELSE IF Message.type = "Certificate"
              THEN [Taken EXCEPT !.pending = TRUE, !.phase = "RecvCertificate"]
              ELSE Failed(Taken, "unexpected")
      /\ UNCHANGED <<s, peer, toServer, toClient>>
  BY DEF RecvCertRequestOrCert, Handles, Runs
<1>2. /\ Shapes /\ DOMAIN c = ClientFields /\ peer \in Peers /\ Keyed(c, peer)
      /\ c.unsent = FALSE /\ Serving(s, peer, o) /\ toServer = <<>>
  BY <1>1, ReadsFlight DEF Encrypted
<1>3. PICK j \in 0..Len(Messages(peer, o)) :
         HasTaken(c, peer, j) /\ Arriving(At(peer, o)[j], c.plain, c.read.seq, w, s, peer, o)
  BY <1>1, ReadsFlight DEF Encrypted
<1>4. /\ j = 1 /\ j + 1 = 2 /\ c.pending = FALSE /\ c.transcript = WithExtensions(peer, o)
      /\ ~ Resumes(peer, o)
  BY <1>1, <1>3 DEF HasTaken
<1>5. /\ Message = Messages(peer, o)[2] /\ Len(BehindMessage(c.plain)) <= BufSize
      /\ Arriving(At(peer, o)[2], BehindMessage(c.plain), c.read.seq, w, s, peer, o)
      /\ 2 \in 0..Len(Messages(peer, o))
  <2>1. /\ Message = Messages(peer, o)[j + 1] /\ Len(BehindMessage(c.plain)) <= BufSize
        /\ Arriving(At(peer, o)[j + 1], BehindMessage(c.plain), c.read.seq, w, s, peer, o)
        /\ j + 1 \in 0..Len(Messages(peer, o))
    BY <1>1, <1>2, <1>3, Takes
  <2> QED BY <1>4, <2>1
<1>6. CASE peer.asksCert
  <2>1. Message = Request /\ Message.type = "CertificateRequest"
    BY <1>2, <1>4, <1>5, <1>6, MessagesAre DEF Request
  <2> DEFINE k == Noted(Request, "RecvCertificate")
  <2>2. c' = [k EXCEPT !.certRequest = TRUE]
    BY <1>1, <2>1
  <2>3. /\ SameKeys(k, c) /\ k.plain = BehindMessage(c.plain) /\ k.phase = "RecvCertificate"
        /\ k.transcript = Append(c.transcript, Request) /\ k.pending = c.pending
    BY <1>2, <2>1, NotedIs
  <2> HIDE DEF k
  <2>4. /\ SameKeys(c', c) /\ c'.plain = k.plain /\ c'.phase = k.phase
        /\ c'.transcript = k.transcript /\ c'.pending = k.pending /\ c'.offer = c.offer
    BY <2>2, <2>3 DEF SameKeys, ClientFields
  <2>5. Append(c.transcript, Request) = WithRequest(peer, o)
    BY <1>4, <1>6 DEF WithRequest
  <2>6. HasTaken(c', peer, 2)
    BY <1>4, <1>6, <2>3, <2>4, <2>5 DEF HasTaken
  <2> HIDE DEF w
  <2> QED BY <1>1, <1>2, <1>5, <2>3, <2>4, <2>6, GoesOn DEF w
<1>7. CASE ~ peer.asksCert
  <2>1. Message = Certificate(peer) /\ Message.type = "Certificate"
    <3>1. Len(Messages(peer, o)) = 4
      BY <1>2, <1>4, <1>7, MessagesAre
    <3>2. Messages(peer, o)[Len(Messages(peer, o)) - 2] = Certificate(peer)
      BY <1>2, <1>4, MessagesAre
    <3>3. 4 - 2 = 2
      OBVIOUS
    <3> QED BY <1>5, <3>1, <3>2, <3>3 DEF Certificate
  <2>2. c' = [Taken EXCEPT !.pending = TRUE, !.phase = "RecvCertificate"]
    BY <1>1, <2>1
  <2>3. /\ SameKeys(c', c) /\ c'.plain = BehindMessage(c.plain) /\ c'.phase = "RecvCertificate"
        /\ c'.transcript = c.transcript /\ c'.pending = TRUE /\ c'.offer = c.offer
        /\ c'.msg = Message
    BY <1>2, <2>2 DEF Taken, SameKeys, ClientFields
  <2>4. WithRequest(peer, o) = WithExtensions(peer, o)
    BY <1>7 DEF WithRequest
  <2>5. HasTaken(c', peer, 2)
    BY <1>4, <1>7, <2>1, <2>3, <2>4 DEF HasTaken
  <2> HIDE DEF w
  <2> QED BY <1>1, <1>2, <1>5, <2>3, <2>5, GoesOn DEF w
<1> QED BY <1>6, <1>7

(* The certificate, waiting in msg_buf or still to be taken.               *)
LEMMA CertificateIs ==
    ASSUME IInv, c.outcome = "none", c.phase = "RecvCertificate",
           c.pending \/ HasMessage(c.plain),
           NEW k, k = IF c.pending THEN [c EXCEPT !.pending = FALSE] ELSE Taken
    PROVE  /\ (IF c.pending THEN c.msg ELSE Message) = Certificate(peer)
           /\ SameKeys(k, c) /\ k.pending = FALSE /\ k.phase = "RecvCertificate"
           /\ k.transcript = WithRequest(peer, c.offer) /\ ~ Resumes(peer, c.offer)
           /\ Len(k.plain) <= BufSize
           /\ Len(Messages(peer, c.offer)) - 2 \in 0..Len(Messages(peer, c.offer))
           /\ Arriving(At(peer, c.offer)[Len(Messages(peer, c.offer)) - 2], k.plain,
                       c.read.seq, c.recv \o toClient, s, peer, c.offer)
<1> DEFINE o == c.offer
           L == Len(Messages(peer, o))
           w == c.recv \o toClient
<1>1. Shapes /\ DOMAIN c = ClientFields /\ peer \in Peers
  BY ReadsFlight DEF Encrypted
<1>2. PICK j \in 0..L :
         HasTaken(c, peer, j) /\ Arriving(At(peer, o)[j], c.plain, c.read.seq, w, s, peer, o)
  BY ReadsFlight DEF Encrypted
<1>3. /\ j = 2 /\ ~ Resumes(peer, o) /\ c.transcript = WithRequest(peer, o)
      /\ \/ c.pending = FALSE /\ peer.asksCert
         \/ c.pending = TRUE /\ ~ peer.asksCert /\ c.msg = Certificate(peer)
  BY <1>2 DEF HasTaken
<1>4. /\ Messages(peer, o)[L - 2] = Certificate(peer)
      /\ L = IF peer.asksCert THEN 5 ELSE 4
  BY <1>1, <1>3, MessagesAre
<1>5. CASE c.pending = TRUE
  <2>1. L = 4 /\ L - 2 = 2 /\ L - 2 \in 0..L
    BY <1>3, <1>4, <1>5
  <2>2. k = [c EXCEPT !.pending = FALSE]
    BY <1>5
  <2>3. /\ SameKeys(k, c) /\ k.plain = c.plain /\ k.phase = c.phase
        /\ k.transcript = c.transcript /\ k.pending = FALSE
    BY <1>1, <2>2 DEF SameKeys, ClientFields
  <2>4. Len(k.plain) <= BufSize
    BY <1>1, <2>3 DEF Shapes
  <2>5. Arriving(At(peer, o)[L - 2], k.plain, c.read.seq, w, s, peer, o)
    BY <1>2, <1>3, <2>1, <2>3
  <2>6. c.msg = Certificate(peer)
    BY <1>3, <1>5
  <2> QED BY <1>3, <1>5, <2>1, <2>3, <2>4, <2>5, <2>6
<1>6. CASE c.pending = FALSE
  <2>1. L = 5 /\ L - 2 = 3 /\ L - 2 \in 0..L /\ j + 1 = 3
    BY <1>3, <1>4, <1>6
  <2>2. k = Taken /\ HasMessage(c.plain)
    BY <1>6
  <2>3. /\ SameKeys(k, c) /\ k.plain = BehindMessage(c.plain) /\ k.phase = c.phase
        /\ k.transcript = c.transcript /\ k.pending = FALSE
    BY <1>1, <1>6, <2>2 DEF Taken, SameKeys, ClientFields
  <2>4. /\ Message = Messages(peer, o)[j + 1] /\ Len(BehindMessage(c.plain)) <= BufSize
        /\ Arriving(At(peer, o)[j + 1], BehindMessage(c.plain), c.read.seq, w, s, peer, o)
    BY <1>1, <1>2, <2>2, Takes
  <2>5. Message = Certificate(peer)
    BY <1>4, <2>1, <2>4
  <2>6. Arriving(At(peer, o)[L - 2], k.plain, c.read.seq, w, s, peer, o)
    BY <2>1, <2>3, <2>4
  <2> QED BY <1>3, <1>6, <2>1, <2>3, <2>4, <2>5, <2>6
<1> QED BY <1>3, <1>5, <1>6

(* A Certificate, taken now or left by the handler before, is trusted or   *)
(* fails.                                                                  *)
LEMMA RecvCertificateInv == ASSUME IInv, RecvCertificate PROVE IInv'
<1> DEFINE o == c.offer
           w == c.recv \o toClient
           i == Len(Messages(peer, o)) - 2
           m == IF c.pending THEN c.msg ELSE Message
           k == IF c.pending THEN [c EXCEPT !.pending = FALSE] ELSE Taken
<1>1. /\ c.outcome = "none" /\ c.phase = "RecvCertificate"
      /\ c.pending \/ HasMessage(c.plain)
      /\ c' = IF m.type # "Certificate" THEN Failed(k, "unexpected")
              ELSE IF ~ m.trusted THEN Failed(k, "x509")
              ELSE [k EXCEPT !.pkey = TRUE, !.transcript = Append(@, m),
                             !.phase = "RecvCertificateVerify"]
      /\ UNCHANGED <<s, peer, toServer, toClient>>
  BY DEF RecvCertificate, Runs
<1>2. /\ Shapes /\ DOMAIN c = ClientFields /\ peer \in Peers /\ Keyed(c, peer)
      /\ c.unsent = FALSE /\ Serving(s, peer, o) /\ toServer = <<>>
  BY <1>1, ReadsFlight DEF Encrypted
<1>3. m = Certificate(peer)
  BY <1>1, CertificateIs
<1>4. /\ SameKeys(k, c) /\ k.pending = FALSE /\ k.phase = "RecvCertificate"
      /\ k.transcript = WithRequest(peer, o) /\ ~ Resumes(peer, o)
      /\ Len(k.plain) <= BufSize /\ i \in 0..Len(Messages(peer, o))
      /\ Arriving(At(peer, o)[i], k.plain, c.read.seq, w, s, peer, o)
  <2> DEFINE d == k
  <2>1. d = IF c.pending THEN [c EXCEPT !.pending = FALSE] ELSE Taken
    OBVIOUS
  <2> HIDE DEF d
  <2>2. /\ SameKeys(d, c) /\ d.pending = FALSE /\ d.phase = "RecvCertificate"
        /\ d.transcript = WithRequest(peer, o) /\ ~ Resumes(peer, o)
        /\ Len(d.plain) <= BufSize /\ i \in 0..Len(Messages(peer, o))
        /\ Arriving(At(peer, o)[i], d.plain, c.read.seq, w, s, peer, o)
    BY <1>1, <2>1, CertificateIs
  <2> QED BY <2>2 DEF d
<1>5. Certificate(peer).type = "Certificate" /\ Certificate(peer).trusted = peer.trusted
  BY DEF Certificate
<1> HIDE DEF m, k, i, w
<1>6. CASE ~ peer.trusted
  <2>1. c' = Failed(k, "x509")
    BY <1>1, <1>3, <1>5, <1>6
  <2>2. /\ DOMAIN c' = ClientFields /\ c'.recv = c.recv /\ c'.outcome = "failed"
        /\ c'.error = "x509" /\ c'.hellos = c.hellos /\ c'.plain = k.plain
        /\ c'.offer = c.offer /\ c'.phase = "RecvCertificate"
    BY <1>4, <2>1 DEF Failed, SameKeys, ClientFields
  <2>3. c'.hellos \in 0..2 /\ c'.phase \in Encrypted /\ peer.trusted = FALSE
    BY <1>2, <1>6, <2>2, PeerIs DEF Keyed, Encrypted
  <2>4. s.phase \in {"flight", "waits"} /\ s.psk = Resumes(peer, c'.offer)
    BY <1>2, <2>2 DEF Serving, Settled
  <2>5. GaveUp(c', s, peer, toServer)
    BY <1>2, <2>2, <2>3, <2>4 DEF GaveUp
  <2>6. Shapes'
    BY <1>1, <1>2, <1>4, <2>2 DEF Shapes
  <2> QED BY <1>1, <2>5, <2>6 DEF IInv, Stage
<1>7. CASE peer.trusted
  <2>1. c' = [k EXCEPT !.pkey = TRUE, !.transcript = Append(@, m),
                       !.phase = "RecvCertificateVerify"]
    BY <1>1, <1>3, <1>5, <1>7
  <2>2. /\ SameKeys(c', c) /\ c'.plain = k.plain /\ c'.phase = "RecvCertificateVerify"
        /\ c'.transcript = Append(k.transcript, m) /\ c'.pending = FALSE
        /\ c'.pkey = TRUE /\ c'.offer = c.offer
    BY <1>4, <2>1 DEF SameKeys, ClientFields
  <2>3. c'.transcript = WithCertificate(peer, o)
    BY <1>3, <1>4, <2>2 DEF WithCertificate
  <2>4. HasTaken(c', peer, i)
    BY <1>4, <2>2, <2>3 DEF HasTaken, i
  <2> QED BY <1>1, <1>2, <1>4, <2>2, <2>4, GoesOn DEF w
<1> QED BY <1>6, <1>7

(* CertificateVerify is over the transcript the client has.                *)
LEMMA RecvCertificateVerifyInv == ASSUME IInv, RecvCertificateVerify PROVE IInv'
<1> DEFINE o == c.offer
           L == Len(Messages(peer, o))
           w == c.recv \o toClient
<1>1. /\ c.outcome = "none" /\ c.phase = "RecvCertificateVerify" /\ HasMessage(c.plain)
      /\ c' = IF Message.type # "CertificateVerify" THEN Failed(Taken, "unexpected")
              ELSE IF Message.over # c.transcript THEN Failed(Taken, "bad_signature")
              ELSE Noted(Message, "RecvFinished")
      /\ UNCHANGED <<s, peer, toServer, toClient>>
  BY DEF RecvCertificateVerify, Handles, Runs
<1>2. /\ Shapes /\ DOMAIN c = ClientFields /\ peer \in Peers /\ Keyed(c, peer)
      /\ c.unsent = FALSE /\ Serving(s, peer, o) /\ toServer = <<>>
  BY <1>1, ReadsFlight DEF Encrypted
<1>3. PICK j \in 0..L :
         HasTaken(c, peer, j) /\ Arriving(At(peer, o)[j], c.plain, c.read.seq, w, s, peer, o)
  BY <1>1, ReadsFlight DEF Encrypted
<1>4. /\ j = L - 2 /\ c.pending = FALSE /\ c.transcript = WithCertificate(peer, o)
      /\ ~ Resumes(peer, o) /\ c.pkey = TRUE
  BY <1>1, <1>3 DEF HasTaken
<1>5. L - 2 + 1 = L - 1 /\ Messages(peer, o)[L - 1] = Signed(peer, o)
  <2>1. L = IF peer.asksCert THEN 5 ELSE 4
    BY <1>2, <1>4, MessagesAre
  <2>2. Messages(peer, o)[L - 1] = Signed(peer, o)
    BY <1>2, <1>4, MessagesAre
  <2> HIDE DEF L
  <2> QED BY <2>1, <2>2
<1>6. /\ Message = Signed(peer, o) /\ Len(BehindMessage(c.plain)) <= BufSize
      /\ Arriving(At(peer, o)[L - 1], BehindMessage(c.plain), c.read.seq, w, s, peer, o)
      /\ L - 1 \in 0..L
  <2>1. /\ Message = Messages(peer, o)[j + 1] /\ Len(BehindMessage(c.plain)) <= BufSize
        /\ Arriving(At(peer, o)[j + 1], BehindMessage(c.plain), c.read.seq, w, s, peer, o)
        /\ j + 1 \in 0..L
    BY <1>1, <1>2, <1>3, Takes
  <2> QED BY <1>4, <1>5, <2>1
<1>7. Message.type = "CertificateVerify" /\ Message.over = WithCertificate(peer, o)
  BY <1>6 DEF Signed
<1>8. c' = Noted(Signed(peer, o), "RecvFinished")
  BY <1>1, <1>4, <1>6, <1>7
<1>9. /\ SameKeys(c', c) /\ c'.plain = BehindMessage(c.plain) /\ c'.phase = "RecvFinished"
      /\ c'.transcript = Append(c.transcript, Signed(peer, o)) /\ c'.pending = c.pending
      /\ c'.pkey = c.pkey
  BY <1>2, <1>6, <1>8, NotedIs
<1>10. c'.offer = o /\ c'.transcript = Unfinished(peer, o)
  BY <1>4, <1>9 DEF Unfinished, SameKeys
<1>11. HasTaken(c', peer, L - 1)
  BY <1>4, <1>9, <1>10 DEF HasTaken
<1> HIDE DEF w
<1> QED BY <1>1, <1>2, <1>6, <1>9, <1>11, GoesOn DEF w

(* The server's Finished is the one the client computes; it is the last of *)
(* the flight.                                                             *)
LEMMA RecvFinishedInv == ASSUME IInv, RecvFinished PROVE IInv'
<1> DEFINE o == c.offer
           L == Len(Messages(peer, o))
           w == c.recv \o toClient
           transcript == Append(c.transcript, Message)
           master == MasterSecret(c.secret)
<1>1. /\ c.outcome = "none" /\ c.phase = "RecvFinished" /\ HasMessage(c.plain)
      /\ c' = IF Message.type # "Finished" THEN Failed(Taken, "unexpected")
              ELSE IF Message.mac # Mac(FinishedKey(c.serverSecret), c.transcript)
              THEN Failed(Taken, "bad_finished")
              ELSE [Taken EXCEPT !.transcript = transcript, !.secret = master,
                       !.read = FreshKey(Derive(master, "s ap traffic", transcript)),
                       !.serverSecret = FinishedKey(c.clientSecret),
                       !.clientSecret = Derive(master, "c ap traffic", transcript),
                       !.phase = "SendFinished"]
      /\ UNCHANGED <<s, peer, toServer, toClient>>
  BY DEF RecvFinished, Handles, Runs
<1>2. /\ Shapes /\ DOMAIN c = ClientFields /\ peer \in Peers /\ Keyed(c, peer)
      /\ c.unsent = FALSE /\ Serving(s, peer, o) /\ toServer = <<>>
  BY <1>1, ReadsFlight DEF Encrypted
<1>3. PICK j \in 0..L :
         HasTaken(c, peer, j) /\ Arriving(At(peer, o)[j], c.plain, c.read.seq, w, s, peer, o)
  BY <1>1, ReadsFlight DEF Encrypted
<1>4. /\ j = L - 1 /\ c.pending = FALSE /\ c.transcript = Unfinished(peer, o)
      /\ c.pkey = TRUE \/ Resumes(peer, o)
  BY <1>1, <1>3 DEF HasTaken
<1>5. L - 1 + 1 = L /\ Messages(peer, o)[L] = ServerDone(peer, o)
  <2>1. L \in Nat
    BY <1>2, MessagesAre, AppendIs
  <2>2. Messages(peer, o)[L] = ServerDone(peer, o)
    BY <1>2, MessagesAre
  <2> HIDE DEF L
  <2> QED BY <2>1, <2>2
<1>6. /\ Message = ServerDone(peer, o) /\ Len(BehindMessage(c.plain)) <= BufSize
      /\ Carried(At(peer, o)[L], BehindMessage(c.plain), c.read.seq, w, s, peer, o)
  <2>1. /\ Message = Messages(peer, o)[j + 1] /\ Len(BehindMessage(c.plain)) <= BufSize
        /\ Carried(At(peer, o)[j + 1], BehindMessage(c.plain), c.read.seq, w, s, peer, o)
    BY <1>1, <1>2, <1>3, Takes
  <2> QED BY <1>4, <1>5, <2>1
<1>7. BehindMessage(c.plain) = <<>> /\ w = <<>> /\ s.phase = "waits"
  <2> DEFINE plain == BehindMessage(c.plain)
             seq == c.read.seq
  <2>1. Carried(At(peer, o)[L], plain, seq, w, s, peer, o)
    BY <1>6
  <2> HIDE DEF plain, seq, w
  <2>2. plain = <<>> /\ w = <<>> /\ s.phase = "waits"
    BY <1>2, <2>1, CarriedEnd
  <2> QED BY <2>2 DEF plain
<1>8. /\ Message.type = "Finished"
      /\ Message.mac = Mac(FinishedKey(ServerShake(peer, o)), Unfinished(peer, o))
  BY <1>6 DEF ServerDone
<1>9. /\ c.secret = ShakeSecret(peer, o) /\ c.write = FreshKey(ClientShake(peer, o))
      /\ c.clientSecret = ClientShake(peer, o) /\ c.serverSecret = ServerShake(peer, o)
      /\ c.hellos \in 0..2 /\ c.accepted = Resumes(peer, o) /\ Trying(c)
  BY <1>2 DEF Keyed
<1>10. transcript = Whole(peer, o) /\ master = Master(peer, o)
  BY <1>4, <1>6, <1>9 DEF Whole, Master
<1>11. c' = [Taken EXCEPT !.transcript = Whole(peer, o), !.secret = Master(peer, o),
                !.read = FreshKey(ServerApp(peer, o)),
                !.serverSecret = FinishedKey(ClientShake(peer, o)),
                !.clientSecret = ClientApp(peer, o), !.phase = "SendFinished"]
  <2> HIDE DEF transcript, master
  <2> QED BY <1>1, <1>4, <1>8, <1>9, <1>10 DEF ServerApp, ClientApp
<1>12. /\ DOMAIN c' = ClientFields /\ c'.recv = c.recv /\ c'.outcome = c.outcome
       /\ c'.error = c.error /\ c'.hellos = c.hellos /\ c'.plain = BehindMessage(c.plain)
       /\ c'.offer = c.offer /\ c'.phase = "SendFinished" /\ c'.ticket = c.ticket
       /\ c'.accepted = c.accepted /\ c'.write = c.write /\ c'.pkey = c.pkey
       /\ c'.unsent = c.unsent /\ c'.transcript = Whole(peer, o)
       /\ c'.secret = Master(peer, o) /\ c'.read = FreshKey(ServerApp(peer, o))
       /\ c'.serverSecret = FinishedKey(ClientShake(peer, o))
       /\ c'.clientSecret = ClientApp(peer, o)
  BY <1>2, <1>11 DEF Taken, ClientFields
<1>13. ToFinish(c', peer)
  <2>1. Trying(c')
    BY <1>9, <1>12 DEF Trying
  <2>2. Checked(c', peer)
    BY <1>4, <1>7, <1>9, <1>12, <2>1 DEF Checked, Trying
  <2> QED BY <1>9, <1>12, <2>1, <2>2 DEF ToFinish
<1>14. Finishing(c', s, peer, toServer, c'.recv \o toClient)
  BY <1>2, <1>7, <1>12, <1>13 DEF Finishing
<1>15. Shapes'
  BY <1>1, <1>2, <1>6, <1>12 DEF Shapes
<1> QED BY <1>1, <1>14, <1>15 DEF IInv, Stage

-------------------------------------------------------------------------------
(* The client's Finished, and what follows.                                *)

(* The client's Finished is built, and the keys of the session follow.     *)
LEMMA SendFinishedInv == ASSUME IInv, SendFinished PROVE IInv'
<1> DEFINE o == c.offer
           m == [type |-> "Finished", mac |-> Mac(c.serverSecret, c.transcript)]
           transcript == ThroughFinished(m)
<1>1. /\ c.outcome = "none" /\ ~ c.unsent /\ c.phase = "SendFinished"
      /\ c' = [c EXCEPT !.msg = [type |-> "Sealed", key |-> c.write, inner |-> m],
                        !.unsent = TRUE, !.transcript = Append(@, m),
                        !.resMaster = Derive(c.secret, "res master", transcript),
                        !.write = FreshKey(c.clientSecret),
                        !.clientSecret = None, !.serverSecret = None,
                        !.phase = "Complete"]
      /\ UNCHANGED <<s, peer, toServer, toClient>>
  BY DEF SendFinished, Runs
<1>2. Shapes /\ Stage(c, s, peer, toServer, c.recv \o toClient) /\ DOMAIN c = ClientFields
  BY DEF IInv, Shapes
<1>3. Finishing(c, s, peer, toServer, c.recv \o toClient)
  BY <1>1, <1>2, ClientStage
<1>4. /\ ToFinish(c, peer) /\ toServer = <<>> /\ Serving(s, peer, o) /\ s.phase = "waits"
      /\ c.recv \o toClient = <<>>
  BY <1>1, <1>3 DEF Finishing, Finished
<1>5. /\ Checked(c, peer) /\ Trying(c) /\ c.transcript = Whole(peer, o)
      /\ c.secret = Master(peer, o) /\ c.clientSecret = ClientApp(peer, o)
      /\ c.serverSecret = FinishedKey(ClientShake(peer, o))
      /\ c.read = FreshKey(ServerApp(peer, o)) /\ c.write = FreshKey(ClientShake(peer, o))
  BY <1>4 DEF ToFinish
<1>6. m = ClientDone(peer, o)
  BY <1>5 DEF ClientDone
<1>7. Derive(c.secret, "res master", transcript) = Resumption(peer, o)
  BY <1>5, <1>6 DEF ThroughFinished, Resumption
<1>8. [type |-> "Sealed", key |-> c.write, inner |-> m] = ClientDoneSealed(peer, o)
  BY <1>5, <1>6 DEF ClientDoneSealed
<1> HIDE DEF m, transcript
<1>9. /\ DOMAIN c' = ClientFields /\ c'.recv = c.recv /\ c'.outcome = c.outcome
      /\ c'.error = c.error /\ c'.hellos = c.hellos /\ c'.plain = c.plain
      /\ c'.offer = c.offer /\ c'.phase = "Complete" /\ c'.ticket = c.ticket
      /\ c'.accepted = c.accepted /\ c'.pkey = c.pkey /\ c'.read = c.read
      /\ c'.unsent = TRUE /\ c'.msg = ClientDoneSealed(peer, o)
      /\ c'.resMaster = Resumption(peer, o) /\ c'.write = FreshKey(ClientApp(peer, o))
  BY <1>1, <1>2, <1>5, <1>7, <1>8 DEF ClientFields
<1>10. Finished(c', peer)
  <2>1. Checked(c', peer)
    BY <1>5, <1>9 DEF Checked
  <2> QED BY <1>5, <1>9, <2>1 DEF Finished, Trying
<1>11. Finishing(c', s, peer, toServer, c'.recv \o toClient)
  BY <1>4, <1>5, <1>9, <1>10 DEF Finishing, Trying
<1>12. Shapes'
  BY <1>1, <1>2, <1>9 DEF Shapes
<1> QED BY <1>1, <1>11, <1>12 DEF IInv, Stage

(* With Finished gone the connection opens.                                *)
LEMMA OpenInv == ASSUME IInv, Open PROVE IInv'
<1>1. /\ c.outcome = "none" /\ ~ c.unsent /\ c.phase = "Complete"
      /\ c' = [c EXCEPT !.outcome = "open"] /\ UNCHANGED <<s, peer, toServer, toClient>>
  BY DEF Open, Runs
<1>2. Shapes /\ Stage(c, s, peer, toServer, c.recv \o toClient) /\ DOMAIN c = ClientFields
  BY DEF IInv, Shapes
<1>3. /\ DOMAIN c' = ClientFields /\ c'.recv = c.recv /\ c'.outcome = "open"
      /\ c'.error = c.error /\ c'.hellos = c.hellos /\ c'.plain = c.plain
      /\ c'.offer = c.offer /\ c'.phase = c.phase /\ c'.ticket = c.ticket
      /\ c'.accepted = c.accepted /\ c'.pkey = c.pkey /\ c'.read = c.read
      /\ c'.unsent = c.unsent /\ c'.resMaster = c.resMaster /\ c'.write = c.write
  BY <1>1, <1>2 DEF ClientFields
<1>4. Finished(c, peer) => Finished(c', peer)
  BY <1>3 DEF Finished, Checked
<1>5. Shapes'
  BY <1>1, <1>2, <1>3 DEF Shapes
<1>6. CASE Finishing(c, s, peer, toServer, c.recv \o toClient)
  <2>1. Finishing(c', s, peer, toServer, c'.recv \o toClient)
    BY <1>1, <1>3, <1>4, <1>6 DEF Finishing, ToFinish
  <2> QED BY <1>1, <1>5, <2>1 DEF IInv, Stage
<1>7. CASE Over(c, s, peer, toServer, c.recv \o toClient)
  <2>1. Over(c', s, peer, toServer, c'.recv \o toClient)
    BY <1>1, <1>3, <1>4, <1>7 DEF Over
  <2> QED BY <1>1, <1>5, <2>1 DEF IInv, Stage
<1>8. CASE Objected(c, s, peer, toServer, c.recv \o toClient)
  <2>1. Objected(c', s, peer, toServer, c'.recv \o toClient)
    BY <1>1, <1>3, <1>4, <1>8 DEF Objected
  <2> QED BY <1>1, <1>5, <2>1 DEF IInv, Stage
<1> QED BY <1>1, <1>2, <1>6, <1>7, <1>8, ClientStage

(* A message of one unit is whole as soon as it is there.                  *)
LEMMA OneMessage ==
    ASSUME NEW m, Size(m) = 1
    PROVE  FrontMessage(Units(m)) = m
<1>1. Units(m)[1].msg = m
  <2>1. Size(m) \in Nat \ {0}
    OBVIOUS
  <2> QED BY <2>1, OneUnit
<1>2. SubSeq(Units(m), 1, Size(m)) = Units(m)
  <2>1. Units(m) = [i \in 1..1 |-> [msg |-> m, unit |-> i]]
    BY DEF Units
  <2> DEFINE e == [msg |-> m, unit |-> 1]
             u == Units(m)
  <2>2. u \in Seq({e}) /\ Len(u) = 1
    <3>1. \A i \in 1..1 : [msg |-> m, unit |-> i] = e
      OBVIOUS
    <3>2. u = [i \in 1..1 |-> e]
      BY <2>1, <3>1
    <3> HIDE DEF u, e
    <3>3. [i \in 1..1 |-> e] \in Seq({e}) /\ Len([i \in 1..1 |-> e]) = 1
      OBVIOUS
    <3> QED BY <3>2, <3>3
  <2> HIDE DEF u, e
  <2>3. SubSeq(u, 1, 1) = u
    BY <2>2
  <2> QED BY <2>3 DEF u
<1> QED BY <1>1, <1>2 DEF FrontMessage

(* In the open session: the ticket, or the alert of a server that wanted a *)
(* Certificate.                                                            *)
LEMMA PostHandshakeInv == ASSUME IInv, PostHandshake PROVE IInv'
<1> DEFINE x == c.recv[1]
           y == Following(c.recv) \o toClient
           o == c.offer
           m == FrontMessage(x.data)
           k == [c EXCEPT !.recv = Behind, !.read = Used(@)]
           K == FreshKey(ServerApp(peer, o))
<1>1. /\ c.outcome = "open" /\ c.recv # <<>> /\ UNCHANGED <<s, peer, toServer, toClient>>
      /\ c' = IF ~ Opens(c.read, x) THEN Failed(c, "bad_mac")
              ELSE IF m.type = "NewSessionTicket"
              THEN [k EXCEPT !.ticket = ResumptionPsk(c.resMaster, m.nonce)]
              ELSE Failed(k, "alert")
  BY DEF PostHandshake
<1>2. /\ Shapes /\ DOMAIN c = ClientFields /\ IsSeq(Following(c.recv)) /\ IsSeq(y)
      /\ Following(c.recv) = Behind /\ peer \in Peers
      /\ Stage(c, s, peer, toServer, Then(x, y))
  BY <1>1, ReadsFrom
<1> HIDE DEF x, y
<1>3. /\ c.phase = "Complete" /\ c.outcome \in {"none", "open"}
  BY <1>1, <1>2, ClientStage
<1>4. Then(x, y) # <<>> /\ IsSeq(<<>>)
  BY <1>2, NothingFollows
<1>5. ~ Finishing(c, s, peer, toServer, Then(x, y))
  BY <1>4 DEF Finishing
<1>6. \A z : Then(x, y) = Then(z, <<>>) => x = z /\ y = <<>>
  BY <1>2, <1>4, SameFront
<1>7. CASE Over(c, s, peer, toServer, Then(x, y))
  <2>1. /\ Finished(c, peer) /\ c.unsent = FALSE /\ toServer = <<>> /\ s.phase = "done"
        /\ Settled(s, peer, o) /\ s.resMaster = Resumption(peer, o)
        /\ s.read = FreshKey(ClientApp(peer, o)) /\ s.write = Used(FreshKey(ServerApp(peer, o)))
        /\ Then(x, y) = Then(Sealed(K, Units(Ticket)), <<>>) /\ c.read = K
    BY <1>4, <1>7 DEF Over
  <2>2. x = Sealed(K, Units(Ticket)) /\ y = <<>>
    <3> DEFINE z == Sealed(K, Units(Ticket))
    <3>1. Then(x, y) = Then(z, <<>>)
      BY <2>1
    <3> HIDE DEF z
    <3>2. x = z /\ y = <<>>
      BY <1>6, <3>1
    <3> QED BY <3>2 DEF z
  <2>3. Opens(c.read, x) /\ m = Ticket
    <3>1. x.key = K /\ x.data = Units(Ticket)
      BY <2>2, TypesDiffer
    <3>2. FrontMessage(Units(Ticket)) = Ticket
      BY <1>2, SizesAre, OneMessage
    <3> QED BY <2>1, <3>1, <3>2 DEF Opens
  <2>4. m.type = "NewSessionTicket" /\ m.nonce = 1
    BY <2>3 DEF Ticket
  <2>5. c' = [k EXCEPT !.ticket = ResumptionPsk(c.resMaster, 1)]
    BY <1>1, <2>3, <2>4
  <2>6. /\ DOMAIN c' = ClientFields /\ c'.recv = Behind /\ c'.outcome = c.outcome
        /\ c'.error = c.error /\ c'.hellos = c.hellos /\ c'.plain = c.plain
        /\ c'.offer = c.offer /\ c'.phase = c.phase /\ c'.accepted = c.accepted
        /\ c'.pkey = c.pkey /\ c'.unsent = c.unsent /\ c'.resMaster = c.resMaster
        /\ c'.write = c.write /\ c'.ticket = ResumptionPsk(c.resMaster, 1)
        /\ c'.read = Used(c.read)
    BY <1>2, <2>5 DEF ClientFields
  <2>7. Finished(c', peer)
    BY <2>1, <2>6 DEF Finished, Checked
  <2>8. c'.ticket = ResumptionPsk(Resumption(peer, o), 1) /\ c'.read = Used(K)
    BY <2>1, <2>6 DEF Finished
  <2>9. c'.recv \o toClient = <<>>
    BY <1>2, <2>2, <2>6 DEF y
  <2>10. Over(c', s, peer, toServer, c'.recv \o toClient)
    BY <1>1, <2>1, <2>6, <2>7, <2>8, <2>9 DEF Over
  <2>11. Shapes'
    BY <1>1, <1>2, <2>6 DEF Shapes
  <2> QED BY <1>1, <2>10, <2>11 DEF IInv, Stage
<1>8. CASE Objected(c, s, peer, toServer, Then(x, y))
  <2>1. /\ c.phase = "Complete" /\ c.plain = <<>> /\ c.hellos \in 0..2 /\ c.unsent = FALSE
        /\ s.phase = "rejected" /\ peer.asksCert /\ ~ s.psk /\ toServer = <<>>
        /\ Then(x, y) = Then(Sealed(K, Units(Objection)), <<>>) /\ c.read = K
    BY <1>1, <1>8 DEF Objected
  <2>2. x = Sealed(K, Units(Objection))
    <3> DEFINE z == Sealed(K, Units(Objection))
    <3>1. Then(x, y) = Then(z, <<>>)
      BY <2>1
    <3> HIDE DEF z
    <3>2. x = z
      BY <1>6, <3>1
    <3> QED BY <3>2 DEF z
  <2>3. Opens(c.read, x) /\ m = Objection
    <3>1. x.key = K /\ x.data = Units(Objection)
      BY <2>2, TypesDiffer
    <3>2. FrontMessage(Units(Objection)) = Objection
      BY <1>2, SizesAre, OneMessage
    <3> QED BY <2>1, <3>1, <3>2 DEF Opens
  <2>4. m.type # "NewSessionTicket"
    BY <2>3 DEF Objection
  <2>5. c' = Failed(k, "alert")
    BY <1>1, <2>3, <2>4
  <2>6. /\ DOMAIN c' = ClientFields /\ c'.recv = Behind /\ c'.outcome = "failed"
        /\ c'.error = "alert" /\ c'.hellos = c.hellos /\ c'.plain = c.plain
        /\ c'.offer = c.offer /\ c'.phase = c.phase /\ c'.unsent = c.unsent
    BY <1>2, <2>5 DEF Failed, ClientFields
  <2>7. Objected(c', s, peer, toServer, c'.recv \o toClient)
    BY <1>1, <2>1, <2>6 DEF Objected
  <2>8. Shapes'
    BY <1>1, <1>2, <2>6 DEF Shapes
  <2> QED BY <1>1, <2>7, <2>8 DEF IInv, Stage
<1> QED BY <1>2, <1>3, <1>5, <1>7, <1>8, ClientStage

-------------------------------------------------------------------------------
(* The server.                                                             *)

(* A sequence of one, taken apart.                                         *)
LEMMA OnlyOne ==
    ASSUME NEW m
    PROVE  <<m>> # <<>> /\ Head(<<m>>) = m /\ Tail(<<m>>) = <<>>
  OBVIOUS

(* What a step of the server that says recs starts from.                   *)
LEMMA SaysTo ==
    ASSUME IInv, NEW recs, IsSeq(recs), Says(recs), UNCHANGED <<c, peer>>
    PROVE  /\ DOMAIN c = ClientFields /\ DOMAIN s = ServerFields /\ peer \in Peers
           /\ Stage(c, s, peer, toServer, c.recv \o toClient) /\ IsSeq(c.recv \o toClient)
           /\ c'.recv \o toClient' = (c.recv \o toClient) \o recs
           /\ DOMAIN s' = ServerFields => Shapes'
<1>1. Shapes /\ Stage(c, s, peer, toServer, c.recv \o toClient) /\ toClient' = toClient \o recs
  BY DEF IInv, Says
<1>2. /\ DOMAIN c = ClientFields /\ DOMAIN s = ServerFields /\ peer \in Peers
      /\ IsSeq(c.recv) /\ IsSeq(toClient)
  BY <1>1 DEF Shapes
<1>3. IsSeq(c.recv \o toClient) /\ IsSeq(toClient \o recs)
  BY <1>2, JoinIs
<1>4. c.recv \o (toClient \o recs) = (c.recv \o toClient) \o recs
  <2> DEFINE a == c.recv
  <2>1. IsSeq(a)
    BY <1>2
  <2> HIDE DEF a
  <2>2. (a \o toClient) \o recs = a \o (toClient \o recs)
    BY <1>2, <2>1, JoinAssoc
  <2> QED BY <2>2 DEF a
<1>5. DOMAIN s' = ServerFields => Shapes'
  BY <1>1, <1>2, <1>3 DEF Shapes
<1> QED BY <1>1, <1>2, <1>3, <1>4, <1>5

(* A message in an empty channel, and a ChangeCipherSpec behind it.        *)
LEMMA FirstSaid ==
    ASSUME NEW x, NEW ccs \in MaybeCCS
    PROVE  /\ IsSeq(<<x>>) /\ <<>> \o <<x>> = Then(x, <<>>)
           /\ IsSeq(<<x>> \o ccs) /\ <<x>> \o ccs = Then(x, ccs)
           /\ <<>> \o (<<x>> \o ccs) = Then(x, ccs)
<1>1. IsSeq(<<x>>) /\ IsSeq(<<>>) /\ IsSeq(ccs)
  BY ShortSeq, CCSIs
<1>2. IsSeq(<<x>> \o ccs)
  BY <1>1, JoinIs
<1>3. <<>> \o <<x>> = <<x>> /\ Then(x, <<>>) = <<x>>
  BY <1>1, JoinOne, ThenIs
<1>4. <<>> \o (<<x>> \o ccs) = <<x>> \o ccs
  BY <1>2, JoinOne
<1> QED BY <1>1, <1>2, <1>3, <1>4 DEF Then

(* The server sends a ChangeCipherSpec or does not.                        *)
LEMMA CompatIs == Compat \in MaybeCCS
  BY DEF Compat, MaybeCCS

(* A server without TLS 1.3, or without a group in common, answers so.     *)
LEMMA TurnedAwayInv ==
    ASSUME IInv, Greeting(c, s, toServer, c.recv \o toClient), c.unsent = FALSE,
           Refuses(peer), NEW phase, phase = "done" \/ (phase = "rejected" /\ peer.group = "none"),
           s' = [s EXCEPT !.phase = phase], toServer' = <<>>, UNCHANGED <<c, peer>>,
           NEW x, x = Plain(OldHello) \/ x = Alert, Says(<<x>>)
    PROVE  IInv'
<1>1. IsSeq(<<x>>) /\ <<>> \o <<x>> = Then(x, <<>>)
  <2>1. <<>> \in MaybeCCS
    BY DEF MaybeCCS
  <2> QED BY <2>1, FirstSaid
<1>2. /\ DOMAIN s = ServerFields /\ (DOMAIN s' = ServerFields => Shapes')
      /\ c'.recv \o toClient' = (c.recv \o toClient) \o <<x>>
  BY <1>1, SaysTo
<1>3. DOMAIN s' = ServerFields /\ s'.phase = phase
  BY <1>2 DEF ServerFields
<1>4. SaidFirst(c) /\ c.recv \o toClient = <<>>
  BY DEF Greeting
<1>5. c'.recv \o toClient' = Then(Plain(OldHello), <<>>) \/ c'.recv \o toClient' = Then(Alert, <<>>)
  <2>1. c'.recv \o toClient' = Then(x, <<>>)
    BY <1>1, <1>2, <1>4
  <2> QED BY <2>1
<1>6. TurnedAway(c', s', peer', toServer', c'.recv \o toClient')
  BY <1>3, <1>4, <1>5 DEF TurnedAway
<1> QED BY <1>2, <1>3, <1>6 DEF IInv, Stage

(* The fields of the first hello that the server reads.                    *)
LEMMA FirstFields ==
    ASSUME NEW o
    PROVE  /\ FirstHello(o).random = 1 /\ FirstHello(o).ticket = o
           /\ FirstHello(o).share = FirstShare /\ FirstShare.group = "x25519"
<1>1. /\ Bare(FirstShare, FALSE, o).random = 1 /\ Bare(FirstShare, FALSE, o).ticket = o
      /\ Bare(FirstShare, FALSE, o).share = FirstShare /\ FirstShare.group = "x25519"
  BY DEF Bare, FirstShare
<1>2. FirstHello(o) = [Bare(FirstShare, FALSE, o) EXCEPT !.binder =
           IF o = None THEN None ELSE Binder(ThePsk, <<>>, Bare(FirstShare, FALSE, o))]
  BY DEF FirstHello, Bound
<1>3. DOMAIN Bare(FirstShare, FALSE, o) =
          {"type", "random", "share", "cookie", "ticket", "binder"}
  BY DEF Bare
<1> QED BY <1>1, <1>2, <1>3

(* The server asks for another hello.                                      *)
LEMMA RetryInv ==
    ASSUME IInv, Greeting(c, s, toServer, c.recv \o toClient), c.unsent = FALSE,
           ~ Refuses(peer), Retries(peer), Retry(FirstHello(c.offer)),
           toServer' = <<>>, UNCHANGED <<c, peer>>
    PROVE  IInv'
<1> DEFINE o == c.offer
           m == FirstHello(o)
           x == Plain(TheRetry(peer))
<1>1. m.share.group = "x25519"
  BY FirstFields
<1>2. [type |-> "HelloRetryRequest", cookie |-> peer.cookie,
       group |-> IF m.share.group # peer.group THEN peer.group ELSE "none"] = TheRetry(peer)
  <2> HIDE DEF m
  <2> QED BY <1>1 DEF TheRetry, RetryGroup
<1>3. /\ s' = [s EXCEPT !.phase = "retry", !.first = m,
                    !.transcript = Append(MessageHash(<<m>>), TheRetry(peer))]
      /\ Says(<<x>> \o Compat)
  <2> HIDE DEF m
  <2> QED BY <1>2 DEF Retry, m
<1> HIDE DEF x
<1>4. /\ IsSeq(<<x>> \o Compat) /\ <<>> \o (<<x>> \o Compat) = Then(x, Compat)
  BY CompatIs, FirstSaid
<1>5. /\ DOMAIN s = ServerFields /\ (DOMAIN s' = ServerFields => Shapes')
      /\ c'.recv \o toClient' = (c.recv \o toClient) \o (<<x>> \o Compat)
  <2> DEFINE recs == <<x>> \o Compat
  <2>1. IsSeq(recs) /\ Says(recs)
    BY <1>3, <1>4
  <2> HIDE DEF recs
  <2>2. /\ DOMAIN s = ServerFields /\ (DOMAIN s' = ServerFields => Shapes')
        /\ c'.recv \o toClient' = (c.recv \o toClient) \o recs
    BY <2>1, SaysTo
  <2> QED BY <2>2 DEF recs
<1>6. SaidFirst(c) /\ c.recv \o toClient = <<>>
  BY DEF Greeting
<1>7. c'.recv \o toClient' = Then(x, Compat)
  BY <1>4, <1>5, <1>6
<1>8. DOMAIN s' = ServerFields /\ Asking(s', peer, o)
  BY <1>3, <1>5 DEF ServerFields, Asking, RetryBase
<1>9. AskedAgain(c', s', peer', toServer', c'.recv \o toClient')
  BY <1>6, <1>7, <1>8, CompatIs DEF AskedAgain, x
<1> QED BY <1>5, <1>8, <1>9 DEF IInv, Stage

(* The fields of the second hello that the server reads.                   *)
LEMMA SecondFields ==
    ASSUME NEW p, NEW o
    PROVE  /\ SecondHello(p, o).random = 1 /\ SecondHello(p, o).ticket = o
           /\ SecondHello(p, o).share = SecondShare(p) /\ SecondShare(p).group = p.group
           /\ SecondHello(p, o).cookie = p.cookie
<1> DEFINE b == Bare(SecondShare(p), p.cookie, o)
<1>1. /\ b.random = 1 /\ b.ticket = o /\ b.share = SecondShare(p)
      /\ SecondShare(p).group = p.group /\ b.cookie = p.cookie
  BY DEF Bare, SecondShare
<1>2. SecondHello(p, o) = [b EXCEPT !.binder =
           IF o = None THEN None ELSE Binder(ThePsk, RetryBase(p, o), b)]
  BY DEF SecondHello, Bound
<1>3. DOMAIN b = {"type", "random", "share", "cookie", "ticket", "binder"}
  BY DEF Bare
<1> HIDE DEF b
<1> QED BY <1>1, <1>2, <1>3

(* The server finds the binder right, over the same transcript.            *)
LEMMA BoundIs ==
    ASSUME NEW share, NEW cookie, NEW o, NEW base, o # None
    PROVE  GoodBinder(Bound(share, cookie, o, base), base)
<1> DEFINE b == Bare(share, cookie, o)
           m == Bound(share, cookie, o, base)
           x == Binder(ThePsk, base, b)
<1>1. m = [b EXCEPT !.binder = x]
  BY DEF Bound
<1>2. DOMAIN b = {"type", "random", "share", "cookie", "ticket", "binder"} /\ b.binder = None
  BY DEF Bare
<1>3. b = [b EXCEPT !.binder = None]
  BY DEF Bare
<1> HIDE DEF b, m, x
<1>4. m.binder = x
  BY <1>1, <1>2
<1>5. [m EXCEPT !.binder = None] = b
  BY <1>1, <1>2, <1>3
<1>6. m.binder = Binder(ThePsk, base, [m EXCEPT !.binder = None])
  BY <1>4, <1>5 DEF x
<1> QED BY <1>6 DEF GoodBinder, m

(* And so in the hello it goes by, first or second.                        *)
LEMMA TheHelloIs ==
    ASSUME NEW p, NEW o
    PROVE  /\ TheHello(p, o).ticket = o /\ TheHello(p, o).share = TheShare(p)
           /\ Resumes(p, o) => GoodBinder(TheHello(p, o), Base(p, o))
<1>1. CASE Retries(p)
  <2>1. TheHello(p, o) = SecondHello(p, o) /\ Base(p, o) = RetryBase(p, o)
        /\ TheShare(p) = SecondShare(p)
    BY <1>1 DEF TheHello, Base, TheShare
  <2>2. Resumes(p, o) => GoodBinder(SecondHello(p, o), RetryBase(p, o))
    BY BoundIs DEF Resumes, SecondHello
  <2> QED BY <2>1, <2>2, SecondFields
<1>2. CASE ~ Retries(p)
  <2>1. TheHello(p, o) = FirstHello(o) /\ Base(p, o) = <<>> /\ TheShare(p) = FirstShare
    BY <1>2 DEF TheHello, Base, TheShare
  <2>2. Resumes(p, o) => GoodBinder(FirstHello(o), <<>>)
    <3> DEFINE base == <<>>
               cookie == FALSE
    <3>1. FirstHello(o) = Bound(FirstShare, cookie, o, base)
      BY DEF FirstHello
    <3> HIDE DEF base, cookie
    <3>2. Resumes(p, o) => GoodBinder(Bound(FirstShare, cookie, o, base), base)
      BY BoundIs DEF Resumes
    <3>3. Resumes(p, o) => GoodBinder(FirstHello(o), base)
      BY <3>1, <3>2
    <3> QED BY <3>3 DEF base
  <2> QED BY <2>1, <2>2, FirstFields
<1> QED BY <1>1, <1>2

(* All of the flight is the server's.                                      *)
LEMMA CarriedFirst ==
    ASSUME NEW p \in Peers, NEW o, NEW v, v.phase = "flight", v.flight = Stream(p, o),
           v.write = FreshKey(ServerShake(p, o))
    PROVE  Carried(0, <<>>, 0, <<>>, v, p, o)
<1> DEFINE L == Len(Stream(p, o))
           cut == [i \in 0..0 |-> 0]
<1>1. PICK V : Stream(p, o) \in Seq(V)
  BY StreamIs DEF IsSeq
<1>2. L \in Nat /\ 0 < L
  <2> DEFINE ms == Messages(p, o)
  <2>1. Len(ms) \in Nat /\ 1 \in 1..Len(ms)
    BY MessagesAre
  <2>2. LaidOut(At(p, o), Stream(p, o), ms)
    BY StreamIs
  <2>3. At(p, o)[1] = At(p, o)[1 - 1] + Size(ms[1]) /\ At(p, o)[1] <= L /\ At(p, o)[0] = 0
    BY <2>1, <2>2 DEF LaidOut
  <2>4. Size(ms[1]) \in Nat \ {0}
    BY <2>1, MessagesAre
  <2>5. L \in Nat
    BY <1>1
  <2> HIDE DEF L, ms
  <2> QED BY <2>3, <2>4, <2>5
<1>3. Piece(p, o, 0, 0) = <<>> /\ Piece(p, o, 0, L) = Stream(p, o)
  <2>1. 0 \in Nat /\ 0 <= 0 /\ 0 <= Len(Stream(p, o))
    BY <1>2
  <2>2. SubSeq(Stream(p, o), 0 + 1, 0) = <<>>
    BY <1>1, <2>1, PieceIs
  <2>3. SubSeq(Stream(p, o), 0 + 1, L) = Stream(p, o)
    BY <1>1
  <2> QED BY <2>2, <2>3 DEF Piece
<1>4. cut \in [0..Len(<<>>) -> 0..L] /\ cut[0] = 0 /\ cut[Len(<<>>)] = 0 /\ Len(<<>>) = 0
  BY <1>2, ShortSeq
<1>5. v.write = [secret |-> ServerShake(p, o), seq |-> 0 + Len(<<>>)]
  BY <1>4 DEF FreshKey
<1> HIDE DEF cut
<1>6. IsSeq(<<>>) /\ 1..Len(<<>>) = {}
  BY <1>4, ShortSeq
<1>7. \E f \in [0..Len(<<>>) -> 0..L] :
         /\ 0 <= f[0] /\ <<>> = Piece(p, o, 0, f[0])
         /\ 0 = 0 => f[0] = 0
         /\ \A i \in 1..Len(<<>>) :
              /\ f[i - 1] < f[i] /\ f[i] - f[i - 1] <= MaxFragment
              /\ <<>>[i] = Sealed([secret |-> ServerShake(p, o), seq |-> 0 + i - 1],
                                  Piece(p, o, f[i - 1], f[i]))
         /\ \/ /\ v.phase = "flight" /\ v.flight = Piece(p, o, f[Len(<<>>)], L)
               /\ v.write = [secret |-> ServerShake(p, o), seq |-> 0 + Len(<<>>)]
               /\ f[Len(<<>>)] < L
            \/ v.phase = "waits" /\ f[Len(<<>>)] = L
  <2> cut \in [0..Len(<<>>) -> 0..L]
    BY <1>4
  <2> WITNESS cut \in [0..Len(<<>>) -> 0..L]
  <2>1. 0 <= cut[0] /\ <<>> = Piece(p, o, 0, cut[0]) /\ cut[0] = 0
    BY <1>3, <1>4
  <2>2. v.flight = Piece(p, o, cut[Len(<<>>)], L) /\ cut[Len(<<>>)] < L
    BY <1>2, <1>3, <1>4
  <2> QED BY <1>5, <1>6, <2>1, <2>2
<1> QED BY <1>6, <1>7 DEF Carried

(* The server answers a hello, and has its flight before it.               *)
LEMMA AcceptInv ==
    ASSUME IInv, SaidAll(c, peer), c.unsent = FALSE, toServer' = <<>>, UNCHANGED <<c, peer>>,
           Accept(TheHello(peer, c.offer), Base(peer, c.offer)),
           c.recv \o toClient \in MaybeCCS, c.recv \o toClient = <<>> \/ s.phase # "start"
    PROVE  IInv'
<1> DEFINE o == c.offer
           m == TheHello(peer, o)
           base == Base(peer, o)
           psk == m.ticket # None /\ peer.knows
           hello == [type |-> "ServerHello", share |-> [group |-> m.share.group, n |-> 0],
                     psk |-> psk]
           transcript == Append(Append(base, m), hello)
           secret == HandshakeSecret(EarlySecret(IF psk THEN ThePsk ELSE Zeros),
                                     DH(m.share, hello.share))
           client == Derive(secret, "c hs traffic", transcript)
           server == Derive(secret, "s hs traffic", transcript)
           flight == Flight(transcript, server, psk)
           ccs == IF s.phase = "start" THEN Compat ELSE <<>>
<1>1. IF psk /\ ~ GoodBinder(m, base) THEN Reject
      ELSE /\ s' = [s EXCEPT !.phase = "flight", !.psk = psk,
                          !.transcript = transcript \o flight, !.secret = MasterSecret(secret),
                          !.clientSecret = client, !.serverSecret = server,
                          !.read = FreshKey(client), !.write = FreshKey(server),
                          !.flight = AllUnits(flight)]
           /\ Says(<<Plain(hello)>> \o ccs)
  BY DEF Accept
<1>2. m.ticket = o /\ m.share = TheShare(peer) /\ (Resumes(peer, o) => GoodBinder(m, base))
  BY TheHelloIs
<1> HIDE DEF m, base, ccs
<1>3. psk = Resumes(peer, o)
  BY <1>2 DEF Resumes
<1> HIDE DEF psk
<1>4. hello = Answer(peer, o) /\ hello.share = [group |-> TheShare(peer).group, n |-> 0]
  BY <1>2, <1>3 DEF Answer
<1> HIDE DEF hello
<1>5. transcript = Hellos(peer, o)
  BY <1>4 DEF Hellos, m, base
<1>6. secret = ShakeSecret(peer, o)
  BY <1>2, <1>3, <1>4 DEF ShakeSecret
<1> HIDE DEF transcript, secret
<1>7. client = ClientShake(peer, o) /\ server = ServerShake(peer, o)
  BY <1>5, <1>6 DEF ClientShake, ServerShake
<1> HIDE DEF client, server
<1>8. flight = Messages(peer, o) /\ transcript \o flight = Whole(peer, o)
  <2>1. flight = Flight(Hellos(peer, o), ServerShake(peer, o), Resumes(peer, o))
    BY <1>3, <1>5, <1>7
  <2> HIDE DEF flight
  <2> QED BY <1>5, <2>1, FlightIs
<1> HIDE DEF flight
<1>9. /\ s' = [s EXCEPT !.phase = "flight", !.psk = psk,
                     !.transcript = transcript \o flight, !.secret = MasterSecret(secret),
                     !.clientSecret = client, !.serverSecret = server,
                     !.read = FreshKey(client), !.write = FreshKey(server),
                     !.flight = AllUnits(flight)]
      /\ Says(<<Plain(hello)>> \o ccs)
  BY <1>1, <1>2, <1>3
<1> DEFINE x == Plain(hello)
           w == c.recv \o toClient
           recs == <<x>> \o ccs
<1>10. ccs \in MaybeCCS /\ <<>> \in MaybeCCS
  BY CompatIs DEF MaybeCCS, ccs
<1>11. IsSeq(recs) /\ recs = Then(x, ccs) /\ IsSeq(ccs)
  <2> HIDE DEF x
  <2> QED BY <1>10, FirstSaid, CCSIs, ShortSeq
<1>12. /\ DOMAIN s = ServerFields /\ (DOMAIN s' = ServerFields => Shapes') /\ peer \in Peers
       /\ c'.recv \o toClient' = w \o recs /\ IsSeq(w)
  <2>1. Says(recs)
    BY <1>9
  <2> HIDE DEF recs
  <2> QED BY <1>11, <2>1, SaysTo DEF w
<1>13. /\ DOMAIN s' = ServerFields /\ s'.phase = "flight" /\ s'.psk = Resumes(peer, o)
       /\ s'.transcript = Whole(peer, o) /\ s'.secret = Master(peer, o)
       /\ s'.clientSecret = ClientShake(peer, o) /\ s'.read = FreshKey(ClientShake(peer, o))
       /\ s'.write = FreshKey(ServerShake(peer, o)) /\ s'.flight = Stream(peer, o)
  <2>1. s' = [s EXCEPT !.phase = "flight", !.psk = Resumes(peer, o),
                     !.transcript = Whole(peer, o), !.secret = Master(peer, o),
                     !.clientSecret = ClientShake(peer, o), !.serverSecret = ServerShake(peer, o),
                     !.read = FreshKey(ClientShake(peer, o)),
                     !.write = FreshKey(ServerShake(peer, o)), !.flight = Stream(peer, o)]
    BY <1>3, <1>6, <1>7, <1>8, <1>9 DEF Master, Stream
  <2> QED BY <1>12, <2>1 DEF ServerFields
<1>14. Serving(s', peer, o)
  BY <1>13 DEF Serving, Settled
<1>15. Carried(0, <<>>, 0, <<>>, s', peer, o)
  <2> DEFINE v == s'
  <2>1. /\ v.phase = "flight" /\ v.flight = Stream(peer, o)
        /\ v.write = FreshKey(ServerShake(peer, o))
    BY <1>13
  <2> HIDE DEF v
  <2>2. Carried(0, <<>>, 0, <<>>, v, peer, o)
    BY <1>12, <2>1, CarriedFirst
  <2> QED BY <2>2 DEF v
<1>16. c'.recv \o toClient' = w \o Then(Plain(Answer(peer, o)), ccs \o <<>>)
  <2>1. ccs \o <<>> = ccs
    BY <1>11, JoinOne
  <2> QED BY <1>4, <1>11, <1>12, <2>1 DEF x
<1>17. w \in MaybeCCS
  BY DEF w
<1>18. Answered(c', s', peer', toServer', c'.recv \o toClient')
  BY <1>10, <1>14, <1>15, <1>16, <1>17 DEF Answered
<1> QED BY <1>12, <1>13, <1>18 DEF IInv, Stage

(* The server takes a hello.                                               *)
LEMMA ServerHearsInv == ASSUME IInv, ServerHears PROVE IInv'
<1> DEFINE o == c.offer
           m == Head(toServer)
<1>1. /\ toServer # <<>> /\ s.phase \in {"start", "retry"} /\ toServer' = Tail(toServer)
      /\ UNCHANGED <<c, peer>>
      /\ IF ~ peer.v13
         THEN /\ s' = [s EXCEPT !.phase = "done"]
              /\ Says(<<Plain(OldHello)>>)
         ELSE IF peer.group = "none" THEN Reject
         ELSE IF s.phase = "retry"
         THEN IF GoodRetry(m) THEN Accept(m, s.transcript) ELSE Reject
         ELSE IF NeedsRetry(m) THEN Retry(m) ELSE Accept(m, <<>>)
  BY DEF ServerHears, OldHello
<1>2. Stage(c, s, peer, toServer, c.recv \o toClient) /\ Shapes
  BY DEF IInv
<1>3. \/ Greeting(c, s, toServer, c.recv \o toClient)
      \/ GreetingAgain(c, s, peer, toServer, c.recv \o toClient)
  BY <1>1, <1>2, ServerStage DEF Fresh, AskedAgain, NoGroupNamed
<1>4. CASE Greeting(c, s, toServer, c.recv \o toClient)
  <2>1. /\ SaidFirst(c) /\ s = NewServer /\ c.recv \o toClient = <<>>
        /\ c.unsent = FALSE /\ toServer = <<FirstHello(o)>>
    BY <1>1, <1>4 DEF Greeting
  <2>2. m = FirstHello(o) /\ toServer' = <<>> /\ s.phase = "start"
    <3> DEFINE h == FirstHello(o)
    <3>1. toServer = <<h>>
      BY <2>1
    <3> HIDE DEF h
    <3>2. m = h /\ toServer' = <<>>
      BY <1>1, <3>1, OnlyOne
    <3> QED BY <2>1, <3>2, NewServerIs DEF h
  <2>3. CASE ~ peer.v13
    <3>1. s' = [s EXCEPT !.phase = "done"] /\ Says(<<Plain(OldHello)>>) /\ Refuses(peer)
      BY <1>1, <2>3 DEF Refuses
    <3> QED BY <1>1, <1>4, <2>1, <2>2, <3>1, TurnedAwayInv
  <2>4. CASE peer.v13 /\ peer.group = "none"
    <3>1. s' = [s EXCEPT !.phase = "rejected"] /\ Says(<<Alert>>) /\ Refuses(peer)
      BY <1>1, <2>4 DEF Refuses, Reject
    <3> QED BY <1>1, <1>4, <2>1, <2>2, <2>4, <3>1, TurnedAwayInv
  <2>5. CASE peer.v13 /\ peer.group # "none"
    <3>1. IF NeedsRetry(FirstHello(o)) THEN Retry(FirstHello(o)) ELSE Accept(FirstHello(o), <<>>)
      <4> HIDE DEF m
      <4> QED BY <1>1, <2>2, <2>5
    <3>2. NeedsRetry(FirstHello(o)) <=> Retries(peer)
      <4>1. FirstHello(o).share.group = "x25519"
        BY FirstFields
      <4> QED BY <4>1 DEF NeedsRetry, Retries
    <3>3. ~ Refuses(peer)
      BY <2>5 DEF Refuses
    <3>4. CASE Retries(peer)
      BY <1>1, <1>4, <2>1, <2>2, <3>1, <3>2, <3>3, <3>4, RetryInv
    <3>5. CASE ~ Retries(peer)
      <4>1. TheHello(peer, o) = FirstHello(o) /\ Base(peer, o) = <<>> /\ TheShare(peer) = FirstShare
        BY <3>5 DEF TheHello, Base, TheShare
      <4>2. Accept(TheHello(peer, o), Base(peer, o))
        BY <3>1, <3>2, <3>5, <4>1
      <4>3. SaidAll(c, peer)
        <5> DEFINE h == FirstHello(o)
        <5>1. c.transcript = <<h>>
          BY <2>1 DEF SaidFirst
        <5> HIDE DEF h
        <5>2. c.transcript = Append(<<>>, h)
          BY <5>1
        <5>3. c.transcript = Append(Base(peer, o), TheHello(peer, o))
          BY <4>1, <5>2 DEF h
        <5> QED BY <2>1, <4>1, <5>3 DEF SaidAll, SaidFirst
      <4>4. c.recv \o toClient \in MaybeCCS
        BY <2>1 DEF MaybeCCS
      <4> QED BY <1>1, <2>1, <2>2, <4>2, <4>3, <4>4, AcceptInv
    <3> QED BY <3>4, <3>5
  <2> QED BY <2>3, <2>4, <2>5
<1>5. CASE GreetingAgain(c, s, peer, toServer, c.recv \o toClient)
  <2>1. /\ Retries(peer) /\ ~ Refuses(peer) /\ Asking(s, peer, o)
        /\ c.recv \o toClient \in MaybeCCS /\ SaidSecond(c, peer) /\ c.unsent = FALSE
        /\ toServer = <<SecondHello(peer, o)>>
    BY <1>1, <1>5 DEF GreetingAgain
  <2>2. m = SecondHello(peer, o) /\ toServer' = <<>> /\ s.phase = "retry"
    <3> DEFINE h == SecondHello(peer, o)
    <3>1. toServer = <<h>>
      BY <2>1
    <3> HIDE DEF h
    <3>2. m = h /\ toServer' = <<>>
      BY <1>1, <3>1, OnlyOne
    <3> QED BY <2>1, <3>2 DEF h, Asking
  <2>3. GoodRetry(SecondHello(peer, o))
    BY <2>1, FirstFields, SecondFields DEF GoodRetry, Asking
  <2>4. /\ TheHello(peer, o) = SecondHello(peer, o) /\ Base(peer, o) = RetryBase(peer, o)
        /\ TheShare(peer) = SecondShare(peer) /\ s.transcript = RetryBase(peer, o)
    BY <2>1 DEF TheHello, Base, TheShare, Asking
  <2>5. Accept(TheHello(peer, o), Base(peer, o))
    <3> HIDE DEF m
    <3> QED BY <1>1, <2>1, <2>2, <2>3, <2>4 DEF Refuses
  <2>6. SaidAll(c, peer)
    BY <2>1, <2>4 DEF SaidAll, SaidSecond
  <2> QED BY <1>1, <2>1, <2>2, <2>5, <2>6, AcceptInv
<1> QED BY <1>3, <1>4, <1>5

(* A record of the flight.                                                 *)
LEMMA SaidBehind ==
    ASSUME NEW a, NEW recs, NEW r, IsSeq(a), IsSeq(recs), NEW t, t = <<r>>
    PROVE  (a \o recs) \o t = a \o Append(recs, r)
<1>1. IsSeq(t) /\ recs \o t = Append(recs, r)
  BY ShortSeq, JoinOne
<1>2. IsSeq(t)
  BY <1>1
<1>3. (a \o recs) \o t = a \o (recs \o t)
  BY <1>2, JoinAssoc
<1> QED BY <1>1, <1>3

(* One more record goes to the end of the wire, behind the hello's.        *)
LEMMA SaidBehindHello ==
    ASSUME NEW a, NEW x, NEW b, NEW recs, NEW r, IsSeq(a), IsSeq(b), IsSeq(recs)
    PROVE  (a \o Then(x, b \o recs)) \o <<r>> = a \o Then(x, b \o Append(recs, r))
<1> DEFINE t == <<r>>
<1>1. IsSeq(t) /\ recs \o t = Append(recs, r)
  BY ShortSeq, JoinOne
<1>2. IsSeq(t)
  BY <1>1
<1>3. (a \o Then(x, b \o recs)) \o t = a \o Then(x, b \o Append(recs, r))
  <2> HIDE DEF t
  <2> DEFINE d == b \o recs
             e == Then(x, d)
             f == d \o t
             g == Append(recs, r)
  <2>1. IsSeq(d)
    BY JoinIs
  <2>2. f = b \o g
    <3>1. (b \o recs) \o t = b \o (recs \o t)
      BY <1>2, JoinAssoc
    <3> QED BY <1>1, <3>1
  <2> HIDE DEF d
  <2>3. IsSeq(e) /\ e \o t = Then(x, f)
    BY <1>1, <2>1, ThenIs
  <2> HIDE DEF e, f
  <2>4. (a \o e) \o t = a \o (e \o t)
    <3>1. IsSeq(e)
      BY <2>3
    <3> QED BY <1>2, <3>1, JoinAssoc
  <2>5. (a \o e) \o t = a \o Then(x, b \o g)
    BY <2>2, <2>3, <2>4
  <2> QED BY <2>5 DEF e, d
<1> QED BY <1>3

(* The server cuts the next record from its flight, as long as it likes.   *)
LEMMA ServerSendsInv == ASSUME IInv, ServerSends PROVE IInv'
<1> DEFINE o == c.offer
           w == c.recv \o toClient
<1>1. PICK k \in 1..MaxFragment :
         /\ k <= Len(s.flight)
         /\ Says(<<Sealed(s.write, SubSeq(s.flight, 1, k))>>)
         /\ s' = IF k < Len(s.flight)
                 THEN [s EXCEPT !.flight = SubSeq(@, k + 1, Len(@)), !.write = Used(@)]
                 ELSE [s EXCEPT !.flight = <<>>, !.phase = "waits",
                         !.write = FreshKey(Derive(s.secret, "s ap traffic", s.transcript))]
  BY DEF ServerSends
<1>2. s.phase = "flight" /\ UNCHANGED <<c, peer, toServer>>
  BY DEF ServerSends
<1> DEFINE r == Sealed(s.write, SubSeq(s.flight, 1, k))
<1>3. Says(<<r>>)
  BY <1>1
<1> HIDE DEF r
<1>4. IsSeq(<<r>>)
  BY ShortSeq
<1>5. /\ DOMAIN s = ServerFields /\ (DOMAIN s' = ServerFields => Shapes') /\ peer \in Peers
      /\ Stage(c, s, peer, toServer, w) /\ c'.recv \o toClient' = w \o <<r>>
  BY <1>2, <1>3, <1>4, SaysTo
<1>6. /\ DOMAIN s' = ServerFields /\ s'.psk = s.psk /\ s'.transcript = s.transcript
      /\ s'.secret = s.secret /\ s'.clientSecret = s.clientSecret /\ s'.read = s.read
  BY <1>1, <1>5 DEF ServerFields
<1>7. CASE GaveUp(c, s, peer, toServer)
  <2>1. s'.phase \in {"flight", "waits"}
    BY <1>1, <1>2, <1>5 DEF ServerFields
  <2>2. GaveUp(c', s', peer', toServer')
    BY <1>2, <1>6, <1>7, <2>1 DEF GaveUp
  <2> QED BY <1>5, <1>6, <2>2 DEF IInv, Stage
<1>8. ASSUME Serving(s, peer, o),
             NEW n, NEW plain, NEW seq, NEW recs, Carried(n, plain, seq, recs, s, peer, o)
      PROVE  Serving(s', peer, o) /\ Carried(n, plain, seq, Append(recs, r), s', peer, o)
  <2>1. \/ /\ k < Len(s.flight) /\ s'.phase = "flight"
           /\ s'.flight = SubSeq(s.flight, k + 1, Len(s.flight)) /\ s'.write = Used(s.write)
        \/ /\ k = Len(s.flight) /\ s'.phase = "waits" /\ s'.flight = <<>>
           /\ s'.write = FreshKey(Derive(s.secret, "s ap traffic", s.transcript))
    <3>1. CASE k < Len(s.flight)
      BY <1>1, <1>2, <1>5, <3>1 DEF ServerFields
    <3>2. CASE ~ (k < Len(s.flight))
      <4>1. k = Len(s.flight)
        <5>1. PICK cut \in [0..Len(recs) -> 0..Len(Stream(peer, o))] :
                /\ s.flight = Piece(peer, o, cut[Len(recs)], Len(Stream(peer, o)))
                /\ cut[Len(recs)] < Len(Stream(peer, o))
          BY <1>2, <1>8 DEF Carried
        <5>2. PICK V : Stream(peer, o) \in Seq(V)
          BY <1>5, StreamIs DEF IsSeq
        <5>3. Len(recs) \in Nat
          <6>1. IsSeq(recs)
            BY <1>8 DEF Carried
          <6> QED BY <6>1, AppendIs
        <5>4. cut[Len(recs)] \in 0..Len(Stream(peer, o)) /\ Len(Stream(peer, o)) \in Nat
          BY <5>1, <5>2, <5>3
        <5> DEFINE a == cut[Len(recs)]
                   b == Len(Stream(peer, o))
        <5>5. a \in Nat /\ b \in Nat /\ a <= b /\ b <= b
          BY <5>4
        <5> HIDE DEF a
        <5>6. Len(SubSeq(Stream(peer, o), a + 1, b)) = b - a
          BY <5>2, <5>5, PieceIs
        <5>7. Len(s.flight) \in Nat
          BY <5>1, <5>5, <5>6 DEF Piece, a
        <5>8. k \in Nat
          BY Constants
        <5> QED BY <1>1, <3>2, <5>7, <5>8
      <4> QED BY <1>1, <1>2, <1>5, <3>2, <4>1 DEF ServerFields
    <3> QED BY <3>1, <3>2
  <2>2. Serving(s', peer, o)
    <3>1. /\ Settled(s, peer, o) /\ s.read = FreshKey(ClientShake(peer, o))
      BY <1>8 DEF Serving
    <3>2. Settled(s', peer, o)
      BY <1>6, <3>1 DEF Settled
    <3>3. FreshKey(Derive(s.secret, "s ap traffic", s.transcript)) = FreshKey(ServerApp(peer, o))
      BY <3>1 DEF Settled, ServerApp
    <3> QED BY <1>6, <2>1, <3>1, <3>2, <3>3 DEF Serving
  <2>3. Carried(n, plain, seq, Append(recs, r), s', peer, o)
    <3> DEFINE v == s'
               f == o
    <3>1. /\ \/ /\ k < Len(s.flight) /\ v.phase = "flight"
                /\ v.flight = SubSeq(s.flight, k + 1, Len(s.flight)) /\ v.write = Used(s.write)
             \/ k = Len(s.flight) /\ v.phase = "waits"
          /\ Carried(n, plain, seq, recs, s, peer, f)
      BY <1>8, <2>1
    <3> HIDE DEF v, f
    <3>2. Carried(n, plain, seq, Append(recs, Sealed(s.write, SubSeq(s.flight, 1, k))), v, peer, f)
      BY <1>1, <1>2, <1>5, <3>1, CarriedSend
    <3> QED BY <3>2 DEF v, f, r
  <2> QED BY <2>2, <2>3
<1>9. CASE Reading(c, s, peer, toServer, w)
  <2>0. PICK j \in 0..Len(Messages(peer, o)), before \in MaybeCCS :
         \E recs : /\ HasTaken(c, peer, j) /\ w = before \o recs /\ (before # <<>> => c.read.seq = 0)
                   /\ Carried(At(peer, o)[j], c.plain, c.read.seq, recs, s, peer, o)
    BY <1>9 DEF Reading
  <2>1. PICK recs :
           /\ HasTaken(c, peer, j) /\ w = before \o recs /\ (before # <<>> => c.read.seq = 0)
           /\ Carried(At(peer, o)[j], c.plain, c.read.seq, recs, s, peer, o)
    BY <2>0
  <2>2. /\ Serving(s', peer, o)
        /\ Carried(At(peer, o)[j], c.plain, c.read.seq, Append(recs, r), s', peer, o)
    BY <1>8, <1>9, <2>1 DEF Reading
  <2>3. c'.recv \o toClient' = before \o Append(recs, r)
    <3>1. IsSeq(before) /\ IsSeq(recs)
      BY <2>1, CCSIs DEF Carried
    <3> DEFINE t == <<r>>
    <3>3. t = <<r>>
      OBVIOUS
    <3> HIDE DEF t
    <3>2. (before \o recs) \o t = before \o Append(recs, r)
      BY <3>1, <3>3, SaidBehind
    <3> QED BY <1>5, <2>1, <3>2 DEF t
  <2>4. Reading(c', s', peer', toServer', c'.recv \o toClient')
    <3> DEFINE more == Append(recs, r)
               u == c'.recv \o toClient'
    <3>1. u = before \o more /\ Carried(At(peer, o)[j], c.plain, c.read.seq, more, s', peer, o)
      BY <2>2, <2>3
    <3> HIDE DEF more, u
    <3>2. Reading(c', s', peer', toServer', u)
      BY <1>2, <1>9, <2>1, <2>2, <3>1 DEF Reading
    <3> QED BY <3>2 DEF u
  <2> QED BY <1>5, <1>6, <2>4 DEF IInv, Stage
<1>10. CASE Answered(c, s, peer, toServer, w)
  <2> DEFINE x == Plain(Answer(peer, o))
  <2>0. PICK before \in MaybeCCS, behind \in MaybeCCS :
         \E recs : w = before \o Then(x, behind \o recs) /\ Carried(0, <<>>, 0, recs, s, peer, o)
    BY <1>10 DEF Answered
  <2>1. PICK recs :
           w = before \o Then(x, behind \o recs) /\ Carried(0, <<>>, 0, recs, s, peer, o)
    BY <2>0
  <2>2. Serving(s', peer, o) /\ Carried(0, <<>>, 0, Append(recs, r), s', peer, o)
    BY <1>8, <1>10, <2>1 DEF Answered
  <2>3. c'.recv \o toClient' = before \o Then(x, behind \o Append(recs, r))
    <3> HIDE DEF x
    <3>1. IsSeq(before) /\ IsSeq(behind) /\ IsSeq(recs)
      BY <2>1, CCSIs DEF Carried
    <3>2. (before \o Then(x, behind \o recs)) \o <<r>> = before \o Then(x, behind \o Append(recs, r))
      BY <3>1, SaidBehindHello
    <3> QED BY <1>5, <2>1, <3>2
  <2>4. Answered(c', s', peer', toServer', c'.recv \o toClient')
    <3> DEFINE more == Append(recs, r)
               u == c'.recv \o toClient'
    <3>1. u = before \o Then(x, behind \o more) /\ Carried(0, <<>>, 0, more, s', peer, o)
      BY <2>2, <2>3
    <3> HIDE DEF more, u
    <3>2. Answered(c', s', peer', toServer', u)
      BY <1>2, <1>10, <2>1, <2>2, <3>1 DEF Answered
    <3> QED BY <3>2 DEF u
  <2> QED BY <1>5, <1>6, <2>4 DEF IInv, Stage
<1> QED BY <1>2, <1>5, <1>7, <1>9, <1>10, ServerStage

(* The server takes the client's Finished.                                 *)
LEMMA ServerFinishesInv == ASSUME IInv, ServerFinishes PROVE IInv'
<1> DEFINE o == c.offer
           w == c.recv \o toClient
           rec == Head(toServer)
           good == /\ Opens(s.read, rec) /\ (peer.asksCert => s.psk)
                   /\ rec.inner.mac = Mac(FinishedKey(s.clientSecret), s.transcript)
           resMaster == Derive(s.secret, "res master", Append(s.transcript, rec.inner))
           K == FreshKey(ServerApp(peer, o))
<1>1. /\ s.phase = "waits" /\ toServer # <<>> /\ toServer' = Tail(toServer)
      /\ UNCHANGED <<c, peer>>
      /\ IF good
         THEN /\ s' = [s EXCEPT !.phase = "done", !.resMaster = resMaster, !.write = Used(@),
                           !.read = FreshKey(Derive(s.secret, "c ap traffic", s.transcript))]
              /\ Says(<<Sealed(s.write, Units(Ticket))>>)
         ELSE /\ s' = [s EXCEPT !.phase = "rejected"]
              /\ Says(<<Sealed(s.write, Units(Objection))>>)
  BY DEF ServerFinishes, Ticket, Objection
<1>2. Stage(c, s, peer, toServer, w) /\ Shapes
  BY DEF IInv
<1>3. Finishing(c, s, peer, toServer, w)
  <2> HIDE DEF w, good, resMaster, rec, K, o
  <2>1. \/ Answered(c, s, peer, toServer, w) \/ Reading(c, s, peer, toServer, w)
        \/ GaveUp(c, s, peer, toServer) \/ Finishing(c, s, peer, toServer, w)
    BY <1>1, <1>2, ServerStage
  <2>2. toServer # <<>>
    BY <1>1
  <2>3. ~ Answered(c, s, peer, toServer, w)
    BY <2>2 DEF Answered
  <2>4. ~ Reading(c, s, peer, toServer, w)
    BY <2>2 DEF Reading
  <2>5. ~ GaveUp(c, s, peer, toServer)
    BY <2>2 DEF GaveUp
  <2> QED BY <2>1, <2>3, <2>4, <2>5
<1>4. /\ Finished(c, peer) /\ c.unsent = FALSE /\ toServer = <<ClientDoneSealed(peer, o)>>
      /\ c.ticket = None /\ c.read = K /\ Serving(s, peer, o) /\ w = <<>>
  BY <1>1, <1>3 DEF Finishing
<1>5. /\ Settled(s, peer, o) /\ s.read = FreshKey(ClientShake(peer, o)) /\ s.write = K
  BY <1>1, <1>4 DEF Serving
<1>6. rec = ClientDoneSealed(peer, o) /\ toServer' = <<>>
  <2> DEFINE h == ClientDoneSealed(peer, o)
  <2>1. toServer = <<h>>
    BY <1>4
  <2> HIDE DEF h
  <2>2. rec = h /\ toServer' = <<>>
    BY <1>1, <2>1, OnlyOne
  <2> QED BY <2>2 DEF h
<1>7. /\ Opens(s.read, rec) /\ rec.inner = ClientDone(peer, o)
      /\ rec.inner.mac = Mac(FinishedKey(s.clientSecret), s.transcript)
  <2>1. rec.key = FreshKey(ClientShake(peer, o)) /\ rec.inner = ClientDone(peer, o)
    <3> HIDE DEF rec
    <3> QED BY <1>6 DEF ClientDoneSealed
  <2>2. ClientDone(peer, o).mac = Mac(FinishedKey(ClientShake(peer, o)), Whole(peer, o))
    BY DEF ClientDone
  <2> HIDE DEF rec
  <2> QED BY <1>5, <2>1, <2>2 DEF Opens, Settled
<1>8. /\ resMaster = Resumption(peer, o)
      /\ FreshKey(Derive(s.secret, "c ap traffic", s.transcript)) = FreshKey(ClientApp(peer, o))
  <2> HIDE DEF rec
  <2> QED BY <1>5, <1>7 DEF Settled, Resumption, ClientApp
<1> HIDE DEF rec, resMaster
<1>9. ASSUME NEW x, Says(<<x>>)
      PROVE  /\ DOMAIN s = ServerFields /\ (DOMAIN s' = ServerFields => Shapes')
             /\ c'.recv \o toClient' = Then(x, <<>>)
  <2>1. IsSeq(<<x>>) /\ <<>> \o <<x>> = Then(x, <<>>)
    <3>1. <<>> \in MaybeCCS
      BY DEF MaybeCCS
    <3> QED BY <3>1, FirstSaid
  <2>2. /\ DOMAIN s = ServerFields /\ (DOMAIN s' = ServerFields => Shapes')
        /\ c'.recv \o toClient' = w \o <<x>>
    BY <1>1, <1>9, <2>1, SaysTo
  <2> QED BY <1>4, <2>1, <2>2
<1>10. CASE peer.asksCert => s.psk
  <2>1. /\ s' = [s EXCEPT !.phase = "done", !.resMaster = Resumption(peer, o),
                     !.write = Used(@), !.read = FreshKey(ClientApp(peer, o))]
        /\ Says(<<Sealed(s.write, Units(Ticket))>>)
    BY <1>1, <1>7, <1>8, <1>10
  <2>2. /\ DOMAIN s = ServerFields /\ (DOMAIN s' = ServerFields => Shapes')
        /\ c'.recv \o toClient' = Then(Sealed(K, Units(Ticket)), <<>>)
    <3> DEFINE x == Sealed(K, Units(Ticket))
    <3>1. Says(<<x>>)
      BY <1>5, <2>1
    <3> HIDE DEF x
    <3>2. /\ DOMAIN s = ServerFields /\ (DOMAIN s' = ServerFields => Shapes')
          /\ c'.recv \o toClient' = Then(x, <<>>)
      BY <1>9, <3>1
    <3> QED BY <3>2 DEF x
  <2>3. /\ DOMAIN s' = ServerFields /\ s'.phase = "done" /\ s'.psk = s.psk
        /\ s'.transcript = s.transcript /\ s'.secret = s.secret
        /\ s'.clientSecret = s.clientSecret /\ s'.resMaster = Resumption(peer, o)
        /\ s'.write = Used(s.write) /\ s'.read = FreshKey(ClientApp(peer, o))
    BY <2>1, <2>2 DEF ServerFields
  <2>4. Settled(s', peer, o)
    BY <1>5, <2>3 DEF Settled
  <2>5. Over(c', s', peer', toServer', c'.recv \o toClient')
    <3> DEFINE u == c'.recv \o toClient'
    <3>1. u = Then(Sealed(K, Units(Ticket)), <<>>)
      BY <2>2
    <3> HIDE DEF u
    <3> QED BY <1>1, <1>4, <1>5, <1>6, <2>3, <2>4, <3>1 DEF Over, u
  <2> QED BY <2>2, <2>3, <2>5 DEF IInv, Stage
<1>11. CASE peer.asksCert /\ ~ s.psk
  <2>1. /\ s' = [s EXCEPT !.phase = "rejected"]
        /\ Says(<<Sealed(s.write, Units(Objection))>>)
    BY <1>1, <1>11
  <2>2. /\ DOMAIN s = ServerFields /\ (DOMAIN s' = ServerFields => Shapes')
        /\ c'.recv \o toClient' = Then(Sealed(K, Units(Objection)), <<>>)
    <3> DEFINE x == Sealed(K, Units(Objection))
    <3>1. Says(<<x>>)
      BY <1>5, <2>1
    <3> HIDE DEF x
    <3>2. /\ DOMAIN s = ServerFields /\ (DOMAIN s' = ServerFields => Shapes')
          /\ c'.recv \o toClient' = Then(x, <<>>)
      BY <1>9, <3>1
    <3> QED BY <3>2 DEF x
  <2>3. DOMAIN s' = ServerFields /\ s'.phase = "rejected" /\ s'.psk = s.psk
    BY <2>1, <2>2 DEF ServerFields
  <2>4. Objected(c', s', peer', toServer', c'.recv \o toClient')
    <3> DEFINE u == c'.recv \o toClient'
    <3>1. u = Then(Sealed(K, Units(Objection)), <<>>)
      BY <2>2
    <3>2. c.phase = "Complete" /\ c.plain = <<>> /\ c.hellos \in 0..2
      BY <1>4 DEF Finished, Checked
    <3> HIDE DEF u
    <3> QED BY <1>1, <1>4, <1>6, <1>11, <2>3, <3>1, <3>2 DEF Objected, u
  <2> QED BY <2>2, <2>3, <2>4 DEF IInv, Stage
<1> QED BY <1>10, <1>11

-------------------------------------------------------------------------------
(* The invariant holds.                                                    *)

(* The initial states are Fresh.                                           *)
LEMMA Start == Init => IInv
<1> SUFFICES ASSUME Init PROVE IInv
  OBVIOUS
<1>1. /\ peer \in Peers /\ (peer.knows => c.offer = TheTicket)
      /\ s = NewServer /\ toServer = <<>> /\ toClient = <<>>
  BY DEF Init
<1>2. PICK t \in {None, TheTicket} : c = NewClient(t)
  BY DEF Init
<1>3. c.offer = t /\ c = NewClient(c.offer)
  <2>1. c.offer = t
    BY <1>2 DEF NewClient
  <2> QED BY <1>2, <2>1
<1>4. DOMAIN c = ClientFields /\ c.recv = <<>> /\ c.plain = <<>>
  BY <1>3, NewClientIs
<1>5. IsSeq(<<>>) /\ Len(<<>>) = 0 /\ <<>> \o <<>> = <<>>
  BY ShortSeq, JoinOne
<1>6. Shapes
  BY <1>1, <1>2, <1>3, <1>4, <1>5, NewServerIs, Constants DEF Shapes
<1>7. Fresh(c, s, toServer, c.recv \o toClient)
  BY <1>1, <1>3, <1>4, <1>5 DEF Fresh
<1> QED BY <1>6, <1>7 DEF IInv, Stage

(* The invariant holds in every behaviour; one step for each action.       *)
THEOREM Invariance == Spec => []IInv
<1>1. Init => IInv
  BY Start
<1>2. IInv /\ [Next]_vars => IInv'
  <2> SUFFICES ASSUME IInv, [Next]_vars PROVE IInv'
    OBVIOUS
  <2>1. CASE Receive
    BY <2>1, ReceiveInv
  <2>2. CASE SendClientHello
    BY <2>2, SendClientHelloInv
  <2>3. CASE Flush
    BY <2>3, FlushInv
  <2>4. CASE SkipCCS
    BY <2>4, SkipCCSInv
  <2>5. CASE Declined
    BY <2>5, DeclinedInv
  <2>6. CASE RecvServerHello
    BY <2>6, RecvServerHelloInv
  <2>7. CASE ReadRecord
    BY <2>7, ReadRecordInv
  <2>8. CASE RecvEncryptedExtensions
    BY <2>8, RecvEncryptedExtensionsInv
  <2>9. CASE RecvCertRequestOrCert
    BY <2>9, RecvCertRequestOrCertInv
  <2>10. CASE RecvCertificate
    BY <2>10, RecvCertificateInv
  <2>11. CASE RecvCertificateVerify
    BY <2>11, RecvCertificateVerifyInv
  <2>12. CASE RecvFinished
    BY <2>12, RecvFinishedInv
  <2>13. CASE SendFinished
    BY <2>13, SendFinishedInv
  <2>14. CASE Open
    BY <2>14, OpenInv
  <2>15. CASE PostHandshake
    BY <2>15, PostHandshakeInv
  <2>16. CASE ServerHears
    BY <2>16, ServerHearsInv
  <2>17. CASE ServerSends
    BY <2>17, ServerSendsInv
  <2>18. CASE ServerFinishes
    BY <2>18, ServerFinishesInv
  <2>19. CASE UNCHANGED vars
    <3>1. c' = c /\ s' = s /\ peer' = peer /\ toServer' = toServer /\ toClient' = toClient
      BY <2>19 DEF vars
    <3>2. Shapes' /\ Stage(c', s', peer', toServer', c'.recv \o toClient')
      BY <3>1 DEF IInv, Shapes
    <3> QED BY <3>2 DEF IInv
  <2> QED BY <2>1, <2>2, <2>3, <2>4, <2>5, <2>6, <2>7, <2>8, <2>9, <2>10, <2>11, <2>12, <2>13,
             <2>14, <2>15, <2>16, <2>17, <2>18, <2>19 DEF Next, Client, Server
<1> QED BY <1>1, <1>2, PTL DEF Spec

-------------------------------------------------------------------------------
(* What follows of it.  The stages again, by the client's outcome and by   *)
(* the server's.                                                           *)

(* What TypeOK asks of the phases and the outcome, stage by stage.         *)
LEMMA TypesOf ==
    ASSUME NEW k, NEW v, NEW p, NEW q, NEW w, Stage(k, v, p, q, w)
    PROVE  /\ k.phase \in Phases /\ k.outcome \in {"none", "open", "fallback", "failed"}
           /\ k.hellos \in 0..2
           /\ v.phase \in {"start", "retry", "flight", "waits", "done", "rejected"}
           /\ k.outcome = "failed" <=> k.error # "none"
<1> USE DEF Phases, Encrypted
<1>1. CASE Fresh(k, v, q, w)
  <2>1. k = NewClient(k.offer) /\ v = NewServer
    BY <1>1 DEF Fresh
  <2>2. k.phase = "SendClientHello" /\ k.outcome = "none" /\ k.error = "none" /\ k.hellos = 0
    BY <2>1, NewClientIs
  <2>3. v.phase = "start"
    BY <2>1, NewServerIs
  <2> QED BY <2>2, <2>3
<1>2. CASE Greeting(k, v, q, w)
  BY <1>2, NewServerIs DEF Greeting, SaidFirst, Unkeyed, Trying
<1>3. CASE TurnedAway(k, v, p, q, w)
  BY <1>3 DEF TurnedAway, SaidFirst, Unkeyed, Trying
<1>4. CASE FellBack(k, v, p, q)
  BY <1>4 DEF FellBack
<1>5. CASE AskedAgain(k, v, p, q, w)
  BY <1>5 DEF AskedAgain, SaidFirst, Unkeyed, Trying, Asking
<1>6. CASE NoGroupNamed(k, v, p, q)
  BY <1>6 DEF NoGroupNamed
<1>7. CASE GreetingAgain(k, v, p, q, w)
  BY <1>7 DEF GreetingAgain, WasAsked, SaidSecond, Unkeyed, Trying, Asking
<1>8. CASE Answered(k, v, p, q, w)
  BY <1>8 DEF Answered, SaidAll, Unkeyed, Trying, Serving
<1>9. CASE Reading(k, v, p, q, w)
  BY <1>9 DEF Reading, Keyed, Trying, HasTaken, Serving
<1>10. CASE GaveUp(k, v, p, q)
  BY <1>10 DEF GaveUp
<1>11. CASE Finishing(k, v, p, q, w)
  BY <1>11 DEF Finishing, ToFinish, Finished, Checked, Trying
<1>12. CASE Over(k, v, p, q, w)
  BY <1>12 DEF Over, Finished, Checked
<1>13. CASE Objected(k, v, p, q, w)
  BY <1>13 DEF Objected, Finished, Checked
<1> QED BY <1>1, <1>2, <1>3, <1>4, <1>5, <1>6, <1>7, <1>8, <1>9, <1>10, <1>11, <1>12, <1>13
        DEF Stage

(* In which stages an outcome other than none is reached.                  *)
LEMMA Endings ==
    ASSUME NEW k, NEW v, NEW p, NEW q, NEW w, Stage(k, v, p, q, w)
    PROVE  /\ k.outcome = "fallback" => FellBack(k, v, p, q)
           /\ k.outcome = "failed" =>
                NoGroupNamed(k, v, p, q) \/ GaveUp(k, v, p, q) \/ Objected(k, v, p, q, w)
           /\ k.outcome = "open" =>
                Finishing(k, v, p, q, w) \/ Over(k, v, p, q, w) \/ Objected(k, v, p, q, w)
           /\ v.phase = "rejected" =>
                \/ TurnedAway(k, v, p, q, w) \/ FellBack(k, v, p, q)
                \/ Objected(k, v, p, q, w)
           /\ v.phase = "done" =>
                \/ TurnedAway(k, v, p, q, w) \/ FellBack(k, v, p, q)
                \/ Over(k, v, p, q, w)
<1>1. CASE Fresh(k, v, q, w)
  BY <1>1, NewClientIs, NewServerIs DEF Fresh
<1>2. CASE Greeting(k, v, q, w)
  BY <1>2, NewServerIs DEF Greeting, SaidFirst, Unkeyed, Trying
<1>3. CASE TurnedAway(k, v, p, q, w)
  BY <1>3 DEF TurnedAway, SaidFirst, Unkeyed, Trying
<1>4. CASE FellBack(k, v, p, q)
  BY <1>4 DEF FellBack
<1>5. CASE AskedAgain(k, v, p, q, w)
  BY <1>5 DEF AskedAgain, SaidFirst, Unkeyed, Trying, Asking
<1>6. CASE NoGroupNamed(k, v, p, q)
  BY <1>6 DEF NoGroupNamed
<1>7. CASE GreetingAgain(k, v, p, q, w)
  BY <1>7 DEF GreetingAgain, WasAsked, SaidSecond, Unkeyed, Trying, Asking
<1>8. CASE Answered(k, v, p, q, w)
  BY <1>8 DEF Answered, SaidAll, Unkeyed, Trying, Serving
<1>9. CASE Reading(k, v, p, q, w)
  BY <1>9 DEF Reading, Keyed, Trying, Serving
<1>10. CASE GaveUp(k, v, p, q)
  BY <1>10 DEF GaveUp
<1>11. CASE Finishing(k, v, p, q, w)
  BY <1>11 DEF Finishing, ToFinish, Finished, Trying
<1>12. CASE Over(k, v, p, q, w)
  BY <1>12 DEF Over, Finished
<1>13. CASE Objected(k, v, p, q, w)
  BY <1>13 DEF Objected, Finished
<1> QED BY <1>1, <1>2, <1>3, <1>4, <1>5, <1>6, <1>7, <1>8, <1>9, <1>10, <1>11, <1>12, <1>13
        DEF Stage

(* The fields of client and server keep to their ranges: plain_buf never   *)
(* holds more than it has room for, and an attempt has an error exactly    *)
(* when it has failed.                                                     *)
THEOREM TypeCorrect == Spec => []TypeOK
<1>1. IInv => TypeOK
  <2> SUFFICES ASSUME IInv PROVE TypeOK
    OBVIOUS
  <2>1. Stage(c, s, peer, toServer, c.recv \o toClient) /\ peer \in Peers /\ Len(c.plain) <= BufSize
    BY DEF IInv, Shapes
  <2> QED BY <2>1, TypesOf DEF TypeOK
<1> QED BY <1>1, Invariance, PTL

(* The client fails, or sends the connection back to TLS 1.2, only for     *)
(* a reason the server gave, or at one of the two limits NoFalseAlarm      *)
(* names: never over its keys, its transcript or the order of the messages,*)
(* however the flight is packed into records and cut across them.          *)
THEOREM NoFalseAlarms == Spec => []NoFalseAlarm
<1>1. IInv => NoFalseAlarm
  <2> SUFFICES ASSUME IInv PROVE NoFalseAlarm
    OBVIOUS
  <2> DEFINE w == c.recv \o toClient
  <2>1. Stage(c, s, peer, toServer, w)
    BY DEF IInv
  <2> HIDE DEF w
  <2>2. c.outcome = "fallback" => ~ peer.v13 \/ peer.group = "none"
    BY <2>1, Endings DEF FellBack, Refuses
  <2>3. ASSUME c.outcome = "failed"
        PROVE  \/ c.error = "x509" /\ ~ peer.trusted
               \/ c.error = "alert" /\ s.phase = "rejected"
               \/ c.error = "hrr_group" /\ peer.cookie /\ peer.group = "x25519"
               \/ c.error = "reassembly" /\ ~ s.psk /\ MayOverflow
    <3>1. CASE NoGroupNamed(c, s, peer, toServer)
      BY <3>1 DEF NoGroupNamed
    <3>2. CASE GaveUp(c, s, peer, toServer)
      BY <3>2 DEF GaveUp, MayOverflow
    <3>3. CASE Objected(c, s, peer, toServer, w)
      BY <2>3, <3>3 DEF Objected, Finished
    <3> QED BY <2>1, <2>3, <3>1, <3>2, <3>3, Endings
  <2> QED BY <2>2, <2>3 DEF NoFalseAlarm
<1> QED BY <1>1, Invariance, PTL

(* A server that keeps RFC 8446 finds nothing to object to in what         *)
(* tls13_handshake_step builds: the second hello repeats the first, the    *)
(* binder is over what it should be, and the Finished is the one it        *)
(* expects.                                                                *)
THEOREM NothingRejected == Spec => []NothingToReject
<1>1. IInv => NothingToReject
  <2> SUFFICES ASSUME IInv, s.phase = "rejected"
               PROVE  peer.group = "none" \/ (peer.asksCert /\ ~ s.psk)
    BY DEF NothingToReject
  <2> DEFINE w == c.recv \o toClient
  <2>1. Stage(c, s, peer, toServer, w)
    BY DEF IInv
  <2> HIDE DEF w
  <2>2. \/ TurnedAway(c, s, peer, toServer, w) \/ FellBack(c, s, peer, toServer)
        \/ Objected(c, s, peer, toServer, w)
    BY <2>1, Endings
  <2> QED BY <2>2 DEF TurnedAway, FellBack, Objected
<1> QED BY <1>1, Invariance, PTL

(* When both sides are done they hold the same keys, in step, agree on     *)
(* whether the session was resumed, and would resume it from the same      *)
(* secret; and the client has seen a certificate it trusts or used its     *)
(* ticket.                                                                 *)
THEOREM KeysAgree == Spec => []Agreement
<1>1. IInv => Agreement
  <2> SUFFICES ASSUME IInv PROVE Agreement
    OBVIOUS
  <2> DEFINE w == c.recv \o toClient
             o == c.offer
  <2>1. Stage(c, s, peer, toServer, w)
    BY DEF IInv
  <2> HIDE DEF w
  <2>2. ASSUME c.outcome = "open" PROVE Finished(c, peer)
    BY <2>1, <2>2, Endings DEF Finishing, ToFinish, Trying, Over, Objected
  <2>3. c.outcome = "open" => c.pkey \/ (c.accepted /\ c.offer # None)
    BY <2>2 DEF Finished, Checked, Resumes
  <2>4. ASSUME c.outcome = "open", s.phase = "done"
        PROVE  /\ c.accepted = s.psk /\ c.write = s.read /\ c.resMaster = s.resMaster
               /\ c.plain = <<>> /\ c.read.secret = s.write.secret
               /\ c.ticket # None => /\ c.ticket = ResumptionPsk(s.resMaster, 1)
                                     /\ c.read = s.write
    <3>1. Over(c, s, peer, toServer, w)
      BY <2>1, <2>4, Endings DEF TurnedAway, FellBack, SaidFirst, Unkeyed, Trying
    <3>2. /\ c.accepted = Resumes(peer, o) /\ s.psk = Resumes(peer, o) /\ c.plain = <<>>
          /\ c.resMaster = Resumption(peer, o) /\ c.write = FreshKey(ClientApp(peer, o))
      BY <3>1 DEF Over, Finished, Checked, Settled
    <3>3. /\ s.resMaster = Resumption(peer, o) /\ s.read = FreshKey(ClientApp(peer, o))
          /\ s.write = Used(FreshKey(ServerApp(peer, o)))
          /\ \/ c.read = FreshKey(ServerApp(peer, o)) /\ c.ticket = None
             \/ /\ c.read = Used(FreshKey(ServerApp(peer, o)))
                /\ c.ticket = ResumptionPsk(Resumption(peer, o), 1)
      BY <3>1 DEF Over
    <3>4. Used(FreshKey(ServerApp(peer, o))).secret = FreshKey(ServerApp(peer, o)).secret
      BY DEF Used, FreshKey
    <3> QED BY <3>2, <3>3, <3>4
  <2> QED BY <2>3, <2>4 DEF Agreement
<1> QED BY <1>1, Invariance, PTL

===============================================================================

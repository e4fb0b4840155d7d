# A TLA+ development of macTLS

macTLS is a C library that gives applications of Classic Mac OS 9 asynchronous
TLS connections: Open Transport (OT) below, a vendored BearSSL for TLS 1.2, and a
TLS 1.3 client of its own. This directory holds TLA+ modules translated from its
source (`src/os9/`), TLC configurations that check them on small instances, and
TLAPS proofs of the properties that matter most, for every value of the
constants.

`PROJECT.json` lists the components, the runs, the theorems, the hazards, the
places where the code and its documents disagree, and, for every definition, the
source lines it stands for.

## 1. The system

| Component | Source | State | Operations |
|---|---|---|---|
| Asynchronous connection | `ostls_async.c`, `.h` | `struct OSTLSConnection`: state, connect phase, endpoint, the notifier's `nf_*` fields, timeouts, TLS mode, read ring, write queue, record in flight, 1.3 read buffer; the process-wide `g_ostls_try_tls13` and the session cache | `New`, `Start`, `Pump`, `Write`, `Read`, `Close`, `Dispose`, `WantWrite`, `SetTryTLS13`, getters; `ostls_notifier` at interrupt time |
| TLS 1.3 handshake | `ostls_tls13_handshake.c` | phase, transcript, message out, record in, HelloRetryRequest flags, PSK | `tls13_handshake_step`, post-handshake messages |
| TLS 1.3 records and keys | `ostls_tls13_record.c`, `ostls_tls13_keysched.c` | per-direction key, IV, sequence number | seal, open, derive |
| Ticket cache, session cache | `ostls_ticket_cache.c`, `ostls_async.c` 919-965 | 6 tickets with tick counts; 16 sessions in a ring | put, get, clear |
| HTTP helpers | `ostls_http.c` | chunk decoder state | init, process, format a request |
| Blocking fetch | `ostls_fetch.c` | none kept | one request, start to end |
| Entropy pool and seed file | `ostls_entropy.c` | SHA-256 pool, whether it was begun and saved, seed file | stir, inject, load, save, random bytes |
| Clock conversion | `ostls_time.c` | none | Mac seconds to BearSSL days and seconds |
| Trust anchors | `ostls_b3_anchors.c` | a table | getter |
| Log, text encoding, OT stubs, provider | `ostls_log.c`, ... | a log file | append |
| Probes, self-tests, harness apps, host tests | `ostls_b*.c`, `ostls_d1_probe.c`, ..., `MacTLSTest`, `macTLSProbe`, `tests/host` | none | callers of the library |
| BearSSL | `bearssl/`, `ssl_engine_cw8.c` | the engine's buffers, handshake program, error | vendored; the engine's interface is what the library drives |

How they interact. The application calls the connection from its event loop; the
connection opens an OT endpoint with a notifier, and OT calls that notifier at
interrupt time, between any two instructions of the application's thread. The
notifier only sets `nf_*` fields; `Pump` reads and clears them. `Pump` drives a
connect arc (open, bind, connect), then either the 1.3 handshake and record
layer or BearSSL's engine. A server that declines 1.3 makes `Pump` close the
endpoint and begin again for 1.2. The handshake reads the entropy pool, the
clock, the anchors and the ticket cache; the 1.2 path reads and fills the session
cache. The caller moves plaintext with `Write` and `Read` through the write queue
and the read ring.

What is hard here: interrupts between any two steps of `Pump`; indications that
must be taken from an endpoint exactly once although four places look for them;
a second attempt inside the same connection; failures in the middle of a step;
deadlines; records cut anywhere by TCP, in both directions; a release from the
peer beside its last bytes; caches on a wrapping tick counter; a seed file that
is replaced while the machine may lose power.

What makes each component correct:

- connection: one endpoint at a time, released by `Dispose`; OT is called only in
  states that allow it; the public state moves as the header says; an error
  exactly in `Failed`; a whole budget before a timeout; every attempt settles;
- data path: the caller reads what the peer sent, in order, once, all of it before
  it is told the connection closed; what `Write` accepted is sent the same way;
- 1.3 handshake: messages only in order, one retry, keys of one transcript,
  both sides agree on the secrets;
- caches: a lookup returns the last unexpired entry stored for that host;
- chunk decoder: the same body whatever the cuts of the input;
- certificate chain: an order the validator accepts whenever there is one to find;
- entropy: no two extractions alike, across processes, failed saves and stops;
- clock: the conversion is right over its range and refuses the rest;
- fetch: OK means the whole response, and no timeout before its minute.

## 2. Plan

Modules, in the order of what matters most to a caller of the library. A module
that will be proved about uses no RECURSIVE operator, takes its sizes and bounds
as CONSTANTS with named assumptions, and has one action per operation.

| # | Modules | Component | State |
|---|---|---|---|
| 1 | `OSTLSLifecycle`, `OSTLSConnection`, `OSTLSConnection_proofs` | connection: lifecycle, notifier, timeouts, reconnect | checked, proved |
| 2 | `ByteRuns`, `ByteFifo`, `ByteMoves`, `OSTLSReadRing`, `OSTLSWriteQueue`, composed in `OSTLSBuffers(_proofs)` | the two buffers between the caller and TLS | checked, proved |
| 3 | `OSTLSDataPath`, `OSTLSStream13`, `OSTLSStream13_proofs` | 1.3 data path: records cut by TCP, OTSnd flow control, release and close_notify, Close | checked, safety proved |
| 4 | `SslEngine`, `OSTLSDataPath`, `OSTLSStream12(_proofs)` | 1.2 data path over BearSSL's engine | checked, safety proved |
| 5 | `LeaseMap`, `TicketCache`, proved in `Helpers_proofs` | the ticket cache over a wrapping tick counter, against an abstract map | checked, proved |
| 6 | `TLS13Terms`, `TLS13Handshake(_proofs)` | message order, retry, resumption, transcript and key epochs as free terms, reassembly | checked, safety proved |
| 7 | `SessionCache`, `CertificateOrder`, `HttpChunked`, `EntropyPool`, `MacTime`, with `TicketCache` in `Helpers`, `HelpersMC`, `Helpers_proofs` | the parts that share no state | checked, proved |
| 8 | `SslEngine`, `BlockingFetch(_proofs)` | the one-call interface, blocking, with its deadline | checked, proved |

Abstract specifications: the public contract of a connection (`OSTLSLifecycle`), a
bounded byte queue (`ByteFifo`), a map from hosts to the last unexpired entry
(`LeaseMap`); the chunk decoder, the chain, the clock and the session cache are held
against a reference definition written beside them.

What is left. Of the model: a composition of `OSTLSConnection` with the two data paths
and `TLS13Handshake` in place of its choices, which needs a smaller connection to
stay within reach of TLC. Of the proofs: liveness.

## 3. Modules and code

### OSTLSConnection

Models one `OSTLSConnection` from `OSTLS_New` to `OSTLS_Dispose`. Three parties
interleave: the application thread, the notifier and the network.

| Model | Code |
|---|---|
| `state`, `phase`, `osErr`, `mode`, `disabled`, `started`, `closeReq`, `closeNotify`, `peerClosed`, `ordConsumed`, `discConsumed`, `disposed` | the fields of the same meaning |
| `ep`, `epOpen`, `eps`, `ind`, `opened` | `ep`, `ep_open`; OT's side: the XTI state of each endpoint and the indications waiting on it |
| `nf`, `nfResult` | the `nf_*` flags, `nf_last_result`: written by `ostls_notifier`, cleared by `Pump` |
| `hs13`, `hsUnsent`, `engine` | the 1.3 context, unsent handshake bytes, BearSSL's context |
| `pc`, `best` | where in `OSTLS_Pump` the thread is, `best_event` |
| `sinceStart`, `sinceHs` | the two differences of `TickCount()`, saturating one past the timeout |
| `age`, `stray` | history: what the properties need and the code does not keep |
| `Start`, `Close`, `Dispose`, `SetTryTLS13`, `PumpBegin` | the caller's functions |
| `PumpPre` | the checks at the top of the loop: disconnect, timeouts, release |
| `ConnectStep`, `Step13`, `Step12` | `pump_connect_step`, `pump_tls13_step`, `pump_bearssl_step` |
| `FallbackClose`, `FallbackReopen` | `ostls_fallback_to_tls12`, split where the old endpoint is closed |
| `SeeConnect`, `ReadAnswer`, `TakeConnect` or `RefuseConnect` | T_CONNECT's flag, `nf_last_result`, `OTRcvConnect` |
| `Receive`, `SendCut`; `NoData`; `ReceivedRelease`, `SentRelease` | the answer of `OTRcv` or `OTSnd`; the look at `nf_ord_release`; `OTRcvOrderlyDisconnect` |
| `Network` | the notifier's events and what the peer and OT do |

Interrupts land between any two of these actions. Inside one action the code is
taken as one step; it is cut wherever an answer, a flag or the result of `OTLook` is
used after an interrupt can land: the top of the loop before the step; the flag of
T_CONNECT, the result read after it and `OTRcvConnect` (`pc = "answer"`, `"rcvconnect"`);
`OTRcv`'s `kOTNoDataErr`, `nf_ord_release` and `OTRcvOrderlyDisconnect` (`"nodata"`,
`"rcvrel"`); `OTSnd`'s look error and the same call (`"sndrel"`); the reconnect between the
close and the reset of the flags. An abort that lands there takes the place of the
indication, and OT refuses the call made for it: `OTRcvConnect`'s refusal fails the
connection, that of `OTRcvOrderlyDisconnect` is not looked at. The
bytes are left out: how much `OTSnd` and `OTRcv` move, what a record holds, and
what BearSSL and the 1.3 handshake make of it, are choices of the step. A notifier
call for a connection that was disposed is ignored: the code frees the
notifier's context (the run `doc_DisposeTearsDown` is about the endpoint that
is left). Peers follow the protocol, or fail, or fall silent.

### OSTLSLifecycle

The contract of `ostls_async.h`, without endpoints, notifier or engine: seven
public states, the error, one reconnect, Close and Dispose. `OSTLSConnection`
implements it by a refinement mapping on its own variables.

### OSTLSReadRing, OSTLSWriteQueue, OSTLSBuffers, ByteFifo, ByteRuns

`OSTLSReadRing` is `read_buf` with `read_pos` and `read_avail`, and for 1.3 the
`plain_buf` of the handshake context, cell by cell, with every operation that
fills or empties them: BearSSL's plaintext (`RecvApp12`), a decrypted record
(`ConsumeData13`, `ConsumeOther13`), what is left of one (`DeliverStaged13`) and
`OSTLS_Read` (`Read`). `OSTLSWriteQueue` is `write_buf` with `write_pos` and
`write_avail`: `OSTLS_Write` with its compaction, BearSSL's take (`SendApp12`)
and the 1.3 record under construction (`BuildSend13`, `RecordSent13`). A byte is
its position in the stream, so a lost, repeated or reordered byte shows. Both are
shown to implement `ByteFifo`, a bounded queue of runs of bytes (`ByteRuns`), and
`OSTLSBuffers` runs them side by side: they share the protocol (`ByteMoves`) and
nothing else. The session is open throughout; when it opens and ends is
`OSTLSConnection`'s.

### OSTLSDataPath, OSTLSStream13, OSTLSStream12

An open session between the endpoint and the caller, from the moment the handshake
completes. Units of the wire are counted and records keep their order, so TCP may cut
a record anywhere. `OSTLSDataPath` is what both protocols share: the notifier's
indications, `OTSnd`'s flow control, the peer and the network, `OSTLS_Write`, `OSTLS_Read`,
the frame of `OSTLS_Pump` and the two operators that take a release or an abort from
the endpoint. Each stream module adds its record layer.

| Model | Code |
|---|---|
| `queued`, `room`, `goOwed`, `ot`, `ordInd`, `discInd` | what OT holds: unread units, room before flow control, an owed T_GODATA, the XTI state, indications |
| `nfOrd`, `nfDisc`, `wantWrite` | `nf_ord_release`, `nf_disconnect`, `nf_want_write` |
| `readAvail`, `writeAvail` | `read_avail`, `write_avail` |
| `Network`, `Write`, `Read`, `CallerPumps`, `PumpBegin`, `Top` | the notifier, the caller, the entry of `OSTLS_Pump` and `pump_handshake_or_open_pre` |
| 1.3: `recvLen`, `staged`, `flight`, `unsent` | `tls13_recv_len`; the rest of `plain_buf`; plaintext and bytes of `t13_send_rec` |
| 1.3: `Flush`, `DeliverStaged`, `BuildSend`, `Consume`, `Receive`, `End` | `pump_tls13_step` and what it calls, in its order |
| 1.2: `eng` | BearSSL's engine (`SslEngine`) |
| 1.2: `EngineEnds`, `Send`, `Receive`, `TakePlain`, `GivePlain`, `End` | `pump_bearssl_step` and what it calls, in its order |

A Pump is cut where the answer of an OT call is used after an interrupt can land:
between `OTSnd`'s `kOTFlowErr` and the store to `nf_want_write` (`pc = "flow"`), between
`OTRcv`'s `kOTNoDataErr` and the look at `nf_ord_release` (`"nodata"`), and between
whatever told of a release and `OTRcvOrderlyDisconnect` (`"sndrel"`, `"rcvrel"`).
The reader of `nf_want_write` is the caller, by `OSTLS_WantWrite`, which nothing under
`src/` calls. The model's caller is the one of `ostls_async.h:272`: it pumps at once
(`PumpNow`), or puts it off to its next poll tick (`PollTick`).
`Again` either goes round or returns, since the caller chooses `max_steps`. The peer
follows the protocol (data; tickets, KeyUpdate and close_notify in 1.3; warnings, a
fatal alert and close_notify in 1.2), may die inside a record, release or abort.
`wired`, `accepted` and `dropped` are history. The event is kept: what the step makes of
it is in section 7.

### SslEngine

Not a state machine of its own: operators from an engine to an engine, one for each
call the library makes (`RecvRecAck`, `SendRecAck`, `RecvAppAck`, `SendAppAck`,
`EngineClose`) and one for each state bit. `program` is where the T0 handshake program
waits; `DoClose`, `Closing` and `Alert` are its `do-close`, `wait-for-close` and
`process-alerts`, with `application_data` (`app`) and `shutdown_recv` (`shut`). Read from
`ssl_engine_cw8.c` and the `.t0` sources; of the handshake only the turns are kept.

### TicketCache, LeaseMap

`TicketCache` is `ostls_ticket_cache.c`: the slots with their host, stamp and ticket,
`Put` with its three searches, `Get` with the expiry that frees a slot, `TicketReset`.
`ticketNow` is the tick count, a word that wraps; the wide count and the time of storing
are history and do not. `LeaseMap` is what the header promises: the ticket stored last
for a host, with its age, as long as its lifetime lasts; it says nothing of which entry
makes room, that is `EvictsOldest`. A ticket's contents are a model value with a
lifetime. Milliseconds are not a word here: a lifetime of up to seven days, the most the
protocol allows, stays far below 2^32 of them (the parser does not check it; a comment
at `ostls_ticket_cache.c:103` relies on it).

### TLS13Handshake, TLS13Terms

`TLS13Handshake` is the client's side, `tls13_handshake_step` and the part of
`pump_tls13_step` that flushes, steps and receives, one action per handler, against
a server that keeps RFC 8446. Secrets, transcripts and MACs are free terms
(`TLS13Terms`): equal only when derived the same way. A handshake message is a run of
units, the first its header; the server cuts its encrypted flight into
records of any size, the Certificate also in the middle, and TCP delivers records in any
portions. Other messages, a ServerHello among them, and the four bytes of a header come
in one piece.

| Model | Code |
|---|---|
| `c.phase`, `transcript`, `secret`, `clientSecret`, `serverSecret`, `resMaster`, `read`, `write` | `state`, `transcript`, `ks.secret`, `client_hs_secret`, `server_hs_secret`, `res_master`, the two record contexts |
| `c.share`, `random`, `hrrGroup`, `hrrReceived`, `cookie`, `offer`, `accepted` | the key pair and the fields a second hello must repeat; the ticket offered and taken |
| `c.plain`, `msg`, `unsent`, `pending` | `plain_buf` from `plain_offset`, `msg_buf`, `msg_offset < msg_len`, `pending_recv_msg_len` |
| `c.recv`, `outcome` | `ssl_iobuf` with whole records, what `pump_tls13_step` makes of the attempt |
| `SendClientHello` ... `SendFinished`, `ReadRecord`, `SkipCCS`, `Declined` | the handlers and their helpers |
| `Flush`, `Receive`, `Open`, `PostHandshake` | `pump_tls13_step`, `pump_ot_recv_tls13`, `tls13_handle_post_handshake` |
| `s`, `peer`, `Server` | the server: 1.3 or not, its group, a cookie, whether it still has the ticket's PSK, a CertificateRequest, ChangeCipherSpec, its chain |

`hrr_pending` lives between `tls13_parse_server_hello` and its caller, one step here.
The SHA-256 and SHA-384 transcripts are one term; the cipher suite is left out. A
release or abort in the middle of a handshake is `OSTLSConnection`'s.

### Helpers: HttpChunked, CertificateOrder, MacTime, SessionCache, EntropyPool

Five parts and the ticket cache share no state, so `Helpers` puts them side by side: a
behaviour exercises one (`part`) while the others rest, which makes the state space a
sum and not a product. `HelpersMC` gives the instance.

| Model | Code |
|---|---|
| `HttpChunked`: `dec`, `SizeChar` ... `TrailerChar` | `OSTLSChunkDecoder`, one action per branch of `OSTLS_HTTP_ChunkDecoderProcess`'s loop |
| `Call`, `Return` | a call with any piece of the input and any room; it keeps nothing of its own |
| `CertificateOrder`: `OrderAfter`, `Ordered`, `Feed` | the two passes of `tls13_state_recv_certificate` over the list, its fallback to wire order |
| `MacTime`: `GmtDelta`, `ToGmt`, `Reading` | the sign extension, the correction in a word, the guards and divisions of `OSTLS_GetBearSSLTimeDetails`, which `OSTLS_GetBearSSLTime` returns |
| `SessionCache`: `OfferSession`, `RenewSession`, `StoreSession` | `sess_cache_find` at setup, `sess_cache_put` when a handshake is done |
| `EntropyPool`: `pool`, `Folded` | the running hash as the sequence it absorbed; `pool_extract` folds back what it gave out |
| `Stir`, `HostLoads`, `InjectEntropy`, `RandomBytes` | the calls of the same name, each with the `pool_ensure_init` in front |
| `SaveGivesUp`, `SaveRecreates`, `SaveWrites`, `SaveFlushes` | `OSTLS_SaveSeed`, cut at each File Manager call that changes the disk |
| `Quit`, `Crash`, `StartProcess` | statics are lost; after a stop inside a save the disk holds any stage of it |

What the server sends to the decoder is the encoding of a list of chunks, each with its
size line, extension and data, of a last chunk and of trailer lines; a byte of the body is
its place there. A byte is `CR`, `LF`, the semicolon (`SEMI`), a digit or another one, and
`Number` is `strtol`: the leading digits, capped at `LongMax`. Extracted bytes are terms built from a tag and the pool, equal
only when both agree; the samples are as poor as they may be.

### BlockingFetch

One call of `OSTLS_Fetch`: the nine checks before the loop in their order (`Setup`), then
the branches of the loop, the first that applies, with the engine of `SslEngine`. Time
passes and the network moves between any two steps, also while `OTSnd` or `OTRcv`
blocks. `now` is `TickCount()` modulo `Wrap`, `deadline` the absolute value the loop
compares it with; `elapsed` is history and does not wrap.

## 4. Runs

| Run | Shows | States |
|---|---|---|
| `connection` | the safety properties of a connection and the public contract, under every interleaving; every attempt leaves Connecting and Handshaking | 69,576 |
| `buffers` | `OSTLS_Read` returns the peer's bytes once, in order; the TLS layer gets the caller's the same way; staged plaintext is kept | 196,860 |
| `stream13` | buffers within bounds, nothing stranded behind Closed, all read that was handed over, every byte accepted queued, in flight or sent | 3,896,989 |
| `stream13_moves` | what has arrived and what is being sent moves on; the peer's release ends the session | 719,366 |
| `stream12` | the same questions of the 1.2 session | 655,199 |
| `handshake` | no false alarm, nothing to reject, agreement on keys, every attempt ends | 121,956 |
| `helpers` | the parts of section 3, "Helpers", and the ticket cache, each against its reference | 311,140 |
| `fetch` | OK means the whole response, no early timeout, the provider closed | 699,388 |
| `doc_DisposeTearsDown`, `doc_EndMeansAll`, `doc_RequestAnswered`, `doc_ExtensionsDropped` | a statement of a comment, the header or the design document that the code does not keep; see `findings` in `PROJECT.json` | to the first counterexample |

What the properties of `OSTLSConnection` say:

- `OneLiveEndpoint`: the reconnect never leaves two endpoints open, although
  indications for the old one arrive around its close.
- `DisposeReleases`: after Dispose the only endpoint that can be open is one
  whose asynchronous open `Pump` never saw.
- `NoStrayCall`: bind and connect are made in their states, and each `OTRcv...` that
  takes an indication is called once, on the endpoint that raised it, although four places
  look for a disconnect and a flag of the declined endpoint may be set around its close.
  Where an abort replaced the indication since the look, OT refuses the call; that is the
  only way one is refused.
- `FailedIffError`: an error is recorded exactly in Failed.
- `SessionReady`: a session step never runs on a missing or unreset context, also
  when an allocation or the reopen fails halfway.
- `FallbackOnce`: at most one reconnect, and it never offers 1.3.
- `TerminalIsFinal`: Closed and Failed stay, and so does the first error.
- `FullBudget`: a timeout is reported only after the whole budget of *this*
  attempt.
- `ImplementsLifecycle`: the contract.
- `Settles`: liveness, below.

Of the data paths:

- `NothingStranded`, `WrittenOnce` (1.3): Closed leaves no plaintext staged, and each byte
  `OSTLS_Write` accepted is in exactly one of the queue, the record in flight, and the
  wire. In 1.2 a record taken from the engine may be dropped, but only after the peer's
  release was taken.
- `ReadToTheEnd`: Closed is not reached over a whole record the endpoint has handed over,
  nor, in 1.2, over plaintext in the engine; a 1.2 session the caller closes is exempt,
  since BearSSL discards what comes after `OSTLS_Close`.
- `NoStall`: a full ring, a full record buffer or a staged record never holds up the
  others for ever. It is of a caller that pumps at its next poll tick when
  `OSTLS_WantWrite` says 1; the mutant is one that waits for the notifier to clear
  the flag, and a T_GODATA before the store to it leaves that one waiting for ever.
- `FinSettles`: after the release the session ends, unless the peer broke off inside a
  record; `PeerEndsIt` is the same of 1.2, with close_notify and fatal alerts.
- `StagedIntact`, `RingImplementsFifo`, `QueueImplementsFifo`: the bytes themselves.

Of the others:

- `EvictsOldest`: holds as long as the tick count has not wrapped over the entries
  (`SameEra`); after a wrap the comparison of line 67 prefers the newest.
- `NoFalseAlarm`: however the flight is packed, the client fails or falls back only
  for the server's reasons, or at one of two limits the definition names. Limits that
  only a flight cut in other places meets are outside the model (section 6).
- `NothingToReject`: the server finds the second hello, the binder and Finished as
  they must be.
- `Agreement`: both ends hold the same keys in step, agree on resumption and derive
  the same PSK from the ticket.
- `DecodesBody`: wherever the input is cut and whatever room there is, the body comes out
  once, in order, and the decoder is done exactly at its end. Size lines longer than
  `size_buf` and inputs that end inside an extension are exempt, the latter being what
  `doc_ExtensionsDropped` is about.
- `OrderAccepted`: reordering never spoils a list that was accepted as it came, and finds
  the path whenever no two certificates share a subject. With cross-signed certificates
  the first match is taken and a path may be missed (section 7).
- `Independent`: even with samples that repeat at every boot, two extractions are equal
  only in the cases it names: a save failed or was cut short, was made from an empty pool,
  or was never completed in between.
- `ReadsTheTime`: from 2000 to the end of the word the reading is the true GMT, and
  otherwise there is none.
- `OffersLatest`: a 1.2 connection is offered its own host's last session and misses it
  only after `OSTLS_SESS_MAX` others came in.
- `ReturnsTheWhole`, `TimeoutIsLate`: OK hands over the whole response or a full buffer,
  errors hand over nothing; no timeout before the minute, unless the tick count wraps in it.

### Bounds

- `connection`: `MaxOpens = 3`: the code opens at most two endpoints (`FallbackOnce`
  is proved for every bound), so the third shows that the bound is not what stops it.
  `ConnectTimeout = 2`, `HandshakeTimeout = 1` (both 1 in the `doc_` run): the clocks
  saturate one past their timeout, which is all the code compares; two ticks let a
  notifier event fall before, at and after a deadline.
- `buffers`: `RingSize = 2`, `PlainSize = 3`, `BufSize = 3`, `MaxBytes = 6`: a record can
  exceed the ring, ring and queue wrap at every position and more than twice, and every
  split of the stream into records, reads, writes and takes happens.
- `stream13`: a header of 1 unit, records of 0 to 2, a ring of 1 (so a record
  outgrows it), a record buffer of 5 (two records and a header; of 2 in the
  other runs), a queue of 1, two units of room before flow control, two records
  from the peer and two bytes from the caller: a KeyUpdate and a record under the
  next key, plaintext and close_notify, a record in flight and a full queue, all
  meet. `stream13_moves` has every size at its smallest and two records. `MaxRecords`
  and `MaxWrite` bound the run and nothing in the code.
- `stream12`: every size 1, two records of the peer, one byte of the caller: an alert or
  data crosses the engine's own close_notify, the record in flight and the release in
  every order, which is what its properties are about.
- `handshake`: a Certificate of one or three units, records of at most three, a buffer
  of four, one more than a record's plaintext: a message may need three records, and a
  record may not fit behind a leftover. One connection, two hellos at most, one ticket.
- `helpers`. Chunks: sizes of one to three bytes written with and without leading zeros,
  with and without an extension, one size too long for the buffer, bodies of up to two
  chunks, data that looks like a line end or a digit, a last chunk of one zero or of two
  with an extension, a trailer, bytes after the end; a room of up to two bytes. Chains: up to four
  certificates, one more than `MaxChain`, of three subjects, one unreadable. Clock: a day
  of 6, a word of 70, a field of 16, every time and offset, so both wraps and both
  midnights occur. Sessions: three keys for two entries, five handshakes. Entropy: three
  processes, four extractions, a pool of at most three items, one loss. Tickets: three
  hosts for two slots, so eviction is forced; tickets of one and two seconds of three
  ticks; a clock of 8 that starts at 5 and runs for 6 ticks, so it wraps with entries on
  both sides.
- `fetch`: a request of two records, a buffer of 3 for records of up to 2, five records of
  the peer (its handshake, data that overflows the buffer, close_notify), a limit of 1
  tick on a clock of 4.

The proofs hold for every value of the constants of the modules they are about.

`CHECK_DEADLOCK FALSE`: a disposed connection, a stream all of whose bytes were
moved, a cache whose time has run out, a handshake or a fetch that is over may stop.

### Fairness

`FairSpec` of `OSTLSConnection` is weak fairness of `PumpBegin`, `PumpPre`, `PumpStep` and
`Tick`: the caller must keep calling `Pump` (the header asks it to do so once per event
loop), a call that began runs to its end, and the clock advances. Nothing is
assumed of the network: a peer, or OT, that says nothing any more is what the
timeouts are for.

In the two stream modules the caller, besides, reads when it can (`Read`, strongly fair,
since it can do so only between two Pumps), and TCP delivers what was sent and
takes what `OTSnd` buffered (`Arrive`, `SendDrains`): an open session has no timeout
of its own. Nothing is assumed of the peer.

In `TLS13Handshake` the client's step and the server's are weakly fair: the caller
pumps, and the server is one that answers (a silent one is what the timeouts of
`OSTLSConnection` are for).

## 5. Proofs

`tlapm` checks every leaf; no axiom is used. The assumptions on the constants are
`ConnAssumption`, `RingAssumption`, `QueueAssumption`, `CacheAssumption`,
`ClockAssumption`, `SessAssumption`, `ChainAssumption`, `PathAssumption`,
`StreamAssumption`, `OutAssumption`, `HandshakeAssumption`, `FetchAssumption` and
`ChunkAssumption`, which TLC evaluates. They say that sizes are positive and that a buffer
holds what the code
declares it to hold; `HandshakeAssumption` also that a Certificate message fits
`msg_buf`, since the model leaves out the error of one that does not; `ChunkAssumption` that a
message is one RFC 9112 allows: a size is digits whose number is the length of the data,
which therefore fits a long, an extension begins with a semicolon and holds no LF, a
trailer line is not empty.

| Theorem | Says, for every value of the constants |
|---|---|
| `OSTLSConnection_proofs!Invariance` | `Spec => []IInv` |
| `TypeCorrect`, `OneEndpoint`, `DisposeClosesHeld`, `NoCallAstray`, `ErrorMeansFailed`, `SessionHasContext`, `OneFallback` | the invariants of the run `connection` |
| `TerminalStays`, `WholeBudget` | its action properties |
| `Contract` | `OSTLSConnection` implements `OSTLSLifecycle` |
| `OSTLSBuffers_proofs`: `RingTypeCorrect`, `NothingLost`, `RingIsFifo` | the types, and the ring's half of the run `buffers`, the last a refinement |
| `QueueTypeCorrect`, `QueueIsFifo` | the types, and the queue's half, a refinement |
| `SideBySide` | the composition of both, `Spec => RingSpec /\ QueueSpec` |
| `OSTLSStream13_proofs`: `TypeCorrect`, `NoByteLostOrTwice`, `NothingLeftStaged`, `NothingUnreadAtTheEnd` | the invariants of the run `stream13` |
| `OSTLSStream12_proofs`: `TypeCorrect`, `NoByteLostOrTwice`, `NothingUnreadAtTheEnd` | those of the run `stream12` |
| `TLS13Handshake_proofs`: `TypeCorrect`, `NoFalseAlarms`, `NothingRejected`, `KeysAgree` | the invariants of the run `handshake` |
| `BlockingFetch_proofs`: `WholeOrError`, `NeverEarly` | `ReturnsTheWhole` and `TimeoutIsLate` of the run `fetch` |
| `Helpers_proofs`: `TicketTypeCorrect`, `OneSlot`, `OldestEvicted`, `CacheIsLeaseMap` | the ticket cache of the run `helpers`, the last a refinement |
| `LatestOffered` | the session cache |
| `NoBytesTwice` | `Independent`, the entropy pool |
| `ChainAccepted` | `OrderAccepted`, the order of the chain |
| `ClockReads` | the clock |
| `BodyDecoded` | `DecodesBody`, the chunk decoder, from its invariant `ChunkInvariance` |
| `EachPartRuns`, `HelpersKeep` | the composition, `Spec => ChunkSpec /\ ...`, and with it all nine properties of the run `helpers` |

The argument for the connection. None of its invariants is inductive alone:
whether `OTRcvDisconnect` finds its indication depends on which flags may be set
on which endpoint in which phase. `IInv` adds to `TypeOK` and the invariants: which
endpoints have been opened (`InvOpened`), that only the one Pump holds, or the one
whose open is in flight, is live (`InvHeld`), the XTI state that goes with each
connect phase (`InvArc`) and with each session (`InvSession`), that each flag has
its indication behind it (`InvFlags`), that between a look and the call it leads to the
endpoint still holds the indication or the abort that replaced it (`InvLooked`), and that a
clock runs no longer than the state it times (`InvClock`). Init establishes it; each action
is a step of its own in the proof that `Next` keeps it; those of a session are, to the
invariant, of two kinds, one that goes on (`SliceMoves`) and one that fails the connection
(`SliceCut`).

The argument for the buffers. `RingHolds` says what each unread cell holds,
counted from `readPos` around the end of the array; with `StagedIntact` and the
fact that 1.2 stages nothing it is inductive. `ContentsAre` then turns the ring
into a run of bytes, and each filling step into a `Put`, each `Read` into a `Get`,
by the lemmas of `StreamLemmas` on joining and cutting runs. The write queue follows
the same line; what makes its `Write` right is `Counted`: an empty queue starts
at 0, so that after the compaction every byte that waits does.

The argument for the 1.3 data path. `IInv` is the type invariant in four pieces with two
additions: the key generation of the peer never exceeds the records it sent, which bounds
it, and `InPump`, that no step of a Pump works on a session that is over. The latter is
what `NothingStranded` needs: `End` and `Consume` set Closed only when nothing is staged,
but a later step of the same Pump could stage more. `WrittenOnce` is inductive, with
its second half (a record has plaintext in flight exactly while units of it are unsent),
because a record is built only when nothing is unsent; the counts need it in turn to
bound what was sent by what was accepted. One lemma for each action.
`ReadToTheEnd` adds to it (`EInv`) that the records not yet consumed weigh what lies in
the buffer, in the endpoint and under way (`Tally`), more only after an abort or when the
peer died; that close_notify is the last of its stream (`LastWord`); and that the
release comes behind the last byte, also where Pump has seen it and not yet taken it
(`Ends`). A whole record left would weigh more than the
fragment of one at which Closed is set.

The argument for the 1.2 data path is the same, with the engine in place of the record
buffer: `Sane` is what BearSSL's client can hold in each state of its program once the
session is open, kept by each of the engine's functions, and `Drive` that only the peer's
close_notify or the caller's `Close` takes it out of its main loop. A record the engine
holds is shorter than the first one not consumed (`Tally`), so data in it is never taken for
the end.

The argument for the fetch. The same `Sane` with the handshake's states, and two weights of
the records to come: the units of their lengths, which bound what is received, and the
units of their data, which with what is collected make the response (`Summed`). So OK,
returned after a close_notify, which is the last word, is returned with everything.
`Clock` says that a deadline that did not wrap is ahead by the rest of the limit.

The argument for the handshake. What client and server say, sign and derive follows from
two things that never change: the kind of server, `p`, and what the client has to offer, `o`.
The proof names all of it as functions of these (`TheHello`, `ShakeSecret`, `Stream`, ...).
`IInv` says that the attempt is at one of thirteen stages (`Stage`), and that at each the
two sides hold those values; none of the four invariants is inductive without that, since
whether a Finished is accepted depends on every message before it. While the flight is
read, `Carried` cuts its sequence of units at the ends of the records under way: what is in
`plain_buf`, what each record carries, under which sequence number, and what the server
still keeps are consecutive pieces, whatever the server's choice of lengths. `FrontIs`
then finds the next message at the front as soon as it is whole, and the reassembly limit can
only be met inside a Certificate. The hello is not retried twice since a second
HelloRetryRequest is not sent by a server that keeps the RFC. One lemma for each
action, with the lemmas of `StreamLemmas` on records at the front of a sequence
(`Then`, `Following`) and on pieces of one.

The argument for the cache. The invariant adds to the types and `OneSlotPerHost` that
a stamp is the tick count at the time of storing (`Stamped`). `CacheAssumption` lets a
run last less than one turn of the clock (2^32 ticks, 2.2 years), so the count
wraps at most once, and `WrappedDifference` makes the code's subtraction the true
age; `MillisSplit` does the same for its milliseconds. `HeldCount` ties a full array to a
full map, which is when `Put` may drop an entry.

The argument for the clock. The offset read from the field is the one that was set
(`GmtDelta` undoes the remainder), the correction gives GMT whenever that lies in the
word, and otherwise a time before 2000, which the guards refuse; quotient and remainder
then add up.

The argument for the session cache. The entries are the last `SessMax` arrivals in their
order (`CacheIsWindow`), one for each key, each with the number of its key's last
handshake: a renewal changes a number and no place, a new key shifts the window by one.

The argument for the entropy pool. Within a process every extraction is from a longer
pool than the one before, since what is given out is folded back (`PoolGrows`). Between
processes `Carried` names the extraction behind each completed save, by a function that
exists as long as no seed was lost: a pool begun after `o` saves holds the seed of the
`o`th first, and no two of those seeds are alike. The last is inductive and not an
induction over the history, because a seed saved later was extracted from a pool that
began with another first item, or in the same process from a longer one; `OriginsTell`
then separates any two extractions with different origins.

The argument for the chain. The loop follows a path wherever each next place is the first
that fits (`Follows`), which both a list accepted as it came and a list without two of one
subject provide. That the loop's recursion is defined at all, and that it keeps to the
path, is shown by the first number of turns at which it would not (`LeastNatural`), which
needs no induction rule.

The argument for the chunk decoder. `DecodesBody` is not inductive, because it does not say
which part of the message the next byte belongs to. `ChunkInv` does (`Underway`): the
decoder is in a size line, of which `size_buf` holds the digits read; or so many bytes into
the data of a chunk, with the rest in `remaining`; or at the line end behind it; or in a
trailer line, which held nothing but CRs so far exactly when `trailer_just_after_eol` is
set; or behind the last line. In each case what was put out is the body up to there. `Offset`
says where each part of the encoding begins and `SentIs` which bytes lie there, so that every
action has one lemma about the byte it meets. The encoding joins any number of parts;
that the joining function exists, and that each part lies where the lengths of those before
it add up to, is again shown by the first number of parts for which it would not
(`FlattenExists`, `JoinedIs`). What `Number` computes is never needed: the decoder reads the
very digits whose number is, by `ChunkAssumption`, the length of the data. Each part of
`Helpers` runs as if alone (`EachPartRuns`), since a step of one changes no variable of
another.

Only model-checked: `Settles`, `NoStall`, `FinSettles`, `PeerEndsIt` and `Finishes`, which
are liveness under fairness, out of the prover's reach; that the instances of the runs meet
the assumptions; and the runs that show a divergence.

## 6. Not modelled

The components with status `not_modelled` in `PROJECT.json`, each with its reason:
data (the anchors), output (the log: its only state is an open file, nothing reads it
back), stand-ins that let the library link, straight-line probes, and the callers of the
library. The share of the repository's lines that the map covers is small for the same
reason: of some 138,000 lines counted as implementation about 120,000 are vendored
BearSSL, two copies of its headers, the Mac's SDK headers and the table of anchors. Of
the library's own nine source files (`ostls_async.c`, the handshake, record, key schedule,
ticket cache, HTTP, fetch, entropy and time files) the map covers more than three fifths;
the rest is encoding and parsing of messages, formatting, logging and diagnostics.

Of the connection: records longer than `plain_buf` and 1.3 alerts
other than close_notify, which a conforming peer does not send in an open session
and which fail it, the getters, which change nothing, arguments that are
refused at the door (a NULL or a zero length), name lookup inside `OTConnect`, and
events waited for by a caller that stops pumping.

Of the handshake: a ServerHello, a message header or any message but the Certificate that
is cut over two records, and messages larger than `msg_buf`; the verdict of the X.509 engine (the peer is trusted or not), cipher
suites and the encoding of extensions, malformed messages, and `tls13_state_send_ccs`,
whose state is never entered. Of the record layer and the key schedule: the ciphers,
HKDF's bytes, nonces and padding; keys and sequence numbers are in `TLS13Terms`.

Of BearSSL: everything but the interface of the client engine; renegotiation, which a
HelloRequest of the server would start and which the library leaves at BearSSL's
default; an alert cut over two records; the messages of a 1.2 handshake, of which
`BlockingFetch` keeps the turns.

Of the helpers: the two request formatters, the chunk decoder given a NULL, the
statistics of the entropy self-test, and the intermediate values that
`OSTLS_GetBearSSLTimeDetails` reports next to its result.

## 7. Where the code and its documents disagree

The findings with a run of their own are in `PROJECT.json`. Met while modelling,
and left without one.

Connection and handshake:

- `g_ostls_try_tls13` is read when the TCP connect completes (`ostls_async.c:1038`);
  `ostls_async.h:282` says `OSTLS_SetTryTLS13` affects connections started after it.
- No timeout guards an open session; the design document, line 507, promises 60
  seconds.
- A TLS 1.2 handshake the peer releases ends in Closed, without an error
  (`ostls_async.c:2094`; `ostls_async.h:157`, `:195`).
- A Pump in which the transport fails returns no Failed event: `ostls_send_raw` and the
  receive functions return -1 without one, and `OSTLS_Pump` leaves its loop; the next
  Pump reports it (`ostls_async.c:2207`; `ostls_async.h:89`, `:224`).
- A HelloRetryRequest that carries only a cookie fails as one with an unsupported
  group (`ostls_tls13_handshake.c:1101`); the comment at `:580` says the cookie is there
  for such a server.
- A flight longer than one record can fail although each of its messages fits:
  the leftover and the next *ciphertext* are held against `sizeof plain_buf`
  (`ostls_tls13_handshake.c:1513`).
- The comment at `ostls_tls13_handshake.c:2842` promises a ChangeCipherSpec before
  Finished; none is sent.
- A chain with cross-signed certificates: the first certificate with the right subject is
  taken, and a dead end is not undone, although another one leads to an anchor
  (`ostls_tls13_handshake.c:1917`; the comment at `:1696` says unordered
  and cross-signed chains are put in issuer order).

Open session:

- `OSTLS_Close` of a 1.3 session releases the sending half at once (`ostls_async.c:2343`), so
  queued plaintext and the rest of a record in flight are never sent; in 1.2 the engine
  accepts no more data once it is closing, so the write queue stays where it is.
  `ostls_async.c:2360` says the next Pumps drain the close_notify and then close.
- `OSTLS_Close` of a 1.2 session never releases the transport, only `OSTLS_Dispose`
  does (`ostls_async.c:2355`; `ostls_async.h:188`).
- A 1.3 session whose peer releases inside a record stays Open for ever: at least a
  header is left and `pump_tls13_step` ends the session only below that
  (`ostls_async.c:1992`). `FinSettles` states the rest.
- `kOSTLSEventClosed` may be returned while the ring still holds plaintext; the loop of
  the header (`ostls_async.h:16`) stops reading there, and only one that reads after
  Closed gets it.
- `kOSTLSEventWritable` is raised when a record has gone out, whatever the write
  queue holds by then, and is lost behind a `kOSTLSEventReadable` of the same Pump
  (`ostls_async.c:1919`; `ostls_async.h:87`, `:242`).
- A KeyUpdate is ignored, and the next record fails as a bad MAC
  (`ostls_async.c:1827`); `ostls_tls13_handshake.c:2589` calls it a fatal error.
- `nf_want_write` is set after `OTSnd` answered `kOTFlowErr`; a T_GODATA notified in between
  leaves it set, and `OSTLS_WantWrite` answers 1 with nothing owed (`ostls_async.c:1559`,
  `:1407`). A caller that waits for the notifier to clear it, as `:2453` says, pumps no
  more (the mutant of `NoStall`); one that defers to its next poll tick, as
  `ostls_async.h:272` says, goes on. No caller of `OSTLS_WantWrite` is under `src/`.
- After the peer's release a 1.2 session drops what it still had to send although its
  own half is open (`ostls_async.c:1381`).

Helpers and fetch:

- After the tick count wraps, eviction prefers the newest ticket
  (`ostls_ticket_cache.c:67`; `ostls_ticket_cache.h:27` says least-recently-stored).
- A chunk size line longer than `size_buf` is cut and read as another size
  (`ostls_http.c:65`).
- `OSTLS_SaveSeed` of a pool that absorbed nothing writes a seed that is the same every
  time, and it adds no sample before it extracts; `OSTLS_RandomBytes` never rolls the seed
  file; `g_seed_saved` is set whether or not the save worked (`ostls_entropy.c:447`). A
  process that only draws random bytes leaves the next one the seed it began with.
- `OSTLS_Fetch` compares an absolute deadline: a tick count that wraps within the minute
  ends the call at once or, from the other side, not before the next turn; and it is not
  tested while `OTSnd` or `OTRcv` blocks (`ostls_fetch.c:299`).
- `OSTLS_Fetch` reports a send failure and no bytes when the peer's FIN, after a complete
  response, makes `OTSnd` of the answering close_notify a look error
  (`ostls_fetch.c:396`).

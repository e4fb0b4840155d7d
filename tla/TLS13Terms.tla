------------------------------ MODULE TLS13Terms ------------------------------
(***************************************************************************)
(* The cryptography of TLS 1.3 as free terms: two secrets are equal when   *)
(* they were derived the same way from the same inputs, and a record opens *)
(* under the key and the sequence number it was sealed with and no other.  *)
(* A transcript is the sequence of its messages: it stands for its hash.   *)
(***************************************************************************)
EXTENDS Integers, Sequences

Zeros == <<"zeros">>

Extract(salt, ikm) == <<"extract", salt, ikm>>
Derive(secret, label, transcript) == <<label, secret, transcript>>
Mac(key, transcript) == <<"mac", key, transcript>>
DH(clientShare, serverShare) == <<"dh", clientShare, serverShare>>

(* The key schedule: Early, Handshake and Master Secret.                   *)
EarlySecret(psk) == Extract(Zeros, psk)
HandshakeSecret(early, dh) == Extract(Derive(early, "derived", <<>>), dh)
MasterSecret(handshake) == Extract(Derive(handshake, "derived", <<>>), Zeros)

FinishedKey(secret) == Derive(secret, "finished", <<>>)
ResumptionPsk(resMaster, nonce) == Derive(resMaster, "resumption", <<nonce>>)

(* The binder of a ClientHello: a MAC over everything in front of it.      *)
Binder(psk, base, truncated) ==
    Mac(FinishedKey(Derive(EarlySecret(psk), "res binder", <<>>)), Append(base, truncated))

(* Directional keys and the records sealed under them.                     *)
FreshKey(secret) == [secret |-> secret, seq |-> 0]
Used(key) == [key EXCEPT !.seq = @ + 1]
Opens(key, rec) == rec.key = key

(* What replaces the transcript when a HelloRetryRequest arrives.          *)
MessageHash(transcript) == <<[type |-> "message_hash", of |-> transcript]>>
===============================================================================

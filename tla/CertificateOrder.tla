--------------------------- MODULE CertificateOrder ---------------------------
(***************************************************************************)
(* The order in which tls13_state_recv_certificate feeds a server's        *)
(* certificates to BearSSL's validator (os9/ostls_tls13_handshake.c): the  *)
(* sender's own first, then each one's issuer, searched in the order they  *)
(* came in.  A certificate is its subject, its issuer, and whether the     *)
(* DER walk of ostls_cert_dns gets through it.                             *)
(***************************************************************************)
EXTENDS Integers, Sequences, FiniteSetsExt

CONSTANTS
    Cert,        \* the certificates servers send: subject, issuer, readable
    MaxSent,     \* bound: how many in one message
    Anchor,      \* the names of the trust anchors
    MaxChain     \* OSTLS_MAX_CHAIN

ASSUME ChainAssumption == MaxSent \in Nat /\ MaxChain \in Nat

VARIABLES
    sent,        \* the list in the Certificate message
    fed          \* what the validator was given, <<>> before

chainVars == <<sent, fed>>

ChainInit == fed = <<>> /\ \E n \in 1..MaxSent : sent \in [1..n -> Cert]

-------------------------------------------------------------------------------
(* Pass 1: the certificates there is room for.                             *)
Collected == SubSeq(sent, 1, Min({Len(sent), MaxChain}))

Places(certs) == 1..Len(certs)

(* Variant: the subject is compared with the subject.                      *)
SameSubject(certs, order, i) ==
    {j \in Places(certs) \ {order[k] : k \in 1..i} :
        certs[j].readable /\ certs[j].subject = certs[order[i]].subject}

(* The certificates that may come after the i-th of the order.             *)
Issuers(certs, order, i) ==
    {j \in Places(certs) \ {order[k] : k \in 1..i} :
        certs[j].readable /\ certs[j].subject = certs[order[i]].issuer}

(* A turn of pass 2: the first issuer found follows, if there is one.      *)
Turn(certs, o) ==
    IF certs[o[Len(o)]].readable /\ Issuers(certs, o, Len(o)) # {}
    THEN Append(o, Min(Issuers(certs, o, Len(o))))
    ELSE o

(* Pass 2, a turn for each certificate: the places in their order.         *)
OrderAfter(certs) ==
    LET order[n \in 0..Len(certs)] == IF n = 0 THEN <<1>> ELSE Turn(certs, order[n - 1])
    IN order[Len(certs)]

(* A certificate of the order that cannot be read, except the last when    *)
(* nothing is left to look for, sends the whole list back to wire order;   *)
(* so does a first certificate whose issuer is not in the list.            *)
Ordered(certs) ==
    LET o == OrderAfter(certs) IN
    /\ certs[o[Len(o)]].readable \/ (Len(o) = Len(certs) /\ Len(o) > 1)
    /\ Len(o) = 1 => Len(certs) = 1

Feed(certs) ==
    IF Ordered(certs)
    THEN LET o == OrderAfter(certs) IN [i \in 1..Len(o) |-> certs[o[i]]]
    ELSE certs

RecvCertificate == fed = <<>> /\ fed' = Feed(Collected) /\ UNCHANGED sent

ChainNext == RecvCertificate

ChainSpec == ChainInit /\ [][ChainNext]_chainVars

-------------------------------------------------------------------------------
(* Properties.                                                             *)

(* BearSSL's validator: each certificate must be the issuer of the last,   *)
(* until one is issued by an anchor; what follows is not looked at.  Its   *)
(* parser is stricter than the walk.                                       *)
LinksTo(certs, n) ==
    /\ \A i \in 1..n : certs[i].readable
    /\ \A i \in 1..(n - 1) : certs[i + 1].subject = certs[i].issuer
Accepts(certs) == \E n \in 1..Len(certs) : LinksTo(certs, n) /\ certs[n].issuer \in Anchor

(* A path to an anchor among certs, each used once.                        *)
Path(certs, n) == {p \in [1..n -> Places(certs)] :
    /\ p[1] = 1 /\ \A i, j \in 1..n : p[i] = p[j] => i = j
    /\ LinksTo([i \in 1..n |-> certs[p[i]]], n) /\ certs[p[n]].issuer \in Anchor}
Trusted(certs) == \E n \in 1..Len(certs) : Path(certs, n) # {}

Unambiguous(certs) ==
    /\ \A i \in Places(certs) : certs[i].readable
    /\ \A i, j \in Places(certs) : certs[i].subject = certs[j].subject => i = j

(* What the validator would accept as it came it still accepts, and a list *)
(* in which no two certificates share a subject is accepted whenever some  *)
(* order of it would be; both for the certificates that fit in MaxChain.   *)
OrderAccepted ==
    fed # <<>> /\ (Accepts(Collected) \/ (Unambiguous(Collected) /\ Trusted(Collected)))
        => Accepts(fed)

===============================================================================

----------------------------- MODULE SessionCache -----------------------------
(***************************************************************************)
(* The cache of TLS 1.2 sessions, one entry for each host and port         *)
(* (os9/ostls_async.c): found by a scan, renewed in place, the first one   *)
(* shifted out when a new key finds the array full.  A session is the      *)
(* number of the handshake it comes from.                                  *)
(***************************************************************************)
EXTENDS Integers, Sequences

CONSTANTS
    SessKey,         \* "host:port"
    SessMax,         \* OSTLS_SESS_MAX
    MaxHandshakes    \* bound: how many 1.2 handshakes end

ASSUME SessAssumption == SessMax \in Nat \ {0}

VARIABLES
    sessCache,       \* s_sess_cache[0 .. s_sess_cache_count - 1]
    offered,         \* what the last ostls_setup_bearssl gave to the engine
    stored,          \* history: each handshake's key
    arrivals         \* history: the keys, each time one came in anew

sessVars == <<sessCache, offered, stored, arrivals>>

NothingOffered == [key |-> "none", session |-> 0]

SessInit == sessCache = <<>> /\ offered = NothingOffered /\ stored = <<>> /\ arrivals = <<>>

-------------------------------------------------------------------------------
(* sess_cache_find.                                                        *)
SessFound(key) == {i \in DOMAIN sessCache : sessCache[i].key = key}

(* The connection is up: its engine is given what the cache has.           *)
OfferSession(key) ==
    /\ \E i \in SessFound(key) : offered' = sessCache[i]
    /\ UNCHANGED <<sessCache, stored, arrivals>>

OfferNothing(key) ==
    /\ SessFound(key) = {} /\ offered' = NothingOffered
    /\ UNCHANGED <<sessCache, stored, arrivals>>

(* Variant: the newest entry makes room.                                   *)
LastEvicted == IF Len(sessCache) >= SessMax THEN SubSeq(sessCache, 1, SessMax - 1) ELSE sessCache

(* A new entry finds room behind the others, or takes that of the first.   *)
Evicted == IF Len(sessCache) >= SessMax THEN Tail(sessCache) ELSE sessCache

(* sess_cache_put, when a handshake is done.                               *)
RenewSession(key) ==
    /\ \E i \in SessFound(key) : sessCache' = [sessCache EXCEPT ![i].session = Len(stored) + 1]
    /\ UNCHANGED arrivals

StoreSession(key) ==
    /\ SessFound(key) = {}
    /\ sessCache' = Append(Evicted, [key |-> key, session |-> Len(stored) + 1])
    /\ arrivals' = Append(arrivals, key)

HandshakeEnds(key) ==
    /\ Len(stored) < MaxHandshakes
    /\ RenewSession(key) \/ StoreSession(key)
    /\ stored' = Append(stored, key) /\ UNCHANGED offered

SessNext == \E key \in SessKey : OfferSession(key) \/ OfferNothing(key) \/ HandshakeEnds(key)

SessSpec == SessInit /\ [][SessNext]_sessVars

-------------------------------------------------------------------------------
(* Properties.                                                             *)

(* The key came in as one of the last SessMax: renewals do not count.      *)
Recent(key) == \E i \in DOMAIN arrivals : arrivals[i] = key /\ i > Len(arrivals) - SessMax

Latest(key) == CHOOSE n \in DOMAIN stored :
    stored[n] = key /\ \A k \in DOMAIN stored : stored[k] = key => k <= n

(* A connection is offered the session of the last handshake with its host *)
(* and port, never another one's or an older one, and it is offered none   *)
(* only if SessMax other keys have come in since its own did.              *)
OffersLatest ==
    [][ \A key \in SessKey :
          /\ OfferSession(key) => Recent(key) /\ offered' = [key |-> key, session |-> Latest(key)]
          /\ OfferNothing(key) => ~ Recent(key) ]_sessVars

===============================================================================

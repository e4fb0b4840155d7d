------------------------------ MODULE TicketCache ------------------------------
(***************************************************************************)
(* The cache of TLS 1.3 resumption tickets, os9/ostls_ticket_cache.c: a    *)
(* fixed array of slots, one ticket per host, stamped with the tick count  *)
(* it came at.  The tick count is a machine word: it wraps.                *)
(***************************************************************************)
EXTENDS Integers, FiniteSets

CONSTANTS Host, Ticket,
          Lifetime,     \* the lifetime of each ticket, in seconds
          Slots,        \* OSTLS_TICKET_CACHE_SLOTS
          TicksPerSec,  \* the caller's clock: TickCount, 60 a second
          ClockSize,    \* 2^32
          Boot,         \* the tick count when the cache is empty first
          MaxTime,      \* bound of the runs: how long they last
          NoHost, NoTicket, Miss

ASSUME CacheAssumption ==
    /\ Slots \in Nat \ {0} /\ TicksPerSec \in Nat \ {0} /\ ClockSize \in Nat \ {0}
    /\ Boot \in 0..ClockSize - 1 /\ MaxTime \in 0..ClockSize - 1
    /\ Lifetime \in [Ticket -> Nat]
    /\ NoHost \notin Host /\ NoTicket \notin Ticket

VARIABLES used, host, received, ticket,     \* g_slots
          time,     \* ticks since Boot, which nothing in the program counts
          since,    \* history: the time each slot was last filled at
          answer    \* what the last OSTLS_TicketCacheGet returned

slotVars == <<used, host, received, ticket, since>>
ticketVars == <<slotVars, time, answer>>

Slot == 1..Slots
ticketNowWide == Boot + time
ticketNow == (Boot + time) % ClockSize

EmptySlots ==
    /\ used = [i \in Slot |-> FALSE] /\ host = [i \in Slot |-> NoHost]
    /\ received = [i \in Slot |-> 0] /\ ticket = [i \in Slot |-> NoTicket]
    /\ since = [i \in Slot |-> 0]

TicketInit == EmptySlots /\ time = 0 /\ answer = Miss

-------------------------------------------------------------------------------
Least(S) == CHOOSE i \in S : \A j \in S : i <= j

Holds(h) == {i \in Slot : used[i] /\ host[i] = h}
Free == {i \in Slot : ~ used[i]}

Newest == {i \in Slot : \A j \in Slot : received[i] >= received[j]}

(* The least recently stored: the first slot with the smallest tick count. *)
Oldest == {i \in Slot : \A j \in Slot : received[i] <= received[j]}

TargetFreeFirst(h) ==
    Least(IF Free # {} THEN Free ELSE IF Holds(h) # {} THEN Holds(h) ELSE Oldest)
Target(h) == Least(IF Holds(h) # {} THEN Holds(h) ELSE IF Free # {} THEN Free ELSE Oldest)

Put(h, t) == LET i == Target(h) IN
    /\ used' = [used EXCEPT ![i] = TRUE]
    /\ host' = [host EXCEPT ![i] = h]
    /\ received' = [received EXCEPT ![i] = ticketNow]
    /\ ticket' = [ticket EXCEPT ![i] = t]
    /\ since' = [since EXCEPT ![i] = time]
    /\ UNCHANGED <<time, answer>>

ElapsedUnlessWrapped(i) == IF ticketNow < received[i] THEN 0 ELSE ticketNow - received[i]
Elapsed(i) == (ticketNow - received[i]) % ClockSize

AgeMillis(i) == (Elapsed(i) \div TicksPerSec) * 1000
                    + ((Elapsed(i) % TicksPerSec) * 1000) \div TicksPerSec

Expired(i) == Elapsed(i) \div TicksPerSec >= Lifetime[ticket[i]]

Get(h) ==
    IF Holds(h) = {}
    THEN answer' = Miss /\ UNCHANGED <<slotVars, time>>
    ELSE LET i == Least(Holds(h)) IN
         IF Expired(i)
         THEN /\ used' = [used EXCEPT ![i] = FALSE]
              /\ answer' = Miss
              /\ UNCHANGED <<host, received, ticket, since, time>>
         ELSE /\ answer' = [value |-> ticket[i], age |-> AgeMillis(i)]
              /\ UNCHANGED <<slotVars, time>>

TicketReset ==
    /\ used' = [i \in Slot |-> FALSE] /\ host' = [i \in Slot |-> NoHost]
    /\ received' = [i \in Slot |-> 0] /\ ticket' = [i \in Slot |-> NoTicket]
    /\ since' = [i \in Slot |-> 0]
    /\ UNCHANGED <<time, answer>>

TicketTick == time < MaxTime /\ time' = time + 1 /\ UNCHANGED <<slotVars, answer>>

TicketNext ==
    \/ \E h \in Host, t \in Ticket : Put(h, t)
    \/ \E h \in Host : Get(h)
    \/ TicketReset \/ TicketTick

TicketSpec == TicketInit /\ [][TicketNext]_ticketVars

-------------------------------------------------------------------------------
(* Types.  A slot in use has been filled.                                  *)
TicketTypeOK ==
    /\ used \in [Slot -> BOOLEAN] /\ host \in [Slot -> Host \cup {NoHost}]
    /\ received \in [Slot -> 0..ClockSize - 1] /\ ticket \in [Slot -> Ticket \cup {NoTicket}]
    /\ since \in [Slot -> 0..MaxTime] /\ time \in 0..MaxTime
    /\ \A i \in Slot : used[i] => host[i] \in Host /\ ticket[i] \in Ticket

(* A host never has two slots: OSTLS_TicketCacheGet would answer from the  *)
(* first and OSTLS_TicketCachePut renew only that one, whatever mix of     *)
(* expiry, eviction and reuse freed slots in front of it.                  *)
OneSlotPerHost == \A i, j \in Slot : used[i] /\ used[j] /\ host[i] = host[j] => i = j

(* What is evicted was stored no later than what stays, as long as the     *)
(* tick count has not wrapped since the oldest entry was stored.           *)
SameEra == \A i, j \in Slot : since[i] <= since[j] <=> received[i] <= received[j]

EvictsOldest ==
    [][SameEra /\ Free = {} =>
         \A i \in Slot : host'[i] # host[i] /\ used'[i]
                           => \A j \in Slot : since[i] <= since[j]]_ticketVars

(* A lookup finds the ticket stored last for the host, with its true age,  *)
(* exactly while its lifetime lasts, on either side of the wrap.           *)
Held == {host[i] : i \in {j \in Slot : used[j]}}
SlotOf(h) == CHOOSE i \in Slot : used[i] /\ host[i] = h

Lasts(t) == Lifetime[t]

Map == INSTANCE LeaseMap WITH
    Key <- Host, Value <- Ticket, Lease <- Lasts, Capacity <- Slots,
    map <- [h \in Held |-> [value |-> ticket[SlotOf(h)], at |-> since[SlotOf(h)]]]

ImplementsLeaseMap == Map!Spec
===============================================================================

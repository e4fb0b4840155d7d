------------------------------- MODULE LeaseMap -------------------------------
(***************************************************************************)
(* What a user of the ticket cache may rely on: a map from keys to the     *)
(* value last stored for each, in which an entry is found until its lease  *)
(* has run out, together with its age.  The map holds Capacity entries; to *)
(* make room it may drop one, and says nothing here about which.           *)
(***************************************************************************)
EXTENDS Integers, FiniteSets

CONSTANTS Key, Value,
          Lease(_),         \* how many seconds a value may be used for
          TicksPerSec,      \* the resolution of the clock
          Capacity,         \* how many entries the map holds
          Miss              \* the answer of a lookup that finds nothing

VARIABLES map,      \* from the keys that are held to their value and the tick it was stored at
          time,     \* ticks that have passed; never wraps
          answer    \* what the last lookup returned

Age(k) == time - map[k].at
Live(k) == k \in DOMAIN map /\ Age(k) \div TicksPerSec < Lease(map[k].value)
Millis(t) == (t * 1000) \div TicksPerSec

Hold(k, e, keys) == [x \in keys \cup {k} |-> IF x = k THEN e ELSE map[x]]

Init == map = [k \in {} |-> Miss] /\ time = 0 /\ answer = Miss

Put(k, v) == \E gone \in SUBSET (DOMAIN map \ {k}) :
    /\ IF k \in DOMAIN map \/ Cardinality(DOMAIN map) < Capacity
       THEN gone = {} ELSE Cardinality(gone) = 1
    /\ map' = Hold(k, [value |-> v, at |-> time], DOMAIN map \ gone)
    /\ UNCHANGED <<time, answer>>

Found(k) == /\ Live(k)
            /\ answer' = [value |-> map[k].value, age |-> Millis(Age(k))]
            /\ UNCHANGED <<map, time>>

NotFound(k) == /\ ~ Live(k)
               /\ answer' = Miss
               /\ map' = [x \in DOMAIN map \ {k} |-> map[x]]
               /\ UNCHANGED time

Reset == map' = [k \in {} |-> Miss] /\ UNCHANGED <<time, answer>>
Tick == time' = time + 1 /\ UNCHANGED <<map, answer>>

Next == \/ \E k \in Key, v \in Value : Put(k, v)
        \/ \E k \in Key : Found(k) \/ NotFound(k)
        \/ Reset \/ Tick

Spec == Init /\ [][Next]_<<map, time, answer>>
===============================================================================

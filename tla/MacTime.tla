------------------------------- MODULE MacTime -------------------------------
(***************************************************************************)
(* The conversion of the Mac's clock for the certificate validator         *)
(* (os9/ostls_time.c): local seconds since 1904 in a word, and a field     *)
(* with the offset from GMT, into days since year 0 and seconds of the     *)
(* day.  The length of a day, of the word and of the field are parameters, *)
(* so that a run can count hours where the code counts seconds.            *)
(***************************************************************************)
EXTENDS Integers

CONSTANTS
    Day,         \* seconds in a day, 86400
    Word,        \* 2^32, the range of UInt32
    Field,       \* 2^24, the range of the offset
    UnixDays,    \* days from 1904 to 1970: OSTLS_MAC_TO_UNIX_OFFSET / 86400
    GuardDays,   \* days from 1970 to 2000: OSTLS_UNIX_TO_2000_OFFSET / 86400
    EpochDay     \* OSTLS_BEARSSL_DAYS_UNIX_EPOCH

ASSUME ClockAssumption ==
    /\ Day \in Nat \ {0} /\ Word \in Nat \ {0} /\ Field \in Nat \ {0}
    /\ UnixDays \in Nat /\ GuardDays \in Nat /\ EpochDay \in Nat
    /\ Field % 2 = 0 /\ Field < Word
    /\ (UnixDays + GuardDays) * Day > Field

VARIABLES
    gmt,         \* the time it really is, since 1904
    local,       \* what GetDateTime returns
    location,    \* u.gmtDelta of ReadLocation: the offset and, above it, dlsDelta
    reading      \* what OSTLS_GetBearSSLTime answered

clockVars == <<gmt, local, location, reading>>

NoReading == [ok |-> FALSE, days |-> 0, seconds |-> 0]

-------------------------------------------------------------------------------
(* Variant: the sign of the offset is not extended.                        *)
Unsigned(l) == l % Field

(* The low bits, with their sign.                                          *)
GmtDelta(l) == IF (l % Field) >= Field \div 2 THEN (l % Field) - Field ELSE l % Field

(* A clock that has not run for as long as the offset is left as it is;    *)
(* the other way the word may wrap.                                        *)
ToGmt(s, delta) == IF delta < 0 THEN (s - delta) % Word ELSE IF s >= delta THEN s - delta ELSE s

Reading(s) ==
    IF s < UnixDays * Day \/ (s - UnixDays * Day) < GuardDays * Day THEN NoReading
    ELSE [ok |-> TRUE, days |-> (s - UnixDays * Day) \div Day + EpochDay,
                       seconds |-> (s - UnixDays * Day) % Day]

(* OSTLS_GetBearSSLTime.                                                   *)
GetBearSSLTime ==
    /\ reading' = Reading(ToGmt(local, GmtDelta(location)))
    /\ UNCHANGED <<gmt, local, location>>

-------------------------------------------------------------------------------
(* The machine's clock is set right: a time, an offset that the field      *)
(* holds, and the local time in a word.  In the first and the last hours   *)
(* of the word GMT itself may lie outside.                                 *)
Half == Field \div 2
Offsets == (0 - Half)..(Half - 1)
Times == (0 - Half)..(Word + Half)

ClockInit ==
    /\ gmt \in Times
    /\ \E delta \in Offsets, dls \in {0, 1} :
         /\ gmt + delta \in 0..(Word - 1)
         /\ local = gmt + delta /\ location = dls * Field + (delta % Field)
    /\ reading = NoReading

ClockNext == GetBearSSLTime

ClockSpec == ClockInit /\ [][ClockNext]_clockVars

(* From 2000 to the end of the word there is a reading, and it is the      *)
(* time: its days and seconds add up to the real GMT, whatever the time    *)
(* zone and on which side of its midnight.  At any other time, also when   *)
(* the correction would leave the word, there is none.                     *)
TimeOf(r) == (r.days - EpochDay + UnixDays) * Day + r.seconds

ReadsTheTime ==
    [][ /\ reading'.ok <=> gmt \in ((UnixDays + GuardDays) * Day)..(Word - 1)
        /\ reading'.ok => TimeOf(reading') = gmt /\ reading'.seconds \in 0..(Day - 1) ]_clockVars

===============================================================================

---------------------------- MODULE Helpers_proofs ----------------------------
(***************************************************************************)
(* What the library's parts beside the connection keep, for every value of *)
(* their constants: the clock, the two caches, the entropy pool, the order *)
(* of a certificate chain, the chunk decoder.  Each theorem is about the   *)
(* specification of one part; the last ones are about Helpers, which runs  *)
(* the parts beside each other.                                            *)
(***************************************************************************)
EXTENDS Helpers, StreamLemmas, FiniteSetTheorems

-------------------------------------------------------------------------------
(* The clock (MacTime).                                                    *)

(* The division by the length of a day loses nothing.                      *)
LEMMA DivMod ==
    ASSUME NEW a \in Nat, NEW c \in Nat \ {0}
    PROVE  /\ a \div c \in Nat /\ a % c \in 0..(c - 1)
           /\ a = ((a \div c) * c) + (a % c)
  BY Z3

(* A remainder is the only one in range that differs by a multiple.        *)
LEMMA Remainder ==
    ASSUME NEW q \in Int, NEW c \in Nat \ {0}, NEW s \in 0..(c - 1)
    PROVE  ((q * c) + s) % c = s
  BY Z3

(* The field holds every offset, whatever dlsDelta is above it.            *)
LEMMA FieldHolds ==
    ASSUME NEW delta \in Offsets, NEW dls \in {0, 1}
    PROVE  GmtDelta(dls * Field + (delta % Field)) = delta
  <1>1. Field \in Nat \ {0} /\ Field = 2 * Half /\ Half \in Nat
    BY ClockAssumption, Z3 DEF Half
  <1>2. delta \in Int /\ 0 - Half <= delta /\ delta < Half
    BY <1>1 DEF Offsets
  <1>3. delta % Field = IF delta < 0 THEN delta + Field ELSE delta
    <2>1. CASE delta < 0
      <3>1. delta + Field \in 0..(Field - 1) BY <1>1, <1>2, <2>1
      <3>2. delta = ((0 - 1) * Field) + (delta + Field) BY <1>1, <1>2
      <3>3. QED BY <1>1, <2>1, <3>1, <3>2, Remainder
    <2>2. CASE ~ (delta < 0)
      <3>1. delta \in 0..(Field - 1) BY <1>1, <1>2, <2>2
      <3>2. delta = (0 * Field) + delta BY <1>1, <1>2
      <3>3. QED BY <1>1, <2>2, <3>1, <3>2, Remainder
    <2>3. QED BY <2>1, <2>2
  <1>4. delta % Field \in 0..(Field - 1) BY <1>1, <1>2, <1>3
  <1>5. (dls * Field + (delta % Field)) % Field = delta % Field
    <2>1. PICK s \in 0..(Field - 1) : s = delta % Field BY <1>4
    <2>2. dls \in Int OBVIOUS
    <2>3. (dls * Field + s) % Field = s BY <1>1, <2>2, Remainder
    <2>4. QED BY <2>1, <2>3
  <1>6. QED BY <1>1, <1>2, <1>3, <1>5 DEF GmtDelta, Half

(* A reading of s GMT seconds is there from 2000 on, and is s.             *)
LEMMA ReadingRight ==
    ASSUME NEW s \in Nat
    PROVE  /\ Reading(s).ok <=> s >= (UnixDays + GuardDays) * Day
           /\ Reading(s).ok => TimeOf(Reading(s)) = s /\ Reading(s).seconds \in 0..(Day - 1)
  <1>1. PICK u \in Nat, g \in Nat : u = UnixDays * Day /\ g = GuardDays * Day
    BY ClockAssumption, Z3
  <1>2. (UnixDays + GuardDays) * Day = u + g BY <1>1, ClockAssumption, Z3
  <1>3. CASE s < u \/ s - u < g
    <2>1. Reading(s) = NoReading BY <1>1, <1>3 DEF Reading
    <2>2. QED BY <1>2, <1>3, <2>1 DEF NoReading
  <1>4. CASE ~ (s < u \/ s - u < g)
    <2>1. s - u \in Nat BY <1>4
    <2>2. PICK q \in Nat, r \in 0..(Day - 1) :
            q = (s - u) \div Day /\ r = (s - u) % Day /\ s - u = q * Day + r
      BY <2>1, DivMod, ClockAssumption
    <2>3. Reading(s) = [ok |-> TRUE, days |-> q + EpochDay, seconds |-> r]
      BY <1>1, <1>4, <2>2 DEF Reading
    <2>4. TimeOf(Reading(s)) = (q + UnixDays) * Day + r
      BY <2>3, ClockAssumption DEF TimeOf
    <2>5. (q + UnixDays) * Day = q * Day + u BY <1>1, ClockAssumption, Z3
    <2>6. QED BY <1>2, <1>4, <2>2, <2>3, <2>4, <2>5, ClockAssumption
  <1>5. QED BY <1>3, <1>4

(* The clock is set right.                                                 *)
SetRight ==
    /\ gmt \in Times
    /\ \E delta \in Offsets, dls \in {0, 1} :
         /\ gmt + delta \in 0..(Word - 1)
         /\ local = gmt + delta /\ location = dls * Field + (delta % Field)

LEMMA ReadingStep == SetRight /\ GetBearSSLTime =>
         /\ reading'.ok <=> gmt \in ((UnixDays + GuardDays) * Day)..(Word - 1)
         /\ reading'.ok => TimeOf(reading') = gmt /\ reading'.seconds \in 0..(Day - 1)
  <1> SUFFICES ASSUME SetRight, GetBearSSLTime
               PROVE  /\ reading'.ok <=> gmt \in ((UnixDays + GuardDays) * Day)..(Word - 1)
                      /\ reading'.ok => TimeOf(reading') = gmt /\ reading'.seconds \in 0..(Day - 1)
    OBVIOUS
  <1>1. PICK delta \in Offsets, dls \in {0, 1} :
          /\ gmt + delta \in 0..(Word - 1)
          /\ local = gmt + delta /\ location = dls * Field + (delta % Field)
    BY DEF SetRight
  <1>2. reading' = Reading(ToGmt(local, delta))
    BY <1>1, FieldHolds DEF GetBearSSLTime
  <1>3. /\ Field \in Nat /\ Field = 2 * Half /\ Half \in Nat /\ Word \in Nat /\ Field < Word
        /\ delta \in Int /\ 0 - Half <= delta /\ delta < Half /\ gmt \in Int
    BY ClockAssumption, Z3 DEF Half, Offsets, Times, SetRight
  <1>4. PICK guard \in Nat : guard = (UnixDays + GuardDays) * Day /\ guard > Field
    BY ClockAssumption, Z3
  <1>5. CASE gmt \in 0..(Word - 1)
    <2>1. ToGmt(local, delta) = gmt
      <3>1. CASE delta < 0
        <4>1. (0 * Word) + gmt = gmt BY <1>3
        <4>2. gmt % Word = gmt BY <1>3, <1>5, <4>1, Remainder
        <4>3. local - delta = gmt BY <1>1, <1>3
        <4>4. QED BY <3>1, <4>2, <4>3 DEF ToGmt
      <3>2. CASE ~ (delta < 0)
        BY <1>1, <1>3, <1>5, <3>2 DEF ToGmt
      <3>3. QED BY <3>1, <3>2
    <2>2. gmt \in Nat BY <1>5
    <2>3. QED BY <1>2, <1>3, <1>4, <1>5, <2>1, <2>2, ReadingRight
  <1>6. CASE gmt < 0
    <2>1. local \in Nat /\ local < delta /\ local < guard BY <1>1, <1>3, <1>4, <1>6
    <2>2. ToGmt(local, delta) = local BY <1>3, <1>6, <2>1 DEF ToGmt
    <2>3. ~ reading'.ok BY <1>2, <1>4, <2>1, <2>2, ReadingRight
    <2>4. QED BY <1>3, <1>4, <1>6, <2>3
  <1>7. CASE gmt >= Word
    <2>1. delta < 0 /\ local - delta = gmt BY <1>1, <1>3, <1>7
    <2>2. gmt - Word \in 0..(Word - 1) /\ gmt - Word < guard BY <1>1, <1>3, <1>4, <1>7
    <2>3. (1 * Word) + (gmt - Word) = gmt BY <1>3
    <2>4. gmt % Word = gmt - Word BY <1>3, <2>2, <2>3, Remainder
    <2>5. ToGmt(local, delta) = gmt - Word BY <2>1, <2>4 DEF ToGmt
    <2>6. ~ reading'.ok BY <1>2, <1>4, <2>2, <2>5, ReadingRight
    <2>7. QED BY <1>3, <1>7, <2>6
  <1>8. QED BY <1>3, <1>5, <1>6, <1>7

(* Whatever the length of the day, the width of the clock and of the       *)
(* offset's field, and the place of the epochs: with a clock that is set   *)
(* right, OSTLS_GetBearSSLTime answers with the time from 2000 to the end  *)
(* of the word, and with an error at any other.                            *)
THEOREM ClockReads == ClockSpec => ReadsTheTime
  <1>1. ClockInit => SetRight BY DEF ClockInit, SetRight
  <1>2. SetRight /\ [ClockNext]_clockVars => SetRight'
    BY DEF SetRight, ClockNext, GetBearSSLTime, clockVars
  <1>3. SetRight /\ [ClockNext]_clockVars =>
          [ /\ reading'.ok <=> gmt \in ((UnixDays + GuardDays) * Day)..(Word - 1)
            /\ reading'.ok => TimeOf(reading') = gmt /\ reading'.seconds \in 0..(Day - 1) ]_clockVars
    BY ReadingStep DEF ClockNext
  <1>4. QED BY <1>1, <1>2, <1>3, PTL DEF ClockSpec, ReadsTheTime

-------------------------------------------------------------------------------
(* The order of the chain (CertificateOrder).                              *)

(* The turns of the loop are defined, for every number of them: the first  *)
(* one that were not would follow one that is.                             *)
LEMMA TurnsExist ==
    ASSUME NEW certs, NEW N \in Nat
    PROVE  \E f : f = [n \in 0..N |-> IF n = 0 THEN <<1>> ELSE Turn(certs, f[n - 1])]
<1> DEFINE Exists(k) == \E f : f = [n \in 0..k |-> IF n = 0 THEN <<1>> ELSE Turn(certs, f[n - 1])]
           None == {k \in Nat : ~ Exists(k)}
<1>1. SUFFICES ASSUME None # {} PROVE FALSE
  OBVIOUS
<1>2. PICK k \in None : \A j \in None : k <= j
  BY <1>1, LeastNatural
<1>3. Exists(0)
  <2> DEFINE f == [n \in 0..0 |-> <<1>>]
  <2>1. f = [n \in 0..0 |-> IF n = 0 THEN <<1>> ELSE Turn(certs, f[n - 1])]
    <3>1. \A n \in 0..0 : n = 0
      OBVIOUS
    <3> QED BY <3>1
  <2> QED BY <2>1
<1>4. k # 0 /\ k \in Nat
  BY <1>2, <1>3
<1>5. k - 1 \in Nat /\ Exists(k - 1)
  <2>1. k - 1 \in Nat /\ ~ (k <= k - 1)
    BY <1>4
  <2>2. k - 1 \notin None
    BY <1>2, <2>1
  <2> QED BY <2>1, <2>2
<1>6. PICK g : g = [n \in 0..(k - 1) |-> IF n = 0 THEN <<1>> ELSE Turn(certs, g[n - 1])]
  BY <1>5
<1> DEFINE h == [n \in 0..k |-> IF n = 0 THEN <<1>> ELSE Turn(certs, g[n - 1])]
<1>7. \A n \in 0..k : n # 0 => n - 1 \in 0..k /\ n - 1 \in 0..(k - 1)
  BY <1>4
<1>8. \A m \in 0..(k - 1) : h[m] = g[m]
  <2> TAKE m \in 0..(k - 1)
  <2>1. m \in 0..k
    BY <1>4
  <2>2. g[m] = IF m = 0 THEN <<1>> ELSE Turn(certs, g[m - 1])
    BY <1>6
  <2> QED BY <2>1, <2>2
<1>9. h = [n \in 0..k |-> IF n = 0 THEN <<1>> ELSE Turn(certs, h[n - 1])]
  <2>1. \A n \in 0..k : n # 0 => h[n - 1] = g[n - 1]
    BY <1>7, <1>8
  <2> HIDE DEF h
  <2>2. h = [n \in 0..k |-> IF n = 0 THEN <<1>> ELSE Turn(certs, g[n - 1])]
    BY DEF h
  <2> QED BY <2>1, <2>2
<1> HIDE DEF h
<1>10. Exists(k)
  BY <1>9
<1> QED BY <1>2, <1>10

LEMMA OrderTurns ==
    ASSUME NEW certs, Len(certs) \in Nat
    PROVE  \E f : /\ f = [n \in 0..Len(certs) |-> IF n = 0 THEN <<1>> ELSE Turn(certs, f[n - 1])]
                  /\ OrderAfter(certs) = f[Len(certs)]
<1>1. \E f : f = [n \in 0..Len(certs) |-> IF n = 0 THEN <<1>> ELSE Turn(certs, f[n - 1])]
  BY TurnsExist
<1> QED BY <1>1 DEF OrderAfter

(* The search follows p, n places long: each next place is the first that  *)
(* is left of those the subject fits.                                      *)
Follows(certs, p, n) ==
    /\ Len(certs) \in Nat /\ n \in 1..Len(certs) /\ p \in [1..n -> Places(certs)] /\ p[1] = 1
    /\ \A i, j \in 1..n : p[i] = p[j] => i = j
    /\ \A i \in 1..n : certs[p[i]].readable
    /\ \A i \in 1..(n - 1) : certs[p[i + 1]].subject = certs[p[i]].issuer
    /\ \A i \in 1..(n - 1) : \A j \in Places(certs) :
         (\A k \in 1..i : j # p[k]) /\ certs[j].readable /\ certs[j].subject = certs[p[i]].issuer
           => p[i + 1] <= j

(* The order after m turns: as much of p as there have been turns for.     *)
Along(certs, p, n, o, m) ==
    /\ IsSeq(o) /\ Len(o) >= 1
    /\ \A i \in 1..Len(o) : o[i] \in Places(certs)
    /\ m < n => Len(o) = m + 1
    /\ m + 1 >= n => Len(o) >= n
    /\ \A i \in 1..n : i <= m + 1 => o[i] = p[i]

LEMMA MinIs ==
    ASSUME NEW S, S \subseteq Nat, NEW x \in S, \A y \in S : x <= y
    PROVE  Min(S) = x
<1>1. \A z \in S : (\A y \in S : z <= y) => z = x
  <2> TAKE z \in S
  <2> HAVE \A y \in S : z <= y
  <2>1. z <= x /\ x <= z /\ x \in Nat /\ z \in Nat
    OBVIOUS
  <2> QED BY <2>1
<1> QED BY <1>1 DEF Min

LEMMA MinIn ==
    ASSUME NEW S, S \subseteq Nat, S # {}
    PROVE  Min(S) \in S
BY LeastNatural DEF Min

LEMMA TurnAlong ==
    ASSUME NEW certs, NEW p, NEW n, Follows(certs, p, n), NEW o, NEW m \in Nat,
           Along(certs, p, n, o, m)
    PROVE  Along(certs, p, n, Turn(certs, o), m + 1)
<1>1. PICK L : L = Len(o)
  OBVIOUS
<1>2. /\ L \in Nat /\ L >= 1 /\ DOMAIN o = 1..L /\ IsSeq(o)
      /\ \A i \in 1..L : o[i] \in Places(certs)
  BY <1>1, AppendIs DEF Along
<1>3. n \in Nat /\ n >= 1 /\ Places(certs) \subseteq Nat
  BY DEF Follows, Places
<1>4. PICK S : S = Issuers(certs, o, L)
  OBVIOUS
<1>5. S \subseteq Places(certs) /\ S \subseteq Nat
  BY <1>3, <1>4 DEF Issuers
<1>6. PICK x : x = Min(S)
  OBVIOUS
<1>7. S # {} => x \in Places(certs)
  BY <1>5, <1>6, MinIn
<1>8. CASE m + 1 < n
  <2>1. L = m + 1 /\ L \in 1..(n - 1) /\ \A k \in 1..L : o[k] = p[k]
    <3>1. L = m + 1
      BY <1>1, <1>3, <1>8 DEF Along
    <3>2. L \in 1..(n - 1) /\ \A k \in 1..L : k \in 1..n /\ k <= m + 1
      BY <1>2, <1>3, <1>8, <3>1
    <3> QED BY <3>1, <3>2 DEF Along
  <2>2. L + 1 \in 1..n /\ L \in 1..n /\ L \in 1..L /\ \A k \in 1..L : k \in 1..n /\ k # L + 1
    BY <1>2, <1>3, <2>1
  <2>3. certs[o[L]].readable /\ o[L] = p[L]
    BY <2>1, <2>2 DEF Follows
  <2>4. p[L + 1] \in Places(certs) /\ \A k \in 1..L : p[L + 1] # p[k]
    BY <2>2 DEF Follows
  <2>5. p[L + 1] \in S
    BY <1>4, <2>1, <2>2, <2>3, <2>4 DEF Follows, Issuers
  <2>6. \A j \in S : p[L + 1] <= j
    <3> TAKE j \in S
    <3>1. j \in Places(certs) /\ certs[j].readable /\ certs[j].subject = certs[p[L]].issuer
          /\ \A k \in 1..L : j # p[k]
      BY <1>4, <2>1, <2>3 DEF Issuers
    <3> QED BY <2>1, <3>1 DEF Follows
  <2>7. x = p[L + 1]
    BY <1>5, <1>6, <2>5, <2>6, MinIs
  <2>8. Turn(certs, o) = Append(o, x)
    BY <1>1, <1>4, <1>6, <2>3, <2>5 DEF Turn
  <2>9. PICK r : r = Append(o, x)
    OBVIOUS
  <2>10. IsSeq(r) /\ Len(r) = L + 1 /\ r[L + 1] = x /\ \A i \in 1..L : r[i] = o[i]
    BY <1>1, <1>2, <2>9, AppendIs
  <2>11. \A i \in 1..(L + 1) : i \in 1..L \/ i = L + 1
    BY <1>2
  <2>12. \A i \in 1..(L + 1) : r[i] = p[i]
    BY <2>1, <2>7, <2>10, <2>11
  <2>13. \A i \in 1..Len(r) : r[i] \in Places(certs)
    BY <1>2, <2>4, <2>7, <2>10, <2>11
  <2>14. Len(r) >= 1 /\ Len(r) = (m + 1) + 1
    BY <1>2, <2>1, <2>10
  <2>15. (m + 1) + 1 >= n => Len(r) >= n
    BY <2>14
  <2>16. \A i \in 1..n : i <= (m + 1) + 1 => i \in 1..(L + 1)
    BY <1>3, <2>1
  <2>17. Along(certs, p, n, r, m + 1)
    BY <2>10, <2>12, <2>13, <2>14, <2>15, <2>16 DEF Along
  <2> QED BY <2>8, <2>9, <2>17
<1>9. CASE m + 1 >= n
  <2>1. L >= n /\ \A i \in 1..n : o[i] = p[i]
    <3>1. \A i \in 1..n : i <= m + 1
      BY <1>3, <1>9
    <3> QED BY <1>1, <1>9, <3>1 DEF Along
  <2>2. ~ (m + 1 < n)
    BY <1>3, <1>9
  <2>3. CASE Turn(certs, o) = o
    <3>1. Along(certs, p, n, o, m + 1)
      BY <1>1, <1>2, <2>1, <2>2 DEF Along
    <3> QED BY <2>3, <3>1
  <2>4. CASE Turn(certs, o) # o
    <3>1. Turn(certs, o) = Append(o, x) /\ S # {}
      BY <1>1, <1>4, <1>6, <2>4 DEF Turn
    <3>2. PICK r : r = Append(o, x)
      OBVIOUS
    <3>3. IsSeq(r) /\ Len(r) = L + 1 /\ r[L + 1] = x /\ \A i \in 1..L : r[i] = o[i]
      BY <1>1, <1>2, <3>2, AppendIs
    <3>4. (\A i \in 1..(L + 1) : i \in 1..L \/ i = L + 1) /\ \A i \in 1..n : i \in 1..L
      BY <1>2, <1>3, <2>1
    <3>5. \A i \in 1..Len(r) : r[i] \in Places(certs)
      BY <1>2, <1>7, <3>1, <3>3, <3>4
    <3>6. \A i \in 1..n : r[i] = p[i]
      BY <2>1, <3>3, <3>4
    <3>7. Len(r) >= 1 /\ Len(r) >= n
      BY <1>2, <1>3, <2>1, <3>3
    <3>8. Along(certs, p, n, r, m + 1)
      BY <2>2, <3>3, <3>5, <3>6, <3>7 DEF Along
    <3> QED BY <3>1, <3>2, <3>8
  <2> QED BY <2>3, <2>4
<1>10. m + 1 < n \/ m + 1 >= n
  BY <1>3
<1> QED BY <1>8, <1>9, <1>10

(* After all turns the order begins with p.                                *)
LEMMA OrderAlong ==
    ASSUME NEW certs, NEW p, NEW n, Follows(certs, p, n)
    PROVE  /\ IsSeq(OrderAfter(certs)) /\ Len(OrderAfter(certs)) >= n
           /\ \A i \in 1..Len(OrderAfter(certs)) : OrderAfter(certs)[i] \in Places(certs)
           /\ \A i \in 1..n : OrderAfter(certs)[i] = p[i]
<1>1. PICK N : N = Len(certs)
  OBVIOUS
<1>2. N \in Nat /\ n \in 1..N /\ 1 \in Places(certs) /\ p[1] = 1
  BY <1>1 DEF Follows, Places
<1>3. PICK f : /\ f = [k \in 0..N |-> IF k = 0 THEN <<1>> ELSE Turn(certs, f[k - 1])]
               /\ OrderAfter(certs) = f[N]
  BY <1>1, <1>2, OrderTurns
<1>4. f[0] = <<1>> /\ \A k \in 0..N : k # 0 => f[k] = Turn(certs, f[k - 1])
  <2>1. 0 \in 0..N
    BY <1>2
  <2> QED BY <1>3, <2>1
<1> DEFINE Off == {k \in Nat : k <= N /\ ~ Along(certs, p, n, f[k], k)}
<1>5. Off = {}
  <2> SUFFICES ASSUME Off # {} PROVE FALSE
    OBVIOUS
  <2>1. PICK k \in Off : \A j \in Off : k <= j
    BY LeastNatural
  <2>2. Along(certs, p, n, <<1>>, 0)
    <3>1. IsSeq(<<1>>) /\ Len(<<1>>) = 1 /\ <<1>>[1] = 1
      BY ShortSeq
    <3>2. (\A i \in 1..1 : i = 1) /\ (\A i \in 1..n : i <= 0 + 1 => i = 1)
          /\ (0 < n => 1 = 0 + 1) /\ (0 + 1 >= n => 1 >= n) /\ 1 >= 1
      BY <1>2
    <3> QED BY <1>2, <3>1, <3>2 DEF Along
  <2>3. k # 0 /\ k \in Nat /\ k <= N
    BY <1>4, <2>1, <2>2
  <2>4. k - 1 \in Nat /\ k - 1 <= N /\ ~ (k <= k - 1) /\ (k - 1) + 1 = k /\ k \in 0..N
    BY <1>2, <2>3
  <2>5. k - 1 \notin Off
    BY <2>1, <2>4
  <2>6. Along(certs, p, n, f[k - 1], k - 1)
    BY <2>4, <2>5
  <2>7. Along(certs, p, n, Turn(certs, f[k - 1]), (k - 1) + 1)
    BY <2>4, <2>6, TurnAlong
  <2>8. Along(certs, p, n, f[k], k)
    BY <1>4, <2>3, <2>4, <2>7
  <2> QED BY <2>1, <2>8
<1>6. Along(certs, p, n, OrderAfter(certs), N)
  <2>1. N <= N
    BY <1>2
  <2> QED BY <1>2, <1>3, <1>5, <2>1
<1>7. N + 1 >= n /\ \A i \in 1..n : i <= N + 1
  BY <1>2
<1> QED BY <1>6, <1>7 DEF Along

LEMMA OrderedAccepted ==
    ASSUME NEW certs, NEW p, NEW n, Follows(certs, p, n), certs[p[n]].issuer \in Anchor, Ordered(certs)
    PROVE  Accepts(Feed(certs))
<1>1. PICK o : o = OrderAfter(certs)
  OBVIOUS
<1>2. IsSeq(o) /\ Len(o) >= n /\ Len(o) \in Nat /\ \A i \in 1..n : o[i] = p[i]
  BY <1>1, OrderAlong, AppendIs
<1>3. n \in Nat /\ n >= 1 /\ n \in 1..Len(o) /\ \A i \in 1..n : i \in 1..Len(o)
  BY <1>2 DEF Follows
<1>4. PICK g : g = [i \in 1..Len(o) |-> certs[o[i]]]
  OBVIOUS
<1>5. Feed(certs) = g
  BY <1>1, <1>4 DEF Feed
<1>6. \A i \in 1..n : g[i] = certs[p[i]]
  BY <1>2, <1>3, <1>4
<1>7. Len(g) = Len(o)
  BY <1>2, <1>4
<1>8. \A i \in 1..(n - 1) : i \in 1..n /\ i + 1 \in 1..n
  BY <1>3
<1>9. \A i \in 1..n : g[i].readable
  BY <1>6 DEF Follows
<1>a. \A i \in 1..(n - 1) : g[i + 1].subject = g[i].issuer
  BY <1>6, <1>8 DEF Follows
<1>b. n \in 1..n
  BY <1>3
<1>c. g[n].issuer \in Anchor
  BY <1>6, <1>b
<1> QED BY <1>3, <1>5, <1>7, <1>9, <1>a, <1>c DEF Accepts, LinksTo

(* A list that is accepted as it is: the search takes the places in turn.  *)
LEMMA AcceptedStays ==
    ASSUME NEW certs, Len(certs) \in Nat, Accepts(certs)
    PROVE  Accepts(Feed(certs))
<1>1. PICK n \in 1..Len(certs) : LinksTo(certs, n) /\ certs[n].issuer \in Anchor
  BY DEF Accepts
<1>2. PICK p : p = [i \in 1..n |-> i]
  OBVIOUS
<1>3. n \in 1..n /\ 1 \in 1..n /\ \A i \in 1..n : p[i] = i /\ i \in Places(certs)
  BY <1>1, <1>2 DEF Places
<1>4. \A i \in 1..(n - 1) : i \in 1..n /\ i + 1 \in 1..n
  BY <1>1
<1>5. ASSUME NEW i \in 1..(n - 1), NEW j \in Places(certs), \A k \in 1..i : j # p[k]
      PROVE  p[i + 1] <= j
  <2>1. \A k \in 1..i : j # k
    <3> TAKE k \in 1..i
    <3>1. k \in 1..n
      BY <1>1
    <3> QED BY <1>3, <1>5, <3>1
  <2>2. j \in Nat /\ j >= 1 /\ i \in Nat
    BY <1>1 DEF Places
  <2>3. i + 1 <= j
    <3> SUFFICES ASSUME j <= i PROVE FALSE
      BY <2>2
    <3>1. j \in 1..i
      BY <2>2
    <3> QED BY <2>1, <3>1
  <2> QED BY <1>3, <1>4, <2>3
<1>6. p \in [1..n -> Places(certs)]
  BY <1>2, <1>3
<1>7. /\ \A i \in 1..n : certs[p[i]].readable
      /\ \A i \in 1..(n - 1) : certs[p[i + 1]].subject = certs[p[i]].issuer
  BY <1>1, <1>3, <1>4 DEF LinksTo
<1>8. Follows(certs, p, n)
  BY <1>1, <1>3, <1>5, <1>6, <1>7 DEF Follows
<1>9. certs[p[n]].issuer \in Anchor
  BY <1>1, <1>3
<1>10. CASE Ordered(certs)
  BY <1>8, <1>9, <1>10, OrderedAccepted
<1>11. CASE ~ Ordered(certs)
  BY <1>11 DEF Feed
<1> QED BY <1>10, <1>11

(* A list without two of one subject: the search has no choice.            *)
LEMMA PathFound ==
    ASSUME NEW certs, Len(certs) \in Nat, Unambiguous(certs), Trusted(certs)
    PROVE  Accepts(Feed(certs))
<1>1. PICK n \in 1..Len(certs) : Path(certs, n) # {}
  BY DEF Trusted
<1>2. PICK p \in [1..n -> Places(certs)] :
        /\ p[1] = 1 /\ \A i, j \in 1..n : p[i] = p[j] => i = j
        /\ LinksTo([i \in 1..n |-> certs[p[i]]], n) /\ certs[p[n]].issuer \in Anchor
  BY <1>1 DEF Path
<1>3. \A i \in 1..(n - 1) : i \in 1..n /\ i + 1 \in 1..n
  BY <1>1
<1>4. /\ \A i \in 1..n : certs[p[i]].readable
      /\ \A i \in 1..(n - 1) : certs[p[i + 1]].subject = certs[p[i]].issuer
  <2>1. PICK g : g = [i \in 1..n |-> certs[p[i]]]
    OBVIOUS
  <2>2. \A i \in 1..n : g[i] = certs[p[i]]
    BY <2>1
  <2>3. LinksTo(g, n)
    BY <1>2, <2>1
  <2> QED BY <1>3, <2>2, <2>3 DEF LinksTo
<1>5. ASSUME NEW i \in 1..(n - 1), NEW j \in Places(certs), certs[j].subject = certs[p[i]].issuer
      PROVE  p[i + 1] <= j
  <2>1. p[i + 1] \in Places(certs) /\ certs[j].subject = certs[p[i + 1]].subject
    BY <1>2, <1>3, <1>4, <1>5
  <2>2. j = p[i + 1]
    BY <2>1 DEF Unambiguous
  <2>3. j \in Nat
    BY DEF Places
  <2> QED BY <2>2, <2>3
<1>6. Follows(certs, p, n)
  BY <1>1, <1>2, <1>4, <1>5 DEF Follows
<1>7. CASE Ordered(certs)
  BY <1>2, <1>6, <1>7, OrderedAccepted
<1>8. CASE ~ Ordered(certs)
  <2>1. PICK o : o = OrderAfter(certs)
    OBVIOUS
  <2>2. /\ Len(o) >= n /\ Len(o) \in Nat /\ \A i \in 1..Len(o) : o[i] \in Places(certs)
    BY <1>6, <2>1, OrderAlong, AppendIs
  <2>3. n \in Nat /\ n >= 1
    BY <1>1
  <2>4. Len(o) \in 1..Len(o)
    BY <2>2, <2>3
  <2>5. certs[o[Len(o)]].readable
    BY <2>2, <2>4 DEF Unambiguous
  <2>6. Len(o) = 1
    BY <1>8, <2>1, <2>5 DEF Ordered
  <2>7. n = 1 /\ 1 \in 1..n /\ 1 \in 1..Len(certs) /\ (\A i \in 1..1 : i = 1) /\ 1..(1 - 1) = {}
    BY <1>1, <2>2, <2>3, <2>6
  <2>8. certs[1].readable /\ certs[1].issuer \in Anchor
    BY <1>2, <1>4, <2>7
  <2>9. LinksTo(certs, 1)
    BY <2>7, <2>8 DEF LinksTo
  <2> QED BY <1>8, <2>7, <2>8, <2>9 DEF Accepts, Feed
<1> QED BY <1>7, <1>8

FedIsOrdered == sent \in Seq(Cert) /\ (fed # <<>> => fed = Feed(Collected))

LEMMA CollectedIs ==
    ASSUME FedIsOrdered
    PROVE  Len(Collected) \in Nat
<1>1. Len(sent) \in Nat /\ MaxChain \in Nat
  BY ChainAssumption DEF FedIsOrdered, ChainAssumption
<1>2. PICK L, m : L = Len(sent) /\ m = Min({Len(sent), MaxChain})
  OBVIOUS
<1>3. m \in {L, MaxChain} /\ {L, MaxChain} \subseteq Nat
  BY <1>1, <1>2, MinIn
<1>4. m <= L /\ m \in Nat
  <2>1. CASE L <= MaxChain
    <3>1. \A y \in {L, MaxChain} : L <= y
      BY <1>1, <1>2, <2>1
    <3> QED BY <1>1, <1>2, <1>3, <3>1, MinIs
  <2>2. CASE ~ (L <= MaxChain)
    BY <1>1, <1>2, <1>3, <2>2
  <2> QED BY <2>1, <2>2
<1>5. SubSeq(sent, 1, m) \in Seq(Cert)
  <2>1. sent \in Seq(Cert) /\ m \in Nat /\ m <= Len(sent) /\ Len(sent) \in Nat
    BY <1>1, <1>2, <1>4 DEF FedIsOrdered
  <2>2. \A i \in 1..m : sent[i] \in Cert
    BY <2>1
  <2> QED BY <2>1, <2>2
<1>6. Len(SubSeq(sent, 1, m)) \in Nat
  BY <1>5
<1> QED BY <1>2, <1>6 DEF Collected

(* The list the validator is fed is accepted whenever the list as it came  *)
(* is, or any order of one in which no two share a subject.                *)
THEOREM ChainAccepted == ChainSpec => []OrderAccepted
<1>1. ChainInit => FedIsOrdered
  BY ChainAssumption DEF ChainAssumption, ChainInit, FedIsOrdered
<1>2. FedIsOrdered /\ [ChainNext]_chainVars => FedIsOrdered'
  <2> SUFFICES ASSUME FedIsOrdered, [ChainNext]_chainVars PROVE FedIsOrdered'
    OBVIOUS
  <2>1. Collected' = Collected /\ sent' = sent
    BY DEF ChainNext, RecvCertificate, chainVars, Collected
  <2> QED BY <2>1 DEF ChainNext, RecvCertificate, chainVars, FedIsOrdered
<1>3. FedIsOrdered => OrderAccepted
  BY CollectedIs, AcceptedStays, PathFound DEF FedIsOrdered, OrderAccepted
<1> QED BY <1>1, <1>2, <1>3, PTL DEF ChainSpec

-------------------------------------------------------------------------------
(* The cache of sessions (SessionCache).                                   *)

SessEntry == [key : SessKey, session : Nat]

(* How many keys have been shifted out.                                    *)
Gone == Len(arrivals) - Len(sessCache)

SessTypeOK ==
    /\ sessCache \in Seq(SessEntry) /\ stored \in Seq(SessKey) /\ arrivals \in Seq(SessKey)

(* One entry for each key.                                                 *)
OneEntryPerKey ==
    \A i, j \in DOMAIN sessCache : sessCache[i].key = sessCache[j].key => i = j

(* An entry's session is of the last handshake with its key.               *)
IsLatest(s, n, key) == /\ n \in DOMAIN s /\ s[n] = key
                       /\ \A k \in DOMAIN s : s[k] = key => k <= n
EntriesLatest ==
    \A i \in DOMAIN sessCache : IsLatest(stored, sessCache[i].session, sessCache[i].key)

(* The entries are the last SessMax arrivals, in order.                    *)
CacheIsWindow ==
    /\ Len(sessCache) = IF Len(arrivals) < SessMax THEN Len(arrivals) ELSE SessMax
    /\ \A i \in DOMAIN sessCache : sessCache[i].key = arrivals[Gone + i]

SessInv == SessTypeOK /\ OneEntryPerKey /\ EntriesLatest /\ CacheIsWindow

LEMMA SessInitInv == SessInit => SessInv
BY SessAssumption DEF SessAssumption, SessInit, SessInv, SessTypeOK, OneEntryPerKey, EntriesLatest,
   CacheIsWindow, Gone, IsLatest

(* A handshake more: the session of its key is the new one, that of the    *)
(* others is what it was.                                                  *)
LEMMA LatestNext ==
    ASSUME NEW s \in Seq(SessKey), NEW key \in SessKey
    PROVE  /\ Append(s, key) \in Seq(SessKey) /\ Len(s) + 1 \in Nat
           /\ IsLatest(Append(s, key), Len(s) + 1, key)
           /\ \A n, k : k # key /\ IsLatest(s, n, k) => IsLatest(Append(s, key), n, k)
<1> DEFINE r == Append(s, key)
<1>1. /\ Len(s) \in Nat /\ DOMAIN s = 1..Len(s)
      /\ r \in Seq(SessKey) /\ DOMAIN r = 1..(Len(s) + 1)
      /\ r[Len(s) + 1] = key
      /\ \A i \in 1..Len(s) : r[i] = s[i]
  OBVIOUS
<1> HIDE DEF r
<1>2. IsLatest(r, Len(s) + 1, key)
  BY <1>1 DEF IsLatest
<1>3. ASSUME NEW n, NEW k, k # key, IsLatest(s, n, k) PROVE IsLatest(r, n, k)
  BY <1>1, <1>3 DEF IsLatest
<1> QED BY <1>1, <1>2, <1>3 DEF r

LEMMA RenewInv ==
    ASSUME SessInv, NEW key \in SessKey, RenewSession(key), stored' = Append(stored, key)
    PROVE  SessInv'
<1>1. PICK i \in SessFound(key) : sessCache' = [sessCache EXCEPT ![i].session = Len(stored) + 1]
  BY DEF RenewSession
<1>2. PICK n : n = Len(stored) + 1
  OBVIOUS
<1>3. SessTypeOK /\ OneEntryPerKey /\ EntriesLatest /\ CacheIsWindow
  BY DEF SessInv
<1>4. stored' \in Seq(SessKey) /\ n \in Nat /\ IsLatest(stored', n, key)
      /\ \A m, k : k # key /\ IsLatest(stored, m, k) => IsLatest(stored', m, k)
  BY <1>2, <1>3, LatestNext DEF SessTypeOK
<1>5. i \in DOMAIN sessCache /\ sessCache[i].key = key /\ sessCache \in Seq(SessEntry)
  BY <1>3 DEF SessFound, SessTypeOK
<1>6. /\ sessCache' \in Seq(SessEntry) /\ Len(sessCache') = Len(sessCache)
      /\ DOMAIN sessCache' = DOMAIN sessCache
      /\ sessCache'[i].session = n
      /\ \A j \in DOMAIN sessCache : sessCache'[j].key = sessCache[j].key
      /\ \A j \in DOMAIN sessCache : j # i => sessCache'[j] = sessCache[j]
  <2>1. PICK e : e = [sessCache[i] EXCEPT !.session = n]
    OBVIOUS
  <2>2. sessCache[i] \in SessEntry
    BY <1>5
  <2>3. e \in SessEntry /\ e.session = n /\ e.key = sessCache[i].key
    BY <1>4, <2>1, <2>2 DEF SessEntry
  <2>4. sessCache' = [sessCache EXCEPT ![i] = e]
    BY <1>1, <1>2, <2>1
  <2> QED BY <1>5, <2>3, <2>4
<1>7. arrivals' = arrivals
  BY DEF RenewSession
<1>8. SessTypeOK'
  BY <1>3, <1>4, <1>6, <1>7 DEF SessTypeOK
<1>9. OneEntryPerKey'
  BY <1>3, <1>6 DEF OneEntryPerKey
<1>10. EntriesLatest'
  <2> SUFFICES ASSUME NEW j \in DOMAIN sessCache PROVE IsLatest(stored', sessCache'[j].session, sessCache'[j].key)
    BY <1>6 DEF EntriesLatest
  <2>1. CASE j = i
    BY <1>4, <1>5, <1>6, <2>1
  <2>2. CASE j # i
    <3>1. sessCache'[j] = sessCache[j] /\ sessCache[j].key # key
      BY <1>3, <1>5, <1>6, <2>2 DEF OneEntryPerKey
    <3>2. IsLatest(stored, sessCache[j].session, sessCache[j].key)
      BY <1>3 DEF EntriesLatest
    <3>3. PICK m, k : m = sessCache[j].session /\ k = sessCache[j].key
      OBVIOUS
    <3>4. IsLatest(stored', m, k)
      BY <1>4, <3>1, <3>2, <3>3
    <3> QED BY <3>1, <3>3, <3>4 DEF IsLatest
  <2> QED BY <2>1, <2>2
<1>11. CacheIsWindow'
  BY <1>3, <1>6, <1>7 DEF CacheIsWindow, Gone
<1> QED BY <1>8, <1>9, <1>10, <1>11 DEF SessInv

(* Making room shifts the first entry out, or nothing.                     *)
LEMMA EvictedIs ==
    ASSUME SessInv
    PROVE  \E d \in 0..1 :
             /\ Evicted \in Seq(SessEntry) /\ Len(Evicted) = Len(sessCache) - d
             /\ \A i \in 1..Len(Evicted) : Evicted[i] = sessCache[i + d]
             /\ d = (IF Len(sessCache) = SessMax THEN 1 ELSE 0)
<1>1. /\ sessCache \in Seq(SessEntry) /\ Len(sessCache) \in Nat /\ SessMax \in Nat \ {0}
      /\ Len(sessCache) <= SessMax
  <2>1. sessCache \in Seq(SessEntry) /\ arrivals \in Seq(SessKey) /\ SessMax \in Nat \ {0}
    BY SessAssumption DEF SessInv, SessTypeOK, SessAssumption
  <2>2. Len(sessCache) \in Nat /\ Len(arrivals) \in Nat
    BY <2>1
  <2> QED BY <2>1, <2>2 DEF SessInv, CacheIsWindow
<1>2. CASE Len(sessCache) = SessMax
  <2>1. Evicted = Tail(sessCache) /\ sessCache # <<>>
    BY <1>1, <1>2 DEF Evicted
  <2>2. Tail(sessCache) \in Seq(SessEntry) /\ Len(Tail(sessCache)) = Len(sessCache) - 1
        /\ \A i \in 1..Len(Tail(sessCache)) : Tail(sessCache)[i] = sessCache[i + 1]
    BY <1>1, <2>1
  <2> QED BY <1>2, <2>1, <2>2
<1>3. CASE Len(sessCache) # SessMax
  <2>1. Evicted = sessCache
    BY <1>1, <1>3 DEF Evicted
  <2> QED BY <1>1, <1>3, <2>1
<1> QED BY <1>2, <1>3

LEMMA StoreInv ==
    ASSUME SessInv, NEW key \in SessKey, StoreSession(key), stored' = Append(stored, key)
    PROVE  SessInv'
<1>1. PICK n : n = Len(stored) + 1
  OBVIOUS
<1>2. SessTypeOK /\ OneEntryPerKey /\ EntriesLatest /\ CacheIsWindow
  BY DEF SessInv
<1>3. stored' \in Seq(SessKey) /\ n \in Nat /\ IsLatest(stored', n, key)
      /\ \A m, k : k # key /\ IsLatest(stored, m, k) => IsLatest(stored', m, k)
  BY <1>1, <1>2, LatestNext DEF SessTypeOK
<1>4. PICK d \in 0..1 :
             /\ Evicted \in Seq(SessEntry) /\ Len(Evicted) = Len(sessCache) - d
             /\ \A i \in 1..Len(Evicted) : Evicted[i] = sessCache[i + d]
             /\ d = (IF Len(sessCache) = SessMax THEN 1 ELSE 0)
  BY EvictedIs
<1>5. PICK e : e = [key |-> key, session |-> n]
  OBVIOUS
<1>6. e \in SessEntry /\ e.key = key /\ e.session = n
  BY <1>3, <1>5 DEF SessEntry
<1>7. PICK K, L, A : K = Len(Evicted) /\ L = Len(sessCache) /\ A = Len(arrivals)
  OBVIOUS
<1>8. /\ L \in Nat /\ A \in Nat /\ K \in Nat /\ K = L - d /\ SessMax \in Nat \ {0}
      /\ L = IF A < SessMax THEN A ELSE SessMax
      /\ d = IF L = SessMax THEN 1 ELSE 0
      /\ \A i \in 1..L : sessCache[i].key = arrivals[A - L + i]
      /\ DOMAIN sessCache = 1..L
      /\ sessCache \in Seq(SessEntry) /\ arrivals \in Seq(SessKey)
  <2>1. sessCache \in Seq(SessEntry) /\ arrivals \in Seq(SessKey) /\ SessMax \in Nat \ {0}
    BY <1>2, SessAssumption DEF SessAssumption, SessTypeOK
  <2>2. L \in Nat /\ A \in Nat /\ DOMAIN sessCache = 1..L
    BY <1>7, <2>1
  <2>3. L = (IF A < SessMax THEN A ELSE SessMax) /\ \A i \in 1..L : sessCache[i].key = arrivals[A - L + i]
    BY <1>2, <1>7, <2>2 DEF CacheIsWindow, Gone
  <2>4. K = L - d /\ d = IF L = SessMax THEN 1 ELSE 0
    BY <1>4, <1>7
  <2>5. K \in Nat
    BY <2>1, <2>2, <2>3, <2>4
  <2> QED BY <2>1, <2>2, <2>3, <2>4, <2>5
<1>9. sessCache' = Append(Evicted, e) /\ arrivals' = Append(arrivals, key) /\ SessFound(key) = {}
  BY <1>1, <1>5 DEF StoreSession
<1>10. /\ sessCache' \in Seq(SessEntry) /\ Len(sessCache') = K + 1 /\ DOMAIN sessCache' = 1..(K + 1)
       /\ sessCache'[K + 1] = e
       /\ \A i \in 1..K : sessCache'[i] = Evicted[i]
  BY <1>4, <1>6, <1>7, <1>9
<1>11. \A i \in 1..K : sessCache'[i] = sessCache[i + d] /\ i + d \in 1..L
  <2> SUFFICES ASSUME NEW i \in 1..K PROVE sessCache'[i] = sessCache[i + d] /\ i + d \in 1..L
    OBVIOUS
  <2>1. Evicted[i] = sessCache[i + d]
    BY <1>4, <1>7
  <2>2. sessCache'[i] = Evicted[i]
    BY <1>10
  <2>3. i + d \in 1..L
    BY <1>4, <1>8
  <2> QED BY <2>1, <2>2, <2>3
<1>12. /\ arrivals' \in Seq(SessKey) /\ Len(arrivals') = A + 1 /\ arrivals'[A + 1] = key
       /\ \A i \in 1..A : arrivals'[i] = arrivals[i]
  BY <1>7, <1>8, <1>9
<1>13. \A i \in 1..L : sessCache[i].key # key
  BY <1>8, <1>9 DEF SessFound
<1>14. SessTypeOK'
  BY <1>3, <1>10, <1>12 DEF SessTypeOK
<1>15. OneEntryPerKey'
  <2> SUFFICES ASSUME NEW i \in 1..(K + 1), NEW j \in 1..(K + 1), sessCache'[i].key = sessCache'[j].key
               PROVE  i = j
    BY <1>10 DEF OneEntryPerKey
  <2>1. CASE i = K + 1 /\ j = K + 1
    BY <2>1
  <2>2. CASE i = K + 1 /\ j # K + 1
    <3>1. j \in 1..K
      BY <1>8, <2>2
    <3> QED BY <1>6, <1>10, <1>11, <1>13, <2>2, <3>1
  <2>3. CASE i # K + 1 /\ j = K + 1
    <3>1. i \in 1..K
      BY <1>8, <2>3
    <3> QED BY <1>6, <1>10, <1>11, <1>13, <2>3, <3>1
  <2>4. CASE i # K + 1 /\ j # K + 1
    <3>1. i \in 1..K /\ j \in 1..K
      BY <1>8, <2>4
    <3>2. i + d = j + d
      <4>1. /\ sessCache'[i] = sessCache[i + d] /\ i + d \in 1..L
            /\ sessCache'[j] = sessCache[j + d] /\ j + d \in 1..L
        BY <1>11, <3>1
      <4>2. sessCache[i + d].key = sessCache[j + d].key
        BY <4>1
      <4> QED BY <1>2, <1>8, <4>1, <4>2 DEF OneEntryPerKey
    <3> QED BY <1>4, <3>2
  <2> QED BY <2>1, <2>2, <2>3, <2>4
<1>16. EntriesLatest'
  <2> SUFFICES ASSUME NEW j \in 1..(K + 1) PROVE IsLatest(stored', sessCache'[j].session, sessCache'[j].key)
    BY <1>10 DEF EntriesLatest
  <2>1. CASE j = K + 1
    BY <1>3, <1>6, <1>10, <2>1
  <2>2. CASE j # K + 1
    <3>1. j \in 1..K
      BY <1>8, <2>2
    <3>2. PICK i \in 1..L : sessCache'[j] = sessCache[i]
      BY <1>11, <3>1
    <3>3. IsLatest(stored, sessCache[i].session, sessCache[i].key) /\ sessCache[i].key # key
      BY <1>2, <1>8, <1>13 DEF EntriesLatest
    <3>4. PICK m, k : m = sessCache[i].session /\ k = sessCache[i].key
      OBVIOUS
    <3>5. IsLatest(stored', m, k)
      BY <1>3, <3>3, <3>4
    <3> QED BY <3>2, <3>4, <3>5 DEF IsLatest
  <2> QED BY <2>1, <2>2
<1>17. CacheIsWindow'
  <2>1. K + 1 = IF A + 1 < SessMax THEN A + 1 ELSE SessMax
    BY <1>8
  <2>2. ASSUME NEW i \in 1..(K + 1) PROVE sessCache'[i].key = arrivals'[(A + 1) - (K + 1) + i]
    <3>1. CASE i = K + 1
      <4>1. (A + 1) - (K + 1) + i = A + 1
        BY <1>8, <3>1
      <4> QED BY <1>6, <1>10, <1>12, <3>1, <4>1
    <3>2. CASE i # K + 1
      <4>1. i \in 1..K
        BY <1>8, <3>2
      <4>2. /\ (A + 1) - (K + 1) + i = A - L + (i + d)
            /\ A - L + (i + d) \in 1..A
        BY <1>4, <1>8, <4>1
      <4>3. sessCache'[i].key = arrivals[A - L + (i + d)]
        BY <1>8, <1>11, <4>1
      <4> QED BY <1>12, <4>2, <4>3
    <3> QED BY <3>1, <3>2
  <2> QED BY <1>10, <1>12, <2>1, <2>2 DEF CacheIsWindow, Gone
<1> QED BY <1>14, <1>15, <1>16, <1>17 DEF SessInv

LEMMA SessNextInv == SessInv /\ [SessNext]_sessVars => SessInv'
<1> SUFFICES ASSUME SessInv, [SessNext]_sessVars PROVE SessInv'
  OBVIOUS
<1>1. ASSUME UNCHANGED <<sessCache, stored, arrivals>> PROVE SessInv'
  BY <1>1 DEF SessInv, SessTypeOK, OneEntryPerKey, EntriesLatest, IsLatest, CacheIsWindow, Gone
<1>2. CASE \E key \in SessKey : HandshakeEnds(key)
  BY <1>2, RenewInv, StoreInv DEF HandshakeEnds
<1>3. CASE \E key \in SessKey : OfferSession(key) \/ OfferNothing(key)
  BY <1>1, <1>3 DEF OfferSession, OfferNothing
<1>4. CASE UNCHANGED sessVars
  BY <1>1, <1>4 DEF sessVars
<1> QED BY <1>2, <1>3, <1>4 DEF SessNext

(* The session cache keeps its invariant: the entries are the last SessMax *)
(* arrivals, each with its key's last handshake (sess_cache_put).          *)
THEOREM SessInvariance == SessSpec => []SessInv
<1> QED BY SessInitInv, SessNextInv, PTL DEF SessSpec

(* What is found is recent and the latest.                                 *)
LEMMA FoundIs ==
    ASSUME SessInv, NEW key \in SessKey, NEW i \in SessFound(key)
    PROVE  Recent(key) /\ sessCache[i] = [key |-> key, session |-> Latest(key)]
<1>1. PICK L, A : L = Len(sessCache) /\ A = Len(arrivals)
  OBVIOUS
<1>2. /\ L \in Nat /\ A \in Nat /\ SessMax \in Nat \ {0} /\ i \in 1..L
      /\ L = IF A < SessMax THEN A ELSE SessMax
      /\ sessCache[i].key = arrivals[A - L + i] /\ sessCache[i].key = key
      /\ DOMAIN arrivals = 1..A /\ sessCache[i] \in SessEntry
      /\ IsLatest(stored, sessCache[i].session, key) /\ sessCache \in Seq(SessEntry)
  BY <1>1, SessAssumption
     DEF SessAssumption, SessInv, SessTypeOK, CacheIsWindow, Gone, SessFound, EntriesLatest
<1>3. A - L + i \in 1..A /\ A - L + i > A - SessMax
  BY <1>2
<1>4. Recent(key)
  BY <1>1, <1>2, <1>3 DEF Recent
<1>5. PICK n : n = sessCache[i].session
  OBVIOUS
<1>6. IsLatest(stored, n, key) /\ DOMAIN stored = 1..Len(stored) /\ Len(stored) \in Nat
  BY <1>2, <1>5 DEF SessInv, SessTypeOK
<1>7. \A m \in DOMAIN stored : IsLatest(stored, m, key) => m = n
  BY <1>6 DEF IsLatest
<1>8. Latest(key) = n
  BY <1>6, <1>7 DEF Latest, IsLatest
<1> QED BY <1>2, <1>4, <1>5, <1>8 DEF SessEntry

(* What is recent is found.                                                *)
LEMMA RecentFound ==
    ASSUME SessInv, NEW key \in SessKey, Recent(key)
    PROVE  SessFound(key) # {}
<1>1. PICK L, A : L = Len(sessCache) /\ A = Len(arrivals)
  OBVIOUS
<1>2. /\ L \in Nat /\ A \in Nat /\ SessMax \in Nat \ {0}
      /\ L = IF A < SessMax THEN A ELSE SessMax
      /\ \A i \in 1..L : sessCache[i].key = arrivals[A - L + i]
      /\ DOMAIN arrivals = 1..A /\ DOMAIN sessCache = 1..L
  <2>1. sessCache \in Seq(SessEntry) /\ arrivals \in Seq(SessKey) /\ SessMax \in Nat \ {0}
    BY SessAssumption DEF SessAssumption, SessInv, SessTypeOK
  <2>2. L \in Nat /\ A \in Nat /\ DOMAIN sessCache = 1..L /\ DOMAIN arrivals = 1..A
    BY <1>1, <2>1
  <2>3. L = (IF A < SessMax THEN A ELSE SessMax) /\ \A i \in 1..L : sessCache[i].key = arrivals[A - L + i]
    BY <1>1, <2>2 DEF SessInv, CacheIsWindow, Gone
  <2> QED BY <2>1, <2>2, <2>3
<1>3. PICK j \in 1..A : arrivals[j] = key /\ j > A - SessMax
  BY <1>1, <1>2 DEF Recent
<1>4. j - (A - L) \in 1..L /\ A - L + (j - (A - L)) = j
  BY <1>2, <1>3
<1> QED BY <1>2, <1>3, <1>4 DEF SessFound

(* A connection is offered the session of the last handshake with its host *)
(* and port, and none only if SessMax others have come in since.           *)
THEOREM LatestOffered == SessSpec => OffersLatest
<1> DEFINE Offered == \A key \in SessKey :
          /\ OfferSession(key) => Recent(key) /\ offered' = [key |-> key, session |-> Latest(key)]
          /\ OfferNothing(key) => ~ Recent(key)
<1>1. SessInv => Offered
  BY FoundIs, RecentFound DEF OfferSession, OfferNothing
<1>2. SessInv /\ [SessNext]_sessVars => [Offered]_sessVars
  BY <1>1
<1> QED BY <1>2, SessInvariance, PTL DEF SessSpec, OffersLatest, Offered

-------------------------------------------------------------------------------
(* The entropy pool (EntropyPool).                                         *)

(* What one process extracts comes from a pool that only grows.            *)

IsDraw(e) == /\ e.proc \in Nat /\ e.value = Extracted(e.use, e.value.of)
             /\ IsSeq(e.value.of)

(* Of n, the process that has pool p, and of those before it.              *)
PoolGrows(d, p, n) ==
    /\ IsSeq(d) /\ IsSeq(p) /\ n \in Nat
    /\ \A i \in DOMAIN d : IsDraw(d[i]) /\ d[i].proc <= n
    /\ \A i \in DOMAIN d : d[i].proc = n => Len(d[i].value.of) < Len(p)
    /\ \A i, j \in DOMAIN d :
         i < j /\ d[i].proc = d[j].proc => Len(d[i].value.of) < Len(d[j].value.of)

LEMMA GrowsOn ==
    ASSUME NEW d, NEW p, NEW q, NEW n, PoolGrows(d, p, n), IsSeq(q), Len(q) >= Len(p)
    PROVE  PoolGrows(d, q, n)
<1>1. Len(p) \in Nat /\ Len(q) \in Nat
  BY AppendIs DEF PoolGrows
<1>2. ASSUME NEW i \in DOMAIN d, d[i].proc = n PROVE Len(d[i].value.of) < Len(q)
  <2>1. Len(d[i].value.of) < Len(p) /\ Len(d[i].value.of) \in Nat
    BY <1>2, AppendIs DEF PoolGrows, IsDraw
  <2> QED BY <1>1, <2>1
<1> QED BY <1>2 DEF PoolGrows

DrawnBy(n, use, q, o) == [proc |-> n, use |-> use, value |-> Extracted(use, q), origin |-> o]

LEMMA DrawFields ==
    ASSUME NEW n, NEW use, NEW q, NEW o
    PROVE  LET e == DrawnBy(n, use, q, o) IN
           /\ e.proc = n /\ e.use = use /\ e.value = Extracted(use, q) /\ e.origin = o
           /\ e.value.tag = use /\ e.value.of = q
BY DEF DrawnBy, Extracted

LEMMA GrowsByDraw ==
    ASSUME NEW d, NEW q, NEW n, NEW use, NEW o, PoolGrows(d, q, n)
    PROVE  PoolGrows(Append(d, DrawnBy(n, use, q, o)), Folded(use, q), n)
<1>1. PICK e : e = DrawnBy(n, use, q, o)
  OBVIOUS
<1>2. PICK D : D = Append(d, e)
  OBVIOUS
<1>3. PICK r : r = Folded(use, q)
  OBVIOUS
<1>4. e.proc = n /\ e.value.of = q /\ e.use = use /\ e.value = Extracted(use, q)
  BY <1>1, DrawFields
<1>5. PICK L : L = Len(d)
  OBVIOUS
<1>6. /\ IsSeq(D) /\ L \in Nat /\ DOMAIN d = 1..L /\ DOMAIN D = 1..(L + 1) /\ D[L + 1] = e
      /\ \A i \in 1..L : D[i] = d[i]
  BY <1>2, <1>5, AppendIs DEF PoolGrows
<1>7. IsSeq(r) /\ Len(q) \in Nat /\ Len(r) = Len(q) + 1
  BY <1>3, AppendIs DEF PoolGrows, Folded
<1>8. n \in Nat /\ IsSeq(q)
  BY DEF PoolGrows
<1>9. \A i \in 1..L : /\ IsDraw(d[i]) /\ d[i].proc <= n /\ Len(d[i].value.of) \in Nat
                      /\ d[i].proc = n => Len(d[i].value.of) < Len(q)
  BY <1>6, AppendIs DEF PoolGrows, IsDraw
<1>10. \A i \in 1..(L + 1) : i = L + 1 \/ i \in 1..L
  BY <1>6
<1>11. IsDraw(e)
  BY <1>4, <1>8 DEF IsDraw
<1>12. \A i \in DOMAIN D : IsDraw(D[i]) /\ D[i].proc <= n
  <2>1. n <= n
    BY <1>8
  <2> QED BY <1>4, <1>6, <1>9, <1>10, <1>11, <2>1
<1>13. ASSUME NEW i \in DOMAIN D, D[i].proc = n PROVE Len(D[i].value.of) < Len(r)
  <2>1. CASE i = L + 1
    BY <1>4, <1>6, <1>7, <2>1
  <2>2. CASE i \in 1..L
    <3>1. Len(d[i].value.of) < Len(q) /\ Len(d[i].value.of) \in Nat /\ D[i] = d[i]
      BY <1>6, <1>9, <1>13, <2>2
    <3> QED BY <1>7, <3>1
  <2> QED BY <1>6, <1>10, <2>1, <2>2
<1>14. ASSUME NEW i \in DOMAIN D, NEW j \in DOMAIN D, i < j, D[i].proc = D[j].proc
       PROVE  Len(D[i].value.of) < Len(D[j].value.of)
  <2>1. i \in 1..L
    BY <1>6, <1>14
  <2>2. D[i] = d[i]
    BY <1>6, <2>1
  <2>3. CASE j = L + 1
    <3>1. D[j].value.of = q /\ D[j].proc = n
      BY <1>4, <1>6, <2>3
    <3> QED BY <1>9, <1>14, <2>1, <2>2, <3>1
  <2>4. CASE j \in 1..L
    <3>1. D[j] = d[j]
      BY <1>6, <2>4
    <3>2. i \in DOMAIN d /\ j \in DOMAIN d /\ d[i].proc = d[j].proc
      BY <1>6, <1>14, <2>1, <2>2, <2>4, <3>1
    <3>3. Len(d[i].value.of) < Len(d[j].value.of)
      BY <1>14, <3>2 DEF PoolGrows
    <3> QED BY <2>2, <3>1, <3>3
  <2> QED BY <1>6, <1>10, <2>3, <2>4
<1>15. PoolGrows(D, r, n)
  BY <1>6, <1>7, <1>8, <1>12, <1>13, <1>14 DEF PoolGrows
<1> QED BY <1>1, <1>2, <1>3, <1>15

-------------------------------------------------------------------------------
(* From one process to the next: w names the extraction behind each        *)
(* completed save.                                                         *)

(* A pool begun after o saves holds the seed of the last of them first,    *)
(* or a sample or a foreign seed when there was none.                      *)
Begun(w, d, o, s) ==
    /\ s # <<>>
    /\ o = 0 => s[1].of = <<>>
    /\ o # 0 => s[1] = d[w[o]].value

Carried(w, d, p, o, n, S) ==
    /\ S \in Nat /\ w \in [1..S -> DOMAIN d]
    /\ \A k \in 1..S : d[w[k]].use = "file" /\ d[w[k]].origin < k
    /\ \A k, l \in 1..S : k # l => d[w[k]].value # d[w[l]].value
    /\ \A i \in DOMAIN d : d[i].origin \in 0..S /\ Begun(w, d, d[i].origin, d[i].value.of)
    /\ p # <<>> => /\ o \in 0..S /\ Begun(w, d, o, p)
                   /\ \A k \in 1..S : k > o => d[w[k]].proc = n

(* Bytes from pools begun after different saves differ: their first items  *)
(* do.                                                                     *)
LEMMA OriginsTell ==
    ASSUME NEW w, NEW d, NEW p, NEW o, NEW n, NEW S, Carried(w, d, p, o, n, S),
           NEW i \in DOMAIN d, NEW j \in DOMAIN d, d[i].origin # d[j].origin
    PROVE  d[i].value # d[j].value
<1> SUFFICES ASSUME d[i].value = d[j].value PROVE FALSE
  OBVIOUS
<1>1. PICK a, b : a = d[i].origin /\ b = d[j].origin
  OBVIOUS
<1>2. PICK f, g : f = d[i].value.of[1] /\ g = d[j].value.of[1]
  OBVIOUS
<1>3. f = g
  BY <1>2
<1>4. a \in 0..S /\ b \in 0..S /\ S \in Nat /\ a # b
  BY <1>1 DEF Carried
<1>5. /\ a = 0 => f.of = <<>>
      /\ a # 0 => f = d[w[a]].value
      /\ b = 0 => g.of = <<>>
      /\ b # 0 => g = d[w[b]].value
  BY <1>1, <1>2 DEF Carried, Begun
<1>6. \A k \in 1..S : d[w[k]].value.of # <<>>
  <2> TAKE k \in 1..S
  <2>1. w[k] \in DOMAIN d
    BY DEF Carried
  <2> QED BY <2>1 DEF Carried, Begun
<1>7. CASE a = 0
  <2>1. b \in 1..S /\ b # 0
    BY <1>4, <1>7
  <2> QED BY <1>3, <1>5, <1>6, <1>7, <2>1
<1>8. CASE b = 0
  <2>1. a \in 1..S /\ a # 0
    BY <1>4, <1>8
  <2> QED BY <1>3, <1>5, <1>6, <1>8, <2>1
<1>9. CASE a # 0 /\ b # 0
  <2>1. a \in 1..S /\ b \in 1..S
    BY <1>4, <1>9
  <2>2. d[w[a]].value # d[w[b]].value
    BY <1>4, <2>1 DEF Carried
  <2> QED BY <1>3, <1>5, <1>9, <2>2
<1> QED BY <1>7, <1>8, <1>9

(* What a pool absorbs later does not change how it began.                 *)
LEMMA CarriedOn ==
    ASSUME NEW w, NEW d, NEW p, NEW o, NEW n, NEW S, Carried(w, d, p, o, n, S),
           IsSeq(p), p # <<>>, NEW x
    PROVE  Carried(w, d, Append(p, x), o, n, S)
<1>1. Append(p, x)[1] = p[1] /\ Append(p, x) # <<>>
  BY AppendIs
<1> QED BY <1>1 DEF Carried, Begun

(* A pool begins.                                                          *)
LEMMA CarriedIn ==
    ASSUME NEW w, NEW d, NEW p, NEW o, NEW n, NEW S, Carried(w, d, p, o, n, S),
           NEW q, Begun(w, d, S, q), NEW m
    PROVE  Carried(w, d, q, S, m, S)
<1>1. S \in 0..S /\ \A k \in 1..S : ~ (k > S)
  BY DEF Carried
<1> QED BY <1>1 DEF Carried

(* An extraction.                                                          *)
LEMMA CarriedByDraw ==
    ASSUME NEW w, NEW d, NEW q, NEW o, NEW n, NEW S, Carried(w, d, q, o, n, S),
           IsSeq(d), IsSeq(q), q # <<>>, NEW use
    PROVE  Carried(w, Append(d, DrawnBy(n, use, q, o)), Folded(use, q), o, n, S)
<1>1. PICK e : e = DrawnBy(n, use, q, o)
  OBVIOUS
<1>2. PICK D : D = Append(d, e)
  OBVIOUS
<1>3. PICK r : r = Folded(use, q)
  OBVIOUS
<1>4. e.value.of = q /\ e.origin = o
  BY <1>1, DrawFields
<1>5. PICK L : L = Len(d)
  OBVIOUS
<1>6. /\ L \in Nat /\ DOMAIN d = 1..L /\ DOMAIN D = 1..(L + 1) /\ D[L + 1] = e
      /\ \A i \in 1..L : D[i] = d[i]
  BY <1>2, <1>5, AppendIs
<1>7. \A i \in DOMAIN d : D[i] = d[i] /\ i \in DOMAIN D
  BY <1>6
<1>8. \A i \in DOMAIN D : i = L + 1 \/ i \in DOMAIN d
  BY <1>6
<1>9. \A k \in 1..S : w[k] \in DOMAIN d /\ D[w[k]] = d[w[k]]
  BY <1>7 DEF Carried
<1>10. \A a, s : a \in 0..S /\ Begun(w, d, a, s) => Begun(w, D, a, s)
  <2> SUFFICES ASSUME NEW a \in 0..S, NEW s, Begun(w, d, a, s), a # 0 PROVE s[1] = D[w[a]].value
    BY DEF Begun
  <2>1. a \in 1..S
    BY DEF Carried
  <2> QED BY <1>9, <2>1 DEF Begun
<1>11. r[1] = q[1] /\ r # <<>>
  BY <1>3, AppendIs DEF Folded
<1>12. o \in 0..S /\ Begun(w, d, o, q) /\ \A k \in 1..S : k > o => d[w[k]].proc = n
  BY DEF Carried
<1>13. Begun(w, D, o, q) /\ Begun(w, D, o, r)
  BY <1>10, <1>11, <1>12 DEF Begun
<1>14. S \in Nat /\ w \in [1..S -> DOMAIN D]
  BY <1>7 DEF Carried
<1>15. /\ \A k \in 1..S : D[w[k]].use = "file" /\ D[w[k]].origin < k
       /\ \A k, l \in 1..S : k # l => D[w[k]].value # D[w[l]].value
  BY <1>9 DEF Carried
<1>16. ASSUME NEW i \in DOMAIN D
       PROVE  D[i].origin \in 0..S /\ Begun(w, D, D[i].origin, D[i].value.of)
  <2>1. CASE i = L + 1
    BY <1>4, <1>6, <1>12, <1>13, <2>1
  <2>2. CASE i \in DOMAIN d
    BY <1>7, <1>10, <2>2 DEF Carried
  <2> QED BY <1>8, <2>1, <2>2
<1>17. \A k \in 1..S : k > o => D[w[k]].proc = n
  BY <1>9, <1>12
<1>18. Carried(w, D, r, o, n, S)
  BY <1>12, <1>13, <1>14, <1>15, <1>16, <1>17 DEF Carried
<1> QED BY <1>1, <1>2, <1>3, <1>18

(* The extraction m is behind a save that is not completed yet.            *)
Pending(w, d, m, o, n, S) ==
    /\ m \in DOMAIN d
    /\ d[m].use = "file" /\ d[m].proc = n /\ d[m].origin = o
    /\ \A k \in 1..S : w[k] < m

LEMMA CarriedOver ==
    ASSUME NEW w, NEW d, NEW p, NEW o, NEW n, NEW S, NEW m,
           Carried(w, d, p, o, n, S), PoolGrows(d, p, n), Pending(w, d, m, o, n, S), p # <<>>,
           NEW v, v = [k \in 1..(S + 1) |-> IF k = S + 1 THEN m ELSE w[k]]
    PROVE  Carried(v, d, p, o, n, S + 1) /\ v[S + 1] = m
<1>1. /\ S \in Nat /\ w \in [1..S -> DOMAIN d] /\ m \in DOMAIN d
      /\ o \in 0..S /\ S + 1 \in Nat
  BY DEF Carried, Pending
<1>2. v[S + 1] = m /\ \A k \in 1..S : v[k] = w[k]
  BY <1>1
<1>3. \A k \in 1..(S + 1) : k = S + 1 \/ k \in 1..S
  BY <1>1
<1>4. v \in [1..(S + 1) -> DOMAIN d]
  BY <1>1, <1>3
<1>5. \A k \in 1..(S + 1) : d[v[k]].use = "file" /\ d[v[k]].origin < k
  <2>1. d[m].origin < S + 1
    BY <1>1 DEF Pending
  <2> QED BY <1>2, <1>3, <2>1 DEF Carried, Pending
<1>6. \A k \in 1..S : d[w[k]].value # d[m].value
  <2> TAKE k \in 1..S
  <2>1. w[k] \in DOMAIN d /\ w[k] < m
    BY <1>1 DEF Pending
  <2>2. CASE k > o
    <3>1. d[w[k]].proc = d[m].proc
      BY <1>1, <2>2 DEF Carried, Pending
    <3>2. Len(d[w[k]].value.of) < Len(d[m].value.of)
      BY <1>1, <2>1, <3>1 DEF PoolGrows
    <3>3. Len(d[w[k]].value.of) \in Nat
      BY <2>1, AppendIs DEF PoolGrows, IsDraw
    <3>4. PICK a, b : a = Len(d[w[k]].value.of) /\ b = Len(d[m].value.of)
      OBVIOUS
    <3>5. a # b
      BY <3>2, <3>3, <3>4
    <3> QED BY <3>4, <3>5
  <2>3. CASE ~ (k > o)
    <3>1. d[w[k]].origin < k /\ d[w[k]].origin \in 0..S
      BY <2>1 DEF Carried
    <3>2. d[w[k]].origin # d[m].origin
      BY <1>1, <2>3, <3>1 DEF Pending
    <3> QED BY <1>1, <2>1, <3>2, OriginsTell
  <2> QED BY <2>2, <2>3
<1>7. \A k, l \in 1..(S + 1) : k # l => d[v[k]].value # d[v[l]].value
  BY <1>2, <1>3, <1>6 DEF Carried
<1>8. \A a, s : a \in 0..S /\ Begun(w, d, a, s) => Begun(v, d, a, s)
  <2> SUFFICES ASSUME NEW a \in 0..S, NEW s, Begun(w, d, a, s), a # 0 PROVE s[1] = d[v[a]].value
    BY DEF Begun
  <2>1. a \in 1..S
    BY <1>1
  <2> QED BY <1>2, <2>1 DEF Begun
<1>9. \A i \in DOMAIN d : d[i].origin \in 0..(S + 1) /\ Begun(v, d, d[i].origin, d[i].value.of)
  <2> TAKE i \in DOMAIN d
  <2>1. d[i].origin \in 0..S /\ Begun(w, d, d[i].origin, d[i].value.of)
    BY DEF Carried
  <2>2. d[i].origin \in 0..(S + 1)
    BY <1>1, <2>1
  <2> QED BY <1>8, <2>1, <2>2
<1>10. o \in 0..(S + 1) /\ Begun(v, d, o, p)
  BY <1>1, <1>8 DEF Carried
<1>11. \A k \in 1..(S + 1) : k > o => d[v[k]].proc = n
  BY <1>2, <1>3 DEF Carried, Pending
<1> QED BY <1>1, <1>2, <1>4, <1>5, <1>7, <1>9, <1>10, <1>11 DEF Carried

-------------------------------------------------------------------------------
(* The inductive invariant.                                                *)

(* The process that has the pool, or will have it next.                    *)
Current == IF up THEN proc ELSE proc + 1

(* OSTLS_SaveSeed has extracted the seed and recreated the file.           *)
Written == saving.at \in {"write", "flush"}

FileKept(w) == IF saves = 0 THEN file.of = <<>> ELSE file = drawn[w[saves]].value

Chained(w) ==
    /\ Carried(w, drawn, pool, origin, proc, saves)
    /\ ~ Written => FileKept(w)
    /\ Written => \E m : /\ Pending(w, drawn, m, origin, proc, saves)
                         /\ saving.seed = drawn[m].value

PoolStates ==
    /\ inited \in BOOLEAN /\ up \in BOOLEAN
    /\ inited => pool # <<>>
    /\ ~ inited => pool = <<>>
    /\ ~ up => ~ inited /\ saving = NotSaving
    /\ saving = Save(saving.at, saving.seed, saving.old)
    /\ saving.at \in {"no", "begin", "write", "flush"}
    /\ Written => inited

EntropyInv ==
    /\ PoolStates /\ proc \in Nat /\ saves \in Nat /\ lost \in Nat
    /\ PoolGrows(drawn, pool, Current)
    /\ saving.at = "flush" /\ lost = 0 => file = saving.seed
    /\ lost = 0 /\ ~ SavedBare => \E w : Chained(w)

LEMMA SaveFields ==
    /\ \A at, seed, old : LET s == Save(at, seed, old) IN
           s.at = at /\ s.seed = seed /\ s.old = old /\ s = Save(s.at, s.seed, s.old)
    /\ NotSaving.at = "no" /\ NotSaving = Save(NotSaving.at, NotSaving.seed, NotSaving.old)
    /\ SaveCalled.at = "begin" /\ SaveCalled = Save(SaveCalled.at, SaveCalled.seed, SaveCalled.old)
BY DEF Save, NotSaving, SaveCalled

LEMMA EntropyInitInv == EntropyInit => EntropyInv
<1> SUFFICES ASSUME EntropyInit PROVE EntropyInv
  OBVIOUS
<1>1. PoolStates /\ ~ Written /\ saving.at # "flush"
  BY SaveFields DEF EntropyInit, PoolStates, Written
<1>2. /\ ~ up /\ proc = 0 /\ saves = 0 /\ lost = 0 /\ drawn = <<>> /\ pool = <<>>
      /\ file \in {Absent, Atom("older seed")}
  BY DEF EntropyInit
<1>a. Current = 1
  <2>1. Current = proc + 1
    BY <1>2, Zenon DEF Current
  <2>2. proc = 0
    BY <1>2
  <2> QED BY <2>1, <2>2
<1>3. PoolGrows(drawn, pool, Current)
  <2>1. IsSeq(<<>>) /\ 1 \in Nat /\ DOMAIN <<>> = {}
    BY ShortSeq, AppendIs
  <2> QED BY <1>2, <1>a, <2>1 DEF PoolGrows
<1>4. file.of = <<>>
  <2>1. Absent.of = <<>> /\ Atom("older seed").of = <<>>
    BY DEF Absent, Atom
  <2> QED BY <1>2, <2>1
<1>5. Carried([k \in {} |-> 0], drawn, pool, origin, proc, saves)
  <2>1. 0 \in Nat /\ 1..0 = {} /\ DOMAIN <<>> = {}
    OBVIOUS
  <2>2. [k \in {} |-> 0] \in [{} -> {}]
    OBVIOUS
  <2> QED BY <1>2, <2>1, <2>2 DEF Carried
<1>6. Chained([k \in {} |-> 0])
  BY <1>1, <1>2, <1>4, <1>5 DEF Chained, FileKept
<1> QED BY <1>1, <1>2, <1>3, <1>6 DEF EntropyInv

(* The pool a call works with is no shorter.                               *)
LEMMA ReadyGrows ==
    ASSUME EntropyInv, up, NEW ok
    PROVE  PoolGrows(drawn, Ready(ok), proc) /\ IsSeq(Ready(ok))
<1>1. PoolGrows(drawn, pool, proc) /\ IsSeq(pool) /\ Len(pool) \in Nat
  BY AppendIs DEF EntropyInv, Current, PoolGrows
<1>2. CASE inited
  BY <1>1, <1>2 DEF Ready
<1>3. CASE ~ inited
  <2>1. pool = <<>>
    BY <1>3 DEF EntropyInv, PoolStates
  <2>2. Ready(ok) = <<>> \/ Ready(ok) = <<file>>
    BY <1>3 DEF Ready, SeedRead
  <2>3. IsSeq(Ready(ok)) /\ Len(Ready(ok)) >= Len(pool)
    <3>1. CASE Ready(ok) = <<>>
      BY <2>1, <3>1, ShortSeq
    <3>2. CASE Ready(ok) = <<file>>
      BY <2>1, <3>2, ShortSeq
    <3> QED BY <2>2, <3>1, <3>2
  <2> QED BY <1>1, <2>3, GrowsOn
<1> QED BY <1>2, <1>3

(* So is the pool with one item more.                                      *)
LEMMA AbsorbGrows ==
    ASSUME NEW d, NEW p, NEW n, NEW x, PoolGrows(d, p, n)
    PROVE  PoolGrows(d, Append(p, x), n)
<1>1. IsSeq(Append(p, x)) /\ Len(Append(p, x)) = Len(p) + 1 /\ Len(p) \in Nat
  BY AppendIs DEF PoolGrows
<1>2. Len(Append(p, x)) >= Len(p)
  BY <1>1
<1> QED BY <1>1, <1>2, GrowsOn

(* As long as nothing is lost, it began with the last seed.                *)
LEMMA ReadyCarried ==
    ASSUME EntropyInv, ~ Written, NEW w, Chained(w), NEW ok, ~ SeedMissed(ok), NoteOrigin
    PROVE  /\ Ready(ok) # <<>> => Carried(w, drawn, Ready(ok), origin', proc, saves)
           /\ \A x : Ready(ok) # <<>> \/ x.of = <<>>
                       => Carried(w, drawn, Append(Ready(ok), x), origin', proc, saves)
<1>1. Carried(w, drawn, pool, origin, proc, saves) /\ FileKept(w)
  BY DEF Chained
<1>2. CASE inited
  <2>1. Ready(ok) = pool /\ pool # <<>> /\ IsSeq(pool) /\ origin' = origin
    BY <1>2 DEF Ready, EntropyInv, PoolStates, PoolGrows, NoteOrigin
  <2> QED BY <1>1, <2>1, CarriedOn
<1>3. CASE ~ inited
  <2>1. origin' = saves
    BY <1>3 DEF NoteOrigin
  <2>2. CASE Loadable(file)
    <3>1. Ready(ok) = <<file>>
      BY <1>3, <2>2 DEF Ready, SeedRead, SeedMissed
    <3>2. Ready(ok) # <<>> /\ Ready(ok)[1] = file /\ IsSeq(Ready(ok))
      BY <3>1, ShortSeq
    <3>3. Begun(w, drawn, saves, Ready(ok))
      BY <1>1, <3>2 DEF Begun, FileKept
    <3>4. Carried(w, drawn, Ready(ok), origin', proc, saves)
      BY <1>1, <2>1, <3>3, CarriedIn
    <3> QED BY <3>2, <3>4, CarriedOn
  <2>3. CASE ~ Loadable(file)
    <3>1. Ready(ok) = <<>>
      BY <1>3, <2>3 DEF Ready, SeedRead
    <3>2. saves = 0
      <4> SUFFICES ASSUME saves # 0 PROVE FALSE
        OBVIOUS
      <4>1. saves \in 1..saves /\ file = drawn[w[saves]].value
        BY <1>1 DEF Carried, FileKept
      <4>2. w[saves] \in DOMAIN drawn /\ drawn[w[saves]].use = "file"
        BY <1>1, <4>1 DEF Carried
      <4>3. file = Extracted("file", file.of)
        BY <4>1, <4>2 DEF EntropyInv, PoolGrows, IsDraw
      <4>4. file.tag = "file"
        BY <4>3 DEF Extracted
      <4> QED BY <2>3, <4>4 DEF Loadable, Absent, Empty, Atom
    <3>3. ASSUME NEW x, x.of = <<>> PROVE Carried(w, drawn, Append(<<>>, x), origin', proc, saves)
      <4>1. Append(<<>>, x)[1] = x /\ Append(<<>>, x) # <<>>
        BY ShortSeq, AppendIs
      <4>2. Begun(w, drawn, saves, Append(<<>>, x))
        BY <3>2, <3>3, <4>1 DEF Begun
      <4> QED BY <1>1, <2>1, <4>2, CarriedIn
    <3> QED BY <3>1, <3>3
  <2> QED BY <2>2, <2>3
<1> QED BY <1>2, <1>3

(* Nothing that was lost is found again, nothing extracted is taken back.  *)
LEMMA NothingUndone ==
    ASSUME EntropyInv, NEW so, Loses(so), lost' = 0
    PROVE  lost = 0 /\ ~ so
BY DEF EntropyInv, Loses

LEMMA LostCounts == ASSUME EntropyInv, NEW so, Loses(so) PROVE lost' \in Nat
BY DEF EntropyInv, Loses

LEMMA BareStays ==
    ASSUME NEW x, IsSeq(drawn), drawn' = Append(drawn, x), ~ SavedBare'
    PROVE  ~ SavedBare /\ ~ (x.use = "file" /\ x.value.of = <<>>)
<1>1. \A i \in DOMAIN drawn : i \in DOMAIN drawn' /\ drawn'[i] = drawn[i]
  BY AppendIs
<1>2. Len(drawn) + 1 \in DOMAIN drawn' /\ drawn'[Len(drawn) + 1] = x
  BY AppendIs
<1> QED BY <1>1, <1>2 DEF SavedBare

(* The calls that extract and those that only stir leave a pool behind     *)
(* that is begun, and no save under way.                                   *)
LEMMA CallDone ==
    ASSUME EntropyInv, up, ~ Written,
           inited' = TRUE, pool' # <<>>, up' = up, proc' = proc, saves' = saves, file' = file,
           saving' \in {NotSaving, SaveCalled}, lost' \in Nat,
           PoolGrows(drawn', pool', proc),
           ASSUME lost' = 0, ~ SavedBare'
           PROVE  \E w : Chained(w) /\ Carried(w, drawn', pool', origin', proc, saves),
           \A w : saves # 0 /\ Chained(w) => drawn'[w[saves]] = drawn[w[saves]]
    PROVE  EntropyInv'
<1>1. /\ saving'.at \in {"no", "begin"} /\ ~ Written' /\ saving'.at # "flush"
      /\ saving' = Save(saving'.at, saving'.seed, saving'.old)
  BY SaveFields DEF Written
<1>2. PoolStates'
  BY <1>1 DEF PoolStates, EntropyInv
<1>3. proc' \in Nat /\ saves' \in Nat /\ PoolGrows(drawn', pool', Current')
  BY DEF EntropyInv, Current
<1>4. ASSUME lost' = 0, ~ SavedBare' PROVE \E w : Chained(w)'
  <2>1. PICK w : Chained(w) /\ Carried(w, drawn', pool', origin', proc, saves)
    BY <1>4
  <2>2. FileKept(w)
    BY <2>1 DEF Chained
  <2>3. FileKept(w)'
    BY <2>1, <2>2 DEF FileKept
  <2> QED BY <1>1, <2>1, <2>3 DEF Chained
<1> QED BY <1>1, <1>2, <1>3, <1>4 DEF EntropyInv

(* What is drawn from a pool that is ready.                                *)
LEMMA DrawIsDrawn ==
    ASSUME NEW use, NEW p, NEW o
    PROVE  Draw(use, p, o) = DrawnBy(proc, use, p, o)
BY DEF Draw, DrawnBy

LEMMA NotWritten == ASSUME Busy PROVE up /\ ~ Written /\ saving = NotSaving
BY DEF Busy, NotSaving, Save, Written

LEMMA StirInv == EntropyInv /\ Stir => EntropyInv'
<1> SUFFICES ASSUME EntropyInv, Stir PROVE EntropyInv'
  OBVIOUS
<1>1. PICK s \in Sample, ok \in BOOLEAN :
        pool' = Append(Ready(ok), Atom(s)) /\ NoteOrigin /\ Loses(SeedMissed(ok))
  BY DEF Stir
<1>2. /\ inited' = TRUE /\ UNCHANGED <<up, proc, saves, file, saving, drawn>>
      /\ up /\ ~ Written /\ saving = NotSaving
  BY NotWritten DEF Stir
<1>3. PoolGrows(drawn, Ready(ok), proc) /\ IsSeq(Ready(ok))
  BY <1>2, ReadyGrows
<1>4. PoolGrows(drawn', pool', proc)
  BY <1>1, <1>2, <1>3, AbsorbGrows
<1>5. pool' # <<>>
  BY <1>1, <1>3, AppendIs
<1>6. lost' \in Nat
  BY <1>1, LostCounts
<1>7. ASSUME lost' = 0, ~ SavedBare'
      PROVE  \E w : Chained(w) /\ Carried(w, drawn', pool', origin', proc, saves)
  <2>1. lost = 0 /\ ~ SeedMissed(ok) /\ ~ SavedBare
    BY <1>1, <1>2, <1>7, NothingUndone DEF SavedBare
  <2>2. PICK w : Chained(w)
    BY <2>1 DEF EntropyInv
  <2>3. Atom(s).of = <<>>
    BY DEF Atom
  <2>4. Carried(w, drawn, pool', origin', proc, saves)
    BY <1>1, <1>2, <2>1, <2>2, <2>3, ReadyCarried
  <2> QED BY <1>2, <2>2, <2>4
<1>8. saving' \in {NotSaving, SaveCalled} /\ up' = up /\ proc' = proc /\ saves' = saves /\ file' = file
  BY <1>2
<1>9. \A w : saves # 0 /\ Chained(w) => drawn'[w[saves]] = drawn[w[saves]]
  BY <1>2
<1> QED BY <1>2, <1>4, <1>5, <1>6, <1>7, <1>8, <1>9, CallDone

LEMMA HostLoadsInv == EntropyInv /\ HostLoads => EntropyInv'
<1> SUFFICES ASSUME EntropyInv, HostLoads PROVE EntropyInv'
  OBVIOUS
<1>1. pool' = Append(Ready(TRUE), file) /\ NoteOrigin /\ lost' = lost /\ Loadable(file)
  BY DEF HostLoads
<1>2. /\ inited' = TRUE /\ UNCHANGED <<up, proc, saves, file, saving, drawn>>
      /\ up /\ ~ Written /\ saving = NotSaving
  BY NotWritten DEF HostLoads
<1>3. PoolGrows(drawn, Ready(TRUE), proc) /\ IsSeq(Ready(TRUE))
  BY <1>2, ReadyGrows
<1>4. PoolGrows(drawn', pool', proc)
  BY <1>1, <1>2, <1>3, AbsorbGrows
<1>5. pool' # <<>>
  BY <1>1, <1>3, AppendIs
<1>6. lost' \in Nat
  BY <1>1 DEF EntropyInv
<1>7. ASSUME lost' = 0, ~ SavedBare'
      PROVE  \E w : Chained(w) /\ Carried(w, drawn', pool', origin', proc, saves)
  <2>1. lost = 0 /\ ~ SeedMissed(TRUE) /\ ~ SavedBare
    BY <1>1, <1>2, <1>7 DEF SavedBare, SeedMissed
  <2>2. PICK w : Chained(w)
    BY <2>1 DEF EntropyInv
  <2>3. Ready(TRUE) # <<>>
    <3>1. CASE inited
      BY <3>1 DEF Ready, EntropyInv, PoolStates
    <3>2. CASE ~ inited
      <4>1. Ready(TRUE) = <<file>>
        BY <1>1, <3>2 DEF Ready, SeedRead
      <4> QED BY <4>1, ShortSeq
    <3> QED BY <3>1, <3>2
  <2>4. Carried(w, drawn, pool', origin', proc, saves)
    BY <1>1, <1>2, <2>1, <2>2, <2>3, ReadyCarried
  <2> QED BY <1>2, <2>2, <2>4
<1>8. saving' \in {NotSaving, SaveCalled} /\ up' = up /\ proc' = proc /\ saves' = saves /\ file' = file
  BY <1>2
<1>9. \A w : saves # 0 /\ Chained(w) => drawn'[w[saves]] = drawn[w[saves]]
  BY <1>2
<1> QED BY <1>2, <1>4, <1>5, <1>6, <1>7, <1>8, <1>9, CallDone

(* The seeds of the completed saves stay where they are.                   *)
LEMMA SeedsStay ==
    ASSUME IsSeq(drawn), \A i \in 1..Len(drawn) : drawn'[i] = drawn[i]
    PROVE  \A w : saves # 0 /\ Chained(w) => drawn'[w[saves]] = drawn[w[saves]]
<1> SUFFICES ASSUME NEW w, saves # 0, Chained(w) PROVE drawn'[w[saves]] = drawn[w[saves]]
  OBVIOUS
<1>1. saves \in 1..saves /\ w \in [1..saves -> DOMAIN drawn]
  BY DEF Chained, Carried
<1>2. w[saves] \in 1..Len(drawn)
  BY <1>1, AppendIs
<1> QED BY <1>2

LEMMA InjectInv == EntropyInv /\ InjectEntropy => EntropyInv'
<1> SUFFICES ASSUME EntropyInv, InjectEntropy PROVE EntropyInv'
  OBVIOUS
<1>1. PICK s \in Sample, ok \in BOOLEAN :
        /\ pool' = Folded("inject", Append(Ready(ok), Atom(s)))
        /\ NoteOrigin /\ Loses(SeedMissed(ok))
        /\ drawn' = Append(drawn, Draw("inject", Append(Ready(ok), Atom(s)), origin'))
  BY DEF InjectEntropy
<1>2. /\ inited' = TRUE /\ UNCHANGED <<up, proc, saves, file>>
      /\ saving' \in {NotSaving, SaveCalled} /\ up /\ ~ Written
  BY NotWritten DEF InjectEntropy
<1>3. PICK p : p = Append(Ready(ok), Atom(s))
  OBVIOUS
<1>a. PICK e : e = DrawnBy(proc, "inject", p, origin')
  OBVIOUS
<1>b. pool' = Folded("inject", p) /\ drawn' = Append(drawn, e)
  BY <1>1, <1>3, <1>a, DrawIsDrawn
<1>4. PoolGrows(drawn, Ready(ok), proc) /\ IsSeq(Ready(ok)) /\ IsSeq(drawn)
  BY <1>2, ReadyGrows DEF PoolGrows
<1>5. PoolGrows(drawn, p, proc) /\ IsSeq(p) /\ p # <<>>
  BY <1>3, <1>4, AbsorbGrows, AppendIs
<1>6. PoolGrows(drawn', pool', proc) /\ pool' # <<>>
  BY <1>a, <1>b, <1>5, GrowsByDraw, AppendIs DEF Folded
<1>7. lost' \in Nat
  BY <1>1, LostCounts
<1>8. ASSUME lost' = 0, ~ SavedBare'
      PROVE  \E w : Chained(w) /\ Carried(w, drawn', pool', origin', proc, saves)
  <2>1. lost = 0 /\ ~ SeedMissed(ok) /\ ~ SavedBare
    BY <1>1, <1>4, <1>b, <1>8, NothingUndone, BareStays
  <2>2. PICK w : Chained(w)
    BY <2>1 DEF EntropyInv
  <2>3. Atom(s).of = <<>>
    BY DEF Atom
  <2>4. Carried(w, drawn, p, origin', proc, saves)
    BY <1>1, <1>2, <1>3, <2>1, <2>2, <2>3, ReadyCarried
  <2>5. Carried(w, drawn', pool', origin', proc, saves)
    BY <1>4, <1>5, <1>a, <1>b, <2>4, CarriedByDraw
  <2> QED BY <2>2, <2>5
<1>9. \A i \in 1..Len(drawn) : drawn'[i] = drawn[i]
  BY <1>4, <1>b, AppendIs
<1>10. \A w : saves # 0 /\ Chained(w) => drawn'[w[saves]] = drawn[w[saves]]
  BY <1>4, <1>9, SeedsStay
<1>11. up' = up /\ proc' = proc /\ saves' = saves /\ file' = file
  BY <1>2
<1> QED BY <1>2, <1>6, <1>7, <1>8, <1>10, <1>11, CallDone

LEMMA RandomInv == EntropyInv /\ RandomBytes => EntropyInv'
<1> SUFFICES ASSUME EntropyInv, RandomBytes PROVE EntropyInv'
  OBVIOUS
<1> DEFINE first(ok, s) == Append(Ready(ok), Atom(s))
           second(ok, s) == Folded("random", first(ok, s))
<1>1. PICK s \in Sample, ok \in BOOLEAN :
        /\ pool' = Folded("random", second(ok, s))
        /\ NoteOrigin /\ Loses(SeedMissed(ok))
        /\ drawn' = drawn \o <<Draw("random", first(ok, s), origin'),
                               Draw("random", second(ok, s), origin')>>
  BY DEF RandomBytes
<1>2. /\ inited' = TRUE /\ UNCHANGED <<up, proc, saves, file, saving>>
      /\ saving = NotSaving /\ up /\ ~ Written
  BY NotWritten DEF RandomBytes
<1>3. PICK p, q : p = Append(Ready(ok), Atom(s)) /\ q = Folded("random", p)
  OBVIOUS
<1>4. PICK e, f : e = DrawnBy(proc, "random", p, origin') /\ f = DrawnBy(proc, "random", q, origin')
  OBVIOUS
<1>5. PICK D : D = Append(drawn, e)
  OBVIOUS
<1>6. PoolGrows(drawn, Ready(ok), proc) /\ IsSeq(Ready(ok)) /\ IsSeq(drawn)
  BY <1>2, ReadyGrows DEF PoolGrows
<1>7. pool' = Folded("random", q) /\ drawn' = Append(D, f)
  BY <1>1, <1>3, <1>4, <1>5, <1>6, DrawIsDrawn, ShortSeq
<1>8. PoolGrows(drawn, p, proc) /\ IsSeq(p) /\ p # <<>>
  BY <1>3, <1>6, AbsorbGrows, AppendIs
<1>9. PoolGrows(D, q, proc) /\ IsSeq(q) /\ q # <<>> /\ IsSeq(D)
  BY <1>3, <1>4, <1>5, <1>6, <1>8, GrowsByDraw, AppendIs DEF Folded
<1>10. PoolGrows(drawn', pool', proc) /\ pool' # <<>>
  BY <1>4, <1>7, <1>9, GrowsByDraw, AppendIs DEF Folded
<1>11. lost' \in Nat
  BY <1>1, LostCounts
<1>12. \A i \in DOMAIN drawn : i \in DOMAIN drawn' /\ drawn'[i] = drawn[i]
  <2>1. \A i \in DOMAIN drawn : i \in DOMAIN D /\ D[i] = drawn[i]
    BY <1>5, <1>6, AppendIs
  <2>2. \A i \in DOMAIN D : i \in DOMAIN drawn' /\ drawn'[i] = D[i]
    BY <1>7, <1>9, AppendIs
  <2> QED BY <2>1, <2>2
<1>13. ASSUME lost' = 0, ~ SavedBare'
      PROVE  \E w : Chained(w) /\ Carried(w, drawn', pool', origin', proc, saves)
  <2>1. lost = 0 /\ ~ SeedMissed(ok)
    BY <1>1, <1>13, NothingUndone
  <2>a. ~ SavedBare
    BY <1>12, <1>13 DEF SavedBare
  <2>2. PICK w : Chained(w)
    BY <2>1, <2>a DEF EntropyInv
  <2>3. Atom(s).of = <<>>
    BY DEF Atom
  <2>4. Carried(w, drawn, p, origin', proc, saves)
    BY <1>1, <1>2, <1>3, <2>1, <2>2, <2>3, ReadyCarried
  <2>5. Carried(w, D, q, origin', proc, saves)
    BY <1>3, <1>4, <1>5, <1>6, <1>8, <2>4, CarriedByDraw
  <2>6. Carried(w, drawn', pool', origin', proc, saves)
    BY <1>4, <1>7, <1>9, <2>5, CarriedByDraw
  <2> QED BY <2>2, <2>6
<1>14. \A i \in 1..Len(drawn) : drawn'[i] = drawn[i]
  BY <1>6, <1>12, AppendIs
<1>15. \A w : saves # 0 /\ Chained(w) => drawn'[w[saves]] = drawn[w[saves]]
  BY <1>6, <1>14, SeedsStay
<1>16. saving' \in {NotSaving, SaveCalled} /\ up' = up /\ proc' = proc /\ saves' = saves /\ file' = file
  BY <1>2
<1> QED BY <1>2, <1>10, <1>11, <1>13, <1>15, <1>16, CallDone

(* Nothing but the host's save, its end, or what another part of the       *)
(* machine does.                                                           *)
LEMMA SavingMoves ==
    ASSUME EntropyInv, up, ~ Written, UNCHANGED <<file, proc, up, poolVars, history>>,
           saving' \in {NotSaving, SaveCalled}
    PROVE  EntropyInv'
<1>1. /\ saving'.at \in {"no", "begin"} /\ ~ Written' /\ saving'.at # "flush"
      /\ saving' = Save(saving'.at, saving'.seed, saving'.old)
  BY SaveFields DEF Written
<1>2. UNCHANGED <<file, proc, up, inited, pool, drawn, origin, saves, lost>>
  BY DEF poolVars, history
<1>3. PoolStates'
  BY <1>1, <1>2 DEF PoolStates, EntropyInv
<1>4. PoolGrows(drawn', pool', Current')
  BY <1>2 DEF EntropyInv, Current
<1>5. ASSUME lost' = 0, ~ SavedBare' PROVE \E w : Chained(w)'
  <2>1. PICK w : Chained(w)
    BY <1>2, <1>5 DEF EntropyInv, SavedBare
  <2>2. Chained(w)'
    BY <1>1, <1>2, <2>1 DEF Chained, FileKept
  <2> QED BY <2>2
<1> QED BY <1>1, <1>2, <1>3, <1>4, <1>5 DEF EntropyInv

LEMMA SaveRecreatesInv == EntropyInv /\ SaveRecreates => EntropyInv'
<1> SUFFICES ASSUME EntropyInv, SaveRecreates PROVE EntropyInv'
  OBVIOUS
<1>1. PICK ok \in BOOLEAN, created \in BOOLEAN :
         /\ pool' = Folded("file", Ready(ok)) /\ inited' = TRUE
         /\ NoteOrigin /\ Loses(~ created \/ SeedMissed(ok))
         /\ drawn' = Append(drawn, Draw("file", Ready(ok), origin'))
         /\ file' \in IF created THEN {Empty} ELSE {file, Absent}
         /\ saving' = IF created THEN Save("write", Extracted("file", Ready(ok)), file)
                                  ELSE NotSaving
  BY DEF SaveRecreates
<1>2. UNCHANGED <<up, proc, saves>> /\ saving.at = "begin" /\ up /\ ~ Written
  BY DEF SaveRecreates, Written
<1>3. PICK p : p = Ready(ok)
  OBVIOUS
<1>a. PICK e : e = DrawnBy(proc, "file", p, origin')
  OBVIOUS
<1>b. pool' = Folded("file", p) /\ drawn' = Append(drawn, e)
  BY <1>1, <1>3, <1>a, DrawIsDrawn
<1>4. PoolGrows(drawn, p, proc) /\ IsSeq(p) /\ IsSeq(drawn)
  BY <1>2, <1>3, ReadyGrows DEF PoolGrows
<1>5. PoolGrows(drawn', pool', proc) /\ pool' # <<>>
  BY <1>a, <1>b, <1>4, GrowsByDraw, AppendIs DEF Folded
<1>6. lost' \in Nat
  BY <1>1, LostCounts
<1>7. /\ saving'.at \in {"no", "write"}
      /\ saving' = Save(saving'.at, saving'.seed, saving'.old)
  BY <1>1, SaveFields
<1>8. PoolStates'
  BY <1>1, <1>2, <1>5, <1>7 DEF PoolStates, EntropyInv
<1>9. proc' \in Nat /\ saves' \in Nat /\ PoolGrows(drawn', pool', Current')
  BY <1>2, <1>5 DEF EntropyInv, Current
<1>10. saving'.at # "flush"
  BY <1>7
<1>11. ASSUME lost' = 0, ~ SavedBare' PROVE \E w : Chained(w)'
  <2>1. lost = 0 /\ ~ SeedMissed(ok) /\ created
    BY <1>1, <1>11, NothingUndone
  <2>2. ~ SavedBare /\ p # <<>>
    <3>1. e.use = "file" /\ e.value.of = p
      BY <1>a, DrawFields
    <3> QED BY <1>4, <1>b, <1>11, <3>1, BareStays
  <2>3. PICK w : Chained(w)
    BY <2>1, <2>2 DEF EntropyInv
  <2>4. Carried(w, drawn, p, origin', proc, saves)
    BY <1>1, <1>2, <1>3, <2>1, <2>2, <2>3, ReadyCarried
  <2>5. Carried(w, drawn', pool', origin', proc, saves)
    BY <1>4, <1>a, <1>b, <2>2, <2>4, CarriedByDraw
  <2>6. PICK m : m = Len(drawn) + 1
    OBVIOUS
  <2>7. m \in DOMAIN drawn' /\ drawn'[m] = e /\ \A i \in DOMAIN drawn : i < m
    BY <1>4, <1>b, <2>6, AppendIs
  <2>8. \A k \in 1..saves : w[k] \in DOMAIN drawn
    BY <2>4 DEF Carried
  <2>9. e.use = "file" /\ e.proc = proc /\ e.origin = origin' /\ e.value = Extracted("file", p)
    BY <1>a, DrawFields
  <2>10. Pending(w, drawn', m, origin', proc, saves)
    BY <2>7, <2>8, <2>9 DEF Pending
  <2>11. saving'.seed = drawn'[m].value /\ Written'
    <3>1. saving' = Save("write", Extracted("file", p), file)
      BY <1>1, <1>3, <2>1
    <3> QED BY <2>7, <2>9, <3>1 DEF Save, Written
  <2>12. Chained(w)'
    BY <1>2, <2>5, <2>10, <2>11 DEF Chained
  <2> QED BY <2>12
<1> QED BY <1>6, <1>8, <1>9, <1>10, <1>11 DEF EntropyInv

LEMMA SaveWritesInv == EntropyInv /\ SaveWrites => EntropyInv'
<1> SUFFICES ASSUME EntropyInv, SaveWrites PROVE EntropyInv'
  OBVIOUS
<1>1. /\ saving.at = "write" /\ up /\ Loses(file' # saving.seed)
      /\ saving' = [saving EXCEPT !.at = "flush"]
      /\ UNCHANGED <<proc, up, inited, pool, drawn, origin, saves>>
  BY DEF SaveWrites, poolVars
<1>2. inited /\ Written
  BY <1>1 DEF Written, EntropyInv, PoolStates
<1>3. ASSUME lost' = 0, ~ SavedBare'
      PROVE  file' = saving.seed /\ \E w : Chained(w)
  BY <1>1, <1>3, NothingUndone DEF EntropyInv, SavedBare
<1>4. lost' \in Nat
  BY <1>1, LostCounts
<1>5. saving'.at = "flush" /\ saving'.seed = saving.seed /\ Written'
      /\ saving' = Save(saving'.at, saving'.seed, saving'.old)
  <2>1. saving = Save(saving.at, saving.seed, saving.old)
    BY DEF EntropyInv, PoolStates
  <2>2. saving' = Save("flush", saving.seed, saving.old)
    BY <1>1, <2>1 DEF Save
  <2> QED BY <2>2, SaveFields DEF Written
<1>6. PoolStates'
  BY <1>1, <1>2, <1>5 DEF PoolStates, EntropyInv
<1>7. PoolGrows(drawn', pool', Current')
  BY <1>1 DEF EntropyInv, Current
<1>8. lost' = 0 => file' = saving'.seed
  BY <1>1, <1>5, NothingUndone
<1>9. ASSUME lost' = 0, ~ SavedBare' PROVE \E w : Chained(w)'
  <2>1. PICK w : Chained(w)
    BY <1>3, <1>9
  <2>2. Chained(w)'
    BY <1>1, <1>2, <1>5, <2>1 DEF Chained
  <2> QED BY <2>2
<1> QED BY <1>1, <1>4, <1>6, <1>7, <1>8, <1>9 DEF EntropyInv

LEMMA SaveFlushesInv == EntropyInv /\ SaveFlushes => EntropyInv'
<1> SUFFICES ASSUME EntropyInv, SaveFlushes PROVE EntropyInv'
  OBVIOUS
<1>1. /\ saving.at = "flush" /\ up /\ saving' = NotSaving /\ saves' = saves + 1
      /\ UNCHANGED <<file, proc, up, inited, pool, drawn, origin, lost>>
  BY DEF SaveFlushes, poolVars
<1>2. Written /\ inited /\ pool # <<>> /\ PoolGrows(drawn, pool, proc)
  BY <1>1 DEF Written, EntropyInv, PoolStates, Current
<1>3. /\ saving'.at = "no" /\ ~ Written'
      /\ saving' = Save(saving'.at, saving'.seed, saving'.old)
  BY <1>1, SaveFields DEF Written
<1>4. PoolStates'
  BY <1>1, <1>2, <1>3 DEF PoolStates, EntropyInv
<1>5. PoolGrows(drawn', pool', Current') /\ saves' \in Nat
  BY <1>1 DEF EntropyInv, Current
<1>6. ASSUME lost' = 0, ~ SavedBare' PROVE \E w : Chained(w)'
  <2>1. file = saving.seed /\ \E w : Chained(w)
    BY <1>1, <1>6 DEF EntropyInv, SavedBare
  <2>2. PICK w : Chained(w)
    BY <2>1
  <2>3. PICK m : Pending(w, drawn, m, origin, proc, saves) /\ saving.seed = drawn[m].value
    BY <1>2, <2>2 DEF Chained
  <2>4. PICK v : v = [k \in 1..(saves + 1) |-> IF k = saves + 1 THEN m ELSE w[k]]
    OBVIOUS
  <2>5. Carried(v, drawn, pool, origin, proc, saves + 1) /\ v[saves + 1] = m
    <3>1. Carried(w, drawn, pool, origin, proc, saves)
      BY <2>2 DEF Chained
    <3> QED BY <1>2, <2>3, <2>4, <3>1, CarriedOver
  <2>6. saves + 1 # 0
    BY DEF EntropyInv
  <2>7. FileKept(v)'
    BY <1>1, <2>1, <2>3, <2>5, <2>6 DEF FileKept
  <2>8. Chained(v)'
    BY <1>1, <1>3, <2>5, <2>7 DEF Chained
  <2> QED BY <2>8
<1> QED BY <1>1, <1>3, <1>4, <1>5, <1>6 DEF EntropyInv

(* The process ends, by itself or with the machine: the next one has an    *)
(* empty pool.                                                             *)
LEMMA EndedInv ==
    ASSUME EntropyInv, up, Ended, UNCHANGED <<proc, drawn, origin, saves>>, lost' \in Nat,
           ASSUME lost' = 0 PROVE lost = 0 /\ ~ Written /\ file' = file
    PROVE  EntropyInv'
<1>1. /\ up' = FALSE /\ inited' = FALSE /\ pool' = <<>> /\ saving' = NotSaving
      /\ saving'.at = "no" /\ ~ Written'
      /\ saving' = Save(saving'.at, saving'.seed, saving'.old)
  BY SaveFields DEF Ended, Written
<1>2. PoolStates'
  BY <1>1 DEF PoolStates
<1>3. PoolGrows(drawn, pool, proc) /\ proc \in Nat
  BY DEF EntropyInv, Current
<1>4. PoolGrows(drawn, <<>>, proc + 1)
  <2>1. \A a \in Nat : a <= proc => a <= proc + 1 /\ a # proc + 1
    BY <1>3
  <2>2. \A i \in DOMAIN drawn : drawn[i].proc \in Nat /\ drawn[i].proc <= proc
    BY <1>3 DEF PoolGrows, IsDraw
  <2>3. proc + 1 \in Nat
    BY <1>3
  <2> QED BY <1>3, <2>1, <2>2, <2>3, ShortSeq DEF PoolGrows
<1>5. Current' = proc + 1
  <2>1. Current' = proc' + 1
    BY <1>1, Zenon DEF Current
  <2> QED BY <2>1
<1>6. ASSUME lost' = 0, ~ SavedBare' PROVE \E w : Chained(w)'
  <2>1. lost = 0 /\ ~ Written /\ file' = file /\ ~ SavedBare
    BY <1>6 DEF SavedBare
  <2>2. PICK w : Chained(w)
    BY <2>1 DEF EntropyInv
  <2>3. Carried(w, drawn, <<>>, origin, proc, saves)
    BY <2>2 DEF Chained, Carried
  <2>4. Chained(w)'
    BY <1>1, <2>1, <2>2, <2>3 DEF Chained, FileKept
  <2> QED BY <2>4
<1>7. proc' \in Nat /\ saves' \in Nat /\ PoolGrows(drawn', pool', Current')
  BY <1>1, <1>3, <1>4, <1>5 DEF EntropyInv
<1> QED BY <1>1, <1>2, <1>6, <1>7 DEF EntropyInv

LEMMA StartInv == EntropyInv /\ StartProcess => EntropyInv'
<1> SUFFICES ASSUME EntropyInv, StartProcess PROVE EntropyInv'
  OBVIOUS
<1>1. /\ ~ up /\ up' = TRUE /\ proc' = proc + 1
      /\ UNCHANGED <<file, inited, pool, saving, drawn, origin, saves, lost>>
  BY DEF StartProcess, poolVars, history
<1>2. ~ inited /\ pool = <<>> /\ saving = NotSaving /\ ~ Written
  BY <1>1 DEF EntropyInv, PoolStates, Written, NotSaving, Save
<1>3. PoolStates'
  BY <1>1, <1>2 DEF PoolStates, EntropyInv, Written, NotSaving, Save
<1>4. Current = proc + 1 /\ Current' = proc + 1
  <2>1. Current = proc + 1 /\ Current' = proc'
    BY <1>1, Zenon DEF Current
  <2> QED BY <1>1, <2>1
<1>5. PoolGrows(drawn', pool', Current') /\ proc' \in Nat
  BY <1>1, <1>4 DEF EntropyInv
<1>6. ASSUME lost' = 0, ~ SavedBare' PROVE \E w : Chained(w)'
  <2>1. PICK w : Chained(w)
    BY <1>1, <1>6 DEF EntropyInv, SavedBare
  <2>2. Carried(w, drawn, <<>>, origin, proc + 1, saves)
    BY <2>1 DEF Chained, Carried
  <2>3. ~ Written'
    BY <1>1, <1>2 DEF Written
  <2>4. Chained(w)'
    BY <1>1, <1>2, <2>1, <2>2, <2>3 DEF Chained, FileKept
  <2> QED BY <2>4
<1>7. saving'.at # "flush"
  BY <1>1, <1>2 DEF NotSaving, Save
<1> QED BY <1>1, <1>3, <1>5, <1>6, <1>7 DEF EntropyInv

LEMMA EntropyNextInv == EntropyInv /\ [EntropyNext]_entropyVars => EntropyInv'
<1> SUFFICES ASSUME EntropyInv, [EntropyNext]_entropyVars PROVE EntropyInv'
  OBVIOUS
<1>1. CASE StartProcess
  BY <1>1, StartInv
<1>2. CASE Stir \/ HostLoads \/ InjectEntropy \/ RandomBytes
  BY <1>2, StirInv, HostLoadsInv, InjectInv, RandomInv
<1>3. CASE HostSaves
  BY <1>3, NotWritten, SavingMoves DEF HostSaves
<1>4. CASE SaveGivesUp
  <2>1. ~ Written
    BY <1>4 DEF SaveGivesUp, Written
  <2> QED BY <1>4, <2>1, SavingMoves DEF SaveGivesUp
<1>5. CASE SaveRecreates \/ SaveWrites \/ SaveFlushes
  BY <1>5, SaveRecreatesInv, SaveWritesInv, SaveFlushesInv
<1>6. CASE Quit
  <2>1. up /\ ~ Written /\ Ended /\ UNCHANGED <<file, proc, drawn, origin, saves, lost>>
    BY <1>6, NotWritten DEF Quit, history
  <2>2. lost' \in Nat
    BY <2>1 DEF EntropyInv
  <2> QED BY <2>1, <2>2, EndedInv
<1>7. CASE Crash
  <2>1. up /\ Ended /\ UNCHANGED <<proc, drawn, origin, saves>>
    BY <1>7 DEF Crash
  <2>2. CASE Written
    <3>1. Loses(TRUE)
      BY <1>7, <2>2 DEF Crash, Written
    <3>2. lost' \in Nat /\ lost' # 0
      BY <3>1, LostCounts, NothingUndone
    <3> QED BY <2>1, <3>2, EndedInv
  <2>3. CASE ~ Written
    <3>1. UNCHANGED <<file, lost>>
      BY <1>7, <2>3 DEF Crash, Written
    <3>2. lost' \in Nat
      BY <3>1 DEF EntropyInv
    <3> QED BY <2>1, <2>3, <3>1, <3>2, EndedInv
  <2> QED BY <2>2, <2>3
<1>8. CASE UNCHANGED entropyVars
  <2>1. UNCHANGED <<file, proc, up, inited, pool, saving, drawn, origin, saves, lost>>
    BY <1>8 DEF entropyVars, poolVars, history
  <2>2. ASSUME NEW w PROVE Chained(w)' <=> Chained(w)
    BY <2>1 DEF Chained, FileKept, Written
  <2> QED BY <2>1, <2>2 DEF EntropyInv, PoolStates, Written, Current, SavedBare
<1> QED BY <1>1, <1>2, <1>3, <1>4, <1>5, <1>6, <1>7, <1>8 DEF EntropyNext, SaveSeed

(* The pool of a process only grows, and as long as nothing is lost every  *)
(* pool begins with the seed of the last completed save.                   *)
THEOREM PoolInvariance == EntropySpec => []EntropyInv
<1> QED BY EntropyInitInv, EntropyNextInv, PTL DEF EntropySpec

(* However often the machine stops and whatever the clocks say, no two     *)
(* extractions give the same bytes, unless a seed was lost or was made     *)
(* from an empty pool.                                                     *)
THEOREM NoBytesTwice == EntropySpec => []Independent
<1>1. ASSUME EntropyInv PROVE Independent
  <2> SUFFICES ASSUME ~ SavedBare, NEW j \in DOMAIN drawn, NEW i \in 1..(j - 1),
                      drawn[i].value = drawn[j].value
               PROVE  /\ drawn[i].use = drawn[j].use /\ drawn[i].proc # drawn[j].proc
                      /\ drawn[i].origin = drawn[j].origin \/ lost > 0
    BY DEF Independent
  <2>1. PoolGrows(drawn, pool, Current) /\ lost \in Nat
    BY <1>1 DEF EntropyInv
  <2>2. i \in DOMAIN drawn /\ j \in DOMAIN drawn /\ i < j
    <3>1. IsSeq(drawn) /\ DOMAIN drawn = 1..Len(drawn) /\ Len(drawn) \in Nat
      BY <2>1, AppendIs DEF PoolGrows
    <3> QED BY <3>1
  <2>3. IsDraw(drawn[i]) /\ IsDraw(drawn[j])
    BY <2>1, <2>2 DEF PoolGrows
  <2>4. drawn[i].use = drawn[j].use
    <3>1. drawn[i].value.tag = drawn[i].use /\ drawn[j].value.tag = drawn[j].use
      BY <2>3 DEF IsDraw, Extracted
    <3> QED BY <3>1
  <2>5. drawn[i].proc # drawn[j].proc
    <3> SUFFICES ASSUME drawn[i].proc = drawn[j].proc PROVE FALSE
      OBVIOUS
    <3>1. Len(drawn[i].value.of) < Len(drawn[j].value.of)
      BY <2>1, <2>2 DEF PoolGrows
    <3>2. Len(drawn[i].value.of) \in Nat
      BY <2>3, AppendIs DEF IsDraw
    <3>3. PICK L \in Nat : L = Len(drawn[i].value.of)
      BY <3>2
    <3> QED BY <3>1, <3>3
  <2>6. ASSUME lost = 0 PROVE drawn[i].origin = drawn[j].origin
    <3>1. PICK w : Chained(w)
      BY <1>1, <2>6 DEF EntropyInv
    <3> QED BY <2>2, <3>1, OriginsTell DEF Chained
  <2>7. lost = 0 \/ lost > 0
    BY <2>1
  <2> QED BY <2>4, <2>5, <2>6, <2>7
<1> QED BY <1>1, PoolInvariance, PTL

-------------------------------------------------------------------------------
(* The cache of tickets (TicketCache).                                     *)

(* Arithmetic.                                                             *)

(* Least is that hit.                                                      *)
LEMMA LeastIn ==
    ASSUME NEW S, S \subseteq Nat, S # {}
    PROVE  Least(S) \in S
BY LeastNatural DEF Least

(* A count that has turned over at most once.                              *)
LEMMA ModOnce ==
    ASSUME NEW C \in Nat \ {0}, NEW a \in Nat, a < 2 * C
    PROVE  a % C = IF a < C THEN a ELSE a - C
<1>1. a % C \in 0..C - 1 /\ a = C * (a \div C) + (a % C) /\ a \div C \in Int
  BY Z3
<1> QED BY <1>1, Z3

(* The quotient is the number that leaves a remainder below the divisor.   *)
LEMMA DivUnique ==
    ASSUME NEW T \in Nat \ {0}, NEW n \in Nat, NEW q \in Nat, NEW r \in 0..T - 1, n = q * T + r
    PROVE  n \div T = q
BY Z3

(* A wrapping difference is the true one while less than a turn passed.    *)
LEMMA WrappedDifference ==
    ASSUME NEW C \in Nat \ {0}, NEW boot \in 0..C - 1, NEW x \in 0..C - 1, NEW y \in 0..C - 1, x <= y
    PROVE  (((boot + y) % C) - ((boot + x) % C)) % C = y - x
<1>a. PICK b, a : b = boot + y /\ a = boot + x
  OBVIOUS
<1>b. b \in Nat /\ b < 2 * C /\ a \in Nat /\ a < 2 * C
  BY <1>a
<1>c. b % C = (IF b < C THEN b ELSE b - C) /\ a % C = (IF a < C THEN a ELSE a - C)
  BY <1>b, ModOnce
<1>1. (boot + y) % C = IF boot + y < C THEN boot + y ELSE boot + y - C
  BY <1>a, <1>c
<1>2. (boot + x) % C = IF boot + x < C THEN boot + x ELSE boot + x - C
  BY <1>a, <1>c
<1>3. CASE boot + x < C /\ boot + y >= C
  <2>1. ((boot + y) % C) - ((boot + x) % C) = (y - x) - C
    BY <1>1, <1>2, <1>3
  <2>2. ((y - x) - C) % C = y - x
    <3>1. PICK d : d = y - x /\ d \in 0..C - 1
      OBVIOUS
    <3>2. (d - C) % C \in 0..C - 1 /\ d - C = C * ((d - C) \div C) + ((d - C) % C) /\ (d - C) \div C \in Int
      BY <3>1, Z3
    <3>3. (d - C) % C = d
      BY <3>1, <3>2, Z3
    <3> QED BY <3>1, <3>3
  <2> QED BY <2>1, <2>2
<1>4. CASE ~ (boot + x < C /\ boot + y >= C)
  <2>1. ((boot + y) % C) - ((boot + x) % C) = y - x
    BY <1>1, <1>2, <1>4
  <2>2. (y - x) % C = y - x
    <3>1. PICK d : d = y - x /\ d \in 0..C - 1
      OBVIOUS
    <3>2. d \in Nat /\ d < C /\ d < 2 * C
      BY <3>1
    <3>3. d % C = IF d < C THEN d ELSE d - C
      BY <3>2, ModOnce
    <3> QED BY <3>1, <3>2, <3>3
  <2> QED BY <2>1, <2>2
<1> QED BY <1>3, <1>4

(* Whole seconds and the rest, each scaled, are the whole scaled:         *)
(* milliseconds, for K = 1000.                                             *)
LEMMA MillisSplit ==
    ASSUME NEW T \in Nat \ {0}, NEW e \in Nat, NEW K \in Nat
    PROVE  (e \div T) * K + ((e % T) * K) \div T = (e * K) \div T
<1>1. e \div T \in Nat /\ e % T \in 0..T - 1 /\ e = (e \div T) * T + (e % T)
  BY Z3
<1>2. PICK q, r : q = e \div T /\ r = e % T
  OBVIOUS
<1>3. q \in Nat /\ r \in 0..T - 1 /\ e = q * T + r
  BY <1>1, <1>2
<1>4. PICK m : m = r * K
  OBVIOUS
<1>5. m \div T \in Nat /\ m % T \in 0..T - 1 /\ m = (m \div T) * T + (m % T) /\ m \in Nat
  BY <1>3, <1>4, Z3
<1>6. PICK p, s : p = m \div T /\ s = m % T
  OBVIOUS
<1>7. p \in Nat /\ s \in 0..T - 1 /\ m = p * T + s
  BY <1>5, <1>6
<1>8. e * K = (q * K + p) * T + s
  BY <1>3, <1>4, <1>7, Z3
<1>9. (e * K) \div T = q * K + p
  BY <1>3, <1>7, <1>8, DivUnique
<1> QED BY <1>2, <1>4, <1>6, <1>9
-------------------------------------------------------------------------------
(* The inductive invariant.                                                *)

(* The stamp of an entry is the tick count at the time it was stored.      *)
Stamped == \A i \in Slot : used[i] =>
               since[i] <= time /\ received[i] = (Boot + since[i]) % ClockSize

TicketInv == TicketTypeOK /\ OneSlotPerHost /\ Stamped

(* Put picks the host's slot, else a free one, else one of the oldest.     *)
LEMMA TargetFacts ==
    ASSUME TicketTypeOK, NEW h \in Host
    PROVE  /\ Target(h) \in Slot
           /\ Holds(h) # {} => Target(h) \in Holds(h)
           /\ Holds(h) = {} /\ Free # {} => Target(h) \in Free
           /\ Holds(h) = {} /\ Free = {} => Target(h) \in Oldest
<1>1. Slot \subseteq Nat /\ Slot # {}
  <2>1. 1 \in Slot
    BY CacheAssumption DEF CacheAssumption, Slot
  <2> QED BY <2>1, CacheAssumption DEF CacheAssumption, Slot
<1>2. Holds(h) \subseteq Slot /\ Free \subseteq Slot /\ Oldest \subseteq Slot
  BY DEF Holds, Free, Oldest
<1>3. Oldest # {}
  <2> DEFINE R == {received[i] : i \in Slot}
  <2>1. \A i \in Slot : received[i] \in Nat
    BY CacheAssumption DEF TicketTypeOK, CacheAssumption
  <2>2. R \subseteq Nat /\ R # {}
    BY <1>1, <2>1
  <2>3. PICK r \in R : \A x \in R : r <= x
    BY <2>2, LeastNatural
  <2>4. PICK i \in Slot : received[i] = r
    OBVIOUS
  <2>5. i \in Oldest
    BY <2>3, <2>4 DEF Oldest
  <2> QED BY <2>5
<1>4. Holds(h) # {} => Target(h) \in Holds(h)
  BY <1>1, <1>2, LeastIn DEF Target
<1>5. Holds(h) = {} /\ Free # {} => Target(h) \in Free
  BY <1>1, <1>2, LeastIn DEF Target
<1>6. Holds(h) = {} /\ Free = {} => Target(h) \in Oldest
  BY <1>1, <1>2, <1>3, LeastIn DEF Target
<1> QED BY <1>2, <1>4, <1>5, <1>6

(* The tick count is a count.                                              *)
LEMMA NowType == ASSUME TicketTypeOK PROVE ticketNow \in 0..ClockSize - 1
<1>1. PICK a, C : a = Boot + time /\ C = ClockSize
  OBVIOUS
<1>2. a \in Nat /\ C \in Nat \ {0}
  BY <1>1, CacheAssumption DEF TicketTypeOK, CacheAssumption
<1>3. a % C \in 0..C - 1
  BY <1>2, Z3
<1> QED BY <1>1, <1>3 DEF ticketNow

LEMMA TicketInitInv == TicketInit => TicketInv
<1> SUFFICES ASSUME TicketInit PROVE TicketInv
  OBVIOUS
<1> USE CacheAssumption DEF CacheAssumption
<1>1. TicketTypeOK
  BY DEF TicketInit, EmptySlots, TicketTypeOK
<1>2. OneSlotPerHost /\ Stamped
  BY DEF TicketInit, EmptySlots, OneSlotPerHost, Stamped
<1> QED BY <1>1, <1>2 DEF TicketInv

(* Storing a ticket: the only slot of its host is the one filled, since a  *)
(* host without a slot has none to keep.                                   *)
LEMMA PutInv ==
    ASSUME TicketInv, NEW h \in Host, NEW t \in Ticket, Put(h, t)
    PROVE  TicketInv'
<1>1. PICK k : k = Target(h)
  OBVIOUS
<1>2. TicketTypeOK /\ OneSlotPerHost /\ Stamped
  BY DEF TicketInv
<1>3. k \in Slot /\ (Holds(h) # {} => k \in Holds(h))
  BY <1>1, <1>2, TargetFacts
<1>4. /\ used' = [used EXCEPT ![k] = TRUE] /\ host' = [host EXCEPT ![k] = h]
      /\ received' = [received EXCEPT ![k] = ticketNow] /\ ticket' = [ticket EXCEPT ![k] = t]
      /\ since' = [since EXCEPT ![k] = time] /\ time' = time
  BY <1>1 DEF Put
<1>5. TicketTypeOK'
  <2>1. ticketNow \in 0..ClockSize - 1
    BY <1>2, NowType
  <2> QED BY <1>2, <1>3, <1>4, <2>1 DEF TicketTypeOK
<1>6. OneSlotPerHost'
  <2> SUFFICES ASSUME NEW i \in Slot, NEW j \in Slot, used'[i], used'[j], host'[i] = host'[j]
               PROVE  i = j
    BY DEF OneSlotPerHost
  <2>1. \A n \in Slot : n # k => used'[n] = used[n] /\ host'[n] = host[n]
    BY <1>2, <1>4 DEF TicketTypeOK
  <2>2. host'[k] = h
    BY <1>2, <1>3, <1>4 DEF TicketTypeOK
  <2>3. \A n \in Slot : used[n] /\ host[n] = h => n = k
    BY <1>2, <1>3 DEF Holds, OneSlotPerHost
  <2> QED BY <1>2, <2>1, <2>2, <2>3 DEF OneSlotPerHost
<1>7. Stamped'
  <2> SUFFICES ASSUME NEW i \in Slot, used'[i]
               PROVE  since'[i] <= time /\ received'[i] = (Boot + since'[i]) % ClockSize
    BY <1>4 DEF Stamped
  <2>1. CASE i = k
    BY <1>2, <1>3, <1>4, <2>1, CacheAssumption DEF TicketTypeOK, ticketNow, CacheAssumption
  <2>2. CASE i # k
    BY <1>2, <1>4, <2>2 DEF TicketTypeOK, Stamped
  <2> QED BY <2>1, <2>2
<1> QED BY <1>5, <1>6, <1>7 DEF TicketInv

(* A lookup frees at most a slot.                                          *)
LEMMA GetInv ==
    ASSUME TicketInv, NEW h \in Host, Get(h)
    PROVE  TicketInv'
<1>1. UNCHANGED <<host, received, ticket, since, time>>
  BY DEF Get, slotVars
<1>2. used' \in [Slot -> BOOLEAN] /\ \A i \in Slot : used'[i] => used[i]
  <2>1. CASE used' = used
    BY <2>1 DEF TicketInv, TicketTypeOK
  <2>2. CASE \E k : used' = [used EXCEPT ![k] = FALSE]
    BY <2>2 DEF TicketInv, TicketTypeOK
  <2> QED BY <2>1, <2>2 DEF Get, slotVars
<1> QED BY <1>1, <1>2 DEF TicketInv, TicketTypeOK, OneSlotPerHost, Stamped

LEMMA ResetInv == TicketInv /\ TicketReset => TicketInv'
<1> SUFFICES ASSUME TicketInv, TicketReset PROVE TicketInv'
  OBVIOUS
<1>1. TicketTypeOK'
  BY CacheAssumption DEF CacheAssumption, TicketInv, TicketTypeOK, TicketReset
<1> QED BY <1>1 DEF TicketReset, TicketInv, OneSlotPerHost, Stamped

LEMMA TickInv == TicketInv /\ TicketTick => TicketInv'
<1> SUFFICES ASSUME TicketInv, TicketTick PROVE TicketInv'
  OBVIOUS
<1>1. TicketTypeOK'
  BY CacheAssumption DEF CacheAssumption, TicketInv, TicketTypeOK, TicketTick, slotVars
<1>2. OneSlotPerHost'
  BY DEF TicketTick, slotVars, TicketInv, OneSlotPerHost
<1>3. Stamped'
  BY CacheAssumption DEF CacheAssumption, TicketTick, slotVars, TicketInv, Stamped, TicketTypeOK
<1> QED BY <1>1, <1>2, <1>3 DEF TicketInv

LEMMA TicketNextInv == TicketInv /\ [TicketNext]_ticketVars => TicketInv'
<1> SUFFICES ASSUME TicketInv, [TicketNext]_ticketVars PROVE TicketInv'
  OBVIOUS
<1>1. CASE \E h \in Host, t \in Ticket : Put(h, t)
  BY <1>1, PutInv
<1>2. CASE \E h \in Host : Get(h)
  BY <1>2, GetInv
<1>3. CASE TicketReset
  BY <1>3, ResetInv
<1>4. CASE TicketTick
  BY <1>4, TickInv
<1>5. CASE UNCHANGED ticketVars
  BY <1>5 DEF ticketVars, slotVars, TicketInv, TicketTypeOK, OneSlotPerHost, Stamped
<1> QED BY <1>1, <1>2, <1>3, <1>4, <1>5 DEF TicketNext

(* Types, one slot per host, and stamps that are the times of storing, for *)
(* OSTLS_TicketCachePut, OSTLS_TicketCacheGet and OSTLS_TicketCacheReset   *)
(* in any order.                                                           *)
THEOREM TicketInvariance == TicketSpec => []TicketInv
<1>1. TicketInit => TicketInv
  BY TicketInitInv
<1>2. TicketInv /\ [TicketNext]_ticketVars => TicketInv'
  BY TicketNextInv
<1> QED BY <1>1, <1>2, PTL DEF TicketSpec

(* The slots have their types, and a slot in use has been filled.          *)
THEOREM TicketTypeCorrect == TicketSpec => []TicketTypeOK
<1>1. TicketInv => TicketTypeOK
  BY DEF TicketInv
<1> QED BY <1>1, TicketInvariance, PTL

(* No host has two slots, whatever expiry and eviction freed in front.     *)
THEOREM OneSlot == TicketSpec => []OneSlotPerHost
<1>1. TicketInv => OneSlotPerHost
  BY DEF TicketInv
<1> QED BY <1>1, TicketInvariance, PTL

(* While the tick count has not wrapped over the entries, what             *)
(* OSTLS_TicketCachePut evicts was stored no later than what stays.        *)
THEOREM OldestEvicted == TicketSpec => EvictsOldest
<1> DEFINE Kept == SameEra /\ Free = {} =>
             \A i \in Slot : host'[i] # host[i] /\ used'[i] => \A j \in Slot : since[i] <= since[j]
<1>1. TicketTypeOK /\ [TicketNext]_ticketVars => [Kept]_ticketVars
  <2> SUFFICES ASSUME TicketTypeOK, TicketNext, SameEra, Free = {},
                      NEW i \in Slot, host'[i] # host[i], used'[i], NEW j \in Slot
               PROVE  since[i] <= since[j]
    BY DEF Kept
  <2>1. PICK h \in Host, t \in Ticket : Put(h, t)
    BY DEF TicketNext, Get, TicketReset, TicketTick, slotVars
  <2>2. i = Target(h)
    BY <2>1 DEF Put, TicketTypeOK
  <2>3. i \notin Holds(h)
    BY <2>1, <2>2 DEF Put, Holds, TicketTypeOK
  <2>4. i \in Oldest
    BY <2>2, <2>3, TargetFacts
  <2>5. received[i] <= received[j]
    BY <2>4 DEF Oldest
  <2> QED BY <2>5 DEF SameEra
<1> QED BY <1>1, TicketTypeCorrect, PTL DEF TicketSpec, EvictsOldest, Kept
-------------------------------------------------------------------------------
(* The abstract map.                                                       *)

Entries == [h \in Held |-> [value |-> ticket[SlotOf(h)], at |-> since[SlotOf(h)]]]

EntryOf(i) == [value |-> ticket[i], at |-> since[i]]

(* The slots in use, read as a map.                                        *)
LEMMA EntriesAre ==
    TicketInv => \A i \in Slot : used[i] => Entries[host[i]] = EntryOf(i)
<1> SUFFICES ASSUME TicketInv, NEW i \in Slot, used[i] PROVE Entries[host[i]] = EntryOf(i)
  OBVIOUS
<1>1. host[i] \in Held
  BY DEF Held
<1>2. SlotOf(host[i]) = i
  BY DEF SlotOf, TicketInv, OneSlotPerHost
<1> QED BY <1>1, <1>2 DEF Entries, EntryOf

LEMMA EntriesNext ==
    (TicketInv => \A i \in Slot : used[i] => Entries[host[i]] = EntryOf(i))'
BY EntriesAre, PTL

(* A host is held by the slot it is found in.                              *)
LEMMA HeldBy ==
    ASSUME NEW h
    PROVE  /\ h \in Held <=> Holds(h) # {}
           /\ \A i \in Holds(h) : i \in Slot /\ used[i] /\ host[i] = h
BY DEF Held, Holds

(* As many hosts are held as slots are in use.                             *)
LEMMA HeldCount ==
    ASSUME TicketInv
    PROVE  /\ Free # {} => Cardinality(Held) < Slots
           /\ Free = {} => Cardinality(Held) = Slots
<1> DEFINE U == {i \in Slot : used[i]}
           f == [i \in U |-> host[i]]
<1>1. IsFiniteSet(Slot) /\ Cardinality(Slot) = Slots
  BY FS_Interval, CacheAssumption DEF Slot, CacheAssumption
<1>2. IsFiniteSet(U) /\ Cardinality(U) <= Slots /\ (Cardinality(U) = Slots => U = Slot)
  BY <1>1, FS_Subset
<1>3. f \in Bijection(U, Held)
  <2>1. f \in [U -> Held] /\ \A h \in Held : \E i \in U : f[i] = h
    BY DEF Held
  <2>2. \A i, j \in U : f[i] = f[j] => i = j
    BY DEF TicketInv, OneSlotPerHost
  <2> QED BY <2>1, <2>2 DEF Bijection, Injection, Surjection, IsInjective
<1>4. Cardinality(Held) = Cardinality(U)
  BY <1>2, <1>3, FS_Bijection DEF ExistsBijection
<1>5. Free # {} => U # Slot
  BY DEF Free
<1>6. Free = {} => U = Slot
  BY DEF Free
<1>7. Cardinality(U) \in Nat /\ Slots \in Nat
  BY <1>2, FS_CardinalityType, CacheAssumption DEF CacheAssumption
<1> HIDE DEF U
<1>8. Free # {} => Cardinality(U) < Slots
  BY <1>2, <1>5, <1>7
<1> QED BY <1>1, <1>4, <1>6, <1>8

(* LeaseMap counts with its own copy of Cardinality.                       *)
LEMMA SameCardinality == \A S : Map!Cardinality(S) = Cardinality(S)
BY Zenon DEF Map!Cardinality, Cardinality

LEMMA InitMap == TicketInit => Map!Init
BY DEF TicketInit, EmptySlots, Map!Init, Held
(* Two maps are equal when they are equal entry by entry.                  *)
LEMMA SameMap ==
    ASSUME NEW f, NEW g, NEW D, f = [x \in D |-> f[x]], g = [x \in D |-> g[x]],
           \A x \in D : f[x] = g[x]
    PROVE  f = g
<1>1. [x \in D |-> f[x]] = [x \in D |-> g[x]]
  OBVIOUS
<1> QED BY <1>1

(* Storing: the slot filled is the host's, or was free, or is lost to the  *)
(* map, which was full.                                                    *)
LEMMA PutMap ==
    ASSUME TicketInv, TicketInv', NEW h \in Host, NEW t \in Ticket, Put(h, t)
    PROVE  Map!Put(h, t)
<1>1. PICK k : k = Target(h)
  OBVIOUS
<1>2. /\ k \in Slot
      /\ Holds(h) # {} => k \in Holds(h)
      /\ Holds(h) = {} /\ Free # {} => k \in Free
  BY <1>1, TargetFacts DEF TicketInv
<1>3. /\ used' = [used EXCEPT ![k] = TRUE] /\ host' = [host EXCEPT ![k] = h]
      /\ ticket' = [ticket EXCEPT ![k] = t] /\ since' = [since EXCEPT ![k] = time]
      /\ UNCHANGED <<time, answer>>
  BY <1>1 DEF Put
<1>4. /\ used'[k] /\ host'[k] = h /\ EntryOf(k)' = [value |-> t, at |-> time]
      /\ \A i \in Slot : i # k => used'[i] = used[i] /\ host'[i] = host[i] /\ EntryOf(i)' = EntryOf(i)
  BY <1>2, <1>3 DEF TicketInv, TicketTypeOK, EntryOf
<1> DEFINE gone == IF used[k] /\ host[k] # h THEN {host[k]} ELSE {}
<1>5. gone \in SUBSET (Held \ {h})
  BY <1>2 DEF Held
<1>6. IF h \in Held \/ Cardinality(Held) < Slots THEN gone = {} ELSE Cardinality(gone) = 1
  <2>1. CASE h \in Held
    BY <1>2, <2>1, HeldBy
  <2>2. CASE h \notin Held /\ Free # {}
    <3>1. Holds(h) = {}
      BY <2>2, HeldBy
    <3>2. gone = {}
      BY <1>2, <2>2, <3>1 DEF Free
    <3> QED BY <2>2, <3>2, HeldCount
  <2>3. CASE h \notin Held /\ Free = {}
    <3>1. used[k] /\ host[k] # h
      BY <1>2, <2>3 DEF Free, Held
    <3>2. Cardinality(gone) = 1
      BY <3>1, FS_Singleton
    <3>3. ~ (Cardinality(Held) < Slots)
      BY <2>3, HeldCount, CacheAssumption DEF CacheAssumption
    <3> QED BY <2>3, <3>2, <3>3
  <2> QED BY <2>1, <2>2, <2>3
<1>7. Held' = (Held \ gone) \cup {h}
  <2>1. Held' = {host'[i] : i \in {j \in Slot : used'[j]}}
    BY DEF Held
  <2>2. ASSUME NEW x \in Held' PROVE x \in (Held \ gone) \cup {h}
    <3>1. PICK i \in Slot : used'[i] /\ x = host'[i]
      BY <2>1, <2>2
    <3>2. CASE i = k
      BY <1>4, <3>1, <3>2
    <3>3. CASE i # k
      <4>1. used[i] /\ x = host[i] /\ x \in Held
        BY <1>4, <3>1, <3>3 DEF Held
      <4>2. used[k] => host[k] # x
        BY <1>2, <3>3, <4>1 DEF TicketInv, OneSlotPerHost
      <4> QED BY <4>1, <4>2
    <3> QED BY <3>2, <3>3
  <2>3. ASSUME NEW x \in (Held \ gone) \cup {h} PROVE x \in Held'
    <3>1. CASE x = h
      BY <1>2, <1>4, <2>1, <3>1
    <3>2. CASE x # h
      <4>1. x \in Held /\ x \notin gone
        BY <2>3, <3>2
      <4>2. PICK i \in Slot : used[i] /\ x = host[i]
        BY <4>1 DEF Held
      <4>3. i # k
        BY <3>2, <4>1, <4>2
      <4> QED BY <1>4, <2>1, <4>2, <4>3
    <3> QED BY <3>1, <3>2
  <2> QED BY <2>2, <2>3
<1>8. Entries' = [x \in (Held \ gone) \cup {h} |->
                    IF x = h THEN [value |-> t, at |-> time] ELSE Entries[x]]
  <2> DEFINE new == [x \in (Held \ gone) \cup {h} |->
                    IF x = h THEN [value |-> t, at |-> time] ELSE Entries[x]]
  <2>1. Entries' = [x \in Held' |-> Entries'[x]]
    BY DEF Entries
  <2>2. new = [x \in Held' |-> new[x]]
    BY <1>7
  <2>3. (\A i \in Slot : used[i] => Entries[host[i]] = EntryOf(i))'
    BY EntriesNext
  <2>4. \A i \in Slot : used[i] => Entries[host[i]] = EntryOf(i)
    BY EntriesAre
  <2>5. ASSUME NEW x \in Held' PROVE Entries'[x] = new[x]
    <3>1. PICK i \in Slot : used'[i] /\ x = host'[i]
      BY <2>5 DEF Held
    <3>2. CASE i = k
      BY <1>4, <1>7, <2>3, <3>1, <3>2
    <3>3. CASE i # k
      <4>1. used[i] /\ x = host[i] /\ EntryOf(i)' = EntryOf(i)
        BY <1>4, <3>1, <3>3
      <4>2. x # h
        BY <1>2, <1>4, <3>1, <3>3 DEF TicketInv, OneSlotPerHost
      <4>3. Entries'[x] = EntryOf(i)
        BY <2>3, <3>1, <4>1
      <4>4. Entries[x] = EntryOf(i)
        BY <2>4, <4>1
      <4> QED BY <1>7, <4>2, <4>3, <4>4
    <3> QED BY <3>2, <3>3
  <2> HIDE DEF new
  <2> QED BY <2>1, <2>2, <2>5, SameMap DEF new
<1>9. DOMAIN Entries = Held
  BY DEF Entries
<1>10. IF h \in DOMAIN Entries \/ Map!Cardinality(DOMAIN Entries) < Slots
       THEN gone = {} ELSE Map!Cardinality(gone) = 1
  BY <1>6, <1>9, SameCardinality
<1>11. gone \in SUBSET (DOMAIN Entries \ {h})
  BY <1>5, <1>9
<1>12. Entries' = Map!Hold(h, [value |-> t, at |-> time], DOMAIN Entries \ gone)
  BY <1>8, <1>9 DEF Map!Hold, Entries
<1> HIDE DEF gone
<1> QED BY <1>3, <1>10, <1>11, <1>12 DEF Map!Put, Entries
(* The difference the code takes is the age, on either side of the wrap.   *)
LEMMA ElapsedIsAge ==
    ASSUME TicketInv, NEW i \in Slot, used[i]
    PROVE  Elapsed(i) = time - since[i] /\ time - since[i] \in Nat
<1>1. /\ ClockSize \in Nat \ {0} /\ Boot \in 0..ClockSize - 1
      /\ time \in 0..ClockSize - 1 /\ since[i] \in 0..ClockSize - 1 /\ since[i] <= time
      /\ received[i] = (Boot + since[i]) % ClockSize
  BY CacheAssumption DEF CacheAssumption, TicketInv, TicketTypeOK, Stamped
<1>2. (((Boot + time) % ClockSize) - ((Boot + since[i]) % ClockSize)) % ClockSize = time - since[i]
  BY <1>1, WrappedDifference
<1>3. time - since[i] \in Nat
  BY <1>1
<1> QED BY <1>1, <1>2, <1>3 DEF Elapsed, ticketNow

(* A lookup: what the first slot of the host says is what the map says.    *)
LEMMA GetMap ==
    ASSUME TicketInv, TicketInv', NEW h \in Host, Get(h)
    PROVE  Map!Found(h) \/ Map!NotFound(h)
<1>1. DOMAIN Entries = Held /\ Entries = [x \in Held |-> Entries[x]]
  BY DEF Entries
<1>2. CASE Holds(h) = {}
  <2>1. h \notin Held
    BY <1>2, HeldBy
  <2>2. answer' = Miss /\ UNCHANGED <<slotVars, time>>
    BY <1>2 DEF Get
  <2>3. Entries' = Entries
    BY <2>2 DEF Entries, Held, SlotOf, slotVars
  <2>4. Entries' = [x \in DOMAIN Entries \ {h} |-> Entries[x]]
    <3>1. DOMAIN Entries \ {h} = Held
      BY <1>1, <2>1
    <3> QED BY <1>1, <2>3, <3>1
  <2>5. ~ Map!Live(h)
    BY <1>1, <2>1 DEF Map!Live, Entries
  <2> QED BY <2>2, <2>4, <2>5 DEF Map!NotFound, Entries
<1>3. CASE Holds(h) # {}
  <2>1. PICK i : i = Least(Holds(h))
    OBVIOUS
  <2>2. i \in Slot /\ used[i] /\ host[i] = h
    <3>1. Holds(h) \subseteq Nat
      BY CacheAssumption DEF Holds, Slot, CacheAssumption
    <3>2. i \in Holds(h)
      BY <1>3, <2>1, <3>1, LeastIn
    <3> QED BY <3>2 DEF Holds
  <2>3. Entries[h] = EntryOf(i) /\ h \in Held
    BY <2>2, EntriesAre DEF Held
  <2>4. PICK e \in Nat : e = time - since[i] /\ Elapsed(i) = e
    BY <2>2, ElapsedIsAge
  <2>5. Map!Age(h) = e
    BY <2>3, <2>4 DEF Map!Age, Entries, EntryOf
  <2>6. Map!Live(h) <=> ~ Expired(i)
    <3>1. Map!Live(h) <=> e \div TicksPerSec < Lifetime[ticket[i]]
      BY <1>1, <2>3, <2>5 DEF Map!Live, Entries, EntryOf, Lasts
    <3>2. Expired(i) <=> e \div TicksPerSec >= Lifetime[ticket[i]]
      BY <2>4 DEF Expired
    <3>3. Lifetime[ticket[i]] \in Nat
      BY <2>2, CacheAssumption DEF CacheAssumption, TicketInv, TicketTypeOK
    <3>4. TicksPerSec \in Nat \ {0}
      BY CacheAssumption DEF CacheAssumption
    <3>5. e \div TicksPerSec \in Int
      BY <3>4, Z3
    <3> QED BY <3>1, <3>2, <3>3, <3>5
  <2>7. CASE Expired(i)
    <3>1. /\ used' = [used EXCEPT ![i] = FALSE] /\ answer' = Miss
          /\ UNCHANGED <<host, received, ticket, since, time>>
      BY <1>3, <2>1, <2>7 DEF Get
    <3>2. \A j \in Slot : used'[j] <=> used[j] /\ j # i
      BY <2>2, <3>1 DEF TicketInv, TicketTypeOK
    <3>3. Held' = Held \ {h}
      <4>1. \A j \in Slot : used[j] /\ j # i => host[j] # h
        BY <2>2 DEF TicketInv, OneSlotPerHost
      <4> QED BY <2>2, <3>1, <3>2, <4>1 DEF Held
    <3>4. Entries' = [x \in DOMAIN Entries \ {h} |-> Entries[x]]
      <4>1. (\A j \in Slot : used[j] => Entries[host[j]] = EntryOf(j))'
        BY EntriesNext
      <4>2. ASSUME NEW x \in Held' PROVE Entries'[x] = Entries[x]
        <5>1. PICK j \in Slot : used'[j] /\ x = host'[j]
          BY <4>2 DEF Held
        <5>2. used[j] /\ x = host[j] /\ EntryOf(j)' = EntryOf(j)
          BY <3>1, <3>2, <5>1 DEF EntryOf
        <5> QED BY <4>1, <5>1, <5>2, EntriesAre
      <4>3. Entries' = [x \in Held' |-> Entries'[x]]
        BY DEF Entries
      <4> DEFINE rest == [x \in Held' |-> Entries[x]]
      <4>4. rest = [x \in Held' |-> rest[x]] /\ \A x \in Held' : Entries'[x] = rest[x]
        BY <4>2
      <4> HIDE DEF rest
      <4>5. Entries' = rest
        BY <4>3, <4>4, SameMap
      <4> QED BY <1>1, <3>3, <4>5 DEF rest
    <3> QED BY <2>6, <2>7, <3>1, <3>4 DEF Map!NotFound, Entries
  <2>8. CASE ~ Expired(i)
    <3>1. answer' = [value |-> ticket[i], age |-> AgeMillis(i)] /\ UNCHANGED <<slotVars, time>>
      BY <1>3, <2>1, <2>8 DEF Get
    <3>2. Entries' = Entries
      BY <3>1 DEF Entries, Held, SlotOf, slotVars
    <3>3. AgeMillis(i) = Map!Millis(Map!Age(h))
      <4>1. TicksPerSec \in Nat \ {0}
        BY CacheAssumption DEF CacheAssumption
      <4>2. (e \div TicksPerSec) * 1000 + ((e % TicksPerSec) * 1000) \div TicksPerSec
              = (e * 1000) \div TicksPerSec
        <5>1. PICK K \in Nat : K = 1000
          OBVIOUS
        <5>2. (e \div TicksPerSec) * K + ((e % TicksPerSec) * K) \div TicksPerSec
                = (e * K) \div TicksPerSec
          BY <4>1, MillisSplit, Zenon
        <5> QED BY <5>1, <5>2
      <4> QED BY <2>4, <2>5, <4>2 DEF AgeMillis, Map!Millis
    <3>4. Entries[h].value = ticket[i]
      BY <2>3 DEF EntryOf
    <3> QED BY <2>6, <2>8, <3>1, <3>2, <3>3, <3>4 DEF Map!Found, Entries
  <2> QED BY <2>7, <2>8
<1> QED BY <1>2, <1>3

LEMMA ResetMap == ASSUME TicketReset PROVE Map!Reset
<1>1. Held' = {}
  BY DEF TicketReset, Held
<1> QED BY <1>1 DEF TicketReset, Map!Reset

LEMMA TickMap == ASSUME TicketTick PROVE Map!Tick
<1>1. Entries' = Entries
  BY DEF TicketTick, Entries, Held, SlotOf, slotVars
<1> QED BY <1>1 DEF TicketTick, Map!Tick, Entries

(* Looked up, stored, forgotten and evicted in any order, on either side   *)
(* of the wrap of the tick count, the slots behave as LeaseMap: the        *)
(* contract of ostls_ticket_cache.h.                                       *)
THEOREM CacheIsLeaseMap == TicketSpec => ImplementsLeaseMap
<1>1. TicketInit => Map!Init
  BY InitMap
<1>2. TicketInv /\ TicketInv' /\ [TicketNext]_ticketVars => [Map!Next]_(<<Entries, time, answer>>)
  <2> SUFFICES ASSUME TicketInv, TicketInv', [TicketNext]_ticketVars
               PROVE  Map!Next \/ UNCHANGED <<Entries, time, answer>>
    OBVIOUS
  <2>1. CASE \E h \in Host, t \in Ticket : Put(h, t)
    BY <2>1, PutMap DEF Map!Next
  <2>2. CASE \E h \in Host : Get(h)
    BY <2>2, GetMap DEF Map!Next
  <2>3. CASE TicketReset
    BY <2>3, ResetMap DEF Map!Next
  <2>4. CASE TicketTick
    BY <2>4, TickMap DEF Map!Next
  <2>5. CASE UNCHANGED ticketVars
    BY <2>5 DEF ticketVars, slotVars, Entries, Held, SlotOf
  <2> QED BY <2>1, <2>2, <2>3, <2>4, <2>5 DEF TicketNext
<1> QED BY <1>1, <1>2, TicketInvariance, PTL DEF TicketSpec, ImplementsLeaseMap, Map!Spec, Entries

-------------------------------------------------------------------------------
(* The chunk decoder (HttpChunked).                                        *)

(* FlattenSeq's function exists for every number of parts: the first for   *)
(* which it did not would follow one for which it does.                    *)
LEMMA FlattenExists ==
    ASSUME NEW q, NEW N \in Nat
    PROVE  \E f : f = [i \in 1..N |-> IF i = 1 THEN q[i] ELSE f[i - 1] \o q[i]]
<1> DEFINE Exists(k) == \E f : f = [i \in 1..k |-> IF i = 1 THEN q[i] ELSE f[i - 1] \o q[i]]
           Missing == {k \in Nat : ~ Exists(k)}
<1>1. SUFFICES ASSUME Missing # {} PROVE FALSE
  OBVIOUS
<1>2. PICK k \in Missing : \A j \in Missing : k <= j
  BY <1>1, LeastNatural
<1>3. Exists(0)
  <2> DEFINE f == [i \in 1..0 |-> <<>>]
  <2>1. f = [i \in 1..0 |-> IF i = 1 THEN q[i] ELSE f[i - 1] \o q[i]]
    <3>1. \A i \in 1..0 : FALSE
      OBVIOUS
    <3> QED BY <3>1
  <2> QED BY <2>1
<1>4. k # 0 /\ k \in Nat
  BY <1>2, <1>3
<1>5. k - 1 \in Nat /\ Exists(k - 1)
  <2>1. k - 1 \in Nat /\ ~ (k <= k - 1)
    BY <1>4
  <2>2. k - 1 \notin Missing
    BY <1>2, <2>1
  <2> QED BY <2>1, <2>2
<1>6. PICK g : g = [i \in 1..(k - 1) |-> IF i = 1 THEN q[i] ELSE g[i - 1] \o q[i]]
  BY <1>5
<1> DEFINE h == [i \in 1..k |-> IF i = 1 THEN q[i] ELSE g[i - 1] \o q[i]]
<1>7. \A i \in 1..k : i # 1 => i - 1 \in 1..k /\ i - 1 \in 1..(k - 1)
  BY <1>4
<1>8. \A i \in 1..(k - 1) : h[i] = g[i]
  <2> TAKE i \in 1..(k - 1)
  <2>1. i \in 1..k
    BY <1>4
  <2>2. g[i] = IF i = 1 THEN q[i] ELSE g[i - 1] \o q[i]
    BY <1>6
  <2> QED BY <2>1, <2>2
<1>9. h = [i \in 1..k |-> IF i = 1 THEN q[i] ELSE h[i - 1] \o q[i]]
  <2>1. \A i \in 1..k : i # 1 => h[i - 1] = g[i - 1]
    BY <1>7, <1>8
  <2> HIDE DEF h
  <2>2. h = [i \in 1..k |-> IF i = 1 THEN q[i] ELSE g[i - 1] \o q[i]]
    BY DEF h
  <2> QED BY <2>1, <2>2
<1> HIDE DEF h
<1>10. Exists(k)
  BY <1>9
<1> QED BY <1>2, <1>10

LEMMA FlattenIs ==
    ASSUME NEW q, Len(q) \in Nat \ {0}
    PROVE  \E f : /\ f = [i \in 1..Len(q) |-> IF i = 1 THEN q[i] ELSE f[i - 1] \o q[i]]
                  /\ FlattenSeq(q) = f[Len(q)]
<1>1. \E f : f = [i \in 1..Len(q) |-> IF i = 1 THEN q[i] ELSE f[i - 1] \o q[i]]
  BY FlattenExists
<1> QED BY <1>1 DEF FlattenSeq

(* The first i parts of q, joined.                                         *)
Joined(q, i) == FlattenSeq(SubSeq(q, 1, i))

(* f joins the first parts of q, as many as n.                             *)
Flattens(f, q, n) == f = [i \in 1..n |-> IF i = 1 THEN q[i] ELSE f[i - 1] \o q[i]]

Agree(f, g, n) == \A i \in 1..n : g[i] = f[i]

(* Two functions that join the same parts agree as far as both go.         *)
LEMMA FlattensAgree ==
    ASSUME NEW q, NEW r, NEW f, NEW g, NEW n \in Nat, NEW N \in Nat, n <= N,
           Flattens(f, q, N), Flattens(g, r, n), Agree(q, r, n)
    PROVE  Agree(f, g, n)
<1>0. \A i \in 1..n : r[i] = q[i]
  BY DEF Agree
<1> DEFINE Bad == {i \in 1..n : g[i] # f[i]}
<1>1. SUFFICES ASSUME Bad # {} PROVE FALSE
  BY DEF Agree
<1>2. Bad \subseteq Nat
  OBVIOUS
<1>3. PICK k \in Bad : \A j \in Bad : k <= j
  BY <1>1, <1>2, LeastNatural
<1>4. k \in 1..n /\ k \in 1..N /\ g[k] # f[k]
  BY <1>3
<1>5. /\ g[k] = IF k = 1 THEN r[k] ELSE g[k - 1] \o r[k]
      /\ f[k] = IF k = 1 THEN q[k] ELSE f[k - 1] \o q[k]
  BY <1>4 DEF Flattens
<1>6. r[k] = q[k]
  BY <1>0, <1>4
<1>7. k # 1 /\ k - 1 \in 1..n /\ ~ (k <= k - 1)
  BY <1>4, <1>5, <1>6
<1>8. g[k - 1] = f[k - 1]
  BY <1>3, <1>7
<1> QED BY <1>4, <1>5, <1>6, <1>7, <1>8

(* One part more.                                                          *)
LEMMA JoinedStep ==
    ASSUME NEW V, NEW q \in Seq(Seq(V))
    PROVE  /\ Joined(q, 0) = <<>> /\ FlattenSeq(q) = Joined(q, Len(q))
           /\ \A i \in 1..Len(q) : Joined(q, i) = Joined(q, i - 1) \o q[i]
<1>1. Len(q) \in Nat /\ \A i \in 1..Len(q) : q[i] \in Seq(V)
  OBVIOUS
<1>2. ASSUME NEW i \in 0..Len(q)
      PROVE  /\ Len(SubSeq(q, 1, i)) = i /\ \A u \in 1..i : SubSeq(q, 1, i)[u] = q[u]
             /\ i = 0 <=> SubSeq(q, 1, i) = <<>>
  BY FirstPieceIs
<1>3. SubSeq(q, 1, Len(q)) = q
  BY <1>1
<1>4. Joined(q, 0) = <<>>
  <2>1. SubSeq(q, 1, 0) = <<>>
    BY <1>1, <1>2
  <2>2. FlattenSeq(<<>>) = <<>>
    BY DEF FlattenSeq
  <2> QED BY <2>1, <2>2 DEF Joined
<1>5. FlattenSeq(q) = Joined(q, Len(q))
  BY <1>3 DEF Joined
<1>6. ASSUME NEW i \in 1..Len(q) PROVE Joined(q, i) = Joined(q, i - 1) \o q[i]
  <2>1. i \in Nat \ {0} /\ i \in 0..Len(q) /\ i - 1 \in 0..Len(q)
    BY <1>1
  <2>2. PICK f : Flattens(f, q, Len(q))
    BY <1>1, FlattenExists DEF Flattens
  <2>3. ASSUME NEW n \in 1..Len(q) PROVE Joined(q, n) = f[n]
    <3>1. PICK r : r = SubSeq(q, 1, n)
      OBVIOUS
    <3>2. Len(r) = n /\ n \in Nat \ {0} /\ n \in Nat /\ n <= Len(q)
      BY <1>1, <1>2, <2>3, <3>1
    <3>3. Agree(q, r, n)
      BY <1>1, <1>2, <2>3, <3>1 DEF Agree
    <3>4. PICK g : Flattens(g, r, Len(r)) /\ FlattenSeq(r) = g[Len(r)]
      BY <3>2, FlattenIs DEF Flattens
    <3>5. Flattens(g, r, n)
      BY <3>2, <3>4
    <3>6. Agree(f, g, n)
      BY <1>1, <2>2, <3>2, <3>3, <3>5, FlattensAgree
    <3>7. g[n] = f[n]
      BY <3>2, <3>6 DEF Agree
    <3>8. FlattenSeq(r) = f[n]
      BY <3>2, <3>4, <3>7
    <3> QED BY <3>1, <3>8 DEF Joined
  <2>4. f[i] = IF i = 1 THEN q[i] ELSE f[i - 1] \o q[i]
    BY <2>2 DEF Flattens
  <2>5. CASE i = 1
    <3>1. Joined(q, i - 1) = <<>>
      BY <1>4, <2>5
    <3>2. IsSeq(q[i])
      BY <1>1 DEF IsSeq
    <3>3. <<>> \o q[i] = q[i]
      BY <3>2, JoinOne
    <3> QED BY <2>3, <2>4, <2>5, <3>1, <3>3
  <2>6. CASE i # 1
    <3>1. i - 1 \in 1..Len(q)
      BY <2>1, <2>6
    <3>2. Joined(q, i - 1) = f[i - 1] /\ Joined(q, i) = f[i]
      BY <2>3, <3>1
    <3> QED BY <2>4, <2>6, <3>2
  <2> QED BY <2>5, <2>6
<1> QED BY <1>4, <1>5, <1>6

(* What is joined has each part in its place.                              *)
LEMMA JoinedIs ==
    ASSUME NEW V, NEW q \in Seq(Seq(V))
    PROVE  /\ FlattenSeq(q) \in Seq(V) /\ Len(Joined(q, 0)) = 0
           /\ Len(FlattenSeq(q)) = Len(Joined(q, Len(q)))
           /\ \A i \in 0..Len(q) : /\ Len(Joined(q, i)) \in Nat
                                   /\ Len(Joined(q, i)) <= Len(FlattenSeq(q))
           /\ \A i \in 1..Len(q) :
                /\ Len(Joined(q, i)) = Len(Joined(q, i - 1)) + Len(q[i])
                /\ \A k \in 1..Len(q[i]) : FlattenSeq(q)[Len(Joined(q, i - 1)) + k] = q[i][k]
<1>1. Len(q) \in Nat /\ \A i \in 1..Len(q) : q[i] \in Seq(V)
  OBVIOUS
<1>2. /\ Joined(q, 0) = <<>> /\ FlattenSeq(q) = Joined(q, Len(q))
      /\ \A i \in 1..Len(q) : Joined(q, i) = Joined(q, i - 1) \o q[i]
  BY JoinedStep
<1> DEFINE at(i) == Len(Joined(q, i))
           Good(n) == /\ Joined(q, n) \in Seq(V)
                      /\ n # 0 => at(n) = at(n - 1) + Len(q[n])
                      /\ \A i \in 0..n : at(i) \in Nat /\ at(i) <= at(n)
                      /\ \A i \in 1..n : \A k \in 1..Len(q[i]) :
                           at(i - 1) + k <= at(n) /\ Joined(q, n)[at(i - 1) + k] = q[i][k]
<1>3. Good(0)
  <2>1. Joined(q, 0) \in Seq(V) /\ at(0) = 0
    <3>1. <<>> \in Seq(V)
      OBVIOUS
    <3> QED BY <1>2, <3>1, ShortSeq
  <2> HIDE DEF at
  <2>2. (\A i \in 0..0 : i = 0) /\ \A i \in 1..0 : FALSE
    OBVIOUS
  <2>3. at(0) \in Nat /\ at(0) <= at(0)
    BY <2>1
  <2> QED BY <2>1, <2>2, <2>3
<1>4. ASSUME NEW n \in 1..Len(q), Good(n - 1) PROVE Good(n)
  <2> DEFINE a == Joined(q, n - 1)
             b == q[n]
  <2>1. a \in Seq(V) /\ b \in Seq(V) /\ Joined(q, n) = a \o b
    BY <1>1, <1>2, <1>4
  <2>2. /\ a \o b \in Seq(V) /\ Len(a \o b) = Len(a) + Len(b) /\ Len(a) \in Nat /\ Len(b) \in Nat
        /\ \A k \in 1..Len(a) : (a \o b)[k] = a[k]
        /\ \A k \in 1..Len(b) : (a \o b)[Len(a) + k] = b[k]
    BY <2>1
  <2>3. at(n) = at(n - 1) + Len(q[n])
    BY <2>1, <2>2
  <2>0. Joined(q, n) \in Seq(V)
    BY <2>1, <2>2
  <2>4. ASSUME NEW i \in 0..n PROVE at(i) \in Nat /\ at(i) <= at(n)
    <3>1. CASE i = n
      <4>1. at(n) \in Nat
        BY <2>0
      <4> HIDE DEF at
      <4> QED BY <3>1, <4>1
    <3>2. CASE i # n
      <4>1. i \in 0..(n - 1)
        BY <1>1, <3>2
      <4>2. at(i) \in Nat /\ at(i) <= at(n - 1)
        BY <1>4, <4>1
      <4>3. at(n - 1) \in Nat /\ Len(q[n]) \in Nat
        BY <2>2
      <4> HIDE DEF at
      <4> QED BY <2>3, <4>2, <4>3
    <3> QED BY <3>1, <3>2
  <2>5. ASSUME NEW i \in 1..n, NEW k \in 1..Len(q[i])
        PROVE  at(i - 1) + k <= at(n) /\ Joined(q, n)[at(i - 1) + k] = q[i][k]
    <3>1. CASE i = n
      <4>1. Joined(q, n)[at(n - 1) + k] = q[n][k]
        BY <2>1, <2>2, <3>1
      <4>2. at(n - 1) \in Nat /\ Len(q[n]) \in Nat
        BY <2>2
      <4> HIDE DEF at
      <4> QED BY <2>3, <3>1, <4>1, <4>2
    <3>2. CASE i # n
      <4>1. i \in 1..(n - 1) /\ i - 1 \in 0..(n - 1) /\ i \in 1..Len(q)
        BY <1>1, <3>2
      <4>2. at(i - 1) + k <= at(n - 1) /\ a[at(i - 1) + k] = q[i][k]
        BY <1>4, <4>1
      <4>3. at(i - 1) \in Nat /\ Len(q[n]) \in Nat /\ at(n - 1) \in Nat
        BY <1>4, <2>2, <4>1
      <4>4. k \in Nat \ {0}
        BY <1>1, <4>1
      <4>5. at(n - 1) = Len(a)
        OBVIOUS
      <4> HIDE DEF at, a
      <4>6. at(i - 1) + k \in 1..Len(a) /\ at(i - 1) + k <= at(n)
        BY <2>3, <4>2, <4>3, <4>4, <4>5
      <4> QED BY <2>1, <2>2, <4>2, <4>6
    <3> QED BY <3>1, <3>2
  <2> HIDE DEF at
  <2> QED BY <2>0, <2>3, <2>4, <2>5
<1> HIDE DEF Good
<1>5. ASSUME NEW n \in 0..Len(q) PROVE Good(n)
  <2> DEFINE Bad == {m \in 0..Len(q) : ~ Good(m)}
  <2>1. SUFFICES ASSUME Bad # {} PROVE FALSE
    OBVIOUS
  <2>2. Bad \subseteq Nat
    BY <1>1
  <2>3. PICK k \in Bad : \A j \in Bad : k <= j
    BY <2>1, <2>2, LeastNatural
  <2>4. k \in 1..Len(q) /\ k - 1 \in 0..Len(q) /\ ~ (k <= k - 1)
    BY <1>1, <1>3, <2>3
  <2>5. Good(k - 1)
    BY <2>3, <2>4
  <2>6. Good(k)
    BY <1>4, <2>4, <2>5
  <2> QED BY <2>3, <2>6
<1>6. Good(Len(q)) /\ Len(q) \in 0..Len(q)
  BY <1>1, <1>5
<1>7. FlattenSeq(q) \in Seq(V) /\ at(0) = 0 /\ Len(FlattenSeq(q)) = at(Len(q))
  BY <1>2, <1>6 DEF Good
<1>8. \A i \in 0..Len(q) : at(i) \in Nat /\ at(i) <= Len(FlattenSeq(q))
  BY <1>2, <1>6 DEF Good
<1>9. ASSUME NEW i \in 1..Len(q)
      PROVE  /\ at(i) = at(i - 1) + Len(q[i])
             /\ \A k \in 1..Len(q[i]) : FlattenSeq(q)[at(i - 1) + k] = q[i][k]
  <2>1. i \in 0..Len(q) /\ i # 0
    BY <1>1
  <2>2. Good(i)
    BY <1>5, <2>1
  <2>3. at(i) = at(i - 1) + Len(q[i])
    BY <2>1, <2>2 DEF Good
  <2>4. \A k \in 1..Len(q[i]) : FlattenSeq(q)[at(i - 1) + k] = q[i][k]
    BY <1>2, <1>6 DEF Good
  <2> QED BY <2>3, <2>4
<1> QED BY <1>7, <1>8, <1>9

(* What is sent is made of parts: the chunks, the last chunk's size line,  *)
(* the lines of the trailer.                                               *)
Sent(m) == Encoded(m) \o m.after
Offset(m, i) == Len(Joined(WireParts(m), i))

LEMMA LineIs ==
    ASSUME NEW s \in Seq(Chars)
    PROVE  /\ Line(s) \in Seq(Chars) /\ Len(Line(s)) = Len(s) + 2 /\ Len(s) \in Nat
           /\ \A k \in 1..Len(s) : Line(s)[k] = s[k]
           /\ Line(s)[Len(s) + 1] = "CR" /\ Line(s)[Len(s) + 2] = "LF"
<1>1. EOL \in Seq(Chars) /\ Len(EOL) = 2 /\ EOL[1] = "CR" /\ EOL[2] = "LF"
  <2>1. "CR" \in Chars /\ "LF" \in Chars
    BY ChunkAssumption
  <2> QED BY <2>1 DEF EOL
<1> DEFINE e == EOL
<1>2. Line(s) = s \o e
  BY DEF Line
<1>3. e \in Seq(Chars) /\ Len(e) = 2 /\ e[1] = "CR" /\ e[2] = "LF"
  BY <1>1
<1> HIDE DEF e
<1>4. /\ s \o e \in Seq(Chars) /\ Len(s \o e) = Len(s) + Len(e) /\ Len(s) \in Nat
      /\ \A k \in 1..Len(s) : (s \o e)[k] = s[k]
      /\ \A k \in 1..Len(e) : (s \o e)[Len(s) + k] = e[k]
  <2>1. e \in Seq(Chars)
    BY <1>3
  <2> QED BY <2>1
<1>5. 1 \in 1..2 /\ 2 \in 1..2
  OBVIOUS
<1> QED BY <1>2, <1>3, <1>4, <1>5

LEMMA SizeLineIs ==
    ASSUME NEW c, IsSizeLine(c)
    PROVE  LET s == Len(c.size)
               e == Len(c.ext)
           IN /\ s \in Nat /\ e \in Nat
              /\ SizeLine(c) \in Seq(Chars) /\ Len(SizeLine(c)) = s + e + 2
              /\ \A k \in 1..s : SizeLine(c)[k] = c.size[k]
              /\ \A k \in 1..e : SizeLine(c)[s + k] = c.ext[k]
              /\ SizeLine(c)[s + e + 1] = "CR" /\ SizeLine(c)[s + e + 2] = "LF"
<1> DEFINE a == c.size
           b == c.ext
<1>1. a \in Seq(Chars) /\ b \in Seq(Chars)
  <2>1. DOMAIN DigitValue \subseteq Chars
    BY ChunkAssumption
  <2>2. c.size \in Seq(DOMAIN DigitValue) /\ c.ext \in Seq(Chars)
    BY DEF IsSizeLine
  <2> QED BY <2>1, <2>2
<1>2. SizeLine(c) = Line(a \o b)
  BY DEF SizeLine
<1> HIDE DEF a, b
<1> DEFINE t == a \o b
<1>3. /\ t \in Seq(Chars) /\ Len(t) = Len(a) + Len(b) /\ Len(a) \in Nat /\ Len(b) \in Nat
      /\ \A k \in 1..Len(a) : t[k] = a[k]
      /\ \A k \in 1..Len(b) : t[Len(a) + k] = b[k]
  BY <1>1
<1> HIDE DEF t
<1>4. /\ Line(t) \in Seq(Chars) /\ Len(Line(t)) = Len(t) + 2 /\ Len(t) \in Nat
      /\ \A k \in 1..Len(t) : Line(t)[k] = t[k]
      /\ Line(t)[Len(t) + 1] = "CR" /\ Line(t)[Len(t) + 2] = "LF"
  BY <1>3, LineIs
<1>5. /\ \A k \in 1..Len(a) : Line(t)[k] = a[k]
      /\ \A k \in 1..Len(b) : Line(t)[Len(a) + k] = b[k]
  <2>1. \A k \in 1..Len(a) : k \in 1..Len(t)
    BY <1>3
  <2>2. \A k \in 1..Len(b) : Len(a) + k \in 1..Len(t)
    BY <1>3
  <2> QED BY <1>3, <1>4, <2>1, <2>2
<1>6. Line(t)[Len(a) + Len(b) + 1] = "CR" /\ Line(t)[Len(a) + Len(b) + 2] = "LF"
  BY <1>3, <1>4
<1>7. SizeLine(c) = Line(t)
  BY <1>2 DEF t
<1>8. /\ Len(a) \in Nat /\ Len(b) \in Nat
      /\ SizeLine(c) \in Seq(Chars) /\ Len(SizeLine(c)) = Len(a) + Len(b) + 2
      /\ \A k \in 1..Len(a) : SizeLine(c)[k] = a[k]
      /\ \A k \in 1..Len(b) : SizeLine(c)[Len(a) + k] = b[k]
      /\ SizeLine(c)[Len(a) + Len(b) + 1] = "CR" /\ SizeLine(c)[Len(a) + Len(b) + 2] = "LF"
  BY <1>3, <1>4, <1>5, <1>6, <1>7
<1> QED BY <1>8 DEF a, b

LEMMA ChunkIs ==
    ASSUME NEW c, IsChunk(c)
    PROVE  LET h == Len(SizeLine(c))
               n == Len(c.data)
           IN /\ h \in Nat /\ n \in Nat \ {0} /\ Chunk(c) \in Seq(Chars)
              /\ Len(Chunk(c)) = h + n + 2
              /\ \A k \in 1..h : Chunk(c)[k] = SizeLine(c)[k]
              /\ Chunk(c)[h + n + 1] = "CR" /\ Chunk(c)[h + n + 2] = "LF"
<1> DEFINE a == SizeLine(c)
           d == c.data
           b == Line(d)
<1>1. a \in Seq(Chars)
  BY SizeLineIs DEF IsChunk
<1>2. d \in Seq(Chars) /\ d # <<>> /\ Chunk(c) = a \o b
  BY DEF IsChunk, Chunk
<1> HIDE DEF a, d
<1>3. Len(d) \in Nat \ {0}
  BY <1>2, EmptySeq
<1>4. b \in Seq(Chars) /\ Len(b) = Len(d) + 2 /\ b[Len(d) + 1] = "CR" /\ b[Len(d) + 2] = "LF"
  BY <1>2, LineIs
<1> HIDE DEF b
<1>5. /\ a \o b \in Seq(Chars) /\ Len(a \o b) = Len(a) + Len(b) /\ Len(a) \in Nat
      /\ \A k \in 1..Len(a) : (a \o b)[k] = a[k]
      /\ \A k \in 1..Len(b) : (a \o b)[Len(a) + k] = b[k]
  BY <1>1, <1>4
<1>6. Len(d) + 1 \in 1..Len(b) /\ Len(d) + 2 \in 1..Len(b)
  BY <1>3, <1>4
<1>7. (a \o b)[Len(a) + (Len(d) + 1)] = "CR" /\ (a \o b)[Len(a) + (Len(d) + 2)] = "LF"
  BY <1>4, <1>5, <1>6
<1>8. /\ Len(a) + (Len(d) + 1) = Len(a) + Len(d) + 1
      /\ Len(a) + (Len(d) + 2) = Len(a) + Len(d) + 2
      /\ Len(a) + Len(b) = Len(a) + Len(d) + 2
  BY <1>3, <1>4, <1>5
<1>9. /\ Len(a) \in Nat /\ Len(d) \in Nat \ {0} /\ Chunk(c) \in Seq(Chars)
      /\ Len(Chunk(c)) = Len(a) + Len(d) + 2
      /\ \A k \in 1..Len(a) : Chunk(c)[k] = a[k]
      /\ Chunk(c)[Len(a) + Len(d) + 1] = "CR" /\ Chunk(c)[Len(a) + Len(d) + 2] = "LF"
  BY <1>2, <1>3, <1>5, <1>7, <1>8
<1> QED BY <1>9 DEF a, d

(* What a message is made of.                                              *)
LEMMA MessageIs ==
    ASSUME NEW m \in Message
    PROVE  /\ Len(m.chunks) \in Nat /\ \A i \in 1..Len(m.chunks) : IsChunk(m.chunks[i])
           /\ IsSizeLine(m.last) /\ Number(m.last.size) = 0
           /\ Len(m.trailer) \in Nat /\ Len(TrailerLines(m)) = Len(m.trailer) + 1
           /\ \A j \in 1..Len(TrailerLines(m)) :
                /\ TrailerLines(m)[j] \in Seq(Chars) /\ ~ Has(TrailerLines(m)[j], "LF")
                /\ j <= Len(m.trailer) =>
                     \E u \in 1..Len(TrailerLines(m)[j]) : TrailerLines(m)[j][u] # "CR"
                /\ j > Len(m.trailer) => TrailerLines(m)[j] = <<>>
           /\ m.after \in Seq(Chars)
<1>1. /\ Len(m.chunks) \in Nat /\ \A i \in 1..Len(m.chunks) : IsChunk(m.chunks[i])
      /\ IsSizeLine(m.last) /\ Number(m.last.size) = 0
      /\ m.after \in Seq(Chars)
  BY ChunkAssumption
<1> DEFINE t == m.trailer
           e == <<>>
<1>2. t \in Seq(Seq(Chars)) /\ \A j \in 1..Len(t) : IsTrailerLine(t[j])
  BY ChunkAssumption
<1>3. e \in Seq(Chars) /\ Len(e) = 0 /\ TrailerLines(m) = Append(t, e)
  BY DEF TrailerLines
<1>4. ~ Has(e, "LF")
  BY <1>3 DEF Has
<1> HIDE DEF t, e
<1>5. /\ Len(t) \in Nat /\ Len(Append(t, e)) = Len(t) + 1 /\ Append(t, e)[Len(t) + 1] = e
      /\ \A j \in 1..Len(t) : Append(t, e)[j] = t[j]
  BY <1>2, <1>3, AppendProperties
<1> DEFINE q == Append(t, e)
<1> HIDE DEF q
<1>6. ASSUME NEW j \in 1..Len(q)
      PROVE  /\ q[j] \in Seq(Chars) /\ ~ Has(q[j], "LF")
             /\ j <= Len(t) => \E u \in 1..Len(q[j]) : q[j][u] # "CR"
             /\ j > Len(t) => q[j] = e
  <2>1. CASE j <= Len(t)
    <3>1. j \in 1..Len(t) /\ ~ (j > Len(t))
      BY <1>5, <2>1 DEF q
    <3>2. q[j] = t[j] /\ IsTrailerLine(t[j])
      BY <1>2, <1>5, <3>1 DEF q
    <3> QED BY <3>1, <3>2 DEF IsTrailerLine
  <2>2. CASE ~ (j <= Len(t))
    <3>1. j = Len(t) + 1
      BY <1>5, <2>2 DEF q
    <3>2. q[j] = e
      BY <1>5, <3>1 DEF q
    <3> QED BY <1>3, <1>4, <2>2, <3>2
  <2> QED BY <2>1, <2>2
<1>7. Len(q) = Len(t) + 1 /\ TrailerLines(m) = q
  BY <1>3, <1>5 DEF q
<1> QED BY <1>1, <1>5, <1>6, <1>7 DEF t, e

LEMMA WirePartsAre ==
    ASSUME NEW m \in Message
    PROVE  LET N == Len(m.chunks)
               q == WireParts(m)
               T == TrailerLines(m)
           IN /\ q \in Seq(Seq(Chars)) /\ Len(q) = N + 1 + Len(T)
              /\ \A i \in 1..N : q[i] = Chunk(m.chunks[i])
              /\ q[N + 1] = SizeLine(m.last)
              /\ \A j \in 1..Len(T) : q[N + 1 + j] = Line(T[j])
<1> DEFINE N == Len(m.chunks)
           T == TrailerLines(m)
           L == Len(T)
           a == EncodedChunks(m)
           l == SizeLine(m.last)
           b == <<l>>
           d == EncodedTrailer(m)
<1>1. /\ N \in Nat /\ L \in Nat /\ \A i \in 1..N : Chunk(m.chunks[i]) \in Seq(Chars)
  <2>1. L \in Nat /\ N \in Nat /\ \A i \in 1..N : IsChunk(m.chunks[i])
    BY MessageIs
  <2> QED BY <2>1, ChunkIs
<1>2. \A j \in 1..L : Line(T[j]) \in Seq(Chars)
  BY MessageIs, LineIs
<1>3. l \in Seq(Chars)
  BY MessageIs, SizeLineIs
<1>4. a = [i \in 1..N |-> Chunk(m.chunks[i])] /\ d = [j \in 1..L |-> Line(T[j])]
  BY DEF EncodedChunks, EncodedTrailer
<1>5. WireParts(m) = a \o b \o d
  BY DEF WireParts
<1> HIDE DEF N, T, L, a, l, d
<1> DEFINE W == Seq(Chars)
<1>6. /\ a \in Seq(W) /\ Len(a) = N /\ \A i \in 1..N : a[i] = Chunk(m.chunks[i])
  BY <1>1, <1>4
<1>7. /\ d \in Seq(W) /\ Len(d) = L /\ \A j \in 1..L : d[j] = Line(T[j])
  BY <1>1, <1>2, <1>4
<1>8. b \in Seq(W) /\ Len(b) = 1 /\ b[1] = l
  BY <1>3
<1> HIDE DEF W, b
<1>9. /\ a \o b \in Seq(W) /\ Len(a \o b) = Len(a) + Len(b)
      /\ \A i \in 1..Len(a) : (a \o b)[i] = a[i]
      /\ \A i \in 1..Len(b) : (a \o b)[Len(a) + i] = b[i]
  <2>1. a \in Seq(W) /\ b \in Seq(W)
    BY <1>6, <1>8
  <2> QED BY <2>1
<1> DEFINE g == a \o b
<1>10. /\ g \in Seq(W) /\ Len(g) = N + 1 /\ \A i \in 1..N : g[i] = Chunk(m.chunks[i])
       /\ g[N + 1] = l
  <2>1. 1 \in 1..1
    OBVIOUS
  <2> QED BY <1>1, <1>6, <1>8, <1>9, <2>1
<1> HIDE DEF g
<1>11. /\ g \o d \in Seq(W) /\ Len(g \o d) = Len(g) + Len(d)
       /\ \A i \in 1..Len(g) : (g \o d)[i] = g[i]
       /\ \A i \in 1..Len(d) : (g \o d)[Len(g) + i] = d[i]
  <2>1. g \in Seq(W) /\ d \in Seq(W)
    BY <1>7, <1>10
  <2> QED BY <2>1
<1>12. WireParts(m) = g \o d
  BY <1>5 DEF g
<1> DEFINE q == g \o d
<1>13. /\ q \in Seq(W) /\ Len(q) = N + 1 + L
       /\ \A i \in 1..N : q[i] = Chunk(m.chunks[i])
       /\ q[N + 1] = l
       /\ \A j \in 1..L : q[N + 1 + j] = Line(T[j])
  <2>1. N + 1 \in 1..(N + 1) /\ \A i \in 1..N : i \in 1..(N + 1)
    BY <1>1
  <2> QED BY <1>7, <1>10, <1>11, <2>1
<1> QED BY <1>12, <1>13 DEF N, T, L, l, W

(* Each part is where Offset says.                                         *)
LEMMA SentIs ==
    ASSUME NEW m \in Message
    PROVE  LET q == WireParts(m)
           IN /\ Encoded(m) \in Seq(Chars) /\ Sent(m) \in Seq(Chars)
              /\ Len(Encoded(m)) <= Len(Sent(m))
              /\ Offset(m, 0) = 0 /\ Offset(m, Len(q)) = Len(Encoded(m))
              /\ \A i \in 0..Len(q) : Offset(m, i) \in Nat /\ Offset(m, i) <= Len(Encoded(m))
              /\ \A i \in 1..Len(q) :
                   /\ Offset(m, i) = Offset(m, i - 1) + Len(q[i])
                   /\ \A k \in 1..Len(q[i]) : Sent(m)[Offset(m, i - 1) + k] = q[i][k]
<1> DEFINE q == WireParts(m)
           f == FlattenSeq(q)
<1>1. q \in Seq(Seq(Chars))
  BY WirePartsAre
<1> HIDE DEF q
<1>2. Encoded(m) = f
  BY DEF Encoded, q
<1>3. /\ f \in Seq(Chars) /\ Len(Joined(q, 0)) = 0
      /\ Len(f) = Len(Joined(q, Len(q)))
      /\ \A i \in 0..Len(q) : Len(Joined(q, i)) \in Nat /\ Len(Joined(q, i)) <= Len(f)
      /\ \A i \in 1..Len(q) :
           /\ Len(Joined(q, i)) = Len(Joined(q, i - 1)) + Len(q[i])
           /\ \A k \in 1..Len(q[i]) : f[Len(Joined(q, i - 1)) + k] = q[i][k]
  BY <1>1, JoinedIs
<1>4. \A i : Offset(m, i) = Len(Joined(q, i))
  BY DEF Offset, q
<1> HIDE DEF f
<1>5. m.after \in Seq(Chars)
  BY MessageIs
<1> DEFINE e == m.after
<1> HIDE DEF e
<1>6. /\ f \o e \in Seq(Chars) /\ Len(f \o e) = Len(f) + Len(e) /\ Len(e) \in Nat /\ Len(f) \in Nat
      /\ \A k \in 1..Len(f) : (f \o e)[k] = f[k]
  <2>1. f \in Seq(Chars) /\ e \in Seq(Chars)
    BY <1>3, <1>5 DEF e
  <2> QED BY <2>1
<1>7. Sent(m) = f \o e
  BY <1>2 DEF Sent, e
<1>8. Len(f) <= Len(f \o e)
  BY <1>6
<1>9. /\ Offset(m, 0) = 0 /\ Offset(m, Len(q)) = Len(f)
      /\ \A i \in 0..Len(q) : Offset(m, i) \in Nat /\ Offset(m, i) <= Len(f)
  BY <1>3, <1>4
<1>10. ASSUME NEW i \in 1..Len(q)
       PROVE  /\ Offset(m, i) = Offset(m, i - 1) + Len(q[i])
              /\ \A k \in 1..Len(q[i]) : Sent(m)[Offset(m, i - 1) + k] = q[i][k]
  <2>1. Offset(m, i) = Offset(m, i - 1) + Len(q[i])
    BY <1>3, <1>4
  <2>2. ASSUME NEW k \in 1..Len(q[i]) PROVE Sent(m)[Offset(m, i - 1) + k] = q[i][k]
    <3>1. f[Offset(m, i - 1) + k] = q[i][k]
      <4>1. f[Len(Joined(q, i - 1)) + k] = q[i][k]
        BY <1>3
      <4>2. Len(Joined(q, i - 1)) = Offset(m, i - 1)
        BY <1>4
      <4> QED BY <4>1, <4>2
    <3>2. Len(q) \in Nat /\ Len(q[i]) \in Nat
      BY <1>1
    <3>3. i \in 0..Len(q) /\ i - 1 \in 0..Len(q)
      BY <3>2
    <3>4. Offset(m, i - 1) \in Nat /\ Offset(m, i) \in Nat /\ Offset(m, i) <= Len(f)
      BY <1>9, <3>3
    <3>5. Offset(m, i - 1) + k \in 1..Len(f)
      BY <1>6, <2>1, <3>2, <3>4
    <3> QED BY <1>6, <1>7, <3>1, <3>5
  <2> QED BY <2>1, <2>2
<1>11. f \in Seq(Chars) /\ f \o e \in Seq(Chars)
  BY <1>3, <1>6
<1> QED BY <1>2, <1>7, <1>8, <1>9, <1>10, <1>11 DEF q

(* The size line that part i is or begins with, and where its CR is.       *)
HeadOf(m, i) == IF i <= Len(m.chunks) THEN m.chunks[i] ELSE m.last
HeadEnd(m, i) == Offset(m, i - 1) + Len(HeadOf(m, i).size) + Len(HeadOf(m, i).ext)

(* A part begins with its size line.                                       *)
LEMMA HeadIs ==
    ASSUME NEW m \in Message, NEW i \in 1..(Len(m.chunks) + 1)
    PROVE  LET c == HeadOf(m, i)
               o == Offset(m, i - 1)
               s == Len(c.size)
           IN /\ IsSizeLine(c) /\ o \in Nat /\ s \in Nat /\ Len(c.ext) \in Nat
              /\ HeadEnd(m, i) = o + s + Len(c.ext)
              /\ \A k \in 1..s : Sent(m)[o + k] = c.size[k]
              /\ \A k \in 1..Len(c.ext) : Sent(m)[o + s + k] = c.ext[k]
              /\ Sent(m)[HeadEnd(m, i) + 1] = "CR" /\ Sent(m)[HeadEnd(m, i) + 2] = "LF"
              /\ HeadEnd(m, i) + 2 <= Offset(m, i) /\ Offset(m, i) <= Len(Encoded(m))
<1> DEFINE N == Len(m.chunks)
           q == WireParts(m)
           c == HeadOf(m, i)
           o == Offset(m, i - 1)
           s == Len(c.size)
           e == Len(c.ext)
<1>1. /\ N \in Nat /\ \A j \in 1..N : IsChunk(m.chunks[j])
      /\ IsSizeLine(m.last) /\ Len(TrailerLines(m)) \in Nat
  BY MessageIs
<1>2. IsSizeLine(c)
  <2>1. CASE i <= N
    BY <1>1, <2>1 DEF HeadOf, IsChunk
  <2>2. CASE ~ (i <= N)
    BY <1>1, <2>2 DEF HeadOf
  <2> QED BY <2>1, <2>2
<1>3. /\ q \in Seq(Seq(Chars)) /\ Len(q) = N + 1 + Len(TrailerLines(m))
      /\ \A j \in 1..N : q[j] = Chunk(m.chunks[j])
      /\ q[N + 1] = SizeLine(m.last)
  BY WirePartsAre
<1>4. i \in 1..Len(q) /\ i - 1 \in 0..Len(q) /\ i \in 0..Len(q)
  BY <1>1, <1>3
<1>5. /\ o \in Nat /\ Offset(m, i) \in Nat /\ Offset(m, i) <= Len(Encoded(m))
      /\ Offset(m, i) = o + Len(q[i])
      /\ \A k \in 1..Len(q[i]) : Sent(m)[o + k] = q[i][k]
  BY <1>4, SentIs
<1>6. /\ s \in Nat /\ e \in Nat /\ Len(SizeLine(c)) = s + e + 2
      /\ \A k \in 1..s : SizeLine(c)[k] = c.size[k]
      /\ \A k \in 1..e : SizeLine(c)[s + k] = c.ext[k]
      /\ SizeLine(c)[s + e + 1] = "CR" /\ SizeLine(c)[s + e + 2] = "LF"
  BY <1>2, SizeLineIs
<1> HIDE DEF q, s, e
<1> DEFINE h == s + e + 2
<1>7. Len(q[i]) \in Nat /\ h <= Len(q[i]) /\ \A k \in 1..h : q[i][k] = SizeLine(c)[k]
  <2>1. CASE i <= N
    <3>1. i \in 1..N /\ c = m.chunks[i] /\ IsChunk(c)
      BY <1>1, <2>1 DEF HeadOf
    <3>2. /\ Len(Chunk(c)) = Len(SizeLine(c)) + Len(c.data) + 2 /\ Len(c.data) \in Nat
          /\ \A k \in 1..Len(SizeLine(c)) : Chunk(c)[k] = SizeLine(c)[k]
      BY <3>1, ChunkIs
    <3>3. q[i] = Chunk(c)
      BY <1>3, <3>1
    <3>4. Len(SizeLine(c)) = h /\ h \in Nat
      BY <1>6
    <3> HIDE DEF c, h
    <3>5. Len(q[i]) = h + Len(c.data) + 2 /\ \A k \in 1..h : q[i][k] = SizeLine(c)[k]
      BY <3>2, <3>3, <3>4
    <3> QED BY <3>2, <3>4, <3>5
  <2>2. CASE ~ (i <= N)
    <3>1. i = N + 1 /\ c = m.last
      BY <1>1, <2>2 DEF HeadOf
    <3>2. q[i] = SizeLine(c)
      BY <1>3, <3>1
    <3> HIDE DEF c
    <3> QED BY <1>6, <3>2
  <2> QED BY <2>1, <2>2
<1>8. \A k \in 1..h : Sent(m)[o + k] = SizeLine(c)[k]
  <2> TAKE k \in 1..h
  <2>1. k \in 1..Len(q[i])
    BY <1>6, <1>7
  <2> QED BY <1>5, <1>7, <2>1
<1> HIDE DEF o, c
<1>9. HeadEnd(m, i) = o + s + e
  BY DEF HeadEnd, o, s, e, c
<1>10. \A k \in 1..s : Sent(m)[o + k] = c.size[k]
  <2>1. \A k \in 1..s : k \in 1..h
    BY <1>6
  <2> QED BY <1>6, <1>8, <2>1
<1>11. \A k \in 1..e : Sent(m)[o + s + k] = c.ext[k]
  <2> TAKE k \in 1..e
  <2>1. s + k \in 1..h /\ o + s + k = o + (s + k)
    BY <1>5, <1>6
  <2> QED BY <1>6, <1>8, <2>1
<1>12. Sent(m)[HeadEnd(m, i) + 1] = "CR" /\ Sent(m)[HeadEnd(m, i) + 2] = "LF"
  <2>1. /\ s + e + 1 \in 1..h /\ s + e + 2 \in 1..h
        /\ HeadEnd(m, i) + 1 = o + (s + e + 1) /\ HeadEnd(m, i) + 2 = o + (s + e + 2)
    BY <1>5, <1>6, <1>9
  <2> QED BY <1>6, <1>8, <2>1
<1>13. HeadEnd(m, i) + 2 <= Offset(m, i)
  BY <1>5, <1>6, <1>7, <1>9
<1>14. /\ IsSizeLine(c) /\ o \in Nat /\ s \in Nat /\ e \in Nat
       /\ HeadEnd(m, i) = o + s + e
       /\ \A k \in 1..s : Sent(m)[o + k] = c.size[k]
       /\ \A k \in 1..e : Sent(m)[o + s + k] = c.ext[k]
       /\ Sent(m)[HeadEnd(m, i) + 1] = "CR" /\ Sent(m)[HeadEnd(m, i) + 2] = "LF"
       /\ HeadEnd(m, i) + 2 <= Offset(m, i) /\ Offset(m, i) <= Len(Encoded(m))
  BY <1>2, <1>5, <1>6, <1>9, <1>10, <1>11, <1>12, <1>13
<1> QED BY <1>14 DEF s, e, o, c

(* What follows the size line: data and its end, or, after the last chunk, *)
(* the trailer.                                                            *)
LEMMA TailIs ==
    ASSUME NEW m \in Message
    PROVE  /\ \A i \in 1..Len(m.chunks) :
                LET n == Len(m.chunks[i].data)
                IN /\ n \in Nat \ {0} /\ Number(HeadOf(m, i).size) = n
                   /\ Offset(m, i) = HeadEnd(m, i) + n + 4
                   /\ Sent(m)[HeadEnd(m, i) + n + 3] = "CR" /\ Sent(m)[HeadEnd(m, i) + n + 4] = "LF"
           /\ Number(HeadOf(m, Len(m.chunks) + 1).size) = 0
           /\ Offset(m, Len(m.chunks) + 1) = HeadEnd(m, Len(m.chunks) + 1) + 2
<1> DEFINE N == Len(m.chunks)
           q == WireParts(m)
<1>1. /\ N \in Nat /\ \A j \in 1..N : IsChunk(m.chunks[j])
      /\ IsSizeLine(m.last) /\ Number(m.last.size) = 0 /\ Len(TrailerLines(m)) \in Nat
  BY MessageIs
<1>2. /\ q \in Seq(Seq(Chars)) /\ Len(q) = N + 1 + Len(TrailerLines(m))
      /\ \A j \in 1..N : q[j] = Chunk(m.chunks[j])
      /\ q[N + 1] = SizeLine(m.last)
  BY WirePartsAre
<1>3. ASSUME NEW i \in 1..N
      PROVE  LET n == Len(m.chunks[i].data)
             IN /\ n \in Nat \ {0} /\ Number(HeadOf(m, i).size) = n
                /\ Offset(m, i) = HeadEnd(m, i) + n + 4
                /\ Sent(m)[HeadEnd(m, i) + n + 3] = "CR" /\ Sent(m)[HeadEnd(m, i) + n + 4] = "LF"
  <2> DEFINE c == m.chunks[i]
             o == Offset(m, i - 1)
             s == Len(c.size)
             e == Len(c.ext)
             n == Len(c.data)
  <2>1. i \in 1..(N + 1) /\ HeadOf(m, i) = c /\ IsChunk(c) /\ i \in 1..Len(q)
    BY <1>1, <1>2 DEF HeadOf
  <2>2. o \in Nat /\ s \in Nat /\ e \in Nat /\ HeadEnd(m, i) = o + s + e
    BY <2>1, HeadIs
  <2>3. Len(SizeLine(c)) = s + e + 2 /\ Number(c.size) = n
    BY <2>1, SizeLineIs DEF IsChunk
  <2>4. /\ n \in Nat \ {0} /\ Len(Chunk(c)) = Len(SizeLine(c)) + n + 2
        /\ Chunk(c)[Len(SizeLine(c)) + n + 1] = "CR" /\ Chunk(c)[Len(SizeLine(c)) + n + 2] = "LF"
    BY <2>1, ChunkIs
  <2>5. /\ Offset(m, i) = o + Len(q[i])
        /\ \A k \in 1..Len(q[i]) : Sent(m)[o + k] = q[i][k]
    BY <2>1, SentIs
  <2>6. q[i] = Chunk(c)
    BY <1>2
  <2> HIDE DEF c, o, s, e, n, q
  <2>7. /\ Len(q[i]) = s + e + n + 4
        /\ s + e + n + 3 \in 1..Len(q[i]) /\ s + e + n + 4 \in 1..Len(q[i])
        /\ Len(SizeLine(c)) + n + 1 = s + e + n + 3 /\ Len(SizeLine(c)) + n + 2 = s + e + n + 4
    BY <2>2, <2>3, <2>4, <2>6
  <2>8. Sent(m)[o + (s + e + n + 3)] = "CR" /\ Sent(m)[o + (s + e + n + 4)] = "LF"
    BY <2>4, <2>5, <2>6, <2>7
  <2>9. /\ HeadEnd(m, i) + n + 3 = o + (s + e + n + 3) /\ HeadEnd(m, i) + n + 4 = o + (s + e + n + 4)
        /\ Offset(m, i) = HeadEnd(m, i) + n + 4
    BY <2>2, <2>4, <2>5, <2>7
  <2>10. /\ n \in Nat \ {0} /\ Number(HeadOf(m, i).size) = n
         /\ Offset(m, i) = HeadEnd(m, i) + n + 4
         /\ Sent(m)[HeadEnd(m, i) + n + 3] = "CR" /\ Sent(m)[HeadEnd(m, i) + n + 4] = "LF"
    BY <2>1, <2>3, <2>4, <2>8, <2>9
  <2> QED BY <2>10 DEF n, c
<1>4. /\ Number(HeadOf(m, N + 1).size) = 0
      /\ Offset(m, N + 1) = HeadEnd(m, N + 1) + 2
  <2> DEFINE i == N + 1
             c == m.last
             o == Offset(m, i - 1)
             s == Len(c.size)
             e == Len(c.ext)
  <2>1. i \in 1..(N + 1) /\ HeadOf(m, i) = c /\ i \in 1..Len(q)
    BY <1>1, <1>2 DEF HeadOf
  <2>2. o \in Nat /\ s \in Nat /\ e \in Nat /\ HeadEnd(m, i) = o + s + e
    BY <2>1, HeadIs
  <2>3. Len(SizeLine(c)) = s + e + 2
    BY <1>1, SizeLineIs
  <2>4. Offset(m, i) = o + Len(q[i])
    BY <2>1, SentIs
  <2>5. q[i] = SizeLine(c)
    BY <1>2
  <2> HIDE DEF i, c, o, s, e, q
  <2>6. Offset(m, i) = HeadEnd(m, i) + 2
    BY <2>2, <2>3, <2>4, <2>5
  <2>7. Number(HeadOf(m, i).size) = 0
    BY <1>1, <2>1 DEF c
  <2> QED BY <2>6, <2>7 DEF i
<1> QED BY <1>3, <1>4

(* A line of the trailer.                                                  *)
LEMMA TrailerIs ==
    ASSUME NEW m \in Message, NEW j \in 1..Len(TrailerLines(m))
    PROVE  LET o == Offset(m, Len(m.chunks) + j)
               l == TrailerLines(m)[j]
           IN /\ o \in Nat /\ Len(l) \in Nat
              /\ \A k \in 1..Len(l) : Sent(m)[o + k] = l[k] /\ l[k] # "LF"
              /\ Sent(m)[o + Len(l) + 1] = "CR" /\ Sent(m)[o + Len(l) + 2] = "LF"
              /\ o + Len(l) + 2 <= Len(Encoded(m))
              /\ \/ /\ j + 1 \in 1..Len(TrailerLines(m))
                    /\ Offset(m, Len(m.chunks) + (j + 1)) = o + Len(l) + 2
                    /\ \E u \in 1..Len(l) : l[u] # "CR"
                 \/ Len(Encoded(m)) = o + Len(l) + 2 /\ l = <<>>
<1> DEFINE N == Len(m.chunks)
           q == WireParts(m)
           T == TrailerLines(m)
           i == N + 1 + j
           o == Offset(m, N + j)
           l == T[j]
<1>1. /\ N \in Nat /\ Len(m.trailer) \in Nat /\ Len(T) = Len(m.trailer) + 1
      /\ l \in Seq(Chars) /\ ~ Has(l, "LF")
      /\ j <= Len(m.trailer) => \E u \in 1..Len(l) : l[u] # "CR"
      /\ j > Len(m.trailer) => l = <<>>
  BY MessageIs
<1>2. q \in Seq(Seq(Chars)) /\ Len(q) = N + 1 + Len(T) /\ q[i] = Line(l)
  BY WirePartsAre
<1>3. i \in 1..Len(q) /\ i \in 0..Len(q) /\ i - 1 \in 0..Len(q) /\ i - 1 = N + j /\ i = N + (j + 1)
  <2>1. j \in 1..Len(T) /\ Len(T) \in Nat /\ N \in Nat /\ Len(q) = N + 1 + Len(T)
    BY <1>1, <1>2
  <2> HIDE DEF N, T, q
  <2> QED BY <2>1
<1>4. /\ Offset(m, i - 1) \in Nat /\ Offset(m, i) \in Nat /\ Offset(m, i) <= Len(Encoded(m))
      /\ Offset(m, Len(q)) = Len(Encoded(m))
      /\ Offset(m, i) = Offset(m, i - 1) + Len(q[i])
      /\ \A k \in 1..Len(q[i]) : Sent(m)[Offset(m, i - 1) + k] = q[i][k]
  BY <1>3, SentIs
<1>5. /\ Len(Line(l)) = Len(l) + 2 /\ Len(l) \in Nat
      /\ \A k \in 1..Len(l) : Line(l)[k] = l[k]
      /\ Line(l)[Len(l) + 1] = "CR" /\ Line(l)[Len(l) + 2] = "LF"
  BY <1>1, LineIs
<1>6. /\ o \in Nat /\ Offset(m, i) = o + (Len(l) + 2) /\ Offset(m, i) <= Len(Encoded(m))
      /\ \A k \in 1..(Len(l) + 2) : Sent(m)[o + k] = Line(l)[k]
  BY <1>2, <1>3, <1>4, <1>5
<1>7. \A k \in 1..Len(l) : l[k] # "LF"
  BY <1>1 DEF Has
<1>8. Offset(m, i) = Offset(m, N + (j + 1)) /\ (j = Len(T) => Offset(m, i) = Len(Encoded(m)))
  BY <1>1, <1>2, <1>3, <1>4
<1> HIDE DEF o, l, T, N, i
<1>9. \A k \in 1..Len(l) : Sent(m)[o + k] = l[k] /\ l[k] # "LF"
  <2>1. \A k \in 1..Len(l) : k \in 1..(Len(l) + 2)
    BY <1>5
  <2> QED BY <1>5, <1>6, <1>7, <2>1
<1>10. Sent(m)[o + Len(l) + 1] = "CR" /\ Sent(m)[o + Len(l) + 2] = "LF" /\ o + Len(l) + 2 = o + (Len(l) + 2)
  <2>1. /\ Len(l) + 1 \in 1..(Len(l) + 2) /\ Len(l) + 2 \in 1..(Len(l) + 2)
        /\ o + Len(l) + 1 = o + (Len(l) + 1) /\ o + Len(l) + 2 = o + (Len(l) + 2)
    BY <1>5, <1>6
  <2> QED BY <1>5, <1>6, <2>1
<1>11. \/ /\ j + 1 \in 1..Len(T) /\ Offset(m, N + (j + 1)) = o + Len(l) + 2
          /\ \E u \in 1..Len(l) : l[u] # "CR"
       \/ Len(Encoded(m)) = o + Len(l) + 2 /\ l = <<>>
  <2>0. j \in 1..Len(T)
    BY DEF T
  <2>1. CASE j <= Len(m.trailer)
    BY <1>1, <1>6, <1>8, <1>10, <2>0, <2>1
  <2>2. CASE ~ (j <= Len(m.trailer))
    <3>1. j = Len(T) /\ j > Len(m.trailer)
      BY <1>1, <2>0, <2>2
    <3> QED BY <1>1, <1>6, <1>8, <1>10, <3>1
  <2> QED BY <2>1, <2>2
<1>12. o + Len(l) + 2 <= Len(Encoded(m))
  BY <1>6, <1>10
<1> QED BY <1>5, <1>6, <1>9, <1>10, <1>11, <1>12 DEF o, l, T, N

(* Where chunk i of the body ends.                                         *)
BodyParts(m) == [i \in 1..Len(m.chunks) |-> DataPlaces(m, i)]
BodyOffset(m, i) == Len(Joined(BodyParts(m), i))

(* The body is the places of the chunks' data.                             *)
LEMMA BodyIs ==
    ASSUME NEW m \in Message
    PROVE  LET N == Len(m.chunks)
           IN /\ Body(m) \in Seq(Nat) /\ BodyOffset(m, 0) = 0 /\ BodyOffset(m, N) = Len(Body(m))
              /\ \A i \in 0..N : BodyOffset(m, i) \in Nat /\ BodyOffset(m, i) <= Len(Body(m))
              /\ \A i \in 1..N :
                   /\ BodyOffset(m, i) = BodyOffset(m, i - 1) + Len(m.chunks[i].data)
                   /\ \A k \in 1..Len(m.chunks[i].data) :
                        Body(m)[BodyOffset(m, i - 1) + k] = HeadEnd(m, i) + 2 + k
<1> DEFINE N == Len(m.chunks)
           q == BodyParts(m)
<1>1. N \in Nat /\ \A i \in 1..N : IsChunk(m.chunks[i])
  BY MessageIs
<1>2. ASSUME NEW i \in 1..N
      PROVE  /\ HeadEnd(m, i) \in Nat /\ Len(m.chunks[i].data) \in Nat
             /\ DataPlaces(m, i) = [u \in 1..Len(m.chunks[i].data) |-> HeadEnd(m, i) + 2 + u]
  <2> DEFINE c == m.chunks[i]
             o == Offset(m, i - 1)
             n == Len(c.data)
  <2>1. i \in 1..(N + 1) /\ HeadOf(m, i) = c /\ IsChunk(c)
    BY <1>1 DEF HeadOf
  <2>2. /\ o \in Nat /\ Len(c.size) \in Nat /\ Len(c.ext) \in Nat
        /\ HeadEnd(m, i) = o + Len(c.size) + Len(c.ext)
    BY <2>1, HeadIs
  <2>3. Len(SizeLine(c)) = Len(c.size) + Len(c.ext) + 2
    BY <2>1, SizeLineIs DEF IsChunk
  <2>4. n \in Nat
    BY <2>1, ChunkIs
  <2>5. DataPlaces(m, i) = [u \in 1..n |-> o + Len(SizeLine(c)) + u]
    BY DEF DataPlaces, ChunkStart, Offset, Joined
  <2> HIDE DEF c, o, n
  <2> DEFINE s == Len(c.size)
             e == Len(c.ext)
  <2> HIDE DEF s, e
  <2>6. HeadEnd(m, i) \in Nat /\ o + Len(SizeLine(c)) = HeadEnd(m, i) + 2
    <3>1. /\ o \in Nat /\ s \in Nat /\ e \in Nat /\ HeadEnd(m, i) = o + s + e
          /\ Len(SizeLine(c)) = s + e + 2
      BY <2>2, <2>3 DEF s, e
    <3> QED BY <3>1
  <2>7. DataPlaces(m, i) = [u \in 1..n |-> HeadEnd(m, i) + 2 + u]
    BY <2>5, <2>6
  <2> QED BY <2>4, <2>6, <2>7 DEF n, c
<1>3. ASSUME NEW i \in 1..N
      PROVE  /\ DataPlaces(m, i) \in Seq(Nat) /\ Len(DataPlaces(m, i)) = Len(m.chunks[i].data)
             /\ \A k \in 1..Len(m.chunks[i].data) : DataPlaces(m, i)[k] = HeadEnd(m, i) + 2 + k
  <2> DEFINE n == Len(m.chunks[i].data)
             h == HeadEnd(m, i) + 2
             d == DataPlaces(m, i)
  <2>1. h \in Nat /\ n \in Nat /\ d = [u \in 1..n |-> h + u]
    BY <1>2
  <2> HIDE DEF n, h, d
  <2>2. d \in Seq(Nat) /\ Len(d) = n /\ \A k \in 1..n : d[k] = h + k
    BY <2>1
  <2> QED BY <2>2 DEF n, h, d
<1> DEFINE W == Seq(Nat)
<1>4. q \in Seq(W) /\ Len(q) = N /\ \A i \in 1..N : q[i] = DataPlaces(m, i)
  <2>1. q = [i \in 1..N |-> DataPlaces(m, i)] /\ \A i \in 1..N : DataPlaces(m, i) \in W
    BY <1>3 DEF BodyParts
  <2> HIDE DEF q, W, N
  <2>2. N \in Nat
    BY <1>1 DEF N
  <2> QED BY <2>1, <2>2
<1>5. Body(m) = FlattenSeq(q)
  BY DEF Body, BodyParts
<1>6. \A i : BodyOffset(m, i) = Len(Joined(q, i))
  BY DEF BodyOffset
<1> HIDE DEF q
<1>7. /\ FlattenSeq(q) \in Seq(Nat) /\ Len(Joined(q, 0)) = 0
      /\ Len(FlattenSeq(q)) = Len(Joined(q, Len(q)))
      /\ \A i \in 0..Len(q) : /\ Len(Joined(q, i)) \in Nat
                              /\ Len(Joined(q, i)) <= Len(FlattenSeq(q))
      /\ \A i \in 1..Len(q) :
           /\ Len(Joined(q, i)) = Len(Joined(q, i - 1)) + Len(q[i])
           /\ \A k \in 1..Len(q[i]) : FlattenSeq(q)[Len(Joined(q, i - 1)) + k] = q[i][k]
  BY <1>4, JoinedIs
<1>8. /\ Body(m) \in Seq(Nat) /\ BodyOffset(m, 0) = 0 /\ BodyOffset(m, N) = Len(Body(m))
      /\ \A i \in 0..N : BodyOffset(m, i) \in Nat /\ BodyOffset(m, i) <= Len(Body(m))
  BY <1>4, <1>5, <1>6, <1>7
<1>9. ASSUME NEW i \in 1..N
      PROVE  /\ BodyOffset(m, i) = BodyOffset(m, i - 1) + Len(m.chunks[i].data)
             /\ \A k \in 1..Len(m.chunks[i].data) :
                  Body(m)[BodyOffset(m, i - 1) + k] = HeadEnd(m, i) + 2 + k
  <2> DEFINE n == Len(m.chunks[i].data)
             b == FlattenSeq(q)
             o == Len(Joined(q, i - 1))
  <2>1. Len(q[i]) = n /\ \A k \in 1..n : q[i][k] = HeadEnd(m, i) + 2 + k
    BY <1>3, <1>4
  <2>2. Len(Joined(q, i)) = o + Len(q[i]) /\ \A k \in 1..Len(q[i]) : b[o + k] = q[i][k]
    BY <1>4, <1>7
  <2>3. BodyOffset(m, i) = Len(Joined(q, i)) /\ BodyOffset(m, i - 1) = o /\ Body(m) = b
    BY <1>5, <1>6
  <2> HIDE DEF n, b, o
  <2>4. BodyOffset(m, i) = BodyOffset(m, i - 1) + n
    BY <2>1, <2>2, <2>3
  <2>5. \A k \in 1..n : Body(m)[BodyOffset(m, i - 1) + k] = HeadEnd(m, i) + 2 + k
    BY <2>1, <2>2, <2>3
  <2> QED BY <2>4, <2>5 DEF n
<1> QED BY <1>8, <1>9

(* The first n places of the body, and how they grow.                      *)
BodyUpTo(m, n) == SubSeq(Body(m), 1, n)

LEMMA BodyUpToIs ==
    ASSUME NEW m \in Message, NEW n \in 0..Len(Body(m))
    PROVE  /\ BodyUpTo(m, n) \in Seq(Nat) /\ IsPrefix(BodyUpTo(m, n), Body(m))
           /\ BodyUpTo(m, 0) = <<>> /\ BodyUpTo(m, Len(Body(m))) = Body(m)
<1> DEFINE B == Body(m)
<1>1. B \in Seq(Nat) /\ n \in 0..Len(B)
  BY BodyIs
<1> HIDE DEF B
<1>2. Len(B) \in Nat
  BY <1>1
<1>3. SubSeq(B, 1, n) \in Seq(Nat) /\ Len(SubSeq(B, 1, n)) = n
  BY <1>1
<1>4. SubSeq(B, 1, Len(B)) = B
  BY <1>1
<1>5. SubSeq(SubSeq(B, 1, n), 1, n) = SubSeq(B, 1, n)
  BY <1>3
<1>6. IsPrefix(SubSeq(B, 1, n), B)
  BY <1>1, <1>2, <1>3, <1>5 DEF IsPrefix
<1>7. SubSeq(B, 1, 0) = <<>>
  <2>1. 0 \in Nat /\ 0 <= 0 /\ 0 <= Len(B)
    BY <1>2
  <2>2. SubSeq(B, 0 + 1, 0) = <<>>
    BY <1>1, <2>1, PieceIs
  <2> QED BY <2>2
<1> QED BY <1>3, <1>4, <1>6, <1>7 DEF BodyUpTo, B

LEMMA BodyGrows ==
    ASSUME NEW m \in Message, NEW i \in 1..Len(m.chunks), NEW n \in Nat, NEW d \in Nat,
           n + d <= Len(m.chunks[i].data)
    PROVE  BodyUpTo(m, BodyOffset(m, i - 1) + n) \o [k \in 1..d |-> HeadEnd(m, i) + 2 + n + k]
             = BodyUpTo(m, BodyOffset(m, i - 1) + (n + d))
<1> DEFINE B == Body(m)
           o == BodyOffset(m, i - 1)
           h == HeadEnd(m, i) + 2
           g == [k \in 1..d |-> h + n + k]
           L == Len(m.chunks[i].data)
<1>1. Len(m.chunks) \in Nat
  BY MessageIs
<1>2. i \in 1..(Len(m.chunks) + 1) /\ i \in 0..Len(m.chunks) /\ i - 1 \in 0..Len(m.chunks)
  BY <1>1
<1>3. HeadEnd(m, i) \in Nat
  <2>1. /\ Offset(m, i - 1) \in Nat /\ Len(HeadOf(m, i).size) \in Nat /\ Len(HeadOf(m, i).ext) \in Nat
        /\ HeadEnd(m, i) = Offset(m, i - 1) + Len(HeadOf(m, i).size) + Len(HeadOf(m, i).ext)
    BY <1>2, HeadIs
  <2> QED BY <2>1
<1>4. /\ B \in Seq(Nat) /\ o \in Nat /\ BodyOffset(m, i) <= Len(B) /\ BodyOffset(m, i) = o + L
      /\ \A k \in 1..L : B[o + k] = h + k
  BY <1>2, BodyIs
<1>5. L \in Nat
  BY MessageIs, ChunkIs
<1> HIDE DEF B, o, L
<1>6. h \in Nat /\ n + d <= L
  BY <1>3 DEF L
<1> HIDE DEF h
<1>7. g \in Seq(Nat) /\ Len(g) = d /\ \A k \in 1..d : g[k] = h + n + k
  BY <1>6
<1> HIDE DEF g
<1>8. o + n \in Nat /\ o + (n + d) \in Nat /\ o + n <= o + (n + d) /\ o + (n + d) <= Len(B)
  BY <1>4, <1>5, <1>6
<1>9. /\ SubSeq(B, 1, o + n) \in Seq(Nat) /\ Len(SubSeq(B, 1, o + n)) = o + n
      /\ \A k \in 1..(o + n) : SubSeq(B, 1, o + n)[k] = B[k]
  BY <1>4, <1>8
<1>10. /\ SubSeq(B, 1, o + (n + d)) \in Seq(Nat) /\ Len(SubSeq(B, 1, o + (n + d))) = o + (n + d)
       /\ \A k \in 1..(o + (n + d)) : SubSeq(B, 1, o + (n + d))[k] = B[k]
  BY <1>4, <1>8
<1> DEFINE x == SubSeq(B, 1, o + n)
           y == SubSeq(B, 1, o + (n + d))
<1> HIDE DEF x, y
<1>11. x \in Seq(Nat) /\ Len(x) = o + n /\ \A k \in 1..(o + n) : x[k] = B[k]
  BY <1>9 DEF x
<1>12. y \in Seq(Nat) /\ Len(y) = o + (n + d) /\ \A k \in 1..(o + (n + d)) : y[k] = B[k]
  BY <1>10 DEF y
<1>13. /\ x \o g \in Seq(Nat) /\ Len(x \o g) = Len(x) + Len(g)
       /\ \A k \in 1..Len(x) : (x \o g)[k] = x[k]
       /\ \A k \in 1..Len(g) : (x \o g)[Len(x) + k] = g[k]
  <2>1. x \in Seq(Nat) /\ g \in Seq(Nat)
    BY <1>7, <1>11
  <2> QED BY <2>1
<1>14. Len(x \o g) = Len(y)
  BY <1>4, <1>7, <1>11, <1>12, <1>13
<1>15. ASSUME NEW u \in 1..Len(y) PROVE (x \o g)[u] = y[u]
  <2>1. u \in 1..(o + (n + d)) /\ u \in Nat
    BY <1>12, <1>8
  <2>2. CASE u <= o + n
    <3>1. u \in 1..(o + n)
      BY <2>1, <2>2, <1>8
    <3> QED BY <1>11, <1>12, <1>13, <2>1, <3>1
  <2>3. CASE ~ (u <= o + n)
    <3> DEFINE k == u - (o + n)
    <3>1. k \in 1..d /\ u = (o + n) + k
      BY <1>4, <1>8, <2>1, <2>3
    <3> HIDE DEF k
    <3>2. (x \o g)[u] = h + n + k
      BY <1>7, <1>11, <1>13, <3>1
    <3>3. n + k \in 1..L /\ u = o + (n + k) /\ h + n + k = h + (n + k)
      BY <1>4, <1>5, <1>6, <3>1
    <3>4. B[u] = h + (n + k)
      BY <1>4, <3>3
    <3> QED BY <1>12, <2>1, <3>2, <3>3, <3>4
  <2> QED BY <2>2, <2>3
<1>16. x \o g = y
  BY <1>12, <1>13, <1>14, <1>15, SeqEqual
<1> QED BY <1>16 DEF x, y, g, h, o, B, BodyUpTo

DecoderType == [state : {"Size", "Data", "CRLF", "Trailer", "Done"}, remaining : Int,
                sizeBuf : Seq(Chars), afterEol : BOOLEAN]

(* Where the decoder is, p bytes into what is sent, with b put out: in the *)
(* size line of part i, its extension still ahead or behind;               *)
InSize(m, d, p, b) ==
    /\ d.state = "Size"
    /\ \E i \in 1..(Len(m.chunks) + 1) :
         /\ b = BodyUpTo(m, BodyOffset(m, i - 1))
         /\ \/ \E k \in 0..Len(HeadOf(m, i).size) :
                 p = Offset(m, i - 1) + k /\ d.sizeBuf = SubSeq(HeadOf(m, i).size, 1, k)
            \/ p = HeadEnd(m, i) + 1 /\ d.sizeBuf = HeadOf(m, i).size

(* n bytes into the data of chunk i, which has more;                       *)
InData(m, d, p, b) ==
    /\ d.state = "Data" /\ d.sizeBuf = <<>>
    /\ \E i \in 1..Len(m.chunks) : \E n \in Nat :
         /\ p = HeadEnd(m, i) + 2 + n /\ d.remaining = Len(m.chunks[i].data) - n
         /\ d.remaining > 0
         /\ b = BodyUpTo(m, BodyOffset(m, i - 1) + n)

(* at the CR or the LF that ends it;                                       *)
InCRLF(m, d, p, b) ==
    /\ d.state = "CRLF" /\ d.sizeBuf = <<>>
    /\ \E i \in 1..Len(m.chunks) : \E x \in {0, 1} :
         /\ p = HeadEnd(m, i) + 2 + Len(m.chunks[i].data) + x
         /\ b = BodyUpTo(m, BodyOffset(m, i))

(* k bytes into a line of the trailer, which were no more than CRs or were *)
(* not;                                                                    *)
OnlyCR(l, k) == \A u \in 1..Len(l) : u <= k => l[u] = "CR"
InTrailer(m, d, p, b) ==
    /\ d.state = "Trailer" /\ b = Body(m)
    /\ \E j \in 1..Len(TrailerLines(m)) : \E k \in 0..(Len(TrailerLines(m)[j]) + 1) :
         /\ p = Offset(m, Len(m.chunks) + j) + k
         /\ d.afterEol <=> OnlyCR(TrailerLines(m)[j], k)

(* or behind the last line.                                                *)
AtEnd(m, d, p, b) == d.state = "Done" /\ p = Len(Encoded(m)) /\ b = Body(m)

Underway(m, d, p, b) ==
    \/ InSize(m, d, p, b) \/ InData(m, d, p, b) \/ InCRLF(m, d, p, b)
    \/ InTrailer(m, d, p, b) \/ AtEnd(m, d, p, b)

(* A size line of at most the buffer's length.                             *)
Fit(m) == \A i \in 1..(Len(m.chunks) + 1) : Len(HeadOf(m, i).size) <= SizeChars

(* Before the first byte.                                                  *)
LEMMA UnderwayInit ==
    ASSUME NEW m \in Message
    PROVE  NewDecoder \in DecoderType /\ Underway(m, NewDecoder, 0, <<>>)
<1> DEFINE e == <<>>
           s == HeadOf(m, 1).size
           d == NewDecoder
<1>1. Len(m.chunks) \in Nat /\ 1 \in 1..(Len(m.chunks) + 1) /\ 1 - 1 = 0
  BY MessageIs
<1>2. /\ d.state = "Size" /\ d.sizeBuf = e /\ d \in DecoderType
  <2>1. <<>> \in Seq(Chars)
    OBVIOUS
  <2> QED BY <2>1 DEF NewDecoder, DecoderType
<1>3. BodyUpTo(m, BodyOffset(m, 1 - 1)) = e
  <2>1. BodyOffset(m, 0) = 0
    BY BodyIs
  <2>2. 0 \in 0..Len(Body(m))
    BY BodyIs
  <2>3. BodyUpTo(m, 0) = <<>>
    BY <2>2, BodyUpToIs
  <2> QED BY <1>1, <2>1, <2>3
<1>4. s \in Seq(DOMAIN DigitValue) /\ Len(s) \in Nat
  BY <1>1, HeadIs DEF IsSizeLine
<1> HIDE DEF s, d
<1>5. SubSeq(s, 1, 0) = e /\ 0 \in 0..Len(s)
  <2>1. SubSeq(s, 0 + 1, 0) = <<>>
    <3>1. 0 \in Nat /\ 0 <= 0 /\ 0 <= Len(s)
      BY <1>4
    <3> QED BY <1>4, <3>1, PieceIs
  <2> QED BY <1>4, <2>1
<1>6. 0 = Offset(m, 1 - 1) + 0
  <2>1. Offset(m, 0) = 0
    BY SentIs
  <2> QED BY <2>1
<1> HIDE DEF e
<1>7. InSize(m, d, 0, e)
  BY <1>1, <1>2, <1>3, <1>5, <1>6 DEF InSize, s
<1> QED BY <1>2, <1>7 DEF Underway, d, e

(* What the end of a size line makes of a decoder.                         *)
ToData(d, n, e) == [d EXCEPT !.state = "Data", !.remaining = n, !.sizeBuf = e]
ToTrailer(d, n, e) ==
    [d EXCEPT !.state = "Trailer", !.afterEol = TRUE, !.remaining = n, !.sizeBuf = e]
WithBuf(d, e) == [d EXCEPT !.sizeBuf = e]

LEMMA ToDataIs ==
    ASSUME NEW d \in DecoderType, NEW n \in Int, NEW e \in Seq(Chars)
    PROVE  /\ ToData(d, n, e) \in DecoderType /\ ToData(d, n, e).state = "Data"
           /\ ToData(d, n, e).remaining = n /\ ToData(d, n, e).sizeBuf = e
  BY DEF DecoderType, ToData

LEMMA ToTrailerIs ==
    ASSUME NEW d \in DecoderType, NEW n \in Int, NEW e \in Seq(Chars)
    PROVE  /\ ToTrailer(d, n, e) \in DecoderType /\ ToTrailer(d, n, e).state = "Trailer"
           /\ ToTrailer(d, n, e).afterEol /\ ToTrailer(d, n, e).sizeBuf = e
<1>1. LET x == [d EXCEPT !.state = "Trailer", !.afterEol = TRUE, !.remaining = n, !.sizeBuf = e]
      IN x \in DecoderType /\ x.state = "Trailer" /\ x.afterEol
  BY DEF DecoderType
<1>2. LET x == [d EXCEPT !.state = "Trailer", !.afterEol = TRUE, !.remaining = n, !.sizeBuf = e]
      IN x.sizeBuf = e
  BY DEF DecoderType
<1> QED BY <1>1, <1>2 DEF ToTrailer

LEMMA WithBufIs ==
    ASSUME NEW d \in DecoderType, NEW e \in Seq(Chars)
    PROVE  /\ WithBuf(d, e) \in DecoderType /\ WithBuf(d, e).state = d.state
           /\ WithBuf(d, e).sizeBuf = e
  BY DEF DecoderType, WithBuf

LEMMA SizeReadIs ==
    ASSUME NEW d \in DecoderType, Number(d.sizeBuf) \in Nat
    PROVE  LET x == SizeRead(d)
           IN /\ x \in DecoderType /\ x.sizeBuf = <<>>
              /\ Number(d.sizeBuf) # 0 => x.state = "Data" /\ x.remaining = Number(d.sizeBuf)
              /\ Number(d.sizeBuf) = 0 => x.state = "Trailer" /\ x.afterEol
<1> DEFINE e == <<>>
           n == Number(d.sizeBuf)
<1>1. e \in Seq(Chars)
  OBVIOUS
<1>2. n \in Nat /\ n \in Int /\ SizeRead(d) = IF n = 0 THEN ToTrailer(d, 0, e) ELSE ToData(d, n, e)
  BY DEF SizeRead, ToTrailer, ToData
<1> SUFFICES LET x == SizeRead(d)
              IN /\ x \in DecoderType /\ x.sizeBuf = e
                 /\ n # 0 => x.state = "Data" /\ x.remaining = n
                 /\ n = 0 => x.state = "Trailer" /\ x.afterEol
  OBVIOUS
<1> HIDE DEF e, n
<1>3. CASE n = 0
  <2>1. SizeRead(d) = ToTrailer(d, 0, e)
    BY <1>2, <1>3
  <2>2. /\ ToTrailer(d, 0, e) \in DecoderType /\ ToTrailer(d, 0, e).state = "Trailer"
        /\ ToTrailer(d, 0, e).afterEol /\ ToTrailer(d, 0, e).sizeBuf = e
    BY <1>1, ToTrailerIs
  <2> QED BY <1>3, <2>1, <2>2
<1>4. CASE n # 0
  <2>1. SizeRead(d) = ToData(d, n, e)
    BY <1>2, <1>4
  <2>2. /\ ToData(d, n, e) \in DecoderType /\ ToData(d, n, e).state = "Data"
        /\ ToData(d, n, e).remaining = n /\ ToData(d, n, e).sizeBuf = e
    BY <1>1, <1>2, ToDataIs
  <2> QED BY <1>4, <2>1, <2>2
<1> QED BY <1>3, <1>4

(* A character of a size line.                                             *)
NextChar(m, p) == Sent(m)[p + 1]
AfterSize(d, ch) ==
    IF ch = "LF" THEN SizeRead(d)
    ELSE IF ch = "CR" \/ Len(d.sizeBuf) >= SizeChars THEN d
    ELSE [d EXCEPT !.sizeBuf = Append(@, ch)]

LEMMA SizeStep ==
    ASSUME NEW m \in Message, Fit(m), NEW d \in DecoderType, NEW p \in Nat, NEW b, InSize(m, d, p, b),
           NextChar(m, p) # "SEMI"
    PROVE  LET x == AfterSize(d, NextChar(m, p))
           IN x \in DecoderType /\ Underway(m, x, p + 1, b)
<1> DEFINE N == Len(m.chunks)
           ch == NextChar(m, p)
           x == AfterSize(d, ch)
<1> SUFFICES x \in DecoderType /\ Underway(m, x, p + 1, b)
  OBVIOUS
<1>0. N \in Nat /\ SizeChars \in Nat
  BY MessageIs, ChunkAssumption
<1>1. /\ d.state = "Size" /\ d.remaining \in Int /\ d.sizeBuf \in Seq(Chars) /\ d.afterEol \in BOOLEAN
  BY DEF InSize, DecoderType
<1>2. PICK i \in 1..(N + 1) :
        /\ b = BodyUpTo(m, BodyOffset(m, i - 1))
        /\ \/ \E k \in 0..Len(HeadOf(m, i).size) :
                p = Offset(m, i - 1) + k /\ d.sizeBuf = SubSeq(HeadOf(m, i).size, 1, k)
           \/ p = HeadEnd(m, i) + 1 /\ d.sizeBuf = HeadOf(m, i).size
  BY DEF InSize
<1> DEFINE c == HeadOf(m, i)
           s == c.size
           o == Offset(m, i - 1)
           h == HeadEnd(m, i)
<1>3. /\ IsSizeLine(c) /\ o \in Nat /\ Len(s) \in Nat /\ Len(c.ext) \in Nat
      /\ h = o + Len(s) + Len(c.ext)
      /\ \A k \in 1..Len(s) : Sent(m)[o + k] = s[k]
      /\ \A k \in 1..Len(c.ext) : Sent(m)[o + Len(s) + k] = c.ext[k]
      /\ Sent(m)[h + 1] = "CR" /\ Sent(m)[h + 2] = "LF"
  BY HeadIs
<1>4. /\ s \in Seq(DOMAIN DigitValue) /\ (c.ext = <<>> \/ c.ext[1] = "SEMI")
      /\ DOMAIN DigitValue \subseteq Chars \ {"CR", "LF", "SEMI"}
  BY <1>3, ChunkAssumption DEF IsSizeLine
<1>5. Len(s) <= SizeChars
  BY DEF Fit
<1>6. x = IF ch = "LF" THEN SizeRead(d)
          ELSE IF ch = "CR" \/ Len(d.sizeBuf) >= SizeChars THEN d
          ELSE [d EXCEPT !.sizeBuf = Append(@, ch)]
  BY DEF AfterSize
<1>7. ch # "SEMI"
  OBVIOUS
<1> HIDE DEF ch, x
<1>8. CASE p = h + 1 /\ d.sizeBuf = s
  <2>1. ch = "LF" /\ p + 1 = h + 2
    <3>1. p + 1 = h + 2
      BY <1>3, <1>8
    <3> QED BY <1>3, <3>1 DEF ch, NextChar
  <2>2. x = SizeRead(d)
    BY <1>6, <2>1
  <2>3. CASE i <= N
    <3> DEFINE n == Len(m.chunks[i].data)
    <3>1. i \in 1..N /\ n \in Nat \ {0} /\ Number(s) = n
      BY <1>0, <2>3, TailIs
    <3> HIDE DEF s, o, h, n
    <3>2. Number(d.sizeBuf) = n
      BY <1>8, <3>1
    <3>3. x \in DecoderType /\ x.state = "Data" /\ x.remaining = n /\ x.sizeBuf = <<>>
      BY <2>2, <3>1, <3>2, SizeReadIs
    <3>4. BodyOffset(m, i - 1) + 0 = BodyOffset(m, i - 1)
      <4>1. i - 1 \in 0..N
        BY <3>1, <1>0
      <4>2. BodyOffset(m, i - 1) \in Nat
        BY <4>1, BodyIs
      <4> QED BY <4>2
    <3>5. /\ p + 1 = h + 2 + 0 /\ x.remaining = n - 0 /\ x.remaining > 0 /\ 0 \in Nat
          /\ b = BodyUpTo(m, BodyOffset(m, i - 1) + 0)
      <4>1. h \in Nat
        BY <1>3 DEF h
      <4> QED BY <1>2, <2>1, <3>1, <3>3, <3>4, <4>1
    <3>6. InData(m, x, p + 1, b)
      BY <3>1, <3>3, <3>5 DEF InData, n, h
    <3> QED BY <3>3, <3>6 DEF Underway
  <2>4. CASE ~ (i <= N)
    <3>1. i = N + 1 /\ i - 1 = N
      BY <1>0, <2>4
    <3>2. Number(s) = 0 /\ Offset(m, N + 1) = h + 2
      BY <3>1, TailIs
    <3>3. 1 \in 1..Len(TrailerLines(m)) /\ Len(TrailerLines(m)[1]) \in Nat
      <4>1. 1 \in 1..Len(TrailerLines(m))
        BY MessageIs
      <4> QED BY <4>1, TrailerIs
    <3> HIDE DEF s, o, h
    <3>4. Number(d.sizeBuf) = 0
      BY <1>8, <3>2
    <3>5. x \in DecoderType /\ x.state = "Trailer" /\ x.afterEol
      BY <2>2, <3>4, SizeReadIs
    <3>6. b = Body(m)
      <4>1. BodyOffset(m, N) = Len(Body(m)) /\ Len(Body(m)) \in 0..Len(Body(m))
        BY BodyIs
      <4>2. BodyUpTo(m, Len(Body(m))) = Body(m)
        BY <4>1, BodyUpToIs
      <4> QED BY <1>2, <3>1, <4>1, <4>2
    <3>7. OnlyCR(TrailerLines(m)[1], 0)
      BY <3>3 DEF OnlyCR
    <3>8. 0 \in 0..(Len(TrailerLines(m)[1]) + 1) /\ p + 1 = Offset(m, N + 1) + 0
      <4>1. h \in Nat
        BY <1>3 DEF h
      <4> QED BY <2>1, <3>2, <3>3, <4>1
    <3>9. InTrailer(m, x, p + 1, b)
      BY <3>3, <3>5, <3>6, <3>7, <3>8 DEF InTrailer
    <3> QED BY <3>5, <3>9 DEF Underway
  <2> QED BY <2>3, <2>4
<1>9. CASE \E k \in 0..Len(s) : p = o + k /\ d.sizeBuf = SubSeq(s, 1, k)
  <2>1. PICK k \in 0..Len(s) : p = o + k /\ d.sizeBuf = SubSeq(s, 1, k)
    BY <1>9
  <2> HIDE DEF s, o, h, c
  <2>2. CASE k < Len(s)
    <3>1. k + 1 \in 1..Len(s) /\ k + 1 \in 0..Len(s) /\ p + 1 = o + (k + 1) /\ k \in Nat /\ k < SizeChars
      BY <1>0, <1>3, <1>5, <2>1, <2>2
    <3>2. ch = s[k + 1]
      BY <1>3, <3>1 DEF ch, NextChar
    <3>3. ch \in DOMAIN DigitValue /\ ch \in Chars /\ ch # "CR" /\ ch # "LF"
      BY <1>4, <3>1, <3>2
    <3>4. /\ SubSeq(s, 1, k) \in Seq(DOMAIN DigitValue) /\ Len(SubSeq(s, 1, k)) = k
          /\ \A u \in 1..k : SubSeq(s, 1, k)[u] = s[u]
      BY <1>4, <2>1
    <3>5. /\ SubSeq(s, 1, k + 1) \in Seq(DOMAIN DigitValue) /\ Len(SubSeq(s, 1, k + 1)) = k + 1
          /\ \A u \in 1..(k + 1) : SubSeq(s, 1, k + 1)[u] = s[u]
      BY <1>4, <3>1
    <3> DEFINE a == SubSeq(s, 1, k)
               t == SubSeq(s, 1, k + 1)
               D == DOMAIN DigitValue
    <3> HIDE DEF a, t, D
    <3>6. a \in Seq(D) /\ ch \in D /\ t \in Seq(D) /\ Len(t) = Len(a) + 1
          /\ (\A u \in 1..Len(a) : t[u] = a[u]) /\ t[Len(a) + 1] = ch
      <4>1. (\A u \in 1..k : u \in 1..(k + 1)) /\ k + 1 \in 1..(k + 1)
        BY <3>1
      <4> QED BY <3>2, <3>3, <3>4, <3>5, <4>1 DEF a, t, D
    <3>7. Append(a, ch) = t
      BY <3>6, AppendsTo
    <3>8. Len(d.sizeBuf) = k /\ d.sizeBuf = a /\ ~ (Len(d.sizeBuf) >= SizeChars)
      <4>1. Len(d.sizeBuf) = k
        BY <2>1, <3>4
      <4> QED BY <1>0, <2>1, <3>1, <4>1 DEF a
    <3>9. x = WithBuf(d, t)
      <4>1. x = WithBuf(d, Append(d.sizeBuf, ch))
        BY <1>6, <3>3, <3>8 DEF WithBuf
      <4> QED BY <3>7, <3>8, <4>1
    <3>10. t \in Seq(Chars)
      <4>1. D \subseteq Chars
        BY <1>4 DEF D
      <4> QED BY <3>6, <4>1
    <3>11. x \in DecoderType /\ x.state = "Size" /\ x.sizeBuf = t
      BY <1>1, <3>9, <3>10, WithBufIs
    <3>12. InSize(m, x, p + 1, b)
      BY <1>2, <3>1, <3>11 DEF InSize, t, s, o, c
    <3> QED BY <3>11, <3>12 DEF Underway
  <2>3. CASE ~ (k < Len(s))
    <3>1. k = Len(s) /\ p + 1 = o + Len(s) + 1
      <4>1. Len(s) \in Nat /\ o \in Nat /\ p = o + k
        BY <1>3, <2>1
      <4> QED BY <2>3, <4>1
    <3>2. CASE c.ext = <<>>
      <4>1. Len(c.ext) = 0
        BY <3>2
      <4>2. h = o + Len(s) /\ p + 1 = h + 1
        BY <1>3, <3>1, <4>1
      <4>3. ch = "CR" /\ x = d
        <5>1. ch = "CR"
          BY <1>3, <4>2 DEF ch, NextChar
        <5> QED BY <1>6, <5>1
      <4>4. SubSeq(s, 1, k) = s
        BY <1>4, <3>1
      <4>5. p + 1 = HeadEnd(m, i) + 1 /\ x.sizeBuf = HeadOf(m, i).size
        BY <2>1, <4>2, <4>3, <4>4 DEF h, s, c
      <4>6. InSize(m, x, p + 1, b)
        BY <1>1, <1>2, <4>3, <4>5 DEF InSize
      <4> QED BY <4>3, <4>6 DEF Underway
    <3>3. CASE c.ext # <<>>
      <4>1. 1 \in 1..Len(c.ext) /\ c.ext[1] = "SEMI"
        <5>1. c.ext \in Seq(Chars)
          BY <1>3 DEF IsSizeLine
        <5>2. Len(c.ext) # 0
          BY <3>3, <5>1, EmptySeq
        <5> QED BY <1>3, <1>4, <3>3, <5>2
      <4>2. Sent(m)[o + Len(s) + 1] = c.ext[1]
        BY <1>3, <4>1
      <4> QED BY <1>7, <3>1, <4>1, <4>2 DEF ch, NextChar
    <3> QED BY <3>2, <3>3
  <2> QED BY <1>3, <2>2, <2>3
<1> QED BY <1>2, <1>8, <1>9

(* From the ";" of an extension to the LF that ends the size line: t bytes. *)
LEMMA ExtensionStep ==
    ASSUME NEW m \in Message, NEW d \in DecoderType, NEW p \in Nat, NEW b, InSize(m, d, p, b),
           NextChar(m, p) = "SEMI", NEW t \in Nat \ {0}, Sent(m)[p + t] = "LF",
           \A u \in 1..(t - 1) : Sent(m)[p + u] # "LF"
    PROVE  Underway(m, d, p + (t - 1), b)
<1> DEFINE N == Len(m.chunks)
<1>0. N \in Nat
  BY MessageIs
<1>1. PICK i \in 1..(N + 1) :
        /\ b = BodyUpTo(m, BodyOffset(m, i - 1))
        /\ \/ \E k \in 0..Len(HeadOf(m, i).size) :
                p = Offset(m, i - 1) + k /\ d.sizeBuf = SubSeq(HeadOf(m, i).size, 1, k)
           \/ p = HeadEnd(m, i) + 1 /\ d.sizeBuf = HeadOf(m, i).size
  BY DEF InSize
<1> DEFINE c == HeadOf(m, i)
           s == c.size
           e == c.ext
           o == Offset(m, i - 1)
           h == HeadEnd(m, i)
<1>2. /\ IsSizeLine(c) /\ o \in Nat /\ Len(s) \in Nat /\ Len(e) \in Nat
      /\ h = o + Len(s) + Len(e)
      /\ \A k \in 1..Len(s) : Sent(m)[o + k] = s[k]
      /\ \A k \in 1..Len(e) : Sent(m)[o + Len(s) + k] = e[k]
      /\ Sent(m)[h + 1] = "CR" /\ Sent(m)[h + 2] = "LF"
  BY HeadIs
<1>3. /\ s \in Seq(DOMAIN DigitValue) /\ (e = <<>> \/ ~ Has(e, "LF"))
      /\ DOMAIN DigitValue \subseteq Chars \ {"CR", "LF", "SEMI"}
  BY <1>2, ChunkAssumption DEF IsSizeLine
<1>4. \A k \in 1..Len(e) : e[k] # "LF"
  <2>1. e = <<>> => Len(e) = 0
    BY ShortSeq
  <2>2. (e = <<>> \/ ~ Has(e, "LF")) /\ Len(e) \in Nat
    BY <1>2, <1>3
  <2> HIDE DEF e
  <2>3. CASE e = <<>>
    BY <2>1, <2>3
  <2>4. CASE ~ Has(e, "LF")
    BY <2>4 DEF Has
  <2> QED BY <2>2, <2>3, <2>4
<1> HIDE DEF c, s, e, o, h
<1>5. p # h + 1
  <2>1. h + 1 + 1 = h + 2
    BY <1>2
  <2>2. p = h + 1 => NextChar(m, p) = "LF"
    BY <1>2, <2>1 DEF NextChar
  <2> QED BY <2>2
<1>6. PICK k \in 0..Len(s) : p = o + k /\ d.sizeBuf = SubSeq(s, 1, k)
  BY <1>1, <1>5 DEF s, o, h, c
<1>7. k = Len(s)
  <2>1. SUFFICES ASSUME k # Len(s) PROVE FALSE
    OBVIOUS
  <2>2. k + 1 \in 1..Len(s) /\ p + 1 = o + (k + 1)
    BY <1>2, <1>6, <2>1
  <2>3. NextChar(m, p) = s[k + 1]
    BY <1>2, <2>2 DEF NextChar
  <2>4. s[k + 1] \in DOMAIN DigitValue
    BY <1>3, <2>2
  <2> QED BY <1>3, <2>3, <2>4
<1>8. p = o + Len(s) /\ h = p + Len(e)
  BY <1>2, <1>6, <1>7
<1>9. \A u \in 1..(Len(e) + 1) : Sent(m)[p + u] # "LF"
  <2> TAKE u \in 1..(Len(e) + 1)
  <2>1. CASE u = Len(e) + 1
    <3>1. p + u = h + 1
      BY <1>2, <1>8, <2>1
    <3> QED BY <1>2, <3>1
  <2>2. CASE u # Len(e) + 1
    <3>1. u \in 1..Len(e)
      BY <1>2, <2>2
    <3> QED BY <1>2, <1>4, <1>8, <3>1
  <2> QED BY <2>1, <2>2
<1>10. t = Len(e) + 2
  <2>1. t < Len(e) + 2 => t \in 1..(Len(e) + 1)
    BY <1>2
  <2>2. t > Len(e) + 2 => Len(e) + 2 \in 1..(t - 1)
    BY <1>2
  <2>3. Sent(m)[p + (Len(e) + 2)] = "LF"
    <3>1. p + (Len(e) + 2) = h + 2
      BY <1>2, <1>8
    <3> QED BY <1>2, <3>1
  <2>4. ~ (t < Len(e) + 2)
    BY <1>9, <2>1
  <2>5. ~ (t > Len(e) + 2)
    BY <2>2, <2>3
  <2>6. Len(e) \in Nat /\ t \in Nat
    BY <1>2
  <2> QED BY <2>4, <2>5, <2>6
<1>11. p + (t - 1) = h + 1
  BY <1>2, <1>8, <1>10
<1>12. d.sizeBuf = s
  <2>1. SubSeq(s, 1, Len(s)) = s
    BY <1>3
  <2> QED BY <1>6, <1>7, <2>1
<1>13. d.state = "Size"
  BY DEF InSize
<1>14. InSize(m, d, p + (t - 1), b)
  BY <1>1, <1>11, <1>12, <1>13 DEF InSize, s, h, c
<1> QED BY <1>14 DEF Underway

(* g bytes of data.                                                        *)
AfterData(d, g) == [d EXCEPT !.remaining = @ - g,
                             !.state = IF g = d.remaining THEN "CRLF" ELSE "Data"]
LEMMA AfterDataIs ==
    ASSUME NEW d \in DecoderType, NEW g \in Nat
    PROVE  /\ AfterData(d, g) \in DecoderType /\ AfterData(d, g).remaining = d.remaining - g
           /\ AfterData(d, g).sizeBuf = d.sizeBuf
           /\ AfterData(d, g).state = IF g = d.remaining THEN "CRLF" ELSE "Data"
<1>1. d.remaining \in Int
  BY DEF DecoderType
<1>2. PICK n \in Int : n = d.remaining - g
  BY <1>1
<1>3. PICK s \in {"CRLF", "Data"} : s = IF g = d.remaining THEN "CRLF" ELSE "Data"
  OBVIOUS
<1>4. AfterData(d, g) = [d EXCEPT !.remaining = n, !.state = s]
  BY <1>2, <1>3 DEF AfterData
<1>5. LET x == [d EXCEPT !.remaining = n, !.state = s]
      IN x \in DecoderType /\ x.remaining = n /\ x.sizeBuf = d.sizeBuf /\ x.state = s
  BY DEF DecoderType
<1> QED BY <1>2, <1>3, <1>4, <1>5

LEMMA DataStep ==
    ASSUME NEW m \in Message, NEW d \in DecoderType, NEW p \in Nat, NEW b, InData(m, d, p, b),
           NEW g \in Nat, g <= d.remaining
    PROVE  /\ AfterData(d, g) \in DecoderType
           /\ Underway(m, AfterData(d, g), p + g, b \o [k \in 1..g |-> p + k])
<1> DEFINE N == Len(m.chunks)
           x == AfterData(d, g)
           y == b \o [k \in 1..g |-> p + k]
<1>0. N \in Nat
  BY MessageIs
<1>1. PICK i \in 1..N, n \in Nat :
        /\ p = HeadEnd(m, i) + 2 + n /\ d.remaining = Len(m.chunks[i].data) - n
        /\ d.remaining > 0
        /\ b = BodyUpTo(m, BodyOffset(m, i - 1) + n)
  BY DEF InData
<1>2. d.sizeBuf = <<>>
  BY DEF InData
<1> DEFINE L == Len(m.chunks[i].data)
           h == HeadEnd(m, i)
           o == BodyOffset(m, i - 1)
<1>3. i \in 1..(N + 1) /\ i - 1 \in 0..N
  BY <1>0
<1>4. L \in Nat
  BY TailIs
<1>5. h \in Nat
  <2>1. /\ Offset(m, i - 1) \in Nat /\ Len(HeadOf(m, i).size) \in Nat /\ Len(HeadOf(m, i).ext) \in Nat
        /\ HeadEnd(m, i) = Offset(m, i - 1) + Len(HeadOf(m, i).size) + Len(HeadOf(m, i).ext)
    BY <1>3, HeadIs
  <2> QED BY <2>1
<1>6. o \in Nat /\ BodyOffset(m, i) = o + L
  BY <1>3, BodyIs
<1> HIDE DEF L, h, o
<1>6a. p = h + 2 + n /\ d.remaining = L - n
  BY <1>1 DEF L, h
<1>7. n + g \in Nat /\ n + g <= L /\ p = h + 2 + n /\ p + g = h + 2 + (n + g)
      /\ d.remaining - g = L - (n + g) /\ (g = d.remaining <=> n + g = L)
  BY <1>4, <1>5, <1>6a
<1>8. y = BodyUpTo(m, o + (n + g))
  <2>1. b = BodyUpTo(m, o + n)
    BY <1>1 DEF o
  <2>2. [k \in 1..g |-> p + k] = [k \in 1..g |-> h + 2 + n + k]
    BY <1>7
  <2>3. BodyUpTo(m, o + n) \o [k \in 1..g |-> h + 2 + n + k] = BodyUpTo(m, o + (n + g))
    BY <1>7, BodyGrows DEF L, h, o
  <2> QED BY <2>1, <2>2, <2>3
<1>9. /\ x \in DecoderType /\ x.remaining = d.remaining - g /\ x.sizeBuf = <<>>
      /\ x.state = IF g = d.remaining THEN "CRLF" ELSE "Data"
  BY <1>2, AfterDataIs
<1> SUFFICES x \in DecoderType /\ Underway(m, x, p + g, y)
  OBVIOUS
<1> HIDE DEF x, y
<1>10. CASE g = d.remaining
  <2>1. p + g = h + 2 + L + 0 /\ y = BodyUpTo(m, BodyOffset(m, i))
    <3>1. n + g = L
      BY <1>7, <1>10
    <3>2. h + 2 + L = h + 2 + L + 0
      BY <1>4, <1>5
    <3>3. p + g = h + 2 + L + 0
      BY <1>7, <3>1, <3>2
    <3>4. y = BodyUpTo(m, o + L)
      BY <1>8, <3>1
    <3> QED BY <1>6, <3>3, <3>4
  <2>2. x.state = "CRLF"
    BY <1>9, <1>10
  <2>3. InCRLF(m, x, p + g, y)
    BY <1>9, <2>1, <2>2 DEF InCRLF, L, h
  <2> QED BY <1>9, <2>3 DEF Underway
<1>11. CASE g # d.remaining
  <2>1. x.state = "Data"
    BY <1>9, <1>11
  <2>2. x.remaining = L - (n + g) /\ x.remaining > 0
    BY <1>4, <1>7, <1>9, <1>11
  <2>3. InData(m, x, p + g, y)
    BY <1>7, <1>8, <1>9, <2>1, <2>2 DEF InData, L, h, o
  <2> QED BY <1>9, <2>3 DEF Underway
<1> QED BY <1>10, <1>11

(* The line end behind the data.                                           *)
AfterCRLF(d, ch) == [d EXCEPT !.state = IF ch = "LF" THEN "Size" ELSE "CRLF"]
LEMMA AfterCRLFIs ==
    ASSUME NEW d \in DecoderType, NEW ch
    PROVE  /\ AfterCRLF(d, ch) \in DecoderType /\ AfterCRLF(d, ch).sizeBuf = d.sizeBuf
           /\ AfterCRLF(d, ch).state = IF ch = "LF" THEN "Size" ELSE "CRLF"
<1>1. PICK s \in {"CRLF", "Size"} : s = IF ch = "LF" THEN "Size" ELSE "CRLF"
  OBVIOUS
<1>2. AfterCRLF(d, ch) = [d EXCEPT !.state = s]
  BY <1>1 DEF AfterCRLF
<1>3. LET x == [d EXCEPT !.state = s]
      IN x \in DecoderType /\ x.sizeBuf = d.sizeBuf /\ x.state = s
  BY DEF DecoderType
<1> QED BY <1>1, <1>2, <1>3

LEMMA CRLFStep ==
    ASSUME NEW m \in Message, NEW d \in DecoderType, NEW p \in Nat, NEW b, InCRLF(m, d, p, b)
    PROVE  LET x == AfterCRLF(d, NextChar(m, p))
           IN x \in DecoderType /\ Underway(m, x, p + 1, b)
<1> DEFINE N == Len(m.chunks)
           ch == NextChar(m, p)
           x == AfterCRLF(d, ch)
<1>0. N \in Nat
  BY MessageIs
<1>1. PICK i \in 1..N, z \in {0, 1} :
        /\ p = HeadEnd(m, i) + 2 + Len(m.chunks[i].data) + z
        /\ b = BodyUpTo(m, BodyOffset(m, i))
  BY DEF InCRLF
<1>2. d.sizeBuf = <<>>
  BY DEF InCRLF
<1> DEFINE n == Len(m.chunks[i].data)
           h == HeadEnd(m, i)
<1>3. i \in 1..(N + 1) /\ i + 1 \in 1..(N + 1) /\ i + 1 - 1 = i
  BY <1>0
<1>4. /\ n \in Nat \ {0} /\ Offset(m, i) = h + n + 4
      /\ Sent(m)[h + n + 3] = "CR" /\ Sent(m)[h + n + 4] = "LF"
  BY TailIs
<1>5. h \in Nat
  <2>1. /\ Offset(m, i - 1) \in Nat /\ Len(HeadOf(m, i).size) \in Nat /\ Len(HeadOf(m, i).ext) \in Nat
        /\ HeadEnd(m, i) = Offset(m, i - 1) + Len(HeadOf(m, i).size) + Len(HeadOf(m, i).ext)
    BY <1>3, HeadIs
  <2> QED BY <2>1
<1>6. /\ x \in DecoderType /\ x.sizeBuf = <<>> /\ x.state = IF ch = "LF" THEN "Size" ELSE "CRLF"
  BY <1>2, AfterCRLFIs
<1> SUFFICES x \in DecoderType /\ Underway(m, x, p + 1, b)
  OBVIOUS
<1> HIDE DEF x, ch, n, h
<1>6a. p = h + 2 + n + z
  BY <1>1 DEF n, h
<1>7. CASE z = 0
  <2>1. p + 1 = h + n + 3 /\ p + 1 = h + 2 + n + 1
    BY <1>4, <1>5, <1>6a, <1>7
  <2>2. ch = "CR"
    BY <1>4, <2>1 DEF ch, NextChar
  <2>3. x.state = "CRLF"
    BY <1>6, <2>2
  <2>4. InCRLF(m, x, p + 1, b)
    BY <1>1, <1>6, <2>1, <2>3 DEF InCRLF, n, h
  <2> QED BY <1>6, <2>4 DEF Underway
<1>8. CASE z = 1
  <2>1. p + 1 = h + n + 4
    BY <1>4, <1>5, <1>6a, <1>8
  <2>2. ch = "LF"
    BY <1>4, <2>1 DEF ch, NextChar
  <2>3. x.state = "Size"
    BY <1>6, <2>2
  <2> DEFINE s == HeadOf(m, i + 1).size
             j == i + 1
  <2>4. j \in 1..(N + 1) /\ j - 1 = i
    BY <1>3
  <2>5. Len(s) \in Nat /\ s \in Seq(DOMAIN DigitValue)
    BY <1>3, HeadIs DEF IsSizeLine
  <2> HIDE DEF s
  <2>6. SubSeq(s, 1, 0) = <<>> /\ 0 \in 0..Len(s)
    <3>1. 0 \in Nat /\ 0 <= 0 /\ 0 <= Len(s)
      BY <2>5
    <3>2. SubSeq(s, 0 + 1, 0) = <<>>
      BY <2>5, <3>1, PieceIs
    <3> QED BY <2>5, <3>2
  <2>7. p + 1 = Offset(m, j - 1) + 0 /\ x.sizeBuf = SubSeq(HeadOf(m, j).size, 1, 0)
    BY <1>4, <1>5, <1>6, <2>1, <2>4, <2>6 DEF s
  <2>8. 0 \in 0..Len(HeadOf(m, j).size) /\ b = BodyUpTo(m, BodyOffset(m, j - 1))
    BY <1>1, <2>4, <2>6 DEF s
  <2> HIDE DEF j
  <2>9. InSize(m, x, p + 1, b)
    BY <2>3, <2>4, <2>7, <2>8 DEF InSize
  <2> QED BY <1>6, <2>9 DEF Underway
<1> QED BY <1>7, <1>8

(* A character of the trailer.                                             *)
AfterTrailer(d, ch) == IF ch = "CR" THEN d
                       ELSE IF ch = "LF" /\ d.afterEol THEN [d EXCEPT !.state = "Done"]
                       ELSE [d EXCEPT !.afterEol = (ch = "LF")]
LEMMA AfterTrailerIs ==
    ASSUME NEW d \in DecoderType, NEW ch
    PROVE  /\ AfterTrailer(d, ch) \in DecoderType
           /\ ch = "CR" => AfterTrailer(d, ch) = d
           /\ ch = "LF" /\ d.afterEol => AfterTrailer(d, ch).state = "Done"
           /\ ch # "CR" /\ ~ (ch = "LF" /\ d.afterEol) =>
                AfterTrailer(d, ch).state = d.state /\ (AfterTrailer(d, ch).afterEol <=> ch = "LF")
<1>1. CASE ch = "CR"
  BY <1>1 DEF AfterTrailer
<1>2. CASE ch = "LF" /\ d.afterEol
  <2>1. AfterTrailer(d, ch) = [d EXCEPT !.state = "Done"]
    BY <1>2 DEF AfterTrailer
  <2>2. LET x == [d EXCEPT !.state = "Done"] IN x \in DecoderType /\ x.state = "Done"
    BY DEF DecoderType
  <2> QED BY <1>2, <2>1, <2>2
<1>3. CASE ch # "CR" /\ ~ (ch = "LF" /\ d.afterEol)
  <2>1. PICK f \in BOOLEAN : f = (ch = "LF")
    OBVIOUS
  <2>2. AfterTrailer(d, ch) = [d EXCEPT !.afterEol = f]
    BY <1>3, <2>1 DEF AfterTrailer
  <2>3. LET x == [d EXCEPT !.afterEol = f]
        IN x \in DecoderType /\ x.state = d.state /\ (x.afterEol <=> f)
    BY DEF DecoderType
  <2> QED BY <1>3, <2>1, <2>2, <2>3
<1> QED BY <1>1, <1>2, <1>3

LEMMA TrailerStep ==
    ASSUME NEW m \in Message, NEW d \in DecoderType, NEW p \in Nat, NEW b, InTrailer(m, d, p, b)
    PROVE  LET x == AfterTrailer(d, NextChar(m, p))
           IN x \in DecoderType /\ Underway(m, x, p + 1, b)
<1> DEFINE N == Len(m.chunks)
           T == TrailerLines(m)
           ch == NextChar(m, p)
           x == AfterTrailer(d, ch)
<1>1. PICK j \in 1..Len(T) : \E k \in 0..(Len(T[j]) + 1) :
        p = Offset(m, N + j) + k /\ (d.afterEol <=> OnlyCR(T[j], k))
  BY DEF InTrailer
<1> DEFINE l == T[j]
           o == Offset(m, N + j)
<1>2. PICK k \in 0..(Len(l) + 1) : p = o + k /\ (d.afterEol <=> OnlyCR(l, k))
  BY <1>1
<1>3. d.state = "Trailer" /\ b = Body(m)
  BY DEF InTrailer
<1>4. /\ o \in Nat /\ Len(l) \in Nat
      /\ \A u \in 1..Len(l) : Sent(m)[o + u] = l[u] /\ l[u] # "LF"
      /\ Sent(m)[o + Len(l) + 1] = "CR" /\ Sent(m)[o + Len(l) + 2] = "LF"
      /\ \/ /\ j + 1 \in 1..Len(T) /\ Offset(m, N + (j + 1)) = o + Len(l) + 2
            /\ \E u \in 1..Len(l) : l[u] # "CR"
         \/ Len(Encoded(m)) = o + Len(l) + 2 /\ l = <<>>
  <2>1. LET at == Offset(m, Len(m.chunks) + j)
            line == TrailerLines(m)[j]
        IN /\ at \in Nat /\ Len(line) \in Nat
           /\ \A u \in 1..Len(line) : Sent(m)[at + u] = line[u] /\ line[u] # "LF"
           /\ Sent(m)[at + Len(line) + 1] = "CR" /\ Sent(m)[at + Len(line) + 2] = "LF"
           /\ at + Len(line) + 2 <= Len(Encoded(m))
           /\ \/ /\ j + 1 \in 1..Len(TrailerLines(m))
                 /\ Offset(m, Len(m.chunks) + (j + 1)) = at + Len(line) + 2
                 /\ \E u \in 1..Len(line) : line[u] # "CR"
              \/ Len(Encoded(m)) = at + Len(line) + 2 /\ line = <<>>
    BY TrailerIs, ZenonT(30)
  <2> QED BY <2>1
<1>5. x \in DecoderType
  BY AfterTrailerIs
<1>6. /\ ch = "CR" => x = d
      /\ ch = "LF" /\ d.afterEol => x.state = "Done"
      /\ ch # "CR" /\ ~ (ch = "LF" /\ d.afterEol) => x.state = "Trailer" /\ (x.afterEol <=> ch = "LF")
  <2> HIDE DEF ch
  <2>1. /\ ch = "CR" => x = d
        /\ ch = "LF" /\ d.afterEol => x.state = "Done"
        /\ ch # "CR" /\ ~ (ch = "LF" /\ d.afterEol) =>
             x.state = d.state /\ (x.afterEol <=> ch = "LF")
    BY AfterTrailerIs
  <2> HIDE DEF x
  <2> QED BY <1>3, <2>1
<1> SUFFICES x \in DecoderType /\ Underway(m, x, p + 1, b)
  OBVIOUS
<1>7. ch = Sent(m)[p + 1]
  BY DEF NextChar
<1> HIDE DEF x, ch, l, o, T, N
<1>8. CASE k < Len(l)
  <2>1. k + 1 \in 1..Len(l) /\ k + 1 \in 0..(Len(l) + 1) /\ p + 1 = o + (k + 1) /\ k \in Nat
    BY <1>2, <1>4, <1>8
  <2>2. ch = l[k + 1] /\ ch # "LF"
    BY <1>4, <1>7, <2>1
  <2>3. OnlyCR(l, k + 1) <=> OnlyCR(l, k) /\ ch = "CR"
    <3>1. OnlyCR(l, k + 1) => OnlyCR(l, k) /\ ch = "CR"
      <4>1. SUFFICES ASSUME OnlyCR(l, k + 1) PROVE OnlyCR(l, k) /\ ch = "CR"
        OBVIOUS
      <4>2. \A u \in 1..Len(l) : u <= k + 1 => l[u] = "CR"
        BY <4>1 DEF OnlyCR
      <4>3. \A u \in 1..Len(l) : u <= k => l[u] = "CR"
        BY <1>4, <2>1, <4>2
      <4>4. l[k + 1] = "CR"
        BY <2>1, <4>2
      <4> QED BY <2>2, <4>3, <4>4 DEF OnlyCR
    <3>2. OnlyCR(l, k) /\ ch = "CR" => OnlyCR(l, k + 1)
      <4>1. SUFFICES ASSUME OnlyCR(l, k), ch = "CR",
                            NEW u \in 1..Len(l), u <= k + 1
                     PROVE  l[u] = "CR"
        BY DEF OnlyCR
      <4>2. u <= k => l[u] = "CR"
        BY <4>1 DEF OnlyCR
      <4>3. u <= k \/ u = k + 1
        BY <1>4, <2>1, <4>1
      <4> QED BY <2>2, <4>1, <4>2, <4>3
    <3> QED BY <3>1, <3>2
  <2>4. x.state = "Trailer" /\ (x.afterEol <=> OnlyCR(l, k + 1))
    <3>1. CASE ch = "CR"
      <4>1. x = d
        BY <1>6, <3>1
      <4> QED BY <1>2, <1>3, <2>3, <3>1, <4>1
    <3>2. CASE ch # "CR"
      <4>1. x.state = "Trailer" /\ ~ x.afterEol
        BY <1>6, <2>2, <3>2
      <4> QED BY <2>3, <3>2, <4>1
    <3> QED BY <3>1, <3>2
  <2>5. InTrailer(m, x, p + 1, b)
    BY <1>3, <2>1, <2>4 DEF InTrailer, l, o, T, N
  <2> QED BY <1>5, <2>5 DEF Underway
<1>9. CASE k = Len(l)
  <2>1. k + 1 \in 0..(Len(l) + 1) /\ p + 1 = o + (k + 1) /\ p + 1 = o + Len(l) + 1
    BY <1>2, <1>4, <1>9
  <2>2. ch = "CR" /\ x = d
    <3>1. ch = "CR"
      BY <1>4, <1>7, <2>1
    <3> QED BY <1>6, <3>1
  <2>3. OnlyCR(l, k + 1) <=> OnlyCR(l, k)
    <3>1. \A u \in 1..Len(l) : u <= k + 1 /\ u <= k
      BY <1>4, <1>9
    <3> QED BY <3>1 DEF OnlyCR
  <2>4. InTrailer(m, x, p + 1, b)
    <3>1. x.state = "Trailer" /\ (x.afterEol <=> OnlyCR(l, k + 1))
      BY <1>2, <1>3, <2>2, <2>3
    <3> QED BY <1>3, <2>1, <3>1 DEF InTrailer, l, o, T, N
  <2> QED BY <1>5, <2>4 DEF Underway
<1>10. CASE k = Len(l) + 1
  <2>1. p + 1 = o + Len(l) + 2
    BY <1>2, <1>4, <1>10
  <2>2. ch = "LF"
    BY <1>4, <1>7, <2>1
  <2>3. OnlyCR(l, k) <=> \A u \in 1..Len(l) : l[u] = "CR"
    <3>1. \A u \in 1..Len(l) : u <= k
      BY <1>4, <1>10
    <3> QED BY <3>1 DEF OnlyCR
  <2>4. CASE /\ j + 1 \in 1..Len(T) /\ Offset(m, N + (j + 1)) = o + Len(l) + 2
             /\ \E u \in 1..Len(l) : l[u] # "CR"
    <3>1. ~ d.afterEol
      BY <1>2, <2>3, <2>4
    <3>2. x.state = "Trailer" /\ x.afterEol
      BY <1>6, <2>2, <3>1
    <3> DEFINE i == j + 1
               r == T[i]
    <3>3. i \in 1..Len(T)
      BY <2>4
    <3>4. Len(r) \in Nat
      BY <3>3, TrailerIs DEF T
    <3> HIDE DEF r
    <3>5. 0 \in 0..(Len(r) + 1) /\ OnlyCR(r, 0)
      BY <3>4 DEF OnlyCR
    <3>6. p + 1 = Offset(m, N + i) + 0
      <4>1. Offset(m, N + i) = p + 1
        BY <2>1, <2>4
      <4> QED BY <4>1
    <3> HIDE DEF i
    <3>7. InTrailer(m, x, p + 1, b)
      BY <1>3, <3>2, <3>3, <3>5, <3>6 DEF InTrailer, r, T, N
    <3> QED BY <1>5, <3>7 DEF Underway
  <2>5. CASE Len(Encoded(m)) = o + Len(l) + 2 /\ l = <<>>
    <3>1. Len(l) = 0
      <4>1. l = <<>>
        BY <2>5
      <4> QED BY <4>1
    <3>2. d.afterEol
      BY <1>2, <2>3, <3>1
    <3>3. x.state = "Done"
      BY <1>6, <2>2, <3>2
    <3>4. AtEnd(m, x, p + 1, b)
      BY <1>3, <2>1, <2>5, <3>3 DEF AtEnd
    <3> QED BY <1>5, <3>4 DEF Underway
  <2> QED BY <1>4, <2>4, <2>5
<1> QED
  <2>1. k < Len(l) \/ k = Len(l) \/ k = Len(l) + 1
    BY <1>4
  <2> QED BY <1>8, <1>9, <1>10, <2>1

(* What being underway says of what has been put out and of where it ends. *)
LEMMA UnderwaySoFar ==
    ASSUME NEW m \in Message, NEW d, NEW p, NEW b, Underway(m, d, p, b)
    PROVE  /\ IsPrefix(b, Body(m)) /\ p <= Len(Encoded(m))
           /\ d.state = "Done" <=> p = Len(Encoded(m))
           /\ d.state = "Done" => b = Body(m)
<1> DEFINE N == Len(m.chunks)
           E == Len(Encoded(m))
           Good == /\ IsPrefix(b, Body(m)) /\ p <= E
                   /\ d.state = "Done" <=> p = E
                   /\ d.state = "Done" => b = Body(m)
<1>1. N \in Nat /\ E \in Nat
  BY MessageIs, SentIs
<1>2. IsPrefix(Body(m), Body(m))
  <2>1. Len(Body(m)) \in 0..Len(Body(m))
    <3>1. Len(Body(m)) \in Nat
      BY BodyIs
    <3> QED BY <3>1
  <2> QED BY <2>1, BodyUpToIs
<1>3. \A n \in 0..Len(Body(m)) : IsPrefix(BodyUpTo(m, n), Body(m))
  BY BodyUpToIs
<1>4. \A i \in 0..N : BodyOffset(m, i) \in 0..Len(Body(m))
  <2> TAKE i \in 0..N
  <2>1. Len(Body(m)) \in Nat /\ BodyOffset(m, i) \in Nat /\ BodyOffset(m, i) <= Len(Body(m))
    BY BodyIs
  <2> QED BY <2>1
<1> SUFFICES Good
  OBVIOUS
<1>5. CASE InSize(m, d, p, b)
  <2>1. PICK i \in 1..(N + 1) :
          /\ b = BodyUpTo(m, BodyOffset(m, i - 1))
          /\ \/ \E k \in 0..Len(HeadOf(m, i).size) : p = Offset(m, i - 1) + k
             \/ p = HeadEnd(m, i) + 1
    BY <1>5 DEF InSize
  <2> DEFINE s == Len(HeadOf(m, i).size)
             e == Len(HeadOf(m, i).ext)
             o == Offset(m, i - 1)
             h == HeadEnd(m, i)
  <2>2. /\ o \in Nat /\ s \in Nat /\ e \in Nat /\ h = o + s + e
        /\ h + 2 <= Offset(m, i) /\ Offset(m, i) <= E
    BY HeadIs
  <2>3. Offset(m, i) \in Nat
    <3>1. i \in 0..Len(WireParts(m))
      BY <1>1, MessageIs, WirePartsAre
    <3> QED BY <3>1, SentIs
  <2>4. p = h + 1 \/ \E k \in 0..s : p = o + k
    BY <2>1
  <2> HIDE DEF s, e, o, h, E
  <2>5. p < E /\ p <= E
    <3>1. CASE p = h + 1
      BY <1>1, <2>2, <2>3, <3>1
    <3>2. CASE \E k \in 0..s : p = o + k
      BY <1>1, <2>2, <2>3, <3>2
    <3> QED BY <2>4, <3>1, <3>2
  <2>6. p # E
    <3>1. p \in Int
      BY <2>2, <2>4
    <3> QED BY <1>1, <2>5, <3>1
  <2>7. d.state = "Size"
    BY <1>5 DEF InSize
  <2>8. IsPrefix(b, Body(m))
    <3>1. i - 1 \in 0..N
      BY <1>1
    <3>2. BodyOffset(m, i - 1) \in 0..Len(Body(m))
      BY <1>4, <3>1
    <3> QED BY <1>3, <2>1, <3>2
  <2> QED BY <2>5, <2>6, <2>7, <2>8
<1>6. CASE InData(m, d, p, b)
  <2>1. PICK i \in 1..N, n \in Nat :
          /\ p = HeadEnd(m, i) + 2 + n /\ d.remaining = Len(m.chunks[i].data) - n
          /\ d.remaining > 0
          /\ b = BodyUpTo(m, BodyOffset(m, i - 1) + n)
    BY <1>6 DEF InData
  <2> DEFINE L == Len(m.chunks[i].data)
             h == HeadEnd(m, i)
             o == BodyOffset(m, i - 1)
             B == Len(Body(m))
  <2>2. i \in 1..(N + 1) /\ i - 1 \in 0..N /\ i \in 0..N
    BY <1>1
  <2>3. L \in Nat /\ Offset(m, i) = h + L + 4
    BY TailIs
  <2>4. /\ Offset(m, i - 1) \in Nat /\ Len(HeadOf(m, i).size) \in Nat /\ Len(HeadOf(m, i).ext) \in Nat
        /\ h = Offset(m, i - 1) + Len(HeadOf(m, i).size) + Len(HeadOf(m, i).ext)
        /\ Offset(m, i) <= E
    BY <2>2, HeadIs
  <2>5. h \in Nat
    BY <2>4
  <2>6. /\ o \in Nat /\ BodyOffset(m, i) = o + L /\ BodyOffset(m, i) <= B /\ B \in Nat
    BY <2>2, BodyIs
  <2>7. p = h + 2 + n /\ L - n > 0
    BY <2>1
  <2>8. h + L + 4 <= E /\ o + L <= B
    BY <2>3, <2>4, <2>6
  <2> HIDE DEF L, h, o, B, E
  <2>9. p < E /\ p <= E /\ p # E
    BY <1>1, <2>3, <2>5, <2>7, <2>8
  <2>10. o + n \in 0..B
    BY <2>3, <2>6, <2>7, <2>8
  <2>11. IsPrefix(b, Body(m))
    BY <1>3, <2>1, <2>10 DEF B, o
  <2>12. d.state = "Data"
    BY <1>6 DEF InData
  <2> QED BY <2>9, <2>11, <2>12
<1>7. CASE InCRLF(m, d, p, b)
  <2>1. PICK i \in 1..N, z \in {0, 1} :
          /\ p = HeadEnd(m, i) + 2 + Len(m.chunks[i].data) + z
          /\ b = BodyUpTo(m, BodyOffset(m, i))
    BY <1>7 DEF InCRLF
  <2> DEFINE L == Len(m.chunks[i].data)
             h == HeadEnd(m, i)
  <2>2. i \in 1..(N + 1) /\ i \in 0..N
    BY <1>1
  <2>3. L \in Nat /\ Offset(m, i) = h + L + 4
    BY TailIs
  <2>4. /\ Offset(m, i - 1) \in Nat /\ Len(HeadOf(m, i).size) \in Nat /\ Len(HeadOf(m, i).ext) \in Nat
        /\ h = Offset(m, i - 1) + Len(HeadOf(m, i).size) + Len(HeadOf(m, i).ext)
        /\ Offset(m, i) <= E
    BY <2>2, HeadIs
  <2>5. h \in Nat /\ h + L + 4 <= E
    BY <2>3, <2>4
  <2>6. p = h + 2 + L + z
    BY <2>1
  <2> HIDE DEF L, h, E
  <2>7. p <= E /\ p # E
    BY <1>1, <2>3, <2>5, <2>6
  <2>8. IsPrefix(b, Body(m))
    BY <1>3, <1>4, <2>1, <2>2
  <2>9. d.state = "CRLF"
    BY <1>7 DEF InCRLF
  <2> QED BY <2>7, <2>8, <2>9
<1>8. CASE InTrailer(m, d, p, b)
  <2>1. PICK j \in 1..Len(TrailerLines(m)) : \E k \in 0..(Len(TrailerLines(m)[j]) + 1) :
          p = Offset(m, N + j) + k
    BY <1>8 DEF InTrailer
  <2> DEFINE o == Offset(m, N + j)
             L == Len(TrailerLines(m)[j])
  <2>2. PICK k \in 0..(L + 1) : p = o + k
    BY <2>1
  <2>3. o \in Nat /\ L \in Nat /\ o + L + 2 <= E
    BY TrailerIs
  <2> HIDE DEF o, L, E
  <2>4. p <= E /\ p # E
    BY <1>1, <2>2, <2>3
  <2>5. d.state = "Trailer" /\ b = Body(m)
    BY <1>8 DEF InTrailer
  <2> QED BY <1>2, <2>4, <2>5
<1>9. CASE AtEnd(m, d, p, b)
  <2>1. d.state = "Done" /\ p = E /\ b = Body(m)
    BY <1>9 DEF AtEnd
  <2> HIDE DEF E
  <2>2. p <= E
    BY <1>1, <2>1
  <2> QED BY <1>2, <2>1, <2>2
<1> QED BY <1>5, <1>6, <1>7, <1>8, <1>9 DEF Underway

(* The state tells where.                                                  *)
LEMMA UnderwayIn ==
    ASSUME NEW m, NEW d, NEW p, NEW b, Underway(m, d, p, b)
    PROVE  /\ d.state = "Size" => InSize(m, d, p, b)
           /\ d.state = "Data" => InData(m, d, p, b)
           /\ d.state = "CRLF" => InCRLF(m, d, p, b)
           /\ d.state = "Trailer" => InTrailer(m, d, p, b)
  BY DEF Underway, InSize, InData, InCRLF, InTrailer, AtEnd

(* The calls so far have left the decoder where the message says.          *)
CallType == [on : BOOLEAN, in : Nat, room : Nat]
Decoding ==
    /\ dec \in DecoderType /\ call \in CallType /\ pos \in Nat /\ pos + call.in <= Len(Wire)
    /\ Underway(message, dec, pos, body)

ChunkInv == message \in Message /\ (SizesFit /\ ~ cut => Decoding)

LEMMA WireIs ==
    ASSUME message \in Message
    PROVE  Wire = Sent(message) /\ Len(Wire) \in Nat /\ Wire \in Seq(Chars)
<1>1. Sent(message) \in Seq(Chars)
  BY SentIs
<1>2. Wire = Sent(message)
  BY DEF Wire, Sent
<1> QED BY <1>1, <1>2

LEMMA CharIs == message \in Message => Char = NextChar(message, pos)
  BY WireIs DEF Char, NextChar

LEMMA FitIs ==
    ASSUME message \in Message, SizesFit
    PROVE  Fit(message)
<1>1. Len(message.chunks) \in Nat
  BY MessageIs
<1> QED BY <1>1 DEF Fit, HeadOf, SizesFit

(* n bytes are behind.                                                     *)
Moved(c, n) == [c EXCEPT !.in = @ - n]
LEMMA MovedIs ==
    ASSUME NEW c \in CallType, NEW n \in Nat, n <= c.in
    PROVE  Moved(c, n) \in CallType /\ Moved(c, n).in = c.in - n
<1>1. c.in \in Nat
  BY DEF CallType
<1>2. PICK k \in Nat : k = c.in - n
  BY <1>1
<1>3. LET x == [c EXCEPT !.in = k] IN x \in CallType /\ x.in = k
  BY DEF CallType
<1>4. Moved(c, n) = [c EXCEPT !.in = k]
  BY <1>2 DEF Moved
<1> QED BY <1>2, <1>3, <1>4

LEMMA AdvanceIs ==
    ASSUME message \in Message, UNCHANGED message, pos \in Nat, call \in CallType,
           pos + call.in <= Len(Wire), NEW n \in Nat, n <= call.in, Advance(n)
    PROVE  /\ pos' = pos + n /\ pos' \in Nat /\ call' \in CallType
           /\ (pos + call.in <= Len(Wire))'
<1>1. pos' = pos + n /\ call' = Moved(call, n)
  BY DEF Advance, Moved
<1>2. call' \in CallType /\ call'.in = call.in - n
  BY <1>1, MovedIs
<1>3. call.in \in Nat
  BY DEF CallType
<1>4. pos' + call'.in = pos + call.in
  BY <1>1, <1>2, <1>3
<1>5. Wire' = Wire
  BY DEF Wire
<1> QED BY <1>1, <1>2, <1>4, <1>5

(* Each step that takes a byte.                                            *)
LEMMA OneByte ==
    ASSUME message \in Message, UNCHANGED message, Decoding, call.in > 0, Advance(1),
           UNCHANGED body, dec' \in DecoderType, Underway(message, dec', pos + 1, body)
    PROVE  Decoding'
<1>1. pos \in Nat /\ call \in CallType /\ pos + call.in <= Len(Wire)
  BY DEF Decoding
<1>2. 1 \in Nat /\ 1 <= call.in
  <2>1. call.in \in Nat
    BY <1>1 DEF CallType
  <2> QED BY <2>1
<1>3. pos' = pos + 1 /\ pos' \in Nat /\ call' \in CallType /\ (pos + call.in <= Len(Wire))'
  BY <1>1, <1>2, AdvanceIs
<1>4. Underway(message', dec', pos', body')
  BY <1>3
<1> QED BY <1>3, <1>4 DEF Decoding

LEMMA SizeCharKeeps ==
    ASSUME message \in Message, SizesFit, Decoding, SizeChar
    PROVE  Decoding'
<1>1. /\ dec.state = "Size" /\ call.in > 0 /\ Char # "SEMI" /\ dec' = AfterSize(dec, Char)
      /\ Advance(1) /\ UNCHANGED message /\ UNCHANGED body
  BY DEF SizeChar, At, AfterSize
<1>2. dec \in DecoderType /\ pos \in Nat /\ InSize(message, dec, pos, body)
  BY <1>1, UnderwayIn DEF Decoding
<1>3. Char = NextChar(message, pos) /\ Fit(message)
  BY CharIs, FitIs
<1>4. dec' \in DecoderType /\ Underway(message, dec', pos + 1, body)
  <2> DEFINE x == AfterSize(dec, NextChar(message, pos))
  <2>1. x \in DecoderType /\ Underway(message, x, pos + 1, body)
    BY <1>1, <1>2, <1>3, SizeStep
  <2>2. dec' = x
    BY <1>1, <1>3
  <2> HIDE DEF x
  <2> QED BY <2>1, <2>2
<1> QED BY <1>1, <1>4, OneByte

LEMMA SkipCRLFKeeps ==
    ASSUME message \in Message, Decoding, SkipCRLF
    PROVE  Decoding'
<1>1. /\ dec.state = "CRLF" /\ call.in > 0 /\ dec' = AfterCRLF(dec, Char)
      /\ Advance(1) /\ UNCHANGED message /\ UNCHANGED body
  BY DEF SkipCRLF, At, AfterCRLF
<1>2. dec \in DecoderType /\ pos \in Nat /\ InCRLF(message, dec, pos, body)
  BY <1>1, UnderwayIn DEF Decoding
<1>3. Char = NextChar(message, pos)
  BY CharIs
<1>4. dec' \in DecoderType /\ Underway(message, dec', pos + 1, body)
  <2> DEFINE x == AfterCRLF(dec, NextChar(message, pos))
  <2>1. x \in DecoderType /\ Underway(message, x, pos + 1, body)
    BY <1>2, CRLFStep
  <2>2. dec' = x
    BY <1>1, <1>3
  <2> HIDE DEF x
  <2> QED BY <2>1, <2>2
<1> QED BY <1>1, <1>4, OneByte

LEMMA TrailerCharKeeps ==
    ASSUME message \in Message, Decoding, TrailerChar
    PROVE  Decoding'
<1>1. /\ dec.state = "Trailer" /\ call.in > 0 /\ dec' = AfterTrailer(dec, Char)
      /\ Advance(1) /\ UNCHANGED message /\ UNCHANGED body
  BY DEF TrailerChar, At, AfterTrailer, EmptyLine
<1>2. dec \in DecoderType /\ pos \in Nat /\ InTrailer(message, dec, pos, body)
  BY <1>1, UnderwayIn DEF Decoding
<1>3. Char = NextChar(message, pos)
  BY CharIs
<1>4. dec' \in DecoderType /\ Underway(message, dec', pos + 1, body)
  <2> DEFINE x == AfterTrailer(dec, NextChar(message, pos))
  <2>1. x \in DecoderType /\ Underway(message, x, pos + 1, body)
    BY <1>2, TrailerStep
  <2>2. dec' = x
    BY <1>1, <1>3
  <2> HIDE DEF x
  <2> QED BY <2>1, <2>2
<1> QED BY <1>1, <1>4, OneByte

(* Where the LF is that ends the size line.                                *)
LEMMA ToLFIs ==
    ASSUME NEW V, NEW w \in Seq(V), NEW p \in Nat, NEW n \in Nat, p + n <= Len(w)
    PROVE  LET t == SelectInSeq(SubSeq(w, p + 1, p + n), LAMBDA c : c = "LF")
           IN t # 0 => /\ t \in Nat \ {0} /\ t <= n /\ w[p + t] = "LF"
                       /\ \A u \in 1..(t - 1) : w[p + u] # "LF"
<1> DEFINE s == SubSeq(w, p + 1, p + n)
           I == {i \in 1..Len(s) : s[i] = "LF"}
           t == SelectInSeq(s, LAMBDA c : c = "LF")
<1>1. t = IF I # {} THEN Min(I) ELSE 0
  BY DEF SelectInSeq
<1>2. Len(s) = n /\ \A u \in 1..n : s[u] = w[p + u]
  <2>1. p + n \in Nat /\ p <= p + n /\ p + n - p = n
    OBVIOUS
  <2> QED BY <2>1, PieceIs
<1>3. I = {i \in 1..n : w[p + i] = "LF"} /\ I \subseteq Nat
  BY <1>2
<1> SUFFICES ASSUME t # 0
             PROVE  /\ t \in Nat \ {0} /\ t <= n /\ w[p + t] = "LF"
                    /\ \A u \in 1..(t - 1) : w[p + u] # "LF"
  OBVIOUS
<1> HIDE DEF I, s, t
<1>4. I # {} /\ t = Min(I)
  BY <1>1
<1>5. PICK i \in I : \A j \in I : i <= j
  BY <1>3, <1>4, LeastNatural
<1>6. t = i
  BY <1>3, <1>4, <1>5, MinIs
<1>7. t \in 1..n /\ w[p + t] = "LF"
  BY <1>3, <1>5, <1>6
<1>8. \A u \in 1..(t - 1) : w[p + u] # "LF"
  <2>1. SUFFICES ASSUME NEW u \in 1..(t - 1), w[p + u] = "LF" PROVE FALSE
    OBVIOUS
  <2>2. u \in 1..n /\ u < t
    BY <1>7
  <2>3. u \in I
    BY <1>3, <2>1, <2>2
  <2>4. t <= u
    BY <1>5, <1>6, <2>3
  <2> QED BY <1>7, <2>2, <2>4
<1> QED BY <1>7, <1>8

LEMMA SkipExtensionKeeps ==
    ASSUME message \in Message, Decoding, SkipExtension, ~ cut'
    PROVE  Decoding' /\ ~ cut
<1> DEFINE t == ToLF
<1>1. /\ dec.state = "Size" /\ call.in > 0 /\ Char = "SEMI"
      /\ Advance(IF t = 0 THEN call.in ELSE t - 1)
      /\ cut' = (cut \/ t = 0) /\ UNCHANGED message /\ UNCHANGED dec /\ UNCHANGED body
  BY DEF SkipExtension, At
<1>2. t # 0 /\ ~ cut
  BY <1>1
<1>3. /\ dec \in DecoderType /\ pos \in Nat /\ call \in CallType /\ pos + call.in <= Len(Wire)
      /\ InSize(message, dec, pos, body)
  BY <1>1, UnderwayIn DEF Decoding
<1>4. call.in \in Nat
  BY <1>3 DEF CallType
<1>5. /\ t \in Nat \ {0} /\ t <= call.in /\ Wire[pos + t] = "LF"
      /\ \A u \in 1..(t - 1) : Wire[pos + u] # "LF"
  <2>1. Wire \in Seq(Chars)
    BY WireIs
  <2> QED BY <1>2, <1>3, <1>4, <2>1, ToLFIs DEF ToLF
<1> HIDE DEF t
<1>6. Wire = Sent(message) /\ NextChar(message, pos) = "SEMI"
  BY <1>1, WireIs, CharIs
<1>7. Sent(message)[pos + t] = "LF" /\ \A u \in 1..(t - 1) : Sent(message)[pos + u] # "LF"
  BY <1>5, <1>6
<1>8. Underway(message, dec, pos + (t - 1), body)
  BY <1>3, <1>5, <1>6, <1>7, ExtensionStep
<1>9. t - 1 \in Nat /\ t - 1 <= call.in /\ Advance(t - 1)
  BY <1>1, <1>2, <1>4, <1>5
<1>10. pos' = pos + (t - 1) /\ pos' \in Nat /\ call' \in CallType /\ (pos + call.in <= Len(Wire))'
  BY <1>1, <1>3, <1>9, AdvanceIs
<1>11. Underway(message', dec', pos', body')
  BY <1>1, <1>8, <1>10
<1> QED BY <1>1, <1>2, <1>3, <1>10, <1>11 DEF Decoding

(* The least of three.                                                     *)
LEMMA LeastOfThree ==
    ASSUME NEW a \in Nat, NEW b \in Nat, NEW c \in Nat
    PROVE  LET g == Min({a, b, c}) IN g \in Nat /\ g <= a /\ g <= b /\ g <= c
<1> DEFINE S == {a, b, c}
<1>1. S \subseteq Nat /\ S # {}
  OBVIOUS
<1>2. PICK g \in S : \A y \in S : g <= y
  BY <1>1, LeastNatural
<1>3. Min(S) = g
  BY <1>1, <1>2, MinIs
<1> QED BY <1>1, <1>2, <1>3

(* g bytes are given out.                                                  *)
Given(c, g) == [c EXCEPT !.in = @ - g, !.room = @ - g]
LEMMA GivenIs ==
    ASSUME NEW c \in CallType, NEW g \in Nat, g <= c.in, g <= c.room
    PROVE  Given(c, g) \in CallType /\ Given(c, g).in = c.in - g
<1>1. c.in \in Nat /\ c.room \in Nat
  BY DEF CallType
<1>2. PICK k \in Nat : k = c.in - g
  BY <1>1
<1>3. PICK r \in Nat : r = c.room - g
  BY <1>1
<1>4. LET x == [c EXCEPT !.in = k, !.room = r] IN x \in CallType /\ x.in = k
  BY DEF CallType
<1>5. Given(c, g) = [c EXCEPT !.in = k, !.room = r]
  BY <1>2, <1>3 DEF Given
<1> QED BY <1>2, <1>4, <1>5

LEMMA CopyDataKeeps ==
    ASSUME message \in Message, Decoding, CopyData
    PROVE  Decoding'
<1> DEFINE g == Deliver
           y == body \o [k \in 1..g |-> pos + k]
<1>1. /\ dec.state = "Data" /\ dec' = AfterData(dec, g) /\ body' = y
      /\ pos' = pos + g /\ call' = Given(call, g) /\ UNCHANGED message
  BY DEF CopyData, At, AfterData, Given
<1>2. /\ dec \in DecoderType /\ pos \in Nat /\ call \in CallType /\ pos + call.in <= Len(Wire)
      /\ InData(message, dec, pos, body)
  BY <1>1, UnderwayIn DEF Decoding
<1>3. call.in \in Nat /\ call.room \in Nat
  BY <1>2 DEF CallType
<1>4. dec.remaining \in Nat
  <2>1. dec.remaining \in Int
    BY <1>2 DEF DecoderType
  <2>2. dec.remaining > 0
    BY <1>2 DEF InData
  <2> QED BY <2>1, <2>2
<1>5. g \in Nat /\ g <= call.in /\ g <= dec.remaining /\ g <= call.room
  BY <1>3, <1>4, LeastOfThree DEF Deliver
<1> HIDE DEF g
<1>6. AfterData(dec, g) \in DecoderType /\ Underway(message, AfterData(dec, g), pos + g, y)
  BY <1>2, <1>5, DataStep
<1> HIDE DEF y
<1>7. dec' \in DecoderType /\ Underway(message', dec', pos', body')
  BY <1>1, <1>6
<1>8. Given(call, g) \in CallType /\ Given(call, g).in = call.in - g
  BY <1>2, <1>5, GivenIs
<1>9. call' \in CallType /\ call'.in = call.in - g
  BY <1>1, <1>8
<1>10. pos' \in Nat /\ pos' + call'.in = pos + call.in
  BY <1>1, <1>2, <1>3, <1>5, <1>9
<1>11. Wire' = Wire
  BY <1>1 DEF Wire
<1>12. (pos + call.in <= Len(Wire))'
  BY <1>2, <1>10, <1>11
<1> QED BY <1>7, <1>9, <1>10, <1>12 DEF Decoding

(* Between the calls nothing moves.                                        *)
LEMMA CallKeeps ==
    ASSUME message \in Message, Decoding, Call \/ Return \/ UNCHANGED chunkVars
    PROVE  Decoding'
<1>1. UNCHANGED message /\ UNCHANGED dec /\ UNCHANGED pos /\ UNCHANGED body
  BY DEF Call, Return, chunkVars
<1>2. /\ dec \in DecoderType /\ pos \in Nat /\ call \in CallType /\ pos + call.in <= Len(Wire)
      /\ Underway(message, dec, pos, body)
  BY DEF Decoding
<1>3. Len(Wire) \in Nat
  BY WireIs
<1>4. call' \in CallType /\ pos + call'.in <= Len(Wire)
  <2>1. CASE Call
    <3>1. MaxRoom \in Nat
      BY ChunkAssumption
    <3>2. PICK n \in 1..(Len(Wire) - pos), cap \in 0..MaxRoom :
            call' = [on |-> TRUE, in |-> n, room |-> cap]
      BY <2>1 DEF Call
    <3>3. n \in Nat /\ cap \in Nat /\ pos + n <= Len(Wire)
      BY <1>2, <1>3, <3>1
    <3> QED BY <3>2, <3>3 DEF CallType
  <2>2. CASE Return
    <3>1. call' = [on |-> FALSE, in |-> 0, room |-> 0]
      BY <2>2 DEF Return, NoCall
    <3>2. call.in \in Nat
      BY <1>2 DEF CallType
    <3>3. pos + 0 <= Len(Wire)
      BY <1>2, <1>3, <3>2
    <3> QED BY <3>1, <3>3 DEF CallType
  <2>3. CASE UNCHANGED chunkVars
    <3>1. call' = call
      BY <2>3 DEF chunkVars
    <3> QED BY <1>2, <3>1
  <2> QED BY <2>1, <2>2, <2>3
<1>5. Wire' = Wire
  BY <1>1 DEF Wire
<1>6. (pos + call.in <= Len(Wire))'
  BY <1>1, <1>4, <1>5
<1>7. Underway(message', dec', pos', body')
  BY <1>1, <1>2
<1>8. dec' \in DecoderType /\ pos' \in Nat
  BY <1>1, <1>2
<1> QED BY <1>4, <1>6, <1>7, <1>8 DEF Decoding

LEMMA ChunkInvStep ==
    ASSUME ChunkInv, [ChunkNext]_chunkVars
    PROVE  ChunkInv'
<1>1. message \in Message /\ UNCHANGED message
  <2>1. CASE ChunkNext
    BY <2>1 DEF ChunkInv, ChunkNext, Call, SizeChar, SkipExtension, CopyData, SkipCRLF, TrailerChar, Return
  <2>2. CASE UNCHANGED chunkVars
    BY <2>2 DEF ChunkInv, chunkVars
  <2> QED BY <2>1, <2>2
<1>2. SizesFit' <=> SizesFit
  BY <1>1 DEF SizesFit
<1> SUFFICES ASSUME SizesFit, ~ cut' PROVE Decoding'
  BY <1>1, <1>2 DEF ChunkInv
<1>3. ~ cut => Decoding
  BY DEF ChunkInv
<1>4. CASE SkipExtension
  <2>1. ~ cut
    BY <1>4 DEF SkipExtension
  <2> QED BY <1>1, <1>3, <1>4, <2>1, SkipExtensionKeeps
<1>5. CASE ~ SkipExtension
  <2>1. cut' = cut
    <3>1. CASE ChunkNext
      BY <1>5, <3>1 DEF ChunkNext, Call, SizeChar, CopyData, SkipCRLF, TrailerChar, Return
    <3>2. CASE UNCHANGED chunkVars
      BY <3>2 DEF chunkVars
    <3> QED BY <3>1, <3>2
  <2>2. Decoding
    BY <1>3, <2>1
  <2>3. \/ Call \/ Return \/ UNCHANGED chunkVars
        \/ SizeChar \/ CopyData \/ SkipCRLF \/ TrailerChar
    BY <1>5 DEF ChunkNext
  <2> QED BY <1>1, <2>2, <2>3, CallKeeps, SizeCharKeeps, CopyDataKeeps, SkipCRLFKeeps, TrailerCharKeeps
<1> QED BY <1>4, <1>5

(* Between any two steps the decoder is where the message says it is after *)
(* the bytes it has consumed, and the body is what lies before.            *)
THEOREM ChunkInvariance == ChunkSpec => []ChunkInv
<1>1. ChunkInit => ChunkInv
  <2>1. SUFFICES ASSUME ChunkInit PROVE ChunkInv
    OBVIOUS
  <2>2. message \in Message /\ dec = NewDecoder /\ call = NoCall /\ pos = 0 /\ body = <<>>
    BY <2>1 DEF ChunkInit
  <2>3. NewDecoder \in DecoderType /\ Underway(message, NewDecoder, 0, <<>>)
    BY <2>2, UnderwayInit
  <2>4. Len(Wire) \in Nat
    BY <2>2, WireIs
  <2>5. call \in CallType /\ call.in = 0
    BY <2>2 DEF NoCall, CallType
  <2>6. pos \in Nat /\ pos + call.in <= Len(Wire)
    BY <2>2, <2>4, <2>5
  <2>7. dec \in DecoderType /\ Underway(message, dec, pos, body)
    BY <2>2, <2>3
  <2> QED BY <2>2, <2>5, <2>6, <2>7 DEF ChunkInv, Decoding
<1>2. ChunkInv /\ [ChunkNext]_chunkVars => ChunkInv'
  BY ChunkInvStep
<1> QED BY <1>1, <1>2, PTL DEF ChunkSpec

(* What has been put out is the body, as far as it goes.                   *)
THEOREM BodyDecoded == ChunkSpec => []DecodesBody
<1>1. ChunkInv => DecodesBody
  BY UnderwaySoFar DEF ChunkInv, Decoding, DecodesBody, DecodedSoFar
<1> QED BY <1>1, ChunkInvariance, PTL

-------------------------------------------------------------------------------
(* The parts beside each other (Helpers).                                  *)

LEMMA PartsInit ==
    ASSUME Init
    PROVE  ChunkInit /\ ChainInit /\ ClockInit /\ SessInit /\ EntropyInit /\ TicketInit
  BY DEF Init, ChunkRests, ChainRests, ClockRests, EntropyRests

(* A step of one part leaves the others where they are.                    *)
LEMMA PartsStep ==
    ASSUME [Next]_vars
    PROVE  /\ [ChunkNext]_chunkVars /\ [ChainNext]_chainVars /\ [ClockNext]_clockVars
           /\ [SessNext]_sessVars /\ [EntropyNext]_entropyVars /\ [TicketNext]_ticketVars
<1>1. CASE NextChunk
  BY <1>1 DEF NextChunk
<1>2. CASE NextChain
  BY <1>2 DEF NextChain
<1>3. CASE NextClock
  BY <1>3 DEF NextClock
<1>4. CASE NextSession
  BY <1>4 DEF NextSession
<1>5. CASE NextEntropy
  BY <1>5 DEF NextEntropy
<1>6. CASE NextTicket
  BY <1>6 DEF NextTicket
<1>7. CASE UNCHANGED vars
  BY <1>7 DEF vars
<1> QED BY <1>1, <1>2, <1>3, <1>4, <1>5, <1>6, <1>7 DEF Next

(* A behaviour of the parts beside each other is one of each of them: no   *)
(* part reads or writes what another keeps.                                *)
THEOREM EachPartRuns ==
    Spec => ChunkSpec /\ ChainSpec /\ ClockSpec /\ SessSpec /\ EntropySpec /\ TicketSpec
<1>1. Init => ChunkInit /\ ChainInit /\ ClockInit /\ SessInit /\ EntropyInit /\ TicketInit
  BY PartsInit
<1>2. [Next]_vars => /\ [ChunkNext]_chunkVars /\ [ChainNext]_chainVars /\ [ClockNext]_clockVars
                     /\ [SessNext]_sessVars /\ [EntropyNext]_entropyVars
                     /\ [TicketNext]_ticketVars
  BY PartsStep
<1> QED BY <1>1, <1>2, PTL
          DEF Spec, ChunkSpec, ChainSpec, ClockSpec, SessSpec, EntropySpec, TicketSpec

(* What the parts keep, they keep beside each other: a chunked body is     *)
(* decoded, reordering spoils no chain, the clock is read, the caches give *)
(* what was stored last and the pool no bytes twice.                       *)
THEOREM HelpersKeep ==
    Spec => /\ [](DecodesBody /\ OrderAccepted /\ Independent /\ TicketTypeOK /\ OneSlotPerHost)
            /\ ReadsTheTime /\ OffersLatest /\ EvictsOldest /\ ImplementsLeaseMap
<1> QED BY EachPartRuns, BodyDecoded, ChainAccepted, NoBytesTwice, TicketTypeCorrect, OneSlot,
           ClockReads, LatestOffered, OldestEvicted, CacheIsLeaseMap, PTL

===============================================================================

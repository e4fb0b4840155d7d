----------------------------- MODULE StreamLemmas -----------------------------
(***************************************************************************)
(* Facts about sequences that the proofs of several modules rest on.  No   *)
(* induction over the length of a sequence: that a number is the sum of    *)
(* the weights of a sequence is stated by the table of its partial sums,   *)
(* which an Append extends and a Tail shifts.                              *)
(***************************************************************************)
EXTENDS ByteRuns, SequenceTheorems, WellFoundedInduction, TLAPS

(* Every search has a first hit, every induction a first counterexample.   *)
LEMMA LeastNatural ==
    ASSUME NEW S, S \subseteq Nat, S # {}
    PROVE  \E i \in S : \A j \in S : i <= j
<1>1. PICK x \in S : \A y \in S : <<y, x>> \notin OpToRel(<, Nat)
  BY WFMin, NatLessThanWellFounded
<1>2. \A y \in S : ~ (y < x)
  BY <1>1 DEF OpToRel
<1> QED BY <1>2

(* A sequence, of whatever.                                                *)
IsSeq(s) == \E V : s \in Seq(V)

LEMMA AppendIs ==
    ASSUME NEW s, NEW e, IsSeq(s)
    PROVE  /\ IsSeq(Append(s, e)) /\ Len(s) \in Nat /\ DOMAIN s = 1..Len(s)
           /\ Len(Append(s, e)) = Len(s) + 1 /\ DOMAIN Append(s, e) = 1..(Len(s) + 1)
           /\ Append(s, e)[Len(s) + 1] = e
           /\ \A i \in 1..Len(s) : Append(s, e)[i] = s[i]
           /\ s # <<>> => Append(s, e)[1] = s[1]
           /\ s = <<>> => Append(s, e)[1] = e
           /\ Append(s, e) # <<>>
           /\ s # <<>> => 1 \in 1..Len(s)
<1>1. PICK V : s \in Seq(V)
  BY DEF IsSeq
<1>2. s \in Seq(V \cup {e})
  <2>1. \A i \in 1..Len(s) : s[i] \in V
    BY <1>1
  <2> QED BY <1>1, <2>1
<1>3. Append(s, e) \in Seq(V \cup {e})
  BY <1>2
<1>4. IsSeq(Append(s, e))
  BY <1>3 DEF IsSeq
<1>5. s # <<>> => 1 \in 1..Len(s)
  BY <1>1
<1>6. /\ Len(s) \in Nat /\ DOMAIN s = 1..Len(s)
      /\ Len(Append(s, e)) = Len(s) + 1 /\ DOMAIN Append(s, e) = 1..(Len(s) + 1)
      /\ Append(s, e)[Len(s) + 1] = e
      /\ \A i \in 1..Len(s) : Append(s, e)[i] = s[i]
  BY <1>2
<1>7. s = <<>> => Append(s, e)[1] = e
  BY <1>6
<1>8. Append(s, e) # <<>>
  BY <1>3, <1>6
<1> QED BY <1>4, <1>5, <1>6, <1>7, <1>8

LEMMA ShortSeq ==
    /\ IsSeq(<<>>) /\ Len(<<>>) = 0
    /\ \A e : IsSeq(<<e>>) /\ Len(<<e>>) = 1 /\ <<e>>[1] = e /\ <<e>> # <<>>
    /\ \A s, d, e : IsSeq(s) => s \o <<d, e>> = Append(Append(s, d), e)
<1>1. <<>> \in Seq({}) /\ Len(<<>>) = 0
  OBVIOUS
<1>2. \A e : <<e>> \in Seq({e}) /\ Len(<<e>>) = 1 /\ <<e>>[1] = e /\ <<e>> # <<>>
  OBVIOUS
<1>3. ASSUME NEW s, NEW d, NEW e, IsSeq(s) PROVE s \o <<d, e>> = Append(Append(s, d), e)
  <2>1. PICK V : s \in Seq(V)
    BY <1>3 DEF IsSeq
  <2> DEFINE W == V \cup {d, e}
  <2>2. s \in Seq(W)
    <3>1. \A i \in 1..Len(s) : s[i] \in V
      BY <2>1
    <3> QED BY <2>1, <3>1
  <2>3. d \in W /\ e \in W
    OBVIOUS
  <2> HIDE DEF W
  <2> QED BY <2>2, <2>3
<1> QED BY <1>1, <1>2, <1>3 DEF IsSeq

(* Joining two sequences.                                                  *)
LEMMA JoinIs ==
    ASSUME NEW a, NEW b, IsSeq(a), IsSeq(b)
    PROVE  /\ IsSeq(a \o b) /\ Len(a) \in Nat /\ Len(b) \in Nat
           /\ Len(a \o b) = Len(a) + Len(b)
           /\ \A i \in 1..Len(a) : (a \o b)[i] = a[i]
           /\ \A i \in 1..Len(b) : (a \o b)[Len(a) + i] = b[i]
           /\ a = <<>> => a \o b = b
           /\ b = <<>> => a \o b = a
           /\ a \o b = <<>> => a = <<>> /\ b = <<>>
           /\ \E V : a \in Seq(V) /\ b \in Seq(V)
<1>1. PICK A : a \in Seq(A)
  BY DEF IsSeq
<1>2. PICK B : b \in Seq(B)
  BY DEF IsSeq
<1> DEFINE V == A \cup B
<1>3. a \in Seq(V) /\ b \in Seq(V)
  BY <1>1, <1>2
<1> HIDE DEF V
<1>4. /\ a \o b \in Seq(V) /\ Len(a) \in Nat /\ Len(b) \in Nat
      /\ Len(a \o b) = Len(a) + Len(b)
      /\ \A i \in 1..Len(a) : (a \o b)[i] = a[i]
      /\ \A i \in 1..Len(b) : (a \o b)[Len(a) + i] = b[i]
  BY <1>3
<1>5. (a = <<>> => a \o b = b) /\ (b = <<>> => a \o b = a)
  BY <1>3
<1>6. a \o b = <<>> => a = <<>> /\ b = <<>>
  BY <1>3, <1>4, EmptySeq
<1> QED BY <1>3, <1>4, <1>5, <1>6 DEF IsSeq

LEMMA JoinAssoc ==
    ASSUME NEW a, NEW b, NEW d, IsSeq(a), IsSeq(b), IsSeq(d)
    PROVE  (a \o b) \o d = a \o (b \o d)
<1>1. PICK A : a \in Seq(A) /\ b \in Seq(A)
  BY JoinIs
<1>2. PICK D : d \in Seq(D)
  BY DEF IsSeq
<1> DEFINE V == A \cup D
<1>3. a \in Seq(V) /\ b \in Seq(V) /\ d \in Seq(V)
  BY <1>1, <1>2
<1> HIDE DEF V
<1> QED BY <1>3, ConcatAssociative

LEMMA AppendsTo ==
    ASSUME NEW W, NEW s \in Seq(W), NEW e \in W, NEW t \in Seq(W), Len(t) = Len(s) + 1,
           \A i \in 1..Len(s) : t[i] = s[i], t[Len(s) + 1] = e
    PROVE  Append(s, e) = t
<1> DEFINE x == Append(s, e)
<1>1. x \in Seq(W) /\ Len(x) = Len(s) + 1 /\ x[Len(s) + 1] = e /\ \A i \in 1..Len(s) : x[i] = s[i]
  BY AppendProperties
<1> HIDE DEF x
<1>2. \A i \in 1..Len(t) : x[i] = t[i]
  <2> TAKE i \in 1..Len(t)
  <2>1. Len(s) \in Nat
    OBVIOUS
  <2>2. i \in 1..Len(s) \/ i = Len(s) + 1
    BY <2>1
  <2> QED BY <1>1, <2>2
<1>3. x = t
  BY <1>1, <1>2, SeqEqual
<1> QED BY <1>3 DEF x

(* A tuple is the sequence that its elements are appended to.              *)
LEMMA TupleIs ==
    /\ \A a, b : Append(<<a>>, b) = <<a, b>>
    /\ \A a, b, d : Append(<<a, b>>, d) = <<a, b, d>>
    /\ \A a, b, d, e : Append(<<a, b, d>>, e) = <<a, b, d, e>>
    /\ \A a, b, d, e, f : Append(<<a, b, d, e>>, f) = <<a, b, d, e, f>>
<1>0. /\ \A i \in 1..1 : i = 1
      /\ \A i \in 1..2 : i = 1 \/ i = 2
      /\ \A i \in 1..3 : i = 1 \/ i = 2 \/ i = 3
      /\ \A i \in 1..4 : i = 1 \/ i = 2 \/ i = 3 \/ i = 4
  OBVIOUS
<1>1. ASSUME NEW a, NEW b
      PROVE  Append(<<a>>, b) = <<a, b>>
  <2> DEFINE W == {a, b}
             x == <<a>>
             y == <<a, b>>
  <2>1. a \in W /\ b \in W
    OBVIOUS
  <2> HIDE DEF W
  <2>2. x \in Seq(W) /\ Len(x) = 1
    BY <2>1
  <2>3. y \in Seq(W) /\ Len(y) = 2
    BY <2>1
  <2>4. y[1] = x[1]
    OBVIOUS
  <2>5. y[2] = b
    OBVIOUS
  <2> HIDE DEF x, y
  <2>6. Len(y) = Len(x) + 1 /\ y[Len(x) + 1] = b /\ \A i \in 1..Len(x) : y[i] = x[i]
    BY <1>0, <2>2, <2>3, <2>4, <2>5
  <2>7. Append(x, b) = y
    BY <2>1, <2>2, <2>3, <2>6, AppendsTo
  <2> QED BY <2>7 DEF x, y
<1>2. ASSUME NEW a, NEW b, NEW d
      PROVE  Append(<<a, b>>, d) = <<a, b, d>>
  <2> DEFINE W == {a, b, d}
             x == <<a, b>>
             y == <<a, b, d>>
  <2>1. a \in W /\ b \in W /\ d \in W
    OBVIOUS
  <2> HIDE DEF W
  <2>2. x \in Seq(W) /\ Len(x) = 2
    BY <2>1
  <2>3. y \in Seq(W) /\ Len(y) = 3
    BY <2>1
  <2>4. y[1] = x[1] /\ y[2] = x[2]
    OBVIOUS
  <2>5. y[3] = d
    OBVIOUS
  <2> HIDE DEF x, y
  <2>6. Len(y) = Len(x) + 1 /\ y[Len(x) + 1] = d /\ \A i \in 1..Len(x) : y[i] = x[i]
    BY <1>0, <2>2, <2>3, <2>4, <2>5
  <2>7. Append(x, d) = y
    BY <2>1, <2>2, <2>3, <2>6, AppendsTo
  <2> QED BY <2>7 DEF x, y
<1>3. ASSUME NEW a, NEW b, NEW d, NEW e
      PROVE  Append(<<a, b, d>>, e) = <<a, b, d, e>>
  <2> DEFINE W == {a, b, d, e}
             x == <<a, b, d>>
             y == <<a, b, d, e>>
  <2>1. a \in W /\ b \in W /\ d \in W /\ e \in W
    OBVIOUS
  <2> HIDE DEF W
  <2>2. x \in Seq(W) /\ Len(x) = 3
    BY <2>1
  <2>3. y \in Seq(W) /\ Len(y) = 4
    BY <2>1
  <2>4. y[1] = x[1] /\ y[2] = x[2] /\ y[3] = x[3]
    OBVIOUS
  <2>5. y[4] = e
    OBVIOUS
  <2> HIDE DEF x, y
  <2>6. Len(y) = Len(x) + 1 /\ y[Len(x) + 1] = e /\ \A i \in 1..Len(x) : y[i] = x[i]
    BY <1>0, <2>2, <2>3, <2>4, <2>5
  <2>7. Append(x, e) = y
    BY <2>1, <2>2, <2>3, <2>6, AppendsTo
  <2> QED BY <2>7 DEF x, y
<1>4. ASSUME NEW a, NEW b, NEW d, NEW e, NEW f
      PROVE  Append(<<a, b, d, e>>, f) = <<a, b, d, e, f>>
  <2> DEFINE W == {a, b, d, e, f}
             x == <<a, b, d, e>>
             y == <<a, b, d, e, f>>
  <2>1. a \in W /\ b \in W /\ d \in W /\ e \in W /\ f \in W
    OBVIOUS
  <2> HIDE DEF W
  <2>2. x \in Seq(W) /\ Len(x) = 4
    BY <2>1
  <2>3. y \in Seq(W) /\ Len(y) = 5
    BY <2>1
  <2>4. y[1] = x[1] /\ y[2] = x[2] /\ y[3] = x[3] /\ y[4] = x[4]
    OBVIOUS
  <2>5. y[5] = f
    OBVIOUS
  <2> HIDE DEF x, y
  <2>6. Len(y) = Len(x) + 1 /\ y[Len(x) + 1] = f /\ \A i \in 1..Len(x) : y[i] = x[i]
    BY <1>0, <2>2, <2>3, <2>4, <2>5
  <2>7. Append(x, f) = y
    BY <2>1, <2>2, <2>3, <2>6, AppendsTo
  <2> QED BY <2>7 DEF x, y
<1> QED BY <1>1, <1>2, <1>3, <1>4

(* Joining and appending.                                                  *)
LEMMA JoinOne ==
    ASSUME NEW s, IsSeq(s), NEW e
    PROVE  s \o <<e>> = Append(s, e) /\ s \o <<>> = s /\ <<>> \o s = s
<1>1. PICK V : s \in Seq(V)
  BY DEF IsSeq
<1> DEFINE W == V \cup {e}
<1>2. s \in Seq(W) /\ e \in W
  BY <1>1
<1> HIDE DEF W
<1> QED BY <1>2

LEMMA JoinAppend ==
    ASSUME NEW s, NEW t, IsSeq(s), IsSeq(t), NEW e
    PROVE  s \o Append(t, e) = Append(s \o t, e)
<1>1. PICK V : s \in Seq(V) /\ t \in Seq(V)
  BY JoinIs
<1> DEFINE W == V \cup {e}
<1>2. s \in Seq(W) /\ t \in Seq(W) /\ e \in W
  BY <1>1
<1> HIDE DEF W
<1> QED BY <1>2

(* The first of two joined, and what is behind it.                         *)
Then(x, y) == <<x>> \o y
Following(s) == Tail(s)

LEMMA HeadJoin ==
    ASSUME NEW a, NEW b, NEW x, NEW y, IsSeq(a), IsSeq(b), IsSeq(y), a # <<>>,
           a \o b = Then(x, y)
    PROVE  a[1] = x /\ IsSeq(Following(a)) /\ Following(a) \o b = y
<1> USE DEF Then, Following
<1>1. IsSeq(<<x>>) /\ Len(<<x>>) = 1 /\ <<x>>[1] = x
  BY ShortSeq
<1>2. PICK A : a \in Seq(A) /\ b \in Seq(A)
  BY JoinIs
<1>3. PICK D : <<x>> \in Seq(D) /\ y \in Seq(D)
  BY <1>1, JoinIs
<1> DEFINE V == A \cup D
<1>4. a \in Seq(V) /\ b \in Seq(V) /\ <<x>> \in Seq(V) /\ y \in Seq(V)
  BY <1>2, <1>3
<1> HIDE DEF V
<1>5. Tail(a) \in Seq(V) /\ Len(a) \in Nat \ {0} /\ Len(Tail(a)) = Len(a) - 1
      /\ \A i \in 1..(Len(a) - 1) : Tail(a)[i] = a[i + 1]
  BY <1>4, EmptySeq, HeadTailProperties
<1>6. a[1] = (a \o b)[1] /\ (<<x>> \o y)[1] = x
  BY <1>1, <1>4, <1>5
<1>7. /\ Len(a \o b) = Len(a) + Len(b) /\ Len(a \o b) = 1 + Len(y)
      /\ Len(b) \in Nat /\ Len(y) \in Nat
  BY <1>1, <1>4, <1>5
<1>8. Len(Tail(a) \o b) = Len(y) /\ Tail(a) \o b \in Seq(V)
  BY <1>4, <1>5, <1>7
<1>9. ASSUME NEW i \in 1..Len(y) PROVE (Tail(a) \o b)[i] = y[i]
  <2>1. (<<x>> \o y)[i + 1] = y[i]
    BY <1>1, <1>4
  <2>2. CASE i <= Len(a) - 1
    <3>1. (Tail(a) \o b)[i] = Tail(a)[i] /\ Tail(a)[i] = a[i + 1]
      BY <1>4, <1>5, <2>2
    <3>2. (a \o b)[i + 1] = a[i + 1]
      BY <1>4, <1>5, <2>2
    <3> QED BY <2>1, <3>1, <3>2
  <2>3. CASE ~ (i <= Len(a) - 1)
    <3>1. (Tail(a) \o b)[i] = b[i - (Len(a) - 1)]
      BY <1>4, <1>5, <1>7, <2>3
    <3>2. (a \o b)[i + 1] = b[i + 1 - Len(a)]
      BY <1>4, <1>5, <1>7, <2>3
    <3>3. i - (Len(a) - 1) = i + 1 - Len(a)
      BY <1>5
    <3> QED BY <2>1, <3>1, <3>2, <3>3
  <2> QED BY <2>2, <2>3
<1>10. Tail(a) \o b = y
  BY <1>4, <1>8, <1>9, SeqEqual
<1> QED BY <1>5, <1>6, <1>10 DEF IsSeq

LEMMA FollowingIs ==
    ASSUME NEW s, IsSeq(s), s # <<>>
    PROVE  IsSeq(Following(s)) /\ s = Then(s[1], Following(s))
<1>1. PICK V : s \in Seq(V)
  BY DEF IsSeq
<1>2. Tail(s) \in Seq(V) /\ s = <<s[1]>> \o Tail(s)
  BY <1>1
<1> QED BY <1>2 DEF IsSeq, Then, Following

LEMMA ThenIs ==
    /\ \A x : Then(x, <<>>) = <<x>>
    /\ \A x, y : IsSeq(y) => IsSeq(Then(x, y)) /\ Then(x, y) # <<>> /\ Then(x, y)[1] = x
                              /\ Following(Then(x, y)) = y
    /\ \A x, y, z : IsSeq(y) /\ IsSeq(z) => Then(x, y) \o z = Then(x, y \o z)
<1>1. ASSUME NEW x PROVE Then(x, <<>>) = <<x>>
  <2>1. IsSeq(<<x>>)
    BY ShortSeq
  <2> QED BY <2>1, JoinOne DEF Then
<1>2. ASSUME NEW x, NEW y, IsSeq(y)
      PROVE  IsSeq(Then(x, y)) /\ Then(x, y) # <<>> /\ Then(x, y)[1] = x /\ Following(Then(x, y)) = y
  <2>1. IsSeq(<<x>>) /\ Len(<<x>>) = 1 /\ <<x>>[1] = x /\ <<x>> # <<>>
    BY ShortSeq
  <2>2. IsSeq(<<x>> \o y) /\ <<x>> \o y # <<>>
    BY <1>2, <2>1, JoinIs
  <2>3. IsSeq(Then(x, y)) /\ Then(x, y) # <<>>
    BY <2>2 DEF Then
  <2>4. IsSeq(<<>>) /\ Then(x, y) \o <<>> = Then(x, y)
    BY <2>3, ShortSeq, JoinOne
  <2>5. Then(x, y)[1] = x /\ IsSeq(Following(Then(x, y))) /\ Following(Then(x, y)) \o <<>> = y
    BY <1>2, <2>3, <2>4, HeadJoin
  <2>6. Following(Then(x, y)) = y
    BY <2>5, JoinOne
  <2> QED BY <2>3, <2>5, <2>6
<1>3. ASSUME NEW x, NEW y, NEW z, IsSeq(y), IsSeq(z)
      PROVE  Then(x, y) \o z = Then(x, y \o z)
  <2>1. IsSeq(<<x>>)
    BY ShortSeq
  <2> QED BY <1>3, <2>1, JoinAssoc DEF Then
<1> QED BY <1>1, <1>2, <1>3

(* The pieces of a sequence.                                               *)
LEMMA PieceIs ==
    ASSUME NEW V, NEW s \in Seq(V), NEW i \in Nat, NEW j \in Nat, i <= j, j <= Len(s)
    PROVE  /\ SubSeq(s, i + 1, j) \in Seq(V) /\ Len(SubSeq(s, i + 1, j)) = j - i
           /\ \A u \in 1..(j - i) : SubSeq(s, i + 1, j)[u] = s[i + u]
           /\ i = j <=> SubSeq(s, i + 1, j) = <<>>
<1> DEFINE t == SubSeq(s, i + 1, j)
<1>1. t \in Seq(V) /\ Len(t) = j - i /\ \A u \in 1..(j - i) : t[u] = s[i + u]
  OBVIOUS
<1> HIDE DEF t
<1>2. i = j <=> t = <<>>
  BY <1>1, EmptySeq
<1> QED BY <1>1, <1>2 DEF t

(* Its first j members.                                                    *)
LEMMA FirstPieceIs ==
    ASSUME NEW V, NEW s \in Seq(V), NEW j \in 0..Len(s)
    PROVE  /\ Len(SubSeq(s, 1, j)) = j /\ \A u \in 1..j : SubSeq(s, 1, j)[u] = s[u]
           /\ j = 0 <=> SubSeq(s, 1, j) = <<>>
<1> DEFINE t == SubSeq(s, 1, j)
<1>1. t \in Seq(V) /\ Len(t) = j /\ \A u \in 1..j : t[u] = s[u]
  OBVIOUS
<1> HIDE DEF t
<1>2. j = 0 <=> t = <<>>
  BY <1>1, EmptySeq
<1> QED BY <1>1, <1>2 DEF t

LEMMA PiecesJoin ==
    ASSUME NEW V, NEW s \in Seq(V), NEW i \in Nat, NEW j \in Nat, NEW k \in Nat,
           i <= j, j <= k, k <= Len(s)
    PROVE  SubSeq(s, i + 1, j) \o SubSeq(s, j + 1, k) = SubSeq(s, i + 1, k)
<1>1. /\ SubSeq(s, i + 1, j) \in Seq(V) /\ Len(SubSeq(s, i + 1, j)) = j - i
      /\ SubSeq(s, j + 1, k) \in Seq(V) /\ Len(SubSeq(s, j + 1, k)) = k - j
      /\ SubSeq(s, i + 1, k) \in Seq(V) /\ Len(SubSeq(s, i + 1, k)) = k - i
      /\ \A u \in 1..(j - i) : SubSeq(s, i + 1, j)[u] = s[i + u]
      /\ \A u \in 1..(k - j) : SubSeq(s, j + 1, k)[u] = s[j + u]
      /\ \A u \in 1..(k - i) : SubSeq(s, i + 1, k)[u] = s[i + u]
  BY PieceIs
<1> DEFINE a == SubSeq(s, i + 1, j)
           b == SubSeq(s, j + 1, k)
           d == SubSeq(s, i + 1, k)
<1> HIDE DEF a, b, d
<1>2. a \o b \in Seq(V) /\ Len(a \o b) = k - i
  BY <1>1 DEF a, b
<1>3. \A u \in 1..(k - i) : (a \o b)[u] = s[i + u]
  BY <1>1 DEF a, b
<1> QED BY <1>1, <1>2, <1>3, SeqEqual DEF a, b, d

LEMMA PiecesCut ==
    ASSUME NEW V, NEW s \in Seq(V), NEW i \in Nat, NEW j \in Nat, NEW k \in Nat,
           i <= j, j <= k, k <= Len(s)
    PROVE  /\ SubSeq(SubSeq(s, i + 1, k), 1, j - i) = SubSeq(s, i + 1, j)
           /\ SubSeq(SubSeq(s, i + 1, k), j - i + 1, k - i) = SubSeq(s, j + 1, k)
<1> DEFINE d == SubSeq(s, i + 1, k)
<1>1. d \in Seq(V) /\ Len(d) = k - i /\ \A u \in 1..(k - i) : d[u] = s[i + u]
  BY PieceIs
<1>2. /\ SubSeq(s, i + 1, j) \in Seq(V) /\ Len(SubSeq(s, i + 1, j)) = j - i
      /\ SubSeq(s, j + 1, k) \in Seq(V) /\ Len(SubSeq(s, j + 1, k)) = k - j
      /\ \A u \in 1..(j - i) : SubSeq(s, i + 1, j)[u] = s[i + u]
      /\ \A u \in 1..(k - j) : SubSeq(s, j + 1, k)[u] = s[j + u]
  BY PieceIs
<1> HIDE DEF d
<1>3. /\ SubSeq(d, 0 + 1, j - i) \in Seq(V) /\ Len(SubSeq(d, 0 + 1, j - i)) = j - i - 0
      /\ \A u \in 1..(j - i - 0) : SubSeq(d, 0 + 1, j - i)[u] = d[0 + u]
  <2>1. 0 \in Nat /\ j - i \in Nat /\ 0 <= j - i /\ j - i <= Len(d)
    BY <1>1
  <2> QED BY <1>1, <2>1, PieceIs
<1>4. /\ SubSeq(d, j - i + 1, k - i) \in Seq(V)
      /\ Len(SubSeq(d, j - i + 1, k - i)) = k - i - (j - i)
      /\ \A u \in 1..(k - i - (j - i)) : SubSeq(d, j - i + 1, k - i)[u] = d[j - i + u]
  <2>1. j - i \in Nat /\ k - i \in Nat /\ j - i <= k - i /\ k - i <= Len(d)
    BY <1>1
  <2> QED BY <1>1, <2>1, PieceIs
<1>5. SubSeq(d, 1, j - i) = SubSeq(s, i + 1, j)
  <2>1. 0 + 1 = 1 /\ j - i - 0 = j - i /\ j - i \in Nat /\ j - i <= k - i
    OBVIOUS
  <2>2. \A u \in 1..(j - i) : d[0 + u] = s[i + u]
    BY <1>1, <2>1
  <2> QED BY <1>2, <1>3, <2>1, <2>2, SeqEqual
<1>6. SubSeq(d, j - i + 1, k - i) = SubSeq(s, j + 1, k)
  <2>1. k - i - (j - i) = k - j /\ k - j \in Nat
    OBVIOUS
  <2>2. \A u \in 1..(k - j) : d[j - i + u] = s[j + u]
    <3> TAKE u \in 1..(k - j)
    <3>1. j - i + u \in 1..(k - i) /\ i + (j - i + u) = j + u
      OBVIOUS
    <3> QED BY <1>1, <3>1
  <2> QED BY <1>2, <1>4, <2>1, <2>2, SeqEqual
<1> QED BY <1>5, <1>6 DEF d

(* A sequence cut anywhere.                                                *)
LEMMA Parted ==
    ASSUME NEW s, IsSeq(s), NEW k \in 0..Len(s)
    PROVE  /\ IsSeq(SubSeq(s, 1, k)) /\ IsSeq(SubSeq(s, k + 1, Len(s)))
           /\ SubSeq(s, 1, k) \o SubSeq(s, k + 1, Len(s)) = s
           /\ k # 0 => SubSeq(s, 1, k) # <<>>
<1>1. PICK V : s \in Seq(V)
  BY DEF IsSeq
<1>2. 0 \in Nat /\ k \in Nat /\ Len(s) \in Nat /\ 0 <= k /\ k <= Len(s) /\ Len(s) <= Len(s)
  BY <1>1
<1>3. /\ SubSeq(s, 0 + 1, k) \in Seq(V) /\ SubSeq(s, k + 1, Len(s)) \in Seq(V)
      /\ 0 = k <=> SubSeq(s, 0 + 1, k) = <<>>
  BY <1>1, <1>2, PieceIs
<1>4. SubSeq(s, 0 + 1, k) \o SubSeq(s, k + 1, Len(s)) = SubSeq(s, 0 + 1, Len(s))
  BY <1>1, <1>2, PiecesJoin
<1>5. SubSeq(s, 0 + 1, Len(s)) = s
  BY <1>1, <1>2
<1>6. 0 + 1 = 1
  OBVIOUS
<1> QED BY <1>3, <1>4, <1>5, <1>6 DEF IsSeq

-----------------------------------------------------------------------------
(* Runs of a byte stream (ByteRuns).                                       *)

(* A run is a sequence of its length.                                      *)
LEMMA RunSeq ==
    ASSUME NEW a \in Nat, NEW n \in Nat
    PROVE  Run(a, n) \in Seq(Nat) /\ Len(Run(a, n)) = n /\ DOMAIN Run(a, n) = 1..n
  BY DEF Run

(* Two neighbouring runs make one.                                         *)
LEMMA RunAppend ==
    ASSUME NEW a \in Nat, NEW m \in Nat, NEW n \in Nat
    PROVE  Run(a, m) \o Run(a + m, n) = Run(a, m + n)
  <1>1. /\ Run(a, m) \in Seq(Nat) /\ Len(Run(a, m)) = m
        /\ Run(a + m, n) \in Seq(Nat) /\ Len(Run(a + m, n)) = n
    BY RunSeq, a + m \in Nat
  <1> DEFINE s == Run(a, m) \o Run(a + m, n)
  <1>2. s \in Seq(Nat) /\ Len(s) = m + n
    BY <1>1
  <1>3. \A i \in 1..(m + n) : s[i] = a + i
    BY <1>1 DEF Run
  <1>4. QED BY <1>2, <1>3 DEF Run

(* A run is cut into two.                                                  *)
LEMMA RunCut ==
    ASSUME NEW a \in Nat, NEW m \in Nat, NEW n \in 1..m
    PROVE  /\ SubSeq(Run(a, m), 1, n) = Run(a, n)
           /\ SubSeq(Run(a, m), n + 1, m) = Run(a + n, m - n)
  <1>1. SubSeq(Run(a, m), 1, n) = Run(a, n)
    BY DEF Run
  <1>2. SubSeq(Run(a, m), n + 1, m) = Run(a + n, m - n)
    BY DEF Run
  <1>3. QED BY <1>1, <1>2

-----------------------------------------------------------------------------
(* n is the sum of the weights of s, when f[i] is that of the first i.     *)
PartialSums(f, w, s, n) ==
    /\ f \in [0..Len(s) -> Nat] /\ f[0] = 0 /\ f[Len(s)] = n
    /\ \A i \in 1..Len(s) : f[i] = f[i - 1] + w[s[i]]
    /\ \A i, j \in 0..Len(s) : i <= j => f[i] <= f[j]

Weighs(w, s, n) == \E f \in [0..Len(s) -> Nat] : PartialSums(f, w, s, n)

-----------------------------------------------------------------------------
(* Nothing weighs 0, and only that.                                        *)
LEMMA WeighsNothing ==
    ASSUME NEW w, NEW n
    PROVE  Weighs(w, <<>>, n) <=> n = 0
  <1>1. ASSUME Weighs(w, <<>>, n) PROVE n = 0
    BY <1>1 DEF Weighs, PartialSums
  <1>2. PartialSums([i \in 0..0 |-> 0], w, <<>>, 0)
    BY DEF PartialSums
  <1>3. [i \in 0..0 |-> 0] \in [0..Len(<<>>) -> Nat]
    OBVIOUS
  <1> QED BY <1>1, <1>2, <1>3 DEF Weighs

(* One more element.                                                       *)
LEMMA WeighsAppend ==
    ASSUME NEW S, NEW w \in [S -> Nat], NEW s \in Seq(S), NEW r \in S, NEW n \in Nat,
           Weighs(w, s, n)
    PROVE  Weighs(w, Append(s, r), n + w[r])
  <1> DEFINE t == Append(s, r)
             L == Len(s)
  <1>1. PICK f \in [0..L -> Nat] : PartialSums(f, w, s, n)
    BY DEF Weighs
  <1>2. /\ L \in Nat /\ Len(t) = L + 1 /\ t[L + 1] = r /\ w[r] \in Nat
        /\ \A i \in 1..L : t[i] = s[i]
    BY AppendProperties, LenProperties
  <1> DEFINE g == [i \in 0..(L + 1) |-> IF i = L + 1 THEN n + w[r] ELSE f[i]]
  <1>3. g \in [0..Len(t) -> Nat] /\ g[0] = 0 /\ g[Len(t)] = n + w[r]
    BY <1>1, <1>2 DEF PartialSums
  <1>4. ASSUME NEW i \in 1..Len(t)
        PROVE  g[i] = g[i - 1] + w[t[i]]
    <2>1. CASE i = L + 1
      BY <1>1, <1>2, <2>1 DEF PartialSums
    <2>2. CASE i # L + 1
      <3>1. i \in 1..L /\ i \in 0..(L + 1) /\ i - 1 \in 0..(L + 1) /\ i - 1 # L + 1
        BY <1>2, <2>2
      <3>2. f[i] = f[i - 1] + w[s[i]]
        BY <1>1, <1>2, <3>1 DEF PartialSums
      <3> QED BY <1>2, <2>2, <3>1, <3>2
    <2> QED BY <2>1, <2>2
  <1>5. ASSUME NEW i \in 0..Len(t), NEW j \in 0..Len(t), i <= j
        PROVE  g[i] <= g[j]
    <2>1. \A k \in 0..L : f[k] \in Nat /\ f[k] <= n
      BY <1>1, <1>2 DEF PartialSums
    <2>2. CASE j = L + 1
      BY <1>2, <2>1, <2>2
    <2>3. CASE j # L + 1
      <3>1. i \in 0..L /\ j \in 0..L
        BY <1>2, <1>5, <2>3
      <3>2. f[i] <= f[j]
        BY <1>1, <1>5, <3>1 DEF PartialSums
      <3> QED BY <1>2, <1>5, <2>3, <3>1, <3>2
    <2> QED BY <2>2, <2>3
  <1> HIDE DEF g, t
  <1>6. PartialSums(g, w, t, n + w[r])
    BY <1>3, <1>4, <1>5 DEF PartialSums
  <1> QED BY <1>3, <1>6 DEF Weighs, t

(* One less: what is left, and that the first was part of it.              *)
LEMMA WeighsTail ==
    ASSUME NEW S, NEW w \in [S -> Nat], NEW s \in Seq(S), s # <<>>, NEW n \in Nat,
           Weighs(w, s, n)
    PROVE  /\ w[Head(s)] \in Nat /\ w[Head(s)] <= n
           /\ Weighs(w, Tail(s), n - w[Head(s)])
  <1> DEFINE t == Tail(s)
             L == Len(s)
             a == w[Head(s)]
  <1>1. PICK f \in [0..L -> Nat] : PartialSums(f, w, s, n)
    BY DEF Weighs
  <1>2. /\ L \in Nat \ {0} /\ Head(s) = s[1] /\ Head(s) \in S /\ a \in Nat
        /\ Len(t) = L - 1 /\ \A i \in 1..(L - 1) : t[i] = s[i + 1]
    BY HeadTailProperties, EmptySeq
  <1>3. f[1] = a /\ a <= n
    BY <1>1, <1>2 DEF PartialSums
  <1>4. \A i \in 1..L : f[i] >= a /\ f[i] \in Nat
    <2> TAKE i \in 1..L
    <2>1. 1 \in 0..L /\ i \in 0..L /\ 1 <= i
      BY <1>2
    <2>2. f[1] <= f[i] /\ f[i] \in Nat
      BY <1>1, <2>1 DEF PartialSums
    <2> QED BY <1>2, <1>3, <2>2
  <1> DEFINE g == [i \in 0..(L - 1) |-> f[i + 1] - a]
  <1>5. /\ g \in [0..Len(t) -> Nat] /\ g[0] = 0 /\ g[Len(t)] = n - a
    BY <1>1, <1>2, <1>3, <1>4 DEF PartialSums
  <1>6. ASSUME NEW i \in 1..Len(t)
        PROVE  g[i] = g[i - 1] + w[t[i]]
    <2>1. i + 1 \in 1..L /\ i \in 1..L /\ i \in 0..(L - 1) /\ i - 1 \in 0..(L - 1)
      BY <1>2
    <2>2. f[i + 1] = f[i] + w[s[i + 1]]
      BY <1>1, <1>2, <2>1 DEF PartialSums
    <2>3. g[i] = f[i + 1] - a /\ g[i - 1] = f[i] - a /\ t[i] = s[i + 1]
      BY <1>2, <2>1
    <2>4. w[s[i + 1]] \in Nat
      BY <2>1
    <2> QED BY <1>2, <1>4, <2>1, <2>2, <2>3, <2>4
  <1>7. ASSUME NEW i \in 0..Len(t), NEW j \in 0..Len(t), i <= j
        PROVE  g[i] <= g[j]
    <2>1. i + 1 \in 1..L /\ j + 1 \in 1..L /\ i \in 0..(L - 1) /\ j \in 0..(L - 1)
      BY <1>2
    <2>2. f[i + 1] <= f[j + 1]
      BY <1>1, <1>2, <1>7, <2>1 DEF PartialSums
    <2> QED BY <1>2, <1>4, <2>1, <2>2
  <1> HIDE DEF g
  <1>8. PartialSums(g, w, t, n - a)
    BY <1>5, <1>6, <1>7 DEF PartialSums
  <1> QED BY <1>2, <1>3, <1>5, <1>8 DEF Weighs

=============================================================================

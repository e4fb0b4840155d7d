------------------------------ MODULE HelpersMC ------------------------------
(***************************************************************************)
(* A small instance of each part: messages whose chunks are 1 to 3 bytes   *)
(* long, with leading zeros, a size too long for the buffer, extensions, a *)
(* trailer, bytes after the body; certificates with three subjects, one of *)
(* them unreadable, one more than fit; two tickets that last one second and*)
(* one that lasts two.                                                     *)
(***************************************************************************)
EXTENDS Helpers

MCDigitValue == [d \in {"0", "1"} |-> IF d = "1" THEN 1 ELSE 0]
MCChars == {"CR", "LF", "SEMI", "0", "1", "x"}

MCSizes == [ s \in {<<"1">>, <<"1", "0">>, <<"0", "1", "1">>} |->
               IF Len(s) = 1 THEN 1 ELSE IF Len(s) = 2 THEN 2 ELSE 3 ]
MCChunk(s, ext, fill) == [size |-> s, ext |-> ext, data |-> [k \in 1..MCSizes[s] |-> fill]]
MCExtension == <<"SEMI", "1">>

MCChunks == {MCChunk(s, e, "LF") : s \in DOMAIN MCSizes, e \in {<<>>, MCExtension}}
MCLong == [size |-> <<"0", "0", "0", "1">>, ext |-> <<>>, data |-> <<"1">>]
MCBodies == {<<>>, <<MCLong>>} \cup {<<c>> : c \in MCChunks}
              \cup {<<MCChunk(<<"1", "0">>, <<>>, "1"), MCChunk(<<"1">>, MCExtension, "1")>>}
MCLast == {[size |-> <<"0">>, ext |-> <<>>], [size |-> <<"0", "0">>, ext |-> MCExtension]}

MCMessage == [chunks : MCBodies, last : MCLast, trailer : {<<>>, <<<<"x">>>>},
              after : {<<>>, <<"1">>}]

MCReadable == [subject : {"a", "b", "c"}, issuer : {"b", "c", "root"}, readable : {TRUE}]
MCCert == MCReadable \cup {[subject |-> "a", issuer |-> "a", readable |-> FALSE]}

CONSTANTS ta, tb, tc
MCTicket == {ta, tb, tc}
MCLifetime == [t \in MCTicket |-> IF t = tc THEN 2 ELSE 1]

===============================================================================

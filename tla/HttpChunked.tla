----------------------------- MODULE HttpChunked -----------------------------
(***************************************************************************)
(* The decoder of chunked transfer encoding (os9/ostls_http.c), fed by a   *)
(* caller that passes on whatever OSTLS_Read returned and takes the body   *)
(* in whatever space it has.  What the server sends is the encoding of a   *)
(* list of chunks, so that the body is known; a byte of the body is its    *)
(* place in what the server sent.                                          *)
(***************************************************************************)
EXTENDS Integers, Sequences, SequencesExt

CONSTANTS
    Chars,       \* the bytes there are: the digits, "CR", "LF", "SEMI" (the ;), others
    Message,     \* what servers send: chunks, a last one, trailer lines, bytes after the body
    Radix,       \* 16
    DigitValue,  \* the value of each digit
    LongMax,     \* the largest long, 2^31 - 1
    SizeChars,   \* sizeof size_buf - 1
    MaxRoom      \* bound: the caller's buffer

VARIABLES
    message,     \* the member of Message that is sent
    dec,         \* OSTLSChunkDecoder: state, remaining, size_buf, trailer_just_after_eol
    call,        \* the call in progress: the bytes it may still take and give out
    pos,         \* how many bytes all calls have consumed
    body,        \* what they have put out
    cut          \* history: an input ended inside a chunk extension

chunkVars == <<message, dec, call, pos, body, cut>>

-------------------------------------------------------------------------------
(* The encoding (RFC 9112, section 7.1): a chunk is its size in digits, an *)
(* extension or none, and the data, each ended by CR LF; a chunk of size 0 *)
(* without data, and the trailer, ended by an empty line, end the body.    *)

EOL == <<"CR", "LF">>
Line(chars) == chars \o EOL
SizeLine(c) == Line(c.size \o c.ext)
Chunk(c) == SizeLine(c) \o Line(c.data)

EncodedChunks(m) == [i \in 1..Len(m.chunks) |-> Chunk(m.chunks[i])]
TrailerLines(m) == Append(m.trailer, <<>>)
EncodedTrailer(m) == [j \in 1..Len(TrailerLines(m)) |-> Line(TrailerLines(m)[j])]
WireParts(m) == EncodedChunks(m) \o <<SizeLine(m.last)>> \o EncodedTrailer(m)
Encoded(m) == FlattenSeq(WireParts(m))
Wire == Encoded(message) \o message.after

(* The places of the body's bytes in what was sent.                        *)
ChunkStart(m, i) == Len(FlattenSeq(SubSeq(WireParts(m), 1, i - 1)))
DataPlaces(m, i) == LET c == m.chunks[i] IN
    [k \in 1..Len(c.data) |-> ChunkStart(m, i) + Len(SizeLine(c)) + k]
Body(m) == FlattenSeq([i \in 1..Len(m.chunks) |-> DataPlaces(m, i)])

(* strtol of what size_buf holds: the digits it begins with, but never    *)
(* more than a long.                                                       *)
Digits(s) == CHOOSE n \in 0..Len(s) : /\ \A i \in 1..n : s[i] \in DOMAIN DigitValue
                                      /\ n = Len(s) \/ s[n + 1] \notin DOMAIN DigitValue
Number(s) ==
    LET value[n \in 0..Digits(s)] ==
            IF n = 0 THEN 0 ELSE value[n - 1] * Radix + DigitValue[s[n]]
    IN Min({value[Digits(s)], LongMax})

(* What the parts of a message may be.  A size is digits and says how long *)
(* the data is; an extension begins with a ; and has no LF; no line of the *)
(* trailer is empty.                                                       *)
Has(s, ch) == \E i \in 1..Len(s) : s[i] = ch
IsSizeLine(c) ==
    /\ c.size \in Seq(DOMAIN DigitValue) /\ c.ext \in Seq(Chars)
    /\ c.ext = <<>> \/ (c.ext[1] = "SEMI" /\ ~ Has(c.ext, "LF"))
IsChunk(c) ==
    IsSizeLine(c) /\ c.data \in Seq(Chars) /\ c.data # <<>> /\ Number(c.size) = Len(c.data)
IsTrailerLine(l) == l \in Seq(Chars) /\ ~ Has(l, "LF") /\ \E i \in 1..Len(l) : l[i] # "CR"

ASSUME ChunkAssumption ==
    /\ SizeChars \in Nat /\ MaxRoom \in Nat
    /\ DOMAIN DigitValue \subseteq Chars \ {"CR", "LF", "SEMI"} /\ {"CR", "LF", "SEMI"} \subseteq Chars
    /\ \A m \in Message :
         /\ Len(m.chunks) \in Nat /\ \A i \in 1..Len(m.chunks) : IsChunk(m.chunks[i])
         /\ IsSizeLine(m.last) /\ Number(m.last.size) = 0
         /\ m.trailer \in Seq(Seq(Chars))
         /\ \A j \in 1..Len(m.trailer) : IsTrailerLine(m.trailer[j])
         /\ m.after \in Seq(Chars)

-------------------------------------------------------------------------------
(* OSTLS_HTTP_ChunkDecoderInit, before the first byte.                     *)
NewDecoder == [state |-> "Size", remaining |-> 0, sizeBuf |-> <<>>, afterEol |-> FALSE]
NoCall == [on |-> FALSE, in |-> 0, room |-> 0]

ChunkInit ==
    /\ message \in Message
    /\ dec = NewDecoder /\ call = NoCall
    /\ pos = 0 /\ body = <<>> /\ cut = FALSE

(* The caller has n more bytes of the response and room for cap.           *)
Call ==
    /\ ~ call.on
    /\ \E n \in 1..(Len(Wire) - pos), cap \in 0..MaxRoom :
         call' = [on |-> TRUE, in |-> n, room |-> cap]
    /\ UNCHANGED <<message, dec, pos, body, cut>>

Char == Wire[pos + 1]
At(s) == call.on /\ call.in > 0 /\ dec.state = s

(* n bytes of the input are behind us.                                     *)
Advance(n) == pos' = pos + n /\ call' = [call EXCEPT !.in = @ - n]

(* Variant: the size line is not forgotten.                                *)
SizeKept(d) ==
    IF Number(d.sizeBuf) = 0
    THEN [d EXCEPT !.state = "Trailer", !.afterEol = TRUE, !.remaining = 0]
    ELSE [d EXCEPT !.state = "Data", !.remaining = Number(d.sizeBuf)]

SizeRead(d) ==
    IF Number(d.sizeBuf) = 0
    THEN [d EXCEPT !.state = "Trailer", !.afterEol = TRUE, !.remaining = 0, !.sizeBuf = <<>>]
    ELSE [d EXCEPT !.state = "Data", !.remaining = Number(d.sizeBuf), !.sizeBuf = <<>>]

SizeChar ==
    /\ At("Size") /\ Char # "SEMI"
    /\ dec' = IF Char = "LF" THEN SizeRead(dec)
              ELSE IF Char = "CR" \/ Len(dec.sizeBuf) >= SizeChars THEN dec
              ELSE [dec EXCEPT !.sizeBuf = Append(@, Char)]
    /\ Advance(1)
    /\ UNCHANGED <<message, body, cut>>

(* An extension is skipped up to the LF, or the end of this input: nothing *)
(* remembers that the next one begins inside it.                           *)
ToLF == SelectInSeq(SubSeq(Wire, pos + 1, pos + call.in), LAMBDA c : c = "LF")
SkipExtension ==
    /\ At("Size") /\ Char = "SEMI"
    /\ Advance(IF ToLF = 0 THEN call.in ELSE ToLF - 1)
    /\ cut' = (cut \/ ToLF = 0)
    /\ UNCHANGED <<message, dec, body>>

Deliver == Min({call.in, dec.remaining, call.room})

(* As much as there is of the input, of the chunk, and of room.            *)
CopyData ==
    /\ At("Data") /\ (call.room > 0 \/ dec.remaining = 0)
    /\ body' = body \o [k \in 1..Deliver |-> pos + k]
    /\ dec' = [dec EXCEPT !.remaining = @ - Deliver,
                          !.state = IF Deliver = dec.remaining THEN "CRLF" ELSE "Data"]
    /\ pos' = pos + Deliver
    /\ call' = [call EXCEPT !.in = @ - Deliver, !.room = @ - Deliver]
    /\ UNCHANGED <<message, cut>>

SkipCRLF ==
    /\ At("CRLF")
    /\ dec' = [dec EXCEPT !.state = IF Char = "LF" THEN "Size" ELSE "CRLF"]
    /\ Advance(1)
    /\ UNCHANGED <<message, body, cut>>

(* Variant: any line end ends the trailer.                                 *)
TrailerEnds == TRUE

(* An empty line ends the trailer.                                         *)
EmptyLine == dec.afterEol

TrailerChar ==
    /\ At("Trailer")
    /\ dec' = IF Char = "CR" THEN dec
              ELSE IF Char = "LF" /\ EmptyLine THEN [dec EXCEPT !.state = "Done"]
              ELSE [dec EXCEPT !.afterEol = (Char = "LF")]
    /\ Advance(1)
    /\ UNCHANGED <<message, body, cut>>

(* The input is used up, the body is complete, or there is no room left.   *)
Return ==
    /\ call.on
    /\ \/ call.in = 0 \/ dec.state = "Done"
       \/ dec.state = "Data" /\ dec.remaining > 0 /\ call.room = 0
    /\ call' = NoCall
    /\ UNCHANGED <<message, dec, pos, body, cut>>

ChunkNext == Call \/ SizeChar \/ SkipExtension \/ CopyData \/ SkipCRLF \/ TrailerChar \/ Return

ChunkSpec == ChunkInit /\ [][ChunkNext]_chunkVars

-------------------------------------------------------------------------------
(* Properties.                                                             *)

(* The decoder's buffer takes the size lines: longer ones are not decoded. *)
SizesFit ==
    /\ \A i \in 1..Len(message.chunks) : Len(message.chunks[i].size) <= SizeChars
    /\ Len(message.last.size) <= SizeChars

DecodedSoFar ==
    /\ IsPrefix(body, Body(message))
    /\ pos <= Len(Encoded(message))
    /\ dec.state = "Done" <=> pos = Len(Encoded(message))
    /\ dec.state = "Done" => body = Body(message)

(* Wherever the input is cut into calls, and whatever room each has, the   *)
(* calls put out the body of the message, each byte once and in order, are *)
(* done exactly at its end, and leave what follows it to the caller; but   *)
(* not if an input ends inside a chunk extension.                          *)
DecodesBody == SizesFit /\ ~ cut => DecodedSoFar

(* ostls_http.c:60: "Drop chunk extensions after ';'".                     *)
ExtensionsDropped == SizesFit => DecodedSoFar

===============================================================================

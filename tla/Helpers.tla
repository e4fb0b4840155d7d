------------------------------- MODULE Helpers -------------------------------
(***************************************************************************)
(* The parts of the library that share no state with the connection or     *)
(* with each other, for one run: the chunk decoder, the order of a         *)
(* certificate chain, the clock, the two caches, the entropy pool.  A       *)
(* behaviour exercises one of them; the others rest in one of their initial*)
(* states.                                                                 *)
(***************************************************************************)
EXTENDS HttpChunked, CertificateOrder, MacTime, SessionCache, EntropyPool, TicketCache

VARIABLE part    \* the one that moves

vars == <<part, chunkVars, chainVars, clockVars, sessVars, entropyVars, ticketVars>>

Parts == {"chunk", "chain", "clock", "session", "entropy", "ticket"}

ChunkRests == ChunkInit /\ message = CHOOSE m \in Message : TRUE
ChainRests == ChainInit /\ sent = <<CHOOSE c \in Cert : TRUE>>
ClockRests == ClockInit /\ gmt = 0 /\ local = 0 /\ location = 0
EntropyRests == EntropyInit /\ file = Absent

Init ==
    /\ part \in Parts
    /\ IF part = "chunk" THEN ChunkInit ELSE ChunkRests
    /\ IF part = "chain" THEN ChainInit ELSE ChainRests
    /\ IF part = "clock" THEN ClockInit ELSE ClockRests
    /\ SessInit
    /\ IF part = "entropy" THEN EntropyInit ELSE EntropyRests
    /\ TicketInit

NextChunk ==
    /\ part = "chunk" /\ ChunkNext
    /\ UNCHANGED <<chainVars, clockVars, sessVars, entropyVars, ticketVars>>
NextChain ==
    /\ part = "chain" /\ ChainNext
    /\ UNCHANGED <<chunkVars, clockVars, sessVars, entropyVars, ticketVars>>
NextClock ==
    /\ part = "clock" /\ ClockNext
    /\ UNCHANGED <<chunkVars, chainVars, sessVars, entropyVars, ticketVars>>
NextSession ==
    /\ part = "session" /\ SessNext
    /\ UNCHANGED <<chunkVars, chainVars, clockVars, entropyVars, ticketVars>>
NextEntropy ==
    /\ part = "entropy" /\ EntropyNext
    /\ UNCHANGED <<chunkVars, chainVars, clockVars, sessVars, ticketVars>>
NextTicket ==
    /\ part = "ticket" /\ TicketNext
    /\ UNCHANGED <<chunkVars, chainVars, clockVars, sessVars, entropyVars>>

Next ==
    /\ UNCHANGED part
    /\ NextChunk \/ NextChain \/ NextClock \/ NextSession \/ NextEntropy \/ NextTicket

Spec == Init /\ [][Next]_vars

===============================================================================

----------------------------- MODULE OSTLSBuffers -----------------------------
(***************************************************************************)
(* The two buffers of one session side by side: the read ring and the      *)
(* write queue, which share nothing but the protocol that fills and        *)
(* empties them.  A Pump, an OSTLS_Read or an OSTLS_Write between any two  *)
(* steps of the other direction.                                           *)
(***************************************************************************)
EXTENDS OSTLSReadRing, OSTLSWriteQueue

Init == RingInit /\ QueueInit

Next ==
    \/ RingNext /\ UNCHANGED <<writeBuf, writePos, writeAvail, inFlight, written, taken, record>>
    \/ QueueNext /\ UNCHANGED <<readBuf, readPos, readAvail, stageVars, decrypted, read, out>>

Spec == Init /\ [][Next]_<<ringVars, queueVars>>

=============================================================================

---------------------------- MODULE OSTLSLifecycle ----------------------------
(***************************************************************************)
(* What a caller of os9/ostls_async.h may rely on: the public state of a   *)
(* connection, its error, and nothing of how they come about.  It is the   *)
(* state diagram of docs/mactls-v0.2-async-design.md with the two edges    *)
(* the code adds: a handshake may go back to Connecting once (the server   *)
(* declined TLS 1.3), and a TLS 1.2 handshake the peer leaves ends in      *)
(* Closed.                                                                 *)
(***************************************************************************)

CONSTANTS
    Error,      (* the kOSTLSAsync_* codes                                 *)
    NoError,    (* noErr                                                   *)
    Aborted     (* the code of an attempt its caller closed                *)

VARIABLES
    state,     (* OSTLS_GetState                                           *)
    error,     (* OSTLS_GetLastError                                       *)
    declined,  (* the one reconnect has been used                          *)
    asked,     (* OSTLS_Close has been called                              *)
    gone       (* OSTLS_Dispose has been called                            *)

lcVars == <<state, error, declined, asked, gone>>

LcInit ==
    /\ state = "Idle" /\ error = NoError
    /\ declined = FALSE /\ asked = FALSE /\ gone = FALSE

Move(from, to) ==
    /\ ~gone /\ state \in from /\ state' = to
    /\ UNCHANGED gone

LcStart == Move({"Idle"}, "Connecting") /\ UNCHANGED <<error, declined, asked>>

TransportUp == Move({"Connecting"}, "Handshaking") /\ UNCHANGED <<error, declined, asked>>

(* The server declined 1.3: back to Connecting, once.                      *)
Decline ==
    /\ Move({"Handshaking"}, "Connecting")
    /\ ~declined /\ declined' = TRUE
    /\ UNCHANGED <<error, asked>>

SessionUp == Move({"Handshaking"}, "Open") /\ UNCHANGED <<error, declined, asked>>

PeerLeaves ==
    Move({"Handshaking", "Open", "Closing"}, "Closed") /\ UNCHANGED <<error, declined, asked>>

(* A failure carries an error; a reconnect can fail before it starts.      *)
Break ==
    /\ Move({"Idle", "Connecting", "Handshaking", "Open", "Closing"}, "Failed")
    /\ error' \in Error
    /\ \/ UNCHANGED declined
       \/ state = "Handshaking" /\ ~declined /\ declined' = TRUE
    /\ UNCHANGED asked

(* OSTLS_Close, once: a session winds down, an attempt is aborted, any     *)
(* other state stays.                                                      *)
AskClose ==
    /\ ~asked /\ asked' = TRUE
    /\ \/ Move({"Open"}, "Closing") /\ UNCHANGED error
       \/ Move({"Connecting", "Handshaking"}, "Failed") /\ error' = Aborted
       \/ \E s \in {"Idle", "Closed", "Failed"} : Move({s}, s) /\ UNCHANGED error
    /\ UNCHANGED declined

Discard ==
    /\ ~gone /\ gone' = TRUE
    /\ UNCHANGED <<state, error, declined, asked>>

LcNext == \/ LcStart \/ TransportUp \/ Decline \/ SessionUp \/ PeerLeaves \/ Break
          \/ AskClose \/ Discard

LcSpec == LcInit /\ [][LcNext]_lcVars

=============================================================================

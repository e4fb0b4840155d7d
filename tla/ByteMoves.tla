------------------------------ MODULE ByteMoves ------------------------------
(***************************************************************************)
(* What the read ring and the write queue of a connection share            *)
(* (os9/ostls_async.c): the protocol of the session, which decides who     *)
(* fills and empties them, and memcpy.                                     *)
(***************************************************************************)
EXTENDS Integers

CONSTANT MaxBytes     (* bound: how many bytes each stream carries         *)

VARIABLE mode         (* the protocol of the session: "1.2" or "1.3"       *)

Least(a, b) == IF a < b THEN a ELSE b

(* memcpy or memmove of n bytes from src at index from to dst at index at. *)
Copy(dst, at, src, from, n) ==
    [j \in DOMAIN dst |-> IF j \in at..(at + n - 1) THEN src[from + j - at] ELSE dst[j]]

=============================================================================

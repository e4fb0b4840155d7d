------------------------------- MODULE ByteRuns -------------------------------
(***************************************************************************)
(* Runs of a byte stream: a byte is its position, counted from 1, and      *)
(* Run(a, n) is the n bytes after the first a.                             *)
(***************************************************************************)
EXTENDS Integers, Sequences

Run(a, n) == [i \in 1..n |-> a + i]

=============================================================================

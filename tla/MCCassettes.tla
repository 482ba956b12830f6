------------------------------ MODULE MCCassettes ------------------------------
(* Runs of up to three turns, three sessions and two changes: a recording,    *)
(* one written over it or broken off, replays before and after each change.   *)
EXTENDS Cassettes, TLC

InvoiceSymmetry == Permutations(Invoices)
=============================================================================

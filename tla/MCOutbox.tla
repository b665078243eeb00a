----------------------------- MODULE MCOutbox -----------------------------
(* Small instances of Outbox.                                               *)
EXTENDS Outbox, TLC

CONSTANTS t1, t2

Symmetric == Permutations(Ticks)
=============================================================================

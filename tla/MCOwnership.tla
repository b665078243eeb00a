---------------------------- MODULE MCOwnership ----------------------------
(* Small instances of Ownership.                                            *)
EXTENDS Ownership, TLC

CONSTANTS u1, u2, u3, r1, r2, i1, i2

Symmetric == Permutations(Users) \cup Permutations(Reqs) \cup Permutations(Invites)
=============================================================================

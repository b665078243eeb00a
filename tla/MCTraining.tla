----------------------------- MODULE MCTraining -----------------------------
(* Small instances of Training: p sells, q delivers at its one centre.      *)
EXTENDS Training, TLC

CONSTANTS p, q, c1, c2, k1, b1, b2, d1, d2, r1, r2

SellerIsP == [c \in Courses |-> p]
ParentIsQ == [k \in Centres |-> q]
Deal == {<<p, q>>}
BothSwitches == {<<p, "sells">>, <<q, "delivers">>}

Symmetric == Permutations(Deals) \cup Permutations(Reqs) \cup Permutations(Batches)
=============================================================================

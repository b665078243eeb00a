----------------------------- MODULE MCVacancy -----------------------------
(* Small instances of Vacancy.                                              *)
EXTENDS Vacancy, TLC

CONSTANTS c1, c2, j1, j2, r1, r2

OnePlace == [j \in Jobs |-> 1]
TwoPlaces == [j \in Jobs |-> 2]

Symmetric == Permutations(Cands) \cup Permutations(Reqs)
SymmetricJobs == Symmetric \cup Permutations(Jobs)
=============================================================================

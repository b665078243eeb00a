---------------------------- MODULE MCCoursePage ----------------------------
(* Small instances of CoursePage.                                           *)
EXTENDS CoursePage, TLC

CONSTANTS c1, c2, u1, r1, r2

Symmetric == Permutations(Reqs)
=============================================================================

------------------------------ MODULE MCUpload ------------------------------
(* Small instances of Upload, and the files somebody uploads in them.       *)
EXTENDS Upload, TLC

CONSTANTS l1, l2, l3, u1, u2, r, t1, t2, s

Line(ref, title, standards) == [ref |-> ref, title |-> title, carries |-> TRUE, standards |-> standards]
Short(ref, title) == [ref |-> ref, title |-> title, carries |-> FALSE, standards |-> {}]

\* A listing renamed by its reference, beside its old title, twice.
Renaming == << Short(r, t2), Short(None, t1), Short(None, t1) >>
\* One reference twice, the second time without the standard.
Twice == << Line(r, t1, {s}), Line(r, t2, {}) >>
\* A row that does not validate, and one of its reference that empties the listing.
Broken == << Line(r, None, {s}), Line(r, t1, {}) >>

Three == {Renaming, Twice, Broken}
Two == {Renaming, Twice}

Symmetric == Permutations(Listings) \cup Permutations(Uploads)
=============================================================================

----------------------------- MODULE MCMatching -----------------------------
(* Small instances of Matching: a1 and a2 are two rows of standard A, b is a *)
(* row of no standard; three vacancies of every kind, and three candidates. *)
EXTENDS Matching, TLC

CONSTANTS a1, a2, b, A, v

Concepts == a1 :> A @@ a2 :> A @@ b :> None
Levels == a1 :> 8 @@ a2 :> 6 @@ b :> None

\* One embedding for all that have one; the rest have not been computed yet.
Cosines == [pair \in {v} \X {v} |-> 15]

\* The defaults, but for `semantic`, which is off by default.
SomeWeights ==
    [coverage |-> 75, level |-> 8, experience |-> 7, evidence_share |-> 10, semantic |-> 5,
     mandatory_gap_cap |-> 45, min_coverage_for_cap |-> 40, experience_taper_years |-> 3]

Need(importance) == [importance |-> importance, mandatory |-> FALSE]
Must(importance) == [importance |-> importance, mandatory |-> TRUE]
Ask(needs, floor, years, embedding, state) ==
    [needs |-> needs, floor |-> floor, years |-> years, embedding |-> embedding, state |-> state]

\* Half of it held bounds it at 62.5, and the evidence, the level or the years
\* decide; a standard asked for under both its rows, one missing on either side
\* of the coverage from which the cap is flat; and nothing asked for.
AllForms ==
    {Ask(a1 :> Need(3) @@ b :> Need(3), None, 0, v, state) : state \in {"open", "closed"}}
    \cup {Ask(a1 :> Need(3) @@ b :> Need(3), 12, 2, None, "open"),
          Ask(a1 :> Must(1) @@ a2 :> Need(2) @@ b :> Must(5), 7, 5, v, "open"),
          Ask(<<>>, None, 0, v, "open")}

Who(held, years, embedding, paused) ==
    [held |-> held, years |-> years, embedding |-> embedding, paused |-> paused]
WhoIs ==
    1 :> {Who(b :> "certified", 3, v, FALSE), Who(b :> "self_declared", 0, None, TRUE)}
 @@ 2 :> {Who(a1 :> "self_declared" @@ a2 :> "certified", 1, None, FALSE)}
 @@ 3 :> {Who(a2 :> "inferred" @@ b :> "self_declared", 0, v, FALSE)}
=============================================================================

------------------------------ MODULE Scoring ------------------------------
(***************************************************************************)
(* How a candidate is scored against a vacancy, as the scorer reads both.   *)
(*                                                                          *)
(* Models api/modules/matching/scoring.py score_match, and attained_level   *)
(* of service.py beside it.  A number in [0, 1] is an exact fraction of a   *)
(* hundred, a pair <<numerator, denominator>>; the code's doubles differ    *)
(* from it by less than 1e-12, which the retrieval allows for.              *)
(***************************************************************************)
EXTENDS Integers, FiniteSets, FiniteSetsExt

CONSTANTS
    Rows,       \* rows of the skills table
    Concept,    \* Concept[s]: the standard that row s is one edition of, or None
    Level,      \* Level[s]: its NSQF level, counted in halves, or None
    Weights,    \* ScoreWeights: hundredths, and the taper in years
    Vectors,    \* embeddings
    Cosine,     \* Cosine[<<x, y>>]: of two embeddings, in twentieths
    None

ASSUME RowsAreFinite == IsFiniteSet(Rows)
ASSUME LevelsAreNat == \A s \in Rows : Level[s] \in Nat \cup {None}
ASSUME ConceptsAreNotRows == \A s \in Rows : Concept[s] \notin Rows
ASSUME CosinesAreBounded ==
    Cosine \in [Vectors \X Vectors -> Int] /\ \A pair \in Vectors \X Vectors : Cosine[pair] <= 20
ASSUME WeightsAreNat ==
    Weights \in [coverage : Nat, level : Nat, experience : Nat, evidence_share : Nat,
                 semantic : Nat, mandatory_gap_cap : Nat, min_coverage_for_cap : Nat,
                 experience_taper_years : Nat \ {0}]

\* Fractions.
Leq(x, y) == x[1] * y[2] <= y[1] * x[2]
Least(x, y) == IF Leq(x, y) THEN x ELSE y

\* EVIDENCE_WEIGHT, in twentieths.
EVIDENCE_WEIGHT == [certified |-> 20, assessed |-> 19, inferred |-> 14, self_declared |-> 12]
Sources == DOMAIN EVIDENCE_WEIGHT

\* _key: two rows of one standard are the same to the scorer.
Key(s) == IF Concept[s] = None THEN s ELSE Concept[s]
HeldKeys(held) == {Key(s) : s \in DOMAIN held}

\* held_by_key: of two held rows with one key the last one read stays, and the
\* query that reads them has no order.
Orders(held) == {order \in [HeldKeys(held) -> DOMAIN held] :
                   \A k \in HeldKeys(held) : Key(order[k]) = k}
----------------------------------------------------------------------------
(* The facts a score is made of.                                            *)

\* `needs` gives each row a vacancy requires an importance, which a constraint
\* keeps in 1..5, and whether it is mandatory.
Vacancies ==
    [needs : UNION {[rows -> [importance : 1..5, mandatory : BOOLEAN]] : rows \in SUBSET Rows},
     floor : Nat \cup {None}, years : Nat, embedding : Vectors \cup {None},
     state : {"open", "closed", "gone"}]

\* `held` gives each row a candidate holds its source.
Candidates ==
    [held : UNION {[rows -> Sources] : rows \in SUBSET Rows}, years : Nat,
     embedding : Vectors \cup {None}, paused : BOOLEAN]

Hits(needs, held) == {s \in DOMAIN needs : Key(s) \in HeldKeys(held)}
Total(points, rows) == MapThenSumSet(LAMBDA s : points[s], rows)
Importance(needs, rows) == Total([s \in DOMAIN needs |-> needs[s].importance], rows)
Mandatory(needs) == {s \in DOMAIN needs : needs[s].mandatory}

\* attained_level: of what the vacancy requires and the candidate holds.
AttainedLevels(needs, held) == {Level[s] : s \in Hits(needs, held)} \ {None}

\* In fortieths: full marks at the floor, a quarter less for each level short,
\* 0.6 when nothing says.
LevelPoints(floor, levels) ==
    IF floor = None THEN 40
    ELSE IF levels = {} THEN 24
    ELSE Max({0, 40 - 5 * Max({0, floor - Max(levels)})})

\* In parts of the taper.
YearsPoints(wanted, years) ==
    Max({0, Weights.experience_taper_years - Max({0, wanted - years})})

\* `order` says which row of a standard counts as its evidence.
Evidence(held, order, rows) == Total([s \in rows |-> EVIDENCE_WEIGHT[held[order[Key(s)]]]], rows)

\* _semantic_similarity: nothing unless both sides have been computed, and never
\* less than nothing.
Similarity(x, y) == IF x = None \/ y = None THEN 0 ELSE Max({0, Cosine[<<x, y>>]})

Facts(vacancy, candidate, order) ==
    LET hits == Hits(vacancy.needs, candidate.held)
    IN [earned |-> Importance(vacancy.needs, hits),
        total |-> Importance(vacancy.needs, DOMAIN vacancy.needs),
        missing |-> Cardinality(Mandatory(vacancy.needs) \ hits),
        matched |-> Cardinality(hits),
        evidence |-> Evidence(candidate.held, order, hits),
        level |-> LevelPoints(vacancy.floor, AttainedLevels(vacancy.needs, candidate.held)),
        years |-> YearsPoints(vacancy.years, candidate.years),
        similar |-> Similarity(vacancy.embedding, candidate.embedding)]
----------------------------------------------------------------------------
(* The score.                                                               *)

Weighted(f) ==
    LET taper == Weights.experience_taper_years
    IN <<Weights.coverage * f.earned * (f.matched * 40 * taper)
           + Weights.level * f.level * (f.total * f.matched * taper)
           + Weights.experience * f.years * (f.total * f.matched * 40)
           + Weights.evidence_share * f.evidence * (2 * f.total * taper)
           + Weights.semantic * f.similar * (2 * f.total * f.matched * taper),
         f.total * f.matched * 40 * taper>>

\* What is missing and mandatory caps the score; below a coverage the cap tapers.
EffectiveCap(f) ==
    IF f.missing = 0 THEN <<100, 1>>
    ELSE IF f.earned * 100 < Weights.min_coverage_for_cap * f.total
         THEN <<Weights.mandatory_gap_cap * f.earned * 100, Weights.min_coverage_for_cap * f.total>>
         ELSE <<Weights.mandatory_gap_cap, 1>>

Raw(f) == Least(Least(Weighted(f), <<100, 1>>), EffectiveCap(f))

\* Python's round: halves go to the even neighbour.
Rounded(x) ==
    LET down == x[1] \div x[2]
        rest == 2 * (x[1] % x[2])
    IN IF rest < x[2] \/ (rest = x[2] /\ down % 2 = 0) THEN down ELSE down + 1

\* Nothing in common, or nothing required, is an honest zero.
Score(vacancy, candidate, order) ==
    IF Hits(vacancy.needs, candidate.held) = {} THEN 0
    ELSE Rounded(Raw(Facts(vacancy, candidate, order)))
=============================================================================

------------------------------ MODULE Matching ------------------------------
(***************************************************************************)
(* Which pairs of a candidate and a vacancy reach the scorer, and the one   *)
(* question that is asked of many candidates at once.                       *)
(*                                                                          *)
(* Models api/modules/matching/retrieval.py, profiles_with_serious_match of *)
(* batch.py, the pools of employer.py and the retrieval of service.py       *)
(* match_jobs.  The request is served by several statements, each of which  *)
(* sees what has been committed by then:                                    *)
(*   chunk     the next candidates are taken;                               *)
(*   select    a window of each one's pairs is ranked in the database;      *)
(*   confirm   those pairs are loaded and scored;                           *)
(*   done.                                                                  *)
(* Meanwhile vacancies are published, closed and deleted.  What a vacancy   *)
(* asks for and a candidate holds stays as it is during the request.        *)
(***************************************************************************)
EXTENDS Scoring

CONSTANTS
    Jobs, People,   \* ids, in the database's order
    Forms,          \* what a vacancy may ask for
    Profiles,       \* Profiles[p]: what candidate p may hold
    RETRIEVAL_LIMIT, CHUNK, ROUND,
    MinScore,       \* from which score a match is a serious one
    Thresholds,     \* scores retrieval may be asked to prune by
    Moves           \* bound: the vacancies that change during the request

ASSUME IdsAreNat == Jobs \subseteq Nat /\ People \subseteq Nat
ASSUME FormsAreVacancies == Forms \subseteq Vacancies
ASSUME ProfilesAreCandidates == \A p \in People : Profiles[p] \subseteq Candidates
ASSUME PeopleAndJobsAreFinite == IsFiniteSet(People) /\ IsFiniteSet(Jobs)
ASSUME MinScoreIsPositive == MinScore \in Nat \ {0}
ASSUME ThresholdsAreScores == Thresholds \subseteq Nat
ASSUME SizesArePositive == {RETRIEVAL_LIMIT, CHUNK, ROUND} \subseteq Nat \ {0}

VARIABLES
    job,            \* job[j]: a form, and "open", "closed" or "gone"
    person,         \* person[p]
    stage, waiting, remaining, first, pairs, confirmed,     \* the request
    changed,        \* history: the vacancies that have changed, each once
    opened          \* history: the vacancies that have been open during the request

world == <<job, person>>
request == <<stage, waiting, remaining, first, pairs, confirmed>>
vars == <<world, request, changed, opened>>

Open(j) == job[j].state = "open"
Held(p) == person[p].held
----------------------------------------------------------------------------
(* retrieval_bound, as the database computes it.                            *)

\* Slip: the evidence is forgotten.
HeadroomWithoutEvidence == Weights.level + Weights.experience + Weights.semantic

\* What is not known without loading the candidate is taken as full marks.
Headroom == Weights.level + Weights.experience + Weights.evidence_share + Weights.semantic

Bound(b) ==
    LET raw == Least(<<100, 1>>, <<Weights.coverage * b.earned + Headroom * b.total, b.total>>)
        floor == Weights.min_coverage_for_cap
        cap == IF b.missing = 0 THEN <<100, 1>>
               ELSE IF 100 * b.earned < floor * b.total
                    THEN <<Weights.mandatory_gap_cap * 100 * b.earned, floor * b.total>>
                    ELSE <<Weights.mandatory_gap_cap, 1>>
    IN Least(raw, cap)

\* Of the rows a query says the candidate holds.
BoundOf(j, hits) ==
    LET needs == job[j].needs
    IN Bound([earned |-> Importance(needs, hits),
              total |-> Importance(needs, DOMAIN needs),
              missing |-> Cardinality(Mandatory(needs)) - Cardinality(Mandatory(needs) \cap hits)])

\* ORDER BY bound DESC, id.
Before(x, i, y, k) == ~Leq(x, y) \/ (Leq(y, x) /\ i < k)
----------------------------------------------------------------------------
(* Three queries that find the same pairs.                                   *)

\* bounded_jobs and best_jobs_for, for one candidate.
JobHits(j, p) ==
    {s \in DOMAIN job[j].needs :
       \/ Concept[s] \in {Concept[h] : h \in DOMAIN Held(p)} \ {None}
       \/ s \in DOMAIN Held(p)}
BoundedJobs(p) == {j \in Jobs : Open(j) /\ JobHits(j, p) # {}}
BestJobs(p) ==
    LET bound == [j \in BoundedJobs(p) |-> BoundOf(j, JobHits(j, p))]
    IN {j \in BoundedJobs(p) :
          Cardinality({k \in BoundedJobs(p) : Before(bound[k], k, bound[j], j)}) < RETRIEVAL_LIMIT}

\* Slip: a standard held under another of its rows is not found.
PairHitsByRow(j, p) == {s \in DOMAIN job[j].needs : s \in DOMAIN Held(p)}

\* candidate_pair_facts, for a vacancy: whoever withdrew consent is left out.
PairHits(j, p) ==
    {s \in DOMAIN job[j].needs :
       \E h \in DOMAIN Held(p) : Concept[h] = Key(s) \/ h = Key(s)}
Pool(j) == {p \in People : PairHits(j, p) # {} /\ ~person[p].paused}
pool_counts(j) ==
    LET missing(p) == Cardinality(Mandatory(job[j].needs))
                        - Cardinality(Mandatory(job[j].needs) \cap PairHits(j, p))
    IN [pool |-> Cardinality(Pool(j)),
        ready |-> Cardinality({p \in Pool(j) : missing(p) = 0}),
        nearly |-> Cardinality({p \in Pool(j) : missing(p) = 1})]

\* _bounded_pairs_full, for many candidates.
KeyHits(j, p) == {s \in DOMAIN job[j].needs : Key(s) \in HeldKeys(Held(p))}
PairsFull(people, low) ==
    {pair \in people \X {j \in Jobs : Open(j)} :
       LET hits == KeyHits(pair[2], pair[1])
       IN hits # {} /\ Leq(low, BoundOf(pair[2], hits))}

\* _bounded_pairs_anchored: a vacancy is probed through the mandatory standard
\* that the fewest of these candidates hold; one with none takes the full route.
PairsAnchored(people, low) ==
    LET popularity(s) == Cardinality({p \in people : Key(s) \in HeldKeys(Held(p))})
        anchor(j) == CHOOSE s \in Mandatory(job[j].needs) :
                       \A t \in Mandatory(job[j].needs) : popularity(s) <= popularity(t)
        probed == {pair \in people \X {j \in Jobs : Open(j)} :
                     IF Mandatory(job[pair[2]].needs) = {}
                     THEN KeyHits(pair[2], pair[1]) # {}
                     ELSE Key(anchor(pair[2])) \in HeldKeys(Held(pair[1]))}
    IN {pair \in probed : Leq(low, BoundOf(pair[2], KeyHits(pair[2], pair[1])))}

\* Slip: the shorter way at any threshold.
BoundedPairsAlwaysAnchored(people, low) == PairsAnchored(people, low)

\* bounded_pairs: sound only above the cap.
BoundedPairs(people, low) ==
    IF ~Leq(low, <<Weights.mandatory_gap_cap, 1>>) THEN PairsAnchored(people, low)
    ELSE PairsFull(people, low)
----------------------------------------------------------------------------
(* profiles_with_serious_match.                                             *)

\* A score that rounds to `score` or more is at least half a point below it.
MinBound(score) == <<2 * score - 1, 2>>

Last == IF first + ROUND - 1 < RETRIEVAL_LIMIT THEN first + ROUND - 1 ELSE RETRIEVAL_LIMIT

\* best_pairs: each one's pairs ranked first..Last among those above the bound.
BestPairs ==
    LET found == BoundedPairs(remaining, MinBound(MinScore))
        bound == [pair \in found |-> BoundOf(pair[2], KeyHits(pair[2], pair[1]))]
        rank(pair) == 1 + Cardinality({other \in found :
                            /\ other[1] = pair[1]
                            /\ Before(bound[other], other[2], bound[pair], pair[2])})
    IN {pair \in found : rank(pair) \in first..Last}

TakeChunk ==
    /\ stage = "chunk" /\ waiting # {}
    /\ \E chunk \in SUBSET waiting :
         /\ Cardinality(chunk) = IF Cardinality(waiting) < CHUNK THEN Cardinality(waiting) ELSE CHUNK
         /\ waiting' = waiting \ chunk
         /\ remaining' = chunk
    /\ first' = 1
    /\ stage' = "select"
    /\ UNCHANGED <<world, pairs, confirmed, changed, opened>>

Select ==
    /\ stage = "select" /\ remaining # {} /\ first <= RETRIEVAL_LIMIT
    /\ LET found == BestPairs
       IN found # {} /\ pairs' = found
    /\ stage' = "confirm"
    /\ UNCHANGED <<world, waiting, remaining, first, confirmed, changed, opened>>

ChunkEnds ==
    /\ stage = "select"
    /\ remaining = {} \/ first > RETRIEVAL_LIMIT \/ BestPairs = {}
    /\ stage' = "chunk"
    /\ UNCHANGED <<world, waiting, remaining, first, pairs, confirmed, changed, opened>>

Serious(p, j, order) == Score(job[j], person[p], order) >= MinScore

\* Slip: whoever has a pair left to score is confirmed by it.
ScoredAsBound(order) == {pair[1] : pair \in pairs}

\* _confirm: a vacancy deleted meanwhile is skipped, one closed is not.
Scored(order) ==
    {pair[1] : pair \in {q \in pairs : job[q[2]].state # "gone" /\ Serious(q[1], q[2], order[q[1]])}}

\* Slip: a candidate whose pairs just fill the window is given up on.
UnfinishedOffByOne(p) == Cardinality({pair \in pairs : pair[1] = p}) > Last - first + 1

\* Fewer pairs than the window is wide: this candidate has none left.
Unfinished(p) == Cardinality({pair \in pairs : pair[1] = p}) >= Last - first + 1

Confirm ==
    /\ stage = "confirm"
    /\ \E order \in [{pair[1] : pair \in pairs} -> UNION {Orders(Held(p)) : p \in People}] :
         /\ \A p \in DOMAIN order : order[p] \in Orders(Held(p))
         /\ confirmed' = confirmed \cup Scored(order)
         /\ remaining' = {p \in remaining \ Scored(order) : Unfinished(p)}
    /\ first' = Last + 1
    /\ stage' = "select"
    /\ pairs' = {}
    /\ UNCHANGED <<world, waiting, changed, opened>>

Answer ==
    /\ stage = "chunk" /\ waiting = {}
    /\ stage' = "done"
    /\ UNCHANGED <<world, waiting, remaining, first, pairs, confirmed, changed, opened>>

\* set_published, close_job, reopen_job and delete_job, as far as open_job sees.
SetState(j) ==
    /\ Cardinality(changed) < Moves /\ j \notin changed
    /\ stage # "done"
    /\ \E to \in {"open", "closed", "gone"} \ {job[j].state} :
         /\ job' = [job EXCEPT ![j].state = to]
         /\ opened' = IF to = "open" THEN opened \cup {j} ELSE opened
    /\ changed' = changed \cup {j}
    /\ UNCHANGED <<person, request>>

Init ==
    /\ job \in [Jobs -> Forms]
    /\ person \in {f \in [People -> UNION {Profiles[p] : p \in People}] :
                     \A p \in People : f[p] \in Profiles[p]}
    /\ stage = "chunk"
    /\ waiting = People
    /\ remaining = {}
    /\ first = 1
    /\ pairs = {}
    /\ confirmed = {}
    /\ changed = {}
    /\ opened = {j \in Jobs : Open(j)}

Next ==
    \/ TakeChunk \/ Select \/ ChunkEnds \/ Confirm \/ Answer
    \/ \E j \in Jobs : SetState(j)

Spec == Init /\ [][Next]_vars
----------------------------------------------------------------------------
(* Properties.                                                              *)

TypeOK ==
    /\ job \in [Jobs -> Vacancies] /\ person \in [People -> Candidates]
    /\ stage \in {"chunk", "select", "confirm", "done"}
    /\ waiting \subseteq People
    /\ remaining \subseteq People \ waiting
    /\ first \in 1..(RETRIEVAL_LIMIT + 1)
    /\ pairs \subseteq remaining \X opened
    /\ confirmed \subseteq People
    /\ changed \subseteq Jobs
    /\ {j \in Jobs : Open(j)} \subseteq opened /\ opened \subseteq Jobs
    /\ stage # "confirm" => pairs = {}

\* "It can only overstate": no pair's unrounded score is above the bound that
\* decides whether it reaches the scorer, whichever of two held rows counts.
BoundNeverUndercuts ==
    \A p \in People, j \in Jobs :
        Hits(job[j].needs, Held(p)) # {} =>
            \A order \in Orders(Held(p)) :
                Leq(Raw(Facts(job[j], person[p], order)), BoundOf(j, JobHits(j, p)))

\* "ready and nearly are defined by the mandatory-missing count, which is exactly
\* what the scorer reports": what an employer is told of a pool without scoring
\* it is what scoring it would tell.
CountsAreTheScorers ==
    \A j \in Jobs :
        LET sharing == {p \in People : ~person[p].paused /\ Hits(job[j].needs, Held(p)) # {}}
            missing(p) == Cardinality(Mandatory(job[j].needs) \ Hits(job[j].needs, Held(p)))
        IN pool_counts(j) = [pool |-> Cardinality(sharing),
                             ready |-> Cardinality({p \in sharing : missing(p) = 0}),
                             nearly |-> Cardinality({p \in sharing : missing(p) = 1})]

\* "The two return the same pairs" and differ only in how many the database
\* builds: whoever is still asked about, and whatever the threshold.
RoutesAgree ==
    stage = "select" => \A score \in Thresholds :
        BoundedPairs(remaining, MinBound(score)) = PairsFull(remaining, MinBound(score))

\* "Equivalent to the loop it replaces, not an approximation of it": while the
\* vacancies stay as they are, who is confirmed is who has a serious match among
\* the best of their own, however candidates are chunked and windows cut.  Where
\* the order of two held rows decides, either answer is right.
BatchIsTheLoop ==
    stage = "done" /\ changed = {} =>
        \A p \in People :
            /\ p \in confirmed => \E j \in BestJobs(p), order \in Orders(Held(p)) : Serious(p, j, order)
            /\ p \notin confirmed => \A j \in BestJobs(p) : \E order \in Orders(Held(p)) : ~Serious(p, j, order)

\* Whatever is published or closed meanwhile, nobody is counted as placeable
\* without a vacancy that was open during the request and is a serious match.
NobodyIsConfirmedForNothing ==
    \A p \in confirmed : \E j \in opened, order \in Orders(Held(p)) : Serious(p, j, order)

\* Not so while vacancies close: the windows are cut by rank, so when one above
\* closes the next moves up, out of the window that is asked for.
NobodyIsPassedOver ==
    stage = "done" =>
        \A p \in People, j \in Jobs :
            /\ Open(j) /\ j \notin changed
            /\ \A order \in Orders(Held(p)) : Serious(p, j, order)
            /\ Cardinality(opened) <= RETRIEVAL_LIMIT
            => p \in confirmed

\* match_jobs: "the same inputs always produce the same page".  Not so for a
\* candidate who holds two rows of one standard with different evidence.
SameInputsSamePage ==
    \A p \in People, j \in Jobs :
        \A x, y \in Orders(Held(p)) : Score(job[j], person[p], x) = Score(job[j], person[p], y)
=============================================================================

--------------------------- MODULE MatchingProofs ---------------------------
(***************************************************************************)
(* What TLAPS proves of Matching and of the scorer it reads: the database   *)
(* counts and bounds what the scorer would, and a batch confirms nobody     *)
(* without a serious match, for any catalogue, vacancies and candidates.    *)
(***************************************************************************)
EXTENDS Matching, FiniteSetTheorems, WellFoundedInduction, TLAPS

----------------------------------------------------------------------------
(* Finite sets.                                                             *)

\* Every set of naturals that is not empty has a least element.
LEMMA LeastNatural ==
    ASSUME NEW K, K \subseteq Nat, K # {}
    PROVE  \E k \in K : \A j \in K : k <= j
  <1> DEFINE R == OpToRel(<, Nat)
  <1>1. IsWellFoundedOn(R, Nat)
    BY NatLessThanWellFounded
  <1>2. \A a, b \in Nat : a < b => <<a, b>> \in R
    BY DEF OpToRel
  <1> HIDE DEF R
  <1>3. \E x \in K : \A y \in K : ~ (<<y, x>> \in R)
    BY <1>1, WFMin
  <1>4. PICK k \in K : \A j \in K : ~(j < k)
    BY <1>2, <1>3, Zenon
  <1> QED BY <1>4

\* If whatever is wrong with a set is wrong with a smaller one, nothing is wrong
\* with any: the form in which finite sets are reasoned about below.
LEMMA Descent ==
    ASSUME NEW S, IsFiniteSet(S), NEW B, B \subseteq SUBSET S,
           \A T \in B : \E x \in T : T \ {x} \in B
    PROVE  B = {}
  <1> SUFFICES ASSUME B # {} PROVE FALSE
    OBVIOUS
  <1> DEFINE K == {Cardinality(T) : T \in B}
  <1>1. \A T \in B : IsFiniteSet(T) /\ Cardinality(T) \in Nat
    BY FS_Subset, FS_CardinalityType
  <1>2. K \subseteq Nat /\ K # {}
    BY <1>1
  <1>3. PICK T \in B : \A U \in B : Cardinality(T) <= Cardinality(U)
    <2>1. PICK k \in K : \A j \in K : k <= j
      <3> HIDE DEF K
      <3> QED BY <1>2, LeastNatural
    <2> QED BY <2>1
  <1>4. PICK x \in T : T \ {x} \in B
    OBVIOUS
  <1>5. Cardinality(T \ {x}) = Cardinality(T) - 1 /\ Cardinality(T) \in Nat
    BY <1>1, <1>4, FS_RemoveElement
  <1> QED BY <1>3, <1>4, <1>5

----------------------------------------------------------------------------
(* Sums.  Total folds over the members of a set, one chosen after another.   *)

First(s) == CHOOSE x \in s : TRUE
Folds(S, w, g) == g = [s \in SUBSET S |-> IF s = {} THEN 0 ELSE w[First(s)] + g[s \ {First(s)}]]

LEMMA TotalIsFold ==
    ASSUME NEW w, NEW S
    PROVE  Total(w, S) = (CHOOSE g : Folds(S, w, g))[S]
  BY DEF Total, MapThenSumSet, MapThenFoldSet, Folds, First

LEMMA FirstIsIn ==
    ASSUME NEW s, s # {}
    PROVE  First(s) \in s
  BY DEF First

\* The recursion defines something: on the sets of at most k members, by steps.
LEMMA FoldExists ==
    ASSUME NEW w, NEW S, IsFiniteSet(S)
    PROVE  \E g : Folds(S, w, g)
  <1> DEFINE D(k) == {s \in SUBSET S : Cardinality(s) <= k}
             Up(k, g) == g = [s \in D(k) |-> IF s = {} THEN 0 ELSE w[First(s)] + g[s \ {First(s)}]]
             K == {k \in Nat : ~ \E g : Up(k, g)}
  <1>1. \A s \in SUBSET S : IsFiniteSet(s) /\ Cardinality(s) \in Nat /\ Cardinality(s) <= Cardinality(S)
    BY FS_Subset, FS_CardinalityType
  <1>2. \A s \in SUBSET S : s # {} =>
          s \ {First(s)} \in SUBSET S /\ Cardinality(s \ {First(s)}) = Cardinality(s) - 1
    BY <1>1, FirstIsIn, FS_RemoveElement
  <1>3. K = {}
    <2> SUFFICES ASSUME K # {} PROVE FALSE
      OBVIOUS
    <2>1. PICK k \in K : \A j \in K : k <= j
      <3>1. K \subseteq Nat
        OBVIOUS
      <3> HIDE DEF K
      <3> QED BY <3>1, LeastNatural
    <2>2. k # 0
      <3> SUFFICES ASSUME k = 0 PROVE FALSE
        OBVIOUS
      <3>1. \A s \in D(0) : s = {}
        BY <1>1, FS_EmptySet
      <3> DEFINE g == [s \in D(0) |-> 0]
      <3>2. g = [s \in D(0) |-> IF s = {} THEN 0 ELSE w[First(s)] + g[s \ {First(s)}]]
        BY <3>1
      <3> QED BY <3>2
    <2>3. k - 1 \in Nat /\ k - 1 \notin K
      <3>1. K \subseteq Nat
        OBVIOUS
      <3> HIDE DEF K
      <3>2. k \in Nat /\ k - 1 \in Nat
        BY <2>1, <2>2, <3>1
      <3>3. ASSUME k - 1 \in K PROVE FALSE
        <4>1. k <= k - 1
          BY <2>1, <3>3, Zenon
        <4> QED BY <3>2, <4>1
      <3> QED BY <3>2, <3>3
    <2>4. PICK g : Up(k - 1, g)
      BY <2>3
    <2> DEFINE h == [s \in D(k) |-> IF s = {} THEN 0 ELSE w[First(s)] + g[s \ {First(s)}]]
    <2>5. ASSUME NEW s \in D(k), s # {}
          PROVE  h[s \ {First(s)}] = g[s \ {First(s)}]
      <3>1. s \ {First(s)} \in D(k - 1) /\ s \ {First(s)} \in D(k)
        BY <1>1, <1>2, <2>5
      <3> QED BY <2>4, <3>1
    <2>6. h = [s \in D(k) |-> IF s = {} THEN 0 ELSE w[First(s)] + h[s \ {First(s)}]]
      BY <2>5
    <2> QED BY <2>6
  <1>4. PICK g : Up(Cardinality(S), g)
    BY <1>1, <1>3
  <1>5. D(Cardinality(S)) = SUBSET S
    BY <1>1
  <1> QED BY <1>4, <1>5 DEF Folds

\* And it defines one thing, whatever set it is begun with.
LEMMA FoldUnique ==
    ASSUME NEW w, NEW S, IsFiniteSet(S), NEW T \in SUBSET S, NEW g, NEW h,
           Folds(S, w, g), Folds(T, w, h)
    PROVE  g[T] = h[T]
  <1> DEFINE B == {s \in SUBSET T : g[s] # h[s]}
  <1>1. ASSUME NEW s \in B PROVE \E x \in s : s \ {x} \in B
    <2>1. s # {}
      BY DEF Folds
    <2>2. First(s) \in s
      BY <2>1, FirstIsIn
    <2>3. g[s] = w[First(s)] + g[s \ {First(s)}] /\ h[s] = w[First(s)] + h[s \ {First(s)}]
      BY <2>1 DEF Folds
    <2> QED BY <2>2, <2>3
  <1>2. IsFiniteSet(T) /\ B \subseteq SUBSET T
    BY FS_Subset
  <1>3. B = {}
    <2> HIDE DEF B
    <2> QED BY <1>1, <1>2, Descent
  <1> QED BY <1>3

\* A sum is its first member's, and the sum of the others.
LEMMA TotalStep ==
    ASSUME NEW w, NEW S, IsFiniteSet(S)
    PROVE  /\ S = {} => Total(w, S) = 0
           /\ S # {} => First(S) \in S /\ Total(w, S) = w[First(S)] + Total(w, S \ {First(S)})
  <1> DEFINE G(T) == CHOOSE g : Folds(T, w, g)
  <1>1. \A T \in SUBSET S : Folds(T, w, G(T)) /\ Total(w, T) = G(T)[T]
    <2> SUFFICES ASSUME NEW T \in SUBSET S PROVE Folds(T, w, G(T)) /\ Total(w, T) = G(T)[T]
      OBVIOUS
    <2>1. IsFiniteSet(T)
      BY FS_Subset
    <2> QED BY <2>1, FoldExists, TotalIsFold
  <1> HIDE DEF G
  <1>2. CASE S = {}
    BY <1>1, <1>2 DEF Folds
  <1>3. CASE S # {}
    <2>1. First(S) \in S
      BY <1>3, FirstIsIn
    <2>2. G(S)[S] = w[First(S)] + G(S)[S \ {First(S)}]
      BY <1>1, <1>3 DEF Folds
    <2>3. G(S)[S \ {First(S)}] = G(S \ {First(S)})[S \ {First(S)}]
      BY <1>1, FoldUnique
    <2> QED BY <1>1, <1>3, <2>1, <2>2, <2>3
  <1> QED BY <1>2, <1>3

\* A sum of naturals is between the least and the most it could be.
LEMMA TotalBounds ==
    ASSUME NEW w, NEW S, IsFiniteSet(S), NEW most \in Nat,
           \A s \in S : w[s] \in Nat /\ w[s] <= most
    PROVE  /\ Total(w, S) \in Nat
           /\ Total(w, S) <= most * Cardinality(S)
           /\ S # {} /\ (\A s \in S : w[s] > 0) => Total(w, S) > 0
  <1> DEFINE Fits(T) == Total(w, T) \in Nat /\ Total(w, T) <= most * Cardinality(T)
             B == {T \in SUBSET S : ~Fits(T)}
  <1>1. \A T \in SUBSET S : IsFiniteSet(T) /\ Cardinality(T) \in Nat
    BY FS_Subset, FS_CardinalityType
  <1>2. ASSUME NEW T \in B PROVE \E x \in T : T \ {x} \in B
    <2>1. T # {}
      <3> SUFFICES ASSUME T = {} PROVE Fits(T)
        OBVIOUS
      <3>1. Total(w, T) = 0 /\ Cardinality(T) = 0
        BY <1>1, TotalStep, FS_EmptySet
      <3> QED BY <3>1
    <2>2. First(T) \in T /\ Total(w, T) = w[First(T)] + Total(w, T \ {First(T)})
      BY <1>1, <2>1, TotalStep
    <2>3. Cardinality(T \ {First(T)}) = Cardinality(T) - 1
      BY <1>1, <2>2, FS_RemoveElement
    <2>4. ASSUME Fits(T \ {First(T)}) PROVE FALSE
      <3>1. most * (Cardinality(T) - 1) = most * Cardinality(T) - most
        BY <1>1
      <3> QED BY <1>1, <2>2, <2>3, <2>4, <3>1
    <2> QED BY <2>2, <2>4
  <1>3. B = {}
    <2> HIDE DEF B
    <2>1. B \subseteq SUBSET S
      BY DEF B
    <2> QED BY <1>2, <2>1, Descent
  <1>4. \A T \in SUBSET S : Fits(T)
    BY <1>3
  <1>5. S # {} /\ (\A s \in S : w[s] > 0) => Total(w, S) > 0
    <2>1. SUFFICES ASSUME S # {}, \A s \in S : w[s] > 0 PROVE Total(w, S) > 0
      OBVIOUS
    <2>2. First(S) \in S /\ Total(w, S) = w[First(S)] + Total(w, S \ {First(S)})
      BY <2>1, TotalStep
    <2> QED BY <1>4, <2>1, <2>2
  <1> QED BY <1>4, <1>5

----------------------------------------------------------------------------
(* What a vacancy asks for and a candidate holds.                           *)

LEMMA NeedsType ==
    ASSUME NEW v \in Vacancies
    PROVE  /\ DOMAIN v.needs \subseteq Rows
           /\ \A s \in DOMAIN v.needs : v.needs[s].importance \in 1..5
           /\ IsFiniteSet(DOMAIN v.needs)
           /\ v.floor \in Nat \cup {None} /\ v.years \in Nat /\ v.embedding \in Vectors \cup {None}
  <1>1. v.needs \in UNION {[rows -> [importance : 1..5, mandatory : BOOLEAN]] : rows \in SUBSET Rows}
        /\ v.floor \in Nat \cup {None} /\ v.years \in Nat /\ v.embedding \in Vectors \cup {None}
    BY DEF Vacancies
  <1>2. PICK rows \in SUBSET Rows : v.needs \in [rows -> [importance : 1..5, mandatory : BOOLEAN]]
    BY <1>1
  <1>3. DOMAIN v.needs \subseteq Rows
    BY <1>2
  <1>4. IsFiniteSet(DOMAIN v.needs)
    BY <1>3, RowsAreFinite, FS_Subset
  <1> QED BY <1>1, <1>2, <1>3, <1>4

LEMMA HeldType ==
    ASSUME NEW c \in Candidates
    PROVE  /\ DOMAIN c.held \subseteq Rows
           /\ \A s \in DOMAIN c.held : c.held[s] \in Sources
           /\ c.years \in Nat
  <1>1. c.held \in UNION {[rows -> Sources] : rows \in SUBSET Rows} /\ c.years \in Nat
    BY DEF Candidates
  <1>2. PICK rows \in SUBSET Rows : c.held \in [rows -> Sources]
    BY <1>1
  <1> QED BY <1>1, <1>2

\* A vacancy's importances add up to a natural, and to more the more is counted
\* of them; what is missing of the mandatory rows is a count.
LEMMA SumsType ==
    ASSUME NEW v \in Vacancies, NEW rows, rows \subseteq DOMAIN v.needs
    PROVE  /\ Importance(v.needs, rows) \in Nat
           /\ rows # {} => Importance(v.needs, rows) > 0
           /\ IsFiniteSet(rows) /\ Cardinality(rows) \in Nat
           /\ Cardinality(Mandatory(v.needs) \ rows) \in Nat
  <1>1. IsFiniteSet(DOMAIN v.needs) /\ \A s \in DOMAIN v.needs : v.needs[s].importance \in 1..5
    BY NeedsType
  <1>2. IsFiniteSet(rows) /\ Cardinality(rows) \in Nat
    BY <1>1, FS_Subset, FS_CardinalityType
  <1>3. Cardinality(Mandatory(v.needs) \ rows) \in Nat
    BY <1>1, FS_Subset, FS_CardinalityType DEF Mandatory
  <1> DEFINE w == [s \in DOMAIN v.needs |-> v.needs[s].importance]
  <1>4. \A s \in rows : w[s] \in Nat /\ w[s] <= 5 /\ w[s] > 0
    BY <1>1
  <1>5. Importance(v.needs, rows) = Total(w, rows)
    BY DEF Importance
  <1> HIDE DEF w
  <1>6. Total(w, rows) \in Nat /\ (rows # {} => Total(w, rows) > 0)
    BY <1>2, <1>4, TotalBounds
  <1> QED BY <1>2, <1>3, <1>5, <1>6

\* The three queries join on what the scorer calls the key of a row.
LEMMA QueriesFindHits ==
    ASSUME TypeOK, NEW j \in Jobs, NEW p \in People
    PROVE  /\ JobHits(j, p) = Hits(job[j].needs, Held(p))
           /\ PairHits(j, p) = Hits(job[j].needs, Held(p))
           /\ KeyHits(j, p) = Hits(job[j].needs, Held(p))
  <1>1. DOMAIN job[j].needs \subseteq Rows
    BY NeedsType DEF TypeOK
  <1>2. DOMAIN Held(p) \subseteq Rows
    BY HeldType DEF TypeOK, Held
  <1>3. ASSUME NEW s \in Rows, NEW h \in Rows
        PROVE  /\ Key(s) = Key(h) <=> s = h \/ (Concept[s] = Concept[h] /\ Concept[s] # None)
               /\ Key(s) = Key(h) <=> Concept[h] = Key(s) \/ h = Key(s)
    BY ConceptsAreNotRows DEF Key
  <1>4. JobHits(j, p) = Hits(job[j].needs, Held(p))
    BY <1>1, <1>2, <1>3 DEF JobHits, Hits, HeldKeys
  <1>5. PairHits(j, p) = Hits(job[j].needs, Held(p))
    BY <1>1, <1>2, <1>3 DEF PairHits, Hits, HeldKeys
  <1> QED BY <1>4, <1>5 DEF KeyHits, Hits

\* What the query counts as missing is what the scorer finds missing.
LEMMA MissingByCount ==
    ASSUME NEW v \in Vacancies, NEW rows
    PROVE  Cardinality(Mandatory(v.needs)) - Cardinality(Mandatory(v.needs) \cap rows)
             = Cardinality(Mandatory(v.needs) \ rows)
  <1> DEFINE M == Mandatory(v.needs)
  <1>1. IsFiniteSet(M)
    BY NeedsType, FS_Subset DEF Mandatory
  <1> HIDE DEF M
  <1>2. Cardinality(M \ rows) = Cardinality(M) - Cardinality(M \cap rows)
        /\ IsFiniteSet(M \cap rows)
    BY <1>1, FS_Difference, FS_Subset
  <1>3. Cardinality(M) \in Nat /\ Cardinality(M \cap rows) \in Nat
    BY <1>1, <1>2, FS_CardinalityType
  <1> QED BY <1>2, <1>3 DEF M

\* The counts an employer is told hold in every state, by their type alone.
LEMMA CountsAgree ==
    ASSUME TypeOK
    PROVE  CountsAreTheScorers
  <1> SUFFICES ASSUME NEW j \in Jobs
      PROVE  LET sharing == {p \in People : ~person[p].paused /\ Hits(job[j].needs, Held(p)) # {}}
                 missing(p) == Cardinality(Mandatory(job[j].needs) \ Hits(job[j].needs, Held(p)))
             IN pool_counts(j) = [pool |-> Cardinality(sharing),
                                  ready |-> Cardinality({p \in sharing : missing(p) = 0}),
                                  nearly |-> Cardinality({p \in sharing : missing(p) = 1})]
    BY DEF CountsAreTheScorers
  <1> DEFINE sharing == {p \in People : ~person[p].paused /\ Hits(job[j].needs, Held(p)) # {}}
             missing(p) == Cardinality(Mandatory(job[j].needs) \ Hits(job[j].needs, Held(p)))
             counted(p) == Cardinality(Mandatory(job[j].needs))
                             - Cardinality(Mandatory(job[j].needs) \cap PairHits(j, p))
  <1>1. Pool(j) = sharing
    BY QueriesFindHits DEF Pool
  <1>2. \A p \in People : counted(p) = missing(p)
    BY QueriesFindHits, MissingByCount DEF TypeOK
  <1>3. sharing \subseteq People
    OBVIOUS
  <1>4. pool_counts(j) = [pool |-> Cardinality(Pool(j)),
                          ready |-> Cardinality({p \in Pool(j) : counted(p) = 0}),
                          nearly |-> Cardinality({p \in Pool(j) : counted(p) = 1})]
    BY DEF pool_counts
  <1> HIDE DEF sharing, missing, counted
  <1>5. {p \in Pool(j) : counted(p) = 0} = {p \in sharing : missing(p) = 0}
        /\ {p \in Pool(j) : counted(p) = 1} = {p \in sharing : missing(p) = 1}
    BY <1>1, <1>2, <1>3
  <1>6. pool_counts(j) = [pool |-> Cardinality(sharing),
                          ready |-> Cardinality({p \in sharing : missing(p) = 0}),
                          nearly |-> Cardinality({p \in sharing : missing(p) = 1})]
    BY <1>1, <1>4, <1>5
  <1> QED BY <1>6 DEF sharing, missing
----------------------------------------------------------------------------
(* The batch, whatever changes meanwhile.                                   *)

\* A vacancy's state is no part of what it is scored by.
LEMMA ScoredByTheForm ==
    ASSUME NEW v, NEW w, NEW c, NEW order,
           v.needs = w.needs, v.floor = w.floor, v.years = w.years, v.embedding = w.embedding
    PROVE  Score(v, c, order) = Score(w, c, order)
  <1>1. Facts(v, c, order) = Facts(w, c, order)
    BY DEF Facts
  <1> QED BY <1>1 DEF Score

\* Both routes look at open vacancies and at the people still asked about.
LEMMA PairsAreOpen ==
    ASSUME NEW people, NEW low
    PROVE  BoundedPairs(people, low) \subseteq people \X {j \in Jobs : Open(j)}
  BY DEF BoundedPairs, PairsFull, PairsAnchored

LEMMA BestPairsAreFound == BestPairs \subseteq BoundedPairs(remaining, MinBound(MinScore))
  BY DEF BestPairs

LEMMA LastType ==
    ASSUME first \in 1..(RETRIEVAL_LIMIT + 1)
    PROVE  Last \in 1..RETRIEVAL_LIMIT
  BY SizesArePositive DEF Last

LEMMA TypeInit == Init => TypeOK
  <1> SUFFICES ASSUME Init PROVE TypeOK
    OBVIOUS
  <1>1. job \in [Jobs -> Vacancies]
    BY FormsAreVacancies DEF Init
  <1>2. person \in [People -> Candidates]
    BY ProfilesAreCandidates DEF Init
  <1> QED BY <1>1, <1>2, SizesArePositive DEF Init, TypeOK, Open

\* SetState leaves what is asked for and only adds to what has been open.
LEMMA SetStateType ==
    ASSUME TypeOK, NEW j \in Jobs, SetState(j)
    PROVE  /\ job' \in [Jobs -> Vacancies]
           /\ \A k \in Jobs : /\ job'[k].needs = job[k].needs /\ job'[k].floor = job[k].floor
                              /\ job'[k].years = job[k].years /\ job'[k].embedding = job[k].embedding
           /\ {k \in Jobs : Open(k)}' \subseteq opened'
           /\ opened \subseteq opened' /\ opened' \subseteq Jobs /\ changed' \subseteq Jobs
           /\ UNCHANGED <<person, request>>
  <1>1. PICK to \in {"open", "closed", "gone"} \ {job[j].state} :
          /\ job' = [job EXCEPT ![j].state = to]
          /\ opened' = IF to = "open" THEN opened \cup {j} ELSE opened
    BY DEF SetState
  <1>2. job \in [Jobs -> Vacancies] /\ job[j] \in Vacancies
    BY DEF TypeOK
  <1>3. [job[j] EXCEPT !.state = to] \in Vacancies
    BY <1>2 DEF Vacancies
  <1>4. job' = [job EXCEPT ![j] = [job[j] EXCEPT !.state = to]]
    BY <1>1
  <1>5. job' \in [Jobs -> Vacancies]
    BY <1>2, <1>3, <1>4
  <1>6. job'[j] = [job[j] EXCEPT !.state = to] /\ \A k \in Jobs \ {j} : job'[k] = job[k]
    BY <1>2, <1>4
  <1>7. /\ job'[j].needs = job[j].needs /\ job'[j].floor = job[j].floor
        /\ job'[j].years = job[j].years /\ job'[j].embedding = job[j].embedding /\ job'[j].state = to
    BY <1>2, <1>6 DEF Vacancies
  <1>8. \A k \in Jobs : k = j \/ job'[k] = job[k]
    BY <1>6
  <1>9. {k \in Jobs : Open(k)}' \subseteq opened'
    BY <1>1, <1>7, <1>8 DEF Open, TypeOK
  <1> QED BY <1>1, <1>5, <1>7, <1>8, <1>9 DEF SetState, TypeOK

LEMMA TypeStep ==
    ASSUME TypeOK, [Next]_vars
    PROVE  TypeOK'
  <1>1. CASE TakeChunk
    BY <1>1, SizesArePositive DEF TypeOK, TakeChunk, world, Open
  <1>2. CASE Select
    <2>1. pairs' \subseteq remaining \X opened
      <3>1. pairs' = BestPairs
        BY <1>2 DEF Select
      <3>2. BestPairs \subseteq remaining \X {j \in Jobs : Open(j)}
        BY BestPairsAreFound, PairsAreOpen
      <3> QED BY <3>1, <3>2 DEF TypeOK
    <2> QED BY <1>2, <2>1 DEF TypeOK, Select, world, Open
  <1>3. CASE ChunkEnds
    BY <1>3 DEF TypeOK, ChunkEnds, world, Open
  <1>4. CASE Confirm
    <2>1. PICK order : /\ confirmed' = confirmed \cup Scored(order)
                       /\ remaining' = {p \in remaining \ Scored(order) : Unfinished(p)}
      BY <1>4 DEF Confirm
    <2>2. Scored(order) \subseteq remaining
      BY DEF Scored, TypeOK
    <2>3. confirmed' \subseteq People /\ remaining' \subseteq People \ waiting
      BY <2>1, <2>2 DEF TypeOK
    <2>4. first' \in 1..(RETRIEVAL_LIMIT + 1)
      BY <1>4, LastType, SizesArePositive DEF TypeOK, Confirm
    <2> QED BY <1>4, <2>3, <2>4 DEF TypeOK, Confirm, world, Open
  <1>5. CASE Answer
    BY <1>5 DEF TypeOK, Answer, world, Open
  <1>6. ASSUME NEW j \in Jobs, SetState(j) PROVE TypeOK'
    BY <1>6, SetStateType DEF TypeOK, request
  <1>7. CASE UNCHANGED vars
    BY <1>7 DEF TypeOK, vars, world, request, Open
  <1> QED BY <1>1, <1>2, <1>3, <1>4, <1>5, <1>6, <1>7 DEF Next

\* Every step but the last two leaves the question as it was: what is confirmed
\* is a serious match then, and a later change of the vacancy's state does not
\* make it less of one.
LEMMA ConfirmedStep ==
    ASSUME TypeOK, NobodyIsConfirmedForNothing, [Next]_vars
    PROVE  NobodyIsConfirmedForNothing'
  <1>1. ASSUME UNCHANGED <<job, person, confirmed, opened>>
        PROVE  NobodyIsConfirmedForNothing'
    BY <1>1 DEF NobodyIsConfirmedForNothing, Serious, Held
  <1>2. CASE Confirm
    <2>1. PICK order \in [{pair[1] : pair \in pairs} -> UNION {Orders(Held(p)) : p \in People}] :
            /\ \A p \in DOMAIN order : order[p] \in Orders(Held(p))
            /\ confirmed' = confirmed \cup Scored(order)
      BY <1>2 DEF Confirm
    <2>2. ASSUME NEW p \in Scored(order)
          PROVE  \E j \in opened, o \in Orders(Held(p)) : Serious(p, j, o)
      <3>1. PICK pair \in pairs : pair[1] = p /\ Serious(pair[1], pair[2], order[pair[1]])
        BY DEF Scored
      <3>2. pair[2] \in opened /\ p \in DOMAIN order
        BY <2>1, <3>1 DEF TypeOK
      <3>3. order[p] \in Orders(Held(p))
        BY <2>1, <3>2
      <3> QED BY <3>1, <3>2, <3>3
    <2>3. UNCHANGED <<job, person, opened>>
      BY <1>2 DEF Confirm, world
    <2>4. \A p \in confirmed' : \E j \in opened, o \in Orders(Held(p)) : Serious(p, j, o)
      BY <2>1, <2>2 DEF NobodyIsConfirmedForNothing
    <2> QED BY <2>3, <2>4 DEF NobodyIsConfirmedForNothing, Serious, Held
  <1>3. ASSUME NEW k \in Jobs, SetState(k) PROVE NobodyIsConfirmedForNothing'
    <2>1. /\ opened \subseteq opened' /\ UNCHANGED <<person, confirmed>>
      BY <1>3, SetStateType DEF request
    <2>2. ASSUME NEW j \in Jobs, NEW p, NEW order
          PROVE  Score(job'[j], person[p], order) = Score(job[j], person[p], order)
      BY <1>3, SetStateType, ScoredByTheForm
    <2>3. opened \subseteq Jobs
      BY DEF TypeOK
    <2>4. \A p \in confirmed : \E j \in opened, o \in Orders(Held(p)) :
            Score(job'[j], person[p], o) >= MinScore
      BY <2>2, <2>3 DEF NobodyIsConfirmedForNothing, Serious
    <2> QED BY <2>1, <2>4 DEF NobodyIsConfirmedForNothing, Serious, Held
  <1>4. CASE TakeChunk \/ Select \/ ChunkEnds \/ Answer \/ UNCHANGED vars
    BY <1>1, <1>4 DEF TakeChunk, Select, ChunkEnds, Answer, vars, world, request
  <1> QED BY <1>2, <1>3, <1>4 DEF Next
----------------------------------------------------------------------------
(* Fractions.                                                               *)

Fractions == Int \X (Nat \ {0})

LEMMA TimesIsMonotone ==
    ASSUME NEW x \in Int, NEW y \in Int, NEW k \in Nat, x <= y
    PROVE  x * k <= y * k
  <1>1. (y - x) * k >= 0
    <2>1. y - x \in Nat
      OBVIOUS
    <2> QED BY <2>1
  <1>2. (y - x) * k = y * k - x * k
    OBVIOUS
  <1>3. x * k \in Int /\ y * k \in Int
    OBVIOUS
  <1> QED BY <1>1, <1>2, <1>3

LEMMA TimesIsCancelled ==
    ASSUME NEW x \in Int, NEW y \in Int, NEW k \in Nat \ {0}, x * k <= y * k
    PROVE  x <= y
  <1> SUFFICES ASSUME y + 1 <= x PROVE FALSE
    OBVIOUS
  <1>1. (y + 1) * k <= x * k
    BY TimesIsMonotone
  <1>2. (y + 1) * k = y * k + k
    OBVIOUS
  <1>3. x * k \in Int /\ y * k \in Int
    OBVIOUS
  <1> QED BY <1>1, <1>2, <1>3

LEMMA LeqIsTotal ==
    ASSUME NEW x \in Fractions, NEW y \in Fractions
    PROVE  Leq(x, y) \/ Leq(y, x)
  BY DEF Leq, Fractions

LEMMA LeqIsTransitive ==
    ASSUME NEW x \in Fractions, NEW y \in Fractions, NEW z \in Fractions, Leq(x, y), Leq(y, z)
    PROVE  Leq(x, z)
  <1>1. /\ x[1] \in Int /\ y[1] \in Int /\ z[1] \in Int
        /\ x[2] \in Nat \ {0} /\ y[2] \in Nat \ {0} /\ z[2] \in Nat \ {0}
    BY DEF Fractions
  <1> DEFINE xy == x[1] * y[2]
             yx == y[1] * x[2]
             yz == y[1] * z[2]
             zy == z[1] * y[2]
  <1>2. xy <= yx /\ yz <= zy /\ xy \in Int /\ yx \in Int /\ yz \in Int /\ zy \in Int
    BY <1>1 DEF Leq
  <1>3. xy * z[2] = (x[1] * z[2]) * y[2] /\ yx * z[2] = yz * x[2] /\ zy * x[2] = (z[1] * x[2]) * y[2]
    BY <1>1
  <1>4. x[1] * z[2] \in Int /\ z[1] * x[2] \in Int
    BY <1>1
  <1> HIDE DEF xy, yx, yz, zy
  <1>5. xy * z[2] <= yx * z[2] /\ yz * x[2] <= zy * x[2]
    BY <1>1, <1>2, TimesIsMonotone
  <1>6. /\ xy * z[2] \in Int /\ yx * z[2] \in Int /\ yz * x[2] \in Int /\ zy * x[2] \in Int
    BY <1>1, <1>2
  <1>7. (x[1] * z[2]) * y[2] <= (z[1] * x[2]) * y[2]
    BY <1>3, <1>5, <1>6
  <1>8. x[1] * z[2] <= z[1] * x[2]
    BY <1>1, <1>4, <1>7, TimesIsCancelled
  <1> QED BY <1>8 DEF Leq

LEMMA LeastIsBoth ==
    ASSUME NEW x \in Fractions, NEW y \in Fractions
    PROVE  Least(x, y) \in Fractions /\ Leq(Least(x, y), x) /\ Leq(Least(x, y), y)
  <1>1. Leq(x, x) /\ Leq(y, y)
    BY LeqIsTotal
  <1> QED BY <1>1, LeqIsTotal DEF Least

LEMMA BelowLeast ==
    ASSUME NEW x \in Fractions, NEW y \in Fractions, NEW z \in Fractions
    PROVE  Leq(z, Least(x, y)) <=> Leq(z, x) /\ Leq(z, y)
  <1>1. Leq(z, Least(x, y)) => Leq(z, x) /\ Leq(z, y)
    BY LeastIsBoth, LeqIsTransitive
  <1> QED BY <1>1 DEF Least

----------------------------------------------------------------------------
(* The cap, which the scorer and the database put on the same three counts. *)

Cap(earned, total, missing) ==
    IF missing = 0 THEN <<100, 1>>
    ELSE IF earned * 100 < Weights.min_coverage_for_cap * total
         THEN <<Weights.mandatory_gap_cap * earned * 100, Weights.min_coverage_for_cap * total>>
         ELSE <<Weights.mandatory_gap_cap, 1>>

LEMMA WeightsType ==
    /\ Weights.coverage \in Nat /\ Weights.level \in Nat /\ Weights.experience \in Nat
    /\ Weights.evidence_share \in Nat /\ Weights.semantic \in Nat
    /\ Weights.mandatory_gap_cap \in Nat /\ Weights.min_coverage_for_cap \in Nat
    /\ Weights.experience_taper_years \in Nat \ {0}
  BY WeightsAreNat

LEMMA CapType ==
    ASSUME NEW earned \in Nat, NEW total \in Nat, NEW missing \in Nat
    PROVE  /\ Cap(earned, total, missing) \in Fractions
           /\ missing # 0 => Leq(Cap(earned, total, missing), <<Weights.mandatory_gap_cap, 1>>)
  <1> DEFINE c == Weights.mandatory_gap_cap
             d == Weights.min_coverage_for_cap * total
  <1>1. c \in Nat /\ d \in Nat /\ earned * 100 \in Nat /\ c * (earned * 100) \in Nat
    BY WeightsType
  <1>2. c * earned * 100 = c * (earned * 100)
    BY <1>1
  <1>3. CASE missing # 0 /\ earned * 100 < d
    <2>1. Cap(earned, total, missing) = <<c * (earned * 100), d>>
      BY <1>2, <1>3 DEF Cap
    <2>2. d \in Nat \ {0}
      BY <1>1, <1>3
    <2> HIDE DEF c, d
    <2>3. (earned * 100) * c <= d * c
      BY <1>1, <1>3, TimesIsMonotone
    <2>4. (earned * 100) * c = c * (earned * 100) /\ d * c = c * d
      BY <1>1
    <2>5. Leq(<<c * (earned * 100), d>>, <<c, 1>>)
      BY <1>1, <2>3, <2>4 DEF Leq
    <2>6. <<c * (earned * 100), d>> \in Fractions
      BY <1>1, <2>2 DEF Fractions
    <2> QED BY <2>1, <2>5, <2>6 DEF c
  <1>4. CASE missing = 0
    BY <1>4 DEF Cap, Fractions
  <1>5. CASE missing # 0 /\ ~(earned * 100 < d)
    <2>1. Cap(earned, total, missing) = <<c, 1>>
      BY <1>5 DEF Cap
    <2>2. <<c, 1>> \in Fractions /\ Leq(<<c, 1>>, <<c, 1>>)
      BY <1>1 DEF Fractions, Leq
    <2> QED BY <2>1, <2>2
  <1> QED BY <1>3, <1>4, <1>5

\* What the database bounds a pair by, given the rows it found.
RawBound(earned, total) == <<Weights.coverage * earned + Headroom * total, total>>

LEMMA BoundOfHits ==
    ASSUME TypeOK, NEW j \in Jobs, NEW hits, hits \subseteq DOMAIN job[j].needs
    PROVE  LET earned == Importance(job[j].needs, hits)
               total == Importance(job[j].needs, DOMAIN job[j].needs)
               missing == Cardinality(Mandatory(job[j].needs) \ hits)
           IN BoundOf(j, hits) = Least(Least(<<100, 1>>, RawBound(earned, total)), Cap(earned, total, missing))
  <1> DEFINE earned == Importance(job[j].needs, hits)
             total == Importance(job[j].needs, DOMAIN job[j].needs)
             missing == Cardinality(Mandatory(job[j].needs) \ hits)
  <1>1. job[j] \in Vacancies
    BY DEF TypeOK
  <1>2. missing = Cardinality(Mandatory(job[j].needs)) - Cardinality(Mandatory(job[j].needs) \cap hits)
    BY <1>1, MissingByCount
  <1>3. BoundOf(j, hits) = Bound([earned |-> earned, total |-> total, missing |-> missing])
    BY <1>2 DEF BoundOf
  <1>4. earned \in Nat
    BY <1>1, SumsType
  <1> HIDE DEF earned, total, missing
  <1>5. 100 * earned = earned * 100
        /\ Weights.mandatory_gap_cap * 100 * earned = Weights.mandatory_gap_cap * earned * 100
    BY <1>4, WeightsType
  <1>6. Bound([earned |-> earned, total |-> total, missing |-> missing])
          = Least(Least(<<100, 1>>, RawBound(earned, total)), Cap(earned, total, missing))
    BY <1>5 DEF Bound, RawBound, Cap
  <1>7. BoundOf(j, hits) = Least(Least(<<100, 1>>, RawBound(earned, total)), Cap(earned, total, missing))
    BY <1>3, <1>6
  <1> QED BY <1>7 DEF earned, total, missing

LEMMA RawBoundType ==
    ASSUME NEW earned \in Nat, NEW total \in Nat \ {0}
    PROVE  RawBound(earned, total) \in Fractions
  BY WeightsType DEF RawBound, Headroom, Fractions

\* A pair with a mandatory row missing is not found above the cap, so whoever is
\* holds the row that any vacancy is probed through.
LEMMA AboveTheCap ==
    ASSUME TypeOK, NEW j \in Jobs, NEW hits, hits \subseteq DOMAIN job[j].needs, hits # {},
           NEW low \in Fractions, Leq(low, BoundOf(j, hits)),
           ~Leq(low, <<Weights.mandatory_gap_cap, 1>>)
    PROVE  Mandatory(job[j].needs) \subseteq hits
  <1> DEFINE earned == Importance(job[j].needs, hits)
             total == Importance(job[j].needs, DOMAIN job[j].needs)
             missing == Cardinality(Mandatory(job[j].needs) \ hits)
  <1>1. job[j] \in Vacancies
    BY DEF TypeOK
  <1>2. earned \in Nat /\ total \in Nat \ {0} /\ missing \in Nat
    <2>1. earned \in Nat /\ missing \in Nat
      BY <1>1, SumsType
    <2>2. total \in Nat /\ total > 0
      <3>1. DOMAIN job[j].needs # {}
        OBVIOUS
      <3> QED BY <1>1, <3>1, SumsType
    <2> QED BY <2>1, <2>2
  <1>3. BoundOf(j, hits) = Least(Least(<<100, 1>>, RawBound(earned, total)), Cap(earned, total, missing))
    BY BoundOfHits
  <1>4. IsFiniteSet(Mandatory(job[j].needs) \ hits)
    BY <1>1, NeedsType, FS_Subset DEF Mandatory
  <1>5. missing = 0 => Mandatory(job[j].needs) \ hits = {}
    BY <1>4, FS_EmptySet
  <1> HIDE DEF earned, total, missing
  <1> DEFINE c == <<Weights.mandatory_gap_cap, 1>>
  <1>6. <<100, 1>> \in Fractions /\ c \in Fractions
    BY WeightsType DEF Fractions
  <1>7. /\ RawBound(earned, total) \in Fractions
        /\ Cap(earned, total, missing) \in Fractions
        /\ missing # 0 => Leq(Cap(earned, total, missing), c)
    BY <1>2, RawBoundType, CapType
  <1>8. Leq(low, Cap(earned, total, missing))
    BY <1>3, <1>6, <1>7, LeastIsBoth, BelowLeast
  <1>9. missing = 0
    <2> HIDE DEF c
    <2>1. ~Leq(low, c)
      BY DEF c
    <2> QED BY <1>6, <1>7, <1>8, <2>1, LeqIsTransitive
  <1> QED BY <1>5, <1>9

\* Of the rows a vacancy demands, one is held by no more people than any other.
LEMMA AnchorExists ==
    ASSUME NEW people, IsFiniteSet(people), NEW M, M # {}
    PROVE  LET popularity(s) == Cardinality({p \in people : Key(s) \in HeldKeys(Held(p))})
           IN \E s \in M : \A t \in M : popularity(s) <= popularity(t)
  <1> DEFINE popularity(s) == Cardinality({p \in people : Key(s) \in HeldKeys(Held(p))})
             K == {popularity(s) : s \in M}
  <1>1. \A s \in M : popularity(s) \in Nat
    BY FS_Subset, FS_CardinalityType
  <1> HIDE DEF popularity
  <1>2. K \subseteq Nat /\ K # {}
    BY <1>1
  <1>3. PICK k \in K : \A i \in K : k <= i
    <2> HIDE DEF K
    <2> QED BY <1>2, LeastNatural
  <1>4. \E s \in M : \A t \in M : popularity(s) <= popularity(t)
    BY <1>3
  <1> QED BY <1>4 DEF popularity

LEMMA RoutesFindTheSame ==
    ASSUME TypeOK, NEW people, people \subseteq People, NEW low \in Fractions
    PROVE  BoundedPairs(people, low) = PairsFull(people, low)
  <1>1. CASE Leq(low, <<Weights.mandatory_gap_cap, 1>>)
    BY <1>1 DEF BoundedPairs
  <1>2. CASE ~Leq(low, <<Weights.mandatory_gap_cap, 1>>)
    <2> DEFINE popularity(s) == Cardinality({p \in people : Key(s) \in HeldKeys(Held(p))})
               M(j) == Mandatory(job[j].needs)
               anchor(j) == CHOOSE s \in M(j) : \A t \in M(j) : popularity(s) <= popularity(t)
               Probed(p, j) == IF M(j) = {} THEN KeyHits(j, p) # {} ELSE Key(anchor(j)) \in HeldKeys(Held(p))
    <2>1. \A j \in Jobs : M(j) # {} => anchor(j) \in M(j)
      <3> SUFFICES ASSUME NEW j \in Jobs, M(j) # {} PROVE anchor(j) \in M(j)
        OBVIOUS
      <3>1. IsFiniteSet(people)
        BY PeopleAndJobsAreFinite, FS_Subset
      <3>2. \A N : N # {} => \E s \in N : \A t \in N : popularity(s) <= popularity(t)
        BY <3>1, AnchorExists, Zenon
      <3> HIDE DEF popularity, M
      <3> QED BY <3>2
    <2>2. PairsAnchored(people, low)
            = {pair \in {q \in people \X {j \in Jobs : Open(j)} : Probed(q[1], q[2])} :
                 Leq(low, BoundOf(pair[2], KeyHits(pair[2], pair[1])))}
      BY DEF PairsAnchored
    <2>3. PairsFull(people, low)
            = {pair \in people \X {j \in Jobs : Open(j)} :
                 KeyHits(pair[2], pair[1]) # {} /\ Leq(low, BoundOf(pair[2], KeyHits(pair[2], pair[1])))}
      BY DEF PairsFull
    <2>4. \A j \in Jobs : M(j) \subseteq DOMAIN job[j].needs
      BY DEF Mandatory
    <2> HIDE DEF anchor, M
    <2>5. ASSUME NEW p \in people, NEW j \in Jobs, Leq(low, BoundOf(j, KeyHits(j, p)))
          PROVE  Probed(p, j) <=> KeyHits(j, p) # {}
      <3>1. Probed(p, j) => KeyHits(j, p) # {}
        BY <2>1, <2>4 DEF KeyHits
      <3>2. ASSUME KeyHits(j, p) # {} PROVE Probed(p, j)
        <4>1. M(j) \subseteq KeyHits(j, p)
          BY <1>2, <2>5, <3>2, AboveTheCap DEF KeyHits, M
        <4> QED BY <2>1, <3>2, <4>1 DEF KeyHits
      <3> QED BY <3>1, <3>2
    <2> HIDE DEF Probed
    <2>6. PairsAnchored(people, low) = PairsFull(people, low)
      BY <2>2, <2>3, <2>5
    <2> QED BY <1>2, <2>6 DEF BoundedPairs
  <1> QED BY <1>1, <1>2
----------------------------------------------------------------------------
(* What the database takes as full marks.                                   *)

LEMMA MaxOfTwo ==
    ASSUME NEW n \in Int
    PROVE  Max({0, n}) = IF n > 0 THEN n ELSE 0
  <1> DEFINE m == IF n > 0 THEN n ELSE 0
  <1>1. m \in {0, n} /\ \A y \in {0, n} : m >= y
    OBVIOUS
  <1>2. \A x \in {0, n} : (\A y \in {0, n} : x >= y) => x = m
    OBVIOUS
  <1> QED BY <1>1, <1>2 DEF Max

\* Of two embeddings, as a share of full marks.
LEMMA SimilarityBounds ==
    ASSUME NEW x \in Vectors \cup {None}, NEW y \in Vectors \cup {None}
    PROVE  Similarity(x, y) \in 0..20
  <1>1. CASE x \in Vectors /\ y \in Vectors
    <2> DEFINE n == Cosine[<<x, y>>]
    <2>1. n \in Int /\ n <= 20
      BY <1>1, CosinesAreBounded
    <2> HIDE DEF n
    <2>2. Max({0, n}) \in 0..20
      BY <2>1, MaxOfTwo
    <2>3. Similarity(x, y) = 0 \/ Similarity(x, y) = Max({0, n})
      BY DEF Similarity, n
    <2> QED BY <2>2, <2>3
  <1>2. CASE x = None \/ y = None
    BY <1>2 DEF Similarity
  <1> QED BY <1>1, <1>2

\* A finite set of naturals that is not empty has a greatest.
LEMMA MaxIsIn ==
    ASSUME NEW S, S \subseteq Nat, S # {}, IsFiniteSet(S)
    PROVE  Max(S) \in S
  <1> DEFINE B == {T \in SUBSET S : T # {} /\ ~ \E m \in T : \A n \in T : m >= n}
  <1>1. ASSUME NEW T \in B PROVE \E x \in T : T \ {x} \in B
    <2>1. PICK x \in T : TRUE
      OBVIOUS
    <2>2. T \ {x} # {}
      <3> SUFFICES ASSUME T \ {x} = {} PROVE FALSE
        OBVIOUS
      <3>1. T = {x} /\ x \in Nat
        BY <2>1
      <3>2. \A n \in T : x >= n
        BY <3>1
      <3> QED BY <2>1, <3>2
    <2>3. ASSUME NEW m \in T \ {x}, \A n \in T \ {x} : m >= n
          PROVE  FALSE
      <3>1. \A n \in T : n \in Nat
        OBVIOUS
      <3>2. CASE m >= x
        <4>1. \A n \in T : m >= n
          BY <2>3, <3>2
        <4> QED BY <4>1
      <3>3. CASE ~(m >= x)
        <4>1. \A n \in T : x >= n
          BY <2>1, <2>3, <3>1, <3>3
        <4> QED BY <2>1, <4>1
      <3> QED BY <3>2, <3>3
    <2>4. T \ {x} \in B
      BY <2>2, <2>3
    <2> QED BY <2>1, <2>4
  <1>2. B = {}
    <2>1. B \subseteq SUBSET S
      OBVIOUS
    <2> HIDE DEF B
    <2> QED BY <1>1, <2>1, Descent
  <1>3. \E m \in S : \A n \in S : m >= n
    BY <1>2
  <1> QED BY <1>3 DEF Max

LEMMA LevelBounds ==
    ASSUME NEW v \in Vacancies, NEW held
    PROVE  LevelPoints(v.floor, AttainedLevels(v.needs, held)) \in 0..40
  <1> DEFINE levels == AttainedLevels(v.needs, held)
             found == {s \in Hits(v.needs, held) : Level[s] # None}
  <1>1. found \subseteq Rows /\ IsFiniteSet(found)
    BY NeedsType, FS_Subset DEF Hits
  <1>2. levels = {Level[s] : s \in found}
    BY DEF AttainedLevels
  <1>3. levels \subseteq Nat
    BY <1>1, <1>2, LevelsAreNat
  <1>4. IsFiniteSet(levels)
    <2> DEFINE f == [s \in found |-> Level[s]]
    <2>1. f \in Surjection(found, levels)
      BY <1>2 DEF Surjection
    <2> HIDE DEF f, found, levels
    <2> QED BY <1>1, <2>1, FS_Surjection
  <1> HIDE DEF levels
  <1>5. CASE v.floor = None \/ levels = {}
    BY <1>5 DEF LevelPoints, levels
  <1>6. CASE v.floor # None /\ levels # {}
    <2>1. v.floor \in Nat /\ Max(levels) \in Nat
      BY <1>3, <1>4, <1>6, NeedsType, MaxIsIn
    <2> DEFINE short == Max({0, v.floor - Max(levels)})
    <2>2. short \in Nat
      BY <2>1, MaxOfTwo
    <2>3. LevelPoints(v.floor, levels) = Max({0, 40 - 5 * short})
      BY <1>6 DEF LevelPoints
    <2> HIDE DEF short
    <2>4. 40 - 5 * short \in Int
      BY <2>2
    <2>5. Max({0, 40 - 5 * short}) = IF 40 - 5 * short > 0 THEN 40 - 5 * short ELSE 0
      BY <2>4, MaxOfTwo
    <2> QED BY <2>2, <2>3, <2>5 DEF levels
  <1> QED BY <1>5, <1>6 DEF levels

LEMMA YearsBounds ==
    ASSUME NEW wanted \in Nat, NEW years \in Nat
    PROVE  YearsPoints(wanted, years) \in 0..Weights.experience_taper_years
  <1> DEFINE short == Max({0, wanted - years})
             t == Weights.experience_taper_years
  <1>1. short \in Nat
    BY MaxOfTwo
  <1>2. t \in Nat
    BY WeightsType
  <1>3. YearsPoints(wanted, years) = Max({0, t - short})
    BY DEF YearsPoints
  <1> HIDE DEF short, t
  <1>4. t - short \in Int
    BY <1>1, <1>2
  <1>5. Max({0, t - short}) = IF t - short > 0 THEN t - short ELSE 0
    BY <1>4, MaxOfTwo
  <1> QED BY <1>1, <1>2, <1>3, <1>5 DEF t

LEMMA EvidenceBounds ==
    ASSUME NEW c \in Candidates, NEW order \in Orders(c.held),
           NEW rows, IsFiniteSet(rows), \A s \in rows : Key(s) \in HeldKeys(c.held)
    PROVE  Evidence(c.held, order, rows) \in Nat
           /\ Evidence(c.held, order, rows) <= 20 * Cardinality(rows)
  <1> DEFINE w == [s \in rows |-> EVIDENCE_WEIGHT[c.held[order[Key(s)]]]]
  <1>1. \A e \in Sources : EVIDENCE_WEIGHT[e] \in Nat /\ EVIDENCE_WEIGHT[e] <= 20
    BY DEF Sources, EVIDENCE_WEIGHT
  <1>2. \A s \in rows : order[Key(s)] \in DOMAIN c.held
    BY DEF Orders
  <1>3. \A s \in rows : w[s] \in Nat /\ w[s] <= 20
    BY <1>1, <1>2, HeldType
  <1>4. Evidence(c.held, order, rows) = Total(w, rows)
    BY DEF Evidence
  <1> HIDE DEF w
  <1>5. Total(w, rows) \in Nat /\ Total(w, rows) <= 20 * Cardinality(rows)
    BY <1>3, TotalBounds
  <1> QED BY <1>4, <1>5

\* Each part of a weighted score is at most its weight.
LEMMA WeightedBelowFullMarks ==
    ASSUME NEW f, f.earned \in Nat, f.total \in Nat \ {0}, f.matched \in Nat \ {0},
           f.level \in 0..40, f.years \in 0..Weights.experience_taper_years,
           f.evidence \in Nat, f.evidence <= 20 * f.matched, f.similar \in 0..20
    PROVE  /\ Weighted(f) \in Fractions
           /\ Leq(Weighted(f), RawBound(f.earned, f.total))
  <1> DEFINE t == Weights.experience_taper_years
             tm == f.total * f.matched
             tt == f.total * t
             a == Weights.level * (tm * t)
             b == Weights.experience * (tm * 40)
             c == Weights.evidence_share * (2 * tt)
             d == Weights.semantic * (2 * (tm * t))
             e == Weights.coverage * f.earned * (f.matched * 40 * t)
             under == tm * 40 * t
             full == e + (Weights.level + Weights.experience + Weights.evidence_share + Weights.semantic) * under
  <1>1. /\ t \in Nat \ {0} /\ Weights.coverage \in Nat /\ Weights.level \in Nat /\ Weights.experience \in Nat
        /\ Weights.evidence_share \in Nat /\ Weights.semantic \in Nat
    BY WeightsType
  <1>2. f.level \in Nat /\ f.level <= 40 /\ f.years \in Nat /\ f.years <= t
        /\ f.similar \in Nat /\ f.similar <= 20
    BY <1>1
  <1> HIDE DEF t
  <1>3. tm \in Nat \ {0} /\ tt \in Nat
    BY <1>1
  <1>4. tm * t \in Nat \ {0} /\ tm * 40 \in Nat
    <2> HIDE DEF tm
    <2> QED BY <1>1, <1>3
  <1>5. a \in Nat /\ b \in Nat /\ c \in Nat /\ d \in Nat
    <2> HIDE DEF tm, tt
    <2>1. 2 * tt \in Nat /\ 2 * (tm * t) \in Nat
      BY <1>3, <1>4
    <2> QED BY <1>1, <1>4, <2>1
  <1>6. f.level * a <= 40 * a /\ f.years * b <= t * b
        /\ f.evidence * c <= (20 * f.matched) * c /\ f.similar * d <= 20 * d
    <2> HIDE DEF a, b, c, d
    <2>1. 20 * f.matched \in Int /\ t \in Int
      BY <1>1
    <2> QED BY <1>2, <1>5, <2>1, TimesIsMonotone
  <1>7. /\ 40 * a = Weights.level * under
        /\ t * b = Weights.experience * under
        /\ (20 * f.matched) * c = Weights.evidence_share * under
        /\ 20 * d = Weights.semantic * under
    BY <1>1
  <1>8. Weighted(f) = <<e + f.level * a + f.years * b + f.evidence * c + f.similar * d, under>>
    <2>1. /\ Weights.level * f.level * (f.total * f.matched * t) = f.level * a
          /\ Weights.experience * f.years * (f.total * f.matched * 40) = f.years * b
          /\ Weights.evidence_share * f.evidence * (2 * f.total * t) = f.evidence * c
          /\ Weights.semantic * f.similar * (2 * f.total * f.matched * t) = f.similar * d
      BY <1>1, <1>2
    <2> QED BY <2>1 DEF Weighted, t
  <1>9. e \in Nat
    <2>1. Weights.coverage * f.earned \in Nat /\ f.matched * 40 * t \in Nat
      BY <1>1
    <2> QED BY <2>1
  <1>10. under \in Nat \ {0}
    <2> HIDE DEF tm
    <2>1. under = 40 * (tm * t)
      BY <1>1, <1>3
    <2> QED BY <1>4, <2>1
  <1> DEFINE w == e + f.level * a + f.years * b + f.evidence * c + f.similar * d
             h == Weights.level + Weights.experience + Weights.evidence_share + Weights.semantic
  <1>11. w \in Nat /\ w <= e + h * under
    <2> HIDE DEF a, b, c, d, e, under
    <2>1. h * under = Weights.level * under + Weights.experience * under
                        + Weights.evidence_share * under + Weights.semantic * under
      BY <1>1, <1>10
    <2>2. /\ f.level * a \in Nat /\ f.years * b \in Nat /\ f.evidence * c \in Nat /\ f.similar * d \in Nat
          /\ Weights.level * under \in Nat /\ Weights.experience * under \in Nat
          /\ Weights.evidence_share * under \in Nat /\ Weights.semantic * under \in Nat
      BY <1>1, <1>2, <1>5, <1>10
    <2> HIDE DEF h
    <2> QED BY <1>6, <1>7, <1>9, <2>1, <2>2
  <1>12. h \in Nat
    BY <1>1
  <1>13. (e + h * under) * f.total = (Weights.coverage * f.earned + h * f.total) * under
    <2> DEFINE g == Weights.coverage * f.earned
    <2>1. g \in Nat
      BY <1>1
    <2>2. e * f.total = g * under
      <3> HIDE DEF g
      <3>1. e = g * (f.matched * 40 * t)
        BY DEF g
      <3> QED BY <1>1, <2>1, <3>1
    <2>3. (e + h * under) * f.total = e * f.total + (h * f.total) * under
      <3> HIDE DEF e, h, under
      <3> QED BY <1>9, <1>10, <1>12
    <2>4. (g + h * f.total) * under = g * under + (h * f.total) * under
      <3> HIDE DEF g, h, under
      <3> QED BY <1>10, <1>12, <2>1
    <2> QED BY <2>2, <2>3, <2>4
  <1>14. Weighted(f) \in Fractions
    <2> HIDE DEF w, under
    <2> QED BY <1>8, <1>10, <1>11 DEF Fractions, w
  <1>15. w * f.total <= (e + h * under) * f.total
    <2>1. e + h * under \in Int
      <3> HIDE DEF e, h, under
      <3> QED BY <1>9, <1>10, <1>12
    <2> HIDE DEF w, e, h, under
    <2> QED BY <1>11, <2>1, TimesIsMonotone
  <1>16. w * f.total <= (Weights.coverage * f.earned + h * f.total) * under
    <2> HIDE DEF w, e, h, under
    <2> QED BY <1>13, <1>15
  <1>17. RawBound(f.earned, f.total) = <<Weights.coverage * f.earned + h * f.total, f.total>>
    BY DEF RawBound, Headroom
  <1>18. Weighted(f) = <<w, under>>
    BY <1>8
  <1> HIDE DEF w, e, h, under
  <1>19. Leq(Weighted(f), RawBound(f.earned, f.total))
    BY <1>16, <1>17, <1>18 DEF Leq
  <1> QED BY <1>14, <1>19

\* What holds of any vacancy and any candidate who have a standard in common.
LEMMA BoundHolds ==
    ASSUME TypeOK, NEW j \in Jobs, NEW p \in People,
           Hits(job[j].needs, Held(p)) # {}, NEW order \in Orders(Held(p))
    PROVE  LET raw == Raw(Facts(job[j], person[p], order))
               bound == BoundOf(j, JobHits(j, p))
           IN raw \in Fractions /\ bound \in Fractions /\ Leq(raw, bound)
  <1> DEFINE hits == Hits(job[j].needs, Held(p))
             earned == Importance(job[j].needs, hits)
             total == Importance(job[j].needs, DOMAIN job[j].needs)
             missing == Cardinality(Mandatory(job[j].needs) \ hits)
             f == Facts(job[j], person[p], order)
  <1>1. job[j] \in Vacancies /\ person[p] \in Candidates
    BY DEF TypeOK
  <1>2. hits \subseteq DOMAIN job[j].needs /\ hits # {}
        /\ \A s \in hits : Key(s) \in HeldKeys(Held(p))
    BY DEF Hits
  <1>3. IsFiniteSet(hits) /\ Cardinality(hits) \in Nat \ {0}
    <2>1. IsFiniteSet(hits) /\ Cardinality(hits) \in Nat
      BY <1>1, <1>2, SumsType
    <2>2. Cardinality(hits) # 0
      BY <1>2, <2>1, FS_EmptySet
    <2> QED BY <2>1, <2>2
  <1>4. earned \in Nat /\ missing \in Nat
    BY <1>1, <1>2, SumsType
  <1>5. total \in Nat \ {0}
    <2>1. DOMAIN job[j].needs # {}
      BY <1>2
    <2>2. total \in Nat /\ total > 0
      BY <1>1, <2>1, SumsType
    <2> QED BY <2>2
  <1>6. BoundOf(j, JobHits(j, p)) = Least(Least(<<100, 1>>, RawBound(earned, total)), Cap(earned, total, missing))
    <2>1. JobHits(j, p) = hits
      BY QueriesFindHits
    <2> QED BY <1>2, <2>1, BoundOfHits
  <1>7. /\ f.earned = earned /\ f.total = total /\ f.missing = missing /\ f.matched = Cardinality(hits)
        /\ f.evidence = Evidence(Held(p), order, hits)
        /\ f.level = LevelPoints(job[j].floor, AttainedLevels(job[j].needs, Held(p)))
        /\ f.years = YearsPoints(job[j].years, person[p].years)
        /\ f.similar = Similarity(job[j].embedding, person[p].embedding)
    BY DEF Facts, Held
  <1>8. f.level \in 0..40
    BY <1>1, <1>7, LevelBounds
  <1>9. f.years \in 0..Weights.experience_taper_years
    BY <1>1, <1>7, YearsBounds, NeedsType, HeldType
  <1>10. f.evidence \in Nat /\ f.evidence <= 20 * f.matched
    <2> HIDE DEF hits, f
    <2>1. Evidence(Held(p), order, hits) \in Nat
          /\ Evidence(Held(p), order, hits) <= 20 * Cardinality(hits)
      BY <1>1, <1>2, <1>3, EvidenceBounds DEF Held
    <2> QED BY <1>7, <2>1
  <1>11. f.similar \in 0..20
    <2>1. job[j].embedding \in Vectors \cup {None} /\ person[p].embedding \in Vectors \cup {None}
      BY <1>1, NeedsType DEF Candidates
    <2> QED BY <1>7, <2>1, SimilarityBounds
  <1>12. EffectiveCap(f) = Cap(earned, total, missing)
    <2> HIDE DEF f, earned, total, missing
    <2> QED BY <1>7 DEF EffectiveCap, Cap
  <1> HIDE DEF f, earned, total, missing, hits
  <1>13. Weighted(f) \in Fractions /\ Leq(Weighted(f), RawBound(earned, total))
    BY <1>3, <1>4, <1>5, <1>7, <1>8, <1>9, <1>10, <1>11, WeightedBelowFullMarks
  <1> DEFINE one == <<100, 1>>
             c == Cap(earned, total, missing)
             r == RawBound(earned, total)
             w == Weighted(f)
  <1>14. one \in Fractions /\ c \in Fractions /\ r \in Fractions /\ w \in Fractions /\ Leq(w, r)
    <2>1. one \in Fractions
      BY DEF Fractions
    <2>2. c \in Fractions
      BY <1>4, <1>5, CapType
    <2>3. r \in Fractions
      BY <1>4, <1>5, RawBoundType
    <2> QED BY <1>13, <2>1, <2>2, <2>3
  <1>15. Raw(f) = Least(Least(w, one), c)
    BY <1>12 DEF Raw
  <1> HIDE DEF one, c, r, w
  <1> DEFINE x == Least(Least(w, one), c)
  <1>16. Least(w, one) \in Fractions /\ Least(one, r) \in Fractions
    BY <1>14, LeastIsBoth
  <1>17. x \in Fractions /\ Leq(x, Least(w, one)) /\ Leq(x, c)
    BY <1>14, <1>16, LeastIsBoth
  <1> HIDE DEF x
  <1>18. Leq(x, w) /\ Leq(x, one)
    BY <1>14, <1>17, BelowLeast
  <1>19. Leq(x, r)
    BY <1>14, <1>17, <1>18, LeqIsTransitive
  <1>20. Least(Least(one, r), c) \in Fractions /\ Leq(x, Least(Least(one, r), c))
    BY <1>14, <1>16, <1>17, <1>18, <1>19, LeastIsBoth, BelowLeast
  <1>21. Raw(f) \in Fractions /\ BoundOf(j, JobHits(j, p)) \in Fractions
         /\ Leq(Raw(f), BoundOf(j, JobHits(j, p)))
    BY <1>6, <1>15, <1>17, <1>20 DEF one, c, r, x
  <1> QED BY <1>21 DEF f
----------------------------------------------------------------------------
(* What the database finds for one candidate, and in which order.           *)

FoundFor(p) == {j \in BoundedJobs(p) : Leq(MinBound(MinScore), BoundOf(j, KeyHits(j, p)))}
Prior(p, k, j) == Before(BoundOf(k, KeyHits(k, p)), k, BoundOf(j, KeyHits(j, p)), j)
Above(p, j) == {k \in FoundFor(p) : Prior(p, k, j)}
Rank(p, j) == 1 + Cardinality(Above(p, j))

\* A score is rounded by half a point at the most.
LEMMA RoundedIsNear ==
    ASSUME NEW x \in Fractions, NEW n \in Nat, Rounded(x) >= n
    PROVE  Leq(MinBound(n), x)
  <1> DEFINE a == x[1]
             b == x[2]
             down == a \div b
             m == a % b
  <1>1. a \in Int /\ b \in Nat \ {0}
    BY DEF Fractions
  <1> HIDE DEF a, b
  <1>2. /\ down \in Int /\ m \in Int
        /\ a = b * down + m
        /\ 0 <= m /\ m < b
    BY <1>1
  <1>3. Rounded(x) = IF 2 * m < b \/ (2 * m = b /\ down % 2 = 0) THEN down ELSE down + 1
    BY DEF Rounded, a, b
  <1> HIDE DEF down, m
  <1>4. down >= n \/ (down + 1 >= n /\ 2 * m >= b)
    BY <1>1, <1>2, <1>3
  <1>5. n * b \in Int /\ down * b \in Int /\ b * down = down * b
        /\ (n - 1) * b = n * b - b /\ (2 * n - 1) * b = 2 * (n * b) - b
    BY <1>1, <1>2
  <1>6. CASE down >= n
    <2>1. n * b <= down * b
      BY <1>1, <1>2, <1>6, TimesIsMonotone
    <2>2. (2 * n - 1) * b <= a * 2
      BY <1>1, <1>2, <1>5, <2>1
    <2> QED BY <2>2 DEF Leq, MinBound, a, b
  <1>7. CASE down + 1 >= n /\ 2 * m >= b
    <2>1. n - 1 \in Int /\ n - 1 <= down
      BY <1>2, <1>7
    <2>2. (n - 1) * b <= down * b
      BY <1>1, <1>2, <2>1, TimesIsMonotone
    <2>3. (2 * n - 1) * b <= a * 2
      BY <1>1, <1>2, <1>5, <1>7, <2>2
    <2> QED BY <2>3 DEF Leq, MinBound, a, b
  <1> QED BY <1>4, <1>6, <1>7

\* A candidate's rows can always be read in some order.
LEMMA OrdersExist ==
    ASSUME NEW held
    PROVE  Orders(held) # {}
  <1> DEFINE order == [k \in HeldKeys(held) |-> CHOOSE h \in DOMAIN held : Key(h) = k]
  <1>1. \A k \in HeldKeys(held) : order[k] \in DOMAIN held /\ Key(order[k]) = k
    BY DEF HeldKeys
  <1>2. order \in Orders(held)
    BY <1>1 DEF Orders
  <1> QED BY <1>2

LEMMA BoundIsFraction ==
    ASSUME TypeOK, NEW j \in Jobs, NEW p \in People, KeyHits(j, p) # {}
    PROVE  BoundOf(j, KeyHits(j, p)) \in Fractions
  <1>1. KeyHits(j, p) = JobHits(j, p) /\ Hits(job[j].needs, Held(p)) # {}
    BY QueriesFindHits
  <1>2. PICK order \in Orders(Held(p)) : TRUE
    BY OrdersExist
  <1> QED BY <1>1, <1>2, BoundHolds

LEMMA MinBoundType ==
    ASSUME NEW score \in Nat
    PROVE  MinBound(score) \in Fractions
  BY DEF MinBound, Fractions

\* A serious match is among what is found: it is not lost to the bound.
LEMMA SeriousIsFound ==
    ASSUME TypeOK, NEW p \in People, NEW j \in BoundedJobs(p), NEW order \in Orders(Held(p)),
           Serious(p, j, order)
    PROVE  j \in FoundFor(p)
  <1>1. j \in Jobs /\ JobHits(j, p) # {}
    BY DEF BoundedJobs
  <1>2. Hits(job[j].needs, Held(p)) # {} /\ JobHits(j, p) = KeyHits(j, p)
    BY <1>1, QueriesFindHits
  <1> DEFINE raw == Raw(Facts(job[j], person[p], order))
             bound == BoundOf(j, JobHits(j, p))
  <1>3. raw \in Fractions /\ bound \in Fractions /\ Leq(raw, bound)
    BY <1>1, <1>2, BoundHolds
  <1>4. Rounded(raw) >= MinScore
    BY <1>2 DEF Serious, Score, Held
  <1> HIDE DEF raw, bound
  <1>5. MinScore \in Nat
    BY MinScoreIsPositive
  <1>6. Leq(MinBound(MinScore), raw) /\ MinBound(MinScore) \in Fractions
    BY <1>3, <1>4, <1>5, RoundedIsNear, MinBoundType
  <1>7. Leq(MinBound(MinScore), bound)
    BY <1>3, <1>6, LeqIsTransitive
  <1> QED BY <1>2, <1>7 DEF FoundFor, bound

\* The order of what is found leaves no two undecided.
LEMMA PriorIsAnOrder ==
    ASSUME TypeOK, NEW p \in People, NEW i \in BoundedJobs(p), NEW j \in BoundedJobs(p), NEW k \in BoundedJobs(p)
    PROVE  /\ ~Prior(p, i, i)
           /\ i = j \/ Prior(p, i, j) \/ Prior(p, j, i)
           /\ Prior(p, i, j) /\ Prior(p, j, k) => Prior(p, i, k)
           /\ Prior(p, i, j) => Leq(BoundOf(j, KeyHits(j, p)), BoundOf(i, KeyHits(i, p)))
  <1> DEFINE x == BoundOf(i, KeyHits(i, p))
             y == BoundOf(j, KeyHits(j, p))
             z == BoundOf(k, KeyHits(k, p))
  <1>1. BoundedJobs(p) \subseteq Jobs /\ Jobs \subseteq Nat
    BY IdsAreNat DEF BoundedJobs
  <1>2. \A g \in BoundedJobs(p) : KeyHits(g, p) # {}
    BY QueriesFindHits DEF BoundedJobs
  <1>3. x \in Fractions /\ y \in Fractions /\ z \in Fractions
    BY <1>1, <1>2, BoundIsFraction
  <1>4. i \in Nat /\ j \in Nat /\ k \in Nat
    BY <1>1
  <1>5. /\ Prior(p, i, i) <=> Before(x, i, x, i)
        /\ Prior(p, i, j) <=> Before(x, i, y, j)
        /\ Prior(p, j, i) <=> Before(y, j, x, i)
        /\ Prior(p, j, k) <=> Before(y, j, z, k)
        /\ Prior(p, i, k) <=> Before(x, i, z, k)
    BY DEF Prior
  <1> HIDE DEF x, y, z
  <1>6. /\ Leq(x, x) /\ (Leq(x, y) \/ Leq(y, x)) /\ (Leq(x, z) \/ Leq(z, x)) /\ (Leq(y, z) \/ Leq(z, y))
        /\ Leq(x, y) /\ Leq(y, z) => Leq(x, z)
        /\ Leq(x, z) /\ Leq(z, y) => Leq(x, y)
        /\ Leq(y, x) /\ Leq(x, z) => Leq(y, z)
        /\ Leq(z, y) /\ Leq(y, x) => Leq(z, x)
    BY <1>3, LeqIsTotal, LeqIsTransitive
  <1>7. ~Before(x, i, x, i)
    BY <1>4, <1>6 DEF Before
  <1>8. i = j \/ Before(x, i, y, j) \/ Before(y, j, x, i)
    BY <1>4, <1>6 DEF Before
  <1>9. Before(x, i, y, j) /\ Before(y, j, z, k) => Before(x, i, z, k)
    BY <1>4, <1>6 DEF Before
  <1>10. Before(x, i, y, j) => Leq(y, x)
    BY <1>6 DEF Before
  <1> QED BY <1>5, <1>7, <1>8, <1>9, <1>10 DEF x, y

LEMMA RankType ==
    ASSUME NEW p \in People, NEW j
    PROVE  /\ IsFiniteSet(FoundFor(p)) /\ IsFiniteSet(Above(p, j))
           /\ Cardinality(Above(p, j)) \in Nat
           /\ Rank(p, j) \in Nat \ {0}
  <1>1. IsFiniteSet(FoundFor(p))
    BY PeopleAndJobsAreFinite, FS_Subset DEF FoundFor, BoundedJobs
  <1>2. IsFiniteSet(Above(p, j)) /\ Cardinality(Above(p, j)) \in Nat
    BY <1>1, FS_Subset, FS_CardinalityType DEF Above
  <1> QED BY <1>1, <1>2 DEF Rank

\* Whatever comes before another has a lower rank.
LEMMA RankIsStrict ==
    ASSUME TypeOK, NEW p \in People, NEW j \in FoundFor(p), NEW k \in FoundFor(p), Prior(p, k, j)
    PROVE  Rank(p, k) < Rank(p, j)
  <1>1. FoundFor(p) \subseteq BoundedJobs(p)
    BY DEF FoundFor
  <1>2. Above(p, k) \subseteq Above(p, j)
    BY <1>1, PriorIsAnOrder DEF Above
  <1>3. k \in Above(p, j) /\ k \notin Above(p, k)
    BY <1>1, PriorIsAnOrder DEF Above
  <1>4. IsFiniteSet(Above(p, j)) /\ Cardinality(Above(p, j)) \in Nat /\ Cardinality(Above(p, k)) \in Nat
    BY RankType
  <1>5. Cardinality(Above(p, k)) < Cardinality(Above(p, j))
    BY <1>2, <1>3, <1>4, FS_Subset
  <1> QED BY <1>4, <1>5 DEF Rank

LEMMA RankIsInjective ==
    ASSUME TypeOK, NEW p \in People, NEW j \in FoundFor(p), NEW k \in FoundFor(p), Rank(p, j) = Rank(p, k)
    PROVE  j = k
  <1>1. j \in BoundedJobs(p) /\ k \in BoundedJobs(p)
    BY DEF FoundFor
  <1>2. Rank(p, j) \in Nat /\ Rank(p, k) \in Nat
    BY RankType
  <1> QED BY <1>1, <1>2, PriorIsAnOrder, RankIsStrict

\* Nor is a rank left out below another.
LEMMA RanksAreContiguous ==
    ASSUME TypeOK, NEW p \in People, NEW n \in Nat \ {0}, NEW j \in FoundFor(p), n <= Rank(p, j)
    PROVE  \E k \in FoundFor(p) : Rank(p, k) = n
  <1> DEFINE K == {Rank(p, k) : k \in {i \in FoundFor(p) : n <= Rank(p, i)}}
  <1>1. K \subseteq Nat /\ K # {}
    BY RankType
  <1>2. PICK r \in K : \A i \in K : r <= i
    <2> HIDE DEF K
    <2> QED BY <1>1, LeastNatural
  <1>3. PICK k \in FoundFor(p) : Rank(p, k) = r /\ n <= Rank(p, k)
    BY <1>2
  <1>4. \A i \in FoundFor(p) : n <= Rank(p, i) => Rank(p, k) <= Rank(p, i)
    BY <1>2, <1>3
  <1>5. Rank(p, k) = n
    <2> SUFFICES ASSUME n < Rank(p, k) PROVE FALSE
      BY <1>3, RankType
    <2> DEFINE f == [i \in Above(p, k) |-> Rank(p, i)]
    <2>1. ASSUME NEW i \in Above(p, k) PROVE Rank(p, i) \in 1..(n - 1)
      <3>1. i \in FoundFor(p) /\ Prior(p, i, k)
        BY DEF Above
      <3>2. Rank(p, i) < Rank(p, k) /\ Rank(p, i) \in Nat \ {0} /\ Rank(p, k) \in Nat
        BY <3>1, RankIsStrict, RankType
      <3> QED BY <1>4, <3>1, <3>2
    <2>2. f \in Injection(Above(p, k), 1..(n - 1))
      <3>1. \A i, g \in Above(p, k) : f[i] = f[g] => i = g
        BY RankIsInjective DEF Above
      <3>2. f \in [Above(p, k) -> 1..(n - 1)]
        BY <2>1
      <3> HIDE DEF f
      <3>3. DOMAIN f = Above(p, k)
        BY <3>2
      <3> QED BY <3>1, <3>2, <3>3 DEF Injection, IsInjective
    <2>3. IsFiniteSet(1..(n - 1)) /\ Cardinality(1..(n - 1)) = n - 1
      BY FS_Interval
    <2>4. Cardinality(Above(p, k)) <= n - 1
      <3> HIDE DEF f
      <3> QED BY <2>2, <2>3, FS_Injection
    <2>5. Cardinality(Above(p, k)) \in Nat
      BY RankType
    <2> QED BY <2>4, <2>5 DEF Rank
  <1> QED BY <1>5

\* Nothing found is preceded by what is not found, so the rank is the same among
\* all that a candidate has a standard in common with.
LEMMA RankAmongAll ==
    ASSUME TypeOK, NEW p \in People, NEW j \in FoundFor(p)
    PROVE  j \in BestJobs(p) <=> Rank(p, j) <= RETRIEVAL_LIMIT
  <1> DEFINE bound == [k \in BoundedJobs(p) |-> BoundOf(k, JobHits(k, p))]
             prior == {k \in BoundedJobs(p) : Before(bound[k], k, bound[j], j)}
  <1>1. j \in BoundedJobs(p)
    BY DEF FoundFor
  <1>2. \A k \in BoundedJobs(p) : bound[k] = BoundOf(k, KeyHits(k, p))
    BY QueriesFindHits DEF BoundedJobs
  <1>3. prior = {k \in BoundedJobs(p) : Prior(p, k, j)}
    BY <1>1, <1>2 DEF Prior
  <1>4. ASSUME NEW k \in BoundedJobs(p), Prior(p, k, j)
        PROVE  k \in FoundFor(p)
    <2>1. /\ MinBound(MinScore) \in Fractions
          /\ BoundOf(j, KeyHits(j, p)) \in Fractions /\ BoundOf(k, KeyHits(k, p)) \in Fractions
      BY <1>1, MinScoreIsPositive, MinBoundType, BoundIsFraction, QueriesFindHits DEF BoundedJobs
    <2>2. Leq(MinBound(MinScore), BoundOf(j, KeyHits(j, p)))
          /\ Leq(BoundOf(j, KeyHits(j, p)), BoundOf(k, KeyHits(k, p)))
      BY <1>1, <1>4, PriorIsAnOrder DEF FoundFor
    <2> QED BY <2>1, <2>2, LeqIsTransitive DEF FoundFor
  <1>5. prior = Above(p, j)
    BY <1>3, <1>4 DEF Above, FoundFor
  <1>6. j \in BestJobs(p) <=> Cardinality(prior) < RETRIEVAL_LIMIT
    BY <1>1 DEF BestJobs
  <1>7. Cardinality(Above(p, j)) \in Nat /\ RETRIEVAL_LIMIT \in Nat
    BY RankType, SizesArePositive
  <1> HIDE DEF prior
  <1>8. Cardinality(prior) < RETRIEVAL_LIMIT <=> Rank(p, j) <= RETRIEVAL_LIMIT
    BY <1>5, <1>7 DEF Rank
  <1> QED BY <1>6, <1>8
----------------------------------------------------------------------------
(* The batch, while nothing changes.                                        *)

Doubtful(p, j) == \E order \in Orders(Held(p)) : ~Serious(p, j, order)
Passed(p, n) == \A j \in FoundFor(p) : Rank(p, j) <= n => Doubtful(p, j)
Matched(p) == \E j \in FoundFor(p), order \in Orders(Held(p)) :
                Rank(p, j) <= RETRIEVAL_LIMIT /\ Serious(p, j, order)

\* Each round has answered for the ranks below its own: who was confirmed had a
\* match there, who is still asked about had none for certain, and who is no
\* longer asked about had no pair of a higher rank up to the limit either.
LoopInv ==
    /\ stage = "done" => waiting = {}
    /\ changed = {} =>
        /\ stage = "confirm" => pairs = BestPairs /\ first <= RETRIEVAL_LIMIT
        /\ \A p \in confirmed : Matched(p)
        /\ stage \in {"select", "confirm"} => \A p \in remaining : Passed(p, first - 1)
        /\ \A p \in People \ (waiting \cup confirmed) :
             stage \in {"chunk", "done"} \/ p \notin remaining => Passed(p, RETRIEVAL_LIMIT)

\* By either route, a window holds the pairs whose rank is in it.
LEMMA WindowOfRanks ==
    ASSUME TypeOK
    PROVE  \A pair : pair \in BestPairs <=>
             \E p \in remaining : \E j \in FoundFor(p) : pair = <<p, j>> /\ Rank(p, j) \in first..Last
  <1> DEFINE found == BoundedPairs(remaining, MinBound(MinScore))
             bound == [pair \in found |-> BoundOf(pair[2], KeyHits(pair[2], pair[1]))]
             above(pair) == {other \in found : /\ other[1] = pair[1]
                                               /\ Before(bound[other], other[2], bound[pair], pair[2])}
  <1>1. remaining \subseteq People /\ MinBound(MinScore) \in Fractions
    BY MinScoreIsPositive, MinBoundType DEF TypeOK
  <1>2. found = PairsFull(remaining, MinBound(MinScore))
    BY <1>1, RoutesFindTheSame
  <1>3. \A pair : pair \in found <=> \E p \in remaining : \E j \in FoundFor(p) : pair = <<p, j>>
    <2>1. \A p \in remaining, j \in Jobs :
            j \in FoundFor(p) <=> Open(j) /\ KeyHits(j, p) # {} /\ Leq(MinBound(MinScore), BoundOf(j, KeyHits(j, p)))
      BY <1>1, QueriesFindHits DEF FoundFor, BoundedJobs
    <2>2. \A p \in remaining : FoundFor(p) \subseteq Jobs
      BY DEF FoundFor, BoundedJobs
    <2> HIDE DEF found
    <2> QED BY <1>2, <2>1, <2>2 DEF PairsFull
  <1>4. ASSUME NEW p \in remaining, NEW j \in FoundFor(p)
        PROVE  Cardinality(above(<<p, j>>)) = Cardinality(Above(p, j))
    <2>1. ASSUME NEW k \in FoundFor(p)
          PROVE  Before(bound[<<p, k>>], k, bound[<<p, j>>], j) <=> Prior(p, k, j)
      <3>1. <<p, k>> \in found /\ <<p, j>> \in found
        BY <1>3, <1>4
      <3> HIDE DEF found
      <3> QED BY <3>1 DEF Prior
    <2>2. \A other : other \in above(<<p, j>>) <=> \E k \in Above(p, j) : other = <<p, k>>
      <3> HIDE DEF found, bound
      <3> QED BY <1>3, <2>1 DEF Above
    <2> DEFINE f == [k \in Above(p, j) |-> <<p, k>>]
    <2> HIDE DEF above
    <2>3. f \in Bijection(Above(p, j), above(<<p, j>>))
      <3>1. f \in [Above(p, j) -> above(<<p, j>>)]
        BY <2>2
      <3>2. \A k, i \in Above(p, j) : f[k] = f[i] => k = i
        OBVIOUS
      <3>3. \A other \in above(<<p, j>>) : \E k \in Above(p, j) : f[k] = other
        BY <2>2
      <3> HIDE DEF f
      <3>4. DOMAIN f = Above(p, j)
        BY <3>1
      <3> QED BY <3>1, <3>2, <3>3, <3>4 DEF Bijection, Injection, Surjection, IsInjective
    <2>4. IsFiniteSet(Above(p, j))
      BY <1>1, RankType
    <2> HIDE DEF f
    <2> QED BY <2>3, <2>4, FS_Bijection DEF ExistsBijection
  <1>5. BestPairs = {pair \in found : 1 + Cardinality(above(pair)) \in first..Last}
    BY DEF BestPairs
  <1> HIDE DEF found, above
  <1> QED BY <1>3, <1>4, <1>5 DEF Rank

\* Where a higher rank is left, the window is full.
LEMMA WindowIsFull ==
    ASSUME TypeOK, NEW p \in remaining, NEW j \in FoundFor(p), Last < Rank(p, j)
    PROVE  Cardinality({pair \in BestPairs : pair[1] = p}) >= Last - first + 1
  <1> DEFINE own == {pair \in BestPairs : pair[1] = p}
             f == [r \in first..Last |-> <<p, CHOOSE k \in FoundFor(p) : Rank(p, k) = r>>]
  <1>1. first \in Nat \ {0} /\ Last \in Nat /\ p \in People
    BY LastType, SizesArePositive DEF TypeOK
  <1>2. Rank(p, j) \in Nat
    BY <1>1, RankType
  <1>3. \A r \in first..Last : \E k \in FoundFor(p) : Rank(p, k) = r
    <2> TAKE r \in first..Last
    <2>1. r \in Nat \ {0} /\ r <= Rank(p, j)
      BY <1>1, <1>2
    <2> QED BY <1>1, <2>1, RanksAreContiguous
  <1>4. \A r \in first..Last : \E k \in FoundFor(p) : f[r] = <<p, k>> /\ Rank(p, k) = r
    BY <1>3
  <1>5. f \in Injection(first..Last, own)
    <2>1. \A r \in first..Last : f[r] \in own
      <3> HIDE DEF f
      <3> QED BY <1>4, WindowOfRanks
    <2>2. f \in [first..Last -> own]
      <3> HIDE DEF own
      <3> QED BY <2>1
    <2> HIDE DEF f, own
    <2>3. \A r, q \in first..Last : f[r] = f[q] => r = q
      BY <1>4
    <2>4. DOMAIN f = first..Last
      BY <2>2
    <2> QED BY <2>2, <2>3, <2>4 DEF Injection, IsInjective
  <1>6. IsFiniteSet(own)
    <2>1. own \subseteq People \X Jobs
      BY <1>1, WindowOfRanks DEF FoundFor, BoundedJobs
    <2>2. IsFiniteSet(People \X Jobs)
      BY PeopleAndJobsAreFinite, FS_Product
    <2> HIDE DEF own
    <2> QED BY <2>1, <2>2, FS_Subset
  <1>7. Cardinality(first..Last) = IF first > Last THEN 0 ELSE Last - first + 1
    BY <1>1, FS_Interval
  <1>8. Cardinality(first..Last) <= Cardinality(own) /\ Cardinality(own) \in Nat
    <2> HIDE DEF f, own
    <2> QED BY <1>5, <1>6, FS_Injection, FS_CardinalityType
  <1> HIDE DEF own
  <1>9. Cardinality(own) >= Last - first + 1
    BY <1>1, <1>7, <1>8
  <1> QED BY <1>9 DEF own

\* An empty window is past everyone's last rank.
LEMMA NothingBeyondAnEmptyWindow ==
    ASSUME TypeOK, NEW p \in remaining, NEW j \in FoundFor(p), first <= Rank(p, j), first <= RETRIEVAL_LIMIT
    PROVE  BestPairs # {}
  <1>1. p \in People /\ first \in Nat \ {0}
    BY DEF TypeOK
  <1>2. PICK k \in FoundFor(p) : Rank(p, k) = first
    BY <1>1, RanksAreContiguous
  <1>3. first <= Last
    BY <1>1, SizesArePositive DEF Last
  <1>4. Rank(p, k) \in first..Last
    BY <1>1, <1>2, <1>3, LastType DEF TypeOK
  <1> QED BY <1>4, WindowOfRanks

LEMMA LoopInit == Init => LoopInv
  BY DEF Init, LoopInv

\* While no vacancy changes, what is found and how it is ranked stay.
LEMMA WorldStays ==
    ASSUME UNCHANGED world
    PROVE  /\ \A p, n : Passed(p, n)' = Passed(p, n)
           /\ \A p : Matched(p)' = Matched(p)
  <1>1. job' = job /\ person' = person
    BY DEF world
  <1>2. \A p : BoundedJobs(p)' = BoundedJobs(p)
    BY <1>1 DEF BoundedJobs, JobHits, Open, Held
  <1>3. \A p, j : BoundOf(j, KeyHits(j, p))' = BoundOf(j, KeyHits(j, p))
    BY <1>1 DEF BoundOf, KeyHits, Held
  <1>4. \A p : FoundFor(p)' = FoundFor(p)
    BY <1>2, <1>3 DEF FoundFor
  <1>5. \A p, j : Rank(p, j)' = Rank(p, j)
    BY <1>3, <1>4 DEF Rank, Above, Prior
  <1>6. \A p, j, order : Serious(p, j, order)' = Serious(p, j, order)
    BY <1>1 DEF Serious
  <1>7. \A p : Orders(Held(p))' = Orders(Held(p))
    BY <1>1 DEF Held
  <1> QED BY <1>4, <1>5, <1>6, <1>7 DEF Passed, Matched, Doubtful

LEMMA WindowStays ==
    ASSUME UNCHANGED world, UNCHANGED <<remaining, first>>
    PROVE  BestPairs' = BestPairs
  <1>1. job' = job /\ person' = person /\ remaining' = remaining /\ first' = first
    BY DEF world
  <1>2. \A p, j : KeyHits(j, p)' = KeyHits(j, p) /\ BoundOf(j, KeyHits(j, p))' = BoundOf(j, KeyHits(j, p))
    BY <1>1 DEF BoundOf, KeyHits, Held
  <1>3. {j \in Jobs : Open(j)}' = {j \in Jobs : Open(j)} /\ \A p : Held(p)' = Held(p)
    BY <1>1 DEF Open, Held
  <1>4. PairsFull(remaining, MinBound(MinScore))' = PairsFull(remaining, MinBound(MinScore))
    BY <1>1, <1>2, <1>3 DEF PairsFull
  <1>5. PairsAnchored(remaining, MinBound(MinScore))' = PairsAnchored(remaining, MinBound(MinScore))
    <2> DEFINE popularity(s) == Cardinality({p \in remaining : Key(s) \in HeldKeys(Held(p))})
               M(j) == Mandatory(job[j].needs)
               anchor(j) == CHOOSE s \in M(j) : \A t \in M(j) : popularity(s) <= popularity(t)
               Probed(p, j) == IF M(j) = {} THEN KeyHits(j, p) # {} ELSE Key(anchor(j)) \in HeldKeys(Held(p))
               low == MinBound(MinScore)
    <2>1. \A s : popularity(s)' = popularity(s)
      BY <1>1, <1>3
    <2>2. \A j : M(j)' = M(j)
      BY <1>1
    <2>3. PairsAnchored(remaining, low)
            = {pair \in {q \in remaining \X {j \in Jobs : Open(j)} : Probed(q[1], q[2])} :
                 Leq(low, BoundOf(pair[2], KeyHits(pair[2], pair[1])))}
      BY DEF PairsAnchored
    <2>4. PairsAnchored(remaining, low)'
            = {pair \in {q \in remaining \X {j \in Jobs : Open(j)} : Probed(q[1], q[2])} :
                 Leq(low, BoundOf(pair[2], KeyHits(pair[2], pair[1])))}'
      BY DEF PairsAnchored
    <2>5. \A j : anchor(j)' = anchor(j)
      <3> HIDE DEF popularity, M
      <3> QED BY <2>1, <2>2
    <2>6. \A p, j : Probed(p, j)' = Probed(p, j)
      <3> HIDE DEF anchor, M
      <3> QED BY <1>2, <1>3, <2>2, <2>5
    <2> HIDE DEF Probed
    <2> QED BY <1>1, <1>2, <1>3, <2>3, <2>4, <2>6
  <1>6. BoundedPairs(remaining, MinBound(MinScore))' = BoundedPairs(remaining, MinBound(MinScore))
    BY <1>4, <1>5 DEF BoundedPairs
  <1> QED BY <1>1, <1>2, <1>6 DEF BestPairs, Last

LEMMA LoopStep ==
    ASSUME TypeOK, LoopInv, [Next]_vars
    PROVE  LoopInv'
  <1>1. CASE TakeChunk
    <2>1. UNCHANGED world /\ UNCHANGED <<confirmed, changed>> /\ stage' = "select" /\ first' = 1
          /\ remaining' \subseteq waiting /\ waiting' = waiting \ remaining'
      BY <1>1 DEF TakeChunk
    <2>2. ASSUME NEW p \in remaining' PROVE Passed(p, first' - 1)
      <3>1. p \in People
        BY <2>1 DEF TypeOK
      <3>2. \A j : Rank(p, j) \in Nat \ {0}
        BY <3>1, RankType
      <3> QED BY <2>1, <3>2 DEF Passed
    <2>3. changed = {} => \A p \in People \ (waiting' \cup confirmed) : p \notin remaining' => Passed(p, RETRIEVAL_LIMIT)
      BY <1>1, <2>1 DEF LoopInv, TakeChunk
    <2> QED BY <2>1, <2>2, <2>3, WorldStays DEF LoopInv
  <1>2. CASE Select
    <2>1. UNCHANGED world /\ UNCHANGED <<waiting, remaining, first, confirmed, changed>>
          /\ stage = "select" /\ stage' = "confirm" /\ first <= RETRIEVAL_LIMIT /\ pairs' = BestPairs
      BY <1>2 DEF Select
    <2>2. BestPairs' = BestPairs
      BY <2>1, WindowStays
    <2> QED BY <2>1, <2>2, WorldStays DEF LoopInv
  <1>3. CASE ChunkEnds
    <2>1. UNCHANGED world /\ UNCHANGED <<waiting, remaining, first, confirmed, changed>>
          /\ stage = "select" /\ stage' = "chunk"
          /\ (remaining = {} \/ first > RETRIEVAL_LIMIT \/ BestPairs = {})
      BY <1>3 DEF ChunkEnds
    <2>2. ASSUME changed = {}, NEW p \in remaining PROVE Passed(p, RETRIEVAL_LIMIT)
      <3> SUFFICES ASSUME NEW j \in FoundFor(p), Rank(p, j) <= RETRIEVAL_LIMIT PROVE Doubtful(p, j)
        BY DEF Passed
      <3>1. Rank(p, j) \in Nat /\ first \in Nat /\ RETRIEVAL_LIMIT \in Nat
        BY RankType, SizesArePositive DEF TypeOK
      <3>2. Rank(p, j) < first
        BY <2>1, <2>2, <3>1, NothingBeyondAnEmptyWindow
      <3>3. Passed(p, first - 1)
        BY <2>1, <2>2 DEF LoopInv
      <3> QED BY <3>1, <3>2, <3>3 DEF Passed
    <2> QED BY <2>1, <2>2, WorldStays DEF LoopInv
  <1>4. CASE Confirm
    <2>1. PICK order \in [{pair[1] : pair \in pairs} -> UNION {Orders(Held(p)) : p \in People}] :
            /\ \A p \in DOMAIN order : order[p] \in Orders(Held(p))
            /\ confirmed' = confirmed \cup Scored(order)
            /\ remaining' = {p \in remaining \ Scored(order) : Unfinished(p)}
      BY <1>4 DEF Confirm
    <2>2. UNCHANGED world /\ UNCHANGED <<waiting, changed>>
          /\ stage = "confirm" /\ stage' = "select" /\ first' = Last + 1
      BY <1>4 DEF Confirm
    <2> SUFFICES ASSUME changed = {} PROVE LoopInv'
      BY <2>2 DEF LoopInv
    <2>3. pairs = BestPairs
      BY <2>2 DEF LoopInv
    <2>4. first \in Nat \ {0} /\ Last \in 1..RETRIEVAL_LIMIT /\ RETRIEVAL_LIMIT \in Nat
      BY LastType, SizesArePositive DEF TypeOK
    <2>5. ASSUME NEW p \in Scored(order) PROVE Matched(p)
      <3>1. PICK pair \in BestPairs : pair[1] = p /\ Serious(pair[1], pair[2], order[pair[1]])
        BY <2>3 DEF Scored
      <3>2. PICK q \in remaining : \E j \in FoundFor(q) : pair = <<q, j>> /\ Rank(q, j) \in first..Last
        BY <3>1, WindowOfRanks
      <3>5. PICK j \in FoundFor(q) : pair = <<q, j>> /\ Rank(q, j) \in first..Last
        BY <3>2
      <3>3. q = p /\ Serious(p, j, order[p]) /\ Rank(p, j) <= RETRIEVAL_LIMIT
        BY <2>4, <3>1, <3>5
      <3>4. order[p] \in Orders(Held(p))
        BY <2>1, <2>3, <3>1
      <3> QED BY <3>5, <3>3, <3>4 DEF Matched
    <2>6. ASSUME NEW p \in remaining \ Scored(order) PROVE Passed(p, Last)
      <3> SUFFICES ASSUME NEW j \in FoundFor(p), Rank(p, j) <= Last PROVE Doubtful(p, j)
        BY DEF Passed
      <3>1. Rank(p, j) \in Nat
        BY RankType DEF TypeOK
      <3>2. CASE Rank(p, j) < first
        <4>1. Passed(p, first - 1)
          BY <2>2 DEF LoopInv
        <4> QED BY <2>4, <3>1, <3>2, <4>1 DEF Passed
      <3>3. CASE first <= Rank(p, j)
        <4>1. <<p, j>> \in pairs
          BY <2>3, <2>4, <3>1, <3>3, WindowOfRanks
        <4>2. p \in DOMAIN order
          BY <2>1, <4>1
        <4>3. job[j].state # "gone"
          BY DEF FoundFor, BoundedJobs, Open
        <4>4. ~Serious(p, j, order[p])
          BY <2>6, <4>1, <4>3 DEF Scored
        <4> QED BY <2>1, <4>2, <4>4 DEF Doubtful
      <3> QED BY <2>4, <3>1, <3>2, <3>3
    <2>7. ASSUME NEW p \in remaining \ Scored(order), p \notin remaining'
          PROVE  Passed(p, RETRIEVAL_LIMIT)
      <3>1. ~Unfinished(p)
        BY <2>1, <2>7
      <3>2. \A j \in FoundFor(p) : ~(Last < Rank(p, j))
        <4> SUFFICES ASSUME NEW j \in FoundFor(p), Last < Rank(p, j) PROVE FALSE
          OBVIOUS
        <4>1. Cardinality({pair \in BestPairs : pair[1] = p}) >= Last - first + 1
          BY WindowIsFull
        <4> QED BY <2>3, <3>1, <4>1 DEF Unfinished
      <3>3. \A j : Rank(p, j) \in Nat
        BY RankType DEF TypeOK
      <3> QED BY <2>4, <2>6, <3>2, <3>3 DEF Passed
    <2>8. \A p \in confirmed' : Matched(p)
      BY <2>1, <2>5 DEF LoopInv
    <2>9. \A p \in remaining' : Passed(p, first' - 1)
      <3>1. first' - 1 = Last
        BY <2>2, <2>4
      <3> QED BY <2>1, <2>6, <3>1
    <2>10. \A p \in People \ (waiting \cup confirmed') : p \notin remaining' => Passed(p, RETRIEVAL_LIMIT)
      <3> TAKE p \in People \ (waiting \cup confirmed')
      <3> HAVE p \notin remaining'
      <3>1. CASE p \in remaining
        BY <2>1, <2>7, <3>1
      <3>2. CASE p \notin remaining
        BY <2>1, <3>2 DEF LoopInv
      <3> QED BY <3>1, <3>2
    <2> QED BY <2>2, <2>8, <2>9, <2>10, WorldStays DEF LoopInv
  <1>5. CASE Answer
    <2>1. UNCHANGED world /\ UNCHANGED <<waiting, remaining, first, confirmed, changed>>
          /\ stage = "chunk" /\ stage' = "done" /\ waiting = {}
      BY <1>5 DEF Answer
    <2> QED BY <2>1, WorldStays DEF LoopInv
  <1>6. ASSUME NEW j \in Jobs, SetState(j) PROVE LoopInv'
    <2>1. changed' # {} /\ UNCHANGED <<stage, waiting>>
      BY <1>6 DEF SetState, request
    <2> QED BY <2>1 DEF LoopInv
  <1>7. CASE UNCHANGED vars
    <2>1. UNCHANGED world /\ UNCHANGED request /\ UNCHANGED changed
      BY <1>7 DEF vars
    <2>2. BestPairs' = BestPairs
      BY <2>1, WindowStays DEF request
    <2> QED BY <2>1, <2>2, WorldStays DEF LoopInv, request
  <1> QED BY <1>1, <1>2, <1>3, <1>4, <1>5, <1>6, <1>7 DEF Next

\* Once nothing is left to ask, the ranks are those of each candidate's own best.
LEMMA LoopAnswers ==
    ASSUME TypeOK, LoopInv
    PROVE  BatchIsTheLoop
  <1> SUFFICES ASSUME stage = "done", changed = {}, NEW p \in People
      PROVE  /\ p \in confirmed => \E j \in BestJobs(p), order \in Orders(Held(p)) : Serious(p, j, order)
             /\ p \notin confirmed => \A j \in BestJobs(p) : \E order \in Orders(Held(p)) : ~Serious(p, j, order)
    BY DEF BatchIsTheLoop
  <1>1. ASSUME p \in confirmed
        PROVE  \E j \in BestJobs(p), order \in Orders(Held(p)) : Serious(p, j, order)
    <2>1. Matched(p)
      BY <1>1 DEF LoopInv
    <2> QED BY <2>1, RankAmongAll DEF Matched
  <1>2. ASSUME p \notin confirmed, NEW j \in BestJobs(p)
        PROVE  \E order \in Orders(Held(p)) : ~Serious(p, j, order)
    <2>1. j \in BoundedJobs(p)
      BY DEF BestJobs
    <2>2. CASE j \in FoundFor(p)
      <3>1. Passed(p, RETRIEVAL_LIMIT)
        BY <1>2 DEF LoopInv
      <3> QED BY <1>2, <2>2, <3>1, RankAmongAll DEF Passed, Doubtful
    <2>3. CASE j \notin FoundFor(p)
      BY <2>1, <2>3, SeriousIsFound, OrdersExist
    <2> QED BY <2>2, <2>3
  <1> QED BY <1>1, <1>2
----------------------------------------------------------------------------
(* The theorems.                                                            *)

IInv == TypeOK /\ NobodyIsConfirmedForNothing /\ LoopInv

\* The inductive invariant: TypeOK, and what each round of the batch has answered
\* for, both while vacancies move and while they do not.
THEOREM Invariance == Spec => []IInv
  <1>1. Init => IInv
    <2>1. Init => NobodyIsConfirmedForNothing
      BY DEF Init, NobodyIsConfirmedForNothing
    <2> QED BY <2>1, TypeInit, LoopInit DEF IInv
  <1>2. IInv /\ [Next]_vars => IInv'
    BY TypeStep, ConfirmedStep, LoopStep DEF IInv
  <1> QED BY <1>1, <1>2, PTL DEF Spec

\* Every request stays within its stages, its chunk and its windows, and what it
\* scores is a pair of somebody still asked about with a vacancy that was open.
THEOREM TypeCorrect == Spec => []TypeOK
  <1>1. IInv => TypeOK
    BY DEF IInv
  <1> QED BY <1>1, Invariance, PTL

\* retrieval_bound "can only overstate": for any weights, levels, importances,
\* years and similarity, and whichever of two rows of a standard is read last.
THEOREM RetrievalLosesNothing == Spec => []BoundNeverUndercuts
  <1>1. TypeOK => BoundNeverUndercuts
    BY BoundHolds DEF BoundNeverUndercuts
  <1> QED BY <1>1, TypeCorrect, PTL

\* candidate_pair_facts counts, for any catalogue, what scoring the pool counts.
THEOREM PoolsAreCountedRight == Spec => []CountsAreTheScorers
  <1>1. TypeOK => CountsAreTheScorers
    BY CountsAgree
  <1> QED BY <1>1, TypeCorrect, PTL

\* bounded_pairs may take either route, whatever the weights and the threshold.
THEOREM EitherRouteWillDo == Spec => []RoutesAgree
  <1>1. TypeOK => RoutesAgree
    <2> SUFFICES ASSUME TypeOK, NEW score \in Thresholds
        PROVE  BoundedPairs(remaining, MinBound(score)) = PairsFull(remaining, MinBound(score))
      BY DEF RoutesAgree
    <2>1. remaining \subseteq People
      BY DEF TypeOK
    <2>2. MinBound(score) \in Fractions
      BY ThresholdsAreScores, MinBoundType
    <2> QED BY <2>1, <2>2, RoutesFindTheSame
  <1> QED BY <1>1, TypeCorrect, PTL

\* profiles_with_serious_match is the loop over candidates that it replaced, for
\* any chunk, round and limit, while no vacancy changes.
THEOREM TheBatchIsExact == Spec => []BatchIsTheLoop
  <1>1. IInv => BatchIsTheLoop
    BY LoopAnswers DEF IInv
  <1> QED BY <1>1, Invariance, PTL

\* And while they do change, nobody is confirmed by a vacancy that was never open.
THEOREM ConfirmationsAreEarned == Spec => []NobodyIsConfirmedForNothing
  <1>1. IInv => NobodyIsConfirmedForNothing
    BY DEF IInv
  <1> QED BY <1>1, Invariance, PTL
=============================================================================

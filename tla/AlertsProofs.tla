---------------------------- MODULE AlertsProofs ----------------------------
(***************************************************************************)
(* What TLAPS proves of Alerts, for any number of vacancies, people and     *)
(* offers, and for all limits.                                              *)
(***************************************************************************)
EXTENDS Alerts, FiniteSetTheorems, TLAPS

----------------------------------------------------------------------------
(* Counting.                                                                *)

\* Every set that is counted is finite.
LEMMA JobsCount ==
    ASSUME NEW S \in SUBSET Jobs
    PROVE  IsFiniteSet(S) /\ Cardinality(S) \in Nat
  BY FinitelyMany, FS_Subset, FS_CardinalityType

LEMMA PeopleCount ==
    ASSUME NEW S \in SUBSET People
    PROVE  IsFiniteSet(S) /\ Cardinality(S) \in Nat
  BY FinitelyMany, FS_Subset, FS_CardinalityType

\* What a batch is cut to is no more than the limit.
LEMMA MinOfTwo ==
    ASSUME NEW a \in Nat, NEW b \in Nat
    PROVE  Min({a, b}) <= a
  <1>1. \E x \in {a, b} : \A y \in {a, b} : x <= y
    OBVIOUS
  <1> QED BY <1>1 DEF Min

\* A person's alerts of the day are a number.
LEMMA RecentCount ==
    ASSUME NEW p \in People
    PROVE  RecentAlerts(p) \in Nat /\ RecentAlerts(p)' \in Nat
  BY JobsCount DEF RecentAlerts

\* Fewer alerts of the day count for less.
LEMMA FewerAlerts ==
    ASSUME NEW p \in People,
           \A j \in Jobs : alert'[<<j, p>>] = "today" => alert[<<j, p>>] = "today"
    PROVE  RecentAlerts(p)' <= RecentAlerts(p)
  <1> DEFINE new == {j \in Jobs : alert'[<<j, p>>] = "today"}
             old == {j \in Jobs : alert[<<j, p>>] = "today"}
  <1>1. new \in SUBSET old /\ IsFiniteSet(old)
    BY JobsCount
  <1>2. Cardinality(new) <= Cardinality(old)
    BY <1>1, FS_Subset
  <1> QED BY <1>2 DEF RecentAlerts
----------------------------------------------------------------------------
(* The caps, and the counts of a run.                                       *)

\* A step that leaves the run alone and sends no alert keeps every count.
LEMMA QuietStep ==
    ASSUME TypeOK, WithinTheCaps, RunCountsRight, sweep' = sweep,
           \A j \in Jobs : job'[j].alerted = job[j].alerted,
           \A pair \in Jobs \X People :
               /\ alert'[pair] = "today" => alert[pair] = "today"
               /\ alert'[pair] # "none" => alert[pair] # "none"
    PROVE  WithinTheCaps' /\ RunCountsRight'
  <1>0. sweep.chosen \subseteq Jobs \X People /\ sweep.jobs \subseteq Jobs
        /\ \A p \in People : sweep.tally[p] \in -1..PerDay
    BY DEF TypeOK, Runs
  <1>1. \A p \in People : RecentAlerts(p)' <= RecentAlerts(p)
    <2> TAKE p \in People
    <2>1. \A j \in Jobs : alert'[<<j, p>>] = "today" => alert[<<j, p>>] = "today"
      OBVIOUS
    <2> QED BY <2>1, FewerAlerts
  <1>2. ASSUME NEW j \in Jobs
        PROVE  Cardinality({p \in People : alert'[<<j, p>>] # "none"}) <= PerJob
    <2> DEFINE new == {p \in People : alert'[<<j, p>>] # "none"}
               old == {p \in People : alert[<<j, p>>] # "none"}
    <2>1. new \in SUBSET old /\ IsFiniteSet(old)
      BY PeopleCount
    <2>2. Cardinality(new) <= Cardinality(old)
      BY <2>1, FS_Subset
    <2>3. Cardinality(old) \in Nat /\ Cardinality(new) \in Nat
      BY PeopleCount
    <2>4. Cardinality(old) <= PerJob
      BY DEF WithinTheCaps
    <2> QED BY <2>2, <2>3, <2>4, LimitsAtLeastOne
  <1>3. \A p \in People : RecentAlerts(p)' <= PerDay
    BY <1>1, RecentCount, LimitsAtLeastOne DEF WithinTheCaps
  <1>4. WithinTheCaps'
    BY <1>2, <1>3 DEF WithinTheCaps
  <1>5. \A p \in People : ChosenOf(p)' = ChosenOf(p)
    BY DEF ChosenOf
  <1>6. \A j \in Jobs : ChosenFor(j)' = ChosenFor(j)
    BY DEF ChosenFor
  <1>7. \A p \in People : Cardinality(ChosenOf(p)) \in Nat
    BY JobsCount DEF ChosenOf
  <1>8. ASSUME NEW p \in People
        PROVE  IF sweep'.tally[p] = -1 THEN ChosenOf(p)' = {}
               ELSE RecentAlerts(p)' + Cardinality(ChosenOf(p)') <= sweep'.tally[p]
    BY <1>0, <1>1, <1>5, <1>7, RecentCount, LimitsAtLeastOne DEF RunCountsRight
  <1>9. /\ sweep'.left \subseteq sweep'.jobs
        /\ \A pair \in sweep'.chosen :
             alert'[pair] = "none" /\ pair[1] \in sweep'.jobs \ sweep'.left
        /\ \A j \in sweep'.jobs : ~job'[j].alerted
        /\ \A pair \in Jobs \X People : alert'[pair] # "none" => job'[pair[1]].alerted
    BY <1>0 DEF RunCountsRight
  <1>10. \A j \in Jobs : Cardinality(ChosenFor(j)') <= PerJob
    BY <1>6 DEF RunCountsRight
  <1> QED BY <1>4, <1>8, <1>9, <1>10 DEF RunCountsRight

\* A run that has just read its batch, or is over, has chosen nobody.
LEMMA FreshRun ==
    ASSUME TypeOK, WithinTheCaps, RunCountsRight, job' = job, alert' = alert,
           sweep'.chosen = {}, \A p \in People : sweep'.tally[p] = -1,
           sweep'.jobs \subseteq Unalerted, sweep'.left \subseteq sweep'.jobs
    PROVE  WithinTheCaps' /\ RunCountsRight'
  <1>1. \A p \in People : RecentAlerts(p)' = RecentAlerts(p)
    BY DEF RecentAlerts
  <1>2. WithinTheCaps'
    BY <1>1 DEF WithinTheCaps
  <1>3. /\ \A j \in Jobs : ChosenFor(j)' = {}
        /\ \A p \in People : ChosenOf(p)' = {}
    BY DEF ChosenFor, ChosenOf
  <1>4. \A j \in Jobs : Cardinality(ChosenFor(j)') <= PerJob
    BY <1>3, FS_EmptySet, LimitsAtLeastOne
  <1> QED BY <1>2, <1>3, <1>4 DEF RunCountsRight, Unalerted

\* The tally of a vacancy's turn is read for whoever may be chosen, and counts
\* what was sent today and what the run has chosen so far.
LEMMA TallyCounts ==
    ASSUME TypeOK, WithinTheCaps, RunCountsRight, NEW j \in Jobs, NEW p \in People
    PROVE  /\ Tally(j)[p] \in -1..PerDay
           /\ p \in Eligible(j) /\ alert[<<j, p>>] = "none" => Tally(j)[p] # -1
           /\ IF Tally(j)[p] = -1 THEN ChosenOf(p) = {}
              ELSE RecentAlerts(p) + Cardinality(ChosenOf(p)) <= Tally(j)[p]
  <1>1. sweep.tally[p] \in -1..PerDay /\ PerDay \in Nat
    BY LimitsAtLeastOne DEF TypeOK, Runs
  <1>2. RecentAlerts(p) \in 0..PerDay
    BY <1>1, RecentCount DEF WithinTheCaps
  <1>3. IF sweep.tally[p] = -1 THEN ChosenOf(p) = {}
        ELSE RecentAlerts(p) + Cardinality(ChosenOf(p)) <= sweep.tally[p]
    BY DEF RunCountsRight
  <1>4. CASE p \in Eligible(j) /\ alert[<<j, p>>] = "none" /\ sweep.tally[p] = -1
    <2>1. Tally(j)[p] = RecentAlerts(p)
      BY <1>4 DEF Tally
    <2>2. Cardinality(ChosenOf(p)) = 0
      BY <1>3, <1>4, FS_EmptySet
    <2> QED BY <1>2, <1>1, <2>1, <2>2
  <1>5. CASE ~(p \in Eligible(j) /\ alert[<<j, p>>] = "none" /\ sweep.tally[p] = -1)
    <2>1. Tally(j)[p] = sweep.tally[p]
      BY <1>5 DEF Tally
    <2> QED BY <1>1, <1>3, <1>5, <2>1
  <1> QED BY <1>4, <1>5

\* Choosing for a vacancy keeps the counts right.
LEMMA DecideStep ==
    ASSUME TypeOK, WithinTheCaps, RunCountsRight, NEW j \in Jobs, SweepDecides(j)
    PROVE  sweep' \in Runs /\ WithinTheCaps' /\ RunCountsRight'
  <1> DEFINE may == {p \in Eligible(j) : alert[<<j, p>>] = "none" /\ person[p] = "willing"
                                           /\ UnderTheCap(Tally(j)[p])}
  <1>1. PICK chosen \in SUBSET may :
            /\ Cardinality(chosen) = Min({PerJob, Cardinality(may)})
            /\ sweep' = [sweep EXCEPT !.left = @ \ {j},
                                      !.chosen = @ \cup {<<j, p>> : p \in chosen},
                                      !.tally = [p \in People |->
                                                  Tally(j)[p] + IF p \in chosen THEN 1 ELSE 0]]
    BY DEF SweepDecides
  <1>2. /\ sweep \in Runs
        /\ j \in sweep.left
        /\ job' = job /\ alert' = alert
    BY DEF TypeOK, SweepDecides
  <1>3. may \in SUBSET People
    BY DEF Eligible
  <1>4. PerJob \in Nat /\ PerDay \in Nat
    BY LimitsAtLeastOne
  <1>5. Cardinality(chosen) <= PerJob
    <2>1. Cardinality(may) \in Nat
      BY <1>3, PeopleCount
    <2> QED BY <1>1, <1>4, <2>1, MinOfTwo
  <1>6. \A p \in chosen : Tally(j)[p] # -1 /\ Tally(j)[p] < PerDay
    BY <1>1, <1>3, TallyCounts DEF UnderTheCap
  <1> HIDE DEF may
  <1>7. /\ sweep'.stage = sweep.stage
        /\ sweep'.jobs = sweep.jobs
        /\ sweep'.left = sweep.left \ {j}
        /\ sweep'.chosen = sweep.chosen \cup {<<j, p>> : p \in chosen}
        /\ sweep'.tally = [p \in People |-> Tally(j)[p] + IF p \in chosen THEN 1 ELSE 0]
    BY <1>1, <1>2 DEF Runs
  <1>8. \A p \in People : sweep'.tally[p] \in -1..PerDay
    <2> TAKE p \in People
    <2>1. Tally(j)[p] \in -1..PerDay
      BY TallyCounts
    <2>2. CASE p \in chosen
      <3>1. Tally(j)[p] < PerDay
        BY <1>6, <2>2
      <3>2. sweep'.tally[p] = Tally(j)[p] + 1
        BY <1>7, <2>2
      <3> QED BY <1>4, <2>1, <3>1, <3>2
    <2>3. CASE p \notin chosen
      <3>1. sweep'.tally[p] = Tally(j)[p] + 0
        BY <1>7, <2>3
      <3> QED BY <1>4, <2>1, <3>1
    <2> QED BY <2>2, <2>3
  <1>9. sweep' \in Runs
    <2>1. sweep'.tally \in [People -> -1..PerDay]
      BY <1>7, <1>8
    <2>2. sweep'.chosen \in SUBSET (Jobs \X People)
      BY <1>2, <1>3, <1>7 DEF Runs
    <2>3. sweep'.jobs \in SUBSET Jobs /\ sweep'.left \in SUBSET Jobs
      BY <1>2, <1>7 DEF Runs
    <2>4. sweep'.stage \in {"idle", "sweeping"}
      BY <1>2, <1>7 DEF Runs
    <2>5. sweep' = [stage |-> sweep'.stage, jobs |-> sweep'.jobs, left |-> sweep'.left,
                    tally |-> sweep'.tally, chosen |-> sweep'.chosen]
      BY <1>1, <1>2 DEF Runs
    <2> QED BY <2>1, <2>2, <2>3, <2>4, <2>5 DEF Runs
  <1>10. \A p \in People : RecentAlerts(p)' = RecentAlerts(p)
    BY <1>2 DEF RecentAlerts
  <1>11. WithinTheCaps'
    BY <1>2, <1>10 DEF WithinTheCaps
  <1>12. /\ sweep'.left \subseteq sweep'.jobs
         /\ \A pair \in sweep'.chosen :
               alert'[pair] = "none" /\ pair[1] \in sweep'.jobs \ sweep'.left
         /\ \A k \in sweep'.jobs : ~job'[k].alerted
         /\ \A pair \in Jobs \X People : alert'[pair] # "none" => job'[pair[1]].alerted
    <2>1. \A p \in chosen : alert[<<j, p>>] = "none"
      BY DEF may
    <2>2. j \in sweep.jobs
      <3>1. sweep.left \subseteq sweep.jobs
        BY DEF RunCountsRight
      <3> QED BY <1>2, <3>1
    <2> QED BY <1>2, <1>7, <2>1, <2>2 DEF RunCountsRight
  <1>13. ASSUME NEW k \in Jobs PROVE Cardinality(ChosenFor(k)') <= PerJob
    <2>1. CASE k = j
      <3>1. ChosenFor(j)' = chosen
        BY <1>2, <1>3, <1>7 DEF ChosenFor, RunCountsRight
      <3> QED BY <1>5, <2>1, <3>1
    <2>2. CASE k # j
      <3>1. ChosenFor(k)' = ChosenFor(k)
        BY <1>7, <2>2 DEF ChosenFor
      <3> QED BY <3>1 DEF RunCountsRight
    <2> QED BY <2>1, <2>2
  <1>14. ASSUME NEW p \in People
         PROVE  IF sweep'.tally[p] = -1 THEN ChosenOf(p)' = {}
                ELSE RecentAlerts(p)' + Cardinality(ChosenOf(p)') <= sweep'.tally[p]
    <2>0. IsFiniteSet(ChosenOf(p)) /\ Cardinality(ChosenOf(p)) \in Nat
      BY JobsCount DEF ChosenOf
    <2>1. CASE p \in chosen
      <3>1. ChosenOf(p)' = ChosenOf(p) \cup {j}
        BY <1>7, <2>1 DEF ChosenOf
      <3>2. Cardinality(ChosenOf(p)') <= Cardinality(ChosenOf(p)) + 1
            /\ Cardinality(ChosenOf(p)') \in Nat
        <4>1. Cardinality(ChosenOf(p) \cup {j})
                = IF j \in ChosenOf(p) THEN Cardinality(ChosenOf(p)) ELSE Cardinality(ChosenOf(p)) + 1
          BY <2>0, FS_AddElement
        <4> QED BY <2>0, <3>1, <4>1
      <3>3. sweep'.tally[p] = Tally(j)[p] + 1
        BY <1>7, <2>1
      <3>4. RecentAlerts(p) + Cardinality(ChosenOf(p)) <= Tally(j)[p] /\ Tally(j)[p] \in -1..PerDay
            /\ Tally(j)[p] # -1
        BY <1>6, <2>1, TallyCounts
      <3> QED BY <1>10, <1>4, <2>0, <3>2, <3>3, <3>4, RecentCount
    <2>2. CASE p \notin chosen
      <3>1. ChosenOf(p)' = ChosenOf(p)
        BY <1>7, <2>2 DEF ChosenOf
      <3>2. sweep'.tally[p] = Tally(j)[p]
        <4>1. Tally(j)[p] \in -1..PerDay
          BY TallyCounts
        <4>2. sweep'.tally[p] = Tally(j)[p] + 0
          BY <1>7, <2>2
        <4> QED BY <1>4, <4>1, <4>2
      <3> QED BY <1>10, <3>1, <3>2, TallyCounts
    <2> QED BY <2>1, <2>2
  <1> QED BY <1>9, <1>11, <1>12, <1>13, <1>14 DEF RunCountsRight

\* Committing sends no more than the run has counted.
LEMMA CommitStep ==
    ASSUME TypeOK, WithinTheCaps, RunCountsRight, SweepCommits
    PROVE  WithinTheCaps' /\ RunCountsRight'
  <1>1. /\ alert' = [pair \in Jobs \X People |->
                       IF pair \in sweep.chosen THEN "today" ELSE alert[pair]]
        /\ job' = [k \in Jobs |-> [job[k] EXCEPT !.alerted = @ \/ k \in sweep.jobs]]
        /\ sweep' = NoRun
    BY DEF SweepCommits, Claimed
  <1>2. /\ sweep.chosen \subseteq Jobs \X People /\ sweep.jobs \subseteq Jobs
        /\ \A p \in People : sweep.tally[p] \in -1..PerDay
        /\ PerJob \in Nat /\ PerDay \in Nat
    BY LimitsAtLeastOne DEF TypeOK, Runs
  <1>3. ASSUME NEW p \in People PROVE RecentAlerts(p)' <= PerDay
    <2> DEFINE today == {k \in Jobs : alert[<<k, p>>] = "today"}
    <2>1. {k \in Jobs : alert'[<<k, p>>] = "today"} = today \cup ChosenOf(p)
      <3>1. \A k \in Jobs : alert'[<<k, p>>] = "today"
                               <=> alert[<<k, p>>] = "today" \/ <<k, p>> \in sweep.chosen
        BY <1>1
      <3> QED BY <3>1 DEF ChosenOf
    <2>2. /\ IsFiniteSet(today) /\ Cardinality(today) \in Nat
          /\ IsFiniteSet(ChosenOf(p)) /\ Cardinality(ChosenOf(p)) \in Nat
          /\ Cardinality(today \cap ChosenOf(p)) \in Nat
      BY JobsCount DEF ChosenOf
    <2>3. RecentAlerts(p) = Cardinality(today)
      BY DEF RecentAlerts
    <2>4. RecentAlerts(p)' = Cardinality(today \cup ChosenOf(p))
      BY <2>1 DEF RecentAlerts
    <2> HIDE DEF today
    <2>5. RecentAlerts(p)' <= RecentAlerts(p) + Cardinality(ChosenOf(p))
      <3>1. Cardinality(today \cup ChosenOf(p))
              = Cardinality(today) + Cardinality(ChosenOf(p)) - Cardinality(today \cap ChosenOf(p))
        BY <2>2, FS_Union
      <3> QED BY <2>2, <2>3, <2>4, <3>1
    <2>6. CASE sweep.tally[p] = -1
      <3>1. ChosenOf(p) = {}
        BY <2>6 DEF RunCountsRight
      <3>2. RecentAlerts(p)' = RecentAlerts(p)
        <4>1. today \cup {} = today
          OBVIOUS
        <4> QED BY <2>3, <2>4, <3>1, <4>1
      <3> QED BY <3>2 DEF WithinTheCaps
    <2>7. CASE sweep.tally[p] # -1
      <3>1. RecentAlerts(p) + Cardinality(ChosenOf(p)) <= sweep.tally[p]
        BY <2>7 DEF RunCountsRight
      <3> QED BY <1>2, <2>2, <2>5, <3>1, RecentCount
    <2> QED BY <2>6, <2>7
  <1>4. ASSUME NEW k \in Jobs
        PROVE  Cardinality({p \in People : alert'[<<k, p>>] # "none"}) <= PerJob
    <2>1. CASE k \in sweep.jobs
      <3>1. \A p \in People : alert[<<k, p>>] = "none"
        BY <2>1 DEF RunCountsRight
      <3>2. {p \in People : alert'[<<k, p>>] # "none"} = ChosenFor(k)
        BY <1>1, <3>1 DEF ChosenFor
      <3> QED BY <3>2 DEF RunCountsRight
    <2>2. CASE k \notin sweep.jobs
      <3>1. \A p \in People : <<k, p>> \notin sweep.chosen
        BY <2>2 DEF RunCountsRight
      <3>2. {p \in People : alert'[<<k, p>>] # "none"} = {p \in People : alert[<<k, p>>] # "none"}
        BY <1>1, <3>1
      <3> QED BY <3>2 DEF WithinTheCaps
    <2> QED BY <2>1, <2>2
  <1>5. WithinTheCaps'
    BY <1>3, <1>4 DEF WithinTheCaps
  <1>6. sweep'.chosen = {} /\ sweep'.jobs = {} /\ sweep'.left = {} /\ \A p \in People : sweep'.tally[p] = -1
    BY <1>1 DEF NoRun
  <1>7. /\ \A k \in Jobs : ChosenFor(k)' = {}
        /\ \A p \in People : ChosenOf(p)' = {}
    BY <1>6 DEF ChosenFor, ChosenOf
  <1>8. \A k \in Jobs : Cardinality(ChosenFor(k)') <= PerJob
    BY <1>2, <1>7, FS_EmptySet
  <1>9. ASSUME NEW pair \in Jobs \X People, alert'[pair] # "none"
        PROVE  job'[pair[1]].alerted
    <2>0. job'[pair[1]].alerted = (job[pair[1]].alerted \/ pair[1] \in sweep.jobs)
      BY <1>1 DEF TypeOK, JobRows
    <2>1. CASE pair \in sweep.chosen
      BY <2>0, <2>1 DEF RunCountsRight
    <2>2. CASE pair \notin sweep.chosen
      BY <1>1, <1>9, <2>0, <2>2 DEF RunCountsRight
    <2> QED BY <2>1, <2>2
  <1> QED BY <1>5, <1>6, <1>7, <1>8, <1>9 DEF RunCountsRight
----------------------------------------------------------------------------
(* Types.                                                                   *)

\* Nobody alerted to anything, at the start.
LEMMA InitIInv == Init => IInv
  <1> SUFFICES ASSUME Init PROVE IInv
    OBVIOUS
  <1>0. PerJob \in Nat /\ PerDay \in Nat
    BY LimitsAtLeastOne
  <1>1. sweep.chosen = {} /\ sweep.jobs = {} /\ sweep.left = {} /\ \A p \in People : sweep.tally[p] = -1
    BY DEF Init, NoRun
  <1>2. \A pair \in Jobs \X People : alert[pair] = "none" /\ intent[pair] = "none"
    BY DEF Init
  <1>3. TypeOK
    <2>1. NoRun \in Runs
      BY <1>0 DEF NoRun, Runs
    <2> QED BY <2>1 DEF TypeOK, Init, JobRows, ProfileRows
  <1>4. ToldOnce
    BY DEF ToldOnce, Once, Init
  <1>5. WithinTheCaps
    <2>1. ASSUME NEW p \in People PROVE RecentAlerts(p) <= PerDay
      <3>1. {k \in Jobs : alert[<<k, p>>] = "today"} = {}
        BY <1>2
      <3>2. RecentAlerts(p) = 0
        BY <3>1, FS_EmptySet DEF RecentAlerts
      <3> QED BY <1>0, <3>2
    <2>2. ASSUME NEW k \in Jobs
          PROVE  Cardinality({p \in People : alert[<<k, p>>] # "none"}) <= PerJob
      <3>1. {p \in People : alert[<<k, p>>] # "none"} = {}
        BY <1>2
      <3>2. Cardinality({p \in People : alert[<<k, p>>] # "none"}) = 0
        BY <3>1, FS_EmptySet
      <3> QED BY <1>0, <3>2
    <2> QED BY <2>1, <2>2 DEF WithinTheCaps
  <1>6. RunCountsRight
    <2>1. /\ \A k \in Jobs : ChosenFor(k) = {}
          /\ \A p \in People : ChosenOf(p) = {}
      BY <1>1 DEF ChosenFor, ChosenOf
    <2>2. \A k \in Jobs : Cardinality(ChosenFor(k)) <= PerJob
      BY <1>0, <2>1, FS_EmptySet
    <2> QED BY <1>1, <1>2, <2>1, <2>2 DEF RunCountsRight
  <1> QED BY <1>3, <1>4, <1>5, <1>6 DEF IInv

\* No run is a run, and so is one that has read its batch.
LEMMA RunTypes ==
    ASSUME NEW jobs \in SUBSET Jobs
    PROVE  /\ NoRun \in Runs
           /\ [NoRun EXCEPT !.stage = "sweeping", !.jobs = jobs, !.left = jobs] \in Runs
  <1>1. -1 \in -1..PerDay
    BY LimitsAtLeastOne
  <1>2. [p \in People |-> -1] \in [People -> -1..PerDay]
    BY <1>1
  <1>3. NoRun \in Runs
    BY <1>2 DEF NoRun, Runs
  <1>4. [NoRun EXCEPT !.stage = "sweeping", !.jobs = jobs, !.left = jobs] \in Runs
    BY <1>3 DEF Runs
  <1> QED BY <1>3, <1>4

\* Every step keeps the types and tells once what it tells: the sweep.
LEMMA SweepToldStep ==
    ASSUME IInv, SweepReads \/ SweepCommits \/ SweepBreaks \/ SweepDies
    PROVE  TypeOK' /\ ToldOnce'
  <1>1. CASE SweepReads
    <2>1. PICK jobs \in SUBSET Unalerted :
             sweep' = [NoRun EXCEPT !.stage = "sweeping", !.jobs = jobs, !.left = jobs]
      BY <1>1 DEF SweepReads
    <2>2. jobs \in SUBSET Jobs
      BY <2>1 DEF Unalerted
    <2>3. sweep' \in Runs
      BY <2>1, <2>2, RunTypes
    <2> QED BY <1>1, <2>3 DEF IInv, TypeOK, ToldOnce, Once, SweepReads
  <1>2. CASE SweepCommits
    <2>0. NoRun \in Runs
      BY RunTypes
    <2>1. TypeOK'
      <3>1. job' \in [Jobs -> JobRows]
        BY <1>2 DEF IInv, TypeOK, SweepCommits, JobRows, Claimed
      <3>2. alert' \in [Jobs \X People -> {"none", "today", "earlier"}]
        BY <1>2 DEF IInv, TypeOK, SweepCommits
      <3>3. notices' \in [Jobs \X People -> Nat]
        <4>1. \A pair \in Jobs \X People :
                 notices[pair] + (IF pair \in sweep.chosen THEN 1 ELSE 0) \in Nat
          BY DEF IInv, TypeOK
        <4> QED BY <1>2, <4>1 DEF SweepCommits
      <3> QED BY <1>2, <2>0, <3>1, <3>2, <3>3 DEF IInv, TypeOK, SweepCommits
    <2>2. \A k \in Jobs : job'[k].state = job[k].state
      BY <1>2 DEF IInv, TypeOK, SweepCommits, JobRows
    <2>3. ASSUME NEW pair \in Jobs \X People
          PROVE  /\ notices'[pair] <= 1
                 /\ alert'[pair] \in {"today", "earlier"} => notices'[pair] = 1
                 /\ job'[pair[1]].state # "deleted" /\ alert'[pair] \notin {"today", "earlier"}
                      => notices'[pair] = 0
      <3>1. CASE pair \in sweep.chosen
        <4>1. alert[pair] = "none"
          BY <3>1 DEF IInv, RunCountsRight
        <4>2. job[pair[1]].state # "deleted"
          BY <1>2, <3>1 DEF SweepCommits, Breaks, IInv, RunCountsRight
        <4>3. notices[pair] = 0
          BY <4>1, <4>2 DEF IInv, ToldOnce, Once
        <4>4. alert'[pair] = "today" /\ notices'[pair] = notices[pair] + 1
          BY <1>2, <3>1 DEF SweepCommits
        <4> QED BY <4>3, <4>4
      <3>2. CASE pair \notin sweep.chosen
        <4>1. alert'[pair] = alert[pair] /\ notices'[pair] = notices[pair] + 0
          BY <1>2, <3>2 DEF SweepCommits
        <4>2. notices[pair] \in Nat
          BY DEF IInv, TypeOK
        <4> QED BY <2>2, <4>1, <4>2 DEF IInv, ToldOnce, Once
      <3> QED BY <3>1, <3>2
    <2>4. Once(intent, {"today", "earlier"}, prompts)'
      BY <1>2, <2>2 DEF IInv, ToldOnce, Once, SweepCommits
    <2> QED BY <2>1, <2>3, <2>4 DEF ToldOnce, Once
  <1>3. CASE SweepBreaks \/ SweepDies
    BY <1>3, RunTypes DEF IInv, TypeOK, ToldOnce, Once, SweepBreaks, SweepDies
  <1> QED BY <1>1, <1>2, <1>3

\* The employers' offers.
LEMMA OfferToldStep ==
    ASSUME IInv, NEW o \in Offers, OfferReads(o) \/ OfferCommits(o)
    PROVE  TypeOK' /\ ToldOnce'
  <1>1. CASE OfferReads(o)
    <2>1. PICK pair \in NearMiss :
             offer' = [offer EXCEPT ![o] =
                        <<pair, person[pair[2]] = "willing" /\ UnderTheCap(RecentUnsolicited(pair[2]))>>]
      BY <1>1 DEF OfferReads
    <2>2. pair \in Jobs \X People
      BY PairsArePairs
    <2>3. (person[pair[2]] = "willing" /\ UnderTheCap(RecentUnsolicited(pair[2]))) \in BOOLEAN
      BY DEF UnderTheCap
    <2>4. offer' \in [Offers -> {NoOffer} \cup ((Jobs \X People) \X BOOLEAN)]
      BY <2>1, <2>2, <2>3 DEF IInv, TypeOK
    <2> QED BY <1>1, <2>4 DEF IInv, TypeOK, ToldOnce, Once, OfferReads
  <1>2. CASE OfferCommits(o)
    <2> DEFINE pair == offer[o][1]
               told == offer[o][2]
               refused == intent[pair] # "none" \/ job[pair[1]].state = "deleted"
                            \/ person[pair[2]] = "erased"
    <2>1. pair \in Jobs \X People
      BY <1>2 DEF IInv, TypeOK, OfferCommits
    <2>2. /\ intent' = IF refused THEN intent
                       ELSE [intent EXCEPT ![pair] = IF told THEN "today" ELSE "silent"]
          /\ prompts' = IF refused \/ ~told THEN prompts ELSE [prompts EXCEPT ![pair] = @ + 1]
          /\ offer' = [offer EXCEPT ![o] = NoOffer]
          /\ UNCHANGED <<job, person, alert, notices, sweep>>
      BY <1>2 DEF OfferCommits
    <2>3. ~refused => intent[pair] = "none" /\ job[pair[1]].state # "deleted"
      OBVIOUS
    <2> HIDE DEF pair, told, refused
    <2>4. TypeOK'
      BY <2>1, <2>2 DEF IInv, TypeOK
    <2>5. ~refused => prompts[pair] = 0
      BY <2>1, <2>3 DEF IInv, ToldOnce, Once
    <2>6. Once(intent, {"today", "earlier"}, prompts)'
      <3>1. CASE refused
        BY <2>2, <3>1 DEF IInv, ToldOnce, Once
      <3>2. CASE ~refused /\ told
        BY <2>1, <2>2, <2>5, <3>2 DEF IInv, TypeOK, ToldOnce, Once
      <3>3. CASE ~refused /\ ~told
        BY <2>1, <2>2, <2>5, <3>3 DEF IInv, TypeOK, ToldOnce, Once
      <3> QED BY <3>1, <3>2, <3>3
    <2>7. Once(alert, {"today", "earlier"}, notices)'
      BY <2>2 DEF IInv, ToldOnce, Once
    <2> QED BY <2>4, <2>6, <2>7 DEF ToldOnce
  <1> QED BY <1>1, <1>2

\* Employers and candidates, and the day's end.
LEMMA OtherToldStep ==
    ASSUME IInv,
           \/ \E j \in Jobs : SetState(j) \/ DeleteJob(j)
           \/ \E p \in People : Erase(p) \/ SetPreference(p)
           \/ DayPasses
    PROVE  TypeOK' /\ ToldOnce'
  <1>1. ASSUME NEW j \in Jobs, SetState(j) PROVE TypeOK' /\ ToldOnce'
    <2>1. PICK state \in {"draft", "open", "closed"} : job' = [job EXCEPT ![j].state = state]
      BY <1>1 DEF SetState
    <2>2. job' \in [Jobs -> JobRows]
      BY <2>1 DEF IInv, TypeOK, JobRows
    <2>3. \A k \in Jobs : job'[k].state # "deleted" => job[k].state # "deleted"
      BY <1>1, <2>1 DEF SetState, IInv, TypeOK, JobRows
    <2> QED BY <1>1, <2>2, <2>3 DEF IInv, TypeOK, ToldOnce, Once, SetState
  <1>2. ASSUME NEW j \in Jobs, DeleteJob(j) PROVE TypeOK' /\ ToldOnce'
    <2>1. job' \in [Jobs -> JobRows]
      BY <1>2 DEF DeleteJob, IInv, TypeOK, JobRows
    <2>2. \A k \in Jobs : job'[k].state # "deleted" => job[k].state # "deleted" /\ k # j
      BY <1>2 DEF DeleteJob, IInv, TypeOK, JobRows
    <2>3. /\ \A pair \in Jobs \X People :
                alert'[pair] = IF pair[1] = j THEN "none" ELSE alert[pair]
          /\ \A pair \in Jobs \X People :
                intent'[pair] = IF pair[1] = j THEN "none" ELSE intent[pair]
          /\ alert' \in [Jobs \X People -> {"none", "today", "earlier"}]
          /\ intent' \in [Jobs \X People -> {"none", "silent", "today", "earlier"}]
      BY <1>2 DEF DeleteJob, Without, IInv, TypeOK
    <2>4. TypeOK'
      BY <1>2, <2>1, <2>3 DEF DeleteJob, IInv, TypeOK
    <2>5. ToldOnce'
      BY <1>2, <2>2, <2>3 DEF DeleteJob, IInv, ToldOnce, Once
    <2> QED BY <2>4, <2>5
  <1>3. ASSUME NEW p \in People, Erase(p) PROVE TypeOK' /\ ToldOnce'
    <2>1. /\ \A pair \in Jobs \X People :
                /\ alert'[pair] = IF pair[2] = p THEN "none" ELSE alert[pair]
                /\ notices'[pair] = IF pair[2] = p THEN 0 ELSE notices[pair]
          /\ \A pair \in Jobs \X People :
                /\ intent'[pair] = IF pair[2] = p THEN "none" ELSE intent[pair]
                /\ prompts'[pair] = IF pair[2] = p THEN 0 ELSE prompts[pair]
      BY <1>3 DEF Erase, Without
    <2>2. TypeOK'
      <3>1. person' \in [People -> ProfileRows]
        BY <1>3 DEF Erase, IInv, TypeOK, ProfileRows
      <3>2. /\ alert' \in [Jobs \X People -> {"none", "today", "earlier"}]
            /\ intent' \in [Jobs \X People -> {"none", "silent", "today", "earlier"}]
            /\ notices' \in [Jobs \X People -> Nat] /\ prompts' \in [Jobs \X People -> Nat]
        BY <1>3 DEF Erase, Without, IInv, TypeOK
      <3> QED BY <1>3, <3>1, <3>2 DEF Erase, IInv, TypeOK
    <2>3. ToldOnce'
      <3>1. job' = job
        BY <1>3 DEF Erase
      <3>2. Once(alert, {"today", "earlier"}, notices)'
        BY <2>1, <3>1 DEF IInv, ToldOnce, Once
      <3>3. Once(intent, {"today", "earlier"}, prompts)'
        BY <2>1, <3>1 DEF IInv, ToldOnce, Once
      <3> QED BY <3>2, <3>3 DEF ToldOnce
    <2> QED BY <2>2, <2>3
  <1>4. ASSUME NEW p \in People, SetPreference(p) PROVE TypeOK' /\ ToldOnce'
    BY <1>4 DEF SetPreference, IInv, TypeOK, ProfileRows, ToldOnce, Once
  <1>5. CASE DayPasses
    <2>1. TypeOK'
      BY <1>5 DEF DayPasses, IInv, TypeOK
    <2>2. ToldOnce'
      <3>1. \A pair \in Jobs \X People :
               /\ alert'[pair] = IF alert[pair] = "today" THEN "earlier" ELSE alert[pair]
               /\ intent'[pair] = IF intent[pair] = "today" THEN "earlier" ELSE intent[pair]
        BY <1>5 DEF DayPasses
      <3> QED BY <1>5, <3>1 DEF DayPasses, IInv, ToldOnce, Once
    <2> QED BY <2>1, <2>2
  <1> QED BY <1>1, <1>2, <1>3, <1>4, <1>5
----------------------------------------------------------------------------
(* The theorems.                                                            *)

\* Every step keeps the invariant.
LEMMA Step == IInv /\ [Next]_vars => IInv'
  <1> SUFFICES ASSUME IInv, [Next]_vars PROVE IInv'
    OBVIOUS
  <1>0. TypeOK /\ ToldOnce /\ WithinTheCaps /\ RunCountsRight
    BY DEF IInv
  <1>1. CASE SweepReads
    <2>1. PICK jobs \in SUBSET Unalerted :
             sweep' = [NoRun EXCEPT !.stage = "sweeping", !.jobs = jobs, !.left = jobs]
      BY <1>1 DEF SweepReads
    <2>2. /\ sweep'.chosen = {} /\ sweep'.jobs \subseteq Unalerted /\ sweep'.left \subseteq sweep'.jobs
          /\ \A p \in People : sweep'.tally[p] = -1
      BY <2>1 DEF NoRun
    <2>3. job' = job /\ alert' = alert
      BY <1>1 DEF SweepReads
    <2>4. WithinTheCaps' /\ RunCountsRight'
      BY <1>0, <2>2, <2>3, FreshRun
    <2> QED BY <1>1, <2>4, SweepToldStep DEF IInv
  <1>2. CASE SweepCommits
    BY <1>0, <1>2, CommitStep, SweepToldStep DEF IInv
  <1>3. CASE SweepBreaks \/ SweepDies
    <2>1. job' = job /\ alert' = alert /\ sweep' = NoRun
      BY <1>3 DEF SweepBreaks, SweepDies
    <2>2. /\ sweep'.chosen = {} /\ sweep'.jobs \subseteq Unalerted /\ sweep'.left \subseteq sweep'.jobs
          /\ \A p \in People : sweep'.tally[p] = -1
      BY <2>1 DEF NoRun
    <2>3. WithinTheCaps' /\ RunCountsRight'
      BY <1>0, <2>1, <2>2, FreshRun
    <2> QED BY <1>3, <2>3, SweepToldStep DEF IInv
  <1>4. ASSUME NEW j \in Jobs, SweepDecides(j) PROVE IInv'
    <2>1. sweep' \in Runs /\ WithinTheCaps' /\ RunCountsRight'
      BY <1>0, <1>4, DecideStep
    <2>2. UNCHANGED <<job, person, alert, intent, notices, prompts, offer>>
      BY <1>4 DEF SweepDecides
    <2>3. TypeOK' /\ ToldOnce'
      BY <1>0, <2>1, <2>2 DEF TypeOK, ToldOnce, Once
    <2> QED BY <2>1, <2>3 DEF IInv
  <1>5. ASSUME NEW o \in Offers, OfferReads(o) \/ OfferCommits(o) PROVE IInv'
    <2>1. job' = job /\ alert' = alert /\ sweep' = sweep
      BY <1>5 DEF OfferReads, OfferCommits
    <2>2. WithinTheCaps' /\ RunCountsRight'
      BY <1>0, <2>1, QuietStep
    <2> QED BY <1>5, <2>2, OfferToldStep DEF IInv
  <1>6. ASSUME \/ \E j \in Jobs : SetState(j) \/ DeleteJob(j)
               \/ \E p \in People : Erase(p) \/ SetPreference(p)
               \/ DayPasses
        PROVE  IInv'
    <2>1. \A k \in Jobs : job'[k].alerted = job[k].alerted
      <3>1. ASSUME NEW j \in Jobs, SetState(j) \/ DeleteJob(j)
            PROVE  \A k \in Jobs : job'[k].alerted = job[k].alerted
        <4>1. PICK state : job' = [job EXCEPT ![j].state = state]
          BY <3>1 DEF SetState, DeleteJob
        <4> QED BY <1>0, <4>1 DEF TypeOK, JobRows
      <3>2. ASSUME \/ \E p \in People : Erase(p) \/ SetPreference(p)
                   \/ DayPasses
            PROVE  job' = job
        BY <3>2 DEF Erase, SetPreference, DayPasses
      <3> QED BY <1>6, <3>1, <3>2
    <2>2. \A pair \in Jobs \X People :
             /\ alert'[pair] = "today" => alert[pair] = "today"
             /\ alert'[pair] # "none" => alert[pair] # "none"
      BY <1>6 DEF SetState, DeleteJob, Erase, SetPreference, DayPasses, Without
    <2>3. sweep' = sweep
      BY <1>6 DEF SetState, DeleteJob, Erase, SetPreference, DayPasses
    <2>4. WithinTheCaps' /\ RunCountsRight'
      BY <1>0, <2>1, <2>2, <2>3, QuietStep
    <2> QED BY <1>6, <2>4, OtherToldStep DEF IInv
  <1>7. CASE UNCHANGED vars
    <2>1. TypeOK' /\ ToldOnce'
      BY <1>0, <1>7 DEF vars, TypeOK, ToldOnce, Once
    <2>2. WithinTheCaps' /\ RunCountsRight'
      BY <1>0, <1>7, QuietStep DEF vars
    <2> QED BY <2>1, <2>2 DEF IInv
  <1> QED BY <1>1, <1>2, <1>3, <1>4, <1>5, <1>6, <1>7 DEF Next

\* Alerts keeps its invariant.
THEOREM Invariance == Spec => []IInv
  <1> QED BY InitIInv, Step, PTL DEF Spec

\* Rows, runs and requests keep their types, however the sweep, the employers
\* and the candidates interleave.
THEOREM TypeCorrect == Spec => []TypeOK
  <1>1. IInv => TypeOK
    BY DEF IInv
  <1> QED BY <1>1, Invariance, PTL

\* The alert and its notice, and the offer and its prompt, come together and
\* once, whatever dies or is tried twice (service.py and sponsorship.py).
THEOREM NobodyIsToldTwice == Spec => []ToldOnce
  <1>1. IInv => ToldOnce
    BY DEF IInv
  <1> QED BY <1>1, Invariance, PTL

\* No sweep passes either cap, however many vacancies it covers and whatever
\* happens between its reads and its commit (service.py, _recent_alert_counts).
THEOREM CapsHold == Spec => []WithinTheCaps
  <1>1. IInv => WithinTheCaps
    BY DEF IInv
  <1> QED BY <1>1, Invariance, PTL
=============================================================================

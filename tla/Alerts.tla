------------------------------- MODULE Alerts -------------------------------
(***************************************************************************)
(* Telling people about vacancies they did not go looking for.              *)
(*                                                                          *)
(* Models api/modules/alerts/service.py (sweep, alert_preference) and       *)
(* sponsorship.py (offer).  The sweep is a cron job: one transaction that   *)
(* claims a batch of vacancies, decides vacancy by vacancy on what it reads *)
(* as it goes, and commits last; a constraint it breaks, or a crash, undoes *)
(* all of it.  arq cuts a run off after five minutes, when the next begins, *)
(* so there is one at a time; nothing keeps it apart from employers' offers.*)
(***************************************************************************)
EXTENDS Integers, FiniteSets, FiniteSetsExt

CONSTANTS
    Jobs,           \* vacancies, numbered by created_at
    People,
    Fit,            \* pairs that matching scores as a serious match
    NearMiss,       \* pairs that lack exactly one mandatory standard
    Offers,         \* employers' requests served at the same time
    Limit,          \* MAX_JOBS_PER_SWEEP
    PerJob,         \* max_alerts_per_job
    PerDay          \* max_alerts_per_candidate_per_day

ASSUME JobsAreOrdered == Jobs \subseteq Nat
ASSUME PairsArePairs == Fit \subseteq Jobs \X People /\ NearMiss \subseteq Jobs \X People
ASSUME LimitsAtLeastOne == {Limit, PerJob, PerDay} \subseteq Nat \ {0}
ASSUME FinitelyMany == IsFiniteSet(Jobs) /\ IsFiniteSet(People)

VARIABLES
    job,        \* job[j]: the row, as far as this module reads it
    person,     \* person[p]: the candidate's profile
    alert,      \* alert[<<j, p>>]: the JobAlert row
    intent,     \* intent[<<j, p>>]: the SponsorIntent row
    notices,    \* notices[<<j, p>>]: how often p's outbox tells of j
    prompts,    \* prompts[<<j, p>>]: how often it tells of an offer with j
    sweep,      \* the run of the cron job
    offer       \* offer[o]: the request o

vars == <<job, person, alert, intent, notices, prompts, sweep, offer>>

JobRows == [state : {"draft", "open", "closed", "deleted"}, alerted : BOOLEAN]
ProfileRows == {"willing", "opted_out", "erased"}
Runs == [stage : {"idle", "sweeping"}, jobs : SUBSET Jobs, left : SUBSET Jobs,
         tally : [People -> -1..PerDay], chosen : SUBSET (Jobs \X People)]
\* No run; while there is one, -1 is a tally not yet read.
NoRun == [stage |-> "idle", jobs |-> {}, left |-> {}, tally |-> [p \in People |-> -1], chosen |-> {}]
NoOffer == <<>>

\* Rows, runs and requests keep their types; a tally never passes the cap.
TypeOK ==
    /\ job \in [Jobs -> JobRows]
    /\ person \in [People -> ProfileRows]
    /\ alert \in [Jobs \X People -> {"none", "today", "earlier"}]
    /\ intent \in [Jobs \X People -> {"none", "silent", "today", "earlier"}]
    /\ notices \in [Jobs \X People -> Nat] /\ prompts \in [Jobs \X People -> Nat]
    /\ sweep \in Runs
    /\ offer \in [Offers -> {NoOffer} \cup ((Jobs \X People) \X BOOLEAN)]
----------------------------------------------------------------------------
\* open_job.
Open(j) == job[j].state = "open"
Unalerted == {j \in Jobs : Open(j) /\ ~job[j].alerted}

\* _recent_alert_counts: alerts of the last 24 hours, and no offers.
RecentAlerts(p) == Cardinality({j \in Jobs : alert[<<j, p>>] = "today"})

\* _may_message counts both.
RecentUnsolicited(p) == RecentAlerts(p) + Cardinality({j \in Jobs : intent[<<j, p>>] = "today"})

\* candidates_for_job, at or above the score that makes a serious match.
Eligible(j) == {p \in People : <<j, p>> \in Fit /\ person[p] # "erased"}
----------------------------------------------------------------------------
(* The sweep.                                                               *)

\* The oldest vacancies nobody has been told about.
SweepReads ==
    /\ sweep.stage = "idle" /\ Unalerted # {}
    /\ \E jobs \in SUBSET Unalerted :
         /\ Cardinality(jobs) = Min({Limit, Cardinality(Unalerted)})
         /\ \A j \in jobs, other \in Unalerted \ jobs : j < other
         /\ sweep' = [NoRun EXCEPT !.stage = "sweeping", !.jobs = jobs, !.left = jobs]
    /\ UNCHANGED <<job, person, alert, intent, notices, prompts, offer>>

\* Slip: the counts are read again for every vacancy.
TallyReread(j) == [p \in People |-> IF p \in Eligible(j) THEN RecentAlerts(p) ELSE sweep.tally[p]]

\* One tally for the whole sweep, read for a person when first met and not
\* already told of this vacancy.
Tally(j) ==
    [p \in People |->
       IF p \in Eligible(j) /\ alert[<<j, p>>] = "none" /\ sweep.tally[p] = -1
       THEN RecentAlerts(p) ELSE sweep.tally[p]]

\* max_alerts_per_candidate_per_day.
UnderTheCap(n) == n < PerDay

\* The loop over the candidates, best first: whoever is not told yet, has not
\* opted out and is under the day's cap, up to the vacancy's.  Whose score is
\* best is left open.
SweepDecides(j) ==
    /\ j \in sweep.left /\ j = Min(sweep.left)
    /\ LET tally == Tally(j)
           may == {p \in Eligible(j) :
                     alert[<<j, p>>] = "none" /\ person[p] = "willing" /\ UnderTheCap(tally[p])}
       IN \E chosen \in SUBSET may :
            /\ Cardinality(chosen) = Min({PerJob, Cardinality(may)})
            /\ sweep' = [sweep EXCEPT !.left = @ \ {j},
                                      !.chosen = @ \cup {<<j, p>> : p \in chosen},
                                      !.tally = [p \in People |->
                                                      tally[p] + IF p \in chosen THEN 1 ELSE 0]]
    /\ UNCHANGED <<job, person, alert, intent, notices, prompts, offer>>

\* What fails the flush: a vacancy or a profile that is gone.
Breaks ==
    \/ \E j \in sweep.jobs : job[j].state = "deleted"
    \/ \E pair \in sweep.chosen : person[pair[2]] = "erased"

\* Slip: a vacancy that suits nobody is not claimed.
ClaimedIfChosen == {j \in sweep.jobs : \E pair \in sweep.chosen : pair[1] = j}

\* Stamped before anybody is looked for.
Claimed == sweep.jobs

SweepCommits ==
    /\ sweep.stage = "sweeping" /\ sweep.left = {}
    /\ ~Breaks
    /\ job' = [j \in Jobs |-> [job[j] EXCEPT !.alerted = @ \/ j \in Claimed]]
    /\ alert' = [pair \in Jobs \X People |-> IF pair \in sweep.chosen THEN "today" ELSE alert[pair]]
    /\ notices' = [pair \in Jobs \X People |->
                     notices[pair] + IF pair \in sweep.chosen THEN 1 ELSE 0]
    /\ sweep' = NoRun
    /\ UNCHANGED <<person, intent, prompts, offer>>

SweepBreaks ==
    /\ sweep.stage = "sweeping" /\ sweep.left = {}
    /\ Breaks
    /\ sweep' = NoRun
    /\ UNCHANGED <<job, person, alert, intent, notices, prompts, offer>>

\* Slip: every notice is committed as it is queued.
SweepDiesHalfway ==
    /\ sweep.stage = "sweeping"
    /\ sweep' = NoRun
    /\ notices' = [pair \in Jobs \X People |-> notices[pair] + IF pair \in sweep.chosen THEN 1 ELSE 0]
    /\ UNCHANGED <<job, person, alert, intent, prompts, offer>>

\* The process dies, or is cut off: the claim and the alerts go together.
SweepDies ==
    /\ sweep.stage = "sweeping"
    /\ sweep' = NoRun
    /\ UNCHANGED <<job, person, alert, intent, notices, prompts, offer>>
----------------------------------------------------------------------------
(* An employer offers to sponsor the one standard somebody lacks.           *)

\* _near_miss, the look for an offer already made, and _may_message.
OfferReads(o) ==
    \E pair \in NearMiss :
        /\ offer[o] = NoOffer
        /\ Open(pair[1]) /\ person[pair[2]] # "erased" /\ intent[pair] = "none"
        /\ offer' = [offer EXCEPT ![o] =
                       <<pair, person[pair[2]] = "willing" /\ UnderTheCap(RecentUnsolicited(pair[2]))>>]
        /\ UNCHANGED <<job, person, alert, intent, notices, prompts, sweep>>

\* uq_sponsor_intent_job_profile is the real guard; what is gone refuses too.
OfferCommits(o) ==
    /\ offer[o] # NoOffer
    /\ LET pair == offer[o][1]
           told == offer[o][2]
           refused == intent[pair] # "none" \/ job[pair[1]].state = "deleted"
                        \/ person[pair[2]] = "erased"
       IN /\ intent' = IF refused THEN intent
                       ELSE [intent EXCEPT ![pair] = IF told THEN "today" ELSE "silent"]
          /\ prompts' = IF refused \/ ~told THEN prompts ELSE [prompts EXCEPT ![pair] = @ + 1]
    /\ offer' = [offer EXCEPT ![o] = NoOffer]
    /\ UNCHANGED <<job, person, alert, notices, sweep>>
----------------------------------------------------------------------------
(* Everybody else.                                                          *)

\* Publishing, closing (also by its date), reopening, unpublishing: none of
\* them clears alerted_at.
SetState(j) ==
    /\ job[j].state # "deleted"
    /\ \E state \in {"draft", "open", "closed"} \ {job[j].state} :
         job' = [job EXCEPT ![j].state = state]
    /\ UNCHANGED <<person, alert, intent, notices, prompts, sweep, offer>>

\* The rows go with the vacancy, or with the profile; the notices stay.
Without(rows, gone) == [pair \in Jobs \X People |-> IF pair \in gone THEN "none" ELSE rows[pair]]

DeleteJob(j) ==
    /\ job[j].state # "deleted"
    /\ job' = [job EXCEPT ![j].state = "deleted"]
    /\ alert' = Without(alert, {j} \X People)
    /\ intent' = Without(intent, {j} \X People)
    /\ UNCHANGED <<person, notices, prompts, sweep, offer>>

Erase(p) ==
    /\ person[p] # "erased"
    /\ person' = [person EXCEPT ![p] = "erased"]
    /\ alert' = Without(alert, Jobs \X {p})
    /\ intent' = Without(intent, Jobs \X {p})
    /\ notices' = [pair \in Jobs \X People |-> IF pair[2] = p THEN 0 ELSE notices[pair]]
    /\ prompts' = [pair \in Jobs \X People |-> IF pair[2] = p THEN 0 ELSE prompts[pair]]
    /\ UNCHANGED <<job, sweep, offer>>

SetPreference(p) ==
    /\ person[p] # "erased"
    /\ person' = [person EXCEPT ![p] = IF @ = "willing" THEN "opted_out" ELSE "willing"]
    /\ UNCHANGED <<job, alert, intent, notices, prompts, sweep, offer>>

\* Bound: 24 hours do not end inside a sweep, nor inside a request.
DayPasses ==
    /\ sweep = NoRun
    /\ \A o \in Offers : offer[o] = NoOffer
    /\ alert' = [pair \in Jobs \X People |-> IF alert[pair] = "today" THEN "earlier" ELSE alert[pair]]
    /\ intent' = [pair \in Jobs \X People |-> IF intent[pair] = "today" THEN "earlier" ELSE intent[pair]]
    /\ UNCHANGED <<job, person, notices, prompts, sweep, offer>>
----------------------------------------------------------------------------
Init ==
    /\ job = [j \in Jobs |-> [state |-> "draft", alerted |-> FALSE]]
    /\ person = [p \in People |-> "willing"]
    /\ alert = [pair \in Jobs \X People |-> "none"]
    /\ intent = [pair \in Jobs \X People |-> "none"]
    /\ notices = [pair \in Jobs \X People |-> 0]
    /\ prompts = [pair \in Jobs \X People |-> 0]
    /\ sweep = NoRun
    /\ offer = [o \in Offers |-> NoOffer]

Next ==
    \/ SweepReads \/ SweepCommits \/ SweepBreaks \/ SweepDies
    \/ \E o \in Offers : OfferReads(o) \/ OfferCommits(o)
    \/ \E j \in Jobs : SweepDecides(j) \/ SetState(j) \/ DeleteJob(j)
    \/ \E p \in People : Erase(p) \/ SetPreference(p)
    \/ DayPasses

Spec == Init /\ [][Next]_vars

\* cron starts a run every five minutes, and a run goes on; a worker is not
\* killed every time for ever, at whichever vacancy it has got to.
Fairness ==
    /\ WF_vars(SweepReads) /\ WF_vars(SweepBreaks)
    /\ (\A j \in Jobs : SF_vars(SweepDecides(j))) /\ SF_vars(SweepCommits)
FairSpec == Spec /\ Fairness
----------------------------------------------------------------------------
(* What it comes to.                                                        *)

\* "Told once, ever": wherever a run dies and however often it is tried again,
\* the notice in somebody's outbox and the row that says so come together, and
\* once; and so do an offer's, however many employers' colleagues tap at once.
Once(rows, told, outbox) ==
    \A pair \in Jobs \X People :
        /\ outbox[pair] <= 1
        /\ rows[pair] \in told => outbox[pair] = 1
        /\ job[pair[1]].state # "deleted" /\ rows[pair] \notin told => outbox[pair] = 0
ToldOnce ==
    Once(alert, {"today", "earlier"}, notices) /\ Once(intent, {"today", "earlier"}, prompts)

\* "Caps at both ends": nobody is alerted to more vacancies in a day than the
\* cap, nor more people to one vacancy, whichever vacancies one run covers and
\* however often a run starts over.
WithinTheCaps ==
    /\ \A p \in People : RecentAlerts(p) <= PerDay
    /\ \A j \in Jobs : Cardinality({p \in People : alert[<<j, p>>] # "none"}) <= PerJob

\* What a run relies on until it commits: whom it has chosen has not been told,
\* nor anybody else of the vacancies it claims, and its tally counts what was
\* sent today and what it is about to send.
ChosenFor(j) == {p \in People : <<j, p>> \in sweep.chosen}
ChosenOf(p) == {j \in Jobs : <<j, p>> \in sweep.chosen}
RunCountsRight ==
    /\ sweep.left \subseteq sweep.jobs
    /\ \A pair \in sweep.chosen : alert[pair] = "none" /\ pair[1] \in sweep.jobs \ sweep.left
    /\ \A j \in sweep.jobs : ~job[j].alerted
    /\ \A pair \in Jobs \X People : alert[pair] # "none" => job[pair[1]].alerted
    /\ \A j \in Jobs : Cardinality(ChosenFor(j)) <= PerJob
    /\ \A p \in People :
         IF sweep.tally[p] = -1 THEN ChosenOf(p) = {}
         ELSE RecentAlerts(p) + Cardinality(ChosenOf(p)) <= sweep.tally[p]

\* The invariant of the proofs.
IInv == TypeOK /\ ToldOnce /\ WithinTheCaps /\ RunCountsRight

\* The backlog drains: a vacancy that stays open is swept, even one that suits
\* nobody, and whatever fails or is deleted around it.
EveryVacancyIsSwept ==
    \A j \in Jobs : (Open(j) /\ ~job[j].alerted) ~> (job[j].alerted \/ ~Open(j))
=============================================================================

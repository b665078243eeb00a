------------------------------ MODULE Vacancy ------------------------------
(***************************************************************************)
(* A vacancy, the applications to it, and the consent they rest on.         *)
(*                                                                          *)
(* Models api/modules/applications/service.py (apply, withdraw,             *)
(* withdraw_all_live) and employer_service.py (set_status,                  *)
(* _close_if_filled), api/modules/identity/consent.py,                      *)
(* privacy/service.py withdraw_my_consent, the listing's own life in        *)
(* api/modules/marketplace/publishing.py and takedown.py, and the worker's  *)
(* close_expired in api/modules/alerts/service.py.                          *)
(*                                                                          *)
(* Each request is one database session at READ COMMITTED.  It is cut       *)
(* wherever another session can commit in between:                          *)
(*   asked     it has read the vacancy, without a lock;                     *)
(*   sweeping  (consent withdrawal) between two of its applications;        *)
(*   locked    it holds the application's row FOR UPDATE and has read it;   *)
(*   counted   (set_status) it has counted the positions that are filled.   *)
(***************************************************************************)
EXTENDS Integers, FiniteSets, FiniteSetsExt

CONSTANTS
    Jobs, Gigs, Cands,
    Positions,      \* Positions[j]: how many people the vacancy is for
    Dated,          \* vacancies with a closing date
    SweepLimit,     \* close_expired's limit
    Reqs,           \* requests served at the same time
    Served,         \* bound: the operations an instance serves
    MaxMail,        \* bound: (re)applications of one person to one vacancy
    None            \* no request, no vacancy, nobody

ASSUME GigsAreJobs == Gigs \subseteq Jobs
ASSUME PositionsAtLeastOne == Positions \in [Jobs -> Nat \ {0}]
ASSUME DatedAreJobs == Dated \subseteq Jobs
ASSUME SweepLimitAtLeastOne == SweepLimit \in Nat \ {0}
ASSUME MaxMailIsNat == MaxMail \in Nat
ASSUME NoneIsNone == None \notin Reqs \cup Jobs \cup Cands

VARIABLES
    job,        \* job[j]: the jobs row
    status,     \* status[j][u]: the applications row's status, "none" if there is none
    contact,    \* contact[j][u]: contact_shared_at and contact_revoked_at
    mail,       \* mail[j][u]: "application_received" rows queued for it
    paused,     \* paused[u]: consent_withdrawn_at is set
    row,        \* row[j][u]: who holds the application FOR UPDATE
    share,      \* share[u]: who holds the user row FOR SHARE
    req,        \* req[r]: the request r is serving
    expiring,   \* the rows the worker's close_expired has read and will write
    pausing,    \* history: the sweeps begun since u's consent was last withdrawn
    swept,      \* history: one of them has finished
    revived     \* history: applications an employer put back under consideration

vars == <<job, status, contact, mail, paused, row, share, req, expiring,
          pausing, swept, revived>>

Promised == INSTANCE Hiring
Withdrawable == Promised!Withdrawable
Outcomes == Promised!Outcomes

CloseReasons == {"filled", "withdrawn", "expired", "taken_down"}
JobRows == [exists : BOOLEAN, live : BOOLEAN, closed : CloseReasons \cup {"no"},
            taken : BOOLEAN, due : {"none", "ahead", "past"}]
Deleted == [exists |-> FALSE, live |-> FALSE, closed |-> "no", taken |-> FALSE,
            due |-> "none"]

RowOps == {"apply", "withdraw", "move", "sweep"}
ListingOps == {"publish", "unpublish", "close", "reopen"}
EmployerStatuses == {"shortlisted", "rejected", "hired"} \cup Outcomes
Idle == [stage |-> "idle"]
Requests ==
    {q \in [stage : {"stamped", "sweeping", "asked", "locked", "counted"},
            op : RowOps \cup ListingOps, cand : Cands \cup {None}, job : Jobs \cup {None},
            to : {"none"} \cup CloseReasons \cup EmployerStatuses, seen : JobRows,
            was : Promised!Statuses, left : SUBSET Jobs, fills : BOOLEAN] :
        /\ q.op \in RowOps => q.cand \in Cands
        /\ IF q.stage \in {"stamped", "sweeping"} THEN q.op = "sweep" /\ q.job = None
           ELSE q.job \in Jobs
        /\ q.stage = "locked" => q.op \in RowOps
        /\ q.stage = "counted" => q.op = "move" /\ q.to \in Promised!EmployerMoves(q.job, q.was)
        /\ q.op = "close" => q.to \in CloseReasons}

TypeOK ==
    /\ job \in [Jobs -> JobRows]
    /\ status \in [Jobs -> [Cands -> Promised!Statuses]]
    /\ contact \in [Jobs -> [Cands -> Promised!Disclosures]]
    /\ mail \in [Jobs -> [Cands -> Nat]]
    /\ paused \in [Cands -> BOOLEAN]
    /\ row \in [Jobs -> [Cands -> Reqs \cup {None}]]
    /\ share \in [Cands -> SUBSET Reqs]
    /\ req \in [Reqs -> Requests \cup {Idle}]
    /\ expiring \subseteq Jobs
    /\ pausing \in [Cands -> SUBSET Reqs]
    /\ swept \in [Cands -> BOOLEAN]
    /\ revived \subseteq Jobs \X Cands

applications == <<status, contact, mail>>
----------------------------------------------------------------------------
(* What the handlers read, and how they write it back.                      *)

\* Job.is_open, and its twin in SQL.
IsOpen(j) == job[j].exists /\ job[j].live /\ job[j].closed = "no"

Active(r) == req[r].stage # "idle"

\* The ORM's UPDATE names the columns whose value differs from what was read,
\* and leaves the others as they are by now.
Written(now, seen, want) ==
    [c \in DOMAIN now |-> IF want[c] = seen[c] THEN now[c] ELSE want[c]]

\* FILLED_STATUSES: who occupies a position once u's application is at `to`.
Filled(j, u, to) ==
    Cardinality({w \in Cands \ {u} : status[j][w] \in {"hired", "completed"}})
        + (IF to \in {"hired", "completed"} THEN 1 ELSE 0)

\* The request is over: its transaction ends and its row locks come free.
Unlocked(r) == [j \in Jobs |-> [u \in Cands |-> IF row[j][u] = r THEN None ELSE row[j][u]]]
Finish(r) ==
    /\ req' = [req EXCEPT ![r] = Idle]
    /\ row' = Unlocked(r)
    /\ share' = [u \in Cands |-> share[u] \ {r}]
    /\ pausing' = [u \in Cands |-> pausing[u] \ {r}]

----------------------------------------------------------------------------
(* A request arrives and makes its first reads.                             *)

Asked(what, u, j, to, seen) ==
    [stage |-> "asked", op |-> what, cand |-> u, job |-> j, to |-> to, seen |-> seen,
     was |-> "none", left |-> {}, fills |-> FALSE]

Arrive(r, what, q) ==
    /\ what \in Served
    /\ req[r] = Idle
    /\ req' = [req EXCEPT ![r] = q]
    /\ UNCHANGED <<job, applications, row, expiring, swept, revived>>

\* apply: require_not_paused takes the person's row FOR SHARE and keeps it to
\* the end; _open_job reads the vacancy without a lock.
ApplyAsks(r) ==
    \E u \in Cands, j \in Jobs :
        /\ ~paused[u]
        /\ IsOpen(j)
        /\ mail[j][u] < MaxMail
        /\ Arrive(r, "apply", Asked("apply", u, j, "none", Deleted))
        /\ share' = [share EXCEPT ![u] = @ \cup {r}]
        /\ UNCHANGED <<paused, pausing>>

WithdrawAsks(r) ==
    \E u \in Cands, j \in Jobs :
        /\ status[j][u] # "none"
        /\ Arrive(r, "withdraw", Asked("withdraw", u, j, "none", Deleted))
        /\ UNCHANGED <<paused, share, pausing>>

\* Slip: any status is taken from the request, not only an employer's.
MoveAsksAnyStatus(r) ==
    \E u \in Cands, j \in Jobs, to \in Promised!Statuses :
        /\ status[j][u] # "none"
        /\ Arrive(r, "move", Asked("move", u, j, to, job[j]))
        /\ UNCHANGED <<paused, share, pausing>>

\* set_status: _job_of reads the vacancy, whatever its state.
MoveAsks(r) ==
    \E u \in Cands, j \in Jobs, to \in EmployerStatuses :
        /\ status[j][u] # "none"
        /\ Arrive(r, "move", Asked("move", u, j, to, job[j]))
        /\ UNCHANGED <<paused, share, pausing>>

\* Slip: the person's row is stamped through a lock nobody else's read takes.
StampWithoutWaiting(r) ==
    \E u \in Cands :
        /\ Arrive(r, "sweep", [Asked("sweep", u, None, "none", Deleted) EXCEPT !.stage = "stamped"])
        /\ paused' = [paused EXCEPT ![u] = TRUE]
        /\ pausing' = [pausing EXCEPT ![u] = @ \cup {r}]
        /\ UNCHANGED share

\* withdraw_my_consent: the stamp is committed first, and its UPDATE waits for
\* every transaction that shares the person's row.  Already stamped, it goes
\* straight on to the sweep.
Stamp(r) ==
    \E u \in Cands :
        /\ paused[u] \/ share[u] = {}
        /\ Arrive(r, "sweep", [Asked("sweep", u, None, "none", Deleted) EXCEPT !.stage = "stamped"])
        /\ paused' = [paused EXCEPT ![u] = TRUE]
        /\ pausing' = [pausing EXCEPT ![u] = @ \cup {r}]
        /\ UNCHANGED share

\* set_published, close_job and reopen_job: the row they read, and what they
\* refuse on it.  Closing what is closed is a no-op.
ListingAsks(r) ==
    \E j \in Jobs, what \in ListingOps, to \in {"none", "filled", "withdrawn"} :
        /\ job[j].exists
        /\ (what = "close") <=> (to # "none")
        /\ what \in {"publish", "reopen"} => ~job[j].taken
        /\ what = "close" => job[j].closed = "no"
        /\ Arrive(r, what, Asked(what, None, j, to, job[j]))
        /\ UNCHANGED <<paused, share, pausing>>

(* The sweep of withdraw_all_live, one application after another.           *)

\* live_applications.
List(r) ==
    /\ req[r].stage = "stamped"
    /\ req' = [req EXCEPT ![r].stage = "sweeping",
                 ![r].left = {j \in Jobs : status[j][req[r].cand] \in Withdrawable}]
    /\ UNCHANGED <<job, applications, paused, row, share, expiring, pausing, swept, revived>>

SweepNext(r) ==
    /\ req[r].stage = "sweeping"
    /\ \E j \in req[r].left :
         req' = [req EXCEPT ![r].stage = "asked", ![r].job = j, ![r].left = @ \ {j}]
    /\ UNCHANGED <<job, applications, paused, row, share, expiring, pausing, swept, revived>>

SweepEnds(r) ==
    /\ req[r].stage = "sweeping" /\ req[r].left = {}
    /\ Finish(r)
    /\ swept' = [u \in Cands |-> swept[u] \/ r \in pausing[u]]
    /\ UNCHANGED <<job, applications, paused, expiring, revived>>
----------------------------------------------------------------------------
(* Under the application's row lock.                                        *)

\* Slip: SELECT without FOR UPDATE.
LockWithoutWaiting(r) ==
    /\ req[r].stage = "asked" /\ req[r].op \in RowOps
    /\ LET j == req[r].job
           u == req[r].cand
       IN /\ row' = IF status[j][u] = "none" THEN row ELSE [row EXCEPT ![j][u] = r]
          /\ req' = [req EXCEPT ![r].stage = "locked", ![r].was = status[j][u]]
    /\ UNCHANGED <<job, applications, paused, share, expiring, pausing, swept, revived>>

\* SELECT ... FOR UPDATE OF applications: it waits for whoever holds the row,
\* and there is nothing to lock while the person has not applied.
Lock(r) ==
    /\ req[r].stage = "asked" /\ req[r].op \in RowOps
    /\ LET j == req[r].job
           u == req[r].cand
       IN /\ row[j][u] = None
          /\ row' = IF status[j][u] = "none" THEN row ELSE [row EXCEPT ![j][u] = r]
          /\ req' = [req EXCEPT ![r].stage = "locked", ![r].was = status[j][u]]
    /\ UNCHANGED <<job, applications, paused, share, expiring, pausing, swept, revived>>

\* What each handler accepts, of the status it has read.  A first application
\* is an insert, which uq_application_job_profile and the foreign key arbitrate.
Accepts(q) ==
    CASE q.op = "apply" -> \/ q.was = "withdrawn"
                           \/ q.was = "none" /\ status[q.job][q.cand] = "none" /\ job[q.job].exists
      [] q.op = "move"  -> q.to \in Promised!EmployerMoves(q.job, q.was)
      [] OTHER          -> q.was \in Withdrawable

\* Refused (404, 409, 422) or, for withdraw, already so.  A sweep goes on to
\* the next application in the same transaction, and keeps this one's row.
Decline(r) ==
    /\ req[r].stage = "locked" /\ ~Accepts(req[r])
    /\ IF req[r].op = "sweep"
       THEN /\ req' = [req EXCEPT ![r].stage = "sweeping", ![r].job = None, ![r].was = "none"]
            /\ UNCHANGED <<row, share, pausing>>
       ELSE Finish(r)
    /\ UNCHANGED <<job, applications, paused, expiring, swept, revived>>

\* apply: the row, the disclosure and the employer's notice are one commit.
CommitApply(r) ==
    /\ req[r].stage = "locked" /\ req[r].op = "apply" /\ Accepts(req[r])
    /\ LET j == req[r].job
           u == req[r].cand
       IN /\ status' = [status EXCEPT ![j][u] = "applied"]
          /\ contact' = [contact EXCEPT ![j][u] = "shared"]
          /\ mail' = [mail EXCEPT ![j][u] = @ + 1]
          /\ revived' = revived \ {<<j, u>>}
    /\ Finish(r)
    /\ UNCHANGED <<job, paused, expiring, swept>>

\* withdraw commits; a sweep's locks all come free with it, and it goes on.
CommitWithdraw(r) ==
    /\ req[r].stage = "locked" /\ req[r].op \in {"withdraw", "sweep"} /\ Accepts(req[r])
    /\ status' = [status EXCEPT ![req[r].job][req[r].cand] = "withdrawn"]
    /\ contact' = [contact EXCEPT ![req[r].job][req[r].cand] = "revoked"]
    /\ IF req[r].op = "sweep"
       THEN /\ req' = [req EXCEPT ![r].stage = "sweeping", ![r].job = None, ![r].was = "none"]
            /\ row' = Unlocked(r)
            /\ UNCHANGED <<share, pausing>>
       ELSE Finish(r)
    /\ UNCHANGED <<job, mail, paused, expiring, swept, revived>>

\* _close_if_filled: the count sees this change, flushed, and what others have
\* committed; whether the vacancy is closed is what _job_of read.
Count(r) ==
    /\ req[r].stage = "locked" /\ req[r].op = "move" /\ Accepts(req[r])
    /\ LET q == req[r]
       IN req' = [req EXCEPT ![r].stage = "counted",
                    ![r].fills = /\ q.seen.closed = "no"
                                 /\ Filled(q.job, q.cand, q.to) >= Positions[q.job]]
    /\ UNCHANGED <<job, applications, paused, row, share, expiring, pausing, swept, revived>>

CommitMove(r) ==
    /\ req[r].stage = "counted"
    /\ LET q == req[r]
       IN /\ status' = [status EXCEPT ![q.job][q.cand] = q.to]
          /\ job' = IF q.fills
                    THEN [job EXCEPT ![q.job] =
                            Written(@, q.seen, [q.seen EXCEPT !.closed = "filled"])]
                    ELSE job
          /\ revived' = IF q.to \in Withdrawable /\ q.was \notin Withdrawable
                        THEN revived \cup {<<q.job, q.cand>>} ELSE revived
    /\ Finish(r)
    /\ UNCHANGED <<contact, mail, paused, expiring, swept>>
----------------------------------------------------------------------------
(* The listing, the operators, the clock and the worker.                    *)

\* What set_published, close_job and reopen_job leave of the row they read.
After(what, to, seen) ==
    CASE what = "publish"   -> [seen EXCEPT !.live = TRUE]
      [] what = "unpublish" -> [seen EXCEPT !.live = FALSE]
      [] what = "close"     -> [seen EXCEPT !.closed = to]
      [] OTHER -> [seen EXCEPT !.closed = "no", !.due = IF @ = "past" THEN "none" ELSE @]

CommitListing(r) ==
    /\ req[r].stage = "asked" /\ req[r].op \in ListingOps
    /\ LET q == req[r]
       IN job' = IF job[q.job].exists
                 THEN [job EXCEPT ![q.job] = Written(@, q.seen, After(q.op, q.to, q.seen))]
                 ELSE job
    /\ Finish(r)
    /\ UNCHANGED <<applications, paused, expiring, swept, revived>>

\* take_down and restore hold the jobs row from their read to their commit.
TakeDown(j) ==
    /\ "take_down" \in Served
    /\ job[j].exists /\ ~job[j].taken
    /\ job' = [job EXCEPT ![j].live = FALSE, ![j].taken = TRUE,
                          ![j].closed = IF @ = "no" THEN "taken_down" ELSE @]
    /\ UNCHANGED <<applications, paused, row, share, req, expiring, pausing, swept, revived>>

Restore(j) ==
    /\ "take_down" \in Served
    /\ job[j].exists /\ job[j].taken
    /\ job' = [job EXCEPT ![j].taken = FALSE,
                          ![j].closed = IF @ = "taken_down" THEN "no" ELSE @]
    /\ UNCHANGED <<applications, paused, row, share, req, expiring, pausing, swept, revived>>

\* Slip: the cascade does not wait for the applications' row locks.
DeleteWithoutWaiting(j) ==
    /\ "delete" \in Served
    /\ job[j].exists
    /\ job' = [job EXCEPT ![j] = Deleted]
    /\ status' = [status EXCEPT ![j] = [u \in Cands |-> "none"]]
    /\ contact' = [contact EXCEPT ![j] = [u \in Cands |-> "never"]]
    /\ revived' = revived \ ({j} \X Cands)
    /\ UNCHANGED <<mail, paused, row, share, req, expiring, pausing, swept>>

\* delete_job: its applications go with it (ON DELETE CASCADE), once nobody
\* holds one of their rows.
Delete(j) ==
    /\ "delete" \in Served
    /\ job[j].exists
    /\ \A u \in Cands : row[j][u] = None
    /\ job' = [job EXCEPT ![j] = Deleted]
    /\ status' = [status EXCEPT ![j] = [u \in Cands |-> "none"]]
    /\ contact' = [contact EXCEPT ![j] = [u \in Cands |-> "never"]]
    /\ revived' = revived \ ({j} \X Cands)
    /\ UNCHANGED <<mail, paused, row, share, req, expiring, pausing, swept>>

\* restore_consent: its UPDATE, too, waits for whoever shares the row.
Resume(u) ==
    /\ "resume" \in Served
    /\ paused[u] /\ share[u] = {}
    /\ paused' = [paused EXCEPT ![u] = FALSE]
    /\ pausing' = [pausing EXCEPT ![u] = {}]
    /\ swept' = [swept EXCEPT ![u] = FALSE]
    /\ UNCHANGED <<job, applications, row, share, req, expiring, revived>>

\* The clock passes closes_at.
DuePasses(j) ==
    /\ job[j].due = "ahead"
    /\ job' = [job EXCEPT ![j].due = "past"]
    /\ UNCHANGED <<applications, paused, row, share, req, expiring, pausing, swept, revived>>

\* Slip: the worker's query does not leave out what is already closed.
ExpirableClosedToo == {j \in Jobs : job[j].live /\ job[j].due = "past"}

Expirable == {j \in Jobs : IsOpen(j) /\ job[j].due = "past"}

\* close_expired: a batch, in no order, and one commit for all of it.
ExpireRead ==
    /\ expiring = {} /\ Expirable # {}
    /\ \E n \in 1..SweepLimit :
         /\ n = SweepLimit \/ n = Cardinality(Expirable)
         /\ n <= Cardinality(Expirable)
         /\ expiring' \in kSubset(n, Expirable)
    /\ UNCHANGED <<job, applications, paused, row, share, req, pausing, swept, revived>>

\* A row deleted meanwhile may fail the whole batch, which the next run takes up.
ExpireWrite ==
    /\ expiring # {}
    /\ expiring' = {}
    /\ \/ job' = [j \in Jobs |-> IF j \in expiring /\ job[j].exists
                                 THEN [job[j] EXCEPT !.closed = "expired"] ELSE job[j]]
       \/ /\ \E j \in expiring : ~job[j].exists
          /\ UNCHANGED job
    /\ UNCHANGED <<applications, paused, row, share, req, pausing, swept, revived>>

\* A crash, a lost connection, a statement timeout, a deadlock Postgres breaks:
\* what was not committed is rolled back.
ExpireCrash ==
    /\ expiring # {}
    /\ expiring' = {}
    /\ UNCHANGED <<job, applications, paused, row, share, req, pausing, swept, revived>>
Abort(r) ==
    /\ Active(r)
    /\ Finish(r)
    /\ UNCHANGED <<job, applications, paused, expiring, swept, revived>>
----------------------------------------------------------------------------
Init ==
    /\ job = [j \in Jobs |-> [exists |-> TRUE, live |-> TRUE, closed |-> "no", taken |-> FALSE,
                              due |-> IF j \in Dated THEN "ahead" ELSE "none"]]
    /\ status = [j \in Jobs |-> [u \in Cands |-> "none"]]
    /\ contact = [j \in Jobs |-> [u \in Cands |-> "never"]]
    /\ mail = [j \in Jobs |-> [u \in Cands |-> 0]]
    /\ paused = [u \in Cands |-> FALSE]
    /\ row = [j \in Jobs |-> [u \in Cands |-> None]]
    /\ share = [u \in Cands |-> {}]
    /\ req = [r \in Reqs |-> Idle]
    /\ expiring = {}
    /\ pausing = [u \in Cands |-> {}]
    /\ swept = [u \in Cands |-> FALSE]
    /\ revived = {}

Commit(r) == CommitApply(r) \/ CommitWithdraw(r) \/ CommitMove(r) \/ CommitListing(r)
Continue(r) == List(r) \/ SweepNext(r) \/ SweepEnds(r) \/ Decline(r) \/ Count(r) \/ Commit(r)

Next ==
    \/ \E r \in Reqs :
         \/ ApplyAsks(r) \/ WithdrawAsks(r) \/ MoveAsks(r) \/ Stamp(r) \/ ListingAsks(r)
         \/ Lock(r) \/ Continue(r) \/ Abort(r)
    \/ \E j \in Jobs : TakeDown(j) \/ Restore(j) \/ Delete(j) \/ DuePasses(j)
    \/ \E u \in Cands : Resume(u)
    \/ ExpireRead \/ ExpireWrite \/ ExpireCrash

Spec == Init /\ [][Next]_vars

\* The cron runs every hour, and a crash does not strike every run.
Fairness == WF_vars(ExpireRead) /\ SF_vars(ExpireWrite)

FairSpec == Spec /\ Fairness
----------------------------------------------------------------------------
(* Properties.                                                              *)

\* apply, withdraw and set_status, however they interleave, never leave an
\* application or its disclosure in a state that one of them alone could not:
\* no decision is overwritten, nothing taken back is moved along, an outcome
\* is final, nobody applies while paused, and every application is announced
\* once.
Promise == Promised!Spec

\* withdraw and set_status: what was read under FOR UPDATE is still so when
\* the decision taken on it is written.
ReadStands ==
    \A r \in Reqs : Active(r) /\ req[r].stage \in {"locked", "counted"} /\ req[r].was # "none" =>
        /\ status[req[r].job][req[r].cand] = req[r].was
        /\ row[req[r].job][req[r].cand] = r

\* withdraw_consent: "the sweep that follows cannot be outrun by an apply in
\* flight".  Once a sweep has finished, nothing stays under consideration but
\* what an employer has put back there since.
PausedSharesNothing ==
    \A u \in Cands : paused[u] /\ swept[u] =>
        \A j \in Jobs : status[j][u] \in Withdrawable => <<j, u>> \in revived

\* What that rests on: an apply in flight shares the person's row, so consent
\* is not withdrawn under it; a sweep under the stamp in force has, of what it
\* has passed, left nothing that no employer has put back.
Disclosing ==
    \A r \in Reqs : Active(r) /\ req[r].op = "apply" =>
        r \in share[req[r].cand] /\ ~paused[req[r].cand]
PausesInForce ==
    \A u \in Cands :
        /\ pausing[u] # {} \/ swept[u] => paused[u]
        /\ \A r \in pausing[u] : Active(r) /\ req[r].op = "sweep" /\ req[r].cand = u
SweepLeavesNothing ==
    \A u \in Cands, r \in Reqs : r \in pausing[u] /\ req[r].stage # "stamped" =>
        \A j \in Jobs : status[j][u] \in Withdrawable =>
            \/ <<j, u>> \in revived
            \/ j \in req[r].left
            \/ j = req[r].job /\ (req[r].stage = "locked" => req[r].was \in Withdrawable)

\* The inductive invariant of VacancyProofs.
IInv ==
    /\ TypeOK /\ ReadStands
    /\ Disclosing /\ PausesInForce /\ SweepLeavesNothing
    /\ PausedSharesNothing

\* close_expired: a vacancy whose closing date has passed does not stay open,
\* whatever batches, crashes and deletions the worker meets.
OverdueCloses ==
    \A j \in Jobs : IsOpen(j) /\ job[j].due = "past" ~> ~(IsOpen(j) /\ job[j].due = "past")

\* _close_if_filled's docstring: "correct after an un-hire, a withdrawal, or
\* two hires landing at once".
FilledIsClosed ==
    \A j \in Jobs :
        /\ job[j].exists
        /\ \A r \in Reqs : ~Active(r)
        /\ Cardinality({w \in Cands : status[j][w] \in {"hired", "completed"}}) >= Positions[j]
        => job[j].closed # "no"

\* refuse_while_taken_down's docstring: "409 on any attempt to put a removed
\* listing live".
TakenDownStaysDown == \A j \in Jobs : job[j].taken => ~job[j].live
=============================================================================

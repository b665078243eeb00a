# IISM: TLA+ models, checks and proofs

IISM (`src/api`, a FastAPI modular monolith over PostgreSQL and Redis, with an arq worker, a web
and a mobile client) brings together people looking for work, employers, and training
organisations. Almost everything that is hard in it comes from one fact: **every request is its own
database session at READ COMMITTED**, with autoflush and `expire_on_commit` off
(`api/core/database.py`), so a handler decides on what it has read and another session may commit
between the read and the write. Where that matters the code takes row locks (`FOR NO KEY UPDATE` on
a tenant, `FOR UPDATE` on an application, `FOR SHARE` on a user, a centre or an arrangement, `SKIP
LOCKED` on the outbox), re-reads under them, or leaves the decision to a unique index. These modules
state what that is meant to achieve and check that it does.

## 1. Inventory

| Part | State | Operations | Talks to | What makes it hard |
|---|---|---|---|---|
| `identity/invitations`, `member_routes` | tenants, memberships, invitations | offer, revoke, accept, set_role, remove, leave, transfer | outbox, privacy | last owner, stale authority, single use, lock order |
| `privacy` | the person's and the organisation's rows | delete_account, delete_organisation, withdraw_my_consent, export | all | several locks, re-read after the lock, sweeps |
| `identity/consent` | `users.consent_withdrawn_at` | require_not_paused, withdraw, restore | applications, interests | disclosure against withdrawal in flight |
| `applications` | applications | apply, withdraw, withdraw_all_live, set_status, _close_if_filled | marketplace, outbox | candidate and employer act at once; counting under a race |
| `marketplace/publishing`, `takedown` | jobs, courses | publish, close, reopen, update, delete, take_down, restore | applications, moderation | unlocked owner writes against locked operator writes |
| `marketplace/bulk` | jobs or courses, row by row | check, apply, publish_many | publishing | partial failure, uploading again, stale plans |
| `alerts` | `jobs.alerted_at`, job_alerts, sponsor_intents | sweep, close_expired, offer, alert_preference | matching, outbox | crons, batches, crashes, caps |
| `notifications` | notifications, device_tokens | enqueue, drain, push sweep, mark read, purge | providers | at-least-once, overlap, retries, retention |
| `batches`, `delivery`, `centres`, `identity/capabilities` | batches, arrangements, centres, capabilities | plan, publish, cancel; request, approve, revoke; open, close; switch | each other | share locks against revocation, lock order across tables |
| `interests` | course interests | register, withdraw, withdraw_all_live, set_status | consent, courses | as applications, but with locks left out on purpose |
| `moderation` | reports | submit, dismiss, takedown, restore, purge | takedown, outbox | two operators, one listing |
| `matching` | embeddings; else derived | score, bound, best pairs, pools, batch confirmation | alerts, dashboards | one rule written twice (Python and SQL), windows cut by rank over several statements |
| `grievances`, `applications/review_service` | grievances, reviews | acknowledge, close; write once | | one row |
| `core/security`, `mobile/src/core/api.ts`, `web/src/lib/api.ts` | refresh tokens in Redis | rotate, revoke, revoke all | every client | get-then-delete, parallel refreshes |
| `skills`, `careers`, `geography`, `assessment`, `analytics`, `operations` | reference data, events | import, read, append | all | none that is concurrent |
| `worker.py` | – | crons: drain every minute, alerts every 5, expiry hourly, purges nightly | all | overlap, crash |

What makes each of the modelled parts correct is listed in section 4; every hazard, at its line and
with the properties that cover it, is in `PROJECT.json` (`hazards`).

## 2. Modules

| Module | Models | Uses |
|---|---|---|
| `Ownership` | who belongs to an organisation and who owns it: `identity/invitations.py`, `provision_organisation`, the two deletions of `privacy/service.py` | |
| `Hiring` | **abstract**: the life of one application, one whole step at a time | |
| `Vacancy` | the same with requests, row locks, stale reads, the listing's own life, consent and the expiry cron | instantiates `Hiring` as `Promised` |
| `Outbox` | notices and the worker that sends them: `notifications/service.py` | |
| `Standing` | **abstract**: no batch is open under a right to deliver that has ended, unless it was spared while the right stood | |
| `Training` | arrangements, batches, centres, capabilities and a course's own life, with their locks and the revocation's sweep | instantiates `Standing` as `Promised` |
| `Upload` | a spreadsheet of listings applied row by row, beside edits by hand: `marketplace/bulk.py` | |
| `Alerts` | the sweep that tells candidates of vacancies, and employers' offers: `alerts/` | |
| `Courses` | a course, its people and the requests about it: what the next two share | |
| `Enquiry` | **abstract**: the life of an interest in a course | |
| `Interests` | the same with requests, locks (and those missing on purpose) and consent's second sweep | extends `Courses`, instantiates `Enquiry` as `Promised` |
| `Moderation` | reports about a course and what operators decide | extends `Courses` |
| `CoursePage` | both together with publication, deletion and erasure | extends `Interests`, `Moderation` |
| `Scoring` | the scorer, as exact fractions: `matching/scoring.py` | |
| `Matching` | the retrieval bound, its pair queries, an employer's pools, and `profiles_with_serious_match` in its statements | extends `Scoring` |
| `OwnershipProofs`, `VacancyProofs`, `OutboxProofs`, `AlertsProofs`, `TrainingProofs`, `CoursePageProofs`, `MatchingProofs`, `UploadProofs` | theorems | extend the module they are about |
| `MC…` | constants and symmetry for TLC | extend the module they are about |

Definitions called a *Slip* are plausible mistakes in the code (a lock left out, an off-by-one, a
re-check forgotten). No action of a specification uses them. Each is a replacement for the
definition that follows it, and with that replacement one of the properties fails; `PROJECT.json`
(`mutants`) says which.

### How a request is cut

A request `r` is a record, idle when it serves nothing. It is cut exactly where another session can
commit in between, and a stage is named for what the request already knows:

* `Ownership`: *arrived* (the route's dependency has read the caller's role, or the handler the
  invitation) – `TakeLock`, one tenant row at a time – *checked* (everything is read and passed,
  `Decide`; `Refuse` otherwise) – one of the `Commit…` actions. Handlers without the ownership
  lock arrive *checked*: what they decide on was read before.
* `Vacancy`: *asked* (the vacancy read without a lock) – `Lock` (the application `FOR UPDATE`) –
  *locked* – for `set_status` also *counted* (`_close_if_filled` has counted) – `Commit…`, or
  `Decline`. A consent sweep is *stamped*, then *sweeping* between two of its applications.
* `Training`: *asked* (the route has read) – *locked* (both organisations `FOR SHARE`); a plan or a
  publication is *taken* (the draft), *placed* (the centre `FOR SHARE`, open), *cleared* (every
  arrangement that covers the course `FOR SHARE`); a revocation is *sweeping*. The request carries
  the rows it holds, `x` `FOR UPDATE` and `s` `FOR SHARE`.
* `Interests`: *asked*, *locked*, *stamped* and *sweeping* as in `Vacancy`, and *writing* for
  `withdraw`, which reads the interest without a lock. `Moderation`: *asked* – *locked*, with the
  open reports it then decides on (`held`). Here the locks a request holds follow from its stage.
* `Upload`: *read* (the file is planned) – *apply*, row after row, each its own commit, and for an
  update between its read and its write *update* – *done*.
* `Alerts`: the sweep reads its batch, decides vacancy by vacancy on what it reads as it goes, and
  commits last. An offer reads and commits. arq's default `job_timeout` of 300 s equals the
  interval of the cron, so there is one sweep at a time.
* `Outbox`: a tick reads emails, sends one at a time, reads pushes, sends them, commits.
* `Matching`: *chunk* (the next candidates), *select* (a window of each one's pairs), *confirm*
  (load and score them), *done*; every statement sees what has been committed by then.

A commit is one action with everything the transaction writes. `Abort`, `ExpireCrash`, `TickDies`,
`SweepDies` and the upload's death are a crash, a lost connection, a statement timeout or a deadlock
that Postgres breaks: nothing uncommitted stays, and every row lock comes free. `TickDies` does not take
back what was sent, nor does an upload lose the rows it had committed.

Postgres is modelled by what the code relies on. A row lock waits for a conflicting one and is
released with the transaction. An `UPDATE` by the ORM names only the columns whose value differs
from what was read (`Written` in `Vacancy`), which is how two sessions can each leave half of a row.
`DELETE` and `ON DELETE CASCADE` wait for row locks. A unique index refuses the second row. A deleted
row fails the ORM's update and rolls the transaction back. In `Training`, two requests that wait for
each other are found and one is rolled back (`DeadlockVictim`).

### What the state stands for

* `Ownership`: `org`, `account`, `role`, `inv` are the tenant, user, membership and invitation rows. An
  invitation's address is the account it belongs to. `lock`: the tenant rows' lock. `admitted` and
  `unguarded` are history: who joined through an invitation, and which organisations an erasure
  removed its person from without holding their lock.
* `Vacancy`: `job` is the jobs row – `live` is `status = 'published'` (with `published_at`), `closed`
  is `closed_at` with its reason, `taken` is `taken_down_at`, `due` where `closes_at` lies.
  `status`/`contact`: the application and its disclosure record (`contact_shared_at`,
  `contact_revoked_at`). `mail`: "application_received" notices. `paused`: `consent_withdrawn_at`.
  `row`, `share`: who holds the application `FOR UPDATE`, the user row `FOR SHARE`. `expiring`: the
  batch `close_expired` has read. `pausing`, `swept`, `revived` are history.
* `Outbox`: `row` is status, attempts, age against the retention, read. An in-app notice never
  leaves `pending` in the table; its state in the model is what became of its push, which the code
  records as `pushed_at`. `sent` is what the provider has taken; `lost` and `unheard` are history: copies
  that a dead tick had sent, and copies taken without a confirmation, which the worker counts as failures.
* `Training`: `deal` is `CourseDeliveryAuthorisation`, `batch` the batch with its dates against today
  (*ahead*, *on*, *over*), `sells`/`delivers` the two capabilities. Ids are reused once a row is
  gone. A day does not end inside a transaction that holds the batch. `spared` is history: the batches a
  revocation's sweep left to an arrangement that was being ended by a sweep that had looked before they
  were planned.
* `Upload`: `listing` are the organisation's jobs (or courses) with reference, title and standards,
  the only columns the matching and the refusals read; one standard stands for every column. `up[u]`
  carries the row reports; `last`, `alone`, `kept` are history. A listing that is made takes an id
  nobody in flight has read.
* `Alerts`: `alert` and `intent` are the two tables, per pair, with whether the row is of the last 24
  hours; `notices` and `prompts` count what the outbox was given of either. A day does not end
  inside a sweep.
* `CoursePage`: `interest`, `contact`, `mail`, `told` (what the learner was last told), `paused` as in
  `Vacancy`; `report[c][u]`.
* `Matching`: `job[j]` is a form (what it asks for) and its state, `person[p]` what a candidate holds.

## 3. Order of work

Done, in this order: `Ownership`, `Hiring` and `Vacancy`, `Outbox`; then `Standing` and `Training`;
`Enquiry`, `Courses`, `Interests`, `Moderation` and `CoursePage`; `Alerts`; `Upload`; `Scoring` and
`Matching`; the proofs about `Alerts`, `Outbox`, `Training`, `CoursePage`, `Matching` and `Upload`.

What is left, in this order:

1. refresh tokens in Redis with a client that collapses its parallel refreshes and one that does not;
2. the uploads of centres and batches, which are `Upload` over other writers;
3. one-time codes, and grievances and reviews as far as two requests meet in them.

## 4. What the runs check

| Run | Bounds | What it shows |
|---|---|---|
| `ownership_lock_order` | 2 people, 2 organisations, 2 requests that demote or erase, fairness | `OwnerAlways`: no organisation is left ownerless. `DecisionsHold`: what was read under the lock holds at the commit. `OnlyOwnersRule`: nobody else changes a colleague's role. `LockQueueHasNoCircle`, and `EveryRequestEnds` |
| `ownership_invitations` | 2 people, 1 organisation, 2 invitations, 2 requests | `OneOpenInvitation` per address, `AcceptNeverDemotes` |
| `vacancy_applications` | 1 gig, 1 candidate, 2 requests, 2 (re)applications | `Promise`: the handlers implement `Hiring`. `ReadStands`: what `FOR UPDATE` read is so until the commit. `PausedSharesNothing`: a finished sweep has left nothing, whatever was in flight. `TypeOK` |
| `vacancy_expiry` | 2 dated vacancies, batches of 1, fairness | `OverdueCloses` |
| `outbox` | 1 email, 1 in-app notice, 2 ticks of one row each, 2 attempts, 1 crash, fairness | `NeverTwiceAtOnce`; `Accounted`: a second send only after a crash or a confirmation that was lost, and no more copies than tries and crashes; `RetriesEnd`; `OwedIsKept`; `EveryNoticeSettles` |
| `training` | 2 organisations, 1 course, 1 centre, 1 batch, 2 arrangements, 2 requests | `Promise`: the handlers implement `Standing`. `OpenBatchesAreCovered`: an open batch is covered, unless one of two overlapping revocations spared it for the other's sake; `ClassesHaveACentre`, `DealsHaveParties`, `TypeOK` |
| `upload` | 2 listings, 2 uploads at a time of 3 files, `Limit` 1, 1 write by hand | `PreviewKept`: what `check` foretold is what `apply` does, if nobody writes in between. `RepeatedFilesDoNotDouble`: the same file, not one that was corrected in between, makes nothing twice; `ReportsAreTrue`, whoever uploads at the same moment and whatever died before; `OnlyCarriedColumnsChange`; `TypeOK` |
| `alerts` | 2 vacancies, 2 people, 2 offers, batches of 2, caps of 1, fairness | `ToldOnce`, `WithinTheCaps`, `EveryVacancyIsSwept` |
| `course_page` | 2 courses of which 1 is published and moderated, 1 person who learns and reports, 2 requests | `Promise`: the handlers implement `Enquiry`. `PausedSharesNothing`, `DecisionsAreFinal`, `ActionedWithTheTakedown`, `TypeOK` |
| `matching` | 3 vacancies of 5 kinds, 3 candidates, retrieval of 2, chunks of 2, rounds of 1, 1 vacancy changes | `BoundNeverUndercuts`, `CountsAreTheScorers`, `RoutesAgree`, `BatchIsTheLoop`, `NobodyIsConfirmedForNothing` |

and two runs in which TLC finds what the code's comments say not to happen (`findings`):

| Run | What happens |
|---|---|
| `ownership_orphan` | somebody erasing their account joins, and becomes the only owner of, an organisation after the erasure chose which to lock; their colleagues are left without an owner |
| `vacancy_hire_race` | two hires at once on a vacancy for two each count one; it stays open ("correct after … two hires landing at once") |

All cfgs say `CHECK_DEADLOCK FALSE`: an instance serves finitely many operations (an organisation's
batches, a vacancy's applications and a day's notices are bounded), after which it may stop.

**Statements that fail, kept without a run.** They are defined in their modules with a remark, and
TLC finds each violated in the instance named:

| Statement | Instance | What happens |
|---|---|---|
| `Ownership!SingleUse` | `OwnershipInvitations.cfg` | two people who hold one link accept at once and both join ("Single use, by construction") |
| `Vacancy!TakenDownStaysDown` | `VacancyExpiry.cfg` | an owner's publish, read before an operator's takedown and committed after it, puts the removed listing live ("409 on any attempt to put a removed listing live") |
| `Training!NeverFromUnderLiveWork` | `Training.cfg` | `reopen_centre` and a course's publication read the capability without a lock, and it is switched off before they commit |
| `Training!EveryOpenBatchIsCovered` | `Training.cfg` | two arrangements cover a course; the sweep of one looks, a batch is planned, and the sweep of the other spares it because the first, not committed, still covers it; both end (against `delivery/service.py:121-123`) |
| `Upload!SameFileTwiceIsANoOp` | `Upload.cfg` with `Files <- Two`, 3 listings, `Limit = 2`, nothing by hand | a file that renames a listing by its reference and has a row with the old title creates that row the second time (against `bulk.py:30-31`) |
| `Matching!NobodyIsPassedOver` | `Matching.cfg` | a vacancy that closes moves the next one up, out of the window that is asked for next |
| `Matching!SameInputsSamePage` | `Matching.cfg` | of two held rows of one standard the last one read counts, and the query that reads them has no order |

Modelled, allowed by the actions, and not excluded by any property: the alert sweep does not count
offers, so one day may bring up to twice the cap; two offers at once each pass the check of the cap;
simultaneous uploads each have the whole daily allowance and, without references, each make their
rows; an edit by hand under an upload's update is overwritten with what was read; a publication read
before an update that empties the listing is committed after it; `delete_course` counts live batches
and then cascades over one planned since; reopening a vacancy clears the closure a takedown has just
stamped; a report filed between the operator's lock and the removal stays open; the sweep of interests
is ended by one whose course is gone; somebody applies to a vacancy that closed a moment ago; the sweep
of applications holds the row of one it was refused.

**Why the bounds are enough to be interesting.** Two requests are what each of these races needs. Two
invitations make the unique index and the lapsed row meet. Two organisations let erasures take locks in
both orders. A batch of one with two rows makes the queue's order and the remainder of a batch visible.
`MaxMail = 2` lets somebody withdraw and apply again once; in `course_page` it is 1, and a second
registration still happens when two requests overlap. One vacancy in `vacancy_applications` leaves no
room for a sweep to be overtaken between two of its applications: theorem `ConsentIsHonoured` covers
that for every number. In `training`, two arrangements over one batch make one cover what the other
leaves, and the two requests may both be revocations: that is the exception the promise names (see the
table above). `Pairs` and `Switches` say who deals with whom and which capability is ever switched: those a deal
depends on. The three files of `upload` are the ones in which rows of a file meet each other: renaming,
one reference twice, a broken row; `Limit = 1` makes the allowance run out within a file. `Hands` bounds
writes by hand. In `course_page`, `Listed`, `Learners` and `Reporters` say which courses and people are
about; the unlisted course is what a stale request may still name. A published course leaves the site there
by a takedown or a deletion, and `publish` brings a restored one back; `unpublish`, the same write the
other way round, is left to the proofs. In `alerts` a sweep takes both vacancies, since what it has not
flushed matters only from one to the next; with `Limit = 1`, where one vacancy waits behind the batch, the
three properties hold as well. In `matching`, `Moves = 1`
vacancy changes during the request, `semantic` is 5 where it is off by default, and CHUNK and
RETRIEVAL_LIMIT are smaller than the number of candidates and vacancies, so that a chunk and a window end in the middle. `MaxAttempts` is 2 instead of
5, `SweepLimit` 1 instead of 200, `Limit` of the outbox 1 instead of 50, `ROUND` 1 instead of 10: no code
depends on the numbers. `Served` restricts which operations an instance serves, to keep it small; the
specification and the proofs allow all of them. Symmetry is used on people, requests, invitations,
vacancies, arrangements, listings and uploads where they are interchangeable, never in a run with a
liveness property and never on what is ordered: organisations, by the lock order, and notices and
vacancies, by `created_at`.

**Fairness.** A handler that is not waiting for a row keeps running (WF on deciding and refusing).
Postgres grants a row lock in the order it was asked for, so a waiter is not overtaken for ever
(SF on `TakeLock` and on commits that wait for rows). A circle is broken by the deadlock detector (WF
on `DeadlockVictim`). The worker's crons run for ever, `close_expired` hourly, `drain` every minute and
the alert sweep every five, and each send ends, if only by the provider's timeout (WF on a tick's work; WF
on reading a batch; WF on `SweepBreaks`, the constraint that fails a commit). A crash does not strike
every run of the expiry or of the alert sweep (SF on writing the batch, on deciding each vacancy and on
the commit). Nothing is assumed about how people behave, and `Abort` is never fair.

**Refinements.** Three modules are checked to implement an abstract one by a mapping of their state:
`Vacancy` implements `Hiring` and `Interests` implements `Enquiry` with the variables of the same name,
`Training` implements `Standing` with a right for every organisation and course `MayDeliver` allows, and
a batch's *life* from its status and its dates; its `spared` is the history of that name. Every stage of a request maps to a stutter and every
commit to one step.

## 5. What is proved

tlapm checks the following for every value of the constants, whatever operations are served. *The
argument* is in each case that what the property says at a commit was decided earlier, and the
inductive invariant carries it from there.

**`OwnershipProofs`** – `Invariance` (`Spec => []IInv`), and from it `TypeCorrect`, `NeverOwnerless`
(`OwnerAlways`), `DecisionsStand` (`DecisionsHold`), `NothingIsLeftBehind`, `OneInvitationAtATime`
(`OneOpenInvitation`), `QueuesEnd` (`LockQueueHasNoCircle`), and the action properties `OnlyOwnersAct`
(`OnlyOwnersRule`), `OwnersWereMembers` and `OldInvitationsDemoteNobody` (`AcceptNeverDemotes`). Assumed:
tenant ids are numbers, `NoReq` is no request, `NoInvite` no row, finitely many requests. `OwnerAlways`
alone is not inductive: a commit removes an owner on the strength of an earlier check, so `IInv` adds
`DecisionsHold` – and that survives another commit only because two checked requests never concern one
organisation, which is `LocksHeld`. Then every commit of somebody else is of another organisation or only
adds members. `NamesExist` and `NothingOutlives` exclude the organisation created or deleted underneath. The
exception in `Guarded`, an organisation joined while its erasure was under way, is exactly the run
`ownership_orphan`. *Open* depends on the clock, which moves without anybody committing, so
`OneInvitationAtATime` goes by way of `OneUnspent`, what the unique index keeps: one invitation that is
neither accepted nor revoked, whether or not it has expired. `QueuesEnd` is an argument about finite sets:
by `LocksAscend` whoever takes tenant rows has all it holds below all it has yet to take, so the row a
request waits for is below the row its holder waits for; of any set of requests that wait, one waits for
the greatest row, and the request it waits for waits for nobody of the set.

**`VacancyProofs`** – `KeepsItsPromise` (`Spec => Promise`), `Invariance`, `TypeCorrect`, `DecisionsStand`
(`ReadStands`), `ConsentIsHonoured` (`PausedSharesNothing`). Assumed: gigs are vacancies, `None` is no
vacancy and no request. A step of `Hiring` tests the status and the consent *at* the step, the code tests
what it read earlier. `ReadStands` closes the gap for the status: whoever holds a decision holds the row.
A first application has no row to lock; the unique index and the foreign key decide it, at the commit.
`Disclosing` closes the gap for consent: an apply in flight shares the person's row, and the stamp waits
for it. `PausedSharesNothing` is not inductive, for the sweep reads its list and then goes through it;
`SweepLeavesNothing` says what it has passed, and `PausesInForce` that no apply can add to it behind its
back.

**`OutboxProofs`** – `NoNoticeIsSentTwiceAtOnce` (`NeverTwiceAtOnce`), `TriesAreBounded` (`RetriesEnd`),
`MessagesAreAccountedFor` (`Accounted`), `OwedEmailsAreKept` (`OwedIsKept`), `Invariance`, `TypeCorrect`. A
tick's rows are pending in the table and held by it alone, so what it writes at its commit is one try on
top of what it read. `Accounted` counts the ticks that have sent a notice; since one tick holds it, the
invariant says the same without a count. `TriesCover` bounds the copies: each try makes at most one, whatever
the provider answers, and a crash forgets at most the one try that was in hand.

**`AlertsProofs`** – `NobodyIsToldTwice` (`ToldOnce`), `CapsHold` (`WithinTheCaps`), `Invariance`,
`TypeCorrect`. Assumed: finitely many vacancies and people. The caps are about what the sweep *will*
write, which is in its session only: `RunCountsRight` says that its tally of a person is what was committed
when it was read plus what it has chosen since, and nothing that commits meanwhile adds an alert.

**`TrainingProofs`** – `ClassesKeepTheirCentre` (`ClassesHaveACentre`), `DealsKeepTheirParties`
(`DealsHaveParties`), `BatchesStayCovered` (`OpenBatchesAreCovered`), `KeepsItsPromise`
(`Spec => Promise`), `Invariance`, `TypeCorrect`, for any number of overlapping revocations. Assumed: the
parties of a pair differ, ids of different tables differ (`KindsDiffer`: a request's locks are a set of rows
of any table), `None` is no row. `Base` says that locks exclude each other
(`LocksApart`) and that what a request read under a lock it still holds is so (`Sound`). Coverage needs
more. Of a batch that has not begun, `Covered` says that it is its organisation's own course, or has been
spared, or that some arrangement *keeps* it (`Keeps`): covers it and is not being ended by a sweep unaware of
it. The first look of a revocation takes in all that is open, so it is unaware of nothing (`RevokeCovers`); a
planner shares the arrangement that covers its batch, so no sweep holds that one and it keeps the batch
(`WritesUnderCover`); and the sweep that ends the last arrangement that kept a batch either cancels it or,
where others cover it that are all being ended unaware, spares it, which is exactly the exception
(`EndRevokeCovers`).

**`CoursePageProofs`** – `KeepsItsPromise` (`Spec => Promise`, the refinement of `Enquiry`),
`ConsentIsHonoured` (`PausedSharesNothing`), `DecisionsStand` (`DecisionsAreFinal`),
`ActionedMeansRemoved` (`ActionedWithTheTakedown`), `Invariance`, `TypeCorrect`. Assumed: learners and
reporters are people, listed courses are courses, `None` is neither a course nor a person, and the bound
on registrations is a number. `Claims` says of each request that what it read under its locks is so, and
`LocksApart` that no interest and no report is locked twice, by which a request's claims outlive the
commits of others. Registering holds no lock on the interest when there is none yet; there the person's
row, shared until the commit, keeps consent as it was read. `Covers` is what the second sweep has to
visit: a course leaves its list only after its interest is no longer live, and while the stamp is there
nobody adds one (`NothingNew`). With `SweptIsPaused` that makes `PausedSharesNothing` inductive.
`Disclosed` ties the disclosure record to the status, so that the promise, which knows both, is met by
steps that write both.

**`MatchingProofs`** – `RetrievalLosesNothing` (`BoundNeverUndercuts`), `PoolsAreCountedRight`
(`CountsAreTheScorers`), `EitherRouteWillDo` (`RoutesAgree`), `TheBatchIsExact` (`BatchIsTheLoop`),
`ConfirmationsAreEarned` (`NobodyIsConfirmedForNothing`), `Invariance`, `TypeCorrect`: for every
catalogue, vacancy, candidate and set of weights. Assumed: the catalogue, people and vacancies are finite,
a concept is no row of it, levels, weights and thresholds are numbers, `MinScore`, the chunk, the round
and the limit positive, forms and profiles well formed, and of two embeddings that their cosine is at most 1. Nothing is assumed of the sum of the weights or of
their order.

* *The bound.* `BoundHolds` goes component by component: a level is credited no more than in full
  (`LevelBounds`), experience no more than its taper allows (`YearsBounds`), evidence no more than the
  strongest row (`EvidenceBounds`), and a weighted sum of credits is no more than the sum of the weights
  (`WeightedBelowFullMarks`). Fractions are compared by cross-multiplying (`LeqIsTotal`,
  `LeqIsTransitive`).
* *The routes.* Anchors are used only where the threshold is above the cap for a missing mandatory row.
  There a pair that is found lacks none of them (`AboveTheCap`), so probing through one, the row fewest
  people hold (`AnchorExists`), loses nobody.
* *Sums.* `Total` folds over a finite set, so its recursion needs an induction the provers do not do. It
  is replaced by descent: a set of counterexamples whose every member has a smaller member is empty
  (`Descent`). From it come the existence and uniqueness of the fold, `TotalStep` and `TotalBounds`.
* *The batch.* `LoopInv` says of everybody the batch has passed, in whatever round, that none of their
  vacancies at the ranks seen is a serious match for certain (`Passed`, which leaves room for the two
  orders of held rows), and of the windows that they are the ranks between two bounds. Ranks are
  contiguous and no two vacancies share one (`RanksAreContiguous`, `RankIsInjective`), so a window that is
  not full is the last (`WindowIsFull`) – which is what lets the code stop at it. This holds while no
  vacancy changes; what a change does is `NobodyIsPassedOver` in section 4.

**`UploadProofs`** – `PreviewsAreKept` (`PreviewKept`), `RepeatsDoNotDouble`
(`RepeatedFilesDoNotDouble`), `ReportsHold` (`ReportsAreTrue`), the action property `ColumnsLeaveAlone`
(`OnlyCarriedColumnsChange`), `Invariance`, `TypeCorrect`: for any files, listings, limits and number of
uploads. Assumed: files are sequences of rows and not empty, `None` is no value, bounds are numbers. The
four properties are about the end of a request, and none is inductive. `IInv` is in three layers, by what
others may have done since the request began. *Whatever* they did, `Shaped`: rows up to the one in hand
are settled, a row that writes repeats no row before it, and no listing is made twice. *Until something is
deleted*, `Truthful`: a row that was not refused has its reference in the listings. *While nobody else
writes*, `Steady` – what is left to write will succeed, since no two rows that write name one listing
(`WritersDiffer`) – and `Foretold`, what is left of the preview is what is left to do. `LastStands` keeps
a report that can still be read true of the listings, since a later request of the same file is compared
with it. `ReportsHold` takes of a row that repeats another the first that says it (`SaidFirst`, a least
number), and `RefsAreUnique`, the index.

**Model-checked only**: the liveness properties `EveryRequestEnds`, `OverdueCloses`, `EveryNoticeSettles` and
`EveryVacancyIsSwept` (fairness and `ENABLED` are out of the prover's reach), and the runs that expect a
violation. Every invariant, action property and refinement that a passing run checks is a
theorem, without a hypothesis beyond the assumptions on constants.

## 6. What is not modelled

* `Ownership`: centres are not organisations people own (`_is_stake`); the manager's role and the centre
  invitation are left out. `deletion_preview`'s reads are one step with each other (they follow the
  locks). `delete_account` is what it does to organisations, memberships and invitations; alerts,
  interests and reports that go with the account are in their own modules, the rest of a profile in none.
* The daily caps on applying, inviting and registering, which are counted without a lock (they may
  refuse at any time); duplicate names, credential changes, an employer's notes and message, rendering,
  addresses, logs and analytics events.
* `take_down` and `restore` are one step: they hold the row from their read to their commit.
* A row that `close_expired` read and that is deleted before its commit may or may not fail the
  batch, depending on how the driver counts rows; both are allowed.
* Uploads of centres and of batches (the pattern of `Upload` over other writers), the parsing and the
  lookups of a row, warnings.
* `Training`: the caps, a centre's staff and details, notices, `batches/bulk.py`. A sweep's judgement
  (`authorises`, batch by batch) and its commit are one step. In the code something may commit in between:
  an arrangement approved then comes too late to save a batch, which is cancelled though covered; and a
  revocation unaware of the batch may commit then instead of afterwards, with the same outcome.
* `Outbox`: `render` stands outside the `try` of a send, so a template that failed to render would end the
  tick and with it every later one. The templates queued at this commit render with what they are queued
  with; whether they do is left to the tests.
* `Matching`: the arithmetic is exact where the code's is in doubles, which the code allows for with a
  tolerance of 1e-9 (`MinBound` is exact); what a vacancy asks for and a candidate holds stays as it is
  during a request; an embedding is a value, and what the model knows of two is their cosine; weights are
  whole hundredths, as the defaults are, where the settings are floats; the state filter, the order of a page, `courses_closing_gap`, scarce skills and attendance.
* Refresh tokens and one-time codes: the rotation reads a token and deletes it in two commands, so two
  refreshes of one client can both succeed, and ending every session reads the set of tokens before it
  deletes them. Redis, and the clients, are another store and another kind of step than the rest.
* Grievances, reviews, operations: one row, locked, or written once behind a unique constraint.
* The skills catalogue and its importers, the seed scripts, careers, geography, assessment, analytics,
  and the two clients: reference data, reads, content or presentation, without state of their own that two
  requests could disagree about. They are most of the repository's lines, which is why the modules cover
  the smaller part of it.

## 7. Running

    tlc -workers 2 -config Training.cfg MCTraining.tla
    tlapm TrainingProofs.tla

Most runs take under a minute; `Training`, `CoursePage`, `Upload`, `OwnershipInvitations` and `Matching` one to three,
`OwnershipLockOrder` three.

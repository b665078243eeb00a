----------------------------- MODULE Interests -----------------------------
(***************************************************************************)
(* Interest in a course: the learner registers and takes back, the provider *)
(* moves it along, and a withdrawal of consent takes back all of it.        *)
(*                                                                          *)
(* Models api/modules/interests/service.py and provider_service.py, and the *)
(* part of api/modules/identity/consent.py and privacy/service.py           *)
(* withdraw_my_consent that ends interests.  A request is                   *)
(*   asked     when it has made its unlocked reads;                         *)
(*   locked    when it has read the interest FOR UPDATE;                    *)
(*   writing   when withdraw has read the interest, without a lock;         *)
(*   stamped, then sweeping, between the interests of a withdrawn consent.  *)
(***************************************************************************)
EXTENDS Courses

CONSTANTS
    Learners,   \* people who look for courses, and have the profile for it
    MaxMail     \* bound: registrations of one person for one course

ASSUME LearnersArePeople == Learners \subseteq People
ASSUME MaxMailIsNat == MaxMail \in Nat

VARIABLES
    interest, contact, mail, told, paused,  \* as in Enquiry
    sweeping,   \* history: the sweeps begun since u's consent was last withdrawn
    swept       \* history: one of them has finished

Promised == INSTANCE Enquiry

rows == <<interest, contact, mail, told>>
consent == <<paused, sweeping, swept>>
interestVars == <<rows, consent>>

\* Row locks: the person's row FOR SHARE, from require_not_paused to the end;
\* the interest FOR UPDATE, if there was one to lock.
Shared(u) == Serving("register", u) # {}
Free(c, u) ==
    \A r \in Reqs : req[r].stage = "locked" /\ req[r].op \in {"register", "move"} =>
        ~(req[r].course = c /\ req[r].who = u /\ req[r].was # "none")

Drop(r) ==
    /\ Finish(r)
    /\ sweeping' = [u \in People |-> sweeping[u] \ {r}]
----------------------------------------------------------------------------
\* register: ensure_profile, require_not_paused, and the course, published.
RegisterAsks(r) ==
    \E u \in Learners, c \in Courses :
        /\ account[u] /\ ~paused[u]
        /\ Public(c)
        /\ mail[c][u] < MaxMail
        /\ Arrive(r, Asked("register", u, c))
        /\ UNCHANGED <<course, account, interestVars>>

\* Slip: any status is taken from the request, not only a provider's.
MoveAsksAnyStatus(r) ==
    \E u \in People, c \in Listed, to \in Promised!Statuses :
        /\ interest[c][u] # "none"
        /\ Arrive(r, [Asked("move", u, c) EXCEPT !.to = to])
        /\ UNCHANGED <<course, account, interestVars>>

\* set_status: a course of the provider's own, in any state.
MoveAsks(r) ==
    \E u \in People, c \in Listed, to \in Promised!ProviderStatuses :
        /\ interest[c][u] # "none"
        /\ Arrive(r, [Asked("move", u, c) EXCEPT !.to = to])
        /\ UNCHANGED <<course, account, interestVars>>

\* Slip: SELECT without FOR UPDATE.
LockWithoutWaiting(r) ==
    /\ req[r].stage = "asked" /\ req[r].op \in {"register", "move"}
    /\ req' = [req EXCEPT ![r].stage = "locked", ![r].was = interest[req[r].course][req[r].who]]
    /\ UNCHANGED <<course, account, interestVars>>

\* SELECT ... FOR UPDATE OF course_interests, which refreshes the row.
Lock(r) ==
    /\ req[r].stage = "asked" /\ req[r].op \in {"register", "move"}
    /\ Free(req[r].course, req[r].who)
    /\ req' = [req EXCEPT ![r].stage = "locked", ![r].was = interest[req[r].course][req[r].who]]
    /\ UNCHANGED <<course, account, interestVars>>

\* A first registration is an insert, which the unique constraint and the
\* foreign keys arbitrate; a withdrawn one is taken up again.
Accepts(q) ==
    IF q.op = "move" THEN q.was \in Promised!LiveStatuses
    ELSE \/ q.was = "withdrawn"
         \/ /\ q.was = "none" /\ interest[q.course][q.who] = "none"
            /\ course[q.course].exists /\ account[q.who]

Decline(r) ==
    /\ req[r].stage = "locked" /\ req[r].op \in {"register", "move"}
    /\ ~Accepts(req[r])
    /\ Finish(r)
    /\ UNCHANGED <<course, account, interestVars>>

\* The row, the disclosure and the provider's notice are one commit.
CommitRegister(r) ==
    /\ req[r].stage = "locked" /\ req[r].op = "register" /\ Accepts(req[r])
    /\ LET c == req[r].course
           u == req[r].who
       IN /\ interest' = [interest EXCEPT ![c][u] = "registered"]
          /\ contact' = [contact EXCEPT ![c][u] = "shared"]
          /\ mail' = [mail EXCEPT ![c][u] = @ + 1]
    /\ Finish(r)
    /\ UNCHANGED <<course, account, told, consent>>

\* The learner is told of a status that changed; the same one again is a no-op.
CommitMove(r) ==
    /\ req[r].stage = "locked" /\ req[r].op = "move" /\ Accepts(req[r])
    /\ LET q == req[r]
       IN /\ interest' = [interest EXCEPT ![q.course][q.who] = q.to]
          /\ told' = IF q.to # q.was THEN [told EXCEPT ![q.course][q.who] = q.to] ELSE told
    /\ Finish(r)
    /\ UNCHANGED <<course, account, contact, mail, consent>>
----------------------------------------------------------------------------
\* withdraw: whatever is live, read without a lock; what is withdrawn already
\* is returned as it is.
WithdrawAsks(r) ==
    \E u \in People, c \in Courses :
        /\ interest[c][u] \in Promised!LiveStatuses
        /\ Arrive(r, [Asked("withdraw", u, c) EXCEPT !.stage = "writing"])
        /\ UNCHANGED <<course, account, interestVars>>

\* Slip: the person's row is stamped without waiting for who shares it.
StampWithoutWaiting(r) ==
    \E u \in Learners :
        /\ account[u]
        /\ Arrive(r, [Asked("sweep", u, None) EXCEPT !.stage = "stamped"])
        /\ paused' = [paused EXCEPT ![u] = TRUE]
        /\ sweeping' = [sweeping EXCEPT ![u] = @ \cup {r}]
        /\ UNCHANGED <<course, account, rows, swept>>

\* withdraw_consent: stamped and committed first, in an UPDATE that waits for
\* whoever shares the row.  Already stamped, it goes on to the sweep.
Stamp(r) ==
    \E u \in Learners :
        /\ account[u]
        /\ paused[u] \/ ~Shared(u)
        /\ Arrive(r, [Asked("sweep", u, None) EXCEPT !.stage = "stamped"])
        /\ paused' = [paused EXCEPT ![u] = TRUE]
        /\ sweeping' = [sweeping EXCEPT ![u] = @ \cup {r}]
        /\ UNCHANGED <<course, account, rows, swept>>

\* withdraw_all_live: the list, once, and then one after another.
List(r) ==
    /\ req[r].stage = "stamped"
    /\ req' = [req EXCEPT ![r].stage = "sweeping",
                 ![r].left = {c \in Courses : interest[c][req[r].who] \in Promised!LiveStatuses}]
    /\ UNCHANGED <<course, account, interestVars>>

\* withdraw finds the row as the list read it, or no row: a 404 that nothing
\* catches, which ends the sweep with the rest not taken back.
SweepNext(r) ==
    /\ req[r].stage = "sweeping"
    /\ \E c \in req[r].left :
         IF interest[c][req[r].who] = "none" THEN Drop(r)
         ELSE /\ req' = [req EXCEPT ![r].stage = "writing", ![r].course = c, ![r].left = @ \ {c}]
              /\ UNCHANGED sweeping
    /\ UNCHANGED <<course, account, rows, paused, swept>>

SweepEnds(r) ==
    /\ req[r].stage = "sweeping" /\ req[r].left = {}
    /\ Drop(r)
    /\ swept' = [u \in People |-> swept[u] \/ r \in sweeping[u]]
    /\ UNCHANGED <<course, account, rows, paused>>

\* The UPDATE waits for whoever has the row locked, and fails on a row that has
\* gone.  It overwrites whatever status it finds: the withdrawal has the last word.
CommitWithdraw(r) ==
    /\ req[r].stage = "writing"
    /\ LET c == req[r].course
           u == req[r].who
       IN /\ Free(c, u)
          /\ IF interest[c][u] = "none" THEN Drop(r) /\ UNCHANGED <<interest, contact>>
             ELSE /\ interest' = [interest EXCEPT ![c][u] = "withdrawn"]
                  /\ contact' = [contact EXCEPT ![c][u] = "revoked"]
                  /\ IF req[r].op = "withdraw" THEN Drop(r)
                     ELSE /\ req' = [req EXCEPT ![r].stage = "sweeping", ![r].course = None]
                          /\ UNCHANGED sweeping
    /\ UNCHANGED <<course, account, mail, told, paused, swept>>

\* restore_consent: its UPDATE, too, waits for whoever shares the row.
Resume(u) ==
    /\ account[u] /\ paused[u] /\ ~Shared(u)
    /\ paused' = [paused EXCEPT ![u] = FALSE]
    /\ sweeping' = [sweeping EXCEPT ![u] = {}]
    /\ swept' = [swept EXCEPT ![u] = FALSE]
    /\ UNCHANGED <<course, account, req, rows>>

\* A crash, a lost connection, a statement timeout: nothing uncommitted stays.
Abort(r) ==
    /\ Active(r)
    /\ Drop(r)
    /\ UNCHANGED <<course, account, rows, paused, swept>>

InterestInit ==
    /\ Promised!Init
    /\ sweeping = [u \in People |-> {}]
    /\ swept = [u \in People |-> FALSE]

InterestStep(r) ==
    \/ RegisterAsks(r) \/ MoveAsks(r) \/ Lock(r) \/ Decline(r)
    \/ CommitRegister(r) \/ CommitMove(r)
    \/ WithdrawAsks(r) \/ Stamp(r) \/ List(r) \/ SweepNext(r) \/ SweepEnds(r)
    \/ CommitWithdraw(r) \/ Abort(r)
----------------------------------------------------------------------------
(* Properties.                                                              *)

\* register, withdraw and set_status, however they interleave, leave an
\* interest and its disclosure as one of them after another would.  Withdraw
\* takes no row lock, for it "is unconditional and is always the last word"
\* (service.py): nothing a provider has in flight undoes it.
Promise == Promised!Spec

\* withdraw_consent's docstring: nothing new can be shared, "so the sweep that
\* follows cannot be outrun".  Once a sweep has finished, no provider sees the
\* contact of somebody whose consent is withdrawn, whatever was in flight.
PausedSharesNothing ==
    \A u \in People : paused[u] /\ swept[u] =>
        \A c \in Courses : interest[c][u] \notin Promised!LiveStatuses /\ contact[c][u] # "shared"
=============================================================================

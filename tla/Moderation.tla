----------------------------- MODULE Moderation -----------------------------
(***************************************************************************)
(* Reports about a listing, and what operators decide about it.             *)
(*                                                                          *)
(* Models api/modules/moderation/service.py, and take_down and restore of   *)
(* api/modules/marketplace/takedown.py for the listing reported.  The       *)
(* listing is a course; a vacancy's reports are told apart by target_type   *)
(* only.  A review is                                                       *)
(*   asked     when its SELECT has begun: `held` is what it will lock;      *)
(*   locked    when it holds the open ones of these FOR UPDATE.             *)
(***************************************************************************)
EXTENDS Courses

CONSTANT Reporters  \* people outside the organisation whose listings these are

ASSUME ReportersArePeople == Reporters \subseteq People

VARIABLE report     \* report[c][u]: u's report about c; the unique constraint allows one

Closed == {"dismissed", "actioned"}
Open(c) == {u \in People : report[c][u] = "open"}

\* No review has u's report about c locked.
Unheld(c, u) ==
    \A r \in Reqs : req[r].stage = "locked" /\ req[r].op \in ReviewOps /\ req[r].course = c =>
        u \notin req[r].held
----------------------------------------------------------------------------
\* submit_report: a published listing, read without a lock.  The row has no
\* foreign key to the listing, only to its reporter.
ReportAsks(r) ==
    \E u \in Reporters, c \in Listed :
        /\ account[u] /\ Public(c)
        /\ Arrive(r, Asked("report", u, c))
        /\ UNCHANGED <<course, account, report>>

ReportCommits(r) ==
    /\ Active(r) /\ req[r].op = "report"
    /\ LET c == req[r].course
           u == req[r].who
       IN report' = IF report[c][u] = "none" /\ account[u]
                    THEN [report EXCEPT ![c][u] = "open"] ELSE report
    /\ Finish(r)
    /\ UNCHANGED <<course, account>>

\* _lock_open: the statement's snapshot is of the reports open by now.
ReviewAsks(r) ==
    \E c \in Listed, what \in ReviewOps :
        /\ Arrive(r, [Asked(what, None, c) EXCEPT !.held = Open(c)])
        /\ UNCHANGED <<course, account, report>>

\* Slip: populate_existing and the re-check of the status are left out.
ReviewLocksAsRead(r) ==
    /\ req[r].stage = "asked" /\ req[r].op \in ReviewOps
    /\ \A u \in req[r].held : Unheld(req[r].course, u)
    /\ req' = [req EXCEPT ![r].stage = "locked"]
    /\ UNCHANGED <<course, account, report>>

\* It waits for who holds one of them, and keeps those that are open still.
ReviewLocks(r) ==
    /\ req[r].stage = "asked" /\ req[r].op \in ReviewOps
    /\ \A u \in req[r].held : Unheld(req[r].course, u)
    /\ req' = [req EXCEPT ![r].stage = "locked", ![r].held = @ \cap Open(req[r].course)]
    /\ UNCHANGED <<course, account, report>>

\* _close.
Decided(q, outcome) ==
    [report EXCEPT ![q.course] = [u \in People |-> IF u \in q.held THEN outcome ELSE @[u]]]

Dismiss(r) ==
    /\ req[r].stage = "locked" /\ req[r].op = "dismiss"
    /\ req[r].held # {}
    /\ report' = Decided(req[r], "dismissed")
    /\ Finish(r)
    /\ UNCHANGED <<course, account>>

\* Slip: take_down does not look whether the listing is down already.
RemovableWhateverItsState(c) == course[c].exists

\* take_down, under the listing's row lock: 404 and 409 otherwise.
Removable(c) == course[c].exists /\ ~course[c].taken

\* takedown: the reports and the listing are one transaction, and it need not
\* have been reported.
Takedown(r) ==
    /\ req[r].stage = "locked" /\ req[r].op = "takedown"
    /\ Removable(req[r].course)
    /\ report' = Decided(req[r], "actioned")
    /\ course' = [course EXCEPT ![req[r].course].published = FALSE,
                                ![req[r].course].taken = TRUE]
    /\ Finish(r)
    /\ UNCHANGED account

\* No report left to dismiss, or no listing to remove: all of it is rolled back.
ReviewRefused(r) ==
    /\ req[r].stage = "locked"
    /\ \/ req[r].op = "dismiss" /\ req[r].held = {}
       \/ req[r].op = "takedown" /\ ~Removable(req[r].course)
    /\ Finish(r)
    /\ UNCHANGED <<course, account, report>>

\* restore lifts the stamp; the listing stays a draft.
Restore(c) ==
    /\ course[c].exists /\ course[c].taken
    /\ course' = [course EXCEPT ![c].taken = FALSE]
    /\ UNCHANGED <<account, req, report>>

\* purge_expired: closed reports past their retention (any of them may be), and
\* every report on a listing that is gone.  DELETE waits for the row locks.
Purge ==
    \E old \in SUBSET {row \in Courses \X People : report[row[1]][row[2]] \in Closed} :
        LET orphans == {row \in Courses \X People :
                          ~course[row[1]].exists /\ report[row[1]][row[2]] # "none"}
            doomed == old \cup orphans
        IN /\ doomed # {}
           /\ \A row \in doomed : Unheld(row[1], row[2])
           /\ report' = [c \in Courses |-> [u \in People |->
                           IF <<c, u>> \in doomed THEN "none" ELSE report[c][u]]]
           /\ UNCHANGED <<course, account, req>>

ModerationInit == report = [c \in Courses |-> [u \in People |-> "none"]]

ModerationStep(r) ==
    \/ ReportAsks(r) \/ ReportCommits(r)
    \/ ReviewAsks(r) \/ ReviewLocks(r) \/ Dismiss(r) \/ Takedown(r) \/ ReviewRefused(r)
----------------------------------------------------------------------------
(* Properties.                                                              *)

\* Two operators who decide about one listing at once: what the first decided
\* of a report is not decided again by the second, who waited for the rows.
DecisionsAreFinal ==
    [][\A c \in Courses, u \in People :
          report[c][u] \in Closed => report'[c][u] \in {report[c][u], "none"}]_<<report, course>>

\* takedown's docstring: the reports are closed and the listing removed "in one
\* transaction", and a refusal "rolls the report changes back with it": nobody's
\* report is marked as acted on by a decision that removed nothing.
ActionedWithTheTakedown ==
    [][\A c \in Courses, u \in People :
          report[c][u] # "actioned" /\ report'[c][u] = "actioned" =>
              ~course[c].taken /\ course'[c].taken]_<<report, course>>
=============================================================================

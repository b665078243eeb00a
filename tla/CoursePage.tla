----------------------------- MODULE CoursePage -----------------------------
(***************************************************************************)
(* A course on the site: interests and reports meet its publication, its    *)
(* removal by an operator, its deletion, and the erasure of the people who  *)
(* registered and reported.                                                 *)
(*                                                                          *)
(* Composes Interests and Moderation, and models delete_course of           *)
(* api/modules/marketplace/course_publishing.py and the part of             *)
(* delete_account (api/modules/privacy/service.py) that concerns them.      *)
(***************************************************************************)
EXTENDS Interests, Moderation

vars == <<course, account, req, interestVars, report>>

Requests ==
    [stage : {"asked", "locked", "writing", "stamped", "sweeping"}, op : Ops,
     who : People \cup {None}, course : Courses \cup {None},
     to : Promised!ProviderStatuses \cup {"none"}, was : Promised!Statuses,
     read : CourseRows, left : SUBSET Courses, held : SUBSET People]

\* With the rows' foreign keys: an interest has its course and its person, a
\* report its reporter.
TypeOK ==
    /\ course \in [Courses -> CourseRows]
    /\ account \in [People -> BOOLEAN]
    /\ req \in [Reqs -> Requests \cup {Idle}]
    /\ interest \in [Courses -> [People -> Promised!Statuses]]
    /\ contact \in [Courses -> [People -> Promised!Disclosures]]
    /\ mail \in [Courses -> [People -> Nat]]
    /\ told \in [Courses -> [People -> Promised!ProviderStatuses \cup {"none"}]]
    /\ paused \in [People -> BOOLEAN]
    /\ sweeping \in [People -> SUBSET Reqs]
    /\ swept \in [People -> BOOLEAN]
    /\ report \in [Courses -> [People -> {"none", "open"} \cup Closed]]
    /\ \A c \in Courses, u \in People :
         /\ interest[c][u] # "none" => course[c].exists /\ account[u]
         /\ report[c][u] # "none" => account[u]

\* The interests in `gone` are deleted: ON DELETE CASCADE, or the statement of
\* delete_account, once nobody holds one of them.
Cascade(gone) ==
    /\ \A row \in gone : Free(row[1], row[2])
    /\ interest' = [c \in Courses |-> [u \in People |->
                      IF <<c, u>> \in gone THEN "none" ELSE interest[c][u]]]
    /\ contact' = [c \in Courses |-> [u \in People |->
                      IF <<c, u>> \in gone THEN "never" ELSE contact[c][u]]]
    /\ UNCHANGED <<mail, told, consent, req>>

\* delete_course: the interests go with it; the reports stay for the purge.
Delete(c) ==
    /\ "delete" \in Served
    /\ course[c].exists
    /\ course' = [course EXCEPT ![c] = Gone]
    /\ Cascade({c} \X People)
    /\ UNCHANGED <<account, report>>

\* delete_account: the person's interests and reports, and then the account,
\* which waits for whoever shares its row.
Erase(u) ==
    /\ "erase" \in Served
    /\ account[u] /\ ~Shared(u)
    /\ \A c \in Courses : Unheld(c, u)
    /\ account' = [account EXCEPT ![u] = FALSE]
    /\ Cascade(Courses \X {u})
    /\ report' = [c \in Courses |-> [report[c] EXCEPT ![u] = "none"]]
    /\ UNCHANGED course

Init ==
    /\ course = [c \in Courses |-> [exists |-> TRUE, published |-> TRUE, taken |-> FALSE]]
    /\ account = [u \in People |-> TRUE]
    /\ req = [r \in Reqs |-> Idle]
    /\ InterestInit
    /\ ModerationInit

Next ==
    \/ /\ \/ \E r \in Reqs : InterestStep(r)
          \/ \E u \in People : Resume(u)
       /\ UNCHANGED report
    \/ /\ \/ \E r \in Reqs : ModerationStep(r)
          \/ \E c \in Listed : Restore(c)
          \/ Purge
       /\ UNCHANGED interestVars
    \/ \E r \in Reqs : (PublishAsks(r) \/ PublishCommits(r)) /\ UNCHANGED <<interestVars, report>>
    \/ \E c \in Listed : Delete(c)
    \/ \E u \in People : Erase(u)

Spec == Init /\ [][Next]_vars
=============================================================================

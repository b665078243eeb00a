------------------------------ MODULE Courses ------------------------------
(***************************************************************************)
(* What interests in a course and reports about it share: the course's row, *)
(* the accounts of people, and the requests in flight.                      *)
(*                                                                          *)
(* Models set_published of api/modules/marketplace/course_publishing.py.    *)
(* Whether a course may be deleted under its batches is the subject of      *)
(* Training; here it is deleted whenever its owner asks.                    *)
(*                                                                          *)
(* Each request is one database session at READ COMMITTED, cut wherever     *)
(* another can commit in between.  The row locks it holds are told from its *)
(* stage, so nothing else records them.                                     *)
(***************************************************************************)
EXTENDS Naturals, FiniteSets

CONSTANTS
    Courses, People,
    Reqs,           \* requests served at the same time
    Served,         \* bound: the operations an instance serves
    Listed,         \* bound: the courses whose provider and operators act
    None            \* nobody, no course

ASSUME ListedAreCourses == Listed \subseteq Courses
ASSUME NoneIsNothing == None \notin Courses \cup People

VARIABLES
    course,         \* course[c]: the row
    account,        \* account[u]: the person has one; what is erased does not come back
    req             \* req[r]: the request r is serving

CourseRows == [exists : BOOLEAN, published : BOOLEAN, taken : BOOLEAN]
Gone == [exists |-> FALSE, published |-> FALSE, taken |-> FALSE]

LearnerOps == {"register", "withdraw", "sweep"}
ReviewOps == {"dismiss", "takedown"}
Ops == LearnerOps \cup ReviewOps \cup {"move", "report", "publish", "unpublish"}

Idle == [stage |-> "idle"]
Asked(what, u, c) ==
    [stage |-> "asked", op |-> what, who |-> u, course |-> c, to |-> "none", was |-> "none",
     read |-> Gone, left |-> {}, held |-> {}]

Active(r) == req[r].stage # "idle"
Serving(what, u) == {r \in Reqs : Active(r) /\ req[r].op = what /\ req[r].who = u}

Arrive(r, q) == q.op \in Served /\ req[r] = Idle /\ req' = [req EXCEPT ![r] = q]
Finish(r) == req' = [req EXCEPT ![r] = Idle]

\* get_course_by_slug: anybody but the owner sees published courses only.
Public(c) == course[c].published

\* set_published reads the row without a lock; a course that teaches nothing,
\* which it also refuses, is in Training.
PublishAsks(r) ==
    \E c \in Listed, what \in {"publish", "unpublish"} :
        /\ course[c].exists
        /\ what = "publish" => ~course[c].taken
        /\ Arrive(r, [Asked(what, None, c) EXCEPT !.read = course[c]])
        /\ UNCHANGED <<course, account>>

\* The ORM writes the status only where it differs from what was read; a row
\* deleted meanwhile fails the commit.
PublishCommits(r) ==
    /\ Active(r) /\ req[r].op \in {"publish", "unpublish"}
    /\ LET q == req[r]
           live == q.op = "publish"
       IN course' = IF course[q.course].exists /\ q.read.published # live
                    THEN [course EXCEPT ![q.course].published = live] ELSE course
    /\ Finish(r)
    /\ UNCHANGED account
=============================================================================

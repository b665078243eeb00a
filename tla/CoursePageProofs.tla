-------------------------- MODULE CoursePageProofs --------------------------
(***************************************************************************)
(* What TLAPS proves of CoursePage, for any number of courses, people and   *)
(* requests in flight; in particular that its interests implement Enquiry.  *)
(***************************************************************************)
EXTENDS CoursePage, TLAPS

----------------------------------------------------------------------------
(* The inductive invariant.                                                 *)

\* Each operation passes through stages of its own, about a course and a person
\* that exist; a sweep has a course only while it writes.
Shaped(r) ==
    /\ req[r].op \in {"register", "move"} =>
         /\ req[r].stage \in {"asked", "locked"}
         /\ req[r].who \in People /\ req[r].course \in Courses
         /\ req[r].op = "move" => req[r].to \in Promised!ProviderStatuses
    /\ req[r].op = "withdraw" =>
         req[r].stage = "writing" /\ req[r].who \in People /\ req[r].course \in Courses
    /\ req[r].op = "sweep" =>
         /\ req[r].stage \in {"stamped", "sweeping", "writing"} /\ req[r].who \in People
         /\ req[r].stage = "writing" => req[r].course \in Courses
    /\ req[r].op = "report" =>
         req[r].stage = "asked" /\ req[r].who \in People /\ req[r].course \in Courses
    /\ req[r].op \in ReviewOps =>
         req[r].stage \in {"asked", "locked"} /\ req[r].course \in Courses
    /\ req[r].op \in {"publish", "unpublish"} =>
         req[r].stage = "asked" /\ req[r].course \in Courses

\* It has an interest locked; it has the reports of a course locked.
Holds(r) ==
    req[r].stage = "locked" /\ req[r].op \in {"register", "move"} /\ req[r].was # "none"
Reviews(r) == req[r].stage = "locked" /\ req[r].op \in ReviewOps

\* What a sweep of u has still to visit: everything of theirs that is live.
Covers(r, u) ==
    \A c \in Courses : interest[c][u] \in Promised!LiveStatuses =>
        \/ req[r].stage = "stamped"
        \/ c \in req[r].left
        \/ req[r].stage = "writing" /\ c = req[r].course

\* What a request goes by is so.
Claims(r) ==
    /\ Active(r) => Shaped(r)
    /\ Holds(r) => interest[req[r].course][req[r].who] = req[r].was
    /\ Reviews(r) => req[r].held \subseteq Open(req[r].course)
    /\ Active(r) /\ req[r].op = "register" => ~paused[req[r].who]
    /\ \A u \in People : r \in sweeping[u] =>
         /\ Active(r) /\ req[r].op = "sweep" /\ req[r].who = u
         /\ paused[u] /\ Covers(r, u)

\* No row is locked twice.
LocksApart ==
    \A r, h \in Reqs : r # h =>
        /\ Holds(r) /\ Holds(h) =>
             req[r].course # req[h].course \/ req[r].who # req[h].who
        /\ Reviews(r) /\ Reviews(h) /\ req[r].course = req[h].course =>
             req[r].held \cap req[h].held = {}

\* The disclosure record says what the interest does.
Disclosed ==
    \A c \in Courses, u \in People :
        contact[c][u] = CASE interest[c][u] = "none" -> "never"
                          [] interest[c][u] = "withdrawn" -> "revoked"
                          [] OTHER -> "shared"

SweptIsPaused == \A u \in People : swept[u] => paused[u]

IInv ==
    /\ TypeOK /\ Disclosed /\ LocksApart /\ SweptIsPaused /\ PausedSharesNothing
    /\ \A r \in Reqs : Claims(r)

----------------------------------------------------------------------------
(* What steps have in common.                                               *)

\* A request has its fields, or is idle.
LEMMA Shape ==
    ASSUME TypeOK, NEW r \in Reqs
    PROVE  /\ req[r] \in Requests \/ req[r] = Idle
           /\ Active(r) => req[r] \in Requests
           /\ ~Active(r) => req[r] = Idle
  BY DEF TypeOK, Active, Requests, Idle

\* Nothing a request of somebody else goes by is touched.
Untouched(h) ==
    /\ Holds(h) => interest'[req[h].course][req[h].who] = interest[req[h].course][req[h].who]
    /\ Reviews(h) => \A u \in req[h].held : report'[req[h].course][u] = report[req[h].course][u]
    /\ Active(h) /\ req[h].op = "register" => ~paused'[req[h].who]
    /\ \A u \in People : h \in sweeping'[u] => h \in sweeping[u] /\ paused'[u]

\* Nobody whose consent is withdrawn has anything live that was not.
NothingNew ==
    \A c \in Courses, u \in People :
        paused'[u] /\ interest'[c][u] \in Promised!LiveStatuses =>
            interest[c][u] \in Promised!LiveStatuses

LEMMA ClaimsStay ==
    ASSUME TypeOK, NEW h \in Reqs, Claims(h), req'[h] = req[h], Untouched(h), NothingNew
    PROVE  Claims(h)'
  <1>1. (Active(h) => Shaped(h))'
    BY DEF Claims, Active, Shaped
  <1>2. (Holds(h) => interest[req[h].course][req[h].who] = req[h].was)'
    BY DEF Claims, Holds, Untouched
  <1>3. (Reviews(h) => req[h].held \subseteq Open(req[h].course))'
    BY DEF Claims, Reviews, Untouched, Open
  <1>4. (Active(h) /\ req[h].op = "register" => ~paused[req[h].who])'
    BY DEF Untouched, Active
  <1>5. ASSUME NEW u \in People, h \in sweeping'[u]
        PROVE  /\ Active(h)' /\ req'[h].op = "sweep" /\ req'[h].who = u
               /\ paused'[u] /\ Covers(h, u)'
    <2>1. h \in sweeping[u] /\ paused'[u]
      BY <1>5 DEF Untouched
    <2>2. Active(h) /\ req[h].op = "sweep" /\ req[h].who = u /\ Covers(h, u)
      BY <2>1 DEF Claims
    <2> QED BY <2>1, <2>2 DEF Active, Covers, NothingNew
  <1> QED BY <1>1, <1>2, <1>3, <1>4, <1>5 DEF Claims

\* An idle request claims nothing, once no sweep is counted as its own.
LEMMA IdleClaimsNothing ==
    ASSUME NEW h \in Reqs, req'[h] = Idle, \A u \in People : h \notin sweeping'[u]
    PROVE  Claims(h)'
  BY DEF Claims, Active, Holds, Reviews, Idle

\* A step of at most one request, r, about which everything is to be shown;
\* whatever the step writes, the others go on as they are.
LEMMA Step ==
    ASSUME IInv, NEW r,
           \A h \in Reqs \ {r} : req'[h] = req[h] /\ Untouched(h),
           NothingNew, TypeOK', Disclosed',
           \A u \in People : paused[u] /\ ~paused'[u] => ~swept'[u],
           \A u \in People : swept'[u] => paused'[u] /\ (swept[u] \/ \A c \in Courses :
                                            interest'[c][u] \notin Promised!LiveStatuses),
           r \in Reqs => Claims(r)',
           \A h \in Reqs \ {r} : r \in Reqs =>
               /\ (Holds(r) /\ Holds(h) =>
                     req[r].course # req[h].course \/ req[r].who # req[h].who)'
               /\ (Reviews(r) /\ Reviews(h) /\ req[r].course = req[h].course =>
                     req[r].held \cap req[h].held = {})'
    PROVE  IInv'
  <1>1. \A h \in Reqs : Claims(h)'
    BY ClaimsStay DEF IInv
  <1>2. LocksApart'
    <2> SUFFICES ASSUME NEW a \in Reqs, NEW b \in Reqs, a # b
                 PROVE  /\ (Holds(a) /\ Holds(b) =>
                             req[a].course # req[b].course \/ req[a].who # req[b].who)'
                        /\ (Reviews(a) /\ Reviews(b) /\ req[a].course = req[b].course =>
                             req[a].held \cap req[b].held = {})'
      BY DEF LocksApart
    <2>1. CASE a # r /\ b # r
      <3>1. req'[a] = req[a] /\ req'[b] = req[b]
        BY <2>1
      <3> QED BY <3>1 DEF IInv, LocksApart, Holds, Reviews
    <2>2. CASE a = r
      BY <2>2
    <2>3. CASE b = r
      BY <2>3
    <2> QED BY <2>1, <2>2, <2>3
  <1>3. SweptIsPaused'
    BY DEF SweptIsPaused
  <1>4. PausedSharesNothing'
    <2> SUFFICES ASSUME NEW u \in People, paused'[u], swept'[u], NEW c \in Courses
                 PROVE  interest'[c][u] \notin Promised!LiveStatuses /\ contact'[c][u] # "shared"
      BY DEF PausedSharesNothing
    <2>1. interest'[c][u] \notin Promised!LiveStatuses
      <3>1. CASE swept[u]
        BY <3>1 DEF IInv, SweptIsPaused, PausedSharesNothing, NothingNew
      <3> QED BY <3>1
    <2>2. interest'[c][u] \in {"none", "withdrawn"}
      BY <2>1 DEF TypeOK, Promised!Statuses
    <2> QED BY <2>1, <2>2 DEF Disclosed
  <1> QED BY <1>1, <1>2, <1>3, <1>4 DEF IInv

\* The same, of a step that leaves the rows, and whose consent stands, alone.
LEMMA RequestStep ==
    ASSUME IInv, NEW r \in Reqs, NEW q \in Requests \cup {Idle},
           req' = [req EXCEPT ![r] = q],
           UNCHANGED <<course, account, rows, report, paused, swept>>,
           \A u \in People : sweeping'[u] \subseteq sweeping[u],
           sweeping' \in [People -> SUBSET Reqs],
           Claims(r)',
           \A h \in Reqs \ {r} :
               /\ (Holds(r) /\ Holds(h) =>
                     req[r].course # req[h].course \/ req[r].who # req[h].who)'
               /\ (Reviews(r) /\ Reviews(h) /\ req[r].course = req[h].course =>
                     req[r].held \cap req[h].held = {})'
    PROVE  IInv'
  <1> USE DEF rows
  <1>1. TypeOK'
    BY DEF IInv, TypeOK
  <1>2. \A h \in Reqs \ {r} : req'[h] = req[h]
    BY DEF IInv, TypeOK
  <1>3. \A h \in Reqs \ {r} : Untouched(h)
    <2> SUFFICES ASSUME NEW h \in Reqs \ {r} PROVE Untouched(h)
      OBVIOUS
    <2>1. Claims(h)
      BY DEF IInv
    <2> QED BY <2>1 DEF Untouched, Claims
  <1>4. Disclosed' /\ NothingNew
    BY DEF IInv, Disclosed, NothingNew
  <1>5. \A u \in People : swept'[u] => paused'[u] /\ swept[u]
    BY DEF IInv, SweptIsPaused
  <1> QED BY <1>1, <1>2, <1>3, <1>4, <1>5, Step

\* A request that ends, by an answer, a refusal, an error or a crash.
LEMMA EndStep ==
    ASSUME IInv, NEW r \in Reqs, req' = [req EXCEPT ![r] = Idle],
           UNCHANGED <<course, account, rows, report, paused, swept>>,
           sweeping' = [u \in People |-> sweeping[u] \ {r}]
    PROVE  IInv'
  <1>1. req'[r] = Idle /\ \A u \in People : r \notin sweeping'[u]
    BY DEF IInv, TypeOK
  <1>2. Claims(r)' /\ ~Holds(r)' /\ ~Reviews(r)'
    BY <1>1, IdleClaimsNothing DEF Holds, Reviews, Idle
  <1>3. sweeping' \in [People -> SUBSET Reqs] /\ \A u \in People : sweeping'[u] \subseteq sweeping[u]
    BY DEF IInv, TypeOK
  <1> QED BY <1>1, <1>2, <1>3, RequestStep

\* A request other than a sweep is counted in no sweep.
LEMMA NoSweep ==
    ASSUME IInv, NEW r \in Reqs, req[r].op # "sweep" \/ ~Active(r)
    PROVE  /\ \A u \in People : r \notin sweeping[u]
           /\ sweeping = [u \in People |-> sweeping[u] \ {r}]
  <1>1. \A u \in People : r \notin sweeping[u]
    BY DEF IInv, Claims
  <1> QED BY <1>1 DEF IInv, TypeOK

\* Arriving: the request is well formed, holds nothing, and reads what it may
\* hold later; a withdrawal of consent is the exception, and stamps.
Arrived(r, q) ==
    /\ req[r] = Idle /\ req' = [req EXCEPT ![r] = q]
    /\ q \in Requests
    /\ q.stage # "locked"
    /\ UNCHANGED <<course, account, rows, report, swept>>

LEMMA ArrivalStep ==
    ASSUME IInv, NEW r \in Reqs, NEW q, Arrived(r, q), UNCHANGED <<paused, sweeping>>,
           Shaped(r)', q.op = "register" => ~paused[q.who]
    PROVE  IInv'
  <1>1. req'[r] = q
    BY DEF IInv, TypeOK, Arrived
  <1>2. ~Holds(r)' /\ ~Reviews(r)'
    BY <1>1 DEF Arrived, Holds, Reviews
  <1>3. \A u \in People : r \notin sweeping'[u]
    BY NoSweep DEF Arrived, Active, Idle
  <1>4. Claims(r)'
    BY <1>1, <1>2, <1>3 DEF Claims
  <1>5. sweeping' \in [People -> SUBSET Reqs]
    BY DEF IInv, TypeOK
  <1> QED BY <1>2, <1>4, <1>5, RequestStep DEF Arrived, rows

\* Everybody who asks, but for consent.
Asks(r) ==
    \/ RegisterAsks(r) \/ MoveAsks(r) \/ WithdrawAsks(r)
    \/ ReportAsks(r) \/ ReviewAsks(r) \/ PublishAsks(r)

LEMMA AskedIsRequest ==
    ASSUME NEW what \in Ops, NEW u \in People \cup {None}, NEW c \in Courses \cup {None}
    PROVE  Asked(what, u, c) \in Requests
  BY DEF Asked, Requests, CourseRows, Gone, Promised!Statuses

LEMMA AskSteps ==
    ASSUME IInv, NEW r \in Reqs, Asks(r), UNCHANGED <<paused, sweeping, swept, rows, report>>
    PROVE  IInv'
  <1> USE DEF Ops, LearnerOps, ReviewOps
  <1>0. Listed \subseteq Courses /\ Learners \subseteq People /\ Reporters \subseteq People
    BY ListedAreCourses, LearnersArePeople, ReportersArePeople
  <1>00. \A q : Arrive(r, q) => req'[r] = q
    BY DEF Arrive, IInv, TypeOK
  <1>1. CASE RegisterAsks(r)
    <2>1. PICK u \in Learners, c \in Courses :
            ~paused[u] /\ Arrive(r, Asked("register", u, c)) /\ UNCHANGED <<course, account>>
      BY <1>1 DEF RegisterAsks
    <2>2. Asked("register", u, c) \in Requests
      BY <1>0, AskedIsRequest
    <2>3. Arrived(r, Asked("register", u, c))
      BY <2>1, <2>2 DEF Arrived, Arrive, Asked
    <2>4. Shaped(r)'
      BY <1>0, <1>00, <2>1 DEF Shaped, Asked
    <2>5. Asked("register", u, c).who = u
      BY DEF Asked
    <2> QED BY <2>1, <2>3, <2>4, <2>5, ArrivalStep
  <1>2. CASE MoveAsks(r)
    <2>1. PICK u \in People, c \in Listed, to \in Promised!ProviderStatuses :
            /\ Arrive(r, [Asked("move", u, c) EXCEPT !.to = to])
            /\ UNCHANGED <<course, account>>
      BY <1>2 DEF MoveAsks
    <2>2. [Asked("move", u, c) EXCEPT !.to = to] \in Requests
      BY <1>0, AskedIsRequest DEF Requests
    <2>3. Arrived(r, [Asked("move", u, c) EXCEPT !.to = to])
      BY <2>1, <2>2 DEF Arrived, Arrive, Asked
    <2>4. Shaped(r)'
      BY <1>0, <1>00, <2>1 DEF Shaped, Asked
    <2>5. [Asked("move", u, c) EXCEPT !.to = to].op = "move"
      BY DEF Asked
    <2> QED BY <2>3, <2>4, <2>5, ArrivalStep
  <1>3. CASE WithdrawAsks(r)
    <2>1. PICK u \in People, c \in Courses :
            /\ Arrive(r, [Asked("withdraw", u, c) EXCEPT !.stage = "writing"])
            /\ UNCHANGED <<course, account>>
      BY <1>3 DEF WithdrawAsks
    <2>2. [Asked("withdraw", u, c) EXCEPT !.stage = "writing"] \in Requests
      BY <1>0, AskedIsRequest DEF Requests
    <2>3. Arrived(r, [Asked("withdraw", u, c) EXCEPT !.stage = "writing"])
      BY <2>1, <2>2 DEF Arrived, Arrive, Asked
    <2>4. Shaped(r)'
      BY <1>0, <1>00, <2>1 DEF Shaped, Asked
    <2>5. [Asked("withdraw", u, c) EXCEPT !.stage = "writing"].op = "withdraw"
      BY DEF Asked
    <2> QED BY <2>3, <2>4, <2>5, ArrivalStep
  <1>4. CASE ReportAsks(r)
    <2>1. PICK u \in Reporters, c \in Listed :
            Arrive(r, Asked("report", u, c)) /\ UNCHANGED <<course, account>>
      BY <1>4 DEF ReportAsks
    <2>2. Asked("report", u, c) \in Requests
      BY <1>0, AskedIsRequest
    <2>3. Arrived(r, Asked("report", u, c))
      BY <2>1, <2>2 DEF Arrived, Arrive, Asked
    <2>4. Shaped(r)'
      BY <1>0, <1>00, <2>1 DEF Shaped, Asked
    <2>5. Asked("report", u, c).op = "report"
      BY DEF Asked
    <2> QED BY <2>3, <2>4, <2>5, ArrivalStep
  <1>5. CASE ReviewAsks(r)
    <2>1. PICK c \in Listed, what \in ReviewOps :
            /\ Arrive(r, [Asked(what, None, c) EXCEPT !.held = Open(c)])
            /\ UNCHANGED <<course, account>>
      BY <1>5 DEF ReviewAsks
    <2>2. [Asked(what, None, c) EXCEPT !.held = Open(c)] \in Requests
      <3>1. Open(c) \in SUBSET People
        BY DEF Open
      <3>2. Asked(what, None, c) \in Requests
        BY <1>0, AskedIsRequest
      <3> QED BY <3>1, <3>2 DEF Requests
    <2>3. Arrived(r, [Asked(what, None, c) EXCEPT !.held = Open(c)])
      BY <2>1, <2>2 DEF Arrived, Arrive, Asked
    <2>4. Shaped(r)'
      BY <1>0, <1>00, <2>1 DEF Shaped, Asked
    <2>5. [Asked(what, None, c) EXCEPT !.held = Open(c)].op = what
      BY DEF Asked
    <2> QED BY <2>3, <2>4, <2>5, ArrivalStep
  <1>6. CASE PublishAsks(r)
    <2>1. PICK c \in Listed, what \in {"publish", "unpublish"} :
            /\ Arrive(r, [Asked(what, None, c) EXCEPT !.read = course[c]])
            /\ UNCHANGED <<course, account>>
      BY <1>6 DEF PublishAsks
    <2>2. [Asked(what, None, c) EXCEPT !.read = course[c]] \in Requests
      <3>1. course[c] \in CourseRows
        BY <1>0 DEF IInv, TypeOK
      <3>2. Asked(what, None, c) \in Requests
        BY <1>0, AskedIsRequest
      <3> QED BY <3>1, <3>2 DEF Requests
    <2>3. Arrived(r, [Asked(what, None, c) EXCEPT !.read = course[c]])
      BY <2>1, <2>2 DEF Arrived, Arrive, Asked
    <2>4. Shaped(r)'
      BY <1>0, <1>00, <2>1 DEF Shaped, Asked
    <2>5. [Asked(what, None, c) EXCEPT !.read = course[c]].op = what
      BY DEF Asked
    <2> QED BY <2>3, <2>4, <2>5, ArrivalStep
  <1> QED BY <1>1, <1>2, <1>3, <1>4, <1>5, <1>6 DEF Asks

\* withdraw_consent: whoever is registering shares the person's row, so once it
\* is stamped nobody is.
LEMMA StampStep ==
    ASSUME IInv, NEW r \in Reqs, Stamp(r), UNCHANGED report
    PROVE  IInv'
  <1>1. PICK u \in Learners :
          /\ paused[u] \/ ~Shared(u)
          /\ Arrive(r, [Asked("sweep", u, None) EXCEPT !.stage = "stamped"])
          /\ paused' = [paused EXCEPT ![u] = TRUE]
          /\ sweeping' = [sweeping EXCEPT ![u] = @ \cup {r}]
          /\ UNCHANGED <<course, account, rows, swept>>
    BY DEF Stamp
  <1> DEFINE q == [Asked("sweep", u, None) EXCEPT !.stage = "stamped"]
  <1>2. u \in People
    BY LearnersArePeople
  <1>3. q \in Requests /\ q.stage = "stamped" /\ q.op = "sweep" /\ q.who = u
    <2>1. Asked("sweep", u, None) \in Requests
      BY <1>2, AskedIsRequest DEF Ops, LearnerOps
    <2> QED BY <2>1 DEF Requests, Asked
  <1> HIDE DEF q
  <1>4. req[r] = Idle /\ req' = [req EXCEPT ![r] = q] /\ req'[r] = q
    BY <1>1 DEF Arrive, IInv, TypeOK, q
  <1>5. TypeOK'
    BY <1>1, <1>2, <1>3, <1>4 DEF IInv, TypeOK, rows
  <1>6. \A v \in People : r \notin sweeping[v]
    BY <1>4, NoSweep DEF Active, Idle
  <1>7. \A v \in People : paused[v] => paused'[v]
    BY <1>1 DEF IInv, TypeOK
  <1>8. \A v \in People, h \in Reqs \ {r} : h \in sweeping'[v] <=> h \in sweeping[v]
    BY <1>1 DEF IInv, TypeOK
  <1>9. ASSUME NEW h \in Reqs \ {r} PROVE req'[h] = req[h] /\ Untouched(h)
    <2>1. Claims(h) /\ req'[h] = req[h]
      BY <1>4 DEF IInv, TypeOK
    <2>2. Active(h) /\ req[h].op = "register" => ~paused'[req[h].who]
      <3> SUFFICES ASSUME Active(h), req[h].op = "register" PROVE ~paused'[req[h].who]
        OBVIOUS
      <3>1. ~paused[req[h].who] /\ req[h].who \in People /\ Shared(req[h].who)
        BY <2>1 DEF Claims, Shaped, Shared, Serving
      <3>2. req[h].who # u
        BY <1>1, <3>1
      <3> QED BY <1>1, <3>1, <3>2 DEF IInv, TypeOK
    <2> QED BY <1>1, <1>7, <1>8, <2>1, <2>2 DEF Untouched, Claims, rows
  <1>10. Claims(r)' /\ ~Holds(r)' /\ ~Reviews(r)'
    <2>1. Shaped(r)'
      BY <1>2, <1>3, <1>4 DEF Shaped, ReviewOps
    <2>2. ~Holds(r)' /\ ~Reviews(r)'
      BY <1>3, <1>4 DEF Holds, Reviews
    <2>3. ASSUME NEW v \in People, r \in sweeping'[v]
          PROVE  v = u /\ paused'[v] /\ Covers(r, v)'
      <3>1. v = u
        BY <1>1, <1>6, <2>3 DEF IInv, TypeOK
      <3> QED BY <1>1, <1>2, <1>3, <1>4, <3>1 DEF Covers, IInv, TypeOK
    <2> QED BY <1>3, <1>4, <2>1, <2>2, <2>3 DEF Claims, Active
  <1>11. Disclosed' /\ NothingNew
    BY <1>1 DEF IInv, Disclosed, NothingNew, rows
  <1>12. \A v \in People : swept'[v] => paused'[v] /\ swept[v]
    BY <1>1, <1>7 DEF IInv, SweptIsPaused
  <1> QED BY <1>5, <1>7, <1>9, <1>10, <1>11, <1>12, Step

\* SELECT ... FOR UPDATE, on an interest or on the reports: the row is read as
\* it is, and nobody else has it.
LEMMA LockSteps ==
    ASSUME IInv, NEW r \in Reqs, Lock(r) \/ ReviewLocks(r),
           UNCHANGED <<course, account, interestVars, report>>
    PROVE  IInv'
  <1> USE DEF interestVars, rows, consent
  <1>1. Active(r) /\ req[r] \in Requests /\ Claims(r) /\ Shaped(r) /\ req[r].op # "sweep"
    BY Shape DEF IInv, Claims, Lock, ReviewLocks, Active, ReviewOps
  <1>2. \A v \in People : r \notin sweeping[v]
    BY <1>1, NoSweep
  <1>3. CASE Lock(r)
    <2> DEFINE c == req[r].course
               u == req[r].who
               q == [req[r] EXCEPT !.stage = "locked", !.was = interest[c][u]]
    <2>1. c \in Courses /\ u \in People /\ req[r].op \in {"register", "move"}
      BY <1>1, <1>3 DEF Lock, Shaped
    <2>2. interest[c][u] \in Promised!Statuses
      BY <2>1 DEF IInv, TypeOK
    <2>3. q \in Requests /\ q.course = c /\ q.who = u /\ q.stage = "locked"
          /\ q.op = req[r].op /\ q.was = interest[c][u] /\ q.to = req[r].to
      BY <1>1, <2>2 DEF Requests
    <2>4. req' = [req EXCEPT ![r] = q] /\ req'[r] = q
      BY <1>3 DEF Lock, IInv, TypeOK
    <2> HIDE DEF q
    <2>5. Claims(r)'
      BY <1>1, <1>2, <2>1, <2>3, <2>4 DEF Claims, Active, Shaped, Holds, Reviews, ReviewOps
    <2>6. ASSUME NEW h \in Reqs \ {r}, Holds(h)'
          PROVE  (req[r].course # req[h].course \/ req[r].who # req[h].who)'
      <3>1. req'[h] = req[h] /\ Holds(h)
        BY <2>4, <2>6 DEF Holds, IInv, TypeOK
      <3> QED BY <1>3, <2>3, <2>4, <3>1 DEF Lock, Free, Holds
    <2>7. ~Reviews(r)'
      BY <2>1, <2>3, <2>4 DEF Reviews, ReviewOps
    <2>8. sweeping' \in [People -> SUBSET Reqs]
      BY DEF IInv, TypeOK
    <2> QED BY <2>3, <2>4, <2>5, <2>6, <2>7, <2>8, RequestStep
  <1>4. CASE ReviewLocks(r)
    <2> DEFINE c == req[r].course
               q == [req[r] EXCEPT !.stage = "locked", !.held = @ \cap Open(c)]
    <2>1. c \in Courses /\ req[r].op \in ReviewOps
      BY <1>1, <1>4 DEF ReviewLocks, Shaped
    <2>3. q \in Requests /\ q.course = c /\ q.stage = "locked"
          /\ q.op = req[r].op /\ q.held = req[r].held \cap Open(c)
      BY <1>1 DEF Requests
    <2>4. req' = [req EXCEPT ![r] = q] /\ req'[r] = q
      BY <1>4 DEF ReviewLocks, IInv, TypeOK
    <2> HIDE DEF q
    <2>5. Claims(r)'
      BY <1>1, <1>2, <2>1, <2>3, <2>4 DEF Claims, Active, Shaped, Holds, Reviews, ReviewOps, Open
    <2>6. ASSUME NEW h \in Reqs \ {r}, Reviews(h)', (req[r].course = req[h].course)'
          PROVE  (req[r].held \cap req[h].held = {})'
      <3>1. req'[h] = req[h] /\ Reviews(h)
        BY <2>4, <2>6 DEF Reviews, IInv, TypeOK
      <3>2. \A u \in req[r].held : u \notin req[h].held
        BY <1>4, <2>3, <2>4, <2>6, <3>1 DEF ReviewLocks, Unheld, Reviews
      <3> QED BY <2>3, <2>4, <3>1, <3>2
    <2>7. ~Holds(r)'
      BY <2>1, <2>3, <2>4 DEF Holds, ReviewOps
    <2>8. sweeping' \in [People -> SUBSET Reqs]
      BY DEF IInv, TypeOK
    <2> QED BY <2>3, <2>4, <2>5, <2>6, <2>7, <2>8, RequestStep
  <1> QED BY <1>3, <1>4

\* withdraw_all_live goes from one interest to the next, and has all of them
\* before it when it begins.
LEMMA WalkSteps ==
    ASSUME IInv, NEW r \in Reqs, List(r) \/ SweepNext(r), UNCHANGED report
    PROVE  IInv'
  <1>1. Active(r) /\ req[r] \in Requests /\ Claims(r) /\ Shaped(r) /\ req[r].op = "sweep"
        /\ req[r].who \in People
    <2>1. Active(r) /\ req[r] \in Requests /\ Claims(r) /\ Shaped(r)
      BY Shape DEF IInv, Claims, List, SweepNext, Active
    <2>2. req[r].stage \in {"stamped", "sweeping"}
      BY DEF List, SweepNext
    <2>3. req[r].op \in Ops
      BY <2>1 DEF Requests
    <2> QED BY <2>1, <2>2, <2>3 DEF Shaped, Ops, LearnerOps, ReviewOps
  <1> DEFINE u == req[r].who
  <1>2. ASSUME NEW q \in Requests, req' = [req EXCEPT ![r] = q], UNCHANGED <<course, account, rows, paused, sweeping, swept>>,
               q.op = "sweep", q.who = u, q.stage \in {"sweeping", "writing"},
               q.stage = "writing" => q.course \in Courses,
               \A c \in Courses : c \in q.left \/ (q.stage = "writing" /\ c = q.course)
                   \/ interest[c][u] \notin Promised!LiveStatuses \/ r \notin sweeping[u]
        PROVE  IInv'
    <2>1. req'[r] = q
      BY <1>2 DEF IInv, TypeOK
    <2>2. Shaped(r)' /\ ~Holds(r)' /\ ~Reviews(r)'
      BY <1>1, <1>2, <2>1 DEF Shaped, Holds, Reviews, ReviewOps
    <2>3. ASSUME NEW v \in People, r \in sweeping'[v]
          PROVE  v = u /\ paused'[v] /\ Covers(r, v)'
      <3>1. v = u /\ paused[v]
        BY <1>1, <1>2, <2>3 DEF Claims
      <3> QED BY <1>2, <2>1, <2>3, <3>1 DEF Covers, rows
    <2>4. Claims(r)'
      BY <1>2, <2>1, <2>2, <2>3 DEF Claims, Active
    <2>5. sweeping' \in [People -> SUBSET Reqs]
      BY <1>2 DEF IInv, TypeOK
    <2> QED BY <1>2, <2>2, <2>4, <2>5, RequestStep
  <1>3. CASE List(r)
    <2> DEFINE live == {c \in Courses : interest[c][u] \in Promised!LiveStatuses}
               q == [req[r] EXCEPT !.stage = "sweeping", !.left = live]
    <2>1. q \in Requests /\ q.op = "sweep" /\ q.who = u /\ q.stage = "sweeping" /\ q.left = live
      BY <1>1 DEF Requests
    <2>2. req' = [req EXCEPT ![r] = q]
      BY <1>3 DEF List, IInv, TypeOK
    <2> HIDE DEF q
    <2> QED BY <1>2, <1>3, <2>1, <2>2 DEF List, interestVars, consent
  <1>4. CASE SweepNext(r)
    <2>1. PICK c \in req[r].left :
            IF interest[c][u] = "none" THEN Drop(r)
            ELSE /\ req' = [req EXCEPT ![r].stage = "writing", ![r].course = c, ![r].left = @ \ {c}]
                 /\ UNCHANGED sweeping
      BY <1>4 DEF SweepNext
    <2>2. CASE interest[c][u] = "none"
      BY <1>4, <2>1, <2>2, EndStep DEF SweepNext, Drop, Finish
    <2>3. CASE interest[c][u] # "none"
      <3> DEFINE q == [req[r] EXCEPT !.stage = "writing", !.course = c, !.left = @ \ {c}]
      <3>0. c \in Courses
        BY <1>1 DEF Requests
      <3>1. q \in Requests /\ q.op = "sweep" /\ q.who = u /\ q.stage = "writing" /\ q.course = c
            /\ q.left = req[r].left \ {c}
        BY <1>1, <3>0 DEF Requests
      <3>2. req' = [req EXCEPT ![r] = q]
        BY <2>1, <2>3 DEF IInv, TypeOK
      <3>3. r \in sweeping[u] => Covers(r, u)
        BY <1>1 DEF Claims
      <3>4. r \in sweeping[u] => \A d \in Courses : interest[d][u] \in Promised!LiveStatuses => d \in req[r].left
        BY <1>4, <3>3 DEF Covers, SweepNext
      <3> HIDE DEF q
      <3> QED BY <1>2, <1>4, <2>1, <2>3, <3>0, <3>1, <3>2, <3>4 DEF SweepNext
    <2> QED BY <2>2, <2>3
  <1> QED BY <1>3, <1>4

\* The sweep has finished, and has left nothing.
LEMMA SweepEndsStep ==
    ASSUME IInv, NEW r \in Reqs, SweepEnds(r), UNCHANGED report
    PROVE  IInv'
  <1> USE DEF SweepEnds, Drop, Finish, rows
  <1>1. req'[r] = Idle /\ (\A u \in People : r \notin sweeping'[u])
        /\ \A h \in Reqs \ {r} : req'[h] = req[h]
    BY DEF IInv, TypeOK
  <1>2. TypeOK'
    BY DEF IInv, TypeOK
  <1>3. Claims(r)' /\ ~Holds(r)' /\ ~Reviews(r)'
    BY <1>1, IdleClaimsNothing DEF Holds, Reviews, Idle
  <1>4. \A h \in Reqs \ {r} : Untouched(h)
    <2> SUFFICES ASSUME NEW h \in Reqs \ {r} PROVE Untouched(h)
      OBVIOUS
    <2>1. Claims(h)
      BY DEF IInv
    <2>2. \A u \in People : h \in sweeping'[u] => h \in sweeping[u]
      BY DEF IInv, TypeOK
    <2> QED BY <2>1, <2>2 DEF Untouched, Claims
  <1>5. Disclosed' /\ NothingNew
    BY DEF IInv, Disclosed, NothingNew
  <1>6. ASSUME NEW u \in People, swept'[u]
        PROVE  paused'[u] /\ (swept[u] \/ \A c \in Courses :
                                interest'[c][u] \notin Promised!LiveStatuses)
    <2>1. CASE swept[u]
      BY <2>1 DEF IInv, SweptIsPaused
    <2>2. CASE ~swept[u]
      <3>1. r \in sweeping[u]
        BY <1>6, <2>2
      <3>2. paused[u] /\ Covers(r, u)
        BY <3>1 DEF IInv, Claims
      <3> QED BY <3>2 DEF Covers
    <2> QED BY <2>1, <2>2
  <1> QED BY <1>1, <1>2, <1>3, <1>4, <1>5, <1>6, Step

\* A request that ends with no write; one that is no sweep ends so, too.
Ends(r) == Decline(r) \/ ReviewRefused(r) \/ Abort(r)

LEMMA EndSteps ==
    ASSUME IInv, NEW r \in Reqs, Ends(r),
           Abort(r) \/ UNCHANGED sweeping, UNCHANGED <<rows, paused, swept, report>>
    PROVE  IInv'
  <1>1. CASE Abort(r)
    BY <1>1, EndStep DEF Abort, Drop, Finish
  <1>2. CASE ~Abort(r)
    <2>1. req[r].op # "sweep" /\ UNCHANGED <<course, account>> /\ Finish(r)
      BY <1>2 DEF Ends, Decline, ReviewRefused
    <2>2. sweeping' = [u \in People |-> sweeping[u] \ {r}]
      BY <1>2, <2>1, NoSweep
    <2> QED BY <2>1, <2>2, EndStep DEF Finish
  <1> QED BY <1>1, <1>2

----------------------------------------------------------------------------
(* What is written.                                                         *)

\* What a commit of register, set_status or withdraw comes to: the row of one
\* interest and its disclosure, which nobody else has locked.
Writes(r, c, u, to) ==
    /\ interest' = [interest EXCEPT ![c][u] = to]
    /\ contact' \in [Courses -> [People -> Promised!Disclosures]]
    /\ \A d \in Courses, v \in People :
         contact'[d][v] = IF d # c \/ v # u THEN contact[d][v]
                          ELSE IF to = "withdrawn" THEN "revoked" ELSE "shared"
    /\ UNCHANGED <<course, account, paused, swept, report>>
    /\ \A h \in Reqs \ {r} : req'[h] = req[h]

LEMMA WriteStep ==
    ASSUME IInv, NEW r \in Reqs, NEW c \in Courses, NEW u \in People,
           NEW to \in Promised!Statuses \ {"none"},
           Writes(r, c, u, to),
           to \in Promised!LiveStatuses /\ paused[u] => interest[c][u] \in Promised!LiveStatuses,
           course[c].exists, account[u],
           \A h \in Reqs \ {r} : Holds(h) => req[h].course # c \/ req[h].who # u,
           mail' \in [Courses -> [People -> Nat]],
           told' \in [Courses -> [People -> Promised!ProviderStatuses \cup {"none"}]],
           req' \in [Reqs -> Requests \cup {Idle}],
           sweeping' \in [People -> SUBSET Reqs],
           \A v \in People : sweeping'[v] \subseteq sweeping[v],
           Claims(r)', ~Holds(r)', ~Reviews(r)'
    PROVE  IInv'
  <1> USE DEF Writes
  <1>1. \A d \in Courses, v \in People :
          interest'[d][v] = IF d = c /\ v = u THEN to ELSE interest[d][v]
    BY DEF IInv, TypeOK
  <1>3. TypeOK'
    <2>1. interest' \in [Courses -> [People -> Promised!Statuses]]
      BY DEF IInv, TypeOK
    <2> QED BY <1>1, <2>1 DEF IInv, TypeOK
  <1>4. Disclosed'
    BY <1>1 DEF IInv, Disclosed
  <1>5. NothingNew
    BY <1>1 DEF NothingNew
  <1>6. \A h \in Reqs \ {r} : Untouched(h)
    <2> SUFFICES ASSUME NEW h \in Reqs \ {r} PROVE Untouched(h)
      OBVIOUS
    <2>1. Claims(h)
      BY DEF IInv
    <2>2. Holds(h) => /\ req[h].course \in Courses /\ req[h].who \in People
                      /\ req[h].course # c \/ req[h].who # u
      BY <2>1 DEF Claims, Holds, Active, Shaped
    <2> QED BY <1>1, <2>1, <2>2 DEF Untouched, Claims
  <1>7. \A v \in People : swept'[v] => paused'[v] /\ swept[v]
    BY DEF IInv, SweptIsPaused
  <1> QED BY <1>3, <1>4, <1>5, <1>6, <1>7, Step

\* What a register or a move that is let through goes by is so at its commit.
LEMMA AcceptedIsSo ==
    ASSUME IInv, NEW r \in Reqs, CommitRegister(r) \/ CommitMove(r)
    PROVE  /\ req[r].course \in Courses /\ req[r].who \in People /\ Active(r)
           /\ interest[req[r].course][req[r].who] = req[r].was
           /\ course[req[r].course].exists /\ account[req[r].who]
           /\ req[r].op = "register" =>
                ~paused[req[r].who] /\ req[r].was \in {"none", "withdrawn"}
           /\ req[r].op = "move" =>
                req[r].was \in Promised!LiveStatuses /\ req[r].to \in Promised!ProviderStatuses
           /\ \A h \in Reqs \ {r} : Holds(h) =>
                req[h].course # req[r].course \/ req[h].who # req[r].who
  <1>1. Active(r) /\ Claims(r) /\ Shaped(r)
    BY DEF CommitRegister, CommitMove, Active, IInv, Claims
  <1>2. req[r].course \in Courses /\ req[r].who \in People
    BY <1>1 DEF CommitRegister, CommitMove, Shaped
  <1>3. interest[req[r].course][req[r].who] = req[r].was
    BY <1>1 DEF CommitRegister, CommitMove, Accepts, Claims, Holds, Promised!LiveStatuses,
       Promised!ProviderStatuses
  <1>4. course[req[r].course].exists /\ account[req[r].who]
    BY <1>2, <1>3 DEF CommitRegister, CommitMove, Accepts, IInv, TypeOK, Promised!LiveStatuses,
       Promised!ProviderStatuses
  <1>5. ASSUME NEW h \in Reqs \ {r}, Holds(h), req[h].course = req[r].course, req[h].who = req[r].who
        PROVE  FALSE
    <2>1. req[h].was = req[r].was
      BY <1>3, <1>5 DEF IInv, Claims
    <2>2. Holds(r)
      BY <1>5, <2>1 DEF Holds, CommitRegister, CommitMove
    <2> QED BY <1>5, <2>2 DEF IInv, LocksApart
  <1> QED BY <1>1, <1>2, <1>3, <1>4, <1>5 DEF CommitRegister, CommitMove, Accepts, Claims, Shaped

\* register and set_status.
LEMMA CommitSteps ==
    ASSUME IInv, NEW r \in Reqs, CommitRegister(r) \/ CommitMove(r), UNCHANGED report
    PROVE  IInv'
  <1> DEFINE c == req[r].course
             u == req[r].who
  <1>1. /\ c \in Courses /\ u \in People /\ interest[c][u] = req[r].was
        /\ course[c].exists /\ account[u]
        /\ \A h \in Reqs \ {r} : Holds(h) => req[h].course # c \/ req[h].who # u
    BY AcceptedIsSo
  <1>2. /\ req' \in [Reqs -> Requests \cup {Idle}] /\ req'[r] = Idle
        /\ \A h \in Reqs \ {r} : req'[h] = req[h]
    BY DEF CommitRegister, CommitMove, Finish, IInv, TypeOK
  <1>3. \A v \in People : r \notin sweeping'[v] /\ sweeping'[v] \subseteq sweeping[v]
    BY NoSweep DEF CommitRegister, CommitMove, consent
  <1>4. Claims(r)' /\ ~Holds(r)' /\ ~Reviews(r)'
    BY <1>2, <1>3, IdleClaimsNothing DEF Holds, Reviews, Idle
  <1>5. sweeping' \in [People -> SUBSET Reqs]
    BY DEF CommitRegister, CommitMove, consent, IInv, TypeOK
  <1>6. CASE CommitRegister(r)
    <2>1. Writes(r, c, u, "registered")
      <3>1. contact' \in [Courses -> [People -> Promised!Disclosures]]
        BY <1>6 DEF CommitRegister, IInv, TypeOK, Promised!Disclosures
      <3>2. \A d \in Courses, v \in People :
              contact'[d][v] = IF d # c \/ v # u THEN contact[d][v] ELSE "shared"
        BY <1>1, <1>6 DEF CommitRegister, IInv, TypeOK
      <3> QED BY <1>2, <1>6, <3>1, <3>2 DEF Writes, CommitRegister, consent
    <2>2. mail' \in [Courses -> [People -> Nat]] /\ told' = told
      BY <1>1, <1>6 DEF CommitRegister, IInv, TypeOK
    <2>3. ~paused[u] /\ "registered" \in Promised!Statuses \ {"none"} /\ "registered" # "withdrawn"
      BY <1>6, AcceptedIsSo DEF CommitRegister, Promised!Statuses, Promised!LiveStatuses
    <2>4. told \in [Courses -> [People -> Promised!ProviderStatuses \cup {"none"}]]
      BY DEF IInv, TypeOK
    <2> HIDE DEF c, u
    <2> QED BY <1>1, <1>2, <1>3, <1>4, <1>5, <2>1, <2>2, <2>3, <2>4, WriteStep
  <1>7. CASE CommitMove(r)
    <2>1. req[r].was \in Promised!LiveStatuses /\ req[r].to \in Promised!ProviderStatuses
      BY <1>7, AcceptedIsSo DEF CommitMove
    <2>2. contact[c][u] = "shared"
      BY <1>1, <2>1 DEF IInv, Disclosed, Promised!LiveStatuses, Promised!ProviderStatuses
    <2>3. req[r].to # "withdrawn"
      BY <2>1 DEF Promised!ProviderStatuses
    <2>4. Writes(r, c, u, req[r].to)
      <3>1. contact' = contact /\ contact \in [Courses -> [People -> Promised!Disclosures]]
        BY <1>7 DEF CommitMove, IInv, TypeOK
      <3> QED BY <1>2, <1>7, <2>2, <2>3, <3>1 DEF Writes, CommitMove, consent
    <2>5. mail' \in [Courses -> [People -> Nat]]
          /\ told' \in [Courses -> [People -> Promised!ProviderStatuses \cup {"none"}]]
      <3>1. /\ mail \in [Courses -> [People -> Nat]]
            /\ told \in [Courses -> [People -> Promised!ProviderStatuses \cup {"none"}]]
        BY DEF IInv, TypeOK
      <3>2. mail' = mail /\ (told' = told \/ told' = [told EXCEPT ![c][u] = req[r].to])
        BY <1>7 DEF CommitMove
      <3>3. req[r].to \in Promised!ProviderStatuses \cup {"none"}
        BY <2>1
      <3> DEFINE to == req[r].to
      <3> HIDE DEF c, u, to
      <3>4. [told EXCEPT ![c][u] = to] \in [Courses -> [People -> Promised!ProviderStatuses \cup {"none"}]]
        BY <1>1, <3>1, <3>3 DEF to
      <3> QED BY <3>1, <3>2, <3>4 DEF to
    <2>6. req[r].to \in Promised!Statuses \ {"none"} /\ req[r].to # "withdrawn"
      BY <2>1 DEF Promised!Statuses, Promised!LiveStatuses, Promised!ProviderStatuses
    <2>7. interest[c][u] \in Promised!LiveStatuses
      BY <1>1, <2>1
    <2> HIDE DEF c, u
    <2> QED BY <1>1, <1>2, <1>3, <1>4, <1>5, <2>4, <2>5, <2>6, <2>7, WriteStep
  <1> QED BY <1>6, <1>7

\* withdraw, by hand or in a sweep: unconditional, and it waits for row locks.
LEMMA WithdrawStep ==
    ASSUME IInv, NEW r \in Reqs, CommitWithdraw(r), UNCHANGED report
    PROVE  IInv'
  <1> DEFINE c == req[r].course
             u == req[r].who
  <1>1. /\ Active(r) /\ req[r] \in Requests /\ Claims(r)
        /\ req[r].op \in {"withdraw", "sweep"} /\ c \in Courses /\ u \in People
    <2>1. Active(r) /\ req[r] \in Requests /\ Claims(r) /\ Shaped(r)
      BY Shape DEF IInv, Claims, CommitWithdraw, Active
    <2>2. req[r].op \in Ops /\ req[r].stage = "writing"
      BY <2>1 DEF Requests, CommitWithdraw
    <2> QED BY <2>1, <2>2 DEF Shaped, Ops, LearnerOps, ReviewOps
  <1>2. CASE interest[c][u] = "none"
    BY <1>2, EndStep DEF CommitWithdraw, Drop, Finish, rows
  <1>3. CASE interest[c][u] # "none"
    <2>1. course[c].exists /\ account[u]
      BY <1>1, <1>3 DEF IInv, TypeOK
    <2>2. \A h \in Reqs \ {r} : Holds(h) => req[h].course # c \/ req[h].who # u
      BY DEF CommitWithdraw, Free, Holds
    <2>3. "withdrawn" \in Promised!Statuses \ {"none"} /\ "withdrawn" \notin Promised!LiveStatuses
      BY DEF Promised!Statuses, Promised!LiveStatuses, Promised!ProviderStatuses
    <2>4. mail' \in [Courses -> [People -> Nat]]
          /\ told' \in [Courses -> [People -> Promised!ProviderStatuses \cup {"none"}]]
      BY DEF CommitWithdraw, IInv, TypeOK
    <2>7. ASSUME \A h \in Reqs \ {r} : req'[h] = req[h]
          PROVE  Writes(r, c, u, "withdrawn")
      <3>1. contact' = [contact EXCEPT ![c][u] = "revoked"]
            /\ interest' = [interest EXCEPT ![c][u] = "withdrawn"]
        BY <1>3 DEF CommitWithdraw
      <3>2. contact' \in [Courses -> [People -> Promised!Disclosures]]
        BY <3>1 DEF IInv, TypeOK, Promised!Disclosures
      <3>3. \A d \in Courses, v \in People :
              contact'[d][v] = IF d # c \/ v # u THEN contact[d][v] ELSE "revoked"
        BY <1>1, <3>1 DEF IInv, TypeOK
      <3> QED BY <2>7, <3>1, <3>2, <3>3 DEF Writes, CommitWithdraw
    <2>5. CASE req[r].op = "withdraw"
      <3>0. req' = [req EXCEPT ![r] = Idle] /\ sweeping' = [v \in People |-> sweeping[v] \ {r}]
        BY <1>3, <2>5 DEF CommitWithdraw, Drop, Finish
      <3>1. /\ req' \in [Reqs -> Requests \cup {Idle}] /\ req'[r] = Idle
            /\ \A h \in Reqs \ {r} : req'[h] = req[h]
            /\ \A v \in People : r \notin sweeping'[v] /\ sweeping'[v] \subseteq sweeping[v]
            /\ sweeping' \in [People -> SUBSET Reqs]
        BY <3>0 DEF IInv, TypeOK
      <3>2. Claims(r)' /\ ~Holds(r)' /\ ~Reviews(r)'
        BY <3>1, IdleClaimsNothing DEF Holds, Reviews, Idle
      <3>3. Writes(r, c, u, "withdrawn")
        BY <2>7, <3>1
      <3> HIDE DEF c, u
      <3> QED BY <1>1, <2>1, <2>2, <2>3, <2>4, <3>1, <3>2, <3>3, WriteStep
    <2>6. CASE req[r].op = "sweep"
      <3> DEFINE q == [req[r] EXCEPT !.stage = "sweeping", !.course = None]
      <3>1. q \in Requests /\ q.stage = "sweeping" /\ q.op = "sweep" /\ q.who = u /\ q.left = req[r].left
        BY <1>1, <2>6 DEF Requests
      <3>2. req' = [req EXCEPT ![r] = q] /\ UNCHANGED sweeping
        BY <1>3, <2>6 DEF CommitWithdraw, IInv, TypeOK
      <3> HIDE DEF q
      <3>3. /\ req' \in [Reqs -> Requests \cup {Idle}] /\ req'[r] = q
            /\ \A h \in Reqs \ {r} : req'[h] = req[h]
            /\ sweeping' \in [People -> SUBSET Reqs]
        BY <3>1, <3>2 DEF IInv, TypeOK
      <3>4. Writes(r, c, u, "withdrawn")
        BY <2>7, <3>3
      <3>5. ~Holds(r)' /\ ~Reviews(r)'
        BY <3>1, <3>3 DEF Holds, Reviews
      <3>6. Shaped(r)'
        BY <1>1, <3>1, <3>3 DEF Shaped, ReviewOps
      <3>7. ASSUME NEW v \in People, r \in sweeping'[v]
            PROVE  v = u /\ paused'[v] /\ Covers(r, v)'
        <4>1. v = u /\ paused[v] /\ Covers(r, v)
          BY <3>2, <3>7 DEF IInv, Claims
        <4>2. \A d \in Courses : interest'[d][u] = IF d = c THEN "withdrawn" ELSE interest[d][u]
          BY <1>1, <3>4 DEF Writes, IInv, TypeOK
        <4>3. \A d \in Courses : interest[d][u] \in Promised!LiveStatuses => d \in req[r].left \/ d = c
          BY <4>1 DEF Covers, CommitWithdraw
        <4> QED BY <2>3, <3>1, <3>3, <3>4, <4>1, <4>2, <4>3 DEF Covers, Writes
      <3>8. Claims(r)'
        BY <3>1, <3>3, <3>5, <3>6, <3>7 DEF Claims, Active
      <3> HIDE DEF c, u
      <3> QED BY <1>1, <2>1, <2>2, <2>3, <2>4, <3>2, <3>3, <3>4, <3>5, <3>8, WriteStep
    <2> QED BY <1>1, <2>5, <2>6
  <1> QED BY <1>2, <1>3

----------------------------------------------------------------------------
(* Reports, and the course they are about.                                  *)

\* The reports that a review, and what it goes by, cannot see another's hand in.
ReportsKept(r) ==
    /\ \A c \in Courses, u \in People :
         report'[c][u] # report[c][u] =>
             \A h \in Reqs \ {r} : Reviews(h) /\ req[h].course = c => u \notin req[h].held
    /\ UNCHANGED <<account, rows, paused, sweeping, swept>>

\* A step that ends a request, or is nobody's, and writes reports or courses.
LEMMA ReportStep ==
    ASSUME IInv, NEW r,
           ReportsKept(r),
           course' \in [Courses -> CourseRows],
           \A c \in Courses : course[c].exists => course'[c].exists,
           report' \in [Courses -> [People -> {"none", "open"} \cup Closed]],
           \A c \in Courses, u \in People : report'[c][u] # "none" => account[u],
           \/ r \notin Reqs /\ req' = req
           \/ /\ r \in Reqs /\ req' = [req EXCEPT ![r] = Idle]
              /\ \A u \in People : r \notin sweeping[u]
    PROVE  IInv'
  <1> USE DEF rows
  <1>1. /\ req' \in [Reqs -> Requests \cup {Idle}]
        /\ \A h \in Reqs \ {r} : req'[h] = req[h]
        /\ r \in Reqs => req'[r] = Idle /\ \A u \in People : r \notin sweeping'[u]
    BY DEF IInv, TypeOK, ReportsKept
  <1>2. TypeOK'
    BY <1>1 DEF IInv, TypeOK, ReportsKept
  <1>3. r \in Reqs => Claims(r)' /\ ~Holds(r)' /\ ~Reviews(r)'
    BY <1>1, IdleClaimsNothing DEF Holds, Reviews, Idle
  <1>4. \A h \in Reqs \ {r} : Untouched(h)
    <2> SUFFICES ASSUME NEW h \in Reqs \ {r} PROVE Untouched(h)
      OBVIOUS
    <2>1. Claims(h) /\ (Active(h) => req[h] \in Requests)
      BY Shape DEF IInv
    <2>2. ASSUME Reviews(h), NEW u \in req[h].held
          PROVE  report'[req[h].course][u] = report[req[h].course][u]
      <3>1. req[h].course \in Courses /\ u \in People
        BY <2>1, <2>2 DEF Claims, Reviews, Active, Shaped, Open
      <3> QED BY <2>2, <3>1 DEF ReportsKept
    <2> QED BY <2>1, <2>2 DEF Untouched, Claims, ReportsKept
  <1>5. Disclosed' /\ NothingNew
    BY DEF IInv, Disclosed, NothingNew, ReportsKept
  <1>6. \A u \in People : swept'[u] => paused'[u] /\ swept[u]
    BY DEF IInv, SweptIsPaused, ReportsKept
  <1>7. \A u \in People : paused[u] => paused'[u]
    BY DEF ReportsKept
  <1> QED BY <1>1, <1>2, <1>3, <1>4, <1>5, <1>6, <1>7, Step

\* What a review is about.
LEMMA ReviewIs ==
    ASSUME IInv, NEW r \in Reqs, Reviews(r)
    PROVE  /\ req[r].course \in Courses /\ req[r].held \subseteq People
           /\ \A u \in req[r].held : report[req[r].course][u] = "open" /\ account[u]
           /\ \A h \in Reqs \ {r} : Reviews(h) /\ req[h].course = req[r].course =>
                req[h].held \cap req[r].held = {}
           /\ \A u \in People : r \notin sweeping[u]
  <1>1. Claims(r) /\ Shaped(r)
    BY DEF IInv, Claims, Reviews, Active
  <1>2. req[r].course \in Courses
    BY <1>1 DEF Shaped, Reviews
  <1>3. req[r].held \subseteq Open(req[r].course)
    BY <1>1 DEF Claims
  <1>4. \A u \in Open(req[r].course) : u \in People /\ report[req[r].course][u] = "open" /\ account[u]
    BY <1>2 DEF Open, IInv, TypeOK
  <1>5. \A u \in People : r \notin sweeping[u]
    BY NoSweep DEF Reviews, ReviewOps
  <1> QED BY <1>2, <1>3, <1>4, <1>5 DEF IInv, LocksApart

\* What a decision writes: its own reports, and no other.
LEMMA DecidedIs ==
    ASSUME IInv, NEW r \in Reqs, Reviews(r), NEW outcome \in Closed
    PROVE  /\ Decided(req[r], outcome) \in [Courses -> [People -> {"none", "open"} \cup Closed]]
           /\ \A c \in Courses, u \in People :
                Decided(req[r], outcome)[c][u] =
                    IF c = req[r].course /\ u \in req[r].held THEN outcome ELSE report[c][u]
  <1>1. req[r].course \in Courses
    BY ReviewIs
  <1>2. report \in [Courses -> [People -> {"none", "open"} \cup Closed]]
    BY DEF IInv, TypeOK
  <1> DEFINE c == req[r].course
             one == [u \in People |-> IF u \in req[r].held THEN outcome ELSE report[c][u]]
  <1>3. one \in [People -> {"none", "open"} \cup Closed]
    BY <1>1, <1>2
  <1>4. Decided(req[r], outcome) = [report EXCEPT ![c] = one]
    BY <1>1, <1>2 DEF Decided
  <1> QED BY <1>1, <1>2, <1>3, <1>4

\* dismiss and takedown.
LEMMA DecisionSteps ==
    ASSUME IInv, NEW r \in Reqs, Dismiss(r) \/ Takedown(r), UNCHANGED interestVars
    PROVE  IInv'
  <1> USE DEF interestVars, rows, consent
  <1>1. Reviews(r) /\ req' = [req EXCEPT ![r] = Idle] /\ UNCHANGED account
    BY DEF Dismiss, Takedown, Reviews, ReviewOps, Finish
  <1>2. PICK outcome \in Closed : report' = Decided(req[r], outcome)
    BY DEF Dismiss, Takedown, Closed
  <1>3. report' \in [Courses -> [People -> {"none", "open"} \cup Closed]]
    BY <1>1, <1>2, DecidedIs
  <1>4. \A c \in Courses, u \in People :
          report'[c][u] = IF c = req[r].course /\ u \in req[r].held THEN outcome ELSE report[c][u]
    BY <1>1, <1>2, DecidedIs
  <1>5. \A c \in Courses, u \in People : report'[c][u] # "none" => account[u]
    BY <1>1, <1>4, ReviewIs DEF IInv, TypeOK
  <1>6. ReportsKept(r)
    <2>1. ASSUME NEW c \in Courses, NEW u \in People, report'[c][u] # report[c][u],
                 NEW h \in Reqs \ {r}, Reviews(h), req[h].course = c
          PROVE  u \notin req[h].held
      <3>1. c = req[r].course /\ u \in req[r].held
        BY <1>4, <2>1
      <3> QED BY <1>1, <2>1, <3>1, ReviewIs
    <2> QED BY <1>1, <2>1 DEF ReportsKept
  <1>7. course' \in [Courses -> CourseRows] /\ \A c \in Courses : course'[c].exists = course[c].exists
    <2>1. course \in [Courses -> CourseRows]
      BY DEF IInv, TypeOK
    <2>2. CASE Dismiss(r)
      BY <2>1, <2>2 DEF Dismiss
    <2>3. CASE Takedown(r)
      <3>1. course' = [course EXCEPT ![req[r].course] = [@ EXCEPT !.published = FALSE, !.taken = TRUE]]
        BY <1>1, <2>1, <2>3, ReviewIs DEF Takedown
      <3>2. course[req[r].course] \in CourseRows
        BY <1>1, <2>1, ReviewIs
      <3>3. [course[req[r].course] EXCEPT !.published = FALSE, !.taken = TRUE] \in CourseRows
        BY <3>2 DEF CourseRows
      <3> QED BY <1>1, <2>1, <3>1, <3>3, ReviewIs DEF CourseRows
    <2> QED BY <2>2, <2>3
  <1>8. \A u \in People : r \notin sweeping[u]
    BY <1>1, ReviewIs
  <1> QED BY <1>1, <1>3, <1>5, <1>6, <1>7, <1>8, ReportStep

\* submit_report, which never touches a report that is there.
LEMMA ReportCommitsStep ==
    ASSUME IInv, NEW r \in Reqs, ReportCommits(r), UNCHANGED interestVars
    PROVE  IInv'
  <1> USE DEF interestVars, rows, consent
  <1> DEFINE c == req[r].course
             u == req[r].who
  <1>1. c \in Courses /\ u \in People /\ Active(r) /\ req[r].op = "report"
    BY DEF ReportCommits, IInv, Claims, Shaped
  <1>2. \/ report' = report
        \/ report[c][u] = "none" /\ account[u] /\ report' = [report EXCEPT ![c][u] = "open"]
    BY DEF ReportCommits
  <1>3. report \in [Courses -> [People -> {"none", "open"} \cup Closed]]
    BY DEF IInv, TypeOK
  <1> HIDE DEF c, u
  <1>4. report' \in [Courses -> [People -> {"none", "open"} \cup Closed]]
    BY <1>1, <1>2, <1>3
  <1>5. \A d \in Courses, v \in People : report'[d][v] # report[d][v] =>
          d = c /\ v = u /\ report[c][u] = "none" /\ account[u]
    BY <1>1, <1>2, <1>3
  <1>6. \A d \in Courses, v \in People : report'[d][v] # "none" => account[v]
    BY <1>5 DEF IInv, TypeOK
  <1>7. ReportsKept(r)
    <2>1. ASSUME NEW d \in Courses, NEW v \in People, report'[d][v] # report[d][v],
                 NEW h \in Reqs \ {r}, Reviews(h), req[h].course = d
          PROVE  v \notin req[h].held
      <3>1. report[req[h].course][v] = "none"
        BY <1>5, <2>1
      <3> QED BY <2>1, <3>1, ReviewIs
    <2> QED BY <2>1 DEF ReportsKept, ReportCommits
  <1>8. \A v \in People : r \notin sweeping[v]
    BY <1>1, NoSweep
  <1>9. req' = [req EXCEPT ![r] = Idle] /\ UNCHANGED course
    BY DEF ReportCommits, Finish
  <1>10. course \in [Courses -> CourseRows]
    BY DEF IInv, TypeOK
  <1> QED BY <1>4, <1>6, <1>7, <1>8, <1>9, <1>10, ReportStep

\* purge_expired, which waits for who reviews what it deletes.
LEMMA PurgeStep ==
    ASSUME IInv, Purge, UNCHANGED interestVars
    PROVE  IInv'
  <1> USE DEF interestVars, rows, consent
  <1>1. PICK doomed : /\ \A row \in doomed : Unheld(row[1], row[2])
                      /\ report' = [c \in Courses |-> [u \in People |->
                           IF <<c, u>> \in doomed THEN "none" ELSE report[c][u]]]
                      /\ UNCHANGED <<course, account, req>>
    BY DEF Purge
  <1>2. report \in [Courses -> [People -> {"none", "open"} \cup Closed]]
        /\ course \in [Courses -> CourseRows]
    BY DEF IInv, TypeOK
  <1>3. report' \in [Courses -> [People -> {"none", "open"} \cup Closed]]
    BY <1>1, <1>2
  <1>4. \A c \in Courses, u \in People : report'[c][u] # "none" => account[u]
    BY <1>1 DEF IInv, TypeOK
  <1>5. PICK none : none \notin Reqs
    BY NoSetContainsEverything
  <1>6. ReportsKept(none)
    <2>1. ASSUME NEW c \in Courses, NEW u \in People, report'[c][u] # report[c][u],
                 NEW h \in Reqs, Reviews(h), req[h].course = c
          PROVE  u \notin req[h].held
      <3>1. Unheld(c, u)
        BY <1>1, <2>1
      <3> QED BY <2>1, <3>1 DEF Unheld, Reviews
    <2> QED BY <1>1, <2>1 DEF ReportsKept
  <1>7. course' \in [Courses -> CourseRows] /\ course' = course /\ req' = req
    BY <1>1, <1>2
  <1>8. \A c \in Courses : course[c].exists => course'[c].exists
    BY <1>7
  <1>9. none \notin Reqs /\ req' = req
    BY <1>5, <1>7
  <1> HIDE DEF interestVars, rows, consent
  <1> QED BY <1>3, <1>4, <1>6, <1>7, <1>8, <1>9, ReportStep

\* The owner publishes or unpublishes; an operator lifts the stamp.
LEMMA CourseSteps ==
    ASSUME IInv, (\E r \in Reqs : PublishCommits(r)) \/ (\E c \in Listed : Restore(c)),
           UNCHANGED <<interestVars, report>>
    PROVE  IInv'
  <1> USE DEF interestVars, rows, consent
  <1>1. course \in [Courses -> CourseRows] /\ report \in [Courses -> [People -> {"none", "open"} \cup Closed]]
    BY DEF IInv, TypeOK
  <1>2. \A c \in Courses, u \in People : report[c][u] # "none" => account[u]
    BY DEF IInv, TypeOK
  <1>3. ASSUME NEW c \in Courses, NEW s \in CourseRows, s.exists = course[c].exists,
               course' = course \/ course' = [course EXCEPT ![c] = s]
        PROVE  /\ course' \in [Courses -> CourseRows]
               /\ \A d \in Courses : course[d].exists => course'[d].exists
    BY <1>1, <1>3
  <1>4. ASSUME NEW r \in Reqs, PublishCommits(r) PROVE IInv'
    <2>1. req[r].course \in Courses /\ req[r].op # "sweep"
      BY <1>4 DEF PublishCommits, IInv, Claims, Shaped
    <2> DEFINE s == [course[req[r].course] EXCEPT !.published = (req[r].op = "publish")]
    <2>2. s \in CourseRows /\ s.exists = course[req[r].course].exists
      BY <1>1, <2>1 DEF CourseRows
    <2>3. course' = course \/ course' = [course EXCEPT ![req[r].course] = s]
      BY <1>1, <1>4, <2>1 DEF PublishCommits
    <2>4. ReportsKept(r)
      BY <1>4 DEF ReportsKept, PublishCommits
    <2>5. \A u \in People : r \notin sweeping[u]
      BY <2>1, NoSweep
    <2> HIDE DEF s
    <2>6. /\ course' \in [Courses -> CourseRows]
          /\ \A d \in Courses : course[d].exists => course'[d].exists
      BY <1>3, <2>1, <2>2, <2>3
    <2> QED BY <1>1, <1>2, <1>4, <2>4, <2>5, <2>6, ReportStep DEF PublishCommits, Finish
  <1>5. ASSUME NEW c \in Listed, Restore(c) PROVE IInv'
    <2>1. c \in Courses
      BY ListedAreCourses
    <2> DEFINE s == [course[c] EXCEPT !.taken = FALSE]
    <2>2. s \in CourseRows /\ s.exists = course[c].exists
      BY <1>1, <2>1 DEF CourseRows
    <2>3. course' = [course EXCEPT ![c] = s]
      BY <1>1, <1>5, <2>1 DEF Restore
    <2> HIDE DEF s
    <2>4. /\ course' \in [Courses -> CourseRows]
          /\ \A d \in Courses : course[d].exists => course'[d].exists
      BY <1>3, <2>1, <2>2, <2>3
    <2>5. PICK none : none \notin Reqs
      BY NoSetContainsEverything
    <2>6. ReportsKept(none)
      BY <1>5 DEF ReportsKept, Restore
    <2>7. req' = req
      BY <1>5 DEF Restore
    <2> QED BY <1>1, <1>2, <2>4, <2>5, <2>6, <2>7, ReportStep
  <1> QED BY <1>4, <1>5

\* Deleting a course, or erasing a person: their interests go, unless one of
\* them is locked.
LEMMA CascadeSteps ==
    ASSUME IInv, (\E c \in Listed : Delete(c)) \/ (\E u \in People : Erase(u))
    PROVE  IInv'
  <1> USE DEF consent
  <1>1. PICK gone : Cascade(gone)
    BY DEF Delete, Erase
  <1>2. /\ \A row \in gone : Free(row[1], row[2])
        /\ \A c \in Courses, u \in People :
             /\ interest'[c][u] = IF <<c, u>> \in gone THEN "none" ELSE interest[c][u]
             /\ contact'[c][u] = IF <<c, u>> \in gone THEN "never" ELSE contact[c][u]
        /\ UNCHANGED <<mail, told, paused, sweeping, swept, req>>
    BY <1>1 DEF Cascade
  <1>3. /\ interest' \in [Courses -> [People -> Promised!Statuses]]
        /\ contact' \in [Courses -> [People -> Promised!Disclosures]]
    <2>1. /\ interest \in [Courses -> [People -> Promised!Statuses]]
          /\ contact \in [Courses -> [People -> Promised!Disclosures]]
          /\ "none" \in Promised!Statuses /\ "never" \in Promised!Disclosures
      BY DEF IInv, TypeOK, Promised!Statuses, Promised!Disclosures
    <2> QED BY <1>1, <2>1 DEF Cascade
  <1>4. Disclosed'
    BY <1>2 DEF IInv, Disclosed
  <1>5. NothingNew
    BY <1>2 DEF NothingNew, Promised!LiveStatuses, Promised!ProviderStatuses
  <1>6. ASSUME NEW h \in Reqs, Holds(h)
        PROVE  interest'[req[h].course][req[h].who] = interest[req[h].course][req[h].who]
    <2>1. req[h].course \in Courses /\ req[h].who \in People
      BY <1>6 DEF IInv, Claims, Holds, Active, Shaped
    <2>2. <<req[h].course, req[h].who>> \notin gone
      BY <1>2, <1>6, <2>1 DEF Free, Holds
    <2> QED BY <1>2, <2>1, <2>2
  <1>7. ASSUME NEW h \in Reqs, Reviews(h), NEW u \in req[h].held
        PROVE  report'[req[h].course][u] = report[req[h].course][u]
    <2>1. req[h].course \in Courses /\ u \in People
      BY <1>7, ReviewIs
    <2>2. CASE \E c \in Listed : Delete(c)
      BY <2>2 DEF Delete
    <2>3. CASE \E v \in People : Erase(v)
      <3>1. PICK v \in People : Erase(v)
        BY <2>3
      <3>2. u # v
        BY <1>7, <2>1, <3>1 DEF Erase, Unheld, Reviews
      <3>3. report \in [Courses -> [People -> {"none", "open"} \cup Closed]]
        BY DEF IInv, TypeOK
      <3> QED BY <2>1, <3>1, <3>2, <3>3 DEF Erase
    <2> QED BY <2>2, <2>3
  <1>8. TypeOK'
    <2>1. CASE \E c \in Listed : Delete(c)
      <3>1. PICK c \in Listed : Delete(c)
        BY <2>1
      <3>2. c \in Courses /\ Gone \in CourseRows
        BY ListedAreCourses DEF Gone, CourseRows
      <3>3. \A u \in People : interest'[c][u] = "none"
        BY <3>1, <3>2 DEF Delete, Cascade
      <3>4. course' \in [Courses -> CourseRows] /\ \A d \in Courses : d # c => course'[d] = course[d]
        BY <3>1, <3>2 DEF Delete, IInv, TypeOK
      <3>5. UNCHANGED <<account, report>>
        BY <3>1 DEF Delete
      <3>6. ASSUME NEW d \in Courses, NEW u \in People, interest'[d][u] # "none"
            PROVE  course'[d].exists /\ account'[u]
        <4>1. d # c /\ interest[d][u] # "none"
          BY <1>2, <3>3, <3>6
        <4> QED BY <3>4, <3>5, <4>1 DEF IInv, TypeOK
      <3>7. \A d \in Courses, u \in People : report'[d][u] # "none" => account'[u]
        BY <3>5 DEF IInv, TypeOK
      <3> QED BY <1>2, <1>3, <3>4, <3>5, <3>6, <3>7 DEF IInv, TypeOK
    <2>2. CASE \E v \in People : Erase(v)
      <3>1. PICK v \in People : Erase(v)
        BY <2>2
      <3>2. \A d \in Courses : interest'[d][v] = "none"
        BY <3>1 DEF Erase, Cascade
      <3>3. account' \in [People -> BOOLEAN] /\ \A u \in People : u # v => account'[u] = account[u]
        BY <3>1 DEF Erase, IInv, TypeOK
      <3>4. report \in [Courses -> [People -> {"none", "open"} \cup Closed]]
        BY DEF IInv, TypeOK
      <3>5. report' \in [Courses -> [People -> {"none", "open"} \cup Closed]]
            /\ \A d \in Courses, u \in People : report'[d][u] = IF u = v THEN "none" ELSE report[d][u]
        BY <3>1, <3>4 DEF Erase
      <3>6. UNCHANGED course
        BY <3>1 DEF Erase
      <3>7. ASSUME NEW d \in Courses, NEW u \in People, interest'[d][u] # "none"
            PROVE  course'[d].exists /\ account'[u]
        <4>1. u # v /\ interest[d][u] # "none"
          BY <1>2, <3>2, <3>7
        <4> QED BY <3>3, <3>6, <4>1 DEF IInv, TypeOK
      <3>8. \A d \in Courses, u \in People : report'[d][u] # "none" => account'[u]
        BY <3>3, <3>5 DEF IInv, TypeOK
      <3> QED BY <1>2, <1>3, <3>3, <3>5, <3>6, <3>7, <3>8 DEF IInv, TypeOK
    <2> QED BY <2>1, <2>2
  <1>9. PICK none : none \notin Reqs
    BY NoSetContainsEverything
  <1>10. \A h \in Reqs \ {none} : req'[h] = req[h] /\ Untouched(h)
    <2> SUFFICES ASSUME NEW h \in Reqs PROVE req'[h] = req[h] /\ Untouched(h)
      OBVIOUS
    <2>1. Claims(h)
      BY DEF IInv
    <2> QED BY <1>2, <1>6, <1>7, <2>1 DEF Untouched, Claims
  <1>11. \A u \in People : swept'[u] => paused'[u] /\ swept[u]
    BY <1>2 DEF IInv, SweptIsPaused
  <1> QED BY <1>2, <1>4, <1>5, <1>8, <1>9, <1>10, <1>11, Step

\* restore_consent, which nobody who registers meanwhile can be told by.
LEMMA ResumeStep ==
    ASSUME IInv, NEW u \in People, Resume(u), UNCHANGED report
    PROVE  IInv'
  <1> USE DEF rows
  <1>1. TypeOK'
    BY DEF IInv, TypeOK, Resume
  <1>2. Disclosed' /\ NothingNew
    BY DEF IInv, Disclosed, NothingNew, Resume
  <1>3. \A v \in People : /\ paused'[v] = (paused[v] /\ v # u)
                          /\ sweeping'[v] = IF v = u THEN {} ELSE sweeping[v]
                          /\ swept'[v] = (swept[v] /\ v # u)
    BY DEF IInv, TypeOK, Resume
  <1>4. ASSUME NEW h \in Reqs PROVE req'[h] = req[h] /\ Untouched(h)
    <2>1. Claims(h)
      BY DEF IInv
    <2>2. Active(h) /\ req[h].op = "register" => req[h].who \in People
      BY <2>1 DEF Claims, Shaped
    <2>3. UNCHANGED <<req, interest, report>>
      BY DEF Resume
    <2>4. Active(h) /\ req[h].op = "register" => ~paused'[req[h].who]
      BY <1>3, <2>1, <2>2 DEF Claims
    <2>5. \A v \in People : h \in sweeping'[v] => h \in sweeping[v] /\ paused'[v]
      BY <1>3, <2>1 DEF Claims
    <2> QED BY <2>3, <2>4, <2>5 DEF Untouched
  <1>5. PICK none : none \notin Reqs
    BY NoSetContainsEverything
  <1>6. \A v \in People : swept'[v] => paused'[v] /\ swept[v]
    BY <1>3 DEF IInv, SweptIsPaused
  <1> QED BY <1>1, <1>2, <1>3, <1>4, <1>5, <1>6, Step

----------------------------------------------------------------------------
(* The theorems.                                                            *)

LEMMA InitEstablishes == Init => IInv
  <1> SUFFICES ASSUME Init PROVE IInv
    OBVIOUS
  <1> USE DEF Init, InterestInit, ModerationInit, Promised!Init
  <1>1. TypeOK
    BY DEF TypeOK, CourseRows, Promised!Statuses, Promised!Disclosures
  <1>2. \A r \in Reqs : Claims(r) /\ ~Holds(r) /\ ~Reviews(r)
    BY DEF Claims, Active, Holds, Reviews, Idle
  <1> QED BY <1>1, <1>2 DEF IInv, Disclosed, LocksApart, SweptIsPaused, PausedSharesNothing

\* Every step of every handler, of the operators and of the purge keeps it.
LEMMA StepPreserves ==
    ASSUME IInv, [Next]_vars
    PROVE  IInv'
  <1>1. ASSUME NEW r \in Reqs, InterestStep(r), UNCHANGED report
        PROVE  IInv'
    <2>1. CASE RegisterAsks(r) \/ MoveAsks(r) \/ WithdrawAsks(r)
      BY <1>1, <2>1, AskSteps DEF Asks, RegisterAsks, MoveAsks, WithdrawAsks, interestVars, rows, consent
    <2>2. CASE Lock(r)
      BY <1>1, <2>2, LockSteps DEF Lock
    <2>3. CASE Decline(r) \/ Abort(r)
      BY <1>1, <2>3, EndSteps DEF Ends, Decline, Abort, interestVars, rows, consent
    <2> QED BY <1>1, <2>1, <2>2, <2>3, StampStep, WalkSteps, SweepEndsStep, CommitSteps, WithdrawStep
            DEF InterestStep
  <1>2. ASSUME NEW r \in Reqs, ModerationStep(r), UNCHANGED interestVars
        PROVE  IInv'
    <2>1. CASE ReportAsks(r) \/ ReviewAsks(r)
      BY <1>2, <2>1, AskSteps DEF Asks, ReportAsks, ReviewAsks, interestVars, rows, consent
    <2>2. CASE ReviewLocks(r)
      BY <1>2, <2>2, LockSteps DEF ReviewLocks
    <2>3. CASE ReviewRefused(r)
      BY <1>2, <2>3, EndSteps DEF Ends, ReviewRefused, interestVars, rows, consent
    <2> QED BY <1>2, <2>1, <2>2, <2>3, ReportCommitsStep, DecisionSteps DEF ModerationStep
  <1>3. ASSUME NEW r \in Reqs, PublishAsks(r), UNCHANGED <<interestVars, report>>
        PROVE  IInv'
    BY <1>3, AskSteps DEF Asks, interestVars, rows, consent
  <1>4. CASE UNCHANGED vars
    <2>1. PICK none : none \notin Reqs
      BY NoSetContainsEverything
    <2>2. ReportsKept(none)
      BY <1>4 DEF vars, ReportsKept, interestVars, rows, consent
    <2> QED BY <1>4, <2>1, <2>2, ReportStep DEF vars, IInv, TypeOK
  <1>5. ASSUME NEW c \in Listed, Restore(c), UNCHANGED interestVars
        PROVE  IInv'
    BY <1>5, CourseSteps DEF Restore
  <1>6. CASE \E r \in Reqs : PublishCommits(r) /\ UNCHANGED <<interestVars, report>>
    BY <1>6, CourseSteps
  <1>7. CASE \E c \in Listed : Delete(c)
    BY <1>7, CascadeSteps
  <1>8. CASE \E u \in People : Erase(u)
    BY <1>8, CascadeSteps
  <1>9. CASE Purge /\ UNCHANGED interestVars
    BY <1>9, PurgeStep
  <1>10. ASSUME NEW u \in People, Resume(u), UNCHANGED report
         PROVE  IInv'
    BY <1>10, ResumeStep
  <1> QED BY <1>1, <1>2, <1>3, <1>4, <1>5, <1>6, <1>7, <1>8, <1>9, <1>10 DEF Next

\* Every step of every handler leaves the rows, the locks and the sweeps as IInv
\* says they are.
THEOREM Invariance == Spec => []IInv
  <1>1. Init => IInv
    BY InitEstablishes
  <1>2. IInv /\ [Next]_vars => IInv'
    BY StepPreserves
  <1> QED BY <1>1, <1>2, PTL DEF Spec

\* The rows and the requests in flight are well formed, and an interest keeps
\* its course and its person, a report its reporter.
THEOREM TypeCorrect == Spec => []TypeOK
  <1>1. IInv => TypeOK
    BY DEF IInv
  <1> QED BY <1>1, Invariance, PTL

\* withdraw_consent's promise: once a sweep has finished, nothing of somebody
\* whose consent is withdrawn is live or shared, whatever registered or moved
\* beside it.
THEOREM ConsentIsHonoured == Spec => []PausedSharesNothing
  <1>1. IInv => PausedSharesNothing
    BY DEF IInv
  <1> QED BY <1>1, Invariance, PTL

\* The steps that write reports.
ReportsWrittenBy ==
    \/ \E r \in Reqs : ReportCommits(r) \/ Dismiss(r) \/ Takedown(r)
    \/ Purge
    \/ \E u \in People : Erase(u)

LEMMA OthersKeepReports ==
    ASSUME [Next]_vars, ~ReportsWrittenBy
    PROVE  UNCHANGED report
  <1>1. ASSUME NEW r \in Reqs, ModerationStep(r) PROVE UNCHANGED report
    BY <1>1 DEF ModerationStep, ReportsWrittenBy, ReportAsks, ReviewAsks, ReviewLocks, ReviewRefused
  <1>2. ASSUME NEW c \in Listed, Restore(c) PROVE UNCHANGED report
    BY <1>2 DEF Restore
  <1>3. ASSUME NEW c \in Listed, Delete(c) PROVE UNCHANGED report
    BY <1>3 DEF Delete
  <1>4. CASE UNCHANGED vars
    BY <1>4 DEF vars
  <1> QED BY <1>1, <1>2, <1>3, <1>4 DEF Next, ReportsWrittenBy

\* A report is opened, decided with its review's listing, or deleted.
LEMMA ReportMoves ==
    ASSUME IInv, [Next]_vars, NEW c \in Courses, NEW u \in People, report'[c][u] # report[c][u]
    PROVE  \/ report[c][u] = "none" /\ report'[c][u] = "open"
           \/ report[c][u] = "open" /\ report'[c][u] = "dismissed"
           \/ /\ report[c][u] = "open" /\ report'[c][u] = "actioned"
              /\ ~course[c].taken /\ course'[c].taken
           \/ report'[c][u] = "none"
  <1>1. report \in [Courses -> [People -> {"none", "open"} \cup Closed]] /\ course \in [Courses -> CourseRows]
    BY DEF IInv, TypeOK
  <1>2. ASSUME NEW r \in Reqs, ReportCommits(r)
        PROVE  report[c][u] = "none" /\ report'[c][u] = "open"
    <2>1. req[r].course \in Courses /\ req[r].who \in People
      BY <1>2 DEF ReportCommits, IInv, Claims, Shaped
    <2> QED BY <1>1, <1>2, <2>1 DEF ReportCommits
  <1>3. ASSUME NEW r \in Reqs, Dismiss(r)
        PROVE  report[c][u] = "open" /\ report'[c][u] = "dismissed"
    <2>1. Reviews(r) /\ "dismissed" \in Closed /\ report' = Decided(req[r], "dismissed")
      BY <1>3 DEF Dismiss, Reviews, ReviewOps, Closed
    <2>2. c = req[r].course /\ u \in req[r].held /\ report'[c][u] = "dismissed"
      BY <2>1, DecidedIs
    <2> QED BY <2>1, <2>2, ReviewIs
  <1>4. ASSUME NEW r \in Reqs, Takedown(r)
        PROVE  /\ report[c][u] = "open" /\ report'[c][u] = "actioned"
               /\ ~course[c].taken /\ course'[c].taken
    <2>1. Reviews(r) /\ "actioned" \in Closed /\ report' = Decided(req[r], "actioned")
      BY <1>4 DEF Takedown, Reviews, ReviewOps, Closed
    <2>2. c = req[r].course /\ u \in req[r].held /\ report'[c][u] = "actioned"
      BY <2>1, DecidedIs
    <2>3. ~course[c].taken /\ course' = [course EXCEPT ![c] = [@ EXCEPT !.published = FALSE, !.taken = TRUE]]
      BY <1>1, <1>4, <2>2 DEF Takedown, Removable
    <2>4. course'[c].taken
      BY <1>1, <2>3 DEF CourseRows
    <2> QED BY <2>1, <2>2, <2>3, <2>4, ReviewIs
  <1>5. ASSUME Purge PROVE report'[c][u] = "none"
    BY <1>5 DEF Purge
  <1>6. ASSUME NEW v \in People, Erase(v) PROVE report'[c][u] = "none"
    BY <1>1, <1>6 DEF Erase
  <1>7. CASE ~ReportsWrittenBy
    BY <1>7, OthersKeepReports
  <1> QED BY <1>2, <1>3, <1>4, <1>5, <1>6, <1>7 DEF ReportsWrittenBy

\* _lock_open's promise: of two operators who review one listing at once, the
\* second decides no report that the first has decided.
THEOREM DecisionsStand == Spec => DecisionsAreFinal
  <1>1. ASSUME IInv, [Next]_vars
        PROVE  \A c \in Courses, u \in People :
                 report[c][u] \in Closed => report'[c][u] \in {report[c][u], "none"}
    BY <1>1, ReportMoves DEF Closed
  <1> QED BY <1>1, Invariance, PTL DEF Spec, DecisionsAreFinal

\* takedown's promise: a report is marked as acted on in the step that removes
\* the listing, and in no other.
THEOREM ActionedMeansRemoved == Spec => ActionedWithTheTakedown
  <1>1. ASSUME IInv, [Next]_vars
        PROVE  \A c \in Courses, u \in People :
                 report[c][u] # "actioned" /\ report'[c][u] = "actioned" =>
                     ~course[c].taken /\ course'[c].taken
    BY <1>1, ReportMoves
  <1> QED BY <1>1, Invariance, PTL DEF Spec, ActionedWithTheTakedown

----------------------------------------------------------------------------
(* Its interests implement Enquiry.                                         *)

LEMMA CommitsKeepPromise ==
    ASSUME IInv, NEW r \in Reqs, CommitRegister(r) \/ CommitMove(r)
    PROVE  [Promised!Next]_(Promised!vars)
  <1> DEFINE c == req[r].course
             u == req[r].who
  <1>1. /\ c \in Courses /\ u \in People /\ interest[c][u] = req[r].was
        /\ interest \in [Courses -> [People -> Promised!Statuses]]
    BY AcceptedIsSo DEF IInv, TypeOK
  <1>2. CASE CommitRegister(r)
    <2>1. ~paused[u] /\ interest[c][u] \in {"none", "withdrawn"}
      BY <1>1, <1>2, AcceptedIsSo DEF CommitRegister
    <2>2. Promised!Register(c, u)
      BY <1>2, <2>1 DEF CommitRegister, Promised!Register, consent
    <2> QED BY <1>1, <2>2 DEF Promised!Next
  <1>3. CASE CommitMove(r)
    <2> DEFINE to == req[r].to
    <2>1. interest[c][u] \in Promised!LiveStatuses /\ to \in Promised!ProviderStatuses
      BY <1>1, <1>3, AcceptedIsSo DEF CommitMove
    <2>2. /\ interest' = [interest EXCEPT ![c][u] = to]
          /\ UNCHANGED <<contact, mail, paused>>
          /\ told' = IF to # interest[c][u] THEN [told EXCEPT ![c][u] = to] ELSE told
      BY <1>1, <1>3 DEF CommitMove, consent
    <2> HIDE DEF c, u, to
    <2>3. CASE to = interest[c][u]
      <3>1. interest' = interest
        BY <1>1, <2>2, <2>3
      <3> QED BY <2>2, <2>3, <3>1 DEF Promised!vars
    <2>4. CASE to # interest[c][u]
      <3>1. Promised!Move(c, u)
        BY <2>1, <2>2, <2>4 DEF Promised!Move
      <3> QED BY <1>1, <3>1 DEF Promised!Next
    <2> QED BY <2>3, <2>4
  <1> QED BY <1>2, <1>3

\* The withdrawal has the last word; a second one changes nothing.
LEMMA WithdrawalKeepsPromise ==
    ASSUME IInv, NEW r \in Reqs, CommitWithdraw(r)
    PROVE  [Promised!Next]_(Promised!vars)
  <1> DEFINE c == req[r].course
             u == req[r].who
  <1>1. /\ interest \in [Courses -> [People -> Promised!Statuses]]
        /\ contact \in [Courses -> [People -> Promised!Disclosures]]
    BY DEF IInv, TypeOK
  <1>2. c \in Courses /\ u \in People
    <2>1. Active(r) /\ req[r].stage = "writing" /\ Shaped(r) /\ req[r] \in Requests
      BY Shape DEF CommitWithdraw, IInv, Claims, Active
    <2> QED BY <2>1 DEF Shaped, Requests, Ops, LearnerOps, ReviewOps
  <1>3. UNCHANGED <<mail, told, paused>>
    BY DEF CommitWithdraw
  <1>4. \/ interest[c][u] = "none" /\ UNCHANGED <<interest, contact>>
        \/ /\ interest[c][u] # "none"
           /\ interest' = [interest EXCEPT ![c][u] = "withdrawn"]
           /\ contact' = [contact EXCEPT ![c][u] = "revoked"]
    BY DEF CommitWithdraw
  <1>5. interest[c][u] = "withdrawn" => contact[c][u] = "revoked"
    BY <1>2 DEF IInv, Disclosed
  <1> HIDE DEF c, u
  <1>6. CASE interest[c][u] = "none"
    BY <1>3, <1>4, <1>6 DEF Promised!vars
  <1>7. CASE interest[c][u] = "withdrawn"
    <2>1. interest' = [interest EXCEPT ![c][u] = "withdrawn"]
      BY <1>4, <1>7
    <2>2. contact' = [contact EXCEPT ![c][u] = "revoked"]
      BY <1>4, <1>7
    <2>3. interest' = interest
      BY <1>1, <1>2, <1>7, <2>1
    <2>4. contact' = contact
      BY <1>1, <1>2, <1>5, <1>7, <2>2
    <2> QED BY <1>3, <2>3, <2>4 DEF Promised!vars
  <1>8. CASE interest[c][u] \in Promised!LiveStatuses
    <2>1. Promised!Withdraw(c, u)
      BY <1>3, <1>4, <1>8 DEF Promised!Withdraw, Promised!LiveStatuses, Promised!ProviderStatuses
    <2> QED BY <1>2, <2>1 DEF Promised!Next
  <1> QED BY <1>1, <1>2, <1>6, <1>7, <1>8 DEF Promised!Statuses

LEMMA StepKeepsPromise ==
    ASSUME IInv, [Next]_vars
    PROVE  [Promised!Next]_(Promised!vars)
  <1> USE DEF rows, consent
  <1>1. ASSUME NEW r \in Reqs, InterestStep(r)
        PROVE  [Promised!Next]_(Promised!vars)
    <2>1. CASE RegisterAsks(r) \/ MoveAsks(r) \/ WithdrawAsks(r)
      BY <2>1 DEF RegisterAsks, MoveAsks, WithdrawAsks, interestVars, Promised!vars
    <2>2. CASE Lock(r) \/ Decline(r) \/ List(r)
      BY <2>2 DEF Lock, Decline, List, interestVars, Promised!vars
    <2>3. CASE SweepNext(r) \/ SweepEnds(r) \/ Abort(r)
      BY <2>3 DEF SweepNext, SweepEnds, Abort, Promised!vars
    <2>4. CASE Stamp(r)
      <3>1. PICK u \in Learners : Promised!Consent(u, TRUE)
        BY <2>4 DEF Stamp, Promised!Consent
      <3>2. u \in People
        BY LearnersArePeople
      <3> QED BY <3>1, <3>2 DEF Promised!Next
    <2> QED BY <1>1, <2>1, <2>2, <2>3, <2>4, CommitsKeepPromise, WithdrawalKeepsPromise DEF InterestStep
  <1>2. ASSUME NEW u \in People, Resume(u)
        PROVE  Promised!Next
    <2>1. Promised!Consent(u, FALSE)
      BY <1>2 DEF Resume, Promised!Consent
    <2> QED BY <2>1 DEF Promised!Next
  <1>3. ASSUME UNCHANGED interestVars
        PROVE  UNCHANGED Promised!vars
    BY <1>3 DEF interestVars, Promised!vars
  <1>4. ASSUME NEW c \in Listed, Delete(c)
        PROVE  Promised!Next
    <2>1. Promised!Cascade({c} \X People) /\ c \in Courses
      BY <1>4, ListedAreCourses DEF Delete, Cascade, Promised!Cascade
    <2> QED BY <2>1 DEF Promised!Next
  <1>5. ASSUME NEW u \in People, Erase(u)
        PROVE  Promised!Next
    <2>1. Promised!Cascade(Courses \X {u})
      BY <1>5 DEF Erase, Cascade, Promised!Cascade
    <2> QED BY <2>1 DEF Promised!Next
  <1>6. CASE UNCHANGED vars
    BY <1>3, <1>6 DEF vars
  <1> QED BY <1>1, <1>2, <1>3, <1>4, <1>5, <1>6 DEF Next

\* The handlers, with their unlocked reads, row locks and sweeps, implement what
\* Enquiry promises of an interest: registering shares the contact and tells the
\* provider, both once; a withdrawal is the last word until the learner asks
\* again; and nothing is begun for somebody whose consent is withdrawn.
THEOREM KeepsItsPromise == Spec => Promise
  <1>1. Init => Promised!Init
    BY DEF Init, InterestInit
  <1>2. IInv /\ [Next]_vars => [Promised!Next]_(Promised!vars)
    BY StepKeepsPromise
  <1> QED BY <1>1, <1>2, Invariance, PTL DEF Spec, Promise, Promised!Spec
=============================================================================

--------------------------- MODULE VacancyProofs ---------------------------
(***************************************************************************)
(* What TLAPS proves of Vacancy, for any number of vacancies, candidates    *)
(* and requests in flight; in particular that it implements Hiring.         *)
(***************************************************************************)
EXTENDS Vacancy, TLAPS

Asks(r) == ApplyAsks(r) \/ WithdrawAsks(r) \/ MoveAsks(r) \/ Stamp(r) \/ ListingAsks(r)

\* The steps that leave every request and every application alone.
ListingOnly ==
    \/ \E j \in Jobs : TakeDown(j) \/ Restore(j) \/ DuePasses(j)
    \/ ExpireRead \/ ExpireWrite \/ ExpireCrash

\* The steps that write an application and end, or move on, the request.
Writes(r) == CommitApply(r) \/ CommitWithdraw(r) \/ CommitMove(r)

\* The steps of a sweep between two of its applications.
Walks(r) == List(r) \/ SweepNext(r)
----------------------------------------------------------------------------
(* Requests.                                                                *)

\* An active request is a record with every field in its range.
LEMMA ActiveIsRequest ==
    ASSUME TypeOK, NEW r \in Reqs, Active(r)
    PROVE  /\ req[r] \in Requests
           /\ req[r].op \in RowOps \cup ListingOps /\ req[r].left \in SUBSET Jobs
           /\ req[r].op \in RowOps => req[r].cand \in Cands
           /\ req[r].stage \in {"stamped", "sweeping"} => req[r].op = "sweep" /\ req[r].job = None
           /\ req[r].stage \notin {"stamped", "sweeping"} => req[r].job \in Jobs
           /\ req[r].seen \in JobRows
           /\ req[r].was \in Promised!Statuses
           /\ req[r].stage = "locked" => req[r].op \in RowOps
           /\ req[r].stage = "counted" =>
                req[r].op = "move" /\ req[r].to \in Promised!EmployerMoves(req[r].job, req[r].was)
           /\ req[r].op = "close" => req[r].to \in CloseReasons
  <1>1. req[r] \in Requests
    BY DEF TypeOK, Active, Idle
  <1> QED BY <1>1 DEF Requests

\* What an employer may move an application to is a status, and nothing is
\* moved that is not there.
LEMMA MovesAreStatuses ==
    ASSUME NEW j, NEW from \in Promised!Statuses, NEW to \in Promised!EmployerMoves(j, from)
    PROVE  to \in Promised!Statuses /\ to # "none" /\ from \notin {"none", "withdrawn"}
  BY DEF Promised!Statuses, Promised!EmployerMoves, Promised!Withdrawable, Promised!Outcomes

\* Somebody who arrives puts a well-formed request in an idle slot.
Arrived(r, q) ==
    /\ req[r] = Idle
    /\ req' = [req EXCEPT ![r] = q]
    /\ UNCHANGED <<job, applications, row, expiring, swept, revived>>
    /\ \/ /\ q.op = "apply" /\ q.stage = "asked" /\ ~paused[q.cand]
          /\ share' = [share EXCEPT ![q.cand] = @ \cup {r}]
          /\ UNCHANGED <<paused, pausing>>
       \/ /\ q.op = "sweep" /\ q.stage = "stamped"
          /\ paused[q.cand] \/ share[q.cand] = {}
          /\ paused' = [paused EXCEPT ![q.cand] = TRUE]
          /\ pausing' = [pausing EXCEPT ![q.cand] = @ \cup {r}]
          /\ UNCHANGED share
       \/ /\ q.op \notin {"apply", "sweep"} /\ q.stage = "asked"
          /\ UNCHANGED <<paused, share, pausing>>

\* Every way of arriving fills an idle slot so, and writes no application.
LEMMA ArrivalShape ==
    ASSUME TypeOK, NEW r \in Reqs, Asks(r)
    PROVE  \E q \in Requests : Arrived(r, q)
  <1> DEFINE W(what, u, j, to, seen) == Asked(what, u, j, to, seen)
  <1>0. Deleted \in JobRows /\ "none" \in Promised!Statuses
    BY DEF Deleted, JobRows, Promised!Statuses
  <1>1. CASE ApplyAsks(r)
    <2>1. PICK u \in Cands, j \in Jobs :
            /\ ~paused[u]
            /\ Arrive(r, "apply", W("apply", u, j, "none", Deleted))
            /\ share' = [share EXCEPT ![u] = @ \cup {r}]
            /\ UNCHANGED <<paused, pausing>>
      BY <1>1 DEF ApplyAsks
    <2>2. W("apply", u, j, "none", Deleted) \in Requests
      BY <1>0 DEF Asked, Requests, RowOps, ListingOps
    <2> QED BY <2>1, <2>2 DEF Arrived, Arrive, Asked
  <1>2. CASE WithdrawAsks(r)
    <2>1. PICK u \in Cands, j \in Jobs :
            /\ Arrive(r, "withdraw", W("withdraw", u, j, "none", Deleted))
            /\ UNCHANGED <<paused, share, pausing>>
      BY <1>2 DEF WithdrawAsks
    <2>2. W("withdraw", u, j, "none", Deleted) \in Requests
      BY <1>0 DEF Asked, Requests, RowOps, ListingOps
    <2> QED BY <2>1, <2>2 DEF Arrived, Arrive, Asked
  <1>3. CASE MoveAsks(r)
    <2>1. PICK u \in Cands, j \in Jobs, to \in EmployerStatuses :
            /\ Arrive(r, "move", W("move", u, j, to, job[j]))
            /\ UNCHANGED <<paused, share, pausing>>
      BY <1>3 DEF MoveAsks
    <2>2. job[j] \in JobRows
      BY DEF TypeOK
    <2>3. W("move", u, j, to, job[j]) \in Requests
      BY <1>0, <2>2 DEF Asked, Requests, RowOps, ListingOps
    <2> QED BY <2>1, <2>3 DEF Arrived, Arrive, Asked
  <1>4. CASE Stamp(r)
    <2>1. PICK u \in Cands :
            /\ paused[u] \/ share[u] = {}
            /\ Arrive(r, "sweep", [W("sweep", u, None, "none", Deleted) EXCEPT !.stage = "stamped"])
            /\ paused' = [paused EXCEPT ![u] = TRUE]
            /\ pausing' = [pausing EXCEPT ![u] = @ \cup {r}]
            /\ UNCHANGED share
      BY <1>4 DEF Stamp
    <2>2. [W("sweep", u, None, "none", Deleted) EXCEPT !.stage = "stamped"] \in Requests
      BY <1>0 DEF Asked, Requests, RowOps, ListingOps
    <2> QED BY <2>1, <2>2 DEF Arrived, Arrive, Asked
  <1>5. CASE ListingAsks(r)
    <2>1. PICK j \in Jobs, what \in ListingOps, to \in {"none", "filled", "withdrawn"} :
            /\ what = "close" => to # "none"
            /\ Arrive(r, what, W(what, None, j, to, job[j]))
            /\ UNCHANGED <<paused, share, pausing>>
      BY <1>5 DEF ListingAsks
    <2>2. job[j] \in JobRows
      BY DEF TypeOK
    <2>3. W(what, None, j, to, job[j]) \in Requests
      BY <1>0, <2>1, <2>2 DEF Asked, Requests, RowOps, ListingOps, CloseReasons
    <2> QED BY <2>1, <2>3 DEF Arrived, Arrive, Asked, ListingOps
  <1> QED BY <1>1, <1>2, <1>3, <1>4, <1>5 DEF Asks

\* A request that is over, or a sweep that goes on, gives up what is its own
\* and nobody else's.
Over(r) ==
    \/ Finish(r)
    \/ /\ req[r].op = "sweep" /\ req[r].stage = "locked"
       /\ req' = [req EXCEPT ![r].stage = "sweeping", ![r].job = None, ![r].was = "none"]
       /\ row' = row \/ row' = Unlocked(r)
       /\ UNCHANGED <<share, pausing>>

\* What is left of the requests and the locks after such a step.
LEMMA OverShape ==
    ASSUME TypeOK, NEW r \in Reqs, Active(r), Over(r)
    PROVE  /\ req' \in [Reqs -> Requests \cup {Idle}]
           /\ row' \in [Jobs -> [Cands -> Reqs \cup {None}]]
           /\ share' \in [Cands -> SUBSET Reqs]
           /\ pausing' \in [Cands -> SUBSET Reqs]
           /\ \A q \in Reqs \ {r} : req'[q] = req[q]
           /\ \/ ~Active(r)' /\ \A u \in Cands : r \notin pausing'[u]
              \/ /\ req[r].stage = "locked" /\ req[r].op = "sweep" /\ req'[r].stage = "sweeping"
                 /\ req'[r].op = "sweep" /\ req'[r].cand = req[r].cand
                 /\ req'[r].left = req[r].left
           /\ \A j \in Jobs, u \in Cands : row[j][u] # r => row'[j][u] = row[j][u]
           /\ \A u \in Cands, q \in Reqs \ {r} : q \in share[u] => q \in share'[u]
           /\ \A u \in Cands : pausing'[u] \subseteq pausing[u]
  <1>0. Unlocked(r) \in [Jobs -> [Cands -> Reqs \cup {None}]]
    BY DEF Unlocked, TypeOK
  <1>1. CASE Finish(r)
    BY <1>0, <1>1 DEF Finish, Unlocked, TypeOK, Active, Idle
  <1>2. CASE ~Finish(r)
    <2>1. req[r] \in Requests
      BY ActiveIsRequest
    <2> DEFINE q == [req[r] EXCEPT !.stage = "sweeping", !.job = None, !.was = "none"]
    <2>2. q \in Requests
      BY <1>2, <2>1 DEF Over, Requests, Promised!Statuses
    <2>3. req' = [req EXCEPT ![r] = q]
      BY <1>2 DEF Over
    <2> QED BY <1>0, <1>2, <2>1, <2>2, <2>3 DEF Over, Unlocked, TypeOK, Requests
  <1> QED BY <1>1, <1>2

\* A sweep between two applications holds what it held, and of what is left to
\* do only takes out the application it turns to.
LEMMA WalkShape ==
    ASSUME TypeOK, NEW r \in Reqs, Walks(r)
    PROVE  /\ Active(r) /\ Active(r)' /\ req[r].op = "sweep" /\ req'[r].op = "sweep"
           /\ req'[r].cand = req[r].cand /\ req'[r].stage \in {"sweeping", "asked"}
           /\ req' \in [Reqs -> Requests \cup {Idle}]
           /\ \A q \in Reqs \ {r} : req'[q] = req[q]
           /\ \/ /\ req[r].stage = "stamped"
                 /\ req'[r].left = {j \in Jobs : status[j][req[r].cand] \in Withdrawable}
              \/ /\ req[r].stage = "sweeping"
                 /\ \A j \in req[r].left : j \in req'[r].left \/ j = req'[r].job
           /\ UNCHANGED <<job, applications, paused, row, share, expiring, pausing, swept, revived>>
  <1>1. Active(r) /\ r \in DOMAIN req
    BY DEF Walks, List, SweepNext, Active, Idle, TypeOK
  <1>2. req[r] \in Requests /\ req[r].op = "sweep" /\ req[r].job = None /\ req[r].left \in SUBSET Jobs
    BY <1>1, ActiveIsRequest DEF Walks, List, SweepNext
  <1>3. CASE List(r)
    <2> DEFINE q == [req[r] EXCEPT !.stage = "sweeping",
                       !.left = {j \in Jobs : status[j][req[r].cand] \in Withdrawable}]
    <2>1. q \in Requests
      BY <1>2, <1>3 DEF Requests, List
    <2>2. req' = [req EXCEPT ![r] = q]
      BY <1>3 DEF List
    <2>3. /\ q.stage = "sweeping" /\ q.op = "sweep" /\ q.cand = req[r].cand
          /\ q.left = {j \in Jobs : status[j][req[r].cand] \in Withdrawable}
      BY <1>2 DEF Requests
    <2>4. req'[r] = q /\ req' \in [Reqs -> Requests \cup {Idle}] /\ \A p \in Reqs \ {r} : req'[p] = req[p]
      BY <2>1, <2>2 DEF TypeOK
    <2> HIDE DEF q
    <2> QED BY <1>1, <1>2, <1>3, <2>3, <2>4 DEF List, Active
  <1>4. CASE SweepNext(r)
    <2>1. PICK j \in req[r].left :
            req' = [req EXCEPT ![r].stage = "asked", ![r].job = j, ![r].left = @ \ {j}]
      BY <1>4 DEF SweepNext
    <2> DEFINE q == [req[r] EXCEPT !.stage = "asked", !.job = j, !.left = @ \ {j}]
    <2>2. q \in Requests
      BY <1>2, <2>1 DEF Requests, RowOps
    <2>3. req' = [req EXCEPT ![r] = q]
      BY <2>1
    <2>4. /\ q.stage = "asked" /\ q.op = "sweep" /\ q.cand = req[r].cand
          /\ q.left = req[r].left \ {j} /\ q.job = j
      BY <1>2 DEF Requests
    <2>5. req'[r] = q /\ req' \in [Reqs -> Requests \cup {Idle}] /\ \A p \in Reqs \ {r} : req'[p] = req[p]
      BY <2>2, <2>3 DEF TypeOK
    <2> HIDE DEF q
    <2> QED BY <1>1, <1>2, <1>4, <2>4, <2>5 DEF SweepNext, Active
  <1> QED BY <1>3, <1>4 DEF Walks

\* Under the row lock, or about to take it: the row it is for.
LEMMA RowOfRequest ==
    ASSUME TypeOK, NEW r \in Reqs, Active(r), req[r].op \in RowOps,
           req[r].stage \in {"asked", "locked", "counted"}
    PROVE  req[r].job \in Jobs /\ req[r].cand \in Cands
  BY ActiveIsRequest

\* Taking the row lock.
LEMMA LockShape ==
    ASSUME TypeOK, NEW r \in Reqs, Lock(r)
    PROVE  /\ Active(r) /\ Active(r)' /\ req'[r].stage = "locked" /\ req[r].stage = "asked"
           /\ req'[r].op = req[r].op /\ req'[r].cand = req[r].cand
           /\ req'[r].job = req[r].job /\ req'[r].left = req[r].left
           /\ req[r].job \in Jobs /\ req[r].cand \in Cands
           /\ req'[r].was = status[req[r].job][req[r].cand]
           /\ req' \in [Reqs -> Requests \cup {Idle}]
           /\ row' \in [Jobs -> [Cands -> Reqs \cup {None}]]
           /\ \A q \in Reqs \ {r} : req'[q] = req[q]
           /\ \A j \in Jobs, u \in Cands : row[j][u] # None => row'[j][u] = row[j][u]
           /\ req'[r].was # "none" => row'[req[r].job][req[r].cand] = r
           /\ UNCHANGED <<job, applications, paused, share, expiring, pausing, swept, revived>>
  <1>1. Active(r) /\ req[r].op \in RowOps
    BY DEF Lock, Active
  <1>2. req[r] \in Requests /\ req[r].job \in Jobs /\ req[r].cand \in Cands
    BY <1>1, ActiveIsRequest DEF Lock
  <1>3. status[req[r].job][req[r].cand] \in Promised!Statuses
    BY <1>2 DEF TypeOK
  <1> DEFINE q == [req[r] EXCEPT !.stage = "locked", !.was = status[req[r].job][req[r].cand]]
  <1>4. q \in Requests
    BY <1>2, <1>3 DEF Lock, Requests
  <1>5. req' = [req EXCEPT ![r] = q]
    BY DEF Lock
  <1>6. /\ q.stage = "locked" /\ q.op = req[r].op /\ q.cand = req[r].cand /\ q.job = req[r].job
        /\ q.left = req[r].left /\ q.was = status[req[r].job][req[r].cand]
    BY <1>2 DEF Requests
  <1>7. req'[r] = q /\ req' \in [Reqs -> Requests \cup {Idle}] /\ \A p \in Reqs \ {r} : req'[p] = req[p]
    BY <1>4, <1>5 DEF TypeOK
  <1>8. /\ row' \in [Jobs -> [Cands -> Reqs \cup {None}]]
        /\ \A j \in Jobs, u \in Cands : row[j][u] # None => row'[j][u] = row[j][u]
        /\ status[req[r].job][req[r].cand] # "none" => row'[req[r].job][req[r].cand] = r
    BY <1>2 DEF Lock, TypeOK
  <1> HIDE DEF q
  <1> QED BY <1>1, <1>2, <1>6, <1>7, <1>8 DEF Lock, Active

\* Counting the filled positions keeps the decision and the lock.
LEMMA CountShape ==
    ASSUME TypeOK, NEW r \in Reqs, Count(r)
    PROVE  /\ Active(r) /\ Active(r)' /\ req'[r].stage = "counted" /\ req[r].stage = "locked"
           /\ req[r].op = "move" /\ req'[r].op = "move" /\ req'[r].cand = req[r].cand
           /\ req'[r].job = req[r].job /\ req'[r].was = req[r].was
           /\ req' \in [Reqs -> Requests \cup {Idle}]
           /\ \A q \in Reqs \ {r} : req'[q] = req[q]
           /\ UNCHANGED <<job, applications, paused, row, share, expiring, pausing, swept, revived>>
  <1>1. Active(r)
    BY DEF Count, Active
  <1>2. req[r] \in Requests /\ req[r].to \in Promised!EmployerMoves(req[r].job, req[r].was)
    BY <1>1, ActiveIsRequest DEF Count, Accepts
  <1> DEFINE fills == /\ req[r].seen.closed = "no"
                      /\ Filled(req[r].job, req[r].cand, req[r].to) >= Positions[req[r].job]
             q == [req[r] EXCEPT !.stage = "counted", !.fills = fills]
  <1>3. fills \in BOOLEAN
    OBVIOUS
  <1>4. q \in Requests
    <2> HIDE DEF fills
    <2> QED BY <1>2, <1>3 DEF Count, Requests
  <1>5. req' = [req EXCEPT ![r] = q]
    BY DEF Count
  <1> HIDE DEF fills
  <1>6. /\ q.stage = "counted" /\ q.op = req[r].op /\ q.cand = req[r].cand
        /\ q.job = req[r].job /\ q.was = req[r].was
    BY <1>2 DEF Requests
  <1>7. req'[r] = q /\ req' \in [Reqs -> Requests \cup {Idle}] /\ \A p \in Reqs \ {r} : req'[p] = req[p]
    BY <1>4, <1>5 DEF TypeOK
  <1> HIDE DEF q
  <1> QED BY <1>1, <1>2, <1>6, <1>7 DEF Count, Active

\* The listing, the clock and the worker leave the applications and the
\* requests alone.
LEMMA ListingShape ==
    ASSUME ListingOnly
    PROVE  /\ UNCHANGED <<paused, row, share, req, pausing, swept, revived>>
           /\ status' = status /\ contact' = contact /\ mail' = mail
  BY DEF ListingOnly, TakeDown, Restore, DuePasses, ExpireRead, ExpireWrite, ExpireCrash, applications

----------------------------------------------------------------------------
(* What a commit writes.                                                    *)

\* A commit writes the one application its request is about, which it holds:
\* nobody else's decision on that application is pending.
LEMMA WriteEffect ==
    ASSUME TypeOK, ReadStands, NEW r \in Reqs, Writes(r)
    PROVE  /\ Active(r) /\ Over(r) /\ req[r].op \in RowOps
           /\ req[r].stage \in {"locked", "counted"}
           /\ req[r].job \in Jobs /\ req[r].cand \in Cands
           /\ \A j \in Jobs, u \in Cands :
                status'[j][u] # status[j][u] => j = req[r].job /\ u = req[r].cand
           /\ status[req[r].job][req[r].cand] = req[r].was
           /\ req[r].was # "none" \/ (req[r].op = "apply")
           /\ req[r].was # "none" => row[req[r].job][req[r].cand] = r
           /\ UNCHANGED <<paused, expiring, swept>>
  <1>1. Active(r)
    BY DEF Writes, CommitApply, CommitWithdraw, CommitMove, Active
  <1>2. req[r].op \in RowOps /\ req[r].stage \in {"locked", "counted"}
    BY <1>1, ActiveIsRequest DEF Writes, CommitApply, CommitWithdraw, CommitMove, RowOps
  <1>3. req[r].job \in Jobs /\ req[r].cand \in Cands
    BY <1>1, <1>2, RowOfRequest
  <1>4. Over(r) /\ UNCHANGED <<paused, expiring, swept>>
    BY DEF Writes, CommitApply, CommitWithdraw, CommitMove, Over
  <1>5. req[r].was # "none" => /\ status[req[r].job][req[r].cand] = req[r].was
                               /\ row[req[r].job][req[r].cand] = r
    BY <1>1, <1>2 DEF ReadStands
  <1>6. status' \in {[status EXCEPT ![req[r].job][req[r].cand] = x] :
                        x \in {"applied", "withdrawn", req[r].to}}
    BY DEF Writes, CommitApply, CommitWithdraw, CommitMove
  <1>7. req[r].was = "none" => req[r].op = "apply" /\ status[req[r].job][req[r].cand] = "none"
    <2>1. CASE CommitApply(r)
      BY <2>1 DEF CommitApply, Accepts
    <2>2. CASE CommitWithdraw(r)
      BY <2>2 DEF CommitWithdraw, Accepts, Withdrawable, Promised!Withdrawable
    <2>3. CASE CommitMove(r)
      <3>1. /\ req[r].was \in Promised!Statuses
            /\ req[r].to \in Promised!EmployerMoves(req[r].job, req[r].was)
        BY <1>1, <2>3, ActiveIsRequest DEF CommitMove
      <3> QED BY <3>1, MovesAreStatuses
    <2> QED BY <2>1, <2>2, <2>3 DEF Writes
  <1> QED BY <1>1, <1>2, <1>3, <1>4, <1>5, <1>6, <1>7 DEF TypeOK

----------------------------------------------------------------------------
(* Type correctness.                                                        *)

\* The columns an UPDATE leaves alone and those it names make a row.
LEMMA WrittenIsRow ==
    ASSUME NEW now \in JobRows, NEW seen \in JobRows, NEW want \in JobRows
    PROVE  Written(now, seen, want) \in JobRows
  <1> DEFINE C == {"exists", "live", "closed", "taken", "due"}
             w == Written(now, seen, want)
  <1>1. DOMAIN now = C
    BY DEF JobRows
  <1>2. w = [c \in C |-> IF want[c] = seen[c] THEN now[c] ELSE want[c]]
    BY <1>1 DEF Written
  <1>3. w = [exists |-> w["exists"], live |-> w["live"], closed |-> w["closed"],
             taken |-> w["taken"], due |-> w["due"]]
    BY <1>2
  <1>4. /\ w["exists"] \in BOOLEAN /\ w["live"] \in BOOLEAN /\ w["taken"] \in BOOLEAN
        /\ w["closed"] \in CloseReasons \cup {"no"} /\ w["due"] \in {"none", "ahead", "past"}
    BY <1>2 DEF JobRows
  <1> HIDE DEF w
  <1>5. w \in JobRows
    BY <1>3, <1>4 DEF JobRows
  <1> QED BY <1>5 DEF w

\* What a listing's operation leaves of the row it read is a row.
LEMMA AfterIsRow ==
    ASSUME NEW what \in ListingOps, NEW seen \in JobRows, NEW to,
           what = "close" => to \in CloseReasons
    PROVE  After(what, to, seen) \in JobRows
  <1>1. CASE what = "publish"
    BY <1>1 DEF After, JobRows
  <1>2. CASE what = "unpublish"
    BY <1>2 DEF After, JobRows
  <1>3. CASE what = "close"
    BY <1>3 DEF After, JobRows
  <1>4. CASE what = "reopen"
    BY <1>4 DEF After, JobRows
  <1> QED BY <1>1, <1>2, <1>3, <1>4 DEF ListingOps

\* Every step leaves the rows, the locks and the requests well formed.
LEMMA TypeStep ==
    ASSUME TypeOK, ReadStands, [Next]_vars
    PROVE  TypeOK'
  <1>1. ASSUME NEW r \in Reqs, Asks(r) PROVE TypeOK'
    <2>1. PICK q \in Requests : Arrived(r, q)
      BY <1>1, ArrivalShape
    <2>2. req' \in [Reqs -> Requests \cup {Idle}]
      BY <2>1 DEF Arrived, TypeOK
    <2>3. q.op \in {"apply", "sweep"} => q.cand \in Cands
      BY DEF Requests, RowOps
    <2>4. share' \in [Cands -> SUBSET Reqs] /\ pausing' \in [Cands -> SUBSET Reqs]
      <3>1. q.op \in {"apply", "sweep"} =>
              /\ share[q.cand] \cup {r} \in SUBSET Reqs
              /\ pausing[q.cand] \cup {r} \in SUBSET Reqs
        BY <2>3 DEF TypeOK
      <3>2. \/ share' = share
            \/ q.op = "apply" /\ share' = [share EXCEPT ![q.cand] = share[q.cand] \cup {r}]
        BY <2>1 DEF Arrived
      <3>3. \/ pausing' = pausing
            \/ q.op = "sweep" /\ pausing' = [pausing EXCEPT ![q.cand] = pausing[q.cand] \cup {r}]
        BY <2>1 DEF Arrived
      <3>4. share' \in [Cands -> SUBSET Reqs]
        BY <3>1, <3>2 DEF TypeOK
      <3>5. pausing' \in [Cands -> SUBSET Reqs]
        BY <3>1, <3>3 DEF TypeOK
      <3> QED BY <3>4, <3>5
    <2>5. paused' \in [Cands -> BOOLEAN]
      BY <2>1, <2>3 DEF Arrived, TypeOK
    <2> QED BY <2>1, <2>2, <2>4, <2>5 DEF Arrived, TypeOK, applications
  <1>2. ASSUME NEW r \in Reqs, Lock(r) PROVE TypeOK'
    BY <1>2, LockShape DEF TypeOK, applications
  <1>3. ASSUME NEW r \in Reqs, Walks(r) PROVE TypeOK'
    BY <1>3, WalkShape DEF TypeOK, applications
  <1>4. ASSUME NEW r \in Reqs, Count(r) PROVE TypeOK'
    BY <1>4, CountShape DEF TypeOK, applications
  <1>5. ASSUME NEW r \in Reqs, Decline(r) \/ Abort(r) PROVE TypeOK'
    <2>1. Active(r) /\ Over(r)
      BY <1>5 DEF Decline, Abort, Over, Active
    <2> QED BY <1>5, <2>1, OverShape DEF Decline, Abort, TypeOK, applications
  <1>6. ASSUME NEW r \in Reqs, SweepEnds(r) PROVE TypeOK'
    <2>1. Active(r) /\ Over(r)
      BY <1>6 DEF SweepEnds, Over, Active
    <2>2. swept' \in [Cands -> BOOLEAN]
      BY <1>6 DEF SweepEnds, TypeOK
    <2> QED BY <1>6, <2>1, <2>2, OverShape DEF SweepEnds, TypeOK, applications
  <1>7. ASSUME NEW r \in Reqs, Writes(r) PROVE TypeOK'
    <2>1. Active(r) /\ Over(r) /\ req[r].job \in Jobs /\ req[r].cand \in Cands
      BY <1>7, WriteEffect
    <2>2. /\ req[r].was \in Promised!Statuses /\ req[r].seen \in JobRows
          /\ req[r].stage = "counted" =>
               req[r].to \in Promised!EmployerMoves(req[r].job, req[r].was)
      BY <2>1, ActiveIsRequest
    <2>3. status' \in [Jobs -> [Cands -> Promised!Statuses]]
      <3>1. CASE CommitMove(r)
        <4>1. req[r].to \in Promised!Statuses
          BY <2>2, <3>1, MovesAreStatuses DEF CommitMove
        <4> QED BY <2>1, <3>1, <4>1 DEF CommitMove, TypeOK
      <3>2. CASE ~CommitMove(r)
        <4>1. "applied" \in Promised!Statuses /\ "withdrawn" \in Promised!Statuses
          BY DEF Promised!Statuses, Promised!Withdrawable
        <4>2. PICK x \in Promised!Statuses : status' = [status EXCEPT ![req[r].job][req[r].cand] = x]
          BY <1>7, <3>2, <4>1 DEF Writes, CommitApply, CommitWithdraw
        <4> QED BY <2>1, <4>2 DEF TypeOK
      <3> QED BY <3>1, <3>2
    <2>4. /\ contact' \in [Jobs -> [Cands -> Promised!Disclosures]]
          /\ mail' \in [Jobs -> [Cands -> Nat]]
      <3>1. "shared" \in Promised!Disclosures /\ "revoked" \in Promised!Disclosures
        BY DEF Promised!Disclosures
      <3>2. \/ contact' = contact
            \/ \E x \in Promised!Disclosures :
                 contact' = [contact EXCEPT ![req[r].job][req[r].cand] = x]
        BY <1>7, <3>1 DEF Writes, CommitApply, CommitWithdraw, CommitMove
      <3>3. \/ mail' = mail
            \/ mail' = [mail EXCEPT ![req[r].job][req[r].cand] = @ + 1]
        BY <1>7 DEF Writes, CommitApply, CommitWithdraw, CommitMove
      <3>4. contact' \in [Jobs -> [Cands -> Promised!Disclosures]]
        <4>1. CASE contact' = contact
          BY <4>1 DEF TypeOK
        <4>2. CASE contact' # contact
          <5>1. PICK x \in Promised!Disclosures :
                  contact' = [contact EXCEPT ![req[r].job][req[r].cand] = x]
            BY <3>2, <4>2
          <5> QED BY <2>1, <5>1 DEF TypeOK
        <4> QED BY <4>1, <4>2
      <3>5. mail' \in [Jobs -> [Cands -> Nat]]
        <4>1. mail \in [Jobs -> [Cands -> Nat]]
          BY DEF TypeOK
        <4> DEFINE n == mail[req[r].job][req[r].cand] + 1
        <4>2. n \in Nat
          BY <2>1, <4>1
        <4>3. mail' = mail \/ mail' = [mail EXCEPT ![req[r].job][req[r].cand] = n]
          BY <3>3
        <4> HIDE DEF n
        <4>4. CASE mail' = mail
          BY <4>1, <4>4
        <4>5. CASE mail' = [mail EXCEPT ![req[r].job][req[r].cand] = n]
          BY <2>1, <4>1, <4>2, <4>5
        <4> QED BY <4>3, <4>4, <4>5
      <3> QED BY <3>4, <3>5
    <2>5. job' \in [Jobs -> JobRows]
      <3>1. [req[r].seen EXCEPT !.closed = "filled"] \in JobRows
        BY <2>2 DEF JobRows, CloseReasons
      <3>2. Written(job[req[r].job], req[r].seen, [req[r].seen EXCEPT !.closed = "filled"]) \in JobRows
        BY <2>1, <2>2, <3>1, WrittenIsRow DEF TypeOK
      <3> QED BY <1>7, <3>2 DEF Writes, CommitApply, CommitWithdraw, CommitMove, TypeOK
    <2>6. revived' \subseteq Jobs \X Cands
      BY <1>7, <2>1 DEF Writes, CommitApply, CommitWithdraw, CommitMove, TypeOK
    <2>7. UNCHANGED <<paused, expiring, swept>>
      BY <1>7, WriteEffect
    <2> QED BY <2>1, <2>3, <2>4, <2>5, <2>6, <2>7, OverShape DEF TypeOK
  <1>8. ASSUME NEW r \in Reqs, CommitListing(r) PROVE TypeOK'
    <2>1. Active(r) /\ Over(r)
      BY <1>8 DEF CommitListing, Over, Active
    <2>2. /\ req[r].op \in ListingOps /\ req[r].seen \in JobRows /\ req[r].job \in Jobs
          /\ req[r].op = "close" => req[r].to \in CloseReasons
      BY <1>8, <2>1, ActiveIsRequest DEF CommitListing
    <2>3. Written(job[req[r].job], req[r].seen, After(req[r].op, req[r].to, req[r].seen)) \in JobRows
      BY <2>2, AfterIsRow, WrittenIsRow DEF TypeOK
    <2>4. job' \in [Jobs -> JobRows]
      BY <1>8, <2>3 DEF CommitListing, TypeOK
    <2> QED BY <1>8, <2>1, <2>4, OverShape DEF CommitListing, TypeOK, applications
  <1>9. ASSUME NEW j \in Jobs, Delete(j) PROVE TypeOK'
    <2>1. Deleted \in JobRows /\ "none" \in Promised!Statuses /\ "never" \in Promised!Disclosures
      BY DEF Deleted, JobRows, Promised!Statuses, Promised!Disclosures
    <2> QED BY <1>9, <2>1 DEF Delete, TypeOK
  <1>10. ASSUME NEW u \in Cands, Resume(u) PROVE TypeOK'
    BY <1>10 DEF Resume, TypeOK, applications
  <1>11. CASE ListingOnly
    <2>1. job' \in [Jobs -> JobRows]
      <3>1. ASSUME NEW j \in Jobs
            PROVE  /\ [job[j] EXCEPT !.live = FALSE, !.taken = TRUE,
                         !.closed = IF @ = "no" THEN "taken_down" ELSE @] \in JobRows
                   /\ [job[j] EXCEPT !.taken = FALSE,
                         !.closed = IF @ = "taken_down" THEN "no" ELSE @] \in JobRows
                   /\ [job[j] EXCEPT !.due = "past"] \in JobRows
                   /\ [job[j] EXCEPT !.closed = "expired"] \in JobRows
        <4>1. job[j] \in JobRows
          BY DEF TypeOK
        <4>2. /\ (IF job[j].closed = "no" THEN "taken_down" ELSE job[j].closed) \in CloseReasons \cup {"no"}
              /\ (IF job[j].closed = "taken_down" THEN "no" ELSE job[j].closed) \in CloseReasons \cup {"no"}
              /\ "expired" \in CloseReasons
          BY <4>1 DEF JobRows, CloseReasons
        <4> QED BY <4>1, <4>2 DEF JobRows
      <3>2. ASSUME NEW j \in Jobs, TakeDown(j) \/ Restore(j) \/ DuePasses(j)
            PROVE  job' \in [Jobs -> JobRows]
        BY <3>1, <3>2 DEF TakeDown, Restore, DuePasses, TypeOK
      <3>3. CASE ExpireWrite
        BY <3>1, <3>3 DEF ExpireWrite, TypeOK
      <3>4. CASE ExpireRead \/ ExpireCrash
        BY <3>4 DEF ExpireRead, ExpireCrash, TypeOK
      <3> QED BY <1>11, <3>2, <3>3, <3>4 DEF ListingOnly
    <2>2. expiring' \subseteq Jobs
      <3>1. CASE ExpireRead
        BY <3>1 DEF ExpireRead, kSubset, Expirable
      <3>2. CASE ~ExpireRead
        BY <1>11, <3>2 DEF ListingOnly, TakeDown, Restore, DuePasses, ExpireWrite, ExpireCrash, TypeOK
      <3> QED BY <3>1, <3>2
    <2> QED BY <1>11, <2>1, <2>2, ListingShape DEF TypeOK
  <1>12. CASE UNCHANGED vars
    BY <1>12 DEF vars, TypeOK
  <1> QED BY <1>1, <1>2, <1>3, <1>4, <1>5, <1>6, <1>7, <1>8, <1>9, <1>10, <1>11, <1>12
          DEF Next, Continue, Commit, Asks, Walks, Writes, ListingOnly

----------------------------------------------------------------------------
(* What was read under the row lock stands.                                 *)

\* A step that moves or ends one request, and leaves the applications alone,
\* breaks nobody's decision: r is either past deciding or as it was.
LEMMA ReadStepOfOne ==
    ASSUME TypeOK, ReadStands, NEW r \in Reqs,
           \A q \in Reqs \ {r} : req'[q] = req[q],
           status' = status,
           \A j \in Jobs, u \in Cands : row[j][u] \in Reqs \ {r} => row'[j][u] = row[j][u],
           Active(r)' /\ req'[r].stage \in {"locked", "counted"} /\ req'[r].was # "none" =>
             /\ status[req'[r].job][req'[r].cand] = req'[r].was
             /\ row'[req'[r].job][req'[r].cand] = r
    PROVE  ReadStands'
  <1> SUFFICES ASSUME NEW q \in Reqs, Active(q)', req'[q].stage \in {"locked", "counted"},
                      req'[q].was # "none", q # r
               PROVE  /\ status'[req'[q].job][req'[q].cand] = req'[q].was
                      /\ row'[req'[q].job][req'[q].cand] = q
    BY DEF ReadStands
  <1>1. req'[q] = req[q] /\ Active(q)
    BY DEF Active
  <1>2. req[q].job \in Jobs /\ req[q].cand \in Cands
    BY <1>1, ActiveIsRequest DEF RowOps
  <1>3. status[req[q].job][req[q].cand] = req[q].was /\ row[req[q].job][req[q].cand] = q
    BY <1>1 DEF ReadStands
  <1> QED BY <1>1, <1>2, <1>3

\* No step changes an application under a decision taken on it.
LEMMA ReadStep ==
    ASSUME TypeOK, ReadStands, [Next]_vars
    PROVE  ReadStands'
  <1>1. ASSUME NEW r \in Reqs, Asks(r) PROVE ReadStands'
    <2>1. PICK q \in Requests : Arrived(r, q)
      BY <1>1, ArrivalShape
    <2>2. req'[r].stage \in {"asked", "stamped"} /\ \A p \in Reqs \ {r} : req'[p] = req[p]
      BY <2>1 DEF Arrived, TypeOK
    <2> QED BY <2>1, <2>2, ReadStepOfOne DEF Arrived, applications
  <1>2. ASSUME NEW r \in Reqs, Lock(r) PROVE ReadStands'
    <2>1. \A j \in Jobs, u \in Cands : row[j][u] \in Reqs \ {r} => row'[j][u] = row[j][u]
      BY <1>2, LockShape, NoneIsNone
    <2> QED BY <1>2, <2>1, LockShape, ReadStepOfOne DEF applications
  <1>3. ASSUME NEW r \in Reqs, Walks(r) PROVE ReadStands'
    BY <1>3, WalkShape, ReadStepOfOne DEF applications
  <1>4. ASSUME NEW r \in Reqs, Count(r) PROVE ReadStands'
    <2>1. req[r].was # "none" => /\ status[req[r].job][req[r].cand] = req[r].was
                                 /\ row[req[r].job][req[r].cand] = r
      BY <1>4, CountShape DEF ReadStands
    <2> QED BY <1>4, <2>1, CountShape, ReadStepOfOne DEF applications
  <1>5. ASSUME NEW r \in Reqs, Decline(r) \/ Abort(r) \/ SweepEnds(r) \/ CommitListing(r)
        PROVE  ReadStands'
    <2>1. Active(r) /\ Over(r) /\ status' = status
      BY <1>5 DEF Decline, Abort, SweepEnds, CommitListing, Over, Active, applications
    <2> QED BY <2>1, OverShape, ReadStepOfOne
  <1>6. ASSUME NEW r \in Reqs, Writes(r) PROVE ReadStands'
    <2>1. /\ Active(r) /\ Over(r)
          /\ \A j \in Jobs, u \in Cands :
               status'[j][u] # status[j][u] => j = req[r].job /\ u = req[r].cand
          /\ status[req[r].job][req[r].cand] = req[r].was
          /\ req[r].was # "none" => row[req[r].job][req[r].cand] = r
      BY <1>6, WriteEffect
    <2> SUFFICES ASSUME NEW q \in Reqs, Active(q)', req'[q].stage \in {"locked", "counted"},
                        req'[q].was # "none"
                 PROVE  /\ status'[req'[q].job][req'[q].cand] = req'[q].was
                        /\ row'[req'[q].job][req'[q].cand] = q
      BY DEF ReadStands
    <2>2. q # r /\ req'[q] = req[q] /\ Active(q)
      BY <2>1, OverShape DEF Active
    <2>3. /\ req[q].job \in Jobs /\ req[q].cand \in Cands
          /\ status[req[q].job][req[q].cand] = req[q].was
          /\ row[req[q].job][req[q].cand] = q
      BY <2>2, ActiveIsRequest DEF ReadStands, RowOps
    <2>4. ~(req[q].job = req[r].job /\ req[q].cand = req[r].cand)
      BY <2>1, <2>2, <2>3
    <2> QED BY <2>1, <2>2, <2>3, <2>4, OverShape
  <1>7. ASSUME NEW j \in Jobs, Delete(j) PROVE ReadStands'
    <2> SUFFICES ASSUME NEW q \in Reqs, Active(q), req[q].stage \in {"locked", "counted"},
                        req[q].was # "none"
                 PROVE  /\ status'[req[q].job][req[q].cand] = req[q].was
                        /\ row[req[q].job][req[q].cand] = q
      BY <1>7 DEF ReadStands, Delete, Active
    <2>1. /\ req[q].job \in Jobs /\ req[q].cand \in Cands
          /\ status[req[q].job][req[q].cand] = req[q].was
          /\ row[req[q].job][req[q].cand] = q
      BY ActiveIsRequest DEF ReadStands, RowOps
    <2>2. req[q].job # j
      BY <1>7, <2>1, NoneIsNone DEF Delete
    <2> QED BY <1>7, <2>1, <2>2 DEF Delete, TypeOK
  <1>8. ASSUME NEW u \in Cands, Resume(u) PROVE ReadStands'
    BY <1>8 DEF Resume, applications, ReadStands, Active
  <1>9. CASE ListingOnly
    BY <1>9, ListingShape DEF ReadStands, Active
  <1>10. CASE UNCHANGED vars
    BY <1>10 DEF vars, ReadStands, Active
  <1> QED BY <1>1, <1>2, <1>3, <1>4, <1>5, <1>6, <1>7, <1>8, <1>9, <1>10
          DEF Next, Continue, Commit, Asks, Walks, Writes, ListingOnly

----------------------------------------------------------------------------
(* Consent.                                                                 *)

\* While an application is on its way to being sent, the person's consent
\* stands: the lock it holds is the one a withdrawal waits for.
LEMMA DisclosingStep ==
    ASSUME TypeOK, ReadStands, Disclosing, [Next]_vars
    PROVE  Disclosing'
  <1>0. \A q \in Reqs : Active(q) /\ req[q].op = "apply" => req[q].cand \in Cands
    BY ActiveIsRequest DEF RowOps
  <1>a. ASSUME NEW r \in Reqs, \A q \in Reqs \ {r} : req'[q] = req[q],
               \A u \in Cands, q \in Reqs \ {r} : q \in share[u] => q \in share'[u],
               paused' = paused,
               Active(r)' /\ req'[r].op = "apply" =>
                 /\ Active(r) /\ req[r].op = "apply" /\ req'[r].cand = req[r].cand
                 /\ share' = share
        PROVE  Disclosing'
    <2> SUFFICES ASSUME NEW q \in Reqs, Active(q)', req'[q].op = "apply"
                 PROVE  q \in share'[req'[q].cand] /\ ~paused'[req'[q].cand]
      BY DEF Disclosing
    <2>1. CASE q = r
      BY <1>0, <1>a, <2>1 DEF Disclosing
    <2>2. CASE q # r
      BY <1>0, <1>a, <2>2 DEF Disclosing, Active
    <2> QED BY <2>1, <2>2
  <1>1. ASSUME NEW r \in Reqs, Asks(r) PROVE Disclosing'
    <2>1. PICK q \in Requests : Arrived(r, q)
      BY <1>1, ArrivalShape
    <2>2. req'[r] = q /\ \A p \in Reqs \ {r} : req'[p] = req[p]
      BY <2>1 DEF Arrived, TypeOK
    <2>3. q.op \in {"apply", "sweep"} => q.cand \in Cands
      BY DEF Requests, RowOps
    <2> SUFFICES ASSUME NEW p \in Reqs, Active(p)', req'[p].op = "apply"
                 PROVE  p \in share'[req'[p].cand] /\ ~paused'[req'[p].cand]
      BY DEF Disclosing
    <2>4. CASE p = r
      BY <2>1, <2>2, <2>3, <2>4 DEF Arrived, TypeOK
    <2>5. CASE p # r
      <3>1. /\ req'[p] = req[p] /\ Active(p) /\ req[p].cand \in Cands
            /\ p \in share[req[p].cand] /\ ~paused[req[p].cand]
        BY <1>0, <2>2, <2>5 DEF Disclosing, Active
      <3>2. q.op = "sweep" => req[p].cand # q.cand
        BY <2>1, <3>1 DEF Arrived
      <3> QED BY <2>1, <2>3, <3>1, <3>2 DEF Arrived, TypeOK
    <2> QED BY <2>4, <2>5
  <1>2. ASSUME NEW r \in Reqs, Lock(r) PROVE Disclosing'
    BY <1>a, <1>2, LockShape
  <1>3. ASSUME NEW r \in Reqs, Walks(r) PROVE Disclosing'
    BY <1>a, <1>3, WalkShape
  <1>4. ASSUME NEW r \in Reqs, Count(r) PROVE Disclosing'
    BY <1>a, <1>4, CountShape
  <1>5. ASSUME NEW r \in Reqs, Decline(r) \/ Abort(r) \/ SweepEnds(r) \/ CommitListing(r) \/ Writes(r)
        PROVE  Disclosing'
    <2>1. Active(r) /\ Over(r) /\ paused' = paused
      BY <1>5, WriteEffect DEF Decline, Abort, SweepEnds, CommitListing, Over, Active
    <2> QED BY <1>a, <2>1, OverShape
  <1>6. ASSUME NEW j \in Jobs, Delete(j) PROVE Disclosing'
    BY <1>6 DEF Delete, Disclosing, Active
  <1>7. ASSUME NEW u \in Cands, Resume(u) PROVE Disclosing'
    BY <1>7, <1>0 DEF Resume, Disclosing, Active, TypeOK
  <1>8. CASE ListingOnly
    BY <1>8, ListingShape DEF Disclosing, Active
  <1>9. CASE UNCHANGED vars
    BY <1>9 DEF vars, Disclosing, Active
  <1> QED BY <1>1, <1>2, <1>3, <1>4, <1>5, <1>6, <1>7, <1>8, <1>9
          DEF Next, Continue, Commit, Asks, Walks, Writes, ListingOnly

\* A pause in force is one whose sweep is still the person's own, and nobody
\* who has not paused is swept.
LEMMA PausesStep ==
    ASSUME TypeOK, ReadStands, PausesInForce, [Next]_vars
    PROVE  PausesInForce'
  <1>a. ASSUME NEW r \in Reqs, \A q \in Reqs \ {r} : req'[q] = req[q],
               paused' = paused, swept' = swept,
               \A u \in Cands : pausing'[u] \subseteq pausing[u],
               \/ \A u \in Cands : r \notin pausing'[u]
               \/ /\ Active(r)' /\ req'[r].cand = req[r].cand
                  /\ req[r].op = "sweep" => req'[r].op = "sweep"
        PROVE  PausesInForce'
    BY <1>a DEF PausesInForce, Active, TypeOK
  <1>1. ASSUME NEW r \in Reqs, Asks(r) PROVE PausesInForce'
    <2>1. PICK q \in Requests : Arrived(r, q)
      BY <1>1, ArrivalShape
    <2>2. /\ req'[r] = q /\ ~Active(r) /\ q.stage # "idle"
          /\ \A p \in Reqs \ {r} : req'[p] = req[p]
      BY <2>1 DEF Arrived, TypeOK, Active, Idle
    <2>3. \A u \in Cands : r \notin pausing[u]
      BY <2>2 DEF PausesInForce
    <2>4. CASE pausing' = pausing /\ paused' = paused
      BY <2>1, <2>2, <2>3, <2>4 DEF Arrived, PausesInForce, Active, TypeOK
    <2>5. CASE ~(pausing' = pausing /\ paused' = paused)
      <3>1. /\ q.op = "sweep" /\ q.cand \in Cands /\ swept' = swept
            /\ paused' = [paused EXCEPT ![q.cand] = TRUE]
            /\ pausing' = [pausing EXCEPT ![q.cand] = @ \cup {r}]
        BY <2>1, <2>5 DEF Arrived, Requests, RowOps
      <3>2. ASSUME NEW u \in Cands
            PROVE  /\ pausing'[u] # {} \/ swept'[u] => paused'[u]
                   /\ \A p \in pausing'[u] :
                        Active(p)' /\ req'[p].op = "sweep" /\ req'[p].cand = u
        <4>1. CASE u = q.cand
          <5>1. paused'[u] /\ pausing'[u] = pausing[u] \cup {r}
            BY <3>1, <4>1 DEF TypeOK
          <5>2. \A p \in pausing[u] : p \in Reqs /\ p # r /\ Active(p) /\ req[p].op = "sweep" /\ req[p].cand = u
            BY <2>3 DEF PausesInForce, TypeOK
          <5> QED BY <2>2, <3>1, <4>1, <5>1, <5>2 DEF Active
        <4>2. CASE u # q.cand
          <5>1. paused'[u] = paused[u] /\ pausing'[u] = pausing[u] /\ swept'[u] = swept[u]
            BY <3>1, <4>2 DEF TypeOK
          <5>2. \A p \in pausing[u] : p \in Reqs /\ p # r /\ Active(p) /\ req[p].op = "sweep" /\ req[p].cand = u
            BY <2>3 DEF PausesInForce, TypeOK
          <5>3. pausing[u] # {} \/ swept[u] => paused[u]
            BY DEF PausesInForce
          <5> QED BY <2>2, <5>1, <5>2, <5>3 DEF Active
        <4> QED BY <4>1, <4>2
      <3> QED BY <3>2 DEF PausesInForce
    <2> QED BY <2>4, <2>5
  <1>2. ASSUME NEW r \in Reqs, Lock(r) PROVE PausesInForce'
    BY <1>a, <1>2, LockShape
  <1>3. ASSUME NEW r \in Reqs, Walks(r) PROVE PausesInForce'
    BY <1>a, <1>3, WalkShape
  <1>4. ASSUME NEW r \in Reqs, Count(r) PROVE PausesInForce'
    BY <1>a, <1>4, CountShape
  <1>5. ASSUME NEW r \in Reqs, Decline(r) \/ Abort(r) \/ CommitListing(r) \/ Writes(r)
        PROVE  PausesInForce'
    <2>1. Active(r) /\ Over(r) /\ paused' = paused /\ swept' = swept
      BY <1>5, WriteEffect DEF Decline, Abort, CommitListing, Over, Active
    <2>2. \/ \A u \in Cands : r \notin pausing'[u]
          \/ /\ Active(r)' /\ req'[r].cand = req[r].cand /\ req'[r].op = "sweep"
      BY <2>1, OverShape DEF Active
    <2> QED BY <1>a, <2>1, <2>2, OverShape
  <1>6. ASSUME NEW r \in Reqs, SweepEnds(r) PROVE PausesInForce'
    <2>1. /\ Finish(r) /\ paused' = paused
          /\ \A u \in Cands : swept'[u] => swept[u] \/ pausing[u] # {}
      BY <1>6 DEF SweepEnds
    <2>2. ASSUME NEW u \in Cands
          PROVE  /\ pausing'[u] # {} \/ swept'[u] => paused'[u]
                 /\ \A p \in pausing'[u] : p \in pausing[u] /\ p \in Reqs /\ p # r
      BY <2>1 DEF Finish, PausesInForce, TypeOK
    <2>3. \A p \in Reqs \ {r} : req'[p] = req[p]
      BY <2>1 DEF Finish, TypeOK
    <2> QED BY <2>2, <2>3 DEF PausesInForce, Active
  <1>7. ASSUME NEW j \in Jobs, Delete(j) PROVE PausesInForce'
    BY <1>7 DEF Delete, PausesInForce, Active
  <1>8. ASSUME NEW u \in Cands, Resume(u) PROVE PausesInForce'
    <2>1. ASSUME NEW w \in Cands
          PROVE  /\ pausing'[w] # {} \/ swept'[w] => paused'[w]
                 /\ pausing'[w] \subseteq pausing[w]
      <3>1. CASE w = u
        BY <1>8, <3>1 DEF Resume, TypeOK
      <3>2. CASE w # u
        BY <1>8, <3>2 DEF Resume, PausesInForce, TypeOK
      <3> QED BY <3>1, <3>2
    <2> QED BY <1>8, <2>1 DEF Resume, PausesInForce, Active
  <1>9. CASE ListingOnly
    BY <1>9, ListingShape DEF PausesInForce, Active
  <1>10. CASE UNCHANGED vars
    BY <1>10 DEF vars, PausesInForce, Active
  <1> QED BY <1>1, <1>2, <1>3, <1>4, <1>5, <1>6, <1>7, <1>8, <1>9, <1>10
          DEF Next, Continue, Commit, Asks, Walks, Writes, ListingOnly

\* A commit leaves an application of somebody who has paused under
\* consideration only if it was before, or if it is the employer who revives it.
LEMMA WriteUnderPause ==
    ASSUME TypeOK, ReadStands, Disclosing, NEW r \in Reqs, Writes(r),
           NEW j \in Jobs, NEW u \in Cands, paused[u], status'[j][u] \in Withdrawable
    PROVE  \/ <<j, u>> \in revived'
           \/ /\ status[j][u] \in Withdrawable
              /\ <<j, u>> \in revived => <<j, u>> \in revived'
              /\ ~(j = req[r].job /\ u = req[r].cand /\ req[r].op # "move")
  <1>1. /\ Active(r) /\ req[r].job \in Jobs /\ req[r].cand \in Cands
        /\ status'[j][u] # status[j][u] => j = req[r].job /\ u = req[r].cand
        /\ status[req[r].job][req[r].cand] = req[r].was
    BY WriteEffect
  <1>2. CASE CommitApply(r)
    <2>1. u # req[r].cand
      BY <1>1, <1>2 DEF CommitApply, Disclosing
    <2> QED BY <1>1, <1>2, <2>1 DEF CommitApply
  <1>3. CASE CommitWithdraw(r)
    <2>1. ~(j = req[r].job /\ u = req[r].cand)
      BY <1>1, <1>3 DEF CommitWithdraw, TypeOK, Withdrawable, Promised!Withdrawable
    <2> QED BY <1>1, <1>3, <2>1 DEF CommitWithdraw
  <1>4. CASE CommitMove(r)
    <2>1. req[r].op = "move"
      BY <1>1, <1>4, ActiveIsRequest DEF CommitMove
    <2>2. CASE j = req[r].job /\ u = req[r].cand
      <3>1. status'[j][u] = req[r].to
        BY <1>1, <1>4, <2>2 DEF CommitMove, TypeOK
      <3> QED BY <1>1, <1>4, <2>1, <2>2, <3>1 DEF CommitMove
    <2>3. CASE ~(j = req[r].job /\ u = req[r].cand)
      BY <1>1, <1>4, <2>3 DEF CommitMove
    <2> QED BY <2>2, <2>3
  <1> QED BY <1>2, <1>3, <1>4 DEF Writes

\* What a sweep has passed, it has left nothing of.
LEMMA SweepStep ==
    ASSUME TypeOK, ReadStands, Disclosing, PausesInForce, SweepLeavesNothing, [Next]_vars
    PROVE  SweepLeavesNothing'
  <1> DEFINE Covered(j, u, q) == \/ <<j, u>> \in revived
                                 \/ j \in req[q].left
                                 \/ /\ j = req[q].job
                                    /\ req[q].stage = "locked" => req[q].was \in Withdrawable
  <1>0. \A u \in Cands, q \in Reqs, j \in Jobs :
          q \in pausing[u] /\ req[q].stage # "stamped" /\ status[j][u] \in Withdrawable
            => Covered(j, u, q)
    BY DEF SweepLeavesNothing
  <1>a. ASSUME NEW r \in Reqs, \A q \in Reqs \ {r} : req'[q] = req[q],
               status' = status, revived' = revived,
               \A u \in Cands, q \in Reqs : q \in pausing'[u] => q \in pausing[u] \/ req'[q].stage = "stamped",
               \A u \in Cands, j \in Jobs :
                 r \in pausing'[u] /\ req'[r].stage # "stamped" /\ status[j][u] \in Withdrawable
                   => Covered(j, u, r)'
        PROVE  SweepLeavesNothing'
    BY <1>0, <1>a DEF SweepLeavesNothing
  <1>1. ASSUME NEW r \in Reqs, Asks(r) PROVE SweepLeavesNothing'
    <2>1. PICK q \in Requests : Arrived(r, q)
      BY <1>1, ArrivalShape
    <2>2. /\ req'[r] = q /\ ~Active(r)
          /\ \A p \in Reqs \ {r} : req'[p] = req[p]
      BY <2>1 DEF Arrived, TypeOK, Active, Idle
    <2>3. \A u \in Cands : r \notin pausing[u]
      BY <2>2 DEF PausesInForce
    <2>4. q.op = "sweep" => q.cand \in Cands
      BY DEF Requests, RowOps
    <2>5. \A u \in Cands, p \in Reqs : p \in pausing'[u] => p \in pausing[u] \/ req'[p].stage = "stamped"
      BY <2>1, <2>2, <2>4 DEF Arrived, TypeOK
    <2> QED BY <1>a, <2>1, <2>2, <2>3, <2>5 DEF Arrived, applications
  <1>2. ASSUME NEW r \in Reqs, Lock(r) PROVE SweepLeavesNothing'
    <2>1. ASSUME NEW u \in Cands, NEW j \in Jobs, r \in pausing'[u], status[j][u] \in Withdrawable
          PROVE  Covered(j, u, r)'
      <3>1. Covered(j, u, r) /\ req[r].cand = u
        BY <1>0, <1>2, <2>1, LockShape DEF PausesInForce
      <3> QED BY <1>2, <2>1, <3>1, LockShape
    <2> QED BY <1>a, <1>2, <2>1, LockShape DEF applications
  <1>3. ASSUME NEW r \in Reqs, Walks(r) PROVE SweepLeavesNothing'
    <2>1. ASSUME NEW u \in Cands, NEW j \in Jobs, r \in pausing'[u], status[j][u] \in Withdrawable
          PROVE  Covered(j, u, r)'
      <3>1. req[r].cand = u /\ r \in pausing[u] /\ revived' = revived
        BY <1>3, <2>1, WalkShape DEF PausesInForce
      <3>2. CASE req[r].stage = "stamped"
        BY <1>3, <2>1, <3>1, <3>2, WalkShape
      <3>3. CASE req[r].stage = "sweeping"
        <4>1. req[r].job = None /\ None \notin Jobs
          BY <1>3, <3>3, WalkShape, ActiveIsRequest, NoneIsNone
        <4>2. <<j, u>> \in revived \/ j \in req[r].left
          BY <1>0, <2>1, <3>1, <3>3, <4>1
        <4> QED BY <1>3, <3>1, <3>3, <4>2, WalkShape
      <3> QED BY <1>3, <3>2, <3>3, WalkShape
    <2> QED BY <1>a, <1>3, <2>1, WalkShape DEF applications
  <1>4. ASSUME NEW r \in Reqs, Count(r) PROVE SweepLeavesNothing'
    <2>1. \A u \in Cands : r \notin pausing'[u]
      BY <1>4, CountShape DEF PausesInForce
    <2> QED BY <1>a, <1>4, <2>1, CountShape DEF applications
  <1>5. ASSUME NEW r \in Reqs, Decline(r) \/ Abort(r) \/ CommitListing(r) \/ SweepEnds(r)
        PROVE  SweepLeavesNothing'
    <2>1. Active(r) /\ Over(r) /\ status' = status /\ revived' = revived
      BY <1>5 DEF Decline, Abort, CommitListing, SweepEnds, Over, Active, applications
    <2>2. ASSUME NEW u \in Cands, NEW j \in Jobs, r \in pausing'[u], status[j][u] \in Withdrawable
          PROVE  Covered(j, u, r)'
      <3>1. /\ r \in pausing[u] /\ req[r].stage = "locked" /\ req[r].op = "sweep"
            /\ req'[r].left = req[r].left
        BY <2>1, <2>2, OverShape
      <3>2. ~Finish(r)
        BY <2>2 DEF Finish
      <3>3. Decline(r) /\ req[r].was \notin Withdrawable
        BY <1>5, <3>1, <3>2 DEF Decline, Abort, CommitListing, SweepEnds, Accepts
      <3>4. <<j, u>> \in revived \/ j \in req[r].left
        BY <1>0, <2>2, <3>1, <3>3
      <3> QED BY <2>1, <3>1, <3>4
    <2> QED BY <1>a, <2>1, <2>2, OverShape
  <1>6. ASSUME NEW r \in Reqs, Writes(r) PROVE SweepLeavesNothing'
    <2>1. Active(r) /\ Over(r) /\ req[r].job \in Jobs
      BY <1>6, WriteEffect
    <2> SUFFICES ASSUME NEW u \in Cands, NEW q \in Reqs, NEW j \in Jobs, q \in pausing'[u],
                        req'[q].stage # "stamped", status'[j][u] \in Withdrawable
                 PROVE  Covered(j, u, q)'
      BY DEF SweepLeavesNothing
    <2>2. q \in pausing[u] /\ paused[u] /\ Active(q) /\ req[q].op = "sweep" /\ req[q].cand = u
      BY <2>1, OverShape DEF PausesInForce
    <2>3. \/ <<j, u>> \in revived'
          \/ /\ status[j][u] \in Withdrawable
             /\ <<j, u>> \in revived => <<j, u>> \in revived'
             /\ ~(j = req[r].job /\ u = req[r].cand /\ req[r].op # "move")
      BY <1>6, <2>2, WriteUnderPause
    <2>4. CASE q # r
      <3>1. req'[q] = req[q]
        BY <2>1, <2>4, OverShape
      <3>2. CASE <<j, u>> \in revived'
        BY <3>2
      <3>3. CASE <<j, u>> \notin revived'
        BY <1>0, <2>2, <2>3, <3>1, <3>3
      <3> QED BY <3>2, <3>3
    <2>5. CASE q = r
      <3>1. req[r].stage = "locked" /\ req'[r].left = req[r].left
        BY <2>1, <2>5, OverShape
      <3>2. CASE <<j, u>> \in revived'
        BY <3>2
      <3>3. CASE <<j, u>> \notin revived'
        <4>1. j # req[r].job /\ status[j][u] \in Withdrawable /\ <<j, u>> \notin revived
          BY <2>2, <2>3, <2>5, <3>3
        <4>2. j \in req[r].left
          BY <1>0, <2>2, <2>5, <3>1, <4>1
        <4> QED BY <2>5, <3>1, <4>2
      <3> QED BY <3>2, <3>3
    <2> QED BY <2>4, <2>5
  <1>7. ASSUME NEW k \in Jobs, Delete(k) PROVE SweepLeavesNothing'
    <2> SUFFICES ASSUME NEW u \in Cands, NEW q \in Reqs, NEW j \in Jobs, q \in pausing[u],
                        req[q].stage # "stamped", status'[j][u] \in Withdrawable
                 PROVE  Covered(j, u, q)'
      BY <1>7 DEF SweepLeavesNothing, Delete
    <2>1. j # k /\ status'[j][u] = status[j][u]
      BY <1>7 DEF Delete, TypeOK, Withdrawable, Promised!Withdrawable
    <2>2. <<j, u>> \in revived => <<j, u>> \in revived'
      BY <1>7, <2>1 DEF Delete
    <2> QED BY <1>0, <1>7, <2>1, <2>2 DEF Delete
  <1>8. ASSUME NEW u \in Cands, Resume(u) PROVE SweepLeavesNothing'
    BY <1>8 DEF Resume, SweepLeavesNothing, TypeOK, applications
  <1>9. CASE ListingOnly
    BY <1>9, ListingShape DEF SweepLeavesNothing
  <1>10. CASE UNCHANGED vars
    BY <1>10 DEF vars, SweepLeavesNothing
  <1> QED BY <1>1, <1>2, <1>3, <1>4, <1>5, <1>6, <1>7, <1>8, <1>9, <1>10
          DEF Next, Continue, Commit, Asks, Walks, Writes, ListingOnly

\* Once its sweep has finished, a pause shares nothing but what an employer
\* has put back.
LEMMA PausedStep ==
    ASSUME TypeOK, ReadStands, Disclosing, PausesInForce, SweepLeavesNothing,
           PausedSharesNothing, [Next]_vars
    PROVE  PausedSharesNothing'
  <1>a. ASSUME status' = status, revived' = revived,
               \A u \in Cands : paused'[u] /\ swept'[u] => paused[u] /\ swept[u]
        PROVE  PausedSharesNothing'
    BY <1>a DEF PausedSharesNothing
  <1>1. ASSUME NEW r \in Reqs, Asks(r) PROVE PausedSharesNothing'
    <2>1. PICK q \in Requests : Arrived(r, q)
      BY <1>1, ArrivalShape
    <2>2. \A u \in Cands : swept[u] => paused[u]
      BY DEF PausesInForce
    <2> QED BY <1>a, <2>1, <2>2 DEF Arrived, applications
  <1>2. ASSUME NEW r \in Reqs, Lock(r) PROVE PausedSharesNothing'
    BY <1>a, <1>2, LockShape DEF applications
  <1>3. ASSUME NEW r \in Reqs, Walks(r) PROVE PausedSharesNothing'
    BY <1>a, <1>3, WalkShape DEF applications
  <1>4. ASSUME NEW r \in Reqs, Count(r) PROVE PausedSharesNothing'
    BY <1>a, <1>4, CountShape DEF applications
  <1>5. ASSUME NEW r \in Reqs, Decline(r) \/ Abort(r) \/ CommitListing(r)
        PROVE  PausedSharesNothing'
    BY <1>a, <1>5 DEF Decline, Abort, CommitListing, applications
  <1>6. ASSUME NEW r \in Reqs, SweepEnds(r) PROVE PausedSharesNothing'
    <2>1. req[r].stage = "sweeping" /\ req[r].left = {} /\ req[r].job = None /\ None \notin Jobs
      BY <1>6, ActiveIsRequest, NoneIsNone DEF SweepEnds, Active
    <2> SUFFICES ASSUME NEW u \in Cands, paused[u], swept'[u], NEW j \in Jobs,
                        status[j][u] \in Withdrawable
                 PROVE  <<j, u>> \in revived
      BY <1>6 DEF PausedSharesNothing, SweepEnds, applications
    <2>2. CASE swept[u]
      BY <2>2 DEF PausedSharesNothing
    <2>3. CASE r \in pausing[u]
      BY <2>1, <2>3 DEF SweepLeavesNothing
    <2> QED BY <1>6, <2>2, <2>3 DEF SweepEnds
  <1>7. ASSUME NEW r \in Reqs, Writes(r) PROVE PausedSharesNothing'
    <2> SUFFICES ASSUME NEW u \in Cands, paused[u], swept[u], NEW j \in Jobs,
                        status'[j][u] \in Withdrawable
                 PROVE  <<j, u>> \in revived'
      BY <1>7, WriteEffect DEF PausedSharesNothing
    <2> QED BY <1>7, WriteUnderPause DEF PausedSharesNothing
  <1>8. ASSUME NEW k \in Jobs, Delete(k) PROVE PausedSharesNothing'
    <2> SUFFICES ASSUME NEW u \in Cands, paused[u], swept[u], NEW j \in Jobs,
                        status'[j][u] \in Withdrawable
                 PROVE  <<j, u>> \in revived'
      BY <1>8 DEF PausedSharesNothing, Delete
    <2>1. j # k /\ status'[j][u] = status[j][u]
      BY <1>8 DEF Delete, TypeOK, Withdrawable, Promised!Withdrawable
    <2> QED BY <1>8, <2>1 DEF Delete, PausedSharesNothing
  <1>9. ASSUME NEW u \in Cands, Resume(u) PROVE PausedSharesNothing'
    BY <1>9, <1>a DEF Resume, TypeOK, applications
  <1>10. CASE ListingOnly
    BY <1>10, <1>a, ListingShape
  <1>11. CASE UNCHANGED vars
    BY <1>11, <1>a DEF vars
  <1> QED BY <1>1, <1>2, <1>3, <1>4, <1>5, <1>6, <1>7, <1>8, <1>9, <1>10, <1>11
          DEF Next, Continue, Commit, Asks, Walks, Writes, ListingOnly

----------------------------------------------------------------------------
(* The invariant.                                                           *)

\* Nobody has applied yet, and no request is in flight.
LEMMA InitEstablishes ==
    ASSUME Init
    PROVE  IInv
  <1>1. TypeOK
    <2>1. \A j \in Jobs : job[j] \in JobRows
      BY DEF Init, JobRows
    <2>2. job \in [Jobs -> JobRows]
      BY <2>1 DEF Init
    <2>3. "none" \in Promised!Statuses /\ "never" \in Promised!Disclosures
      BY DEF Promised!Statuses, Promised!Disclosures
    <2> QED BY <2>2, <2>3 DEF Init, TypeOK
  <1>2. \A r \in Reqs : ~Active(r)
    BY DEF Init, Active, Idle
  <1>3. PausesInForce /\ SweepLeavesNothing /\ PausedSharesNothing
    BY DEF Init, PausesInForce, SweepLeavesNothing, PausedSharesNothing
  <1> QED BY <1>1, <1>2, <1>3 DEF IInv, ReadStands, Disclosing

\* Every step of every handler, of the operators and of the worker keeps it.
LEMMA StepPreserves ==
    ASSUME IInv, [Next]_vars
    PROVE  IInv'
  BY TypeStep, ReadStep, DisclosingStep, PausesStep, SweepStep, PausedStep DEF IInv

\* The inductive invariant holds in every reachable state, however apply,
\* withdraw, set_status, delete_job and the withdrawal of consent interleave.
THEOREM Invariance == Spec => []IInv
  BY InitEstablishes, StepPreserves, PTL DEF Spec

\* Every row, lock and request of the model keeps its type.
THEOREM TypeCorrect == Spec => []TypeOK
  <1>1. IInv => TypeOK
    BY DEF IInv
  <1> QED BY <1>1, Invariance, PTL

\* set_status and withdraw: what a handler read under SELECT ... FOR UPDATE is
\* still so, and still its own, when it writes the decision it took on it.
THEOREM DecisionsStand == Spec => []ReadStands
  <1>1. IInv => ReadStands
    BY DEF IInv
  <1> QED BY <1>1, Invariance, PTL

\* withdraw_my_consent: once the sweep has finished, no application of a paused
\* person is under consideration but those an employer has put back since.
THEOREM ConsentIsHonoured == Spec => []PausedSharesNothing
  <1>1. IInv => PausedSharesNothing
    BY DEF IInv
  <1> QED BY <1>1, Invariance, PTL

----------------------------------------------------------------------------
(* Vacancy implements Hiring.                                               *)

\* A commit is one whole step of the promise: applying, withdrawing, or the
\* employer's move, each from a status it may be made from.
LEMMA WriteKeepsPromise ==
    ASSUME IInv, NEW r \in Reqs, Writes(r)
    PROVE  Promised!Next
  <1> DEFINE j == req[r].job
             u == req[r].cand
  <1>1. Active(r) /\ j \in Jobs /\ u \in Cands /\ status[j][u] = req[r].was /\ paused' = paused
    BY WriteEffect DEF IInv
  <1>2. CASE CommitApply(r)
    <2>1. ~paused[u] /\ status[j][u] \in {"none", "withdrawn"}
      BY <1>1, <1>2 DEF IInv, Disclosing, CommitApply, Accepts
    <2>2. Promised!Apply(j, u)
      BY <1>1, <1>2, <2>1 DEF CommitApply, Promised!Apply
    <2> QED BY <1>1, <2>2 DEF Promised!Next
  <1>3. CASE CommitWithdraw(r)
    <2>1. status[j][u] \in Withdrawable
      BY <1>1, <1>3 DEF CommitWithdraw, Accepts
    <2>2. Promised!Withdraw(j, u)
      BY <1>1, <1>3, <2>1 DEF CommitWithdraw, Promised!Withdraw, Withdrawable
    <2> QED BY <1>1, <2>2 DEF Promised!Next
  <1>4. CASE CommitMove(r)
    <2>1. req[r].to \in Promised!EmployerMoves(j, status[j][u])
      BY <1>1, <1>4, ActiveIsRequest DEF CommitMove, IInv
    <2>2. Promised!Move(j, u)
      BY <1>1, <1>4, <2>1 DEF CommitMove, Promised!Move
    <2> QED BY <1>1, <2>2 DEF Promised!Next
  <1> QED BY <1>2, <1>3, <1>4 DEF Writes

\* Every other step either changes somebody's consent, deletes a vacancy with
\* its applications, or is none of the promise's business.
LEMMA StepKeepsPromise ==
    ASSUME IInv, [Next]_vars
    PROVE  [Promised!Next]_(Promised!vars)
  <1> USE DEF Promised!vars
  <1>1. ASSUME NEW r \in Reqs, Asks(r) PROVE Promised!Next \/ UNCHANGED Promised!vars
    <2>1. PICK q \in Requests : Arrived(r, q)
      BY <1>1, ArrivalShape DEF IInv
    <2>2. CASE UNCHANGED paused
      BY <2>1, <2>2 DEF Arrived, applications
    <2>3. CASE paused' # paused
      <3>1. q.cand \in Cands
        BY <2>1, <2>3 DEF Arrived, Requests, RowOps
      <3>2. Promised!Consent(q.cand, TRUE)
        BY <2>1, <2>3 DEF Arrived, applications, Promised!Consent
      <3> QED BY <3>1, <3>2 DEF Promised!Next
    <2> QED BY <2>2, <2>3
  <1>2. ASSUME NEW r \in Reqs,
               Lock(r) \/ Walks(r) \/ Count(r) \/ Decline(r) \/ Abort(r) \/ SweepEnds(r)
                 \/ CommitListing(r)
        PROVE  UNCHANGED Promised!vars
    BY <1>2 DEF Lock, Walks, List, SweepNext, Count, Decline, Abort, SweepEnds, CommitListing,
       applications
  <1>3. ASSUME NEW r \in Reqs, Writes(r) PROVE Promised!Next
    BY <1>3, WriteKeepsPromise
  <1>4. ASSUME NEW j \in Jobs, Delete(j) PROVE Promised!Next
    <2>1. Promised!Delete(j)
      BY <1>4 DEF Delete, Promised!Delete
    <2> QED BY <2>1 DEF Promised!Next
  <1>5. ASSUME NEW u \in Cands, Resume(u) PROVE Promised!Next
    <2>1. Promised!Consent(u, FALSE)
      BY <1>5 DEF Resume, applications, Promised!Consent
    <2> QED BY <2>1 DEF Promised!Next
  <1>6. CASE ListingOnly
    BY <1>6, ListingShape
  <1>7. CASE UNCHANGED vars
    BY <1>7 DEF vars
  <1> QED BY <1>1, <1>2, <1>3, <1>4, <1>5, <1>6, <1>7
          DEF Next, Continue, Commit, Asks, Walks, Writes, ListingOnly

\* The handlers, with their stale reads, row locks, retries and sweeps,
\* implement what Hiring promises of an application: no decision is
\* overwritten, none is taken on what is no longer so, and each application is
\* announced once.
THEOREM KeepsItsPromise == Spec => Promise
  <1>1. Init => Promised!Init
    BY DEF Init, Promised!Init
  <1>2. IInv /\ [Next]_vars => [Promised!Next]_(Promised!vars)
    BY StepKeepsPromise
  <1> QED BY <1>1, <1>2, Invariance, PTL DEF Spec, Promise, Promised!Spec
=============================================================================

------------------------------ MODULE Training ------------------------------
(***************************************************************************)
(* Organisations that sell courses, organisations that deliver them, and    *)
(* the batches of learners in between.                                      *)
(*                                                                          *)
(* Models api/modules/delivery/service.py (arrangements),                   *)
(* batches/service.py (planning, publishing, changing, cancelling),         *)
(* centres/service.py, identity/capabilities.py (what an organisation       *)
(* does) and marketplace/course_publishing.py.                              *)
(*                                                                          *)
(* Each request is one database transaction at READ COMMITTED.  A handler   *)
(* that locks what it reads and commits is one action, taken when the row   *)
(* is free; one that another session can get in the middle of is a request  *)
(* with stages, and the rows it holds: `x` FOR UPDATE, `s` FOR SHARE.       *)
(***************************************************************************)
EXTENDS Integers, FiniteSets

CONSTANTS
    Orgs, Courses, Centres,
    Seller,         \* Seller[c]: the organisation whose course c is
    Parent,         \* Parent[k]: the organisation whose centre k is
    Sellers0, Deliverers0,  \* what each organisation does to begin with
    Pairs,          \* bound: the <<provider, partner>> that deal with each other
    Switches,       \* bound: the <<organisation, capability>> that are switched
    Batches, Deals,
    Reqs,           \* requests served at the same time
    Served,         \* bound: the operations an instance serves
    None            \* no row; as a scope, all of the provider's courses

ASSUME SellersAreOrgs == Seller \in [Courses -> Orgs] /\ Parent \in [Centres -> Orgs]
ASSUME PairsAreTwo == \A pair \in Pairs : pair \in Orgs \X Orgs /\ pair[1] # pair[2]
ASSUME KindsDiffer ==
    /\ Orgs \cap (Centres \cup Courses \cup Batches \cup Deals) = {}
    /\ Centres \cap (Courses \cup Batches \cup Deals) = {}
    /\ Courses \cap (Batches \cup Deals) = {} /\ Batches \cap Deals = {}
ASSUME NoneIsNothing == None \notin Orgs \cup Courses \cup Centres \cup Batches \cup Deals

VARIABLES
    sells, delivers,    \* the two capabilities of each organisation
    course,             \* course[c]: the row
    centre,             \* centre[k]: "unwritten", "open" or "closed"
    batch,              \* batch[b]: the row
    deal,               \* deal[d]: the arrangement
    req,                \* req[r]: the request r is serving
    spared              \* history: the batches a revocation left to an arrangement
                        \* that was itself being ended, by a sweep unaware of them

vars == <<sells, delivers, course, centre, batch, deal, req, spared>>

CourseRows == [exists : BOOLEAN, published : BOOLEAN, taken : BOOLEAN]

\* starts_on and ends_on against today: not begun, in progress, over.
Dates == {"ahead", "on", "over"}
BatchRows ==
    [status : {"draft", "published", "cancelled"}, course : Courses, centre : Centres, dates : Dates]
NoBatch == [status |-> "none", course |-> None, centre |-> None, dates |-> "ahead"]

\* CourseDeliveryAuthorisation.state; a row that ended is never read again.
DealRows ==
    [state : {"requested", "approved", "declined", "revoked"},
     provider : Orgs, partner : Orgs, scope : Courses \cup {None}]
NoDeal == [state |-> "none", provider |-> None, partner |-> None, scope |-> None]

Rows == Orgs \cup Centres \cup Courses \cup Batches \cup Deals
Stages == {"asked", "locked", "taken", "placed", "cleared", "sweeping"}
Requests ==
    [stage : Stages,
     op : {"deal", "plan", "publish", "revoke", "reopen", "publish_course", "delete_course"},
     batch : Batches \cup {None}, deal : Deals \cup {None}, centre : Centres \cup {None},
     course : Courses \cup {None}, pair : Pairs \cup {<<None, None>>}, invited : BOOLEAN,
     left : SUBSET Batches, x : SUBSET Rows, s : SUBSET Rows]
Idle == [stage |-> "idle", x |-> {}, s |-> {}]
Asked(what) ==
    [stage |-> "asked", op |-> what, batch |-> None, deal |-> None, centre |-> None,
     course |-> None, pair |-> <<None, None>>, invited |-> FALSE, left |-> {}, x |-> {}, s |-> {}]

TypeOK ==
    /\ sells \in [Orgs -> BOOLEAN] /\ delivers \in [Orgs -> BOOLEAN]
    /\ course \in [Courses -> CourseRows]
    /\ centre \in [Centres -> {"unwritten", "open", "closed"}]
    /\ batch \in [Batches -> BatchRows \cup {NoBatch}]
    /\ deal \in [Deals -> DealRows \cup {NoDeal}]
    /\ req \in [Reqs -> Requests \cup {Idle}]
    /\ spared \subseteq Batches
----------------------------------------------------------------------------
(* Row locks, and what the handlers read.                                   *)

\* FOR UPDATE waits for every other holder, FOR SHARE only for FOR UPDATE.
Free(row) == \A r \in Reqs : row \notin req[r].x \cup req[r].s
Shareable(row) == \A r \in Reqs : row \notin req[r].x

\* Batches not over or cancelled, drafts too: live_at_centre, live_for_course.
Live(b) == batch[b].status \in {"draft", "published"} /\ batch[b].dates # "over"

\* phases.CANCELLABLE, and the same in the sweep's SQL: no class has begun.
Cancellable(b) ==
    \/ batch[b].status = "draft"
    \/ batch[b].status = "published" /\ batch[b].dates = "ahead"

\* An open row: nobody has ended it.
Standing(d) == deal[d].state \in {"requested", "approved"}

\* authorises: o's own course, or one an approved arrangement of o's covers.
Covering(o, c) ==
    {d \in Deals : /\ deal[d].state = "approved"
                   /\ deal[d].partner = o /\ deal[d].provider = Seller[c]
                   /\ deal[d].scope \in {None, c}}
MayDeliver(o, c) == Seller[c] = o \/ Covering(o, c) # {}

\* _refuse_unavailable.
Available(c) == course[c].exists /\ course[c].published /\ ~course[c].taken

Deliverer(b) == Parent[batch[b].centre]

Finish(r) == req' = [req EXCEPT ![r] = Idle]
Arrive(r, q) == q.op \in Served /\ req[r] = Idle /\ req' = [req EXCEPT ![r] = q]

rows == <<sells, delivers, course, centre, batch, deal, spared>>
----------------------------------------------------------------------------
(* Arrangements.                                                            *)

\* request_delivery and invite_partner: the route and _counterpart read both
\* organisations without a lock.
AskDeal(r) ==
    \E pair \in Pairs, scope \in Courses \cup {None}, invited \in BOOLEAN :
        /\ sells[pair[1]] /\ delivers[pair[2]]
        /\ scope # None => course[scope].exists /\ Seller[scope] = pair[1]
        /\ Arrive(r, [Asked("deal") EXCEPT !.pair = pair, !.course = scope, !.invited = invited])
        /\ UNCHANGED rows

\* Slip: the flags of the request's start are trusted.
LockPartiesOnTrust(r) ==
    /\ req[r].stage = "asked" /\ req[r].op = "deal"
    /\ LET parties == {req[r].pair[1], req[r].pair[2]}
       IN req' = [req EXCEPT ![r].stage = "locked", ![r].s = parties]
    /\ UNCHANGED rows

\* _lock_parties: both organisations FOR SHARE, and the flags read again.
LockParties(r) ==
    /\ req[r].stage = "asked" /\ req[r].op = "deal"
    /\ LET parties == {req[r].pair[1], req[r].pair[2]}
       IN /\ \A o \in parties : Shareable(o)
          /\ IF sells[req[r].pair[1]] /\ delivers[req[r].pair[2]]
             THEN req' = [req EXCEPT ![r].stage = "locked", ![r].s = parties]
             ELSE Finish(r)
    /\ UNCHANGED rows

\* _create: the same scope open, or one course while all are covered, is
\* refused, and the unique indexes refuse the loser of a race.  A cap on asking
\* may refuse at any time.
Clashes(r, d) ==
    /\ Standing(d)
    /\ <<deal[d].provider, deal[d].partner>> = req[r].pair
    /\ deal[d].scope \in {None, req[r].course}

MakeDeal(r) ==
    /\ req[r].stage = "locked"
    /\ \/ /\ \A d \in Deals : ~Clashes(r, d)
          /\ req[r].course # None => course[req[r].course].exists
          /\ \E d \in Deals :
               /\ ~Standing(d) /\ Free(d)
               /\ deal' = [deal EXCEPT ![d] =
                    [state |-> IF req[r].invited THEN "approved" ELSE "requested",
                     provider |-> req[r].pair[1], partner |-> req[r].pair[2],
                     scope |-> req[r].course]]
       \/ UNCHANGED deal
    /\ Finish(r)
    /\ UNCHANGED <<sells, delivers, course, centre, batch, spared>>

\* approve and decline: the row FOR UPDATE, read again, still a request.
Answer(d) ==
    /\ "deal" \in Served
    /\ Free(d) /\ deal[d].state = "requested"
    /\ \E to \in {"approved", "declined"} : deal' = [deal EXCEPT ![d].state = to]
    /\ UNCHANGED <<sells, delivers, course, centre, batch, req, spared>>

\* Slip: a class that has begun is selected too.
UnderBegun(d) ==
    {b \in Batches : /\ Live(b)
                     /\ Deliverer(b) = deal[d].partner
                     /\ Seller[batch[b].course] = deal[d].provider
                     /\ deal[d].scope \in {None, batch[b].course}}

\* What cancel_on_arrangement_ended selects: the partner's batches of the
\* courses in d's scope that have not begun.
Under(d) ==
    {b \in Batches : /\ Cancellable(b)
                     /\ Deliverer(b) = deal[d].partner
                     /\ Seller[batch[b].course] = deal[d].provider
                     /\ deal[d].scope \in {None, batch[b].course}}

\* revoke: the arrangement FOR UPDATE, then a first look at the batches.
Revoke(r) ==
    \E d \in Deals :
        /\ Free(d) /\ deal[d].state = "approved"
        /\ Arrive(r, [Asked("revoke") EXCEPT !.stage = "sweeping", !.deal = d, !.x = {d},
                        !.left = Under(d)])
        /\ UNCHANGED rows

\* Each of them FOR UPDATE; one that no longer qualifies is passed over.
SweepBatch(r) ==
    /\ req[r].stage = "sweeping"
    /\ \E b \in req[r].left :
         /\ Free(b)
         /\ req' = [req EXCEPT ![r].left = @ \ {b},
                      ![r].x = IF b \in Under(req[r].deal) THEN @ \cup {b} ELSE @]
    /\ UNCHANGED rows

\* Those no other arrangement covers.
Doomed(r) ==
    {b \in req[r].x \cap Batches :
        Covering(Deliverer(b), batch[b].course) \subseteq {req[r].deal}}

\* h ends d and has not seen b: it looked at the batches before b was one of them.
EndsUnaware(h, d, b) ==
    req[h].stage = "sweeping" /\ req[h].deal = d /\ b \notin req[h].left \cup req[h].x

\* Those that are covered by nothing but what such requests are ending.  They
\* have not committed, so authorises, which takes no lock here, counts it.
SparedInVain(r) ==
    {b \in (req[r].x \cap Batches) \ Doomed(r) :
        \A d \in Covering(Deliverer(b), batch[b].course) \ {req[r].deal} :
            \E h \in Reqs : EndsUnaware(h, d, b)}

\* The judgement and the commit are one step; what can come between them is in
\* the README.
EndRevoke(r) ==
    /\ req[r].stage = "sweeping" /\ req[r].left = {}
    /\ deal' = [deal EXCEPT ![req[r].deal].state = "revoked"]
    /\ batch' = [b \in Batches |->
                   IF b \in Doomed(r) THEN [batch[b] EXCEPT !.status = "cancelled"] ELSE batch[b]]
    /\ spared' = spared \cup SparedInVain(r)
    /\ Finish(r)
    /\ UNCHANGED <<sells, delivers, course, centre>>
----------------------------------------------------------------------------
(* Batches: planned, published, changed, cancelled, and the days that pass. *)

\* create_batch: the course as it is now, then the centre FOR SHARE, open.
PlanBatch(r) ==
    \E k \in Centres, c \in Courses :
        /\ Available(c)
        /\ centre[k] = "open" /\ Shareable(k)
        /\ Arrive(r, [Asked("plan") EXCEPT !.stage = "placed", !.centre = k, !.course = c,
                        !.s = {k}])
        /\ UNCHANGED rows

\* publish_batch: the batch FOR UPDATE, a draft.
TakeDraft(r) ==
    \E b \in Batches :
        /\ Free(b) /\ batch[b].status = "draft"
        /\ Arrive(r, [Asked("publish") EXCEPT !.stage = "taken", !.batch = b, !.x = {b},
                        !.centre = batch[b].centre, !.course = batch[b].course])
        /\ UNCHANGED rows

\* Slip: whether the centre is open is not asked again.
PlaceDraftAnywhere(r) ==
    /\ req[r].stage = "taken"
    /\ req' = [req EXCEPT ![r].stage = "placed"]
    /\ UNCHANGED rows

\* _lock_centre_open, for a draft that is about to be published.
PlaceDraft(r) ==
    /\ req[r].stage = "taken"
    /\ Shareable(req[r].centre)
    /\ IF centre[req[r].centre] = "open" /\ Available(req[r].course)
       THEN req' = [req EXCEPT ![r].stage = "placed", ![r].s = {req[r].centre}]
       ELSE Finish(r)
    /\ UNCHANGED rows

\* Slip: authorises without its lock.
AuthoriseUnlocked(r) ==
    /\ req[r].stage = "placed"
    /\ IF MayDeliver(Parent[req[r].centre], req[r].course)
       THEN req' = [req EXCEPT ![r].stage = "cleared"]
       ELSE Finish(r)
    /\ UNCHANGED rows

\* _require_may_deliver: every arrangement that covers the course FOR SHARE.
Authorise(r) ==
    /\ req[r].stage = "placed"
    /\ LET o == Parent[req[r].centre]
           cover == IF Seller[req[r].course] = o THEN {} ELSE Covering(o, req[r].course)
       IN /\ \A d \in cover : Shareable(d)
          /\ IF MayDeliver(o, req[r].course)
             THEN req' = [req EXCEPT ![r].stage = "cleared", ![r].s = @ \cup cover]
             ELSE Finish(r)
    /\ UNCHANGED rows

\* add_batch: a draft that begins today or later.  A course that is gone by now
\* is a foreign key's refusal, and so is the cap on live batches.
WriteBatch(r) ==
    /\ req[r].stage = "cleared" /\ req[r].op = "plan"
    /\ \/ /\ course[req[r].course].exists
          /\ \E b \in Batches, first \in {"ahead", "on"} :
               /\ batch[b].status = "none"
               /\ batch' = [batch EXCEPT ![b] = [status |-> "draft", course |-> req[r].course,
                                                 centre |-> req[r].centre, dates |-> first]]
       \/ UNCHANGED batch
    /\ Finish(r)
    /\ UNCHANGED <<sells, delivers, course, centre, deal, spared>>

\* Refused when its first day has passed; "on" may be that day or a later one.
PublishBatch(r) ==
    /\ req[r].stage = "cleared" /\ req[r].op = "publish"
    /\ LET b == req[r].batch
       IN \/ /\ batch[b].dates # "over"
             /\ batch' = [batch EXCEPT ![b].status = "published"]
          \/ /\ batch[b].dates # "ahead"
             /\ UNCHANGED batch
    /\ Finish(r)
    /\ UNCHANGED <<sells, delivers, course, centre, deal, spared>>

\* update_batch: no class has begun, and the new dates are not in the past.
UpdateBatch(b) ==
    /\ "plan" \in Served
    /\ Free(b) /\ Cancellable(b)
    /\ \E first \in {"ahead", "on"} : batch' = [batch EXCEPT ![b].dates = first]
    /\ UNCHANGED <<sells, delivers, course, centre, deal, req, spared>>

CancelBatch(b) ==
    /\ "plan" \in Served
    /\ Free(b) /\ Cancellable(b)
    /\ batch' = [batch EXCEPT ![b].status = "cancelled"]
    /\ UNCHANGED <<sells, delivers, course, centre, deal, req, spared>>

\* A day does not end inside the transaction that holds the batch.
DayPasses(b) ==
    /\ Free(b)
    /\ batch[b].status \in {"draft", "published"} /\ batch[b].dates # "over"
    /\ batch' = [batch EXCEPT ![b].dates = IF @ = "ahead" THEN "on" ELSE "over"]
    /\ UNCHANGED <<sells, delivers, course, centre, deal, req, spared>>
----------------------------------------------------------------------------
(* Centres, and what an organisation does.                                  *)

\* create_centre: lock_delivering_parent, FOR SHARE, the flag read under it.
CreateCentre(k) ==
    /\ "reopen" \in Served
    /\ centre[k] = "unwritten"
    /\ Shareable(Parent[k]) /\ delivers[Parent[k]]
    /\ centre' = [centre EXCEPT ![k] = "open"]
    /\ UNCHANGED <<sells, delivers, course, batch, deal, req, spared>>

\* close_centre: the row locked against planners, then live_at_centre.
CloseCentre(k) ==
    /\ "reopen" \in Served
    /\ centre[k] = "open" /\ Free(k)
    /\ \A b \in Batches : Live(b) => batch[b].centre # k
    /\ centre' = [centre EXCEPT ![k] = "closed"]
    /\ UNCHANGED <<sells, delivers, course, batch, deal, req, spared>>

\* reopen_centre: the flag is read by the route, the row by centre_for, neither
\* of them locked nor read again.
AskReopen(r) ==
    \E k \in Centres :
        /\ centre[k] = "closed" /\ delivers[Parent[k]]
        /\ Arrive(r, [Asked("reopen") EXCEPT !.centre = k])
        /\ UNCHANGED rows

Reopen(r) ==
    /\ req[r].stage = "asked" /\ req[r].op = "reopen"
    /\ Free(req[r].centre)
    /\ centre' = [centre EXCEPT ![req[r].centre] = "open"]
    /\ Finish(r)
    /\ UNCHANGED <<sells, delivers, course, batch, deal, spared>>

\* set_capabilities, under the organisation's ownership lock: one of the two
\* remains, and nothing that is live depends on the one that goes.
NothingSold(o) ==
    /\ \A c \in Courses : Seller[c] = o /\ course[c].exists => ~course[c].published
    /\ \A d \in Deals : Standing(d) => deal[d].provider # o
NothingDelivered(o) ==
    /\ \A k \in Centres : Parent[k] = o => centre[k] # "open"
    /\ \A d \in Deals : Standing(d) => deal[d].partner # o

SetSells(o) ==
    /\ "capability" \in Served /\ <<o, "sells">> \in Switches
    /\ Free(o)
    /\ sells[o] => delivers[o] /\ NothingSold(o)
    /\ sells' = [sells EXCEPT ![o] = ~@]
    /\ UNCHANGED <<delivers, course, centre, batch, deal, req, spared>>

SetDelivers(o) ==
    /\ "capability" \in Served /\ <<o, "delivers">> \in Switches
    /\ Free(o)
    /\ delivers[o] => sells[o] /\ NothingDelivered(o)
    /\ delivers' = [delivers EXCEPT ![o] = ~@]
    /\ UNCHANGED <<sells, course, centre, batch, deal, req, spared>>
----------------------------------------------------------------------------
(* Courses.                                                                 *)

\* set_published: the row as it is now, taken down or not; the UPDATE comes later.
AskPublishCourse(r) ==
    \E c \in Courses :
        /\ course[c].exists /\ ~course[c].taken /\ ~course[c].published
        /\ sells[Seller[c]]
        /\ Arrive(r, [Asked("publish_course") EXCEPT !.course = c])
        /\ UNCHANGED rows

PublishCourse(r) ==
    /\ req[r].stage = "asked" /\ req[r].op = "publish_course"
    /\ course' = [course EXCEPT ![req[r].course].published =
                    course[req[r].course].exists]
    /\ Finish(r)
    /\ UNCHANGED <<sells, delivers, centre, batch, deal, spared>>

UnpublishCourse(c) ==
    /\ "publish_course" \in Served
    /\ course[c].published /\ sells[Seller[c]]
    /\ course' = [course EXCEPT ![c].published = FALSE]
    /\ UNCHANGED <<sells, delivers, centre, batch, deal, req, spared>>

\* take_down and restore of a course, by an operator.
TakeDownCourse(c) ==
    /\ "take_down" \in Served
    /\ course[c].exists /\ ~course[c].taken
    /\ course' = [course EXCEPT ![c].published = FALSE, ![c].taken = TRUE]
    /\ UNCHANGED <<sells, delivers, centre, batch, deal, req, spared>>

RestoreCourse(c) ==
    /\ "take_down" \in Served
    /\ course[c].taken
    /\ course' = [course EXCEPT ![c].taken = FALSE]
    /\ UNCHANGED <<sells, delivers, centre, batch, deal, req, spared>>

\* delete_course: live_for_course is counted, and the row deleted afterwards.
AskDeleteCourse(r) ==
    \E c \in Courses :
        /\ course[c].exists /\ sells[Seller[c]]
        /\ \A b \in Batches : Live(b) => batch[b].course # c
        /\ Arrive(r, [Asked("delete_course") EXCEPT !.course = c])
        /\ UNCHANGED rows

Cascaded(c) ==
    {b \in Batches : batch[b].course = c} \cup {d \in Deals : deal[d].scope = c}

\* Slip: ON DELETE SET NULL where the code has CASCADE.
DeleteCourseKeepingBatches(r) ==
    /\ req[r].stage = "asked" /\ req[r].op = "delete_course"
    /\ LET c == req[r].course
       IN /\ \A row \in Cascaded(c) : Free(row)
          /\ course' = [course EXCEPT ![c] = [exists |-> FALSE, published |-> FALSE, taken |-> FALSE]]
          /\ batch' = [b \in Batches |->
                         IF b \in Cascaded(c) THEN [batch[b] EXCEPT !.course = None] ELSE batch[b]]
          /\ deal' = [d \in Deals |-> IF d \in Cascaded(c) THEN NoDeal ELSE deal[d]]
          /\ spared' = spared \ Cascaded(c)
    /\ Finish(r)
    /\ UNCHANGED <<sells, delivers, centre>>

\* The DELETE waits for the rows that go with it.
DeleteCourse(r) ==
    /\ req[r].stage = "asked" /\ req[r].op = "delete_course"
    /\ LET c == req[r].course
       IN /\ \A row \in Cascaded(c) : Free(row)
          /\ course' = [course EXCEPT ![c] = [exists |-> FALSE, published |-> FALSE, taken |-> FALSE]]
          /\ batch' = [b \in Batches |-> IF b \in Cascaded(c) THEN NoBatch ELSE batch[b]]
          /\ deal' = [d \in Deals |-> IF d \in Cascaded(c) THEN NoDeal ELSE deal[d]]
          /\ spared' = spared \ Cascaded(c)
    /\ Finish(r)
    /\ UNCHANGED <<sells, delivers, centre>>
----------------------------------------------------------------------------
(* Two that wait for each other.                                            *)

\* The rows a request needs next, and needs them from other holders.
Wants(r) ==
    CASE req[r].stage = "sweeping" -> req[r].left
      [] req[r].stage = "placed" -> Covering(Parent[req[r].centre], req[r].course)
      [] req[r].stage = "asked" /\ req[r].op = "delete_course" -> Cascaded(req[r].course)
      [] OTHER -> {}
WaitsFor(r, h) ==
    \E row \in Wants(r) :
        IF req[r].stage = "placed" THEN row \in req[h].x ELSE row \in req[h].x \cup req[h].s

\* A set of requests each of which waits for another of them.
Circle(S) == S # {} /\ \A r \in S : \E h \in S \ {r} : WaitsFor(r, h)

\* PostgreSQL rolls one of them back.
DeadlockVictim(r) ==
    /\ \E S \in SUBSET Reqs : r \in S /\ Circle(S)
    /\ Finish(r)
    /\ UNCHANGED rows
----------------------------------------------------------------------------
Init ==
    /\ sells = [o \in Orgs |-> o \in Sellers0]
    /\ delivers = [o \in Orgs |-> o \in Deliverers0]
    /\ course = [c \in Courses |-> [exists |-> TRUE, published |-> FALSE, taken |-> FALSE]]
    /\ centre = [k \in Centres |-> "unwritten"]
    /\ batch = [b \in Batches |-> NoBatch]
    /\ deal = [d \in Deals |-> NoDeal]
    /\ req = [r \in Reqs |-> Idle]
    /\ spared = {}

Request(r) ==
    \/ AskDeal(r) \/ LockParties(r) \/ MakeDeal(r)
    \/ Revoke(r) \/ SweepBatch(r) \/ EndRevoke(r)
    \/ PlanBatch(r) \/ TakeDraft(r) \/ PlaceDraft(r) \/ Authorise(r)
    \/ WriteBatch(r) \/ PublishBatch(r)
    \/ AskReopen(r) \/ Reopen(r)
    \/ AskPublishCourse(r) \/ PublishCourse(r)
    \/ AskDeleteCourse(r) \/ DeleteCourse(r)
    \/ DeadlockVictim(r)

Next ==
    \/ \E r \in Reqs : Request(r)
    \/ \E d \in Deals : Answer(d)
    \/ \E b \in Batches : UpdateBatch(b) \/ CancelBatch(b) \/ DayPasses(b)
    \/ \E k \in Centres : CreateCentre(k) \/ CloseCentre(k)
    \/ \E o \in Orgs : SetSells(o) \/ SetDelivers(o)
    \/ \E c \in Courses : UnpublishCourse(c) \/ TakeDownCourse(c) \/ RestoreCourse(c)

Spec == Init /\ [][Next]_vars
----------------------------------------------------------------------------
(* Properties.                                                              *)

\* Every batch that is planned and has not begun is of a course its organisation
\* owns or holds an approved arrangement for, whatever revocations, approvals
\* and plans overlapped (ADR-103; delivery.authorises and the revocation's sweep).
\* The one way out: two arrangements that cover a batch are ended at once, and
\* the sweep that holds the batch leaves it to the arrangement whose own sweep
\* had looked before the batch was planned (cancel_on_arrangement_ended, which
\* asks authorises without a lock).
OpenBatchesAreCovered ==
    \A b \in Batches :
        Cancellable(b) => MayDeliver(Deliverer(b), batch[b].course) \/ b \in spared

\* Without that exception, as authorises' comment has it ("and is cancelled by
\* it").  The code does not keep it.
EveryOpenBatchIsCovered ==
    \A b \in Batches : Cancellable(b) => MayDeliver(Deliverer(b), batch[b].course)

\* A published batch that is not over is at a centre that is open: the planner's
\* FOR SHARE against close_centre's count.
ClassesHaveACentre ==
    \A b \in Batches : batch[b].status = "published" /\ Live(b) => centre[batch[b].centre] = "open"

\* An arrangement somebody asked for or approved is between an organisation that
\* sells and one that delivers: _lock_parties against set_capabilities.
DealsHaveParties ==
    \A d \in Deals : Standing(d) => sells[deal[d].provider] /\ delivers[deal[d].partner]

\* What the two sides promise together: rights and batches move as in Standing,
\* with the same exception, the batches spared in vain (spared, by its name).
Promised == INSTANCE Standing WITH
    Rights <- Orgs \X Courses,
    may <- {right \in Orgs \X Courses : MayDeliver(right[1], right[2])},
    rests <- [b \in Batches |-> IF batch[b].status = "none" THEN None
                                ELSE <<Deliverer(b), batch[b].course>>],
    life <- [b \in Batches |->
               CASE batch[b].status = "none" -> "none"
                 [] batch[b].status = "cancelled" -> "gone"
                 [] Cancellable(b) -> "open"
                 [] OTHER -> "held"]
Promise == Promised!Spec

\* Never from under live work: capabilities.py's docstring, of centres and of
\* published courses.
NeverFromUnderLiveWork ==
    /\ \A k \in Centres : centre[k] = "open" => delivers[Parent[k]]
    /\ \A c \in Courses : course[c].published => sells[Seller[c]]
============================================================================

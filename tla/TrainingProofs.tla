--------------------------- MODULE TrainingProofs ---------------------------
(***************************************************************************)
(* What TLAPS proves of Training, for any number of organisations, courses, *)
(* centres, batches, arrangements and requests.                             *)
(***************************************************************************)
EXTENDS Training, TLAPS

----------------------------------------------------------------------------
(* The inductive invariant.                                                 *)

\* A row held FOR UPDATE is held by nobody else in any way.
LocksApart ==
    \A r, h \in Reqs : r # h => req[r].x \cap (req[h].x \cup req[h].s) = {}

\* What a request goes by is so: it was read under locks that it still holds.
Sound(r) ==
    /\ req[r].stage = "asked" /\ req[r].op = "deal" => req[r].pair \in Pairs
    /\ req[r].stage = "locked" =>
         /\ req[r].pair \in Pairs /\ {req[r].pair[1], req[r].pair[2]} \subseteq req[r].s
         /\ sells[req[r].pair[1]] /\ delivers[req[r].pair[2]]
    /\ req[r].stage \in {"taken", "placed", "cleared"} =>
         /\ req[r].centre \in Centres /\ req[r].course \in Courses
         /\ req[r].op \in {"plan", "publish"}
         /\ req[r].op = "publish" =>
              /\ req[r].batch \in Batches /\ req[r].batch \in req[r].x
              /\ batch[req[r].batch].status = "draft"
              /\ batch[req[r].batch].centre = req[r].centre
              /\ batch[req[r].batch].course = req[r].course
    /\ req[r].stage \in {"placed", "cleared"} =>
         req[r].centre \in req[r].s /\ centre[req[r].centre] = "open"
    /\ req[r].stage = "cleared" =>
         \/ Seller[req[r].course] = Parent[req[r].centre]
         \/ \E d \in req[r].s : d \in Covering(Parent[req[r].centre], req[r].course)
    /\ req[r].stage = "sweeping" =>
         /\ req[r].deal \in Deals /\ req[r].deal \in req[r].x
         /\ deal[req[r].deal].state = "approved"
         /\ \A b \in req[r].x \cap Batches : b \in Under(req[r].deal)
    /\ \A b \in req[r].x \cap Batches : batch[b].status # "none"
    /\ req[r].stage = "asked" /\ req[r].op = "reopen" => req[r].centre \in Centres
    /\ req[r].stage = "asked" /\ req[r].op \in {"publish_course", "delete_course"} =>
         req[r].course \in Courses

\* An arrangement is between two that may deal with each other.
DealsArePairs ==
    \A d \in Deals : Standing(d) => <<deal[d].provider, deal[d].partner>> \in Pairs

Base == /\ TypeOK /\ LocksApart /\ DealsArePairs /\ DealsHaveParties /\ ClassesHaveACentre
        /\ \A r \in Reqs : Sound(r)

----------------------------------------------------------------------------
(* What steps have in common.                                               *)

\* A request has its fields, or is idle and holds nothing.
LEMMA Shape ==
    ASSUME TypeOK, NEW r \in Reqs
    PROVE  /\ req[r] = Idle \/ req[r] \in Requests
           /\ req[r].stage # "idle" => req[r] \in Requests
           /\ req[r].stage = "idle" => req[r] = Idle
  BY DEF TypeOK, Requests, Stages, Idle

\* No row of these is touched by a step: those r holds.
Untouched(r) ==
    /\ \A o \in Orgs : o \in req[r].s => sells'[o] = sells[o] /\ delivers'[o] = delivers[o]
    /\ \A k \in Centres : k \in req[r].s /\ centre[k] = "open" => centre'[k] = "open"
    /\ \A b \in Batches : b \in req[r].x => batch'[b] = batch[b]
    /\ \A d \in Deals : d \in req[r].x \cup req[r].s => deal'[d] = deal[d]

LEMMA SoundStays ==
    ASSUME TypeOK, NEW r \in Reqs, Sound(r), req'[r] = req[r], Untouched(r)
    PROVE  Sound(r)'
  <1>0. \A b \in req[r].x \cap Batches : batch'[b].status # "none"
    BY DEF Sound, Untouched
  <1>1. CASE req[r].stage = "locked"
    <2>1. req[r].pair[1] \in Orgs /\ req[r].pair[2] \in Orgs
      BY <1>1, PairsAreTwo DEF Sound
    <2>2. sells'[req[r].pair[1]] /\ delivers'[req[r].pair[2]]
      BY <1>1, <2>1 DEF Sound, Untouched
    <2> QED BY <1>0, <1>1, <2>2 DEF Sound
  <1>2. CASE req[r].stage \in {"taken", "placed", "cleared"}
    <2>1. req[r].op = "publish" => batch'[req[r].batch] = batch[req[r].batch]
      BY <1>2 DEF Sound, Untouched
    <2>2. req[r].stage \in {"placed", "cleared"} => centre'[req[r].centre] = "open"
      BY <1>2 DEF Sound, Untouched
    <2>3. ASSUME req[r].stage = "cleared", Seller[req[r].course] # Parent[req[r].centre]
          PROVE  \E d \in req[r].s : d \in Covering(Parent[req[r].centre], req[r].course)'
      <3>1. PICK d \in req[r].s : d \in Covering(Parent[req[r].centre], req[r].course)
        BY <2>3 DEF Sound
      <3>2. d \in Deals /\ deal'[d] = deal[d]
        BY <3>1 DEF Covering, Untouched
      <3> QED BY <3>1, <3>2 DEF Covering
    <2> QED BY <1>0, <1>2, <2>1, <2>2, <2>3 DEF Sound
  <1>3. CASE req[r].stage = "sweeping"
    <2>1. deal'[req[r].deal] = deal[req[r].deal]
      BY <1>3 DEF Sound, Untouched
    <2>2. \A b \in req[r].x \cap Batches : b \in Under(req[r].deal) /\ batch'[b] = batch[b]
      BY <1>3 DEF Sound, Untouched
    <2>3. \A b \in req[r].x \cap Batches : b \in Under(req[r].deal)'
      BY <2>1, <2>2 DEF Under, Cancellable, Deliverer
    <2> QED BY <1>0, <1>3, <2>1, <2>3 DEF Sound
  <1>4. CASE req[r].stage \notin {"locked", "taken", "placed", "cleared", "sweeping"}
    BY <1>0, <1>4 DEF Sound
  <1> QED BY <1>1, <1>2, <1>3, <1>4

\* Nothing is expected of an idle request.
LEMMA IdleIsSound ==
    ASSUME NEW r \in Reqs, req'[r] = Idle
    PROVE  Sound(r)' /\ req'[r].x = {} /\ req'[r].s = {}
  BY DEF Sound, Idle

\* A step of one request that changes no row.
LEMMA RequestStep ==
    ASSUME Base, UNCHANGED rows, NEW r \in Reqs,
           req' \in [Reqs -> Requests \cup {Idle}],
           \A h \in Reqs : h # r => req'[h] = req[h],
           \A h \in Reqs : h # r => /\ req'[r].x \cap (req[h].x \cup req[h].s) = {}
                                    /\ req'[r].s \cap req[h].x = {},
           Sound(r)'
    PROVE  Base'
  <1>1. TypeOK'
    BY DEF Base, TypeOK, rows
  <1>2. LocksApart'
    BY DEF Base, LocksApart
  <1>3. \A h \in Reqs : h # r => Sound(h)'
    BY SoundStays DEF Base, Untouched, rows
  <1>4. DealsArePairs' /\ DealsHaveParties' /\ ClassesHaveACentre'
    BY DEF Base, rows, DealsArePairs, DealsHaveParties, ClassesHaveACentre, Standing, Live
  <1> QED BY <1>1, <1>2, <1>3, <1>4 DEF Base

\* A step that writes rows: requests end, or go on with what they hold untouched.
LEMMA RowStep ==
    ASSUME Base, TypeOK', DealsArePairs', DealsHaveParties', ClassesHaveACentre',
           \A h \in Reqs : req'[h] = Idle \/ (req'[h] = req[h] /\ Untouched(h))
    PROVE  Base'
  <1>1. \A h \in Reqs : Sound(h)'
    BY SoundStays, IdleIsSound DEF Base
  <1>2. \A h \in Reqs : /\ req'[h].x \subseteq req[h].x
                        /\ req'[h].s \subseteq req[h].s
    BY IdleIsSound
  <1>3. LocksApart'
    BY <1>2 DEF Base, LocksApart
  <1> QED BY <1>1, <1>3 DEF Base

\* A request that finishes leaves the others as they are.
LEMMA Finishes ==
    ASSUME TypeOK, NEW r \in Reqs, Finish(r)
    PROVE  /\ req'[r] = Idle /\ \A h \in Reqs : h # r => req'[h] = req[h]
           /\ req' \in [Reqs -> Requests \cup {Idle}]
  BY DEF Finish, TypeOK

\* Refused, or rolled back.
LEMMA FinishStep ==
    ASSUME Base, NEW r \in Reqs, Finish(r), UNCHANGED rows
    PROVE  Base'
  <1>1. /\ req'[r] = Idle /\ \A h \in Reqs : h # r => req'[h] = req[h]
        /\ req' \in [Reqs -> Requests \cup {Idle}]
    BY Finishes DEF Base
  <1>2. Sound(r)' /\ req'[r].x = {} /\ req'[r].s = {}
    BY <1>1, IdleIsSound
  <1> QED BY <1>1, <1>2, RequestStep

----------------------------------------------------------------------------
(* Requests that only read and lock.                                        *)

LEMMA AskDealStep == ASSUME Base, NEW r \in Reqs, AskDeal(r) PROVE Base'
  <1>1. PICK pair \in Pairs, scope \in Courses \cup {None}, invited \in BOOLEAN :
          /\ req' = [req EXCEPT ![r] = [Asked("deal") EXCEPT !.pair = pair, !.course = scope,
                                                          !.invited = invited]]
          /\ UNCHANGED rows
    BY DEF AskDeal, Arrive
  <1>2. req \in [Reqs -> Requests \cup {Idle}]
    BY DEF Base, TypeOK
  <1>3. /\ req'[r] = [Asked("deal") EXCEPT !.pair = pair, !.course = scope, !.invited = invited]
        /\ \A h \in Reqs : h # r => req'[h] = req[h]
    BY <1>1, <1>2
  <1>4. /\ req'[r] \in Requests /\ req'[r].x = {} /\ req'[r].s = {}
        /\ req'[r].stage = "asked" /\ req'[r].op = "deal" /\ req'[r].pair \in Pairs
    BY <1>3 DEF Asked, Requests, Stages
  <1>5. req' \in [Reqs -> Requests \cup {Idle}]
    BY <1>1, <1>2, <1>3, <1>4
  <1>6. Sound(r)'
    BY <1>4 DEF Sound
  <1> QED BY <1>1, <1>3, <1>4, <1>5, <1>6, RequestStep

LEMMA LockPartiesStep == ASSUME Base, NEW r \in Reqs, LockParties(r) PROVE Base'
  <1>1. CASE Finish(r)
    BY <1>1, FinishStep DEF LockParties
  <1>2. CASE ~Finish(r)
    <2> DEFINE parties == {req[r].pair[1], req[r].pair[2]}
    <2>1. /\ req[r].stage = "asked" /\ req[r].op = "deal" /\ UNCHANGED rows
          /\ \A o \in parties : Shareable(o)
          /\ sells[req[r].pair[1]] /\ delivers[req[r].pair[2]]
          /\ req' = [req EXCEPT ![r].stage = "locked", ![r].s = parties]
      BY <1>2 DEF LockParties
    <2>2. req \in [Reqs -> Requests \cup {Idle}] /\ req[r] \in Requests
      BY <2>1, Shape DEF Base, TypeOK
    <2>3. req[r].pair \in Pairs /\ req[r].pair[1] \in Orgs /\ req[r].pair[2] \in Orgs
      BY <2>1, PairsAreTwo DEF Base, Sound
    <2>4. /\ req'[r] = [req[r] EXCEPT !.stage = "locked", !.s = parties]
          /\ \A h \in Reqs : h # r => req'[h] = req[h]
      BY <2>1, <2>2
    <2>5. parties \in SUBSET Rows
      BY <2>3 DEF Rows
    <2> HIDE DEF parties
    <2>6. /\ req'[r] \in Requests /\ req'[r].x = req[r].x /\ req'[r].s = parties
          /\ req'[r].stage = "locked" /\ req'[r].pair = req[r].pair
      BY <2>2, <2>4, <2>5 DEF Requests, Stages
    <2>7. req' \in [Reqs -> Requests \cup {Idle}]
      BY <2>1, <2>2, <2>4, <2>6
    <2>8. \A h \in Reqs : h # r => parties \cap req[h].x = {}
      BY <2>1 DEF Shareable
    <2>9. \A h \in Reqs : h # r => req'[r].x \cap (req[h].x \cup req[h].s) = {}
      BY <2>6 DEF Base, LocksApart
    <2>10. Sound(r)'
      <3>1. sells'[req[r].pair[1]] /\ delivers'[req[r].pair[2]]
        BY <2>1 DEF rows
      <3>2. \A b \in req[r].x \cap Batches : batch'[b].status # "none"
        BY <2>1 DEF Base, Sound, rows
      <3> QED BY <2>3, <2>6, <3>1, <3>2 DEF Sound, parties
    <2> QED BY <2>1, <2>4, <2>6, <2>7, <2>8, <2>9, <2>10, RequestStep
  <1> QED BY <1>1, <1>2

LEMMA RevokeStep == ASSUME Base, NEW r \in Reqs, Revoke(r) PROVE Base'
  <1>1. PICK d \in Deals :
          /\ Free(d) /\ deal[d].state = "approved" /\ UNCHANGED rows
          /\ req' = [req EXCEPT ![r] = [Asked("revoke") EXCEPT !.stage = "sweeping", !.deal = d,
                                          !.x = {d}, !.left = Under(d)]]
    BY DEF Revoke, Arrive
  <1>2. req \in [Reqs -> Requests \cup {Idle}]
    BY DEF Base, TypeOK
  <1>3. /\ req'[r] = [Asked("revoke") EXCEPT !.stage = "sweeping", !.deal = d,
                        !.x = {d}, !.left = Under(d)]
        /\ \A h \in Reqs : h # r => req'[h] = req[h]
    BY <1>1, <1>2
  <1>4. Under(d) \in SUBSET Batches /\ {d} \in SUBSET Rows
    BY DEF Under, Rows
  <1>5. /\ req'[r] \in Requests /\ req'[r].x = {d} /\ req'[r].s = {}
        /\ req'[r].stage = "sweeping" /\ req'[r].deal = d
    BY <1>3, <1>4 DEF Asked, Requests, Stages
  <1>6. req' \in [Reqs -> Requests \cup {Idle}]
    BY <1>1, <1>2, <1>3, <1>5
  <1>7. Sound(r)'
    <2>1. d \notin Batches
      BY KindsDiffer
    <2> QED BY <1>1, <1>5, <2>1 DEF Sound, rows
  <1>8. \A h \in Reqs : d \notin req[h].x \cup req[h].s
    BY <1>1 DEF Free
  <1> QED BY <1>1, <1>3, <1>5, <1>6, <1>7, <1>8, RequestStep

LEMMA SweepBatchStep == ASSUME Base, NEW r \in Reqs, SweepBatch(r) PROVE Base'
  <1>1. PICK b \in req[r].left :
          /\ req[r].stage = "sweeping" /\ Free(b) /\ UNCHANGED rows
          /\ req' = [req EXCEPT ![r].left = @ \ {b},
                       ![r].x = IF b \in Under(req[r].deal) THEN @ \cup {b} ELSE @]
    BY DEF SweepBatch
  <1>2. req \in [Reqs -> Requests \cup {Idle}] /\ req[r] \in Requests
    BY <1>1, Shape DEF Base, TypeOK
  <1> DEFINE x == IF b \in Under(req[r].deal) THEN req[r].x \cup {b} ELSE req[r].x
  <1>3. /\ req'[r] = [req[r] EXCEPT !.left = @ \ {b}, !.x = x]
        /\ \A h \in Reqs : h # r => req'[h] = req[h]
    BY <1>1, <1>2
  <1>4. b \in Batches /\ req[r].left \in SUBSET Batches
    BY <1>2 DEF Requests
  <1>5. x \in SUBSET Rows /\ x \subseteq req[r].x \cup {b} /\ req[r].x \subseteq x
        /\ (b \in x => b \in Under(req[r].deal) \/ b \in req[r].x)
    BY <1>2, <1>4 DEF Requests, Rows
  <1> HIDE DEF x
  <1>6. /\ req'[r] \in Requests /\ req'[r].x = x /\ req'[r].s = req[r].s
        /\ req'[r].stage = "sweeping" /\ req'[r].deal = req[r].deal
    BY <1>1, <1>2, <1>3, <1>4, <1>5 DEF Requests
  <1>7. req' \in [Reqs -> Requests \cup {Idle}]
    BY <1>1, <1>2, <1>3, <1>6
  <1>8. \A h \in Reqs : h # r => /\ x \cap (req[h].x \cup req[h].s) = {}
                                 /\ req[r].s \cap req[h].x = {}
    BY <1>1, <1>5 DEF Free, Base, LocksApart
  <1>9. Sound(r)'
    <2>1. req[r].deal \in Deals /\ req[r].deal \in req[r].x /\ deal[req[r].deal].state = "approved"
          /\ \A a \in req[r].x \cap Batches : a \in Under(req[r].deal)
      BY <1>1 DEF Base, Sound
    <2>2. deal' = deal /\ batch' = batch
      BY <1>1 DEF rows
    <2>3. \A a \in Batches : a \in x => a \in Under(req[r].deal)
      BY <1>5, <2>1
    <2>4. Under(req[r].deal)' = Under(req[r].deal)
      BY <1>6, <2>2 DEF Under, Cancellable, Deliverer
    <2>5. \A a \in Batches : a \in x => batch[a].status # "none"
      BY <2>3 DEF Under, Cancellable
    <2> QED BY <1>5, <1>6, <2>1, <2>2, <2>3, <2>4, <2>5 DEF Sound
  <1> QED BY <1>1, <1>3, <1>6, <1>7, <1>8, <1>9, RequestStep

LEMMA PlanBatchStep == ASSUME Base, NEW r \in Reqs, PlanBatch(r) PROVE Base'
  <1>1. PICK k \in Centres, c \in Courses :
          /\ centre[k] = "open" /\ Shareable(k) /\ UNCHANGED rows
          /\ req' = [req EXCEPT ![r] = [Asked("plan") EXCEPT !.stage = "placed", !.centre = k,
                                          !.course = c, !.s = {k}]]
    BY DEF PlanBatch, Arrive
  <1>2. req \in [Reqs -> Requests \cup {Idle}]
    BY DEF Base, TypeOK
  <1>3. /\ req'[r] = [Asked("plan") EXCEPT !.stage = "placed", !.centre = k, !.course = c, !.s = {k}]
        /\ \A h \in Reqs : h # r => req'[h] = req[h]
    BY <1>1, <1>2
  <1>a. {k} \in SUBSET Rows
    BY DEF Rows
  <1>4. /\ req'[r] \in Requests /\ req'[r].x = {} /\ req'[r].s = {k}
        /\ req'[r].stage = "placed" /\ req'[r].op = "plan"
        /\ req'[r].centre = k /\ req'[r].course = c
    BY <1>3, <1>a DEF Asked, Requests, Stages
  <1>5. req' \in [Reqs -> Requests \cup {Idle}]
    BY <1>1, <1>2, <1>3, <1>4
  <1>6. Sound(r)'
    BY <1>1, <1>4 DEF Sound, rows
  <1>7. \A h \in Reqs : k \notin req[h].x
    BY <1>1 DEF Shareable
  <1> QED BY <1>1, <1>3, <1>4, <1>5, <1>6, <1>7, RequestStep

LEMMA TakeDraftStep == ASSUME Base, NEW r \in Reqs, TakeDraft(r) PROVE Base'
  <1>1. PICK b \in Batches :
          /\ Free(b) /\ batch[b].status = "draft" /\ UNCHANGED rows
          /\ req' = [req EXCEPT ![r] = [Asked("publish") EXCEPT !.stage = "taken", !.batch = b,
                       !.x = {b}, !.centre = batch[b].centre, !.course = batch[b].course]]
    BY DEF TakeDraft, Arrive
  <1>2. req \in [Reqs -> Requests \cup {Idle}]
    BY DEF Base, TypeOK
  <1>3. /\ req'[r] = [Asked("publish") EXCEPT !.stage = "taken", !.batch = b,
                       !.x = {b}, !.centre = batch[b].centre, !.course = batch[b].course]
        /\ \A h \in Reqs : h # r => req'[h] = req[h]
    BY <1>1, <1>2
  <1>4. batch[b].centre \in Centres /\ batch[b].course \in Courses
    BY <1>1 DEF Base, TypeOK, BatchRows, NoBatch
  <1>a. {b} \in SUBSET Rows
    BY DEF Rows
  <1>5. /\ req'[r] \in Requests /\ req'[r].x = {b} /\ req'[r].s = {}
        /\ req'[r].stage = "taken" /\ req'[r].op = "publish" /\ req'[r].batch = b
        /\ req'[r].centre = batch[b].centre /\ req'[r].course = batch[b].course
    BY <1>3, <1>4, <1>a DEF Asked, Requests, Stages
  <1>6. req' \in [Reqs -> Requests \cup {Idle}]
    BY <1>1, <1>2, <1>3, <1>5
  <1>7. Sound(r)'
    BY <1>1, <1>4, <1>5 DEF Sound, rows
  <1>8. \A h \in Reqs : b \notin req[h].x \cup req[h].s
    BY <1>1 DEF Free
  <1> QED BY <1>1, <1>3, <1>5, <1>6, <1>7, <1>8, RequestStep

LEMMA PlaceDraftStep == ASSUME Base, NEW r \in Reqs, PlaceDraft(r) PROVE Base'
  <1>1. CASE Finish(r)
    BY <1>1, FinishStep DEF PlaceDraft
  <1>2. CASE ~Finish(r)
    <2>1. /\ req[r].stage = "taken" /\ UNCHANGED rows
          /\ Shareable(req[r].centre) /\ centre[req[r].centre] = "open"
          /\ req' = [req EXCEPT ![r].stage = "placed", ![r].s = {req[r].centre}]
      BY <1>2 DEF PlaceDraft
    <2>2. req \in [Reqs -> Requests \cup {Idle}] /\ req[r] \in Requests
      BY <2>1, Shape DEF Base, TypeOK
    <2>3. /\ req'[r] = [req[r] EXCEPT !.stage = "placed", !.s = {req[r].centre}]
          /\ \A h \in Reqs : h # r => req'[h] = req[h]
      BY <2>1, <2>2
    <2>4. req[r].centre \in Centres
      BY <2>1 DEF Base, Sound
    <2>a. {req[r].centre} \in SUBSET Rows
      BY <2>4 DEF Rows
    <2>5. /\ req'[r] \in Requests /\ req'[r].x = req[r].x /\ req'[r].s = {req[r].centre}
          /\ req'[r].stage = "placed" /\ req'[r].op = req[r].op /\ req'[r].batch = req[r].batch
          /\ req'[r].centre = req[r].centre /\ req'[r].course = req[r].course
      BY <2>2, <2>3, <2>4, <2>a DEF Requests, Stages
    <2>6. req' \in [Reqs -> Requests \cup {Idle}]
      BY <2>1, <2>2, <2>3, <2>5
    <2>7. Sound(r)'
      <3>1. batch' = batch /\ centre' = centre
        BY <2>1 DEF rows
      <3>2. Sound(r)
        BY DEF Base
      <3>3. \A b \in req[r].x \cap Batches : batch'[b].status # "none"
        BY <3>1, <3>2 DEF Sound
      <3>4. req[r].op = "publish" => /\ req[r].batch \in Batches /\ req[r].batch \in req[r].x
                                     /\ batch[req[r].batch].status = "draft"
                                     /\ batch[req[r].batch].centre = req[r].centre
                                     /\ batch[req[r].batch].course = req[r].course
        BY <2>1, <3>2 DEF Sound
      <3>5. req[r].centre \in Centres /\ req[r].course \in Courses
            /\ req[r].op \in {"plan", "publish"}
        BY <2>1, <3>2 DEF Sound
      <3> QED BY <2>1, <2>5, <3>1, <3>3, <3>4, <3>5 DEF Sound
    <2>8. \A h \in Reqs : h # r => /\ req[r].x \cap (req[h].x \cup req[h].s) = {}
                                   /\ req[r].centre \notin req[h].x
      BY <2>1 DEF Shareable, Base, LocksApart
    <2> QED BY <2>1, <2>3, <2>5, <2>6, <2>7, <2>8, RequestStep
  <1> QED BY <1>1, <1>2

LEMMA AuthoriseStep == ASSUME Base, NEW r \in Reqs, Authorise(r) PROVE Base'
  <1>1. CASE Finish(r)
    BY <1>1, FinishStep DEF Authorise
  <1>2. CASE ~Finish(r)
    <2> DEFINE o == Parent[req[r].centre]
               cover == IF Seller[req[r].course] = o THEN {} ELSE Covering(o, req[r].course)
    <2>1. /\ req[r].stage = "placed" /\ UNCHANGED rows
          /\ \A d \in cover : Shareable(d)
          /\ MayDeliver(o, req[r].course)
          /\ req' = [req EXCEPT ![r].stage = "cleared", ![r].s = @ \cup cover]
      BY <1>2 DEF Authorise
    <2>2. req \in [Reqs -> Requests \cup {Idle}] /\ req[r] \in Requests
      BY <2>1, Shape DEF Base, TypeOK
    <2>3. /\ req'[r] = [req[r] EXCEPT !.stage = "cleared", !.s = @ \cup cover]
          /\ \A h \in Reqs : h # r => req'[h] = req[h]
      BY <2>1, <2>2
    <2>4. cover \in SUBSET Rows
      BY DEF Covering, Rows
    <2>5. Seller[req[r].course] # o => \E d \in cover : d \in Covering(o, req[r].course)
      BY <2>1 DEF MayDeliver
    <2> HIDE DEF cover, o
    <2>6. /\ req'[r] \in Requests /\ req'[r].x = req[r].x /\ req'[r].s = req[r].s \cup cover
          /\ req'[r].stage = "cleared" /\ req'[r].op = req[r].op /\ req'[r].batch = req[r].batch
          /\ req'[r].centre = req[r].centre /\ req'[r].course = req[r].course
      BY <2>2, <2>3, <2>4 DEF Requests, Stages
    <2>7. req' \in [Reqs -> Requests \cup {Idle}]
      BY <2>1, <2>2, <2>3, <2>6
    <2>8. Covering(o, req[r].course)' = Covering(o, req[r].course)
      BY <2>1, <2>6 DEF Covering, rows, o
    <2>9. Sound(r)'
      <3>1. Sound(r) /\ batch' = batch /\ centre' = centre
        BY <2>1 DEF Base, rows
      <3>2. \A b \in req[r].x \cap Batches : batch'[b].status # "none"
        BY <3>1 DEF Sound
      <3>3. req[r].centre \in req[r].s /\ centre[req[r].centre] = "open"
        BY <2>1, <3>1 DEF Sound
      <3>4. /\ req[r].centre \in Centres /\ req[r].course \in Courses
            /\ req[r].op \in {"plan", "publish"}
            /\ req[r].op = "publish" => /\ req[r].batch \in Batches /\ req[r].batch \in req[r].x
                                       /\ batch[req[r].batch].status = "draft"
                                       /\ batch[req[r].batch].centre = req[r].centre
                                       /\ batch[req[r].batch].course = req[r].course
        BY <2>1, <3>1 DEF Sound
      <3>5. \/ Seller[req[r].course] = Parent[req[r].centre]
            \/ \E d \in req'[r].s : d \in Covering(Parent[req[r].centre], req[r].course)'
        BY <2>5, <2>6, <2>8 DEF o
      <3> QED BY <2>6, <3>1, <3>2, <3>3, <3>4, <3>5 DEF Sound
    <2>10. \A h \in Reqs : h # r => /\ req[r].x \cap (req[h].x \cup req[h].s) = {}
                                    /\ (req[r].s \cup cover) \cap req[h].x = {}
      BY <2>1 DEF Shareable, Base, LocksApart
    <2> QED BY <2>1, <2>3, <2>6, <2>7, <2>9, <2>10, RequestStep
  <1> QED BY <1>1, <1>2

\* A request that has asked for something, and holds nothing yet.
LEMMA AskedStep ==
    ASSUME Base, NEW r \in Reqs, UNCHANGED rows,
           req'[r] \in Requests, req' = [req EXCEPT ![r] = req'[r]],
           req'[r].x = {}, req'[r].s = {}, req'[r].stage = "asked", req'[r].op # "deal",
           req'[r].op = "reopen" => req'[r].centre \in Centres,
           req'[r].op \in {"publish_course", "delete_course"} => req'[r].course \in Courses
    PROVE  Base'
  <1>1. req \in [Reqs -> Requests \cup {Idle}]
    BY DEF Base, TypeOK
  <1>2. req' \in [Reqs -> Requests \cup {Idle}] /\ \A h \in Reqs : h # r => req'[h] = req[h]
    BY <1>1
  <1>3. Sound(r)'
    BY DEF Sound
  <1> QED BY <1>2, <1>3, RequestStep

LEMMA AskStep ==
    ASSUME Base, NEW r \in Reqs, AskReopen(r) \/ AskPublishCourse(r) \/ AskDeleteCourse(r)
    PROVE  Base'
  <1>1. req \in [Reqs -> Requests \cup {Idle}]
    BY DEF Base, TypeOK
  <1>2. CASE AskReopen(r)
    <2>1. PICK k \in Centres :
            req' = [req EXCEPT ![r] = [Asked("reopen") EXCEPT !.centre = k]] /\ UNCHANGED rows
      BY <1>2 DEF AskReopen, Arrive
    <2>2. req'[r] = [Asked("reopen") EXCEPT !.centre = k] /\ req' = [req EXCEPT ![r] = req'[r]]
      BY <1>1, <2>1
    <2>3. /\ req'[r] \in Requests /\ req'[r].x = {} /\ req'[r].s = {}
          /\ req'[r].stage = "asked" /\ req'[r].op = "reopen" /\ req'[r].centre = k
      BY <2>2 DEF Asked, Requests, Stages
    <2> QED BY <2>1, <2>2, <2>3, AskedStep
  <1>3. CASE AskPublishCourse(r)
    <2>1. PICK c \in Courses :
            req' = [req EXCEPT ![r] = [Asked("publish_course") EXCEPT !.course = c]]
            /\ UNCHANGED rows
      BY <1>3 DEF AskPublishCourse, Arrive
    <2>2. /\ req'[r] = [Asked("publish_course") EXCEPT !.course = c]
          /\ req' = [req EXCEPT ![r] = req'[r]]
      BY <1>1, <2>1
    <2>3. /\ req'[r] \in Requests /\ req'[r].x = {} /\ req'[r].s = {}
          /\ req'[r].stage = "asked" /\ req'[r].op = "publish_course" /\ req'[r].course = c
      BY <2>2 DEF Asked, Requests, Stages
    <2> QED BY <2>1, <2>2, <2>3, AskedStep
  <1>4. CASE AskDeleteCourse(r)
    <2>1. PICK c \in Courses :
            req' = [req EXCEPT ![r] = [Asked("delete_course") EXCEPT !.course = c]]
            /\ UNCHANGED rows
      BY <1>4 DEF AskDeleteCourse, Arrive
    <2>2. /\ req'[r] = [Asked("delete_course") EXCEPT !.course = c]
          /\ req' = [req EXCEPT ![r] = req'[r]]
      BY <1>1, <2>1
    <2>3. /\ req'[r] \in Requests /\ req'[r].x = {} /\ req'[r].s = {}
          /\ req'[r].stage = "asked" /\ req'[r].op = "delete_course" /\ req'[r].course = c
      BY <2>2 DEF Asked, Requests, Stages
    <2> QED BY <2>1, <2>2, <2>3, AskedStep
  <1> QED BY <1>2, <1>3, <1>4

----------------------------------------------------------------------------
(* Steps that write arrangements.                                           *)

LEMMA MakeDealStep == ASSUME Base, NEW r \in Reqs, MakeDeal(r) PROVE Base'
  <1>1. CASE UNCHANGED deal
    BY <1>1, FinishStep DEF MakeDeal, rows
  <1>2. CASE ~UNCHANGED deal
    <2>1. PICK d \in Deals :
            /\ ~Standing(d) /\ Free(d)
            /\ deal' = [deal EXCEPT ![d] =
                 [state |-> IF req[r].invited THEN "approved" ELSE "requested",
                  provider |-> req[r].pair[1], partner |-> req[r].pair[2],
                  scope |-> req[r].course]]
      BY <1>2 DEF MakeDeal
    <2>2. /\ req[r].stage = "locked" /\ Finish(r)
          /\ UNCHANGED <<sells, delivers, course, centre, batch, spared>>
      BY DEF MakeDeal
    <2>3. /\ req'[r] = Idle /\ \A h \in Reqs : h # r => req'[h] = req[h]
          /\ req' \in [Reqs -> Requests \cup {Idle}]
      BY <2>2, Finishes DEF Base
    <2>4. /\ req[r].pair \in Pairs /\ req[r].pair[1] \in Orgs /\ req[r].pair[2] \in Orgs
          /\ <<req[r].pair[1], req[r].pair[2]>> = req[r].pair
          /\ sells[req[r].pair[1]] /\ delivers[req[r].pair[2]]
          /\ req[r].course \in Courses \cup {None}
      <3>1. req[r].pair \in Pairs /\ sells[req[r].pair[1]] /\ delivers[req[r].pair[2]]
        BY <2>2 DEF Base, Sound
      <3>2. req[r].pair \in Orgs \X Orgs
        BY <3>1, PairsAreTwo
      <3>3. req[r].course \in Courses \cup {None}
        BY <2>2, Shape DEF Base, Requests
      <3> QED BY <3>1, <3>2, <3>3
    <2>5. deal \in [Deals -> DealRows \cup {NoDeal}]
      BY DEF Base, TypeOK
    <2>6. /\ deal'[d] \in DealRows
          /\ deal'[d].provider = req[r].pair[1] /\ deal'[d].partner = req[r].pair[2]
          /\ \A e \in Deals : e # d => deal'[e] = deal[e]
      BY <2>1, <2>4, <2>5 DEF DealRows
    <2>7. TypeOK'
      BY <2>1, <2>2, <2>3, <2>5, <2>6 DEF Base, TypeOK
    <2>8. DealsArePairs' /\ DealsHaveParties' /\ ClassesHaveACentre'
      BY <2>2, <2>4, <2>6
      DEF Base, DealsArePairs, DealsHaveParties, ClassesHaveACentre, Standing, Live
    <2>9. \A h \in Reqs : req'[h] = Idle \/ (req'[h] = req[h] /\ Untouched(h))
      BY <2>1, <2>2, <2>3, <2>6 DEF Untouched, Free
    <2> QED BY <2>7, <2>8, <2>9, RowStep
  <1> QED BY <1>1, <1>2

LEMMA AnswerStep == ASSUME Base, NEW d \in Deals, Answer(d) PROVE Base'
  <1>1. PICK to \in {"approved", "declined"} : deal' = [deal EXCEPT ![d].state = to]
    BY DEF Answer
  <1>2. /\ Free(d) /\ deal[d].state = "requested"
        /\ UNCHANGED <<sells, delivers, course, centre, batch, req, spared>>
        /\ deal \in [Deals -> DealRows \cup {NoDeal}]
    BY DEF Answer, Base, TypeOK
  <1>3. deal[d] \in DealRows
    BY <1>2 DEF NoDeal
  <1>4. /\ deal'[d] = [deal[d] EXCEPT !.state = to]
        /\ \A e \in Deals : e # d => deal'[e] = deal[e]
    BY <1>1, <1>2
  <1>5. /\ deal'[d] \in DealRows /\ deal'[d].provider = deal[d].provider
        /\ deal'[d].partner = deal[d].partner
    BY <1>3, <1>4 DEF DealRows
  <1>6. TypeOK'
    BY <1>1, <1>2, <1>5 DEF Base, TypeOK
  <1>7. DealsArePairs' /\ DealsHaveParties' /\ ClassesHaveACentre'
    BY <1>2, <1>4, <1>5
    DEF Base, DealsArePairs, DealsHaveParties, ClassesHaveACentre, Standing, Live
  <1>8. \A h \in Reqs : req'[h] = req[h] /\ Untouched(h)
    BY <1>2, <1>4 DEF Untouched, Free
  <1> QED BY <1>6, <1>7, <1>8, RowStep

\* What the sweep cancels had not begun, and it holds the rows.
LEMMA DoomedAreHeld ==
    ASSUME Base, NEW r \in Reqs, req[r].stage = "sweeping", NEW b \in Batches, b \in Doomed(r)
    PROVE  b \in req[r].x /\ b \in Under(req[r].deal) /\ batch[b] \in BatchRows
  <1>1. b \in req[r].x /\ b \in Under(req[r].deal)
    BY DEF Doomed, Base, Sound
  <1>2. batch[b] # NoBatch
    BY <1>1 DEF Under, Cancellable, NoBatch
  <1> QED BY <1>1, <1>2 DEF Base, TypeOK

LEMMA EndRevokeStep == ASSUME Base, NEW r \in Reqs, EndRevoke(r) PROVE Base'
  <1>1. /\ req[r].stage = "sweeping" /\ Finish(r)
        /\ deal' = [deal EXCEPT ![req[r].deal].state = "revoked"]
        /\ batch' = [b \in Batches |->
                       IF b \in Doomed(r) THEN [batch[b] EXCEPT !.status = "cancelled"] ELSE batch[b]]
        /\ spared' = spared \cup SparedInVain(r) /\ UNCHANGED <<sells, delivers, course, centre>>
    BY DEF EndRevoke
  <1>2. /\ req'[r] = Idle /\ \A h \in Reqs : h # r => req'[h] = req[h]
        /\ req' \in [Reqs -> Requests \cup {Idle}]
    BY <1>1, Finishes DEF Base
  <1>3. /\ deal \in [Deals -> DealRows \cup {NoDeal}] /\ batch \in [Batches -> BatchRows \cup {NoBatch}]
        /\ req[r].deal \in Deals /\ req[r].deal \in req[r].x /\ deal[req[r].deal].state = "approved"
    BY <1>1 DEF Base, TypeOK, Sound
  <1>4. deal[req[r].deal] \in DealRows
    BY <1>3 DEF NoDeal
  <1>5. /\ deal'[req[r].deal] = [deal[req[r].deal] EXCEPT !.state = "revoked"]
        /\ \A e \in Deals : e # req[r].deal => deal'[e] = deal[e]
    BY <1>1, <1>3
  <1>6. deal'[req[r].deal] \in DealRows /\ deal'[req[r].deal].state = "revoked"
    BY <1>4, <1>5 DEF DealRows
  <1>7. \A b \in Batches : /\ b \in Doomed(r) => /\ batch'[b] \in BatchRows
                                                /\ batch'[b].status = "cancelled"
                           /\ b \notin Doomed(r) => batch'[b] = batch[b]
    <2> SUFFICES ASSUME NEW b \in Batches
                 PROVE  /\ b \in Doomed(r) => /\ batch'[b] \in BatchRows
                                              /\ batch'[b].status = "cancelled"
                        /\ b \notin Doomed(r) => batch'[b] = batch[b]
      OBVIOUS
    <2>1. CASE b \in Doomed(r)
      <3>1. batch[b] \in BatchRows
        BY <1>1, <2>1, DoomedAreHeld
      <3>2. batch'[b] = [batch[b] EXCEPT !.status = "cancelled"]
        BY <1>1, <2>1
      <3> QED BY <2>1, <3>1, <3>2 DEF BatchRows
    <2>2. CASE b \notin Doomed(r)
      BY <1>1, <2>2
    <2> QED BY <2>1, <2>2
  <1>8. TypeOK'
    <2>1. batch' \in [Batches -> BatchRows \cup {NoBatch}]
      BY <1>1, <1>3, <1>7
    <2>2. deal' \in [Deals -> DealRows \cup {NoDeal}]
      BY <1>1, <1>3, <1>6
    <2>3. spared' \subseteq Batches
      BY <1>1 DEF Base, TypeOK, SparedInVain
    <2> QED BY <1>1, <1>2, <2>1, <2>2, <2>3 DEF Base, TypeOK
  <1>9. DealsArePairs' /\ DealsHaveParties'
    BY <1>1, <1>5, <1>6 DEF Base, DealsArePairs, DealsHaveParties, Standing
  <1>10. ClassesHaveACentre'
    BY <1>1, <1>7 DEF Base, ClassesHaveACentre, Live
  <1>11. ASSUME NEW h \in Reqs, h # r PROVE Untouched(h)
    <2>1. req[r].deal \notin req[h].x \cup req[h].s
      BY <1>3, <1>11 DEF Base, LocksApart
    <2>2. \A b \in Batches : b \in req[h].x => b \notin Doomed(r)
      BY <1>11 DEF Base, LocksApart, Doomed
    <2> QED BY <1>1, <1>5, <1>7, <2>1, <2>2 DEF Untouched
  <1> QED BY <1>2, <1>8, <1>9, <1>10, <1>11, RowStep
----------------------------------------------------------------------------
(* Steps that write batches.                                                *)

\* One batch, held by nobody but a request that finishes, and still at a centre
\* that is open if it is published.
LEMMA BatchStep ==
    ASSUME Base, NEW b \in Batches, batch' = [batch EXCEPT ![b] = batch'[b]],
           batch'[b] \in BatchRows, UNCHANGED <<sells, delivers, course, centre, deal, spared>>,
           batch'[b].status = "published" /\ batch'[b].dates # "over"
             => centre[batch'[b].centre] = "open",
           req' \in [Reqs -> Requests \cup {Idle}],
           \A h \in Reqs : req'[h] = Idle \/ (req'[h] = req[h] /\ b \notin req[h].x)
    PROVE  Base'
  <1>1. batch \in [Batches -> BatchRows \cup {NoBatch}]
    BY DEF Base, TypeOK
  <1>2. \A e \in Batches : e # b => batch'[e] = batch[e]
    BY <1>1
  <1>3. TypeOK'
    BY <1>1 DEF Base, TypeOK
  <1>4. DealsArePairs' /\ DealsHaveParties'
    BY DEF Base, DealsArePairs, DealsHaveParties, Standing
  <1>5. ClassesHaveACentre'
    BY <1>2 DEF Base, ClassesHaveACentre, Live
  <1>6. \A h \in Reqs : req'[h] = Idle \/ (req'[h] = req[h] /\ Untouched(h))
    BY <1>2 DEF Untouched
  <1> QED BY <1>3, <1>4, <1>5, <1>6, RowStep

LEMMA WriteBatchStep == ASSUME Base, NEW r \in Reqs, WriteBatch(r) PROVE Base'
  <1>1. CASE UNCHANGED batch
    BY <1>1, FinishStep DEF WriteBatch, rows
  <1>2. CASE ~UNCHANGED batch
    <2>1. PICK b \in Batches, first \in {"ahead", "on"} :
            /\ batch[b].status = "none"
            /\ batch' = [batch EXCEPT ![b] = [status |-> "draft", course |-> req[r].course,
                                              centre |-> req[r].centre, dates |-> first]]
      BY <1>2 DEF WriteBatch
    <2>2. /\ req[r].stage = "cleared" /\ Finish(r)
          /\ UNCHANGED <<sells, delivers, course, centre, deal, spared>>
      BY DEF WriteBatch
    <2>3. /\ req'[r] = Idle /\ \A h \in Reqs : h # r => req'[h] = req[h]
          /\ req' \in [Reqs -> Requests \cup {Idle}]
      BY <2>2, Finishes DEF Base
    <2>4. req[r].centre \in Centres /\ req[r].course \in Courses
      BY <2>2 DEF Base, Sound
    <2>5. batch \in [Batches -> BatchRows \cup {NoBatch}]
      BY DEF Base, TypeOK
    <2>6. /\ batch'[b] = [status |-> "draft", course |-> req[r].course,
                          centre |-> req[r].centre, dates |-> first]
          /\ batch' = [batch EXCEPT ![b] = batch'[b]]
      BY <2>1, <2>5
    <2>7. batch'[b] \in BatchRows /\ batch'[b].status = "draft"
      BY <2>4, <2>6 DEF BatchRows, Dates
    <2>8. \A h \in Reqs : b \notin req[h].x
      BY <2>1 DEF Base, Sound
    <2> QED BY <2>2, <2>3, <2>6, <2>7, <2>8, BatchStep
  <1> QED BY <1>1, <1>2

LEMMA PublishBatchStep == ASSUME Base, NEW r \in Reqs, PublishBatch(r) PROVE Base'
  <1>1. CASE UNCHANGED batch
    BY <1>1, FinishStep DEF PublishBatch, rows
  <1>2. CASE ~UNCHANGED batch
    <2> DEFINE b == req[r].batch
    <2>1. /\ req[r].stage = "cleared" /\ req[r].op = "publish" /\ Finish(r)
          /\ batch' = [batch EXCEPT ![b].status = "published"]
          /\ UNCHANGED <<sells, delivers, course, centre, deal, spared>>
      BY <1>2 DEF PublishBatch
    <2>2. /\ req'[r] = Idle /\ \A h \in Reqs : h # r => req'[h] = req[h]
          /\ req' \in [Reqs -> Requests \cup {Idle}]
      BY <2>1, Finishes DEF Base
    <2>3. /\ b \in Batches /\ b \in req[r].x /\ batch[b].status = "draft"
          /\ batch[b].centre = req[r].centre /\ centre[req[r].centre] = "open"
      BY <2>1 DEF Base, Sound
    <2> HIDE DEF b
    <2>4. batch \in [Batches -> BatchRows \cup {NoBatch}]
      BY DEF Base, TypeOK
    <2>5. batch[b] \in BatchRows
      BY <2>3, <2>4 DEF NoBatch
    <2>6. /\ batch'[b] = [batch[b] EXCEPT !.status = "published"]
          /\ batch' = [batch EXCEPT ![b] = batch'[b]]
      BY <2>1, <2>3, <2>4
    <2>7. batch'[b] \in BatchRows /\ batch'[b].centre = req[r].centre
      BY <2>3, <2>5, <2>6 DEF BatchRows
    <2>8. \A h \in Reqs : h # r => b \notin req[h].x
      BY <2>3 DEF Base, LocksApart
    <2> QED BY <2>1, <2>2, <2>3, <2>6, <2>7, <2>8, BatchStep
  <1> QED BY <1>1, <1>2

LEMMA ByHandStep ==
    ASSUME Base, NEW b \in Batches, UpdateBatch(b) \/ CancelBatch(b) \/ DayPasses(b)
    PROVE  Base'
  <1>1. /\ Free(b) /\ UNCHANGED <<sells, delivers, course, centre, deal, req, spared>>
        /\ batch \in [Batches -> BatchRows \cup {NoBatch}]
        /\ req' \in [Reqs -> Requests \cup {Idle}]
    BY DEF UpdateBatch, CancelBatch, DayPasses, Base, TypeOK
  <1>2. batch[b].status \in {"draft", "published"}
    BY DEF UpdateBatch, CancelBatch, DayPasses, Cancellable
  <1>3. batch[b] \in BatchRows
    BY <1>1, <1>2 DEF NoBatch
  <1>4. PICK status \in {batch[b].status, "cancelled"}, dates \in Dates :
          /\ batch' = [batch EXCEPT ![b] = [batch[b] EXCEPT !.status = status, !.dates = dates]]
          /\ status = "published" /\ dates # "over" => batch[b].dates # "over"
    <2>1. CASE UpdateBatch(b)
      <3>1. PICK first \in {"ahead", "on"} : batch' = [batch EXCEPT ![b].dates = first]
        BY <2>1 DEF UpdateBatch
      <3>2. batch' = [batch EXCEPT ![b] = [batch[b] EXCEPT !.status = batch[b].status, !.dates = first]]
        BY <1>1, <1>3, <3>1 DEF BatchRows
      <3>3. batch[b].status = "published" => batch[b].dates # "over"
        BY <2>1 DEF UpdateBatch, Cancellable
      <3> QED BY <3>2, <3>3 DEF Dates
    <2>2. CASE CancelBatch(b)
      <3>1. batch' = [batch EXCEPT ![b] = [batch[b] EXCEPT !.status = "cancelled",
                                                           !.dates = batch[b].dates]]
        BY <1>1, <1>3, <2>2 DEF CancelBatch, BatchRows
      <3> QED BY <1>3, <3>1 DEF BatchRows
    <2>3. CASE DayPasses(b)
      <3> DEFINE next == IF batch[b].dates = "ahead" THEN "on" ELSE "over"
      <3>1. batch' = [batch EXCEPT ![b] = [batch[b] EXCEPT !.status = batch[b].status, !.dates = next]]
        BY <1>1, <1>3, <2>3 DEF DayPasses, BatchRows
      <3>2. batch[b].dates # "over" /\ next \in Dates
        BY <2>3 DEF DayPasses, Dates
      <3> QED BY <3>1, <3>2
    <2> QED BY <2>1, <2>2, <2>3
  <1>5. /\ batch'[b] = [batch[b] EXCEPT !.status = status, !.dates = dates]
        /\ batch' = [batch EXCEPT ![b] = batch'[b]]
    BY <1>1, <1>4
  <1>6. /\ batch'[b] \in BatchRows /\ batch'[b].status = status /\ batch'[b].dates = dates
        /\ batch'[b].centre = batch[b].centre
    BY <1>2, <1>3, <1>5 DEF BatchRows
  <1>7. status = "published" /\ dates # "over" => centre[batch[b].centre] = "open"
    BY <1>2, <1>4 DEF Base, ClassesHaveACentre, Live
  <1>8. \A h \in Reqs : b \notin req[h].x
    BY <1>1 DEF Free
  <1> QED BY <1>1, <1>5, <1>6, <1>7, <1>8, BatchStep

----------------------------------------------------------------------------
(* Steps that write centres, capabilities and courses.                      *)

LEMMA CentreStep ==
    ASSUME Base, NEW k \in Centres, NEW to \in {"open", "closed"},
           centre' = [centre EXCEPT ![k] = to],
           UNCHANGED <<sells, delivers, course, batch, deal, spared>>,
           to = "closed" => /\ \A b \in Batches : Live(b) => batch[b].centre # k
                            /\ \A h \in Reqs : k \notin req[h].s,
           req' \in [Reqs -> Requests \cup {Idle}],
           \A h \in Reqs : req'[h] = Idle \/ req'[h] = req[h]
    PROVE  Base'
  <1>1. centre \in [Centres -> {"unwritten", "open", "closed"}]
    BY DEF Base, TypeOK
  <1>2. TypeOK'
    BY <1>1 DEF Base, TypeOK
  <1>3. centre'[k] = to /\ \A l \in Centres : l # k => centre'[l] = centre[l]
    BY <1>1
  <1>4. DealsArePairs' /\ DealsHaveParties'
    BY DEF Base, DealsArePairs, DealsHaveParties, Standing
  <1>5. ClassesHaveACentre'
    <2> SUFFICES ASSUME NEW b \in Batches, batch'[b].status = "published", Live(b)'
                 PROVE  centre'[batch'[b].centre] = "open"
      BY DEF ClassesHaveACentre
    <2>1. Live(b) /\ batch[b].status = "published" /\ batch'[b] = batch[b]
      BY DEF Live
    <2>2. batch[b].centre \in Centres /\ centre[batch[b].centre] = "open"
      BY <2>1 DEF Base, TypeOK, ClassesHaveACentre, BatchRows, NoBatch
    <2> QED BY <1>3, <2>1, <2>2
  <1>6. \A h \in Reqs : Untouched(h)
    BY <1>3 DEF Untouched
  <1> QED BY <1>2, <1>4, <1>5, <1>6, RowStep

LEMMA CentresStep ==
    ASSUME Base, NEW k \in Centres, CreateCentre(k) \/ CloseCentre(k)
    PROVE  Base'
  <1>1. req' \in [Reqs -> Requests \cup {Idle}] /\ req' = req
    BY DEF Base, TypeOK, CreateCentre, CloseCentre
  <1>2. CASE CreateCentre(k)
    BY <1>1, <1>2, CentreStep DEF CreateCentre
  <1>3. CASE CloseCentre(k)
    BY <1>1, <1>3, CentreStep DEF CloseCentre, Free
  <1> QED BY <1>2, <1>3

LEMMA ReopenStep == ASSUME Base, NEW r \in Reqs, Reopen(r) PROVE Base'
  <1>1. /\ centre' = [centre EXCEPT ![req[r].centre] = "open"]
        /\ UNCHANGED <<sells, delivers, course, batch, deal, spared>> /\ Finish(r)
    BY DEF Reopen
  <1>2. req[r].centre \in Centres
    BY DEF Base, Sound, Reopen
  <1>3. /\ req' \in [Reqs -> Requests \cup {Idle}]
        /\ \A h \in Reqs : req'[h] = Idle \/ req'[h] = req[h]
    BY <1>1, Finishes DEF Base
  <1> QED BY <1>1, <1>2, <1>3, CentreStep

LEMMA SwitchStep ==
    ASSUME Base, NEW o \in Orgs, SetSells(o) \/ SetDelivers(o)
    PROVE  Base'
  <1>1. /\ Free(o) /\ UNCHANGED <<course, centre, batch, deal, req, spared>>
        /\ sells \in [Orgs -> BOOLEAN] /\ delivers \in [Orgs -> BOOLEAN]
    BY DEF SetSells, SetDelivers, Base, TypeOK
  <1>2. /\ sells' \in [Orgs -> BOOLEAN] /\ delivers' \in [Orgs -> BOOLEAN]
        /\ \A p \in Orgs : p # o => sells'[p] = sells[p] /\ delivers'[p] = delivers[p]
    BY <1>1 DEF SetSells, SetDelivers
  <1>3. TypeOK'
    BY <1>1, <1>2 DEF Base, TypeOK
  <1>4. DealsArePairs' /\ ClassesHaveACentre'
    BY <1>1 DEF Base, DealsArePairs, ClassesHaveACentre, Standing, Live
  <1>5. DealsHaveParties'
    <2> SUFFICES ASSUME NEW d \in Deals, Standing(d)
                 PROVE  sells'[deal[d].provider] /\ delivers'[deal[d].partner]
      BY <1>1 DEF DealsHaveParties, Standing
    <2>1. /\ deal[d].provider \in Orgs /\ deal[d].partner \in Orgs
          /\ sells[deal[d].provider] /\ delivers[deal[d].partner]
      BY DEF Base, TypeOK, DealsHaveParties, Standing, DealRows, NoDeal
    <2>2. CASE SetSells(o)
      <3>1. deal[d].provider = o => ~(sells[o] /\ NothingSold(o))
        BY DEF NothingSold
      <3>2. deal[d].provider # o
        BY <2>1, <2>2, <3>1 DEF SetSells
      <3> QED BY <1>2, <2>1, <2>2, <3>2 DEF SetSells
    <2>3. CASE SetDelivers(o)
      <3>1. deal[d].partner = o => ~(delivers[o] /\ NothingDelivered(o))
        BY DEF NothingDelivered
      <3>2. deal[d].partner # o
        BY <2>1, <2>3, <3>1 DEF SetDelivers
      <3> QED BY <1>2, <2>1, <2>3, <3>2 DEF SetDelivers
    <2> QED BY <2>2, <2>3
  <1>6. \A h \in Reqs : req'[h] = req[h] /\ Untouched(h)
    BY <1>1, <1>2 DEF Untouched, Free
  <1> QED BY <1>3, <1>4, <1>5, <1>6, RowStep

\* Only the course's own row.
LEMMA CourseStep ==
    ASSUME Base, course' \in [Courses -> CourseRows],
           UNCHANGED <<sells, delivers, centre, batch, deal, spared>>,
           req' \in [Reqs -> Requests \cup {Idle}],
           \A h \in Reqs : req'[h] = Idle \/ req'[h] = req[h]
    PROVE  Base'
  <1>1. TypeOK'
    BY DEF Base, TypeOK
  <1>2. DealsArePairs' /\ DealsHaveParties' /\ ClassesHaveACentre'
    BY DEF Base, DealsArePairs, DealsHaveParties, ClassesHaveACentre, Standing, Live
  <1>3. \A h \in Reqs : Untouched(h)
    BY DEF Untouched
  <1> QED BY <1>1, <1>2, <1>3, RowStep

LEMMA CoursesStep ==
    ASSUME Base, NEW c \in Courses, UnpublishCourse(c) \/ TakeDownCourse(c) \/ RestoreCourse(c)
    PROVE  Base'
  <1>1. course \in [Courses -> CourseRows] /\ req \in [Reqs -> Requests \cup {Idle}]
    BY DEF Base, TypeOK
  <1>2. UNCHANGED <<sells, delivers, centre, batch, deal, req, spared>>
    BY DEF UnpublishCourse, TakeDownCourse, RestoreCourse
  <1>3. PICK published \in BOOLEAN, taken \in BOOLEAN :
          course' = [course EXCEPT ![c] = [course[c] EXCEPT !.published = published, !.taken = taken]]
    <2>1. course[c] \in CourseRows
      BY <1>1
    <2>2. CASE UnpublishCourse(c)
      <3>1. course' = [course EXCEPT ![c] = [course[c] EXCEPT !.published = FALSE,
                                                               !.taken = course[c].taken]]
        BY <1>1, <2>1, <2>2 DEF UnpublishCourse, CourseRows
      <3> QED BY <2>1, <3>1 DEF CourseRows
    <2>3. CASE TakeDownCourse(c)
      <3>1. course' = [course EXCEPT ![c] = [course[c] EXCEPT !.published = FALSE, !.taken = TRUE]]
        BY <1>1, <2>3 DEF TakeDownCourse
      <3> QED BY <3>1
    <2>4. CASE RestoreCourse(c)
      <3>1. course' = [course EXCEPT ![c] = [course[c] EXCEPT !.published = course[c].published,
                                                               !.taken = FALSE]]
        BY <1>1, <2>1, <2>4 DEF RestoreCourse, CourseRows
      <3> QED BY <2>1, <3>1 DEF CourseRows
    <2> QED BY <2>2, <2>3, <2>4
  <1>4. [course[c] EXCEPT !.published = published, !.taken = taken] \in CourseRows
    BY <1>1 DEF CourseRows
  <1>5. course' \in [Courses -> CourseRows]
    BY <1>1, <1>3, <1>4
  <1> QED BY <1>1, <1>2, <1>5, CourseStep

LEMMA PublishCourseStep == ASSUME Base, NEW r \in Reqs, PublishCourse(r) PROVE Base'
  <1>1. course \in [Courses -> CourseRows] /\ req[r].course \in Courses /\ Finish(r)
        /\ course' = [course EXCEPT ![req[r].course].published = course[req[r].course].exists]
        /\ UNCHANGED <<sells, delivers, centre, batch, deal, spared>>
    BY DEF Base, TypeOK, Sound, PublishCourse
  <1>2. course' \in [Courses -> CourseRows]
    BY <1>1 DEF CourseRows
  <1>3. /\ req' \in [Reqs -> Requests \cup {Idle}]
        /\ \A h \in Reqs : req'[h] = Idle \/ req'[h] = req[h]
    BY <1>1, Finishes DEF Base
  <1> QED BY <1>1, <1>2, <1>3, CourseStep

\* What a course's deletion takes with it, and what it leaves.
LEMMA Cascades ==
    ASSUME Base, NEW r \in Reqs, DeleteCourse(r)
    PROVE  /\ \A b \in Batches : batch'[b] = IF batch[b].course = req[r].course THEN NoBatch ELSE batch[b]
           /\ \A d \in Deals : deal'[d] = IF deal[d].scope = req[r].course THEN NoDeal ELSE deal[d]
           /\ \A row \in Cascaded(req[r].course) : Free(row)
           /\ req[r].course \in Courses
           /\ spared' \subseteq Batches
           /\ \A b \in Batches : b \in spared' <=> b \in spared /\ batch[b].course # req[r].course
  <1>1. \A b \in Batches : b \in Cascaded(req[r].course) <=> batch[b].course = req[r].course
    BY KindsDiffer DEF Cascaded
  <1>2. \A d \in Deals : d \in Cascaded(req[r].course) <=> deal[d].scope = req[r].course
    BY KindsDiffer DEF Cascaded
  <1> QED BY <1>1, <1>2 DEF DeleteCourse, Base, TypeOK, Sound

LEMMA DeleteCourseStep == ASSUME Base, NEW r \in Reqs, DeleteCourse(r) PROVE Base'
  <1>1. /\ \A b \in Batches : batch'[b] = IF batch[b].course = req[r].course THEN NoBatch ELSE batch[b]
        /\ \A d \in Deals : deal'[d] = IF deal[d].scope = req[r].course THEN NoDeal ELSE deal[d]
        /\ \A row \in Cascaded(req[r].course) : Free(row)
        /\ spared' \subseteq Batches
    BY Cascades
  <1>2. /\ Finish(r) /\ UNCHANGED <<sells, delivers, centre>>
        /\ course' = [course EXCEPT ![req[r].course] =
                        [exists |-> FALSE, published |-> FALSE, taken |-> FALSE]]
        /\ batch' = [b \in Batches |-> batch'[b]] /\ deal' = [d \in Deals |-> deal'[d]]
    BY DEF DeleteCourse
  <1>3. /\ req' \in [Reqs -> Requests \cup {Idle}]
        /\ \A h \in Reqs : req'[h] = Idle \/ req'[h] = req[h]
    BY <1>2, Finishes DEF Base
  <1>4. TypeOK'
    <2>1. course' \in [Courses -> CourseRows]
      BY <1>2 DEF Base, TypeOK, CourseRows
    <2>2. batch' \in [Batches -> BatchRows \cup {NoBatch}]
      BY <1>1, <1>2 DEF Base, TypeOK
    <2>3. deal' \in [Deals -> DealRows \cup {NoDeal}]
      BY <1>1, <1>2 DEF Base, TypeOK
    <2> QED BY <1>1, <1>2, <1>3, <2>1, <2>2, <2>3 DEF Base, TypeOK
  <1>5. DealsArePairs' /\ DealsHaveParties'
    <2>1. NoDeal.state = "none"
      BY DEF NoDeal
    <2>2. \A d \in Deals : Standing(d)' => Standing(d) /\ deal'[d] = deal[d]
      BY <1>1, <2>1 DEF Standing
    <2> QED BY <1>2, <2>2 DEF Base, DealsArePairs, DealsHaveParties
  <1>6. ClassesHaveACentre'
    BY <1>1, <1>2 DEF Base, ClassesHaveACentre, Live, NoBatch
  <1>7. \A h \in Reqs : Untouched(h)
    BY <1>1, <1>2 DEF Untouched, Free, Cascaded
  <1> QED BY <1>3, <1>4, <1>5, <1>6, <1>7, RowStep

----------------------------------------------------------------------------
(* The invariant of one request against another.                            *)

LEMMA InitBase == Init => Base
  <1> SUFFICES ASSUME Init PROVE Base
    OBVIOUS
  <1>1. \A r \in Reqs : req[r] = Idle
    BY DEF Init
  <1>2. \A r \in Reqs : Sound(r) /\ req[r].x = {} /\ req[r].s = {}
    BY <1>1 DEF Sound, Idle
  <1>3. TypeOK
    BY <1>1 DEF Init, TypeOK, CourseRows
  <1>4. LocksApart
    BY <1>2 DEF LocksApart
  <1>5. DealsArePairs /\ DealsHaveParties /\ ClassesHaveACentre
    BY DEF Init, DealsArePairs, DealsHaveParties, ClassesHaveACentre, Standing, NoDeal, NoBatch
  <1> QED BY <1>2, <1>3, <1>4, <1>5 DEF Base

LEMMA BaseStep == Base /\ [Next]_vars => Base'
  <1> SUFFICES ASSUME Base, [Next]_vars PROVE Base'
    OBVIOUS
  <1>1. ASSUME NEW r \in Reqs, Request(r) PROVE Base'
    <2>1. CASE AskDeal(r) \/ LockParties(r) \/ MakeDeal(r)
      BY <2>1, AskDealStep, LockPartiesStep, MakeDealStep
    <2>2. CASE Revoke(r) \/ SweepBatch(r) \/ EndRevoke(r)
      BY <2>2, RevokeStep, SweepBatchStep, EndRevokeStep
    <2>3. CASE PlanBatch(r) \/ TakeDraft(r) \/ PlaceDraft(r) \/ Authorise(r)
      BY <2>3, PlanBatchStep, TakeDraftStep, PlaceDraftStep, AuthoriseStep
    <2>4. CASE WriteBatch(r) \/ PublishBatch(r)
      BY <2>4, WriteBatchStep, PublishBatchStep
    <2>5. CASE AskReopen(r) \/ AskPublishCourse(r) \/ AskDeleteCourse(r)
      BY <2>5, AskStep
    <2>6. CASE Reopen(r) \/ PublishCourse(r) \/ DeleteCourse(r)
      BY <2>6, ReopenStep, PublishCourseStep, DeleteCourseStep
    <2>7. CASE DeadlockVictim(r)
      BY <2>7, FinishStep DEF DeadlockVictim
    <2> QED BY <1>1, <2>1, <2>2, <2>3, <2>4, <2>5, <2>6, <2>7 DEF Request
  <1>2. CASE UNCHANGED vars
    <2>1. TypeOK' /\ DealsArePairs' /\ DealsHaveParties' /\ ClassesHaveACentre'
      BY <1>2
      DEF Base, vars, TypeOK, DealsArePairs, DealsHaveParties, ClassesHaveACentre, Standing, Live
    <2>2. \A r \in Reqs : req'[r] = req[r] /\ Untouched(r)
      BY <1>2 DEF vars, Untouched
    <2> QED BY <2>1, <2>2, RowStep
  <1> QED BY <1>1, <1>2, AnswerStep, ByHandStep, CentresStep, SwitchStep, CoursesStep DEF Next

\* The rows a request holds, and what it read of them, hold in every state.
THEOREM Invariance == Spec => []Base
  <1> QED BY InitBase, BaseStep, PTL DEF Spec

\* Every row, lock and request keeps its type.
THEOREM TypeCorrect == Spec => []TypeOK
  <1>1. Base => TypeOK
    BY DEF Base
  <1> QED BY Invariance, <1>1, PTL

\* However planning, publishing, closing and reopening meet, a published batch
\* that is not over is at a centre that is open.
THEOREM ClassesKeepTheirCentre == Spec => []ClassesHaveACentre
  <1>1. Base => ClassesHaveACentre
    BY DEF Base
  <1> QED BY Invariance, <1>1, PTL

\* However asking and answering meet a switch of capability, an arrangement in
\* force is between one that sells and one that delivers.
THEOREM DealsKeepTheirParties == Spec => []DealsHaveParties
  <1>1. Base => DealsHaveParties
    BY DEF Base
  <1> QED BY Invariance, <1>1, PTL

----------------------------------------------------------------------------
(* Coverage, however revocations overlap.                                   *)

\* d covers b, and whoever is ending d has seen b.
Keeps(d, b) ==
    /\ d \in Covering(Deliverer(b), batch[b].course)
    /\ \A h \in Reqs : ~EndsUnaware(h, d, b)

\* Why an open batch may stand: it is the organisation's own course, it was
\* spared in vain, or something covers it that will not end without asking.
Accounted(b) ==
    \/ Seller[batch[b].course] = Deliverer(b)
    \/ b \in spared
    \/ \E d \in Deals : Keeps(d, b)

Covered == \A b \in Batches : Cancellable(b) => Accounted(b)

\* b stays a batch of the same course and centre, all that covers it stays, and
\* nobody begins to end that without having seen b.
Kept(b) ==
    /\ Cancellable(b)
    /\ batch'[b].course = batch[b].course /\ batch'[b].centre = batch[b].centre
    /\ b \in spared => b \in spared'
    /\ \A d \in Covering(Deliverer(b), batch[b].course) :
         /\ deal'[d] = deal[d]
         /\ \A h \in Reqs : EndsUnaware(h, d, b)' => EndsUnaware(h, d, b)

\* A request that goes on as it was has seen what it had.
LEMMA NobodyForgets ==
    ASSUME \A h \in Reqs : req'[h].stage = "sweeping" => req'[h] = req[h],
           NEW d, NEW b, NEW h \in Reqs, EndsUnaware(h, d, b)'
    PROVE  EndsUnaware(h, d, b)
  BY DEF EndsUnaware

LEMMA CoveredStep ==
    ASSUME Covered, \A b \in Batches : Cancellable(b)' => Kept(b) \/ Accounted(b)'
    PROVE  Covered'
  <1> SUFFICES ASSUME NEW b \in Batches, Kept(b) PROVE Accounted(b)'
    BY DEF Covered
  <1>1. Accounted(b) /\ Deliverer(b)' = Deliverer(b) /\ batch'[b].course = batch[b].course
    BY DEF Kept, Covered, Deliverer
  <1>2. ASSUME NEW d \in Deals, Keeps(d, b) PROVE Keeps(d, b)'
    <2>1. d \in Covering(Deliverer(b), batch[b].course)'
      BY <1>1, <1>2 DEF Keeps, Kept, Covering
    <2>2. \A h \in Reqs : ~EndsUnaware(h, d, b)'
      BY <1>2 DEF Keeps, Kept
    <2> QED BY <2>1, <2>2 DEF Keeps
  <1> QED BY <1>1, <1>2 DEF Accounted, Kept

\* Requests that read, and rows that coverage does not read.
LEMMA QuietStep ==
    ASSUME Covered, UNCHANGED <<batch, deal, spared>>,
           \A h \in Reqs : req'[h].stage = "sweeping" => req'[h] = req[h]
    PROVE  Covered'
  <1>1. \A b \in Batches : Cancellable(b)' => Kept(b)
    BY NobodyForgets DEF Kept, Cancellable
  <1> QED BY <1>1, CoveredStep

\* What d covers is what its end would look at.
LEMMA CoveredIsUnder ==
    ASSUME NEW b \in Batches, Cancellable(b), NEW d \in Covering(Deliverer(b), batch[b].course)
    PROVE  b \in Under(d)
  BY DEF Covering, Under

\* A revocation begins: its first look takes in all that is open.
LEMMA RevokeCovers ==
    ASSUME Base, Covered, NEW r \in Reqs, Revoke(r)
    PROVE  Covered'
  <1>1. PICK d \in Deals :
          /\ req' = [req EXCEPT ![r] = [Asked("revoke") EXCEPT !.stage = "sweeping", !.deal = d,
                                          !.x = {d}, !.left = Under(d)]]
          /\ UNCHANGED <<batch, deal, spared>>
    BY DEF Revoke, Arrive, rows
  <1>2. req \in [Reqs -> Requests \cup {Idle}]
    BY DEF Base, TypeOK
  <1>3. /\ req'[r] = [Asked("revoke") EXCEPT !.stage = "sweeping", !.deal = d,
                        !.x = {d}, !.left = Under(d)]
        /\ \A h \in Reqs : h # r => req'[h] = req[h]
    BY <1>1, <1>2
  <1>4. req'[r].deal = d /\ req'[r].left = Under(d)
    BY <1>3 DEF Asked
  <1>5. ASSUME NEW b \in Batches, Cancellable(b)' PROVE Kept(b)
    <2>1. Cancellable(b)
      BY <1>1, <1>5 DEF Cancellable
    <2>2. ASSUME NEW e \in Covering(Deliverer(b), batch[b].course), NEW h \in Reqs,
                 EndsUnaware(h, e, b)'
          PROVE  EndsUnaware(h, e, b)
      <3>1. b \in Under(e)
        BY <2>1, CoveredIsUnder
      <3>2. h # r
        BY <1>4, <2>2, <3>1 DEF EndsUnaware
      <3> QED BY <1>3, <2>2, <3>2 DEF EndsUnaware
    <2> QED BY <1>1, <2>1, <2>2 DEF Kept
  <1> QED BY <1>5, CoveredStep

\* The sweep takes a batch, or passes it over because it does not cover it.
LEMMA SweepBatchCovers ==
    ASSUME Base, Covered, NEW r \in Reqs, SweepBatch(r)
    PROVE  Covered'
  <1>1. PICK a \in req[r].left :
          /\ req[r].stage = "sweeping" /\ UNCHANGED <<batch, deal, spared>>
          /\ req' = [req EXCEPT ![r].left = @ \ {a},
                       ![r].x = IF a \in Under(req[r].deal) THEN @ \cup {a} ELSE @]
    BY DEF SweepBatch, rows
  <1>2. req \in [Reqs -> Requests \cup {Idle}] /\ req[r] \in Requests
    BY <1>1, Shape DEF Base, TypeOK
  <1>3. /\ req'[r] = [req[r] EXCEPT !.left = @ \ {a},
                        !.x = IF a \in Under(req[r].deal) THEN @ \cup {a} ELSE @]
        /\ \A h \in Reqs : h # r => req'[h] = req[h]
    BY <1>1, <1>2
  <1>4. /\ req'[r].deal = req[r].deal
        /\ req'[r].left = req[r].left \ {a}
        /\ req[r].x \subseteq req'[r].x
        /\ a \in Under(req[r].deal) => a \in req'[r].x
    BY <1>1, <1>2, <1>3 DEF Requests
  <1>5. ASSUME NEW b \in Batches, Cancellable(b)' PROVE Kept(b)
    <2>1. Cancellable(b)
      BY <1>1, <1>5 DEF Cancellable
    <2>2. ASSUME NEW e \in Covering(Deliverer(b), batch[b].course), NEW h \in Reqs,
                 EndsUnaware(h, e, b)'
          PROVE  EndsUnaware(h, e, b)
      <3>1. b \in Under(e)
        BY <2>1, CoveredIsUnder
      <3>2. CASE h # r
        BY <1>3, <2>2, <3>2 DEF EndsUnaware
      <3>3. CASE h = r
        <4>1. req[r].deal = e /\ b \notin req'[r].left \cup req'[r].x
          BY <1>4, <2>2, <3>3 DEF EndsUnaware
        <4>2. b # a
          BY <1>4, <3>1, <4>1
        <4> QED BY <1>1, <1>4, <3>3, <4>1, <4>2 DEF EndsUnaware
      <3> QED BY <3>2, <3>3
    <2> QED BY <1>1, <2>1, <2>2 DEF Kept
  <1> QED BY <1>5, CoveredStep

\* The revocation ends: what is left open rests on something else, or is spared
\* in vain.
LEMMA EndRevokeCovers ==
    ASSUME Base, Covered, NEW r \in Reqs, EndRevoke(r)
    PROVE  Covered'
  <1> DEFINE d == req[r].deal
  <1>1. /\ req[r].stage = "sweeping" /\ req[r].left = {} /\ Finish(r)
        /\ deal' = [deal EXCEPT ![d].state = "revoked"]
        /\ batch' = [b \in Batches |->
                       IF b \in Doomed(r) THEN [batch[b] EXCEPT !.status = "cancelled"] ELSE batch[b]]
        /\ spared' = spared \cup SparedInVain(r)
    BY DEF EndRevoke
  <1>2. /\ req'[r].stage # "sweeping"
        /\ \A h \in Reqs : h # r => req'[h] = req[h]
    BY <1>1, Finishes DEF Base, Idle
  <1>3. \A h \in Reqs : req'[h].stage = "sweeping" => req'[h] = req[h]
    BY <1>2
  <1>4. /\ d \in Deals /\ deal[d].state = "approved"
        /\ \A e \in Deals : e # d => deal'[e] = deal[e]
    BY <1>1 DEF Base, TypeOK, Sound
  <1>5. ASSUME NEW b \in Batches, Cancellable(b)' PROVE Accounted(b)'
    <2>1. b \notin Doomed(r)
      <3> SUFFICES ASSUME b \in Doomed(r) PROVE FALSE
        OBVIOUS
      <3>1. batch[b] \in BatchRows
        BY <1>1, DoomedAreHeld
      <3>2. batch'[b].status = "cancelled"
        BY <1>1, <3>1 DEF BatchRows
      <3> QED BY <1>5, <3>2 DEF Cancellable
    <2>2. batch'[b] = batch[b]
      BY <1>1, <2>1
    <2>3. Cancellable(b) /\ Deliverer(b)' = Deliverer(b)
      BY <1>5, <2>2 DEF Cancellable, Deliverer
    <2>4. ASSUME NEW e \in Deals, Keeps(e, b), e # d PROVE Accounted(b)'
      <3>1. e \in Covering(Deliverer(b), batch[b].course)'
        BY <1>4, <2>2, <2>3, <2>4 DEF Keeps, Covering
      <3>2. \A h \in Reqs : ~EndsUnaware(h, e, b)'
        BY <1>3, <2>4, NobodyForgets DEF Keeps
      <3> QED BY <3>1, <3>2 DEF Keeps, Accounted
    <2>5. CASE Keeps(d, b)
      <3>1. b \in req[r].x
        BY <1>1, <2>5 DEF Keeps, EndsUnaware
      <3>2. CASE b \in SparedInVain(r)
        BY <1>1, <3>2 DEF Accounted
      <3>3. CASE b \notin SparedInVain(r)
        <4>1. PICK e \in Covering(Deliverer(b), batch[b].course) \ {d} :
                \A h \in Reqs : ~EndsUnaware(h, e, b)
          BY <2>1, <3>1, <3>3 DEF SparedInVain
        <4>2. e \in Deals /\ Keeps(e, b) /\ e # d
          BY <4>1 DEF Keeps, Covering
        <4> QED BY <2>4, <4>2
      <3> QED BY <3>2, <3>3
    <2>6. CASE Seller[batch[b].course] = Deliverer(b) \/ b \in spared
      BY <1>1, <2>2, <2>3, <2>6 DEF Accounted
    <2> QED BY <2>3, <2>4, <2>5, <2>6 DEF Covered, Accounted
  <1> QED BY <1>5, CoveredStep

\* An arrangement that is made or answered takes nothing from anybody.
LEMMA DealCovers ==
    ASSUME Covered, NEW d \in Deals, deal[d].state # "approved",
           UNCHANGED <<batch, spared>>, \A e \in Deals : e # d => deal'[e] = deal[e],
           \A h \in Reqs : req'[h].stage = "sweeping" => req'[h] = req[h]
    PROVE  Covered'
  <1>1. \A b \in Batches : Cancellable(b)' => Kept(b)
    BY NobodyForgets DEF Kept, Cancellable, Covering
  <1> QED BY <1>1, CoveredStep

\* A batch is planned under an arrangement that the planner holds FOR SHARE:
\* nobody is ending it.
LEMMA WritesUnderCover ==
    ASSUME Base, NEW r \in Reqs, WriteBatch(r), ~UNCHANGED batch
    PROVE  \E b \in Batches :
             /\ batch[b].status = "none" /\ batch'[b].status = "draft"
             /\ \A e \in Batches : e # b => batch'[e] = batch[e]
             /\ \/ Seller[batch'[b].course] = Deliverer(b)'
                \/ \E d \in Deals : Keeps(d, b)'
  <1>1. /\ req[r].stage = "cleared" /\ Finish(r) /\ UNCHANGED deal
    BY DEF WriteBatch
  <1>2. /\ req'[r].stage # "sweeping"
        /\ \A h \in Reqs : h # r => req'[h] = req[h]
    BY <1>1, Finishes DEF Base, Idle
  <1>3. PICK b \in Batches, first \in {"ahead", "on"} :
          /\ batch[b].status = "none"
          /\ batch' = [batch EXCEPT ![b] = [status |-> "draft", course |-> req[r].course,
                                            centre |-> req[r].centre, dates |-> first]]
    BY DEF WriteBatch
  <1>4. batch \in [Batches -> BatchRows \cup {NoBatch}]
    BY DEF Base, TypeOK
  <1>5. /\ batch'[b].course = req[r].course /\ batch'[b].centre = req[r].centre
        /\ batch'[b].status = "draft"
        /\ \A e \in Batches : e # b => batch'[e] = batch[e]
    BY <1>3, <1>4
  <1>6. CASE Seller[req[r].course] = Parent[req[r].centre]
    BY <1>3, <1>5, <1>6 DEF Deliverer
  <1>7. CASE Seller[req[r].course] # Parent[req[r].centre]
    <2>1. PICK d \in req[r].s : d \in Covering(Parent[req[r].centre], req[r].course)
      BY <1>1, <1>7 DEF Base, Sound
    <2>2. d \in Deals /\ d \in Covering(Deliverer(b), batch[b].course)'
      BY <1>1, <1>5, <2>1 DEF Covering, Deliverer
    <2>3. \A h \in Reqs : req'[h].stage = "sweeping" => req'[h].deal # d
      BY <1>2, <2>1 DEF Base, LocksApart, Sound
    <2>4. Keeps(d, b)'
      BY <2>2, <2>3 DEF Keeps, EndsUnaware
    <2> QED BY <1>3, <1>5, <2>2, <2>4
  <1> QED BY <1>6, <1>7

LEMMA WriteBatchCovers ==
    ASSUME Base, Covered, NEW r \in Reqs, WriteBatch(r)
    PROVE  Covered'
  <1>1. /\ UNCHANGED <<deal, spared>> /\ Finish(r)
    BY DEF WriteBatch
  <1>2. \A h \in Reqs : req'[h].stage = "sweeping" => req'[h] = req[h]
    BY <1>1, Finishes DEF Base, Idle
  <1>3. CASE UNCHANGED batch
    BY <1>1, <1>2, <1>3, QuietStep
  <1>4. CASE ~UNCHANGED batch
    <2>1. PICK b \in Batches :
            /\ \A e \in Batches : e # b => batch'[e] = batch[e]
            /\ \/ Seller[batch'[b].course] = Deliverer(b)'
               \/ \E d \in Deals : Keeps(d, b)'
      BY <1>4, WritesUnderCover
    <2>2. \A e \in Batches : e # b /\ Cancellable(e)' => Kept(e)
      BY <1>1, <1>2, <2>1, NobodyForgets DEF Kept, Cancellable
    <2>3. Accounted(b)'
      BY <2>1 DEF Accounted
    <2> QED BY <2>2, <2>3, CoveredStep
  <1> QED BY <1>3, <1>4

\* A batch that is changed and still open was open before.
LEMMA BatchCovers ==
    ASSUME Covered, NEW b \in Batches, UNCHANGED <<deal, spared>>,
           \A e \in Batches : e # b => batch'[e] = batch[e],
           Cancellable(b)' => Cancellable(b),
           batch'[b].course = batch[b].course, batch'[b].centre = batch[b].centre,
           \A h \in Reqs : req'[h].stage = "sweeping" => req'[h] = req[h]
    PROVE  Covered'
  <1>1. \A e \in Batches : Cancellable(e)' => Kept(e)
    BY NobodyForgets DEF Kept, Cancellable
  <1> QED BY <1>1, CoveredStep

\* Publishing, and what people and days do to a batch.
LEMMA PublishBatchCovers ==
    ASSUME Base, Covered, NEW r \in Reqs, PublishBatch(r)
    PROVE  Covered'
  <1>1. /\ req[r].stage = "cleared" /\ req[r].op = "publish" /\ Finish(r) /\ UNCHANGED <<deal, spared>>
    BY DEF PublishBatch
  <1>2. /\ req'[r].stage # "sweeping"
        /\ \A h \in Reqs : h # r => req'[h] = req[h]
    BY <1>1, Finishes DEF Base, Idle
  <1>3. CASE UNCHANGED batch
    BY <1>1, <1>2, <1>3, QuietStep
  <1>4. CASE ~UNCHANGED batch
    <2> DEFINE b == req[r].batch
    <2>1. batch' = [batch EXCEPT ![b].status = "published"]
      BY <1>4 DEF PublishBatch
    <2>2. b \in Batches /\ batch[b].status = "draft"
      BY <1>1 DEF Base, Sound
    <2> HIDE DEF b
    <2>3. batch \in [Batches -> BatchRows \cup {NoBatch}]
      BY DEF Base, TypeOK
    <2>4. batch[b] \in BatchRows
      BY <2>2, <2>3 DEF NoBatch
    <2>5. /\ batch'[b] = [batch[b] EXCEPT !.status = "published"]
          /\ \A e \in Batches : e # b => batch'[e] = batch[e]
      BY <2>1, <2>2, <2>3
    <2>6. batch'[b].course = batch[b].course /\ batch'[b].centre = batch[b].centre
      BY <2>4, <2>5 DEF BatchRows
    <2> QED BY <1>1, <1>2, <2>2, <2>5, <2>6, BatchCovers DEF Cancellable
  <1> QED BY <1>3, <1>4

LEMMA ByHandCovers ==
    ASSUME Base, Covered, NEW b \in Batches,
           UpdateBatch(b) \/ CancelBatch(b) \/ DayPasses(b)
    PROVE  Covered'
  <1>1. /\ batch \in [Batches -> BatchRows \cup {NoBatch}]
        /\ batch[b].status \in {"draft", "published"} /\ UNCHANGED <<deal, req, spared>>
    BY DEF UpdateBatch, CancelBatch, DayPasses, Cancellable, Base, TypeOK
  <1>2. batch[b] \in BatchRows
    BY <1>1 DEF NoBatch
  <1>3. \A e \in Batches : e # b => batch'[e] = batch[e]
    BY <1>1 DEF UpdateBatch, CancelBatch, DayPasses
  <1>4. batch'[b].course = batch[b].course /\ batch'[b].centre = batch[b].centre
    BY <1>1, <1>2 DEF UpdateBatch, CancelBatch, DayPasses, BatchRows
  <1>5. Cancellable(b)' => Cancellable(b)
    <2>1. CASE UpdateBatch(b) \/ CancelBatch(b)
      BY <2>1 DEF UpdateBatch, CancelBatch
    <2>2. CASE DayPasses(b)
      <3>1. batch'[b].status = batch[b].status /\ batch'[b].dates # "ahead"
        BY <1>1, <1>2, <2>2 DEF DayPasses, BatchRows
      <3> QED BY <1>1, <3>1 DEF Cancellable
    <2> QED BY <2>1, <2>2
  <1> QED BY <1>1, <1>3, <1>4, <1>5, BatchCovers

\* A course that goes takes its batches, and the arrangements that named it.
LEMMA DeleteCourseCovers ==
    ASSUME Base, Covered, NEW r \in Reqs, DeleteCourse(r)
    PROVE  Covered'
  <1>1. /\ \A b \in Batches : batch'[b] = IF batch[b].course = req[r].course THEN NoBatch ELSE batch[b]
        /\ \A d \in Deals : deal'[d] = IF deal[d].scope = req[r].course THEN NoDeal ELSE deal[d]
        /\ req[r].course \in Courses
        /\ \A b \in Batches : b \in spared' <=> b \in spared /\ batch[b].course # req[r].course
    BY Cascades
  <1>2. \A h \in Reqs : req'[h].stage = "sweeping" => req'[h] = req[h]
    BY Finishes DEF Base, Idle, DeleteCourse
  <1>3. ASSUME NEW b \in Batches, Cancellable(b)' PROVE Kept(b)
    <2>1. batch'[b] = batch[b] /\ batch[b].course # req[r].course
      BY <1>1, <1>3 DEF Cancellable, NoBatch
    <2>2. \A d \in Covering(Deliverer(b), batch[b].course) : deal'[d] = deal[d]
      BY <1>1, <2>1, NoneIsNothing DEF Covering
    <2> QED BY <1>1, <1>2, <1>3, <2>1, <2>2, NobodyForgets DEF Kept, Cancellable
  <1> QED BY <1>3, CoveredStep

----------------------------------------------------------------------------
(* Every step.                                                              *)

\* The requests that only read, wait or answer no, and the other rows.
Reads(r) ==
    \/ AskDeal(r) \/ LockParties(r) \/ PlanBatch(r) \/ TakeDraft(r) \/ PlaceDraft(r)
    \/ Authorise(r) \/ AskReopen(r) \/ Reopen(r) \/ AskPublishCourse(r) \/ PublishCourse(r)
    \/ AskDeleteCourse(r) \/ DeadlockVictim(r)

LEMMA ReadsAreQuiet ==
    ASSUME Base, NEW r \in Reqs, Reads(r)
    PROVE  /\ UNCHANGED <<batch, deal, spared>>
           /\ \A h \in Reqs : req'[h].stage = "sweeping" => req'[h] = req[h]
  <1>1. req \in [Reqs -> Requests \cup {Idle}]
    BY DEF Base, TypeOK
  <1>2. UNCHANGED <<batch, deal, spared>>
    BY DEF Reads, AskDeal, LockParties, PlanBatch, TakeDraft, PlaceDraft, Authorise, AskReopen,
       Reopen, AskPublishCourse, PublishCourse, AskDeleteCourse, DeadlockVictim, rows
  <1> SUFFICES \A h \in Reqs : req'[h].stage = "sweeping" => req'[h] = req[h]
    BY <1>2
  <1>4. CASE Finish(r)
    BY <1>4, Finishes DEF Base, Idle
  <1>5. CASE AskDeal(r)
    <2>1. PICK pair \in Pairs, scope \in Courses \cup {None}, invited \in BOOLEAN :
            req' = [req EXCEPT ![r] = [Asked("deal") EXCEPT !.pair = pair, !.course = scope,
                                                            !.invited = invited]]
      BY <1>5 DEF AskDeal, Arrive
    <2>2. /\ req'[r] = [Asked("deal") EXCEPT !.pair = pair, !.course = scope, !.invited = invited]
          /\ \A h \in Reqs : h # r => req'[h] = req[h]
      BY <1>1, <2>1
    <2>3. req'[r].stage = "asked"
      BY <2>2 DEF Asked
    <2> QED BY <2>2, <2>3
  <1>6. CASE PlanBatch(r)
    <2>1. PICK k \in Centres, c \in Courses :
            req' = [req EXCEPT ![r] = [Asked("plan") EXCEPT !.stage = "placed", !.centre = k,
                                                            !.course = c, !.s = {k}]]
      BY <1>6 DEF PlanBatch, Arrive
    <2>2. /\ req'[r] = [Asked("plan") EXCEPT !.stage = "placed", !.centre = k, !.course = c,
                                              !.s = {k}]
          /\ \A h \in Reqs : h # r => req'[h] = req[h]
      BY <1>1, <2>1
    <2>3. req'[r].stage = "placed"
      BY <2>2 DEF Asked
    <2> QED BY <2>2, <2>3
  <1>7. CASE TakeDraft(r)
    <2>1. PICK b \in Batches :
            req' = [req EXCEPT ![r] = [Asked("publish") EXCEPT !.stage = "taken", !.batch = b,
                       !.x = {b}, !.centre = batch[b].centre, !.course = batch[b].course]]
      BY <1>7 DEF TakeDraft, Arrive
    <2>2. /\ req'[r] = [Asked("publish") EXCEPT !.stage = "taken", !.batch = b,
                        !.x = {b}, !.centre = batch[b].centre, !.course = batch[b].course]
          /\ \A h \in Reqs : h # r => req'[h] = req[h]
      BY <1>1, <2>1
    <2>3. req'[r].stage = "taken"
      BY <2>2 DEF Asked
    <2> QED BY <2>2, <2>3
  <1>8. CASE AskReopen(r)
    <2>1. PICK k \in Centres : req' = [req EXCEPT ![r] = [Asked("reopen") EXCEPT !.centre = k]]
      BY <1>8 DEF AskReopen, Arrive
    <2>2. /\ req'[r] = [Asked("reopen") EXCEPT !.centre = k]
          /\ \A h \in Reqs : h # r => req'[h] = req[h]
      BY <1>1, <2>1
    <2>3. req'[r].stage = "asked"
      BY <2>2 DEF Asked
    <2> QED BY <2>2, <2>3
  <1>9. CASE AskPublishCourse(r) \/ AskDeleteCourse(r)
    <2>1. PICK c \in Courses, what \in {"publish_course", "delete_course"} :
            req' = [req EXCEPT ![r] = [Asked(what) EXCEPT !.course = c]]
      BY <1>9 DEF AskPublishCourse, AskDeleteCourse, Arrive
    <2>2. /\ req'[r] = [Asked(what) EXCEPT !.course = c]
          /\ \A h \in Reqs : h # r => req'[h] = req[h]
      BY <1>1, <2>1
    <2>3. req'[r].stage = "asked"
      BY <2>2 DEF Asked
    <2> QED BY <2>2, <2>3
  <1>10. CASE ~Finish(r) /\ LockParties(r)
    <2>1. /\ req[r] \in Requests
          /\ req' = [req EXCEPT ![r].stage = "locked", ![r].s = {req[r].pair[1], req[r].pair[2]}]
      BY <1>10, Shape DEF Base, LockParties
    <2>2. /\ req'[r] = [req[r] EXCEPT !.stage = "locked", !.s = {req[r].pair[1], req[r].pair[2]}]
          /\ \A h \in Reqs : h # r => req'[h] = req[h]
      BY <1>1, <2>1
    <2>3. req'[r].stage = "locked"
      BY <2>1, <2>2 DEF Requests
    <2> QED BY <2>2, <2>3
  <1>11. CASE ~Finish(r) /\ PlaceDraft(r)
    <2>1. /\ req[r] \in Requests
          /\ req' = [req EXCEPT ![r].stage = "placed", ![r].s = {req[r].centre}]
      BY <1>11, Shape DEF Base, PlaceDraft
    <2>2. /\ req'[r] = [req[r] EXCEPT !.stage = "placed", !.s = {req[r].centre}]
          /\ \A h \in Reqs : h # r => req'[h] = req[h]
      BY <1>1, <2>1
    <2>3. req'[r].stage = "placed"
      BY <2>1, <2>2 DEF Requests
    <2> QED BY <2>2, <2>3
  <1>12. CASE ~Finish(r) /\ Authorise(r)
    <2> DEFINE cover == IF Seller[req[r].course] = Parent[req[r].centre] THEN {}
                        ELSE Covering(Parent[req[r].centre], req[r].course)
    <2>1. /\ req[r] \in Requests
          /\ req' = [req EXCEPT ![r].stage = "cleared", ![r].s = @ \cup cover]
      BY <1>12, Shape DEF Base, Authorise
    <2> HIDE DEF cover
    <2>2. /\ req'[r] = [req[r] EXCEPT !.stage = "cleared", !.s = @ \cup cover]
          /\ \A h \in Reqs : h # r => req'[h] = req[h]
      BY <1>1, <2>1
    <2>3. req'[r].stage = "cleared"
      BY <2>1, <2>2 DEF Requests
    <2> QED BY <2>2, <2>3
  <1> QED BY <1>4, <1>5, <1>6, <1>7, <1>8, <1>9, <1>10, <1>11, <1>12
          DEF Reads, Reopen, PublishCourse, DeadlockVictim

LEMMA CoverageStep ==
    ASSUME Base, Covered, [Next]_vars
    PROVE  Covered'
  <1>1. ASSUME NEW r \in Reqs, Request(r) PROVE Covered'
    <2>1. CASE Reads(r)
      BY <2>1, ReadsAreQuiet, QuietStep
    <2>2. CASE Revoke(r) \/ SweepBatch(r) \/ EndRevoke(r)
      BY <2>2, RevokeCovers, SweepBatchCovers, EndRevokeCovers
    <2>3. CASE WriteBatch(r) \/ PublishBatch(r) \/ DeleteCourse(r)
      BY <2>3, WriteBatchCovers, PublishBatchCovers, DeleteCourseCovers
    <2>4. CASE MakeDeal(r)
      <3>1. \A h \in Reqs : req'[h].stage = "sweeping" => req'[h] = req[h]
        BY <2>4, Finishes DEF MakeDeal, Base, Idle
      <3>2. CASE UNCHANGED deal
        BY <2>4, <3>1, <3>2, QuietStep DEF MakeDeal
      <3>3. CASE ~UNCHANGED deal
        <4>1. PICK d \in Deals :
                /\ ~Standing(d)
                /\ deal' = [deal EXCEPT ![d] =
                     [state |-> IF req[r].invited THEN "approved" ELSE "requested",
                      provider |-> req[r].pair[1], partner |-> req[r].pair[2],
                      scope |-> req[r].course]]
          BY <2>4, <3>3 DEF MakeDeal
        <4>2. \A e \in Deals : e # d => deal'[e] = deal[e]
          BY <4>1 DEF Base, TypeOK
        <4> QED BY <2>4, <3>1, <4>1, <4>2, DealCovers DEF MakeDeal, Standing
      <3> QED BY <3>2, <3>3
    <2> QED BY <1>1, <2>1, <2>2, <2>3, <2>4 DEF Request, Reads
  <1>2. ASSUME NEW d \in Deals, Answer(d) PROVE Covered'
    <2>1. \A e \in Deals : e # d => deal'[e] = deal[e]
      BY <1>2 DEF Answer, Base, TypeOK
    <2> QED BY <1>2, <2>1, DealCovers DEF Answer
  <1>3. ASSUME NEW k \in Centres, CreateCentre(k) \/ CloseCentre(k) PROVE Covered'
    BY <1>3, QuietStep DEF CreateCentre, CloseCentre
  <1>4. ASSUME NEW o \in Orgs, SetSells(o) \/ SetDelivers(o) PROVE Covered'
    BY <1>4, QuietStep DEF SetSells, SetDelivers
  <1>5. ASSUME NEW c \in Courses, UnpublishCourse(c) \/ TakeDownCourse(c) \/ RestoreCourse(c)
        PROVE  Covered'
    BY <1>5, QuietStep DEF UnpublishCourse, TakeDownCourse, RestoreCourse
  <1>6. CASE UNCHANGED vars
    BY <1>6, QuietStep DEF vars
  <1> QED BY <1>1, <1>2, <1>3, <1>4, <1>5, <1>6, ByHandCovers DEF Next

LEMMA CoverageInvariance == Spec => [](Base /\ Covered)
  <1>1. Init => Covered
    BY DEF Init, Covered, Cancellable, NoBatch
  <1>2. Base /\ Covered /\ [Next]_vars => (Base /\ Covered)'
    BY BaseStep, CoverageStep
  <1> QED BY InitBase, <1>1, <1>2, PTL DEF Spec

\* However revocations overlap, and meet planning, publishing and answering, a
\* batch that has not begun is one its organisation may deliver, unless a
\* revocation left it to arrangements whose own revocations had looked too early.
THEOREM BatchesStayCovered == Spec => []OpenBatchesAreCovered
  <1>1. Covered => OpenBatchesAreCovered
    BY DEF Covered, Accounted, Keeps, OpenBatchesAreCovered, MayDeliver
  <1> QED BY CoverageInvariance, <1>1, PTL

----------------------------------------------------------------------------
(* Training implements Standing.                                            *)

\* The promise's variables, as Training has them.
Rights == {right \in Orgs \X Courses : MayDeliver(right[1], right[2])}
Right(b) == IF batch[b].status = "none" THEN None ELSE <<Deliverer(b), batch[b].course>>
Life(b) ==
    CASE batch[b].status = "none" -> "none"
      [] batch[b].status = "cancelled" -> "gone"
      [] Cancellable(b) -> "open"
      [] OTHER -> "held"

Lives == [b \in Batches |-> Life(b)]
Rests == [b \in Batches |-> Right(b)]

LEMMA LifeIs ==
    ASSUME TypeOK, NEW b \in Batches
    PROVE  /\ Life(b) = "none" <=> batch[b].status = "none"
           /\ Life(b) = "gone" <=> batch[b].status = "cancelled"
           /\ Life(b) = "open" <=> Cancellable(b)
           /\ Life(b) = "held" <=> batch[b].status = "published" /\ ~Cancellable(b)
           /\ Life(b) \in {"none", "gone", "open", "held"}
  <1>1. batch[b] \in BatchRows \cup {NoBatch}
    BY DEF TypeOK
  <1>2. batch[b].status \in {"none", "draft", "published", "cancelled"}
    BY <1>1 DEF BatchRows, NoBatch
  <1> QED BY <1>2 DEF Life, Cancellable

LEMMA RightsAre ==
    ASSUME TypeOK, NEW b \in Batches, batch[b].status # "none"
    PROVE  /\ batch[b] \in BatchRows /\ batch[b].course \in Courses /\ Deliverer(b) \in Orgs
           /\ Right(b) = <<Deliverer(b), batch[b].course>> /\ Right(b) \in Orgs \X Courses
           /\ Right(b) \in Rights <=> MayDeliver(Deliverer(b), batch[b].course)
  <1>1. batch[b] \in BatchRows
    BY DEF TypeOK, NoBatch
  <1>2. batch[b].course \in Courses /\ Deliverer(b) \in Orgs
    BY <1>1, SellersAreOrgs DEF BatchRows, Deliverer
  <1>3. Right(b) = <<Deliverer(b), batch[b].course>>
    BY DEF Right
  <1> QED BY <1>1, <1>2, <1>3 DEF Rights

LEMMA StutterKeepsPromise ==
    ASSUME Rights' = Rights, UNCHANGED spared,
           \A b \in Batches : Life(b)' = Life(b) /\ Right(b)' = Right(b)
    PROVE  UNCHANGED Promised!vars
  BY DEF Promised!vars, Rights, Life, Right

LEMMA PlanKeepsPromise ==
    ASSUME NEW b \in Batches, Rights' = Rights, UNCHANGED spared, Life(b) = "none", Life(b)' = "open",
           Right(b)' \in Rights,
           \A e \in Batches : e # b => Life(e)' = Life(e) /\ Right(e)' = Right(e)
    PROVE  Promised!Next
  <1>2. /\ Lives[b] = "none" /\ Lives' = [Lives EXCEPT ![b] = "open"]
        /\ Rests' = [Rests EXCEPT ![b] = Right(b)']
    BY DEF Lives, Rests
  <1>1. Promised!Plan(b)
    BY <1>2 DEF Promised!Plan, Lives, Rests, Rights, Life, Right
  <1> QED BY <1>1 DEF Promised!Next

LEMMA SettleKeepsPromise ==
    ASSUME NEW b \in Batches, Rights' = Rights, UNCHANGED spared, Life(b) = "open", Life(b)' \in {"held", "gone"},
           \A e \in Batches : Right(e)' = Right(e),
           \A e \in Batches : e # b => Life(e)' = Life(e)
    PROVE  Promised!Next
  <1>2. /\ Lives[b] = "open" /\ Lives' = [Lives EXCEPT ![b] = Life(b)'] /\ Rests' = Rests
    BY DEF Lives, Rests
  <1>1. Promised!Settle(b)
    BY <1>2 DEF Promised!Settle, Lives, Rests, Rights, Life, Right
  <1> QED BY <1>1 DEF Promised!Next

\* What stays open without its right was spared before; what is spared has its
\* right.
LEMMA ChangeKeepsPromise ==
    ASSUME \A b \in Batches : Right(b)' = Right(b),
           NEW stays \in SUBSET {b \in spared : Life(b) = "open" /\ Right(b) \notin Rights'},
           stays \subseteq Batches,
           \A b \in Batches :
             Life(b)' = IF Life(b) = "open" /\ Right(b) \notin Rights' /\ b \notin stays
                        THEN "gone" ELSE Life(b),
           NEW more \in SUBSET {b \in Batches : Life(b) = "open" /\ Right(b) \in Rights'},
           spared' = spared \cup more
    PROVE  Promised!Next
  <1>1. Rights' \in SUBSET (Orgs \X Courses)
    BY DEF Rights
  <1> DEFINE open == {b \in Batches : Lives[b] = "open"}
             lost == {b \in open : Rests[b] \notin Rights'}
  <1>2. /\ Rests' = Rests
        /\ Lives' = [b \in Batches |-> IF b \in lost \ stays THEN "gone" ELSE Lives[b]]
        /\ stays \in SUBSET (lost \cap spared) /\ more \in SUBSET (open \ lost)
    BY DEF Lives, Rests
  <1>3. Promised!Change
    BY <1>1, <1>2 DEF Promised!Change, Lives, Rests, Rights, Life, Right
  <1> QED BY <1>3 DEF Promised!Next

LEMMA DeleteKeepsPromise ==
    ASSUME NEW c, c \in Courses, Rights' \subseteq Rights,
           \A right \in Rights \ Rights' : right[2] = c,
           \A b \in Batches :
             IF Life(b) # "none" /\ Right(b)[2] = c
             THEN Life(b)' = "none" /\ Right(b)' = None
             ELSE Life(b)' = Life(b) /\ Right(b)' = Right(b),
           spared \subseteq Batches, spared' \subseteq Batches,
           \A b \in Batches :
             b \in spared' <=> b \in spared /\ ~(Life(b) # "none" /\ Right(b)[2] = c)
    PROVE  Promised!Next
  <1> DEFINE goes == {b \in Batches : Lives[b] # "none" /\ Rests[b][2] = c}
  <1>3. /\ Lives' = [b \in Batches |-> IF b \in goes THEN "none" ELSE Lives[b]]
        /\ Rests' = [b \in Batches |-> IF b \in goes THEN None ELSE Rests[b]]
        /\ spared' = spared \ goes
    BY DEF Lives, Rests
  <1>1. Promised!Delete(c)
    BY <1>3 DEF Promised!Delete, Lives, Rests, Rights, Life, Right
  <1>2. <<Seller[c], c>> \in Orgs \X Courses /\ <<Seller[c], c>>[2] = c
    BY SellersAreOrgs
  <1> QED BY <1>1, <1>2 DEF Promised!Next

\* Steps that leave batches and arrangements alone.
LEMMA QuietKeeps ==
    ASSUME UNCHANGED <<batch, deal, spared>>
    PROVE  UNCHANGED Promised!vars
  <1>1. Rights' = Rights
    BY DEF Rights, MayDeliver, Covering
  <1>2. \A b \in Batches : Life(b)' = Life(b) /\ Right(b)' = Right(b)
    BY DEF Life, Right, Cancellable, Deliverer
  <1> QED BY <1>1, <1>2, StutterKeepsPromise

\* A step of one batch, which stays what it is, begins or is cancelled.
LEMMA BatchKeeps ==
    ASSUME TypeOK, TypeOK', NEW b \in Batches, UNCHANGED <<deal, spared>>,
           \A e \in Batches : e # b => batch'[e] = batch[e],
           batch[b].status # "none", batch'[b].status # "none",
           batch'[b].course = batch[b].course, batch'[b].centre = batch[b].centre,
           Life(b)' = Life(b) \/ (Life(b) = "open" /\ Life(b)' \in {"held", "gone"})
    PROVE  [Promised!Next]_(Promised!vars)
  <1>1. Rights' = Rights
    BY DEF Rights, MayDeliver, Covering
  <1>2. \A e \in Batches : e # b => Life(e)' = Life(e) /\ Right(e)' = Right(e)
    BY DEF Life, Right, Cancellable, Deliverer
  <1>3. Right(b)' = Right(b)
    BY DEF Right, Deliverer
  <1> QED BY <1>1, <1>2, <1>3, StutterKeepsPromise, SettleKeepsPromise

LEMMA PublishKeeps ==
    ASSUME Base, Base', NEW r \in Reqs, PublishBatch(r)
    PROVE  [Promised!Next]_(Promised!vars)
  <1>1. CASE UNCHANGED batch
    BY <1>1, QuietKeeps DEF PublishBatch
  <1>2. CASE ~UNCHANGED batch
    <2>0. PICK b \in Batches : b = req[r].batch
      BY DEF Base, Sound, PublishBatch
    <2>1. batch' = [batch EXCEPT ![b].status = "published"] /\ UNCHANGED <<deal, spared>>
      BY <1>2, <2>0 DEF PublishBatch
    <2>2. batch[b].status = "draft"
      BY <2>0 DEF Base, Sound, PublishBatch
    <2>3. batch \in [Batches -> BatchRows \cup {NoBatch}] /\ TypeOK /\ TypeOK'
      BY DEF Base, TypeOK
    <2>4. batch[b] \in BatchRows
      BY <2>2, <2>3 DEF NoBatch
    <2>5. /\ batch'[b] = [batch[b] EXCEPT !.status = "published"]
          /\ \A e \in Batches : e # b => batch'[e] = batch[e]
      BY <2>1, <2>2, <2>3
    <2>6. /\ batch'[b].course = batch[b].course /\ batch'[b].centre = batch[b].centre
          /\ batch'[b].status = "published"
      BY <2>4, <2>5 DEF BatchRows
    <2>7. Life(b) = "open" /\ Life(b)' \in {"open", "held"}
      BY <2>2, <2>6 DEF Life, Cancellable
    <2> QED BY <2>1, <2>2, <2>3, <2>5, <2>6, <2>7, BatchKeeps
  <1> QED BY <1>1, <1>2

LEMMA ByHandKeeps ==
    ASSUME Base, Base', NEW b \in Batches, UpdateBatch(b) \/ CancelBatch(b) \/ DayPasses(b)
    PROVE  [Promised!Next]_(Promised!vars)
  <1>1. /\ batch \in [Batches -> BatchRows \cup {NoBatch}] /\ TypeOK /\ TypeOK'
        /\ batch[b].status \in {"draft", "published"} /\ UNCHANGED <<deal, spared>>
    BY DEF UpdateBatch, CancelBatch, DayPasses, Cancellable, Base, TypeOK
  <1>2. batch[b] \in BatchRows
    BY <1>1 DEF NoBatch
  <1>3. \A e \in Batches : e # b => batch'[e] = batch[e]
    BY <1>1 DEF UpdateBatch, CancelBatch, DayPasses
  <1>4. batch'[b].course = batch[b].course /\ batch'[b].centre = batch[b].centre
    BY <1>1, <1>2 DEF UpdateBatch, CancelBatch, DayPasses, BatchRows
  <1>5. /\ batch'[b].status # "none"
        /\ Life(b)' = Life(b) \/ (Life(b) = "open" /\ Life(b)' \in {"held", "gone"})
    <2>1. CASE UpdateBatch(b)
      <3>1. batch'[b].status = batch[b].status /\ Cancellable(b)
        BY <1>1, <1>2, <2>1 DEF UpdateBatch, BatchRows
      <3> QED BY <1>1, <3>1 DEF Life, Cancellable
    <2>2. CASE CancelBatch(b)
      <3>1. batch'[b].status = "cancelled" /\ Cancellable(b)
        BY <1>1, <1>2, <2>2 DEF CancelBatch, BatchRows
      <3> QED BY <1>1, <3>1 DEF Life, Cancellable
    <2>3. CASE DayPasses(b)
      <3>1. batch'[b].status = batch[b].status /\ batch'[b].dates # "ahead"
        BY <1>1, <1>2, <2>3 DEF DayPasses, BatchRows
      <3> QED BY <1>1, <3>1 DEF Life, Cancellable
    <2> QED BY <2>1, <2>2, <2>3
  <1> QED BY <1>1, <1>3, <1>4, <1>5, BatchKeeps

LEMMA WriteKeeps ==
    ASSUME Base, Base', NEW r \in Reqs, WriteBatch(r)
    PROVE  [Promised!Next]_(Promised!vars)
  <1>0. UNCHANGED <<deal, spared>>
    BY DEF WriteBatch
  <1>1. CASE UNCHANGED batch
    BY <1>0, <1>1, QuietKeeps
  <1>2. CASE ~UNCHANGED batch
    <2>1. PICK b \in Batches :
            /\ batch[b].status = "none" /\ batch'[b].status = "draft"
            /\ \A e \in Batches : e # b => batch'[e] = batch[e]
            /\ \/ Seller[batch'[b].course] = Deliverer(b)'
               \/ \E d \in Deals : Keeps(d, b)'
      BY <1>2, WritesUnderCover
    <2>2. Rights' = Rights
      BY <1>0 DEF Rights, MayDeliver, Covering
    <2>3. \A e \in Batches : e # b => Life(e)' = Life(e) /\ Right(e)' = Right(e)
      BY <2>1 DEF Life, Right, Cancellable, Deliverer
    <2>4. Life(b) = "none" /\ Life(b)' = "open"
      BY <2>1 DEF Life, Cancellable
    <2>5. Right(b)' \in Rights'
      <3>1. MayDeliver(Deliverer(b), batch[b].course)'
        BY <2>1 DEF Keeps, MayDeliver
      <3>2. batch'[b] \in BatchRows
        BY <2>1 DEF Base, TypeOK, NoBatch
      <3>3. Deliverer(b)' \in Orgs /\ batch'[b].course \in Courses
        BY <3>2, SellersAreOrgs DEF Deliverer, BatchRows
      <3> QED BY <2>1, <3>1, <3>3 DEF Right, Rights
    <2> QED BY <1>0, <2>2, <2>3, <2>4, <2>5, PlanKeepsPromise
  <1> QED BY <1>1, <1>2

\* Arrangements change: what stays open is covered afterwards or was spared
\* before, what is cancelled is not covered, what is spared is.
LEMMA ChangeKeeps ==
    ASSUME Base, Base', Covered',
           \A b \in Batches :
             \/ batch'[b] = batch[b]
             \/ /\ Cancellable(b) /\ batch'[b].status = "cancelled"
                /\ batch'[b].course = batch[b].course /\ batch'[b].centre = batch[b].centre
                /\ ~MayDeliver(Deliverer(b), batch[b].course)',
           NEW more \in SUBSET Batches, spared' = spared \cup more,
           \A b \in more : /\ batch'[b] = batch[b] /\ Cancellable(b)
                           /\ MayDeliver(Deliverer(b), batch[b].course)'
    PROVE  Promised!Next
  <1>1. \A b \in Batches : Right(b)' = Right(b)
    BY DEF Right, Deliverer, Cancellable
  <1> DEFINE stays == {b \in Batches : /\ batch'[b] = batch[b] /\ Life(b) = "open"
                                       /\ Right(b) \notin Rights'}
  <1>2. ASSUME NEW b \in Batches, batch'[b] = batch[b], Life(b) = "open"
        PROVE  Right(b) \in Rights' <=> MayDeliver(Deliverer(b), batch[b].course)'
    <2>1. batch'[b].status # "none"
      BY <1>2, LifeIs DEF Base
    <2>2. Right(b)' \in Rights' <=> MayDeliver(Deliverer(b), batch[b].course)'
      <3>1. batch'[b] \in BatchRows
        BY <2>1 DEF Base, TypeOK, NoBatch
      <3>2. Deliverer(b)' \in Orgs /\ batch'[b].course \in Courses
        BY <3>1, SellersAreOrgs DEF Deliverer, BatchRows
      <3> QED BY <2>1, <3>2 DEF Right, Rights
    <2> QED BY <1>1, <2>2
  <1>3. stays \in SUBSET {b \in spared : Life(b) = "open" /\ Right(b) \notin Rights'}
    <2> SUFFICES ASSUME NEW b \in stays PROVE b \in spared
      OBVIOUS
    <2>1. Cancellable(b)'
      BY LifeIs DEF Base, Cancellable
    <2>2. ~MayDeliver(Deliverer(b), batch[b].course)'
      BY <1>2
    <2>3. b \in spared'
      BY <2>1, <2>2 DEF Covered, Accounted, Keeps, MayDeliver
    <2> QED BY <2>2, <2>3
  <1>4. more \in SUBSET {b \in Batches : Life(b) = "open" /\ Right(b) \in Rights'}
    BY <1>2, LifeIs DEF Base
  <1>5. ASSUME NEW b \in Batches
        PROVE  Life(b)' = IF Life(b) = "open" /\ Right(b) \notin Rights' /\ b \notin stays
                          THEN "gone" ELSE Life(b)
    <2>1. CASE batch'[b] = batch[b]
      <3>1. Life(b)' = Life(b)
        BY <2>1 DEF Life, Cancellable
      <3> QED BY <2>1, <3>1
    <2>2. CASE batch'[b] # batch[b]
      <3>1. Life(b) = "open" /\ Life(b)' = "gone"
        BY <2>2 DEF Life, Cancellable
      <3>2. ~MayDeliver(Deliverer(b), batch[b].course)' /\ batch'[b].status # "none"
        BY <2>2
      <3>3. Right(b)' \notin Rights'
        BY <3>2 DEF Right, Rights
      <3> QED BY <1>1, <2>2, <3>1, <3>3
    <2> QED BY <2>1, <2>2
  <1> HIDE DEF stays
  <1>6. stays \subseteq Batches
    BY DEF stays
  <1> QED BY <1>1, <1>3, <1>4, <1>5, <1>6, ChangeKeepsPromise

LEMMA DealKeeps ==
    ASSUME Base, Base', Covered', UNCHANGED <<batch, spared>>
    PROVE  Promised!Next
  <1> DEFINE more == {}
  <1>1. more \in SUBSET Batches /\ spared' = spared \cup more
    OBVIOUS
  <1>2. \A b \in more : /\ batch'[b] = batch[b] /\ Cancellable(b)
                        /\ MayDeliver(Deliverer(b), batch[b].course)'
    OBVIOUS
  <1> HIDE DEF more
  <1>3. \A b \in Batches : batch'[b] = batch[b]
    OBVIOUS
  <1> QED BY <1>1, <1>2, <1>3, ChangeKeeps

LEMMA EndRevokeKeeps ==
    ASSUME Base, Base', Covered', NEW r \in Reqs, EndRevoke(r)
    PROVE  Promised!Next
  <1> DEFINE d == req[r].deal
  <1>1. /\ req[r].stage = "sweeping"
        /\ deal' = [deal EXCEPT ![d].state = "revoked"]
        /\ batch' = [b \in Batches |->
                       IF b \in Doomed(r) THEN [batch[b] EXCEPT !.status = "cancelled"] ELSE batch[b]]
        /\ spared' = spared \cup SparedInVain(r)
    BY DEF EndRevoke
  <1>2. /\ d \in Deals /\ Standing(d) /\ deal[d] \in DealRows
        /\ <<deal[d].provider, deal[d].partner>> \in Pairs
    BY <1>1 DEF Base, TypeOK, Sound, Standing, DealsArePairs, NoDeal
  <1>3. /\ deal'[d].state = "revoked" /\ deal[d].provider # deal[d].partner
        /\ \A e \in Deals : e # d => deal'[e] = deal[e]
    <2>1. deal \in [Deals -> DealRows \cup {NoDeal}]
      BY DEF Base, TypeOK
    <2>2. deal'[d] = [deal[d] EXCEPT !.state = "revoked"] /\ \A e \in Deals : e # d => deal'[e] = deal[e]
      BY <1>1, <1>2, <2>1
    <2> QED BY <1>2, <2>2, PairsAreTwo DEF DealRows
  <1>4. ASSUME NEW b \in Batches, b \in Doomed(r)
        PROVE  /\ Cancellable(b) /\ batch'[b].status = "cancelled"
               /\ batch'[b].course = batch[b].course /\ batch'[b].centre = batch[b].centre
               /\ ~MayDeliver(Deliverer(b), batch[b].course)'
    <2>1. b \in Under(d) /\ batch[b] \in BatchRows
      BY <1>1, <1>4, DoomedAreHeld
    <2>2. batch'[b] = [batch[b] EXCEPT !.status = "cancelled"]
      BY <1>1, <1>4
    <2>3. /\ batch'[b].status = "cancelled"
          /\ batch'[b].course = batch[b].course /\ batch'[b].centre = batch[b].centre
      BY <2>1, <2>2 DEF BatchRows
    <2>4. Deliverer(b)' = Deliverer(b) /\ Seller[batch[b].course] # Deliverer(b) /\ Cancellable(b)
      BY <1>3, <2>1, <2>3 DEF Under, Deliverer
    <2>5. \A e \in Deals : e \in Covering(Deliverer(b), batch[b].course) => e = d
      BY <1>4 DEF Doomed
    <2>6. Covering(Deliverer(b), batch[b].course)' = {}
      BY <1>3, <2>3, <2>4, <2>5 DEF Covering
    <2> QED BY <2>3, <2>4, <2>6 DEF MayDeliver
  <1>5. \A b \in Batches : b \notin Doomed(r) => batch'[b] = batch[b]
    BY <1>1
  <1>6. ASSUME NEW b \in SparedInVain(r)
        PROVE  /\ b \in Batches /\ batch'[b] = batch[b] /\ Cancellable(b)
               /\ MayDeliver(Deliverer(b), batch[b].course)'
    <2>1. b \in Batches /\ b \notin Doomed(r) /\ b \in Under(d)
      BY <1>1 DEF SparedInVain, Base, Sound
    <2>2. batch'[b] = batch[b] /\ Cancellable(b) /\ Deliverer(b)' = Deliverer(b)
      BY <1>5, <2>1 DEF Under, Deliverer
    <2>3. PICK e \in Covering(Deliverer(b), batch[b].course) : e # d
      BY <2>1 DEF Doomed, SparedInVain
    <2>4. e \in Covering(Deliverer(b), batch[b].course)'
      BY <1>3, <2>2, <2>3 DEF Covering
    <2> QED BY <2>1, <2>2, <2>4 DEF MayDeliver
  <1>7. SparedInVain(r) \in SUBSET Batches
    BY <1>6
  <1> QED BY <1>1, <1>4, <1>5, <1>6, <1>7, ChangeKeeps

LEMMA DeleteKeeps ==
    ASSUME Base, Base', NEW r \in Reqs, DeleteCourse(r)
    PROVE  Promised!Next
  <1>1. PICK c \in Courses :
          /\ \A b \in Batches : batch'[b] = IF batch[b].course = c THEN NoBatch ELSE batch[b]
          /\ \A d \in Deals : deal'[d] = IF deal[d].scope = c THEN NoDeal ELSE deal[d]
          /\ \A b \in Batches : b \in spared' <=> b \in spared /\ batch[b].course # c
    BY Cascades
  <1>2. ASSUME NEW o \in Orgs, NEW l \in Courses
        PROVE  /\ MayDeliver(o, l)' => MayDeliver(o, l)
               /\ l # c => (MayDeliver(o, l) => MayDeliver(o, l)')
    <2>1. \A d \in Covering(o, l)' : d \in Covering(o, l)
      BY <1>1 DEF Covering, NoDeal
    <2>2. l # c => \A d \in Covering(o, l) : d \in Covering(o, l)'
      BY <1>1, NoneIsNothing DEF Covering
    <2> QED BY <2>1, <2>2 DEF MayDeliver
  <1>3. Rights' \subseteq Rights /\ \A right \in Rights \ Rights' : right[2] = c
    BY <1>2 DEF Rights
  <1>4. ASSUME NEW b \in Batches
        PROVE  /\ IF Life(b) # "none" /\ Right(b)[2] = c
                  THEN Life(b)' = "none" /\ Right(b)' = None
                  ELSE Life(b)' = Life(b) /\ Right(b)' = Right(b)
               /\ b \in spared' <=> b \in spared /\ ~(Life(b) # "none" /\ Right(b)[2] = c)
    <2>1. CASE batch[b].course = c
      <3>1. batch[b].status # "none"
        BY <1>1, <2>1, NoneIsNothing DEF Base, TypeOK, BatchRows, NoBatch
      <3>2. Life(b) # "none" /\ Right(b)[2] = c
        BY <2>1, <3>1, RightsAre, LifeIs DEF Base
      <3>3. batch'[b].status = "none"
        BY <1>1, <2>1 DEF NoBatch
      <3>4. Life(b)' = "none" /\ Right(b)' = None
        BY <3>3 DEF Life, Right, Cancellable
      <3> QED BY <1>1, <2>1, <3>2, <3>4
    <2>2. CASE batch[b].course # c
      <3>1. batch'[b] = batch[b]
        BY <1>1, <2>2
      <3>2. Life(b)' = Life(b) /\ Right(b)' = Right(b)
        BY <3>1 DEF Life, Right, Cancellable, Deliverer
      <3>3. Life(b) # "none" => Right(b)[2] # c
        BY <2>2, RightsAre, LifeIs DEF Base
      <3> QED BY <1>1, <2>2, <3>2, <3>3
    <2> QED BY <2>1, <2>2
  <1>5. spared \subseteq Batches /\ spared' \subseteq Batches
    BY DEF Base, TypeOK
  <1> QED BY <1>1, <1>3, <1>4, <1>5, DeleteKeepsPromise

LEMMA StepKeepsPromise ==
    ASSUME Base, Base', Covered, Covered', [Next]_vars
    PROVE  [Promised!Next]_(Promised!vars)
  <1>1. ASSUME NEW r \in Reqs, Request(r) PROVE [Promised!Next]_(Promised!vars)
    <2>1. CASE Reads(r) \/ Revoke(r) \/ SweepBatch(r)
      <3>1. UNCHANGED <<batch, deal, spared>>
        BY <2>1, ReadsAreQuiet DEF Revoke, SweepBatch, rows
      <3> QED BY <3>1, QuietKeeps
    <2>2. CASE WriteBatch(r) \/ PublishBatch(r)
      BY <2>2, WriteKeeps, PublishKeeps
    <2>3. CASE EndRevoke(r) \/ DeleteCourse(r)
      BY <2>3, EndRevokeKeeps, DeleteKeeps
    <2>4. CASE MakeDeal(r)
      BY <2>4, DealKeeps DEF MakeDeal
    <2> QED BY <1>1, <2>1, <2>2, <2>3, <2>4 DEF Request, Reads
  <1>2. ASSUME NEW d \in Deals, Answer(d) PROVE [Promised!Next]_(Promised!vars)
    BY <1>2, DealKeeps DEF Answer
  <1>3. ASSUME NEW b \in Batches, UpdateBatch(b) \/ CancelBatch(b) \/ DayPasses(b)
        PROVE  [Promised!Next]_(Promised!vars)
    BY <1>3, ByHandKeeps
  <1>4. CASE UNCHANGED <<batch, deal, spared>>
    BY <1>4, QuietKeeps
  <1> QED BY <1>1, <1>2, <1>3, <1>4
          DEF Next, vars, CreateCentre, CloseCentre, SetSells, SetDelivers, UnpublishCourse,
              TakeDownCourse, RestoreCourse

\* Planning, publishing and the sweeps, cut into requests, are together what
\* Standing promises of a batch: it loses its right and its life in one step,
\* however revocations overlap, but for one that was spared while it had both.
THEOREM KeepsItsPromise == Spec => Promise
  <1>1. Init => Promised!Init
    <2> SUFFICES ASSUME Init PROVE Promised!Init
      OBVIOUS
    <2>1. \A b \in Batches : batch[b].status = "none"
      BY DEF Init, NoBatch
    <2>2. Rests = [b \in Batches |-> None] /\ Lives = [b \in Batches |-> "none"]
      <3>1. \A b \in Batches : Right(b) = None /\ Life(b) = "none"
        BY <2>1 DEF Right, Life, Cancellable
      <3> QED BY <3>1 DEF Rests, Lives
    <2>3. Rights \subseteq Orgs \X Courses /\ spared = {}
      BY DEF Rights, Init
    <2> QED BY <2>2, <2>3 DEF Promised!Init, Rests, Lives, Right, Life, Rights
  <1>2. (Base /\ Covered) /\ (Base /\ Covered)' /\ [Next]_vars => [Promised!Next]_(Promised!vars)
    BY StepKeepsPromise
  <1> QED BY <1>1, <1>2, CoverageInvariance, PTL DEF Spec, Promise, Promised!Spec
=============================================================================

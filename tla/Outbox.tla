------------------------------- MODULE Outbox -------------------------------
(***************************************************************************)
(* The notices the product owes, and the worker that sends them.            *)
(*                                                                          *)
(* Models api/modules/notifications/service.py: enqueue, drain with         *)
(* _sweep_push, mark_read and purge_expired.  drain is a cron job run every *)
(* minute, and a tick that outlives its minute overlaps the next.  A tick   *)
(* is one transaction: it locks a batch of emails, sends them one by one,   *)
(* does the same for the pushes of in-app notices, and commits last.  What  *)
(* it has sent cannot be taken back by a rollback.                          *)
(***************************************************************************)
EXTENDS Integers, FiniteSets

CONSTANTS
    Emails, InApps,     \* notices of each channel, numbered by created_at
    Ticks,              \* drains that can run at the same time
    Limit,              \* how many rows one read takes
    MaxAttempts,        \* MAX_ATTEMPTS
    MaxCrashes          \* bound: ticks that die before they commit

Notices == Emails \cup InApps

ASSUME NoticesAreOrdered == Notices \subseteq Nat /\ Emails \cap InApps = {}
ASSUME LimitAtLeastOne == Limit \in Nat \ {0}
ASSUME MaxAttemptsAtLeastOne == MaxAttempts \in Nat \ {0}
ASSUME MaxCrashesIsNat == MaxCrashes \in Nat

VARIABLES
    row,        \* row[n]: the notifications row
    tick,       \* tick[t]: what each running drain has read, and will write
    sent,       \* external: sent[n], how often a provider has taken n
    lost,       \* history: how many of these were in ticks that died
    unheard,    \* history: how many of these the provider took and did not
                \* confirm: to the worker they are failures
    crashes

vars == <<row, tick, sent, lost, unheard, crashes>>

\* An in-app notice keeps its status; here its state is what became of its
\* push, whose pushed_at stamp says it needs no more looking at.
Settled == {"sent", "failed", "skipped"}
Rows == [state : {"unwritten", "pending", "purged"} \cup Settled, attempts : Nat,
         age : 0..2, read : BOOLEAN]
Outcomes == [state : {"pending"} \cup Settled, attempts : Nat]
Drains == [stage : {"idle", "email", "push"}, left : SUBSET Notices,
           wrote : UNION {[S -> Outcomes] : S \in SUBSET Notices}]
NothingWritten == [n \in {} |-> 0]
Idle == [stage |-> "idle", left |-> {}, wrote |-> NothingWritten]

\* What a tick has locked: the rows it still has to send and those it has.
Holds(t) == tick[t].left \cup DOMAIN tick[t].wrote

TypeOK ==
    /\ row \in [Notices -> Rows]
    /\ tick \in [Ticks -> Drains]
    /\ sent \in [Notices -> Nat] /\ lost \in [Notices -> Nat] /\ unheard \in [Notices -> Nat]
    /\ crashes \in 0..MaxCrashes

----------------------------------------------------------------------------
\* enqueue, committed with whatever it tells of.  created_at orders the rows.
Enqueue(n) ==
    /\ row[n].state = "unwritten"
    /\ \A m \in Notices : m < n => row[m].state # "unwritten"
    /\ row' = [row EXCEPT ![n].state = "pending"]
    /\ UNCHANGED <<tick, sent, lost, unheard, crashes>>

\* The Limit oldest members of S.
Oldest(S) == {n \in S : Cardinality({m \in S : m < n}) < Limit}

\* Slip: SELECT ... FOR UPDATE is left out, so an overlapping tick reads the
\* rows another is sending.
BatchWithoutLocks(channel) == Oldest({n \in channel : row[n].state = "pending"})

\* FOR UPDATE SKIP LOCKED: what another tick holds is not waited for.
Batch(channel) ==
    Oldest({n \in channel : row[n].state = "pending" /\ \A t \in Ticks : n \notin Holds(t)})

TickReads(t) ==
    /\ tick[t] = Idle
    /\ Batch(Emails) \cup Batch(InApps) # {}
    /\ tick' = [tick EXCEPT ![t] = [stage |-> "email", left |-> Batch(Emails), wrote |-> NothingWritten]]
    /\ UNCHANGED <<row, sent, lost, unheard, crashes>>

\* _sweep_push, once the emails are done.
TickReadsPushes(t) ==
    /\ tick[t].stage = "email" /\ tick[t].left = {}
    /\ tick' = [tick EXCEPT ![t].stage = "push", ![t].left = Batch(InApps)]
    /\ UNCHANGED <<row, sent, lost, unheard, crashes>>

\* Slip: the status is not set once the provider has taken the message.
AfterForgotten(x, how) ==
    IF how = "skipped" THEN [state |-> how, attempts |-> x.attempts]
    ELSE [attempts |-> x.attempts + 1,
          state |-> IF how = "dead" THEN "skipped"
                    ELSE IF how # "sent" /\ x.attempts + 1 >= MaxAttempts
                    THEN "failed" ELSE "pending"]

\* Slip: one try too many.
AfterOneMore(x, how) ==
    IF how = "skipped" THEN [state |-> how, attempts |-> x.attempts]
    ELSE [attempts |-> x.attempts + 1,
          state |-> IF how = "sent" THEN "sent"
                    ELSE IF how = "dead" THEN "skipped"
                    ELSE IF x.attempts + 1 > MaxAttempts THEN "failed" ELSE "pending"]

\* What an attempt leaves in the row: nobody to send to (known at once, or once
\* every phone has turned out to be dead), confirmed by the provider, or not, to
\* be tried again MaxAttempts times in all.
After(x, how) ==
    IF how = "skipped" THEN [state |-> how, attempts |-> x.attempts]
    ELSE [attempts |-> x.attempts + 1,
          state |-> IF how = "sent" THEN "sent"
                    ELSE IF how = "dead" THEN "skipped"
                    ELSE IF x.attempts + 1 >= MaxAttempts THEN "failed" ELSE "pending"]

\* How an attempt can end.  "unheard": the provider took the message and the
\* call raised all the same (a timeout, a connection lost before the reply).
Endings == Settled \cup {"dead", "unheard"}

\* The oldest of the batch.  Whether there is anybody to send to (an address,
\* an invitation still open, a phone, a consent) is resolved now; a push is
\* not sent for a notice past PUSH_WINDOW.  The except catches whatever the
\* provider raises and cannot tell a refusal from an answer that was lost:
\* After takes both for a failure.  render stands outside the try: if it
\* raises, the tick dies, as TickDies says.
Send(t) ==
    \E n \in tick[t].left, how \in Endings :
        /\ \A m \in tick[t].left : n <= m
        /\ how = "dead" => n \in InApps
        /\ n \in InApps /\ row[n].age > 0 => how = "skipped"
        /\ tick' = [tick EXCEPT ![t].left = @ \ {n},
                      ![t].wrote = [m \in DOMAIN @ \cup {n} |->
                                      IF m = n THEN After(row[n], how) ELSE @[m]]]
        /\ sent' = IF how \in {"sent", "unheard"} THEN [sent EXCEPT ![n] = @ + 1] ELSE sent
        /\ unheard' = IF how = "unheard" THEN [unheard EXCEPT ![n] = @ + 1] ELSE unheard
        /\ UNCHANGED <<row, lost, crashes>>

\* The commit is the last step.  The UPDATE names the columns drain sets, so a
\* notice read meanwhile stays read.
TickCommits(t) ==
    /\ tick[t].stage = "push" /\ tick[t].left = {}
    /\ row' = [n \in Notices |->
                 IF n \in DOMAIN tick[t].wrote
                 THEN [row[n] EXCEPT !.state = tick[t].wrote[n].state,
                                     !.attempts = tick[t].wrote[n].attempts]
                 ELSE row[n]]
    /\ tick' = [tick EXCEPT ![t] = Idle]
    /\ UNCHANGED <<sent, lost, unheard, crashes>>

SentBy(t) == {n \in DOMAIN tick[t].wrote : tick[t].wrote[n].state = "sent"}

\* Slip: the rows a dead tick had claimed stay claimed.
TickDiesHolding(t) ==
    /\ tick[t].stage \in {"email", "push"} /\ crashes < MaxCrashes
    /\ crashes' = crashes + 1
    /\ lost' = [n \in Notices |-> lost[n] + IF n \in SentBy(t) THEN 1 ELSE 0]
    /\ tick' = [tick EXCEPT ![t].stage = "dead"]
    /\ UNCHANGED <<row, sent, unheard>>

\* The worker is killed, or the database goes away: the transaction is rolled
\* back, and the messages it sent are not.
TickDies(t) ==
    /\ tick[t].stage \in {"email", "push"} /\ crashes < MaxCrashes
    /\ crashes' = crashes + 1
    /\ lost' = [n \in Notices |-> lost[n] + IF n \in SentBy(t) THEN 1 ELSE 0]
    /\ tick' = [tick EXCEPT ![t] = Idle]
    /\ UNCHANGED <<row, sent, unheard>>

\* mark_read: it waits for a tick that holds the row.
Read(n) ==
    /\ n \in InApps /\ row[n].state \in {"pending"} \cup Settled /\ ~row[n].read
    /\ \A t \in Ticks : n \notin Holds(t)
    /\ row' = [row EXCEPT ![n].read = TRUE]
    /\ UNCHANGED <<tick, sent, lost, unheard, crashes>>

\* Past the retention; for an in-app notice, past twice that as well.
Ages(n) ==
    /\ row[n].state \in {"pending"} \cup Settled /\ row[n].age < IF n \in Emails THEN 1 ELSE 2
    /\ row' = [row EXCEPT ![n].age = @ + 1]
    /\ UNCHANGED <<tick, sent, lost, unheard, crashes>>

\* Slip: whatever is old enough goes.
PurgeableByAge(n) == row[n].state \in {"pending"} \cup Settled /\ row[n].age > 0

\* An email once it is settled; an in-app notice by whether it was opened.
Purgeable(n) ==
    IF n \in Emails THEN row[n].state \in Settled /\ row[n].age > 0
    ELSE /\ row[n].state \in {"pending"} \cup Settled
         /\ row[n].age > IF row[n].read THEN 0 ELSE 1

\* purge_expired: its DELETE waits for a tick that holds one of the rows.
Purge ==
    /\ \E n \in Notices : Purgeable(n)
    /\ \A n \in Notices, t \in Ticks : Purgeable(n) => n \notin Holds(t)
    /\ row' = [n \in Notices |-> IF Purgeable(n) THEN [row[n] EXCEPT !.state = "purged"]
                                 ELSE row[n]]
    /\ UNCHANGED <<tick, sent, lost, unheard, crashes>>

----------------------------------------------------------------------------
Init ==
    /\ row = [n \in Notices |-> [state |-> "unwritten", attempts |-> 0, age |-> 0, read |-> FALSE]]
    /\ tick = [t \in Ticks |-> Idle]
    /\ sent = [n \in Notices |-> 0]
    /\ lost = [n \in Notices |-> 0]
    /\ unheard = [n \in Notices |-> 0]
    /\ crashes = 0

Work(t) == TickReads(t) \/ TickReadsPushes(t) \/ Send(t) \/ TickCommits(t)

Next ==
    \/ \E t \in Ticks : Work(t) \/ TickDies(t)
    \/ \E n \in Notices : Enqueue(n) \/ Read(n) \/ Ages(n)
    \/ Purge

Spec == Init /\ [][Next]_vars

\* The cron starts a drain every minute, and a drain runs to its commit: every
\* send ends, if only by the provider's timeout.
Fairness == \A t \in Ticks : WF_vars(Work(t))

FairSpec == Spec /\ Fairness
----------------------------------------------------------------------------
\* drain's comment: "at-least-once, never twice at once".  Two overlapping
\* ticks never hold the same notice.
NeverTwiceAtOnce == \A s, t \in Ticks : s # t => Holds(s) \cap Holds(t) = {}

\* A message goes out again only because a tick that had sent it died before
\* its commit, or because the provider took it and the answer was lost; a row
\* says sent only if it was.  However often that happens, nobody gets more
\* copies than there are tries, and one for each crash.
Accounted ==
    \A n \in Notices :
        /\ row[n].state # "purged" =>
             sent[n] = lost[n] + unheard[n] + (IF row[n].state = "sent" THEN 1 ELSE 0)
                               + Cardinality({t \in Ticks : n \in SentBy(t)})
        /\ sent[n] <= MaxAttempts + crashes

\* MAX_ATTEMPTS: a row is given up after exactly that many committed tries,
\* and not before.
RetriesEnd ==
    \A n \in Notices :
        /\ row[n].state = "pending" => row[n].attempts < MaxAttempts
        /\ row[n].state = "failed" => row[n].attempts = MaxAttempts

\* purge_expired: "A pending row is never touched, however old".  An email goes
\* from the table only once it was sent, failed or skipped.
OwedIsKept ==
    [][\A n \in Emails : row[n].state = "pending" => row'[n].state # "purged"]_vars

\* Every notice that is owed is sent, given up or found to have nobody to go
\* to, whatever fails before it in the queue.
EveryNoticeSettles == \A n \in Notices : row[n].state = "pending" ~> row[n].state # "pending"
=============================================================================

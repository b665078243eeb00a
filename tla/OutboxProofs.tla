---------------------------- MODULE OutboxProofs ----------------------------
(***************************************************************************)
(* What TLAPS proves of Outbox, for any number of notices, of overlapping   *)
(* drains and of crashes, and for all limits.                               *)
(***************************************************************************)
EXTENDS Outbox, FiniteSetTheorems, TLAPS

----------------------------------------------------------------------------
(* The inductive invariant.                                                 *)

\* A tick holds rows that are owed; it has not sent a row it still has to
\* send, and between drains it holds none.
HeldRowsAreOwed ==
    \A t \in Ticks :
        /\ \A n \in Holds(t) : row[n].state = "pending"
        /\ tick[t].left \cap DOMAIN tick[t].wrote = {}
        /\ tick[t].stage = "idle" => Holds(t) = {}

\* What a tick is going to write keeps the limit on attempts.
OutcomesEnd ==
    \A t \in Ticks : \A n \in DOMAIN tick[t].wrote :
        /\ tick[t].wrote[n].state = "pending" => tick[t].wrote[n].attempts < MaxAttempts
        /\ tick[t].wrote[n].state = "failed" => tick[t].wrote[n].attempts = MaxAttempts

\* n was sent by the tick that holds it, which has not committed.
InFlight(n) == \E t \in Ticks : n \in SentBy(t)

\* The books, with the tick that sent a notice in place of a count of ticks.
Books ==
    \A n \in Notices : row[n].state # "purged" =>
        sent[n] = lost[n] + unheard[n] + (IF row[n].state = "sent" \/ InFlight(n) THEN 1 ELSE 0)

\* A try makes one copy at most, and a crash forgets one try at most.
TriesCover ==
    /\ \A n \in Notices : row[n].attempts <= MaxAttempts
    /\ \A t \in Ticks : \A n \in DOMAIN tick[t].wrote :
         /\ tick[t].wrote[n].attempts <= MaxAttempts
         /\ tick[t].wrote[n].attempts <= row[n].attempts + 1
         /\ sent[n] <= crashes + tick[t].wrote[n].attempts
    /\ \A n \in Notices :
         (\A t \in Ticks : n \notin DOMAIN tick[t].wrote) => sent[n] <= crashes + row[n].attempts

\* Nothing was tried before it was owed.
NewRowsAreUntried == \A n \in Notices : row[n].state = "unwritten" => row[n].attempts = 0

IInv == /\ TypeOK /\ NeverTwiceAtOnce /\ HeldRowsAreOwed /\ RetriesEnd /\ OutcomesEnd
        /\ Books /\ TriesCover /\ NewRowsAreUntried

----------------------------------------------------------------------------
(* The ticks.                                                               *)

\* What a tick holds is notices.
LEMMA HeldAreNotices ==
    ASSUME TypeOK, NEW t \in Ticks
    PROVE  /\ tick[t].left \subseteq Notices
           /\ DOMAIN tick[t].wrote \subseteq Notices
           /\ \A n \in DOMAIN tick[t].wrote : tick[t].wrote[n] \in Outcomes
           /\ SentBy(t) \subseteq DOMAIN tick[t].wrote
  <1>1. tick[t].left \in SUBSET Notices
        /\ tick[t].wrote \in UNION {[S -> Outcomes] : S \in SUBSET Notices}
    BY DEF TypeOK, Drains
  <1>2. PICK S \in SUBSET Notices : tick[t].wrote \in [S -> Outcomes]
    BY <1>1
  <1> QED BY <1>1, <1>2 DEF SentBy

\* A batch is owed rows that no tick holds.
LEMMA BatchIsFree ==
    ASSUME NEW C \in SUBSET Notices
    PROVE  /\ Batch(C) \subseteq C
           /\ \A n \in Batch(C) : row[n].state = "pending"
                                  /\ \A t \in Ticks : n \notin Holds(t)
  BY DEF Batch, Oldest

\* Nothing is held by an idle tick.
LEMMA IdleHoldsNothing ==
    /\ DOMAIN NothingWritten = {} /\ Idle.left = {} /\ Idle.wrote = NothingWritten
    /\ Idle.stage = "idle"
    /\ NothingWritten \in UNION {[S -> Outcomes] : S \in SUBSET Notices}
  <1>1. NothingWritten \in [{} -> Outcomes]
    BY DEF NothingWritten
  <1>2. {} \in SUBSET Notices
    OBVIOUS
  <1>3. [{} -> Outcomes] \in {[S -> Outcomes] : S \in SUBSET Notices}
    BY <1>2
  <1> QED BY <1>1, <1>3 DEF NothingWritten, Idle

LEMMA InitInvariant == Init => IInv
  <1> SUFFICES ASSUME Init PROVE IInv
    OBVIOUS
  <1>1. \A t \in Ticks : tick[t].left = {} /\ DOMAIN tick[t].wrote = {}
                         /\ tick[t].stage = "idle"
    BY IdleHoldsNothing DEF Init
  <1>2. TypeOK
    <2>1. row \in [Notices -> Rows] /\ sent \in [Notices -> Nat] /\ lost \in [Notices -> Nat]
        /\ unheard \in [Notices -> Nat]
      BY DEF Init, Rows
    <2>2. Idle \in Drains
      <3> QED BY IdleHoldsNothing DEF Idle, Drains
    <2> QED BY <2>1, <2>2, MaxCrashesIsNat DEF TypeOK, Init
  <1>3. NeverTwiceAtOnce /\ HeldRowsAreOwed /\ OutcomesEnd
    BY <1>1 DEF NeverTwiceAtOnce, HeldRowsAreOwed, OutcomesEnd, Holds
  <1>4. RetriesEnd
    BY DEF Init, RetriesEnd
  <1>5. Books
    BY <1>1 DEF Init, Books, InFlight, SentBy
  <1>6. NewRowsAreUntried
    BY DEF Init, NewRowsAreUntried
  <1>7. TriesCover
    BY <1>1, MaxAttemptsAtLeastOne DEF Init, TriesCover
  <1> QED BY <1>2, <1>3, <1>4, <1>5, <1>6, <1>7 DEF IInv
----------------------------------------------------------------------------
(* Steps that touch no tick.                                                *)

\* A step that changes rows no tick holds, and lets none of them be sent or
\* given up, keeps the invariant.
LEMMA RowStep ==
    ASSUME IInv, UNCHANGED <<tick, sent, lost, unheard, crashes>>,
           row' \in [Notices -> Rows],
           \A n \in Notices :
               /\ row'[n].attempts = row[n].attempts
               /\ \/ row'[n].state = row[n].state
                  \/ row'[n].state = "purged" /\ \A t \in Ticks : n \notin Holds(t)
                  \/ row[n].state = "unwritten" /\ row'[n].state = "pending"
    PROVE  IInv'
  <1> USE DEF IInv
  <1>1. TypeOK'
    BY DEF TypeOK
  <1>2. \A t \in Ticks : Holds(t)' = Holds(t) /\ SentBy(t)' = SentBy(t)
    BY DEF Holds, SentBy
  <1>3. NeverTwiceAtOnce' /\ OutcomesEnd'
    BY <1>2 DEF NeverTwiceAtOnce, OutcomesEnd
  <1>4. \A t \in Ticks : Holds(t) \subseteq Notices
    BY HeldAreNotices DEF Holds
  <1>5. HeldRowsAreOwed'
    BY <1>2, <1>4 DEF HeldRowsAreOwed
  <1>6. RetriesEnd'
    BY MaxAttemptsAtLeastOne DEF RetriesEnd, NewRowsAreUntried
  <1>7. Books'
    BY <1>2 DEF Books, InFlight
  <1>8. NewRowsAreUntried'
    BY DEF NewRowsAreUntried
  <1>9. TriesCover'
    <2>1. \A t \in Ticks : DOMAIN tick[t].wrote \subseteq Notices
      BY HeldAreNotices
    <2> QED BY <2>1 DEF TriesCover
  <1> QED BY <1>1, <1>3, <1>5, <1>6, <1>7, <1>8, <1>9
----------------------------------------------------------------------------
(* Steps of a tick.                                                         *)

\* What a tick may hold after a step: what it held, or rows nobody held.
LEMMA TickStep ==
    ASSUME IInv, NEW t \in Ticks,
           tick' \in [Ticks -> Drains],
           \A s \in Ticks : s # t => tick'[s] = tick[s],
           \A n \in Holds(t)' :
               /\ n \in Holds(t) \/ \A s \in Ticks : n \notin Holds(s)
               /\ row'[n].state = "pending",
           \A s \in Ticks : s # t => \A n \in Holds(s) : row'[n].state = row[n].state,
           tick'[t].left \cap DOMAIN tick'[t].wrote = {},
           tick'[t].stage = "idle" => Holds(t)' = {},
           \A n \in DOMAIN tick'[t].wrote :
               /\ tick'[t].wrote[n].state = "pending"
                    => tick'[t].wrote[n].attempts < MaxAttempts
               /\ tick'[t].wrote[n].state = "failed"
                    => tick'[t].wrote[n].attempts = MaxAttempts
    PROVE  /\ NeverTwiceAtOnce' /\ HeldRowsAreOwed' /\ OutcomesEnd'
           /\ \A s \in Ticks : s # t => SentBy(s)' = SentBy(s)
  <1>1. \A s \in Ticks : s # t => Holds(s)' = Holds(s) /\ SentBy(s)' = SentBy(s)
    BY DEF Holds, SentBy
  <1>2. NeverTwiceAtOnce'
    <2> SUFFICES ASSUME NEW r \in Ticks, NEW s \in Ticks, r # s
                 PROVE  Holds(r)' \cap Holds(s)' = {}
      BY DEF NeverTwiceAtOnce
    <2>1. CASE r = t
      BY <1>1, <2>1 DEF IInv, NeverTwiceAtOnce
    <2>2. CASE s = t
      BY <1>1, <2>2 DEF IInv, NeverTwiceAtOnce
    <2>3. CASE r # t /\ s # t
      BY <1>1, <2>3 DEF IInv, NeverTwiceAtOnce
    <2> QED BY <2>1, <2>2, <2>3
  <1>3. HeldRowsAreOwed'
    <2> SUFFICES ASSUME NEW s \in Ticks
                 PROVE  /\ \A n \in Holds(s)' : row'[n].state = "pending"
                        /\ tick'[s].left \cap DOMAIN tick'[s].wrote = {}
                        /\ tick'[s].stage = "idle" => Holds(s)' = {}
      BY DEF HeldRowsAreOwed
    <2>1. CASE s = t
      BY <2>1
    <2>2. CASE s # t
      BY <1>1, <2>2 DEF IInv, HeldRowsAreOwed
    <2> QED BY <2>1, <2>2
  <1>4. OutcomesEnd'
    BY DEF IInv, OutcomesEnd
  <1> QED BY <1>1, <1>2, <1>3, <1>4

\* A step that leaves the table and the providers alone, and sends nothing.
LEMMA QuietStep ==
    ASSUME IInv, UNCHANGED <<row, sent, lost, unheard, crashes>>,
           \A s \in Ticks : tick'[s].wrote = tick[s].wrote,
           tick' \in [Ticks -> Drains],
           NeverTwiceAtOnce', HeldRowsAreOwed', OutcomesEnd'
    PROVE  IInv'
  <1>1. TypeOK'
    BY DEF IInv, TypeOK
  <1>2. RetriesEnd' /\ NewRowsAreUntried'
    BY DEF IInv, RetriesEnd, NewRowsAreUntried
  <1>3. Books'
    BY DEF IInv, Books, InFlight, SentBy
  <1>4. TriesCover'
    BY DEF IInv, TriesCover
  <1> QED BY <1>1, <1>2, <1>3, <1>4 DEF IInv

LEMMA TickReadsStep ==
    ASSUME IInv, NEW t \in Ticks, TickReads(t)
    PROVE  IInv'
  <1>1. tick \in [Ticks -> Drains] /\ tick[t] = Idle /\ UNCHANGED <<row, sent, lost, unheard, crashes>>
        /\ tick' = [tick EXCEPT ![t] =
                      [stage |-> "email", left |-> Batch(Emails), wrote |-> NothingWritten]]
    BY DEF IInv, TypeOK, TickReads
  <1>2. tick'[t] = [stage |-> "email", left |-> Batch(Emails), wrote |-> NothingWritten]
        /\ \A s \in Ticks : s # t => tick'[s] = tick[s]
    BY <1>1
  <1>3. Batch(Emails) \in SUBSET Notices
    BY BatchIsFree DEF Notices
  <1>4. tick'[t] \in Drains
    BY <1>2, <1>3, IdleHoldsNothing DEF Drains
  <1>5. tick' \in [Ticks -> Drains]
    BY <1>1, <1>2, <1>4
  <1>6. DOMAIN tick'[t].wrote = {} /\ Holds(t)' = Batch(Emails) /\ tick'[t].stage # "idle"
    BY <1>2, IdleHoldsNothing DEF Holds
  <1>7. Emails \in SUBSET Notices
    BY DEF Notices
  <1>8. \A n \in Batch(Emails) : row'[n].state = "pending" /\ \A s \in Ticks : n \notin Holds(s)
    BY <1>1, <1>7, BatchIsFree
  <1>9. /\ NeverTwiceAtOnce' /\ HeldRowsAreOwed' /\ OutcomesEnd'
        /\ \A s \in Ticks : s # t => SentBy(s)' = SentBy(s)
    BY <1>1, <1>2, <1>5, <1>6, <1>8, TickStep
  <1>10. \A s \in Ticks : tick'[s].wrote = tick[s].wrote
    BY <1>1, <1>2, IdleHoldsNothing
  <1> QED BY <1>1, <1>5, <1>9, <1>10, QuietStep

LEMMA TickReadsPushesStep ==
    ASSUME IInv, NEW t \in Ticks, TickReadsPushes(t)
    PROVE  IInv'
  <1>1. tick \in [Ticks -> Drains] /\ tick[t].left = {} /\ UNCHANGED <<row, sent, lost, unheard, crashes>>
        /\ tick' = [tick EXCEPT ![t].stage = "push", ![t].left = Batch(InApps)]
    BY DEF IInv, TypeOK, TickReadsPushes
  <1>2. tick[t] \in Drains
    BY <1>1
  <1>3. tick'[t] = [tick[t] EXCEPT !.stage = "push", !.left = Batch(InApps)]
        /\ \A s \in Ticks : s # t => tick'[s] = tick[s]
    BY <1>1
  <1>4. Batch(InApps) \in SUBSET Notices
    BY BatchIsFree DEF Notices
  <1>5. /\ tick'[t] \in Drains /\ tick'[t].stage = "push"
        /\ tick'[t].left = Batch(InApps) /\ tick'[t].wrote = tick[t].wrote
    BY <1>2, <1>3, <1>4 DEF Drains
  <1>6. tick' \in [Ticks -> Drains]
    BY <1>1, <1>3, <1>5
  <1>7. Holds(t)' = Batch(InApps) \cup DOMAIN tick[t].wrote /\ DOMAIN tick[t].wrote \subseteq Holds(t)
    BY <1>5 DEF Holds
  <1>8. InApps \in SUBSET Notices
    BY DEF Notices
  <1>9. \A n \in Batch(InApps) : row'[n].state = "pending" /\ \A s \in Ticks : n \notin Holds(s)
    BY <1>1, <1>8, BatchIsFree
  <1>10. \A n \in Holds(t) : row'[n].state = "pending"
    BY <1>1 DEF IInv, HeldRowsAreOwed
  <1>11. tick'[t].left \cap DOMAIN tick'[t].wrote = {}
    BY <1>5, <1>7, <1>9
  <1>12. \A n \in DOMAIN tick'[t].wrote :
           /\ tick'[t].wrote[n].state = "pending" => tick'[t].wrote[n].attempts < MaxAttempts
           /\ tick'[t].wrote[n].state = "failed" => tick'[t].wrote[n].attempts = MaxAttempts
    BY <1>5 DEF IInv, OutcomesEnd
  <1>13. \A n \in Holds(t)' :
           /\ n \in Holds(t) \/ \A s \in Ticks : n \notin Holds(s)
           /\ row'[n].state = "pending"
    BY <1>7, <1>9, <1>10
  <1>14. /\ NeverTwiceAtOnce' /\ HeldRowsAreOwed' /\ OutcomesEnd'
         /\ \A s \in Ticks : s # t => SentBy(s)' = SentBy(s)
    BY <1>1, <1>3, <1>5, <1>6, <1>11, <1>12, <1>13, TickStep
  <1>15. \A s \in Ticks : tick'[s].wrote = tick[s].wrote
    BY <1>3, <1>5
  <1> QED BY <1>1, <1>6, <1>14, <1>15, QuietStep

\* What an attempt leaves is an outcome that keeps the limit on attempts, and
\* says sent just when the provider took the message.
LEMMA AfterEnds ==
    ASSUME NEW x \in Rows, x.attempts < MaxAttempts, NEW how \in Endings
    PROVE  /\ After(x, how) \in Outcomes
           /\ After(x, how).state = "pending" => After(x, how).attempts < MaxAttempts
           /\ After(x, how).state = "failed" => After(x, how).attempts = MaxAttempts
           /\ After(x, how).state = "sent" <=> how = "sent"
           /\ After(x, how).attempts = IF how = "skipped" THEN x.attempts ELSE x.attempts + 1
  BY MaxAttemptsAtLeastOne DEF After, Rows, Outcomes, Settled, Endings

LEMMA SendStep ==
    ASSUME IInv, NEW t \in Ticks, Send(t)
    PROVE  IInv'
  <1>1. PICK n \in tick[t].left, how \in Endings :
          /\ tick' = [tick EXCEPT ![t].left = @ \ {n},
                        ![t].wrote = [m \in DOMAIN @ \cup {n} |->
                                        IF m = n THEN After(row[n], how) ELSE @[m]]]
          /\ sent' = IF how \in {"sent", "unheard"} THEN [sent EXCEPT ![n] = @ + 1] ELSE sent
          /\ unheard' = IF how = "unheard" THEN [unheard EXCEPT ![n] = @ + 1] ELSE unheard
          /\ UNCHANGED <<row, lost, crashes>>
    BY DEF Send
  <1>2. tick \in [Ticks -> Drains] /\ tick[t] \in Drains
    BY DEF IInv, TypeOK
  <1>3. tick[t].left \subseteq Notices /\ DOMAIN tick[t].wrote \subseteq Notices
        /\ \A m \in DOMAIN tick[t].wrote : tick[t].wrote[m] \in Outcomes
    BY HeldAreNotices DEF IInv
  <1>4. n \in Notices /\ n \in Holds(t) /\ row[n].state = "pending" /\ n \notin DOMAIN tick[t].wrote
        /\ row[n] \in Rows /\ row[n].attempts < MaxAttempts
    BY <1>3 DEF IInv, TypeOK, HeldRowsAreOwed, Holds, RetriesEnd
  <1> DEFINE wrote == [m \in DOMAIN tick[t].wrote \cup {n} |->
                         IF m = n THEN After(row[n], how) ELSE tick[t].wrote[m]]
  <1>5. tick'[t] = [tick[t] EXCEPT !.left = @ \ {n}, !.wrote = wrote]
        /\ \A s \in Ticks : s # t => tick'[s] = tick[s]
    BY <1>1, <1>2
  <1>6. /\ After(row[n], how) \in Outcomes
        /\ After(row[n], how).state = "pending" => After(row[n], how).attempts < MaxAttempts
        /\ After(row[n], how).state = "failed" => After(row[n], how).attempts = MaxAttempts
        /\ After(row[n], how).state = "sent" <=> how = "sent"
        /\ After(row[n], how).attempts = IF how = "skipped" THEN row[n].attempts
                                                          ELSE row[n].attempts + 1
    BY <1>4, AfterEnds
  <1>7. wrote \in UNION {[S -> Outcomes] : S \in SUBSET Notices}
    <2>1. wrote \in [DOMAIN tick[t].wrote \cup {n} -> Outcomes]
      BY <1>3, <1>6
    <2>2. DOMAIN tick[t].wrote \cup {n} \in SUBSET Notices
      BY <1>3, <1>4
    <2> HIDE DEF wrote
    <2> QED BY <2>1, <2>2
  <1>8. /\ DOMAIN wrote = DOMAIN tick[t].wrote \cup {n} /\ wrote[n] = After(row[n], how)
        /\ \A m \in DOMAIN tick[t].wrote : m # n => wrote[m] = tick[t].wrote[m]
    OBVIOUS
  <1> HIDE DEF wrote
  <1>9. /\ tick'[t].left = tick[t].left \ {n} /\ tick'[t].wrote = wrote
        /\ tick'[t].stage = tick[t].stage /\ tick'[t] \in Drains
    BY <1>2, <1>3, <1>5, <1>7 DEF Drains
  <1>10. tick' \in [Ticks -> Drains]
    BY <1>1, <1>2, <1>5, <1>9
  <1>11. Holds(t)' = Holds(t)
    BY <1>4, <1>8, <1>9 DEF Holds
  <1>12. tick'[t].left \cap DOMAIN tick'[t].wrote = {}
    BY <1>8, <1>9 DEF IInv, HeldRowsAreOwed
  <1>13. \A m \in DOMAIN tick'[t].wrote :
           /\ tick'[t].wrote[m].state = "pending" => tick'[t].wrote[m].attempts < MaxAttempts
           /\ tick'[t].wrote[m].state = "failed" => tick'[t].wrote[m].attempts = MaxAttempts
    BY <1>6, <1>8, <1>9 DEF IInv, OutcomesEnd
  <1>14. \A m \in Holds(t) : row[m].state = "pending"
    BY DEF IInv, HeldRowsAreOwed
  <1>15. tick'[t].stage = "idle" => Holds(t)' = {}
    BY <1>4, <1>9 DEF IInv, HeldRowsAreOwed
  <1>a. row' = row /\ \A m \in Holds(t)' : m \in Holds(t) /\ row'[m].state = "pending"
    BY <1>1, <1>11, <1>14
  <1>b. \A s \in Ticks : s # t => tick'[s] = tick[s]
    BY <1>5
  <1>16. /\ NeverTwiceAtOnce' /\ HeldRowsAreOwed' /\ OutcomesEnd'
         /\ \A s \in Ticks : s # t => SentBy(s)' = SentBy(s)
    BY <1>10, <1>12, <1>13, <1>15, <1>a, <1>b, TickStep
  <1>17. \A m \in Notices : m # n => (m \in SentBy(t)' <=> m \in SentBy(t))
    BY <1>8, <1>9 DEF SentBy
  <1>18. n \in SentBy(t)' <=> how = "sent"
    BY <1>6, <1>8, <1>9 DEF SentBy
  <1>19. /\ sent \in [Notices -> Nat] /\ sent' \in [Notices -> Nat]
         /\ unheard \in [Notices -> Nat] /\ unheard' \in [Notices -> Nat]
         /\ \A m \in Notices :
              /\ sent'[m] = IF m = n /\ how \in {"sent", "unheard"} THEN sent[m] + 1 ELSE sent[m]
              /\ unheard'[m] = IF m = n /\ how = "unheard" THEN unheard[m] + 1 ELSE unheard[m]
    BY <1>1, <1>4 DEF IInv, TypeOK
  <1>20. TypeOK' /\ RetriesEnd' /\ NewRowsAreUntried'
    BY <1>1, <1>10, <1>19 DEF IInv, TypeOK, RetriesEnd, NewRowsAreUntried
  <1>21. ~InFlight(n)
    <2>1. \A s \in Ticks : SentBy(s) \subseteq Holds(s)
      BY DEF SentBy, Holds
    <2>2. \A s \in Ticks : s # t => n \notin Holds(s)
      BY <1>4 DEF IInv, NeverTwiceAtOnce
    <2> QED BY <1>4, <2>1, <2>2 DEF InFlight, SentBy
  <1>22. InFlight(n)' <=> how = "sent"
    BY <1>16, <1>18, <1>21 DEF InFlight
  <1>23. \A m \in Notices : m # n => (InFlight(m)' <=> InFlight(m))
    BY <1>16, <1>17 DEF InFlight
  <1>24. ASSUME NEW m \in Notices, row'[m].state # "purged"
         PROVE  sent'[m] = lost'[m] + unheard'[m]
                          + (IF row'[m].state = "sent" \/ InFlight(m)' THEN 1 ELSE 0)
    <2>1. lost[m] \in Nat /\ row'[m] = row[m] /\ lost'[m] = lost[m]
      BY <1>1 DEF IInv, TypeOK
    <2>2. sent[m] = lost[m] + unheard[m] + (IF row[m].state = "sent" \/ InFlight(m) THEN 1 ELSE 0)
      BY <1>24, <2>1 DEF IInv, Books
    <2>3. CASE m = n
      BY <1>4, <1>19, <1>21, <1>22, <2>1, <2>2, <2>3
    <2>4. CASE m # n
      BY <1>19, <1>23, <2>1, <2>2, <2>4
    <2> QED BY <2>3, <2>4
  <1>25. Books'
    BY <1>24 DEF Books
  <1>26. crashes' = crashes /\ row' = row /\ crashes \in Nat
         /\ \A m \in Notices : row[m].attempts \in Nat /\ sent[m] \in Nat
    BY <1>1, MaxCrashesIsNat DEF IInv, TypeOK, Rows
  <1>27. \A s \in Ticks : n \notin DOMAIN tick[s].wrote
    BY <1>4 DEF IInv, NeverTwiceAtOnce, Holds
  <1>28. sent[n] <= crashes + row[n].attempts
    BY <1>4, <1>27 DEF IInv, TriesCover
  <1>29. TriesCover'
    <2>1. ASSUME NEW s \in Ticks, NEW m \in DOMAIN tick'[s].wrote
          PROVE  /\ tick'[s].wrote[m].attempts <= MaxAttempts
                 /\ tick'[s].wrote[m].attempts <= row[m].attempts + 1
                 /\ sent'[m] <= crashes + tick'[s].wrote[m].attempts
      <3>1. CASE s = t /\ m = n
        BY <1>4, <1>6, <1>8, <1>9, <1>19, <1>26, <1>28, <3>1, MaxAttemptsAtLeastOne
      <3>2. CASE ~(s = t /\ m = n)
        <4>1. m \in DOMAIN tick[s].wrote /\ m # n /\ tick'[s].wrote[m] = tick[s].wrote[m]
          BY <1>5, <1>8, <1>9, <1>27, <2>1, <3>2
        <4>2. m \in Notices
          BY <4>1, HeldAreNotices DEF IInv
        <4> QED BY <1>19, <4>1, <4>2 DEF IInv, TriesCover
      <3> QED BY <3>1, <3>2
    <2>2. ASSUME NEW m \in Notices, \A s \in Ticks : m \notin DOMAIN tick'[s].wrote
          PROVE  sent'[m] <= crashes + row[m].attempts
      <3>1. m # n /\ \A s \in Ticks : m \notin DOMAIN tick[s].wrote
        BY <1>5, <1>8, <1>9, <2>2
      <3> QED BY <1>19, <3>1 DEF IInv, TriesCover
    <2> QED BY <1>26, <2>1, <2>2 DEF IInv, TriesCover
  <1> QED BY <1>16, <1>20, <1>25, <1>29 DEF IInv
LEMMA TickCommitsStep ==
    ASSUME IInv, NEW t \in Ticks, TickCommits(t)
    PROVE  IInv'
  <1> DEFINE wrote == tick[t].wrote
  <1>1. /\ tick[t].stage = "push" /\ tick[t].left = {} /\ UNCHANGED <<sent, lost, unheard, crashes>>
        /\ row' = [n \in Notices |->
                     IF n \in DOMAIN wrote
                     THEN [row[n] EXCEPT !.state = wrote[n].state, !.attempts = wrote[n].attempts]
                     ELSE row[n]]
        /\ tick' = [tick EXCEPT ![t] = Idle]
    BY DEF TickCommits
  <1>2. tick \in [Ticks -> Drains] /\ row \in [Notices -> Rows]
        /\ sent \in [Notices -> Nat] /\ lost \in [Notices -> Nat]
        /\ unheard \in [Notices -> Nat]
    BY DEF IInv, TypeOK
  <1>3. DOMAIN wrote \subseteq Notices /\ \A n \in DOMAIN wrote : wrote[n] \in Outcomes
    BY HeldAreNotices DEF IInv
  <1>4. tick'[t] = Idle /\ \A s \in Ticks : s # t => tick'[s] = tick[s]
    BY <1>1, <1>2
  <1>5. Idle \in Drains
    BY IdleHoldsNothing DEF Idle, Drains
  <1>6. tick' \in [Ticks -> Drains]
    BY <1>1, <1>2, <1>5
  <1>7. Holds(t)' = {} /\ DOMAIN tick'[t].wrote = {} /\ SentBy(t)' = {}
    BY <1>4, IdleHoldsNothing DEF Holds, SentBy
  <1> HIDE DEF wrote
  <1>8. \A n \in Notices :
          /\ n \in DOMAIN wrote => /\ row'[n].state = wrote[n].state
                                  /\ row'[n].attempts = wrote[n].attempts
                                  /\ row'[n] \in Rows
          /\ n \notin DOMAIN wrote => row'[n] = row[n]
    BY <1>1, <1>2, <1>3 DEF Rows, Outcomes
  <1>9. DOMAIN wrote = Holds(t)
    BY <1>1 DEF Holds, wrote
  <1>10. \A s \in Ticks : s # t => \A n \in Holds(s) : row'[n].state = row[n].state
    <2> SUFFICES ASSUME NEW s \in Ticks, s # t, NEW n \in Holds(s)
                 PROVE  row'[n].state = row[n].state
      OBVIOUS
    <2>1. n \notin DOMAIN wrote
      BY <1>9 DEF IInv, NeverTwiceAtOnce
    <2>2. n \in Notices
      BY HeldAreNotices DEF IInv, Holds
    <2> QED BY <1>8, <2>1, <2>2
  <1>11. /\ NeverTwiceAtOnce' /\ HeldRowsAreOwed' /\ OutcomesEnd'
         /\ \A s \in Ticks : s # t => SentBy(s)' = SentBy(s)
    BY <1>4, <1>6, <1>7, <1>10, TickStep
  <1>12. \A n \in DOMAIN wrote :
           /\ row[n].state = "pending"
           /\ wrote[n].state = "pending" => wrote[n].attempts < MaxAttempts
           /\ wrote[n].state = "failed" => wrote[n].attempts = MaxAttempts
    BY <1>9 DEF IInv, HeldRowsAreOwed, OutcomesEnd, wrote
  <1>13. TypeOK'
    <2>1. row' \in [Notices -> Rows]
      BY <1>1, <1>2, <1>8
    <2> QED BY <1>1, <1>6, <2>1 DEF IInv, TypeOK
  <1>14. RetriesEnd'
    BY <1>8, <1>12 DEF IInv, RetriesEnd
  <1>15. NewRowsAreUntried'
    BY <1>3, <1>8 DEF IInv, NewRowsAreUntried, Outcomes, Settled
  <1>16. ASSUME NEW n \in Notices, row'[n].state # "purged"
         PROVE  sent'[n] = lost'[n] + unheard'[n]
                          + (IF row'[n].state = "sent" \/ InFlight(n)' THEN 1 ELSE 0)
    <2>1. CASE n \in DOMAIN wrote
      <3>1. sent[n] = lost[n] + unheard[n] + (IF InFlight(n) THEN 1 ELSE 0)
        BY <1>12, <2>1 DEF IInv, Books
      <3>2. \A s \in Ticks : s # t => n \notin SentBy(s)
        BY <1>9, <2>1 DEF IInv, NeverTwiceAtOnce, SentBy, Holds
      <3>3. InFlight(n) <=> wrote[n].state = "sent"
        BY <2>1, <3>2 DEF InFlight, SentBy, wrote
      <3>4. ~InFlight(n)'
        BY <1>7, <1>11, <3>2 DEF InFlight
      <3> QED BY <1>1, <1>8, <2>1, <3>1, <3>3, <3>4
    <2>2. CASE n \notin DOMAIN wrote
      <3>1. row'[n] = row[n]
        BY <1>8, <2>2
      <3>2. n \notin SentBy(t)
        BY <2>2 DEF SentBy, wrote
      <3>3. InFlight(n)' <=> InFlight(n)
        BY <1>7, <1>11, <3>2 DEF InFlight
      <3> QED BY <1>1, <1>16, <3>1, <3>3 DEF IInv, Books
    <2> QED BY <2>1, <2>2
  <1>17. Books'
    BY <1>16 DEF Books
  <1>18. TriesCover'
    <2>1. ASSUME NEW s \in Ticks, NEW m \in DOMAIN tick'[s].wrote
          PROVE  /\ s # t /\ m \in Notices /\ m \in DOMAIN tick[s].wrote
                 /\ tick'[s].wrote = tick[s].wrote /\ row'[m] = row[m]
      <3>1. s # t /\ tick'[s] = tick[s]
        BY <1>4, <1>7, <2>1
      <3>2. m \in Notices /\ m \in Holds(s)
        BY <2>1, <3>1, HeldAreNotices DEF IInv, Holds
      <3>3. m \notin DOMAIN wrote
        BY <1>9, <3>1, <3>2 DEF IInv, NeverTwiceAtOnce
      <3> QED BY <1>8, <2>1, <3>1, <3>2, <3>3
    <2>2. ASSUME NEW m \in Notices
          PROVE  /\ row'[m].attempts <= MaxAttempts
                 /\ (\A s \in Ticks : m \notin DOMAIN tick'[s].wrote)
                      => sent[m] <= crashes + row'[m].attempts
      <3>1. CASE m \in DOMAIN wrote
        BY <1>8, <3>1 DEF IInv, TriesCover, wrote
      <3>2. CASE m \notin DOMAIN wrote
        <4>1. row'[m] = row[m]
          BY <1>8, <3>2
        <4>2. ASSUME \A s \in Ticks : m \notin DOMAIN tick'[s].wrote
              PROVE  \A s \in Ticks : m \notin DOMAIN tick[s].wrote
          BY <1>4, <3>2, <4>2 DEF wrote
        <4> QED BY <4>1, <4>2 DEF IInv, TriesCover
      <3> QED BY <3>1, <3>2
    <2> QED BY <1>1, <2>1, <2>2 DEF IInv, TriesCover
  <1> QED BY <1>11, <1>13, <1>14, <1>15, <1>17, <1>18 DEF IInv

LEMMA TickDiesStep ==
    ASSUME IInv, NEW t \in Ticks, TickDies(t)
    PROVE  IInv'
  <1>1. /\ crashes < MaxCrashes /\ crashes' = crashes + 1
        /\ lost' = [n \in Notices |-> lost[n] + IF n \in SentBy(t) THEN 1 ELSE 0]
        /\ tick' = [tick EXCEPT ![t] = Idle] /\ UNCHANGED <<row, sent, unheard>>
    BY DEF TickDies
  <1>2. tick \in [Ticks -> Drains] /\ row \in [Notices -> Rows]
        /\ sent \in [Notices -> Nat] /\ lost \in [Notices -> Nat]
        /\ unheard \in [Notices -> Nat] /\ crashes \in 0..MaxCrashes
    BY DEF IInv, TypeOK
  <1>3. tick'[t] = Idle /\ \A s \in Ticks : s # t => tick'[s] = tick[s]
    BY <1>1, <1>2
  <1>4. Idle \in Drains
    BY IdleHoldsNothing DEF Idle, Drains
  <1>5. tick' \in [Ticks -> Drains]
    BY <1>1, <1>2, <1>4
  <1>6. Holds(t)' = {} /\ DOMAIN tick'[t].wrote = {} /\ SentBy(t)' = {}
    BY <1>3, IdleHoldsNothing DEF Holds, SentBy
  <1>7. row' = row
    BY <1>1
  <1>8. /\ NeverTwiceAtOnce' /\ HeldRowsAreOwed' /\ OutcomesEnd'
        /\ \A s \in Ticks : s # t => SentBy(s)' = SentBy(s)
    BY <1>3, <1>5, <1>6, <1>7, TickStep
  <1>9. TypeOK' /\ RetriesEnd' /\ NewRowsAreUntried'
    <2>1. lost' \in [Notices -> Nat] /\ crashes' \in 0..MaxCrashes
      BY <1>1, <1>2, MaxCrashesIsNat
    <2> QED BY <1>1, <1>5, <2>1 DEF IInv, TypeOK, RetriesEnd, NewRowsAreUntried
  <1>10. ASSUME NEW n \in Notices, row'[n].state # "purged"
         PROVE  sent'[n] = lost'[n] + unheard'[n]
                          + (IF row'[n].state = "sent" \/ InFlight(n)' THEN 1 ELSE 0)
    <2>1. sent[n] = lost[n] + unheard[n] + (IF row[n].state = "sent" \/ InFlight(n) THEN 1 ELSE 0)
          /\ lost[n] \in Nat /\ unheard[n] \in Nat
      BY <1>2, <1>7, <1>10 DEF IInv, Books
    <2>2. CASE n \in SentBy(t)
      <3>1. InFlight(n) /\ n \in Holds(t)
        BY <2>2 DEF InFlight, SentBy, Holds
      <3>2. row[n].state = "pending"
        BY <3>1 DEF IInv, HeldRowsAreOwed
      <3>3. \A s \in Ticks : s # t => n \notin SentBy(s)
        BY <3>1 DEF IInv, NeverTwiceAtOnce, SentBy, Holds
      <3>4. ~InFlight(n)'
        BY <1>6, <1>8, <3>3 DEF InFlight
      <3> QED BY <1>1, <2>1, <2>2, <3>1, <3>2, <3>4
    <2>3. CASE n \notin SentBy(t)
      <3>1. InFlight(n)' <=> InFlight(n)
        BY <1>6, <1>8, <2>3 DEF InFlight
      <3> QED BY <1>1, <2>1, <2>3, <3>1
    <2> QED BY <2>2, <2>3
  <1>11. Books'
    BY <1>10 DEF Books
  <1>12. crashes \in Nat /\ crashes' = crashes + 1
    BY <1>1, <1>2, MaxCrashesIsNat
  <1>13. \A n \in Notices : row[n].attempts \in Nat /\ sent[n] \in Nat
    BY <1>2 DEF Rows
  <1>14. TriesCover'
    <2>1. ASSUME NEW s \in Ticks, NEW n \in DOMAIN tick'[s].wrote
          PROVE  /\ tick'[s].wrote[n].attempts <= MaxAttempts
                 /\ tick'[s].wrote[n].attempts <= row[n].attempts + 1
                 /\ sent[n] <= crashes' + tick'[s].wrote[n].attempts
      <3>1. s # t /\ tick'[s] = tick[s]
        BY <1>3, <1>6, <2>1
      <3>2. n \in Notices /\ tick[s].wrote[n] \in Outcomes
        BY <2>1, <3>1, HeldAreNotices DEF IInv
      <3>3. tick[s].wrote[n].attempts \in Nat
        BY <3>2 DEF Outcomes
      <3>4. /\ tick[s].wrote[n].attempts <= MaxAttempts
            /\ tick[s].wrote[n].attempts <= row[n].attempts + 1
            /\ sent[n] <= crashes + tick[s].wrote[n].attempts
        BY <2>1, <3>1 DEF IInv, TriesCover
      <3> QED BY <1>12, <1>13, <3>1, <3>2, <3>3, <3>4
    <2>2. ASSUME NEW n \in Notices, \A s \in Ticks : n \notin DOMAIN tick'[s].wrote
          PROVE  sent[n] <= crashes' + row[n].attempts
      <3>1. CASE n \in DOMAIN tick[t].wrote
        <4>1. tick[t].wrote[n].attempts \in Nat
          BY <3>1, HeldAreNotices DEF IInv, Outcomes
        <4>2. /\ tick[t].wrote[n].attempts <= row[n].attempts + 1
              /\ sent[n] <= crashes + tick[t].wrote[n].attempts
          BY <3>1 DEF IInv, TriesCover
        <4> QED BY <1>12, <1>13, <4>1, <4>2
      <3>2. CASE n \notin DOMAIN tick[t].wrote
        <4>1. \A s \in Ticks : n \notin DOMAIN tick[s].wrote
          BY <1>3, <2>2, <3>2
        <4>2. sent[n] <= crashes + row[n].attempts
          BY <4>1 DEF IInv, TriesCover
        <4> QED BY <1>12, <1>13, <4>2
      <3> QED BY <3>1, <3>2
    <2> QED BY <1>1, <2>1, <2>2 DEF IInv, TriesCover
  <1> QED BY <1>8, <1>9, <1>11, <1>14 DEF IInv
----------------------------------------------------------------------------
(* The theorems.                                                            *)

LEMMA Step == IInv /\ [Next]_vars => IInv'
  <1> SUFFICES ASSUME IInv, [Next]_vars PROVE IInv'
    OBVIOUS
  <1>0. row \in [Notices -> Rows]
    BY DEF IInv, TypeOK
  <1>1. ASSUME NEW t \in Ticks, TickReads(t) PROVE IInv'
    BY <1>1, TickReadsStep
  <1>2. ASSUME NEW t \in Ticks, TickReadsPushes(t) PROVE IInv'
    BY <1>2, TickReadsPushesStep
  <1>3. ASSUME NEW t \in Ticks, Send(t) PROVE IInv'
    BY <1>3, SendStep
  <1>4. ASSUME NEW t \in Ticks, TickCommits(t) PROVE IInv'
    BY <1>4, TickCommitsStep
  <1>5. ASSUME NEW t \in Ticks, TickDies(t) PROVE IInv'
    BY <1>5, TickDiesStep
  <1>6. ASSUME NEW n \in Notices, Enqueue(n) PROVE IInv'
    <2>1. row' \in [Notices -> Rows]
      BY <1>0, <1>6 DEF Enqueue, Rows
    <2> QED BY <1>0, <1>6, <2>1, RowStep DEF Enqueue
  <1>7. ASSUME NEW n \in Notices, Read(n) PROVE IInv'
    <2>1. row' \in [Notices -> Rows]
      BY <1>0, <1>7 DEF Read, Rows
    <2> QED BY <1>0, <1>7, <2>1, RowStep DEF Read
  <1>8. ASSUME NEW n \in Notices, Ages(n) PROVE IInv'
    <2>1. row' \in [Notices -> Rows]
      BY <1>0, <1>8 DEF Ages, Rows
    <2> QED BY <1>0, <1>8, <2>1, RowStep DEF Ages
  <1>9. ASSUME Purge PROVE IInv'
    <2>1. row' \in [Notices -> Rows]
      BY <1>0, <1>9 DEF Purge, Rows, Settled
    <2> QED BY <1>0, <1>9, <2>1, RowStep DEF Purge
  <1>10. CASE UNCHANGED vars
    <2>1. \A s \in Ticks : tick'[s].wrote = tick[s].wrote /\ Holds(s)' = Holds(s)
      BY <1>10 DEF vars, Holds
    <2>2. /\ tick' \in [Ticks -> Drains]
          /\ NeverTwiceAtOnce' /\ HeldRowsAreOwed' /\ OutcomesEnd'
      BY <1>10, <2>1 DEF vars, IInv, TypeOK, NeverTwiceAtOnce, HeldRowsAreOwed, OutcomesEnd
    <2> QED BY <1>10, <2>1, <2>2, QuietStep DEF vars
  <1> QED BY <1>1, <1>2, <1>3, <1>4, <1>5, <1>6, <1>7, <1>8, <1>9, <1>10 DEF Next, Work

\* Whatever crashes and however the drains overlap, the invariant holds.
THEOREM Invariance == Spec => []IInv
  <1> QED BY InitInvariant, Step, PTL DEF Spec

\* The table and the drains keep their shape, and a row its attempts.
THEOREM TypeCorrect == Spec => []TypeOK
  <1>1. IInv => TypeOK
    BY DEF IInv
  <1> QED BY Invariance, <1>1, PTL

\* drain's "never twice at once": the skipped locks keep overlapping drains
\* off each other's notices.
THEOREM NoNoticeIsSentTwiceAtOnce == Spec => []NeverTwiceAtOnce
  <1>1. IInv => NeverTwiceAtOnce
    BY DEF IInv
  <1> QED BY Invariance, <1>1, PTL

\* MAX_ATTEMPTS bounds the committed tries of every row, and a row that is
\* still owed has one left.
THEOREM TriesAreBounded == Spec => []RetriesEnd
  <1>1. IInv => RetriesEnd
    BY DEF IInv
  <1> QED BY Invariance, <1>1, PTL

\* Every message the providers took is in the table, in a drain that is
\* running, was sent by one that died, or was never confirmed: a repeat has no
\* other cause, and there are no more copies than tries and crashes.
THEOREM MessagesAreAccountedFor == Spec => []Accounted
  <1>1. ASSUME IInv, NEW n \in Notices, row[n].state # "purged"
        PROVE  sent[n] = lost[n] + unheard[n] + (IF row[n].state = "sent" THEN 1 ELSE 0)
                           + Cardinality({t \in Ticks : n \in SentBy(t)})
    <2> DEFINE ours == {t \in Ticks : n \in SentBy(t)}
    <2>1. sent[n] = lost[n] + unheard[n] + (IF row[n].state = "sent" \/ InFlight(n) THEN 1 ELSE 0)
          /\ lost[n] \in Nat /\ unheard[n] \in Nat
      BY <1>1 DEF IInv, Books, TypeOK
    <2>2. CASE InFlight(n)
      <3>1. PICK t \in Ticks : n \in SentBy(t)
        BY <2>2 DEF InFlight
      <3>2. \A s \in Ticks : n \in SentBy(s) => s = t /\ row[n].state = "pending"
        BY <1>1, <3>1 DEF IInv, NeverTwiceAtOnce, HeldRowsAreOwed, SentBy, Holds
      <3>3. ours = {t}
        BY <3>1, <3>2
      <3>4. Cardinality(ours) = 1
        BY <3>3, FS_Singleton
      <3> QED BY <2>1, <2>2, <3>1, <3>2, <3>4
    <2>3. CASE ~InFlight(n)
      <3>1. ours = {}
        BY <2>3 DEF InFlight
      <3>2. Cardinality(ours) = 0
        BY <3>1, FS_EmptySet
      <3> QED BY <2>1, <2>3, <3>2
    <2> QED BY <2>2, <2>3
  <1>2. ASSUME IInv, NEW n \in Notices PROVE sent[n] <= MaxAttempts + crashes
    <2>1. sent[n] \in Nat /\ crashes \in Nat /\ row[n].attempts \in Nat
      BY <1>2, MaxCrashesIsNat DEF IInv, TypeOK, Rows
    <2>2. CASE \E t \in Ticks : n \in DOMAIN tick[t].wrote
      <3>1. PICK t \in Ticks : n \in DOMAIN tick[t].wrote
        BY <2>2
      <3>2. tick[t].wrote[n].attempts \in Nat
        BY <1>2, <3>1, HeldAreNotices DEF IInv, Outcomes
      <3>3. /\ tick[t].wrote[n].attempts <= MaxAttempts
            /\ sent[n] <= crashes + tick[t].wrote[n].attempts
        BY <1>2, <3>1 DEF IInv, TriesCover
      <3> QED BY <2>1, <3>2, <3>3, MaxAttemptsAtLeastOne
    <2>3. CASE \A t \in Ticks : n \notin DOMAIN tick[t].wrote
      <3>1. row[n].attempts <= MaxAttempts /\ sent[n] <= crashes + row[n].attempts
        BY <1>2, <2>3 DEF IInv, TriesCover
      <3> QED BY <2>1, <3>1, MaxAttemptsAtLeastOne
    <2> QED BY <2>2, <2>3
  <1>3. IInv => Accounted
    BY <1>1, <1>2 DEF Accounted
  <1> QED BY Invariance, <1>3, PTL

\* purge_expired never takes an email that is still owed.
THEOREM OwedEmailsAreKept == Spec => OwedIsKept
  <1>1. IInv /\ [Next]_vars
          => [\A n \in Emails : row[n].state = "pending" => row'[n].state # "purged"]_vars
    <2> SUFFICES ASSUME IInv, Next, NEW n \in Emails, row[n].state = "pending"
                 PROVE  row'[n].state # "purged"
      OBVIOUS
    <2>0. row \in [Notices -> Rows] /\ n \in Notices
      BY DEF IInv, TypeOK, Notices
    <2>1. ASSUME NEW t \in Ticks, Work(t) \/ TickDies(t) PROVE row'[n].state # "purged"
      <3>1. CASE TickCommits(t)
        <4>1. \A m \in DOMAIN tick[t].wrote : tick[t].wrote[m].state # "purged"
          BY HeldAreNotices DEF IInv, Outcomes, Settled
        <4> QED BY <2>0, <3>1, <4>1 DEF TickCommits, Rows
      <3>2. CASE ~TickCommits(t)
        <4>1. row' = row
          BY <2>1, <3>2 DEF Work, TickReads, TickReadsPushes, Send, TickDies
        <4> QED BY <4>1
      <3> QED BY <3>1, <3>2
    <2>2. ASSUME NEW m \in Notices, Enqueue(m) \/ Read(m) \/ Ages(m)
          PROVE  row'[n].state # "purged"
      BY <2>0, <2>2 DEF Enqueue, Read, Ages, Rows
    <2>3. ASSUME Purge PROVE row'[n].state # "purged"
      BY <2>0, <2>3 DEF Purge, Purgeable, Settled
    <2> QED BY <2>1, <2>2, <2>3 DEF Next
  <1> QED BY Invariance, <1>1, PTL DEF Spec, OwedIsKept
=============================================================================

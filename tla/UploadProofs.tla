---------------------------- MODULE UploadProofs ----------------------------
(***************************************************************************)
(* What TLAPS proves of Upload: what a report says is so, whoever else      *)
(* writes, and what a preview says comes about while nobody does, for any   *)
(* files, listings and number of uploads at once.                           *)
(***************************************************************************)
EXTENDS Upload, WellFoundedInduction, FiniteSetTheorems, TLAPS

----------------------------------------------------------------------------
(* The inductive invariant.                                                 *)

\* Row i says again what a row before it has said.
Repeats(file, i) ==
    \E j \in Seen(file, i) :
        /\ file[j].ref = file[i].ref
        /\ file[i].ref = None => file[j].title = file[i].title

\* The listings that row i is looked up among.
Known(row) == IF row.ref # None THEN ByRef(row.ref) ELSE ByTitle(row.title)

\* What is left for `run` to write.
Pending(fate) == fate.status \in {"ok", "update"}

\* A reference names one listing at the most.
RefsAreUnique ==
    \A l, m \in Listings :
        Present(l) /\ Present(m) /\ listing[l].ref = listing[m].ref /\ listing[l].ref # None => l = m

\* What a request is at any stage: every row has its fate, those up to the one
\* it is at are settled, a row that writes says something new, and no listing
\* is made twice.
Shaped(q) ==
    /\ DOMAIN q.fate = DOMAIN q.file
    /\ q.alone => q.kept
    /\ q.stage \in {"apply", "update"} => q.at \in DOMAIN q.file /\ Pending(q.fate[q.at])
    /\ q.stage = "update" => q.fate[q.at].status = "update"
    /\ q.stage = "read" => q.at = 0
    /\ \A i \in DOMAIN q.file :
         /\ q.fate[i].status # "error" => q.file[i].title # None
         /\ q.fate[i].status \in {"ok", "created", "update", "updated"} => ~Repeats(q.file, i)
         /\ q.fate[i].status \in {"update", "updated"} =>
              q.fate[i].on \in Listings /\ q.file[i].ref # None /\ q.existing = "update"
         /\ q.fate[i].status = "created" => q.fate[i].on \in Listings
         /\ q.stage = "read" => q.fate[i].status \in {"error", "skip", "ok", "update"}
         /\ q.stage = "done" \/ i < q.at => ~Pending(q.fate[i])
    /\ \A i, j \in DOMAIN q.file :
         q.fate[i].status = "created" /\ q.fate[i].on = q.fate[j].on => i = j

\* Until something is deleted, whoever else writes: a row that says something
\* new and has not failed has its reference in the listings.
Truthful(q) ==
    /\ \A i \in DOMAIN q.file :
         /\ q.file[i].ref # None /\ q.fate[i].status \in {"created", "skip"} /\ ~Repeats(q.file, i)
              => ByRef(q.file[i].ref) # {}
         /\ q.fate[i].status \in {"update", "updated"} => q.fate[i].on \in ByRef(q.file[i].ref)

\* What was to become of a row, and what has.
Kept == {<<"error", "error">>, <<"skip", "skip">>, <<"ok", "ok">>, <<"ok", "created">>,
         <<"update", "update">>, <<"update", "updated">>}

\* While nobody else writes: what is left to write will succeed, and whatever a
\* file that only creates has skipped or created is there.
Steady(q) ==
    /\ q.stage = "read" => q.fate = Planned(q.file, q.existing)
    /\ \A i \in DOMAIN q.file :
         /\ q.fate[i].status = "ok" /\ q.file[i].ref # None => ByRef(q.file[i].ref) = {}
         /\ q.fate[i].status = "update" /\ q.stage # "read" =>
              /\ ~Empties(q.fate[i].on, q.fate[i].standards)
              /\ ~q.file[i].carries => listing[q.fate[i].on].standards = q.fate[i].standards
         /\ q.existing = "skip" /\ q.fate[i].status \in {"skip", "created"} =>
              Known(q.file[i]) # {} \/ Repeats(q.file, i)

\* What is left of the preview is what is left to do, and what the same file did
\* before is not done again.
Foretold(q) ==
    q.before # NoReport =>
      /\ q.before.file = q.file /\ q.before.existing = q.existing
      /\ DOMAIN q.before.status = DOMAIN q.file
      /\ ~q.before.apply =>
           \A i \in DOMAIN q.file :
             IF q.stage = "read" THEN q.before.status[i] = Reviewed(q.file, q.fate)[i].status
             ELSE <<q.before.status[i], q.fate[i].status>> \in Kept
      /\ q.before.apply /\ q.existing = "skip" =>
           \A i \in DOMAIN q.file : q.before.status[i] # "error" => q.fate[i].status = "skip"

\* A report that can be read is still true of the listings.
LastStands ==
    last # NoReport =>
        /\ DOMAIN last.status = DOMAIN last.file
        /\ ~last.apply =>
             \A i \in DOMAIN last.file :
                last.status[i] = Reviewed(last.file, Planned(last.file, last.existing))[i].status
        /\ last.apply /\ last.existing = "skip" =>
             \A i \in DOMAIN last.file : last.status[i] # "error" =>
                last.file[i].title # None /\ (Known(last.file[i]) # {} \/ Repeats(last.file, i))

Sound(q) == Shaped(q) /\ (q.kept => Truthful(q)) /\ (q.alone => Steady(q) /\ Foretold(q))

IInv ==
    /\ TypeOK /\ RefsAreUnique /\ LastStands
    /\ \A u \in Uploads : up[u].stage # "idle" => Sound(up[u])

----------------------------------------------------------------------------
(* Files and the fates of their rows.                                       *)

\* Every set of naturals that is not empty has a least element.
LEMMA LeastNatural ==
    ASSUME NEW K, K \subseteq Nat, K # {}
    PROVE  Min(K) \in K /\ \A j \in K : Min(K) <= j
  <1> DEFINE R == OpToRel(<, Nat)
  <1>1. IsWellFoundedOn(R, Nat)
    BY NatLessThanWellFounded
  <1>2. \A a, b \in Nat : a < b => <<a, b>> \in R
    BY DEF OpToRel
  <1> HIDE DEF R
  <1>3. \E x \in K : \A y \in K : ~ (<<y, x>> \in R)
    BY <1>1, WFMin
  <1>4. PICK k \in K : \A j \in K : ~(j < k)
    BY <1>2, <1>3, Zenon
  <1>5. \A j \in K : k <= j
    BY <1>4
  <1> QED BY <1>5 DEF Min

LEMMA FileType ==
    ASSUME NEW file \in Files
    PROVE  /\ file # <<>> /\ Len(file) \in Nat
           /\ DOMAIN file = 1..Len(file)
           /\ DOMAIN file \subseteq Nat \ {0}
           /\ \A i \in DOMAIN file : /\ file[i].ref \in Refs \cup {None}
                                     /\ file[i].title \in Titles \cup {None}
                                     /\ file[i].standards \subseteq Standards
                                     /\ file[i].carries \in BOOLEAN
  <1>1. file \in Seq(Rows) /\ file # <<>>
    BY FilesAreRows
  <1>2. Len(file) \in Nat /\ DOMAIN file = 1..Len(file)
    BY <1>1
  <1>3. \A i \in DOMAIN file : file[i] \in Rows
    BY <1>1, <1>2
  <1> QED BY <1>1, <1>2, <1>3 DEF Rows

LEMMA RowsAreASeq ==
    ASSUME NEW file \in Files, NEW S, NEW f, DOMAIN f = DOMAIN file, \A i \in DOMAIN file : f[i] \in S,
           f = [i \in DOMAIN file |-> f[i]]
    PROVE  f \in Seq(S)
  <1>1. DOMAIN file = 1..Len(file) /\ Len(file) \in Nat
    BY FileType
  <1>2. f \in [1..Len(file) -> S]
    BY <1>1
  <1> QED BY <1>1, <1>2

\* What _plans decides of a row.
LEMMA StatusFacts ==
    ASSUME NEW file, NEW i, NEW existing
    PROVE  LET status == Status(file, i, existing) IN
           /\ status \in {"error", "skip", "ok", "update"}
           /\ status # "error" => file[i].title # None
           /\ status \in {"ok", "update"} => ~Repeats(file, i)
           /\ status = "update" => file[i].ref # None /\ existing = "update" /\ ByRef(file[i].ref) # {}
           /\ status = "ok" => Known(file[i]) = {}
           /\ status = "skip" => Known(file[i]) # {} \/ Repeats(file, i)
           /\ existing = "skip" /\ file[i].title # None /\ (Known(file[i]) # {} \/ Repeats(file, i))
                => status = "skip"
  BY DEF Status, Repeats, Known

LEMMA PlannedFacts ==
    ASSUME NEW file \in Files, NEW existing \in {"skip", "update"}
    PROVE  LET fates == Planned(file, existing) IN
           /\ fates \in Seq(Fates) /\ DOMAIN fates = DOMAIN file
           /\ \A i \in DOMAIN file :
                /\ fates[i].status = Status(file, i, existing)
                /\ fates[i].status = "update" => fates[i].on \in ByRef(file[i].ref)
  <1> DEFINE fates == Planned(file, existing)
             on(i) == IF Status(file, i, existing) = "update" THEN CHOOSE l \in ByRef(file[i].ref) : TRUE ELSE None
  <1>1. fates = [i \in DOMAIN file |-> Simply(Status(file, i, existing), on(i))]
    BY DEF Planned
  <1>2. ASSUME NEW i \in DOMAIN file
        PROVE  /\ fates[i] \in Fates
               /\ fates[i].status = Status(file, i, existing)
               /\ fates[i].status = "update" => fates[i].on \in ByRef(file[i].ref)
    <2>1. Status(file, i, existing) = "update" => on(i) \in ByRef(file[i].ref)
      BY StatusFacts
    <2>2. on(i) \in Listings \cup {None}
      BY <2>1 DEF ByRef
    <2>3. Status(file, i, existing) \in Statuses
      BY StatusFacts DEF Statuses
    <2>4. fates[i] = Simply(Status(file, i, existing), on(i))
      BY <1>1
    <2> HIDE DEF fates, on
    <2> QED BY <2>1, <2>2, <2>3, <2>4 DEF Simply, Fates
  <1>3. DOMAIN fates = DOMAIN file /\ fates = [i \in DOMAIN file |-> fates[i]]
    BY <1>1
  <1> HIDE DEF fates
  <1>4. fates \in Seq(Fates)
    BY <1>2, <1>3, RowsAreASeq
  <1>5. \A i \in DOMAIN file :
          /\ fates[i].status = Status(file, i, existing)
          /\ fates[i].status = "update" => fates[i].on \in ByRef(file[i].ref)
    BY <1>2
  <1> QED BY <1>3, <1>4, <1>5 DEF fates

\* What the second half of planning makes of it: the day's limit refuses some of
\* what was to be created, and what was to be updated is compared.
LEMMA ReviewedFacts ==
    ASSUME TypeOK, NEW file \in Files, NEW fates \in Seq(Fates), DOMAIN fates = DOMAIN file,
           \A i \in DOMAIN file : fates[i].status = "update" => fates[i].on \in Listings
    PROVE  LET reviewed == Reviewed(file, fates) IN
           /\ reviewed \in Seq(Fates) /\ DOMAIN reviewed = DOMAIN file
           /\ \A i \in DOMAIN file :
                LET f == fates[i]
                    g == reviewed[i]
                IN /\ f.status = "ok" => g.status \in {"ok", "error"} /\ g.on = f.on
                   /\ f.status = "update" =>
                        \/ ~Present(f.on) /\ g = f
                        \/ Present(f.on) /\ g.status \in {"error", "skip"} /\ g.on = None
                        \/ /\ Present(f.on) /\ g.status = "update" /\ g.on = f.on
                           /\ ~Empties(f.on, g.standards)
                           /\ ~file[i].carries => g.standards = listing[f.on].standards
                   /\ f.status \notin {"ok", "update"} => g = f
  <1> DEFINE merged == [i \in DOMAIN file |-> Merged(file[i], fates[i])]
             reviewed == Reviewed(file, fates)
  <1>1. reviewed = Capped(merged)
    BY DEF Reviewed
  <1>2. reviewed = [i \in DOMAIN file |->
                      IF merged[i].status = "ok" /\ ~Allowed(merged, i)
                      THEN [merged[i] EXCEPT !.status = "error"] ELSE merged[i]]
    BY <1>1 DEF Capped
  <1>3. \A i \in DOMAIN file : fates[i] \in Fates
    OBVIOUS
  <1>4. ASSUME NEW i \in DOMAIN file
        PROVE  /\ merged[i] \in Fates
               /\ fates[i].status # "update" => merged[i] = fates[i]
               /\ fates[i].status = "update" =>
                    \/ ~Present(fates[i].on) /\ merged[i] = fates[i]
                    \/ Present(fates[i].on) /\ merged[i].status \in {"error", "skip"} /\ merged[i].on = None
                    \/ /\ Present(fates[i].on) /\ merged[i].status = "update" /\ merged[i].on = fates[i].on
                       /\ ~Empties(fates[i].on, merged[i].standards)
                       /\ ~file[i].carries => merged[i].standards = listing[fates[i].on].standards
    <2> DEFINE f == fates[i]
               l == f.on
               standards == IF file[i].carries THEN file[i].standards ELSE listing[l].standards
    <2>1. merged[i] = Merged(file[i], f)
      OBVIOUS
    <2>2. f \in Fates
      BY <1>3
    <2> HIDE DEF merged, f
    <2>3. CASE f.status # "update" \/ ~Present(l)
      <3>1. merged[i] = f
        BY <2>1, <2>3 DEF Merged
      <3> QED BY <2>2, <2>3, <3>1 DEF f
    <2>4. CASE f.status = "update" /\ Present(l)
      <3>1. l \in Listings /\ listing[l].standards \subseteq Standards
        <4>1. l \in Listings
          BY <2>4 DEF f
        <4>2. listing[l] \in ListingRows
          BY <2>4, <4>1 DEF TypeOK, Present, NoListing
        <4> QED BY <4>1, <4>2 DEF ListingRows
      <3>2. standards \subseteq Standards
        BY <3>1, FileType
      <3>3. merged[i] = IF Empties(l, standards) THEN Simply("error", None)
                        ELSE IF file[i].title = listing[l].title /\ standards = listing[l].standards
                        THEN Simply("skip", None)
                        ELSE [f EXCEPT !.standards = standards]
        BY <2>1, <2>4 DEF Merged
      <3> HIDE DEF standards
      <3>4. Simply("error", None) \in Fates /\ Simply("skip", None) \in Fates
            /\ Simply("error", None).status = "error" /\ Simply("error", None).on = None
            /\ Simply("skip", None).status = "skip" /\ Simply("skip", None).on = None
        BY DEF Simply, Fates, Statuses
      <3> DEFINE g == [f EXCEPT !.standards = standards]
      <3>5. g \in Fates /\ g.status = f.status /\ g.on = f.on /\ g.standards = standards
        BY <2>2, <3>2 DEF Fates
      <3>6. ~file[i].carries => standards = listing[l].standards
        BY DEF standards
      <3> HIDE DEF g
      <3>7. CASE Empties(l, standards)
        BY <2>4, <3>3, <3>4, <3>7 DEF f
      <3>8. CASE ~Empties(l, standards) /\ merged[i] = Simply("skip", None)
        BY <2>4, <3>4, <3>8 DEF f
      <3>9. CASE ~Empties(l, standards) /\ merged[i] = g
        BY <2>4, <3>5, <3>6, <3>9 DEF f
      <3> QED BY <3>3, <3>7, <3>8, <3>9 DEF g
    <2> QED BY <2>3, <2>4
  <1>5. DOMAIN reviewed = DOMAIN file
    BY <1>2
  <1> HIDE DEF merged
  <1>6. ASSUME NEW i \in DOMAIN file
        PROVE  /\ reviewed[i] \in Fates
               /\ merged[i].status = "ok" => reviewed[i].status \in {"ok", "error"} /\ reviewed[i].on = merged[i].on
               /\ merged[i].status # "ok" => reviewed[i] = merged[i]
    <2> DEFINE e == [merged[i] EXCEPT !.status = "error"]
    <2>1. e \in Fates /\ e.status = "error" /\ e.on = merged[i].on
      BY <1>4 DEF Fates, Statuses
    <2>2. reviewed[i] = IF merged[i].status = "ok" /\ ~Allowed(merged, i) THEN e ELSE merged[i]
      BY <1>2
    <2> HIDE DEF e, reviewed
    <2> QED BY <1>4, <2>1, <2>2
  <1>7. reviewed = [i \in DOMAIN file |-> reviewed[i]]
    BY <1>2
  <1> HIDE DEF reviewed
  <1>8. reviewed \in Seq(Fates)
    BY <1>5, <1>6, <1>7, RowsAreASeq
  <1>9. ASSUME NEW i \in DOMAIN file
        PROVE  /\ fates[i].status = "ok" => reviewed[i].status \in {"ok", "error"} /\ reviewed[i].on = fates[i].on
               /\ fates[i].status = "update" =>
                    \/ ~Present(fates[i].on) /\ reviewed[i] = fates[i]
                    \/ Present(fates[i].on) /\ reviewed[i].status \in {"error", "skip"} /\ reviewed[i].on = None
                    \/ /\ Present(fates[i].on) /\ reviewed[i].status = "update" /\ reviewed[i].on = fates[i].on
                       /\ ~Empties(fates[i].on, reviewed[i].standards)
                       /\ ~file[i].carries => reviewed[i].standards = listing[fates[i].on].standards
               /\ fates[i].status \notin {"ok", "update"} => reviewed[i] = fates[i]
    BY <1>4, <1>6
  <1> QED BY <1>5, <1>8, <1>9 DEF reviewed
----------------------------------------------------------------------------
(* The loop of `run`.                                                       *)

\* It goes on with the next row that writes, and passes over none.
LEMMA OnwardFacts ==
    ASSUME NEW q \in Requests, DOMAIN q.fate = DOMAIN q.file,
           \A i \in DOMAIN q.file : i <= q.at => ~Pending(q.fate[i])
    PROVE  LET r == Onward(q) IN
           /\ r \in Requests
           /\ r.file = q.file /\ r.existing = q.existing /\ r.fate = q.fate /\ r.before = q.before
           /\ r.alone = q.alone /\ r.kept = q.kept
           /\ r.stage \in {"apply", "done"}
           /\ r.stage = "apply" => r.at \in DOMAIN q.file /\ Pending(q.fate[r.at])
           /\ \A i \in DOMAIN q.file : r.stage = "done" \/ i < r.at => ~Pending(q.fate[i])
  <1> DEFINE left == {i \in DOMAIN q.fate : i > q.at /\ Pending(q.fate[i])}
             go == [q EXCEPT !.stage = "apply", !.at = Min(left)]
             stop == [q EXCEPT !.stage = "done", !.at = 0]
  <1>1. Onward(q) = IF left # {} THEN go ELSE stop
    BY DEF Onward, Pending
  <1>2. q.file \in Files /\ q.at \in Nat /\ DOMAIN q.file \subseteq Nat
    BY FileType DEF Requests
  <1>3. left \subseteq Nat /\ left \subseteq DOMAIN q.file
    BY <1>2
  <1>4. \A i \in DOMAIN q.file : i \notin left => i <= q.at \/ ~Pending(q.fate[i])
    BY <1>2
  <1>5. \A i \in left : Pending(q.fate[i])
    OBVIOUS
  <1> HIDE DEF left
  <1>6. CASE left # {}
    <2>1. Min(left) \in left /\ \A i \in left : Min(left) <= i
      BY <1>3, <1>6, LeastNatural
    <2>2. /\ go \in Requests
          /\ go.file = q.file /\ go.existing = q.existing /\ go.fate = q.fate /\ go.before = q.before
          /\ go.alone = q.alone /\ go.kept = q.kept /\ go.stage = "apply" /\ go.at = Min(left)
      BY <1>3, <2>1 DEF Requests
    <2>3. \A i \in DOMAIN q.file : i < Min(left) => ~Pending(q.fate[i])
      <3> SUFFICES ASSUME NEW i \in DOMAIN q.file, i < Min(left) PROVE ~Pending(q.fate[i])
        OBVIOUS
      <3>1. i \in Nat /\ Min(left) \in Nat
        BY <1>2, <1>3, <2>1
      <3>2. i \notin left
        BY <2>1, <3>1
      <3> QED BY <1>4, <3>2
    <2> HIDE DEF go
    <2> QED BY <1>1, <1>3, <1>5, <1>6, <2>1, <2>2, <2>3
  <1>7. CASE left = {}
    <2>1. /\ stop \in Requests
          /\ stop.file = q.file /\ stop.existing = q.existing /\ stop.fate = q.fate /\ stop.before = q.before
          /\ stop.alone = q.alone /\ stop.kept = q.kept /\ stop.stage = "done" /\ stop.at = 0
      BY DEF Requests
    <2>2. \A i \in DOMAIN q.file : ~Pending(q.fate[i])
      BY <1>4, <1>7
    <2> HIDE DEF stop
    <2> QED BY <1>1, <1>2, <1>7, <2>1, <2>2
  <1> QED BY <1>6, <1>7

LEMMA RequestType ==
    ASSUME TypeOK, NEW u \in Uploads, up[u].stage # "idle"
    PROVE  /\ up[u] \in Requests
           /\ up[u].file \in Files /\ up[u].existing \in {"skip", "update"}
           /\ up[u].fate \in Seq(Fates) /\ up[u].at \in Nat
           /\ up[u].before \in Reports \cup {NoReport}
           /\ up[u].alone \in BOOLEAN /\ up[u].kept \in BOOLEAN
           /\ up[u].stage \in {"read", "apply", "update", "done"}
  <1>1. up[u] \in Requests
    BY DEF TypeOK, Idle
  <1> QED BY <1>1 DEF Requests

\* A row is settled: the others keep their fates, and it writes no more.
LEMMA SettledFacts ==
    ASSUME TypeOK, NEW u \in Uploads, up[u].stage \in {"apply", "update"}, Shaped(up[u]),
           NEW status \in {"error", "skip", "created", "updated"}, NEW on,
           \/ status \in {"error", "skip"} /\ on \in {None, Fate(u).on}
           \/ status = "created" /\ Fate(u).status = "ok"
                /\ on \in Listings /\ \A i \in DOMAIN up[u].fate : up[u].fate[i].on # on
           \/ status = "updated" /\ Fate(u).status = "update" /\ on = Fate(u).on
    PROVE  LET r == Settled(u, status, on)
               q == up[u]
           IN
           /\ r \in Requests /\ Shaped(r)
           /\ r.file = q.file /\ r.existing = q.existing /\ r.before = q.before
           /\ r.alone = q.alone /\ r.kept = q.kept /\ r.stage \in {"apply", "done"}
           /\ r.fate[q.at].status = status /\ r.fate[q.at].on = on
           /\ \A i \in DOMAIN q.file \ {q.at} : r.fate[i] = q.fate[i]
  <1> DEFINE q == up[u]
             new == Simply(status, on)
             fate == [q.fate EXCEPT ![q.at] = new]
             p == [q EXCEPT !.fate = fate]
             r == Settled(u, status, on)
  <1>1. /\ q \in Requests /\ q.file \in Files /\ q.fate \in Seq(Fates) /\ q.at \in DOMAIN q.file
        /\ DOMAIN q.fate = DOMAIN q.file /\ DOMAIN q.file \subseteq Nat
        /\ DOMAIN q.file = 1..Len(q.file)
    BY RequestType, FileType DEF Shaped
  <1>2. q.fate[q.at] \in Fates /\ Fate(u) = q.fate[q.at]
    BY <1>1 DEF Fate
  <1>3. on \in Listings \cup {None} /\ new \in Fates
        /\ new.status = status /\ new.on = on /\ ~Pending(new)
    <2>1. on \in Listings \cup {None}
      BY <1>2 DEF Fates
    <2> QED BY <2>1 DEF Simply, Fates, Statuses, Pending
  <1> HIDE DEF new
  <1>4. /\ DOMAIN fate = DOMAIN q.file /\ fate[q.at] = new
        /\ \A i \in DOMAIN q.file \ {q.at} : fate[i] = q.fate[i]
        /\ fate \in Seq(Fates)
    <2>1. DOMAIN fate = DOMAIN q.file /\ fate[q.at] = new
          /\ \A i \in DOMAIN q.file \ {q.at} : fate[i] = q.fate[i]
      BY <1>1
    <2>2. \A i \in DOMAIN q.file : fate[i] \in Fates
      BY <1>1, <1>3
    <2>3. fate = [i \in DOMAIN q.file |-> fate[i]]
      BY <1>1
    <2> HIDE DEF fate, q
    <2>4. fate \in Seq(Fates)
      BY <1>1, <2>1, <2>2, <2>3, RowsAreASeq
    <2> QED BY <2>1, <2>4
  <1>5. r = Onward(p)
    BY DEF Settled, new
  <1> HIDE DEF fate
  <1>6. /\ p \in Requests /\ p.file = q.file /\ p.existing = q.existing /\ p.fate = fate
        /\ p.before = q.before /\ p.alone = q.alone /\ p.kept = q.kept /\ p.at = q.at
    BY <1>1, <1>4 DEF Requests
  <1> HIDE DEF p, r
  <1>7. \A i \in DOMAIN p.file : i <= p.at => ~Pending(p.fate[i])
    <2>1. \A i \in DOMAIN q.file : i < q.at => ~Pending(q.fate[i])
      BY DEF Shaped
    <2> HIDE DEF q
    <2> QED BY <1>1, <1>3, <1>4, <1>6, <2>1
  <1>8. /\ r \in Requests
        /\ r.file = q.file /\ r.existing = q.existing /\ r.fate = fate /\ r.before = q.before
        /\ r.alone = q.alone /\ r.kept = q.kept
        /\ r.stage \in {"apply", "done"}
        /\ r.stage = "apply" => r.at \in DOMAIN q.file /\ Pending(fate[r.at])
        /\ \A i \in DOMAIN q.file : r.stage = "done" \/ i < r.at => ~Pending(fate[i])
    <2> HIDE DEF q
    <2>1. DOMAIN p.fate = DOMAIN p.file
      BY <1>4, <1>6
    <2> QED BY <1>5, <1>6, <1>7, <2>1, OnwardFacts
  <1>9. \A i \in DOMAIN q.file :
          /\ q.fate[i].status # "error" => q.file[i].title # None
          /\ q.fate[i].status \in {"ok", "created", "update", "updated"} => ~Repeats(q.file, i)
          /\ q.fate[i].status \in {"update", "updated"} =>
               q.fate[i].on \in Listings /\ q.file[i].ref # None /\ q.existing = "update"
          /\ q.fate[i].status = "created" => q.fate[i].on \in Listings
    BY DEF Shaped
  <1>10. q.fate[q.at].status \in {"ok", "update"}
    BY DEF Shaped, Pending
  <1>11. \A i, j \in DOMAIN q.file : q.fate[i].status = "created" /\ q.fate[i].on = q.fate[j].on => i = j
    BY DEF Shaped
  <1>12. q.alone => q.kept
    BY DEF Shaped
  <1> HIDE DEF q
  <1>13. \A i \in DOMAIN q.file :
          /\ fate[i].status # "error" => q.file[i].title # None
          /\ fate[i].status \in {"ok", "created", "update", "updated"} => ~Repeats(q.file, i)
          /\ fate[i].status \in {"update", "updated"} =>
               fate[i].on \in Listings /\ q.file[i].ref # None /\ q.existing = "update"
          /\ fate[i].status = "created" => fate[i].on \in Listings
    BY <1>2, <1>3, <1>4, <1>9, <1>10
  <1>14. ASSUME NEW i \in DOMAIN q.file, NEW j \in DOMAIN q.file,
                fate[i].status = "created", fate[i].on = fate[j].on
         PROVE  i = j
    <2>1. \A k \in DOMAIN q.file \ {q.at} : status = "created" => q.fate[k].on # on
      BY <1>1, <1>2 DEF q
    <2>2. CASE i # q.at /\ j # q.at
      BY <1>4, <1>11, <1>14, <2>2
    <2>3. CASE i = q.at /\ j # q.at
      BY <1>3, <1>4, <1>14, <2>1, <2>3
    <2>4. CASE i # q.at /\ j = q.at
      <3>1. q.fate[i].status = "created" /\ q.fate[i].on = on /\ q.fate[i].on \in Listings
        BY <1>3, <1>4, <1>9, <1>14, <2>4
      <3>2. on # q.fate[q.at].on
        BY <1>1, <1>11, <2>4, <3>1
      <3>3. on # None
        BY <3>1, NoneIsNoValue
      <3> QED BY <1>2, <2>1, <2>4, <3>1, <3>2, <3>3
    <2> QED BY <2>2, <2>3, <2>4
  <1>15. Shaped(r)
    <2>1. r.stage \notin {"read", "update"}
      BY <1>8
    <2> QED BY <1>4, <1>8, <1>12, <1>13, <1>14, <2>1 DEF Shaped
  <1>16. /\ r \in Requests /\ Shaped(r)
         /\ r.file = q.file /\ r.existing = q.existing /\ r.before = q.before
         /\ r.alone = q.alone /\ r.kept = q.kept /\ r.stage \in {"apply", "done"}
         /\ r.fate[q.at].status = status /\ r.fate[q.at].on = on
         /\ \A i \in DOMAIN q.file \ {q.at} : r.fate[i] = q.fate[i]
    BY <1>3, <1>4, <1>8, <1>15
  <1> QED BY <1>16 DEF q, r
----------------------------------------------------------------------------
(* What a write leaves of the other requests.                               *)

UInv == \A u \in Uploads : up[u].stage # "idle" => Sound(up[u])

LEMMA ListingStays ==
    ASSUME listing' = listing
    PROVE  /\ \A q : Sound(q)' = Sound(q)
           /\ RefsAreUnique' = RefsAreUnique
           /\ last' = last => LastStands' = LastStands
  <1>1. \A x : ByRef(x)' = ByRef(x) /\ ByTitle(x)' = ByTitle(x) /\ Present(x)' = Present(x)
    BY DEF ByRef, ByTitle, Present
  <1>2. \A row : Known(row)' = Known(row)
    BY <1>1 DEF Known
  <1>3. \A file, i, existing : Status(file, i, existing)' = Status(file, i, existing)
    BY <1>1 DEF Status
  <1>4. \A file, existing : Planned(file, existing)' = Planned(file, existing)
    <2> SUFFICES ASSUME NEW file, NEW existing PROVE Planned(file, existing)' = Planned(file, existing)
      OBVIOUS
    <2> DEFINE F(i) == LET status == Status(file, i, existing) IN
                       Simply(status, IF status = "update" THEN CHOOSE l \in ByRef(file[i].ref) : TRUE ELSE None)
    <2>1. Planned(file, existing) = [i \in DOMAIN file |-> F(i)]
          /\ Planned(file, existing)' = [i \in DOMAIN file |-> F(i)']
      BY DEF Planned
    <2>2. ASSUME NEW i PROVE F(i)' = F(i)
      <3> DEFINE C(S) == CHOOSE l \in S : TRUE
      <3>1. F(i) = Simply(Status(file, i, existing), IF Status(file, i, existing) = "update" THEN C(ByRef(file[i].ref)) ELSE None)
            /\ F(i)' = Simply(Status(file, i, existing)', IF Status(file, i, existing)' = "update" THEN C(ByRef(file[i].ref)') ELSE None)
        OBVIOUS
      <3> HIDE DEF C, F
      <3> QED BY <1>1, <1>3, <3>1
    <2> HIDE DEF F
    <2> QED BY <2>1, <2>2
  <1>5. \A l, standards : Empties(l, standards)' = Empties(l, standards)
    BY DEF Empties
  <1>6. \A row, fate : Merged(row, fate)' = Merged(row, fate)
    BY <1>1, <1>5 DEF Merged
  <1>7. \A fates, i : Allowed(fates, i)' = Allowed(fates, i)
    BY DEF Allowed, Today
  <1>8. \A fates : Capped(fates)' = Capped(fates)
    BY <1>7 DEF Capped
  <1>9. \A file, fates : Reviewed(file, fates)' = Reviewed(file, fates)
    BY <1>6, <1>8 DEF Reviewed
  <1>10. \A q : Truthful(q)' = Truthful(q)
    BY <1>1 DEF Truthful
  <1>11. \A q : Steady(q)' = Steady(q)
    BY <1>1, <1>2, <1>4, <1>5 DEF Steady
  <1>15. \A q : Foretold(q)' = Foretold(q)
    BY <1>9 DEF Foretold
  <1>12. \A q : Sound(q)' = Sound(q)
    BY <1>10, <1>11, <1>15 DEF Sound
  <1>13. RefsAreUnique' = RefsAreUnique
    BY <1>1 DEF RefsAreUnique
  <1>14. last' = last => LastStands' = LastStands
    BY <1>2, <1>4, <1>9 DEF LastStands
  <1> QED BY <1>12, <1>13, <1>14

LEMMA Bystander ==
    ASSUME NEW q \in Requests, Sound(q), NEW deletes \in BOOLEAN,
           ~deletes => \A ref : ByRef(ref) \subseteq ByRef(ref)'
    PROVE  LET r == [q EXCEPT !.alone = FALSE, !.before = NoReport, !.kept = @ /\ ~deletes]
           IN r \in Requests /\ Sound(r)'
  <1> DEFINE r == [q EXCEPT !.alone = FALSE, !.before = NoReport, !.kept = @ /\ ~deletes]
  <1>1. /\ r \in Requests
        /\ r.stage = q.stage /\ r.file = q.file /\ r.existing = q.existing /\ r.fate = q.fate /\ r.at = q.at
        /\ r.alone = FALSE /\ r.kept = (q.kept /\ ~deletes)
    BY DEF Requests
  <1> HIDE DEF r
  <1>2. Shaped(r)
    BY <1>1 DEF Shaped, Sound
  <1>3. ASSUME r.kept PROVE Truthful(r)'
    <2>1. Truthful(q) /\ \A ref : ByRef(ref) \subseteq ByRef(ref)'
      BY <1>1, <1>3 DEF Sound
    <2> QED BY <1>1, <2>1 DEF Truthful
  <1>4. Sound(r)'
    BY <1>1, <1>2, <1>3 DEF Sound
  <1> QED BY <1>1, <1>4 DEF r

\* Of every upload but u, which one is None when the write is made by hand.
LEMMA OthersKeep ==
    ASSUME TypeOK, UInv, NEW u, NEW deletes \in BOOLEAN,
           ~deletes => \A ref : ByRef(ref) \subseteq ByRef(ref)',
           NEW v \in Uploads, v # u
    PROVE  \A r : r = Others(u, deletes)[v] => r \in Requests \cup {Idle} /\ (r.stage # "idle" => Sound(r)')
  <1>1. CASE up[v].stage = "idle"
    <2>1. Others(u, deletes)[v] = up[v]
      BY <1>1 DEF Others
    <2> QED BY <1>1, <2>1 DEF TypeOK
  <1>2. CASE up[v].stage # "idle"
    <2>1. PICK q : q = up[v]
      OBVIOUS
    <2> DEFINE r == [q EXCEPT !.alone = FALSE, !.before = NoReport, !.kept = @ /\ ~deletes]
    <2>2. Others(u, deletes)[v] = r
      BY <1>2, <2>1 DEF Others
    <2>3. q \in Requests /\ Sound(q)
      BY <1>2, <2>1, RequestType DEF UInv
    <2>4. r \in Requests /\ Sound(r)'
      BY <2>3, Bystander
    <2> HIDE DEF r
    <2> QED BY <2>2, <2>4
  <1> QED BY <1>1, <1>2

\* One request goes on or ends, and nothing is written.
LEMMA OneRequest ==
    ASSUME TypeOK, UInv, NEW u \in Uploads, NEW r, r = Idle \/ (r \in Requests /\ Sound(r)),
           up' = [up EXCEPT ![u] = r], listing' = listing
    PROVE  up' \in [Uploads -> Requests \cup {Idle}] /\ UInv'
  <1>1. up' \in [Uploads -> Requests \cup {Idle}]
    BY DEF TypeOK
  <1>2. up'[u] = r /\ \A v \in Uploads \ {u} : up'[v] = up[v]
    BY DEF TypeOK
  <1>3. \A v \in Uploads : \A q : q = up'[v] /\ q.stage # "idle" => Sound(q)
    BY <1>2 DEF UInv, Idle
  <1>4. \A v \in Uploads : (up[v].stage # "idle" => Sound(up[v]))'
    BY <1>3, ListingStays
  <1> QED BY <1>1, <1>4 DEF UInv

LEMMA ByHand ==
    ASSUME TypeOK, UInv, NEW deletes \in BOOLEAN,
           ~deletes => \A ref : ByRef(ref) \subseteq ByRef(ref)',
           up' = Others(None, deletes)
    PROVE  up' \in [Uploads -> Requests \cup {Idle}] /\ UInv'
  <1>1. \A v \in Uploads : v # None
    BY NoneIsNoValue
  <1>2. \A v \in Uploads : (up[v] \in Requests \cup {Idle} /\ (up[v].stage # "idle" => Sound(up[v])))'
    BY <1>1, OthersKeep
  <1>3. up' = [v \in Uploads |-> up'[v]]
    BY DEF Others
  <1>4. up' \in [Uploads -> Requests \cup {Idle}]
    BY <1>2, <1>3
  <1> QED BY <1>2, <1>4 DEF UInv

LEMMA ByUpload ==
    ASSUME TypeOK, UInv, NEW u \in Uploads, NEW r \in Requests, Sound(r)',
           \A ref : ByRef(ref) \subseteq ByRef(ref)',
           up' = [Others(u, FALSE) EXCEPT ![u] = r]
    PROVE  up' \in [Uploads -> Requests \cup {Idle}] /\ UInv'
  <1>1. up'[u] = r /\ \A v \in Uploads \ {u} : up'[v] = Others(u, FALSE)[v]
    BY DEF Others
  <1>2. \A v \in Uploads \ {u} :
          (up[v] \in Requests \cup {Idle} /\ (up[v].stage # "idle" => Sound(up[v])))'
    BY <1>1, OthersKeep
  <1>3. up' = [v \in Uploads |-> up'[v]]
    BY DEF Others
  <1>4. up' \in [Uploads -> Requests \cup {Idle}]
    BY <1>1, <1>2, <1>3
  <1>5. \A v \in Uploads : (up[v].stage # "idle" => Sound(up[v]))'
    BY <1>1, <1>2
  <1> QED BY <1>4, <1>5 DEF UInv

----------------------------------------------------------------------------
(* What each write does to the listings.                                    *)

LEMMA SameRefs ==
    ASSUME RefsAreUnique,
           \A l \in Listings : Present(l)' = Present(l) /\ (Present(l) => listing'[l].ref = listing[l].ref)
    PROVE  RefsAreUnique' /\ \A ref : ByRef(ref)' = ByRef(ref)
  BY DEF RefsAreUnique, ByRef

\* A listing is made, with a reference of its own or none.
LEMMA Added ==
    ASSUME TypeOK, RefsAreUnique, NEW l \in Listings, ~Present(l),
           NEW ref \in Refs \cup {None}, ~Clash(ref), NEW title \in Titles, NEW standards, standards \subseteq Standards,
           listing' = [listing EXCEPT ![l] = Draft(ref, title, standards)]
    PROVE  /\ listing' \in [Listings -> ListingRows \cup {NoListing}]
           /\ RefsAreUnique'
           /\ \A k \in Listings : Present(k) => k # l /\ listing'[k] = listing[k]
           /\ l \in ByRef(ref)' /\ l \in ByTitle(title)'
           /\ \A x : ByRef(x) \subseteq ByRef(x)' /\ ByTitle(x) \subseteq ByTitle(x)'
           /\ \A x : x # ref => ByRef(x)' = ByRef(x)
  <1> DEFINE d == Draft(ref, title, standards)
  <1>1. d \in ListingRows /\ d.state = "draft" /\ d.ref = ref /\ d.title = title
    BY DEF Draft, ListingRows
  <1> HIDE DEF d
  <1>2. /\ listing' \in [Listings -> ListingRows \cup {NoListing}]
        /\ listing'[l] = d /\ \A k \in Listings \ {l} : listing'[k] = listing[k]
    BY <1>1 DEF TypeOK, d
  <1>3. Present(l)' /\ \A k \in Listings \ {l} : Present(k)' = Present(k)
    BY <1>1, <1>2 DEF Present
  <1>4. l \in ByRef(ref)' /\ l \in ByTitle(title)'
    BY <1>1, <1>2, <1>3 DEF ByRef, ByTitle
  <1>5. \A x : ByRef(x) \subseteq ByRef(x)' /\ ByTitle(x) \subseteq ByTitle(x)'
    BY <1>2, <1>3 DEF ByRef, ByTitle
  <1>6. \A x : x # ref => ByRef(x)' = ByRef(x)
    BY <1>1, <1>2, <1>3 DEF ByRef
  <1>7. RefsAreUnique'
    <2>1. ref # None => \A k \in Listings : Present(k) => listing[k].ref # ref
      BY DEF Clash, ByRef
    <2> QED BY <1>1, <1>2, <1>3, <2>1 DEF RefsAreUnique
  <1> QED BY <1>2, <1>4, <1>5, <1>6, <1>7

\* A listing's title and standards are written.
LEMMA Written ==
    ASSUME TypeOK, RefsAreUnique, NEW l \in Listings, Present(l),
           NEW title \in Titles, NEW standards, standards \subseteq Standards,
           listing' = [listing EXCEPT ![l].title = title, ![l].standards = standards]
    PROVE  /\ listing' \in [Listings -> ListingRows \cup {NoListing}]
           /\ RefsAreUnique'
           /\ \A k \in Listings : k # l => listing'[k] = listing[k]
           /\ listing'[l].standards = standards
           /\ \A x : ByRef(x)' = ByRef(x)
  <1> DEFINE d == [listing[l] EXCEPT !.title = title, !.standards = standards]
  <1>1. listing[l] \in ListingRows /\ listing \in [Listings -> ListingRows \cup {NoListing}]
    BY DEF TypeOK, Present, NoListing
  <1>2. d \in ListingRows /\ d.state = listing[l].state /\ d.ref = listing[l].ref /\ d.standards = standards
    BY <1>1 DEF ListingRows
  <1>3. listing' = [listing EXCEPT ![l] = d]
    BY <1>1
  <1> HIDE DEF d
  <1>4. /\ listing' \in [Listings -> ListingRows \cup {NoListing}]
        /\ listing'[l] = d /\ \A k \in Listings : k # l => listing'[k] = listing[k]
    BY <1>1, <1>2, <1>3
  <1>5. \A k \in Listings : Present(k)' = Present(k) /\ listing'[k].ref = listing[k].ref
    BY <1>2, <1>4 DEF Present
  <1>6. RefsAreUnique' /\ \A x : ByRef(x)' = ByRef(x)
    BY <1>5, SameRefs
  <1> QED BY <1>2, <1>4, <1>6

\* A listing is published, or taken back.
LEMMA Shown ==
    ASSUME TypeOK, RefsAreUnique, NEW l \in Listings, Present(l), NEW state \in {"draft", "published"},
           listing' = [listing EXCEPT ![l].state = state]
    PROVE  /\ listing' \in [Listings -> ListingRows \cup {NoListing}]
           /\ RefsAreUnique'
           /\ \A x : ByRef(x)' = ByRef(x)
  <1> DEFINE d == [listing[l] EXCEPT !.state = state]
  <1>1. listing[l] \in ListingRows /\ listing \in [Listings -> ListingRows \cup {NoListing}]
    BY DEF TypeOK, Present, NoListing
  <1>2. d \in ListingRows /\ d.state = state /\ d.ref = listing[l].ref
    BY <1>1 DEF ListingRows
  <1>3. listing' = [listing EXCEPT ![l] = d]
    BY <1>1
  <1> HIDE DEF d
  <1>4. /\ listing' \in [Listings -> ListingRows \cup {NoListing}]
        /\ listing'[l] = d /\ \A k \in Listings \ {l} : listing'[k] = listing[k]
    BY <1>1, <1>2, <1>3
  <1>5. \A k \in Listings : Present(k)' = Present(k) /\ listing'[k].ref = listing[k].ref
    BY <1>2, <1>4 DEF Present
  <1> QED BY <1>4, <1>5, SameRefs

LEMMA Removed ==
    ASSUME TypeOK, RefsAreUnique, NEW l \in Listings, listing' = [listing EXCEPT ![l] = NoListing]
    PROVE  listing' \in [Listings -> ListingRows \cup {NoListing}] /\ RefsAreUnique'
  <1>1. /\ listing' \in [Listings -> ListingRows \cup {NoListing}]
        /\ listing'[l] = NoListing /\ \A k \in Listings \ {l} : listing'[k] = listing[k]
    BY DEF TypeOK
  <1>2. ~Present(l)' /\ \A k \in Listings \ {l} : Present(k)' = Present(k)
    BY <1>1 DEF Present, NoListing
  <1> QED BY <1>1, <1>2 DEF RefsAreUnique

\* The listings of a day before count no more; nothing else of them changes.
LEMMA Aged ==
    ASSUME TypeOK, RefsAreUnique, listing' = [l \in Listings |-> [listing[l] EXCEPT !.today = FALSE]]
    PROVE  /\ listing' \in [Listings -> ListingRows \cup {NoListing}]
           /\ RefsAreUnique'
           /\ \A x : ByRef(x)' = ByRef(x) /\ ByTitle(x)' = ByTitle(x)
  <1>1. ASSUME NEW l \in Listings
        PROVE  /\ listing'[l] \in ListingRows \cup {NoListing}
               /\ listing'[l].state = listing[l].state /\ listing'[l].ref = listing[l].ref
               /\ listing'[l].title = listing[l].title
    <2> DEFINE d == [listing[l] EXCEPT !.today = FALSE]
    <2>1. listing'[l] = d
      OBVIOUS
    <2>2. CASE listing[l] \in ListingRows
      <3>1. d \in ListingRows /\ d.state = listing[l].state /\ d.ref = listing[l].ref /\ d.title = listing[l].title
        BY <2>2 DEF ListingRows
      <3> QED BY <2>1, <3>1
    <2>3. CASE listing[l] = NoListing
      <3>1. [NoListing EXCEPT !.today = FALSE] = NoListing
        <4>1. NoListing = [NoListing EXCEPT !.today = NoListing.today]
          BY DEF NoListing
        <4>2. NoListing.today = FALSE
          BY DEF NoListing
        <4> QED BY <4>1, <4>2
      <3>2. d = NoListing
        BY <2>3, <3>1
      <3> QED BY <2>1, <2>3, <3>2
    <2> QED BY <2>2, <2>3 DEF TypeOK
  <1>2. \A l \in Listings : Present(l)' = Present(l)
    BY <1>1 DEF Present
  <1>3. \A x : ByTitle(x)' = ByTitle(x)
    BY <1>1, <1>2 DEF ByTitle
  <1>4. RefsAreUnique' /\ \A x : ByRef(x)' = ByRef(x)
    BY <1>1, <1>2, SameRefs
  <1> QED BY <1>1, <1>3, <1>4
----------------------------------------------------------------------------
(* Each step of an upload.                                                  *)

LEMMA BeginSound ==
    ASSUME TypeOK, LastStands, NEW file \in Files, NEW existing \in {"skip", "update"}, NEW r,
           r = [stage |-> "read", file |-> file, existing |-> existing,
                fate |-> Planned(file, existing), at |-> 0,
                before |-> IF last.file = file /\ last.existing = existing THEN last ELSE NoReport,
                alone |-> TRUE, kept |-> TRUE]
    PROVE  r \in Requests /\ Sound(r)
  <1> DEFINE fates == Planned(file, existing)
  <1>1. /\ fates \in Seq(Fates) /\ DOMAIN fates = DOMAIN file
        /\ \A i \in DOMAIN file :
             /\ fates[i].status = Status(file, i, existing)
             /\ fates[i].status = "update" => fates[i].on \in ByRef(file[i].ref)
    BY PlannedFacts
  <1>2. /\ r.stage = "read" /\ r.file = file /\ r.existing = existing /\ r.fate = fates /\ r.at = 0
        /\ r.alone = TRUE /\ r.kept = TRUE
        /\ r.before = IF last.file = file /\ last.existing = existing THEN last ELSE NoReport
    OBVIOUS
  <1>3. DOMAIN file \subseteq Nat \ {0}
    BY FileType
  <1>4. ASSUME NEW i \in DOMAIN file
        PROVE  /\ fates[i].status \in {"error", "skip", "ok", "update"}
               /\ fates[i].status # "error" => file[i].title # None
               /\ fates[i].status \in {"ok", "update"} => ~Repeats(file, i)
               /\ fates[i].status = "update" => file[i].ref # None /\ existing = "update"
               /\ fates[i].status = "ok" => Known(file[i]) = {}
               /\ fates[i].status = "skip" => Known(file[i]) # {} \/ Repeats(file, i)
               /\ existing = "skip" /\ file[i].title # None /\ (Known(file[i]) # {} \/ Repeats(file, i))
                    => fates[i].status = "skip"
    <2> DEFINE status == Status(file, i, existing)
    <2>1. fates[i].status = status
      BY <1>1
    <2> HIDE DEF fates
    <2>2. /\ status \in {"error", "skip", "ok", "update"}
          /\ status # "error" => file[i].title # None
          /\ status \in {"ok", "update"} => ~Repeats(file, i)
          /\ status = "update" => file[i].ref # None /\ existing = "update"
          /\ status = "ok" => Known(file[i]) = {}
          /\ status = "skip" => Known(file[i]) # {} \/ Repeats(file, i)
          /\ existing = "skip" /\ file[i].title # None /\ (Known(file[i]) # {} \/ Repeats(file, i))
               => status = "skip"
      BY StatusFacts
    <2> HIDE DEF status
    <2> QED BY <2>1, <2>2
  <1>5. r \in Requests
    <2>1. r.before \in Reports \cup {NoReport}
      BY <1>2 DEF TypeOK
    <2> HIDE DEF fates
    <2> QED BY <1>1, <2>1 DEF Requests, fates
  <1> HIDE DEF fates
  <1>6. \A i \in DOMAIN file : fates[i].status = "update" => fates[i].on \in Listings
    BY <1>1 DEF ByRef
  <1>7. Shaped(r)
    BY <1>1, <1>2, <1>3, <1>4, <1>6 DEF Shaped
  <1>8. Truthful(r)
    BY <1>1, <1>2, <1>4 DEF Truthful, Known
  <1>9. Steady(r)
    BY <1>1, <1>2, <1>4 DEF Steady, Known, fates
  <1>10. Foretold(r)
    <2> SUFFICES ASSUME r.before # NoReport PROVE Foretold(r)
      BY DEF Foretold
    <2>1. r.before = last /\ last.file = file /\ last.existing = existing /\ last # NoReport
      BY <1>2
    <2>2. DOMAIN last.status = DOMAIN file
      BY <2>1 DEF LastStands
    <2>3. ~last.apply => \A i \in DOMAIN file : last.status[i] = Reviewed(file, fates)[i].status
      BY <2>1 DEF LastStands, fates
    <2>4. last.apply /\ existing = "skip" => \A i \in DOMAIN file : last.status[i] # "error" => fates[i].status = "skip"
      BY <1>4, <2>1 DEF LastStands
    <2> QED BY <1>2, <2>1, <2>2, <2>3, <2>4 DEF Foretold
  <1> QED BY <1>5, <1>7, <1>8, <1>9, <1>10 DEF Sound

LEMMA PlanSound ==
    ASSUME TypeOK, NEW q \in Requests, Sound(q), q.stage = "read"
    PROVE  LET r == Onward([q EXCEPT !.fate = Reviewed(q.file, q.fate)])
           IN r \in Requests /\ Sound(r)
  <1> DEFINE g == Reviewed(q.file, q.fate)
             p == [q EXCEPT !.fate = g]
             r == Onward(p)
  <1>1. /\ q.file \in Files /\ q.fate \in Seq(Fates) /\ q.at = 0
        /\ DOMAIN q.fate = DOMAIN q.file /\ DOMAIN q.file \subseteq Nat \ {0}
        /\ q.alone => q.kept
        /\ \A i \in DOMAIN q.file :
             /\ q.fate[i].status # "error" => q.file[i].title # None
             /\ q.fate[i].status \in {"ok", "update"} => ~Repeats(q.file, i)
             /\ q.fate[i].status = "update" =>
                  q.fate[i].on \in Listings /\ q.file[i].ref # None /\ q.existing = "update"
             /\ q.fate[i].status \in {"error", "skip", "ok", "update"}
    BY FileType DEF Requests, Sound, Shaped
  <1>2. /\ g \in Seq(Fates) /\ DOMAIN g = DOMAIN q.file
        /\ \A i \in DOMAIN q.file :
             /\ q.fate[i].status = "ok" => g[i].status \in {"ok", "error"} /\ g[i].on = q.fate[i].on
             /\ q.fate[i].status = "update" =>
                  \/ ~Present(q.fate[i].on) /\ g[i] = q.fate[i]
                  \/ Present(q.fate[i].on) /\ g[i].status \in {"error", "skip"} /\ g[i].on = None
                  \/ /\ Present(q.fate[i].on) /\ g[i].status = "update" /\ g[i].on = q.fate[i].on
                     /\ ~Empties(q.fate[i].on, g[i].standards)
                     /\ ~q.file[i].carries => g[i].standards = listing[q.fate[i].on].standards
             /\ q.fate[i].status \notin {"ok", "update"} => g[i] = q.fate[i]
    BY <1>1, ReviewedFacts
  <1> HIDE DEF g
  <1>3. /\ p \in Requests /\ p.file = q.file /\ p.existing = q.existing /\ p.fate = g /\ p.before = q.before
        /\ p.alone = q.alone /\ p.kept = q.kept /\ p.at = 0
    BY <1>1, <1>2 DEF Requests
  <1> HIDE DEF p
  <1>4. /\ r \in Requests
        /\ r.file = q.file /\ r.existing = q.existing /\ r.fate = g /\ r.before = q.before
        /\ r.alone = q.alone /\ r.kept = q.kept
        /\ r.stage \in {"apply", "done"}
        /\ r.stage = "apply" => r.at \in DOMAIN q.file /\ Pending(g[r.at])
        /\ \A i \in DOMAIN q.file : r.stage = "done" \/ i < r.at => ~Pending(g[i])
    <2>1. \A i \in DOMAIN p.file : ~(i <= p.at)
      BY <1>1, <1>3
    <2> QED BY <1>2, <1>3, <2>1, OnwardFacts
  <1> HIDE DEF r
  <1>5. \A i \in DOMAIN q.file :
          /\ g[i].status # "error" => q.file[i].title # None
          /\ g[i].status \in {"error", "skip", "ok", "update"}
          /\ g[i].status \in {"ok", "update"} => ~Repeats(q.file, i)
          /\ g[i].status = "update" =>
               g[i].on \in Listings /\ q.file[i].ref # None /\ q.existing = "update"
    BY <1>1, <1>2
  <1>6. Shaped(r)
    BY <1>1, <1>2, <1>4, <1>5 DEF Shaped
  <1>7. ASSUME q.kept PROVE Truthful(r)
    <2> SUFFICES ASSUME NEW i \in DOMAIN q.file
        PROVE  /\ q.file[i].ref # None /\ g[i].status \in {"created", "skip"} /\ ~Repeats(q.file, i)
                    => ByRef(q.file[i].ref) # {}
               /\ g[i].status \in {"update", "updated"} => g[i].on \in ByRef(q.file[i].ref)
      BY <1>4 DEF Truthful
    <2>1. /\ q.file[i].ref # None /\ q.fate[i].status = "skip" /\ ~Repeats(q.file, i)
               => ByRef(q.file[i].ref) # {}
          /\ q.fate[i].status = "update" => q.fate[i].on \in ByRef(q.file[i].ref)
      BY <1>7 DEF Sound, Truthful
    <2>2. q.fate[i].status = "update" => Present(q.fate[i].on)
      BY <2>1 DEF ByRef
    <2> QED BY <1>1, <1>2, <1>5, <2>1, <2>2
  <1>8. ASSUME q.alone PROVE Steady(r)
    <2> SUFFICES ASSUME NEW i \in DOMAIN q.file
        PROVE  /\ g[i].status = "ok" /\ q.file[i].ref # None => ByRef(q.file[i].ref) = {}
               /\ g[i].status = "update" =>
                    /\ ~Empties(g[i].on, g[i].standards)
                    /\ ~q.file[i].carries => listing[g[i].on].standards = g[i].standards
               /\ q.existing = "skip" /\ g[i].status \in {"skip", "created"} =>
                    Known(q.file[i]) # {} \/ Repeats(q.file, i)
      BY <1>4 DEF Steady
    <2>1. /\ q.fate[i].status = "ok" /\ q.file[i].ref # None => ByRef(q.file[i].ref) = {}
          /\ q.existing = "skip" /\ q.fate[i].status \in {"skip", "created"} =>
               Known(q.file[i]) # {} \/ Repeats(q.file, i)
      BY <1>8 DEF Sound, Steady
    <2>2. q.fate[i].status = "update" => Present(q.fate[i].on)
      BY <1>1, <1>8 DEF Sound, Truthful, ByRef
    <2> QED BY <1>1, <1>2, <1>5, <2>1, <2>2
  <1>9. ASSUME q.alone PROVE Foretold(r)
    <2> SUFFICES ASSUME q.before # NoReport PROVE Foretold(r)
      BY <1>4 DEF Foretold
    <2>1. /\ q.before.file = q.file /\ q.before.existing = q.existing
          /\ DOMAIN q.before.status = DOMAIN q.file
          /\ ~q.before.apply => \A i \in DOMAIN q.file : q.before.status[i] = g[i].status
          /\ q.before.apply /\ q.existing = "skip" =>
               \A i \in DOMAIN q.file : q.before.status[i] # "error" => q.fate[i].status = "skip"
      BY <1>9 DEF Sound, Foretold, g
    <2>2. \A i \in DOMAIN q.file : <<g[i].status, g[i].status>> \in Kept
      BY <1>5 DEF Kept
    <2>3. q.before.apply /\ q.existing = "skip" =>
            \A i \in DOMAIN q.file : q.before.status[i] # "error" => g[i].status = "skip"
      BY <1>2, <2>1
    <2> QED BY <1>4, <2>1, <2>2, <2>3 DEF Foretold
  <1>10. r \in Requests /\ Sound(r)
    BY <1>4, <1>6, <1>7, <1>8, <1>9 DEF Sound
  <1> QED BY <1>10 DEF r, p, g

\* A row whose write is refused: nobody was alone.
LEMMA RefusedSound ==
    ASSUME TypeOK, UInv, NEW u \in Uploads, up[u].stage \in {"apply", "update"},
           NEW status \in {"error", "skip"}, NEW on \in {None, Fate(u).on},
           status = "skip" /\ Row(u).ref # None => ByRef(Row(u).ref) # {},
           ~up[u].alone
    PROVE  Settled(u, status, on) \in Requests /\ Sound(Settled(u, status, on))
  <1> DEFINE q == up[u]
             r == Settled(u, status, on)
  <1>1. Sound(q) /\ q.at \in DOMAIN q.file
    BY DEF UInv, Sound, Shaped
  <1>2. /\ r \in Requests /\ Shaped(r)
        /\ r.file = q.file /\ r.existing = q.existing /\ r.before = q.before
        /\ r.alone = q.alone /\ r.kept = q.kept /\ r.stage \in {"apply", "done"}
        /\ r.fate[q.at].status = status /\ r.fate[q.at].on = on
        /\ \A i \in DOMAIN q.file \ {q.at} : r.fate[i] = q.fate[i]
    BY <1>1, SettledFacts DEF Sound
  <1>3. status = "skip" /\ q.file[q.at].ref # None => ByRef(q.file[q.at].ref) # {}
    BY DEF Row
  <1>4. ~q.alone /\ q.stage # "read"
    OBVIOUS
  <1> HIDE DEF q, r
  <1>5. ASSUME q.kept PROVE Truthful(r)
    <2>1. Truthful(q)
      BY <1>1, <1>5 DEF Sound
    <2>2. ASSUME NEW i \in DOMAIN q.file
          PROVE  /\ q.file[i].ref # None /\ r.fate[i].status \in {"created", "skip"} /\ ~Repeats(q.file, i)
                      => ByRef(q.file[i].ref) # {}
                 /\ r.fate[i].status \in {"update", "updated"} => r.fate[i].on \in ByRef(q.file[i].ref)
      <3>1. CASE i = q.at
        BY <1>2, <1>3, <3>1
      <3>2. CASE i # q.at
        <4>1. r.fate[i] = q.fate[i]
          BY <1>2, <3>2
        <4> QED BY <1>4, <2>1, <4>1 DEF Truthful
      <3> QED BY <3>1, <3>2
    <2> QED BY <1>2, <2>2 DEF Truthful
  <1>6. r \in Requests /\ Sound(r)
    BY <1>2, <1>4, <1>5 DEF Sound
  <1> QED BY <1>6 DEF r

\* The listing that update_job has read.
LEMMA ReadSound ==
    ASSUME TypeOK, UInv, NEW u \in Uploads, up[u].stage = "apply", Fate(u).status = "update"
    PROVE  LET r == [up[u] EXCEPT !.stage = "update"] IN r \in Requests /\ Sound(r)
  <1> DEFINE q == up[u]
             r == [q EXCEPT !.stage = "update"]
  <1>1. q \in Requests /\ Sound(q) /\ q.fate[q.at].status = "update"
    BY RequestType DEF UInv, Fate
  <1>2. q.stage = "apply"
    OBVIOUS
  <1> HIDE DEF q
  <1>3. /\ r \in Requests /\ r.stage = "update"
        /\ r.file = q.file /\ r.existing = q.existing /\ r.fate = q.fate /\ r.before = q.before
        /\ r.alone = q.alone /\ r.kept = q.kept /\ r.at = q.at
    BY <1>1 DEF Requests
  <1> HIDE DEF r
  <1>4. Shaped(r)
    BY <1>1, <1>2, <1>3 DEF Sound, Shaped
  <1>5. q.kept => Truthful(r)
    BY <1>1, <1>2, <1>3 DEF Sound, Truthful
  <1>6. q.alone => Steady(r)
    BY <1>1, <1>2, <1>3 DEF Sound, Steady
  <1>7. q.alone => Foretold(r)
    BY <1>1, <1>2, <1>3 DEF Sound, Foretold
  <1>8. r \in Requests /\ Sound(r)
    BY <1>3, <1>4, <1>5, <1>6, <1>7 DEF Sound
  <1> QED BY <1>8 DEF r, q

\* Two rows that ask for a write and name the same listing: the later repeats.
LEMMA WritersDiffer ==
    ASSUME NEW q \in Requests, Shaped(q), q.stage \in {"apply", "update"},
           NEW i \in DOMAIN q.file, i # q.at, Pending(q.fate[i]), q.file[i].ref # None
    PROVE  q.file[i].ref # q.file[q.at].ref
  <1> SUFFICES ASSUME q.file[i].ref = q.file[q.at].ref PROVE FALSE
    OBVIOUS
  <1>1. q.at \in DOMAIN q.file /\ DOMAIN q.file \subseteq Nat \ {0} /\ ~(i < q.at)
    BY FileType DEF Shaped, Requests
  <1>2. q.at \in 1..i - 1
    BY <1>1
  <1>3. q.file[q.at].title # None
    BY <1>1 DEF Shaped, Pending
  <1>4. Repeats(q.file, i)
    BY <1>2, <1>3 DEF Repeats, Seen
  <1> QED BY <1>4 DEF Shaped, Pending

LEMMA CreatedSound ==
    ASSUME TypeOK, UInv, NEW u \in Uploads, up[u].stage = "apply", Fate(u).status = "ok", NEW l \in Listings,
           \A i \in DOMAIN up[u].fate : up[u].fate[i].on # l,
           NEW ref, ref = Row(u).ref, NEW title, title = Row(u).title,
           \A k \in Listings : Present(k) => k # l /\ listing'[k] = listing[k],
           l \in ByRef(ref)', l \in ByTitle(title)',
           \A x : ByRef(x) \subseteq ByRef(x)' /\ ByTitle(x) \subseteq ByTitle(x)',
           \A x : x # ref => ByRef(x)' = ByRef(x)
    PROVE  \A r : r = Settled(u, "created", l) => r \in Requests /\ Sound(r)'
  <1> PICK q : q = up[u]
    OBVIOUS
  <1> PICK r : r = Settled(u, "created", l)
    OBVIOUS
  <1>1. /\ q \in Requests /\ Sound(q) /\ Shaped(q) /\ q.file \in Files /\ q.at \in DOMAIN q.file
        /\ q.fate[q.at].status = "ok" /\ q.stage = "apply"
    BY RequestType DEF UInv, Fate, Sound, Shaped
  <1>2. ref = q.file[q.at].ref /\ title = q.file[q.at].title
    BY DEF Row
  <1>3. /\ \A k \in Listings : Present(k) => k # l /\ listing'[k] = listing[k]
        /\ l \in ByRef(ref)' /\ l \in ByTitle(title)'
        /\ \A x : ByRef(x) \subseteq ByRef(x)' /\ ByTitle(x) \subseteq ByTitle(x)'
        /\ \A x : x # ref => ByRef(x)' = ByRef(x)
    OBVIOUS
  <1>4. /\ r \in Requests /\ Shaped(r)
        /\ r.file = q.file /\ r.existing = q.existing /\ r.before = q.before
        /\ r.alone = q.alone /\ r.kept = q.kept /\ r.stage \in {"apply", "done"}
        /\ r.fate[q.at].status = "created" /\ r.fate[q.at].on = l
        /\ \A i \in DOMAIN q.file \ {q.at} : r.fate[i] = q.fate[i]
    BY <1>1, SettledFacts
  <1>5. \A x : ByRef(x) \subseteq ByRef(x)'
    BY <1>3
  <1>6. ASSUME NEW i \in DOMAIN q.file PROVE Known(q.file[i]) \subseteq Known(q.file[i])'
    BY <1>3 DEF Known
  <1>7. ASSUME q.kept PROVE Truthful(r)'
    <2> SUFFICES ASSUME NEW i \in DOMAIN q.file
        PROVE  /\ q.file[i].ref # None /\ r.fate[i].status \in {"created", "skip"} /\ ~Repeats(q.file, i)
                    => ByRef(q.file[i].ref)' # {}
               /\ r.fate[i].status \in {"update", "updated"} => r.fate[i].on \in ByRef(q.file[i].ref)'
      BY <1>4 DEF Truthful
    <2>1. CASE i = q.at
      BY <1>2, <1>3, <1>4, <2>1
    <2>2. CASE i # q.at
      <3>1. r.fate[i] = q.fate[i]
        BY <1>4, <2>2
      <3>2. /\ q.file[i].ref # None /\ q.fate[i].status \in {"created", "skip"} /\ ~Repeats(q.file, i)
                 => ByRef(q.file[i].ref) # {}
            /\ q.fate[i].status \in {"update", "updated"} => q.fate[i].on \in ByRef(q.file[i].ref)
        BY <1>1, <1>7 DEF Sound, Truthful
      <3> QED BY <1>5, <3>1, <3>2
    <2> QED BY <2>1, <2>2
  <1>8. ASSUME q.alone PROVE Steady(r)'
    <2>0. r.stage # "read"
      BY <1>4
    <2>1. ASSUME NEW i \in DOMAIN q.file
          PROVE  /\ r.fate[i].status = "ok" /\ q.file[i].ref # None => ByRef(q.file[i].ref)' = {}
                 /\ r.fate[i].status = "update" =>
                      /\ ~Empties(r.fate[i].on, r.fate[i].standards)'
                      /\ ~q.file[i].carries => listing'[r.fate[i].on].standards = r.fate[i].standards
                 /\ q.existing = "skip" /\ r.fate[i].status \in {"skip", "created"} =>
                      Known(q.file[i])' # {} \/ Repeats(q.file, i)
      <3>1. CASE i = q.at
        <4>1. Known(q.file[i])' # {}
          BY <1>2, <1>3, <3>1 DEF Known
        <4> QED BY <1>4, <3>1, <4>1
      <3>2. CASE i # q.at
        <4>1. r.fate[i] = q.fate[i]
          BY <1>4, <3>2
        <4>2. /\ q.fate[i].status = "ok" /\ q.file[i].ref # None => ByRef(q.file[i].ref) = {}
              /\ q.fate[i].status = "update" =>
                   /\ ~Empties(q.fate[i].on, q.fate[i].standards)
                   /\ ~q.file[i].carries => listing[q.fate[i].on].standards = q.fate[i].standards
              /\ q.existing = "skip" /\ q.fate[i].status \in {"skip", "created"} =>
                   Known(q.file[i]) # {} \/ Repeats(q.file, i)
          BY <1>1, <1>8 DEF Sound, Steady
        <4>3. q.fate[i].status = "ok" /\ q.file[i].ref # None => q.file[i].ref # ref
          BY <1>1, <1>2, <3>2, WritersDiffer DEF Pending
        <4>4. q.fate[i].status = "update" =>
                q.fate[i].on \in Listings /\ listing'[q.fate[i].on] = listing[q.fate[i].on]
          BY <1>1, <1>3, <1>8 DEF Sound, Shaped, Truthful, ByRef
        <4> QED BY <1>3, <1>6, <4>1, <4>2, <4>3, <4>4 DEF Empties
      <3> QED BY <3>1, <3>2
    <2>2. ASSUME NEW i \in DOMAIN r.file
          PROVE  /\ r.fate[i].status = "ok" /\ r.file[i].ref # None => ByRef(r.file[i].ref)' = {}
                 /\ r.fate[i].status = "update" =>
                      /\ ~Empties(r.fate[i].on, r.fate[i].standards)'
                      /\ ~r.file[i].carries => listing'[r.fate[i].on].standards = r.fate[i].standards
                 /\ r.existing = "skip" /\ r.fate[i].status \in {"skip", "created"} =>
                      Known(r.file[i])' # {} \/ Repeats(r.file, i)
      <3>1. i \in DOMAIN q.file /\ r.file = q.file
        BY <1>4
      <3>2. r.fate[i].status = "ok" /\ r.file[i].ref # None => ByRef(r.file[i].ref)' = {}
        BY <2>1, <3>1
      <3>3. r.fate[i].status = "update" => ~Empties(r.fate[i].on, r.fate[i].standards)'
        BY <2>1, <3>1
      <3>4. r.fate[i].status = "update" /\ ~r.file[i].carries =>
              listing'[r.fate[i].on].standards = r.fate[i].standards
        BY <2>1, <3>1
      <3>5. r.existing = "skip" /\ r.fate[i].status \in {"skip", "created"} =>
              Known(r.file[i])' # {} \/ Repeats(r.file, i)
        BY <1>4, <2>1, <3>1
      <3> QED BY <3>2, <3>3, <3>4, <3>5
    <2> QED BY <2>0, <2>2 DEF Steady
  <1>9. ASSUME q.alone PROVE Foretold(r)
    <2> SUFFICES ASSUME q.before # NoReport PROVE Foretold(r)
      BY <1>4 DEF Foretold
    <2>1. /\ q.before.file = q.file /\ q.before.existing = q.existing
          /\ DOMAIN q.before.status = DOMAIN q.file
          /\ ~q.before.apply => \A i \in DOMAIN q.file : <<q.before.status[i], q.fate[i].status>> \in Kept
          /\ q.before.apply /\ q.existing = "skip" =>
               \A i \in DOMAIN q.file : q.before.status[i] # "error" => q.fate[i].status = "skip"
      BY <1>1, <1>9 DEF Sound, Foretold
    <2>2. ~q.before.apply => \A i \in DOMAIN q.file : <<q.before.status[i], r.fate[i].status>> \in Kept
      BY <1>1, <1>4, <2>1 DEF Kept
    <2>3. q.before.apply /\ q.existing = "skip" =>
            \A i \in DOMAIN q.file : q.before.status[i] # "error" => r.fate[i].status = "skip"
      BY <1>1, <1>4, <2>1
    <2> QED BY <1>4, <2>1, <2>2, <2>3 DEF Foretold
  <1>10. q.alone => Foretold(r)'
    BY <1>4, <1>9 DEF Foretold
  <1>11. Sound(r)'
    <2>1. Shaped(r)'
      BY <1>4 DEF Shaped
    <2> QED BY <1>4, <1>7, <1>8, <1>10, <2>1 DEF Sound
  <1> QED BY <1>4, <1>11

LEMMA UpdatedSound ==
    ASSUME TypeOK, UInv, NEW u \in Uploads, up[u].stage = "update", NEW l, l = Fate(u).on,
           \A k \in Listings : k # l => listing'[k] = listing[k],
           \A x : ByRef(x)' = ByRef(x)
    PROVE  \A r : r = Settled(u, "updated", l) => r \in Requests /\ Sound(r)'
  <1> PICK q : q = up[u]
    OBVIOUS
  <1> PICK r : r = Settled(u, "updated", l)
    OBVIOUS
  <1>1. /\ q \in Requests /\ Sound(q) /\ Shaped(q) /\ q.file \in Files /\ q.at \in DOMAIN q.file
        /\ q.fate \in Seq(Fates) /\ q.fate[q.at].status = "update" /\ q.stage = "update"
        /\ q.fate[q.at].on \in Listings /\ q.existing = "update" /\ q.file[q.at].ref # None
        /\ q.file[q.at].title # None /\ DOMAIN q.fate = DOMAIN q.file
    BY RequestType DEF UInv, Sound, Shaped
  <1>2. l = q.fate[q.at].on
    BY DEF Fate
  <1>3. /\ \A k \in Listings : k # l => listing'[k] = listing[k]
        /\ \A x : ByRef(x)' = ByRef(x)
    OBVIOUS
  <1>4. /\ r \in Requests /\ Shaped(r)
        /\ r.file = q.file /\ r.existing = q.existing /\ r.before = q.before
        /\ r.alone = q.alone /\ r.kept = q.kept /\ r.stage \in {"apply", "done"}
        /\ r.fate[q.at].status = "updated" /\ r.fate[q.at].on = l
        /\ \A i \in DOMAIN q.file \ {q.at} : r.fate[i] = q.fate[i]
    <2>1. Fate(u).status = "update" /\ Fate(u).on = l
      BY <1>1, <1>2 DEF Fate
    <2> QED BY <1>1, <2>1, SettledFacts
  <1>5. ASSUME q.kept PROVE Truthful(r)'
    <2> SUFFICES ASSUME NEW i \in DOMAIN q.file
        PROVE  /\ q.file[i].ref # None /\ r.fate[i].status \in {"created", "skip"} /\ ~Repeats(q.file, i)
                    => ByRef(q.file[i].ref) # {}
               /\ r.fate[i].status \in {"update", "updated"} => r.fate[i].on \in ByRef(q.file[i].ref)
      BY <1>3, <1>4 DEF Truthful
    <2>1. /\ q.file[i].ref # None /\ q.fate[i].status \in {"created", "skip"} /\ ~Repeats(q.file, i)
               => ByRef(q.file[i].ref) # {}
          /\ q.fate[i].status \in {"update", "updated"} => q.fate[i].on \in ByRef(q.file[i].ref)
      BY <1>1, <1>5 DEF Sound, Truthful
    <2>2. CASE i = q.at
      <3>1. l \in ByRef(q.file[i].ref)
        BY <1>1, <1>2, <2>1, <2>2
      <3>2. r.fate[i].status = "updated" /\ r.fate[i].on = l
        BY <1>4, <2>2
      <3> QED BY <3>1, <3>2
    <2>3. CASE i # q.at
      <3>1. r.fate[i] = q.fate[i]
        BY <1>4, <2>3
      <3> QED BY <2>1, <3>1
    <2> QED BY <2>2, <2>3
  <1>6. ASSUME q.alone PROVE Steady(r)'
    <2>0. r.stage # "read"
      BY <1>4
    <2>1. ASSUME NEW i \in DOMAIN q.file
          PROVE  /\ r.fate[i].status = "ok" /\ q.file[i].ref # None => ByRef(q.file[i].ref) = {}
                 /\ r.fate[i].status = "update" =>
                      /\ ~Empties(r.fate[i].on, r.fate[i].standards)'
                      /\ ~q.file[i].carries => listing'[r.fate[i].on].standards = r.fate[i].standards
      <3>1. CASE i = q.at
        BY <1>4, <3>1
      <3>2. CASE i # q.at
        <4>1. r.fate[i] = q.fate[i]
          BY <1>4, <3>2
        <4>2. /\ q.fate[i].status = "ok" /\ q.file[i].ref # None => ByRef(q.file[i].ref) = {}
              /\ q.fate[i].status = "update" =>
                   /\ ~Empties(q.fate[i].on, q.fate[i].standards)
                   /\ ~q.file[i].carries => listing[q.fate[i].on].standards = q.fate[i].standards
          BY <1>1, <1>6 DEF Sound, Steady
        <4>3. ASSUME q.fate[i].status = "update"
              PROVE  q.fate[i].on \in Listings \ {l}
          <5>1. Truthful(q)
            BY <1>1, <1>6 DEF Sound, Shaped
          <5>2. /\ q.fate[i].on \in ByRef(q.file[i].ref)
                /\ l \in ByRef(q.file[q.at].ref)
            BY <1>1, <1>2, <4>3, <5>1 DEF Truthful
          <5>3. q.file[i].ref # None /\ Pending(q.fate[i])
            BY <1>1, <4>3, <5>2 DEF Shaped, Pending
          <5>4. q.file[i].ref # q.file[q.at].ref
            BY <1>1, <3>2, <5>3, WritersDiffer
          <5> QED BY <5>2, <5>4 DEF ByRef
        <4> QED BY <1>3, <4>1, <4>2, <4>3 DEF Empties
      <3> QED BY <3>1, <3>2
    <2>2. ASSUME NEW i \in DOMAIN r.file
          PROVE  /\ r.fate[i].status = "ok" /\ r.file[i].ref # None => ByRef(r.file[i].ref)' = {}
                 /\ r.fate[i].status = "update" =>
                      /\ ~Empties(r.fate[i].on, r.fate[i].standards)'
                      /\ ~r.file[i].carries => listing'[r.fate[i].on].standards = r.fate[i].standards
                 /\ r.existing = "skip" /\ r.fate[i].status \in {"skip", "created"} =>
                      Known(r.file[i])' # {} \/ Repeats(r.file, i)
      <3>1. i \in DOMAIN q.file /\ r.file = q.file
        BY <1>4
      <3>2. r.fate[i].status = "ok" /\ r.file[i].ref # None => ByRef(r.file[i].ref)' = {}
        BY <2>1, <3>1, <1>3
      <3>3. r.fate[i].status = "update" => ~Empties(r.fate[i].on, r.fate[i].standards)'
        BY <2>1, <3>1
      <3>4. r.fate[i].status = "update" /\ ~r.file[i].carries =>
              listing'[r.fate[i].on].standards = r.fate[i].standards
        BY <2>1, <3>1
      <3>5. r.existing = "skip" /\ r.fate[i].status \in {"skip", "created"} =>
              Known(r.file[i])' # {} \/ Repeats(r.file, i)
        BY <1>1, <1>4
      <3> QED BY <3>2, <3>3, <3>4, <3>5
    <2> QED BY <2>0, <2>2 DEF Steady
  <1>7. ASSUME q.alone PROVE Foretold(r)
    <2> SUFFICES ASSUME q.before # NoReport PROVE Foretold(r)
      BY <1>4 DEF Foretold
    <2>1. /\ q.before.file = q.file /\ q.before.existing = q.existing
          /\ DOMAIN q.before.status = DOMAIN q.file
          /\ ~q.before.apply => \A i \in DOMAIN q.file : <<q.before.status[i], q.fate[i].status>> \in Kept
      BY <1>1, <1>7 DEF Sound, Foretold
    <2>2. ~q.before.apply => \A i \in DOMAIN q.file : <<q.before.status[i], r.fate[i].status>> \in Kept
      BY <1>1, <1>4, <2>1 DEF Kept
    <2> QED BY <1>1, <1>4, <2>1, <2>2 DEF Foretold
  <1>8. q.alone => Foretold(r)'
    BY <1>4, <1>7 DEF Foretold
  <1>9. Sound(r)'
    <2>1. Shaped(r)'
      BY <1>4 DEF Shaped
    <2> QED BY <1>4, <1>5, <1>6, <1>8, <2>1 DEF Sound
  <1> QED BY <1>4, <1>9

----------------------------------------------------------------------------
(* The steps.                                                               *)

\* What a step keeps of the types that it changes.
Typed == listing \in [Listings -> ListingRows \cup {NoListing}] /\ up \in [Uploads -> Requests \cup {Idle}]

LEMMA BeginKeeps ==
    ASSUME IInv, NEW u \in Uploads, Begin(u)
    PROVE  Typed' /\ RefsAreUnique' /\ LastStands' /\ UInv'
  <1>1. TypeOK /\ RefsAreUnique /\ LastStands /\ UInv
    BY DEF IInv, UInv
  <1>2. PICK file \in Files, existing \in {"skip", "update"} :
          up' = [up EXCEPT ![u] =
                    [stage |-> "read", file |-> file, existing |-> existing,
                     fate |-> Planned(file, existing), at |-> 0,
                     before |-> IF last.file = file /\ last.existing = existing THEN last ELSE NoReport,
                     alone |-> TRUE, kept |-> TRUE]]
    BY DEF Begin
  <1>3. PICK r : r = [stage |-> "read", file |-> file, existing |-> existing,
                      fate |-> Planned(file, existing), at |-> 0,
                      before |-> IF last.file = file /\ last.existing = existing THEN last ELSE NoReport,
                      alone |-> TRUE, kept |-> TRUE]
    OBVIOUS
  <1>4. up' = [up EXCEPT ![u] = r] /\ listing' = listing /\ last' = last
    BY <1>2, <1>3 DEF Begin
  <1>5. r \in Requests /\ Sound(r)
    BY <1>1, <1>3, BeginSound
  <1>6. up' \in [Uploads -> Requests \cup {Idle}] /\ UInv'
    BY <1>1, <1>4, <1>5, OneRequest
  <1>7. RefsAreUnique' /\ LastStands'
    BY <1>1, <1>4, ListingStays
  <1> QED BY <1>1, <1>4, <1>6, <1>7 DEF Typed, TypeOK

\* A step of u that writes nothing and leaves its request in a sound state.
LEMMA GoesOn ==
    ASSUME IInv, NEW u \in Uploads, NEW r, r = Idle \/ (r \in Requests /\ Sound(r)),
           up' = [up EXCEPT ![u] = r], listing' = listing, last' = last
    PROVE  Typed' /\ RefsAreUnique' /\ LastStands' /\ UInv'
  <1>1. TypeOK /\ RefsAreUnique /\ LastStands /\ UInv
    BY DEF IInv, UInv
  <1>2. up' \in [Uploads -> Requests \cup {Idle}] /\ UInv'
    BY <1>1, OneRequest
  <1>3. RefsAreUnique' /\ LastStands'
    BY <1>1, ListingStays
  <1> QED BY <1>1, <1>2, <1>3 DEF Typed, TypeOK

LEMMA PlanKeeps ==
    ASSUME IInv, NEW u \in Uploads, Plan(u)
    PROVE  Typed' /\ RefsAreUnique' /\ LastStands' /\ UInv'
  <1>1. PICK q : q = up[u]
    OBVIOUS
  <1>2. q \in Requests /\ Sound(q) /\ q.stage = "read" /\ TypeOK
    BY <1>1, RequestType DEF Plan, IInv
  <1>3. PICK r : r = Onward([q EXCEPT !.fate = Reviewed(q.file, q.fate)])
    OBVIOUS
  <1>4. r \in Requests /\ Sound(r)
    BY <1>2, <1>3, PlanSound
  <1>5. up' = [up EXCEPT ![u] = r] /\ listing' = listing /\ last' = last
    BY <1>1, <1>3 DEF Plan
  <1> QED BY <1>4, <1>5, GoesOn

\* While nobody else writes, no reference appears and no listing goes.
LEMMA AloneNothingIsRefused ==
    ASSUME IInv, NEW u \in Uploads, up[u].stage = "apply", up[u].alone
    PROVE  /\ Fate(u).status = "ok" => ~Clash(Row(u).ref)
           /\ Fate(u).status = "update" => Present(Fate(u).on) /\ ~Empties(Fate(u).on, Fate(u).standards)
  <1> DEFINE q == up[u]
  <1>1. Shaped(q) /\ Truthful(q) /\ Steady(q) /\ q.at \in DOMAIN q.file
    BY DEF IInv, Sound, Shaped
  <1>2. Fate(u).status = "ok" /\ Row(u).ref # None => ByRef(Row(u).ref) = {}
    BY <1>1 DEF Steady, Fate, Row
  <1>3. Fate(u).status = "update" => ~Empties(Fate(u).on, Fate(u).standards)
    BY <1>1 DEF Steady, Fate
  <1>4. Fate(u).status = "update" => Present(Fate(u).on)
    BY <1>1 DEF Truthful, Fate, ByRef
  <1> QED BY <1>2, <1>3, <1>4 DEF Clash

LEMMA ReadForUpdateKeeps ==
    ASSUME IInv, NEW u \in Uploads, ReadForUpdate(u)
    PROVE  Typed' /\ RefsAreUnique' /\ LastStands' /\ UInv'
  <1>1. TypeOK /\ UInv /\ up[u].stage = "apply" /\ Fate(u).status = "update"
    BY DEF IInv, UInv, ReadForUpdate
  <1>2. PICK l : l = Fate(u).on
    OBVIOUS
  <1>3. listing' = listing /\ last' = last
    BY DEF ReadForUpdate
  <1>4. CASE Present(l) /\ ~Empties(l, Fate(u).standards)
    <2>1. PICK r : r = [up[u] EXCEPT !.stage = "update"]
      OBVIOUS
    <2>2. r \in Requests /\ Sound(r)
      BY <1>1, <2>1, ReadSound
    <2>3. up' = [up EXCEPT ![u] = r]
      BY <1>2, <1>4, <2>1 DEF ReadForUpdate
    <2> QED BY <1>3, <2>2, <2>3, GoesOn
  <1>5. CASE ~(Present(l) /\ ~Empties(l, Fate(u).standards))
    <2>1. PICK r : r = Settled(u, "error", l)
      OBVIOUS
    <2>2. ~up[u].alone
      BY <1>1, <1>2, <1>5, AloneNothingIsRefused
    <2>3. r \in Requests /\ Sound(r)
      BY <1>1, <1>2, <2>1, <2>2, RefusedSound
    <2>4. up' = [up EXCEPT ![u] = r]
      BY <1>2, <1>5, <2>1 DEF ReadForUpdate
    <2> QED BY <1>3, <2>3, <2>4, GoesOn
  <1> QED BY <1>4, <1>5

LEMMA NoReportStands ==
    ASSUME last' = NoReport
    PROVE  LastStands'
  BY DEF LastStands

LEMMA CreateRowKeeps ==
    ASSUME IInv, NEW u \in Uploads, CreateRow(u)
    PROVE  Typed' /\ RefsAreUnique' /\ LastStands' /\ UInv'
  <1>1. TypeOK /\ RefsAreUnique /\ UInv /\ up[u].stage = "apply" /\ Fate(u).status = "ok"
    BY DEF IInv, UInv, CreateRow
  <1>2. CASE /\ Clash(Row(u).ref)
             /\ up' = [up EXCEPT ![u] = Settled(u, "skip", None)]
             /\ UNCHANGED <<listing, last>>
    <2>1. PICK r : r = Settled(u, "skip", None)
      OBVIOUS
    <2>2. ~up[u].alone
      BY <1>1, <1>2, AloneNothingIsRefused
    <2>3. ByRef(Row(u).ref) # {}
      BY <1>2 DEF Clash
    <2>4. r \in Requests /\ Sound(r)
      BY <1>1, <2>1, <2>2, <2>3, RefusedSound
    <2> QED BY <1>2, <2>1, <2>4, GoesOn
  <1>3. ASSUME ~Clash(Row(u).ref), last' = NoReport, NEW l \in Listings, Fresh(l),
               listing' = [listing EXCEPT ![l] = Draft(Row(u).ref, Row(u).title, Row(u).standards)],
               up' = [Others(u, FALSE) EXCEPT ![u] = Settled(u, "created", l)]
        PROVE  Typed' /\ RefsAreUnique' /\ LastStands' /\ UInv'
    <2>1. /\ Row(u).ref \in Refs \cup {None} /\ Row(u).title \in Titles
          /\ Row(u).standards \subseteq Standards
      <3>1. up[u].file \in Files /\ up[u].at \in DOMAIN up[u].file
        BY <1>1, RequestType DEF UInv, Sound, Shaped
      <3>2. up[u].file[up[u].at].title # None
        BY <1>1, <3>1 DEF UInv, Sound, Shaped, Fate
      <3> QED BY <3>1, <3>2, FileType DEF Row
    <2>2. PICK ref \in Refs \cup {None} : ref = Row(u).ref
      BY <2>1
    <2>3. PICK title \in Titles : title = Row(u).title
      BY <2>1
    <2>4. PICK standards : standards = Row(u).standards
      OBVIOUS
    <2>5. standards \subseteq Standards /\ ~Present(l) /\ ~Clash(ref)
      BY <1>3, <2>1, <2>2, <2>4 DEF Fresh
    <2>6. listing' = [listing EXCEPT ![l] = Draft(ref, title, standards)]
      BY <1>3, <2>2, <2>3, <2>4
    <2>7. /\ listing' \in [Listings -> ListingRows \cup {NoListing}]
          /\ RefsAreUnique'
          /\ \A k \in Listings : Present(k) => k # l /\ listing'[k] = listing[k]
          /\ l \in ByRef(ref)' /\ l \in ByTitle(title)'
          /\ \A x : ByRef(x) \subseteq ByRef(x)' /\ ByTitle(x) \subseteq ByTitle(x)'
          /\ \A x : x # ref => ByRef(x)' = ByRef(x)
      BY <1>1, <2>5, <2>6, Added
    <2>8. PICK r : r = Settled(u, "created", l)
      OBVIOUS
    <2>9. \A i \in DOMAIN up[u].fate : up[u].fate[i].on # l
      BY <1>1, <1>3 DEF Fresh
    <2>10. r \in Requests /\ Sound(r)'
      BY <1>1, <2>2, <2>3, <2>7, <2>8, <2>9, CreatedSound
    <2>11. up' = [Others(u, FALSE) EXCEPT ![u] = r] /\ \A x : ByRef(x) \subseteq ByRef(x)'
      BY <1>3, <2>7, <2>8
    <2>12. up' \in [Uploads -> Requests \cup {Idle}] /\ UInv'
      BY <1>1, <2>10, <2>11, ByUpload
    <2>13. LastStands'
      BY <1>3, NoReportStands
    <2> QED BY <2>7, <2>12, <2>13 DEF Typed
  <1> QED BY <1>2, <1>3 DEF CreateRow

LEMMA UpdateKeeps ==
    ASSUME IInv, NEW u \in Uploads, Update(u)
    PROVE  Typed' /\ RefsAreUnique' /\ LastStands' /\ UInv'
  <1>1. TypeOK /\ RefsAreUnique /\ UInv /\ up[u].stage = "update"
    BY DEF IInv, UInv, Update
  <1>2. PICK l : l = Fate(u).on
    OBVIOUS
  <1>3. CASE /\ Present(l)
             /\ listing' = [listing EXCEPT ![l].title = Row(u).title, ![l].standards = Fate(u).standards]
             /\ up' = [Others(u, FALSE) EXCEPT ![u] = Settled(u, "updated", l)]
             /\ last' = NoReport
    <2>1. /\ up[u].file \in Files /\ up[u].at \in DOMAIN up[u].file /\ Fate(u).status = "update"
          /\ Fate(u) \in Fates /\ Fate(u).on \in Listings /\ up[u].file[up[u].at].title # None
      <3>1. /\ up[u].file \in Files /\ up[u].fate \in Seq(Fates)
        BY <1>1, RequestType
      <3>2. Shaped(up[u])
        BY <1>1 DEF UInv, Sound
      <3> QED BY <1>1, <3>1, <3>2 DEF Shaped, Fate
    <2>2. Row(u).title \in Titles /\ Fate(u).standards \subseteq Standards
      BY <2>1, FileType DEF Row, Fates
    <2>3. PICK title \in Titles : title = Row(u).title
      BY <2>2
    <2>4. PICK standards : standards = Fate(u).standards
      OBVIOUS
    <2>5. l \in Listings /\ standards \subseteq Standards /\ Present(l)
      BY <1>2, <1>3, <2>1, <2>2, <2>4
    <2>6. listing' = [listing EXCEPT ![l].title = title, ![l].standards = standards]
      BY <1>3, <2>3, <2>4
    <2>7. /\ listing' \in [Listings -> ListingRows \cup {NoListing}]
          /\ RefsAreUnique'
          /\ \A k \in Listings : k # l => listing'[k] = listing[k]
          /\ \A x : ByRef(x)' = ByRef(x)
      BY <1>1, <2>5, <2>6, Written
    <2>8. PICK r : r = Settled(u, "updated", l)
      OBVIOUS
    <2>9. r \in Requests /\ Sound(r)'
      BY <1>1, <1>2, <2>7, <2>8, UpdatedSound
    <2>10. up' = [Others(u, FALSE) EXCEPT ![u] = r] /\ \A x : ByRef(x) \subseteq ByRef(x)'
      BY <1>3, <2>7, <2>8
    <2>11. up' \in [Uploads -> Requests \cup {Idle}] /\ UInv'
      BY <1>1, <2>9, <2>10, ByUpload
    <2>12. LastStands'
      BY <1>3, NoReportStands
    <2> QED BY <2>7, <2>11, <2>12 DEF Typed
  <1>4. CASE up' = [up EXCEPT ![u] = Idle] /\ UNCHANGED <<listing, last>>
    BY <1>4, GoesOn
  <1> QED BY <1>2, <1>3, <1>4 DEF Update

\* The report goes out; what it says of a file that only creates is so.
LEMMA ReportKeeps ==
    ASSUME IInv, NEW u \in Uploads, Report(u)
    PROVE  Typed' /\ RefsAreUnique' /\ LastStands' /\ UInv' /\ last' \in Reports \cup {NoReport}
  <1>1. TypeOK /\ RefsAreUnique /\ LastStands /\ UInv
    BY DEF IInv, UInv
  <1>2. up' = [up EXCEPT ![u] = Idle] /\ listing' = listing
    BY DEF Report
  <1>3. /\ up' \in [Uploads -> Requests \cup {Idle}] /\ UInv' /\ RefsAreUnique'
        /\ last' = last => LastStands'
    BY <1>1, <1>2, OneRequest, ListingStays
  <1>4. CASE ~up[u].alone
    <2>1. last' = last
      BY <1>4 DEF Report
    <2> QED BY <1>1, <1>2, <1>3, <2>1 DEF Typed, TypeOK
  <1>5. CASE up[u].alone
    <2>1. PICK q : q = up[u]
      OBVIOUS
    <2>2. /\ q \in Requests /\ Shaped(q) /\ Steady(q) /\ q.stage = "done"
          /\ q.file \in Files /\ q.existing \in {"skip", "update"} /\ q.fate \in Seq(Fates)
          /\ DOMAIN q.fate = DOMAIN q.file
      BY <1>1, <1>5, <2>1, RequestType DEF UInv, Sound, Shaped, Report
    <2>3. PICK s : s = Statement(q.file, q.existing, TRUE, q.fate)
      OBVIOUS
    <2> DEFINE status == [i \in DOMAIN q.fate |-> q.fate[i].status]
    <2>4. /\ s.file = q.file /\ s.existing = q.existing /\ s.apply = TRUE /\ s.status = status
          /\ s = [file |-> q.file, existing |-> q.existing, apply |-> TRUE, status |-> status]
      BY <2>3 DEF Statement
    <2>5. status \in Seq(Statuses) /\ DOMAIN status = DOMAIN q.file
          /\ \A i \in DOMAIN q.file : status[i] = q.fate[i].status
      <3>1. \A i \in DOMAIN q.file : q.fate[i] \in Fates
        BY <2>2
      <3>2. \A i \in DOMAIN q.file : status[i] = q.fate[i].status /\ status[i] \in Statuses
        BY <2>2, <3>1 DEF Fates
      <3>3. DOMAIN status = DOMAIN q.file /\ status = [i \in DOMAIN q.file |-> status[i]]
        BY <2>2
      <3> HIDE DEF status
      <3>4. status \in Seq(Statuses)
        BY <2>2, <3>2, <3>3, RowsAreASeq
      <3> QED BY <3>2, <3>3, <3>4
    <2> HIDE DEF status
    <2>6. s \in Reports
      BY <2>2, <2>4, <2>5 DEF Reports
    <2>7. ASSUME q.existing = "skip", NEW i \in DOMAIN q.file, q.fate[i].status # "error"
          PROVE  q.file[i].title # None /\ (Known(q.file[i]) # {} \/ Repeats(q.file, i))
      <3>1. q.fate[i] \in Fates
        BY <2>2
      <3>2. q.fate[i].status \in {"skip", "created"}
        BY <2>2, <2>7, <3>1 DEF Shaped, Pending, Fates, Statuses
      <3> QED BY <2>2, <2>7, <3>2 DEF Shaped, Steady
    <2>8. \A row : Known(row)' = Known(row)
      BY <1>2 DEF Known, ByRef, ByTitle, Present
    <2>9. last' = s
      BY <1>5, <2>1, <2>3 DEF Report
    <2>10. LastStands'
      <3>1. DOMAIN s.status = DOMAIN s.file
        BY <2>4, <2>5
      <3>2. ASSUME s.existing = "skip", NEW i \in DOMAIN s.file, s.status[i] # "error"
            PROVE  s.file[i].title # None /\ (Known(s.file[i])' # {} \/ Repeats(s.file, i))
        <4>1. q.file[i].title # None /\ (Known(q.file[i]) # {} \/ Repeats(q.file, i))
          BY <2>4, <2>5, <2>7, <3>2
        <4>2. Known(q.file[i])' = Known(q.file[i]) /\ s.file = q.file
          BY <2>4, <2>8
        <4> QED BY <4>1, <4>2
      <3> QED BY <2>4, <2>9, <3>1, <3>2 DEF LastStands
    <2> QED BY <1>1, <1>2, <1>3, <2>6, <2>9, <2>10 DEF Typed, TypeOK
  <1> QED BY <1>4, <1>5

LEMMA CheckKeeps ==
    ASSUME IInv, Check
    PROVE  Typed' /\ RefsAreUnique' /\ LastStands' /\ UInv' /\ last' \in Reports \cup {NoReport}
  <1>1. TypeOK /\ RefsAreUnique /\ LastStands /\ UInv
    BY DEF IInv, UInv
  <1>2. PICK file \in Files, existing \in {"skip", "update"} :
          last' = Statement(file, existing, FALSE, Reviewed(file, Planned(file, existing)))
    BY DEF Check
  <1>3. listing' = listing /\ up' = up
    BY DEF Check
  <1>4. /\ Planned(file, existing) \in Seq(Fates) /\ DOMAIN Planned(file, existing) = DOMAIN file
        /\ \A i \in DOMAIN file :
             Planned(file, existing)[i].status = "update" =>
               Planned(file, existing)[i].on \in ByRef(file[i].ref)
    BY PlannedFacts
  <1>5. PICK planned : planned = Planned(file, existing)
    OBVIOUS
  <1>6. \A i \in DOMAIN file : planned[i].status = "update" => planned[i].on \in Listings
    BY <1>4, <1>5 DEF ByRef
  <1>7. PICK fates : fates = Reviewed(file, planned)
    OBVIOUS
  <1>8. fates \in Seq(Fates) /\ DOMAIN fates = DOMAIN file
    BY <1>1, <1>4, <1>5, <1>6, <1>7, ReviewedFacts
  <1>9. PICK s : s = Statement(file, existing, FALSE, fates)
    OBVIOUS
  <1> DEFINE status == [i \in DOMAIN fates |-> fates[i].status]
  <1>10. s = [file |-> file, existing |-> existing, apply |-> FALSE, status |-> status]
    BY <1>9 DEF Statement
  <1>11. /\ status \in Seq(Statuses) /\ DOMAIN status = DOMAIN file
         /\ \A i \in DOMAIN file : status[i] = fates[i].status
    <2>1. \A i \in DOMAIN file : fates[i] \in Fates
      BY <1>8
    <2>2. \A i \in DOMAIN file : status[i] = fates[i].status /\ status[i] \in Statuses
      BY <1>8, <2>1 DEF Fates
    <2>3. DOMAIN status = DOMAIN file /\ status = [i \in DOMAIN file |-> status[i]]
      BY <1>8
    <2> HIDE DEF status
    <2>4. status \in Seq(Statuses)
      BY <2>2, <2>3, RowsAreASeq
    <2> QED BY <2>2, <2>3, <2>4
  <1> HIDE DEF status
  <1>12. s \in Reports /\ s.file = file /\ s.existing = existing /\ s.apply = FALSE /\ s.status = status
    BY <1>10, <1>11 DEF Reports
  <1>13. last' = s
    BY <1>2, <1>5, <1>7, <1>9
  <1>14. LastStands'
    <2>1. Reviewed(file, Planned(file, existing))' = fates
      <3>1. Planned(file, existing)' = planned
        BY <1>3, <1>5 DEF Planned, Status, ByRef, ByTitle, Present
      <3>2. \A row, fate : Merged(row, fate)' = Merged(row, fate)
        BY <1>3 DEF Merged, Empties, Present
      <3>3. \A f : Capped(f)' = Capped(f)
        BY <1>3 DEF Capped, Allowed, Today
      <3> QED BY <1>7, <3>1, <3>2, <3>3 DEF Reviewed
    <2>2. \A i \in DOMAIN file : s.status[i] = Reviewed(file, Planned(file, existing))'[i].status
      BY <1>11, <1>12, <2>1
    <2> QED BY <1>11, <1>12, <1>13, <2>2 DEF LastStands
  <1>15. UInv' /\ RefsAreUnique'
    <2>1. ASSUME NEW u \in Uploads, NEW q, q = up[u], q.stage # "idle" PROVE Sound(q)'
      <3>1. Sound(q)
        BY <1>1, <2>1 DEF UInv
      <3> QED BY <1>3, <3>1, ListingStays
    <2>2. \A u \in Uploads : (up[u].stage # "idle" => Sound(up[u]))'
      BY <1>3, <2>1
    <2> QED BY <1>1, <1>3, <2>2, ListingStays DEF UInv
  <1> QED BY <1>1, <1>3, <1>12, <1>13, <1>14, <1>15 DEF Typed, TypeOK

LEMMA NothingIsWritten ==
    ASSUME IInv, listing' = listing, up' = up, last' = last
    PROVE  Typed' /\ RefsAreUnique' /\ LastStands' /\ UInv'
  <1>1. TypeOK /\ RefsAreUnique /\ LastStands /\ UInv
    BY DEF IInv, UInv
  <1>2. ASSUME NEW u \in Uploads, NEW q, q = up[u], q.stage # "idle" PROVE Sound(q)'
    <2>1. Sound(q)
      BY <1>1, <1>2 DEF UInv
    <2> QED BY <2>1, ListingStays
  <1>3. \A u \in Uploads : (up[u].stage # "idle" => Sound(up[u]))'
    BY <1>2
  <1>4. RefsAreUnique' /\ LastStands'
    BY <1>1, ListingStays
  <1> QED BY <1>1, <1>3, <1>4 DEF Typed, TypeOK, UInv

\* A write by hand: nobody who uploads is alone any more.
LEMMA HandKeeps ==
    ASSUME IInv, NEW deletes \in BOOLEAN, up' = Others(None, deletes), last' = NoReport,
           listing' \in [Listings -> ListingRows \cup {NoListing}], RefsAreUnique',
           ~deletes => \A ref : ByRef(ref) \subseteq ByRef(ref)'
    PROVE  Typed' /\ RefsAreUnique' /\ LastStands' /\ UInv'
  <1>1. up' \in [Uploads -> Requests \cup {Idle}] /\ UInv'
    <2>1. TypeOK /\ UInv
      BY DEF IInv, UInv
    <2> QED BY <2>1, ByHand
  <1> QED BY <1>1, NoReportStands DEF Typed

LEMMA CreateKeeps ==
    ASSUME IInv, Create
    PROVE  Typed' /\ RefsAreUnique' /\ LastStands' /\ UInv'
  <1>1. PICK l \in Listings, title \in Titles, standards \in SUBSET Standards :
          /\ Fresh(l) /\ up' = Others(None, FALSE) /\ last' = NoReport
          /\ listing' = [listing EXCEPT ![l] = Draft(None, title, standards)]
    BY DEF Create, Handwritten
  <1>2. PICK ref \in Refs \cup {None} : ref = None
    OBVIOUS
  <1>3. /\ TypeOK /\ RefsAreUnique /\ standards \subseteq Standards /\ ~Present(l) /\ ~Clash(ref)
        /\ listing' = [listing EXCEPT ![l] = Draft(ref, title, standards)]
    BY <1>1, <1>2 DEF IInv, Fresh, Clash
  <1>4. /\ listing' \in [Listings -> ListingRows \cup {NoListing}]
        /\ RefsAreUnique' /\ \A x : ByRef(x) \subseteq ByRef(x)'
    BY <1>3, Added
  <1> QED BY <1>1, <1>4, HandKeeps

LEMMA EditKeeps ==
    ASSUME IInv, NEW l \in Listings, Edit(l)
    PROVE  Typed' /\ RefsAreUnique' /\ LastStands' /\ UInv'
  <1>1. PICK title \in Titles, standards \in SUBSET Standards :
          /\ Present(l) /\ up' = Others(None, FALSE) /\ last' = NoReport
          /\ listing' = [listing EXCEPT ![l].title = title, ![l].standards = standards]
    BY DEF Edit, Handwritten
  <1>2. TypeOK /\ RefsAreUnique /\ standards \subseteq Standards
    BY <1>1 DEF IInv
  <1>3. /\ listing' \in [Listings -> ListingRows \cup {NoListing}]
        /\ RefsAreUnique' /\ \A x : ByRef(x)' = ByRef(x)
    BY <1>1, <1>2, Written
  <1> QED BY <1>1, <1>3, HandKeeps

LEMMA ShownKeeps ==
    ASSUME IInv, NEW l \in Listings, Present(l), NEW state \in {"draft", "published"},
           listing' = [listing EXCEPT ![l].state = state], up' = Others(None, FALSE), last' = NoReport
    PROVE  Typed' /\ RefsAreUnique' /\ LastStands' /\ UInv'
  <1>1. TypeOK /\ RefsAreUnique
    BY DEF IInv
  <1>2. /\ listing' \in [Listings -> ListingRows \cup {NoListing}]
        /\ RefsAreUnique' /\ \A x : ByRef(x)' = ByRef(x)
    BY <1>1, Shown
  <1> QED BY <1>2, HandKeeps

LEMMA DeleteKeeps ==
    ASSUME IInv, NEW l \in Listings, Delete(l)
    PROVE  Typed' /\ RefsAreUnique' /\ LastStands' /\ UInv'
  <1>1. /\ up' = Others(None, TRUE) /\ last' = NoReport /\ listing' = [listing EXCEPT ![l] = NoListing]
        /\ TypeOK /\ RefsAreUnique
    BY DEF Delete, Handwritten, IInv
  <1>2. listing' \in [Listings -> ListingRows \cup {NoListing}] /\ RefsAreUnique'
    BY <1>1, Removed
  <1> QED BY <1>1, <1>2, HandKeeps

LEMMA DayPassesKeeps ==
    ASSUME IInv, DayPasses
    PROVE  Typed' /\ RefsAreUnique' /\ LastStands' /\ UInv' /\ last' \in Reports \cup {NoReport}
  <1>1. /\ \A u \in Uploads : up[u].stage = "idle"
        /\ listing' = [l \in Listings |-> [listing[l] EXCEPT !.today = FALSE]]
        /\ last' = IF last.apply THEN last ELSE NoReport
        /\ up' = up /\ TypeOK /\ RefsAreUnique /\ LastStands
    BY DEF DayPasses, IInv
  <1>2. /\ listing' \in [Listings -> ListingRows \cup {NoListing}] /\ RefsAreUnique'
        /\ \A x : ByRef(x)' = ByRef(x) /\ ByTitle(x)' = ByTitle(x)
    BY <1>1, Aged
  <1>3. \A row : Known(row)' = Known(row)
    BY <1>2 DEF Known
  <1>4. LastStands'
    <2>1. CASE last.apply
      <3>1. last' = last
        BY <1>1, <2>1
      <3> QED BY <1>1, <1>3, <2>1, <3>1 DEF LastStands
    <2>2. CASE ~last.apply
      BY <1>1, <2>2, NoReportStands
    <2> QED BY <2>1, <2>2
  <1>5. UInv'
    BY <1>1 DEF UInv
  <1> QED BY <1>1, <1>2, <1>4, <1>5 DEF Typed, TypeOK

----------------------------------------------------------------------------
(* The invariant is one.                                                    *)

\* What is at the head of every request is among its rows, so that the types
\* that no step disturbs alone are left to see.
LEMMA TypesFollow ==
    ASSUME Typed', UInv', publishing' \in Listings \cup {None}, last' \in Reports \cup {NoReport},
           hands' \in 0..Hands
    PROVE  TypeOK'
  <1>1. \A u \in Uploads : up'[u].stage \in {"apply", "update"} => up'[u].at \in DOMAIN up'[u].file
    BY DEF UInv, Sound, Shaped
  <1> QED BY <1>1 DEF Typed, TypeOK

\* Nobody has uploaded anything, and every step above keeps the invariant.
THEOREM Invariance == Spec => []IInv
  <1>1. Init => IInv
    <2> SUFFICES ASSUME Init PROVE IInv
      OBVIOUS
    <2>1. TypeOK
      BY BoundsAreNat DEF Init, TypeOK, Idle
    <2>2. RefsAreUnique /\ LastStands
      BY DEF Init, RefsAreUnique, LastStands, Present, NoListing
    <2>3. \A u \in Uploads : up[u].stage = "idle"
      BY DEF Init, Idle
    <2> QED BY <2>1, <2>2, <2>3 DEF IInv
  <1>2. IInv /\ [Next]_vars => IInv'
    <2> SUFFICES ASSUME IInv, [Next]_vars PROVE IInv'
      OBVIOUS
    <2>1. TypeOK /\ publishing \in Listings \cup {None} /\ last \in Reports \cup {NoReport} /\ hands \in 0..Hands
      BY DEF IInv, TypeOK
    <2> DEFINE Done == /\ Typed' /\ RefsAreUnique' /\ LastStands' /\ UInv'
                       /\ publishing' \in Listings \cup {None} /\ last' \in Reports \cup {NoReport}
                       /\ hands' \in 0..Hands
    <2>2. Done => IInv'
      BY TypesFollow DEF IInv, UInv
    <2>3. ASSUME NEW u \in Uploads, Begin(u) PROVE Done
      BY <2>1, <2>3, BeginKeeps DEF Begin
    <2>4. ASSUME NEW u \in Uploads, Plan(u) PROVE Done
      BY <2>1, <2>4, PlanKeeps DEF Plan
    <2>5. ASSUME NEW u \in Uploads, CreateRow(u) PROVE Done
      BY <2>1, <2>5, CreateRowKeeps DEF CreateRow
    <2>6. ASSUME NEW u \in Uploads, ReadForUpdate(u) PROVE Done
      BY <2>1, <2>6, ReadForUpdateKeeps DEF ReadForUpdate
    <2>7. ASSUME NEW u \in Uploads, Update(u) PROVE Done
      BY <2>1, <2>7, UpdateKeeps DEF Update
    <2>8. ASSUME NEW u \in Uploads, Report(u) PROVE Done
      BY <2>1, <2>8, ReportKeeps DEF Report
    <2>9. ASSUME NEW u \in Uploads, Crash(u) PROVE Done
      <3>1. up' = [up EXCEPT ![u] = Idle] /\ listing' = listing /\ last' = last
            /\ publishing' = publishing /\ hands' = hands
        BY <2>9 DEF Crash
      <3> QED BY <2>1, <3>1, GoesOn
    <2>10. ASSUME NEW l \in Listings, Edit(l) PROVE Done
      <3>1. publishing' = publishing /\ last' = NoReport /\ hands' \in 0..Hands
        BY <2>1, <2>10, BoundsAreNat DEF Edit, Handwritten
      <3> QED BY <2>1, <2>10, <3>1, EditKeeps
    <2>11. ASSUME NEW l \in Listings, ReadForPublishing(l) PROVE Done
      <3>1. publishing' = l /\ listing' = listing /\ up' = up /\ last' = last /\ hands' = hands
        BY <2>11 DEF ReadForPublishing
      <3>2. Typed' /\ RefsAreUnique' /\ LastStands' /\ UInv'
        BY <3>1, NothingIsWritten
      <3> QED BY <2>1, <3>1, <3>2
    <2>12. ASSUME NEW l \in Listings, Unpublish(l) PROVE Done
      <3>1. /\ Present(l) /\ listing' = [listing EXCEPT ![l].state = "draft"]
            /\ up' = Others(None, FALSE) /\ last' = NoReport /\ publishing' = publishing /\ hands' = hands
        BY <2>12 DEF Unpublish, Present
      <3>2. Typed' /\ RefsAreUnique' /\ LastStands' /\ UInv'
        BY <3>1, ShownKeeps
      <3> QED BY <2>1, <3>1, <3>2
    <2>13. ASSUME NEW l \in Listings, Delete(l) PROVE Done
      <3>1. publishing' = publishing /\ last' = NoReport /\ hands' \in 0..Hands
        BY <2>1, <2>13, BoundsAreNat DEF Delete, Handwritten
      <3> QED BY <2>1, <2>13, <3>1, DeleteKeeps
    <2>14. ASSUME Check PROVE Done
      BY <2>1, <2>14, CheckKeeps DEF Check
    <2>15. ASSUME Create PROVE Done
      <3>1. publishing' = publishing /\ last' = NoReport /\ hands' \in 0..Hands
        BY <2>1, <2>15, BoundsAreNat DEF Create, Handwritten
      <3> QED BY <2>1, <2>15, <3>1, CreateKeeps
    <2>16. ASSUME Publish PROVE Done
      <3>1. CASE Present(publishing) /\ Handwritten("publish", FALSE)
                 /\ listing' = [listing EXCEPT ![publishing].state = "published"] /\ publishing' = None
                 /\ publishing # None
        <4>1. PICK l \in Listings : l = publishing
          BY <2>1, <3>1
        <4>2. up' = Others(None, FALSE) /\ last' = NoReport /\ hands' \in 0..Hands
          BY <2>1, <3>1, BoundsAreNat DEF Handwritten
        <4>3. Present(l) /\ listing' = [listing EXCEPT ![l].state = "published"]
          BY <3>1, <4>1
        <4>4. Typed' /\ RefsAreUnique' /\ LastStands' /\ UInv'
          BY <4>2, <4>3, ShownKeeps
        <4> QED BY <3>1, <4>2, <4>4
      <3>2. CASE UNCHANGED <<listing, up, last, hands>> /\ publishing' = None
        <4>1. Typed' /\ RefsAreUnique' /\ LastStands' /\ UInv'
          BY <3>2, NothingIsWritten
        <4> QED BY <2>1, <3>2, <4>1
      <3> QED BY <2>16, <3>1, <3>2 DEF Publish
    <2>17. ASSUME DayPasses PROVE Done
      BY <2>1, <2>17, DayPassesKeeps DEF DayPasses
    <2>18. ASSUME UNCHANGED vars PROVE Done
      <3>1. UNCHANGED <<listing, up, publishing, last, hands>>
        BY <2>18 DEF vars
      <3>2. Typed' /\ RefsAreUnique' /\ LastStands' /\ UInv'
        BY <3>1, NothingIsWritten
      <3> QED BY <2>1, <3>1, <3>2
    <2> HIDE DEF Done
    <2>19. ASSUME Next PROVE Done
      <3>1. CASE \E u \in Uploads :
                   \/ Begin(u) \/ Plan(u) \/ CreateRow(u) \/ ReadForUpdate(u) \/ Update(u)
                   \/ Report(u) \/ Crash(u)
        BY <2>3, <2>4, <2>5, <2>6, <2>7, <2>8, <2>9, <3>1
      <3>2. CASE \E l \in Listings : Edit(l) \/ ReadForPublishing(l) \/ Unpublish(l) \/ Delete(l)
        BY <2>10, <2>11, <2>12, <2>13, <3>2
      <3>3. CASE Check \/ Create \/ Publish \/ DayPasses
        BY <2>14, <2>15, <2>16, <2>17, <3>3
      <3> QED BY <2>19, <3>1, <3>2, <3>3 DEF Next
    <2> QED BY <2>2, <2>18, <2>19
  <1> QED BY <1>1, <1>2, PTL DEF Spec

\* Every listing, request and report keeps its type, at each stage of a request.
THEOREM TypeCorrect == Spec => []TypeOK
  <1>1. IInv => TypeOK
    BY DEF IInv
  <1> QED BY <1>1, Invariance, PTL

----------------------------------------------------------------------------
(* What reports and previews are worth.                                     *)

\* A request that has come to its end has no row left to write.
LEMMA AtTheEnd ==
    ASSUME IInv, NEW u \in Uploads, Applied(u), NEW i \in DOMAIN up[u].file
    PROVE  Now(u, i) \in {"error", "skip", "created", "updated"}
  <1> DEFINE q == up[u]
  <1>1. q.stage = "done" /\ TypeOK
    BY DEF Applied, IInv
  <1>2. Shaped(q) /\ q.fate \in Seq(Fates)
    BY <1>1, RequestType DEF IInv, Sound
  <1>3. q.fate[i] \in Fates /\ ~Pending(q.fate[i])
    BY <1>1, <1>2 DEF Shaped
  <1> HIDE DEF q
  <1>5. q.fate[i].status \in {"error", "skip", "created", "updated"}
    BY <1>3 DEF Pending, Fates, Statuses
  <1> QED BY <1>5 DEF Now, q

\* The preview says what the apply will do: every row that was to be created or
\* updated is, while nobody else writes, and the others end as the check said.
\* What bulk.run promises, for any file, any listings and any number of others.
THEOREM PreviewsAreKept == Spec => []PreviewKept
  <1>1. IInv => PreviewKept
    <2> SUFFICES ASSUME IInv, NEW u \in Uploads, Applied(u), up[u].alone, Again(u), ~up[u].before.apply,
                        NEW i \in DOMAIN up[u].file
                 PROVE  Now(u, i) = CASE Then(u, i) = "ok" -> "created"
                                      [] Then(u, i) = "update" -> "updated"
                                      [] OTHER -> Then(u, i)
      BY DEF PreviewKept
    <2>1. up[u].stage = "done" /\ Shaped(up[u]) /\ Foretold(up[u])
      BY DEF IInv, Sound, Applied
    <2>2. Now(u, i) \in {"error", "skip", "created", "updated"}
      BY <2>1, AtTheEnd DEF Shaped
    <2>3. <<Then(u, i), Now(u, i)>> \in Kept
      BY <2>1 DEF Foretold, Again, Then, Now
    <2> QED BY <2>2, <2>3 DEF Kept
  <1> QED BY <1>1, Invariance, PTL

\* A file that only creates, uploaded whole again as it was, makes nothing twice:
\* what the first time has not failed is skipped the second.
THEOREM RepeatsDoNotDouble == Spec => []RepeatedFilesDoNotDouble
  <1>1. IInv => RepeatedFilesDoNotDouble
    <2> SUFFICES ASSUME IInv, NEW u \in Uploads, Applied(u), up[u].alone, Again(u), up[u].before.apply,
                        up[u].existing = "skip", NEW i \in DOMAIN up[u].file, Then(u, i) # "error"
                 PROVE  Now(u, i) = "skip"
      BY DEF RepeatedFilesDoNotDouble
    <2>1. Foretold(up[u])
      BY DEF IInv, Sound, Applied
    <2> QED BY <2>1 DEF Foretold, Again, Then, Now
  <1> QED BY <1>1, Invariance, PTL

\* A reference that is in the listings is there once.
LEMMA ThereOnce ==
    ASSUME RefsAreUnique, NEW ref, ref # None, ByRef(ref) # {}
    PROVE  Cardinality(ByRef(ref)) = 1
  <1>1. PICK l \in Listings : l \in ByRef(ref)
    BY DEF ByRef
  <1>2. ByRef(ref) = {l}
    BY <1>1 DEF ByRef, RefsAreUnique
  <1> QED BY <1>2, FS_Singleton

\* A row says first what others may repeat.
LEMMA SaidFirst ==
    ASSUME NEW file \in Files, NEW i \in DOMAIN file, Repeats(file, i), file[i].ref # None
    PROVE  \E j \in Seen(file, i) : j \in DOMAIN file /\ file[j].ref = file[i].ref /\ ~Repeats(file, j)
  <1> DEFINE K == {j \in Seen(file, i) : file[j].ref = file[i].ref}
  <1>1. DOMAIN file = 1..Len(file) /\ Len(file) \in Nat
    BY FileType
  <1>2. K \subseteq Nat /\ K # {}
    BY <1>1 DEF Repeats, Seen
  <1>3. PICK j \in K : \A k \in K : j <= k
    BY <1>2, LeastNatural
  <1>4. j \in Seen(file, i) /\ j \in DOMAIN file /\ file[j].ref = file[i].ref
    BY <1>1, <1>3 DEF Seen
  <1>5. ~Repeats(file, j)
    <2> SUFFICES ASSUME NEW k \in Seen(file, j), file[k].ref = file[j].ref PROVE FALSE
      BY DEF Repeats
    <2>1. k \in 1..j - 1 /\ j \in 1..i - 1 /\ file[k].title # None
      BY <1>4 DEF Seen
    <2>2. k \in K /\ k < j
      BY <1>1, <1>4, <2>1 DEF Seen
    <2> QED BY <1>1, <1>3, <2>1, <2>2
  <1> QED BY <1>4, <1>5

\* A report is true of the listings, whoever else uploads or edits and whatever
\* died before: a reference that was not refused names exactly one listing, or
\* says again what a row that was refused has said.
THEOREM ReportsHold == Spec => []ReportsAreTrue
  <1>1. IInv => ReportsAreTrue
    <2> SUFFICES ASSUME IInv, NEW u \in Uploads, Applied(u), up[u].kept
        PROVE  /\ \A i \in DOMAIN up[u].file :
                    up[u].file[i].ref # None /\ Now(u, i) # "error" =>
                        \/ /\ Now(u, i) \in {"created", "updated", "skip"}
                           /\ Cardinality(ByRef(up[u].file[i].ref)) = 1
                        \/ /\ Now(u, i) = "skip"
                           /\ \E j \in Seen(up[u].file, i) :
                                Now(u, j) = "error" /\ up[u].file[j].ref = up[u].file[i].ref
               /\ \A i, j \in DOMAIN up[u].file :
                    Now(u, i) = "created" /\ up[u].fate[i].on = up[u].fate[j].on => i = j
      BY DEF ReportsAreTrue
    <2> DEFINE q == up[u]
    <2>1. /\ Shaped(q) /\ Truthful(q) /\ RefsAreUnique /\ q.file \in Files /\ TypeOK
          /\ q.stage = "done"
      BY RequestType DEF IInv, Sound, Applied
    <2>2. ASSUME NEW i \in DOMAIN q.file, q.file[i].ref # None, Now(u, i) # "error", ~Repeats(q.file, i)
          PROVE  Cardinality(ByRef(q.file[i].ref)) = 1
      <3>1. Now(u, i) \in {"skip", "created", "updated"}
        BY <2>2, AtTheEnd
      <3>2. ByRef(q.file[i].ref) # {}
        BY <2>1, <2>2, <3>1 DEF Truthful, Now
      <3> QED BY <2>1, <2>2, <3>2, ThereOnce
    <2>3. ASSUME NEW i \in DOMAIN q.file, q.file[i].ref # None, Now(u, i) # "error"
          PROVE  \/ /\ Now(u, i) \in {"created", "updated", "skip"}
                    /\ Cardinality(ByRef(q.file[i].ref)) = 1
                 \/ /\ Now(u, i) = "skip"
                    /\ \E j \in Seen(q.file, i) : Now(u, j) = "error" /\ q.file[j].ref = q.file[i].ref
      <3>1. Now(u, i) \in {"skip", "created", "updated"}
        BY <2>3, AtTheEnd
      <3>2. CASE ~Repeats(q.file, i)
        BY <2>2, <2>3, <3>1, <3>2
      <3>3. CASE Repeats(q.file, i)
        <4>1. Now(u, i) = "skip"
          BY <2>1, <3>1, <3>3 DEF Shaped, Now
        <4>2. PICK j \in Seen(q.file, i) : j \in DOMAIN q.file /\ q.file[j].ref = q.file[i].ref /\ ~Repeats(q.file, j)
          BY <2>1, <2>3, <3>3, SaidFirst
        <4>3. CASE Now(u, j) = "error"
          BY <4>1, <4>2, <4>3
        <4>4. CASE Now(u, j) # "error"
          <5>1. Cardinality(ByRef(q.file[j].ref)) = 1
            BY <2>2, <2>3, <4>2, <4>4
          <5> QED BY <3>1, <4>2, <5>1
        <4> QED BY <4>3, <4>4
      <3> QED BY <3>2, <3>3
    <2>4. \A i, j \in DOMAIN q.file : Now(u, i) = "created" /\ q.fate[i].on = q.fate[j].on => i = j
      BY <2>1 DEF Shaped, Now
    <2> QED BY <2>3, <2>4
  <1> QED BY <1>1, Invariance, PTL

LEMMA NoLongerAlone ==
    ASSUME NEW u \in Uploads, NEW v, u # v, NEW deletes, up[u].stage = "update",
           TypeOK, up'[u] = Others(v, deletes)[u]
    PROVE  ~up'[u].alone
  <1>1. up[u] \in Requests
    BY DEF TypeOK, Idle
  <1>2. up'[u] = [up[u] EXCEPT !.alone = FALSE, !.before = NoReport, !.kept = @ /\ ~deletes]
    BY DEF Others
  <1> QED BY <1>1, <1>2 DEF Requests

\* A column the header does not have leaves that field alone: no step changes the
\* standards under an update by a file without them, unless somebody else writes.
THEOREM ColumnsLeaveAlone == Spec => OnlyCarriedColumnsChange
  <1>1. IInv /\ [Next]_vars =>
          [\A u \in Uploads :
             up[u].stage = "update" /\ up[u].alone /\ ~Row(u).carries =>
               listing'[Fate(u).on].standards = listing[Fate(u).on].standards \/ ~up'[u].alone]_vars
    <2> SUFFICES ASSUME IInv, [Next]_vars, NEW u \in Uploads,
                        up[u].stage = "update", up[u].alone, ~Row(u).carries
                 PROVE  listing'[Fate(u).on].standards = listing[Fate(u).on].standards \/ ~up'[u].alone
      OBVIOUS
    <2> DEFINE Goal == listing'[Fate(u).on].standards = listing[Fate(u).on].standards \/ ~up'[u].alone
    <2>1. TypeOK
      BY DEF IInv
    <2>2. listing' = listing => Goal
      OBVIOUS
    <2>3. ASSUME NEW v \in Uploads \cup {None}, v # u, NEW deletes, up'[u] = Others(v, deletes)[u] PROVE Goal
      BY <2>1, <2>3, NoLongerAlone
    <2>4. None # u
      BY NoneIsNoValue
    <2>5. ASSUME NEW v \in Uploads, CreateRow(v) PROVE Goal
      <3>1. v # u
        BY <2>5 DEF CreateRow
      <3>2. listing' = listing \/ up'[u] = Others(v, FALSE)[u]
        BY <2>5, <3>1 DEF CreateRow, Others
      <3> QED BY <2>2, <2>3, <3>1, <3>2
    <2>6. ASSUME NEW v \in Uploads, Update(v) PROVE Goal
      <3>1. CASE v # u
        <4>1. listing' = listing \/ up'[u] = Others(v, FALSE)[u]
          BY <2>6, <3>1 DEF Update, Others
        <4> QED BY <2>2, <2>3, <3>1, <4>1
      <3>2. CASE v = u /\ Present(Fate(u).on)
        <4>1. Shaped(up[u]) /\ Steady(up[u])
          BY DEF IInv, Sound
        <4>2. Fate(u).status = "update" /\ up[u].at \in DOMAIN up[u].file
          BY <4>1 DEF Shaped, Fate
        <4>3. listing[Fate(u).on].standards = Fate(u).standards
          BY <4>1, <4>2 DEF Steady, Fate, Row
        <4>4. PICK l : l = Fate(u).on
          OBVIOUS
        <4>5. l \in Listings
          BY <4>1, <4>2, <4>4 DEF Shaped, Fate
        <4>6. listing' = [listing EXCEPT ![l].title = Row(u).title, ![l].standards = Fate(u).standards]
          BY <2>6, <3>2, <4>4 DEF Update
        <4>7. listing'[l].standards = Fate(u).standards
          <5>1. listing[l] \in ListingRows /\ listing \in [Listings -> ListingRows \cup {NoListing}]
            BY <2>1, <3>2, <4>4, <4>5 DEF TypeOK, Present, NoListing
          <5> QED BY <4>5, <4>6, <5>1 DEF ListingRows
        <4> QED BY <4>3, <4>4, <4>7
      <3>3. CASE v = u /\ ~Present(Fate(u).on)
        BY <2>2, <2>6, <3>3 DEF Update
      <3> QED BY <3>1, <3>2, <3>3
    <2>7. ASSUME NEW v \in Uploads, Begin(v) \/ Plan(v) \/ ReadForUpdate(v) \/ Report(v) \/ Crash(v) PROVE Goal
      BY <2>2, <2>7 DEF Begin, Plan, ReadForUpdate, Report, Crash
    <2>8. ASSUME NEW l \in Listings, Edit(l) \/ ReadForPublishing(l) \/ Unpublish(l) \/ Delete(l) PROVE Goal
      <3>1. listing' = listing \/ \E deletes \in BOOLEAN : up' = Others(None, deletes)
        BY <2>8 DEF Edit, ReadForPublishing, Unpublish, Delete, Handwritten
      <3> QED BY <2>2, <2>3, <2>4, <3>1
    <2>9. ASSUME Check \/ Create \/ Publish PROVE Goal
      <3>1. listing' = listing \/ \E deletes \in BOOLEAN : up' = Others(None, deletes)
        BY <2>9 DEF Check, Create, Publish, Handwritten
      <3> QED BY <2>2, <2>3, <2>4, <3>1
    <2>10. ~DayPasses
      BY DEF DayPasses
    <2>11. ASSUME UNCHANGED vars PROVE Goal
      BY <2>2, <2>11 DEF vars
    <2> HIDE DEF Goal
    <2>12. Goal
      BY <2>5, <2>6, <2>7, <2>8, <2>9, <2>10, <2>11 DEF Next
    <2> QED BY <2>12 DEF Goal
  <1> QED BY <1>1, Invariance, PTL DEF Spec, OnlyCarriedColumnsChange
=============================================================================

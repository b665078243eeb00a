------------------------------- MODULE Upload -------------------------------
(***************************************************************************)
(* An organisation uploads a spreadsheet of listings.                       *)
(*                                                                          *)
(* Models api/modules/marketplace/bulk.py, for vacancies and courses alike, *)
(* with the writers it goes through (create_job, update_job, set_published  *)
(* and their twins for courses) used by hand beside it.  `check` plans a    *)
(* file and writes nothing; `apply` plans it again and then commits row by  *)
(* row, so other requests get in between, and what is committed stays when  *)
(* the rest fails.  No row is locked anywhere.                              *)
(***************************************************************************)
EXTENDS Integers, FiniteSets, Sequences, FiniteSetsExt

CONSTANTS
    Listings, Refs, Titles, Standards,
    Files,          \* the files somebody may upload: sequences of Rows
    Uploads,        \* requests served at the same time
    Served,         \* bound: what else the organisation does meanwhile
    Limit,          \* daily_limit: listings an organisation may create in 24 hours
    Hands,          \* bound: writes made by hand, unpublishing aside
    None

\* A row of a file; `carries`: the file has a column for standards.  Without a
\* title it does not validate, which stands for any problem of a row by itself.
Rows == [ref : Refs \cup {None}, title : Titles \cup {None},
         carries : BOOLEAN, standards : SUBSET Standards]

ASSUME FilesAreRows == \A file \in Files : file \in Seq(Rows) /\ file # <<>>
ASSUME BoundsAreNat == Limit \in Nat /\ Hands \in Nat
ASSUME NoneIsNoValue == None \notin Listings \cup Refs \cup Titles \cup Uploads

VARIABLES
    listing,        \* listing[l]: the organisation's rows of jobs (or courses)
    up,             \* up[u]: the upload u is serving
    publishing,     \* the listing set_published has read and will publish
    last,           \* history: the last report, until somebody writes
    hands

vars == <<listing, up, publishing, last, hands>>

ListingRows ==
    [state : {"draft", "published"}, ref : Refs \cup {None}, title : Titles,
     standards : SUBSET Standards, today : BOOLEAN]
NoListing == [state |-> "none", ref |-> None, title |-> None, standards |-> {}, today |-> FALSE]

\* What becomes of a row: RowReport.status with created and updated, and for
\* an update the _Plan: its listing and the standards it sends.
Statuses == {"error", "skip", "ok", "update", "created", "updated"}
Fates == [status : Statuses, on : Listings \cup {None}, standards : SUBSET Standards]
Simply(status, on) == [status |-> status, on |-> on, standards |-> {}]

Reports == [file : Files, existing : {"skip", "update"}, apply : BOOLEAN, status : Seq(Statuses)]
NoReport == [file |-> <<>>, existing |-> "skip", apply |-> FALSE, status |-> <<>>]

\* `before` is the report on the same file that could be read when it began.
\* `alone`: nobody else has written since; `kept`: nothing has been deleted.
Requests ==
    [stage : {"read", "apply", "update", "done"}, file : Files, existing : {"skip", "update"},
     fate : Seq(Fates), at : Nat, before : Reports \cup {NoReport},
     alone : BOOLEAN, kept : BOOLEAN]
Idle == [stage |-> "idle"]

\* Every row keeps its type, and so does every upload, at each of its stages.
TypeOK ==
    /\ listing \in [Listings -> ListingRows \cup {NoListing}]
    /\ up \in [Uploads -> Requests \cup {Idle}]
    /\ \A u \in Uploads : up[u].stage \in {"apply", "update"} => up[u].at \in DOMAIN up[u].file
    /\ publishing \in Listings \cup {None}
    /\ last \in Reports \cup {NoReport}
    /\ hands \in 0..Hands
----------------------------------------------------------------------------
Present(l) == listing[l].state # "none"
ByRef(ref) == {l \in Listings : Present(l) /\ listing[l].ref = ref}
ByTitle(title) == {l \in Listings : Present(l) /\ listing[l].title = title}

\* _created_in_last_day, over every way a listing is made.
Today == Cardinality({l \in Listings : listing[l].today})

\* An id nobody in flight has read, so that none is mistaken for another.
Fresh(l) ==
    /\ ~Present(l) /\ publishing # l
    /\ \A u \in Uploads :
         up[u].stage # "idle" => \A i \in DOMAIN up[u].fate : up[u].fate[i].on # l

\* Slip: migration 0048 without its unique index.
ClashUnindexed(ref) == FALSE

\* uq_jobs_tenant_external_ref, in the organisation.
Clash(ref) == ref # None /\ ByRef(ref) # {}

\* Slip: the reference is not passed on.
DraftUnreferenced(ref, title, standards) ==
    [state |-> "draft", ref |-> None, title |-> title, standards |-> standards, today |-> TRUE]

Draft(ref, title, standards) ==
    [state |-> "draft", ref |-> ref, title |-> title, standards |-> standards, today |-> TRUE]

\* refuse_emptying_a_published.
Empties(l, standards) == listing[l].state = "published" /\ standards = {}

\* What a write does to the other requests' history.
Others(u, deletes) ==
    [v \in Uploads |->
       IF v = u \/ up[v].stage = "idle" THEN up[v]
       ELSE [up[v] EXCEPT !.alone = FALSE, !.before = NoReport, !.kept = @ /\ ~deletes]]
----------------------------------------------------------------------------
(* Planning a file.                                                         *)

\* The rows before i that count as seen: one with a problem does not.
Seen(file, i) == {j \in 1..i - 1 : file[j].title # None}

\* _plans: by reference when the row has one, else by its title; a row that
\* has one is not looked up by title, nor is its title remembered.
Status(file, i, existing) ==
    LET row == file[i]
        again == \E j \in Seen(file, i) :
                   /\ file[j].ref = row.ref
                   /\ row.ref = None => file[j].title = row.title
        known == IF row.ref # None THEN ByRef(row.ref) # {} ELSE ByTitle(row.title) # {}
    IN IF row.title = None THEN "error"
       ELSE IF row.ref # None /\ known /\ existing = "update" /\ ~again THEN "update"
       ELSE IF known \/ again THEN "skip"
       ELSE "ok"

Planned(file, existing) ==
    [i \in DOMAIN file |->
       LET status == Status(file, i, existing) IN
       Simply(status, IF status = "update" THEN CHOOSE l \in ByRef(file[i].ref) : TRUE ELSE None)]

\* Slip: a column the file does not have is saved as blank.
MergedAsBlank(row, fate) ==
    LET l == fate.on IN
    IF fate.status # "update" \/ ~Present(l) THEN fate
    ELSE IF Empties(l, row.standards) THEN Simply("error", None)
    ELSE IF row.title = listing[l].title /\ row.standards = listing[l].standards
    THEN Simply("skip", None)
    ELSE [fate EXCEPT !.standards = row.standards]

\* Slip: what update_job will refuse is left for it to refuse.
MergedUnguarded(row, fate) ==
    LET l == fate.on
        standards == IF row.carries THEN row.standards ELSE listing[l].standards
    IN IF fate.status # "update" \/ ~Present(l) THEN fate
       ELSE IF row.title = listing[l].title /\ standards = listing[l].standards
       THEN Simply("skip", None)
       ELSE [fate EXCEPT !.standards = standards]

\* _merge_updates: the payload changes only what the file carries.  A listing
\* deleted since is not loaded; its row is still sent, and update_job refuses it.
Merged(row, fate) ==
    LET l == fate.on
        standards == IF row.carries THEN row.standards ELSE listing[l].standards
    IN IF fate.status # "update" \/ ~Present(l) THEN fate
       ELSE IF Empties(l, standards) THEN Simply("error", None)
       ELSE IF row.title = listing[l].title /\ standards = listing[l].standards
       THEN Simply("skip", None)
       ELSE [fate EXCEPT !.standards = standards]

\* The cap, in file order: row i is within what is left of the day's limit.
Allowed(fates, i) ==
    Today + Cardinality({j \in 1..i : fates[j].status = "ok"}) <= Limit

Capped(fates) ==
    [i \in DOMAIN fates |->
       IF fates[i].status = "ok" /\ ~Allowed(fates, i)
       THEN [fates[i] EXCEPT !.status = "error"] ELSE fates[i]]

\* The second half of planning: the listings to update, then the day's count.
Reviewed(file, fates) == Capped([i \in DOMAIN file |-> Merged(file[i], fates[i])])

Statement(file, existing, apply, fates) ==
    [file |-> file, existing |-> existing, apply |-> apply,
     status |-> [i \in DOMAIN fates |-> fates[i].status]]

\* check: it writes nothing, so it is one step, and taken while nobody uploads:
\* what others wrote meanwhile would make its report one nothing is claimed of.
Check ==
    \E file \in Files, existing \in {"skip", "update"} :
        /\ \A u \in Uploads : up[u].stage = "idle"
        /\ last' = Statement(file, existing, FALSE, Reviewed(file, Planned(file, existing)))
        /\ UNCHANGED <<listing, up, publishing, hands>>
----------------------------------------------------------------------------
(* Applying it, one row and one commit at a time.                           *)

\* The loop of `run` goes on with the next row that asks for a write.
Onward(q) ==
    LET left == {i \in DOMAIN q.fate : i > q.at /\ q.fate[i].status \in {"ok", "update"}}
    IN IF left # {} THEN [q EXCEPT !.stage = "apply", !.at = Min(left)]
       ELSE [q EXCEPT !.stage = "done", !.at = 0]

Begin(u) ==
    \E file \in Files, existing \in {"skip", "update"} :
        /\ up[u].stage = "idle"
        /\ up' = [up EXCEPT ![u] =
                    [stage |-> "read", file |-> file, existing |-> existing,
                     fate |-> Planned(file, existing), at |-> 0,
                     before |-> IF last.file = file /\ last.existing = existing THEN last ELSE NoReport,
                     alone |-> TRUE, kept |-> TRUE]]
        /\ UNCHANGED <<listing, publishing, last, hands>>

Plan(u) ==
    /\ up[u].stage = "read"
    /\ up' = [up EXCEPT ![u] = Onward([up[u] EXCEPT !.fate = Reviewed(up[u].file, up[u].fate)])]
    /\ UNCHANGED <<listing, publishing, last, hands>>

Row(u) == up[u].file[up[u].at]
Fate(u) == up[u].fate[up[u].at]
Settled(u, status, on) == Onward([up[u] EXCEPT !.fate[up[u].at] = Simply(status, on)])

\* create_job: always a draft.  A reference that has appeared since is the
\* index's to refuse, and the row's own transaction is rolled back.
CreateRow(u) ==
    /\ up[u].stage = "apply" /\ Fate(u).status = "ok"
    /\ \/ /\ Clash(Row(u).ref)
          /\ up' = [up EXCEPT ![u] = Settled(u, "skip", None)]
          /\ UNCHANGED <<listing, last>>
       \/ /\ ~Clash(Row(u).ref)
          /\ \E l \in Listings :
               /\ Fresh(l)
               /\ listing' = [listing EXCEPT ![l] = Draft(Row(u).ref, Row(u).title, Row(u).standards)]
               /\ up' = [Others(u, FALSE) EXCEPT ![u] = Settled(u, "created", l)]
          /\ last' = NoReport
    /\ UNCHANGED <<publishing, hands>>

\* update_job reads the listing, and refuses before it changes anything.
ReadForUpdate(u) ==
    /\ up[u].stage = "apply" /\ Fate(u).status = "update"
    /\ LET l == Fate(u).on IN
       up' = [up EXCEPT ![u] =
                IF Present(l) /\ ~Empties(l, Fate(u).standards)
                THEN [up[u] EXCEPT !.stage = "update"] ELSE Settled(u, "error", l)]
    /\ UNCHANGED <<listing, publishing, last, hands>>

\* Slip: the write does not mind whether the row is still there.
UpdateBlind(u) ==
    /\ up[u].stage = "update"
    /\ LET l == Fate(u).on IN
       /\ listing' = [listing EXCEPT ![l].title = Row(u).title, ![l].standards = Fate(u).standards]
       /\ up' = [Others(u, FALSE) EXCEPT ![u] = Settled(u, "updated", l)]
    /\ last' = NoReport
    /\ UNCHANGED <<publishing, hands>>

\* It writes the plain fields and the standards, and nothing else.  A row
\* that is gone by now fails the flush: the whole request ends there.
Update(u) ==
    /\ up[u].stage = "update"
    /\ LET l == Fate(u).on IN
       \/ /\ Present(l)
          /\ listing' = [listing EXCEPT ![l].title = Row(u).title,
                                        ![l].standards = Fate(u).standards]
          /\ up' = [Others(u, FALSE) EXCEPT ![u] = Settled(u, "updated", l)]
          /\ last' = NoReport
       \/ /\ ~Present(l)
          /\ up' = [up EXCEPT ![u] = Idle]
          /\ UNCHANGED <<listing, last>>
    /\ UNCHANGED <<publishing, hands>>

\* The report goes out.
Report(u) ==
    /\ up[u].stage = "done"
    /\ last' = IF up[u].alone
               THEN Statement(up[u].file, up[u].existing, TRUE, up[u].fate)
               ELSE last
    /\ up' = [up EXCEPT ![u] = Idle]
    /\ UNCHANGED <<listing, publishing, hands>>

\* The process dies, or the connection: committed rows stay.
Crash(u) ==
    /\ up[u].stage \in {"apply", "update"}
    /\ up' = [up EXCEPT ![u] = Idle]
    /\ UNCHANGED <<listing, publishing, last, hands>>
----------------------------------------------------------------------------
(* The same organisation, by hand.                                          *)

Handwritten(op, deletes) ==
    /\ op \in Served /\ hands < Hands
    /\ hands' = hands + 1
    /\ up' = Others(None, deletes)
    /\ last' = NoReport

Create ==
    \E l \in Listings, title \in Titles, standards \in SUBSET Standards :
        /\ Fresh(l)
        /\ Handwritten("create", FALSE)
        /\ listing' = [listing EXCEPT ![l] = Draft(None, title, standards)]
        /\ UNCHANGED publishing

Edit(l) ==
    \E title \in Titles, standards \in SUBSET Standards :
        /\ Present(l) /\ ~Empties(l, standards)
        /\ Handwritten("edit", FALSE)
        /\ listing' = [listing EXCEPT ![l].title = title, ![l].standards = standards]
        /\ UNCHANGED publishing

\* publish_many, and the button: set_published for one listing after another.
ReadForPublishing(l) ==
    /\ "publish" \in Served /\ publishing = None
    /\ listing[l].state = "draft" /\ listing[l].standards # {}
    /\ publishing' = l
    /\ UNCHANGED <<listing, up, last, hands>>

Publish ==
    /\ publishing # None
    /\ \/ /\ Present(publishing)
          /\ Handwritten("publish", FALSE)
          /\ listing' = [listing EXCEPT ![publishing].state = "published"]
       \/ ~Present(publishing) /\ UNCHANGED <<listing, up, last, hands>>
    /\ publishing' = None

Unpublish(l) ==
    /\ listing[l].state = "published"
    /\ listing' = [listing EXCEPT ![l].state = "draft"]
    /\ up' = Others(None, FALSE)
    /\ last' = NoReport
    /\ UNCHANGED <<publishing, hands>>

Delete(l) ==
    /\ Present(l)
    /\ Handwritten("delete", TRUE)
    /\ listing' = [listing EXCEPT ![l] = NoListing]
    /\ UNCHANGED publishing

\* 24 hours later; bound: not while a file is being read.  A preview is of its day; what was applied stays applied.
DayPasses ==
    /\ Today > 0 /\ \A u \in Uploads : up[u].stage = "idle"
    /\ listing' = [l \in Listings |-> [listing[l] EXCEPT !.today = FALSE]]
    /\ last' = IF last.apply THEN last ELSE NoReport
    /\ UNCHANGED <<up, publishing, hands>>
----------------------------------------------------------------------------
Init ==
    /\ listing = [l \in Listings |-> NoListing]
    /\ up = [u \in Uploads |-> Idle]
    /\ publishing = None
    /\ last = NoReport
    /\ hands = 0

Next ==
    \/ \E u \in Uploads :
         \/ Begin(u) \/ Plan(u) \/ CreateRow(u) \/ ReadForUpdate(u) \/ Update(u)
         \/ Report(u) \/ Crash(u)
    \/ \E l \in Listings : Edit(l) \/ ReadForPublishing(l) \/ Unpublish(l) \/ Delete(l)
    \/ Check \/ Create \/ Publish \/ DayPasses

Spec == Init /\ [][Next]_vars
----------------------------------------------------------------------------
(* What it comes to.                                                        *)

\* The report of u, and the one it could read when it began, of the same file.
Applied(u) == up[u].stage = "done"
Again(u) == up[u].before # NoReport
Now(u, i) == up[u].fate[i].status
Then(u, i) == up[u].before.status[i]

\* "The preview must say what the apply will do": while nobody else writes,
\* every row that was to be created is, every row that was to be updated is,
\* and the others end as the check said (bulk.run).
PreviewKept ==
    \A u \in Uploads :
        Applied(u) /\ up[u].alone /\ Again(u) /\ ~up[u].before.apply =>
            \A i \in DOMAIN up[u].file :
                Now(u, i) = CASE Then(u, i) = "ok" -> "created"
                              [] Then(u, i) = "update" -> "updated"
                              [] OTHER -> Then(u, i)

\* "Uploading the same file twice is still a no-op": a row that has not failed
\* is skipped the second time (bulk's docstring).  Not so for a file that renames
\* a listing and has a row with its old title, which is free the second time.
SameFileTwiceIsANoOp ==
    \A u \in Uploads :
        Applied(u) /\ up[u].alone /\ Again(u) /\ up[u].before.apply =>
            \A i \in DOMAIN up[u].file : Then(u, i) # "error" => Now(u, i) = "skip"

\* The same of files that only create: what the loop of correcting the rows that
\* failed and uploading everything again relies on for the rows that did not.
RepeatedFilesDoNotDouble ==
    \A u \in Uploads :
        Applied(u) /\ up[u].alone /\ Again(u) /\ up[u].before.apply
          /\ up[u].existing = "skip" =>
            \A i \in DOMAIN up[u].file : Then(u, i) # "error" => Now(u, i) = "skip"

\* A report is true of the listings, whoever uploads at the same moment and
\* whatever died before: unless something has been deleted, a reference that
\* was not refused names exactly one listing, or repeats that of a row that was
\* refused, and no two rows made the same listing.
ReportsAreTrue ==
    \A u \in Uploads :
        Applied(u) /\ up[u].kept =>
            /\ \A i \in DOMAIN up[u].file :
                 up[u].file[i].ref # None /\ Now(u, i) # "error" =>
                     \/ /\ Now(u, i) \in {"created", "updated", "skip"}
                        /\ Cardinality(ByRef(up[u].file[i].ref)) = 1
                     \/ /\ Now(u, i) = "skip"
                        /\ \E j \in Seen(up[u].file, i) :
                             Now(u, j) = "error" /\ up[u].file[j].ref = up[u].file[i].ref
            /\ \A i, j \in DOMAIN up[u].file :
                 Now(u, i) = "created" /\ up[u].fate[i].on = up[u].fate[j].on => i = j

\* "A column the header does not have leaves that field alone": an update by a
\* file without standards keeps those the listing has, while nobody else edits.
OnlyCarriedColumnsChange ==
    [][\A u \in Uploads :
         up[u].stage = "update" /\ up[u].alone /\ ~Row(u).carries =>
             listing'[Fate(u).on].standards = listing[Fate(u).on].standards \/ ~up'[u].alone]_vars
=============================================================================

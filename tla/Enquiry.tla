------------------------------ MODULE Enquiry ------------------------------
(***************************************************************************)
(* What IISM promises about one interest in a course, to the learner who    *)
(* registers it and to the provider who reads it: it changes hands one      *)
(* whole step at a time, and a withdrawal is the last word until the        *)
(* learner asks again.                                                      *)
(*                                                                          *)
(* The statuses are those of api/modules/interests/models.py; who may make  *)
(* which move is stated by service.py and provider_service.py beside it.    *)
(* Interests implements this with requests, row locks and stale reads.      *)
(***************************************************************************)
EXTENDS Naturals

CONSTANTS Courses, People

VARIABLES
    interest,   \* interest[c][u]: "none" while there is no row
    contact,    \* contact[c][u]: what the disclosure record says
    mail,       \* mail[c][u]: "course_interest_registered" notices queued
    told,       \* told[c][u]: the status the learner was last told
    paused      \* paused[u]: the person has withdrawn consent

vars == <<interest, contact, mail, told, paused>>

ProviderStatuses == {"contacted", "enrolled"}
LiveStatuses == {"registered"} \cup ProviderStatuses
Statuses == LiveStatuses \cup {"none", "withdrawn"}
Disclosures == {"never", "shared", "revoked"}

Init ==
    /\ interest = [c \in Courses |-> [u \in People |-> "none"]]
    /\ contact = [c \in Courses |-> [u \in People |-> "never"]]
    /\ mail = [c \in Courses |-> [u \in People |-> 0]]
    /\ told = [c \in Courses |-> [u \in People |-> "none"]]
    /\ paused = [u \in People |-> FALSE]

\* Registering shares the contact and tells the provider, once; only somebody
\* whose consent stands, and only what is not registered already.
Register(c, u) ==
    /\ ~paused[u]
    /\ interest[c][u] \in {"none", "withdrawn"}
    /\ interest' = [interest EXCEPT ![c][u] = "registered"]
    /\ contact' = [contact EXCEPT ![c][u] = "shared"]
    /\ mail' = [mail EXCEPT ![c][u] = @ + 1]
    /\ UNCHANGED <<told, paused>>

\* From any status, and the contact goes with it.
Withdraw(c, u) ==
    /\ interest[c][u] \in LiveStatuses
    /\ interest' = [interest EXCEPT ![c][u] = "withdrawn"]
    /\ contact' = [contact EXCEPT ![c][u] = "revoked"]
    /\ UNCHANGED <<mail, told, paused>>

\* The provider moves it along, never one taken back, and the learner is told.
Move(c, u) ==
    /\ interest[c][u] \in LiveStatuses
    /\ \E to \in ProviderStatuses \ {interest[c][u]} :
         /\ interest' = [interest EXCEPT ![c][u] = to]
         /\ told' = [told EXCEPT ![c][u] = to]
    /\ UNCHANGED <<contact, mail, paused>>

\* The course is deleted, or the person erased: the rows go with it.
Cascade(gone) ==
    /\ interest' = [c \in Courses |-> [u \in People |->
                      IF <<c, u>> \in gone THEN "none" ELSE interest[c][u]]]
    /\ contact' = [c \in Courses |-> [u \in People |->
                      IF <<c, u>> \in gone THEN "never" ELSE contact[c][u]]]
    /\ UNCHANGED <<mail, told, paused>>

Consent(u, stopped) ==
    /\ paused' = [paused EXCEPT ![u] = stopped]
    /\ UNCHANGED <<interest, contact, mail, told>>

Next ==
    \/ \E c \in Courses, u \in People : Register(c, u) \/ Withdraw(c, u) \/ Move(c, u)
    \/ \E c \in Courses : Cascade({c} \X People)
    \/ \E u \in People : Cascade(Courses \X {u})
    \/ \E u \in People, stopped \in BOOLEAN : Consent(u, stopped)

Spec == Init /\ [][Next]_vars
=============================================================================

------------------------------- MODULE Hiring -------------------------------
(***************************************************************************)
(* What IISM promises about one application, to the person who made it and *)
(* to the employer who reads it: an application changes hands one whole     *)
(* step at a time, as if nobody else were acting.                           *)
(*                                                                          *)
(* The statuses are those of api/modules/applications/models.py; who may    *)
(* make which move is stated by apply and withdraw (applications/service.py)*)
(* and set_status (applications/employer_service.py).  Vacancy implements   *)
(* this with requests, row locks and stale reads.                           *)
(***************************************************************************)
EXTENDS Naturals

CONSTANTS
    Jobs,       \* vacancies
    Gigs,       \* those that are a gig engagement
    Cands       \* candidates

VARIABLES
    status,     \* status[j][u]: "none" while there is no application
    contact,    \* contact[j][u]: what the disclosure record says
    mail,       \* mail[j][u]: "application_received" notices queued for it
    paused      \* paused[u]: the person has withdrawn consent

vars == <<status, contact, mail, paused>>

Withdrawable == {"applied", "shortlisted"}
Outcomes == {"completed", "no_show"}
Statuses == Withdrawable \cup Outcomes \cup {"none", "withdrawn", "rejected", "hired"}
Disclosures == {"never", "shared", "revoked"}

\* The moves an employer may make from each status: none on an application
\* taken back or an engagement that has ended, and an outcome only for
\* somebody hired for a gig.
EmployerMoves(j, from) ==
    CASE from \in {"none", "withdrawn"} \cup Outcomes -> {}
      [] from = "hired" /\ j \in Gigs -> {"hired", "shortlisted", "rejected"} \cup Outcomes
      [] OTHER -> {"hired", "shortlisted", "rejected"}

Init ==
    /\ status = [j \in Jobs |-> [u \in Cands |-> "none"]]
    /\ contact = [j \in Jobs |-> [u \in Cands |-> "never"]]
    /\ mail = [j \in Jobs |-> [u \in Cands |-> 0]]
    /\ paused = [u \in Cands |-> FALSE]

\* Applying shares the contact and tells the employer, once; only somebody
\* whose consent stands, and never over a decision already made.
Apply(j, u) ==
    /\ ~paused[u]
    /\ status[j][u] \in {"none", "withdrawn"}
    /\ status' = [status EXCEPT ![j][u] = "applied"]
    /\ contact' = [contact EXCEPT ![j][u] = "shared"]
    /\ mail' = [mail EXCEPT ![j][u] = @ + 1]
    /\ UNCHANGED paused

\* Withdrawing takes the contact back with the application.
Withdraw(j, u) ==
    /\ status[j][u] \in Withdrawable
    /\ status' = [status EXCEPT ![j][u] = "withdrawn"]
    /\ contact' = [contact EXCEPT ![j][u] = "revoked"]
    /\ UNCHANGED <<mail, paused>>

\* The employer moves an application along: never one taken back, and never
\* past an outcome.
Move(j, u) ==
    /\ \E to \in EmployerMoves(j, status[j][u]) : status' = [status EXCEPT ![j][u] = to]
    /\ UNCHANGED <<contact, mail, paused>>

\* The vacancy is deleted, and its applications with it.
Delete(j) ==
    /\ status' = [status EXCEPT ![j] = [u \in Cands |-> "none"]]
    /\ contact' = [contact EXCEPT ![j] = [u \in Cands |-> "never"]]
    /\ UNCHANGED <<mail, paused>>

Consent(u, stopped) ==
    /\ paused' = [paused EXCEPT ![u] = stopped]
    /\ UNCHANGED <<status, contact, mail>>

Next ==
    \/ \E j \in Jobs, u \in Cands : Apply(j, u) \/ Withdraw(j, u) \/ Move(j, u)
    \/ \E j \in Jobs : Delete(j)
    \/ \E u \in Cands, stopped \in BOOLEAN : Consent(u, stopped)

Spec == Init /\ [][Next]_vars
=============================================================================

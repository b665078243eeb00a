------------------------------ MODULE Standing ------------------------------
(***************************************************************************)
(* What the training side promises of a batch and of the right to deliver   *)
(* its course: a batch is planned only by an organisation that may deliver  *)
(* the course, it is open no longer than that right lasts (losing it and    *)
(* cancelling are one step), and a class that has begun is never stopped.   *)
(* But for a batch that was spared in an earlier step, while its right      *)
(* stood: that one may outlast the right.                                   *)
(* Training implements it with row locks and an unlocked sweep.             *)
(***************************************************************************)
CONSTANTS
    Batches,
    Rights,     \* pairs <<organisation, course>>
    None

VARIABLES
    may,        \* the rights that stand
    rests,      \* rests[b]: the right b was planned under, None while there is no b
    life,       \* life[b]: "none", "open", "held" (begun, or over), "gone"
    spared      \* the batches that may outlast their right

vars == <<may, rests, life, spared>>

Init ==
    /\ may \subseteq Rights
    /\ rests = [b \in Batches |-> None]
    /\ life = [b \in Batches |-> "none"]
    /\ spared = {}

Plan(b) ==
    /\ life[b] = "none"
    /\ \E right \in may :
         /\ life' = [life EXCEPT ![b] = "open"]
         /\ rests' = [rests EXCEPT ![b] = right]
    /\ UNCHANGED <<may, spared>>

\* Cancelled by a person, or begun.
Settle(b) ==
    /\ life[b] = "open"
    /\ \E to \in {"held", "gone"} : life' = [life EXCEPT ![b] = to]
    /\ UNCHANGED <<may, rests, spared>>

\* Rights come and go; what was open and rests on nothing any more goes with
\* them, unless it was spared before.  Only what still has its right is spared.
Change ==
    /\ may' \in SUBSET Rights
    /\ LET open == {b \in Batches : life[b] = "open"}
           lost == {b \in open : rests[b] \notin may'}
       IN /\ \E stays \in SUBSET (lost \cap spared) :
               life' = [b \in Batches |-> IF b \in lost \ stays THEN "gone" ELSE life[b]]
          /\ \E more \in SUBSET (open \ lost) : spared' = spared \cup more
    /\ UNCHANGED rests

\* A course is deleted with its batches, and with the rights that named it.
Delete(course) ==
    /\ may' \in SUBSET may
    /\ \A right \in may \ may' : right[2] = course
    /\ LET goes == {b \in Batches : life[b] # "none" /\ rests[b][2] = course}
       IN /\ life' = [b \in Batches |-> IF b \in goes THEN "none" ELSE life[b]]
          /\ rests' = [b \in Batches |-> IF b \in goes THEN None ELSE rests[b]]
          /\ spared' = spared \ goes

Next ==
    \/ \E b \in Batches : Plan(b) \/ Settle(b)
    \/ Change
    \/ \E right \in Rights : Delete(right[2])

Spec == Init /\ [][Next]_vars
=============================================================================

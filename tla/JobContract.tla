---------------------------- MODULE JobContract ----------------------------
(***************************************************************************)
(* What the queue extraction_jobs promises the services that insert into   *)
(* it, without slots, faults or files: a job is leased to one worker at a  *)
(* time and at most MaxAttempts times, it is done only after somebody got  *)
(* through its facts, and it is given up only after its last attempt.      *)
(* JobQueue implements it.                                                 *)
(***************************************************************************)
EXTENDS Naturals

CONSTANTS
    Jobs,
    MaxAttempts

VARIABLES
    life,      \* where each job is
    tries,     \* leases of each job
    leased,    \* the jobs some worker is working on
    answered   \* the jobs some worker has got through

contractVars == <<life, tries, leased, answered>>

Init ==
    /\ life = [j \in Jobs |-> "absent"]
    /\ tries = [j \in Jobs |-> 0]
    /\ leased = {}
    /\ answered = {}

\* A deleted job is out of everybody's reach.
Become(j, new) == life' = [life EXCEPT ![j] = IF @ = "deleted" THEN @ ELSE new]

Submit(j) ==
    /\ life[j] = "absent"
    /\ life' = [life EXCEPT ![j] = "pending"]
    /\ UNCHANGED <<tries, leased, answered>>

\* The worker may never learn of its lease.
Lease(j) ==
    /\ life[j] = "pending"
    /\ j \notin leased
    /\ tries[j] < MaxAttempts
    /\ life' = [life EXCEPT ![j] = "processing"]
    /\ tries' = [tries EXCEPT ![j] = @ + 1]
    /\ leased' \in {leased \cup {j}, leased}
    /\ UNCHANGED answered

Answer(j) ==
    /\ j \in leased
    /\ answered' = answered \cup {j}
    /\ UNCHANGED <<life, tries, leased>>

\* The worker may not learn that the job is done, and hand it back after all.
Settle(j) ==
    /\ j \in leased \cap answered
    /\ Become(j, "done")
    /\ leased' \in {leased \ {j}, leased}
    /\ UNCHANGED <<tries, answered>>

HandBack(j) ==
    /\ j \in leased
    /\ Become(j, IF tries[j] < MaxAttempts THEN "pending" ELSE "failed")
    /\ leased' = leased \ {j}
    /\ UNCHANGED <<tries, answered>>

Abandon(S) ==
    /\ leased' = leased \ S
    /\ UNCHANGED <<life, tries, answered>>

Delete(S) ==
    /\ \A j \in S : life[j] # "absent"
    /\ life' = [j \in Jobs |-> IF j \in S THEN "deleted" ELSE life[j]]
    /\ UNCHANGED <<tries, leased, answered>>

Next ==
    \/ \E j \in Jobs : Submit(j) \/ Lease(j) \/ Answer(j) \/ Settle(j) \/ HandBack(j)
    \/ \E S \in SUBSET Jobs : Abandon(S) \/ Delete(S)

Spec == Init /\ [][Next]_contractVars
=============================================================================

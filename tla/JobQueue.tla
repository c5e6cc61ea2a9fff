------------------------------ MODULE JobQueue ------------------------------
(***************************************************************************)
(* The table extraction_jobs as a queue, and the slots of the extractor    *)
(* worker that drain it (apps/extractor-worker/src/index.js).              *)
(*                                                                         *)
(* The bots and the gmail worker insert jobs; each of the worker's         *)
(* CONCURRENCY slots leases the oldest pending one, extracts facts, writes *)
(* them, marks the job done or hands it back, and removes the files staged *)
(* for it.  Every await of runOne is a step of its own, so two slots, the  *)
(* inserts and an admin's purge interleave between any two of them.        *)
(*                                                                         *)
(* Faults are part of the model: a statement the database refuses, one     *)
(* whose reply is lost, an SDK call that never ends, a failed rm and the    *)
(* end of the worker's process.  JobContract says what it all amounts to.  *)
(* Faults names the kinds a run allows, MaxFaults how many may happen.     *)
(***************************************************************************)
EXTENDS Naturals

CONSTANTS
    MaxJobs,      \* bound: jobs inserted in a behaviour
    Users,        \* owners
    JobOwner,     \* owner of each job (column user_id)
    Slots,        \* the concurrent workerLoops of one process
    MaxAttempts,  \* 5 in the source
    Faults,       \* kinds of fault a run allows
    MaxFaults     \* bound: faults in a behaviour

FaultKinds == {"refused", "lost", "hang", "crash", "rm"}

\* Jobs are numbered in insertion order, the order of created_at.
Jobs == 1..MaxJobs
NoJob == 0

ASSUME JobQueueConstants ==
    /\ MaxJobs \in Nat
    /\ MaxAttempts \in Nat \ {0}
    /\ MaxFaults \in Nat
    /\ JobOwner \in [Jobs -> Users]
    /\ Faults \subseteq FaultKinds

VARIABLES
    status,    \* extraction_jobs.status, with rows not inserted yet or purged
    attempts,  \* extraction_jobs.attempts
    staged,    \* the directory of the job's attachments on the shared volume
    pc,        \* where each slot is inside runOne
    held,      \* the job each slot has leased
    writes,    \* history: attempts at the job that left rows in knowledge_entries
    handled,   \* history: jobs all of whose facts some attempt has written
    faults     \* faults that have happened, by kind

vars == <<status, attempts, staged, pc, held, writes, handled, faults>>
rowVars == <<status, attempts>>
slotVars == <<pc, held>>
historyVars == <<writes, handled>>

Statuses == {"absent", "pending", "processing", "done", "failed", "deleted"}
Steps == {"idle", "extract", "write", "hung", "complete", "fail", "cleanup"}

Init ==
    /\ status = [j \in Jobs |-> "absent"]
    /\ attempts = [j \in Jobs |-> 0]
    /\ staged = [j \in Jobs |-> "none"]
    /\ pc = [s \in Slots |-> "idle"]
    /\ held = [s \in Slots |-> NoJob]
    /\ writes = [j \in Jobs |-> 0]
    /\ handled = {}
    /\ faults = [kind \in FaultKinds |-> 0]

Fault(kind) ==
    /\ kind \in Faults
    /\ faults["refused"] + faults["lost"] + faults["hang"] + faults["crash"] + faults["rm"] < MaxFaults
    /\ faults' = [faults EXCEPT ![kind] = @ + 1]

Goto(s, step) == pc' = [pc EXCEPT ![s] = step]

\* UPDATE ... WHERE id = $1: a row that was purged is not matched.
SetStatus(j, new) ==
    status' = [status EXCEPT ![j] = IF @ = "deleted" THEN @ ELSE new]

-----------------------------------------------------------------------------
(* The producers: a chat session flushed, or a message of the gmail worker, *)
(* whose attachments are on the volume before its row is inserted.          *)

Enqueue(j, files) ==
    /\ status[j] = "absent"
    /\ \A i \in Jobs : i < j => status[i] # "absent"
    /\ status' = [status EXCEPT ![j] = "pending"]
    /\ staged' = [staged EXCEPT ![j] = IF files THEN "present" ELSE "none"]
    /\ UNCHANGED <<attempts, slotVars, historyVars, faults>>

(* DELETE /users/:id?purge=true deletes the owner's rows in every state. *)
PurgeLeaves(u) == {j \in Jobs : JobOwner[j] # u \/ status[j] = "absent"}

Purge(u) ==
    /\ PurgeLeaves(u) # Jobs
    /\ status' = [j \in Jobs |-> IF j \in PurgeLeaves(u) THEN status[j] ELSE "deleted"]
    /\ UNCHANGED <<attempts, staged, slotVars, historyVars, faults>>

-----------------------------------------------------------------------------
(* leaseJob: one statement, FOR UPDATE SKIP LOCKED, claims the oldest       *)
(* pending row that has attempts left.                                      *)

\* Mutant: the lease does not look at the status.
LeasableAnyStatus ==
    {j \in Jobs : status[j] \notin {"absent", "deleted"} /\ attempts[j] < MaxAttempts}

Leasable == {j \in Jobs : status[j] = "pending" /\ attempts[j] < MaxAttempts}

\* Mutant: the row is handed out without being marked.
LeaseRowUnmarked(j) ==
    /\ UNCHANGED status
    /\ attempts' = [attempts EXCEPT ![j] = @ + 1]

LeaseRow(j) ==
    /\ status' = [status EXCEPT ![j] = "processing"]
    /\ attempts' = [attempts EXCEPT ![j] = @ + 1]

Oldest(j) == j \in Leasable /\ \A i \in Leasable : j <= i

Lease(s, j) ==
    /\ pc[s] = "idle"
    /\ Oldest(j)
    /\ LeaseRow(j)
    /\ held' = [held EXCEPT ![s] = j]
    /\ Goto(s, "extract")
    /\ UNCHANGED <<staged, historyVars, faults>>

\* The row is claimed and committed, the reply never arrives: workerLoop's
\* catch logs the error and the slot polls again.
LeaseLost(s, j) ==
    /\ pc[s] = "idle"
    /\ Oldest(j)
    /\ Fault("lost")
    /\ LeaseRow(j)
    /\ UNCHANGED <<staged, slotVars, historyVars>>

\* No row: the slot sleeps POLL_IDLE_MS and asks again.
IdlePoll(s) ==
    /\ pc[s] = "idle"
    /\ Leasable = {}
    /\ UNCHANGED vars

-----------------------------------------------------------------------------
(* runOne's try block: the LLM call, then writeFacts unless it found none.  *)

Extracted(s) ==
    /\ Goto(s, "write")
    /\ UNCHANGED handled

\* An empty list of facts: the model found none, its answer was not a list, or the
\* query ended without success (extract.js:66, 86, for example error_max_turns), which
\* runExtraction does not tell apart.
ExtractedNothing(s) ==
    /\ Goto(s, "complete")
    /\ handled' = handled \cup {held[s]}

\* Mutant: an error of the LLM call reads as "no facts".
ExtractThrewSwallowed(s) ==
    /\ Goto(s, "complete")
    /\ UNCHANGED handled

\* Mutant: the catch block does not call failJob.
ExtractThrewUnreported(s) ==
    /\ Goto(s, "cleanup")
    /\ UNCHANGED handled

ExtractThrew(s) ==
    /\ Goto(s, "fail")
    /\ UNCHANGED handled

Extract(s) ==
    /\ pc[s] = "extract"
    /\ Extracted(s) \/ ExtractedNothing(s) \/ ExtractThrew(s)
    /\ UNCHANGED <<rowVars, staged, held, writes, faults>>

Written(s) == writes' = [writes EXCEPT ![held[s]] = @ + 1]

\* writeFacts returned; audit() never throws.
WriteFacts(s) ==
    /\ pc[s] = "write"
    /\ Written(s)
    /\ handled' = handled \cup {held[s]}
    /\ Goto(s, "complete")
    /\ UNCHANGED <<rowVars, staged, held, faults>>

\* writeFacts threw: its statements are not one transaction, so the rows of
\* the facts before the failing one may be there.
WriteThrew(s) ==
    /\ pc[s] = "write"
    /\ Written(s) \/ UNCHANGED writes
    /\ Goto(s, "fail")
    /\ UNCHANGED <<rowVars, staged, held, handled, faults>>

\* Neither the extraction nor the classifier in writeFacts gives its SDK call a
\* timeout: one that never ends keeps the slot and the job.
Hang(s) ==
    /\ pc[s] \in {"extract", "write"}
    /\ Fault("hang")
    /\ Goto(s, "hung")
    /\ UNCHANGED <<rowVars, staged, held, historyVars>>

-----------------------------------------------------------------------------
(* completeJob, and the catch block when it throws. *)

Complete(s) ==
    /\ pc[s] = "complete"
    /\ SetStatus(held[s], "done")
    /\ Goto(s, "cleanup")
    /\ UNCHANGED <<attempts, staged, held, historyVars, faults>>

CompleteRefused(s) ==
    /\ pc[s] = "complete"
    /\ Fault("refused")
    /\ Goto(s, "fail")
    /\ UNCHANGED <<rowVars, staged, held, historyVars>>

CompleteLost(s) ==
    /\ pc[s] = "complete"
    /\ Fault("lost")
    /\ SetStatus(held[s], "done")
    /\ Goto(s, "fail")
    /\ UNCHANGED <<attempts, staged, held, historyVars>>

(* failJob: back to pending, or failed once the attempts are spent.  It      *)
(* looks at attempts only, never at the status it replaces.                  *)

\* Mutant: one attempt too many.
AfterFailureLate(j) == IF attempts[j] > MaxAttempts THEN "failed" ELSE "pending"

AfterFailure(j) == IF attempts[j] >= MaxAttempts THEN "failed" ELSE "pending"

\* The finally block runs whether or not failJob's own reply arrives.
Fail(s) ==
    /\ pc[s] = "fail"
    /\ SetStatus(held[s], AfterFailure(held[s]))
    /\ Goto(s, "cleanup")
    /\ UNCHANGED <<attempts, staged, held, historyVars, faults>>

FailRefused(s) ==
    /\ pc[s] = "fail"
    /\ Fault("refused")
    /\ Goto(s, "cleanup")
    /\ UNCHANGED <<rowVars, staged, held, historyVars>>

-----------------------------------------------------------------------------
(* The finally block: rm -r of the job's directory, errors swallowed.        *)

\* Mutant: the rm misses the directory.
EmptiedNot(dir) == dir

Emptied(dir) == IF dir = "present" THEN "removed" ELSE dir

Release(s) ==
    /\ held' = [held EXCEPT ![s] = NoJob]
    /\ Goto(s, "idle")

Cleanup(s) ==
    /\ pc[s] = "cleanup"
    /\ staged' = [staged EXCEPT ![held[s]] = Emptied(@)]
    /\ Release(s)
    /\ UNCHANGED <<rowVars, historyVars, faults>>

CleanupFails(s) ==
    /\ pc[s] = "cleanup"
    /\ Fault("rm")
    /\ Release(s)
    /\ UNCHANGED <<rowVars, staged, historyVars>>

\* The process ends with every slot's call in flight; docker starts it again.
Crash ==
    /\ Fault("crash")
    /\ pc' = [s \in Slots |-> "idle"]
    /\ held' = [s \in Slots |-> NoJob]
    /\ UNCHANGED <<rowVars, staged, historyVars>>

-----------------------------------------------------------------------------
SlotStep(s) ==
    \/ \E j \in Jobs : Lease(s, j)
    \/ Extract(s)
    \/ WriteFacts(s) \/ WriteThrew(s)
    \/ Complete(s) \/ Fail(s) \/ Cleanup(s)

SlotFault(s) ==
    \/ \E j \in Jobs : LeaseLost(s, j)
    \/ CompleteRefused(s) \/ CompleteLost(s)
    \/ FailRefused(s) \/ CleanupFails(s)
    \/ Hang(s)

Next ==
    \/ \E j \in Jobs, files \in BOOLEAN : Enqueue(j, files)
    \/ \E u \in Users : Purge(u)
    \/ \E s \in Slots : SlotStep(s) \/ SlotFault(s) \/ IdlePoll(s)
    \/ Crash

Spec == Init /\ [][Next]_vars

\* Every slot keeps running: each call it awaits returns or throws, unless it hangs.
FairSpec == Spec /\ \A s \in Slots : WF_vars(SlotStep(s))

-----------------------------------------------------------------------------
(* What the queue promises. *)

Busy == {"extract", "write", "hung", "complete", "fail"}
Settled == {"done", "failed", "deleted"}

\* Shape of the state; a slot holds a job exactly when it is inside runOne.
TypeOK ==
    /\ status \in [Jobs -> Statuses]
    /\ attempts \in [Jobs -> 0..MaxAttempts]
    /\ staged \in [Jobs -> {"none", "present", "removed"}]
    /\ pc \in [Slots -> Steps]
    /\ held \in [Slots -> Jobs \cup {NoJob}]
    /\ \A s \in Slots : held[s] = NoJob <=> pc[s] = "idle"
    /\ writes \in [Jobs -> Nat]
    /\ handled \subseteq Jobs
    /\ faults \in [FaultKinds -> 0..MaxFaults]

\* A job is worked on by at most one slot: between the lease and the statement
\* that hands the job back, no other slot can lease it (index.js:14-30), also
\* after lost replies, crashes and purges.
LeaseExclusive ==
    \A s, t \in Slots :
        s # t /\ pc[s] \in Busy /\ pc[t] \in Busy => held[s] # held[t]

\* While a slot is in runOne, the row it leased is still its own: nobody has put
\* it back in the queue, and unless the reply of completeJob was lost it is
\* processing or purged.  Purge, the inserts and the other slots interleave.
HeldRowIsProcessing ==
    \A s \in Slots :
        /\ pc[s] \in {"extract", "write", "hung", "complete"} =>
               status[held[s]] \in {"processing", "deleted"}
        /\ pc[s] = "fail" => status[held[s]] \in {"processing", "deleted", "done"}

\* No pending job is out of reach of the lease: the CASE of failJob and the
\* attempts guard of leaseJob agree on the last attempt (index.js:19 and 42),
\* so a job is never left pending where no slot will pick it up.
PendingIsLeasable ==
    \A j \in Jobs : status[j] = "pending" => j \in Leasable

\* Facts of one job are written at most once per lease, and leases are bounded,
\* whatever is refused, lost or restarted on the way.
WritesBounded ==
    \A j \in Jobs : writes[j] <= attempts[j]

\* A job reads done only if some attempt got through all the facts extract.js gave
\* it (index.js:75-88), even when replies are lost and the job is run again.  It says
\* nothing of the LLM: a query that ends without success gives an empty list
\* (extract.js:66, 86), and the job is done with no fact written.
DoneMeansHandled ==
    \A j \in Jobs : status[j] = "done" => j \in handled

\* A job is given up only after its last attempt (index.js:39-47).
FailedMeansExhausted ==
    \A j \in Jobs : status[j] = "failed" => attempts[j] = MaxAttempts

\* A row is left processing with no slot on it.
Stranded(j) == status[j] = "processing" /\ \A s \in Slots : held[s] # j

\* A job that is done stays done: unless a reply was lost, nothing hands it back
\* to the queue (failJob updates by id alone, index.js:39-47).
DoneIsFinal ==
    [][faults["lost"] = 0 =>
          \A j \in Jobs : status[j] = "done" => status'[j] \in {"done", "deleted"}]_vars

\* Every way through runOne hands the job back (index.js:63-96): a row is stranded
\* only by a crash, a lost lease or a statement that was refused.
StrandedByFault ==
    \A j \in Jobs : Stranded(j) => \E kind \in {"crash", "lost", "refused"} : faults[kind] > 0

\* "Drains extraction_jobs queue" (index.js:1): every job inserted is settled,
\* stranded for good, or kept by a call that never ends.  As long as one slot is
\* left, the jobs that wait do not wait for a call that hangs in another.
QueueDrains ==
    \A j \in Jobs :
        status[j] \in {"pending", "processing"} ~>
            \/ status[j] \in Settled \/ Stranded(j)
            \/ \E s \in Slots : held[s] = j /\ pc[s] = "hung"
            \/ \A s \in Slots : pc[s] = "hung"

\* The jobs a slot is working on.
Leased == {j \in Jobs : \E s \in Slots : held[s] = j /\ pc[s] \in Busy}

Contract == INSTANCE JobContract
            WITH life <- status, tries <- attempts, leased <- Leased, answered <- handled

\* Whatever is refused, lost, hung, restarted or purged on the way, the slots keep
\* the contract of the queue: what they do to a job, between the statements that
\* lease it and hand it back, is one of the steps JobContract allows.
KeepsContract == Contract!Spec

\* The directory of a job that is done or failed is removed (index.js:49-54),
\* unless the rm itself fails or the process ends before it.
FilesRemovedOnceSettled ==
    \A j \in Jobs :
        (status[j] \in {"done", "failed"} /\ staged[j] = "present")
            ~> (staged[j] = "removed" \/ faults["rm"] > 0 \/ faults["crash"] > 0)

\* docker-compose.yml:17-20: the extractor reads the attachments, "then deletes
\* the per-message subdir on job completion".
FilesKeptUntilSettled ==
    \A j \in Jobs : staged[j] = "removed" => status[j] \in Settled
=============================================================================

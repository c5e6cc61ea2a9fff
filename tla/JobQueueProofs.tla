--------------------------- MODULE JobQueueProofs ---------------------------
(***************************************************************************)
(* Proofs about JobQueue for any number of jobs, slots, attempts and       *)
(* faults: its safety invariants, from one inductive invariant, what no    *)
(* step does to a job that is done, and that the queue with all its faults *)
(* implements JobContract.                                                 *)
(***************************************************************************)
EXTENDS JobQueue, TLAPS

-----------------------------------------------------------------------------
\* A fault is counted, and no count ever falls.
LEMMA FaultCounted ==
    ASSUME faults \in [FaultKinds -> 0..MaxFaults], NEW kind \in FaultKinds, Fault(kind)
    PROVE  /\ faults' \in [FaultKinds -> 0..MaxFaults]
           /\ faults'[kind] > 0
           /\ \A k \in FaultKinds : k # kind => faults'[k] = faults[k]
<1>1. \A k \in FaultKinds : faults[k] \in Nat
  BY JobQueueConstants
<1>2. faults[kind] < MaxFaults
  BY <1>1, JobQueueConstants DEF Fault, FaultKinds
<1>3. faults' = [faults EXCEPT ![kind] = faults[kind] + 1]
  BY DEF Fault
<1>4. faults[kind] + 1 \in 0..MaxFaults
  BY <1>1, <1>2, JobQueueConstants
<1> QED BY <1>1, <1>3, <1>4

\* What a step does to the counts.
LEMMA FaultStep ==
    ASSUME faults \in [FaultKinds -> 0..MaxFaults], [Next]_vars
    PROVE  /\ faults' \in [FaultKinds -> 0..MaxFaults]
           /\ \A k \in FaultKinds : faults[k] > 0 => faults'[k] > 0
<1>1. CASE \E kind \in FaultKinds : Fault(kind)
  BY <1>1, FaultCounted
<1>2. CASE faults' = faults
  BY <1>2
<1> QED
  BY <1>1, <1>2
  DEF Next, SlotStep, SlotFault, IdlePoll, Enqueue, Purge, Lease, LeaseLost, Extract, WriteFacts,
      WriteThrew, Hang, Complete, CompleteRefused, CompleteLost, Fail, FailRefused, Cleanup, CleanupFails,
      Crash, vars, FaultKinds

\* The type invariant is inductive by itself.
LEMMA StepType == TypeOK /\ [Next]_vars => TypeOK'
<1> USE JobQueueConstants
<1> SUFFICES ASSUME TypeOK, [Next]_vars PROVE TypeOK'
  OBVIOUS
<1>0. faults' \in [FaultKinds -> 0..MaxFaults]
  BY FaultStep DEF TypeOK
<1> USE DEF TypeOK, Statuses, Steps, NoJob, Goto, SetStatus, rowVars, slotVars, historyVars
<1>1. ASSUME NEW j \in Jobs, NEW files \in BOOLEAN, Enqueue(j, files) PROVE TypeOK'
  BY <1>0, <1>1 DEF Enqueue
<1>2. ASSUME NEW u \in Users, Purge(u) PROVE TypeOK'
  BY <1>0, <1>2 DEF Purge, PurgeLeaves
<1>3. ASSUME NEW s \in Slots, NEW j \in Jobs, Lease(s, j) \/ LeaseLost(s, j) PROVE TypeOK'
  <2>1. attempts[j] + 1 \in 0..MaxAttempts
    BY <1>3 DEF Lease, LeaseLost, Oldest, Leasable
  <2>2. attempts' \in [Jobs -> 0..MaxAttempts] /\ status' \in [Jobs -> Statuses]
    BY <1>3, <2>1 DEF Lease, LeaseLost, LeaseRow
  <2>3. j # NoJob
    BY DEF Jobs
  <2>4. UNCHANGED <<staged, writes, handled>>
    BY <1>3 DEF Lease, LeaseLost
  <2>5. CASE UNCHANGED slotVars
    BY <1>0, <2>2, <2>4, <2>5
  <2>6. CASE held' = [held EXCEPT ![s] = j] /\ pc' = [pc EXCEPT ![s] = "extract"]
    BY <1>0, <2>2, <2>3, <2>4, <2>6
  <2> QED BY <1>3, <2>5, <2>6 DEF Lease, LeaseLost
<1>5. ASSUME NEW s \in Slots, Extract(s) PROVE TypeOK'
  BY <1>0, <1>5 DEF Extract, Extracted, ExtractedNothing, ExtractThrew
<1>5a. ASSUME NEW s \in Slots, WriteFacts(s) \/ WriteThrew(s) PROVE TypeOK'
  BY <1>0, <1>5a DEF WriteFacts, WriteThrew, Written
<1>6. ASSUME NEW s \in Slots, CompleteRefused(s) \/ FailRefused(s) \/ Hang(s) PROVE TypeOK'
  BY <1>0, <1>6 DEF CompleteRefused, FailRefused, Hang
<1>7. ASSUME NEW s \in Slots, Complete(s) \/ CompleteLost(s) PROVE TypeOK'
  BY <1>0, <1>7 DEF Complete, CompleteLost
<1>8. ASSUME NEW s \in Slots, Fail(s) PROVE TypeOK'
  BY <1>0, <1>8 DEF Fail, AfterFailure
<1>9. ASSUME NEW s \in Slots, Cleanup(s) \/ CleanupFails(s) PROVE TypeOK'
  BY <1>0, <1>9 DEF Cleanup, CleanupFails, Emptied, Release
<1>10. CASE Crash
  BY <1>0, <1>10 DEF Crash
<1>11. CASE UNCHANGED vars
  BY <1>0, <1>11 DEF vars
<1> QED
  BY <1>1, <1>2, <1>3, <1>5, <1>5a, <1>6, <1>7, <1>8, <1>9, <1>10, <1>11
  DEF Next, SlotStep, SlotFault, IdlePoll

\* The type invariant of every behaviour, whatever the faults.
THEOREM TypeCorrect == Spec => []TypeOK
<1> USE JobQueueConstants
<1>1. Init => TypeOK
  BY DEF Init, TypeOK, Jobs, NoJob, Statuses, Steps
<1>2. TypeOK /\ [Next]_vars => TypeOK'
  BY StepType
<1> QED BY <1>1, <1>2, PTL DEF Spec

-----------------------------------------------------------------------------
(* The safety invariants need four facts more: a row nobody inserted has no *)
(* attempts, a held row exists, a slot about to write has an attempt not     *)
(* written yet, and a slot about to complete has seen its job's facts in.    *)

AbsentUnleased ==
    \A j \in Jobs : status[j] = "absent" => attempts[j] = 0

HeldRowExists ==
    \A s \in Slots : pc[s] # "idle" => status[held[s]] # "absent"

WriteOwed ==
    \A s \in Slots : pc[s] \in {"extract", "write"} => writes[held[s]] < attempts[held[s]]

CompletesHandled ==
    \A s \in Slots : pc[s] = "complete" => held[s] \in handled

IInv ==
    /\ TypeOK
    /\ LeaseExclusive
    /\ HeldRowIsProcessing
    /\ HeldRowExists
    /\ AbsentUnleased
    /\ PendingIsLeasable
    /\ WriteOwed
    /\ WritesBounded
    /\ CompletesHandled
    /\ DoneMeansHandled
    /\ FailedMeansExhausted

\* An empty queue with idle slots satisfies it.
LEMMA InitIInv == Init => IInv
BY JobQueueConstants
DEF Init, IInv, TypeOK, LeaseExclusive, HeldRowIsProcessing, HeldRowExists, AbsentUnleased,
    PendingIsLeasable, WriteOwed, WritesBounded, CompletesHandled, DoneMeansHandled,
    FailedMeansExhausted, Jobs, NoJob, Statuses, Steps, Busy

\* Every step preserves the inductive invariant, one step of the proof per action.
LEMMA StepIInv == IInv /\ [Next]_vars => IInv'
<1> USE JobQueueConstants
<1> SUFFICES ASSUME IInv, [Next]_vars PROVE IInv'
  OBVIOUS
<1>0. TypeOK'
  BY StepType DEF IInv
<1> USE DEF IInv, TypeOK, LeaseExclusive, HeldRowIsProcessing, HeldRowExists, AbsentUnleased,
    PendingIsLeasable, WriteOwed, WritesBounded, CompletesHandled, DoneMeansHandled,
    FailedMeansExhausted, Busy, Leasable, Goto, SetStatus, NoJob,
    rowVars, slotVars, historyVars
<1>1. ASSUME NEW j \in Jobs, NEW files \in BOOLEAN, Enqueue(j, files) PROVE IInv'
  BY <1>0, <1>1 DEF Enqueue
<1>2. ASSUME NEW u \in Users, Purge(u) PROVE IInv'
  BY <1>0, <1>2 DEF Purge, PurgeLeaves
<1>3. ASSUME NEW s \in Slots, NEW j \in Jobs, Lease(s, j) PROVE IInv'
  BY <1>0, <1>3 DEF Lease, Oldest, Leasable, LeaseRow
<1>4. ASSUME NEW s \in Slots, NEW j \in Jobs, LeaseLost(s, j) PROVE IInv'
  BY <1>0, <1>4 DEF LeaseLost, Oldest, Leasable, LeaseRow
<1>5. ASSUME NEW s \in Slots, Extract(s) PROVE IInv'
  BY <1>0, <1>5 DEF Extract, Extracted, ExtractedNothing, ExtractThrew
<1>6. ASSUME NEW s \in Slots, WriteFacts(s) PROVE IInv'
  BY <1>0, <1>6 DEF WriteFacts, Written
<1>7. ASSUME NEW s \in Slots, WriteThrew(s) PROVE IInv'
  BY <1>0, <1>7 DEF WriteThrew, Written
<1>8. ASSUME NEW s \in Slots, CompleteRefused(s) \/ FailRefused(s) \/ Hang(s) PROVE IInv'
  BY <1>0, <1>8 DEF CompleteRefused, FailRefused, Hang
<1>9. ASSUME NEW s \in Slots, Complete(s) \/ CompleteLost(s) PROVE IInv'
  BY <1>0, <1>9 DEF Complete, CompleteLost
<1>10. ASSUME NEW s \in Slots, Fail(s) PROVE IInv'
  BY <1>0, <1>10 DEF Fail, AfterFailure
<1>11. ASSUME NEW s \in Slots, Cleanup(s) \/ CleanupFails(s) PROVE IInv'
  BY <1>0, <1>11 DEF Cleanup, CleanupFails, Release
<1>12. CASE Crash
  BY <1>0, <1>12 DEF Crash
<1>13. CASE UNCHANGED vars
  BY <1>0, <1>13 DEF vars
<1> QED
  BY <1>1, <1>2, <1>3, <1>4, <1>5, <1>6, <1>7, <1>8, <1>9, <1>10, <1>11, <1>12, <1>13
  DEF Next, SlotStep, SlotFault, IdlePoll

\* The inductive invariant holds in every reachable state.
LEMMA InductiveInvariant == Spec => []IInv
BY InitIInv, StepIInv, PTL DEF Spec

-----------------------------------------------------------------------------
\* At most one slot works on a job (LeaseExclusive), whatever is lost or restarted.
THEOREM ExclusiveLease == Spec => []LeaseExclusive
<1>1. IInv => LeaseExclusive
  BY DEF IInv
<1> QED BY <1>1, InductiveInvariant, PTL

\* The row a slot works on is its own (HeldRowIsProcessing), through purges and faults.
THEOREM HeldRowOwned == Spec => []HeldRowIsProcessing
<1>1. IInv => HeldRowIsProcessing
  BY DEF IInv
<1> QED BY <1>1, InductiveInvariant, PTL

\* failJob and leaseJob agree on the last attempt (PendingIsLeasable).
THEOREM NoStrandedPending == Spec => []PendingIsLeasable
<1>1. IInv => PendingIsLeasable
  BY DEF IInv
<1> QED BY <1>1, InductiveInvariant, PTL

\* A job's facts are written at most MaxAttempts times (WritesBounded and the
\* range of attempts).
THEOREM BoundedWrites ==
    Spec => [](WritesBounded /\ \A j \in Jobs : writes[j] <= MaxAttempts)
<1>1. IInv => WritesBounded /\ \A j \in Jobs : writes[j] <= MaxAttempts
  BY JobQueueConstants DEF IInv, TypeOK, WritesBounded
<1> QED BY <1>1, InductiveInvariant, PTL

\* done and failed mean what they say (DoneMeansHandled, FailedMeansExhausted).
THEOREM SettledMeaning == Spec => [](DoneMeansHandled /\ FailedMeansExhausted)
<1>1. IInv => DoneMeansHandled /\ FailedMeansExhausted
  BY DEF IInv
<1> QED BY <1>1, InductiveInvariant, PTL

-----------------------------------------------------------------------------
(* DoneIsFinal needs replies that are not lost: then a slot that reaches     *)
(* failJob has never marked its job done.                                    *)

FailingNotDone ==
    faults["lost"] = 0 => \A s \in Slots : pc[s] = "fail" => status[held[s]] # "done"

\* Until a reply is lost no slot fails a job that is done.
LEMMA StepFailingNotDone ==
    ASSUME IInv, FailingNotDone, [Next]_vars
    PROVE  FailingNotDone'
<1>0. faults["lost"]' = 0 => faults["lost"] = 0
  BY FaultStep, JobQueueConstants DEF IInv, TypeOK, FaultKinds
<1> USE DEF IInv, TypeOK, LeaseExclusive, HeldRowIsProcessing, FailingNotDone, Busy,
    Goto, SetStatus, rowVars, slotVars, historyVars
<1>1. ASSUME NEW j \in Jobs, NEW files \in BOOLEAN, Enqueue(j, files) PROVE FailingNotDone'
  BY <1>0, <1>1 DEF Enqueue
<1>2. ASSUME NEW u \in Users, Purge(u) PROVE FailingNotDone'
  BY <1>0, <1>2 DEF Purge, PurgeLeaves
<1>3. ASSUME NEW s \in Slots, NEW j \in Jobs, Lease(s, j) PROVE FailingNotDone'
  BY <1>0, <1>3 DEF Lease, Oldest, Leasable, LeaseRow
<1>4. ASSUME NEW s \in Slots, Extract(s) \/ WriteFacts(s) \/ WriteThrew(s) PROVE FailingNotDone'
  BY <1>0, <1>4 DEF Extract, Extracted, ExtractedNothing, ExtractThrew, WriteFacts, WriteThrew
<1>5. ASSUME NEW s \in Slots, Complete(s) PROVE FailingNotDone'
  BY <1>0, <1>5 DEF Complete
<1>6. ASSUME NEW s \in Slots, Fail(s) PROVE FailingNotDone'
  BY <1>0, <1>6 DEF Fail, AfterFailure
<1>7. ASSUME NEW s \in Slots, Cleanup(s) \/ CleanupFails(s) PROVE FailingNotDone'
  BY <1>0, <1>7 DEF Cleanup, CleanupFails, Release
<1>8. ASSUME NEW s \in Slots, CompleteRefused(s) \/ FailRefused(s) \/ Hang(s) PROVE FailingNotDone'
  BY <1>0, <1>8 DEF CompleteRefused, FailRefused, Hang
<1>8a. ASSUME Fault("lost") PROVE FailingNotDone'
  <2>1. faults'["lost"] > 0
    BY <1>8a, FaultCounted DEF FaultKinds
  <2> QED BY <2>1
<1>9. CASE Crash
  BY <1>0, <1>9 DEF Crash
<1>10. CASE UNCHANGED vars
  BY <1>0, <1>10 DEF vars
<1> QED
  BY <1>1, <1>2, <1>3, <1>4, <1>5, <1>6, <1>7, <1>8, <1>8a, <1>9, <1>10
  DEF Next, SlotStep, SlotFault, LeaseLost, CompleteLost, IdlePoll

\* One step never takes a job out of done but by a purge.
LEMMA StepDoneIsFinal ==
    ASSUME IInv, FailingNotDone, faults["lost"] = 0, [Next]_vars
    PROVE  \A j \in Jobs : status[j] = "done" => status'[j] \in {"done", "deleted"}
<1> SUFFICES ASSUME NEW j \in Jobs, status[j] = "done"
             PROVE  status'[j] \in {"done", "deleted"}
  OBVIOUS
<1> USE DEF IInv, TypeOK, FailingNotDone, SetStatus, rowVars, slotVars, historyVars
<1>1. ASSUME UNCHANGED status PROVE status'[j] \in {"done", "deleted"}
  BY <1>1
<1>2. ASSUME NEW i \in Jobs, NEW files \in BOOLEAN, Enqueue(i, files)
      PROVE status'[j] \in {"done", "deleted"}
  BY <1>2 DEF Enqueue
<1>3. ASSUME NEW u \in Users, Purge(u) PROVE status'[j] \in {"done", "deleted"}
  BY <1>3 DEF Purge
<1>4. ASSUME NEW s \in Slots, NEW i \in Jobs, Lease(s, i) \/ LeaseLost(s, i)
      PROVE status'[j] \in {"done", "deleted"}
  BY <1>4 DEF Lease, LeaseLost, Oldest, Leasable, LeaseRow
<1>5. ASSUME NEW s \in Slots, Complete(s) \/ CompleteLost(s) PROVE status'[j] \in {"done", "deleted"}
  BY <1>5 DEF Complete, CompleteLost
<1>6. ASSUME NEW s \in Slots, Fail(s) PROVE status'[j] \in {"done", "deleted"}
  BY <1>6 DEF Fail
<1> QED
  BY <1>1, <1>2, <1>3, <1>4, <1>5, <1>6
  DEF Next, SlotStep, SlotFault, IdlePoll, Extract, WriteFacts, WriteThrew, CompleteRefused,
      FailRefused, Hang, Cleanup, CleanupFails, Crash, vars

\* Until a reply is lost a job that is done is never run again (DoneIsFinal).
THEOREM DoneStaysDone == Spec => DoneIsFinal
<1>1. Init => FailingNotDone
  BY DEF Init, FailingNotDone
<1>2. IInv /\ FailingNotDone /\ [Next]_vars => FailingNotDone'
  BY StepFailingNotDone
<1>3. IInv /\ FailingNotDone /\ [Next]_vars =>
        [faults["lost"] = 0 =>
            \A j \in Jobs : status[j] = "done" => status'[j] \in {"done", "deleted"}]_vars
  BY StepDoneIsFinal
<1> QED BY <1>1, <1>2, <1>3, InductiveInvariant, PTL DEF Spec, DoneIsFinal

-----------------------------------------------------------------------------
(* A row is stranded by a fault or not at all: a slot that is about to let   *)
(* its job go has handed it back, and if the row is processing again another *)
(* slot has leased it since.                                                 *)

LeasedByOther(s) ==
    \E t \in Slots : t # s /\ held[t] = held[s] /\ pc[t] \in Busy

HandedBack ==
    \A s \in Slots : pc[s] = "cleanup" => status[held[s]] # "processing" \/ LeasedByOther(s)

NoneStranded == \A j \in Jobs : ~Stranded(j)

\* What may strand a job has happened.
Disturbed == faults["crash"] > 0 \/ faults["lost"] > 0 \/ faults["refused"] > 0

StrandInv == Disturbed \/ (HandedBack /\ NoneStranded)

\* What has happened stays so, and what happens now has happened.
LEMMA StepDisturbed ==
    ASSUME TypeOK, [Next]_vars,
           Disturbed \/ Fault("crash") \/ Fault("lost") \/ Fault("refused")
    PROVE  Disturbed'
<1>1. "crash" \in FaultKinds /\ "lost" \in FaultKinds /\ "refused" \in FaultKinds
  BY DEF FaultKinds
<1>2. \A k \in FaultKinds : (faults[k] > 0 => faults'[k] > 0) /\ (Fault(k) => faults'[k] > 0)
  BY FaultStep, FaultCounted DEF TypeOK
<1> QED BY <1>1, <1>2 DEF Disturbed

\* Every undisturbed step keeps both parts.
LEMMA StepStrandInv == IInv /\ StrandInv /\ [Next]_vars => StrandInv'
<1> SUFFICES ASSUME IInv, StrandInv, [Next]_vars PROVE StrandInv'
  OBVIOUS
<1>0. CASE Disturbed \/ Fault("crash") \/ Fault("lost") \/ Fault("refused")
  BY <1>0, StepDisturbed DEF IInv, StrandInv
<1>a. CASE ~(Disturbed \/ Fault("crash") \/ Fault("lost") \/ Fault("refused"))
  <2>0. /\ status \in [Jobs -> Statuses] /\ pc \in [Slots -> Steps]
        /\ held \in [Slots -> Jobs \cup {NoJob}]
        /\ NoJob \notin Jobs
        /\ \A s \in Slots : held[s] = NoJob <=> pc[s] = "idle"
    BY JobQueueConstants DEF IInv, TypeOK, NoJob, Jobs
  <2>0a. HandedBack /\ NoneStranded
    BY <1>a DEF StrandInv
  <2> SUFFICES HandedBack' /\ NoneStranded'
    BY DEF StrandInv
  <2> USE <2>0, <2>0a DEF HandedBack, LeasedByOther, NoneStranded, Stranded, Busy, Goto,
                          SetStatus, rowVars, slotVars
  <2>1. ASSUME NEW j \in Jobs, NEW files \in BOOLEAN, Enqueue(j, files)
        PROVE HandedBack' /\ NoneStranded'
    BY <2>1 DEF Enqueue
  <2>2. ASSUME NEW u \in Users, Purge(u) PROVE HandedBack' /\ NoneStranded'
    BY <2>2 DEF Purge, PurgeLeaves
  <2>3. ASSUME NEW s \in Slots, NEW j \in Jobs, Lease(s, j) PROVE HandedBack' /\ NoneStranded'
    BY <2>3 DEF Lease, Oldest, Leasable, LeaseRow
  <2>4. ASSUME NEW s \in Slots, Extract(s) \/ WriteFacts(s) \/ WriteThrew(s) \/ Hang(s)
        PROVE HandedBack' /\ NoneStranded'
    BY <2>4 DEF Extract, Extracted, ExtractedNothing, ExtractThrew, WriteFacts, WriteThrew, Hang
  <2>5. ASSUME NEW s \in Slots, Complete(s) PROVE HandedBack' /\ NoneStranded'
    BY <2>5 DEF Complete
  <2>6. ASSUME NEW s \in Slots, Fail(s) PROVE HandedBack' /\ NoneStranded'
    BY <2>6 DEF Fail, AfterFailure
  <2>7. ASSUME NEW s \in Slots, Cleanup(s) \/ CleanupFails(s) PROVE HandedBack' /\ NoneStranded'
    <3>1. /\ pc[s] = "cleanup" /\ UNCHANGED status
          /\ held' = [held EXCEPT ![s] = NoJob] /\ pc' = [pc EXCEPT ![s] = "idle"]
      BY <2>7 DEF Cleanup, CleanupFails, Release
    <3>2. \A t \in Slots : t # s => held'[t] = held[t] /\ pc'[t] = pc[t]
      BY <3>1
    <3>3. HandedBack'
      BY <3>1, <3>2
    <3>4. status[held[s]] # "processing" \/ \E t \in Slots : t # s /\ held[t] = held[s]
      BY <3>1
    <3>5. NoneStranded'
      BY <3>1, <3>2, <3>4
    <3> QED BY <3>3, <3>5
  <2>8. CASE UNCHANGED vars
    BY <2>8 DEF vars
  <2> QED
    BY <1>a, <2>1, <2>2, <2>3, <2>4, <2>5, <2>6, <2>7, <2>8
    DEF Next, SlotStep, SlotFault, IdlePoll, LeaseLost, CompleteLost, CompleteRefused,
        FailRefused, Crash
<1> QED BY <1>0, <1>a

\* Only a crash, a lost reply or a refused statement strands a job (StrandedByFault).
THEOREM StrandingNeedsFault == Spec => []StrandedByFault
<1>1. Init => StrandInv
  BY DEF Init, StrandInv, HandedBack, NoneStranded, Stranded
<1>2. StrandInv => StrandedByFault
  BY DEF StrandInv, StrandedByFault, NoneStranded, Disturbed
<1> QED BY <1>1, <1>2, StepStrandInv, InductiveInvariant, PTL DEF Spec

-----------------------------------------------------------------------------
(* JobQueue implements JobContract: a step of a slot on a job is the step of *)
(* the contract it stands for, the rest stutters.  Exclusive leases make the *)
(* set Leased lose a job exactly when the one slot that holds it moves on.   *)

\* A slot moves on, or not, without touching the others.
LEMMA LeasedAfterMove ==
    ASSUME IInv, NEW s \in Slots, pc[s] \in Busy, UNCHANGED held,
           NEW step \in Steps, pc' = [pc EXCEPT ![s] = step]
    PROVE  /\ held[s] \in Leased
           /\ step \in Busy => Leased' = Leased
           /\ step \notin Busy => Leased' = Leased \ {held[s]}
<1>1. /\ pc \in [Slots -> Steps] /\ held \in [Slots -> Jobs \cup {NoJob}]
      /\ \A t \in Slots : held[t] = NoJob <=> pc[t] = "idle"
  BY DEF IInv, TypeOK
<1>2. held[s] \in Jobs /\ held[s] \in Leased
  BY <1>1 DEF Leased, Busy
<1>3. \A t \in Slots : t # s /\ pc[t] \in Busy => held[t] # held[s]
  BY DEF IInv, LeaseExclusive
<1>4. pc'[s] = step /\ \A t \in Slots : t # s => pc'[t] = pc[t]
  BY <1>1
<1>5. ASSUME step \in Busy PROVE Leased' = Leased
  BY <1>4, <1>5 DEF Leased
<1>6. ASSUME step \notin Busy PROVE Leased' = Leased \ {held[s]}
  BY <1>3, <1>4, <1>6 DEF Leased
<1> QED BY <1>2, <1>5, <1>6

\* A slot that is not working picks up a job, or lets go of one it has handed back.
LEMMA LeasedAfterPickup ==
    ASSUME IInv, NEW s \in Slots, pc[s] \notin Busy
    PROVE  /\ \A j \in Jobs : held' = [held EXCEPT ![s] = j] /\ pc' = [pc EXCEPT ![s] = "extract"]
                                 => Leased' = Leased \cup {j}
           /\ held' = [held EXCEPT ![s] = NoJob] /\ pc' = [pc EXCEPT ![s] = "idle"]
                                 => Leased' = Leased
BY DEF IInv, TypeOK, Leased, Busy, Steps

\* A pending job is nobody's.
LEMMA PendingNotLeased == IInv => \A j \in Leased : status[j] # "pending"
BY DEF IInv, HeldRowIsProcessing, Leased, Busy

\* Every step of the queue is a step of the contract, or leaves it alone.
LEMMA StepContract == IInv /\ [Next]_vars => [Contract!Next]_(Contract!contractVars)
<1> SUFFICES ASSUME IInv, [Next]_vars
             PROVE  Contract!Next \/ UNCHANGED <<status, attempts, Leased, handled>>
  BY DEF Contract!contractVars
<1> DEFINE Goal == Contract!Next \/ UNCHANGED <<status, attempts, Leased, handled>>
<1>0. /\ status \in [Jobs -> Statuses] /\ attempts \in [Jobs -> 0..MaxAttempts]
      /\ pc \in [Slots -> Steps] /\ held \in [Slots -> Jobs \cup {NoJob}]
      /\ \A s \in Slots : held[s] = NoJob <=> pc[s] = "idle"
  BY DEF IInv, TypeOK
<1>0a. \A s \in Slots : pc[s] \in Busy => held[s] \in Jobs /\ held[s] \in Leased
  BY <1>0 DEF Leased, Busy
<1>1. ASSUME NEW j \in Jobs, NEW files \in BOOLEAN, Enqueue(j, files) PROVE Goal
  <2>1. Contract!Submit(j)
    BY <1>1 DEF Enqueue, Contract!Submit, slotVars, historyVars, Leased
  <2> QED BY <2>1 DEF Contract!Next
<1>2. ASSUME NEW u \in Users, Purge(u) PROVE Goal
  <2>1. Contract!Delete(Jobs \ PurgeLeaves(u))
    BY <1>2 DEF Purge, PurgeLeaves, Contract!Delete, slotVars, historyVars, Leased
  <2> QED BY <2>1 DEF Contract!Next
<1>3. ASSUME NEW s \in Slots, NEW j \in Jobs, Lease(s, j) \/ LeaseLost(s, j) PROVE Goal
  <2>1. /\ pc[s] = "idle" /\ status[j] = "pending" /\ attempts[j] < MaxAttempts
        /\ LeaseRow(j) /\ UNCHANGED handled
    BY <1>3 DEF Lease, LeaseLost, Oldest, Leasable, historyVars
  <2>2. j \notin Leased
    BY <2>1, PendingNotLeased
  <2>3. Leased' = Leased \cup {j} \/ Leased' = Leased
    BY <1>3, <2>1, LeasedAfterPickup DEF Lease, LeaseLost, Goto, slotVars, Busy, Leased
  <2>4. status' = [status EXCEPT ![j] = "processing"] /\ attempts' = [attempts EXCEPT ![j] = attempts[j] + 1]
    BY <2>1 DEF LeaseRow
  <2>5. Contract!Lease(j)
    BY <2>1, <2>2, <2>3, <2>4 DEF Contract!Lease
  <2> QED BY <2>5 DEF Contract!Next
<1>4. ASSUME NEW s \in Slots, Extract(s) \/ WriteFacts(s) PROVE Goal
  <2>1. /\ pc[s] \in Busy /\ UNCHANGED <<status, attempts, held>>
        /\ \/ handled' = handled \cup {held[s]} /\ pc' = [pc EXCEPT ![s] = "complete"]
           \/ UNCHANGED handled /\ \E step \in {"write", "fail"} : pc' = [pc EXCEPT ![s] = step]
    BY <1>4 DEF Extract, Extracted, ExtractedNothing, ExtractThrew, WriteFacts, Goto, rowVars, Busy
  <2>2. Leased' = Leased
    BY <2>1, LeasedAfterMove DEF Busy, Steps
  <2>3. CASE UNCHANGED handled
    BY <2>1, <2>2, <2>3
  <2>4. CASE handled' = handled \cup {held[s]}
    <3>1. Contract!Answer(held[s])
      BY <1>0a, <2>1, <2>2, <2>4 DEF Contract!Answer
    <3> QED BY <1>0a, <2>1, <3>1 DEF Contract!Next
  <2> QED BY <2>1, <2>3, <2>4
<1>5. ASSUME NEW s \in Slots, WriteThrew(s) \/ CompleteRefused(s) \/ Hang(s) PROVE Goal
  <2>1. /\ pc[s] \in Busy /\ UNCHANGED <<status, attempts, held, handled>>
        /\ \E step \in {"fail", "hung"} : pc' = [pc EXCEPT ![s] = step]
    BY <1>5 DEF WriteThrew, CompleteRefused, Hang, Goto, rowVars, historyVars, Busy
  <2>2. Leased' = Leased
    BY <2>1, LeasedAfterMove DEF Busy, Steps
  <2> QED BY <2>1, <2>2
<1>6. ASSUME NEW s \in Slots, Complete(s) \/ CompleteLost(s) PROVE Goal
  <2>1. /\ pc[s] = "complete" /\ UNCHANGED <<attempts, held, handled>>
        /\ status' = [status EXCEPT ![held[s]] = IF @ = "deleted" THEN @ ELSE "done"]
        /\ \E step \in {"fail", "cleanup"} : pc' = [pc EXCEPT ![s] = step]
    BY <1>6 DEF Complete, CompleteLost, SetStatus, Goto, historyVars
  <2>2. Leased' \in {Leased \ {held[s]}, Leased}
    BY <2>1, LeasedAfterMove DEF Busy, Steps
  <2>3. held[s] \in Jobs /\ held[s] \in Leased \cap handled
    BY <1>0a, <2>1 DEF IInv, CompletesHandled, Busy
  <2>4. Contract!Settle(held[s])
    BY <2>1, <2>2, <2>3 DEF Contract!Settle, Contract!Become
  <2> QED BY <2>3, <2>4 DEF Contract!Next
<1>7. ASSUME NEW s \in Slots, Fail(s) PROVE Goal
  <2>1. /\ pc[s] = "fail" /\ pc[s] \in Busy /\ UNCHANGED <<attempts, held, handled>>
        /\ status' = [status EXCEPT ![held[s]] = IF @ = "deleted" THEN @ ELSE AfterFailure(held[s])]
        /\ pc' = [pc EXCEPT ![s] = "cleanup"]
    BY <1>7 DEF Fail, SetStatus, Goto, historyVars, Busy
  <2>2. Leased' = Leased \ {held[s]}
    BY <2>1, LeasedAfterMove DEF Busy, Steps
  <2>3. held[s] \in Jobs /\ held[s] \in Leased
    BY <1>0a, <2>1
  <2>4. AfterFailure(held[s]) = IF attempts[held[s]] < MaxAttempts THEN "pending" ELSE "failed"
    BY <1>0, <2>3, JobQueueConstants DEF AfterFailure
  <2>5. Contract!HandBack(held[s])
    BY <2>1, <2>2, <2>3, <2>4 DEF Contract!HandBack, Contract!Become
  <2> QED BY <2>3, <2>5 DEF Contract!Next
<1>8. ASSUME NEW s \in Slots, FailRefused(s) PROVE Goal
  <2>1. /\ pc[s] \in Busy /\ UNCHANGED <<status, attempts, held, handled>>
        /\ pc' = [pc EXCEPT ![s] = "cleanup"]
    BY <1>8 DEF FailRefused, Goto, rowVars, historyVars, Busy
  <2>2. Leased' = Leased \ {held[s]} /\ {held[s]} \in SUBSET Jobs
    BY <1>0a, <2>1, LeasedAfterMove DEF Busy, Steps
  <2>3. Contract!Abandon({held[s]})
    BY <2>1, <2>2 DEF Contract!Abandon
  <2> QED BY <2>2, <2>3 DEF Contract!Next
<1>9. ASSUME NEW s \in Slots, Cleanup(s) \/ CleanupFails(s) PROVE Goal
  <2>1. /\ pc[s] \notin Busy /\ UNCHANGED <<status, attempts, handled>>
        /\ held' = [held EXCEPT ![s] = NoJob] /\ pc' = [pc EXCEPT ![s] = "idle"]
    BY <1>9 DEF Cleanup, CleanupFails, Release, Goto, rowVars, historyVars, Busy
  <2> QED BY <2>1, LeasedAfterPickup
<1>10. CASE Crash
  <2>1. Leased' = {} /\ UNCHANGED <<status, attempts, handled>>
    BY <1>10 DEF Crash, rowVars, historyVars, Leased, Busy
  <2>2. Contract!Abandon(Jobs)
    BY <2>1 DEF Contract!Abandon, Leased
  <2> QED BY <2>2 DEF Contract!Next
<1>11. CASE UNCHANGED vars
  BY <1>11 DEF vars, Leased
<1> QED
  BY <1>1, <1>2, <1>3, <1>4, <1>5, <1>6, <1>7, <1>8, <1>9, <1>10, <1>11
  DEF Next, SlotStep, SlotFault, IdlePoll

\* The queue implements its contract (KeepsContract), for any number of jobs,
\* slots, attempts and faults.
THEOREM QueueKeepsContract == Spec => KeepsContract
<1>1. Init => Contract!Init
  BY DEF Init, Contract!Init, Leased, Busy
<1> QED
  BY <1>1, StepContract, InductiveInvariant, PTL DEF Spec, KeepsContract, Contract!Spec
=============================================================================

-------------------------- MODULE GmailIngestProofs --------------------------
(***************************************************************************)
(* Proofs about GmailIngest for any users, mailboxes, changes and          *)
(* failures: a message becomes one job at most, no attachment directory is *)
(* made for a message that has one, and nothing the user has not asked for *)
(* becomes a job.                                                          *)
(***************************************************************************)
EXTENDS GmailIngest, FiniteSetTheorems, SequenceTheorems, TLAPS

(* What is listed of a mailbox. *)

LEMMA MailOfIsFinite ==
    ASSUME MailTypeOK, NEW u
    PROVE  MailOf(u) \subseteq 1..Len(mail) /\ IsFiniteSet(MailOf(u))
<1>1. MailOf(u) \subseteq 1..Len(mail)
  BY DEF MailOf
<1>2. Len(mail) \in Nat
  BY LenProperties DEF MailTypeOK
<1>3. IsFiniteSet(1..Len(mail))
  BY <1>2, FS_Interval
<1> HIDE DEF MailOf
<1> QED BY <1>1, <1>3, FS_Subset

LEMMA InOrderIsSeq ==
    ASSUME NEW S, IsFiniteSet(S), NEW s \in InOrder(S) PROVE s \in Seq(S)
<1>1. Cardinality(S) \in Nat
  BY FS_CardinalityType
<1> QED BY <1>1 DEF InOrder

LEMMA NewestIsSeq ==
    ASSUME NEW S, NEW s \in Seq(S) PROVE Newest(s) \in Seq(S)
<1> DEFINE n == IF Len(s) < MaxPerTick THEN Len(s) ELSE MaxPerTick
<1>1. Len(s) \in Nat /\ s \in [1..Len(s) -> S] /\ MaxPerTick \in Nat
  BY LenProperties, IngestConstants
<1>2. n \in Nat /\ \A i \in 1..n : Len(s) + 1 - i \in 1..Len(s)
  BY <1>1
<1>3. [i \in 1..n |-> s[Len(s) + 1 - i]] \in [1..n -> S]
  BY <1>1, <1>2
<1>4. Newest(s) \in [1..n -> S]
  BY <1>3 DEF Newest
<1> HIDE DEF n
<1> QED BY <1>2, <1>4

\* The messages of a mailbox are numbered within the bound.
LEMMA MailOfIsMessages ==
    ASSUME MailTypeOK, NEW u PROVE MailOf(u) \subseteq Messages
<1>1. Len(mail) \in Nat /\ MailOf(u) \subseteq 1..Len(mail)
  BY LenProperties, MailOfIsFinite DEF MailTypeOK
<1> QED BY <1>1, IngestConstants DEF MailTypeOK, Messages

-----------------------------------------------------------------------------
(* The shape of the state. *)

LEMMA InitTypeOK == Init => TypeOK
<1> SUFFICES ASSUME Init PROVE TypeOK
  OBVIOUS
<1> USE IngestConstants DEF Init
<1>1. MailTypeOK
  BY EmptySeq DEF MailTypeOK
<1>2. AccountTypeOK
  BY DEF AccountTypeOK, AllModes
<1>3. JobTypeOK
  BY DEF JobTypeOK
<1>4. FetchTypeOK
  BY EmptySeq DEF FetchTypeOK
<1> QED BY <1>1, <1>2, <1>3, <1>4 DEF TypeOK

LEMMA OneMoreFault ==
    ASSUME faults \in 0..MaxFaults, faults < MaxFaults, faults' = faults + 1
    PROVE  faults' \in 0..MaxFaults
BY IngestConstants

LEMMA StepFaults == TypeOK /\ [Next]_vars => faults' \in 0..MaxFaults
<1> SUFFICES ASSUME TypeOK, [Next]_vars PROVE faults' \in 0..MaxFaults
  OBVIOUS
<1>1. faults \in 0..MaxFaults
  BY DEF TypeOK
<1>2. faults' = faults \/ (faults < MaxFaults /\ faults' = faults + 1)
  <2>1. ASSUME NEW m, Stage(m) PROVE faults' = faults \/ (faults < MaxFaults /\ faults' = faults + 1)
    BY <2>1 DEF Stage
  <2>2. CASE WorkerStep
    BY <2>1, <2>2 DEF WorkerStep, Tick, NextUser, List, Fetch, GetThread, FetchMate, Fetched,
       Insert, Inserted
  <2>3. CASE Throws \/ StageThrows \/ ReplyLost \/ Crash
    BY <2>3 DEF Throws, StageThrows, ReplyLost, Crash, Fault
  <2>4. CASE Outside \/ (\E m \in Messages : Handled(m)) \/ UNCHANGED vars
    BY <2>4 DEF Outside, Arrive, GrowOld, Connect, SetStatus, Purge, SetMode, Handled, workerVars, vars
  <2> QED BY <2>2, <2>3, <2>4 DEF Next
<1> QED BY <1>1, <1>2, OneMoreFault

LEMMA StepMailType == TypeOK /\ [Next]_vars => MailTypeOK'
<1> SUFFICES ASSUME TypeOK, [Next]_vars PROVE MailTypeOK'
  OBVIOUS
<1>1. mail \in Seq(Letters) /\ Len(mail) \in Nat /\ Len(mail) <= MaxMail /\ aged \in 0..Len(mail)
  BY LenProperties DEF TypeOK, MailTypeOK
<1>2. ASSUME NEW u \in Users, NEW t \in Threads, NEW k \in MailKinds, Arrive(u, t, k)
      PROVE  MailTypeOK'
  <2> DEFINE letter == [user |-> u, thread |-> t, sent |-> k.sent,
                        files |-> k.files, storable |-> k.storable]
  <2>1. letter \in Letters
    BY IngestConstants DEF Letters, Kinds
  <2>2. mail' = Append(mail, letter) /\ Len(mail) < MaxMail /\ aged' = aged
    BY <1>2 DEF Arrive
  <2> HIDE DEF letter
  <2>3. mail' \in Seq(Letters) /\ Len(mail') = Len(mail) + 1
    BY <1>1, <2>1, <2>2, AppendProperties
  <2> QED BY <1>1, <2>2, <2>3, IngestConstants DEF MailTypeOK
<1>3. CASE GrowOld
  BY <1>1, <1>3 DEF GrowOld, MailTypeOK
<1>4. ASSUME UNCHANGED <<mail, aged>> PROVE MailTypeOK'
  BY <1>1, <1>4 DEF MailTypeOK
<1>5. CASE WorkerStep
  BY <1>4, <1>5 DEF WorkerStep, Tick, NextUser, List, Fetch, GetThread, FetchMate, Fetched,
     Insert, Inserted
<1>6. CASE Throws \/ StageThrows \/ ReplyLost \/ Crash
  BY <1>4, <1>6 DEF Throws, StageThrows, ReplyLost, Crash, Fault
<1>7. ASSUME NEW u \in Users, Connect(u) \/ SetStatus(u) \/ Purge(u) \/ (\E to \in Modes : SetMode(u, to))
      PROVE  MailTypeOK'
  BY <1>4, <1>7 DEF Connect, SetStatus, Purge, SetMode
<1>8. CASE (\E m \in Messages : Handled(m)) \/ UNCHANGED vars
  BY <1>4, <1>8 DEF Handled, vars
<1> QED BY <1>2, <1>3, <1>5, <1>6, <1>7, <1>8 DEF Next, Outside

LEMMA StepAccountType == TypeOK /\ [Next]_vars => AccountTypeOK'
<1> SUFFICES ASSUME AccountTypeOK, [Next]_vars PROVE AccountTypeOK'
  BY DEF TypeOK
<1> USE DEF AccountTypeOK
<1>1. ASSUME NEW u \in Users, Connect(u) \/ SetStatus(u) \/ Purge(u) PROVE AccountTypeOK'
  BY <1>1 DEF Connect, SetStatus, Purge, accountVars
<1>2. ASSUME NEW u \in Users, NEW to \in Modes, SetMode(u, to) PROVE AccountTypeOK'
  BY <1>2, IngestConstants DEF SetMode
<1>3. ASSUME UNCHANGED accountVars PROVE AccountTypeOK'
  BY <1>3 DEF accountVars
<1>4. CASE WorkerStep
  BY <1>3, <1>4 DEF WorkerStep, Tick, NextUser, List, Fetch, GetThread, FetchMate, Fetched,
     Insert, Inserted
<1>5. CASE Throws \/ StageThrows \/ ReplyLost \/ Crash
  BY <1>3, <1>5 DEF Throws, StageThrows, ReplyLost, Crash, Fault
<1>6. CASE (\E u \in Users, t \in Threads, k \in MailKinds : Arrive(u, t, k)) \/ GrowOld
  BY <1>3, <1>6 DEF Arrive, GrowOld
<1>7. CASE (\E m \in Messages : Handled(m)) \/ UNCHANGED vars
  BY <1>3, <1>7 DEF Handled, vars
<1> QED BY <1>1, <1>2, <1>4, <1>5, <1>6, <1>7 DEF Next, Outside
\* A mailbox only grows.
LEMMA MailOfGrows ==
    ASSUME MailTypeOK, [Next]_vars, NEW u
    PROVE  MailOf(u) \subseteq MailOf(u)' /\ 1..Len(mail) \subseteq 1..Len(mail')
<1>1. mail \in Seq(Letters) /\ Len(mail) \in Nat
  BY LenProperties DEF MailTypeOK
<1>2. ASSUME NEW v \in Users, NEW t \in Threads, NEW k \in MailKinds, Arrive(v, t, k)
      PROVE  MailOf(u) \subseteq MailOf(u)' /\ 1..Len(mail) \subseteq 1..Len(mail')
  <2> DEFINE letter == [user |-> v, thread |-> t, sent |-> k.sent,
                        files |-> k.files, storable |-> k.storable]
  <2>1. letter \in Letters
    BY <1>2, IngestConstants DEF Letters, Kinds
  <2>2. mail' = Append(mail, letter)
    BY <1>2 DEF Arrive
  <2> HIDE DEF letter
  <2>3. Len(mail') = Len(mail) + 1 /\ \A m \in 1..Len(mail) : mail'[m] = mail[m]
    BY <1>1, <2>1, <2>2, AppendProperties
  <2> QED BY <1>1, <2>3 DEF MailOf
<1>3. ASSUME UNCHANGED mail
      PROVE  MailOf(u) \subseteq MailOf(u)' /\ 1..Len(mail) \subseteq 1..Len(mail')
  BY <1>3 DEF MailOf
<1>4. CASE WorkerStep
  BY <1>3, <1>4 DEF WorkerStep, Tick, NextUser, List, Fetch, GetThread, FetchMate, Fetched,
     Insert, Inserted
<1>5. CASE Throws \/ StageThrows \/ ReplyLost \/ Crash
  BY <1>3, <1>5 DEF Throws, StageThrows, ReplyLost, Crash, Fault
<1>6. ASSUME NEW v \in Users, Connect(v) \/ SetStatus(v) \/ Purge(v) \/ (\E to \in Modes : SetMode(v, to))
      PROVE  UNCHANGED mail
  BY <1>6 DEF Connect, SetStatus, Purge, SetMode
<1>7. CASE GrowOld \/ (\E m \in Messages : Handled(m)) \/ UNCHANGED vars
  BY <1>3, <1>7 DEF GrowOld, Handled, vars
<1> QED BY <1>2, <1>3, <1>4, <1>5, <1>6, <1>7 DEF Next, Outside

-----------------------------------------------------------------------------
(* Jobs and directories are of messages that have arrived. *)

\* What the worker has fetched or looks at is of the mailbox it is on.
LEMMA FetchedIsMail ==
    ASSUME TypeOK
    PROVE  /\ out # <<>> => /\ Head(out) \in [id : MailOf(row.user), named : BOOLEAN]
                            /\ Tail(out) \in Seq([id : MailOf(row.user), named : BOOLEAN])
           /\ list # <<>> => Head(list) \in MailOf(row.user) /\ Tail(list) \in Seq(MailOf(row.user))
           /\ mates # <<>> => Head(mates) \in MailOf(row.user) /\ Tail(mates) \in Seq(MailOf(row.user))
           /\ mates \o list \in Seq(MailOf(row.user))
           /\ mates \o list # <<>> => Head(mates \o list) \in MailOf(row.user)
<1> DEFINE H == MailOf(row.user)
<1>1. list \in Seq(H) /\ mates \in Seq(H) /\ out \in Seq([id : H, named : BOOLEAN])
  BY DEF TypeOK, FetchTypeOK
<1> HIDE DEF H
<1>2. mates \o list \in Seq(H)
  BY <1>1, ConcatProperties
<1>3. /\ list # <<>> => Head(list) \in H /\ Tail(list) \in Seq(H)
      /\ mates # <<>> => Head(mates) \in H /\ Tail(mates) \in Seq(H)
      /\ mates \o list # <<>> => Head(mates \o list) \in H
      /\ out # <<>> => /\ Head(out) \in [id : H, named : BOOLEAN]
                       /\ Tail(out) \in Seq([id : H, named : BOOLEAN])
  BY <1>1, <1>2, HeadTailProperties
<1> QED BY <1>2, <1>3 DEF H

LEMMA AddJobType ==
    ASSUME JobTypeOK, NEW j, j.id \in 1..Len(mail), AddJob(j), UNCHANGED <<mail, files>>
    PROVE  JobTypeOK'
<1>1. jobs' \in [Messages -> Nat]
  <2>1. jobs \in [Messages -> Nat] /\ jobs' = [jobs EXCEPT ![j.id] = jobs[j.id] + 1]
    BY DEF JobTypeOK, AddJob
  <2>2. ASSUME NEW m \in Messages PROVE jobs'[m] \in Nat
    <3>1. jobs[m] \in Nat
      BY <2>1
    <3>2. jobs'[m] = IF m = j.id THEN jobs[m] + 1 ELSE jobs[m]
      BY <2>1
    <3> QED BY <3>1, <3>2
  <2>3. jobs' = [m \in Messages |-> jobs'[m]]
    BY <2>1
  <2> QED BY <2>2, <2>3
<1>2. pending' \subseteq 1..Len(mail) /\ carries' \subseteq 1..Len(mail)
  BY DEF JobTypeOK, AddJob
<1> QED BY <1>1, <1>2 DEF JobTypeOK, Messages

LEMMA StageFiles ==
    ASSUME NEW m, Stage(m), files \subseteq 1..Len(mail), m \in 1..Len(mail)
    PROVE  files' \subseteq 1..Len(mail)
BY DEF Stage

LEMMA StepJobType == TypeOK /\ [Next]_vars => JobTypeOK'
<1> SUFFICES ASSUME TypeOK, [Next]_vars PROVE JobTypeOK'
  OBVIOUS
<1>1. JobTypeOK /\ MailTypeOK
  BY DEF TypeOK
<1>2. MailOf(row.user) \subseteq 1..Len(mail) /\ 1..Len(mail) \subseteq 1..Len(mail')
  BY <1>1, MailOfIsFinite, MailOfGrows
<1>3. ASSUME UNCHANGED jobVars, UNCHANGED files PROVE JobTypeOK'
  BY <1>1, <1>2, <1>3 DEF JobTypeOK, jobVars, Messages
<1>4. ASSUME UNCHANGED <<mail, jobVars>>, NEW m \in 1..Len(mail), Stage(m) PROVE JobTypeOK'
  BY <1>1, <1>4, StageFiles DEF JobTypeOK, jobVars, Messages
<1>5. CASE Fetch
  <2>1. CASE Skips(Head(list))
    BY <1>3, <1>5, <2>1 DEF Fetch
  <2>2. CASE ~Skips(Head(list))
    BY <1>2, <1>4, <1>5, <2>2, FetchedIsMail DEF Fetch
  <2> QED BY <2>1, <2>2
<1>6. CASE FetchMate
  <2>1. CASE Skips(Head(mates))
    BY <1>3, <1>6, <2>1 DEF FetchMate
  <2>2. CASE ~Skips(Head(mates))
    BY <1>2, <1>4, <1>6, <2>2, FetchedIsMail DEF FetchMate
  <2> QED BY <2>1, <2>2
<1>7. CASE Insert \/ ReplyLost
  <2>1. Head(out).id \in 1..Len(mail)
    BY <1>2, <1>7, FetchedIsMail DEF Insert, ReplyLost
  <2>2. UNCHANGED <<mail, files>> /\ (UNCHANGED jobVars \/ AddJob(Head(out)))
    BY <1>7 DEF Insert, ReplyLost, Fault
  <2> QED BY <1>1, <1>3, <2>1, <2>2, AddJobType
<1>8. CASE StageThrows
  <2>1. files' = files \cup {Head(mates \o list)} /\ Head(mates \o list) \in 1..Len(mail)
    BY <1>2, <1>8, FetchedIsMail DEF StageThrows
  <2>2. UNCHANGED <<mail, jobVars>>
    BY <1>8 DEF StageThrows, Fault
  <2> QED BY <1>1, <2>1, <2>2 DEF JobTypeOK, jobVars, Messages
<1>9. CASE Tick \/ NextUser \/ List \/ GetThread \/ Fetched \/ Inserted
  BY <1>3, <1>9 DEF Tick, NextUser, List, GetThread, Fetched, Inserted
<1>10. CASE Throws \/ Crash
  BY <1>3, <1>10 DEF Throws, Crash
<1>11. ASSUME NEW u \in Users, Purge(u) PROVE JobTypeOK'
  BY <1>1, <1>11 DEF JobTypeOK, Purge, Messages
<1>12. ASSUME NEW u \in Users,
              \/ Connect(u) \/ SetStatus(u) \/ (\E to \in Modes : SetMode(u, to))
              \/ \E t \in Threads, k \in MailKinds : Arrive(u, t, k)
       PROVE  JobTypeOK'
  BY <1>3, <1>12 DEF Connect, SetStatus, SetMode, Arrive
<1>13. ASSUME NEW m \in Messages, Handled(m) PROVE JobTypeOK'
  BY <1>1, <1>13 DEF JobTypeOK, Handled, Messages
<1>14. CASE GrowOld \/ UNCHANGED vars
  BY <1>3, <1>14 DEF GrowOld, vars
<1> QED BY <1>5, <1>6, <1>7, <1>8, <1>9, <1>10, <1>11, <1>12, <1>13, <1>14
        DEF Next, WorkerStep, Outside
-----------------------------------------------------------------------------
(* The worker holds messages of the mailbox it is on. *)

LEMMA LeftUser ==
    ASSUME FetchTypeOK, LeaveUser, UNCHANGED queue PROVE FetchTypeOK'
<1>1. <<>> \in Seq(MailOf(row.user)') /\ <<>> \in Seq([id : MailOf(row.user)', named : BOOLEAN])
  BY EmptySeq
<1> QED BY <1>1 DEF FetchTypeOK, LeaveUser

LEMMA FetchKept ==
    ASSUME TypeOK, [Next]_vars, UNCHANGED <<pc, queue, fetchVars>> PROVE FetchTypeOK'
<1>1. MailOf(row.user) \subseteq MailOf(row.user)'
  <2>1. \A u : MailOf(u) \subseteq MailOf(u)'
    BY MailOfGrows DEF TypeOK
  <2>2. row' = row
    BY DEF fetchVars
  <2> QED BY <2>1, <2>2 DEF MailOf
<1>2. UNCHANGED <<pc, queue, row, list, mates, seen, out>>
  BY DEF fetchVars
<1>3. list \in Seq(MailOf(row.user)') /\ mates \in Seq(MailOf(row.user)')
  BY <1>1, SeqMonotonic DEF TypeOK, FetchTypeOK
<1>4. [id : MailOf(row.user), named : BOOLEAN] \subseteq [id : MailOf(row.user)', named : BOOLEAN]
  BY <1>1
<1>5. out \in Seq([id : MailOf(row.user)', named : BOOLEAN])
  <2>1. out \in Seq([id : MailOf(row.user), named : BOOLEAN])
    BY DEF TypeOK, FetchTypeOK
  <2> QED BY <1>4, <2>1, SeqMonotonic
<1> QED BY <1>1, <1>2, <1>3, <1>5 DEF TypeOK, FetchTypeOK

LEMMA LastInSeq == ASSUME NEW S, NEW s \in Seq(S), s # <<>> PROVE s[Len(s)] \in S
<1>1. Len(s) \in Nat /\ Len(s) # 0 /\ s \in [1..Len(s) -> S]
  BY LenProperties, EmptySeq
<1> QED BY <1>1

LEMMA StageOut ==
    ASSUME NEW H, NEW m \in H, out \in Seq([id : H, named : BOOLEAN]), Stage(m)
    PROVE  out' \in Seq([id : H, named : BOOLEAN]) /\ out' # <<>>
<1>1. PICK b \in BOOLEAN : out' = Append(out, [id |-> m, named |-> b])
  BY DEF Stage
<1>2. [id |-> m, named |-> b] \in [id : H, named : BOOLEAN]
  OBVIOUS
<1>3. out' \in Seq([id : H, named : BOOLEAN]) /\ Len(out') = Len(out) + 1 /\ Len(out) \in Nat
  BY <1>1, <1>2, AppendProperties, LenProperties
<1> QED BY <1>3, EmptySeq

LEMMA StepFetchType == TypeOK /\ [Next]_vars => FetchTypeOK'
<1> SUFFICES ASSUME TypeOK, [Next]_vars PROVE FetchTypeOK'
  OBVIOUS
<1>1. FetchTypeOK /\ MailTypeOK
  BY DEF TypeOK
<1>2. CASE Tick
  <2>2. queue' \subseteq Rows
    BY <1>2 DEF Tick, Connected, Rows, TypeOK, AccountTypeOK
  <2>3. UNCHANGED <<mail, row, list, mates, seen, out>> /\ pc = "idle" /\ pc' = "users"
    BY <1>2 DEF Tick, fetchVars
  <2> QED BY <1>1, <2>2, <2>3 DEF FetchTypeOK, MailOf
<1>3. CASE NextUser
  <2>1. CASE queue = {}
    BY <1>1, <1>3, <2>1 DEF NextUser, FetchTypeOK, MailOf
  <2>2. CASE queue # {}
    <3>1. PICK r \in queue : row' = r /\ queue' = queue \ {r} /\ pc' = "list"
      BY <1>3, <2>2 DEF NextUser
    <3>2. /\ UNCHANGED <<mail, list, mates, seen, out>>
          /\ list = <<>> /\ mates = <<>> /\ seen = {} /\ out = <<>>
      BY <1>1, <1>3 DEF NextUser, FetchTypeOK
    <3>3. <<>> \in Seq(MailOf(row.user)') /\ <<>> \in Seq([id : MailOf(row.user)', named : BOOLEAN])
      BY EmptySeq
    <3> QED BY <1>1, <3>1, <3>2, <3>3 DEF FetchTypeOK, Rows, NoRow
  <2> QED BY <2>1, <2>2
<1>4. CASE List
  <2> DEFINE found == {m \in MailOf(row.user) : m > aged /\ Matches(row, m)}
  <2>1. PICK s \in InOrder(found) : list' = Newest(s)
    BY <1>4 DEF List
  <2>2. IsFiniteSet(found) /\ found \subseteq MailOf(row.user)
    BY <1>1, MailOfIsFinite, FS_Subset
  <2> HIDE DEF found
  <2>3. list' \in Seq(MailOf(row.user))
    BY <2>1, <2>2, InOrderIsSeq, NewestIsSeq, SeqMonotonic
  <2>4. UNCHANGED <<mail, queue, row, mates, seen, out>> /\ pc = "list" /\ pc' = "fetch"
    BY <1>4 DEF List
  <2>5. MailOf(row.user)' = MailOf(row.user)
    BY <2>4 DEF MailOf
  <2> QED BY <1>1, <2>3, <2>4, <2>5 DEF FetchTypeOK
<1>5. CASE Fetch
  <2>1. /\ UNCHANGED <<mail, queue, row, mates>> /\ pc = "fetch" /\ pc' \in {"fetch", "thread"}
        /\ list' = Tail(list) /\ seen' = seen \cup {Head(list)} /\ list # <<>>
        /\ UNCHANGED <<out, pc>> \/ Stage(Head(list))
    BY <1>5 DEF Fetch
  <2>2. Head(list) \in MailOf(row.user) /\ list' \in Seq(MailOf(row.user))
    BY <2>1, FetchedIsMail
  <2>3. out' \in Seq([id : MailOf(row.user), named : BOOLEAN]) /\ (pc' = "thread" => out' # <<>>)
    BY <1>1, <2>1, <2>2, StageOut DEF FetchTypeOK
  <2>4. MailOf(row.user)' = MailOf(row.user)
    BY <2>1 DEF MailOf
  <2> QED BY <1>1, <2>1, <2>2, <2>3, <2>4 DEF FetchTypeOK
<1>6. CASE FetchMate
  <2>1. /\ UNCHANGED <<mail, queue, row, list, pc>> /\ pc = "fetch"
        /\ mates' = Tail(mates) /\ seen' = seen \cup {Head(mates)} /\ mates # <<>>
        /\ UNCHANGED out \/ Stage(Head(mates))
    BY <1>6 DEF FetchMate
  <2>2. Head(mates) \in MailOf(row.user) /\ mates' \in Seq(MailOf(row.user))
    BY <2>1, FetchedIsMail
  <2>3. out' \in Seq([id : MailOf(row.user), named : BOOLEAN])
    BY <1>1, <2>1, <2>2, StageOut DEF FetchTypeOK
  <2>4. MailOf(row.user)' = MailOf(row.user)
    BY <2>1 DEF MailOf
  <2> QED BY <1>1, <2>1, <2>2, <2>3, <2>4 DEF FetchTypeOK
<1>7. CASE GetThread
  <2> DEFINE found == {m \in MailOf(row.user) : mail[m].thread = mail[out[Len(out)].id].thread}
  <2>1. mates' \in InOrder(found)
    BY <1>7 DEF GetThread
  <2>2. IsFiniteSet(found) /\ found \subseteq MailOf(row.user)
    BY <1>1, MailOfIsFinite, FS_Subset
  <2> HIDE DEF found
  <2>3. mates' \in Seq(MailOf(row.user))
    BY <2>1, <2>2, InOrderIsSeq, SeqMonotonic
  <2>4. UNCHANGED <<mail, queue, row, list, seen, out>> /\ pc = "thread" /\ pc' = "fetch"
    BY <1>7 DEF GetThread
  <2>5. MailOf(row.user)' = MailOf(row.user)
    BY <2>4 DEF MailOf
  <2> QED BY <1>1, <2>3, <2>4, <2>5 DEF FetchTypeOK
<1>8. CASE Fetched
  BY <1>1, <1>8 DEF Fetched, fetchVars, FetchTypeOK, MailOf
<1>9. CASE Insert
  <2>1. CASE LeaveUser
    BY <1>1, <1>9, <2>1, LeftUser DEF Insert
  <2>2. CASE out' = Tail(out) /\ UNCHANGED <<pc, row, list, mates, seen>>
    <3>1. out' \in Seq([id : MailOf(row.user), named : BOOLEAN])
      BY <1>9, <2>2, FetchedIsMail DEF Insert
    <3>2. UNCHANGED <<mail, queue>> /\ pc = "insert"
      BY <1>9 DEF Insert
    <3>3. MailOf(row.user)' = MailOf(row.user)
      BY <2>2, <3>2 DEF MailOf
    <3> QED BY <1>1, <2>2, <3>1, <3>2, <3>3 DEF FetchTypeOK
  <2> QED BY <1>9, <2>1, <2>2 DEF Insert
<1>10. CASE Inserted \/ Throws \/ StageThrows \/ ReplyLost
  BY <1>1, <1>10, LeftUser DEF Inserted, Throws, StageThrows, ReplyLost
<1>11. CASE Crash
  BY <1>1, <1>11, EmptySeq DEF Crash, FetchTypeOK
<1>12. CASE Outside
  BY <1>12, FetchKept DEF Outside, Arrive, GrowOld, Connect, SetStatus, Purge, SetMode, workerVars
<1>13. CASE (\E m \in Messages : Handled(m)) \/ UNCHANGED vars
  BY <1>13, FetchKept DEF Handled, workerVars, vars
<1> QED BY <1>2, <1>3, <1>4, <1>5, <1>6, <1>7, <1>8, <1>9, <1>10, <1>11, <1>12, <1>13
        DEF Next, WorkerStep

LEMMA StepTypeOK == TypeOK /\ [Next]_vars => TypeOK'
BY StepMailType, StepAccountType, StepJobType, StepFetchType, StepFaults DEF TypeOK

LEMMA AlwaysTypeOK == Spec => []TypeOK
<1> QED BY InitTypeOK, StepTypeOK, PTL DEF Spec

-----------------------------------------------------------------------------
(* One job for a message. *)

LEMMA AddedOnce ==
    ASSUME JobTypeOK, EnqueuedOnce, NEW j, AddJob(j), ~Processed(j.id) PROVE EnqueuedOnce'
<1>1. jobs' = [jobs EXCEPT ![j.id] = jobs[j.id] + 1] /\ jobs \in [Messages -> Nat]
  BY DEF JobTypeOK, AddJob
<1> SUFFICES ASSUME NEW m \in Messages PROVE jobs'[m] <= 1
  BY DEF EnqueuedOnce, Messages
<1>2. CASE m = j.id
  BY <1>1, <1>2 DEF Processed
<1>3. CASE m # j.id
  BY <1>1, <1>3 DEF EnqueuedOnce
<1> QED BY <1>2, <1>3

LEMMA StepEnqueuedOnce == TypeOK /\ EnqueuedOnce /\ [Next]_vars => EnqueuedOnce'
<1> SUFFICES ASSUME JobTypeOK, EnqueuedOnce, [Next]_vars PROVE EnqueuedOnce'
  BY DEF TypeOK
<1>1. CASE UNCHANGED jobVars
  BY <1>1 DEF EnqueuedOnce, jobVars, Messages
<1>2. CASE Insert \/ ReplyLost
  <2>1. UNCHANGED jobVars \/ (AddJob(Head(out)) /\ ~Processed(Head(out).id))
    BY <1>2 DEF Insert, ReplyLost
  <2> QED BY <1>1, <2>1, AddedOnce
<1>3. ASSUME NEW u \in Users, Purge(u) PROVE EnqueuedOnce'
  BY <1>3 DEF EnqueuedOnce, Purge, Messages, JobTypeOK
<1>4. ASSUME NEW m \in Messages, Handled(m) PROVE EnqueuedOnce'
  BY <1>4 DEF EnqueuedOnce, Handled, Messages
<1>5. CASE WorkerStep /\ ~Insert
  BY <1>1, <1>5 DEF WorkerStep, Tick, NextUser, List, Fetch, GetThread, FetchMate, Fetched, Inserted
<1>6. CASE Throws \/ StageThrows \/ Crash
  BY <1>1, <1>6 DEF Throws, StageThrows, Crash
<1>7. ASSUME NEW u \in Users,
             \/ Connect(u) \/ SetStatus(u) \/ (\E to \in Modes : SetMode(u, to))
             \/ \E t \in Threads, k \in MailKinds : Arrive(u, t, k)
      PROVE  EnqueuedOnce'
  BY <1>1, <1>7 DEF Connect, SetStatus, SetMode, Arrive
<1>8. CASE GrowOld \/ UNCHANGED vars
  BY <1>1, <1>8 DEF GrowOld, vars
<1> QED BY <1>2, <1>3, <1>4, <1>5, <1>6, <1>7, <1>8 DEF Next, Outside

-----------------------------------------------------------------------------
(* What is not asked for is not ingested. *)

\* A message that may become a job: InboxOnlyWhenAsked says that only these do.
Wanted(m) ==
    LET u == mail[m].user IN
    \/ u \in widened
    \/ \E s \in MailOf(u) : mail[s].sent /\ mail[s].thread = mail[m].thread

WantedMail == {m \in 1..Len(mail) : Wanted(m)}

\* Whoever is polled in a widening mode has been put in one.
Consented(u, mo) == mo \in Widening => u \in widened

ModesConsented ==
    /\ \A u \in Users : Consented(u, mode[u])
    /\ \A r \in queue : Consented(r.user, r.mode)
    /\ Consented(row.user, row.mode)

Listed == {m \in MailOf(row.user) : Matches(row, m)}

\* Whatever the worker holds is wanted; what brings its thread along was sent.
HeldIsWanted ==
    /\ list \in Seq(Listed)
    /\ mates \in Seq(WantedMail)
    /\ out \in Seq([id : WantedMail, named : BOOLEAN])
    /\ pc = "thread" => mail[out[Len(out)].id].sent

JobsAreWanted == \A m \in Messages : jobs[m] > 0 => m \in WantedMail

LEMMA MailEntriesKept ==
    ASSUME MailTypeOK, [Next]_vars
    PROVE  Len(mail) <= Len(mail') /\ \A m \in 1..Len(mail) : mail'[m] = mail[m]
<1>1. mail \in Seq(Letters) /\ Len(mail) \in Nat
  BY LenProperties DEF MailTypeOK
<1>2. ASSUME NEW v \in Users, NEW t \in Threads, NEW k \in MailKinds, Arrive(v, t, k)
      PROVE  Len(mail) <= Len(mail') /\ \A m \in 1..Len(mail) : mail'[m] = mail[m]
  <2> DEFINE letter == [user |-> v, thread |-> t, sent |-> k.sent,
                        files |-> k.files, storable |-> k.storable]
  <2>1. letter \in Letters
    BY <1>2, IngestConstants DEF Letters, Kinds
  <2>2. mail' = Append(mail, letter)
    BY <1>2 DEF Arrive
  <2> HIDE DEF letter
  <2> QED BY <1>1, <2>1, <2>2, AppendProperties
<1>3. CASE WorkerStep
  BY <1>1, <1>3 DEF WorkerStep, Tick, NextUser, List, Fetch, GetThread, FetchMate, Fetched,
     Insert, Inserted
<1>4. CASE Throws \/ StageThrows \/ ReplyLost \/ Crash
  BY <1>1, <1>4 DEF Throws, StageThrows, ReplyLost, Crash, Fault
<1>5. ASSUME NEW v \in Users, Connect(v) \/ SetStatus(v) \/ Purge(v) \/ (\E to \in Modes : SetMode(v, to))
      PROVE  UNCHANGED mail
  BY <1>5 DEF Connect, SetStatus, Purge, SetMode
<1>6. CASE GrowOld \/ (\E m \in Messages : Handled(m)) \/ UNCHANGED vars
  BY <1>1, <1>6 DEF GrowOld, Handled, vars
<1> QED BY <1>1, <1>2, <1>3, <1>4, <1>5, <1>6 DEF Next, Outside

\* A widening mode once set is never taken back, in this history variable.
LEMMA WidenedGrows == [Next]_vars => widened \subseteq widened'
<1> SUFFICES ASSUME [Next]_vars PROVE widened \subseteq widened'
  OBVIOUS
<1>1. CASE WorkerStep
  BY <1>1 DEF WorkerStep, Tick, NextUser, List, Fetch, GetThread, FetchMate, Fetched,
     Insert, Inserted, accountVars
<1>2. CASE Throws \/ StageThrows \/ ReplyLost \/ Crash
  BY <1>2 DEF Throws, StageThrows, ReplyLost, Crash, Fault, accountVars
<1>3. CASE Outside
  BY <1>3 DEF Outside, Arrive, GrowOld, Connect, SetStatus, Purge, SetMode, accountVars
<1>4. CASE (\E m \in Messages : Handled(m)) \/ UNCHANGED vars
  BY <1>4 DEF Handled, vars, accountVars
<1> QED BY <1>1, <1>2, <1>3, <1>4 DEF Next

LEMMA WantedGrows ==
    ASSUME MailTypeOK, [Next]_vars PROVE WantedMail \subseteq WantedMail'
<1> SUFFICES ASSUME NEW m \in 1..Len(mail), Wanted(m) PROVE m \in 1..Len(mail') /\ Wanted(m)'
  BY DEF WantedMail
<1>1. /\ mail \in Seq(Letters) /\ Len(mail) \in Nat
      /\ \A k \in 1..Len(mail) : k \in 1..Len(mail') /\ mail'[k] = mail[k]
  BY MailEntriesKept, MailOfGrows, LenProperties DEF MailTypeOK
<1>2. \A u : MailOf(u) \subseteq MailOf(u)' /\ MailOf(u) \subseteq 1..Len(mail)
  BY MailOfGrows DEF MailOf
<1>3. widened \subseteq widened'
  BY WidenedGrows
<1>4. CASE mail[m].user \in widened
  BY <1>1, <1>3, <1>4 DEF Wanted
<1>5. ASSUME NEW s \in MailOf(mail[m].user), mail[s].sent, mail[s].thread = mail[m].thread
      PROVE  Wanted(m)'
  <2>1. s \in MailOf(mail[m].user)' /\ mail'[s] = mail[s] /\ mail'[m] = mail[m]
    BY <1>1, <1>2, <1>5
  <2>2. s \in {k \in 1..Len(mail') : mail'[k].user = mail'[m].user}
    BY <1>1, <1>5 DEF MailOf
  <2> QED BY <1>5, <2>1, <2>2 DEF Wanted, MailOf
<1> QED BY <1>1, <1>4, <1>5 DEF Wanted

LEMMA StepModesConsented ==
    ASSUME TypeOK, ModesConsented, [Next]_vars PROVE ModesConsented'
<1> USE DEF ModesConsented, Consented
<1>1. widened \subseteq widened'
  BY WidenedGrows
<1>2. mode \in [Users -> AllModes]
  BY DEF TypeOK, AccountTypeOK
<1>3. ASSUME mode' = mode, queue' \subseteq queue, row' = row \/ row' = NoRow PROVE ModesConsented'
  BY <1>1, <1>3 DEF NoRow, Widening
<1>4. CASE Tick
  BY <1>1, <1>4 DEF Tick, Connected, accountVars, fetchVars, TypeOK, AccountTypeOK
<1>5. CASE NextUser
  BY <1>1, <1>5 DEF NextUser, accountVars
<1>6. CASE WorkerStep /\ ~Tick /\ ~NextUser
  <2>1. mode' = mode /\ queue' \subseteq queue /\ (row' = row \/ row' = NoRow)
    BY <1>6 DEF WorkerStep, List, Fetch, GetThread, FetchMate, Fetched, Insert, Inserted, LeaveUser,
       accountVars, fetchVars
  <2> QED BY <1>3, <2>1
<1>7. CASE Throws \/ StageThrows \/ ReplyLost \/ Crash
  <2>1. mode' = mode /\ queue' \subseteq queue /\ (row' = row \/ row' = NoRow)
    BY <1>7 DEF Throws, StageThrows, ReplyLost, Crash, Fault, LeaveUser, accountVars
  <2> QED BY <1>3, <2>1
<1>8. ASSUME NEW u \in Users, NEW to \in Modes, SetMode(u, to) PROVE ModesConsented'
  <2>1. /\ mode' = [mode EXCEPT ![u] = to] /\ queue' = queue /\ row' = row
        /\ to \in Widening => u \in widened'
    BY <1>8 DEF SetMode, workerVars, fetchVars
  <2> QED BY <1>1, <1>2, <2>1
<1>9. ASSUME NEW u \in Users,
             \/ Connect(u) \/ SetStatus(u) \/ Purge(u)
             \/ \E t \in Threads, k \in MailKinds : Arrive(u, t, k)
      PROVE  ModesConsented'
  BY <1>3, <1>9 DEF Connect, SetStatus, Purge, Arrive, accountVars, workerVars, fetchVars
<1>10. CASE GrowOld \/ (\E m \in Messages : Handled(m)) \/ UNCHANGED vars
  BY <1>3, <1>10 DEF GrowOld, Handled, vars, accountVars, workerVars, fetchVars
<1> QED BY <1>4, <1>5, <1>6, <1>7, <1>8, <1>9, <1>10 DEF Next, Outside

\* What a query lists is wanted.
LEMMA ListedIsWanted == ASSUME TypeOK, ModesConsented PROVE Listed \subseteq WantedMail
<1> SUFFICES ASSUME NEW m \in MailOf(row.user), Matches(row, m) PROVE m \in WantedMail
  BY DEF Listed
<1>1. m \in 1..Len(mail) /\ mail[m].user = row.user
  BY DEF MailOf
<1>2. CASE row.mode \in Widening
  BY <1>1, <1>2 DEF ModesConsented, Consented, WantedMail, Wanted
<1>3. CASE row.mode \notin Widening
  BY <1>1, <1>3 DEF WantedMail, Wanted, Matches
<1> QED BY <1>2, <1>3

\* The next message of a list, of a thread or of what was fetched is wanted.
LEMMA HeldHead ==
    ASSUME TypeOK, ModesConsented, HeldIsWanted
    PROVE  /\ list # <<>> => Head(list) \in Listed /\ Tail(list) \in Seq(Listed)
           /\ mates # <<>> => Head(mates) \in WantedMail /\ Tail(mates) \in Seq(WantedMail)
           /\ out # <<>> => /\ Head(out).id \in WantedMail
                            /\ Tail(out) \in Seq([id : WantedMail, named : BOOLEAN])
           /\ Listed \subseteq WantedMail
<1> DEFINE Kept == [id : WantedMail, named : BOOLEAN]
<1>1. list \in Seq(Listed) /\ mates \in Seq(WantedMail) /\ out \in Seq(Kept)
  BY DEF HeldIsWanted
<1>2. \A j \in Kept : j.id \in WantedMail
  OBVIOUS
<1> HIDE DEF Kept
<1>3. /\ list # <<>> => Head(list) \in Listed /\ Tail(list) \in Seq(Listed)
      /\ mates # <<>> => Head(mates) \in WantedMail /\ Tail(mates) \in Seq(WantedMail)
      /\ out # <<>> => Head(out) \in Kept /\ Tail(out) \in Seq(Kept)
  BY <1>1, HeadTailProperties
<1> QED BY <1>2, <1>3, ListedIsWanted DEF Kept

\* A held sequence stays so while the mailbox grows.
LEMMA HeldKept ==
    ASSUME TypeOK, [Next]_vars, row' = row
    PROVE  /\ Listed \subseteq Listed'
           /\ \A s : /\ s \in Seq(Listed) => s \in Seq(Listed')
                     /\ s \in Seq(WantedMail) => s \in Seq(WantedMail')
                     /\ s \in Seq([id : WantedMail, named : BOOLEAN]) =>
                           s \in Seq([id : WantedMail', named : BOOLEAN])
<1>1. WantedMail \subseteq WantedMail'
  BY WantedGrows DEF TypeOK
<1>2. Listed \subseteq Listed'
  <2> SUFFICES ASSUME NEW m \in MailOf(row.user), Matches(row, m)
               PROVE  m \in MailOf(row.user)' /\ Matches(row, m)'
    BY DEF Listed
  <2>1. m \in 1..Len(mail) /\ m \in 1..Len(mail') /\ mail'[m] = mail[m]
    BY MailEntriesKept, MailOfGrows DEF MailOf, TypeOK
  <2>2. m \in MailOf(row.user)'
    BY <2>1 DEF MailOf
  <2> QED BY <2>1, <2>2 DEF Matches
<1>3. [id : WantedMail, named : BOOLEAN] \subseteq [id : WantedMail', named : BOOLEAN]
  BY <1>1
<1> QED BY <1>1, <1>2, <1>3, SeqMonotonic

\* A step that takes nothing new into memory.
LEMMA NothingNew ==
    ASSUME TypeOK, HeldIsWanted, [Next]_vars, row' = row,
           list' = list, mates' = mates, out' = out, pc' = "thread" => pc = "thread"
    PROVE  HeldIsWanted'
<1>1. list' \in Seq(Listed') /\ mates' \in Seq(WantedMail') /\ out' \in Seq([id : WantedMail', named : BOOLEAN])
  BY HeldKept DEF HeldIsWanted
<1>2. ASSUME pc' = "thread" PROVE mail'[out'[Len(out')].id].sent
  <2>1. pc = "thread" /\ mail[out[Len(out)].id].sent
    BY <1>2 DEF HeldIsWanted
  <2>2. out \in Seq([id : MailOf(row.user), named : BOOLEAN]) /\ out # <<>>
    BY <2>1 DEF TypeOK, FetchTypeOK
  <2>3. out[Len(out)] \in [id : MailOf(row.user), named : BOOLEAN]
    BY <2>2, LastInSeq
  <2>4. out[Len(out)].id \in 1..Len(mail)
    BY <2>3 DEF MailOf
  <2> QED BY <2>1, <2>4, MailEntriesKept DEF TypeOK
<1> QED BY <1>1, <1>2 DEF HeldIsWanted

\* Between two users nothing is held.
LEMMA NothingHeld ==
    ASSUME list' = <<>>, mates' = <<>>, out' = <<>>, pc' # "thread" PROVE HeldIsWanted'
BY EmptySeq DEF HeldIsWanted

\* A wanted message that is staged is fetched last.
LEMMA StagedLast ==
    ASSUME NEW S, NEW m \in S, out \in Seq([id : S, named : BOOLEAN]), Stage(m)
    PROVE  out' \in Seq([id : S, named : BOOLEAN]) /\ out'[Len(out')].id = m
<1>1. PICK b \in BOOLEAN : out' = Append(out, [id |-> m, named |-> b])
  BY DEF Stage
<1> DEFINE j == [id |-> m, named |-> b]
<1>2. j \in [id : S, named : BOOLEAN] /\ j.id = m
  OBVIOUS
<1> HIDE DEF j
<1>3. out' = Append(out, j)
  BY <1>1 DEF j
<1> QED BY <1>2, <1>3, AppendProperties

LEMMA StepHeldIsWanted ==
    ASSUME TypeOK, ModesConsented, HeldIsWanted, [Next]_vars PROVE HeldIsWanted'
<1>1. CASE Tick \/ Fetched
  BY <1>1, NothingNew DEF Tick, Fetched, fetchVars
<1>2. CASE NextUser
  <2>1. list' = <<>> /\ mates' = <<>> /\ out' = <<>>
    BY <1>2 DEF NextUser, TypeOK, FetchTypeOK
  <2> QED BY <1>2, <2>1, NothingHeld DEF NextUser
<1>3. CASE List
  <2> DEFINE found == {m \in MailOf(row.user) : m > aged /\ Matches(row, m)}
  <2>1. PICK s \in InOrder(found) : list' = Newest(s)
    BY <1>3 DEF List
  <2>2. IsFiniteSet(found) /\ found \subseteq Listed
    BY MailOfIsFinite, FS_Subset DEF TypeOK, Listed
  <2> HIDE DEF found
  <2>3. list' \in Seq(Listed)
    BY <2>1, <2>2, InOrderIsSeq, NewestIsSeq, SeqMonotonic
  <2>4. UNCHANGED <<row, mates, out>> /\ pc' = "fetch"
    BY <1>3 DEF List
  <2> QED BY <2>3, <2>4, HeldKept DEF HeldIsWanted
<1>4. CASE Fetch
  <2> DEFINE m == Head(list)
  <2>1. /\ UNCHANGED <<mail, row, mates>> /\ list' = Tail(list) /\ list # <<>> /\ pc = "fetch"
        /\ \/ out' = out /\ pc' = pc
           \/ Stage(m) /\ (pc' = pc \/ (pc' = "thread" /\ row.mode = "sent_plus_threads"))
    BY <1>4 DEF Fetch
  <2>2. m \in Listed /\ m \in WantedMail /\ list' \in Seq(Listed) /\ mates' \in Seq(WantedMail)
    BY <2>1, HeldHead DEF HeldIsWanted
  <2> HIDE DEF m
  <2>3. /\ out' \in Seq([id : WantedMail, named : BOOLEAN])
        /\ pc' = "thread" => out'[Len(out')].id = m /\ row.mode = "sent_plus_threads"
    BY <2>1, <2>2, StagedLast DEF HeldIsWanted
  <2>4. pc' = "thread" => mail'[out'[Len(out')].id].sent
    BY <2>1, <2>2, <2>3 DEF Listed, Matches, Widening
  <2> QED BY <2>1, <2>2, <2>3, <2>4, HeldKept DEF HeldIsWanted
<1>5. CASE FetchMate
  <2> DEFINE m == Head(mates)
  <2>1. /\ UNCHANGED <<row, list, pc>> /\ mates' = Tail(mates) /\ mates # <<>> /\ pc = "fetch"
        /\ out' = out \/ Stage(m)
    BY <1>5 DEF FetchMate
  <2>2. m \in WantedMail /\ mates' \in Seq(WantedMail) /\ list' \in Seq(Listed)
    BY <2>1, HeldHead DEF HeldIsWanted
  <2> HIDE DEF m
  <2>3. out' \in Seq([id : WantedMail, named : BOOLEAN])
    BY <2>1, <2>2, StagedLast DEF HeldIsWanted
  <2> QED BY <2>1, <2>2, <2>3, HeldKept DEF HeldIsWanted
<1>6. CASE GetThread
  <2> DEFINE o == out[Len(out)].id
             found == {m \in MailOf(row.user) : mail[m].thread = mail[o].thread}
  <2>1. mates' \in InOrder(found) /\ UNCHANGED <<row, list, out>> /\ pc = "thread" /\ pc' = "fetch"
    BY <1>6 DEF GetThread
  <2>2. o \in MailOf(row.user) /\ mail[o].sent
    <3>1. out \in Seq([id : MailOf(row.user), named : BOOLEAN]) /\ out # <<>>
      BY <2>1 DEF TypeOK, FetchTypeOK
    <3>2. out[Len(out)] \in [id : MailOf(row.user), named : BOOLEAN]
      BY <3>1, LastInSeq
    <3> QED BY <2>1, <3>2 DEF HeldIsWanted
  <2>3. IsFiniteSet(found)
    BY MailOfIsFinite, FS_Subset DEF TypeOK
  <2>4. found \subseteq WantedMail
    <3> HIDE DEF o
    <3> QED BY <2>2 DEF MailOf, WantedMail, Wanted
  <2> HIDE DEF found
  <2>5. mates' \in Seq(WantedMail)
    BY <2>1, <2>3, <2>4, InOrderIsSeq, SeqMonotonic
  <2> QED BY <2>1, <2>5, HeldKept DEF HeldIsWanted
<1>7. CASE Insert
  <2>1. CASE LeaveUser
    BY <2>1, NothingHeld DEF LeaveUser
  <2>2. CASE out' = Tail(out) /\ UNCHANGED <<pc, row, list, mates, seen>>
    <3>1. out' \in Seq([id : WantedMail, named : BOOLEAN]) /\ pc' = "insert"
      BY <1>7, <2>2, HeldHead DEF Insert
    <3> QED BY <2>2, <3>1, HeldKept DEF HeldIsWanted
  <2> QED BY <1>7, <2>1, <2>2 DEF Insert
<1>8. CASE Inserted \/ Throws \/ StageThrows \/ ReplyLost \/ Crash
  BY <1>8, NothingHeld DEF Inserted, Throws, StageThrows, ReplyLost, Crash, LeaveUser
<1>9. CASE Outside
  BY <1>9, NothingNew DEF Outside, Arrive, GrowOld, Connect, SetStatus, Purge, SetMode,
     workerVars, fetchVars
<1>10. CASE (\E m \in Messages : Handled(m)) \/ UNCHANGED vars
  BY <1>10, NothingNew DEF Handled, vars, workerVars, fetchVars
<1> QED BY <1>1, <1>2, <1>3, <1>4, <1>5, <1>6, <1>7, <1>8, <1>9, <1>10 DEF Next, WorkerStep

LEMMA StepJobsAreWanted ==
    ASSUME TypeOK, ModesConsented, HeldIsWanted, JobsAreWanted, [Next]_vars PROVE JobsAreWanted'
<1> SUFFICES ASSUME NEW m \in Messages, jobs'[m] > 0 PROVE m \in WantedMail'
  BY DEF JobsAreWanted, Messages
<1>1. WantedMail \subseteq WantedMail' /\ jobs \in [Messages -> Nat]
  BY WantedGrows DEF TypeOK, JobTypeOK
<1>2. CASE jobs[m] > 0
  BY <1>1, <1>2 DEF JobsAreWanted
<1>3. CASE ~(jobs[m] > 0)
  <2>1. CASE Insert \/ ReplyLost
    <3>1. AddJob(Head(out)) /\ out # <<>>
      BY <1>3, <2>1 DEF Insert, ReplyLost, jobVars
    <3>2. m = Head(out).id
      BY <1>1, <1>3, <3>1 DEF AddJob
    <3> QED BY <1>1, <3>1, <3>2, HeldHead
  <2>2. CASE WorkerStep /\ ~Insert
    BY <1>3, <2>2 DEF WorkerStep, Tick, NextUser, List, Fetch, GetThread, FetchMate, Fetched,
       Inserted, jobVars
  <2>3. CASE Throws \/ StageThrows \/ Crash
    BY <1>3, <2>3 DEF Throws, StageThrows, Crash, jobVars
  <2>4. ASSUME NEW u \in Users, Purge(u) PROVE FALSE
    BY <1>1, <1>3, <2>4 DEF Purge
  <2>5. CASE Outside /\ \A u \in Users : ~Purge(u)
    BY <1>3, <2>5 DEF Outside, Arrive, GrowOld, Connect, SetStatus, SetMode, jobVars
  <2>6. CASE (\E k \in Messages : Handled(k)) \/ UNCHANGED vars
    BY <1>3, <2>6 DEF Handled, vars, jobVars
  <2> QED BY <2>1, <2>2, <2>3, <2>4, <2>5, <2>6 DEF Next
<1> QED BY <1>2, <1>3

LEMMA InitWanted == Init => ModesConsented /\ HeldIsWanted /\ JobsAreWanted
<1> SUFFICES ASSUME Init PROVE ModesConsented /\ HeldIsWanted /\ JobsAreWanted
  OBVIOUS
<1>1. ModesConsented
  BY DEF Init, ModesConsented, Consented, NoRow, Widening
<1>2. HeldIsWanted
  BY EmptySeq DEF Init, HeldIsWanted
<1>3. JobsAreWanted
  BY DEF Init, JobsAreWanted, Messages
<1> QED BY <1>1, <1>2, <1>3

-----------------------------------------------------------------------------
\* The shape of the worker's memory and of the rows, whatever changes and fails.
THEOREM IngestTypeCorrect == Spec => []TypeOK
BY AlwaysTypeOK

\* A message has one job at most, whether it was listed or came with a thread, and
\* whatever failed before (index.js:26-30).
THEOREM OneJobPerMessage == Spec => []EnqueuedOnce
<1>1. Init => EnqueuedOnce
  BY DEF Init, EnqueuedOnce
<1> QED BY <1>1, AlwaysTypeOK, StepEnqueuedOnce, PTL DEF Spec

\* No directory is made for a message that already has a job (index.js:27-28).
THEOREM StagedOnlyWithoutJob == Spec => NeverRestaged
<1>1. TypeOK /\ [Next]_vars => [\A m \in files' \ files : jobs[m] = 0]_vars
  <2> SUFFICES ASSUME TypeOK, Next, NEW m \in files' \ files PROVE jobs[m] = 0
    BY DEF vars
  <2>1. MailOf(row.user) \subseteq Messages /\ jobs \in [Messages -> Nat]
    BY MailOfIsMessages DEF TypeOK, JobTypeOK
  <2>2. ASSUME NEW k \in MailOf(row.user), ~Skips(k), files' \subseteq files \cup {k}
        PROVE  jobs[m] = 0
    BY <2>1, <2>2 DEF Skips, Processed
  <2>3. CASE Fetch
    BY <2>2, <2>3, FetchedIsMail DEF Fetch, Stage
  <2>4. CASE FetchMate
    BY <2>2, <2>4, FetchedIsMail DEF FetchMate, Stage
  <2>5. CASE StageThrows
    BY <2>2, <2>5, FetchedIsMail DEF StageThrows
  <2>6. CASE WorkerStep /\ ~Fetch /\ ~FetchMate
    BY <2>6 DEF WorkerStep, Tick, NextUser, List, GetThread, Fetched, Insert, Inserted
  <2>7. CASE Throws \/ ReplyLost \/ Crash
    BY <2>7 DEF Throws, ReplyLost, Crash
  <2>8. CASE Outside \/ \E k \in Messages : Handled(k)
    BY <2>8 DEF Outside, Arrive, GrowOld, Connect, SetStatus, Purge, SetMode, Handled
  <2> QED BY <2>3, <2>4, <2>5, <2>6, <2>7, <2>8 DEF Next
<1> QED BY <1>1, AlwaysTypeOK, PTL DEF Spec, NeverRestaged

\* A received message, in a thread the user has sent nothing to, becomes a job
\* only if the user was once put in full_inbox or labeled_only (buildQuery), however
\* modes change while a tick is under way and whatever fails.
THEOREM InboxIsAskedFor == Spec => []InboxOnlyWhenAsked
<1> DEFINE W == ModesConsented /\ HeldIsWanted /\ JobsAreWanted
<1>1. Init => W
  BY InitWanted
<1>2. TypeOK /\ W /\ [Next]_vars => W'
  BY StepModesConsented, StepHeldIsWanted, StepJobsAreWanted
<1>3. TypeOK /\ W => InboxOnlyWhenAsked
  <2> SUFFICES ASSUME TypeOK, JobsAreWanted, NEW m \in 1..Len(mail), jobs[m] > 0 PROVE Wanted(m)
    BY DEF InboxOnlyWhenAsked, Wanted
  <2>1. m \in Messages
    BY LenProperties, IngestConstants DEF TypeOK, MailTypeOK, Messages
  <2> QED BY <2>1 DEF JobsAreWanted, WantedMail
<1> HIDE DEF W
<1> QED BY <1>1, <1>2, <1>3, AlwaysTypeOK, PTL DEF Spec
=============================================================================

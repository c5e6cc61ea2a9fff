-------------------------- MODULE ChatSessionProofs --------------------------
(***************************************************************************)
(* Proofs about what a bot does with a message: the sessions it appends to *)
(* (ChatSession), for any number of handlers, sweeps, commands, messages   *)
(* and faults, and the delivery of the answer (ReplyDelivery), for replies *)
(* of any length and any limits.                                           *)
(*                                                                         *)
(* The sessions are changed by two statements only, the one that stores a  *)
(* message and the one that claims a session; the lemmas Stored and        *)
(* Claimed say what each does to the rows, and every invariant is then     *)
(* carried over both.                                                      *)
(*                                                                         *)
(* The chunks of a reply are the result of folds over its paragraphs.  A   *)
(* fold is followed prefix by prefix (UpTo), and what is followed is which *)
(* characters a list of texts carries (Carries): lists are joined, their   *)
(* last text grows, and texts that show nothing are left out.              *)
(***************************************************************************)
EXTENDS ChatSession, ReplyDelivery, SequenceTheorems, FiniteSetTheorems,
        WellFoundedInduction, TLAPS

Session == [messages : Seq(Nat), flushedAt : Nat]
Job == [session : Nat, messages : Seq(Nat)]

\* Rows known to be of their types.
RowsOK == sessions \in Seq(Session) /\ jobs \in Seq(Job) /\ posted \in Nat

\* A message goes into a new session, or into session i.
StoresFresh ==
    sessions' = Append(sessions, [messages |-> <<posted + 1>>, flushedAt |-> Open])
StoresInto(i) == sessions' = [sessions EXCEPT ![i].messages = Append(@, posted + 1)]

-----------------------------------------------------------------------------
\* What storing a message into session i does to the rows.
LEMMA Stored ==
    ASSUME RowsOK, NEW i \in Ids, StoresInto(i)
    PROVE  /\ sessions' \in Seq(Session)
           /\ Ids' = Ids
           /\ \A k \in Ids : k # i => sessions'[k] = sessions[k]
           /\ sessions'[i].flushedAt = sessions[i].flushedAt
           /\ Len(sessions'[i].messages) = Len(sessions[i].messages) + 1
           /\ DOMAIN sessions'[i].messages = 1..(Len(sessions[i].messages) + 1)
           /\ DOMAIN sessions[i].messages = 1..Len(sessions[i].messages)
           /\ Len(sessions[i].messages) \in Nat
           /\ \A n \in DOMAIN sessions[i].messages :
                 sessions'[i].messages[n] = sessions[i].messages[n]
           /\ sessions'[i].messages[Len(sessions[i].messages) + 1] = posted + 1
<1> DEFINE row == [sessions[i] EXCEPT !.messages = Append(@, posted + 1)]
<1>1. i \in 1..Len(sessions) /\ sessions[i] \in Session
  BY LenProperties, ElementOfSeq DEF RowsOK, Ids
<1>2. sessions[i].messages \in Seq(Nat) /\ posted + 1 \in Nat
  BY <1>1 DEF Session, RowsOK
<1>3. row \in Session
  <2>1. Append(sessions[i].messages, posted + 1) \in Seq(Nat)
    BY <1>2, AppendProperties
  <2>2. \A e \in Seq(Nat) : [sessions[i] EXCEPT !.messages = e] \in Session
    BY <1>1 DEF Session
  <2> QED BY <2>1, <2>2
<1>4. sessions' = [sessions EXCEPT ![i] = row]
  BY DEF StoresInto
<1>5. /\ sessions' \in Seq(Session)
      /\ Len(sessions') = Len(sessions)
      /\ \A k \in 1..Len(sessions) : sessions'[k] = IF k = i THEN row ELSE sessions[k]
  <2> HIDE DEF row
  <2> QED BY <1>1, <1>3, <1>4, ExceptSeq DEF RowsOK
<1>6. Ids = 1..Len(sessions) /\ Ids' = 1..Len(sessions)
  BY <1>5, LenProperties DEF RowsOK, Ids
<1>7. /\ sessions'[i].flushedAt = sessions[i].flushedAt
      /\ sessions'[i].messages = Append(sessions[i].messages, posted + 1)
  BY <1>1, <1>5 DEF Session
<1> DEFINE ms == sessions[i].messages
           ns == sessions'[i].messages
<1>8. /\ ns \in Seq(Nat)
      /\ Len(ns) = Len(ms) + 1
      /\ Len(ms) \in Nat
      /\ DOMAIN ms = 1..Len(ms)
      /\ DOMAIN ns = 1..Len(ns)
      /\ \A n \in 1..Len(ms) : ns[n] = ms[n]
      /\ ns[Len(ms) + 1] = posted + 1
  <2> SUFFICES ASSUME NEW qs, qs = Append(ms, posted + 1)
               PROVE  /\ qs \in Seq(Nat)
                      /\ Len(qs) = Len(ms) + 1
                      /\ Len(ms) \in Nat
                      /\ DOMAIN ms = 1..Len(ms)
                      /\ DOMAIN qs = 1..Len(qs)
                      /\ \A n \in 1..Len(ms) : qs[n] = ms[n]
                      /\ qs[Len(ms) + 1] = posted + 1
    BY <1>7
  <2> HIDE DEF ms, ns
  <2>1. ms \in Seq(Nat)
    BY <1>2 DEF ms
  <2> QED BY <2>1, <1>2, AppendProperties, LenProperties
<1> QED BY <1>5, <1>6, <1>7, <1>8

\* What storing a message into a new session does to the rows.
LEMMA StoredFresh ==
    ASSUME RowsOK, StoresFresh
    PROVE  LET n == Len(sessions) + 1 IN
           /\ sessions' \in Seq(Session)
           /\ n \notin Ids /\ Ids' = Ids \cup {n}
           /\ \A k \in Ids : sessions'[k] = sessions[k]
           /\ sessions'[n].flushedAt = Open
           /\ Len(sessions'[n].messages) = 1
           /\ DOMAIN sessions'[n].messages = {1}
           /\ sessions'[n].messages[1] = posted + 1
<1> DEFINE row == [messages |-> <<posted + 1>>, flushedAt |-> Open]
<1>1. row \in Session
  BY DEF RowsOK, Session, Open
<1>2. sessions' = Append(sessions, row)
  BY DEF StoresFresh
<1>3. /\ sessions' \in Seq(Session)
      /\ Len(sessions') = Len(sessions) + 1
      /\ \A k \in 1..Len(sessions) : sessions'[k] = sessions[k]
      /\ sessions'[Len(sessions) + 1] = row
  <2> HIDE DEF row
  <2> QED BY <1>1, <1>2, AppendProperties DEF RowsOK
<1>4. /\ Len(sessions) \in Nat
      /\ Ids = 1..Len(sessions)
      /\ Ids' = 1..(Len(sessions) + 1)
  BY <1>3, LenProperties DEF RowsOK, Ids
<1> QED BY <1>3, <1>4

\* What claiming an open session does to the rows.
LEMMA Claimed ==
    ASSUME RowsOK, NEW i \in OpenIds, Claim(i)
    PROVE  /\ sessions' \in Seq(Session)
           /\ jobs' \in Seq(Job)
           /\ Ids' = Ids
           /\ \A k \in Ids : k # i => sessions'[k] = sessions[k]
           /\ sessions'[i].flushedAt = posted
           /\ sessions'[i].messages = sessions[i].messages
           /\ \A j \in DOMAIN jobs : jobs'[j] = jobs[j]
           /\ Len(jobs) + 1 \notin DOMAIN jobs
           /\ ~Talked(i) => DOMAIN jobs' = DOMAIN jobs
           /\ Talked(i) => /\ DOMAIN jobs' = DOMAIN jobs \cup {Len(jobs) + 1}
                           /\ jobs'[Len(jobs) + 1].session = i
                           /\ jobs'[Len(jobs) + 1].messages = sessions[i].messages
<1> DEFINE row == [sessions[i] EXCEPT !.flushedAt = posted]
           job == [session |-> i, messages |-> sessions[i].messages]
<1>1. i \in 1..Len(sessions) /\ sessions[i] \in Session
  BY LenProperties, ElementOfSeq DEF RowsOK, Ids, OpenIds
<1>2. row \in Session /\ job \in Job
  <2>1. row \in Session
    BY <1>1 DEF Session, RowsOK
  <2>2. i \in Nat /\ sessions[i].messages \in Seq(Nat)
    BY <1>1, LenProperties DEF RowsOK, Session
  <2>3. job \in Job
    BY <2>2 DEF Job
  <2> QED BY <2>1, <2>3
<1>3. /\ sessions' = [sessions EXCEPT ![i] = row]
      /\ jobs' = IF Talked(i) THEN Append(jobs, job) ELSE jobs
  BY DEF Claim, Claimable
<1>4. /\ sessions' \in Seq(Session)
      /\ Len(sessions') = Len(sessions)
      /\ \A k \in 1..Len(sessions) : sessions'[k] = IF k = i THEN row ELSE sessions[k]
  <2> HIDE DEF row
  <2> QED BY <1>1, <1>2, <1>3, ExceptSeq DEF RowsOK
<1>5. Ids = 1..Len(sessions) /\ Ids' = 1..Len(sessions)
  BY <1>4, LenProperties DEF RowsOK, Ids
<1>6. sessions'[i].flushedAt = posted /\ sessions'[i].messages = sessions[i].messages
  BY <1>1, <1>4 DEF Session
<1>7. /\ jobs' \in Seq(Job)
      /\ \A j \in DOMAIN jobs : jobs'[j] = jobs[j]
      /\ Len(jobs) + 1 \notin DOMAIN jobs
      /\ ~Talked(i) => DOMAIN jobs' = DOMAIN jobs
      /\ Talked(i) => /\ DOMAIN jobs' = DOMAIN jobs \cup {Len(jobs) + 1}
                      /\ jobs'[Len(jobs) + 1] = job
  <2> HIDE DEF job
  <2>1. Len(jobs) \in Nat /\ DOMAIN jobs = 1..Len(jobs)
    BY LenProperties DEF RowsOK
  <2>2. CASE ~Talked(i)
    BY <1>3, <2>1, <2>2 DEF RowsOK
  <2>3. CASE Talked(i)
    <3>1. jobs' = Append(jobs, job)
      BY <1>3, <2>3
    <3>2. /\ jobs' \in Seq(Job)
          /\ Len(jobs') = Len(jobs) + 1
          /\ \A j \in 1..Len(jobs) : jobs'[j] = jobs[j]
          /\ jobs'[Len(jobs) + 1] = job
      BY <1>2, <3>1, AppendProperties DEF RowsOK
    <3>3. DOMAIN jobs' = 1..(Len(jobs) + 1)
      BY <3>2, LenProperties
    <3> QED BY <2>1, <2>3, <3>2, <3>3
  <2> QED BY <2>2, <2>3
<1> QED BY <1>4, <1>5, <1>6, <1>7

-----------------------------------------------------------------------------
(* Type correctness. *)

\* Put stores into a new session or into the one its handler picked.
LEMMA PutCases ==
    ASSUME TypeOK, NEW t \in Turns, Put(t)
    PROVE  /\ posted' = posted + 1
           /\ jobs' = jobs
           /\ \/ target[t] = {} /\ StoresFresh
              \/ \E i \in Ids : target[t] = {i} /\ StoresInto(i)
<1>1. target[t] \in SUBSET Ids /\ \A i, k \in target[t] : i = k
  BY DEF TypeOK
<1>2. posted' = posted + 1 /\ jobs' = jobs
  BY DEF Put
<1>3. (target[t] = {} /\ StoresFresh) \/ (\E i \in target[t] : StoresInto(i))
  BY DEF Put, StoresFresh, StoresInto
<1>4. \A i \in target[t] : i \in Ids /\ target[t] = {i}
  BY <1>1
<1> QED BY <1>2, <1>3, <1>4

\* The rows keep their types whatever is stored, and none is removed.
LEMMA PutRows ==
    ASSUME TypeOK, NEW t \in Turns, Put(t)
    PROVE  RowsOK' /\ Ids \subseteq Ids'
<1>1. RowsOK
  BY DEF TypeOK, RowsOK, Session, Job
<1>2. posted' \in Nat /\ jobs' \in Seq(Job)
  BY <1>1, PutCases DEF RowsOK
<1>3. sessions' \in Seq(Session) /\ Ids \subseteq Ids'
  BY <1>1, PutCases, Stored, StoredFresh
<1> QED BY <1>2, <1>3 DEF RowsOK

\* The same of a claim, of an open session or in vain.
LEMMA ClaimRows ==
    ASSUME RowsOK, NEW i \in Ids, Claim(i), posted' = posted
    PROVE  RowsOK' /\ Ids' = Ids
<1>1. CASE i \in OpenIds
  BY <1>1, Claimed DEF RowsOK
<1>2. CASE i \notin OpenIds
  BY <1>2 DEF Claim, Claimable, RowsOK, Ids
<1> QED BY <1>1, <1>2

\* Every step keeps the types.
LEMMA StepType == TypeOK /\ [Next]_vars => TypeOK'
<1> SUFFICES ASSUME TypeOK, [Next]_vars PROVE TypeOK'
  OBVIOUS
<1> USE ChatConstants DEF Fault, Goto
<1>0. RowsOK
  BY DEF TypeOK, RowsOK, Session, Job
<1>a. ASSUME UNCHANGED storeVars PROVE RowsOK' /\ Ids' = Ids
  BY <1>0, <1>a DEF RowsOK, storeVars, Ids
<1>1. ASSUME NEW t \in Turns, Receive(t) PROVE TypeOK'
  BY <1>1, <1>a DEF Receive, TypeOK, Steps, RowsOK, Session, Job, storeVars
<1>2. ASSUME NEW t \in Turns, PickSession(t) PROVE TypeOK'
  <2>1. RowsOK' /\ Ids' = Ids
    BY <1>2, <1>a DEF PickSession
  <2>2. \E S \in SUBSET Ids : (\A i, k \in S : i = k) /\ target' = [target EXCEPT ![t] = S]
    <3>1. CASE OpenIds = {} /\ target' = [target EXCEPT ![t] = {}]
      BY <3>1
    <3>2. ASSUME NEW i \in OpenIds,
                 target' = [target EXCEPT ![t] = IF Full(i) THEN {} ELSE {i}]
          PROVE  \E S \in SUBSET Ids :
                    (\A j, k \in S : j = k) /\ target' = [target EXCEPT ![t] = S]
      <4>1. CASE Full(i)
        BY <3>2, <4>1
      <4>2. CASE ~Full(i)
        BY <3>2, <4>2 DEF OpenIds
      <4> QED BY <4>1, <4>2
    <3> QED BY <1>2, <3>1, <3>2 DEF PickSession, Pick
  <2>3. pc'[t] \in {"putAsked", "putReply"} /\ pc' \in [Turns -> Steps]
    BY <1>2 DEF PickSession, TypeOK, Steps
  <2>4. /\ target' \in [Turns -> SUBSET Ids]
        /\ \A u \in Turns : (\A i, k \in target'[u] : i = k)
    BY <2>2 DEF TypeOK
  <2>5. \A u \in Turns : target'[u] # {} => pc'[u] \in {"putAsked", "putReply"}
    BY <1>2, <2>2, <2>3 DEF PickSession, TypeOK
  <2> QED BY <1>2, <2>1, <2>3, <2>4, <2>5
          DEF PickSession, TypeOK, RowsOK, Session, Job, storeVars
<1>3. ASSUME NEW t \in Turns, PutMessage(t) PROVE TypeOK'
  <2>1. RowsOK' /\ Ids \subseteq Ids' /\ posted' = posted + 1
    BY <1>3, PutRows, PutCases DEF PutMessage
  <2>2. target' = [target EXCEPT ![t] = {}]
    BY <1>3 DEF PutMessage, Put
  <2>3. pc' \in [Turns -> Steps] /\ \A u \in Turns : u # t => pc'[u] = pc[u]
    BY <1>3 DEF PutMessage, TypeOK, Steps
  <2>4. /\ target' \in [Turns -> SUBSET Ids']
        /\ \A u \in Turns : (\A i, k \in target'[u] : i = k)
        /\ \A u \in Turns : target'[u] # {} => pc'[u] \in {"putAsked", "putReply"}
    BY <2>1, <2>2, <2>3 DEF TypeOK
  <2>5. /\ aged' \in 0..posted'
        /\ todo' \in [Flushers -> SUBSET Ids']
        /\ sent' \in 0..MaxTurns
        /\ faults' \in 0..MaxFaults
    BY <1>3, <2>1 DEF PutMessage, TypeOK
  <2> QED BY <2>1, <2>3, <2>4, <2>5 DEF TypeOK, RowsOK, Session, Job
<1>4. ASSUME NEW t \in Turns, Answered(t) \/ TurnThrows(t) PROVE TypeOK'
  <2>1. RowsOK' /\ Ids' = Ids
    BY <1>4, <1>a DEF Answered, TurnThrows
  <2>2. CASE Answered(t)
    BY <2>1, <2>2 DEF Answered, TypeOK, Steps, RowsOK, Session, Job, storeVars
  <2>3. CASE TurnThrows(t)
    BY <2>1, <2>3 DEF TurnThrows, TypeOK, Steps, RowsOK, Session, Job, storeVars
  <2> QED BY <1>4, <2>2, <2>3
<1>5. ASSUME NEW w \in Flushers, NEW i \in Ids, Flush(w, i) PROVE TypeOK'
  <2>1. RowsOK' /\ Ids' = Ids
    BY <1>0, <1>5, ClaimRows DEF Flush
  <2> QED BY <1>5, <2>1 DEF Flush, TypeOK, RowsOK, Session, Job, turnVars
<1>6. ASSUME NEW w \in Flushers, NEW i \in Ids, FlushFails(w, i) PROVE TypeOK'
  BY <1>6, <1>a DEF FlushFails, TypeOK, RowsOK, Session, Job, turnVars, storeVars
<1>7. ASSUME NEW w \in Flushers, Sweep(w) \/ Done(w) PROVE TypeOK'
  <2>1. \E S \in SUBSET Ids : todo' = [todo EXCEPT ![w] = S]
    BY <1>7 DEF Sweep, Done, IdleIds, OpenIds
  <2>2. UNCHANGED <<storeVars, aged, turnVars, sent, faults>>
    BY <1>7 DEF Sweep, Done
  <2> QED BY <2>1, <2>2, <1>a DEF TypeOK, RowsOK, Session, Job, turnVars, storeVars
<1>8. CASE GrowIdle
  BY <1>8, <1>a DEF GrowIdle, TypeOK, RowsOK, Session, Job, turnVars, storeVars
<1>9. CASE Restart
  BY <1>9, <1>a DEF Restart, TypeOK, Steps, RowsOK, Session, Job, storeVars
<1>10. CASE UNCHANGED vars
  BY <1>10, <1>a DEF vars, TypeOK, RowsOK, Session, Job, turnVars, storeVars
<1> QED BY <1>1, <1>2, <1>3, <1>4, <1>5, <1>6, <1>7, <1>8, <1>9, <1>10
        DEF Next, TurnStep, SweepStep, SweepFindsNothing, Flushers

\* The start is typed.
LEMMA InitType == Init => TypeOK
BY ChatConstants DEF Init, TypeOK, Steps, Ids

\* Type correctness, whatever handlers, flushes, faults and restarts interleave.
THEOREM ChatTypeCorrect == Spec => []TypeOK
<1> QED BY InitType, StepType, PTL DEF Spec

-----------------------------------------------------------------------------
(* What is extracted.  Messages are numbered through all sessions, and a job *)
(* holds exactly what its session had when it was claimed.                   *)

Begun == Ids # {} => posted > 0

Numbered ==
    \A i \in Ids :
        /\ sessions[i].flushedAt <= posted
        /\ \A m \in DOMAIN sessions[i].messages : sessions[i].messages[m] <= posted

Distinct ==
    \A i, k \in Ids : i # k =>
        \A m \in DOMAIN sessions[i].messages, n \in DOMAIN sessions[k].messages :
            sessions[i].messages[m] # sessions[k].messages[n]

\* Job j is what its session was claimed with.
Faithful(j) ==
    /\ jobs[j].session \in Ids
    /\ sessions[jobs[j].session].flushedAt # Open
    /\ DOMAIN jobs[j].messages = Early(jobs[j].session)
    /\ \A m \in Early(jobs[j].session) :
          jobs[j].messages[m] = sessions[jobs[j].session].messages[m]

JobsFaithful == \A j \in DOMAIN jobs : Faithful(j)

OneJobEach == \A j, k \in DOMAIN jobs : j # k => jobs[j].session # jobs[k].session

ExtractInv == Begun /\ Numbered /\ Distinct /\ JobsFaithful /\ OneJobEach /\ TalkIsExtracted

\* Storing a message into a session leaves what was claimed of it alone.
LEMMA StoredKeepsEarly ==
    ASSUME RowsOK, Numbered, NEW i \in Ids, StoresInto(i)
    PROVE  \A k \in Ids : sessions[k].flushedAt # Open => Early(k)' = Early(k)
<1> SUFFICES ASSUME NEW k \in Ids, sessions[k].flushedAt # Open PROVE Early(k)' = Early(k)
  OBVIOUS
<1>1. CASE k # i
  BY <1>1, Stored DEF Early, Late
<1>2. CASE k = i
  <2> DEFINE n == Len(sessions[i].messages)
  <2>1. /\ sessions'[i].flushedAt = sessions[i].flushedAt
        /\ DOMAIN sessions'[i].messages = 1..(n + 1)
        /\ DOMAIN sessions[i].messages = 1..n
        /\ n \in Nat
        /\ \A m \in 1..n : sessions'[i].messages[m] = sessions[i].messages[m]
        /\ sessions'[i].messages[n + 1] = posted + 1
    BY Stored
  <2>2. posted + 1 > sessions[i].flushedAt
    <3>1. sessions[i] \in Session
      BY ElementOfSeq, LenProperties DEF RowsOK, Ids
    <3> QED BY <3>1 DEF Numbered, RowsOK, Session
  <2>3. Late(i)' = Late(i) \cup {n + 1}
    <3> HIDE DEF n
    <3> QED BY <1>2, <2>1, <2>2 DEF Late
  <2>4. Early(i) = (1..n) \ Late(i)
    BY <2>1 DEF Early
  <2>5. Early(i)' = (1..(n + 1)) \ (Late(i) \cup {n + 1})
    BY <2>1, <2>3 DEF Early
  <2> HIDE DEF n
  <2>6. (1..(n + 1)) \ (Late(i) \cup {n + 1}) = (1..n) \ Late(i)
    BY <2>1
  <2> QED BY <1>2, <2>4, <2>5, <2>6
<1> QED BY <1>1, <1>2

\* A job stays what its session was claimed with, and the other way round, when
\* nothing but open sessions changes.
LEMMA UntouchedStaysFaithful ==
    ASSUME JobsFaithful, OneJobEach, TalkIsExtracted, jobs' = jobs, Ids \subseteq Ids',
           \A k \in Ids : sessions[k].flushedAt # Open =>
               /\ sessions'[k].flushedAt # Open
               /\ Early(k)' = Early(k)
               /\ \A m \in Early(k) : sessions'[k].messages[m] = sessions[k].messages[m],
           \A k \in Ids' : sessions'[k].flushedAt # Open =>
               k \in Ids /\ sessions[k].flushedAt # Open
    PROVE  JobsFaithful' /\ OneJobEach' /\ TalkIsExtracted'
<1>1. JobsFaithful'
  BY DEF JobsFaithful, Faithful
<1>2. OneJobEach'
  BY DEF OneJobEach
<1>3. TalkIsExtracted'
  <2> SUFFICES ASSUME NEW k \in Ids', sessions'[k].flushedAt # Open,
                      Cardinality(Early(k)') >= MinToExtract
               PROVE  \E j \in DOMAIN jobs' :
                         /\ jobs'[j].session = k
                         /\ DOMAIN jobs'[j].messages = Early(k)'
                         /\ \A m \in Early(k)' : jobs'[j].messages[m] = sessions'[k].messages[m]
    BY DEF TalkIsExtracted
  <2>1. /\ k \in Ids /\ sessions[k].flushedAt # Open
        /\ Early(k)' = Early(k)
        /\ \A m \in Early(k) : sessions'[k].messages[m] = sessions[k].messages[m]
    OBVIOUS
  <2>2. PICK j \in DOMAIN jobs :
            /\ jobs[j].session = k
            /\ DOMAIN jobs[j].messages = Early(k)
            /\ \A m \in Early(k) : jobs[j].messages[m] = sessions[k].messages[m]
    BY <2>1 DEF TalkIsExtracted
  <2> QED BY <2>1, <2>2
<1> QED BY <1>1, <1>2, <1>3

\* Storing a message keeps the invariant.
LEMMA PutKeepsExtract ==
    ASSUME TypeOK, ExtractInv, NEW t \in Turns, Put(t)
    PROVE  ExtractInv'
<1>0. RowsOK
  BY DEF TypeOK, RowsOK, Session, Job
<1>1. posted' = posted + 1 /\ jobs' = jobs /\ posted \in Nat
  BY <1>0, PutCases DEF RowsOK
<1>t. \A k \in Ids : sessions[k].flushedAt \in Nat
               /\ \A m \in DOMAIN sessions[k].messages : sessions[k].messages[m] \in Nat
  <2> SUFFICES ASSUME NEW k \in Ids
               PROVE  sessions[k].flushedAt \in Nat
                      /\ \A m \in DOMAIN sessions[k].messages : sessions[k].messages[m] \in Nat
    OBVIOUS
  <2>1. sessions[k] \in Session
    BY <1>0, ElementOfSeq, LenProperties DEF RowsOK, Ids
  <2> QED BY <2>1, LenProperties, ElementOfSeq DEF Session
<1>2. CASE StoresFresh
  <2> DEFINE n == Len(sessions) + 1
  <2>1. /\ n \notin Ids /\ Ids' = Ids \cup {n}
        /\ \A k \in Ids : sessions'[k] = sessions[k]
        /\ sessions'[n].flushedAt = Open
        /\ DOMAIN sessions'[n].messages = {1}
        /\ sessions'[n].messages[1] = posted + 1
    BY <1>0, <1>2, StoredFresh
  <2> HIDE DEF n
  <2>2. Begun' /\ Numbered'
    BY <1>1, <1>t, <2>1 DEF ExtractInv, Begun, Numbered, Open
  <2>3. Distinct'
    BY <1>1, <1>t, <2>1 DEF ExtractInv, Numbered, Distinct
  <2>4. \A k \in Ids : Early(k)' = Early(k)
    BY <2>1 DEF Early, Late
  <2>5. JobsFaithful' /\ OneJobEach' /\ TalkIsExtracted'
    BY <1>1, <2>1, <2>4, UntouchedStaysFaithful DEF ExtractInv
  <2> QED BY <2>2, <2>3, <2>5 DEF ExtractInv
<1>3. ASSUME NEW i \in Ids, StoresInto(i) PROVE ExtractInv'
  <2> DEFINE n == Len(sessions[i].messages)
  <2>1. /\ Ids' = Ids
        /\ \A k \in Ids : k # i => sessions'[k] = sessions[k]
        /\ sessions'[i].flushedAt = sessions[i].flushedAt
        /\ DOMAIN sessions'[i].messages = 1..(n + 1)
        /\ DOMAIN sessions[i].messages = 1..n
        /\ n \in Nat
        /\ \A m \in 1..n : sessions'[i].messages[m] = sessions[i].messages[m]
        /\ sessions'[i].messages[n + 1] = posted + 1
    BY <1>0, <1>3, Stored
  <2> HIDE DEF n
  <2>2. Begun' /\ Numbered'
    <3>1. Begun'
      BY <1>1, <2>1 DEF ExtractInv, Begun
    <3>2. ASSUME NEW k \in Ids
          PROVE  /\ sessions'[k].flushedAt <= posted'
                 /\ \A m \in DOMAIN sessions'[k].messages : sessions'[k].messages[m] <= posted'
      <4>1. /\ sessions[k].flushedAt <= posted /\ sessions[k].flushedAt \in Nat
            /\ \A m \in DOMAIN sessions[k].messages :
                  sessions[k].messages[m] <= posted /\ sessions[k].messages[m] \in Nat
        BY <1>t DEF ExtractInv, Numbered
      <4>2. CASE k # i
        BY <1>1, <2>1, <4>1, <4>2
      <4>3. CASE k = i
        <5>1. \A m \in 1..(n + 1) : m \in 1..n \/ m = n + 1
          BY <2>1
        <5> QED BY <1>1, <2>1, <4>1, <4>3, <5>1
      <4> QED BY <4>2, <4>3
    <3> QED BY <2>1, <3>1, <3>2 DEF Numbered
  <2>3. Distinct'
    <3>1. \A k \in Ids : k # i =>
              /\ DOMAIN sessions'[k].messages = DOMAIN sessions[k].messages
              /\ \A m \in DOMAIN sessions[k].messages :
                    /\ sessions'[k].messages[m] = sessions[k].messages[m]
                    /\ sessions[k].messages[m] # posted + 1
      BY <1>1, <1>t, <2>1 DEF ExtractInv, Numbered
    <3>2. \A m \in DOMAIN sessions'[i].messages :
              \/ m \in DOMAIN sessions[i].messages
                 /\ sessions'[i].messages[m] = sessions[i].messages[m]
              \/ sessions'[i].messages[m] = posted + 1
      BY <2>1
    <3>3. \A k \in Ids : k # i =>
              \A m \in DOMAIN sessions'[i].messages, l \in DOMAIN sessions'[k].messages :
                  sessions'[i].messages[m] # sessions'[k].messages[l]
      BY <3>1, <3>2 DEF ExtractInv, Distinct
    <3>4. \A j, k \in Ids : j # i /\ k # i /\ j # k =>
              \A m \in DOMAIN sessions'[j].messages, l \in DOMAIN sessions'[k].messages :
                  sessions'[j].messages[m] # sessions'[k].messages[l]
      BY <3>1 DEF ExtractInv, Distinct
    <3>5. ASSUME NEW j \in Ids, NEW k \in Ids, j # k,
                 NEW m \in DOMAIN sessions'[j].messages, NEW l \in DOMAIN sessions'[k].messages
          PROVE  sessions'[j].messages[m] # sessions'[k].messages[l]
      <4>1. CASE j = i
        BY <3>3, <3>5, <4>1
      <4>2. CASE k = i
        BY <3>3, <3>5, <4>2
      <4>3. CASE j # i /\ k # i
        BY <3>4, <3>5, <4>3
      <4> QED BY <4>1, <4>2, <4>3
    <3>6. \A j, k \in Ids' : j # k =>
              \A m \in DOMAIN sessions'[j].messages, l \in DOMAIN sessions'[k].messages :
                  sessions'[j].messages[m] # sessions'[k].messages[l]
      BY <2>1, <3>5
    <3> QED BY <3>6 DEF Distinct
  <2>4. \A k \in Ids : sessions[k].flushedAt # Open =>
            /\ sessions'[k].flushedAt # Open
            /\ Early(k)' = Early(k)
            /\ \A m \in Early(k) : sessions'[k].messages[m] = sessions[k].messages[m]
    <3>1. \A k \in Ids : sessions[k].flushedAt # Open => Early(k)' = Early(k)
      BY <1>0, <1>3, StoredKeepsEarly DEF ExtractInv
    <3>2. \A m \in Early(i) : m \in 1..n
      BY <2>1 DEF Early
    <3> QED BY <2>1, <3>1, <3>2
  <2>5. JobsFaithful' /\ OneJobEach' /\ TalkIsExtracted'
    BY <1>1, <2>1, <2>4, UntouchedStaysFaithful DEF ExtractInv
  <2> QED BY <2>2, <2>3, <2>5 DEF ExtractInv
<1> QED BY <1>2, <1>3, PutCases

\* Claiming a session keeps the invariant.
LEMMA ClaimKeepsExtract ==
    ASSUME RowsOK, ExtractInv, NEW i \in OpenIds, Claim(i), posted' = posted
    PROVE  ExtractInv'
<1> DEFINE size == Len(sessions[i].messages)
<1>0. PICK n : n = Len(jobs) + 1
  OBVIOUS
<1>1. i \in Ids /\ sessions[i].flushedAt = Open
  BY DEF OpenIds
<1>2. /\ Ids' = Ids
      /\ \A k \in Ids : k # i => sessions'[k] = sessions[k]
      /\ \A k \in Ids : sessions'[k].messages = sessions[k].messages
      /\ sessions'[i].flushedAt = posted
      /\ \A j \in DOMAIN jobs : jobs'[j] = jobs[j]
      /\ n \notin DOMAIN jobs
      /\ ~Talked(i) => DOMAIN jobs' = DOMAIN jobs
      /\ Talked(i) => /\ DOMAIN jobs' = DOMAIN jobs \cup {n}
                      /\ jobs'[n].session = i
                      /\ jobs'[n].messages = sessions[i].messages
  BY <1>0, Claimed
<1>3. sessions[i] \in Session
  BY <1>1, ElementOfSeq, LenProperties DEF RowsOK, Ids
<1>4. posted \in Nat /\ sessions'[i].flushedAt # Open
  BY <1>1, <1>2 DEF ExtractInv, Begun, RowsOK, Open
<1>5. Begun' /\ Numbered' /\ Distinct'
  BY <1>2, <1>4 DEF ExtractInv, Begun, Numbered, Distinct
<1>6. size \in Nat /\ DOMAIN sessions[i].messages = 1..size
  BY <1>3, LenProperties DEF Session
<1>7. Early(i)' = 1..size
  <2>1. \A m \in DOMAIN sessions[i].messages :
            sessions[i].messages[m] \in Nat /\ sessions[i].messages[m] <= posted
    BY <1>1, <1>3, LenProperties, ElementOfSeq DEF ExtractInv, Numbered, Session
  <2>2. Late(i)' = {}
    BY <1>1, <1>2, <1>4, <2>1 DEF Late
  <2> QED BY <1>1, <1>2, <1>6, <2>2 DEF Early
<1>8. \A k \in Ids : k # i => Early(k)' = Early(k)
  BY <1>2 DEF Early, Late
<1>9. \A j \in DOMAIN jobs : jobs[j].session \in Ids /\ jobs[j].session # i
  BY <1>1 DEF ExtractInv, JobsFaithful, Faithful
<1>10. \A j \in DOMAIN jobs : Faithful(j)'
  <2> SUFFICES ASSUME NEW j \in DOMAIN jobs PROVE Faithful(j)'
    OBVIOUS
  <2>1. Faithful(j) /\ jobs'[j] = jobs[j] /\ jobs[j].session \in Ids /\ jobs[j].session # i
    BY <1>2, <1>9 DEF ExtractInv, JobsFaithful
  <2> QED BY <1>2, <1>8, <2>1 DEF Faithful
<1>11. CASE ~Talked(i)
  <2>1. JobsFaithful'
    BY <1>2, <1>10, <1>11 DEF JobsFaithful
  <2>2. OneJobEach'
    BY <1>2, <1>11 DEF ExtractInv, OneJobEach
  <2>3. ~(Cardinality(Early(i)') >= MinToExtract)
    <3>1. Cardinality(1..size) = size
      <4> HIDE DEF size
      <4> QED BY <1>6, FS_Interval
    <3> QED BY <1>7, <1>11, <3>1 DEF Talked
  <2>4. TalkIsExtracted'
    BY <1>2, <1>8, <1>11, <2>3 DEF ExtractInv, TalkIsExtracted
  <2> QED BY <1>5, <2>1, <2>2, <2>4 DEF ExtractInv
<1>12. CASE Talked(i)
  <2>1. Faithful(n)'
    BY <1>1, <1>2, <1>4, <1>6, <1>7, <1>12 DEF Faithful
  <2>2. JobsFaithful'
    BY <1>2, <1>10, <1>12, <2>1 DEF JobsFaithful
  <2>3. OneJobEach'
    BY <1>2, <1>9, <1>12 DEF ExtractInv, OneJobEach
  <2>4. \E j \in DOMAIN jobs' :
            /\ jobs'[j].session = i
            /\ DOMAIN jobs'[j].messages = Early(i)'
            /\ \A m \in Early(i)' : jobs'[j].messages[m] = sessions'[i].messages[m]
    BY <1>1, <1>2, <1>12, <2>1 DEF Faithful
  <2>5. \A k \in Ids : k # i /\ sessions[k].flushedAt # Open
                          /\ Cardinality(Early(k)) >= MinToExtract =>
            \E j \in DOMAIN jobs' :
                /\ jobs'[j].session = k
                /\ DOMAIN jobs'[j].messages = Early(k)
                /\ \A m \in Early(k) : jobs'[j].messages[m] = sessions[k].messages[m]
    BY <1>2, <1>12 DEF ExtractInv, TalkIsExtracted
  <2>6. TalkIsExtracted'
    BY <1>2, <1>8, <2>4, <2>5 DEF TalkIsExtracted
  <2> QED BY <1>5, <2>2, <2>3, <2>6 DEF ExtractInv
<1> QED BY <1>11, <1>12

\* Every step keeps the invariant: only PutMessage and Flush change the rows.
LEMMA StepExtract == TypeOK /\ ExtractInv /\ [Next]_vars => ExtractInv'
<1> SUFFICES ASSUME TypeOK, ExtractInv, [Next]_vars PROVE ExtractInv'
  OBVIOUS
<1>1. ASSUME NEW t \in Turns, PutMessage(t) PROVE ExtractInv'
  BY <1>1, PutKeepsExtract DEF PutMessage
<1>2. ASSUME UNCHANGED storeVars PROVE ExtractInv'
  BY <1>2 DEF ExtractInv, Begun, Numbered, Distinct, JobsFaithful, Faithful, OneJobEach,
              TalkIsExtracted, Early, Late, Ids, storeVars
<1>3. ASSUME NEW w \in Flushers, NEW i \in Ids, Flush(w, i) PROVE ExtractInv'
  <2>1. RowsOK /\ Claim(i) /\ posted' = posted
    BY <1>3 DEF Flush, TypeOK, RowsOK, Session, Job
  <2>2. CASE i \in OpenIds
    BY <2>1, <2>2, ClaimKeepsExtract
  <2>3. CASE i \notin OpenIds
    BY <2>1, <2>3, <1>2 DEF Claim, Claimable, storeVars
  <2> QED BY <2>2, <2>3
<1>4. \/ UNCHANGED storeVars
      \/ \E t \in Turns : PutMessage(t)
      \/ \E w \in Flushers, i \in Ids : Flush(w, i)
  BY DEF Next, TurnStep, SweepStep, SweepFindsNothing, Flushers, Receive, PickSession, Answered,
         TurnThrows, Sweep, Done, FlushFails, GrowIdle, Restart, vars, storeVars
<1> QED BY <1>1, <1>2, <1>3, <1>4

\* No session at the start.
LEMMA InitExtract == Init => ExtractInv
BY DEF Init, ExtractInv, Begun, Numbered, Distinct, JobsFaithful, OneJobEach, TalkIsExtracted, Ids

\* A session worth extracting is one job, with everything it had when it was
\* claimed (TalkIsExtracted).
THEOREM TalkReachesExtractor == Spec => []TalkIsExtracted
<1>1. ExtractInv => TalkIsExtracted
  BY DEF ExtractInv
<1> QED BY <1>1, InitType, StepType, InitExtract, StepExtract, PTL DEF Spec

\* No message is extracted twice, by any number of concurrent flushes
\* (ExtractedOnce).
THEOREM NothingExtractedTwice == Spec => []ExtractedOnce
<1>1. ExtractInv => ExtractedOnce
  <2> SUFFICES ASSUME ExtractInv, NEW j \in DOMAIN jobs, NEW k \in DOMAIN jobs, j # k,
                      NEW m \in DOMAIN jobs[j].messages, NEW n \in DOMAIN jobs[k].messages
               PROVE  jobs[j].messages[m] # jobs[k].messages[n]
    BY DEF ExtractedOnce
  <2>1. Faithful(j) /\ Faithful(k) /\ jobs[j].session # jobs[k].session
    BY DEF ExtractInv, JobsFaithful, OneJobEach
  <2>2. /\ jobs[j].messages[m] = sessions[jobs[j].session].messages[m]
        /\ m \in DOMAIN sessions[jobs[j].session].messages
        /\ jobs[k].messages[n] = sessions[jobs[k].session].messages[n]
        /\ n \in DOMAIN sessions[jobs[k].session].messages
    BY <2>1 DEF Faithful, Early
  <2> QED BY <2>1, <2>2 DEF ExtractInv, Distinct, Faithful
<1> QED BY <1>1, InitType, StepType, InitExtract, StepExtract, PTL DEF Spec

-----------------------------------------------------------------------------
(* How far a session can grow.  A handler that has picked a session is one  *)
(* message it will get, however long the handler waits and whether or not   *)
(* the session is full or flushed meanwhile.                                *)

Pending(i) == {t \in Turns : i \in target[t]}

Sized(i) == Len(sessions[i].messages) + Cardinality(Pending(i)) < MaxPerSession + Cardinality(Turns)
LateRoom(i) == Cardinality(Late(i)) + Cardinality(Pending(i)) <= Cardinality(Turns)

RoomInv == \A i \in Ids : Sized(i) /\ LateRoom(i)

\* The pending handlers of a session are finitely many.
LEMMA PendingCount ==
    ASSUME NEW S \in SUBSET Turns
    PROVE  /\ IsFiniteSet(S)
           /\ Cardinality(S) \in Nat /\ Cardinality(Turns) \in Nat
           /\ Cardinality(S) <= Cardinality(Turns)
BY ChatConstants, FS_Subset, FS_CardinalityType

\* So are the messages of a session.
LEMMA LateCount ==
    ASSUME RowsOK, NEW i \in Ids
    PROVE  /\ Len(sessions[i].messages) \in Nat
           /\ IsFiniteSet(Late(i)) /\ Cardinality(Late(i)) \in Nat
           /\ sessions[i].flushedAt = Open => Cardinality(Late(i)) = 0
<1>1. sessions[i] \in Session
  BY ElementOfSeq, LenProperties DEF RowsOK, Ids
<1>2. Len(sessions[i].messages) \in Nat
      /\ DOMAIN sessions[i].messages = 1..Len(sessions[i].messages)
  BY <1>1, LenProperties DEF Session
<1>3. IsFiniteSet(DOMAIN sessions[i].messages)
  BY <1>2, FS_Interval
<1>4. Late(i) \in SUBSET DOMAIN sessions[i].messages
  BY DEF Late
<1>5. sessions[i].flushedAt = Open => Late(i) = {}
  BY DEF Late
<1> QED BY <1>2, <1>3, <1>4, <1>5, FS_Subset, FS_CardinalityType, FS_EmptySet

\* Handlers that give up, and steps that touch neither sessions nor targets.
LEMMA FewerPendingKeepsRoom ==
    ASSUME RowsOK, RoomInv, NEW k \in Ids,
           Len(sessions'[k].messages) = Len(sessions[k].messages),
           Cardinality(Late(k)') \in Nat, Cardinality(Late(k)') <= Cardinality(Late(k)),
           Pending(k)' \in SUBSET Pending(k)
    PROVE  Sized(k)' /\ LateRoom(k)'
<1>1. Pending(k) \in SUBSET Turns /\ Pending(k)' \in SUBSET Turns
  BY DEF Pending
<1>2. Cardinality(Pending(k)') <= Cardinality(Pending(k))
  BY <1>1, PendingCount, FS_Subset
<1>3. /\ Cardinality(Pending(k)) \in Nat /\ Cardinality(Pending(k)') \in Nat
      /\ Cardinality(Turns) \in Nat
      /\ Len(sessions[k].messages) \in Nat /\ Cardinality(Late(k)) \in Nat
  BY <1>1, PendingCount, LateCount
<1>4. Sized(k) /\ LateRoom(k)
  BY DEF RoomInv
<1> QED BY <1>2, <1>3, <1>4, ChatConstants DEF Sized, LateRoom

\* Picking a session: it is open and not full, so there is room for all handlers.
LEMMA PickKeepsRoom ==
    ASSUME TypeOK, RoomInv, NEW t \in Turns, Pick(t), sessions' = sessions
    PROVE  RoomInv'
<1>0. RowsOK
  BY DEF TypeOK, RowsOK, Session, Job
<1>1. Ids' = Ids /\ \A k \in Ids : Late(k)' = Late(k)
  BY DEF Ids, Late
<1> SUFFICES ASSUME NEW k \in Ids PROVE Sized(k)' /\ LateRoom(k)'
  BY <1>1 DEF RoomInv
<1>2. CASE Pending(k)' \in SUBSET Pending(k)
  BY <1>0, <1>1, <1>2, LateCount, FewerPendingKeepsRoom
<1>3. CASE Pending(k)' \notin SUBSET Pending(k)
  <2>1. k \in OpenIds /\ ~Full(k)
    <3>1. PICK u \in Turns : k \in target'[u] /\ k \notin target[u]
      BY <1>3 DEF Pending
    <3>2. \/ target' = [target EXCEPT ![t] = {}]
          \/ \E i \in OpenIds : target' = [target EXCEPT ![t] = IF Full(i) THEN {} ELSE {i}]
      BY DEF Pick
    <3>3. CASE target' = [target EXCEPT ![t] = {}]
      BY <3>1, <3>3 DEF TypeOK
    <3>4. ASSUME NEW i \in OpenIds, target' = [target EXCEPT ![t] = IF Full(i) THEN {} ELSE {i}]
          PROVE  k \in OpenIds /\ ~Full(k)
      <4>1. u = t /\ k \in (IF Full(i) THEN {} ELSE {i})
        BY <3>1, <3>4 DEF TypeOK
      <4> QED BY <3>4, <4>1
    <3> QED BY <3>2, <3>3, <3>4
  <2>2. Pending(k)' \in SUBSET Turns
    BY DEF Pending
  <2>3. /\ Cardinality(Pending(k)') \in Nat /\ Cardinality(Turns) \in Nat
        /\ Cardinality(Pending(k)') <= Cardinality(Turns)
    BY <2>2, PendingCount
  <2>4. Len(sessions[k].messages) \in Nat /\ Cardinality(Late(k)) = 0
    BY <1>0, <2>1, LateCount DEF OpenIds
  <2>5. Len(sessions[k].messages) < MaxPerSession
    BY <2>1, <2>4, ChatConstants DEF Full
  <2> QED BY <1>1, <2>3, <2>4, <2>5, ChatConstants DEF Sized, LateRoom
<1> QED BY <1>2, <1>3

\* A message stored is a handler less to wait for.
LEMMA PutKeepsRoom ==
    ASSUME TypeOK, ExtractInv, RoomInv, NEW t \in Turns, Put(t)
    PROVE  RoomInv'
<1>0. RowsOK
  BY DEF TypeOK, RowsOK, Session, Job
<1>1. RowsOK' /\ target' = [target EXCEPT ![t] = {}] /\ target \in [Turns -> SUBSET Ids]
  BY PutRows DEF Put, TypeOK
<1>2. \A k : Pending(k)' = Pending(k) \ {t}
  BY <1>1 DEF Pending
<1>3. CASE StoresFresh
  <2>0. PICK n : n = Len(sessions) + 1
    OBVIOUS
  <2>1. /\ n \notin Ids /\ Ids' = Ids \cup {n}
        /\ \A k \in Ids : sessions'[k] = sessions[k]
        /\ sessions'[n].flushedAt = Open
        /\ Len(sessions'[n].messages) = 1
    BY <1>0, <1>3, <2>0, StoredFresh
  <2>2. ASSUME NEW k \in Ids PROVE Sized(k)' /\ LateRoom(k)'
    <3>1. Late(k)' = Late(k)
      BY <2>1 DEF Late
    <3> QED BY <1>0, <1>2, <2>1, <3>1, LateCount, FewerPendingKeepsRoom
  <2>3. Sized(n)' /\ LateRoom(n)'
    <3>1. Pending(n)' = {} /\ Late(n)' = {}
      BY <1>1, <1>2, <2>1 DEF Pending, Late
    <3>2. Cardinality(Turns) \in Nat /\ Cardinality(Turns) # 0
      BY ChatConstants, FS_CardinalityType, FS_EmptySet
    <3> QED BY <2>1, <3>1, <3>2, ChatConstants, FS_EmptySet DEF Sized, LateRoom
  <2> QED BY <2>1, <2>2, <2>3 DEF RoomInv
<1>4. ASSUME NEW i \in Ids, target[t] = {i}, StoresInto(i) PROVE RoomInv'
  <2>1. /\ Ids' = Ids
        /\ \A k \in Ids : k # i => sessions'[k] = sessions[k]
        /\ Len(sessions'[i].messages) = Len(sessions[i].messages) + 1
    BY <1>0, <1>4, Stored
  <2>2. ASSUME NEW k \in Ids, k # i PROVE Sized(k)' /\ LateRoom(k)'
    <3>1. Late(k)' = Late(k)
      BY <2>1, <2>2 DEF Late
    <3> QED BY <1>0, <1>2, <2>1, <2>2, <3>1, LateCount, FewerPendingKeepsRoom
  <2>3. /\ Cardinality(Pending(i)') = Cardinality(Pending(i)) - 1
        /\ Cardinality(Pending(i)) \in Nat /\ Cardinality(Turns) \in Nat
    <3>1. t \in Pending(i) /\ Pending(i) \in SUBSET Turns
      BY <1>4 DEF Pending
    <3> QED BY <1>2, <3>1, PendingCount, FS_RemoveElement
  <2>4. Cardinality(Late(i)') \in Nat /\ Cardinality(Late(i)') <= Cardinality(Late(i)) + 1
    <3>1. PICK n : n = Len(sessions[i].messages) + 1
      OBVIOUS
    <3>2. /\ sessions'[i].flushedAt = sessions[i].flushedAt
          /\ DOMAIN sessions'[i].messages \subseteq DOMAIN sessions[i].messages \cup {n}
          /\ \A m \in DOMAIN sessions[i].messages :
                sessions'[i].messages[m] = sessions[i].messages[m]
      BY <1>0, <1>4, <3>1, Stored
    <3>3. Late(i)' \in SUBSET (Late(i) \cup {n})
      BY <3>2 DEF Late
    <3>4. IsFiniteSet(Late(i)) /\ Cardinality(Late(i)) \in Nat
      BY <1>0, LateCount
    <3>5. IsFiniteSet(Late(i) \cup {n}) /\ Cardinality(Late(i) \cup {n}) <= Cardinality(Late(i)) + 1
      BY <3>4, FS_AddElement
    <3> QED BY <3>3, <3>4, <3>5, FS_Subset, FS_CardinalityType
  <2>5. Sized(i) /\ LateRoom(i)
    BY DEF RoomInv
  <2>6. Sized(i)' /\ LateRoom(i)'
    <3>1. Len(sessions[i].messages) \in Nat /\ Cardinality(Late(i)) \in Nat
      BY <1>0, LateCount
    <3>2. Sized(i)'
      BY <2>1, <2>3, <2>5, <3>1, ChatConstants DEF Sized
    <3>3. LateRoom(i)'
      BY <2>3, <2>4, <2>5, <3>1 DEF LateRoom
    <3> QED BY <3>2, <3>3
  <2> QED BY <2>1, <2>2, <2>6 DEF RoomInv
<1> QED BY <1>3, <1>4, PutCases

\* A claim makes a session's messages all early.
LEMMA ClaimKeepsRoom ==
    ASSUME RowsOK, ExtractInv, RoomInv, NEW i \in OpenIds, Claim(i), target' = target
    PROVE  RoomInv'
<1>1. /\ Ids' = Ids
      /\ \A k \in Ids : k # i => sessions'[k] = sessions[k]
      /\ \A k \in Ids : sessions'[k].messages = sessions[k].messages
      /\ sessions'[i].flushedAt = posted
  BY Claimed
<1>2. i \in Ids /\ sessions[i] \in Session
  BY ElementOfSeq, LenProperties DEF RowsOK, Ids, OpenIds
<1>3. \A m \in DOMAIN sessions[i].messages :
          sessions[i].messages[m] \in Nat /\ sessions[i].messages[m] <= posted
  BY <1>2, LenProperties, ElementOfSeq DEF ExtractInv, Numbered, Session
<1>4. Late(i)' = {}
  BY <1>1, <1>2, <1>3 DEF Late, RowsOK
<1>5. \A k \in Ids : k # i => Late(k)' = Late(k)
  BY <1>1 DEF Late
<1>6. \A k \in Ids : Cardinality(Late(k)') \in Nat /\ Cardinality(Late(k)') <= Cardinality(Late(k))
  BY <1>4, <1>5, LateCount, FS_EmptySet
<1>7. \A k : Pending(k)' \in SUBSET Pending(k)
  BY DEF Pending
<1> QED BY <1>1, <1>6, <1>7, FewerPendingKeepsRoom DEF RoomInv

\* Every step leaves room for the handlers still pending.
LEMMA StepRoom == TypeOK /\ ExtractInv /\ RoomInv /\ [Next]_vars => RoomInv'
<1> SUFFICES ASSUME TypeOK, ExtractInv, RoomInv, [Next]_vars PROVE RoomInv'
  OBVIOUS
<1>0. RowsOK
  BY DEF TypeOK, RowsOK, Session, Job
<1>1. ASSUME NEW t \in Turns, PutMessage(t) PROVE RoomInv'
  BY <1>1, PutKeepsRoom DEF PutMessage
<1>2. ASSUME NEW t \in Turns, PickSession(t) PROVE RoomInv'
  BY <1>2, PickKeepsRoom DEF PickSession, storeVars
<1>3. ASSUME UNCHANGED storeVars, \A k : Pending(k)' \in SUBSET Pending(k) PROVE RoomInv'
  <2>1. Ids' = Ids /\ sessions' = sessions /\ \A k \in Ids : Late(k)' = Late(k)
    BY <1>3 DEF storeVars, Ids, Late
  <2> QED BY <1>0, <1>3, <2>1, LateCount, FewerPendingKeepsRoom DEF RoomInv
<1>4. ASSUME NEW w \in Flushers, NEW i \in Ids, Flush(w, i) PROVE RoomInv'
  <2>1. Claim(i) /\ posted' = posted /\ target' = target
    BY <1>4 DEF Flush, turnVars
  <2>2. CASE i \in OpenIds
    BY <1>0, <2>1, <2>2, ClaimKeepsRoom
  <2>3. CASE i \notin OpenIds
    BY <2>1, <2>3, <1>3 DEF Claim, Claimable, storeVars, Pending
  <2> QED BY <2>2, <2>3
<1>5. ASSUME NEW t \in Turns, TurnThrows(t) PROVE RoomInv'
  BY <1>3, <1>5 DEF TurnThrows, Pending, TypeOK
<1>6. CASE Restart
  BY <1>3, <1>6 DEF Restart, Pending
<1>7. ASSUME UNCHANGED <<storeVars, target>> PROVE RoomInv'
  BY <1>3, <1>7 DEF Pending
<1>8. \/ UNCHANGED <<storeVars, target>> \/ Restart
      \/ \E t \in Turns : PutMessage(t) \/ PickSession(t) \/ TurnThrows(t)
      \/ \E w \in Flushers, i \in Ids : Flush(w, i)
  BY DEF Next, TurnStep, SweepStep, SweepFindsNothing, Flushers, Receive, Answered,
         Sweep, Done, FlushFails, GrowIdle, vars, turnVars, storeVars
<1> QED BY <1>1, <1>2, <1>4, <1>5, <1>6, <1>7, <1>8

\* No session at the start.
LEMMA InitRoom == Init => RoomInv
BY DEF Init, RoomInv, Ids

\* A session exceeds MAX_MESSAGES_PER_SESSION by less than the number of handlers
\* (SessionsBounded), and what a flush misses is at most one message of each
\* (LateMessagesBounded).
THEOREM BoundedOverrun == Spec => [](SessionsBounded /\ LateMessagesBounded)
<1>1. TypeOK /\ RoomInv => SessionsBounded /\ LateMessagesBounded
  <2> SUFFICES ASSUME TypeOK, RoomInv, NEW i \in Ids
               PROVE  /\ Len(sessions[i].messages) < MaxPerSession + Cardinality(Turns)
                      /\ Cardinality(Late(i)) <= Cardinality(Turns)
    BY DEF SessionsBounded, LateMessagesBounded
  <2>1. RowsOK
    BY DEF TypeOK, RowsOK, Session, Job
  <2>2. Pending(i) \in SUBSET Turns
    BY DEF Pending
  <2>3. Sized(i) /\ LateRoom(i)
    BY DEF RoomInv
  <2> QED BY <2>1, <2>2, <2>3, PendingCount, LateCount, ChatConstants DEF Sized, LateRoom
<1> QED BY <1>1, InitType, StepType, InitExtract, StepExtract, InitRoom, StepRoom, PTL DEF Spec

-----------------------------------------------------------------------------
(* Folds over sequences: FoldLeft takes away the largest index first.        *)

LEMMA LeastNumber ==
    ASSUME NEW T, T \subseteq Nat, T # {}
    PROVE  \E n \in T : \A m \in T : n <= m
<1>1. PICK n \in T : \A m \in T : ~ (<<m, n>> \in OpToRel(<, Nat))
  BY NatLessThanWellFounded, WFMin
<1>2. ASSUME NEW m \in T PROVE n <= m
  <2>1. <<m, n>> \in Nat \X Nat /\ (<<m, n>>)[1] = m /\ (<<m, n>>)[2] = n
    OBVIOUS
  <2>2. ~(m < n)
    BY <1>1, <2>1 DEF OpToRel
  <2> QED BY <2>2
<1> QED BY <1>2

\* The largest of some indices.
LEMMA MaxIndex ==
    ASSUME NEW n \in Nat, NEW S \in SUBSET (1..n), S # {}
    PROVE  Max(S) \in S /\ \A i \in S : i <= Max(S)
<1> DEFINE Below == {m \in Nat : \E i \in S : m = n - i}
<1>1. Below # {} /\ Below \subseteq Nat
  <2>1. PICK i : i \in S
    OBVIOUS
  <2>2. n - i \in Nat
    BY <2>1
  <2>3. n - i \in Below
    BY <2>1, <2>2
  <2> QED BY <2>3
<1>2. PICK m \in Below : \A k \in Below : m <= k
  BY <1>1, LeastNumber
<1>3. PICK i \in S : m = n - i
  BY <1>2
<1>4. ASSUME NEW j \in S PROVE i >= j
  <2>1. n - j \in Below
    OBVIOUS
  <2>2. m <= n - j
    BY <1>2, <2>1
  <2> QED BY <1>3, <2>2
<1>5. Max(S) \in S /\ \A j \in S : Max(S) >= j
  BY <1>3, <1>4 DEF Max
<1> QED BY <1>5

LEMMA MaxIsLast ==
    ASSUME NEW n \in Nat, NEW S \in SUBSET (1..n), n \in S
    PROVE  Max(S) = n
<1>1. PICK m : m = Max(S)
  OBVIOUS
<1>2. m \in S /\ n <= m
  BY <1>1, MaxIndex
<1>3. m \in Nat /\ m <= n
  BY <1>2
<1> QED BY <1>1, <1>2, <1>3

\* What FoldLeft computes for a set of indices of s.
FoldsUp(o, base, s, n, g) ==
    \A S \in SUBSET (1..n) :
        g[S] = IF S = {} THEN base ELSE o[<<g[S \ {Max(S)}], s[Max(S)]>>]

LEMMA FoldExists ==
    ASSUME NEW A, NEW B, NEW o \in [A \X B -> A], NEW base \in A, NEW s \in Seq(B)
    PROVE  \E g \in [SUBSET (1..Len(s)) -> A] : FoldsUp(o, base, s, Len(s), g)
<1> DEFINE Partial(n) == \E g \in [SUBSET (1..n) -> A] : FoldsUp(o, base, s, n, g)
           Missing == {n \in Nat : n <= Len(s) /\ ~Partial(n)}
<1>1. Missing = {}
  <2> SUFFICES ASSUME Missing # {} PROVE FALSE
    OBVIOUS
  <2>1. PICK n \in Missing : \A m \in Missing : n <= m
    <3>1. Missing \subseteq Nat
      OBVIOUS
    <3> QED BY <3>1, LeastNumber
  <2>2. n \in Nat /\ n <= Len(s) /\ ~Partial(n)
    OBVIOUS
  <2>3. CASE n = 0
    <3> DEFINE h == [S \in SUBSET (1..0) |-> base]
    <3>1. h \in [SUBSET (1..0) -> A]
      OBVIOUS
    <3>2. \A S \in SUBSET (1..0) : S = {}
      OBVIOUS
    <3>3. FoldsUp(o, base, s, 0, h)
      BY <3>2 DEF FoldsUp
    <3> QED BY <2>2, <2>3, <3>1, <3>3
  <2>4. CASE n # 0
    <3>1. n - 1 \in Nat /\ n - 1 <= Len(s) /\ ~(n <= n - 1) /\ Len(s) \in Nat
      BY <2>2, <2>4
    <3>2. Partial(n - 1)
      BY <2>1, <3>1
    <3>3. PICK g \in [SUBSET (1..(n - 1)) -> A] : FoldsUp(o, base, s, n - 1, g)
      BY <3>2
    <3> DEFINE h == [S \in SUBSET (1..n) |-> IF n \in S THEN o[<<g[S \ {n}], s[n]>>] ELSE g[S]]
    <3>4. s[n] \in B
      BY <2>2, <2>4, <3>1
    <3>5. ASSUME NEW S \in SUBSET (1..n) PROVE S \ {n} \in SUBSET (1..(n - 1))
      <4>1. ASSUME NEW i \in S, i # n PROVE i \in 1..(n - 1)
        BY <2>2, <4>1
      <4> QED BY <4>1
    <3>6. ASSUME NEW S \in SUBSET (1..n), n \notin S PROVE h[S] = g[S] /\ S \in SUBSET (1..(n - 1))
      BY <3>5, <3>6
    <3>7. ASSUME NEW S \in SUBSET (1..n), n \in S
          PROVE  h[S] = o[<<g[S \ {n}], s[n]>>] /\ g[S \ {n}] \in A /\ h[S \ {n}] = g[S \ {n}]
      BY <3>5, <3>7
    <3> HIDE DEF h
    <3>8. h \in [SUBSET (1..n) -> A]
      <4>1. h = [S \in SUBSET (1..n) |-> h[S]]
        BY DEF h
      <4>2. ASSUME NEW S \in SUBSET (1..n) PROVE h[S] \in A
        BY <3>3, <3>4, <3>6, <3>7
      <4> QED BY <4>1, <4>2
    <3>9. ASSUME NEW S \in SUBSET (1..n)
          PROVE  h[S] = IF S = {} THEN base ELSE o[<<h[S \ {Max(S)}], s[Max(S)]>>]
      <4>1. CASE n \in S
        <5>1. Max(S) = n
          BY <2>2, <4>1, MaxIsLast
        <5> QED BY <3>7, <4>1, <5>1
      <4>2. CASE n \notin S
        <5>1. h[S] = g[S] /\ S \in SUBSET (1..(n - 1))
          BY <3>6, <4>2
        <5>2. h[S \ {Max(S)}] = g[S \ {Max(S)}]
          <6>1. S \ {Max(S)} \in SUBSET (1..n) /\ n \notin S \ {Max(S)}
            BY <4>2
          <6> QED BY <3>6, <6>1
        <5> QED BY <3>3, <5>1, <5>2 DEF FoldsUp
      <4> QED BY <4>1, <4>2
    <3> QED BY <2>2, <3>8, <3>9 DEF FoldsUp
  <2> QED BY <2>3, <2>4
<1>2. Len(s) \in Nat /\ Len(s) <= Len(s)
  OBVIOUS
<1>3. Partial(Len(s))
  BY <1>1, <1>2
<1> QED BY <1>3

\* One index after the other, and what holds of every prefix.
LEMMA FoldPrefix ==
    ASSUME NEW k \in Nat \ {0}
    PROVE  Max(1..k) = k /\ (1..k) \ {k} = 1..(k - 1) /\ 1..0 = {}
<1>1. Max(1..k) = k
  BY MaxIsLast
<1> QED BY <1>1

-----------------------------------------------------------------------------
(* The two folds of the model, prefix by prefix.                             *)

Char == Nat \X Nat
Acc == [out : Seq(Seq(Char)), buf : Seq(Char)]
Start == [out |-> <<>>, buf |-> <<>>]
Joined(s, p) == s \o Break \o p

TakesUp(s, g) ==
    g = [S \in SUBSET DOMAIN s |-> IF S = {} THEN Start ELSE Take(g[S \ {Max(S)}], s[Max(S)])]

JoinsUp(base, s, g) ==
    g = [S \in SUBSET DOMAIN s |-> IF S = {} THEN base ELSE g[S \ {Max(S)}] \o Break \o s[Max(S)]]

LEMMA TakesFold ==
    ASSUME NEW s
    PROVE  FoldLeft(Take, [out |-> <<>>, buf |-> <<>>], s) = (CHOOSE g : TakesUp(s, g))[DOMAIN s]
BY Zenon DEF FoldLeft, MapThenFoldSet, TakesUp, Start

LEMMA JoinsFold ==
    ASSUME NEW paragraphs
    PROVE  Text(paragraphs)
             = (CHOOSE g : JoinsUp(Head(paragraphs), Tail(paragraphs), g))[DOMAIN Tail(paragraphs)]
BY Zenon DEF Text, FoldLeft, MapThenFoldSet, JoinsUp
LEMMA TrimEndIs ==
    ASSUME NEW t \in Seq(Char)
    PROVE  \E n \in 0..Len(t) : /\ TrimEnd(t) = SubSeq(t, 1, n)
                                /\ \A i \in DOMAIN t : t[i] # Newline => i <= n
<1> DEFINE visible == {i \in DOMAIN t : t[i] # Newline}
           Ends(n) == (n = 0 \/ n \in visible) /\ \A i \in visible : i <= n
<1>1. \E n \in 0..Len(t) : Ends(n)
  <2>1. visible \in SUBSET (1..Len(t)) /\ Len(t) \in Nat
    OBVIOUS
  <2>2. CASE visible = {}
    <3>1. 0 \in 0..Len(t) /\ Ends(0)
      BY <2>1, <2>2
    <3> QED BY <3>1
  <2>3. CASE visible # {}
    <3>1. PICK n : n = Max(visible)
      OBVIOUS
    <3> HIDE DEF visible
    <3>2. n \in visible /\ \A i \in visible : i <= n
      BY <2>1, <2>3, <3>1, MaxIndex
    <3>3. n \in 0..Len(t)
      BY <2>1, <3>2
    <3> QED BY <3>2, <3>3
  <2> QED BY <2>2, <2>3
<1> DEFINE n == CHOOSE n \in 0..Len(t) : Ends(n)
<1>2. n \in 0..Len(t) /\ Ends(n)
  BY <1>1
<1>3. TrimEnd(t) = SubSeq(t, 1, n)
  BY Zenon DEF TrimEnd
<1> QED BY <1>2, <1>3

\* Cutting newlines off the end takes away nothing that can be seen.
LEMMA TrimEndKeeps ==
    ASSUME NEW t \in Seq(Char)
    PROVE  /\ TrimEnd(t) \in Seq(Char) /\ Len(TrimEnd(t)) <= Len(t)
           /\ Visible(TrimEnd(t)) = Visible(t)
           /\ Ordered(t) => Ordered(TrimEnd(t))
<1>1. PICK n \in 0..Len(t) : /\ TrimEnd(t) = SubSeq(t, 1, n)
                             /\ \A i \in DOMAIN t : t[i] # Newline => i <= n
  BY TrimEndIs
<1> DEFINE u == SubSeq(t, 1, n)
<1>2. Len(t) \in Nat /\ DOMAIN t = 1..Len(t)
  OBVIOUS
<1>3. u \in Seq(Char) /\ Len(u) = n /\ DOMAIN u = 1..n /\ \A i \in 1..n : u[i] = t[i]
  BY <1>2
<1> HIDE DEF u
<1>4. Visible(u) = Visible(t)
  BY <1>1, <1>2, <1>3 DEF Visible, ToSet
<1>5. Ordered(t) => Ordered(u)
  BY <1>2, <1>3 DEF Ordered
<1>6. Len(u) <= Len(t)
  BY <1>2, <1>3
<1> QED BY <1>1, <1>3, <1>4, <1>5, <1>6 DEF u

LEMMA BlankShowsNothing ==
    ASSUME NEW t \in Seq(Char), Blank(t)
    PROVE  Visible(t) = {}
<1>1. Visible(<<>>) = {}
  BY DEF Visible, ToSet
<1> QED BY <1>1, TrimEndKeeps DEF Blank

LEMMA BreakShowsNothing == Break \in Seq(Char) /\ Len(Break) = 2 /\ Visible(Break) = {} /\ Ordered(Break)
<1>1. Break \in Seq(Char) /\ Len(Break) = 2 /\ Break[1] = Newline /\ Break[2] = Newline /\ DOMAIN Break = 1..2
  BY DEF Break, Newline, Char
<1>2. Visible(Break) = {}
  BY <1>1 DEF Visible, ToSet
<1>3. Ordered(Break)
  BY <1>1 DEF Ordered
<1> QED BY <1>1, <1>2, <1>3

\* One text after the other.
LEMMA TextsJoin ==
    ASSUME NEW t \in Seq(Char), NEW u \in Seq(Char)
    PROVE  /\ t \o u \in Seq(Char) /\ Len(t \o u) = Len(t) + Len(u)
           /\ Visible(t \o u) = Visible(t) \cup Visible(u)
           /\ Ordered(t) /\ Ordered(u) /\ (\A c \in Visible(t), d \in Visible(u) : Earlier(c, d))
                => Ordered(t \o u)
<1> DEFINE w == t \o u
<1>1. /\ w \in Seq(Char) /\ Len(w) = Len(t) + Len(u) /\ Len(t) \in Nat /\ Len(u) \in Nat
      /\ DOMAIN t = 1..Len(t) /\ DOMAIN u = 1..Len(u) /\ DOMAIN w = 1..(Len(t) + Len(u))
      /\ \A i \in 1..Len(t) : w[i] = t[i]
      /\ \A i \in 1..Len(u) : w[Len(t) + i] = u[i]
  OBVIOUS
<1> HIDE DEF w
<1>2. ASSUME NEW i \in DOMAIN w
      PROVE  \/ i \in DOMAIN t /\ w[i] = t[i]
             \/ i - Len(t) \in DOMAIN u /\ w[i] = u[i - Len(t)]
  <2>1. CASE i <= Len(t)
    BY <1>1, <2>1
  <2>2. CASE ~(i <= Len(t))
    <3>1. i - Len(t) \in 1..Len(u) /\ Len(t) + (i - Len(t)) = i
      BY <1>1, <2>2
    <3> QED BY <1>1, <3>1
  <2> QED BY <2>1, <2>2
<1>3. ToSet(w) = ToSet(t) \cup ToSet(u)
  <2>1. ToSet(w) \subseteq ToSet(t) \cup ToSet(u)
    BY <1>2 DEF ToSet
  <2>2. ToSet(t) \subseteq ToSet(w)
    BY <1>1 DEF ToSet
  <2>3. ToSet(u) \subseteq ToSet(w)
    <3>1. ASSUME NEW i \in DOMAIN u PROVE Len(t) + i \in DOMAIN w /\ u[i] = w[Len(t) + i]
      BY <1>1
    <3> QED BY <3>1 DEF ToSet
  <2> QED BY <2>1, <2>2, <2>3
<1>4. Visible(w) = Visible(t) \cup Visible(u)
  BY <1>3 DEF Visible
<1>5. ASSUME Ordered(t), Ordered(u), \A c \in Visible(t), d \in Visible(u) : Earlier(c, d)
      PROVE  Ordered(w)
  <2> SUFFICES ASSUME NEW i \in DOMAIN w, NEW j \in DOMAIN w, i < j, w[i] # Newline, w[j] # Newline
               PROVE  Earlier(w[i], w[j])
    BY DEF Ordered
  <2>1. CASE j \in DOMAIN t
    <3>1. i \in DOMAIN t /\ w[i] = t[i] /\ w[j] = t[j]
      BY <1>1, <2>1
    <3> QED BY <1>5, <2>1, <3>1 DEF Ordered
  <2>2. CASE i \notin DOMAIN t
    <3>1. /\ i - Len(t) \in DOMAIN u /\ w[i] = u[i - Len(t)]
          /\ j - Len(t) \in DOMAIN u /\ w[j] = u[j - Len(t)]
          /\ i - Len(t) < j - Len(t)
      BY <1>1, <1>2, <2>2
    <3> QED BY <1>5, <3>1 DEF Ordered
  <2>3. CASE i \in DOMAIN t /\ j \notin DOMAIN t
    <3>1. w[i] \in Visible(t)
      BY <1>1, <2>3 DEF Visible, ToSet
    <3>2. w[j] \in Visible(u)
      BY <1>2, <2>3 DEF Visible, ToSet
    <3> QED BY <1>5, <3>1, <3>2
  <2> QED BY <2>1, <2>2, <2>3
<1> QED BY <1>1, <1>4, <1>5 DEF w

-----------------------------------------------------------------------------
(* Slices of a long piece. *)

\* How many slices a text of L characters takes.
Slicing(L) == (L + ChunkMax - 1) \div ChunkMax

LEMMA SlicesCover ==
    ASSUME NEW L \in Nat \ {0}
    PROVE  /\ Slicing(L) \in Nat \ {0}
           /\ L <= Slicing(L) * ChunkMax
           /\ (Slicing(L) - 1) * ChunkMax < L
<1> USE ReplyConstants
<1> DEFINE x == L + ChunkMax - 1
           n == x \div ChunkMax
           r == x % ChunkMax
<1>1. x \in Nat /\ ChunkMax \in Nat \ {0} /\ x >= ChunkMax
  OBVIOUS
<1> HIDE DEF x
<1>2. n \in Int /\ r \in Int /\ x = n * ChunkMax + r /\ 0 <= r /\ r < ChunkMax
  BY <1>1
<1> QED BY <1>1, <1>2 DEF Slicing, x

LEMMA Multiples ==
    ASSUME NEW j \in Nat, NEW k \in Nat, j <= k
    PROVE  /\ j * ChunkMax \in Nat /\ (j - 1) * ChunkMax = j * ChunkMax - ChunkMax
           /\ j * ChunkMax <= k * ChunkMax
<1>1. ChunkMax \in Nat
  BY ReplyConstants
<1>2. j * ChunkMax \in Nat /\ k * ChunkMax \in Nat /\ (j - 1) * ChunkMax = j * ChunkMax - ChunkMax
  BY <1>1
<1>3. k - j \in Nat /\ (k - j) * ChunkMax \in Nat
  BY <1>1
<1>4. (k - j) * ChunkMax = k * ChunkMax - j * ChunkMax
  BY <1>1
<1>5. ASSUME NEW a \in Nat, NEW b \in Nat, b - a \in Nat PROVE a <= b
  BY <1>5
<1>6. j * ChunkMax <= k * ChunkMax
  <2> DEFINE a == j * ChunkMax
             b == k * ChunkMax
  <2>1. a \in Nat /\ b \in Nat /\ b - a \in Nat
    BY <1>2, <1>3, <1>4
  <2> HIDE DEF a, b
  <2>2. a <= b
    BY <1>5, <2>1
  <2> QED BY <2>2 DEF a, b
<1> QED BY <1>2, <1>6

\* The slices of s show every position of s once, in its order.
SlicedAt(s, slices) ==
    /\ \A j \in DOMAIN slices : \A i \in DOMAIN slices[j] :
          /\ (j - 1) * ChunkMax + i \in DOMAIN s
          /\ slices[j][i] = s[(j - 1) * ChunkMax + i]
    /\ \A p \in DOMAIN s : \E j \in DOMAIN slices : \E i \in DOMAIN slices[j] :
          p = (j - 1) * ChunkMax + i

LEMMA SlicesAre ==
    ASSUME NEW s \in Seq(Char), s # <<>>
    PROVE  /\ Slices(s) \in Seq(Seq(Char)) /\ Slices(s) # <<>>
           /\ \A j \in DOMAIN Slices(s) : Len(Slices(s)[j]) <= ChunkMax
           /\ SlicedAt(s, Slices(s))
<1> DEFINE L == Len(s)
           n == Slicing(L)
           from(j) == (j - 1) * ChunkMax + 1
           to(j) == IF j * ChunkMax < L THEN j * ChunkMax ELSE L
<1>1. L \in Nat \ {0} /\ DOMAIN s = 1..L
  OBVIOUS
<1>2. n \in Nat \ {0} /\ L <= n * ChunkMax /\ (n - 1) * ChunkMax < L
  BY <1>1, SlicesCover
<1>3. Slices(s) = [j \in 1..n |-> SubSeq(s, from(j), to(j))]
  BY DEF Slices, Slicing
<1>4. ChunkMax \in Nat \ {0}
  BY ReplyConstants
<1> HIDE DEF L, n
<1>5. ASSUME NEW j \in 1..n
      PROVE  /\ from(j) \in 1..L /\ to(j) \in 1..L /\ from(j) <= to(j) /\ to(j) <= j * ChunkMax
             /\ to(j) - (j - 1) * ChunkMax <= ChunkMax /\ (j - 1) * ChunkMax \in Nat
             /\ j * ChunkMax \in Nat /\ (j - 1) * ChunkMax = j * ChunkMax - ChunkMax
  <2>1. j \in Nat \ {0} /\ j - 1 \in Nat /\ n - 1 \in Nat /\ j - 1 <= n - 1 /\ j <= n
    BY <1>2
  <2>2. (j - 1) * ChunkMax \in Nat /\ (j - 1) * ChunkMax <= (n - 1) * ChunkMax
    BY <2>1, Multiples
  <2>3. j * ChunkMax \in Nat /\ (j - 1) * ChunkMax = j * ChunkMax - ChunkMax
    BY <2>1, Multiples
  <2>4. (n - 1) * ChunkMax \in Nat
    BY <2>1, Multiples
  <2> DEFINE a == (j - 1) * ChunkMax
             b == j * ChunkMax
             c == (n - 1) * ChunkMax
  <2>5. a \in Nat /\ b \in Nat /\ c \in Nat /\ a <= c /\ c < L /\ a = b - ChunkMax
    BY <1>2, <2>2, <2>3, <2>4
  <2>6. from(j) = a + 1 /\ to(j) = IF b < L THEN b ELSE L
    OBVIOUS
  <2> HIDE DEF a, b, c, from, to
  <2>7. from(j) \in 1..L /\ to(j) \in 1..L /\ from(j) <= to(j) /\ to(j) <= b /\ to(j) - a <= ChunkMax
    BY <1>1, <1>4, <2>5, <2>6
  <2> QED BY <2>5, <2>7 DEF a, b
<1>6. ASSUME NEW j \in 1..n
      PROVE  LET t == SubSeq(s, from(j), to(j))
                 a == (j - 1) * ChunkMax
             IN  /\ t \in Seq(Char) /\ Len(t) = to(j) - a /\ DOMAIN t = 1..(to(j) - a)
                 /\ \A i \in 1..(to(j) - a) : t[i] = s[a + i] /\ a + i \in 1..L
  <2> DEFINE t == SubSeq(s, from(j), to(j))
             a == (j - 1) * ChunkMax
             f == a + 1
             e == to(j)
  <2>1. f \in 1..L /\ e \in 1..L /\ f <= e /\ a \in Nat
    BY <1>5
  <2>2. t = SubSeq(s, f, e)
    OBVIOUS
  <2> HIDE DEF t, f, e, to, from
  <2>3. t \in Seq(Char) /\ Len(t) = e - f + 1 /\ \A i \in 1..(e - f + 1) : t[i] = s[f + i - 1]
    BY <1>1, <2>1, <2>2 DEF L
  <2>4. e - f + 1 = e - a /\ \A i \in 1..(e - a) : f + i - 1 = a + i /\ a + i \in 1..L
    <3> HIDE DEF a
    <3>1. f = a + 1
      BY DEF f
    <3> QED BY <1>1, <2>1, <3>1
  <2>5. t \in Seq(Char) /\ Len(t) = e - a /\ DOMAIN t = 1..(e - a)
        /\ \A i \in 1..(e - a) : t[i] = s[a + i] /\ a + i \in 1..L
    BY <2>3, <2>4
  <2> QED BY <2>5 DEF t, e
<1> DEFINE slices == Slices(s)
<1>7. slices \in Seq(Seq(Char)) /\ DOMAIN slices = 1..n
  <2>1. \A j \in 1..n : SubSeq(s, from(j), to(j)) \in Seq(Char)
    BY <1>6
  <2> HIDE DEF from, to
  <2> QED BY <1>2, <1>3, <2>1
<1>8. \A j \in 1..n : slices[j] = SubSeq(s, from(j), to(j))
  BY <1>3
<1>9. Slices(s) # <<>>
  BY <1>2, <1>7
<1>10. \A j \in DOMAIN slices : Len(slices[j]) <= ChunkMax
  BY <1>5, <1>6, <1>7, <1>8
<1>11. ASSUME NEW j \in DOMAIN slices, NEW i \in DOMAIN slices[j]
       PROVE  (j - 1) * ChunkMax + i \in DOMAIN s /\ slices[j][i] = s[(j - 1) * ChunkMax + i]
  BY <1>1, <1>6, <1>7, <1>8
<1>12. ASSUME NEW p \in DOMAIN s
       PROVE  \E j \in DOMAIN slices : \E i \in DOMAIN slices[j] : p = (j - 1) * ChunkMax + i
  <2> DEFINE Reach == {j \in Nat : p <= j * ChunkMax}
  <2>1. p \in Nat \ {0} /\ p <= L
    BY <1>1
  <2>2. n \in Reach
    <3>1. p <= n * ChunkMax
      <4>1. n * ChunkMax \in Nat
        BY <1>2, Multiples
      <4> QED BY <1>1, <1>2, <2>1, <4>1
    <3> QED BY <1>2, <3>1
  <2>3. PICK j \in Reach : \A k \in Reach : j <= k
    <3>1. Reach \subseteq Nat /\ Reach # {}
      BY <2>2
    <3> QED BY <3>1, LeastNumber
  <2>4. j \in 1..n
    <3>1. j # 0
      BY <2>1, <1>4
    <3> QED BY <1>2, <2>2, <2>3, <3>1
  <2>5. (j - 1) * ChunkMax < p
    <3>1. j - 1 \in Nat /\ ~(j <= j - 1)
      BY <2>4
    <3>2. ~(p <= (j - 1) * ChunkMax)
      BY <2>3, <3>1
    <3>3. (j - 1) * ChunkMax \in Nat
      BY <3>1, Multiples
    <3> QED BY <2>1, <3>2, <3>3
  <2> DEFINE a == (j - 1) * ChunkMax
             i == p - a
  <2>6. a \in Nat /\ p <= to(j) /\ to(j) \in 1..L
    BY <1>5, <2>1, <2>3, <2>4
  <2>7. i \in 1..(to(j) - a) /\ p = a + i
    <3> HIDE DEF to
    <3>1. a < p
      BY <2>5
    <3> HIDE DEF a
    <3> QED BY <2>1, <2>6, <3>1
  <2>8. i \in DOMAIN slices[j]
    BY <1>6, <1>8, <2>4, <2>7
  <2> QED BY <1>7, <2>4, <2>7, <2>8
<1> QED BY <1>7, <1>9, <1>10, <1>11, <1>12 DEF SlicedAt

\* Slices are in the order of the text they are cut from and show the same.
LEMMA SlicesShowAll ==
    ASSUME NEW s \in Seq(Char), s # <<>>, Ordered(s)
    PROVE  VisibleIn(Slices(s)) = Visible(s) /\ InOrder(Slices(s))
<1> DEFINE slices == Slices(s)
<1>1. /\ slices \in Seq(Seq(Char)) /\ SlicedAt(s, slices)
      /\ \A j \in DOMAIN slices : Len(slices[j]) <= ChunkMax
  BY SlicesAre
<1> HIDE DEF slices
<1>2. \A j \in DOMAIN slices : slices[j] \in Seq(Char) /\ j \in Nat \ {0}
  BY <1>1
<1>3. VisibleIn(slices) = Visible(s)
  <2>1. ASSUME NEW j \in DOMAIN slices PROVE Visible(slices[j]) \subseteq Visible(s)
    BY <1>1 DEF SlicedAt, Visible, ToSet
  <2>2. ASSUME NEW c \in Visible(s) PROVE c \in VisibleIn(slices)
    <3>1. PICK p \in DOMAIN s : s[p] = c
      BY DEF Visible, ToSet
    <3>2. PICK j \in DOMAIN slices : \E i \in DOMAIN slices[j] : p = (j - 1) * ChunkMax + i
      BY <1>1 DEF SlicedAt
    <3>3. c \in Visible(slices[j])
      BY <1>1, <3>1, <3>2 DEF SlicedAt, Visible, ToSet
    <3> QED BY <3>3 DEF VisibleIn
  <2> QED BY <2>1, <2>2 DEF VisibleIn
<1>4. ASSUME NEW j \in DOMAIN slices, NEW i \in DOMAIN slices[j],
             NEW l \in DOMAIN slices, NEW k \in DOMAIN slices[l],
             j < l \/ (j = l /\ i < k),
             slices[j][i] # Newline, slices[l][k] # Newline
      PROVE  Earlier(slices[j][i], slices[l][k])
  <2> DEFINE a == (j - 1) * ChunkMax
             b == (l - 1) * ChunkMax
  <2>1. a + i \in DOMAIN s /\ b + k \in DOMAIN s /\ slices[j][i] = s[a + i] /\ slices[l][k] = s[b + k]
    BY <1>1 DEF SlicedAt
  <2>2. j \in Nat \ {0} /\ l \in Nat \ {0} /\ ChunkMax \in Nat
    BY <1>2, ReplyConstants
  <2>3. i \in 1..ChunkMax /\ k \in Nat \ {0} /\ i \in Nat
    <3>1. i \in 1..Len(slices[j]) /\ Len(slices[j]) \in Nat /\ Len(slices[j]) <= ChunkMax
      BY <1>1, <1>2
    <3>2. k \in 1..Len(slices[l]) /\ Len(slices[l]) \in Nat
      BY <1>2
    <3> QED BY <2>2, <3>1, <3>2
  <2>4. a \in Nat /\ b \in Nat
    <3>1. j - 1 \in Nat /\ l - 1 \in Nat
      BY <2>2
    <3> QED BY <3>1, Multiples
  <2>5. j < l => a + ChunkMax <= b
    <3> SUFFICES ASSUME j < l PROVE a + ChunkMax <= b
      OBVIOUS
    <3>1. l - 1 \in Nat /\ j <= l - 1
      BY <2>2
    <3>2. j * ChunkMax <= b /\ j * ChunkMax \in Nat /\ a = j * ChunkMax - ChunkMax
      BY <2>2, <3>1, Multiples
    <3> DEFINE m == j * ChunkMax
    <3>3. m <= b /\ m \in Nat /\ a = m - ChunkMax
      BY <3>2
    <3> HIDE DEF a, b, m
    <3> QED BY <2>2, <2>4, <3>3
  <2>6. a + i < b + k
    <3>1. j = l => a = b
      OBVIOUS
    <3> HIDE DEF a, b
    <3> QED BY <1>4, <2>2, <2>3, <2>4, <2>5, <3>1
  <2> QED BY <1>4, <2>1, <2>6 DEF Ordered
<1>5. \A j \in DOMAIN slices : Ordered(slices[j])
  BY <1>4 DEF Ordered
<1>6. ASSUME NEW j \in DOMAIN slices, NEW l \in DOMAIN slices, j < l,
             NEW c \in Visible(slices[j]), NEW d \in Visible(slices[l])
      PROVE  Earlier(c, d)
  <2>1. PICK i \in DOMAIN slices[j] : slices[j][i] = c
    BY DEF Visible, ToSet
  <2>2. PICK k \in DOMAIN slices[l] : slices[l][k] = d
    BY DEF Visible, ToSet
  <2>3. slices[j][i] # Newline /\ slices[l][k] # Newline
    BY <2>1, <2>2 DEF Visible
  <2>4. Earlier(slices[j][i], slices[l][k])
    BY <1>4, <1>6, <2>3
  <2> QED BY <2>1, <2>2, <2>4
<1> QED BY <1>3, <1>5, <1>6 DEF InOrder, slices

-----------------------------------------------------------------------------
(* Lists of texts. *)

\* A paragraph that fits in a message is in one text.
Whole(texts, lengths) ==
    \A p, q \in DOMAIN texts : \A c \in Visible(texts[p]), d \in Visible(texts[q]) :
        c[1] = d[1] /\ lengths[c[1]] <= ChunkMax => p = q

\* The texts show the characters in S, in order and with whole paragraphs, and each
\* of them fits in a message.
Carries(texts, lengths, S) ==
    /\ texts \in Seq(Seq(Char))
    /\ \A k \in DOMAIN texts : Len(texts[k]) <= ChunkMax
    /\ VisibleIn(texts) = S
    /\ InOrder(texts)
    /\ Whole(texts, lengths)

\* All characters in S are of earlier paragraphs than those in R.
Precedes(S, R) == \A c \in S, d \in R : c[1] < d[1]

LEMMA NoTexts == ASSUME NEW lengths PROVE Carries(<<>>, lengths, {})
BY DEF Carries, VisibleIn, InOrder, Whole

LEMMA VisibleChars ==
    ASSUME NEW t \in Seq(Char)
    PROVE  Visible(t) \subseteq Char
<1>1. \A i \in DOMAIN t : t[i] \in Char
  OBVIOUS
<1> QED BY <1>1 DEF Visible, ToSet

LEMMA PrecedesIsEarlier ==
    ASSUME NEW S, NEW R, Precedes(S, R), NEW c \in S, NEW d \in R
    PROVE  Earlier(c, d)
BY DEF Precedes, Earlier

LEMMA OneText ==
    ASSUME NEW t \in Seq(Char), Len(t) <= ChunkMax, Ordered(t), NEW lengths
    PROVE  Carries(<<t>>, lengths, Visible(t))
<1> DEFINE texts == <<t>>
<1>1. texts \in Seq(Seq(Char)) /\ DOMAIN texts = {1} /\ texts[1] = t
  OBVIOUS
<1> HIDE DEF texts
<1>2. Carries(texts, lengths, Visible(t))
  BY <1>1 DEF Carries, VisibleIn, InOrder, Whole
<1> QED BY <1>2 DEF texts

LEMMA JoinLists ==
    ASSUME NEW T, NEW U, NEW lengths, NEW S, NEW R, Carries(T, lengths, S), Carries(U, lengths, R),
           Precedes(S, R), S \subseteq Char, R \subseteq Char
    PROVE  Carries(T \o U, lengths, S \cup R)
<1> DEFINE W == T \o U
<1>1. T \in Seq(Seq(Char)) /\ U \in Seq(Seq(Char))
  BY DEF Carries
<1>2. /\ W \in Seq(Seq(Char)) /\ Len(T) \in Nat /\ Len(U) \in Nat
      /\ DOMAIN T = 1..Len(T) /\ DOMAIN U = 1..Len(U) /\ DOMAIN W = 1..(Len(T) + Len(U))
      /\ \A i \in 1..Len(T) : W[i] = T[i]
      /\ \A i \in 1..Len(U) : W[Len(T) + i] = U[i]
  BY <1>1
<1> HIDE DEF W
<1>3. ASSUME NEW i \in DOMAIN W
      PROVE  \/ i \in DOMAIN T /\ W[i] = T[i]
             \/ i \notin DOMAIN T /\ i - Len(T) \in DOMAIN U /\ W[i] = U[i - Len(T)]
  <2>1. CASE i <= Len(T)
    BY <1>2, <2>1
  <2>2. CASE ~(i <= Len(T))
    <3>1. i - Len(T) \in 1..Len(U) /\ Len(T) + (i - Len(T)) = i
      BY <1>2, <2>2
    <3> QED BY <1>2, <2>2, <3>1
  <2> QED BY <2>1, <2>2
<1>4. \A k \in DOMAIN W : Len(W[k]) <= ChunkMax /\ Ordered(W[k])
  BY <1>3 DEF Carries, InOrder
<1>5. VisibleIn(W) = S \cup R
  <2>1. VisibleIn(W) \subseteq S \cup R
    BY <1>3 DEF Carries, VisibleIn
  <2>2. S \subseteq VisibleIn(W)
    <3>1. \A i \in DOMAIN T : i \in DOMAIN W /\ W[i] = T[i]
      BY <1>2
    <3> QED BY <3>1 DEF Carries, VisibleIn
  <2>3. R \subseteq VisibleIn(W)
    <3>1. \A i \in DOMAIN U : Len(T) + i \in DOMAIN W /\ W[Len(T) + i] = U[i]
      BY <1>2
    <3> QED BY <3>1 DEF Carries, VisibleIn
  <2> QED BY <2>1, <2>2, <2>3
<1>6. ASSUME NEW p \in DOMAIN W, NEW q \in DOMAIN W, NEW c \in Visible(W[p]), NEW d \in Visible(W[q])
      PROVE  /\ p < q => Earlier(c, d)
             /\ c[1] = d[1] /\ lengths[c[1]] <= ChunkMax => p = q
  <2>1. CASE p \in DOMAIN T /\ q \in DOMAIN T
    BY <1>3, <2>1 DEF Carries, InOrder, Whole
  <2>2. CASE p \notin DOMAIN T /\ q \notin DOMAIN T
    <3>1. /\ p - Len(T) \in DOMAIN U /\ q - Len(T) \in DOMAIN U
          /\ c \in Visible(U[p - Len(T)]) /\ d \in Visible(U[q - Len(T)])
      BY <1>3, <2>2
    <3>2. /\ p < q => p - Len(T) < q - Len(T)
          /\ p - Len(T) = q - Len(T) => p = q
      BY <1>2
    <3> QED BY <3>1, <3>2 DEF Carries, InOrder, Whole
  <2>3. CASE p \in DOMAIN T /\ q \notin DOMAIN T
    <3>1. c \in S /\ d \in R
      BY <1>3, <2>3 DEF Carries, VisibleIn
    <3>2. c[1] < d[1] /\ c[1] \in Nat /\ d[1] \in Nat
      BY <3>1 DEF Precedes, Char
    <3> QED BY <3>2 DEF Earlier
  <2>4. CASE p \notin DOMAIN T /\ q \in DOMAIN T
    <3>1. c \in R /\ d \in S
      BY <1>3, <2>4 DEF Carries, VisibleIn
    <3>2. d[1] < c[1] /\ c[1] \in Nat /\ d[1] \in Nat
      BY <3>1 DEF Precedes, Char
    <3>3. ~(p < q)
      BY <1>2, <2>4
    <3> QED BY <3>2, <3>3
  <2> QED BY <2>1, <2>2, <2>3, <2>4
<1> QED BY <1>2, <1>4, <1>5, <1>6 DEF Carries, InOrder, Whole, W

\* The last text may be replaced by one that shows more, of later paragraphs.
LEMMA ChangeLast ==
    ASSUME NEW T \in Seq(Seq(Char)), NEW t \in Seq(Char), NEW lengths, NEW S, NEW R,
           Carries(Append(T, t), lengths, S), S \subseteq Char, R \subseteq Char, Precedes(S, R),
           NEW u \in Seq(Char), Len(u) <= ChunkMax, Ordered(u), Visible(u) = Visible(t) \cup R
    PROVE  Carries(Append(T, u), lengths, S \cup R)
<1> DEFINE V == Append(T, t)
           W == Append(T, u)
           n == Len(T) + 1
<1>1. /\ W \in Seq(Seq(Char)) /\ DOMAIN W = 1..n /\ DOMAIN V = 1..n /\ n \in Nat \ {0}
      /\ \A i \in 1..n : i # n => W[i] = T[i] /\ V[i] = T[i]
      /\ W[n] = u /\ V[n] = t
  OBVIOUS
<1>2. Carries(V, lengths, S)
  OBVIOUS
<1> HIDE DEF V, W, n
<1>3. \A i \in 1..n : i # n => W[i] = V[i]
  BY <1>1
<1>4. \A k \in DOMAIN W : Len(W[k]) <= ChunkMax /\ Ordered(W[k])
  BY <1>1, <1>2, <1>3 DEF Carries, InOrder
<1>5. VisibleIn(W) = S \cup R
  <2>1. VisibleIn(V) = S
    BY <1>2 DEF Carries
  <2>2. \A i \in 1..n : Visible(V[i]) \subseteq Visible(W[i])
    BY <1>1, <1>3
  <2>3. \A i \in 1..n : Visible(W[i]) \subseteq Visible(V[i]) \cup R
    BY <1>1, <1>3
  <2>4. R \subseteq Visible(W[n]) /\ n \in 1..n
    BY <1>1
  <2> QED BY <1>1, <2>1, <2>2, <2>3, <2>4 DEF VisibleIn
<1>6. ASSUME NEW p \in DOMAIN W, NEW q \in DOMAIN W, NEW c \in Visible(W[p]), NEW d \in Visible(W[q])
      PROVE  /\ p < q => Earlier(c, d)
             /\ c[1] = d[1] /\ lengths[c[1]] <= ChunkMax => p = q
  <2>1. /\ c \in Visible(V[p]) \/ (p = n /\ c \in R)
        /\ d \in Visible(V[q]) \/ (q = n /\ d \in R)
    <3>1. ASSUME NEW i \in DOMAIN W, NEW e \in Visible(W[i])
          PROVE  e \in Visible(V[i]) \/ (i = n /\ e \in R)
      <4>1. CASE i = n
        BY <1>1, <3>1, <4>1
      <4>2. CASE i # n
        BY <1>1, <1>3, <3>1, <4>2
      <4> QED BY <4>1, <4>2
    <3> QED BY <3>1
  <2>2. ASSUME NEW i \in DOMAIN W PROVE Visible(V[i]) \subseteq S
    BY <1>1, <1>2 DEF Carries, VisibleIn
  <2>3. CASE c \in Visible(V[p]) /\ d \in Visible(V[q])
    BY <1>1, <1>2, <2>3 DEF Carries, InOrder, Whole
  <2>4. CASE p = n /\ q = n
    BY <1>1, <2>4
  <2>5. CASE c \in Visible(V[p]) /\ q = n /\ d \in R
    <3>1. c \in S
      BY <2>2, <2>5
    <3>2. c[1] < d[1] /\ c[1] \in Nat /\ d[1] \in Nat
      BY <2>5, <3>1 DEF Precedes, Char
    <3> QED BY <3>2 DEF Earlier
  <2>6. CASE p = n /\ c \in R /\ d \in Visible(V[q])
    <3>1. d \in S
      BY <2>2, <2>6
    <3>2. d[1] < c[1] /\ c[1] \in Nat /\ d[1] \in Nat
      BY <2>6, <3>1 DEF Precedes, Char
    <3>3. ~(p < q)
      BY <1>1, <2>6
    <3> QED BY <3>2, <3>3
  <2> QED BY <2>1, <2>3, <2>4, <2>5, <2>6
<1> QED BY <1>1, <1>4, <1>5, <1>6 DEF Carries, InOrder, Whole, W

\* A text that shows nothing may be left out.
LEMMA LeaveOut ==
    ASSUME NEW T, NEW U, NEW t, NEW lengths, NEW S,
           T \in Seq(Seq(Char)), U \in Seq(Seq(Char)), t \in Seq(Char),
           Carries(T \o <<t>> \o U, lengths, S), Visible(t) = {}
    PROVE  Carries(T \o U, lengths, S)
<1> DEFINE V == T \o <<t>> \o U
           W == T \o U
           old(i) == IF i <= Len(T) THEN i ELSE i + 1
<1>1. /\ V \in Seq(Seq(Char)) /\ W \in Seq(Seq(Char)) /\ Len(T) \in Nat /\ Len(U) \in Nat
      /\ DOMAIN V = 1..(Len(T) + 1 + Len(U)) /\ DOMAIN W = 1..(Len(T) + Len(U))
      /\ V[Len(T) + 1] = t
  OBVIOUS
<1>2. ASSUME NEW i \in DOMAIN W PROVE W[i] = V[old(i)] /\ old(i) \in DOMAIN V
  OBVIOUS
<1>3. ASSUME NEW j \in DOMAIN V, j # Len(T) + 1 PROVE \E i \in DOMAIN W : old(i) = j
  <2>1. CASE j <= Len(T)
    BY <1>1, <2>1
  <2>2. CASE ~(j <= Len(T))
    <3>1. j - 1 \in DOMAIN W /\ old(j - 1) = j
      BY <1>1, <1>3, <2>2
    <3> QED BY <3>1
  <2> QED BY <2>1, <2>2
<1>4. ASSUME NEW i \in DOMAIN W, NEW j \in DOMAIN W
      PROVE  (i < j => old(i) < old(j)) /\ (old(i) = old(j) => i = j)
  <2>1. i \in Nat /\ j \in Nat /\ Len(T) \in Nat
    BY <1>1
  <2> HIDE DEF W, V
  <2> QED BY <2>1
<1>5. Carries(V, lengths, S)
  OBVIOUS
<1> HIDE DEF V, W, old
<1>6. VisibleIn(W) = VisibleIn(V)
  <2>1. VisibleIn(W) \subseteq VisibleIn(V)
    BY <1>2 DEF VisibleIn
  <2>2. ASSUME NEW j \in DOMAIN V PROVE Visible(V[j]) \subseteq VisibleIn(W)
    <3>1. CASE j = Len(T) + 1
      BY <1>1, <3>1
    <3>2. CASE j # Len(T) + 1
      BY <1>2, <1>3, <3>2 DEF VisibleIn
    <3> QED BY <3>1, <3>2
  <2> QED BY <2>1, <2>2 DEF VisibleIn
<1>7. InOrder(W)
  BY <1>2, <1>4, <1>5 DEF Carries, InOrder
<1>8. Whole(W, lengths)
  BY <1>2, <1>4, <1>5 DEF Carries, Whole
<1>9. \A k \in DOMAIN W : Len(W[k]) <= ChunkMax
  BY <1>2, <1>5 DEF Carries
<1> QED BY <1>1, <1>5, <1>6, <1>7, <1>8, <1>9 DEF Carries, W

-----------------------------------------------------------------------------
(* chunkForTelegram. *)

ParagraphChars(lengths, k) == {<<k, i>> : i \in 1..lengths[k]}

CharsUpTo(lengths, n) == {c \in Char : c[1] \in 1..n /\ c[2] \in 1..lengths[c[1]]}

LEMMA CharsGrow ==
    ASSUME NEW lengths \in Seq(Nat), NEW n \in DOMAIN lengths
    PROVE  /\ CharsUpTo(lengths, n) = CharsUpTo(lengths, n - 1) \cup ParagraphChars(lengths, n)
           /\ Precedes(CharsUpTo(lengths, n - 1), ParagraphChars(lengths, n))
           /\ ParagraphChars(lengths, n) \subseteq Char /\ CharsUpTo(lengths, n - 1) \subseteq Char
<1>1. n \in Nat \ {0} /\ lengths[n] \in Nat
  OBVIOUS
<1>2. ParagraphChars(lengths, n) = {c \in Char : c[1] = n /\ c[2] \in 1..lengths[n]}
  <2>1. ASSUME NEW i \in 1..lengths[n] PROVE <<n, i>> \in Char /\ (<<n, i>>)[1] = n /\ (<<n, i>>)[2] = i
    BY <1>1 DEF Char
  <2>2. ASSUME NEW c \in Char PROVE c = <<c[1], c[2]>>
    BY DEF Char
  <2> QED BY <2>1, <2>2 DEF ParagraphChars
<1>3. \A k \in Nat : k \in 1..n <=> k \in 1..(n - 1) \/ k = n
  BY <1>1
<1>4. \A c \in Char : c[1] \in Nat /\ c[2] \in Nat
  BY DEF Char
<1>5. CharsUpTo(lengths, n) = CharsUpTo(lengths, n - 1) \cup ParagraphChars(lengths, n)
  BY <1>2, <1>3, <1>4 DEF CharsUpTo
<1>6. Precedes(CharsUpTo(lengths, n - 1), ParagraphChars(lengths, n))
  BY <1>1, <1>2 DEF CharsUpTo, Precedes
<1> QED BY <1>2, <1>5, <1>6 DEF CharsUpTo

\* A paragraph with the newlines that follow it.
LEMMA PieceIs ==
    ASSUME NEW lengths \in Seq(Nat), NEW k \in DOMAIN lengths
    PROVE  LET p == Written(lengths)[k]
               piece == p \o Break
           IN  /\ p \in Seq(Char) /\ Len(p) = lengths[k]
               /\ Visible(p) = ParagraphChars(lengths, k) /\ Ordered(p)
               /\ piece \in Seq(Char) /\ Len(piece) = lengths[k] + 2
               /\ Visible(piece) = ParagraphChars(lengths, k) /\ Ordered(piece)
               /\ \A i \in DOMAIN piece : piece[i] # Newline => i <= lengths[k]
<1> DEFINE p == Written(lengths)[k]
           n == lengths[k]
<1>1. n \in Nat /\ k \in Nat \ {0}
  OBVIOUS
<1>2. p = [i \in 1..n |-> <<k, i>>]
  BY DEF Written
<1> HIDE DEF n, p
<1>3. /\ p \in Seq(Char) /\ Len(p) = n /\ DOMAIN p = 1..n
      /\ \A i \in 1..n : p[i] = <<k, i>> /\ p[i] # Newline
  <2>1. \A i \in 1..n : <<k, i>> \in Char /\ <<k, i>> # Newline
    BY <1>1 DEF Char, Newline
  <2> QED BY <1>1, <1>2, <2>1
<1>4. Visible(p) = ParagraphChars(lengths, k)
  BY <1>3 DEF Visible, ToSet, ParagraphChars, n
<1>5. Ordered(p)
  <2>1. \A i, j \in 1..n : i < j => Earlier(<<k, i>>, <<k, j>>)
    BY DEF Earlier
  <2> QED BY <1>3, <2>1 DEF Ordered
<1> DEFINE piece == p \o Break
<1>6. piece \in Seq(Char) /\ Len(piece) = n + 2 /\ Visible(piece) = ParagraphChars(lengths, k) /\ Ordered(piece)
  <2>1. Break \in Seq(Char) /\ Len(Break) = 2 /\ Visible(Break) = {} /\ Ordered(Break)
    BY BreakShowsNothing
  <2>2. /\ p \o Break \in Seq(Char) /\ Len(p \o Break) = Len(p) + Len(Break)
        /\ Visible(p \o Break) = Visible(p) \cup Visible(Break)
        /\ Ordered(p) /\ Ordered(Break) /\ (\A c \in Visible(p), d \in Visible(Break) : Earlier(c, d))
             => Ordered(p \o Break)
    BY <1>3, <2>1, TextsJoin
  <2> QED BY <1>3, <1>4, <1>5, <2>1, <2>2
<1>7. ASSUME NEW i \in DOMAIN piece, ~(i <= n) PROVE piece[i] = Newline
  <2>1. Break = <<Newline, Newline>> /\ DOMAIN Break = 1..2 /\ Len(Break) = 2
    BY DEF Break
  <2>2. i \in 1..(n + 2)
    BY <1>6
  <2>3. i - n \in 1..2 /\ n + (i - n) = i
    BY <1>1, <1>7, <2>2
  <2>4. piece[n + (i - n)] = Break[i - n]
    BY <1>3, <2>1, <2>3
  <2>5. Break[i - n] = Newline
    BY <2>1, <2>3
  <2> QED BY <2>3, <2>4, <2>5
<1> QED BY <1>3, <1>4, <1>5, <1>6, <1>7 DEF n, p

\* A paragraph that is cut carries its characters; if it would fit without the
\* newlines, its first slice has them all.
LEMMA SlicesCarry ==
    ASSUME NEW lengths \in Seq(Nat), NEW k \in DOMAIN lengths
    PROVE  LET piece == Written(lengths)[k] \o Break
           IN  Carries(Slices(piece), lengths, ParagraphChars(lengths, k)) /\ Slices(piece) # <<>>
<1> DEFINE piece == Written(lengths)[k] \o Break
           slices == Slices(piece)
<1>1. /\ piece \in Seq(Char) /\ Len(piece) = lengths[k] + 2 /\ lengths[k] \in Nat
      /\ Visible(piece) = ParagraphChars(lengths, k) /\ Ordered(piece)
      /\ \A i \in DOMAIN piece : piece[i] # Newline => i <= lengths[k]
  BY PieceIs
<1>2. piece # <<>>
  BY <1>1
<1> HIDE DEF piece
<1>3. /\ slices \in Seq(Seq(Char)) /\ slices # <<>> /\ SlicedAt(piece, slices)
      /\ \A j \in DOMAIN slices : Len(slices[j]) <= ChunkMax
  BY <1>1, <1>2, SlicesAre
<1>4. VisibleIn(slices) = ParagraphChars(lengths, k) /\ InOrder(slices)
  BY <1>1, <1>2, SlicesShowAll
<1> HIDE DEF slices
<1>5. ASSUME NEW j \in DOMAIN slices, NEW c \in Visible(slices[j]), lengths[k] <= ChunkMax
      PROVE  j = 1
  <2>1. PICK i \in DOMAIN slices[j] : slices[j][i] = c /\ c # Newline
    BY DEF Visible, ToSet
  <2>2. (j - 1) * ChunkMax + i <= lengths[k]
    BY <1>1, <1>3, <2>1 DEF SlicedAt
  <2>3. j \in Nat \ {0} /\ i \in Nat \ {0} /\ ChunkMax \in Nat
    BY <1>3, ReplyConstants
  <2>4. CASE j # 1
    <3>1. 1 \in Nat /\ j - 1 \in Nat /\ 1 <= j - 1
      BY <2>3, <2>4
    <3>2. 1 * ChunkMax <= (j - 1) * ChunkMax /\ (j - 1) * ChunkMax \in Nat
      BY <3>1, Multiples
    <3> DEFINE a == (j - 1) * ChunkMax
    <3>3. a \in Nat /\ ChunkMax <= a /\ a + i <= lengths[k]
      BY <2>2, <2>3, <3>2
    <3> HIDE DEF a
    <3> QED BY <1>1, <1>5, <2>3, <3>3
  <2> QED BY <2>4
<1>6. Whole(slices, lengths)
  <2> SUFFICES ASSUME NEW p \in DOMAIN slices, NEW q \in DOMAIN slices,
                      NEW c \in Visible(slices[p]), NEW d \in Visible(slices[q]),
                      lengths[c[1]] <= ChunkMax
               PROVE  p = q
    BY DEF Whole
  <2>1. c \in ParagraphChars(lengths, k)
    BY <1>4 DEF VisibleIn
  <2>2. c[1] = k
    BY <2>1 DEF ParagraphChars
  <2> QED BY <1>5, <2>2
<1> QED BY <1>3, <1>4, <1>6 DEF Carries, slices, piece

AccCarries(acc, lengths, n) ==
    /\ acc \in Acc
    /\ Carries(Append(acc.out, acc.buf), lengths, CharsUpTo(lengths, n))
    /\ n > 0 => acc.out # <<>> \/ acc.buf # <<>>

LEMMA FlushedCarries ==
    ASSUME NEW acc, NEW lengths \in Seq(Nat), NEW n \in Nat, AccCarries(acc, lengths, n)
    PROVE  /\ Carries(Flushed(acc), lengths, CharsUpTo(lengths, n))
           /\ n > 0 => Flushed(acc) # <<>>
<1> DEFINE S == CharsUpTo(lengths, n)
<1>1. acc.out \in Seq(Seq(Char)) /\ acc.buf \in Seq(Char) /\ Carries(Append(acc.out, acc.buf), lengths, S)
  BY DEF AccCarries, Acc
<1>2. S \subseteq Char
  BY DEF CharsUpTo
<1> HIDE DEF S
<1>3. CASE acc.buf = <<>>
  <2>1. acc.out \o << <<>> >> \o <<>> = Append(acc.out, <<>>) /\ acc.out \o <<>> = acc.out
    BY <1>1
  <2>2. Visible(<<>>) = {} /\ <<>> \in Seq(Char) /\ <<>> \in Seq(Seq(Char))
    BY DEF Visible, ToSet
  <2>3. Carries(acc.out \o << <<>> >> \o <<>>, lengths, S)
    BY <1>1, <1>3, <2>1
  <2>4. Carries(acc.out \o <<>>, lengths, S)
    BY <1>1, <2>2, <2>3, LeaveOut
  <2>5. Flushed(acc) = acc.out
    BY <1>3 DEF Flushed
  <2> QED BY <1>3, <2>1, <2>4, <2>5 DEF AccCarries, S
<1>4. CASE acc.buf # <<>>
  <2> DEFINE u == TrimEnd(acc.buf)
             n1 == Len(acc.out) + 1
  <2>1. Flushed(acc) = Append(acc.out, u)
    BY <1>4 DEF Flushed
  <2>2. Ordered(acc.buf) /\ Len(acc.buf) <= ChunkMax
    <3>1. n1 \in DOMAIN Append(acc.out, acc.buf) /\ Append(acc.out, acc.buf)[n1] = acc.buf
      BY <1>1
    <3> QED BY <1>1, <3>1 DEF Carries, InOrder
  <2>3. u \in Seq(Char) /\ Len(u) <= Len(acc.buf) /\ Visible(u) = Visible(acc.buf) /\ Ordered(u)
    BY <1>1, <2>2, TrimEndKeeps
  <2>4. Len(u) <= ChunkMax
    <3>1. Len(u) \in Nat /\ Len(acc.buf) \in Nat /\ ChunkMax \in Nat
      BY <1>1, <2>3, ReplyConstants
    <3> QED BY <2>2, <2>3, <3>1
  <2>5. Precedes(S, {}) /\ Visible(u) = Visible(acc.buf) \cup {}
    BY <2>3 DEF Precedes
  <2> HIDE DEF u
  <2>6. Carries(Append(acc.out, u), lengths, S \cup {})
    BY <1>1, <1>2, <2>3, <2>4, <2>5, ChangeLast
  <2>7. Append(acc.out, u) # <<>>
    <3> DEFINE w == Append(acc.out, u)
    <3>1. Len(w) = Len(acc.out) + 1 /\ Len(acc.out) \in Nat /\ Len(<<>>) = 0
      BY <1>1, <2>3
    <3> HIDE DEF w
    <3>2. w # <<>>
      BY <3>1
    <3> QED BY <3>2 DEF w
  <2> QED BY <2>1, <2>6, <2>7 DEF S
<1> QED BY <1>3, <1>4

LEMMA TakeCarries ==
    ASSUME NEW acc, NEW lengths \in Seq(Nat), NEW n \in DOMAIN lengths, AccCarries(acc, lengths, n - 1)
    PROVE  AccCarries(Take(acc, Written(lengths)[n]), lengths, n)
<1> DEFINE S == CharsUpTo(lengths, n - 1)
           R == ParagraphChars(lengths, n)
           piece == Written(lengths)[n] \o Break
           flushed == Flushed(acc)
<1>1. CharsUpTo(lengths, n) = S \cup R /\ Precedes(S, R) /\ S \subseteq Char /\ R \subseteq Char
  BY CharsGrow
<1>2. piece \in Seq(Char) /\ piece # <<>> /\ Visible(piece) = R /\ Ordered(piece) /\ Len(piece) \in Nat
  <2>1. piece \in Seq(Char) /\ Len(piece) = lengths[n] + 2 /\ Visible(piece) = R /\ Ordered(piece)
    BY PieceIs
  <2>2. lengths[n] \in Nat
    OBVIOUS
  <2> HIDE DEF piece
  <2>3. piece # <<>>
    BY <2>1, <2>2
  <2> QED BY <2>1, <2>2, <2>3
<1>3. n \in Nat \ {0} /\ n - 1 \in Nat
  OBVIOUS
<1>4. Carries(flushed, lengths, S)
  BY <1>3, FlushedCarries
<1>5. acc.out \in Seq(Seq(Char)) /\ acc.buf \in Seq(Char) /\ Carries(Append(acc.out, acc.buf), lengths, S)
  BY DEF AccCarries, Acc
<1>6. flushed \in Seq(Seq(Char))
  BY <1>4 DEF Carries
<1>7. Carries(Slices(piece), lengths, R) /\ Slices(piece) # <<>>
  BY SlicesCarry
<1>8. Take(acc, Written(lengths)[n])
        = IF Len(acc.buf \o piece) <= ChunkMax
          THEN [acc EXCEPT !.buf = acc.buf \o piece]
          ELSE IF Len(piece) > ChunkMax
               THEN [out |-> flushed \o Slices(piece), buf |-> <<>>]
               ELSE [out |-> flushed, buf |-> piece]
  BY DEF Take
<1>9. \A a : AccCarries(a, lengths, n) <=>
               a \in Acc /\ Carries(Append(a.out, a.buf), lengths, S \cup R) /\ (a.out # <<>> \/ a.buf # <<>>)
  BY <1>1, <1>3 DEF AccCarries
<1> HIDE DEF S, R, piece, flushed
<1>10. CASE Len(acc.buf \o piece) <= ChunkMax
  <2> DEFINE u == acc.buf \o piece
             last == Len(acc.out) + 1
  <2>1. Ordered(acc.buf) /\ Visible(acc.buf) \subseteq S
    <3>1. last \in DOMAIN Append(acc.out, acc.buf) /\ Append(acc.out, acc.buf)[last] = acc.buf
      BY <1>5
    <3> QED BY <1>5, <3>1 DEF Carries, InOrder, VisibleIn
  <2>2. \A c \in Visible(acc.buf), d \in Visible(piece) : Earlier(c, d)
    BY <1>1, <1>2, <2>1, PrecedesIsEarlier
  <2>3. u \in Seq(Char) /\ Visible(u) = Visible(acc.buf) \cup R /\ Ordered(u)
        /\ Len(u) = Len(acc.buf) + Len(piece)
    BY <1>2, <1>5, <2>1, <2>2, TextsJoin
  <2>4. u # <<>>
    <3>1. Len(acc.buf) \in Nat /\ Len(piece) \in Nat /\ Len(piece) # 0 /\ Len(<<>>) = 0
      BY <1>2, <1>5
    <3> QED BY <2>3, <3>1
  <2>5. Len(u) <= ChunkMax
    BY <1>10
  <2> HIDE DEF u
  <2>6. Carries(Append(acc.out, u), lengths, S \cup R)
    BY <1>1, <1>5, <2>3, <2>5, ChangeLast
  <2> DEFINE b == [acc EXCEPT !.buf = u]
  <2>7. b \in Acc /\ b.out = acc.out /\ b.buf = u
    BY <2>3 DEF AccCarries, Acc
  <2>8. Take(acc, Written(lengths)[n]) = b
    BY <1>8, <1>10 DEF u
  <2> HIDE DEF b
  <2> QED BY <1>9, <2>4, <2>6, <2>7, <2>8
<1>11. CASE ~(Len(acc.buf \o piece) <= ChunkMax) /\ Len(piece) > ChunkMax
  <2> DEFINE slices == Slices(piece)
             u == flushed \o slices
             b == [out |-> u, buf |-> <<>>]
  <2>1. Carries(u, lengths, S \cup R)
    BY <1>1, <1>4, <1>7, JoinLists
  <2>2. slices \in Seq(Seq(Char))
    BY <1>7 DEF Carries
  <2>3. u \in Seq(Seq(Char)) /\ u # <<>>
    <3> HIDE DEF slices
    <3>1. u \in Seq(Seq(Char)) /\ Len(u) = Len(flushed) + Len(slices) /\ Len(flushed) \in Nat
          /\ Len(slices) \in Nat /\ Len(<<>>) = 0
      BY <1>6, <2>2
    <3>2. Len(slices) # 0
      BY <1>7, <2>2 DEF slices
    <3> HIDE DEF u
    <3>3. u # <<>>
      BY <3>1, <3>2
    <3> QED BY <3>1, <3>3
  <2> HIDE DEF slices, u
  <2>4. Visible(<<>>) = {} /\ <<>> \in Seq(Char) /\ Len(<<>>) <= ChunkMax /\ Ordered(<<>>)
    BY ReplyConstants DEF Visible, ToSet, Ordered
  <2>5. Carries(<< <<>> >>, lengths, {})
    <3>1. Carries(<< <<>> >>, lengths, Visible(<<>>))
      BY <2>4, OneText
    <3> QED BY <2>4, <3>1
  <2>6. Precedes(S \cup R, {}) /\ S \cup R \subseteq Char /\ {} \subseteq Char
    BY <1>1 DEF Precedes
  <2>7. Carries(u \o << <<>> >>, lengths, (S \cup R) \cup {})
    BY <2>1, <2>5, <2>6, JoinLists
  <2>8. u \o << <<>> >> = Append(u, <<>>) /\ (S \cup R) \cup {} = S \cup R
    BY <2>3
  <2>9. b \in Acc /\ b.out = u /\ b.buf = <<>>
    BY <2>3 DEF Acc
  <2>10. Take(acc, Written(lengths)[n]) = b
    BY <1>8, <1>11 DEF u, slices
  <2> HIDE DEF b
  <2> QED BY <1>9, <2>3, <2>7, <2>8, <2>9, <2>10
<1>12. CASE ~(Len(acc.buf \o piece) <= ChunkMax) /\ ~(Len(piece) > ChunkMax)
  <2> DEFINE b == [out |-> flushed, buf |-> piece]
  <2>1. Len(piece) <= ChunkMax
    <3>1. ChunkMax \in Nat
      BY ReplyConstants
    <3> QED BY <1>2, <1>12, <3>1
  <2>2. Carries(<<piece>>, lengths, R)
    BY <1>2, <2>1, OneText
  <2>3. Carries(flushed \o <<piece>>, lengths, S \cup R)
    BY <1>1, <1>4, <2>2, JoinLists
  <2>4. flushed \o <<piece>> = Append(flushed, piece)
    BY <1>2, <1>6
  <2>5. b \in Acc /\ b.out = flushed /\ b.buf = piece
    BY <1>2, <1>6 DEF Acc
  <2>6. Take(acc, Written(lengths)[n]) = b
    BY <1>8, <1>12
  <2> HIDE DEF b
  <2> QED BY <1>2, <1>9, <2>3, <2>4, <2>5, <2>6
<1> QED BY <1>10, <1>11, <1>12

\* What holds at 0 and passes from each number to the next holds up to n.
LEMMA UpTo ==
    ASSUME NEW n \in Nat, NEW P, 0 \in P, \A k \in 1..n : k - 1 \in P => k \in P
    PROVE  n \in P
<1> DEFINE Bad == {k \in Nat : k <= n /\ k \notin P}
<1>1. Bad = {}
  <2> SUFFICES ASSUME Bad # {} PROVE FALSE
    OBVIOUS
  <2>1. PICK k \in Bad : \A m \in Bad : k <= m
    <3>1. Bad \subseteq Nat
      OBVIOUS
    <3> QED BY <3>1, LeastNumber
  <2>2. k \in Nat \ {0} /\ k <= n
    OBVIOUS
  <2>3. k - 1 \in Nat /\ k - 1 <= n /\ ~(k <= k - 1)
    BY <2>2
  <2>4. k - 1 \in P
    BY <2>1, <2>3
  <2> QED BY <2>1, <2>2, <2>4
<1>2. n <= n
  OBVIOUS
<1> QED BY <1>1, <1>2

LEMMA WrittenIs ==
    ASSUME NEW lengths \in Seq(Nat)
    PROVE  /\ Written(lengths) \in Seq(Seq(Char)) /\ Len(Written(lengths)) = Len(lengths)
           /\ DOMAIN Written(lengths) = DOMAIN lengths
<1> DEFINE w == Written(lengths)
           n == Len(lengths)
<1>1. n \in Nat /\ DOMAIN lengths = 1..n
  OBVIOUS
<1>2. w = [k \in 1..n |-> w[k]]
  BY <1>1 DEF Written
<1>3. \A k \in 1..n : w[k] \in Seq(Char)
  BY <1>1, PieceIs
<1> HIDE DEF w, n
<1>4. w \in Seq(Seq(Char)) /\ Len(w) = n /\ DOMAIN w = 1..n
  BY <1>1, <1>2, <1>3
<1> QED BY <1>1, <1>4 DEF w, n

LEMMA TakeKeepsType ==
    ASSUME NEW acc \in Acc, NEW p \in Seq(Char)
    PROVE  Take(acc, p) \in Acc
<1> DEFINE piece == p \o Break
<1>1. piece \in Seq(Char) /\ piece # <<>> /\ acc.buf \in Seq(Char) /\ acc.out \in Seq(Seq(Char))
  <2>1. piece \in Seq(Char) /\ Len(piece) = Len(p) + 2 /\ Len(p) \in Nat /\ Len(<<>>) = 0
    <3>1. Break \in Seq(Char) /\ Len(Break) = 2
      BY BreakShowsNothing
    <3>2. piece \in Seq(Char) /\ Len(piece) = Len(p) + Len(Break)
      BY <3>1, TextsJoin
    <3> QED BY <3>1, <3>2
  <2> HIDE DEF piece
  <2>2. piece # <<>>
    BY <2>1
  <2> QED BY <2>1, <2>2 DEF Acc
<1> HIDE DEF piece
<1>2. Slices(piece) \in Seq(Seq(Char))
  BY <1>1, SlicesAre
<1>3. Flushed(acc) \in Seq(Seq(Char))
  BY <1>1, TrimEndKeeps DEF Flushed
<1>4. acc.buf \o piece \in Seq(Char)
  BY <1>1, TextsJoin
<1>5. Flushed(acc) \o Slices(piece) \in Seq(Seq(Char))
  BY <1>2, <1>3
<1>6. [acc EXCEPT !.buf = acc.buf \o piece] \in Acc
  BY <1>4 DEF Acc
<1> QED BY <1>1, <1>3, <1>5, <1>6 DEF Take, piece, Acc

\* The loop over the paragraphs leaves all characters in the buffer and in what is out.
LEMMA TakesCarry ==
    ASSUME NEW lengths \in Seq(Nat)
    PROVE  AccCarries(FoldLeft(Take, [out |-> <<>>, buf |-> <<>>], Written(lengths)), lengths, Len(lengths))
<1> DEFINE s == Written(lengths)
           n == Len(lengths)
           o == [x \in Acc \X Seq(Char) |-> Take(x[1], x[2])]
<1>1. n \in Nat /\ s \in Seq(Seq(Char)) /\ Len(s) = n /\ DOMAIN s = 1..n /\ DOMAIN lengths = 1..n
  BY WrittenIs
<1>2. Start \in Acc
  BY DEF Start, Acc
<1>3. o \in [Acc \X Seq(Char) -> Acc]
  BY TakeKeepsType
<1>4. \A a \in Acc, p \in Seq(Char) : o[<<a, p>>] = Take(a, p)
  OBVIOUS
<1> HIDE DEF s, n, o
<1>5. PICK h \in [SUBSET (1..n) -> Acc] : FoldsUp(o, Start, s, n, h)
  BY <1>1, <1>2, <1>3, FoldExists
<1>6. TakesUp(s, h)
  <2>1. ASSUME NEW S \in SUBSET (1..n), S # {} PROVE h[S] = Take(h[S \ {Max(S)}], s[Max(S)])
    <3>1. Max(S) \in 1..n
      BY <1>1, <2>1, MaxIndex
    <3>2. s[Max(S)] \in Seq(Char) /\ h[S \ {Max(S)}] \in Acc
      <4>1. S \ {Max(S)} \in SUBSET (1..n)
        OBVIOUS
      <4>2. s[Max(S)] \in Seq(Char)
        BY <1>1, <3>1
      <4> QED BY <1>5, <4>1, <4>2
    <3> QED BY <1>4, <1>5, <2>1, <3>2 DEF FoldsUp
  <2>2. h[{}] = Start
    BY <1>5 DEF FoldsUp
  <2> QED BY <1>1, <2>1, <2>2 DEF TakesUp
<1>7. PICK g : g = CHOOSE f : TakesUp(s, f)
  OBVIOUS
<1>8. TakesUp(s, g)
  BY <1>6, <1>7
<1>9. FoldLeft(Take, [out |-> <<>>, buf |-> <<>>], s) = g[1..n]
  BY <1>1, <1>7, TakesFold
<1> DEFINE P == {k \in Nat : AccCarries(g[1..k], lengths, k)}
<1>10. 0 \in P
  <2>1. g[{}] = Start /\ 1..0 = {}
    BY <1>1, <1>8 DEF TakesUp
  <2>2. Append(Start.out, Start.buf) = << <<>> >> /\ Start \in Acc
    BY <1>2 DEF Start
  <2>3. Visible(<<>>) = {} /\ <<>> \in Seq(Char) /\ Len(<<>>) <= ChunkMax /\ Ordered(<<>>)
    BY ReplyConstants DEF Visible, ToSet, Ordered
  <2>4. Carries(<< <<>> >>, lengths, Visible(<<>>))
    BY <2>3, OneText
  <2>5. CharsUpTo(lengths, 0) = {}
    BY DEF CharsUpTo
  <2>6. Carries(Append(Start.out, Start.buf), lengths, CharsUpTo(lengths, 0))
    BY <2>2, <2>3, <2>4, <2>5
  <2>7. AccCarries(Start, lengths, 0)
    BY <2>2, <2>6 DEF AccCarries
  <2> QED BY <2>1, <2>7
<1>11. ASSUME NEW k \in 1..n, k - 1 \in P PROVE k \in P
  <2>1. k \in Nat \ {0} /\ k \in DOMAIN lengths
    BY <1>1
  <2>2. Max(1..k) = k /\ (1..k) \ {k} = 1..(k - 1)
    BY <2>1, FoldPrefix
  <2>3. g[1..k] = Take(g[1..(k - 1)], s[k])
    <3>1. 1..k \in SUBSET DOMAIN s /\ 1..k # {}
      <4>1. \A i \in 1..k : i \in 1..n
        BY <1>1, <2>1
      <4>2. 1 \in 1..k
        BY <2>1
      <4> QED BY <1>1, <4>1, <4>2
    <3> QED BY <1>8, <2>2, <3>1 DEF TakesUp
  <2>4. AccCarries(g[1..(k - 1)], lengths, k - 1)
    BY <1>11
  <2>5. AccCarries(g[1..k], lengths, k)
    BY <2>1, <2>3, <2>4, TakeCarries DEF s
  <2> QED BY <2>1, <2>5
<1>12. n \in P
  <2> HIDE DEF P
  <2> QED BY <1>1, <1>10, <1>11, UpTo
<1> QED BY <1>9, <1>12 DEF s, n

\* The whole text shows what was written, in its order.
LEMMA TextShows ==
    ASSUME NEW lengths \in Seq(Nat) \ {<<>>}
    PROVE  LET t == Text(Written(lengths))
           IN  t \in Seq(Char) /\ Ordered(t) /\ Visible(t) = CharsUpTo(lengths, Len(lengths))
<1> DEFINE w == Written(lengths)
           s == Tail(w)
           base == Head(w)
           n == Len(s)
           o == [x \in Seq(Char) \X Seq(Char) |-> x[1] \o Break \o x[2]]
<1>1. /\ w \in Seq(Seq(Char)) /\ w # <<>> /\ Len(w) = Len(lengths) /\ Len(w) \in Nat \ {0}
      /\ DOMAIN w = 1..Len(w) /\ DOMAIN lengths = 1..Len(w)
  <2>1. Len(lengths) \in Nat \ {0}
    OBVIOUS
  <2>2. w \in Seq(Seq(Char)) /\ Len(w) = Len(lengths) /\ DOMAIN w = DOMAIN lengths
    BY WrittenIs
  <2> HIDE DEF w
  <2>3. w # <<>>
    BY <2>1, <2>2
  <2> QED BY <2>1, <2>2, <2>3
<1> HIDE DEF w
<1>2. /\ s \in Seq(Seq(Char)) /\ n \in Nat /\ n = Len(w) - 1 /\ DOMAIN s = 1..n
      /\ base \in Seq(Char) /\ base = w[1] /\ \A k \in 1..n : s[k] = w[k + 1]
  BY <1>1
<1>3. o \in [Seq(Char) \X Seq(Char) -> Seq(Char)]
  BY BreakShowsNothing
<1>4. \A a \in Seq(Char), p \in Seq(Char) : o[<<a, p>>] = a \o Break \o p
  OBVIOUS
<1> HIDE DEF s, n, o, base
<1>5. PICK h \in [SUBSET (1..n) -> Seq(Char)] : FoldsUp(o, base, s, n, h)
  BY <1>2, <1>3, FoldExists DEF n
<1>6. JoinsUp(base, s, h)
  <2>1. ASSUME NEW S \in SUBSET (1..n), S # {} PROVE h[S] = h[S \ {Max(S)}] \o Break \o s[Max(S)]
    <3>1. Max(S) \in 1..n
      BY <1>2, <2>1, MaxIndex
    <3>2. s[Max(S)] \in Seq(Char) /\ h[S \ {Max(S)}] \in Seq(Char)
      <4>1. S \ {Max(S)} \in SUBSET (1..n)
        OBVIOUS
      <4>2. s[Max(S)] \in Seq(Char)
        BY <1>2, <3>1
      <4> QED BY <1>5, <4>1, <4>2
    <3> QED BY <1>4, <1>5, <2>1, <3>2 DEF FoldsUp
  <2>2. h[{}] = base
    BY <1>5 DEF FoldsUp
  <2> QED BY <1>2, <2>1, <2>2 DEF JoinsUp
<1>7. PICK g : g = CHOOSE f : JoinsUp(base, s, f)
  OBVIOUS
<1>8. JoinsUp(base, s, g)
  BY <1>6, <1>7
<1>9. Text(w) = g[1..n]
  BY <1>2, <1>7, JoinsFold DEF s, base
<1> DEFINE Shows(t, k) == t \in Seq(Char) /\ Ordered(t) /\ Visible(t) = CharsUpTo(lengths, k)
           P == {k \in Nat : Shows(g[1..k], k + 1)}
<1>10. ASSUME NEW k \in 1..Len(w)
       PROVE  /\ w[k] \in Seq(Char) /\ Visible(w[k]) = ParagraphChars(lengths, k) /\ Ordered(w[k])
              /\ CharsUpTo(lengths, k) = CharsUpTo(lengths, k - 1) \cup ParagraphChars(lengths, k)
              /\ Precedes(CharsUpTo(lengths, k - 1), ParagraphChars(lengths, k))
  <2>1. k \in DOMAIN lengths /\ lengths \in Seq(Nat)
    BY <1>1
  <2> QED BY <2>1, PieceIs, CharsGrow DEF w
<1>11. 0 \in P
  <2>1. g[{}] = base /\ 1..0 = {}
    BY <1>2, <1>8 DEF JoinsUp
  <2>2. CharsUpTo(lengths, 0) = {}
    BY DEF CharsUpTo
  <2>3. 1 \in 1..Len(w)
    BY <1>1
  <2>4. CharsUpTo(lengths, 1) = CharsUpTo(lengths, 0) \cup ParagraphChars(lengths, 1)
    <3>1. 1 - 1 = 0
      OBVIOUS
    <3> QED BY <1>10, <2>3, <3>1
  <2>5. Shows(w[1], 1)
    BY <1>10, <2>2, <2>3, <2>4
  <2> QED BY <1>2, <2>1, <2>5
<1>12. ASSUME NEW k \in 1..n, k - 1 \in P PROVE k \in P
  <2>1. k \in Nat \ {0} /\ k + 1 \in 1..Len(w) /\ (k - 1) + 1 = k /\ (k + 1) - 1 = k
    BY <1>1, <1>2
  <2>2. Max(1..k) = k /\ (1..k) \ {k} = 1..(k - 1)
    BY <2>1, FoldPrefix
  <2> DEFINE a == g[1..(k - 1)]
             p == w[k + 1]
  <2>3. g[1..k] = a \o Break \o p
    <3>1. 1..k \in SUBSET DOMAIN s /\ 1..k # {}
      <4>1. \A i \in 1..k : i \in 1..n
        BY <1>2, <2>1
      <4>2. 1 \in 1..k
        BY <2>1
      <4> QED BY <1>2, <4>1, <4>2
    <3> QED BY <1>2, <1>8, <2>2, <3>1 DEF JoinsUp
  <2>4. Shows(a, k)
    BY <1>12, <2>1
  <2>5. /\ p \in Seq(Char) /\ Visible(p) = ParagraphChars(lengths, k + 1) /\ Ordered(p)
        /\ CharsUpTo(lengths, k + 1) = CharsUpTo(lengths, k) \cup ParagraphChars(lengths, k + 1)
        /\ Precedes(CharsUpTo(lengths, k), ParagraphChars(lengths, k + 1))
    BY <1>10, <2>1
  <2> HIDE DEF a, p
  <2>6. Break \in Seq(Char) /\ Visible(Break) = {} /\ Ordered(Break)
    BY BreakShowsNothing
  <2>7. a \o Break \in Seq(Char) /\ Visible(a \o Break) = Visible(a) /\ Ordered(a \o Break)
    BY <2>4, <2>6, TextsJoin
  <2>8. \A c \in Visible(a \o Break), d \in Visible(p) : Earlier(c, d)
    BY <2>4, <2>5, <2>7, PrecedesIsEarlier
  <2> DEFINE b == a \o Break
  <2>9. b \o p \in Seq(Char) /\ Ordered(b \o p) /\ Visible(b \o p) = Visible(b) \cup Visible(p)
    <3> HIDE DEF b
    <3> QED BY <2>5, <2>7, <2>8, TextsJoin DEF b
  <2>10. Shows(b \o p, k + 1)
    BY <2>4, <2>5, <2>7, <2>9
  <2> QED BY <2>1, <2>3, <2>10
<1>13. n \in P
  <2> HIDE DEF P
  <2> QED BY <1>2, <1>11, <1>12, UpTo
<1>14. n + 1 = Len(lengths)
  BY <1>1, <1>2
<1> QED BY <1>9, <1>13, <1>14 DEF w

\* Cut into chunks, a reply is all there, in order, with whole paragraphs.
LEMMA ChunksCarry ==
    ASSUME NEW lengths \in Seq(Nat) \ {<<>>}
    PROVE  LET c == ChunkForTelegram(Written(lengths))
           IN  Carries(c, lengths, CharsUpTo(lengths, Len(lengths))) /\ c # <<>>
<1> DEFINE t == Text(Written(lengths))
           S == CharsUpTo(lengths, Len(lengths))
           acc == FoldLeft(Take, [out |-> <<>>, buf |-> <<>>], Written(lengths))
<1>1. t \in Seq(Char) /\ Ordered(t) /\ Visible(t) = S
  BY TextShows
<1>2. Len(lengths) \in Nat /\ Len(lengths) > 0 /\ lengths \in Seq(Nat)
  OBVIOUS
<1>3. Carries(Flushed(acc), lengths, S) /\ Flushed(acc) # <<>>
  <2>1. AccCarries(acc, lengths, Len(lengths))
    BY <1>2, TakesCarry
  <2> HIDE DEF acc
  <2> QED BY <1>2, <2>1, FlushedCarries
<1>4. ChunkForTelegram(Written(lengths)) = IF Len(t) <= ChunkMax THEN <<t>> ELSE Flushed(acc)
  BY DEF ChunkForTelegram
<1> HIDE DEF t, S, acc
<1>5. CASE Len(t) <= ChunkMax
  <2>1. Carries(<<t>>, lengths, S) /\ <<t>> # <<>>
    BY <1>1, <1>5, OneText
  <2> QED BY <1>4, <1>5, <2>1 DEF S
<1>6. CASE ~(Len(t) <= ChunkMax)
  BY <1>3, <1>4, <1>6 DEF S
<1> QED BY <1>5, <1>6

-----------------------------------------------------------------------------
(* The turn. *)

Sizes == [k \in DOMAIN reply |-> Len(reply[k])]
AllChars == CharsUpTo(Sizes, Len(Sizes))

ReplyTypeOK ==
    /\ turn \in {"ask", "append", "html", "plain", "over"}
    /\ Sizes \in Seq(Nat) \ {<<>>} /\ reply = Written(Sizes)
    /\ chunks \in Seq(Seq(Char))
    /\ arrived \in Seq(Seq(Char))
    /\ failures \in Nat

\* Chunks that are left to send are whole, and with what has arrived they are the
\* reply, as long as no call has failed.
DeliveryInv ==
    /\ turn \in {"ask", "append"} => chunks = <<>> /\ arrived = <<>>
    /\ turn \in {"html", "plain"} => chunks # <<>>
    /\ turn = "over" => chunks = <<>>
    /\ \A k \in DOMAIN chunks : Len(chunks[k]) <= ChunkMax
    /\ Whole(chunks, Sizes)
    /\ turn \in {"html", "plain", "over"} /\ failures = 0 => Carries(arrived \o chunks, Sizes, AllChars)

LEMMA WrittenSizes ==
    ASSUME NEW lengths \in Seq(Nat) \ {<<>>}, NEW r, r = Written(lengths)
    PROVE  [k \in DOMAIN r |-> Len(r[k])] = lengths
<1>1. DOMAIN r = DOMAIN lengths /\ lengths = [k \in DOMAIN lengths |-> lengths[k]]
  BY WrittenIs
<1>2. \A k \in DOMAIN lengths : Len(r[k]) = lengths[k]
  BY PieceIs
<1> QED BY <1>1, <1>2

LEMMA EmptyReply == << <<>> >> = Written(<<0>>) /\ <<0>> \in Seq(Nat) \ {<<>>} /\ <<1>> \in Seq(Nat) \ {<<>>}
<1>1. <<0>> \in Seq(Nat) \ {<<>>} /\ <<1>> \in Seq(Nat) \ {<<>>} /\ DOMAIN <<0>> = {1} /\ (<<0>>)[1] = 0
  OBVIOUS
<1>2. Written(<<0>>) \in Seq(Seq(Char)) /\ Len(Written(<<0>>)) = 1 /\ Len(Written(<<0>>)[1]) = 0
      /\ Written(<<0>>)[1] \in Seq(Char)
  BY <1>1, WrittenIs, PieceIs
<1> DEFINE w == Written(<<0>>)
<1> HIDE DEF w
<1>3. w[1] = <<>>
  BY <1>2 DEF w
<1>4. w = << w[1] >>
  BY <1>2 DEF w
<1> QED BY <1>1, <1>3, <1>4 DEF w

LEMMA InitReply == ReplyInit => ReplyTypeOK /\ DeliveryInv
<1> SUFFICES ASSUME ReplyInit PROVE ReplyTypeOK /\ DeliveryInv
  OBVIOUS
<1> USE DEF ReplyInit
<1>1. Sizes = <<0>> /\ Sizes \in Seq(Nat) \ {<<>>} /\ reply = Written(Sizes)
  BY EmptyReply, WrittenSizes DEF Sizes
<1>2. ReplyTypeOK
  BY <1>1 DEF ReplyTypeOK
<1>3. DeliveryInv
  BY DEF DeliveryInv, Whole
<1> QED BY <1>2, <1>3

\* The reply of a turn.
LEMMA NewReply ==
    ASSUME NEW lengths \in Seq(Nat) \ {<<>>}, reply' = Written(lengths)
    PROVE  Sizes' = lengths /\ Sizes' \in Seq(Nat) \ {<<>>} /\ reply' = Written(Sizes')
BY WrittenSizes DEF Sizes

\* A chunk leaves the list.
LEMMA FirstChunk ==
    ASSUME ReplyTypeOK, DeliveryInv, chunks # <<>>
    PROVE  LET t == Head(chunks)
           IN  /\ t \in Seq(Char) /\ Len(t) <= ChunkMax
               /\ Tail(chunks) \in Seq(Seq(Char))
               /\ \A k \in DOMAIN Tail(chunks) : Len(Tail(chunks)[k]) <= ChunkMax
               /\ Whole(Tail(chunks), Sizes)
               /\ arrived \o <<t>> \o Tail(chunks) = arrived \o chunks
               /\ Append(arrived, t) \o Tail(chunks) = arrived \o chunks
               /\ Append(arrived, t) \in Seq(Seq(Char))
<1>1. chunks \in Seq(Seq(Char)) /\ arrived \in Seq(Seq(Char))
  BY DEF ReplyTypeOK
<1> DEFINE t == Head(chunks)
           rest == Tail(chunks)
<1>2. /\ t = chunks[1] /\ t \in Seq(Char) /\ 1 \in DOMAIN chunks
      /\ rest \in Seq(Seq(Char)) /\ Len(rest) = Len(chunks) - 1 /\ Len(chunks) \in Nat \ {0}
      /\ \A k \in DOMAIN rest : k + 1 \in DOMAIN chunks /\ rest[k] = chunks[k + 1] /\ k \in Nat
  BY <1>1
<1>3. Len(t) <= ChunkMax /\ \A k \in DOMAIN rest : Len(rest[k]) <= ChunkMax
  BY <1>2 DEF DeliveryInv
<1>4. Whole(rest, Sizes)
  <2>1. \A p, q \in DOMAIN rest : p + 1 = q + 1 => p = q
    BY <1>2
  <2> HIDE DEF rest
  <2> QED BY <1>2, <2>1 DEF DeliveryInv, Whole
<1>5. <<t>> \o rest = chunks
  BY <1>1
<1>6. arrived \o <<t>> \o rest = arrived \o chunks
  BY <1>1, <1>2, <1>5
<1>7. Append(arrived, t) = arrived \o <<t>> /\ Append(arrived, t) \in Seq(Seq(Char))
  BY <1>1, <1>2
<1> QED BY <1>2, <1>3, <1>4, <1>6, <1>7

LEMMA StepReply == ReplyTypeOK /\ DeliveryInv /\ [ReplyNext]_replyVars => ReplyTypeOK' /\ DeliveryInv'
<1> SUFFICES ASSUME ReplyTypeOK, DeliveryInv, [ReplyNext]_replyVars PROVE ReplyTypeOK' /\ DeliveryInv'
  OBVIOUS
<1>0. UNCHANGED reply => UNCHANGED <<Sizes, AllChars>>
  BY DEF Sizes, AllChars
<1>1. ASSUME NEW lengths \in Answers, Answer(lengths) PROVE ReplyTypeOK' /\ DeliveryInv'
  <2>1. lengths \in Seq(Nat) \ {<<>>}
    BY ReplyConstants
  <2>2. PICK l \in Seq(Nat) \ {<<>>} : reply' = Written(l)
    BY <1>1, <2>1, EmptyReply DEF Answer, NoResponse
  <2>3. Sizes' \in Seq(Nat) \ {<<>>} /\ reply' = Written(Sizes')
    BY <2>2, NewReply
  <2>4. ReplyTypeOK'
    BY <1>1, <2>3 DEF Answer, ReplyTypeOK
  <2>5. chunks' = <<>> /\ arrived' = <<>> /\ turn' = "append"
    BY <1>1 DEF Answer, DeliveryInv
  <2>6. DeliveryInv'
    BY <2>5 DEF DeliveryInv, Whole
  <2> QED BY <2>4, <2>6
<1>2. CASE AppendReply
  <2>1. Carries(chunks', Sizes, AllChars) /\ chunks' # <<>>
    BY <1>2, ChunksCarry DEF AppendReply, ReplyTypeOK, AllChars
  <2>2. chunks' \in Seq(Seq(Char)) /\ arrived' = <<>> /\ turn' = "html" /\ UNCHANGED <<reply, failures>>
    BY <1>2, <2>1 DEF AppendReply, DeliveryInv, Carries
  <2>3. arrived' \o chunks' = chunks'
    BY <2>2
  <2>4. ReplyTypeOK'
    BY <1>0, <2>2 DEF ReplyTypeOK
  <2>5. DeliveryInv'
    BY <1>0, <2>1, <2>2, <2>3 DEF DeliveryInv, Carries
  <2> QED BY <2>4, <2>5
<1> DEFINE Passed ==
             /\ turn' = IF chunks' = <<>> THEN "over" ELSE "html"
             /\ chunks' \in Seq(Seq(Char)) /\ UNCHANGED reply
             /\ \A k \in DOMAIN chunks' : Len(chunks'[k]) <= ChunkMax
             /\ Whole(chunks', Sizes)
<1>3. ASSUME turn \in {"html", "plain"}, NextChunk, UNCHANGED reply PROVE Passed
  BY <1>3, FirstChunk DEF NextChunk, DeliveryInv
<1>4. ASSUME Passed, failures' \in Nat, arrived' \in Seq(Seq(Char)),
             failures' = 0 => Carries(arrived' \o chunks', Sizes, AllChars)
      PROVE  ReplyTypeOK' /\ DeliveryInv'
  BY <1>0, <1>4 DEF ReplyTypeOK, DeliveryInv
<1>5. ASSUME turn \in {"html", "plain"}, NextChunk, Deliver, UNCHANGED <<reply, failures>>
      PROVE  ReplyTypeOK' /\ DeliveryInv'
  <2>1. arrived' \in Seq(Seq(Char)) /\ arrived' \o chunks' = arrived \o chunks
    BY <1>5, FirstChunk DEF NextChunk, Deliver, DeliveryInv
  <2> HIDE DEF Passed
  <2>2. failures' = 0 => Carries(arrived' \o chunks', Sizes, AllChars)
    BY <1>5, <2>1 DEF DeliveryInv
  <2>3. failures' \in Nat
    BY <1>5 DEF ReplyTypeOK
  <2> QED BY <1>3, <1>4, <1>5, <2>1, <2>2, <2>3
<1>6. CASE SendHtml
  BY <1>5, <1>6 DEF SendHtml
<1>7. CASE HtmlRefused
  <2>1. turn = "html" /\ turn' = "plain" /\ UNCHANGED <<reply, chunks, arrived, failures>>
    BY <1>7 DEF HtmlRefused
  <2> QED BY <1>0, <2>1 DEF ReplyTypeOK, DeliveryInv
<1>8. CASE SendPlain
  <2>1. turn = "plain" /\ NextChunk /\ UNCHANGED <<reply, failures>>
    BY <1>8 DEF SendPlain
  <2>2. CASE Taken(Head(chunks))
    BY <1>5, <1>8, <2>1, <2>2 DEF SendPlain
  <2>3. CASE ~Taken(Head(chunks))
    <3> DEFINE t == Head(chunks)
    <3>1. arrived' = arrived /\ chunks' = Tail(chunks) /\ chunks # <<>>
      BY <1>8, <2>1, <2>3 DEF SendPlain, NextChunk, DeliveryInv
    <3>2. /\ t \in Seq(Char) /\ Len(t) <= ChunkMax /\ Tail(chunks) \in Seq(Seq(Char))
          /\ arrived \o <<t>> \o Tail(chunks) = arrived \o chunks
      BY <3>1, FirstChunk
    <3>3. Blank(t)
      <4>1. Len(t) \in Nat /\ ChunkMax \in Nat /\ TelegramLimit \in Nat /\ ChunkMax <= TelegramLimit
        BY <3>2, ReplyConstants
      <4>2. Len(t) <= TelegramLimit
        BY <3>2, <4>1
      <4> QED BY <2>3, <4>2 DEF Taken
    <3>4. Visible(t) = {}
      BY <3>2, <3>3, BlankShowsNothing
    <3>5. arrived \in Seq(Seq(Char)) /\ failures' \in Nat
      BY <2>1 DEF ReplyTypeOK
    <3>6. failures' = 0 => Carries(arrived' \o chunks', Sizes, AllChars)
      <4> SUFFICES ASSUME failures' = 0 PROVE Carries(arrived \o Tail(chunks), Sizes, AllChars)
        BY <3>1
      <4>1. Carries(arrived \o chunks, Sizes, AllChars)
        BY <2>1 DEF DeliveryInv
      <4>2. Carries(arrived \o <<t>> \o Tail(chunks), Sizes, AllChars)
        BY <3>2, <4>1
      <4> HIDE DEF t
      <4> QED BY <3>2, <3>4, <3>5, <4>2, LeaveOut
    <3> HIDE DEF Passed
    <3> QED BY <1>3, <1>4, <2>1, <3>1, <3>5, <3>6
  <2> QED BY <2>2, <2>3
<1>9. CASE TurnFails
  <2>1. turn' = "over" /\ failures' = failures + 1 /\ turn \in {"ask", "append"} /\ UNCHANGED <<reply, chunks, arrived>>
    BY <1>9 DEF TurnFails, Failure
  <2>2. failures' \in Nat /\ failures' # 0
    BY <2>1 DEF ReplyTypeOK
  <2> QED BY <1>0, <2>1, <2>2 DEF ReplyTypeOK, DeliveryInv
<1>10. CASE HtmlReplyLost
  <2>1. turn = "html" /\ turn' = "plain" /\ Deliver /\ failures' = failures + 1 /\ UNCHANGED <<reply, chunks>>
    BY <1>10 DEF HtmlReplyLost, Failure
  <2>2. failures' \in Nat /\ failures' # 0
    BY <2>1 DEF ReplyTypeOK
  <2>3. arrived' \in Seq(Seq(Char))
    BY <2>1, FirstChunk DEF Deliver, DeliveryInv
  <2> QED BY <1>0, <2>1, <2>2, <2>3 DEF ReplyTypeOK, DeliveryInv
<1>11. CASE PlainLost
  <2>1. turn = "plain" /\ NextChunk /\ failures' = failures + 1 /\ UNCHANGED <<reply, arrived>>
    BY <1>11 DEF PlainLost, Failure
  <2>2. failures' \in Nat /\ failures' # 0 /\ arrived' \in Seq(Seq(Char))
    BY <2>1 DEF ReplyTypeOK
  <2> HIDE DEF Passed
  <2> QED BY <1>3, <1>4, <2>1, <2>2
<1>12. CASE NextTurn
  <2>1. reply' = Written(<<0>>) /\ <<0>> \in Seq(Nat) \ {<<>>}
    BY <1>12, EmptyReply DEF NextTurn
  <2>2. Sizes' \in Seq(Nat) \ {<<>>} /\ reply' = Written(Sizes')
    BY <2>1, NewReply
  <2>3. turn' = "ask" /\ chunks' = <<>> /\ arrived' = <<>> /\ failures' = 0
    BY <1>12 DEF NextTurn
  <2> QED BY <2>2, <2>3 DEF ReplyTypeOK, DeliveryInv, Whole
<1>13. CASE UNCHANGED replyVars
  BY <1>0, <1>13 DEF replyVars, ReplyTypeOK, DeliveryInv
<1> QED BY <1>1, <1>2, <1>6, <1>7, <1>8, <1>9, <1>10, <1>11, <1>12, <1>13 DEF ReplyNext

\* The shape of a turn (index.js:139-162).
THEOREM ReplyTypeCorrect == ReplySpec => []ReplyTypeOK
BY InitReply, StepReply, PTL DEF ReplySpec

\* For replies of any length and any limits, whatever Telegram refuses: every visible
\* character of a reply arrives once and in order, as long as no call fails
\* (format.js:63-84, index.js:148-161).
THEOREM RepliesArriveWhole == ReplySpec => []ReplyArrivesWhole
<1>1. ReplyTypeOK /\ DeliveryInv => ReplyArrivesWhole
  <2> SUFFICES ASSUME ReplyTypeOK, DeliveryInv, turn = "over", failures = 0
               PROVE  VisibleIn(arrived) = VisibleIn(reply) /\ InOrder(arrived)
    BY DEF ReplyArrivesWhole
  <2>1. arrived \o chunks = arrived
    BY DEF ReplyTypeOK, DeliveryInv
  <2>2. Carries(arrived, Sizes, AllChars)
    BY <2>1 DEF DeliveryInv
  <2>3. VisibleIn(reply) = AllChars
    <3> DEFINE n == Len(Sizes)
    <3>1. reply = Written(Sizes) /\ Sizes \in Seq(Nat) /\ DOMAIN reply = DOMAIN Sizes /\ DOMAIN Sizes = 1..n
      BY DEF ReplyTypeOK, Sizes
    <3>2. ASSUME NEW k \in 1..n PROVE Visible(reply[k]) = ParagraphChars(Sizes, k)
      BY <3>1, PieceIs
    <3>3. AllChars = UNION {ParagraphChars(Sizes, k) : k \in 1..n}
      <4>1. ASSUME NEW k \in 1..n, NEW c \in ParagraphChars(Sizes, k) PROVE c \in AllChars
        <5>1. PICK i \in 1..Sizes[k] : c = <<k, i>>
          BY DEF ParagraphChars
        <5>2. c \in Char /\ c[1] = k /\ c[2] = i
          BY <3>1, <5>1 DEF Char
        <5> QED BY <5>2 DEF AllChars, CharsUpTo
      <4>2. ASSUME NEW c \in AllChars PROVE c[1] \in 1..n /\ c \in ParagraphChars(Sizes, c[1])
        <5>1. c \in Char /\ c[1] \in 1..n /\ c[2] \in 1..Sizes[c[1]]
          BY DEF AllChars, CharsUpTo
        <5>2. c = <<c[1], c[2]>>
          BY <5>1 DEF Char
        <5> QED BY <5>1, <5>2 DEF ParagraphChars
      <4> QED BY <4>1, <4>2
    <3> HIDE DEF n
    <3> QED BY <3>1, <3>2, <3>3 DEF VisibleIn
  <2> QED BY <2>2, <2>3 DEF Carries
<1> QED BY <1>1, InitReply, StepReply, PTL DEF ReplySpec

\* For replies of any length and any limits: no chunk is longer than max, and a
\* paragraph that fits in a message is in one chunk (format.js:61-62).
THEOREM ParagraphsAreWhole == ReplySpec => []ParagraphsStayWhole
<1>1. ReplyTypeOK /\ DeliveryInv => ParagraphsStayWhole
  <2> SUFFICES ASSUME ReplyTypeOK, DeliveryInv,
                      NEW p \in DOMAIN chunks, NEW q \in DOMAIN chunks, p # q,
                      NEW para \in DOMAIN reply, Len(reply[para]) <= ChunkMax,
                      NEW c \in Visible(reply[para]) \cap Visible(chunks[p]),
                      NEW d \in Visible(reply[para]) \cap Visible(chunks[q])
               PROVE  FALSE
    BY DEF ParagraphsStayWhole, DeliveryInv
  <2>1. reply = Written(Sizes) /\ Sizes \in Seq(Nat) /\ para \in DOMAIN Sizes /\ Sizes[para] = Len(reply[para])
    BY DEF ReplyTypeOK, Sizes
  <2>2. Visible(reply[para]) = ParagraphChars(Sizes, para)
    BY <2>1, PieceIs
  <2>3. c[1] = para /\ d[1] = para
    BY <2>2 DEF ParagraphChars
  <2> QED BY <2>1, <2>3 DEF DeliveryInv, Whole
<1> QED BY <1>1, InitReply, StepReply, PTL DEF ReplySpec

=============================================================================

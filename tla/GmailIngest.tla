----------------------------- MODULE GmailIngest -----------------------------
(***************************************************************************)
(* The gmail-worker (apps/gmail-worker/src): one loop polls the mailbox of *)
(* every connected user and turns messages into extraction jobs.           *)
(*                                                                         *)
(* The mailbox and the extractor are outside: mail arrives and grows old,  *)
(* the extractor handles a job and removes the files the job names.  The   *)
(* user and the admin change the account while a tick is under way.        *)
(*                                                                         *)
(* A message is its position in mail, in order of arrival; drafts and      *)
(* chats, which every query excludes, never enter mail.                    *)
(***************************************************************************)
EXTENDS Naturals, FiniteSets, Sequences

CONSTANTS
    Users,
    Threads,
    MailKinds,   \* kinds of message that arrive in a run
    MaxPerTick,  \* MAX_PER_USER_PER_TICK
    Modes,       \* values gmail_mode takes in a run
    Changes,     \* kinds of change by user, admin or time in a run
    FaultKinds,  \* kinds of failure in a run
    MaxMail,     \* bound: messages
    MaxFaults    \* bound: failures

AllModes == {"disabled", "sent_only", "sent_plus_threads", "labeled_only", "full_inbox"}

Kinds == [sent : BOOLEAN, files : BOOLEAN, storable : BOOLEAN]

ASSUME IngestConstants ==
    /\ MailKinds \subseteq Kinds
    /\ MaxPerTick \in Nat \ {0}
    /\ Modes \subseteq AllModes
    /\ Changes \subseteq {"mode", "status", "purge", "age"}
    /\ FaultKinds \subseteq {"throw", "lost", "crash", "attachment"}
    /\ MaxMail \in Nat
    /\ MaxFaults \in Nat

VARIABLES
    mail,      \* messages of all mailboxes, in order of arrival
    aged,      \* the first messages of mail, older than the backfill window
    mode,      \* users.gmail_mode
    active,    \* users whose status is active
    linked,    \* users with a refresh token
    jobs,      \* rows of extraction_jobs for each message
    pending,   \* messages with a job the extractor has not handled
    carries,   \* messages whose job names attachments
    files,     \* messages with a directory on the attachments volume
    pc,        \* where the loop is
    queue,     \* users left in this tick, with the mode read at its start
    row,       \* the user being processed
    list,      \* ids of messages.list still to look at
    mates,     \* messages of the thread being expanded
    seen,      \* seenIds
    out,       \* messages fetched, with whether attachments are named
    widened,   \* history: users that have been in a mode of Widening
    faults

Messages == 1..MaxMail
accountVars == <<mode, active, linked, widened>>
jobVars == <<jobs, pending, carries>>
fetchVars == <<row, list, mates, seen, out>>
vars == <<mail, aged, accountVars, jobVars, files, pc, queue, fetchVars, faults>>

NoRow == [user |-> "nobody", mode |-> "disabled"]

Init ==
    /\ mail = <<>>
    /\ aged = 0
    /\ mode = [u \in Users |-> "sent_plus_threads"]
    /\ active = Users
    /\ linked = {}
    /\ jobs = [m \in Messages |-> 0]
    /\ pending = {}
    /\ carries = {}
    /\ files = {}
    /\ pc = "idle"
    /\ queue = {}
    /\ row = NoRow
    /\ list = <<>>
    /\ mates = <<>>
    /\ seen = {}
    /\ out = <<>>
    /\ widened = {}
    /\ faults = 0

MailOf(u) == {m \in 1..Len(mail) : mail[m].user = u}

-----------------------------------------------------------------------------
(* A tick: the connected users, one after the other.                         *)

Connected == {u \in active \cap linked : mode[u] # "disabled"}

Tick ==
    /\ pc = "idle"
    /\ Connected # {}
    /\ queue' = {[user |-> u, mode |-> mode[u]] : u \in Connected}
    /\ pc' = "users"
    /\ UNCHANGED <<mail, aged, accountVars, jobVars, files, fetchVars, faults>>

\* The call for one user is over, whatever came of it.
LeaveUser ==
    /\ pc' = "users"
    /\ row' = NoRow
    /\ list' = <<>>
    /\ mates' = <<>>
    /\ seen' = {}
    /\ out' = <<>>

NextUser ==
    /\ pc = "users"
    /\ IF queue = {}
       THEN pc' = "idle" /\ UNCHANGED <<queue, row>>
       ELSE \E r \in queue : row' = r /\ queue' = queue \ {r} /\ pc' = "list"
    /\ UNCHANGED <<mail, aged, accountVars, jobVars, files, list, mates, seen, out, faults>>

-----------------------------------------------------------------------------
(* fetchSentMessages: list, then fetch what is new, with its thread.         *)

\* The modes whose query asks for no label, and so for the whole mailbox.
\* labeled_only is one: it asks for users.gmail_label_id, a column no service
\* ever writes, and without a value buildQuery leaves the label out.
Widening == {"labeled_only", "full_inbox"}

\* Mutant: only mode sent_only asks for the label SENT.
MatchesSentOnly(r, m) == r.mode = "sent_only" => mail[m].sent

\* buildQuery.
Matches(r, m) == r.mode \notin Widening => mail[m].sent

\* The messages of S, each once, in the order they arrived.
InOrder(S) ==
    {s \in [1..Cardinality(S) -> S] : \A i, j \in 1..Cardinality(S) : i < j => s[i] < s[j]}

\* The last MaxPerTick of them, the newest first.
Newest(s) ==
    [i \in 1..(IF Len(s) < MaxPerTick THEN Len(s) ELSE MaxPerTick) |-> s[Len(s) + 1 - i]]

\* messages.list answers newest first, and its next page is never asked for.
List ==
    /\ pc = "list"
    /\ \E s \in InOrder({m \in MailOf(row.user) : m > aged /\ Matches(row, m)}) : list' = Newest(s)
    /\ pc' = "fetch"
    /\ UNCHANGED <<mail, aged, accountVars, jobVars, files, queue, row, mates, seen, out, faults>>

\* Mutants: jobs of received messages are not looked for; nothing is skipped.
ProcessedSent(m) == mail[m].sent /\ jobs[m] > 0
SkipsNone(m) == m \in seen

Processed(m) == jobs[m] > 0

Skips(m) == m \in seen \/ Processed(m)

\* The files of a message go to a directory of its own before its job exists;
\* those that cannot be downloaded or converted are not named in the job.
Stage(m) ==
    IF ~mail[m].files
    THEN out' = Append(out, [id |-> m, named |-> FALSE]) /\ UNCHANGED <<files, faults>>
    ELSE /\ files' = files \cup {m}
         /\ \/ out' = Append(out, [id |-> m, named |-> TRUE]) /\ UNCHANGED faults
            \/ /\ "attachment" \in FaultKinds
               /\ faults < MaxFaults
               /\ faults' = faults + 1
               /\ out' = Append(out, [id |-> m, named |-> FALSE])

\* Mutant: the list is left at the first message already known.
FetchUntilKnown ==
    /\ pc = "fetch"
    /\ mates = <<>>
    /\ list # <<>>
    /\ LET m == Head(list) IN
       /\ seen' = seen \cup {m}
       /\ IF Skips(m)
          THEN list' = <<>> /\ UNCHANGED <<files, out, pc, faults>>
          ELSE /\ list' = Tail(list)
               /\ Stage(m)
               /\ pc' = IF row.mode = "sent_plus_threads" THEN "thread" ELSE pc
    /\ UNCHANGED <<mail, aged, accountVars, jobVars, queue, row, mates>>

Fetch ==
    /\ pc = "fetch"
    /\ mates = <<>>
    /\ list # <<>>
    /\ LET m == Head(list) IN
       /\ list' = Tail(list)
       /\ seen' = seen \cup {m}
       /\ IF Skips(m)
          THEN UNCHANGED <<files, out, pc, faults>>
          ELSE /\ Stage(m)
               /\ IF row.mode = "sent_plus_threads"
                  THEN pc' = "thread"
                  ELSE UNCHANGED pc
    /\ UNCHANGED <<mail, aged, accountVars, jobVars, queue, row, mates>>

\* Mutant: of the thread, only what the user sent.
GetThreadSent ==
    /\ pc = "thread"
    /\ LET thread == mail[out[Len(out)].id].thread IN
       mates' \in InOrder({m \in MailOf(row.user) : mail[m].sent /\ mail[m].thread = thread})
    /\ pc' = "fetch"
    /\ UNCHANGED <<mail, aged, accountVars, jobVars, files, queue, row, list, seen, out, faults>>

\* threads.get, for the message fetched last.
GetThread ==
    /\ pc = "thread"
    /\ LET thread == mail[out[Len(out)].id].thread IN
       mates' \in InOrder({m \in MailOf(row.user) : mail[m].thread = thread})
    /\ pc' = "fetch"
    /\ UNCHANGED <<mail, aged, accountVars, jobVars, files, queue, row, list, seen, out, faults>>

FetchMate ==
    /\ pc = "fetch"
    /\ mates # <<>>
    /\ LET m == Head(mates) IN
       /\ mates' = Tail(mates)
       /\ seen' = seen \cup {m}
       /\ IF Skips(m) THEN UNCHANGED <<files, out, faults>> ELSE Stage(m)
    /\ UNCHANGED <<mail, aged, accountVars, jobVars, pc, queue, row, list>>

Fetched ==
    /\ pc = "fetch"
    /\ mates = <<>>
    /\ list = <<>>
    /\ pc' = "insert"
    /\ UNCHANGED <<mail, aged, accountVars, jobVars, files, queue, fetchVars, faults>>

-----------------------------------------------------------------------------
(* processUser: one job per message fetched.                                 *)

AddJob(j) ==
    /\ jobs' = [jobs EXCEPT ![j.id] = @ + 1]
    /\ pending' = pending \cup {j.id}
    /\ carries' = IF j.named THEN carries \cup {j.id} ELSE carries \ {j.id}

Insert ==
    /\ pc = "insert"
    /\ out # <<>>
    /\ LET j == Head(out) IN
       IF Processed(j.id)
       THEN out' = Tail(out) /\ UNCHANGED <<jobVars, pc, row, list, mates, seen>>
       ELSE IF mail[j.id].storable
            THEN AddJob(j) /\ out' = Tail(out) /\ UNCHANGED <<pc, row, list, mates, seen>>
            \* jsonb refuses the payload: the messages after it are dropped.
            ELSE LeaveUser /\ UNCHANGED jobVars
    /\ UNCHANGED <<mail, aged, accountVars, files, queue, faults>>

Inserted ==
    /\ pc = "insert"
    /\ out = <<>>
    /\ LeaveUser
    /\ UNCHANGED <<mail, aged, accountVars, jobVars, files, queue, faults>>

-----------------------------------------------------------------------------
(* Failures.                                                                  *)

Fault(kind) ==
    /\ kind \in FaultKinds
    /\ faults < MaxFaults
    /\ faults' = faults + 1
    /\ UNCHANGED <<mail, aged, accountVars>>

\* A call to Google, the disk or the database throws: the user's turn is over.
Throws ==
    /\ pc \in {"list", "fetch", "thread", "insert"}
    /\ Fault("throw")
    /\ LeaveUser
    /\ UNCHANGED <<jobVars, files, queue>>

\* Making the directory, or writing a converted file into it, fails.
StageThrows ==
    /\ pc = "fetch"
    /\ mates \o list # <<>>
    /\ LET m == Head(mates \o list) IN
       /\ ~Skips(m)
       /\ mail[m].files
       /\ files' = files \cup {m}
    /\ Fault("throw")
    /\ LeaveUser
    /\ UNCHANGED <<jobVars, queue>>

\* The INSERT is executed and its reply is lost.
ReplyLost ==
    /\ pc = "insert"
    /\ out # <<>>
    /\ ~Processed(Head(out).id)
    /\ mail[Head(out).id].storable
    /\ Fault("lost")
    /\ AddJob(Head(out))
    /\ LeaveUser
    /\ UNCHANGED <<files, queue>>

\* The process ends and is started again.
Crash ==
    /\ pc # "idle"
    /\ Fault("crash")
    /\ pc' = "idle"
    /\ queue' = {}
    /\ row' = NoRow
    /\ list' = <<>>
    /\ mates' = <<>>
    /\ seen' = {}
    /\ out' = <<>>
    /\ UNCHANGED <<jobVars, files>>

-----------------------------------------------------------------------------
(* The mailbox, the accounts and the extractor.                              *)

workerVars == <<pc, queue, fetchVars, faults>>

Arrive(u, t, k) ==
    /\ Len(mail) < MaxMail
    /\ mail' = Append(mail, [user |-> u, thread |-> t, sent |-> k.sent,
                             files |-> k.files, storable |-> k.storable])
    /\ UNCHANGED <<aged, accountVars, jobVars, files, workerVars>>

GrowOld ==
    /\ "age" \in Changes
    /\ aged < Len(mail)
    /\ aged' = aged + 1
    /\ UNCHANGED <<mail, accountVars, jobVars, files, workerVars>>

\* The callback of the consent flow stores the refresh token.
Connect(u) ==
    /\ u \notin linked
    /\ linked' = linked \cup {u}
    /\ UNCHANGED <<mail, aged, mode, active, widened, jobVars, files, workerVars>>

\* The PATCH of the admin and the user's own.
SetMode(u, to) ==
    /\ "mode" \in Changes
    /\ mode[u] # to
    /\ mode' = [mode EXCEPT ![u] = to]
    /\ widened' = IF to \in Widening THEN widened \cup {u} ELSE widened
    /\ UNCHANGED <<mail, aged, active, linked, jobVars, files, workerVars>>

SetStatus(u) ==
    /\ "status" \in Changes
    /\ active' = IF u \in active THEN active \ {u} ELSE active \cup {u}
    /\ UNCHANGED <<mail, aged, mode, linked, widened, jobVars, files, workerVars>>

\* DELETE /:id?purge=true, after the user was disabled.
Purge(u) ==
    /\ "purge" \in Changes
    /\ u \notin active
    /\ jobs' = [m \in Messages |-> IF m \in MailOf(u) THEN 0 ELSE jobs[m]]
    /\ pending' = pending \ MailOf(u)
    /\ carries' = carries \ MailOf(u)
    /\ UNCHANGED <<mail, aged, accountVars, files, workerVars>>

\* The extractor settles a job; the directory goes only if the job names a file.
Handled(m) ==
    /\ m \in pending
    /\ pending' = pending \ {m}
    /\ files' = IF m \in carries THEN files \ {m} ELSE files
    /\ UNCHANGED <<mail, aged, accountVars, jobs, carries, workerVars>>

WorkerStep ==
    \/ Tick \/ NextUser \/ List \/ Fetch \/ GetThread \/ FetchMate \/ Fetched
    \/ Insert \/ Inserted

Outside ==
    \/ \E u \in Users, t \in Threads, k \in MailKinds : Arrive(u, t, k)
    \/ GrowOld
    \/ \E u \in Users : Connect(u) \/ SetStatus(u) \/ Purge(u)
    \/ \E u \in Users, to \in Modes : SetMode(u, to)

Next ==
    \/ WorkerStep
    \/ Throws \/ StageThrows \/ ReplyLost \/ Crash
    \/ Outside
    \/ \E m \in Messages : Handled(m)

Spec == Init /\ [][Next]_vars

\* The loop goes on as long as calls return or throw, and the extractor settles
\* every job it is given (QueueDrains and FilesRemovedOnceSettled of JobQueue).
FairSpec ==
    /\ Spec
    /\ WF_vars(WorkerStep)
    /\ \A m \in Messages : WF_vars(Handled(m))

-----------------------------------------------------------------------------
(* What ingestion promises. *)

Letters == [user : Users, thread : Threads, sent : BOOLEAN, files : BOOLEAN, storable : BOOLEAN]
Rows == [user : Users, mode : AllModes \ {"disabled"}]

MailTypeOK ==
    /\ mail \in Seq(Letters)
    /\ Len(mail) <= MaxMail
    /\ aged \in 0..Len(mail)

AccountTypeOK ==
    /\ mode \in [Users -> AllModes]
    /\ active \subseteq Users /\ linked \subseteq Users /\ widened \subseteq Users

JobTypeOK ==
    /\ jobs \in [Messages -> Nat]
    /\ pending \subseteq 1..Len(mail) /\ carries \subseteq 1..Len(mail) /\ files \subseteq 1..Len(mail)

FetchTypeOK ==
    /\ pc \in {"idle", "users", "list", "fetch", "thread", "insert"}
    /\ queue \subseteq Rows
    /\ row \in Rows \cup {NoRow}
    /\ row = NoRow <=> pc \in {"idle", "users"}
    /\ row = NoRow => list = <<>> /\ mates = <<>> /\ seen = {} /\ out = <<>>
    /\ list \in Seq(MailOf(row.user))
    /\ mates \in Seq(MailOf(row.user))
    /\ seen \subseteq MailOf(row.user)
    /\ out \in Seq([id : MailOf(row.user), named : BOOLEAN])
    /\ pc = "thread" => out # <<>>

\* Shape of the state; whatever the worker holds is of the mailbox it is on, and
\* between two users it holds nothing.
TypeOK == MailTypeOK /\ AccountTypeOK /\ JobTypeOK /\ FetchTypeOK /\ faults \in 0..MaxFaults

\* "re-runs inside the backfill window are cheap and don't re-create ..."
\* (index.js:26-30): a message has one job at most, whether it was listed or came
\* with a thread, and whatever failed before.
EnqueuedOnce == \A m \in Messages : jobs[m] <= 1

\* "don't re-create the attachment dir on disk for already-processed messages"
\* (index.js:27-28): no directory is made for a message that has a job; the
\* extractor, which may be done with it, would never remove it.
NeverRestaged == [][\A m \in files' \ files : jobs[m] = 0]_vars

\* How far "Inbox is never scanned unless the user explicitly opts into
\* full_inbox" (README.md:86, gmail-worker index.js:6) holds of this code: a received
\* message, in a thread the user has sent nothing to, becomes a job only if the user
\* was once put in full_inbox or in labeled_only, whatever modes change during a tick.
\* The documents promise it of full_inbox alone and describe labeled_only as "only
\* emails the user tagged" (README.md:93), which buildQuery does not keep.
InboxOnlyWhenAsked ==
    \A m \in 1..Len(mail) :
        LET u == mail[m].user IN
        jobs[m] > 0 =>
            \/ u \in widened
            \/ \E s \in MailOf(u) : mail[s].sent /\ mail[s].thread = mail[m].thread

\* "your sent emails will start being extracted" (commands.js:141): whatever a
\* connected user has sent becomes a job unless it grows too old first.
SentIsIngested ==
    \A m \in Messages :
        (m <= Len(mail) /\ mail[m].sent /\ mail[m].user \in linked)
            ~> (jobs[m] > 0 \/ m <= aged)

\* "sent messages + the threads they belong to (so the context the user replied to
\* comes along)" (README.md:92): what a sent message answers gets a job with it.
ThreadComesAlong ==
    \A s, m \in Messages :
        (/\ s <= Len(mail) /\ m < s /\ mail[s].sent /\ jobs[s] > 0
         /\ mail[m].user = mail[s].user /\ mail[m].thread = mail[s].thread)
            ~> jobs[m] > 0

\* "otherwise large PDFs leak forever on the shared volume" (extractor
\* index.js:52-53): what was staged for a message is removed in the end.
StagedFilesRemoved == \A m \in Messages : m \in files ~> m \notin files
=============================================================================

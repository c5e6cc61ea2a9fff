# Cogent42 Team: a verification project in TLA+

This directory holds TLA+ models of the program in `src/`, the TLC
configurations that check them on small instances, and proofs of the theorems
that matter most, checked with TLAPS. Paths such as `write.js:86` are relative
to the file's place under `src/apps/` or `src/packages/`.

Run the tools in this directory:

    tlc -workers 2 -config queue.cfg MCJobQueue     # one run
    tlapm JobQueueProofs.tla                        # one module's proofs

`PROJECT.json` lists the runs, the property each one checks, the mutation of
the code each property is known to catch, the source lines of every definition,
the findings, the hazards and the theorems.

## 1. The system

Cogent42 Team gives every member of a team a Telegram bot that remembers what
the member said and wrote. Five kinds of process share one PostgreSQL database
and one volume for staged attachments; they never call each other. The database
is the only channel between them, almost every handler is a chain of single
statements without a transaction (`db/src/index.js` has a `tx` helper that
nobody calls), and every `await` is a point where the others run.

| process | state it owns | writes | reads |
|---|---|---|---|
| bot, one container per user (`apps/bot`) | in-memory Claude session | `chat_sessions`, `extraction_jobs`, `knowledge_entries` (forget, acl, last_seen), `instances` (heartbeat), `user_sessions` (magic links) | own and team facts |
| gmail-worker (`apps/gmail-worker`) | none between ticks | `extraction_jobs`, attachments on the volume | `users`, Gmail |
| extractor-worker (`apps/extractor-worker`) | `CONCURRENCY` slots, each with a leased job | `extraction_jobs`, `knowledge_entries`, `users.last_consolidated_at`; removes attachments | attachments |
| control-plane (`apps/control-plane`) | none | `users`, `user_secrets`, `instances`, `user_sessions`, `knowledge_entries`, purge of everything; Docker containers | all |
| scripts (`scripts/`) | `_migrations`, git checkout | schema | `users` |

### Components

| component | source | state | operations | what is hard | what makes it correct |
|---|---|---|---|---|---|
| extraction queue and worker | `extractor-worker/src/index.js` | `extraction_jobs`, slots, staged files | enqueue, lease, extract, write, complete, fail, clean up, purge | concurrent leases; crash while leased; a lost reply; retry after a partial success | a job has one worker; every job is settled; its facts are written once; files live as long as the job needs them |
| knowledge table | `001_init.sql`, every statement on `knowledge_entries` | rows and their supersede links | insert, reinforce, replace, delete, edit, purge | links between rows that others delete | chains stay well formed, inside one owner, and never block a purge |
| fact writer | `extractor-worker/src/write.js`, `classify.js` | rows found, decisions pending, per slot | `resolveAcl`, search, classify, reinforce, insert, retire, `prune` | everything is read before an LLM call and used after it; several slots for one owner; no transaction | a near-duplicate, a dropped fact or an owner below the cap only where calls overlap; newer assertion wins; what is not shared stays home |
| consolidation | `consolidate.js` | candidates, group, throttle | count, select, mark, ask, merge | the LLM's answer is minutes old | evidence adds up; private stays private; at most one run per window |
| chat sessions | `bot/src/session.js`, `index.js`, `commands.js` | open sessions | append, flush, sweep, `/done` | pick and store are two statements; sweep, command and messages overlap | nothing said is extracted twice or lost; limits hold |
| gmail worker | `gmail-worker/src` | a tick's list, thread, output | list, skip, fetch, expand, stage, insert | a tick that stops half-way is repeated; cap without paging; files staged before the row | one job per message; what was sent comes along; the inbox is left alone; files do not leak |
| users and bot provisioning | `control-plane/src/routes/users.js`, `lib/docker.js`, `bot/src/instance.js` | `users`, secrets, instances, containers | create, restart, delete, patch, boot | overlapping chains of statements and Docker calls; failures half-way | an active user has a bot, a deleted one has none |
| dashboard sessions | `routes/me.js`, `lib/auth.js` | `user_sessions`, magic links | issue, consume, authenticate, log out | link consumed before the session exists; the gate and the handler are two statements | one session per link, none after logout; facts change by their owner only |
| retrieval and prompt | `bot/src/prompt.js` | `last_seen_at` | search own and team facts, refresh | the refresh, which nobody waits for, decides what prune drops | nobody reads what its owner does not share; what is used is kept |
| reply delivery | `bot/src/format.js`, `index.js` | chunks not sent yet | `chunkForTelegram`, HTML, plain text | boundaries at the limit; HTML that Telegram refuses | a reply arrives once, whole and in order |
| migrations and deployment | `scripts/migrate.js`, `deploy.sh` | `_migrations`, git HEAD, images, running code | pull, migrate, rebuild, restart bots | a run that fails half-way is repeated; two ways to migrate | what was deployed is what runs; no code before its schema |
| crypto, embeddings, database pool, web pages, audit, health | `packages/`, `public/`, `routes/` | none of their own | library calls, reads | little | nothing beyond one call |

`PROJECT.json` lists all eighteen parts with their status. The hazards it lists
are the places where two steps of these components can meet badly; the
properties below are chosen for them.

### How the components interact

    owner --> bot: appendChatMessage --> chat_sessions --flush--> extraction_jobs
    Gmail --> gmail-worker: stage files, insert job --------------> extraction_jobs
    extraction_jobs --lease--> slot: extract --> writeFacts --> knowledge_entries
                                             (prune -> consolidateIfOver)
    owner, admin --> bot commands, dashboard, control-plane --> knowledge_entries, users
    admin --> control-plane --> Docker --> bot

## 2. Modules

| module | models | EXTENDS |
|---|---|---|
| `JobContract` | what `extraction_jobs` promises those who insert into it, abstractly | |
| `JobQueue` | `extraction_jobs` and the slots that drain it | (INSTANCE `JobContract`) |
| `KnowledgeTable` | `knowledge_entries` as an abstract machine: one action per SQL statement | |
| `Canonical` | what `consolidateIfOver` does with one group: read it, insert the canonical row, replace the group | `KnowledgeTable` |
| `FactWriter` | `writeFacts` in several slots, `prune` with the merges of consolidation included, with owners' and admins' edits | `Canonical` |
| `WriterHistory` | what a call of `writeFacts` owes to what happened while it ran | `FactWriter` |
| `Retrieval` | the bots' searches and refreshes, composed with the writers | `WriterHistory` |
| `Consolidation` | the whole of `consolidateIfOver` in several slots, with writers and editors around it | `Canonical` |
| `ChatSession` | `chat_sessions`, turns, sweeps and `/done` | |
| `ReplyDelivery` | from the model's answer to the messages in the chat | |
| `GmailIngest` | ticks of the gmail-worker, mailbox and extractor around it | |
| `BotProvisioning` | requests of the control-plane and Docker | |
| `DashboardSessions` | magic links, sessions, the gate, logout and edits of own facts | |
| `Deployment` | `deploy.sh`, `migrate.js`, and users that come and go meanwhile | |
| `JobQueueProofs`, `KnowledgeTableProofs`, `ConsolidationProofs`, `GmailIngestProofs`, `DashboardSessionsProofs` | theorems | the component, `TLAPS` |
| `ChatSessionProofs` | theorems about a bot's sessions and the delivery of its replies | `ChatSession`, `ReplyDelivery`, `TLAPS` |
| `BotProvisioningProofs` | theorems about bots and about `Deployment` | `BotProvisioning`, `Deployment`, `TLAPS` |
| `FactWriterProofs` | theorems about the writers and about `Retrieval` | `Retrieval`, `KnowledgeTableProofs` |
| `MC*` | constants for TLC: small sets, symmetry, bounds | the component, `TLC` |

There are two abstract specifications.

`JobContract` is what a producer may rely on: a job is leased to one worker at a
time and at most `MaxAttempts` times, it is done only after somebody got through
its facts, and it is given up only after its last attempt. It has no slots, no
faults and no files. `JobQueue` implements it under the mapping `life <- status`,
`tries <- attempts`, `answered <- handled` and `leased <- Leased`, the jobs some
slot is working on. A lost reply of `leaseJob` is a `Lease` whose worker never
learns of it; a crash is an `Abandon` of every lease at once.

`KnowledgeTable` is the abstract specification of the table: `TableNext` is
what any client may do to it, with the two promises a client makes
(`LinkPromise`: a `supersedes_id` names a row of the same owner;
`ReplacePromise`: the row that replaces others is a row of the owner, newer
than they are). `FactWriter` and `Consolidation` are two detailed
specifications that EXTEND it (through `Canonical`), so their `table` and `lastId` are its variables
and the refinement mapping is the identity: `RunsTableStatements` and
`MergesAreTableStatements` are `TableSpec` itself, checked as a PROPERTY of the
detailed specifications. Both are also proved. The links and foreign keys
are a matter of the table alone; the writers only have to keep their two
promises, which is what the code does not say anywhere.

`Retrieval` composes the readers with the writers: its `Inject` and `Refresh` are
steps of the bots, and every other step is one of `FactWriter`. The two meet in
`last_seen_at`, which the bots write and `prune` reads, and in `acl`, which the
writers and owners write and the bots read.

### How state and actions correspond to the code

**JobQueue.** `status`, `attempts` are columns of `extraction_jobs`; a row not
inserted yet is `"absent"`, a purged one `"deleted"`. `staged` is the
directory of attachments. `pc` and `held` are a slot's place inside `runOne` and
its job. `faults` counts what failed, by kind: the properties that fail after one kind
of fault only say so by it. `Lease` is the CTE of `leaseJob` (oldest pending row with attempts left,
`FOR UPDATE SKIP LOCKED`: atomic). `Extracted`, `ExtractedNothing`,
`ExtractThrew`, `WriteFacts`, `WriteThrew`, `Complete`, `Fail`, `Cleanup` are
the awaits of `runOne` in order, with its early return and its catch and
finally blocks. `Enqueue` and `Purge` are the other services. Faults are
actions of their own: a statement refused, one that takes effect with its reply
lost, an SDK call that never ends (`Hang`), a failed `rm`, the end of the
process. The constant `Faults` says which kinds a run allows.

**KnowledgeTable.** `table` maps ids to rows; a row has the columns the code
branches on (owner, fact, category, acl, permanence, evidence, deletion, the two links,
embedding, whether it is older than a week). Of the categories only two kinds are
told apart: those that are private by default and kept out of the prompts' list of facts
(preference, rule, personal), and the others; `SetCategory` is the PATCH of one, which
leaves the acl as it is. `last_seen_at` is `FactWriter`'s
`seenBefore`, a relation of ids. A foreign key that would refuse a DELETE is the guard
of `DropRows`.

**FactWriter.** `Prepare` is phase 1 for one fact (acl, embedding, the two
searches), `Classify` phase 2, `ApplyTight`, `ApplyLoose` and `Retire` phase 3
statement by statement, `CountRows` and `Prune` the two statements of `prune`. Between
the last fact and the count comes `consolidateIfOver`: `Consolidate` chooses the
candidates, and `ReadGroup`, `InsertCanonical` and `ReplaceGroup` merge any groups of
them; `CountRows` may come at once as well, which is a call that is throttled, finds too
little to do or gets no usable answer. `MergeRefused` and `ReplaceViolatesKey` are what
`prune` catches. `items[s]` holds what the slot has read and not yet used. `Refused`,
`InsertViolatesKey`, `RetireViolatesKey` and `Abandon` end a call half-way. The
edits are `Forget`, `ChangeAcl`, `ChangeImportance`, `ChangeCategory`, `ToggleShare`,
`EraseRow`, `PurgeUser`. `seenBefore` says of two rows that the first has the earlier
`last_seen_at`; rows that one UPDATE has touched have the same, and `prune` may take either
first (`LeastSeen`).

**WriterHistory.** Two history variables, and no step of its own. `began` is the last
id handed out before a call began: rows with a later id were written under the call. `gone`
are the rows deleted under a call of those it relies on: the rows its prepared facts wait
for, and, between the count and the delete of `prune`, the owner's rows.

**Canonical.** `TakeGroup` is the SELECT of a group, `PutCanonical` the INSERT and
`GiveWay` the UPDATE. `merge[s]` is what the slot has read. The acl of the new row is
private if a row of the group was, or if the LLM's category is private by default;
`users.share_to_team` is not asked (`consolidate.js:143`).

**Consolidation.** `Begin` reads the throttle, `Count`, `Select`, `Mark` and
`Ask` follow in the order of the code, and for each group of the LLM's answer
`ReadGroup`, `InsertCanonical` and `ReplaceGroup`. `Write`, `EditRow` and
`DropRow` are what writers, owners and admins do meanwhile. `edited` is a history
variable: which rows of a group were edited after the slot read it.

**ChatSession.** `Receive` to `Answered` are `runAndReply`: store the question,
run the model, store the answer, each append a `Pick` (SELECT) and a `Put`
(UPDATE or INSERT). `Claim` is the single statement of `flushSession`, which
marks the row and inserts the job in one CTE. `Sweep` and `Done` read the ids
they will flush.

**GmailIngest.** `Tick` reads the accounts, `List` asks Gmail, `Fetch` handles
one message (skip check, get, staging), `GetThread` and `FetchMate` the thread of
a sent message, `Insert` is the existence check and the INSERT of one job. What
the tick remembers is `row`, `list`, `mates`, `seen`, `out`. `SetMode` is the admin's or the
owner's own PATCH. `Widening` are the modes in which `buildQuery` asks for all mail:
`full_inbox`, and `labeled_only` as long as there is no label, which no service sets.

**BotProvisioning.** Every `await` of POST /, POST /:id/restart and DELETE /:id
is an action of the request `h`: `AddUser`, `AddSecrets`, `StopNamed`,
`RemoveNamed`, `CreateContainer`, `StartContainer`, `Register`, `Activate`,
`Disable`; `Conflict` and `DockerThrows` are Docker's refusals, `DatabaseThrows`
a failing statement, `Crash` the end of the process. `BotBoots` is the
heartbeat row a starting bot writes. `disturbed` and `asked` are history variables:
the requests that met another one for their user or whose teardown failed, and
whether anybody ever asked to delete or patch a user.

**Retrieval.** `Visible` is the WHERE clause both queries of `retrieveContext`
share, `Inject` a turn of a bot with any `Limit` visible rows, `Refresh` the
UPDATE that nobody waits for, `RefreshLost` its catch. `since` is a history
variable: for each row, the rows of its owner that were put into a prompt since it
was last seen, which is what `last_seen_at` is to say. `sharing`, `cleared` and `vouched`
are histories too: whether the owner of a call has shared at any time of it; the rows
that somebody has let out (facts written by such a call, rows whose acl somebody has set, and
canonical rows for groups of such rows); and whether all rows a slot read for its group were
of that kind.

**ReplyDelivery.** `Answer` is what the query yields (the result, the message of
an error, or "(no response)"), `AppendReply` the append and the cutting,
`SendHtml`, `HtmlRefused` and `SendPlain` the loop over the chunks.
`ChunkForTelegram` is the function itself, on paragraphs of visible characters, which are told
apart by paragraph and place.

**DashboardSessions.** A token is a row of `user_sessions`. `MintLink` is `/me` in
the bot; `Claim` (the UPDATE that looks a link up and uses it up),
`MintSession` and `Answer` are the statements of GET /me/login; `Enter` is
`requireMeSession`, and `Logout` and `Edit` are the handlers behind it, in steps
of their own: what the gate has read may have changed. `origin` and `ended` are
histories: the link a session was minted for, the sessions a logout found.

**Deployment.** `head` is the commit checked out, `built`, `image` and `bot` the
commit each service, the bot image and each bot runs, `schema` the migrations in
effect, `recorded` the rows of `_migrations`. `phase` is where `deploy.sh` is, `todo` and
`list` what is left of the loops over `NEW_MIGRATIONS` and `USERS`. `Pull` to `RestartBot`
are its commands in order, `StartMigrateJs` and `Apply` the loop of
`migrate.js`, which somebody may run at any time; `DeployStops`,
`StatementFails` and `MigrateJsStops` are the failures. Meanwhile `CreateBot`,
`RestartByAdmin` and `DisableUser` are POST, POST restart and DELETE, and `SetStatus` is the
end of a creation and PATCH, which sets any status and leaves the bot as it is; a restart
asks for no status. `lost` and `missed` are histories: the commits of deployments
that stopped and the migrations that failed, and the users whose bot a
deployment left on an older image because they were not active when it listed them.

### Abstractions

What was left out, and why the properties cannot tell:

- Prompts, answers, message texts, MIME and encryption are data. An extraction
  yields facts, none, or an error; the LLM's verdicts and groups are any of the
  possible ones. Groups may be any non-empty sets of candidates, as nothing in
  the code checks that they are disjoint.
- Embedding distances are two relations, given as constants: `SameClaim` (within
  `STRICT_DEDUP_DISTANCE`) and `Related` (the loose net). Of several rows in
  one, ORDER BY distance may put any first. The LIMIT 5 of the loose search is not
  reached with the rows of a run.
- Ids are handed out in the order of `created_at`. `created_at` older than a
  week is a flag that `WeekPasses` sets.
- In `FactWriter` the reads of one fact in phase 1 are one step: between them is
  only a call to the embedding service, and each value read is used much later.
  A verdict is chosen when it is used. Of `consolidateIfOver`, which `prune` calls,
  the throttle, the threshold and the timestamp are left to `Consolidation`: in
  `FactWriter` it may get as far as its groups on any call, with any candidates the
  statement could choose.
- In `Consolidation`, LIMIT by `last_seen_at` picks any subset of the right size: the
  bots' refresh may have put the rows in any order, and no property there depends on it.
- In `Retrieval`, which of the visible rows match a prompt, are fresh and rank
  highest is data: any set of at most `Limit` visible rows. Rules are injected by a
  query of their own that refreshes nothing. One refresh is one UPDATE with
  one `now()`: its rows tie.
- In `ReplyDelivery` a reply is a sequence of paragraphs of visible characters;
  whitespace inside a paragraph and the conversion to HTML are wording. Telegram takes a
  plain text that is not blank and not too long, and may refuse any HTML.
- In `DashboardSessions` a raw token is random and never minted twice. A request
  that is turned away changes nothing and is left out, as are the routes that only read.
- In `JobQueue` an extraction that ends without success (`error_max_turns`, say) is an
  extraction of no facts, as `extract.js:66` and `:86` treat it: its job is done.
- In `Deployment` a commit brings at most one migration, which can be run again (all
  of them use IF NOT EXISTS), and does not change files of earlier ones. The root `package.json` and
  `package-lock.json` are a part of their own (`root`), which every Dockerfile copies and no
  pattern of `deploy.sh` matches. Every user has a `telegram_bot_name`, as POST requires.
- In `ChatSession` messages are numbered as they are stored, and the numbers are
  the clock. The history that is replayed to the model is only read. A purge is
  left out: the bot is torn down first. A failing handler is `TurnThrows`.
- In `GmailIngest` a message is its position in order of arrival; drafts and
  chats, which all queries exclude, never arrive. Skip check, get and staging of
  one message are one step, as are existence check and INSERT: one worker process
  is the only one that inserts mail jobs or stages files, and failures between
  the two are actions (`StageThrows`, `ReplyLost`).
- In `BotProvisioning` a container has its user's name. The bot's first write
  of its heartbeat is modelled; later heartbeats change a column nothing reads.
  The rows that a purge deletes are in `KnowledgeTable` and `JobQueue`. The callback of
  the Gmail consent inserts a row of `user_secrets` if there is none (`gmail.js:58`); it holds
  no bot token, so the bot a restart brings up from it cannot log in to Telegram, and it is
  left out.

## 3. Runs

A passing run finishes without an error; a violation run checks one property
that a comment or a document of the repository states and the code does not
keep, and TLC finds it violated (section 6).

### Passing runs

| run | instance | what it shows |
|---|---|---|
| `queue` | 2 slots, 2 jobs of 2 owners, 2 attempts, purges, 1 fault of any kind, hanging calls included; fairness | the slots keep `JobContract`; a job has at most one slot; done means handled, and stays done until a reply is lost; a job is processing without a slot only after a crash, a lost reply or a refused statement; every other job is settled, also while a call hangs in the other slot; files of a settled job are removed |
| `writer` | 2 slots, 1 owner, 3 calls with a claim or its contradiction, cap 1, 3 rows, forget, hard delete and purge, and 1 refused statement or failed embedding | the writers implement the table although no call is a transaction; only rows older than a week are contradicted; without a fault the newer row wins; a fact repeats only rows written under its call, is dropped only for a row deleted under it, and prune ends below the cap only by rows deleted under it |
| `retrieval` | 1 slot, 1 owner, 2 bots, cap 1, 2 calls, groups of up to 2 rows consolidated, edits of importance, category, acl and sharing, hard deletes, failing embeddings, 1 refresh under way; one oddity at a time | nothing reaches the other bot that nobody let out, canonical rows included; what prune takes was not in use while what it keeps was not |
| `merge` | 2 slots, 1 owner, 3 rows, every kind of change by others (1 edit), 1 refused statement or failed embedding | consolidation implements the table; evidence of a group adds up; no private row gives way to a team row unless one of the two was edited meanwhile |
| `chat` | 2 turns at once, 2 sweeps, 1 `/done`, 2 messages of the owner, session limit 2, 1 fault; fairness | nothing extracted twice or lost; the append races cost at most one message per handler; every session is flushed in the end |
| `ingest` | 3 messages of one thread, cap 2, 2 faults of any kind, changes of mode, disabling and purge | a message has at most one job; nothing is staged again for a message that has one; mail the user neither sent nor took part in is taken only after `full_inbox` or `labeled_only` was chosen |
| `ingest_live` | 3 messages, 2 threads, cap 3, no fault; fairness | what is sent becomes a job with its thread; staged files go |
| `bot` | 3 requests at a time for 1 user, 4 containers, 2 faults of any kind | an active user has secrets and an instances row; creations and restarts that race for the name leave a running bot; a user whose DELETE met nobody stays down |
| `dashboard` | 2 users with a fact each, 4 tokens, 2 requests at a time, 1 fault | one session per link; a link is lost only to a failure; no session a logout found is let in again; a fact changes by its owner's request only |
| `reply` | all replies of up to 3 paragraphs of 0 to 9 characters, limit 4, Telegram's 5, 1 failing call | a reply arrives once, whole and in order; a paragraph that fits in a message is not cut |
| `deploy` | 5 commits deployed in any portions, `migrate.js` beside it, 2 users created, restarted, disabled, deleted and made active again, 2 failures | between deployments only what a stopped one lost, and bots of users it did not list, are behind; no code before its schema, but for migrations that were lost; what `migrate.js` has recorded is in effect and complete |

### Violation run

`queue_retry_loses_files`: `FilesKeptUntilSettled` is what docker-compose.yml says of
the attachments, and TLC finds it violated without any fault (section 6). Around
it, `FilesRemovedOnceSettled` holds.

### Side conditions

Several properties hold only up to a condition, which is part of the property
or of the run, and which is where the code stops guaranteeing them (section 6
says what happens beyond):

- `QueueDrains`: settled, or stranded, which `StrandedByFault` allows only after a fault.
- `DoneIsFinal`: until a reply of the database was lost.
- `DuplicatesNeedOverlap`: rows written under the call (by another slot, or by this call for an
  earlier fact of its batch) and facts without an embedding may be repeated.
- `FactDroppedOnlyWithItsRow`: a row that was found to be repeated, and is deleted under the
  call, takes the fact with it.
- `PruneStopsAtCap`: each row of the owner deleted since the count leaves him one further below.
- `NewerAssertionWins`: no refused statement.
- `OnlyClearedRowsLeave`: a row may leave if the owner shared at any time of the call
  that wrote it, if somebody has set its acl, or if it is a canonical row for such rows; rows
  of a group that are erased before it is read have no say.
- `PruneSparesTheUsed`: the refresh has neither failed nor is still on its way.
- `MergeKeepsPrivate`, `EvidenceAccumulates`: rows not edited after the group was read.
- `SentIsIngested`, `ThreadComesAlong`, `StagedFilesRemoved`: no failure, below the cap.
- `RestartsLeaveBot`: no DELETE and no failure; `ActiveIsProvisioned`: nobody sets
  the status with PATCH; `DeletedStaysDown`: a DELETE that overlaps no other
  request for its user and whose teardown succeeds.
- `BurntLinkByFault`, `ReplyArrivesWhole`: until a step has failed.
- `DeployedIsCurrent`: but for the commits of stopped deployments and the migrations that
  failed (`lost`), and for the bots of users that were not active when the users were listed
  (`missed`); `SchemaBeforeCode`: but for `lost` migrations.
- `InboxOnlyWhenAsked`: `labeled_only` counts as asking, as it takes the whole mailbox.

### Bounds, and why they are enough

- Two of everything that races (slots, turns, sweeps, requests): every race found
  is between two. `bot` has three requests, because there the loser of
  one race may win the next.
- `MaxAttempts = 2` instead of 5: one retry, and one exhaustion. The comparison of
  the lease with that of `failJob` is an off-by-one at any value.
- `MaxPerSession`, `MinToExtract`, `Cap`, `MaxPerTick`, `MaxCandidates`, `Limit`: small
  enough to be reached and overrun inside a run. 2 to 4 rows, jobs or messages: one
  below the limit, one at it and one beyond.
- `MaxFaults` (in `Deployment` and `ReplyDelivery` `MaxFailures`) of 1 or 2: one failure at every step, and where there are two, the
  second meets the recovery from the first. `MaxEdits` of 1 in `merge`: each kind of
  change by others, at every point of an overlapping pair of calls.
- `MaxEvidence`, `MaxRows`, `MaxRuns`, `MaxMail`, `MaxContainers`, `MaxTurns` cap
  counters; where all of them are used up a named stuttering step (`Quiet`,
  `OutOfRows`, `OutOfContainers`, `TokensSpent`) stands for a system that goes on outside the
  bound, so deadlock is checked in every run.
- `writer`, `retrieval` and `merge` have a CONSTRAINT, `FewOddities`: in `writer` and
  `merge` a statement fails or a row is left without an embedding, not both; in `retrieval`
  one thing at a time is out of the ordinary (a row published, withdrawn, moved,
  made permanent, erased or left without an embedding; a failure; a week; rows put into
  prompts). The theorems hold without it.
- `writer` has batches of one fact, and consolidation does not get to its groups there
  (`MinCandidates` is 4): its two slots overlap instead. `retrieval` has one slot, which
  consolidates. The theorems about both allow any batches, slots and groups.
- `ChunkMax = 4` with paragraphs of 0 to 9 characters and a break of 2: a paragraph
  that fits alone, one that fits with its break or without it only, and cuts that fall before,
  into and after the break. `chunkForTelegram` compares lengths only, so 3800 meets
  no other case.
- Five commits in `deploy`: a service alone, a migration, the bot, the compose file,
  and shared code with a migration; they are published one by one and deployed in any portions.
- Four tokens in `dashboard`: two links and their sessions, of one user or of two.
- Symmetry is used for slots, users, tokens and requests, which the specifications
  never tell apart, and never in a run with a liveness property.

### Fairness

- `JobQueue`: weak fairness of each slot's next step. Each `await` returns or throws;
  the loop of `workerLoop` polls for ever. The faults are not fair. The SDK call has no
  timeout: a call that never ends is the fault `Hang`, after which its slot has no next
  step, and `QueueDrains` says what becomes of the others.
- `ChatSession`: weak fairness of each sweep's next step (the 30 s timer and its
  statements) and of `GrowIdle` (time passes). Nothing is assumed of owners, turns or `/done`.
- `GmailIngest`: weak fairness of `WorkerStep` (one loop, each call returns or throws) and
  of `Handled` for each message: the extractor settles its jobs and removes their
  files, which is what `QueueDrains` and `FilesRemovedOnceSettled` say of `JobQueue`.
- The other modules state safety only: their calls may stop anywhere.

## 4. Proofs

All proofs hold for every value of the constants that satisfies the module's
named assumption: `JobQueueConstants`, `TableConstants`, `WriterConstants`,
`RetrievalConstants`, `ConsolidationConstants`, `ChatConstants`, `IngestConstants`,
`ProvisioningConstants`, `SessionConstants`, `DeploymentConstants`, `ReplyConstants` (types of
the constants, at least one attempt, message, unit of evidence or character, an answer of at
least one paragraph, as `split` returns, and a `ChunkMax` that Telegram takes). Each run
evaluates those of its modules. `CanonicalConstants` are those of `Canonical`. No
theorem has a hypothesis of its own.

Several invariants were model-checked first, and are no longer in a run's list since
they are proved: `PendingIsLeasable` and `FailedMeansExhausted` (the two sides of
`attempts < 5` and `attempts >= 5`), `HeldRowIsProcessing`, `WritesBounded`,
`ChainsWellFormed`, `ReplacesEarlierRow`, `ReplacedIsHidden`, `PurgeNeverBlocked`,
`ReplacedOnce`, `SessionsBounded` and the type invariants.

| module | theorem | statement |
|---|---|---|
| `JobQueueProofs` | `TypeCorrect` | `Spec => []TypeOK` |
| | `QueueKeepsContract` | the slots, with all their faults, implement `JobContract` |
| | `ExclusiveLease` | at most one slot per job, after crashes and lost replies too |
| | `HeldRowOwned` | the row a slot holds is processing, purged, or done by a lost reply |
| | `NoStrandedPending` | a pending job has an attempt left |
| | `BoundedWrites` | facts of a job are written at most once per lease |
| | `SettledMeaning` | done was handled, failed is exhausted |
| | `StrandingNeedsFault` | a job is processing without a slot only after a crash, a lost reply or a refused statement |
| | `DoneStaysDone` | until a reply is lost, done is final |
| `KnowledgeTableProofs` | `ChainsHold` | links are to later, existing rows of the same owner; replaced rows are hidden |
| | `PurgeAlwaysPossible` | no foreign key refuses a purge |
| | `ReplacedForGood` | what was replaced is never revived or replaced again |
| `FactWriterProofs` | `WriterImplementsTable` | `WriterSpec => TableSpec` |
| | `WriterKeepsChains` | the table's invariants, of the writers, by the refinement |
| | `WriterTypeCorrect` | `WriterSpec => []WriterTypeOK` |
| | `ContradictionsAreOfSettledRows` | only a row that was a week old is contradicted |
| | `NewerAssertionAlwaysWins` | without a refused statement, a contradicted row lives on only while its successor's call is about to retire it |
| | `OldClaimsAreNotRepeated` | `HistorySpec => DuplicatesNeedOverlap`: a fact that becomes a row repeats no row older than its call |
| | `FactsGoOnlyWithRows` | `HistorySpec => FactDroppedOnlyWithItsRow`: a fact is dropped only for a row deleted after it was prepared |
| | `CapIsKept` | `HistorySpec => PruneStopsAtCap`: a prune ends below the cap only by the rows others deleted since it counted |
| | `NothingLeavesUncleared` | `RetrievalSpec => []OnlyClearedRowsLeave`: no bot is shown a row of somebody else that nobody let out |
| | `UsedRowsAreSpared` | `RetrievalSpec => PruneSparesTheUsed`: what prune takes was not in use while what it keeps was not |
| `ConsolidationProofs` | `ConsolidationTypeCorrect` | `ConsolidationSpec => []ConsolidationTypeOK` |
| | `MergesImplementTable` | `ConsolidationSpec => TableSpec` |
| | `PrivateStaysPrivate` | no private row gives way to a team row, unless edited after the group was read |
| | `EvidenceIsKept` | a canonical row has at least the evidence of the rows that give way to it, unless edited after the group was read |
| `ChatSessionProofs` | `ChatTypeCorrect` | `Spec => []TypeOK` |
| | `TalkReachesExtractor` | what a session had when it was flushed is one job, complete and in order |
| | `NothingExtractedTwice` | no message is in two jobs |
| | `ReplyTypeCorrect` | `ReplySpec => []ReplyTypeOK` |
| | `RepliesArriveWhole` | `ReplySpec`: every visible character of a reply arrives once and in order, unless a call fails |
| | `ParagraphsAreWhole` | `ReplySpec`: no chunk is longer than the limit, and a paragraph that fits is in one chunk |
| | `BoundedOverrun` | the append races overrun a session, and escape its flush, by at most one message per handler |
| `DashboardSessionsProofs` | `DashboardTypeCorrect` | `Spec => []TypeOK` |
| | `LinkOpensOnce` | one session per link |
| | `LinkLostByFault` | a used link opened a session, unless its login is under way or has failed |
| | `LogoutIsFinal` | no session a logout found is let in again |
| | `EditsAreTheOwners` | a fact changes by a request of its owner, who came by a link minted for him |
| `BotProvisioningProofs` | `ProvisioningTypeCorrect` | `Spec => []TypeOK` |
| | `ActiveMeansProvisioned` | an active user has secrets and a row of instances |
| | `RestartsKeepBot` | however creations and restarts overlap, the bot runs when all are over |
| | `DeleteTearsDown` | a DELETE that met nobody and was not refused leaves no running bot |
| | `RecordKeepsOrder` | `DeploySpec`: what is recorded is in effect and leaves no earlier migration out |
| | `MigratedBeforeRun` | `DeploySpec`: nothing runs ahead of its schema, but for `lost` migrations |
| | `DeployLeavesNothing` | `DeploySpec`: between deployments nothing is behind HEAD but what was `lost` and the bots of `missed` users |
| `GmailIngestProofs` | `IngestTypeCorrect` | `Spec => []TypeOK` |
| | `OneJobPerMessage` | a message has at most one job |
| | `StagedOnlyWithoutJob` | no directory is made for a message that has a job |
| | `InboxIsAskedFor` | the inbox is taken only after a mode of `Widening` was chosen |

The invariants of the runs are not inductive as they stand. What had to be added:

- **JobQueue.** `IInv` adds that a row not inserted has no attempts
  (`AbsentUnleased`), a held row exists (`HeldRowExists`), a slot about to write
  has an attempt it has not written yet (`WriteOwed`), and a slot about to
  complete has seen the facts in (`CompletesHandled`). `WriteOwed` is why the
  increment of `attempts` has to be in the statement that leases.
  `DoneStaysDone` adds `FailingNotDone`, which only holds until a reply is lost.
  `StrandingNeedsFault` adds `HandedBack`: as long as nothing failed, a slot that has
  settled its job or given it back holds one that is no longer processing, or
  that another slot has leased since. `QueueKeepsContract` needs `IInv` as well: a
  pending job is nobody's (`PendingNotLeased`), which is why the abstract `Lease` may ask
  that no other worker is on it.
- **KnowledgeTable.** `ChainInv` is inductive: types, `ChainsWellFormed`,
  `ReplacesEarlierRow` and `ReplacedIsHidden` together. `PurgeNeverBlocked`
  follows from it.
- **FactWriter.** `WriterInv` adds to `ChainInv` that whatever a call has read, it
  is *known* (`KnownRow`): the id was handed out, and if the row is still there
  it belongs to the call's user. It may be deleted, replaced or hidden, but
  ids are never reused and owners never change, so what is stale in a slot's memory is
  never somebody else's row. This is what lets the code go without a transaction, and
  every step of the writer is then a statement of the table with its promise. `MergingKnown`
  (with `MergeHeld`) says the same of the group a slot is merging, whose canonical row is later
  than all of it. `CallInv` adds the shape of what a call holds. `SettledInv` says that every row a slot
  holds as doubtful or to be retired was a week old when it was read, and is still, or is
  gone: ids are not handed out again. `NewerAssertionWins` needs nothing more: the pair of
  rows is in the slot's memory exactly between the two statements. The steps of
  consolidation change nothing for it: a canonical row supersedes by `superseded_by` alone.
- **WriterHistory.** Each property follows what a call has prepared through the
  steps of everybody else. `NewsInv`: an item with an embedding and no row it repeats has no
  active row of its claim that is older than the call; rows become active only by being
  inserted, with an id later than `began`. `HeldInv`: a row an item waits for is active, or
  is in `gone`. `CapInv`: what is kept now and what is gone since the count add up to
  the cap and the overflow at least, a counting argument over `Cardinality`. `HistoryTypes` types
  the two histories; `ItemSource` and `PruneSource` say which steps prepare an item and start
  a prune. `SlotSequences` and `FiniteRows` are the facts about data that these proofs use.
- **Retrieval.** `ClearedInv` says that what a call has prepared for the team was prepared
  while its owner shared (`sharing`), that a group that was read as shareable is vouched for,
  and that every row with acl `team` is cleared; it is inductive because only an insert
  and an edit of acl write that column. In `SinceInv`, for `UsedRowsAreSpared`, the rows of a
  `since` set are seen later in the sense of `seenBefore`, unless a refresh is owed.
- **Consolidation.** `MergeInv` is the argument of `WriterInv` for the candidates, the group and
  its canonical row, which is later than all of them. `PrivacyInv` adds for privacy that
  what was read of a group still holds of the rows nobody has edited, that the
  canonical row has the acl that was computed, that no row refers to it yet, and that two
  calls never have the same one. The other slots' steps preserve it (`Spared`) because an
  UPDATE of acl is the only statement that changes one, and that is an edit.
  For evidence, `EvidenceInv` says that a call holds at least the sum over the rows of its
  group that are there and unedited: a set that can only shrink. Sums are folds, so the
  lemmas about them (`SumsExist`, `SumsAgree`, `TakeAny`, `SumOfPart`) are proved from the
  fold's own equation, each by a smallest counterexample (`LeastNumber`, from the library's
  `WFMin`), which needs no induction theorem over an operator.
- **ChatSession.** `ExtractInv` says that the numbers in the sessions are at most
  `posted` and never repeated, a job has exactly the messages its session had when it was
  claimed, and a session has one job. `RoomInv` bounds a session by the limit
  plus the handlers that have picked it and not yet stored: a counting argument over
  `Cardinality`.
- **ReplyDelivery.** `TakesCarry`, `TextShows` and `ChunksCarry` say what `ChunkForTelegram`
  computes of a reply with any number of paragraphs of any lengths. `FoldExists` gives a fold its
  meaning (the function of which `FoldLeft` takes the value exists and is followed from prefix to
  prefix), `SlicesAre` says that slices show each position once, and `Carries` is what is
  carried along: which characters a list of texts shows, in which order, and that no
  paragraph that would fit is in two of them. `DeliveryInv` then says that what has arrived
  and what is left to send are, one after the other, the whole reply; a chunk that Telegram
  refuses as plain text is blank, because none is longer than `ChunkMax`, and may be left
  out (`LeaveOut`).
- **DashboardSessions.** `Belongs` relates links, sessions and requests: a login past
  its claim holds a used link from which nothing descends yet and which no other login holds
  (`ClaimHeld`), sessions descend from used links of the same user (`Descends`), and a
  request past the gate works for the holder of a session (`EnteredBySession`), even if a
  logout has closed it meanwhile. That the claim is one UPDATE is what makes `ClaimHeld`
  inductive.
- **BotProvisioning.** `SecretsFirst` and `RegisteredFirst`: a creation has its secrets
  before anything that follows, and its row of instances before it activates; nothing deletes either.
  `BotWillRun` says of each user that was created that its bot runs, or that some request is
  where it still has to bring it up: who stops a bot creates it again, and of those that
  lose the race for the name another one has won it. `TornDown` says the same of a
  DELETE that met nobody (`Alone`): past its removal there is no container.
- **Deployment.** `FilesComplete` says that the files `migrate.js` holds leave out no earlier
  migration that is not recorded, which is what its sort and its ROLLBACK are for.
  `SchemaInv` says with `HeadMigrates` that what HEAD's schema lacks is still in `todo`
  or was lost, and `SchemaBeforeCode` follows for everything that is brought up.
  `CurrentInv` follows the script: services (`ServicesUpTo`), image (`ImageUpTo`) and
  bots (`BotUpTo`) are current with the commit the deployment came from until their turn,
  and with HEAD from then on; a deployment that stops makes all of its commits lost
  (`StopKeepsCurrent`), and what is restarted is as current as the image (`ImageServes`). The lemmas on
  `Untouched` say that what is left alone has nothing to catch up with. The theorems are in
  the module of the bots' proofs; its two specifications share no names.
- **GmailIngest.** `TypeOK` and `EnqueuedOnce` are inductive together, as the existence
  check and the INSERT are one step of the only worker; the work is in the lemmas
  about what lists of a mailbox contain (`InOrderIsSeq` and its neighbours). `InboxIsAskedFor`
  needs `HeldIsWanted` and `JobsAreWanted` (what is held was wanted by a mode the
  user has had) and `ModesConsented`; `widened` only grows, so a mode read at the start of a
  tick and changed since is covered.

What is model-checked only:

- Liveness (`QueueDrains`, `FilesRemovedOnceSettled`, `EverySessionFlushed`,
  `SentIsIngested`, `ThreadComesAlong`, `StagedFilesRemoved`): fairness and ENABLED
  are out of the prover's reach.
- Induction over data is out of reach but for smallest counterexamples, as above, and for
  operators of a known meaning, as `Take`. No module uses a RECURSIVE operator.

## 5. Not modelled, and why

- **Prompts, Claude session, embeddings, encryption, Gmail's MIME, file conversion,
  Telegram, markdown to HTML**: calls to services and libraries, and wording; what the
  code makes of their outcomes (success, nothing, error, no return) is modelled where
  state depends on it.
- **Ranking**: which of the visible facts match a prompt and rank first is any choice of at
  most `Limit` of them, and the freshness window is not told apart from not matching.
- **The history replayed to the model** (`session.js:33-44`) and **downloads of photos and
  documents**: read for one turn, no state that another part sees.
- **Audit, health, info, heartbeats, logs**: they only read, or write what
  nothing reads.
- **`tx` and the pool**: each statement is an atomic step; nobody calls `tx`.
- **Web pages, compose file, `setup.js`**: presentation and configuration without state of
  their own; `setup.js` writes a `.env` file once.

## 6. Findings

Where a document says one thing and the code does another; `PROJECT.json` quotes
the sentence it contradicts.

- `queue_retry_loses_files`, `FilesKeptUntilSettled`, `extractor-worker/index.js:93`. No fault at all: the first extraction fails, the job goes back to pending, and its attachments are already removed when it is leased again.

Observations of the same kind that no run is spent on, each plain from the lines quoted:

- `write.js:75` reads the share flag before the embedding and the LLM call, and the rows
  are inserted with what it was then; README.md:82 says "flip it off and everything that
  user's bot extracts stays with them". A canonical row does not ask the flag at all
  (`consolidate.js:143`): rows for the team that were written before it was switched off become
  a row for the team that is written after, and if every row of a group is erased before
  its SELECT, nothing but the LLM's category decides. `OnlyClearedRowsLeave` is what does hold.
- `002_drop_source_ref_unique.sql:6-7` says that "Embedding-based dedup (...) still
  prevents real duplicates". With the default `CONCURRENCY` of 4 two calls of one owner search before either
  inserts, and both insert; so do two facts of one batch, and a fact whose embedding failed.
  `DuplicatesNeedOverlap` is what does hold.
- `session.js:66-72` appends by id alone: a message whose session is flushed between the
  SELECT and the UPDATE is stored where nobody extracts it, although `session.js:46` speaks
  of the most recent open session. `LateMessagesBounded` is what does hold.
- `gmail.js:78` asks for the whole mailbox when `labeled_only` has no `gmail_label_id`, which no
  service sets; README.md:86 says "Inbox is *never* scanned unless the user explicitly opts into
  `full_inbox` mode", README.md:93 describes the mode as "only emails the user tagged", and
  the header of gmail-worker's `index.js` (line 6) repeats the promise. `InboxOnlyWhenAsked` is what
  does hold: it counts `labeled_only` as asking.
- `users.js:35` says "Insert user + secrets atomically" above two statements without a transaction.
- `me.js:6` says that logout invalidates "the current session"; the code ends every session of the user.

The models also have behaviours that the side conditions of section 3 set aside.
They are what TLC answers when a condition is dropped:

- Queue. A call that never ends keeps its slot and its job for good (`extract.js:57`).
  A crash, a lost reply or a refused `failJob` while a job is leased strands
  it: nothing puts a `processing` row back (`index.js:19`). When `completeJob` is refused
  after the facts were written, the retry writes them again (`index.js:87`); the lease count
  bounds how often (`BoundedWrites`).
- Writer. Two slots of one owner write the same claim twice, as both search before either
  inserts (`write.js:86`); a fact whose row is deleted during the LLM call is dropped
  (`write.js:145`). When the UPDATE that retires the contradicted row is refused, both rows
  stay live and the retry reinforces the newer one only (`write.js:185`). Two prunes
  count before either deletes and end below the cap (`write.js:264`).
- Consolidation. A row made private between the SELECT of its group and the UPDATE
  gives way to a row the team reads (`consolidate.js:135`). Two slots pass the throttle at once
  (`consolidate.js:52`). A row the LLM names in two groups gives way to the first canonical
  row only; the second is inserted all the same (`consolidate.js:160`).
- Chat. A message appended between the sweep's SELECT and its claim is flushed with a session
  that is no longer idle (`session.js:103`).
- Gmail. A failure between the job of a sent message and those of its thread loses the
  thread, as the sent message is known from then on (`gmail.js:309`). Older sent messages beyond
  the 25 that are listed are never reached (`gmail.js:298`). A message whose INSERT always fails
  holds up all that come after it in the list (`index.js:67`). An original whose conversion fails
  stays on the volume when no other attachment of its message is staged (`gmail.js:249`).
- Provisioning. A DELETE that overlaps a restart or a creation may leave a running bot and
  even an active user (`users.js:198`). A failure of the second INSERT of POST / leaves a user that can
  be neither created nor restarted (`users.js:43`). A restart that recovers from a failed creation
  leaves the user disabled (`users.js:163`).
- Dashboard. A failure between the claim of a link and the INSERT of its session burns the
  link (`me.js:79`). A login that is under way when its user logs out opens its session all the
  same (`me.js:79`, `me.js:100`), and a request past the gate is served. Disabling or purging a
  user leaves his sessions as they are.
- Retrieval. A refresh that fails or comes late lets prune take a fact that is in use
  (`prompt.js:127`); rules are never refreshed (`prompt.js:30`).
- Reply. A paragraph of about a multiple of the limit leaves a last slice of blanks, which
  Telegram refuses twice and nobody misses (`format.js:73`). A message whose acknowledgement is
  lost arrives twice (`index.js:159`).
- Deployment. After a deployment that failed, HEAD is the new commit and the next one finds
  nothing to do (`deploy.sh:46`). psql goes on after a failing statement and exits with 0, and so does the
  script (`deploy.sh:61`). A user disabled after the list was read gets a bot all the same
  (`deploy.sh:97`). A user who is not active when the users are listed (being created,
  disabled by PATCH with his bot running) keeps the old image, also when he is made active
  later (`deploy.sh:89`, `users.js:121`). A change of the root `package.json` or lockfile
  alone, which every Dockerfile copies, rebuilds nothing; one of the compose file rebuilds the
  services but not the bot's image (`deploy.sh:72`, `:84`).

## 7. What could follow

1. `Pipeline`: the bot and the gmail-worker before `JobContract`, an abstract writer behind
   it, and a purge across them: a row written after the purge of its owner by a job that was
   leased before it.
2. The throttle and the threshold of `consolidateIfOver` inside `FactWriter`, with two slots
   whose runs overlap and bots that read what they merge.

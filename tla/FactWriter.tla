----------------------------- MODULE FactWriter -----------------------------
(***************************************************************************)
(* writeFacts (apps/extractor-worker/src/write.js) running in the slots of *)
(* the extractor worker, on the table KnowledgeTable models, while users   *)
(* and admins edit the same rows.                                          *)
(*                                                                         *)
(* A call prepares every fact of its job (acl, embedding, the rows it      *)
(* might repeat or contradict), asks the LLM about the doubtful pairs, and *)
(* only then applies the facts one by one from what it read: the rows may  *)
(* have changed in between.  There is no transaction around a call.        *)
(*                                                                         *)
(* Distances are the two relations SameClaim (STRICT_DEDUP_DISTANCE) and   *)
(* Related (the loose net); of several rows in one, ORDER BY distance may  *)
(* put any first.                                                          *)
(*                                                                         *)
(* consolidateIfOver, which prune calls first, runs here with the groups   *)
(* it merges (Canonical).  Whether it gets that far is left open: the      *)
(* throttle, the threshold and the answer of the LLM are Consolidation's.  *)
(***************************************************************************)
EXTENDS Canonical, Sequences

CONSTANTS
    SameClaim,       \* pairs of facts within STRICT_DEDUP_DISTANCE
    Related,         \* pairs of facts the loose query matches
    PermanentFacts,  \* facts extracted with importance permanent
    Batches,         \* the sequences of facts one job may yield
    Cap,             \* MAX_KNOWLEDGE_ENTRIES
    Edits,           \* kinds of edit by users and admins a run allows
    MaxRuns,         \* bound: calls of writeFacts
    MaxFaults        \* bound: statements that fail

EditKinds == {"forget", "acl", "importance", "category", "share", "hard", "purge"}

Nobody == "nobody"

ASSUME WriterConstants ==
    /\ Nobody \notin Owners
    /\ SameClaim \subseteq Facts \X Facts
    /\ Related \subseteq Facts \X Facts
    /\ PermanentFacts \subseteq Facts
    /\ Batches \subseteq Seq(Facts)
    /\ Cap \in Nat
    /\ Edits \subseteq EditKinds
    /\ MaxRuns \in Nat
    /\ MaxFaults \in Nat

VARIABLES
    share,      \* users.share_to_team
    seenBefore, \* pairs of ids: last_seen_at of the first is before the second's
    pc,         \* where each slot is inside writeFacts
    user,       \* the job's user_id
    todo,       \* facts of the job not prepared yet
    items,      \* facts prepared and not applied yet
    retiring,   \* the contradicted row and the one just inserted for it
    overflow,   \* rows over the cap when prune counted
    runs, faults

mergeVars == <<candidates, merge>>
slotVars == <<pc, user, todo, items, retiring, mergeVars, overflow>>
vars == <<table, lastId, share, seenBefore, slotVars, runs, faults>>

Item == [fact : Facts, acl : Acls, embedded : BOOLEAN,
         tight : Ids \cup {Null}, loose : SUBSET Ids]
NoPair == [old |-> Null, new |-> Null]
Steps == {"idle", "prepare", "apply", "retire", "merge", "canon", "replace", "prune"}

WriterInit ==
    /\ TableInit
    /\ share = [o \in Owners |-> TRUE]
    /\ seenBefore = {}
    /\ pc = [s \in Slots |-> "idle"]
    /\ user = [s \in Slots |-> Nobody]
    /\ todo = [s \in Slots |-> <<>>]
    /\ items = [s \in Slots |-> <<>>]
    /\ retiring = [s \in Slots |-> NoPair]
    /\ candidates = [s \in Slots |-> {}]
    /\ merge = [s \in Slots |-> NoMerge]
    /\ overflow = [s \in Slots |-> 0]
    /\ runs = 0
    /\ faults = 0

Goto(s, step) == pc' = [pc EXCEPT ![s] = step]

Return(s) == Goto(s, "idle") /\ user' = [user EXCEPT ![s] = Nobody]

\* last_seen_at = now()
Touch(i) ==
    seenBefore' = {p \in seenBefore : i \notin {p[1], p[2]}} \cup ((DOMAIN table \ {i}) \X {i})

-----------------------------------------------------------------------------
(* A job was extracted: writeFacts is called with its facts. *)

Start(s, o, facts) ==
    /\ pc[s] = "idle"
    /\ runs < MaxRuns
    /\ runs' = runs + 1
    /\ user' = [user EXCEPT ![s] = o]
    /\ todo' = [todo EXCEPT ![s] = facts]
    /\ Goto(s, "prepare")
    /\ UNCHANGED <<table, lastId, share, seenBefore, items, retiring, mergeVars, overflow, faults>>

DefaultAcl(f) == IF f \in PrivateFacts THEN "private" ELSE "team"

ResolveAcl(o, f) == IF share[o] THEN DefaultAcl(f) ELSE "private"

Searchable(o) == {i \in ActiveOf(o) : table[i].embedded}

\* Mutants: rows inserted this week are not searched; replaced rows are.
TightMatchesOld(o, f) ==
    {i \in Searchable(o) : table[i].old /\ <<f, table[i].fact>> \in SameClaim}
TightMatchesReplaced(o, f) ==
    {i \in RowsOf(o) : table[i].embedded /\ <<f, table[i].fact>> \in SameClaim}

TightMatches(o, f) == {i \in Searchable(o) : <<f, table[i].fact>> \in SameClaim}

\* Mutant: young rows are candidates as well.
LooseMatchesAnyAge(o, f) == {i \in Searchable(o) : <<f, table[i].fact>> \in Related}

LooseMatches(o, f) == {i \in Searchable(o) : table[i].old /\ <<f, table[i].fact>> \in Related}

\* Phase 1 for one fact.  Its reads are one step: each looks at rows no other
\* read of the same fact depends on.  Without an embedding nothing is searched.
Prepare(s, embedded) ==
    LET o == user[s]
        f == Head(todo[s])
        tights == IF embedded THEN TightMatches(o, f) ELSE {}
    IN
    /\ pc[s] = "prepare"
    /\ todo[s] # <<>>
    /\ ~embedded => EmbedFails
    /\ \E t \in IF tights = {} THEN {Null} ELSE tights :
          items' = [items EXCEPT ![s] = Append(@,
              [fact |-> f, acl |-> ResolveAcl(o, f), embedded |-> embedded, tight |-> t,
               loose |-> IF embedded /\ tights = {} THEN LooseMatches(o, f) ELSE {}])]
    /\ todo' = [todo EXCEPT ![s] = Tail(@)]
    /\ UNCHANGED <<table, lastId, share, seenBefore, pc, user, retiring, mergeVars, overflow, runs, faults>>

\* Phase 2: the LLM call, during which the other slots and the users go on.
\* What it answers is chosen where it is used, in ApplyLoose.
Classify(s) ==
    /\ pc[s] = "prepare"
    /\ todo[s] = <<>>
    /\ Goto(s, "apply")
    /\ UNCHANGED <<table, lastId, share, seenBefore, user, todo, items, retiring, mergeVars, overflow, runs, faults>>

-----------------------------------------------------------------------------
(* Phase 3: the facts are applied in order. *)

NextItem(s) == items' = [items EXCEPT ![s] = Tail(@)]

\* The row is reinforced if it is still active; if not, the fact is dropped.
ReinforceOrDrop(s, i) ==
    /\ NextItem(s)
    /\ \/ Reinforce(i, user[s]) /\ Touch(i)
       \/ ~Active(i) /\ UNCHANGED <<table, lastId, seenBefore>>
    /\ UNCHANGED <<share, pc, user, todo, retiring, mergeVars, overflow, runs, faults>>

\* The item becomes a row; old is the row it contradicts, or Null.
InsertItem(s, it, old) ==
    /\ InsertRow(user[s], it.fact, it.acl, it.fact \in PermanentFacts, 1, old, it.embedded)
    /\ Touch(lastId + 1)
    /\ NextItem(s)
    /\ IF old = Null
       THEN UNCHANGED <<pc, retiring>>
       ELSE /\ retiring' = [retiring EXCEPT ![s] = [old |-> old, new |-> lastId + 1]]
            /\ Goto(s, "retire")
    /\ UNCHANGED <<share, user, todo, mergeVars, overflow, runs, faults>>

Verdicts == {"paraphrase", "contradiction", "unrelated"}
Judged(said, v) == {i \in DOMAIN said : said[i] = v}

ApplyTight(s) ==
    /\ pc[s] = "apply"
    /\ items[s] # <<>>
    /\ Head(items[s]).tight # Null
    /\ ReinforceOrDrop(s, Head(items[s]).tight)

\* A paraphrase wins over a contradiction; with neither the fact is new.
ApplyLoose(s) ==
    /\ pc[s] = "apply"
    /\ items[s] # <<>>
    /\ LET it == Head(items[s]) IN
       /\ it.tight = Null
       /\ \E said \in [it.loose -> Verdicts] :
             IF Judged(said, "paraphrase") # {}
             THEN \E i \in Judged(said, "paraphrase") : ReinforceOrDrop(s, i)
             ELSE \E old \in IF Judged(said, "contradiction") = {}
                             THEN {Null} ELSE Judged(said, "contradiction") :
                     InsertItem(s, it, old)

\* Mutants: the two ids of the UPDATE are swapped; the step is skipped.
RetireSwapped(s) ==
    LET pair == retiring[s] IN
    /\ pc[s] = "retire"
    /\ Replace({pair.new}, user[s], pair.old, TRUE)
    /\ retiring' = [retiring EXCEPT ![s] = NoPair]
    /\ Goto(s, "apply")
    /\ UNCHANGED <<share, seenBefore, user, todo, items, mergeVars, overflow, runs, faults>>

RetireSkipped(s) ==
    /\ pc[s] = "retire"
    /\ retiring' = [retiring EXCEPT ![s] = NoPair]
    /\ Goto(s, "apply")
    /\ UNCHANGED <<table, lastId, share, seenBefore, user, todo, items, mergeVars, overflow, runs, faults>>

\* The contradicted row gives way to the one inserted for it, unless somebody
\* has deleted it meanwhile: then the UPDATE matches nothing.
Retire(s) ==
    LET pair == retiring[s] IN
    /\ pc[s] = "retire"
    /\ Replace({pair.old}, user[s], pair.new, TRUE)
    /\ retiring' = [retiring EXCEPT ![s] = NoPair]
    /\ Goto(s, "apply")
    /\ UNCHANGED <<share, seenBefore, user, todo, items, mergeVars, overflow, runs, faults>>

-----------------------------------------------------------------------------
(* prune, first part: the owner's rows are consolidated, or they are not.    *)

\* The first n of the rows S by last_seen_at, or all if there are fewer; of rows
\* seen at one time any may be the first.
LeastSeen(S, n) ==
    {C \in SUBSET S :
        /\ Cardinality(C) = n \/ (Cardinality(C) < n /\ C = S)
        /\ \A i \in C, j \in S \ C : <<j, i>> \notin seenBefore}

\* The throttle was open and the owner had enough active rows when they were
\* counted.  Others may have deleted some since, so neither is asked again.
Consolidate(s) ==
    /\ pc[s] = "apply"
    /\ items[s] = <<>>
    /\ \E C \in LeastSeen(Mergeable(user[s]), MaxCandidates) :
          /\ Cardinality(C) >= MinCandidates
          /\ candidates' = [candidates EXCEPT ![s] = C]
    /\ Goto(s, "merge")
    /\ UNCHANGED <<table, lastId, share, seenBefore, user, todo, items, retiring, merge, overflow, runs, faults>>

ReadGroup(s, S, f) ==
    /\ pc[s] = "merge"
    /\ TakeGroup(s, user[s], S, f)
    /\ Goto(s, "canon")
    /\ UNCHANGED <<share, seenBefore, user, todo, items, retiring, candidates, overflow, runs, faults>>

InsertCanonical(s, embedded) ==
    /\ pc[s] = "canon"
    /\ PutCanonical(s, user[s], embedded)
    /\ Touch(lastId + 1)
    /\ Goto(s, "replace")
    /\ UNCHANGED <<share, user, todo, items, retiring, candidates, overflow, runs, faults>>

ReplaceGroup(s) ==
    /\ pc[s] = "replace"
    /\ GiveWay(s, user[s])
    /\ Goto(s, "merge")
    /\ UNCHANGED <<share, seenBefore, user, todo, items, retiring, candidates, overflow, runs, faults>>

\* prune catches what consolidateIfOver throws and goes on to its count.
MergingFails(s) ==
    /\ Goto(s, "merge")
    /\ candidates' = [candidates EXCEPT ![s] = {}]
    /\ merge' = [merge EXCEPT ![s] = NoMerge]
    /\ UNCHANGED <<table, lastId, share, seenBefore, user, todo, items, retiring, overflow, runs>>

MergeRefused(s) ==
    /\ pc[s] \in {"merge", "canon", "replace"}
    /\ candidates[s] # {}
    /\ faults < MaxFaults
    /\ faults' = faults + 1
    /\ MergingFails(s)

ReplaceViolatesKey(s) ==
    /\ pc[s] = "replace"
    /\ CanonicalGone(s, user[s])
    /\ MergingFails(s)
    /\ UNCHANGED faults

-----------------------------------------------------------------------------
(* prune, second part: the count, and the delete of what it found too many. *)

Kept(o) == {i \in RowsOf(o) : ~table[i].deleted}

\* Mutant: pruning starts one row early.
OverEarly(o) == IF Cardinality(Kept(o)) >= Cap THEN Cardinality(Kept(o)) - Cap + 1 ELSE 0

Over(o) == IF Cardinality(Kept(o)) > Cap THEN Cardinality(Kept(o)) - Cap ELSE 0

Normal(o) == {i \in Kept(o) : ~table[i].permanent}

CountRows(s) ==
    /\ pc[s] \in {"apply", "merge"}
    /\ items[s] = <<>>
    /\ candidates' = [candidates EXCEPT ![s] = {}]
    /\ overflow' = [overflow EXCEPT ![s] = Over(user[s])]
    /\ IF Over(user[s]) > 0
       THEN Goto(s, "prune") /\ UNCHANGED user
       ELSE Return(s)
    /\ UNCHANGED <<table, lastId, share, seenBefore, todo, items, retiring, merge, runs, faults>>

Prune(s) ==
    /\ pc[s] = "prune"
    /\ \E S \in LeastSeen(Normal(user[s]), overflow[s]) : SoftDelete(S)
    /\ overflow' = [overflow EXCEPT ![s] = 0]
    /\ Return(s)
    /\ UNCHANGED <<share, seenBefore, todo, items, retiring, mergeVars, runs, faults>>

-----------------------------------------------------------------------------
(* A statement fails and the call ends where it is: a fault of the database, *)
(* or a foreign key, when the row an insert or a retirement refers to has    *)
(* been deleted for good.                                                    *)

Abandon(s) ==
    /\ Return(s)
    /\ todo' = [todo EXCEPT ![s] = <<>>]
    /\ items' = [items EXCEPT ![s] = <<>>]
    /\ retiring' = [retiring EXCEPT ![s] = NoPair]
    /\ candidates' = [candidates EXCEPT ![s] = {}]
    /\ overflow' = [overflow EXCEPT ![s] = 0]
    /\ UNCHANGED <<merge, table, lastId, share, seenBefore, runs>>

Refused(s) ==
    /\ pc[s] \notin {"idle", "canon", "replace"}
    /\ faults < MaxFaults
    /\ faults' = faults + 1
    /\ Abandon(s)

InsertViolatesKey(s) ==
    /\ pc[s] = "apply"
    /\ items[s] # <<>>
    /\ Head(items[s]).tight = Null
    /\ Head(items[s]).loose \ DOMAIN table # {}
    /\ Abandon(s)
    /\ UNCHANGED faults

RetireViolatesKey(s) ==
    /\ pc[s] = "retire"
    /\ Matched({retiring[s].old}, user[s]) # {}
    /\ retiring[s].new \notin DOMAIN table
    /\ Abandon(s)
    /\ UNCHANGED faults

-----------------------------------------------------------------------------
(* What users and admins do to the rows, from the bot and the dashboards. *)

\* /forget takes up to three rows; a dashboard's delete takes one.  Their SELECT
\* and UPDATE are one step: deleting a row somebody else has just deleted leaves
\* it as it is.
Forget(o, S) ==
    /\ "forget" \in Edits
    /\ S # {} /\ Cardinality(S) <= 3
    /\ S \subseteq Kept(o)
    /\ SoftDelete(S)
    /\ UNCHANGED share

\* The pages list no deleted rows; nobody reads these columns of one.
ChangeAcl(i, a) ==
    /\ "acl" \in Edits
    /\ ~table[i].deleted
    /\ SetAcl(i, a)
    /\ UNCHANGED share

ChangeImportance(i, p) ==
    /\ "importance" \in Edits
    /\ ~table[i].deleted
    /\ SetPermanent(i, p)
    /\ UNCHANGED share

ChangeCategory(i, c) ==
    /\ "category" \in Edits
    /\ ~table[i].deleted
    /\ SetCategory(i, c)
    /\ UNCHANGED share

ToggleShare(o) ==
    /\ "share" \in Edits
    /\ share' = [share EXCEPT ![o] = ~@]
    /\ UNCHANGED <<table, lastId>>

EraseRow(i) ==
    /\ "hard" \in Edits
    /\ HardDelete(i)
    /\ UNCHANGED share

PurgeUser(o) ==
    /\ "purge" \in Edits
    /\ PurgeRows(o)
    /\ UNCHANGED share

Edit ==
    /\ \/ \E o \in Owners, S \in SUBSET DOMAIN table : Forget(o, S)
       \/ \E i \in DOMAIN table, a \in Acls : ChangeAcl(i, a)
       \/ \E i \in DOMAIN table, p \in BOOLEAN : ChangeImportance(i, p)
       \/ \E i \in DOMAIN table, c \in Categories : ChangeCategory(i, c)
       \/ \E o \in Owners : ToggleShare(o)
       \/ \E i \in DOMAIN table : EraseRow(i)
       \/ \E o \in Owners : PurgeUser(o)
    /\ UNCHANGED <<seenBefore, slotVars, runs, faults>>

TimePasses == WeekPasses /\ UNCHANGED <<share, seenBefore, slotVars, runs, faults>>

-----------------------------------------------------------------------------
SlotStep(s) ==
    \/ \E o \in Owners, facts \in Batches : Start(s, o, facts)
    \/ \E embedded \in BOOLEAN : Prepare(s, embedded)
    \/ Classify(s)
    \/ ApplyTight(s) \/ ApplyLoose(s) \/ Retire(s)
    \/ Consolidate(s)
    \/ \E S \in Groups(s), f \in Facts : ReadGroup(s, S, f)
    \/ \E embedded \in BOOLEAN : InsertCanonical(s, embedded)
    \/ ReplaceGroup(s) \/ MergeRefused(s) \/ ReplaceViolatesKey(s)
    \/ CountRows(s) \/ Prune(s)
    \/ Refused(s) \/ InsertViolatesKey(s) \/ RetireViolatesKey(s)

\* Every call has been made and none is running.
Quiet == runs = MaxRuns /\ (\A s \in Slots : pc[s] = "idle") /\ UNCHANGED vars

\* The bound on rows is reached: calls that would insert wait.
OutOfRows == lastId = MaxRows /\ UNCHANGED vars

WriterNext == (\E s \in Slots : SlotStep(s)) \/ Edit \/ TimePasses \/ Quiet \/ OutOfRows

WriterSpec == WriterInit /\ [][WriterNext]_vars

-----------------------------------------------------------------------------
(* What the writer promises. *)

SlotTypes ==
    /\ pc \in [Slots -> Steps]
    /\ user \in [Slots -> Owners \cup {Nobody}]
    /\ todo \in [Slots -> Seq(Facts)]
    /\ items \in [Slots -> Seq(Item)]
    /\ retiring \in [Slots -> [old : Ids \cup {Null}, new : Ids \cup {Null}]]
    /\ candidates \in [Slots -> SUBSET Ids]
    /\ merge \in [Slots -> Merge]

\* What a call holds, and when; it holds nothing once it is over.
HoldsWhatItNeeds ==
    \A s \in Slots :
        /\ pc[s] = "idle" <=> user[s] = Nobody
        /\ pc[s] = "retire" <=> retiring[s] # NoPair
        /\ pc[s] = "prune" <=> overflow[s] > 0
        /\ pc[s] \notin {"prepare", "apply", "retire"} => items[s] = <<>>
        /\ pc[s] \notin {"merge", "canon", "replace"} => candidates[s] = {}
        /\ pc[s] \in {"canon", "replace"} <=> merge[s].ids # {}
        /\ pc[s] = "replace" <=> merge[s].new # Null

\* Shape of the state.
WriterTypeOK ==
    /\ TableTypeOK
    /\ SlotTypes
    /\ overflow \in [Slots -> Nat]
    /\ HoldsWhatItNeeds
    /\ share \in [Owners -> BOOLEAN]
    /\ seenBefore \subseteq Ids \X Ids
    /\ runs \in 0..MaxRuns
    /\ faults \in 0..MaxFaults

\* Whatever writeFacts and consolidateIfOver have read before, every step they take
\* on the table is one of the statements KnowledgeTable lists, with the promises it
\* makes for them: links stay with one owner and point to rows written in the right
\* order.
RunsTableStatements == TableSpec

\* A row is auto-resolved as contradicted only once it has settled for 7 days
\* (write.js:16-17 and 46-50), also when the row was read long before.
ContradictedHadSettled ==
    \A i \in DOMAIN table : table[i].contradicted => table[i].old

\* The newer assertion wins (write.js:13-15): a row that was inserted because it
\* contradicts another one leaves that one live at most until its own call has
\* retired it, however other slots and users interleave.  A statement that is
\* refused between the two leaves both live: nothing is rolled back.
NewerAssertionWins ==
    faults = 0 =>
        \A n \in DOMAIN table :
            LET k == table[n].supersedes IN
            k # Null /\ k \in DOMAIN table /\ ~table[k].deleted =>
                \E s \in Slots : retiring[s] = [old |-> k, new |-> n]
=============================================================================

---------------------------- MODULE Consolidation ----------------------------
(***************************************************************************)
(* consolidateIfOver (apps/extractor-worker/src/consolidate.js): when an   *)
(* owner has many facts, an LLM groups the ones that say the same, and     *)
(* each group is merged into one canonical row.                            *)
(*                                                                         *)
(* Every slot of the worker calls it at the end of writeFacts.  A call is  *)
(* a chain of single statements around an LLM call that takes minutes:     *)
(* the throttle, the count, the candidates and the merged rows' columns    *)
(* are all read before the statement that uses them.  The writers, the     *)
(* owner and the admin change the rows meanwhile; Changes names what they  *)
(* may do in a run.                                                        *)
(***************************************************************************)
EXTENDS Canonical

CONSTANTS
    PermanentFacts, \* facts extracted with importance permanent
    Trigger,        \* TRIGGER_THRESHOLD, 80 % of MAX_KNOWLEDGE_ENTRIES
    Changes,        \* kinds of change by writers, owners and admins in a run
    MaxEdits,       \* bound: edits and deletions by others
    MaxFaults       \* bound: statements that fail

ChangeKinds == {"write", "reinforce", "forget", "acl", "importance", "category", "hard", "purge"}

Nobody == "nobody"

ASSUME ConsolidationConstants ==
    /\ Nobody \notin Owners
    /\ PermanentFacts \subseteq Facts
    /\ Trigger \in Nat
    /\ Changes \subseteq ChangeKinds
    /\ MaxEdits \in Nat
    /\ MaxFaults \in Nat

VARIABLES
    throttled,   \* owners whose last_consolidated_at is less than 6 h old
    pc,          \* where each slot is inside consolidateIfOver
    user,        \* the owner each slot works for
    edited,      \* history: rows whose columns changed since a slot read its group
    edits, faults

callVars == <<pc, user, candidates, merge>>
vars == <<table, lastId, throttled, callVars, edited, edits, faults>>

Steps == {"idle", "count", "select", "mark", "ask", "group", "insert", "replace"}

ConsolidationInit ==
    /\ TableInit
    /\ throttled = {}
    /\ pc = [s \in Slots |-> "idle"]
    /\ user = [s \in Slots |-> Nobody]
    /\ candidates = [s \in Slots |-> {}]
    /\ merge = [s \in Slots |-> NoMerge]
    /\ edited = [s \in Slots |-> {}]
    /\ edits = 0
    /\ faults = 0

Goto(s, step) == pc' = [pc EXCEPT ![s] = step]

Return(s) ==
    /\ Goto(s, "idle")
    /\ user' = [user EXCEPT ![s] = Nobody]
    /\ candidates' = [candidates EXCEPT ![s] = {}]
    /\ merge' = [merge EXCEPT ![s] = NoMerge]
    /\ edited' = [edited EXCEPT ![s] = {}]

-----------------------------------------------------------------------------
(* Before the LLM call: throttle, threshold, candidates, timestamp.          *)

MayRun(o) == o \notin throttled

\* A throttled call returns at once: no step.
Begin(s, o) ==
    /\ pc[s] = "idle"
    /\ MayRun(o)
    /\ user' = [user EXCEPT ![s] = o]
    /\ Goto(s, "count")
    /\ UNCHANGED <<table, lastId, throttled, candidates, merge, edited, edits, faults>>

Count(s) ==
    /\ pc[s] = "count"
    /\ IF Cardinality(ActiveOf(user[s])) < Trigger
       THEN Return(s)
       ELSE Goto(s, "select") /\ UNCHANGED <<user, candidates, merge, edited>>
    /\ UNCHANGED <<table, lastId, throttled, edits, faults>>

\* ORDER BY last_seen_at LIMIT MaxCandidates: any of the rows may be the ones
\* least recently seen.
Chosen(C, S) ==
    /\ C \subseteq S
    /\ Cardinality(C) = IF Cardinality(S) < MaxCandidates THEN Cardinality(S) ELSE MaxCandidates

Select(s) ==
    /\ pc[s] = "select"
    /\ \E C \in SUBSET Mergeable(user[s]) :
          /\ Chosen(C, Mergeable(user[s]))
          /\ IF Cardinality(C) < MinCandidates
             THEN Return(s)
             ELSE /\ candidates' = [candidates EXCEPT ![s] = C]
                  /\ Goto(s, "mark")
                  /\ UNCHANGED <<user, merge, edited>>
    /\ UNCHANGED <<table, lastId, throttled, edits, faults>>

\* last_consolidated_at is set before the LLM call.
Mark(s) ==
    /\ pc[s] = "mark"
    /\ throttled' = throttled \cup {user[s]}
    /\ Goto(s, "ask")
    /\ UNCHANGED <<table, lastId, user, candidates, merge, edited, edits, faults>>

\* The LLM answers with groups, or with nothing usable.
Ask(s) ==
    /\ pc[s] = "ask"
    /\ Goto(s, "group")
    /\ UNCHANGED <<table, lastId, throttled, user, candidates, merge, edited, edits, faults>>

-----------------------------------------------------------------------------
(* For each group of the answer: read its rows, insert the canonical row,   *)
(* replace the group by it.                                                 *)

ReadGroup(s, S, f) ==
    /\ pc[s] = "group"
    /\ TakeGroup(s, user[s], S, f)
    /\ Goto(s, "insert")
    /\ UNCHANGED <<throttled, user, candidates, edited, edits, faults>>

InsertCanonical(s, embedded) ==
    /\ pc[s] = "insert"
    /\ PutCanonical(s, user[s], embedded)
    /\ Goto(s, "replace")
    /\ UNCHANGED <<throttled, user, candidates, edited, edits, faults>>

\* Mutant: the canonical row and a row of its group are mixed up.
ReplaceGroupSwapped(s) ==
    LET m == merge[s] IN
    /\ pc[s] = "replace"
    /\ \E i \in m.ids : Replace({m.new}, user[s], i, FALSE)
    /\ merge' = [merge EXCEPT ![s] = NoMerge]
    /\ edited' = [edited EXCEPT ![s] = {}]
    /\ Goto(s, "group")
    /\ UNCHANGED <<throttled, user, candidates, edits, faults>>

ReplaceGroup(s) ==
    /\ pc[s] = "replace"
    /\ GiveWay(s, user[s])
    /\ edited' = [edited EXCEPT ![s] = {}]
    /\ Goto(s, "group")
    /\ UNCHANGED <<throttled, user, candidates, edits, faults>>

\* No group left.
Finish(s) ==
    /\ pc[s] = "group"
    /\ Return(s)
    /\ UNCHANGED <<table, lastId, throttled, edits, faults>>

\* A statement fails, or the canonical row it refers to was deleted for good:
\* prune catches the error.
Refused(s) ==
    /\ pc[s] # "idle"
    /\ faults < MaxFaults
    /\ faults' = faults + 1
    /\ Return(s)
    /\ UNCHANGED <<table, lastId, throttled, edits>>

ReplaceViolatesKey(s) ==
    /\ pc[s] = "replace"
    /\ CanonicalGone(s, user[s])
    /\ Return(s)
    /\ UNCHANGED <<table, lastId, throttled, edits, faults>>

-----------------------------------------------------------------------------
(* What the others do to the rows: write.js, commands.js, the control plane. *)

Write ==
    /\ "write" \in Changes
    /\ \E o \in Owners, f \in Facts, a \in Acls :
          /\ f \in PrivateFacts => a = "private"
          /\ InsertRow(o, f, a, f \in PermanentFacts, 1, Null, TRUE)
    /\ UNCHANGED <<throttled, callVars, edited, edits, faults>>

\* A column of a row that stays in the table changes.
EditRow(i) ==
    /\ edits < MaxEdits
    /\ \/ "reinforce" \in Changes /\ \E o \in Owners : Reinforce(i, o)
       \/ "acl" \in Changes /\ \E a \in Acls : SetAcl(i, a)
       \/ "importance" \in Changes /\ \E p \in BOOLEAN : SetPermanent(i, p)
       \/ "category" \in Changes /\ \E c \in Categories : SetCategory(i, c)
    /\ edited' = [s \in Slots |->
                     edited[s] \cup (IF i \in merge[s].ids \cup {merge[s].new} THEN {i} ELSE {})]
    /\ edits' = edits + 1
    /\ UNCHANGED <<throttled, callVars, faults>>

DropRow ==
    /\ edits < MaxEdits
    /\ \/ "forget" \in Changes /\ \E i \in DOMAIN table : SoftDelete({i})
       \/ "hard" \in Changes /\ \E i \in DOMAIN table : HardDelete(i)
       \/ "purge" \in Changes /\ \E o \in Owners : PurgeRows(o)
    /\ edits' = edits + 1
    /\ UNCHANGED <<throttled, callVars, edited, faults>>

\* Six hours have passed since the owner's last run.
ThrottleEnds ==
    /\ \E o \in throttled : throttled' = throttled \ {o}
    /\ UNCHANGED <<table, lastId, callVars, edited, edits, faults>>

SlotStep(s) ==
    \/ \E o \in Owners : Begin(s, o)
    \/ Count(s) \/ Select(s) \/ Mark(s) \/ Ask(s)
    \/ \E S \in Groups(s), f \in Facts : ReadGroup(s, S, f)
    \/ \E embedded \in BOOLEAN : InsertCanonical(s, embedded)
    \/ ReplaceGroup(s) \/ Finish(s)
    \/ Refused(s) \/ ReplaceViolatesKey(s)

\* The bound on rows is reached: calls that would insert wait.
OutOfRows == lastId = MaxRows /\ UNCHANGED vars

ConsolidationNext ==
    \/ \E s \in Slots : SlotStep(s)
    \/ \E i \in DOMAIN table : EditRow(i)
    \/ Write \/ DropRow \/ ThrottleEnds \/ OutOfRows

ConsolidationSpec == ConsolidationInit /\ [][ConsolidationNext]_vars

-----------------------------------------------------------------------------
(* What consolidation promises. *)

\* Shape of the state; a call holds nothing once it is over.
ConsolidationTypeOK ==
    /\ TableTypeOK
    /\ throttled \subseteq Owners
    /\ pc \in [Slots -> Steps]
    /\ user \in [Slots -> Owners \cup {Nobody}]
    /\ candidates \in [Slots -> SUBSET Ids]
    /\ merge \in [Slots -> Merge]
    /\ edited \in [Slots -> SUBSET Ids]
    /\ \A s \in Slots :
          /\ pc[s] = "idle" <=> user[s] = Nobody
          /\ pc[s] \in {"insert", "replace"} <=> merge[s].ids # {}
          /\ pc[s] = "replace" <=> merge[s].new # Null
    /\ edits \in 0..MaxEdits
    /\ faults \in 0..MaxFaults

\* However overlapping runs, writers and deletes interleave, consolidation runs
\* only the statements of KnowledgeTable, with its promises: a canonical row is
\* later than the rows it replaces and belongs to the same owner.
MergesAreTableStatements == TableSpec

\* "If any was private, the merged result stays private" (consolidate.js:130-131):
\* no row that is private gives way to one the team reads, unless somebody edited
\* one of the two after the group was read.
MergeKeepsPrivate ==
    [][\A s \in Slots : pc[s] = "replace" /\ pc'[s] = "group" =>
          \A i \in DOMAIN table' \ edited[s] :
              /\ table'[i].supersededBy = merge[s].new
              /\ table[i].acl = "private"
              /\ merge[s].new \notin edited[s]
              => table[merge[s].new].acl = "private"]_vars

\* "the reinforcement signal accumulates across consolidation"
\* (consolidate.js:133-134): a canonical row starts with at least the evidence of
\* the rows it takes the place of.  What a writer adds to one of them after the
\* group was read is lost.
EvidenceAccumulates ==
    [][\A s \in Slots : pc[s] = "replace" /\ pc'[s] = "group" =>
          EvidenceOf({i \in DOMAIN table' \ edited[s] : table'[i].supersededBy = merge[s].new})
             <= merge[s].evidence]_vars
=============================================================================

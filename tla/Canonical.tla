------------------------------ MODULE Canonical ------------------------------
(***************************************************************************)
(* What consolidateIfOver (apps/extractor-worker/src/consolidate.js) does  *)
(* with one group of rows: read the columns of its rows, insert a          *)
(* canonical row for them, replace the group by that row.                  *)
(*                                                                         *)
(* Three statements, and nothing holds the rows in between.  Consolidation *)
(* runs them in the whole of consolidateIfOver, FactWriter at the end of   *)
(* writeFacts.                                                             *)
(***************************************************************************)
EXTENDS KnowledgeTable, FiniteSetsExt

CONSTANTS
    Slots,
    MaxCandidates,  \* 30 % of MAX_KNOWLEDGE_ENTRIES
    MinCandidates,  \* MIN_CANDIDATES_TO_RUN
    EmbedFails      \* whether the embedding service may fail

ASSUME CanonicalConstants ==
    /\ {"private", "team"} \subseteq Acls
    /\ MaxCandidates \in Nat
    /\ MinCandidates \in Nat
    /\ EmbedFails \in BOOLEAN

VARIABLES
    candidates,  \* ids shown to the LLM
    merge        \* the group being merged, with what was read of it

NoFact == "none"

NoMerge == [ids |-> {}, fact |-> NoFact, acl |-> "private", permanent |-> FALSE, evidence |-> 1,
            new |-> Null]
Merge == [ids : SUBSET Ids, fact : Facts \cup {NoFact}, acl : Acls, permanent : BOOLEAN,
          evidence : 1..MaxEvidence, new : Ids \cup {Null}]

Mergeable(o) == {i \in ActiveOf(o) : ~table[i].permanent}

\* Two ids or more, all of candidates; one of them may be named twice, and a
\* later group may name it again.
Groups(s) == (SUBSET candidates[s]) \ {{}}

\* The SELECT matches rows that were deleted meanwhile, but not those erased.
MergedRows(S, o) == S \cap RowsOf(o)

\* Mutants: the default acl of the category; the count of the group.
CanonicalAclDefault(S, o, f) == IF f \in PrivateFacts THEN "private" ELSE "team"

EvidenceCounted(S, o) == IF MergedRows(S, o) = {} THEN 1 ELSE Cardinality(MergedRows(S, o))

\* share_to_team is not asked, as it is when a fact is extracted.
CanonicalAcl(S, o, f) ==
    IF f \in PrivateFacts \/ \E i \in MergedRows(S, o) : table[i].acl = "private"
    THEN "private" ELSE "team"

EvidenceOf(S) == MapThenSumSet(LAMBDA i : table[i].evidence, S)

Evidence(S, o) == IF MergedRows(S, o) = {} THEN 1 ELSE EvidenceOf(MergedRows(S, o))

\* f is the LLM's wording, with the category it chose.
TakeGroup(s, o, S, f) ==
    /\ Evidence(S, o) \in 1..MaxEvidence
    /\ merge' = [merge EXCEPT ![s] =
          [ids |-> S, fact |-> f, acl |-> CanonicalAcl(S, o, f), evidence |-> Evidence(S, o), new |-> Null,
           permanent |-> \E i \in MergedRows(S, o) : table[i].permanent]]
    /\ UNCHANGED tableVars

\* Without an embedding the column stays NULL.
PutCanonical(s, o, embedded) ==
    LET m == merge[s] IN
    /\ ~embedded => EmbedFails
    /\ InsertRow(o, m.fact, m.acl, m.permanent, m.evidence, Null, embedded)
    /\ merge' = [merge EXCEPT ![s].new = lastId + 1]

\* Rows of the group that somebody has deleted meanwhile are left alone.
GiveWay(s, o) ==
    /\ Replace(merge[s].ids, o, merge[s].new, FALSE)
    /\ merge' = [merge EXCEPT ![s] = NoMerge]

\* The canonical row was erased before the group was replaced by it.
CanonicalGone(s, o) ==
    /\ Matched(merge[s].ids, o) # {}
    /\ merge[s].new \notin DOMAIN table
=============================================================================

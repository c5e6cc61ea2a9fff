--------------------------- MODULE KnowledgeTable ---------------------------
(***************************************************************************)
(* The table knowledge_entries and every statement the services run on it. *)
(*                                                                         *)
(* One action per SQL statement, with the WHERE clause as its guard; who   *)
(* runs a statement, and what that service read before, is the business of *)
(* the modules that use this one (FactWriter).  A statement is atomic, a   *)
(* sequence of them is not: no service opens a transaction around its      *)
(* writes to this table.                                                   *)
(*                                                                         *)
(* What a reader relies on is the supersede chain: a row that was replaced *)
(* points to its replacement, and nothing points to a row that is gone.    *)
(***************************************************************************)
EXTENDS Naturals

CONSTANTS
    Owners,        \* users
    Facts,         \* fact texts, each with its embedding and extracted category
    PrivateFacts,  \* facts extracted with a category that is private by default
    Acls,          \* the values of acl a run tells apart: "private", "team"
    MaxRows,       \* bound: rows ever inserted
    MaxEvidence    \* bound: evidence_count of a row

ASSUME TableConstants ==
    /\ PrivateFacts \subseteq Facts
    /\ Acls \subseteq {"private", "team"}
    /\ MaxRows \in Nat
    /\ MaxEvidence \in Nat \ {0}

VARIABLES
    table,       \* the rows, by id
    lastId       \* rows inserted so far: ids are handed out in insertion order

tableVars == <<table, lastId>>

Null == 0
Ids == 1..MaxRows

\* preference, rule and personal are kept out of the prompts and of the team; the
\* other categories are not told apart.
Categories == {"personal", "general"}

\* Columns the code branches on.  old: created_at is more than 7 days ago.
Row == [owner : Owners, fact : Facts, category : Categories, acl : Acls, permanent : BOOLEAN,
        evidence : Nat, deleted : BOOLEAN, contradicted : BOOLEAN,
        supersededBy : Ids \cup {Null}, supersedes : Ids \cup {Null},
        embedded : BOOLEAN, old : BOOLEAN]

TableInit ==
    /\ table = [i \in {} |-> Null]
    /\ lastId = 0

\* deleted_at IS NULL AND superseded_by IS NULL
Active(i) == i \in DOMAIN table /\ ~table[i].deleted /\ table[i].supersededBy = Null

ActiveOf(o) == {i \in DOMAIN table : Active(i) /\ table[i].owner = o}

-----------------------------------------------------------------------------
(* The statements of the extractor worker. *)

CategoryOf(f) == IF f \in PrivateFacts THEN "personal" ELSE "general"

NewRow(o, f, a, p, e, s, m) ==
    [owner |-> o, fact |-> f, category |-> CategoryOf(f), acl |-> a, permanent |-> p, evidence |-> e,
     deleted |-> FALSE, contradicted |-> FALSE, supersededBy |-> Null,
     supersedes |-> s, embedded |-> m, old |-> FALSE]

\* supersedes_id references knowledge_entries(id): without that row the
\* statement fails.
InsertRow(o, f, a, p, e, s, m) ==
    /\ lastId < MaxRows
    /\ s # Null => s \in DOMAIN table
    /\ lastId' = lastId + 1
    /\ table' = [i \in DOMAIN table \cup {lastId + 1} |->
                    IF i = lastId + 1 THEN NewRow(o, f, a, p, e, s, m) ELSE table[i]]

\* reinforce(): the row is matched only while it is active.
Reinforce(i, o) ==
    /\ i \in ActiveOf(o)
    /\ table[i].evidence < MaxEvidence
    /\ table' = [table EXCEPT ![i].evidence = @ + 1]
    /\ UNCHANGED lastId

Replaced(row, n, c) ==
    [row EXCEPT !.supersededBy = n, !.deleted = TRUE, !.contradicted = @ \/ c]

\* WHERE id = ANY(S) AND owner_user_id = o AND deleted_at IS NULL
Matched(S, o) == {i \in S \cap DOMAIN table : table[i].owner = o /\ ~table[i].deleted}

\* The newer row n replaces the rows S: a contradiction (write.js) or a merged
\* group (consolidate.js).  superseded_by references n: were n gone, the
\* statement would fail on the first row it matches.
Replace(S, o, n, contradiction) ==
    /\ Matched(S, o) # {} => n \in DOMAIN table
    /\ table' = [i \in DOMAIN table |->
                    IF i \in Matched(S, o) THEN Replaced(table[i], n, contradiction) ELSE table[i]]
    /\ UNCHANGED lastId

\* SET deleted_at = now(): the pruning of the worker, /forget of the bot, the
\* dashboard's and the admin's delete.  None of them touches superseded_by.
SoftDelete(S) ==
    /\ S \subseteq DOMAIN table
    /\ table' = [i \in DOMAIN table |->
                    IF i \in S THEN [table[i] EXCEPT !.deleted = TRUE] ELSE table[i]]
    /\ UNCHANGED lastId

-----------------------------------------------------------------------------
(* The statements of the bot and the control plane. *)

SetAcl(i, a) ==
    /\ i \in DOMAIN table
    /\ table' = [table EXCEPT ![i].acl = a]
    /\ UNCHANGED lastId

SetPermanent(i, p) ==
    /\ i \in DOMAIN table
    /\ table' = [table EXCEPT ![i].permanent = p]
    /\ UNCHANGED lastId

\* The acl stays what it is.
SetCategory(i, c) ==
    /\ i \in DOMAIN table
    /\ table' = [table EXCEPT ![i].category = c]
    /\ UNCHANGED lastId

\* Both self-references are checked when a row is deleted.
Referenced(S) ==
    \E i \in DOMAIN table \ S : table[i].supersededBy \in S \/ table[i].supersedes \in S

DropRows(S) ==
    /\ S \subseteq DOMAIN table
    /\ ~Referenced(S)
    /\ table' = [i \in DOMAIN table \ S |-> table[i]]
    /\ UNCHANGED lastId

\* DELETE /knowledge/:id?hard=true
HardDelete(i) == DropRows({i})

\* DELETE FROM knowledge_entries WHERE owner_user_id = o
RowsOf(o) == {i \in DOMAIN table : table[i].owner = o}
PurgeRows(o) == RowsOf(o) # {} /\ DropRows(RowsOf(o))

\* More than 7 days pass: the rows written so far count as settled.
WeekPasses ==
    /\ \E i \in DOMAIN table : ~table[i].old
    /\ table' = [i \in DOMAIN table |-> [table[i] EXCEPT !.old = TRUE]]
    /\ UNCHANGED lastId

-----------------------------------------------------------------------------
(* The database does not check whose row a link refers to, nor which of two  *)
(* rows is the later one: that is the callers' promise.                      *)

LinkPromise(o, s) == s # Null => s \in RowsOf(o)

ReplacePromise(S, o, n) == n \in RowsOf(o) /\ \A i \in S : i < n

TableNext ==
    \/ \E o \in Owners, f \in Facts, a \in Acls, p, m \in BOOLEAN,
          e \in 1..MaxEvidence, s \in DOMAIN table \cup {Null} :
          LinkPromise(o, s) /\ InsertRow(o, f, a, p, e, s, m)
    \/ \E o \in Owners, i \in DOMAIN table : Reinforce(i, o)
    \/ \E o \in Owners, n \in DOMAIN table, S \in SUBSET DOMAIN table, c \in BOOLEAN :
          ReplacePromise(S, o, n) /\ Replace(S, o, n, c)
    \/ \E S \in SUBSET DOMAIN table : SoftDelete(S)
    \/ \E i \in DOMAIN table, a \in Acls : SetAcl(i, a)
    \/ \E i \in DOMAIN table, p \in BOOLEAN : SetPermanent(i, p)
    \/ \E i \in DOMAIN table, c \in Categories : SetCategory(i, c)
    \/ \E i \in DOMAIN table : HardDelete(i)
    \/ \E o \in Owners : PurgeRows(o)
    \/ WeekPasses

TableSpec == TableInit /\ [][TableNext]_tableVars

-----------------------------------------------------------------------------
(* What every service may rely on, whatever the others run. *)

\* Shape of the table.
TableTypeOK ==
    /\ lastId \in 0..MaxRows
    /\ DOMAIN table \subseteq 1..lastId
    /\ table \in [DOMAIN table -> Row]

\* A replaced row points to a later row of the same owner that is still there:
\* following superseded_by from any row ends, and never in a hole or in another
\* user's knowledge, however deletes, purges and replacements interleave.
ChainsWellFormed ==
    \A i \in DOMAIN table :
        LET n == table[i].supersededBy IN
        n # Null => i < n /\ n \in DOMAIN table /\ table[n].owner = table[i].owner

\* A row that claims to replace another one was written later, for the same
\* owner, and the other one is still there to be audited.
ReplacesEarlierRow ==
    \A i \in DOMAIN table :
        LET k == table[i].supersedes IN
        k # Null => k < i /\ k \in DOMAIN table /\ table[k].owner = table[i].owner

\* Queries that ask only for deleted_at IS NULL (the count of prune, /recent,
\* the dashboards) see no replaced row: replaced implies deleted.
ReplacedIsHidden ==
    \A i \in DOMAIN table :
        table[i].supersededBy # Null \/ table[i].contradicted => table[i].deleted

\* A row is replaced once: no later statement repoints it, revives it, or
\* claims a row its owner has forgotten before.
ReplacedOnce ==
    [][\A i \in DOMAIN table \cap DOMAIN table' :
          /\ table[i].deleted => table'[i].deleted
          /\ table[i].deleted => table'[i].supersededBy = table[i].supersededBy]_tableVars

\* Purging a user never fails on a foreign key: no row of anybody else refers
\* to a row of that user (users.js:204 is one statement with no retry).
PurgeNeverBlocked ==
    \A o \in Owners : ~Referenced(RowsOf(o))
=============================================================================

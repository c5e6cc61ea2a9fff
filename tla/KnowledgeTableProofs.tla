------------------------ MODULE KnowledgeTableProofs ------------------------
(***************************************************************************)
(* The supersede chains of knowledge_entries are well formed in every      *)
(* state any interleaving of the services' statements reaches.             *)
(***************************************************************************)
EXTENDS KnowledgeTable, TLAPS

\* Chains, back links and hiding are inductive together: a link is made to a row
\* of the same owner, and no row that a link refers to can be dropped.
ChainInv ==
    /\ TableTypeOK
    /\ ChainsWellFormed
    /\ ReplacesEarlierRow
    /\ ReplacedIsHidden

\* A table without rows has nothing to link.
LEMMA InitChains == TableInit => ChainInv
BY TableConstants DEF TableInit, ChainInv, TableTypeOK, ChainsWellFormed, ReplacesEarlierRow,
   ReplacedIsHidden

\* Dropping rows that nothing refers to keeps the chains.
LEMMA DropKeepsChains ==
    ASSUME ChainInv, NEW S, DropRows(S) PROVE ChainInv'
BY DEF ChainInv, TableTypeOK, ChainsWellFormed, ReplacesEarlierRow, ReplacedIsHidden, DropRows,
   Referenced, Row, Null

\* What a statement leaves alone that keeps every row, its owner and its links,
\* and un-deletes none.
KeepsLinks ==
    /\ lastId' = lastId
    /\ DOMAIN table' = DOMAIN table
    /\ table' \in [DOMAIN table -> Row]
    /\ \A i \in DOMAIN table :
          /\ table'[i].owner = table[i].owner
          /\ table'[i].supersededBy = table[i].supersededBy
          /\ table'[i].supersedes = table[i].supersedes
          /\ table'[i].contradicted = table[i].contradicted
          /\ table[i].deleted => table'[i].deleted

\* A statement that keeps rows and links keeps the chains.
LEMMA KeepsLinksKeepsChains ==
    ASSUME ChainInv, KeepsLinks PROVE ChainInv'
BY DEF ChainInv, TableTypeOK, ChainsWellFormed, ReplacesEarlierRow, ReplacedIsHidden, KeepsLinks

\* One field of a row changed to a value of its type gives a row.
LEMMA RowUpdates ==
    ASSUME NEW r \in Row
    PROVE  /\ \A e \in Nat : [r EXCEPT !.evidence = e] \in Row
           /\ \A a \in Acls : [r EXCEPT !.acl = a] \in Row
           /\ \A p \in BOOLEAN : [r EXCEPT !.permanent = p] \in Row
           /\ \A c \in Categories : [r EXCEPT !.category = c] \in Row
           /\ [r EXCEPT !.deleted = TRUE] \in Row
           /\ [r EXCEPT !.old = TRUE] \in Row
           /\ \A n \in Ids, c \in BOOLEAN : Replaced(r, n, c) \in Row
BY DEF Row, Replaced

\* The statements that change neither rows nor links.
LEMMA StepKeepsLinks ==
    ASSUME ChainInv,
           \/ \E o \in Owners, i \in DOMAIN table : Reinforce(i, o)
           \/ \E S \in SUBSET DOMAIN table : SoftDelete(S)
           \/ \E i \in DOMAIN table, a \in Acls : SetAcl(i, a)
           \/ \E i \in DOMAIN table, p \in BOOLEAN : SetPermanent(i, p)
           \/ \E i \in DOMAIN table, c \in Categories : SetCategory(i, c)
           \/ WeekPasses
    PROVE  KeepsLinks
<1>0. \A i \in DOMAIN table : table[i] \in Row
  BY DEF ChainInv, TableTypeOK
<1>1. ASSUME NEW o \in Owners, NEW i \in DOMAIN table, Reinforce(i, o) PROVE KeepsLinks
  <2>1. table[i].evidence + 1 \in Nat
    BY <1>0 DEF Row
  <2>2. [table[i] EXCEPT !.evidence = @ + 1] \in Row
    BY <1>0, <2>1, RowUpdates
  <2>3. table' = [table EXCEPT ![i] = [table[i] EXCEPT !.evidence = @ + 1]] /\ lastId' = lastId
    BY <1>1 DEF Reinforce
  <2>4. table' \in [DOMAIN table -> Row] /\ DOMAIN table' = DOMAIN table
    BY <2>2, <2>3 DEF ChainInv, TableTypeOK
  <2> QED BY <1>0, <2>3, <2>4 DEF KeepsLinks, Row
<1>2. ASSUME NEW S \in SUBSET DOMAIN table, SoftDelete(S) PROVE KeepsLinks
  <2>1. \A i \in DOMAIN table : table'[i] = IF i \in S THEN [table[i] EXCEPT !.deleted = TRUE] ELSE table[i]
    BY <1>2 DEF SoftDelete
  <2>2. \A i \in DOMAIN table : table'[i] \in Row
    BY <1>0, <2>1, RowUpdates
  <2>3. table' \in [DOMAIN table -> Row] /\ DOMAIN table' = DOMAIN table
    BY <1>2, <2>2 DEF SoftDelete
  <2> QED BY <1>0, <1>2, <2>1, <2>3 DEF SoftDelete, KeepsLinks, Row
<1>3. ASSUME NEW i \in DOMAIN table, NEW a \in Acls, SetAcl(i, a) PROVE KeepsLinks
  BY <1>0, <1>3, RowUpdates DEF SetAcl, KeepsLinks, ChainInv, TableTypeOK, Row
<1>4. ASSUME NEW i \in DOMAIN table, NEW p \in BOOLEAN, SetPermanent(i, p) PROVE KeepsLinks
  BY <1>0, <1>4, RowUpdates DEF SetPermanent, KeepsLinks, ChainInv, TableTypeOK, Row
<1>5. CASE WeekPasses
  <2>1. \A i \in DOMAIN table : table'[i] = [table[i] EXCEPT !.old = TRUE]
    BY <1>5 DEF WeekPasses
  <2>2. \A i \in DOMAIN table : table'[i] \in Row
    BY <1>0, <2>1, RowUpdates
  <2>3. table' \in [DOMAIN table -> Row] /\ DOMAIN table' = DOMAIN table
    BY <1>5, <2>2 DEF WeekPasses
  <2> QED BY <1>0, <1>5, <2>1, <2>3 DEF WeekPasses, KeepsLinks, Row
<1>6. ASSUME NEW i \in DOMAIN table, NEW c \in Categories, SetCategory(i, c) PROVE KeepsLinks
  BY <1>0, <1>6, RowUpdates DEF SetCategory, KeepsLinks, ChainInv, TableTypeOK, Row
<1> QED BY <1>1, <1>2, <1>3, <1>4, <1>5, <1>6

\* A new row links, if at all, to an earlier row of its own owner.
LEMMA InsertKeepsChains ==
    ASSUME ChainInv, NEW o \in Owners, NEW f \in Facts, NEW a \in Acls, NEW p \in BOOLEAN,
           NEW m \in BOOLEAN, NEW e \in 1..MaxEvidence, NEW s \in DOMAIN table \cup {Null},
           LinkPromise(o, s), InsertRow(o, f, a, p, e, s, m)
    PROVE  ChainInv'
BY TableConstants
DEF ChainInv, TableTypeOK, ChainsWellFormed, ReplacesEarlierRow, ReplacedIsHidden, Row, Null, Ids,
    InsertRow, NewRow, CategoryOf, Categories, LinkPromise, RowsOf

\* Replaced rows point to a later row of their owner and are hidden.
LEMMA ReplaceKeepsChains ==
    ASSUME ChainInv, NEW o \in Owners, NEW n \in DOMAIN table, NEW S \in SUBSET DOMAIN table,
           NEW c \in BOOLEAN, ReplacePromise(S, o, n), Replace(S, o, n, c)
    PROVE  ChainInv'
<1>0. \A i \in DOMAIN table : table[i] \in Row
  BY DEF ChainInv, TableTypeOK
<1>1. n \in Ids
  BY TableConstants DEF ChainInv, TableTypeOK, Ids
<1>2. DOMAIN table' = DOMAIN table /\ lastId' = lastId
  BY DEF Replace
<1>3. \A i \in DOMAIN table :
         table'[i] = IF i \in Matched(S, o) THEN Replaced(table[i], n, c) ELSE table[i]
  BY DEF Replace
<1>4. \A i \in DOMAIN table : table'[i] \in Row
  BY <1>0, <1>1, <1>3, RowUpdates
<1>5. table' \in [DOMAIN table -> Row]
  BY <1>4 DEF Replace
<1>6. \A i \in DOMAIN table :
         /\ table'[i].owner = table[i].owner
         /\ table'[i].supersedes = table[i].supersedes
         /\ i \in Matched(S, o) => table'[i].supersededBy = n /\ table'[i].deleted
         /\ i \notin Matched(S, o) => table'[i] = table[i]
  BY <1>0, <1>3 DEF Replaced, Row
<1>7. \A i \in Matched(S, o) : i < n /\ table[i].owner = table[n].owner
  BY DEF Matched, ReplacePromise, RowsOf
<1> QED
  BY <1>2, <1>5, <1>6, <1>7
  DEF ChainInv, TableTypeOK, ChainsWellFormed, ReplacesEarlierRow, ReplacedIsHidden

\* Every statement keeps the chains.
LEMMA StepChains == ChainInv /\ [TableNext]_tableVars => ChainInv'
<1> SUFFICES ASSUME ChainInv, [TableNext]_tableVars PROVE ChainInv'
  OBVIOUS
<1>1. ASSUME NEW o \in Owners, NEW f \in Facts, NEW a \in Acls, NEW p \in BOOLEAN,
             NEW m \in BOOLEAN, NEW e \in 1..MaxEvidence, NEW s \in DOMAIN table \cup {Null},
             LinkPromise(o, s), InsertRow(o, f, a, p, e, s, m)
      PROVE  ChainInv'
  BY <1>1, InsertKeepsChains
<1>2. ASSUME NEW o \in Owners, NEW n \in DOMAIN table, NEW S \in SUBSET DOMAIN table,
             NEW c \in BOOLEAN, ReplacePromise(S, o, n), Replace(S, o, n, c)
      PROVE  ChainInv'
  BY <1>2, ReplaceKeepsChains
<1>3. ASSUME NEW i \in DOMAIN table, HardDelete(i) PROVE ChainInv'
  BY <1>3, DropKeepsChains DEF HardDelete
<1>4. ASSUME NEW o \in Owners, PurgeRows(o) PROVE ChainInv'
  BY <1>4, DropKeepsChains DEF PurgeRows
<1>5. ASSUME KeepsLinks PROVE ChainInv'
  BY <1>5, KeepsLinksKeepsChains
<1>6. CASE UNCHANGED tableVars
  BY <1>6 DEF tableVars, ChainInv, TableTypeOK, ChainsWellFormed, ReplacesEarlierRow, ReplacedIsHidden
<1> QED
  BY <1>1, <1>2, <1>3, <1>4, <1>5, <1>6, StepKeepsLinks DEF TableNext

\* Type correctness of the table and well-formedness of the chains it holds,
\* for any number of owners, rows and interleaved statements.
THEOREM ChainsHold ==
    TableSpec => [](TableTypeOK /\ ChainsWellFormed /\ ReplacesEarlierRow /\ ReplacedIsHidden)
<1>1. ChainInv => TableTypeOK /\ ChainsWellFormed /\ ReplacesEarlierRow /\ ReplacedIsHidden
  BY DEF ChainInv
<1> QED BY <1>1, InitChains, StepChains, PTL DEF TableSpec

\* Purging a user is never refused by a foreign key (PurgeNeverBlocked).
THEOREM PurgeAlwaysPossible == TableSpec => []PurgeNeverBlocked
<1>1. ChainInv => PurgeNeverBlocked
  BY DEF ChainInv, TableTypeOK, ChainsWellFormed, ReplacesEarlierRow, PurgeNeverBlocked,
         Referenced, RowsOf, Row, Null
<1> QED BY <1>1, InitChains, StepChains, PTL DEF TableSpec

-----------------------------------------------------------------------------
\* A deleted row stays deleted and keeps its link, in one step.
LEMMA StepReplacedOnce ==
    ASSUME ChainInv, [TableNext]_tableVars
    PROVE  \A i \in DOMAIN table \cap DOMAIN table' :
              /\ table[i].deleted => table'[i].deleted
              /\ table[i].deleted => table'[i].supersededBy = table[i].supersededBy
<1> SUFFICES ASSUME NEW i \in DOMAIN table \cap DOMAIN table', table[i].deleted
             PROVE  table'[i].deleted /\ table'[i].supersededBy = table[i].supersededBy
  OBVIOUS
<1>1. ASSUME table'[i] = table[i] PROVE table'[i].deleted /\ table'[i].supersededBy = table[i].supersededBy
  BY <1>1
<1>2. ASSUME NEW o \in Owners, NEW f, NEW a, NEW p, NEW m, NEW e, NEW s, InsertRow(o, f, a, p, e, s, m)
      PROVE  table'[i] = table[i]
  BY <1>2 DEF InsertRow, ChainInv, TableTypeOK
<1>3. ASSUME NEW o, NEW n, NEW S, NEW c, Replace(S, o, n, c) PROVE table'[i] = table[i]
  BY <1>3 DEF Replace, Matched
<1>4. ASSUME NEW S, DropRows(S) PROVE table'[i] = table[i]
  BY <1>4 DEF DropRows
<1>5. ASSUME KeepsLinks PROVE table'[i].deleted /\ table'[i].supersededBy = table[i].supersededBy
  BY <1>5 DEF KeepsLinks
<1>6. CASE UNCHANGED tableVars
  BY <1>6 DEF tableVars
<1> QED
  BY <1>1, <1>2, <1>3, <1>4, <1>5, <1>6, StepKeepsLinks DEF TableNext, HardDelete, PurgeRows

\* A row is replaced once and never revived, whatever the services interleave
\* (ReplacedOnce).
THEOREM ReplacedForGood == TableSpec => ReplacedOnce
<1>1. ChainInv /\ [TableNext]_tableVars =>
        [\A i \in DOMAIN table \cap DOMAIN table' :
            /\ table[i].deleted => table'[i].deleted
            /\ table[i].deleted => table'[i].supersededBy = table[i].supersededBy]_tableVars
  BY StepReplacedOnce
<1> QED BY <1>1, InitChains, StepChains, PTL DEF TableSpec, ReplacedOnce

-----------------------------------------------------------------------------
(* What a service has read of the table may be stale, but not about whose    *)
(* row it is: an id is never handed out twice and no statement changes an    *)
(* owner.                                                                    *)

KnownRow(i, o) == i \in 1..lastId /\ (i \in DOMAIN table => table[i].owner = o)

\* A step of a client is a statement of the table, or leaves it alone.
TableStep == TableNext \/ UNCHANGED tableVars

\* A known row stays known through any statement.
LEMMA KnownRowStays ==
    ASSUME ChainInv, [TableNext]_tableVars
    PROVE  /\ lastId' >= lastId
           /\ \A o, i : KnownRow(i, o) => KnownRow(i, o)'
<1> USE DEF KnownRow
<1>0. lastId \in Nat /\ table = [i \in DOMAIN table |-> table[i]]
  BY TableConstants DEF ChainInv, TableTypeOK
<1>1. ASSUME NEW o, NEW f, NEW a, NEW p, NEW m, NEW e, NEW s, InsertRow(o, f, a, p, e, s, m)
      PROVE  lastId' >= lastId /\ \A q, i : KnownRow(i, q) => KnownRow(i, q)'
  BY <1>0, <1>1 DEF InsertRow
<1>2. ASSUME NEW o, NEW n, NEW S, NEW c, Replace(S, o, n, c)
      PROVE  lastId' >= lastId /\ \A q, i : KnownRow(i, q) => KnownRow(i, q)'
  <2>1. \A i \in DOMAIN table : table[i] \in Row
    BY DEF ChainInv, TableTypeOK
  <2>2. lastId' = lastId /\ DOMAIN table' = DOMAIN table
    BY <1>2 DEF Replace
  <2>3. \A i \in DOMAIN table : table'[i].owner = table[i].owner
    BY <1>2, <2>1 DEF Replace, Replaced, Row
  <2> QED BY <1>0, <2>2, <2>3
<1>3. ASSUME NEW S, DropRows(S)
      PROVE  lastId' >= lastId /\ \A q, i : KnownRow(i, q) => KnownRow(i, q)'
  BY <1>0, <1>3 DEF DropRows
<1>4. ASSUME KeepsLinks
      PROVE  lastId' >= lastId /\ \A q, i : KnownRow(i, q) => KnownRow(i, q)'
  BY <1>0, <1>4 DEF KeepsLinks
<1>5. CASE UNCHANGED tableVars
  BY <1>0, <1>5 DEF tableVars
<1> QED
  BY <1>1, <1>2, <1>3, <1>4, <1>5, StepKeepsLinks DEF TableNext, HardDelete, PurgeRows
=============================================================================

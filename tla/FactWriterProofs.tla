-------------------------- MODULE FactWriterProofs --------------------------
(***************************************************************************)
(* Every step of the writer, and of the users who edit beside it, runs a   *)
(* statement of KnowledgeTable and keeps the promise that statement asks   *)
(* for.  So what KnowledgeTableProofs proves of the table holds of it in   *)
(* every behaviour of the writer.  Then what a call of writeFacts owes to  *)
(* the calls and edits beside it (WriterHistory), and what leaves a user's *)
(* hands or is pruned beside the bots' turns (Retrieval).                  *)
(***************************************************************************)
EXTENDS Retrieval, KnowledgeTableProofs, FiniteSetTheorems

-----------------------------------------------------------------------------
(* What a call remembers of the table is known (KnownRow).                   *)

BusyHasUser == \A s \in Slots : pc[s] # "idle" => user[s] \in Owners

ItemsKnown ==
    \A s \in Slots : \A k \in 1..Len(items[s]) :
        /\ pc[s] \in {"prepare", "apply", "retire"}
        /\ items[s][k].tight # Null => KnownRow(items[s][k].tight, user[s])
        /\ \A i \in items[s][k].loose : KnownRow(i, user[s])

RetiringKnown ==
    \A s \in Slots : pc[s] = "retire" =>
        /\ KnownRow(retiring[s].old, user[s])
        /\ KnownRow(retiring[s].new, user[s])
        /\ retiring[s].old < retiring[s].new

\* The group a call merges is known, and its canonical row is later than the group.
MergeHeld(s) ==
    /\ pc[s] \notin {"merge", "canon", "replace"} => candidates[s] = {}
    /\ pc[s] \notin {"canon", "replace"} => merge[s].ids = {} /\ merge[s].new = Null
    /\ pc[s] \in {"canon", "replace"} => merge[s].ids # {} /\ merge[s].fact \in Facts
    /\ pc[s] = "canon" => merge[s].new = Null
    /\ \A i \in candidates[s] \cup merge[s].ids : KnownRow(i, user[s])
    /\ pc[s] = "replace" =>
          /\ KnownRow(merge[s].new, user[s])
          /\ \A i \in merge[s].ids : i < merge[s].new

MergingKnown == \A s \in Slots : MergeHeld(s)

WriterInv ==
    ChainInv /\ SlotTypes /\ BusyHasUser /\ ItemsKnown /\ RetiringKnown /\ MergingKnown

-----------------------------------------------------------------------------
(* Each step is a statement of the table, or none.                           *)

\* The head of a slot's items is an item that is known.
LEMMA HeadItem ==
    ASSUME WriterInv, NEW s \in Slots, items[s] # <<>>
    PROVE  /\ Head(items[s]) \in Item
           /\ user[s] \in Owners
           /\ Head(items[s]).tight # Null => KnownRow(Head(items[s]).tight, user[s])
           /\ \A i \in Head(items[s]).loose : KnownRow(i, user[s])
<1>1. items[s] \in Seq(Item)
  BY DEF WriterInv, SlotTypes
<1>2. Len(items[s]) >= 1 /\ Head(items[s]) = items[s][1] /\ items[s][1] \in Item
  BY <1>1
<1> QED BY <1>2 DEF WriterInv, ItemsKnown, BusyHasUser

\* reinforce() is the table's statement, or matches nothing.
LEMMA ReinforceIsStatement ==
    ASSUME NEW s \in Slots, user[s] \in Owners, NEW i, ReinforceOrDrop(s, i)
    PROVE  TableStep
BY DEF ReinforceOrDrop, TableStep, TableNext, Reinforce, ActiveOf, tableVars

\* An item is inserted with a link to a row of its own user, if any.
LEMMA InsertIsStatement ==
    ASSUME WriterInv, NEW s \in Slots, items[s] # <<>>, NEW old \in Head(items[s]).loose \cup {Null},
           InsertItem(s, Head(items[s]), old)
    PROVE  TableStep
<1> DEFINE it == Head(items[s])
<1>1. it \in Item /\ user[s] \in Owners /\ \A i \in it.loose : KnownRow(i, user[s])
  BY HeadItem
<1>2. it.fact \in Facts /\ it.acl \in Acls /\ it.embedded \in BOOLEAN
  BY <1>1 DEF Item
<1>3. InsertRow(user[s], it.fact, it.acl, it.fact \in PermanentFacts, 1, old, it.embedded)
  BY DEF InsertItem
<1>4. old \in DOMAIN table \cup {Null} /\ LinkPromise(user[s], old)
  BY <1>1, <1>3 DEF InsertRow, LinkPromise, RowsOf, KnownRow
<1>5. 1 \in 1..MaxEvidence /\ (it.fact \in PermanentFacts) \in BOOLEAN
  BY TableConstants
<1> QED BY <1>1, <1>2, <1>3, <1>4, <1>5 DEF TableStep, TableNext

\* The contradicted row is replaced by the later row of its own user.
LEMMA RetireIsStatement ==
    ASSUME WriterInv, NEW s \in Slots, Retire(s) PROVE TableStep
<1> DEFINE old == retiring[s].old
           new == retiring[s].new
<1>1. Replace({old}, user[s], new, TRUE) /\ pc[s] = "retire"
  BY DEF Retire
<1>2. CASE Matched({old}, user[s]) = {}
  <2>1. table = [i \in DOMAIN table |-> table[i]]
    BY DEF WriterInv, ChainInv, TableTypeOK
  <2> QED BY <1>1, <1>2, <2>1 DEF Replace, TableStep, tableVars
<1>3. CASE Matched({old}, user[s]) # {}
  <2>1. old \in DOMAIN table /\ new \in DOMAIN table
    BY <1>1, <1>3 DEF Replace, Matched
  <2>2. KnownRow(new, user[s]) /\ old < new /\ user[s] \in Owners
    BY <1>1 DEF WriterInv, RetiringKnown, BusyHasUser
  <2>3. ReplacePromise({old}, user[s], new)
    BY <2>1, <2>2 DEF ReplacePromise, RowsOf, KnownRow
  <2>4. {old} \in SUBSET DOMAIN table
    BY <2>1
  <2> QED BY <1>1, <2>1, <2>2, <2>3, <2>4 DEF TableStep, TableNext
<1> QED BY <1>2, <1>3

\* The doubtful item is reinforced or inserted.
LEMMA LooseIsStatement ==
    ASSUME WriterInv, NEW s \in Slots, ApplyLoose(s) PROVE TableStep
<1> DEFINE it == Head(items[s])
<1>1. items[s] # <<>> /\ user[s] \in Owners
  BY HeadItem DEF ApplyLoose
<1>2. PICK said \in [it.loose -> Verdicts] :
         IF Judged(said, "paraphrase") # {}
         THEN \E i \in Judged(said, "paraphrase") : ReinforceOrDrop(s, i)
         ELSE \E old \in IF Judged(said, "contradiction") = {}
                         THEN {Null} ELSE Judged(said, "contradiction") :
                 InsertItem(s, it, old)
  BY DEF ApplyLoose
<1>3. Judged(said, "contradiction") \subseteq it.loose
  BY DEF Judged
<1> QED BY <1>1, <1>2, <1>3, ReinforceIsStatement, InsertIsStatement

\* The canonical row belongs to the owner of the call.
LEMMA CanonicalIsStatement ==
    ASSUME WriterInv, NEW s \in Slots, NEW b \in BOOLEAN, InsertCanonical(s, b)
    PROVE  TableStep
<1>1. merge[s] \in Merge /\ user[s] \in Owners /\ merge[s].fact \in Facts
  BY DEF WriterInv, SlotTypes, BusyHasUser, MergingKnown, MergeHeld, InsertCanonical
<1>2. merge[s].acl \in Acls /\ merge[s].permanent \in BOOLEAN /\ merge[s].evidence \in 1..MaxEvidence
  BY <1>1 DEF Merge
<1>3. InsertRow(user[s], merge[s].fact, merge[s].acl, merge[s].permanent, merge[s].evidence, Null, b)
      /\ LinkPromise(user[s], Null)
  BY DEF InsertCanonical, PutCanonical, LinkPromise
<1> QED BY <1>1, <1>2, <1>3 DEF TableStep, TableNext

\* Of a group, only the rows still there are replaced, by a later row of the same
\* owner.
LEMMA GroupIsStatement ==
    ASSUME WriterInv, NEW s \in Slots, ReplaceGroup(s)
    PROVE  TableStep
<1> DEFINE o == user[s]
           n == merge[s].new
           S == merge[s].ids \cap DOMAIN table
<1>1. pc[s] = "replace" /\ Replace(merge[s].ids, o, n, FALSE)
  BY DEF ReplaceGroup, GiveWay
<1>2. Matched(merge[s].ids, o) = Matched(S, o)
  BY DEF Matched
<1>3. CASE Matched(S, o) = {}
  <2>1. table = [i \in DOMAIN table |-> table[i]]
    BY DEF WriterInv, ChainInv, TableTypeOK
  <2> QED BY <1>1, <1>2, <1>3, <2>1 DEF Replace, TableStep, tableVars
<1>4. CASE Matched(S, o) # {}
  <2>1. n \in DOMAIN table
    BY <1>1, <1>2, <1>4 DEF Replace
  <2>2. MergeHeld(s) /\ o \in Owners
    BY <1>1 DEF WriterInv, BusyHasUser, MergingKnown
  <2>3. ReplacePromise(S, o, n)
    BY <1>1, <2>1, <2>2 DEF MergeHeld, KnownRow, ReplacePromise, RowsOf
  <2>4. Replace(S, o, n, FALSE)
    BY <1>1, <1>2 DEF Replace
  <2> QED BY <2>1, <2>2, <2>3, <2>4 DEF TableStep, TableNext
<1> QED BY <1>3, <1>4

\* The steps of a merging call that only read, or fail.
MergeReads(s) ==
    \/ Consolidate(s)
    \/ \E S \in Groups(s), f \in Facts : ReadGroup(s, S, f)
    \/ MergeRefused(s) \/ ReplaceViolatesKey(s)

\* Reading leaves the table, and the order of its rows, alone.
LEMMA MergeReadsKeepTable ==
    ASSUME NEW s \in Slots, MergeReads(s)
    PROVE  UNCHANGED <<table, lastId, share, seenBefore, user, todo, items, retiring, overflow, runs>>
BY DEF MergeReads, Consolidate, ReadGroup, TakeGroup, MergeRefused, ReplaceViolatesKey, MergingFails,
       tableVars

\* The steps of consolidateIfOver.
MergeStep(s) == MergeReads(s) \/ (\E b \in BOOLEAN : InsertCanonical(s, b)) \/ ReplaceGroup(s)

\* A call consolidates once its facts are applied, and holds no pair meanwhile.
LEMMA MergeMoves ==
    ASSUME NEW s \in Slots, MergeStep(s)
    PROVE  /\ UNCHANGED <<share, user, todo, items, retiring, overflow, runs>>
           /\ pc[s] \in {"apply", "merge", "canon", "replace"} /\ (pc[s] = "apply" => items[s] = <<>>)
           /\ \E step \in {"merge", "canon", "replace"} : Goto(s, step)
           /\ faults' = faults \/ (faults < MaxFaults /\ faults' = faults + 1)
BY DEF MergeStep, MergeReads, Consolidate, ReadGroup, MergeRefused, ReplaceViolatesKey, MergingFails,
       InsertCanonical, ReplaceGroup

\* Users and admins run statements of the table as well.
LEMMA EditIsStatement ==
    ASSUME Edit \/ TimePasses PROVE TableStep
BY DEF Edit, TimePasses, Forget, ChangeAcl, ChangeImportance, ChangeCategory, ToggleShare, EraseRow,
   PurgeUser, TableStep, TableNext, tableVars, SoftDelete

\* Every step of the specification is a step of the table.
LEMMA StepIsStatement ==
    ASSUME WriterInv, [WriterNext]_vars PROVE TableStep
<1>1. ASSUME NEW s \in Slots, ApplyTight(s) PROVE TableStep
  BY <1>1, HeadItem, ReinforceIsStatement DEF ApplyTight
<1>2. ASSUME NEW s \in Slots, Prune(s) PROVE TableStep
  BY <1>2 DEF Prune, SoftDelete, TableStep, TableNext
<1>3. ASSUME NEW s \in Slots, ApplyLoose(s) \/ Retire(s) PROVE TableStep
  BY <1>3, LooseIsStatement, RetireIsStatement
<1>4. ASSUME UNCHANGED <<table, lastId>> PROVE TableStep
  BY <1>4 DEF TableStep, tableVars
<1>5. ASSUME NEW s \in Slots, MergeStep(s) PROVE TableStep
  BY <1>4, <1>5, MergeReadsKeepTable, CanonicalIsStatement, GroupIsStatement DEF MergeStep
<1> QED
  BY <1>1, <1>2, <1>3, <1>4, <1>5, EditIsStatement
  DEF WriterNext, SlotStep, MergeStep, MergeReads, Start, Prepare, Classify, CountRows, Refused,
      InsertViolatesKey, RetireViolatesKey, Abandon, Quiet, OutOfRows, vars

-----------------------------------------------------------------------------
(* The invariant.                                                            *)

\* A slot that merges nothing.
LEMMA NoMergeIsMerge == NoMerge \in Merge
<1>1. 1 \in 1..MaxEvidence /\ "private" \in Acls
  BY TableConstants, CanonicalConstants
<1> QED BY <1>1 DEF NoMerge, Merge, NoFact, Null

\* No call runs at the start.
LEMMA InitWriterInv == WriterInit => WriterInv
<1> SUFFICES ASSUME WriterInit PROVE WriterInv
  OBVIOUS
<1>1. NoMerge \in Merge
  BY NoMergeIsMerge
<1>2. SlotTypes
  BY <1>1 DEF WriterInit, SlotTypes, NoPair, Null, Nobody, Steps
<1>3. MergingKnown
  BY DEF WriterInit, MergingKnown, MergeHeld, NoMerge
<1> QED BY <1>2, <1>3, InitChains DEF WriterInit, WriterInv, BusyHasUser, ItemsKnown, RetiringKnown

\* The part of the invariant about one slot; the steps of another slot keep it.
SlotInv(s) ==
    /\ pc[s] # "idle" => user[s] \in Owners
    /\ \A k \in 1..Len(items[s]) :
          /\ pc[s] \in {"prepare", "apply", "retire"}
          /\ items[s][k].tight # Null => KnownRow(items[s][k].tight, user[s])
          /\ \A i \in items[s][k].loose : KnownRow(i, user[s])
    /\ pc[s] = "retire" =>
          /\ KnownRow(retiring[s].old, user[s])
          /\ KnownRow(retiring[s].new, user[s])
          /\ retiring[s].old < retiring[s].new

\* The invariant is the conjunction of what it says of each slot.
LEMMA SlotInvIsInv ==
    WriterInv <=> ChainInv /\ SlotTypes /\ \A s \in Slots : SlotInv(s) /\ MergeHeld(s)
BY DEF WriterInv, BusyHasUser, ItemsKnown, RetiringKnown, MergingKnown, SlotInv

\* A slot whose variables a step leaves alone keeps its part.
LEMMA OtherSlotKept ==
    ASSUME WriterInv, TableStep, NEW s \in Slots,
           pc'[s] = pc[s], user'[s] = user[s], items'[s] = items[s], retiring'[s] = retiring[s],
           candidates'[s] = candidates[s], merge'[s] = merge[s]
    PROVE  SlotInv(s)' /\ MergeHeld(s)'
<1>1. SlotInv(s) /\ MergeHeld(s) /\ ChainInv
  BY SlotInvIsInv
<1>2. \A i, o : KnownRow(i, o) => KnownRow(i, o)'
  BY <1>1, KnownRowStays DEF TableStep
<1>3. SlotInv(s)'
  BY <1>1, <1>2 DEF SlotInv
<1>4. MergeHeld(s)'
  BY <1>1, <1>2 DEF MergeHeld
<1> QED BY <1>3, <1>4

\* A call that neither merges nor begins to holds no group.
LEMMA NoGroupHeld ==
    ASSUME WriterInv, NEW s \in Slots, pc'[s] \notin {"merge", "canon", "replace"},
           candidates'[s] = {}, merge'[s] = merge[s], pc[s] \notin {"canon", "replace"}
    PROVE  MergeHeld(s)'
BY DEF WriterInv, MergingKnown, MergeHeld

\* A fact is prepared from rows of the job's user.
LEMMA PrepareKeepsSlot ==
    ASSUME WriterInv, NEW s \in Slots, NEW m \in BOOLEAN, Prepare(s, m)
    PROVE  SlotTypes' /\ SlotInv(s)'
<1> DEFINE o == user[s]
           f == Head(todo[s])
           tights == IF m THEN TightMatches(o, f) ELSE {}
           loose == IF m /\ tights = {} THEN LooseMatches(o, f) ELSE {}
<1>1. o \in Owners /\ todo[s] \in Seq(Facts) /\ todo[s] # <<>> /\ items[s] \in Seq(Item)
      /\ pc[s] = "prepare"
  BY DEF WriterInv, SlotTypes, BusyHasUser, Prepare
<1>2. f \in Facts /\ Tail(todo[s]) \in Seq(Facts)
  BY <1>1
<1>3. PICK t \in IF tights = {} THEN {Null} ELSE tights :
         items' = [items EXCEPT ![s] = Append(@,
             [fact |-> f, acl |-> ResolveAcl(o, f), embedded |-> m, tight |-> t, loose |-> loose])]
  BY DEF Prepare
<1>4. \A i \in tights \cup loose : i \in DOMAIN table /\ table[i].owner = o
  BY DEF TightMatches, LooseMatches, Searchable, ActiveOf
<1>5. \A i \in tights \cup loose : i \in Ids /\ KnownRow(i, o)
  BY <1>4, TableConstants DEF WriterInv, ChainInv, TableTypeOK, KnownRow, Ids
<1>6. ResolveAcl(o, f) \in Acls
  BY CanonicalConstants DEF ResolveAcl, DefaultAcl
<1> DEFINE it == [fact |-> f, acl |-> ResolveAcl(o, f), embedded |-> m, tight |-> t, loose |-> loose]
<1>7. it \in Item
  BY <1>2, <1>3, <1>5, <1>6 DEF Item
<1>8. items'[s] = Append(items[s], it) /\ items'[s] \in Seq(Item)
  BY <1>1, <1>3, <1>7 DEF WriterInv, SlotTypes
<1>9. items' \in [Slots -> Seq(Item)]
  BY <1>3, <1>7, <1>1 DEF WriterInv, SlotTypes
<1>10. SlotTypes'
  BY <1>2, <1>9 DEF WriterInv, SlotTypes, Prepare, mergeVars
<1>11. ASSUME NEW k \in 1..Len(items'[s])
       PROVE  /\ items'[s][k].tight # Null => KnownRow(items'[s][k].tight, o)
              /\ \A i \in items'[s][k].loose : KnownRow(i, o)
  <2>1. CASE k <= Len(items[s])
    <3>1. items'[s][k] = items[s][k] /\ k \in 1..Len(items[s])
      BY <1>1, <1>8, <2>1
    <3> QED BY <3>1 DEF WriterInv, ItemsKnown
  <2>2. CASE k = Len(items[s]) + 1
    <3>1. items'[s][k] = it
      BY <1>1, <1>8, <2>2
    <3>2. t # Null => t \in tights
      BY <1>3
    <3> QED BY <3>1, <3>2, <1>5
  <2> QED BY <1>1, <1>8, <2>1, <2>2
<1>12. UNCHANGED <<table, lastId, pc, user, retiring>>
  BY DEF Prepare
<1>13. \A i \in Ids \cup {Null} : KnownRow(i, o)' <=> KnownRow(i, o)
  BY <1>12 DEF KnownRow
<1> QED BY <1>1, <1>10, <1>11, <1>12, <1>13 DEF SlotInv, KnownRow

\* A slot that is idle or pruning has no items.
LEMMA NoItems ==
    ASSUME WriterInv, NEW s \in Slots, pc[s] \notin {"prepare", "apply", "retire"}
    PROVE  items[s] = <<>> /\ Len(items[s]) = 0
<1>1. items[s] \in Seq(Item)
  BY DEF WriterInv, SlotTypes
<1>2. Len(items[s]) \in Nat /\ ~ (1 \in 1..Len(items[s]))
  BY <1>1 DEF WriterInv, ItemsKnown
<1>3. Len(items[s]) = 0
  BY <1>2
<1> QED BY <1>1, <1>3

\* A call starts with nothing prepared.
LEMMA StartKeepsSlot ==
    ASSUME WriterInv, NEW s \in Slots, NEW o \in Owners, NEW facts \in Batches, Start(s, o, facts)
    PROVE  SlotTypes' /\ SlotInv(s)'
<1>1. facts \in Seq(Facts)
  BY WriterConstants
<1>2. Len(items[s]) = 0
  BY NoItems DEF Start
<1>3. SlotTypes'
  BY <1>1 DEF WriterInv, SlotTypes, Start, Goto, Steps, mergeVars
<1> QED BY <1>2, <1>3 DEF WriterInv, SlotTypes, Start, Goto, SlotInv

\* What is left of the items after the first is known as before.
LEMMA TailKnown ==
    ASSUME WriterInv, NEW s \in Slots, items[s] # <<>>
    PROVE  /\ Tail(items[s]) \in Seq(Item)
           /\ \A k \in 1..Len(Tail(items[s])) :
                 /\ Tail(items[s])[k].tight # Null => KnownRow(Tail(items[s])[k].tight, user[s])
                 /\ \A i \in Tail(items[s])[k].loose : KnownRow(i, user[s])
<1>1. items[s] \in Seq(Item) /\ Len(items[s]) >= 1
  BY DEF WriterInv, SlotTypes
<1>2. Tail(items[s]) \in Seq(Item)
  BY <1>1
<1>3. \A k \in 1..Len(Tail(items[s])) :
         k + 1 \in 1..Len(items[s]) /\ Tail(items[s])[k] = items[s][k + 1]
  BY <1>1
<1> QED BY <1>2, <1>3 DEF WriterInv, ItemsKnown

\* reinforce() takes the item away and nothing else.
LEMMA ReinforceKeepsSlot ==
    ASSUME WriterInv, TableStep, NEW s \in Slots, items[s] # <<>>, pc[s] = "apply",
           NEW i, ReinforceOrDrop(s, i)
    PROVE  SlotTypes' /\ SlotInv(s)'
<1>1. \A q, o : KnownRow(q, o) => KnownRow(q, o)'
  BY KnownRowStays DEF TableStep, WriterInv
<1>2. UNCHANGED <<pc, user, todo, retiring, candidates, merge>>
      /\ items' = [items EXCEPT ![s] = Tail(items[s])]
  BY DEF ReinforceOrDrop, NextItem, mergeVars
<1>3. SlotTypes' /\ items'[s] = Tail(items[s])
  BY <1>2, TailKnown DEF WriterInv, SlotTypes
<1> QED BY <1>1, <1>2, <1>3, TailKnown DEF WriterInv, BusyHasUser, SlotInv

\* The row inserted for a contradiction is later than the contradicted one.
LEMMA InsertKeepsSlot ==
    ASSUME WriterInv, TableStep, NEW s \in Slots, items[s] # <<>>, pc[s] = "apply",
           NEW old \in Head(items[s]).loose \cup {Null}, InsertItem(s, Head(items[s]), old)
    PROVE  SlotTypes' /\ SlotInv(s)'
<1>1. \A q, o : KnownRow(q, o) => KnownRow(q, o)'
  BY KnownRowStays DEF TableStep, WriterInv
<1>2. UNCHANGED <<user, todo, candidates, merge>> /\ items' = [items EXCEPT ![s] = Tail(items[s])]
  BY DEF InsertItem, NextItem, mergeVars
<1>3. items' \in [Slots -> Seq(Item)] /\ items'[s] = Tail(items[s])
  BY <1>2, TailKnown DEF WriterInv, SlotTypes
<1>4. PICK n : n = lastId + 1
  OBVIOUS
<1>5. n \in Ids /\ lastId' = n /\ \A i \in 1..lastId : i < n
  BY <1>4, TableConstants DEF InsertItem, InsertRow, WriterInv, ChainInv, TableTypeOK, Ids
<1>6. KnownRow(n, user[s])'
  <2>1. table'[n].owner = user[s]
    BY <1>4 DEF InsertItem, InsertRow, NewRow
  <2>2. n \in 1..lastId'
    BY <1>5, TableConstants DEF Ids
  <2> QED BY <1>2, <2>1, <2>2 DEF KnownRow
<1>7. CASE old = Null
  <2>1. UNCHANGED <<pc, retiring>>
    BY <1>7 DEF InsertItem
  <2> QED BY <1>1, <1>2, <1>3, <2>1, TailKnown DEF WriterInv, SlotTypes, BusyHasUser, SlotInv
<1>8. CASE old # Null
  <2>1. retiring' = [retiring EXCEPT ![s] = [old |-> old, new |-> n]]
        /\ pc' = [pc EXCEPT ![s] = "retire"]
    BY <1>4, <1>8 DEF InsertItem, Goto
  <2>2. KnownRow(old, user[s]) /\ old \in Ids /\ old < n
    BY <1>5, <1>8, HeadItem, TableConstants DEF KnownRow, WriterInv, ChainInv, TableTypeOK, Ids
  <2>3. SlotTypes'
    BY <1>2, <1>3, <1>5, <2>1, <2>2 DEF WriterInv, SlotTypes, Steps
  <2>4. pc'[s] = "retire" /\ retiring'[s].old = old /\ retiring'[s].new = n
    BY <2>1 DEF WriterInv, SlotTypes
  <2> QED BY <1>1, <1>2, <1>3, <1>6, <2>2, <2>3, <2>4, TailKnown
          DEF WriterInv, BusyHasUser, SlotInv
<1> QED BY <1>7, <1>8

\* Whatever the verdicts, the doubtful item is applied and the rest stays known.
LEMMA LooseKeepsSlot ==
    ASSUME WriterInv, TableStep, NEW s \in Slots, ApplyLoose(s)
    PROVE  SlotTypes' /\ SlotInv(s)'
<1> DEFINE it == Head(items[s])
<1>1. items[s] # <<>> /\ pc[s] = "apply"
  BY DEF ApplyLoose
<1>2. PICK said \in [it.loose -> Verdicts] :
         IF Judged(said, "paraphrase") # {}
         THEN \E i \in Judged(said, "paraphrase") : ReinforceOrDrop(s, i)
         ELSE \E old \in IF Judged(said, "contradiction") = {}
                         THEN {Null} ELSE Judged(said, "contradiction") :
                 InsertItem(s, it, old)
  BY DEF ApplyLoose
<1>3. Judged(said, "contradiction") \subseteq it.loose
  BY DEF Judged
<1> QED BY <1>1, <1>2, <1>3, ReinforceKeepsSlot, InsertKeepsSlot

\* The rows a call takes to merge are its owner's.
LEMMA LeastSeenIds ==
    ASSUME WriterInv, NEW o, NEW n, NEW C \in LeastSeen(Mergeable(o), n)
    PROVE  C \subseteq Ids /\ \A i \in C : KnownRow(i, o)
<1>1. \A i \in C : i \in DOMAIN table /\ table[i].owner = o
  BY DEF LeastSeen, Mergeable, ActiveOf
<1> QED BY <1>1, TableConstants DEF WriterInv, ChainInv, TableTypeOK, Ids, KnownRow

\* What is read of a group.
LEMMA GroupRead ==
    ASSUME WriterInv, NEW s \in Slots, NEW S \in Groups(s), NEW f \in Facts, ReadGroup(s, S, f)
    PROVE  /\ merge'[s].ids = S /\ merge'[s].fact = f /\ merge'[s].new = Null
           /\ merge'[s].acl = CanonicalAcl(S, user[s], f)
           /\ \E m \in Merge : merge' = [merge EXCEPT ![s] = m]
<1> DEFINE o == user[s]
<1>1. PICK e \in 1..MaxEvidence : merge' = [merge EXCEPT ![s] =
          [ids |-> S, fact |-> f, acl |-> CanonicalAcl(S, o, f), evidence |-> e, new |-> Null,
           permanent |-> \E i \in MergedRows(S, o) : table[i].permanent]]
  BY DEF ReadGroup, TakeGroup
<1> DEFINE m == [ids |-> S, fact |-> f, acl |-> CanonicalAcl(S, o, f), evidence |-> e, new |-> Null,
                 permanent |-> \E i \in MergedRows(S, o) : table[i].permanent]
<1>2. candidates[s] \in SUBSET Ids
  BY DEF WriterInv, SlotTypes
<1>3. S \in SUBSET Ids
  BY <1>2 DEF Groups
<1>4. CanonicalAcl(S, o, f) \in Acls
  BY CanonicalConstants DEF CanonicalAcl
<1>5. m \in Merge
  BY <1>3, <1>4 DEF Merge
<1> QED BY <1>1, <1>5 DEF WriterInv, SlotTypes

\* The canonical row is the last one, of the call's user.
LEMMA CanonicalPut ==
    ASSUME WriterInv, NEW s \in Slots, NEW b \in BOOLEAN, InsertCanonical(s, b),
           NEW n, n = lastId + 1
    PROVE  /\ merge'[s].ids = merge[s].ids /\ merge'[s].fact = merge[s].fact /\ merge'[s].new = n
           /\ KnownRow(n, user[s])' /\ \A i \in 1..lastId : i < n
           /\ \E m \in Merge : merge' = [merge EXCEPT ![s] = m]
<1>m. PICK m : m = merge[s]
  OBVIOUS
<1>1. m \in Merge
  BY <1>m DEF WriterInv, SlotTypes
<1>2. n \in Ids /\ lastId' = n /\ \A i \in 1..lastId : i < n
  BY TableConstants DEF InsertCanonical, PutCanonical, InsertRow, WriterInv, ChainInv, TableTypeOK, Ids
<1>3. merge' = [merge EXCEPT ![s] = [m EXCEPT !.new = n]]
  BY <1>m DEF InsertCanonical, PutCanonical
<1>4. [m EXCEPT !.new = n] \in Merge /\ [m EXCEPT !.new = n].new = n
      /\ [m EXCEPT !.new = n].ids = m.ids /\ [m EXCEPT !.new = n].fact = m.fact
  BY <1>1, <1>2 DEF Merge
<1>5. merge'[s].new = n /\ merge'[s].ids = m.ids /\ merge'[s].fact = m.fact
  BY <1>3, <1>4 DEF WriterInv, SlotTypes
<1>6. KnownRow(n, user[s])'
  <2>1. table'[n].owner = user[s] /\ user' = user
    BY DEF InsertCanonical, PutCanonical, InsertRow, NewRow
  <2>2. n \in 1..lastId'
    BY <1>2, TableConstants DEF Ids
  <2> QED BY <2>1, <2>2 DEF KnownRow
<1> QED BY <1>2, <1>3, <1>4, <1>5, <1>6, <1>m

\* The steps that end a call or move it on with no item added.
LEMMA PlainKeepsSlot ==
    ASSUME WriterInv, TableStep, NEW s \in Slots,
           Classify(s) \/ Retire(s) \/ CountRows(s) \/ Prune(s) \/ Refused(s)
              \/ InsertViolatesKey(s) \/ RetireViolatesKey(s)
    PROVE  SlotTypes' /\ SlotInv(s)'
<1>1. \A q, o : KnownRow(q, o) => KnownRow(q, o)'
  BY KnownRowStays DEF TableStep, WriterInv
<1> USE DEF WriterInv, SlotTypes, BusyHasUser, ItemsKnown, SlotInv, Goto, Return, Steps, mergeVars
<1>2. CASE Classify(s)
  BY <1>1, <1>2 DEF Classify
<1>3. CASE Retire(s)
  BY <1>1, <1>3 DEF Retire, NoPair
<1>4. CASE CountRows(s)
  <2>1. UNCHANGED <<todo, items, retiring, merge>> /\ items'[s] = <<>> /\ Len(items'[s]) = 0
        /\ candidates' = [candidates EXCEPT ![s] = {}]
    BY <1>4 DEF CountRows
  <2>2. \/ pc' = [pc EXCEPT ![s] = "prune"] /\ user' = user
        \/ pc' = [pc EXCEPT ![s] = "idle"] /\ user' = [user EXCEPT ![s] = Nobody]
    BY <1>4 DEF CountRows
  <2>3. user[s] \in Owners
    BY <1>4 DEF CountRows
  <2>4. pc' \in [Slots -> Steps] /\ user' \in [Slots -> Owners \cup {Nobody}]
        /\ (pc'[s] = "idle" \/ (pc'[s] = "prune" /\ user'[s] \in Owners))
    BY <2>2, <2>3
  <2>5. candidates' \in [Slots -> SUBSET Ids]
    BY <2>1
  <2>6. SlotTypes'
    BY <2>1, <2>4, <2>5
  <2> QED BY <2>1, <2>4, <2>6
<1>5. ASSUME Prune(s) PROVE SlotTypes' /\ SlotInv(s)'
  <2>1. pc[s] = "prune"
    BY <1>5 DEF Prune
  <2>2. UNCHANGED <<todo, items, retiring, candidates, merge>> /\ items[s] = <<>> /\ Len(items[s]) = 0
    BY <1>5, <2>1, NoItems DEF Prune
  <2> QED BY <1>5, <2>2 DEF Prune
<1>6. CASE Refused(s) \/ InsertViolatesKey(s) \/ RetireViolatesKey(s)
  <2>1. Abandon(s)
    BY <1>6 DEF Refused, InsertViolatesKey, RetireViolatesKey
  <2>2. items'[s] = <<>> /\ Len(items'[s]) = 0 /\ pc'[s] = "idle"
    BY <2>1 DEF Abandon
  <2>3. SlotTypes'
    BY <2>1 DEF Abandon, NoPair
  <2> QED BY <2>2, <2>3
<1> QED BY <1>2, <1>3, <1>4, <1>5, <1>6

\* A group is read, inserted and replaced with no item left.
LEMMA MergeKeepsSlot ==
    ASSUME WriterInv, NEW s \in Slots, MergeStep(s) PROVE SlotTypes' /\ SlotInv(s)'
<1>1. UNCHANGED <<user, todo, items, retiring>>
  BY MergeMoves
<1>2. \E step \in {"merge", "canon", "replace"} : Goto(s, step)
  BY MergeMoves
<1>3. items[s] = <<>> /\ Len(items[s]) = 0 /\ pc[s] # "idle"
  BY MergeMoves, NoItems
<1>4. user[s] \in Owners /\ pc' \in [Slots -> Steps] /\ pc'[s] \in {"merge", "canon", "replace"}
  BY <1>2, <1>3 DEF Goto, WriterInv, BusyHasUser, SlotTypes, Steps
<1>5. SlotInv(s)'
  BY <1>1, <1>3, <1>4 DEF SlotInv
<1>6. candidates' \in [Slots -> SUBSET Ids]
  <2>1. ASSUME NEW C, C \subseteq Ids, candidates' = [candidates EXCEPT ![s] = C]
        PROVE  candidates' \in [Slots -> SUBSET Ids]
    BY <2>1 DEF WriterInv, SlotTypes
  <2>2. CASE Consolidate(s)
    BY <2>1, <2>2, LeastSeenIds DEF Consolidate
  <2>3. CASE MergeRefused(s) \/ ReplaceViolatesKey(s)
    BY <2>1, <2>3 DEF MergeRefused, ReplaceViolatesKey, MergingFails
  <2>4. ASSUME UNCHANGED candidates PROVE candidates' \in [Slots -> SUBSET Ids]
    BY <2>4 DEF WriterInv, SlotTypes
  <2> QED BY <2>2, <2>3, <2>4 DEF MergeStep, MergeReads, ReadGroup, InsertCanonical, ReplaceGroup
<1>7. merge' \in [Slots -> Merge]
  <2>1. ASSUME NEW m \in Merge, merge' = [merge EXCEPT ![s] = m] PROVE merge' \in [Slots -> Merge]
    BY <2>1 DEF WriterInv, SlotTypes
  <2>2. ASSUME NEW S \in Groups(s), NEW f \in Facts, ReadGroup(s, S, f) PROVE merge' \in [Slots -> Merge]
    BY <2>1, <2>2, GroupRead
  <2>3. ASSUME NEW b \in BOOLEAN, InsertCanonical(s, b) PROVE merge' \in [Slots -> Merge]
    BY <2>1, <2>3, CanonicalPut
  <2> QED BY <2>1, <2>2, <2>3, NoMergeIsMerge
       DEF MergeStep, MergeReads, Consolidate, MergeRefused, ReplaceViolatesKey, MergingFails, ReplaceGroup,
           GiveWay, WriterInv, SlotTypes
<1> QED BY <1>1, <1>4, <1>5, <1>6, <1>7 DEF WriterInv, SlotTypes

\* A step of a slot keeps what is known of the group it merges.
LEMMA StepMergeHeld ==
    ASSUME WriterInv, TableStep, NEW s \in Slots, SlotStep(s) PROVE MergeHeld(s)'
<1>0. \A q, o : KnownRow(q, o) => KnownRow(q, o)'
  BY KnownRowStays DEF TableStep, WriterInv
<1>1. MergeHeld(s) /\ SlotTypes
  BY DEF WriterInv, MergingKnown
<1> USE DEF SlotTypes, Goto, Return, mergeVars
<1>2. ASSUME pc'[s] \notin {"merge", "canon", "replace"}, candidates'[s] = {}, merge'[s] = merge[s],
             pc[s] \notin {"canon", "replace"}
      PROVE  MergeHeld(s)'
  BY <1>2, NoGroupHeld
<1>3. CASE \E o \in Owners, facts \in Batches : Start(s, o, facts)
  BY <1>1, <1>2, <1>3 DEF Start, MergeHeld
<1>4. CASE (\E m \in BOOLEAN : Prepare(s, m)) \/ Classify(s) \/ Retire(s)
  BY <1>1, <1>2, <1>4 DEF Prepare, Classify, Retire, MergeHeld
<1>5. CASE ApplyTight(s)
  BY <1>1, <1>2, <1>5 DEF ApplyTight, ReinforceOrDrop, MergeHeld
<1>6. CASE ApplyLoose(s)
  BY <1>1, <1>2, <1>6 DEF ApplyLoose, ReinforceOrDrop, InsertItem, MergeHeld
<1>7. CASE CountRows(s) \/ Prune(s)
  BY <1>1, <1>2, <1>7 DEF CountRows, Prune, MergeHeld
<1>8. CASE Refused(s) \/ InsertViolatesKey(s) \/ RetireViolatesKey(s)
  BY <1>1, <1>2, <1>8 DEF Refused, InsertViolatesKey, RetireViolatesKey, Abandon
<1>9. CASE Consolidate(s)
  <2>1. PICK C \in LeastSeen(Mergeable(user[s]), MaxCandidates) :
           candidates' = [candidates EXCEPT ![s] = C]
    BY <1>9 DEF Consolidate
  <2>2. \A i \in C : KnownRow(i, user[s])
    BY LeastSeenIds
  <2>3. pc[s] = "apply" /\ pc'[s] = "merge" /\ candidates'[s] = C
        /\ UNCHANGED <<table, lastId, user, merge>>
    BY <1>1, <1>9, <2>1 DEF Consolidate
  <2> QED BY <1>0, <1>1, <2>2, <2>3 DEF MergeHeld
<1>10. ASSUME NEW S \in Groups(s), NEW f \in Facts, ReadGroup(s, S, f) PROVE MergeHeld(s)'
  <2>1. S \subseteq candidates[s] /\ S # {}
    BY DEF Groups
  <2>2. merge'[s].ids = S /\ merge'[s].fact = f /\ merge'[s].new = Null
    BY <1>10, GroupRead
  <2>3. pc'[s] = "canon" /\ UNCHANGED <<user, candidates>>
    BY <1>1, <1>10 DEF ReadGroup
  <2> QED BY <1>0, <1>1, <1>10, <2>1, <2>2, <2>3 DEF MergeHeld
<1>11. ASSUME NEW b \in BOOLEAN, InsertCanonical(s, b) PROVE MergeHeld(s)'
  <2>1. PICK n : n = lastId + 1
    OBVIOUS
  <2>2. /\ merge'[s].ids = merge[s].ids /\ merge'[s].fact = merge[s].fact /\ merge'[s].new = n
        /\ KnownRow(n, user[s])' /\ \A i \in 1..lastId : i < n
    BY <1>11, <2>1, CanonicalPut
  <2>3. pc[s] = "canon" /\ pc'[s] = "replace" /\ UNCHANGED <<user, candidates>>
    BY <1>1, <1>11 DEF InsertCanonical
  <2>4. \A i \in merge[s].ids : i < n
    BY <1>1, <2>2 DEF MergeHeld, KnownRow
  <2> QED BY <1>0, <1>1, <2>2, <2>3, <2>4 DEF MergeHeld
<1>12. CASE ReplaceGroup(s) \/ MergeRefused(s) \/ ReplaceViolatesKey(s)
  <2>1. merge'[s] = NoMerge /\ pc'[s] = "merge" /\ user' = user /\ candidates'[s] \subseteq candidates[s]
    BY <1>1, <1>12 DEF ReplaceGroup, GiveWay, MergeRefused, ReplaceViolatesKey, MergingFails
  <2> QED BY <1>0, <1>1, <2>1 DEF MergeHeld, NoMerge
<1> QED BY <1>3, <1>4, <1>5, <1>6, <1>7, <1>8, <1>9, <1>10, <1>11, <1>12 DEF SlotStep

\* The steps of one slot leave the others alone.
LEMMA SlotStepKeepsOthers ==
    ASSUME WriterInv, NEW s \in Slots, SlotStep(s), NEW r \in Slots \ {s}
    PROVE  /\ pc'[r] = pc[r] /\ user'[r] = user[r] /\ todo'[r] = todo[r]
           /\ items'[r] = items[r] /\ retiring'[r] = retiring[r]
           /\ candidates'[r] = candidates[r] /\ merge'[r] = merge[r]
<1>1. pc \in [Slots -> Steps] /\ user \in [Slots -> Owners \cup {Nobody}]
      /\ todo \in [Slots -> Seq(Facts)] /\ items \in [Slots -> Seq(Item)]
      /\ retiring \in [Slots -> [old : Ids \cup {Null}, new : Ids \cup {Null}]]
      /\ candidates \in [Slots -> SUBSET Ids] /\ merge \in [Slots -> Merge]
  BY DEF WriterInv, SlotTypes
<1> USE DEF mergeVars
<1>2. CASE ApplyTight(s)
  BY <1>1, <1>2 DEF ApplyTight, ReinforceOrDrop, NextItem
<1>3. CASE ApplyLoose(s)
  BY <1>1, <1>3 DEF ApplyLoose, ReinforceOrDrop, InsertItem, NextItem, Goto
<1>4. CASE \E m \in BOOLEAN : Prepare(s, m)
  BY <1>1, <1>4 DEF Prepare
<1>5. CASE Refused(s) \/ InsertViolatesKey(s) \/ RetireViolatesKey(s)
  BY <1>1, <1>5 DEF Refused, InsertViolatesKey, RetireViolatesKey, Abandon, Goto, Return
<1>6. CASE \E o \in Owners, facts \in Batches : Start(s, o, facts)
  BY <1>1, <1>6 DEF Start, Goto
<1>7. CASE Classify(s) \/ Retire(s) \/ CountRows(s) \/ Prune(s)
  BY <1>1, <1>7 DEF Classify, Retire, CountRows, Prune, Goto, Return
<1>8. CASE MergeReads(s)
  BY <1>1, <1>8 DEF MergeReads, Consolidate, ReadGroup, TakeGroup, MergeRefused, ReplaceViolatesKey,
                    MergingFails, Goto
<1>9. CASE (\E b \in BOOLEAN : InsertCanonical(s, b)) \/ ReplaceGroup(s)
  BY <1>1, <1>9 DEF InsertCanonical, PutCanonical, ReplaceGroup, GiveWay, Goto
<1> QED BY <1>2, <1>3, <1>4, <1>5, <1>6, <1>7, <1>8, <1>9 DEF SlotStep, MergeReads

\* Every step keeps the invariant.
LEMMA StepWriterInv == WriterInv /\ [WriterNext]_vars => WriterInv'
<1> SUFFICES ASSUME WriterInv, [WriterNext]_vars PROVE WriterInv'
  OBVIOUS
<1>1. TableStep
  BY StepIsStatement
<1>2. ChainInv'
  BY <1>1, StepChains DEF TableStep, WriterInv
<1>3. SUFFICES SlotTypes' /\ \A s \in Slots : SlotInv(s)' /\ MergeHeld(s)'
  BY <1>2 DEF WriterInv, BusyHasUser, ItemsKnown, RetiringKnown, MergingKnown, SlotInv
<1>4. ASSUME UNCHANGED slotVars PROVE SlotTypes' /\ \A s \in Slots : SlotInv(s)' /\ MergeHeld(s)'
  BY <1>1, <1>4, OtherSlotKept DEF slotVars, mergeVars, WriterInv, SlotTypes
<1>5. ASSUME NEW s \in Slots, SlotStep(s)
      PROVE  SlotTypes' /\ \A r \in Slots : SlotInv(r)' /\ MergeHeld(r)'
  <2>1. SlotTypes' /\ SlotInv(s)'
    <3>1. ASSUME NEW o \in Owners, NEW facts \in Batches, Start(s, o, facts)
          PROVE  SlotTypes' /\ SlotInv(s)'
      BY <3>1, StartKeepsSlot
    <3>2. ASSUME NEW m \in BOOLEAN, Prepare(s, m) PROVE SlotTypes' /\ SlotInv(s)'
      BY <3>2, PrepareKeepsSlot
    <3>3. CASE ApplyTight(s)
      BY <1>1, <3>3, ReinforceKeepsSlot DEF ApplyTight
    <3>4. CASE ApplyLoose(s)
      BY <1>1, <3>4, LooseKeepsSlot
    <3> QED BY <1>1, <1>5, <3>1, <3>2, <3>3, <3>4, PlainKeepsSlot, MergeKeepsSlot DEF SlotStep, MergeStep, MergeReads
  <2>2. MergeHeld(s)'
    BY <1>1, <1>5, StepMergeHeld
  <2>3. ASSUME NEW r \in Slots \ {s} PROVE SlotInv(r)' /\ MergeHeld(r)'
    BY <1>1, <1>5, <2>3, SlotStepKeepsOthers, OtherSlotKept
  <2> QED BY <2>1, <2>2, <2>3
<1> QED BY <1>4, <1>5 DEF WriterNext, Edit, TimePasses, Quiet, OutOfRows, vars

-----------------------------------------------------------------------------
\* The writer, with users and admins beside it, implements the table: every
\* behaviour of it is one of the table's (RunsTableStatements).
THEOREM WriterImplementsTable == WriterSpec => RunsTableStatements
<1>1. WriterInit => TableInit
  BY DEF WriterInit
<1>2. WriterInv /\ [WriterNext]_vars => [TableNext]_tableVars
  BY StepIsStatement DEF TableStep
<1> QED BY <1>1, <1>2, InitWriterInv, StepWriterInv, PTL DEF WriterSpec, RunsTableStatements, TableSpec

\* So the chains the writer makes are well formed, for any number of slots, jobs,
\* owners, faults and edits, and a replaced row is never revived.
THEOREM WriterKeepsChains ==
    WriterSpec => [](ChainsWellFormed /\ ReplacesEarlierRow /\ PurgeNeverBlocked) /\ ReplacedOnce
<1>1. RunsTableStatements =>
        [](TableTypeOK /\ ChainsWellFormed /\ ReplacesEarlierRow /\ ReplacedIsHidden)
  BY ChainsHold DEF RunsTableStatements
<1>2. RunsTableStatements => []PurgeNeverBlocked
  BY PurgeAlwaysPossible DEF RunsTableStatements
<1>3. RunsTableStatements => ReplacedOnce
  BY ReplacedForGood DEF RunsTableStatements
<1> QED BY <1>1, <1>2, <1>3, WriterImplementsTable, PTL

-----------------------------------------------------------------------------
(* The rest of the shape of the state.                                       *)

\* What one slot holds, but for what it merges.
SlotHolds(s) ==
    /\ pc[s] = "idle" <=> user[s] = Nobody
    /\ pc[s] = "retire" <=> retiring[s] # NoPair
    /\ pc[s] = "prune" <=> overflow[s] > 0
    /\ pc[s] \notin {"prepare", "apply", "retire"} => items[s] = <<>>

CallInv ==
    /\ overflow \in [Slots -> Nat]
    /\ \A s \in Slots : SlotHolds(s)
    /\ share \in [Owners -> BOOLEAN]
    /\ runs \in 0..MaxRuns
    /\ faults \in 0..MaxFaults

\* With what is known of a group, that is what a call holds.
LEMMA CallHolds == WriterInv /\ CallInv => HoldsWhatItNeeds
BY DEF WriterInv, MergingKnown, MergeHeld, CallInv, HoldsWhatItNeeds, SlotHolds, KnownRow, Null

\* Rows are finitely many.
LEMMA FiniteRows ==
    ASSUME NEW n \in Nat, NEW T \in SUBSET (1..n) PROVE IsFiniteSet(T) /\ Cardinality(T) \in Nat
<1>1. IsFiniteSet(1..n)
  BY FS_Interval
<1>2. IsFiniteSet(T)
  BY <1>1, FS_Subset
<1> QED BY <1>2, FS_CardinalityType

\* How many rows prune finds too many is a number.
LEMMA OverIsNat ==
    ASSUME ChainInv, NEW o PROVE Over(o) \in Nat
<1>1. lastId \in Nat /\ Kept(o) \subseteq 1..lastId
  BY TableConstants DEF ChainInv, TableTypeOK, Kept, RowsOf
<1>2. Cardinality(Kept(o)) \in Nat
  BY <1>1, FiniteRows
<1>3. Cap \in Nat
  BY WriterConstants
<1> QED BY <1>2, <1>3 DEF Over

LEMMA StartHolds ==
    ASSUME WriterInv, CallInv, NEW s \in Slots, NEW o \in Owners, NEW facts \in Batches,
           Start(s, o, facts)
    PROVE  SlotHolds(s)' /\ overflow' = overflow
BY WriterConstants
   DEF WriterInv, SlotTypes, CallInv, Start, Goto, SlotHolds

LEMMA ApplyHolds ==
    ASSUME WriterInv, CallInv, NEW s \in Slots, ApplyTight(s) \/ ApplyLoose(s)
    PROVE  SlotHolds(s)' /\ overflow' = overflow
<1> USE DEF WriterInv, SlotTypes, CallInv, SlotHolds
<1>1. ASSUME NEW i, ReinforceOrDrop(s, i), pc[s] = "apply" PROVE SlotHolds(s)' /\ overflow' = overflow
  BY <1>1 DEF ReinforceOrDrop, NextItem
<1>2. ASSUME NEW it, NEW old, InsertItem(s, it, old), pc[s] = "apply"
      PROVE  SlotHolds(s)' /\ overflow' = overflow
  <2>1. CASE old = Null
    BY <1>2, <2>1 DEF InsertItem, NextItem
  <2>2. CASE old # Null
    <3>1. /\ retiring'[s].old = old /\ pc'[s] = "retire"
          /\ UNCHANGED <<user, overflow>>
      BY <1>2, <2>2 DEF InsertItem, Goto
    <3>2. retiring'[s] # NoPair
      BY <2>2, <3>1 DEF NoPair
    <3> QED BY <1>2, <3>1, <3>2
  <2> QED BY <2>1, <2>2
<1>3. CASE ApplyTight(s)
  BY <1>1, <1>3 DEF ApplyTight
<1>4. CASE ApplyLoose(s)
  BY <1>1, <1>2, <1>4 DEF ApplyLoose
<1> QED BY <1>3, <1>4

LEMMA PlainHolds ==
    ASSUME WriterInv, CallInv, NEW s \in Slots,
           Classify(s) \/ Retire(s) \/ CountRows(s) \/ Prune(s) \/ Refused(s)
              \/ InsertViolatesKey(s) \/ RetireViolatesKey(s)
              \/ (\E m \in BOOLEAN : Prepare(s, m)) \/ MergeStep(s)
    PROVE  SlotHolds(s)' /\ overflow' \in [Slots -> Nat]
<1> USE WriterConstants DEF WriterInv, SlotTypes, CallInv, SlotHolds, Goto, Return
<1>1. CASE Classify(s)
  BY <1>1 DEF Classify
<1>2. CASE Retire(s)
  BY <1>2 DEF Retire
<1>3. CASE CountRows(s)
  <2>1. Over(user[s]) \in Nat
    BY OverIsNat
  <2>2. pc[s] \in {"apply", "merge"} /\ items[s] = <<>> /\ UNCHANGED <<items, retiring>>
        /\ overflow' = [overflow EXCEPT ![s] = Over(user[s])]
    BY <1>3 DEF CountRows
  <2>3. overflow' \in [Slots -> Nat] /\ overflow'[s] = Over(user[s])
    BY <2>1, <2>2
  <2>4. CASE Over(user[s]) > 0
    BY <1>3, <2>2, <2>3, <2>4 DEF CountRows
  <2>5. CASE ~(Over(user[s]) > 0)
    BY <1>3, <2>2, <2>3, <2>5 DEF CountRows
  <2> QED BY <2>4, <2>5
<1>4. CASE Prune(s)
  <2>1. pc[s] = "prune" /\ items[s] = <<>> /\ retiring[s] = NoPair /\ UNCHANGED <<items, retiring>>
    BY <1>4 DEF Prune
  <2>2. pc'[s] = "idle" /\ user'[s] = Nobody
    BY <1>4 DEF Prune
  <2>3. overflow'[s] = 0 /\ overflow' \in [Slots -> Nat]
    BY <1>4 DEF Prune
  <2> QED BY <2>1, <2>2, <2>3
<1>5. CASE Refused(s) \/ InsertViolatesKey(s) \/ RetireViolatesKey(s)
  <2>1. Abandon(s)
    BY <1>5 DEF Refused, InsertViolatesKey, RetireViolatesKey
  <2> QED BY <2>1 DEF Abandon
<1>6. ASSUME NEW m \in BOOLEAN, Prepare(s, m) PROVE SlotHolds(s)' /\ overflow' \in [Slots -> Nat]
  BY <1>6 DEF Prepare
<1>7. CASE MergeStep(s)
  <2>1. UNCHANGED <<user, items, retiring, overflow>> /\ items[s] = <<>>
    BY <1>7, MergeMoves, NoItems
  <2>2. PICK step \in {"merge", "canon", "replace"} : pc' = [pc EXCEPT ![s] = step]
    BY <1>7, MergeMoves
  <2>3. pc'[s] \in {"merge", "canon", "replace"}
    BY <2>2
  <2>4. pc[s] \in {"apply", "merge", "canon", "replace"}
    BY <1>7, MergeMoves
  <2> QED BY <2>1, <2>3, <2>4
<1> QED BY <1>1, <1>2, <1>3, <1>4, <1>5, <1>6, <1>7

\* A slot leaves what the others count alone, the sharing flags, and counts the calls
\* and the faults.
LEMMA SlotCounts ==
    ASSUME CallInv, NEW s \in Slots, SlotStep(s)
    PROVE  /\ \A r \in Slots \ {s} : overflow'[r] = overflow[r]
           /\ UNCHANGED share
           /\ \/ runs' = runs /\ faults' = faults
              \/ runs < MaxRuns /\ runs' = runs + 1 /\ faults' = faults
              \/ faults < MaxFaults /\ faults' = faults + 1 /\ runs' = runs
<1>1. overflow \in [Slots -> Nat]
  BY DEF CallInv
<1>2. CASE MergeStep(s)
  BY <1>2, MergeMoves
<1>3. CASE (\E o \in Owners, facts \in Batches : Start(s, o, facts)) \/ (\E m \in BOOLEAN : Prepare(s, m))
           \/ Classify(s) \/ Retire(s)
  BY <1>3 DEF Start, Prepare, Classify, Retire
<1>4. CASE ApplyTight(s) \/ ApplyLoose(s)
  BY <1>4 DEF ApplyTight, ApplyLoose, ReinforceOrDrop, InsertItem
<1>5. CASE CountRows(s) \/ Prune(s)
  BY <1>1, <1>5 DEF CountRows, Prune
<1>6. CASE Refused(s) \/ InsertViolatesKey(s) \/ RetireViolatesKey(s)
  BY <1>1, <1>6 DEF Refused, InsertViolatesKey, RetireViolatesKey, Abandon
<1> QED BY <1>2, <1>3, <1>4, <1>5, <1>6 DEF SlotStep, MergeStep, MergeReads

\* Every step keeps what the calls hold.
LEMMA StepCallInv == WriterInv /\ CallInv /\ [WriterNext]_vars => CallInv'
<1> SUFFICES ASSUME WriterInv, CallInv, [WriterNext]_vars PROVE CallInv'
  OBVIOUS
<1>1. ASSUME NEW s \in Slots, SlotStep(s) PROVE CallInv'
  <2>1. SlotHolds(s)' /\ overflow' \in [Slots -> Nat]
    BY <1>1, StartHolds, ApplyHolds, PlainHolds DEF SlotStep, CallInv, MergeStep, MergeReads
  <2>2. ASSUME NEW r \in Slots \ {s} PROVE SlotHolds(r)'
    BY <1>1, SlotStepKeepsOthers, SlotCounts DEF SlotHolds, CallInv
  <2>3. share' \in [Owners -> BOOLEAN]
    BY <1>1, SlotCounts DEF CallInv
  <2>4. runs' \in 0..MaxRuns /\ faults' \in 0..MaxFaults
    <3>1. runs \in 0..MaxRuns /\ faults \in 0..MaxFaults /\ MaxRuns \in Nat /\ MaxFaults \in Nat
      BY WriterConstants DEF CallInv
    <3> QED BY <1>1, <3>1, SlotCounts
  <2> QED BY <2>1, <2>2, <2>3, <2>4 DEF CallInv
<1>2. ASSUME UNCHANGED <<slotVars, runs, faults>>, share' \in [Owners -> BOOLEAN] PROVE CallInv'
  BY <1>2 DEF slotVars, CallInv, SlotHolds
<1>3. ASSUME Edit PROVE share' \in [Owners -> BOOLEAN]
  BY <1>3 DEF Edit, Forget, ChangeAcl, ChangeImportance, ChangeCategory, ToggleShare, EraseRow, PurgeUser,
              CallInv
<1>4. ASSUME UNCHANGED share PROVE share' \in [Owners -> BOOLEAN]
  BY <1>4 DEF CallInv
<1> QED BY <1>1, <1>2, <1>3, <1>4 DEF WriterNext, Edit, TimePasses, Quiet, OutOfRows, vars

LEMMA InitCallInv == WriterInit => CallInv
BY WriterConstants DEF WriterInit, CallInv, SlotHolds

\* The statements that write last_seen_at are of rows with an id.
LEMMA StepSeenTyped ==
    ASSUME WriterInv, WriterInv', seenBefore \subseteq Ids \X Ids, [WriterNext]_vars
    PROVE  seenBefore' \subseteq Ids \X Ids
<1>1. DOMAIN table \subseteq Ids /\ DOMAIN table' \subseteq Ids
  BY TableConstants DEF WriterInv, ChainInv, TableTypeOK, Ids
<1>2. ASSUME NEW i \in Ids, Touch(i) PROVE seenBefore' \subseteq Ids \X Ids
  BY <1>1, <1>2 DEF Touch
<1>3. ASSUME NEW s, NEW i, ReinforceOrDrop(s, i) PROVE seenBefore' \subseteq Ids \X Ids
  BY <1>1, <1>2, <1>3 DEF ReinforceOrDrop, Reinforce, ActiveOf
<1>4. ASSUME NEW s, NEW it, NEW old, InsertItem(s, it, old) PROVE seenBefore' \subseteq Ids \X Ids
  <2>1. lastId + 1 \in DOMAIN table'
    BY <1>4 DEF InsertItem, InsertRow
  <2> QED BY <1>1, <1>2, <1>4, <2>1 DEF InsertItem
<1>5. ASSUME UNCHANGED seenBefore PROVE seenBefore' \subseteq Ids \X Ids
  BY <1>5
<1>6. ASSUME NEW s, NEW b, InsertCanonical(s, b) PROVE seenBefore' \subseteq Ids \X Ids
  <2>1. lastId + 1 \in DOMAIN table'
    BY <1>6 DEF InsertCanonical, PutCanonical, InsertRow
  <2> QED BY <1>1, <1>2, <1>6, <2>1 DEF InsertCanonical
<1>7. ASSUME NEW s \in Slots, MergeStep(s) PROVE seenBefore' \subseteq Ids \X Ids
  BY <1>5, <1>6, <1>7, MergeReadsKeepTable DEF MergeStep, ReplaceGroup
<1> QED
  BY <1>3, <1>4, <1>5, <1>7
  DEF WriterNext, SlotStep, MergeStep, MergeReads, Start, Prepare, Classify, ApplyTight, ApplyLoose, Retire,
      CountRows, Prune, Refused, InsertViolatesKey, RetireViolatesKey, Abandon, Edit, TimePasses, Quiet,
      OutOfRows, vars

\* The shape of the table and of what the calls hold, whatever they and the edits do.
THEOREM WriterTypeCorrect == WriterSpec => []WriterTypeOK
<1> DEFINE SeenTyped == seenBefore \subseteq Ids \X Ids
<1>1. WriterInv /\ CallInv /\ SeenTyped => WriterTypeOK
  BY CallHolds DEF WriterInv, ChainInv, CallInv, WriterTypeOK
<1>2. WriterInit => SeenTyped
  BY DEF WriterInit
<1>3. WriterInv /\ WriterInv' /\ SeenTyped /\ [WriterNext]_vars => SeenTyped'
  BY StepSeenTyped
<1> QED
  BY <1>1, <1>2, <1>3, InitWriterInv, StepWriterInv, InitCallInv, StepCallInv, PTL DEF WriterSpec

-----------------------------------------------------------------------------
(* Contradictions.                                                           *)

\* What any statement leaves of a row that was there before it and is there after.
RowsKept ==
    \A i \in DOMAIN table \cap DOMAIN table' :
        /\ table[i].old => table'[i].old
        /\ table[i].deleted => table'[i].deleted
        /\ table'[i].supersedes = table[i].supersedes
        /\ table'[i].owner = table[i].owner
        /\ table'[i].fact = table[i].fact
        /\ table'[i].embedded = table[i].embedded

\* What the statements do but for inserting a row and retiring another.
PlainStep ==
    /\ DOMAIN table' \subseteq DOMAIN table
    /\ RowsKept
    /\ \A i \in DOMAIN table' : table'[i].contradicted = table[i].contradicted

LEMMA SameRowsPlain == ASSUME UNCHANGED table PROVE PlainStep
BY DEF PlainStep, RowsKept

LEMMA EditIsPlain ==
    ASSUME ChainInv, Edit \/ TimePasses \/ \E i, o : Reinforce(i, o) PROVE PlainStep
<1>0. \A i \in DOMAIN table : table[i] \in Row
  BY DEF ChainInv, TableTypeOK
<1> USE <1>0 DEF PlainStep, RowsKept, Row
<1>1. ASSUME NEW S, SoftDelete(S) PROVE PlainStep
  BY <1>1 DEF SoftDelete
<1>2. ASSUME NEW i, NEW a, SetAcl(i, a) \/ SetPermanent(i, a) PROVE PlainStep
  BY <1>2 DEF SetAcl, SetPermanent
<1>3. ASSUME NEW S, DropRows(S) PROVE PlainStep
  BY <1>3 DEF DropRows
<1>4. ASSUME WeekPasses PROVE PlainStep
  BY <1>4 DEF WeekPasses
<1>5. ASSUME NEW i, NEW o, Reinforce(i, o) PROVE PlainStep
  BY <1>5 DEF Reinforce
<1>6. ASSUME UNCHANGED table PROVE PlainStep
  BY <1>6, SameRowsPlain
<1>7. ASSUME NEW i, NEW c, SetCategory(i, c) PROVE PlainStep
  BY <1>7 DEF SetCategory
<1> QED
  BY <1>1, <1>2, <1>3, <1>4, <1>5, <1>6, <1>7
  DEF Edit, TimePasses, Forget, ChangeAcl, ChangeImportance, ChangeCategory, ToggleShare, EraseRow,
      PurgeUser, HardDelete, PurgeRows

\* A group that is replaced was merged, not contradicted.
LEMMA GroupIsPlain ==
    ASSUME ChainInv, NEW s, ReplaceGroup(s) PROVE PlainStep
<1>1. \A i \in DOMAIN table : table[i] \in Row
  BY DEF ChainInv, TableTypeOK
<1>2. /\ DOMAIN table' = DOMAIN table
      /\ \A i \in DOMAIN table :
            table'[i] = table[i] \/ table'[i] = Replaced(table[i], merge[s].new, FALSE)
  BY DEF ReplaceGroup, GiveWay, Replace
<1>3. ASSUME NEW i \in DOMAIN table, table'[i] = Replaced(table[i], merge[s].new, FALSE)
      PROVE  /\ table'[i].deleted /\ table'[i].old = table[i].old
             /\ table'[i].supersedes = table[i].supersedes /\ table'[i].owner = table[i].owner
             /\ table'[i].fact = table[i].fact /\ table'[i].embedded = table[i].embedded
             /\ table'[i].contradicted = table[i].contradicted
  BY <1>1, <1>3 DEF Replaced, Row
<1> QED BY <1>2, <1>3 DEF PlainStep, RowsKept

\* A step inserts an item, retires a row, or is plain.
InsertsFor(s, old) ==
    /\ pc[s] = "apply" /\ items[s] # <<>> /\ Head(items[s]).tight = Null
    /\ old \in Head(items[s]).loose \cup {Null}
    /\ InsertItem(s, Head(items[s]), old)

LEMMA StepKinds ==
    ASSUME WriterInv, [WriterNext]_vars
    PROVE  \/ PlainStep
           \/ \E s \in Slots : Retire(s)
           \/ \E s \in Slots : \E old : InsertsFor(s, old)
           \/ \E s \in Slots : \E b \in BOOLEAN : InsertCanonical(s, b)
<1>1. ASSUME NEW s \in Slots, NEW i, ReinforceOrDrop(s, i) PROVE PlainStep
  BY <1>1, EditIsPlain, SameRowsPlain DEF ReinforceOrDrop, WriterInv
<1>2. ASSUME NEW s \in Slots, ApplyLoose(s)
      PROVE  PlainStep \/ \E old : InsertsFor(s, old)
  <2> DEFINE it == Head(items[s])
  <2>1. PICK said \in [it.loose -> Verdicts] :
           IF Judged(said, "paraphrase") # {}
           THEN \E i \in Judged(said, "paraphrase") : ReinforceOrDrop(s, i)
           ELSE \E old \in IF Judged(said, "contradiction") = {}
                           THEN {Null} ELSE Judged(said, "contradiction") :
                   InsertItem(s, it, old)
    BY <1>2 DEF ApplyLoose
  <2>2. Judged(said, "contradiction") \subseteq it.loose
    BY DEF Judged
  <2>3. pc[s] = "apply" /\ items[s] # <<>> /\ it.tight = Null
    BY <1>2 DEF ApplyLoose
  <2> QED BY <1>1, <2>1, <2>2, <2>3 DEF InsertsFor
<1>3. ASSUME NEW s \in Slots, ApplyTight(s) PROVE PlainStep
  BY <1>1, <1>3 DEF ApplyTight
<1>4. ASSUME NEW s \in Slots, Prune(s) PROVE PlainStep
  <2>1. \A i \in DOMAIN table : table[i] \in Row
    BY DEF WriterInv, ChainInv, TableTypeOK
  <2> QED BY <1>4, <2>1 DEF Prune, SoftDelete, PlainStep, RowsKept, Row
<1>5. ASSUME NEW s \in Slots, SlotStep(s)
      PROVE  \/ PlainStep
             \/ Retire(s)
             \/ \E old : InsertsFor(s, old)
             \/ \E b \in BOOLEAN : InsertCanonical(s, b)
  <2>1. CASE MergeStep(s)
    BY <2>1, MergeReadsKeepTable, GroupIsPlain, SameRowsPlain DEF MergeStep, WriterInv
  <2> QED
    BY <1>2, <1>3, <1>4, <1>5, <2>1, SameRowsPlain
    DEF SlotStep, MergeStep, MergeReads, Start, Prepare, Classify, CountRows, Refused, InsertViolatesKey,
        RetireViolatesKey, Abandon
<1> QED BY <1>5, EditIsPlain, SameRowsPlain DEF WriterNext, Quiet, OutOfRows, vars, WriterInv

\* A retirement marks one row of the call's user and replaces it, if it is there.
LEMMA RetireMarks ==
    ASSUME WriterInv, NEW s \in Slots, Retire(s)
    PROVE  /\ DOMAIN table' = DOMAIN table
           /\ RowsKept
           /\ retiring[s].old \in DOMAIN table => table'[retiring[s].old].deleted
           /\ \A i \in DOMAIN table \ {retiring[s].old} : table'[i] = table[i]
<1> DEFINE old == retiring[s].old
<1>1. \A i \in DOMAIN table : table[i] \in Row
  BY DEF WriterInv, ChainInv, TableTypeOK
<1>2. /\ DOMAIN table' = DOMAIN table
      /\ \A i \in DOMAIN table :
            table'[i] = IF i \in Matched({old}, user[s])
                        THEN Replaced(table[i], retiring[s].new, TRUE) ELSE table[i]
  BY DEF Retire, Replace
<1>3. old \in DOMAIN table => table[old].owner = user[s]
  BY DEF Retire, WriterInv, RetiringKnown, KnownRow
<1>4. \A i \in Matched({old}, user[s]) : i = old
  BY DEF Matched
<1>5. old \in DOMAIN table => old \in Matched({old}, user[s]) \/ table[old].deleted
  BY <1>3 DEF Matched
<1>6. \A i \in DOMAIN table :
         /\ Replaced(table[i], retiring[s].new, TRUE).deleted
         /\ Replaced(table[i], retiring[s].new, TRUE).old = table[i].old
         /\ Replaced(table[i], retiring[s].new, TRUE).supersedes = table[i].supersedes
         /\ Replaced(table[i], retiring[s].new, TRUE).owner = table[i].owner
         /\ Replaced(table[i], retiring[s].new, TRUE).fact = table[i].fact
         /\ Replaced(table[i], retiring[s].new, TRUE).embedded = table[i].embedded
  BY <1>1 DEF Replaced, Row
<1> QED BY <1>2, <1>4, <1>5, <1>6 DEF RowsKept

\* An insertion adds the row lastId + 1 and leaves the others alone.
LEMMA InsertAdds ==
    ASSUME WriterInv, NEW s \in Slots, NEW old, InsertsFor(s, old)
    PROVE  /\ lastId + 1 \notin DOMAIN table
           /\ DOMAIN table' = DOMAIN table \cup {lastId + 1}
           /\ \A i \in DOMAIN table : table'[i] = table[i]
           /\ table'[lastId + 1].supersedes = old
           /\ ~table'[lastId + 1].contradicted /\ ~table'[lastId + 1].deleted
           /\ table'[lastId + 1].owner = user[s]
           /\ table'[lastId + 1].fact = Head(items[s]).fact
           /\ table'[lastId + 1].embedded = Head(items[s]).embedded
           /\ items' = [items EXCEPT ![s] = Tail(@)] /\ UNCHANGED <<user, todo>>
<1>1. lastId \in Nat /\ DOMAIN table \subseteq 1..lastId
  BY TableConstants DEF WriterInv, ChainInv, TableTypeOK
<1> QED BY <1>1 DEF InsertsFor, InsertItem, NextItem, InsertRow, NewRow

\* So does the insertion of a canonical row.
LEMMA CanonAdds ==
    ASSUME WriterInv, NEW s \in Slots, NEW b \in BOOLEAN, InsertCanonical(s, b)
    PROVE  /\ lastId + 1 \notin DOMAIN table
           /\ DOMAIN table' = DOMAIN table \cup {lastId + 1}
           /\ \A i \in DOMAIN table : table'[i] = table[i]
           /\ table'[lastId + 1].supersedes = Null
           /\ ~table'[lastId + 1].contradicted /\ ~table'[lastId + 1].deleted
           /\ table'[lastId + 1].owner = user[s] /\ table'[lastId + 1].acl = merge[s].acl
           /\ UNCHANGED <<user, todo, items, retiring>>
<1>1. lastId \in Nat /\ DOMAIN table \subseteq 1..lastId
  BY TableConstants DEF WriterInv, ChainInv, TableTypeOK
<1> QED BY <1>1 DEF InsertCanonical, PutCanonical, InsertRow, NewRow

-----------------------------------------------------------------------------
(* A contradicted row had settled: the rows a call holds as contradicted     *)
(* were old when it read them, and rows get no younger.                      *)

Settled(i) == i \in DOMAIN table => table[i].old

SlotSettled(s) ==
    /\ \A k \in 1..Len(items[s]) : \A i \in items[s][k].loose : Settled(i)
    /\ pc[s] = "retire" => Settled(retiring[s].old)

SettledInv == ContradictedHadSettled /\ \A s \in Slots : SlotSettled(s)

\* Rows settle for good, and the id of a row that is gone is not handed out again.
LEMMA SettledStays ==
    ASSUME WriterInv, [WriterNext]_vars, NEW o, NEW i, KnownRow(i, o), Settled(i)
    PROVE  Settled(i)'
<1>1. i \in 1..lastId /\ lastId \in Nat
  BY TableConstants DEF KnownRow, WriterInv, ChainInv, TableTypeOK
<1>2. CASE PlainStep
  BY <1>2 DEF PlainStep, RowsKept, Settled
<1>3. ASSUME NEW s \in Slots, Retire(s) PROVE Settled(i)'
  BY <1>3, RetireMarks DEF RowsKept, Settled
<1>4. ASSUME NEW s \in Slots, NEW old, InsertsFor(s, old) PROVE Settled(i)'
  BY <1>1, <1>4, InsertAdds DEF Settled
<1>5. ASSUME NEW s \in Slots, NEW b \in BOOLEAN, InsertCanonical(s, b) PROVE Settled(i)'
  BY <1>1, <1>5, CanonAdds DEF Settled
<1> QED BY <1>2, <1>3, <1>4, <1>5, StepKinds

\* The contradictions of a step had settled.
LEMMA StepContradicted ==
    ASSUME WriterInv, SettledInv, [WriterNext]_vars PROVE ContradictedHadSettled'
<1>1. CASE PlainStep
  BY <1>1 DEF PlainStep, RowsKept, SettledInv, ContradictedHadSettled
<1>2. ASSUME NEW s \in Slots, Retire(s) PROVE ContradictedHadSettled'
  <2>1. Settled(retiring[s].old)
    BY <1>2 DEF SettledInv, SlotSettled, Retire
  <2> QED BY <1>2, <2>1, RetireMarks DEF RowsKept, Settled, SettledInv, ContradictedHadSettled
<1>3. ASSUME NEW s \in Slots, NEW old, InsertsFor(s, old) PROVE ContradictedHadSettled'
  BY <1>3, InsertAdds DEF SettledInv, ContradictedHadSettled
<1>4. ASSUME NEW s \in Slots, NEW b \in BOOLEAN, InsertCanonical(s, b) PROVE ContradictedHadSettled'
  BY <1>4, CanonAdds DEF SettledInv, ContradictedHadSettled
<1> QED BY <1>1, <1>2, <1>3, <1>4, StepKinds

\* Of the slot that steps: items are added by Prepare and taken from the front by
\* the others; a row is retired that was in one.
LEMMA StepSlotSettled ==
    ASSUME WriterInv, SettledInv, NEW s \in Slots, SlotStep(s) PROVE SlotSettled(s)'
<1>0. [WriterNext]_vars
  BY DEF WriterNext
<1>1. WriterInv'
  BY <1>0, StepWriterInv
<1>2. \A i : KnownRow(i, user[s]) /\ Settled(i) => Settled(i)'
  BY <1>0, SettledStays
<1>3. /\ \A k \in 1..Len(items[s]) : \A i \in items[s][k].loose : Settled(i) /\ Settled(i)'
      /\ items[s] \in Seq(Item)
  BY <1>2 DEF WriterInv, ItemsKnown, SlotTypes, SettledInv, SlotSettled
<1>4. CASE items'[s] = items[s] /\ (pc'[s] = "retire" => pc[s] = "retire" /\ retiring'[s] = retiring[s])
  BY <1>2, <1>3, <1>4 DEF SlotSettled, SettledInv, WriterInv, RetiringKnown
<1>5. CASE items'[s] = <<>> /\ pc'[s] # "retire"
  BY <1>5 DEF SlotSettled
<1>6. ASSUME items[s] # <<>>, items'[s] = Tail(items[s]),
             pc'[s] = "retire" => retiring'[s].old \in Head(items[s]).loose
      PROVE  SlotSettled(s)'
  <2>1. /\ Len(items[s]) >= 1 /\ Head(items[s]) = items[s][1]
        /\ \A k \in 1..Len(Tail(items[s])) :
              k + 1 \in 1..Len(items[s]) /\ Tail(items[s])[k] = items[s][k + 1]
    BY <1>3, <1>6
  <2> QED BY <1>3, <1>6, <2>1 DEF SlotSettled
<1>7. ASSUME NEW m \in BOOLEAN, Prepare(s, m) PROVE SlotSettled(s)'
  <2> DEFINE o == user[s]
             f == Head(todo[s])
             tights == IF m THEN TightMatches(o, f) ELSE {}
             loose == IF m /\ tights = {} THEN LooseMatches(o, f) ELSE {}
  <2>0. PICK t \in IF tights = {} THEN {Null} ELSE tights :
           items' = [items EXCEPT ![s] = Append(@,
               [fact |-> f, acl |-> ResolveAcl(o, f), embedded |-> m, tight |-> t, loose |-> loose])]
    BY <1>7 DEF Prepare
  <2> DEFINE it == [fact |-> f, acl |-> ResolveAcl(o, f), embedded |-> m, tight |-> t, loose |-> loose]
  <2>1. /\ items'[s] = Append(items[s], it)
        /\ it.loose \subseteq LooseMatches(user[s], Head(todo[s]))
    BY <2>0 DEF WriterInv, SlotTypes
  <2> HIDE DEF it
  <2>2. \A i \in it.loose : Settled(i)'
    BY <1>7, <2>1 DEF LooseMatches, Settled, Prepare
  <2>3. pc'[s] # "retire"
    BY <1>7 DEF Prepare
  <2>4. \A k \in 1..Len(items'[s]) :
           \/ k \in 1..Len(items[s]) /\ items'[s][k] = items[s][k]
           \/ items'[s][k] = it
    BY <1>3, <2>1
  <2> QED BY <1>3, <2>2, <2>3, <2>4 DEF SlotSettled
<1>8. CASE ApplyTight(s)
  BY <1>6, <1>8 DEF ApplyTight, ReinforceOrDrop, NextItem, WriterInv, SlotTypes
<1>9. CASE ApplyLoose(s)
  <2> DEFINE it == Head(items[s])
  <2>1. pc[s] = "apply" /\ items[s] # <<>>
    BY <1>9 DEF ApplyLoose
  <2>2. items'[s] = Tail(items[s])
    BY <1>9 DEF ApplyLoose, ReinforceOrDrop, InsertItem, NextItem, WriterInv, SlotTypes
  <2>3. \/ pc' = pc
        \/ \E old \in it.loose : retiring' = [retiring EXCEPT ![s] = [old |-> old, new |-> lastId + 1]]
    <3>1. PICK said \in [it.loose -> Verdicts] :
             IF Judged(said, "paraphrase") # {}
             THEN \E i \in Judged(said, "paraphrase") : ReinforceOrDrop(s, i)
             ELSE \E old \in IF Judged(said, "contradiction") = {}
                             THEN {Null} ELSE Judged(said, "contradiction") :
                     InsertItem(s, it, old)
      BY <1>9 DEF ApplyLoose
    <3>2. Judged(said, "contradiction") \subseteq it.loose
      BY DEF Judged
    <3> QED BY <3>1, <3>2 DEF ReinforceOrDrop, InsertItem
  <2>4. pc'[s] = "retire" => retiring'[s].old \in it.loose
    BY <2>1, <2>3 DEF WriterInv, SlotTypes
  <2> QED BY <1>6, <2>1, <2>2, <2>4
<1>10. CASE \E o \in Owners, facts \in Batches : Start(s, o, facts)
  BY <1>4, <1>10 DEF Start, Goto, WriterInv, SlotTypes
<1>11. CASE Classify(s) \/ Retire(s) \/ CountRows(s) \/ Prune(s)
  BY <1>4, <1>11 DEF Classify, Retire, CountRows, Prune, Goto, Return, WriterInv, SlotTypes
<1>12. CASE Refused(s) \/ InsertViolatesKey(s) \/ RetireViolatesKey(s)
  BY <1>5, <1>12 DEF Refused, InsertViolatesKey, RetireViolatesKey, Abandon, Goto, Return, WriterInv, SlotTypes
<1>13. CASE MergeStep(s)
  <2>1. UNCHANGED <<items, retiring>>
    BY <1>13, MergeMoves
  <2>2. pc'[s] # "retire"
    BY <1>13, MergeMoves DEF Goto, WriterInv, SlotTypes
  <2> QED BY <1>4, <2>1, <2>2
<1> QED BY <1>7, <1>8, <1>9, <1>10, <1>11, <1>12, <1>13 DEF SlotStep, MergeStep, MergeReads

\* Every step keeps the contradictions settled.
LEMMA StepSettled ==
    WriterInv /\ SettledInv /\ [WriterNext]_vars => SettledInv'
<1> SUFFICES ASSUME WriterInv, SettledInv, [WriterNext]_vars PROVE SettledInv'
  OBVIOUS
<1>1. \A o, i : KnownRow(i, o) /\ Settled(i) => Settled(i)'
  BY SettledStays
<1>2. ASSUME NEW s \in Slots, pc'[s] = pc[s], items'[s] = items[s], retiring'[s] = retiring[s]
      PROVE  SlotSettled(s)'
  BY <1>1, <1>2 DEF WriterInv, ItemsKnown, RetiringKnown, SettledInv, SlotSettled
<1>3. ASSUME NEW s \in Slots, SlotStep(s) PROVE \A r \in Slots : SlotSettled(r)'
  BY <1>2, <1>3, StepSlotSettled, SlotStepKeepsOthers
<1>4. ASSUME UNCHANGED slotVars PROVE \A r \in Slots : SlotSettled(r)'
  BY <1>2, <1>4 DEF slotVars
<1>5. \A r \in Slots : SlotSettled(r)'
  BY <1>3, <1>4 DEF WriterNext, Edit, TimePasses, Quiet, OutOfRows, vars
<1> QED BY <1>5, StepContradicted DEF SettledInv

\* A row is auto-resolved as contradicted only once it has settled
\* (ContradictedHadSettled), however long before the write it was read.
THEOREM ContradictionsAreOfSettledRows == WriterSpec => []ContradictedHadSettled
<1>1. WriterInit => SettledInv
  BY DEF WriterInit, TableInit, SettledInv, ContradictedHadSettled, SlotSettled
<1>2. SettledInv => ContradictedHadSettled
  BY DEF SettledInv
<1> QED BY <1>1, <1>2, InitWriterInv, StepWriterInv, StepSettled, PTL DEF WriterSpec

-----------------------------------------------------------------------------
(* The newer assertion wins.                                                 *)

\* The call that inserted a row for another holds both until it has retired the
\* other, or a statement has failed, or one of them is gone.
LEMMA HolderGoesOn ==
    ASSUME WriterInv, CallInv, [WriterNext]_vars, NEW s \in Slots,
           retiring[s] # NoPair, retiring'[s] # retiring[s]
    PROVE  Retire(s) \/ faults' > 0 \/ retiring[s].new \notin DOMAIN table
<1>1. pc[s] = "retire"
  BY DEF CallInv, SlotHolds
<1>2. PICK r \in Slots : SlotStep(r)
  BY DEF WriterNext, Edit, TimePasses, Quiet, OutOfRows, vars, slotVars
<1>3. r = s
  BY <1>2, SlotStepKeepsOthers
<1>4. Retire(s) \/ Refused(s) \/ RetireViolatesKey(s)
  BY <1>1, <1>2, <1>3, MergeMoves
  DEF SlotStep, MergeStep, MergeReads, Start, Prepare, Classify, ApplyTight, ApplyLoose, CountRows, Prune,
      InsertViolatesKey
<1>5. faults \in Nat
  BY WriterConstants DEF CallInv
<1> QED BY <1>4, <1>5 DEF Refused, RetireViolatesKey

LEMMA FaultsGrow ==
    ASSUME CallInv, [WriterNext]_vars, faults' = 0 PROVE faults = 0
<1>1. faults' = faults \/ faults' = faults + 1
  BY SlotCounts DEF WriterNext, Edit, TimePasses, Quiet, OutOfRows, vars
<1>2. faults \in Nat
  BY WriterConstants DEF CallInv
<1> QED BY <1>1, <1>2

LEMMA StepNewerWins ==
    WriterInv /\ CallInv /\ NewerAssertionWins /\ [WriterNext]_vars => NewerAssertionWins'
<1> SUFFICES ASSUME WriterInv, CallInv, NewerAssertionWins, [WriterNext]_vars, faults' = 0,
                    NEW n \in DOMAIN table', NEW k, k = table'[n].supersedes,
                    k # Null, k \in DOMAIN table', ~table'[k].deleted
             PROVE  \E s \in Slots : retiring'[s] = [old |-> k, new |-> n]
  BY DEF NewerAssertionWins
<1>1. faults = 0
  BY FaultsGrow
\* The pair was there before the step.
<1>2. ASSUME n \in DOMAIN table, k \in DOMAIN table, table[n].supersedes = k, ~table[k].deleted
      PROVE  \E s \in Slots : retiring'[s] = [old |-> k, new |-> n]
  <2>1. PICK s \in Slots : retiring[s] = [old |-> k, new |-> n]
    BY <1>1, <1>2 DEF NewerAssertionWins
  <2>2. retiring[s] # NoPair
    BY <2>1 DEF NoPair
  <2>3. ~Retire(s)
    BY <1>2, <2>1, RetireMarks
  <2>4. retiring[s].new \in DOMAIN table /\ ~(faults' > 0)
    BY <1>2, <2>1
  <2> QED BY <2>1, <2>2, <2>3, <2>4, HolderGoesOn
<1>3. CASE PlainStep
  BY <1>2, <1>3 DEF PlainStep, RowsKept
<1>4. ASSUME NEW s \in Slots, Retire(s) PROVE \E r \in Slots : retiring'[r] = [old |-> k, new |-> n]
  BY <1>2, <1>4, RetireMarks DEF RowsKept
<1>5. ASSUME NEW s \in Slots, NEW old, InsertsFor(s, old)
      PROVE  \E r \in Slots : retiring'[r] = [old |-> k, new |-> n]
  <2>1. CASE n = lastId + 1
    <3>1. old = k
      BY <1>5, <2>1, InsertAdds
    <3>2. retiring' = [retiring EXCEPT ![s] = [old |-> k, new |-> n]]
      BY <1>5, <2>1, <3>1 DEF InsertsFor, InsertItem
    <3> QED BY <3>2 DEF WriterInv, SlotTypes
  <2>2. CASE n # lastId + 1
    <3>1. n \in DOMAIN table /\ table[n].supersedes = k
      BY <1>5, <2>2, InsertAdds
    <3>2. k \in DOMAIN table
      BY <3>1 DEF WriterInv, ChainInv, ReplacesEarlierRow
    <3> QED BY <1>2, <1>5, <3>1, <3>2, InsertAdds
  <2> QED BY <2>1, <2>2
<1>6. ASSUME NEW s \in Slots, NEW b \in BOOLEAN, InsertCanonical(s, b)
      PROVE  \E r \in Slots : retiring'[r] = [old |-> k, new |-> n]
  <2>1. n \in DOMAIN table /\ table[n].supersedes = k
    BY <1>6, CanonAdds
  <2>2. k \in DOMAIN table
    BY <2>1 DEF WriterInv, ChainInv, ReplacesEarlierRow
  <2> QED BY <1>2, <1>6, <2>1, <2>2, CanonAdds
<1> QED BY <1>3, <1>4, <1>5, <1>6, StepKinds

\* Without a failed statement, the row a newer one contradicts is live only while
\* the call that inserted the newer one is about to retire it (NewerAssertionWins).
THEOREM NewerAssertionAlwaysWins == WriterSpec => []NewerAssertionWins
<1>1. WriterInit => NewerAssertionWins
  BY DEF WriterInit, TableInit, NewerAssertionWins
<1> QED
  BY <1>1, InitWriterInv, StepWriterInv, InitCallInv, StepCallInv, StepNewerWins, PTL DEF WriterSpec

-----------------------------------------------------------------------------
(* What a step makes of the rows, and of the facts a call has prepared.      *)

\* Rows keep whose they are and what they say, come back from nothing, and are added
\* with the next id.
LEMMA StepRowsKept ==
    ASSUME WriterInv, [WriterNext]_vars
    PROVE  /\ RowsKept
           /\ DOMAIN table' \subseteq DOMAIN table \cup {lastId + 1}
           /\ \A i \in DOMAIN table : Active(i)' => Active(i)
<1>1. ASSUME NEW s \in Slots, NEW old, InsertsFor(s, old)
      PROVE  RowsKept /\ DOMAIN table' \subseteq DOMAIN table \cup {lastId + 1}
  BY <1>1, InsertAdds DEF RowsKept
<1>2. ASSUME NEW s \in Slots, NEW b \in BOOLEAN, InsertCanonical(s, b)
      PROVE  RowsKept /\ DOMAIN table' \subseteq DOMAIN table \cup {lastId + 1}
  BY <1>2, CanonAdds DEF RowsKept
<1>3. RowsKept /\ DOMAIN table' \subseteq DOMAIN table \cup {lastId + 1}
  BY <1>1, <1>2, StepKinds, RetireMarks DEF PlainStep
<1>4. \A i \in DOMAIN table : Active(i)' => Active(i)
  BY <1>3 DEF RowsKept, Active, WriterInv, ChainInv, ReplacedIsHidden
<1> QED BY <1>3, <1>4

\* A row that was active is active after a step, or the step has deleted it.
LEMMA ActiveOrDeleted ==
    ASSUME WriterInv', NEW i, Active(i) PROVE Active(i)' \/ i \in Deleted
BY DEF Active, Deleted, Alive, WriterInv, ChainInv, ReplacedIsHidden

\* What a step makes of the facts of the slot that steps: they stay, the first is
\* applied, one more is prepared, or there are none.
LEMMA SlotSequences ==
    ASSUME WriterInv, NEW s \in Slots, SlotStep(s)
    PROVE  \/ items'[s] = items[s] /\ (items[s] # <<>> => user'[s] = user[s])
           \/ items[s] # <<>> /\ items'[s] = Tail(items[s]) /\ user'[s] = user[s]
           \/ \E m \in BOOLEAN : Prepare(s, m)
           \/ items'[s] = <<>>
<1>1. items \in [Slots -> Seq(Item)] /\ user \in [Slots -> Owners \cup {Nobody}]
  BY DEF WriterInv, SlotTypes
<1>2. CASE ApplyTight(s) \/ ApplyLoose(s)
  BY <1>1, <1>2 DEF ApplyTight, ApplyLoose, ReinforceOrDrop, InsertItem, NextItem
<1>3. CASE Classify(s) \/ Retire(s)
  BY <1>1, <1>3 DEF Classify, Retire
<1>4. CASE CountRows(s)
  BY <1>1, <1>4 DEF CountRows
<1>5. CASE Prune(s)
  BY <1>1, <1>5, NoItems DEF Prune
<1>6. CASE Refused(s) \/ InsertViolatesKey(s) \/ RetireViolatesKey(s)
  BY <1>1, <1>6 DEF Refused, InsertViolatesKey, RetireViolatesKey, Abandon
<1>7. CASE \E o \in Owners, facts \in Batches : Start(s, o, facts)
  BY <1>1, <1>7, NoItems DEF Start
<1>8. CASE MergeStep(s)
  BY <1>8, MergeMoves
<1> QED BY <1>2, <1>3, <1>4, <1>5, <1>6, <1>7, <1>8 DEF SlotStep, MergeStep, MergeReads

\* What Prepare appends.
LEMMA PreparedItem ==
    ASSUME WriterInv, NEW s \in Slots, NEW m \in BOOLEAN, Prepare(s, m)
    PROVE  /\ UNCHANGED <<table, lastId, share, user, pc>>
           /\ \E it \in Item :
                 /\ items'[s] = Append(items[s], it)
                 /\ it.acl = ResolveAcl(user[s], it.fact) /\ it.embedded = m
                 /\ m /\ it.tight = Null => TightMatches(user[s], it.fact) = {}
                 /\ it.tight # Null => it.tight \in TightMatches(user[s], it.fact)
                 /\ it.loose \subseteq LooseMatches(user[s], it.fact)
<1> DEFINE o == user[s]
           f == Head(todo[s])
           tights == IF m THEN TightMatches(o, f) ELSE {}
           loose == IF m /\ tights = {} THEN LooseMatches(o, f) ELSE {}
<1>0. PICK t \in IF tights = {} THEN {Null} ELSE tights :
         items' = [items EXCEPT ![s] = Append(@,
             [fact |-> f, acl |-> ResolveAcl(o, f), embedded |-> m, tight |-> t, loose |-> loose])]
  BY DEF Prepare
<1> DEFINE it == [fact |-> f, acl |-> ResolveAcl(o, f), embedded |-> m, tight |-> t, loose |-> loose]
<1>1. /\ items[s] \in Seq(Item) /\ items'[s] = Append(items[s], it) /\ items'[s] \in Seq(Item)
      /\ UNCHANGED <<table, lastId, share, user, pc>>
  <2>1. SlotTypes'
    BY PrepareKeepsSlot
  <2> QED BY <1>0, <2>1 DEF WriterInv, SlotTypes, Prepare
<1>2. Len(items'[s]) = Len(items[s]) + 1 /\ items'[s][Len(items[s]) + 1] = it
  BY <1>1
<1>3. it \in Item
  BY <1>1, <1>2
<1>4. \A i \in TightMatches(o, f) : i # Null
  BY DEF TightMatches, Searchable, ActiveOf, WriterInv, ChainInv, TableTypeOK, Null
<1> QED BY <1>0, <1>1, <1>3, <1>4

\* A prepared fact of a call was prepared before the step, or in it.
LEMMA ItemSource ==
    ASSUME WriterInv, [WriterNext]_vars, NEW s \in Slots, NEW k \in 1..Len(items'[s])
    PROVE  \/ /\ user'[s] = user[s]
              /\ \E j \in 1..Len(items[s]) : items'[s][k] = items[s][j]
           \/ /\ pc[s] = "prepare" /\ UNCHANGED <<table, lastId, share, user, pc>>
              /\ items'[s][k] \in Item
              /\ LET it == items'[s][k] IN
                 /\ it.acl = ResolveAcl(user[s], it.fact)
                 /\ it.embedded /\ it.tight = Null => TightMatches(user[s], it.fact) = {}
                 /\ it.tight # Null => it.tight \in TightMatches(user[s], it.fact)
                 /\ it.loose \subseteq LooseMatches(user[s], it.fact)
<1>1. items[s] \in Seq(Item) /\ Len(items[s]) \in Nat
  BY DEF WriterInv, SlotTypes
<1>2. CASE items'[s] = items[s] /\ user'[s] = user[s]
  BY <1>2
<1>3. CASE items[s] # <<>> /\ items'[s] = Tail(items[s]) /\ user'[s] = user[s]
  <2>1. k + 1 \in 1..Len(items[s]) /\ items'[s][k] = items[s][k + 1]
    BY <1>1, <1>3
  <2> QED BY <1>3, <2>1
<1>4. ASSUME NEW m \in BOOLEAN, Prepare(s, m)
      PROVE  \/ user'[s] = user[s] /\ \E j \in 1..Len(items[s]) : items'[s][k] = items[s][j]
             \/ /\ pc[s] = "prepare" /\ UNCHANGED <<table, lastId, share, user, pc>>
                /\ items'[s][k] \in Item
                /\ LET it == items'[s][k] IN
                   /\ it.acl = ResolveAcl(user[s], it.fact)
                   /\ it.embedded /\ it.tight = Null => TightMatches(user[s], it.fact) = {}
                   /\ it.tight # Null => it.tight \in TightMatches(user[s], it.fact)
                   /\ it.loose \subseteq LooseMatches(user[s], it.fact)
  <2>1. UNCHANGED <<table, lastId, share, user, pc>> /\ pc[s] = "prepare"
    BY <1>4, PreparedItem DEF Prepare
  <2>2. PICK it \in Item :
           /\ items'[s] = Append(items[s], it)
           /\ it.acl = ResolveAcl(user[s], it.fact) /\ it.embedded = m
           /\ m /\ it.tight = Null => TightMatches(user[s], it.fact) = {}
           /\ it.tight # Null => it.tight \in TightMatches(user[s], it.fact)
           /\ it.loose \subseteq LooseMatches(user[s], it.fact)
    BY <1>4, PreparedItem
  <2>3. CASE k \in 1..Len(items[s])
    BY <1>1, <2>1, <2>2, <2>3
  <2>4. CASE k = Len(items[s]) + 1
    <3>1. items'[s][k] = it
      BY <1>1, <2>2, <2>4
    <3> QED BY <2>1, <2>2, <3>1
  <2> QED BY <1>1, <2>2, <2>3, <2>4
<1>5. CASE items'[s] = <<>>
  BY <1>5
<1>6. ASSUME SlotStep(s)
      PROVE  \/ items'[s] = items[s] /\ user'[s] = user[s]
             \/ items[s] # <<>> /\ items'[s] = Tail(items[s]) /\ user'[s] = user[s]
             \/ \E m \in BOOLEAN : Prepare(s, m)
             \/ items'[s] = <<>>
  BY <1>6, SlotSequences
<1>7. ASSUME NEW r \in Slots \ {s}, SlotStep(r) PROVE items'[s] = items[s] /\ user'[s] = user[s]
  BY <1>7, SlotStepKeepsOthers
<1> QED BY <1>2, <1>3, <1>4, <1>5, <1>6, <1>7 DEF WriterNext, Edit, TimePasses, Quiet, OutOfRows, vars, slotVars

-----------------------------------------------------------------------------
(* What the histories say of a call.                                         *)

\* What is known of the writer holds of it beside the histories.
LEMMA HistoryKeepsCalls == HistorySpec => [](WriterInv /\ CallInv)
<1>1. HistoryInit => WriterInv /\ CallInv
  BY InitWriterInv, InitCallInv DEF HistoryInit
<1>2. [HistoryStep]_callVars => [WriterNext]_vars
  BY DEF HistoryStep, callVars
<1> QED BY <1>1, <1>2, StepWriterInv, StepCallInv, PTL DEF HistorySpec

\* A call began after the rows it could have seen, and only rows go that were there.
HistoryTypes ==
    /\ \A s \in Slots : began[s] \in 0..lastId
    /\ \A s \in Slots : gone[s] \subseteq 1..lastId

\* The histories keep their shape.
LEMMA StepHistoryTypes ==
    WriterInv /\ HistoryTypes /\ [HistoryStep]_callVars => HistoryTypes'
<1> SUFFICES ASSUME WriterInv, HistoryTypes, [HistoryStep]_callVars, NEW s \in Slots
             PROVE  began'[s] \in 0..lastId' /\ gone'[s] \subseteq 1..lastId'
  BY DEF HistoryTypes
<1>1. lastId \in Nat /\ lastId' \in Nat /\ DOMAIN table \subseteq 1..lastId
  <2>1. WriterInv'
    BY StepWriterInv DEF HistoryStep, callVars
  <2> QED BY <2>1, TableConstants DEF WriterInv, ChainInv, TableTypeOK
<1>2. lastId <= lastId'
  BY <1>1, StepIsStatement, KnownRowStays DEF HistoryStep, callVars, TableStep, WriterInv
<1>3. CASE HistoryStep
  <2>1. began'[s] \in {lastId, 0, began[s]}
    BY <1>3 DEF HistoryStep, Begun
  <2>2. gone'[s] \subseteq gone[s] \cup Deleted
    BY <1>3 DEF HistoryStep, GoneFrom
  <2>3. Deleted \subseteq 1..lastId
    BY <1>1 DEF Deleted, Alive
  <2>4. 1..lastId \subseteq 1..lastId' /\ 0..lastId \subseteq 0..lastId'
    BY <1>1, <1>2
  <2>5. began[s] \in 0..lastId /\ lastId \in 0..lastId /\ 0 \in 0..lastId /\ gone[s] \subseteq 1..lastId
    BY <1>1 DEF HistoryTypes
  <2> QED BY <2>1, <2>2, <2>3, <2>4, <2>5
<1>4. CASE UNCHANGED callVars
  BY <1>4 DEF callVars, vars, callHistory, HistoryTypes
<1> QED BY <1>3, <1>4

-----------------------------------------------------------------------------
(* Write-time dedup.  A fact that matched no row when it was searched matches *)
(* only rows written since, and those are younger than the call.             *)

IsNews(it, o, n) ==
    it.embedded /\ it.tight = Null =>
        \A j \in Searchable(o) : <<it.fact, table[j].fact>> \in SameClaim => j > n

NewsInv == \A s \in Slots : \A k \in 1..Len(items[s]) : IsNews(items[s][k], user[s], began[s])

\* What was news for an owner is news after any step.
LEMMA NewsStays ==
    ASSUME WriterInv, [WriterNext]_vars, NEW it, NEW o, NEW n \in 0..lastId, IsNews(it, o, n)
    PROVE  IsNews(it, o, n)'
<1> SUFFICES ASSUME it.embedded, it.tight = Null, NEW j \in Searchable(o)',
                    <<it.fact, table'[j].fact>> \in SameClaim
             PROVE  j > n
  BY DEF IsNews
<1>1. j \in DOMAIN table' /\ Active(j)' /\ table'[j].owner = o /\ table'[j].embedded
  BY DEF Searchable, ActiveOf
<1>2. CASE j \in DOMAIN table
  <2>1. j \in Searchable(o) /\ table'[j].fact = table[j].fact
    BY <1>1, <1>2, StepRowsKept DEF Searchable, ActiveOf, RowsKept
  <2> QED BY <2>1 DEF IsNews
<1>3. CASE j \notin DOMAIN table
  <2>1. j = lastId + 1 /\ lastId \in Nat
    BY <1>1, <1>3, StepRowsKept, TableConstants DEF WriterInv, ChainInv, TableTypeOK
  <2> QED BY <2>1
<1> QED BY <1>2, <1>3

\* Every step keeps what the prepared facts matched.
LEMMA StepNews ==
    WriterInv /\ HistoryTypes /\ NewsInv /\ [HistoryStep]_callVars => NewsInv'
<1> SUFFICES ASSUME WriterInv, HistoryTypes, NewsInv, HistoryStep, NEW s \in Slots,
                    NEW k \in 1..Len(items'[s])
             PROVE  IsNews(items[s][k], user[s], began[s])'
  <2>1. ASSUME NewsInv, UNCHANGED callVars PROVE NewsInv'
    BY <2>1 DEF NewsInv, callVars, vars, callHistory, slotVars, IsNews, Searchable, ActiveOf, Active
  <2> QED BY <2>1 DEF NewsInv
<1> DEFINE it == items'[s][k]
<1>1. [WriterNext]_vars
  BY DEF HistoryStep
<1>2. WriterInv'
  BY <1>1, StepWriterInv
<1>3. pc'[s] \in {"prepare", "apply", "retire"} /\ items'[s] # <<>>
  <2>1. items'[s] \in Seq(Item)
    BY <1>2 DEF WriterInv, SlotTypes
  <2> QED BY <1>2, <2>1 DEF WriterInv, ItemsKnown
<1>4. pc[s] # "idle"
  <2>1. Len(items[s]) = 0 \/ pc[s] # "idle"
    BY NoItems
  <2> QED BY <1>1, <2>1, ItemSource
<1>5. began'[s] = began[s] /\ began[s] \in 0..lastId
  BY <1>3, <1>4 DEF HistoryStep, Begun, HistoryTypes
<1>6. ASSUME NEW j \in 1..Len(items[s]), it = items[s][j], user'[s] = user[s]
      PROVE  IsNews(items[s][k], user[s], began[s])'
  <2>1. PICK x, o, n : x = items[s][j] /\ o = user[s] /\ n = began[s]
    OBVIOUS
  <2>2. IsNews(x, o, n)
    BY <2>1 DEF NewsInv
  <2>3. IsNews(x, o, n)'
    BY <1>1, <1>5, <2>1, <2>2, NewsStays
  <2>4. x = items'[s][k] /\ o = user'[s] /\ n = began'[s]
    BY <1>5, <1>6, <2>1
  <2> QED BY <2>3, <2>4 DEF IsNews, Searchable, ActiveOf, Active
<1>7. ASSUME it.embedded /\ it.tight = Null => TightMatches(user[s], it.fact) = {}, UNCHANGED <<table, user>>
      PROVE  IsNews(items[s][k], user[s], began[s])'
  <2>1. Searchable(user[s])' = Searchable(user[s])
    BY <1>7 DEF Searchable, ActiveOf, Active
  <2>2. ASSUME it.embedded, it.tight = Null, NEW j \in Searchable(user[s])
        PROVE  <<it.fact, table[j].fact>> \notin SameClaim
    BY <1>7, <2>2 DEF TightMatches
  <2> QED BY <1>7, <2>1, <2>2 DEF IsNews
<1> QED BY <1>1, <1>6, <1>7, ItemSource

\* The slot whose first fact is taken away has stepped.
LEMMA AppliesSteps ==
    ASSUME WriterInv, [WriterNext]_vars, NEW s \in Slots, Applies(s)
    PROVE  ApplyTight(s) \/ ApplyLoose(s)
<1>1. items[s] \in Seq(Item) /\ items[s] # <<>> /\ items'[s] = Tail(items[s]) /\ pc[s] = "apply"
      /\ pc'[s] # "idle"
  BY DEF Applies, WriterInv, SlotTypes
<1>2. items'[s] # items[s]
  <2>1. Len(items'[s]) = Len(items[s]) - 1 /\ Len(items[s]) \in Nat
    BY <1>1
  <2> QED BY <2>1
<1>3. PICK r \in Slots : SlotStep(r)
  BY <1>2 DEF WriterNext, Edit, TimePasses, Quiet, OutOfRows, vars, slotVars
<1>4. r = s
  BY <1>2, <1>3, SlotStepKeepsOthers
<1>5. ~MergeStep(s)
  BY <1>2, MergeMoves
<1>6. ~(Refused(s) \/ InsertViolatesKey(s) \/ RetireViolatesKey(s))
  BY <1>1 DEF Refused, InsertViolatesKey, RetireViolatesKey, Abandon, Return, Goto, WriterInv, SlotTypes
<1> QED BY <1>1, <1>2, <1>3, <1>4, <1>5, <1>6
        DEF SlotStep, MergeStep, MergeReads, Start, Prepare, Classify, Retire, CountRows, Prune

\* Of a step that applies a fact: the row it writes, if any, is that fact.
LEMMA AppliedIsNews ==
    ASSUME WriterInv, NewsInv, HistoryTypes, [HistoryStep]_callVars, NEW s \in Slots, Applies(s),
           Head(items[s]).embedded, NEW n \in DOMAIN table' \ DOMAIN table,
           NEW j \in Searchable(user[s]), <<table'[n].fact, table[j].fact>> \in SameClaim
    PROVE  j > began[s]
<1>1. [WriterNext]_vars
  BY DEF HistoryStep, callVars
<1>2. ApplyTight(s) \/ ApplyLoose(s)
  BY <1>1, AppliesSteps
<1>3. ASSUME NEW i, ReinforceOrDrop(s, i) PROVE FALSE
  BY <1>3 DEF ReinforceOrDrop, Reinforce
<1>4. PICK old \in Head(items[s]).loose \cup {Null} : InsertItem(s, Head(items[s]), old)
  BY <1>2, <1>3 DEF ApplyTight, ApplyLoose, Judged
<1>5. Head(items[s]).tight = Null /\ pc[s] = "apply" /\ items[s] # <<>>
  BY <1>2, <1>3 DEF ApplyTight, ApplyLoose
<1>6. InsertsFor(s, old)
  BY <1>4, <1>5 DEF InsertsFor
<1>7. n = lastId + 1 /\ table'[n].fact = Head(items[s]).fact
  BY <1>6, InsertAdds
<1>8. items[s] \in Seq(Item)
  BY DEF WriterInv, SlotTypes
<1>9. 1 \in 1..Len(items[s]) /\ Head(items[s]) = items[s][1]
  BY <1>5, <1>8
<1> QED BY <1>5, <1>7, <1>9 DEF NewsInv, IsNews

\* A fact that becomes a row repeats no active row its owner had before the call
\* began (DuplicatesNeedOverlap), with any number of slots, batches, failed embeddings
\* and edits: near-duplicates are written only by overlapping calls, by one batch, or
\* without an embedding.
THEOREM OldClaimsAreNotRepeated == HistorySpec => DuplicatesNeedOverlap
<1>1. HistoryInit => HistoryTypes /\ NewsInv
  BY DEF HistoryInit, WriterInit, TableInit, HistoryTypes, NewsInv
<1>2. WriterInv /\ NewsInv /\ HistoryTypes /\ [HistoryStep]_callVars =>
        [\A s \in Slots : Applies(s) /\ Head(items[s]).embedded =>
            \A n \in DOMAIN table' \ DOMAIN table, j \in Searchable(user[s]) :
                <<table'[n].fact, table[j].fact>> \in SameClaim => j > began[s]]_callVars
  BY AppliedIsNews
<1> QED
  BY <1>1, <1>2, StepHistoryTypes, StepNews, HistoryKeepsCalls, PTL DEF HistorySpec, DuplicatesNeedOverlap

-----------------------------------------------------------------------------
(* No fact is dropped but with a row it waited for: such a row is active, or *)
(* it is known to have gone.                                                 *)

ItemHeld(it, s) == \A i \in {it.tight} \cup it.loose : i # Null => Active(i) \/ i \in gone[s]

HeldInv == \A s \in Slots : \A k \in 1..Len(items[s]) : ItemHeld(items[s][k], s)

\* Every step keeps track of the rows the prepared facts wait for.
LEMMA StepHeld == WriterInv /\ HeldInv /\ [HistoryStep]_callVars => HeldInv'
<1> SUFFICES ASSUME WriterInv, HeldInv, HistoryStep, NEW s \in Slots, NEW k \in 1..Len(items'[s]),
                    NEW i \in {items'[s][k].tight} \cup items'[s][k].loose, i # Null
             PROVE  Active(i)' \/ i \in gone'[s]
  BY DEF HeldInv, ItemHeld, callVars, vars, callHistory, slotVars, Active
<1>1. [WriterNext]_vars
  BY DEF HistoryStep
<1>2. WriterInv'
  BY <1>1, StepWriterInv
<1>3. pc'[s] \in {"prepare", "apply", "retire"} /\ items'[s] \in Seq(Item)
  BY <1>2 DEF WriterInv, ItemsKnown, SlotTypes
<1>4. pc[s] \in {"prepare", "apply", "retire"}
  <2>1. Len(items[s]) = 0 \/ pc[s] \in {"prepare", "apply", "retire"}
    BY NoItems
  <2> QED BY <1>1, <2>1, ItemSource
<1>5. i \in Held(s)'
  <2>1. k \in DOMAIN items'[s]
    BY <1>3
  <2> QED BY <2>1 DEF Held
<1>6. gone'[s] = (gone[s] \cup Deleted) \cap Held(s)'
  BY <1>3, <1>4 DEF HistoryStep, GoneFrom, Applying
<1>7. ASSUME NEW j \in 1..Len(items[s]), items'[s][k] = items[s][j] PROVE Active(i)' \/ i \in gone'[s]
  <2>1. Active(i) \/ i \in gone[s]
    BY <1>7 DEF HeldInv, ItemHeld
  <2> QED BY <1>2, <1>5, <1>6, <2>1, ActiveOrDeleted
<1>8. ASSUME UNCHANGED table, i \in TightMatches(user[s], items'[s][k].fact) \/ i \in LooseMatches(user[s], items'[s][k].fact)
      PROVE  Active(i)'
  BY <1>8 DEF TightMatches, LooseMatches, Searchable, ActiveOf, Active
<1> QED BY <1>1, <1>7, <1>8, ItemSource

\* A fact that changes nothing waited for a row that has gone.
LEMMA DroppedWithItsRow ==
    ASSUME WriterInv, HeldInv, [HistoryStep]_callVars, NEW s \in Slots, Applies(s), table' = table
    PROVE  ({Head(items[s]).tight} \cup Head(items[s]).loose) \cap gone[s] # {}
<1> DEFINE it == Head(items[s])
<1>1. [WriterNext]_vars
  BY DEF HistoryStep, callVars
<1>2. ApplyTight(s) \/ ApplyLoose(s)
  BY <1>1, AppliesSteps
<1>3. items[s] # <<>> /\ pc[s] = "apply" /\ items[s] \in Seq(Item)
  BY <1>2 DEF ApplyTight, ApplyLoose, WriterInv, SlotTypes
<1>4. \A old : ~InsertsFor(s, old)
  BY InsertAdds
<1>5. PICK i \in {it.tight} \cup it.loose : ReinforceOrDrop(s, i) /\ i # Null
  <2>1. CASE ApplyTight(s)
    BY <2>1 DEF ApplyTight
  <2>2. CASE ApplyLoose(s)
    <3>1. PICK said \in [it.loose -> Verdicts] :
             IF Judged(said, "paraphrase") # {}
             THEN \E i \in Judged(said, "paraphrase") : ReinforceOrDrop(s, i)
             ELSE \E old \in IF Judged(said, "contradiction") = {}
                             THEN {Null} ELSE Judged(said, "contradiction") :
                     InsertItem(s, it, old)
      BY <2>2 DEF ApplyLoose
    <3>2. Judged(said, "contradiction") \subseteq it.loose /\ Judged(said, "paraphrase") \subseteq it.loose
      BY DEF Judged
    <3>3. it.tight = Null
      BY <2>2 DEF ApplyLoose
    <3>4. PICK i \in it.loose : ReinforceOrDrop(s, i)
      BY <1>3, <1>4, <3>1, <3>2, <3>3 DEF InsertsFor
    <3>5. i # Null
      BY <1>3, HeadItem DEF KnownRow, Null
    <3> QED BY <3>4, <3>5
  <2> QED BY <1>2, <2>1, <2>2
<1>6. ~Reinforce(i, user[s])
  <2>1. ASSUME i \in DOMAIN table PROVE table[i] \in Row /\ table \in [DOMAIN table -> Row]
    BY <2>1 DEF WriterInv, ChainInv, TableTypeOK
  <2>2. ASSUME Reinforce(i, user[s]) PROVE table'[i].evidence = table[i].evidence + 1 /\ table[i].evidence \in Nat
    BY <2>1, <2>2 DEF Reinforce, ActiveOf, Row
  <2> QED BY <2>2
<1>7. ~Active(i)
  BY <1>5, <1>6 DEF ReinforceOrDrop
<1>8. 1 \in 1..Len(items[s]) /\ it = items[s][1]
  BY <1>3
<1>9. i \in gone[s]
  BY <1>5, <1>7, <1>8 DEF HeldInv, ItemHeld
<1> QED BY <1>5, <1>9

\* No fact is dropped unless a row it waits for was deleted after it was prepared
\* (FactDroppedOnlyWithItsRow), whatever overlaps and whoever deletes.
THEOREM FactsGoOnlyWithRows == HistorySpec => FactDroppedOnlyWithItsRow
<1>1. HistoryInit => HeldInv
  BY DEF HistoryInit, WriterInit, HeldInv
<1>2. WriterInv /\ HeldInv /\ [HistoryStep]_callVars =>
        [\A s \in Slots : Applies(s) /\ table' = table =>
            LET it == Head(items[s]) IN ({it.tight} \cup it.loose) \cap gone[s] # {}]_callVars
  BY DroppedWithItsRow
<1> QED BY <1>1, <1>2, StepHeld, HistoryKeepsCalls, PTL DEF HistorySpec, FactDroppedOnlyWithItsRow

-----------------------------------------------------------------------------
(* The cap.  Between the count of a prune and its delete, a row of the owner *)
(* stays or is known to have gone.                                           *)

CapInv ==
    \A s \in Slots : pc[s] = "prune" => Cardinality(Kept(user[s]) \cup gone[s]) >= Cap + overflow[s]

\* The rows an owner has kept are finitely many, and so are those that have gone.
LEMMA KeptFinite ==
    ASSUME ChainInv, NEW o, NEW G \in SUBSET (1..lastId)
    PROVE  IsFiniteSet(Kept(o) \cup G) /\ Cardinality(Kept(o) \cup G) \in Nat
<1>1. lastId \in Nat /\ (Kept(o) \cup G) \subseteq 1..lastId
  BY TableConstants DEF ChainInv, TableTypeOK, Kept, RowsOf
<1> HIDE DEF Kept
<1> QED BY <1>1, FiniteRows

\* A slot that is at its prune was there before the step, or has just counted.
LEMMA PruneSource ==
    ASSUME WriterInv, CallInv, [WriterNext]_vars, NEW s \in Slots, pc'[s] = "prune"
    PROVE  \/ CountRows(s) /\ pc[s] # "prune"
           \/ pc[s] = "prune" /\ user'[s] = user[s] /\ overflow'[s] = overflow[s]
<1>1. ASSUME SlotStep(s) PROVE CountRows(s) /\ pc[s] # "prune"
  <2>1. ~MergeStep(s)
    BY MergeMoves DEF Goto, WriterInv, SlotTypes
  <2>2. ~(ApplyTight(s) \/ ApplyLoose(s))
    BY DEF ApplyTight, ApplyLoose, ReinforceOrDrop, InsertItem, Goto, WriterInv, SlotTypes
  <2>3. ~((\E o \in Owners, facts \in Batches : Start(s, o, facts)) \/ (\E m \in BOOLEAN : Prepare(s, m)))
    BY DEF Start, Prepare, Goto, WriterInv, SlotTypes
  <2>4. ~(Classify(s) \/ Retire(s) \/ Prune(s))
    BY DEF Classify, Retire, Prune, Return, Goto, WriterInv, SlotTypes
  <2>5. ~(Refused(s) \/ InsertViolatesKey(s) \/ RetireViolatesKey(s))
    BY DEF Refused, InsertViolatesKey, RetireViolatesKey, Abandon, Return, Goto, WriterInv, SlotTypes
  <2>6. CountRows(s)
    BY <1>1, <2>1, <2>2, <2>3, <2>4, <2>5 DEF SlotStep, MergeStep, MergeReads
  <2> QED BY <2>6 DEF CountRows
<1>2. ASSUME NEW r \in Slots \ {s}, SlotStep(r)
      PROVE  pc[s] = "prune" /\ user'[s] = user[s] /\ overflow'[s] = overflow[s]
  BY <1>2, SlotStepKeepsOthers, SlotCounts
<1> QED BY <1>1, <1>2 DEF WriterNext, Edit, TimePasses, Quiet, OutOfRows, vars, slotVars

\* Every step keeps track of the rows a prune has counted.
LEMMA StepCap ==
    WriterInv /\ CallInv /\ HistoryTypes /\ CapInv /\ [HistoryStep]_callVars => CapInv'
<1> SUFFICES ASSUME WriterInv, CallInv, HistoryTypes, CapInv, HistoryStep, NEW s \in Slots, pc'[s] = "prune"
             PROVE  Cardinality(Kept(user[s]) \cup gone[s])' >= Cap + overflow'[s]
  <2>1. ASSUME CapInv, UNCHANGED callVars PROVE CapInv'
    BY <2>1 DEF CapInv, callVars, vars, callHistory, slotVars, Kept, RowsOf
  <2> QED BY <2>1 DEF CapInv
<1>0. [WriterNext]_vars /\ [HistoryStep]_callVars
  BY DEF HistoryStep
<1>1. ChainInv /\ ChainInv' /\ HistoryTypes' /\ Cap \in Nat /\ overflow[s] \in Nat
  BY <1>0, StepWriterInv, StepHistoryTypes, WriterConstants DEF WriterInv, CallInv
<1>2. CASE CountRows(s) /\ pc[s] # "prune"
  <2>1. Over(user[s]) > 0 /\ overflow'[s] = Over(user[s]) /\ UNCHANGED <<table, user>>
    BY <1>2 DEF CountRows, Return, Goto, CallInv, WriterInv, SlotTypes
  <2>2. gone'[s] = {}
    BY <1>2 DEF HistoryStep, GoneFrom, Applying
  <2>3. Kept(user[s])' = Kept(user[s])
    BY <2>1 DEF Kept, RowsOf
  <2> HIDE DEF Kept
  <2>4. (Kept(user[s]) \cup gone[s])' = Kept(user[s])
    BY <2>2, <2>3
  <2>5. Cardinality(Kept(user[s])) \in Nat
    <3>1. Cardinality(Kept(user[s]) \cup {}) \in Nat
      BY <1>1, KeptFinite
    <3> QED BY <3>1
  <2>6. Over(user[s]) = Cardinality(Kept(user[s])) - Cap
    BY <1>1, <2>1, <2>5 DEF Over
  <2> QED BY <1>1, <2>1, <2>4, <2>5, <2>6
<1>3. CASE pc[s] = "prune" /\ user'[s] = user[s] /\ overflow'[s] = overflow[s]
  <2>1. PICK o : o = user[s]
    OBVIOUS
  <2>2. gone'[s] = gone[s] \cup (Deleted \cap RowsOf(o))
    BY <1>3, <2>1 DEF HistoryStep, GoneFrom, Applying
  <2>3. ASSUME NEW i \in Kept(o) PROVE i \in Kept(o)' \/ i \in Deleted \cap RowsOf(o)
    <3>1. i \in Alive /\ i \in RowsOf(o) /\ i \in DOMAIN table
      BY DEF Kept, RowsOf, Alive
    <3>2. i \in Alive' => i \in Kept(o)'
      BY <1>0, <3>1, StepRowsKept DEF Alive, Kept, RowsOf, RowsKept
    <3> QED BY <3>1, <3>2 DEF Deleted
  <2>4. (Kept(o) \cup gone[s]) \subseteq (Kept(o)' \cup gone'[s])
    BY <2>2, <2>3
  <2>5. (Kept(user[s]) \cup gone[s])' = Kept(o)' \cup gone'[s]
    BY <1>3, <2>1 DEF Kept, RowsOf
  <2>6. PICK A : A = Kept(o) \cup gone[s]
    OBVIOUS
  <2>7. PICK B : B = Kept(o)' \cup gone'[s]
    OBVIOUS
  <2>8. IsFiniteSet(B) /\ Cardinality(B) \in Nat
    <3>1. lastId' \in Nat /\ B \subseteq 1..lastId'
      BY <1>1, <2>7, TableConstants DEF ChainInv, TableTypeOK, Kept, RowsOf, HistoryTypes
    <3> QED BY <3>1, FiniteRows
  <2>9. A \subseteq B
    BY <2>4, <2>6, <2>7
  <2>10. Cardinality(A) <= Cardinality(B) /\ Cardinality(A) \in Nat
    BY <2>8, <2>9, FS_Subset, FS_CardinalityType
  <2>11. Cardinality(A) >= Cap + overflow[s]
    BY <1>3, <2>1, <2>6 DEF CapInv
  <2>12. Cardinality(B) >= Cap + overflow[s]
    BY <1>1, <2>8, <2>10, <2>11
  <2>13. Cardinality(Kept(user[s]) \cup gone[s])' = Cardinality(B)
    BY <2>5, <2>7
  <2> QED BY <1>3, <2>12, <2>13
<1> QED BY <1>0, <1>2, <1>3, PruneSource

\* A slot whose prune ends has deleted the rows it chose, if nothing failed.
LEMMA PruneEnds ==
    ASSUME WriterInv, CallInv, [WriterNext]_vars, NEW s \in Slots, pc[s] = "prune", pc'[s] = "idle"
    PROVE  Prune(s) \/ (faults' # faults /\ UNCHANGED table)
<1>1. PICK r \in Slots : SlotStep(r)
  BY DEF WriterNext, Edit, TimePasses, Quiet, OutOfRows, vars, slotVars
<1>2. r = s
  BY <1>1, SlotStepKeepsOthers
<1>3. ~MergeStep(s)
  BY MergeMoves
<1>4. Prune(s) \/ Refused(s)
  BY <1>1, <1>2, <1>3
  DEF SlotStep, MergeStep, MergeReads, Start, Prepare, Classify, ApplyTight, ApplyLoose, Retire, CountRows,
      InsertViolatesKey, RetireViolatesKey
<1>5. faults \in Nat
  BY WriterConstants DEF CallInv
<1> QED BY <1>4, <1>5 DEF Refused, Abandon

\* What is left of an owner's rows after a prune.
LEMMA PruneLeaves ==
    ASSUME WriterInv, CallInv, HistoryTypes, CapInv, [HistoryStep]_callVars, NEW s \in Slots,
           pc[s] = "prune", pc'[s] = "idle", faults' = faults
    PROVE  Cardinality(Kept(user[s]) \cap Alive') + Cardinality(gone[s]) >= Cap
<1>1. Prune(s)
  BY PruneEnds DEF HistoryStep, callVars
<1>2. PICK S \in LeastSeen(Normal(user[s]), overflow[s]) : SoftDelete(S)
  BY <1>1 DEF Prune
<1>3. PICK K, G, A : K = Kept(user[s]) /\ G = gone[s] /\ A = K \cap Alive'
  OBVIOUS
<1>4. S \subseteq K
  BY <1>2, <1>3 DEF LeastSeen, Normal
<1>5. A = K \ S
  <2>1. \A i \in DOMAIN table : table[i] \in Row
    BY DEF WriterInv, ChainInv, TableTypeOK
  <2> QED BY <1>2, <1>3, <2>1 DEF SoftDelete, Kept, RowsOf, Alive, Row
<1>6. /\ IsFiniteSet(K) /\ IsFiniteSet(G) /\ IsFiniteSet(S) /\ IsFiniteSet(A)
      /\ Cardinality(K) \in Nat /\ Cardinality(G) \in Nat /\ Cardinality(S) \in Nat /\ Cardinality(A) \in Nat
  <2>1. lastId \in Nat /\ K \subseteq 1..lastId /\ G \subseteq 1..lastId
    BY <1>3, TableConstants DEF WriterInv, ChainInv, TableTypeOK, Kept, RowsOf, HistoryTypes
  <2>2. S \subseteq 1..lastId /\ A \subseteq 1..lastId
    BY <1>4, <1>5, <2>1
  <2> QED BY <2>1, <2>2, FiniteRows
<1>7. Cardinality(K \cup G) >= Cap + overflow[s] /\ overflow[s] \in Nat /\ Cap \in Nat
  BY <1>3, WriterConstants DEF CapInv, CallInv
<1>8. Cardinality(S) <= overflow[s]
  <2>1. Cardinality(S) = overflow[s] \/ Cardinality(S) < overflow[s]
    BY <1>2 DEF LeastSeen
  <2> QED BY <1>6, <1>7, <2>1
<1>9. Cardinality(A) = Cardinality(K) - Cardinality(S)
  <2>1. K \cap S = S
    BY <1>4
  <2> QED BY <1>5, <1>6, <2>1, FS_Difference
<1>10. Cardinality(K \cup G) <= Cardinality(K) + Cardinality(G) /\ Cardinality(K \cup G) \in Nat
  <2>1. /\ Cardinality(K \cup G) = Cardinality(K) + Cardinality(G) - Cardinality(K \cap G)
        /\ IsFiniteSet(K \cup G)
    BY <1>6, FS_Union
  <2>2. Cardinality(K \cap G) \in Nat
    BY <1>6, FS_Intersection, FS_CardinalityType
  <2>3. Cardinality(K \cup G) \in Nat
    BY <2>1, FS_CardinalityType
  <2>4. \A u, k, g, c \in Nat : u = k + g - c => u <= k + g
    OBVIOUS
  <2> QED BY <1>6, <2>1, <2>2, <2>3, <2>4
<1>11. Cardinality(A) + Cardinality(G) >= Cap
  BY <1>6, <1>7, <1>8, <1>9, <1>10
<1> QED BY <1>3, <1>11

\* A prune takes its owner below the cap by no more rows than others have deleted since
\* it counted (PruneStopsAtCap), however many prunes of one owner overlap.
THEOREM CapIsKept == HistorySpec => PruneStopsAtCap
<1>1. HistoryInit => HistoryTypes /\ CapInv
  BY DEF HistoryInit, WriterInit, TableInit, HistoryTypes, CapInv
<1>2. WriterInv /\ CallInv /\ HistoryTypes /\ CapInv /\ [HistoryStep]_callVars =>
        [\A s \in Slots : pc[s] = "prune" /\ pc'[s] = "idle" /\ faults' = faults =>
            Cardinality(Kept(user[s]) \cap Alive') + Cardinality(gone[s]) >= Cap]_callVars
  BY PruneLeaves
<1> QED
  BY <1>1, <1>2, StepHistoryTypes, StepCap, HistoryKeepsCalls, PTL DEF HistorySpec, PruneStopsAtCap

-----------------------------------------------------------------------------
(* What leaves a user's hands.  A row of acl team was cleared, a fact that   *)
(* is about to become one is of a call during which its owner shared, and a  *)
(* group that is about to become one was cleared when it was read.           *)

\* A turn reads the table and writes last_seen_at.
TurnStep == UNCHANGED <<table, lastId, share, slotVars, runs, faults, callHistory, clearVars>>

\* A step is the writer's or the bots'.
LEMMA RetrievalStepKinds == ASSUME [RetrievalNext]_allVars PROVE WriterStep \/ TurnStep
BY DEF RetrievalNext, allVars, callVars, vars, turnVars, Inject, Refresh, RefreshLost, TurnStep

\* What is known of the writer holds of it beside the bots' turns.
LEMMA RetrievalKeepsCalls == RetrievalSpec => [](WriterInv /\ CallInv)
<1>1. RetrievalInit => WriterInv /\ CallInv
  BY InitWriterInv, InitCallInv DEF RetrievalInit, HistoryInit
<1>2. WriterInv /\ CallInv /\ [RetrievalNext]_allVars => (WriterInv /\ CallInv)'
  <2> SUFFICES ASSUME WriterInv, CallInv, [RetrievalNext]_allVars PROVE WriterInv' /\ CallInv'
    OBVIOUS
  <2>1. CASE WriterStep
    BY <2>1, StepWriterInv, StepCallInv DEF WriterStep, HistoryStep
  <2>2. CASE TurnStep
    <3>1. UNCHANGED tableVars
      BY <2>2 DEF TurnStep, tableVars
    <3>2. UNCHANGED <<pc, user, todo, items, retiring, candidates, merge, overflow, share, runs, faults>>
      BY <2>2 DEF TurnStep, slotVars, mergeVars
    <3>3. ChainInv' /\ TableStep
      BY <3>1, StepChains DEF WriterInv, TableStep
    <3>4. SlotTypes'
      BY <3>2 DEF WriterInv, SlotTypes
    <3>5. \A s \in Slots : SlotInv(s)' /\ MergeHeld(s)'
      BY <3>2, <3>3, OtherSlotKept
    <3>6. WriterInv'
      BY <3>3, <3>4, <3>5 DEF WriterInv, BusyHasUser, ItemsKnown, RetiringKnown, MergingKnown, SlotInv
    <3>7. CallInv'
      BY <3>2 DEF CallInv, SlotHolds
    <3> QED BY <3>6, <3>7
  <2> QED BY <2>1, <2>2, RetrievalStepKinds
<1> QED BY <1>1, <1>2, PTL DEF RetrievalSpec

ClearedInv ==
    /\ \A i \in DOMAIN table : table[i].acl = "team" => i \in cleared
    /\ \A s \in Slots : \A k \in 1..Len(items[s]) : items[s][k].acl = "team" => sharing[s]
    /\ \A s \in Slots : pc[s] = "canon" /\ merge[s].acl = "team" => vouched[s]

\* What a call has prepared came from a time its owner shared.
LEMMA StepItemsShared ==
    ASSUME WriterInv, CallInv, ClearedInv, WriterStep, NEW s \in Slots,
           NEW k \in 1..Len(items'[s]), items'[s][k].acl = "team"
    PROVE  sharing'[s]
<1>1. [WriterNext]_vars
  BY DEF WriterStep, HistoryStep
<1>2. WriterInv' /\ CallInv'
  BY <1>1, StepWriterInv, StepCallInv
<1>3. user'[s] # Nobody
  <2>1. items'[s] \in Seq(Item)
    BY <1>2 DEF WriterInv, SlotTypes
  <2>2. items'[s] # <<>>
    BY <2>1
  <2> QED BY <1>2, <2>2 DEF CallInv, SlotHolds
<1>4. sharing'[s] = (sharing[s] \/ share'[user'[s]])
  BY <1>3 DEF WriterStep
<1>5. ASSUME NEW j \in 1..Len(items[s]), items'[s][k] = items[s][j] PROVE sharing'[s]
  BY <1>4, <1>5 DEF ClearedInv
<1>6. ASSUME UNCHANGED <<share, user>>, items'[s][k].acl = ResolveAcl(user[s], items'[s][k].fact)
      PROVE  sharing'[s]
  BY <1>4, <1>6 DEF ResolveAcl
<1> QED BY <1>1, <1>5, <1>6, ItemSource

\* A group is read while its rows are there.
LEMMA StepGroupVouched ==
    ASSUME WriterInv, CallInv, ClearedInv, WriterStep, NEW s \in Slots,
           pc'[s] = "canon", merge'[s].acl = "team"
    PROVE  vouched'[s]
<1>1. [WriterNext]_vars /\ vouched'[s] = Vouches(s)
  BY DEF WriterStep, HistoryStep
<1>2. CASE pc[s] = "canon" /\ merge'[s] = merge[s]
  BY <1>1, <1>2 DEF ClearedInv, Vouches
<1>3. ASSUME NEW S \in Groups(s), NEW f \in Facts, ReadGroup(s, S, f) PROVE vouched'[s]
  <2>1. merge'[s].ids = S /\ merge'[s].acl = CanonicalAcl(S, user[s], f)
    BY <1>3, GroupRead
  <2>2. \A i \in MergedRows(S, user[s]) : i \in DOMAIN table /\ table[i].acl # "private"
    BY <2>1 DEF CanonicalAcl, MergedRows, RowsOf
  <2>3. \A i \in DOMAIN table : table[i].acl \in {"private", "team"}
    BY TableConstants DEF WriterInv, ChainInv, TableTypeOK, Row
  <2>4. MergedRows(S, user[s]) \subseteq cleared
    BY <2>2, <2>3 DEF ClearedInv
  <2>5. pc[s] = "merge"
    BY <1>3 DEF ReadGroup
  <2> QED BY <1>1, <2>1, <2>4, <2>5 DEF Vouches
<1>4. ASSUME SlotStep(s) PROVE \E S \in Groups(s), f \in Facts : ReadGroup(s, S, f)
  <2> USE DEF WriterInv, SlotTypes, Goto, Return
  <2>1. ~(ApplyTight(s) \/ ApplyLoose(s))
    BY DEF ApplyTight, ApplyLoose, ReinforceOrDrop, InsertItem
  <2>2. ~((\E o \in Owners, facts \in Batches : Start(s, o, facts)) \/ (\E m \in BOOLEAN : Prepare(s, m)))
    BY DEF Start, Prepare
  <2>3. ~(Classify(s) \/ Retire(s) \/ CountRows(s) \/ Prune(s))
    BY DEF Classify, Retire, CountRows, Prune
  <2>4. ~(Refused(s) \/ InsertViolatesKey(s) \/ RetireViolatesKey(s))
    BY DEF Refused, InsertViolatesKey, RetireViolatesKey, Abandon
  <2>5. ~(Consolidate(s) \/ (\E b \in BOOLEAN : InsertCanonical(s, b)) \/ ReplaceGroup(s))
    BY DEF Consolidate, InsertCanonical, ReplaceGroup
  <2>6. ~(MergeRefused(s) \/ ReplaceViolatesKey(s))
    BY DEF MergeRefused, ReplaceViolatesKey, MergingFails
  <2> QED BY <1>4, <2>1, <2>2, <2>3, <2>4, <2>5, <2>6 DEF SlotStep
<1>5. ASSUME NEW r \in Slots \ {s}, SlotStep(r) PROVE pc[s] = "canon" /\ merge'[s] = merge[s]
  BY <1>5, SlotStepKeepsOthers
<1> QED
  BY <1>1, <1>2, <1>3, <1>4, <1>5
  DEF WriterNext, Edit, TimePasses, Quiet, OutOfRows, vars, slotVars, mergeVars

\* A row is written by a call whose owner has shared or whose group was cleared, or it
\* was there before.
LEMMA StepRowsCleared ==
    ASSUME WriterInv, ClearedInv, WriterStep, NEW i \in DOMAIN table', table'[i].acl = "team"
    PROVE  i \in cleared'
<1>1. [WriterNext]_vars
  BY DEF WriterStep, HistoryStep
<1>2. SUFFICES i \in cleared \cup SetByHand \cup ClearedBySlot
  BY DEF WriterStep
<1>3. CASE i \in DOMAIN table
  BY <1>3 DEF ClearedInv, SetByHand
<1>4. ASSUME NEW s \in Slots, NEW old, InsertsFor(s, old), i \notin DOMAIN table
      PROVE  i \in ClearedBySlot
  <2>1. i = lastId + 1 /\ i \in Written /\ table'[i].owner = user[s]
    BY <1>4, InsertAdds DEF Written
  <2>2. table'[i].acl = Head(items[s]).acl
    BY <1>4, <2>1 DEF InsertsFor, InsertItem, InsertRow, NewRow
  <2>3. items[s] \in Seq(Item) /\ items[s] # <<>> /\ pc[s] = "apply" /\ items'[s] = Tail(items[s])
    BY <1>4, InsertAdds DEF WriterInv, SlotTypes, InsertsFor
  <2>4. 1 \in 1..Len(items[s]) /\ Head(items[s]) = items[s][1]
    BY <2>3
  <2>5. items'[s] # items[s]
    <3>1. Len(items'[s]) = Len(items[s]) - 1 /\ Len(items[s]) \in Nat
      BY <2>3
    <3> QED BY <3>1
  <2>6. WritesCleared(s)
    BY <2>2, <2>3, <2>4 DEF WritesCleared, ClearedInv
  <2> QED BY <2>1, <2>5, <2>6 DEF ClearedBySlot
<1>5. ASSUME NEW s \in Slots, NEW b \in BOOLEAN, InsertCanonical(s, b), i \notin DOMAIN table
      PROVE  i \in ClearedBySlot
  <2>1. i \in Written /\ table'[i].owner = user[s] /\ merge[s].acl = "team"
    BY <1>5, CanonAdds DEF Written
  <2>2. pc[s] = "canon" /\ pc'[s] = "replace"
    BY <1>5 DEF InsertCanonical, Goto, WriterInv, SlotTypes
  <2>3. WritesCleared(s)
    BY <2>1, <2>2 DEF WritesCleared, ClearedInv
  <2>4. <<pc[s], items[s]>>' # <<pc[s], items[s]>>
    BY <2>2
  <2> QED BY <2>1, <2>3, <2>4 DEF ClearedBySlot
<1> QED BY <1>1, <1>3, <1>4, <1>5, StepKinds, RetireMarks DEF PlainStep

\* A teammate's prompt holds only rows that somebody has let out of their owner's
\* hands (OnlyClearedRowsLeave), with any number of writers, consolidations, turns,
\* refreshes and edits on their way.
THEOREM NothingLeavesUncleared == RetrievalSpec => []OnlyClearedRowsLeave
<1>1. RetrievalInit => ClearedInv
  BY DEF RetrievalInit, HistoryInit, WriterInit, TableInit, ClearedInv
<1>2. WriterInv /\ CallInv /\ ClearedInv /\ [RetrievalNext]_allVars => ClearedInv'
  <2>1. ASSUME WriterInv, CallInv, ClearedInv, WriterStep PROVE ClearedInv'
    BY <2>1, StepItemsShared, StepGroupVouched, StepRowsCleared DEF ClearedInv
  <2>2. ASSUME ClearedInv, TurnStep PROVE ClearedInv'
    BY <2>2 DEF TurnStep, slotVars, mergeVars, clearVars, ClearedInv
  <2> QED BY <2>1, <2>2, RetrievalStepKinds
<1>3. WriterInv /\ ClearedInv => OnlyClearedRowsLeave
  BY TableConstants DEF ClearedInv, OnlyClearedRowsLeave, Visible, RowsOf
<1> QED BY <1>1, <1>2, <1>3, RetrievalKeepsCalls, PTL DEF RetrievalSpec

-----------------------------------------------------------------------------
(* What prune takes was in use no later than what it keeps.                  *)

\* A row that was injected after another was last seen is seen later than it, once
\* its refresh is through.
SinceInv ==
    \A j \in Ids : \A i \in since[j] :
        /\ i \in Alive /\ j \in Alive
        /\ i \in UNION refreshing \/ <<j, i>> \in seenBefore

\* A step of the writer marks a row as seen now, or none.
LEMMA StepTouches ==
    ASSUME [WriterNext]_vars
    PROVE  \/ UNCHANGED seenBefore
           \/ \E x : Touch(x) /\ DOMAIN table' \ {x} \subseteq DOMAIN table
<1>1. ASSUME NEW s, NEW i, ReinforceOrDrop(s, i)
      PROVE  UNCHANGED seenBefore \/ (Touch(i) /\ DOMAIN table' = DOMAIN table)
  BY <1>1 DEF ReinforceOrDrop, Reinforce
<1>2. ASSUME NEW s, NEW it, NEW old, InsertItem(s, it, old)
      PROVE  Touch(lastId + 1) /\ DOMAIN table' \ {lastId + 1} \subseteq DOMAIN table
  BY <1>2 DEF InsertItem, InsertRow
<1>3. ASSUME NEW s, ApplyTight(s)
      PROVE  UNCHANGED seenBefore \/ \E x : Touch(x) /\ DOMAIN table' \ {x} \subseteq DOMAIN table
  BY <1>1, <1>3 DEF ApplyTight
<1>4. ASSUME NEW s, ApplyLoose(s)
      PROVE  UNCHANGED seenBefore \/ \E x : Touch(x) /\ DOMAIN table' \ {x} \subseteq DOMAIN table
  BY <1>1, <1>2, <1>4 DEF ApplyLoose
<1>5. ASSUME NEW s, NEW b, InsertCanonical(s, b)
      PROVE  Touch(lastId + 1) /\ DOMAIN table' \ {lastId + 1} \subseteq DOMAIN table
  BY <1>5 DEF InsertCanonical, PutCanonical, InsertRow
<1>6. ASSUME NEW s \in Slots, MergeStep(s)
      PROVE  UNCHANGED seenBefore \/ \E x : Touch(x) /\ DOMAIN table' \ {x} \subseteq DOMAIN table
  BY <1>5, <1>6, MergeReadsKeepTable DEF MergeStep, ReplaceGroup
<1> QED
  BY <1>3, <1>4, <1>6
  DEF WriterNext, SlotStep, MergeStep, MergeReads, Start, Prepare, Classify, Retire, CountRows, Prune,
      Refused, InsertViolatesKey, RetireViolatesKey, Abandon, Edit, TimePasses, Quiet, OutOfRows, vars

\* A step of the writer keeps the order of what was injected and what was seen.
LEMMA StepSince ==
    ASSUME SinceInv, WriterStep PROVE SinceInv'
<1> SUFFICES ASSUME NEW j \in Ids, NEW i \in since'[j]
             PROVE  /\ i \in Alive' /\ j \in Alive'
                    /\ i \in UNION refreshing' \/ <<j, i>> \in seenBefore'
  BY DEF SinceInv
<1>1. j \in Alive' \ SeenNow /\ i \in since[j] /\ i \in Alive'
  BY DEF WriterStep
<1>2. i \in Alive /\ j \in Alive /\ (i \in UNION refreshing \/ <<j, i>> \in seenBefore)
  BY <1>1 DEF SinceInv
<1>3. refreshing' = refreshing
  BY DEF WriterStep
<1>4. ASSUME <<j, i>> \in seenBefore, NEW x, Touch(x), DOMAIN table' \ {x} \subseteq DOMAIN table
      PROVE  <<j, i>> \in seenBefore'
  <2>1. CASE x = j
    <3>1. \A k \in DOMAIN table' \ {j} : <<k, j>> \in seenBefore'
      BY <1>4, <2>1 DEF Touch
    <3>2. j \in DOMAIN table'
      BY <1>1 DEF Alive
    <3>3. UNCHANGED seenBefore
      BY <1>1, <3>1, <3>2 DEF SeenNow
    <3> QED BY <1>4, <3>3
  <2>2. CASE x # j /\ x = i
    <3>1. j \in DOMAIN table
      BY <1>2 DEF Alive
    <3> QED BY <1>4, <2>2, <3>1 DEF Touch
  <2>3. CASE x # j /\ x # i
    BY <1>4, <2>3 DEF Touch
  <2> QED BY <2>1, <2>2, <2>3
<1>5. ASSUME <<j, i>> \in seenBefore PROVE <<j, i>> \in seenBefore'
  BY <1>4, <1>5, StepTouches DEF WriterStep, HistoryStep
<1> QED BY <1>1, <1>2, <1>3, <1>5

\* A turn and its refresh, which arrives or is lost.
LEMMA TurnSince ==
    ASSUME SinceInv,
           \/ \E o \in Readers, rows \in SUBSET Ids : Inject(o, rows)
           \/ \E rows \in refreshing : Refresh(rows) \/ RefreshLost(rows)
    PROVE  SinceInv'
<1>1. ASSUME NEW o, NEW rows \in SUBSET Ids, Inject(o, rows) PROVE SinceInv'
  <2>1. rows \subseteq Alive /\ UNCHANGED <<table, seenBefore>> /\ refreshing' = refreshing \cup {rows}
    BY <1>1 DEF Inject, Visible, Alive, Active, callVars, vars
  <2>2. Alive' = Alive
    BY <2>1 DEF Alive
  <2>3. ASSUME NEW j \in Ids, NEW i \in since'[j], i \notin since[j] PROVE i \in rows /\ j \in Alive
    BY <1>1, <2>3 DEF Inject
  <2> QED BY <2>1, <2>2, <2>3 DEF SinceInv
<1>2. ASSUME NEW rows \in refreshing, Refresh(rows) PROVE SinceInv'
  <2> DEFINE found == rows \cap DOMAIN table
  <2>1. /\ refreshing' = refreshing \ {rows} /\ UNCHANGED table
        /\ seenBefore' = {p \in seenBefore : p[1] \notin found /\ p[2] \notin found}
                            \cup ((DOMAIN table \ found) \X found)
        /\ since' = [j \in Ids |-> IF j \in found THEN {} ELSE since[j]]
    BY <1>2 DEF Refresh
  <2>2. Alive' = Alive /\ Alive \subseteq DOMAIN table
    BY <2>1 DEF Alive
  <2> SUFFICES ASSUME NEW j \in Ids, NEW i \in since'[j]
               PROVE  /\ i \in Alive /\ j \in Alive
                      /\ i \in UNION refreshing' \/ <<j, i>> \in seenBefore'
    BY <2>2 DEF SinceInv
  <2>3. j \notin found /\ i \in since[j] /\ i \in Alive /\ j \in Alive
    BY <2>1 DEF SinceInv
  <2>4. CASE i \in rows
    BY <2>1, <2>2, <2>3, <2>4
  <2>5. CASE i \notin rows
    <3>1. i \in UNION refreshing => i \in UNION refreshing'
      BY <2>1, <2>5
    <3>2. i \in UNION refreshing \/ <<j, i>> \in seenBefore
      BY <2>3 DEF SinceInv
    <3> QED BY <2>1, <2>3, <2>5, <3>1, <3>2
  <2> QED BY <2>4, <2>5
<1>3. ASSUME NEW rows \in refreshing, RefreshLost(rows) PROVE SinceInv'
  <2>1. /\ refreshing' = refreshing \ {rows} /\ UNCHANGED <<table, seenBefore>>
        /\ since' = [j \in Ids |-> since[j] \ rows]
    BY <1>3 DEF RefreshLost, callVars, vars
  <2>2. Alive' = Alive
    BY <2>1 DEF Alive
  <2>3. \A i : i \in UNION refreshing /\ i \notin rows => i \in UNION refreshing'
    BY <2>1
  <2> QED BY <2>1, <2>2, <2>3 DEF SinceInv
<1> QED BY <1>1, <1>2, <1>3

\* What a prune deletes and what it keeps of the owner's normal rows.
LEMMA PruneSpares ==
    ASSUME WriterInv, CallInv, SinceInv, [RetrievalNext]_allVars, NEW s \in Slots, pc[s] = "prune", pc'[s] = "idle",
           NEW i \in Kept(user[s]), NEW j \in Kept(user[s]), ~table[i].permanent, ~table[j].permanent,
           table'[i].deleted, ~table'[j].deleted, i \in since[j]
    PROVE  i \in UNION refreshing
<1>1. ~table[i].deleted /\ i \in DOMAIN table /\ j \in DOMAIN table /\ j \in Ids
      /\ table[i] \in Row /\ table[j] \in Row
  BY TableConstants DEF Kept, RowsOf, WriterInv, ChainInv, TableTypeOK, Ids
<1>2. ~TurnStep
  BY <1>1 DEF TurnStep
<1>3. [WriterNext]_vars
  BY <1>2, RetrievalStepKinds DEF WriterStep, HistoryStep
<1>4. Prune(s)
  BY <1>1, <1>3, PruneEnds
<1>6. PICK S \in LeastSeen(Normal(user[s]), overflow[s]) : SoftDelete(S)
  BY <1>4 DEF Prune
<1>7. i \in S /\ j \notin S
  BY <1>1, <1>6 DEF SoftDelete, Row
<1>8. j \in Normal(user[s])
  BY DEF Normal
<1>9. <<j, i>> \notin seenBefore
  BY <1>6, <1>7, <1>8 DEF LeastSeen
<1> QED BY <1>1, <1>9 DEF SinceInv

\* prune takes no row that was put into a prompt since a row it keeps was last seen,
\* unless that refresh failed or is on its way (PruneSparesTheUsed), with any number
\* of slots, bots and edits.
THEOREM UsedRowsAreSpared == RetrievalSpec => PruneSparesTheUsed
<1>1. RetrievalInit => SinceInv
  BY DEF RetrievalInit, SinceInv
<1>2. SinceInv /\ [RetrievalNext]_allVars => SinceInv'
  <2>1. ASSUME SinceInv, UNCHANGED allVars PROVE SinceInv'
    BY <2>1 DEF allVars, callVars, vars, turnVars, SinceInv, Alive
  <2> QED BY <2>1, StepSince, TurnSince DEF RetrievalNext
<1>3. WriterInv /\ CallInv /\ SinceInv /\ [RetrievalNext]_allVars =>
        [\A s \in Slots :
            pc[s] = "prune" /\ pc'[s] = "idle" =>
                \A i, j \in Kept(user[s]) :
                    /\ ~table[i].permanent /\ ~table[j].permanent
                    /\ table'[i].deleted /\ ~table'[j].deleted
                    /\ i \in since[j]
                    => i \in UNION refreshing]_allVars
  BY PruneSpares
<1> QED BY <1>1, <1>2, <1>3, RetrievalKeepsCalls, PTL DEF RetrievalSpec, PruneSparesTheUsed
=============================================================================

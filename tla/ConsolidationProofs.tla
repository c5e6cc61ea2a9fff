------------------------ MODULE ConsolidationProofs ------------------------
(***************************************************************************)
(* However many slots consolidate, and whatever writers, owners and admins *)
(* do between the statements of a run, consolidation runs nothing but the  *)
(* statements of KnowledgeTable with their promises, lets no private row   *)
(* give way to one the team reads, and loses no evidence it has read.      *)
(***************************************************************************)
EXTENDS Consolidation, KnowledgeTableProofs, FiniteSetTheorems, WellFoundedInduction

-----------------------------------------------------------------------------
(* What a call remembers of the table may be stale; its rows are known       *)
(* (KnownRow), and the canonical row is later than the rows of its group.    *)

CallTypes ==
    /\ throttled \subseteq Owners
    /\ pc \in [Slots -> Steps]
    /\ user \in [Slots -> Owners \cup {Nobody}]
    /\ candidates \in [Slots -> SUBSET Ids]
    /\ merge \in [Slots -> Merge]
    /\ edited \in [Slots -> SUBSET Ids]
    /\ edits \in 0..MaxEdits
    /\ faults \in 0..MaxFaults

\* What is true of the call in slot s.
CallInv(s) ==
    /\ pc[s] = "idle" => user[s] = Nobody /\ candidates[s] = {}
    /\ pc[s] # "idle" => user[s] \in Owners
    /\ pc[s] \in {"insert", "replace"} => merge[s].ids # {} /\ merge[s].fact \in Facts
    /\ pc[s] \notin {"insert", "replace"} => merge[s].ids = {}
    /\ pc[s] # "replace" => merge[s].new = Null
    /\ \A i \in candidates[s] : KnownRow(i, user[s])
    /\ \A i \in merge[s].ids : KnownRow(i, user[s])
    /\ pc[s] = "replace" =>
          /\ KnownRow(merge[s].new, user[s])
          /\ \A i \in merge[s].ids : i < merge[s].new

MergeInv == ChainInv /\ CallTypes /\ \A s \in Slots : CallInv(s)

\* No call runs at the start.
LEMMA InitMergeInv == ConsolidationInit => MergeInv
<1> SUFFICES ASSUME ConsolidationInit PROVE MergeInv
  OBVIOUS
<1>1. ChainInv
  BY InitChains DEF ConsolidationInit
<1>2. NoMerge \in Merge
  <2>1. 1 \in 1..MaxEvidence
    BY TableConstants
  <2> QED BY <2>1, CanonicalConstants DEF NoMerge, Merge, NoFact, Null
<1>3. CallTypes
  BY <1>2, ConsolidationConstants DEF ConsolidationInit, CallTypes, Steps
<1>4. ASSUME NEW s \in Slots PROVE CallInv(s)
  BY DEF ConsolidationInit, CallInv, NoMerge, Null
<1> QED BY <1>1, <1>3, <1>4 DEF MergeInv

-----------------------------------------------------------------------------
(* Every step is a statement of the table, or leaves it alone.               *)

\* The canonical row belongs to the owner of the call.
LEMMA InsertIsStatement ==
    ASSUME MergeInv, NEW s \in Slots, NEW b \in BOOLEAN, InsertCanonical(s, b)
    PROVE  TableStep
<1>1. merge[s] \in Merge /\ user[s] \in Owners
  BY DEF MergeInv, CallTypes, CallInv, InsertCanonical, PutCanonical
<1>2. merge[s].acl \in Acls /\ merge[s].permanent \in BOOLEAN /\ merge[s].evidence \in 1..MaxEvidence
  BY <1>1 DEF Merge
<1>3. InsertRow(user[s], merge[s].fact, merge[s].acl, merge[s].permanent, merge[s].evidence, Null, b)
      /\ merge[s].fact \in Facts /\ LinkPromise(user[s], Null)
  BY DEF InsertCanonical, PutCanonical, LinkPromise, MergeInv, CallInv
<1> QED BY <1>1, <1>2, <1>3 DEF TableStep, TableNext

\* Of a group, only the rows still there are replaced, by a later row of the
\* same owner.
LEMMA ReplaceIsStatement ==
    ASSUME MergeInv, NEW s \in Slots, ReplaceGroup(s)
    PROVE  TableStep
<1> DEFINE o == user[s]
           n == merge[s].new
           S == merge[s].ids \cap DOMAIN table
<1>1. pc[s] = "replace" /\ Replace(merge[s].ids, o, n, FALSE)
  BY DEF ReplaceGroup, GiveWay
<1>2. Matched(merge[s].ids, o) = Matched(S, o)
  BY DEF Matched
<1>3. CASE Matched(S, o) = {}
  <2>1. table = [i \in DOMAIN table |-> table[i]]
    BY DEF MergeInv, ChainInv, TableTypeOK
  <2> QED BY <1>1, <1>2, <1>3, <2>1 DEF Replace, TableStep, tableVars
<1>4. CASE Matched(S, o) # {}
  <2>1. n \in DOMAIN table
    BY <1>1, <1>2, <1>4 DEF Replace
  <2>2. CallInv(s)
    BY DEF MergeInv
  <2>3. o \in Owners /\ ReplacePromise(S, o, n)
    BY <1>1, <2>1, <2>2 DEF CallInv, KnownRow, ReplacePromise, RowsOf
  <2>4. Replace(S, o, n, FALSE)
    BY <1>1, <1>2 DEF Replace
  <2> QED BY <2>1, <2>3, <2>4 DEF TableStep, TableNext
<1> QED BY <1>3, <1>4

\* Writers, owners and admins run statements of the table.
LEMMA OthersAreStatements ==
    ASSUME Write \/ (\E i \in DOMAIN table : EditRow(i)) \/ DropRow PROVE TableStep
<1>1. CASE Write
  <2>1. PICK o \in Owners, f \in Facts, a \in Acls : InsertRow(o, f, a, f \in PermanentFacts, 1, Null, TRUE)
    BY <1>1 DEF Write
  <2>2. 1 \in 1..MaxEvidence /\ LinkPromise(o, Null) /\ (f \in PermanentFacts) \in BOOLEAN
    BY TableConstants DEF LinkPromise
  <2> QED BY <2>1, <2>2 DEF TableStep, TableNext
<1>2. ASSUME NEW i \in DOMAIN table, EditRow(i) PROVE TableStep
  BY <1>2 DEF EditRow, TableStep, TableNext
<1>3. CASE DropRow
  BY <1>3 DEF DropRow, TableStep, TableNext
<1> QED BY <1>1, <1>2, <1>3

\* The steps of a call that only read, or fail.
Reads(s) ==
    \/ \E o \in Owners : Begin(s, o)
    \/ Count(s) \/ Select(s) \/ Mark(s) \/ Ask(s)
    \/ \E S \in Groups(s), f \in Facts : ReadGroup(s, S, f)
    \/ Finish(s) \/ Refused(s) \/ ReplaceViolatesKey(s)

\* Reading leaves the table alone.
LEMMA ReadsKeepTable ==
    ASSUME NEW s \in Slots, Reads(s) PROVE UNCHANGED tableVars
BY DEF Reads, Begin, Count, Select, Mark, Ask, ReadGroup, TakeGroup, Finish, Refused, ReplaceViolatesKey,
   tableVars

\* A step of a slot reads, inserts or replaces.
LEMMA SlotStepCases ==
    ASSUME NEW s \in Slots, SlotStep(s)
    PROVE  Reads(s) \/ (\E b \in BOOLEAN : InsertCanonical(s, b)) \/ ReplaceGroup(s)
BY DEF SlotStep, Reads

\* Every step of the specification is a step of the table.
LEMMA StepIsStatement ==
    ASSUME MergeInv, [ConsolidationNext]_vars PROVE TableStep
<1>1. ASSUME NEW s \in Slots, SlotStep(s) PROVE TableStep
  BY <1>1, SlotStepCases, ReadsKeepTable, InsertIsStatement, ReplaceIsStatement DEF TableStep
<1>2. CASE ThrottleEnds \/ OutOfRows \/ UNCHANGED vars
  BY <1>2 DEF ThrottleEnds, OutOfRows, vars, TableStep, tableVars
<1> QED BY <1>1, <1>2, OthersAreStatements DEF ConsolidationNext

-----------------------------------------------------------------------------
(* The invariant.                                                            *)

\* A call that a step leaves alone stays as it is.
LEMMA OtherCallKept ==
    ASSUME MergeInv, TableStep, NEW s \in Slots,
           pc'[s] = pc[s], user'[s] = user[s], candidates'[s] = candidates[s], merge'[s] = merge[s]
    PROVE  CallInv(s)'
<1>1. CallInv(s) /\ ChainInv
  BY DEF MergeInv
<1>2. \A i, o : KnownRow(i, o) => KnownRow(i, o)'
  BY <1>1, KnownRowStays DEF TableStep
<1> QED BY <1>1, <1>2 DEF CallInv

\* The steps of one slot leave the others alone.
LEMMA SlotStepKeepsOthers ==
    ASSUME MergeInv, NEW s \in Slots, SlotStep(s), NEW r \in Slots \ {s}
    PROVE  pc'[r] = pc[r] /\ user'[r] = user[r] /\ candidates'[r] = candidates[r]
           /\ merge'[r] = merge[r] /\ edited'[r] = edited[r]
BY DEF MergeInv, CallTypes, SlotStep, Begin, Count, Select, Mark, Ask, ReadGroup, TakeGroup, InsertCanonical, PutCanonical,
       ReplaceGroup, GiveWay, Finish, Refused, ReplaceViolatesKey, Return, Goto

\* A call that is over remembers nothing.
LEMMA ReturnKeepsCall ==
    ASSUME MergeInv, NEW s \in Slots, Return(s)
    PROVE  /\ pc' \in [Slots -> Steps] /\ user' \in [Slots -> Owners \cup {Nobody}]
           /\ candidates' \in [Slots -> SUBSET Ids] /\ merge' \in [Slots -> Merge]
           /\ edited' \in [Slots -> SUBSET Ids]
           /\ CallInv(s)'
<1>1. 1 \in 1..MaxEvidence /\ "private" \in Acls
  BY TableConstants, CanonicalConstants
<1>2. NoMerge \in Merge
  BY <1>1 DEF NoMerge, Merge, NoFact, Null
<1>3. /\ pc' = [pc EXCEPT ![s] = "idle"] /\ user' = [user EXCEPT ![s] = Nobody]
      /\ candidates' = [candidates EXCEPT ![s] = {}] /\ merge' = [merge EXCEPT ![s] = NoMerge]
      /\ edited' = [edited EXCEPT ![s] = {}]
  BY DEF Return, Goto
<1>4. pc'[s] = "idle" /\ user'[s] = Nobody /\ candidates'[s] = {} /\ merge'[s] = NoMerge
  BY <1>3 DEF MergeInv, CallTypes
<1>5. CallInv(s)'
  BY <1>4 DEF CallInv, NoMerge
<1> QED BY <1>2, <1>3, <1>5 DEF MergeInv, CallTypes, Steps

\* The group is made of candidates, which are known.
LEMMA ReadGroupKeepsCall ==
    ASSUME MergeInv, NEW s \in Slots, NEW S \in Groups(s), NEW f \in Facts, ReadGroup(s, S, f)
    PROVE  CallTypes' /\ CallInv(s)'
<1> DEFINE o == user[s]
<1>1. PICK e \in 1..MaxEvidence : merge' = [merge EXCEPT ![s] =
          [ids |-> S, fact |-> f, acl |-> CanonicalAcl(S, o, f), evidence |-> e, new |-> Null,
           permanent |-> \E i \in MergedRows(S, o) : table[i].permanent]]
  BY DEF ReadGroup, TakeGroup
<1> DEFINE m == [ids |-> S, fact |-> f, acl |-> CanonicalAcl(S, o, f), evidence |-> e, new |-> Null,
                 permanent |-> \E i \in MergedRows(S, o) : table[i].permanent]
<1>2. S \subseteq candidates[s] /\ S # {} /\ S \in SUBSET Ids
  <2>1. S \subseteq candidates[s] /\ S # {}
    BY DEF Groups
  <2>2. candidates[s] \in SUBSET Ids
    BY DEF MergeInv, CallTypes
  <2> QED BY <2>1, <2>2
<1>3. CanonicalAcl(S, o, f) \in Acls
  BY CanonicalConstants DEF CanonicalAcl
<1>4. m \in Merge
  BY <1>2, <1>3 DEF Merge
<1>5. merge' \in [Slots -> Merge] /\ merge'[s].ids = S /\ merge'[s].fact = f /\ merge'[s].new = Null
  BY <1>1, <1>4 DEF MergeInv, CallTypes
<1>6. UNCHANGED <<table, lastId, throttled, user, candidates, edited, edits, faults>>
      /\ pc' = [pc EXCEPT ![s] = "insert"] /\ pc[s] = "group"
  BY DEF ReadGroup, TakeGroup, Goto, tableVars
<1>7. CallTypes'
  BY <1>5, <1>6 DEF MergeInv, CallTypes, Steps
<1>8. pc'[s] = "insert"
  BY <1>6 DEF MergeInv, CallTypes
<1>9. \A i \in candidates[s] : KnownRow(i, o)'
  BY <1>6 DEF MergeInv, CallInv, KnownRow
<1> QED BY <1>2, <1>5, <1>6, <1>7, <1>8, <1>9 DEF MergeInv, CallInv

\* The other steps that only read.
LEMMA ReadsKeepCall ==
    ASSUME MergeInv, NEW s \in Slots, Reads(s)
    PROVE  CallTypes' /\ CallInv(s)'
<1>0. UNCHANGED tableVars
  BY ReadsKeepTable
<1>1. ASSUME Return(s), throttled' = throttled, edits' = edits, faults' \in 0..MaxFaults
      PROVE  CallTypes' /\ CallInv(s)'
  BY <1>1, ReturnKeepsCall DEF MergeInv, CallTypes
<1> USE DEF MergeInv, CallTypes, CallInv, Goto, Steps, KnownRow, tableVars
<1>2. ASSUME NEW o \in Owners, Begin(s, o) PROVE CallTypes' /\ CallInv(s)'
  BY <1>0, <1>2 DEF Begin
<1>3. CASE Count(s)
  <2>1. CASE Return(s)
    BY <1>1, <1>3, <2>1 DEF Count
  <2>2. CASE ~Return(s)
    BY <1>0, <1>3, <2>2 DEF Count
  <2> QED BY <2>1, <2>2
<1>4. CASE Select(s)
  <2>1. CASE Return(s)
    BY <1>1, <1>4, <2>1 DEF Select
  <2>2. CASE ~Return(s)
    <3>1. PICK C \in SUBSET Mergeable(user[s]) :
             candidates' = [candidates EXCEPT ![s] = C] /\ pc' = [pc EXCEPT ![s] = "mark"]
             /\ UNCHANGED <<user, merge, edited>>
      BY <1>4, <2>2 DEF Select
    <3>2. \A i \in C : i \in DOMAIN table /\ table[i].owner = user[s]
      BY DEF Mergeable, ActiveOf
    <3>3. C \subseteq Ids /\ \A i \in C : i \in 1..lastId
      BY <3>2, TableConstants DEF ChainInv, TableTypeOK, Ids
    <3> QED BY <1>0, <1>4, <3>1, <3>2, <3>3 DEF Select
  <2> QED BY <2>1, <2>2
<1>5. CASE Mark(s)
  BY <1>0, <1>5 DEF Mark
<1>6. CASE Ask(s)
  BY <1>0, <1>6 DEF Ask
<1>7. CASE Finish(s)
  BY <1>1, <1>7 DEF Finish
<1>8. CASE Refused(s)
  <2>1. faults' \in 0..MaxFaults
    BY <1>8, ConsolidationConstants DEF Refused
  <2> QED BY <1>1, <1>8, <2>1 DEF Refused
<1>9. CASE ReplaceViolatesKey(s)
  BY <1>1, <1>9 DEF ReplaceViolatesKey
<1> QED BY <1>2, <1>3, <1>4, <1>5, <1>6, <1>7, <1>8, <1>9, ReadGroupKeepsCall DEF Reads

\* The canonical row is later than all that was read before it.
LEMMA InsertKeepsCall ==
    ASSUME MergeInv, TableStep, NEW s \in Slots, NEW b \in BOOLEAN, InsertCanonical(s, b)
    PROVE  CallTypes' /\ CallInv(s)'
<1>m. PICK m : m = merge[s]
  OBVIOUS
<1>n. PICK n : n = lastId + 1
  OBVIOUS
<1>0. \A i, o : KnownRow(i, o) => KnownRow(i, o)'
  BY KnownRowStays DEF TableStep, MergeInv
<1>1. m \in Merge /\ CallInv(s) /\ pc[s] = "insert"
  BY <1>m DEF MergeInv, CallTypes, InsertCanonical, PutCanonical
<1>2. n \in Ids /\ lastId' = n /\ \A i \in 1..lastId : i < n
  BY <1>n, TableConstants DEF InsertCanonical, PutCanonical, InsertRow, MergeInv, ChainInv, TableTypeOK, Ids
<1>3. merge' = [merge EXCEPT ![s] = [m EXCEPT !.new = n]]
  BY <1>m, <1>n DEF InsertCanonical, PutCanonical
<1>4. [m EXCEPT !.new = n] \in Merge /\ [m EXCEPT !.new = n].new = n
      /\ [m EXCEPT !.new = n].ids = m.ids /\ [m EXCEPT !.new = n].fact = m.fact
  BY <1>1, <1>2 DEF Merge
<1>5. merge' \in [Slots -> Merge] /\ merge'[s].new = n /\ merge'[s].ids = m.ids /\ merge'[s].fact = m.fact
  BY <1>3, <1>4 DEF MergeInv, CallTypes
<1>6. UNCHANGED <<throttled, user, candidates, edited, edits, faults>>
      /\ pc' = [pc EXCEPT ![s] = "replace"]
  BY DEF InsertCanonical, PutCanonical, Goto
<1>7. CallTypes' /\ pc'[s] = "replace"
  BY <1>5, <1>6 DEF MergeInv, CallTypes, Steps
<1>8. KnownRow(n, user[s])'
  <2>1. table'[n].owner = user[s]
    BY <1>n DEF InsertCanonical, PutCanonical, InsertRow, NewRow
  <2>2. n \in 1..lastId'
    BY <1>2, TableConstants DEF Ids
  <2> QED BY <1>6, <2>1, <2>2 DEF KnownRow
<1>9. \A i \in m.ids : i < n
  BY <1>1, <1>2, <1>m DEF CallInv, KnownRow
<1> QED BY <1>0, <1>1, <1>m, <1>5, <1>6, <1>7, <1>8, <1>9 DEF CallInv

\* The group is done with.
LEMMA ReplaceKeepsCall ==
    ASSUME MergeInv, TableStep, NEW s \in Slots, ReplaceGroup(s)
    PROVE  CallTypes' /\ CallInv(s)'
<1>0. \A i, o : KnownRow(i, o) => KnownRow(i, o)'
  BY KnownRowStays DEF TableStep, MergeInv
<1>1. NoMerge \in Merge
  <2>1. 1 \in 1..MaxEvidence /\ "private" \in Acls
    BY TableConstants, CanonicalConstants
  <2> QED BY <2>1 DEF NoMerge, Merge, NoFact, Null
<1>2. pc[s] = "replace" /\ pc' = [pc EXCEPT ![s] = "group"] /\ merge' = [merge EXCEPT ![s] = NoMerge]
      /\ edited' = [edited EXCEPT ![s] = {}]
      /\ UNCHANGED <<throttled, user, candidates, edits, faults>>
  BY DEF ReplaceGroup, GiveWay, Goto
<1>3. pc'[s] = "group" /\ merge'[s] = NoMerge
  BY <1>2 DEF MergeInv, CallTypes
<1>4. CallTypes'
  BY <1>1, <1>2 DEF MergeInv, CallTypes, Steps
<1> QED BY <1>0, <1>2, <1>3, <1>4 DEF MergeInv, CallInv, NoMerge

\* Every step keeps the invariant.
LEMMA StepMergeInv == MergeInv /\ [ConsolidationNext]_vars => MergeInv'
<1> SUFFICES ASSUME MergeInv, [ConsolidationNext]_vars PROVE MergeInv'
  OBVIOUS
<1>1. TableStep
  BY StepIsStatement
<1>2. ChainInv'
  BY <1>1, StepChains DEF TableStep, MergeInv
<1>3. SUFFICES CallTypes' /\ \A s \in Slots : CallInv(s)'
  BY <1>2 DEF MergeInv
<1>4. ASSUME UNCHANGED callVars, CallTypes' PROVE CallTypes' /\ \A s \in Slots : CallInv(s)'
  BY <1>1, <1>4, OtherCallKept DEF callVars
<1>5. ASSUME NEW s \in Slots, SlotStep(s) PROVE CallTypes' /\ \A r \in Slots : CallInv(r)'
  <2>1. CallTypes' /\ CallInv(s)'
    BY <1>1, <1>5, SlotStepCases, ReadsKeepCall, InsertKeepsCall, ReplaceKeepsCall
  <2>2. ASSUME NEW r \in Slots \ {s} PROVE CallInv(r)'
    BY <1>1, <1>5, <2>2, SlotStepKeepsOthers, OtherCallKept
  <2> QED BY <2>1, <2>2
<1>6. CASE Write \/ ThrottleEnds \/ OutOfRows \/ UNCHANGED vars
  BY <1>4, <1>6 DEF Write, ThrottleEnds, OutOfRows, vars, callVars, MergeInv, CallTypes
<1>7. CASE DropRow
  <2>1. edits' \in 0..MaxEdits
    BY <1>7, ConsolidationConstants DEF DropRow, MergeInv, CallTypes
  <2> QED BY <1>4, <1>7, <2>1 DEF DropRow, callVars, MergeInv, CallTypes
<1>8. ASSUME NEW i \in DOMAIN table, EditRow(i) PROVE CallTypes' /\ \A s \in Slots : CallInv(s)'
  <2>1. edits' \in 0..MaxEdits
    BY <1>8, ConsolidationConstants DEF EditRow, MergeInv, CallTypes
  <2>2. i \in Ids
    BY TableConstants DEF MergeInv, ChainInv, TableTypeOK, Ids
  <2>3. edited' \in [Slots -> SUBSET Ids]
    BY <1>8, <2>2 DEF EditRow, MergeInv, CallTypes
  <2> QED BY <1>4, <1>8, <2>1, <2>3 DEF EditRow, callVars, MergeInv, CallTypes
<1> QED BY <1>5, <1>6, <1>7, <1>8 DEF ConsolidationNext

-----------------------------------------------------------------------------
\* The state keeps its shape, and a call that is over holds nothing.
THEOREM ConsolidationTypeCorrect == ConsolidationSpec => []ConsolidationTypeOK
<1>1. MergeInv => ConsolidationTypeOK
  <2> SUFFICES ASSUME MergeInv PROVE ConsolidationTypeOK
    OBVIOUS
  <2>1. ASSUME NEW s \in Slots
        PROVE  /\ pc[s] = "idle" <=> user[s] = Nobody
               /\ pc[s] \in {"insert", "replace"} <=> merge[s].ids # {}
               /\ pc[s] = "replace" <=> merge[s].new # Null
    <3>1. CallInv(s)
      BY DEF MergeInv
    <3>2. KnownRow(merge[s].new, user[s]) => merge[s].new # Null
      BY DEF KnownRow, Null
    <3> QED BY <3>1, <3>2, ConsolidationConstants DEF CallInv
  <2> QED BY <2>1 DEF MergeInv, CallTypes, ChainInv, ConsolidationTypeOK
<1> QED BY <1>1, InitMergeInv, StepMergeInv, PTL DEF ConsolidationSpec

\* Consolidation in any number of slots, with all that happens around it,
\* implements the table (MergesAreTableStatements).
THEOREM MergesImplementTable == ConsolidationSpec => MergesAreTableStatements
<1>1. ConsolidationInit => TableInit
  BY DEF ConsolidationInit
<1>2. MergeInv /\ [ConsolidationNext]_vars => [TableNext]_tableVars
  BY StepIsStatement DEF TableStep
<1> QED BY <1>1, <1>2, InitMergeInv, StepMergeInv, PTL
        DEF ConsolidationSpec, MergesAreTableStatements, TableSpec

-----------------------------------------------------------------------------
(* Privacy.  The acl of a group is read before the canonical row is          *)
(* inserted, and both before the group is replaced: what was read still      *)
(* holds of every row nobody has edited since, because no other statement    *)
(* changes an acl and no other slot can link a row to this canonical row.    *)

AclInv(s) ==
    /\ pc[s] \in {"insert", "replace"} /\ merge[s].acl = "team" =>
          \A i \in merge[s].ids : i \in DOMAIN table /\ i \notin edited[s] => table[i].acl # "private"
    /\ pc[s] = "replace" =>
          /\ merge[s].new \in DOMAIN table /\ merge[s].new \notin edited[s]
                => table[merge[s].new].acl = merge[s].acl
          /\ \A i \in DOMAIN table : table[i].supersededBy # merge[s].new

\* Two calls never have the same canonical row.
OwnRows ==
    \A s, r \in Slots : s # r /\ pc[s] = "replace" /\ pc[r] = "replace" => merge[s].new # merge[r].new

PrivacyInv == OwnRows /\ \A s \in Slots : AclInv(s)

\* A step leaves alone what the call in slot s relies on.
Spared(s) ==
    /\ \A i \in 1..lastId :
          i \in merge[s].ids \cup {merge[s].new} /\ i \in DOMAIN table' /\ i \notin edited'[s] =>
             /\ i \in DOMAIN table /\ i \notin edited[s]
             /\ table'[i].acl = table[i].acl /\ table'[i].evidence = table[i].evidence
    /\ pc[s] = "replace" =>
          \A i \in DOMAIN table' :
             table'[i].supersededBy = merge[s].new =>
                i \in DOMAIN table /\ table[i].supersededBy = merge[s].new

\* A call that is spared keeps its part of the invariant.
LEMMA SparedKeepsAcl ==
    ASSUME MergeInv, NEW s \in Slots, AclInv(s), Spared(s), pc'[s] = pc[s], merge'[s] = merge[s]
    PROVE  AclInv(s)'
<1>1. CallInv(s)
  BY DEF MergeInv
<1>2. \A i \in merge[s].ids : i \in 1..lastId
  BY <1>1 DEF CallInv, KnownRow
<1>3. pc[s] = "replace" => merge[s].new \in 1..lastId
  BY <1>1 DEF CallInv, KnownRow
<1> QED BY <1>2, <1>3 DEF AclInv, Spared

\* A statement that leaves the table alone spares every call.
LEMMA NoStatementSpares ==
    ASSUME UNCHANGED tableVars, NEW s \in Slots, edited'[s] = edited[s] PROVE Spared(s)
BY DEF Spared, tableVars

\* A new row is none of those a call knows, and replaced by none.
LEMMA InsertSpares ==
    ASSUME MergeInv, NEW s \in Slots, edited'[s] = edited[s],
           NEW o, NEW f, NEW a, NEW p, NEW e, NEW q, InsertRow(o, f, a, p, e, Null, q)
    PROVE  Spared(s)
<1>1. lastId \in Nat
  BY TableConstants DEF MergeInv, ChainInv, TableTypeOK
<1>2. PICK n : n = lastId + 1
  OBVIOUS
<1>3. DOMAIN table' = DOMAIN table \cup {n} /\ \A i \in DOMAIN table' : i # n => table'[i] = table[i]
  BY <1>2 DEF InsertRow
<1>4. table'[n].supersededBy = Null
  BY <1>2 DEF InsertRow, NewRow
<1>5. n \notin 1..lastId
  BY <1>1, <1>2
<1>6. pc[s] = "replace" => merge[s].new # Null
  BY <1>1 DEF MergeInv, CallInv, KnownRow, Null
<1> QED BY <1>3, <1>4, <1>5, <1>6 DEF Spared

\* Another call replaces rows by its own canonical row, and changes no acl.
LEMMA ReplaceSpares ==
    ASSUME MergeInv, OwnRows, NEW r \in Slots, ReplaceGroup(r), NEW s \in Slots \ {r},
           edited'[s] = edited[s]
    PROVE  Spared(s)
<1>1. \A i \in DOMAIN table : table[i] \in Row
  BY DEF MergeInv, ChainInv, TableTypeOK
<1>2. DOMAIN table' = DOMAIN table
  BY DEF ReplaceGroup, GiveWay, Replace
<1>3. \A i \in DOMAIN table :
         /\ table'[i].acl = table[i].acl /\ table'[i].evidence = table[i].evidence
         /\ table'[i].supersededBy = table[i].supersededBy \/ table'[i].supersededBy = merge[r].new
  BY <1>1 DEF ReplaceGroup, GiveWay, Replace, Replaced, Row
<1>4. pc[r] = "replace"
  BY DEF ReplaceGroup, GiveWay
<1> QED BY <1>2, <1>3, <1>4 DEF Spared, OwnRows

\* An edit changes one row, which the call then counts as edited.
LEMMA EditSpares ==
    ASSUME MergeInv, NEW i \in DOMAIN table, EditRow(i), NEW s \in Slots PROVE Spared(s)
<1>1. edited'[s] = edited[s] \cup (IF i \in merge[s].ids \cup {merge[s].new} THEN {i} ELSE {})
  BY DEF EditRow
<1>2. table \in [DOMAIN table -> Row]
  BY DEF MergeInv, ChainInv, TableTypeOK
<1>3. DOMAIN table' = DOMAIN table /\ \A k \in DOMAIN table : k # i => table'[k] = table[k]
  BY <1>2 DEF EditRow, Reinforce, SetAcl, SetPermanent, SetCategory
<1>4. table'[i].supersededBy = table[i].supersededBy
  BY <1>2 DEF EditRow, Reinforce, SetAcl, SetPermanent, SetCategory, Row
<1> QED BY <1>1, <1>3, <1>4 DEF Spared

\* Deleting a row, for good or not, changes no acl and no link.
LEMMA DropSpares ==
    ASSUME MergeInv, DropRow, NEW s \in Slots PROVE Spared(s)
<1>0. edited' = edited /\ table \in [DOMAIN table -> Row]
  BY DEF DropRow, MergeInv, ChainInv, TableTypeOK
<1>1. ASSUME NEW S, DropRows(S) PROVE Spared(s)
  BY <1>0, <1>1 DEF DropRows, Spared
<1>2. ASSUME NEW S, SoftDelete(S) PROVE Spared(s)
  <2>1. DOMAIN table' = DOMAIN table
        /\ \A k \in DOMAIN table :
              /\ table'[k].acl = table[k].acl /\ table'[k].evidence = table[k].evidence
              /\ table'[k].supersededBy = table[k].supersededBy
    BY <1>0, <1>2 DEF SoftDelete, Row
  <2> QED BY <1>0, <2>1 DEF Spared
<1> QED BY <1>1, <1>2 DEF DropRow, HardDelete, PurgeRows

\* A group is as private as its members that are there when it is read.
LEMMA ReadGroupKeepsAcl ==
    ASSUME MergeInv, NEW s \in Slots, NEW S \in Groups(s), NEW f \in Facts, ReadGroup(s, S, f)
    PROVE  AclInv(s)'
<1>1. \A i \in S : KnownRow(i, user[s])
  BY DEF MergeInv, CallInv, Groups
<1>2. \A i \in S : i \in DOMAIN table => i \in MergedRows(S, user[s])
  BY <1>1 DEF KnownRow, MergedRows, RowsOf
<1>3. merge'[s].ids = S /\ merge'[s].acl = CanonicalAcl(S, user[s], f)
  BY DEF ReadGroup, TakeGroup, tableVars, MergeInv, CallTypes
<1>4. merge'[s].acl = "team" => \A i \in MergedRows(S, user[s]) : table[i].acl # "private"
  BY <1>3 DEF CanonicalAcl
<1>5. pc'[s] = "insert" /\ table' = table
  BY DEF ReadGroup, TakeGroup, tableVars, Goto, MergeInv, CallTypes
<1> QED BY <1>2, <1>3, <1>4, <1>5 DEF AclInv

\* The canonical row has the acl of its group, and nothing refers to it yet.
LEMMA InsertKeepsAcl ==
    ASSUME MergeInv, NEW s \in Slots, AclInv(s), NEW b \in BOOLEAN, InsertCanonical(s, b)
    PROVE  /\ AclInv(s)'
           /\ \A r \in Slots \ {s} : pc[r] = "replace" => merge[r].new # merge'[s].new
<1>1. lastId \in Nat /\ merge[s] \in Merge /\ pc[s] = "insert" /\ CallInv(s)
  BY TableConstants DEF MergeInv, ChainInv, TableTypeOK, CallTypes, InsertCanonical, PutCanonical
<1>2. PICK n : n = lastId + 1
  OBVIOUS
<1>3. merge'[s] = [merge[s] EXCEPT !.new = n]
  BY <1>2 DEF InsertCanonical, PutCanonical, MergeInv, CallTypes
<1>4. merge'[s].new = n /\ merge'[s].ids = merge[s].ids /\ merge'[s].acl = merge[s].acl
  BY <1>1, <1>3 DEF Merge
<1>5. /\ DOMAIN table' = DOMAIN table \cup {n} /\ \A i \in DOMAIN table' : i # n => table'[i] = table[i]
      /\ table'[n].supersededBy = Null /\ table'[n].acl = merge[s].acl
  BY <1>2 DEF InsertCanonical, PutCanonical, InsertRow, NewRow
<1>6. n \notin 1..lastId /\ n # Null
  BY <1>1, <1>2 DEF Null
<1>7. \A i \in DOMAIN table : table[i].supersededBy # n
  <2>1. \A i \in DOMAIN table : table[i].supersededBy = Null \/ table[i].supersededBy \in DOMAIN table
    BY DEF MergeInv, ChainInv, ChainsWellFormed
  <2>2. DOMAIN table \subseteq 1..lastId
    BY DEF MergeInv, ChainInv, TableTypeOK
  <2> QED BY <1>6, <2>1, <2>2
<1>8. pc'[s] = "replace" /\ edited' = edited
  BY DEF InsertCanonical, PutCanonical, Goto, MergeInv, CallTypes
<1>9. \A i \in merge[s].ids : i # n
  BY <1>1, <1>6 DEF CallInv, KnownRow
<1>10. ASSUME NEW r \in Slots, pc[r] = "replace" PROVE merge[r].new # n
  BY <1>6, <1>10 DEF MergeInv, CallInv, KnownRow
<1> QED BY <1>1, <1>4, <1>5, <1>6, <1>7, <1>8, <1>9, <1>10 DEF AclInv

\* A call that has replaced its group, is over or has not read it relies on nothing.
LEMMA NothingReadKeepsAcl ==
    ASSUME NEW s \in Slots, pc'[s] \notin {"insert", "replace"} PROVE AclInv(s)'
BY DEF AclInv

\* The steps that read, and those that end the call.
LEMMA ReadsKeepAcl ==
    ASSUME MergeInv, NEW s \in Slots, Reads(s)
    PROVE  AclInv(s)' /\ pc'[s] # "replace"
<1>1. ASSUME NEW S \in Groups(s), NEW f \in Facts, ReadGroup(s, S, f)
      PROVE  AclInv(s)' /\ pc'[s] # "replace"
  BY <1>1, ReadGroupKeepsAcl DEF ReadGroup, TakeGroup, Goto, MergeInv, CallTypes
<1>2. CASE ~ \E S \in Groups(s), f \in Facts : ReadGroup(s, S, f)
  <2>1. pc'[s] \notin {"insert", "replace"}
    BY <1>2 DEF Reads, Begin, Count, Select, Mark, Ask, Finish, Refused, ReplaceViolatesKey, Return,
               Goto, MergeInv, CallTypes
  <2> QED BY <2>1, NothingReadKeepsAcl
<1> QED BY <1>1, <1>2

\* A step of one slot spares the calls of the others.
LEMMA SlotStepSpares ==
    ASSUME MergeInv, OwnRows, NEW r \in Slots, SlotStep(r), NEW s \in Slots \ {r}
    PROVE  Spared(s)
<1>1. edited'[s] = edited[s]
  BY SlotStepKeepsOthers
<1>2. CASE Reads(r)
  BY <1>1, <1>2, ReadsKeepTable, NoStatementSpares
<1>3. ASSUME NEW b \in BOOLEAN, InsertCanonical(r, b) PROVE Spared(s)
  BY <1>1, <1>3, InsertSpares DEF InsertCanonical, PutCanonical
<1>4. CASE ReplaceGroup(r)
  BY <1>1, <1>4, ReplaceSpares
<1> QED BY <1>2, <1>3, <1>4, SlotStepCases

\* Every step keeps what the calls rely on.
LEMMA StepPrivacy == MergeInv /\ PrivacyInv /\ [ConsolidationNext]_vars => PrivacyInv'
<1> SUFFICES ASSUME MergeInv, PrivacyInv, [ConsolidationNext]_vars PROVE PrivacyInv'
  OBVIOUS
<1>1. ASSUME pc' = pc, merge' = merge, \A s \in Slots : Spared(s) PROVE PrivacyInv'
  BY <1>1, SparedKeepsAcl DEF PrivacyInv, OwnRows
<1>2. ASSUME NEW r \in Slots, SlotStep(r) PROVE PrivacyInv'
  <2>1. ASSUME NEW s \in Slots \ {r} PROVE AclInv(s)' /\ pc'[s] = pc[s] /\ merge'[s] = merge[s]
    BY <1>2, <2>1, SlotStepSpares, SlotStepKeepsOthers, SparedKeepsAcl DEF PrivacyInv
  <2>2. /\ AclInv(r)'
        /\ pc'[r] = "replace" =>
              \A s \in Slots \ {r} : pc[s] = "replace" => merge[s].new # merge'[r].new
    <3>1. CASE Reads(r)
      BY <3>1, ReadsKeepAcl
    <3>2. ASSUME NEW b \in BOOLEAN, InsertCanonical(r, b)
          PROVE  AclInv(r)' /\ \A s \in Slots \ {r} : pc[s] = "replace" => merge[s].new # merge'[r].new
      BY <3>2, InsertKeepsAcl DEF PrivacyInv
    <3>3. CASE ReplaceGroup(r)
      <4>1. pc'[r] = "group"
        BY <3>3 DEF ReplaceGroup, GiveWay, Goto, MergeInv, CallTypes
      <4> QED BY <4>1, NothingReadKeepsAcl
    <3> QED BY <1>2, <3>1, <3>2, <3>3, SlotStepCases
  <2> QED BY <2>1, <2>2 DEF PrivacyInv, OwnRows
<1>3. CASE Write
  <2>1. PICK o \in Owners, f \in Facts, a \in Acls : InsertRow(o, f, a, f \in PermanentFacts, 1, Null, TRUE)
    BY <1>3 DEF Write
  <2>2. pc' = pc /\ merge' = merge /\ edited' = edited
    BY <1>3 DEF Write, callVars
  <2> QED BY <1>1, <2>1, <2>2, InsertSpares
<1>4. ASSUME NEW i \in DOMAIN table, EditRow(i) PROVE PrivacyInv'
  BY <1>1, <1>4, EditSpares DEF EditRow, callVars
<1>5. CASE DropRow
  BY <1>1, <1>5, DropSpares DEF DropRow, callVars
<1>6. CASE ThrottleEnds \/ OutOfRows \/ UNCHANGED vars
  <2>1. pc' = pc /\ merge' = merge /\ edited' = edited /\ UNCHANGED tableVars
    BY <1>6 DEF ThrottleEnds, OutOfRows, vars, callVars, tableVars
  <2> QED BY <1>1, <2>1, NoStatementSpares
<1> QED BY <1>2, <1>3, <1>4, <1>5, <1>6 DEF ConsolidationNext

\* No call has read anything at the start.
LEMMA InitPrivacy == ConsolidationInit => PrivacyInv
BY DEF ConsolidationInit, PrivacyInv, OwnRows, AclInv

\* Only the UPDATE of the group leads from the insert to the next group.
LEMMA MergedByReplace ==
    ASSUME MergeInv, [ConsolidationNext]_vars, NEW s \in Slots, pc[s] = "replace", pc'[s] = "group"
    PROVE  ReplaceGroup(s)
<1>1. pc[s] # pc'[s]
  OBVIOUS
<1>2. \E r \in Slots : SlotStep(r)
  BY <1>1 DEF ConsolidationNext, Write, EditRow, DropRow, ThrottleEnds, OutOfRows, vars, callVars
<1>3. SlotStep(s)
  BY <1>1, <1>2, SlotStepKeepsOthers
<1> QED
  BY <1>3 DEF SlotStep, Begin, Count, Select, Mark, Ask, ReadGroup, TakeGroup, InsertCanonical, PutCanonical, Finish,
             Refused, ReplaceViolatesKey, Return, Goto, MergeInv, CallTypes

\* The row that gives way in this step was in the group, and was private when the
\* group was read: so the canonical row is.
LEMMA ReplaceKeepsPrivate ==
    ASSUME MergeInv, PrivacyInv, [ConsolidationNext]_vars, NEW s \in Slots,
           pc[s] = "replace", pc'[s] = "group",
           NEW i \in DOMAIN table' \ edited[s],
           table'[i].supersededBy = merge[s].new, table[i].acl = "private",
           merge[s].new \notin edited[s]
    PROVE  table[merge[s].new].acl = "private"
<1>1. ReplaceGroup(s)
  BY MergedByReplace
<1>2. AclInv(s) /\ merge[s] \in Merge
  BY DEF PrivacyInv, MergeInv, CallTypes
<1>3. Replace(merge[s].ids, user[s], merge[s].new, FALSE)
  BY <1>1 DEF ReplaceGroup, GiveWay
<1>4. i \in Matched(merge[s].ids, user[s])
  BY <1>2, <1>3 DEF Replace, AclInv
<1>5. i \in merge[s].ids /\ i \in DOMAIN table /\ merge[s].new \in DOMAIN table
  BY <1>3, <1>4 DEF Matched, Replace
<1>6. merge[s].acl # "team"
  BY <1>2, <1>5 DEF AclInv
<1>7. merge[s].acl = "private"
  BY <1>2, <1>6, TableConstants DEF Merge
<1> QED BY <1>2, <1>5, <1>7 DEF AclInv

\* No private row gives way to one the team reads, unless somebody edited one of
\* the two after the group was read: for any number of slots, groups, owners,
\* faults and statements in between (MergeKeepsPrivate).
THEOREM PrivateStaysPrivate == ConsolidationSpec => MergeKeepsPrivate
<1>1. MergeInv /\ PrivacyInv /\ [ConsolidationNext]_vars =>
        [\A s \in Slots : pc[s] = "replace" /\ pc'[s] = "group" =>
            \A i \in DOMAIN table' \ edited[s] :
                /\ table'[i].supersededBy = merge[s].new
                /\ table[i].acl = "private"
                /\ merge[s].new \notin edited[s]
                => table[merge[s].new].acl = "private"]_vars
  BY ReplaceKeepsPrivate
<1> QED BY <1>1, InitMergeInv, StepMergeInv, InitPrivacy, StepPrivacy, PTL
        DEF ConsolidationSpec, MergeKeepsPrivate

-----------------------------------------------------------------------------
(* Sums.  MapThenSumSet folds a set in an order that CHOOSE picks; what      *)
(* follows from that is proved by looking at a smallest counterexample.      *)

SumOf(tab, S) == MapThenSumSet(LAMBDA i : tab[i].evidence, S)

Some(s) == CHOOSE x \in s : TRUE

\* f sums up the evidence of the subsets of S, taking Some row away from each.
SumsUp(tab, S, f) ==
    f = [s \in SUBSET S |-> IF s = {} THEN 0 ELSE tab[Some(s)].evidence + f[s \ {Some(s)}]]

LEMMA SumIsFold ==
    ASSUME NEW tab, NEW S
    PROVE  SumOf(tab, S) = (CHOOSE f : SumsUp(tab, S, f))[S]
BY Zenon DEF SumOf, MapThenSumSet, MapThenFoldSet, SumsUp, Some

LEMMA LeastNumber ==
    ASSUME NEW T, T \subseteq Nat, T # {}
    PROVE  \E n \in T : \A m \in T : n <= m
<1>1. PICK n \in T : \A m \in T : ~ (<<m, n>> \in OpToRel(<, Nat))
  BY NatLessThanWellFounded, WFMin
<1>2. ASSUME NEW m \in T PROVE n <= m
  <2>1. <<m, n>> \in Nat \X Nat /\ (<<m, n>>)[1] = m /\ (<<m, n>>)[2] = n
    OBVIOUS
  <2>2. ~(m < n)
    BY <1>1, <2>1 DEF OpToRel
  <2> QED BY <2>2
<1> QED BY <1>2

\* Taking a row away from a finite set.
LEMMA OneLess ==
    ASSUME NEW S, IsFiniteSet(S), NEW s \in SUBSET S, NEW x \in s
    PROVE  /\ IsFiniteSet(s) /\ Cardinality(s) \in Nat \ {0}
           /\ s \ {x} \in SUBSET S /\ Cardinality(s \ {x}) = Cardinality(s) - 1
<1>1. IsFiniteSet(s)
  BY FS_Subset
<1>2. Cardinality(s) \in Nat /\ Cardinality(s \ {x}) \in Nat /\ Cardinality(s \ {x}) = Cardinality(s) - 1
  BY <1>1, FS_RemoveElement, FS_CardinalityType
<1> QED BY <1>1, <1>2

LEMMA SomeIn ==
    ASSUME NEW s, s # {}
    PROVE  Some(s) \in s
BY DEF Some

\* There is such a function: it is extended from the subsets of one size to the next.
LEMMA SumsExist ==
    ASSUME NEW tab, NEW S, IsFiniteSet(S), \A i \in S : tab[i].evidence \in Nat
    PROVE  \E f \in [SUBSET S -> Nat] : SumsUp(tab, S, f)
<1> DEFINE Level(n) == {s \in SUBSET S : Cardinality(s) <= n}
           Value(f, s) == IF s = {} THEN 0 ELSE tab[Some(s)].evidence + f[s \ {Some(s)}]
           Partial(n, f) == f \in [Level(n) -> Nat] /\ \A s \in Level(n) : f[s] = Value(f, s)
           Missing == {n \in Nat : ~ \E f : Partial(n, f)}
<1>1. Missing = {}
  <2> SUFFICES ASSUME Missing # {} PROVE FALSE
    OBVIOUS
  <2>1. PICK n \in Missing : \A m \in Missing : n <= m
    <3>1. Missing \subseteq Nat
      OBVIOUS
    <3> QED BY <3>1, LeastNumber
  <2>2. ASSUME NEW g, \A s \in Level(n) \ {{}} : g[s \ {Some(s)}] \in Nat,
               \A s \in Level(n) \ {{}} :
                  \A f : f = [t \in Level(n) |-> Value(g, t)] =>
                             f[s \ {Some(s)}] = g[s \ {Some(s)}]
        PROVE  FALSE
    <3> DEFINE f == [t \in Level(n) |-> Value(g, t)]
    <3>1. \A s \in Level(n) : Value(g, s) \in Nat
      <4> SUFFICES ASSUME NEW s \in Level(n) PROVE Value(g, s) \in Nat
        OBVIOUS
      <4>1. s # {} => tab[Some(s)].evidence \in Nat
        BY SomeIn
      <4> QED BY <2>2, <4>1
    <3>2. f \in [Level(n) -> Nat]
      BY <3>1
    <3>3. \A s \in Level(n) : f[s] = Value(g, s)
      OBVIOUS
    <3>4. \A s \in Level(n) \ {{}} : f[s \ {Some(s)}] = g[s \ {Some(s)}]
      BY <2>2
    <3> HIDE DEF f
    <3>5. \A s \in Level(n) : Value(f, s) = Value(g, s)
      BY <3>4
    <3>6. Partial(n, f)
      BY <3>2, <3>3, <3>5
    <3> QED BY <2>1, <3>6
  <2>3. CASE n = 0
    <3>1. ASSUME NEW s \in Level(n) \ {{}} PROVE FALSE
      <4>1. Some(s) \in s
        BY <3>1, SomeIn
      <4>2. Cardinality(s) \in Nat \ {0}
        BY <4>1, OneLess
      <4> QED BY <2>3, <4>2
    <3> QED BY <2>2, <3>1
  <2>4. CASE n # 0
    <3>1. n - 1 \in Nat /\ n - 1 \notin Missing
      <4>1. n \in Nat
        BY <2>1
      <4>2. n - 1 \in Nat /\ ~(n <= n - 1)
        BY <2>4, <4>1
      <4> QED BY <2>1, <4>2
    <3>2. PICK g : Partial(n - 1, g)
      BY <3>1
    <3>3. ASSUME NEW s \in Level(n) \ {{}}
          PROVE  s \ {Some(s)} \in Level(n - 1) /\ s \ {Some(s)} \in Level(n)
      <4>1. Some(s) \in s
        BY SomeIn
      <4>2. /\ Cardinality(s) \in Nat /\ s \ {Some(s)} \in SUBSET S
            /\ Cardinality(s \ {Some(s)}) = Cardinality(s) - 1
        BY <4>1, OneLess
      <4> QED BY <3>1, <4>2
    <3>4. \A s \in Level(n) \ {{}} : g[s \ {Some(s)}] \in Nat
      BY <3>2, <3>3
    <3>5. ASSUME NEW s \in Level(n) \ {{}}, NEW f, f = [t \in Level(n) |-> Value(g, t)]
          PROVE  f[s \ {Some(s)}] = g[s \ {Some(s)}]
      <4>1. f[s \ {Some(s)}] = Value(g, s \ {Some(s)})
        BY <3>3, <3>5
      <4>2. g[s \ {Some(s)}] = Value(g, s \ {Some(s)})
        BY <3>2, <3>3
      <4> QED BY <4>1, <4>2
    <3> QED BY <2>2, <3>4, <3>5
  <2> QED BY <2>3, <2>4
<1>2. Cardinality(S) \in Nat
  BY FS_CardinalityType
<1>3. PICK f : Partial(Cardinality(S), f)
  BY <1>1, <1>2
<1>4. Level(Cardinality(S)) = SUBSET S
  BY FS_Subset
<1> QED BY <1>3, <1>4 DEF SumsUp

\* Two that agree on the rows agree on the sums.
LEMMA SumsAgree ==
    ASSUME NEW tab, NEW S, NEW f, SumsUp(tab, S, f),
           NEW other, NEW T, NEW g, SumsUp(other, T, g),
           NEW U, IsFiniteSet(U), U \subseteq S, U \subseteq T,
           \A i \in U : tab[i].evidence = other[i].evidence
    PROVE  f[U] = g[U]
<1> DEFINE Differing == {n \in Nat : \E u \in SUBSET U : Cardinality(u) = n /\ f[u] # g[u]}
<1>1. Differing = {}
  <2> SUFFICES ASSUME Differing # {} PROVE FALSE
    OBVIOUS
  <2>1. PICK n \in Differing : \A m \in Differing : n <= m
    <3>1. Differing \subseteq Nat
      OBVIOUS
    <3> QED BY <3>1, LeastNumber
  <2>2. PICK u \in SUBSET U : Cardinality(u) = n /\ f[u] # g[u]
    BY <2>1
  <2>3. u # {} /\ Some(u) \in u
    <3>1. f[{}] = 0 /\ g[{}] = 0
      BY DEF SumsUp
    <3> QED BY <2>2, <3>1, SomeIn
  <2>4. f[u] = tab[Some(u)].evidence + f[u \ {Some(u)}] /\ g[u] = other[Some(u)].evidence + g[u \ {Some(u)}]
    BY <2>3 DEF SumsUp
  <2>5. n \in Nat \ {0} /\ u \ {Some(u)} \in SUBSET U /\ Cardinality(u \ {Some(u)}) = n - 1
    BY <2>2, <2>3, OneLess
  <2>6. f[u \ {Some(u)}] = g[u \ {Some(u)}]
    <3>1. n - 1 \in Nat /\ n - 1 \notin Differing
      BY <2>1, <2>5
    <3> QED BY <2>5, <3>1
  <2> QED BY <2>2, <2>3, <2>4, <2>6
<1>2. Cardinality(U) \in Nat
  BY FS_CardinalityType
<1> QED BY <1>1, <1>2

\* A sum is what any such function says, for rows that have the same evidence.
LEMMA SumIs ==
    ASSUME NEW tab, NEW S, NEW f, SumsUp(tab, S, f), IsFiniteSet(S),
           \A i \in S : tab[i].evidence \in Nat,
           NEW other, NEW U, U \subseteq S, \A i \in U : other[i].evidence = tab[i].evidence
    PROVE  SumOf(other, U) = f[U]
<1>1. IsFiniteSet(U)
  BY FS_Subset
<1>2. \E g : SumsUp(other, U, g)
  BY <1>1, SumsExist
<1>3. PICK g : g = CHOOSE h : SumsUp(other, U, h)
  OBVIOUS
<1>4. SumsUp(other, U, g)
  BY <1>2, <1>3
<1>5. SumOf(other, U) = g[U]
  BY <1>3, SumIsFold
<1> QED BY <1>1, <1>4, <1>5, SumsAgree

AnyFirst(tab, S, f) == \A s \in SUBSET S : \A x \in s : f[s] = tab[x].evidence + f[s \ {x}]

\* Any row may be taken away first.
LEMMA TakeAny ==
    ASSUME NEW tab, NEW S, IsFiniteSet(S), \A i \in S : tab[i].evidence \in Nat,
           NEW f \in [SUBSET S -> Nat], SumsUp(tab, S, f)
    PROVE  AnyFirst(tab, S, f)
<1> DEFINE Differs(u, y) == f[u] # tab[y].evidence + f[u \ {y}]
           Differing == {n \in Nat : \E u \in SUBSET S : Cardinality(u) = n /\ \E y \in u : Differs(u, y)}
<1>1. Differing = {}
  <2> SUFFICES ASSUME Differing # {} PROVE FALSE
    OBVIOUS
  <2>1. PICK n \in Differing : \A m \in Differing : n <= m
    <3>1. Differing \subseteq Nat
      OBVIOUS
    <3> QED BY <3>1, LeastNumber
  <2>2. PICK u \in SUBSET S : Cardinality(u) = n /\ \E y \in u : Differs(u, y)
    BY <2>1
  <2> PICK y \in u : Differs(u, y)
    BY <2>2
  <2>3. PICK z \in u : z = Some(u)
    BY SomeIn
  <2>4. f[u] = tab[z].evidence + f[u \ {z}]
    BY <2>3 DEF SumsUp
  <2>5. y # z
    BY <2>2, <2>4
  <2>6. ASSUME NEW a \in u, NEW b \in u, a # b
        PROVE  f[u \ {a}] = tab[b].evidence + f[(u \ {a}) \ {b}]
    <3>1. n \in Nat \ {0} /\ u \ {a} \in SUBSET S /\ Cardinality(u \ {a}) = n - 1
      BY <2>2, OneLess
    <3>2. n - 1 \in Nat /\ n - 1 \notin Differing
      BY <2>1, <3>1
    <3> QED BY <2>6, <3>1, <3>2
  <2>7. (u \ {y}) \ {z} = (u \ {z}) \ {y} /\ (u \ {y}) \ {z} \in SUBSET S
    OBVIOUS
  <2>8. f[u \ {y}] = tab[z].evidence + f[(u \ {z}) \ {y}]
    BY <2>5, <2>6, <2>7
  <2>9. f[u \ {z}] = tab[y].evidence + f[(u \ {z}) \ {y}]
    BY <2>5, <2>6
  <2>10. tab[y].evidence \in Nat /\ tab[z].evidence \in Nat /\ f[(u \ {z}) \ {y}] \in Nat
    BY <2>7
  <2> QED BY <2>2, <2>4, <2>8, <2>9, <2>10
<1>2. \A s \in SUBSET S : Cardinality(s) \in Nat
  BY FS_Subset, FS_CardinalityType
<1> QED BY <1>1, <1>2 DEF AnyFirst

\* The rows of a part have no more evidence than those of the whole, and the sum of
\* a part only depends on its rows.
LEMMA SumOfPart ==
    ASSUME NEW tab, NEW S, IsFiniteSet(S), \A i \in S : tab[i].evidence \in Nat,
           NEW other, NEW U, U \subseteq S, \A i \in U : other[i].evidence = tab[i].evidence
    PROVE  /\ SumOf(other, U) <= SumOf(tab, S)
           /\ SumOf(other, U) \in Nat /\ SumOf(tab, S) \in Nat
<1>1. PICK f \in [SUBSET S -> Nat] : SumsUp(tab, S, f)
  BY SumsExist
<1>2. SumOf(tab, S) = f[S] /\ SumOf(other, U) = f[U]
  BY <1>1, SumIs
<1>3. AnyFirst(tab, S, f)
  BY <1>1, TakeAny
<1> DEFINE Above == {n \in Nat : \E u \in SUBSET S : Cardinality(S \ u) = n /\ ~(f[u] <= f[S])}
<1>4. Above = {}
  <2> SUFFICES ASSUME Above # {} PROVE FALSE
    OBVIOUS
  <2>1. PICK n \in Above : \A m \in Above : n <= m
    <3>1. Above \subseteq Nat
      OBVIOUS
    <3> QED BY <3>1, LeastNumber
  <2>2. PICK u \in SUBSET S : Cardinality(S \ u) = n /\ ~(f[u] <= f[S])
    BY <2>1
  <2>3. PICK x : x \in S \ u
    <3>1. S \in SUBSET S /\ f[S] <= f[S]
      <4>1. f[S] \in Nat
        OBVIOUS
      <4> QED BY <4>1
    <3>2. u # S
      BY <2>2, <3>1
    <3> QED BY <3>2
  <2>4. f[u \cup {x}] = tab[x].evidence + f[u]
    <3>1. u \cup {x} \in SUBSET S /\ (u \cup {x}) \ {x} = u
      BY <2>3
    <3>2. x \in u \cup {x}
      OBVIOUS
    <3>3. f[u \cup {x}] = tab[x].evidence + f[(u \cup {x}) \ {x}]
      BY <1>3, <3>1, <3>2 DEF AnyFirst
    <3> QED BY <3>1, <3>3
  <2>5. S \ (u \cup {x}) = (S \ u) \ {x} /\ u \cup {x} \in SUBSET S
    BY <2>3
  <2>6. n \in Nat \ {0} /\ Cardinality(S \ (u \cup {x})) = n - 1
    BY <2>2, <2>3, <2>5, OneLess
  <2>7. f[u \cup {x}] <= f[S]
    <3>1. n - 1 \in Nat /\ ~(n <= n - 1)
      BY <2>6
    <3>2. n - 1 \notin Above
      BY <2>1, <3>1
    <3> QED BY <2>5, <2>6, <3>1, <3>2
  <2>8. tab[x].evidence \in Nat /\ f[u] \in Nat /\ f[u \cup {x}] \in Nat /\ f[S] \in Nat
    BY <2>3, <2>5
  <2> QED BY <2>2, <2>4, <2>7, <2>8
<1>5. Cardinality(S \ U) \in Nat
  BY FS_Difference, FS_CardinalityType
<1>6. f[U] <= f[S]
  BY <1>4, <1>5
<1> QED BY <1>2, <1>6

LEMMA NothingSumsToZero ==
    ASSUME NEW tab
    PROVE  SumOf(tab, {}) = 0
<1>1. IsFiniteSet({}) /\ \A i \in {} : tab[i].evidence \in Nat
  BY FS_EmptySet
<1>2. PICK f \in [SUBSET {} -> Nat] : SumsUp(tab, {}, f)
  BY <1>1, SumsExist
<1>3. SumOf(tab, {}) = f[{}]
  BY <1>1, <1>2, SumIs
<1> QED BY <1>2, <1>3 DEF SumsUp

-----------------------------------------------------------------------------
(* Evidence.  What a call holds as the evidence of its group is at least     *)
(* what those rows have that are still there and that nobody has edited      *)
(* since the group was read.                                                 *)

Counted(s) == {i \in merge[s].ids : i \in DOMAIN table /\ i \notin edited[s]}

EvidenceInv ==
    \A s \in Slots :
        pc[s] \in {"insert", "replace"} => SumOf(table, Counted(s)) <= merge[s].evidence

LEMMA InitEvidence == ConsolidationInit => EvidenceInv
BY DEF ConsolidationInit, EvidenceInv

\* The rows of a group are finitely many, each with its evidence.
LEMMA CountedRows ==
    ASSUME MergeInv, NEW S, S \subseteq DOMAIN table
    PROVE  IsFiniteSet(S) /\ \A i \in S : table[i].evidence \in Nat
<1>1. lastId \in Nat /\ DOMAIN table \subseteq 1..lastId /\ table \in [DOMAIN table -> Row]
  BY TableConstants DEF MergeInv, ChainInv, TableTypeOK
<1>2. IsFiniteSet(1..lastId)
  BY <1>1, FS_Interval
<1>3. IsFiniteSet(S)
  BY <1>1, <1>2, FS_Subset
<1> QED BY <1>1, <1>3 DEF Row

\* Rows that go, or are edited, are counted no longer; the others have what they had.
LEMMA FewerCounted ==
    ASSUME MergeInv, EvidenceInv, NEW s \in Slots, pc[s] \in {"insert", "replace"},
           merge'[s].evidence = merge[s].evidence, Counted(s)' \subseteq Counted(s),
           \A i \in Counted(s)' : table'[i].evidence = table[i].evidence
    PROVE  SumOf(table', Counted(s)') <= merge'[s].evidence
<1>1. Counted(s) \subseteq DOMAIN table
  BY DEF Counted
<1>2. IsFiniteSet(Counted(s)) /\ \A i \in Counted(s) : table[i].evidence \in Nat
  BY <1>1, CountedRows
<1>3. PICK U : U = Counted(s)'
  OBVIOUS
<1>4. /\ SumOf(table', U) <= SumOf(table, Counted(s))
      /\ SumOf(table', U) \in Nat /\ SumOf(table, Counted(s)) \in Nat
  BY <1>2, <1>3, SumOfPart
<1>5. SumOf(table, Counted(s)) <= merge[s].evidence /\ merge[s].evidence \in Nat
  BY TableConstants DEF EvidenceInv, MergeInv, CallTypes, Merge
<1> QED BY <1>3, <1>4, <1>5

LEMMA SparedKeepsEvidence ==
    ASSUME MergeInv, EvidenceInv, NEW s \in Slots, Spared(s), pc'[s] = pc[s], merge'[s] = merge[s],
           pc[s] \in {"insert", "replace"}
    PROVE  SumOf(table', Counted(s)') <= merge'[s].evidence
<1>1. \A i \in merge[s].ids : i \in 1..lastId
  BY DEF MergeInv, CallInv, KnownRow
<1>2. Counted(s)' \subseteq Counted(s) /\ \A i \in Counted(s)' : table'[i].evidence = table[i].evidence
  BY <1>1 DEF Counted, Spared
<1> QED BY <1>2, FewerCounted

LEMMA InsertKeepsEvidence ==
    ASSUME MergeInv, EvidenceInv, NEW s \in Slots, NEW b \in BOOLEAN, InsertCanonical(s, b)
    PROVE  SumOf(table', Counted(s)') <= merge'[s].evidence
<1>1. lastId \in Nat /\ merge[s] \in Merge /\ pc[s] = "insert" /\ CallInv(s)
  BY TableConstants DEF MergeInv, ChainInv, TableTypeOK, CallTypes, InsertCanonical, PutCanonical
<1>2. PICK n : n = lastId + 1
  OBVIOUS
<1>3. merge'[s].ids = merge[s].ids /\ merge'[s].evidence = merge[s].evidence
  <2>1. merge'[s] = [merge[s] EXCEPT !.new = n]
    BY <1>2 DEF InsertCanonical, PutCanonical, MergeInv, CallTypes
  <2> QED BY <1>1, <2>1 DEF Merge
<1>4. DOMAIN table' = DOMAIN table \cup {n} /\ \A i \in DOMAIN table' : i # n => table'[i] = table[i]
  BY <1>2 DEF InsertCanonical, PutCanonical, InsertRow
<1>5. \A i \in merge[s].ids : i # n
  BY <1>1, <1>2 DEF CallInv, KnownRow
<1>6. edited' = edited
  BY DEF InsertCanonical, PutCanonical
<1>7. Counted(s)' \subseteq Counted(s) /\ \A i \in Counted(s)' : table'[i].evidence = table[i].evidence
  BY <1>3, <1>4, <1>5, <1>6 DEF Counted
<1> QED BY <1>1, <1>3, <1>7, FewerCounted

\* The group is summed up in the statement that reads it.
LEMMA ReadGroupCounts ==
    ASSUME MergeInv, NEW s \in Slots, NEW S \in Groups(s), NEW f \in Facts, ReadGroup(s, S, f)
    PROVE  SumOf(table', Counted(s)') <= merge'[s].evidence
<1>1. \A i \in S : KnownRow(i, user[s])
  BY DEF MergeInv, CallInv, Groups
<1>2. merge'[s].ids = S /\ merge'[s].evidence = Evidence(S, user[s]) /\ table' = table
  BY DEF ReadGroup, TakeGroup, tableVars, MergeInv, CallTypes
<1>3. PICK R : R = MergedRows(S, user[s])
  OBVIOUS
<1>4. PICK U : U = Counted(s)'
  OBVIOUS
<1>5. U \subseteq R /\ R \subseteq DOMAIN table
  BY <1>1, <1>2, <1>3, <1>4 DEF Counted, KnownRow, MergedRows, RowsOf
<1>6. IsFiniteSet(R) /\ \A i \in R : table[i].evidence \in Nat
  BY <1>5, CountedRows
<1>7. SumOf(table, U) <= SumOf(table, R) /\ SumOf(table, U) \in Nat /\ SumOf(table, R) \in Nat
  BY <1>5, <1>6, SumOfPart
<1>8. CASE R # {}
  <2>1. merge'[s].evidence = SumOf(table, R)
    BY <1>2, <1>3, <1>8 DEF Evidence, EvidenceOf, SumOf
  <2> QED BY <1>2, <1>4, <1>7, <2>1
<1>9. CASE R = {}
  <2>1. U = {} /\ merge'[s].evidence = 1
    BY <1>2, <1>3, <1>5, <1>9 DEF Evidence
  <2>2. SumOf(table, {}) = 0
    BY NothingSumsToZero
  <2> QED BY <1>2, <1>4, <2>1, <2>2
<1> QED BY <1>8, <1>9

LEMMA StepEvidence ==
    MergeInv /\ PrivacyInv /\ EvidenceInv /\ [ConsolidationNext]_vars => EvidenceInv'
<1> SUFFICES ASSUME MergeInv, PrivacyInv, EvidenceInv, [ConsolidationNext]_vars,
                    NEW s \in Slots, pc'[s] \in {"insert", "replace"}
             PROVE  SumOf(table', Counted(s)') <= merge'[s].evidence
  BY DEF EvidenceInv
<1>1. ASSUME Spared(s), pc'[s] = pc[s], merge'[s] = merge[s]
      PROVE  SumOf(table', Counted(s)') <= merge'[s].evidence
  BY <1>1, SparedKeepsEvidence
<1>2. ASSUME NEW r \in Slots \ {s}, SlotStep(r)
      PROVE  SumOf(table', Counted(s)') <= merge'[s].evidence
  BY <1>1, <1>2, SlotStepSpares, SlotStepKeepsOthers DEF PrivacyInv
<1>3. CASE SlotStep(s)
  <2>1. CASE Reads(s)
    <3>1. \E S \in Groups(s), f \in Facts : ReadGroup(s, S, f)
      BY <2>1 DEF Reads, Begin, Count, Select, Mark, Ask, Finish, Refused, ReplaceViolatesKey,
                 Return, Goto, MergeInv, CallTypes
    <3> QED BY <3>1, ReadGroupCounts
  <2>2. ASSUME NEW b \in BOOLEAN, InsertCanonical(s, b)
        PROVE  SumOf(table', Counted(s)') <= merge'[s].evidence
    BY <2>2, InsertKeepsEvidence
  <2>3. CASE ReplaceGroup(s)
    BY <2>3 DEF ReplaceGroup, GiveWay, Goto, MergeInv, CallTypes
  <2> QED BY <1>3, <2>1, <2>2, <2>3, SlotStepCases
<1>4. CASE Write
  <2>1. PICK o \in Owners, f \in Facts, a \in Acls : InsertRow(o, f, a, f \in PermanentFacts, 1, Null, TRUE)
    BY <1>4 DEF Write
  <2>2. pc' = pc /\ merge' = merge /\ edited' = edited
    BY <1>4 DEF Write, callVars
  <2> QED BY <1>1, <2>1, <2>2, InsertSpares
<1>5. ASSUME NEW i \in DOMAIN table, EditRow(i)
      PROVE  SumOf(table', Counted(s)') <= merge'[s].evidence
  BY <1>1, <1>5, EditSpares DEF EditRow, callVars
<1>6. CASE DropRow
  BY <1>1, <1>6, DropSpares DEF DropRow, callVars
<1>7. CASE ThrottleEnds \/ OutOfRows \/ UNCHANGED vars
  <2>1. pc' = pc /\ merge' = merge /\ edited' = edited /\ UNCHANGED tableVars
    BY <1>7 DEF ThrottleEnds, OutOfRows, vars, callVars, tableVars
  <2> QED BY <1>1, <2>1, NoStatementSpares
<1> QED BY <1>2, <1>3, <1>4, <1>5, <1>6, <1>7 DEF ConsolidationNext

\* The rows that give way in this step are rows that were counted.
LEMMA ReplaceKeepsEvidence ==
    ASSUME MergeInv, PrivacyInv, EvidenceInv, [ConsolidationNext]_vars, NEW s \in Slots,
           pc[s] = "replace", pc'[s] = "group"
    PROVE  SumOf(table, {i \in DOMAIN table' \ edited[s] : table'[i].supersededBy = merge[s].new})
               <= merge[s].evidence
<1> DEFINE taken == {i \in DOMAIN table' \ edited[s] : table'[i].supersededBy = merge[s].new}
<1>1. Replace(merge[s].ids, user[s], merge[s].new, FALSE)
  BY MergedByReplace DEF ReplaceGroup, GiveWay
<1>2. \A i \in DOMAIN table : table[i].supersededBy # merge[s].new
  BY DEF PrivacyInv, AclInv
<1>3. taken \subseteq Matched(merge[s].ids, user[s])
  BY <1>1, <1>2 DEF Replace
<1>4. taken \subseteq Counted(s) /\ Counted(s) \subseteq DOMAIN table
  BY <1>3 DEF Matched, Counted
<1>5. IsFiniteSet(Counted(s)) /\ \A i \in Counted(s) : table[i].evidence \in Nat
  BY <1>4, CountedRows
<1> HIDE DEF taken
<1>6. /\ SumOf(table, taken) <= SumOf(table, Counted(s))
      /\ SumOf(table, taken) \in Nat /\ SumOf(table, Counted(s)) \in Nat
  BY <1>4, <1>5, SumOfPart
<1>7. SumOf(table, Counted(s)) <= merge[s].evidence /\ merge[s].evidence \in Nat
  BY TableConstants DEF EvidenceInv, MergeInv, CallTypes, Merge
<1>8. SumOf(table, taken) <= merge[s].evidence
  BY <1>6, <1>7
<1> QED BY <1>8 DEF taken

\* A canonical row starts with at least the evidence of the rows that give way to it
\* and that nobody has edited since they were read, for any number of slots, rows,
\* groups and statements in between (consolidate.js:133-134).
THEOREM EvidenceIsKept == ConsolidationSpec => EvidenceAccumulates
<1>1. MergeInv /\ PrivacyInv /\ EvidenceInv /\ [ConsolidationNext]_vars =>
        [\A s \in Slots : pc[s] = "replace" /\ pc'[s] = "group" =>
            EvidenceOf({i \in DOMAIN table' \ edited[s] : table'[i].supersededBy = merge[s].new})
               <= merge[s].evidence]_vars
  BY ReplaceKeepsEvidence DEF EvidenceOf, SumOf
<1> QED BY <1>1, InitMergeInv, StepMergeInv, InitPrivacy, StepPrivacy, InitEvidence, StepEvidence, PTL
        DEF ConsolidationSpec, EvidenceAccumulates
=============================================================================

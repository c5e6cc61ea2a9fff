---------------------------- MODULE WriterHistory ----------------------------
(***************************************************************************)
(* What a call of writeFacts owes to what happened while it ran.           *)
(*                                                                         *)
(* Slots of one owner overlap (CONCURRENCY is 4 by default) and users      *)
(* delete rows under a call, so what a call has read may be stale when it  *)
(* writes.  Two histories say how stale: the last id handed out before the *)
(* call began, and the rows it relies on that others have deleted since.   *)
(* The properties bound what staleness alone may cause.                    *)
(***************************************************************************)
EXTENDS FactWriter

VARIABLES
    began,   \* history: lastId when a slot's call began
    gone     \* history: rows deleted under a slot's call, of those it relies on

callHistory == <<began, gone>>
callVars == <<vars, callHistory>>

HistoryInit ==
    /\ WriterInit
    /\ began = [s \in Slots |-> 0]
    /\ gone = [s \in Slots |-> {}]

\* The rows the prepared facts of a call wait for.
Held(s) == UNION {{items[s][k].tight} \cup items[s][k].loose : k \in DOMAIN items[s]}

\* The rows a step deletes, softly or for good.
Alive == {i \in DOMAIN table : ~table[i].deleted}
Deleted == Alive \ Alive'

Begun(s) ==
    IF pc[s] = "idle" /\ pc'[s] = "prepare" THEN lastId
    ELSE IF pc'[s] = "idle" THEN 0 ELSE began[s]

Applying(step) == step \in {"prepare", "apply", "retire"}

\* A call that applies facts relies on the rows they wait for; one that prunes, on
\* the rows it has counted.
GoneFrom(s) ==
    IF Applying(pc[s]) /\ Applying(pc'[s]) THEN (gone[s] \cup Deleted) \cap Held(s)'
    ELSE IF pc[s] = "prune" /\ pc'[s] = "prune" THEN gone[s] \cup (Deleted \cap RowsOf(user[s]))
    ELSE {}

HistoryStep ==
    /\ WriterNext
    /\ began' = [s \in Slots |-> Begun(s)]
    /\ gone' = [s \in Slots |-> GoneFrom(s)]

HistorySpec == HistoryInit /\ [][HistoryStep]_callVars

-----------------------------------------------------------------------------
(* What a call promises, however calls and edits overlap. *)

\* The facts a call applies: the first of its items is taken away.
Applies(s) == pc[s] = "apply" /\ items[s] # <<>> /\ items'[s] = Tail(items[s]) /\ pc'[s] # "idle"

\* Write-time dedup (write.js:76-86) misses only what was written under the call: a
\* fact that becomes a row repeats no active row of its owner that is older than the
\* call.  That is less than "Embedding-based dedup (...) still prevents real duplicates"
\* (002_drop_source_ref_unique.sql:6-7): two overlapping calls, a batch that says a
\* thing twice and an embedding that failed do leave near-duplicates.
DuplicatesNeedOverlap ==
    [][\A s \in Slots : Applies(s) /\ Head(items[s]).embedded =>
          \A n \in DOMAIN table' \ DOMAIN table, j \in Searchable(user[s]) :
              <<table'[n].fact, table[j].fact>> \in SameClaim => j > began[s]]_callVars

\* reinforce() drops a fact silently when the row it was found to repeat is gone
\* (write.js:145 and 179).  That takes a row deleted after the fact was prepared, by a
\* user, by another call, or by this one for an earlier fact of its batch: no fact is
\* lost to a row that was gone before.
FactDroppedOnlyWithItsRow ==
    [][\A s \in Slots : Applies(s) /\ table' = table =>
          LET it == Head(items[s]) IN ({it.tight} \cup it.loose) \cap gone[s] # {}]_callVars

\* "if still above the cap, soft-delete the oldest" (write.js:247): a prune takes
\* its owner below the cap by no more rows than others have deleted since it counted.
PruneStopsAtCap ==
    [][\A s \in Slots : pc[s] = "prune" /\ pc'[s] = "idle" /\ faults' = faults =>
          Cardinality(Kept(user[s]) \cap Alive') + Cardinality(gone[s]) >= Cap]_callVars
=============================================================================

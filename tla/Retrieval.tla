------------------------------ MODULE Retrieval ------------------------------
(***************************************************************************)
(* The bots' turns (apps/bot/src/prompt.js) on the rows the fact writer    *)
(* keeps: which facts are put into whose prompt, and the refresh of        *)
(* last_seen_at that prune goes by.                                        *)
(*                                                                         *)
(* Which of the visible rows match a prompt, are seen within               *)
(* KNOWLEDGE_FRESHNESS_DAYS and rank before the LIMIT is data: any set of  *)
(* at most Limit visible rows.  Rules are injected by a query of their     *)
(* own, which reads and refreshes nothing.                                 *)
(***************************************************************************)
EXTENDS WriterHistory

CONSTANTS
    Readers,      \* users with a bot, whether or not they have facts in a run
    Limit,        \* MAX_INJECTED_ENTRIES
    MaxPending    \* bound: refreshes on their way

ASSUME RetrievalConstants == Owners \subseteq Readers /\ Limit \in Nat /\ MaxPending \in Nat

VARIABLES
    refreshing,   \* the sets of ids whose refresh is on its way
    since,        \* history: the rows injected since a row was last seen
    sharing,      \* history: whether a slot's owner has shared during its call
    cleared,      \* history: rows that somebody has let out of their owner's hands
    vouched       \* history: whether all rows a slot read for its group were cleared

turnVars == <<refreshing, since>>
clearVars == <<sharing, cleared, vouched>>
allVars == <<callVars, turnVars, clearVars>>

RetrievalInit ==
    /\ HistoryInit
    /\ refreshing = {}
    /\ since = [i \in Ids |-> {}]
    /\ sharing = [s \in Slots |-> FALSE]
    /\ cleared = {}
    /\ vouched = [s \in Slots |-> FALSE]

-----------------------------------------------------------------------------
\* The WHERE clause of both queries of retrieveContext.
Visible(o) ==
    {i \in DOMAIN table :
        /\ Active(i)
        /\ ~table[i].contradicted
        /\ table[i].category = "general"
        /\ table[i].owner = o \/ table[i].acl = "team"}

\* A turn of o's bot: the query, and its refresh, which nobody waits for.
Inject(o, rows) ==
    /\ rows \subseteq Visible(o)
    /\ rows # {} /\ Cardinality(rows) <= Limit
    /\ Cardinality(refreshing) < MaxPending
    /\ refreshing' = refreshing \cup {rows}
    /\ since' = [j \in Ids |->
                    IF j \in Alive \ rows
                    THEN since[j] \cup {i \in rows : table[i].owner = table[j].owner}
                    ELSE since[j]]
    /\ UNCHANGED <<callVars, clearVars>>

\* Mutant: the refresh does not find its rows.
RefreshNothing(rows) ==
    /\ rows \in refreshing
    /\ refreshing' = refreshing \ {rows}
    /\ UNCHANGED <<callVars, since, clearVars>>

\* The rows that are still there are seen now, deleted or not, all at one time.
Refresh(rows) ==
    LET found == rows \cap DOMAIN table
        rest == DOMAIN table \ found
    IN
    /\ rows \in refreshing
    /\ refreshing' = refreshing \ {rows}
    /\ seenBefore' = {p \in seenBefore : p[1] \notin found /\ p[2] \notin found} \cup (rest \X found)
    /\ since' = [j \in Ids |-> IF j \in found THEN {} ELSE since[j]]
    /\ UNCHANGED <<table, lastId, share, slotVars, runs, faults, callHistory, clearVars>>

\* The error is logged.
RefreshLost(rows) ==
    /\ rows \in refreshing
    /\ refreshing' = refreshing \ {rows}
    /\ since' = [j \in Ids |-> since[j] \ rows]
    /\ UNCHANGED <<callVars, clearVars>>

-----------------------------------------------------------------------------
SeenNow ==
    IF UNCHANGED seenBefore THEN {}
    ELSE {i \in DOMAIN table' : \A j \in DOMAIN table' \ {i} : <<j, i>> \in seenBefore'}

Written == DOMAIN table' \ DOMAIN table

SetByHand == {i \in DOMAIN table \cap DOMAIN table' : table'[i].acl # table[i].acl}

\* The call in slot s writes a row: a fact it was extracted with, while its owner
\* shared, or a canonical row for rows that were all cleared when it read them.
WritesCleared(s) == IF pc[s] = "canon" THEN vouched[s] ELSE pc[s] = "apply" /\ sharing[s]

ClearedBySlot ==
    {i \in Written : \E s \in Slots : user[s] = table'[i].owner /\ <<pc[s], items[s]>>' # <<pc[s], items[s]>>
                                        /\ WritesCleared(s)}

Vouches(s) ==
    IF pc[s] = "merge" THEN pc'[s] = "canon" /\ MergedRows(merge'[s].ids, user[s]) \subseteq cleared
    ELSE pc'[s] = "canon" /\ vouched[s]

\* A step of the writers and the edits, with what the histories make of it.
WriterStep ==
    /\ HistoryStep
    /\ since' = [j \in Ids |->
                    IF j \in Alive' \ SeenNow THEN since[j] \cap Alive' ELSE {}]
    /\ sharing' = [s \in Slots |->
                      user'[s] # Nobody /\ (sharing[s] \/ share'[user'[s]])]
    /\ cleared' = DOMAIN table' \cap (cleared \cup SetByHand \cup ClearedBySlot)
    /\ vouched' = [s \in Slots |-> Vouches(s)]
    /\ UNCHANGED refreshing

RetrievalNext ==
    \/ WriterStep
    \/ \E o \in Readers, rows \in SUBSET Ids : Inject(o, rows)
    \/ \E rows \in refreshing : Refresh(rows) \/ RefreshLost(rows)

RetrievalSpec == RetrievalInit /\ [][RetrievalNext]_allVars

-----------------------------------------------------------------------------
(* What retrieval promises. *)

\* "flip it off and everything that user's bot extracts stays with them"
\* (README.md:82): a teammate's prompt holds only rows that were let out, by a call
\* during which the owner shared or by hand, and canonical rows for such rows.  Rows
\* of a group that were erased before it was read have no say.
OnlyClearedRowsLeave ==
    \A o \in Readers : Visible(o) \ RowsOf(o) \subseteq cleared

\* prune "naturally targets unused facts before useful ones" (write.js:247-249): a
\* row it deletes was not put into a prompt since a row it keeps was last seen,
\* unless the refresh failed or is still on its way.
PruneSparesTheUsed ==
    [][\A s \in Slots :
          pc[s] = "prune" /\ pc'[s] = "idle" =>
              \A i, j \in Kept(user[s]) :
                  /\ ~table[i].permanent /\ ~table[j].permanent
                  /\ table'[i].deleted /\ ~table'[j].deleted
                  /\ i \in since[j]
                  => i \in UNION refreshing]_allVars
=============================================================================

---------------------------- MODULE ChatSession ----------------------------
(***************************************************************************)
(* The rows of chat_sessions that one bot keeps for its owner              *)
(* (apps/bot/src/session.js), and the three things that work on them at    *)
(* once: the handlers of the owner's messages (runAndReply of index.js),   *)
(* the idle sweep of the 30 s timer, and the command /done.                *)
(*                                                                         *)
(* A message is appended in two statements, a SELECT that picks a session  *)
(* and an INSERT or UPDATE that stores into it; a flush reads ids and then *)
(* claims them one by one.  Anything may happen between two statements.    *)
(*                                                                         *)
(* Messages are numbered as they are stored, and the numbers serve as the  *)
(* clock: last_msg_at is a session's last number, flushed_at the number    *)
(* reached when it was flushed.                                            *)
(***************************************************************************)
EXTENDS Naturals, Sequences, FiniteSets

CONSTANTS
    Turns,          \* messages of the owner handled at the same time
    Sweeps,         \* runs of the idle sweep that may overlap
    Commands,       \* /done commands handled at the same time
    MaxPerSession,  \* MAX_MESSAGES_PER_SESSION, 100 in the source
    MinToExtract,   \* 3 in the source
    MaxTurns,       \* bound: messages the owner sends
    MaxFaults       \* bound: statements that fail and restarts of the bot

ASSUME ChatConstants ==
    /\ IsFiniteSet(Turns)
    /\ Sweeps \cap Commands = {}
    /\ MaxPerSession \in Nat \ {0}
    /\ MinToExtract \in Nat
    /\ MaxTurns \in Nat
    /\ MaxFaults \in Nat

Flushers == Sweeps \cup Commands

VARIABLES
    sessions,  \* the rows: a session's messages, and flushed_at (0 for NULL)
    jobs,      \* the rows of extraction_jobs with source 'chat'
    posted,    \* messages stored so far
    aged,      \* messages up to this one are more than IDLE_FLUSH_MS old
    pc,        \* where each handler is inside runAndReply
    target,    \* the session each handler is about to append to: at most one id
    todo,      \* the ids each flusher has still to flush
    sent,      \* messages the owner has sent
    faults

storeVars == <<sessions, jobs, posted>>
turnVars == <<pc, target>>
vars == <<storeVars, aged, turnVars, todo, sent, faults>>

Open == 0
Ids == DOMAIN sessions
Steps == {"idle", "pickAsked", "putAsked", "model", "pickReply", "putReply"}

Init ==
    /\ sessions = <<>>
    /\ jobs = <<>>
    /\ posted = 0
    /\ aged = 0
    /\ pc = [t \in Turns |-> "idle"]
    /\ target = [t \in Turns |-> {}]
    /\ todo = [w \in Flushers |-> {}]
    /\ sent = 0
    /\ faults = 0

Goto(t, step) == pc' = [pc EXCEPT ![t] = step]

Fault == faults < MaxFaults /\ faults' = faults + 1

LastMsgAt(i) == sessions[i].messages[Len(sessions[i].messages)]

OpenIds == {i \in Ids : sessions[i].flushedAt = Open}

\* ORDER BY last_msg_at DESC LIMIT 1
MostRecent(i) == i \in OpenIds /\ \A k \in OpenIds : LastMsgAt(k) <= LastMsgAt(i)

-----------------------------------------------------------------------------
(* appendChatMessage, called twice in a turn: for what the owner said and,   *)
(* after the model has answered, for the reply.                              *)

Full(i) == Len(sessions[i].messages) >= MaxPerSession

\* Mutant: the latest session is taken, flushed or full as it may be.
PickLatest(t) ==
    \/ Ids = {} /\ target' = [target EXCEPT ![t] = {}]
    \/ \E i \in Ids :
          /\ \A k \in Ids : LastMsgAt(k) <= LastMsgAt(i)
          /\ target' = [target EXCEPT ![t] = {i}]

\* The SELECT, with the test that follows it on the rows it returned.
Pick(t) ==
    \/ OpenIds = {} /\ target' = [target EXCEPT ![t] = {}]
    \/ \E i \in OpenIds :
          /\ MostRecent(i)
          /\ target' = [target EXCEPT ![t] = IF Full(i) THEN {} ELSE {i}]

\* The INSERT, or the UPDATE: by id, whatever became of the session meanwhile.
Put(t) ==
    /\ posted' = posted + 1
    /\ \/ /\ target[t] = {}
          /\ sessions' = Append(sessions, [messages |-> <<posted + 1>>, flushedAt |-> Open])
       \/ \E i \in target[t] :
             sessions' = [sessions EXCEPT ![i].messages = Append(@, posted + 1)]
    /\ target' = [target EXCEPT ![t] = {}]
    /\ UNCHANGED jobs

\* A message of the owner arrives; its handler reads the history and begins.
Receive(t) ==
    /\ pc[t] = "idle"
    /\ sent < MaxTurns
    /\ sent' = sent + 1
    /\ Goto(t, "pickAsked")
    /\ UNCHANGED <<storeVars, aged, target, todo, faults>>

PickSession(t) ==
    /\ \/ pc[t] = "pickAsked" /\ Goto(t, "putAsked")
       \/ pc[t] = "pickReply" /\ Goto(t, "putReply")
    /\ Pick(t)
    /\ UNCHANGED <<storeVars, aged, todo, sent, faults>>

PutMessage(t) ==
    /\ \/ pc[t] = "putAsked" /\ Goto(t, "model")
       \/ pc[t] = "putReply" /\ Goto(t, "idle")
    /\ Put(t)
    /\ UNCHANGED <<aged, todo, sent, faults>>

\* The model answered, or threw and the error text is the reply.
Answered(t) ==
    /\ pc[t] = "model"
    /\ Goto(t, "pickReply")
    /\ UNCHANGED <<storeVars, aged, target, todo, sent, faults>>

\* A statement of the handler fails: the rest of the turn is not run.
TurnThrows(t) ==
    /\ pc[t] # "idle"
    /\ Fault
    /\ Goto(t, "idle")
    /\ target' = [target EXCEPT ![t] = {}]
    /\ UNCHANGED <<storeVars, aged, todo, sent>>

-----------------------------------------------------------------------------
(* flushSession: one statement claims the row and enqueues the job.          *)

\* Mutant: the claim does not ask for flushed_at IS NULL.
ClaimableAny(i) == i \in Ids

Claimable(i) == i \in OpenIds

\* Mutant: a session of exactly the minimum counts as trivial.
TalkedMore(i) == Len(sessions[i].messages) > MinToExtract

Talked(i) == Len(sessions[i].messages) >= MinToExtract

Claim(i) ==
    IF Claimable(i)
    THEN /\ sessions' = [sessions EXCEPT ![i].flushedAt = posted]
         /\ jobs' = IF Talked(i)
                    THEN Append(jobs, [session |-> i, messages |-> sessions[i].messages])
                    ELSE jobs
    ELSE UNCHANGED <<sessions, jobs>>

\* A lost reply changes nothing: the row is claimed, and nobody claims it again.
Flush(w, i) ==
    /\ i \in todo[w]
    /\ Claim(i)
    /\ todo' = [todo EXCEPT ![w] = @ \ {i}]
    /\ UNCHANGED <<posted, aged, turnVars, sent, faults>>

\* The statement fails; a sweep goes on with the next id.
FlushFails(w, i) ==
    /\ i \in todo[w]
    /\ Fault
    /\ todo' = [todo EXCEPT ![w] = @ \ {i}]
    /\ UNCHANGED <<storeVars, aged, turnVars, sent>>

\* Mutant: the sweep leaves trivial sessions alone.
IdleIdsTalked == {i \in OpenIds : LastMsgAt(i) <= aged /\ Talked(i)}

IdleIds == {i \in OpenIds : LastMsgAt(i) <= aged}

\* flushIdleSessions reads the ids of the idle sessions, then flushes each.
Sweep(w) ==
    /\ todo[w] = {}
    /\ IdleIds # {}
    /\ todo' = [todo EXCEPT ![w] = IdleIds]
    /\ UNCHANGED <<storeVars, aged, turnVars, sent, faults>>

SweepFindsNothing(w) ==
    /\ todo[w] = {}
    /\ IdleIds = {}
    /\ UNCHANGED vars

\* /done picks the most recent open session, then flushes it.
Done(c) ==
    /\ todo[c] = {}
    /\ \E i \in OpenIds : MostRecent(i) /\ todo' = [todo EXCEPT ![c] = {i}]
    /\ UNCHANGED <<storeVars, aged, turnVars, sent, faults>>

-----------------------------------------------------------------------------
\* Time passes, and messages up to some later one turn IDLE_FLUSH_MS old.
GrowIdle ==
    /\ \E m \in (aged + 1)..posted : aged' = m
    /\ UNCHANGED <<storeVars, turnVars, todo, sent, faults>>

\* The process ends, because of an error nobody caught or a redeploy, and starts again.
Restart ==
    /\ Fault
    /\ pc' = [t \in Turns |-> "idle"]
    /\ target' = [t \in Turns |-> {}]
    /\ todo' = [w \in Flushers |-> {}]
    /\ UNCHANGED <<storeVars, aged, sent>>

TurnStep(t) == Receive(t) \/ PickSession(t) \/ PutMessage(t) \/ Answered(t)

SweepStep(w) == Sweep(w) \/ \E i \in Ids : Flush(w, i)

Next ==
    \/ \E t \in Turns : TurnStep(t) \/ TurnThrows(t)
    \/ \E w \in Sweeps : SweepStep(w) \/ SweepFindsNothing(w)
    \/ \E c \in Commands : Done(c) \/ \E i \in Ids : Flush(c, i)
    \/ \E w \in Flushers, i \in Ids : FlushFails(w, i)
    \/ GrowIdle
    \/ Restart

Spec == Init /\ [][Next]_vars

\* The timer fires every 30 s, its statements return or fail, and time passes.
FairSpec ==
    /\ Spec
    /\ \A w \in Sweeps : WF_vars(SweepStep(w))
    /\ WF_vars(GrowIdle)

-----------------------------------------------------------------------------
(* What the sessions promise. *)

\* Positions of the messages a flushed session had when it was claimed, and of
\* those stored into it later.
Late(i) == {k \in DOMAIN sessions[i].messages :
               sessions[i].flushedAt # Open /\ sessions[i].messages[k] > sessions[i].flushedAt}
Early(i) == DOMAIN sessions[i].messages \ Late(i)

\* Shape of the state; a handler remembers a session only between its SELECT and
\* the statement that stores the message.
TypeOK ==
    /\ sessions \in Seq([messages : Seq(Nat), flushedAt : Nat])
    /\ jobs \in Seq([session : Nat, messages : Seq(Nat)])
    /\ posted \in Nat
    /\ aged \in 0..posted
    /\ pc \in [Turns -> Steps]
    /\ target \in [Turns -> SUBSET Ids]
    /\ \A t \in Turns :
          /\ \A i, k \in target[t] : i = k
          /\ target[t] # {} => pc[t] \in {"putAsked", "putReply"}
    /\ todo \in [Flushers -> SUBSET Ids]
    /\ sent \in 0..MaxTurns
    /\ faults \in 0..MaxFaults

\* "concurrent callers (the /done command + the idle sweep, or two sweeps
\* overlapping) can't double-enqueue" (session.js:78-81): no message is handed
\* to the extractor twice.
ExtractedOnce ==
    \A j, k \in DOMAIN jobs :
        j # k => \A m \in DOMAIN jobs[j].messages, n \in DOMAIN jobs[k].messages :
                    jobs[j].messages[m] # jobs[k].messages[n]

\* A flushed session is never half handed over: the messages it had when it was
\* claimed are one job, all of them in order, unless it was trivial; a failed
\* statement or a restart on the way loses none of them.
TalkIsExtracted ==
    \A i \in Ids :
        sessions[i].flushedAt # Open /\ Cardinality(Early(i)) >= MinToExtract =>
            \E j \in DOMAIN jobs :
                /\ jobs[j].session = i
                /\ DOMAIN jobs[j].messages = Early(i)
                /\ \A k \in Early(i) : jobs[j].messages[k] = sessions[i].messages[k]

\* MAX_MESSAGES_PER_SESSION is read before the append: handlers running at once
\* may exceed it together, each by one message and no more.
SessionsBounded ==
    \A i \in Ids : Len(sessions[i].messages) < MaxPerSession + Cardinality(Turns)

\* What the flush race costs: once a session is flushed, only handlers that had
\* already picked it add to it, one message each.
LateMessagesBounded ==
    \A i \in Ids : Cardinality(Late(i)) <= Cardinality(Turns)

\* Every session is flushed in the end, after failed sweeps and restarts too, and
\* also those that a rollover or two first messages at once left behind.
EverySessionFlushed ==
    \A i \in 1..(2 * MaxTurns) :
        i \in OpenIds ~> i \in Ids \ OpenIds
=============================================================================

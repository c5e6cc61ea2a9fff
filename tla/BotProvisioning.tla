--------------------------- MODULE BotProvisioning ---------------------------
(***************************************************************************)
(* The control-plane creates a user with a bot container of its own,       *)
(* restarts the bot and tears it down (apps/control-plane/src/routes/      *)
(* users.js, lib/docker.js).                                               *)
(*                                                                         *)
(* A request is a chain of statements and Docker calls without a           *)
(* transaction or a lock, so requests for one user may overlap and may     *)
(* stop half-way.  Docker is outside: it keeps at most one container of a  *)
(* name, and the name is made of the user's slug.                          *)
(***************************************************************************)
EXTENDS Naturals

CONSTANTS
    Users,
    Handlers,      \* requests the control-plane works on at a time
    Ops,           \* kinds of request in a run
    FaultKinds,    \* kinds of failure in a run
    MaxContainers, \* bound: containers ever created
    MaxFaults      \* bound: failures

AllOps == {"create", "restart", "delete", "patch"}

Nobody == "nobody"

ASSUME ProvisioningConstants ==
    /\ Nobody \notin Users
    /\ Ops \subseteq AllOps
    /\ FaultKinds \subseteq {"docker", "database", "crash"}
    /\ MaxContainers \in Nat
    /\ MaxFaults \in Nat

VARIABLES
    status,      \* users.status, or "none" without a row
    secrets,     \* users with a row in user_secrets
    instance,    \* instances.container_id, or NoInstance without a row
    container,   \* the container that has the user's name
    lastId,      \* container ids given out
    pc,          \* where each request is
    op,          \* what it is
    target,      \* the user it is about
    made,        \* the container it has created
    disturbed,   \* history: requests that shared their user, or whose teardown failed
    asked,       \* history: whether a DELETE or PATCH was ever accepted for a user
    faults

rowVars == <<status, secrets, instance>>
dockerVars == <<container, lastId>>
requestVars == <<pc, op, target, made>>
vars == <<rowVars, dockerVars, requestVars, disturbed, asked, faults>>

Ids == 1..MaxContainers
Null == 0
NoInstance == MaxContainers + 1
Absent == [id |-> Null, state |-> "absent"]
Statuses == {"none", "provisioning", "active", "disabled"}

Steps == {"idle", "secrets", "stop", "remove", "clear stop", "clear", "create", "start",
          "register", "activate", "disable"}

Init ==
    /\ status = [u \in Users |-> "none"]
    /\ secrets = {}
    /\ instance = [u \in Users |-> NoInstance]
    /\ container = [u \in Users |-> Absent]
    /\ lastId = 0
    /\ pc = [h \in Handlers |-> "idle"]
    /\ op = [h \in Handlers |-> "none"]
    /\ target = [h \in Handlers |-> Nobody]
    /\ made = [h \in Handlers |-> Null]
    /\ disturbed = {}
    /\ asked = [u \in Users |-> {}]
    /\ faults = 0

Goto(h, step) == pc' = [pc EXCEPT ![h] = step] /\ UNCHANGED <<op, target, made, disturbed>>

Answer(h) ==
    /\ pc' = [pc EXCEPT ![h] = "idle"]
    /\ op' = [op EXCEPT ![h] = "none"]
    /\ target' = [target EXCEPT ![h] = Nobody]
    /\ made' = [made EXCEPT ![h] = Null]
    /\ disturbed' = disturbed \ {h}

RequestsFor(u) == {h \in Handlers : target[h] = u}

Accept(h, kind, u, first) ==
    /\ kind \in Ops
    /\ pc[h] = "idle"
    /\ pc' = [pc EXCEPT ![h] = first]
    /\ op' = [op EXCEPT ![h] = kind]
    /\ target' = [target EXCEPT ![h] = u]
    /\ disturbed' = IF RequestsFor(u) = {} THEN disturbed
                     ELSE disturbed \cup RequestsFor(u) \cup {h}
    /\ asked' = [asked EXCEPT ![u] = @ \cup ({kind} \cap {"delete"})]
    /\ UNCHANGED <<secrets, instance, dockerVars, made, faults>>

-----------------------------------------------------------------------------
(* The requests. *)

\* Mutant: the status column is left to its default.
AddUserActive(h, u) ==
    /\ Accept(h, "create", u, "secrets")
    /\ status[u] = "none"
    /\ status' = [status EXCEPT ![u] = "active"]

\* POST /: email is unique, so a user is created once.
AddUser(h, u) ==
    /\ Accept(h, "create", u, "secrets")
    /\ status[u] = "none"
    /\ status' = [status EXCEPT ![u] = "provisioning"]

\* A plain INSERT.  The callback of the Gmail consent (control-plane routes/gmail.js:58)
\* upserts the same row, without a Telegram token; it is left out.  Coming first, it
\* makes this INSERT fail, which is DatabaseThrows, and leaves a row Restart cannot use.
AddSecrets(h) ==
    /\ pc[h] = "secrets"
    /\ secrets' = secrets \cup {target[h]}
    /\ Goto(h, "clear stop")
    /\ UNCHANGED <<status, instance, dockerVars, asked, faults>>

\* POST /:id/restart
Restart(h, u) ==
    /\ Accept(h, "restart", u, "stop")
    /\ status[u] # "none"
    /\ u \in secrets
    /\ UNCHANGED status

\* Mutant: without a row in instances there is nothing to tear down.
DeleteRegistered(h, u) ==
    /\ Accept(h, "delete", u, IF instance[u] = NoInstance THEN "disable" ELSE "stop")
    /\ status[u] # "none"
    /\ UNCHANGED status

\* DELETE /:id; what it purges is in KnowledgeTable and JobQueue.
Delete(h, u) ==
    /\ Accept(h, "delete", u, "stop")
    /\ status[u] # "none"
    /\ UNCHANGED status

\* PATCH /:id sets the status and nothing else.
Patch(u) ==
    /\ "patch" \in Ops
    /\ status[u] # "none"
    /\ \E to \in Statuses \ {"none"} : status' = [status EXCEPT ![u] = to]
    /\ asked' = [asked EXCEPT ![u] = @ \cup {"patch"}]
    /\ UNCHANGED <<secrets, instance, dockerVars, requestVars, disturbed, faults>>

-----------------------------------------------------------------------------
(* teardownBot, and the same two calls at the start of provisionBot.         *)

AfterRemove(h) ==
    CASE pc[h] = "clear"    -> "create"
      [] op[h] = "restart"  -> "clear stop"
      [] OTHER              -> "disable"

StopNamed(h) ==
    LET u == target[h] IN
    /\ pc[h] \in {"stop", "clear stop"}
    /\ container' = IF container[u].state = "running"
                     THEN [container EXCEPT ![u].state = "exited"]
                     ELSE container
    /\ Goto(h, IF pc[h] = "stop" THEN "remove" ELSE "clear")
    /\ UNCHANGED <<rowVars, lastId, asked, faults>>

\* Mutant: the container is only stopped.
RemoveNot(h) ==
    /\ pc[h] \in {"remove", "clear"}
    /\ Goto(h, AfterRemove(h))
    /\ UNCHANGED <<rowVars, dockerVars, asked, faults>>

RemoveNamed(h) ==
    /\ pc[h] \in {"remove", "clear"}
    /\ container' = [container EXCEPT ![target[h]] = Absent]
    /\ Goto(h, AfterRemove(h))
    /\ UNCHANGED <<rowVars, lastId, asked, faults>>

\* Stopping or removing fails: the error is swallowed.
Unheeded(h) ==
    /\ "docker" \in FaultKinds
    /\ faults < MaxFaults
    /\ faults' = faults + 1
    /\ \/ /\ pc[h] \in {"stop", "clear stop"}
          /\ pc' = [pc EXCEPT ![h] = IF @ = "stop" THEN "remove" ELSE "clear"]
       \/ /\ pc[h] \in {"remove", "clear"}
          /\ pc' = [pc EXCEPT ![h] = AfterRemove(h)]
    /\ disturbed' = disturbed \cup {h}
    /\ UNCHANGED <<rowVars, dockerVars, op, target, made, asked>>

-----------------------------------------------------------------------------
(* provisionBot: create, start; then the rows.                               *)

CreateContainer(h) ==
    LET u == target[h] IN
    /\ pc[h] = "create"
    /\ container[u] = Absent
    /\ lastId < MaxContainers
    /\ lastId' = lastId + 1
    /\ container' = [container EXCEPT ![u] = [id |-> lastId', state |-> "created"]]
    /\ made' = [made EXCEPT ![h] = lastId']
    /\ pc' = [pc EXCEPT ![h] = "start"]
    /\ UNCHANGED <<rowVars, op, target, disturbed, asked, faults>>

StartContainer(h) ==
    LET u == target[h] IN
    /\ pc[h] = "start"
    /\ container[u].id = made[h]
    /\ container' = [container EXCEPT ![u].state = "running"]
    /\ Goto(h, "register")
    /\ UNCHANGED <<rowVars, lastId, asked, faults>>

\* A new user is disabled when the bot cannot be started; a restart just fails.
ProvisioningFails(h) ==
    IF op[h] = "create" THEN Goto(h, "disable") ELSE Answer(h)

\* The name is taken, or the container was removed by another request.
Conflict(h) ==
    /\ \/ pc[h] = "create" /\ container[target[h]] # Absent
       \/ pc[h] = "start" /\ container[target[h]].id # made[h]
    /\ ProvisioningFails(h)
    /\ UNCHANGED <<rowVars, dockerVars, asked, faults>>

\* CLAUDE_CODE_HOME is not set, or Docker refuses.
DockerThrows(h) ==
    /\ "docker" \in FaultKinds
    /\ faults < MaxFaults
    /\ faults' = faults + 1
    /\ pc[h] \in {"create", "start"}
    /\ ProvisioningFails(h)
    /\ UNCHANGED <<rowVars, dockerVars, asked>>

Register(h) ==
    /\ pc[h] = "register"
    /\ instance' = [instance EXCEPT ![target[h]] = made[h]]
    /\ IF op[h] = "create" THEN Goto(h, "activate") ELSE Answer(h)
    /\ UNCHANGED <<status, secrets, dockerVars, asked, faults>>

Activate(h) ==
    /\ pc[h] = "activate"
    /\ status' = [status EXCEPT ![target[h]] = "active"]
    /\ Answer(h)
    /\ UNCHANGED <<secrets, instance, dockerVars, asked, faults>>

\* The last statement of DELETE, and of a creation that failed.
Disable(h) ==
    /\ pc[h] = "disable"
    /\ status' = [status EXCEPT ![target[h]] = "disabled"]
    /\ Answer(h)
    /\ UNCHANGED <<secrets, instance, dockerVars, asked, faults>>

-----------------------------------------------------------------------------
(* The bot, and failures.                                                    *)

\* registerInstance at boot: the row is made if the control-plane has not yet.
BotBoots(u) ==
    /\ container[u].state = "running"
    /\ instance[u] = NoInstance
    /\ instance' = [instance EXCEPT ![u] = Null]
    /\ UNCHANGED <<status, secrets, dockerVars, requestVars, disturbed, asked, faults>>

\* A statement is refused: the request is answered with 500.
DatabaseThrows(h) ==
    /\ "database" \in FaultKinds
    /\ faults < MaxFaults
    /\ faults' = faults + 1
    /\ pc[h] \in {"secrets", "register", "activate", "disable"}
    /\ Answer(h)
    /\ UNCHANGED <<rowVars, dockerVars, asked>>

\* The control-plane ends; the bots run on.
Crash ==
    /\ "crash" \in FaultKinds
    /\ faults < MaxFaults
    /\ faults' = faults + 1
    /\ \E h \in Handlers : pc[h] # "idle"
    /\ pc' = [h \in Handlers |-> "idle"]
    /\ op' = [h \in Handlers |-> "none"]
    /\ target' = [h \in Handlers |-> Nobody]
    /\ made' = [h \in Handlers |-> Null]
    /\ disturbed' = {}
    /\ UNCHANGED <<rowVars, dockerVars, asked>>

\* The bound on containers is reached: requests that would create one wait.
OutOfContainers == lastId = MaxContainers /\ UNCHANGED vars

RequestStep(h) ==
    \/ \E u \in Users : AddUser(h, u) \/ Restart(h, u) \/ Delete(h, u)
    \/ AddSecrets(h)
    \/ StopNamed(h) \/ RemoveNamed(h) \/ Unheeded(h)
    \/ CreateContainer(h) \/ StartContainer(h) \/ Conflict(h) \/ DockerThrows(h)
    \/ Register(h) \/ Activate(h) \/ Disable(h)
    \/ DatabaseThrows(h)

Next ==
    \/ \E h \in Handlers : RequestStep(h)
    \/ \E u \in Users : Patch(u) \/ BotBoots(u)
    \/ Crash
    \/ OutOfContainers

Spec == Init /\ [][Next]_vars

-----------------------------------------------------------------------------
(* What provisioning promises. *)

\* Shape of the state; a request has a container of its own only once it has
\* created one.
TypeOK ==
    /\ status \in [Users -> Statuses]
    /\ secrets \subseteq Users
    /\ instance \in [Users -> Ids \cup {Null, NoInstance}]
    /\ container \in [Users -> [id : Ids \cup {Null}, state : {"absent", "created", "running", "exited"}]]
    /\ \A u \in Users : container[u].id = Null <=> container[u] = Absent
    /\ lastId \in 0..MaxContainers
    /\ pc \in [Handlers -> Steps]
    /\ op \in [Handlers -> AllOps \cup {"none"}]
    /\ target \in [Handlers -> Users \cup {Nobody}]
    /\ made \in [Handlers -> Ids \cup {Null}]
    /\ \A h \in Handlers :
          /\ pc[h] = "idle" <=> target[h] = Nobody
          /\ pc[h] \in {"start", "register", "activate"} => made[h] # Null
    /\ disturbed \subseteq Handlers
    /\ asked \in [Users -> SUBSET {"delete", "patch"}]
    /\ faults \in 0..MaxFaults

\* "Marks the user active" comes last (README.md:190-193): whatever fails, an
\* active user has a token to restart the bot with and a row the bot beats into,
\* unless an admin has set the status by hand.
ActiveIsProvisioned ==
    \A u \in Users :
        status[u] = "active" /\ "patch" \notin asked[u] =>
            u \in secrets /\ instance[u] # NoInstance

\* However creations and restarts of one user overlap, and whichever of them
\* lose the race for the name, the user's bot is running when all are over; only
\* a DELETE or a failure from outside takes it away.
RestartsLeaveBot ==
    \A u \in Users :
        status[u] # "none" /\ RequestsFor(u) = {} /\ "delete" \notin asked[u] /\ faults = 0 =>
            container[u].state = "running"

\* "Disable + tear down" (users.js:191): a DELETE leaves no running bot, whatever
\* the requests before it left behind, unless Docker refuses the teardown or another
\* request for the user was under way, which may bring the bot up again.
DeletedStaysDown ==
    [][\A h \in Handlers \ disturbed :
          pc[h] = "disable" /\ op[h] = "delete" /\ pc'[h] = "idle" =>
              container'[target[h]].state # "running"]_vars
=============================================================================

------------------------ MODULE BotProvisioningProofs ------------------------
(***************************************************************************)
(* Proofs about the bots: how they are provisioned and how they are        *)
(* deployed.                                                               *)
(*                                                                         *)
(* BotProvisioning, for any users, overlapping requests and failures: an   *)
(* active user has a token and a row in instances, restarts leave the bot  *)
(* running, and a DELETE takes it down.                                    *)
(*                                                                         *)
(* Deployment, for any history of commits, users and failures: what        *)
(* migrate.js records is in order, code never runs ahead of its schema,    *)
(* and a deployment that ran to its end leaves nothing behind.             *)
(***************************************************************************)
EXTENDS BotProvisioning, Deployment, TLAPS

(* What a creation has achieved by the time it activates its user: the row of
   secrets, which nothing deletes, and a row of instances that names a
   container. *)

SecretsFirst ==
    \A h \in Handlers : op[h] = "create" /\ pc[h] # "secrets" => target[h] \in secrets

RegisteredFirst ==
    \A h \in Handlers :
        pc[h] = "activate" => op[h] = "create" /\ instance[target[h]] # NoInstance

IInv == TypeOK /\ SecretsFirst /\ RegisteredFirst /\ ActiveIsProvisioned

LEMMA InitIInv == Init => IInv
BY ProvisioningConstants
   DEF Init, IInv, TypeOK, SecretsFirst, RegisteredFirst, ActiveIsProvisioned, Statuses, Steps,
       Ids, Null, NoInstance, Absent, AllOps

-----------------------------------------------------------------------------
(* The shape of the state. *)

\* A request is accepted: its handler leaves the idle state for a step of its kind.
LEMMA AcceptTypeOK ==
    ASSUME TypeOK, NEW h \in Handlers, NEW u \in Users, NEW kind \in AllOps,
           NEW first \in {"secrets", "stop"}, Accept(h, kind, u, first), status' \in [Users -> Statuses]
    PROVE  TypeOK'
<1> USE ProvisioningConstants DEF TypeOK, Accept, dockerVars
<1>1. asked' \in [Users -> SUBSET {"delete", "patch"}]
  OBVIOUS
<1>2. disturbed' \subseteq Handlers
  BY DEF RequestsFor
<1>3. /\ pc' \in [Handlers -> Steps]
      /\ op' \in [Handlers -> AllOps \cup {"none"}]
      /\ target' \in [Handlers -> Users \cup {Nobody}]
  BY DEF Steps, AllOps
<1>4. \A g \in Handlers :
          /\ pc'[g] = "idle" <=> target'[g] = Nobody
          /\ pc'[g] \in {"start", "register", "activate"} => made'[g] # Null
  OBVIOUS
<1> QED BY <1>1, <1>2, <1>3, <1>4

\* A request is over.
LEMMA AnswerTypeOK ==
    ASSUME TypeOK, NEW h \in Handlers, Answer(h),
           status' \in [Users -> Statuses],
           instance' \in [Users -> Ids \cup {Null, NoInstance}],
           UNCHANGED <<secrets, dockerVars, asked>>, faults' \in 0..MaxFaults
    PROVE  TypeOK'
BY ProvisioningConstants DEF TypeOK, Answer, dockerVars, Steps, Null

\* A request goes on, with the container it has.
LEMMA GotoTypeOK ==
    ASSUME TypeOK, NEW h \in Handlers, pc[h] # "idle", NEW step \in Steps \ {"idle"}, Goto(h, step),
           step \in {"start", "register", "activate"} => made[h] # Null,
           instance' \in [Users -> Ids \cup {Null, NoInstance}],
           secrets' \subseteq Users,
           container' \in [Users -> [id : Ids \cup {Null},
                                     state : {"absent", "created", "running", "exited"}]],
           \A u \in Users : container'[u].id = Null <=> container'[u] = Absent,
           UNCHANGED <<status, lastId, asked>>, faults' \in 0..MaxFaults
    PROVE  TypeOK'
BY ProvisioningConstants DEF TypeOK, Goto, Steps

LEMMA TargetIsUser ==
    ASSUME TypeOK, NEW h \in Handlers, pc[h] # "idle" PROVE target[h] \in Users
BY DEF TypeOK

LEMMA OneMore ==
    ASSUME faults \in 0..MaxFaults, faults < MaxFaults, faults' = faults + 1
    PROVE  faults' \in 0..MaxFaults
BY ProvisioningConstants

LEMMA StepTypeOK == TypeOK /\ [Next]_vars => TypeOK'
<1> SUFFICES ASSUME TypeOK, [Next]_vars PROVE TypeOK'
  OBVIOUS
<1> USE ProvisioningConstants
<1>1. ASSUME NEW h \in Handlers, NEW u \in Users, AddUser(h, u) PROVE TypeOK'
  BY <1>1, AcceptTypeOK DEF AddUser, TypeOK, Statuses, AllOps
<1>2. ASSUME NEW h \in Handlers, NEW u \in Users, Restart(h, u) \/ Delete(h, u) PROVE TypeOK'
  BY <1>2, AcceptTypeOK DEF Restart, Delete, TypeOK, AllOps
<1>3. ASSUME NEW h \in Handlers, AddSecrets(h) PROVE TypeOK'
  BY <1>3, GotoTypeOK, TargetIsUser DEF AddSecrets, dockerVars, Steps, TypeOK
<1>4. ASSUME NEW h \in Handlers, StopNamed(h) PROVE TypeOK'
  <2>1. target[h] \in Users /\ pc[h] # "idle"
    BY <1>4, TargetIsUser DEF StopNamed
  <2>2. /\ container' \in [Users -> [id : Ids \cup {Null},
                                     state : {"absent", "created", "running", "exited"}]]
        /\ \A u \in Users : container'[u].id = Null <=> container'[u] = Absent
    <3>1. CASE container[target[h]].state = "running"
      <4>1. container' = [container EXCEPT ![target[h]].state = "exited"]
        BY <1>4, <3>1 DEF StopNamed
      <4>2. container[target[h]].id # Null
        BY <2>1, <3>1 DEF TypeOK, Absent
      <4> QED BY <2>1, <4>1, <4>2 DEF TypeOK, Absent
    <3>2. CASE container[target[h]].state # "running"
      BY <1>4, <3>2 DEF StopNamed, TypeOK
    <3> QED BY <3>1, <3>2
  <2> QED BY <1>4, <2>1, <2>2, GotoTypeOK DEF StopNamed, rowVars, Steps, TypeOK
<1>5. ASSUME NEW h \in Handlers, RemoveNamed(h) PROVE TypeOK'
  <2>1. target[h] \in Users /\ pc[h] # "idle"
    BY <1>5, TargetIsUser DEF RemoveNamed
  <2>2. /\ container' \in [Users -> [id : Ids \cup {Null},
                                     state : {"absent", "created", "running", "exited"}]]
        /\ \A u \in Users : container'[u].id = Null <=> container'[u] = Absent
    BY <1>5, <2>1 DEF RemoveNamed, TypeOK, Absent, Ids, Null
  <2>3. AfterRemove(h) \in {"create", "clear stop", "disable"}
    BY DEF AfterRemove
  <2> QED BY <1>5, <2>1, <2>2, <2>3, GotoTypeOK DEF RemoveNamed, rowVars, Steps, TypeOK
<1>6. ASSUME NEW h \in Handlers, Unheeded(h) PROVE TypeOK'
  <2>1. AfterRemove(h) \in {"create", "clear stop", "disable"}
    BY DEF AfterRemove
  <2>2. pc[h] # "idle"
    BY <1>6 DEF Unheeded
  <2>3. PICK step \in {"remove", "clear", "create", "clear stop", "disable"} :
            pc' = [pc EXCEPT ![h] = step]
    <3>1. CASE pc[h] \in {"stop", "clear stop"}
      BY <1>6, <3>1 DEF Unheeded, TypeOK
    <3>2. CASE pc[h] \in {"remove", "clear"}
      BY <1>6, <2>1, <3>2 DEF Unheeded, TypeOK
    <3> QED BY <1>6, <3>1, <3>2 DEF Unheeded
  <2>4. /\ pc' \in [Handlers -> Steps]
        /\ \A g \in Handlers :
              /\ pc'[g] = "idle" <=> pc[g] = "idle"
              /\ pc'[g] \in {"start", "register", "activate"} => pc'[g] = pc[g]
    BY <2>2, <2>3 DEF TypeOK, Steps
  <2>5. /\ disturbed' \subseteq Handlers /\ faults' \in 0..MaxFaults
        /\ UNCHANGED <<rowVars, dockerVars, op, target, made, asked>>
    <3>1. disturbed' \subseteq Handlers /\ UNCHANGED <<rowVars, dockerVars, op, target, made, asked>>
      BY <1>6 DEF Unheeded, TypeOK
    <3>2. faults < MaxFaults /\ faults' = faults + 1
      BY <1>6 DEF Unheeded
    <3>3. faults \in 0..MaxFaults
      BY DEF TypeOK
    <3>4. faults' \in 0..MaxFaults
      BY <3>2, <3>3, OneMore
    <3> QED BY <3>1, <3>4
  <2> QED BY <2>4, <2>5 DEF TypeOK, rowVars, dockerVars
<1>7. ASSUME NEW h \in Handlers, CreateContainer(h) PROVE TypeOK'
  <2>1. target[h] \in Users
    BY <1>7, TargetIsUser DEF CreateContainer
  <2>2. lastId' \in 1..MaxContainers
    BY <1>7 DEF CreateContainer, TypeOK
  <2>3. /\ container' \in [Users -> [id : Ids \cup {Null},
                                     state : {"absent", "created", "running", "exited"}]]
        /\ \A u \in Users : container'[u].id = Null <=> container'[u] = Absent
    BY <1>7, <2>1, <2>2 DEF CreateContainer, TypeOK, Absent, Ids, Null
  <2>4. /\ pc' \in [Handlers -> Steps]
        /\ made' \in [Handlers -> Ids \cup {Null}]
        /\ \A g \in Handlers :
              /\ pc'[g] = "idle" <=> target'[g] = Nobody
              /\ pc'[g] \in {"start", "register", "activate"} => made'[g] # Null
    <3>1. /\ pc' = [pc EXCEPT ![h] = "start"] /\ made' = [made EXCEPT ![h] = lastId']
          /\ pc[h] = "create" /\ UNCHANGED target
      BY <1>7 DEF CreateContainer
    <3>2. lastId' \in Ids /\ lastId' # Null
      BY <2>2, ProvisioningConstants DEF Ids, Null
    <3> QED BY <3>1, <3>2 DEF TypeOK, Steps
  <2> QED BY <1>7, <2>2, <2>3, <2>4 DEF CreateContainer, TypeOK, rowVars
<1>8. ASSUME NEW h \in Handlers, StartContainer(h) PROVE TypeOK'
  <2>1. target[h] \in Users /\ pc[h] # "idle" /\ made[h] # Null
    BY <1>8, TargetIsUser DEF StartContainer, TypeOK
  <2>2. /\ container' \in [Users -> [id : Ids \cup {Null},
                                     state : {"absent", "created", "running", "exited"}]]
        /\ \A u \in Users : container'[u].id = Null <=> container'[u] = Absent
    BY <1>8, <2>1 DEF StartContainer, TypeOK, Absent
  <2> QED BY <1>8, <2>1, <2>2, GotoTypeOK DEF StartContainer, rowVars, Steps, TypeOK
<1>9. ASSUME NEW h \in Handlers, Conflict(h) \/ DockerThrows(h) PROVE TypeOK'
  <2>1. /\ pc[h] # "idle"
        /\ ProvisioningFails(h)
        /\ UNCHANGED <<rowVars, dockerVars, asked>>
        /\ faults' \in 0..MaxFaults
    BY <1>9 DEF Conflict, DockerThrows, TypeOK
  <2> QED BY <2>1, AnswerTypeOK, GotoTypeOK DEF ProvisioningFails, rowVars, dockerVars, Steps, TypeOK
<1>10. ASSUME NEW h \in Handlers, Register(h) PROVE TypeOK'
  <2>1. target[h] \in Users /\ made[h] # Null
    BY <1>10, TargetIsUser DEF Register, TypeOK
  <2>2. instance' \in [Users -> Ids \cup {Null, NoInstance}]
    BY <1>10 DEF Register, TypeOK
  <2>3. CASE op[h] = "create"
    BY <1>10, <2>1, <2>2, <2>3, GotoTypeOK DEF Register, dockerVars, Steps, TypeOK
  <2>4. CASE op[h] # "create"
    BY <1>10, <2>2, <2>4, AnswerTypeOK DEF Register, TypeOK
  <2> QED BY <2>3, <2>4
<1>11. ASSUME NEW h \in Handlers, Activate(h) \/ Disable(h) PROVE TypeOK'
  BY <1>11, AnswerTypeOK DEF Activate, Disable, TypeOK, Statuses
<1>12. ASSUME NEW h \in Handlers, DatabaseThrows(h) PROVE TypeOK'
  BY <1>12, AnswerTypeOK DEF DatabaseThrows, rowVars, TypeOK
<1>13. ASSUME NEW u \in Users, Patch(u) PROVE TypeOK'
  BY <1>13 DEF Patch, TypeOK, Statuses, dockerVars, requestVars
<1>14. ASSUME NEW u \in Users, BotBoots(u) PROVE TypeOK'
  BY <1>14 DEF BotBoots, TypeOK, dockerVars, requestVars
<1>15. CASE Crash
  <2>1. /\ pc' \in [Handlers -> Steps]
        /\ op' \in [Handlers -> AllOps \cup {"none"}]
        /\ target' \in [Handlers -> Users \cup {Nobody}]
        /\ made' \in [Handlers -> Ids \cup {Null}]
        /\ \A h \in Handlers : pc'[h] = "idle" /\ target'[h] = Nobody
    BY <1>15 DEF Crash, Steps
  <2> QED BY <1>15, <2>1 DEF Crash, TypeOK, rowVars, dockerVars
<1>16. CASE UNCHANGED vars
  BY <1>16 DEF vars, TypeOK, rowVars, dockerVars, requestVars
<1>17. ASSUME NEW h \in Handlers, RequestStep(h) PROVE TypeOK'
  BY <1>1, <1>2, <1>3, <1>4, <1>5, <1>6, <1>7, <1>8, <1>9, <1>10, <1>11, <1>12, <1>17
     DEF RequestStep
<1> QED BY <1>13, <1>14, <1>15, <1>16, <1>17 DEF Next, OutOfContainers
-----------------------------------------------------------------------------
(* What a creation has achieved. *)

LEMMA StepSecretsFirst == TypeOK /\ SecretsFirst /\ [Next]_vars => SecretsFirst'
<1> SUFFICES ASSUME TypeOK, SecretsFirst, [Next]_vars PROVE SecretsFirst'
  OBVIOUS
<1> USE DEF TypeOK, SecretsFirst
<1>1. ASSUME NEW h \in Handlers, NEW u \in Users, AddUser(h, u) \/ Restart(h, u) \/ Delete(h, u)
      PROVE  SecretsFirst'
  BY <1>1 DEF AddUser, Restart, Delete, Accept
<1>2. ASSUME NEW h \in Handlers, AddSecrets(h) PROVE SecretsFirst'
  BY <1>2 DEF AddSecrets, Goto
<1>3. ASSUME NEW h \in Handlers,
             StopNamed(h) \/ RemoveNamed(h) \/ StartContainer(h)
      PROVE  SecretsFirst'
  BY <1>3 DEF StopNamed, RemoveNamed, AfterRemove, StartContainer, Goto, rowVars
<1>4. ASSUME NEW h \in Handlers, Unheeded(h) \/ CreateContainer(h) PROVE SecretsFirst'
  BY <1>4 DEF Unheeded, AfterRemove, CreateContainer, rowVars
<1>5. ASSUME NEW h \in Handlers, Conflict(h) \/ DockerThrows(h) PROVE SecretsFirst'
  BY <1>5 DEF Conflict, DockerThrows, ProvisioningFails, Answer, Goto, rowVars
<1>6. ASSUME NEW h \in Handlers,
             Register(h) \/ Activate(h) \/ Disable(h) \/ DatabaseThrows(h)
      PROVE  SecretsFirst'
  BY <1>6 DEF Register, Activate, Disable, DatabaseThrows, Answer, Goto, rowVars
<1>7. ASSUME NEW u \in Users, Patch(u) \/ BotBoots(u) PROVE SecretsFirst'
  BY <1>7 DEF Patch, BotBoots, requestVars
<1>8. CASE Crash
  BY <1>8 DEF Crash, rowVars
<1>9. CASE UNCHANGED vars
  BY <1>9 DEF vars, rowVars, requestVars
<1>10. ASSUME NEW h \in Handlers, RequestStep(h) PROVE SecretsFirst'
  BY <1>1, <1>2, <1>3, <1>4, <1>5, <1>6, <1>10 DEF RequestStep
<1> QED BY <1>7, <1>8, <1>9, <1>10 DEF Next, OutOfContainers

\* No row of instances is ever removed.
LEMMA InstanceStays ==
    ASSUME TypeOK, [Next]_vars, NEW u \in Users, instance[u] # NoInstance
    PROVE  instance'[u] # NoInstance
<1>1. ASSUME NEW h \in Handlers, Register(h) PROVE instance'[u] # NoInstance
  BY <1>1, ProvisioningConstants DEF Register, TypeOK, Ids, Null, NoInstance
<1>2. ASSUME NEW v \in Users, BotBoots(v) PROVE instance'[u] # NoInstance
  BY <1>2, ProvisioningConstants DEF BotBoots, TypeOK, Null, NoInstance
<1>3. ASSUME NEW h \in Handlers, RequestStep(h), ~Register(h) PROVE UNCHANGED instance
  BY <1>3 DEF RequestStep, AddUser, Restart, Delete, Accept, AddSecrets, StopNamed, RemoveNamed,
     Unheeded, CreateContainer, StartContainer, Conflict, DockerThrows, Activate, Disable,
     DatabaseThrows, rowVars
<1>4. ASSUME (\E v \in Users : Patch(v)) \/ Crash \/ UNCHANGED vars PROVE UNCHANGED instance
  BY <1>4 DEF Patch, Crash, vars, rowVars
<1> QED BY <1>1, <1>2, <1>3, <1>4 DEF Next, OutOfContainers

LEMMA StepRegisteredFirst ==
    ASSUME TypeOK, RegisteredFirst, [Next]_vars PROVE RegisteredFirst'
<1> USE DEF RegisteredFirst
<1>1. SUFFICES ASSUME NEW h \in Handlers, pc'[h] = "activate"
               PROVE  op'[h] = "create" /\ instance'[target'[h]] # NoInstance
  OBVIOUS
<1>2. CASE pc[h] = "activate" /\ op'[h] = op[h] /\ target'[h] = target[h]
  BY <1>2, InstanceStays DEF TypeOK
<1>3. CASE Register(h)
  <2>1. made[h] \in Ids /\ target[h] \in Users /\ op[h] = "create"
    BY <1>1, <1>3 DEF Register, Answer, TypeOK, Null
  <2> QED BY <1>1, <1>3, <2>1, ProvisioningConstants
          DEF Register, Goto, TypeOK, Ids, NoInstance
<1>4. ASSUME NEW g \in Handlers, RequestStep(g), ~Register(h)
      PROVE  pc[h] = "activate" /\ op'[h] = op[h] /\ target'[h] = target[h]
  <2>1. ASSUME NEW u \in Users, AddUser(g, u) \/ Restart(g, u) \/ Delete(g, u)
        PROVE  pc[h] = "activate" /\ op'[h] = op[h] /\ target'[h] = target[h]
    BY <1>1, <2>1 DEF AddUser, Restart, Delete, Accept, TypeOK
  <2>2. ASSUME AddSecrets(g) \/ StopNamed(g) \/ RemoveNamed(g) \/ StartContainer(g)
        PROVE  pc[h] = "activate" /\ op'[h] = op[h] /\ target'[h] = target[h]
    BY <1>1, <2>2 DEF AddSecrets, StopNamed, RemoveNamed, AfterRemove, StartContainer, Goto, TypeOK
  <2>3. ASSUME Unheeded(g) \/ CreateContainer(g)
        PROVE  pc[h] = "activate" /\ op'[h] = op[h] /\ target'[h] = target[h]
    BY <1>1, <2>3 DEF Unheeded, AfterRemove, CreateContainer, TypeOK
  <2>4. ASSUME Conflict(g) \/ DockerThrows(g)
        PROVE  pc[h] = "activate" /\ op'[h] = op[h] /\ target'[h] = target[h]
    BY <1>1, <2>4 DEF Conflict, DockerThrows, ProvisioningFails, Answer, Goto, TypeOK
  <2>5. ASSUME Activate(g) \/ Disable(g) \/ DatabaseThrows(g)
        PROVE  pc[h] = "activate" /\ op'[h] = op[h] /\ target'[h] = target[h]
    BY <1>1, <2>5 DEF Activate, Disable, DatabaseThrows, Answer, TypeOK
  <2>6. ASSUME Register(g), g # h
        PROVE  pc[h] = "activate" /\ op'[h] = op[h] /\ target'[h] = target[h]
    BY <1>1, <2>6 DEF Register, Answer, Goto, TypeOK
  <2> QED BY <1>4, <2>1, <2>2, <2>3, <2>4, <2>5, <2>6 DEF RequestStep
<1>5. ASSUME NEW u \in Users, Patch(u) \/ BotBoots(u)
      PROVE  pc[h] = "activate" /\ op'[h] = op[h] /\ target'[h] = target[h]
  BY <1>1, <1>5 DEF Patch, BotBoots, requestVars
<1>6. ~Crash
  BY <1>1 DEF Crash
<1>7. CASE UNCHANGED vars
  BY <1>1, <1>2, <1>7 DEF vars, requestVars
<1> QED BY <1>2, <1>3, <1>4, <1>5, <1>6, <1>7 DEF Next, OutOfContainers

LEMMA StepActiveIsProvisioned ==
    ASSUME IInv, [Next]_vars PROVE ActiveIsProvisioned'
<1> USE DEF IInv, ActiveIsProvisioned
<1>1. SUFFICES ASSUME NEW u \in Users, status'[u] = "active", "patch" \notin asked'[u]
               PROVE  u \in secrets' /\ instance'[u] # NoInstance
  OBVIOUS
<1>2. secrets \subseteq secrets' /\ \A v \in Users : asked[v] \subseteq asked'[v]
  <2>1. ASSUME NEW h \in Handlers, RequestStep(h)
        PROVE  secrets \subseteq secrets' /\ \A v \in Users : asked[v] \subseteq asked'[v]
    <3>1. ASSUME NEW v \in Users, NEW kind \in AllOps, asked' = [asked EXCEPT ![v] = @ \cup ({kind} \cap {"delete"})]
          PROVE  \A w \in Users : asked[w] \subseteq asked'[w]
      BY <3>1 DEF TypeOK
    <3>2. ASSUME NEW v \in Users, AddUser(h, v) \/ Restart(h, v) \/ Delete(h, v)
          PROVE  secrets \subseteq secrets' /\ \A w \in Users : asked[w] \subseteq asked'[w]
      BY <3>1, <3>2 DEF AddUser, Restart, Delete, Accept, AllOps
    <3>3. ASSUME \A v \in Users : ~AddUser(h, v) /\ ~Restart(h, v) /\ ~Delete(h, v)
          PROVE  secrets \subseteq secrets' /\ UNCHANGED asked
      BY <2>1, <3>3 DEF RequestStep, AddSecrets, StopNamed, RemoveNamed, Unheeded, CreateContainer,
         StartContainer, Conflict, DockerThrows, Register, Activate, Disable, DatabaseThrows, rowVars
    <3> QED BY <3>2, <3>3
  <2>2. ASSUME (\E v \in Users : Patch(v) \/ BotBoots(v)) \/ Crash \/ UNCHANGED vars
        PROVE  secrets \subseteq secrets' /\ \A v \in Users : asked[v] \subseteq asked'[v]
    BY <2>2 DEF Patch, BotBoots, Crash, vars, rowVars, TypeOK
  <2> QED BY <2>1, <2>2 DEF Next, OutOfContainers
<1>3. CASE status[u] = "active"
  BY <1>1, <1>2, <1>3, InstanceStays
<1>4. ASSUME NEW h \in Handlers, Activate(h), status[u] # "active"
      PROVE  u \in secrets' /\ instance'[u] # NoInstance
  <2>1. target[h] = u
    BY <1>1, <1>4 DEF Activate, TypeOK
  <2>2. u \in secrets /\ instance[u] # NoInstance
    BY <1>4, <2>1 DEF Activate, SecretsFirst, RegisteredFirst
  <2> QED BY <1>2, <2>2, InstanceStays
<1>5. ASSUME NEW h \in Handlers, RequestStep(h), ~Activate(h), status[u] # "active"
      PROVE  FALSE
  BY <1>1, <1>5 DEF RequestStep, AddUser, Restart, Delete, Accept, AddSecrets, StopNamed,
     RemoveNamed, Unheeded, CreateContainer, StartContainer, Conflict, DockerThrows, Register,
     Disable, DatabaseThrows, rowVars, TypeOK
<1>6. ASSUME NEW v \in Users, Patch(v), status[u] # "active" PROVE FALSE
  BY <1>1, <1>6 DEF Patch, TypeOK
<1>7. ASSUME (\E v \in Users : BotBoots(v)) \/ Crash \/ UNCHANGED vars, status[u] # "active"
      PROVE  FALSE
  BY <1>1, <1>7 DEF BotBoots, Crash, vars, rowVars
<1> QED BY <1>3, <1>4, <1>5, <1>6, <1>7 DEF Next, OutOfContainers

LEMMA StepIInv == IInv /\ [Next]_vars => IInv'
BY StepTypeOK, StepSecretsFirst, StepRegisteredFirst, StepActiveIsProvisioned DEF IInv

LEMMA AlwaysIInv == Spec => []IInv
<1> QED BY InitIInv, StepIInv, PTL DEF Spec

-----------------------------------------------------------------------------
(* A creation or a restart leaves the bot running. *)

\* A request is about a user that exists, and so is a container.
KnownUsers ==
    /\ \A h \in Handlers : target[h] # Nobody => status[target[h]] # "none"
    /\ \A u \in Users : container[u] # Absent => status[u] # "none"

\* Only a restart or a DELETE tears down, and a DELETE is remembered.
Teardowns ==
    /\ \A h \in Handlers : pc[h] \in {"stop", "remove"} => op[h] \in {"restart", "delete"}
    /\ \A h \in Handlers : op[h] = "delete" => target[h] \in Users /\ "delete" \in asked[target[h]]

\* The bot runs, or a request under way is about to start it: the one that stopped
\* the container creates another, and the one that created it starts it.
WillRun(u) ==
    \/ container[u].state = "running"
    \/ /\ container[u].state = "exited"
       /\ \E h \in RequestsFor(u) : pc[h] \in {"remove", "clear"}
    \/ /\ container[u].state = "created"
       /\ \E h \in RequestsFor(u) : pc[h] = "start" /\ made[h] = container[u].id
    \/ /\ container[u] = Absent
       /\ \E h \in RequestsFor(u) :
             pc[h] \in {"secrets", "stop", "remove", "clear stop", "clear", "create"}

BotWillRun ==
    \A u \in Users :
        status[u] # "none" /\ "delete" \notin asked[u] /\ faults = 0 => WillRun(u)

LEMMA StepKnownUsers == ASSUME TypeOK, KnownUsers, [Next]_vars PROVE KnownUsers'
<1> USE ProvisioningConstants DEF TypeOK, KnownUsers
<1>1. ASSUME NEW h \in Handlers, NEW u \in Users, AddUser(h, u) \/ Restart(h, u) \/ Delete(h, u)
      PROVE  KnownUsers'
  BY <1>1 DEF AddUser, Restart, Delete, Accept, dockerVars, Statuses
<1>2. ASSUME NEW h \in Handlers, AddSecrets(h) \/ Register(h) PROVE KnownUsers'
  BY <1>2 DEF AddSecrets, Register, Goto, Answer, dockerVars
<1>3. ASSUME NEW h \in Handlers, StopNamed(h) \/ RemoveNamed(h) \/ StartContainer(h)
      PROVE  KnownUsers'
  <2>1. target[h] \in Users /\ status[target[h]] # "none" /\ UNCHANGED <<status, target>>
    BY <1>3 DEF StopNamed, RemoveNamed, StartContainer, Goto, rowVars
  <2>2. \A u \in Users \ {target[h]} : container'[u] = container[u]
    BY <1>3 DEF StopNamed, RemoveNamed, StartContainer
  <2> QED BY <2>1, <2>2
<1>4. ASSUME NEW h \in Handlers, CreateContainer(h) PROVE KnownUsers'
  <2>1. target[h] \in Users /\ status[target[h]] # "none" /\ UNCHANGED <<status, target>>
    BY <1>4 DEF CreateContainer, rowVars
  <2>2. \A u \in Users \ {target[h]} : container'[u] = container[u]
    BY <1>4 DEF CreateContainer
  <2> QED BY <2>1, <2>2
<1>5. ASSUME NEW h \in Handlers,
             Unheeded(h) \/ Conflict(h) \/ DockerThrows(h) \/ DatabaseThrows(h)
      PROVE  KnownUsers'
  BY <1>5 DEF Unheeded, Conflict, DockerThrows, DatabaseThrows, ProvisioningFails, Goto, Answer,
     rowVars, dockerVars
<1>6. ASSUME NEW h \in Handlers, Activate(h) \/ Disable(h) PROVE KnownUsers'
  BY <1>6 DEF Activate, Disable, Answer, dockerVars
<1>7. ASSUME NEW u \in Users, Patch(u) \/ BotBoots(u) PROVE KnownUsers'
  BY <1>7 DEF Patch, BotBoots, requestVars, dockerVars
<1>8. CASE Crash
  BY <1>8 DEF Crash, rowVars, dockerVars
<1>9. CASE UNCHANGED vars
  BY <1>9 DEF vars, rowVars, dockerVars, requestVars
<1>10. ASSUME NEW h \in Handlers, RequestStep(h) PROVE KnownUsers'
  BY <1>1, <1>2, <1>3, <1>4, <1>5, <1>6, <1>10 DEF RequestStep
<1> QED BY <1>7, <1>8, <1>9, <1>10 DEF Next, OutOfContainers

LEMMA StepTeardowns == ASSUME TypeOK, Teardowns, [Next]_vars PROVE Teardowns'
<1> USE ProvisioningConstants DEF TypeOK, Teardowns
<1>1. ASSUME NEW h \in Handlers, NEW u \in Users, AddUser(h, u) \/ Restart(h, u) \/ Delete(h, u)
      PROVE  Teardowns'
  <2>1. PICK kind \in AllOps, first \in {"secrets", "stop"} :
            /\ Accept(h, kind, u, first)
            /\ first = "stop" => kind \in {"restart", "delete"}
    BY <1>1 DEF AddUser, Restart, Delete, AllOps
  <2>2. /\ op' = [op EXCEPT ![h] = kind] /\ target' = [target EXCEPT ![h] = u]
        /\ pc' = [pc EXCEPT ![h] = first]
        /\ asked' = [asked EXCEPT ![u] = @ \cup ({kind} \cap {"delete"})]
    BY <2>1 DEF Accept
  <2>3. \A v \in Users : asked[v] \subseteq asked'[v]
    BY <2>2
  <2>4. kind = "delete" => "delete" \in asked'[u]
    BY <2>2
  <2> QED BY <2>1, <2>2, <2>3, <2>4
<1>2. ASSUME NEW h \in Handlers, AddSecrets(h) \/ Register(h) \/ StartContainer(h) PROVE Teardowns'
  <2>1. UNCHANGED asked
    BY <1>2 DEF AddSecrets, Register, StartContainer
  <2>2. (\E step \in {"clear stop", "register", "activate"} : Goto(h, step)) \/ Answer(h)
    BY <1>2 DEF AddSecrets, Register, StartContainer
  <2>3. CASE Answer(h)
    BY <2>1, <2>3 DEF Answer
  <2>4. ASSUME NEW step \in {"clear stop", "register", "activate"}, Goto(h, step) PROVE Teardowns'
    BY <2>1, <2>4 DEF Goto
  <2> QED BY <2>2, <2>3, <2>4
<1>3. ASSUME NEW h \in Handlers, StopNamed(h) \/ RemoveNamed(h) PROVE Teardowns'
  BY <1>3 DEF StopNamed, RemoveNamed, AfterRemove, Goto
<1>4. ASSUME NEW h \in Handlers, CreateContainer(h) \/ Unheeded(h) PROVE Teardowns'
  BY <1>4 DEF CreateContainer, Unheeded, AfterRemove
<1>5. ASSUME NEW h \in Handlers, Conflict(h) \/ DockerThrows(h) \/ DatabaseThrows(h)
      PROVE  Teardowns'
  BY <1>5 DEF Conflict, DockerThrows, DatabaseThrows, ProvisioningFails, Goto, Answer
<1>6. ASSUME NEW h \in Handlers, Activate(h) \/ Disable(h) PROVE Teardowns'
  BY <1>6 DEF Activate, Disable, Answer
<1>7. ASSUME NEW u \in Users, Patch(u) \/ BotBoots(u) PROVE Teardowns'
  BY <1>7 DEF Patch, BotBoots, requestVars
<1>8. CASE Crash
  BY <1>8 DEF Crash
<1>9. CASE UNCHANGED vars
  BY <1>9 DEF vars, requestVars
<1>10. ASSUME NEW h \in Handlers, RequestStep(h) PROVE Teardowns'
  BY <1>1, <1>2, <1>3, <1>4, <1>5, <1>6, <1>10 DEF RequestStep
<1> QED BY <1>7, <1>8, <1>9, <1>10 DEF Next, OutOfContainers

\* Nothing takes a DELETE or a failure back.
LEMMA HistoryGrows ==
    ASSUME TypeOK, [Next]_vars
    PROVE  /\ faults' = 0 => UNCHANGED faults
           /\ \A u \in Users : asked[u] \subseteq asked'[u]
<1>1. ASSUME NEW h \in Handlers, RequestStep(h)
      PROVE  /\ faults' = 0 => UNCHANGED faults
             /\ \A u \in Users : asked[u] \subseteq asked'[u]
  <2>1. ASSUME NEW u \in Users, AddUser(h, u) \/ Restart(h, u) \/ Delete(h, u)
        PROVE  UNCHANGED faults /\ \A v \in Users : asked[v] \subseteq asked'[v]
    BY <2>1 DEF AddUser, Restart, Delete, Accept, TypeOK
  <2>2. ASSUME \A u \in Users : ~AddUser(h, u) /\ ~Restart(h, u) /\ ~Delete(h, u)
        PROVE  UNCHANGED asked /\ (UNCHANGED faults \/ faults' = faults + 1)
    BY <1>1, <2>2 DEF RequestStep, AddSecrets, StopNamed, RemoveNamed, Unheeded, CreateContainer,
       StartContainer, Conflict, DockerThrows, Register, Activate, Disable, DatabaseThrows
  <2> QED BY <2>1, <2>2 DEF TypeOK
<1>2. ASSUME (\E u \in Users : Patch(u) \/ BotBoots(u)) \/ Crash \/ UNCHANGED vars
      PROVE  /\ faults' = 0 => UNCHANGED faults
             /\ \A u \in Users : asked[u] \subseteq asked'[u]
  BY <1>2 DEF Patch, BotBoots, Crash, vars, TypeOK
<1> QED BY <1>1, <1>2 DEF Next, OutOfContainers

\* The bot still will run when its container is as it was and whoever has yet to
\* stop, create or start it stays or moves on towards that.
LEMMA WillRunKept ==
    ASSUME TypeOK, NEW u \in Users, WillRun(u), container'[u] = container[u],
           \A g \in RequestsFor(u) :
              pc[g] \in {"secrets", "stop", "remove", "clear stop", "clear", "create", "start"} =>
                 /\ target'[g] = target[g]
                 /\ \/ pc'[g] = pc[g] /\ made'[g] = made[g]
                    \/ /\ pc[g] \in {"secrets", "stop", "clear stop"}
                       /\ pc'[g] \in {"remove", "clear stop", "clear"}
    PROVE  WillRun(u)'
<1> USE DEF RequestsFor
<1>1. CASE container[u].state = "running"
  BY <1>1 DEF WillRun
<1>2. ASSUME NEW h \in RequestsFor(u), container[u].state = "exited", pc[h] \in {"remove", "clear"}
      PROVE  WillRun(u)'
  BY <1>2 DEF WillRun
<1>3. ASSUME NEW h \in RequestsFor(u), container[u].state = "created",
             pc[h] = "start", made[h] = container[u].id
      PROVE  WillRun(u)'
  BY <1>3 DEF WillRun
<1>4. ASSUME NEW h \in RequestsFor(u), container[u] = Absent,
             pc[h] \in {"secrets", "stop", "remove", "clear stop", "clear", "create"}
      PROVE  WillRun(u)'
  BY <1>4 DEF WillRun
<1> QED BY <1>1, <1>2, <1>3, <1>4 DEF WillRun

LEMMA StepBotWillRun ==
    ASSUME TypeOK, KnownUsers, Teardowns, BotWillRun, [Next]_vars PROVE BotWillRun'
<1> SUFFICES ASSUME NEW u \in Users, status'[u] # "none", "delete" \notin asked'[u], faults' = 0
             PROVE  WillRun(u)'
  BY DEF BotWillRun
<1>1. faults = 0 /\ UNCHANGED faults /\ "delete" \notin asked[u]
  BY HistoryGrows
<1>2. ASSUME NEW h \in Handlers, AddUser(h, u) PROVE WillRun(u)'
  <2>1. status[u] = "none" /\ container[u] = Absent /\ UNCHANGED container
    BY <1>2 DEF AddUser, Accept, KnownUsers, dockerVars
  <2>2. pc'[h] = "secrets" /\ target'[h] = u
    BY <1>2 DEF AddUser, Accept, TypeOK
  <2> QED BY <2>1, <2>2 DEF WillRun, RequestsFor
<1>3. CASE status[u] = "none" /\ \A h \in Handlers : ~AddUser(h, u)
  <2>1. ASSUME NEW h \in Handlers, RequestStep(h) PROVE FALSE
    <3>1. ASSUME NEW v \in Users, AddUser(h, v) PROVE FALSE
      BY <1>3, <3>1 DEF AddUser, TypeOK
    <3>2. ASSUME Activate(h) \/ Disable(h) PROVE FALSE
      BY <1>3, <3>2 DEF Activate, Disable, TypeOK, KnownUsers
    <3> QED BY <1>3, <2>1, <3>1, <3>2
            DEF RequestStep, Restart, Delete, AddSecrets, StopNamed, RemoveNamed, Unheeded,
                CreateContainer, StartContainer, Conflict, DockerThrows, Register,
                DatabaseThrows, rowVars
  <2>2. ASSUME (\E v \in Users : Patch(v) \/ BotBoots(v)) \/ Crash \/ UNCHANGED vars PROVE FALSE
    BY <1>3, <2>2 DEF Patch, BotBoots, Crash, vars, rowVars, TypeOK
  <2> QED BY <2>1, <2>2 DEF Next, OutOfContainers
<1>4. CASE status[u] # "none"
  <2>1. WillRun(u)
    BY <1>1, <1>4 DEF BotWillRun
  <2>2. ASSUME NEW h \in Handlers, NEW v \in Users, AddUser(h, v) \/ Restart(h, v) \/ Delete(h, v)
        PROVE  WillRun(u)'
    <3>1. /\ pc[h] = "idle" /\ UNCHANGED <<container, made>>
          /\ \A g \in Handlers \ {h} : pc'[g] = pc[g] /\ target'[g] = target[g]
      BY <2>2 DEF AddUser, Restart, Delete, Accept, dockerVars, TypeOK
    <3> QED BY <2>1, <3>1, WillRunKept DEF RequestsFor
  <2>3. ASSUME NEW h \in Handlers, AddSecrets(h) PROVE WillRun(u)'
    <3>1. /\ pc[h] = "secrets" /\ pc'[h] = "clear stop" /\ UNCHANGED <<container, target, made>>
          /\ \A g \in Handlers \ {h} : pc'[g] = pc[g]
      BY <2>3 DEF AddSecrets, Goto, dockerVars, TypeOK
    <3> QED BY <2>1, <3>1, WillRunKept DEF RequestsFor
  <2>4. ASSUME NEW h \in Handlers, StopNamed(h) PROVE WillRun(u)'
    <3>1. /\ UNCHANGED <<target, made>>
          /\ \A g \in Handlers \ {h} : pc'[g] = pc[g]
          /\ \/ pc[h] = "stop" /\ pc'[h] = "remove"
             \/ pc[h] = "clear stop" /\ pc'[h] = "clear"
      BY <2>4 DEF StopNamed, Goto, TypeOK
    <3>2. CASE target[h] = u /\ container[u].state = "running"
      <4>1. container'[u].state = "exited"
        BY <2>4, <3>2 DEF StopNamed, TypeOK
      <4> QED BY <3>1, <3>2, <4>1 DEF WillRun, RequestsFor
    <3>3. CASE ~(target[h] = u /\ container[u].state = "running")
      <4>1. container'[u] = container[u]
        BY <2>4, <3>3 DEF StopNamed, TypeOK
      <4> QED BY <2>1, <3>1, <4>1, WillRunKept DEF RequestsFor
    <3> QED BY <3>2, <3>3
  <2>5. ASSUME NEW h \in Handlers, RemoveNamed(h) PROVE WillRun(u)'
    <3>1. /\ UNCHANGED <<target, made>>
          /\ \A g \in Handlers \ {h} : pc'[g] = pc[g]
          /\ pc[h] \in {"remove", "clear"} /\ pc'[h] = AfterRemove(h)
      BY <2>5 DEF RemoveNamed, Goto, TypeOK
    <3>2. CASE target[h] = u
      <4>1. container'[u] = Absent
        BY <2>5, <3>2 DEF RemoveNamed, TypeOK
      <4>2. pc'[h] \in {"create", "clear stop"}
        BY <1>1, <3>1, <3>2 DEF AfterRemove, Teardowns
      <4> QED BY <3>1, <3>2, <4>1, <4>2 DEF WillRun, RequestsFor
    <3>3. CASE target[h] # u
      <4>1. container'[u] = container[u]
        BY <2>5, <3>3 DEF RemoveNamed, TypeOK
      <4> QED BY <2>1, <3>1, <3>3, <4>1, WillRunKept DEF RequestsFor
    <3> QED BY <3>2, <3>3
  <2>6. ASSUME NEW h \in Handlers, CreateContainer(h) PROVE WillRun(u)'
    <3>1. /\ UNCHANGED target /\ pc[h] = "create" /\ pc'[h] = "start" /\ made'[h] = lastId'
          /\ \A g \in Handlers \ {h} : pc'[g] = pc[g] /\ made'[g] = made[g]
      BY <2>6 DEF CreateContainer, TypeOK
    <3>2. CASE target[h] = u
      <4>1. container'[u] = [id |-> lastId', state |-> "created"]
        BY <2>6, <3>2 DEF CreateContainer, TypeOK
      <4>2. container'[u].state = "created" /\ container'[u].id = made'[h]
        BY <3>1, <4>1
      <4>3. h \in RequestsFor(u)'
        BY <3>1, <3>2 DEF RequestsFor
      <4> QED BY <3>1, <4>2, <4>3 DEF WillRun
    <3>3. CASE target[h] # u
      <4>1. container'[u] = container[u]
        BY <2>6, <3>3 DEF CreateContainer, TypeOK
      <4> QED BY <2>1, <3>1, <3>3, <4>1, WillRunKept DEF RequestsFor
    <3> QED BY <3>2, <3>3
  <2>7. ASSUME NEW h \in Handlers, StartContainer(h) PROVE WillRun(u)'
    <3>1. CASE target[h] = u
      <4>1. container'[u].state = "running"
        BY <2>7, <3>1 DEF StartContainer, TypeOK
      <4> QED BY <4>1 DEF WillRun
    <3>2. CASE target[h] # u
      <4>1. /\ container'[u] = container[u] /\ UNCHANGED <<target, made>>
            /\ \A g \in Handlers \ {h} : pc'[g] = pc[g]
        BY <2>7, <3>2 DEF StartContainer, Goto, TypeOK
      <4> QED BY <2>1, <3>2, <4>1, WillRunKept DEF RequestsFor
    <3> QED BY <3>1, <3>2
  <2>8. ASSUME NEW h \in Handlers, Conflict(h) PROVE WillRun(u)'
    <3>1. UNCHANGED container /\ (\/ pc[h] = "create" /\ container[target[h]] # Absent
                                  \/ pc[h] = "start" /\ container[target[h]].id # made[h])
      BY <2>8 DEF Conflict, dockerVars
    <3>2. \A g \in Handlers \ {h} : pc'[g] = pc[g] /\ target'[g] = target[g] /\ made'[g] = made[g]
      BY <2>8 DEF Conflict, ProvisioningFails, Goto, Answer, TypeOK
    <3> QED BY <2>1, <3>1, <3>2 DEF WillRun, RequestsFor
  <2>9. ASSUME NEW h \in Handlers, Register(h) \/ Activate(h) \/ Disable(h) PROVE WillRun(u)'
    <3>1. UNCHANGED container /\ pc[h] \in {"register", "activate", "disable"}
      BY <2>9 DEF Register, Activate, Disable, dockerVars
    <3>2. \A g \in Handlers \ {h} : pc'[g] = pc[g] /\ target'[g] = target[g] /\ made'[g] = made[g]
      BY <2>9 DEF Register, Activate, Disable, Goto, Answer, TypeOK
    <3> QED BY <2>1, <3>1, <3>2, WillRunKept DEF RequestsFor
  <2>10. ASSUME NEW h \in Handlers, Unheeded(h) \/ DockerThrows(h) \/ DatabaseThrows(h) PROVE FALSE
    BY <1>1, <2>10 DEF Unheeded, DockerThrows, DatabaseThrows
  <2>11. ASSUME NEW v \in Users, Patch(v) \/ BotBoots(v) PROVE WillRun(u)'
    <3>1. UNCHANGED <<container, pc, target, made>>
      BY <2>11 DEF Patch, BotBoots, dockerVars, requestVars
    <3> QED BY <2>1, <3>1, WillRunKept
  <2>12. ~Crash
    BY <1>1 DEF Crash
  <2>13. CASE UNCHANGED vars
    <3>1. UNCHANGED <<container, pc, target, made>>
      BY <2>13 DEF vars, dockerVars, requestVars
    <3> QED BY <2>1, <3>1, WillRunKept
  <2>14. ASSUME NEW h \in Handlers, RequestStep(h) PROVE WillRun(u)'
    BY <2>2, <2>3, <2>4, <2>5, <2>6, <2>7, <2>8, <2>9, <2>10, <2>14 DEF RequestStep
  <2> QED BY <2>11, <2>12, <2>13, <2>14 DEF Next, OutOfContainers
<1> QED BY <1>2, <1>3, <1>4

-----------------------------------------------------------------------------
(* A DELETE tears the bot down for good. *)

\* A request that has not been disturbed is the only one about its user.
Alone ==
    \A h \in Handlers \ disturbed :
        target[h] # Nobody => \A g \in Handlers \ {h} : target[g] # target[h]

\* By the time an undisturbed DELETE sets the status, no bot of its user runs.
TornDown ==
    \A h \in Handlers \ disturbed :
        op[h] = "delete" /\ pc[h] = "disable" =>
            target[h] \in Users /\ container[target[h]].state # "running"

LEMMA StepAlone == ASSUME TypeOK, Alone, [Next]_vars PROVE Alone'
<1> USE ProvisioningConstants DEF TypeOK, Alone
<1>1. ASSUME NEW h \in Handlers, NEW u \in Users, AddUser(h, u) \/ Restart(h, u) \/ Delete(h, u)
      PROVE  Alone'
  <2>1. /\ target' = [target EXCEPT ![h] = u]
        /\ disturbed' = IF RequestsFor(u) = {} THEN disturbed
                        ELSE disturbed \cup RequestsFor(u) \cup {h}
    BY <1>1 DEF AddUser, Restart, Delete, Accept
  <2>2. CASE RequestsFor(u) = {}
    BY <2>1, <2>2 DEF RequestsFor
  <2>3. CASE RequestsFor(u) # {}
    BY <2>1, <2>3 DEF RequestsFor
  <2> QED BY <2>2, <2>3
<1>2. ASSUME NEW h \in Handlers, Answer(h) PROVE Alone'
  BY <1>2 DEF Answer
<1>3. ASSUME disturbed \subseteq disturbed', UNCHANGED target PROVE Alone'
  BY <1>3
<1>4. ASSUME NEW h \in Handlers, RequestStep(h),
             \A u \in Users : ~AddUser(h, u) /\ ~Restart(h, u) /\ ~Delete(h, u)
      PROVE  Answer(h) \/ (disturbed \subseteq disturbed' /\ UNCHANGED target)
  BY <1>4 DEF RequestStep, AddSecrets, StopNamed, RemoveNamed, Unheeded, CreateContainer,
     StartContainer, Conflict, DockerThrows, ProvisioningFails, Register, Activate, Disable,
     DatabaseThrows, Goto
<1>5. ASSUME (\E u \in Users : Patch(u) \/ BotBoots(u)) \/ UNCHANGED vars PROVE Alone'
  BY <1>3, <1>5 DEF Patch, BotBoots, vars, requestVars
<1>6. CASE Crash
  BY <1>6 DEF Crash
<1> QED BY <1>1, <1>2, <1>3, <1>4, <1>5, <1>6 DEF Next, OutOfContainers

\* The container of a user is touched by the requests about that user only.
LEMMA OthersContainerKept ==
    ASSUME TypeOK, [Next]_vars, NEW u \in Users, container'[u] # container[u]
    PROVE  \E g \in RequestsFor(u) :
              StopNamed(g) \/ RemoveNamed(g) \/ CreateContainer(g) \/ StartContainer(g)
<1>1. ASSUME NEW g \in Handlers,
             StopNamed(g) \/ RemoveNamed(g) \/ CreateContainer(g) \/ StartContainer(g)
      PROVE  target[g] = u
  BY <1>1 DEF StopNamed, RemoveNamed, CreateContainer, StartContainer, TypeOK
<1>2. ASSUME NEW g \in Handlers, RequestStep(g)
      PROVE  StopNamed(g) \/ RemoveNamed(g) \/ CreateContainer(g) \/ StartContainer(g)
  BY <1>2 DEF RequestStep, AddUser, Restart, Delete, Accept, AddSecrets, Unheeded, Conflict,
     DockerThrows, Register, Activate, Disable, DatabaseThrows, dockerVars
<1>3. ~(\E v \in Users : Patch(v) \/ BotBoots(v)) /\ ~Crash /\ ~UNCHANGED vars
  BY DEF Patch, BotBoots, Crash, vars, dockerVars
<1> QED BY <1>1, <1>2, <1>3 DEF Next, OutOfContainers, RequestsFor

\* A DELETE comes to its last statement by removing the container.
LEMMA DisableAfterRemove ==
    ASSUME TypeOK, Teardowns, [Next]_vars, NEW h \in Handlers \ disturbed',
           op'[h] = "delete", pc'[h] = "disable", pc[h] # "disable"
    PROVE  RemoveNamed(h)
<1>1. ASSUME NEW g \in Handlers, RequestStep(g), g # h PROVE pc'[h] = pc[h]
  <2>1. ASSUME NEW u \in Users, AddUser(g, u) \/ Restart(g, u) \/ Delete(g, u) PROVE pc'[h] = pc[h]
    BY <1>1, <2>1 DEF AddUser, Restart, Delete, Accept, TypeOK
  <2>2. ASSUME AddSecrets(g) \/ StopNamed(g) \/ RemoveNamed(g) \/ StartContainer(g)
        PROVE  pc'[h] = pc[h]
    BY <1>1, <2>2 DEF AddSecrets, StopNamed, RemoveNamed, StartContainer, Goto, TypeOK
  <2>3. ASSUME Unheeded(g) \/ CreateContainer(g) PROVE pc'[h] = pc[h]
    BY <1>1, <2>3 DEF Unheeded, CreateContainer, TypeOK
  <2>4. ASSUME Conflict(g) \/ DockerThrows(g) PROVE pc'[h] = pc[h]
    BY <1>1, <2>4 DEF Conflict, DockerThrows, ProvisioningFails, Answer, Goto, TypeOK
  <2>5. ASSUME Register(g) \/ Activate(g) \/ Disable(g) \/ DatabaseThrows(g) PROVE pc'[h] = pc[h]
    BY <1>1, <2>5 DEF Register, Activate, Disable, DatabaseThrows, Answer, Goto, TypeOK
  <2> QED BY <1>1, <2>1, <2>2, <2>3, <2>4, <2>5 DEF RequestStep
<1>2. ASSUME RequestStep(h) PROVE RemoveNamed(h)
  <2>1. ASSUME NEW u \in Users, AddUser(h, u) \/ Restart(h, u) \/ Delete(h, u) PROVE FALSE
    BY <2>1 DEF AddUser, Restart, Delete, Accept, TypeOK
  <2>2. ~AddSecrets(h) /\ ~StopNamed(h) /\ ~StartContainer(h) /\ ~CreateContainer(h)
    BY DEF AddSecrets, StopNamed, StartContainer, CreateContainer, Goto, TypeOK
  <2>3. ~Unheeded(h)
    BY DEF Unheeded
  <2>4. ~Conflict(h) /\ ~DockerThrows(h)
    BY DEF Conflict, DockerThrows, ProvisioningFails, Answer, Goto, TypeOK
  <2>5. ~Register(h) /\ ~Activate(h) /\ ~Disable(h) /\ ~DatabaseThrows(h)
    BY DEF Register, Activate, Disable, DatabaseThrows, Answer, Goto, TypeOK
  <2> QED BY <1>2, <2>1, <2>2, <2>3, <2>4, <2>5 DEF RequestStep
<1>3. ~(\E v \in Users : Patch(v) \/ BotBoots(v)) /\ ~Crash /\ ~UNCHANGED vars
  BY DEF Patch, BotBoots, Crash, vars, requestVars
<1> QED BY <1>1, <1>2, <1>3 DEF Next, OutOfContainers

\* While a request waits to set the status it stays what it is, and stays disturbed.
LEMMA DisablingKept ==
    ASSUME TypeOK, [Next]_vars, NEW h \in Handlers, pc[h] = "disable", pc'[h] = "disable"
    PROVE  op'[h] = op[h] /\ target'[h] = target[h] /\ (h \in disturbed => h \in disturbed')
<1> DEFINE Kept == op'[h] = op[h] /\ target'[h] = target[h] /\ (h \in disturbed => h \in disturbed')
<1>1. ASSUME NEW g \in Handlers, RequestStep(g) PROVE Kept
  <2>1. ASSUME NEW u \in Users, AddUser(g, u) \/ Restart(g, u) \/ Delete(g, u) PROVE Kept
    BY <2>1 DEF AddUser, Restart, Delete, Accept, TypeOK
  <2>2. ASSUME AddSecrets(g) \/ StopNamed(g) \/ RemoveNamed(g) \/ StartContainer(g) PROVE Kept
    BY <2>2 DEF AddSecrets, StopNamed, RemoveNamed, StartContainer, Goto, TypeOK
  <2>3. ASSUME Unheeded(g) \/ CreateContainer(g) PROVE Kept
    BY <2>3 DEF Unheeded, CreateContainer, TypeOK
  <2>4. ASSUME Conflict(g) \/ DockerThrows(g) PROVE Kept
    BY <2>4 DEF Conflict, DockerThrows, ProvisioningFails, Answer, Goto, TypeOK
  <2>5. ASSUME Register(g) \/ Activate(g) \/ Disable(g) \/ DatabaseThrows(g) PROVE Kept
    BY <2>5 DEF Register, Activate, Disable, DatabaseThrows, Answer, Goto, TypeOK
  <2> QED BY <1>1, <2>1, <2>2, <2>3, <2>4, <2>5 DEF RequestStep
<1>2. ASSUME (\E v \in Users : Patch(v) \/ BotBoots(v)) \/ UNCHANGED vars PROVE Kept
  BY <1>2 DEF Patch, BotBoots, vars, requestVars
<1>3. ~Crash
  BY DEF Crash
<1> QED BY <1>1, <1>2, <1>3 DEF Next, OutOfContainers

\* Nobody touches the container of an undisturbed DELETE at its last statement.
LEMMA DisablingAlone ==
    ASSUME TypeOK, Alone, TornDown, [Next]_vars,
           NEW h \in Handlers \ disturbed, pc[h] = "disable", op[h] = "delete"
    PROVE  target[h] \in Users /\ container'[target[h]].state # "running"
<1>1. target[h] \in Users /\ container[target[h]].state # "running"
  BY DEF TornDown
<1>2. SUFFICES ASSUME container'[target[h]] # container[target[h]] PROVE FALSE
  BY <1>1
<1>3. PICK g \in RequestsFor(target[h]) :
         StopNamed(g) \/ RemoveNamed(g) \/ CreateContainer(g) \/ StartContainer(g)
  BY <1>1, <1>2, OthersContainerKept
<1>4. g # h
  BY <1>3 DEF StopNamed, RemoveNamed, CreateContainer, StartContainer
<1> QED BY <1>1, <1>3, <1>4, ProvisioningConstants DEF Alone, RequestsFor

LEMMA StepTornDown ==
    ASSUME TypeOK, Teardowns, Alone, TornDown, [Next]_vars PROVE TornDown'
<1> SUFFICES ASSUME NEW h \in Handlers \ disturbed', op'[h] = "delete", pc'[h] = "disable"
             PROVE  target'[h] \in Users /\ container'[target'[h]].state # "running"
  BY DEF TornDown
<1>1. CASE pc[h] = "disable"
  BY <1>1, DisablingKept, DisablingAlone
<1>2. CASE pc[h] # "disable"
  <2>1. RemoveNamed(h)
    BY <1>2, DisableAfterRemove
  <2>2. target[h] \in Users /\ target'[h] = target[h] /\ container'[target[h]] = Absent
    BY <2>1, TargetIsUser DEF RemoveNamed, Goto, TypeOK
  <2> QED BY <2>2 DEF Absent
<1> QED BY <1>1, <1>2

LEMMA InitRequests == Init => KnownUsers /\ Teardowns /\ BotWillRun /\ Alone /\ TornDown
BY ProvisioningConstants DEF Init, KnownUsers, Teardowns, BotWillRun, Alone, TornDown

LEMMA AlwaysRequests == Spec => [](KnownUsers /\ Teardowns /\ BotWillRun /\ Alone /\ TornDown)
<1> DEFINE R == KnownUsers /\ Teardowns /\ BotWillRun /\ Alone /\ TornDown
<1>1. Init => R
  BY InitRequests
<1>2. IInv /\ R /\ [Next]_vars => R'
  BY StepKnownUsers, StepTeardowns, StepBotWillRun, StepAlone, StepTornDown DEF IInv
<1> HIDE DEF R
<1>3. Spec => []R
  BY <1>1, <1>2, AlwaysIInv, PTL DEF Spec
<1> QED BY <1>3 DEF R

-----------------------------------------------------------------------------
\* The shape of rows, containers and requests, whatever overlaps and fails.
THEOREM ProvisioningTypeCorrect == Spec => []TypeOK
<1>1. IInv => TypeOK
  BY DEF IInv
<1> QED BY <1>1, AlwaysIInv, PTL

\* The status is set last: an active user has secrets and a row in instances,
\* wherever a creation or another request for the user stopped (users.js:42-90).
THEOREM ActiveMeansProvisioned == Spec => []ActiveIsProvisioned
<1>1. IInv => ActiveIsProvisioned
  BY DEF IInv
<1> QED BY <1>1, AlwaysIInv, PTL

\* However creations and restarts of a user overlap, the bot runs when all are over:
\* whoever stops it or removes it creates it again, and only one of those that create
\* it wins the name (docker.js:28-66).
THEOREM RestartsKeepBot == Spec => []RestartsLeaveBot
<1>1. BotWillRun => RestartsLeaveBot
  BY DEF BotWillRun, RestartsLeaveBot, WillRun
<1> QED BY <1>1, AlwaysRequests, PTL

\* A DELETE leaves no running bot, unless Docker refused the teardown or another
\* request for the user was under way (users.js:191).
THEOREM DeleteTearsDown == Spec => DeletedStaysDown
<1> DEFINE Leaves == \A h \in Handlers \ disturbed :
          pc[h] = "disable" /\ op[h] = "delete" /\ pc'[h] = "idle" =>
              container'[target[h]].state # "running"
<1>1. TypeOK /\ Alone /\ TornDown /\ [Next]_vars => [Leaves]_vars
  BY DisablingAlone
<1> HIDE DEF Leaves
<1>2. IInv => TypeOK
  BY DEF IInv
<1>3. Spec => [][Leaves]_vars
  BY <1>1, <1>2, AlwaysIInv, AlwaysRequests, PTL DEF Spec
<1> QED BY <1>3 DEF Leaves, DeletedStaysDown

-----------------------------------------------------------------------------
(* Deployment: the invariants. *)

Phases == {"idle", "migrate", "image", "list", "restart"}
UserStates == {"none"} \cup StatusValues

DeployTypeOK ==
    /\ master \in 0..Last /\ head \in 0..master /\ old \in 0..head
    /\ phase \in Phases
    /\ todo \subseteq (old + 1)..head
    /\ list \subseteq Team
    /\ schema \subseteq 1..head /\ recorded \subseteq 1..head /\ files \subseteq 1..head
    /\ built \in [Services -> 0..head]
    /\ image \in 0..head
    /\ bot \in [Team -> 0..head \cup {NoBot}]
    /\ userStatus \in [Team -> UserStates]
    /\ missed \subseteq Team /\ lost \subseteq 1..head
    /\ failures \in Nat

\* The files migrate.js holds leave out no earlier migration that is not recorded.
FilesComplete == \A f \in files : MigrationsUpTo(f) \subseteq recorded \cup files

OrderInv == RecordedInOrder /\ FilesComplete

\* What is not in effect of HEAD's schema is still to be applied or lost, and there is
\* something to apply only before anything is rebuilt.
HeadMigrates ==
    /\ MigrationsUpTo(head) \subseteq schema \cup todo \cup lost
    /\ phase # "migrate" => todo = {}

SchemaInv == HeadMigrates /\ SchemaBeforeCode

\* The commit up to which what runs is current: HEAD once it has been brought up, and
\* before that the commit the deployment came from.
ServicesUpTo == IF phase = "migrate" THEN old ELSE head
ImageUpTo == IF phase \in {"migrate", "image"} THEN old ELSE head
BotUpTo(u) ==
    IF phase \in {"migrate", "image", "list"} \/ (phase = "restart" /\ u \in list) THEN old ELSE head

CurrentInv ==
    /\ \A s \in Services : Untouched(ServiceParts(s), built[s], ServicesUpTo)
    /\ Untouched(BotParts, image, ImageUpTo)
    /\ \A u \in Team \ missed : bot[u] # NoBot => Untouched(BotParts, bot[u], BotUpTo(u))

-----------------------------------------------------------------------------
(* The difference between two commits. *)

LEMMA CommitCount == Last \in Nat
BY DeploymentConstants DEF Last

\* Nothing is touched between a commit and itself.
LEMMA UntouchedAtOnce ==
    ASSUME NEW parts, NEW a \in Nat
    PROVE  Untouched(parts, a, a)
<1>1. (a + 1)..a = {}
  OBVIOUS
<1> QED BY <1>1 DEF Untouched

\* Nothing more is touched as more commits are lost.
LEMMA UntouchedStays ==
    ASSUME lost \subseteq lost', NEW parts, NEW a, NEW b, Untouched(parts, a, b)
    PROVE  Untouched(parts, a, b)'
BY DEF Untouched

\* What is untouched up to a commit, and from there to a later one, is so all the way.
LEMMA UntouchedThrough ==
    ASSUME NEW parts, NEW a \in Nat, NEW b \in Nat, NEW c \in Nat,
           Untouched(parts, a, b), Untouched(parts, b, c)
    PROVE  Untouched(parts, a, c)
<1>1. ASSUME NEW k \in (a + 1)..c
      PROVE  k \in (a + 1)..b \/ k \in (b + 1)..c
  OBVIOUS
<1> QED BY <1>1 DEF Untouched

\* What is untouched is so up to any earlier commit.
LEMMA UntouchedShorter ==
    ASSUME NEW parts, NEW a \in Nat, NEW b \in Nat, NEW c \in Nat, b <= c,
           Untouched(parts, a, c)
    PROVE  Untouched(parts, a, b)
<1>1. (a + 1)..b \subseteq (a + 1)..c
  OBVIOUS
<1> QED BY <1>1 DEF Untouched

\* deploy.sh leaves a service or the image alone only when nothing it is made of has changed.
LEMMA LeftAlone ==
    ASSUME NEW a \in Nat, NEW b \in Nat
    PROVE  /\ \A s \in Services \ ToRebuild(Changed(a, b)) : Untouched(ServiceParts(s), a, b)
           /\ ~Affects(Changed(a, b), "bot") => Untouched(BotParts, a, b)
<1>1. \A c \in (a + 1)..b : Commits[c] \subseteq Changed(a, b)
  BY DEF Changed
<1> QED BY <1>1 DEF ToRebuild, Affects, Untouched, ServiceParts, BotParts, SharedParts

\* The migrations up to a commit are those up to an earlier one and those since.
LEMMA MigrationsSplit ==
    ASSUME NEW a \in Nat, NEW b \in Nat
    PROVE  MigrationsUpTo(b) \subseteq MigrationsUpTo(a) \cup Migrations(a, b)
<1>1. ASSUME NEW k \in 1..b
      PROVE  k \in 1..a \/ k \in (a + 1)..b
  OBVIOUS
<1> QED BY <1>1 DEF MigrationsUpTo, Migrations

\* They are among the commits up to it, and more for a later one.
LEMMA MigrationsBounded ==
    ASSUME NEW a \in Nat, NEW b \in Nat, a <= b
    PROVE  MigrationsUpTo(a) \subseteq MigrationsUpTo(b) /\ MigrationsUpTo(b) \subseteq 1..b
BY DEF MigrationsUpTo, Migrations

LEMMA NoCommitNoMigration == MigrationsUpTo(0) = {}
BY DEF MigrationsUpTo, Migrations

-----------------------------------------------------------------------------
(* The shape of the state. *)

LEMMA InitDeployTypeOK == DeployInit => DeployTypeOK
BY CommitCount, DeploymentConstants DEF DeployInit, DeployTypeOK, Phases, UserStates

LEMMA StepDeployTypeOK == DeployTypeOK /\ [DeployNext]_deployVars => DeployTypeOK'
<1> SUFFICES ASSUME DeployTypeOK, [DeployNext]_deployVars
             PROVE  DeployTypeOK'
  OBVIOUS
<1> USE CommitCount, DeploymentConstants
    DEF DeployTypeOK, Phases, UserStates, serverVars, scriptVars, databaseVars, runningVars, historyVars
<1>1. CASE Publish
  BY <1>1 DEF Publish
<1>2. CASE Pull
  <2>1. /\ master' \in 0..Last /\ head' \in 0..master' /\ old' \in 0..head' /\ head <= head'
        /\ NoBot' = NoBot
    BY <1>2 DEF Pull, NoBot, Last
  <2>2. todo' \subseteq (old' + 1)..head'
    BY <1>2 DEF Pull, Migrations
  <2>3. /\ missed' \subseteq Team /\ lost' \subseteq 1..head' /\ phase' \in Phases /\ list' \subseteq Team
        /\ userStatus' \in [Team -> UserStates] /\ failures' \in Nat
    BY <1>2, <2>1 DEF Pull
  <2>4. schema' \subseteq 1..head' /\ recorded' \subseteq 1..head' /\ files' \subseteq 1..head'
    BY <1>2, <2>1 DEF Pull
  <2>5. 0..head \subseteq 0..head'
    BY <2>1
  <2>6. built' \in [Services -> 0..head'] /\ image' \in 0..head'
    BY <1>2, <2>5 DEF Pull
  <2>7. bot' \in [Team -> 0..head' \cup {NoBot'}]
    BY <1>2, <2>1, <2>5 DEF Pull
  <2> QED BY <2>1, <2>2, <2>3, <2>4, <2>6, <2>7
<1>3. CASE Migrate
  BY <1>3 DEF Migrate
<1>4. CASE Rebuild
  BY <1>4 DEF Rebuild
<1>5. CASE BuildImage
  BY <1>5 DEF BuildImage
<1>6. CASE ListUsers
  BY <1>6 DEF ListUsers, Active, Outdated
<1>7. ASSUME NEW u \in Team, RestartBot(u) \/ RestartByAdmin(u)
      PROVE  DeployTypeOK'
  BY <1>7 DEF RestartBot, RestartByAdmin, BringUp
<1>8. CASE StartMigrateJs
  BY <1>8 DEF StartMigrateJs, Migrations
<1>9. CASE Apply
  BY <1>9 DEF Apply
<1>10. ASSUME NEW u \in Team,
              CreateBot(u) \/ DisableUser(u) \/ (\E st \in StatusValues : SetStatus(u, st))
       PROVE  DeployTypeOK'
  BY <1>10 DEF CreateBot, DisableUser, SetStatus, StatusValues
<1>11. CASE DeployStops
  BY <1>11 DEF DeployStops, Failure
<1>12. CASE StatementFails
  BY <1>12 DEF StatementFails, Failure
<1>13. CASE MigrateJsStops
  BY <1>13 DEF MigrateJsStops, Failure
<1>14. CASE UpToDate \/ UNCHANGED deployVars
  BY <1>14 DEF UpToDate, deployVars
<1> QED BY <1>1, <1>2, <1>3, <1>4, <1>5, <1>6, <1>7, <1>8, <1>9, <1>10, <1>11, <1>12,
           <1>13, <1>14 DEF DeployNext

LEMMA AlwaysDeployTypeOK == DeploySpec => []DeployTypeOK
BY InitDeployTypeOK, StepDeployTypeOK, PTL DEF DeploySpec

\* What happens to one user.
UserStep(u) ==
    \/ RestartBot(u) \/ CreateBot(u) \/ RestartByAdmin(u) \/ DisableUser(u)
    \/ \E st \in StatusValues : SetStatus(u, st)

-----------------------------------------------------------------------------
(* migrate.js and its record. *)

LEMMA InitOrderInv == DeployInit => OrderInv
BY DEF DeployInit, OrderInv, RecordedInOrder, FilesComplete

LEMMA StepOrderInv == DeployTypeOK /\ OrderInv /\ [DeployNext]_deployVars => OrderInv'
<1> SUFFICES ASSUME DeployTypeOK, OrderInv, [DeployNext]_deployVars
             PROVE  OrderInv'
  OBVIOUS
<1> USE DEF OrderInv, RecordedInOrder, FilesComplete, serverVars, scriptVars, databaseVars, runningVars
<1>1. CASE Apply
  <2>1. PICK m \in files :
            /\ IsFirst(m, files)
            /\ schema' = schema \cup {m}
            /\ recorded' = recorded \cup {m}
            /\ files' = files \ {m}
    BY <1>1 DEF Apply
  <2>2. MigrationsUpTo(m) \subseteq recorded \cup {m}
    <3> m \in Nat
      BY <2>1, CommitCount DEF DeployTypeOK
    <3>1. ASSUME NEW k \in MigrationsUpTo(m) PROVE k \in recorded \cup {m}
      <4>1. k \in recorded \cup files /\ k <= m /\ k \in Nat
        BY <2>1, <3>1 DEF MigrationsUpTo, Migrations
      <4>2. k \in files => m <= k
        BY <2>1 DEF IsFirst
      <4> QED BY <4>1, <4>2
    <3> QED BY <3>1
  <2> QED BY <2>1, <2>2
<1>2. CASE StartMigrateJs
  <2>1. ASSUME NEW f \in files'
        PROVE  MigrationsUpTo(f) \subseteq recorded \cup files'
    <3>1. f \in 1..head /\ files' = MigrationsUpTo(head) \ recorded /\ head \in Nat
      BY <1>2 DEF StartMigrateJs, Migrations, MigrationsUpTo, DeployTypeOK
    <3>2. MigrationsUpTo(f) \subseteq MigrationsUpTo(head)
      BY <3>1, MigrationsBounded
    <3> QED BY <3>1, <3>2
  <2> QED BY <1>2, <2>1 DEF StartMigrateJs
<1>3. CASE MigrateJsStops
  BY <1>3 DEF MigrateJsStops
<1>4. CASE Migrate
  BY <1>4 DEF Migrate
<1>5. CASE DeployStops \/ StatementFails
  BY <1>5 DEF DeployStops, StatementFails
<1>6. CASE Publish \/ Pull \/ Rebuild \/ BuildImage \/ ListUsers
  BY <1>6 DEF Publish, Pull, Rebuild, BuildImage, ListUsers
<1>7. ASSUME NEW u \in Team, UserStep(u)
      PROVE  OrderInv'
  BY <1>7 DEF UserStep, RestartBot, CreateBot, SetStatus, RestartByAdmin, DisableUser
<1>8. CASE UpToDate \/ UNCHANGED deployVars
  BY <1>8 DEF UpToDate, deployVars
<1> QED BY <1>1, <1>2, <1>3, <1>4, <1>5, <1>6, <1>7, <1>8 DEF DeployNext, UserStep

\* Whatever stops, is run again or is applied by deploy.sh beside it: a migration on
\* record is in effect, and so is every one before it on record (migrate.js:33-45).
THEOREM RecordKeepsOrder == DeploySpec => []RecordedInOrder
<1>1. OrderInv => RecordedInOrder
  BY DEF OrderInv
<1> QED BY <1>1, InitOrderInv, StepOrderInv, AlwaysDeployTypeOK, PTL DEF DeploySpec

-----------------------------------------------------------------------------
(* The schema before the code. *)

LEMMA InitSchemaInv == DeployInit => SchemaInv
BY NoCommitNoMigration DEF DeployInit, SchemaInv, HeadMigrates, SchemaBeforeCode, NoBot

\* Nothing that is in effect or lost is taken back.
LEMMA SchemaGrows == [DeployNext]_deployVars => schema \subseteq schema' /\ lost \subseteq lost'
BY DEF DeployNext, deployVars, serverVars, scriptVars, databaseVars, runningVars, historyVars, Publish,
       UpToDate, Pull, Migrate, Rebuild, BuildImage, ListUsers, RestartBot, StartMigrateJs, Apply,
       CreateBot, SetStatus, RestartByAdmin, BringUp, DisableUser, DeployStops, StatementFails,
       MigrateJsStops

LEMMA StepHeadMigrates == DeployTypeOK /\ HeadMigrates /\ [DeployNext]_deployVars => HeadMigrates'
<1> SUFFICES ASSUME DeployTypeOK, HeadMigrates, [DeployNext]_deployVars
             PROVE  /\ MigrationsUpTo(head') \subseteq schema' \cup todo' \cup lost'
                    /\ phase' # "migrate" => todo' = {}
  BY DEF HeadMigrates, MigrationsUpTo, Migrations
<1>1. /\ MigrationsUpTo(head) \subseteq schema \cup todo \cup lost
      /\ phase # "migrate" => todo = {}
  BY DEF HeadMigrates
<1> USE DEF serverVars, scriptVars, databaseVars, runningVars, historyVars
<1>2. CASE Pull
  <2>1. /\ head \in Nat /\ head' \in Nat /\ todo' = Migrations(head, head')
        /\ schema' = schema /\ lost' = lost
    BY <1>2 DEF Pull, DeployTypeOK
  <2>2. todo = {} /\ phase' = "migrate"
    BY <1>1, <1>2 DEF Pull
  <2> QED BY <1>1, <2>1, <2>2, MigrationsSplit
<1>3. CASE Migrate \/ StatementFails
  BY <1>1, <1>3 DEF Migrate, StatementFails
<1>4. CASE DeployStops
  <2>1. todo \subseteq lost' /\ head' = head /\ schema' = schema /\ todo' = {} /\ lost \subseteq lost'
    BY <1>4 DEF DeployStops, DeployTypeOK
  <2> QED BY <1>1, <2>1
<1>5. CASE Publish \/ Rebuild \/ BuildImage \/ ListUsers
  BY <1>1, <1>5 DEF Publish, Rebuild, BuildImage, ListUsers
<1>6. CASE StartMigrateJs \/ Apply \/ MigrateJsStops
  BY <1>1, <1>6 DEF StartMigrateJs, Apply, MigrateJsStops
<1>7. ASSUME NEW u \in Team, UserStep(u)
      PROVE  /\ MigrationsUpTo(head') \subseteq schema' \cup todo' \cup lost'
             /\ phase' # "migrate" => todo' = {}
  BY <1>1, <1>7 DEF UserStep, RestartBot, CreateBot, SetStatus, RestartByAdmin, BringUp, DisableUser
<1>8. CASE UpToDate \/ UNCHANGED deployVars
  BY <1>1, <1>8 DEF UpToDate, deployVars
<1> QED BY <1>2, <1>3, <1>4, <1>5, <1>6, <1>7, <1>8 DEF DeployNext, UserStep

\* What a step brings up runs HEAD when its migrations are in effect, or the image.
LEMMA StepCodeHasSchema ==
    DeployTypeOK /\ SchemaInv /\ [DeployNext]_deployVars => SchemaBeforeCode'
<1> DEFINE Fits(c) == MigrationsUpTo(c) \ lost \subseteq schema
<1> SUFFICES ASSUME DeployTypeOK, SchemaInv, [DeployNext]_deployVars
             PROVE  /\ \A s \in Services : MigrationsUpTo(built'[s]) \ lost' \subseteq schema'
                    /\ MigrationsUpTo(image') \ lost' \subseteq schema'
                    /\ \A u \in Team : bot'[u] # NoBot => MigrationsUpTo(bot'[u]) \ lost' \subseteq schema'
  BY DEF SchemaBeforeCode, MigrationsUpTo, Migrations, NoBot, Last
<1>1. /\ \A s \in Services : Fits(built[s])
      /\ Fits(image)
      /\ \A u \in Team : bot[u] # NoBot => Fits(bot[u])
      /\ phase # "migrate" \/ todo = {} => Fits(head)
  BY DEF SchemaInv, HeadMigrates, SchemaBeforeCode
<1>2. schema \subseteq schema' /\ lost \subseteq lost'
  BY SchemaGrows
<1>3. \A s \in Services : Fits(built'[s])
  <2>1. CASE Rebuild
    BY <1>1, <2>1 DEF Rebuild
  <2>2. CASE built' = built
    BY <1>1, <2>2
  <2>3. Rebuild \/ built' = built
    BY DEF DeployNext, deployVars, serverVars, scriptVars, databaseVars, runningVars, Publish,
        UpToDate, Pull, Migrate, BuildImage, ListUsers, RestartBot, StartMigrateJs, Apply,
        CreateBot, SetStatus, RestartByAdmin, DisableUser, DeployStops, StatementFails, MigrateJsStops
  <2> QED BY <2>1, <2>2, <2>3
<1>4. Fits(image')
  <2>1. CASE BuildImage
    BY <1>1, <2>1 DEF BuildImage
  <2>2. CASE image' = image
    BY <1>1, <2>2
  <2>3. BuildImage \/ image' = image
    BY DEF DeployNext, deployVars, serverVars, scriptVars, databaseVars, runningVars, Publish,
        UpToDate, Pull, Migrate, Rebuild, ListUsers, RestartBot, StartMigrateJs, Apply,
        CreateBot, SetStatus, RestartByAdmin, DisableUser, DeployStops, StatementFails, MigrateJsStops
  <2> QED BY <2>1, <2>2, <2>3
<1>5. \A u \in Team : bot'[u] # NoBot => Fits(bot'[u])
  <2>1. CASE \E u \in Team : RestartBot(u) \/ CreateBot(u) \/ RestartByAdmin(u)
    BY <1>1, <2>1 DEF RestartBot, CreateBot, RestartByAdmin, BringUp, DeployTypeOK
  <2>2. CASE \E u \in Team : DisableUser(u)
    BY <1>1, <2>2 DEF DisableUser, DeployTypeOK
  <2>3. CASE bot' = bot
    BY <1>1, <2>3
  <2>4. \/ \E u \in Team : RestartBot(u) \/ CreateBot(u) \/ RestartByAdmin(u) \/ DisableUser(u)
        \/ bot' = bot
    BY DEF DeployNext, deployVars, serverVars, scriptVars, databaseVars, runningVars, Publish,
        UpToDate, Pull, Migrate, Rebuild, BuildImage, ListUsers, StartMigrateJs, Apply, SetStatus,
        DeployStops, StatementFails, MigrateJsStops
  <2> QED BY <2>1, <2>2, <2>3, <2>4
<1> QED BY <1>2, <1>3, <1>4, <1>5

LEMMA AlwaysSchemaInv == DeploySpec => []SchemaInv
<1>1. DeployTypeOK /\ SchemaInv /\ [DeployNext]_deployVars => SchemaInv'
  BY StepHeadMigrates, StepCodeHasSchema DEF SchemaInv
<1> QED BY <1>1, InitSchemaInv, AlwaysDeployTypeOK, PTL DEF DeploySpec

\* No service, image or bot runs ahead of the schema at any step of a deployment, for
\* any history of commits and whatever statuses are set (deploy.sh:55-63); the
\* migrations that failed or were never come to are all that can be missing.
THEOREM MigratedBeforeRun == DeploySpec => []SchemaBeforeCode
<1>1. SchemaInv => SchemaBeforeCode
  BY DEF SchemaInv
<1> QED BY <1>1, AlwaysSchemaInv, PTL

-----------------------------------------------------------------------------
(* Nothing is left behind. *)

LEMMA InitCurrentInv == DeployInit => CurrentInv
BY UntouchedAtOnce DEF DeployInit, CurrentInv, ServicesUpTo, ImageUpTo

\* The HEAD that everything was current with is now the commit the deployment comes from.
LEMMA PullKeepsCurrent == CurrentInv /\ Pull => CurrentInv'
<1> SUFFICES ASSUME CurrentInv, Pull
             PROVE  CurrentInv'
  OBVIOUS
<1>1. /\ phase = "idle" /\ phase' = "migrate" /\ old' = head
      /\ UNCHANGED <<built, image, bot, missed, lost>>
  BY DEF Pull, runningVars, historyVars
<1>2. /\ ServicesUpTo' = ServicesUpTo /\ ImageUpTo' = ImageUpTo
      /\ \A u \in Team : BotUpTo(u)' = BotUpTo(u)
  BY <1>1 DEF ServicesUpTo, ImageUpTo, BotUpTo
<1> QED BY <1>1, <1>2 DEF CurrentInv, Untouched, ServiceParts, BotParts, SharedParts, NoBot, Last

\* A service that is left alone has nothing to catch up with, and likewise for the image below.
LEMMA RebuildKeepsCurrent == DeployTypeOK /\ CurrentInv /\ Rebuild => CurrentInv'
<1> SUFFICES ASSUME DeployTypeOK, CurrentInv, Rebuild
             PROVE  CurrentInv'
  OBVIOUS
<1>1. /\ phase = "migrate" /\ phase' = "image"
      /\ UNCHANGED <<old, head, list, image, bot, missed, lost>>
      /\ built' = [s \in Services |-> IF s \in ToRebuild(Changed(old, head)) THEN head ELSE built[s]]
  BY DEF Rebuild, serverVars, historyVars
<1>2. /\ ServicesUpTo = old /\ ServicesUpTo' = head /\ ImageUpTo' = ImageUpTo
      /\ \A u \in Team : BotUpTo(u)' = BotUpTo(u)
  BY <1>1 DEF ServicesUpTo, ImageUpTo, BotUpTo
<1>3. old \in Nat /\ head \in Nat
  BY CommitCount DEF DeployTypeOK
<1>4. ASSUME NEW s \in Services
      PROVE  Untouched(ServiceParts(s), built'[s], head)
  <2>1. CASE s \in ToRebuild(Changed(old, head))
    BY <1>1, <1>3, <2>1, UntouchedAtOnce
  <2>2. CASE s \notin ToRebuild(Changed(old, head))
    <3>1. built'[s] = built[s] /\ built[s] \in Nat
      BY <1>1, <1>3, <2>2 DEF DeployTypeOK
    <3>2. Untouched(ServiceParts(s), built[s], old) /\ Untouched(ServiceParts(s), old, head)
      BY <1>2, <1>3, <2>2, LeftAlone DEF CurrentInv
    <3> QED BY <1>3, <3>1, <3>2, UntouchedThrough
  <2> QED BY <2>1, <2>2
<1> QED BY <1>1, <1>2, <1>4 DEF CurrentInv, Untouched, ServiceParts, BotParts, SharedParts, NoBot, Last

LEMMA BuildImageKeepsCurrent == DeployTypeOK /\ CurrentInv /\ BuildImage => CurrentInv'
<1> SUFFICES ASSUME DeployTypeOK, CurrentInv, BuildImage
             PROVE  CurrentInv'
  OBVIOUS
<1>1. /\ phase = "image" /\ phase' \in {"list", "idle"}
      /\ UNCHANGED <<old, head, list, built, bot, missed, lost>>
      /\ phase' = "list" => image' = head
      /\ phase' = "idle" => image' = image /\ ~Affects(Changed(old, head), "bot")
  BY DEF BuildImage, serverVars, historyVars
<1>2. /\ ServicesUpTo' = ServicesUpTo /\ ImageUpTo = old /\ ImageUpTo' = head
      /\ \A u \in Team : BotUpTo(u) = old /\ BotUpTo(u)' = IF phase' = "list" THEN old ELSE head
  BY <1>1 DEF ServicesUpTo, ImageUpTo, BotUpTo
<1>3. old \in Nat /\ head \in Nat /\ image \in Nat
  BY CommitCount DEF DeployTypeOK
<1>4. phase' = "idle" => Untouched(BotParts, old, head)
  BY <1>1, <1>3, LeftAlone
<1>5. Untouched(BotParts, image', head)
  BY <1>1, <1>2, <1>3, <1>4, UntouchedAtOnce, UntouchedThrough DEF CurrentInv
<1>6. ASSUME NEW u \in Team \ missed, bot[u] # NoBot
      PROVE  Untouched(BotParts, bot[u], IF phase' = "list" THEN old ELSE head)
  <2>1. Untouched(BotParts, bot[u], old)
    BY <1>2, <1>6 DEF CurrentInv
  <2>2. bot[u] \in Nat
    BY <1>3, <1>6, CommitCount DEF DeployTypeOK
  <2> QED BY <1>1, <1>3, <1>4, <2>1, <2>2, UntouchedThrough
<1> QED BY <1>1, <1>2, <1>5, <1>6
        DEF CurrentInv, Untouched, ServiceParts, BotParts, SharedParts, NoBot, Last

\* Whoever is active is listed; of the others, those on an older image are missed.
LEMMA ListKeepsCurrent == CurrentInv /\ ListUsers => CurrentInv'
<1> SUFFICES ASSUME CurrentInv, ListUsers
             PROVE  CurrentInv'
  OBVIOUS
<1>1. /\ phase = "list" /\ phase' = (IF Active = {} THEN "idle" ELSE "restart")
      /\ UNCHANGED <<old, head, built, image, bot, lost>>
      /\ missed' = missed \cup (Outdated \ Active) /\ list' = Active
  BY DEF ListUsers, serverVars, runningVars
<1>2. /\ ServicesUpTo' = ServicesUpTo /\ ImageUpTo = head /\ ImageUpTo' = head
      /\ \A u \in Team : BotUpTo(u) = old /\ BotUpTo(u)' = IF u \in Active THEN old ELSE head
  BY <1>1 DEF ServicesUpTo, ImageUpTo, BotUpTo
<1>3. ASSUME NEW u \in Team \ missed', bot[u] # NoBot
      PROVE  Untouched(BotParts, bot[u], IF u \in Active THEN old ELSE head)
  <2>1. CASE u \in Active
    BY <1>1, <1>2, <1>3, <2>1 DEF CurrentInv
  <2>2. CASE u \notin Active
    BY <1>1, <1>2, <1>3, <2>2 DEF CurrentInv, Outdated
  <2> QED BY <2>1, <2>2
<1> QED BY <1>1, <1>2, <1>3
        DEF CurrentInv, Untouched, ServiceParts, BotParts, SharedParts, NoBot, Last

\* A bot brought up from the image is as current as the image, and so as the bots have to be.
LEMMA ImageServes ==
    ASSUME DeployTypeOK, CurrentInv, NEW u
    PROVE  Untouched(BotParts, image, BotUpTo(u)) /\ (phase = "restart" => Untouched(BotParts, image, head))
<1>1. image \in Nat /\ BotUpTo(u) \in Nat /\ ImageUpTo \in Nat /\ BotUpTo(u) <= ImageUpTo
  BY CommitCount DEF DeployTypeOK, BotUpTo, ImageUpTo
<1> QED BY <1>1, UntouchedShorter DEF CurrentInv, ImageUpTo

\* What happens to a user: the bot stays, is stopped, or comes up from the image.
LEMMA UserKeepsCurrent ==
    ASSUME DeployTypeOK, CurrentInv, NEW u \in Team, UserStep(u)
    PROVE  CurrentInv'
<1>1. /\ UNCHANGED <<old, head, built, image, lost>>
      /\ phase' \in {phase, "idle"} /\ (phase' # phase => phase = "restart")
  BY DEF UserStep, RestartBot, CreateBot, SetStatus, RestartByAdmin, DisableUser, serverVars, scriptVars,
         historyVars
<1>2. ServicesUpTo' = ServicesUpTo /\ ImageUpTo' = ImageUpTo
  BY <1>1 DEF ServicesUpTo, ImageUpTo
<1>3. ASSUME NEW w \in Team \ missed', bot'[w] # NoBot
      PROVE  Untouched(BotParts, bot'[w], BotUpTo(w)')
  <2>1. CASE RestartBot(u)
    <3>1. /\ phase = "restart" /\ bot' = [bot EXCEPT ![u] = image] /\ missed' = missed \ {u}
          /\ list' = list \ {u} /\ (phase' = IF list' = {} THEN "idle" ELSE phase)
      BY <2>1 DEF RestartBot, BringUp
    <3>2. CASE w = u
      <4>1. bot'[w] = image /\ BotUpTo(w)' = head
        BY <1>1, <3>1, <3>2 DEF BotUpTo, DeployTypeOK
      <4> QED BY <3>1, <4>1, ImageServes
    <3>3. CASE w # u
      <4>1. bot'[w] = bot[w] /\ w \notin missed /\ BotUpTo(w)' = BotUpTo(w)
        BY <1>1, <1>3, <3>1, <3>3 DEF BotUpTo, DeployTypeOK
      <4> QED BY <1>3, <4>1 DEF CurrentInv
    <3> QED BY <3>2, <3>3
  <2>2. CASE ~RestartBot(u)
    <3>1. UNCHANGED scriptVars
      BY <2>2 DEF UserStep, CreateBot, SetStatus, RestartByAdmin, DisableUser
    <3>2. BotUpTo(w)' = BotUpTo(w)
      BY <1>1, <3>1 DEF BotUpTo, scriptVars
    <3>3. bot'[w] \in {image, NoBot} \/ (bot'[w] = bot[w] /\ w \notin missed)
      BY <1>3, <2>2 DEF UserStep, CreateBot, SetStatus, RestartByAdmin, BringUp, DisableUser, DeployTypeOK,
         historyVars
    <3> QED BY <1>3, <3>2, <3>3, ImageServes DEF CurrentInv
  <2> QED BY <2>1, <2>2
<1> QED BY <1>1, <1>2, <1>3
        DEF CurrentInv, Untouched, ServiceParts, BotParts, SharedParts, NoBot, Last

\* What a deployment that stops has left undone concerns the commits it was about.
LEMMA StopKeepsCurrent == DeployTypeOK /\ CurrentInv /\ DeployStops => CurrentInv'
<1> SUFFICES ASSUME DeployTypeOK, CurrentInv, DeployStops
             PROVE  CurrentInv'
  OBVIOUS
<1>1. /\ phase' = "idle" /\ lost' = lost \cup (old + 1)..head
      /\ UNCHANGED <<head, built, image, bot, missed>>
  BY DEF DeployStops, serverVars, runningVars
<1>2. old \in Nat /\ head \in Nat /\ old <= head
  BY CommitCount DEF DeployTypeOK
<1>3. ASSUME NEW parts, NEW a \in Nat, NEW b \in {old, head}, Untouched(parts, a, b)
      PROVE  \A c \in (a + 1)..head : c \in lost' \/ Commits[c] \cap parts = {}
  BY <1>1, <1>2, <1>3 DEF Untouched
<1>4. ServicesUpTo \in {old, head} /\ ImageUpTo \in {old, head} /\ \A u : BotUpTo(u) \in {old, head}
  BY DEF ServicesUpTo, ImageUpTo, BotUpTo
<1>5. /\ \A s \in Services : built[s] \in Nat
      /\ image \in Nat
      /\ \A u \in Team : bot[u] # NoBot => bot[u] \in Nat
  BY <1>2, CommitCount DEF DeployTypeOK
<1>6. ServicesUpTo' = head' /\ ImageUpTo' = head' /\ \A u \in Team : BotUpTo(u)' = head'
  BY <1>1 DEF ServicesUpTo, ImageUpTo, BotUpTo
<1>7. \A s \in Services : Untouched(ServiceParts(s), built[s], ServicesUpTo)'
  <2> SUFFICES ASSUME NEW s \in Services
               PROVE  \A c \in (built[s] + 1)..head : c \in lost' \/ Commits[c] \cap ServiceParts(s) = {}
    BY <1>1, <1>6 DEF Untouched, ServiceParts, SharedParts
  <2> QED BY <1>3, <1>4, <1>5 DEF CurrentInv
<1>8. Untouched(BotParts, image, ImageUpTo)'
  <2>1. \A c \in (image + 1)..head : c \in lost' \/ Commits[c] \cap BotParts = {}
    BY <1>3, <1>4, <1>5 DEF CurrentInv
  <2> QED BY <1>1, <1>6, <2>1 DEF Untouched, BotParts, SharedParts
<1>9. ASSUME NEW u \in Team \ missed, bot[u] # NoBot
      PROVE  Untouched(BotParts, bot[u], BotUpTo(u))'
  <2>1. \A c \in (bot[u] + 1)..head : c \in lost' \/ Commits[c] \cap BotParts = {}
    BY <1>3, <1>4, <1>5, <1>9 DEF CurrentInv
  <2> QED BY <1>1, <1>6, <2>1 DEF Untouched, BotParts, SharedParts
<1> QED BY <1>1, <1>7, <1>8, <1>9 DEF CurrentInv, NoBot, Last

LEMMA StepCurrentInv == DeployTypeOK /\ CurrentInv /\ [DeployNext]_deployVars => CurrentInv'
<1> SUFFICES ASSUME DeployTypeOK, CurrentInv, [DeployNext]_deployVars
             PROVE  CurrentInv'
  OBVIOUS
<1>1. CASE Pull \/ ListUsers
  BY <1>1, PullKeepsCurrent, ListKeepsCurrent
<1>2. CASE Rebuild \/ BuildImage
  BY <1>2, RebuildKeepsCurrent, BuildImageKeepsCurrent
<1>3. ASSUME NEW u \in Team, UserStep(u)
      PROVE  CurrentInv'
  BY <1>3, UserKeepsCurrent
<1>4. CASE DeployStops
  BY <1>4, StopKeepsCurrent
<1>5. CASE \/ Publish \/ Migrate \/ StartMigrateJs \/ Apply \/ UpToDate
           \/ StatementFails \/ MigrateJsStops \/ UNCHANGED deployVars
  <2>1. UNCHANGED <<head, phase, old, list, built, image, bot, missed>>
    BY <1>5 DEF Publish, Migrate, StartMigrateJs, Apply, UpToDate, StatementFails, MigrateJsStops,
                deployVars, serverVars, scriptVars, runningVars, historyVars
  <2>2. /\ ServicesUpTo' = ServicesUpTo /\ ImageUpTo' = ImageUpTo
        /\ \A u \in Team : BotUpTo(u)' = BotUpTo(u)
    BY <2>1 DEF ServicesUpTo, ImageUpTo, BotUpTo
  <2>3. lost \subseteq lost'
    BY SchemaGrows
  <2> QED BY <2>1, <2>2, <2>3
          DEF CurrentInv, Untouched, ServiceParts, BotParts, SharedParts, NoBot, Last
<1> QED BY <1>1, <1>2, <1>3, <1>4, <1>5 DEF DeployNext, UserStep

LEMMA AlwaysCurrentInv == DeploySpec => []CurrentInv
BY InitCurrentInv, StepCurrentInv, AlwaysDeployTypeOK, PTL DEF DeploySpec

\* For any history of commits, pulled in any portions, whatever statuses are set and
\* whoever is created, restarted, disabled and made active again: when no deployment is
\* under way, every service and the image run code to which nothing has changed up to
\* HEAD, with its schema, and so does every bot but those of users who were not active
\* when a new image was brought out and have not been restarted since; a deployment
\* that stopped leaves behind its own commits and nothing else (deploy.sh:51-100).
THEOREM DeployLeavesNothing == DeploySpec => []DeployedIsCurrent
<1>1. SchemaInv /\ CurrentInv => DeployedIsCurrent
  <2> SUFFICES ASSUME SchemaInv, CurrentInv, phase = "idle"
               PROVE  /\ \A s \in Services : Untouched(ServiceParts(s), built[s], head)
                      /\ Untouched(BotParts, image, head)
                      /\ MigrationsUpTo(head) \ lost \subseteq schema
                      /\ \A u \in Team \ missed : bot[u] # NoBot => Untouched(BotParts, bot[u], head)
    BY DEF DeployedIsCurrent
  <2>1. ServicesUpTo = head /\ ImageUpTo = head /\ \A u \in Team : BotUpTo(u) = head
    BY DEF ServicesUpTo, ImageUpTo, BotUpTo
  <2>2. MigrationsUpTo(head) \ lost \subseteq schema
    BY DEF SchemaInv, HeadMigrates
  <2> QED BY <2>1, <2>2 DEF CurrentInv
<1> QED BY <1>1, AlwaysSchemaInv, AlwaysCurrentInv, PTL
=============================================================================

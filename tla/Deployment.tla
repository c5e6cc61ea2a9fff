----------------------------- MODULE Deployment -----------------------------
(***************************************************************************)
(* Deploying to the production server (scripts/deploy.sh), and migrating   *)
(* its database by hand (scripts/migrate.js).                              *)
(*                                                                         *)
(* deploy.sh pulls, and from there on goes by the difference between the   *)
(* two commits: new migrations, changed services, the bots.  It keeps no   *)
(* record of its own: a deployment that stops half-way leaves HEAD where   *)
(* the pull has put it.  migrate.js records what it applies; deploy.sh     *)
(* applies migrations without looking at that record.                      *)
(*                                                                         *)
(* A commit is its number; it touches some parts of the repository and     *)
(* brings at most one migration, which can be run again (IF NOT EXISTS).   *)
(***************************************************************************)
EXTENDS Naturals, Sequences

CONSTANTS
    Team,         \* the users there may be
    Commits,      \* what each commit after the first touches
    MaxFailures   \* bound: deployments and statements that fail

Services == {"extractor-worker", "control-plane", "gmail-worker"}

\* "root": package.json and package-lock.json, which every Dockerfile copies and no
\* pattern of deploy.sh matches.
Parts == Services \cup {"migrations", "bot", "shared", "compose", "root"}

ASSUME DeploymentConstants == Commits \in Seq(SUBSET Parts) /\ MaxFailures \in Nat

VARIABLES
    master,     \* the newest commit
    head,       \* the commit checked out on the server
    phase, old,  \* where deploy.sh is, and the commit it came from
    todo,       \* migrations not applied yet
    list,       \* users not restarted yet
    schema,     \* migrations in effect
    recorded,   \* the rows of _migrations
    files,      \* migrations migrate.js has yet to look at
    built,      \* the commit each service runs
    image,      \* the commit the bot image was built from
    bot,        \* the commit each user's bot runs, or NoBot
    userStatus, \* users.status
    missed,     \* history: users whose bot a deployment left on an older image
    lost,       \* history: commits of deployments that stopped, migrations that failed
    failures

serverVars == <<master, head>>
scriptVars == <<phase, old, todo, list>>
databaseVars == <<schema, recorded, files>>
runningVars == <<built, image, bot, userStatus>>
historyVars == <<missed, lost>>
deployVars == <<serverVars, scriptVars, databaseVars, runningVars, historyVars, failures>>

Last == Len(Commits)
NoBot == Last + 1

\* CHANGED: the parts touched after commit a, up to commit b.
Changed(a, b) == UNION {Commits[c] : c \in (a + 1)..b}

\* Shared packages fan out to everything built from them; the migrations are in one.
SharedParts == {"shared", "migrations"}

Affects(changed, part) == changed \cap ({part} \cup SharedParts) # {}

\* Mutant: the shared packages are forgotten for the services.
ToRebuildAlone(changed) == IF "compose" \in changed THEN Services ELSE changed \cap Services

ToRebuild(changed) ==
    IF "compose" \in changed THEN Services ELSE {s \in Services : Affects(changed, s)}

\* The migrations after commit a, up to commit b.
Migrations(a, b) == {c \in (a + 1)..b : "migrations" \in Commits[c]}

\* In lexical order: the one to apply next.
IsFirst(c, migrations) == c \in migrations /\ \A d \in migrations : c <= d

DeployInit ==
    /\ master = 0 /\ head = 0
    /\ phase = "idle" /\ old = 0 /\ todo = {} /\ list = {}
    /\ schema = {} /\ recorded = {} /\ files = {}
    /\ built = [s \in Services |-> 0]
    /\ image = 0
    /\ bot = [u \in Team |-> NoBot]
    /\ userStatus = [u \in Team |-> "none"]
    /\ missed = {} /\ lost = {}
    /\ failures = 0

Publish ==
    /\ master < Last
    /\ master' = master + 1
    /\ UNCHANGED <<head, scriptVars, databaseVars, runningVars, historyVars, failures>>

-----------------------------------------------------------------------------
(* deploy.sh *)

\* OLD = NEW: "already up-to-date", whatever the deployment before has left undone.
UpToDate ==
    /\ phase = "idle"
    /\ head = master
    /\ UNCHANGED deployVars

Pull ==
    /\ phase = "idle"
    /\ head < master
    /\ old' = head
    /\ head' = master
    /\ todo' = Migrations(head, master)
    /\ phase' = "migrate"
    /\ UNCHANGED <<master, list, databaseVars, runningVars, historyVars, failures>>

\* psql -f
Migrate ==
    /\ phase = "migrate"
    /\ \E c \in todo :
          /\ IsFirst(c, todo)
          /\ schema' = schema \cup {c}
          /\ todo' = todo \ {c}
    /\ UNCHANGED <<serverVars, phase, old, list, recorded, files, runningVars, historyVars, failures>>

\* Mutant: the services are rebuilt while migrations are left.
RebuildEarly ==
    /\ phase = "migrate"
    /\ built' = [s \in Services |-> IF s \in ToRebuild(Changed(old, head)) THEN head ELSE built[s]]
    /\ phase' = IF todo = {} THEN "image" ELSE phase
    /\ UNCHANGED <<serverVars, old, todo, list, databaseVars, image, bot, userStatus, historyVars, failures>>

\* docker compose up -d --build
Rebuild ==
    /\ phase = "migrate"
    /\ todo = {}
    /\ built' = [s \in Services |-> IF s \in ToRebuild(Changed(old, head)) THEN head ELSE built[s]]
    /\ phase' = "image"
    /\ UNCHANGED <<serverVars, old, todo, list, databaseVars, image, bot, userStatus, historyVars, failures>>

BuildImage ==
    /\ phase = "image"
    /\ IF Affects(Changed(old, head), "bot")
       THEN image' = head /\ phase' = "list"
       ELSE UNCHANGED image /\ phase' = "idle"
    /\ UNCHANGED <<serverVars, old, todo, list, databaseVars, built, bot, userStatus, historyVars, failures>>

Active == {u \in Team : userStatus[u] = "active"}

\* Users with a bot of an older image than the one just built.
Outdated == {u \in Team : bot[u] \notin {NoBot, image}}

\* SELECT id FROM users WHERE status = 'active'; a telegram_bot_name, which it asks
\* for too, is required of everybody who is created.
ListUsers ==
    /\ phase = "list"
    /\ list' = Active
    /\ phase' = IF Active = {} THEN "idle" ELSE "restart"
    /\ missed' = missed \cup (Outdated \ Active)
    /\ UNCHANGED <<serverVars, old, todo, databaseVars, runningVars, lost, failures>>

\* POST /api/users/:id/restart brings up a bot from the image, whatever the status
\* of the user.
BringUp(u) ==
    /\ bot' = [bot EXCEPT ![u] = image]
    /\ missed' = missed \ {u}

\* The users are restarted in no particular order.
RestartBot(u) ==
    /\ phase = "restart"
    /\ u \in list
    /\ BringUp(u)
    /\ list' = list \ {u}
    /\ phase' = IF list' = {} THEN "idle" ELSE phase
    /\ UNCHANGED <<serverVars, old, todo, databaseVars, built, image, userStatus, lost, failures>>

-----------------------------------------------------------------------------
(* migrate.js, whenever somebody runs it. *)

\* The names in _migrations and the files are read once.
StartMigrateJs ==
    /\ files = {}
    /\ files' = Migrations(0, head) \ recorded
    /\ files' # {}
    /\ UNCHANGED <<serverVars, scriptVars, schema, recorded, runningVars, historyVars, failures>>

\* One transaction: the statements, and the row that records them.
Apply ==
    /\ \E c \in files :
          /\ IsFirst(c, files)
          /\ schema' = schema \cup {c}
          /\ recorded' = recorded \cup {c}
          /\ files' = files \ {c}
    /\ UNCHANGED <<serverVars, scriptVars, runningVars, historyVars, failures>>

-----------------------------------------------------------------------------
(* Users, in the meantime. *)

\* The control plane creates a user and a container.
CreateBot(u) ==
    /\ userStatus[u] = "none"
    /\ userStatus' = [userStatus EXCEPT ![u] = "provisioning"]
    /\ bot' = [bot EXCEPT ![u] = image]
    /\ UNCHANGED <<serverVars, scriptVars, databaseVars, built, image, historyVars, failures>>

StatusValues == {"provisioning", "active", "disabled"}

Existing == {u \in Team : userStatus[u] # "none"}

\* The end of a creation, good or bad, and PATCH, which sets any status and leaves
\* the bot as it is.
SetStatus(u, st) ==
    /\ u \in Existing
    /\ userStatus[u] # st
    /\ userStatus' = [userStatus EXCEPT ![u] = st]
    /\ UNCHANGED <<serverVars, scriptVars, databaseVars, built, image, bot, historyVars, failures>>

RestartByAdmin(u) ==
    /\ u \in Existing
    /\ BringUp(u)
    /\ UNCHANGED <<serverVars, scriptVars, databaseVars, built, image, userStatus, lost, failures>>

\* DELETE
DisableUser(u) ==
    /\ u \in Existing
    /\ userStatus' = [userStatus EXCEPT ![u] = "disabled"]
    /\ bot' = [bot EXCEPT ![u] = NoBot]
    /\ UNCHANGED <<serverVars, scriptVars, databaseVars, built, image, historyVars, failures>>

-----------------------------------------------------------------------------
Failure == failures < MaxFailures /\ failures' = failures + 1

\* A build, a restart or the connection fails: set -e ends the script.
DeployStops ==
    /\ Failure
    /\ phase # "idle"
    /\ phase' = "idle" /\ todo' = {} /\ list' = {}
    /\ lost' = lost \cup (old + 1)..head
    /\ UNCHANGED <<serverVars, old, databaseVars, runningVars, missed>>

\* psql goes on after an error and exits with 0, and so does the script.
StatementFails ==
    /\ Failure
    /\ phase = "migrate"
    /\ \E c \in todo : IsFirst(c, todo) /\ todo' = todo \ {c} /\ lost' = lost \cup {c}
    /\ UNCHANGED <<serverVars, phase, old, list, databaseVars, runningVars, missed>>

\* Mutant: the next file is tried after a ROLLBACK.
MigrateJsGoesOn ==
    /\ Failure
    /\ \E c \in files : IsFirst(c, files) /\ files' = files \ {c}
    /\ UNCHANGED <<serverVars, scriptVars, schema, recorded, runningVars, historyVars>>

\* ROLLBACK, and no further file.
MigrateJsStops ==
    /\ Failure
    /\ files # {}
    /\ files' = {}
    /\ UNCHANGED <<serverVars, scriptVars, schema, recorded, runningVars, historyVars>>

DeployNext ==
    \/ Publish
    \/ UpToDate \/ Pull \/ Migrate \/ Rebuild \/ BuildImage \/ ListUsers
    \/ \E u \in Team : RestartBot(u)
    \/ StartMigrateJs \/ Apply
    \/ \E u \in Team : CreateBot(u) \/ RestartByAdmin(u) \/ DisableUser(u)
    \/ \E u \in Team, st \in StatusValues : SetStatus(u, st)
    \/ DeployStops \/ StatementFails \/ MigrateJsStops

DeploySpec == DeployInit /\ [][DeployNext]_deployVars

-----------------------------------------------------------------------------
(* What a deployment is for. *)

\* No commit after a, up to commit b, has touched one of the parts, but for those of
\* deployments that went wrong.
Untouched(parts, a, b) == \A c \in (a + 1)..b : c \in lost \/ Commits[c] \cap parts = {}

ServiceParts(s) == {s, "compose"} \cup SharedParts
BotParts == {"bot"} \cup SharedParts

MigrationsUpTo(c) == Migrations(0, c)

\* Between deployments nothing runs code from before a change that deploy.sh looks for
\* (deploy.sh:4-7): no service, no image, and no bot.  However commits pile up, are
\* pulled one by one or follow a deployment that stopped, what is left behind is what
\* these commits alone touched (lost), and the bots of users that were not active when
\* the users were listed, until they are restarted (missed): such a user made active
\* again goes on with the old bot.  The root package files are in nobody's parts.
DeployedIsCurrent ==
    phase = "idle" =>
        /\ \A s \in Services : Untouched(ServiceParts(s), built[s], head)
        /\ Untouched(BotParts, image, head)
        /\ MigrationsUpTo(head) \ lost \subseteq schema
        /\ \A u \in Team \ missed : bot[u] # NoBot => Untouched(BotParts, bot[u], head)

\* "Migrations first - new code may need the new schema" (deploy.sh:55): whatever runs
\* finds the schema of its own commit at every step of a deployment, and so do the
\* bots created or restarted beside it, but for migrations that failed or that a
\* stopped deployment never came to.
SchemaBeforeCode ==
    /\ \A s \in Services : MigrationsUpTo(built[s]) \ lost \subseteq schema
    /\ MigrationsUpTo(image) \ lost \subseteq schema
    /\ \A u \in Team : bot[u] # NoBot => MigrationsUpTo(bot[u]) \ lost \subseteq schema

\* "Apply SQL migrations in lexical order" (migrate.js:2): what is recorded is in
\* effect and leaves no earlier migration out, whatever stopped and whatever
\* deploy.sh has applied or skipped beside it.
RecordedInOrder ==
    \A c \in recorded : c \in schema /\ MigrationsUpTo(c) \subseteq recorded
=============================================================================

-------------------------- MODULE DashboardSessions --------------------------
(***************************************************************************)
(* The way into the dashboard: /me in the bot mints a magic link, opening  *)
(* it redeems the link for a session cookie, and the cookie opens the      *)
(* routes under /me and /api/me until it expires or its user logs out.     *)
(*                                                                         *)
(* Tokens are rows of user_sessions; a raw token is random and never minted*)
(* twice.  A request is a chain of awaited statements; several requests of *)
(* the same people overlap, and each may end at any of its statements.  A  *)
(* request that is turned away changes nothing and is left out.            *)
(***************************************************************************)
EXTENDS Naturals

CONSTANTS
    Users,
    Tokens,      \* the raw tokens that may be minted
    NoToken,
    Nobody,
    Requests,    \* the requests the control plane works on at a time
    Facts,       \* rows of knowledge_entries
    OwnerOf,     \* owner_user_id of each fact
    MaxFaults    \* bound: requests that end early, crashes

ASSUME SessionConstants ==
    /\ NoToken \notin Tokens
    /\ Nobody \notin Users
    /\ OwnerOf \in [Facts -> Users]
    /\ MaxFaults \in Nat

VARIABLES
    kind,      \* of each token's row, or "none"
    holder,    \* user_id of each row
    used,      \* rows with used_at set
    expired,   \* rows whose expires_at has passed
    known,     \* tokens somebody was sent
    pc, op,    \* where each request is, and what it asks for
    token,     \* the token a request came with
    user,      \* userId of a login, req.meUserId of the others
    edited,    \* facts changed from the dashboard
    origin,    \* history: the link each session was minted for
    ended,     \* history: the sessions a logout found
    faults

rowVars == <<kind, holder, used, expired>>
requestVars == <<pc, op, token, user>>
vars == <<rowVars, known, requestVars, edited, origin, ended, faults>>

Init ==
    /\ kind = [t \in Tokens |-> "none"]
    /\ holder = [t \in Tokens |-> Nobody]
    /\ used = {}
    /\ expired = {}
    /\ known = {}
    /\ pc = [r \in Requests |-> "idle"]
    /\ op = [r \in Requests |-> "login"]
    /\ token = [r \in Requests |-> NoToken]
    /\ user = [r \in Requests |-> Nobody]
    /\ edited = {}
    /\ origin = [t \in Tokens |-> NoToken]
    /\ ended = {}
    /\ faults = 0

\* INSERT INTO user_sessions
InsertToken(t, k, u) ==
    /\ kind[t] = "none"
    /\ kind' = [kind EXCEPT ![t] = k]
    /\ holder' = [holder EXCEPT ![t] = u]
    /\ UNCHANGED <<used, expired>>

Goto(r, step) == pc' = [pc EXCEPT ![r] = step]

Arrive(r, what, t, u, step) ==
    /\ pc[r] = "idle"
    /\ op' = [op EXCEPT ![r] = what]
    /\ token' = [token EXCEPT ![r] = t]
    /\ user' = [user EXCEPT ![r] = u]
    /\ Goto(r, step)

Leave(r) == Goto(r, "idle") /\ UNCHANGED <<op, token, user>>

-----------------------------------------------------------------------------
\* /me in the bot.
MintLink(t, u) ==
    /\ InsertToken(t, "magic_link", u)
    /\ known' = known \cup {t}
    /\ UNCHANGED <<requestVars, edited, origin, ended, faults>>

\* Mutant: a link that was opened before is redeemed again.
RedeemableTwice(t) == kind[t] = "magic_link" /\ t \in known \ expired

Redeemable(t) == kind[t] = "magic_link" /\ t \in known \ (used \cup expired)

\* GET /me/login: one UPDATE looks the link up and uses it up.
Claim(r, t) ==
    /\ Redeemable(t)
    /\ used' = used \cup {t}
    /\ Arrive(r, "login", t, holder[t], "mint")
    /\ UNCHANGED <<kind, holder, expired, known, edited, origin, ended, faults>>

\* Mutant: the login answers before the session is inserted.
MintSessionLate(r, t) ==
    /\ pc[r] = "mint"
    /\ kind[t] = "none"
    /\ Leave(r)
    /\ UNCHANGED <<rowVars, known, edited, origin, ended, faults>>

MintSession(r, t) ==
    /\ pc[r] = "mint"
    /\ InsertToken(t, "session", user[r])
    /\ origin' = [origin EXCEPT ![t] = token[r]]
    /\ token' = [token EXCEPT ![r] = t]
    /\ Goto(r, "answer")
    /\ UNCHANGED <<known, op, user, edited, ended, faults>>

\* The redirect with the cookie.
Answer(r) ==
    /\ pc[r] = "answer"
    /\ known' = known \cup {token[r]}
    /\ Leave(r)
    /\ UNCHANGED <<rowVars, edited, origin, ended, faults>>

-----------------------------------------------------------------------------
\* requireMeSession: what it read may change before the handler's own statement.
Enter(r, what, t) ==
    /\ kind[t] = "session"
    /\ t \in known \ (used \cup expired)
    /\ Arrive(r, what, t, holder[t], "handle")
    /\ UNCHANGED <<rowVars, known, edited, origin, ended, faults>>

SessionsOf(u) == {t \in Tokens : kind[t] = "session" /\ holder[t] = u}

\* Mutant: the cookie's own session alone is closed.
LogoutOne(r) ==
    /\ pc[r] = "handle"
    /\ op[r] = "logout"
    /\ used' = used \cup {token[r]}
    /\ ended' = ended \cup SessionsOf(user[r])
    /\ Leave(r)
    /\ UNCHANGED <<kind, holder, expired, known, edited, origin, faults>>

\* POST /me/logout closes every session of the user, in other browsers too.
Logout(r) ==
    /\ pc[r] = "handle"
    /\ op[r] = "logout"
    /\ used' = used \cup SessionsOf(user[r])
    /\ ended' = ended \cup SessionsOf(user[r])
    /\ Leave(r)
    /\ UNCHANGED <<kind, holder, expired, known, edited, origin, faults>>

\* Mutant: a fact is found by its id alone.
EditAny(r, f) ==
    /\ pc[r] = "handle"
    /\ op[r] = "edit"
    /\ edited' = edited \cup {f}
    /\ Leave(r)
    /\ UNCHANGED <<rowVars, known, origin, ended, faults>>

\* PATCH and DELETE /api/me/facts/:id, for an id the client chooses.
Edit(r, f) ==
    /\ pc[r] = "handle"
    /\ op[r] = "edit"
    /\ edited' = edited \cup {g \in {f} : OwnerOf[g] = user[r]}
    /\ Leave(r)
    /\ UNCHANGED <<rowVars, known, origin, ended, faults>>

-----------------------------------------------------------------------------
Expire(t) ==
    /\ kind[t] # "none"
    /\ t \notin expired
    /\ expired' = expired \cup {t}
    /\ UNCHANGED <<kind, holder, used, known, requestVars, edited, origin, ended, faults>>

Fault == faults < MaxFaults /\ faults' = faults + 1

\* A statement is refused, or the reply is lost on its way: a 500 for one request.
Fails(r) ==
    /\ Fault
    /\ pc[r] # "idle"
    /\ Leave(r)
    /\ UNCHANGED <<rowVars, known, edited, origin, ended>>

Crash ==
    /\ Fault
    /\ pc' = [r \in Requests |-> "idle"]
    /\ UNCHANGED <<rowVars, known, op, token, user, edited, origin, ended>>

\* Bound: every token was minted and is too old to open anything.
TokensSpent ==
    /\ expired = Tokens
    /\ \A r \in Requests : pc[r] \in {"idle", "mint"}
    /\ UNCHANGED vars

RequestStep(r) ==
    \/ \E t \in Tokens : Claim(r, t) \/ MintSession(r, t)
    \/ \E t \in Tokens, what \in {"logout", "edit"} : Enter(r, what, t)
    \/ \E f \in Facts : Edit(r, f)
    \/ Answer(r) \/ Logout(r) \/ Fails(r)

Next ==
    \/ \E r \in Requests : RequestStep(r)
    \/ \E t \in Tokens, u \in Users : MintLink(t, u)
    \/ \E t \in Tokens : Expire(t)
    \/ Crash \/ TokensSpent

Spec == Init /\ [][Next]_vars

-----------------------------------------------------------------------------
(* What the way in promises. *)

\* Shape of the state.
TypeOK ==
    /\ kind \in [Tokens -> {"none", "magic_link", "session"}]
    /\ holder \in [Tokens -> Users \cup {Nobody}]
    /\ used \subseteq Tokens /\ expired \subseteq Tokens
    /\ known \subseteq Tokens /\ ended \subseteq Tokens
    /\ pc \in [Requests -> {"idle", "mint", "answer", "handle"}]
    /\ op \in [Requests -> {"login", "logout", "edit"}]
    /\ token \in [Requests -> Tokens \cup {NoToken}]
    /\ \A r \in Requests : pc[r] = "answer" => token[r] \in Tokens
    /\ user \in [Requests -> Users \cup {Nobody}]
    /\ edited \subseteq Facts
    /\ origin \in [Tokens -> Tokens \cup {NoToken}]
    /\ faults \in 0..MaxFaults

\* "Magic links are single-use" (me.js:72): however often and however concurrently
\* a link is opened, one session at most descends from it.
OneSessionPerLink ==
    \A s, t \in Tokens : origin[s] = origin[t] /\ origin[s] # NoToken => s = t

\* A link that was used up opened a session, or its login is still under way: a
\* link is lost only to a request that failed between the two statements
\* (me.js:55 and me.js:79), never to another request of the same link.
BurntLinkByFault ==
    \A t \in used : kind[t] = "magic_link" /\ faults = 0 =>
        \/ \E s \in Tokens : origin[s] = t
        \/ \E r \in Requests : pc[r] = "mint" /\ token[r] = t

\* No session a logout found lets a request in again, in whichever browser its
\* cookie is and whatever requests overlap the logout (me.js:99-105, auth.js:55-65).
LogoutEndsSessions ==
    [][\A r \in Requests : pc[r] = "idle" /\ pc'[r] = "handle" => token'[r] \notin ended]_vars

\* "own facts only" (me.js:10-11): a fact changes only by the request of its owner,
\* who came in by a link that his own bot minted.
OwnersEditOnly ==
    [][\A f \in edited' \ edited :
          \E r \in Requests :
              /\ pc[r] = "handle"
              /\ user[r] = OwnerOf[f]
              /\ holder[origin[token[r]]] = OwnerOf[f]]_vars
=============================================================================

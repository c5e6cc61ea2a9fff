----------------------- MODULE DashboardSessionsProofs -----------------------
(***************************************************************************)
(* Proofs about DashboardSessions for any users, tokens, requests and      *)
(* faults: no link opens two sessions, none is lost without a fault, a     *)
(* logout is final, and a fact changes by its owner's hand only.           *)
(***************************************************************************)
EXTENDS DashboardSessions, TLAPS

-----------------------------------------------------------------------------
(* The inductive invariant: how requests, links and sessions belong together. *)

\* A login past its claim holds a used link nobody else holds and no session
\* descends from.
ClaimHeld ==
    \A r \in Requests : pc[r] = "mint" =>
        /\ token[r] \in used
        /\ kind[token[r]] = "magic_link"
        /\ user[r] = holder[token[r]]
        /\ \A s \in Tokens : origin[s] # token[r]
        /\ \A q \in Requests : pc[q] = "mint" /\ token[q] = token[r] => q = r

\* A session descends from a used link of the same user.
Descends ==
    \A s \in Tokens :
        /\ kind[s] = "session" => origin[s] \in Tokens
        /\ origin[s] # NoToken =>
              /\ kind[s] = "session"
              /\ origin[s] \in used
              /\ kind[origin[s]] = "magic_link"
              /\ holder[origin[s]] = holder[s]

\* A request past the gate works for the holder of the session it came with.
EnteredBySession ==
    \A r \in Requests : pc[r] = "handle" =>
        /\ token[r] \in Tokens
        /\ kind[token[r]] = "session"
        /\ user[r] = holder[token[r]]

\* What a logout found is used; only rows that exist are used.
EndedIsUsed == ended \subseteq used
UsedExists == \A t \in used : kind[t] # "none"

Belongs ==
    /\ ClaimHeld /\ Descends /\ EnteredBySession /\ EndedIsUsed /\ UsedExists
    /\ OneSessionPerLink

IInv == TypeOK /\ Belongs

LEMMA InitIInv == Init => IInv
BY SessionConstants DEF Init, IInv, TypeOK, Belongs, ClaimHeld, Descends, EnteredBySession,
   EndedIsUsed, UsedExists, OneSessionPerLink

LEMMA StepTypeOK == TypeOK /\ [Next]_vars => TypeOK'
<1> SUFFICES ASSUME TypeOK, [Next]_vars PROVE TypeOK'
  OBVIOUS
<1> USE SessionConstants
<1>1. ASSUME NEW r \in Requests, NEW t \in Tokens, Claim(r, t) PROVE TypeOK'
  BY <1>1 DEF TypeOK, Claim, Redeemable, Arrive, Goto
<1>2. ASSUME NEW r \in Requests, NEW t \in Tokens, MintSession(r, t) PROVE TypeOK'
  BY <1>2 DEF TypeOK, MintSession, InsertToken, Goto
<1>3. ASSUME NEW r \in Requests, NEW t \in Tokens, NEW what \in {"logout", "edit"},
             Enter(r, what, t)
      PROVE  TypeOK'
  BY <1>3 DEF TypeOK, Enter, Arrive, Goto, rowVars
<1>4. ASSUME NEW r \in Requests, NEW f \in Facts, Edit(r, f) PROVE TypeOK'
  BY <1>4 DEF TypeOK, Edit, Leave, Goto, rowVars
<1>5. ASSUME NEW r \in Requests, Answer(r) \/ Logout(r) \/ Fails(r) PROVE TypeOK'
  <2>1. CASE Answer(r)
    BY <2>1 DEF TypeOK, Answer, Leave, Goto, rowVars
  <2>2. CASE Logout(r)
    BY <2>2 DEF TypeOK, Logout, SessionsOf, Leave, Goto
  <2>3. CASE Fails(r)
    BY <2>3 DEF TypeOK, Fails, Fault, Leave, Goto, rowVars
  <2> QED BY <1>5, <2>1, <2>2, <2>3
<1>6. ASSUME NEW t \in Tokens, NEW u \in Users, MintLink(t, u) PROVE TypeOK'
  BY <1>6 DEF TypeOK, MintLink, InsertToken, requestVars
<1>7. ASSUME NEW t \in Tokens, Expire(t) PROVE TypeOK'
  BY <1>7 DEF TypeOK, Expire, requestVars
<1>8. CASE Crash
  BY <1>8 DEF TypeOK, Crash, Fault, rowVars
<1>9. CASE UNCHANGED vars
  BY <1>9 DEF TypeOK, vars, rowVars, requestVars
<1> QED BY <1>1, <1>2, <1>3, <1>4, <1>5, <1>6, <1>7, <1>8, <1>9 DEF Next, RequestStep, TokensSpent

\* A link is redeemed: nobody else holds it, and no session descends from it yet.
LEMMA ClaimBelongs ==
    ASSUME IInv, TypeOK', NEW r \in Requests, NEW t \in Tokens, Claim(r, t) PROVE Belongs'
<1> USE SessionConstants DEF IInv, TypeOK, Belongs, Claim, Redeemable, Arrive, Goto
<1>1. ClaimHeld'
  BY DEF ClaimHeld, Descends
<1>2. EnteredBySession'
  BY DEF EnteredBySession
<1>3. Descends' /\ EndedIsUsed' /\ UsedExists' /\ OneSessionPerLink'
  BY DEF Descends, EndedIsUsed, UsedExists, OneSessionPerLink
<1> QED BY <1>1, <1>2, <1>3

\* The session of a claimed link is inserted: it is the first of that link.
LEMMA MintBelongs ==
    ASSUME IInv, TypeOK', NEW r \in Requests, NEW t \in Tokens, MintSession(r, t) PROVE Belongs'
<1> USE SessionConstants DEF IInv, TypeOK, Belongs, MintSession, InsertToken, Goto
<1>1. /\ token[r] \in used
      /\ kind[token[r]] = "magic_link"
      /\ user[r] = holder[token[r]]
      /\ token[r] \in Tokens /\ token[r] # t /\ t \notin used
      /\ \A s \in Tokens : origin[s] # t /\ origin[s] # token[r]
      /\ \A q \in Requests : pc[q] = "mint" /\ token[q] = token[r] => q = r
  BY DEF ClaimHeld, Descends, UsedExists
<1>2. ClaimHeld'
  BY <1>1 DEF ClaimHeld
<1>3. Descends'
  BY <1>1 DEF Descends
<1>4. EnteredBySession'
  BY <1>1 DEF EnteredBySession
<1>5. EndedIsUsed' /\ UsedExists' /\ OneSessionPerLink'
  BY <1>1 DEF EndedIsUsed, UsedExists, OneSessionPerLink
<1> QED BY <1>2, <1>3, <1>4, <1>5

LEMMA StepBelongs == IInv /\ TypeOK' /\ [Next]_vars => Belongs'
<1> SUFFICES ASSUME IInv, TypeOK', [Next]_vars PROVE Belongs'
  OBVIOUS
<1> USE SessionConstants DEF IInv, Belongs
<1>1. ASSUME NEW r \in Requests, NEW t \in Tokens, NEW what \in {"logout", "edit"},
             Enter(r, what, t)
      PROVE  Belongs'
  BY <1>1 DEF TypeOK, Enter, Arrive, Goto, rowVars, ClaimHeld, Descends, EnteredBySession,
     EndedIsUsed, UsedExists, OneSessionPerLink
<1>2. ASSUME NEW r \in Requests, NEW f \in Facts, Edit(r, f) PROVE Belongs'
  BY <1>2 DEF TypeOK, Edit, Leave, Goto, rowVars, ClaimHeld, Descends, EnteredBySession,
     EndedIsUsed, UsedExists, OneSessionPerLink
<1>3. ASSUME NEW r \in Requests, Answer(r) \/ Fails(r) PROVE Belongs'
  BY <1>3 DEF TypeOK, Answer, Fails, Leave, Goto, rowVars, ClaimHeld, Descends, EnteredBySession,
     EndedIsUsed, UsedExists, OneSessionPerLink
<1>4. ASSUME NEW r \in Requests, Logout(r) PROVE Belongs'
  BY <1>4 DEF TypeOK, Logout, SessionsOf, Leave, Goto, ClaimHeld, Descends, EnteredBySession,
     EndedIsUsed, UsedExists, OneSessionPerLink
<1>5. ASSUME NEW t \in Tokens, NEW u \in Users, MintLink(t, u) PROVE Belongs'
  <2> USE <1>5 DEF TypeOK, MintLink, InsertToken, requestVars
  <2>1. t \notin used /\ \A s \in Tokens : origin[s] # t
    BY DEF UsedExists, Descends
  <2>2. ClaimHeld'
    BY <2>1 DEF ClaimHeld
  <2>3. Descends'
    BY <2>1 DEF Descends
  <2>4. EnteredBySession' /\ EndedIsUsed' /\ UsedExists' /\ OneSessionPerLink'
    BY <2>1 DEF EnteredBySession, EndedIsUsed, UsedExists, OneSessionPerLink
  <2> QED BY <2>2, <2>3, <2>4
<1>6. ASSUME NEW t \in Tokens, Expire(t) PROVE Belongs'
  BY <1>6 DEF TypeOK, Expire, requestVars, ClaimHeld, Descends, EnteredBySession, EndedIsUsed,
     UsedExists, OneSessionPerLink
<1>7. CASE Crash
  BY <1>7 DEF TypeOK, Crash, rowVars, ClaimHeld, Descends, EnteredBySession, EndedIsUsed,
     UsedExists, OneSessionPerLink
<1>8. CASE UNCHANGED vars
  BY <1>8 DEF vars, rowVars, requestVars, ClaimHeld, Descends, EnteredBySession, EndedIsUsed,
     UsedExists, OneSessionPerLink
<1> QED BY <1>1, <1>2, <1>3, <1>4, <1>5, <1>6, <1>7, <1>8, ClaimBelongs, MintBelongs
        DEF Next, RequestStep, TokensSpent

LEMMA StepIInv == IInv /\ [Next]_vars => IInv'
BY StepTypeOK, StepBelongs DEF IInv

LEMMA AlwaysIInv == Spec => []IInv
<1> QED BY InitIInv, StepIInv, PTL DEF Spec

-----------------------------------------------------------------------------
\* The shape of the rows and of the requests' memory, whatever overlaps.
THEOREM DashboardTypeCorrect == Spec => []TypeOK
<1>1. IInv => TypeOK
  BY DEF IInv
<1> QED BY <1>1, AlwaysIInv, PTL

\* However often and however concurrently a magic link is opened, one session at
\* most descends from it (me.js:55-63).
THEOREM LinkOpensOnce == Spec => []OneSessionPerLink
<1>1. IInv => OneSessionPerLink
  BY DEF IInv, Belongs
<1> QED BY <1>1, AlwaysIInv, PTL

\* No session a logout found lets a request in again (me.js:99-105, auth.js:55-65).
THEOREM LogoutIsFinal == Spec => LogoutEndsSessions
<1>1. IInv /\ [Next]_vars =>
        [\A r \in Requests : pc[r] = "idle" /\ pc'[r] = "handle" => token'[r] \notin ended]_vars
  <2> SUFFICES ASSUME IInv, Next, NEW r \in Requests, pc[r] = "idle", pc'[r] = "handle"
               PROVE  token'[r] \notin ended
    BY DEF vars
  <2>1. ASSUME NEW q \in Requests, NEW t \in Tokens, NEW what \in {"logout", "edit"},
               Enter(q, what, t)
        PROVE  token'[r] \notin ended
    BY <2>1 DEF Enter, Arrive, Goto, IInv, TypeOK, Belongs, EndedIsUsed
  <2>2. \A q \in Requests, t \in Tokens : ~Claim(q, t) /\ ~MintSession(q, t)
    BY DEF Claim, MintSession, Arrive, Goto, IInv, TypeOK
  <2>3. \A q \in Requests, f \in Facts : ~Edit(q, f)
    BY DEF Edit, Leave, Goto, IInv, TypeOK
  <2>4. \A q \in Requests : ~Answer(q) /\ ~Logout(q) /\ ~Fails(q)
    BY DEF Answer, Logout, Fails, Leave, Goto, IInv, TypeOK
  <2>5. \A t \in Tokens, u \in Users : ~MintLink(t, u)
    BY DEF MintLink, requestVars
  <2>6. \A t \in Tokens : ~Expire(t)
    BY DEF Expire, requestVars
  <2>7. ~Crash /\ ~TokensSpent
    BY DEF Crash, TokensSpent, vars, requestVars
  <2> QED BY <2>1, <2>2, <2>3, <2>4, <2>5, <2>6, <2>7 DEF Next, RequestStep
<1> QED BY <1>1, AlwaysIInv, PTL DEF Spec, LogoutEndsSessions

\* A fact changes only by a request of its owner, who came in by his own link
\* (me.js:198-201 and 212-216).
THEOREM EditsAreTheOwners == Spec => OwnersEditOnly
<1>1. IInv /\ [Next]_vars =>
        [\A f \in edited' \ edited :
            \E r \in Requests :
                /\ pc[r] = "handle"
                /\ user[r] = OwnerOf[f]
                /\ holder[origin[token[r]]] = OwnerOf[f]]_vars
  <2> SUFFICES ASSUME IInv, Next, NEW f \in edited' \ edited
               PROVE  \E r \in Requests :
                          /\ pc[r] = "handle"
                          /\ user[r] = OwnerOf[f]
                          /\ holder[origin[token[r]]] = OwnerOf[f]
    OBVIOUS
  <2>1. PICK r \in Requests, g \in Facts : Edit(r, g)
    BY DEF Next, RequestStep, Claim, MintSession, Enter, Answer, Logout, Fails, MintLink, Expire,
       Crash, TokensSpent, vars
  <2>2. f = g /\ OwnerOf[f] = user[r] /\ pc[r] = "handle"
    BY <2>1 DEF Edit
  <2>3. holder[origin[token[r]]] = user[r]
    BY <2>2, SessionConstants DEF IInv, TypeOK, Belongs, EnteredBySession, Descends
  <2> QED BY <2>2, <2>3
<1> QED BY <1>1, AlwaysIInv, PTL DEF Spec, OwnersEditOnly

-----------------------------------------------------------------------------
\* A used link is lost to a fault only: what a step without faults preserves.
LEMMA StepLink ==
    ASSUME IInv, BurntLinkByFault, [Next]_vars PROVE BurntLinkByFault'
<1> USE SessionConstants DEF IInv, TypeOK, BurntLinkByFault
<1>1. ASSUME NEW r \in Requests, NEW t \in Tokens, Claim(r, t) PROVE BurntLinkByFault'
  BY <1>1 DEF Claim, Redeemable, Arrive, Goto
<1>2. ASSUME NEW r \in Requests, NEW t \in Tokens, MintSession(r, t) PROVE BurntLinkByFault'
  <2>1. t \notin used /\ origin[t] = NoToken
    BY <1>2 DEF MintSession, InsertToken, Belongs, UsedExists, Descends
  <2> QED BY <1>2, <2>1 DEF MintSession, InsertToken, Goto
<1>3. ASSUME NEW r \in Requests, NEW t \in Tokens, NEW what \in {"logout", "edit"},
             Enter(r, what, t)
      PROVE  BurntLinkByFault'
  BY <1>3 DEF Enter, Arrive, Goto, rowVars
<1>4. ASSUME NEW r \in Requests, NEW f \in Facts, Edit(r, f) PROVE BurntLinkByFault'
  BY <1>4 DEF Edit, Leave, Goto, rowVars
<1>5. ASSUME NEW r \in Requests, Answer(r) PROVE BurntLinkByFault'
  BY <1>5 DEF Answer, Leave, Goto, rowVars
<1>6. ASSUME NEW r \in Requests, Logout(r) PROVE BurntLinkByFault'
  BY <1>6 DEF Logout, SessionsOf, Leave, Goto
<1>7. ASSUME NEW t \in Tokens, NEW u \in Users, MintLink(t, u) PROVE BurntLinkByFault'
  BY <1>7 DEF MintLink, InsertToken, requestVars, Belongs, UsedExists
<1>8. ASSUME NEW t \in Tokens, Expire(t) PROVE BurntLinkByFault'
  BY <1>8 DEF Expire, requestVars
<1>9. ASSUME Crash \/ \E r \in Requests : Fails(r) PROVE BurntLinkByFault'
  <2>1. faults' # 0
    BY <1>9 DEF Crash, Fails, Fault
  <2> QED BY <2>1
<1>10. CASE UNCHANGED vars
  BY <1>10 DEF vars, rowVars, requestVars
<1> QED BY <1>1, <1>2, <1>3, <1>4, <1>5, <1>6, <1>7, <1>8, <1>9, <1>10
        DEF Next, RequestStep, TokensSpent

\* A link that was used up opened a session or its login is under way, unless a
\* request failed or the process ended (me.js:55, me.js:79).
THEOREM LinkLostByFault == Spec => []BurntLinkByFault
<1>1. Init => BurntLinkByFault
  BY DEF Init, BurntLinkByFault
<1> QED BY <1>1, AlwaysIInv, StepLink, PTL DEF Spec
=============================================================================

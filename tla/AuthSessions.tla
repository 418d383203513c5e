---------------------------- MODULE AuthSessions ----------------------------
(***************************************************************************)
(* Sign-in sessions: authenticate_user, refresh_session, revoke_session and *)
(* get_current_user (saas/service.py) behind /auth/login, /auth/refresh,    *)
(* /auth/logout and /v1/me, and the web client that calls them              *)
(* (apps/web/src/app/authSession.tsx).                                      *)
(*                                                                          *)
(* The tabs of one browser share its cookie jar, where the server keeps the *)
(* refresh token, and its local storage, where the client keeps the access  *)
(* token.  Their calls overlap, and answers arrive in any order or not at   *)
(* all.  A call reads the session in one statement and writes in a later    *)
(* one; the commit writes the columns it changed, by session id.            *)
(*                                                                          *)
(* Login and refresh issue an access and a refresh token at once: a number  *)
(* n stands for both, and issued[n] is the session they belong to.          *)
(***************************************************************************)
EXTENDS Naturals, Sequences, FiniteSets

CONSTANTS
    Tabs,       \* tabs of one browser, one user, one tenant
    MaxTokens,  \* bound: tokens issued, and calls begun that may issue one
    MaxMishaps  \* bound: calls lost, changes of the membership and refresh
                \* windows that close, together

ASSUME BoundsAreNat ==
    MaxTokens \in Nat /\ MaxMishaps \in Nat

VARIABLES
    sess,     \* AuthSession rows, in the order of the logins
    issued,   \* the session of each token
    expired,  \* the tokens whose access half has expired
    active,   \* the user and the membership are active
    toggles,  \* changes of active
    cookie,   \* inv_refresh in the cookie jar
    stored,   \* the access token in the local storage
    tab,      \* what each tab does
    solo,     \* does the user let one tab finish before using another
    ended,    \* sessions a sign-out that was answered was about
    losses

server == <<sess, issued>>
world == <<expired, active, toggles>>
browser == <<cookie, stored>>
vars == <<server, world, browser, tab, solo, ended, losses>>

-----------------------------------------------------------------------------
NoToken == 0
Tokens == DOMAIN issued
Sessions == DOMAIN sess

\* The refresh window of a session is open or has lapsed.
NewSession(n) == [hash |-> n, revoked |-> FALSE, lapsed |-> FALSE]

\* Where the client of a tab is: at rest (page not loaded or reloaded, signed
\* in, signed out, error shown), or waiting for a call.
Rest == {"new", "in", "out", "error"}
Calls == {"login", "me", "refresh", "me again", "logout"}

\* How far the call is: sent; read by the server, which found the membership
\* active or inactive; answered.
Stages == {"none", "sent", "active", "inactive", "ok", "refused"}

\* at: see above; token: what the call carries; fresh: the token it is given;
\* dead: was the session of the token revoked when the call was sent.
AtRest(at) == [at |-> at, stage |-> "none", token |-> NoToken,
               fresh |-> NoToken, dead |-> FALSE]
Calling(call, n) ==
    [AtRest(call) EXCEPT !.stage = "sent", !.token = n,
                         !.dead = n # NoToken /\ sess[issued[n]].revoked]

Init ==
    /\ sess = <<>>
    /\ issued = <<>>
    /\ expired = {}
    /\ active = TRUE
    /\ toggles = 0
    /\ cookie = NoToken
    /\ stored = NoToken
    /\ tab = [t \in Tabs |-> AtRest("new")]
    /\ solo \in BOOLEAN
    /\ ended = {}
    /\ losses = 0

-----------------------------------------------------------------------------
(* The client *)

\* A user who works in one tab at a time.
MayAct(t) == solo => \A u \in Tabs \ {t} : tab[u].at \in Rest

Become(t, new) == tab' = [tab EXCEPT ![t] = new]

\* The bound on tokens, taken where a call begins so that none is cut short.
Room == Len(issued) + Cardinality({u \in Tabs : tab[u].at \in {"login", "me", "refresh"}})
          < MaxTokens

\* loadSessionFromApi, on a page load and on retry: without a stored token the
\* user is signed out, with one it is checked.
LoadNothing(t) ==
    /\ tab[t].at \in Rest /\ MayAct(t) /\ stored = NoToken
    /\ Become(t, AtRest("out"))
    /\ UNCHANGED <<server, world, browser, solo, ended, losses>>

Load(t) ==
    /\ tab[t].at \in Rest /\ MayAct(t) /\ stored # NoToken /\ Room
    /\ Become(t, Calling("me", stored))
    /\ UNCHANGED <<server, world, browser, solo, ended, losses>>

SignIn(t) ==
    /\ tab[t].at = "out" /\ MayAct(t) /\ Room
    /\ Become(t, Calling("login", NoToken))
    /\ UNCHANGED <<server, world, browser, solo, ended, losses>>

SignOut(t) ==
    /\ tab[t].at = "in" /\ MayAct(t)
    /\ Become(t, Calling("logout", cookie))
    /\ UNCHANGED <<server, world, browser, solo, ended, losses>>

-----------------------------------------------------------------------------
(* The server *)

Serves(t, call, stage) == tab[t].at = call /\ tab[t].stage = stage

Goto(t, stage) == tab' = [tab EXCEPT ![t].stage = stage]
Grant(t, n) == tab' = [tab EXCEPT ![t].stage = "ok", ![t].fresh = n]

\* The session whose refresh_token_hash is that of the token.
Holder(n) == {s \in Sessions : n # NoToken /\ sess[s].hash = n}

\* authenticate_user reads user and membership; the password may be wrong.
LoginRead(t) ==
    /\ Serves(t, "login", "sent")
    /\ Goto(t, "refused") \/ (active /\ Goto(t, "active"))
    /\ UNCHANGED <<server, world, browser, solo, ended, losses>>

\* ... and commits a new session.
LoginCommit(t) ==
    /\ Serves(t, "login", "active")
    /\ issued' = Append(issued, Len(sess) + 1)
    /\ sess' = Append(sess, NewSession(Len(issued) + 1))
    /\ Grant(t, Len(issued) + 1)
    /\ UNCHANGED <<world, browser, solo, ended, losses>>

\* Mutant: the refresh does not look at revoked_at.
MayRefreshRevoked(s) == ~sess[s].lapsed

MayRefresh(s) == ~sess[s].revoked /\ ~sess[s].lapsed

\* refresh_session: a missing, unknown, revoked or expired token is refused;
\* otherwise user and membership are read.
RefreshRead(t) ==
    /\ Serves(t, "refresh", "sent")
    /\ IF \E s \in Holder(tab[t].token) : MayRefresh(s)
       THEN Goto(t, IF active THEN "active" ELSE "inactive")
       ELSE Goto(t, "refused")
    /\ UNCHANGED <<server, world, browser, solo, ended, losses>>

\* With an inactive membership the session is revoked and the call refused ...
RefreshInactive(t) ==
    /\ Serves(t, "refresh", "inactive")
    /\ sess' = [sess EXCEPT ![issued[tab[t].token]].revoked = TRUE]
    /\ Goto(t, "refused")
    /\ UNCHANGED <<issued, world, browser, solo, ended, losses>>

\* Mutant: a new token is returned, its hash is not stored.
RotateNothing(s, n) == sess

\* The refresh token is replaced; revoked_at and refresh_expires_at are not
\* among the columns written.
Rotate(s, n) == [sess EXCEPT ![s].hash = n]

\* ... with an active one the token is rotated.
RefreshCommit(t) ==
    /\ Serves(t, "refresh", "active")
    /\ LET s == issued[tab[t].token] IN
         /\ issued' = Append(issued, s)
         /\ sess' = Rotate(s, Len(issued) + 1)
    /\ Grant(t, Len(issued) + 1)
    /\ UNCHANGED <<world, browser, solo, ended, losses>>

\* revoke_session: an unknown token ends the call, without an error.
LogoutRead(t) ==
    /\ Serves(t, "logout", "sent")
    /\ Goto(t, IF Holder(tab[t].token) = {} THEN "ok" ELSE "active")
    /\ UNCHANGED <<server, world, browser, solo, ended, losses>>

LogoutCommit(t) ==
    /\ Serves(t, "logout", "active")
    /\ sess' = [sess EXCEPT ![issued[tab[t].token]].revoked = TRUE]
    /\ Goto(t, "ok")
    /\ UNCHANGED <<issued, world, browser, solo, ended, losses>>

\* get_current_user: the token's own expiry, the session row, user and
\* membership.  The refresh window of the session does not matter.
Me(t) ==
    /\ tab[t].at \in {"me", "me again"} /\ tab[t].stage = "sent"
    /\ LET n == tab[t].token IN
         Goto(t, IF n \notin expired /\ ~sess[issued[n]].revoked /\ active
                 THEN "ok" ELSE "refused")
    /\ UNCHANGED <<server, world, browser, solo, ended, losses>>

-----------------------------------------------------------------------------
(* The answer reaches the client *)

\* A login sets cookie and storage.
LoginDone(t) ==
    /\ Serves(t, "login", "ok")
    /\ cookie' = tab[t].fresh
    /\ stored' = tab[t].fresh
    /\ Become(t, AtRest("in"))
    /\ UNCHANGED <<server, world, solo, ended, losses>>

\* A page load, or the second check after a refresh, succeeds.
MeDone(t) ==
    /\ Serves(t, "me", "ok") \/ Serves(t, "me again", "ok")
    /\ stored' = tab[t].token
    /\ Become(t, AtRest("in"))
    /\ UNCHANGED <<server, world, cookie, solo, ended, losses>>

\* A refused page load tries to refresh, once.
MeRefused(t) ==
    /\ Serves(t, "me", "refused")
    /\ Become(t, Calling("refresh", cookie))
    /\ UNCHANGED <<server, world, browser, solo, ended, losses>>

\* The new cookie is set; the access token is checked before it is stored.
RefreshDone(t) ==
    /\ Serves(t, "refresh", "ok")
    /\ cookie' = tab[t].fresh
    /\ Become(t, Calling("me again", tab[t].fresh))
    /\ UNCHANGED <<server, world, stored, solo, ended, losses>>

\* Mutant: a refused refresh is tried again.
RefusedRetries(t) ==
    /\ \E call \in {"login", "refresh", "me again"} : Serves(t, call, "refused")
    /\ stored' = NoToken
    /\ Become(t, IF tab[t].at = "refresh" THEN Calling("refresh", cookie)
                 ELSE AtRest("out"))
    /\ UNCHANGED <<server, world, cookie, solo, ended, losses>>

\* applyUnauthenticated after a refused login, refresh or second check.
Refused(t) ==
    /\ \E call \in {"login", "refresh", "me again"} : Serves(t, call, "refused")
    /\ stored' = NoToken
    /\ Become(t, AtRest("out"))
    /\ UNCHANGED <<server, world, cookie, solo, ended, losses>>

\* The session the user meant to end is the one his cookie was issued for.
LogoutDone(t) ==
    /\ Serves(t, "logout", "ok")
    /\ cookie' = NoToken
    /\ stored' = NoToken
    /\ ended' = IF tab[t].token = NoToken THEN ended
                ELSE ended \cup {issued[tab[t].token]}
    /\ Become(t, AtRest("out"))
    /\ UNCHANGED <<server, world, solo, losses>>

Spared == losses + toggles + Cardinality({s \in Sessions : sess[s].lapsed}) < MaxMishaps

\* The call fails on its way there, on the server or on its way back: what
\* was committed stays.  A login, refresh or logout counts as refused or done;
\* a check shows an error.
Lose(t) ==
    /\ tab[t].at \in Calls /\ Spared
    /\ losses' = losses + 1
    /\ IF tab[t].at \in {"me", "me again"}
       THEN Become(t, AtRest("error")) /\ UNCHANGED stored
       ELSE Become(t, AtRest("out")) /\ stored' = NoToken
    /\ UNCHANGED <<server, world, cookie, solo, ended>>

-----------------------------------------------------------------------------
(* The surroundings *)

\* create_tenant_user changes the status of the membership.
Toggle ==
    /\ Spared
    /\ toggles' = toggles + 1
    /\ active' = ~active
    /\ UNCHANGED <<server, expired, browser, tab, solo, ended, losses>>

\* An access token expires.  Of a token nobody holds any more this would not be
\* seen, and is left out.
ExpireAccess(n) ==
    /\ n \notin expired
    /\ n = stored \/ \E t \in Tabs : n \in {tab[t].token, tab[t].fresh}
    /\ expired' = expired \cup {n}
    /\ UNCHANGED <<server, active, toggles, browser, tab, solo, ended, losses>>

\* The refresh window, fixed at the login, closes; access tokens issued late in
\* it are good for longer.
Lapse(s) ==
    /\ ~sess[s].lapsed /\ ~sess[s].revoked /\ Spared
    /\ sess' = [sess EXCEPT ![s].lapsed = TRUE]
    /\ UNCHANGED <<issued, world, browser, tab, solo, ended, losses>>

-----------------------------------------------------------------------------
Serve(t) ==
    \/ LoginRead(t) \/ LoginCommit(t)
    \/ RefreshRead(t) \/ RefreshInactive(t) \/ RefreshCommit(t)
    \/ LogoutRead(t) \/ LogoutCommit(t)
    \/ Me(t)

Receive(t) ==
    \/ LoginDone(t) \/ MeDone(t) \/ MeRefused(t) \/ RefreshDone(t)
    \/ Refused(t) \/ LogoutDone(t)

Next ==
    \/ \E t \in Tabs : LoadNothing(t) \/ Load(t) \/ SignIn(t) \/ SignOut(t)
    \/ \E t \in Tabs : Serve(t) \/ Receive(t) \/ Lose(t)
    \/ Toggle
    \/ \E n \in Tokens : ExpireAccess(n)
    \/ \E s \in Sessions : Lapse(s)

Spec == Init /\ [][Next]_vars

\* The server answers, and the client goes on when it does.
FairSpec == Spec /\ \A t \in Tabs : WF_vars(Serve(t) \/ Receive(t))

-----------------------------------------------------------------------------
(* Properties *)

TypeOK ==
    /\ sess \in Seq([hash : Tokens, revoked : BOOLEAN, lapsed : BOOLEAN])
    /\ issued \in Seq(Sessions)
    /\ expired \subseteq Tokens
    /\ active \in BOOLEAN /\ toggles \in Nat
    /\ cookie \in Tokens \cup {NoToken}
    /\ stored \in Tokens \cup {NoToken}
    /\ tab \in [Tabs -> [at : Rest \cup Calls, stage : Stages,
                         token : Tokens \cup {NoToken},
                         fresh : Tokens \cup {NoToken}, dead : BOOLEAN]]
    /\ solo \in BOOLEAN
    /\ ended \subseteq Sessions
    /\ losses \in Nat

AllAtRest == \A t \in Tabs : tab[t].at \in Rest

\* The cookie the browser holds between calls is the current refresh token of
\* its session, however often it was rotated, as long as one tab is used at a
\* time and every answer arrives.
CookieIsCurrent ==
    solo /\ losses = 0 /\ AllAtRest /\ cookie # NoToken =>
        sess[issued[cookie]].hash = cookie

\* Under the same conditions a sign-out that was answered has ended the
\* session the user was signed in to.
SignOutRevokes ==
    solo /\ losses = 0 => \A s \in ended : sess[s].revoked

\* What is revoked stays out, whatever overlaps: no check or refresh that was
\* sent after the revocation of its session is granted, although a refresh
\* that was sent before may still rotate the token.
RevokedIsFinal ==
    \A t \in Tabs :
        tab[t].stage = "ok" /\ tab[t].at \in {"me", "me again", "refresh"} =>
            ~tab[t].dead

\* refresh_session and get_current_user grant nothing to a revoked session.
SessionsConsistent == TypeOK /\ RevokedIsFinal

\* A browser in which one tab is used at a time keeps the current token, and
\* its sign-out takes effect.
SoloTabIsSafe == CookieIsCurrent /\ SignOutRevokes

\* Every page load, sign-in and sign-out comes to an end: the fallback from
\* check to refresh to check does not go round in circles.
TabsSettle == \A t \in Tabs : tab[t].at \in Calls ~> tab[t].at \in Rest
=============================================================================

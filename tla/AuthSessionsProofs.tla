------------------------- MODULE AuthSessionsProofs -------------------------
(***************************************************************************)
(* What AuthSessions promises for any number of tabs, sessions and tokens.  *)
(*                                                                          *)
(* The argument: the hash kept in a session row is that of a token issued   *)
(* for it (HashIsOwn), so the row a refresh finds is the one its token      *)
(* belongs to, and a revocation is never taken back.  A user who works in   *)
(* one tab at a time has at most one call under way (OneCall); the cookie   *)
(* is out of date only between the commit of a refresh and its answer       *)
(* (CookieFollows), so a sign-out finds the session it is about.            *)
(***************************************************************************)
EXTENDS AuthSessions, SequenceTheorems, TLAPS

\* A token issued to a session and rotated by nobody since.
Current(n) == n # NoToken => sess[issued[n]].hash = n

HashIsOwn == \A s \in Sessions : issued[sess[s].hash] = s

\* What the row v of a tab says of the session of its token.
Fits(v) ==
    /\ v.dead => v.token # NoToken /\ sess[issued[v.token]].revoked
    /\ v.at \in {"me", "me again", "refresh"}
         /\ v.stage \in {"active", "inactive", "ok"} => ~v.dead
    /\ v.at \in {"refresh", "logout"} /\ v.stage \in {"active", "inactive"}
         => v.token # NoToken

\* One tab at a time, and every answer has arrived.
Calm == solo /\ losses = 0

OneCall == solo => \A t, u \in Tabs : t # u => tab[t].at \in Rest \/ tab[u].at \in Rest

\* What a call is about to do to the cookie or the session.
Lands(v) ==
    /\ v.at = "logout" /\ v.stage \in {"sent", "active"} => Current(v.token)
    /\ v.at = "logout" /\ v.stage = "ok" /\ v.token # NoToken
         => sess[issued[v.token]].revoked
    /\ v.at \in {"login", "refresh"} /\ v.stage = "ok" => Current(v.fresh)

\* The server has rotated the cookie and the answer is on its way.
Rotated(v) == v.at = "refresh" /\ v.stage = "ok"

CookieFollows == Calm /\ (\A t \in Tabs : ~Rotated(tab[t])) => Current(cookie)

IInv ==
    /\ TypeOK /\ HashIsOwn
    /\ \A t \in Tabs : Fits(tab[t])
    /\ OneCall /\ (Calm => \A t \in Tabs : Lands(tab[t]))
    /\ CookieFollows /\ SignOutRevokes

-----------------------------------------------------------------------------
SessionRows == [hash : Tokens, revoked : BOOLEAN, lapsed : BOOLEAN]
TabRows == [at : Rest \cup Calls, stage : Stages, token : Tokens \cup {NoToken},
            fresh : Tokens \cup {NoToken}, dead : BOOLEAN]

\* The rows of the server and nothing else.
ServerOK == sess \in Seq(SessionRows) /\ issued \in Seq(Sessions) /\ HashIsOwn

\* A token stays with its session, and a revoked session stays revoked.
Grown ==
    /\ \A n \in Tokens : n \in Tokens' /\ issued'[n] = issued[n]
    /\ \A s \in Sessions : s \in Sessions' /\ (sess[s].revoked => sess'[s].revoked)

\* A longer alphabet has the old words.
LEMMA SeqGrows ==
    ASSUME NEW S, NEW T, S \subseteq T, NEW q \in Seq(S)
    PROVE  q \in Seq(T)
OBVIOUS

\* Tokens and sessions are numbered from one.
LEMMA Numbered ==
    ASSUME ServerOK
    PROVE  /\ Len(sess) \in Nat /\ Sessions = 1..Len(sess)
           /\ Len(issued) \in Nat /\ Tokens = 1..Len(issued)
           /\ NoToken \notin Tokens
           /\ \A n \in Tokens : issued[n] \in Sessions
           /\ \A s \in Sessions : sess[s] \in SessionRows
<1>1. Len(sess) \in Nat /\ Sessions = 1..Len(sess) /\ \A s \in Sessions : sess[s] \in SessionRows
  BY LenProperties, ElementOfSeq DEF ServerOK, Sessions
<1>2. Len(issued) \in Nat /\ Tokens = 1..Len(issued) /\ \A n \in Tokens : issued[n] \in Sessions
  BY LenProperties, ElementOfSeq DEF ServerOK, Tokens
<1> QED
  BY <1>1, <1>2 DEF NoToken

\* The invariant says so of the server.
LEMMA IInvServer == IInv => ServerOK
BY DEF IInv, TypeOK, ServerOK, SessionRows

\* Nothing is issued and no tab has called.
LEMMA InitIInv == Init => IInv
<1> SUFFICES ASSUME Init PROVE IInv
  OBVIOUS
<1>1. sess = <<>> /\ issued = <<>> /\ Sessions = {} /\ Tokens = {}
  BY DEF Init, Sessions, Tokens
<1>2. AtRest("new") \in TabRows
  BY DEF AtRest, TabRows, Rest, Stages
<1>3. TypeOK
  <2>1. sess \in Seq(SessionRows) /\ issued \in Seq(Sessions)
    BY <1>1
  <2>2. tab \in [Tabs -> TabRows]
    BY <1>2 DEF Init
  <2> QED
    BY <2>1, <2>2 DEF Init, TypeOK, SessionRows, TabRows
<1>4. \A t \in Tabs : /\ tab[t].at = "new" /\ tab[t].stage = "none"
                      /\ tab[t].token = NoToken /\ ~tab[t].dead
  BY DEF Init, AtRest
<1>5. \A t \in Tabs : Fits(tab[t]) /\ Lands(tab[t])
  BY <1>4 DEF Fits, Lands
<1>6. OneCall
  BY <1>4 DEF OneCall, Rest
<1>7. HashIsOwn /\ CookieFollows /\ SignOutRevokes
  BY <1>1 DEF Init, HashIsOwn, CookieFollows, Current, SignOutRevokes
<1> QED
  BY <1>3, <1>5, <1>6, <1>7 DEF IInv

-----------------------------------------------------------------------------
\* A step of one tab has to answer for this tab, the cookie and the sign-outs.
LEMMA Moves ==
    ASSUME IInv, ServerOK', Grown, NEW t \in Tabs,
           tab' \in [Tabs -> TabRows'], \A u \in Tabs \ {t} : tab'[u] = tab[u],
           expired' \subseteq Tokens', active' \in BOOLEAN, toggles' \in Nat,
           cookie' \in Tokens' \cup {NoToken}, stored' \in Tokens' \cup {NoToken},
           solo' = solo, losses' \in Nat, losses' = 0 => losses = 0,
           solo => \A u \in Tabs \ {t} : tab[u].at \in Rest,
           Fits(tab[t])', Calm' => Lands(tab[t])',
           Calm' /\ ~Rotated(tab[t])' => Current(cookie)',
           ended' \subseteq Sessions',
           Calm' => \A s \in ended' : s \in ended \/ sess'[s].revoked
    PROVE  IInv'
<1>1. ServerOK
  BY IInvServer
<1>2. TypeOK'
  <2>1. solo' \in BOOLEAN
    BY DEF IInv, TypeOK
  <2> QED
    BY <2>1 DEF TypeOK, ServerOK, SessionRows, TabRows
<1>3. HashIsOwn'
  BY DEF ServerOK
<1>4. ASSUME NEW u \in Tabs PROVE Fits(tab[u])'
  <2>1. CASE u = t
    BY <2>1
  <2>2. CASE u # t
    <3>1. tab'[u] = tab[u] /\ Fits(tab[u]) /\ tab[u].token \in Tokens \cup {NoToken}
      BY <2>2 DEF IInv, TypeOK
    <3>2. tab[u].token # NoToken => tab[u].token \in Tokens /\ issued[tab[u].token] \in Sessions
      BY <1>1, <3>1, Numbered
    <3> QED
      BY <3>1, <3>2 DEF Fits, Grown
  <2> QED
    BY <2>1, <2>2
<1>5. OneCall'
  BY DEF OneCall
<1>6. ASSUME Calm', NEW u \in Tabs PROVE Lands(tab[u])'
  <2>1. CASE u = t
    BY <1>6, <2>1
  <2>2. CASE u # t
    <3>1. tab'[u].at \in Rest
      BY <1>6, <2>2 DEF Calm
    <3> QED
      BY <3>1 DEF Lands, Rest
  <2> QED
    BY <2>1, <2>2
<1>7. CookieFollows'
  BY DEF CookieFollows
<1>8. SignOutRevokes'
  <2>1. Calm' => Calm
    BY DEF Calm
  <2>2. Calm => \A s \in ended : sess[s].revoked
    BY DEF IInv, SignOutRevokes, Calm
  <2>3. ended \subseteq Sessions
    BY DEF IInv, TypeOK
  <2> QED
    BY <2>1, <2>2, <2>3 DEF SignOutRevokes, Calm, Grown
<1> QED
  BY <1>2, <1>3, <1>4, <1>5, <1>6, <1>7, <1>8 DEF IInv

\* A tab that waits for an answer is the only one, if one is used at a time.
LEMMA Alone ==
    ASSUME IInv, NEW t \in Tabs, tab[t].at \in Calls
    PROVE  solo => \A u \in Tabs \ {t} : tab[u].at \in Rest
<1>1. tab[t].at \notin Rest
  BY DEF Calls, Rest
<1> QED
  BY <1>1 DEF IInv, OneCall

\* A step of one tab that leaves the rows of the server alone.
LEMMA TabStep ==
    ASSUME IInv, NEW t \in Tabs, NEW new \in TabRows, tab' = [tab EXCEPT ![t] = new],
           UNCHANGED <<sess, issued, expired, active, toggles, solo>>,
           losses' \in Nat, losses' = 0 => losses = 0,
           solo => \A u \in Tabs \ {t} : tab[u].at \in Rest,
           Fits(new), Calm => Lands(new),
           cookie' \in Tokens \cup {NoToken}, stored' \in Tokens \cup {NoToken},
           \/ cookie' = cookie /\ ~Rotated(tab[t])
           \/ losses' # 0
           \/ Calm => Current(cookie'),
           ended' \subseteq Sessions,
           Calm => \A s \in ended' : s \in ended \/ sess[s].revoked
    PROVE  IInv'
<1>1. ServerOK /\ ServerOK' /\ Grown /\ Tokens' = Tokens /\ Sessions' = Sessions
  BY IInvServer DEF ServerOK, SessionRows, HashIsOwn, Grown, Tokens, Sessions
<1>2. TabRows' = TabRows
  BY <1>1 DEF TabRows
<1>3. tab \in [Tabs -> TabRows]
  BY DEF IInv, TypeOK, TabRows
<1>4. /\ tab' \in [Tabs -> TabRows'] /\ tab'[t] = new
      /\ \A u \in Tabs \ {t} : tab'[u] = tab[u]
  BY <1>2, <1>3
<1>5. Fits(tab[t])'
  BY <1>4 DEF Fits
<1>6. Calm' => Calm
  BY DEF Calm
<1>7. Calm' => Lands(tab[t])'
  BY <1>4, <1>6 DEF Lands, Current
<1>8. Calm' => Current(cookie)'
  <2>1. CASE cookie' = cookie /\ ~Rotated(tab[t])
    <3>1. solo => \A u \in Tabs : ~Rotated(tab[u])
      BY <2>1 DEF Rotated, Rest
    <3>2. Calm => Current(cookie)
      BY <3>1 DEF IInv, CookieFollows, Calm
    <3> QED
      BY <1>6, <2>1, <3>2 DEF Current
  <2>2. CASE losses' # 0
    BY <2>2 DEF Calm
  <2>3. CASE Calm => Current(cookie')
    BY <1>6, <2>3 DEF Current
  <2> QED
    BY <2>1, <2>2, <2>3
<1>9. expired' \subseteq Tokens' /\ active' \in BOOLEAN /\ toggles' \in Nat
  BY <1>1 DEF IInv, TypeOK
<1>10. Calm' => \A s \in ended' : s \in ended \/ sess'[s].revoked
  BY <1>6
<1> QED
  BY <1>1, <1>4, <1>5, <1>7, <1>8, <1>9, <1>10, Moves

\* A tab at rest claims nothing.
LEMMA RestRow ==
    ASSUME NEW a \in Rest
    PROVE  AtRest(a) \in TabRows /\ Fits(AtRest(a)) /\ Lands(AtRest(a))
<1>1. AtRest(a) \in TabRows
  BY DEF AtRest, TabRows, Rest, Stages
<1>2. AtRest(a).at = a /\ AtRest(a).stage = "none" /\ ~AtRest(a).dead
  BY DEF AtRest
<1> QED
  BY <1>1, <1>2 DEF Fits, Lands, Rest

\* A call that is sent knows whether its session is revoked.
LEMMA CallRow ==
    ASSUME NEW a \in Calls, NEW n \in Tokens \cup {NoToken}
    PROVE  /\ Calling(a, n) \in TabRows /\ Fits(Calling(a, n))
           /\ (a = "logout" => Current(n)) => Lands(Calling(a, n))
<1> DEFINE v == Calling(a, n)
           revoked == n # NoToken /\ sess[issued[n]].revoked
<1>1. revoked \in BOOLEAN /\ (revoked => n # NoToken /\ sess[issued[n]].revoked)
  OBVIOUS
<1>2. v = [AtRest(a) EXCEPT !.stage = "sent", !.token = n, !.dead = revoked]
  BY DEF Calling
<1> HIDE DEF revoked, v
<1>3. v \in TabRows /\ v.at = a /\ v.stage = "sent" /\ v.token = n /\ v.dead = revoked
  BY <1>1, <1>2 DEF AtRest, TabRows, Stages
<1>4. Fits(v)
  BY <1>1, <1>3 DEF Fits
<1>5. (a = "logout" => Current(n)) => Lands(v)
  BY <1>3 DEF Lands
<1> QED
  BY <1>3, <1>4, <1>5 DEF v

\* The server reads, decides and goes on.
LEMMA ServerReads ==
    ASSUME IInv, NEW t \in Tabs, NEW stage \in Stages, tab[t].at \in Calls, Goto(t, stage),
           UNCHANGED <<server, world, browser, solo, ended, losses>>,
           tab[t].stage = "sent",
           tab[t].at \in {"me", "me again", "refresh"}
             /\ stage \in {"active", "inactive", "ok"} => ~tab[t].dead,
           tab[t].at \in {"refresh", "logout"} /\ stage \in {"active", "inactive"}
             => tab[t].token # NoToken,
           Calm /\ tab[t].at = "logout" /\ stage = "ok" => tab[t].token = NoToken,
           tab[t].at \in {"login", "refresh"} => stage # "ok"
    PROVE  IInv'
<1> DEFINE v == tab[t]
           new == [v EXCEPT !.stage = stage]
<1>1. /\ tab' = [tab EXCEPT ![t] = new]
      /\ UNCHANGED <<sess, issued, expired, active, toggles, cookie, stored, solo, ended, losses>>
  BY DEF Goto, server, world, browser
<1>2. v \in TabRows /\ Fits(v) /\ (Calm => Lands(v))
  BY DEF IInv, TypeOK, TabRows
<1>3. ~Rotated(v)
  BY DEF Rotated
<1> HIDE DEF v
<1>4. /\ new \in TabRows /\ new.at = v.at /\ new.stage = stage
      /\ new.token = v.token /\ new.fresh = v.fresh /\ new.dead = v.dead
  BY <1>2 DEF TabRows
<1> HIDE DEF new
<1>5. Fits(new)
  BY <1>2, <1>4 DEF Fits, v
<1>6. Calm => Lands(new)
  BY <1>2, <1>4 DEF Lands, v
<1>7. solo => \A u \in Tabs \ {t} : tab[u].at \in Rest
  BY Alone
<1>8. /\ losses' \in Nat /\ (losses' = 0 => losses = 0) /\ ended' \subseteq Sessions
      /\ cookie' \in Tokens \cup {NoToken} /\ stored' \in Tokens \cup {NoToken}
  BY <1>1 DEF IInv, TypeOK
<1> QED
  BY <1>1, <1>3, <1>4, <1>5, <1>6, <1>7, <1>8, TabStep DEF v

\* The client is done with a call, or shows what it has without one.
LEMMA ComesToRest ==
    ASSUME IInv, NEW t \in Tabs, NEW a \in Rest, Become(t, AtRest(a)),
           UNCHANGED <<server, world, solo>>, losses' \in Nat, losses' = 0 => losses = 0,
           solo => \A u \in Tabs \ {t} : tab[u].at \in Rest,
           cookie' \in Tokens \cup {NoToken}, stored' \in Tokens \cup {NoToken},
           \/ cookie' = cookie /\ ~Rotated(tab[t])
           \/ losses' # 0
           \/ Calm => Current(cookie'),
           ended' \subseteq Sessions,
           Calm => \A s \in ended' : s \in ended \/ sess[s].revoked
    PROVE  IInv'
<1> DEFINE new == AtRest(a)
<1>1. /\ tab' = [tab EXCEPT ![t] = new]
      /\ UNCHANGED <<sess, issued, expired, active, toggles, solo>>
  BY DEF Become, server, world
<1>2. new \in TabRows /\ Fits(new) /\ Lands(new)
  BY RestRow
<1> HIDE DEF new
<1> QED
  BY <1>1, <1>2, TabStep

\* The client sends a call.
LEMMA SendsCall ==
    ASSUME IInv, NEW t \in Tabs, NEW a \in Calls, NEW n \in Tokens \cup {NoToken},
           Become(t, Calling(a, n)), UNCHANGED <<server, world, stored, solo, ended, losses>>,
           solo => \A u \in Tabs \ {t} : tab[u].at \in Rest,
           Calm /\ a = "logout" => Current(n),
           \/ cookie' = cookie /\ ~Rotated(tab[t])
           \/ cookie' = n /\ (Calm => Current(n))
    PROVE  IInv'
<1> DEFINE new == Calling(a, n)
<1>1. /\ tab' = [tab EXCEPT ![t] = new]
      /\ UNCHANGED <<sess, issued, expired, active, toggles, stored, solo, ended, losses>>
  BY DEF Become, server, world
<1>2. new \in TabRows /\ Fits(new) /\ (Calm => Lands(new))
  BY CallRow
<1> HIDE DEF new
<1>3. /\ losses' \in Nat /\ (losses' = 0 => losses = 0) /\ ended' \subseteq Sessions
      /\ cookie' \in Tokens \cup {NoToken} /\ stored' \in Tokens \cup {NoToken}
  BY <1>1 DEF IInv, TypeOK
<1>4. \/ cookie' = cookie /\ ~Rotated(tab[t])
      \/ Calm => Current(cookie')
  OBVIOUS
<1> QED
  BY <1>1, <1>2, <1>3, <1>4, TabStep

-----------------------------------------------------------------------------
\* A mark on a session row changes neither its token nor a revocation.
LEMMA Marks ==
    ASSUME ServerOK, NEW s \in Sessions, NEW r \in SessionRows, r.hash = sess[s].hash,
           sess[s].revoked => r.revoked, sess' = [sess EXCEPT ![s] = r], issued' = issued
    PROVE  /\ ServerOK' /\ Grown /\ Tokens' = Tokens /\ Sessions' = Sessions
           /\ sess'[s] = r /\ \A k \in Sessions : sess'[k].hash = sess[k].hash
<1>1. Sessions = 1..Len(sess)
  BY Numbered
<1>2. /\ sess' \in Seq(SessionRows) /\ Len(sess') = Len(sess)
      /\ \A k \in Sessions : sess'[k] = IF k = s THEN r ELSE sess[k]
  BY <1>1, ExceptSeq DEF ServerOK
<1>3. Tokens' = Tokens /\ Sessions' = Sessions
  BY <1>1, <1>2, LenProperties DEF Tokens, Sessions
<1>4. SessionRows' = SessionRows
  BY <1>3 DEF SessionRows
<1>5. \A k \in Sessions : sess'[k].hash = sess[k].hash
  BY <1>2
<1>6. ServerOK'
  BY <1>2, <1>3, <1>4, <1>5 DEF ServerOK, HashIsOwn
<1>7. Grown
  BY <1>2, <1>3 DEF Grown
<1> QED
  BY <1>2, <1>3, <1>5, <1>6, <1>7

\* A revocation is the session's own and leaves its token.
LEMMA Revokes ==
    ASSUME ServerOK, NEW s \in Sessions, sess' = [sess EXCEPT ![s].revoked = TRUE],
           issued' = issued
    PROVE  /\ ServerOK' /\ Grown /\ Tokens' = Tokens /\ Sessions' = Sessions
           /\ sess'[s].revoked /\ \A k \in Sessions : sess'[k].hash = sess[k].hash
<1> DEFINE r == [sess[s] EXCEPT !.revoked = TRUE]
<1>1. sess[s] \in SessionRows
  BY Numbered
<1>2. r \in SessionRows /\ r.hash = sess[s].hash /\ r.revoked
  BY <1>1 DEF SessionRows
<1>3. sess' = [sess EXCEPT ![s] = r]
  OBVIOUS
<1> HIDE DEF r
<1> QED
  BY <1>2, <1>3, Marks

\* The call of a tab revokes the session of its token.
LEMMA RevokeIInv ==
    ASSUME IInv, NEW t \in Tabs, NEW stage \in Stages, NEW n, n = tab[t].token,
           \/ tab[t].at = "refresh" /\ stage = "refused"
           \/ tab[t].at = "logout" /\ stage = "ok",
           tab[t].stage \in {"active", "inactive"}, Goto(t, stage),
           sess' = [sess EXCEPT ![issued[n]].revoked = TRUE],
           UNCHANGED <<issued, world, browser, solo, ended, losses>>
    PROVE  IInv'
<1> DEFINE v == tab[t]
           new == [v EXCEPT !.stage = stage]
           s == issued[n]
<1>1. /\ tab' = [tab EXCEPT ![t] = new]
      /\ UNCHANGED <<issued, expired, active, toggles, cookie, stored, solo, ended, losses>>
  BY DEF Goto, world, browser
<1>2. tab \in [Tabs -> TabRows] /\ v \in TabRows /\ Fits(v)
  BY DEF IInv, TypeOK, TabRows
<1>3. ServerOK /\ n \in Tokens /\ s \in Sessions
  <2>1. n # NoToken /\ n \in Tokens \cup {NoToken}
    BY <1>2 DEF Fits, TabRows
  <2> QED
    BY <2>1, IInvServer, Numbered
<1>4. /\ ServerOK' /\ Grown /\ Tokens' = Tokens /\ Sessions' = Sessions
      /\ sess'[s].revoked /\ \A k \in Sessions : sess'[k].hash = sess[k].hash
  BY <1>1, <1>3, Revokes
<1> HIDE DEF v
<1>5. /\ new \in TabRows /\ new.at = v.at /\ new.stage = stage
      /\ new.token = v.token /\ new.fresh = v.fresh /\ new.dead = v.dead
  BY <1>2 DEF TabRows
<1>6. TabRows' = TabRows
  BY <1>4 DEF TabRows
<1> HIDE DEF new
<1>7. /\ tab' \in [Tabs -> TabRows'] /\ tab'[t] = new
      /\ \A u \in Tabs \ {t} : tab'[u] = tab[u]
  BY <1>1, <1>2, <1>5, <1>6
<1>8. issued' = issued /\ v.token = n /\ n # NoToken
  BY <1>1, <1>3, Numbered DEF v
<1>9. Fits(tab[t])'
  BY <1>4, <1>5, <1>7, <1>8 DEF Fits, v
<1>10. Lands(tab[t])'
  BY <1>4, <1>5, <1>7, <1>8 DEF Lands, v
<1>11. tab[t].at \in Calls /\ ~Rotated(tab[t])
  BY DEF Calls, Rotated
<1>12. solo => \A u \in Tabs \ {t} : tab[u].at \in Rest
  BY <1>11, Alone
<1>13. Calm' => Current(cookie)'
  <2>1. solo => \A u \in Tabs : ~Rotated(tab[u])
    BY <1>11, <1>12 DEF Rotated, Rest
  <2>2. Calm' => Current(cookie)
    BY <1>1, <2>1 DEF IInv, CookieFollows, Calm
  <2>3. cookie # NoToken => issued[cookie] \in Sessions
    BY <1>3, Numbered DEF IInv, TypeOK
  <2> QED
    BY <1>1, <1>4, <2>2, <2>3 DEF Current
<1>14. /\ expired' \subseteq Tokens' /\ active' \in BOOLEAN /\ toggles' \in Nat
       /\ losses' \in Nat /\ (losses' = 0 => losses = 0) /\ ended' \subseteq Sessions'
       /\ cookie' \in Tokens' \cup {NoToken} /\ stored' \in Tokens' \cup {NoToken}
       /\ ended' = ended /\ solo' = solo
  BY <1>1, <1>4 DEF IInv, TypeOK
<1> QED
  BY <1>4, <1>7, <1>9, <1>10, <1>12, <1>13, <1>14, Moves

\* A new token is the current one of its session.
Issues(n, s) ==
    /\ ServerOK' /\ Grown /\ Tokens' = Tokens \cup {n} /\ Sessions \subseteq Sessions'
    /\ n # NoToken /\ issued'[n] = s /\ sess'[s].hash = n
    /\ \A k \in Sessions : k # s => sess'[k].hash = sess[k].hash

\* A login issues a token with a session of its own.
LEMMA LoginIssues ==
    ASSUME ServerOK, issued' = Append(issued, Len(sess) + 1),
           sess' = Append(sess, NewSession(Len(issued) + 1))
    PROVE  Issues(Len(issued) + 1, Len(sess) + 1) /\ Len(sess) + 1 \notin Sessions
<1> DEFINE n == Len(issued) + 1
           s == Len(sess) + 1
           Rows == [hash : Tokens \cup {n}, revoked : BOOLEAN, lapsed : BOOLEAN]
<1>1. /\ Len(sess) \in Nat /\ Sessions = 1..Len(sess)
      /\ Len(issued) \in Nat /\ Tokens = 1..Len(issued) /\ NoToken \notin Tokens
      /\ \A k \in Tokens : issued[k] \in Sessions
      /\ \A k \in Sessions : sess[k] \in SessionRows
  BY Numbered
<1>2. NewSession(n) \in Rows /\ NewSession(n).hash = n
  BY DEF NewSession
<1>3. sess \in Seq(Rows)
  <2>1. SessionRows \subseteq Rows
    BY DEF SessionRows
  <2> QED
    BY <2>1, SeqGrows DEF ServerOK
<1>4. issued \in Seq(Sessions \cup {s})
  BY SeqGrows DEF ServerOK
<1> HIDE DEF Rows
<1>5. /\ sess' \in Seq(Rows) /\ Len(sess') = s /\ sess'[s] = NewSession(n)
      /\ \A k \in 1..Len(sess) : sess'[k] = sess[k]
  BY <1>2, <1>3, AppendProperties
<1>6. /\ issued' \in Seq(Sessions \cup {s}) /\ Len(issued') = n /\ issued'[n] = s
      /\ \A k \in 1..Len(issued) : issued'[k] = issued[k]
  BY <1>4, AppendProperties
<1>7. Sessions' = 1..s /\ Tokens' = 1..n
  BY <1>5, <1>6, LenProperties DEF Sessions, Tokens
<1>8. Sessions' = Sessions \cup {s} /\ Tokens' = Tokens \cup {n} /\ s \notin Sessions
  BY <1>1, <1>7
<1>9. n # NoToken
  BY <1>1 DEF NoToken
<1> HIDE DEF n, s
<1>10. SessionRows' = Rows
  BY <1>8 DEF SessionRows, Rows
<1>11. HashIsOwn'
  <2> SUFFICES ASSUME NEW k \in Sessions' PROVE issued'[sess'[k].hash] = k
    BY DEF HashIsOwn
  <2>1. CASE k = s
    BY <1>2, <1>5, <1>6, <2>1
  <2>2. CASE k \in Sessions
    <3>1. sess'[k] = sess[k] /\ sess[k].hash \in Tokens /\ issued[sess[k].hash] = k
      BY <1>1, <1>5, <2>2 DEF ServerOK, HashIsOwn, SessionRows
    <3> QED
      BY <1>1, <1>6, <3>1
  <2> QED
    BY <1>8, <2>1, <2>2
<1>12. ServerOK'
  BY <1>5, <1>6, <1>8, <1>10, <1>11 DEF ServerOK
<1>13. Grown
  BY <1>1, <1>5, <1>6, <1>8 DEF Grown
<1> QED
  BY <1>1, <1>2, <1>5, <1>6, <1>8, <1>9, <1>12, <1>13 DEF Issues, n, s

\* A refresh issues one for the session it rotates.
LEMMA RefreshIssues ==
    ASSUME ServerOK, NEW s \in Sessions, issued' = Append(issued, s),
           sess' = Rotate(s, Len(issued) + 1)
    PROVE  Issues(Len(issued) + 1, s)
<1> DEFINE n == Len(issued) + 1
           Rows == [hash : Tokens \cup {n}, revoked : BOOLEAN, lapsed : BOOLEAN]
           r == [sess[s] EXCEPT !.hash = n]
<1>1. /\ Len(sess) \in Nat /\ Sessions = 1..Len(sess)
      /\ Len(issued) \in Nat /\ Tokens = 1..Len(issued) /\ NoToken \notin Tokens
      /\ \A k \in Tokens : issued[k] \in Sessions
      /\ \A k \in Sessions : sess[k] \in SessionRows
  BY Numbered
<1>2. r \in Rows /\ r.hash = n /\ r.revoked = sess[s].revoked
  BY <1>1 DEF SessionRows
<1>3. sess \in Seq(Rows)
  <2>1. SessionRows \subseteq Rows
    BY DEF SessionRows
  <2> QED
    BY <2>1, SeqGrows DEF ServerOK
<1>4. sess' = [sess EXCEPT ![s] = r]
  BY DEF Rotate
<1> HIDE DEF Rows, r
<1>5. /\ sess' \in Seq(Rows) /\ Len(sess') = Len(sess)
      /\ \A k \in Sessions : sess'[k] = IF k = s THEN r ELSE sess[k]
  BY <1>1, <1>2, <1>3, <1>4, ExceptSeq
<1>6. /\ issued' \in Seq(Sessions) /\ Len(issued') = n /\ issued'[n] = s
      /\ \A k \in 1..Len(issued) : issued'[k] = issued[k]
  BY AppendProperties DEF ServerOK
<1>7. Sessions' = Sessions /\ Tokens' = 1..n
  BY <1>1, <1>5, <1>6, LenProperties DEF Sessions, Tokens
<1>8. Tokens' = Tokens \cup {n}
  BY <1>1, <1>7
<1>9. n # NoToken
  BY <1>1 DEF NoToken
<1> HIDE DEF n
<1>10. SessionRows' = Rows
  BY <1>8 DEF SessionRows, Rows
<1>11. HashIsOwn'
  <2> SUFFICES ASSUME NEW k \in Sessions PROVE issued'[sess'[k].hash] = k
    BY <1>7 DEF HashIsOwn
  <2>1. CASE k = s
    BY <1>2, <1>5, <1>6, <2>1
  <2>2. CASE k # s
    <3>1. sess'[k] = sess[k] /\ sess[k].hash \in Tokens /\ issued[sess[k].hash] = k
      BY <1>1, <1>5, <2>2 DEF ServerOK, HashIsOwn, SessionRows
    <3> QED
      BY <1>1, <1>6, <3>1
  <2> QED
    BY <2>1, <2>2
<1>12. ServerOK'
  BY <1>5, <1>6, <1>7, <1>10, <1>11 DEF ServerOK
<1>13. Grown
  BY <1>1, <1>2, <1>5, <1>6, <1>7, <1>8 DEF Grown
<1> QED
  BY <1>2, <1>5, <1>6, <1>7, <1>8, <1>9, <1>12, <1>13 DEF Issues, n

\* A tab is given a new token.
LEMMA GrantIInv ==
    ASSUME IInv, NEW t \in Tabs, NEW n, NEW s, Issues(n, s), Grant(t, n),
           tab[t].at \in {"login", "refresh"}, tab[t].stage = "active",
           tab[t].at = "login" => s \notin Sessions,
           UNCHANGED <<world, browser, solo, ended, losses>>
    PROVE  IInv'
<1> DEFINE v == tab[t]
           new == [v EXCEPT !.stage = "ok", !.fresh = n]
<1>1. /\ tab' = [tab EXCEPT ![t] = new]
      /\ UNCHANGED <<expired, active, toggles, cookie, stored, solo, ended, losses>>
  BY DEF Grant, world, browser
<1>2. tab \in [Tabs -> TabRows] /\ v \in TabRows /\ Fits(v)
  BY DEF IInv, TypeOK, TabRows
<1>3. /\ ServerOK' /\ Grown /\ Tokens' = Tokens \cup {n} /\ Sessions \subseteq Sessions'
      /\ n # NoToken /\ issued'[n] = s /\ sess'[s].hash = n
      /\ \A k \in Sessions : k # s => sess'[k].hash = sess[k].hash
  BY DEF Issues
<1>4. ServerOK /\ \A k \in Tokens : issued[k] \in Sessions
  BY IInvServer, Numbered
<1>5. TabRows \subseteq TabRows'
  BY <1>3 DEF TabRows
<1> HIDE DEF v
<1>6. /\ new \in TabRows' /\ new.at = v.at /\ new.stage = "ok"
      /\ new.token = v.token /\ new.fresh = n /\ new.dead = v.dead
  BY <1>2, <1>3 DEF TabRows, Stages
<1> HIDE DEF new
<1>7. /\ tab' \in [Tabs -> TabRows'] /\ tab'[t] = new
      /\ \A u \in Tabs \ {t} : tab'[u] = tab[u]
  BY <1>1, <1>2, <1>5, <1>6
<1>8. Fits(tab[t])'
  <2>1. v.dead => v.token \in Tokens /\ sess[issued[v.token]].revoked
    BY <1>2 DEF Fits, TabRows
  <2>2. v.dead => v.token # NoToken /\ sess'[issued'[v.token]].revoked
    BY <1>2, <1>3, <1>4, <2>1 DEF Grown, Fits
  <2>3. v.at \in {"me", "me again", "refresh"} => ~v.dead
    BY <1>2 DEF Fits, v
  <2> QED
    BY <1>6, <1>7, <2>2, <2>3 DEF Fits
<1>9. Lands(tab[t])'
  BY <1>3, <1>6, <1>7 DEF Lands, Current, v
<1>10. tab[t].at \in Calls /\ ~Rotated(tab[t])
  BY DEF Calls, Rotated
<1>11. solo => \A u \in Tabs \ {t} : tab[u].at \in Rest
  BY <1>10, Alone
<1>12. Calm' /\ ~Rotated(tab[t])' => Current(cookie)'
  <2> SUFFICES ASSUME Calm', ~Rotated(tab[t])' PROVE Current(cookie)'
    OBVIOUS
  <2>1. v.at = "login" /\ s \notin Sessions
    BY <1>6, <1>7 DEF Rotated, v
  <2>2. solo => \A u \in Tabs : ~Rotated(tab[u])
    BY <1>10, <1>11 DEF Rotated, Rest
  <2>3. Current(cookie)
    BY <1>1, <2>2 DEF IInv, CookieFollows, Calm
  <2>4. cookie # NoToken => cookie \in Tokens /\ issued[cookie] \in Sessions
    BY <1>4 DEF IInv, TypeOK
  <2> QED
    BY <1>1, <1>3, <2>1, <2>3, <2>4 DEF Current, Grown
<1>13. /\ expired' \subseteq Tokens' /\ active' \in BOOLEAN /\ toggles' \in Nat
       /\ losses' \in Nat /\ (losses' = 0 => losses = 0) /\ ended' \subseteq Sessions'
       /\ cookie' \in Tokens' \cup {NoToken} /\ stored' \in Tokens' \cup {NoToken}
       /\ ended' = ended /\ solo' = solo
  BY <1>1, <1>3 DEF IInv, TypeOK
<1> QED
  BY <1>3, <1>7, <1>8, <1>9, <1>11, <1>12, <1>13, Moves

\* Time and the administrator change no token and take back no revocation.
LEMMA Surroundings ==
    ASSUME IInv, ServerOK', Grown, Tokens' = Tokens, Sessions' = Sessions,
           \A k \in Sessions : sess'[k].hash = sess[k].hash,
           expired' \subseteq Tokens, active' \in BOOLEAN, toggles' \in Nat,
           UNCHANGED <<issued, cookie, stored, tab, solo, ended, losses>>
    PROVE  IInv'
<1>1. ServerOK /\ \A n \in Tokens : issued[n] \in Sessions
  BY IInvServer, Numbered
<1>2. TypeOK'
  BY DEF IInv, TypeOK, ServerOK, SessionRows
<1>3. Calm' = Calm /\ HashIsOwn'
  BY DEF Calm, ServerOK
<1>4. ASSUME NEW n \in Tokens \cup {NoToken}
      PROVE  /\ Current(n) => (n # NoToken => sess'[issued[n]].hash = n)
             /\ n # NoToken /\ sess[issued[n]].revoked => sess'[issued[n]].revoked
  BY <1>1 DEF Current, Grown
<1>5. cookie \in Tokens \cup {NoToken}
  BY DEF IInv, TypeOK
<1>6. ASSUME NEW t \in Tabs PROVE Fits(tab[t])' /\ (Calm => Lands(tab[t])')
  <2>1. /\ Fits(tab[t]) /\ (Calm => Lands(tab[t]))
        /\ tab[t].token \in Tokens \cup {NoToken} /\ tab[t].fresh \in Tokens \cup {NoToken}
    BY DEF IInv, TypeOK
  <2>2. Fits(tab[t])'
    BY <1>4, <2>1 DEF Fits
  <2>3. Calm => Lands(tab[t])'
    BY <1>4, <2>1 DEF Lands, Current
  <2> QED
    BY <2>2, <2>3
<1>7. OneCall'
  BY DEF IInv, OneCall
<1>8. CookieFollows'
  BY <1>3, <1>4, <1>5 DEF IInv, CookieFollows, Rotated, Current
<1>9. SignOutRevokes'
  BY DEF IInv, TypeOK, SignOutRevokes, Grown
<1> QED
  BY <1>2, <1>3, <1>6, <1>7, <1>8, <1>9 DEF IInv

-----------------------------------------------------------------------------
\* Every step of a user who opens, reloads, signs in or signs out.
LEMMA UserIInv ==
    ASSUME IInv, NEW t \in Tabs, LoadNothing(t) \/ Load(t) \/ SignIn(t) \/ SignOut(t)
    PROVE  IInv'
<1>1. /\ tab[t].at \in Rest /\ MayAct(t)
      /\ UNCHANGED <<server, world, browser, solo, ended, losses>>
  BY DEF LoadNothing, Load, SignIn, SignOut, Rest
<1>2. (solo => \A u \in Tabs \ {t} : tab[u].at \in Rest) /\ ~Rotated(tab[t])
  BY <1>1 DEF MayAct, Rotated, Rest
<1>3. /\ cookie' = cookie /\ stored' = stored /\ losses' = losses /\ ended' = ended
      /\ cookie \in Tokens \cup {NoToken} /\ stored \in Tokens \cup {NoToken}
      /\ losses \in Nat /\ ended \subseteq Sessions /\ NoToken \in Tokens \cup {NoToken}
  BY <1>1 DEF browser, IInv, TypeOK
<1>4. Calm => Current(cookie)
  <2>1. solo => \A u \in Tabs : ~Rotated(tab[u])
    BY <1>2 DEF Rotated, Rest
  <2> QED
    BY <2>1 DEF IInv, CookieFollows, Calm
<1>5. CASE LoadNothing(t)
  <2>1. Become(t, AtRest("out")) /\ "out" \in Rest
    BY <1>5 DEF LoadNothing, Rest
  <2> QED
    BY <1>1, <1>2, <1>3, <2>1, ComesToRest
<1>6. CASE Load(t)
  <2>1. Become(t, Calling("me", stored)) /\ "me" \in Calls
    BY <1>6 DEF Load, Calls
  <2> QED
    BY <1>1, <1>2, <1>3, <2>1, SendsCall
<1>7. CASE SignIn(t)
  <2>1. Become(t, Calling("login", NoToken)) /\ "login" \in Calls
    BY <1>7 DEF SignIn, Calls
  <2> QED
    BY <1>1, <1>2, <1>3, <2>1, SendsCall
<1>8. CASE SignOut(t)
  <2>1. Become(t, Calling("logout", cookie)) /\ "logout" \in Calls
    BY <1>8 DEF SignOut, Calls
  <2> QED
    BY <1>1, <1>2, <1>3, <1>4, <2>1, SendsCall
<1> QED
  BY <1>5, <1>6, <1>7, <1>8

\* Every step of the server.
LEMMA ServeIInv == ASSUME IInv, NEW t \in Tabs, Serve(t) PROVE IInv'
<1> DEFINE n == tab[t].token
<1>1. ServerOK /\ n \in Tokens \cup {NoToken} /\ Fits(tab[t]) /\ (Calm => Lands(tab[t]))
  BY IInvServer DEF IInv, TypeOK
<1>2. n # NoToken => n \in Tokens /\ issued[n] \in Sessions
  BY <1>1, Numbered
<1>3. CASE LoginRead(t)
  <2>1. PICK stage \in {"refused", "active"} : Goto(t, stage)
    BY <1>3 DEF LoginRead
  <2>2. /\ tab[t].at = "login" /\ tab[t].stage = "sent" /\ "login" \in Calls
        /\ stage \in Stages /\ stage # "ok"
        /\ UNCHANGED <<server, world, browser, solo, ended, losses>>
    BY <1>3 DEF LoginRead, Serves, Calls, Stages
  <2> QED
    BY <2>1, <2>2, ServerReads
<1>4. CASE LoginCommit(t)
  <2>1. Issues(Len(issued) + 1, Len(sess) + 1) /\ Len(sess) + 1 \notin Sessions
    BY <1>1, <1>4, LoginIssues DEF LoginCommit
  <2> QED
    BY <1>4, <2>1, GrantIInv DEF LoginCommit, Serves
<1>5. CASE RefreshRead(t)
  <2>1. /\ tab[t].at = "refresh" /\ tab[t].stage = "sent" /\ "refresh" \in Calls
        /\ UNCHANGED <<server, world, browser, solo, ended, losses>>
    BY <1>5 DEF RefreshRead, Serves, Calls
  <2>2. CASE \E s \in Holder(n) : MayRefresh(s)
    <3>1. PICK s \in Sessions : n # NoToken /\ sess[s].hash = n /\ ~sess[s].revoked
      BY <2>2 DEF Holder, MayRefresh
    <3>2. issued[n] = s
      BY <1>1, <3>1 DEF ServerOK, HashIsOwn
    <3>3. ~tab[t].dead
      BY <1>1, <3>1, <3>2 DEF Fits
    <3>4. PICK stage \in {"active", "inactive"} : Goto(t, stage)
      BY <1>5, <2>2 DEF RefreshRead
    <3>5. stage \in Stages
      BY DEF Stages
    <3> QED
      BY <2>1, <3>1, <3>3, <3>4, <3>5, ServerReads
  <2>3. CASE ~(\E s \in Holder(n) : MayRefresh(s))
    <3>1. Goto(t, "refused") /\ "refused" \in Stages
      BY <1>5, <2>3 DEF RefreshRead, Stages
    <3> QED
      BY <2>1, <3>1, ServerReads
  <2> QED
    BY <2>2, <2>3
<1>6. CASE RefreshInactive(t)
  <2>1. "refused" \in Stages
    BY DEF Stages
  <2> QED
    BY <1>6, <2>1, RevokeIInv DEF RefreshInactive, Serves
<1>7. CASE RefreshCommit(t)
  <2>1. tab[t].at = "refresh" /\ tab[t].stage = "active"
    BY <1>7 DEF RefreshCommit, Serves
  <2>2. issued[n] \in Sessions
    BY <1>1, <1>2, <2>1 DEF Fits
  <2>3. Issues(Len(issued) + 1, issued[n])
    BY <1>1, <1>7, <2>2, RefreshIssues DEF RefreshCommit
  <2> QED
    BY <1>7, <2>1, <2>3, GrantIInv DEF RefreshCommit
<1>8. CASE LogoutRead(t)
  <2>1. /\ tab[t].at = "logout" /\ tab[t].stage = "sent" /\ "logout" \in Calls
        /\ UNCHANGED <<server, world, browser, solo, ended, losses>>
    BY <1>8 DEF LogoutRead, Serves, Calls
  <2>2. CASE Holder(n) = {}
    <3>1. Goto(t, "ok") /\ "ok" \in Stages
      BY <1>8, <2>2 DEF LogoutRead, Stages
    <3>2. Calm => n = NoToken
      BY <1>1, <1>2, <2>1, <2>2 DEF Lands, Current, Holder
    <3> QED
      BY <2>1, <3>1, <3>2, ServerReads
  <2>3. CASE Holder(n) # {}
    <3>1. Goto(t, "active") /\ "active" \in Stages
      BY <1>8, <2>3 DEF LogoutRead, Stages
    <3>2. n # NoToken
      BY <2>3 DEF Holder
    <3> QED
      BY <2>1, <3>1, <3>2, ServerReads
  <2> QED
    BY <2>2, <2>3
<1>9. CASE LogoutCommit(t)
  <2>1. "ok" \in Stages
    BY DEF Stages
  <2> QED
    BY <1>9, <2>1, RevokeIInv DEF LogoutCommit, Serves
<1>10. CASE Me(t)
  <2>1. /\ tab[t].at \in {"me", "me again"} /\ tab[t].stage = "sent" /\ tab[t].at \in Calls
        /\ UNCHANGED <<server, world, browser, solo, ended, losses>>
    BY <1>10 DEF Me, Calls
  <2>2. CASE n \notin expired /\ ~sess[issued[n]].revoked /\ active
    <3>1. Goto(t, "ok") /\ "ok" \in Stages /\ ~tab[t].dead
      BY <1>1, <1>10, <2>2 DEF Me, Stages, Fits
    <3> QED
      BY <2>1, <3>1, ServerReads
  <2>3. CASE ~(n \notin expired /\ ~sess[issued[n]].revoked /\ active)
    <3>1. Goto(t, "refused") /\ "refused" \in Stages
      BY <1>10, <2>3 DEF Me, Stages
    <3> QED
      BY <2>1, <3>1, ServerReads
  <2> QED
    BY <2>2, <2>3
<1> QED
  BY <1>3, <1>4, <1>5, <1>6, <1>7, <1>8, <1>9, <1>10 DEF Serve

\* Every answer the client receives, and every one it does not.
LEMMA ReceiveIInv ==
    ASSUME IInv, NEW t \in Tabs, Receive(t) \/ Lose(t)
    PROVE  IInv'
<1> DEFINE v == tab[t]
<1>1. /\ ServerOK /\ v.token \in Tokens \cup {NoToken} /\ v.fresh \in Tokens \cup {NoToken}
      /\ Calm => Lands(v)
  BY IInvServer DEF IInv, TypeOK
<1>2. /\ cookie \in Tokens \cup {NoToken} /\ stored \in Tokens \cup {NoToken}
      /\ NoToken \in Tokens \cup {NoToken} /\ losses \in Nat /\ ended \subseteq Sessions
  BY DEF IInv, TypeOK
<1>3. tab[t].at \in Calls
  BY DEF Receive, Lose, LoginDone, MeDone, MeRefused, RefreshDone, Refused, LogoutDone,
         Serves, Calls
<1>4. solo => \A u \in Tabs \ {t} : tab[u].at \in Rest
  BY <1>3, Alone
<1>5. {"in", "out", "error"} \subseteq Rest /\ {"refresh", "me again"} \subseteq Calls
  BY DEF Rest, Calls
<1>6. CASE LoginDone(t)
  <2>1. /\ v.at = "login" /\ v.stage = "ok" /\ cookie' = v.fresh /\ stored' = v.fresh
        /\ Become(t, AtRest("in")) /\ UNCHANGED <<server, world, solo, ended, losses>>
    BY <1>6 DEF LoginDone, Serves
  <2>2. Calm => Current(cookie')
    BY <1>1, <2>1 DEF Lands
  <2> QED
    BY <1>1, <1>2, <1>4, <1>5, <2>1, <2>2, ComesToRest
<1>7. CASE MeDone(t)
  <2>1. /\ v.at # "refresh" /\ cookie' = cookie /\ stored' = v.token
        /\ Become(t, AtRest("in")) /\ UNCHANGED <<server, world, solo, ended, losses>>
    BY <1>7 DEF MeDone, Serves
  <2> QED
    BY <1>1, <1>2, <1>4, <1>5, <2>1, ComesToRest DEF Rotated
<1>8. CASE MeRefused(t)
  <2>1. /\ v.at # "refresh" /\ cookie' = cookie /\ Become(t, Calling("refresh", cookie))
        /\ UNCHANGED <<server, world, stored, solo, ended, losses>>
    BY <1>8 DEF MeRefused, Serves, browser
  <2> QED
    BY <1>2, <1>4, <1>5, <2>1, SendsCall DEF Rotated
<1>9. CASE RefreshDone(t)
  <2>1. /\ v.at = "refresh" /\ v.stage = "ok" /\ cookie' = v.fresh
        /\ Become(t, Calling("me again", v.fresh))
        /\ UNCHANGED <<server, world, stored, solo, ended, losses>>
    BY <1>9 DEF RefreshDone, Serves
  <2>2. Calm => Current(v.fresh)
    BY <1>1, <2>1 DEF Lands
  <2> QED
    BY <1>1, <1>4, <1>5, <2>1, <2>2, SendsCall
<1>10. CASE Refused(t)
  <2>1. /\ v.stage # "ok" /\ cookie' = cookie /\ stored' = NoToken
        /\ Become(t, AtRest("out")) /\ UNCHANGED <<server, world, solo, ended, losses>>
    BY <1>10 DEF Refused, Serves
  <2> QED
    BY <1>2, <1>4, <1>5, <2>1, ComesToRest DEF Rotated
<1>11. CASE LogoutDone(t)
  <2>1. /\ v.at = "logout" /\ v.stage = "ok" /\ cookie' = NoToken /\ stored' = NoToken
        /\ ended' = IF v.token = NoToken THEN ended ELSE ended \cup {issued[v.token]}
        /\ Become(t, AtRest("out")) /\ UNCHANGED <<server, world, solo, losses>>
    BY <1>11 DEF LogoutDone, Serves
  <2>2. ended' \subseteq Sessions
    BY <1>1, <1>2, <2>1, Numbered
  <2>3. Calm => \A s \in ended' : s \in ended \/ sess[s].revoked
    BY <1>1, <2>1 DEF Lands
  <2>4. Current(cookie')
    BY <2>1 DEF Current
  <2> QED
    BY <1>2, <1>4, <1>5, <2>1, <2>2, <2>3, <2>4, ComesToRest
<1>12. CASE Lose(t)
  <2>1. PICK a \in {"error", "out"} : Become(t, AtRest(a)) /\ stored' \in {stored, NoToken}
    BY <1>12 DEF Lose
  <2>2. losses' = losses + 1 /\ UNCHANGED <<server, world, cookie, solo, ended>>
    BY <1>12 DEF Lose
  <2>3. losses' \in Nat /\ losses' # 0
    BY <1>2, <2>2
  <2> QED
    BY <1>2, <1>4, <1>5, <2>1, <2>2, <2>3, ComesToRest
<1> QED
  BY <1>6, <1>7, <1>8, <1>9, <1>10, <1>11, <1>12 DEF Receive

\* Every step keeps the invariant.
LEMMA StepIInv == IInv /\ [Next]_vars => IInv'
<1> SUFFICES ASSUME IInv, [Next]_vars PROVE IInv'
  OBVIOUS
<1>1. ServerOK
  BY IInvServer
<1>2. ASSUME UNCHANGED <<sess, issued>>
      PROVE  /\ ServerOK' /\ Grown /\ Tokens' = Tokens /\ Sessions' = Sessions
             /\ \A k \in Sessions : sess'[k].hash = sess[k].hash
  BY <1>1, <1>2 DEF ServerOK, SessionRows, HashIsOwn, Grown, Tokens, Sessions
<1>3. /\ expired \subseteq Tokens /\ active \in BOOLEAN /\ toggles \in Nat
  BY DEF IInv, TypeOK
<1>4. CASE \E t \in Tabs : LoadNothing(t) \/ Load(t) \/ SignIn(t) \/ SignOut(t)
  BY <1>4, UserIInv
<1>5. CASE \E t \in Tabs : Serve(t) \/ Receive(t) \/ Lose(t)
  BY <1>5, ServeIInv, ReceiveIInv
<1>6. CASE Toggle
  <2>1. /\ toggles' \in Nat /\ active' \in BOOLEAN
        /\ UNCHANGED <<sess, issued, expired, cookie, stored, tab, solo, ended, losses>>
    BY <1>3, <1>6 DEF Toggle, server, browser
  <2> QED
    BY <1>2, <1>3, <2>1, Surroundings
<1>7. CASE \E n \in Tokens : ExpireAccess(n)
  <2>1. /\ expired' \subseteq Tokens
        /\ UNCHANGED <<sess, issued, active, toggles, cookie, stored, tab, solo, ended, losses>>
    BY <1>3, <1>7 DEF ExpireAccess, server, browser
  <2> QED
    BY <1>2, <1>3, <2>1, Surroundings
<1>8. ASSUME NEW s \in Sessions, Lapse(s) PROVE IInv'
  <2> DEFINE r == [sess[s] EXCEPT !.lapsed = TRUE]
  <2>1. /\ sess' = [sess EXCEPT ![s] = r]
        /\ UNCHANGED <<issued, expired, active, toggles, cookie, stored, tab, solo, ended, losses>>
    BY <1>8 DEF Lapse, world, browser
  <2>2. sess[s] \in SessionRows
    BY <1>1, Numbered
  <2>3. r \in SessionRows /\ r.hash = sess[s].hash /\ r.revoked = sess[s].revoked
    BY <2>2 DEF SessionRows
  <2> HIDE DEF r
  <2>4. /\ ServerOK' /\ Grown /\ Tokens' = Tokens /\ Sessions' = Sessions
        /\ \A k \in Sessions : sess'[k].hash = sess[k].hash
    BY <1>1, <2>1, <2>3, Marks
  <2> QED
    BY <1>3, <2>1, <2>4, Surroundings
<1>9. CASE UNCHANGED vars
  <2>1. UNCHANGED <<sess, issued, expired, active, toggles, cookie, stored, tab, solo, ended, losses>>
    BY <1>9 DEF vars, server, world, browser
  <2> QED
    BY <1>2, <1>3, <2>1, Surroundings
<1> QED
  BY <1>4, <1>5, <1>6, <1>7, <1>8, <1>9 DEF Next

\* So it holds throughout.
LEMMA Invariance == Spec => []IInv
BY InitIInv, StepIInv, PTL DEF Spec

-----------------------------------------------------------------------------
\* However many tabs share the cookie and whatever overlaps, no check and no
\* refresh that was sent after the revocation of its session is granted.
THEOREM RevokedStaysOut == Spec => []SessionsConsistent
<1>1. IInv => SessionsConsistent
  BY DEF IInv, Fits, SessionsConsistent, RevokedIsFinal
<1> QED
  BY <1>1, Invariance, PTL

\* A user who works in one tab at a time and loses no answer holds the current
\* token between calls, and a sign-out that was answered has revoked the
\* session, after any number of logins and rotations.
THEOREM OneTabIsSafe == Spec => []SoloTabIsSafe
<1>1. IInv => SoloTabIsSafe
  <2> SUFFICES ASSUME IInv PROVE SoloTabIsSafe
    OBVIOUS
  <2>1. AllAtRest => \A t \in Tabs : ~Rotated(tab[t])
    BY DEF AllAtRest, Rotated, Rest
  <2>2. CookieIsCurrent
    BY <2>1 DEF IInv, CookieFollows, Calm, Current, CookieIsCurrent
  <2> QED
    BY <2>2 DEF IInv, SoloTabIsSafe
<1> QED
  BY <1>1, Invariance, PTL

=============================================================================

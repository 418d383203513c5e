------------------------ MODULE ProviderOAuthProofs ------------------------
(***************************************************************************)
(* What ProviderOAuth promises for any number of clients, rows, flows and   *)
(* grants, in whatever order their calls overlap.                           *)
(*                                                                          *)
(* The argument: numbers of flows and grants are never used twice, so a     *)
(* commit that sets tokens or a state always differs from what its session  *)
(* has loaded and is written (Recent).  The tokens a session has loaded     *)
(* come from one grant themselves, so the columns it clears are written     *)
(* together or not at all (LoadedWhole).  A callback never leaves its own   *)
(* state behind, and nobody writes an old one back (SpentIsGone).  Clients  *)
(* that wait for each other commit to the row they have read (SoloIsAlone). *)
(***************************************************************************)
EXTENDS ProviderOAuth, TLAPS

\* Rows that mention only the flows and grants there have been.
Recent == [status : Statuses, config : [state : 0..states, settings : {0, 1}],
           access : 0..grants, refresh : 0..grants, expires : 0..grants,
           error : Errors]
RecentCalls == [step : Steps, id : 0..MaxIds, loaded : Recent, late : BOOLEAN]

Bounded ==
    /\ rows \in [1..MaxIds -> Recent]
    /\ call \in [Callers -> RecentCalls]
    /\ spent \subseteq 1..states

\* The tokens of a row and, unless it was set by hand, the expiry are of one
\* grant.
Whole(r, i) == r.access = r.refresh /\ (i \notin edited => r.expires = r.access)

AboutRow == Steps \ {"idle", "create"}

\* A call about a row has read a whole one.
LoadedWhole ==
    \A c \in Callers :
        /\ call[c].step \in AboutRow => call[c].id \in 1..ids /\ Whole(call[c].loaded, call[c].id)
        /\ call[c].step = "grant" => call[c].loaded.config.state # None
        /\ call[c].step = "test ok" => call[c].loaded.access # None

\* No row that can be read holds a state that has bought tokens.
SpentIsGone == \A i \in live : rows[i].config.state \notin spent

\* Clients that wait for each other find the row as they have read it.
SoloIsAlone ==
    solo =>
        \A c \in Callers : call[c] # Idle =>
            /\ \A d \in Callers \ {c} : call[d] = Idle
            /\ call[c].step \in AboutRow =>
                  call[c].id \in live /\ call[c].loaded = rows[call[c].id]

IInv ==
    /\ TypeOK /\ Bounded
    /\ GrantIsWhole /\ LoadedWhole
    /\ OneRowPerType
    /\ SpentIsGone /\ SpentIsSpent
    /\ SoloIsAlone /\ ConnectedHasToken

-----------------------------------------------------------------------------
\* The types of everything but the rows and the calls.
RestOK ==
    /\ ids \in 0..MaxIds /\ live \subseteq 1..ids
    /\ states \in 0..MaxStates /\ grants \in 0..MaxGrants /\ edits \in 0..MaxEdits
    /\ past \subseteq ({"state"} \X (1..MaxStates)) \cup ({"token"} \X (1..MaxGrants))
    /\ solo \in BOOLEAN
    /\ edited \subseteq 1..MaxIds /\ spent \subseteq 1..MaxStates
    /\ undone \in BOOLEAN

\* Types follow from the tighter bounds.
LEMMA BoundedIsTyped == RestOK /\ Bounded => TypeOK
<1> SUFFICES ASSUME RestOK, Bounded PROVE TypeOK
  OBVIOUS
<1>1. 0..states \subseteq 0..MaxStates /\ 0..grants \subseteq 0..MaxGrants
  BY BoundsAreNat DEF RestOK
<1>2. Recent \subseteq Rows
  BY <1>1 DEF Recent, Rows, Configs
<1>3. RecentCalls \subseteq Calls
  BY <1>2 DEF RecentCalls, Calls
<1> QED
  BY <1>2, <1>3 DEF RestOK, Bounded, TypeOK

\* A row without tokens or a state mentions none.
LEMMA GoneIsRecent ==
    ASSUME RestOK
    PROVE  /\ Gone \in Recent /\ Gone.access = None /\ Gone.refresh = None
           /\ Gone.expires = None /\ Gone.config.state = None /\ Gone.status = "disconnected"
           /\ Idle \in RecentCalls /\ Idle.step = "idle" /\ Idle.id = 0
           /\ \A st \in Statuses, se \in {0, 1} :
                 LET r == NewRow(st, se)
                 IN  /\ r \in Recent /\ r.access = None /\ r.refresh = None
                     /\ r.expires = None /\ r.config.state = None /\ r.status = st
<1>1. 0 \in 0..states /\ 0 \in 0..grants /\ 0 \in 0..MaxIds
  BY BoundsAreNat DEF RestOK
<1>2. ASSUME NEW st \in Statuses, NEW se \in {0, 1}
      PROVE  LET r == NewRow(st, se)
             IN  /\ r \in Recent /\ r.access = None /\ r.refresh = None
                 /\ r.expires = None /\ r.config.state = None /\ r.status = st
  BY <1>1 DEF NewRow, Recent, None, Errors
<1>3. /\ Gone \in Recent /\ Gone.access = None /\ Gone.refresh = None
      /\ Gone.expires = None /\ Gone.config.state = None /\ Gone.status = "disconnected"
  BY <1>2 DEF Gone, Statuses
<1>4. Idle \in RecentCalls /\ Idle.step = "idle" /\ Idle.id = 0
  BY <1>1, <1>3 DEF Idle, RecentCalls, Steps, None
<1> QED
  BY <1>2, <1>3, <1>4

\* What is recent stays recent when more flows and grants come.
LEMMA RecentGrows ==
    ASSUME RestOK, RestOK', states <= states', grants <= grants'
    PROVE  Recent \subseteq Recent' /\ RecentCalls \subseteq RecentCalls'
<1>1. 0..states \subseteq 0..states' /\ 0..grants \subseteq 0..grants'
  BY DEF RestOK
<1>2. Recent \subseteq Recent'
  BY <1>1 DEF Recent
<1> QED
  BY <1>2 DEF RecentCalls

\* The invariant says so of the types.
LEMMA IInvIsTyped == IInv => RestOK
BY DEF IInv, TypeOK, RestOK

\* A row that was created has a place.
LEMMA IdsAreBounded ==
    ASSUME RestOK, NEW k \in 1..ids
    PROVE  k \in 1..MaxIds /\ k \in 0..MaxIds
BY BoundsAreNat DEF RestOK

\* No client has called yet.
LEMMA InitIInv == Init => IInv
<1> SUFFICES ASSUME Init PROVE IInv
  OBVIOUS
<1>1. RestOK
  <2>1. /\ ids \in 0..MaxIds /\ states \in 0..MaxStates
        /\ grants \in 0..MaxGrants /\ edits \in 0..MaxEdits
    BY BoundsAreNat DEF Init
  <2>2. /\ live \subseteq 1..ids /\ edited \subseteq 1..MaxIds /\ spent \subseteq 1..MaxStates
        /\ past \subseteq ({"state"} \X (1..MaxStates)) \cup ({"token"} \X (1..MaxGrants))
        /\ solo \in BOOLEAN /\ undone \in BOOLEAN
    BY DEF Init
  <2> QED
    BY <2>1, <2>2 DEF RestOK
<1>2. Bounded
  BY <1>1, GoneIsRecent DEF Init, Bounded
<1>3. TypeOK
  BY <1>1, <1>2, BoundedIsTyped
<1>4. \A c \in Callers : call[c] = Idle /\ call[c].step = "idle"
  BY <1>1, GoneIsRecent DEF Init
<1>5. GrantIsWhole /\ OneRowPerType /\ SpentIsGone /\ ConnectedHasToken
  BY DEF Init, GrantIsWhole, OneRowPerType, SpentIsGone, ConnectedHasToken
<1>6. LoadedWhole /\ SpentIsSpent /\ SoloIsAlone
  BY <1>4 DEF LoadedWhole, SpentIsSpent, SoloIsAlone, AboutRow
<1> QED
  BY <1>2, <1>3, <1>5, <1>6 DEF IInv

-----------------------------------------------------------------------------
\* A flush decides column by column.
LEMMA FlushedRow ==
    ASSUME NEW current \in Rows, NEW loaded \in Rows, NEW target \in Rows
    PROVE  LET Column(old, read, upd) == IF upd = read THEN old ELSE upd
           IN  Flushed(current, loaded, target) =
                  [status |-> Column(current.status, loaded.status, target.status),
                   config |-> Column(current.config, loaded.config, target.config),
                   access |-> Column(current.access, loaded.access, target.access),
                   refresh |-> Column(current.refresh, loaded.refresh, target.refresh),
                   expires |-> Column(current.expires, loaded.expires, target.expires),
                   error |-> Column(current.error, loaded.error, target.error)]
BY DEF Flushed, Rows

\* A session that has read what the row holds writes what it means to.
LEMMA FlushedSame ==
    ASSUME NEW current \in Rows, NEW target \in Rows
    PROVE  Flushed(current, current, target) = target
BY DEF Flushed, Rows

\* A call reads a row that exists and decides what to commit.
LEMMA Reads ==
    ASSUME IInv, NEW c \in Callers, NEW i \in live, NEW step \in AboutRow,
           NEW late \in BOOLEAN, Decide(c, i, step, late),
           step = "grant" => ~late /\ rows[i].config.state # None,
           step = "test ok" => rows[i].access # None
    PROVE  IInv'
<1> DEFINE new == [step |-> step, id |-> i, loaded |-> rows[i], late |-> late]
<1>1. /\ MayCall(c) /\ call' = [call EXCEPT ![c] = new]
      /\ UNCHANGED <<rows, live, ids, states, grants, edits, past, solo, edited, spent, undone>>
  BY DEF Decide, counters, history
<1>2. RestOK /\ RestOK'
  BY <1>1, IInvIsTyped DEF RestOK
<1>3. i \in 1..ids /\ i \in 1..MaxIds /\ i \in 0..MaxIds /\ rows[i] \in Recent
  <2>1. i \in 1..ids
    BY <1>2 DEF RestOK
  <2>3. i \in 1..MaxIds /\ i \in 0..MaxIds
    BY <1>2, <2>1, IdsAreBounded
  <2> QED
    BY <2>1, <2>3 DEF IInv, Bounded
<1>4. new \in RecentCalls
  BY <1>3 DEF RecentCalls, AboutRow
<1>5. /\ new.step = step /\ new.id = i /\ new.loaded = rows[i] /\ new.late = late
  OBVIOUS
<1> HIDE DEF new
<1>6. call'[c] = new /\ \A d \in Callers \ {c} : call'[d] = call[d]
  BY <1>1 DEF IInv, Bounded
<1>7. Bounded'
  BY <1>1, <1>4 DEF IInv, Bounded, Recent, RecentCalls
<1>8. TypeOK'
  BY <1>2, <1>7, BoundedIsTyped, PTL
<1>9. GrantIsWhole' /\ OneRowPerType' /\ SpentIsGone' /\ ConnectedHasToken'
  BY <1>1 DEF IInv, GrantIsWhole, OneRowPerType, SpentIsGone, ConnectedHasToken
<1>10. LoadedWhole'
  <2>1. Whole(rows[i], i)
    BY <1>3 DEF IInv, GrantIsWhole, Whole
  <2> QED
    <3>1. /\ new.loaded.access = new.loaded.refresh
          /\ i \notin edited' => new.loaded.expires = new.loaded.access
      BY <1>1, <1>5, <2>1 DEF Whole
    <3>2. ASSUME NEW d \in Callers \ {c}
          PROVE  /\ call[d].step \in AboutRow =>
                       call[d].id \in 1..ids /\ Whole(call[d].loaded, call[d].id)
                 /\ call[d].step = "grant" => call[d].loaded.config.state # None
                 /\ call[d].step = "test ok" => call[d].loaded.access # None
      BY DEF IInv, LoadedWhole
    <3>3. /\ new.step = "grant" => new.loaded.config.state # None
          /\ new.step = "test ok" => new.loaded.access # None
      BY <1>5
    <3>4. new.id \in 1..ids /\ new.id = i
      BY <1>3, <1>5
    <3>5. ids' = ids /\ edited' = edited
      BY <1>1
    <3> SUFFICES ASSUME NEW d \in Callers
                 PROVE  /\ call'[d].step \in AboutRow =>
                              /\ call'[d].id \in 1..ids'
                              /\ call'[d].loaded.access = call'[d].loaded.refresh
                              /\ call'[d].id \notin edited' =>
                                    call'[d].loaded.expires = call'[d].loaded.access
                        /\ call'[d].step = "grant" => call'[d].loaded.config.state # None
                        /\ call'[d].step = "test ok" => call'[d].loaded.access # None
      BY DEF LoadedWhole, Whole
    <3>6. CASE d = c
      BY <1>6, <3>1, <3>3, <3>4, <3>5, <3>6
    <3>7. CASE d # c
      BY <1>6, <3>2, <3>5, <3>7 DEF Whole
    <3> QED
      BY <3>6, <3>7
<1>11. SpentIsSpent'
  BY <1>5, <1>6 DEF IInv, SpentIsSpent
<1>12. SoloIsAlone'
  <2> SUFFICES ASSUME solo, NEW d \in Callers, call'[d] # Idle
               PROVE  /\ \A e \in Callers \ {d} : call'[e] = Idle
                      /\ call'[d].step \in AboutRow =>
                            call'[d].id \in live /\ call'[d].loaded = rows[call'[d].id]
    BY <1>1 DEF SoloIsAlone
  <2>1. \A e \in Callers : call[e] = Idle
    BY <1>1 DEF MayCall
  <2>2. d = c
    BY <1>6, <2>1
  <2> QED
    BY <1>5, <1>6, <2>1, <2>2
<1> QED
  BY <1>7, <1>8, <1>9, <1>10, <1>11, <1>12 DEF IInv

\* A call commits what it made of the row it has read.
LEMMA Writes ==
    ASSUME IInv, RestOK', NEW c \in Callers, NEW i, i = call[c].id,
           NEW loaded, loaded = call[c].loaded,
           call[c].step \in AboutRow, call' = [call EXCEPT ![c] = Idle],
           NEW target \in Recent', Write(c, target),
           states <= states', grants <= grants', UNCHANGED <<ids, live, solo>>,
           edited \subseteq edited', target.access = target.refresh,
           i \notin edited' => target.expires = target.access,
           spent' \subseteq 1..states',
           spent' = spent \/ (i \in live /\ target.config # loaded.config),
           target.config # loaded.config => target.config.state \notin spent',
           solo => ~undone',
           solo /\ i \notin edited' /\ target.status = "connected" => target.access # None
    PROVE  IInv'
<1> DEFINE new == Flushed(rows[i], loaded, target)
<1>1. RestOK
  BY IInvIsTyped
<1>2. Recent \subseteq Recent' /\ RecentCalls \subseteq RecentCalls'
  BY <1>1, RecentGrows
<1>3. /\ i \in 1..ids /\ i \in 1..MaxIds /\ Whole(loaded, i)
      /\ rows[i] \in Recent' /\ loaded \in Recent' /\ Whole(rows[i], i)
  <2>1. i \in 1..ids /\ Whole(loaded, i)
    BY DEF IInv, LoadedWhole
  <2>2. i \in 1..MaxIds
    BY <1>1, <2>1, BoundsAreNat DEF RestOK
  <2>3. rows[i] \in Recent /\ loaded \in Recent
    BY <2>2 DEF IInv, Bounded, RecentCalls
  <2>4. Whole(rows[i], i)
    BY <2>1 DEF IInv, GrantIsWhole, Whole
  <2> QED
    BY <1>2, <2>1, <2>2, <2>3, <2>4
<1>4. Recent' \subseteq Rows
  <2>1. 0..states' \subseteq 0..MaxStates /\ 0..grants' \subseteq 0..MaxGrants
    BY BoundsAreNat DEF RestOK
  <2> QED
    BY <2>1 DEF Recent, Rows, Configs
<1>5. /\ new.status = (IF target.status = loaded.status THEN rows[i].status ELSE target.status)
      /\ new.config = (IF target.config = loaded.config THEN rows[i].config ELSE target.config)
      /\ new.access = (IF target.access = loaded.access THEN rows[i].access ELSE target.access)
      /\ new.refresh = (IF target.refresh = loaded.refresh THEN rows[i].refresh ELSE target.refresh)
      /\ new.expires = (IF target.expires = loaded.expires THEN rows[i].expires ELSE target.expires)
  BY <1>3, <1>4, FlushedRow
<1>6. new \in Recent'
  <2> DEFINE Column(old, read, upd) == IF upd = read THEN old ELSE upd
             st == Column(rows[i].status, loaded.status, target.status)
             cf == Column(rows[i].config, loaded.config, target.config)
             ac == Column(rows[i].access, loaded.access, target.access)
             rf == Column(rows[i].refresh, loaded.refresh, target.refresh)
             ex == Column(rows[i].expires, loaded.expires, target.expires)
             er == Column(rows[i].error, loaded.error, target.error)
  <2>1. new = [status |-> st, config |-> cf, access |-> ac, refresh |-> rf,
               expires |-> ex, error |-> er]
    BY <1>3, <1>4, FlushedRow
  <2>2. /\ st \in Statuses /\ cf \in [state : 0..states', settings : {0, 1}]
        /\ ac \in 0..grants' /\ rf \in 0..grants' /\ ex \in 0..grants' /\ er \in Errors
    BY <1>3 DEF Recent
  <2> HIDE DEF st, cf, ac, rf, ex, er
  <2> QED
    BY <2>1, <2>2 DEF Recent
<1>7. solo => i \in live /\ loaded = rows[i] /\ new = target
  <2>1. call[c] # Idle
    BY <1>1, GoneIsRecent DEF AboutRow
  <2>2. solo => i \in live /\ loaded = rows[i]
    BY <2>1 DEF IInv, SoloIsAlone
  <2> QED
    BY <1>3, <1>4, <2>2, FlushedSame
<1>8. rows' = IF i \in live THEN [rows EXCEPT ![i] = new] ELSE rows
  BY DEF Write
<1> HIDE DEF new
<1>9. /\ i \in live => rows'[i] = new
      /\ i \notin live => rows'[i] = rows[i]
      /\ \A k \in (1..MaxIds) \ {i} : rows'[k] = rows[k]
  BY <1>3, <1>8 DEF IInv, Bounded
<1>10. call'[c] = Idle /\ \A d \in Callers \ {c} : call'[d] = call[d]
  BY DEF IInv, Bounded
<1>11. Idle \in RecentCalls /\ Idle.step = "idle"
  BY <1>1, GoneIsRecent
<1>12. Bounded'
  <2>1. rows' \in [1..MaxIds -> Recent']
    BY <1>2, <1>6, <1>8 DEF IInv, Bounded
  <2>2. call' \in [Callers -> RecentCalls']
    BY <1>2, <1>11 DEF IInv, Bounded
  <2> QED
    BY <2>1, <2>2 DEF Bounded
<1>13. TypeOK'
  BY <1>12, BoundedIsTyped, PTL
<1>14. GrantIsWhole'
  <2>1. new.access = new.refresh /\ (i \notin edited' => new.expires = new.access)
    BY <1>3, <1>5 DEF Whole
  <2>2. \A k \in 1..ids : k \in 1..MaxIds /\ Whole(rows[k], k)
    BY <1>1, BoundsAreNat DEF IInv, GrantIsWhole, Whole, RestOK
  <2> QED
    BY <1>9, <2>1, <2>2 DEF GrantIsWhole, Whole
<1>15. LoadedWhole'
  BY <1>10, <1>11 DEF IInv, LoadedWhole, Whole, AboutRow
<1>16. OneRowPerType'
  BY DEF IInv, OneRowPerType
<1>17. SpentIsGone'
  <2> SUFFICES ASSUME NEW k \in live PROVE rows'[k].config.state \notin spent'
    BY DEF SpentIsGone
  <2>1. CASE i \in live
    <3>1. k = i
      BY <2>1 DEF IInv, OneRowPerType
    <3> QED
      BY <1>5, <1>9, <2>1, <3>1 DEF IInv, SpentIsGone
  <2>2. CASE i \notin live
    BY <1>8, <2>2 DEF IInv, SpentIsGone
  <2> QED
    BY <2>1, <2>2
<1>18. SpentIsSpent'
  BY <1>10, <1>11 DEF IInv, SpentIsSpent
<1>19. SoloIsAlone'
  <2>1. call[c] # Idle
    BY <1>11 DEF AboutRow
  <2> QED
    BY <1>10, <2>1 DEF IInv, SoloIsAlone
<1>20. ConnectedHasToken'
  <2> SUFFICES ASSUME solo, NEW k \in (1..ids) \ edited', rows'[k].status = "connected"
               PROVE  rows'[k].access # None
    BY DEF ConnectedHasToken
  <2>1. CASE k = i
    BY <1>7, <1>9, <2>1
  <2>2. CASE k # i
    <3>1. k \in 1..MaxIds /\ k \in (1..ids) \ edited
      BY <1>1, BoundsAreNat DEF RestOK
    <3> QED
      BY <1>9, <2>2, <3>1 DEF IInv, ConnectedHasToken
  <2> QED
    BY <2>1, <2>2
<1> QED
  BY <1>12, <1>13, <1>14, <1>15, <1>16, <1>17, <1>18, <1>19, <1>20 DEF IInv

\* What a call about a row knows when it commits.
LEMMA Loaded ==
    ASSUME IInv, NEW c \in Callers, call[c].step \in AboutRow
    PROVE  /\ call[c].loaded \in Recent /\ call[c].id \in 1..ids
           /\ Whole(call[c].loaded, call[c].id)
           /\ solo => ~undone /\ call[c].id \in live /\ call[c].loaded = rows[call[c].id]
           /\ solo /\ call[c].id \notin edited /\ call[c].loaded.status = "connected"
                 => call[c].loaded.access # None
<1>1. call[c].loaded \in Recent /\ call[c].id \in 1..ids /\ Whole(call[c].loaded, call[c].id)
  BY DEF IInv, Bounded, RecentCalls, LoadedWhole
<1>2. call[c] # Idle
  <2>1. Idle.step = "idle"
    BY IInvIsTyped, GoneIsRecent
  <2> QED
    BY <2>1 DEF AboutRow
<1>3. solo => ~undone /\ call[c].id \in live /\ call[c].loaded = rows[call[c].id]
  BY <1>2 DEF IInv, SoloIsAlone, ConnectedHasToken
<1> QED
  BY <1>1, <1>3 DEF IInv, ConnectedHasToken

\* A new flow is one that nobody has used.
LEMMA StartIInv == ASSUME IInv, NEW c \in Callers, CommitStart(c) PROVE IInv'
<1> DEFINE i == call[c].id
           loaded == call[c].loaded
           target == Started(loaded, states + 1)
<1>1. /\ call[c].step = "start" /\ call' = [call EXCEPT ![c] = Idle]
      /\ states < MaxStates /\ states' = states + 1 /\ Write(c, target)
      /\ UNCHANGED <<live, ids, grants, edits, past, solo, edited, spent, undone>>
  BY DEF CommitStart, Commits, history
<1>2. call[c].step \in AboutRow
  BY <1>1 DEF AboutRow, Steps
<1>3. RestOK
  BY IInvIsTyped
<1>4. RestOK' /\ states + 1 \in 0..states' /\ states <= states' /\ grants <= grants'
  BY <1>1, <1>3, BoundsAreNat DEF RestOK
<1>5. spent \subseteq 1..states' /\ states + 1 \notin spent
  BY <1>1, <1>3 DEF RestOK, IInv, Bounded
<1>6. loaded \in Recent' /\ Whole(loaded, i)
  BY <1>2, <1>3, <1>4, RecentGrows, Loaded
<1> HIDE DEF loaded
<1>7. /\ target \in Recent' /\ target.config.state = states + 1
      /\ target.access = loaded.access /\ target.refresh = loaded.refresh
      /\ target.expires = loaded.expires /\ target.status = loaded.status
  BY <1>4, <1>6 DEF Started, Recent
<1> HIDE DEF target
<1>8. /\ target.access = target.refresh
      /\ i \notin edited' => target.expires = target.access
      /\ solo => ~undone'
      /\ solo /\ i \notin edited' /\ target.status = "connected" => target.access # None
  BY <1>1, <1>2, <1>6, <1>7, Loaded DEF Whole, loaded
<1> QED
  BY <1>1, <1>2, <1>4, <1>5, <1>7, <1>8, Writes DEF loaded

\* A grant is a new one, and the state that bought it is cleared with it.
LEMMA GrantIInv == ASSUME IInv, NEW c \in Callers, CommitGrant(c) PROVE IInv'
<1> DEFINE i == call[c].id
           loaded == call[c].loaded
           target == Granted(loaded, grants + 1)
<1>1. /\ call[c].step = "grant" /\ call' = [call EXCEPT ![c] = Idle]
      /\ grants < MaxGrants /\ grants' = grants + 1 /\ Write(c, target)
      /\ spent' = IF i \in live THEN spent \cup {loaded.config.state} ELSE spent
      /\ UNCHANGED <<live, ids, states, edits, past, solo, edited, undone>>
  BY DEF CommitGrant, Commits
<1>2. call[c].step \in AboutRow
  BY <1>1 DEF AboutRow, Steps
<1>3. RestOK
  BY IInvIsTyped
<1>4. loaded \in Recent /\ Whole(loaded, i) /\ loaded.config.state # None
  BY <1>1, <1>2, Loaded DEF IInv, LoadedWhole
<1>5. loaded.config.state \in 1..states
  BY <1>3, <1>4 DEF Recent, RestOK, None
<1>6. spent' \subseteq 1..states' /\ None \notin spent'
  BY <1>1, <1>3, <1>5 DEF RestOK, IInv, Bounded, None
<1>7. spent' \subseteq 1..MaxStates
  BY <1>1, <1>3, <1>6, BoundsAreNat DEF RestOK
<1>8. RestOK' /\ grants + 1 \in 0..grants' /\ states <= states' /\ grants <= grants'
  BY <1>1, <1>3, <1>7, BoundsAreNat DEF RestOK
<1>9. loaded \in Recent' /\ None \in 0..states'
  BY <1>1, <1>3, <1>4, <1>8, RecentGrows DEF RestOK, None
<1> HIDE DEF loaded
<1>10. /\ target \in Recent' /\ target.config.state = None
       /\ target.access = grants + 1 /\ target.refresh = grants + 1
       /\ target.expires = grants + 1 /\ target.status = "connected"
  BY <1>8, <1>9 DEF Granted, WithTokens, Cleared, Recent, Statuses, Errors
<1> HIDE DEF target
<1>11. /\ spent' = spent \/ (i \in live /\ target.config # loaded.config)
       /\ solo => ~undone' /\ grants + 1 # None
  BY <1>1, <1>2, <1>3, <1>4, <1>10, Loaded DEF RestOK, None
<1> QED
  BY <1>1, <1>2, <1>6, <1>8, <1>10, <1>11, Writes DEF loaded

\* A refresh writes both tokens and the expiry, which are new.
LEMMA RefreshIInv == ASSUME IInv, NEW c \in Callers, CommitRefresh(c) PROVE IInv'
<1> DEFINE i == call[c].id
           loaded == call[c].loaded
           target == WithTokens(loaded, grants + 1)
<1>1. /\ call[c].step = "refresh" /\ call' = [call EXCEPT ![c] = Idle]
      /\ grants < MaxGrants /\ grants' = grants + 1 /\ Write(c, target)
      /\ UNCHANGED <<live, ids, states, edits, past, solo, edited, spent, undone>>
  BY DEF CommitRefresh, Commits, history
<1>2. call[c].step \in AboutRow
  BY <1>1 DEF AboutRow, Steps
<1>3. RestOK
  BY IInvIsTyped
<1>4. RestOK' /\ grants + 1 \in 0..grants' /\ states <= states' /\ grants <= grants'
  BY <1>1, <1>3, BoundsAreNat DEF RestOK
<1>5. loaded \in Recent' /\ spent' \subseteq 1..states'
  BY <1>1, <1>2, <1>3, <1>4, RecentGrows, Loaded DEF IInv, Bounded
<1> HIDE DEF loaded
<1>6. /\ target \in Recent' /\ target.config = loaded.config
      /\ target.access = grants + 1 /\ target.refresh = grants + 1
      /\ target.expires = grants + 1 /\ target.status = "connected"
  BY <1>4, <1>5 DEF WithTokens, Recent, Statuses, Errors
<1> HIDE DEF target
<1>7. (solo => ~undone') /\ grants + 1 # None
  BY <1>1, <1>2, <1>3, Loaded DEF RestOK, None
<1> QED
  BY <1>1, <1>2, <1>4, <1>5, <1>6, <1>7, Writes DEF loaded

\* An expired state is cleared and the tokens are left alone.
LEMMA ExpireIInv == ASSUME IInv, NEW c \in Callers, CommitExpire(c) PROVE IInv'
<1> DEFINE i == call[c].id
           loaded == call[c].loaded
           target == Expired(loaded)
<1>1. /\ call[c].step = "expire" /\ call' = [call EXCEPT ![c] = Idle] /\ Write(c, target)
      /\ UNCHANGED <<live, ids, states, grants, edits, past, solo, edited, spent, undone>>
  BY DEF CommitExpire, Commits, counters, history
<1>2. call[c].step \in AboutRow
  BY <1>1 DEF AboutRow, Steps
<1>3. RestOK
  BY IInvIsTyped
<1>4. RestOK' /\ states <= states' /\ grants <= grants' /\ None \in 0..states'
  BY <1>1, <1>3 DEF RestOK, None
<1>5. loaded \in Recent' /\ Whole(loaded, i)
  BY <1>2, <1>3, <1>4, RecentGrows, Loaded
<1>6. spent' \subseteq 1..states' /\ None \notin spent'
  BY <1>1, <1>3 DEF RestOK, IInv, Bounded, None
<1> HIDE DEF loaded
<1>7. /\ target \in Recent' /\ target.config.state = None
      /\ target.access = loaded.access /\ target.refresh = loaded.refresh
      /\ target.expires = loaded.expires /\ target.status = "error"
  BY <1>4, <1>5 DEF Expired, Cleared, Recent, Statuses, Errors
<1> HIDE DEF target
<1>8. /\ target.access = target.refresh
      /\ i \notin edited' => target.expires = target.access
      /\ solo => ~undone'
  BY <1>1, <1>2, <1>5, <1>7, Loaded DEF Whole, loaded
<1> QED
  BY <1>1, <1>2, <1>4, <1>6, <1>7, <1>8, Writes DEF loaded

\* A client that is alone is answered with the row it has disconnected.
LEMMA RevokeIInv == ASSUME IInv, NEW c \in Callers, CommitRevoke(c) PROVE IInv'
<1> DEFINE i == call[c].id
           loaded == call[c].loaded
           target == Revoked(loaded)
<1>1. /\ call[c].step = "revoke" /\ call' = [call EXCEPT ![c] = Idle] /\ Write(c, target)
      /\ undone' = (undone \/ (i \in live /\ ~Disconnected(rows'[i])))
      /\ UNCHANGED <<live, ids, states, grants, edits, past, solo, edited, spent>>
  BY DEF CommitRevoke, Commits, counters
<1>2. call[c].step \in AboutRow
  BY <1>1 DEF AboutRow, Steps
<1>3. RestOK
  BY IInvIsTyped
<1>4. RestOK' /\ states <= states' /\ grants <= grants'
  BY <1>1, <1>3 DEF RestOK
<1>5. None \in 0..states' /\ None \in 0..grants'
  BY <1>1, <1>3 DEF RestOK, None
<1>6. loaded \in Recent' /\ loaded \in Recent /\ i \in 1..MaxIds
  BY <1>2, <1>3, <1>4, RecentGrows, Loaded, IdsAreBounded
<1>7. spent' \subseteq 1..states' /\ None \notin spent'
  BY <1>1, <1>3 DEF RestOK, IInv, Bounded, None
<1> HIDE DEF loaded
<1>8. /\ target \in Recent' /\ target.config.state = None
      /\ target.access = None /\ target.refresh = None
      /\ target.expires = None /\ target.status = "disconnected"
  BY <1>5, <1>6 DEF Revoked, Cleared, Recent, Statuses, Errors
<1> HIDE DEF target
<1>9. solo => ~undone'
  <2> SUFFICES ASSUME solo PROVE ~undone'
    OBVIOUS
  <2>1. i \in live /\ loaded = rows[i] /\ ~undone
    BY <1>2, Loaded DEF loaded
  <2>2. Recent \subseteq Rows /\ Recent' \subseteq Rows
    <3>1. 0..states \subseteq 0..MaxStates /\ 0..grants \subseteq 0..MaxGrants
      BY <1>3, BoundsAreNat DEF RestOK
    <3> QED
      BY <1>1, <3>1 DEF Recent, Rows, Configs
  <2>3. Flushed(rows[i], loaded, target) = target
    BY <1>6, <1>8, <2>1, <2>2, FlushedSame
  <2>4. rows' = [rows EXCEPT ![i] = Flushed(rows[i], loaded, target)]
    BY <1>1, <2>1 DEF Write, loaded
  <2>5. rows'[i] = target
    BY <1>6, <2>3, <2>4 DEF IInv, Bounded
  <2>6. Disconnected(rows'[i])
    BY <1>8, <2>5 DEF Disconnected
  <2> QED
    BY <1>1, <2>1, <2>6
<1> QED
  BY <1>1, <1>2, <1>4, <1>7, <1>8, <1>9, Writes DEF loaded

\* A test that passed has seen a token; one that failed connects nothing.
LEMMA TestIInv == ASSUME IInv, NEW c \in Callers, CommitTest(c) PROVE IInv'
<1> DEFINE i == call[c].id
           loaded == call[c].loaded
<1>1. PICK passed \in BOOLEAN :
        /\ call[c].step = IF passed THEN "test ok" ELSE "test failed"
        /\ call' = [call EXCEPT ![c] = Idle] /\ Write(c, Tested(loaded, passed))
        /\ UNCHANGED <<live, ids, states, grants, edits, past, solo, edited, spent, undone>>
  <2>1. UNCHANGED <<live, ids, states, grants, edits, past, solo, edited, spent, undone>>
    BY DEF CommitTest, counters, history
  <2>2. CASE Commits(c, "test ok") /\ Write(c, Tested(loaded, TRUE))
    BY <2>1, <2>2 DEF Commits
  <2>3. CASE Commits(c, "test failed") /\ Write(c, Tested(loaded, FALSE))
    BY <2>1, <2>3 DEF Commits
  <2> QED
    BY <2>2, <2>3 DEF CommitTest
<1> DEFINE target == Tested(loaded, passed)
<1>2. call[c].step \in AboutRow
  BY <1>1 DEF AboutRow, Steps
<1>3. RestOK
  BY IInvIsTyped
<1>4. RestOK' /\ states <= states' /\ grants <= grants'
  <2>1. UNCHANGED <<live, ids, states, grants, edits, past, solo, edited, spent, undone>>
    BY <1>1
  <2>2. RestOK'
    BY <1>3, <2>1 DEF RestOK
  <2>3. states <= states' /\ grants <= grants'
    <3>1. states \in Nat /\ grants \in Nat
      BY <1>3 DEF RestOK
    <3> QED
      BY <2>1, <3>1
  <2> QED
    BY <2>2, <2>3
<1>5. /\ loaded \in Recent' /\ Whole(loaded, i)
      /\ call[c].step = "test ok" => loaded.access # None
  BY <1>2, <1>3, <1>4, RecentGrows, Loaded DEF IInv, LoadedWhole
<1>6. spent' \subseteq 1..states'
  BY <1>1 DEF IInv, Bounded
<1> HIDE DEF loaded
<1>7. /\ target \in Recent' /\ target.config = loaded.config
      /\ target.access = loaded.access /\ target.refresh = loaded.refresh
      /\ target.expires = loaded.expires
      /\ target.status = "connected" => call[c].step = "test ok"
  <2>1. CASE passed
    <3>1. target = [loaded EXCEPT !.status = "connected", !.error = "none"]
      BY <2>1 DEF Tested
    <3>2. call[c].step = "test ok"
      BY <1>1, <2>1
    <3> QED
      BY <1>5, <3>1, <3>2 DEF Recent, Statuses, Errors
  <2>2. CASE ~passed
    <3>1. target = [loaded EXCEPT !.status = IF @ = "disconnected" THEN @ ELSE "error",
                                  !.error = "test failed"]
      BY <2>2 DEF Tested
    <3> QED
      BY <1>5, <3>1 DEF Recent, Statuses, Errors
  <2> QED
    BY <2>1, <2>2
<1> HIDE DEF target
<1>8. /\ target.access = target.refresh
      /\ i \notin edited' => target.expires = target.access
      /\ solo => ~undone'
      /\ target.status = "connected" => target.access # None
  BY <1>1, <1>2, <1>5, <1>7, Loaded DEF Whole
<1> QED
  BY <1>1, <1>2, <1>4, <1>6, <1>7, <1>8, Writes DEF loaded, target

\* Who sets the status or the expiry by hand is on record.
LEMMA PatchIInv == ASSUME IInv, NEW c \in Callers, CommitPatch(c) PROVE IInv'
<1> DEFINE i == call[c].id
           loaded == call[c].loaded
<1>1. PICK target \in Patched(loaded) :
        /\ call[c].step = "patch" /\ call' = [call EXCEPT ![c] = Idle]
        /\ edits < MaxEdits /\ edits' = edits + 1 /\ Write(c, target)
        /\ edited' = IF target.status # loaded.status \/ target.expires # loaded.expires
                     THEN edited \cup {i} ELSE edited
        /\ UNCHANGED <<live, ids, states, grants, past, solo, spent, undone>>
  BY DEF CommitPatch, Commits
<1>2. call[c].step \in AboutRow
  BY <1>1 DEF AboutRow, Steps
<1>3. RestOK
  BY IInvIsTyped
<1>4. i \in 1..MaxIds
  BY <1>2, <1>3, Loaded, IdsAreBounded
<1>5. RestOK' /\ states <= states' /\ grants <= grants' /\ None \in 0..states'
  <2>1. edited' \subseteq 1..MaxIds
    BY <1>1, <1>3, <1>4 DEF RestOK
  <2>2. edits' \in 0..MaxEdits
    BY <1>1, <1>3, BoundsAreNat DEF RestOK
  <2>3. states <= states' /\ grants <= grants' /\ None \in 0..states'
    BY <1>1, <1>3 DEF RestOK, None
  <2> QED
    BY <1>1, <1>3, <2>1, <2>2, <2>3 DEF RestOK
<1>6. loaded \in Recent' /\ Whole(loaded, i)
  BY <1>2, <1>3, <1>5, RecentGrows, Loaded
<1>7. spent' \subseteq 1..states' /\ None \notin spent'
  BY <1>1, <1>3 DEF RestOK, IInv, Bounded, None
<1> HIDE DEF loaded
<1>8. /\ target \in Recent' /\ (target.config # loaded.config => target.config.state = None)
      /\ target.access = loaded.access /\ target.refresh = loaded.refresh
  <2>1. CASE \E s \in Statuses : target = [loaded EXCEPT !.status = s]
    BY <1>6, <2>1 DEF Recent
  <2>2. CASE \E x \in {0, 1} : target = [loaded EXCEPT !.config = [state |-> None, settings |-> x]]
    BY <1>5, <1>6, <2>2 DEF Recent
  <2>3. CASE \E e \in 0..grants : target = [loaded EXCEPT !.expires = e]
    BY <1>1, <1>6, <2>3 DEF Recent
  <2>4. CASE target = [loaded EXCEPT !.error = "none"]
    BY <1>6, <2>4 DEF Recent, Errors
  <2> QED
    BY <1>1, <2>1, <2>2, <2>3, <2>4 DEF Patched
<1>9. /\ target.access = target.refresh /\ edited \subseteq edited'
      /\ i \notin edited' => target.expires = target.access
      /\ solo => ~undone'
      /\ solo /\ i \notin edited' /\ target.status = "connected" => target.access # None
  BY <1>1, <1>2, <1>6, <1>8, Loaded DEF Whole, loaded
<1> QED
  BY <1>1, <1>2, <1>5, <1>7, <1>8, <1>9, Writes DEF loaded

\* A row that is deleted holds nothing.
LEMMA DeleteIInv == ASSUME IInv, NEW c \in Callers, CommitDelete(c) PROVE IInv'
<1> DEFINE i == call[c].id
<1>1. /\ call[c].step = "delete" /\ call' = [call EXCEPT ![c] = Idle]
      /\ live' = live \ {i} /\ rows' = [rows EXCEPT ![i] = Gone]
      /\ UNCHANGED <<ids, states, grants, edits, past, solo, edited, spent, undone>>
  BY DEF CommitDelete, Commits, counters, history
<1>2. call[c].step \in AboutRow
  BY <1>1 DEF AboutRow, Steps
<1>3. RestOK
  BY IInvIsTyped
<1>4. i \in 1..MaxIds
  BY <1>2, <1>3, Loaded, IdsAreBounded
<1>5. /\ Gone \in Recent /\ Gone.access = None /\ Gone.refresh = None
      /\ Gone.expires = None /\ Gone.status = "disconnected"
      /\ Idle \in RecentCalls /\ Idle.step = "idle"
  BY <1>3, GoneIsRecent
<1>6. RestOK'
  BY <1>1, <1>3 DEF RestOK
<1>7. /\ rows'[i] = Gone /\ \A k \in (1..MaxIds) \ {i} : rows'[k] = rows[k]
      /\ call'[c] = Idle /\ \A d \in Callers \ {c} : call'[d] = call[d]
  BY <1>1, <1>4 DEF IInv, Bounded
<1>8. Bounded'
  BY <1>1, <1>5 DEF IInv, Bounded, Recent, RecentCalls
<1>9. TypeOK'
  BY <1>6, <1>8, BoundedIsTyped, PTL
<1>10. \A k \in 1..ids : k \in 1..MaxIds
  BY <1>3, IdsAreBounded
<1>11. GrantIsWhole'
  BY <1>1, <1>5, <1>7, <1>10 DEF IInv, GrantIsWhole
<1>12. LoadedWhole' /\ SpentIsSpent'
  <2>1. LoadedWhole'
    <3>1. ids' = ids /\ edited' = edited /\ Idle.step \notin AboutRow
      BY <1>1, <1>5 DEF AboutRow
    <3>2. LoadedWhole
      BY DEF IInv
    <3> QED
      BY <1>5, <1>7, <3>1, <3>2 DEF LoadedWhole, Whole
  <2>2. SpentIsSpent'
    BY <1>5, <1>7 DEF IInv, SpentIsSpent
  <2> QED
    BY <2>1, <2>2
<1>13. OneRowPerType'
  BY <1>1 DEF IInv, OneRowPerType
<1>14. SpentIsGone'
  BY <1>1, <1>3, <1>7, <1>10 DEF IInv, SpentIsGone, RestOK
<1>15. SoloIsAlone'
  <2>1. call[c] # Idle
    BY <1>1, <1>5
  <2> QED
    BY <1>1, <1>7, <2>1 DEF IInv, SoloIsAlone
<1>16. ConnectedHasToken'
  BY <1>1, <1>5, <1>7, <1>10 DEF IInv, ConnectedHasToken
<1> QED
  BY <1>8, <1>9, <1>11, <1>12, <1>13, <1>14, <1>15, <1>16 DEF IInv

\* A row is inserted where there is none, without tokens.
LEMMA CreateIInv == ASSUME IInv, NEW c \in Callers, CommitCreate(c) PROVE IInv'
<1>1. /\ call[c].step = "create" /\ call' = [call EXCEPT ![c] = Idle] /\ ids < MaxIds
      /\ UNCHANGED <<states, grants, past, solo, spent, undone>>
  BY DEF CommitCreate, Commits
<1>2. RestOK
  BY IInvIsTyped
<1>3. /\ Idle \in RecentCalls /\ Idle.step = "idle" /\ Idle.step \notin AboutRow
  BY <1>2, GoneIsRecent DEF AboutRow
<1>4. call'[c] = Idle /\ \A d \in Callers \ {c} : call'[d] = call[d]
  BY <1>1 DEF IInv, Bounded
<1>5. call' \in [Callers -> RecentCalls'] /\ spent' \subseteq 1..states' /\ Recent' = Recent
  BY <1>1, <1>3 DEF IInv, Bounded, Recent, RecentCalls
<1>6. SpentIsSpent'
  BY <1>3, <1>4 DEF IInv, SpentIsSpent
<1>7. ASSUME solo PROVE \A d \in Callers : call'[d] = Idle
  <2>1. call[c] # Idle
    BY <1>1, <1>3
  <2> QED
    BY <1>4, <1>7, <2>1 DEF IInv, SoloIsAlone
<1>8. SoloIsAlone'
  BY <1>1, <1>7 DEF SoloIsAlone
<1>9. ASSUME edited \subseteq edited', 1..ids \subseteq 1..ids' PROVE LoadedWhole'
  <2>1. LoadedWhole
    BY DEF IInv
  <2> QED
    BY <1>3, <1>4, <1>9, <2>1 DEF LoadedWhole, Whole
<1>10. CASE UNCHANGED <<rows, live, ids, edits, edited>>
  <2>1. RestOK' /\ Bounded'
    BY <1>1, <1>2, <1>5, <1>10 DEF RestOK, IInv, Bounded
  <2>2. TypeOK'
    BY <2>1, BoundedIsTyped, PTL
  <2>3. GrantIsWhole' /\ OneRowPerType' /\ SpentIsGone' /\ ConnectedHasToken'
    BY <1>1, <1>10
       DEF IInv, GrantIsWhole, OneRowPerType, SpentIsGone, ConnectedHasToken
  <2>4. LoadedWhole'
    BY <1>9, <1>10
  <2> QED
    BY <1>6, <1>8, <2>1, <2>2, <2>3, <2>4 DEF IInv
<1>11. CASE ~Conflicts
  <2> DEFINE k == ids + 1
  <2>1. PICK st \in Statuses, se \in {0, 1} :
          /\ edits' = IF st = "disconnected" /\ se = 0 THEN edits ELSE edits + 1
          /\ edits' <= MaxEdits /\ ids' = k
          /\ rows' = [rows EXCEPT ![k] = NewRow(st, se)]
          /\ live' = live \cup {k}
          /\ edited' = IF st = "disconnected" THEN edited ELSE edited \cup {k}
    BY <1>11 DEF CommitCreate
  <2> DEFINE r == NewRow(st, se)
  <2>2. /\ r \in Recent /\ r.access = None /\ r.refresh = None /\ r.expires = None
        /\ r.config.state = None /\ r.status = st
    BY <1>2, GoneIsRecent
  <2>3. live = {}
    BY <1>11 DEF Conflicts
  <2>4. /\ k \in 1..MaxIds /\ 1..ids \subseteq 1..k /\ k \notin 1..ids
        /\ \A j \in 1..k : j = k \/ j \in 1..ids
        /\ \A j \in 1..ids : j \in 1..MaxIds
    BY <1>1, <1>2, BoundsAreNat DEF RestOK
  <2>5. edits' \in 0..MaxEdits
    BY <1>2, <2>1, BoundsAreNat DEF RestOK
  <2>6. k \in 0..MaxIds /\ k \in 1..k
    BY <1>1, <1>2, BoundsAreNat DEF RestOK
  <2> HIDE DEF k, r
  <2>7. rows' = [rows EXCEPT ![k] = r]
    BY <2>1 DEF r
  <2>8. rows'[k] = r /\ \A j \in 1..ids : rows'[j] = rows[j]
    BY <2>4, <2>7 DEF IInv, Bounded
  <2>9. RestOK'
    <3>1. ids' \in 0..MaxIds /\ live' \subseteq 1..ids' /\ edited' \subseteq 1..MaxIds
      BY <1>2, <2>1, <2>3, <2>4, <2>6 DEF RestOK
    <3> QED
      BY <1>1, <1>2, <2>5, <3>1 DEF RestOK
  <2>10. Bounded'
    BY <1>5, <2>2, <2>4, <2>7 DEF IInv, Bounded
  <2>11. TypeOK'
    BY <2>9, <2>10, BoundedIsTyped, PTL
  <2>12. edited \subseteq edited'
    BY <2>1
  <2>13. GrantIsWhole'
    <3>1. ids' = k
      BY <2>1
    <3> QED
      BY <2>2, <2>4, <2>8, <2>12, <3>1 DEF IInv, GrantIsWhole
  <2>14. LoadedWhole'
    BY <1>9, <2>1, <2>4, <2>12
  <2>15. OneRowPerType'
    BY <2>1, <2>3 DEF OneRowPerType
  <2>16. SpentIsGone'
    <3>1. None \notin spent'
      BY <1>1, <1>2 DEF RestOK, None
    <3> QED
      BY <2>1, <2>2, <2>3, <2>8, <3>1 DEF SpentIsGone
  <2>17. ConnectedHasToken'
    <3> SUFFICES ASSUME solo
                 PROVE  /\ ~undone'
                        /\ \A j \in (1..k) \ edited' :
                              rows'[j].status = "connected" => rows'[j].access # None
      BY <1>1, <2>1 DEF ConnectedHasToken
    <3>1. ~undone'
      BY <1>1 DEF IInv, ConnectedHasToken
    <3>2. ASSUME NEW j \in (1..k) \ edited', rows'[j].status = "connected"
          PROVE  rows'[j].access # None
      <4>1. CASE j = k
        BY <2>1, <2>2, <2>8, <3>2, <4>1
      <4>2. CASE j \in 1..ids
        BY <2>8, <2>12, <3>2, <4>2 DEF IInv, ConnectedHasToken
      <4> QED
        BY <2>4, <4>1, <4>2
    <3> QED
      BY <3>1, <3>2
  <2> QED
    BY <1>6, <1>8, <2>10, <2>11, <2>13, <2>14, <2>15, <2>16, <2>17 DEF IInv
<1> QED
  BY <1>10, <1>11 DEF CommitCreate

\* Who looks for a row and finds none has read nothing.
LEMMA ReadCreateIInv == ASSUME IInv, NEW c \in Callers, ReadCreate(c) PROVE IInv'
<1> DEFINE new == [call[c] EXCEPT !.step = "create"]
<1>1. /\ MayCall(c) /\ call' = [call EXCEPT ![c] = new]
      /\ UNCHANGED <<rows, live, ids, states, grants, edits, past, solo, edited, spent, undone>>
  BY DEF ReadCreate, counters, history
<1>2. RestOK
  BY IInvIsTyped
<1>3. new \in RecentCalls /\ new.step = "create"
  BY DEF IInv, Bounded, RecentCalls, Steps
<1> HIDE DEF new
<1>4. call'[c] = new /\ \A d \in Callers \ {c} : call'[d] = call[d]
  BY <1>1 DEF IInv, Bounded
<1>5. RestOK' /\ Bounded'
  BY <1>1, <1>2, <1>3 DEF RestOK, IInv, Bounded, Recent, RecentCalls
<1>6. TypeOK'
  BY <1>5, BoundedIsTyped, PTL
<1>7. GrantIsWhole' /\ OneRowPerType' /\ SpentIsGone' /\ ConnectedHasToken'
  BY <1>1 DEF IInv, GrantIsWhole, OneRowPerType, SpentIsGone, ConnectedHasToken
<1>8. LoadedWhole'
  <2>1. ids' = ids /\ edited' = edited /\ new.step \notin AboutRow
    BY <1>1, <1>3 DEF AboutRow
  <2>2. LoadedWhole
    BY DEF IInv
  <2> QED
    BY <1>3, <1>4, <2>1, <2>2 DEF LoadedWhole, Whole
<1>9. SpentIsSpent'
  BY <1>3, <1>4 DEF IInv, SpentIsSpent
<1>10. SoloIsAlone'
  <2> SUFFICES ASSUME solo, NEW d \in Callers, call'[d] # Idle
               PROVE  /\ \A e \in Callers \ {d} : call'[e] = Idle
                      /\ call'[d].step \notin AboutRow
    BY <1>1 DEF SoloIsAlone
  <2>1. \A e \in Callers : call[e] = Idle
    BY <1>1 DEF MayCall
  <2>2. d = c
    BY <1>4, <2>1
  <2> QED
    BY <1>3, <1>4, <2>1, <2>2 DEF AboutRow
<1> QED
  BY <1>5, <1>6, <1>7, <1>8, <1>9, <1>10 DEF IInv

\* Time passes and changes no row.
LEMMA PassIInv == ASSUME IInv, Pass PROVE IInv'
<1>1. UNCHANGED <<rows, live, ids, states, grants, edits, call, solo, edited, spent, undone>>
  BY DEF Pass, counters, history
<1>2. RestOK
  BY IInvIsTyped
<1>3. 1..states \subseteq 1..MaxStates /\ 1..grants \subseteq 1..MaxGrants
  BY <1>2, BoundsAreNat DEF RestOK
<1>4. past' \subseteq ({"state"} \X (1..MaxStates)) \cup ({"token"} \X (1..MaxGrants))
  BY <1>2, <1>3 DEF RestOK, Pass
<1>5. RestOK' /\ Bounded'
  BY <1>1, <1>2, <1>4 DEF RestOK, IInv, Bounded, Recent, RecentCalls
<1>6. TypeOK'
  BY <1>5, BoundedIsTyped, PTL
<1>7. GrantIsWhole' /\ OneRowPerType' /\ SpentIsGone' /\ ConnectedHasToken'
  BY <1>1 DEF IInv, GrantIsWhole, OneRowPerType, SpentIsGone, ConnectedHasToken
<1>8. LoadedWhole' /\ SpentIsSpent' /\ SoloIsAlone'
  BY <1>1 DEF IInv, LoadedWhole, Whole, SpentIsSpent, SoloIsAlone
<1> QED
  BY <1>5, <1>6, <1>7, <1>8 DEF IInv

-----------------------------------------------------------------------------
\* Every step keeps the invariant.
LEMMA StepIInv == IInv /\ [Next]_vars => IInv'
<1> SUFFICES ASSUME IInv, [Next]_vars PROVE IInv'
  OBVIOUS
<1>1. CASE Pass
  BY <1>1, PassIInv
<1>2. ASSUME NEW c \in Callers, ReadCreate(c) PROVE IInv'
  BY <1>2, ReadCreateIInv
<1>3. ASSUME NEW c \in Callers, NEW i \in live, ReadPlain(c, i) PROVE IInv'
  <2>1. PICK step \in {"start", "revoke", "patch", "delete"} : Decide(c, i, step, FALSE)
    BY <1>3 DEF ReadPlain
  <2>2. step \in AboutRow /\ step # "grant" /\ step # "test ok"
    BY DEF AboutRow, Steps
  <2> QED
    BY <2>1, <2>2, Reads
<1>4. ASSUME NEW c \in Callers, NEW i \in live, ReadRefresh(c, i) PROVE IInv'
  <2>1. Decide(c, i, "refresh", FALSE) /\ "refresh" \in AboutRow
    BY <1>4 DEF ReadRefresh, AboutRow, Steps
  <2> QED
    BY <2>1, Reads
<1>5. ASSUME NEW c \in Callers, NEW i \in live, ReadTest(c, i) PROVE IInv'
  <2>1. CASE Passes(rows[i])
    <3>1. Decide(c, i, "test ok", FALSE) /\ "test ok" \in AboutRow /\ rows[i].access # None
      BY <1>5, <2>1 DEF ReadTest, Passes, AboutRow, Steps
    <3> QED
      BY <3>1, Reads
  <2>2. CASE ~Passes(rows[i])
    <3>1. Decide(c, i, "test failed", FALSE) /\ "test failed" \in AboutRow
      BY <1>5, <2>2 DEF ReadTest, AboutRow, Steps
    <3> QED
      BY <3>1, Reads
  <2> QED
    BY <2>1, <2>2
<1>6. ASSUME NEW c \in Callers, NEW i \in live, NEW s \in 1..states, ReadCallback(c, i, s)
      PROVE  IInv'
  <2>1. CASE Decide(c, i, "expire", FALSE)
    <3>1. "expire" \in AboutRow
      BY DEF AboutRow, Steps
    <3> QED
      BY <2>1, <3>1, Reads
  <2>2. CASE rows[i].config.state # None /\ rows[i].config.state = s
             /\ Decide(c, i, "grant", s \in spent)
    <3>1. s \notin spent /\ "grant" \in AboutRow
      BY <2>2 DEF IInv, SpentIsGone, AboutRow, Steps
    <3>2. (s \in spent) = FALSE
      BY <3>1
    <3>3. Decide(c, i, "grant", FALSE)
      BY <2>2, <3>2
    <3> QED
      BY <2>2, <3>1, <3>3, Reads
  <2> QED
    BY <1>6, <2>1, <2>2 DEF ReadCallback
<1>7. ASSUME NEW c \in Callers, Read(c) PROVE IInv'
  BY <1>2, <1>3, <1>4, <1>5, <1>6, <1>7 DEF Read
<1>8. ASSUME NEW c \in Callers, Commit(c) PROVE IInv'
  BY <1>8, StartIInv, GrantIInv, ExpireIInv, RefreshIInv, RevokeIInv, TestIInv,
     PatchIInv, CreateIInv, DeleteIInv DEF Commit
<1>9. CASE UNCHANGED vars
  <2>1. UNCHANGED <<rows, live, ids, states, grants, edits, past, call, solo, edited, spent, undone>>
    BY <1>9 DEF vars, counters, history
  <2>2. TypeOK' /\ Bounded'
    BY <2>1 DEF IInv, TypeOK, Bounded, Recent, RecentCalls
  <2>3. GrantIsWhole' /\ OneRowPerType' /\ SpentIsGone' /\ ConnectedHasToken'
    BY <2>1 DEF IInv, GrantIsWhole, OneRowPerType, SpentIsGone, ConnectedHasToken
  <2>4. LoadedWhole' /\ SpentIsSpent' /\ SoloIsAlone'
    BY <2>1 DEF IInv, LoadedWhole, Whole, SpentIsSpent, SoloIsAlone
  <2> QED
    BY <2>2, <2>3, <2>4 DEF IInv
<1> QED
  BY <1>1, <1>7, <1>8, <1>9 DEF Next

\* So it holds throughout.
LEMMA Invariance == Spec => []IInv
BY InitIInv, StepIInv, PTL DEF Spec

-----------------------------------------------------------------------------
\* However the calls of any number of clients overlap, a tenant has at most
\* one row for the provider type, its two tokens are of one grant, and so is
\* its expiry unless somebody has set it.
THEOREM RowIsOnePiece == Spec => []RowsConsistent
<1>1. IInv => RowsConsistent
  BY DEF IInv, RowsConsistent
<1> QED
  BY <1>1, Invariance, PTL

\* No callback gets past its check with a state whose callback was committed
\* before it read, whatever the other clients write into config_json meanwhile.
THEOREM SpentStaysSpent == Spec => []SpentIsSpent
<1>1. IInv => SpentIsSpent
  BY DEF IInv
<1> QED
  BY <1>1, Invariance, PTL

\* Clients that wait for each other never see a revoke undone, nor a provider
\* shown as connected without a token.
THEOREM ConnectedMeansToken == Spec => []ConnectedHasToken
<1>1. IInv => ConnectedHasToken
  BY DEF IInv
<1> QED
  BY <1>1, Invariance, PTL

-----------------------------------------------------------------------------
\* A client that is alone and means to keep the settings keeps them.
LEMMA WriteKeeps ==
    ASSUME IInv, solo, NEW c \in Callers, call[c].step \in AboutRow,
           NEW target, Write(c, target), NEW i \in live,
           target.config.settings = call[c].loaded.config.settings
    PROVE  rows'[i].config.settings = rows[i].config.settings
<1> DEFINE k == call[c].id
           loaded == call[c].loaded
<1>1. k \in live /\ loaded = rows[k] /\ loaded \in Recent
  BY Loaded
<1>2. i = k /\ k \in 1..MaxIds
  BY <1>1, IInvIsTyped, IdsAreBounded DEF IInv, OneRowPerType, RestOK
<1>3. rows' = [rows EXCEPT ![k] = Flushed(rows[k], loaded, target)]
  BY <1>1 DEF Write
<1>4. rows'[k] = Flushed(rows[k], loaded, target)
  BY <1>2, <1>3 DEF IInv, Bounded
<1>5. "config" \in DOMAIN rows[k]
  BY <1>1 DEF Recent
<1>6. rows'[k].config = IF target.config = loaded.config THEN rows[k].config ELSE target.config
  BY <1>4, <1>5 DEF Flushed
<1> QED
  BY <1>1, <1>2, <1>6

\* Of all commits only an update changes the settings of a row that stays.
LEMMA CommitKeeps ==
    ASSUME IInv, solo, NEW c \in Callers, Commit(c), NEW i \in live, i \in live',
           rows'[i].config.settings # rows[i].config.settings
    PROVE  call[c].step = "patch" /\ call[c].id = i
<1> DEFINE loaded == call[c].loaded
           Keeps(target) == target.config.settings = loaded.config.settings
<1>1. RestOK /\ i \in 1..MaxIds
  BY IInvIsTyped, IdsAreBounded DEF RestOK
<1>2. ASSUME call[c].step \in AboutRow, NEW target, Write(c, target), Keeps(target)
      PROVE  FALSE
  BY <1>2, WriteKeeps
<1>3. ASSUME call[c].step \in AboutRow
      PROVE  /\ \A s : Keeps(Started(loaded, s))
             /\ \A n : Keeps(Granted(loaded, n)) /\ Keeps(WithTokens(loaded, n))
             /\ Keeps(Expired(loaded)) /\ Keeps(Revoked(loaded))
             /\ \A p \in BOOLEAN : Keeps(Tested(loaded, p))
  <2>1. loaded \in Recent
    BY <1>3, Loaded
  <2> HIDE DEF loaded
  <2>2. \A s : Keeps(Started(loaded, s))
    BY <2>1 DEF Started, Recent
  <2>3. \A n : Keeps(Granted(loaded, n)) /\ Keeps(WithTokens(loaded, n))
    BY <2>1 DEF Granted, WithTokens, Cleared, Recent
  <2>4. Keeps(Expired(loaded)) /\ Keeps(Revoked(loaded))
    BY <2>1 DEF Expired, Revoked, Cleared, Recent
  <2>5. \A p \in BOOLEAN : Keeps(Tested(loaded, p))
    BY <2>1 DEF Tested, Recent
  <2> QED
    BY <2>2, <2>3, <2>4, <2>5
<1> HIDE DEF Keeps
<1>4. CASE CommitStart(c)
  BY <1>2, <1>3, <1>4 DEF CommitStart, Commits, AboutRow, Steps
<1>5. CASE CommitGrant(c)
  BY <1>2, <1>3, <1>5 DEF CommitGrant, Commits, AboutRow, Steps
<1>6. CASE CommitExpire(c)
  BY <1>2, <1>3, <1>6 DEF CommitExpire, Commits, AboutRow, Steps
<1>7. CASE CommitRefresh(c)
  BY <1>2, <1>3, <1>7 DEF CommitRefresh, Commits, AboutRow, Steps
<1>8. CASE CommitRevoke(c)
  BY <1>2, <1>3, <1>8 DEF CommitRevoke, Commits, AboutRow, Steps
<1>9. CASE CommitTest(c)
  BY <1>2, <1>3, <1>9 DEF CommitTest, Commits, AboutRow, Steps
<1>10. CASE CommitPatch(c)
  <2>1. call[c].step = "patch" /\ call[c].step \in AboutRow
    BY <1>10 DEF CommitPatch, Commits, AboutRow, Steps
  <2>2. call[c].id \in live
    BY <2>1, Loaded
  <2> QED
    BY <2>1, <2>2 DEF IInv, OneRowPerType
<1>11. CASE CommitCreate(c)
  BY <1>11 DEF CommitCreate, Conflicts
<1>12. CASE CommitDelete(c)
  BY <1>1, <1>12 DEF CommitDelete, IInv, Bounded
<1> QED
  BY <1>4, <1>5, <1>6, <1>7, <1>8, <1>9, <1>10, <1>11, <1>12 DEF Commit

\* As long as clients wait for each other, only an update of the row changes
\* the tenant's own settings: the OAuth flow, which keeps its state in the
\* same column, gives them back as it has read them.
THEOREM FlowKeepsSettings == Spec => SettingsKept
<1> DEFINE Kept == \A i \in live \cap live' :
                     solo /\ rows'[i].config.settings # rows[i].config.settings =>
                       \E c \in Callers : call[c].step = "patch" /\ call[c].id = i
<1>1. ASSUME IInv, Next PROVE Kept
  <2>1. CASE rows' = rows
    BY <2>1
  <2>2. CASE \E c \in Callers : Commit(c)
    BY <1>1, <2>2, CommitKeeps
  <2>3. ASSUME NEW c \in Callers, Read(c) PROVE rows' = rows
    BY <2>3 DEF Read, ReadCreate, ReadPlain, ReadRefresh, ReadTest, ReadCallback, Decide
  <2>4. Pass => rows' = rows
    BY DEF Pass
  <2> QED
    BY <1>1, <2>1, <2>2, <2>3, <2>4 DEF Next
<1>2. IInv /\ [Next]_vars => [Kept]_vars
  BY <1>1
<1> QED
  BY <1>2, Invariance, PTL DEF Spec, SettingsKept

=============================================================================

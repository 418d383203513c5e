--------------------------- MODULE ProviderOAuth ---------------------------
(***************************************************************************)
(* The provider settings of a tenant for one provider type, and their OAuth *)
(* flow: create, update, delete, start, callback, refresh, revoke and       *)
(* test-connection (saas/service.py).                                       *)
(*                                                                          *)
(* Every call reads the row, decides on what it has read, and commits the   *)
(* columns it changed (OrmSession); the calls of several clients overlap.   *)
(* The state of an OAuth flow is kept inside the JSON column config_json,   *)
(* next to the tenant's own settings, and is written with them.  A call     *)
(* that is refused without a change to the row ends where it reads it and   *)
(* is not seen here; audit events are left out.                             *)
(***************************************************************************)
EXTENDS Naturals, FiniteSets, OrmSession

CONSTANTS
    Callers,    \* clients, each with one call at a time
    MaxIds,     \* bound: rows created
    MaxStates,  \* bound: OAuth flows started
    MaxGrants,  \* bound: token pairs issued, by a callback or a refresh
    MaxEdits,   \* bound: rows created or updated with values of their own
    MaxPast     \* bound: states and tokens that expire

ASSUME BoundsAreNat ==
    /\ MaxIds \in Nat /\ MaxStates \in Nat /\ MaxGrants \in Nat
    /\ MaxEdits \in Nat /\ MaxPast \in Nat

VARIABLES
    rows,    \* ProviderConfig rows, by id
    live,    \* the ids that are not deleted
    ids,     \* rows created so far
    states,  \* OAuth states issued so far
    grants,  \* token pairs issued so far
    edits,   \* updates, and creations with values of their own, so far
    past,    \* OAuth states and token expiries that have passed
    call,    \* the call of each client
    solo,    \* do the clients wait for each other
    edited,  \* rows whose status or expiry was set by hand
    spent,   \* states that have bought tokens
    undone   \* a revoke was answered with a row that is not disconnected

counters == <<ids, states, grants, edits>>
history == <<edited, spent, undone>>
vars == <<rows, live, counters, past, call, solo, history>>

-----------------------------------------------------------------------------
None == 0
Statuses == {"connected", "disconnected", "error"}
Errors == {"none", "state expired", "test failed"}

\* A token pair is the number of its grant, an expiry that of the grant it was
\* set for, a state the number of its flow; None is NULL or a missing key.
Configs == [state : 0..MaxStates, settings : {0, 1}]
Rows == [status : Statuses, config : Configs, access : 0..MaxGrants,
         refresh : 0..MaxGrants, expires : 0..MaxGrants, error : Errors]

NewRow(status, settings) ==
    [status |-> status, config |-> [state |-> None, settings |-> settings],
     access |-> None, refresh |-> None, expires |-> None, error |-> "none"]

\* What an id without a row stands for.
Gone == NewRow("disconnected", 0)

\* Mutants: start drops the settings; the callback keeps the state; a refresh
\* keeps the refresh token; a revoke keeps the status.
StartedAfresh(r, s) == [r EXCEPT !.config = [state |-> s, settings |-> 0]]
ClearedNot(config) == config
WithAccessOnly(r, n) ==
    [r EXCEPT !.access = n, !.status = "connected",
              !.expires = n, !.error = "none"]
RevokedStillConnected(r) ==
    [r EXCEPT !.config.state = None, !.access = None, !.refresh = None,
              !.expires = None, !.error = "none"]

\* What the calls do to the row they have read.
Cleared(config) == [config EXCEPT !.state = None]
Started(r, s) == [r EXCEPT !.config.state = s]
WithTokens(r, n) ==
    [r EXCEPT !.access = n, !.refresh = n, !.status = "connected",
              !.expires = n, !.error = "none"]
Granted(r, n) == [WithTokens(r, n) EXCEPT !.config = Cleared(@)]
Expired(r) == [r EXCEPT !.config = Cleared(@), !.status = "error",
                        !.error = "state expired"]
Revoked(r) ==
    [r EXCEPT !.config = Cleared(@), !.access = None, !.refresh = None,
              !.status = "disconnected", !.expires = None, !.error = "none"]

\* test_provider_connection on a row: disconnected, expired or without a
\* token it fails; the status of a disconnected provider is left alone.
HasLapsed(r) == r.expires # None /\ <<"token", r.expires>> \in past
Passes(r) == r.status # "disconnected" /\ r.access # None /\ ~HasLapsed(r)
Tested(r, passed) ==
    IF passed
    THEN [r EXCEPT !.status = "connected", !.error = "none"]
    ELSE [r EXCEPT !.status = IF @ = "disconnected" THEN @ ELSE "error",
                   !.error = "test failed"]

\* A PATCH of one field: the status, the config as a whole (internal keys
\* included), the expiry, or the error.  Fields that come together do what
\* they do one by one; a change of provider_type is left out.  The code would
\* store internal keys a client sends, but GET shows it none and it sends none.
Patched(r) ==
    {[r EXCEPT !.status = s] : s \in Statuses}
      \cup {[r EXCEPT !.config = [state |-> None, settings |-> x]] : x \in {0, 1}}
      \cup {[r EXCEPT !.expires = e] : e \in 0..grants}
      \cup {[r EXCEPT !.error = "none"]}

-----------------------------------------------------------------------------
\* What a call is going to commit, the row it is about and has read, and
\* whether the state it presented had already bought tokens.
Steps == {"idle", "create", "patch", "delete", "start", "grant", "expire",
          "refresh", "revoke", "test ok", "test failed"}
Idle == [step |-> "idle", id |-> None, loaded |-> Gone, late |-> FALSE]

Init ==
    /\ rows = [i \in 1..MaxIds |-> Gone]
    /\ live = {}
    /\ ids = 0 /\ states = 0 /\ grants = 0 /\ edits = 0
    /\ past = {}
    /\ call = [c \in Callers |-> Idle]
    /\ solo \in BOOLEAN
    /\ edited = {} /\ spent = {} /\ undone = FALSE

MayCall(c) ==
    /\ call[c] = Idle
    /\ solo => \A d \in Callers : call[d] = Idle

\* A call reads its row, which must exist, and has decided what to commit.
Decide(c, i, step, late) ==
    /\ MayCall(c)
    /\ call' = [call EXCEPT ![c] = [step |-> step, id |-> i,
                                    loaded |-> rows[i], late |-> late]]
    /\ UNCHANGED <<rows, live, counters, past, solo, history>>

\* Start, revoke, update and delete read the row and look no further.
ReadPlain(c, i) ==
    \E step \in {"start", "revoke", "patch", "delete"} : Decide(c, i, step, FALSE)

\* complete_provider_oauth_callback: no stored state or another one than the
\* one presented ends the call; one that has expired is cleared first.
ReadCallback(c, i, s) ==
    LET stored == rows[i].config.state IN
    /\ stored # None
    /\ \/ <<"state", stored>> \in past /\ Decide(c, i, "expire", FALSE)
       \/ /\ <<"state", stored>> \notin past /\ stored = s
          /\ Decide(c, i, "grant", s \in spent)

\* refresh_provider_oauth needs a refresh token.
ReadRefresh(c, i) ==
    rows[i].refresh # None /\ Decide(c, i, "refresh", FALSE)

ReadTest(c, i) ==
    Decide(c, i, IF Passes(rows[i]) THEN "test ok" ELSE "test failed", FALSE)

\* create_provider_config looks for a row of the type first.
ReadCreate(c) ==
    /\ MayCall(c) /\ live = {}
    /\ call' = [call EXCEPT ![c].step = "create"]
    /\ UNCHANGED <<rows, live, counters, past, solo, history>>

-----------------------------------------------------------------------------
Commits(c, step) == call[c].step = step /\ call' = [call EXCEPT ![c] = Idle]

\* The commit writes the changed columns; updated_at is always one, so on a row
\* that was deleted meanwhile the UPDATE matches nothing and the call raises.
Write(c, target) ==
    LET i == call[c].id IN
    rows' = IF i \in live
            THEN [rows EXCEPT ![i] = Flushed(@, call[c].loaded, target)]
            ELSE rows

CommitStart(c) ==
    /\ Commits(c, "start") /\ states < MaxStates
    /\ states' = states + 1
    /\ Write(c, Started(call[c].loaded, states + 1))
    /\ UNCHANGED <<live, ids, grants, edits, past, solo, history>>

CommitGrant(c) ==
    /\ Commits(c, "grant") /\ grants < MaxGrants
    /\ grants' = grants + 1
    /\ Write(c, Granted(call[c].loaded, grants + 1))
    /\ spent' = IF call[c].id \in live
                THEN spent \cup {call[c].loaded.config.state} ELSE spent
    /\ UNCHANGED <<live, ids, states, edits, past, solo, edited, undone>>

CommitExpire(c) ==
    /\ Commits(c, "expire")
    /\ Write(c, Expired(call[c].loaded))
    /\ UNCHANGED <<live, counters, past, solo, history>>

CommitRefresh(c) ==
    /\ Commits(c, "refresh") /\ grants < MaxGrants
    /\ grants' = grants + 1
    /\ Write(c, WithTokens(call[c].loaded, grants + 1))
    /\ UNCHANGED <<live, ids, states, edits, past, solo, history>>

Disconnected(r) == r.status = "disconnected" /\ r.access = None /\ r.refresh = None

\* The answer shows the row as it is after the commit.
CommitRevoke(c) ==
    /\ Commits(c, "revoke")
    /\ Write(c, Revoked(call[c].loaded))
    /\ undone' = (undone \/ (call[c].id \in live /\ ~Disconnected(rows'[call[c].id])))
    /\ UNCHANGED <<live, counters, past, solo, edited, spent>>

CommitTest(c) ==
    /\ \/ Commits(c, "test ok") /\ Write(c, Tested(call[c].loaded, TRUE))
       \/ Commits(c, "test failed") /\ Write(c, Tested(call[c].loaded, FALSE))
    /\ UNCHANGED <<live, counters, past, solo, history>>

CommitPatch(c) ==
    /\ Commits(c, "patch") /\ edits < MaxEdits
    /\ edits' = edits + 1
    /\ \E target \in Patched(call[c].loaded) :
         /\ Write(c, target)
         /\ edited' = IF target.status # call[c].loaded.status
                           \/ target.expires # call[c].loaded.expires
                      THEN edited \cup {call[c].id} ELSE edited
    /\ UNCHANGED <<live, ids, states, grants, past, solo, spent, undone>>

\* A second DELETE of the same row matches nothing and is answered all the same.
CommitDelete(c) ==
    /\ Commits(c, "delete")
    /\ live' = live \ {call[c].id}
    /\ rows' = [rows EXCEPT ![call[c].id] = Gone]
    /\ UNCHANGED <<counters, past, solo, history>>

\* uq_saas_provider_configs_tenant_provider
Conflicts == live # {}

\* The INSERT conflicts with a row that was created meanwhile.
CommitCreate(c) ==
    /\ Commits(c, "create") /\ ids < MaxIds
    /\ IF Conflicts
       THEN UNCHANGED <<rows, live, ids, edits, edited>>
       ELSE \E status \in Statuses, settings \in {0, 1} :
              /\ edits' = IF status = "disconnected" /\ settings = 0 THEN edits
                          ELSE edits + 1
              /\ edits' <= MaxEdits
              /\ ids' = ids + 1
              /\ rows' = [rows EXCEPT ![ids + 1] = NewRow(status, settings)]
              /\ live' = live \cup {ids + 1}
              /\ edited' = IF status = "disconnected" THEN edited
                           ELSE edited \cup {ids + 1}
    /\ UNCHANGED <<states, grants, past, solo, spent, undone>>

\* Time passes.
Pass ==
    /\ Cardinality(past) < MaxPast
    /\ \/ \E s \in 1..states : past' = past \cup {<<"state", s>>}
       \/ \E n \in 1..grants : past' = past \cup {<<"token", n>>}
    /\ UNCHANGED <<rows, live, counters, call, solo, history>>

-----------------------------------------------------------------------------
Read(c) ==
    \/ ReadCreate(c)
    \/ \E i \in live :
         \/ ReadPlain(c, i) \/ ReadRefresh(c, i) \/ ReadTest(c, i)
         \/ \E s \in 1..states : ReadCallback(c, i, s)

Commit(c) ==
    \/ CommitStart(c) \/ CommitGrant(c) \/ CommitExpire(c) \/ CommitRefresh(c)
    \/ CommitRevoke(c) \/ CommitTest(c) \/ CommitPatch(c)
    \/ CommitCreate(c) \/ CommitDelete(c)

Next == Pass \/ \E c \in Callers : Read(c) \/ Commit(c)

Spec == Init /\ [][Next]_vars

-----------------------------------------------------------------------------
(* Properties *)

Calls == [step : Steps, id : 0..MaxIds, loaded : Rows, late : BOOLEAN]

TypeOK ==
    /\ rows \in [1..MaxIds -> Rows]
    /\ ids \in 0..MaxIds /\ live \subseteq 1..ids
    /\ states \in 0..MaxStates /\ grants \in 0..MaxGrants /\ edits \in 0..MaxEdits
    /\ past \subseteq ({"state"} \X (1..MaxStates)) \cup ({"token"} \X (1..MaxGrants))
    /\ call \in [Callers -> Calls]
    /\ solo \in BOOLEAN
    /\ edited \subseteq 1..MaxIds /\ spent \subseteq 1..MaxStates
    /\ undone \in BOOLEAN

\* However callbacks, refreshes, revokes and edits overlap, the access and the
\* refresh token of a row come from one grant, and so does its expiry unless
\* somebody has set it: a commit writes all of them or none.
GrantIsWhole ==
    \A i \in 1..ids :
        /\ rows[i].access = rows[i].refresh
        /\ i \notin edited => rows[i].expires = rows[i].access

\* Once a callback has committed, its state buys no more: a callback that reads
\* the row afterwards is refused, and no call with an old copy of config_json
\* brings the state back.  Two callbacks that both read before either commits
\* are both let in; that is outside this.
SpentIsSpent ==
    \A c \in Callers : call[c].step = "grant" => ~call[c].late

\* A tenant has one row for the provider type, although two creations may both
\* have looked for one and found none.
OneRowPerType == \A i, j \in live : i = j

\* A provider row of the tenant is one piece, whatever overlaps.
RowsConsistent == TypeOK /\ GrantIsWhole /\ OneRowPerType

\* As long as clients wait for each other a revoke leaves no token behind and,
\* unless somebody sets the status by hand, a provider shown as connected has
\* a token to collect with.  (A revoke that read the row before a callback
\* committed writes nothing: it assigns None to columns that were NULL.)
ConnectedHasToken ==
    solo =>
        /\ ~undone
        /\ \A i \in (1..ids) \ edited :
              rows[i].status = "connected" => rows[i].access # None

\* Under the same condition the OAuth flow, which writes into the tenant's
\* config, leaves the tenant's own settings in it alone.
SettingsKept ==
    [][\A i \in live \cap live' :
         solo /\ rows'[i].config.settings # rows[i].config.settings =>
           \E c \in Callers : call[c].step = "patch" /\ call[c].id = i]_vars
=============================================================================

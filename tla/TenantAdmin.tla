---------------------------- MODULE TenantAdmin ----------------------------
(***************************************************************************)
(* Tenants, their first users and their API keys (saas/service.py           *)
(* bootstrap_tenant, bootstrap_tenant_admin_user, create_api_key,           *)
(* rotate_api_key, revoke_api_key; saas/auth.py).  Every request runs in a  *)
(* transaction of its own at READ COMMITTED: what it reads may change       *)
(* before it commits, and a row it inserts is seen by others only through   *)
(* the unique constraints until then.  The audit event of each operation is *)
(* a further row of its transaction and is left out.                        *)
(***************************************************************************)
EXTENDS Integers, FiniteSets, OrmSession

CONSTANTS
    Reqs,       \* requests; one names the tenant and the key it creates too
    First,      \* the tenant that exists at first, with its key
    Emails,     \* of users, normalized
    Passwords,
    None        \* a column without a value

ASSUME FirstIsNoRequest == First \notin Reqs
ASSUME ReqsAreFinite == IsFiniteSet(Reqs)
ASSUME NoneIsApart == None \notin Reqs \cup {First} \cup Emails \cup Passwords

Ids == Reqs \cup {First}

VARIABLES
    req,      \* what each request asks for, has read, and where it stands
    before,   \* of each request, the ones that had ended when it began
    slug,     \* of each tenant, 0 for none: 1 is acme, 2 acme-1, ...
    user,     \* password of each e-mail address, None for no user
    members,  \* rows [tenant, email, by]
    key,      \* API keys: rows [tenant, hash, revoked]
    issued    \* key material that has been in the table

rows == <<slug, user, members, key, issued>>
vars == <<req, before, rows>>

NoKey == [tenant |-> None, hash |-> None, revoked |-> FALSE]

Idle == [op |-> "none", pc |-> "idle", tenant |-> None, email |-> None,
         password |-> None, key |-> None, secret |-> None, row |-> NoKey,
         slug |-> 0, newUser |-> FALSE]

Init ==
    /\ req = [p \in Reqs |-> Idle]
    /\ before = [p \in Reqs |-> {}]
    /\ slug = [t \in Ids |-> IF t = First THEN 1 ELSE 0]
    /\ user = [e \in Emails |-> None]
    /\ members = {}
    /\ key = [k \in Ids |-> IF k = First THEN [tenant |-> First, hash |-> First, revoked |-> FALSE]
                            ELSE NoKey]
    /\ issued = {First}

Ended == {p \in Reqs : req[p].pc \in {"done", "refused"}}

\* resolve_tenant_id_from_api_key: the tenant a secret gives access to.
Accepts(k, s) == key[k].hash = s /\ ~key[k].revoked
Resolve(s) == IF \E k \in Ids : Accepts(k, s)
              THEN key[CHOOSE k \in Ids : Accepts(k, s)].tenant ELSE None

At(p, op, pc) == req[p].op = op /\ req[p].pc = pc
Refuse(p) == req' = [req EXCEPT ![p].pc = "refused"]

---------------------------------------------------------------------------
(* A request arrives.  The control plane's are let in by its own key; those *)
(* of a tenant by an API key, looked up in a transaction of its own.        *)

Begin(p, ask) ==
    /\ req[p].pc = "idle"
    /\ req' = [req EXCEPT ![p] = ask]
    /\ before' = [before EXCEPT ![p] = Ended]
    /\ UNCHANGED rows

AskTenant == [Idle EXCEPT !.op = "tenant", !.pc = "begun"]

AskAdmin(t, e, pw) ==
    [Idle EXCEPT !.op = "admin", !.pc = "begun", !.tenant = t, !.email = e, !.password = pw]

AskKey(op, s, k) ==
    [Idle EXCEPT !.op = op, !.pc = "begun", !.secret = s, !.key = k]

\* get_tenant_id.
Authenticate(p) ==
    /\ req[p].op \in {"create", "rotate", "revoke"} /\ req[p].pc = "begun"
    /\ LET t == Resolve(req[p].secret)
       IN  IF t = None THEN Refuse(p)
           ELSE req' = [req EXCEPT ![p].tenant = t, ![p].pc = "in"]
    /\ UNCHANGED <<before, rows>>

---------------------------------------------------------------------------
(* bootstrap_tenant. *)

\* unique_tenant_slug: the first candidate no tenant has.
PickSlug(p) ==
    /\ At(p, "tenant", "begun")
    /\ LET free == {n \in 1..Cardinality(Ids) : \A t \in Ids : slug[t] # n}
       IN  \E n \in free : /\ \A m \in free : n <= m
                           /\ req' = [req EXCEPT ![p].slug = n, ![p].pc = "picked"]
    /\ UNCHANGED <<before, rows>>

\* The flush waits for a transaction that has inserted the same slug.
InsertTenant(p) ==
    /\ At(p, "tenant", "picked")
    /\ \A q \in Reqs : At(q, "tenant", "flushed") => req[q].slug # req[p].slug
    /\ IF \E t \in Ids : slug[t] = req[p].slug
       THEN Refuse(p)
       ELSE req' = [req EXCEPT ![p].pc = "flushed"]
    /\ UNCHANGED <<before, rows>>

CommitTenant(p) ==
    /\ At(p, "tenant", "flushed")
    /\ slug' = [slug EXCEPT ![p] = req[p].slug]
    /\ key' = [key EXCEPT ![p] = [tenant |-> p, hash |-> p, revoked |-> FALSE]]
    /\ issued' = issued \cup {p}
    /\ req' = [req EXCEPT ![p].pc = "done"]
    /\ UNCHANGED <<before, user, members>>

---------------------------------------------------------------------------
(* bootstrap_tenant_admin_user. *)

NoCheck(t) == FALSE   \* mutant: the check for users is dropped
HasUsers(t) == \E m \in members : m.tenant = t

CheckTenant(p) ==
    /\ At(p, "admin", "begun")
    /\ IF slug[req[p].tenant] = 0 \/ HasUsers(req[p].tenant)
       THEN Refuse(p)
       ELSE req' = [req EXCEPT ![p].pc = "checked"]
    /\ UNCHANGED <<before, rows>>

FindUser(p) ==
    /\ At(p, "admin", "checked")
    /\ LET pw == user[req[p].email]
       IN  IF pw \notin {None, req[p].password} THEN Refuse(p)
           ELSE req' = [req EXCEPT ![p].newUser = (pw = None),
                                   ![p].pc = IF pw = None THEN "insert" ELSE "found"]
    /\ UNCHANGED <<before, rows>>

\* Mutant: the row that is there is taken.
TakeOver(p) == req' = [req EXCEPT ![p].newUser = FALSE, ![p].pc = "found"]
\* The INSERT meets the unique e-mail address: IntegrityError ends the request.
EmailTaken(p) == Refuse(p)

\* The flushed row is the transaction's own until it commits.
CommitUser(p) == user' = [user EXCEPT ![req[p].email] = req[p].password]   \* mutant
FlushUser(p) == UNCHANGED user

InsertUser(p) ==
    /\ At(p, "admin", "insert")
    /\ \A q \in Reqs \ {p} : At(q, "admin", "found") /\ req[q].newUser => req[q].email # req[p].email
    /\ IF user[req[p].email] # None
       THEN EmailTaken(p) /\ UNCHANGED user
       ELSE FlushUser(p) /\ req' = [req EXCEPT ![p].pc = "found"]
    /\ UNCHANGED <<before, slug, members, key, issued>>

\* The membership row and the audit event; the same membership may have been
\* inserted meanwhile.
CommitAdmin(p) ==
    /\ At(p, "admin", "found")
    /\ LET r == req[p]
       IN  IF \E m \in members : m.tenant = r.tenant /\ m.email = r.email
           THEN Refuse(p) /\ UNCHANGED <<user, members>>
           ELSE /\ user' = IF r.newUser THEN [user EXCEPT ![r.email] = r.password] ELSE user
                /\ members' = members \cup {[tenant |-> r.tenant, email |-> r.email, by |-> p]}
                /\ req' = [req EXCEPT ![p].pc = "done"]
    /\ UNCHANGED <<before, slug, key, issued>>

---------------------------------------------------------------------------
(* API keys of a tenant. *)

CreateKey(p) ==
    /\ At(p, "create", "in")
    /\ key' = [key EXCEPT ![p] = [tenant |-> req[p].tenant, hash |-> p, revoked |-> FALSE]]
    /\ issued' = issued \cup {p}
    /\ req' = [req EXCEPT ![p].pc = "done"]
    /\ UNCHANGED <<before, slug, user, members>>

\* The SELECT of rotate_api_key and revoke_api_key, and their refusals.
LoadKey(p) ==
    /\ req[p].op \in {"rotate", "revoke"} /\ req[p].pc = "in"
    /\ LET row == key[req[p].key]
       IN  IF row.tenant # req[p].tenant \/ (req[p].op = "rotate" /\ row.revoked)
           THEN Refuse(p)
           ELSE req' = [req EXCEPT ![p].row = row, ![p].pc = "loaded"]
    /\ UNCHANGED <<before, rows>>

\* Mutant: the UPDATE sets every column.
WholeRow(current, loaded, target) == target
Updated(current, loaded, target) == Flushed(current, loaded, target)

CommitKey(p) ==
    /\ req[p].pc = "loaded"
    /\ LET r == req[p]
           target == IF r.op = "rotate" THEN [r.row EXCEPT !.hash = p]
                     ELSE [r.row EXCEPT !.revoked = TRUE]
       IN  /\ key' = [key EXCEPT ![r.key] = Updated(key[r.key], r.row, target)]
           /\ issued' = IF r.op = "rotate" THEN issued \cup {p} ELSE issued
    /\ req' = [req EXCEPT ![p].pc = "done"]
    /\ UNCHANGED <<before, slug, user, members>>

\* A process that dies takes its open transaction along.
Crash(p) ==
    /\ req[p].pc \notin {"idle", "done", "refused"}
    /\ Refuse(p)
    /\ UNCHANGED <<before, rows>>

---------------------------------------------------------------------------

Handle(p) ==
    \/ Begin(p, AskTenant)
    \/ \E t \in Ids, e \in Emails, pw \in Passwords : Begin(p, AskAdmin(t, e, pw))
    \/ \E s \in issued : Begin(p, AskKey("create", s, None))
    \/ \E op \in {"rotate", "revoke"}, s \in issued, k \in Ids : Begin(p, AskKey(op, s, k))
    \/ Authenticate(p)
    \/ PickSlug(p) \/ InsertTenant(p) \/ CommitTenant(p)
    \/ CheckTenant(p) \/ FindUser(p) \/ InsertUser(p) \/ CommitAdmin(p)
    \/ CreateKey(p) \/ LoadKey(p) \/ CommitKey(p)
    \/ Crash(p)

Next == \E p \in Reqs : Handle(p)

Spec == Init /\ [][Next]_vars

---------------------------------------------------------------------------

Steps == {"idle", "begun", "in", "picked", "flushed", "checked", "insert", "found",
          "loaded", "done", "refused"}

TypeOK ==
    /\ \A p \in Reqs : req[p].pc \in Steps
    /\ before \in [Reqs -> SUBSET Reqs]
    /\ slug \in [Ids -> 0..Cardinality(Ids)]
    /\ user \in [Emails -> Passwords \cup {None}]
    /\ members \subseteq [tenant : Ids, email : Emails, by : Reqs]
    /\ key \in [Ids -> [tenant : Ids \cup {None}, hash : Ids \cup {None}, revoked : BOOLEAN]]
    /\ issued \subseteq Ids

\* What an administrator was told holds from then on: a revoked key opens
\* nothing, with whatever secret, and the secret a rotation replaced opens
\* nothing, however rotations and revocations of one row overlap.
ClosedStaysClosed ==
    \A p \in Reqs :
       /\ At(p, "revoke", "done") => \A s \in issued : ~Accepts(req[p].key, s)
       /\ At(p, "rotate", "done") => Resolve(req[p].row.hash) = None

\* Two requests that both made the first user of a tenant overlapped: once one
\* has ended, no later one succeeds.
FirstUserOnce ==
    \A m, n \in members :
       m # n /\ m.tenant = n.tenant => m.by \notin before[n.by] /\ n.by \notin before[m.by]

\* Nobody becomes an administrator under an e-mail address without the
\* password of its account, whoever created the account, and when.
MembersKnewPassword ==
    \A m \in members : user[m.email] # None /\ req[m.by].password = user[m.email]

\* No two tenants have one slug, every tenant was born with a key, and every
\* account belongs to a tenant: a request leaves all of its rows or none.
NothingHalfDone ==
    /\ TypeOK
    /\ \A t, u \in Ids : slug[t] # 0 /\ slug[t] = slug[u] => t = u
    /\ \A t \in Ids : slug[t] # 0 => key[t].tenant = t
    /\ \A e \in Emails : user[e] # None => \E m \in members : m.email = e
=============================================================================

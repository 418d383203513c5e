------------------------- MODULE TenantAdminProofs -------------------------
(***************************************************************************)
(* What TenantAdmin promises for any number of requests, e-mail addresses   *)
(* and passwords, in whatever order their transactions overlap.             *)
(*                                                                          *)
(* The argument: nothing is told of a request before it has ended, so the   *)
(* tables speak only of requests that are done (the Table parts); and what  *)
(* a request has read and will act upon when it commits is either still     *)
(* true then, or the statement that writes it cannot be harmed by the       *)
(* change (the Req parts).                                                  *)
(***************************************************************************)
EXTENDS TenantAdmin, FiniteSetTheorems, TLAPS

KeyRows == [tenant : Ids \cup {None}, hash : Ids \cup {None}, revoked : BOOLEAN]

Requests ==
    [op : {"none", "tenant", "admin", "create", "rotate", "revoke"}, pc : Steps,
     tenant : Ids \cup {None}, email : Emails \cup {None},
     password : Passwords \cup {None}, key : Ids \cup {None},
     secret : Ids \cup {None}, row : KeyRows,
     slug : 0..Cardinality(Ids), newUser : BOOLEAN]

\* A request carries the arguments its handler needs.
Asked(p) ==
    /\ req[p].op = "admin" =>
          req[p].tenant \in Ids /\ req[p].email \in Emails /\ req[p].password \in Passwords
    /\ req[p].op \in {"rotate", "revoke"} => req[p].key \in Ids
    /\ req[p].pc = "in" => req[p].tenant \in Ids

\* A flushed slug is nobody else's, committed or not.
SlugReq(p) ==
    /\ At(p, "tenant", "picked") => req[p].slug # 0
    /\ At(p, "tenant", "flushed") =>
          /\ req[p].slug # 0
          /\ \A t \in Ids : slug[t] # req[p].slug
          /\ \A q \in Reqs \ {p} : At(q, "tenant", "flushed") => req[q].slug # req[p].slug

\* A request past its check has not been preceded by a first user, and what it
\* found out about the account holds until it commits.
UserReq(p) ==
    /\ before[p] \subseteq Ended
    /\ req[p].op = "admin" /\ req[p].pc \in {"checked", "insert", "found"} =>
          \A m \in members : m.tenant = req[p].tenant => m.by \notin before[p]
    /\ At(p, "admin", "insert") => req[p].newUser
    /\ At(p, "admin", "found") =>
          user[req[p].email] = IF req[p].newUser THEN None ELSE req[p].password
    /\ At(p, "admin", "found") /\ req[p].newUser =>
          \A q \in Reqs \ {p} : At(q, "admin", "found") /\ req[q].newUser =>
                                   req[q].email # req[p].email

\* The hash a request has loaded is in no other row, now or later, and a row
\* it has seen revoked stays revoked.
KeyReq(p) ==
    /\ req[p].pc = "loaded" =>
          /\ req[p].op \in {"rotate", "revoke"}
          /\ req[p].row.hash \in issued
          /\ key[req[p].key].tenant # None
          /\ req[p].row.revoked => key[req[p].key].revoked
          /\ \A k \in Ids : key[k].hash = req[p].row.hash => k = req[p].key
    /\ At(p, "revoke", "done") => key[req[p].key].revoked /\ key[req[p].key].tenant # None
    /\ At(p, "rotate", "done") =>
          /\ req[p].row.hash \in issued
          /\ \A k \in Ids : key[k].hash # req[p].row.hash

Local(p) == Asked(p) /\ SlugReq(p) /\ UserReq(p) /\ KeyReq(p)

\* Slugs are unique, and a tenant other than the first was made by a request
\* that is done.
SlugTable ==
    /\ \A t, u \in Ids : slug[t] # 0 /\ slug[t] = slug[u] => t = u
    /\ \A t \in Ids : slug[t] # 0 => key[t].tenant = t
    /\ \A p \in Reqs : slug[p] # 0 => At(p, "tenant", "done")

\* A membership was made by a request that is done and knew the password.
UserTable ==
    /\ \A m \in members :
          /\ At(m.by, "admin", "done")
          /\ req[m.by].tenant = m.tenant /\ req[m.by].email = m.email
          /\ req[m.by].password = user[m.email]
    /\ \A e \in Emails : user[e] # None => \E m \in members : m.email = e
    /\ FirstUserOnce

\* Key material is issued by requests that are done, and sits in one row.
KeyTable ==
    /\ \A p \in Reqs : p \in issued \/ key[p].tenant # None => req[p].pc = "done"
    /\ \A k \in Ids : key[k].hash # None => key[k].hash \in issued
    /\ \A k \in Ids : key[k].tenant # None => key[k].hash # None
    /\ \A k, l \in Ids : key[k].hash # None /\ key[k].hash = key[l].hash => k = l

IInv ==
    /\ TypeOK
    /\ req \in [Reqs -> Requests]
    /\ SlugTable /\ UserTable /\ KeyTable
    /\ \A p \in Reqs : Local(p)

-----------------------------------------------------------------------------
\* There are finitely many tenants and keys.
LEMMA IdsAreCounted == Cardinality(Ids) \in Nat /\ Cardinality(Ids) > 0
<1>1. IsFiniteSet(Ids) /\ Ids # {}
  BY ReqsAreFinite, FS_AddElement DEF Ids
<1> QED
  BY <1>1, FS_CardinalityType, FS_EmptySet

\* A request that asks for nothing, and each kind of question.
LEMMA AsksAreRequests ==
    /\ Idle \in Requests /\ AskTenant \in Requests
    /\ \A t \in Ids, e \in Emails, pw \in Passwords : AskAdmin(t, e, pw) \in Requests
    /\ \A op \in {"create", "rotate", "revoke"}, s \in Ids, k \in Ids \cup {None} :
          AskKey(op, s, k) \in Requests
<1>1. NoKey \in KeyRows /\ 0 \in 0..Cardinality(Ids)
  BY IdsAreCounted DEF NoKey, KeyRows
<1>2. Idle \in Requests
  BY <1>1 DEF Idle, Requests, Steps
<1>3. AskTenant \in Requests
  BY <1>2 DEF AskTenant, Requests, Steps
<1>4. \A t \in Ids, e \in Emails, pw \in Passwords : AskAdmin(t, e, pw) \in Requests
  BY <1>2 DEF AskAdmin, Requests, Steps
<1>5. \A op \in {"create", "rotate", "revoke"}, s \in Ids, k \in Ids \cup {None} :
          AskKey(op, s, k) \in Requests
  BY <1>2 DEF AskKey, Requests, Steps
<1> QED
  BY <1>2, <1>3, <1>4, <1>5

\* At first there is one tenant with one key, and no request.
LEMMA InitIInv == Init => IInv
<1> SUFFICES ASSUME Init PROVE IInv
  OBVIOUS
<1> USE FirstIsNoRequest, NoneIsApart DEF Init
<1>1. req \in [Reqs -> Requests]
  BY AsksAreRequests
<1>2. \A p \in Reqs : req[p].pc = "idle" /\ req[p].op = "none"
  BY DEF Idle
<1>3. TypeOK
  BY <1>2, IdsAreCounted DEF TypeOK, Ids, NoKey, Steps
<1>4. /\ \A t \in Ids : slug[t] # 0 <=> t = First
      /\ \A k \in Ids : key[k].hash = (IF k = First THEN First ELSE None)
      /\ \A k \in Ids : key[k].tenant = (IF k = First THEN First ELSE None)
      /\ issued = {First} /\ members = {} /\ \A e \in Emails : user[e] = None
      /\ \A p \in Reqs : before[p] = {}
  BY DEF NoKey
<1>5. SlugTable
  BY <1>4 DEF SlugTable, Ids
<1>6. UserTable
  BY <1>4 DEF UserTable, FirstUserOnce
<1>7. KeyTable
  BY <1>4 DEF KeyTable, Ids
<1>8. ASSUME NEW p \in Reqs PROVE Local(p)
  BY <1>2, <1>4 DEF Local, Asked, SlugReq, UserReq, KeyReq, At
<1> QED
  BY <1>1, <1>3, <1>5, <1>6, <1>7, <1>8 DEF IInv

-----------------------------------------------------------------------------
\* Nobody but p moves, and p has not ended.
OnlyReq(p) ==
    /\ p \notin Ended
    /\ \A q \in Reqs \ {p} : req'[q] = req[q] /\ before'[q] = before[q]

\* A step that leaves the tenants alone has to answer only for its request.
LEMMA SlugsAside ==
    ASSUME IInv, NEW p \in Reqs, OnlyReq(p), UNCHANGED slug,
           \A t \in Ids : slug[t] # 0 => key'[t].tenant = key[t].tenant,
           SlugReq(p)'
    PROVE  SlugTable' /\ \A q \in Reqs : SlugReq(q)'
<1>1. req[p].pc # "done"
  BY DEF OnlyReq, Ended
<1>2. SlugTable'
  BY <1>1 DEF IInv, SlugTable, OnlyReq, At
<1>3. ASSUME NEW q \in Reqs \ {p} PROVE SlugReq(q)'
  BY <1>3 DEF IInv, Local, SlugReq, OnlyReq, At
<1> QED
  BY <1>2, <1>3

\* A step that leaves the users alone has to answer only for its request.
LEMMA UsersAside ==
    ASSUME IInv, NEW p \in Reqs, OnlyReq(p), UNCHANGED <<user, members>>, UserReq(p)'
    PROVE  UserTable' /\ \A q \in Reqs : UserReq(q)'
<1>1. req[p].pc # "done"
  BY DEF OnlyReq, Ended
<1>2. \A m \in members : m.by \in Reqs \ {p} /\ m.by \in Reqs
  BY <1>1 DEF IInv, UserTable, At, TypeOK
<1>3. FirstUserOnce'
  BY <1>2 DEF IInv, UserTable, FirstUserOnce, OnlyReq
<1>4. UserTable'
  BY <1>2, <1>3 DEF IInv, UserTable, At, OnlyReq
<1>5. ASSUME NEW q \in Reqs \ {p} PROVE UserReq(q)'
  <2>1. before'[q] \subseteq Ended'
    BY <1>5 DEF IInv, Local, UserReq, Ended, OnlyReq
  <2> QED
    BY <1>5, <2>1 DEF IInv, Local, UserReq, At, OnlyReq
<1> QED
  BY <1>4, <1>5

\* A step that leaves the keys alone has to answer only for its request.
LEMMA KeysAside ==
    ASSUME IInv, NEW p \in Reqs, OnlyReq(p), UNCHANGED <<key, issued>>, KeyReq(p)'
    PROVE  KeyTable' /\ \A q \in Reqs : KeyReq(q)'
<1>1. req[p].pc # "done"
  BY DEF OnlyReq, Ended
<1>2. KeyTable'
  BY <1>1 DEF IInv, KeyTable, OnlyReq
<1>3. ASSUME NEW q \in Reqs \ {p} PROVE KeyReq(q)'
  BY <1>3 DEF IInv, Local, KeyReq, OnlyReq, At
<1> QED
  BY <1>2, <1>3

\* A request that ends by writing one key row, with new key material or the
\* old, never reopens the row.
LEMMA KeyWritten ==
    ASSUME IInv, NEW p \in Reqs, OnlyReq(p), req'[p].pc = "done",
           NEW k \in Ids, \A l \in Ids \ {k} : key'[l] = key[l],
           key[k].tenant # None /\ key[k].revoked => key'[k].revoked,
           \/ key'[k].hash = key[k].hash /\ issued' = issued
           \/ key'[k].hash = p /\ issued' = issued \cup {p},
           key'[k].tenant # None, key'[k].hash # None,
           k = p \/ key[k].tenant # None,
           KeyReq(p)'
    PROVE  KeyTable' /\ \A q \in Reqs : KeyReq(q)'
<1>1. p \notin issued
  BY DEF IInv, KeyTable, OnlyReq, Ended
<1>2. KeyTable'
  <2>1. \A q \in Reqs : q \in issued' \/ key'[q].tenant # None => req'[q].pc = "done"
    BY DEF IInv, KeyTable, OnlyReq, Ids
  <2>2. \A l \in Ids : key'[l].hash # None => key'[l].hash \in issued'
    BY DEF IInv, KeyTable
  <2>3. \A l \in Ids : key'[l].tenant # None => key'[l].hash # None
    BY DEF IInv, KeyTable
  <2>4. \A l, m \in Ids : key'[l].hash # None /\ key'[l].hash = key'[m].hash => l = m
    BY <1>1 DEF IInv, KeyTable
  <2> QED
    BY <2>1, <2>2, <2>3, <2>4 DEF KeyTable
<1>3. ASSUME NEW q \in Reqs \ {p} PROVE KeyReq(q)'
  <2>1. KeyReq(q) /\ req'[q] = req[q] /\ Asked(q)
    BY <1>3 DEF IInv, Local, OnlyReq
  <2>2. issued \subseteq issued' /\ \A l \in Ids : key'[l].hash \in issued => key'[l].hash = key[l].hash
    BY <1>1
  <2>3. \A l \in Ids : /\ key[l].tenant # None => key'[l].tenant # None
                       /\ key[l].tenant # None /\ key[l].revoked => key'[l].revoked
    OBVIOUS
  <2> QED
    BY <2>1, <2>2, <2>3 DEF KeyReq, Asked, At
<1> QED
  BY <1>2, <1>3

\* A step that touches no table has to answer only for its request.
LEMMA Moves ==
    ASSUME IInv, NEW p \in Reqs, OnlyReq(p), UNCHANGED rows,
           req' \in [Reqs -> Requests], before' \in [Reqs -> SUBSET Reqs],
           Local(p)'
    PROVE  IInv'
<1> USE DEF rows
<1>1. TypeOK'
  BY DEF IInv, TypeOK, Requests
<1>2. \A q \in Reqs \ {p} : Asked(q)'
  BY DEF IInv, Local, Asked, OnlyReq
<1> QED
  BY <1>1, <1>2, SlugsAside, UsersAside, KeysAside DEF IInv, Local

\* A refusal promises nothing.
LEMMA Refused ==
    ASSUME IInv, NEW p \in Reqs, p \notin Ended, Refuse(p), UNCHANGED <<before, rows>>
    PROVE  IInv'
<1>1. req[p] \in Requests /\ req' = [req EXCEPT ![p] = [req[p] EXCEPT !.pc = "refused"]]
  BY DEF IInv, Refuse
<1>2. /\ req'[p] = [req[p] EXCEPT !.pc = "refused"]
      /\ \A q \in Reqs \ {p} : req'[q] = req[q]
  BY <1>1 DEF IInv
<1>3. /\ req'[p] \in Requests /\ req'[p].pc = "refused" /\ req'[p].op = req[p].op
      /\ req'[p].tenant = req[p].tenant /\ req'[p].email = req[p].email
      /\ req'[p].password = req[p].password /\ req'[p].key = req[p].key
  BY <1>1, <1>2 DEF Requests, Steps
<1>4. req' \in [Reqs -> Requests]
  BY <1>1, <1>3 DEF IInv
<1>5. before[p] \subseteq Ended'
  BY <1>2, <1>3 DEF IInv, Local, UserReq, Ended
<1>6. Local(p)'
  BY <1>3, <1>5 DEF IInv, Local, Asked, SlugReq, UserReq, KeyReq, At
<1> QED
  BY <1>2, <1>4, <1>6, Moves DEF IInv, TypeOK, OnlyReq

-----------------------------------------------------------------------------
\* A request arrives.
LEMMA BeginIInv ==
    ASSUME IInv, NEW p \in Reqs, NEW ask \in Requests, Begin(p, ask),
           ask.pc = "begun",
           ask.op = "admin" => /\ ask.tenant \in Ids /\ ask.email \in Emails
                               /\ ask.password \in Passwords,
           ask.op \in {"rotate", "revoke"} => ask.key \in Ids
    PROVE  IInv'
<1>1. /\ req[p].pc = "idle" /\ req'[p] = ask /\ before'[p] = Ended
      /\ \A q \in Reqs \ {p} : req'[q] = req[q] /\ before'[q] = before[q]
      /\ req' \in [Reqs -> Requests] /\ before' \in [Reqs -> SUBSET Reqs]
      /\ UNCHANGED rows
  BY DEF Begin, IInv, TypeOK, Ended
<1>2. OnlyReq(p)
  BY <1>1 DEF OnlyReq, Ended
<1>3. before'[p] \subseteq Ended'
  BY <1>1 DEF Ended
<1>4. Local(p)'
  BY <1>1, <1>3 DEF Local, Asked, SlugReq, UserReq, KeyReq, At
<1> QED
  BY <1>1, <1>2, <1>4, Moves

\* A request moves on with what it has read, its arguments untouched.
LEMMA GoesOn ==
    ASSUME IInv, NEW p \in Reqs, p \notin Ended, UNCHANGED <<before, rows>>,
           NEW r \in Requests, req' = [req EXCEPT ![p] = r],
           r.pc \notin {"idle", "done", "refused"},
           r.op = req[p].op, r.email = req[p].email, r.password = req[p].password,
           r.key = req[p].key, r.tenant = req[p].tenant \/ r.op # "admin",
           r.pc = "in" => r.tenant \in Ids,
           SlugReq(p)', KeyReq(p)',
           before[p] \subseteq Ended' => UserReq(p)'
    PROVE  IInv'
<1>1. /\ req'[p] = r /\ \A q \in Reqs \ {p} : req'[q] = req[q]
      /\ req' \in [Reqs -> Requests]
  BY DEF IInv
<1>2. OnlyReq(p)
  BY <1>1 DEF OnlyReq
<1>3. before[p] \subseteq Ended'
  <2>1. before[p] \subseteq Ended
    BY DEF IInv, Local, UserReq
  <2> QED
    BY <1>1, <2>1 DEF Ended
<1>4. Asked(p)'
  BY <1>1 DEF IInv, Local, Asked
<1>5. Local(p)'
  BY <1>3, <1>4 DEF Local
<1> QED
  BY <1>1, <1>2, <1>5, Moves DEF IInv, TypeOK

\* A request that is done keeps its arguments and is the only one that moved.
LEMMA Done ==
    ASSUME IInv, NEW p \in Reqs, p \notin Ended, UNCHANGED before,
           req' = [req EXCEPT ![p].pc = "done"]
    PROVE  /\ OnlyReq(p) /\ req' \in [Reqs -> Requests]
           /\ req'[p].pc = "done" /\ req'[p].op = req[p].op
           /\ req'[p].tenant = req[p].tenant /\ req'[p].email = req[p].email
           /\ req'[p].password = req[p].password /\ req'[p].key = req[p].key
           /\ req'[p].row = req[p].row
           /\ before[p] \subseteq Ended'
           /\ \A q \in Reqs : Asked(q)'
<1>1. req[p] \in Requests /\ req' = [req EXCEPT ![p] = [req[p] EXCEPT !.pc = "done"]]
  BY DEF IInv
<1>2. /\ req'[p] = [req[p] EXCEPT !.pc = "done"]
      /\ \A q \in Reqs \ {p} : req'[q] = req[q]
  BY <1>1 DEF IInv
<1>3. /\ req'[p] \in Requests /\ req'[p].pc = "done" /\ req'[p].op = req[p].op
      /\ req'[p].tenant = req[p].tenant /\ req'[p].email = req[p].email
      /\ req'[p].password = req[p].password /\ req'[p].key = req[p].key
      /\ req'[p].row = req[p].row
  BY <1>1, <1>2 DEF Requests, Steps
<1>4. OnlyReq(p) /\ req' \in [Reqs -> Requests]
  BY <1>1, <1>2, <1>3 DEF IInv, OnlyReq
<1>5. before[p] \subseteq Ended'
  BY <1>2, <1>3 DEF IInv, Local, UserReq, Ended
<1>6. \A q \in Reqs : Asked(q)'
  BY <1>2, <1>3 DEF IInv, Local, Asked
<1> QED
  BY <1>3, <1>4, <1>5, <1>6

\* Every step of every request keeps the invariant.
LEMMA StepIInv == IInv /\ [Next]_vars => IInv'
<1> SUFFICES ASSUME IInv, [Next]_vars PROVE IInv'
  OBVIOUS
<1> USE FirstIsNoRequest, NoneIsApart
<1>1. ASSUME NEW p \in Reqs, Begin(p, AskTenant) PROVE IInv'
  <2>1. AskTenant.pc = "begun" /\ AskTenant.op = "tenant"
    BY DEF AskTenant, Idle
  <2> QED
    BY <1>1, <2>1, AsksAreRequests, BeginIInv
<1>2. ASSUME NEW p \in Reqs, NEW t \in Ids, NEW e \in Emails, NEW pw \in Passwords,
             Begin(p, AskAdmin(t, e, pw))
      PROVE  IInv'
  <2> DEFINE ask == AskAdmin(t, e, pw)
  <2>1. /\ ask.pc = "begun" /\ ask.op = "admin"
        /\ ask.tenant = t /\ ask.email = e /\ ask.password = pw
    BY DEF AskAdmin, Idle
  <2>2. ask \in Requests
    BY AsksAreRequests
  <2> HIDE DEF ask
  <2> QED
    BY <1>2, <2>1, <2>2, BeginIInv DEF ask
<1>3. ASSUME NEW p \in Reqs, NEW op \in {"create", "rotate", "revoke"}, NEW s \in issued,
             NEW k \in Ids \cup {None}, op # "create" => k \in Ids,
             Begin(p, AskKey(op, s, k))
      PROVE  IInv'
  <2> DEFINE ask == AskKey(op, s, k)
  <2>1. ask.pc = "begun" /\ ask.op = op /\ ask.key = k
    BY DEF AskKey, Idle
  <2>2. ask \in Requests
    BY AsksAreRequests DEF IInv, TypeOK
  <2> HIDE DEF ask
  <2> QED
    BY <1>3, <2>1, <2>2, BeginIInv DEF ask
<1>4. ASSUME NEW p \in Reqs, Authenticate(p) PROVE IInv'
  <2> DEFINE t == Resolve(req[p].secret)
             r == [req[p] EXCEPT !.tenant = t, !.pc = "in"]
  <2>1. /\ req[p] \in Requests /\ p \notin Ended /\ req[p].op \notin {"admin", "tenant"}
        /\ UNCHANGED <<before, rows>>
    BY <1>4 DEF Authenticate, IInv, Ended
  <2>2. CASE t = None
    BY <1>4, <2>1, <2>2, Refused DEF Authenticate
  <2>3. CASE t # None
    <3>1. req' = [req EXCEPT ![p] = r]
      BY <1>4, <2>3 DEF Authenticate
    <3>2. t \in Ids
      <4>1. t \in Ids \cup {None}
        BY DEF Resolve, IInv, TypeOK
      <4> QED
        BY <2>3, <4>1
    <3> HIDE DEF t
    <3>3. /\ r \in Requests /\ r.pc = "in" /\ r.tenant = t /\ r.op = req[p].op
          /\ r.email = req[p].email /\ r.password = req[p].password /\ r.key = req[p].key
      BY <2>1, <3>2 DEF Requests, Steps
    <3> HIDE DEF r
    <3>4. req'[p] = r
      BY <3>1 DEF IInv
    <3>5. SlugReq(p)' /\ KeyReq(p)' /\ (before[p] \subseteq Ended' => UserReq(p)')
      BY <2>1, <3>3, <3>4 DEF SlugReq, UserReq, KeyReq, At
    <3> QED
      BY <2>1, <3>1, <3>2, <3>3, <3>5, GoesOn
  <2> QED
    BY <2>2, <2>3
<1>5. ASSUME NEW p \in Reqs, PickSlug(p) PROVE IInv'
  <2>1. /\ req[p] \in Requests /\ p \notin Ended /\ req[p].op = "tenant"
        /\ UNCHANGED <<before, rows>>
    BY <1>5 DEF PickSlug, IInv, Ended, At
  <2>2. PICK n \in 1..Cardinality(Ids) :
           req' = [req EXCEPT ![p] = [req[p] EXCEPT !.slug = n, !.pc = "picked"]]
    BY <1>5 DEF PickSlug
  <2> DEFINE r == [req[p] EXCEPT !.slug = n, !.pc = "picked"]
  <2>0. n \in 0..Cardinality(Ids) /\ n # 0
    BY IdsAreCounted
  <2>3. /\ r \in Requests /\ r.pc = "picked" /\ r.slug # 0 /\ r.tenant = req[p].tenant
        /\ r.op = req[p].op /\ r.email = req[p].email
        /\ r.password = req[p].password /\ r.key = req[p].key
    BY <2>0, <2>1 DEF Requests, Steps
  <2>4. req' = [req EXCEPT ![p] = r]
    BY <2>2
  <2> HIDE DEF r
  <2>5. req'[p] = r
    BY <2>4 DEF IInv
  <2>6. SlugReq(p)' /\ KeyReq(p)' /\ (before[p] \subseteq Ended' => UserReq(p)')
    BY <2>1, <2>3, <2>5 DEF SlugReq, UserReq, KeyReq, At
  <2> QED
    BY <2>1, <2>3, <2>4, <2>6, GoesOn
<1>6. ASSUME NEW p \in Reqs, InsertTenant(p) PROVE IInv'
  <2> DEFINE r == [req[p] EXCEPT !.pc = "flushed"]
  <2>1. /\ req[p] \in Requests /\ p \notin Ended /\ At(p, "tenant", "picked")
        /\ \A q \in Reqs : At(q, "tenant", "flushed") => req[q].slug # req[p].slug
        /\ UNCHANGED <<before, rows>>
    BY <1>6 DEF InsertTenant, IInv, Ended, At
  <2>2. CASE \E t \in Ids : slug[t] = req[p].slug
    BY <1>6, <2>1, <2>2, Refused DEF InsertTenant
  <2>3. CASE ~\E t \in Ids : slug[t] = req[p].slug
    <3>1. req' = [req EXCEPT ![p] = r]
      BY <1>6, <2>3 DEF InsertTenant
    <3>2. /\ r \in Requests /\ r.pc = "flushed" /\ r.tenant = req[p].tenant /\ r.op = req[p].op
          /\ r.email = req[p].email /\ r.password = req[p].password /\ r.key = req[p].key
          /\ r.slug = req[p].slug
      BY <2>1 DEF Requests, Steps
    <3> HIDE DEF r
    <3>3. req'[p] = r /\ \A q \in Reqs \ {p} : req'[q] = req[q]
      BY <3>1 DEF IInv
    <3>4. SlugReq(p)'
      BY <2>1, <2>3, <3>2, <3>3 DEF IInv, Local, SlugReq, At, rows
    <3>5. KeyReq(p)' /\ (before[p] \subseteq Ended' => UserReq(p)')
      BY <2>1, <3>2, <3>3 DEF UserReq, KeyReq, At
    <3> QED
      BY <2>1, <3>1, <3>2, <3>4, <3>5, GoesOn
  <2> QED
    BY <2>2, <2>3
<1>7. ASSUME NEW p \in Reqs, CommitTenant(p) PROVE IInv'
  <2>1. /\ At(p, "tenant", "flushed") /\ p \notin Ended /\ p \in Ids /\ p # None
        /\ SlugReq(p) /\ req[p] \in Requests
        /\ slug' = [slug EXCEPT ![p] = req[p].slug]
        /\ key' = [key EXCEPT ![p] = [tenant |-> p, hash |-> p, revoked |-> FALSE]]
        /\ issued' = issued \cup {p}
        /\ req' = [req EXCEPT ![p].pc = "done"]
        /\ UNCHANGED <<before, user, members>>
    BY <1>7 DEF CommitTenant, At, Ended, Ids, IInv, Local
  <2>2. /\ OnlyReq(p) /\ req' \in [Reqs -> Requests]
        /\ req'[p].pc = "done" /\ req'[p].op = req[p].op
        /\ req'[p].tenant = req[p].tenant /\ req'[p].email = req[p].email
        /\ req'[p].password = req[p].password /\ req'[p].key = req[p].key
        /\ req'[p].row = req[p].row
        /\ before[p] \subseteq Ended'
        /\ \A q \in Reqs : Asked(q)'
    BY <2>1, Done
  <2>3. /\ slug'[p] = req[p].slug /\ \A t \in Ids \ {p} : slug'[t] = slug[t]
        /\ key'[p].tenant = p /\ key'[p].hash = p
        /\ \A t \in Ids \ {p} : key'[t] = key[t]
    BY <2>1 DEF IInv, TypeOK
  <2>4. TypeOK'
    BY <2>1, <2>2 DEF IInv, TypeOK, Requests
  <2>5. key[p].tenant = None
    BY <2>1 DEF IInv, KeyTable, Ended
  <2>6. SlugTable'
    <3>1. \A t, u \in Ids : slug'[t] # 0 /\ slug'[t] = slug'[u] => t = u
      BY <2>1, <2>3 DEF IInv, SlugTable, SlugReq
    <3>2. \A t \in Ids : slug'[t] # 0 => key'[t].tenant = t
      BY <2>3 DEF IInv, SlugTable
    <3>3. \A q \in Reqs : slug'[q] # 0 => At(q, "tenant", "done")'
      BY <2>1, <2>2, <2>3 DEF IInv, SlugTable, At, OnlyReq, Ids
    <3> QED
      BY <3>1, <3>2, <3>3 DEF SlugTable
  <2>7. \A q \in Reqs : SlugReq(q)'
    <3>1. ASSUME NEW q \in Reqs \ {p} PROVE SlugReq(q)'
      <4>1. SlugReq(q) /\ req'[q] = req[q]
        BY <2>2, <3>1 DEF IInv, Local, OnlyReq
      <4>2. At(q, "tenant", "flushed") => req[q].slug # req[p].slug
        BY <2>1, <3>1 DEF SlugReq
      <4> QED
        BY <2>2, <2>3, <4>1, <4>2 DEF SlugReq, At, OnlyReq
    <3>2. SlugReq(p)'
      BY <2>2 DEF SlugReq, At
    <3> QED
      BY <3>1, <3>2
  <2>8. UserTable' /\ \A q \in Reqs : UserReq(q)'
    <3>1. UserReq(p)'
      BY <2>1, <2>2 DEF UserReq, At
    <3> QED
      BY <2>1, <2>2, <3>1, UsersAside
  <2>9. KeyTable' /\ \A q \in Reqs : KeyReq(q)'
    <3>1. KeyReq(p)'
      BY <2>1, <2>2 DEF KeyReq, At
    <3> QED
      BY <2>1, <2>2, <2>3, <2>5, <3>1, KeyWritten
  <2> QED
    BY <2>2, <2>4, <2>6, <2>7, <2>8, <2>9 DEF IInv, Local
<1>8. ASSUME NEW p \in Reqs, CheckTenant(p) PROVE IInv'
  <2> DEFINE r == [req[p] EXCEPT !.pc = "checked"]
  <2>1. /\ req[p] \in Requests /\ p \notin Ended /\ req[p].op = "admin"
        /\ UNCHANGED <<before, rows>>
    BY <1>8 DEF CheckTenant, IInv, Ended, At
  <2>2. CASE slug[req[p].tenant] = 0 \/ HasUsers(req[p].tenant)
    BY <1>8, <2>1, <2>2, Refused DEF CheckTenant
  <2>3. CASE ~(slug[req[p].tenant] = 0 \/ HasUsers(req[p].tenant))
    <3>1. req' = [req EXCEPT ![p] = r]
      BY <1>8, <2>3 DEF CheckTenant
    <3>2. /\ r \in Requests /\ r.pc = "checked" /\ r.tenant = req[p].tenant /\ r.op = req[p].op
          /\ r.email = req[p].email /\ r.password = req[p].password /\ r.key = req[p].key
      BY <2>1 DEF Requests, Steps
    <3> HIDE DEF r
    <3>3. req'[p] = r
      BY <3>1 DEF IInv
    <3>4. before[p] \subseteq Ended' => UserReq(p)'
      BY <2>1, <2>3, <3>2, <3>3 DEF UserReq, At, HasUsers, rows
    <3>5. SlugReq(p)' /\ KeyReq(p)'
      BY <2>1, <3>2, <3>3 DEF SlugReq, KeyReq, At
    <3> QED
      BY <2>1, <3>1, <3>2, <3>4, <3>5, GoesOn
  <2> QED
    BY <2>2, <2>3
<1>9. ASSUME NEW p \in Reqs, FindUser(p) PROVE IInv'
  <2> DEFINE pw == user[req[p].email]
             step == IF pw = None THEN "insert" ELSE "found"
             r == [req[p] EXCEPT !.newUser = (pw = None), !.pc = step]
  <2>1. /\ req[p] \in Requests /\ p \notin Ended /\ At(p, "admin", "checked") /\ Local(p)
        /\ UNCHANGED <<before, rows>>
    BY <1>9 DEF FindUser, IInv, Ended, At
  <2>2. CASE pw \notin {None, req[p].password}
    BY <1>9, <2>1, <2>2, Refused DEF FindUser
  <2>3. CASE pw \in {None, req[p].password}
    <3>1. req' = [req EXCEPT ![p] = r]
      BY <1>9, <2>3 DEF FindUser
    <3>2. /\ r \in Requests /\ r.pc = step /\ r.tenant = req[p].tenant /\ r.op = req[p].op
          /\ r.email = req[p].email /\ r.password = req[p].password /\ r.key = req[p].key
          /\ r.newUser = (pw = None)
      BY <2>1 DEF Requests, Steps
    <3> HIDE DEF r
    <3>3. req'[p] = r
      BY <3>1 DEF IInv
    <3>4. before[p] \subseteq Ended' => UserReq(p)'
      BY <2>1, <2>3, <3>2, <3>3 DEF Local, UserReq, At, rows
    <3>5. SlugReq(p)' /\ KeyReq(p)'
      BY <2>1, <3>2, <3>3 DEF SlugReq, KeyReq, At
    <3> QED
      BY <2>1, <3>1, <3>2, <3>4, <3>5, GoesOn DEF At
  <2> QED
    BY <2>2, <2>3
<1>10. ASSUME NEW p \in Reqs, InsertUser(p) PROVE IInv'
  <2> DEFINE r == [req[p] EXCEPT !.pc = "found"]
  <2>1. /\ req[p] \in Requests /\ p \notin Ended /\ At(p, "admin", "insert") /\ Local(p)
        /\ \A q \in Reqs \ {p} :
              At(q, "admin", "found") /\ req[q].newUser => req[q].email # req[p].email
        /\ UNCHANGED <<before, rows>>
    BY <1>10 DEF InsertUser, FlushUser, IInv, Ended, At, rows
  <2>2. CASE user[req[p].email] # None
    BY <1>10, <2>1, <2>2, Refused DEF InsertUser, EmailTaken
  <2>3. CASE user[req[p].email] = None
    <3>1. req' = [req EXCEPT ![p] = r]
      BY <1>10, <2>3 DEF InsertUser
    <3>2. /\ r \in Requests /\ r.pc = "found" /\ r.tenant = req[p].tenant /\ r.op = req[p].op
          /\ r.email = req[p].email /\ r.password = req[p].password /\ r.key = req[p].key
          /\ r.newUser = req[p].newUser
      BY <2>1 DEF Requests, Steps
    <3> HIDE DEF r
    <3>3. req'[p] = r /\ \A q \in Reqs \ {p} : req'[q] = req[q]
      BY <3>1 DEF IInv
    <3>4. before[p] \subseteq Ended' => UserReq(p)'
      BY <2>1, <2>3, <3>2, <3>3 DEF Local, UserReq, At, rows
    <3>5. SlugReq(p)' /\ KeyReq(p)'
      BY <2>1, <3>2, <3>3 DEF SlugReq, KeyReq, At
    <3> QED
      BY <2>1, <3>1, <3>2, <3>4, <3>5, GoesOn DEF At
  <2> QED
    BY <2>2, <2>3
<1>11. ASSUME NEW p \in Reqs, CommitAdmin(p) PROVE IInv'
  <2> DEFINE r == req[p]
             member == [tenant |-> r.tenant, email |-> r.email, by |-> p]
  <2>1. /\ At(p, "admin", "found") /\ p \notin Ended /\ UserReq(p)
        /\ r.tenant \in Ids /\ r.email \in Emails /\ r.password \in Passwords
        /\ r.password # None /\ UNCHANGED <<before, slug, key, issued>>
    BY <1>11 DEF CommitAdmin, At, Ended, IInv, Local, Asked
  <2>2. CASE \E m \in members : m.tenant = r.tenant /\ m.email = r.email
    BY <1>11, <2>1, <2>2, Refused DEF CommitAdmin, rows
  <2>3. CASE ~\E m \in members : m.tenant = r.tenant /\ m.email = r.email
    <3>1. /\ user' = IF r.newUser THEN [user EXCEPT ![r.email] = r.password] ELSE user
          /\ members' = members \cup {member}
          /\ req' = [req EXCEPT ![p].pc = "done"]
      BY <1>11, <2>3 DEF CommitAdmin
    <3>2. /\ OnlyReq(p) /\ req' \in [Reqs -> Requests]
          /\ req'[p].pc = "done" /\ req'[p].op = req[p].op
          /\ req'[p].tenant = req[p].tenant /\ req'[p].email = req[p].email
          /\ req'[p].password = req[p].password
          /\ before[p] \subseteq Ended'
          /\ \A q \in Reqs : Asked(q)'
      BY <2>1, <3>1, Done
    <3>3. /\ user'[r.email] = r.password
          /\ \A e \in Emails : user[e] # None => user'[e] = user[e]
          /\ \A e \in Emails \ {r.email} : user'[e] = user[e]
      BY <2>1, <3>1 DEF IInv, TypeOK, UserReq
    <3>4. member.tenant = r.tenant /\ member.email = r.email /\ member.by = p
      OBVIOUS
    <3>5. TypeOK'
      BY <2>1, <3>1, <3>2 DEF IInv, TypeOK, Requests
    <3> HIDE DEF member
    <3>6. SlugTable' /\ \A q \in Reqs : SlugReq(q)'
      <4>1. SlugReq(p)'
        BY <3>2 DEF SlugReq, At
      <4> QED
        BY <2>1, <3>2, <4>1, SlugsAside
    <3>7. KeyTable' /\ \A q \in Reqs : KeyReq(q)'
      <4>1. KeyReq(p)'
        BY <2>1, <3>2 DEF KeyReq, At
      <4> QED
        BY <2>1, <3>2, <4>1, KeysAside
    <3>8. \A m \in members : /\ m.by \in Reqs \ {p} /\ m.email \in Emails
                             /\ req[m.by].password = user[m.email] /\ user[m.email] # None
      <4> SUFFICES ASSUME NEW m \in members
                   PROVE  /\ m.by \in Reqs \ {p} /\ m.email \in Emails
                          /\ req[m.by].password = user[m.email] /\ user[m.email] # None
        OBVIOUS
      <4>1. m.by \in Reqs /\ m.email \in Emails
        BY DEF IInv, TypeOK
      <4>2. At(m.by, "admin", "done") /\ req[m.by].password = user[m.email]
        BY DEF IInv, UserTable
      <4>3. req[m.by].password \in Passwords
        BY <4>1, <4>2 DEF IInv, Local, Asked, At
      <4> QED
        BY <2>1, <4>1, <4>2, <4>3 DEF Ended, At
    <3>9. FirstUserOnce'
      <4>1. \A q \in Reqs : p \notin before[q]
        BY <2>1 DEF IInv, Local, UserReq
      <4>2. \A m \in members : m.tenant = r.tenant => m.by \notin before[p]
        BY <2>1 DEF UserReq, At
      <4> QED
        BY <2>1, <3>1, <3>4, <3>8, <4>1, <4>2 DEF IInv, UserTable, FirstUserOnce
    <3>10. UserTable'
      <4>1. \A m \in members' :
               /\ At(m.by, "admin", "done")'
               /\ req'[m.by].tenant = m.tenant /\ req'[m.by].email = m.email
               /\ req'[m.by].password = user'[m.email]
        BY <2>1, <3>1, <3>2, <3>3, <3>4, <3>8 DEF IInv, UserTable, At, OnlyReq
      <4>2. \A e \in Emails : user'[e] # None => \E m \in members' : m.email = e
        BY <3>1, <3>3, <3>4 DEF IInv, UserTable
      <4> QED
        BY <3>9, <4>1, <4>2 DEF UserTable
    <3>11. ASSUME NEW q \in Reqs PROVE UserReq(q)'
      <4>1. CASE q = p
        BY <2>1, <3>2, <4>1 DEF UserReq, At
      <4>2. CASE q # p
        <5>1. UserReq(q) /\ req'[q] = req[q] /\ Asked(q) /\ p \notin before[q]
          BY <2>1, <3>2, <4>2 DEF IInv, Local, OnlyReq, UserReq
        <5>2. before'[q] \subseteq Ended'
          BY <2>1, <3>2, <5>1 DEF UserReq, Ended, OnlyReq
        <5>3. req[q].op = "admin" /\ req[q].pc \in {"checked", "insert", "found"} =>
                 \A m \in members' : m.tenant = req[q].tenant => m.by \notin before'[q]
          BY <2>1, <3>1, <3>4, <5>1 DEF UserReq
        <5>4. At(q, "admin", "found") =>
                 user'[req[q].email] = IF req[q].newUser THEN None ELSE req[q].password
          <6> SUFFICES ASSUME At(q, "admin", "found")
                       PROVE  user'[req[q].email] = IF req[q].newUser THEN None ELSE req[q].password
            OBVIOUS
          <6>1. req[q].email \in Emails /\ req[q].password # None
            BY <5>1 DEF Asked, At
          <6>2. CASE ~req[q].newUser
            BY <3>3, <5>1, <6>1, <6>2 DEF UserReq
          <6>3. CASE req[q].newUser
            <7>1. user[req[q].email] = None
              BY <5>1, <6>3 DEF UserReq
            <7>2. CASE r.newUser
              BY <2>1, <3>3, <4>2, <6>1, <6>3, <7>1, <7>2 DEF UserReq
            <7>3. CASE ~r.newUser
              BY <3>1, <7>1, <6>3, <7>3
            <7> QED
              BY <7>2, <7>3
          <6> QED
            BY <6>2, <6>3
        <5>5. At(q, "admin", "found") /\ req[q].newUser =>
                 \A o \in Reqs \ {q} : (At(o, "admin", "found") /\ req[o].newUser)' =>
                                          req'[o].email # req[q].email
          BY <3>2, <5>1 DEF UserReq, At, OnlyReq
        <5> QED
          BY <5>1, <5>2, <5>3, <5>4, <5>5 DEF UserReq, At
      <4> QED
        BY <4>1, <4>2
    <3> QED
      BY <3>2, <3>5, <3>6, <3>7, <3>10, <3>11 DEF IInv, Local
  <2> QED
    BY <2>2, <2>3
<1>12. ASSUME NEW p \in Reqs, CreateKey(p) PROVE IInv'
  <2>1. /\ At(p, "create", "in") /\ p \notin Ended /\ p \in Ids /\ p # None
        /\ req[p].tenant \in Ids /\ req[p].tenant # None
        /\ key' = [key EXCEPT ![p] = [tenant |-> req[p].tenant, hash |-> p, revoked |-> FALSE]]
        /\ issued' = issued \cup {p}
        /\ req' = [req EXCEPT ![p].pc = "done"]
        /\ UNCHANGED <<before, slug, user, members>>
    BY <1>12 DEF CreateKey, At, Ended, Ids, IInv, Local, Asked
  <2>2. /\ OnlyReq(p) /\ req' \in [Reqs -> Requests]
        /\ req'[p].pc = "done" /\ req'[p].op = req[p].op
        /\ req'[p].tenant = req[p].tenant /\ req'[p].email = req[p].email
        /\ req'[p].password = req[p].password /\ req'[p].key = req[p].key
        /\ req'[p].row = req[p].row
        /\ before[p] \subseteq Ended'
        /\ \A q \in Reqs : Asked(q)'
    BY <2>1, Done
  <2>3. /\ key'[p].tenant = req[p].tenant /\ key'[p].hash = p
        /\ \A t \in Ids \ {p} : key'[t] = key[t]
    BY <2>1 DEF IInv, TypeOK
  <2>4. TypeOK'
    BY <2>1, <2>2 DEF IInv, TypeOK, Requests
  <2>5. key[p].tenant = None /\ slug[p] = 0
    BY <2>1 DEF IInv, KeyTable, SlugTable, Ended, At
  <2>6. SlugTable' /\ \A q \in Reqs : SlugReq(q)'
    <3>1. SlugReq(p)'
      BY <2>2 DEF SlugReq, At
    <3> QED
      BY <2>1, <2>2, <2>3, <2>5, <3>1, SlugsAside
  <2>7. UserTable' /\ \A q \in Reqs : UserReq(q)'
    <3>1. UserReq(p)'
      BY <2>1, <2>2 DEF UserReq, At
    <3> QED
      BY <2>1, <2>2, <3>1, UsersAside
  <2>8. KeyTable' /\ \A q \in Reqs : KeyReq(q)'
    <3>1. KeyReq(p)'
      BY <2>1, <2>2 DEF KeyReq, At
    <3> QED
      BY <2>1, <2>2, <2>3, <2>5, <3>1, KeyWritten
  <2> QED
    BY <2>2, <2>4, <2>6, <2>7, <2>8 DEF IInv, Local
<1>13. ASSUME NEW p \in Reqs, LoadKey(p) PROVE IInv'
  <2> DEFINE k == req[p].key
             r == [req[p] EXCEPT !.row = key[k], !.pc = "loaded"]
  <2>1. /\ req[p] \in Requests /\ p \notin Ended /\ req[p].op \in {"rotate", "revoke"}
        /\ req[p].pc = "in" /\ k \in Ids /\ req[p].tenant \in Ids
        /\ UNCHANGED <<before, rows>>
    BY <1>13 DEF LoadKey, IInv, Ended, Local, Asked
  <2>2. CASE key[k].tenant # req[p].tenant \/ (req[p].op = "rotate" /\ key[k].revoked)
    BY <1>13, <2>1, <2>2, Refused DEF LoadKey
  <2>3. CASE ~(key[k].tenant # req[p].tenant \/ (req[p].op = "rotate" /\ key[k].revoked))
    <3>1. req' = [req EXCEPT ![p] = r]
      BY <1>13, <2>3 DEF LoadKey
    <3>2. key[k] \in KeyRows
      BY <2>1 DEF IInv, TypeOK, KeyRows
    <3>3. /\ r \in Requests /\ r.pc = "loaded" /\ r.tenant = req[p].tenant /\ r.op = req[p].op
          /\ r.email = req[p].email /\ r.password = req[p].password /\ r.key = req[p].key
          /\ r.row = key[k]
      BY <2>1, <3>2 DEF Requests, Steps
    <3> HIDE DEF r
    <3>4. req'[p] = r
      BY <3>1 DEF IInv
    <3>5. key[k].tenant # None /\ key[k].hash # None /\ key[k].hash \in issued
      BY <2>1, <2>3 DEF IInv, KeyTable, Ids
    <3>6. KeyReq(p)'
      BY <2>1, <3>3, <3>4, <3>5 DEF IInv, KeyTable, KeyReq, At, rows
    <3>7. SlugReq(p)' /\ (before[p] \subseteq Ended' => UserReq(p)')
      BY <2>1, <3>3, <3>4 DEF SlugReq, UserReq, At
    <3> QED
      BY <2>1, <3>1, <3>3, <3>6, <3>7, GoesOn
  <2> QED
    BY <2>2, <2>3
<1>14. ASSUME NEW p \in Reqs, CommitKey(p) PROVE IInv'
  <2> DEFINE k == req[p].key
             row == req[p].row
             target == IF req[p].op = "rotate" THEN [row EXCEPT !.hash = p]
                       ELSE [row EXCEPT !.revoked = TRUE]
  <2>1. /\ req[p].pc = "loaded" /\ p \notin Ended /\ p \in Ids /\ p # None
        /\ req[p].op \in {"rotate", "revoke"} /\ k \in Ids
        /\ KeyReq(p) /\ row \in KeyRows /\ key[k] \in KeyRows
        /\ key' = [key EXCEPT ![k] = Flushed(key[k], row, target)]
        /\ issued' = IF req[p].op = "rotate" THEN issued \cup {p} ELSE issued
        /\ req' = [req EXCEPT ![p].pc = "done"]
        /\ UNCHANGED <<before, slug, user, members>>
    BY <1>14 DEF CommitKey, Updated, Ended, Ids, IInv, Local, Asked, KeyReq, TypeOK, KeyRows,
                 Requests
  <2>2. /\ OnlyReq(p) /\ req' \in [Reqs -> Requests]
        /\ req'[p].pc = "done" /\ req'[p].op = req[p].op
        /\ req'[p].tenant = req[p].tenant /\ req'[p].email = req[p].email
        /\ req'[p].password = req[p].password /\ req'[p].key = req[p].key
        /\ req'[p].row = req[p].row
        /\ before[p] \subseteq Ended'
        /\ \A q \in Reqs : Asked(q)'
    BY <2>1, Done
  <2>3. p \notin issued
    BY <2>1 DEF IInv, KeyTable, Ended
  <2>4. /\ key'[k] = Flushed(key[k], row, target)
        /\ \A t \in Ids \ {k} : key'[t] = key[t]
    BY <2>1 DEF IInv, TypeOK
  <2>5. /\ key'[k] \in KeyRows /\ key'[k].tenant = key[k].tenant
        /\ req[p].op = "rotate" => key'[k].hash = p /\ key'[k].revoked = key[k].revoked
        /\ req[p].op = "revoke" => key'[k].hash = key[k].hash /\ key'[k].revoked
    <3>1. CASE req[p].op = "rotate"
      <4>1. row.hash # p
        BY <2>1, <2>3 DEF KeyReq
      <4>2. Flushed(key[k], row, target) = [key[k] EXCEPT !.hash = p]
        BY <2>1, <3>1, <4>1 DEF Flushed, KeyRows
      <4> QED
        BY <2>1, <2>4, <3>1, <4>2 DEF KeyRows
    <3>2. CASE req[p].op = "revoke"
      <4>1. Flushed(key[k], row, target) = [key[k] EXCEPT !.revoked = TRUE]
        BY <2>1, <3>2 DEF Flushed, KeyRows, KeyReq
      <4> QED
        BY <2>1, <2>4, <3>2, <4>1 DEF KeyRows
    <3> QED
      BY <2>1, <3>1, <3>2
  <2>6. TypeOK'
    BY <2>1, <2>2, <2>4, <2>5 DEF IInv, TypeOK, Requests, KeyRows
  <2>7. SlugTable' /\ \A q \in Reqs : SlugReq(q)'
    <3>1. SlugReq(p)'
      BY <2>2 DEF SlugReq, At
    <3>2. \A t \in Ids : key'[t].tenant = key[t].tenant
      BY <2>4, <2>5
    <3> QED
      BY <2>1, <2>2, <3>1, <3>2, SlugsAside
  <2>8. UserTable' /\ \A q \in Reqs : UserReq(q)'
    <3>1. UserReq(p)'
      BY <2>1, <2>2 DEF UserReq, At
    <3> QED
      BY <2>1, <2>2, <3>1, UsersAside
  <2>9. KeyTable' /\ \A q \in Reqs : KeyReq(q)'
    <3>1. key[k].tenant # None /\ key[k].hash # None
      BY <2>1 DEF KeyReq, IInv, KeyTable
    <3>2. KeyReq(p)'
      <4>1. row.hash \in issued /\ row.hash \in issued' /\ \A l \in Ids : key[l].hash = row.hash => l = k
        BY <2>1 DEF KeyReq
      <4>2. req[p].op = "rotate" => \A l \in Ids : key'[l].hash # row.hash
        BY <2>3, <2>4, <2>5, <4>1 DEF KeyRows
      <4>3. req[p].op = "revoke" => key'[k].revoked /\ key'[k].tenant # None
        BY <2>5, <3>1
      <4> QED
        BY <2>2, <4>1, <4>2, <4>3 DEF KeyReq, At
    <3>3. /\ key[k].tenant # None /\ key[k].revoked => key'[k].revoked
          /\ key'[k].tenant # None /\ key'[k].hash # None
          /\ \/ key'[k].hash = key[k].hash /\ issued' = issued
             \/ key'[k].hash = p /\ issued' = issued \cup {p}
      BY <2>1, <2>5, <3>1
    <3> QED
      BY <2>1, <2>2, <2>4, <3>1, <3>2, <3>3, KeyWritten
  <2> QED
    BY <2>2, <2>6, <2>7, <2>8, <2>9 DEF IInv, Local
<1>15. ASSUME NEW p \in Reqs, Crash(p) PROVE IInv'
  BY <1>15, Refused DEF Crash, Ended
<1>16. CASE UNCHANGED vars
  BY <1>16 DEF vars, rows, IInv, TypeOK, SlugTable, UserTable, FirstUserOnce, KeyTable,
     Local, Asked, SlugReq, UserReq, KeyReq, At, Ended
<1> QED
  BY <1>1, <1>2, <1>3, <1>4, <1>5, <1>6, <1>7, <1>8, <1>9, <1>10, <1>11, <1>12, <1>13,
     <1>14, <1>15, <1>16 DEF Next, Handle

-----------------------------------------------------------------------------
\* Every behaviour stays within the invariant.
LEMMA Invariance == Spec => []IInv
<1> QED
  BY InitIInv, StepIInv, PTL DEF Spec

\* bootstrap_tenant, bootstrap_tenant_admin_user: slugs stay unique, a tenant
\* has its key and an account its membership, whatever overlaps or crashes.
THEOREM WholeOrNothing == Spec => []NothingHalfDone
<1>1. IInv => NothingHalfDone
  BY DEF IInv, NothingHalfDone, SlugTable, UserTable
<1> QED
  BY <1>1, Invariance, PTL

\* rotate_api_key, revoke_api_key: what was closed stays closed.
THEOREM NothingReopens == Spec => []ClosedStaysClosed
<1>1. IInv => ClosedStaysClosed
  <2> SUFFICES ASSUME IInv, NEW p \in Reqs
               PROVE  /\ At(p, "revoke", "done") => \A s \in issued : ~Accepts(req[p].key, s)
                      /\ At(p, "rotate", "done") => Resolve(req[p].row.hash) = None
    BY DEF ClosedStaysClosed
  <2>1. KeyReq(p)
    BY DEF IInv, Local
  <2> QED
    BY <2>1 DEF KeyReq, Accepts, Resolve
<1> QED
  BY <1>1, Invariance, PTL

\* bootstrap_tenant_admin_user: once one has ended, no later one succeeds.
THEOREM NoSecondFirstUser == Spec => []FirstUserOnce
<1>1. IInv => FirstUserOnce
  BY DEF IInv, UserTable
<1> QED
  BY <1>1, Invariance, PTL

\* bootstrap_tenant_admin_user: a membership is given only to who knew the
\* password of the account, although the account may appear meanwhile.
THEOREM PasswordWasKnown == Spec => []MembersKnewPassword
<1>1. IInv => MembersKnewPassword
  <2> SUFFICES ASSUME IInv, NEW m \in members
               PROVE  user[m.email] # None /\ req[m.by].password = user[m.email]
    BY DEF MembersKnewPassword
  <2>1. m.by \in Reqs /\ At(m.by, "admin", "done") /\ req[m.by].password = user[m.email]
    BY DEF IInv, UserTable, TypeOK
  <2>2. req[m.by].password \in Passwords
    BY <2>1 DEF IInv, Local, Asked, At
  <2> QED
    BY <2>1, <2>2, NoneIsApart
<1> QED
  BY <1>1, Invariance, PTL
=============================================================================

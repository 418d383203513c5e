--------------------------- MODULE JobSubmission ---------------------------
(***************************************************************************)
(* How the API creates an asynchronous job: SaaSService.create_parse_job,   *)
(* create_report_job and create_collection_job (saas/service.py), which     *)
(* share one shape, and the first thing the task they enqueue does          *)
(* (saas/worker.py), which is to look its job row up.                       *)
(*                                                                          *)
(* Several requests run at once, each in a transaction of its own.  The     *)
(* database is PostgreSQL at READ COMMITTED, the deployed configuration:    *)
(* a statement sees what was committed when it started, and an INSERT that  *)
(* meets an uncommitted row with the same unique key waits for that         *)
(* transaction to end.  A request is therefore cut at each statement and    *)
(* external call another actor can observe or overtake.                     *)
(*                                                                          *)
(* The ids are uuids drawn by the request that inserts the row, so a job    *)
(* is named by the request that creates it.  A key stands for a             *)
(* (tenant_id, idempotency_key) pair within one scope.                      *)
(***************************************************************************)
EXTENDS Sequences, Functions

CONSTANTS
    Requests,   \* the calls of the create endpoint; also the ids of the jobs
    Keys,       \* (tenant, Idempotency-Key) pairs
    NoKey,      \* the header is absent or blank
    NoJob,      \* None
    Scope       \* which of the three endpoints is called

ASSUME NoKeyIsNoKey == NoKey \notin Keys
ASSUME NoJobIsNoRequest == NoJob \notin Requests
ASSUME ScopeIsKnown ==
    Scope \in {"parse_jobs.create", "reports.create", "collection_jobs.create"}

VARIABLES
    pc,       \* where each request is in its handler
    key,      \* the normalized idempotency key of each request
    refs,     \* the files or parse jobs the request names
    found,    \* resource_id of the idempotency record the request has read
    answer,   \* the job the request returned to its client
    row,      \* the job row each request inserts
    records,  \* committed idempotency records of this scope
    queue,    \* the job ids in the payloads of the tasks in the queue
    lost      \* tasks that died with "job not found"

vars == <<pc, key, refs, found, answer, row, records, queue, lost>>

-----------------------------------------------------------------------------
PcValues ==
    {"idle", "resolve", "fetch", "insert", "enqueue", "commit",
     "reresolve", "refetch",
     "created", "existing", "rejected", "conflict", "aborted"}

\* The request has been answered, or its process is gone.
Final == {"created", "existing", "rejected", "conflict", "aborted"}

\* "pending" is flushed inside an open transaction: nobody else sees it.
RowValues == {"absent", "pending", "queued", "running", "terminal", "deleted"}
Committed == {"queued", "running", "terminal"}

\* The statement sees the row: it is committed and not deleted.
Visible(j) == row[j] \in Committed

\* The unique constraint (tenant_id, idempotency_key) of the job tables:
\* NULL keys never collide.
SameKey(r, q) == q # r /\ key[r] # NoKey /\ key[q] = key[r]
Duplicates(r) == \E q \in Requests : SameKey(r, q) /\ Visible(q)

\* Mutant: an uncommitted row with the same key does not hold the flush up.
BlockedNever(r) == FALSE

Blocked(r) == \E q \in Requests : SameKey(r, q) /\ row[q] = "pending"

\* The unique constraint (tenant_id, scope, idempotency_key) of
\* IdempotencyRecord.
RecordsOf(k) == {rec \in records : rec.key = k}

\* A request names files or parse jobs of the tenant ("good"), one of them
\* twice, which repeats a primary key of parse_job_files or report_parse_jobs,
\* or one the tenant does not have.  A collection names none.
RefKinds ==
    IF Scope = "collection_jobs.create" THEN {"good"}
    ELSE {"good", "repeated", "unknown"}

Init ==
    /\ pc = [r \in Requests |-> "idle"]
    /\ key = [r \in Requests |-> NoKey]
    /\ refs = [r \in Requests |-> "good"]
    /\ found = [r \in Requests |-> NoJob]
    /\ answer = [r \in Requests |-> NoJob]
    /\ row = [r \in Requests |-> "absent"]
    /\ records = {}
    /\ queue = <<>>
    /\ lost = {}

-----------------------------------------------------------------------------
(* The request *)

\* The request arrives; a blank key counts as none.  An empty file list, an
\* unknown format or an invalid month scope or provider raises at once.
Begin(r, k, kind) ==
    /\ pc[r] = "idle"
    /\ key' = [key EXCEPT ![r] = k]
    /\ refs' = [refs EXCEPT ![r] = kind]
    /\ \/ pc' = [pc EXCEPT ![r] = IF k = NoKey THEN "insert" ELSE "resolve"]
       \/ pc' = [pc EXCEPT ![r] = "rejected"]
    /\ UNCHANGED <<found, answer, row, records, queue, lost>>

\* First SELECT of _resolve_idempotent_*: the idempotency record.
FindRecord(r) ==
    /\ pc[r] \in {"resolve", "reresolve"}
    /\ IF RecordsOf(key[r]) = {}
       THEN /\ pc' = [pc EXCEPT ![r] =
                        IF pc[r] = "resolve" THEN "insert" ELSE "conflict"]
            /\ UNCHANGED found
       ELSE /\ \E rec \in RecordsOf(key[r]) :
                 found' = [found EXCEPT ![r] = rec.job]
            /\ pc' = [pc EXCEPT ![r] =
                        IF pc[r] = "resolve" THEN "fetch" ELSE "refetch"]
    /\ UNCHANGED <<key, refs, answer, row, records, queue, lost>>

\* Second SELECT of _resolve_idempotent_*: the job the record names, which
\* the retention cleanup may have deleted in between.
FetchJob(r) ==
    /\ pc[r] \in {"fetch", "refetch"}
    /\ IF Visible(found[r])
       THEN /\ pc' = [pc EXCEPT ![r] = "existing"]
            /\ answer' = [answer EXCEPT ![r] = found[r]]
       ELSE /\ pc' = [pc EXCEPT ![r] =
                        IF pc[r] = "fetch" THEN "insert" ELSE "conflict"]
            /\ UNCHANGED answer
    /\ UNCHANGED <<key, refs, found, row, records, queue, lost>>

\* The ids of the request are checked against the tenant's rows (ValueError
\* if one is unknown), then the job is added and flushed.  The flush stands
\* outside the try block, so a duplicate key here leaves the handler as an
\* IntegrityError.
InsertJob(r) ==
    /\ pc[r] = "insert"
    /\ \/ /\ refs[r] = "unknown"
          /\ pc' = [pc EXCEPT ![r] = "rejected"]
          /\ UNCHANGED row
       \/ /\ refs[r] # "unknown" /\ ~Blocked(r)
          /\ IF Duplicates(r)
             THEN /\ pc' = [pc EXCEPT ![r] = "conflict"]
                  /\ UNCHANGED row
             ELSE /\ pc' = [pc EXCEPT ![r] = "enqueue"]
                  /\ row' = [row EXCEPT ![r] = "pending"]
    /\ UNCHANGED <<key, refs, found, answer, records, queue, lost>>

\* Mutant: a keyed request relies on somebody else to enqueue.
EnqueueUnkeyedOnly(r) ==
    /\ pc[r] = "enqueue"
    /\ queue' = IF key[r] = NoKey THEN Append(queue, r) ELSE queue
    /\ pc' = [pc EXCEPT ![r] = "commit"]
    /\ UNCHANGED <<key, refs, found, answer, row, records, lost>>

\* queue.enqueue, while the transaction is still open.
EnqueueTask(r) ==
    /\ pc[r] = "enqueue"
    /\ queue' = Append(queue, r)
    /\ pc' = [pc EXCEPT ![r] = "commit"]
    /\ UNCHANGED <<key, refs, found, answer, row, records, lost>>

\* The IdempotencyRecord a keyed request adds.
RecordFor(r) == [key |-> key[r], job |-> r]

\* Mutant: after the rollback the handler returns the object it built.
AnswerOwnRow(r) ==
    /\ row' = [row EXCEPT ![r] = "absent"]
    /\ pc' = [pc EXCEPT ![r] = "created"]
    /\ answer' = [answer EXCEPT ![r] = r]

\* The except branch of the commit: roll back, then look for the existing job.
RollBack(r) ==
    /\ row' = [row EXCEPT ![r] = "absent"]
    /\ pc' = [pc EXCEPT ![r] =
                IF key[r] = NoKey THEN "conflict" ELSE "reresolve"]
    /\ UNCHANGED answer

\* The commit flushes the link rows and the idempotency record and makes
\* all of it visible at once.  On an IntegrityError everything is rolled
\* back and a keyed request looks for the existing job.
Commit(r) ==
    /\ pc[r] = "commit"
    /\ IF refs[r] = "repeated" \/ (key[r] # NoKey /\ RecordsOf(key[r]) # {})
       THEN RollBack(r) /\ UNCHANGED records
       ELSE /\ row' = [row EXCEPT ![r] = "queued"]
            /\ records' = IF key[r] = NoKey THEN records
                          ELSE records \cup {RecordFor(r)}
            /\ pc' = [pc EXCEPT ![r] = "created"]
            /\ answer' = [answer EXCEPT ![r] = r]
    /\ UNCHANGED <<key, refs, found, queue, lost>>

\* Mutant: the connection goes back to the pool with its transaction open.
AbortKeepsTransaction(r) ==
    /\ pc[r] \notin Final \cup {"idle"}
    /\ pc' = [pc EXCEPT ![r] = "aborted"]
    /\ UNCHANGED <<key, refs, found, answer, row, records, queue, lost>>

\* The process dies, Redis refuses the task or the database connection
\* breaks: the transaction is rolled back, an enqueued task stays.
Abort(r) ==
    /\ pc[r] \notin Final \cup {"idle"}
    /\ pc' = [pc EXCEPT ![r] = "aborted"]
    /\ row' = [row EXCEPT ![r] = "absent"]
    /\ UNCHANGED <<key, refs, found, answer, records, queue, lost>>

-----------------------------------------------------------------------------
(* The worker *)

\* A worker takes the next task and looks its job up; a job that is not
\* there raises ValueError, and a task is not retried.
StartTask ==
    /\ queue # <<>>
    /\ queue' = Tail(queue)
    /\ IF Visible(Head(queue))
       THEN /\ row' = [row EXCEPT ![Head(queue)] = "running"]
            /\ UNCHANGED lost
       ELSE /\ lost' = lost \cup {Head(queue)}
            /\ UNCHANGED row
    /\ UNCHANGED <<pc, key, refs, found, answer, records>>

\* The task ends, successfully or not.
EndTask(j) ==
    /\ row[j] = "running"
    /\ row' = [row EXCEPT ![j] = "terminal"]
    /\ UNCHANGED <<pc, key, refs, found, answer, records, queue, lost>>

\* Mutant: the idempotency records are left behind.
RetireKeepsRecord(j) ==
    /\ Scope = "reports.create"
    /\ row[j] = "terminal"
    /\ row' = [row EXCEPT ![j] = "deleted"]
    /\ UNCHANGED <<pc, key, refs, found, answer, records, queue, lost>>

\* run_report_retention_cleanup deletes a finished report and its record in
\* one transaction.  No other kind of job is ever deleted.
Retire(j) ==
    /\ Scope = "reports.create"
    /\ row[j] = "terminal"
    /\ row' = [row EXCEPT ![j] = "deleted"]
    /\ records' = {rec \in records : rec.job # j}
    /\ UNCHANGED <<pc, key, refs, found, answer, queue, lost>>

-----------------------------------------------------------------------------
Handle(r) ==
    \/ FindRecord(r)
    \/ FetchJob(r)
    \/ InsertJob(r)
    \/ EnqueueTask(r)
    \/ Commit(r)

Next ==
    \/ \E r \in Requests, k \in Keys \cup {NoKey}, kind \in RefKinds : Begin(r, k, kind)
    \/ \E r \in Requests : Handle(r) \/ Abort(r)
    \/ StartTask
    \/ \E j \in Requests : EndTask(j) \/ Retire(j)

Spec == Init /\ [][Next]_vars

\* A request's thread keeps running until its handler returns; workers keep
\* polling the queue.
FairSpec ==
    /\ Spec
    /\ \A r \in Requests : WF_vars(Handle(r))
    /\ WF_vars(StartTask)
-----------------------------------------------------------------------------
(* Properties *)

TypeOK ==
    /\ pc \in [Requests -> PcValues]
    /\ key \in [Requests -> Keys \cup {NoKey}]
    /\ refs \in [Requests -> RefKinds]
    /\ found \in [Requests -> Requests \cup {NoJob}]
    /\ answer \in [Requests -> Requests \cup {NoJob}]
    /\ row \in [Requests -> RowValues]
    /\ records \subseteq [key : Keys, job : Requests]
    /\ queue \in Seq(Requests)
    /\ lost \subseteq Requests

\* An idempotency key names one job: a job committed under a key has exactly
\* one record, which points to it, and no record outlives or precedes its job
\* (create_*_job commits both together, the cleanup deletes both together).
KeyNamesOneJob ==
    /\ \A j \in Requests :
         Visible(j) /\ key[j] # NoKey =>
            RecordsOf(key[j]) = {[key |-> key[j], job |-> j]}
    /\ \A rec \in records : Visible(rec.job) /\ key[rec.job] = rec.key

\* Jobs and records fit together, in type and in number.
RecordsConsistent == TypeOK /\ KeyNamesOneJob

\* Whoever reaches the commit with a key finds no record for it: the flush
\* has already decided every race for the key, so the IntegrityError branch
\* of the commit serves repeated references only, never the race it is
\* written for.
CommitMeetsNoRecord ==
    \A r \in Requests :
        pc[r] = "commit" /\ key[r] # NoKey => RecordsOf(key[r]) = {}

\* Replaying a request is safe: two requests with one key that were answered
\* with a job were answered with the same job, unless retention deleted one,
\* and no client was ever given a job that did not reach the database.
AnswersAgree ==
    \A r, q \in Requests :
        /\ answer[r] # NoJob => row[answer[r]] \in Committed \cup {"deleted"}
        /\ (answer[r] # NoJob /\ answer[q] # NoJob /\ SameKey(r, q)) =>
              \/ answer[r] = answer[q]
              \/ "deleted" \in {row[answer[r]], row[answer[q]]}

Tasks == Range(queue) \cup lost

\* Every job that waits to run was given to the queue.
QueuedJobHasTask == \A j \in Requests : row[j] = "queued" => j \in Tasks

\* A request that ends with somebody else's job or with a conflict over its
\* key has left no task behind: the losers of a race are stopped before the
\* enqueue, although the enqueue precedes the commit.
LoserLeavesNoTask ==
    \A r \in Requests :
        pc[r] \in {"existing", "conflict"} /\ refs[r] # "repeated" =>
            r \notin Tasks

\* Waiting for another request's uncommitted key never lasts: every request
\* that was accepted is answered, whatever the others do.
RequestsAnswered ==
    \A r \in Requests : pc[r] # "idle" ~> pc[r] \in Final

\* docs/ARCHITECTURE.md, 5.1: the API "writes `ParseJob(queued)`, enqueues
\* task": a task that runs finds its job, so no committed job is left without
\* a live task.
QueuedJobKeepsItsTask ==
    \A j \in Requests : row[j] = "queued" => j \notin lost
=============================================================================

--------------------------- MODULE CollectionRun ---------------------------
(***************************************************************************)
(* run_collection_job (saas/worker.py): a worker claims a collection job,   *)
(* downloads the invoices of every requested provider, creates a parse job  *)
(* for each provider that gave files, and writes the outcome.               *)
(*                                                                          *)
(* The claim is one transaction, the body a second one; an exception in the *)
(* body rolls it back and a handler marks the job failed in a third.  What  *)
(* the body wrote to the storage and to the queue is not rolled back.       *)
(* Workers are processes of their own; a task may be delivered again (an    *)
(* operator requeues it), and users change their provider settings          *)
(* meanwhile.                                                               *)
(***************************************************************************)
EXTENDS Naturals, Sequences

CONSTANTS
    Jobs,           \* collection jobs, committed and queued
    Workers,        \* RQ worker processes
    NoJob,          \* the worker has no task
    MaxFiles,       \* bound: files one provider returns
    MaxDeliveries,  \* bound: times the task of one job is delivered
    MaxCrashes      \* bound: times a worker process dies

ASSUME NoJobIsNoJob == NoJob \notin Jobs
ASSUME BoundsAreNat ==
    MaxFiles \in Nat /\ MaxDeliveries \in Nat /\ MaxCrashes \in Nat

VARIABLES
    \* the database
    row,         \* CollectionJob rows
    requested,   \* CollectionJob.providers_json, deduplicated by the API
    audit,       \* collection_job.run.* audit events of a job
    fileRows,    \* number of InvoiceFile rows of a job and a provider
    parseJobs,   \* ParseJob rows, by idempotency key: <<job, provider>>
    config,      \* ProviderConfig of the tenant
    \* the storage and the queues
    blobs,       \* number of objects stored for a job and a provider
    task,        \* the parse task of each parse job key
    pending,     \* undelivered tasks of each collection job
    delivered,   \* tasks of each collection job delivered so far
    crashes,
    \* the workers
    pc,
    run          \* the local variables of run_collection_job

dbVars == <<row, requested, audit, fileRows, parseJobs>>
outside == <<blobs, task>>
delivery == <<pending, delivered, crashes>>
vars == <<dbVars, config, outside, delivery, pc, run>>

-----------------------------------------------------------------------------
\* _PROVIDER_ALLOWED_TYPES.
Providers == {"gmail", "outlook"}

Statuses == {"queued", "running", "succeeded", "failed"}
Terminal == {"succeeded", "failed"}

\* A ProviderConfig row is absent, or lacks the connected status or the
\* access token, or can be used.
Configs == {"absent", "unusable", "usable"}

Codes == {"PROVIDER_NOT_FOUND", "PROVIDER_NOT_CONNECTED",
          "PROVIDER_EXECUTOR_ERROR", "PROVIDER_FILE_EMPTY",
          "NO_FILES_DOWNLOADED", "COLLECTION_JOB_EXECUTION_ERROR"}
Failures == [provider : Providers \cup {"all"}, code : Codes]
Failure(p, c) == [provider |-> p, code |-> c]

ParseKeys == Jobs \X Providers

\* A parse task is not enqueued, waits, has found its parse job, or has died
\* because there was none.
TaskStates == {"none", "waiting", "started", "dead"}

Counts == [Providers -> Nat]
NoFiles == [p \in Providers |-> 0]
Total(f) == f["gmail"] + f["outlook"]
WithFiles(f) == {p \in Providers : f[p] > 0}

NewRow == [status |-> "queued", discovered |-> 0, downloaded |-> 0,
           parseIds |-> {}, errors |-> {}]

\* The local variables of a worker without a task, or at the start of one.
NewRun(j) == [job |-> j, snapshot |-> [p \in Providers |-> "absent"],
              todo |-> {}, files |-> NoFiles, seen |-> 0,
              failures |-> {}, made |-> {}]

Init ==
    /\ row = [j \in Jobs |-> NewRow]
    /\ requested \in [Jobs -> (SUBSET Providers) \ {{}}]
    /\ audit = [j \in Jobs |-> <<>>]
    /\ fileRows = [j \in Jobs |-> NoFiles]
    /\ parseJobs = {}
    /\ config \in [Providers -> Configs]
    /\ blobs = [j \in Jobs |-> NoFiles]
    /\ task = [t \in ParseKeys |-> "none"]
    /\ pending = [j \in Jobs |-> 1]
    /\ delivered = [j \in Jobs |-> 0]
    /\ crashes = 0
    /\ pc = [w \in Workers |-> "idle"]
    /\ run = [w \in Workers |-> NewRun(NoJob)]

-----------------------------------------------------------------------------
(* The claim *)

\* Mutant: the UPDATE matches the id alone.
ClaimableAlways(j) == TRUE

\* The WHERE clause of the claiming UPDATE.
Claimable(j) == row[j].status = "queued"

\* A delivery: the UPDATE ... WHERE status = 'queued' and the audit event are
\* one transaction.  A job that is not queued is left alone, the task ends.
Claim(w, j) ==
    /\ pc[w] = "idle" /\ pending[j] > 0
    /\ pending' = [pending EXCEPT ![j] = @ - 1]
    /\ delivered' = [delivered EXCEPT ![j] = @ + 1]
    /\ IF Claimable(j)
       THEN /\ row' = [row EXCEPT ![j].status = "running", ![j].errors = {}]
            /\ audit' = [audit EXCEPT ![j] = Append(@, "started")]
            /\ pc' = [pc EXCEPT ![w] = "load"]
            /\ run' = [run EXCEPT ![w] = NewRun(j)]
       ELSE UNCHANGED <<row, audit, pc, run>>
    /\ UNCHANGED <<requested, fileRows, parseJobs, config, outside, crashes>>

\* The claim is outside the try: when building the storage or the queue, the
\* UPDATE or its commit raises, the task is gone and the job as it was.
ClaimFails(w, j) ==
    /\ pc[w] = "idle" /\ pending[j] > 0
    /\ pending' = [pending EXCEPT ![j] = @ - 1]
    /\ delivered' = [delivered EXCEPT ![j] = @ + 1]
    /\ UNCHANGED <<dbVars, config, outside, crashes, pc, run>>

-----------------------------------------------------------------------------
(* The body *)

\* Reads the job and the provider rows it needs, once for the whole run.
Load(w) ==
    /\ pc[w] = "load"
    /\ pc' = [pc EXCEPT ![w] = "collect"]
    /\ run' = [run EXCEPT ![w].snapshot = config,
                          ![w].todo = requested[run[w].job]]
    /\ UNCHANGED <<dbVars, config, outside, delivery>>

\* A provider that gives nothing leaves a failure entry and is passed over.
GiveUp(w, p, c) ==
    run' = [run EXCEPT ![w].todo = @ \ {p},
                       ![w].failures = @ \cup {Failure(p, c)}]

\* One turn of the provider loop that ends in a failure entry.
SkipProvider(w, p) ==
    /\ pc[w] = "collect" /\ p \in run[w].todo
    /\ \/ run[w].snapshot[p] = "absent" /\ GiveUp(w, p, "PROVIDER_NOT_FOUND")
       \/ run[w].snapshot[p] = "unusable" /\ GiveUp(w, p, "PROVIDER_NOT_CONNECTED")
       \/ run[w].snapshot[p] = "usable" /\ GiveUp(w, p, "PROVIDER_EXECUTOR_ERROR")
    /\ UNCHANGED <<dbVars, config, outside, delivery, pc>>

\* The failure entries of the empty payloads among the files of a provider.
EmptyFailures(p, n, e) ==
    IF e > 0 THEN {Failure(p, "PROVIDER_FILE_EMPTY")} ELSE {}

\* One turn of the provider loop in which the executor returns n files, e of
\* them empty; the others are stored and their rows flushed.
CollectProvider(w, p, n, e) ==
    /\ pc[w] = "collect" /\ p \in run[w].todo
    /\ run[w].snapshot[p] = "usable"
    /\ e <= n
    /\ blobs' = [blobs EXCEPT ![run[w].job][p] = @ + (n - e)]
    /\ run' = [run EXCEPT ![w].todo = @ \ {p},
                          ![w].seen = @ + n,
                          ![w].files[p] = n - e,
                          ![w].failures = @ \cup EmptyFailures(p, n, e)]
    /\ UNCHANGED <<dbVars, config, task, delivery, pc>>

\* The key collection:<job>:<provider> is unique among parse jobs.
KeyTaken(j, p) == <<j, p>> \in parseJobs

\* Mutant: the parse job is left for somebody else to enqueue.
FanOutWithoutTask(w, p) ==
    /\ pc[w] = "collect" /\ run[w].todo = {}
    /\ p \in WithFiles(run[w].files) \ run[w].made
    /\ run' = [run EXCEPT ![w].made = @ \cup {p}]
    /\ UNCHANGED <<dbVars, config, outside, delivery, pc>>

\* Creates the parse job of one provider that gave files, flushes it and
\* enqueues its task; the rows become visible with the final commit.
FanOut(w, p) ==
    /\ pc[w] = "collect" /\ run[w].todo = {}
    /\ p \in WithFiles(run[w].files) \ run[w].made
    /\ IF KeyTaken(run[w].job, p)
       THEN /\ pc' = [pc EXCEPT ![w] = "except"]
            /\ UNCHANGED <<task, run>>
       ELSE /\ task' = [task EXCEPT ![<<run[w].job, p>>] = "waiting"]
            /\ run' = [run EXCEPT ![w].made = @ \cup {p}]
            /\ UNCHANGED pc
    /\ UNCHANGED <<dbVars, config, blobs, delivery>>

\* The failures of a run; one that brought nothing is itself a failure.
Outcome(w) ==
    IF Total(run[w].files) = 0 /\ run[w].failures = {}
    THEN {Failure("all", "NO_FILES_DOWNLOADED")}
    ELSE run[w].failures

StatusFor(fails) == IF fails = {} THEN "succeeded" ELSE "failed"

\* Mutant: the parse jobs are committed before the job row is written, and
\* a worker may die in between.
FinishInTwo(w) ==
    LET j == run[w].job IN
    /\ pc[w] = "collect" /\ run[w].todo = {}
    /\ run[w].made = WithFiles(run[w].files)
    /\ fileRows' = [fileRows EXCEPT ![j] = run[w].files]
    /\ parseJobs' = parseJobs \cup ({j} \X run[w].made)
    /\ pc' = [pc EXCEPT ![w] = "except"]
    /\ UNCHANGED <<row, audit, run, requested, config, outside, delivery>>

\* The commit that ends the body: files, parse jobs, counters, status.
Finish(w) ==
    LET j == run[w].job IN
    /\ pc[w] = "collect" /\ run[w].todo = {}
    /\ run[w].made = WithFiles(run[w].files)
    /\ row' = [row EXCEPT ![j] =
                 [status |-> StatusFor(Outcome(w)),
                  discovered |-> run[w].seen,
                  downloaded |-> Total(run[w].files),
                  parseIds |-> run[w].made,
                  errors |-> Outcome(w)]]
    /\ audit' = [audit EXCEPT ![j] = Append(@, StatusFor(Outcome(w)))]
    /\ fileRows' = [fileRows EXCEPT ![j] = run[w].files]
    /\ parseJobs' = parseJobs \cup ({j} \X run[w].made)
    /\ pc' = [pc EXCEPT ![w] = "idle"]
    /\ run' = [run EXCEPT ![w] = NewRun(NoJob)]
    /\ UNCHANGED <<requested, config, outside, delivery>>

-----------------------------------------------------------------------------
(* Failures *)

\* Mutant: the exception ends the task without the except branch.
RaiseUncaught(w) ==
    /\ pc[w] \in {"load", "collect"}
    /\ pc' = [pc EXCEPT ![w] = "idle"]
    /\ run' = [run EXCEPT ![w] = NewRun(NoJob)]
    /\ UNCHANGED <<dbVars, config, outside, delivery>>

\* The storage, the database or the queue raises inside the body.
Raise(w) ==
    /\ pc[w] \in {"load", "collect"}
    /\ pc' = [pc EXCEPT ![w] = "except"]
    /\ UNCHANGED <<dbVars, config, outside, delivery, run>>

\* The except branch: the body is rolled back, the job marked failed; the
\* counters and parse_job_ids keep what the row had.
MarkFailed(w) ==
    LET j == run[w].job IN
    /\ pc[w] = "except"
    /\ row' = [row EXCEPT
                 ![j].status = "failed",
                 ![j].errors = {Failure("all", "COLLECTION_JOB_EXECUTION_ERROR")}]
    /\ audit' = [audit EXCEPT ![j] = Append(@, "failed")]
    /\ pc' = [pc EXCEPT ![w] = "idle"]
    /\ run' = [run EXCEPT ![w] = NewRun(NoJob)]
    /\ UNCHANGED <<requested, fileRows, parseJobs, config, outside, delivery>>

\* The worker process dies, or the except branch itself raises: the open
\* transaction is rolled back and the task is gone.
Crash(w) ==
    /\ pc[w] # "idle" /\ crashes < MaxCrashes
    /\ crashes' = crashes + 1
    /\ pc' = [pc EXCEPT ![w] = "idle"]
    /\ run' = [run EXCEPT ![w] = NewRun(NoJob)]
    /\ UNCHANGED <<dbVars, config, outside, pending, delivered>>

-----------------------------------------------------------------------------
(* The surroundings *)

\* The task of a job is queued again.
Redeliver(j) ==
    /\ pending[j] + delivered[j] < MaxDeliveries
    /\ pending' = [pending EXCEPT ![j] = @ + 1]
    /\ UNCHANGED <<dbVars, config, outside, delivered, crashes, pc, run>>

\* A user creates, connects, disconnects or deletes a provider config.
Reconfigure(p, c) ==
    /\ c # config[p]
    /\ config' = [config EXCEPT ![p] = c]
    /\ UNCHANGED <<dbVars, outside, delivery, pc, run>>

\* A worker starts a parse task: it finds its committed row, or it dies.
StartParse(t) ==
    /\ task[t] = "waiting"
    /\ task' = [task EXCEPT ![t] = IF t \in parseJobs THEN "started" ELSE "dead"]
    /\ UNCHANGED <<dbVars, config, blobs, delivery, pc, run>>

-----------------------------------------------------------------------------
Work(w) ==
    \/ Load(w)
    \/ \E p \in Providers : SkipProvider(w, p) \/ FanOut(w, p)
    \/ \E p \in Providers, n \in 0..MaxFiles, e \in 0..MaxFiles :
          CollectProvider(w, p, n, e)
    \/ Finish(w)
    \/ Raise(w)
    \/ MarkFailed(w)

Next ==
    \/ \E w \in Workers, j \in Jobs : Claim(w, j) \/ ClaimFails(w, j)
    \/ \E w \in Workers : Work(w) \/ Crash(w)
    \/ \E j \in Jobs : Redeliver(j)
    \/ \E p \in Providers, c \in Configs : Reconfigure(p, c)
    \/ \E t \in ParseKeys : StartParse(t)

Spec == Init /\ [][Next]_vars

\* Some worker keeps polling, and a worker that runs a task goes on with it.
FairSpec ==
    /\ Spec
    /\ \A j \in Jobs : WF_vars(\E w \in Workers : Claim(w, j) \/ ClaimFails(w, j))
    /\ \A w \in Workers : WF_vars(Work(w))
-----------------------------------------------------------------------------
(* Properties *)

Rows == [status : Statuses, discovered : Nat, downloaded : Nat,
         parseIds : SUBSET Providers, errors : SUBSET Failures]
Runs == [job : Jobs \cup {NoJob}, snapshot : [Providers -> Configs],
         todo : SUBSET Providers, files : Counts, seen : Nat,
         failures : SUBSET Failures, made : SUBSET Providers]

TypeOK ==
    /\ row \in [Jobs -> Rows]
    /\ requested \in [Jobs -> SUBSET Providers]
    /\ audit \in [Jobs -> Seq({"started", "succeeded", "failed"})]
    /\ fileRows \in [Jobs -> Counts]
    /\ parseJobs \subseteq ParseKeys
    /\ config \in [Providers -> Configs]
    /\ blobs \in [Jobs -> Counts]
    /\ task \in [ParseKeys -> TaskStates]
    /\ pending \in [Jobs -> Nat]
    /\ delivered \in [Jobs -> Nat]
    /\ crashes \in Nat
    /\ pc \in [Workers -> {"idle", "load", "collect", "except"}]
    /\ run \in [Workers -> Runs]

\* Who polls the job sees queued, then running, then a final status, and a
\* redelivered task never starts it again (docs/ARCHITECTURE.md, 3.3).
Lifecycle == INSTANCE JobLifecycle
                WITH status <- [j \in Jobs |-> row[j].status]
FollowsLifecycle == Lifecycle!Spec

\* A job is in the hands of one worker at most, and only while it is running.
OneWorkerPerJob ==
    \A w \in Workers : pc[w] # "idle" =>
        /\ row[run[w].job].status = "running"
        /\ \A v \in Workers : pc[v] # "idle" /\ run[v].job = run[w].job => v = w

\* The audit trail tells the story of the row: one start, then one outcome,
\* the one the row shows, whatever was redelivered, raised or crashed.
AuditMatchesStatus ==
    \A j \in Jobs :
        /\ row[j].status = "queued" => audit[j] = <<>>
        /\ row[j].status = "running" => audit[j] = <<"started">>
        /\ row[j].status \in Terminal => audit[j] = <<"started", row[j].status>>

\* Files, parse jobs and counters appear together with the final status or
\* not at all, and they agree: every file row belongs to the one parse job of
\* its provider, and the row lists exactly the parse jobs that exist.
OutcomeIsWhole ==
    \A j \in Jobs :
        /\ WithFiles(fileRows[j]) = row[j].parseIds
        /\ row[j].parseIds = {p \in Providers : <<j, p>> \in parseJobs}
        /\ row[j].downloaded = Total(fileRows[j])
        /\ row[j].status \notin Terminal => fileRows[j] = NoFiles

\* succeeded means that every file that was found was stored, and that there
\* was one; failed always says why (contract, section 6: "failed when any
\* provider fails or no files are downloaded").
SucceededIsComplete ==
    \A j \in Jobs :
        /\ row[j].status = "succeeded" =>
             /\ row[j].errors = {}
             /\ row[j].discovered = row[j].downloaded /\ row[j].downloaded > 0
        /\ row[j].status = "failed" => row[j].errors # {}

ExecutionError == Failure("all", "COLLECTION_JOB_EXECUTION_ERROR")

\* The storage holds an object for every file row, and more than that only
\* for a job whose run raised, crashed or is still going.
StorageMatchesRows ==
    \A j \in Jobs :
        /\ \A p \in Providers : fileRows[j][p] <= blobs[j][p]
        /\ row[j].status \in Terminal /\ ExecutionError \notin row[j].errors =>
             blobs[j] = fileRows[j]

\* No parse job exists whose task was not enqueued, and a task whose parse job
\* does not exist belongs to a run that raised, died or is still going.
ParseJobHasTask ==
    \A t \in ParseKeys :
        /\ t \in parseJobs => task[t] # "none"
        /\ task[t] # "none" /\ t \notin parseJobs =>
             row[t[1]].status = "running" \/ ExecutionError \in row[t[1]].errors

\* As long as no worker process dies in its body, a claimed job reaches a
\* final status whatever the body raises.  A job stays queued for good only
\* when each of its tasks was spent on a claim that raised.
EveryJobEnds ==
    \A j \in Jobs :
        row[j].status = "queued" ~>
            \/ row[j].status \in Terminal
            \/ crashes > 0
            \/ row[j].status = "queued" /\ pending[j] = 0

\* What the row, its files and its audit trail say of a job agrees at every
\* moment, whatever was redelivered, raised or crashed.
OutcomeConsistent ==
    TypeOK /\ AuditMatchesStatus /\ OutcomeIsWhole /\ SucceededIsComplete

\* What run_collection_job wrote outside the database, objects and tasks,
\* covers what its commit put into it.
SideEffectsCover == StorageMatchesRows /\ ParseJobHasTask
=============================================================================

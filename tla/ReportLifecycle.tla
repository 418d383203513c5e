-------------------------- MODULE ReportLifecycle --------------------------
(***************************************************************************)
(* The life of a report after its creation: run_report_job writes its files *)
(* and artifact rows, retry_report_job puts it back in the queue, and       *)
(* run_report_retention_cleanup deletes it with its files once it has been  *)
(* finished for the retention period (saas/worker.py, saas/service.py).     *)
(*                                                                          *)
(* The three run in processes of their own against one database and one     *)
(* storage.  The storage is not transactional: the files of a report live   *)
(* at keys that depend on the report and the format alone and are           *)
(* overwritten and deleted at once, while the rows wait for the commit.     *)
(* A DELETE statement works on the rows that were committed when it began   *)
(* and waits for a transaction that has deleted one of them.                *)
(***************************************************************************)
EXTENDS Naturals, Sequences, FiniteSets, OrmSession

CONSTANTS
    Reports,     \* reports, committed and queued with their first task
    Formats,     \* the formats a report can have
    Requested,   \* Report.requested_formats_json, or the default of the worker:
                 \* a list the API takes as it is, so a format may come twice
    Executors,   \* executions of run_report_job
    Retries,     \* calls of retry_report_job
    Cleaners,    \* executions of run_report_retention_cleanup
    NoReport,    \* the actor has no report
    MaxWorkers,  \* bound: RQ worker processes
    MaxRaises,   \* bound: exceptions in the body of an execution
    MaxCrashes   \* bound: processes that die

ASSUME NoReportIsNoReport == NoReport \notin Reports
ASSUME RequestedIsList == Requested \in Seq(Formats) /\ Requested # <<>>
ASSUME ActorsDiffer ==
    /\ Executors \cap Retries = {}
    /\ (Executors \cup Retries) \cap Cleaners = {}
ASSUME ExecutorsAreFinite == IsFiniteSet(Executors)
ASSUME BoundsAreNat ==
    MaxWorkers \in Nat /\ MaxRaises \in Nat /\ MaxCrashes \in Nat

Users == Executors \cup Retries
Actors == Users \cup Cleaners

VARIABLES
    row,        \* Report rows
    exists,     \* the reports that have a row
    artifacts,  \* ReportArtifact rows, with the execution that wrote them
    stored,     \* files in the storage, by report and format
    tasks,      \* number of tasks of a report in the queue
    pc,         \* where each actor is
    rep,        \* the report an executor or a retry works on
    loaded,     \* the row as the open session of a user read it
    target,     \* the rows an actor's DELETE statement found
    dropped,    \* the rows an actor has deleted and not yet committed
    saved,      \* the entries of the list an executor has written
    stale,      \* the reports a cleaner selected and not yet processed
    doomed,     \* the reports a cleaner will delete when it commits
    workers,    \* RQ worker processes of the deployment
    raises,
    crashes

failures == <<raises, crashes>>
db == <<row, exists, artifacts>>
cleaning == <<stale, doomed>>
vars == <<db, stored, tasks, pc, rep, loaded, target, dropped, saved,
          cleaning, workers, failures>>

-----------------------------------------------------------------------------
Terminal == {"succeeded", "failed"}
Statuses == {"queued", "running"} \cup Terminal

\* finished_at is NULL, within the retention period, or past it.
Rows == [status : Statuses, finished : {"null", "recent", "past"}]
NewRow == [status |-> "queued", finished |-> "null"]

\* An artifact row is known by the entry of the requested list it was written
\* for; its format, and with it the storage key, is the one of that entry.
Entries == DOMAIN Requested
ArtifactRows == [report : Reports, entry : Entries, by : Executors]
Keys == Reports \X Formats
KeyOf(a) == <<a.report, Requested[a.entry]>>

RowsOf(r) == {a \in artifacts : a.report = r}
Ended == {"done", "dead"}

\* Somebody else has deleted one of the rows and not committed yet.
Waits(a) == \E b \in Actors \ {a} : target[a] \cap dropped[b] # {}

Init ==
    /\ row = [r \in Reports |-> NewRow]
    /\ exists = Reports
    /\ artifacts = {}
    /\ stored = {}
    /\ tasks = [r \in Reports |-> 1]
    /\ pc = [a \in Actors |-> "new"]
    /\ rep = [u \in Users |-> NoReport]
    /\ loaded = [u \in Users |-> NewRow]
    /\ target = [a \in Actors |-> {}]
    /\ dropped = [a \in Actors |-> {}]
    /\ saved = [x \in Executors |-> {}]
    /\ stale = [c \in Cleaners |-> {}]
    /\ doomed = [c \in Cleaners |-> {}]
    /\ workers \in 1..MaxWorkers
    /\ raises = 0
    /\ crashes = 0

Goto(a, where) == pc' = [pc EXCEPT ![a] = where]

-----------------------------------------------------------------------------
(* run_report_job *)

\* A worker takes a task and reads the report; without one the task dies.
Begin(x, r) ==
    /\ pc[x] = "new" /\ tasks[r] > 0
    /\ Cardinality({y \in Executors : pc[y] \notin Ended \cup {"new"}}) < workers
    /\ tasks' = [tasks EXCEPT ![r] = @ - 1]
    /\ rep' = [rep EXCEPT ![x] = r]
    /\ IF r \in exists
       THEN Goto(x, "starting") /\ loaded' = [loaded EXCEPT ![x] = row[r]]
       ELSE Goto(x, "dead") /\ UNCHANGED loaded
    /\ UNCHANGED <<db, stored, target, dropped, saved, cleaning, workers, failures>>

\* Commits status = running, whatever the status was; finished_at is left.
MarkRunning(x) ==
    /\ pc[x] = "starting"
    /\ IF rep[x] \in exists
       THEN /\ row' = [row EXCEPT ![rep[x]] =
                         Flushed(@, loaded[x], [loaded[x] EXCEPT !.status = "running"])]
            /\ Goto(x, "started")
       ELSE Goto(x, "dead") /\ UNCHANGED row
    /\ UNCHANGED <<exists, artifacts, stored, tasks, rep, loaded, target,
                   dropped, saved, cleaning, workers, failures>>

\* The second transaction reads the report, its links and the invoices, and
\* its DELETE of the old artifact rows begins.
Load(x) ==
    /\ pc[x] = "started"
    /\ IF rep[x] \in exists
       THEN /\ loaded' = [loaded EXCEPT ![x] = row[rep[x]]]
            /\ target' = [target EXCEPT ![x] = RowsOf(rep[x])]
            /\ Goto(x, "dropping")
       ELSE Goto(x, "raised") /\ UNCHANGED <<loaded, target>>
    /\ UNCHANGED <<db, stored, tasks, rep, dropped, saved, cleaning, workers, failures>>

\* Mutants: the deletion is committed by itself, or left out.
DropOldAtOnce(x) ==
    /\ pc[x] = "dropping" /\ ~Waits(x)
    /\ artifacts' = artifacts \ target[x]
    /\ Goto(x, "saving")
    /\ UNCHANGED <<row, exists, stored, tasks, rep, loaded, target, dropped,
                   saved, cleaning, workers, failures>>

\* The DELETE goes through.
DropOld(x) ==
    /\ pc[x] = "dropping" /\ ~Waits(x)
    /\ dropped' = [dropped EXCEPT ![x] = target[x] \cap artifacts]
    /\ Goto(x, "saving")
    /\ UNCHANGED <<db, stored, tasks, rep, loaded, target, saved, cleaning, workers, failures>>

\* storage.save_bytes for one entry of the list.
Save(x, e) ==
    /\ pc[x] = "saving" /\ e \notin saved[x]
    /\ stored' = stored \cup {<<rep[x], Requested[e]>>}
    /\ saved' = [saved EXCEPT ![x] = @ \cup {e}]
    /\ UNCHANGED <<db, tasks, pc, rep, loaded, target, dropped, cleaning, workers, failures>>

\* The transaction of an actor is over.
Release(a) ==
    /\ target' = [target EXCEPT ![a] = {}]
    /\ dropped' = [dropped EXCEPT ![a] = {}]

\* The artifact rows of an execution, one for each entry of the list.
NewRows(x) == {[report |-> rep[x], entry |-> e, by |-> x] : e \in saved[x]}

\* Commits the new artifact rows, the deletion of the old ones and the status.
\* finished_at is a new timestamp, so it is always written.  A report that is
\* gone makes the flush raise.
Succeed(x) ==
    /\ pc[x] = "saving" /\ saved[x] = Entries
    /\ IF rep[x] \in exists
       THEN /\ artifacts' = (artifacts \ dropped[x]) \cup NewRows(x)
            /\ row' = [row EXCEPT ![rep[x]] =
                         [Flushed(@, loaded[x], [loaded[x] EXCEPT !.status = "succeeded"])
                            EXCEPT !.finished = "recent"]]
            /\ Goto(x, "done")
       ELSE Goto(x, "raised") /\ UNCHANGED <<artifacts, row>>
    /\ Release(x)
    /\ UNCHANGED <<exists, stored, tasks, rep, loaded, saved, cleaning, workers, failures>>

\* Mutants: the files written so far are removed; the exception is not caught.
RaiseAndRemove(x) ==
    /\ pc[x] \in {"started", "dropping", "saving"} /\ raises < MaxRaises
    /\ raises' = raises + 1
    /\ stored' = stored \ {<<rep[x], Requested[e]>> : e \in saved[x]}
    /\ Goto(x, "raised")
    /\ Release(x)
    /\ UNCHANGED <<db, tasks, rep, loaded, saved, cleaning, workers, crashes>>
RaiseUncaught(x) ==
    /\ pc[x] \in {"started", "dropping", "saving"} /\ raises < MaxRaises
    /\ raises' = raises + 1
    /\ Goto(x, "dead")
    /\ Release(x)
    /\ UNCHANGED <<db, stored, tasks, rep, loaded, saved, cleaning, workers, crashes>>

\* The storage or the database raises in the body.
Raise(x) ==
    /\ pc[x] \in {"started", "dropping", "saving"} /\ raises < MaxRaises
    /\ raises' = raises + 1
    /\ Goto(x, "raised")
    /\ Release(x)
    /\ UNCHANGED <<db, stored, tasks, rep, loaded, saved, cleaning, workers, crashes>>

\* The except branch reads the report in a new session ...
Reload(x) ==
    /\ pc[x] = "raised"
    /\ IF rep[x] \in exists
       THEN Goto(x, "failing") /\ loaded' = [loaded EXCEPT ![x] = row[rep[x]]]
       ELSE Goto(x, "dead") /\ UNCHANGED loaded
    /\ UNCHANGED <<db, stored, tasks, rep, target, dropped, saved, cleaning, workers, failures>>

\* ... and commits status = failed; without the row the task dies.
Fail(x) ==
    /\ pc[x] = "failing"
    /\ IF rep[x] \in exists
       THEN /\ row' = [row EXCEPT ![rep[x]] =
                         [Flushed(@, loaded[x], [loaded[x] EXCEPT !.status = "failed"])
                            EXCEPT !.finished = "recent"]]
            /\ Goto(x, "done")
       ELSE Goto(x, "dead") /\ UNCHANGED row
    /\ UNCHANGED <<exists, artifacts, stored, tasks, rep, loaded, target,
                   dropped, saved, cleaning, workers, failures>>

-----------------------------------------------------------------------------
(* retry_report_job *)

\* The report is read, whatever its status; an unknown one is a 404.
RetryRead(q, r) ==
    /\ pc[q] = "new"
    /\ rep' = [rep EXCEPT ![q] = r]
    /\ IF r \in exists
       THEN Goto(q, "found") /\ loaded' = [loaded EXCEPT ![q] = row[r]]
       ELSE Goto(q, "done") /\ UNCHANGED loaded
    /\ UNCHANGED <<db, stored, tasks, target, dropped, saved, cleaning, workers, failures>>

\* The task is enqueued first ...
RetryEnqueue(q) ==
    /\ pc[q] = "found"
    /\ tasks' = [tasks EXCEPT ![rep[q]] = @ + 1]
    /\ Goto(q, "enqueued")
    /\ UNCHANGED <<db, stored, rep, loaded, target, dropped, saved, cleaning, workers, failures>>

\* ... then the row is reset; the flush raises if it is gone.
RetryCommit(q) ==
    /\ pc[q] = "enqueued"
    /\ IF rep[q] \in exists
       THEN row' = [row EXCEPT ![rep[q]] = Flushed(@, loaded[q], NewRow)]
       ELSE UNCHANGED row
    /\ Goto(q, "done")
    /\ UNCHANGED <<exists, artifacts, stored, tasks, rep, loaded, target,
                   dropped, saved, cleaning, workers, failures>>

-----------------------------------------------------------------------------
(* run_report_retention_cleanup *)

\* Mutant: the comparison with the cutoff is left out.
PastRetentionDropped(r) == row[r].finished \in {"recent", "past"}

\* finished_at IS NOT NULL AND finished_at < cutoff
PastRetention(r) == row[r].finished = "past"

Select(c) ==
    /\ pc[c] = "new"
    /\ stale' = [stale EXCEPT ![c] = {r \in exists : PastRetention(r)}]
    /\ Goto(c, "purging")
    /\ UNCHANGED <<db, stored, tasks, rep, loaded, target, dropped, saved,
                   doomed, workers, failures>>

\* Reads the artifact rows of the next report, deletes their files, and the
\* DELETE of the rows begins.
Purge(c, r) ==
    /\ pc[c] = "purging" /\ r \in stale[c]
    /\ stored' = stored \ {KeyOf(a) : a \in RowsOf(r)}
    /\ target' = [target EXCEPT ![c] = RowsOf(r)]
    /\ stale' = [stale EXCEPT ![c] = @ \ {r}]
    /\ doomed' = [doomed EXCEPT ![c] = @ \cup {r}]
    /\ Goto(c, "dropping")
    /\ UNCHANGED <<db, tasks, rep, loaded, dropped, saved, workers, failures>>

\* The DELETE of the artifact rows goes through, then those of the links and
\* of the idempotency record; the report row is marked for deletion.
DropRows(c) ==
    /\ pc[c] = "dropping" /\ ~Waits(c)
    /\ dropped' = [dropped EXCEPT ![c] = @ \cup (target[c] \cap artifacts)]
    /\ Goto(c, "purging")
    /\ UNCHANGED <<db, stored, tasks, rep, loaded, target, saved, cleaning, workers, failures>>

\* An artifact row the cleanup has not deleted refers to one of its reports.
Referenced(c) == \E r \in doomed[c] : ~(RowsOf(r) \subseteq dropped[c])

\* The one commit of the cleanup deletes the reports.  An artifact row that
\* came in meanwhile keeps its report: the foreign key makes it all roll back.
CleanupCommit(c) ==
    /\ pc[c] = "purging" /\ stale[c] = {}
    /\ IF Referenced(c)
       THEN Goto(c, "dead") /\ UNCHANGED <<artifacts, exists>>
       ELSE /\ artifacts' = artifacts \ dropped[c]
            /\ exists' = exists \ doomed[c]
            /\ Goto(c, "done")
    /\ Release(c)
    /\ UNCHANGED <<row, stored, tasks, rep, loaded, saved, cleaning, workers, failures>>

-----------------------------------------------------------------------------
\* A process dies, or a retry or a cleanup raises: its transaction is rolled
\* back, its writes to the storage and the queue stay.
Die(a) ==
    /\ pc[a] \notin Ended \cup {"new"} /\ crashes < MaxCrashes
    /\ crashes' = crashes + 1
    /\ Goto(a, "dead")
    /\ Release(a)
    /\ UNCHANGED <<db, stored, tasks, rep, loaded, saved, cleaning, workers, raises>>

Busy(r) == \E u \in Users : rep[u] = r /\ pc[u] \notin Ended

\* The retention period of a finished report passes.  It is a day at least,
\* much longer than an execution or a request.
Age(r) ==
    /\ r \in exists /\ row[r].finished = "recent" /\ ~Busy(r)
    /\ row' = [row EXCEPT ![r].finished = "past"]
    /\ UNCHANGED <<exists, artifacts, stored, tasks, pc, rep, loaded, target,
                   dropped, saved, cleaning, workers, failures>>

Execute(x) ==
    \/ MarkRunning(x) \/ Load(x) \/ DropOld(x)
    \/ \E e \in Entries : Save(x, e)
    \/ Succeed(x) \/ Raise(x) \/ Reload(x) \/ Fail(x)

Clean(c) ==
    \/ Select(c) \/ DropRows(c) \/ CleanupCommit(c)
    \/ \E r \in Reports : Purge(c, r)

Next ==
    \/ \E x \in Executors, r \in Reports : Begin(x, r)
    \/ \E x \in Executors : Execute(x)
    \/ \E q \in Retries, r \in Reports : RetryRead(q, r)
    \/ \E q \in Retries : RetryEnqueue(q) \/ RetryCommit(q)
    \/ \E c \in Cleaners : Clean(c)
    \/ \E a \in Actors : Die(a)
    \/ \E r \in Reports : Age(r)

Spec == Init /\ [][Next]_vars

\* Workers keep taking tasks, and whoever has begun goes on.
FairSpec ==
    /\ Spec
    /\ \A r \in Reports : WF_vars(\E x \in Executors : Begin(x, r))
    /\ \A x \in Executors : WF_vars(Execute(x))
    /\ \A q \in Retries : WF_vars(RetryEnqueue(q) \/ RetryCommit(q))
    /\ \A c \in Cleaners : WF_vars(Clean(c))

-----------------------------------------------------------------------------
(* Properties *)

TypeOK ==
    /\ row \in [Reports -> Rows]
    /\ exists \subseteq Reports
    /\ artifacts \subseteq ArtifactRows
    /\ stored \subseteq Keys
    /\ tasks \in [Reports -> Nat]
    /\ pc \in [Actors -> {"new", "starting", "started", "dropping", "saving",
                          "raised", "failing", "found", "enqueued", "purging",
                          "done", "dead"}]
    /\ rep \in [Users -> Reports \cup {NoReport}]
    /\ loaded \in [Users -> Rows]
    /\ target \in [Actors -> SUBSET ArtifactRows]
    /\ dropped \in [Actors -> SUBSET ArtifactRows]
    /\ saved \in [Executors -> SUBSET Entries]
    /\ stale \in [Cleaners -> SUBSET Reports]
    /\ doomed \in [Cleaners -> SUBSET Reports]
    /\ workers \in 1..MaxWorkers
    /\ raises \in Nat /\ crashes \in Nat

\* A report that shows succeeded has an artifact for every entry of its list of
\* formats, however executions, retries and cleanups overlap: the old artifact
\* rows go and the new ones come in one commit.
SucceededHasEveryEntry ==
    \A r \in exists : row[r].status = "succeeded" =>
        \A e \in Entries : \E a \in artifacts : a.report = r /\ a.entry = e

\* No artifact row outlives its report.
ArtifactsHaveReport == \A a \in artifacts : a.report \in exists

Retried(r) == \E q \in Retries : rep[q] = r
CleanupBegun == \E c \in Cleaners : pc[c] # "new"

\* What a client is offered can be downloaded: every artifact row of a report
\* that is not past its retention has its file.  Executions and retries may
\* overlap at will, and a cleanup may die halfway; the one combination in
\* which files disappear is a retry together with a cleanup.
OfferedFileExists ==
    \A a \in artifacts :
        \/ row[a.report].finished = "past"
        \/ Retried(a.report) /\ CleanupBegun
        \/ KeyOf(a) \in stored

\* A report that nobody retries is deleted only when it is past retention.
UnretriedKeptUntilPast ==
    [][\A r \in exists \ exists' : Retried(r) \/ row[r].finished = "past"]_vars

\* A report that is neither retried nor hit by a crash gets a final status.
UnretriedReportEnds ==
    \A r \in Reports :
        row[r].status = "queued" ~>
            row[r].status \in Terminal \/ Retried(r) \/ crashes > 0

\* The artifacts of a report are those of one execution, as long as one worker
\* runs the tasks: an execution replaces the rows of the one before.  A format
\* is then listed as often as the request names it, which nothing stops from
\* naming it twice.
OneExecutionPerReport ==
    workers = 1 =>
        \A a, b \in artifacts : a.report = b.report => a.by = b.by

\* The artifact rows of run_report_job fit the report they belong to, however
\* executions, retries and cleanups overlap.
ArtifactsConsistent ==
    TypeOK /\ SucceededHasEveryEntry /\ ArtifactsHaveReport /\ OneExecutionPerReport

\* cli/saas_cleanup.py: "Delete reports older than this many days": a report
\* that is queued, running or recently finished is never deleted.
DeletesOnlyPastRetention ==
    [][\A r \in exists \ exists' : row[r].finished = "past"]_vars
=============================================================================

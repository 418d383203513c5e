------------------------------ MODULE ParseRun ------------------------------
(***************************************************************************)
(* run_parse_job (saas/worker.py): parse the files of a parse job, store an *)
(* InvoiceRecord for every invoice found and mark the job.                  *)
(*                                                                          *)
(* The function is the body of an RQ task and of the saas_worker command,   *)
(* which runs it by hand for one job id, so several executions of one job   *)
(* may overlap; it never looks at the status it finds.  An execution has    *)
(* three transactions: mark running; parse and mark succeeded; after an     *)
(* exception, mark failed.  Each reads the row first and writes the columns *)
(* it changed when it commits (OrmSession).                                 *)
(***************************************************************************)
EXTENDS Naturals, FiniteSets, OrmSession

CONSTANTS
    Jobs,        \* parse jobs, committed and queued
    Files,       \* invoice files
    Executors,   \* executions of run_parse_job: RQ tasks and manual runs
    NoJob,       \* the execution has not begun
    MaxRuns,     \* bound: executions of one job
    MaxOverlap,  \* bound: executions of one job at the same time
    MaxRecords,  \* bound: invoices found in the files of one job
    MaxCrashes   \* bound: executions that die

ASSUME NoJobIsNoJob == NoJob \notin Jobs
ASSUME ExecutorsAreFinite == IsFiniteSet(Executors)
ASSUME BoundsAreNat ==
    /\ MaxRuns \in Nat /\ MaxOverlap \in Nat
    /\ MaxRecords \in Nat /\ MaxCrashes \in Nat

VARIABLES
    row,         \* ParseJob rows
    links,       \* the files of a job (parse_job_files)
    fileStatus,  \* InvoiceFile.status
    invoices,    \* number of InvoiceRecord rows of a job
    pc,          \* where each execution is
    job,         \* the job of each execution
    loaded,      \* the row as the execution's open session read it
    overlap,     \* executions of one job the deployment runs at a time
    crashes

vars == <<row, links, fileStatus, invoices, pc, job, loaded, overlap, crashes>>

-----------------------------------------------------------------------------
Terminal == {"succeeded", "failed"}
Statuses == {"queued", "running"} \cup Terminal

Rows == [status : Statuses, records : Nat, failed : {0, 1}, error : BOOLEAN]

\* The values a run gives the columns of the row it has loaded.
Running(r) == [r EXCEPT !.status = "running"]
Succeeded(r, n) == [r EXCEPT !.status = "succeeded", !.records = n,
                             !.failed = 0, !.error = FALSE]
Failed(r) == [r EXCEPT !.status = "failed", !.failed = 1, !.error = TRUE]

\* A session writes the columns it changed.
Write(x, target) ==
    row' = [row EXCEPT ![job[x]] = Flushed(@, loaded[x], target)]

NewRow == [status |-> "queued", records |-> 0, failed |-> 0, error |-> FALSE]

\* create_parse_job refuses an empty list of files.
Init ==
    /\ row = [j \in Jobs |-> NewRow]
    /\ links \in [Jobs -> (SUBSET Files) \ {{}}]
    /\ fileStatus = [f \in Files |-> "uploaded"]
    /\ invoices = [j \in Jobs |-> 0]
    /\ pc = [x \in Executors |-> "new"]
    /\ job = [x \in Executors |-> NoJob]
    /\ loaded = [x \in Executors |-> NewRow]
    /\ overlap \in 1..MaxOverlap
    /\ crashes = 0

-----------------------------------------------------------------------------
\* A transaction begins by reading the row.
Read(x, from, to) ==
    /\ pc[x] = from
    /\ loaded' = [loaded EXCEPT ![x] = row[job[x]]]
    /\ pc' = [pc EXCEPT ![x] = to]
    /\ UNCHANGED <<row, links, fileStatus, invoices, job, overlap, crashes>>

RunsOf(j) == {x \in Executors : job[x] = j}
Ended == {"done", "dead"}

\* The execution begins: the row is read, whatever its status.
Begin(x, j) ==
    /\ pc[x] = "new"
    /\ Cardinality(RunsOf(j)) < MaxRuns
    /\ Cardinality({y \in RunsOf(j) : pc[y] \notin Ended}) < overlap
    /\ job' = [job EXCEPT ![x] = j]
    /\ loaded' = [loaded EXCEPT ![x] = row[j]]
    /\ pc' = [pc EXCEPT ![x] = "starting"]
    /\ UNCHANGED <<row, links, fileStatus, invoices, overlap, crashes>>

\* The first transaction commits status = running.
MarkRunning(x) ==
    /\ pc[x] = "starting"
    /\ Write(x, Running(loaded[x]))
    /\ pc' = [pc EXCEPT ![x] = "started"]
    /\ UNCHANGED <<links, fileStatus, invoices, job, loaded, overlap, crashes>>

\* The second transaction reads the row again and the files, then parses.
Load(x) == Read(x, "started", "parsing")

\* Mutant: records and outcome are committed apart.
StoreThenMark(x, n) ==
    /\ pc[x] = "parsing"
    /\ invoices' = [invoices EXCEPT ![job[x]] = @ + n]
    /\ pc' = [pc EXCEPT ![x] = "raised"]
    /\ UNCHANGED <<row, fileStatus, links, job, loaded, overlap, crashes>>

\* The second transaction commits the records, the files and the outcome.
\* Records of an earlier execution stay.
Succeed(x, n) ==
    /\ pc[x] = "parsing"
    /\ invoices' = [invoices EXCEPT ![job[x]] = @ + n]
    /\ fileStatus' = [f \in Files |->
                        IF f \in links[job[x]] THEN "parsed" ELSE fileStatus[f]]
    /\ Write(x, Succeeded(loaded[x], n))
    /\ pc' = [pc EXCEPT ![x] = "done"]
    /\ UNCHANGED <<links, job, loaded, overlap, crashes>>

\* Mutant: the exception ends the task without the except branch.
RaiseUncaught(x) ==
    /\ pc[x] \in {"started", "parsing"}
    /\ pc' = [pc EXCEPT ![x] = "done"]
    /\ UNCHANGED <<row, links, fileStatus, invoices, job, loaded, overlap, crashes>>

\* The parser, the storage or the database raises: the transaction is gone.
Raise(x) ==
    /\ pc[x] \in {"started", "parsing"}
    /\ pc' = [pc EXCEPT ![x] = "raised"]
    /\ UNCHANGED <<row, links, fileStatus, invoices, job, loaded, overlap, crashes>>

\* The except branch reads the row in a new session ...
Reload(x) == Read(x, "raised", "failing")

\* ... and commits status = failed.
Fail(x) ==
    /\ pc[x] = "failing"
    /\ Write(x, Failed(loaded[x]))
    /\ pc' = [pc EXCEPT ![x] = "done"]
    /\ UNCHANGED <<links, fileStatus, invoices, job, loaded, overlap, crashes>>

\* The process dies; nobody takes the job over.
Crash(x) ==
    /\ pc[x] \notin Ended \cup {"new"} /\ crashes < MaxCrashes
    /\ crashes' = crashes + 1
    /\ pc' = [pc EXCEPT ![x] = "dead"]
    /\ UNCHANGED <<row, links, fileStatus, invoices, job, loaded, overlap>>

-----------------------------------------------------------------------------
Step(x) ==
    \/ MarkRunning(x)
    \/ Load(x)
    \/ \E n \in 0..MaxRecords : Succeed(x, n)
    \/ Raise(x)
    \/ Reload(x)
    \/ Fail(x)

Next ==
    \/ \E x \in Executors, j \in Jobs : Begin(x, j)
    \/ \E x \in Executors : Step(x) \/ Crash(x)

Spec == Init /\ [][Next]_vars

\* An execution that has begun goes on.
FairSpec == Spec /\ \A x \in Executors : WF_vars(Step(x))

-----------------------------------------------------------------------------
(* Properties *)

TypeOK ==
    /\ row \in [Jobs -> Rows]
    /\ links \in [Jobs -> SUBSET Files]
    /\ fileStatus \in [Files -> {"uploaded", "parsed"}]
    /\ invoices \in [Jobs -> Nat]
    /\ pc \in [Executors -> {"new", "starting", "started", "parsing", "raised",
                             "failing", "done", "dead"}]
    /\ job \in [Executors -> Jobs \cup {NoJob}]
    /\ loaded \in [Executors -> Rows]
    /\ overlap \in 1..MaxOverlap
    /\ crashes \in Nat

\* The execution is still going to write the status of its job.
Undecided(x) ==
    \/ pc[x] \in {"started", "raised"}
    \/ pc[x] \in {"parsing", "failing"} /\ loaded[x].status = "running"

\* A running job is always in the hands of an execution that will decide it,
\* however many executions overlap and although each writes only the columns
\* it changed: when the last one ends the job is succeeded or failed, unless
\* a process has died.
RunningHasDecider ==
    crashes = 0 =>
        \A j \in Jobs : row[j].status = "running" =>
            \E x \in Executors : job[x] = j /\ Undecided(x)

\* Records appear only together with the outcome of a run that parsed every
\* file of the job: a run that raises or dies leaves none.
RecordsComeWithOutcome ==
    \A j \in Jobs : invoices[j] > 0 =>
        /\ \A f \in links[j] : fileStatus[f] = "parsed"
        /\ \E x \in Executors : job[x] = j /\ pc[x] = "done"

\* A job that was begun is decided in the end, unless a process has died.
BegunJobDecided ==
    \A j \in Jobs :
        row[j].status = "running" ~> row[j].status \in Terminal \/ crashes > 0

\* A job that succeeds carries no trace of an earlier execution that failed
\* or died, as long as executions follow each other; those that overlap may
\* leave the error of one next to the status of the other.
SucceededIsClean ==
    overlap = 1 =>
        \A j \in Jobs :
            row[j].status = "succeeded" => row[j].failed = 0 /\ ~row[j].error

\* No job counts records that were not stored, whatever overlaps; the count
\* is exact for a job that was executed once.
CountIsStored ==
    \A j \in Jobs :
        /\ row[j].records <= invoices[j]
        /\ Cardinality(RunsOf(j)) = 1 /\ row[j].status = "succeeded" =>
              row[j].records = invoices[j]

\* The outcome of run_parse_job is one piece: records, counts, errors and file
\* status agree as far as executions follow each other.
OutcomeConsistent ==
    TypeOK /\ RecordsComeWithOutcome /\ SucceededIsClean /\ CountIsStored
=============================================================================

------------------------ MODULE CollectionRunProofs ------------------------
(***************************************************************************)
(* What CollectionRun promises for any number of jobs, workers, files,      *)
(* deliveries and crashes, and that it implements JobLifecycle.             *)
(*                                                                          *)
(* The argument: the claim lets one worker in, once in the life of a job    *)
(* (OneWorkerPerJob).  What that worker keeps in its local variables is an  *)
(* account of what it has stored and enqueued for the job (RunIsAccount),   *)
(* because nobody stored anything before it (QueuedIsUntouched).  So the    *)
(* commit that writes the local variables into the rows makes them agree    *)
(* with the storage, the queue and each other.                              *)
(***************************************************************************)
EXTENDS CollectionRun, SequenceTheorems, TLAPS

\* A worker with a task has a job, and nothing else yet before it loads it.
RunMatchesPc ==
    \A w \in Workers :
        /\ pc[w] # "idle" => run[w].job \in Jobs
        /\ pc[w] = "load" => run[w] = NewRun(run[w].job)

\* The local variables of a run account for what is outside the database, and
\* without a failure every file that was found was stored.
Account(w) ==
    /\ blobs[run[w].job] = run[w].files
    /\ run[w].failures = {} => run[w].seen = Total(run[w].files)
    /\ \A p \in run[w].todo : run[w].files[p] = 0
    /\ \A p \in Providers : p \in run[w].made <=> task[<<run[w].job, p>>] # "none"

RunIsAccount == \A w \in Workers : pc[w] # "idle" => Account(w)

\* Nothing is stored or enqueued for a job that nobody has claimed.
QueuedIsUntouched ==
    \A j \in Jobs : row[j].status = "queued" =>
        blobs[j] = NoFiles /\ \A p \in Providers : task[<<j, p>>] = "none"

IInv ==
    /\ OutcomeConsistent
    /\ OneWorkerPerJob
    /\ SideEffectsCover
    /\ RunMatchesPc
    /\ RunIsAccount
    /\ QueuedIsUntouched

-----------------------------------------------------------------------------
\* Sums of file counts are counts.
LEMMA TotalIsNat == \A f \in Counts : Total(f) \in Nat /\ (Total(f) = 0 <=> WithFiles(f) = {})
BY DEF Counts, Total, WithFiles, Providers

LEMMA NoFilesIsEmpty == NoFiles \in Counts /\ Total(NoFiles) = 0 /\ WithFiles(NoFiles) = {}
BY DEF Counts, Total, WithFiles, NoFiles, Providers

-----------------------------------------------------------------------------
\* In the initial state nobody has a task and nothing is stored.
LEMMA InitIInv == Init => IInv
<1> SUFFICES ASSUME Init PROVE IInv
  OBVIOUS
<1> USE NoFilesIsEmpty DEF Init
<1>1. TypeOK
  BY BoundsAreNat DEF TypeOK, Rows, NewRow, Runs, NewRun, Statuses, TaskStates, Configs
<1>2. OneWorkerPerJob /\ RunMatchesPc /\ RunIsAccount
  BY DEF OneWorkerPerJob, RunMatchesPc, RunIsAccount
<1>3. AuditMatchesStatus
  BY DEF AuditMatchesStatus, NewRow, Terminal
<1>4. OutcomeIsWhole
  BY DEF OutcomeIsWhole, NewRow
<1>5. SucceededIsComplete
  BY DEF SucceededIsComplete, NewRow
<1>6. StorageMatchesRows /\ ParseJobHasTask /\ QueuedIsUntouched
  BY DEF StorageMatchesRows, ParseJobHasTask, QueuedIsUntouched, NewRow, Terminal, NoFiles,
         ParseKeys
<1> QED
  BY <1>1, <1>2, <1>3, <1>4, <1>5, <1>6 DEF IInv, OutcomeConsistent, SideEffectsCover

\* A step that touches neither rows, storage nor runs, and takes no task back,
\* only has to keep the types.
LEMMA Elsewhere ==
    ASSUME IInv, TypeOK', UNCHANGED <<dbVars, blobs, pc, run>>,
           \A t \in ParseKeys : task[t] = "none" <=> task'[t] = "none"
    PROVE  IInv'
<1> USE DEF IInv, OutcomeConsistent, SideEffectsCover, dbVars
<1>1. AuditMatchesStatus' /\ OutcomeIsWhole' /\ SucceededIsComplete'
  BY DEF AuditMatchesStatus, OutcomeIsWhole, SucceededIsComplete
<1>2. OneWorkerPerJob' /\ RunMatchesPc' /\ QueuedIsUntouched'
  BY DEF OneWorkerPerJob, RunMatchesPc, QueuedIsUntouched, ParseKeys
<1>3. StorageMatchesRows' /\ ParseJobHasTask'
  BY DEF TypeOK, StorageMatchesRows, ParseJobHasTask
<1>4. RunIsAccount'
  <2> SUFFICES ASSUME NEW w \in Workers, pc[w] # "idle", NEW p \in Providers
               PROVE  p \in run[w].made <=> task'[<<run[w].job, p>>] # "none"
    BY DEF RunIsAccount, Account
  <2>1. run[w].job \in Jobs /\ run[w] \in Runs
    BY DEF RunMatchesPc, TypeOK
  <2>2. <<run[w].job, p>> \in ParseKeys
    BY <2>1 DEF Runs, ParseKeys
  <2> QED
    BY <2>2 DEF RunIsAccount, Account
<1> QED
  BY <1>1, <1>2, <1>3, <1>4

\* A worker that goes on with its job has to keep its account, and may only
\* touch what belongs to the job.
LEMMA GoesOn ==
    ASSUME IInv, TypeOK', UNCHANGED dbVars,
           NEW w \in Workers, pc[w] # "idle", pc'[w] \in {"collect", "except"},
           run'[w].job = run[w].job, Account(w)',
           \A v \in Workers \ {w} : pc'[v] = pc[v] /\ run'[v] = run[v],
           \A i \in Jobs \ {run[w].job} : blobs'[i] = blobs[i],
           \A t \in ParseKeys : /\ task[t] # "none" => task'[t] # "none"
                                /\ t[1] # run[w].job => task'[t] = task[t]
    PROVE  IInv'
<1> USE DEF IInv, OutcomeConsistent, SideEffectsCover, dbVars
<1> DEFINE j == run[w].job
<1>1. j \in Jobs /\ row[j].status = "running"
  BY DEF RunMatchesPc, OneWorkerPerJob
<1>2. AuditMatchesStatus' /\ OutcomeIsWhole' /\ SucceededIsComplete'
  BY DEF AuditMatchesStatus, OutcomeIsWhole, SucceededIsComplete
<1>3. OneWorkerPerJob' /\ RunMatchesPc'
  BY DEF OneWorkerPerJob, RunMatchesPc
<1>4. StorageMatchesRows'
  <2>1. fileRows[j] = NoFiles
    BY <1>1 DEF OutcomeIsWhole, Terminal
  <2>2. blobs'[j] \in Counts
    BY <1>1 DEF TypeOK
  <2>3. \A p \in Providers : fileRows[j][p] <= blobs'[j][p]
    BY <2>1, <2>2 DEF NoFiles, Counts
  <2> QED
    BY <1>1, <2>3 DEF StorageMatchesRows, Terminal
<1>5. ParseJobHasTask' /\ QueuedIsUntouched'
  <2>1. \A i \in Jobs, p \in Providers : <<i, p>> \in ParseKeys
    BY DEF ParseKeys
  <2>2. QueuedIsUntouched'
    BY <1>1, <2>1 DEF QueuedIsUntouched
  <2>3. ParseJobHasTask'
    BY <1>1 DEF TypeOK, ParseJobHasTask
  <2> QED
    BY <2>2, <2>3
<1>6. RunIsAccount'
  <2> SUFFICES ASSUME NEW v \in Workers \ {w}, pc[v] # "idle" PROVE Account(v)'
    BY DEF RunIsAccount
  <2>1. run[v].job \in Jobs \ {j} /\ run[v] \in Runs
    BY DEF RunMatchesPc, OneWorkerPerJob, TypeOK
  <2>2. \A p \in Providers : <<run[v].job, p>> \in ParseKeys
    BY <2>1 DEF ParseKeys
  <2>3. Account(v)
    BY DEF RunIsAccount
  <2> QED
    BY <2>1, <2>2, <2>3 DEF Account
<1> QED
  BY <1>2, <1>3, <1>4, <1>5, <1>6

\* The same for a worker that ends its task without a word.
LEMMA Vanishes ==
    ASSUME IInv, TypeOK', UNCHANGED <<dbVars, outside>>,
           NEW w \in Workers, pc'[w] = "idle",
           \A v \in Workers \ {w} : pc'[v] = pc[v] /\ run'[v] = run[v]
    PROVE  IInv'
<1> USE DEF IInv, OutcomeConsistent, SideEffectsCover, dbVars, outside
<1>1. AuditMatchesStatus' /\ OutcomeIsWhole' /\ SucceededIsComplete'
  BY DEF AuditMatchesStatus, OutcomeIsWhole, SucceededIsComplete
<1>2. StorageMatchesRows' /\ ParseJobHasTask' /\ QueuedIsUntouched'
  BY DEF StorageMatchesRows, ParseJobHasTask, QueuedIsUntouched
<1>3. OneWorkerPerJob' /\ RunMatchesPc' /\ RunIsAccount'
  BY DEF OneWorkerPerJob, RunMatchesPc, RunIsAccount, Account
<1> QED
  BY <1>1, <1>2, <1>3

\* The audit trails a run can leave.
LEMMA Story == /\ Append(<<>>, "started") = <<"started">>
               /\ \A s \in Terminal : Append(<<"started">>, s) = <<"started", s>>
<1>1. Append(<<>>, "started") = <<"started">>
  OBVIOUS
<1>2. ASSUME NEW s \in Terminal PROVE Append(<<"started">>, s) = <<"started", s>>
  <2> DEFINE S == {"started", "succeeded", "failed"}
             one == <<"started">>
             two == <<"started", s>>
  <2>1. one \in Seq(S) /\ two \in Seq(S) /\ s \in S
    BY DEF Terminal
  <2>2. /\ Append(one, s) \in Seq(S) /\ Len(Append(one, s)) = 2
        /\ Append(one, s)[1] = "started" /\ Append(one, s)[2] = s
    BY <2>1, AppendProperties
  <2>3. Len(two) = 2 /\ two[1] = "started" /\ two[2] = s
    OBVIOUS
  <2>4. Append(one, s) = two
    <3> HIDE DEF one, two
    <3> QED
      BY <2>1, <2>2, <2>3, SeqEqual
  <2> QED
    BY <2>4
<1> QED
  BY <1>1, <1>2

-----------------------------------------------------------------------------
\* Every step of every actor keeps the invariant.
LEMMA StepIInv == IInv /\ [Next]_vars => IInv'
<1> SUFFICES ASSUME IInv, [Next]_vars PROVE IInv'
  OBVIOUS
<1> USE NoJobIsNoJob, BoundsAreNat
<1> USE DEF IInv, OutcomeConsistent, SideEffectsCover
<1>1. ASSUME NEW w \in Workers, NEW j \in Jobs, Claim(w, j) PROVE IInv'
  <2>1. CASE Claimable(j)
    <3>1. /\ row' = [row EXCEPT ![j] = [row[j] EXCEPT !.status = "running", !.errors = {}]]
          /\ row[j].status = "queued"
          /\ audit' = [audit EXCEPT ![j] = Append(audit[j], "started")]
          /\ pc[w] = "idle" /\ pc' = [pc EXCEPT ![w] = "load"]
          /\ run' = [run EXCEPT ![w] = NewRun(j)]
          /\ pending' = [pending EXCEPT ![j] = @ - 1] /\ pending[j] > 0
          /\ delivered' = [delivered EXCEPT ![j] = @ + 1]
          /\ UNCHANGED <<requested, fileRows, parseJobs, config, blobs, task, crashes>>
      BY <1>1, <2>1 DEF Claim, Claimable, outside
    <3>2. /\ row'[j].status = "running" /\ row'[j].errors = {}
          /\ row'[j].parseIds = row[j].parseIds /\ row'[j].downloaded = row[j].downloaded
          /\ row'[j] \in Rows
          /\ \A i \in Jobs \ {j} : row'[i] = row[i]
      BY <3>1 DEF TypeOK, Rows, Statuses
    <3>3. NewRun(j) \in Runs /\ NewRun(j).job = j
      BY NoFilesIsEmpty DEF Runs, NewRun, Configs
    <3>4. /\ pc'[w] = "load" /\ run'[w] = NewRun(j)
          /\ \A v \in Workers \ {w} : pc'[v] = pc[v] /\ run'[v] = run[v]
      BY <3>1 DEF TypeOK
    <3>5. TypeOK'
      BY <3>1, <3>2, <3>3, AppendProperties DEF TypeOK
    <3>6. OneWorkerPerJob'
      BY <3>1, <3>2, <3>3, <3>4 DEF OneWorkerPerJob, RunMatchesPc
    <3>7. AuditMatchesStatus'
      <4>1. audit'[j] = <<"started">> /\ \A i \in Jobs \ {j} : audit'[i] = audit[i]
        BY <3>1, Story DEF TypeOK, AuditMatchesStatus
      <4> QED
        BY <3>2, <4>1 DEF AuditMatchesStatus, Terminal
    <3>8. OutcomeIsWhole' /\ SucceededIsComplete'
      BY <3>1, <3>2 DEF OutcomeIsWhole, SucceededIsComplete, Terminal
    <3>9. StorageMatchesRows' /\ ParseJobHasTask' /\ QueuedIsUntouched'
      BY <3>1, <3>2 DEF StorageMatchesRows, ParseJobHasTask, QueuedIsUntouched, Terminal
    <3>10. RunMatchesPc'
      BY <3>3, <3>4 DEF RunMatchesPc
    <3>11. RunIsAccount'
      <4>1. blobs[j] = NoFiles /\ \A p \in Providers : task[<<j, p>>] = "none"
        BY <3>1 DEF QueuedIsUntouched
      <4> QED
        BY <3>1, <3>4, <4>1, NoFilesIsEmpty DEF RunIsAccount, Account, NewRun
    <3> QED
      BY <3>5, <3>6, <3>7, <3>8, <3>9, <3>10, <3>11
  <2>2. CASE ~Claimable(j)
    <3>1. /\ pending' = [pending EXCEPT ![j] = @ - 1] /\ pending[j] > 0
          /\ delivered' = [delivered EXCEPT ![j] = @ + 1]
          /\ UNCHANGED <<dbVars, config, outside, crashes, pc, run>>
      BY <1>1, <2>2 DEF Claim, dbVars
    <3>2. TypeOK'
      BY <3>1 DEF TypeOK, dbVars, outside
    <3> QED
      BY <3>1, <3>2, Elsewhere DEF outside
  <2> QED
    BY <2>1, <2>2
<1>2. ASSUME NEW w \in Workers, Load(w) PROVE IInv'
  <2>1. /\ pc[w] = "load" /\ pc' = [pc EXCEPT ![w] = "collect"]
        /\ run' = [run EXCEPT ![w] = [run[w] EXCEPT !.snapshot = config,
                                                   !.todo = requested[run[w].job]]]
        /\ UNCHANGED <<dbVars, config, outside, delivery>>
    BY <1>2 DEF Load
  <2>2. run[w] = NewRun(run[w].job) /\ run[w].job \in Jobs /\ run[w] \in Runs
    BY <2>1 DEF RunMatchesPc, TypeOK
  <2>3. /\ run'[w] \in Runs /\ run'[w].job = run[w].job /\ run'[w].files = NoFiles
        /\ run'[w].seen = 0 /\ run'[w].made = {}
    <3>1. run'[w] = [run[w] EXCEPT !.snapshot = config, !.todo = requested[run[w].job]]
      BY <2>1 DEF TypeOK
    <3>2. config \in [Providers -> Configs] /\ requested[run[w].job] \in SUBSET Providers
      BY <2>2 DEF TypeOK
    <3>3. /\ run[w].files = NoFiles /\ run[w].seen = 0 /\ run[w].made = {}
      BY <2>2 DEF NewRun
    <3> QED
      BY <2>2, <3>1, <3>2, <3>3 DEF Runs
  <2>4. TypeOK'
    BY <2>1, <2>3 DEF TypeOK, dbVars, outside, delivery
  <2>5. Account(w)'
    <3>1. blobs[run[w].job] = NoFiles /\ \A p \in Providers : task[<<run[w].job, p>>] = "none"
      BY <2>1, <2>2 DEF RunIsAccount, Account, NewRun
    <3>2. \A p \in run'[w].todo : NoFiles[p] = 0
      BY <2>3 DEF Runs, NoFiles
    <3> QED
      BY <2>1, <2>3, <3>1, <3>2, NoFilesIsEmpty DEF Account, outside
  <2>6. \A v \in Workers \ {w} : pc'[v] = pc[v] /\ run'[v] = run[v]
    BY <2>1 DEF TypeOK
  <2>7. pc[w] # "idle" /\ pc'[w] \in {"collect", "except"} /\ UNCHANGED <<blobs, task>>
    BY <2>1 DEF TypeOK, outside
  <2> QED
    BY <2>1, <2>3, <2>4, <2>5, <2>6, <2>7, GoesOn
<1>3. ASSUME NEW w \in Workers, NEW p \in Providers, SkipProvider(w, p) PROVE IInv'
  <2>1. PICK c \in Codes :
           /\ run' = [run EXCEPT ![w] = [run[w] EXCEPT !.todo = @ \ {p},
                                                      !.failures = @ \cup {Failure(p, c)}]]
           /\ pc[w] = "collect" /\ UNCHANGED <<dbVars, config, outside, delivery, pc>>
    BY <1>3 DEF SkipProvider, GiveUp, Codes
  <2>2. run[w] \in Runs /\ Account(w)
    BY <2>1 DEF TypeOK, RunIsAccount
  <2>3. /\ run'[w] \in Runs /\ run'[w].job = run[w].job /\ run'[w].files = run[w].files
        /\ run'[w].todo \subseteq run[w].todo /\ run'[w].made = run[w].made
        /\ run'[w].failures # {}
    <3> DEFINE f == Failure(p, c)
    <3>1. f \in Failures
      BY DEF Failures, Failure
    <3>2. run'[w] = [run[w] EXCEPT !.todo = @ \ {p}, !.failures = @ \cup {f}]
      BY <2>1 DEF TypeOK
    <3> HIDE DEF f
    <3>3. /\ run'[w].failures = run[w].failures \cup {f} /\ run'[w].todo = run[w].todo \ {p}
          /\ run'[w].job = run[w].job /\ run'[w].files = run[w].files
          /\ run'[w].made = run[w].made
      BY <2>2, <3>2 DEF Runs
    <3> DEFINE todo == run[w].todo \ {p}
               failures == run[w].failures \cup {f}
    <3>4. todo \in SUBSET Providers /\ failures \in SUBSET Failures
      BY <2>2, <3>1 DEF Runs
    <3>5. run'[w] = [run[w] EXCEPT !.todo = todo, !.failures = failures]
      BY <3>2
    <3> HIDE DEF todo, failures
    <3>6. run'[w] \in Runs
      BY <2>2, <3>4, <3>5 DEF Runs
    <3> QED
      BY <3>3, <3>6
  <2>4. TypeOK'
    BY <2>1, <2>3 DEF TypeOK, dbVars, outside, delivery
  <2>5. Account(w)'
    BY <2>1, <2>2, <2>3 DEF Account, outside
  <2>6. \A v \in Workers \ {w} : pc'[v] = pc[v] /\ run'[v] = run[v]
    BY <2>1 DEF TypeOK
  <2>7. pc[w] # "idle" /\ pc'[w] \in {"collect", "except"} /\ UNCHANGED <<blobs, task>>
    BY <2>1 DEF outside
  <2> QED
    BY <2>1, <2>3, <2>4, <2>5, <2>6, <2>7, GoesOn
<1>4. ASSUME NEW w \in Workers, NEW p \in Providers,
             NEW n \in 0..MaxFiles, NEW e \in 0..MaxFiles, CollectProvider(w, p, n, e)
      PROVE  IInv'
  <2> DEFINE j == run[w].job
  <2>1. /\ pc[w] = "collect" /\ p \in run[w].todo /\ e <= n
        /\ blobs' = [blobs EXCEPT ![j] = [blobs[j] EXCEPT ![p] = @ + (n - e)]]
        /\ run' = [run EXCEPT ![w] =
              [run[w] EXCEPT !.todo = @ \ {p}, !.seen = @ + n,
                             !.files = [run[w].files EXCEPT ![p] = n - e],
                             !.failures = @ \cup EmptyFailures(p, n, e)]]
        /\ UNCHANGED <<dbVars, config, task, delivery, pc>>
    BY <1>4 DEF CollectProvider
  <2>2. run[w] \in Runs /\ Account(w) /\ j \in Jobs
    BY <2>1 DEF TypeOK, RunIsAccount, RunMatchesPc
  <2>3. n - e \in Nat /\ n \in Nat /\ run[w].files \in Counts /\ run[w].seen \in Nat
    BY <2>1, <2>2 DEF Runs
  <2>4. run[w].files[p] = 0 /\ blobs[j] = run[w].files
    BY <2>1, <2>2 DEF Account
  <2>5. /\ [run[w].files EXCEPT ![p] = n - e] \in Counts
        /\ Total([run[w].files EXCEPT ![p] = n - e]) = Total(run[w].files) + (n - e)
    BY <2>3, <2>4 DEF Counts, Total, Providers
  <2>6. EmptyFailures(p, n, e) \subseteq Failures /\ (EmptyFailures(p, n, e) = {} => e = 0)
    <3>1. Failure(p, "PROVIDER_FILE_EMPTY") \in Failures
      BY DEF Failures, Failure, Codes
    <3> QED
      BY <3>1 DEF EmptyFailures
  <2>7. /\ run'[w].job = j /\ run'[w].files = [run[w].files EXCEPT ![p] = n - e]
        /\ run'[w].todo = run[w].todo \ {p} /\ run'[w].made = run[w].made
        /\ run'[w].seen = run[w].seen + n
        /\ run'[w].failures = run[w].failures \cup EmptyFailures(p, n, e)
    BY <2>1, <2>2 DEF TypeOK, Runs
  <2>8. run'[w] \in Runs
    <3>1. run'[w] = [run[w] EXCEPT !.todo = @ \ {p}, !.seen = @ + n,
                                  !.files = [run[w].files EXCEPT ![p] = n - e],
                                  !.failures = @ \cup EmptyFailures(p, n, e)]
      BY <2>1 DEF TypeOK
    <3>2. run[w].seen + n \in Nat
      BY <2>2 DEF Runs
    <3> QED
      BY <2>2, <2>5, <2>6, <3>1, <3>2 DEF Runs
  <2>9. blobs'[j] = run'[w].files /\ \A i \in Jobs \ {j} : blobs'[i] = blobs[i]
    <3>1. /\ blobs'[j] = [blobs[j] EXCEPT ![p] = blobs[j][p] + (n - e)]
          /\ \A i \in Jobs \ {j} : blobs'[i] = blobs[i]
      BY <2>1, <2>2 DEF TypeOK
    <3>2. run[w].files[p] + (n - e) = n - e
      BY <2>3, <2>4
    <3> QED
      BY <2>4, <2>7, <3>1, <3>2
  <2>10. TypeOK'
    BY <2>1, <2>2, <2>5, <2>7, <2>8, <2>9 DEF TypeOK, dbVars, delivery
  <2>11. Account(w)'
    <3>1. run'[w].failures = {} => run'[w].seen = Total(run'[w].files)
      BY <2>2, <2>3, <2>5, <2>6, <2>7 DEF Account
    <3>2. \A q \in run'[w].todo : run'[w].files[q] = 0
      BY <2>2, <2>3, <2>7 DEF Account, Counts, Runs
    <3> QED
      BY <2>1, <2>2, <2>7, <2>9, <3>1, <3>2 DEF Account
  <2>12. \A v \in Workers \ {w} : pc'[v] = pc[v] /\ run'[v] = run[v]
    BY <2>1 DEF TypeOK
  <2> QED
    BY <2>1, <2>7, <2>9, <2>10, <2>11, <2>12, GoesOn
<1>5. ASSUME NEW w \in Workers, NEW p \in Providers, FanOut(w, p) PROVE IInv'
  <2> DEFINE j == run[w].job
  <2>1. pc[w] = "collect" /\ UNCHANGED <<dbVars, config, blobs, delivery>>
    BY <1>5 DEF FanOut
  <2>2. run[w] \in Runs /\ Account(w) /\ j \in Jobs
    BY <2>1 DEF TypeOK, RunIsAccount, RunMatchesPc
  <2>3. CASE KeyTaken(j, p)
    <3>1. pc' = [pc EXCEPT ![w] = "except"] /\ UNCHANGED <<task, run>>
      BY <1>5, <2>3 DEF FanOut
    <3>2. TypeOK'
      BY <2>1, <3>1 DEF TypeOK, dbVars, delivery
    <3>3. Account(w)'
      BY <2>1, <2>2, <3>1 DEF Account
    <3>4. pc'[w] = "except" /\ \A v \in Workers \ {w} : pc'[v] = pc[v] /\ run'[v] = run[v]
      BY <3>1 DEF TypeOK
    <3> QED
      BY <2>1, <3>1, <3>2, <3>3, <3>4, GoesOn
  <2>4. CASE ~KeyTaken(j, p)
    <3>1. /\ task' = [task EXCEPT ![<<j, p>>] = "waiting"]
          /\ run' = [run EXCEPT ![w] = [run[w] EXCEPT !.made = @ \cup {p}]]
          /\ UNCHANGED pc
      BY <1>5, <2>4 DEF FanOut
    <3>2. /\ run'[w] \in Runs /\ run'[w].job = j /\ run'[w].files = run[w].files
          /\ run'[w].todo = run[w].todo /\ run'[w].made = run[w].made \cup {p}
          /\ run'[w].failures = run[w].failures /\ run'[w].seen = run[w].seen
      BY <2>2, <3>1 DEF TypeOK, Runs
    <3>3. TypeOK'
      BY <2>1, <3>1, <3>2 DEF TypeOK, dbVars, delivery, TaskStates
    <3>4. /\ task'[<<j, p>>] # "none"
          /\ \A t \in ParseKeys : /\ task[t] # "none" => task'[t] # "none"
                                  /\ t # <<j, p>> => task'[t] = task[t]
      BY <2>2, <3>1 DEF TypeOK, ParseKeys
    <3>5. Account(w)'
      <4>1. \A q \in Providers : <<j, q>> \in ParseKeys
        BY <2>2 DEF Runs, ParseKeys
      <4> QED
        BY <2>1, <2>2, <3>2, <3>4, <4>1 DEF Account
    <3>6. \A v \in Workers \ {w} : pc'[v] = pc[v] /\ run'[v] = run[v]
      BY <3>1 DEF TypeOK
    <3> QED
      BY <2>1, <3>1, <3>2, <3>3, <3>4, <3>5, <3>6, GoesOn
  <2> QED
    BY <2>3, <2>4
<1>6. ASSUME NEW w \in Workers, Finish(w) PROVE IInv'
  <2> DEFINE j == run[w].job
             out == Outcome(w)
  <2>1. /\ pc[w] = "collect" /\ run[w].todo = {} /\ run[w].made = WithFiles(run[w].files)
        /\ row' = [row EXCEPT ![j] = [status |-> StatusFor(out), discovered |-> run[w].seen,
                                     downloaded |-> Total(run[w].files),
                                     parseIds |-> run[w].made, errors |-> out]]
        /\ audit' = [audit EXCEPT ![j] = Append(audit[j], StatusFor(out))]
        /\ fileRows' = [fileRows EXCEPT ![j] = run[w].files]
        /\ parseJobs' = parseJobs \cup ({j} \X run[w].made)
        /\ pc' = [pc EXCEPT ![w] = "idle"]
        /\ run' = [run EXCEPT ![w] = NewRun(NoJob)]
        /\ UNCHANGED <<requested, config, blobs, task, pending, delivered, crashes>>
    BY <1>6 DEF Finish, outside, delivery
  <2>2. /\ j \in Jobs /\ row[j].status = "running" /\ run[w] \in Runs
        /\ blobs[j] = run[w].files /\ Account(w)
    BY <2>1 DEF OneWorkerPerJob, RunMatchesPc, RunIsAccount, Account, TypeOK
  <2>3. Total(run[w].files) \in Nat /\ run[w].made \subseteq Providers
    BY <2>2, TotalIsNat DEF Runs
  <2>4. out \subseteq Failures
    BY <2>2 DEF Runs, Outcome, Failures, Failure, Codes
  <2>5. StatusFor(out) \in Terminal
    BY DEF StatusFor, Terminal
  <2>6. /\ row'[j].status = StatusFor(out) /\ row'[j].errors = out
        /\ row'[j].parseIds = run[w].made /\ row'[j].downloaded = Total(run[w].files)
        /\ row'[j].discovered = run[w].seen
        /\ \A i \in Jobs \ {j} : row'[i] = row[i]
    BY <2>1, <2>2 DEF TypeOK
  <2>7. row'[j] \in Rows
    BY <2>1, <2>2, <2>3, <2>4, <2>5 DEF TypeOK, Rows, Runs, Statuses, Terminal
  <2>8. /\ fileRows'[j] = run[w].files
        /\ \A i \in Jobs \ {j} : fileRows'[i] = fileRows[i]
    BY <2>1, <2>2 DEF TypeOK
  <2>9. TypeOK'
    <3>1. NewRun(NoJob) \in Runs
      BY NoFilesIsEmpty DEF Runs, NewRun, Configs
    <3>2. audit' \in [Jobs -> Seq({"started", "succeeded", "failed"})]
      BY <2>1, <2>2, <2>5, AppendProperties DEF TypeOK, Terminal
    <3>3. parseJobs' \subseteq ParseKeys
      BY <2>1, <2>2, <2>3 DEF TypeOK, ParseKeys
    <3>4. run[w].files \in Counts
      BY <2>2 DEF Runs
    <3> QED
      BY <2>1, <2>6, <2>7, <2>8, <3>1, <3>2, <3>3, <3>4 DEF TypeOK
  <2>10. pc'[w] = "idle" /\ \A v \in Workers \ {w} : pc'[v] = pc[v] /\ run'[v] = run[v]
    BY <2>1 DEF TypeOK
  <2>11. OneWorkerPerJob' /\ RunMatchesPc'
    BY <2>1, <2>2, <2>6, <2>10 DEF OneWorkerPerJob, RunMatchesPc
  <2>12. AuditMatchesStatus'
    <3>1. audit[j] = <<"started">>
      BY <2>2 DEF AuditMatchesStatus
    <3>2. audit'[j] = Append(audit[j], StatusFor(out)) /\ \A i \in Jobs \ {j} : audit'[i] = audit[i]
      BY <2>1, <2>2 DEF TypeOK
    <3>3. audit'[j] = <<"started", StatusFor(out)>>
      BY <2>5, <3>1, <3>2, Story
    <3> QED
      BY <2>5, <2>6, <3>2, <3>3 DEF AuditMatchesStatus, Terminal
  <2>13. OutcomeIsWhole'
    <3>1. {p \in Providers : <<j, p>> \in parseJobs} = {}
      BY <2>2, NoFilesIsEmpty DEF OutcomeIsWhole, Terminal
    <3>2. {p \in Providers : <<j, p>> \in parseJobs'} = run[w].made
      BY <2>1, <2>3, <3>1
    <3>3. \A i \in Jobs \ {j} : \A p \in Providers : <<i, p>> \in parseJobs' <=> <<i, p>> \in parseJobs
      BY <2>1
    <3>4. \A i \in Jobs \ {j} :
             {p \in Providers : <<i, p>> \in parseJobs'} = {p \in Providers : <<i, p>> \in parseJobs}
      BY <3>3
    <3> QED
      BY <2>1, <2>2, <2>5, <2>6, <2>8, <3>2, <3>4 DEF OutcomeIsWhole
  <2>14. SucceededIsComplete'
    <3>1. StatusFor(out) = "succeeded" =>
             out = {} /\ run[w].seen = Total(run[w].files) /\ Total(run[w].files) > 0
      <4>1. StatusFor(out) = "succeeded" => out = {}
        BY DEF StatusFor
      <4>2. out = {} => run[w].failures = {} /\ Total(run[w].files) # 0
        BY DEF Outcome
      <4> QED
        BY <2>2, <2>3, <4>1, <4>2 DEF Account
    <3>2. StatusFor(out) = "failed" => out # {}
      BY DEF StatusFor
    <3> QED
      BY <2>6, <3>1, <3>2 DEF SucceededIsComplete
  <2>15. StorageMatchesRows' /\ QueuedIsUntouched'
    <3>1. \A p \in Providers : run[w].files[p] <= run[w].files[p]
      BY <2>2 DEF Runs, Counts
    <3> QED
      BY <2>1, <2>2, <2>5, <2>6, <2>8, <3>1 DEF StorageMatchesRows, QueuedIsUntouched, Terminal
  <2>16. ParseJobHasTask'
    <3> SUFFICES ASSUME NEW t \in ParseKeys
                 PROVE  /\ t \in parseJobs' => task[t] # "none"
                        /\ task[t] # "none" /\ t \notin parseJobs' =>
                             row'[t[1]].status = "running" \/ ExecutionError \in row'[t[1]].errors
      BY <2>1 DEF ParseJobHasTask
    <3>1. PICK i \in Jobs, p \in Providers : t = <<i, p>>
      BY DEF ParseKeys
    <3>2. CASE i = j
      BY <2>1, <2>2, <3>1, <3>2 DEF ParseJobHasTask, Account
    <3>3. CASE i # j
      BY <2>1, <2>6, <3>1, <3>3 DEF ParseJobHasTask
    <3> QED
      BY <3>2, <3>3
  <2>17. RunIsAccount'
    BY <2>1, <2>10 DEF RunIsAccount, Account
  <2> QED
    BY <2>9, <2>11, <2>12, <2>13, <2>14, <2>15, <2>16, <2>17
<1>7. ASSUME NEW w \in Workers, Raise(w) PROVE IInv'
  <2>1. /\ pc[w] # "idle" /\ pc' = [pc EXCEPT ![w] = "except"]
        /\ UNCHANGED <<dbVars, config, outside, delivery, run>>
    BY <1>7 DEF Raise
  <2>2. TypeOK'
    BY <2>1 DEF TypeOK, dbVars, outside, delivery
  <2>3. Account(w)'
    BY <2>1 DEF RunIsAccount, Account, outside
  <2>4. pc'[w] = "except" /\ \A v \in Workers \ {w} : pc'[v] = pc[v] /\ run'[v] = run[v]
    BY <2>1 DEF TypeOK
  <2> QED
    BY <2>1, <2>2, <2>3, <2>4, GoesOn DEF outside
<1>8. ASSUME NEW w \in Workers, MarkFailed(w) PROVE IInv'
  <2> DEFINE j == run[w].job
  <2>1. /\ pc[w] = "except"
        /\ row' = [row EXCEPT ![j] = [row[j] EXCEPT !.status = "failed", !.errors = {ExecutionError}]]
        /\ audit' = [audit EXCEPT ![j] = Append(audit[j], "failed")]
        /\ pc' = [pc EXCEPT ![w] = "idle"]
        /\ run' = [run EXCEPT ![w] = NewRun(NoJob)]
        /\ UNCHANGED <<requested, fileRows, parseJobs, config, blobs, task, pending, delivered, crashes>>
    BY <1>8 DEF MarkFailed, ExecutionError, outside, delivery
  <2>2. j \in Jobs /\ row[j].status = "running" /\ row[j] \in Rows
    BY <2>1 DEF OneWorkerPerJob, RunMatchesPc, TypeOK
  <2>3. ExecutionError \in Failures
    BY DEF ExecutionError, Failures, Failure, Codes
  <2>4. /\ row'[j] \in Rows /\ row'[j].status = "failed" /\ row'[j].errors = {ExecutionError}
        /\ row'[j].parseIds = row[j].parseIds /\ row'[j].downloaded = row[j].downloaded
        /\ \A i \in Jobs \ {j} : row'[i] = row[i]
    BY <2>1, <2>2, <2>3 DEF TypeOK, Rows, Statuses
  <2>5. TypeOK'
    <3>1. NewRun(NoJob) \in Runs
      BY NoFilesIsEmpty DEF Runs, NewRun, Configs
    <3> QED
      BY <2>1, <2>2, <2>4, <3>1, AppendProperties DEF TypeOK
  <2>6. pc'[w] = "idle" /\ \A v \in Workers \ {w} : pc'[v] = pc[v] /\ run'[v] = run[v]
    BY <2>1 DEF TypeOK
  <2>7. OneWorkerPerJob' /\ RunMatchesPc'
    BY <2>1, <2>2, <2>4, <2>6 DEF OneWorkerPerJob, RunMatchesPc
  <2>8. AuditMatchesStatus'
    <3>1. audit[j] = <<"started">>
      BY <2>2 DEF AuditMatchesStatus
    <3>2. audit'[j] = Append(audit[j], "failed") /\ \A i \in Jobs \ {j} : audit'[i] = audit[i]
      BY <2>1, <2>2 DEF TypeOK
    <3>3. audit'[j] = <<"started", "failed">>
      BY <3>1, <3>2, Story DEF Terminal
    <3> QED
      BY <2>4, <3>2, <3>3 DEF AuditMatchesStatus, Terminal
  <2>9. OutcomeIsWhole' /\ SucceededIsComplete'
    BY <2>1, <2>2, <2>4 DEF OutcomeIsWhole, SucceededIsComplete, Terminal
  <2>10. StorageMatchesRows' /\ ParseJobHasTask' /\ QueuedIsUntouched'
    BY <2>1, <2>2, <2>4 DEF StorageMatchesRows, ParseJobHasTask, QueuedIsUntouched
  <2>11. RunIsAccount'
    BY <2>1, <2>6 DEF RunIsAccount, Account
  <2> QED
    BY <2>5, <2>7, <2>8, <2>9, <2>10, <2>11
<1>9. ASSUME NEW w \in Workers, Crash(w) PROVE IInv'
  <2>1. /\ crashes' = crashes + 1 /\ pc' = [pc EXCEPT ![w] = "idle"]
        /\ run' = [run EXCEPT ![w] = NewRun(NoJob)]
        /\ UNCHANGED <<dbVars, config, outside, pending, delivered>>
    BY <1>9 DEF Crash
  <2>2. NewRun(NoJob) \in Runs
    BY NoFilesIsEmpty DEF Runs, NewRun, Configs
  <2>3. TypeOK'
    BY <2>1, <2>2 DEF TypeOK, dbVars, outside
  <2>4. pc'[w] = "idle" /\ \A v \in Workers \ {w} : pc'[v] = pc[v] /\ run'[v] = run[v]
    BY <2>1 DEF TypeOK
  <2> QED
    BY <2>1, <2>3, <2>4, Vanishes
<1>10. ASSUME NEW j \in Jobs, Redeliver(j) PROVE IInv'
  <2>1. TypeOK'
    BY <1>10 DEF Redeliver, TypeOK, dbVars, outside
  <2> QED
    BY <1>10, <2>1, Elsewhere DEF Redeliver, outside
<1>11. ASSUME NEW p \in Providers, NEW c \in Configs, Reconfigure(p, c) PROVE IInv'
  <2>1. TypeOK'
    BY <1>11 DEF Reconfigure, TypeOK, dbVars, outside, delivery
  <2> QED
    BY <1>11, <2>1, Elsewhere DEF Reconfigure, outside
<1>12. ASSUME NEW t \in ParseKeys, StartParse(t) PROVE IInv'
  <2>1. TypeOK' /\ \A u \in ParseKeys : task[u] = "none" <=> task'[u] = "none"
    BY <1>12 DEF StartParse, TypeOK, TaskStates, dbVars, delivery
  <2> QED
    BY <1>12, <2>1, Elsewhere DEF StartParse
<1>13. CASE UNCHANGED vars
  <2>1. TypeOK'
    BY <1>13 DEF vars, TypeOK, dbVars, outside, delivery
  <2> QED
    BY <1>13, <2>1, Elsewhere DEF vars, outside
<1>14. ASSUME NEW w \in Workers, NEW j \in Jobs, ClaimFails(w, j) PROVE IInv'
  <2>1. TypeOK'
    BY <1>14 DEF ClaimFails, TypeOK, dbVars, outside
  <2> QED
    BY <1>14, <2>1, Elsewhere DEF ClaimFails, outside
<1> QED
  BY <1>1, <1>2, <1>3, <1>4, <1>5, <1>6, <1>7, <1>8, <1>9, <1>10, <1>11, <1>12, <1>13, <1>14
     DEF Next, Work

-----------------------------------------------------------------------------
\* Every behaviour stays within the invariant.
LEMMA Invariance == Spec => []IInv
<1> QED
  BY InitIInv, StepIInv, PTL DEF Spec

\* However often run_collection_job is delivered, one worker runs a job.
THEOREM OneRunPerJob == Spec => []OneWorkerPerJob
<1>1. IInv => OneWorkerPerJob
  BY DEF IInv
<1> QED
  BY <1>1, Invariance, PTL

\* Row, files, parse jobs and audit trail of a collection job always agree.
THEOREM OutcomeAgrees == Spec => []OutcomeConsistent
<1>1. IInv => OutcomeConsistent
  BY DEF IInv
<1> QED
  BY <1>1, Invariance, PTL

\* Storage and queue cover what the commit of a collection put into the rows.
THEOREM EffectsAreCovered == Spec => []SideEffectsCover
<1>1. IInv => SideEffectsCover
  BY DEF IInv
<1> QED
  BY <1>1, Invariance, PTL

\* The worker implements the documented life of a job.
THEOREM ImplementsLifecycle == Spec => FollowsLifecycle
<1>1. Init => Lifecycle!Init
  BY DEF Init, Lifecycle!Init, NewRow
<1>2. IInv /\ [Next]_vars => [Lifecycle!Next]_([j \in Jobs |-> row[j].status])
  <2> SUFFICES ASSUME IInv, [Next]_vars
               PROVE  Lifecycle!Next \/ UNCHANGED [j \in Jobs |-> row[j].status]
    OBVIOUS
  <2> DEFINE S == [j \in Jobs |-> row[j].status]
  <2>1. ASSUME NEW w \in Workers, NEW j \in Jobs, Claim(w, j), Claimable(j)
        PROVE  Lifecycle!Start(j)
    <3>1. row'[j].status = "running" /\ \A i \in Jobs \ {j} : row'[i] = row[i]
      BY <2>1 DEF Claim, IInv, OutcomeConsistent, TypeOK, Rows
    <3> QED
      BY <2>1, <3>1 DEF Claimable, Lifecycle!Start
  <2>2. ASSUME NEW w \in Workers, Finish(w) \/ MarkFailed(w) PROVE Lifecycle!Next
    <3>1. PICK j \in Jobs : j = run[w].job /\ row[j].status = "running"
      BY <2>2 DEF Finish, MarkFailed, IInv, OneWorkerPerJob, RunMatchesPc
    <3>2. row'[j].status \in Terminal /\ \A i \in Jobs \ {j} : row'[i] = row[i]
      <4>1. CASE Finish(w)
        <5>1. StatusFor(Outcome(w)) \in Terminal
          BY DEF StatusFor, Terminal
        <5> QED
          BY <3>1, <4>1, <5>1 DEF Finish, IInv, OutcomeConsistent, TypeOK
      <4>2. CASE MarkFailed(w)
        BY <3>1, <4>2 DEF MarkFailed, IInv, OutcomeConsistent, TypeOK, Rows, Terminal
      <4> QED
        BY <2>2, <4>1, <4>2
    <3>3. Lifecycle!Finish(j)
      BY <3>1, <3>2 DEF Lifecycle!Finish, Lifecycle!Terminal, Terminal
    <3> QED
      BY <3>3 DEF Lifecycle!Next
  <2>3. CASE UNCHANGED row
    BY <2>3
  <2>4. \/ UNCHANGED row
        \/ \E w \in Workers, j \in Jobs : Claim(w, j) /\ Claimable(j)
        \/ \E w \in Workers : Finish(w) \/ MarkFailed(w)
    <3>1. ASSUME NEW w \in Workers, NEW j \in Jobs, Claim(w, j), ~Claimable(j)
          PROVE  UNCHANGED row
      BY <3>1 DEF Claim
    <3>2. ASSUME NEW w \in Workers,
                 Load(w) \/ Raise(w) \/ Crash(w)
                   \/ \E p \in Providers : SkipProvider(w, p) \/ FanOut(w, p)
          PROVE  UNCHANGED row
      BY <3>2 DEF Load, Raise, Crash, SkipProvider, FanOut, dbVars
    <3>3. ASSUME NEW w \in Workers, NEW p \in Providers, NEW n \in 0..MaxFiles,
                 NEW e \in 0..MaxFiles, CollectProvider(w, p, n, e)
          PROVE  UNCHANGED row
      BY <3>3 DEF CollectProvider, dbVars
    <3>4. ASSUME \/ \E w \in Workers, j \in Jobs : ClaimFails(w, j)
                 \/ \E j \in Jobs : Redeliver(j)
                 \/ \E p \in Providers, c \in Configs : Reconfigure(p, c)
                 \/ \E t \in ParseKeys : StartParse(t)
                 \/ UNCHANGED vars
          PROVE  UNCHANGED row
      BY <3>4 DEF ClaimFails, Redeliver, Reconfigure, StartParse, vars, dbVars
    <3> QED
      BY <3>1, <3>2, <3>3, <3>4 DEF Next, Work
  <2> QED
    BY <2>1, <2>2, <2>3, <2>4 DEF Lifecycle!Next
<1> QED
  BY <1>1, <1>2, Invariance, PTL DEF Spec, FollowsLifecycle, Lifecycle!Spec
=============================================================================

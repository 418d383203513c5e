----------------------- MODULE ReportLifecycleProofs -----------------------
(***************************************************************************)
(* What ReportLifecycle promises for any number of reports, formats,        *)
(* executions, retries, cleanups and failures.                              *)
(*                                                                          *)
(* The argument: rows are deleted by the execution that replaces them or    *)
(* with their report (OwnRows).  A report that nobody retries has one task  *)
(* in its life, so once it is finished no execution touches it (OneRun);    *)
(* the cleanup therefore meets executions of retried reports only           *)
(* (SelectedIsOld), and no other files disappear (FileThere, SavedThere).   *)
(* A single worker deletes every row that is there before it writes its     *)
(* own (SoleWorker, Replaces).                                              *)
(***************************************************************************)
EXTENDS ReportLifecycle, FiniteSetTheorems, TLAPS

Active(x) == pc[x] \notin Ended \cup {"new"}

BegunHasReport == \A u \in Users : pc[u] = "new" <=> rep[u] = NoReport

\* What an actor deletes, or has written, is its own.
OwnRowsOf(x) ==
    /\ \A a \in target[x] \cup dropped[x] : a.report = rep[x]
    /\ pc[x] = "new" => target[x] = {} /\ dropped[x] = {}
    /\ pc[x] \in {"new", "starting", "started", "dropping"} => saved[x] = {}
DoomedRowsOf(c) == \A a \in target[c] \cup dropped[c] : a.report \in doomed[c]
OwnRows ==
    (\A x \in Executors : OwnRowsOf(x)) /\ (\A c \in Cleaners : DoomedRowsOf(c))

SoleWorker == workers = 1 => \A x, y \in Executors : Active(x) /\ Active(y) => x = y

Replaces ==
    workers = 1 =>
        \A x \in Executors :
            /\ pc[x] = "dropping" => RowsOf(rep[x]) \subseteq target[x]
            /\ pc[x] = "saving" => RowsOf(rep[x]) \subseteq dropped[x]

\* The one execution of a report that nobody retries.
OneRun(r) ==
    ~Retried(r) =>
        /\ tasks[r] \in {0, 1}
        /\ \A x \in Executors : rep[x] = r => tasks[r] = 0
        /\ \A x, y \in Executors : rep[x] = r /\ rep[y] = r => x = y
        /\ row[r].finished # "null" =>
              tasks[r] = 0 /\ \A x \in Executors : rep[x] = r => pc[x] \in Ended

SelectedIsOld ==
    \A c \in Cleaners : \A r \in stale[c] \cup doomed[c] :
        Retried(r) \/ row[r].finished = "past"

FileThere(a) ==
    \/ KeyOf(a) \in stored
    \/ CleanupBegun /\ (Retried(a.report) \/ row[a.report].finished = "past")

SavedThere ==
    \A x \in Executors : pc[x] = "saving" =>
        \A e \in saved[x] :
            <<rep[x], Requested[e]>> \in stored \/ (CleanupBegun /\ Retried(rep[x]))

IInv ==
    /\ TypeOK /\ BegunHasReport /\ OwnRows
    /\ SucceededHasEveryEntry /\ ArtifactsHaveReport
    /\ SoleWorker /\ Replaces /\ OneExecutionPerReport
    /\ \A r \in Reports : OneRun(r)
    /\ SelectedIsOld /\ SavedThere /\ \A a \in artifacts : FileThere(a)

-----------------------------------------------------------------------------
\* What a flush of a report row writes.
LEMMA FlushedRow ==
    ASSUME NEW now \in Rows, NEW read \in Rows
    PROVE  /\ Flushed(now, read, NewRow) \in Rows
           /\ Flushed(now, read, NewRow).status \in {now.status, "queued"}
           /\ \A s \in Statuses :
                LET new == Flushed(now, read, [read EXCEPT !.status = s])
                IN  /\ new \in Rows /\ new.finished = now.finished
                    /\ new.status \in {now.status, s}
                    /\ [new EXCEPT !.finished = "recent"] \in Rows
                    /\ [new EXCEPT !.finished = "recent"].finished = "recent"
                    /\ [new EXCEPT !.finished = "recent"].status \in {now.status, s}
<1>1. ASSUME NEW goal \in Rows
      PROVE  Flushed(now, read, goal) =
               [status |-> IF goal.status = read.status THEN now.status ELSE goal.status,
                finished |-> IF goal.finished = read.finished THEN now.finished
                             ELSE goal.finished]
  BY DEF Flushed, Rows
<1>2. NewRow \in Rows /\ NewRow.status = "queued"
  BY DEF NewRow, Rows, Statuses
<1>3. /\ Flushed(now, read, NewRow) \in Rows
      /\ Flushed(now, read, NewRow).status \in {now.status, "queued"}
  BY <1>1, <1>2 DEF Rows
<1>4. ASSUME NEW s \in Statuses
      PROVE  LET new == Flushed(now, read, [read EXCEPT !.status = s])
             IN  /\ new \in Rows /\ new.finished = now.finished
                 /\ new.status \in {now.status, s}
                 /\ [new EXCEPT !.finished = "recent"] \in Rows
                 /\ [new EXCEPT !.finished = "recent"].finished = "recent"
                 /\ [new EXCEPT !.finished = "recent"].status \in {now.status, s}
  <2> DEFINE goal == [read EXCEPT !.status = s]
             new == Flushed(now, read, goal)
  <2>1. goal \in Rows /\ goal.status = s /\ goal.finished = read.finished
    BY DEF Rows
  <2> HIDE DEF goal
  <2>2. new = [status |-> IF s = read.status THEN now.status ELSE s,
               finished |-> now.finished]
    BY <1>1, <2>1
  <2> HIDE DEF new
  <2>3. /\ new \in Rows /\ new.finished = now.finished /\ new.status \in {now.status, s}
        /\ [new EXCEPT !.finished = "recent"] \in Rows
        /\ [new EXCEPT !.finished = "recent"].finished = "recent"
        /\ [new EXCEPT !.finished = "recent"].status \in {now.status, s}
    BY <2>2 DEF Rows
  <2> QED
    BY <2>3 DEF new, goal
<1> QED
  BY <1>3, <1>4

\* The report of somebody who has begun.
LEMMA HasReport ==
    ASSUME TypeOK, BegunHasReport, NEW u \in Users, pc[u] # "new"
    PROVE  rep[u] \in Reports /\ row[rep[u]] \in Rows /\ loaded[u] \in Rows
BY DEF TypeOK, BegunHasReport

\* What a step may do to the row of a report.
StatusMoves(r) ==
    row'[r].status = "succeeded" =>
        \/ row[r].status = "succeeded"
        \/ \E x \in Executors : Succeed(x) /\ rep[x] = r /\ r \in exists
FinishedMoves(r) ==
    \/ row'[r].finished = row[r].finished
    \/ Retried(r)
    \/ row[r].finished # "null" /\ row'[r].finished = "past"
    \/ \E x \in Executors : /\ rep[x] = r /\ Active(x) /\ pc'[x] = "done"
                            /\ tasks' = tasks /\ rep' = rep

\* Every step that writes a row: an execution, a retry or the calendar.
LEMMA RowStep ==
    ASSUME TypeOK, BegunHasReport, Next
    PROVE  /\ row' \in [Reports -> Rows]
           /\ \A r \in Reports : StatusMoves(r) /\ FinishedMoves(r)
<1> DEFINE Good == /\ row' \in [Reports -> Rows]
                   /\ \A r \in Reports : StatusMoves(r) /\ FinishedMoves(r)
<1>1. row \in [Reports -> Rows]
  BY DEF TypeOK
<1>2. ASSUME row' = row PROVE Good
  BY <1>1, <1>2 DEF StatusMoves, FinishedMoves
<1>3. ASSUME NEW k \in Reports, NEW new \in Rows, row' = [row EXCEPT ![k] = new],
             StatusMoves(k), FinishedMoves(k)
      PROVE  Good
  <2>1. \A r \in Reports \ {k} : row'[r] = row[r]
    BY <1>1, <1>3
  <2>2. ASSUME NEW r \in Reports PROVE StatusMoves(r) /\ FinishedMoves(r)
    BY <1>3, <2>1 DEF StatusMoves, FinishedMoves
  <2> QED
    BY <1>1, <1>3, <2>2
<1>4. {"running", "succeeded", "failed"} \subseteq Statuses
  BY DEF Statuses, Terminal
<1>5. ASSUME NEW x \in Executors, NEW s \in {"running", "succeeded", "failed"}, pc[x] # "new"
      PROVE  LET r == rep[x]
                 new == Flushed(row[r], loaded[x], [loaded[x] EXCEPT !.status = s])
             IN  /\ r \in Reports /\ new \in Rows /\ new.finished = row[r].finished
                 /\ new.status \in {row[r].status, s}
                 /\ [new EXCEPT !.finished = "recent"] \in Rows
                 /\ [new EXCEPT !.finished = "recent"].status \in {row[r].status, s}
  <2>1. x \in Users
    BY DEF Users
  <2>2. rep[x] \in Reports /\ row[rep[x]] \in Rows /\ loaded[x] \in Rows /\ s \in Statuses
    BY <1>4, <1>5, <2>1, HasReport
  <2> QED
    BY <2>2, FlushedRow
<1>6. ASSUME NEW x \in Executors, MarkRunning(x) PROVE Good
  <2> DEFINE r == rep[x]
             new == Flushed(row[r], loaded[x], [loaded[x] EXCEPT !.status = "running"])
  <2>1. pc[x] = "starting" /\ (row' = row \/ row' = [row EXCEPT ![r] = new])
    BY <1>6 DEF MarkRunning
  <2>2. /\ r \in Reports /\ new \in Rows /\ new.finished = row[r].finished
        /\ new.status \in {row[r].status, "running"}
    BY <1>5, <2>1
  <2> HIDE DEF new
  <2>3. CASE row' = [row EXCEPT ![r] = new]
    <3>1. row'[r] = new
      BY <1>1, <2>2, <2>3
    <3>2. StatusMoves(r) /\ FinishedMoves(r)
      BY <2>2, <3>1 DEF StatusMoves, FinishedMoves
    <3> QED
      BY <1>3, <2>2, <2>3, <3>2
  <2> QED
    BY <1>2, <2>1, <2>3
<1>7. ASSUME NEW x \in Executors, Succeed(x) PROVE Good
  <2> DEFINE r == rep[x]
             new == [Flushed(row[r], loaded[x], [loaded[x] EXCEPT !.status = "succeeded"])
                       EXCEPT !.finished = "recent"]
  <2>1. pc[x] = "saving" /\ tasks' = tasks /\ rep' = rep
    BY <1>7 DEF Succeed
  <2>2. \/ row' = row
        \/ row' = [row EXCEPT ![r] = new] /\ r \in exists /\ Goto(x, "done")
    BY <1>7 DEF Succeed
  <2>3. r \in Reports /\ new \in Rows
    BY <1>5, <2>1
  <2> HIDE DEF new
  <2>4. CASE row' = [row EXCEPT ![r] = new] /\ r \in exists /\ Goto(x, "done")
    <3>1. pc'[x] = "done" /\ Active(x)
      BY <2>1, <2>4 DEF TypeOK, Goto, Actors, Users, Active, Ended
    <3>2. StatusMoves(r) /\ FinishedMoves(r)
      BY <1>7, <2>1, <2>4, <3>1 DEF StatusMoves, FinishedMoves
    <3> QED
      BY <1>3, <2>3, <2>4, <3>2
  <2> QED
    BY <1>2, <2>2, <2>4
<1>8. ASSUME NEW x \in Executors, Fail(x) PROVE Good
  <2> DEFINE r == rep[x]
             new == [Flushed(row[r], loaded[x], [loaded[x] EXCEPT !.status = "failed"])
                       EXCEPT !.finished = "recent"]
  <2>1. pc[x] = "failing" /\ tasks' = tasks /\ rep' = rep
    BY <1>8 DEF Fail
  <2>2. row' = row \/ (row' = [row EXCEPT ![r] = new] /\ Goto(x, "done"))
    BY <1>8 DEF Fail
  <2>3. r \in Reports /\ new \in Rows /\ new.status \in {row[r].status, "failed"}
    BY <1>5, <2>1
  <2> HIDE DEF new
  <2>4. CASE row' = [row EXCEPT ![r] = new] /\ Goto(x, "done")
    <3>1. pc'[x] = "done" /\ Active(x) /\ row'[r] = new
      BY <1>1, <2>1, <2>3, <2>4 DEF TypeOK, Goto, Actors, Users, Active, Ended
    <3>2. StatusMoves(r) /\ FinishedMoves(r)
      BY <2>1, <2>3, <3>1 DEF StatusMoves, FinishedMoves
    <3> QED
      BY <1>3, <2>3, <2>4, <3>2
  <2> QED
    BY <1>2, <2>2, <2>4
<1>9. ASSUME NEW q \in Retries, RetryCommit(q) PROVE Good
  <2> DEFINE r == rep[q]
             new == Flushed(row[r], loaded[q], NewRow)
  <2>1. pc[q] = "enqueued" /\ (row' = row \/ row' = [row EXCEPT ![r] = new])
    BY <1>9 DEF RetryCommit
  <2>2. q \in Users
    BY DEF Users
  <2>3. r \in Reports /\ row[r] \in Rows /\ loaded[q] \in Rows
    BY <2>1, <2>2, HasReport
  <2>4. new \in Rows /\ new.status \in {row[r].status, "queued"}
    BY <2>3, FlushedRow
  <2> HIDE DEF new
  <2>5. CASE row' = [row EXCEPT ![r] = new]
    <3>1. row'[r] = new
      BY <1>1, <2>3, <2>5
    <3>2. StatusMoves(r) /\ FinishedMoves(r)
      BY <2>4, <3>1 DEF StatusMoves, FinishedMoves, Retried
    <3> QED
      BY <1>3, <2>3, <2>4, <2>5, <3>2
  <2> QED
    BY <1>2, <2>1, <2>5
<1>10. ASSUME NEW r \in Reports, Age(r) PROVE Good
  <2> DEFINE new == [row[r] EXCEPT !.finished = "past"]
  <2>1. row' = [row EXCEPT ![r] = new] /\ row[r].finished = "recent"
    BY <1>10 DEF Age
  <2>2. new \in Rows /\ new.finished = "past" /\ new.status = row[r].status
    BY <1>1 DEF Rows
  <2> HIDE DEF new
  <2>3. row'[r] = new
    BY <1>1, <2>1
  <2>4. StatusMoves(r) /\ FinishedMoves(r)
    BY <2>1, <2>2, <2>3 DEF StatusMoves, FinishedMoves
  <2> QED
    BY <1>3, <2>1, <2>2, <2>4
<1>11. ASSUME NEW x \in Executors, NEW r \in Reports, Begin(x, r) PROVE row' = row
  BY <1>11 DEF Begin, db
<1>12. ASSUME NEW x \in Executors,
              Load(x) \/ DropOld(x) \/ (\E f \in Entries : Save(x, f)) \/ Raise(x) \/ Reload(x)
       PROVE  row' = row
  BY <1>12 DEF Load, DropOld, Save, Raise, Reload, db
<1>13. ASSUME NEW q \in Retries, (\E r \in Reports : RetryRead(q, r)) \/ RetryEnqueue(q)
       PROVE  row' = row
  BY <1>13 DEF RetryRead, RetryEnqueue, db
<1>14. ASSUME NEW c \in Cleaners, Clean(c) PROVE row' = row
  BY <1>14 DEF Clean, Select, Purge, DropRows, CleanupCommit, db
<1>15. ASSUME NEW a \in Actors, Die(a) PROVE row' = row
  BY <1>15 DEF Die, db
<1> HIDE DEF Good
<1>16. Good
  BY <1>2, <1>6, <1>7, <1>8, <1>9, <1>10, <1>11, <1>12, <1>13, <1>14, <1>15 DEF Next, Execute
<1> QED
  BY <1>16 DEF Good

\* Every step keeps the types.
LEMMA TypeStep == ASSUME TypeOK, BegunHasReport, Next PROVE TypeOK'
<1> USE DEF TypeOK, Goto
<1>1. ASSUME NEW x \in Executors, NEW r \in Reports, Begin(x, r) PROVE TypeOK'
  BY <1>1 DEF Begin, Users, Actors, db, cleaning, failures
<1>2. ASSUME NEW x \in Executors, MarkRunning(x) PROVE TypeOK'
  <2>1. row' \in [Reports -> Rows]
    BY RowStep
  <2> QED
    BY <1>2, <2>1 DEF MarkRunning, Users, Actors, cleaning, failures
<1>3. ASSUME NEW x \in Executors, Load(x) PROVE TypeOK'
  BY <1>3, HasReport DEF Load, Users, Actors, db, cleaning, failures, RowsOf
<1>4. ASSUME NEW x \in Executors, DropOld(x) PROVE TypeOK'
  BY <1>4 DEF DropOld, Users, Actors, db, cleaning, failures
<1>5. ASSUME NEW x \in Executors, NEW f \in Entries, Save(x, f) PROVE TypeOK'
  <2>1. stored' \subseteq Keys
    <3>1. Requested[f] \in Formats
      BY RequestedIsList DEF Entries
    <3> QED
      BY <1>5, <3>1, HasReport DEF Save, Users, Keys
  <2> QED
    BY <1>5, <2>1 DEF Save, Users, Actors, db, cleaning, failures
<1>6. ASSUME NEW x \in Executors, Succeed(x) PROVE TypeOK'
  <2>1. row' \in [Reports -> Rows]
    BY RowStep
  <2>2. artifacts' \subseteq ArtifactRows
    BY <1>6, HasReport DEF Succeed, Users, NewRows, ArtifactRows
  <2>3. pc' \in [Actors -> {"new", "starting", "started", "dropping", "saving",
                            "raised", "failing", "found", "enqueued", "purging",
                            "done", "dead"}]
    BY <1>6 DEF Succeed
  <2>4. target' \in [Actors -> SUBSET ArtifactRows] /\ dropped' \in [Actors -> SUBSET ArtifactRows]
    BY <1>6 DEF Succeed, Release
  <2>5. UNCHANGED <<exists, stored, tasks, rep, loaded, saved, stale, doomed, workers, raises, crashes>>
    BY <1>6 DEF Succeed, cleaning, failures
  <2> QED
    BY <2>1, <2>2, <2>3, <2>4, <2>5
<1>7. ASSUME NEW x \in Executors, Raise(x) PROVE TypeOK'
  BY <1>7 DEF Raise, Release, Users, Actors, db, cleaning
<1>8. ASSUME NEW x \in Executors, Reload(x) PROVE TypeOK'
  BY <1>8, HasReport DEF Reload, Users, Actors, db, cleaning, failures
<1>9. ASSUME NEW x \in Executors, Fail(x) PROVE TypeOK'
  <2>1. row' \in [Reports -> Rows]
    BY RowStep
  <2> QED
    BY <1>9, <2>1 DEF Fail, Users, Actors, cleaning, failures
<1>10. ASSUME NEW q \in Retries, NEW r \in Reports, RetryRead(q, r) PROVE TypeOK'
  BY <1>10 DEF RetryRead, Users, Actors, db, cleaning, failures
<1>11. ASSUME NEW q \in Retries, RetryEnqueue(q) PROVE TypeOK'
  <2>1. q \in Users /\ pc[q] # "new"
    BY <1>11 DEF RetryEnqueue, Users
  <2>2. rep[q] \in Reports
    BY <2>1, HasReport
  <2> QED
    BY <1>11, <2>2 DEF RetryEnqueue, Users, Actors, db, cleaning, failures
<1>12. ASSUME NEW q \in Retries, RetryCommit(q) PROVE TypeOK'
  <2>1. row' \in [Reports -> Rows]
    BY RowStep
  <2> QED
    BY <1>12, <2>1 DEF RetryCommit, Users, Actors, cleaning, failures
<1>13. ASSUME NEW c \in Cleaners, Select(c) PROVE TypeOK'
  BY <1>13 DEF Select, Users, Actors, db, failures
<1>14. ASSUME NEW c \in Cleaners, NEW r \in Reports, Purge(c, r) PROVE TypeOK'
  BY <1>14 DEF Purge, Users, Actors, db, failures, RowsOf
<1>15. ASSUME NEW c \in Cleaners, DropRows(c) PROVE TypeOK'
  BY <1>15 DEF DropRows, Users, Actors, db, cleaning, failures
<1>16. ASSUME NEW c \in Cleaners, CleanupCommit(c) PROVE TypeOK'
  BY <1>16 DEF CleanupCommit, Release, Users, Actors, cleaning, failures
<1>17. ASSUME NEW a \in Actors, Die(a) PROVE TypeOK'
  BY <1>17 DEF Die, Release, Users, db, cleaning
<1>18. ASSUME NEW r \in Reports, Age(r) PROVE TypeOK'
  BY <1>18 DEF Age, Users, Actors, cleaning, failures, Rows
<1> QED
  BY <1>1, <1>2, <1>3, <1>4, <1>5, <1>6, <1>7, <1>8, <1>9, <1>10, <1>11, <1>12,
     <1>13, <1>14, <1>15, <1>16, <1>17, <1>18 DEF Next, Execute, Clean

\* How an actor moves, which report it works on, and who takes a task.
PcMoves(a) ==
    /\ pc[a] # "new" => pc'[a] # "new"
    /\ pc[a] \in Ended => pc'[a] = pc[a]
RepMoves(u) ==
    \/ rep'[u] = rep[u] /\ (pc'[u] = "new" <=> pc[u] = "new")
    \/ pc[u] = "new" /\ pc'[u] # "new" /\ rep'[u] \in Reports
TasksMove(r) ==
    \/ tasks'[r] = tasks[r] /\ \A x \in Executors : rep'[x] = r => rep[x] = r
    \/ Retried(r)
    \/ /\ tasks[r] > 0 /\ tasks'[r] = tasks[r] - 1 /\ row' = row
       /\ \E x \in Executors : rep' = [rep EXCEPT ![x] = r]

\* Nobody goes back, changes its report or takes a task that is not there.
LEMMA Frame ==
    ASSUME TypeOK, BegunHasReport, Next
    PROVE  /\ \A a \in Actors : PcMoves(a)
           /\ \A u \in Users : RepMoves(u)
           /\ \A r \in Reports : TasksMove(r)
<1> DEFINE Control == (\A a \in Actors : PcMoves(a)) /\ (\A u \in Users : RepMoves(u))
           Queue == \A r \in Reports : TasksMove(r)
<1>1. /\ pc \in [Actors -> {"new", "starting", "started", "dropping", "saving", "raised",
                           "failing", "found", "enqueued", "purging", "done", "dead"}]
      /\ rep \in [Users -> Reports \cup {NoReport}] /\ tasks \in [Reports -> Nat]
      /\ Executors \subseteq Users /\ Retries \subseteq Users /\ Cleaners \subseteq Actors
      /\ Users \subseteq Actors
  BY DEF TypeOK, Users, Actors
<1>2. ASSUME NEW a \in Actors, NEW w, w # "new", Goto(a, w), rep' = rep, pc[a] \notin Ended,
             a \in Users => pc[a] # "new"
      PROVE  Control
  <2>1. pc'[a] = w /\ \A b \in Actors \ {a} : pc'[b] = pc[b]
    BY <1>1, <1>2 DEF Goto
  <2>2. \A b \in Actors : PcMoves(b)
    BY <1>2, <2>1 DEF PcMoves
  <2>3. \A u \in Users : RepMoves(u)
    BY <1>1, <1>2, <2>1 DEF RepMoves
  <2> QED
    BY <2>2, <2>3
<1>3. ASSUME pc' = pc, rep' = rep PROVE Control
  BY <1>3 DEF PcMoves, RepMoves
<1>4. ASSUME tasks' = tasks, rep' = rep PROVE Queue
  BY <1>4 DEF TasksMove
<1>5. ASSUME NEW u \in Users, NEW r \in Reports, NEW w, w # "new", pc[u] = "new",
             Goto(u, w), rep' = [rep EXCEPT ![u] = r]
      PROVE  Control
  <2>1. pc'[u] = w /\ \A b \in Actors \ {u} : pc'[b] = pc[b]
    BY <1>1, <1>5 DEF Goto
  <2>2. rep'[u] = r /\ \A b \in Users \ {u} : rep'[b] = rep[b]
    BY <1>1, <1>5
  <2>3. \A b \in Actors : PcMoves(b)
    BY <1>5, <2>1 DEF PcMoves, Ended
  <2>4. \A b \in Users : RepMoves(b)
    BY <1>1, <1>5, <2>1, <2>2 DEF RepMoves
  <2> QED
    BY <2>3, <2>4
<1>6. ASSUME NEW x \in Executors, NEW r \in Reports, Begin(x, r) PROVE Control /\ Queue
  <2>1. /\ pc[x] = "new" /\ tasks[r] > 0 /\ tasks' = [tasks EXCEPT ![r] = tasks[r] - 1]
        /\ rep' = [rep EXCEPT ![x] = r] /\ row' = row
    BY <1>6 DEF Begin, db
  <2>2. PICK w \in {"starting", "dead"} : Goto(x, w)
    BY <1>6 DEF Begin
  <2>3. ASSUME NEW k \in Reports PROVE TasksMove(k)
    <3>1. CASE k = r
      BY <1>1, <2>1, <3>1 DEF TasksMove
    <3>2. CASE k # r
      <4>1. tasks'[k] = tasks[k] /\ \A y \in Executors : rep'[y] = k => rep[y] = k
        BY <1>1, <2>1, <3>2
      <4> QED
        BY <4>1 DEF TasksMove
    <3> QED
      BY <3>1, <3>2
  <2> QED
    BY <1>1, <1>5, <2>1, <2>2, <2>3
<1>7. ASSUME NEW x \in Executors, Execute(x) PROVE Control /\ Queue
  <2>1. tasks' = tasks /\ rep' = rep
    BY <1>7 DEF Execute, MarkRunning, Load, DropOld, Save, Succeed, Raise, Reload, Fail
  <2>2. CASE \E f \in Entries : Save(x, f)
    <3>1. pc' = pc
      BY <2>2 DEF Save
    <3> QED
      BY <1>3, <1>4, <2>1, <3>1
  <2>3. CASE ~(\E f \in Entries : Save(x, f))
    <3>1. /\ pc[x] \notin Ended /\ pc[x] # "new"
          /\ \E w \in {"started", "dead", "dropping", "raised", "saving", "done", "failing"} :
                Goto(x, w)
      BY <1>7, <2>3 DEF Execute, MarkRunning, Load, DropOld, Succeed, Raise, Reload, Fail, Ended
    <3>2. PICK w \in {"started", "dead", "dropping", "raised", "saving", "done", "failing"} :
            Goto(x, w)
      BY <3>1
    <3> QED
      BY <1>1, <1>2, <1>4, <2>1, <3>1, <3>2
  <2> QED
    BY <2>2, <2>3
<1>8. ASSUME NEW q \in Retries, NEW r \in Reports, RetryRead(q, r) PROVE Control /\ Queue
  <2>1. pc[q] = "new" /\ tasks' = tasks /\ rep' = [rep EXCEPT ![q] = r]
    BY <1>8 DEF RetryRead
  <2>2. PICK w \in {"found", "done"} : Goto(q, w)
    BY <1>8 DEF RetryRead
  <2>3. \A x \in Executors : rep'[x] = rep[x]
    BY <1>1, <2>1, ActorsDiffer
  <2>4. Queue
    BY <2>1, <2>3 DEF TasksMove
  <2> QED
    BY <1>1, <1>5, <2>1, <2>2, <2>4
<1>9. ASSUME NEW q \in Retries, RetryEnqueue(q) PROVE Control /\ Queue
  <2>1. /\ pc[q] = "found" /\ tasks' = [tasks EXCEPT ![rep[q]] = tasks[rep[q]] + 1]
        /\ rep' = rep /\ Goto(q, "enqueued")
    BY <1>9 DEF RetryEnqueue
  <2>2. Control
    BY <1>1, <1>2, <2>1 DEF Ended
  <2>3. ASSUME NEW k \in Reports PROVE TasksMove(k)
    <3>1. CASE k = rep[q]
      BY <3>1 DEF TasksMove, Retried
    <3>2. CASE k # rep[q]
      <4>1. tasks'[k] = tasks[k]
        BY <1>1, <2>1, <3>2
      <4> QED
        BY <2>1, <4>1 DEF TasksMove
    <3> QED
      BY <3>1, <3>2
  <2> QED
    BY <2>2, <2>3
<1>10. ASSUME NEW q \in Retries, RetryCommit(q) PROVE Control /\ Queue
  <2>1. pc[q] = "enqueued" /\ tasks' = tasks /\ rep' = rep /\ Goto(q, "done")
    BY <1>10 DEF RetryCommit
  <2> QED
    BY <1>1, <1>2, <1>4, <2>1 DEF Ended
<1>11. ASSUME NEW c \in Cleaners, Clean(c) PROVE Control /\ Queue
  <2>1. tasks' = tasks /\ rep' = rep /\ pc[c] \notin Ended /\ c \notin Users
    BY <1>11, ActorsDiffer DEF Clean, Select, Purge, DropRows, CleanupCommit, Ended, Users
  <2>2. PICK w \in {"purging", "dropping", "dead", "done"} : Goto(c, w)
    BY <1>11 DEF Clean, Select, Purge, DropRows, CleanupCommit
  <2> QED
    BY <1>1, <1>2, <1>4, <2>1, <2>2
<1>12. ASSUME NEW a \in Actors, Die(a) PROVE Control /\ Queue
  <2>1. /\ pc[a] \notin Ended /\ pc[a] # "new" /\ tasks' = tasks /\ rep' = rep
        /\ Goto(a, "dead")
    BY <1>12 DEF Die
  <2> QED
    BY <1>1, <1>2, <1>4, <2>1
<1>13. ASSUME NEW r \in Reports, Age(r) PROVE Control /\ Queue
  <2>1. pc' = pc /\ tasks' = tasks /\ rep' = rep
    BY <1>13 DEF Age
  <2> QED
    BY <1>3, <1>4, <2>1
<1> HIDE DEF Control, Queue
<1>14. Control /\ Queue
  BY <1>6, <1>7, <1>8, <1>9, <1>10, <1>11, <1>12, <1>13 DEF Next
<1> QED
  BY <1>14 DEF Control, Queue

\* So what has been retried and cleaned up once stays so.
LEMMA Stable ==
    ASSUME TypeOK, BegunHasReport, Next
    PROVE  /\ BegunHasReport'
           /\ \A r \in Reports : Retried(r) => Retried(r)'
           /\ CleanupBegun => CleanupBegun'
<1>1. (\A a \in Actors : PcMoves(a)) /\ (\A u \in Users : RepMoves(u))
  BY Frame
<1>2. BegunHasReport'
  BY <1>1, NoReportIsNoReport DEF BegunHasReport, RepMoves
<1>3. ASSUME NEW r \in Reports, Retried(r) PROVE Retried(r)'
  <2>1. PICK q \in Retries : rep[q] = r
    BY <1>3 DEF Retried
  <2>2. q \in Users /\ pc[q] # "new"
    BY <2>1, NoReportIsNoReport DEF Users, BegunHasReport
  <2>3. rep'[q] = r
    BY <1>1, <2>1, <2>2 DEF RepMoves
  <2> QED
    BY <2>3 DEF Retried
<1>4. CleanupBegun => CleanupBegun'
  BY <1>1 DEF CleanupBegun, PcMoves, Actors
<1> QED
  BY <1>2, <1>3, <1>4

-----------------------------------------------------------------------------
\* A report that is past retention and not retried is touched by nobody.
LEMMA PastStays ==
    ASSUME IInv, Next, NEW r \in Reports, row[r].finished = "past"
    PROVE  Retried(r) \/ row'[r].finished = "past"
<1> SUFFICES ASSUME ~Retried(r) PROVE row'[r].finished = "past"
  OBVIOUS
<1>1. \A x \in Executors : rep[x] = r => ~Active(x)
  BY DEF IInv, OneRun, Active
<1>2. FinishedMoves(r)
  BY RowStep DEF IInv
<1> QED
  BY <1>1, <1>2 DEF FinishedMoves

\* The one task of a report that nobody retries.
LEMMA OneRunStep == ASSUME IInv, Next, NEW r \in Reports PROVE OneRun(r)'
<1>1. (Retried(r) => Retried(r)') /\ OneRun(r)
  BY Stable DEF IInv
<1> SUFFICES ASSUME ~Retried(r)
             PROVE  /\ tasks'[r] \in {0, 1}
                    /\ \A x \in Executors : rep'[x] = r => tasks'[r] = 0
                    /\ \A x, y \in Executors : rep'[x] = r /\ rep'[y] = r => x = y
                    /\ row'[r].finished # "null" =>
                          tasks'[r] = 0 /\ \A x \in Executors : rep'[x] = r => pc'[x] \in Ended
  BY <1>1 DEF OneRun
<1>2. /\ tasks[r] \in {0, 1}
      /\ \A x \in Executors : rep[x] = r => tasks[r] = 0
      /\ \A x, y \in Executors : rep[x] = r /\ rep[y] = r => x = y
      /\ row[r].finished # "null" =>
            tasks[r] = 0 /\ \A x \in Executors : rep[x] = r => pc[x] \in Ended
  BY <1>1 DEF OneRun
<1>3. /\ TasksMove(r) /\ FinishedMoves(r)
      /\ \A x \in Executors : pc[x] \in Ended => pc'[x] = pc[x]
  BY Frame, RowStep DEF IInv, PcMoves, Users, Actors
<1>4. CASE tasks'[r] = tasks[r] /\ \A x \in Executors : rep'[x] = r => rep[x] = r
  <2>1. CASE row[r].finished # "null"
    BY <1>2, <1>3, <1>4, <2>1
  <2>2. CASE row'[r].finished = row[r].finished /\ row[r].finished = "null"
    BY <1>2, <1>4, <2>2
  <2>3. ASSUME NEW x \in Executors, rep[x] = r, pc'[x] = "done" PROVE pc'[x] \in Ended
    BY <2>3 DEF Ended
  <2>4. CASE \E x \in Executors : rep[x] = r /\ pc'[x] = "done" /\ rep' = rep
    BY <1>2, <1>4, <2>3, <2>4
  <2> QED
    BY <1>3, <2>1, <2>2, <2>4 DEF FinishedMoves
<1>5. CASE /\ tasks[r] > 0 /\ tasks'[r] = tasks[r] - 1 /\ row' = row
           /\ \E x \in Executors : rep' = [rep EXCEPT ![x] = r]
  <2>1. tasks[r] = 1 /\ tasks'[r] = 0
    BY <1>2, <1>5
  <2>2. /\ \A x \in Executors : rep[x] # r
        /\ row'[r].finished = "null"
    BY <1>2, <1>5, <2>1
  <2>3. PICK x \in Executors : rep' = [rep EXCEPT ![x] = r]
    BY <1>5
  <2>4. \A y \in Executors : rep'[y] = r => y = x
    BY <2>2, <2>3 DEF IInv, TypeOK, Users
  <2> QED
    BY <2>1, <2>2, <2>4
<1> QED
  BY <1>3, <1>4, <1>5 DEF TasksMove

\* What a cleanup has selected stays old or is retried.
LEMMA SelectedStep == ASSUME IInv, Next PROVE SelectedIsOld'
<1> SUFFICES ASSUME NEW c \in Cleaners, NEW r \in stale'[c] \cup doomed'[c]
             PROVE  Retried(r)' \/ row'[r].finished = "past"
  BY DEF SelectedIsOld
<1>1. /\ stale \in [Cleaners -> SUBSET Reports] /\ doomed \in [Cleaners -> SUBSET Reports]
      /\ exists \subseteq Reports
  BY DEF IInv, TypeOK
<1>2. r \in stale[c] \cup doomed[c] \/ (r \in Reports /\ row[r].finished = "past")
  <2>1. CASE \E b \in Cleaners : Select(b)
    BY <1>1, <2>1 DEF Select, PastRetention
  <2>2. CASE \E b \in Cleaners, k \in Reports : Purge(b, k)
    BY <1>1, <2>2 DEF Purge
  <2>3. CASE UNCHANGED <<stale, doomed>>
    BY <2>3
  <2>4. ASSUME NEW x \in Executors, Execute(x) PROVE UNCHANGED <<stale, doomed>>
    BY <2>4 DEF Execute, MarkRunning, Load, DropOld, Save, Succeed, Raise, Reload, Fail, cleaning
  <2>5. ASSUME NEW x \in Executors, NEW k \in Reports, Begin(x, k)
        PROVE  UNCHANGED <<stale, doomed>>
    BY <2>5 DEF Begin, cleaning
  <2>6. ASSUME NEW q \in Retries,
               (\E k \in Reports : RetryRead(q, k)) \/ RetryEnqueue(q) \/ RetryCommit(q)
        PROVE  UNCHANGED <<stale, doomed>>
    BY <2>6 DEF RetryRead, RetryEnqueue, RetryCommit, cleaning
  <2>7. ASSUME NEW b \in Cleaners, DropRows(b) \/ CleanupCommit(b)
        PROVE  UNCHANGED <<stale, doomed>>
    BY <2>7 DEF DropRows, CleanupCommit, cleaning
  <2>8. ASSUME NEW a \in Actors, Die(a) PROVE UNCHANGED <<stale, doomed>>
    BY <2>8 DEF Die, cleaning
  <2>9. ASSUME NEW k \in Reports, Age(k) PROVE UNCHANGED <<stale, doomed>>
    BY <2>9 DEF Age, cleaning
  <2> QED
    BY <2>1, <2>2, <2>3, <2>4, <2>5, <2>6, <2>7, <2>8, <2>9 DEF Next, Clean
<1>3. r \in Reports /\ (Retried(r) \/ row[r].finished = "past")
  BY <1>1, <1>2 DEF IInv, SelectedIsOld
<1>4. Retried(r) => Retried(r)'
  BY <1>3, Stable DEF IInv
<1> QED
  BY <1>3, <1>4, PastStays

-----------------------------------------------------------------------------
\* Rows come with an execution that succeeds and go with it or with a cleanup.
LEMMA RowsChange ==
    ASSUME Next
    PROVE  \/ UNCHANGED <<artifacts, exists>>
           \/ \E x \in Executors :
                /\ Succeed(x) /\ rep[x] \in exists /\ exists' = exists
                /\ artifacts' = (artifacts \ dropped[x]) \cup NewRows(x)
           \/ \E c \in Cleaners :
                /\ CleanupCommit(c) /\ ~Referenced(c) /\ exists' = exists \ doomed[c]
                /\ artifacts' = artifacts \ dropped[c]
<1>1. ASSUME NEW x \in Executors, Succeed(x)
      PROVE  \/ UNCHANGED <<artifacts, exists>>
             \/ /\ rep[x] \in exists /\ exists' = exists
                /\ artifacts' = (artifacts \ dropped[x]) \cup NewRows(x)
  BY <1>1 DEF Succeed
<1>2. ASSUME NEW c \in Cleaners, CleanupCommit(c)
      PROVE  \/ UNCHANGED <<artifacts, exists>>
             \/ /\ ~Referenced(c) /\ exists' = exists \ doomed[c]
                /\ artifacts' = artifacts \ dropped[c]
  BY <1>2 DEF CleanupCommit
<1>3. ASSUME NEW x \in Executors, Execute(x), ~Succeed(x) PROVE UNCHANGED <<artifacts, exists>>
  BY <1>3 DEF Execute, MarkRunning, Load, DropOld, Save, Raise, Reload, Fail, db
<1>4. ASSUME NEW x \in Executors, NEW r \in Reports, Begin(x, r)
      PROVE  UNCHANGED <<artifacts, exists>>
  BY <1>4 DEF Begin, db
<1>5. ASSUME NEW q \in Retries,
             (\E r \in Reports : RetryRead(q, r)) \/ RetryEnqueue(q) \/ RetryCommit(q)
      PROVE  UNCHANGED <<artifacts, exists>>
  BY <1>5 DEF RetryRead, RetryEnqueue, RetryCommit, db
<1>6. ASSUME NEW c \in Cleaners, Clean(c), ~CleanupCommit(c)
      PROVE  UNCHANGED <<artifacts, exists>>
  BY <1>6 DEF Clean, Select, Purge, DropRows, db
<1>7. ASSUME NEW a \in Actors, Die(a) PROVE UNCHANGED <<artifacts, exists>>
  BY <1>7 DEF Die, db
<1>8. ASSUME NEW r \in Reports, Age(r) PROVE UNCHANGED <<artifacts, exists>>
  BY <1>8 DEF Age
<1> QED
  BY <1>1, <1>2, <1>3, <1>4, <1>5, <1>6, <1>7, <1>8 DEF Next

\* Only a cleanup deletes files, and only those of a report it has selected.
LEMMA FilesChange ==
    ASSUME Next
    PROVE  \/ stored \subseteq stored'
           \/ \E c \in Cleaners, r \in Reports : Purge(c, r)
<1>1. ASSUME NEW x \in Executors, Execute(x) PROVE stored \subseteq stored'
  BY <1>1 DEF Execute, MarkRunning, Load, DropOld, Save, Succeed, Raise, Reload, Fail
<1>2. ASSUME NEW x \in Executors, NEW r \in Reports, Begin(x, r) PROVE stored' = stored
  BY <1>2 DEF Begin
<1>3. ASSUME NEW q \in Retries,
             (\E r \in Reports : RetryRead(q, r)) \/ RetryEnqueue(q) \/ RetryCommit(q)
      PROVE  stored' = stored
  BY <1>3 DEF RetryRead, RetryEnqueue, RetryCommit
<1>4. ASSUME NEW c \in Cleaners, Select(c) \/ DropRows(c) \/ CleanupCommit(c)
      PROVE  stored' = stored
  BY <1>4 DEF Select, DropRows, CleanupCommit
<1>5. ASSUME NEW a \in Actors, Die(a) PROVE stored' = stored
  BY <1>5 DEF Die
<1>6. ASSUME NEW r \in Reports, Age(r) PROVE stored' = stored
  BY <1>6 DEF Age
<1> QED
  BY <1>1, <1>2, <1>3, <1>4, <1>5, <1>6 DEF Next, Clean

\* A file that a step deletes belongs to a report that is old or retried.
LEMMA FileStays ==
    ASSUME IInv, Next, NEW r \in Reports, NEW f, <<r, f>> \in stored
    PROVE  \/ <<r, f>> \in stored'
           \/ CleanupBegun /\ row' = row /\ (Retried(r) \/ row[r].finished = "past")
<1>1. ASSUME NEW c \in Cleaners, NEW k \in Reports, Purge(c, k), <<r, f>> \notin stored'
      PROVE  CleanupBegun /\ row' = row /\ (Retried(r) \/ row[r].finished = "past")
  <2>1. /\ pc[c] = "purging" /\ k \in stale[c] /\ row' = row
        /\ stored' = stored \ {KeyOf(a) : a \in RowsOf(k)}
    BY <1>1 DEF Purge, db
  <2>2. PICK a \in RowsOf(k) : <<r, f>> = KeyOf(a)
    BY <1>1, <2>1
  <2>3. r = k
    BY <2>2 DEF RowsOf, KeyOf
  <2> QED
    BY <2>1, <2>3 DEF CleanupBegun, IInv, SelectedIsOld
<1> QED
  BY <1>1, FilesChange

\* The rows that are offered have their files.
LEMMA FilesStep == ASSUME IInv, Next PROVE \A a \in artifacts' : FileThere(a)'
<1>1. artifacts \subseteq ArtifactRows
  BY DEF IInv, TypeOK
<1>2. ASSUME NEW r \in Reports, CleanupBegun, Retried(r) \/ row[r].finished = "past"
      PROVE  CleanupBegun' /\ (Retried(r)' \/ row'[r].finished = "past")
  BY <1>2, Stable, PastStays DEF IInv
<1>3. ASSUME NEW a \in artifacts PROVE FileThere(a)'
  <2>1. a.report \in Reports /\ FileThere(a)
    BY <1>1 DEF ArtifactRows, IInv
  <2>2. CASE KeyOf(a) \in stored
    BY <1>2, <2>1, <2>2, FileStays DEF FileThere, KeyOf
  <2>3. CASE CleanupBegun /\ (Retried(a.report) \/ row[a.report].finished = "past")
    BY <1>2, <2>1, <2>3 DEF FileThere
  <2> QED
    BY <2>1, <2>2, <2>3 DEF FileThere
<1>4. ASSUME NEW x \in Executors, Succeed(x), NEW a \in NewRows(x) PROVE FileThere(a)'
  <2>1. pc[x] = "saving" /\ stored' = stored /\ x \in Users
    BY <1>4 DEF Succeed, Users
  <2>2. PICK f \in saved[x] : a.report = rep[x] /\ a.entry = f
    BY <1>4 DEF NewRows
  <2>3. rep[x] \in Reports
    BY <2>1, HasReport DEF IInv
  <2>4. KeyOf(a) \in stored \/ (CleanupBegun /\ Retried(rep[x]))
    BY <2>1, <2>2 DEF IInv, SavedThere, KeyOf
  <2> QED
    BY <1>2, <2>1, <2>2, <2>3, <2>4 DEF FileThere, KeyOf
<1> QED
  BY <1>3, <1>4, RowsChange

-----------------------------------------------------------------------------
\* What a step may do to an execution.
Kept(x) == /\ pc'[x] = pc[x] /\ rep'[x] = rep[x] /\ target'[x] = target[x]
           /\ dropped'[x] = dropped[x] /\ saved'[x] = saved[x]
Begun(x) == /\ pc[x] = "new" /\ pc'[x] \in {"starting", "dead"} /\ target'[x] = target[x]
            /\ dropped'[x] = dropped[x] /\ saved'[x] = saved[x]
Loads(x) == /\ pc[x] = "started" /\ pc'[x] = "dropping" /\ target'[x] = RowsOf(rep[x])
            /\ dropped'[x] = dropped[x] /\ saved'[x] = saved[x] /\ rep'[x] = rep[x]
            /\ artifacts' = artifacts
Drops(x) == /\ pc[x] = "dropping" /\ pc'[x] = "saving" /\ target'[x] = target[x]
            /\ dropped'[x] = target[x] \cap artifacts /\ saved'[x] = saved[x]
            /\ rep'[x] = rep[x] /\ artifacts' = artifacts
Saves(x) == /\ pc[x] = "saving" /\ pc'[x] = "saving" /\ target'[x] = target[x]
            /\ dropped'[x] = dropped[x] /\ rep'[x] = rep[x] /\ stored \subseteq stored'
            /\ \E e \in Entries : /\ saved'[x] = saved[x] \cup {e}
                                 /\ <<rep[x], Requested[e]>> \in stored'
Ends(x) == /\ pc[x] # "new" /\ pc'[x] \in {"raised", "done", "dead"} /\ target'[x] = {}
           /\ dropped'[x] = {} /\ rep'[x] = rep[x]
Passes(x) == /\ pc[x] \in {"starting", "started", "raised", "failing"}
             /\ pc'[x] \in {"started", "failing", "raised", "done", "dead"}
             /\ pc'[x] = "started" => pc[x] = "starting"
             /\ target'[x] = target[x] /\ dropped'[x] = dropped[x] /\ saved'[x] = saved[x]
             /\ rep'[x] = rep[x]
Moves(x) == Begun(x) \/ Loads(x) \/ Drops(x) \/ Saves(x) \/ Ends(x) \/ Passes(x)

\* An execution is moved by its own steps only.
LEMMA ExecutorMoves ==
    ASSUME TypeOK, Next, NEW x \in Executors PROVE Kept(x) \/ Moves(x)
<1>1. /\ pc \in [Actors -> {"new", "starting", "started", "dropping", "saving", "raised",
                           "failing", "found", "enqueued", "purging", "done", "dead"}]
      /\ rep \in [Users -> Reports \cup {NoReport}]
      /\ target \in [Actors -> SUBSET ArtifactRows]
      /\ dropped \in [Actors -> SUBSET ArtifactRows]
      /\ saved \in [Executors -> SUBSET Entries]
      /\ x \in Users /\ x \in Actors /\ x \notin Retries /\ x \notin Cleaners
  BY ActorsDiffer DEF TypeOK, Users, Actors
<1>2. ASSUME NEW y \in Executors, NEW r \in Reports, Begin(y, r) PROVE Kept(x) \/ Begun(x)
  <2>1. /\ pc[y] = "new" /\ rep' = [rep EXCEPT ![y] = r]
        /\ UNCHANGED <<target, dropped, saved>>
    BY <1>2 DEF Begin
  <2>2. PICK w \in {"starting", "dead"} : Goto(y, w)
    BY <1>2 DEF Begin
  <2> QED
    BY <1>1, <2>1, <2>2 DEF Goto, Kept, Begun
<1>3. ASSUME NEW y \in Executors, MarkRunning(y) \/ Reload(y) \/ Fail(y)
      PROVE  Kept(x) \/ Passes(x)
  <2>1. /\ pc[y] \in {"starting", "raised", "failing"}
        /\ UNCHANGED <<rep, target, dropped, saved>>
    BY <1>3 DEF MarkRunning, Reload, Fail
  <2>2. PICK w \in {"started", "failing", "done", "dead"} :
          Goto(y, w) /\ (w = "started" => pc[y] = "starting")
    BY <1>3 DEF MarkRunning, Reload, Fail
  <2> QED
    BY <1>1, <2>1, <2>2 DEF Goto, Kept, Passes
<1>4. ASSUME NEW y \in Executors, Load(y) PROVE Kept(x) \/ Loads(x) \/ Passes(x)
  <2>1. pc[y] = "started" /\ UNCHANGED <<rep, dropped, saved, artifacts>>
    BY <1>4 DEF Load, db
  <2>2. \/ target' = [target EXCEPT ![y] = RowsOf(rep[y])] /\ Goto(y, "dropping")
        \/ target' = target /\ Goto(y, "raised")
    BY <1>4 DEF Load
  <2>3. CASE target' = [target EXCEPT ![y] = RowsOf(rep[y])] /\ Goto(y, "dropping")
    BY <1>1, <2>1, <2>3 DEF Goto, Kept, Loads
  <2>4. CASE target' = target /\ Goto(y, "raised")
    BY <1>1, <2>1, <2>4 DEF Goto, Kept, Passes
  <2> QED
    BY <2>2, <2>3, <2>4
<1>5. ASSUME NEW y \in Executors, DropOld(y) PROVE Kept(x) \/ Drops(x)
  <2>1. /\ pc[y] = "dropping" /\ UNCHANGED <<rep, target, saved, artifacts>>
        /\ dropped' = [dropped EXCEPT ![y] = target[y] \cap artifacts]
        /\ Goto(y, "saving")
    BY <1>5 DEF DropOld, db
  <2> QED
    BY <1>1, <2>1 DEF Goto, Kept, Drops
<1>6. ASSUME NEW y \in Executors, NEW f \in Entries, Save(y, f) PROVE Kept(x) \/ Saves(x)
  <2>1. /\ pc[y] = "saving" /\ UNCHANGED <<pc, rep, target, dropped>>
        /\ saved' = [saved EXCEPT ![y] = saved[y] \cup {f}]
        /\ stored' = stored \cup {<<rep[y], Requested[f]>>}
    BY <1>6 DEF Save
  <2> QED
    BY <1>1, <2>1 DEF Kept, Saves
<1>7. ASSUME NEW a \in Actors, NEW w \in {"raised", "done", "dead"}, pc[a] # "new",
             Goto(a, w), Release(a), UNCHANGED <<rep, saved>>
      PROVE  Kept(x) \/ Ends(x)
  BY <1>1, <1>7 DEF Goto, Release, Kept, Ends
<1>8. ASSUME NEW y \in Executors, Succeed(y) PROVE Kept(x) \/ Ends(x)
  <2>1. pc[y] = "saving" /\ Release(y) /\ UNCHANGED <<rep, saved>> /\ y \in Actors
    BY <1>8 DEF Succeed, Actors, Users
  <2>2. Goto(y, "done") \/ Goto(y, "raised")
    BY <1>8 DEF Succeed
  <2> QED
    BY <1>7, <2>1, <2>2
<1>9. ASSUME NEW y \in Executors, Raise(y) PROVE Kept(x) \/ Ends(x)
  <2>1. /\ pc[y] # "new" /\ Goto(y, "raised") /\ Release(y) /\ UNCHANGED <<rep, saved>>
        /\ y \in Actors
    BY <1>9 DEF Raise, Actors, Users
  <2> QED
    BY <1>7, <2>1
<1>10. ASSUME NEW a \in Actors, Die(a) PROVE Kept(x) \/ Ends(x)
  <2>1. pc[a] # "new" /\ Goto(a, "dead") /\ Release(a) /\ UNCHANGED <<rep, saved>>
    BY <1>10 DEF Die
  <2> QED
    BY <1>7, <2>1
<1>11. ASSUME NEW q \in Retries,
              (\E r \in Reports : RetryRead(q, r)) \/ RetryEnqueue(q) \/ RetryCommit(q)
       PROVE  Kept(x)
  <2>1. /\ UNCHANGED <<target, dropped, saved>>
        /\ rep' = rep \/ \E r \in Reports : rep' = [rep EXCEPT ![q] = r]
        /\ \E w \in {"found", "enqueued", "done"} : Goto(q, w)
    BY <1>11 DEF RetryRead, RetryEnqueue, RetryCommit
  <2> QED
    BY <1>1, <2>1 DEF Goto, Kept
<1>12. ASSUME NEW c \in Cleaners, Clean(c) PROVE Kept(x)
  <2>1. /\ UNCHANGED <<rep, saved>>
        /\ \E w \in {"purging", "dropping", "done", "dead"} : Goto(c, w)
        /\ target' = target \/ \E v : target' = [target EXCEPT ![c] = v]
        /\ dropped' = dropped \/ \E v : dropped' = [dropped EXCEPT ![c] = v]
    BY <1>12 DEF Clean, Select, Purge, DropRows, CleanupCommit, Release
  <2> QED
    BY <1>1, <2>1 DEF Goto, Kept
<1>13. ASSUME NEW r \in Reports, Age(r) PROVE Kept(x)
  BY <1>13 DEF Age, Kept
<1> QED
  BY <1>2, <1>3, <1>4, <1>5, <1>6, <1>8, <1>9, <1>10, <1>11, <1>12, <1>13
  DEF Next, Execute, Moves

\* What an execution has saved is still there when it commits.
LEMMA SavedStep == ASSUME IInv, Next PROVE SavedThere'
<1> SUFFICES ASSUME NEW x \in Executors, pc'[x] = "saving", NEW f \in saved'[x]
             PROVE  \/ <<rep'[x], Requested[f]>> \in stored'
                    \/ CleanupBegun' /\ \E q \in Retries : rep'[q] = rep'[x]
  BY DEF SavedThere, Retried
<1>1. TypeOK /\ BegunHasReport /\ x \in Users
  BY DEF IInv, Users
<1>2. Kept(x) \/ Drops(x) \/ Saves(x)
  BY <1>1, ExecutorMoves DEF Moves, Begun, Loads, Ends, Passes
<1>3. pc[x] # "new" /\ rep'[x] = rep[x]
  BY <1>2 DEF Kept, Drops, Saves
<1>4. rep[x] \in Reports
  BY <1>1, <1>3, HasReport
<1>5. CASE Drops(x)
  BY <1>5 DEF Drops, IInv, OwnRows, OwnRowsOf
<1>6. ASSUME pc[x] = "saving", f \in saved[x]
      PROVE  \/ <<rep[x], Requested[f]>> \in stored'
             \/ CleanupBegun' /\ \E q \in Retries : rep'[q] = rep[x]
  <2>1. <<rep[x], Requested[f]>> \in stored \/ (CleanupBegun /\ Retried(rep[x]))
    BY <1>6 DEF IInv, SavedThere
  <2>2. Retried(rep[x]) \/ row[rep[x]].finished # "past"
    BY <1>4, <1>6 DEF IInv, OneRun, Ended
  <2>3. <<rep[x], Requested[f]>> \in stored' \/ (CleanupBegun /\ Retried(rep[x]))
    BY <1>4, <2>1, <2>2, FileStays
  <2>4. CleanupBegun /\ Retried(rep[x]) => CleanupBegun' /\ \E q \in Retries : rep'[q] = rep[x]
    <3> DEFINE r == rep[x]
    <3>1. PICK k \in Reports : k = r
      BY <1>4
    <3>2. Retried(k) => Retried(k)'
      BY <1>1, Stable
    <3>3. Retried(k) => \E q \in Retries : rep'[q] = k
      BY <3>2 DEF Retried
    <3>4. CleanupBegun => CleanupBegun'
      BY <1>1, Stable
    <3> QED
      BY <3>1, <3>3, <3>4
  <2> QED
    BY <2>3, <2>4
<1>7. CASE Kept(x)
  BY <1>3, <1>6, <1>7 DEF Kept
<1>8. CASE Saves(x)
  <2>1. PICK g \in Entries : /\ saved'[x] = saved[x] \cup {g}
                          /\ <<rep[x], Requested[g]>> \in stored'
    BY <1>8 DEF Saves
  <2>2. pc[x] = "saving" /\ (f = g \/ f \in saved[x])
    BY <1>8, <2>1 DEF Saves
  <2> QED
    BY <1>3, <1>6, <2>1, <2>2
<1> QED
  BY <1>2, <1>5, <1>7, <1>8

-----------------------------------------------------------------------------
\* An actor deletes rows of its own reports only.
LEMMA OwnRowsStep == ASSUME IInv, Next PROVE OwnRows'
<1>1. /\ TypeOK /\ pc \in [Actors -> {"new", "starting", "started", "dropping", "saving",
             "raised", "failing", "found", "enqueued", "purging", "done", "dead"}]
      /\ target \in [Actors -> SUBSET ArtifactRows]
      /\ dropped \in [Actors -> SUBSET ArtifactRows]
      /\ doomed \in [Cleaners -> SUBSET Reports]
  BY DEF IInv, TypeOK
<1>2. ASSUME NEW x \in Executors PROVE OwnRowsOf(x)'
  <2>1. /\ \A a \in target[x] \cup dropped[x] : a.report = rep[x]
        /\ pc[x] = "new" => target[x] = {} /\ dropped[x] = {}
        /\ pc[x] \in {"new", "starting", "started", "dropping"} => saved[x] = {}
    BY DEF IInv, OwnRows, OwnRowsOf
  <2> SUFFICES /\ \A a \in target'[x] \cup dropped'[x] : a.report = rep'[x]
               /\ pc'[x] = "new" => target'[x] = {} /\ dropped'[x] = {}
               /\ pc'[x] \in {"new", "starting", "started", "dropping"} => saved'[x] = {}
    BY DEF OwnRowsOf
  <2>2. CASE Kept(x)
    BY <2>1, <2>2 DEF Kept
  <2>3. CASE Begun(x)
    BY <2>1, <2>3 DEF Begun
  <2>4. CASE Loads(x)
    BY <2>1, <2>4 DEF Loads, RowsOf
  <2>5. CASE Drops(x)
    BY <2>1, <2>5 DEF Drops
  <2>6. CASE Saves(x)
    BY <2>1, <2>6 DEF Saves
  <2>7. CASE Ends(x)
    BY <2>1, <2>7 DEF Ends
  <2>8. CASE Passes(x)
    BY <2>1, <2>8 DEF Passes
  <2> QED
    BY <1>1, <2>2, <2>3, <2>4, <2>5, <2>6, <2>7, <2>8, ExecutorMoves DEF Moves
<1>3. ASSUME NEW c \in Cleaners PROVE DoomedRowsOf(c)'
  <2>1. \A a \in target[c] \cup dropped[c] : a.report \in doomed[c]
    BY DEF IInv, OwnRows, DoomedRowsOf
  <2>2. c \in Actors /\ c \notin Executors
    BY ActorsDiffer DEF Actors
  <2> SUFFICES \A a \in target'[c] \cup dropped'[c] : a.report \in doomed'[c]
    BY DEF DoomedRowsOf
  <2>3. ASSUME target'[c] \subseteq target[c] \cup dropped[c],
               dropped'[c] \subseteq target[c] \cup dropped[c], doomed[c] \subseteq doomed'[c]
        PROVE  \A a \in target'[c] \cup dropped'[c] : a.report \in doomed'[c]
    BY <2>1, <2>3
  <2>4. ASSUME NEW b \in Cleaners, NEW r \in Reports, Purge(b, r)
        PROVE  \A a \in target'[c] \cup dropped'[c] : a.report \in doomed'[c]
    <3>1. /\ target' = [target EXCEPT ![b] = RowsOf(r)] /\ dropped' = dropped
          /\ doomed' = [doomed EXCEPT ![b] = doomed[b] \cup {r}]
      BY <2>4 DEF Purge
    <3>2. CASE b # c
      BY <1>1, <2>1, <2>2, <3>1, <3>2
    <3>3. CASE b = c
      <4>1. target'[c] = RowsOf(r) /\ dropped'[c] = dropped[c] /\ doomed'[c] = doomed[c] \cup {r}
        BY <1>1, <2>2, <3>1, <3>3
      <4> QED
        BY <2>1, <4>1 DEF RowsOf
    <3> QED
      BY <3>2, <3>3
  <2>5. ASSUME NEW b \in Cleaners, DropRows(b) \/ Select(b) \/ CleanupCommit(b)
        PROVE  \A a \in target'[c] \cup dropped'[c] : a.report \in doomed'[c]
    <3>1. /\ target' = target \/ target' = [target EXCEPT ![b] = {}]
          /\ \/ dropped' = dropped
             \/ dropped' = [dropped EXCEPT ![b] = {}]
             \/ dropped' = [dropped EXCEPT ![b] = dropped[b] \cup (target[b] \cap artifacts)]
          /\ doomed' = doomed
      BY <2>5 DEF DropRows, Select, CleanupCommit, Release, cleaning
    <3> QED
      BY <1>1, <2>2, <2>3, <3>1
  <2>6. ASSUME NEW a \in Actors, Release(a), doomed' = doomed
        PROVE  \A b \in target'[c] \cup dropped'[c] : b.report \in doomed'[c]
    BY <1>1, <2>2, <2>3, <2>6 DEF Release
  <2>7. ASSUME NEW x \in Executors, Succeed(x) \/ Raise(x)
        PROVE  x \in Actors /\ Release(x) /\ doomed' = doomed
    BY <2>7 DEF Succeed, Raise, cleaning, Actors, Users
  <2>8. ASSUME NEW a \in Actors, Die(a) PROVE Release(a) /\ doomed' = doomed
    BY <2>8 DEF Die, cleaning
  <2>9. ASSUME NEW x \in Executors, Load(x) \/ DropOld(x)
        PROVE  target'[c] = target[c] /\ dropped'[c] = dropped[c] /\ doomed' = doomed
    BY <1>1, <2>2, <2>9 DEF Load, DropOld, cleaning
  <2>10. ASSUME NEW x \in Executors,
                \/ \E r \in Reports : Begin(x, r)
                \/ MarkRunning(x) \/ (\E f \in Entries : Save(x, f)) \/ Reload(x) \/ Fail(x)
         PROVE  UNCHANGED <<target, dropped, doomed>>
    BY <2>10 DEF Begin, MarkRunning, Save, Reload, Fail, cleaning
  <2>11. ASSUME NEW q \in Retries,
                (\E r \in Reports : RetryRead(q, r)) \/ RetryEnqueue(q) \/ RetryCommit(q)
         PROVE  UNCHANGED <<target, dropped, doomed>>
    BY <2>11 DEF RetryRead, RetryEnqueue, RetryCommit, cleaning
  <2>12. ASSUME NEW r \in Reports, Age(r) PROVE UNCHANGED <<target, dropped, doomed>>
    BY <2>12 DEF Age, cleaning
  <2> QED
    BY <2>1, <2>4, <2>5, <2>6, <2>7, <2>8, <2>9, <2>10, <2>11, <2>12 DEF Next, Execute, Clean
<1> QED
  BY <1>2, <1>3 DEF OwnRows

-----------------------------------------------------------------------------
\* No commit leaves a row without its report.
LEMMA ReportsStep == ASSUME IInv, Next PROVE ArtifactsHaveReport'
<1> SUFFICES ASSUME NEW a \in artifacts' PROVE a.report \in exists'
  BY DEF ArtifactsHaveReport
<1>1. \A b \in artifacts : b.report \in exists
  BY DEF IInv, ArtifactsHaveReport
<1>2. ASSUME NEW x \in Executors, rep[x] \in exists, exists' = exists,
             artifacts' = (artifacts \ dropped[x]) \cup NewRows(x)
      PROVE  a.report \in exists'
  BY <1>1, <1>2 DEF NewRows
<1>3. ASSUME NEW c \in Cleaners, ~Referenced(c), exists' = exists \ doomed[c],
             artifacts' = artifacts \ dropped[c]
      PROVE  a.report \in exists'
  BY <1>1, <1>3 DEF Referenced, RowsOf
<1> QED
  BY <1>1, <1>2, <1>3, RowsChange

\* The rows of a succeeded report are replaced in the commit that deletes them.
LEMMA EntriesStep == ASSUME IInv, Next PROVE SucceededHasEveryEntry'
<1> SUFFICES ASSUME NEW r \in exists', row'[r].status = "succeeded", NEW f \in Entries
             PROVE  \E a \in artifacts' : a.report = r /\ a.entry = f
  BY DEF SucceededHasEveryEntry
<1>1. r \in exists /\ r \in Reports
  BY RowsChange DEF IInv, TypeOK
<1>2. ASSUME NEW x \in Executors, Succeed(x), rep[x] = r
      PROVE  \E a \in artifacts' : a.report = r /\ a.entry = f
  <2>1. saved[x] = Entries /\ NewRows(x) \subseteq artifacts'
    BY <1>1, <1>2 DEF Succeed
  <2>2. [report |-> r, entry |-> f, by |-> x] \in NewRows(x)
    BY <1>2, <2>1 DEF NewRows
  <2> QED
    BY <2>1, <2>2
<1>3. ASSUME row[r].status = "succeeded", ~\E x \in Executors : Succeed(x) /\ rep[x] = r
      PROVE  \E a \in artifacts' : a.report = r /\ a.entry = f
  <2>1. PICK a \in artifacts : a.report = r /\ a.entry = f
    BY <1>1, <1>3 DEF IInv, SucceededHasEveryEntry
  <2>2. ASSUME NEW x \in Executors, Succeed(x) PROVE a \notin dropped[x]
    BY <1>3, <2>1, <2>2 DEF IInv, OwnRows, OwnRowsOf
  <2>3. ASSUME NEW c \in Cleaners, exists' = exists \ doomed[c] PROVE a \notin dropped[c]
    BY <2>1, <2>3 DEF IInv, OwnRows, DoomedRowsOf
  <2>4. a \in artifacts'
    BY <2>1, <2>2, <2>3, RowsChange
  <2> QED
    BY <2>1, <2>4
<1>4. StatusMoves(r)
  BY <1>1, RowStep DEF IInv
<1> QED
  BY <1>2, <1>3, <1>4 DEF StatusMoves

-----------------------------------------------------------------------------
\* The number of worker processes does not change.
LEMMA WorkersFixed == ASSUME Next PROVE workers' = workers
<1>1. ASSUME NEW x \in Executors, Execute(x) \/ \E r \in Reports : Begin(x, r)
      PROVE  workers' = workers
  BY <1>1 DEF Execute, Begin, MarkRunning, Load, DropOld, Save, Succeed, Raise, Reload, Fail
<1>2. ASSUME NEW q \in Retries,
             (\E r \in Reports : RetryRead(q, r)) \/ RetryEnqueue(q) \/ RetryCommit(q)
      PROVE  workers' = workers
  BY <1>2 DEF RetryRead, RetryEnqueue, RetryCommit
<1>3. ASSUME NEW c \in Cleaners, Clean(c) PROVE workers' = workers
  BY <1>3 DEF Clean, Select, Purge, DropRows, CleanupCommit
<1>4. ASSUME NEW a \in Actors, Die(a) PROVE workers' = workers
  BY <1>4 DEF Die
<1>5. ASSUME NEW r \in Reports, Age(r) PROVE workers' = workers
  BY <1>5 DEF Age
<1> QED
  BY <1>1, <1>2, <1>3, <1>4, <1>5 DEF Next

\* Where there is one worker process, it takes a task when nothing runs.
LEMMA FreeWorker ==
    ASSUME NEW x \in Executors, NEW r \in Reports, Begin(x, r), workers = 1
    PROVE  \A y \in Executors : ~Active(y)
<1> DEFINE Running == {y \in Executors : pc[y] \notin Ended \cup {"new"}}
<1>1. IsFiniteSet(Running)
  BY ExecutorsAreFinite, FS_Subset
<1>2. Cardinality(Running) \in Nat
  BY <1>1, FS_CardinalityType
<1>3. Cardinality(Running) < 1
  BY DEF Begin
<1>4. Cardinality(Running) = 0
  BY <1>2, <1>3
<1>5. Running = {}
  BY <1>1, <1>4, FS_EmptySet
<1> QED
  BY <1>5 DEF Active

\* Only the start of an execution makes it active.
LEMMA SoleStep == ASSUME IInv, Next PROVE SoleWorker'
<1> SUFFICES ASSUME workers = 1, NEW x \in Executors, NEW y \in Executors,
                    Active(x)', Active(y)'
             PROVE  x = y
  BY WorkersFixed DEF SoleWorker
<1>1. pc'[x] \notin Ended \cup {"new"} /\ pc'[y] \notin Ended \cup {"new"}
  BY DEF Active
<1>2. ASSUME NEW z \in Executors, NEW r \in Reports, Begin(z, r) PROVE x = y
  <2>1. ~Active(x) /\ ~Active(y)
    BY <1>2, FreeWorker
  <2>2. \A b \in Actors \ {z} : pc'[b] = pc[b]
    BY <1>2 DEF IInv, TypeOK, Begin, Goto
  <2>3. x \in Actors /\ y \in Actors
    BY DEF Actors, Users
  <2> QED
    BY <1>1, <2>1, <2>2, <2>3 DEF Active
<1>3. ASSUME \A z \in Executors : rep'[z] = rep[z] PROVE x = y
  <2>1. ASSUME NEW z \in Executors, pc'[z] \notin Ended \cup {"new"} PROVE Active(z)
    <3>1. PcMoves(z) /\ RepMoves(z)
      BY Frame DEF IInv, Users, Actors
    <3>2. rep[z] = NoReport <=> pc[z] = "new"
      BY DEF IInv, BegunHasReport, Users
    <3> QED
      BY <1>3, <2>1, <3>1, <3>2, NoReportIsNoReport DEF PcMoves, RepMoves, Active
  <2> QED
    BY <1>1, <2>1 DEF IInv, SoleWorker
<1>4. ASSUME NEW z \in Executors, Execute(z) PROVE rep' = rep
  BY <1>4 DEF Execute, MarkRunning, Load, DropOld, Save, Succeed, Raise, Reload, Fail
<1>5. ASSUME NEW q \in Retries, NEW r \in Reports, RetryRead(q, r)
      PROVE  \A z \in Executors : rep'[z] = rep[z]
  BY <1>5, ActorsDiffer DEF RetryRead, IInv, TypeOK, Users
<1>6. ASSUME NEW q \in Retries, RetryEnqueue(q) \/ RetryCommit(q) PROVE rep' = rep
  BY <1>6 DEF RetryEnqueue, RetryCommit
<1>7. ASSUME NEW c \in Cleaners, Clean(c) PROVE rep' = rep
  BY <1>7 DEF Clean, Select, Purge, DropRows, CleanupCommit
<1>8. ASSUME NEW a \in Actors, Die(a) PROVE rep' = rep
  BY <1>8 DEF Die
<1>9. ASSUME NEW r \in Reports, Age(r) PROVE rep' = rep
  BY <1>9 DEF Age
<1> QED
  BY <1>2, <1>3, <1>4, <1>5, <1>6, <1>7, <1>8, <1>9 DEF Next

\* What one worker is about to replace are all rows of its report.
LEMMA ReplacesStep == ASSUME IInv, Next PROVE Replaces'
<1> SUFFICES ASSUME workers = 1, NEW x \in Executors
             PROVE  /\ pc'[x] = "dropping" =>
                          {a \in artifacts' : a.report = rep'[x]} \subseteq target'[x]
                    /\ pc'[x] = "saving" =>
                          {a \in artifacts' : a.report = rep'[x]} \subseteq dropped'[x]
  BY WorkersFixed DEF Replaces, RowsOf
<1> SUFFICES ASSUME pc'[x] \in {"dropping", "saving"}
             PROVE  /\ pc'[x] = "dropping" =>
                          {a \in artifacts' : a.report = rep'[x]} \subseteq target'[x]
                    /\ pc'[x] = "saving" =>
                          {a \in artifacts' : a.report = rep'[x]} \subseteq dropped'[x]
  OBVIOUS
<1>1. /\ pc[x] = "dropping" => {a \in artifacts : a.report = rep[x]} \subseteq target[x]
      /\ pc[x] = "saving" => {a \in artifacts : a.report = rep[x]} \subseteq dropped[x]
  BY DEF IInv, Replaces, RowsOf
<1>2. Kept(x) \/ Loads(x) \/ Drops(x) \/ Saves(x)
  BY ExecutorMoves DEF IInv, Moves, Begun, Ends, Passes
<1>3. CASE Loads(x)
  BY <1>3 DEF Loads, RowsOf
<1>4. CASE Drops(x)
  BY <1>1, <1>4 DEF Drops
<1>5. CASE Kept(x) \/ Saves(x)
  <2>1. /\ pc'[x] = pc[x] /\ rep'[x] = rep[x] /\ target'[x] = target[x]
        /\ dropped'[x] = dropped[x]
    BY <1>5 DEF Kept, Saves
  <2>2. ASSUME NEW y \in Executors, Succeed(y) PROVE FALSE
    <3>1. pc[y] = "saving"
      BY <2>2 DEF Succeed
    <3>2. x = y
      BY <2>1, <3>1 DEF IInv, SoleWorker, Active, Ended
    <3>3. pc'[y] \in {"done", "raised"}
      BY <2>2 DEF Succeed, Goto, IInv, TypeOK, Actors, Users
    <3> QED
      BY <3>2, <3>3
  <2>3. artifacts' \subseteq artifacts
    BY <2>2, RowsChange
  <2> QED
    BY <1>1, <2>1, <2>3
<1> QED
  BY <1>2, <1>3, <1>4, <1>5

\* So the rows one worker leaves are those of its last execution.
LEMMA OneEachStep == ASSUME IInv, Next PROVE OneExecutionPerReport'
<1> SUFFICES ASSUME workers = 1, NEW a \in artifacts', NEW b \in artifacts',
                    a.report = b.report
             PROVE  a.by = b.by
  BY WorkersFixed DEF OneExecutionPerReport
<1>1. a \in artifacts /\ b \in artifacts => a.by = b.by
  BY DEF IInv, OneExecutionPerReport
<1>2. ASSUME NEW x \in Executors, Succeed(x),
             artifacts' = (artifacts \ dropped[x]) \cup NewRows(x)
      PROVE  a.by = b.by
  <2>1. \A d \in artifacts : d.report = rep[x] => d \in dropped[x]
    BY <1>2 DEF Succeed, IInv, Replaces, RowsOf
  <2>2. \A d \in NewRows(x) :
          \E e \in saved[x] : d = [report |-> rep[x], entry |-> e, by |-> x]
    BY DEF NewRows
  <2>3. CASE a \in NewRows(x) /\ b \in NewRows(x)
    BY <2>2, <2>3
  <2>4. \A d \in NewRows(x) : d.report = rep[x]
    BY <2>2
  <2> QED
    BY <1>1, <1>2, <2>1, <2>3, <2>4
<1> QED
  BY <1>1, <1>2, RowsChange

-----------------------------------------------------------------------------
\* The invariant holds when the reports have been created.
LEMMA InitIInv == Init => IInv
<1> SUFFICES ASSUME Init PROVE IInv
  OBVIOUS
<1> USE DEF Init
<1>1. /\ Executors \subseteq Users /\ Retries \subseteq Users /\ Users \subseteq Actors
      /\ Cleaners \subseteq Actors
  BY DEF Users, Actors
<1>2. TypeOK
  BY DEF TypeOK, Rows, NewRow, Statuses
<1>3. BegunHasReport /\ OwnRows
  BY <1>1 DEF BegunHasReport, OwnRows, OwnRowsOf, DoomedRowsOf
<1>4. /\ \A r \in Reports : row[r].status = "queued" /\ row[r].finished = "null"
      /\ SucceededHasEveryEntry /\ ArtifactsHaveReport /\ OneExecutionPerReport
  BY DEF NewRow, SucceededHasEveryEntry, ArtifactsHaveReport, OneExecutionPerReport
<1>5. SoleWorker /\ Replaces
  BY <1>1 DEF SoleWorker, Replaces, Active
<1>6. \A r \in Reports : OneRun(r)
  BY <1>1, <1>4, NoReportIsNoReport DEF OneRun
<1>7. SelectedIsOld /\ SavedThere /\ \A a \in artifacts : FileThere(a)
  BY <1>1 DEF SelectedIsOld, SavedThere
<1> QED
  BY <1>2, <1>3, <1>4, <1>5, <1>6, <1>7 DEF IInv

\* Every step keeps the invariant.
LEMMA StepIInv == IInv /\ [Next]_vars => IInv'
<1>1. ASSUME IInv, Next PROVE IInv'
  <2>1. TypeOK' /\ BegunHasReport'
    BY <1>1, TypeStep, Stable DEF IInv
  <2>2. OwnRows' /\ SucceededHasEveryEntry' /\ ArtifactsHaveReport'
    BY <1>1, OwnRowsStep, EntriesStep, ReportsStep
  <2>3. SoleWorker' /\ Replaces' /\ OneExecutionPerReport'
    BY <1>1, SoleStep, ReplacesStep, OneEachStep
  <2>4. (\A r \in Reports : OneRun(r))' /\ SelectedIsOld'
    BY <1>1, OneRunStep, SelectedStep
  <2>5. SavedThere' /\ (\A a \in artifacts : FileThere(a))'
    BY <1>1, SavedStep, FilesStep
  <2> QED
    BY <2>1, <2>2, <2>3, <2>4, <2>5 DEF IInv
<1>2. ASSUME IInv, UNCHANGED vars PROVE IInv'
  <2> USE <1>2 DEF vars, db, cleaning, failures
  <2>1. TypeOK' /\ BegunHasReport' /\ OwnRows'
    BY DEF IInv, TypeOK, BegunHasReport, OwnRows, OwnRowsOf, DoomedRowsOf
  <2>2. SucceededHasEveryEntry' /\ ArtifactsHaveReport' /\ OneExecutionPerReport'
    BY DEF IInv, SucceededHasEveryEntry, ArtifactsHaveReport, OneExecutionPerReport
  <2>3. SoleWorker' /\ Replaces'
    BY DEF IInv, SoleWorker, Replaces, Active, RowsOf
  <2>4. (\A r \in Reports : OneRun(r))' /\ SelectedIsOld'
    BY DEF IInv, OneRun, SelectedIsOld, Retried
  <2>5. SavedThere' /\ (\A a \in artifacts : FileThere(a))'
    BY DEF IInv, SavedThere, FileThere, Retried, CleanupBegun
  <2> QED
    BY <2>1, <2>2, <2>3, <2>4, <2>5 DEF IInv
<1> QED
  BY <1>1, <1>2

\* The invariant holds in every state a deployment reaches.
LEMMA Invariance == Spec => []IInv
BY InitIInv, StepIInv, PTL DEF Spec

\* The artifact rows fit their report: a report that shows succeeded has a row
\* for every entry of its list of formats, no row outlives its report, and with
\* one worker process the rows of a report are those of one execution, whatever
\* executions, retries and cleanups overlap.
THEOREM RowsFitReport == Spec => []ArtifactsConsistent
<1>1. IInv => ArtifactsConsistent
  BY DEF IInv, ArtifactsConsistent
<1> QED
  BY <1>1, Invariance, PTL

\* Every artifact row of a report within its retention has its file, except
\* where a retry of the report meets a cleanup.
THEOREM DownloadsWork == Spec => []OfferedFileExists
<1>1. IInv => OfferedFileExists
  BY DEF IInv, OfferedFileExists, FileThere
<1> QED
  BY <1>1, Invariance, PTL

\* A cleanup deletes a report that nobody retries only when it is past its
\* retention in the committed row, at the commit and not only at the SELECT.
THEOREM KeptUntilPast == Spec => UnretriedKeptUntilPast
<1> DEFINE OldGo == \A r \in exists \ exists' : Retried(r) \/ row[r].finished = "past"
<1>1. ASSUME IInv, [Next]_vars PROVE OldGo \/ UNCHANGED vars
  <2>1. ASSUME Next PROVE OldGo
    <3>1. ASSUME NEW c \in Cleaners, exists' = exists \ doomed[c] PROVE OldGo
      BY <1>1, <3>1 DEF IInv, SelectedIsOld
    <3> QED
      BY <2>1, <3>1, RowsChange
  <2> QED
    BY <1>1, <2>1
<1>2. IInv /\ [Next]_vars => [OldGo]_vars
  BY <1>1
<1> QED
  BY <1>2, Invariance, PTL DEF Spec, UnretriedKeptUntilPast
=============================================================================

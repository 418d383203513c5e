--------------------------- MODULE ParseRunProofs ---------------------------
(***************************************************************************)
(* What ParseRun promises for any number of jobs, files and executions that *)
(* overlap in any way.                                                      *)
(*                                                                          *)
(* The argument: an execution that writes a final status does so unless the *)
(* status it loaded is that one already; then it was not the one that had   *)
(* to decide the job (RunningHasDecider).  Where executions follow each     *)
(* other, the row a session loaded is the row it writes (AloneReadsTrue).   *)
(* The count is followed through the one execution of a job (SoleRunCounts).*)
(***************************************************************************)
EXTENDS ParseRun, FiniteSetTheorems, TLAPS

Active(x) == pc[x] \notin Ended \cup {"new"}

\* Executions that have begun have a job, the others none.
JobMatchesPc == \A x \in Executors : pc[x] = "new" <=> job[x] = NoJob

\* Where executions of a job follow each other, one is active at most and its
\* open session has read what the row still holds.
AloneReadsTrue ==
    overlap = 1 =>
        \A x \in Executors : Active(x) =>
            /\ \A y \in Executors : Active(y) /\ job[y] = job[x] => y = x
            /\ pc[x] \in {"starting", "parsing", "failing"} => loaded[x] = row[job[x]]

\* Nobody but x has executed job j.
Sole(x, j) == \A y \in Executors : job[y] = j <=> y = x

\* A job without an execution is as it was created; one with a single
\* execution has neither records nor success until that execution is done.
SoleRunCounts ==
    \A j \in Jobs :
        /\ (\A y \in Executors : job[y] # j) => row[j] = NewRow /\ invoices[j] = 0
        /\ \A x \in Executors : Sole(x, j) =>
              /\ pc[x] # "done" => /\ row[j].status # "succeeded" /\ invoices[j] = 0
                                   /\ row[j].records = 0 /\ loaded[x].records = 0
              /\ row[j].status = "succeeded" => row[j].records = invoices[j]

NoneUnstored == \A j \in Jobs : row[j].records <= invoices[j]

IInv ==
    /\ TypeOK
    /\ JobMatchesPc
    /\ RunningHasDecider
    /\ RecordsComeWithOutcome
    /\ AloneReadsTrue /\ SucceededIsClean
    /\ SoleRunCounts /\ NoneUnstored

-----------------------------------------------------------------------------
\* Nothing has been executed at first.
LEMMA InitIInv == Init => IInv
<1> SUFFICES ASSUME Init PROVE IInv
  OBVIOUS
<1> USE NoJobIsNoJob, BoundsAreNat DEF Init
<1>1. NewRow \in Rows /\ NewRow.status = "queued" /\ NewRow.records = 0
  BY DEF NewRow, Rows, Statuses, Terminal
<1>2. TypeOK
  BY <1>1 DEF TypeOK
<1>3. JobMatchesPc
  BY DEF JobMatchesPc
<1>4. RunningHasDecider /\ SucceededIsClean
  BY <1>1 DEF RunningHasDecider, SucceededIsClean
<1>5. RecordsComeWithOutcome /\ NoneUnstored
  BY <1>1 DEF RecordsComeWithOutcome, NoneUnstored
<1>6. AloneReadsTrue
  BY DEF AloneReadsTrue, Active
<1>7. SoleRunCounts
  BY <1>1 DEF SoleRunCounts, Sole
<1> QED
  BY <1>2, <1>3, <1>4, <1>5, <1>6, <1>7 DEF IInv

\* An active execution has a job.
LEMMA ActiveHasJob == ASSUME IInv, NEW x \in Executors, Active(x) PROVE job[x] \in Jobs
BY DEF IInv, TypeOK, JobMatchesPc, Active

\* A session that flushes writes the columns it changed and no others.
LEMMA WriteRow ==
    ASSUME IInv, NEW x \in Executors, Active(x), NEW target \in Rows, Write(x, target)
    PROVE  LET j == job[x]
               Column(old, read, new) == IF new = read THEN old ELSE new
           IN  /\ row' \in [Jobs -> Rows]
               /\ \A i \in Jobs \ {j} : row'[i] = row[i]
               /\ row'[j].status = Column(row[j].status, loaded[x].status, target.status)
               /\ row'[j].records = Column(row[j].records, loaded[x].records, target.records)
               /\ row'[j].failed = Column(row[j].failed, loaded[x].failed, target.failed)
               /\ row'[j].error = Column(row[j].error, loaded[x].error, target.error)
<1> DEFINE j == job[x]
           new == Flushed(row[j], loaded[x], target)
           Column(old, read, upd) == IF upd = read THEN old ELSE upd
<1>1. j \in Jobs /\ row[j] \in Rows /\ loaded[x] \in Rows
  BY ActiveHasJob DEF IInv, TypeOK
<1>2. new = [status |-> Column(row[j].status, loaded[x].status, target.status),
             records |-> Column(row[j].records, loaded[x].records, target.records),
             failed |-> Column(row[j].failed, loaded[x].failed, target.failed),
             error |-> Column(row[j].error, loaded[x].error, target.error)]
  BY <1>1 DEF Flushed, Rows
<1>3. new \in Rows
  BY <1>1, <1>2 DEF Rows
<1>4. row' = [row EXCEPT ![j] = new]
  BY DEF Write
<1>5. row' \in [Jobs -> Rows] /\ row'[j] = new /\ \A i \in Jobs \ {j} : row'[i] = row[i]
  BY <1>1, <1>3, <1>4 DEF IInv, TypeOK
<1> QED
  BY <1>2, <1>5

\* A step that writes nothing, of an execution that reads its row again,
\* raises or dies.
LEMMA Quiet ==
    ASSUME IInv, TypeOK', NEW x \in Executors, Active(x),
           UNCHANGED <<row, links, fileStatus, invoices, job, overlap>>,
           pc'[x] \in {"parsing", "raised", "failing", "dead"},
           \A y \in Executors \ {x} : pc'[y] = pc[y] /\ loaded'[y] = loaded[y],
           loaded'[x] \in {loaded[x], row[job[x]]},
           pc'[x] \in {"parsing", "failing"} => loaded'[x] = row[job[x]],
           crashes' = 0 => crashes = 0 /\ pc'[x] # "dead"
    PROVE  IInv'
<1>1. job[x] \in Jobs /\ pc[x] # "new" /\ pc[x] # "done"
  BY ActiveHasJob DEF Active, Ended
<1>2. JobMatchesPc' /\ SucceededIsClean' /\ NoneUnstored'
  BY <1>1 DEF IInv, JobMatchesPc, SucceededIsClean, NoneUnstored
<1>3. RecordsComeWithOutcome'
  BY <1>1 DEF IInv, RecordsComeWithOutcome
<1>4. RunningHasDecider'
  <2> SUFFICES ASSUME crashes' = 0, NEW j \in Jobs, row[j].status = "running"
               PROVE  \E y \in Executors : job[y] = j /\ Undecided(y)'
    BY DEF RunningHasDecider
  <2>1. CASE j = job[x]
    BY <2>1 DEF Undecided
  <2>2. CASE j # job[x]
    <3>1. PICK y \in Executors : job[y] = j /\ Undecided(y)
      BY DEF IInv, RunningHasDecider
    <3> QED
      BY <2>2, <3>1 DEF Undecided
  <2> QED
    BY <2>1, <2>2
<1>5. AloneReadsTrue'
  <2> SUFFICES ASSUME overlap = 1, NEW z \in Executors, Active(z)'
               PROVE  /\ \A y \in Executors : Active(y)' /\ job[y] = job[z] => y = z
                      /\ pc'[z] \in {"starting", "parsing", "failing"} => loaded'[z] = row[job[z]]
    BY DEF AloneReadsTrue
  <2>1. \A y \in Executors : Active(y)' => Active(y)
    BY DEF Active
  <2> QED
    BY <2>1 DEF IInv, AloneReadsTrue
<1>6. SoleRunCounts'
  BY <1>1 DEF IInv, SoleRunCounts, Sole
<1> QED
  BY <1>2, <1>3, <1>4, <1>5, <1>6 DEF IInv

\* A step that commits: what has to be shown of the one row that is written.
LEMMA Writes ==
    ASSUME IInv, TypeOK', NEW x \in Executors, Active(x), NEW j \in Jobs, j = job[x],
           UNCHANGED <<links, job, loaded, overlap, crashes>>,
           \A i \in Jobs \ {j} : row'[i] = row[i] /\ invoices'[i] = invoices[i],
           \A f \in Files : fileStatus[f] = "parsed" => fileStatus'[f] = "parsed",
           pc'[x] \in {"started", "done"},
           \A y \in Executors \ {x} : pc'[y] = pc[y],
           row'[j].status = "running" =>
              pc'[x] = "started" \/ (row[j].status = "running" /\ ~Undecided(x)),
           row'[j].records <= invoices'[j],
           overlap = 1 /\ row'[j].status = "succeeded" => row'[j].failed = 0 /\ ~row'[j].error,
           Sole(x, j) =>
              /\ pc'[x] # "done" => /\ row'[j].status # "succeeded" /\ invoices'[j] = 0
                                    /\ row'[j].records = 0 /\ loaded[x].records = 0
              /\ row'[j].status = "succeeded" => row'[j].records = invoices'[j],
           invoices'[j] > 0 =>
              \/ invoices[j] > 0
              \/ pc'[x] = "done" /\ \A f \in links[j] : fileStatus'[f] = "parsed"
    PROVE  IInv'
<1>1. pc[x] # "new" /\ pc[x] # "done"
  BY DEF Active, Ended
<1>2. JobMatchesPc'
  BY <1>1 DEF IInv, JobMatchesPc
<1>3. SucceededIsClean' /\ NoneUnstored'
  BY DEF IInv, SucceededIsClean, NoneUnstored
<1>4. RecordsComeWithOutcome'
  <2> SUFFICES ASSUME NEW i \in Jobs, invoices'[i] > 0
               PROVE  /\ \A f \in links[i] : fileStatus'[f] = "parsed"
                      /\ \E y \in Executors : job[y] = i /\ pc'[y] = "done"
    BY DEF RecordsComeWithOutcome
  <2>1. CASE invoices[i] > 0
    <3>1. links[i] \subseteq Files
      BY DEF IInv, TypeOK
    <3>2. PICK y \in Executors : job[y] = i /\ pc[y] = "done"
      BY <2>1 DEF IInv, RecordsComeWithOutcome
    <3> QED
      BY <1>1, <2>1, <3>1, <3>2 DEF IInv, RecordsComeWithOutcome
  <2>2. CASE ~(invoices[i] > 0)
    BY <2>2
  <2> QED
    BY <2>1, <2>2
<1>5. RunningHasDecider'
  <2> SUFFICES ASSUME crashes = 0, NEW i \in Jobs, row'[i].status = "running"
               PROVE  \E y \in Executors : job[y] = i /\ Undecided(y)'
    BY DEF RunningHasDecider
  <2>1. CASE i = j /\ pc'[x] = "started"
    BY <2>1 DEF Undecided
  <2>2. CASE ~(i = j /\ pc'[x] = "started")
    <3>1. row[i].status = "running" /\ (i = j => ~Undecided(x))
      BY <2>2
    <3>2. PICK y \in Executors : job[y] = i /\ Undecided(y)
      BY <3>1 DEF IInv, RunningHasDecider
    <3> QED
      BY <3>1, <3>2 DEF Undecided
  <2> QED
    BY <2>1, <2>2
<1>6. AloneReadsTrue'
  <2> SUFFICES ASSUME overlap = 1, NEW z \in Executors, Active(z)'
               PROVE  /\ \A y \in Executors : Active(y)' /\ job[y] = job[z] => y = z
                      /\ pc'[z] \in {"starting", "parsing", "failing"} => loaded[z] = row'[job[z]]
    BY DEF AloneReadsTrue
  <2>1. \A y \in Executors : Active(y)' => Active(y)
    BY DEF Active
  <2>2. job[z] \in Jobs
    BY <2>1, ActiveHasJob
  <2> QED
    BY <2>1, <2>2 DEF IInv, AloneReadsTrue
<1>7. SoleRunCounts'
  <2> SUFFICES ASSUME NEW i \in Jobs
               PROVE  /\ (\A y \in Executors : job[y] # i) => row'[i] = NewRow /\ invoices'[i] = 0
                      /\ \A z \in Executors : Sole(z, i) =>
                           /\ pc'[z] # "done" => /\ row'[i].status # "succeeded" /\ invoices'[i] = 0
                                                 /\ row'[i].records = 0 /\ loaded[z].records = 0
                           /\ row'[i].status = "succeeded" => row'[i].records = invoices'[i]
    BY DEF SoleRunCounts, Sole
  <2>1. CASE i = j
    BY <2>1 DEF Sole
  <2>2. CASE i # j
    BY <2>2 DEF IInv, SoleRunCounts, Sole
  <2> QED
    BY <2>1, <2>2
<1> QED
  BY <1>2, <1>3, <1>4, <1>5, <1>6, <1>7 DEF IInv

-----------------------------------------------------------------------------
\* Every step of every execution keeps the invariant.
LEMMA StepIInv == IInv /\ [Next]_vars => IInv'
<1> SUFFICES ASSUME IInv, [Next]_vars PROVE IInv'
  OBVIOUS
<1> USE NoJobIsNoJob, BoundsAreNat
<1>1. ASSUME NEW x \in Executors, NEW j \in Jobs, Begin(x, j) PROVE IInv'
  <2>1. /\ pc[x] = "new" /\ job[x] = NoJob
        /\ Cardinality({y \in RunsOf(j) : pc[y] \notin Ended}) < overlap
        /\ job' = [job EXCEPT ![x] = j] /\ loaded' = [loaded EXCEPT ![x] = row[j]]
        /\ pc' = [pc EXCEPT ![x] = "starting"]
        /\ UNCHANGED <<row, links, fileStatus, invoices, overlap, crashes>>
    BY <1>1 DEF Begin, IInv, JobMatchesPc
  <2>2. TypeOK'
    BY <2>1 DEF IInv, TypeOK
  <2>3. /\ job'[x] = j /\ loaded'[x] = row[j] /\ pc'[x] = "starting"
        /\ \A y \in Executors \ {x} : job'[y] = job[y] /\ loaded'[y] = loaded[y] /\ pc'[y] = pc[y]
    BY <2>1 DEF IInv, TypeOK
  <2>4. JobMatchesPc' /\ SucceededIsClean' /\ NoneUnstored'
    BY <2>1, <2>3 DEF IInv, JobMatchesPc, SucceededIsClean, NoneUnstored
  <2>5. RecordsComeWithOutcome'
    BY <2>1, <2>3 DEF IInv, RecordsComeWithOutcome
  <2>6. RunningHasDecider'
    <3> SUFFICES ASSUME crashes = 0, NEW i \in Jobs, row[i].status = "running"
                 PROVE  \E y \in Executors : job'[y] = i /\ Undecided(y)'
      BY <2>1 DEF RunningHasDecider
    <3>1. PICK y \in Executors : job[y] = i /\ Undecided(y)
      BY DEF IInv, RunningHasDecider
    <3> QED
      BY <2>1, <2>3, <3>1 DEF Undecided
  <2>7. AloneReadsTrue'
    <3> SUFFICES ASSUME overlap = 1, NEW z \in Executors, Active(z)'
                 PROVE  /\ \A y \in Executors : Active(y)' /\ job'[y] = job'[z] => y = z
                        /\ pc'[z] \in {"starting", "parsing", "failing"} =>
                              loaded'[z] = row[job'[z]]
      BY <2>1 DEF AloneReadsTrue
    <3> DEFINE others == {y \in RunsOf(j) : pc[y] \notin Ended}
    <3>1. others = {}
      <4>1. IsFiniteSet(others)
        BY ExecutorsAreFinite, FS_Subset DEF RunsOf
      <4>2. Cardinality(others) \in Nat
        BY <4>1, FS_CardinalityType
      <4>3. Cardinality(others) = 0
        BY <2>1, <4>2
      <4> QED
        BY <4>1, <4>3, FS_EmptySet
    <3>2. \A y \in Executors : Active(y) => job[y] # j
      BY <3>1 DEF Active, RunsOf
    <3>3. \A y \in Executors \ {x} : Active(y)' => Active(y)
      BY <2>3 DEF Active
    <3> QED
      BY <2>1, <2>3, <3>2, <3>3 DEF IInv, AloneReadsTrue
  <2>8. SoleRunCounts'
    <3> SUFFICES ASSUME NEW i \in Jobs
                 PROVE  /\ (\A y \in Executors : job'[y] # i) => row[i] = NewRow /\ invoices[i] = 0
                        /\ \A z \in Executors : Sole(z, i)' =>
                             /\ pc'[z] # "done" => /\ row[i].status # "succeeded" /\ invoices[i] = 0
                                                   /\ row[i].records = 0 /\ loaded'[z].records = 0
                             /\ row[i].status = "succeeded" => row[i].records = invoices[i]
      BY <2>1 DEF SoleRunCounts
    <3>1. CASE i = j
      <4>1. \A z \in Executors : Sole(z, i)' => z = x /\ \A y \in Executors : job[y] # i
        BY <2>1, <2>3, <3>1 DEF Sole
      <4>2. NewRow.status = "queued" /\ NewRow.records = 0
        BY DEF NewRow
      <4> QED
        BY <2>3, <3>1, <4>1, <4>2 DEF IInv, SoleRunCounts
    <3>2. CASE i # j
      <4>1. \A z \in Executors : Sole(z, i)' => z # x /\ Sole(z, i)
        BY <2>1, <2>3, <3>2 DEF Sole
      <4> QED
        BY <2>1, <2>3, <3>2, <4>1 DEF IInv, SoleRunCounts
    <3> QED
      BY <3>1, <3>2
  <2> QED
    BY <2>2, <2>4, <2>5, <2>6, <2>7, <2>8 DEF IInv
<1>2. ASSUME NEW x \in Executors, MarkRunning(x) PROVE IInv'
  <2>1. /\ pc[x] = "starting" /\ Write(x, Running(loaded[x]))
        /\ pc' = [pc EXCEPT ![x] = "started"]
        /\ UNCHANGED <<links, fileStatus, invoices, job, loaded, overlap, crashes>>
    BY <1>2 DEF MarkRunning
  <2>2. Active(x)
    BY <2>1 DEF Active, Ended
  <2>3. PICK j \in Jobs : j = job[x]
    BY <2>2, ActiveHasJob
  <2>4. loaded[x] \in Rows /\ row[j] \in Rows
    BY DEF IInv, TypeOK
  <2>5. /\ Running(loaded[x]) \in Rows /\ Running(loaded[x]).status = "running"
        /\ Running(loaded[x]).records = loaded[x].records
    BY <2>4 DEF Running, Rows, Statuses
  <2>6. /\ row' \in [Jobs -> Rows] /\ \A i \in Jobs \ {j} : row'[i] = row[i]
        /\ row'[j].status = IF "running" = loaded[x].status THEN row[j].status ELSE "running"
        /\ row'[j].records = row[j].records
    BY <2>1, <2>2, <2>3, <2>5, WriteRow
  <2>7. TypeOK' /\ pc'[x] = "started" /\ \A y \in Executors \ {x} : pc'[y] = pc[y]
    BY <2>1, <2>6 DEF IInv, TypeOK
  <2>8. overlap = 1 => row'[j].status # "succeeded"
    BY <2>1, <2>2, <2>3, <2>6 DEF IInv, AloneReadsTrue
  <2>9. Sole(x, j) => /\ row'[j].status # "succeeded" /\ invoices[j] = 0
                      /\ row'[j].records = 0 /\ loaded[x].records = 0
    BY <2>1, <2>6 DEF IInv, SoleRunCounts
  <2>10. row'[j].records <= invoices'[j]
    BY <2>1, <2>6 DEF IInv, NoneUnstored
  <2> QED
    BY <2>1, <2>2, <2>3, <2>6, <2>7, <2>8, <2>9, <2>10, Writes
<1>3. ASSUME NEW x \in Executors, Load(x) \/ Reload(x) PROVE IInv'
  <2>1. /\ pc[x] \in {"started", "raised"} /\ loaded' = [loaded EXCEPT ![x] = row[job[x]]]
        /\ \/ pc' = [pc EXCEPT ![x] = "parsing"]
           \/ pc' = [pc EXCEPT ![x] = "failing"]
        /\ UNCHANGED <<row, links, fileStatus, invoices, job, overlap, crashes>>
    BY <1>3 DEF Load, Reload, Read
  <2>2. Active(x)
    BY <2>1 DEF Active, Ended
  <2>3. row[job[x]] \in Rows
    BY <2>2, ActiveHasJob DEF IInv, TypeOK
  <2>4. TypeOK'
    BY <2>1, <2>3 DEF IInv, TypeOK
  <2>5. /\ pc'[x] \in {"parsing", "failing"} /\ loaded'[x] = row[job[x]]
        /\ \A y \in Executors \ {x} : pc'[y] = pc[y] /\ loaded'[y] = loaded[y]
    BY <2>1 DEF IInv, TypeOK
  <2> QED
    BY <2>1, <2>2, <2>4, <2>5, Quiet
<1>4. ASSUME NEW x \in Executors, NEW n \in 0..MaxRecords, Succeed(x, n) PROVE IInv'
  <2>1. /\ pc[x] = "parsing" /\ Write(x, Succeeded(loaded[x], n))
        /\ invoices' = [invoices EXCEPT ![job[x]] = @ + n]
        /\ fileStatus' = [f \in Files |-> IF f \in links[job[x]] THEN "parsed" ELSE fileStatus[f]]
        /\ pc' = [pc EXCEPT ![x] = "done"]
        /\ UNCHANGED <<links, job, loaded, overlap, crashes>>
    BY <1>4 DEF Succeed
  <2>2. Active(x)
    BY <2>1 DEF Active, Ended
  <2>3. PICK j \in Jobs : j = job[x]
    BY <2>2, ActiveHasJob
  <2>4. loaded[x] \in Rows /\ row[j] \in Rows /\ n \in Nat
    BY DEF IInv, TypeOK
  <2> DEFINE target == Succeeded(loaded[x], n)
  <2>5. /\ target \in Rows /\ target.status = "succeeded"
        /\ target.records = n /\ target.failed = 0 /\ target.error = FALSE
    BY <2>4 DEF Succeeded, Rows, Statuses, Terminal
  <2>0. Write(x, target)
    BY <2>1
  <2> HIDE DEF target
  <2>6. /\ row' \in [Jobs -> Rows] /\ \A i \in Jobs \ {j} : row'[i] = row[i]
        /\ row'[j].status = IF "succeeded" = loaded[x].status THEN row[j].status ELSE "succeeded"
        /\ row'[j].records = IF n = loaded[x].records THEN row[j].records ELSE n
        /\ row'[j].failed = IF 0 = loaded[x].failed THEN row[j].failed ELSE 0
    BY <2>0, <2>2, <2>3, <2>5, WriteRow
  <2>15. row'[j].error = IF target.error = loaded[x].error THEN row[j].error ELSE target.error
    BY <2>0, <2>2, <2>3, <2>5, WriteRow
  <2>7. /\ invoices'[j] = invoices[j] + n /\ invoices[j] \in Nat
        /\ \A i \in Jobs \ {j} : invoices'[i] = invoices[i]
        /\ invoices' \in [Jobs -> Nat]
    BY <2>1, <2>3, <2>4 DEF IInv, TypeOK
  <2>8. TypeOK' /\ pc'[x] = "done" /\ \A y \in Executors \ {x} : pc'[y] = pc[y]
    BY <2>1, <2>6, <2>7 DEF IInv, TypeOK
  <2>9. overlap = 1 => row'[j].failed = 0 /\ ~row'[j].error
    <3>1. overlap = 1 => loaded[x] = row[j]
      BY <2>1, <2>2, <2>3 DEF IInv, AloneReadsTrue
    <3>2. row[j].error \in BOOLEAN
      BY <2>4 DEF Rows
    <3> QED
      BY <2>5, <2>6, <2>15, <3>1, <3>2
  <2>10. row[j].records <= invoices[j] /\ row[j].records \in Nat
    BY <2>4 DEF IInv, NoneUnstored, Rows
  <2>11. row'[j].records <= invoices'[j]
    BY <2>4, <2>6, <2>7, <2>10
  <2>12. Sole(x, j) => row'[j].records = invoices'[j]
    <3>1. Sole(x, j) => invoices[j] = 0 /\ row[j].records = 0 /\ loaded[x].records = 0
      BY <2>1 DEF IInv, SoleRunCounts
    <3> QED
      BY <2>4, <2>6, <2>7, <3>1
  <2>13. row'[j].status = "running" => row[j].status = "running" /\ ~Undecided(x)
    BY <2>1, <2>6 DEF Undecided
  <2>14. /\ \A f \in Files : fileStatus[f] = "parsed" => fileStatus'[f] = "parsed"
         /\ \A f \in links[j] : fileStatus'[f] = "parsed"
    BY <2>1, <2>3 DEF IInv, TypeOK
  <2> QED
    BY <2>1, <2>2, <2>3, <2>6, <2>7, <2>8, <2>9, <2>11, <2>12, <2>13, <2>14, Writes
<1>5. ASSUME NEW x \in Executors, Raise(x) PROVE IInv'
  <2>1. /\ pc[x] \in {"started", "parsing"} /\ pc' = [pc EXCEPT ![x] = "raised"]
        /\ UNCHANGED <<row, links, fileStatus, invoices, job, loaded, overlap, crashes>>
    BY <1>5 DEF Raise
  <2>2. TypeOK' /\ pc'[x] = "raised" /\ \A y \in Executors \ {x} : pc'[y] = pc[y]
    BY <2>1 DEF IInv, TypeOK
  <2>3. Active(x)
    BY <2>1 DEF Active, Ended
  <2> QED
    BY <2>1, <2>2, <2>3, Quiet
<1>6. ASSUME NEW x \in Executors, Fail(x) PROVE IInv'
  <2>1. /\ pc[x] = "failing" /\ Write(x, Failed(loaded[x]))
        /\ pc' = [pc EXCEPT ![x] = "done"]
        /\ UNCHANGED <<links, fileStatus, invoices, job, loaded, overlap, crashes>>
    BY <1>6 DEF Fail
  <2>2. Active(x)
    BY <2>1 DEF Active, Ended
  <2>3. PICK j \in Jobs : j = job[x]
    BY <2>2, ActiveHasJob
  <2>4. loaded[x] \in Rows /\ row[j] \in Rows
    BY DEF IInv, TypeOK
  <2>5. /\ Failed(loaded[x]) \in Rows /\ Failed(loaded[x]).status = "failed"
        /\ Failed(loaded[x]).records = loaded[x].records
    BY <2>4 DEF Failed, Rows, Statuses, Terminal
  <2>6. /\ row' \in [Jobs -> Rows] /\ \A i \in Jobs \ {j} : row'[i] = row[i]
        /\ row'[j].status = IF "failed" = loaded[x].status THEN row[j].status ELSE "failed"
        /\ row'[j].records = row[j].records
    BY <2>1, <2>2, <2>3, <2>5, WriteRow
  <2>7. TypeOK' /\ pc'[x] = "done" /\ \A y \in Executors \ {x} : pc'[y] = pc[y]
    BY <2>1, <2>6 DEF IInv, TypeOK
  <2>8. overlap = 1 => row'[j].status # "succeeded"
    BY <2>1, <2>2, <2>3, <2>6 DEF IInv, AloneReadsTrue
  <2>9. Sole(x, j) => row'[j].status # "succeeded"
    BY <2>1, <2>6 DEF IInv, SoleRunCounts
  <2>10. row'[j].records <= invoices'[j]
    BY <2>1, <2>6 DEF IInv, NoneUnstored
  <2>11. row'[j].status = "running" => row[j].status = "running" /\ ~Undecided(x)
    BY <2>1, <2>6 DEF Undecided
  <2> QED
    BY <2>1, <2>2, <2>3, <2>6, <2>7, <2>8, <2>9, <2>10, <2>11, Writes
<1>7. ASSUME NEW x \in Executors, Crash(x) PROVE IInv'
  <2>1. /\ Active(x) /\ crashes' = crashes + 1 /\ pc' = [pc EXCEPT ![x] = "dead"]
        /\ UNCHANGED <<row, links, fileStatus, invoices, job, loaded, overlap>>
    BY <1>7 DEF Crash, Active
  <2>2. /\ TypeOK' /\ pc'[x] = "dead" /\ crashes' # 0
        /\ \A y \in Executors \ {x} : pc'[y] = pc[y]
    BY <2>1 DEF IInv, TypeOK
  <2> QED
    BY <2>1, <2>2, Quiet
<1>8. CASE UNCHANGED vars
  BY <1>8 DEF vars, IInv, TypeOK, JobMatchesPc, RunningHasDecider, RecordsComeWithOutcome,
     AloneReadsTrue, SucceededIsClean, SoleRunCounts, NoneUnstored, Active, Undecided, Sole
<1> QED
  BY <1>1, <1>2, <1>3, <1>4, <1>5, <1>6, <1>7, <1>8 DEF Next, Step

-----------------------------------------------------------------------------
\* Every behaviour stays within the invariant.
LEMMA Invariance == Spec => []IInv
<1> QED
  BY InitIInv, StepIInv, PTL DEF Spec

\* However executions of run_parse_job overlap, one of them still decides a
\* job that is running, unless a process has died.
THEOREM SomebodyDecides == Spec => []RunningHasDecider
<1>1. IInv => RunningHasDecider
  BY DEF IInv
<1> QED
  BY <1>1, Invariance, PTL

\* Records, counts, errors and file status of a parse job agree.
THEOREM OutcomeAgrees == Spec => []OutcomeConsistent
<1>1. IInv => CountIsStored
  <2> SUFFICES ASSUME IInv, NEW j \in Jobs, Cardinality(RunsOf(j)) = 1,
                      row[j].status = "succeeded"
               PROVE  row[j].records = invoices[j]
    BY DEF CountIsStored, IInv, NoneUnstored
  <2>1. IsFiniteSet(RunsOf(j))
    BY ExecutorsAreFinite, FS_Subset DEF RunsOf
  <2>2. PICK x : RunsOf(j) = {x}
    BY <2>1, FS_Singleton
  <2>3. x \in Executors /\ Sole(x, j)
    BY <2>2 DEF RunsOf, Sole
  <2> QED
    BY <2>3 DEF IInv, SoleRunCounts
<1>2. IInv => OutcomeConsistent
  BY <1>1 DEF IInv, OutcomeConsistent
<1> QED
  BY <1>2, Invariance, PTL
=============================================================================

------------------------ MODULE JobSubmissionProofs ------------------------
(***************************************************************************)
(* What JobSubmission promises for any number of requests and keys and for  *)
(* each of the three endpoints.                                             *)
(*                                                                          *)
(* The argument: a request holds a pending row exactly between its flush    *)
(* and its commit (RowMatchesPc), and while it does no other request has a  *)
(* row with its key (PendingIsAlone).  So the commit publishes the first    *)
(* row of the key together with its record, and whoever reads a record      *)
(* later is led to that row (FoundIsAJob, AnswerIsAJob).  The tasks follow  *)
(* the same line: only a request that has won the key enqueues              *)
(* (TaskMatchesPc).                                                         *)
(***************************************************************************)
EXTENDS JobSubmission, SequenceTheorems, TLAPS

Published == Committed \cup {"deleted"}

RowMatchesPc ==
    \A r \in Requests :
        /\ pc[r] \in {"enqueue", "commit"} => row[r] = "pending"
        /\ pc[r] = "created" => row[r] \in Published
        /\ pc[r] \notin {"enqueue", "commit", "created"} => row[r] = "absent"

PendingIsAlone ==
    \A r, q \in Requests :
        SameKey(r, q) /\ row[r] = "pending" =>
            row[q] # "pending" /\ row[q] \notin Committed

FoundIsAJob ==
    \A r \in Requests :
        pc[r] \in {"fetch", "refetch"} =>
            /\ found[r] \in Requests
            /\ row[found[r]] \in Published
            /\ key[found[r]] = key[r]

AnswerIsAJob ==
    \A r \in Requests :
        IF pc[r] \in {"created", "existing"}
        THEN /\ answer[r] \in Requests
             /\ row[answer[r]] \in Published
             /\ key[answer[r]] = key[r]
        ELSE answer[r] = NoJob

TaskMatchesPc ==
    \A r \in Requests :
        /\ pc[r] = "commit" \/ row[r] = "queued" => r \in Tasks
        /\ r \in Tasks =>
             \/ pc[r] \in {"commit", "created", "aborted"}
             \/ refs[r] = "repeated" /\ pc[r] \in {"reresolve", "refetch", "existing", "conflict"}

\* The part that speaks of rows, records and answers ...
RowsInv ==
    /\ TypeOK
    /\ RowMatchesPc
    /\ PendingIsAlone
    /\ KeyNamesOneJob
    /\ FoundIsAJob
    /\ AnswerIsAJob

\* ... and the part that follows the tasks.
IInv == RowsInv /\ TaskMatchesPc

-----------------------------------------------------------------------------
\* Appending a task adds it to the tasks of the queue.
LEMMA RangeAppend ==
    ASSUME NEW S, NEW s \in Seq(S), NEW e \in S
    PROVE  Range(Append(s, e)) = Range(s) \cup {e}
<1>1. Append(s, e) \in Seq(S) /\ Len(Append(s, e)) = Len(s) + 1
  BY AppendProperties
<1>2. /\ \A i \in 1..Len(s) : Append(s, e)[i] = s[i]
      /\ Append(s, e)[Len(s) + 1] = e
  BY AppendProperties
<1>3. DOMAIN s = 1..Len(s) /\ DOMAIN Append(s, e) = 1..(Len(s) + 1) /\ Len(s) \in Nat
  BY <1>1
<1> QED
  BY <1>2, <1>3 DEF Range

\* Taking the next task out leaves the others in the queue.
LEMMA RangeTail ==
    ASSUME NEW S, NEW s \in Seq(S), s # <<>>
    PROVE  /\ Head(s) \in S /\ Tail(s) \in Seq(S)
           /\ Range(s) = Range(Tail(s)) \cup {Head(s)}
<1>1. /\ Head(s) \in S /\ Tail(s) \in Seq(S) /\ Head(s) = s[1]
      /\ Len(Tail(s)) = Len(s) - 1
      /\ \A i \in 1..Len(Tail(s)) : Tail(s)[i] = s[i + 1]
  BY HeadTailProperties
<1>2. Len(s) \in Nat /\ Len(s) # 0 /\ DOMAIN s = 1..Len(s)
  BY EmptySeq
<1>3. DOMAIN Tail(s) = 1..(Len(s) - 1)
  BY <1>1
<1>4. Range(s) \subseteq Range(Tail(s)) \cup {Head(s)}
  <2> SUFFICES ASSUME NEW i \in 1..Len(s) PROVE s[i] \in Range(Tail(s)) \cup {Head(s)}
    BY <1>2 DEF Range
  <2>1. CASE i = 1
    BY <2>1, <1>1
  <2>2. CASE i # 1
    <3>1. i - 1 \in 1..(Len(s) - 1)
      BY <2>2, <1>2
    <3>2. Tail(s)[i - 1] = s[i]
      BY <3>1, <1>1, <1>2
    <3> QED
      BY <3>1, <3>2, <1>3 DEF Range
  <2> QED
    BY <2>1, <2>2
<1>5. Range(Tail(s)) \subseteq Range(s)
  <2> SUFFICES ASSUME NEW i \in 1..(Len(s) - 1) PROVE Tail(s)[i] \in Range(s)
    BY <1>3 DEF Range
  <2>1. i + 1 \in 1..Len(s) /\ Tail(s)[i] = s[i + 1]
    BY <1>1, <1>2
  <2> QED
    BY <2>1, <1>2 DEF Range
<1>6. Head(s) \in Range(s)
  BY <1>1, <1>2 DEF Range
<1> QED
  BY <1>1, <1>4, <1>5, <1>6

-----------------------------------------------------------------------------
\* In the initial state nothing exists.
LEMMA InitRows == Init => RowsInv
BY NoJobIsNoRequest, NoKeyIsNoKey
   DEF Init, RowsInv, TypeOK, RowMatchesPc, PendingIsAlone, KeyNamesOneJob,
       FoundIsAJob, AnswerIsAJob, SameKey, Visible, Committed, PcValues,
       RowValues, RecordsOf, RefKinds

\* The rows part is inductive on its own.
LEMMA StepRows == RowsInv /\ [Next]_vars => RowsInv'
<1> SUFFICES ASSUME RowsInv, [Next]_vars PROVE RowsInv'
  OBVIOUS
<1> USE NoJobIsNoRequest, NoKeyIsNoKey
<1> USE DEF RowsInv, Published, Committed
<1>1. ASSUME NEW r \in Requests, NEW k \in Keys \cup {NoKey}, NEW kind \in RefKinds, Begin(r, k, kind)
      PROVE  RowsInv'
  <2> USE <1>1 DEF Begin
  <2>1. TypeOK'
    BY DEF TypeOK, PcValues
  <2>2. RowMatchesPc'
    BY DEF TypeOK, RowMatchesPc
  <2>3. PendingIsAlone'
    BY DEF TypeOK, RowMatchesPc, PendingIsAlone, SameKey
  <2>4. KeyNamesOneJob'
    BY DEF TypeOK, RowMatchesPc, KeyNamesOneJob, Visible, RecordsOf
  <2>5. FoundIsAJob'
    BY DEF TypeOK, RowMatchesPc, FoundIsAJob
  <2>6. AnswerIsAJob'
    BY DEF TypeOK, RowMatchesPc, AnswerIsAJob
  <2> QED
    BY <2>1, <2>2, <2>3, <2>4, <2>5, <2>6
<1>2. ASSUME NEW r \in Requests, FindRecord(r) PROVE RowsInv'
  <2> USE <1>2 DEF FindRecord
  <2>1. TypeOK'
    BY DEF TypeOK, PcValues, RecordsOf
  <2>2. RowMatchesPc'
    BY DEF TypeOK, RowMatchesPc
  <2>3. PendingIsAlone'
    BY DEF PendingIsAlone, SameKey
  <2>4. KeyNamesOneJob'
    BY DEF KeyNamesOneJob, Visible, RecordsOf
  <2>5. FoundIsAJob'
    BY DEF TypeOK, KeyNamesOneJob, FoundIsAJob, Visible, RecordsOf
  <2>6. AnswerIsAJob'
    BY DEF TypeOK, AnswerIsAJob
  <2> QED
    BY <2>1, <2>2, <2>3, <2>4, <2>5, <2>6
<1>3. ASSUME NEW r \in Requests, FetchJob(r) PROVE RowsInv'
  <2> USE <1>3 DEF FetchJob
  <2>1. TypeOK'
    BY DEF TypeOK, PcValues, FoundIsAJob
  <2>2. RowMatchesPc'
    BY DEF TypeOK, RowMatchesPc
  <2>3. PendingIsAlone'
    BY DEF PendingIsAlone, SameKey
  <2>4. KeyNamesOneJob'
    BY DEF KeyNamesOneJob, Visible, RecordsOf
  <2>5. FoundIsAJob'
    BY DEF TypeOK, FoundIsAJob
  <2>6. AnswerIsAJob'
    BY DEF TypeOK, FoundIsAJob, AnswerIsAJob, Visible
  <2> QED
    BY <2>1, <2>2, <2>3, <2>4, <2>5, <2>6
<1>4. ASSUME NEW r \in Requests, InsertJob(r) PROVE RowsInv'
  <2> USE <1>4 DEF InsertJob
  <2>1. TypeOK'
    BY DEF TypeOK, PcValues, RowValues
  <2>2. RowMatchesPc'
    BY DEF TypeOK, RowMatchesPc
  <2>3. PendingIsAlone'
    BY DEF TypeOK, PendingIsAlone, SameKey, Blocked, Duplicates, Visible
  <2>4. KeyNamesOneJob'
    BY DEF TypeOK, RowMatchesPc, KeyNamesOneJob, Visible, RecordsOf
  <2>5. FoundIsAJob'
    BY DEF TypeOK, RowMatchesPc, FoundIsAJob
  <2>6. AnswerIsAJob'
    BY DEF TypeOK, RowMatchesPc, AnswerIsAJob
  <2> QED
    BY <2>1, <2>2, <2>3, <2>4, <2>5, <2>6
<1>5. ASSUME NEW r \in Requests, EnqueueTask(r) PROVE RowsInv'
  <2> USE <1>5 DEF EnqueueTask
  <2>1. TypeOK'
    BY AppendProperties DEF TypeOK, PcValues
  <2>2. RowMatchesPc'
    BY DEF TypeOK, RowMatchesPc
  <2>3. PendingIsAlone' /\ KeyNamesOneJob'
    BY DEF PendingIsAlone, KeyNamesOneJob, SameKey, Visible, RecordsOf
  <2>4. FoundIsAJob' /\ AnswerIsAJob'
    BY DEF TypeOK, FoundIsAJob, AnswerIsAJob
  <2> QED
    BY <2>1, <2>2, <2>3, <2>4
<1>6. ASSUME NEW r \in Requests, Commit(r) PROVE RowsInv'
  <2> USE <1>6 DEF Commit, RollBack, RecordFor
  <2>1. TypeOK'
    BY DEF TypeOK, PcValues, RowValues
  <2>2. RowMatchesPc'
    BY DEF TypeOK, RowMatchesPc
  <2>3. PendingIsAlone'
    BY DEF TypeOK, RowMatchesPc, PendingIsAlone, SameKey
  <2>4. KeyNamesOneJob'
    <3> USE DEF TypeOK, KeyNamesOneJob, Visible, RecordsOf
    <3>1. CASE refs[r] = "repeated" \/ (key[r] # NoKey /\ RecordsOf(key[r]) # {})
      BY <3>1 DEF RowMatchesPc
    <3>2. CASE ~(refs[r] = "repeated" \/ (key[r] # NoKey /\ RecordsOf(key[r]) # {}))
      <4>1. row' = [row EXCEPT ![r] = "queued"] /\ UNCHANGED key
        BY <3>2
      <4>2. CASE key[r] = NoKey
        BY <3>2, <4>1, <4>2
      <4>3. CASE key[r] # NoKey
        <5>1. /\ records' = records \cup {[key |-> key[r], job |-> r]}
              /\ RecordsOf(key[r]) = {}
          BY <3>2, <4>3
        <5>2. \A j \in Requests \ {r} : Visible(j) => key[j] # key[r]
          BY <4>3 DEF RowMatchesPc, PendingIsAlone, SameKey
        <5>3. \A j \in Requests \ {r} : Visible(j) /\ key[j] # NoKey =>
                  RecordsOf(key[j])' = {[key |-> key[j], job |-> j]}
          BY <4>1, <5>1, <5>2
        <5>4. RecordsOf(key[r])' = {[key |-> key[r], job |-> r]}
          BY <4>1, <5>1
        <5> QED
          BY <4>1, <5>1, <5>3, <5>4
      <4> QED
        BY <4>2, <4>3
    <3> QED
      BY <3>1, <3>2
  <2>5. \A j \in Requests : row[j] \in Published => row'[j] \in Published /\ j # r
    BY DEF TypeOK, RowMatchesPc
  <2>6. \A q \in Requests \ {r} : pc'[q] = pc[q] /\ answer'[q] = answer[q]
    BY DEF TypeOK
  <2>7. FoundIsAJob'
    <3>1. pc'[r] \notin {"fetch", "refetch"}
      BY DEF TypeOK
    <3> QED
      BY <2>5, <2>6, <3>1 DEF FoundIsAJob
  <2>8. AnswerIsAJob'
    <3>1. IF pc'[r] = "created" THEN answer'[r] = r /\ row'[r] = "queued"
          ELSE pc'[r] # "existing" /\ answer'[r] = answer[r] /\ answer[r] = NoJob
      BY DEF TypeOK, AnswerIsAJob
    <3> QED
      BY <2>5, <2>6, <3>1 DEF AnswerIsAJob
  <2> QED
    BY <2>1, <2>2, <2>3, <2>4, <2>7, <2>8
<1>7. ASSUME NEW r \in Requests, Abort(r) PROVE RowsInv'
  <2> USE <1>7 DEF Abort, Final
  <2>1. TypeOK'
    BY DEF TypeOK, PcValues, RowValues
  <2>2. RowMatchesPc'
    BY DEF TypeOK, RowMatchesPc
  <2>3. PendingIsAlone'
    BY DEF TypeOK, PendingIsAlone, SameKey
  <2>4. KeyNamesOneJob'
    BY DEF TypeOK, RowMatchesPc, KeyNamesOneJob, Visible, RecordsOf
  <2>5. FoundIsAJob'
    BY DEF TypeOK, RowMatchesPc, FoundIsAJob
  <2>6. AnswerIsAJob'
    BY DEF TypeOK, RowMatchesPc, AnswerIsAJob
  <2> QED
    BY <2>1, <2>2, <2>3, <2>4, <2>5, <2>6
<1>8. CASE StartTask
  <2> USE <1>8 DEF StartTask, Visible
  <2>1. Head(queue) \in Requests /\ Tail(queue) \in Seq(Requests)
    BY RangeTail DEF TypeOK
  <2>2. TypeOK'
    BY <2>1 DEF TypeOK, RowValues
  <2>3. RowMatchesPc'
    BY <2>1 DEF TypeOK, RowMatchesPc
  <2>4. PendingIsAlone'
    BY <2>1 DEF TypeOK, PendingIsAlone, SameKey
  <2>5. KeyNamesOneJob'
    BY <2>1 DEF TypeOK, KeyNamesOneJob, RecordsOf
  <2>6. FoundIsAJob' /\ AnswerIsAJob'
    BY <2>1 DEF TypeOK, FoundIsAJob, AnswerIsAJob
  <2> QED
    BY <2>2, <2>3, <2>4, <2>5, <2>6
<1>9. ASSUME NEW j \in Requests, EndTask(j) PROVE RowsInv'
  <2> USE <1>9 DEF EndTask
  <2>1. TypeOK' /\ RowMatchesPc'
    BY DEF TypeOK, RowValues, RowMatchesPc
  <2>2. PendingIsAlone'
    BY DEF TypeOK, PendingIsAlone, SameKey
  <2>3. KeyNamesOneJob'
    BY DEF TypeOK, KeyNamesOneJob, Visible, RecordsOf
  <2>4. FoundIsAJob' /\ AnswerIsAJob'
    BY DEF TypeOK, FoundIsAJob, AnswerIsAJob
  <2> QED
    BY <2>1, <2>2, <2>3, <2>4
<1>10. ASSUME NEW j \in Requests, Retire(j) PROVE RowsInv'
  <2> USE <1>10 DEF Retire
  <2>1. TypeOK' /\ RowMatchesPc'
    BY DEF TypeOK, RowValues, RowMatchesPc
  <2>2. PendingIsAlone'
    BY DEF TypeOK, PendingIsAlone, SameKey
  <2>3. KeyNamesOneJob'
    BY DEF TypeOK, KeyNamesOneJob, Visible, RecordsOf
  <2>4. FoundIsAJob' /\ AnswerIsAJob'
    BY DEF TypeOK, FoundIsAJob, AnswerIsAJob
  <2> QED
    BY <2>1, <2>2, <2>3, <2>4
<1>11. CASE UNCHANGED vars
  BY <1>11 DEF vars, TypeOK, RowMatchesPc, PendingIsAlone, KeyNamesOneJob,
               FoundIsAJob, AnswerIsAJob, SameKey, Visible, RecordsOf
<1> QED
  BY <1>1, <1>2, <1>3, <1>4, <1>5, <1>6, <1>7, <1>8, <1>9, <1>10, <1>11
     DEF Next, Handle

-----------------------------------------------------------------------------
\* Nobody has enqueued anything at first.
LEMMA InitTasks == Init => TaskMatchesPc
<1> SUFFICES ASSUME Init PROVE TaskMatchesPc
  OBVIOUS
<1>1. Tasks = {}
  BY DEF Init, Tasks, Range
<1> QED
  BY <1>1 DEF Init, TaskMatchesPc

\* The flush decides every race for a key, so a commit fails only over
\* repeated references: no record and no other row has the key.
LEMMA CommitAlone == RowsInv => CommitMeetsNoRecord
<1> SUFFICES ASSUME RowsInv, NEW r \in Requests, pc[r] = "commit", key[r] # NoKey,
                    NEW rec \in RecordsOf(key[r])
             PROVE  FALSE
  BY DEF CommitMeetsNoRecord
<1>1. rec.job \in Requests /\ Visible(rec.job) /\ key[rec.job] = key[r]
  BY DEF RowsInv, TypeOK, KeyNamesOneJob, RecordsOf
<1>2. row[r] = "pending"
  BY DEF RowsInv, RowMatchesPc
<1>3. SameKey(r, rec.job)
  BY <1>1, <1>2 DEF SameKey, Visible, Committed
<1> QED
  BY <1>1, <1>2, <1>3 DEF RowsInv, PendingIsAlone, Visible

\* The tasks follow the requests.
LEMMA StepTasks == IInv /\ [Next]_vars => TaskMatchesPc'
<1> SUFFICES ASSUME IInv, [Next]_vars PROVE TaskMatchesPc'
  OBVIOUS
<1> USE DEF IInv, RowsInv, TypeOK, TaskMatchesPc
<1>1. ASSUME NEW r \in Requests, NEW k \in Keys \cup {NoKey}, NEW kind \in RefKinds, Begin(r, k, kind)
      PROVE  TaskMatchesPc'
  <2>1. Tasks' = Tasks
    BY <1>1 DEF Begin, Tasks
  <2> QED
    BY <1>1, <2>1 DEF Begin
<1>2. ASSUME NEW r \in Requests, FindRecord(r) \/ FetchJob(r) \/ InsertJob(r)
      PROVE  TaskMatchesPc'
  <2>1. Tasks' = Tasks
    BY <1>2 DEF FindRecord, FetchJob, InsertJob, Tasks
  <2>2. CASE FindRecord(r)
    BY <2>1, <2>2 DEF FindRecord
  <2>3. CASE FetchJob(r)
    BY <2>1, <2>3 DEF FetchJob
  <2>4. CASE InsertJob(r)
    BY <2>1, <2>4 DEF InsertJob
  <2> QED
    BY <1>2, <2>2, <2>3, <2>4
<1>3. ASSUME NEW r \in Requests, EnqueueTask(r) PROVE TaskMatchesPc'
  <2>1. Tasks' = Tasks \cup {r}
    BY <1>3, RangeAppend DEF EnqueueTask, Tasks
  <2> QED
    BY <1>3, <2>1 DEF EnqueueTask
<1>4. ASSUME NEW r \in Requests, Commit(r) PROVE TaskMatchesPc'
  <2>1. Tasks' = Tasks
    BY <1>4 DEF Commit, Tasks
  <2>2. key[r] # NoKey => RecordsOf(key[r]) = {}
    BY <1>4, CommitAlone DEF Commit, CommitMeetsNoRecord
  <2>3. CASE refs[r] = "repeated"
    BY <1>4, <2>1, <2>3 DEF Commit, RollBack
  <2>4. CASE refs[r] # "repeated"
    BY <1>4, <2>1, <2>2, <2>4 DEF Commit
  <2> QED
    BY <2>3, <2>4
<1>5. ASSUME NEW r \in Requests, Abort(r) PROVE TaskMatchesPc'
  <2>1. Tasks' = Tasks
    BY <1>5 DEF Abort, Tasks
  <2> QED
    BY <1>5, <2>1 DEF Abort
<1>6. CASE StartTask
  <2>1. /\ Head(queue) \in Requests
        /\ Range(queue) = Range(queue') \cup {Head(queue)}
    BY <1>6, RangeTail DEF StartTask
  <2>2. CASE Visible(Head(queue))
    <3>1. /\ Tasks' \subseteq Tasks
          /\ Tasks \subseteq Tasks' \cup {Head(queue)}
      BY <1>6, <2>1, <2>2 DEF StartTask, Tasks
    <3>2. pc[Head(queue)] # "commit"
      BY <2>1, <2>2 DEF RowMatchesPc, Visible, Committed
    <3> QED
      BY <1>6, <2>1, <2>2, <3>1, <3>2 DEF StartTask
  <2>3. CASE ~Visible(Head(queue))
    <3>1. Tasks' = Tasks
      BY <1>6, <2>1, <2>3 DEF StartTask, Tasks
    <3> QED
      BY <1>6, <2>3, <3>1 DEF StartTask
  <2> QED
    BY <2>2, <2>3
<1>7. ASSUME NEW j \in Requests, EndTask(j) \/ Retire(j) PROVE TaskMatchesPc'
  <2>1. Tasks' = Tasks
    BY <1>7 DEF EndTask, Retire, Tasks
  <2> QED
    BY <1>7, <2>1 DEF EndTask, Retire
<1>8. CASE UNCHANGED vars
  BY <1>8 DEF vars, Tasks
<1> QED
  BY <1>1, <1>2, <1>3, <1>4, <1>5, <1>6, <1>7, <1>8 DEF Next, Handle

-----------------------------------------------------------------------------
\* The inductive invariant holds in every reachable state of the submission
\* protocol, whatever requests, keys and endpoint.
THEOREM Inductive == Spec => []IInv
<1>1. Init => IInv
  BY InitRows, InitTasks DEF IInv
<1>2. IInv /\ [Next]_vars => IInv'
  BY StepRows, StepTasks DEF IInv
<1> QED
  BY <1>1, <1>2, PTL DEF Spec

\* Every state of create_*_job, its tasks and the cleanup is well typed, and a
\* key names one job: job and record are committed together and deleted
\* together, for any number of concurrent create_*_job calls.
THEOREM OneJobPerKey == Spec => []RecordsConsistent
<1>1. IInv => RecordsConsistent
  BY DEF IInv, RowsInv, RecordsConsistent
<1> QED
  BY <1>1, Inductive, PTL

\* The IntegrityError branch of the commit never serves a race for a key.
THEOREM CommitNeverRaces == Spec => []CommitMeetsNoRecord
<1>1. IInv => CommitMeetsNoRecord
  BY CommitAlone DEF IInv
<1> QED
  BY <1>1, Inductive, PTL

\* Requests that replay a key are given the same job, and only jobs that
\* reached the database.
THEOREM ReplayIsSafe == Spec => []AnswersAgree
<1>1. IInv => AnswersAgree
  <2> SUFFICES ASSUME IInv, NEW r \in Requests, NEW q \in Requests
               PROVE  /\ answer[r] # NoJob => row[answer[r]] \in Committed \cup {"deleted"}
                      /\ (answer[r] # NoJob /\ answer[q] # NoJob /\ SameKey(r, q)) =>
                            \/ answer[r] = answer[q]
                            \/ "deleted" \in {row[answer[r]], row[answer[q]]}
    BY DEF AnswersAgree
  <2>1. \A u \in Requests : answer[u] # NoJob =>
            /\ answer[u] \in Requests
            /\ row[answer[u]] \in Committed \cup {"deleted"}
            /\ key[answer[u]] = key[u]
    BY DEF IInv, RowsInv, AnswerIsAJob, Published
  <2>2. ASSUME answer[r] # NoJob, answer[q] # NoJob, SameKey(r, q),
               row[answer[r]] # "deleted", row[answer[q]] # "deleted"
        PROVE  answer[r] = answer[q]
    <3>1. /\ Visible(answer[r]) /\ Visible(answer[q])
          /\ key[answer[r]] = key[r] /\ key[answer[q]] = key[r] /\ key[r] # NoKey
      BY <2>1, <2>2 DEF Visible, SameKey
    <3>2. {[key |-> key[r], job |-> answer[r]]} = {[key |-> key[r], job |-> answer[q]]}
      BY <2>1, <2>2, <3>1 DEF IInv, RowsInv, KeyNamesOneJob
    <3>3. [key |-> key[r], job |-> answer[r]] = [key |-> key[r], job |-> answer[q]]
      BY <3>2
    <3> QED
      BY <3>3
  <2> QED
    BY <2>1, <2>2
<1> QED
  BY <1>1, Inductive, PTL

\* No job waits for a task that was never enqueued.
THEOREM QueuedWasEnqueued == Spec => []QueuedJobHasTask
<1>1. IInv => QueuedJobHasTask
  BY DEF IInv, TaskMatchesPc, QueuedJobHasTask
<1> QED
  BY <1>1, Inductive, PTL

\* Whoever loses a race for a key has enqueued nothing.
THEOREM LosersEnqueueNothing == Spec => []LoserLeavesNoTask
<1>1. IInv => LoserLeavesNoTask
  BY DEF IInv, TaskMatchesPc, LoserLeavesNoTask
<1> QED
  BY <1>1, Inductive, PTL
=============================================================================

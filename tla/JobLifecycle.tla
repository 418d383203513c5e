---------------------------- MODULE JobLifecycle ----------------------------
(***************************************************************************)
(* What the job table promises the clients that poll it, whatever runs      *)
(* behind it (docs/ARCHITECTURE.md, 3.3): a job is queued, then running,    *)
(* then succeeded or failed, and stays there.  A job is run once.           *)
(***************************************************************************)
CONSTANT Jobs

VARIABLE status

Statuses == {"queued", "running", "succeeded", "failed"}
Terminal == {"succeeded", "failed"}

Init == status = [j \in Jobs |-> "queued"]

Start(j) ==
    /\ status[j] = "queued"
    /\ status' = [status EXCEPT ![j] = "running"]

Finish(j) ==
    /\ status[j] = "running"
    /\ \E s \in Terminal : status' = [status EXCEPT ![j] = s]

Next == \E j \in Jobs : Start(j) \/ Finish(j)

Spec == Init /\ [][Next]_status
=============================================================================

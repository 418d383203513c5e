------------------------- MODULE MCReportLifecycle -------------------------
(* ReportLifecycle on small instances: which of executions, retries and     *)
(* cleanups take part is a matter of the configuration.                     *)
EXTENDS ReportLifecycle, TLC

\* A request that names a format twice.
Listed == <<"json", "csv", "json">>

\* Actors of a kind are interchangeable.
Interchangeable ==
    Permutations(Executors) \cup Permutations(Retries) \cup Permutations(Cleaners)
=============================================================================

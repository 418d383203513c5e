----------------------------- MODULE MCParseRun -----------------------------
(* ParseRun on small instances: one execution of each job, or several that  *)
(* overlap.                                                                 *)
EXTENDS ParseRun, TLC

\* Executions and files are interchangeable.
Interchangeable == Permutations(Executors) \cup Permutations(Files)
=============================================================================

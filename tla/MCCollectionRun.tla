-------------------------- MODULE MCCollectionRun --------------------------
(* CollectionRun on small instances.  The configurations differ in how many *)
(* jobs and files there are and in whether workers crash.                   *)
EXTENDS CollectionRun, TLC

\* Jobs and worker processes are interchangeable.
Interchangeable == Permutations(Workers) \cup Permutations(Jobs)
=============================================================================

-------------------------- MODULE MCJobSubmission --------------------------
(* JobSubmission on small instances: three requests that share a key, have  *)
(* different ones, or come without.                                         *)
EXTENDS JobSubmission, TLC

\* Requests (with the jobs they create) and keys are interchangeable.
Interchangeable == Permutations(Requests) \cup Permutations(Keys)
=============================================================================

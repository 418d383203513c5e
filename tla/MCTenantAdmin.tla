--------------------------- MODULE MCTenantAdmin ---------------------------
(* TenantAdmin with three requests, which may ask for anything. *)
EXTENDS TenantAdmin, TLC

CONSTANTS p1, p2, p3, e1, e2, w1, w2

\* Requests and passwords differ in nothing but their names.
Symmetry == Permutations({p1, p2, p3}) \cup Permutations({w1, w2}) \cup Permutations({e1, e2})
=============================================================================

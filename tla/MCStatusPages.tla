--------------------------- MODULE MCStatusPages ---------------------------
(* StatusPages with two runs, or a report and one still to create. *)
EXTENDS StatusPages

CONSTANTS j1, j2, r1, r2

MCStarts == {[there |-> {j1, j2}, at |-> <<"run", j1>>],
             [there |-> {r1}, at |-> <<"list", NoId>>],
             [there |-> {r1, r2}, at |-> <<"report", r1>>]}

\* "Open detail" and "Back to reports".
MCLinks == {<<"list", "report">>, <<"report", "list">>}
=============================================================================

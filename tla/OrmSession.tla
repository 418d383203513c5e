----------------------------- MODULE OrmSession -----------------------------
(***************************************************************************)
(* What a SQLAlchemy session writes when it flushes a changed object: an    *)
(* UPDATE by primary key of the columns whose value differs from the one    *)
(* that was loaded, and of no others.  There is no version column, so the   *)
(* row may have changed since it was loaded.                                *)
(***************************************************************************)

\* The row after the flush: current is what it holds now, loaded what the
\* session read, target what the session's object holds.
Flushed(current, loaded, target) ==
    [c \in DOMAIN current |->
        IF target[c] = loaded[c] THEN current[c] ELSE target[c]]
=============================================================================

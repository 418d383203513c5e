--------------------------- MODULE MCAuthSessions ---------------------------
(* AuthSessions with two tabs of one browser.                               *)
EXTENDS AuthSessions
=============================================================================

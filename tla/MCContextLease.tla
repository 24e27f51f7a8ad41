--------------------------- MODULE MCContextLease ---------------------------
(* Small instances of ContextLease for TLC.  Requests are interchangeable, but *)
(* the run checks liveness, so no symmetry is declared.                       *)
EXTENDS ContextLease, TLC

=============================================================================

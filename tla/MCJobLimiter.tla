---------------------------- MODULE MCJobLimiter ----------------------------
(* Small instances of JobLimiter for TLC. *)
EXTENDS JobLimiter
=============================================================================

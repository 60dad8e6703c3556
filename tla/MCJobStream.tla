----------------------------- MODULE MCJobStream -----------------------------
(***************************************************************************)
(* JobStream on a small instance: two jobs, so that a start can follow the *)
(* end of another job, two POSTs and two troubles, so that a read can fail *)
(* until the stream closes, or a cut meets another page's retry.           *)
(***************************************************************************)
EXTENDS JobStream
=============================================================================

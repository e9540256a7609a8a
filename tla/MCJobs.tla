------------------------------- MODULE MCJobs -------------------------------
(* Job control on three processes and two typed bytes. *)
EXTENDS Jobs
=============================================================================

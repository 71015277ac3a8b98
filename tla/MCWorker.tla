------------------------------ MODULE MCWorker ------------------------------
(* Worker on the jobs of MCJobs. *)
EXTENDS Worker, MCJobs
=============================================================================

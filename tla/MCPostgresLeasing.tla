-------------------------- MODULE MCPostgresLeasing --------------------------
(* PostgresLeasing on the jobs of MCJobs. *)
EXTENDS PostgresLeasing, MCJobs
=============================================================================

-------------------------- MODULE MCTenantFairness --------------------------
(* TenantFairness on the jobs of MCJobs. *)
EXTENDS TenantFairness, MCJobs
=============================================================================

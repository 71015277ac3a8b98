------------------------------- MODULE MCJobs -------------------------------
(* The jobs of the small instances: a screenshot of one tenant and, where a *)
(* configuration asks for them, a sync and a reconciliation of another.     *)
EXTENDS JobQueue, TLC

CONSTANTS j1, j2, j3, nobody, t1, t2, u1, u2

MCTenantOf == [j \in Jobs |-> IF j = j1 THEN t1 ELSE t2]
MCTypeOf   == [j \in Jobs |-> CASE j = j1 -> "ingest.screenshot"
                                [] j = j2 -> "connector.sync"
                                [] j = j3 -> "privacy.reconcile"]
MCOwnerOf  == [j \in Jobs |-> CASE j = j1 -> u1 [] j = j2 -> u2 [] j = j3 -> nobody]

WorkerSymmetry == Permutations(Workers)
=============================================================================

------------------------------ MODULE MCCircuit ------------------------------
(* Workers and jobs are interchangeable. *)
EXTENDS Circuit, TLC

Interchangeable == Permutations(Workers) \union Permutations(Jobs)
=============================================================================

--------------------------- MODULE MCConnectorSync ---------------------------
(* Two workers and the rows of two slots, interchangeable but for liveness. *)
EXTENDS ConnectorSync, TLC

Interchangeable == Permutations(Workers) \union Permutations(Syncs)
=============================================================================

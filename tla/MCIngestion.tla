----------------------------- MODULE MCIngestion -----------------------------
(* Two jobs of two users with one root between them, and a page it links   *)
(* to.                                                                     *)
EXTENDS Ingestion, TLC

CONSTANTS j1, j2, a, b, u1, u2

SameRoot     == [j \in Jobs |-> a]
RootsApart   == [j \in Jobs |-> IF j = j1 THEN a ELSE b]
OneEach      == [j \in Jobs |-> IF j = j1 THEN u1 ELSE u2]
LinksToOther == [v \in Versions |-> IF v = a THEN Versions \ {a} ELSE {}]

\* The users change places together with their jobs.
Swapped  == j1 :> j2 @@ j2 :> j1 @@ u1 :> u2 @@ u2 :> u1
Unmoved  == [x \in DOMAIN Swapped |-> x]
Symmetry == {p @@ q : p \in Permutations(Workers), q \in {Swapped, Unmoved}}
=============================================================================

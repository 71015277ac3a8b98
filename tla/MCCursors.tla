------------------------------ MODULE MCCursors ------------------------------
(* Messages 2 and 3 are of the same second. *)
EXTENDS Cursors, TLC

Seconds == [m \in 1 .. MaxMessages |-> IF m <= 2 THEN m ELSE m - 1]
=============================================================================

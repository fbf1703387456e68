------------------------------ MODULE MCLeaseQueue ------------------------------
(* Small instances of LeaseQueue: two layers, the first of which prefers a *)
(* node when it is created, as layer 3 prefers mj-spark-3.                 *)
EXTENDS LeaseQueue, TLC

CONSTANTS n1, n2, c1, c2

MCLayers == {3, 4}
MCNodes  == {n1, n2}
MCCoordinators == {c1, c2}
MCPreferredNode == 3 :> n2 @@ 4 :> None
=============================================================================

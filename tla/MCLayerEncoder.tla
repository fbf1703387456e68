---------------------------- MODULE MCLayerEncoder ----------------------------
(* Three experts, two builds of the encoder, the second of which misses the*)
(* RMSE gate on expert 2.                                                  *)
EXTENDS LayerEncoder, TLC

CONSTANTS b1, b2

MCExperts == 0..2
MCBuilds  == {b1, b2}
MCGood    == b1 :> MCExperts @@ b2 :> {0, 1}
=============================================================================

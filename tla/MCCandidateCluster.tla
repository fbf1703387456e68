--------------------------- MODULE MCCandidateCluster ---------------------------
(* One attempt of a candidate. *)
EXTENDS CandidateCluster

MCOneAttempt == {"a"}
=============================================================================

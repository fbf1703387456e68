------------------------------- MODULE MCUpload -------------------------------
(* Two repositories of two files in batches of one: a resume may find each     *)
(* part of each repository committed; two mishaps combine any two of a kill,   *)
(* a lost answer, a rate limit, a rotten file and a foreign commit.            *)
EXTENDS Upload
CONSTANTS weight, meta
MCWeights == {weight}
MCMetadata == {meta}
=============================================================================

----------------------------- MODULE MCBulkEncode -----------------------------
(* Small instances of BulkEncode: one or two layers on two Sparks.  Layer *)
(* 3 prefers mj-spark-3, the others prefer no node.                        *)
EXTENDS BulkEncode

MCOneLayer == {3}
MCLayers == {3, 4}
MCNodes  == {2, 3}
=============================================================================

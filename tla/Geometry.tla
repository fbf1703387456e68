-------------------------------- MODULE Geometry --------------------------------
(***************************************************************************)
(* tp3k3/geometry.py: how the 2048 intermediate channels of a routed       *)
(* expert are cut over the three ranks.  One rank owns a wide slice, which *)
(* one rotates with the layer.                                             *)
(***************************************************************************)
EXTENDS Integers

TP == 3
Ranks == 0 .. TP - 1
MTP_LAYER == 78
MTP_WIDE_RANK == 2
ROUTED_LAYERS == 3 .. MTP_LAYER
NARROW_SLICE == 640
WIDE_SLICE == 768
SEMANTIC_INTERMEDIATE == 2048

wide_rank(layer) == IF layer = MTP_LAYER THEN MTP_WIDE_RANK ELSE (layer - 3) % TP

rank_width(layer, rank) ==
  IF rank = wide_rank(layer) THEN WIDE_SLICE ELSE NARROW_SLICE

rank_offset_narrow(layer, rank) == rank * NARROW_SLICE  \* mutant: the wide slice forgotten
rank_offset(layer, rank) ==
  (IF rank > 0 THEN rank_width(layer, 0) ELSE 0) + (IF rank > 1 THEN rank_width(layer, 1) ELSE 0)

\* slice_spec: from semantic_start up to semantic_stop.
Slice(layer, rank) ==
  rank_offset(layer, rank) .. rank_offset(layer, rank) + rank_width(layer, rank) - 1

validate_layer_geometry(layer) ==
  /\ \A rank \in Ranks : /\ rank_width(layer, rank) % 128 = 0
                         /\ rank_offset(layer, rank) % 128 = 0
                         /\ rank > 0 => rank_offset(layer, rank)
                              = rank_offset(layer, rank - 1) + rank_width(layer, rank - 1)
  /\ \E wide \in Ranks : \A rank \in Ranks :
       rank_width(layer, rank) = IF rank = wide THEN WIDE_SLICE ELSE NARROW_SLICE
  /\ rank_width(layer, 0) + rank_width(layer, 1) + rank_width(layer, 2) = SEMANTIC_INTERMEDIATE
  /\ rank_offset(layer, 0) = 0
  /\ rank_offset(layer, 2) + rank_width(layer, 2) = SEMANTIC_INTERMEDIATE
=============================================================================

--------------------------- MODULE MCLazyExpertStore ---------------------------
(* Small instances of LazyExpertStore: two layers of three experts, every   *)
(* execution mode, caches of one or two experts.                    *)
EXTENDS LazyExpertStore, TLC

CONSTANTS l1, l2

MCStores == {l1, l2}
MCExperts == 0..2
MCModes == {"python_loop", "chunked_fused", "shared_layer_fused", "resident_fused"}
MCLimits == {1, 2}
MCSymmetry == Permutations(MCStores)
=============================================================================

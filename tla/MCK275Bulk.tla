------------------------------ MODULE MCK275Bulk ------------------------------
(* One node, whose worker, encoder and results outlive managers. *)
EXTENDS K275Bulk
MCOneNode == {1}
==============================================================================

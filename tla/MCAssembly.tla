------------------------------ MODULE MCAssembly ------------------------------
(* One file of each kind, three experts of which two turn to two bits. *)
EXTENDS Assembly
CONSTANTS config, shard, e1, e2, e3, meta
MCAuxiliary == {config}
MCCarried == {shard}
MCExperts == {e1, e2, e3}
MCSelected == {e2, e3}
==============================================================================

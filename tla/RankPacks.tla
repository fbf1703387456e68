------------------------------- MODULE RankPacks -------------------------------
(***************************************************************************)
(* build_rank_local_packs.py: every rank copies its slice of the           *)
(* checkpoint's routed experts to its own disk, a file per layer.  A pack  *)
(* is published by a rename and gets a receipt; a build that is killed is  *)
(* started again and goes on after the last receipt.  COMPLETE.json says   *)
(* that all layers are packed, and the served process asks for it.         *)
(* A tensor here stands for the four a projection's slice is stored in.    *)
(***************************************************************************)
EXTENDS MixedStore

CONSTANTS
  None,
  Layers,        \* the routed layers of the checkpoint
  Projections,   \* of an expert: gate, up, down
  MaxKills       \* bound: kills of the builds

ASSUME PacksAssumption ==
  /\ Layers \subseteq ROUTED_LAYERS /\ IsFiniteSet(Layers)
  /\ IsFiniteSet(Projections) /\ Projections # {} /\ MaxKills \in Nat

Tensors == Layers \X Experts \X Projections \X Ranks
LayerOf(t) == t[1]
SliceOf(t) == t[4]

VARIABLES
  missing,       \* the tensor the checkpoint's files lack, or None
  builder,       \* builder[p]: "none", "building", "receipt", "down", "failed", "complete"
  pack,          \* pack[p]: the tensors of p's published packs
  receipts,      \* receipts[p]: the layers whose pack has a receipt
  kills

packVars == <<builder, pack, receipts, kills>>

\* What rank p reads of a layer's expert files.
Wanted(p, layer) == {layer} \X Experts \X Projections \X {p}

InitPacks(phase) ==
  /\ builder = [p \in Ranks |-> phase] /\ pack = [p \in Ranks |-> {}]
  /\ receipts = [p \in Ranks |-> {}] /\ kills = 0

\* The loop's next layer: receipts are valid, their packs have not changed.
Due(p, layer) ==
  /\ layer \in Layers \ receipts[p]
  /\ \A other \in Layers \ receipts[p] : layer <= other

\* A pack without a receipt is not overwritten; an expert file that lacks a tensor
\* is noticed before anything is published.
BuildLayer(p) ==
  /\ builder[p] = "building"
  /\ \E layer \in Layers :
       /\ Due(p, layer)
       /\ IF Wanted(p, layer) \cap pack[p] # {} \/ missing \in Wanted(p, layer)
            THEN builder' = [builder EXCEPT ![p] = "failed"] /\ UNCHANGED pack
            ELSE /\ builder' = [builder EXCEPT ![p] = "receipt"]
                 /\ pack' = [pack EXCEPT ![p] = @ \cup Wanted(p, layer)]
  /\ UNCHANGED <<receipts, kills, missing>>

WriteReceipt(p) ==
  /\ builder[p] = "receipt"
  /\ \E layer \in Layers : Due(p, layer) /\ receipts' = [receipts EXCEPT ![p] = @ \cup {layer}]
  /\ builder' = [builder EXCEPT ![p] = "building"]
  /\ UNCHANGED <<pack, kills, missing>>

FinishPacks(p) ==
  /\ builder[p] = "building" /\ receipts[p] = Layers
  /\ builder' = [builder EXCEPT ![p] = "complete"]
  /\ UNCHANGED <<pack, receipts, kills, missing>>

KillBuild(p) ==
  /\ builder[p] \in {"building", "receipt"} /\ kills < MaxKills
  /\ builder' = [builder EXCEPT ![p] = "down"] /\ kills' = kills + 1
  /\ UNCHANGED <<pack, receipts, missing>>

RestartBuild(p) ==
  /\ builder[p] = "down" /\ builder' = [builder EXCEPT ![p] = "building"]
  /\ UNCHANGED <<pack, receipts, kills, missing>>

PackStep(p) == BuildLayer(p) \/ WriteReceipt(p) \/ FinishPacks(p) \/ RestartBuild(p)
Pack == \E p \in Ranks : PackStep(p) \/ KillBuild(p)

\* A build that was killed between a pack and its receipt: no later one goes on.
Stuck(p) == builder[p] = "failed" /\ \E t \in pack[p] : LayerOf(t) \notin receipts[p]
==============================================================================

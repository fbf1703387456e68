----------------------------- MODULE WeightLoading -----------------------------
(***************************************************************************)
(* How three processes load the routed experts of a checkpoint, and what   *)
(* each then adds to a layer's output.                                     *)
(*   "tp3"    every process takes its rank's slice of every layer          *)
(*            (tp3_full_model_patch, tp3_rank_slice_patch);                *)
(*   "pp3"    a process serves a range of layers with all three slices     *)
(*            (pp3_all_slices_patch);                                      *)
(*   "mixed"  as "tp3", but every layer fills its resident groups from the *)
(*            files (lazy_k275_patch);                                     *)
(*   "packed" as "mixed", but from the packs of the process's rank.        *)
(* "mutant" marks a plausible bug a property would notice.                 *)
(***************************************************************************)
EXTENDS RankPacks, SequencesExt

CONSTANTS
  BaseLayers,    \* num_hidden_layers: the layers from here on are not served
  Order,         \* the files, one per layer and expert, in the order they are read
  MayMiss        \* bound: the tensors one of which the checkpoint may lack

ASSUME LoadingAssumption ==
  /\ BaseLayers \in Nat
  /\ Order \in Seq(Layers \X Experts) /\ IsInjective(Order) /\ ToSet(Order) = Layers \X Experts
  /\ MayMiss \subseteq Tensors

Processes == Ranks
Served == {layer \in Layers : layer < BaseLayers}

VARIABLES
  placement,     \* "tp3", "pp3", "mixed" or "packed"
  read,          \* read[p]: how many files p has read
  held,          \* held[p]: the tensors p has copied into its parameters
  outcome        \* outcome[p]: "loading", "loaded" or "raised"

loadVars == <<placement, missing, read, held, outcome>>

Resident == placement \in {"mixed", "packed"}

\* The tensors of a file, and those a process has been given.
File(f) == ({f[1]} \X {f[2]} \X Projections \X Ranks) \ {missing}
ReadOf(p) == UNION {File(Order[n]) : n \in 1 .. read[p]}

\* A checkpoint with all its tensors or without one of them.
InitLoad ==
  /\ placement \in {"tp3", "pp3", "mixed", "packed"}
  /\ missing \in MayMiss \cup {None}
  /\ InitPacks(IF placement = "packed" THEN "building" ELSE "none")
  /\ read = [p \in Processes |-> 0] /\ held = [p \in Processes |-> {}]
  /\ outcome = [p \in Processes |-> "loading"]

\* The layers of a pipeline stage: contiguous, the first stages the larger.
Stage(p) ==
  LET base == BaseLayers \div TP
      extra == BaseLayers % TP
      start == p * base + (IF p < extra THEN p ELSE extra)
  IN start .. start + base - (IF p < extra THEN 0 ELSE 1)

\* The tensors a process copies.
AnyRank(p, t) == TRUE                            \* mutant: the rank not looked at
OfRank(p, t) == SliceOf(t) = p
Selects(p, t) ==
  /\ LayerOf(t) < BaseLayers
  /\ IF placement = "pp3" THEN LayerOf(t) \in Stage(p) ELSE OfRank(p, t)

LoadFile(p) ==
  /\ ~Resident /\ outcome[p] = "loading" /\ read[p] < Len(Order)
  /\ read' = [read EXCEPT ![p] = @ + 1]
  /\ LET given == File(Order[read[p] + 1])
     IN held' = [held EXCEPT ![p] = @ \cup {t \in given : Selects(p, t)}]
  /\ UNCHANGED <<placement, missing, outcome>>

Count(S) == Cardinality(S)
PerSlice == Count(Experts) * Count(Projections)

\* The census after the stream: "tp3" counts the tensors seen, those of layers
\* that are not served and those copied; "pp3" every slice of its layers.
StreamCensus(p) ==
  /\ Count(ReadOf(p)) = Count(Tensors)
  /\ Count({t \in ReadOf(p) : LayerOf(t) >= BaseLayers}) = Count(Layers \ Served) * PerSlice * TP
  /\ Count(held[p]) = Count(Served) * PerSlice
SliceCensus(p) ==
  \A layer \in Served \cap Stage(p), rank \in Ranks :
    Count({t \in held[p] : LayerOf(t) = layer /\ SliceOf(t) = rank}) = PerSlice
Census(p) == IF placement = "tp3" THEN StreamCensus(p) ELSE SliceCensus(p)

FinishStream(p) ==
  /\ ~Resident /\ outcome[p] = "loading" /\ read[p] = Len(Order)
  /\ outcome' = [outcome EXCEPT ![p] = IF Census(p) THEN "loaded" ELSE "raised"]
  /\ UNCHANGED <<placement, missing, read, held>>

\* fill_resident, layer after layer: the K2 experts, then the K3 experts, from the
\* expert files or the rank's packs.  A store without COMPLETE.json is not
\* constructed, be it that the packing has not ended yet.
Unfilled(p) == {layer \in Served : ~(Wanted(p, layer) \subseteq held[p])}
CompleteReceipt(p) == builder[p] = "complete"    \* COMPLETE.json is this rank's
Readable(p, layer) ==
  IF placement = "packed" THEN CompleteReceipt(p) /\ Wanted(p, layer) \subseteq pack[p]
  ELSE missing \notin Wanted(p, layer)
FillResident(p) ==
  /\ Resident /\ outcome[p] = "loading"
  /\ \E layer \in Unfilled(p) :
       /\ \A other \in Unfilled(p) : layer <= other
       /\ IF Readable(p, layer)
            THEN held' = [held EXCEPT ![p] = @ \cup Wanted(p, layer)] /\ UNCHANGED outcome
            ELSE outcome' = [outcome EXCEPT ![p] = "raised"] /\ UNCHANGED held
  /\ UNCHANGED <<placement, missing, read>>

FinishFill(p) ==
  /\ Resident /\ outcome[p] = "loading" /\ Unfilled(p) = {}
  /\ outcome' = [outcome EXCEPT ![p] = "loaded"]
  /\ UNCHANGED <<placement, missing, read, held>>

\* The processes are started again after one has raised; only packs may have
\* changed meanwhile.
Relaunch ==
  /\ placement = "packed" /\ \E p \in Processes : outcome[p] = "raised"
  /\ held' = [p \in Processes |-> {}] /\ outcome' = [p \in Processes |-> "loading"]
  /\ UNCHANGED <<placement, missing, read>>

Load ==
  \/ \E p \in Processes : LoadFile(p) \/ FinishStream(p) \/ FillResident(p) \/ FinishFill(p)
  \/ Relaunch

AllLoaded == \A p \in Processes : outcome[p] = "loaded"

-----------------------------------------------------------------------------
(* What the processes add up *)

\* The channels of a slice a process has buffers for: its own rank's, or those
\* of all three runners.
RankChannels(p, layer, rank) == IF rank = p THEN Slice(layer, rank) ELSE {}
RunnerChannels(layer, rank) == Slice(layer, rank)
Channels(p, layer, rank) ==
  IF placement = "pp3" THEN RunnerChannels(layer, rank) ELSE RankChannels(p, layer, rank)

\* The slice of an expert a process has all projections of.
Whole(p, layer, e, rank) == \A projection \in Projections : <<layer, e, projection, rank>> \in held[p]

\* The experts a process evaluates for a routed one.
Computed(e) == IF Resident THEN UNION {Evaluated(bits, e) : bits \in Bits} ELSE {e}

\* The sums of AllSlicesMoE.forward and over the ranks: which process, slice and
\* expert contribute to a channel for a routed expert.
Adds(layer, e, channel) ==
  {c \in Processes \X Ranks \X Experts :
     /\ channel \in Channels(c[1], layer, c[2])
     /\ c[3] \in Computed(e) /\ Whole(c[1], layer, c[3], c[2])}

\* The shared expert is cut evenly after padding, or whole in the first runner.
SHARED_PADDED == 2304
SharedAdds(layer, channel) ==
  IF placement = "pp3"
    THEN {p \in Processes : layer \in Stage(p)} \X {0}
    ELSE {c \in Processes \X {0} :
            channel \in c[1] * (SHARED_PADDED \div TP) .. (c[1] + 1) * (SHARED_PADDED \div TP) - 1}
=============================================================================

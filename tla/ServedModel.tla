------------------------------ MODULE ServedModel ------------------------------
(***************************************************************************)
(* The served model: the ranks pack their slices, if they are to, the      *)
(* processes load the checkpoint or the packs and then, if they share the  *)
(* layers, answer calls of sparse attention.                               *)
(***************************************************************************)
EXTENDS WeightLoading, SparseAttention

vars == <<loadVars, packVars, attentionVars>>

Init == InitLoad /\ NoCall

Building == Pack /\ UNCHANGED <<placement, read, held, outcome, attentionVars>>
Loading == Load /\ UNCHANGED <<packVars, attentionVars>>

\* With a pipeline no head is cut and the attention is the unpatched one.
Attending == AllLoaded /\ placement # "pp3" /\ Attend /\ UNCHANGED <<loadVars, packVars>>

Next == Building \/ Loading \/ Attending

Spec == Init /\ [][Next]_vars

\* A process that can read reads on, a build goes on and is started again, and so
\* are processes one of which asked for a pack too early.
FairSpec == Spec /\ \A p \in Processes :
  /\ WF_vars(UNCHANGED <<packVars, attentionVars>>
             /\ (LoadFile(p) \/ FinishStream(p) \/ FillResident(p) \/ FinishFill(p)))
  /\ WF_vars(UNCHANGED <<placement, read, held, outcome, attentionVars>> /\ PackStep(p))
  /\ WF_vars(UNCHANGED <<packVars, attentionVars>> /\ Relaunch)

-----------------------------------------------------------------------------
(* Properties *)

\* When all processes have accepted the checkpoint, every channel of every
\* routed expert of a served layer, and of its shared expert, is added exactly
\* once over processes, slices and groups, and nothing of another expert.
Boundaries == {0, 639, 640, 767, 768, 1279, 1280, 1407, 1408, 2047}
EachChannelOnce ==
  AllLoaded /\ NoCall => \A layer \in Served, channel \in Boundaries :
    /\ \A e \in Experts : \E p \in Processes, rank \in Ranks :
         Adds(layer, e, channel) = {<<p, rank, e>>}
    /\ Cardinality(SharedAdds(layer, channel)) = 1

\* A checkpoint with all its tensors is accepted by all processes, unless a build
\* died between a rank's pack and its receipt (build_rank_local_packs.py:127-145).
WholeIsAccepted == missing = None ~> AllLoaded \/ \E p \in Ranks : Stuck(p)

\* A head of a row attends exactly the positions selected for it, each read by
\* one rank: not the entry the kernel is given for want of one, not twice,
\* and not through another or a synthetic head; the kernel only gets head
\* counts it has.
AttendsSelectedOnce ==
  Attended => \A row \in Rows :
    /\ \A rank \in Ranks : \A call \in Calls(rank) : Len(call) \in SupportedHeads
    /\ \A rank \in Ranks : \A n \in 1 .. Len(Query(rank)) : part[rank][row][n].head = Query(rank)[n]
    /\ \A h \in 0 .. SEMANTIC_HEADS - 1, position \in Entries :
         Cardinality({rank \in Ranks : <<rank, position>> \in HeadOf(row, h)})
           = IF position \in selected[row] THEN 1 ELSE 0
=============================================================================

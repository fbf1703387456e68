---------------------------- MODULE MCServedModel ----------------------------
EXTENDS ServedModel

\* The last layer of a pipeline stage, the first of the next, the MTP layer.
MCLayers == {25, 26, 78}
MCProjections == {"gate_proj", "down_proj"}
\* The projections of an expert are alike.
MCMayMiss == {t \in Tensors : t[3] = "gate_proj"}
MCOrder == <<<<25, 0>>, <<25, 1>>, <<26, 0>>, <<26, 1>>, <<78, 0>>, <<78, 1>>>>
===============================================================================

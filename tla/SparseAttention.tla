---------------------------- MODULE SparseAttention ----------------------------
(***************************************************************************)
(* runtime/sparse_mla_tp3_patch.py: a call of sparse attention on three    *)
(* ranks.  A query row attends the positions that were selected for it.    *)
(* Without decode context parallelism a rank has every position and its 22 *)
(* heads; with it (dcp) a rank has a third of the positions and all 66     *)
(* heads, and the ranks' results are combined by their log-sum-exp.  The   *)
(* kernel takes only certain head counts and at least one position per row.*)
(* A result is what went into it: the query head and the positions.        *)
(***************************************************************************)
EXTENDS Geometry, FiniteSets, Sequences

CONSTANTS
  Rows,          \* rows of a call
  Positions,     \* positions of the sequence, 0 the first
  InterleaveSize     \* consecutive positions a rank keeps before the next rank does

ASSUME AttentionAssumption ==
  Rows # {} /\ Positions \subseteq Nat /\ InterleaveSize \in Nat \ {0}

LOCAL_TP3_HEADS == 22
KERNEL_HEADS == 32
PHYSICAL_HEADS == LOCAL_TP3_HEADS * TP
SEMANTIC_HEADS == 64
SupportedHeads == {8, 16, 32, 64, 128}           \* of the kernel's decode dispatch

VARIABLES
  dcp,           \* whether the ranks share the positions
  selected,      \* selected[row]: the positions to attend
  part           \* part[rank]: what forward_mqa returned, or <<>>

attentionVars == <<dcp, selected, part>>

NoCall == dcp = FALSE /\ selected = [row \in Rows |-> {}] /\ part = [rank \in Ranks |-> <<>>]

Attended == \A rank \in Ranks : part[rank] # <<>>

Begin ==
  /\ Attended \/ \A rank \in Ranks : part[rank] = <<>>
  /\ dcp' \in BOOLEAN /\ selected' \in [Rows -> SUBSET Positions]
  /\ part' = [rank \in Ranks |-> <<>>]

Owner(position) == (position \div InterleaveSize) % TP

\* The positions the index conversion leaves to a rank.
Local(rank, row) ==
  IF dcp THEN {t \in selected[row] : Owner(t) = rank} ELSE selected[row]

\* Where there is none the kernel is given slot 0 of the KV cache: an entry of some
\* position of some request, here an element of its own.
KvSlot0 == -1
Entries == Positions \cup {KvSlot0}
Empty(rank, row) == Local(rank, row) = {}
Indices(rank, row) == IF Empty(rank, row) THEN {KvSlot0} ELSE Local(rank, row)

\* _pad_head_axis
Synthetic == -1
Pad(heads, target) == heads \o [n \in 1 .. target - Len(heads) |-> Synthetic]

\* A kernel call: for every head, what its output is made of.
Kernel(rank, row, heads) == [n \in 1 .. Len(heads) |-> [head |-> heads[n], read |-> Indices(rank, row)]]

\* The query heads a rank sees: its own, or all of them after the gather.
Query(rank) ==
  IF dcp THEN [n \in 1 .. PHYSICAL_HEADS |-> n - 1]
         ELSE [n \in 1 .. LOCAL_TP3_HEADS |-> rank * LOCAL_TP3_HEADS + n - 1]

\* The kernel calls of a rank, and what is kept of their outputs.
FirstHeads(rank) == SubSeq(Query(rank), 1, 64)
LastHeads(rank) == Pad(SubSeq(Query(rank), 65, PHYSICAL_HEADS), 8)
AllHeads(rank) == Pad(Query(rank), KERNEL_HEADS)
Calls(rank) == IF dcp THEN {FirstHeads(rank), LastHeads(rank)} ELSE {AllHeads(rank)}

Output(rank, row) ==
  IF dcp THEN Kernel(rank, row, FirstHeads(rank)) \o SubSeq(Kernel(rank, row, LastHeads(rank)), 1, 2)
         ELSE SubSeq(Kernel(rank, row, AllHeads(rank)), 1, LOCAL_TP3_HEADS)

\* A row without a local position returns zeros and the log-sum-exp -inf.
NoMask(rank, row) == FALSE                       \* mutant: what the kernel read is returned
Masked(rank, row) == Empty(rank, row)
Reported(rank, row) ==
  LET out == Output(rank, row)
  IN [n \in 1 .. Len(out) |->
        IF Masked(rank, row) THEN [head |-> out[n].head, read |-> {}, lse |-> FALSE]
                             ELSE [head |-> out[n].head, read |-> out[n].read, lse |-> TRUE]]
ForwardMqa(rank) ==
  /\ part[rank] = <<>>
  /\ part' = [part EXCEPT ![rank] = [row \in Rows |-> Reported(rank, row)]]
  /\ UNCHANGED <<dcp, selected>>

\* correct_attn_out: lanes are added up to a power of two, with -inf.
Rounded(count) == CHOOSE n \in {1, 2, 4, 8} : n >= count /\ \A m \in {1, 2, 4, 8} : m >= count => n <= m
Lane(lane, row, n) == IF lane \in Ranks THEN part[lane][row][n] ELSE [head |-> Synthetic, read |-> {}, lse |-> FALSE]

\* What ends up in a head of a row: which lane read which entry.  Head h is
\* reduced to the rank that has it.
HeadOf(row, h) ==
  IF dcp THEN {c \in (0 .. Rounded(TP) - 1) \X Entries :
                 Lane(c[1], row, h + 1).lse /\ c[2] \in Lane(c[1], row, h + 1).read}
  ELSE LET rank == h \div LOCAL_TP3_HEADS
       IN {rank} \X part[rank][row][(h % LOCAL_TP3_HEADS) + 1].read

Attend == Begin \/ \E rank \in Ranks : ForwardMqa(rank)
=============================================================================

--------------------------- MODULE ServedModelProofs ---------------------------
(***************************************************************************)
(* Proofs about ServedModel: the geometry partitions the channels of every *)
(* layer, the two groups evaluate every expert once, an accepted checkpoint*)
(* adds every channel once, and a head attends its selected positions once.*)
(***************************************************************************)
EXTENDS ServedModel, Campaign, FiniteSetTheorems, TLAPS

-----------------------------------------------------------------------------
(* The geometry                                                            *)

LEMMA RanksAre == Ranks = {0, 1, 2}
BY DEF Ranks, TP

LEMMA WideRank == ASSUME NEW layer \in ROUTED_LAYERS PROVE wide_rank(layer) \in {0, 1, 2}
BY DEF ROUTED_LAYERS, wide_rank, MTP_LAYER, MTP_WIDE_RANK, TP

\* The offsets of a layer, by its wide rank.
LEMMA Offsets ==
  ASSUME NEW layer \in ROUTED_LAYERS
  PROVE  /\ rank_offset(layer, 0) = 0
         /\ rank_offset(layer, 1) = rank_width(layer, 0)
         /\ rank_offset(layer, 2) = rank_width(layer, 0) + rank_width(layer, 1)
         /\ rank_width(layer, 0) + rank_width(layer, 1) + rank_width(layer, 2) = 2048
         /\ \A rank \in {0, 1, 2} : rank_width(layer, rank) \in {640, 768}
<1>1. wide_rank(layer) \in {0, 1, 2}
  BY WideRank
<1>2. \A rank \in {0, 1, 2} : rank_width(layer, rank) = IF rank = wide_rank(layer) THEN 768 ELSE 640
  BY DEF rank_width, WIDE_SLICE, NARROW_SLICE
<1> QED
  BY <1>1, <1>2 DEF rank_offset

\* validate_layer_geometry accepts every routed layer.
THEOREM GeometryIsValid == \A layer \in ROUTED_LAYERS : validate_layer_geometry(layer)
<1> SUFFICES ASSUME NEW layer \in ROUTED_LAYERS PROVE validate_layer_geometry(layer)
  OBVIOUS
<1>1. wide_rank(layer) \in {0, 1, 2}
  BY WideRank
<1>2. \A rank \in {0, 1, 2} : rank_width(layer, rank) = IF rank = wide_rank(layer) THEN 768 ELSE 640
  BY DEF rank_width, WIDE_SLICE, NARROW_SLICE
<1>3. \A rank \in {0, 1, 2} : rank_width(layer, rank) % 128 = 0 /\ rank_offset(layer, rank) % 128 = 0
  BY <1>1, <1>2, Offsets
<1>4. \A rank \in {0, 1, 2} : rank > 0 =>
        rank_offset(layer, rank) = rank_offset(layer, rank - 1) + rank_width(layer, rank - 1)
  BY Offsets
<1>5. \E wide \in {0, 1, 2} : \A rank \in {0, 1, 2} :
        rank_width(layer, rank) = IF rank = wide THEN WIDE_SLICE ELSE NARROW_SLICE
  BY <1>1, <1>2 DEF WIDE_SLICE, NARROW_SLICE
<1> QED
  BY <1>3, <1>4, <1>5, Offsets, RanksAre DEF validate_layer_geometry, SEMANTIC_INTERMEDIATE

\* A channel of a routed expert is in exactly one rank's slice.
THEOREM ChannelsArePartitioned ==
  ASSUME NEW layer \in ROUTED_LAYERS, NEW channel \in 0 .. SEMANTIC_INTERMEDIATE - 1
  PROVE  \E rank \in Ranks : \A other \in Ranks : channel \in Slice(layer, other) <=> other = rank
<1> DEFINE a == rank_width(layer, 0)
           b == rank_width(layer, 0) + rank_width(layer, 1)
<1>1. channel \in Slice(layer, 0) <=> channel < a
  BY Offsets, SMTT(20) DEF Slice, SEMANTIC_INTERMEDIATE
<1>2. channel \in Slice(layer, 1) <=> a <= channel /\ channel < b
  BY Offsets, SMTT(20) DEF Slice, SEMANTIC_INTERMEDIATE
<1>3. channel \in Slice(layer, 2) <=> b <= channel
  BY Offsets, SMTT(20) DEF Slice, SEMANTIC_INTERMEDIATE
<1>4. a \in Nat /\ b \in Nat /\ a <= b /\ channel \in Nat
  BY Offsets DEF SEMANTIC_INTERMEDIATE
<1> HIDE DEF a, b
<1>5. CASE channel < a
  <2>1. \A other \in {0, 1, 2} : channel \in Slice(layer, other) <=> other = 0
    BY <1>1, <1>2, <1>3, <1>4, <1>5
  <2> QED  BY <2>1, RanksAre
<1>6. CASE a <= channel /\ channel < b
  <2>1. \A other \in {0, 1, 2} : channel \in Slice(layer, other) <=> other = 1
    BY <1>1, <1>2, <1>3, <1>4, <1>6
  <2> QED  BY <2>1, RanksAre
<1>7. CASE b <= channel
  <2>1. \A other \in {0, 1, 2} : channel \in Slice(layer, other) <=> other = 2
    BY <1>1, <1>2, <1>3, <1>4, <1>7
  <2> QED  BY <2>1, RanksAre
<1> QED
  BY <1>4, <1>5, <1>6, <1>7

-----------------------------------------------------------------------------
(* The two groups                                                          *)

\* The slots of a group are numbered by its experts in ascending order.
LEMMA SlotsAreDistinct ==
  ASSUME NEW bits \in Bits, NEW d \in Group(bits), NEW e \in Group(bits), d < e
  PROVE  SlotOf(bits, d) < SlotOf(bits, e)
<1> DEFINE Below(x) == {y \in Group(bits) : y < x}
<1>1. IsFiniteSet(Group(bits)) /\ Group(bits) \subseteq Nat
  BY MixedAssumption, FS_Subset, FS_Difference DEF Group
<1>2. IsFiniteSet(Below(e)) /\ IsFiniteSet(Below(d)) /\ d \notin Below(d) /\ d \in Below(e)
  BY <1>1, FS_Subset
<1>3. Below(d) \cup {d} \subseteq Below(e)
  BY <1>1
<1>4. Cardinality(Below(d) \cup {d}) = Cardinality(Below(d)) + 1
  BY <1>2, FS_AddElement
<1>5. Cardinality(Below(d) \cup {d}) <= Cardinality(Below(e))
  BY <1>2, <1>3, FS_Subset
<1>6. Cardinality(Below(d)) \in Nat /\ Cardinality(Below(e)) \in Nat
  BY <1>2, FS_CardinalityType
<1> QED
  BY <1>4, <1>5, <1>6 DEF SlotOf

LEMMA SlotsAreBelow ==
  ASSUME NEW bits \in Bits, NEW e \in Group(bits)
  PROVE  SlotOf(bits, e) \in Nat /\ Packs(bits) \in Nat /\ SlotOf(bits, e) < Packs(bits)
<1> DEFINE Below == {y \in Group(bits) : y < e}
<1>1. IsFiniteSet(Group(bits)) /\ Group(bits) \subseteq Nat
  BY MixedAssumption, FS_Subset, FS_Difference DEF Group
<1>2. IsFiniteSet(Below) /\ Cardinality(Below) <= Cardinality(Group(bits)) /\ e \notin Below
       /\ (Cardinality(Group(bits)) = Cardinality(Below) => Group(bits) = Below)
  BY <1>1, FS_Subset
<1>3. Cardinality(Below) \in Nat /\ Cardinality(Group(bits)) \in Nat
  BY <1>1, <1>2, FS_CardinalityType
<1> QED
  BY <1>2, <1>3 DEF SlotOf, Packs

\* The two fused calls of a layer evaluate a routed expert once, and no other.
THEOREM MixedEvaluatesOnce ==
  ASSUME NEW e \in Experts
  PROVE  \A bits \in Bits : Evaluated(bits, e) = IF e \in Group(bits) THEN {e} ELSE {}
<1> SUFFICES ASSUME NEW bits \in Bits
             PROVE  Evaluated(bits, e) = IF e \in Group(bits) THEN {e} ELSE {}
  OBVIOUS
<1>1. CASE e \in Group(bits)
  <2>1. lookup(bits, e) = SlotOf(bits, e) /\ SlotOf(bits, e) < Packs(bits)
    BY <1>1, SlotsAreBelow DEF lookup
  <2>2. \A d \in Group(bits) : SlotOf(bits, d) = SlotOf(bits, e) => d = e
    <3> SUFFICES ASSUME NEW d \in Group(bits), d # e PROVE SlotOf(bits, d) # SlotOf(bits, e)
      OBVIOUS
    <3>1. d \in Nat /\ e \in Nat
      BY MixedAssumption DEF Group
    <3>2. SlotOf(bits, d) \in Nat /\ SlotOf(bits, e) \in Nat
      BY <1>1, SlotsAreBelow
    <3>3. CASE d < e
      BY <1>1, <3>2, <3>3, SlotsAreDistinct
    <3>4. CASE e < d
      BY <1>1, <3>2, <3>4, SlotsAreDistinct
    <3> QED  BY <3>1, <3>3, <3>4
  <2> QED  BY <1>1, <2>1, <2>2 DEF Evaluated
<1>2. CASE e \notin Group(bits)
  <2>1. Packs(bits) \in Nat
    BY MixedAssumption, FS_Subset, FS_Difference, FS_CardinalityType DEF Group, Packs
  <2> QED  BY <1>2, <2>1 DEF Evaluated, lookup
<1> QED
  BY <1>1, <1>2

LEMMA ComputedIsExpert == ASSUME NEW e \in Experts PROVE Computed(e) = {e}
<1>1. \A bits \in {2, 3} : Evaluated(bits, e) = IF e \in Group(bits) THEN {e} ELSE {}
  BY MixedEvaluatesOnce DEF Bits
<1>2. UNION {Evaluated(bits, e) : bits \in {2, 3}} = Evaluated(2, e) \cup Evaluated(3, e)
  OBVIOUS
<1>3. (e \in Group(2)) # (e \in Group(3))
  BY DEF Group
<1> QED
  BY <1>1, <1>2, <1>3 DEF Computed, Bits

-----------------------------------------------------------------------------
(* The attention                                                           *)

\* What a kernel is given a head's output for.
Made(h, positions) == [head |-> h, read |-> positions]

LEMMA FunctionIsSeq ==
  \A S, f : \A k \in Nat : f \in [1 .. k -> S] => f \in Seq(S) /\ Len(f) = k
<1> SUFFICES ASSUME NEW S, NEW k \in Nat, NEW f \in [1 .. k -> S] PROVE f \in Seq(S) /\ Len(f) = k
  OBVIOUS
<1> QED
  OBVIOUS

LEMMA SeqIsFunction ==
  \A S : \A f \in Seq(S) :
    Len(f) \in Nat /\ f \in [1 .. Len(f) -> S] /\ f = [n \in 1 .. Len(f) |-> f[n]]
OBVIOUS

LEMMA SubSeqIs ==
  ASSUME NEW S, NEW s \in Seq(S), NEW a \in Nat, NEW b \in Nat, 1 <= a, a <= b, b <= Len(s)
  PROVE  SubSeq(s, a, b) \in Seq(S)
OBVIOUS

LEMMA PrefixIs ==
  ASSUME NEW S, NEW s \in Seq(S), NEW b \in Int, b <= Len(s)
  PROVE  SubSeq(s, 1, b) \in Seq(S)
OBVIOUS

LEMMA ConcatIs ==
  ASSUME NEW S, NEW s \in Seq(S), NEW t \in Seq(S)
  PROVE  /\ s \o t \in Seq(S) /\ Len(s \o t) = Len(s) + Len(t)
         /\ \A n \in 1 .. Len(s) : (s \o t)[n] = s[n]
         /\ \A n \in Len(s) + 1 .. Len(s) + Len(t) : (s \o t)[n] = t[n - Len(s)]
OBVIOUS

LEMMA QueryIs ==
  ASSUME dcp \in BOOLEAN, NEW rank \in Ranks
  PROVE  /\ Query(rank) \in Seq(Int)
         /\ Len(Query(rank)) = IF dcp THEN 66 ELSE 22
         /\ \A n \in 1 .. Len(Query(rank)) : Query(rank)[n] = IF dcp THEN n - 1 ELSE rank * 22 + n - 1
<1>1. rank \in Int /\ rank * 22 \in Int
  BY RanksAre
<1>2. CASE dcp
  <2>1. Query(rank) = [n \in 1 .. 66 |-> n - 1]
    BY <1>2 DEF Query, PHYSICAL_HEADS, LOCAL_TP3_HEADS, TP
  <2>2. Query(rank) \in [1 .. 66 -> Int]
    BY <2>1
  <2>3. Query(rank) \in Seq(Int) /\ Len(Query(rank)) = 66
    BY <2>2, FunctionIsSeq
  <2> QED  BY <1>2, <2>1, <2>3
<1>3. CASE ~dcp
  <2>1. Query(rank) = [n \in 1 .. 22 |-> rank * 22 + n - 1]
    BY <1>3 DEF Query, LOCAL_TP3_HEADS
  <2>2. Query(rank) \in [1 .. 22 -> Int]
    BY <1>1, <2>1
  <2>3. Query(rank) \in Seq(Int) /\ Len(Query(rank)) = 22
    BY <2>2, FunctionIsSeq
  <2> QED  BY <1>3, <2>1, <2>3
<1> QED
  BY <1>2, <1>3

LEMMA PadIs ==
  ASSUME NEW s \in Seq(Int), NEW target \in Nat, Len(s) < target
  PROVE  /\ Pad(s, target) \in Seq(Int) /\ Len(Pad(s, target)) = target
         /\ \A n \in 1 .. Len(s) : Pad(s, target)[n] = s[n]
<1> DEFINE k == target - Len(s)
           fill == [n \in 1 .. k |-> -1]
<1>1. Len(s) \in Nat /\ k \in Nat
  BY SeqIsFunction
<1> HIDE DEF k
<1>2. fill \in [1 .. k -> Int]
  OBVIOUS
<1> HIDE DEF fill
<1>3. fill \in Seq(Int) /\ Len(fill) = k
  BY <1>1, <1>2, FunctionIsSeq
<1>4. Pad(s, target) = s \o fill
  BY DEF Pad, Synthetic, fill, k
<1>5. Len(s) + k = target
  BY <1>1 DEF k
<1>6. /\ s \o fill \in Seq(Int) /\ Len(s \o fill) = Len(s) + Len(fill)
      /\ \A n \in 1 .. Len(s) : (s \o fill)[n] = s[n]
  BY <1>3, ConcatIs
<1> QED
  BY <1>3, <1>4, <1>5, <1>6

LEMMA HeadsAre ==
  ASSUME dcp \in BOOLEAN, NEW rank \in Ranks
  PROVE  /\ dcp => /\ FirstHeads(rank) \in Seq(Int) /\ Len(FirstHeads(rank)) = 64
                   /\ \A n \in 1 .. 64 : FirstHeads(rank)[n] = Query(rank)[n]
                   /\ LastHeads(rank) \in Seq(Int) /\ Len(LastHeads(rank)) = 8
                   /\ \A n \in 1 .. 2 : LastHeads(rank)[n] = Query(rank)[64 + n]
         /\ ~dcp => /\ AllHeads(rank) \in Seq(Int) /\ Len(AllHeads(rank)) = 32
                    /\ \A n \in 1 .. 22 : AllHeads(rank)[n] = Query(rank)[n]
<1>1. CASE dcp
  <2> DEFINE tail == SubSeq(Query(rank), 65, 66)
  <2>1. Query(rank) \in Seq(Int) /\ Len(Query(rank)) = 66
    BY <1>1, QueryIs
  <2>2. FirstHeads(rank) \in Seq(Int) /\ Len(FirstHeads(rank)) = 64
         /\ \A n \in 1 .. 64 : FirstHeads(rank)[n] = Query(rank)[n]
    <3>1. 1 \in Nat /\ 64 \in Nat /\ 1 <= 1 /\ 1 <= 64 /\ 64 <= Len(Query(rank))
      BY <2>1
    <3>2. SubSeq(Query(rank), 1, 64) \in Seq(Int)
      BY <2>1, <3>1, SubSeqIs, ZenonT(40)
    <3>3. Len(SubSeq(Query(rank), 1, 64)) = 64
      BY <2>1
    <3>4. \A n \in 1 .. 64 : SubSeq(Query(rank), 1, 64)[n] = Query(rank)[n]
      BY <2>1
    <3> QED  BY <3>2, <3>3, <3>4 DEF FirstHeads
  <2>3. tail \in Seq(Int) /\ Len(tail) = 2 /\ \A n \in 1 .. 2 : tail[n] = Query(rank)[64 + n]
    <3>1. 65 \in Nat /\ 66 \in Nat /\ 1 <= 65 /\ 65 <= 66 /\ 66 <= Len(Query(rank))
      BY <2>1
    <3>2. tail \in Seq(Int)
      BY <2>1, <3>1, SubSeqIs, ZenonT(40)
    <3>3. Len(tail) = 2
      BY <2>1
    <3>4. \A n \in 1 .. 2 : tail[n] = Query(rank)[64 + n]
      BY <2>1
    <3> QED  BY <3>2, <3>3, <3>4
  <2> HIDE DEF tail
  <2>4. LastHeads(rank) = Pad(tail, 8)
    BY DEF LastHeads, PHYSICAL_HEADS, LOCAL_TP3_HEADS, TP, tail
  <2>5. LastHeads(rank) \in Seq(Int) /\ Len(LastHeads(rank)) = 8
         /\ \A n \in 1 .. 2 : LastHeads(rank)[n] = tail[n]
    <3>1. 8 \in Nat /\ Len(tail) < 8
      BY <2>3
    <3>2. /\ Pad(tail, 8) \in Seq(Int) /\ Len(Pad(tail, 8)) = 8
          /\ \A n \in 1 .. Len(tail) : Pad(tail, 8)[n] = tail[n]
      BY <2>3, <3>1, PadIs, Zenon
    <3> QED  BY <2>3, <2>4, <3>2
  <2> QED  BY <1>1, <2>2, <2>3, <2>5
<1>2. CASE ~dcp
  <2>1. Query(rank) \in Seq(Int) /\ Len(Query(rank)) = 22
    BY <1>2, QueryIs
  <2>2. 32 \in Nat /\ Len(Query(rank)) < 32
    BY <2>1
  <2>3. /\ Pad(Query(rank), 32) \in Seq(Int) /\ Len(Pad(Query(rank), 32)) = 32
        /\ \A n \in 1 .. Len(Query(rank)) : Pad(Query(rank), 32)[n] = Query(rank)[n]
    BY <2>1, <2>2, PadIs, Zenon
  <2> QED  BY <1>2, <2>1, <2>3 DEF AllHeads, KERNEL_HEADS
<1> QED
  BY <1>1, <1>2

\* The outputs that are kept are those of the query heads, in their order.
LEMMA OutputIs ==
  ASSUME dcp \in BOOLEAN, NEW rank \in Ranks, NEW row \in Rows
  PROVE  Output(rank, row) = [n \in 1 .. Len(Query(rank)) |-> Made(Query(rank)[n], Indices(rank, row))]
<1> DEFINE positions == Indices(rank, row)
           S == [head : Int, read : {positions}]
<1> HIDE DEF positions
<1>0. ASSUME NEW heads \in Seq(Int)
      PROVE  /\ Kernel(rank, row, heads) \in Seq(S)
             /\ Len(Kernel(rank, row, heads)) = Len(heads)
             /\ \A n \in 1 .. Len(heads) : Kernel(rank, row, heads)[n] = Made(heads[n], positions)
  <2> DEFINE k == Len(heads)
  <2>1. Kernel(rank, row, heads) = [n \in 1 .. k |-> Made(heads[n], positions)]
    BY DEF Kernel, Made, positions
  <2>2. k \in Nat /\ \A n \in 1 .. k : heads[n] \in Int
    BY SeqIsFunction
  <2>3. \A n \in 1 .. k : Made(heads[n], positions) \in S
    BY <2>2 DEF Made
  <2> HIDE DEF k, S
  <2>4. Kernel(rank, row, heads) \in [1 .. k -> S]
    BY <2>1, <2>3
  <2>5. Kernel(rank, row, heads) \in Seq(S) /\ Len(Kernel(rank, row, heads)) = k
    BY <2>2, <2>4, FunctionIsSeq
  <2> QED  BY <2>1, <2>5 DEF k
<1> HIDE DEF S
<1>1. CASE dcp
  <2> DEFINE a == Kernel(rank, row, FirstHeads(rank))
             b == Kernel(rank, row, LastHeads(rank))
             c == SubSeq(b, 1, 2)
  <2>1. a \in Seq(S) /\ Len(a) = 64 /\ \A n \in 1 .. 64 : a[n] = Made(Query(rank)[n], positions)
    <3>1. /\ FirstHeads(rank) \in Seq(Int) /\ Len(FirstHeads(rank)) = 64
          /\ \A n \in 1 .. 64 : FirstHeads(rank)[n] = Query(rank)[n]
      BY <1>1, HeadsAre
    <3>2. /\ a \in Seq(S) /\ Len(a) = Len(FirstHeads(rank))
          /\ \A n \in 1 .. Len(FirstHeads(rank)) : a[n] = Made(FirstHeads(rank)[n], positions)
      BY <1>0, <3>1, Zenon
    <3> HIDE DEF a
    <3> QED  BY <3>1, <3>2
  <2>2. b \in Seq(S) /\ Len(b) = 8 /\ \A n \in 1 .. 2 : b[n] = Made(Query(rank)[64 + n], positions)
    <3>1. /\ LastHeads(rank) \in Seq(Int) /\ Len(LastHeads(rank)) = 8
          /\ \A n \in 1 .. 2 : LastHeads(rank)[n] = Query(rank)[64 + n]
      BY <1>1, HeadsAre
    <3>2. /\ b \in Seq(S) /\ Len(b) = Len(LastHeads(rank))
          /\ \A n \in 1 .. Len(LastHeads(rank)) : b[n] = Made(LastHeads(rank)[n], positions)
      BY <1>0, <3>1, Zenon
    <3> HIDE DEF b
    <3> QED  BY <3>1, <3>2
  <2>3. Output(rank, row) = a \o c
    BY <1>1 DEF Output
  <2> HIDE DEF a, b
  <2>4. c \in Seq(S) /\ Len(c) = 2 /\ \A n \in 1 .. 2 : c[n] = Made(Query(rank)[64 + n], positions)
    <3>1. 1 \in Nat /\ 2 \in Nat /\ 1 <= 1 /\ 1 <= 2 /\ 2 <= Len(b)
      BY <2>2
    <3>2. c \in Seq(S)
      BY <2>2, <3>1, SubSeqIs, Zenon
    <3>3. Len(c) = 2 /\ \A n \in 1 .. 2 : c[n] = b[n]
      BY <2>2
    <3> HIDE DEF c
    <3> QED  BY <2>2, <3>2, <3>3
  <2> HIDE DEF c
  <2> DEFINE d == a \o c
  <2>5. a \in Seq(S) /\ c \in Seq(S)
    BY <2>1, <2>4
  <2>6. /\ d \in Seq(S) /\ Len(d) = Len(a) + Len(c)
        /\ \A n \in 1 .. Len(a) : d[n] = a[n]
        /\ \A n \in Len(a) + 1 .. Len(a) + Len(c) : d[n] = c[n - Len(a)]
    BY <2>5, ConcatIs
  <2> HIDE DEF d
  <2>7. Len(d) = 66 /\ \A n \in 1 .. 64 : d[n] = a[n]
    BY <2>1, <2>4, <2>6
  <2>8. \A n \in 65 .. 66 : d[n] = c[n - 64]
    <3>1. Len(a) = 64 /\ Len(a) + 1 = 65 /\ Len(a) + Len(c) = 66
      BY <2>1, <2>4
    <3>2. \A n \in Len(a) + 1 .. Len(a) + Len(c) : d[n] = c[n - Len(a)]
      BY <2>6
    <3> QED  BY <3>1, <3>2, Zenon
  <2>9. \A n \in 1 .. 66 : d[n] = Made(Query(rank)[n], positions)
    <3>1. \A n \in 1 .. 64 : d[n] = Made(Query(rank)[n], positions)
      BY <2>1, <2>7
    <3>2. \A n \in 65 .. 66 : n - 64 \in 1 .. 2 /\ 64 + (n - 64) = n
      OBVIOUS
    <3>3. \A n \in 65 .. 66 : d[n] = Made(Query(rank)[n], positions)
      BY <2>4, <2>8, <3>2, ZenonT(40)
    <3> QED  BY <3>1, <3>3
  <2>10. d = [n \in 1 .. 66 |-> d[n]]
    <3>1. d = [n \in 1 .. Len(d) |-> d[n]]
      BY <2>6, SeqIsFunction, Zenon
    <3> QED  BY <2>7, <3>1
  <2> QED  BY <1>1, <2>3, <2>9, <2>10, QueryIs DEF positions, d
<1>2. CASE ~dcp
  <2> DEFINE a == Kernel(rank, row, AllHeads(rank))
             c == SubSeq(a, 1, 22)
  <2>1. a \in Seq(S) /\ Len(a) = 32 /\ \A n \in 1 .. 32 : a[n] = Made(AllHeads(rank)[n], positions)
    <3>1. AllHeads(rank) \in Seq(Int) /\ Len(AllHeads(rank)) = 32
      BY <1>2, HeadsAre
    <3>2. /\ a \in Seq(S) /\ Len(a) = Len(AllHeads(rank))
          /\ \A n \in 1 .. Len(AllHeads(rank)) : a[n] = Made(AllHeads(rank)[n], positions)
      BY <1>0, <3>1, Zenon
    <3> HIDE DEF a
    <3> QED  BY <3>1, <3>2
  <2>2. \A n \in 1 .. 22 : AllHeads(rank)[n] = Query(rank)[n]
    BY <1>2, HeadsAre
  <2>3. Output(rank, row) = c
    BY <1>2 DEF Output, LOCAL_TP3_HEADS
  <2> HIDE DEF a
  <2>4. c \in Seq(S) /\ Len(c) = 22 /\ \A n \in 1 .. 22 : c[n] = a[n]
    <3>1. 1 \in Nat /\ 22 \in Nat /\ 1 <= 1 /\ 1 <= 22 /\ 22 <= Len(a)
      BY <2>1
    <3>2. c \in Seq(S)
      BY <2>1, <3>1, SubSeqIs, Zenon
    <3>3. Len(c) = 22 /\ \A n \in 1 .. 22 : c[n] = a[n]
      BY <2>1
    <3> HIDE DEF c
    <3> QED  BY <3>2, <3>3
  <2> HIDE DEF c
  <2>5. Len(c) = 22 /\ \A n \in 1 .. 22 : c[n] = Made(Query(rank)[n], positions)
    BY <2>1, <2>2, <2>4
  <2>6. c = [n \in 1 .. Len(c) |-> c[n]]
    BY <2>4, SeqIsFunction
  <2> QED  BY <1>2, <2>3, <2>5, <2>6, QueryIs DEF positions
<1> QED
  BY <1>1, <1>2

\* What a rank returns for a row: of every query head, the positions it has
\* of the selected ones, and a log-sum-exp unless there are none.
Expected(rank, row) ==
  [n \in 1 .. Len(Query(rank)) |->
     [head |-> Query(rank)[n], read |-> Local(rank, row), lse |-> Local(rank, row) # {}]]

LEMMA ReportedIs ==
  ASSUME dcp \in BOOLEAN, NEW rank \in Ranks, NEW row \in Rows
  PROVE  Reported(rank, row) = Expected(rank, row)
<1> DEFINE k == Len(Query(rank))
           out == Output(rank, row)
           full == [n \in 1 .. k |-> Made(Query(rank)[n], Indices(rank, row))]
<1>1. k \in Nat
  BY QueryIs
<1>2. out = full
  BY OutputIs
<1>3. Len(full) = k
  <2>1. full \in [1 .. k -> [head : {Query(rank)[n] : n \in 1 .. k}, read : {Indices(rank, row)}]]
    BY DEF Made
  <2> HIDE DEF full, k
  <2> QED  BY <1>1, <2>1, FunctionIsSeq
<1>4. \A n \in 1 .. k : out[n].head = Query(rank)[n] /\ out[n].read = Indices(rank, row)
  BY <1>2 DEF Made
<1>5. Len(out) = k
  BY <1>2, <1>3
<1> HIDE DEF k, out, full
<1>6. Reported(rank, row) = [n \in 1 .. k |->
        IF Masked(rank, row) THEN [head |-> out[n].head, read |-> {}, lse |-> FALSE]
                             ELSE [head |-> out[n].head, read |-> out[n].read, lse |-> TRUE]]
  BY <1>5 DEF Reported, out
<1>7. CASE Local(rank, row) = {}
  <2>1. Masked(rank, row)
    BY <1>7 DEF Masked, Empty
  <2> QED  BY <1>4, <1>6, <1>7, <2>1 DEF Expected, k
<1>8. CASE Local(rank, row) # {}
  <2>1. ~Masked(rank, row) /\ Indices(rank, row) = Local(rank, row)
    BY <1>8 DEF Masked, Empty, Indices
  <2> QED  BY <1>4, <1>6, <1>8, <2>1 DEF Expected, k
<1> QED
  BY <1>7, <1>8

SelectedTyped == \A row \in Rows : selected[row] \subseteq Positions
AttentionInv ==
  /\ dcp \in BOOLEAN /\ DOMAIN part = Ranks /\ SelectedTyped
  /\ \A rank \in Ranks : part[rank] # <<>> => \A row \in Rows : part[rank][row] = Expected(rank, row)

LEMMA AttentionInitially == Init => AttentionInv
BY DEF Init, NoCall, AttentionInv, SelectedTyped

LEMMA AttentionStep == AttentionInv /\ [Next]_vars => AttentionInv'
<1> SUFFICES ASSUME AttentionInv, [Next]_vars PROVE AttentionInv'
  OBVIOUS
<1>1. ASSUME UNCHANGED attentionVars PROVE AttentionInv'
  <2>1. dcp' = dcp /\ selected' = selected /\ part' = part
    BY <1>1 DEF attentionVars
  <2>2. \A other, row : Expected(other, row)' = Expected(other, row)
    BY <2>1 DEF Expected, Query, Local, Owner
  <2> QED  BY <2>1, <2>2 DEF AttentionInv, SelectedTyped
<1>2. CASE Begin
  BY <1>2 DEF Begin, AttentionInv, SelectedTyped
<1>3. ASSUME NEW rank \in Ranks, ForwardMqa(rank) PROVE AttentionInv'
  <2>1. dcp' = dcp /\ selected' = selected /\ dcp \in BOOLEAN
    BY <1>3 DEF ForwardMqa, AttentionInv
  <2>2. \A other, row : Expected(other, row)' = Expected(other, row)
    BY <2>1 DEF Expected, Query, Local, Owner
  <2>3. DOMAIN part' = Ranks
    BY <1>3 DEF ForwardMqa, AttentionInv
  <2>4. ASSUME NEW other \in Ranks, part'[other] # <<>>, NEW row \in Rows
        PROVE  part'[other][row] = Expected(other, row)
    <3>1. CASE other = rank
      <4>1. part'[other] = [r \in Rows |-> Reported(rank, r)]
        BY <1>3, <3>1 DEF ForwardMqa, AttentionInv
      <4>2. part'[other][row] = Reported(rank, row)
        BY <4>1
      <4> QED  BY <2>1, <3>1, <4>2, ReportedIs
    <3>2. CASE other # rank
      <4>1. part'[other] = part[other]
        BY <1>3, <3>2 DEF ForwardMqa, AttentionInv
      <4> QED  BY <2>4, <4>1 DEF AttentionInv
    <3> QED  BY <3>1, <3>2
  <2> QED  BY <2>1, <2>2, <2>3, <2>4 DEF AttentionInv, SelectedTyped
<1>4. CASE Building \/ Loading
  BY <1>1, <1>4 DEF Building, Loading
<1>5. CASE Attending
  BY <1>2, <1>3, <1>5 DEF Attending, Attend
<1>6. CASE UNCHANGED vars
  BY <1>1, <1>6 DEF vars
<1> QED
  BY <1>4, <1>5, <1>6 DEF Next

LEMMA RoundedIs == Rounded(TP) = 4
<1> DEFINE P(n) == n >= 3 /\ \A m \in {1, 2, 4, 8} : m >= 3 => n <= m
<1>1. P(4) /\ \A n \in {1, 2, 4, 8} : P(n) => n = 4
  OBVIOUS
<1>2. Rounded(TP) = CHOOSE n \in {1, 2, 4, 8} : P(n)
  BY DEF Rounded, TP
<1> HIDE DEF P
<1> QED
  BY <1>1, <1>2

\* 64 heads on ranks of 22.
LEMMA HeadDiv == ASSUME NEW g \in 0 .. 63 PROVE g \div 22 \in {0, 1, 2}
<1>1. CASE g <= 21
  BY <1>1, SMTT(20)
<1>2. CASE g >= 22 /\ g <= 43
  BY <1>2, SMTT(20)
<1>3. CASE g >= 44
  BY <1>3, SMTT(20)
<1> QED
  BY <1>1, <1>2, <1>3

LEMMA HeadMod == ASSUME NEW g \in 0 .. 63 PROVE (g % 22) + 1 \in 1 .. 22
BY SMTT(20)

\* The ranks a head's position was read by, once all have returned.
LEMMA HeadIs ==
  ASSUME AttentionInv, Attended, NEW row \in Rows, NEW h \in 0 .. SEMANTIC_HEADS - 1,
         NEW position \in Entries, NEW rank \in Ranks
  PROVE  <<rank, position>> \in HeadOf(row, h)
           <=> /\ position \in selected[row]
               /\ rank = IF dcp THEN Owner(position) ELSE h \div LOCAL_TP3_HEADS
<1> USE DEF AttentionInv
<1>1. \A other \in Ranks : part[other][row] = Expected(other, row)
  BY DEF Attended
<1>0. ASSUME NEW other \in Ranks, NEW n \in 1 .. Len(Query(other))
      PROVE  /\ part[other][row][n].read = Local(other, row)
             /\ part[other][row][n].lse <=> Local(other, row) # {}
  <2> DEFINE k == Len(Query(other))
             has == Local(other, row) # {}
             own == Local(other, row)
  <2>1. part[other][row] = [m \in 1 .. k |-> [head |-> Query(other)[m], read |-> own, lse |-> has]]
    BY <1>1, Zenon DEF Expected
  <2>2. n \in 1 .. k
    OBVIOUS
  <2> HIDE DEF k, has, own
  <2>3. part[other][row][n] = [head |-> Query(other)[n], read |-> own, lse |-> has]
    BY <2>1, <2>2
  <2>4. part[other][row][n].read = own
    BY <2>3
  <2>5. part[other][row][n].lse = has
    BY <2>3
  <2> QED  BY <2>4, <2>5, Zenon DEF has, own
<1>2. h \in 0 .. 63
  BY DEF SEMANTIC_HEADS
<1>3. CASE dcp
  <2>1. \A other \in Ranks : Len(Query(other)) = 66
    BY <1>3, QueryIs
  <2>2. h + 1 \in 1 .. Len(Query(rank))
    <3>1. h + 1 \in 1 .. 66
      BY <1>2
    <3> QED  BY <2>1, <3>1, Zenon
  <2>4. Lane(rank, row, h + 1) = part[rank][row][h + 1]
    BY DEF Lane
  <2>5. rank \in 0 .. Rounded(TP) - 1
    BY RoundedIs, RanksAre
  <2> DEFINE lane == Lane(rank, row, h + 1)
  <2>6. lane.lse <=> Local(rank, row) # {}
    BY <1>0, <2>2, <2>4, Zenon
  <2>7. lane.read = Local(rank, row)
    BY <1>0, <2>2, <2>4, Zenon
  <2>8. <<rank, position>> \in HeadOf(row, h) <=> lane.lse /\ position \in lane.read
    BY <1>3, <2>5 DEF HeadOf
  <2> HIDE DEF lane
  <2>9. <<rank, position>> \in HeadOf(row, h) <=> position \in Local(rank, row)
    BY <2>6, <2>7, <2>8
  <2> QED  BY <1>3, <2>9 DEF Local
<1>4. CASE ~dcp
  <2> DEFINE own == h \div LOCAL_TP3_HEADS
             n == (h % LOCAL_TP3_HEADS) + 1
  <2>1. own \in {0, 1, 2} /\ n \in 1 .. 22
    <3>1. h \div 22 \in {0, 1, 2}
      BY <1>2, HeadDiv
    <3>2. (h % 22) + 1 \in 1 .. 22
      BY <1>2, HeadMod
    <3> QED  BY <1>2, <3>1, <3>2, Zenon DEF LOCAL_TP3_HEADS
  <2>2. own \in Ranks
    BY <2>1, RanksAre
  <2>3. HeadOf(row, h) = {own} \X part[own][row][n].read
    BY <1>4 DEF HeadOf
  <2> HIDE DEF own, n
  <2>4. n \in 1 .. Len(Query(own))
    <3>1. Len(Query(own)) = 22
      BY <1>4, <2>2, QueryIs
    <3> QED  BY <2>1, <3>1
  <2>5. part[own][row][n].read = Local(own, row)
    BY <1>0, <2>2, <2>4, Zenon
  <2>6. Local(own, row) = selected[row]
    BY <1>4 DEF Local
  <2> QED  BY <1>4, <2>3, <2>5, <2>6 DEF own
<1> QED
  BY <1>3, <1>4

LEMMA OwnerIsRank == ASSUME NEW position \in Positions PROVE Owner(position) \in Ranks
<1>1. position \in Nat /\ InterleaveSize \in Nat \ {0}
  BY AttentionAssumption
<1>2. position \div InterleaveSize \in Int
  BY <1>1
<1> DEFINE q == position \div InterleaveSize
<1> HIDE DEF q
<1>3. q \in Int => q % 3 \in {0, 1, 2}
  OBVIOUS
<1> QED
  BY <1>2, <1>3, RanksAre DEF Owner, q, TP

LEMMA AttendedOnce == AttentionInv => AttendsSelectedOnce
<1> SUFFICES ASSUME AttentionInv, Attended, NEW row \in Rows
             PROVE  /\ \A rank \in Ranks : \A call \in Calls(rank) : Len(call) \in SupportedHeads
                    /\ \A rank \in Ranks : \A n \in 1 .. Len(Query(rank)) :
                         part[rank][row][n].head = Query(rank)[n]
                    /\ \A h \in 0 .. SEMANTIC_HEADS - 1, position \in Entries :
                         Cardinality({rank \in Ranks : <<rank, position>> \in HeadOf(row, h)})
                           = IF position \in selected[row] THEN 1 ELSE 0
  BY DEF AttendsSelectedOnce
<1>1. ASSUME NEW rank \in Ranks, NEW call \in Calls(rank) PROVE Len(call) \in SupportedHeads
  <2>1. dcp \in BOOLEAN
    BY DEF AttentionInv
  <2>2. /\ dcp => Len(FirstHeads(rank)) = 64 /\ Len(LastHeads(rank)) = 8
        /\ ~dcp => Len(AllHeads(rank)) = 32
    BY <2>1, HeadsAre
  <2>3. \/ dcp /\ (call = FirstHeads(rank) \/ call = LastHeads(rank))
        \/ ~dcp /\ call = AllHeads(rank)
    BY <2>1 DEF Calls
  <2> QED  BY <2>2, <2>3 DEF SupportedHeads
<1>2. ASSUME NEW rank \in Ranks, NEW n \in 1 .. Len(Query(rank))
      PROVE  part[rank][row][n].head = Query(rank)[n]
  <2>1. part[rank][row] = Expected(rank, row)
    BY DEF Attended, AttentionInv
  <2> QED  BY <2>1 DEF Expected
<1>3. ASSUME NEW h \in 0 .. SEMANTIC_HEADS - 1, NEW position \in Entries
      PROVE  Cardinality({rank \in Ranks : <<rank, position>> \in HeadOf(row, h)})
               = IF position \in selected[row] THEN 1 ELSE 0
  <2> DEFINE readers == {rank \in Ranks : <<rank, position>> \in HeadOf(row, h)}
             own == IF dcp THEN Owner(position) ELSE h \div LOCAL_TP3_HEADS
  <2>1. position \in selected[row] => own \in Ranks
    <3>1. h \div LOCAL_TP3_HEADS \in {0, 1, 2}
      <4>1. h \in 0 .. 63
        BY DEF SEMANTIC_HEADS
      <4> QED  BY <4>1, HeadDiv DEF LOCAL_TP3_HEADS
    <3>2. position \in selected[row] => Owner(position) \in Ranks
      BY OwnerIsRank DEF AttentionInv, SelectedTyped
    <3> QED  BY <3>1, <3>2, RanksAre
  <2>2. \A rank \in Ranks : rank \in readers <=> position \in selected[row] /\ rank = own
    BY HeadIs
  <2> HIDE DEF own
  <2>3. CASE position \in selected[row]
    <3>1. readers = {own}
      BY <2>1, <2>2, <2>3
    <3> QED  BY <2>3, <3>1, FS_Singleton
  <2>4. CASE position \notin selected[row]
    <3>1. readers = {}
      BY <2>2, <2>4
    <3> QED  BY <2>4, <3>1, FS_EmptySet
  <2> QED  BY <2>3, <2>4
<1> QED
  BY <1>1, <1>2, <1>3

\* A head of a row attends its selected positions, each on one rank.
THEOREM SelectedOnce == Spec => []AttendsSelectedOnce
<1>1. Init => AttentionInv
  BY AttentionInitially
<1>2. AttentionInv /\ [Next]_vars => AttentionInv'
  BY AttentionStep
<1>3. AttentionInv => AttendsSelectedOnce
  BY AttendedOnce
<1> QED
  BY <1>1, <1>2, <1>3, PTL DEF Spec

-----------------------------------------------------------------------------
(* The loading                                                             *)

\* The tensors of a slice of a layer.
SliceTensors(layer, rank) == {layer} \X Experts \X Projections \X {rank}

LEMMA SliceIsFinite ==
  ASSUME NEW layer, NEW rank
  PROVE  /\ IsFiniteSet(SliceTensors(layer, rank)) /\ PerSlice \in Nat
         /\ Cardinality(SliceTensors(layer, rank)) <= PerSlice
<1> DEFINE pairs == Experts \X Projections
           f == [x \in pairs |-> <<layer, x[1], x[2], rank>>]
<1>1. IsFiniteSet(pairs) /\ Cardinality(pairs) = PerSlice
  BY MixedAssumption, LoadingAssumption, PacksAssumption, FS_Product DEF PerSlice, Count
<1>2. f \in [pairs -> SliceTensors(layer, rank)]
  BY DEF SliceTensors
<1>3. ASSUME NEW t \in SliceTensors(layer, rank) PROVE \E x \in pairs : f[x] = t
  <2>1. PICK e \in Experts, projection \in Projections : t = <<layer, e, projection, rank>>
    BY DEF SliceTensors
  <2>2. <<e, projection>> \in pairs /\ f[<<e, projection>>] = t
    BY <2>1
  <2> QED  BY <2>2
<1>4. f \in Surjection(pairs, SliceTensors(layer, rank))
  BY <1>2, <1>3 DEF Surjection
<1> HIDE DEF pairs, f
<1>5. PerSlice \in Nat
  BY <1>1, FS_CardinalityType
<1> QED
  BY <1>1, <1>4, <1>5, FS_Surjection

LEMMA TensorsAreFinite == IsFiniteSet(Tensors)
<1> DEFINE left == Layers \X Experts
           right == Projections \X Ranks
           f == [x \in left \X right |-> <<x[1][1], x[1][2], x[2][1], x[2][2]>>]
<1>1. IsFiniteSet(Ranks)
  <2>1. 0 \in Int /\ 2 \in Int /\ Ranks = 0 .. 2
    BY DEF Ranks, TP
  <2> QED  BY <2>1, FS_Interval, Zenon
<1>2. IsFiniteSet(left) /\ IsFiniteSet(right)
  BY <1>1, MixedAssumption, LoadingAssumption, PacksAssumption, FS_Product
<1>3. IsFiniteSet(left \X right)
  BY <1>2, FS_Product
<1>4. f \in [left \X right -> Tensors]
  BY DEF Tensors
<1>5. ASSUME NEW t \in Tensors PROVE \E x \in left \X right : f[x] = t
  <2>1. PICK layer \in Layers, e \in Experts, projection \in Projections, rank \in Ranks :
          t = <<layer, e, projection, rank>>
    BY DEF Tensors
  <2> DEFINE x == << <<layer, e>>, <<projection, rank>> >>
  <2>2. x \in left \X right /\ f[x] = t
    BY <2>1
  <2> QED  BY <2>2
<1>6. f \in Surjection(left \X right, Tensors)
  BY <1>4, <1>5 DEF Surjection
<1> QED
  BY <1>3, <1>6, FS_Surjection

\* What a process with outcome "loaded" holds.
Responsible(p, layer, rank) == IF placement = "pp3" THEN layer \in Stage(p) ELSE rank = p
Complete(p) == \A layer \in Served, rank \in Ranks :
  Responsible(p, layer, rank) => SliceTensors(layer, rank) \subseteq held[p]

LoadInv ==
  /\ placement \in {"tp3", "pp3", "mixed", "packed"} /\ DOMAIN held = Processes /\ DOMAIN outcome = Processes
  /\ read \in [Processes -> 0 .. Len(Order)]
  /\ ~Resident => \A p \in Processes : held[p] = {t \in ReadOf(p) : Selects(p, t)}
  /\ \A p \in Processes : outcome[p] = "loaded" => Complete(p)

LEMMA FilesAre ==
  /\ Len(Order) \in Nat
  /\ \A n \in 1 .. Len(Order) : Order[n] \in Layers \X Experts /\ File(Order[n]) \subseteq Tensors
<1>1. Len(Order) \in Nat /\ \A n \in 1 .. Len(Order) : Order[n] \in Layers \X Experts
  BY LoadingAssumption
<1>2. \A f \in Layers \X Experts : File(f) \subseteq Tensors
  BY DEF File, Tensors
<1> QED
  BY <1>1, <1>2

LEMMA ReadIsTensors ==
  ASSUME NEW p \in Processes, read \in [Processes -> 0 .. Len(Order)]
  PROVE  ReadOf(p) \subseteq Tensors
<1>1. \A n \in 1 .. read[p] : n \in 1 .. Len(Order)
  BY FilesAre
<1> QED
  BY <1>1, FilesAre DEF ReadOf

LEMMA CensusIsComplete ==
  ASSUME LoadInv, NEW p \in Processes, ~Resident, Census(p)
  PROVE  Complete(p)
<1>1. ReadOf(p) \subseteq Tensors
  BY ReadIsTensors DEF LoadInv
<1>2. held[p] = {t \in ReadOf(p) : Selects(p, t)}
  BY DEF LoadInv
<1> SUFFICES ASSUME NEW layer \in Served, NEW rank \in Ranks, Responsible(p, layer, rank)
             PROVE  SliceTensors(layer, rank) \subseteq held[p]
  BY DEF Complete
<1>3. layer \in Layers /\ layer < BaseLayers
  BY DEF Served
<1>4. \A t \in SliceTensors(layer, rank) : t \in Tensors /\ LayerOf(t) = layer /\ SliceOf(t) = rank
  BY <1>3 DEF SliceTensors, Tensors, LayerOf, SliceOf
<1>5. CASE placement = "tp3"
  <2>1. Cardinality(ReadOf(p)) = Cardinality(Tensors)
    BY <1>5 DEF Census, StreamCensus, Count
  <2>2. ReadOf(p) = Tensors
    BY <1>1, <2>1, TensorsAreFinite, FS_Subset
  <2>3. rank = p
    BY <1>5 DEF Responsible
  <2> QED  BY <1>2, <1>3, <1>4, <1>5, <2>2, <2>3 DEF Selects, OfRank
<1>6. CASE placement # "tp3"
  <2> DEFINE mine == {t \in held[p] : LayerOf(t) = layer /\ SliceOf(t) = rank}
  <2>1. placement = "pp3" => layer \in Stage(p)
    BY DEF Responsible
  <2>2. SliceCensus(p)
    BY <1>6 DEF Census
  <2>3. layer \in Stage(p)
    BY <2>1, <1>6 DEF LoadInv, Resident
  <2>4. Cardinality(mine) = PerSlice
    BY <2>2, <2>3 DEF SliceCensus, Count
  <2>5. mine \subseteq SliceTensors(layer, rank)
    <3> SUFFICES ASSUME NEW t \in mine PROVE t \in SliceTensors(layer, rank)
      OBVIOUS
    <3>1. t \in Tensors /\ t[1] = layer /\ t[4] = rank
      BY <1>1, <1>2 DEF LayerOf, SliceOf
    <3> QED  BY <3>1 DEF Tensors, SliceTensors
  <2> HIDE DEF mine
  <2>6. /\ IsFiniteSet(SliceTensors(layer, rank)) /\ PerSlice \in Nat
        /\ Cardinality(SliceTensors(layer, rank)) <= PerSlice
    BY SliceIsFinite
  <2>7. /\ Cardinality(mine) <= Cardinality(SliceTensors(layer, rank))
        /\ Cardinality(SliceTensors(layer, rank)) = Cardinality(mine) => SliceTensors(layer, rank) = mine
        /\ Cardinality(SliceTensors(layer, rank)) \in Nat
    BY <2>5, <2>6, FS_Subset, FS_CardinalityType
  <2>8. SliceTensors(layer, rank) = mine
    BY <2>4, <2>6, <2>7
  <2> QED  BY <2>8 DEF mine
<1> QED
  BY <1>5, <1>6

LEMMA LoadInitially == Init => LoadInv
<1> SUFFICES ASSUME Init PROVE LoadInv
  OBVIOUS
<1>1. /\ placement \in {"tp3", "pp3", "mixed", "packed"} /\ read = [p \in Processes |-> 0]
      /\ held = [p \in Processes |-> {}] /\ outcome = [p \in Processes |-> "loading"]
  BY DEF Init, InitLoad
<1>2. \A p \in Processes : ReadOf(p) = {}
  BY <1>1 DEF ReadOf
<1>3. read \in [Processes -> 0 .. Len(Order)]
  BY <1>1, FilesAre
<1> QED
  BY <1>1, <1>2, <1>3 DEF LoadInv

\* A process that holds more is still complete.
LEMMA CompleteStays ==
  ASSUME placement' = placement, NEW p \in Processes, held[p] \subseteq held'[p], Complete(p)
  PROVE  Complete(p)'
BY DEF Complete, Responsible, SliceTensors, Served, Stage

LEMMA LoadFileStep == ASSUME LoadInv, NEW p \in Processes, LoadFile(p) PROVE LoadInv'
<1> DEFINE f == File(Order[read[p] + 1])
<1>1. /\ placement' = placement /\ missing' = missing /\ outcome' = outcome /\ ~Resident
      /\ read[p] < Len(Order) /\ outcome[p] = "loading"
      /\ read' = [read EXCEPT ![p] = read[p] + 1]
      /\ held' = [held EXCEPT ![p] = held[p] \cup {t \in f : Selects(p, t)}]
  BY DEF LoadFile
<1>2. read \in [Processes -> 0 .. Len(Order)] /\ Len(Order) \in Nat /\ DOMAIN held = Processes
  BY FilesAre DEF LoadInv
<1>3. read' \in [Processes -> 0 .. Len(Order)] /\ DOMAIN held' = Processes
  BY <1>1, <1>2
<1>4. \A q \in Processes : \A t : Selects(q, t)' = Selects(q, t)
  BY <1>1 DEF Selects, Stage, OfRank
<1>5. \A g : File(g)' = File(g)
  BY <1>1 DEF File
<1> HIDE DEF f
<1>6. ASSUME NEW q \in Processes PROVE held'[q] = {t \in ReadOf(q)' : Selects(q, t)'}
  <2>1. held[q] = {t \in ReadOf(q) : Selects(q, t)}
    BY <1>1 DEF LoadInv
  <2>2. CASE q = p
    <3>1. read'[p] = read[p] + 1 /\ read[p] \in Nat
      BY <1>1, <1>2
    <3>2. 1 .. read[p] + 1 = (1 .. read[p]) \cup {read[p] + 1}
      BY <3>1
    <3>3. ReadOf(p)' = UNION {File(Order[n]) : n \in 1 .. read[p] + 1}
      BY <1>5, <3>1 DEF ReadOf
    <3>4. ReadOf(p)' = ReadOf(p) \cup f
      BY <3>2, <3>3 DEF ReadOf, f
    <3>5. held'[p] = held[p] \cup {t \in f : Selects(p, t)}
      BY <1>1, <1>2
    <3> QED  BY <1>4, <2>1, <2>2, <3>4, <3>5
  <2>3. CASE q # p
    <3>1. held'[q] = held[q] /\ read'[q] = read[q]
      BY <1>1, <1>2, <2>3
    <3>2. ReadOf(q)' = ReadOf(q)
      BY <1>5, <3>1 DEF ReadOf
    <3> QED  BY <1>4, <2>1, <3>1, <3>2
  <2> QED  BY <2>2, <2>3
<1>7. ASSUME NEW q \in Processes, outcome'[q] = "loaded" PROVE Complete(q)'
  <2>1. held[q] \subseteq held'[q] /\ Complete(q)
    BY <1>1, <1>2, <1>7 DEF LoadInv
  <2> QED  BY <1>1, <2>1, CompleteStays
<1> QED
  BY <1>1, <1>3, <1>6, <1>7 DEF LoadInv

\* A step that leaves placement, missing, read and held alone.
LEMMA ReadStays ==
  ASSUME LoadInv, UNCHANGED <<placement, missing, read, held>>, NEW q \in Processes
  PROVE  /\ ~Resident => held'[q] = {t \in ReadOf(q)' : Selects(q, t)'}
         /\ Complete(q) => Complete(q)'
<1>1. \A t : Selects(q, t)' = Selects(q, t)
  BY DEF Selects, Stage, OfRank
<1>2. ReadOf(q)' = ReadOf(q)
  BY DEF ReadOf, File
<1>3. Complete(q) => Complete(q)'
  BY CompleteStays
<1> QED
  BY <1>1, <1>2, <1>3 DEF LoadInv

LEMMA FinishStreamStep == ASSUME LoadInv, NEW p \in Processes, FinishStream(p) PROVE LoadInv'
<1>1. /\ UNCHANGED <<placement, missing, read, held>> /\ ~Resident
      /\ outcome' = [outcome EXCEPT ![p] = IF Census(p) THEN "loaded" ELSE "raised"]
  BY DEF FinishStream
<1>2. ASSUME NEW q \in Processes, outcome'[q] = "loaded" PROVE Complete(q)'
  <2>1. CASE q = p
    <3>1. Census(p)
      BY <1>1, <1>2, <2>1 DEF LoadInv
    <3> QED  BY <1>1, <2>1, <3>1, CensusIsComplete, ReadStays
  <2>2. CASE q # p
    BY <1>1, <1>2, <2>2, ReadStays DEF LoadInv
  <2> QED  BY <2>1, <2>2
<1>3. \A q \in Processes : held'[q] = {t \in ReadOf(q)' : Selects(q, t)'}
  BY <1>1, ReadStays
<1> QED
  BY <1>1, <1>2, <1>3 DEF LoadInv

LEMMA FillResidentStep == ASSUME LoadInv, NEW p \in Processes, FillResident(p) PROVE LoadInv'
<1>1. /\ UNCHANGED <<placement, missing, read>> /\ Resident /\ outcome[p] = "loading"
      /\ \/ /\ outcome' = outcome
            /\ \E layer : held' = [held EXCEPT ![p] = held[p] \cup Wanted(p, layer)]
         \/ held' = held /\ outcome' = [outcome EXCEPT ![p] = "raised"]
  BY DEF FillResident
<1>2. DOMAIN held' = Processes /\ DOMAIN outcome' = Processes
  BY <1>1 DEF LoadInv
<1>3. ASSUME NEW q \in Processes, outcome'[q] = "loaded" PROVE Complete(q)'
  <2>1. outcome[q] = "loaded"
    BY <1>1, <1>3 DEF LoadInv
  <2>2. held[q] \subseteq held'[q]
    BY <1>1 DEF LoadInv
  <2>3. Complete(q)
    BY <2>1 DEF LoadInv
  <2> QED  BY <1>1, <2>2, <2>3, CompleteStays
<1> QED
  BY <1>1, <1>2, <1>3 DEF LoadInv, Resident

LEMMA FinishFillStep == ASSUME LoadInv, NEW p \in Processes, FinishFill(p) PROVE LoadInv'
<1>1. /\ UNCHANGED <<placement, missing, read, held>> /\ Resident /\ Unfilled(p) = {}
      /\ outcome' = [outcome EXCEPT ![p] = "loaded"]
  BY DEF FinishFill
<1>2. Complete(p)
  <2>1. \A layer \in Served : Wanted(p, layer) \subseteq held[p]
    BY <1>1 DEF Unfilled
  <2>2. \A layer, rank : Responsible(p, layer, rank) => SliceTensors(layer, rank) = Wanted(p, layer)
    BY <1>1 DEF Resident, Responsible, SliceTensors, Wanted
  <2> QED  BY <2>1, <2>2 DEF Complete
<1>3. ASSUME NEW q \in Processes, outcome'[q] = "loaded" PROVE Complete(q)'
  <2>1. CASE q = p
    BY <1>1, <1>2, <2>1, ReadStays
  <2>2. CASE q # p
    BY <1>1, <1>3, <2>2, ReadStays DEF LoadInv
  <2> QED  BY <2>1, <2>2
<1> QED
  BY <1>1, <1>3 DEF LoadInv, Resident

LEMMA RelaunchStep == ASSUME LoadInv, Relaunch PROVE LoadInv'
<1>1. /\ UNCHANGED <<placement, missing, read>> /\ Resident
      /\ held' = [p \in Processes |-> {}] /\ outcome' = [p \in Processes |-> "loading"]
  BY DEF Relaunch, Resident
<1> QED
  BY <1>1 DEF LoadInv, Resident

LEMMA LoadStep == LoadInv /\ [Next]_vars => LoadInv'
<1> SUFFICES ASSUME LoadInv, [Next]_vars PROVE LoadInv'
  OBVIOUS
<1>1. ASSUME UNCHANGED loadVars PROVE LoadInv'
  <2>1. UNCHANGED <<placement, missing, read, held>> /\ outcome' = outcome
    BY <1>1 DEF loadVars
  <2>2. \A q \in Processes : outcome'[q] = "loaded" => Complete(q)'
    BY <2>1, ReadStays DEF LoadInv
  <2>3. ~Resident => \A q \in Processes : held'[q] = {t \in ReadOf(q)' : Selects(q, t)'}
    BY <2>1, ReadStays
  <2> QED  BY <2>1, <2>2, <2>3 DEF LoadInv, Resident
<1>0. CASE Building
  BY <1>0, <1>1 DEF Building, Pack, PackStep, BuildLayer, WriteReceipt, FinishPacks, KillBuild, RestartBuild,
                    loadVars
<1>2. CASE Loading
  BY <1>2, LoadFileStep, FinishStreamStep, FillResidentStep, FinishFillStep, RelaunchStep DEF Loading, Load
<1>3. CASE Attending
  BY <1>1, <1>3 DEF Attending
<1>4. CASE UNCHANGED vars
  BY <1>1, <1>4 DEF vars
<1> QED
  BY <1>0, <1>2, <1>3, <1>4 DEF Next

\* A served layer is in the range of exactly one pipeline stage.
LEMMA StagesArePartition ==
  ASSUME NEW layer \in Served
  PROVE  \E p \in Processes : \A q \in Processes : layer \in Stage(q) <=> q = p
<1> DEFINE base == BaseLayers \div 3
           extra == BaseLayers % 3
<1>1. layer \in Nat /\ BaseLayers \in Nat /\ layer < BaseLayers
  BY LoadingAssumption, PacksAssumption DEF Served, ROUTED_LAYERS, MTP_LAYER
<1>2. base \in Nat /\ extra \in {0, 1, 2} /\ BaseLayers = 3 * base + extra
  BY <1>1
<1>3. \A q \in Processes : q \in {0, 1, 2}
  BY RanksAre DEF Processes
<1>4. \A q \in {0, 1, 2} : Stage(q) =
        q * base + (IF q < extra THEN q ELSE extra) ..
          q * base + (IF q < extra THEN q ELSE extra) + base - (IF q < extra THEN 0 ELSE 1)
  BY DEF Stage, TP
<1> HIDE DEF base, extra
<1> DEFINE a == base + (IF 0 < extra THEN 1 ELSE 0)
           b == a + base + (IF 1 < extra THEN 1 ELSE 0)
<1>5. layer \in Stage(0) <=> layer < a
  BY <1>1, <1>2, <1>4
<1>6. layer \in Stage(1) <=> a <= layer /\ layer < b
  BY <1>1, <1>2, <1>4
<1>7. layer \in Stage(2) <=> b <= layer
  BY <1>1, <1>2, <1>4
<1>8. a \in Nat /\ b \in Nat /\ a <= b
  BY <1>2
<1> HIDE DEF a, b
<1>9. CASE layer < a
  <2>1. \A q \in {0, 1, 2} : layer \in Stage(q) <=> q = 0
    BY <1>1, <1>5, <1>6, <1>7, <1>8, <1>9
  <2> QED  BY <2>1, RanksAre DEF Processes
<1>10. CASE a <= layer /\ layer < b
  <2>1. \A q \in {0, 1, 2} : layer \in Stage(q) <=> q = 1
    BY <1>1, <1>5, <1>6, <1>7, <1>8, <1>10
  <2> QED  BY <2>1, RanksAre DEF Processes
<1>11. CASE b <= layer
  <2>1. \A q \in {0, 1, 2} : layer \in Stage(q) <=> q = 2
    BY <1>1, <1>5, <1>6, <1>7, <1>8, <1>11
  <2> QED  BY <2>1, RanksAre DEF Processes
<1> QED
  BY <1>1, <1>8, <1>9, <1>10, <1>11

\* The slices of an expert that a complete process can add, and no others.
LEMMA WholeIs ==
  ASSUME LoadInv, AllLoaded, NEW p \in Processes, NEW layer \in Served, NEW e \in Experts, NEW rank \in Ranks
  PROVE  /\ Responsible(p, layer, rank) => Whole(p, layer, e, rank)
         /\ placement = "pp3" => (Whole(p, layer, e, rank) <=> layer \in Stage(p))
<1>1. Complete(p)
  BY DEF LoadInv, AllLoaded
<1>2. Responsible(p, layer, rank) => Whole(p, layer, e, rank)
  BY <1>1 DEF Complete, SliceTensors, Whole
<1>3. ASSUME placement = "pp3", Whole(p, layer, e, rank) PROVE layer \in Stage(p)
  <2>1. PICK projection \in Projections : <<layer, e, projection, rank>> \in held[p]
    BY <1>3, LoadingAssumption, PacksAssumption DEF Whole
  <2>2. Selects(p, <<layer, e, projection, rank>>)
    BY <1>3, <2>1 DEF LoadInv, Resident
  <2> QED  BY <1>3, <2>2 DEF Selects, LayerOf
<1> QED
  BY <1>2, <1>3 DEF Responsible

\* The properties of EachChannelOnce, for every channel.
LEMMA AddsOnce ==
  ASSUME LoadInv, AllLoaded, NEW layer \in Served, NEW e \in Experts,
         NEW channel \in 0 .. SEMANTIC_INTERMEDIATE - 1
  PROVE  \E p \in Processes, rank \in Ranks : Adds(layer, e, channel) = {<<p, rank, e>>}
<1>1. layer \in ROUTED_LAYERS
  BY LoadingAssumption, PacksAssumption DEF Served
<1>2. PICK rank \in Ranks : \A other \in Ranks : channel \in Slice(layer, other) <=> other = rank
  BY <1>1, ChannelsArePartitioned
<1>3. Computed(e) = {e}
  BY ComputedIsExpert
<1>4. CASE placement = "pp3"
  <2>1. PICK p \in Processes : \A q \in Processes : layer \in Stage(q) <=> q = p
    BY StagesArePartition
  <2>2. \A q, other : Channels(q, layer, other) = Slice(layer, other)
    BY <1>4 DEF Channels, RunnerChannels
  <2>3. \A q \in Processes, other \in Ranks : Whole(q, layer, e, other) <=> q = p
    BY <1>4, <2>1, WholeIs
  <2>4. Adds(layer, e, channel) = {<<p, rank, e>>}
    BY <1>2, <1>3, <2>2, <2>3 DEF Adds
  <2> QED  BY <2>4
<1>5. CASE placement # "pp3"
  <2>1. \A q \in Processes, other \in Ranks :
          channel \in Channels(q, layer, other) <=> q = rank /\ other = rank
    BY <1>2, <1>5 DEF Channels, RankChannels
  <2>2. Whole(rank, layer, e, rank) /\ rank \in Processes
    BY <1>5, WholeIs DEF Responsible, Processes
  <2>3. Adds(layer, e, channel) = {<<rank, rank, e>>}
    BY <1>3, <2>1, <2>2 DEF Adds
  <2> QED  BY <2>2, <2>3
<1> QED
  BY <1>4, <1>5

LEMMA SharedOnce ==
  ASSUME NEW layer \in Served, NEW channel \in 0 .. SEMANTIC_INTERMEDIATE - 1
  PROVE  Cardinality(SharedAdds(layer, channel)) = 1
<1>1. CASE placement = "pp3"
  <2>1. PICK p \in Processes : \A q \in Processes : layer \in Stage(q) <=> q = p
    BY StagesArePartition
  <2>2. SharedAdds(layer, channel) = {<<p, 0>>}
    BY <1>1, <2>1 DEF SharedAdds
  <2> QED  BY <2>2, FS_Singleton
<1>2. CASE placement # "pp3"
  <2> DEFINE own == channel \div 768
  <2>1. own \in {0, 1, 2} /\ channel \in Nat /\ \A p \in {0, 1, 2} : channel \in p * 768 .. (p + 1) * 768 - 1 <=> p = own
    BY DEF SEMANTIC_INTERMEDIATE
  <2> HIDE DEF own
  <2>2. SharedAdds(layer, channel) = {c \in {0, 1, 2} \X {0} : channel \in c[1] * 768 .. (c[1] + 1) * 768 - 1}
    BY <1>2, RanksAre DEF SharedAdds, SHARED_PADDED, TP, Processes
  <2>3. SharedAdds(layer, channel) = {<<own, 0>>}
    BY <2>1, <2>2
  <2> QED  BY <2>3, FS_Singleton
<1> QED
  BY <1>1, <1>2

\* Every channel of every expert of a served layer is added exactly once.
EveryChannelOnce ==
  AllLoaded => \A layer \in Served, channel \in 0 .. SEMANTIC_INTERMEDIATE - 1 :
    /\ \A e \in Experts : \E p \in Processes, rank \in Ranks : Adds(layer, e, channel) = {<<p, rank, e>>}
    /\ Cardinality(SharedAdds(layer, channel)) = 1

\* The sums of a served layer miss no channel and count none twice, under every placement.
THEOREM EveryOnce == Spec => []EveryChannelOnce
<1>1. LoadInv => EveryChannelOnce
  BY AddsOnce, SharedOnce DEF EveryChannelOnce
<1> QED
  BY <1>1, LoadInitially, LoadStep, PTL DEF Spec

\* The same of the channels at the slices' ends.
THEOREM ChannelsOnce == Spec => []EachChannelOnce
<1>1. Boundaries \subseteq 0 .. SEMANTIC_INTERMEDIATE - 1
  BY DEF Boundaries, SEMANTIC_INTERMEDIATE
<1>2. EveryChannelOnce => EachChannelOnce
  BY <1>1 DEF EveryChannelOnce, EachChannelOnce
<1> QED
  BY <1>2, EveryOnce, PTL

-----------------------------------------------------------------------------
(* The packs                                                               *)

\* A layer with a receipt is packed as a whole, and so is the layer whose receipt
\* is next; a build that ended has all receipts.
Packed(p, layer) == Wanted(p, layer) \subseteq pack[p]
PackInv ==
  /\ DOMAIN builder = Ranks /\ DOMAIN pack = Ranks /\ DOMAIN receipts = Ranks
  /\ \A p \in Ranks :
       /\ \A layer \in receipts[p] : Packed(p, layer)
       /\ builder[p] = "receipt" => \A layer \in Layers : Due(p, layer) => Packed(p, layer)
       /\ builder[p] = "complete" => receipts[p] = Layers

LEMMA PackInitially == Init => PackInv
BY DEF Init, InitLoad, InitPacks, PackInv

\* A step of a rank's build that only adds to its packs.
LEMMA PackKept ==
  ASSUME PackInv, NEW p \in Ranks, NEW q \in Ranks, q # p,
         \A r \in Ranks \ {p} : builder'[r] = builder[r] /\ pack'[r] = pack[r] /\ receipts'[r] = receipts[r]
  PROVE  /\ \A layer \in receipts'[q] : Packed(q, layer)'
         /\ builder'[q] = "receipt" => \A layer \in Layers : Due(q, layer)' => Packed(q, layer)'
         /\ builder'[q] = "complete" => receipts'[q] = Layers
BY DEF PackInv, Packed, Wanted, Due

LEMMA PackStepKeeps == ASSUME PackInv, NEW p \in Ranks, PackStep(p) \/ KillBuild(p) PROVE PackInv'
<1> DEFINE Holds == /\ \A layer \in receipts'[p] : Packed(p, layer)'
                    /\ builder'[p] = "receipt" => \A layer \in Layers : Due(p, layer)' => Packed(p, layer)'
                    /\ builder'[p] = "complete" => receipts'[p] = Layers
<1>0. SUFFICES /\ Holds
               /\ DOMAIN builder' = Ranks /\ DOMAIN pack' = Ranks /\ DOMAIN receipts' = Ranks
               /\ \A r \in Ranks \ {p} :
                    builder'[r] = builder[r] /\ pack'[r] = pack[r] /\ receipts'[r] = receipts[r]
  BY PackKept DEF PackInv
<1> USE DEF PackInv
<1>1. CASE BuildLayer(p)
  <2>1. PICK layer \in Layers :
          /\ Due(p, layer)
          /\ IF Wanted(p, layer) \cap pack[p] # {} \/ missing \in Wanted(p, layer)
               THEN builder' = [builder EXCEPT ![p] = "failed"] /\ UNCHANGED pack
               ELSE /\ builder' = [builder EXCEPT ![p] = "receipt"]
                    /\ pack' = [pack EXCEPT ![p] = @ \cup Wanted(p, layer)]
    BY <1>1 DEF BuildLayer
  <2>2. receipts' = receipts
    BY <1>1 DEF BuildLayer
  <2>3. CASE builder' = [builder EXCEPT ![p] = "failed"] /\ pack' = pack
    BY <2>2, <2>3 DEF Packed, Wanted
  <2>4. CASE builder' = [builder EXCEPT ![p] = "receipt"] /\ pack' = [pack EXCEPT ![p] = @ \cup Wanted(p, layer)]
    <3>1. \A other \in Layers : Due(p, other)' => other = layer
      <4>1. layer \in Nat /\ Layers \subseteq Nat
        BY PacksAssumption DEF ROUTED_LAYERS, MTP_LAYER
      <4>2. layer \in Layers \ receipts[p] /\ \A x \in Layers \ receipts[p] : layer <= x
        BY <2>1 DEF Due
      <4>3. ASSUME NEW other \in Layers, Due(p, other)'  PROVE other = layer
        <5>1. other \in Layers \ receipts[p] /\ \A x \in Layers \ receipts[p] : other <= x
          BY <4>3, <2>2 DEF Due
        <5>2. other <= layer /\ layer <= other
          BY <4>2, <5>1
        <5> QED  BY <5>2, <4>1
      <4> QED  BY <4>3
    <3>2. pack'[p] = pack[p] \cup Wanted(p, layer)
      BY <2>4
    <3>3. Packed(p, layer)' /\ \A other \in receipts'[p] : Packed(p, other)'
      BY <2>2, <3>2 DEF Packed, Wanted
    <3> QED  BY <2>2, <2>4, <3>1, <3>3
  <2> QED  BY <2>1, <2>3, <2>4
<1>2. CASE WriteReceipt(p)
  <2>1. PICK layer \in Layers : Due(p, layer) /\ receipts' = [receipts EXCEPT ![p] = @ \cup {layer}]
    BY <1>2 DEF WriteReceipt
  <2>2. builder[p] = "receipt" /\ builder' = [builder EXCEPT ![p] = "building"] /\ pack' = pack
    BY <1>2 DEF WriteReceipt
  <2> QED  BY <2>1, <2>2 DEF Packed, Wanted
<1>3. CASE FinishPacks(p)
  BY <1>3 DEF FinishPacks, Packed, Wanted
<1>4. CASE KillBuild(p) \/ RestartBuild(p)
  BY <1>4 DEF KillBuild, RestartBuild, Packed, Wanted
<1> QED
  BY <1>1, <1>2, <1>3, <1>4 DEF PackStep

LEMMA PacksStep == PackInv /\ [Next]_vars => PackInv'
<1> SUFFICES ASSUME PackInv, [Next]_vars PROVE PackInv'
  OBVIOUS
<1>1. CASE Building
  BY <1>1, PackStepKeeps DEF Building, Pack
<1>2. CASE Loading \/ Attending \/ UNCHANGED vars
  <2>1. UNCHANGED <<builder, pack, receipts>>
    BY <1>2 DEF Loading, Attending, vars, packVars
  <2> QED  BY <2>1 DEF PackInv, Packed, Wanted, Due
<1> QED
  BY <1>1, <1>2 DEF Next

\* COMPLETE.json is true: the packs of its rank hold every tensor of every layer.
PacksAreWhole ==
  \A p \in Ranks : builder[p] = "complete" => \A layer \in Layers : Wanted(p, layer) \subseteq pack[p]

\* A build that says it is complete has packed what its ranks want, over any kills.
THEOREM PacksWhole == Spec => []PacksAreWhole
<1>1. PackInv => PacksAreWhole
  BY DEF PackInv, Packed, PacksAreWhole
<1> QED
  BY <1>1, PackInitially, PacksStep, PTL DEF Spec

-----------------------------------------------------------------------------
(* The campaign: first, what normalize_scheduler_singletons makes of parts *)

\* Induction up to N: a set that holds 0, and the successor of each of its members below
\* N, holds N.  Else it would have no more members than it has above 0.
LEMMA Inductive ==
  ASSUME NEW N \in Nat, NEW S, S \subseteq 0 .. N, 0 \in S, \A n \in S : n < N => n + 1 \in S
  PROVE  N \in S
<1>1. SUFFICES ASSUME N \notin S PROVE FALSE
  OBVIOUS
<1> DEFINE T == S \ {0}
           f == [n \in S |-> n + 1]
<1>2. f \in [S -> T]
  <2>1. ASSUME NEW n \in S PROVE n + 1 \in T
    <3>1. n \in Int /\ 0 <= n /\ n <= N /\ n # N
      BY <1>1
    <3>2. n < N /\ n + 1 # 0
      BY <3>1
    <3> QED  BY <3>2
  <2> QED  BY <2>1
<1>3. IsFiniteSet(S)
  <2>1. IsFiniteSet(0 .. N)
    BY FS_Interval
  <2> QED  BY <2>1, FS_Subset
<1>4. IsFiniteSet(T) /\ Cardinality(T) < Cardinality(S)
  <2>1. Cardinality(S) \in Nat
    BY <1>3, FS_CardinalityType
  <2>2. IsFiniteSet(T) /\ Cardinality(T) = Cardinality(S) - 1
    BY <1>3, FS_RemoveElement
  <2> QED  BY <2>1, <2>2
<1>5. \E x, y \in S : x # y /\ f[x] = f[y]
  <2> HIDE DEF f, T
  <2> QED  BY <1>2, <1>3, <1>4, FS_PigeonHole
<1>6. PICK x \in S, y \in S : x # y /\ f[x] = f[y]
  BY <1>5
<1>7. x \in Int /\ y \in Int /\ x + 1 = y + 1
  BY <1>6
<1> QED  BY <1>6, <1>7

\* f[n] is what the first n parts are normalized to, for n up to N.
Joined(before, piece) == IF Len(piece) > 1 THEN before \o piece ELSE before
Normalizes(f, parts, N) ==
  f = [n \in 0 .. N |-> IF n = 0 THEN <<>>
                        ELSE IF Len(parts[n]) > 1 THEN f[n - 1] \o parts[n] ELSE f[n - 1]]

LEMMA NormalizesSteps ==
  ASSUME NEW N \in Nat, NEW f, NEW parts, Normalizes(f, parts, N)
  PROVE  /\ f[0] = <<>>
         /\ \A n \in 0 .. N : n < N => f[n + 1] = Joined(f[n], parts[n + 1])
<1>1. f[0] = <<>>
  <2>1. 0 \in 0 .. N
    OBVIOUS
  <2> QED  BY <2>1 DEF Normalizes
<1>2. ASSUME NEW n \in 0 .. N, n < N PROVE f[n + 1] = Joined(f[n], parts[n + 1])
  <2> DEFINE m == n + 1
  <2>1. m \in 0 .. N /\ m # 0 /\ m - 1 = n
    BY <1>2
  <2>2. f[m] = IF Len(parts[m]) > 1 THEN f[m - 1] \o parts[m] ELSE f[m - 1]
    <3> HIDE DEF m
    <3> QED  BY <2>1 DEF Normalizes
  <2> QED  BY <2>1, <2>2 DEF Joined
<1> QED  BY <1>1, <1>2

LEMMA NormalizedExist ==
  ASSUME NEW R, NEW parts \in Seq(Seq(R))
  PROVE  \E f \in [0 .. Len(parts) -> Seq(R)] : Normalizes(f, parts, Len(parts))
<1> DEFINE L == Len(parts)
           Has(n) == \E f \in [0 .. n -> Seq(R)] : Normalizes(f, parts, n)
           S == {n \in 0 .. L : Has(n)}
<1>0. L \in Nat
  OBVIOUS
<1>1. Has(0)
  <2> DEFINE f == [n \in 0 .. 0 |-> <<>>]
  <2>1. f \in [0 .. 0 -> Seq(R)]
    OBVIOUS
  <2>2. Normalizes(f, parts, 0)
    BY DEF Normalizes
  <2> QED  BY <2>1, <2>2
<1>2. ASSUME NEW n \in S, n < L PROVE Has(n + 1)
  <2> HIDE DEF L
  <2>0. n \in Nat
    BY <1>0
  <2>1. PICK f \in [0 .. n -> Seq(R)] : Normalizes(f, parts, n)
    OBVIOUS
  <2> DEFINE m == n + 1
             top == Joined(f[n], parts[m])
             g == [k \in 0 .. m |-> IF k = m THEN top ELSE f[k]]
  <2>2. m \in 1 .. L /\ m - 1 = n /\ m # 0
    BY <1>0, <1>2, <2>0
  <2>3. parts[m] \in Seq(R)
    BY <2>2 DEF L
  <2>4. f[n] \in Seq(R)
    BY <2>0
  <2>5. top \in Seq(R)
    BY <2>3, <2>4 DEF Joined
  <2>6. g \in [0 .. m -> Seq(R)]
    <3> HIDE DEF top
    <3>1. ASSUME NEW k \in 0 .. m PROVE (IF k = m THEN top ELSE f[k]) \in Seq(R)
      <4>1. CASE k = m
        BY <2>5, <4>1
      <4>2. CASE k # m
        <5>1. k \in 0 .. n
          BY <2>0, <3>1, <4>2
        <5> QED  BY <4>2, <5>1
      <4> QED  BY <4>1, <4>2
    <3> HIDE DEF m
    <3> QED  BY <3>1
  <2>7. Normalizes(g, parts, m)
    <3>1. ASSUME NEW k \in 0 .. m
          PROVE  g[k] = IF k = 0 THEN <<>>
                        ELSE IF Len(parts[k]) > 1 THEN g[k - 1] \o parts[k] ELSE g[k - 1]
      <4>1. CASE k = m
        <5>1. g[k] = top /\ k # 0
          BY <2>2, <4>1
        <5>2. g[k - 1] = f[n]
          <6>1. k - 1 = n /\ n \in 0 .. m /\ n # m
            BY <2>0, <2>2, <4>1
          <6> QED  BY <6>1
        <5> HIDE DEF g
        <5> QED  BY <4>1, <5>1, <5>2 DEF Joined
      <4>2. CASE k # m
        <5>1. k \in 0 .. n
          BY <2>0, <3>1, <4>2
        <5>2. g[k] = f[k]
          BY <4>2
        <5>3. k # 0 => k - 1 \in 0 .. m /\ k - 1 # m
          BY <2>0, <5>1
        <5>4. k # 0 => g[k - 1] = f[k - 1]
          BY <5>3
        <5>5. f[k] = IF k = 0 THEN <<>>
                     ELSE IF Len(parts[k]) > 1 THEN f[k - 1] \o parts[k] ELSE f[k - 1]
          BY <2>1, <5>1 DEF Normalizes
        <5> HIDE DEF g
        <5> QED  BY <5>2, <5>4, <5>5
      <4> QED  BY <4>1, <4>2
    <3>2. DOMAIN g = 0 .. m /\ g = [k \in 0 .. m |-> g[k]]
      OBVIOUS
    <3> HIDE DEF g, m
    <3> QED  BY <3>1, <3>2 DEF Normalizes
  <2> HIDE DEF g
  <2> QED  BY <2>6, <2>7
<1>3. 0 \in S /\ \A n \in S : n < L => n + 1 \in S
  <2> HIDE DEF L, Has
  <2>1. 0 \in S
    BY <1>0, <1>1
  <2>2. ASSUME NEW n \in S, n < L PROVE n + 1 \in S
    <3>1. n + 1 \in 0 .. L
      BY <1>0, <2>2
    <3> QED  BY <1>2, <2>2, <3>1
  <2> QED  BY <2>1, <2>2
<1>4. L \in S
  <2>1. S \subseteq 0 .. L
    OBVIOUS
  <2> HIDE DEF S, L
  <2> QED  BY <1>0, <1>3, <2>1, Inductive
<1> QED  BY <1>4

Agree(parts, others, K) == \A n \in 1 .. K : parts[n] = others[n]

LEMMA NormalizedUnique ==
  ASSUME NEW N \in Nat, NEW M \in Nat, NEW K \in Nat, K <= N, K <= M, NEW f, NEW g,
         NEW parts, NEW others, Normalizes(f, parts, N), Normalizes(g, others, M),
         Agree(parts, others, K)
  PROVE  f[K] = g[K]
<1> DEFINE S == {n \in 0 .. K : f[n] = g[n]}
<1>1. 0 \in S
  BY NormalizesSteps
<1>2. ASSUME NEW n \in S, n < K PROVE n + 1 \in S
  <2>1. n \in 0 .. N /\ n < N /\ n \in 0 .. M /\ n < M /\ n + 1 \in 1 .. K
    BY <1>2
  <2>2. f[n + 1] = Joined(f[n], parts[n + 1]) /\ g[n + 1] = Joined(g[n], others[n + 1])
    BY <2>1, NormalizesSteps
  <2>3. parts[n + 1] = others[n + 1]
    BY <2>1 DEF Agree
  <2> QED  BY <2>1, <2>2, <2>3
<1>3. S \subseteq 0 .. K
  OBVIOUS
<1>4. K \in S
  <2> HIDE DEF S
  <2> QED  BY <1>1, <1>2, <1>3, Inductive
<1> QED  BY <1>4

LEMMA NormalizedIs ==
  ASSUME NEW R, NEW parts \in Seq(Seq(R)), NEW f, Normalizes(f, parts, Len(parts))
  PROVE  Normalized(parts) = f[Len(parts)]
<1> DEFINE g == CHOOSE g : Normalizes(g, parts, Len(parts))
<1>1. Normalized(parts) = g[Len(parts)]
  BY DEF Normalized, Normalizes
<1>2. Normalizes(g, parts, Len(parts))
  OBVIOUS
<1>3. Len(parts) \in Nat
  OBVIOUS
<1>5. Agree(parts, parts, Len(parts))
  BY DEF Agree
<1> HIDE DEF g
<1>4. g[Len(parts)] = f[Len(parts)]
  BY <1>2, <1>3, <1>5, NormalizedUnique
<1> QED  BY <1>1, <1>4

\* What normalization does to no part, and to one more part.
LEMMA NormalizedEmpty == Normalized(<<>>) = <<>>
<1>1. <<>> \in Seq(Seq({})) /\ Len(<<>>) = 0
  OBVIOUS
<1>2. PICK f \in [0 .. Len(<<>>) -> Seq({})] : Normalizes(f, <<>>, Len(<<>>))
  BY <1>1, NormalizedExist
<1>3. f[0] = <<>>
  BY <1>1, <1>2, NormalizesSteps
<1> QED  BY <1>1, <1>2, <1>3, NormalizedIs

LEMMA NormalizedPrefix ==
  ASSUME NEW L \in Nat, NEW f, NEW g, NEW parts, NEW more,
         Normalizes(f, parts, L), Normalizes(g, more, L + 1), Agree(parts, more, L)
  PROVE  f[L] = g[L] /\ g[L + 1] = Joined(f[L], more[L + 1])
<1> DEFINE M == L + 1
<1>1. M \in Nat /\ L <= M /\ L <= L /\ L \in 0 .. M /\ L < M
  OBVIOUS
<1>2. Normalizes(g, more, M)
  OBVIOUS
<1> HIDE DEF M
<1>3. f[L] = g[L]
  BY <1>1, <1>2, NormalizedUnique
<1>4. g[L + 1] = Joined(g[L], more[L + 1])
  BY <1>1, <1>2, NormalizesSteps
<1> QED  BY <1>3, <1>4

LEMMA NormalizedAppend ==
  ASSUME NEW R, NEW parts \in Seq(Seq(R)), NEW piece \in Seq(R)
  PROVE  /\ Append(parts, piece) \in Seq(Seq(R))
         /\ Normalized(parts) \in Seq(R) /\ Normalized(Append(parts, piece)) \in Seq(R)
         /\ Normalized(Append(parts, piece)) = Joined(Normalized(parts), piece)
<1> DEFINE L == Len(parts)
           more == Append(parts, piece)
<1>1. more \in Seq(Seq(R)) /\ Len(more) = L + 1 /\ L \in Nat
  OBVIOUS
<1>2. more[L + 1] = piece /\ Agree(parts, more, L)
  BY DEF Agree
<1>3. PICK f : f \in [0 .. L -> Seq(R)] /\ Normalizes(f, parts, L)
  BY NormalizedExist
<1> HIDE DEF more
<1>4. PICK g : g \in [0 .. Len(more) -> Seq(R)] /\ Normalizes(g, more, Len(more))
  BY <1>1, NormalizedExist
<1>5. Normalized(parts) = f[L] /\ Normalized(more) = g[Len(more)]
  BY <1>1, <1>3, <1>4, NormalizedIs
<1> HIDE DEF L
<1>6. f[L] \in Seq(R) /\ g[L + 1] \in Seq(R)
  BY <1>1, <1>3, <1>4
<1>7. Normalizes(f, parts, L) /\ Normalizes(g, more, L + 1)
  BY <1>1, <1>3, <1>4
<1>8. f[L] = g[L] /\ g[L + 1] = Joined(f[L], more[L + 1])
  BY <1>1, <1>2, <1>7, NormalizedPrefix
<1> QED  BY <1>1, <1>2, <1>5, <1>6, <1>8 DEF more
-----------------------------------------------------------------------------
(* Types *)

Capturing == {"window", "arm", "request", "wait", "poll", "fetch"}
InWork == Capturing \cup {"control", "ack", "score"}

\* The sweep, then the confirmation: how many items have been scored.
Sized ==
  /\ best = Nil => Len(results) <= Len(Variants)
  /\ best # Nil => /\ Len(Variants) <= Len(results)
                   /\ Len(results) <= Len(Variants) + Len(Confirmed)
  /\ pc \in InWork =>
       IF best = Nil THEN Len(results) < Len(Variants)
       ELSE Len(results) < Len(Variants) + Len(Confirmed)
  /\ pc \in Capturing \ {"window"} => window <= Len(Windows[item.stage])

\* The type invariant in three parts, the tap by itself.
PlaceOK ==
  /\ pc \in InWork \cup {"next", "handover", "except"} \cup Ended
  /\ todo \subseteq Ranks /\ window \in Nat \ {0} /\ item \in Items
  /\ best \in ToSet(Variants) \cup {Nil} /\ results \in Seq(Items)
  /\ id \in Nat /\ answered \in Nat /\ mishaps \in Nat /\ runs \in Nat
ControlsOK ==
  /\ control \in Controls /\ file \in [Ranks -> Controls] /\ loaded \in [Ranks -> Controls]
  /\ ack \in [Ranks -> Controls]
  /\ version \in [Ranks -> [ScaledLayers -> {c.id : c \in Controls}]]
  /\ applied \in [Ranks -> [ScaledLayers -> AllGains]]
Gathered == evidence \in [Stages \X ToSet(Variants) \X AllWindows -> Parts \cup {Nil}]
QueueOK == job \in Requests \cup {Nil} /\ queue \in Seq(Requests)
Taps == [arm : Nat \cup {Nil}, sink : [id : Nat, rows : Nat, parts : Parts] \cup {Nil},
         sealed : [id : Nat, parts : Parts] \cup {Nil}]

LEMMA TypeParts ==
  CampaignTypeOK <=> PlaceOK /\ ControlsOK /\ Gathered /\ QueueOK /\ tap \in Taps
BY DEF CampaignTypeOK, PlaceOK, ControlsOK, Gathered, QueueOK, Taps, Sinks, InWork, Capturing, Ended

Typed == CampaignTypeOK /\ Sized

LEMMA SomeVariant ==
  /\ Len(Variants) \in Nat /\ Baseline \in ToSet(Variants) /\ "one" \in AllGains
  /\ \A n \in 1 .. Len(Variants) : Variants[n] \in ToSet(Variants)
<1>1. Len(Variants) \in Nat /\ 1 \in 1 .. Len(Variants) /\ DOMAIN Variants = 1 .. Len(Variants)
  BY CampaignAssumption
<1>2. \A n \in 1 .. Len(Variants) : Variants[n] \in ToSet(Variants)
  BY <1>1 DEF ToSet
<1>3. Baseline \in ToSet(Variants)
  BY <1>1, <1>2 DEF Baseline
<1>4. "one" = Gains(Baseline)
  BY DEF Gains
<1> QED  BY <1>1, <1>2, <1>3, <1>4 DEF AllGains

LEMMA Spread ==
  ASSUME best \in ToSet(Variants) \cup {Nil}, best # Nil
  PROVE  /\ Confirmed \in Seq(ToSet(Variants)) /\ Len(Confirmed) \in {1, 2}
<1>1. Baseline \in ToSet(Variants)
  BY SomeVariant
<1>2. CASE best = Baseline
  <2>1. Confirmed = <<Baseline>>
    BY <1>2 DEF Confirmed
  <2> QED  BY <1>1, <2>1
<1>3. CASE best # Baseline
  <2>1. Confirmed = <<Baseline, best>>
    BY <1>3 DEF Confirmed
  <2> QED  BY <1>1, <2>1
<1> QED  BY <1>2, <1>3

LEMMA NextItemTyped ==
  ASSUME PlaceOK, Sized, Sweep \/ best # Nil, ~Done PROVE NextItem \in Items
<1>1. Len(results) \in Nat /\ Len(Variants) \in Nat
  BY SomeVariant DEF PlaceOK
<1>2. CASE Sweep
  <2> DEFINE n == Len(results) + 1
  <2>1. n \in 1 .. Len(Variants)
    BY <1>1, <1>2 DEF Sweep
  <2>2. Variants[n] \in ToSet(Variants)
    <3> HIDE DEF n
    <3> QED  BY <2>1, SomeVariant
  <2>3. NextItem = [stage |-> "development", variant |-> Variants[n]]
    BY <1>2 DEF NextItem
  <2> QED  BY <2>2, <2>3 DEF Items, Stages
<1>3. CASE ~Sweep
  <2> DEFINE n == Len(results) - Len(Variants) + 1
  <2>1. best # Nil /\ Confirmed \in Seq(ToSet(Variants)) /\ Len(Confirmed) \in {1, 2}
    BY <1>3, Spread DEF PlaceOK
  <2>2. n \in 1 .. Len(Confirmed)
    BY <1>1, <2>1 DEF Sized, Done
  <2>3. Confirmed[n] \in ToSet(Variants)
    <3> HIDE DEF n
    <3> QED  BY <2>1, <2>2
  <2>4. NextItem = [stage |-> "confirmation", variant |-> Confirmed[n]]
    BY <1>3 DEF NextItem
  <2> QED  BY <2>3, <2>4 DEF Items, Stages
<1> QED  BY <1>2, <1>3

LEMMA ControlTyped ==
  /\ \A i \in Items : ControlOf(i) \in Controls
  /\ Identity("start") \in Controls /\ Identity("after-sweep") \in Controls
  /\ Identity("after-failure") \in Controls
BY DEF Controls

LEMMA ControlGains ==
  ASSUME NEW c \in Controls PROVE c.gains \in AllGains
<1>1. CASE \E name \in {"start", "after-sweep", "after-failure"} : c = Identity(name)
  BY <1>1, SomeVariant DEF Identity
<1>2. ASSUME NEW i \in Items, c = ControlOf(i) PROVE c.gains \in AllGains
  BY <1>2 DEF ControlOf, Items, AllGains
<1> QED  BY <1>1, <1>2 DEF Controls

\* Equal names, equal gains.
LEMMA NamesTell ==
  ASSUME NEW c \in Controls, NEW d \in Controls, c.id = d.id PROVE c.gains = d.gains
<1>1. ASSUME NEW x \in Controls
      PROVE  \/ x.gains = "one" /\ x.id[1] = "identity"
             \/ x.gains = Gains(x.id[2]) /\ x.id[1] # "identity"
  <2>1. CASE \E name \in {"start", "after-sweep", "after-failure"} : x = Identity(name)
    BY <2>1 DEF Identity
  <2>2. ASSUME NEW i \in Items, x = ControlOf(i)
        PROVE  x.gains = Gains(x.id[2]) /\ x.id[1] # "identity"
    BY <2>2 DEF ControlOf, Items, Stages
  <2> QED  BY <2>1, <2>2 DEF Controls
<1> QED  BY <1>1

\* The actions of the controller leave the ranks and the endpoint alone but for their own.
LEMMA PlaceStep == ASSUME Typed, CampaignNext PROVE PlaceOK'
<1> USE DEF itemVars, rankVars, engineVars
<1>1. PlaceOK /\ Sized
  BY TypeParts DEF Typed
<1>2. CASE Choose \/ HandOver \/ Receive \/ Poll \/ SendRequest
  BY <1>1, <1>2 DEF Choose, HandOver, Receive, Poll, SendRequest, PlaceOK, InWork, Capturing
<1>14. CASE Killed
  BY <1>1, <1>14 DEF Killed, Mishap, PlaceOK, Ended
<1>3. CASE StartItem
  <2>1. NextItem \in Items
    BY <1>1, <1>3, NextItemTyped DEF StartItem
  <2> QED  BY <1>1, <1>3, <2>1 DEF StartItem, PlaceOK, InWork, Capturing
<1>4. ASSUME NEW r \in Ranks, SetControl(r) PROVE PlaceOK'
  BY <1>1, <1>4 DEF SetControl, PlaceOK, InWork, Capturing, Ended
<1>5. CASE CaptureWindow
  BY <1>1, <1>5 DEF CaptureWindow, PlaceOK, InWork, Capturing
<1>6. CASE Acknowledge \/ Arm \/ CommandFails
  BY <1>1, <1>6 DEF Acknowledge, Arm, CommandFails, Except, Mishap, PlaceOK, InWork, Capturing, Ended
<1>7. CASE Score
  BY <1>1, <1>7 DEF Score, PlaceOK, InWork, Capturing
<1>8. CASE Fetch
  BY <1>1, <1>8 DEF Fetch, Except, PlaceOK, InWork, Capturing
<1>9. CASE Rerun
  BY <1>1, <1>9 DEF Rerun, PlaceOK, InWork, Capturing
<1>10. CASE StartRequest \/ NextLayer \/ DropRequest \/ ClearArm
  BY <1>1, <1>10 DEF StartRequest, NextLayer, DropRequest, ClearArm, PlaceOK
<1>11. ASSUME NEW r \in Ranks, RunLayer(r) PROVE PlaceOK'
  BY <1>1, <1>11 DEF RunLayer, PlaceOK
<1>12. CASE OtherRequest
  BY <1>1, <1>12 DEF OtherRequest, Mishap, PlaceOK
<1>13. CASE Emit
  <2>1. job # Nil => job \in Requests
    BY TypeParts DEF Typed, QueueOK
  <2> QED  BY <1>1, <1>13, <2>1 DEF Emit, PlaceOK, Requests
<1> QED  BY <1>2, <1>3, <1>4, <1>5, <1>6, <1>7, <1>8, <1>9, <1>10, <1>11, <1>12, <1>13,
         <1>14 DEF CampaignNext, Controller, Endpoint

LEMMA ConfirmedKept == ASSUME best' = best PROVE Confirmed' = Confirmed
BY DEF Confirmed

LEMMA SizedStep == ASSUME Typed, CampaignNext PROVE Sized'
<1> USE DEF itemVars, rankVars, engineVars
<1>1. PlaceOK /\ Sized
  BY TypeParts DEF Typed
<1>2. CASE /\ UNCHANGED <<best, results, item, window>>
           /\ \/ pc' = pc \/ pc' \notin InWork
              \/ pc' \in {"window", "score"} /\ pc \in InWork
              \/ pc \in Capturing \ {"window"} /\ pc' \in Capturing
  <2>1. Confirmed' = Confirmed
    BY <1>2, ConfirmedKept
  <2> QED  BY <1>1, <1>2, <2>1 DEF Sized, InWork, Capturing
<1>3. CASE Choose
  <2>1. best' \in ToSet(Variants) /\ results' = results /\ pc' = "next"
    BY <1>3 DEF Choose
  <2>2. best' # Nil => Len(Confirmed') \in {1, 2}
    BY <2>1, Spread DEF Confirmed
  <2>3. Len(results) = Len(Variants)
    BY <1>1, <1>3, SomeVariant DEF Choose, Sized, Sweep, PlaceOK
  <2>4. Len(Variants) \in Nat
    BY SomeVariant
  <2> DEFINE c == Len(Confirmed')
  <2> HIDE DEF c
  <2>5. (best' # Nil => c \in {1, 2}) /\ c = Len(Confirmed')
    BY <2>2 DEF c
  <2> QED  BY <2>1, <2>3, <2>4, <2>5 DEF Sized, InWork, Capturing
<1>4. CASE StartItem
  <2>1. Confirmed' = Confirmed
    BY <1>4, ConfirmedKept DEF StartItem
  <2>2. best = Nil => Len(results) < Len(Variants)
    BY <1>4 DEF StartItem, Sweep
  <2>3. best # Nil => Len(results) < Len(Variants) + Len(Confirmed)
    <3>1. CASE best # Nil
      <4>1. Len(Confirmed) \in {1, 2}
        BY <1>1, <3>1, Spread DEF PlaceOK
      <4> QED  BY <1>1, <1>4, <3>1, <4>1, SomeVariant DEF StartItem, Done, Sized, PlaceOK
    <3> QED  BY <3>1
  <2> QED  BY <1>1, <1>4, <2>1, <2>2, <2>3 DEF StartItem, Sized, InWork, Capturing
<1>5. CASE CaptureWindow
  <2>1. UNCHANGED <<best, results, item>> /\ pc = "window" /\ pc' \in {"ack", "score", "window", "arm"}
    BY <1>5 DEF CaptureWindow
  <2>2. pc' = "arm" => window' = window /\ window <= Len(Windows[item.stage])
    <3>1. Len(Windows[item.stage]) \in Nat
      BY <1>1, CampaignAssumption DEF PlaceOK, Items
    <3> QED  BY <1>1, <1>5, <3>1 DEF CaptureWindow, PlaceOK
  <2>3. Confirmed' = Confirmed
    BY <2>1, ConfirmedKept
  <2> QED  BY <1>1, <2>1, <2>2, <2>3 DEF Sized, InWork, Capturing
<1>6. CASE Score
  <2>1. UNCHANGED <<best, item, window>> /\ pc = "score" /\ pc' = "next" /\ results' = Append(results, item)
    BY <1>6 DEF Score
  <2>2. Len(results') = Len(results) + 1 /\ Len(results) \in Nat
    BY <1>1, <2>1 DEF PlaceOK
  <2>3. Confirmed' = Confirmed /\ Len(Variants) \in Nat
    BY <2>1, ConfirmedKept, SomeVariant
  <2>4. best # Nil => Len(Confirmed) \in {1, 2}
    BY <1>1, Spread DEF PlaceOK
  <2> DEFINE n == Len(results)
             m == Len(results')
             v == Len(Variants)
             c == Len(Confirmed)
  <2>5. (best = Nil => n < v) /\ (best # Nil => v <= n /\ n < v + c)
    BY <1>1, <2>1 DEF Sized, InWork
  <2>6. m = n + 1 /\ n \in Nat /\ v \in Nat /\ (best # Nil => c \in {1, 2})
    BY <2>2, <2>3, <2>4
  <2>7. (best = Nil => m <= v) /\ (best # Nil => v <= m /\ m <= v + c)
    <3> HIDE DEF n, m, v, c
    <3> QED  BY <2>5, <2>6
  <2> QED  BY <2>1, <2>3, <2>7 DEF Sized, InWork, Capturing
<1>7. CASE Fetch
  <2>1. UNCHANGED <<best, results, item>> /\ pc = "fetch"
        /\ (pc' = "except" \/ pc' = "window")
    BY <1>7 DEF Fetch, Except
  <2>3. Confirmed' = Confirmed
    BY <2>1, ConfirmedKept
  <2> QED  BY <1>1, <2>1, <2>3 DEF Sized, InWork, Capturing
<1>8. CASE Rerun
  <2>1. best' = Nil /\ results' = <<>> /\ pc' = "next" /\ Len(<<>>) = 0
    BY <1>8 DEF Rerun
  <2> QED  BY <2>1, SomeVariant DEF Sized, InWork, Capturing
<1>9. CASE HandOver \/ Receive \/ Poll \/ SendRequest \/ Killed \/ Acknowledge \/ CommandFails \/ Arm
  <2>1. CASE HandOver \/ Killed \/ CommandFails
    BY <1>2, <2>1 DEF HandOver, Killed, CommandFails, Except, Ended, InWork, Capturing
  <2>2. CASE Receive \/ Poll \/ SendRequest
    BY <1>2, <2>2 DEF Receive, Poll, SendRequest, Capturing
  <2>3. CASE Acknowledge
    BY <1>2, <2>3 DEF Acknowledge, Except, InWork, Capturing
  <2>4. CASE Arm
    BY <1>2, <2>4 DEF Arm, Except, InWork, Capturing
  <2> QED  BY <1>9, <2>1, <2>2, <2>3, <2>4
<1>10. CASE StartRequest \/ NextLayer \/ DropRequest \/ ClearArm \/ OtherRequest \/ Emit
  BY <1>2, <1>10 DEF StartRequest, NextLayer, DropRequest, ClearArm, OtherRequest, Emit
<1>11. ASSUME NEW r \in Ranks, RunLayer(r) PROVE Sized'
  BY <1>2, <1>11 DEF RunLayer
<1>12. ASSUME NEW r \in Ranks, SetControl(r) PROVE Sized'
  BY <1>2, <1>12 DEF SetControl, InWork, Capturing
<1> QED  BY <1>3, <1>4, <1>5, <1>6, <1>7, <1>8, <1>9, <1>10, <1>11, <1>12
         DEF CampaignNext, Controller, Endpoint

LEMMA ControlsStep == ASSUME Typed, CampaignNext PROVE ControlsOK'
<1> USE DEF itemVars, rankVars, engineVars
<1>1. PlaceOK /\ Sized /\ ControlsOK /\ QueueOK
  BY TypeParts DEF Typed
<1>2. CASE UNCHANGED rankVars /\ control' \in Controls
  BY <1>1, <1>2 DEF ControlsOK
<1>3. CASE StartItem
  <2>1. NextItem \in Items
    BY <1>1, <1>3, NextItemTyped DEF StartItem
  <2> QED  BY <1>2, <1>3, <2>1, ControlTyped DEF StartItem
<1>4. CASE HandOver
  BY <1>2, <1>4, ControlTyped DEF HandOver, AfterSweep
<1>5. CASE Acknowledge \/ Arm \/ CommandFails \/ Fetch
  BY <1>1, <1>2, <1>5, ControlTyped DEF Acknowledge, Arm, CommandFails, Fetch, Except, ControlsOK
<1>6. CASE Choose \/ CaptureWindow \/ Receive \/ Poll \/ SendRequest \/ Killed \/ Score \/ Rerun
  BY <1>1, <1>2, <1>6 DEF Choose, CaptureWindow, Receive, Poll, SendRequest, Killed, Score, Rerun, ControlsOK
<1>7. CASE StartRequest \/ NextLayer \/ DropRequest \/ ClearArm \/ OtherRequest \/ Emit
  BY <1>1, <1>2, <1>7 DEF StartRequest, NextLayer, DropRequest, ClearArm, OtherRequest, Emit, ControlsOK
<1>8. ASSUME NEW r \in Ranks, SetControl(r) PROVE ControlsOK'
  BY <1>1, <1>8 DEF SetControl, ControlsOK
<1>9. ASSUME NEW r \in Ranks, RunLayer(r) PROVE ControlsOK'
  <2> DEFINE layer == job.layer
             now == IF layer = 3 THEN file[r] ELSE loaded[r]
             gains == IF version[r][layer] = now.id THEN applied[r][layer]
                      ELSE Rescaled(applied[r][layer], now.gains)
  <2>1. job # Nil /\ loaded' = [loaded EXCEPT ![r] = now] /\ ack' = [ack EXCEPT ![r] = now]
        /\ version' = [version EXCEPT ![r][layer] = now.id]
        /\ applied' = [applied EXCEPT ![r][layer] = gains] /\ UNCHANGED <<control, file>>
    BY <1>9 DEF RunLayer
  <2>2. layer \in ScaledLayers
    BY <1>1, <2>1 DEF QueueOK, Requests
  <2>3. now \in Controls
    BY <1>1 DEF ControlsOK
  <2> HIDE DEF layer, now
  <2>4. gains \in AllGains
    BY <1>1, <2>2, <2>3, ControlGains DEF ControlsOK, Rescaled
  <2> HIDE DEF gains
  <2>5. now.id \in {c.id : c \in Controls}
    BY <2>3
  <2> QED  BY <1>1, <2>1, <2>2, <2>3, <2>4, <2>5 DEF ControlsOK
<1> QED  BY <1>3, <1>4, <1>5, <1>6, <1>7, <1>8, <1>9
         DEF CampaignNext, Controller, Endpoint

\* What one call of the capture does.
Before(t) == IF t.sink # Nil /\ t.sink.id = t.arm THEN t.sink.parts ELSE <<>>
Added(t, piece) == Append(Before(t), piece)
Seals(t, piece) == [arm |-> Nil, sink |-> Nil, sealed |-> [id |-> t.arm, parts |-> Added(t, piece)]]
Grows(t, piece, n) == [t EXCEPT !.sink = [id |-> t.arm, rows |-> n, parts |-> Added(t, piece)]]

LEMMA RowsNumber == BatchRows = 2 /\ PromptRows \in Nat /\ ExpectedRows \in Nat
BY CampaignAssumption DEF BatchRows, PromptRows, ExpectedRows

LEMMA CaptureCases ==
  ASSUME NEW t \in Taps, NEW rows \in Seq(LogitRows), t.arm # Nil
  PROVE  \/ \E take \in Int : take <= Len(rows) /\ Capture(t, rows) = Seals(t, SubSeq(rows, 1, take))
         \/ \E n \in Nat : Capture(t, rows) = Grows(t, rows, n)
<1> DEFINE sink == IF t.sink # Nil /\ t.sink.id = t.arm THEN t.sink
                   ELSE [id |-> t.arm, rows |-> 0, parts |-> <<>>]
           left == ExpectedRows - sink.rows
           length == Len(rows)
           take == IF length < left THEN length ELSE left
           piece == SubSeq(rows, 1, take)
           now == Append(sink.parts, piece)
<1>1. sink.parts = Before(t)
  BY DEF Before
<1>2. sink.rows \in Nat
  BY DEF Taps, Sinks
<1>3. Capture(t, rows) =
        IF take = left
          THEN [arm |-> Nil, sink |-> Nil, sealed |-> [id |-> t.arm, parts |-> now]]
          ELSE [t EXCEPT !.sink = [id |-> t.arm, rows |-> sink.rows + take, parts |-> now]]
  BY DEF Capture
<1>4. now = Added(t, piece)
  BY <1>1 DEF Added
<1>5. length \in Nat /\ ExpectedRows \in Nat
  BY RowsNumber
<1> HIDE DEF sink
<1>6. left \in Int
  BY <1>2, <1>5
<1> HIDE DEF left
<1>7. take \in Int /\ take <= length /\ (take # left => take = length)
  <2> HIDE DEF length
  <2> QED  BY <1>5, <1>6
<1>8. take = length => piece = rows
  <2>1. SubSeq(rows, 1, Len(rows)) = rows
    OBVIOUS
  <2> QED  BY <2>1
<1> HIDE DEF take, piece, now
<1>9. CASE take = left
  <2>1. Capture(t, rows) = Seals(t, piece)
    BY <1>3, <1>4, <1>9 DEF Seals
  <2>2. piece = SubSeq(rows, 1, take)
    BY DEF piece
  <2> QED  BY <1>7, <2>1, <2>2
<1>10. CASE take # left
  <2>1. piece = rows /\ take = length
    BY <1>7, <1>8, <1>10
  <2>2. Capture(t, rows) = Grows(t, rows, sink.rows + take)
    BY <1>3, <1>4, <1>10, <2>1 DEF Grows
  <2>3. sink.rows + take \in Nat
    BY <1>2, <1>5, <2>1
  <2> QED  BY <2>2, <2>3
<1> QED  BY <1>9, <1>10

LEMMA BeforeTyped == ASSUME NEW t \in Taps PROVE Before(t) \in Parts
<1>1. <<>> \in Parts
  BY DEF Parts
<1>2. t.sink # Nil => t.sink.parts \in Parts
  BY DEF Taps, Sinks
<1> HIDE DEF Parts
<1> QED  BY <1>1, <1>2 DEF Before

LEMMA CaptureTyped ==
  ASSUME NEW t \in Taps, NEW rows \in Seq(LogitRows) PROVE Capture(t, rows) \in Taps
<1>1. CASE t.arm = Nil
  BY <1>1 DEF Capture
<1>2. ASSUME t.arm # Nil PROVE Capture(t, rows) \in Taps
  <2>1. \A piece \in Seq(LogitRows) : Added(t, piece) \in Parts
    BY BeforeTyped DEF Added, Parts
  <2>2. t.arm \in Nat
    BY <1>2 DEF Taps
  <2>3. ASSUME NEW piece \in Seq(LogitRows) PROVE Seals(t, piece) \in Taps
    <3>1. Added(t, piece) \in Parts
      BY <2>1
    <3> HIDE DEF Parts
    <3> QED  BY <2>2, <3>1 DEF Seals, Taps
  <2>4. ASSUME NEW n \in Nat PROVE Grows(t, rows, n) \in Taps
    <3>1. Added(t, rows) \in Parts
      BY <2>1
    <3> QED  BY <2>2, <3>1 DEF Grows, Taps, Sinks
  <2>5. ASSUME NEW take \in Int, take <= Len(rows) PROVE SubSeq(rows, 1, take) \in Seq(LogitRows)
    BY <2>5, PrefixIs, Zenon
  <2> QED  BY <1>2, <2>3, <2>4, <2>5, CaptureCases
<1> QED  BY <1>1, <1>2

LEMMA RowTyped ==
  ASSUME job \in Requests
  PROVE  /\ \A p \in Nat : Row(p) \in LogitRows
         /\ Batch \in Seq(LogitRows) /\ Len(Batch) = 2
         /\ Batch[1] = Row((job.chunk - 1) * 2 + 1) /\ Batch[2] = Row((job.chunk - 1) * 2 + 2)
         /\ <<Row(0)>> \in Seq(LogitRows) /\ Len(<<Row(0)>>) = 1
<1>1. ASSUME NEW p \in Nat PROVE Row(p) \in LogitRows
  BY DEF Row, LogitRows, Requests
<1>2. BatchRows = 2
  BY RowsNumber
<1>3. Batch = [n \in 1 .. 2 |-> Row((job.chunk - 1) * 2 + n)]
  BY <1>2 DEF Batch
<1>4. job.chunk \in Nat /\ job.chunk >= 1
  BY CampaignAssumption DEF Requests
<1>5. ASSUME NEW n \in 1 .. 2 PROVE (job.chunk - 1) * 2 + n \in Nat
  BY <1>4
<1>6. \A n \in 1 .. 2 : Row((job.chunk - 1) * 2 + n) \in LogitRows
  BY <1>1, <1>5
<1> HIDE DEF LogitRows
<1>7. Batch \in [1 .. 2 -> LogitRows]
  BY <1>3, <1>6
<1>8. Batch \in Seq(LogitRows) /\ Len(Batch) = 2
  <2> DEFINE b == Batch
  <2>1. b \in [1 .. 2 -> LogitRows] /\ 2 \in Nat
    BY <1>7
  <2> HIDE DEF b
  <2>2. Len(b) = 2
    BY <2>1
  <2>3. b \in Seq(LogitRows)
    BY <2>1, FunctionIsSeq
  <2> QED  BY <2>2, <2>3 DEF b
<1>9. Batch[1] = Row((job.chunk - 1) * 2 + 1) /\ Batch[2] = Row((job.chunk - 1) * 2 + 2)
  BY <1>3
<1>10. Row(0) \in LogitRows
  BY <1>1
<1> QED  BY <1>1, <1>8, <1>9, <1>10

LEMMA QueueStep == ASSUME Typed, CampaignNext PROVE QueueOK'
<1> USE DEF itemVars, rankVars, engineVars
<1>0. Requests' = Requests
  BY DEF Requests
<1>1. PlaceOK /\ Sized /\ ControlsOK /\ QueueOK
  BY TypeParts DEF Typed
<1>2. CASE UNCHANGED <<job, queue>>
  BY <1>1, <1>2 DEF QueueOK, Requests
<1>3. CASE Choose \/ StartItem \/ HandOver \/ CaptureWindow \/ Acknowledge \/ Score \/ Arm \/ Receive
           \/ Poll \/ Fetch \/ CommandFails \/ Killed \/ ClearArm
  BY <1>2, <1>3 DEF Choose, StartItem, HandOver, CaptureWindow, Acknowledge, Score, Arm, Receive, Poll,
     Fetch, CommandFails, Killed, ClearArm
<1>4. ASSUME NEW r \in Ranks, SetControl(r) PROVE QueueOK'
  BY <1>2, <1>4 DEF SetControl
<1>5. ASSUME NEW own \in Nat, NEW tokens \in Tokens, NEW echo \in BOOLEAN
      PROVE  Request(own, tokens, echo) \in Requests
  <2>1. 3 \in ScaledLayers /\ 1 \in 1 .. Chunks /\ Chunks \in 1 .. Chunks
    BY CampaignAssumption DEF ScaledLayers, ROUTED_LAYERS, MTP_LAYER
  <2> QED  BY <2>1 DEF Request, Requests
<1>6. CASE SendRequest
  <2>1. Windows[item.stage] \in Seq(AllWindows) /\ window \in 1 .. Len(Windows[item.stage])
    BY <1>1, <1>6, CampaignAssumption DEF SendRequest, Sized, PlaceOK, Items, Capturing
  <2>2. Windows[item.stage][window] \in Tokens
    BY <2>1 DEF Tokens
  <2>3. Request(id, Windows[item.stage][window], TRUE) \in Requests
    BY <1>1, <1>5, <2>2 DEF PlaceOK
  <2> DEFINE q == Request(id, Windows[item.stage][window], TRUE)
  <2>4. q \in Requests /\ queue' = Append(queue, q) /\ job' = job
    BY <1>6, <2>3 DEF SendRequest
  <2> HIDE DEF q
  <2> QED  BY <1>0, <1>1, <2>4 DEF QueueOK
<1>7. CASE OtherRequest
  <2>1. \A echo \in BOOLEAN : Request(0, "other", echo) \in Requests
    BY <1>5 DEF Tokens
  <2> QED  BY <1>0, <1>1, <1>7, <2>1 DEF OtherRequest, QueueOK
<1>8. CASE StartRequest
  <2>1. Head(queue) \in Requests /\ Tail(queue) \in Seq(Requests)
    BY <1>1, <1>8 DEF StartRequest, QueueOK
  <2> DEFINE given == Head(queue)
             f == pc = "complete" \/ (pc = "failed" /\ todo = {})
  <2>2. [given EXCEPT !.free = f] \in Requests
    <3>1. given \in Requests
      BY <2>1
    <3> HIDE DEF given, f
    <3>2. ASSUME f \in BOOLEAN PROVE [given EXCEPT !.free = f] \in Requests
      BY <3>1, <3>2 DEF Requests
    <3>3. f \in BOOLEAN
      BY DEF f
    <3> QED  BY <3>2, <3>3
  <2> QED  BY <1>8, <2>1, <2>2 DEF StartRequest, QueueOK, Requests
<1>9. CASE DropRequest
  BY <1>0, <1>1, <1>9 DEF DropRequest, QueueOK
<1>10. CASE Rerun
  BY <1>1, <1>10 DEF Rerun, QueueOK, Requests
<1>11. ASSUME NEW r \in Ranks, RunLayer(r) PROVE QueueOK'
  <2>1. /\ job # Nil /\ UNCHANGED queue
        /\ \E g : /\ job' = [job EXCEPT !.ran = @ \cup {r}, !.gains = @ \cup {g}]
                  /\ applied' = [applied EXCEPT ![r][job.layer] = g]
    BY <1>11 DEF RunLayer
  <2>2. PICK g : /\ job' = [job EXCEPT !.ran = @ \cup {r}, !.gains = @ \cup {g}]
                 /\ applied' = [applied EXCEPT ![r][job.layer] = g]
    BY <2>1
  <2>3. ControlsOK'
    BY ControlsStep
  <2>4. job \in Requests /\ job.layer \in ScaledLayers
    BY <1>1, <2>1 DEF QueueOK, Requests
  <2>5. g \in AllGains
    <3>1. applied'[r][job.layer] \in AllGains
      BY <2>3, <2>4 DEF ControlsOK
    <3>2. applied'[r][job.layer] = g
      BY <1>1, <2>2, <2>4 DEF ControlsOK
    <3> QED  BY <3>1, <3>2
  <2>6. job' \in Requests
    BY <2>2, <2>4, <2>5 DEF Requests
  <2> QED  BY <1>1, <2>1, <2>6 DEF QueueOK, Requests
<1>12. CASE NextLayer
  <2>1. job \in Requests /\ job.layer # LastLayer /\ job' = [job EXCEPT !.layer = @ + 1, !.ran = {}]
    BY <1>1, <1>12 DEF NextLayer, QueueOK
  <2>2. job.layer + 1 \in ScaledLayers
    <3>1. job.layer \in 3 .. LastLayer /\ LastLayer \in Int
      <4>1. job.layer \in ScaledLayers
        BY <2>1 DEF Requests
      <4>2. LastLayer \in Int
        BY CampaignAssumption DEF ROUTED_LAYERS, MTP_LAYER
      <4> QED  BY <4>1, <4>2 DEF ScaledLayers
    <3> DEFINE l == job.layer
    <3>2. l \in 3 .. LastLayer /\ l # LastLayer
      BY <2>1, <3>1
    <3> HIDE DEF l
    <3>3. l + 1 \in 3 .. LastLayer
      BY <3>1, <3>2
    <3> QED  BY <3>3 DEF l, ScaledLayers
  <2>3. job' \in Requests
    BY <2>1, <2>2 DEF Requests
  <2> QED  BY <1>1, <1>12, <2>3 DEF NextLayer, QueueOK, Requests
<1>13. CASE Emit
  <2>1. job \in Requests /\ queue' = queue
    BY <1>1, <1>13 DEF Emit, QueueOK
  <2>2. CASE job.chunk < Chunks
    <3>1. job' = [job EXCEPT !.chunk = @ + 1, !.layer = 3, !.ran = {}]
      BY <1>13, <2>2 DEF Emit
    <3>2. job.chunk + 1 \in 1 .. Chunks /\ 3 \in ScaledLayers
      BY <2>1, <2>2, CampaignAssumption DEF Requests, ScaledLayers, ROUTED_LAYERS, MTP_LAYER
    <3>3. job' \in Requests
      BY <2>1, <3>1, <3>2 DEF Requests
    <3> QED  BY <1>1, <2>1, <3>3 DEF QueueOK, Requests
  <2>3. CASE ~(job.chunk < Chunks)
    BY <1>1, <1>13, <2>1, <2>3 DEF Emit, QueueOK, Requests
  <2> QED  BY <2>2, <2>3
<1> QED  BY <1>3, <1>4, <1>6, <1>7, <1>8, <1>9, <1>10, <1>11, <1>12, <1>13
         DEF CampaignNext, Controller, Endpoint

LEMMA TapStep == ASSUME Typed, CampaignNext PROVE tap' \in Taps
<1> USE DEF itemVars, rankVars, engineVars
<1>1. PlaceOK /\ QueueOK /\ tap \in Taps
  BY TypeParts DEF Typed
<1>2. CASE Choose \/ StartItem \/ HandOver \/ CaptureWindow \/ Acknowledge \/ Score \/ Receive \/ SendRequest
           \/ Poll \/ Fetch \/ CommandFails \/ Killed \/ Rerun
  BY <1>1, <1>2 DEF Choose, StartItem, HandOver, CaptureWindow, Acknowledge, Score, Receive, SendRequest,
     Poll, Fetch, CommandFails, Killed, Rerun
<1>3. CASE StartRequest \/ NextLayer \/ DropRequest \/ OtherRequest
  BY <1>1, <1>3 DEF StartRequest, NextLayer, DropRequest, OtherRequest
<1>4. ASSUME NEW r \in Ranks, SetControl(r) \/ RunLayer(r) PROVE tap' \in Taps
  BY <1>1, <1>4 DEF SetControl, RunLayer
<1>5. CASE Arm \/ ClearArm
  <2>1. tap' = tap \/ (\E a \in Nat \cup {Nil} : tap' = [tap EXCEPT !.arm = a])
    BY <1>1, <1>5 DEF Arm, ClearArm, PlaceOK
  <2> QED  BY <1>1, <2>1 DEF Taps
<1>6. CASE Emit
  <2>1. job \in Requests
    BY <1>1, <1>6 DEF Emit, QueueOK
  <2>2. <<Row(0)>> \in Seq(LogitRows) /\ Batch \in Seq(LogitRows)
    BY <2>1, RowTyped
  <2> DEFINE sampled == Capture(tap, <<Row(0)>>)
  <2>3. tap' = IF job.echo THEN Capture(sampled, Batch) ELSE sampled
    BY <1>6 DEF Emit
  <2>4. sampled \in Taps
    BY <1>1, <2>2, CaptureTyped
  <2> HIDE DEF sampled
  <2> QED  BY <2>2, <2>3, <2>4, CaptureTyped
<1> QED  BY <1>2, <1>3, <1>4, <1>5, <1>6 DEF CampaignNext, Controller, Endpoint

LEMMA GatheredStep == ASSUME Typed, CampaignNext PROVE Gathered'
<1> USE DEF itemVars, rankVars, engineVars
<1>1. Gathered /\ tap \in Taps
  BY TypeParts DEF Typed
<1>2. CASE Choose \/ StartItem \/ HandOver \/ CaptureWindow \/ Acknowledge \/ Score \/ Arm \/ Receive
           \/ SendRequest \/ Poll \/ CommandFails \/ Killed \/ Rerun
  BY <1>1, <1>2 DEF Choose, StartItem, HandOver, CaptureWindow, Acknowledge, Score, Arm, Receive, SendRequest,
     Poll, CommandFails, Killed, Rerun, Gathered
<1>3. CASE StartRequest \/ NextLayer \/ DropRequest \/ OtherRequest \/ ClearArm \/ Emit
  BY <1>1, <1>3 DEF StartRequest, NextLayer, DropRequest, OtherRequest, ClearArm, Emit, Gathered
<1>4. ASSUME NEW r \in Ranks, SetControl(r) \/ RunLayer(r) PROVE Gathered'
  BY <1>1, <1>4 DEF SetControl, RunLayer, Gathered
<1>5. CASE Fetch
  <2>1. tap.sealed # Nil
    BY <1>5 DEF Fetch, Sealed
  <2>2. tap.sealed.parts \in Parts
    BY <1>1, <2>1 DEF Taps
  <2>3. evidence' = evidence \/ evidence' = [evidence EXCEPT ![Key] = tap.sealed.parts]
    BY <1>5 DEF Fetch
  <2> HIDE DEF Parts
  <2> DEFINE k == Key
             p == tap.sealed.parts
  <2>4. evidence' = evidence \/ evidence' = [evidence EXCEPT ![k] = p]
    BY <2>3
  <2>5. p \in Parts
    BY <2>2
  <2> HIDE DEF k, p
  <2> QED  BY <1>1, <2>4, <2>5 DEF Gathered
<1> QED  BY <1>2, <1>3, <1>4, <1>5 DEF CampaignNext, Controller, Endpoint

LEMMA TypesBegin == CampaignInit => Typed
<1> SUFFICES ASSUME CampaignInit PROVE Typed
  OBVIOUS
<1>1. First \in Items /\ Identity("start") \in Controls
  BY SomeVariant, ControlTyped DEF First, Items, Stages
<1>2. PlaceOK
  BY <1>1 DEF CampaignInit, PlaceOK
<1>3. ControlsOK
  <2>1. control \in Controls /\ control.id \in {c.id : c \in Controls} /\ "one" \in AllGains
    BY <1>1, SomeVariant DEF CampaignInit
  <2> QED  BY <2>1 DEF CampaignInit, ControlsOK
<1>4. Gathered
  BY DEF CampaignInit, Gathered
<1>5. QueueOK /\ tap \in Taps
  BY DEF CampaignInit, QueueOK, Taps
<1>6. Sized
  BY SomeVariant DEF CampaignInit, Sized, InWork, Capturing
<1> QED  BY <1>2, <1>3, <1>4, <1>5, <1>6, TypeParts DEF Typed

LEMMA TypesKept == ASSUME Typed, [CampaignNext]_campaignVars PROVE Typed'
<1>1. CASE CampaignNext
  <2>1. PlaceOK' /\ ControlsOK' /\ Gathered' /\ QueueOK' /\ tap' \in Taps'
    BY <1>1, PlaceStep, ControlsStep, GatheredStep, QueueStep, TapStep DEF Taps
  <2>2. CampaignTypeOK'
    BY <2>1 DEF CampaignTypeOK, PlaceOK, ControlsOK, Gathered, QueueOK, Taps, Sinks, InWork, Capturing, Ended
  <2> QED  BY <1>1, <2>2, SizedStep DEF Typed
<1>2. CASE UNCHANGED campaignVars
  BY <1>2 DEF campaignVars, itemVars, rankVars, engineVars, Typed, CampaignTypeOK, Sized, Confirmed, Requests
<1> QED  BY <1>1, <1>2

-----------------------------------------------------------------------------
(* Which gains are served *)

\* The gains of the item in work.
Aimed == Gains(item.variant)

Applied ==
  \A r \in Ranks, layer \in ScaledLayers : \E c \in Controls :
    version[r][layer] = c.id /\ applied[r][layer] = c.gains

\* The controls the ranks have been given.
Placed ==
  /\ pc \in {"handover", "except"} => control.gains = "one"
  /\ pc \in {"handover", "except", "complete", "failed"} =>
       \A r \in Ranks \ todo : file[r].gains = "one"
  /\ pc = "complete" => todo = {}
  /\ pc = "control" => control.gains = Aimed /\ \A r \in Ranks \ todo : file[r].gains = Aimed
  /\ pc \in Capturing => \A r \in Ranks : file[r].gains = Aimed

Fresh(q) == q.layer = 3 /\ q.ran = {} /\ q.gains = {} /\ ~q.free /\ (q.echo => q.chunk = 1)
Waiting == \A n \in 1 .. Len(queue) : Fresh(queue[n])

\* The job has been served with nothing but g, and the ranks that do not read their
\* file again before they serve it further hold g.
Under(g) ==
  job.gains \subseteq {g} /\ \A r \in Ranks : job.layer # 3 \/ r \in job.ran => loaded[r].gains = g
Serving ==
  job # Nil =>
    /\ job.ran # {} => job.gains # {}
    /\ job.free => (pc = "complete" \/ (pc = "failed" /\ todo = {})) /\ Under("one")
    /\ pc = "wait" /\ job.own = id => Under(Aimed)

\* A rank that runs a layer serves it with the gains of the control it then holds,
\* whether it rescales the vectors or finds them as that control has left them.
LEMMA RunGains ==
  ASSUME Typed, Applied, NEW r \in Ranks, RunLayer(r)
  PROVE  \E now \in Controls :
           /\ job # Nil /\ r \notin job.ran /\ job \in Requests
           /\ now = IF job.layer = 3 THEN file[r] ELSE loaded[r]
           /\ loaded' = [loaded EXCEPT ![r] = now]
           /\ version' = [version EXCEPT ![r][job.layer] = now.id]
           /\ applied' = [applied EXCEPT ![r][job.layer] = now.gains]
           /\ job' = [job EXCEPT !.ran = @ \cup {r}, !.gains = @ \cup {now.gains}]
<1> DEFINE layer == job.layer
           now == IF layer = 3 THEN file[r] ELSE loaded[r]
           gains == IF version[r][layer] = now.id THEN applied[r][layer]
                    ELSE Rescaled(applied[r][layer], now.gains)
<1>1. ControlsOK /\ QueueOK
  BY TypeParts DEF Typed
<1>2. job # Nil /\ job \in Requests /\ r \notin job.ran
  BY <1>1 DEF RunLayer, QueueOK
<1>3. layer \in ScaledLayers
  BY <1>2 DEF Requests
<1>4. now \in Controls
  BY <1>1 DEF ControlsOK
<1>5. /\ loaded' = [loaded EXCEPT ![r] = now]
      /\ version' = [version EXCEPT ![r][layer] = now.id]
      /\ applied' = [applied EXCEPT ![r][layer] = gains]
      /\ job' = [job EXCEPT !.ran = @ \cup {r}, !.gains = @ \cup {gains}]
  BY DEF RunLayer
<1>6. gains = now.gains
  <2>1. CASE version[r][layer] = now.id
    <3>1. PICK c \in Controls : version[r][layer] = c.id /\ applied[r][layer] = c.gains
      BY <1>3 DEF Applied
    <3>2. c.gains = now.gains
      <4> HIDE DEF now
      <4> QED  BY <1>4, <2>1, <3>1, NamesTell
    <3> QED  BY <2>1, <3>1, <3>2
  <2>2. CASE version[r][layer] # now.id
    BY <2>2 DEF Rescaled
  <2> QED  BY <2>1, <2>2
<1>7. now = IF job.layer = 3 THEN file[r] ELSE loaded[r]
  OBVIOUS
<1> HIDE DEF now, gains
<1> QED  BY <1>2, <1>4, <1>5, <1>6, <1>7

\* What the other actions leave alone.
LEMMA RanksKept ==
  ASSUME CampaignNext
  PROVE  (\E r \in Ranks : RunLayer(r)) \/ UNCHANGED <<loaded, version, applied>>
<1> USE DEF itemVars, rankVars, engineVars
<1>1. CASE Choose \/ StartItem \/ HandOver \/ CaptureWindow \/ Acknowledge \/ Score \/ Arm \/ Receive
           \/ SendRequest \/ Poll \/ Fetch \/ CommandFails \/ Killed \/ Rerun
  BY <1>1 DEF Choose, StartItem, HandOver, CaptureWindow, Acknowledge, Score, Arm, Receive, SendRequest,
     Poll, Fetch, CommandFails, Killed, Rerun
<1>2. CASE StartRequest \/ NextLayer \/ DropRequest \/ OtherRequest \/ ClearArm \/ Emit
  BY <1>2 DEF StartRequest, NextLayer, DropRequest, OtherRequest, ClearArm, Emit
<1>3. ASSUME NEW r \in Ranks, SetControl(r) PROVE UNCHANGED <<loaded, version, applied>>
  BY <1>3 DEF SetControl
<1> QED  BY <1>1, <1>2, <1>3 DEF CampaignNext, Controller, Endpoint

LEMMA AppliedStep == ASSUME Typed, Applied, CampaignNext PROVE Applied'
<1>0. Controls' = Controls
  BY DEF Controls, Items, ControlOf, Identity
<1>1. ASSUME NEW r \in Ranks, RunLayer(r) PROVE Applied'
  <2>1. PICK now \in Controls :
           /\ job # Nil /\ job \in Requests
           /\ version' = [version EXCEPT ![r][job.layer] = now.id]
           /\ applied' = [applied EXCEPT ![r][job.layer] = now.gains]
    BY <1>1, RunGains, ZenonT(40)
  <2>2. ControlsOK /\ job.layer \in ScaledLayers
    BY <2>1, TypeParts DEF Typed, Requests
  <2> SUFFICES ASSUME NEW q \in Ranks, NEW layer \in ScaledLayers
               PROVE  \E c \in Controls : version'[q][layer] = c.id /\ applied'[q][layer] = c.gains
    BY <1>0 DEF Applied
  <2>3. CASE q = r /\ layer = job.layer
    <3>1. version'[q][layer] = now.id /\ applied'[q][layer] = now.gains
      BY <2>1, <2>2, <2>3 DEF ControlsOK
    <3> QED  BY <2>1, <3>1
  <2>4. CASE ~(q = r /\ layer = job.layer)
    <3>1. version'[q][layer] = version[q][layer] /\ applied'[q][layer] = applied[q][layer]
      BY <2>1, <2>2, <2>4 DEF ControlsOK
    <3> QED  BY <3>1 DEF Applied
  <2> QED  BY <2>3, <2>4
<1>2. CASE UNCHANGED <<loaded, version, applied>>
  BY <1>0, <1>2 DEF Applied
<1> QED  BY <1>1, <1>2, RanksKept

LEMMA PlacedStep == ASSUME Typed, Placed, CampaignNext PROVE Placed'
<1> USE DEF itemVars, rankVars, engineVars
<1>1. PlaceOK /\ ControlsOK
  BY TypeParts DEF Typed
<1>2. CASE Choose
  BY <1>2 DEF Choose, Placed, Capturing
<1>3. CASE StartItem
  BY <1>3 DEF StartItem, Placed, Capturing, ControlOf, Aimed
<1>4. CASE HandOver
  BY <1>4 DEF HandOver, Placed, Capturing, AfterSweep, Identity
<1>5. ASSUME NEW r \in Ranks, SetControl(r) PROVE Placed'
  <2>1. /\ pc \in {"control", "handover", "except"} /\ r \in todo /\ todo' = todo \ {r}
        /\ file' = [file EXCEPT ![r] = control] /\ UNCHANGED <<control, item>>
    BY <1>5 DEF SetControl
  <2>2. IF todo' = {} THEN \/ pc = "control" /\ pc' = "window"
                           \/ pc = "handover" /\ pc' = "complete"
                           \/ pc = "except" /\ pc' = "failed"
        ELSE pc' = pc
    BY <1>5 DEF SetControl
  <2>3. ASSUME NEW g, control.gains = g, \A q \in Ranks \ todo : file[q].gains = g
        PROVE  \A q \in Ranks \ todo' : file'[q].gains = g
    BY <1>1, <2>1, <2>3 DEF ControlsOK
  <2>4. CASE pc = "control"
    <3>1. \A q \in Ranks \ todo' : file'[q].gains = Aimed
      BY <2>3, <2>4 DEF Placed
    <3> QED  BY <2>1, <2>2, <2>4, <3>1 DEF Placed, Capturing, Aimed
  <2>5. CASE pc \in {"handover", "except"}
    <3>1. \A q \in Ranks \ todo' : file'[q].gains = "one"
      BY <2>3, <2>5 DEF Placed
    <3> QED  BY <2>1, <2>2, <2>5, <3>1 DEF Placed, Capturing, Aimed
  <2> QED  BY <2>1, <2>4, <2>5
<1>6. CASE CaptureWindow \/ Score \/ SendRequest \/ Receive \/ Poll
  BY <1>6 DEF CaptureWindow, Score, SendRequest, Receive, Poll, Placed, Capturing, Aimed
<1>7. CASE Acknowledge \/ Arm \/ Fetch
  BY <1>7 DEF Acknowledge, Arm, Fetch, Except, Identity, Placed, Capturing, Aimed
<1>8. CASE CommandFails \/ Killed
  BY <1>8 DEF CommandFails, Killed, Except, Identity, Placed, Capturing, Aimed, Ended
<1>9. CASE Rerun
  BY <1>9 DEF Rerun, Placed, Capturing
<1>10. CASE StartRequest \/ NextLayer \/ DropRequest \/ OtherRequest \/ ClearArm \/ Emit
  BY <1>10 DEF StartRequest, NextLayer, DropRequest, OtherRequest, ClearArm, Emit, Placed, Aimed
<1>11. ASSUME NEW r \in Ranks, RunLayer(r) PROVE Placed'
  BY <1>11 DEF RunLayer, Placed, Aimed
<1> QED  BY <1>2, <1>3, <1>4, <1>5, <1>6, <1>7, <1>8, <1>9, <1>10, <1>11
         DEF CampaignNext, Controller, Endpoint

LEMMA HeadTail ==
  ASSUME NEW S, NEW q \in Seq(S), q # <<>>
  PROVE  /\ Len(q) \in Nat /\ Len(q) >= 1 /\ Head(q) = q[1] /\ Len(Tail(q)) = Len(q) - 1
         /\ \A n \in 1 .. Len(Tail(q)) : n + 1 \in 1 .. Len(q) /\ Tail(q)[n] = q[n + 1]
OBVIOUS

LEMMA AppendedAt ==
  ASSUME NEW S, NEW q \in Seq(S), NEW x \in S
  PROVE  /\ Len(q) \in Nat /\ Len(Append(q, x)) = Len(q) + 1 /\ Append(q, x)[Len(q) + 1] = x
         /\ \A n \in 1 .. Len(Append(q, x)) : n # Len(q) + 1 => n \in 1 .. Len(q) /\ Append(q, x)[n] = q[n]
OBVIOUS

\* How the queue changes: a request more, or the first less.
LEMMA QueueChanges ==
  ASSUME Typed, CampaignNext
  PROVE  \/ queue' = queue
         \/ SendRequest /\ queue' = Append(queue, Request(id, Windows[item.stage][window], TRUE))
         \/ \E echo \in BOOLEAN : OtherRequest /\ queue' = Append(queue, Request(0, "other", echo))
         \/ (StartRequest \/ DropRequest) /\ queue # <<>> /\ queue' = Tail(queue)
<1> USE DEF itemVars, rankVars, engineVars
<1>1. CASE Choose \/ StartItem \/ HandOver \/ CaptureWindow \/ Acknowledge \/ Score \/ Arm \/ Receive
           \/ Poll \/ Fetch \/ CommandFails \/ Killed \/ Rerun
  BY <1>1 DEF Choose, StartItem, HandOver, CaptureWindow, Acknowledge, Score, Arm, Receive,
     Poll, Fetch, CommandFails, Killed, Rerun
<1>2. CASE NextLayer \/ ClearArm \/ Emit
  BY <1>2 DEF NextLayer, ClearArm, Emit
<1>3. ASSUME NEW r \in Ranks, SetControl(r) \/ RunLayer(r) PROVE queue' = queue
  BY <1>3 DEF SetControl, RunLayer
<1>4. CASE SendRequest
  BY <1>4 DEF SendRequest
<1>5. CASE OtherRequest
  BY <1>5 DEF OtherRequest
<1>6. CASE StartRequest \/ DropRequest
  BY <1>6 DEF StartRequest, DropRequest
<1> QED  BY <1>1, <1>2, <1>3, <1>4, <1>5, <1>6 DEF CampaignNext, Controller, Endpoint

LEMMA WaitingStep == ASSUME Typed, Waiting, CampaignNext PROVE Waiting'
<1>1. queue \in Seq(Requests) /\ queue' \in Seq(Requests)
  <2>1. QueueOK /\ QueueOK'
    BY QueueStep, TypeParts DEF Typed
  <2>2. Requests' = Requests
    BY DEF Requests
  <2> QED  BY <2>1, <2>2 DEF QueueOK
<1>2. CASE queue' = queue
  BY <1>2 DEF Waiting, Fresh
<1>3. ASSUME NEW own, NEW tokens, NEW echo \in BOOLEAN, queue' = Append(queue, Request(own, tokens, echo))
      PROVE  Waiting'
  <2> DEFINE q == Request(own, tokens, echo)
  <2>1. Fresh(q)
    BY DEF Fresh, Request
  <2> HIDE DEF q
  <2>2. queue' = Append(queue, q)
    BY <1>3 DEF q
  <2>3. Len(queue) \in Nat /\ Len(queue') = Len(queue) + 1 /\ queue'[Len(queue) + 1] = q
        /\ \A n \in 1 .. Len(queue) : queue'[n] = queue[n]
    BY <1>1, <2>2
  <2>4. ASSUME NEW n \in 1 .. Len(queue') PROVE Fresh(queue'[n])
    <3>1. CASE n = Len(queue) + 1
      BY <2>1, <2>3, <3>1
    <3>2. CASE n # Len(queue) + 1
      <4>1. n \in 1 .. Len(queue)
        BY <2>3, <3>2
      <4> QED  BY <2>3, <4>1 DEF Waiting
    <3> QED  BY <3>1, <3>2
  <2> QED  BY <2>4 DEF Waiting, Fresh
<1>4. CASE queue # <<>> /\ queue' = Tail(queue)
  <2>1. \A n \in 1 .. Len(queue') : n + 1 \in 1 .. Len(queue) /\ queue'[n] = queue[n + 1]
    BY <1>1, <1>4, HeadTail
  <2> QED  BY <2>1 DEF Waiting, Fresh
<1> QED  BY <1>2, <1>3, <1>4, QueueChanges

-----------------------------------------------------------------------------
(* Whose requests are at the endpoint *)

Leaving == {"except", "failed", "killed"}
Sent == Windows[item.stage][window]

\* What a request q says at the place p of the controller: its own ones have the number
\* n of its capture and ask for the window w; a is the last capture answered.
Sender(q, p, n, a, w) ==
  /\ q.own <= n
  /\ q.own = 0 => q.tokens = "other"
  /\ p \notin Leaving \cup {"wait"} => q.own = 0
  /\ p = "wait" /\ q.own # 0 => q.own = n /\ q.tokens = w /\ a # n

Owned ==
  /\ job # Nil => Sender(job, pc, id, answered, Sent)
  /\ \A n \in 1 .. Len(queue) : Sender(queue[n], pc, id, answered, Sent)
  /\ pc \in {"request", "wait", "poll", "fetch"} => id > 0
  /\ pc = "request" => answered # id
  /\ answered <= id
Single ==
  pc = "wait" =>
    /\ job # Nil /\ job.own # 0 => \A n \in 1 .. Len(queue) : queue[n].own = 0
    /\ \A n, m \in 1 .. Len(queue) : queue[n].own # 0 /\ queue[m].own # 0 => n = m

\* How the job changes: in what it has been served, or it ends, or the next one starts.
Same(q, given) ==
  q.own = given.own /\ q.tokens = given.tokens /\ q.echo = given.echo
LEMMA JobChanges ==
  ASSUME Typed, CampaignNext
  PROVE  \/ job' = Nil
         \/ job # Nil /\ job' # Nil /\ Same(job', job) /\ (job'.chunk = job.chunk \/ Emit)
         \/ /\ StartRequest /\ queue # <<>> /\ Same(job', queue[1]) /\ job'.chunk = queue[1].chunk
            /\ queue' = Tail(queue)
<1> USE DEF itemVars, rankVars, engineVars
<1>0. QueueOK
  BY TypeParts DEF Typed
<1>1. CASE job' = job
  BY <1>1 DEF Same
<1>2. CASE Choose \/ StartItem \/ HandOver \/ CaptureWindow \/ Acknowledge \/ Score \/ Arm \/ Receive
           \/ SendRequest \/ Poll \/ Fetch \/ CommandFails \/ Killed \/ ClearArm \/ OtherRequest
  BY <1>1, <1>2 DEF Choose, StartItem, HandOver, CaptureWindow, Acknowledge, Score, Arm, Receive,
     SendRequest, Poll, Fetch, CommandFails, Killed, ClearArm, OtherRequest
<1>3. ASSUME NEW r \in Ranks, SetControl(r)
      PROVE  job' = job
  BY <1>3 DEF SetControl
<1>4. ASSUME job \in Requests, job' # Nil, NextLayer \/ Rerun \/ \E r \in Ranks : RunLayer(r)
      PROVE  Same(job', job) /\ job'.chunk = job.chunk
  <2>1. CASE NextLayer
    BY <1>4, <2>1 DEF NextLayer, Same, Requests
  <2>2. CASE Rerun
    BY <1>4, <2>2 DEF Rerun, Same, Requests
  <2>3. ASSUME NEW r \in Ranks, RunLayer(r) PROVE Same(job', job) /\ job'.chunk = job.chunk
    <3>1. \E g : job' = [job EXCEPT !.ran = @ \cup {r}, !.gains = @ \cup {g}]
      BY <2>3 DEF RunLayer
    <3> QED  BY <1>4, <3>1 DEF Same, Requests
  <2> QED  BY <1>4, <2>1, <2>2, <2>3
<1>5. NextLayer \/ Rerun \/ (\E r \in Ranks : RunLayer(r)) => job' = Nil \/ job # Nil
  BY DEF NextLayer, Rerun, RunLayer
<1>6. CASE NextLayer \/ Rerun \/ \E r \in Ranks : RunLayer(r)
  BY <1>0, <1>4, <1>5, <1>6 DEF QueueOK
<1>7. CASE DropRequest
  BY <1>1, <1>7 DEF DropRequest
<1>8. CASE Emit
  <2>1. job \in Requests /\ job # Nil
    BY <1>0, <1>8 DEF Emit, QueueOK
  <2>2. job' = Nil \/ job' = [job EXCEPT !.chunk = @ + 1, !.layer = 3, !.ran = {}]
    BY <1>8 DEF Emit
  <2>3. job' = Nil \/ Same(job', job)
    BY <2>1, <2>2 DEF Same, Requests
  <2> QED  BY <1>8, <2>1, <2>3
<1>9. CASE StartRequest
  <2> DEFINE f == pc = "complete" \/ (pc = "failed" /\ todo = {})
             q == Head(queue)
  <2>1. queue # <<>> /\ queue' = Tail(queue) /\ job' = [q EXCEPT !.free = f]
    BY <1>9 DEF StartRequest
  <2>2. q = queue[1] /\ q \in Requests
    BY <1>0, <2>1 DEF QueueOK
  <2> HIDE DEF q, f
  <2>3. Same(job', q) /\ job'.chunk = q.chunk
    BY <2>1, <2>2 DEF Same, Requests
  <2> QED  BY <1>9, <2>1, <2>2, <2>3
<1> QED  BY <1>1, <1>2, <1>3, <1>6, <1>7, <1>8, <1>9 DEF CampaignNext, Controller, Endpoint

\* The controller's steps, and those of the endpoint but for its answer, leave every
\* request what it is.
LEMMA SendersKept ==
  ASSUME Typed, Owned, CampaignNext, ~Emit, ~Rerun, NEW q \in Requests, Sender(q, pc, id, answered, Sent)
  PROVE  Sender(q, pc', id', answered', Sent')
<1> USE DEF itemVars, rankVars, engineVars
<1>0. id \in Nat /\ answered \in Nat /\ q.own \in Nat
  BY TypeParts DEF Typed, PlaceOK, Requests
<1>1. CASE UNCHANGED <<pc, id, answered, item, window>>
  BY <1>1 DEF Sent
<1>2. CASE /\ pc \notin Leaving \cup {"wait"} /\ id <= id' /\ id' \in Nat
  BY <1>0, <1>2 DEF Sender
<1>3. CASE pc' \in Leaving /\ id' = id
  BY <1>3 DEF Sender, Leaving
<1>4. CASE Choose \/ StartItem \/ HandOver \/ CaptureWindow \/ Acknowledge \/ Score \/ Arm
           \/ SendRequest \/ Poll \/ Fetch
  <2>1. pc \in {"next", "window", "ack", "score", "arm", "request", "poll", "fetch"}
    BY <1>4 DEF Choose, StartItem, HandOver, CaptureWindow, Acknowledge, Score, Arm, SendRequest,
       Poll, Fetch
  <2>2. CASE Arm
    BY <1>0, <1>2, <2>1, <2>2 DEF Arm, Leaving
  <2>3. CASE ~Arm
    <3>1. id' = id
      BY <1>4, <2>3 DEF Choose, StartItem, HandOver, CaptureWindow, Acknowledge, Score, SendRequest,
         Poll, Fetch
    <3> QED  BY <1>0, <1>2, <2>1, <3>1 DEF Leaving
  <2> QED  BY <2>2, <2>3
<1>5. CASE Receive
  BY <1>0, <1>5 DEF Receive, Sender
<1>6. CASE CommandFails \/ Killed
  BY <1>3, <1>6 DEF CommandFails, Killed, Except, Leaving
<1>7. ASSUME NEW r \in Ranks, SetControl(r) PROVE Sender(q, pc', id', answered', Sent')
  <2>1. CASE pc = "except"
    BY <1>3, <1>7, <2>1 DEF SetControl, Leaving
  <2>2. CASE pc # "except"
    BY <1>0, <1>2, <1>7, <2>2 DEF SetControl, Leaving
  <2> QED  BY <2>1, <2>2
<1>8. CASE ClearArm \/ OtherRequest \/ StartRequest \/ DropRequest \/ NextLayer
  BY <1>1, <1>8 DEF ClearArm, OtherRequest, StartRequest, DropRequest, NextLayer
<1>9. ASSUME NEW r \in Ranks, RunLayer(r) PROVE Sender(q, pc', id', answered', Sent')
  BY <1>1, <1>9 DEF RunLayer
<1> QED  BY <1>4, <1>5, <1>6, <1>7, <1>8, <1>9 DEF CampaignNext, Controller, Endpoint

\* What a request says depends on nothing but its own and its tokens.
LEMMA SenderSame ==
  ASSUME NEW q, NEW given, Same(q, given), NEW p, NEW n, NEW a, NEW w, Sender(given, p, n, a, w)
  PROVE  Sender(q, p, n, a, w)
BY DEF Same, Sender

\* An answer ends the one request that waited for it.
LEMMA AnswerSenders ==
  ASSUME Typed, Owned, Single, Emit
  PROVE  /\ job' # Nil => Sender(job', pc', id', answered', Sent')
         /\ \A n \in 1 .. Len(queue) : Sender(queue[n], pc', id', answered', Sent')
<1> USE DEF itemVars, rankVars, engineVars
<1>1. /\ UNCHANGED <<pc, id, item, window, queue>> /\ job # Nil /\ Sent' = Sent
      /\ job \in Requests /\ queue \in Seq(Requests)
  BY TypeParts DEF Typed, QueueOK, Emit, Sent
<1>2. Sender(job, pc, id, answered, Sent) /\ \A n \in 1 .. Len(queue) : Sender(queue[n], pc, id, answered, Sent)
  BY <1>1 DEF Owned
<1>3. CASE answered' = answered
  <2>1. job' = Nil \/ Same(job', job)
    BY <1>1, JobChanges DEF CampaignNext, Endpoint, Emit, StartRequest
  <2> QED  BY <1>1, <1>2, <1>3, <2>1, SenderSame
<1>4. CASE answered' # answered
  <2>1. job' = Nil /\ job.own # 0
    BY <1>4 DEF Emit
  <2>2. ASSUME NEW n \in 1 .. Len(queue) PROVE Sender(queue[n], pc, id, answered', Sent)
    <3>1. pc = "wait" => queue[n].own = 0
      BY <1>1, <2>1 DEF Single
    <3>2. Sender(queue[n], pc, id, answered, Sent)
      BY <1>2
    <3> QED  BY <3>1, <3>2 DEF Sender
  <2> QED  BY <1>1, <2>1, <2>2
<1> QED  BY <1>3, <1>4

LEMMA RerunSenders ==
  ASSUME Typed, Owned, Rerun
  PROVE  /\ job' # Nil => Sender(job', pc', id', answered', Sent')
         /\ \A n \in 1 .. Len(queue) : Sender(queue[n], pc', id', answered', Sent')
<1> USE DEF itemVars, rankVars, engineVars
<1>1. /\ UNCHANGED <<id, item, window, queue, answered>> /\ pc' = "next"
      /\ \A n \in 1 .. Len(queue) : queue[n].own = 0
      /\ job # Nil => job.own = 0
  <2>1. queue \in Seq(Requests)
    BY TypeParts DEF Typed, QueueOK
  <2>2. DOMAIN queue = 1 .. Len(queue)
    BY <2>1
  <2> QED  BY <2>2 DEF Rerun
<1>2. (job # Nil => Sender(job, pc, id, answered, Sent))
      /\ \A n \in 1 .. Len(queue) : Sender(queue[n], pc, id, answered, Sent)
  BY DEF Owned
<1>3. ASSUME NEW q, NEW p, NEW w, Sender(q, p, id, answered, w), q.own = 0
      PROVE  Sender(q, "next", id', answered', Sent')
  BY <1>1, <1>3 DEF Sender
<1>4. job' # Nil => job # Nil /\ Same(job', job)
  BY JobChanges DEF CampaignNext, Rerun, StartRequest
<1>5. job' # Nil => Sender(job, "next", id', answered', Sent')
  BY <1>1, <1>2, <1>3, <1>4
<1>6. job' # Nil => Sender(job', "next", id', answered', Sent')
  BY <1>4, <1>5, SenderSame
<1> QED  BY <1>1, <1>2, <1>3, <1>6

LEMMA OwnedStep == ASSUME Typed, Owned, Single, CampaignNext PROVE Owned'
<1> USE DEF itemVars, rankVars, engineVars
<1>0. id \in Nat /\ answered \in Nat /\ QueueOK
  BY TypeParts DEF Typed, PlaceOK
<1>1. /\ job # Nil => Sender(job, pc', id', answered', Sent') \/ Emit \/ Rerun
      /\ \A n \in 1 .. Len(queue) : Sender(queue[n], pc', id', answered', Sent')
  <2>1. CASE Emit \/ Rerun
    BY <2>1, AnswerSenders, RerunSenders
  <2>2. CASE ~Emit /\ ~Rerun
    <3>1. \A q \in Requests : Sender(q, pc, id, answered, Sent) => Sender(q, pc', id', answered', Sent')
      BY <2>2, SendersKept
    <3>2. job # Nil => job \in Requests /\ Sender(job, pc, id, answered, Sent)
      BY <1>0 DEF QueueOK, Owned
    <3>3. \A n \in 1 .. Len(queue) : queue[n] \in Requests /\ Sender(queue[n], pc, id, answered, Sent)
      BY <1>0 DEF QueueOK, Owned
    <3> QED  BY <3>1, <3>2, <3>3
  <2> QED  BY <2>1, <2>2
<1>2. job' # Nil => Sender(job', pc', id', answered', Sent')
  <2>1. CASE Emit \/ Rerun
    BY <2>1, AnswerSenders, RerunSenders
  <2>2. CASE ~Emit /\ ~Rerun
    <3>1. queue # <<>> => 1 \in 1 .. Len(queue)
      BY <1>0, HeadTail DEF QueueOK
    <3>2. \/ job' = Nil \/ (job # Nil /\ Same(job', job))
          \/ (queue # <<>> /\ Same(job', queue[1]))
      BY JobChanges
    <3> QED  BY <1>1, <2>2, <3>1, <3>2, SenderSame
  <2> QED  BY <2>1, <2>2
<1>3. \A n \in 1 .. Len(queue') : Sender(queue'[n], pc', id', answered', Sent')
  <2>1. queue \in Seq(Requests) /\ \A own \in Nat, tokens \in Tokens, echo \in BOOLEAN :
          Len(Append(queue, Request(own, tokens, echo))) = Len(queue) + 1
          /\ Append(queue, Request(own, tokens, echo))[Len(queue) + 1] = Request(own, tokens, echo)
    BY <1>0 DEF QueueOK
  <2>2. ASSUME NEW q, queue' = Append(queue, q), Sender(q, pc', id', answered', Sent')
        PROVE  \A n \in 1 .. Len(queue') : Sender(queue'[n], pc', id', answered', Sent')
    <3>1. Len(queue) \in Nat /\ Len(queue') = Len(queue) + 1 /\ queue'[Len(queue) + 1] = q
          /\ \A n \in 1 .. Len(queue) : queue'[n] = queue[n]
      BY <2>1, <2>2
    <3>2. \A n \in 1 .. Len(queue') : n = Len(queue) + 1 \/ n \in 1 .. Len(queue)
      BY <3>1
    <3> QED  BY <1>1, <2>2, <3>1, <3>2
  <2>3. CASE queue' = queue
    BY <1>1, <2>3
  <2>4. CASE SendRequest /\ queue' = Append(queue, Request(id, Windows[item.stage][window], TRUE))
    <3>1. /\ pc = "request" /\ pc' = "wait" /\ id > 0 /\ answered # id
          /\ UNCHANGED <<id, answered, item, window>>
      BY <2>4 DEF SendRequest, Owned
    <3>2. Sender(Request(id, Sent, TRUE), pc', id', answered', Sent')
      BY <1>0, <3>1 DEF Request, Sender, Sent
    <3> QED  BY <2>2, <2>4, <3>2 DEF Sent
  <2>5. ASSUME NEW echo \in BOOLEAN, OtherRequest, queue' = Append(queue, Request(0, "other", echo))
        PROVE  \A n \in 1 .. Len(queue') : Sender(queue'[n], pc', id', answered', Sent')
    <3>1. id' = id
      BY <2>5 DEF OtherRequest
    <3>2. Sender(Request(0, "other", echo), pc', id', answered', Sent')
      BY <1>0, <3>1 DEF Request, Sender
    <3> QED  BY <2>2, <2>5, <3>2
  <2>6. CASE queue # <<>> /\ queue' = Tail(queue)
    <3>1. \A n \in 1 .. Len(queue') : n + 1 \in 1 .. Len(queue) /\ queue'[n] = queue[n + 1]
      BY <2>1, <2>6, HeadTail
    <3> QED  BY <1>1, <3>1
  <2> QED  BY <2>3, <2>4, <2>5, <2>6, QueueChanges
<1>4. /\ pc' \in {"request", "wait", "poll", "fetch"} => id' > 0
      /\ pc' = "request" => answered' # id'
      /\ answered' <= id'
  <2>1. CASE UNCHANGED <<answered, id>> /\ pc' # "request" /\ (pc' \in {"wait", "poll", "fetch"} =>
                pc \in {"request", "wait", "poll", "fetch"})
    BY <2>1 DEF Owned
  <2>2. CASE Arm
    BY <1>0, <2>2 DEF Arm, Except, Owned
  <2>3. CASE Emit
    <3>1. job # Nil /\ UNCHANGED <<pc, id>> /\ (answered' = answered \/ (job.own # 0 /\ answered' = job.own))
      BY <2>3 DEF Emit
    <3>2. Sender(job, pc, id, answered, Sent)
      BY <3>1 DEF Owned
    <3> QED  BY <3>1, <3>2 DEF Owned, Sender, Leaving
  <2>4. CASE UNCHANGED <<answered, id, pc>>
    BY <2>4 DEF Owned
  <2>5. CASE Choose \/ StartItem \/ HandOver \/ CaptureWindow \/ Acknowledge \/ Score \/ Receive \/ Poll
             \/ SendRequest
    BY <2>1, <2>5 DEF Choose, StartItem, HandOver, CaptureWindow, Acknowledge, Score, Receive, Poll,
       SendRequest, Except
  <2>6. CASE CommandFails \/ Killed \/ Rerun \/ Fetch
    BY <2>1, <2>6 DEF CommandFails, Killed, Rerun, Fetch, Except
  <2>7. ASSUME NEW r \in Ranks, SetControl(r) PROVE UNCHANGED <<answered, id>> /\ (pc' = pc \/
              pc' \in {"window", "complete", "failed"})
    BY <2>7 DEF SetControl
  <2>8. ASSUME NEW r \in Ranks, RunLayer(r) PROVE UNCHANGED <<answered, id, pc>>
    BY <2>8 DEF RunLayer
  <2>9. CASE ClearArm \/ OtherRequest \/ StartRequest \/ DropRequest \/ NextLayer
    BY <2>4, <2>9 DEF ClearArm, OtherRequest, StartRequest, DropRequest, NextLayer
  <2>10. CASE \E r \in Ranks : SetControl(r)
    BY <2>1, <2>4, <2>7, <2>10
  <2>11. CASE \E r \in Ranks : RunLayer(r)
    BY <2>4, <2>8, <2>11
  <2> QED  BY <2>2, <2>3, <2>5, <2>6, <2>9, <2>10, <2>11 DEF CampaignNext, Controller, Endpoint
<1> HIDE DEF Sent
<1> QED  BY <1>2, <1>3, <1>4 DEF Owned

LEMMA SingleStep == ASSUME Typed, Waiting, Owned, Single, CampaignNext PROVE Single'
<1> USE DEF itemVars, rankVars, engineVars
<1>0. QueueOK /\ id \in Nat
  BY TypeParts DEF Typed, PlaceOK
<1> SUFFICES ASSUME pc' = "wait" PROVE Single'
  BY DEF Single
<1>1. pc = "wait" \/ (pc = "request" /\ SendRequest)
  <2>1. ~(Choose \/ StartItem \/ HandOver \/ CaptureWindow \/ Acknowledge \/ Score \/ Arm \/ Receive
          \/ Poll \/ Fetch)
    BY DEF Choose, StartItem, HandOver, CaptureWindow, Acknowledge, Score, Arm, Receive, Poll, Fetch, Except
  <2>2. ~(CommandFails \/ Killed \/ Rerun)
    BY DEF CommandFails, Killed, Rerun, Except
  <2>3. StartRequest \/ NextLayer \/ DropRequest \/ OtherRequest \/ ClearArm => pc = "wait"
    BY DEF StartRequest, NextLayer, DropRequest, OtherRequest, ClearArm
  <2>4. Emit => pc = "wait"
    BY DEF Emit
  <2>5. SendRequest => pc = "request"
    BY DEF SendRequest
  <2>6. \A r \in Ranks : SetControl(r) => pc = "wait"
    BY DEF SetControl
  <2>7. \A r \in Ranks : RunLayer(r) => pc = "wait"
    BY DEF RunLayer
  <2> QED  BY <2>1, <2>2, <2>3, <2>4, <2>5, <2>6, <2>7 DEF CampaignNext, Controller, Endpoint
<1>2. CASE SendRequest
  <2>1. /\ pc = "request" /\ job' = job
        /\ queue' = Append(queue, Request(id, Windows[item.stage][window], TRUE))
    BY <1>2 DEF SendRequest
  <2>2. (job # Nil => job.own = 0) /\ \A n \in 1 .. Len(queue) : queue[n].own = 0
    BY <2>1 DEF Owned, Sender, Leaving
  <2>3. \A n \in 1 .. Len(queue') : n = Len(queue) + 1 \/ queue'[n].own = 0
    <3> DEFINE q == Request(id, Windows[item.stage][window], TRUE)
    <3>1. queue \in Seq(Requests) /\ queue' = Append(queue, q)
      BY <1>0, <2>1 DEF QueueOK
    <3> HIDE DEF q
    <3>2. \A n \in 1 .. Len(queue') : n # Len(queue) + 1 => n \in 1 .. Len(queue) /\ queue'[n] = queue[n]
      BY <3>1
    <3> QED  BY <2>2, <3>2
  <2> QED  BY <2>1, <2>2, <2>3 DEF Single
<1>3. ASSUME pc = "wait", ~SendRequest PROVE Single'
  <2>1. /\ job # Nil /\ job.own # 0 => \A n \in 1 .. Len(queue) : queue[n].own = 0
        /\ \A n, m \in 1 .. Len(queue) : queue[n].own # 0 /\ queue[m].own # 0 => n = m
    BY <1>3 DEF Single
  <2>2. CASE queue' = queue
    <3>1. job' = Nil \/ (job # Nil /\ Same(job', job)) \/ queue = <<>> \/ ~(queue' = queue)
      <4>1. queue # <<>> => queue # Tail(queue)
        <5>1. queue \in Seq(Requests)
          BY <1>0 DEF QueueOK
        <5>2. queue # <<>> => Len(Tail(queue)) = Len(queue) - 1 /\ Len(queue) \in Nat
          BY <5>1, HeadTail
        <5> QED  BY <5>2
      <4> QED  BY <2>2, <4>1, JobChanges
    <3>2. queue = <<>> => Len(queue) = 0
      OBVIOUS
    <3> QED  BY <2>1, <2>2, <3>1, <3>2 DEF Single, Same
  <2>3. ASSUME NEW q, q.own = 0, queue' = Append(queue, q), job' = job PROVE Single'
    <3>1. queue \in Seq(Requests)
      BY <1>0 DEF QueueOK
    <3>2. \A n \in 1 .. Len(queue') : queue'[n].own # 0 => n \in 1 .. Len(queue) /\ queue'[n] = queue[n]
      BY <2>3, <3>1
    <3> QED  BY <2>1, <2>3, <3>2 DEF Single
  <2>4. ASSUME NEW echo \in BOOLEAN, OtherRequest, queue' = Append(queue, Request(0, "other", echo))
        PROVE  Single'
    <3> DEFINE q == Request(0, "other", echo)
    <3>1. q.own = 0
      BY DEF Request
    <3>2. job' = job /\ queue' = Append(queue, q)
      BY <2>4 DEF OtherRequest
    <3> HIDE DEF q
    <3> QED  BY <2>3, <3>1, <3>2
  <2>5. CASE (StartRequest \/ DropRequest) /\ queue # <<>> /\ queue' = Tail(queue)
    <3>1. queue \in Seq(Requests)
      BY <1>0 DEF QueueOK
    <3>2. 1 \in 1 .. Len(queue) /\ \A n \in 1 .. Len(queue') : n + 1 \in 1 .. Len(queue) /\ queue'[n] = queue[n + 1]
      BY <2>5, <3>1, HeadTail
    <3>3. \A n \in 1 .. Len(queue') : n \in Int /\ n + 1 # 1
      BY <3>1
    <3>4. \A n, m \in 1 .. Len(queue') : queue'[n].own # 0 /\ queue'[m].own # 0 => n = m
      <4> SUFFICES ASSUME NEW n \in 1 .. Len(queue'), NEW m \in 1 .. Len(queue'),
                          queue'[n].own # 0, queue'[m].own # 0 PROVE n = m
        OBVIOUS
      <4>1. n + 1 = m + 1
        BY <2>1, <3>2
      <4> QED  BY <3>3, <4>1
    <3>5. CASE job' = Nil \/ (job # Nil /\ Same(job', job))
      <4>1. job' # Nil /\ job'.own # 0 => \A n \in 1 .. Len(queue') : queue'[n].own = 0
        BY <2>1, <3>2, <3>5 DEF Same
      <4> QED  BY <3>4, <4>1 DEF Single
    <3>6. CASE Same(job', queue[1])
      <4>1. job'.own # 0 => \A n \in 1 .. Len(queue') : queue'[n].own = 0
        <5> SUFFICES ASSUME job'.own # 0, NEW n \in 1 .. Len(queue') PROVE queue'[n].own = 0
          OBVIOUS
        <5>1. queue[1].own # 0 /\ n + 1 # 1
          BY <3>3, <3>6 DEF Same
        <5> QED  BY <2>1, <3>2, <5>1
      <4> QED  BY <3>4, <4>1 DEF Single
    <3> QED  BY <3>5, <3>6, JobChanges
  <2> QED  BY <1>3, <2>2, <2>4, <2>5, QueueChanges
<1> QED  BY <1>1, <1>2, <1>3

LEMMA ServingStep == ASSUME Typed, Applied, Placed, Waiting, Owned, Serving, CampaignNext PROVE Serving'
<1> USE DEF itemVars, rankVars, engineVars
<1>1. PlaceOK /\ ControlsOK /\ QueueOK
  BY TypeParts DEF Typed
<1>2. CASE UNCHANGED <<job, loaded>> /\ (job # Nil => ~job.free \/ UNCHANGED <<pc, todo>>)
           /\ (pc' = "wait" => UNCHANGED <<pc, id, item>>)
  BY <1>1, <1>2 DEF Serving, Under, Aimed, QueueOK, Requests
<1>3. job # Nil /\ job.free => pc \in {"complete", "failed"} /\ todo = {}
  BY DEF Serving, Placed
<1>4. CASE StartItem \/ Choose \/ HandOver \/ CaptureWindow \/ Acknowledge \/ Score \/ Arm \/ Receive
           \/ Poll \/ Fetch \/ ClearArm
  BY <1>2, <1>3, <1>4 DEF StartItem, Choose, HandOver, CaptureWindow, Acknowledge, Score, Arm, Receive,
     Poll, Fetch, ClearArm, Except
<1>5. CASE CommandFails \/ Killed
  BY <1>2, <1>3, <1>5 DEF CommandFails, Killed, Except, Ended
<1>6. ASSUME NEW r \in Ranks, SetControl(r) PROVE Serving'
  BY <1>2, <1>3, <1>6 DEF SetControl
<1>7. CASE OtherRequest
  BY <1>2, <1>7 DEF OtherRequest
<1>8. CASE Rerun
  <2>1. job' = IF job = Nil THEN Nil ELSE [job EXCEPT !.free = FALSE]
    BY <1>8 DEF Rerun
  <2>2. pc' = "next" /\ loaded' = loaded
    BY <1>8 DEF Rerun
  <2>3. job # Nil => /\ job'.ran = job.ran /\ job'.gains = job.gains /\ ~job'.free
    BY <1>1, <2>1 DEF QueueOK, Requests
  <2> QED  BY <2>1, <2>2, <2>3 DEF Serving
<1>9. CASE DropRequest
  <2>1. (job' = Nil \/ job' = job) /\ UNCHANGED <<loaded, pc, todo, id, item>>
    BY <1>9 DEF DropRequest
  <2> QED  BY <2>1 DEF Serving, Under, Aimed
<1>10. CASE StartRequest
  <2> DEFINE f == pc = "complete" \/ (pc = "failed" /\ todo = {})
  <2>1. queue # <<>> /\ job' = [Head(queue) EXCEPT !.free = f] /\ UNCHANGED <<loaded, pc, todo, id, item>>
    BY <1>10 DEF StartRequest
  <2>2. Head(queue) \in Requests /\ Fresh(Head(queue))
    <3>1. queue \in Seq(Requests)
      BY <1>1 DEF QueueOK
    <3>2. Len(queue) \in Nat /\ Len(queue) >= 1 /\ Head(queue) = queue[1]
      BY <2>1, <3>1, HeadTail
    <3> QED  BY <2>1, <3>1, <3>2 DEF Waiting
  <2> DEFINE q == Head(queue)
  <2>3. q \in Requests /\ Fresh(q) /\ job' = [q EXCEPT !.free = f]
    BY <2>1, <2>2
  <2> HIDE DEF q, f
  <2>4. job'.ran = {} /\ job'.gains = {} /\ job'.layer = 3 /\ job'.free = f
    BY <2>3 DEF Fresh, Requests
  <2> QED  BY <2>1, <2>4 DEF Serving, Under, f
<1>11. ASSUME NEW r \in Ranks, RunLayer(r) PROVE Serving'
  <2>1. PICK now \in Controls :
           /\ job # Nil /\ r \notin job.ran /\ job \in Requests
           /\ now = IF job.layer = 3 THEN file[r] ELSE loaded[r]
           /\ loaded' = [loaded EXCEPT ![r] = now]
           /\ version' = [version EXCEPT ![r][job.layer] = now.id]
           /\ applied' = [applied EXCEPT ![r][job.layer] = now.gains]
           /\ job' = [job EXCEPT !.ran = @ \cup {r}, !.gains = @ \cup {now.gains}]
    BY <1>11, RunGains
  <2>2. UNCHANGED <<pc, todo, id, item, file>>
    BY <1>11 DEF RunLayer
  <2>3. /\ job'.ran = job.ran \cup {r} /\ job'.gains = job.gains \cup {now.gains}
        /\ job'.layer = job.layer /\ job'.free = job.free /\ job'.own = job.own
    BY <2>1 DEF Requests
  <2>4. ASSUME NEW g, Under(g), job.layer = 3 => file[r].gains = g
        PROVE  Under(g)'
    <3>1. now.gains = g
      BY <2>1, <2>4 DEF Under
    <3>2. \A q \in Ranks : loaded'[q] = IF q = r THEN now ELSE loaded[q]
      BY <1>1, <2>1 DEF ControlsOK
    <3> QED  BY <2>3, <2>4, <3>1, <3>2 DEF Under
  <2>5. job.free => Under("one")'
    <3>1. job.free => Under("one") /\ file[r].gains = "one"
      BY <1>3, <2>1 DEF Serving, Placed
    <3> QED  BY <2>4, <3>1
  <2>6. pc = "wait" /\ job.own = id => Under(Aimed)'
    <3>1. pc = "wait" /\ job.own = id => Under(Aimed) /\ file[r].gains = Aimed
      BY <2>1 DEF Serving, Placed, Capturing
    <3>2. Aimed' = Aimed
      BY <2>2 DEF Aimed
    <3> QED  BY <2>4, <3>1, <3>2 DEF Under
  <2> QED  BY <2>1, <2>2, <2>3, <2>5, <2>6 DEF Serving
<1>12. CASE NextLayer
  <2>1. /\ job # Nil /\ job.ran = Ranks /\ job' = [job EXCEPT !.layer = @ + 1, !.ran = {}]
        /\ UNCHANGED <<pc, todo, id, item, loaded>>
    BY <1>12 DEF NextLayer
  <2>2. job'.ran = {} /\ job'.gains = job.gains /\ job'.free = job.free /\ job'.own = job.own
    BY <1>1, <2>1 DEF QueueOK, Requests
  <2>3. ASSUME NEW g, Under(g) PROVE Under(g)'
    BY <2>1, <2>2, <2>3 DEF Under
  <2>4. Aimed' = Aimed
    BY <2>1 DEF Aimed
  <2>5. pc = "wait" /\ job.own = id => Under(Aimed)'
    BY <2>1, <2>3, <2>4 DEF Serving, Under
  <2> QED  BY <2>1, <2>2, <2>3, <2>5 DEF Serving
<1>13. CASE Emit
  <2>1. job # Nil /\ job.ran = Ranks /\ UNCHANGED <<pc, todo, id, item, loaded>>
    BY <1>13 DEF Emit
  <2>2. CASE job.chunk < Chunks
    <3>1. job' = [job EXCEPT !.chunk = @ + 1, !.layer = 3, !.ran = {}]
      BY <1>13, <2>2 DEF Emit
    <3>2. job'.ran = {} /\ job'.gains = job.gains /\ job'.free = job.free /\ job'.own = job.own /\ job'.layer = 3
      BY <1>1, <2>1, <3>1 DEF QueueOK, Requests
    <3>3. ASSUME NEW g, Under(g) PROVE Under(g)'
      BY <2>1, <3>2, <3>3 DEF Under
    <3>4. Aimed' = Aimed
      BY <2>1 DEF Aimed
    <3>5. pc = "wait" /\ job.own = id => Under(Aimed)'
      BY <2>1, <3>3, <3>4 DEF Serving, Under
    <3> QED  BY <2>1, <3>2, <3>3, <3>5 DEF Serving
  <2>3. CASE ~(job.chunk < Chunks)
    BY <1>13, <2>3 DEF Emit, Serving
  <2> QED  BY <2>2, <2>3
<1>14. CASE SendRequest
  <2>1. pc = "request" /\ pc' = "wait" /\ UNCHANGED <<job, loaded, todo, id, item>>
    BY <1>14 DEF SendRequest
  <2>2. job # Nil => job.own # id
    BY <1>1, <2>1 DEF Owned, Sender, Leaving, PlaceOK
  <2> QED  BY <1>3, <2>1, <2>2 DEF Serving, Under
<1> QED  BY <1>4, <1>5, <1>6, <1>7, <1>8, <1>9, <1>10, <1>11, <1>12, <1>13, <1>14
         DEF CampaignNext, Controller, Endpoint

-----------------------------------------------------------------------------
(* What is captured *)

\* Within a capture a row of a prompt follows the row before it.
Follows(rows, n) == rows[n - 1].tokens = rows[n].tokens /\ rows[n - 1].pos = rows[n].pos - 1
Chained(rows) == \A n \in 1 .. Len(rows) : n > 1 /\ rows[n].pos > 1 => Follows(rows, n)
\* The rows of a window were served under g.
ServedUnder(rows, g) == \A n \in 1 .. Len(rows) : rows[n].tokens # "other" => rows[n].gains = {g}
EndsWith(rows, w, p) == rows # <<>> => IsRow(rows[Len(rows)], w, p)

Expecting == {"request", "wait", "poll", "fetch"}
Numbered ==
  /\ tap.arm # Nil => tap.arm <= id
  /\ tap.sink # Nil => tap.sink.id <= id
  /\ tap.sealed # Nil => tap.sealed.id <= id
Chains ==
  /\ tap.sink # Nil => Chained(Normalized(tap.sink.parts))
  /\ tap.sealed # Nil => Chained(Normalized(tap.sealed.parts))
Continues ==
  tap.arm # Nil /\ tap.sink # Nil /\ tap.sink.id = tap.arm /\ job # Nil /\ job.echo /\ job.chunk > 1 =>
    EndsWith(Normalized(tap.sink.parts), job.tokens, (job.chunk - 1) * 2)
Clean ==
  pc \in Expecting =>
    /\ tap.sink # Nil /\ tap.sink.id = id => ServedUnder(Normalized(tap.sink.parts), Aimed)
    /\ tap.sealed # Nil /\ tap.sealed.id = id => ServedUnder(Normalized(tap.sealed.parts), Aimed)
Captured == Numbered /\ Chains /\ Continues /\ Clean

\* A part of one row counts for nothing, and so does a batch that was cut to one.
LEMMA AddedRows ==
  ASSUME NEW t \in Taps, NEW piece \in Seq(LogitRows)
  PROVE  /\ Normalized(Before(t)) \in Seq(LogitRows)
         /\ Normalized(Added(t, piece)) = Joined(Normalized(Before(t)), piece)
<1>1. Before(t) \in Seq(Seq(LogitRows))
  BY BeforeTyped DEF Parts
<1> DEFINE b == Before(t)
<1>2. b \in Seq(Seq(LogitRows))
  BY <1>1
<1> HIDE DEF b
<1>3. Normalized(b) \in Seq(LogitRows) /\ Normalized(Append(b, piece)) = Joined(Normalized(b), piece)
  BY <1>2, NormalizedAppend
<1> QED  BY <1>3 DEF b, Added

\* What becomes of the tap: it is sealed with the rows s, or it goes on with the rows g.
SealedWith(t, new, s) ==
  new.arm = Nil /\ new.sink = Nil /\ new.sealed.id = t.arm /\ Normalized(new.sealed.parts) = s
GoesOn(t, new, g) ==
  /\ new.arm = t.arm /\ new.sink # Nil /\ new.sink.id = t.arm /\ Normalized(new.sink.parts) = g
  /\ new.sealed = t.sealed

LEMMA SealsRows ==
  ASSUME NEW t \in Taps, NEW piece \in Seq(LogitRows)
  PROVE  SealedWith(t, Seals(t, piece), Joined(Normalized(Before(t)), piece))
BY AddedRows DEF SealedWith, Seals

LEMMA GrowsRows ==
  ASSUME NEW t \in Taps, NEW piece \in Seq(LogitRows), NEW n \in Nat, t.arm # Nil
  PROVE  GoesOn(t, Grows(t, piece, n), Joined(Normalized(Before(t)), piece))
<1> DEFINE a == Added(t, piece)
           sink == [id |-> t.arm, rows |-> n, parts |-> a]
           new == [t EXCEPT !.sink = sink]
<1>1. Grows(t, piece, n) = new
  BY DEF Grows
<1>2. sink.id = t.arm /\ sink.parts = a
  OBVIOUS
<1> HIDE DEF sink
<1>3. new.arm = t.arm /\ new.sink = sink /\ new.sealed = t.sealed
  BY DEF Taps
<1>5. sink # Nil
  <2>1. a \in Parts /\ t.arm \in Nat
    BY BeforeTyped DEF Added, Parts, Taps
  <2> HIDE DEF a
  <2>2. sink \in Sinks
    BY <2>1 DEF sink, Sinks
  <2> QED  BY <2>2, CampaignAssumption
<1> HIDE DEF new
<1>4. Normalized(a) = Joined(Normalized(Before(t)), piece)
  BY AddedRows
<1> HIDE DEF a
<1> QED  BY <1>1, <1>2, <1>3, <1>4, <1>5 DEF GoesOn

LEMMA CaptureOne ==
  ASSUME NEW t \in Taps, NEW row \in LogitRows, t.arm # Nil
  PROVE  \/ SealedWith(t, Capture(t, <<row>>), Normalized(Before(t)))
         \/ GoesOn(t, Capture(t, <<row>>), Normalized(Before(t)))
<1> DEFINE rows == <<row>>
           old == Normalized(Before(t))
<1>1. rows \in Seq(LogitRows) /\ Len(rows) = 1
  OBVIOUS
<1>2. \A take \in Int : take <= 1 => Len(SubSeq(rows, 1, take)) <= 1 /\ SubSeq(rows, 1, take) \in Seq(LogitRows)
  <2> SUFFICES ASSUME NEW take \in Int, take <= 1
               PROVE  Len(SubSeq(rows, 1, take)) <= 1 /\ SubSeq(rows, 1, take) \in Seq(LogitRows)
    OBVIOUS
  <2>1. take <= Len(rows)
    BY <1>1
  <2>2. SubSeq(rows, 1, take) \in Seq(LogitRows)
    BY <1>1, <2>1, PrefixIs, Zenon
  <2>3. Len(SubSeq(rows, 1, take)) <= 1
    OBVIOUS
  <2> QED  BY <2>2, <2>3
<1>3. \A piece : Len(piece) <= 1 => Joined(old, piece) = old
  BY DEF Joined
<1> HIDE DEF rows
<1>4. CASE \E take \in Int : take <= Len(rows) /\ Capture(t, rows) = Seals(t, SubSeq(rows, 1, take))
  <2>1. PICK take \in Int : take <= 1 /\ Capture(t, rows) = Seals(t, SubSeq(rows, 1, take))
    BY <1>1, <1>4
  <2> DEFINE piece == SubSeq(rows, 1, take)
  <2>2. piece \in Seq(LogitRows) /\ Capture(t, rows) = Seals(t, piece) /\ Joined(old, piece) = old
    <3>1. Len(piece) <= 1 /\ piece \in Seq(LogitRows)
      BY <1>2, <2>1
    <3> QED  BY <1>3, <2>1, <3>1
  <2> HIDE DEF piece, old
  <2>3. SealedWith(t, Seals(t, piece), Joined(Normalized(Before(t)), piece))
    BY <2>2, SealsRows
  <2> QED  BY <2>2, <2>3 DEF old, rows
<1>5. CASE \E n \in Nat : Capture(t, rows) = Grows(t, rows, n)
  <2>1. PICK n \in Nat : Capture(t, rows) = Grows(t, rows, n)
    BY <1>5
  <2>2. GoesOn(t, Grows(t, rows, n), Joined(Normalized(Before(t)), rows))
    BY <1>1, GrowsRows
  <2>3. Joined(old, rows) = old
    <3>1. Len(rows) <= 1
      BY <1>1
    <3> QED  BY <1>3, <3>1
  <2> QED  BY <2>1, <2>2, <2>3 DEF rows
<1> QED  BY <1>1, <1>4, <1>5, CaptureCases

LEMMA CaptureTwo ==
  ASSUME NEW t \in Taps, NEW rows \in Seq(LogitRows), Len(rows) = 2, t.arm # Nil
  PROVE  \/ SealedWith(t, Capture(t, rows), Normalized(Before(t)))
         \/ SealedWith(t, Capture(t, rows), Normalized(Before(t)) \o rows)
         \/ GoesOn(t, Capture(t, rows), Normalized(Before(t)) \o rows)
<1> DEFINE old == Normalized(Before(t))
<1>2. ASSUME NEW take \in Int, take <= 2
      PROVE  /\ SubSeq(rows, 1, take) \in Seq(LogitRows)
             /\ Len(SubSeq(rows, 1, take)) <= 1 \/ SubSeq(rows, 1, take) = rows
  <2>1. CASE take = 2
    BY <2>1
  <2>2. CASE take # 2
    <3>1. take <= 1
      BY <1>2, <2>2
    <3>2. SubSeq(rows, 1, take) \in Seq(LogitRows)
      <4>1. take <= Len(rows)
        BY <1>2
      <4> QED  BY <4>1, PrefixIs, Zenon
    <3>3. Len(SubSeq(rows, 1, take)) <= 1
      BY <3>1
    <3> QED  BY <3>2, <3>3
  <2> QED  BY <2>1, <2>2
<1>3. \A piece : Len(piece) <= 1 => Joined(old, piece) = old
  BY DEF Joined
<1>31. Joined(old, rows) = old \o rows
  BY DEF Joined
<1>4. CASE \E take \in Int : take <= Len(rows) /\ Capture(t, rows) = Seals(t, SubSeq(rows, 1, take))
  <2>1. PICK take \in Int : take <= 2 /\ Capture(t, rows) = Seals(t, SubSeq(rows, 1, take))
    BY <1>4
  <2> DEFINE piece == SubSeq(rows, 1, take)
  <2>2. piece \in Seq(LogitRows) /\ Capture(t, rows) = Seals(t, piece) /\ (Len(piece) <= 1 \/ piece = rows)
    BY <1>2, <2>1
  <2> HIDE DEF piece
  <2>3. SealedWith(t, Seals(t, piece), Joined(old, piece))
    BY <2>2, SealsRows
  <2>4. Joined(old, piece) = old \/ Joined(old, piece) = old \o rows
    BY <1>3, <1>31, <2>2
  <2> HIDE DEF old
  <2>5. SealedWith(t, Capture(t, rows), Joined(old, piece))
    BY <2>2, <2>3
  <2> QED  BY <2>4, <2>5 DEF old
<1>5. CASE \E n \in Nat : Capture(t, rows) = Grows(t, rows, n)
  <2>1. PICK n \in Nat : Capture(t, rows) = Grows(t, rows, n)
    BY <1>5
  <2>2. GoesOn(t, Grows(t, rows, n), Joined(old, rows))
    BY GrowsRows
  <2> QED  BY <1>31, <2>1, <2>2
<1> QED  BY <1>4, <1>5, CaptureCases

\* The rows of one call of the batch join those that were there.
LEMMA EmitTap ==
  ASSUME Typed, Emit, tap.arm # Nil
  PROVE  \/ SealedWith(tap, tap', Normalized(Before(tap)))
         \/ job.echo /\ SealedWith(tap, tap', Normalized(Before(tap)) \o Batch)
         \/ job.echo /\ GoesOn(tap, tap', Normalized(Before(tap)) \o Batch)
         \/ ~job.echo /\ GoesOn(tap, tap', Normalized(Before(tap)))
<1> DEFINE sampled == Capture(tap, <<Row(0)>>)
           old == Normalized(Before(tap))
<1>1. tap \in Taps /\ job \in Requests
  BY TypeParts DEF Typed, QueueOK, Emit
<1>2. Row(0) \in LogitRows /\ Batch \in Seq(LogitRows) /\ Len(Batch) = 2 /\ <<Row(0)>> \in Seq(LogitRows)
  BY <1>1, RowTyped
<1>3. tap' = IF job.echo THEN Capture(sampled, Batch) ELSE sampled
  BY DEF Emit
<1>4. SealedWith(tap, sampled, old) \/ GoesOn(tap, sampled, old)
  BY <1>1, <1>2, CaptureOne
<1>5. sampled \in Taps
  BY <1>1, <1>2, CaptureTyped
<1> HIDE DEF sampled
<1>6. CASE SealedWith(tap, sampled, old)
  <2>1. Capture(sampled, Batch) = sampled
    BY <1>6 DEF SealedWith, Capture
  <2> QED  BY <1>3, <1>6, <2>1
<1>7. CASE GoesOn(tap, sampled, old) /\ job.echo
  <2>1. sampled.arm = tap.arm /\ sampled.sink # Nil /\ sampled.sink.id = tap.arm /\ Normalized(sampled.sink.parts) = old
    BY <1>7 DEF GoesOn
  <2>2. Normalized(Before(sampled)) = old
    BY <2>1 DEF Before
  <2>3. \/ SealedWith(sampled, tap', old) \/ SealedWith(sampled, tap', old \o Batch)
        \/ GoesOn(sampled, tap', old \o Batch)
    BY <1>2, <1>3, <1>5, <1>7, <2>1, <2>2, CaptureTwo
  <2> QED  BY <1>7, <2>1, <2>3 DEF SealedWith, GoesOn
<1>8. CASE GoesOn(tap, sampled, old) /\ ~job.echo
  BY <1>3, <1>8
<1> QED  BY <1>4, <1>6, <1>7, <1>8

\* A batch joins the chain when it goes on where the rows end.
LEMMA Concatenated ==
  ASSUME NEW S, NEW old \in Seq(S), NEW b \in Seq(S)
  PROVE  /\ old \o b \in Seq(S) /\ Len(old) \in Nat /\ Len(b) \in Nat /\ Len(old \o b) = Len(old) + Len(b)
         /\ \A k \in 1 .. Len(old) + Len(b) : (old \o b)[k] = IF k <= Len(old) THEN old[k] ELSE b[k - Len(old)]
OBVIOUS

LEMMA JoinedRows ==
  ASSUME NEW old \in Seq(LogitRows), NEW b \in Seq(LogitRows), Len(b) = 2
  PROVE  /\ old \o b \in Seq(LogitRows) /\ Len(old) \in Nat /\ Len(old \o b) = Len(old) + 2
         /\ \A n \in 1 .. Len(old) : (old \o b)[n] = old[n]
         /\ (old \o b)[Len(old) + 1] = b[1] /\ (old \o b)[Len(old) + 2] = b[2]
<1> DEFINE rows == old \o b
           m == Len(old)
<1>1. /\ rows \in Seq(LogitRows) /\ m \in Nat /\ Len(rows) = m + 2
      /\ \A k \in 1 .. m + 2 : rows[k] = IF k <= m THEN old[k] ELSE b[k - m]
  <2>1. /\ rows \in Seq(LogitRows) /\ m \in Nat /\ Len(b) \in Nat /\ Len(rows) = m + Len(b)
        /\ \A k \in 1 .. m + Len(b) : rows[k] = IF k <= m THEN old[k] ELSE b[k - m]
    BY Concatenated
  <2> HIDE DEF rows, m
  <2> QED  BY <2>1
<1> HIDE DEF rows, m
<1>2. \A n \in 1 .. m : rows[n] = old[n]
  BY <1>1
<1>3. rows[m + 1] = b[1]
  <2>1. m + 1 \in 1 .. m + 2 /\ ~(m + 1 <= m) /\ (m + 1) - m = 1
    BY <1>1
  <2> QED  BY <1>1, <2>1
<1>4. rows[m + 2] = b[2]
  <2>1. m + 2 \in 1 .. m + 2 /\ ~(m + 2 <= m) /\ (m + 2) - m = 2
    BY <1>1
  <2> QED  BY <1>1, <2>1
<1> QED  BY <1>1, <1>2, <1>3, <1>4 DEF rows, m

LEMMA ChainJoins ==
  ASSUME NEW old \in Seq(LogitRows), Chained(old), NEW b \in Seq(LogitRows), Len(b) = 2,
         NEW w, NEW q \in Nat, IsRow(b[1], w, q + 1), IsRow(b[2], w, q + 2),
         q > 0 => EndsWith(old, w, q)
  PROVE  Chained(old \o b) /\ EndsWith(old \o b, w, q + 2)
<1> DEFINE rows == old \o b
           m == Len(old)
<1>1. /\ m \in Nat /\ Len(rows) = m + 2 /\ \A n \in 1 .. m : rows[n] = old[n]
      /\ rows[m + 1] = b[1] /\ rows[m + 2] = b[2]
  BY JoinedRows
<1>2. m > 0 => old # <<>>
  OBVIOUS
<1>3. EndsWith(rows, w, q + 2)
  BY <1>1 DEF EndsWith
<1> HIDE DEF rows
<1>4. ASSUME NEW n \in 1 .. Len(rows), n > 1, rows[n].pos > 1 PROVE Follows(rows, n)
  <2>1. CASE n \in 1 .. m
    <3>1. n - 1 \in 1 .. m /\ rows[n - 1] = old[n - 1] /\ rows[n] = old[n]
      BY <1>1, <1>4, <2>1
    <3>2. Follows(old, n)
      BY <1>4, <2>1, <3>1 DEF Chained
    <3> QED  BY <3>1, <3>2 DEF Follows
  <2>2. CASE n = m + 1
    <3>1. m > 0 /\ n - 1 = m /\ m \in 1 .. m
      BY <1>1, <1>4, <2>2
    <3>2. rows[n - 1] = old[m] /\ rows[n] = b[1]
      BY <1>1, <2>2, <3>1
    <3>3. b[1].tokens = w /\ b[1].pos = q + 1 /\ q > 0
      BY <1>4, <3>2 DEF IsRow
    <3>4. old[m].tokens = w /\ old[m].pos = q
      BY <1>2, <3>1, <3>3 DEF EndsWith, IsRow
    <3> QED  BY <3>2, <3>3, <3>4 DEF Follows
  <2>3. CASE n = m + 2
    <3>1. n - 1 = m + 1
      BY <1>1, <2>3
    <3>2. rows[n - 1] = b[1] /\ rows[n] = b[2]
      BY <1>1, <2>3, <3>1
    <3> QED  BY <3>2 DEF Follows, IsRow
  <2> QED  BY <1>1, <2>1, <2>2, <2>3
<1> QED  BY <1>3, <1>4 DEF Chained, rows

LEMMA ServedJoins ==
  ASSUME NEW old \in Seq(LogitRows), NEW b \in Seq(LogitRows), Len(b) = 2, NEW g, ServedUnder(old, g),
         \A n \in 1 .. 2 : b[n].tokens # "other" => b[n].gains = {g}
  PROVE  ServedUnder(old \o b, g)
<1> DEFINE rows == old \o b
           m == Len(old)
<1>1. /\ m \in Nat /\ Len(rows) = m + 2 /\ \A n \in 1 .. m : rows[n] = old[n]
      /\ rows[m + 1] = b[1] /\ rows[m + 2] = b[2]
  BY JoinedRows
<1> HIDE DEF rows
<1>2. ASSUME NEW n \in 1 .. Len(rows), rows[n].tokens # "other" PROVE rows[n].gains = {g}
  <2>1. CASE n \in 1 .. m
    BY <1>1, <1>2, <2>1 DEF ServedUnder
  <2>2. CASE n = m + 1 \/ n = m + 2
    BY <1>1, <1>2, <2>2
  <2> QED  BY <1>1, <2>1, <2>2
<1> QED  BY <1>2 DEF ServedUnder, rows

\* The rows that were there, and those of the batch.
LEMMA BeforeEmit ==
  ASSUME Typed, Serving, Owned, Captured, Emit, tap.arm # Nil
  PROVE  LET old == Normalized(Before(tap))
         IN /\ old \in Seq(LogitRows) /\ Chained(old)
            /\ Batch \in Seq(LogitRows) /\ Len(Batch) = 2
            /\ job.echo => Chained(old \o Batch) /\ EndsWith(old \o Batch, job.tokens, job.chunk * 2)
            /\ pc \in Expecting /\ tap.arm = id =>
                 ServedUnder(old, Aimed) /\ ServedUnder(old \o Batch, Aimed)
<1> DEFINE old == Normalized(Before(tap))
           q == (job.chunk - 1) * 2
<1>1. tap \in Taps /\ job \in Requests /\ job # Nil
  BY TypeParts DEF Typed, QueueOK, Emit
<1>2. old \in Seq(LogitRows)
  <2>1. <<>> \in Seq(LogitRows)
    OBVIOUS
  <2> QED  BY <1>1, <2>1, AddedRows
<1>3. Batch \in Seq(LogitRows) /\ Len(Batch) = 2 /\ Batch[1] = Row(q + 1) /\ Batch[2] = Row(q + 2)
  BY <1>1, RowTyped
<1>4. job.chunk \in Nat /\ job.chunk >= 1
  BY <1>1, CampaignAssumption DEF Requests
<1>5. q \in Nat /\ q + 2 = job.chunk * 2 /\ (q > 0 => job.chunk > 1)
  BY <1>4
<1> DEFINE sink == tap.sink # Nil /\ tap.sink.id = tap.arm
<1>6. (sink => old = Normalized(tap.sink.parts)) /\ (~sink => old = <<>>)
  BY NormalizedEmpty DEF Before
<1>7. Chained(old)
  <2>1. Chained(<<>>)
    BY DEF Chained
  <2> QED  BY <1>6, <2>1 DEF Captured, Chains
<1>8. job.echo /\ q > 0 => EndsWith(old, job.tokens, q)
  <2>1. EndsWith(<<>>, job.tokens, q)
    BY DEF EndsWith
  <2>2. CASE sink
    BY <1>1, <1>5, <1>6, <2>2 DEF Captured, Continues
  <2> QED  BY <1>6, <2>1, <2>2
<1>9. IsRow(Batch[1], job.tokens, q + 1) /\ IsRow(Batch[2], job.tokens, q + 2)
  BY <1>3 DEF IsRow, Row
<1>10. ASSUME pc \in Expecting, tap.arm = id PROVE ServedUnder(old, Aimed)
  <2>1. ServedUnder(<<>>, Aimed)
    BY DEF ServedUnder
  <2> QED  BY <1>6, <1>10, <2>1 DEF Captured, Clean
<1>11. ASSUME pc \in Expecting PROVE \A n \in 1 .. 2 : Batch[n].tokens # "other" => Batch[n].gains = {Aimed}
  <2>1. job.tokens # "other" => job.own # 0
    BY <1>1 DEF Owned, Sender
  <2>2. job.own # 0 => pc = "wait" /\ job.own = id
    BY <1>1, <1>11 DEF Owned, Sender, Expecting, Leaving
  <2>3. job.own # 0 => job.gains \subseteq {Aimed} /\ job.gains # {}
    <3>1. job.ran # {}
      <4>1. 0 \in Ranks
        BY DEF Ranks, TP
      <4> QED  BY <4>1 DEF Emit
    <3> QED  BY <1>1, <2>2, <3>1 DEF Serving, Under
  <2> QED  BY <1>3, <2>1, <2>3 DEF Row
<1> HIDE DEF old, q
<1>12. job.echo => Chained(old \o Batch) /\ EndsWith(old \o Batch, job.tokens, job.chunk * 2)
  BY <1>2, <1>3, <1>5, <1>7, <1>8, <1>9, ChainJoins
<1>13. pc \in Expecting /\ tap.arm = id => ServedUnder(old, Aimed) /\ ServedUnder(old \o Batch, Aimed)
  BY <1>2, <1>3, <1>10, <1>11, ServedJoins
<1> QED  BY <1>2, <1>3, <1>7, <1>12, <1>13 DEF old

\* Else the tap's rows stay: an arm is set with a number of its own, or taken away.
LEMMA TapChanges ==
  ASSUME Typed, CampaignNext, ~Emit
  PROVE  /\ tap'.sink = tap.sink /\ tap'.sealed = tap.sealed
         /\ \/ tap'.arm = tap.arm \/ tap'.arm = Nil
            \/ tap'.arm = id + 1 /\ id' = id + 1
<1> USE DEF itemVars, rankVars, engineVars
<1>1. tap \in Taps
  BY TypeParts DEF Typed
<1>2. tap' = tap \/ (\E a : tap' = [tap EXCEPT !.arm = a] /\ (a = Nil \/ (a = id + 1 /\ id' = id + 1)))
  <2>1. CASE Choose \/ StartItem \/ HandOver \/ CaptureWindow \/ Acknowledge \/ Score \/ Receive
             \/ SendRequest \/ Poll \/ Fetch \/ CommandFails \/ Killed \/ Rerun
    BY <2>1 DEF Choose, StartItem, HandOver, CaptureWindow, Acknowledge, Score, Receive, SendRequest,
       Poll, Fetch, CommandFails, Killed, Rerun
  <2>2. CASE StartRequest \/ NextLayer \/ DropRequest \/ OtherRequest
    BY <2>2 DEF StartRequest, NextLayer, DropRequest, OtherRequest
  <2>3. ASSUME NEW r \in Ranks, SetControl(r) \/ RunLayer(r) PROVE tap' = tap
    BY <2>3 DEF SetControl, RunLayer
  <2>4. CASE Arm
    BY <2>4 DEF Arm
  <2>5. CASE ClearArm
    BY <2>5 DEF ClearArm
  <2> QED  BY <2>1, <2>2, <2>3, <2>4, <2>5 DEF CampaignNext, Controller, Endpoint
<1>3. CASE tap' = tap
  BY <1>3
<1>4. ASSUME NEW a, tap' = [tap EXCEPT !.arm = a]
      PROVE  tap'.sink = tap.sink /\ tap'.sealed = tap.sealed /\ tap'.arm = a
  BY <1>1, <1>4 DEF Taps
<1> QED  BY <1>2, <1>3, <1>4

LEMMA IdGrows ==
  ASSUME Typed, CampaignNext
  PROVE  /\ id' = id \/ (Arm /\ id' = id + 1)
         /\ pc' \in Expecting => \/ pc \in Expecting /\ UNCHANGED <<id, item>>
                                 \/ Arm /\ id' = id + 1
<1> USE DEF itemVars, rankVars, engineVars
<1>1. CASE Choose \/ StartItem \/ HandOver \/ CaptureWindow \/ Acknowledge \/ Score
  BY <1>1 DEF Choose, StartItem, HandOver, CaptureWindow, Acknowledge, Score, Except, Expecting
<1>2. CASE Receive \/ SendRequest \/ Poll \/ Fetch
  BY <1>2 DEF Receive, SendRequest, Poll, Fetch, Except, Expecting
<1>3. CASE Arm
  BY <1>3 DEF Arm, Except, Expecting
<1>4. CASE CommandFails \/ Killed \/ Rerun
  BY <1>4 DEF CommandFails, Killed, Rerun, Except, Expecting
<1>5. ASSUME NEW r \in Ranks, SetControl(r) PROVE id' = id /\ pc' \notin Expecting
  BY <1>5 DEF SetControl, Expecting
<1>6. ASSUME NEW r \in Ranks, RunLayer(r) PROVE UNCHANGED <<id, pc, item>>
  BY <1>6 DEF RunLayer
<1>7. CASE StartRequest \/ NextLayer \/ DropRequest \/ OtherRequest \/ ClearArm
  BY <1>7 DEF StartRequest, NextLayer, DropRequest, OtherRequest, ClearArm
<1>8. CASE Emit
  BY <1>8 DEF Emit
<1> QED  BY <1>1, <1>2, <1>3, <1>4, <1>5, <1>6, <1>7, <1>8 DEF CampaignNext, Controller, Endpoint

LEMMA EmitCaptured == ASSUME Typed, Serving, Owned, Captured, Emit PROVE Captured'
<1> USE DEF itemVars, rankVars, engineVars
<1>1. UNCHANGED <<pc, id, item>> /\ Aimed' = Aimed /\ job # Nil
  BY DEF Emit, Aimed
<1>2. job' = Nil \/ (job' # Nil /\ job'.tokens = job.tokens /\ job'.echo = job.echo /\ job'.chunk = job.chunk + 1)
  <2>1. job \in Requests
    BY TypeParts DEF Typed, QueueOK, Emit
  <2>2. job' = Nil \/ job' = [job EXCEPT !.chunk = @ + 1, !.layer = 3, !.ran = {}]
    BY DEF Emit
  <2> QED  BY <2>1, <2>2 DEF Requests
<1>3. CASE tap.arm = Nil
  <2>1. tap' = tap
    BY <1>3 DEF Emit, Capture
  <2> QED  BY <1>1, <1>3, <2>1 DEF Captured, Numbered, Chains, Continues, Clean
<1>4. CASE tap.arm # Nil
  <2> DEFINE old == Normalized(Before(tap))
             all == old \o Batch
  <2>1. /\ Chained(old)
        /\ job.echo => Chained(all) /\ EndsWith(all, job.tokens, job.chunk * 2)
        /\ pc \in Expecting /\ tap.arm = id => ServedUnder(old, Aimed) /\ ServedUnder(all, Aimed)
    BY <1>4, BeforeEmit
  <2>2. \/ SealedWith(tap, tap', old)
        \/ job.echo /\ SealedWith(tap, tap', all)
        \/ job.echo /\ GoesOn(tap, tap', all)
        \/ ~job.echo /\ GoesOn(tap, tap', old)
    BY <1>4, EmitTap
  <2> HIDE DEF old, all
  <2>3. tap.arm <= id
    BY <1>4 DEF Captured, Numbered
  <2>4. ASSUME NEW s, SealedWith(tap, tap', s), Chained(s),
               pc \in Expecting /\ tap.arm = id => ServedUnder(s, Aimed)
        PROVE  Captured'
    <3>1. tap'.arm = Nil /\ tap'.sink = Nil /\ tap'.sealed.id = tap.arm /\ Normalized(tap'.sealed.parts) = s
      BY <2>4 DEF SealedWith
    <3> QED  BY <1>1, <2>3, <2>4, <3>1 DEF Captured, Numbered, Chains, Continues, Clean
  <2>5. ASSUME NEW g, GoesOn(tap, tap', g), Chained(g), job.echo => EndsWith(g, job.tokens, job.chunk * 2),
               pc \in Expecting /\ tap.arm = id => ServedUnder(g, Aimed)
        PROVE  Captured'
    <3>1. /\ tap'.arm = tap.arm /\ tap'.sink.id = tap.arm /\ Normalized(tap'.sink.parts) = g
          /\ tap'.sealed = tap.sealed
      BY <2>5 DEF GoesOn
    <3>2. Numbered'
      BY <1>1, <2>3, <3>1 DEF Captured, Numbered
    <3>3. Chains'
      BY <2>5, <3>1 DEF Captured, Chains
    <3>4. Continues'
      <4>1. job.chunk \in Int
        BY <1>1, TypeParts DEF Typed, QueueOK, Requests
      <4>2. job' # Nil => (job'.chunk - 1) * 2 = job.chunk * 2
        BY <1>2, <4>1
      <4> QED  BY <1>2, <2>5, <3>1, <4>2 DEF Continues
    <3>5. Clean'
      BY <1>1, <2>5, <3>1 DEF Captured, Clean
    <3> QED  BY <3>2, <3>3, <3>4, <3>5 DEF Captured
  <2> QED  BY <2>1, <2>2, <2>4, <2>5
<1> QED  BY <1>3, <1>4

LEMMA CapturedStep == ASSUME Typed, Waiting, Serving, Owned, Captured, CampaignNext PROVE Captured'
<1>1. CASE Emit
  BY <1>1, EmitCaptured
<1>2. CASE ~Emit
  <2>1. /\ tap'.sink = tap.sink /\ tap'.sealed = tap.sealed
        /\ tap'.arm = tap.arm \/ tap'.arm = Nil \/ (tap'.arm = id + 1 /\ id' = id + 1)
    BY <1>2, TapChanges
  <2>2. id \in Nat /\ (id' = id \/ (Arm /\ id' = id + 1)) /\ tap \in Taps
    BY IdGrows, TypeParts DEF Typed, PlaceOK
  <2>3. /\ tap.arm # Nil => tap.arm \in Nat /\ tap.arm <= id
        /\ tap.sink # Nil => tap.sink.id \in Nat /\ tap.sink.id <= id
        /\ tap.sealed # Nil => tap.sealed.id \in Nat /\ tap.sealed.id <= id
    BY <2>2 DEF Captured, Numbered, Taps, Sinks
  <2>4. Numbered'
    BY <2>1, <2>2, <2>3 DEF Numbered
  <2>5. Chains'
    BY <2>1 DEF Captured, Chains
  <2>6. Continues'
    <3>1. CASE tap'.arm = tap.arm
      <4>1. \/ job' = Nil
            \/ job # Nil /\ job' # Nil /\ Same(job', job) /\ job'.chunk = job.chunk
            \/ queue # <<>> /\ Same(job', queue[1]) /\ job'.chunk = queue[1].chunk
        BY <1>2, JobChanges
      <4>2. queue # <<>> => (queue[1].echo => queue[1].chunk = 1)
        <5>1. queue \in Seq(Requests)
          BY TypeParts DEF Typed, QueueOK
        <5>2. queue # <<>> => 1 \in 1 .. Len(queue)
          BY <5>1, HeadTail
        <5> QED  BY <5>2 DEF Waiting, Fresh
      <4>3. CASE job' = Nil
        BY <4>3 DEF Continues
      <4>4. CASE job # Nil /\ Same(job', job) /\ job'.chunk = job.chunk
        BY <2>1, <3>1, <4>4 DEF Captured, Continues, Same
      <4>5. CASE queue # <<>> /\ Same(job', queue[1]) /\ job'.chunk = queue[1].chunk
        BY <4>2, <4>5 DEF Continues, Same
      <4> QED  BY <4>1, <4>3, <4>4, <4>5
    <3>2. CASE tap'.arm = Nil
      BY <3>2 DEF Continues
    <3>3. CASE tap'.arm = id + 1
      BY <2>1, <2>2, <2>3, <3>3 DEF Continues
    <3> QED  BY <2>1, <3>1, <3>2, <3>3
  <2>7. Clean'
    <3>1. CASE pc' \in Expecting
      <4>1. (pc \in Expecting /\ UNCHANGED <<id, item>>) \/ id' = id + 1
        BY <3>1, IdGrows
      <4>2. CASE pc \in Expecting /\ UNCHANGED <<id, item>>
        BY <2>1, <4>2 DEF Captured, Clean, Aimed
      <4>3. CASE id' = id + 1
        BY <2>1, <2>2, <2>3, <4>3 DEF Clean
      <4> QED  BY <4>1, <4>2, <4>3
    <3>2. CASE pc' \notin Expecting
      BY <3>2 DEF Clean, Expecting
    <3> QED  BY <3>1, <3>2
  <2> QED  BY <2>4, <2>5, <2>6, <2>7 DEF Captured
<1> QED  BY <1>1, <1>2

-----------------------------------------------------------------------------
(* What is kept of a capture *)

Exact(rows, w) == Len(rows) = PromptRows /\ \A p \in 1 .. PromptRows : IsRow(rows[p], w, p)
Genuine == \A k \in DOMAIN evidence : evidence[k] # Nil =>
  Exact(Normalized(evidence[k]), k[3]) /\ \A row \in ToSet(Normalized(evidence[k])) : row.gains = {Gains(k[2])}

\* The windows that are behind the controller have been gathered.
Got(i, w) == evidence[<<i.stage, i.variant, w>>] # Nil
GotAll(i) == \A n \in 1 .. Len(Windows[i.stage]) : Got(i, Windows[i.stage][n])
Progress ==
  /\ pc = "control" => window = 1
  /\ pc \in Capturing => \A n \in 1 .. Len(Windows[item.stage]) : n < window => Got(item, Windows[item.stage][n])
  /\ pc \in {"ack", "score"} => GotAll(item)
  /\ \A n \in 1 .. Len(results) : GotAll(results[n])
Kept == Genuine /\ Progress

\* From the last row, which names its window and its place, down the chain to the first.
LEMMA ChainDown ==
  ASSUME NEW rows, NEW N \in Nat, Len(rows) = N, Chained(rows), NEW w, IsRow(rows[N], w, N),
         NEW p \in 1 .. N
  PROVE  IsRow(rows[p], w, p)
<1> DEFINE M == N - p
           S == {k \in 0 .. M : IsRow(rows[N - k], w, N - k)}
<1>1. M \in Nat /\ N - M = p
  OBVIOUS
<1>2. 0 \in S
  <2>1. 0 \in 0 .. M /\ N - 0 = N
    BY <1>1
  <2> QED  BY <2>1
<1>3. ASSUME NEW k \in S, k < M PROVE k + 1 \in S
  <2> DEFINE n == N - k
  <2>1. k \in 0 .. M /\ IsRow(rows[n], w, n)
    OBVIOUS
  <2>2. n \in 1 .. N /\ n > 1 /\ n - 1 = N - (k + 1) /\ k + 1 \in 0 .. M
    BY <1>1, <1>3, <2>1
  <2> HIDE DEF n
  <2>3. rows[n].pos = n /\ rows[n].tokens = w
    BY <2>1 DEF IsRow
  <2>4. Follows(rows, n)
    BY <2>2, <2>3 DEF Chained
  <2>5. IsRow(rows[n - 1], w, n - 1)
    BY <2>3, <2>4 DEF Follows, IsRow
  <2> QED  BY <2>2, <2>5
<1> HIDE DEF M
<1>4. S \subseteq 0 .. M
  OBVIOUS
<1> HIDE DEF S
<1>5. M \in S
  BY <1>1, <1>2, <1>3, <1>4, Inductive
<1> QED  BY <1>1, <1>5 DEF S

LEMMA KeyTyped ==
  ASSUME PlaceOK, Sized, pc = "fetch"
  PROVE  /\ Key \in Stages \X ToSet(Variants) \X AllWindows /\ Sent \in AllWindows /\ Sent # "other"
         /\ Key = <<item.stage, item.variant, Sent>> /\ Key[2] = item.variant /\ Key[3] = Sent
<1>1. Windows[item.stage] \in Seq(AllWindows) /\ window \in 1 .. Len(Windows[item.stage])
  BY CampaignAssumption DEF Sized, PlaceOK, Items, Capturing
<1>2. Sent \in AllWindows
  BY <1>1 DEF Sent
<1>3. Key = <<item.stage, item.variant, Sent>>
  BY DEF Key, Sent
<1>4. item.stage \in Stages /\ item.variant \in ToSet(Variants)
  BY DEF PlaceOK, Items
<1> QED  BY <1>2, <1>3, <1>4, CampaignAssumption

\* Evidence comes from a fetch alone, and stays.
LEMMA EvidenceStays ==
  ASSUME CampaignNext
  PROVE  \/ evidence' = evidence
         \/ /\ Fetch /\ Sealed /\ evidence[Key] = Nil /\ Ordered(tap.sealed.parts, Sent)
            /\ evidence' = [evidence EXCEPT ![Key] = tap.sealed.parts]
            /\ pc = "fetch" /\ pc' = "window" /\ window' = window + 1
<1> USE DEF itemVars, rankVars, engineVars
<1>1. CASE Choose \/ StartItem \/ HandOver \/ CaptureWindow \/ Acknowledge \/ Score \/ Arm \/ Receive
           \/ SendRequest \/ Poll \/ CommandFails \/ Killed \/ Rerun
  BY <1>1 DEF Choose, StartItem, HandOver, CaptureWindow, Acknowledge, Score, Arm, Receive, SendRequest,
     Poll, CommandFails, Killed, Rerun
<1>2. CASE StartRequest \/ NextLayer \/ DropRequest \/ OtherRequest \/ ClearArm \/ Emit
  BY <1>2 DEF StartRequest, NextLayer, DropRequest, OtherRequest, ClearArm, Emit
<1>3. ASSUME NEW r \in Ranks, SetControl(r) \/ RunLayer(r) PROVE evidence' = evidence
  BY <1>3 DEF SetControl, RunLayer
<1>4. CASE Fetch
  BY <1>4 DEF Fetch, Sent
<1> QED  BY <1>1, <1>2, <1>3, <1>4 DEF CampaignNext, Controller, Endpoint

\* What is fetched is the window's, row by row, under the item's gains.
LEMMA FetchGenuine ==
  ASSUME Typed, Captured, Sealed, pc = "fetch", Ordered(tap.sealed.parts, Sent)
  PROVE  LET rows == Normalized(tap.sealed.parts)
         IN Exact(rows, Sent) /\ \A row \in ToSet(rows) : row.gains = {Aimed}
<1> DEFINE rows == Normalized(tap.sealed.parts)
<1>1. tap.sealed # Nil /\ tap.sealed.id = id /\ PlaceOK /\ Sized /\ tap \in Taps
  BY TypeParts DEF Sealed, Typed
<1>2. Chained(rows) /\ ServedUnder(rows, Aimed)
  BY <1>1 DEF Captured, Chains, Clean, Expecting
<1>3. Sent # "other"
  BY <1>1, KeyTyped
<1>4. Len(rows) = PromptRows /\ IsRow(rows[PromptRows], Sent, PromptRows)
  BY DEF Ordered
<1>5. rows \in Seq(LogitRows)
  <2> DEFINE p == tap.sealed.parts
  <2>1. p \in Seq(Seq(LogitRows)) /\ <<>> \in Seq(LogitRows)
    BY <1>1 DEF Taps, Parts
  <2> HIDE DEF p
  <2>2. Normalized(p) \in Seq(LogitRows)
    BY <2>1, NormalizedAppend
  <2> QED  BY <2>2 DEF p
<1> HIDE DEF rows
<1>6. PromptRows \in Nat
  BY RowsNumber
<1>7. \A p \in 1 .. PromptRows : IsRow(rows[p], Sent, p)
  BY <1>2, <1>4, <1>6, ChainDown
<1>8. \A n \in 1 .. Len(rows) : rows[n].gains = {Aimed}
  BY <1>2, <1>3, <1>4, <1>7 DEF ServedUnder, IsRow
<1>9. ToSet(rows) = {rows[n] : n \in 1 .. Len(rows)}
  BY <1>5 DEF ToSet
<1> QED  BY <1>4, <1>7, <1>8, <1>9 DEF Exact, rows

LEMMA GenuineStep == ASSUME Typed, Captured, Genuine, CampaignNext PROVE Genuine'
<1>1. Gathered /\ PlaceOK /\ Sized
  BY TypeParts DEF Typed
<1>2. CASE evidence' = evidence
  BY <1>2 DEF Genuine
<1>3. CASE /\ Fetch /\ Sealed /\ evidence[Key] = Nil /\ Ordered(tap.sealed.parts, Sent)
           /\ evidence' = [evidence EXCEPT ![Key] = tap.sealed.parts] /\ pc = "fetch"
  <2> DEFINE k == Key
             parts == tap.sealed.parts
             Fits(key, got) == Exact(Normalized(got), key[3])
                               /\ \A row \in ToSet(Normalized(got)) : row.gains = {Gains(key[2])}
  <2>1. Fits(k, parts)
    <3>1. k[2] = item.variant /\ k[3] = Sent
      BY <1>1, <1>3, KeyTyped
    <3>2. Exact(Normalized(parts), Sent) /\ \A row \in ToSet(Normalized(parts)) : row.gains = {Aimed}
      BY <1>3, FetchGenuine
    <3> HIDE DEF k
    <3> QED  BY <3>1, <3>2 DEF Aimed
  <2>2. evidence' = [evidence EXCEPT ![k] = parts]
    BY <1>3
  <2>3. \A key \in DOMAIN evidence : evidence[key] # Nil => Fits(key, evidence[key])
    BY DEF Genuine
  <2> HIDE DEF k, parts, Fits
  <2>4. \A key \in DOMAIN evidence' : evidence'[key] # Nil => Fits(key, evidence'[key])
    <3> SUFFICES ASSUME NEW key \in DOMAIN evidence', evidence'[key] # Nil PROVE Fits(key, evidence'[key])
      OBVIOUS
    <3>1. key \in DOMAIN evidence
      BY <2>2
    <3>2. CASE key = k
      <4>1. evidence'[key] = parts
        BY <2>2, <3>1, <3>2
      <4> QED  BY <2>1, <3>2, <4>1
    <3>3. CASE key # k
      <4>1. evidence'[key] = evidence[key]
        BY <2>2, <3>1, <3>3
      <4> QED  BY <2>3, <3>1, <4>1
    <3> QED  BY <3>2, <3>3
  <2> QED  BY <2>4 DEF Fits, Genuine
<1> QED  BY <1>2, <1>3, EvidenceStays

LEMMA GotStays ==
  ASSUME Typed, CampaignNext
  PROVE  \A k \in Stages \X ToSet(Variants) \X AllWindows : evidence[k] # Nil => evidence'[k] # Nil
<1>1. Gathered
  BY TypeParts DEF Typed
<1>2. CASE evidence' = evidence
  BY <1>2
<1>3. CASE evidence[Key] = Nil /\ evidence' = [evidence EXCEPT ![Key] = tap.sealed.parts]
  <2> DEFINE q == Key
             p == tap.sealed.parts
  <2>1. evidence[q] = Nil /\ evidence' = [evidence EXCEPT ![q] = p]
    BY <1>3
  <2> HIDE DEF q, p
  <2> QED  BY <1>1, <2>1 DEF Gathered
<1> QED  BY <1>2, <1>3, EvidenceStays

LEMMA ItemKeys ==
  ASSUME NEW i \in Items
  PROVE  /\ Windows[i.stage] \in Seq(AllWindows) /\ Len(Windows[i.stage]) \in Nat
         /\ \A n \in 1 .. Len(Windows[i.stage]) :
              <<i.stage, i.variant, Windows[i.stage][n]>> \in Stages \X ToSet(Variants) \X AllWindows
<1>1. i.stage \in Stages /\ i.variant \in ToSet(Variants)
  BY DEF Items
<1>2. Windows[i.stage] \in Seq(AllWindows)
  BY <1>1, CampaignAssumption
<1>3. Len(Windows[i.stage]) \in Nat /\ \A n \in 1 .. Len(Windows[i.stage]) : Windows[i.stage][n] \in AllWindows
  BY <1>2
<1> QED  BY <1>1, <1>2, <1>3

LEMMA GotAllStays == ASSUME Typed, CampaignNext, NEW i \in Items, GotAll(i) PROVE GotAll(i)'
BY ItemKeys, GotStays DEF GotAll, Got

\* The items scored: one more, or none after a new start.
LEMMA ResultsChange ==
  ASSUME CampaignNext
  PROVE  results' = results \/ (Score /\ results' = Append(results, item) /\ pc = "score") \/ results' = <<>>
<1> USE DEF itemVars, rankVars, engineVars
<1>1. CASE Choose \/ StartItem \/ HandOver \/ CaptureWindow \/ Acknowledge \/ Score \/ Arm \/ Receive
           \/ SendRequest \/ Poll \/ Fetch \/ CommandFails \/ Killed \/ Rerun
  BY <1>1 DEF Choose, StartItem, HandOver, CaptureWindow, Acknowledge, Score, Arm, Receive, SendRequest,
     Poll, Fetch, CommandFails, Killed, Rerun
<1>2. CASE StartRequest \/ NextLayer \/ DropRequest \/ OtherRequest \/ ClearArm \/ Emit
  BY <1>2 DEF StartRequest, NextLayer, DropRequest, OtherRequest, ClearArm, Emit
<1>3. ASSUME NEW r \in Ranks, SetControl(r) \/ RunLayer(r) PROVE results' = results
  BY <1>3 DEF SetControl, RunLayer
<1> QED  BY <1>1, <1>2, <1>3 DEF CampaignNext, Controller, Endpoint

LEMMA ProgressStep == ASSUME Typed, Progress, CampaignNext PROVE Progress'
<1> USE DEF itemVars, rankVars, engineVars
<1>0. PlaceOK /\ Sized /\ Gathered
  BY TypeParts DEF Typed
<1> DEFINE All(i) == \A n \in 1 .. Len(Windows[i.stage]) :
                       evidence'[<<i.stage, i.variant, Windows[i.stage][n]>>] # Nil
<1>1. \A n \in 1 .. Len(results') : All(results'[n])
  <2>1. results \in Seq(Items) /\ item \in Items
    BY <1>0 DEF PlaceOK
  <2>2. \A n \in 1 .. Len(results) : results[n] \in Items /\ GotAll(results[n])
    BY <2>1 DEF Progress
  <2>3. \A i \in Items : GotAll(i) => All(i)
    BY GotAllStays DEF GotAll, Got
  <2>4. CASE results' = results
    <3>1. \A n \in 1 .. Len(results) : All(results[n])
      BY <2>2, <2>3
    <3> QED  BY <2>4, <3>1
  <2>5. CASE results' = Append(results, item) /\ pc = "score"
    <3>1. All(item)
      BY <2>1, <2>3, <2>5 DEF Progress
    <3> HIDE DEF All
    <3>2. \A n \in 1 .. Len(results') : n # Len(results) + 1 => n \in 1 .. Len(results) /\ results'[n] = results[n]
      BY <2>1, <2>5, AppendedAt
    <3>3. results'[Len(results) + 1] = item
      BY <2>1, <2>5, AppendedAt
    <3>4. \A n \in 1 .. Len(results') : All(results'[n])
      <4> SUFFICES ASSUME NEW n \in 1 .. Len(results') PROVE All(results'[n])
        OBVIOUS
      <4>1. CASE n = Len(results) + 1
        BY <3>1, <3>3, <4>1
      <4>2. CASE n # Len(results) + 1
        BY <2>2, <2>3, <3>2, <4>2
      <4> QED  BY <4>1, <4>2
    <3> QED  BY <3>4 DEF All
  <2>6. CASE results' = <<>>
    BY <2>6
  <2> QED  BY <2>4, <2>5, <2>6, ResultsChange
<1> DEFINE Behind(i, w) == \A n \in 1 .. Len(Windows[i.stage]) : n < w =>
                             evidence'[<<i.stage, i.variant, Windows[i.stage][n]>>] # Nil
<1>2. item \in Items /\ window \in Nat \ {0} /\ Len(Windows[item.stage]) \in Nat
  BY <1>0, ItemKeys DEF PlaceOK
<1>3. pc \in Capturing => Behind(item, window)
  BY <1>2, ItemKeys, GotStays DEF Progress, Got
<1>4. pc \in {"ack", "score"} => Behind(item, Len(Windows[item.stage]) + 1)
  BY <1>2, GotAllStays DEF Progress, GotAll, Got
<1>5. ASSUME NEW w \in 1 .. Len(Windows[item.stage]), Behind(item, w),
             evidence'[<<item.stage, item.variant, Windows[item.stage][w]>>] # Nil
      PROVE  Behind(item, w + 1)
  <2> DEFINE L == Len(Windows[item.stage])
  <2>1. \A n \in 1 .. L : n < w + 1 => n < w \/ n = w
    BY <1>2
  <2> QED  BY <1>5, <2>1
<1>6. Behind(item, 1)
  BY <1>2
<1> DEFINE Goal == /\ pc' = "control" => window' = 1
                   /\ pc' \in Capturing => Behind(item', window')
                   /\ pc' \in {"ack", "score"} => Behind(item', Len(Windows[item'.stage]) + 1)
<1>7. Goal => Progress'
  <2>1. ASSUME Goal, pc' \in {"ack", "score"} PROVE GotAll(item)'
    <3> DEFINE L == Len(Windows[item'.stage])
    <3>1. L \in Nat
      BY PlaceStep, ItemKeys DEF PlaceOK, Items
    <3>2. \A n \in 1 .. L : n < L + 1
      BY <3>1
    <3> QED  BY <2>1, <3>2 DEF GotAll, Got
  <2> QED  BY <1>1, <2>1 DEF Progress, GotAll, Got
<1>8. CASE UNCHANGED <<item, window>> /\ (pc' \in Capturing => pc \in Capturing)
           /\ (pc' \in {"ack", "score"} => pc \in {"ack", "score"}) /\ (pc' = "control" => pc = "control")
  <2>1. Goal
    BY <1>3, <1>4, <1>8 DEF Progress
  <2> QED  BY <1>7, <2>1
<1>9. CASE Choose \/ HandOver \/ Acknowledge \/ Score \/ Arm \/ Receive \/ SendRequest \/ Poll
  BY <1>8, <1>9 DEF Choose, HandOver, Acknowledge, Score, Arm, Receive, SendRequest, Poll, Except, Capturing
<1>10. CASE CommandFails \/ Killed \/ Rerun
  BY <1>8, <1>10 DEF CommandFails, Killed, Rerun, Except, Capturing
<1>11. CASE StartRequest \/ NextLayer \/ DropRequest \/ OtherRequest \/ ClearArm \/ Emit
  BY <1>8, <1>11 DEF StartRequest, NextLayer, DropRequest, OtherRequest, ClearArm, Emit
<1>12. ASSUME NEW r \in Ranks, RunLayer(r) PROVE Progress'
  BY <1>8, <1>12 DEF RunLayer
<1>13. ASSUME NEW r \in Ranks, SetControl(r) PROVE Progress'
  <2>1. UNCHANGED <<item, window>> /\ pc \in {"control", "handover", "except"}
        /\ (pc' = pc \/ pc' \in {"complete", "failed"} \/ (pc = "control" /\ pc' = "window"))
    BY <1>13 DEF SetControl
  <2>2. CASE pc = "control" /\ pc' = "window"
    <3>1. window = 1
      BY <2>2 DEF Progress
    <3>2. Goal
      BY <1>6, <2>1, <2>2, <3>1
    <3> QED  BY <1>7, <3>2
  <2> QED  BY <1>8, <2>1, <2>2 DEF Capturing
<1>14. CASE StartItem
  <2>1. Goal
    BY <1>14 DEF StartItem, Capturing
  <2> QED  BY <1>7, <2>1
<1>15. CASE CaptureWindow
  <2> DEFINE L == Len(Windows[item.stage])
  <2>1. pc = "window" /\ UNCHANGED item /\ evidence' = evidence
        /\ \/ window > L /\ pc' \in {"ack", "score"}
           \/ ~(window > L) /\ evidence[Key] # Nil /\ window' = window + 1 /\ pc' = "window"
           \/ pc' = "arm" /\ window' = window
    BY <1>15 DEF CaptureWindow
  <2>2. Behind(item, window)
    BY <1>3, <2>1 DEF Capturing
  <2>3. CASE window > L /\ pc' \in {"ack", "score"}
    <3>1. \A n \in 1 .. L : n < window
      BY <1>2, <2>3
    <3>2. Behind(item, L + 1)
      BY <2>2, <3>1
    <3> HIDE DEF Behind
    <3>3. Goal
      BY <2>1, <2>3, <3>2 DEF Capturing
    <3> QED  BY <1>7, <3>3
  <2>4. CASE ~(window > L) /\ evidence[Key] # Nil /\ window' = window + 1 /\ pc' = "window"
    <3>1. window \in 1 .. L
      BY <1>2, <2>4
    <3>2. evidence'[<<item.stage, item.variant, Windows[item.stage][window]>>] # Nil
      BY <2>1, <2>4 DEF Key
    <3>3. Behind(item, window + 1)
      BY <1>5, <2>2, <3>1, <3>2
    <3> HIDE DEF Behind
    <3>4. Goal
      BY <2>1, <2>4, <3>3
    <3> QED  BY <1>7, <3>4
  <2>5. CASE pc' = "arm" /\ window' = window
    <3> HIDE DEF Behind
    <3>1. Goal
      BY <2>1, <2>2, <2>5
    <3> QED  BY <1>7, <3>1
  <2> QED  BY <2>1, <2>3, <2>4, <2>5
<1>16. CASE Fetch
  <2>1. pc = "fetch" /\ UNCHANGED item
        /\ \/ pc' = "except"
           \/ evidence' = [evidence EXCEPT ![Key] = tap.sealed.parts] /\ window' = window + 1 /\ pc' = "window"
              /\ Sealed
    BY <1>16 DEF Fetch, Except
  <2>2. CASE pc' = "except"
    BY <1>7, <2>2 DEF Capturing
  <2>3. CASE evidence' = [evidence EXCEPT ![Key] = tap.sealed.parts] /\ window' = window + 1 /\ pc' = "window"
             /\ Sealed
    <3>1. Key \in Stages \X ToSet(Variants) \X AllWindows /\ Key = <<item.stage, item.variant, Sent>>
      BY <1>0, <2>1, KeyTyped
    <3>2. tap.sealed.parts # Nil
      <4>1. tap.sealed.parts \in Parts
        BY <2>3, TypeParts DEF Typed, Taps, Sealed
      <4> QED  BY <4>1, CampaignAssumption
    <3>3. evidence'[Key] # Nil
      <4> DEFINE k == Key
                 p == tap.sealed.parts
      <4>1. k \in Stages \X ToSet(Variants) \X AllWindows /\ evidence' = [evidence EXCEPT ![k] = p] /\ p # Nil
        BY <2>3, <3>1, <3>2
      <4> HIDE DEF k, p
      <4>2. evidence'[k] # Nil
        BY <1>0, <4>1 DEF Gathered
      <4> QED  BY <4>2 DEF k
    <3>4. window \in 1 .. Len(Windows[item.stage])
      BY <1>0, <1>2, <2>1 DEF Sized, Capturing
    <3>5. Behind(item, window + 1)
      BY <1>3, <1>5, <2>1, <3>1, <3>3, <3>4 DEF Capturing, Sent
    <3> HIDE DEF Behind
    <3>6. Goal
      BY <2>1, <2>3, <3>5
    <3> QED  BY <1>7, <3>6
  <2> QED  BY <2>1, <2>2, <2>3
<1> QED  BY <1>9, <1>10, <1>11, <1>12, <1>13, <1>14, <1>15, <1>16 DEF CampaignNext, Controller, Endpoint

-----------------------------------------------------------------------------
(* The theorems *)

Serves == Typed /\ Applied /\ Placed /\ Waiting /\ Owned /\ Single /\ Serving
CampaignInv == Serves /\ Captured /\ Genuine /\ Progress

LEMMA CampaignBegins == CampaignInit => CampaignInv
<1> SUFFICES ASSUME CampaignInit PROVE CampaignInv
  OBVIOUS
<1>1. Typed
  BY TypesBegin
<1>2. Applied
  <2>1. Identity("start") \in Controls
    BY ControlTyped
  <2>2. \A r \in Ranks, layer \in ScaledLayers : version[r][layer] = Identity("start").id
                                                 /\ applied[r][layer] = Identity("start").gains
    BY DEF CampaignInit, Identity
  <2> QED  BY <2>1, <2>2 DEF Applied
<1>3. Placed
  BY DEF CampaignInit, Placed, Capturing
<1>4. Waiting /\ Owned /\ Single /\ Serving
  <2>1. Len(queue) = 0 /\ queue = <<>> /\ job = Nil /\ pc = "next" /\ id = 0 /\ answered = 0
    BY DEF CampaignInit
  <2> QED  BY <2>1 DEF Waiting, Owned, Single, Serving
<1>5. Captured
  BY DEF CampaignInit, Captured, Numbered, Chains, Continues, Clean
<1>6. Genuine
  BY DEF CampaignInit, Genuine
<1>7. Progress
  <2>1. Len(results) = 0 /\ pc = "next"
    BY DEF CampaignInit
  <2> QED  BY <2>1 DEF Progress, Capturing
<1> QED  BY <1>1, <1>2, <1>3, <1>4, <1>5, <1>6, <1>7 DEF CampaignInv, Serves

LEMMA CampaignKept == ASSUME CampaignInv, [CampaignNext]_campaignVars PROVE CampaignInv'
<1>1. CASE CampaignNext
  <2>1. Typed' /\ Applied' /\ Placed'
    BY <1>1, TypesKept, AppliedStep, PlacedStep DEF CampaignInv, Serves
  <2>2. Waiting' /\ Owned' /\ Single' /\ Serving'
    BY <1>1, WaitingStep, OwnedStep, SingleStep, ServingStep DEF CampaignInv, Serves
  <2>3. Captured' /\ Genuine' /\ Progress'
    BY <1>1, CapturedStep, GenuineStep, ProgressStep DEF CampaignInv, Serves
  <2> QED  BY <2>1, <2>2, <2>3 DEF CampaignInv, Serves
<1>2. CASE UNCHANGED campaignVars
  <2> USE <1>2 DEF campaignVars, itemVars, rankVars, engineVars
  <2>1. Typed'
    BY TypesKept DEF CampaignInv, Serves
  <2>2. Applied' /\ Placed' /\ Waiting'
    BY DEF CampaignInv, Serves, Applied, Placed, Waiting, Aimed, Controls, Items, ControlOf, Identity
  <2>3. Owned' /\ Single' /\ Serving'
    BY DEF CampaignInv, Serves, Owned, Single, Serving, Sent, Under, Aimed
  <2>4. Captured'
    BY DEF CampaignInv, Captured, Numbered, Chains, Continues, Clean, Aimed
  <2>5. Genuine' /\ Progress'
    BY DEF CampaignInv, Genuine, Progress, Got, GotAll
  <2> QED  BY <2>1, <2>2, <2>3, <2>4, <2>5 DEF CampaignInv, Serves
<1> QED  BY <1>1, <1>2

LEMMA CampaignInvariant == CampaignSpec => []CampaignInv
BY CampaignBegins, CampaignKept, PTL DEF CampaignSpec

\* The types of the campaign's state, for every sweep, set of windows and number of chunks.
THEOREM CampaignTypes == CampaignSpec => []CampaignTypeOK
<1>1. CampaignInv => CampaignTypeOK
  BY DEF CampaignInv, Serves, Typed
<1> QED  BY <1>1, CampaignInvariant, PTL

\* Whoever uses the endpoint after the campaign gets the unscaled model.
THEOREM HandedOver == CampaignSpec => []HandedOverServesIdentity
<1>1. CampaignInv => HandedOverServesIdentity
  BY DEF CampaignInv, Serves, Serving, Under, HandedOverServesIdentity
<1> QED  BY <1>1, CampaignInvariant, PTL

\* Evidence is its window's rows, in order.
THEOREM Evidence_Is_Its_Window == CampaignSpec => []EvidenceIsItsWindow
<1>1. CampaignInv => EvidenceIsItsWindow
  BY DEF CampaignInv, Genuine, Exact, EvidenceIsItsWindow
<1> QED  BY <1>1, CampaignInvariant, PTL

\* A score was computed from rows served under the control it names.
THEOREM Scores_Belong == CampaignSpec => []ScoresBelongToTheirControl
<1>1. ASSUME CampaignInv PROVE ScoresBelongToTheirControl
  <2>1. PlaceOK /\ Gathered
    BY <1>1, TypeParts DEF CampaignInv, Serves, Typed
  <2> SUFFICES ASSUME NEW n \in 1 .. Len(results), NEW w \in ToSet(Windows[results[n].stage])
               PROVE  LET parts == evidence[<<results[n].stage, results[n].variant, w>>]
                      IN /\ parts # Nil
                         /\ \A row \in ToSet(Normalized(parts)) : row.gains = {Gains(results[n].variant)}
    BY DEF ScoresBelongToTheirControl
  <2> DEFINE i == results[n]
             k == <<i.stage, i.variant, w>>
  <2>2. i \in Items /\ GotAll(i)
    BY <1>1, <2>1 DEF PlaceOK, CampaignInv, Progress
  <2> HIDE DEF i
  <2>3. \E m \in 1 .. Len(Windows[i.stage]) : w = Windows[i.stage][m]
    <3>1. Windows[i.stage] \in Seq(AllWindows) /\ w \in ToSet(Windows[i.stage])
      BY <2>2, ItemKeys DEF i
    <3>2. DOMAIN Windows[i.stage] = 1 .. Len(Windows[i.stage])
      BY <3>1
    <3> QED  BY <3>1, <3>2 DEF ToSet
  <2>4. k \in Stages \X ToSet(Variants) \X AllWindows /\ evidence[k] # Nil /\ k[2] = i.variant
    BY <2>2, <2>3, ItemKeys DEF GotAll, Got
  <2>5. k \in DOMAIN evidence
    BY <2>1, <2>4 DEF Gathered
  <2> HIDE DEF k
  <2>6. \A row \in ToSet(Normalized(evidence[k])) : row.gains = {Gains(k[2])}
    BY <1>1, <2>4, <2>5 DEF CampaignInv, Genuine
  <2> QED  BY <2>4, <2>6 DEF i, k
<1> QED  BY <1>1, CampaignInvariant, PTL
==============================================================================

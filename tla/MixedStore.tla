------------------------------- MODULE MixedStore -------------------------------
(***************************************************************************)
(* runtime/lazy_k275_patch.py: a routed layer whose experts are resident   *)
(* in two groups, one per bit width.  Every rank evaluates its slice of a  *)
(* routed expert with two fused calls, one per group; an expert of the     *)
(* other group is looked up as a slot past the packs, which the kernel     *)
(* passes over.                                                            *)
(***************************************************************************)
EXTENDS Geometry, FiniteSets

CONSTANTS
  Experts,     \* the global expert numbers
  K2           \* those whose payload has two bits

ASSUME MixedAssumption == Experts \subseteq Nat /\ IsFiniteSet(Experts) /\ K2 \subseteq Experts

Bits == {2, 3}
Group(bits) == IF bits = 2 THEN K2 ELSE Experts \ K2
Packs(bits) == Cardinality(Group(bits))

\* fill_resident loads the experts of a group in ascending order, slot by slot.
SlotOf(bits, e) == Cardinality({d \in Group(bits) : d < e})

lookup(bits, id) == IF id \in Group(bits) THEN SlotOf(bits, id) ELSE Packs(bits)

\* The experts a fused call of the group evaluates for a routed id: the one in
\* its slot, if the slot is below the number of packs.
Evaluated(bits, id) ==
  {e \in Group(bits) : lookup(bits, id) < Packs(bits) /\ SlotOf(bits, e) = lookup(bits, id)}
=============================================================================

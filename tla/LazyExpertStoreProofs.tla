------------------------ MODULE LazyExpertStoreProofs ------------------------
(* Proofs about LazyExpertStore, for any finite number of experts, any      *)
(* layers, any execution modes and cache limits, and any number of failing *)
(* loads.                                                                   *)
EXTENDS LazyExpertStore, FiniteSetTheorems, TLAPS

-----------------------------------------------------------------------------
(* The inductive invariant.                                                *)

(* Which arena a store is bound to, and whose experts an arena holds.      *)
Tenant(a) == IF a = shared THEN owner ELSE a

Bindings ==
    /\ \A s \in Stores : ref[s] = IF s \in joined THEN shared ELSE s
    /\ shared # Shared => shared \in joined
    /\ IF joined = {} THEN owner = None ELSE owner \in joined
    /\ joined # {} => mode = "shared_layer_fused"
    /\ ready # {} => mode = "resident_fused"
    /\ joined = {} => slot[Shared] = Nowhere /\ ~strayed

(* What a slot of expert e holds: that expert, of the arena's tenant or,   *)
(* once a layer has loaded into the arena of another, of any layer.        *)
Content(t, mixed, e, x) == \E s \in Stores : x = <<s, e>> /\ (s = t \/ mixed)
Mixed(a) == strayed /\ a = shared

(* The slot of an expert is not free, has a pack, and holds that expert.   *)

Holds ==
    \A a \in Arenas, e \in Experts : slot[a][e] # None =>
        /\ Content(Tenant(a), Mixed(a), e, payload[a][slot[a][e]])
        /\ slot[a][e] \in packs[a] /\ slot[a][e] \notin free[a]

(* The call in progress works on an arena that is its store's.             *)
Working ==
    at \in {"prepare", "kernel"} =>
        /\ Tenant(ref[who]) = who
        /\ at = "prepare" /\ mode = "resident_fused" => who \notin ready

(* What the chunk has gained it keeps.                                     *)
Prepared == at = "prepare" => chunk \ todo \subseteq Resident(ref[who])

Launched ==
    at = "kernel" =>
        /\ chunk \subseteq Resident(ref[who])
        /\ packs[ref[who]] = 0..(table[ref[who]] - 1)
        /\ mode = "resident_fused" => who \in ready /\ rest = {}

Identity == \A s \in ready, e \in Experts : slot[s][e] = e

IInv == TypeOK /\ Bindings /\ Holds /\ Working /\ Prepared /\ Launched /\ Identity

-----------------------------------------------------------------------------
(* The part of the type invariant that loading an expert touches.          *)
ArenaTypes ==
    /\ slot \in [Arenas -> [Experts -> Slots \cup {None}]]
    /\ free \in [Arenas -> SUBSET Slots]
    /\ payload \in [Arenas -> [Slots -> (Stores \X Experts) \cup {None, Torn}]]
    /\ packs \in [Arenas -> SUBSET Slots]

LEMMA SizeIsNat == Size \in Nat /\ IsFiniteSet(Experts)
  BY ExpertsAreNumbered, FS_CardinalityType DEF Size

LEMMA NoExpertIsNone == None \notin Experts
  BY NoneIsNothing, ExpertsAreNumbered, SizeIsNat

LEMMA NoSlotIsNone ==
  ASSUME limit \in 1..Size
  PROVE  None \notin Slots
  BY NoneIsNothing, SizeIsNat DEF Slots

(* No two experts of an arena have the same slot.                          *)
LEMMA OneExpertPerSlot ==
  ASSUME Holds, NEW a \in Arenas, NEW e \in Experts, NEW f \in Experts,
         slot[a][e] # None, slot[a][e] = slot[a][f]
  PROVE  e = f
<1>1. PICK s \in Stores, r \in Stores : <<s, e>> = <<r, f>>
  BY DEF Holds, Content
<1> QED
  BY <1>1

LEMMA ContentStays ==
  ASSUME NEW t, NEW m, NEW n, NEW e, NEW x, Content(t, m, e, x), m => n
  PROVE  Content(t, n, e, x)
  BY DEF Content

LEMMA ContentLoaded ==
  ASSUME NEW t, NEW m, NEW e, NEW s \in Stores, s = t \/ m
  PROVE  Content(t, m, e, <<s, e>>)
  BY DEF Content

(* A slot that is taken belongs to nobody but the victim.                  *)
LEMMA TakenSlot ==
  ASSUME limit \in 1..Size, ArenaTypes, Holds, NEW a \in Arenas, NEW v \in Experts \cup {None},
         NEW k \in Slots, NEW P \in SUBSET Experts, Take(a, v, k, P)
  PROVE  /\ \A x \in Experts : x # v => slot[a][x] # k
         /\ v \notin P /\ (v # None => slot[a][v] = k)
<1> USE NoSlotIsNone
<1>1. CASE v = None /\ TakesFree(a, k)
  <2>1. k \in free[a] /\ v \notin P
    BY <1>1, NoExpertIsNone DEF TakesFree, Least
  <2>2. \A x \in Experts : slot[a][x] # None => slot[a][x] \notin free[a]
    BY DEF Holds
  <2> QED
    BY <1>1, <2>1, <2>2
<1>2. CASE TakesFrom(a, v, k, P)
  <2>1. v \in Experts /\ slot[a][v] # None /\ v \notin P /\ k = slot[a][v]
    BY <1>2 DEF TakesFrom, Victims, Resident
  <2> QED
    BY <2>1, OneExpertPerSlot
<1> QED
  BY <1>1, <1>2 DEF Take

(* A load that succeeds: the arena stays in order, only victims outside the*)
(* protected set leave, and the expert comes in.                           *)
LEMMA FetchStep ==
  ASSUME limit \in 1..Size, ref \in [Stores -> Arenas], ArenaTypes, Holds,
         NEW s \in Stores, NEW e \in Experts, NEW P \in SUBSET Experts,
         Tenant(ref[s]) = s \/ (strayed' /\ ref[s] = shared),
         e \notin Resident(ref[s]), Fetch(s, e, P),
         UNCHANGED <<settings, bindings>>, strayed => strayed'
  PROVE  /\ ArenaTypes' /\ Holds'
         /\ \A x \in P : x \in Resident(ref[s]) => x \in Resident(ref[s])'
         /\ e \in Resident(ref[s])'
         /\ \A b \in Arenas : b # ref[s] => slot'[b] = slot[b]
<1> DEFINE a == ref[s]
<1>1. PICK v \in Experts \cup {None}, k \in Slots :
        Take(a, v, k, P) /\ Assign(a, e, v, k) /\ Load(s, a, e, k)
  BY DEF Fetch
<1>2. a \in Arenas /\ slot[a][e] = None
  BY DEF Resident
<1>3. /\ \A x \in Experts : x # v => slot[a][x] # k
      /\ v \notin P /\ (v # None => slot[a][v] = k)
  BY <1>1, <1>2, TakenSlot
<1>4. /\ slot' = [slot EXCEPT ![a] = [x \in Experts |->
                    IF x = e THEN k ELSE IF x = v THEN None ELSE slot[a][x]]]
      /\ free' = [free EXCEPT ![a] = free[a] \ {k}]
      /\ payload' = [payload EXCEPT ![a][k] = <<s, e>>]
      /\ packs' = [packs EXCEPT ![a] = packs[a] \cup {k}]
      /\ Slots' = Slots /\ ref' = ref /\ shared' = shared /\ owner' = owner
  BY <1>1, <1>2 DEF Assign, Load, ArenaTypes, settings, bindings, Slots
<1>5. ArenaTypes'
  BY <1>2, <1>4 DEF ArenaTypes
<1>6. Holds'
  <2>1. \A b \in Arenas : Tenant(b)' = Tenant(b) /\ (Mixed(b) => Mixed(b)')
    BY <1>4 DEF Tenant, Mixed
  <2> SUFFICES ASSUME NEW b \in Arenas, NEW x \in Experts, slot'[b][x] # None
               PROVE  /\ Content(Tenant(b), Mixed(b)', x, payload'[b][slot'[b][x]])
                      /\ slot'[b][x] \in packs'[b] /\ slot'[b][x] \notin free'[b]
    BY <2>1 DEF Holds
  <2>2. CASE b # a
    <3>1. /\ slot'[b] = slot[b] /\ payload'[b] = payload[b]
          /\ packs'[b] = packs[b] /\ free'[b] = free[b]
      BY <1>2, <1>4, <2>2 DEF ArenaTypes
    <3> QED
      BY <2>1, <3>1, ContentStays DEF Holds
  <2>3. CASE b = a /\ x = e
    <3>1. /\ slot'[a][e] = k /\ payload'[a][k] = <<s, e>>
          /\ k \in packs'[a] /\ k \notin free'[a]
      BY <1>2, <1>4 DEF ArenaTypes
    <3>2. s = Tenant(b) \/ Mixed(b)'
      BY <1>4, <2>3 DEF Mixed
    <3>3. Content(Tenant(b), Mixed(b)', e, <<s, e>>)
      BY <3>2, ContentLoaded
    <3>4. slot'[b][x] = k /\ payload'[b][k] = <<s, e>>
      BY <2>3, <3>1
    <3> QED
      BY <2>3, <3>1, <3>3, <3>4
  <2>4. CASE b = a /\ x # e
    <3>1. x # v /\ slot'[a][x] = slot[a][x] /\ slot[a][x] \in Slots /\ slot[a][x] # k
      BY <1>2, <1>3, <1>4, <2>4 DEF ArenaTypes
    <3>2. payload'[a][slot[a][x]] = payload[a][slot[a][x]]
      BY <1>2, <1>4, <3>1 DEF ArenaTypes
    <3>3. slot[a][x] \in packs'[a] /\ slot[a][x] \notin free'[a]
      BY <1>2, <1>4, <2>4, <3>1 DEF ArenaTypes, Holds
    <3> QED
      BY <2>1, <2>4, <3>1, <3>2, <3>3, ContentStays DEF Holds
  <2> QED
    BY <2>2, <2>3, <2>4
<1>7. \A x \in P : x \in Resident(a) => slot'[a][x] # None
  BY <1>2, <1>3, <1>4, NoSlotIsNone DEF ArenaTypes, Resident
<1>8. slot'[a][e] # None
  BY <1>2, <1>4, NoSlotIsNone DEF ArenaTypes
<1> QED
  BY <1>2, <1>4, <1>5, <1>6, <1>7, <1>8 DEF Resident, ArenaTypes

(* A load that raises: a victim outside the protected set may be gone, and *)
(* the slot taken belongs to nobody.                                       *)
LEMMA FailStep ==
  ASSUME limit \in 1..Size, ref \in [Stores -> Arenas], ArenaTypes, Holds,
         NEW s \in Stores, NEW P \in SUBSET Experts, FetchFails(s, P),
         UNCHANGED <<settings, bindings>>, strayed => strayed'
  PROVE  /\ ArenaTypes' /\ Holds'
         /\ \A b \in Arenas : b # ref[s] => slot'[b] = slot[b]
<1> DEFINE a == ref[s]
<1>1. PICK v \in Experts \cup {None}, k \in Slots :
        /\ Take(a, v, k, P) /\ Drop(a, v, k)
        /\ UNCHANGED payload \/ payload' = [payload EXCEPT ![a][k] = Torn]
  BY DEF FetchFails
<1>2. a \in Arenas
  OBVIOUS
<1>3. \A x \in Experts : x # v => slot[a][x] # k
  BY <1>1, <1>2, TakenSlot
<1>4. /\ slot' = [slot EXCEPT ![a] = [x \in Experts |-> IF x = v THEN None ELSE slot[a][x]]]
      /\ free' = [free EXCEPT ![a] = free[a] \ {k}]
      /\ packs' = packs
      /\ Slots' = Slots
  BY <1>1, <1>2 DEF Drop, FetchFails, ArenaTypes, settings, Slots
<1>5. ArenaTypes'
  <2>1. payload' \in [Arenas -> [Slots -> (Stores \X Experts) \cup {None, Torn}]]
    <3>1. CASE UNCHANGED payload
      BY <3>1, <1>4 DEF ArenaTypes
    <3>2. CASE payload' = [payload EXCEPT ![a][k] = Torn]
      <4>1. [payload[a] EXCEPT ![k] = Torn] \in [Slots -> (Stores \X Experts) \cup {None, Torn}]
        BY <1>2 DEF ArenaTypes
      <4> QED
        BY <3>2, <4>1, <1>2 DEF ArenaTypes
    <3> QED
      BY <1>1, <3>1, <3>2
  <2>2. slot' \in [Arenas -> [Experts -> Slots \cup {None}]]
    BY <1>2, <1>4 DEF ArenaTypes
  <2> QED
    BY <1>2, <1>4, <2>1, <2>2 DEF ArenaTypes
<1>6. Holds'
  <2>0. \A b \in Arenas : Tenant(b)' = Tenant(b) /\ (Mixed(b) => Mixed(b)')
    BY DEF Tenant, Mixed, bindings
  <2> SUFFICES ASSUME NEW b \in Arenas, NEW x \in Experts, slot'[b][x] # None
               PROVE  /\ Content(Tenant(b), Mixed(b)', x, payload'[b][slot'[b][x]])
                      /\ slot'[b][x] \in packs'[b] /\ slot'[b][x] \notin free'[b]
    BY <2>0 DEF Holds
  <2>1. slot'[b][x] = slot[b][x] /\ (b = a => x # v)
    <3>1. CASE b = a
      <4>1. slot'[a] = [y \in Experts |-> IF y = v THEN None ELSE slot[a][y]]
        BY <1>2, <1>4 DEF ArenaTypes
      <4> QED
        BY <3>1, <4>1
    <3>2. CASE b # a
      BY <1>2, <1>4, <3>2 DEF ArenaTypes
    <3> QED
      BY <3>1, <3>2
  <2>2. slot[b][x] \in Slots /\ (b = a => slot[b][x] # k)
    BY <1>2, <1>3, <2>1 DEF ArenaTypes
  <2>3. payload'[b][slot[b][x]] = payload[b][slot[b][x]]
    BY <1>1, <1>2, <2>2 DEF ArenaTypes
  <2>4. slot[b][x] \notin free'[b] /\ slot[b][x] \in packs'[b]
    BY <1>2, <1>4, <2>1 DEF ArenaTypes, Holds
  <2> QED
    BY <2>0, <2>1, <2>3, <2>4, ContentStays DEF Holds
<1> QED
  BY <1>2, <1>4, <1>5, <1>6 DEF ArenaTypes

-----------------------------------------------------------------------------
LEMMA InitInv == Init => IInv
<1> SUFFICES ASSUME Init PROVE IInv
  OBVIOUS
<1> USE SizeIsNat
<1>1. limit \in 1..Size
  <2>1. Size \in 1..Size
    BY ExpertsAreNumbered
  <2> QED
    BY <2>1, LimitsArePositive DEF Init
<1>2. TypeOK
  <2>1. strayed \in BOOLEAN
    BY DEF Init
  <2> QED
    BY <1>1, <2>1, MaxFailuresIsNatural DEF Init, TypeOK, Nowhere, Untouched, Arenas, Slots
<1>3. \A a \in Arenas, e \in Experts : slot[a][e] = None
  BY DEF Init, Nowhere
<1> QED
  BY <1>2, <1>3, SharedIsNoStore DEF Init, IInv, Bindings, Holds, Working, Prepared,
     Launched, Identity, Arenas

(* A store that has had no session has its own arena, and that holds its   *)
(* experts.                                                                *)
LEMMA OwnArena ==
  ASSUME Bindings, NEW s \in Stores, s \notin joined
  PROVE  ref[s] = s /\ Tenant(s) = s
  BY SharedIsNoStore DEF Bindings, Tenant

LEMMA OwnUnlessShared ==
  ASSUME Bindings, NEW s \in Stores, mode # "shared_layer_fused"
  PROVE  ref[s] = s /\ Tenant(s) = s
  BY OwnArena DEF Bindings

(* The reference loop loads into an arena that is its store's, or strays.  *)
LEMMA Serving ==
  ASSUME Bindings, NEW s \in Stores
  PROVE  Tenant(ref[s]) = s \/ (Strays(s) /\ ref[s] = shared)
<1>1. CASE s \in joined
  BY <1>1 DEF Bindings, Tenant, Strays
<1>2. CASE s \notin joined
  BY <1>2, OwnArena
<1> QED
  BY <1>1, <1>2

LEMMA TypeParts ==
  ASSUME TypeOK
  PROVE  ArenaTypes /\ limit \in 1..Size /\ ref \in [Stores -> Arenas]
  BY DEF TypeOK, ArenaTypes

(* A table built over contiguous slots covers exactly the slots with packs.*)
LEMMA TableCovers ==
  ASSUME TypeOK, NEW a \in Arenas, Contiguous(a), Table(a)
  PROVE  /\ packs[a] = 0..(table'[a] - 1)
         /\ table' \in [Arenas -> 0..limit]
<1>1. limit \in Nat /\ packs[a] \subseteq 0..(limit - 1)
  BY SizeIsNat DEF TypeOK, Slots
<1>2. IsFiniteSet(packs[a])
  <2>1. IsFiniteSet(0..(limit - 1))
    BY <1>1, FS_Interval
  <2> QED
    BY <1>1, <2>1, FS_Subset
<1>3. Cardinality(packs[a]) \in Nat
  BY <1>2, FS_CardinalityType
<1>4. Cardinality(packs[a]) <= limit
  <2> DEFINE n == Cardinality(packs[a])
  <2>1. PICK k \in packs[a] : TRUE
    BY DEF Contiguous
  <2>2. n - 1 \in 0..(n - 1)
    BY <1>3, <2>1 DEF Contiguous
  <2> QED
    BY <1>1, <1>3, <2>2 DEF Contiguous
<1> QED
  BY <1>3, <1>4 DEF TypeOK, Table, Contiguous

(* What only the call in progress, the mappings or a table change leaves   *)
(* alone.                                                                  *)
LEMMA Frame ==
  ASSUME IInv, UNCHANGED <<settings, slot, free, payload, packs, sharing, ready>>
  PROVE  ArenaTypes' /\ Bindings' /\ Holds' /\ Identity'
<1>1. ArenaTypes'
  BY TypeParts DEF IInv, ArenaTypes, settings, Slots
<1>2. Bindings'
  BY DEF IInv, Bindings, settings, sharing, bindings
<1>3. Holds'
  <2>1. shared' = shared /\ owner' = owner /\ strayed' = strayed
    BY DEF sharing, bindings
  <2> QED
    BY <2>1 DEF IInv, Holds, Tenant, Mixed
<1>4. Identity'
  BY DEF IInv, Identity
<1> QED
  BY <1>1, <1>2, <1>3, <1>4

-----------------------------------------------------------------------------
(* One lemma per action.                                                   *)

LEMMA GetItemInv ==
  ASSUME IInv, NEW s \in Stores, NEW e \in Experts, GetItem(s, e)
  PROVE  IInv'
<1>1. at = "idle" /\ (mode = "resident_fused" => s \in ready) /\ e \notin Resident(ref[s])
  BY DEF GetItem, MayServe
<1>2. /\ UNCHANGED <<settings, bindings, ready, call, table>>
      /\ strayed' = (strayed \/ Strays(s))
  BY DEF GetItem
<1>3. Tenant(ref[s]) = s \/ (strayed' /\ ref[s] = shared)
  BY <1>2, Serving DEF IInv
<1>4. /\ ArenaTypes' /\ Holds'
      /\ \A b \in Arenas : b # ref[s] => slot'[b] = slot[b]
  <2>1. CASE Fetch(s, e, {})
    BY <1>1, <1>2, <1>3, <2>1, TypeParts, FetchStep DEF IInv
  <2>2. CASE FetchFails(s, {})
    BY <1>2, <2>2, TypeParts, FailStep DEF IInv
  <2> QED
    BY <2>1, <2>2 DEF GetItem
<1>5. failures' \in 0..MaxFailures
  BY MaxFailuresIsNatural DEF GetItem, FetchFails, IInv, TypeOK
<1>6. TypeOK'
  <2>1. strayed' \in BOOLEAN
    BY <1>2
  <2>2. open' \subseteq Stores
    BY DEF GetItem, IInv, TypeOK
  <2> QED
    BY <1>2, <1>4, <1>5, <2>1, <2>2 DEF IInv, TypeOK, ArenaTypes, settings, bindings, call, Slots
<1>7. ready = {}
  <2>1. s \in ready => slot[s][e] # None
    BY NoExpertIsNone DEF IInv, Identity
  <2>2. mode = "resident_fused" => ref[s] = s
    BY OwnUnlessShared DEF IInv
  <2> QED
    BY <1>1, <2>1, <2>2 DEF IInv, Bindings, Resident
<1>8. Bindings'
  <2>1. joined = {} => ref[s] # Shared /\ strayed' = strayed
    BY <1>2, SharedIsNoStore DEF IInv, Bindings, Strays, TypeOK
  <2> QED
    BY <1>2, <1>4, <2>1 DEF IInv, Bindings, settings, bindings, Arenas
<1> QED
  BY <1>1, <1>2, <1>4, <1>6, <1>7, <1>8 DEF IInv, Working, Prepared, Launched, Identity, call

(* A call that loads works on an arena that no ready layer uses.           *)
LEMMA LoadsElsewhere ==
  ASSUME IInv, at = "prepare", NEW s \in ready
  PROVE  who \in Stores /\ s \in Arenas /\ s # ref[who]
  BY OwnUnlessShared DEF IInv, TypeOK, Bindings, Working, Arenas

LEMMA PrepareInv ==
  ASSUME IInv, NEW e \in Experts, Prepare(e)
  PROVE  IInv'
<1>1. /\ at = "prepare" /\ who \in Stores /\ e \in todo /\ todo' = todo \ {e}
      /\ UNCHANGED <<settings, sharing, ready, at, who, old, chunk, rest, failures>>
  BY DEF Prepare, Least, IInv, TypeOK
<1>2. CASE Hit(e)
  <2>1. UNCHANGED <<arenas, open>> /\ e \in Resident(ref[who])
    BY <1>2 DEF Hit
  <2>2. ArenaTypes' /\ Bindings' /\ Holds' /\ Identity'
    BY <1>1, <2>1, Frame DEF arenas
  <2>3. TypeOK'
    BY <1>1, <2>1, <2>2 DEF IInv, TypeOK, ArenaTypes, arenas, settings, sharing, bindings, Slots
  <2>4. Working' /\ Launched'
    BY <1>1 DEF IInv, Working, Launched, Tenant, settings, sharing, bindings
  <2>5. Prepared'
    BY <1>1, <2>1 DEF IInv, Prepared, Resident, arenas, sharing, bindings
  <2> QED
    BY <2>2, <2>3, <2>4, <2>5 DEF IInv
<1>3. CASE Miss(e)
  <2>1. e \notin Resident(ref[who]) /\ Fetch(who, e, chunk)
        /\ open' = open \cup {who} /\ UNCHANGED table
    BY <1>3 DEF Miss
  <2>2. /\ chunk \in SUBSET Experts /\ Tenant(ref[who]) = who
        /\ UNCHANGED <<settings, bindings>> /\ strayed' = strayed
    BY <1>1 DEF IInv, TypeOK, Working, sharing
  <2>3. /\ ArenaTypes' /\ Holds'
        /\ \A x \in chunk : x \in Resident(ref[who]) => x \in Resident(ref[who])'
        /\ e \in Resident(ref[who])'
        /\ \A b \in Arenas : b # ref[who] => slot'[b] = slot[b]
    BY <1>1, <2>1, <2>2, TypeParts, FetchStep DEF IInv
  <2>4. TypeOK'
    BY <1>1, <2>1, <2>3 DEF IInv, TypeOK, ArenaTypes, settings, sharing, bindings, Slots
  <2>5. Bindings'
    <3>1. joined = {} => ref[who] # Shared
      BY <1>1, SharedIsNoStore DEF IInv, Bindings
    <3> QED
      BY <1>1, <2>3, <3>1 DEF IInv, Bindings, settings, sharing, bindings, Arenas
  <2>6. Working' /\ Launched'
    BY <1>1 DEF IInv, Working, Launched, Tenant, settings, sharing, bindings
  <2>7. Prepared'
    BY <1>1, <2>3 DEF IInv, Prepared, sharing, bindings
  <2>8. Identity'
    BY <1>1, <2>3, LoadsElsewhere DEF IInv, Identity
  <2> QED
    BY <2>3, <2>4, <2>5, <2>6, <2>7, <2>8 DEF IInv
<1> QED
  BY <1>2, <1>3 DEF Prepare

LEMMA RaiseEnds ==
  ASSUME IInv, at \in {"prepare", "kernel"}, Raise
  PROVE  /\ at' \in {"idle", "dead"} /\ open' \subseteq Stores
         /\ who' = None /\ old' = {} /\ chunk' = {} /\ todo' = {} /\ rest' = {}
  BY DEF Raise, Return, EndOfCall, IInv, TypeOK

LEMMA PrepareFailsInv ==
  ASSUME IInv, NEW e \in Experts, PrepareFails(e)
  PROVE  IInv'
<1>1. /\ at = "prepare" /\ who \in Stores
      /\ UNCHANGED <<settings, table, sharing, ready>>
      /\ chunk \in SUBSET Experts
  BY DEF PrepareFails, IInv, TypeOK
<1>2. /\ at' \in {"idle", "dead"} /\ open' \subseteq Stores
      /\ who' = None /\ old' = {} /\ chunk' = {} /\ todo' = {} /\ rest' = {}
  BY <1>1, RaiseEnds DEF PrepareFails
<1>3. /\ ArenaTypes' /\ Holds'
      /\ \A b \in Arenas : b # ref[who] => slot'[b] = slot[b]
      /\ failures' \in 0..MaxFailures
  <2>1. CASE FetchFails(who, chunk)
    <3>1. failures' \in 0..MaxFailures
      BY <2>1, MaxFailuresIsNatural DEF FetchFails, IInv, TypeOK
    <3>2. UNCHANGED <<settings, bindings>> /\ strayed' = strayed
      BY <1>1 DEF sharing
    <3> QED
      BY <1>1, <2>1, <3>1, <3>2, TypeParts, FailStep DEF IInv
  <2>2. CASE UNCHANGED <<slot, free, payload, packs, failures>>
    BY <1>1, <2>2, Frame DEF IInv, TypeOK
  <2> QED
    BY <2>1, <2>2 DEF PrepareFails
<1>4. TypeOK'
  BY <1>1, <1>2, <1>3 DEF IInv, TypeOK, ArenaTypes, settings, sharing, bindings, Slots
<1>5. Bindings'
  <2>1. joined = {} => ref[who] # Shared
    BY <1>1, SharedIsNoStore DEF IInv, Bindings
  <2> QED
    BY <1>1, <1>3, <2>1 DEF IInv, Bindings, settings, sharing, bindings, Arenas
<1>6. Identity'
  BY <1>1, <1>3, LoadsElsewhere DEF IInv, Identity
<1>7. Working' /\ Prepared' /\ Launched'
  BY <1>2 DEF Working, Prepared, Launched
<1> QED
  BY <1>3, <1>4, <1>5, <1>6, <1>7 DEF IInv

LEMMA LaunchInv == IInv /\ Launch => IInv'
<1> SUFFICES ASSUME IInv, Launch PROVE IInv'
  OBVIOUS
<1>1. /\ at = "prepare" /\ todo = {} /\ mode # "resident_fused" /\ at' = "kernel"
      /\ UNCHANGED <<settings, slot, free, payload, packs, sharing, ready, open,
                     who, old, chunk, todo, rest, failures>>
  BY DEF Launch
<1>2. ref[who] \in Arenas
  BY <1>1 DEF IInv, TypeOK
<1>3. packs[ref[who]] = 0..(table'[ref[who]] - 1) /\ table' \in [Arenas -> 0..limit]
  BY <1>2, TableCovers DEF IInv, Launch
<1>4. ArenaTypes' /\ Bindings' /\ Holds' /\ Identity'
  BY <1>1, Frame
<1>5. TypeOK'
  BY <1>1, <1>3, <1>4 DEF IInv, TypeOK, ArenaTypes, settings, sharing, bindings, Slots
<1>6. Working' /\ Prepared'
  BY <1>1 DEF IInv, Working, Prepared, Tenant, settings, sharing, bindings
<1>7. Launched'
  BY <1>1, <1>3 DEF IInv, Prepared, Launched, Resident, settings, sharing, bindings
<1> QED
  BY <1>4, <1>5, <1>6, <1>7 DEF IInv

LEMMA LaunchFailsInv == IInv /\ LaunchFails => IInv'
<1> SUFFICES ASSUME IInv, LaunchFails PROVE IInv'
  OBVIOUS
<1>1. at = "prepare" /\ UNCHANGED <<settings, arenas, sharing, ready, failures>>
  BY DEF LaunchFails
<1>2. /\ at' \in {"idle", "dead"} /\ open' \subseteq Stores
      /\ who' = None /\ old' = {} /\ chunk' = {} /\ todo' = {} /\ rest' = {}
  BY <1>1, RaiseEnds DEF LaunchFails
<1>3. ArenaTypes' /\ Bindings' /\ Holds' /\ Identity'
  BY <1>1, Frame DEF arenas
<1>4. TypeOK'
  BY <1>1, <1>2, <1>3 DEF IInv, TypeOK, ArenaTypes, arenas, settings, sharing, bindings, Slots
<1>5. Working' /\ Prepared' /\ Launched'
  BY <1>2 DEF Working, Prepared, Launched
<1> QED
  BY <1>3, <1>4, <1>5 DEF IInv

LEMMA ChunkIsOf ==
  ASSUME NEW S \in SUBSET Experts, NEW k, NEW R, Chunk(S, k, R)
  PROVE  /\ at' = "prepare" /\ chunk' \subseteq Experts /\ rest' \subseteq Experts
         /\ todo' = chunk'
<1>1. First(S, k, R) \subseteq S
  BY DEF First
<1> QED
  BY <1>1 DEF Chunk

LEMMA KernelDoneInv == IInv /\ KernelDone => IInv'
<1> SUFFICES ASSUME IInv, KernelDone PROVE IInv'
  OBVIOUS
<1>1. at = "kernel" /\ UNCHANGED <<settings, arenas, sharing, ready, failures>>
  BY DEF KernelDone
<1>2. ArenaTypes' /\ Bindings' /\ Holds' /\ Identity'
  BY <1>1, Frame DEF arenas
<1>3. CASE rest = {}
  <2>1. /\ at' = "idle" /\ open' \subseteq Stores
        /\ who' = None /\ old' = {} /\ chunk' = {} /\ todo' = {} /\ rest' = {}
    BY <1>3 DEF KernelDone, Return, EndOfCall, IInv, TypeOK
  <2>2. TypeOK'
    BY <1>1, <1>2, <2>1 DEF IInv, TypeOK, ArenaTypes, arenas, settings, sharing, bindings, Slots
  <2> QED
    BY <1>2, <2>1, <2>2 DEF IInv, Working, Prepared, Launched
<1>4. CASE rest # {}
  <2>1. Chunk(rest, limit, old) /\ UNCHANGED <<who, old, open>> /\ rest \in SUBSET Experts
    BY <1>4 DEF KernelDone, IInv, TypeOK
  <2>2. /\ at' = "prepare" /\ chunk' \subseteq Experts /\ rest' \subseteq Experts
        /\ todo' = chunk'
    BY <2>1, ChunkIsOf
  <2>3. TypeOK'
    BY <1>1, <1>2, <2>1, <2>2 DEF IInv, TypeOK, ArenaTypes, arenas, settings, sharing, bindings, Slots
  <2>4. mode # "resident_fused" /\ mode' = mode
    BY <1>1, <1>4 DEF IInv, Launched, settings
  <2>5. Working'
    BY <1>1, <2>1, <2>4 DEF IInv, Working, Tenant, sharing, bindings
  <2>6. Prepared' /\ Launched'
    BY <2>2 DEF Prepared, Launched
  <2> QED
    BY <1>2, <2>3, <2>5, <2>6 DEF IInv
<1> QED
  BY <1>3, <1>4

LEMMA NextBlockInv == IInv /\ NextBlock => IInv'
<1> SUFFICES ASSUME IInv, NextBlock PROVE IInv'
  OBVIOUS
<1>1. /\ at = "prepare" /\ Chunk(rest, BlockSlots, {}) /\ rest \in SUBSET Experts
      /\ open' \subseteq Stores
      /\ UNCHANGED <<settings, arenas, sharing, ready, who, old, failures>>
  BY DEF NextBlock, IInv, TypeOK
<1>2. /\ at' = "prepare" /\ chunk' \subseteq Experts /\ rest' \subseteq Experts
      /\ todo' = chunk'
  BY <1>1, ChunkIsOf
<1>3. ArenaTypes' /\ Bindings' /\ Holds' /\ Identity'
  BY <1>1, Frame DEF arenas
<1>4. TypeOK'
  BY <1>1, <1>2, <1>3 DEF IInv, TypeOK, ArenaTypes, arenas, settings, sharing, bindings, Slots
<1>5. Working'
  BY <1>1, <1>2 DEF IInv, Working, Tenant, settings, sharing, bindings
<1>6. Prepared' /\ Launched'
  BY <1>2 DEF Prepared, Launched
<1> QED
  BY <1>3, <1>4, <1>5, <1>6 DEF IInv

LEMMA FilledInv == IInv /\ Filled => IInv'
<1> SUFFICES ASSUME IInv, Filled PROVE IInv'
  OBVIOUS
<1>1. /\ at = "prepare" /\ mode = "resident_fused" /\ who \in Stores
      /\ open' \subseteq Stores /\ at' \in {"idle", "dead"}
      /\ who' = None /\ old' = {} /\ chunk' = {} /\ todo' = {} /\ rest' = {}
      /\ UNCHANGED <<settings, slot, free, payload, packs, sharing, failures>>
  BY DEF Filled, EndOfCall, IInv, TypeOK
<1>2. ref[who] = who /\ who \in Arenas
  BY <1>1, OwnUnlessShared DEF IInv, Arenas
<1>3. CASE UNCHANGED <<table, ready>>
  <2>1. ArenaTypes' /\ Bindings' /\ Holds' /\ Identity'
    BY <1>1, <1>3, Frame
  <2>2. TypeOK'
    BY <1>1, <1>3, <2>1 DEF IInv, TypeOK, ArenaTypes, settings, sharing, bindings, Slots
  <2> QED
    BY <1>1, <2>1, <2>2 DEF IInv, Working, Prepared, Launched
<1>4. CASE IsIdentity(who) /\ Contiguous(who) /\ Table(who) /\ ready' = ready \cup {who}
  <2>1. table' \in [Arenas -> 0..limit]
    BY <1>2, <1>4, TableCovers DEF IInv
  <2>2. ArenaTypes'
    BY <1>1, TypeParts DEF IInv, ArenaTypes, settings, Slots
  <2>3. TypeOK'
    BY <1>1, <1>4, <2>1, <2>2 DEF IInv, TypeOK, ArenaTypes, settings, sharing, bindings, Slots
  <2>4. Bindings'
    BY <1>1 DEF IInv, Bindings, settings, sharing, bindings
  <2>5. Holds'
    <3>1. shared' = shared /\ owner' = owner /\ strayed' = strayed
      BY <1>1 DEF sharing, bindings
    <3> QED
      BY <1>1, <3>1 DEF IInv, Holds, Tenant, Mixed
  <2>6. Identity'
    BY <1>1, <1>4 DEF IInv, Identity, IsIdentity
  <2> QED
    BY <1>1, <2>3, <2>4, <2>5, <2>6 DEF IInv, Working, Prepared, Launched
<1> QED
  BY <1>2, <1>3, <1>4 DEF Filled

LEMMA ApplyResidentInv ==
  ASSUME IInv, NEW s \in Stores, NEW S \in SUBSET Experts, ApplyResident(s, S)
  PROVE  IInv'
<1>1. /\ mode = "resident_fused" /\ s \in ready
      /\ at' = "kernel" /\ who' = s /\ old' = {}
      /\ chunk' = S /\ todo' = {} /\ rest' = {}
      /\ UNCHANGED <<settings, slot, free, payload, packs, sharing, ready, open, failures>>
  BY DEF ApplyResident
<1>2. ref[s] = s /\ Tenant(s) = s /\ s \in Arenas
  BY <1>1, OwnUnlessShared DEF IInv, Arenas
<1>3. packs[s] = 0..(table'[s] - 1) /\ table' \in [Arenas -> 0..limit]
  BY <1>2, TableCovers DEF IInv, ApplyResident
<1>4. ArenaTypes' /\ Bindings' /\ Holds' /\ Identity'
  BY <1>1, Frame
<1>5. TypeOK'
  BY <1>1, <1>3, <1>4 DEF IInv, TypeOK, ArenaTypes, settings, sharing, bindings, Slots
<1>6. Working' /\ Prepared'
  BY <1>1, <1>2 DEF Working, Prepared, Tenant, sharing, bindings
<1>7. S \subseteq Resident(s)
  BY <1>1, NoExpertIsNone DEF IInv, Identity, Resident
<1>8. Launched'
  BY <1>1, <1>2, <1>3, <1>7 DEF Launched, Resident, sharing, bindings
<1> QED
  BY <1>4, <1>5, <1>6, <1>8 DEF IInv

(* The two calls that only begin: a chunk in the store's own arena.        *)
LEMMA BeginInv ==
  ASSUME IInv, NEW s \in Stores, NEW S \in SUBSET Experts, NEW k, NEW R,
         at = "idle", mode # "shared_layer_fused",
         mode = "resident_fused" => s \notin ready,
         who' = s, old' \subseteq Experts, Chunk(S, k, R),
         UNCHANGED <<settings, arenas, sharing, ready, open, failures>>
  PROVE  IInv'
<1>1. /\ at' = "prepare" /\ chunk' \subseteq Experts /\ rest' \subseteq Experts
      /\ todo' = chunk'
  BY ChunkIsOf
<1>2. ArenaTypes' /\ Bindings' /\ Holds' /\ Identity'
  BY Frame DEF arenas
<1>3. TypeOK'
  BY <1>1, <1>2 DEF IInv, TypeOK, ArenaTypes, arenas, settings, sharing, bindings, Slots
<1>4. Working'
  BY <1>1, OwnUnlessShared DEF IInv, Working, Tenant, settings, sharing, bindings
<1>5. Prepared' /\ Launched'
  BY <1>1 DEF Prepared, Launched
<1> QED
  BY <1>2, <1>3, <1>4, <1>5 DEF IInv

LEMMA ApplyChunkedInv ==
  ASSUME IInv, NEW s \in Stores, NEW S \in SUBSET Experts, ApplyChunked(s, S)
  PROVE  IInv'
<1>1. old' \subseteq Experts
  BY DEF ApplyChunked
<1> QED
  BY <1>1, BeginInv DEF ApplyChunked

LEMMA FillResidentInv ==
  ASSUME IInv, NEW s \in Stores, FillResident(s)
  PROVE  IInv'
<1>1. Experts \in SUBSET Experts /\ old' \subseteq Experts
  BY DEF FillResident
<1> QED
  BY <1>1, BeginInv DEF FillResident

LEMMA ApplyNothingInv ==
  ASSUME IInv, NEW s \in Stores, ApplyNothing(s)
  PROVE  IInv'
<1>1. /\ UNCHANGED <<settings, arenas, sharing, ready, call, failures>>
      /\ at = "idle" /\ open' \subseteq Stores
  BY DEF ApplyNothing, IInv, TypeOK
<1>2. ArenaTypes' /\ Bindings' /\ Holds' /\ Identity'
  BY <1>1, Frame DEF arenas
<1>3. TypeOK'
  BY <1>1, <1>2 DEF IInv, TypeOK, ArenaTypes, arenas, settings, sharing, bindings, call, Slots
<1> QED
  BY <1>1, <1>2, <1>3 DEF IInv, Working, Prepared, Launched, call

(* A session hands the shared arena to its store: what the arenas that are *)
(* not emptied hold is still their tenant's.                               *)
LEMMA JoinStep ==
  ASSUME TypeOK, Bindings, Holds, NEW s \in Stores, Join(s),
         mode = "shared_layer_fused", UNCHANGED <<settings, ready>>
  PROVE  /\ ArenaTypes' /\ Bindings' /\ Holds'
         /\ table' \in [Arenas -> 0..limit] /\ ref' \in [Stores -> Arenas]
         /\ shared' \in Arenas /\ owner' = s /\ joined' \subseteq Stores
         /\ Tenant(ref[s])' = s /\ strayed' \in BOOLEAN
<1> DEFINE empty == Clears(s) \cup Drops(s)
<1>1. /\ owner' = s /\ joined' = joined \cup {s}
      /\ slot' = [a \in Arenas |-> IF a \in empty THEN Nowhere ELSE slot[a]]
      /\ free' = [a \in Arenas |-> IF a \in empty THEN Slots ELSE free[a]]
      /\ payload' = [a \in Arenas |-> IF a \in Drops(s) THEN Untouched ELSE payload[a]]
      /\ packs' = [a \in Arenas |-> IF a \in Drops(s) THEN {} ELSE packs[a]]
      /\ table' = [a \in Arenas |-> IF a \in Drops(s) THEN 0 ELSE table[a]]
      /\ mode' = mode /\ ready' = ready /\ strayed' = strayed /\ Slots' = Slots
  BY DEF Join, Freed, settings, Slots
<1>2. CASE Adopts(s)
  <2>1. joined = {} /\ ref[s] = s /\ shared = Shared /\ owner = None /\ ~strayed
    BY <1>2, NoneIsNothing DEF Adopts, Bindings, TypeOK
  <2>2. empty = {} /\ Drops(s) = {}
    BY <1>2 DEF Clears, Drops
  <2>3. shared' = s /\ ref' = ref
    BY <1>2, <2>1 DEF Join
  <2> QED
    <3>1. slot' = slot /\ free' = free /\ payload' = payload /\ packs' = packs /\ table' = table
      BY <1>1, <2>2 DEF TypeOK
    <3>2. ArenaTypes'
      BY <1>1, <3>1, TypeParts DEF ArenaTypes
    <3>3. Bindings'
      BY <1>1, <2>1, <2>3 DEF Bindings, TypeOK
    <3>4. Holds'
      <4> SUFFICES ASSUME NEW a \in Arenas, NEW e \in Experts, slot[a][e] # None
                   PROVE  Tenant(a)' = Tenant(a) /\ Mixed(a)' = Mixed(a)
        BY <3>1 DEF Holds
      <4>1. a # Shared
        BY <2>1 DEF Bindings, Nowhere
      <4> QED
        BY <1>1, <2>1, <2>3, <4>1 DEF Tenant, Mixed
    <3>5. Tenant(ref[s])' = s
      BY <1>1, <2>1, <2>3 DEF Tenant
    <3> QED
      BY <1>1, <2>3, <3>1, <3>2, <3>3, <3>4, <3>5 DEF TypeOK, Arenas
<1>3. CASE ~Adopts(s)
  <2>1. shared' = shared /\ ref' = [ref EXCEPT ![s] = shared]
    BY <1>3 DEF Join
  <2>2. ArenaTypes'
    BY <1>1, SizeIsNat DEF TypeOK, ArenaTypes, Nowhere, Untouched
  <2>3. table' \in [Arenas -> 0..limit]
    BY <1>1, SizeIsNat DEF TypeOK
  <2>4. Bindings'
    BY <1>1, <2>1 DEF Bindings, TypeOK
  <2>5. Holds'
    <3> SUFFICES ASSUME NEW a \in Arenas, NEW e \in Experts, slot'[a][e] # None
                 PROVE  /\ Content(Tenant(a)', Mixed(a)', e, payload'[a][slot'[a][e]])
                        /\ slot'[a][e] \in packs'[a] /\ slot'[a][e] \notin free'[a]
      BY DEF Holds
    <3>1. a \notin empty
      BY <1>1 DEF Nowhere
    <3>2. /\ slot'[a] = slot[a] /\ free'[a] = free[a]
          /\ payload'[a] = payload[a] /\ packs'[a] = packs[a]
      BY <1>1, <3>1
    <3>3. Tenant(a)' = Tenant(a) /\ Mixed(a)' = Mixed(a)
      BY <1>1, <1>3, <2>1, <3>1 DEF Tenant, Mixed, Clears
    <3> QED
      BY <3>2, <3>3 DEF Holds
  <2>6. Tenant(ref[s])' = s
    BY <1>1, <2>1 DEF Tenant, TypeOK
  <2> QED
    BY <1>1, <2>1, <2>2, <2>3, <2>4, <2>5, <2>6 DEF TypeOK
<1> QED
  BY <1>2, <1>3

LEMMA ApplySharedInv ==
  ASSUME IInv, NEW s \in Stores, NEW S \in SUBSET Experts, ApplyShared(s, S)
  PROVE  IInv'
<1>1. /\ mode = "shared_layer_fused" /\ Join(s)
      /\ at' = "prepare" /\ who' = s /\ old' = {}
      /\ chunk' = S /\ todo' = S /\ rest' = {}
      /\ UNCHANGED <<settings, ready, open, failures>>
  BY DEF ApplyShared
<1>2. /\ ArenaTypes' /\ Bindings' /\ Holds'
      /\ table' \in [Arenas -> 0..limit] /\ ref' \in [Stores -> Arenas]
      /\ shared' \in Arenas /\ owner' = s /\ joined' \subseteq Stores
      /\ Tenant(ref[s])' = s /\ strayed' \in BOOLEAN
  BY <1>1, JoinStep DEF IInv
<1>3. TypeOK'
  BY <1>1, <1>2 DEF IInv, TypeOK, ArenaTypes, settings, Slots
<1>4. Working'
  BY <1>1, <1>2 DEF Working, Tenant, settings
<1>5. Identity'
  BY <1>1 DEF IInv, Bindings, Identity
<1> QED
  BY <1>1, <1>2, <1>3, <1>4, <1>5 DEF IInv, Prepared, Launched

LEMMA StutterInv == IInv /\ UNCHANGED vars => IInv'
<1> SUFFICES ASSUME IInv, UNCHANGED vars PROVE IInv'
  OBVIOUS
<1>1. ArenaTypes' /\ Bindings' /\ Holds' /\ Identity'
  BY Frame DEF vars, arenas
<1>2. TypeOK'
  BY <1>1 DEF IInv, TypeOK, ArenaTypes, vars, arenas, settings, sharing, bindings, call, Slots
<1> QED
  BY <1>1, <1>2 DEF IInv, Working, Prepared, Launched, Resident, Tenant,
     vars, arenas, settings, sharing, bindings, call

LEMMA NextInv == IInv /\ [Next]_vars => IInv'
<1> SUFFICES ASSUME IInv, [Next]_vars PROVE IInv'
  OBVIOUS
<1>1. CASE \E s \in Stores, e \in Experts : GetItem(s, e) \/ GetItemAtOnce(s, e)
  BY <1>1, GetItemInv, StutterInv DEF GetItemAtOnce
<1>2. CASE \E s \in Stores, S \in SUBSET Experts :
             ApplyChunked(s, S) \/ ApplyShared(s, S) \/ ApplyResident(s, S)
  BY <1>2, ApplyChunkedInv, ApplySharedInv, ApplyResidentInv
<1>3. CASE \E s \in Stores : FillResident(s) \/ ApplyNothing(s)
  BY <1>3, FillResidentInv, ApplyNothingInv
<1>4. CASE \E e \in Experts : Prepare(e) \/ PrepareFails(e)
  BY <1>4, PrepareInv, PrepareFailsInv
<1>5. CASE Launch \/ LaunchFails \/ KernelDone \/ NextBlock \/ Filled
  BY <1>5, LaunchInv, LaunchFailsInv, KernelDoneInv, NextBlockInv, FilledInv
<1>6. CASE Dead \/ UNCHANGED vars
  BY <1>6, StutterInv DEF Dead
<1> QED
  BY <1>1, <1>2, <1>3, <1>4, <1>5, <1>6 DEF Next

(* IInv holds in every reachable state of the store.                       *)
THEOREM Inductive == Spec => []IInv
  BY InitInv, NextInv, PTL DEF Spec

-----------------------------------------------------------------------------
(* Every variable of the store has its type in every reachable state.      *)
THEOREM Types == Spec => []TypeOK
<1>1. IInv => TypeOK
  BY DEF IInv
<1> QED
  BY <1>1, Inductive, PTL

(* The fused kernel reads each selected expert of the right layer through  *)
(* a slot inside its pointer table, whatever was evicted, handed to        *)
(* another layer or failed to load, as long as no layer was served by the  *)
(* reference loop while another owned the arena; inside the table it reads *)
(* even then.                                                              *)
THEOREM KernelTheorem == Spec => []KernelReadsItsExperts
<1>1. ASSUME IInv PROVE KernelReadsItsExperts
  <2> SUFFICES ASSUME at = "kernel", NEW e \in chunk
               PROVE  /\ SlotId(e) \in 0..(table[ref[who]] - 1)
                      /\ ~strayed => payload[ref[who]][SlotId(e)] = <<who, e>>
    BY DEF KernelReadsItsExperts
  <2>1. who \in Stores /\ e \in Experts /\ ref[who] \in Arenas
    BY <1>1 DEF IInv, TypeOK
  <2>2. slot[ref[who]][e] # None /\ Tenant(ref[who]) = who
    BY <1>1 DEF IInv, Launched, Working, Resident
  <2>3. SlotId(e) = slot[ref[who]][e]
    BY <1>1, <2>1, OwnUnlessShared DEF IInv, Launched, Identity, SlotId
  <2>4. /\ Content(who, Mixed(ref[who]), e, payload[ref[who]][slot[ref[who]][e]])
        /\ slot[ref[who]][e] \in packs[ref[who]]
    BY <1>1, <2>1, <2>2 DEF IInv, Holds
  <2>5. ~strayed => payload[ref[who]][SlotId(e)] = <<who, e>>
    BY <2>3, <2>4 DEF Content, Mixed
  <2> QED
    BY <1>1, <2>3, <2>4, <2>5 DEF IInv, Launched
<1> QED
  BY <1>1, Inductive, PTL

(* The reference loop is served the layer's own expert from the cache, also*)
(* after a session of the layer, as long as it owns the shared arena.      *)
THEOREM ServesTheorem == Spec => []ServesItsExperts
<1>1. ASSUME IInv PROVE ServesItsExperts
  <2> SUFFICES ASSUME NEW s \in Stores, ~Strays(s), NEW e \in Resident(ref[s])
               PROVE  \/ payload[ref[s]][slot[ref[s]][e]] = <<s, e>>
                      \/ strayed /\ s \in joined
    BY DEF ServesItsExperts
  <2>1. Tenant(ref[s]) = s /\ ref[s] \in Arenas
    BY <1>1, Serving DEF IInv, TypeOK
  <2>2. Content(s, Mixed(ref[s]), e, payload[ref[s]][slot[ref[s]][e]])
    BY <1>1, <2>1 DEF IInv, Holds, Resident
  <2>3. ref[s] = shared => s \in joined
    BY <1>1, OwnArena, SharedIsNoStore DEF IInv, Bindings
  <2> QED
    BY <2>2, <2>3 DEF Content, Mixed
<1> QED
  BY <1>1, Inductive, PTL

-----------------------------------------------------------------------------
(* What a failing load costs.                                              *)

LEMMA LostInFetch ==
  ASSUME limit \in 1..Size, ref \in [Stores -> Arenas], ArenaTypes,
         NEW s \in Stores, NEW e \in Experts, NEW P \in SUBSET Experts,
         e \notin Resident(ref[s]), Fetch(s, e, P), UNCHANGED settings
  PROVE  \A a \in Arenas : Lost(a)' \subseteq Lost(a)
<1> DEFINE b == ref[s]
<1>1. PICK v \in Experts \cup {None}, k \in Slots :
        Take(b, v, k, P) /\ Assign(b, e, v, k)
  BY DEF Fetch
<1>2. b \in Arenas /\ slot[b][e] = None /\ (v # None => slot[b][v] = k)
  BY <1>1 DEF Resident, Take, TakesFrom
<1>3. /\ slot' = [slot EXCEPT ![b] = [x \in Experts |->
                    IF x = e THEN k ELSE IF x = v THEN None ELSE slot[b][x]]]
      /\ free' = [free EXCEPT ![b] = free[b] \ {k}] /\ Slots' = Slots
  BY <1>1, <1>2 DEF Assign, ArenaTypes, settings, Slots
<1> SUFFICES ASSUME NEW a \in Arenas, NEW x \in Slots, x \in Lost(a)'
             PROVE  x \in Lost(a)
  BY <1>3 DEF Lost
<1>4. CASE a # b
  BY <1>2, <1>3, <1>4 DEF Lost, ArenaTypes
<1>5. CASE a = b
  <2>1. /\ slot'[b] = [y \in Experts |->
                    IF y = e THEN k ELSE IF y = v THEN None ELSE slot[b][y]]
        /\ free'[b] = free[b] \ {k}
    BY <1>2, <1>3 DEF ArenaTypes
  <2>2. x \notin free'[b] /\ \A y \in Experts : slot'[b][y] # x
    BY <1>5 DEF Lost
  <2>3. x # k
    BY <2>1, <2>2
  <2>4. \A y \in Experts : slot[b][y] # x
    BY <1>2, <2>1, <2>2, <2>3, NoSlotIsNone, NoExpertIsNone
  <2> QED
    BY <1>5, <2>1, <2>2, <2>3, <2>4 DEF Lost
<1> QED
  BY <1>4, <1>5

LEMMA LostInFailure ==
  ASSUME limit \in 1..Size, ref \in [Stores -> Arenas], ArenaTypes,
         NEW s \in Stores, NEW P \in SUBSET Experts,
         FetchFails(s, P), UNCHANGED settings
  PROVE  \E k \in Slots : \A a \in Arenas : Lost(a)' \subseteq Lost(a) \cup {k}
<1> DEFINE b == ref[s]
<1>1. PICK v \in Experts \cup {None}, k \in Slots : Take(b, v, k, P) /\ Drop(b, v, k)
  BY DEF FetchFails
<1>2. b \in Arenas /\ (v # None => slot[b][v] = k)
  BY <1>1 DEF Take, TakesFrom
<1>3. /\ slot' = [slot EXCEPT ![b] = [x \in Experts |-> IF x = v THEN None ELSE slot[b][x]]]
      /\ free' = [free EXCEPT ![b] = free[b] \ {k}] /\ Slots' = Slots
  BY <1>1, <1>2 DEF Drop, ArenaTypes, settings, Slots
<1> SUFFICES ASSUME NEW a \in Arenas, NEW x \in Slots, x \in Lost(a)', x # k
             PROVE  x \in Lost(a)
  BY <1>3 DEF Lost
<1>4. CASE a # b
  BY <1>2, <1>3, <1>4 DEF Lost, ArenaTypes
<1>5. CASE a = b
  <2>1. /\ slot'[b] = [y \in Experts |-> IF y = v THEN None ELSE slot[b][y]]
        /\ free'[b] = free[b] \ {k}
    BY <1>2, <1>3 DEF ArenaTypes
  <2>2. x \notin free'[b] /\ \A y \in Experts : slot'[b][y] # x
    BY <1>5 DEF Lost
  <2>3. \A y \in Experts : slot[b][y] # x
    BY <1>2, <2>1, <2>2, NoExpertIsNone
  <2> QED
    BY <1>5, <2>1, <2>2, <2>3 DEF Lost
<1> QED
  BY <1>4, <1>5

LEMMA LostInSession ==
  ASSUME TypeOK, NEW s \in Stores, Join(s), UNCHANGED settings
  PROVE  \A a \in Arenas : Lost(a)' \subseteq Lost(a)
<1> SUFFICES ASSUME NEW a \in Arenas PROVE Lost(a)' \subseteq Lost(a)
  OBVIOUS
<1>1. Slots' = Slots
  BY DEF settings, Slots
<1>2. CASE a \in Clears(s) \cup Drops(s)
  BY <1>1, <1>2 DEF Join, Lost, Freed
<1>3. CASE a \notin Clears(s) \cup Drops(s)
  <2>1. slot'[a] = slot[a] /\ free'[a] = free[a]
    BY <1>3 DEF Join
  <2> QED
    BY <1>1, <2>1 DEF Lost
<1> QED
  BY <1>2, <1>3

(* A step loses no slot, or it is a failure and each arena loses at most   *)
(* the slot it took.                                                       *)
LEMMA LostInStep ==
  ASSUME IInv, [Next]_vars
  PROVE  \/ failures' = failures /\ \A a \in Arenas : Lost(a)' \subseteq Lost(a)
         \/ /\ failures' = failures + 1
            /\ \E k \in Slots : \A a \in Arenas : Lost(a)' \subseteq Lost(a) \cup {k}
<1> DEFINE Kept == failures' = failures /\ \A a \in Arenas : Lost(a)' \subseteq Lost(a)
           Cost == /\ failures' = failures + 1
                   /\ \E k \in Slots : \A a \in Arenas : Lost(a)' \subseteq Lost(a) \cup {k}
<1>1. ASSUME UNCHANGED <<slot, free, settings, failures>> PROVE Kept
  <2>1. \A a \in Arenas : Lost(a)' = Lost(a)
    BY <1>1 DEF Lost, settings, Slots
  <2> QED
    BY <1>1, <2>1
<1>2. ASSUME NEW s \in Stores, NEW e \in Experts, GetItem(s, e) PROVE Kept \/ Cost
  <2>1. CASE Fetch(s, e, {}) /\ UNCHANGED failures
    BY <1>2, <2>1, TypeParts, LostInFetch DEF IInv, GetItem
  <2>2. CASE FetchFails(s, {})
    <3>1. failures' = failures + 1
      BY <2>2 DEF FetchFails
    <3> QED
      BY <1>2, <2>2, <3>1, TypeParts, LostInFailure DEF IInv, GetItem
  <2> QED
    BY <1>2, <2>1, <2>2 DEF GetItem
<1>3. ASSUME NEW e \in Experts, Prepare(e) PROVE Kept
  <2>1. who \in Stores /\ chunk \in SUBSET Experts /\ UNCHANGED <<settings, failures>>
    BY <1>3 DEF Prepare, IInv, TypeOK
  <2>2. CASE Hit(e)
    BY <1>1, <2>1, <2>2 DEF Hit, arenas
  <2>3. CASE Miss(e)
    BY <2>1, <2>3, TypeParts, LostInFetch DEF IInv, Miss
  <2> QED
    BY <1>3, <2>2, <2>3 DEF Prepare
<1>4. ASSUME NEW e \in Experts, PrepareFails(e) PROVE Kept \/ Cost
  <2>1. who \in Stores /\ chunk \in SUBSET Experts /\ UNCHANGED settings
    BY <1>4 DEF PrepareFails, IInv, TypeOK
  <2>2. CASE FetchFails(who, chunk)
    <3>1. failures' = failures + 1
      BY <2>2 DEF FetchFails
    <3> QED
      BY <2>1, <2>2, <3>1, TypeParts, LostInFailure DEF IInv
  <2>3. CASE UNCHANGED <<slot, free, payload, packs, failures>>
    BY <1>1, <2>1, <2>3
  <2> QED
    BY <1>4, <2>2, <2>3 DEF PrepareFails
<1>5. ASSUME NEW s \in Stores, NEW S \in SUBSET Experts, ApplyShared(s, S) PROVE Kept
  BY <1>5, LostInSession DEF IInv, ApplyShared
<1>6. CASE \/ \E s \in Stores, e \in Experts : GetItemAtOnce(s, e)
           \/ \E s \in Stores, S \in SUBSET Experts : ApplyChunked(s, S) \/ ApplyResident(s, S)
           \/ \E s \in Stores : FillResident(s) \/ ApplyNothing(s)
  BY <1>1, <1>6 DEF GetItemAtOnce, ApplyChunked, ApplyResident, FillResident, ApplyNothing,
     vars, arenas, settings
<1>7. CASE Launch \/ LaunchFails \/ KernelDone \/ NextBlock \/ Filled
  BY <1>1, <1>7 DEF Launch, LaunchFails, KernelDone, NextBlock, Filled, arenas, settings
<1>8. CASE Dead \/ UNCHANGED vars
  BY <1>1, <1>8 DEF Dead, vars, arenas, settings
<1> QED
  BY <1>2, <1>3, <1>4, <1>5, <1>6, <1>7, <1>8 DEF Next

LEMMA LostIsFinite ==
  ASSUME limit \in 1..Size, NEW S \in SUBSET Slots
  PROVE  IsFiniteSet(S) /\ Cardinality(S) \in Nat
<1>1. IsFiniteSet(0..(limit - 1))
  BY SizeIsNat, FS_Interval
<1> QED
  BY <1>1, FS_Subset, FS_CardinalityType DEF Slots

(* A load that raises costs its arena at most one slot, and nothing else   *)
(* ever loses one.                                                         *)
THEOREM FailureTheorem == Spec => []FailureCostsOneSlot
<1>1. Init => FailureCostsOneSlot
  <2> SUFFICES ASSUME Init PROVE FailureCostsOneSlot
    OBVIOUS
  <2>1. \A a \in Arenas : Lost(a) = {}
    BY DEF Init, Lost
  <2> QED
    BY <2>1, FS_EmptySet DEF FailureCostsOneSlot, Init
<1>2. IInv /\ FailureCostsOneSlot /\ [Next]_vars => FailureCostsOneSlot'
  <2> SUFFICES ASSUME IInv, FailureCostsOneSlot, [Next]_vars, NEW a \in Arenas
               PROVE  Cardinality(Lost(a)') <= failures'
    BY DEF FailureCostsOneSlot
  <2>1. /\ limit \in 1..Size /\ Lost(a) \subseteq Slots /\ failures \in Nat
        /\ Cardinality(Lost(a)) <= failures
    <3>1. limit \in 1..Size /\ failures \in Nat
      BY MaxFailuresIsNatural DEF IInv, TypeOK
    <3>2. Lost(a) \subseteq Slots
      BY DEF Lost
    <3> QED
      BY <3>1, <3>2 DEF FailureCostsOneSlot
  <2>2. IsFiniteSet(Lost(a)) /\ Cardinality(Lost(a)) \in Nat
    BY <2>1, LostIsFinite
  <2>3. CASE failures' = failures /\ Lost(a)' \subseteq Lost(a)
    <3>1. Cardinality(Lost(a)') <= Cardinality(Lost(a)) /\ Cardinality(Lost(a)') \in Nat
      BY <2>2, <2>3, FS_Subset, FS_CardinalityType
    <3> QED
      BY <2>1, <2>2, <2>3, <3>1
  <2>4. ASSUME NEW k \in Slots, Lost(a)' \subseteq Lost(a) \cup {k}, failures' = failures + 1
        PROVE  Cardinality(Lost(a)') <= failures'
    <3> DEFINE Most == Lost(a) \cup {k}
    <3>1. IsFiniteSet(Most) /\ Cardinality(Most) \in Nat
          /\ Cardinality(Most) <= Cardinality(Lost(a)) + 1
      <4>1. IsFiniteSet(Most) /\ Cardinality(Most) =
              IF k \in Lost(a) THEN Cardinality(Lost(a)) ELSE Cardinality(Lost(a)) + 1
        BY <2>2, FS_AddElement
      <4> QED
        BY <2>2, <4>1
    <3>2. Cardinality(Lost(a)') <= Cardinality(Most) /\ Cardinality(Lost(a)') \in Nat
      BY <2>4, <3>1, FS_Subset, FS_CardinalityType
    <3> QED
      BY <2>1, <2>2, <2>4, <3>1, <3>2
  <2> QED
    BY <2>3, <2>4, LostInStep
<1> QED
  BY <1>1, <1>2, Inductive, PTL DEF Spec

(* A call that comes back, with a result or an exception, leaves the       *)
(* mapping of its rank pack closed.                                        *)
THEOREM MappingsTheorem == Spec => CallsCloseMappings
<1> DEFINE Closes == (at \in {"prepare", "kernel"} /\ at' = "idle") => who \notin open'
<1>1. [Next]_vars => [Closes]_vars
  <2> SUFFICES ASSUME Next, at \in {"prepare", "kernel"}, at' = "idle"
               PROVE  who \notin open'
    OBVIOUS
  <2>1. ASSUME Raise PROVE who \notin open'
    BY <2>1 DEF Raise, Return
  <2>2. CASE \E e \in Experts : PrepareFails(e)
    BY <2>1, <2>2 DEF PrepareFails
  <2>3. CASE LaunchFails \/ KernelDone \/ Filled
    BY <2>1, <2>3 DEF LaunchFails, KernelDone, Filled, Return, Chunk
  <2> QED
    BY <2>2, <2>3 DEF Next, GetItem, GetItemAtOnce, MayServe, ApplyChunked, ApplyShared,
       ApplyResident, FillResident, ApplyNothing, Prepare, Launch, NextBlock, Chunk, Dead, call, vars
<1> QED
  BY <1>1, PTL DEF Spec, CallsCloseMappings

-----------------------------------------------------------------------------
(* Residents first.                                                        *)

(* A chunk takes a miss only when no resident is left for later chunks.    *)
ResidentsFirst ==
    at \in {"prepare", "kernel"} =>
        /\ chunk \subseteq old \/ rest \cap old = {}
        /\ mode = "resident_fused" => old = {}

LEMMA FirstTakesResidents ==
  ASSUME NEW S \in SUBSET Experts, NEW k \in Nat, NEW R
  PROVE  First(S, k, R) \subseteq R \/ (S \ First(S, k, R)) \cap R = {}
<1> DEFINE Before(f, e) ==
             \/ f \in R /\ e \notin R
             \/ f < e /\ (f \in R <=> e \in R)
           Ahead(e) == {f \in S : Before(f, e)}
<1> SUFFICES ASSUME NEW e \in S, Cardinality(Ahead(e)) < k, e \notin R,
                    NEW f \in S, f \in R
             PROVE  Cardinality(Ahead(f)) < k
  BY DEF First
<1>1. Ahead(f) \subseteq Ahead(e)
  OBVIOUS
<1>2. IsFiniteSet(S)
  BY SizeIsNat, FS_Subset
<1>3. IsFiniteSet(Ahead(e)) /\ Cardinality(Ahead(e)) \in Nat
  <2>1. Ahead(e) \subseteq S
    OBVIOUS
  <2> QED
    BY <1>2, <2>1, FS_Subset, FS_CardinalityType
<1>4. Cardinality(Ahead(f)) <= Cardinality(Ahead(e)) /\ Cardinality(Ahead(f)) \in Nat
  BY <1>1, <1>3, FS_Subset, FS_CardinalityType
<1> HIDE DEF Ahead
<1> QED
  BY <1>3, <1>4

LEMMA ChunkTakesResidents ==
  ASSUME NEW S \in SUBSET Experts, NEW k \in Nat, NEW R, Chunk(S, k, R)
  PROVE  (chunk' \subseteq R \/ rest' \cap R = {}) /\ todo' \cup rest' = S /\ chunk' \subseteq S
<1>1. chunk' = First(S, k, R) /\ rest' = S \ chunk' /\ todo' = chunk'
  BY DEF Chunk
<1>2. First(S, k, R) \subseteq S
  BY DEF First
<1> QED
  BY <1>1, <1>2, FirstTakesResidents

(* An expert that was resident when a call began is still so when the call *)
(* comes to it.                                                            *)
THEOREM SelectedTheorem == Spec => []SelectedStayResident
<1> DEFINE J == SelectedStayResident /\ ResidentsFirst
<1>1. Init => J
  BY DEF Init, SelectedStayResident, ResidentsFirst
<1>2. IInv /\ J /\ [Next]_vars => J'
  <2> SUFFICES ASSUME IInv, J, [Next]_vars PROVE J'
    OBVIOUS
  <2>1. limit \in Nat
    BY SizeIsNat DEF IInv, TypeOK
  <2>2. ASSUME at' \notin {"prepare", "kernel"} \/ old' = {} PROVE J'
    BY <2>2 DEF SelectedStayResident, ResidentsFirst
  <2>3. ASSUME NEW s \in Stores, NEW S \in SUBSET Experts, ApplyChunked(s, S) PROVE J'
    <3>1. /\ who' = s /\ old' = Resident(ref[s]) \cap S /\ UNCHANGED <<slot, ref>>
          /\ mode' # "resident_fused" /\ Chunk(S, limit, Resident(ref[s]))
      BY <2>3 DEF ApplyChunked, arenas, sharing, bindings, settings
    <3>2. /\ chunk' \subseteq Resident(ref[s]) \/ rest' \cap Resident(ref[s]) = {}
          /\ todo' \cup rest' = S /\ chunk' \subseteq S
      BY <2>1, <3>1, ChunkTakesResidents
    <3> QED
      BY <3>1, <3>2 DEF SelectedStayResident, ResidentsFirst, Resident
  <2>4. ASSUME NEW s \in Stores, NEW S \in SUBSET Experts, ApplyShared(s, S) \/ ApplyResident(s, S)
        PROVE  J'
    BY <2>2, <2>4 DEF ApplyShared, ApplyResident
  <2>5. ASSUME NEW s \in Stores, FillResident(s) PROVE J'
    BY <2>2, <2>5 DEF FillResident
  <2>6. ASSUME NEW e \in Experts, Prepare(e) PROVE J'
    <3>1. /\ at = "prepare" /\ who \in Stores /\ chunk \in SUBSET Experts
          /\ e \in todo /\ todo \subseteq chunk /\ todo' = todo \ {e}
          /\ UNCHANGED <<settings, sharing, at, who, old, chunk, rest>>
      BY <2>6 DEF Prepare, Least, IInv, TypeOK
    <3>2. ResidentsFirst'
      BY <3>1 DEF ResidentsFirst, settings
    <3>3. CASE Hit(e)
      <4>1. UNCHANGED slot
        BY <3>3 DEF Hit, arenas
      <4> QED
        BY <3>1, <3>2, <4>1 DEF SelectedStayResident, Resident, sharing, bindings
    <3>4. CASE Miss(e)
      <4>1. rest \cap old = {}
        BY <3>1, <3>4 DEF Miss, SelectedStayResident, ResidentsFirst
      <4>2. \A x \in chunk : x \in Resident(ref[who]) => x \in Resident(ref[who])'
        <5>1. /\ Tenant(ref[who]) = who
              /\ UNCHANGED <<settings, bindings>> /\ strayed' = strayed
          BY <3>1 DEF IInv, Working, sharing
        <5> QED
          BY <3>1, <3>4, <5>1, TypeParts, FetchStep DEF IInv, Miss
      <4> QED
        BY <3>1, <3>2, <4>1, <4>2 DEF SelectedStayResident, sharing, bindings
    <3> QED
      BY <2>6, <3>3, <3>4 DEF Prepare
  <2>7. CASE Launch
    BY <2>7 DEF Launch, SelectedStayResident, ResidentsFirst, Resident, sharing, bindings, settings
  <2>8. CASE KernelDone
    <3>1. CASE rest = {}
      BY <2>2, <2>8, <3>1 DEF KernelDone, Return
    <3>2. CASE rest # {}
      <4>1. /\ at = "kernel" /\ rest \in SUBSET Experts /\ Chunk(rest, limit, old)
            /\ UNCHANGED <<who, old, slot, ref, mode>>
        BY <2>8, <3>2 DEF KernelDone, arenas, sharing, bindings, settings, IInv, TypeOK
      <4>2. /\ chunk' \subseteq old \/ rest' \cap old = {}
            /\ todo' \cup rest' = rest
        BY <2>1, <4>1, ChunkTakesResidents
      <4> QED
        BY <4>1, <4>2 DEF SelectedStayResident, ResidentsFirst, Resident
    <3> QED
      BY <3>1, <3>2
  <2>9. CASE NextBlock
    <3>1. /\ at = "prepare" /\ rest \in SUBSET Experts /\ Chunk(rest, BlockSlots, {})
          /\ UNCHANGED <<who, old, slot, ref, mode>> /\ mode = "resident_fused"
      BY <2>9 DEF NextBlock, arenas, sharing, bindings, settings, IInv, TypeOK
    <3>2. old' = {}
      BY <3>1 DEF ResidentsFirst
    <3> QED
      BY <2>2, <3>2
  <2>10. ASSUME NEW e \in Experts, PrepareFails(e) PROVE J'
    BY <2>2, <2>10, RaiseEnds DEF PrepareFails
  <2>11. CASE LaunchFails \/ Filled
    BY <2>2, <2>11, RaiseEnds DEF LaunchFails, Filled, EndOfCall
  <2>12. CASE \/ \E s \in Stores, e \in Experts : GetItem(s, e) \/ GetItemAtOnce(s, e)
              \/ \E s \in Stores : ApplyNothing(s)
              \/ Dead
    BY <2>2, <2>12 DEF GetItem, GetItemAtOnce, MayServe, ApplyNothing, Dead, call, vars
  <2>13. CASE UNCHANGED vars
    BY <2>13 DEF vars, arenas, sharing, bindings, settings, call, SelectedStayResident, ResidentsFirst, Resident
  <2> QED
    BY <2>3, <2>4, <2>5, <2>6, <2>7, <2>8, <2>9, <2>10, <2>11, <2>12, <2>13 DEF Next
<1> QED
  BY <1>1, <1>2, Inductive, PTL DEF Spec

-----------------------------------------------------------------------------
(* A call raises only after a failure.  As long as no load has failed,     *)
(* slots are taken from the lowest up (Orderly), so those with a pack are  *)
(* contiguous; a chunk is no larger than the cache (Fits), so a slot or a  *)
(* victim is always left; a layer to be filled is untouched (Fresh) and is *)
(* filled in order (Filling), so every expert gets its own number.         *)

SizeFits == NeedsAllSlots(mode) => limit = Size

OrderlyArena(a) ==
    /\ \A i \in Slots, j \in free[a] : j < i => i \in free[a]
    /\ Slots \ free[a] \subseteq packs[a]
    /\ \A i \in packs[a], j \in Slots : j < i => j \in packs[a]
Orderly == failures = 0 => \A a \in Arenas : OrderlyArena(a)

Fits == (at = "prepare" /\ mode # "resident_fused") => Cardinality(chunk) <= limit

Fresh ==
    (mode = "resident_fused" /\ at # "dead") =>
        \A s \in Stores \ ready : (at = "prepare" => who # s) =>
            slot[s] = Nowhere /\ free[s] = Slots

Filling ==
    (failures = 0 /\ at = "prepare" /\ mode = "resident_fused") =>
        /\ free[who] = todo \cup rest
        /\ \A e \in Experts : slot[who][e] = IF e \in todo \cup rest THEN None ELSE e
        /\ \A e \in todo, f \in rest : e < f

OrderInv == SizeFits /\ Orderly /\ Fits /\ Fresh /\ Filling

(* A chunk has at most as many experts as it was asked for.                *)
LEMMA FirstIsBounded ==
  ASSUME NEW S \in SUBSET Experts, NEW k \in Nat, NEW R
  PROVE  Cardinality(First(S, k, R)) <= k
<1> DEFINE Before(f, e) ==
             \/ f \in R /\ e \notin R
             \/ f < e /\ (f \in R <=> e \in R)
           Ahead(e) == {f \in S : Before(f, e)}
           F == First(S, k, R)
           rank == [e \in F |-> Cardinality(Ahead(e))]
<1>1. F = {e \in S : Cardinality(Ahead(e)) < k}
  BY DEF First
<1>2. S \subseteq Int
  BY SizeIsNat, ExpertsAreNumbered
<1>3. \A e \in S : IsFiniteSet(Ahead(e)) /\ Cardinality(Ahead(e)) \in Nat
  <2> TAKE e \in S
  <2>1. Ahead(e) \subseteq S /\ IsFiniteSet(S)
    BY SizeIsNat, FS_Subset
  <2> QED
    BY <2>1, FS_Subset, FS_CardinalityType
<1>4. ASSUME NEW e \in S, NEW f \in S, Before(e, f)
      PROVE  Cardinality(Ahead(e)) # Cardinality(Ahead(f))
  <2>1. Ahead(e) \subseteq Ahead(f)
    <3> SUFFICES ASSUME NEW y \in S, Before(y, e) PROVE Before(y, f)
      OBVIOUS
    <3>1. y \in Int /\ e \in Int /\ f \in Int
      BY <1>2
    <3> QED
      BY <1>4, <3>1
  <2>2. e \in Ahead(f) /\ e \notin Ahead(e)
    BY <1>2, <1>4
  <2> HIDE DEF Ahead
  <2> QED
    BY <1>3, <2>1, <2>2, FS_Subset
<1>5. \A e, f \in S : e # f => Before(e, f) \/ Before(f, e)
  BY <1>2
<1>6. rank \in [F -> 0..(k - 1)]
  BY <1>1, <1>3
<1>7. \A e, f \in F : rank[e] = rank[f] => e = f
  <2> SUFFICES ASSUME NEW e \in F, NEW f \in F, rank[e] = rank[f], e # f PROVE FALSE
    OBVIOUS
  <2>1. e \in S /\ f \in S /\ Cardinality(Ahead(e)) = Cardinality(Ahead(f))
    BY <1>1
  <2> HIDE DEF Ahead, Before, rank, F
  <2> QED
    BY <1>4, <1>5, <2>1
<1>8. rank \in Injection(F, 0..(k - 1))
  BY <1>6, <1>7 DEF Injection, IsInjective
<1>9. IsFiniteSet(0..(k - 1)) /\ Cardinality(0..(k - 1)) = k
  BY FS_Interval
<1> HIDE DEF rank, F
<1> QED
  BY <1>8, <1>9, FS_Injection DEF F

(* Without residents a chunk takes the lowest experts.                     *)
LEMMA FirstIsLowest ==
  ASSUME NEW S \in SUBSET Experts, NEW k \in Nat,
         NEW e \in First(S, k, {}), NEW f \in S \ First(S, k, {})
  PROVE  e < f
<1> DEFINE Ahead(x) == {y \in S : y < x}
<1>1. First(S, k, {}) = {x \in S : Cardinality(Ahead(x)) < k}
  BY DEF First
<1>2. S \subseteq Int
  BY SizeIsNat, ExpertsAreNumbered
<1> SUFFICES ASSUME ~(e < f) PROVE FALSE
  OBVIOUS
<1>3. e \in S /\ f \in S /\ Cardinality(Ahead(e)) < k /\ ~(Cardinality(Ahead(f)) < k)
  BY <1>1
<1>4. Ahead(f) \subseteq Ahead(e) /\ Ahead(e) \subseteq S
  <2> SUFFICES ASSUME NEW y \in S, y < f PROVE y < e
    OBVIOUS
  <2>1. y \in Int /\ e \in Int /\ f \in Int
    BY <1>2, <1>3
  <2> QED
    BY <2>1
<1> HIDE DEF Ahead
<1>5. IsFiniteSet(Ahead(e)) /\ Cardinality(Ahead(e)) \in Nat
  <2>1. IsFiniteSet(S)
    BY SizeIsNat, FS_Subset
  <2> QED
    BY <1>4, <2>1, FS_Subset, FS_CardinalityType
<1>6. Cardinality(Ahead(f)) <= Cardinality(Ahead(e)) /\ Cardinality(Ahead(f)) \in Nat
  BY <1>4, <1>5, FS_Subset, FS_CardinalityType
<1> QED
  BY <1>3, <1>5, <1>6

LEMMA ChunkIsLowest ==
  ASSUME NEW S \in SUBSET Experts, NEW k \in Nat, Chunk(S, k, {})
  PROVE  /\ todo' \cup rest' = S
         /\ \A e \in todo', f \in rest' : e < f
<1>1. chunk' = First(S, k, {}) /\ rest' = S \ chunk' /\ todo' = chunk'
  BY DEF Chunk
<1>2. First(S, k, {}) \subseteq S
  BY DEF First
<1> QED
  BY <1>1, <1>2, FirstIsLowest

LEMMA FirstNumbers ==
  ASSUME NEW n \in Nat
  PROVE  IsFiniteSet(0..(n - 1)) /\ Cardinality(0..(n - 1)) = n
<1>1. 0 \in Int /\ n - 1 \in Int
  OBVIOUS
<1> QED
  BY <1>1, FS_Interval

(* Slots with a pack that leave none out below them are contiguous.        *)
LEMMA OrderlyIsContiguous ==
  ASSUME limit \in 1..Size, NEW a \in Arenas, packs[a] \subseteq Slots,
         packs[a] # {}, OrderlyArena(a)
  PROVE  Contiguous(a)
<1> DEFINE n == Cardinality(packs[a])
<1>1. limit \in Nat /\ Slots = 0..(limit - 1)
  BY SizeIsNat DEF Slots
<1>2. IsFiniteSet(packs[a]) /\ n \in Nat
  BY LostIsFinite
<1>3. \A i \in packs[a] : i \in Nat /\ i + 1 <= n
  <2> TAKE i \in packs[a]
  <2>1. i \in Nat /\ 0..i \subseteq packs[a]
    BY <1>1 DEF OrderlyArena
  <2>2. Cardinality(0..i) = i + 1
    BY <2>1, FS_Interval
  <2> QED
    BY <1>2, <2>1, <2>2, FS_Subset
<1>4. packs[a] \subseteq 0..(n - 1)
  BY <1>2, <1>3
<1>5. IsFiniteSet(0..(n - 1)) /\ Cardinality(0..(n - 1)) = n
  <2> HIDE DEF n
  <2> QED
    BY <1>2, FirstNumbers
<1>6. packs[a] = 0..(n - 1)
  BY <1>4, <1>5, FS_Subset
<1> QED
  BY <1>6 DEF Contiguous

(* If no slot is lost, a chunk that fits leaves a free slot or a victim for*)
(* each of its misses.                                                     *)
LEMMA ChunkCanTake ==
  ASSUME limit \in 1..Size, ArenaTypes, NEW a \in Arenas, NEW C \in SUBSET Experts,
         Cardinality(C) <= limit, Lost(a) = {}, NEW e \in C, e \notin Resident(a)
  PROVE  CanTake(a, C)
<1> SUFFICES ASSUME free[a] = {}, Resident(a) \subseteq C PROVE FALSE
  BY DEF CanTake, Victims
<1> DEFINE D == C \ {e}
           at_(k) == CHOOSE x \in Experts : slot[a][x] = k
           g == [k \in Slots |-> at_(k)]
<1>1. \A k \in Slots : at_(k) \in Experts /\ slot[a][at_(k)] = k
  BY DEF Lost
<1>2. \A k \in Slots : at_(k) \in D
  BY <1>1, NoSlotIsNone DEF Resident
<1>3. g \in [Slots -> D]
  BY <1>2
<1>4. \A j, k \in Slots : g[j] = g[k] => j = k
  BY <1>1
<1>5. g \in Injection(Slots, D)
  BY <1>3, <1>4 DEF Injection, IsInjective
<1>6. /\ IsFiniteSet(D) /\ Cardinality(D) = Cardinality(C) - 1
      /\ Cardinality(C) \in Nat
  BY SizeIsNat, FS_Subset, FS_RemoveElement, FS_CardinalityType
<1>7. limit \in Nat /\ Cardinality(Slots) = limit
  <2>1. limit \in Nat
    BY SizeIsNat
  <2>2. Cardinality(0..(limit - 1)) = limit
    BY <2>1, FirstNumbers
  <2> QED
    BY <2>1, <2>2 DEF Slots
<1> HIDE DEF g, D
<1>8. Cardinality(Slots) <= Cardinality(D)
  BY <1>5, <1>6, FS_Injection
<1> QED
  BY <1>6, <1>7, <1>8

LEMMA OrderlyFetch ==
  ASSUME limit \in 1..Size, ref \in [Stores -> Arenas], ArenaTypes, Holds,
         NEW s \in Stores, NEW e \in Experts, NEW P \in SUBSET Experts,
         Fetch(s, e, P), UNCHANGED settings, NEW b \in Arenas, OrderlyArena(b)
  PROVE  OrderlyArena(b)'
<1> DEFINE a == ref[s]
<1>1. PICK v \in Experts \cup {None}, k \in Slots :
        Take(a, v, k, P) /\ Assign(a, e, v, k) /\ Load(s, a, e, k)
  BY DEF Fetch
<1>2. /\ free' = [free EXCEPT ![a] = free[a] \ {k}]
      /\ packs' = [packs EXCEPT ![a] = packs[a] \cup {k}]
      /\ Slots' = Slots
  BY <1>1 DEF Assign, Load, ArenaTypes, settings, Slots
<1>3. CASE b # a
  <2>1. free'[b] = free[b] /\ packs'[b] = packs[b]
    BY <1>2, <1>3 DEF ArenaTypes
  <2> QED
    BY <1>2, <2>1 DEF OrderlyArena
<1>4. CASE b = a
  <2>1. /\ free'[b] = free[b] \ {k} /\ packs'[b] = packs[b] \cup {k}
        /\ free[b] \subseteq Slots /\ packs[b] \subseteq Slots /\ Slots \subseteq Int
    BY <1>2, <1>4 DEF ArenaTypes, Slots
  <2>2. CASE TakesFree(a, k)
    <3>1. k \in free[b] /\ \A j \in free[b] : k <= j
      BY <1>4, <2>2 DEF TakesFree, Least
    <3>2. ASSUME NEW i \in Slots, NEW j \in free[b] \ {k}, j < i PROVE i \in free[b] \ {k}
      <4>1. i \in free[b]
        BY <3>2 DEF OrderlyArena
      <4>2. k <= j /\ i \in Int /\ j \in Int /\ k \in Int
        BY <2>1, <3>1
      <4> QED
        BY <3>2, <4>1, <4>2
    <3>3. Slots \ (free[b] \ {k}) \subseteq packs[b] \cup {k}
      BY DEF OrderlyArena
    <3>4. ASSUME NEW i \in packs[b] \cup {k}, NEW j \in Slots, j < i PROVE j \in packs[b] \cup {k}
      <4>1. CASE i \in packs[b]
        BY <3>4, <4>1 DEF OrderlyArena
      <4>2. CASE i = k
        BY <2>1, <3>1, <3>4, <4>2 DEF OrderlyArena
      <4> QED
        BY <4>1, <4>2
    <3> QED
      BY <1>2, <2>1, <3>2, <3>3, <3>4 DEF OrderlyArena
  <2>3. CASE TakesFrom(a, v, k, P)
    <3>1. free[b] = {} /\ v \in Experts /\ slot[b][v] # None /\ k = slot[b][v]
      BY <1>4, <2>3 DEF TakesFrom, Victims, Resident
    <3>2. k \in packs[b]
      BY <1>4, <3>1 DEF Holds
    <3>3. free'[b] = free[b] /\ packs'[b] = packs[b]
      BY <2>1, <3>1, <3>2
    <3> QED
      BY <1>2, <3>3 DEF OrderlyArena
  <2> QED
    BY <1>1, <2>2, <2>3 DEF Take
<1> QED
  BY <1>3, <1>4

LEMMA OrderlyJoin ==
  ASSUME NEW s \in Stores, Join(s), UNCHANGED settings, NEW b \in Arenas, OrderlyArena(b)
  PROVE  OrderlyArena(b)'
<1>1. Slots' = Slots
  BY DEF settings, Slots
<1>2. \/ free'[b] = free[b]
      \/ free'[b] = Slots
  BY DEF Join, Freed
<1>3. packs'[b] = packs[b] \/ (packs'[b] = {} /\ free'[b] = Slots)
  <2>1. CASE b \in Drops(s)
    BY <2>1 DEF Join, Freed
  <2>2. CASE b \notin Drops(s)
    <3>1. packs' = [a \in Arenas |-> IF a \in Drops(s) THEN {} ELSE packs[a]]
      BY DEF Join
    <3> QED
      BY <2>2, <3>1
  <2> QED
    BY <2>1, <2>2
<1> QED
  BY <1>1, <1>2, <1>3 DEF OrderlyArena

(* As long as its slots are taken in order, a fill gives each expert the   *)
(* slot of its number.                                                     *)
LEMMA FillingFetch ==
  ASSUME limit = Size, ref \in [Stores -> Arenas], ArenaTypes,
         NEW s \in Stores, ref[s] = s, NEW e \in Experts, NEW P \in SUBSET Experts,
         free[s] \subseteq Experts, Least(e, free[s]),
         Fetch(s, e, P), UNCHANGED settings
  PROVE  /\ slot'[s] = [x \in Experts |-> IF x = e THEN e ELSE slot[s][x]]
         /\ free'[s] = free[s] \ {e}
         /\ \A b \in Arenas : b # s => slot'[b] = slot[b] /\ free'[b] = free[b]
<1>1. PICK v \in Experts \cup {None}, k \in Slots : Take(s, v, k, P) /\ Assign(s, e, v, k)
  BY DEF Fetch
<1>2. s \in Arenas /\ e \in free[s]
  BY DEF Arenas, Least
<1>3. v = None /\ TakesFree(s, k)
  BY <1>1, <1>2 DEF Take, TakesFrom
<1>4. k = e
  <2>1. k \in free[s] /\ e <= k /\ k <= e
    BY <1>2, <1>3 DEF TakesFree, Least
  <2>2. k \in Int /\ e \in Int
    BY <2>1, SizeIsNat, ExpertsAreNumbered
  <2> QED
    BY <2>1, <2>2
<1>5. /\ slot' = [slot EXCEPT ![s] = [x \in Experts |->
                    IF x = e THEN e ELSE IF x = None THEN None ELSE slot[s][x]]]
      /\ free' = [free EXCEPT ![s] = free[s] \ {e}]
  BY <1>1, <1>2, <1>3, <1>4 DEF Assign, ArenaTypes
<1> QED
  BY <1>2, <1>5, NoExpertIsNone DEF ArenaTypes

(* What changes neither an arena nor the failures keeps the order.         *)
LEMMA OrderlyFrame ==
  ASSUME Orderly, UNCHANGED <<settings, free, packs, failures>>
  PROVE  Orderly'
<1>1. Slots' = Slots
  BY DEF settings, Slots
<1> QED
  BY <1>1 DEF Orderly, OrderlyArena

LEMMA SizeFitsFrame ==
  ASSUME SizeFits, UNCHANGED settings
  PROVE  SizeFits'
  BY DEF SizeFits, NeedsAllSlots, settings

LEMMA OrderInit == Init => OrderInv
<1> SUFFICES ASSUME Init PROVE OrderInv
  OBVIOUS
<1>1. SizeFits
  BY DEF Init, SizeFits, NeedsAllSlots
<1>2. Orderly
  BY DEF Init, Orderly, OrderlyArena
<1>3. Fits /\ Filling
  BY DEF Init, Fits, Filling
<1>4. Fresh
  BY DEF Init, Fresh, Arenas
<1> QED
  BY <1>1, <1>2, <1>3, <1>4 DEF OrderInv

LEMMA OrderGetItem ==
  ASSUME IInv, OrderInv, NEW s \in Stores, NEW e \in Experts, GetItem(s, e)
  PROVE  OrderInv'
<1>1. /\ at = "idle" /\ (mode = "resident_fused" => s \in ready)
      /\ e \notin Resident(ref[s])
  BY DEF GetItem, MayServe
<1>2. UNCHANGED <<settings, bindings, ready, call, table>>
  BY DEF GetItem
<1>3. mode # "resident_fused"
  <2>1. s \in ready => slot[s][e] # None
    BY NoExpertIsNone DEF IInv, Identity
  <2>2. mode = "resident_fused" => ref[s] = s
    BY OwnUnlessShared DEF IInv
  <2> QED
    BY <1>1, <2>1, <2>2 DEF Resident
<1>4. Orderly'
  <2>1. CASE Fetch(s, e, {}) /\ UNCHANGED failures
    BY <1>2, <2>1, TypeParts, OrderlyFetch DEF IInv, OrderInv, Orderly
  <2>2. CASE FetchFails(s, {})
    <3>1. failures' # 0
      BY <2>2, MaxFailuresIsNatural DEF FetchFails, IInv, TypeOK
    <3> QED
      BY <3>1 DEF Orderly
  <2> QED
    BY <2>1, <2>2 DEF GetItem
<1>5. SizeFits'
  BY <1>2, SizeFitsFrame DEF OrderInv
<1> QED
  BY <1>1, <1>2, <1>3, <1>4, <1>5 DEF OrderInv, Fits, Filling, Fresh, call, settings

LEMMA OrderPrepare ==
  ASSUME IInv, OrderInv, NEW e \in Experts, Prepare(e)
  PROVE  OrderInv'
<1>1. /\ at = "prepare" /\ who \in Stores /\ Least(e, todo) /\ e \in todo /\ todo' = todo \ {e}
      /\ UNCHANGED <<settings, sharing, ready, at, who, old, chunk, rest, failures>>
      /\ chunk \in SUBSET Experts
  BY DEF Prepare, Least, IInv, TypeOK
<1>2. SizeFits' /\ Fits'
  BY <1>1, SizeFitsFrame DEF OrderInv, Fits, settings
<1>3. CASE Hit(e)
  <2>1. UNCHANGED arenas /\ e \in Resident(ref[who])
    BY <1>3 DEF Hit
  <2>2. Orderly'
    BY <1>1, <2>1, OrderlyFrame DEF OrderInv, arenas
  <2>3. Fresh'
    BY <1>1, <2>1 DEF OrderInv, Fresh, arenas, settings, Slots
  <2>4. Filling'
    <3>1. mode = "resident_fused" => ref[who] = who
      BY <1>1, OwnUnlessShared DEF IInv
    <3>2. ~(failures = 0 /\ mode = "resident_fused")
      BY <1>1, <2>1, <3>1 DEF OrderInv, Filling, Resident
    <3> QED
      BY <1>1, <3>2 DEF Filling, settings
  <2> QED
    BY <1>2, <2>2, <2>3, <2>4 DEF OrderInv
<1>4. CASE Miss(e)
  <2>1. Fetch(who, e, chunk)
    BY <1>4 DEF Miss
  <2>2. Orderly'
    BY <1>1, <2>1, TypeParts, OrderlyFetch DEF IInv, OrderInv, Orderly
  <2>3. CASE mode # "resident_fused"
    BY <1>1, <1>2, <2>2, <2>3 DEF OrderInv, Fresh, Filling, settings
  <2>4. CASE mode = "resident_fused"
    <3>1. ref[who] = who /\ limit = Size
      BY <1>1, <2>4, OwnUnlessShared DEF IInv, OrderInv, SizeFits, NeedsAllSlots
    <3>2. Fresh'
      <4>1. \A b \in Arenas : b # who => slot'[b] = slot[b] /\ free'[b] = free[b]
        <5>1. PICK v \in Experts \cup {None}, k \in Slots : Assign(who, e, v, k)
          BY <2>1, <3>1 DEF Fetch
        <5> QED
          BY <5>1, TypeParts DEF IInv, ArenaTypes, Assign
      <4> QED
        BY <1>1, <4>1 DEF OrderInv, Fresh, settings, Slots, Arenas
    <3>3. Filling'
      <4> SUFFICES ASSUME failures = 0
                   PROVE  /\ free'[who] = todo' \cup rest'
                          /\ \A x \in Experts : slot'[who][x] =
                                IF x \in todo' \cup rest' THEN None ELSE x
                          /\ \A x \in todo', f \in rest' : x < f
        BY <1>1 DEF Filling
      <4> DEFINE left == todo \cup rest
      <4>1. /\ free[who] = left
            /\ \A x \in Experts : slot[who][x] = IF x \in left THEN None ELSE x
            /\ \A x \in todo, f \in rest : x < f
        BY <1>1, <2>4 DEF OrderInv, Filling
      <4>2. left \in SUBSET Experts /\ left \subseteq Int
        BY SizeIsNat, ExpertsAreNumbered DEF IInv, TypeOK
      <4>3. Least(e, left)
        BY <1>1, <4>1, <4>2 DEF Least
      <4>4. /\ slot'[who] = [x \in Experts |-> IF x = e THEN e ELSE slot[who][x]]
            /\ free'[who] = left \ {e}
        <5>1. ArenaTypes /\ ref \in [Stores -> Arenas] /\ UNCHANGED settings
          BY <1>1, TypeParts DEF IInv
        <5>2. free[who] = left /\ free[who] \subseteq Experts /\ Least(e, free[who])
          BY <4>1, <4>2, <4>3
        <5> HIDE DEF left
        <5>3. /\ slot'[who] = [x \in Experts |-> IF x = e THEN e ELSE slot[who][x]]
              /\ free'[who] = free[who] \ {e}
          BY <1>1, <2>1, <3>1, <5>1, <5>2, FillingFetch
        <5> QED
          BY <5>2, <5>3
      <4>5. left \ {e} = todo' \cup rest'
        <5>1. e \notin rest
          BY <1>1, <4>1, <4>2
        <5> QED
          BY <1>1, <5>1
      <4> HIDE DEF left
      <4>6. \A x \in Experts : slot'[who][x] = IF x \in left \ {e} THEN None ELSE x
        BY <4>1, <4>4
      <4> QED
        BY <1>1, <4>1, <4>4, <4>5, <4>6
    <3> QED
      BY <1>2, <2>2, <3>2, <3>3 DEF OrderInv
  <2> QED
    BY <2>3, <2>4
<1> QED
  BY <1>3, <1>4 DEF Prepare

(* An exception of a call ends it, and a fill that raises the process.     *)
LEMMA OrderRaise ==
  ASSUME IInv, OrderInv, at = "prepare", Raise, UNCHANGED settings, Orderly'
  PROVE  OrderInv'
<1>1. at' \in {"idle", "dead"} /\ (mode = "resident_fused" => at' = "dead")
  BY DEF Raise, Return
<1>2. SizeFits'
  BY SizeFitsFrame DEF OrderInv
<1> QED
  BY <1>1, <1>2 DEF OrderInv, Fits, Filling, Fresh, settings

LEMMA OrderPrepareFails ==
  ASSUME IInv, OrderInv, NEW e \in Experts, PrepareFails(e)
  PROVE  OrderInv'
<1>1. at = "prepare" /\ Raise /\ UNCHANGED settings
  BY DEF PrepareFails
<1>2. Orderly'
  <2>1. CASE FetchFails(who, chunk)
    <3>1. failures' # 0
      BY <2>1, MaxFailuresIsNatural DEF FetchFails, IInv, TypeOK
    <3> QED
      BY <3>1 DEF Orderly
  <2>2. CASE UNCHANGED <<slot, free, payload, packs, failures>>
    BY <1>1, <2>2, OrderlyFrame DEF OrderInv
  <2> QED
    BY <2>1, <2>2 DEF PrepareFails
<1> QED
  BY <1>1, <1>2, OrderRaise

LEMMA OrderChunked ==
  ASSUME IInv, OrderInv, NEW s \in Stores, NEW S \in SUBSET Experts, ApplyChunked(s, S)
  PROVE  OrderInv'
<1>1. /\ mode = "chunked_fused" /\ Chunk(S, limit, Resident(ref[s]))
      /\ UNCHANGED <<settings, arenas, sharing, ready, open, failures>>
  BY DEF ApplyChunked
<1>2. chunk' = First(S, limit, Resident(ref[s])) /\ limit \in Nat
  BY <1>1, SizeIsNat DEF Chunk, IInv, TypeOK
<1>3. Cardinality(chunk') <= limit'
  BY <1>1, <1>2, FirstIsBounded DEF settings
<1>4. SizeFits' /\ Orderly'
  BY <1>1, SizeFitsFrame, OrderlyFrame DEF OrderInv, arenas
<1> QED
  BY <1>1, <1>3, <1>4 DEF OrderInv, Fits, Filling, Fresh, settings

LEMMA OrderShared ==
  ASSUME IInv, OrderInv, NEW s \in Stores, NEW S \in SUBSET Experts, ApplyShared(s, S)
  PROVE  OrderInv'
<1>1. /\ mode = "shared_layer_fused" /\ Join(s) /\ chunk' = S
      /\ UNCHANGED <<settings, ready, open, failures>>
  BY DEF ApplyShared
<1>2. Cardinality(S) <= limit'
  <2>1. limit' = Size
    BY <1>1 DEF OrderInv, SizeFits, NeedsAllSlots, settings
  <2> QED
    BY <2>1, SizeIsNat, FS_Subset DEF Size
<1>3. SizeFits'
  BY <1>1, SizeFitsFrame DEF OrderInv
<1>4. Orderly'
  BY <1>1, OrderlyJoin DEF OrderInv, Orderly
<1> QED
  BY <1>1, <1>2, <1>3, <1>4 DEF OrderInv, Fits, Filling, Fresh, settings

LEMMA OrderFillResident ==
  ASSUME IInv, OrderInv, NEW s \in Stores, FillResident(s)
  PROVE  OrderInv'
<1>1. /\ at = "idle" /\ mode = "resident_fused" /\ s \notin ready /\ who' = s
      /\ Chunk(Experts, BlockSlots, {}) /\ at' = "prepare"
      /\ UNCHANGED <<settings, arenas, sharing, ready, open, failures>>
  BY DEF FillResident, Chunk
<1>2. SizeFits' /\ Orderly'
  BY <1>1, SizeFitsFrame, OrderlyFrame DEF OrderInv, arenas
<1>3. slot[s] = Nowhere /\ free[s] = Slots /\ Slots = Experts
  BY <1>1, ExpertsAreNumbered DEF OrderInv, Fresh, SizeFits, NeedsAllSlots, Slots
<1>4. Filling'
  <2>1. Experts \in SUBSET Experts /\ BlockSlots \in Nat
    BY BlockSlotsIsPositive
  <2>2. todo' \cup rest' = Experts /\ \A e \in todo', f \in rest' : e < f
    BY <1>1, <2>1, ChunkIsLowest
  <2> QED
    BY <1>1, <1>3, <2>2 DEF Filling, Nowhere, arenas
<1>5. Fresh'
  BY <1>1 DEF OrderInv, Fresh, arenas, settings, Slots
<1> QED
  BY <1>1, <1>2, <1>4, <1>5 DEF OrderInv, Fits, settings

LEMMA OrderKernel ==
  ASSUME IInv, OrderInv,
         \/ Launch \/ LaunchFails \/ KernelDone
         \/ \E s \in Stores, S \in SUBSET Experts : ApplyResident(s, S)
  PROVE  OrderInv'
<1>1. UNCHANGED <<settings, slot, free, packs, ready, failures>>
  BY DEF Launch, LaunchFails, KernelDone, ApplyResident, arenas
<1>2. SizeFits' /\ Orderly'
  BY <1>1, SizeFitsFrame, OrderlyFrame DEF OrderInv
<1>3. CASE Launch
  BY <1>1, <1>2, <1>3 DEF Launch, OrderInv, Fits, Filling, Fresh, settings
<1>4. CASE LaunchFails
  BY <1>1, <1>2, <1>4, OrderRaise DEF LaunchFails, OrderInv
<1>5. CASE \E s \in Stores, S \in SUBSET Experts : ApplyResident(s, S)
  BY <1>1, <1>2, <1>5 DEF ApplyResident, OrderInv, Fits, Filling, Fresh, settings
<1>6. CASE KernelDone
  <2>1. CASE rest = {}
    BY <1>1, <1>2, <1>6, <2>1
    DEF KernelDone, Return, OrderInv, Fits, Filling, Fresh, settings, Slots
  <2>2. CASE rest # {}
    <3>1. /\ mode # "resident_fused" /\ chunk' = First(rest, limit, old)
          /\ rest \in SUBSET Experts /\ limit \in Nat
      BY <1>6, <2>2, SizeIsNat DEF KernelDone, Chunk, IInv, Launched, TypeOK
    <3>2. Cardinality(chunk') <= limit'
      BY <1>1, <3>1, FirstIsBounded DEF settings
    <3> QED
      BY <1>1, <1>2, <3>1, <3>2 DEF OrderInv, Fits, Filling, Fresh, settings
  <2> QED
    BY <2>1, <2>2
<1> QED
  BY <1>3, <1>4, <1>5, <1>6

LEMMA OrderNextBlock ==
  ASSUME IInv, OrderInv, NextBlock
  PROVE  OrderInv'
<1>1. /\ at = "prepare" /\ at' = "prepare" /\ todo = {} /\ mode = "resident_fused"
      /\ Chunk(rest, BlockSlots, {}) /\ rest \in SUBSET Experts /\ BlockSlots \in Nat
      /\ UNCHANGED <<settings, arenas, sharing, ready, who, old, failures>>
  BY BlockSlotsIsPositive DEF NextBlock, Chunk, IInv, TypeOK
<1>2. SizeFits' /\ Orderly'
  BY <1>1, SizeFitsFrame, OrderlyFrame DEF OrderInv, arenas
<1>3. todo' \cup rest' = todo \cup rest /\ \A e \in todo', f \in rest' : e < f
  BY <1>1, ChunkIsLowest
<1>4. Filling'
  BY <1>1, <1>3 DEF OrderInv, Filling, arenas
<1>5. Fresh'
  BY <1>1 DEF OrderInv, Fresh, arenas, settings, Slots
<1> QED
  BY <1>1, <1>2, <1>4, <1>5 DEF OrderInv, Fits, settings

LEMMA OrderFilled ==
  ASSUME IInv, OrderInv, Filled
  PROVE  OrderInv'
<1>1. /\ at = "prepare" /\ mode = "resident_fused" /\ at' \in {"idle", "dead"}
      /\ at' = "idle" => ready' = ready \cup {who}
      /\ UNCHANGED <<settings, slot, free, payload, packs, sharing, failures>>
  BY DEF Filled
<1>2. SizeFits' /\ Orderly'
  BY <1>1, SizeFitsFrame, OrderlyFrame DEF OrderInv
<1>3. Fresh'
  BY <1>1 DEF OrderInv, Fresh, settings, Slots
<1> QED
  BY <1>1, <1>2, <1>3 DEF OrderInv, Fits, Filling

LEMMA OrderStutter ==
  ASSUME OrderInv,
         UNCHANGED <<settings, slot, free, packs, ready, call, failures>>
  PROVE  OrderInv'
<1>1. SizeFits' /\ Orderly'
  BY SizeFitsFrame, OrderlyFrame DEF OrderInv
<1>2. Fits' /\ Filling'
  BY DEF OrderInv, Fits, Filling, call, settings
<1>3. Fresh'
  BY DEF OrderInv, Fresh, call, settings, Slots
<1> QED
  BY <1>1, <1>2, <1>3 DEF OrderInv

LEMMA OrderNext == IInv /\ OrderInv /\ [Next]_vars => OrderInv'
<1> SUFFICES ASSUME IInv, OrderInv, [Next]_vars PROVE OrderInv'
  OBVIOUS
<1>1. CASE \E s \in Stores, e \in Experts : GetItem(s, e) \/ GetItemAtOnce(s, e)
  BY <1>1, OrderGetItem, OrderStutter DEF GetItemAtOnce, vars, arenas
<1>2. CASE \E s \in Stores, S \in SUBSET Experts : ApplyChunked(s, S) \/ ApplyShared(s, S)
  BY <1>2, OrderChunked, OrderShared
<1>3. CASE \E s \in Stores : FillResident(s) \/ ApplyNothing(s)
  BY <1>3, OrderFillResident, OrderStutter DEF ApplyNothing, arenas
<1>4. CASE \E e \in Experts : Prepare(e) \/ PrepareFails(e)
  BY <1>4, OrderPrepare, OrderPrepareFails
<1>5. CASE \/ Launch \/ LaunchFails \/ KernelDone
           \/ \E s \in Stores, S \in SUBSET Experts : ApplyResident(s, S)
  BY <1>5, OrderKernel
<1>6. CASE NextBlock \/ Filled
  BY <1>6, OrderNextBlock, OrderFilled
<1>7. CASE Dead \/ UNCHANGED vars
  BY <1>7, OrderStutter DEF Dead, vars, arenas
<1> QED
  BY <1>1, <1>2, <1>3, <1>4, <1>5, <1>6, <1>7 DEF Next

(* A call raises only after a load has failed: a chunk always finds its    *)
(* slots, those in use are contiguous, and a fill gives each expert its    *)
(* own number.                                                             *)
THEOREM RaisesTheorem == Spec => []RaisesOnlyAfterFailure
<1>1. ASSUME IInv, OrderInv, FailureCostsOneSlot PROVE RaisesOnlyAfterFailure
  <2> SUFFICES ASSUME at = "prepare", failures = 0
               PROVE  /\ \A e \in todo : e \in Resident(ref[who]) \/ CanTake(ref[who], chunk)
                      /\ (todo = {} /\ chunk # {}) => Contiguous(ref[who])
                      /\ (todo = {} /\ rest = {} /\ mode = "resident_fused") => IsIdentity(ref[who])
    BY DEF RaisesOnlyAfterFailure
  <2> DEFINE a == ref[who]
  <2>1. /\ limit \in 1..Size /\ ArenaTypes /\ who \in Stores /\ a \in Arenas
        /\ chunk \in SUBSET Experts /\ todo \subseteq chunk /\ OrderlyArena(a)
    BY <1>1, TypeParts DEF IInv, TypeOK, OrderInv, Orderly
  <2>2. Lost(a) = {}
    <3>1. Lost(a) \in SUBSET Slots /\ Cardinality(Lost(a)) <= 0
      BY <1>1, <2>1 DEF FailureCostsOneSlot, Lost
    <3>2. IsFiniteSet(Lost(a)) /\ Cardinality(Lost(a)) \in Nat
      BY <2>1, <3>1, LostIsFinite
    <3> QED
      BY <3>1, <3>2, FS_EmptySet
  <2>3. mode = "resident_fused" => /\ a = who /\ free[a] = todo \cup rest
                                   /\ \A e \in Experts : slot[a][e] =
                                         IF e \in todo \cup rest THEN None ELSE e
    BY <1>1, <2>1, OwnUnlessShared DEF IInv, OrderInv, Filling
  <2>4. ASSUME NEW e \in todo, e \notin Resident(a) PROVE CanTake(a, chunk)
    <3>1. CASE mode = "resident_fused"
      BY <2>3, <2>4, <3>1 DEF CanTake
    <3>2. CASE mode # "resident_fused"
      BY <1>1, <2>1, <2>2, <2>4, <3>2, ChunkCanTake DEF OrderInv, Fits
    <3> QED
      BY <3>1, <3>2
  <2>5. ASSUME todo = {}, chunk # {} PROVE Contiguous(a)
    <3>1. PICK e \in chunk : slot[a][e] # None
      BY <1>1, <2>5 DEF IInv, Prepared, Resident
    <3>2. packs[a] # {} /\ packs[a] \subseteq Slots
      BY <1>1, <2>1, <3>1 DEF IInv, Holds, ArenaTypes
    <3> QED
      BY <2>1, <3>2, OrderlyIsContiguous
  <2>6. ASSUME todo = {}, rest = {}, mode = "resident_fused" PROVE IsIdentity(a)
    BY <2>3, <2>6 DEF IsIdentity
  <2> QED
    BY <2>4, <2>5, <2>6
<1> QED
  BY <1>1, OrderInit, OrderNext, Inductive, FailureTheorem, PTL DEF Spec
=============================================================================

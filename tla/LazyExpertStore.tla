--------------------------- MODULE LazyExpertStore ---------------------------
(***************************************************************************)
(* runtime/lazy_k3_patch.py: the expert tensors of the served model live   *)
(* in arenas of fixed slots and are loaded when the router selects them.   *)
(* The stores of this module are the layers of one rank width, which in    *)
(* shared_layer_fused mode take turns in one arena; in the other modes     *)
(* each layer has its own.  Storage is "arena"; forward passes are         *)
(* sequential ("the qualified endpoint is single-sequence").               *)
(*                                                                         *)
(* An arena is what its dictionaries and tensors are together: which slot  *)
(* an expert has (cache and slots, whose keys agree: both are updated in   *)
(* every step), the free slots, what a slot's tensors hold, which slots    *)
(* have a pack, and for how many slots the pointer table was built.  Which *)
(* expert is evicted is left open: lru and lfu differ only in that choice. *)
(***************************************************************************)
EXTENDS Integers, FiniteSets

CONSTANTS Stores,       \* the layers, (rank, layer) in the code
          Experts,      \* 0..EXPERTS-1
          Modes,        \* GLM53_LAZY_K3_EXECUTION: those to consider
          Limits,       \* cache limits to consider (per-layer modes)
          BlockSlots,   \* fill_resident loads so many experts at a time
          Shared,       \* the SharedLayerArena's own dictionaries
          None,
          MaxFailures   \* bound: loads that raise

Size == Cardinality(Experts)

ASSUME ExpertsAreNumbered ==
    IsFiniteSet(Experts) /\ Experts # {} /\ Experts = 0..(Size - 1)
ASSUME ModesAreModes ==
    Modes \subseteq {"python_loop", "chunked_fused", "shared_layer_fused", "resident_fused"}
ASSUME LimitsArePositive == Limits \subseteq 1..Size
ASSUME BlockSlotsIsPositive == BlockSlots \in Nat \ {0}
ASSUME MaxFailuresIsNatural == MaxFailures \in Nat
ASSUME SharedIsNoStore == Shared \notin Stores
ASSUME NoneIsNothing == None \notin Stores /\ None \notin Nat

VARIABLES mode, limit,   \* the environment of the process
          slot,          \* arena -> expert -> its slot, or None
          free,          \* arena -> free slots
          payload,       \* arena -> slot -> what its tensors hold
          packs,         \* arena -> slots with a pack (slot_packs)
          table,         \* arena -> fused_slots, 0 without a table
          ref,           \* store -> the arena it is bound to
          shared, owner, \* the SharedLayerArena: its arena, its owner
          joined,        \* stores that have had a session
          strayed,       \* ghost: a store loaded an expert into another's arena
          ready,         \* stores with resident_ready
          open,          \* stores whose rank-pack mapping is open
          at, who,       \* the call in progress, its store,
          old,           \* the experts resident when it began,
          chunk, todo, rest,  \* the chunk, and what is still to do
          failures

arenas   == <<slot, free, payload, packs, table>>
bindings == <<ref, shared, owner, joined>>
sharing  == <<bindings, strayed>>
call     == <<at, who, old, chunk, todo, rest>>
settings == <<mode, limit>>
vars == <<settings, arenas, sharing, ready, open, call, failures>>

-----------------------------------------------------------------------------
Arenas == Stores \cup {Shared}
Slots  == 0..(limit - 1)
Torn   == <<None, None>>            \* a load failed while it copied

Nowhere == [e \in Experts |-> None]
Untouched == [k \in Slots |-> None]

NeedsAllSlots(m) == m \in {"shared_layer_fused", "resident_fused"}

(* _cache_limit and apply_patches: two modes need a slot for every expert. *)
Init ==
    /\ mode \in Modes
    /\ limit \in IF NeedsAllSlots(mode) THEN {Size} ELSE Limits
    /\ slot = [a \in Arenas |-> Nowhere]
    /\ free = [a \in Arenas |-> Slots]
    /\ payload = [a \in Arenas |-> Untouched]
    /\ packs = [a \in Arenas |-> {}]
    /\ table = [a \in Arenas |-> 0]
    /\ ref = [s \in Stores |-> s] /\ shared = Shared /\ owner = None
    /\ joined = {} /\ strayed = FALSE /\ ready = {} /\ open = {}
    /\ at = "idle" /\ who = None /\ old = {}
    /\ chunk = {} /\ todo = {} /\ rest = {}
    /\ failures = 0

Resident(a) == {e \in Experts : slot[a][e] # None}
HasArena(a) == \E k \in Slots : payload[a][k] # None
Least(x, S) == x \in S /\ \A y \in S : x <= y

(* "mutant" marks plausible bugs that a property would notice; no          *)
(* specification uses them.                                                *)

-----------------------------------------------------------------------------
(* Loading an expert: a free slot, the lowest first, or else the slot of a *)
(* victim that is not protected.  A load that raises has already taken its *)
(* slot, which then is neither free nor anyone's.                          *)

Victims(a, protected) == Resident(a) \ protected

TakesLast(a, k) == k \in free[a] /\ \A j \in free[a] : j <= k  \* mutant: pop()
TakesFree(a, k) == Least(k, free[a])
TakesFrom(a, v, k, protected) ==
    free[a] = {} /\ v \in Victims(a, protected) /\ k = slot[a][v]

CanTake(a, protected) == free[a] # {} \/ Victims(a, protected) # {}

LoadStale(s, a, e, k) ==                         \* mutant: pack reused uncopied
    /\ payload' = IF k \in packs[a] THEN payload
                  ELSE [payload EXCEPT ![a][k] = <<s, e>>]
    /\ packs' = [packs EXCEPT ![a] = @ \cup {k}]

Load(s, a, e, k) ==
    /\ payload' = [payload EXCEPT ![a][k] = <<s, e>>]
    /\ packs' = [packs EXCEPT ![a] = @ \cup {k}]

Assign(a, e, v, k) ==
    /\ slot' = [slot EXCEPT ![a] = [x \in Experts |->
                   IF x = e THEN k ELSE IF x = v THEN None ELSE @[x]]]
    /\ free' = [free EXCEPT ![a] = @ \ {k}]

Drop(a, v, k) ==
    /\ slot' = [slot EXCEPT ![a] = [x \in Experts |-> IF x = v THEN None ELSE @[x]]]
    /\ free' = [free EXCEPT ![a] = @ \ {k}]

Take(a, v, k, protected) ==
    \/ v = None /\ TakesFree(a, k)
    \/ TakesFrom(a, v, k, protected)

Fetch(s, e, protected) ==
    LET a == ref[s] IN
    \E v \in Experts \cup {None}, k \in Slots :
        /\ Take(a, v, k, protected)
        /\ Assign(a, e, v, k) /\ Load(s, a, e, k)

FetchFails(s, protected) ==
    LET a == ref[s] IN
    /\ failures < MaxFailures /\ failures' = failures + 1
    /\ \E v \in Experts \cup {None}, k \in Slots :
        /\ Take(a, v, k, protected)
        /\ Drop(a, v, k)
        /\ UNCHANGED payload \/ payload' = [payload EXCEPT ![a][k] = Torn]
    /\ UNCHANGED packs

-----------------------------------------------------------------------------
(* __getitem__, from the reference loop: the execution mode python_loop,   *)
(* and the runtime gate, which compares the fused path with it.  It asks   *)
(* for no session: a layer that has had one looks up, and loads into, the  *)
(* shared dictionaries, whoever owns them by now.                          *)

MayServe(s) == at = "idle" /\ (mode = "resident_fused" => s \in ready)

Strays(s) == s \in joined /\ owner # s

GetItem(s, e) ==
    /\ MayServe(s) /\ e \notin Resident(ref[s])
    /\ \/ Fetch(s, e, {}) /\ UNCHANGED failures
       \/ FetchFails(s, {})
    /\ strayed' = (strayed \/ Strays(s))
    /\ open' = open \cup {s}
    /\ UNCHANGED <<settings, table, bindings, ready, call>>

(* A hit, or a miss without a victim, which raises.                        *)
GetItemAtOnce(s, e) ==
    /\ MayServe(s)
    /\ e \in Resident(ref[s]) \/ ~CanTake(ref[s], {})
    /\ UNCHANGED vars

-----------------------------------------------------------------------------
(* shared_layer_session: the first session may adopt the dictionaries of a *)
(* store that the reference loop has filled; else the store's own ones are *)
(* dropped for the shared ones.  A new owner empties the assignment of the *)
(* slots, but neither the tensors nor the packs.                           *)

Adopts(s) == owner = None /\ HasArena(ref[s])

ClearsNever(s) == {}                             \* mutant: nothing cleared
Clears(s) == IF Adopts(s) \/ owner = s THEN {} ELSE {shared}
Drops(s)  == IF Adopts(s) \/ s \in joined THEN {} ELSE {s}

FreedNone == {}                                  \* mutant: list not extended
Freed == Slots

Join(s) ==
    LET empty == Clears(s) \cup Drops(s) IN
    /\ owner' = s /\ joined' = joined \cup {s} /\ UNCHANGED strayed
    /\ IF Adopts(s) THEN shared' = ref[s] /\ UNCHANGED ref
       ELSE ref' = [ref EXCEPT ![s] = shared] /\ UNCHANGED shared
    /\ slot' = [a \in Arenas |-> IF a \in empty THEN Nowhere ELSE slot[a]]
    /\ free' = [a \in Arenas |-> IF a \in empty THEN Freed ELSE free[a]]
    /\ payload' = [a \in Arenas |-> IF a \in Drops(s) THEN Untouched ELSE payload[a]]
    /\ packs' = [a \in Arenas |-> IF a \in Drops(s) THEN {} ELSE packs[a]]
    /\ table' = [a \in Arenas |-> IF a \in Drops(s) THEN 0 ELSE table[a]]

-----------------------------------------------------------------------------
(* The calls.  An exception leaves the store as it is; a store that fails  *)
(* while the model is loaded ends the process.                             *)

(* _resident_first, then cut into chunks: residents before misses, each in *)
(* ascending order.                                                        *)
FirstById(S, k, residents) ==                    \* mutant: not resident first
    {e \in S : Cardinality({f \in S : f < e}) < k}
First(S, k, residents) ==
    LET Before(f, e) ==
            \/ f \in residents /\ e \notin residents
            \/ f < e /\ (f \in residents <=> e \in residents)
    IN  {e \in S : Cardinality({f \in S : Before(f, e)}) < k}

Chunk(S, k, residents) ==
    /\ at' = "prepare"
    /\ chunk' = First(S, k, residents) /\ todo' = chunk' /\ rest' = S \ chunk'

(* _apply_chunked_fused; without a single valid id only its finally runs.  *)
ApplyNothing(s) ==
    /\ at = "idle" /\ mode = "chunked_fused"
    /\ open' = open \ {s}
    /\ UNCHANGED <<settings, arenas, sharing, ready, call, failures>>

ApplyChunked(s, S) ==
    /\ at = "idle" /\ mode = "chunked_fused" /\ S # {}
    /\ who' = s /\ old' = Resident(ref[s]) \cap S
    /\ Chunk(S, limit, Resident(ref[s]))
    /\ UNCHANGED <<settings, arenas, sharing, ready, open, failures>>

(* _apply_shared_layer_fused                                               *)
ApplyShared(s, S) ==
    /\ at = "idle" /\ mode = "shared_layer_fused"
    /\ Join(s)
    /\ at' = "prepare" /\ who' = s /\ old' = {}
    /\ chunk' = S /\ todo' = S /\ rest' = {}
    /\ UNCHANGED <<settings, ready, open, failures>>

(* fill_resident, once per layer, while the model is loaded                *)
FillResident(s) ==
    /\ at = "idle" /\ mode = "resident_fused" /\ s \notin ready
    /\ who' = s /\ old' = {}
    /\ Chunk(Experts, BlockSlots, {})
    /\ UNCHANGED <<settings, arenas, sharing, ready, open, failures>>

(* prepare_chunk, expert by expert                                         *)
Hit(e) ==
    /\ e \in Resident(ref[who])
    /\ UNCHANGED <<arenas, open>>

Miss(e) ==
    /\ e \notin Resident(ref[who])
    /\ Fetch(who, e, chunk)
    /\ open' = open \cup {who}
    /\ UNCHANGED table

Prepare(e) ==
    /\ at = "prepare" /\ Least(e, todo)
    /\ Hit(e) \/ Miss(e)
    /\ todo' = todo \ {e}
    /\ UNCHANGED <<settings, sharing, ready, at, who, old, chunk, rest, failures>>

EndOfCall == who' = None /\ old' = {} /\ chunk' = {} /\ todo' = {} /\ rest' = {}

(* The mapping of the rank pack is closed in a finally clause.             *)
Return ==
    /\ at' = "idle" /\ EndOfCall
    /\ open' = open \ {who}

Raise ==
    IF mode = "resident_fused"
    THEN at' = "dead" /\ EndOfCall /\ open' = open \cup {who}
    ELSE Return

PrepareFails(e) ==
    /\ at = "prepare" /\ Least(e, todo) /\ e \notin Resident(ref[who])
    /\ \/ FetchFails(who, chunk)
       \/ ~CanTake(ref[who], chunk) /\ UNCHANGED <<slot, free, payload, packs, failures>>
    /\ Raise
    /\ UNCHANGED <<settings, table, sharing, ready>>

(* get_fused_state: the pointer table is built anew when slots were added. *)
Contiguous(a) == packs[a] # {} /\ packs[a] = 0..(Cardinality(packs[a]) - 1)

Table(a) == table' = [table EXCEPT ![a] = Cardinality(packs[a])]

Launch ==
    /\ at = "prepare" /\ todo = {} /\ mode # "resident_fused"
    /\ Contiguous(ref[who])
    /\ Table(ref[who])
    /\ at' = "kernel"
    /\ UNCHANGED <<settings, slot, free, payload, packs, sharing, ready, open,
                   who, old, chunk, todo, rest, failures>>

LaunchFails ==
    /\ at = "prepare" /\ todo = {} /\ mode # "resident_fused"
    /\ ~Contiguous(ref[who])
    /\ Raise
    /\ UNCHANGED <<settings, arenas, sharing, ready, failures>>

(* The kernel has read its slots: the next chunk, or the end.              *)
KernelDone ==
    /\ at = "kernel"
    /\ IF rest = {} THEN Return
       ELSE Chunk(rest, limit, old) /\ UNCHANGED <<who, old, open>>
    /\ UNCHANGED <<settings, arenas, sharing, ready, failures>>

(* A block of the fill is loaded: the mapping is closed after each one.    *)
NextBlock ==
    /\ at = "prepare" /\ todo = {} /\ mode = "resident_fused" /\ rest # {}
    /\ Chunk(rest, BlockSlots, {})
    /\ open' = open \ {who}
    /\ UNCHANGED <<settings, arenas, sharing, ready, who, old, failures>>

(* Every expert must have its own number as slot.  The layer is ready, but *)
(* the load ends if the host's memory reserve is gone.                     *)
IsIdentity(a) == free[a] = {} /\ \A e \in Experts : slot[a][e] = e

Filled ==
    LET a == ref[who] IN
    /\ at = "prepare" /\ todo = {} /\ mode = "resident_fused" /\ rest = {}
    /\ IF IsIdentity(a) /\ Contiguous(a)
       THEN Table(a) /\ ready' = ready \cup {who} /\ at' \in {"idle", "dead"}
       ELSE UNCHANGED <<table, ready>> /\ at' = "dead"
    /\ EndOfCall /\ open' = open \ {who}
    /\ UNCHANGED <<settings, slot, free, payload, packs, sharing, failures>>

(* _apply_resident_fused, after every layer is loaded: the router's ids are*)
(* the slots.                                                              *)
ApplyResident(s, S) ==
    /\ at = "idle" /\ mode = "resident_fused" /\ ready = Stores
    /\ Contiguous(ref[s]) /\ Table(ref[s])
    /\ at' = "kernel" /\ who' = s /\ old' = {}
    /\ chunk' = S /\ todo' = {} /\ rest' = {}
    /\ UNCHANGED <<settings, slot, free, payload, packs, sharing, ready, open, failures>>

Dead == at = "dead" /\ UNCHANGED vars

Next ==
    \/ \E s \in Stores, e \in Experts : GetItem(s, e) \/ GetItemAtOnce(s, e)
    \/ \E s \in Stores, S \in SUBSET Experts :
          ApplyChunked(s, S) \/ ApplyShared(s, S) \/ ApplyResident(s, S)
    \/ \E s \in Stores : FillResident(s) \/ ApplyNothing(s)
    \/ \E e \in Experts : Prepare(e) \/ PrepareFails(e)
    \/ Launch \/ LaunchFails \/ KernelDone \/ NextBlock \/ Filled \/ Dead

Spec == Init /\ [][Next]_vars

-----------------------------------------------------------------------------
(* Properties                                                              *)

TypeOK ==
    /\ mode \in Modes /\ limit \in 1..Size
    /\ slot \in [Arenas -> [Experts -> Slots \cup {None}]]
    /\ free \in [Arenas -> SUBSET Slots]
    /\ payload \in [Arenas -> [Slots -> (Stores \X Experts) \cup {None, Torn}]]
    /\ packs \in [Arenas -> SUBSET Slots]
    /\ table \in [Arenas -> 0..limit]
    /\ ref \in [Stores -> Arenas] /\ shared \in Arenas
    /\ owner \in Stores \cup {None}
    /\ joined \subseteq Stores /\ strayed \in BOOLEAN
    /\ ready \subseteq Stores /\ open \subseteq Stores
    /\ at \in {"idle", "prepare", "kernel", "dead"}
    /\ who \in Stores \cup {None} /\ (at \in {"prepare", "kernel"} => who \in Stores)
    /\ chunk \subseteq Experts /\ todo \subseteq chunk
    /\ old \subseteq Experts /\ rest \subseteq Experts
    /\ failures \in 0..MaxFailures

(* The slot the kernel is given for an expert.                             *)
SlotId(e) == IF mode = "resident_fused" THEN e ELSE slot[ref[who]][e]

(* When the fused kernel runs, each selected expert has a slot inside the  *)
(* pointer table, and that slot holds this layer's tensors of that expert: *)
(* whatever was evicted, handed to another layer, or failed to load.  One  *)
(* thing is excepted: that a layer was served by the reference loop after  *)
(* its session, while another owned the arena, and left an expert there.   *)
KernelReadsItsExperts ==
    at = "kernel" => \A e \in chunk :
        /\ SlotId(e) \in 0..(table[ref[who]] - 1)
        /\ ~strayed => payload[ref[who]][SlotId(e)] = <<who, e>>

(* What the reference loop is served from the cache is the layer's own     *)
(* expert: before its first session, and after one as long as it owns the  *)
(* shared arena, whose slots still hold what they were loaded with for the *)
(* owners before it.  A layer that no longer owns the arena is served the  *)
(* owner's experts: the code does not look.                                *)
ServesItsExperts ==
    \A s \in Stores : MayServe(s) /\ ~Strays(s) =>
        \A e \in Resident(ref[s]) :
            \/ payload[ref[s]][slot[ref[s]][e]] = <<s, e>>
            \/ strayed /\ s \in joined

(* Resident first: an expert that was resident when the call began stays so*)
(* until it has contributed, so no call loads an expert it could have used *)
(* ("force an avoidable reload later in the same layer").                  *)
SelectedStayResident ==
    at \in {"prepare", "kernel"} => old \cap (todo \cup rest) \subseteq Resident(ref[who])

(* A call raises only after a load has failed: a chunk always fits, its    *)
(* victims exist, the slots in use are contiguous, and a fill gives every  *)
(* expert the slot of its number.                                          *)
RaisesOnlyAfterFailure ==
    (at = "prepare" /\ failures = 0) =>
        /\ \A e \in todo : e \in Resident(ref[who]) \/ CanTake(ref[who], chunk)
        /\ (todo = {} /\ chunk # {}) => Contiguous(ref[who])
        /\ (todo = {} /\ rest = {} /\ mode = "resident_fused") => IsIdentity(ref[who])

(* A failing load costs its arena one slot, and nothing else loses any.    *)
Lost(a) == Slots \ (free[a] \cup {slot[a][e] : e \in Experts})
FailureCostsOneSlot == \A a \in Arenas : Cardinality(Lost(a)) <= failures

(* A fused call that returns or raises leaves no mapping of its layer open:*)
(* 76 open ones were "the measured trigger for sustained swap".            *)
CallsCloseMappings ==
    [][(at \in {"prepare", "kernel"} /\ at' = "idle") => who \notin open']_vars
=============================================================================

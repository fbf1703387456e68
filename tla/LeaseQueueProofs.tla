--------------------------- MODULE LeaseQueueProofs ---------------------------
(* Proofs about LeaseQueue, for every set of layers, nodes and             *)
(* coordinators.                                                           *)
EXTENDS LeaseQueue, TLAPS

-----------------------------------------------------------------------------
(* Type correctness                                                        *)

LEMMA RecordTypes ==
    /\ NoRecord \in Record
    /\ \A l \in Layers : NewRecord(l) \in Record
    /\ \A r \in Record, n \in Nodes, id \in Nat : Stamped(r, n, id) \in Record
    /\ \A r \in Record : Stripped(r) \in Record
<1>1. NoRecord \in Record
  BY DEF NoRecord, Record, Node, LeaseId
<1>2. \A l \in Layers : NewRecord(l) \in Record
  <2>1. \A l \in Layers : PreferredNode[l] \in Node
    BY PreferredNodeType DEF Node
  <2> QED
    BY <2>1 DEF NewRecord, Record, Node, LeaseId
<1>3. \A r \in Record, n \in Nodes, id \in Nat : Stamped(r, n, id) \in Record
  <2> SUFFICES ASSUME NEW r \in Record, NEW n \in Nodes, NEW id \in Nat
               PROVE  Stamped(r, n, id) \in Record
    OBVIOUS
  <2>1. r.attempts + 1 \in Nat /\ n \in Node /\ id \in LeaseId
    BY DEF Record, Node, LeaseId
  <2> QED
    BY <2>1 DEF Stamped, Record
<1>4. \A r \in Record : Stripped(r) \in Record
  BY DEF Stripped, Record, Node, LeaseId
<1> QED
  BY <1>1, <1>2, <1>3, <1>4

LEMMA FrameFields ==
  ASSUME NEW f \in Frame
  PROVE  /\ f.layer \in Layers \cup {0} /\ f.node \in Node /\ f.rec \in Record
         /\ f.id \in Nat /\ f.todo \in SUBSET ((0..3) \X Layers)
  BY DEF Frame, LeaseId

LEMMA RecordFields ==
  ASSUME NEW r \in Record
  PROVE  /\ r.id \in Nat /\ r.node \in Node /\ r.attempts \in Nat
         /\ r.preferred \in Node /\ r.last \in Node /\ r.result \in Nat
  BY DEF Record, LeaseId

LEMMA NoFrameType == NoFrame \in Frame
<1>1. {} \in SUBSET ((0..3) \X Layers)
  OBVIOUS
<1>2. NoRecord \in Record /\ None \in Node /\ 0 \in LeaseId /\ 0 \in Layers \cup {0}
  BY RecordTypes DEF Node, LeaseId
<1> QED
  BY <1>1, <1>2 DEF NoFrame, Frame

(* The updates of a frame that the actions make.                           *)
LEMMA TodoType ==
  ASSUME NEW f \in Frame, NEW S \in SUBSET ((0..3) \X Layers)
  PROVE  [f EXCEPT !.todo = S] \in Frame
  BY DEF Frame

LEMMA LeasingType ==
  ASSUME NEW n \in Nodes, NEW S \in SUBSET ((0..3) \X Layers)
  PROVE  [NoFrame EXCEPT !.node = n, !.todo = S] \in Frame
  BY NoFrameType DEF Frame, Node

LEMMA OnLayerType ==
  ASSUME NEW f \in Frame, NEW l \in Layers, NEW id \in Nat, NEW r \in Record
  PROVE  /\ [f EXCEPT !.layer = l, !.id = id, !.rec = r] \in Frame
         /\ \A S \in SUBSET ((0..3) \X Layers) :
              [f EXCEPT !.todo = S, !.layer = l, !.id = id, !.rec = r] \in Frame
<1> id \in LeaseId /\ l \in Layers \cup {0}
  BY DEF LeaseId
<1> QED
  BY DEF Frame

-----------------------------------------------------------------------------
(* Type correctness                                                        *)

LEMMA TypeInit == Init => TypeOK
  BY NoFrameType DEF Init, TypeOK, Labels, OnLayer, Leasing, Finishing, Requeueing

LEMMA TypeStep == TypeOK /\ [Next]_vars => TypeOK'
<1> SUFFICES ASSUME TypeOK, [Next]_vars PROVE TypeOK'
  OBVIOUS
<1> USE NoFileIsNoRecord
<1> USE DEF TypeOK, Labels, Booting, Leasing, Finishing, Requeueing, OnLayer, queue,
        Goto, Write, Remove, Exists
<1>1. CASE UNCHANGED vars
  BY <1>1 DEF vars
<1>2. ASSUME NEW c \in Coordinators, StartAlone(c) PROVE TypeOK'
  <2>1. [NoFrame EXCEPT !.todo = {0} \X Layers] \in Frame
    <3>1. {0} \X Layers \in SUBSET ((0..3) \X Layers)
      OBVIOUS
    <3> QED
      BY <3>1, NoFrameType, TodoType
  <2> QED
    BY <1>2, <2>1 DEF StartAlone, Start
<1>3. ASSUME NEW c \in Coordinators, Initialize(c) PROVE TypeOK'
  <2>1. \A p : [frame[c] EXCEPT !.todo = frame[c].todo \ {p}] \in Frame
    BY FrameFields, TodoType
  <2>2. CASE Look(c, "seePending", pending, "seeLeased")
    BY <2>1, <2>2 DEF Look
  <2>3. CASE Look(c, "seeLeased", leased, "seeCompleted")
    BY <2>1, <2>3 DEF Look
  <2>4. CASE Look(c, "seeCompleted", completed, "create")
    BY <2>1, <2>4 DEF Look
  <2>5. CASE Create(c)
    <3>1. PICK p \in frame[c].todo :
             /\ pending' = Write(pending, p[2], NewRecord(p[2]))
             /\ frame' = [frame EXCEPT ![c].todo = @ \ {p}]
      BY <2>5 DEF Create
    <3>2. p[2] \in Layers
      BY FrameFields
    <3>3. NewRecord(p[2]) \in Record
      BY <3>2, RecordTypes
    <3> QED
      BY <2>1, <2>5, <3>1, <3>3 DEF Create
  <2>6. CASE Initialized(c)
    BY <2>6 DEF Initialized
  <2> QED
    BY <1>3, <2>2, <2>3, <2>4, <2>5, <2>6 DEF Initialize
<1>4. ASSUME NEW c \in Coordinators, Flock(c) \/ Crash(c) PROVE TypeOK'
  BY <1>4, NoFrameType DEF Flock, Crash
<1>5. ASSUME NEW c \in Coordinators, Call(c) PROVE TypeOK'
  <2>1. ASSUME NEW n \in Nodes, LeaseNext(c, n) PROVE TypeOK'
    <3>1. Candidates(n) \in SUBSET ((0..3) \X Layers)
      BY DEF Candidates, Rank
    <3>2. [NoFrame EXCEPT !.node = n, !.todo = Candidates(n)] \in Frame
      BY <3>1, LeasingType
    <3>3. ([NoFrame EXCEPT !.node = n, !.todo = Candidates(n)]).node = n
      BY DEF NoFrame
    <3> QED
      BY <2>1, <3>2, <3>3 DEF LeaseNext
  <2>2. ASSUME NEW l \in Layers, NEW id \in Nat, NEW r \in Record,
               NEW lab \in {"finishWrite", "requeueReceipt", "preferWrite"},
               Begin(c, l, id, r, lab)
        PROVE TypeOK'
    <3>1. [NoFrame EXCEPT !.layer = l, !.id = id, !.rec = r] \in Frame
      BY NoFrameType, OnLayerType
    <3>2. ([NoFrame EXCEPT !.layer = l, !.id = id, !.rec = r]).layer = l
      BY DEF NoFrame
    <3> QED
      BY <2>2, <3>1, <3>2 DEF Begin
  <2>3. ASSUME NEW l \in Layers, NEW id \in 1..MaxLeases,
               Finish(c, l, id) \/ Requeue(c, l, id)
        PROVE TypeOK'
    <3>1. leased[l] \in Record /\ id \in Nat
      BY <2>3 DEF Finish, Requeue, Names
    <3>2. [leased[l] EXCEPT !.result = id] \in Record
      BY <3>1 DEF Record, LeaseId
    <3> QED
      BY <2>2, <2>3, <3>1, <3>2 DEF Finish, Requeue
  <2>4. ASSUME NEW l \in Layers, NEW n \in Nodes, PreferPendingNode(c, l, n)
        PROVE TypeOK'
    <3>1. pending[l] \in Record
      BY <2>4 DEF PreferPendingNode
    <3>2. [pending[l] EXCEPT !.preferred = n] \in Record
      BY <3>1 DEF Record, Node
    <3> QED
      BY <2>2, <2>4, <3>2 DEF PreferPendingNode
  <2> QED
    BY <1>5, <2>1, <2>3, <2>4 DEF Call
<1>6. ASSUME NEW c \in Coordinators, CallStep(c) PROVE TypeOK'
  <2> frame[c] \in Frame /\ frame[c].rec \in Record /\ frame[c].id \in Nat
      /\ frame[c].todo \in SUBSET ((0..3) \X Layers)
    BY FrameFields
  <2>1. CASE LeaseRead(c)
    <3>1. PICK p \in frame[c].todo : 
            IF Exists(pending, p[2])
            THEN /\ uuids' = uuids + 1
                 /\ frame' = [frame EXCEPT ![c] = Claim(frame[c], p, uuids + 1)]
                 /\ Goto(c, "leaseWrite")
            ELSE /\ frame' = [frame EXCEPT ![c].todo = @ \ {p}]
                 /\ UNCHANGED <<pc, uuids>>
      BY <2>1 DEF LeaseRead
    <3>2. p[2] \in Layers /\ frame[c].node \in Nodes
      BY <2>1 DEF LeaseRead
    <3>3. CASE Exists(pending, p[2])
      <4>1. Stamped(pending[p[2]], frame[c].node, uuids + 1) \in Record
        BY <3>2, <3>3, RecordTypes
      <4>2. uuids + 1 \in Nat /\ frame[c].todo \ {p} \in SUBSET ((0..3) \X Layers)
        OBVIOUS
      <4>3. Claim(frame[c], p, uuids + 1) \in Frame
        BY <3>2, <4>1, <4>2, OnLayerType DEF Claim
      <4>4. /\ Claim(frame[c], p, uuids + 1).layer \in Layers
            /\ Claim(frame[c], p, uuids + 1).node \in Nodes
        BY <3>2 DEF Claim, Frame
      <4> QED
        BY <2>1, <3>1, <3>3, <4>3, <4>4 DEF LeaseRead
    <3>4. CASE ~Exists(pending, p[2])
      <4>1. [frame[c] EXCEPT !.todo = frame[c].todo \ {p}] \in Frame
        BY TodoType
      <4>2. ([frame[c] EXCEPT !.todo = frame[c].todo \ {p}]).node = frame[c].node
        BY DEF Frame
      <4> QED
        BY <2>1, <3>1, <3>4, <4>1, <4>2 DEF LeaseRead
    <3> QED
      BY <3>3, <3>4
  <2>2. CASE NothingToLease(c)
    BY <2>2, NoFrameType DEF NothingToLease
  <2>3. CASE LeaseWrite(c)
    BY <2>3 DEF LeaseWrite
  <2>4. CASE LeaseRename(c)
    <3>1. [layer |-> frame[c].layer, node |-> frame[c].node, id |-> frame[c].id]
            \in Lease
      BY <2>4 DEF LeaseRename, Lease, LeaseId
    <3> QED
      BY <2>4, <3>1, NoFrameType DEF LeaseRename
  <2>5. CASE FinishWrite(c)
    BY <2>5 DEF FinishWrite
  <2>6. CASE FinishRename(c)
    BY <2>6, NoFrameType DEF FinishRename, GivenBack, Return
  <2>7. CASE RequeueReceipt(c)
    <3>1. [layer |-> frame[c].layer, attempt |-> frame[c].rec.attempts,
           id |-> frame[c].id] \in Receipt
      BY <2>7, RecordFields DEF RequeueReceipt, Receipt, LeaseId
    <3> QED
      BY <2>7, <3>1 DEF RequeueReceipt
  <2>8. CASE RequeueStrip(c)
    BY <2>8, RecordTypes DEF RequeueStrip
  <2>9. CASE RequeueRename(c)
    BY <2>9, NoFrameType DEF RequeueRename, GivenBack, Return
  <2>10. CASE PreferWrite(c)
    BY <2>10, NoFrameType DEF PreferWrite, Return
  <2> QED
    BY <1>6, <2>1, <2>2, <2>3, <2>4, <2>5, <2>6, <2>7, <2>8, <2>9, <2>10
    DEF CallStep
<1> QED
  BY <1>1, <1>2, <1>3, <1>4, <1>5, <1>6 DEF Next, Work

(* The files, the calls and the lock have their types in every reachable   *)
(* state, whatever crashes.                                                *)
THEOREM Types == Spec => []TypeOK
  BY TypeInit, TypeStep, PTL DEF Spec
-----------------------------------------------------------------------------
(* The inductive invariant.  What the calls rely on between two of their   *)
(* file operations: the files they have read do not change under them.     *)

Serving == {"idle", "preferWrite"} \cup Leasing \cup Finishing \cup Requeueing

(* One process at a time; the one past the flock holds it.                 *)
Solo ==
    /\ \A c, d \in Coordinators : pc[c] # "off" /\ pc[d] # "off" => c = d
    /\ \A c \in Coordinators : holder = c <=> pc[c] \in Serving

(* A leased record names its lease and its node, or neither.               *)
NamedOrStripped ==
    \A l \in Layers : Exists(leased, l) =>
        \/ leased[l].id # 0 /\ leased[l].node \in Nodes
        \/ leased[l].id = 0 /\ leased[l].node = None

BootOK(c) ==
    LET todo == frame[c].todo
        first(l) == \E p \in todo : IsFirst(p, todo) /\ p[2] = l
    IN
    /\ pc[c] \in Booting \ {"flock"} =>
          \A l \in Layers : Somewhere(l) \/ \E p \in todo : p[2] = l
    /\ pc[c] \in {"seeLeased", "seeCompleted", "create"} =>
          \A l \in Layers : first(l) => ~Exists(pending, l)
    /\ pc[c] \in {"seeCompleted", "create"} =>
          \A l \in Layers : first(l) => ~Exists(leased, l)
    /\ pc[c] = "create" => \A l \in Layers : first(l) => ~Exists(completed, l)
    /\ pc[c] \in {"flock"} \cup Serving => \A l \in Layers : Somewhere(l)
    /\ pc[c] \in Booting \ {"flock"} => \A p \in todo : p[1] = 0

LeaseOK(c) ==
    LET f == frame[c] IN
    /\ pc[c] \in Leasing => ~ActiveNode(f.node)
    /\ pc[c] \in {"leaseWrite", "leaseRename"} =>
          Exists(pending, f.layer) /\ f.rec.node = f.node /\ f.rec.id = f.id /\ f.id # 0
    /\ pc[c] = "leaseRename" => pending[f.layer] = f.rec

FinishOK(c) ==
    LET f == frame[c] IN
    /\ pc[c] \in Finishing =>
          /\ Names(f.layer, f.id) /\ f.id # 0 /\ f.rec.id = f.id
          /\ f.rec.result = f.id /\ f.rec.node = leased[f.layer].node
    /\ pc[c] = "finishRename" => leased[f.layer] = f.rec

RequeueOK(c) ==
    LET f == frame[c] IN
    /\ pc[c] \in {"requeueReceipt", "requeueStrip"} =>
          Names(f.layer, f.id) /\ f.id # 0
    /\ pc[c] = "requeueRename" =>
          /\ Exists(leased, f.layer) /\ leased[f.layer].node = None
          /\ \A h \in handed : h.layer = f.layer => h.id = f.id

PreferOK(c) == pc[c] = "preferWrite" => Exists(pending, frame[c].layer)

CallOK(c) == BootOK(c) /\ LeaseOK(c) /\ FinishOK(c) /\ RequeueOK(c) /\ PreferOK(c)

IInv ==
    /\ TypeOK
    /\ Solo
    /\ \A l \in Layers : AtMostOnePlace(l)
    /\ NamedOrStripped
    /\ OneLeasePerNode
    /\ NoDuplicateLease
    /\ HandedIsDurable
    /\ CompletedByItsLease
    /\ \A c \in Coordinators : CallOK(c)

Files == /\ \A l \in Layers : AtMostOnePlace(l)
         /\ NamedOrStripped
         /\ OneLeasePerNode
         /\ CompletedByItsLease

Hands == NoDuplicateLease /\ HandedIsDurable

(* A coordinator that is off claims nothing about the files.               *)
LEMMA OffIsOK ==
  ASSUME NEW c \in Coordinators
  PROVE  /\ pc[c] = "off" => CallOK(c)
         /\ pc'[c] = "off" => CallOK(c)'
  BY DEF CallOK, BootOK, LeaseOK, FinishOK, RequeueOK, PreferOK, Booting, Serving,
         Leasing, Finishing, Requeueing

(* What is left to show of a step by c: the files, the leases in callers'  *)
(* hands, and c's own call.                                                *)
LEMMA OneActs ==
  ASSUME NEW c \in Coordinators, IInv, TypeOK', Files', Hands',
         NEW lab \in Labels, pc' = [pc EXCEPT ![c] = lab], 
         \A d \in Coordinators : d # c => pc[d] = "off",
         lab \in Serving => holder' = c,
         lab \notin Serving => holder' = None,
         CallOK(c)'
  PROVE  IInv'
<1> USE DEF TypeOK, Serving, Labels, Booting, Leasing, Finishing, Requeueing
<1>1. \A d \in Coordinators : d # c => pc'[d] = "off"
  BY DEF IInv
<1>2. pc'[c] = lab
  BY DEF IInv
<1>3. Solo'
  BY <1>1, <1>2, NoneIsNobody DEF Solo
<1>4. \A d \in Coordinators : CallOK(d)'
  BY <1>1, OffIsOK
<1> QED
  BY <1>3, <1>4 DEF IInv, Files, Hands

LEMMA Alone ==
  ASSUME IInv, NEW c \in Coordinators, pc[c] # "off"
  PROVE  \A d \in Coordinators : d # c => pc[d] = "off"
  BY DEF IInv, Solo

LEMMA HolderWhileBooting ==
  ASSUME IInv, NEW c \in Coordinators, \A d \in Coordinators : d # c => pc[d] = "off"
  PROVE  /\ pc[c] \in Serving => holder = c
         /\ pc[c] \notin Serving => holder = None
  BY DEF IInv, Solo, TypeOK, Serving, Leasing, Finishing, Requeueing

LEMMA InvInit == Init => IInv
<1> SUFFICES ASSUME Init PROVE IInv
  OBVIOUS
<1>1. TypeOK
  BY TypeInit
<1>2. Solo
  BY NoneIsNobody DEF Init, Solo, Serving, Leasing, Finishing, Requeueing
<1>3. Files /\ Hands
  BY DEF Init, Files, Hands, AtMostOnePlace, NamedOrStripped, OneLeasePerNode,
     NoDuplicateLease, HandedIsDurable, CompletedByItsLease, Exists
<1>4. \A c \in Coordinators : CallOK(c)
  BY OffIsOK DEF Init
<1> QED
  BY <1>1, <1>2, <1>3, <1>4 DEF IInv, Files, Hands

(* A step that leaves the directories and the handed leases alone leaves   *)
(* what is true of them alone.                                             *)
LEMMA SameFiles ==
  ASSUME IInv, UNCHANGED <<pending, leased, completed, handed>>
  PROVE  Files' /\ Hands'
  BY DEF IInv, Files, Hands, AtMostOnePlace, NamedOrStripped, OneLeasePerNode,
     NoDuplicateLease, HandedIsDurable, CompletedByItsLease, Exists

LEMMA FirstIsUnique ==
  ASSUME NEW todo \in SUBSET ((0..3) \X Layers), NEW p \in todo, NEW q \in todo,
         IsFirst(p, todo), IsFirst(q, todo)
  PROVE  p[2] = q[2]
<1>1. p[2] \in Nat /\ q[2] \in Nat /\ p[1] \in 0..3 /\ q[1] \in 0..3
  BY LayersAreNumbers
<1> QED
  BY <1>1 DEF IsFirst

LEMMA InvBoot ==
  ASSUME IInv, TypeOK', NEW c \in Coordinators,
         StartAlone(c) \/ Initialize(c) \/ Flock(c) \/ Crash(c)
  PROVE  IInv'
<1> USE DEF Labels, Booting, Leasing, Finishing, Requeueing, queue, Goto
<1> TypeOK
  BY DEF IInv
<1>1. CASE StartAlone(c)
  <2>1. Files' /\ Hands'
    BY <1>1, SameFiles DEF StartAlone, Start
  <2>2. frame'[c].todo = {0} \X Layers
    BY <1>1, NoFrameType DEF StartAlone, Start, TypeOK, Frame
  <2>3. \A l \in Layers : <<0, l>> \in {0} \X Layers /\ <<0, l>>[2] = l
    OBVIOUS
  <2>4. CallOK(c)'
    BY <1>1, <2>2, <2>3 DEF StartAlone, Start, CallOK, BootOK, LeaseOK, FinishOK,
       RequeueOK, PreferOK, Serving, TypeOK
  <2>5. holder = None
    BY <1>1, HolderWhileBooting DEF StartAlone, Serving
  <2> QED
    BY <1>1, <2>1, <2>4, <2>5, OneActs DEF StartAlone, Start, Serving
<1>2. ASSUME NEW here \in {"seePending", "seeLeased", "seeCompleted"},
             NEW dir, NEW next, Look(c, here, dir, next),
             \/ here = "seePending" /\ dir = pending /\ next = "seeLeased"
             \/ here = "seeLeased" /\ dir = leased /\ next = "seeCompleted"
             \/ here = "seeCompleted" /\ dir = completed /\ next = "create"
      PROVE  IInv'
  <2> pc[c] = here /\ pc[c] # "off"
    BY <1>2 DEF Look
  <2>1. Files' /\ Hands'
    BY <1>2, SameFiles DEF Look
  <2>2. /\ \A d \in Coordinators : d # c => pc[d] = "off"
        /\ holder' = None
    BY <1>2, Alone, HolderWhileBooting DEF Look, Serving
  <2>3. PICK p \in frame[c].todo :
           /\ IsFirst(p, frame[c].todo)
           /\ IF Exists(dir, p[2])
              THEN /\ frame' = [frame EXCEPT ![c].todo = @ \ {p}]
                   /\ Goto(c, "seePending")
              ELSE /\ Goto(c, next)
                   /\ UNCHANGED frame
    BY <1>2 DEF Look
  <2>4. frame[c] \in Frame /\ frame[c].todo \in SUBSET ((0..3) \X Layers)
    BY FrameFields DEF TypeOK
  <2>5. CASE Exists(dir, p[2])
    <3>1. frame'[c].todo = frame[c].todo \ {p} /\ pc'[c] = "seePending"
      BY <2>3, <2>4, <2>5 DEF TypeOK, Frame
    <3>2. Somewhere(p[2])'
      BY <1>2, <2>5 DEF Look, Somewhere, Exists
    <3>3. \A l \in Layers : Somewhere(l) => Somewhere(l)'
      BY <1>2 DEF Look, Somewhere, Exists
    <3>4. \A l \in Layers : Somewhere(l)' \/ \E q \in frame'[c].todo : q[2] = l
      BY <1>2, <3>1, <3>2, <3>3 DEF IInv, CallOK, BootOK
    <3>5. CallOK(c)'
      BY <1>2, <3>1, <3>4
      DEF IInv, CallOK, BootOK, LeaseOK, FinishOK, RequeueOK, PreferOK, Serving
    <3> QED
      BY <2>1, <2>2, <2>3, <2>5, <3>5, OneActs DEF Serving
  <2>6. CASE ~Exists(dir, p[2])
    <3>1. pc'[c] = next /\ frame' = frame
      BY <2>3, <2>6, <1>2 DEF TypeOK
    <3>2. \A l \in Layers : 
             (\E q \in frame[c].todo : IsFirst(q, frame[c].todo) /\ q[2] = l)
                 => l = p[2]
      BY <2>3, <2>4, FirstIsUnique
    <3>3. /\ BootOK(c)
          /\ UNCHANGED <<pending, leased, completed>>
      BY <1>2 DEF IInv, CallOK, Look
    <3>4. BootOK(c)'
      BY <1>2, <2>6, <3>1, <3>2, <3>3 DEF BootOK, Serving, Somewhere, Exists
    <3>5. CallOK(c)'
      BY <1>2, <3>1, <3>4
      DEF CallOK, LeaseOK, FinishOK, RequeueOK, PreferOK
    <3> QED
      BY <1>2, <2>1, <2>2, <2>3, <2>6, <3>5, OneActs DEF Serving
  <2> QED
    BY <2>5, <2>6
<1>3. CASE Create(c)
  <2>1. /\ \A d \in Coordinators : d # c => pc[d] = "off"
        /\ holder' = None
    BY <1>3, Alone, HolderWhileBooting DEF Create, Serving
  <2>2. PICK p \in frame[c].todo :
           /\ IsFirst(p, frame[c].todo)
           /\ pending' = Write(pending, p[2], NewRecord(p[2]))
           /\ frame' = [frame EXCEPT ![c].todo = @ \ {p}]
    BY <1>3 DEF Create
  <2>3. p[2] \in Layers /\ NewRecord(p[2]) # NoFile
    BY FrameFields, RecordTypes, NoFileIsNoRecord DEF TypeOK
  <2>4. ~Exists(pending, p[2]) /\ ~Exists(leased, p[2]) /\ ~Exists(completed, p[2])
    BY <1>3, <2>2, <2>3 DEF Create, IInv, CallOK, BootOK
  <2>5. \A l \in Layers :
           /\ l = p[2] => Exists(pending, l)'
           /\ l # p[2] => pending'[l] = pending[l]
    BY <2>2, <2>3 DEF Write, Exists, TypeOK
  <2>6. UNCHANGED <<leased, completed, handed>>
    BY <1>3 DEF Create
  <2>7. Files' /\ Hands'
    BY <2>3, <2>4, <2>5, <2>6
    DEF IInv, Files, Hands, AtMostOnePlace, NamedOrStripped, OneLeasePerNode,
        NoDuplicateLease, HandedIsDurable, CompletedByItsLease, Exists
  <2>8. frame'[c].todo = frame[c].todo \ {p} /\ pc'[c] = "seePending"
    BY <1>3, <2>2 DEF Create, TypeOK, Frame
  <2>9. \A l \in Layers : Somewhere(l)' \/ \E q \in frame'[c].todo : q[2] = l
    <3>1. \A l \in Layers : Somewhere(l) \/ \E q \in frame[c].todo : q[2] = l
      BY <1>3 DEF Create, IInv, CallOK, BootOK
    <3>2. \A l \in Layers : Somewhere(l) \/ l = p[2] => Somewhere(l)'
      BY <2>5, <2>6 DEF Somewhere, Exists
    <3> QED
      BY <2>8, <3>1, <3>2
  <2>10. CallOK(c)'
    BY <1>3, <2>8, <2>9
    DEF Create, IInv, CallOK, BootOK, LeaseOK, FinishOK, RequeueOK, PreferOK, Serving
  <2> QED
    BY <1>3, <2>1, <2>7, <2>10, OneActs DEF Create, Serving
<1>4. CASE Initialized(c)
  <2>1. Files' /\ Hands'
    BY <1>4, SameFiles DEF Initialized
  <2>2. /\ \A d \in Coordinators : d # c => pc[d] = "off"
        /\ holder' = None
    BY <1>4, Alone, HolderWhileBooting DEF Initialized, Serving
  <2>3. \A l \in Layers : Somewhere(l)'
    BY <1>4 DEF Initialized, IInv, CallOK, BootOK, Somewhere, Exists
  <2>4. CallOK(c)'
    BY <1>4, <2>3 DEF Initialized, CallOK, BootOK, LeaseOK, FinishOK,
       RequeueOK, PreferOK, TypeOK
  <2> QED
    BY <1>4, <2>1, <2>2, <2>4, OneActs DEF Initialized, Serving
<1>5. CASE Flock(c)
  <2>1. Files' /\ Hands'
    BY <1>5, SameFiles DEF Flock
  <2>2. /\ \A d \in Coordinators : d # c => pc[d] = "off"
        /\ holder = None
    BY <1>5, Alone, HolderWhileBooting DEF Flock, Serving
  <2>3. pc' = [pc EXCEPT ![c] = "idle"] /\ holder' = c
    BY <1>5, <2>2 DEF Flock
  <2>4. \A l \in Layers : Somewhere(l)'
    BY <1>5 DEF Flock, IInv, CallOK, BootOK, Somewhere, Exists
  <2>5. CallOK(c)'
    BY <2>3, <2>4 DEF CallOK, BootOK, LeaseOK, FinishOK,
       RequeueOK, PreferOK, TypeOK
  <2> QED
    BY <2>1, <2>2, <2>3, <2>5, OneActs DEF Serving
<1>6. CASE Crash(c)
  <2>1. Files' /\ Hands'
    BY <1>6, SameFiles DEF Crash
  <2>2. /\ \A d \in Coordinators : d # c => pc[d] = "off"
        /\ holder' = None
    BY <1>6, Alone, HolderWhileBooting DEF Crash, TypeOK, IInv, Solo
  <2>3. CallOK(c)'
    BY <1>6, OffIsOK DEF Crash, TypeOK
  <2> QED
    BY <1>6, <2>1, <2>2, <2>3, OneActs DEF Crash, Serving
<1> QED
  BY <1>1, <1>2, <1>3, <1>4, <1>5, <1>6 DEF Initialize

(* Each library call begins with a read that changes no file.              *)
LEMMA InvCall ==
  ASSUME IInv, TypeOK', NEW c \in Coordinators, Call(c)
  PROVE  IInv'
<1> USE DEF Labels, Booting, Leasing, Finishing, Requeueing, queue, Goto
<1> TypeOK
  BY DEF IInv
<1>1. pc[c] = "idle"
  BY DEF Call, LeaseNext, Finish, Requeue, PreferPendingNode
<1>2. /\ \A d \in Coordinators : d # c => pc[d] = "off"
      /\ holder = c
  BY <1>1, Alone, HolderWhileBooting DEF Serving
<1>3. \A l \in Layers : Somewhere(l)
  BY <1>1 DEF IInv, CallOK, BootOK, Serving
<1>4. ASSUME NEW n \in Nodes, LeaseNext(c, n) PROVE IInv'
  <2>1. Files' /\ Hands'
    BY <1>4, SameFiles DEF LeaseNext
  <2>2. frame'[c].node = n /\ pc'[c] = "leaseRead"
    BY <1>4, NoFrameType DEF LeaseNext, TypeOK, NoFrame
  <2>3. ~ActiveNode(n)' /\ \A l \in Layers : Somewhere(l)'
    BY <1>3, <1>4 DEF LeaseNext, ActiveNode, Somewhere, Exists
  <2>4. CallOK(c)'
    BY <2>2, <2>3 DEF CallOK, BootOK, LeaseOK, FinishOK, RequeueOK, PreferOK, Serving,
       ActiveNode, Exists
  <2> QED
    BY <1>2, <1>4, <2>1, <2>4, OneActs DEF LeaseNext, Serving
<1>5. ASSUME NEW l \in Layers, NEW id, NEW r, NEW lab, Begin(c, l, id, r, lab)
      PROVE  /\ Files' /\ Hands'
             /\ UNCHANGED <<pending, leased, completed, handed, holder>>
             /\ frame'[c].layer = l /\ frame'[c].id = id /\ frame'[c].rec = r
             /\ pc' = [pc EXCEPT ![c] = lab] /\ pc'[c] = lab
             /\ \A m \in Layers : Somewhere(m)'
  <2>1. UNCHANGED <<pending, leased, completed, handed, holder>>
    BY <1>5 DEF Begin
  <2>2. frame'[c] = [NoFrame EXCEPT !.layer = l, !.id = id, !.rec = r]
    BY <1>5 DEF Begin, TypeOK
  <2>3. frame'[c].layer = l /\ frame'[c].id = id /\ frame'[c].rec = r
    BY <2>2 DEF NoFrame
  <2> QED
    BY <1>3, <1>5, <2>1, <2>3, SameFiles DEF Begin, TypeOK, Somewhere, Exists
<1>6. ASSUME NEW l \in Layers, NEW id \in 1..MaxLeases, Finish(c, l, id)
      PROVE  IInv'
  <2> DEFINE r == [leased[l] EXCEPT !.result = id]
  <2>1. Begin(c, l, id, r, "finishWrite") /\ Names(l, id) /\ id # 0
    BY <1>6 DEF Finish
  <2>2. leased[l] \in Record
    BY <2>1 DEF Names, Exists, TypeOK
  <2>3. r.id = id /\ r.result = id /\ r.node = leased[l].node
    BY <2>1, <2>2 DEF Record, Names
  <2> HIDE DEF r
  <2>4. CallOK(c)'
    BY <1>5, <2>1, <2>3 DEF CallOK, BootOK, LeaseOK, FinishOK, RequeueOK, PreferOK,
       Serving, Names, Exists
  <2> QED
    BY <1>2, <1>5, <2>1, <2>4, OneActs DEF Serving
<1>7. ASSUME NEW l \in Layers, NEW id \in 1..MaxLeases, Requeue(c, l, id)
      PROVE  IInv'
  <2>1. Begin(c, l, id, leased[l], "requeueReceipt") /\ Names(l, id) /\ id # 0
    BY <1>7 DEF Requeue
  <2>2. CallOK(c)'
    BY <1>5, <2>1 DEF CallOK, BootOK, LeaseOK, FinishOK, RequeueOK, PreferOK,
       Serving, Names, Exists
  <2> QED
    BY <1>2, <1>5, <2>1, <2>2, OneActs DEF Serving
<1>8. ASSUME NEW l \in Layers, NEW n \in Nodes, PreferPendingNode(c, l, n)
      PROVE  IInv'
  <2> DEFINE r == [pending[l] EXCEPT !.preferred = n]
  <2>1. Begin(c, l, 0, r, "preferWrite") /\ Exists(pending, l)
    BY <1>8 DEF PreferPendingNode
  <2>2. CallOK(c)'
    BY <1>5, <2>1 DEF CallOK, BootOK, LeaseOK, FinishOK, RequeueOK, PreferOK,
       Serving, Names, Exists
  <2> QED
    BY <1>2, <1>5, <2>1, <2>2, OneActs DEF Serving
<1> QED
  BY <1>4, <1>6, <1>7, <1>8 DEF Call

LEMMA InvCallStep ==
  ASSUME IInv, TypeOK', NEW c \in Coordinators, CallStep(c)
  PROVE  IInv'
<1> USE DEF Labels, Booting, Leasing, Finishing, Requeueing, queue, Goto
<1> USE NoFileIsNoRecord
<1> DEFINE f == frame[c]
<1> TypeOK /\ CallOK(c)
  BY DEF IInv
<1>1. pc[c] \in Serving \ {"idle"}
  BY DEF CallStep, LeaseRead, NothingToLease, LeaseWrite, LeaseRename, FinishWrite,
     FinishRename, RequeueReceipt, RequeueStrip, RequeueRename, PreferWrite, Serving
<1>2. /\ \A d \in Coordinators : d # c => pc[d] = "off"
      /\ holder = c
  BY <1>1, Alone, HolderWhileBooting DEF Serving
<1>3. \A l \in Layers : Somewhere(l)
  BY <1>1 DEF CallOK, BootOK, Serving
<1>4. f \in Frame /\ f.rec \in Record /\ f.rec # NoFile
  BY FrameFields DEF TypeOK
<1>5. /\ \A l \in Layers : AtMostOnePlace(l)
      /\ NamedOrStripped /\ OneLeasePerNode /\ CompletedByItsLease
      /\ NoDuplicateLease /\ HandedIsDurable
  BY DEF IInv
(* Back to idle every layer must be somewhere; nothing else is claimed.    *)
<1>6. ASSUME pc' = [pc EXCEPT ![c] = "idle"], \A l \in Layers : Somewhere(l)'
      PROVE  CallOK(c)'
  BY <1>6 DEF CallOK, BootOK, LeaseOK, FinishOK, RequeueOK, PreferOK, Serving, TypeOK
<1>7. CASE LeaseRead(c)
  <2>1. Files' /\ Hands' /\ holder' = c
    BY <1>2, <1>7, SameFiles DEF LeaseRead
  <2>2. PICK p \in f.todo :
            IF Exists(pending, p[2])
            THEN /\ uuids' = uuids + 1
                 /\ frame' = [frame EXCEPT ![c] = Claim(f, p, uuids + 1)]
                 /\ Goto(c, "leaseWrite")
            ELSE /\ frame' = [frame EXCEPT ![c].todo = @ \ {p}]
                 /\ UNCHANGED <<pc, uuids>>
    BY <1>7 DEF LeaseRead
  <2> PICK n : n = f.node
    OBVIOUS
  <2>3. p[2] \in Layers /\ ~ActiveNode(n)' /\ \A l \in Layers : Somewhere(l)'
    <3>1. p[2] \in Layers
      BY <1>4, FrameFields
    <3>2. ~ActiveNode(n)
      BY <1>7 DEF LeaseRead, CallOK, LeaseOK
    <3>3. UNCHANGED <<pending, leased, completed>>
      BY <1>7 DEF LeaseRead
    <3> QED
      BY <1>3, <3>1, <3>2, <3>3 DEF ActiveNode, Somewhere, Exists
  <2>4. CASE Exists(pending, p[2])
    <3>1. pending[p[2]] \in Record
      BY <2>3, <2>4 DEF Exists, TypeOK
    <3>2. /\ frame'[c].layer = p[2] /\ frame'[c].id = uuids + 1
          /\ frame'[c].node = n
          /\ frame'[c].rec = Stamped(pending[p[2]], n, uuids + 1)
          /\ pc'[c] = "leaseWrite"
      <4>1. frame'[c] = Claim(f, p, uuids + 1) /\ pc'[c] = "leaseWrite"
        BY <2>2, <2>4 DEF TypeOK
      <4>2. /\ Claim(f, p, uuids + 1).layer = p[2] /\ Claim(f, p, uuids + 1).id = uuids + 1
            /\ Claim(f, p, uuids + 1).node = n
            /\ Claim(f, p, uuids + 1).rec = Stamped(pending[p[2]], n, uuids + 1)
        BY <1>4 DEF Claim, Frame
      <4> QED
        BY <4>1, <4>2
    <3>3. frame'[c].rec.node = n /\ frame'[c].rec.id = uuids + 1
      BY <3>1, <3>2 DEF Stamped, Record
    <3>4. Exists(pending, p[2])' /\ uuids + 1 # 0
      BY <1>7, <2>4 DEF LeaseRead, Exists, TypeOK
    <3>5. CallOK(c)'
      BY <2>3, <3>2, <3>3, <3>4
      DEF CallOK, BootOK, LeaseOK, FinishOK, RequeueOK, PreferOK, Serving, 
          ActiveNode, Exists
    <3> QED
      BY <1>2, <2>1, <2>2, <2>4, <3>5, OneActs DEF Serving
  <2>5. CASE ~Exists(pending, p[2])
    <3>1. pc' = [pc EXCEPT ![c] = "leaseRead"] /\ pc'[c] = "leaseRead"
      BY <1>7, <2>2, <2>5 DEF LeaseRead, TypeOK
    <3>2. frame'[c].node = n
      BY <1>4, <2>2, <2>5 DEF TypeOK, Frame
    <3>3. CallOK(c)'
      BY <2>3, <3>1, <3>2
      DEF CallOK, BootOK, LeaseOK, FinishOK, RequeueOK, PreferOK, Serving,
          ActiveNode, Exists
    <3> QED
      BY <1>2, <2>1, <3>1, <3>3, OneActs DEF Serving
  <2> QED
    BY <2>4, <2>5
<1>8. CASE NothingToLease(c)
  <2>1. Files' /\ Hands' /\ holder' = c
    BY <1>2, <1>8, SameFiles DEF NothingToLease
  <2>2. CallOK(c)'
    BY <1>3, <1>6, <1>8 DEF NothingToLease, Somewhere, Exists
  <2> QED
    BY <1>2, <1>8, <2>1, <2>2, OneActs DEF NothingToLease, Serving
<1>9. CASE LeaseWrite(c)
  <2>1. f.layer \in Layers /\ Exists(pending, f.layer)
    BY <1>9 DEF LeaseWrite, CallOK, LeaseOK, TypeOK, OnLayer
  <2>2. /\ pending' = [pending EXCEPT ![f.layer] = f.rec]
        /\ UNCHANGED <<leased, completed, handed, holder, frame>>
        /\ pc' = [pc EXCEPT ![c] = "leaseRename"] /\ pc'[c] = "leaseRename"
    BY <1>9 DEF LeaseWrite, Write, TypeOK
  <2>3. /\ pending'[f.layer] = f.rec
        /\ \A l \in Layers : Exists(pending, l)' <=> Exists(pending, l)
    BY <1>4, <2>1, <2>2 DEF Exists, TypeOK
  <2>4. Files' /\ Hands'
    BY <1>5, <2>2, <2>3
    DEF Files, Hands, AtMostOnePlace, NamedOrStripped, OneLeasePerNode,
        NoDuplicateLease, HandedIsDurable, CompletedByItsLease, Exists
  <2>5. CallOK(c)'
    BY <1>3, <1>9, <2>1, <2>2, <2>3
    DEF LeaseWrite, CallOK, BootOK, LeaseOK, FinishOK, RequeueOK, PreferOK, Serving, 
        ActiveNode, Somewhere, Exists
  <2> QED
    BY <1>2, <2>2, <2>4, <2>5, OneActs DEF Serving
<1>10. CASE LeaseRename(c)
  <2> PICK l, n, id : l = f.layer /\ n = f.node /\ id = f.id
    OBVIOUS
  <2>1. /\ l \in Layers /\ n \in Nodes /\ Exists(pending, l) /\ ~ActiveNode(n)
        /\ pending[l].node = n /\ pending[l].id = id /\ id # 0
    BY <1>10 DEF LeaseRename, CallOK, LeaseOK, TypeOK, OnLayer
  <2>2. /\ leased' = [leased EXCEPT ![l] = pending[l]]
        /\ pending' = [pending EXCEPT ![l] = NoFile]
        /\ handed' = handed \cup {[layer |-> l, node |-> n, id |-> id]}
        /\ UNCHANGED <<completed, holder>>
        /\ pc' = [pc EXCEPT ![c] = "idle"]
    BY <1>10, <2>1 DEF LeaseRename, Write, Remove
  <2>3. ~Exists(leased, l) /\ ~Exists(completed, l)
    BY <1>5, <2>1 DEF AtMostOnePlace
  <2>4. /\ leased'[l] = pending[l] /\ leased'[l] # NoFile /\ pending'[l] = NoFile
        /\ \A m \in Layers : m # l => leased'[m] = leased[m] /\ pending'[m] = pending[m]
    BY <2>1, <2>2 DEF Exists, TypeOK
  <2>5. Files'
    <3>1. (\A m \in Layers : AtMostOnePlace(m))' /\ CompletedByItsLease'
      BY <1>5, <2>2, <2>3, <2>4 DEF AtMostOnePlace, CompletedByItsLease, Exists
    <3>2. NamedOrStripped'
      BY <1>5, <2>1, <2>4 DEF NamedOrStripped, Exists
    <3>3. OneLeasePerNode'
      BY <1>5, <2>1, <2>4 DEF OneLeasePerNode, ActiveNode, Exists
    <3> QED
      BY <3>1, <3>2, <3>3 DEF Files
  <2>6. Hands'
    <3>1. \A h \in handed : h.layer # l
      BY <1>5, <2>3 DEF HandedIsDurable
    <3>2. HandedIsDurable'
      BY <1>5, <2>1, <2>2, <2>4, <3>1 DEF HandedIsDurable, Exists, TypeOK, Lease
    <3>3. NoDuplicateLease'
      BY <1>5, <2>2, <3>1 DEF NoDuplicateLease
    <3> QED
      BY <3>2, <3>3 DEF Hands
  <2>7. \A m \in Layers : Somewhere(m)'
    BY <1>3, <2>2, <2>4 DEF Somewhere, Exists
  <2> QED
    BY <1>2, <1>6, <2>2, <2>5, <2>6, <2>7, OneActs DEF Serving
<1>11. CASE FinishWrite(c)
  <2> PICK l : l = f.layer
    OBVIOUS
  <2>1. /\ l \in Layers /\ Names(l, f.id) /\ f.id # 0
        /\ f.rec.id = f.id /\ f.rec.result = f.id /\ f.rec.node = leased[l].node
    BY <1>11 DEF FinishWrite, CallOK, FinishOK, TypeOK, OnLayer
  <2>2. /\ leased' = [leased EXCEPT ![l] = f.rec]
        /\ UNCHANGED <<pending, completed, handed, holder, frame>>
        /\ pc' = [pc EXCEPT ![c] = "finishRename"] /\ pc'[c] = "finishRename"
    BY <1>11 DEF FinishWrite, Write, TypeOK
  <2>3. /\ leased'[l] = f.rec /\ \A m \in Layers : m # l => leased'[m] = leased[m]
        /\ \A m \in Layers : Exists(leased, m)' <=> Exists(leased, m)
        /\ \A m \in Layers : Exists(leased, m) => 
              leased'[m].id = leased[m].id /\ leased'[m].node = leased[m].node
    BY <1>4, <2>1, <2>2 DEF Names, Exists, TypeOK
  <2>4. Files' /\ Hands'
    <3>1. (\A m \in Layers : AtMostOnePlace(m))' /\ CompletedByItsLease' /\ NamedOrStripped'
      BY <1>5, <2>2, <2>3 DEF AtMostOnePlace, CompletedByItsLease, NamedOrStripped, Exists
    <3>2. OneLeasePerNode' /\ NoDuplicateLease'
      BY <1>5, <2>2, <2>3 DEF OneLeasePerNode, NoDuplicateLease, Exists
    <3>3. HandedIsDurable'
      BY <1>5, <2>2, <2>3 DEF HandedIsDurable, Exists, TypeOK, Lease
    <3> QED
      BY <3>1, <3>2, <3>3 DEF Files, Hands
  <2>5. CallOK(c)'
    BY <1>3, <1>4, <2>1, <2>2, <2>3
    DEF CallOK, BootOK, LeaseOK, FinishOK, RequeueOK, PreferOK, Serving,
        Names, Somewhere, Exists
  <2> QED
    BY <1>2, <2>2, <2>4, <2>5, OneActs DEF Serving
<1>12. CASE FinishRename(c)
  <2> PICK l, id : l = f.layer /\ id = f.id
    OBVIOUS
  <2>1. /\ l \in Layers /\ Exists(leased, l) /\ leased[l].id = id /\ id # 0
        /\ leased[l].result = id
    BY <1>12 DEF FinishRename, CallOK, FinishOK, Names, TypeOK, OnLayer
  <2>2. /\ completed' = [completed EXCEPT ![l] = leased[l]]
        /\ leased' = [leased EXCEPT ![l] = NoFile]
        /\ handed' = GivenBack(l, id)
        /\ UNCHANGED <<pending, holder>>
        /\ pc' = [pc EXCEPT ![c] = "idle"]
    BY <1>12, <2>1 DEF FinishRename, Write, Remove, Return
  <2>3. ~Exists(pending, l) /\ ~Exists(completed, l)
    BY <1>5, <2>1 DEF AtMostOnePlace
  <2>4. /\ completed'[l] = leased[l] /\ completed'[l] # NoFile /\ leased'[l] = NoFile
        /\ \A m \in Layers : m # l => leased'[m] = leased[m] /\ completed'[m] = completed[m]
    BY <2>1, <2>2 DEF Exists, TypeOK
  <2>5. Files'
    BY <1>5, <2>1, <2>2, <2>3, <2>4
    DEF Files, AtMostOnePlace, NamedOrStripped, OneLeasePerNode, CompletedByItsLease, Exists
  <2>6. Hands'
    <3>1. \A h \in handed' : h \in handed /\ h.layer \in Layers /\ h.layer # l
      BY <1>5, <2>1, <2>2 DEF GivenBack, HandedIsDurable, TypeOK, Lease
    <3> QED
      BY <1>5, <2>4, <3>1 DEF Hands, NoDuplicateLease, HandedIsDurable, Exists
  <2>7. \A m \in Layers : Somewhere(m)'
    BY <1>3, <2>2, <2>4 DEF Somewhere, Exists
  <2> QED
    BY <1>2, <1>6, <2>2, <2>5, <2>6, <2>7, OneActs DEF Serving
<1>13. CASE RequeueReceipt(c)
  <2>1. UNCHANGED <<pending, leased, completed, handed, holder, frame>>
    BY <1>13 DEF RequeueReceipt
  <2>2. pc' = [pc EXCEPT ![c] = "requeueStrip"] /\ pc'[c] = "requeueStrip"
    BY <1>13 DEF RequeueReceipt, TypeOK
  <2>3. CallOK(c)'
    BY <1>3, <1>13, <2>1, <2>2
    DEF RequeueReceipt, CallOK, BootOK, LeaseOK, FinishOK, RequeueOK, PreferOK, Serving,
        Names, Somewhere, Exists
  <2> QED
    BY <1>2, <2>1, <2>2, <2>3, SameFiles, OneActs DEF Serving
<1>14. CASE RequeueStrip(c)
  <2> PICK l, id : l = f.layer /\ id = f.id
    OBVIOUS
  <2>1. l \in Layers /\ Exists(leased, l) /\ leased[l].id = id /\ id # 0
    BY <1>14 DEF RequeueStrip, CallOK, RequeueOK, Names, TypeOK, OnLayer
  <2>2. /\ leased' = [leased EXCEPT ![l] = Stripped(f.rec)]
        /\ UNCHANGED <<pending, completed, handed, holder, frame>>
        /\ pc' = [pc EXCEPT ![c] = "requeueRename"] /\ pc'[c] = "requeueRename"
    BY <1>14 DEF RequeueStrip, Write, TypeOK
  <2>3. Stripped(f.rec) # NoFile /\ Stripped(f.rec).id = 0 /\ Stripped(f.rec).node = None
    BY <1>4, RecordTypes DEF Stripped, Record
  <2>4. /\ leased'[l] = Stripped(f.rec)
        /\ \A m \in Layers : m # l => leased'[m] = leased[m]
        /\ \A m \in Layers : Exists(leased, m)' <=> Exists(leased, m)
    BY <2>1, <2>2, <2>3 DEF Exists, TypeOK
  <2>5. Files'
    BY <1>5, <2>1, <2>2, <2>3, <2>4
    DEF Files, AtMostOnePlace, NamedOrStripped, OneLeasePerNode, CompletedByItsLease, Exists
  <2>6. Hands'
    BY <1>5, <2>1, <2>2, <2>3, <2>4
    DEF Hands, NoDuplicateLease, HandedIsDurable, Exists, TypeOK, Lease
  <2>7. \A h \in handed : h.layer = l => h.id = id
    BY <1>5, <2>1 DEF HandedIsDurable
  <2>8. CallOK(c)'
    BY <1>3, <2>1, <2>2, <2>3, <2>4, <2>7
    DEF CallOK, BootOK, LeaseOK, FinishOK, RequeueOK, PreferOK, Serving,
        Names, Somewhere, Exists
  <2> QED
    BY <1>2, <2>2, <2>5, <2>6, <2>8, OneActs DEF Serving
<1>15. CASE RequeueRename(c)
  <2> PICK l, id : l = f.layer /\ id = f.id
    OBVIOUS
  <2>1. /\ l \in Layers /\ Exists(leased, l)
        /\ \A h \in handed : h.layer = l => h.id = id
    BY <1>15 DEF RequeueRename, CallOK, RequeueOK, Names, TypeOK, OnLayer
  <2>2. /\ pending' = [pending EXCEPT ![l] = leased[l]]
        /\ leased' = [leased EXCEPT ![l] = NoFile]
        /\ handed' = GivenBack(l, id)
        /\ UNCHANGED <<completed, holder>>
        /\ pc' = [pc EXCEPT ![c] = "idle"]
    BY <1>15, <2>1 DEF RequeueRename, Write, Remove, Return
  <2>3. ~Exists(pending, l) /\ ~Exists(completed, l)
    BY <1>5, <2>1 DEF AtMostOnePlace
  <2>4. /\ pending'[l] = leased[l] /\ pending'[l] # NoFile /\ leased'[l] = NoFile
        /\ \A m \in Layers : m # l => leased'[m] = leased[m] /\ pending'[m] = pending[m]
    BY <2>1, <2>2 DEF Exists, TypeOK
  <2>5. Files'
    BY <1>5, <2>1, <2>2, <2>3, <2>4
    DEF Files, AtMostOnePlace, NamedOrStripped, OneLeasePerNode, CompletedByItsLease, Exists
  <2>6. Hands'
    <3>1. \A h \in handed' : h \in handed /\ h.layer \in Layers /\ h.layer # l
      BY <2>1, <2>2 DEF GivenBack, TypeOK, Lease
    <3> QED
      BY <1>5, <2>4, <3>1 DEF Hands, NoDuplicateLease, HandedIsDurable, Exists
  <2>7. \A m \in Layers : Somewhere(m)'
    BY <1>3, <2>2, <2>4 DEF Somewhere, Exists
  <2> QED
    BY <1>2, <1>6, <2>2, <2>5, <2>6, <2>7, OneActs DEF Serving
<1>16. CASE PreferWrite(c)
  <2> PICK l : l = f.layer
    OBVIOUS
  <2>1. l \in Layers /\ Exists(pending, l)
    BY <1>16 DEF PreferWrite, CallOK, PreferOK, TypeOK, OnLayer
  <2>2. /\ pending' = [pending EXCEPT ![l] = f.rec]
        /\ UNCHANGED <<leased, completed, handed, holder>>
        /\ pc' = [pc EXCEPT ![c] = "idle"]
    BY <1>16 DEF PreferWrite, Write, Return
  <2>3. \A m \in Layers : Exists(pending, m)' <=> Exists(pending, m)
    BY <1>4, <2>1, <2>2 DEF Exists, TypeOK
  <2>4. Files' /\ Hands'
    BY <1>5, <2>2, <2>3
    DEF Files, Hands, AtMostOnePlace, NamedOrStripped, OneLeasePerNode,
        NoDuplicateLease, HandedIsDurable, CompletedByItsLease, Exists
  <2>5. \A m \in Layers : Somewhere(m)'
    BY <1>3, <2>2, <2>3 DEF Somewhere, Exists
  <2> QED
    BY <1>2, <1>6, <2>2, <2>4, <2>5, OneActs DEF Serving
<1> QED
  BY <1>7, <1>8, <1>9, <1>10, <1>11, <1>12, <1>13, <1>14, <1>15, <1>16 DEF CallStep

LEMMA InvStep == IInv /\ [Next]_vars => IInv'
<1> SUFFICES ASSUME IInv, [Next]_vars PROVE IInv'
  OBVIOUS
<1>1. TypeOK'
  BY TypeStep DEF IInv
<1>2. CASE UNCHANGED vars
  BY <1>2
  DEF vars, IInv, TypeOK, Solo, AtMostOnePlace, NamedOrStripped, OneLeasePerNode,
      NoDuplicateLease, HandedIsDurable, CompletedByItsLease, CallOK, BootOK, LeaseOK,
      FinishOK, RequeueOK, PreferOK, Names, ActiveNode, Somewhere, Exists
<1>3. CASE Next
  <2>1. PICK c \in Coordinators : StartAlone(c) \/ Work(c)
    BY <1>3 DEF Next
  <2> QED
    BY <1>1, <2>1, InvBoot, InvCall, InvCallStep DEF Work
<1> QED
  BY <1>2, <1>3

LEMMA Invariance == Spec => []IInv
  BY InvInit, InvStep, PTL DEF Spec

-----------------------------------------------------------------------------
(* What the invariant says of the queue.                                   *)

(* Every layer's record is in one place and, while a manager is past the   *)
(* flock, in exactly one: no crash between two file operations and no      *)
(* restart loses or doubles a layer.                                       *)
THEOREM OnePlaceTheorem == Spec => []OnePlace
<1>1. IInv => OnePlace
  <2> SUFFICES ASSUME IInv, holder # None PROVE \A l \in Layers : Somewhere(l)
    BY DEF IInv, OnePlace
  <2>1. pc[holder] \in Serving /\ holder \in Coordinators
    BY DEF IInv, TypeOK, Solo
  <2> QED
    BY <2>1 DEF IInv, CallOK, BootOK
<1> QED
  BY <1>1, Invariance, PTL

(* No node ever has two leased records.                                    *)
THEOREM OneLeasePerNodeTheorem == Spec => []OneLeasePerNode
<1>1. IInv => OneLeasePerNode
  BY DEF IInv
<1> QED
  BY <1>1, Invariance, PTL

(* A layer is in the hands of one caller at a time, and the lease that     *)
(* caller holds is the durable one.                                        *)
THEOREM HandedTheorem == Spec => [](NoDuplicateLease /\ HandedIsDurable)
<1>1. IInv => NoDuplicateLease /\ HandedIsDurable
  BY DEF IInv
<1> QED
  BY <1>1, Invariance, PTL

(* A completed record carries the result of its own lease: stale results   *)
(* complete nothing.                                                       *)
THEOREM CompletedByItsLeaseTheorem == Spec => []CompletedByItsLease
<1>1. IInv => CompletedByItsLease
  BY DEF IInv
<1> QED
  BY <1>1, Invariance, PTL

-----------------------------------------------------------------------------
(* Every step of the queue is a step of LayerLease or changes nothing a    *)
(* reader sees.                                                            *)

(* A step that touches the records of one layer changes only its status.   *)
LEMMA OneStatus ==
  ASSUME NEW l \in Layers, NEW s, Status(l)' = s,
         \A m \in Layers : m # l => 
            /\ pending'[m] = pending[m] /\ leased'[m] = leased[m]
            /\ completed'[m] = completed[m]
  PROVE  StatusMap' = [StatusMap EXCEPT ![l] = s]
<1>1. \A m \in Layers : m # l => Status(m)' = Status(m)
  BY DEF Status, Exists
<1> QED
  BY <1>1 DEF StatusMap

LEMMA SameStatus ==
  ASSUME \A m \in Layers : Status(m)' = Status(m)
  PROVE  UNCHANGED StatusMap
  BY DEF StatusMap

LEMMA BootRefines ==
  ASSUME IInv, NEW c \in Coordinators,
         StartAlone(c) \/ Initialize(c) \/ Flock(c) \/ Crash(c) \/ Call(c)
  PROVE  /\ Abstract!Next \/ UNCHANGED StatusMap
         /\ UNCHANGED completed
<1>1. CASE UNCHANGED <<pending, leased, completed>>
  BY <1>1, SameStatus DEF Status, Exists
<1>2. CASE Create(c)
  <2>1. PICK p \in frame[c].todo :
           /\ IsFirst(p, frame[c].todo)
           /\ pending' = Write(pending, p[2], NewRecord(p[2]))
    BY <1>2 DEF Create
  <2>2. p[2] \in Layers /\ NewRecord(p[2]) # NoFile
    BY FrameFields, RecordTypes, NoFileIsNoRecord DEF IInv, TypeOK
  <2>3. ~Exists(pending, p[2]) /\ ~Exists(leased, p[2]) /\ ~Exists(completed, p[2])
    BY <1>2, <2>1, <2>2 DEF Create, IInv, CallOK, BootOK
  <2>4. /\ UNCHANGED <<leased, completed>>
        /\ pending'[p[2]] # NoFile
        /\ \A m \in Layers : m # p[2] => pending'[m] = pending[m]
    BY <1>2, <2>1, <2>2 DEF Create, Write, IInv, TypeOK
  <2>5. Status(p[2]) = Abstract!Absent /\ Status(p[2])' = Abstract!Pending
    BY <2>3, <2>4 DEF Status, Exists, Abstract!Absent, Abstract!Pending
  <2>6. Abstract!Add(p[2])
    BY <2>2, <2>4, <2>5, OneStatus DEF Abstract!Add, StatusMap
  <2> QED
    BY <2>2, <2>4, <2>6 DEF Abstract!Next
<1> QED
  BY <1>1, <1>2
  DEF StartAlone, Start, Initialize, Look, Initialized, Flock, Crash, Call, LeaseNext,
      Finish, Requeue, PreferPendingNode, Begin, queue

LEMMA CallStepRefines ==
  ASSUME IInv, NEW c \in Coordinators, CallStep(c)
  PROVE  /\ Abstract!Next \/ UNCHANGED StatusMap
         /\ \A l \in Layers : Exists(completed, l) => completed'[l] = completed[l]
<1> USE NoFileIsNoRecord
<1> PICK f, l : f = frame[c] /\ l = f.layer
  OBVIOUS
<1> TypeOK /\ CallOK(c) /\ (\A m \in Layers : AtMostOnePlace(m)) /\ NamedOrStripped
  BY DEF IInv
<1>1. f.rec \in Record /\ f.rec # NoFile
  BY FrameFields DEF TypeOK
<1>2. CASE LeaseRead(c) \/ NothingToLease(c) \/ RequeueReceipt(c)
  <2>1. UNCHANGED <<pending, leased, completed>>
    BY <1>2 DEF LeaseRead, NothingToLease, RequeueReceipt, queue
  <2> QED
    BY <2>1, SameStatus DEF Status, Exists
<1>3. CASE LeaseWrite(c) \/ PreferWrite(c)
  <2>1. l \in Layers /\ Exists(pending, l)
    BY <1>3 DEF LeaseWrite, PreferWrite, CallOK, LeaseOK, PreferOK, TypeOK, OnLayer
  <2>2. pending' = [pending EXCEPT ![l] = f.rec] /\ UNCHANGED <<leased, completed>>
    BY <1>3 DEF LeaseWrite, PreferWrite, Write
  <2>3. \A m \in Layers : Exists(pending, m)' <=> Exists(pending, m)
    BY <1>1, <2>1, <2>2 DEF Exists, TypeOK
  <2> QED
    BY <2>2, <2>3, SameStatus DEF Status, Exists
<1>4. CASE FinishWrite(c)
  <2>1. l \in Layers /\ Exists(leased, l) /\ f.rec.node = leased[l].node
    BY <1>4 DEF FinishWrite, CallOK, FinishOK, Names, TypeOK, OnLayer, Finishing
  <2>2. leased' = [leased EXCEPT ![l] = f.rec] /\ UNCHANGED <<pending, completed>>
    BY <1>4 DEF FinishWrite, Write
  <2>3. \A m \in Layers : /\ Exists(leased, m)' <=> Exists(leased, m)
                          /\ Exists(leased, m) => leased'[m].node = leased[m].node
    BY <1>1, <2>1, <2>2 DEF Exists, TypeOK
  <2> QED
    BY <2>2, <2>3, SameStatus DEF Status, Exists
<1>5. CASE LeaseRename(c)
  <2> PICK n : n = f.node
    OBVIOUS
  <2>1. /\ l \in Layers /\ n \in Nodes /\ Exists(pending, l) /\ ~ActiveNode(n)
        /\ pending[l].node = n
    BY <1>5 DEF LeaseRename, CallOK, LeaseOK, TypeOK, OnLayer, Leasing
  <2>2. /\ leased' = [leased EXCEPT ![l] = pending[l]]
        /\ pending' = [pending EXCEPT ![l] = NoFile]
        /\ UNCHANGED completed
    BY <1>5, <2>1 DEF LeaseRename, Write, Remove
  <2>3. ~Exists(leased, l) /\ ~Exists(completed, l)
    BY <2>1 DEF AtMostOnePlace
  <2>4. /\ leased'[l] = pending[l] /\ pending'[l] = NoFile
        /\ \A m \in Layers : m # l => leased'[m] = leased[m] /\ pending'[m] = pending[m]
    BY <2>1, <2>2 DEF TypeOK
  <2>5. Status(l) = Abstract!Pending /\ Status(l)' = Abstract!LeasedTo(n)
    BY <2>1, <2>2, <2>3, <2>4 DEF Status, Exists, Abstract!Pending, Abstract!LeasedTo
  <2>6. \A m \in Layers : Status(m) # Abstract!LeasedTo(n)
    BY <2>1, NoneIsNobody DEF Status, ActiveNode, Abstract!LeasedTo
  <2>7. Abstract!Grant(l, n)
    BY <2>1, <2>2, <2>4, <2>5, <2>6, OneStatus DEF Abstract!Grant, StatusMap
  <2> QED
    BY <2>1, <2>2, <2>7 DEF Abstract!Next
<1>6. CASE FinishRename(c)
  <2>1. /\ l \in Layers /\ Exists(leased, l) /\ leased[l].id # 0
    BY <1>6 DEF FinishRename, CallOK, FinishOK, Names, TypeOK, OnLayer, Finishing
  <2>2. /\ completed' = [completed EXCEPT ![l] = leased[l]]
        /\ leased' = [leased EXCEPT ![l] = NoFile]
        /\ UNCHANGED pending
    BY <1>6, <2>1 DEF FinishRename, Write, Remove
  <2>3. ~Exists(completed, l) /\ leased[l].node \in Nodes
    BY <2>1 DEF AtMostOnePlace, NamedOrStripped
  <2>4. /\ completed'[l] = leased[l] /\ leased'[l] = NoFile
        /\ \A m \in Layers : m # l => leased'[m] = leased[m] /\ completed'[m] = completed[m]
    BY <2>1, <2>2 DEF TypeOK
  <2>5. Status(l) = Abstract!LeasedTo(leased[l].node) /\ Status(l)' = Abstract!Completed
    BY <2>1, <2>3, <2>4 DEF Status, Exists, Abstract!Completed, Abstract!LeasedTo
  <2>6. Abstract!Complete(l)
    BY <2>1, <2>2, <2>3, <2>4, <2>5, OneStatus DEF Abstract!Complete, StatusMap
  <2> QED
    BY <2>1, <2>3, <2>4, <2>6 DEF Abstract!Next
<1>7. CASE RequeueStrip(c)
  <2>1. /\ l \in Layers /\ Exists(leased, l) /\ leased[l].id # 0
    BY <1>7 DEF RequeueStrip, CallOK, RequeueOK, Names, TypeOK, OnLayer, Requeueing
  <2>2. /\ leased' = [leased EXCEPT ![l] = Stripped(f.rec)]
        /\ UNCHANGED <<pending, completed>>
    BY <1>7 DEF RequeueStrip, Write
  <2>3. ~Exists(completed, l) /\ leased[l].node \in Nodes
    BY <2>1 DEF AtMostOnePlace, NamedOrStripped
  <2>4. Stripped(f.rec) # NoFile /\ Stripped(f.rec).node = None
    BY <1>1, RecordTypes DEF Stripped, Record
  <2>5. /\ leased'[l] = Stripped(f.rec)
        /\ \A m \in Layers : m # l => leased'[m] = leased[m]
    BY <2>1, <2>2 DEF TypeOK
  <2>6. /\ Status(l) = Abstract!LeasedTo(leased[l].node)
        /\ Status(l)' = Abstract!LeasedTo(None)
    BY <2>1, <2>2, <2>3, <2>4, <2>5 DEF Status, Exists, Abstract!LeasedTo
  <2>7. Abstract!Disown(l)
    BY <2>1, <2>2, <2>3, <2>5, <2>6, OneStatus DEF Abstract!Disown, StatusMap
  <2> QED
    BY <2>1, <2>2, <2>7 DEF Abstract!Next
<1>8. CASE RequeueRename(c)
  <2>1. l \in Layers /\ Exists(leased, l) /\ leased[l].node = None
    BY <1>8 DEF RequeueRename, CallOK, RequeueOK, TypeOK, OnLayer, Requeueing
  <2>2. /\ pending' = [pending EXCEPT ![l] = leased[l]]
        /\ leased' = [leased EXCEPT ![l] = NoFile]
        /\ UNCHANGED completed
    BY <1>8, <2>1 DEF RequeueRename, Write, Remove
  <2>3. ~Exists(completed, l)
    BY <2>1 DEF AtMostOnePlace
  <2>4. /\ pending'[l] = leased[l] /\ leased'[l] = NoFile
        /\ \A m \in Layers : m # l => leased'[m] = leased[m] /\ pending'[m] = pending[m]
    BY <2>1, <2>2 DEF TypeOK
  <2>5. Status(l) = Abstract!LeasedTo(None) /\ Status(l)' = Abstract!Pending
    BY <2>1, <2>2, <2>3, <2>4 DEF Status, Exists, Abstract!Pending, Abstract!LeasedTo
  <2>6. Abstract!Return(l)
    BY <2>1, <2>2, <2>4, <2>5, OneStatus DEF Abstract!Return, StatusMap
  <2> QED
    BY <2>1, <2>2, <2>6 DEF Abstract!Next
<1> QED
  BY <1>2, <1>3, <1>4, <1>5, <1>6, <1>7, <1>8 DEF CallStep

LEMMA StepRefines ==
  ASSUME IInv, [Next]_vars
  PROVE  /\ [Abstract!Next]_StatusMap
         /\ \A l \in Layers : Exists(completed, l) => completed'[l] = completed[l]
<1>1. CASE UNCHANGED vars
  BY <1>1, SameStatus DEF vars, Status, Exists
<1>2. CASE Next
  BY <1>2, BootRefines, CallStepRefines DEF Next, Work
<1> QED
  BY <1>1, <1>2

(* A completed record is never touched again: not by a retry, not by       *)
(* initialize of a restarted manager.                                      *)
THEOREM CompletedIsFinalTheorem == Spec => CompletedIsFinal
<1>1. IInv /\ [Next]_vars =>
        [\A l \in Layers : Exists(completed, l) => completed'[l] = completed[l]]_vars
  BY StepRefines
<1> QED
  BY <1>1, Invariance, PTL DEF Spec, CompletedIsFinal

(* The file-level queue implements LayerLease: its directory renames are   *)
(* the atomic steps a reader of the queue sees.                            *)
THEOREM Refinement == Spec => ImplementsLayerLease
<1>1. Init => Abstract!Init
  BY DEF Init, Abstract!Init, Abstract!Absent, StatusMap, Status, Exists
<1>2. IInv /\ [Next]_vars => [Abstract!Next]_StatusMap
  BY StepRefines
<1> QED
  BY <1>1, <1>2, Invariance, PTL DEF Spec, ImplementsLayerLease, Abstract!Spec
=============================================================================

------------------------------ MODULE LeaseQueue ------------------------------
(***************************************************************************)
(* tp3k3/lease_queue.py, one file operation at a time.                     *)
(*                                                                         *)
(* The queue is a directory tree: pending/, leased/ and completed/ hold at *)
(* most one JSON record per layer, failed/ holds one receipt per requeued  *)
(* lease.  Every library call is a read, one or two atomic writes          *)
(* (atomic_json: temporary file, fsync, rename) and a rename between       *)
(* directories; a coordinator may die between any two of them.  A          *)
(* coordinator is a manager process: it runs initialize, then takes the    *)
(* flock on manager.lock, then calls the library.                          *)
(*                                                                         *)
(* Spec is the deployed discipline: a manager is started only when no      *)
(* other one is alive.                                                     *)
(***************************************************************************)
EXTENDS Integers, FiniteSets

CONSTANTS Layers,        \* ROUTED_LAYERS, numbers
          Nodes,         \* NODES
          Coordinators,  \* manager processes that may ever run
          MaxLeases,     \* bound: how many lease ids (uuid4) are ever drawn
          PreferredNode, \* initialize: the node a layer prefers when created
          None,          \* JSON null or an absent key
          NoFile         \* the file does not exist

ASSUME LayersAreNumbers == Layers \subseteq Nat
ASSUME NoneIsNobody == None \notin Nodes \cup Coordinators
ASSUME PreferredNodeType == PreferredNode \in [Layers -> Nodes \cup {None}]

VARIABLES pending, leased, completed,  \* directory: layer -> record or NoFile
          failed,                      \* failed/: the receipts of requeue
          uuids,                       \* how many lease ids were drawn
          pc, frame,                   \* the call a coordinator is in
          holder,                      \* who holds the flock, or None
          handed                       \* leases lease_next has returned and
                                       \* that were not yet given back (ghost)

queue == <<pending, leased, completed, failed>>
vars  == <<pending, leased, completed, failed, uuids, pc, frame, holder, handed>>

-----------------------------------------------------------------------------
(* Records.  A lease id is the number of its draw, 0 when the key is       *)
(* absent.  "last" is the node of the last leased or requeued event of the *)
(* history; "result" is the lease id inside the stored worker result.      *)

Node    == Nodes \cup {None}
LeaseId == Nat
Record  == [id: LeaseId, node: Node, attempts: Nat, preferred: Node,
            last: Node, result: LeaseId]
Receipt == [layer: Layers, attempt: Nat, id: LeaseId]
Lease   == [layer: Layers, node: Nodes, id: LeaseId]

ASSUME NoFileIsNoRecord == NoFile \notin Record

NewRecord(l) == [id |-> 0, node |-> None, attempts |-> 0,
                 preferred |-> PreferredNode[l], last |-> None, result |-> 0]

NoRecord == [id |-> 0, node |-> None, attempts |-> 0, preferred |-> None,
             last |-> None, result |-> 0]

Exists(dir, l) == dir[l] # NoFile
Write(dir, l, r) == [dir EXCEPT ![l] = r]

Kept(dir, l) == dir                             \* mutant: copy, not rename
Remove(dir, l)   == [dir EXCEPT ![l] = NoFile]

(* The labels of a coordinator: "off" is no process, "idle" is between two *)
(* library calls with the flock held.                                      *)
Booting  == {"seePending", "seeLeased", "seeCompleted", "create", "flock"}
Leasing  == {"leaseRead", "leaseWrite", "leaseRename"}
Finishing  == {"finishWrite", "finishRename"}
Requeueing == {"requeueReceipt", "requeueStrip", "requeueRename"}
Labels == {"off", "idle", "preferWrite"}
              \cup Booting \cup Leasing \cup Finishing \cup Requeueing

(* The labels at which a call has chosen its layer.                        *)
OnLayer == {"leaseWrite", "leaseRename", "preferWrite"} \cup Finishing \cup Requeueing

NoFrame == [layer |-> 0, node |-> None, rec |-> NoRecord, id |-> 0, todo |-> {}]

Init ==
    /\ pending   = [l \in Layers |-> NoFile]
    /\ leased    = [l \in Layers |-> NoFile]
    /\ completed = [l \in Layers |-> NoFile]
    /\ failed = {}
    /\ uuids = 0
    /\ pc = [c \in Coordinators |-> "off"]
    /\ frame = [c \in Coordinators |-> NoFrame]
    /\ holder = None
    /\ handed = {}

Goto(c, label) == pc' = [pc EXCEPT ![c] = label]

(* The definitions marked "mutant" are the plausible bugs that show, one by *)
(* one, that a property would notice them; no specification uses them.     *)

(* A call works through its todo list in the order of (rank, layer).       *)
IsFirst(p, todo) ==
    \A q \in todo : p[1] < q[1] \/ (p[1] = q[1] /\ p[2] <= q[2])

-----------------------------------------------------------------------------
(* initialize: for each layer look in pending/, leased/ and completed/, one*)
(* after the other, and create a pending record if none has it.  (No file  *)
(* of failed/ has the bare layer name, so that look never finds anything.) *)

Start(c) ==
    /\ pc[c] = "off"
    /\ Goto(c, "seePending")
    /\ frame' = [frame EXCEPT ![c] = [NoFrame EXCEPT !.todo = {0} \X Layers]]
    /\ UNCHANGED <<queue, uuids, holder, handed>>

Look(c, here, dir, next) ==
    /\ pc[c] = here
    /\ \E p \in frame[c].todo :
        /\ IsFirst(p, frame[c].todo)
        /\ IF Exists(dir, p[2])
           THEN /\ frame' = [frame EXCEPT ![c].todo = @ \ {p}]
                /\ Goto(c, "seePending")
           ELSE /\ Goto(c, next)
                /\ UNCHANGED frame
    /\ UNCHANGED <<queue, uuids, holder, handed>>

Create(c) ==
    /\ pc[c] = "create"
    /\ \E p \in frame[c].todo :
        /\ IsFirst(p, frame[c].todo)
        /\ pending' = Write(pending, p[2], NewRecord(p[2]))
        /\ frame' = [frame EXCEPT ![c].todo = @ \ {p}]
    /\ Goto(c, "seePending")
    /\ UNCHANGED <<leased, completed, failed, uuids, holder, handed>>

Initialized(c) ==
    /\ pc[c] = "seePending" /\ frame[c].todo = {}
    /\ Goto(c, "flock")
    /\ UNCHANGED <<queue, uuids, frame, holder, handed>>

InitializeSkippingCompleted(c) ==                \* mutant: completed/ not looked at
    \/ Look(c, "seePending", pending, "seeLeased")
    \/ Look(c, "seeLeased", leased, "create")
    \/ Create(c)
    \/ Initialized(c)

Initialize(c) ==
    \/ Look(c, "seePending", pending, "seeLeased")
    \/ Look(c, "seeLeased", leased, "seeCompleted")
    \/ Look(c, "seeCompleted", completed, "create")
    \/ Create(c)
    \/ Initialized(c)

(* flock(LOCK_EX | LOCK_NB): the loser exits.                              *)
Flock(c) ==
    /\ pc[c] = "flock"
    /\ \/ holder = None /\ holder' = c /\ Goto(c, "idle")
       \/ holder # None /\ Goto(c, "off") /\ UNCHANGED holder
    /\ frame' = [frame EXCEPT ![c] = NoFrame]
    /\ UNCHANGED <<queue, uuids, handed>>

(* The process dies, or an exception ends it: the kernel drops the flock,  *)
(* the files stay as they are.                                             *)
Crash(c) ==
    /\ pc[c] # "off"
    /\ Goto(c, "off")
    /\ holder' = IF holder = c THEN None ELSE holder
    /\ frame' = [frame EXCEPT ![c] = NoFrame]
    /\ UNCHANGED <<queue, uuids, handed>>

-----------------------------------------------------------------------------
(* lease_next                                                              *)

NeverActive(n) == FALSE                          \* mutant: no active_node test
ActiveNode(n) == \E l \in Layers : Exists(leased, l) /\ leased[l].node = n

(* Layers this node prefers first, then unreserved ones, then those that   *)
(* prefer another node.                                                    *)
Rank(l, n) ==
    IF pending[l].preferred = n THEN 1
    ELSE IF pending[l].preferred = None THEN 2 ELSE 3

Candidates(n) == {<<Rank(l, n), l>> : l \in {m \in Layers : Exists(pending, m)}}

(* A node with an active lease gets none; the call changes nothing then.   *)
LeaseNext(c, n) ==
    /\ pc[c] = "idle" /\ uuids < MaxLeases
    /\ ~ActiveNode(n)
    /\ Goto(c, "leaseRead")
    /\ frame' = [frame EXCEPT ![c] =
                    [NoFrame EXCEPT !.node = n, !.todo = Candidates(n)]]
    /\ UNCHANGED <<queue, uuids, holder, handed>>

Stamped(r, n, id) ==
    [r EXCEPT !.id = id, !.node = n, !.last = n, !.attempts = @ + 1]

Claim(f, p, id) ==
    [f EXCEPT !.todo = @ \ {p}, !.layer = p[2], !.id = id,
              !.rec = Stamped(pending[p[2]], f.node, id)]

(* read(source); a missing file means the next candidate.                  *)
LeaseRead(c) ==
    /\ pc[c] = "leaseRead"
    /\ \E p \in frame[c].todo :
        /\ IsFirst(p, frame[c].todo)
        /\ IF Exists(pending, p[2])
           THEN /\ uuids' = uuids + 1
                /\ frame' = [frame EXCEPT ![c] = Claim(frame[c], p, uuids + 1)]
                /\ Goto(c, "leaseWrite")
           ELSE /\ frame' = [frame EXCEPT ![c].todo = @ \ {p}]
                /\ UNCHANGED <<pc, uuids>>
    /\ UNCHANGED <<queue, holder, handed>>

NothingToLease(c) ==
    /\ pc[c] = "leaseRead" /\ frame[c].todo = {}
    /\ Goto(c, "idle")
    /\ frame' = [frame EXCEPT ![c] = NoFrame]
    /\ UNCHANGED <<queue, uuids, holder, handed>>

(* atomic_json(source, value) writes the file whether or not it still      *)
(* exists.                                                                 *)
LeaseWrite(c) ==
    /\ pc[c] = "leaseWrite"
    /\ pending' = Write(pending, frame[c].layer, frame[c].rec)
    /\ Goto(c, "leaseRename")
    /\ UNCHANGED <<leased, completed, failed, uuids, frame, holder, handed>>

(* os.replace(source, target) moves whatever record the file holds now.    *)
LeaseRename(c) ==
    LET f == frame[c] IN
    /\ pc[c] = "leaseRename"
    /\ IF Exists(pending, f.layer)
       THEN /\ leased' = Write(leased, f.layer, pending[f.layer])
            /\ pending' = Remove(pending, f.layer)
            /\ handed' = handed \cup {[layer |-> f.layer, node |-> f.node, id |-> f.id]}
            /\ Goto(c, "idle")
            /\ frame' = [frame EXCEPT ![c] = NoFrame]
       ELSE /\ Goto(c, "leaseRead")
            /\ UNCHANGED <<pending, leased, handed, frame>>
    /\ UNCHANGED <<completed, failed, uuids, holder>>

-----------------------------------------------------------------------------
(* finish and requeue are called with a lease id; any other id than the    *)
(* one in the leased record raises and changes nothing.                    *)

LeasedAtAll(l, id) == Exists(leased, l)          \* mutant: lease id not compared
Names(l, id) == Exists(leased, l) /\ leased[l].id = id

Begin(c, l, id, rec, label) ==
    /\ Goto(c, label)
    /\ frame' = [frame EXCEPT ![c] =
                    [NoFrame EXCEPT !.layer = l, !.id = id, !.rec = rec]]
    /\ UNCHANGED <<queue, uuids, holder, handed>>

(* os.replace(leased, dir'): the last step of both calls.                  *)
Return(c) ==
    /\ Goto(c, "idle")
    /\ frame' = [frame EXCEPT ![c] = NoFrame]

GivenBack(l, id) == {h \in handed : ~(h.layer = l /\ h.id = id)}

Finish(c, l, id) ==
    /\ pc[c] = "idle"
    /\ Names(l, id)
    /\ Begin(c, l, id, [leased[l] EXCEPT !.result = id], "finishWrite")

FinishWrite(c) ==
    /\ pc[c] = "finishWrite"
    /\ leased' = Write(leased, frame[c].layer, frame[c].rec)
    /\ Goto(c, "finishRename")
    /\ UNCHANGED <<pending, completed, failed, uuids, frame, holder, handed>>

FinishRename(c) ==
    LET l == frame[c].layer IN
    /\ pc[c] = "finishRename"
    /\ IF Exists(leased, l)
       THEN /\ completed' = Write(completed, l, leased[l])
            /\ leased' = Remove(leased, l)
            /\ handed' = GivenBack(l, frame[c].id)
       ELSE UNCHANGED <<leased, completed, handed>>
    /\ Return(c)
    /\ UNCHANGED <<pending, failed, uuids, holder>>

Requeue(c, l, id) ==
    /\ pc[c] = "idle"
    /\ Names(l, id)
    /\ Begin(c, l, id, leased[l], "requeueReceipt")

RequeueReceipt(c) ==
    LET f == frame[c] IN
    /\ pc[c] = "requeueReceipt"
    /\ failed' = failed \cup
           {[layer |-> f.layer, attempt |-> f.rec.attempts, id |-> f.id]}
    /\ Goto(c, "requeueStrip")
    /\ UNCHANGED <<pending, leased, completed, uuids, frame, holder, handed>>

(* The record loses node and lease id while it still lies in leased/.      *)
Stripped(r) == [r EXCEPT !.id = 0, !.node = None]

RequeueStrip(c) ==
    LET f == frame[c] IN
    /\ pc[c] = "requeueStrip"
    /\ leased' = Write(leased, f.layer, Stripped(f.rec))
    /\ Goto(c, "requeueRename")
    /\ UNCHANGED <<pending, completed, failed, uuids, frame, holder, handed>>

RequeueRename(c) ==
    LET l == frame[c].layer IN
    /\ pc[c] = "requeueRename"
    /\ IF Exists(leased, l)
       THEN /\ pending' = Write(pending, l, leased[l])
            /\ leased' = Remove(leased, l)
            /\ handed' = GivenBack(l, frame[c].id)
       ELSE UNCHANGED <<pending, leased, handed>>
    /\ Return(c)
    /\ UNCHANGED <<completed, failed, uuids, holder>>

(* prefer_pending_node                                                     *)
PreferPendingNode(c, l, n) ==
    /\ pc[c] = "idle"
    /\ Exists(pending, l) /\ pending[l].preferred # n
    /\ Begin(c, l, 0, [pending[l] EXCEPT !.preferred = n], "preferWrite")

PreferWrite(c) ==
    /\ pc[c] = "preferWrite"
    /\ pending' = Write(pending, frame[c].layer, frame[c].rec)
    /\ Return(c)
    /\ UNCHANGED <<leased, completed, failed, uuids, holder, handed>>

-----------------------------------------------------------------------------
CallStep(c) ==
    \/ LeaseRead(c) \/ NothingToLease(c) \/ LeaseWrite(c) \/ LeaseRename(c)
    \/ FinishWrite(c) \/ FinishRename(c)
    \/ RequeueReceipt(c) \/ RequeueStrip(c) \/ RequeueRename(c)
    \/ PreferWrite(c)

Call(c) ==
    \/ \E n \in Nodes : LeaseNext(c, n)
    \/ \E l \in Layers, id \in 1..MaxLeases : Finish(c, l, id) \/ Requeue(c, l, id)
    \/ \E l \in Layers, n \in Nodes : PreferPendingNode(c, l, n)

Work(c) == Initialize(c) \/ Flock(c) \/ Crash(c) \/ Call(c) \/ CallStep(c)

(* The deployed discipline: resume_bulk.sh and restart_bulk_after_block.sh *)
(* start a manager only when its tmux session is gone.                     *)
StartAlone(c) == (\A d \in Coordinators : pc[d] = "off") /\ Start(c)

Next == \E c \in Coordinators : StartAlone(c) \/ Work(c)
Spec == Init /\ [][Next]_vars

-----------------------------------------------------------------------------
(* Properties                                                              *)

Frame == [layer: Layers \cup {0}, node: Node, rec: Record, id: LeaseId,
          todo: SUBSET ((0..3) \X Layers)]

(* The types of the files, of the coordinators' calls and of the lock; a   *)
(* call in progress has its layer, a lease_next its node.                  *)
TypeOK ==
    /\ pending   \in [Layers -> Record \cup {NoFile}]
    /\ leased    \in [Layers -> Record \cup {NoFile}]
    /\ completed \in [Layers -> Record \cup {NoFile}]
    /\ failed \subseteq Receipt
    /\ uuids \in Nat
    /\ pc \in [Coordinators -> Labels]
    /\ frame \in [Coordinators -> Frame]
    /\ holder \in Coordinators \cup {None}
    /\ handed \subseteq Lease
    /\ \A c \in Coordinators :
        /\ pc[c] \in OnLayer => frame[c].layer \in Layers
        /\ pc[c] \in Leasing => frame[c].node \in Nodes

Somewhere(l) == Exists(pending, l) \/ Exists(leased, l) \/ Exists(completed, l)

AtMostOnePlace(l) ==
    /\ ~(Exists(pending, l) /\ Exists(leased, l))
    /\ ~(Exists(pending, l) /\ Exists(completed, l))
    /\ ~(Exists(leased, l) /\ Exists(completed, l))

(* A layer's record is in at most one of pending/, leased/ and completed/, *)
(* and in exactly one as long as a manager holds the flock: what           *)
(* reconcile_bulk.py tests before it lets a run be resumed.  Every rename, *)
(* and every write that may recreate a file, could break it.               *)
OnePlace ==
    /\ \A l \in Layers : AtMostOnePlace(l)
    /\ holder # None => \A l \in Layers : Somewhere(l)

(* No two leased records name the same node, in spite of a coordinator     *)
(* that died between stamping a pending record and moving it: active_node  *)
(* reads only leased/.                                                     *)
OneLeasePerNode ==
    \A l, m \in Layers :
        (/\ Exists(leased, l) /\ Exists(leased, m)
         /\ leased[l].node = leased[m].node /\ leased[l].node # None) => l = m

(* lease_next never hands one layer to two callers at the same time.       *)
NoDuplicateLease == \A g, h \in handed : g.layer = h.layer => g = h

(* A lease that was handed out and not given back is the one in leased/,   *)
(* unless a requeue has just taken its name off the record.                *)
HandedIsDurable ==
    \A h \in handed :
        /\ Exists(leased, h.layer)
        /\ leased[h.layer].id \in {h.id, 0}

(* A layer is completed only by a result of the lease its record names: a  *)
(* stale result never completes a newer lease                              *)
(* (test_stale_receipt_cannot_complete_new_lease).                         *)
CompletedByItsLease ==
    \A l \in Layers : Exists(completed, l) =>
        completed[l].id # 0 /\ completed[l].result = completed[l].id

(* A completed record never changes or moves again.                        *)
CompletedIsFinal ==
    [][\A l \in Layers : Exists(completed, l) => completed'[l] = completed[l]]_vars

(* A reader of the directories sees the queue that LayerLease promises.    *)
Status(l) ==
    [state |-> IF Exists(completed, l) THEN "completed"
               ELSE IF Exists(leased, l) THEN "leased"
               ELSE IF Exists(pending, l) THEN "pending" ELSE "absent",
     node  |-> IF Exists(leased, l) /\ ~Exists(completed, l)
               THEN leased[l].node ELSE None]

StatusMap == [l \in Layers |-> Status(l)]

Abstract == INSTANCE LayerLease WITH status <- StatusMap

ImplementsLayerLease == Abstract!Spec
=============================================================================

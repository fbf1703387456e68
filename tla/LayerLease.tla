------------------------------ MODULE LayerLease ------------------------------
(***************************************************************************)
(* What the durable queue of layer leases promises its callers.  A layer   *)
(* is not yet queued, pending, leased to one node, or completed.  A node   *)
(* never holds two leases, a completed layer never changes again, and      *)
(* giving a lease back takes two steps: the record first loses the lease   *)
(* it names (Disown), then returns to pending (Return).                    *)
(* LeaseQueue, which models tp3k3/lease_queue.py write by write, refines   *)
(* this specification.                                                     *)
(***************************************************************************)
CONSTANTS Layers, Nodes,
          None             \* no node

VARIABLE status      \* what a reader of the queue sees of each layer

Absent    == [state |-> "absent",    node |-> None]
Pending   == [state |-> "pending",   node |-> None]
Completed == [state |-> "completed", node |-> None]
LeasedTo(n) == [state |-> "leased", node |-> n]

Init == status = [l \in Layers |-> Absent]

Add(l) ==
    /\ status[l] = Absent
    /\ status' = [status EXCEPT ![l] = Pending]

Grant(l, n) ==
    /\ status[l] = Pending
    /\ \A m \in Layers : status[m] # LeasedTo(n)
    /\ status' = [status EXCEPT ![l] = LeasedTo(n)]

Complete(l) ==
    /\ \E n \in Nodes : status[l] = LeasedTo(n)
    /\ status' = [status EXCEPT ![l] = Completed]

Disown(l) ==
    /\ \E n \in Nodes : status[l] = LeasedTo(n)
    /\ status' = [status EXCEPT ![l] = LeasedTo(None)]

Return(l) ==
    /\ status[l] = LeasedTo(None)
    /\ status' = [status EXCEPT ![l] = Pending]

Next == \E l \in Layers : 
    \/ Add(l) \/ Complete(l) \/ Disown(l) \/ Return(l)
    \/ \E n \in Nodes : Grant(l, n)

Spec == Init /\ [][Next]_status
=============================================================================

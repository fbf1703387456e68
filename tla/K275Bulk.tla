------------------------------- MODULE K275Bulk -------------------------------
(***************************************************************************)
(* The bulk K2 encode of the 2.75bpw candidate: k275_bulk_manager.py, one  *)
(* k275_bulk_worker.sh per node in a tmux session of the control host, the *)
(* encoders those start on the Sparks (run_encoder.sh), and the operator   *)
(* who starts the manager again (start_k275_bulk.sh).  It uses the queue   *)
(* of LeaseQueue, whose calls are atomic here.  Unlike the K3 manager it   *)
(* has no guard, never starts a lost worker again, and requeues a failed   *)
(* lease while its encoder may still run.                                  *)
(*                                                                         *)
(* A lease is a layer and an attempt.  "mutant" marks a plausible bug.     *)
(***************************************************************************)
EXTENDS Naturals, FiniteSets

CONSTANTS
  LastLayer,      \* ROUTED_LAYERS are 1..LastLayer
  Nodes,          \* NODES, numbers
  None,
  GiveUp,         \* attempts after which a failure blocks the run (3)
  MaxAttempts,    \* bound: leases of a layer
  MaxFaults       \* bound: faults of any kind

ASSUME K275Assumption ==
  /\ LastLayer \in Nat \ {0} /\ Nodes \subseteq Nat /\ None \notin Nodes
  /\ GiveUp \in Nat \ {0} /\ MaxAttempts \in Nat \ {0} /\ MaxFaults \in Nat

Layers == 1 .. LastLayer
Attempts == 1 .. MaxAttempts
Leases == Layers \X Attempts

VARIABLES
  queue,      \* layer -> its record in pending/, leased/ or completed/
  late,       \* layers whose lease is older than the lease timeout
  results,    \* lease -> what results/ has of it
  exits,      \* lease -> exit-code.txt on its node
  encoded,       \* node -> layer -> the encoded K2 subset
  published,  \* layer -> the published directory
  nested,     \* layers whose publication was moved into an existing directory
  workers,    \* node -> the worker in its session on the control host
  jobs,       \* remote sessions and containers
  place, left, lease,   \* the manager
  event,      \* a line of the kernel logs since bulk-window-start.txt that the audit counts
  faults

manager == <<place, left, lease>>
files == <<results, published, nested>>
remote == <<exits, encoded, jobs>>
outside == <<event, faults>>
k275vars == <<queue, late, files, remote, workers, manager, event, faults>>

\* "half": the result of a reused publication is written in place.
Results == {"none", "half", "failed", "passed"}
Record == [state : {"pending", "leased", "completed"}, node : Nodes \cup {None},
           attempt : 0 .. MaxAttempts]
WorkerSteps == {"begin", "reuse", "reused", "wait", "publish", "result", "trap"}
Worker == [layer : Layers, attempt : Attempts, at : WorkerSteps]
\* starting: the remote session alone; encoding: with its container; stopped: the
\* container is over; detached: the container outlives its session.
Job == [node : Nodes, layer : Layers, attempt : Attempts,
        phase : {"starting", "encoding", "stopped", "detached"}]
Loop == {"top", "scan", "kill", "killBlock", "audit", "grant", "launch", "count"}
Blocking == {"stopContainers", "stopSessions", "stopWorker", "requeue"}

K275TypeOK ==
  /\ queue \in [Layers -> Record] /\ late \subseteq Layers
  /\ results \in [Leases -> Results] /\ exits \in [Leases -> {"none", "ok", "fail"}]
  /\ encoded \in [Nodes -> [Layers -> {"none", "partial", "complete"}]]
  /\ published \in [Layers -> {"none", "good", "rotten"}] /\ nested \subseteq Layers
  /\ workers \in [Nodes -> Worker \cup {None}] /\ jobs \subseteq Job
  /\ place \in {"down", "blocked", "complete"} \cup Loop \cup Blocking
  /\ left \subseteq Layers \cup Nodes /\ lease \in {0} \cup Layers
  /\ event \in BOOLEAN /\ faults \in 0 .. MaxFaults
  /\ \A l, m \in Layers :          \* a node holds one lease
       queue[l].state = "leased" /\ queue[m].state = "leased" /\ queue[l].node = queue[m].node
         => l = m

K275Init ==
  /\ queue = [l \in Layers |-> [state |-> "pending", node |-> None, attempt |-> 0]]
  /\ late = {} /\ results = [i \in Leases |-> "none"] /\ exits = [i \in Leases |-> "none"]
  /\ encoded = [n \in Nodes |-> [l \in Layers |-> "none"]]
  /\ published = [l \in Layers |-> "none"] /\ nested = {}
  /\ workers = [n \in Nodes |-> None] /\ jobs = {}
  /\ place = "down" /\ left = {} /\ lease = 0 /\ event = FALSE /\ faults = 0

Fault == faults < MaxFaults /\ faults' = faults + 1
In(state) == {l \in Layers : queue[l].state = state}
LeaseOf(l) == <<l, queue[l].attempt>>
Least(x, S) == x \in S /\ \A y \in S : x <= y

-----------------------------------------------------------------------------
(* The worker (k275_bulk_worker.sh) *)

Move(n, label) == workers' = [workers EXCEPT ![n].at = label]
Leave(n) == workers' = [workers EXCEPT ![n] = None]
WriteResult(w, value) == results' = [results EXCEPT ![<<w.layer, w.attempt>>] = value]

\* A publication whose checksums hold is reused; any other is passed over, and the
\* encoder is started in a session named for the lease: one of an older lease is not
\* seen, and the looks for an exit file and a session of this one (:131, :133) find
\* nothing, since no worker is started twice for a lease.
Begin(n, w) ==
  /\ w.at = "begin"
  /\ IF published[w.layer] = "good" THEN Move(n, "reuse") /\ UNCHANGED jobs
     ELSE /\ Move(n, "wait")
          /\ jobs' = jobs \cup {[node |-> n, layer |-> w.layer, attempt |-> w.attempt,
                                 phase |-> "starting"]}
  /\ UNCHANGED <<queue, late, files, exits, encoded, manager, outside>>

\* Its result is written straight into the file: it exists before it is whole.
Reuse(n, w) ==
  /\ \/ w.at = "reuse" /\ WriteResult(w, "half") /\ Move(n, "reused")
     \/ w.at = "reused" /\ WriteResult(w, "passed") /\ Leave(n)
  /\ UNCHANGED <<queue, late, published, nested, remote, manager, outside>>

\* The exit code, then verify_k275_subset.py on the node.
Wait(n, w) ==
  LET code == exits[<<w.layer, w.attempt>>] IN
  /\ w.at = "wait" /\ code # "none"
  /\ Move(n, IF code = "ok" /\ encoded[n][w.layer] = "complete" THEN "publish" ELSE "trap")
  /\ UNCHANGED <<queue, late, files, remote, manager, outside>>

\* `mv incoming target`: into the target, when one is there.
Publish(n, w) ==
  /\ w.at = "publish" /\ Move(n, "result")
  /\ IF published[w.layer] = "none"
     THEN published' = [published EXCEPT ![w.layer] = "good"] /\ UNCHANGED nested
     ELSE nested' = nested \cup {w.layer} /\ UNCHANGED published
  /\ UNCHANGED <<queue, late, results, remote, manager, outside>>

Report(n, w) ==
  /\ w.at = "result" /\ WriteResult(w, "passed") /\ Leave(n)
  /\ UNCHANGED <<queue, late, published, nested, remote, manager, outside>>

\* failure(): a failed result, unless the file exists, whole or not.
TrapWrites(w) ==
  IF results[<<w.layer, w.attempt>>] = "none" THEN WriteResult(w, "failed")
  ELSE UNCHANGED results
Trap(n, w) ==
  /\ w.at = "trap" /\ TrapWrites(w) /\ Leave(n)
  /\ UNCHANGED <<queue, late, published, nested, remote, manager, outside>>

WorkerStep(n) ==
  LET w == workers[n] IN
  /\ w # None
  /\ \/ Begin(n, w) \/ Reuse(n, w) \/ Wait(n, w) \/ Publish(n, w)
     \/ Report(n, w) \/ Trap(n, w)

\* ssh, rsync or a checksum fails.
WorkerFails(n) ==
  /\ workers[n] # None /\ workers[n].at # "trap" /\ Fault /\ Move(n, "trap")
  /\ UNCHANGED <<queue, late, files, remote, manager, event>>

-----------------------------------------------------------------------------
(* The Sparks (run_encoder.sh, encoder.py with bits = 2) *)

Session(j) == j.phase \in {"starting", "encoding", "stopped"}
Container(j) == j.phase \in {"encoding", "detached"}
Become(j, phase) == jobs' = (jobs \ {j}) \cup {[j EXCEPT !.phase = phase]}
Over(j, code) == /\ jobs' = jobs \ {j}
                 /\ exits' = IF Session(j) THEN [exits EXCEPT ![<<j.layer, j.attempt>>] = code]
                             ELSE exits

\* A container is named after its layer: docker refuses a second one.
StartContainer(j) ==
  /\ j.phase = "starting"
  /\ IF \E k \in jobs : k.node = j.node /\ k.layer = j.layer /\ Container(k)
     THEN Over(j, "fail")
     ELSE Become(j, "encoding") /\ UNCHANGED exits
  /\ UNCHANGED encoded

EncodeSubset(j) ==
  /\ Container(j) /\ encoded[j.node][j.layer] # "complete"
  /\ encoded' = [encoded EXCEPT ![j.node][j.layer] = IF @ = "none" THEN "partial" ELSE "complete"]
  /\ UNCHANGED <<jobs, exits>>

EncoderEnds(j) ==
  /\ \/ Container(j) /\ encoded[j.node][j.layer] = "complete" /\ Over(j, "ok")
     \/ j.phase = "stopped" /\ Over(j, "fail")
  /\ UNCHANGED encoded

JobStep(j) == /\ StartContainer(j) \/ EncodeSubset(j) \/ EncoderEnds(j)
              /\ UNCHANGED <<queue, late, files, workers, manager, outside>>
NodeStep(n) == \E j \in jobs : j.node = n /\ JobStep(j)

EncoderFails(j) ==
  /\ j.phase # "stopped" /\ Fault /\ Over(j, "fail")
  /\ UNCHANGED <<queue, late, files, encoded, workers, manager, event>>

\* A published shard rots: the layer's ledger no longer holds.
PublishedRots(l) ==
  /\ published[l] = "good" /\ Fault /\ published' = [published EXCEPT ![l] = "rotten"]
  /\ UNCHANGED <<queue, late, results, nested, remote, workers, manager, event>>

-----------------------------------------------------------------------------
(* The manager (k275_bulk_manager.py) *)

Goto(label, S) == place' = label /\ left' = S /\ lease' = 0
At(label, l) == place' = label /\ lease' = l /\ UNCHANGED left
Requeue(S) == queue' = [l \in Layers |-> IF l \in S THEN [queue[l] EXCEPT !.state = "pending"]
                                         ELSE queue[l]] /\ late' = late \ S
Finish(l) == queue' = [queue EXCEPT ![l].state = "completed"] /\ late' = late \ {l}

\* tmux kill-session hangs the worker up; its trap runs on, outside the session.
\* The trap is folded into the kill: what it may write is the same later.
KillWorker(n) ==
  IF workers[n] = None THEN UNCHANGED <<workers, results>>
  ELSE Leave(n) /\ TrapWrites(workers[n])

\* block() begins with stop_workers, node by node.
RequeueFirst == Goto("requeue", Layers)      \* mutant: the workers are not stopped
Block == Goto("stopContainers", Nodes)

\* The protected services are checked at the top of every turn; Ctrl-C blocks too.
Top ==
  /\ place = "top"
  /\ \/ Goto("scan", In("leased")) /\ UNCHANGED faults
     \/ Fault /\ Block
  /\ UNCHANGED <<queue, late, files, remote, workers, event>>

\* validate_published reads two JSON files, none of the shards.
Validated(l) == published[l] # "none"
NeverLate(l) == FALSE                        \* mutant: no lease timeout
Late(l) == l \in late
Scan(l) ==
  /\ place = "scan" /\ Least(l, left)
  /\ LET result == results[LeaseOf(l)] IN
     \/ /\ result = "passed" /\ Validated(l) /\ Finish(l)
        /\ place' = "kill" /\ lease' = l /\ UNCHANGED left
     \/ result = "passed" /\ ~Validated(l) /\ Block /\ UNCHANGED <<queue, late>>
     \/ /\ result = "failed" /\ Requeue({l})
        /\ At(IF queue[l].attempt >= GiveUp THEN "killBlock" ELSE "kill", l)
     \/ result = "half" /\ Goto("down", {}) /\ UNCHANGED <<queue, late>>   \* JSONDecodeError
     \/ result = "none" /\ Late(l) /\ Block /\ UNCHANGED <<queue, late>>
     \/ result = "none" /\ ~Late(l) /\ Goto("scan", left \ {l}) /\ UNCHANGED <<queue, late>>
  /\ UNCHANGED <<files, remote, workers, outside>>

KillSession ==
  /\ place \in {"kill", "killBlock"} /\ KillWorker(queue[lease].node)
  /\ IF place = "kill" THEN Goto("scan", left \ {lease}) ELSE Block
  /\ UNCHANGED <<queue, late, published, nested, remote, outside>>

\* strict_audit reads the logs since the window began: one event fails it in every
\* manager to come.  (Due at once and then every minute; an event is said to happen when
\* the next audit will see it.)  Or a Spark does not answer.
Audit ==
  /\ place = "scan" /\ left = {}
  /\ \/ ~event /\ Goto("grant", Nodes) /\ UNCHANGED faults
     \/ event /\ Block /\ UNCHANGED faults
     \/ Fault /\ Block
  /\ UNCHANGED <<queue, late, files, remote, workers, event>>

Active(n) == \E l \in In("leased") : queue[l].node = n
Grantable == {l \in In("pending") : queue[l].attempt < MaxAttempts}
\* lease_next, then selection_for and the worker's session.
Grant(n) ==
  /\ place = "grant" /\ Least(n, left)
  /\ \/ /\ ~Active(n)
        /\ \E l \in Layers :
             /\ Least(l, Grantable) /\ At("launch", l) /\ UNCHANGED late
             /\ queue' = [queue EXCEPT ![l] = [state |-> "leased", node |-> n,
                                               attempt |-> @.attempt + 1]]
     \/ /\ Active(n) \/ Grantable = {}
        /\ Goto("grant", left \ {n}) /\ UNCHANGED <<queue, late>>
  /\ UNCHANGED <<files, remote, workers, outside>>

\* tmux refuses a session name that exists, and the manager ends with it.
Launch ==
  /\ place = "launch"
  /\ LET n == queue[lease].node IN
     IF workers[n] = None
     THEN /\ workers' = [workers EXCEPT ![n] = [layer |-> lease, attempt |-> queue[lease].attempt,
                                                at |-> "begin"]]
          /\ Goto("grant", left \ {n})
     ELSE Goto("down", {}) /\ UNCHANGED workers
  /\ UNCHANGED <<queue, late, files, remote, outside>>

Count ==
  /\ place = "grant" /\ left = {}
  /\ Goto(IF In("completed") = Layers THEN "complete" ELSE "top", {})
  /\ UNCHANGED <<queue, late, files, remote, workers, outside>>

\* block(): for each node its containers, its remote sessions, its local worker ...
StopContainers(n) ==
  /\ place = "stopContainers" /\ Least(n, left) /\ place' = "stopSessions" /\ UNCHANGED <<left, lease>>
  /\ jobs' = {j \in jobs : j.node # n \/ ~Container(j)} \cup
             {[j EXCEPT !.phase = "stopped"] : j \in {k \in jobs : k.node = n /\ k.phase = "encoding"}}
  /\ UNCHANGED <<queue, late, files, exits, encoded, workers, outside>>

StopSessions(n) ==
  /\ place = "stopSessions" /\ Least(n, left) /\ place' = "stopWorker" /\ UNCHANGED <<left, lease>>
  /\ jobs' = {j \in jobs : j.node # n \/ ~Session(j)} \cup
             {[j EXCEPT !.phase = "detached"] : j \in {k \in jobs : k.node = n /\ k.phase = "encoding"}}
  /\ UNCHANGED <<queue, late, files, exits, encoded, workers, outside>>

StopWorker(n) ==
  /\ place = "stopWorker" /\ Least(n, left) /\ KillWorker(n)
  /\ IF left = {n} THEN Goto("requeue", Layers) ELSE Goto("stopContainers", left \ {n})
  /\ UNCHANGED <<queue, late, published, nested, remote, outside>>

\* ... then every lease.
RequeueLease ==
  /\ place = "requeue"
  /\ \/ \E l \in In("leased") : Least(l, In("leased")) /\ Requeue({l}) /\ UNCHANGED manager
     \/ In("leased") = {} /\ Goto("blocked", {}) /\ UNCHANGED <<queue, late>>
  /\ UNCHANGED <<files, remote, workers, outside>>

ManagerStep ==
  \/ Top \/ KillSession \/ Audit \/ Launch \/ Count \/ RequeueLease
  \/ \E l \in Layers : Scan(l)
  \/ \E n \in Nodes : Grant(n) \/ StopContainers(n) \/ StopSessions(n) \/ StopWorker(n)

Running == place \in Loop \cup Blocking
\* An exception the loop does not catch (an ssh that fails, a selection it refuses).
ManagerDies ==
  /\ Running /\ Fault /\ Goto("down", {})
  /\ UNCHANGED <<queue, late, files, remote, workers, event>>

\* The control host goes down: workers end without their traps.
HostReboots ==
  /\ place # "complete" /\ Fault /\ Goto("down", {}) /\ workers' = [n \in Nodes |-> None]
  /\ UNCHANGED <<queue, late, files, remote, event>>

\* A line of the kernel logs that kernel_audit.py counts.
KernelEvent ==
  /\ Fault /\ event' = TRUE
  /\ UNCHANGED <<queue, late, files, remote, workers, manager>>

\* start_k275_bulk.sh, with the protected services stopped.  It writes
\* bulk-window-start.txt only when there is none.
Resume ==
  /\ place \in {"down", "blocked"} /\ Goto("top", {})
  /\ UNCHANGED <<queue, late, files, remote, workers, outside>>

\* A lease grows old once nothing works on it, or (a fault) before.
Waits(w, l) ==
  /\ w.layer = l /\ w.at = "wait" /\ exits[LeaseOf(l)] = "none"
  /\ ~\E j \in jobs : <<j.layer, j.attempt>> = LeaseOf(l) /\ Session(j)
IdleLease(l) == LET w == workers[queue[l].node] IN
  IF w = None THEN lease # l ELSE w.layer # l \/ Waits(w, l)
Expires(l) ==
  /\ l \in In("leased") \ late /\ results[LeaseOf(l)] = "none" /\ late' = late \cup {l}
  /\ UNCHANGED <<queue, files, remote, workers, manager>>
IdleExpires(l) == l \in In("leased") /\ IdleLease(l) /\ Expires(l) /\ UNCHANGED outside
SlowExpires(l) == Expires(l) /\ Fault /\ UNCHANGED event

K275Next ==
  \/ ManagerStep \/ ManagerDies \/ HostReboots \/ KernelEvent \/ Resume
  \/ \E n \in Nodes : WorkerStep(n) \/ WorkerFails(n) \/ NodeStep(n)
  \/ \E j \in jobs : EncoderFails(j)
  \/ \E l \in Layers : PublishedRots(l) \/ IdleExpires(l) \/ SlowExpires(l)

K275Spec == K275Init /\ [][K275Next]_k275vars
\* The operator starts the manager again whenever it is over.
K275FairSpec ==
  /\ K275Spec /\ WF_k275vars(ManagerStep) /\ WF_k275vars(Resume)
  /\ \A n \in Nodes : WF_k275vars(WorkerStep(n)) /\ WF_k275vars(NodeStep(n))
  /\ \A l \in Layers : WF_k275vars(IdleExpires(l))

-----------------------------------------------------------------------------
(* Properties *)

\* A worker before its result works for the lease the queue holds on its node, over
\* blocks, deaths of the manager and resumptions: nobody else publishes its layer
\* meanwhile (stop_workers before requeue, k275_bulk_manager.py:190-193).
WorkersHoldLeases ==
  \A n \in Nodes : workers[n] # None /\ workers[n].at \notin {"trap", "result"} =>
    LET l == workers[n].layer IN
    queue[l].state = "leased" /\ queue[l].node = n /\ queue[l].attempt = workers[n].attempt

\* What no resumption mends: an event in the window, which fails every later audit, or a
\* result whose worker ended while it wrote it in place, of which every manager dies.
OfLease(w, l) == w # None /\ w.layer = l /\ w.attempt = queue[l].attempt
StuckForGood ==
  \/ event
  \/ \E l \in In("leased") :
       results[LeaseOf(l)] = "half" /\ ~OfLease(workers[queue[l].node], l)

\* The run is "crash-resumable" (k275_bulk_manager.py:2): with an operator who starts
\* the manager again and finitely many faults it completes, unless a layer used up its
\* attempts or the run is stuck for good.
RunCompletesUnlessStuck ==
  \/ <>(place = "complete" \/ \E l \in Layers : queue[l].attempt = MaxAttempts)
  \/ <>[]StuckForGood
==============================================================================

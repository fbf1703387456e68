------------------------------ MODULE BulkEncode ------------------------------
(***************************************************************************)
(* The bulk K3 encode: the control host's manager under its guard          *)
(* (bulk_lease_manager.py, run_bulk_manager_guarded.sh), one worker script *)
(* per Spark (bulk_lease_worker.sh), the encoders they start on the Sparks *)
(* (run_encoder.sh), and the two ways an operator brings a stopped run     *)
(* back (resume_bulk.sh; restart_bulk_after_block.sh, reconcile_bulk.py).  *)
(*                                                                         *)
(* Library calls on the queue are atomic here; LeaseQueue models them file *)
(* by file.  A lease is named by its layer and attempt number, where the   *)
(* code draws a uuid and counts the attempt in the same write.  The files  *)
(* of a layer under encoding are abstracted to what LayerEncoder leaves on *)
(* disk: nothing, a torn shard, paired receipts, a sealed layer.           *)
(***************************************************************************)
EXTENDS Integers, FiniteSets

CONSTANTS Layers,       \* ROUTED_LAYERS, numbers
          Nodes,        \* NODES, numbers: mj-spark-1, mj-spark-2, ...
          None,
          MaxAttempts,  \* bound: leases per layer
          MaxFaults     \* bound: faults of any kind, summed

ASSUME LayersAreNumbers == Layers \subseteq Nat \ {0}
ASSUME NodesAreNumbers == Nodes \subseteq Nat \ {0}
ASSUME NoneIsNobody == None \notin Nodes
ASSUME BoundsAreNumbers == MaxAttempts \in Nat /\ MaxFaults \in Nat

VARIABLES queue,      \* layer -> its record
          expired,    \* layers whose lease is older than lease_timeout
          results,    \* results/: lease -> worker result
          exits,      \* exit-code.txt on the node of a lease
          disk,       \* node -> layer -> the encoded layer's directory
          published,  \* publish root: layer -> the attempt that published it
          workers,    \* node -> worker in the node's local tmux session
          traps,      \* workers whose session was killed, trap yet to run
          jobs,       \* remote tmux sessions and containers of run_encoder.sh
          at,         \* control host: the next step,
          todo, stops,  \* the layers or nodes, and the stops, still to do,
          lease,      \* the layer whose lease is being launched
          obstacles,  \* "event": in the kernel logs since bulk-window-start.txt;
                      \* "service": a protected service runs on some Spark
          faults

control == <<at, todo, stops, lease>>
host    == <<workers, traps>>
files   == <<results, published>>
remote  == <<exits, disk, jobs>>
outside == <<obstacles, faults>>
vars    == <<queue, expired, results, exits, disk, published, workers, traps,
             jobs, at, todo, stops, lease, obstacles, faults>>

-----------------------------------------------------------------------------
Attempts == 1..MaxAttempts
Leases   == Layers \X Attempts
Published == 0..MaxAttempts              \* 0: no such directory

(* A passing result carries the digests of the publication it describes.   *)
Result == [passed: BOOLEAN, of: Published]
Failed == [passed |-> FALSE, of |-> 0]

WorkerSteps == {"begin", "start", "session", "launch", "wait", "verify", "publish", "result"}
TrapSteps == {"trap", "trapWrite"}
Worker == [layer: Layers, attempt: Attempts, at: WorkerSteps \cup TrapSteps \cup {"clean"}]
Trap   == [layer: Layers, attempt: Attempts, at: TrapSteps]

ASSUME NoneIsNoRecord == None \notin Result \cup Worker

(* session: the remote tmux session runs run_encoder.sh; container: the    *)
(* encoder itself, a detached container that outlives its session.         *)
Job == [node: Nodes, layer: Layers, attempt: Attempts, session: BOOLEAN,
        container: {"none", "running", "stopped"}]

Record == [state: {"pending", "leased", "completed"}, node: Nodes \cup {None},
           attempt: Published, preferred: Nodes \cup {None}]

ManagerLoop  == {"top", "scan", "scanLaunch", "audit", "grant", "grantLaunch"}
ManagerBlock == {"kill", "stop", "requeue", "blocked"}
Guard    == {"guardKill", "guardStop"}
Recovery == {"restartKill", "restartStop", "services", "repair", "check"}
Obstacles == {"event", "service"}
ControlSteps == {"off", "complete"} \cup ManagerLoop \cup ManagerBlock \cup Guard \cup Recovery

Stops == Nodes \X {1, 2}                 \* 1: containers, then 2: sessions

(* initialize: layer 3 prefers mj-spark-3, which measured it.              *)
Preferred(l) == IF l = 3 /\ 3 \in Nodes THEN 3 ELSE None

Init ==
    /\ queue = [l \in Layers |-> [state |-> "pending", node |-> None,
                                  attempt |-> 0, preferred |-> Preferred(l)]]
    /\ expired = {}
    /\ results = [i \in Leases |-> None]
    /\ exits = [i \in Leases |-> "none"]
    /\ disk = [n \in Nodes |-> [l \in Layers |-> "none"]]
    /\ published = [l \in Layers |-> 0]
    /\ workers = [n \in Nodes |-> None]
    /\ traps = {} /\ jobs = {}
    /\ at = "off" /\ todo = {} /\ stops = {} /\ lease = 0
    /\ obstacles = {} /\ faults = 0

(* As in the other modules, "mutant" marks a plausible bug that a property *)
(* would notice; no specification uses it.                                 *)

Fault == faults < MaxFaults /\ faults' = faults + 1

-----------------------------------------------------------------------------
(* The queue (lease_queue.py)                                              *)

Leased    == {l \in Layers : queue[l].state = "leased"}
Pending   == {l \in Layers : queue[l].state = "pending"}
Completed == {l \in Layers : queue[l].state = "completed"}
LeaseOf(l) == <<l, queue[l].attempt>>

ActiveNode(n) == \E l \in Leased : queue[l].node = n

Rank(l, n) == IF queue[l].preferred = n THEN 1
              ELSE IF queue[l].preferred = None THEN 2 ELSE 3

Before(l, m, n) ==
    Rank(l, n) < Rank(m, n) \/ (Rank(l, n) = Rank(m, n) /\ l <= m)

(* The first candidate of lease_next(n); MaxAttempts bounds the leases.    *)
Grantable == {l \in Pending : queue[l].attempt < MaxAttempts}
Candidate(l, n) == l \in Grantable /\ \A m \in Grantable : Before(l, m, n)

LeaseNext(l, n) ==
    queue' = [queue EXCEPT ![l].state = "leased", ![l].node = n,
                           ![l].attempt = @ + 1]

(* requeue leaves the node in the history: it stays the last lease's node. *)
Requeued(S) == [l \in Layers |->
    IF l \in S THEN [queue[l] EXCEPT !.state = "pending"] ELSE queue[l]]

RequeueAll(S) == queue' = Requeued(S) /\ expired' = expired \ S

Finish(l) ==
    /\ queue' = [queue EXCEPT ![l].state = "completed"]
    /\ expired' = expired \ {l}

Passing(r) == r # None /\ r.passed

(* validate_published_result, publication_check: the published files are   *)
(* the ones the result's digests name.                                     *)
ResultExists(l) == results[LeaseOf(l)] # None     \* mutant: not validated
ValidResult(l) ==
    LET r == results[LeaseOf(l)] IN
    Passing(r) /\ published[l] # 0 /\ published[l] = r.of

-----------------------------------------------------------------------------
(* Killing and stopping                                                    *)

(* tmux kill-session sends HUP: a worker that is not yet in its trap will  *)
(* run it, one that is (traps are reset there) dies.                       *)
Orphans(S) == {[layer |-> workers[n].layer, attempt |-> workers[n].attempt, at |-> "trap"] :
                  n \in {m \in S : workers[m] # None /\ workers[m].at \notin TrapSteps}}

KillNothing(S) == UNCHANGED host                  \* mutant: wrong session name
KillSessions(S) ==
    /\ workers' = [n \in Nodes |-> IF n \in S THEN None ELSE workers[n]]
    /\ traps' = traps \cup Orphans(S)

(* docker stop of every encoder container docker ps shows on the node.     *)
StopContainers(n) ==
    jobs' = {j \in jobs : j.node # n \/ j.container # "running"} \cup
            {[j EXCEPT !.container = "stopped"] :
                j \in {k \in jobs : k.node = n /\ k.container = "running" /\ k.session}}

(* tmux kill-session of the run's remote sessions: run_encoder.sh dies,    *)
(* a running container does not.                                           *)
StopSessions(n) ==
    jobs' = {j \in jobs : j.node # n \/ ~j.session} \cup
            {[j EXCEPT !.session = FALSE] :
                j \in {k \in jobs : k.node = n /\ k.session /\ k.container = "running"}}

StopNode(p) == IF p[2] = 1 THEN StopContainers(p[1]) ELSE StopSessions(p[1])

-----------------------------------------------------------------------------
(* The worker (bulk_lease_worker.sh) of the lease in node n's session      *)

Step(n, label) == workers' = [workers EXCEPT ![n].at = label]

(* test ! -e result; a failing test ends in the trap.                      *)
WorkerBegin(n) ==
    LET w == workers[n] IN
    /\ w.at = "begin"
    /\ Step(n, IF results[<<w.layer, w.attempt>>] = None THEN "start" ELSE "trap")
    /\ UNCHANGED <<queue, expired, files, remote, traps, control, outside>>

(* Three ssh calls, so that the encoder may end between them: without an   *)
(* exit code of this lease the worker looks for its session, and without a *)
(* session it starts one.                                                  *)
WorkerStart(n) ==
    LET w == workers[n] IN
    /\ w.at = "start"
    /\ Step(n, IF exits[<<w.layer, w.attempt>>] = "none" THEN "session" ELSE "wait")
    /\ UNCHANGED <<queue, expired, files, remote, traps, control, outside>>

SessionOf(w, n) ==
    \E j \in jobs : j.node = n /\ j.layer = w.layer /\ j.attempt = w.attempt /\ j.session

WorkerSession(n) ==
    LET w == workers[n] IN
    /\ w.at = "session"
    /\ Step(n, IF SessionOf(w, n) THEN "wait" ELSE "launch")
    /\ UNCHANGED <<queue, expired, files, remote, traps, control, outside>>

(* tmux refuses a second session of one name.                              *)
WorkerLaunch(n) ==
    LET w == workers[n] IN
    /\ w.at = "launch"
    /\ IF SessionOf(w, n)
       THEN Step(n, "trap") /\ UNCHANGED jobs
       ELSE /\ jobs' = jobs \cup {[node |-> n, layer |-> w.layer, attempt |-> w.attempt,
                                   session |-> TRUE, container |-> "none"]}
            /\ Step(n, "wait")
    /\ UNCHANGED <<queue, expired, files, exits, disk, traps, control, outside>>

WorkerWait(n) ==
    LET code == exits[<<workers[n].layer, workers[n].attempt>>] IN
    /\ workers[n].at = "wait" /\ code # "none"
    /\ Step(n, IF code = "ok" THEN "verify" ELSE "trap")
    /\ UNCHANGED <<queue, expired, files, remote, traps, control, outside>>

(* verify_layer.py                                                         *)
WorkerVerify(n) ==
    /\ workers[n].at = "verify"
    /\ Step(n, IF disk[n][workers[n].layer] = "sealed" THEN "publish" ELSE "trap")
    /\ UNCHANGED <<queue, expired, files, remote, traps, control, outside>>

(* An existing publication is verified and reused, else the transferred    *)
(* directory is renamed to it.                                             *)
WorkerPublishAgain(n) ==                          \* mutant: target not looked at
    LET w == workers[n] IN
    /\ w.at = "publish"
    /\ published' = [published EXCEPT ![w.layer] = w.attempt]
    /\ Step(n, "result")
    /\ UNCHANGED <<queue, expired, results, remote, traps, control, outside>>

WorkerPublish(n) ==
    LET w == workers[n] IN
    /\ w.at = "publish"
    /\ published' = IF published[w.layer] # 0 THEN published
                    ELSE [published EXCEPT ![w.layer] = w.attempt]
    /\ Step(n, "result")
    /\ UNCHANGED <<queue, expired, results, remote, traps, control, outside>>

WorkerResult(n) ==
    LET w == workers[n] IN
    /\ w.at = "result"
    /\ results' = [results EXCEPT ![<<w.layer, w.attempt>>] =
                      [passed |-> TRUE, of |-> published[w.layer]]]
    /\ Step(n, "clean")
    /\ UNCHANGED <<queue, expired, published, remote, traps, control, outside>>

(* The staged source is removed and the session ends.                      *)
WorkerClean(n) ==
    /\ workers[n].at = "clean"
    /\ workers' = [workers EXCEPT ![n] = None]
    /\ UNCHANGED <<queue, expired, files, remote, traps, control, outside>>

(* Any command of the script fails: ssh, rsync, a checksum.                *)
WorkerFail(n) ==
    /\ workers[n].at \in WorkerSteps
    /\ Fault
    /\ Step(n, "trap")
    /\ UNCHANGED <<queue, expired, files, remote, traps, control, obstacles>>

(* Of the two looks an ssh that fails counts as "no".                      *)
LookFails(n) ==
    /\ \/ workers[n].at = "start" /\ Step(n, "session")
       \/ workers[n].at = "session" /\ Step(n, "launch")
    /\ Fault
    /\ UNCHANGED <<queue, expired, files, remote, traps, control, obstacles>>

(* failure(): if there is no result yet, a failed one is written.          *)
TrapWrites(w) == "trapWrite"                      \* mutant: result overwritten
TrapSilent(w) == "gone"                           \* mutant: no result at all
TrapNext(w) == IF results[<<w.layer, w.attempt>>] = None THEN "trapWrite" ELSE "gone"

WriteFailed(w) ==
    results' = [results EXCEPT ![<<w.layer, w.attempt>>] = Failed]

WorkerTrap(n) ==
    /\ \/ /\ workers[n].at = "trap"
          /\ workers' = [workers EXCEPT ![n] =
                IF TrapNext(@) = "gone" THEN None ELSE [@ EXCEPT !.at = "trapWrite"]]
          /\ UNCHANGED results
       \/ /\ workers[n].at = "trapWrite"
          /\ WriteFailed(workers[n])
          /\ workers' = [workers EXCEPT ![n] = None]
    /\ UNCHANGED <<queue, expired, published, remote, traps, control, outside>>

OrphanTrap(t) ==
    /\ \/ /\ t.at = "trap"
          /\ traps' = (traps \ {t}) \cup
                (IF TrapNext(t) = "gone" THEN {} ELSE {[t EXCEPT !.at = "trapWrite"]})
          /\ UNCHANGED results
       \/ /\ t.at = "trapWrite"
          /\ WriteFailed(t)
          /\ traps' = traps \ {t}
    /\ UNCHANGED <<queue, expired, published, remote, workers, control, outside>>

WorkerStep(n) ==
    /\ workers[n] # None
    /\ \/ WorkerBegin(n) \/ WorkerStart(n) \/ WorkerSession(n) \/ WorkerLaunch(n)
       \/ WorkerWait(n) \/ WorkerVerify(n) \/ WorkerPublish(n)
       \/ WorkerResult(n) \/ WorkerClean(n) \/ WorkerTrap(n)

-----------------------------------------------------------------------------
(* The Sparks (run_encoder.sh, encoder.py)                                 *)

Exit(j, code) == exits' = [exits EXCEPT ![<<j.layer, j.attempt>>] = code]

(* run_encoder.sh refuses to start beside a protected service of its Spark;*)
(* docker run fails when a container of the layer's name is still running. *)
ContainerStart(j) ==
    LET taken == \E k \in jobs : k.node = j.node /\ k.layer = j.layer
                                 /\ k.container = "running"
    IN
    /\ j.session /\ j.container = "none"
    /\ \/ /\ taken \/ "service" \in obstacles
          /\ jobs' = jobs \ {j} /\ Exit(j, "fail")
       \/ /\ ~taken
          /\ jobs' = (jobs \ {j}) \cup {[j EXCEPT !.container = "running"]}
            /\ UNCHANGED exits
    /\ UNCHANGED <<queue, expired, files, disk, host, control, outside>>

Progress == [none |-> "torn", torn |-> "partial", partial |-> "sealed"]

Encode(j) ==
    /\ j.container = "running" /\ disk[j.node][j.layer] # "sealed"
    /\ disk' = [disk EXCEPT ![j.node][j.layer] = Progress[@]]
    /\ UNCHANGED <<queue, expired, files, exits, jobs, host, control, outside>>

(* The container is over: run_encoder.sh, if it is still there, leaves its *)
(* exit code.                                                              *)
End(j, code) ==
    /\ jobs' = jobs \ {j}
    /\ IF j.session THEN Exit(j, code) ELSE UNCHANGED exits

EncoderEnds(j) ==
    /\ j.container = "running" /\ disk[j.node][j.layer] = "sealed"
    /\ End(j, "ok")
    /\ UNCHANGED <<queue, expired, files, disk, host, control, outside>>

StoppedEnds(j) ==
    /\ j.container = "stopped"
    /\ End(j, "fail")
    /\ UNCHANGED <<queue, expired, files, disk, host, control, outside>>

(* run_encoder.sh refuses to start (too little memory), the watchdog stops *)
(* the container, or the encoder raises.                                   *)
EncoderFails(j) ==
    /\ j.container # "stopped"
    /\ Fault
    /\ End(j, "fail")
    /\ UNCHANGED <<queue, expired, files, disk, host, control, obstacles>>

NodeReboots(n) ==
    /\ \E j \in jobs : j.node = n
    /\ Fault
    /\ jobs' = {j \in jobs : j.node # n}
    /\ UNCHANGED <<queue, expired, files, exits, disk, host, control, obstacles>>

JobStep(j) == ContainerStart(j) \/ Encode(j) \/ EncoderEnds(j) \/ StoppedEnds(j)
NodeStep(n) == \E j \in jobs : j.node = n /\ JobStep(j)

(* A lease outlives lease_timeout: nobody will write its exit code, or (a  *)
(* fault) the encode is that slow.                                         *)
Stuck(l) ==
    LET n == queue[l].node IN
    /\ workers[n] # None /\ workers[n].at = "wait"
    /\ exits[LeaseOf(l)] = "none"
    /\ ~\E j \in jobs : <<j.layer, j.attempt>> = LeaseOf(l) /\ j.session

Expire(l) ==
    /\ l \in Leased \ expired
    /\ expired' = expired \cup {l}
    /\ UNCHANGED <<queue, files, remote, host, control>>

StuckExpires(l) == l \in Leased /\ Stuck(l) /\ Expire(l) /\ UNCHANGED outside
SlowExpires(l)  == Expire(l) /\ Fault /\ UNCHANGED obstacles

(* A line of the kernel logs that kernel_audit.py counts; somebody starts  *)
(* a protected service.                                                    *)
KernelEvent == Fault /\ obstacles' = obstacles \cup {"event"}
ServiceStarts == Fault /\ obstacles' = obstacles \cup {"service"}

Outside ==
    /\ KernelEvent \/ ServiceStarts
    /\ UNCHANGED <<queue, expired, files, remote, host, control>>

-----------------------------------------------------------------------------
(* The manager (bulk_lease_manager.py)                                     *)

Least(x, S) == x \in S /\ \A y \in S : x <= y

Goto(label, S) == at' = label /\ todo' = S /\ stops' = {} /\ lease' = 0
GotoStop(label, S) == at' = label /\ todo' = {} /\ stops' = S /\ lease' = 0
Block == Goto("kill", {})

(* The top of the loop: a running protected service ends it, and (a fault) *)
(* SIGTERM or a Spark that does not answer.                                *)
Top ==
    /\ at = "top"
    /\ \/ "service" \notin obstacles /\ Goto("scan", Leased) /\ UNCHANGED faults
       \/ "service" \in obstacles /\ Block /\ UNCHANGED faults
       \/ Fault /\ Block
    /\ UNCHANGED <<queue, expired, files, remote, host, obstacles>>

(* One lease of the scan; the loop over them ends with the first failure.  *)
ScanResult(l) ==
    LET r == results[LeaseOf(l)] IN
    /\ at = "scan" /\ Least(l, todo) /\ r # None
    /\ \/ /\ ValidResult(l)
          /\ Finish(l) /\ KillSessions({queue[l].node})
          /\ Goto("scan", todo \ {l})
       \/ /\ Passing(r) /\ ~ValidResult(l)
          /\ Block
          /\ UNCHANGED <<queue, expired, host>>
       \/ /\ ~Passing(r)
          /\ RequeueAll({l}) /\ Block
          /\ UNCHANGED host
    /\ UNCHANGED <<files, remote, outside>>

ScanTimeout(l) ==
    /\ at = "scan" /\ Least(l, todo) /\ results[LeaseOf(l)] = None
    /\ l \in expired
    /\ RequeueAll({l}) /\ Block
    /\ UNCHANGED <<files, remote, host, outside>>

ScanActive(l) ==
    /\ at = "scan" /\ Least(l, todo) /\ results[LeaseOf(l)] = None
    /\ l \notin expired
    /\ at' = "scanLaunch" /\ lease' = l /\ UNCHANGED <<todo, stops>>
    /\ UNCHANGED <<queue, expired, files, remote, host, outside>>

(* launch_worker looks at the result and the session again.                *)
Launch(l) ==
    LET n == queue[l].node IN
    workers' = IF results[LeaseOf(l)] # None \/ workers[n] # None THEN workers
               ELSE [workers EXCEPT ![n] =
                        [layer |-> l, attempt |-> queue[l].attempt, at |-> "begin"]]

ScanLaunch ==
    /\ at = "scanLaunch"
    /\ Launch(lease)
    /\ Goto("scan", todo \ {lease})
    /\ UNCHANGED <<queue, expired, files, remote, traps, outside>>

ScanDone ==
    /\ at = "scan" /\ todo = {}
    /\ Goto("audit", {})
    /\ UNCHANGED <<queue, expired, files, remote, host, outside>>

(* strict_audit reads the logs since bulk-window-start.txt: one event in   *)
(* that window fails it in every manager to come.  (It is due at the first *)
(* loop and then once a minute; an event is said to happen when the next   *)
(* audit will see it.)                                                     *)
Audit ==
    /\ at = "audit"
    /\ \/ "event" \notin obstacles /\ Goto("grant", Nodes) /\ UNCHANGED faults
       \/ "event" \in obstacles /\ Block /\ UNCHANGED faults
       \/ Fault /\ Block
    /\ UNCHANGED <<queue, expired, files, remote, host, obstacles>>

Grant(n) ==
    /\ at = "grant" /\ Least(n, todo)
    /\ \/ /\ ~ActiveNode(n)
          /\ \E l \in Layers :
                /\ Candidate(l, n) /\ LeaseNext(l, n)
                /\ lease' = l
          /\ at' = "grantLaunch" /\ todo' = todo \ {n} /\ UNCHANGED stops
       \/ /\ ActiveNode(n) \/ Grantable = {}
          /\ Goto("grant", todo \ {n})
          /\ UNCHANGED queue
    /\ UNCHANGED <<expired, files, remote, host, outside>>

GrantLaunch ==
    /\ at = "grantLaunch"
    /\ Launch(lease)
    /\ Goto("grant", todo)
    /\ UNCHANGED <<queue, expired, files, remote, traps, outside>>

GrantDone ==
    /\ at = "grant" /\ todo = {}
    /\ Goto(IF Completed = Layers THEN "complete" ELSE "top", {})
    /\ UNCHANGED <<queue, expired, files, remote, host, outside>>

(* The block: local sessions, then node by node containers and sessions,   *)
(* then every lease, then BLOCKED.json.                                    *)
BlockKill ==
    /\ at = "kill"
    /\ KillSessions(Nodes)
    /\ GotoStop("stop", Stops)
    /\ UNCHANGED <<queue, expired, files, remote, outside>>

IsNextStop(p) ==
    p \in stops /\ \A q \in stops : p[1] < q[1] \/ (p[1] = q[1] /\ p[2] <= q[2])

BlockStop ==
    /\ at = "stop"
    /\ \/ \E p \in Stops : IsNextStop(p) /\ StopNode(p) /\ GotoStop("stop", stops \ {p})
       \/ stops = {} /\ Goto("requeue", Leased) /\ UNCHANGED jobs
    /\ UNCHANGED <<queue, expired, files, exits, disk, host, outside>>

BlockRequeue ==
    /\ at = "requeue"
    /\ \/ \E l \in Layers : Least(l, todo) /\ RequeueAll({l}) /\ Goto("requeue", todo \ {l})
       \/ todo = {} /\ Goto("blocked", {}) /\ UNCHANGED <<queue, expired>>
    /\ UNCHANGED <<files, remote, host, outside>>

WriteBlocked ==
    /\ at = "blocked"
    /\ Goto("guardKill", {})
    /\ UNCHANGED <<queue, expired, files, remote, host, outside>>

(* An exception ends the manager: the guard takes over.  A recovery script *)
(* that fails (ssh, a protected service, the quiet audit) ends likewise.   *)
ManagerCrash ==
    /\ at \in ManagerLoop \cup ManagerBlock \cup Recovery
    /\ Fault
    /\ Goto("guardKill", {})
    /\ UNCHANGED <<queue, expired, files, remote, host, obstacles>>

Manager ==
    \/ Top \/ ScanLaunch \/ ScanDone \/ Audit \/ GrantLaunch \/ GrantDone
    \/ \E l \in Layers : ScanResult(l) \/ ScanTimeout(l) \/ ScanActive(l)
    \/ \E n \in Nodes : Grant(n)
    \/ BlockKill \/ BlockStop \/ BlockRequeue \/ WriteBlocked

-----------------------------------------------------------------------------
(* The guard and the recovery scripts stop all nodes at once, on each the  *)
(* containers first.  A recovery that fails ends like the guard.           *)

KillAll(here, next) ==
    /\ at = here
    /\ KillSessions(Nodes)
    /\ GotoStop(next, Stops)
    /\ UNCHANGED <<queue, expired, files, remote, outside>>

StopAll(here, next) ==
    /\ at = here
    /\ \/ \E p \in stops : /\ p[2] = 2 => <<p[1], 1>> \notin stops
                           /\ StopNode(p) /\ GotoStop(here, stops \ {p})
       \/ stops = {} /\ Goto(next, {}) /\ UNCHANGED jobs
    /\ UNCHANGED <<queue, expired, files, exits, disk, host, outside>>

RunGuard == KillAll("guardKill", "guardStop") \/ StopAll("guardStop", "off")

(* resume_bulk.sh: not while a protected service runs, nor while memory is *)
(* short (the operator tries again).  It does not look at BLOCKED.json or  *)
(* at the audit window.  The operator is slower than a killed worker's trap.*)
Resume ==
    /\ at = "off" /\ traps = {}
    /\ "service" \notin obstacles
    /\ Goto("top", {})
    /\ UNCHANGED <<queue, expired, files, remote, host, outside>>

(* restart_bulk_after_block.sh.  The operator is slower than run_encoder.sh*)
(* on its way to docker run.                                               *)
Restart ==
    /\ at = "off" /\ traps = {}
    /\ \A j \in jobs : j.container # "none"
    /\ Goto("restartKill", {})
    /\ UNCHANGED <<queue, expired, files, remote, host, outside>>

RunRestart == KillAll("restartKill", "restartStop") \/ StopAll("restartStop", "services")

(* The protected services that run are stopped.                            *)
StopServices ==
    /\ at = "services"
    /\ obstacles' = obstacles \ {"service"}
    /\ Goto("repair", {})
    /\ UNCHANGED <<queue, expired, files, remote, host, faults>>

(* reconcile_bulk.py --repair: stale leases first.                         *)
Repair ==
    LET done == {l \in Leased : ValidResult(l)} IN
    /\ at = "repair"
    /\ queue' = [l \in Layers |-> IF l \in done THEN [queue[l] EXCEPT !.state = "completed"]
                                  ELSE Requeued(Leased)[l]]
    /\ expired' = {}
    /\ Goto("check", {})
    /\ UNCHANGED <<files, remote, host, outside>>

OrphanPublications == {l \in Layers \ Completed : published[l] # 0}

LastDisk(l) == IF queue[l].node = None THEN "none" ELSE disk[queue[l].node][l]
TornPartials == {l \in Pending : LastDisk(l) = "torn"}

CheckPasses ==
    /\ \A l \in Completed : ValidResult(l)
    /\ OrphanPublications = {} /\ TornPartials = {}

(* Layers with verified receipts on a node prefer it; then the checks end  *)
(* the recovery, or a new audit window begins and the manager is resumed.  *)
Check ==
    /\ at = "check"
    /\ queue' = [l \in Layers |->
          IF l \in Pending /\ LastDisk(l) \in {"partial", "sealed"}
          THEN [queue[l] EXCEPT !.preferred = queue[l].node] ELSE queue[l]]
    /\ IF CheckPasses THEN obstacles' = obstacles \ {"event"} ELSE UNCHANGED obstacles
    /\ Goto(IF CheckPasses /\ "service" \notin obstacles THEN "top" ELSE "guardKill", {})
    /\ UNCHANGED <<expired, files, remote, host, faults>>

(* The control host stops: manager, guard, scripts and workers are gone,   *)
(* the Sparks and every file stay.                                         *)
HostCrash ==
    /\ at # "complete"
    /\ Fault
    /\ Goto("off", {})
    /\ workers' = [n \in Nodes |-> None] /\ traps' = {}
    /\ UNCHANGED <<queue, expired, files, remote, obstacles>>

ControlStep == Manager \/ RunGuard \/ RunRestart \/ StopServices \/ Repair \/ Check

Finished == at = "complete" /\ UNCHANGED vars

Next ==
    \/ ControlStep \/ ManagerCrash \/ Resume \/ Restart
    \/ \E n \in Nodes : WorkerStep(n) \/ NodeReboots(n)
                     \/ (workers[n] # None /\ (WorkerFail(n) \/ LookFails(n)))
    \/ \E t \in traps : OrphanTrap(t)
    \/ \E j \in jobs : JobStep(j) \/ EncoderFails(j)
    \/ \E l \in Layers : StuckExpires(l) \/ SlowExpires(l)
    \/ Outside \/ HostCrash \/ Finished

Spec == Init /\ [][Next]_vars

(* Processes that are alive go on, a lease nobody can finish expires, and  *)
(* an operator whose run is down tries both scripts again and again: a     *)
(* restart alone renews the audit window, a resume alone does not mind what*)
(* reconcile_bulk.py refuses.                                              *)
Fairness ==
    /\ WF_vars(ControlStep) /\ SF_vars(Resume) /\ SF_vars(Restart)
    /\ WF_vars(\E t \in traps : OrphanTrap(t))
    /\ \A n \in Nodes : WF_vars(WorkerStep(n)) /\ WF_vars(NodeStep(n))
    /\ \A l \in Layers : WF_vars(StuckExpires(l))

LiveSpec == Spec /\ Fairness

-----------------------------------------------------------------------------
(* Properties                                                              *)

TypeOK ==
    /\ queue \in [Layers -> Record]
    /\ expired \subseteq Leased
    /\ results \in [Leases -> Result \cup {None}]
    /\ exits \in [Leases -> {"none", "ok", "fail"}]
    /\ disk \in [Nodes -> [Layers -> {"none", "torn", "partial", "sealed"}]]
    /\ published \in [Layers -> Published]
    /\ workers \in [Nodes -> Worker \cup {None}]
    /\ traps \subseteq Trap
    /\ jobs \subseteq Job
    /\ at \in ControlSteps
    /\ todo \subseteq Layers \cup Nodes /\ stops \subseteq Stops
    /\ lease \in Layers \cup {0}
    /\ obstacles \subseteq Obstacles /\ faults \in 0..MaxFaults

(* A completed layer is published, and its result describes exactly what   *)
(* is published: what publication_check tests at recovery.                 *)
CompletedIsPublished ==
    \A l \in Completed :
        LET r == results[LeaseOf(l)] IN
        r # None /\ r.passed /\ r.of # 0 /\ r.of = published[l]

(* In the manager's loop, a worker at work and a remote session the control*)
(* host knows of belong to the lease of their node: whatever was killed,   *)
(* timed out, blocked or resumed, no second encode of a layer is under way.*)
(* A session may outlive its lease only when the layer was completed: the  *)
(* worker of a resumed run that looks for the exit code just before, and   *)
(* for the session just after, the encoder ends starts a second one.  With *)
(* one fault only: a lease is requeued before its encoder is stopped, so a *)
(* control host that goes down between the two, after another fault, is    *)
(* resumed beside a session of a lease that is gone.                       *)
EncodesHaveLeases ==
    at \in ManagerLoop /\ faults <= 1 =>
        /\ \A j \in jobs : j.session =>
              /\ queue[j.layer].node = j.node /\ queue[j.layer].attempt = j.attempt
              /\ \/ j.layer \in Leased
                 \/ j.layer \in Completed /\ exits[<<j.layer, j.attempt>>] # "none"
        /\ \A n \in Nodes : (workers[n] # None /\ workers[n].at \in WorkerSteps) =>
              /\ workers[n].layer \in Leased /\ queue[workers[n].layer].node = n
              /\ queue[workers[n].layer].attempt = workers[n].attempt

(* A passing result is never replaced: not by the trap of a worker that is *)
(* killed after it wrote it, and not by a relaunched worker.               *)
PassingResultStands ==
    [][\A i \in Leases : Passing(results[i]) => results'[i] = results[i]]_vars

(* A publication is immutable, however often its layer is leased again.    *)
PublicationIsFinal ==
    [][\A l \in Layers : published[l] # 0 => published'[l] = published[l]]_vars

(* An event in the audit window blocks every resumed manager, and a torn   *)
(* partial or a publication without a completed lease makes reconcile fail *)
(* before the window is renewed: with both, no command gets the run going. *)
DeadEnd ==
    /\ "event" \in obstacles
    /\ OrphanPublications # {} \/ TornPartials # {}

(* With finitely many faults every layer is encoded and published, unless  *)
(* an interrupted encode or publication and a kernel event meet.           *)
EveryLayerCompletes == <>(at = "complete" /\ Completed = Layers) \/ <>[]DeadEnd
=============================================================================

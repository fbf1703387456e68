--------------------------- MODULE BulkEncodeProofs ---------------------------
(***************************************************************************)
(* What BulkEncode keeps for any number of layers, Spark nodes, leases,    *)
(* faults and recoveries: a passing result stands, a publication is final, *)
(* and what is completed is published as its result says.                  *)
(***************************************************************************)
EXTENDS BulkEncode, TLAPS

LeaseIn(w) == <<w.layer, w.attempt>>

\* A layer that is or was leased has an attempt and a node, and a node one lease.
Leasing ==
  \A l \in Layers : queue[l].state # "pending" => queue[l].attempt \in Attempts /\ queue[l].node \in Nodes
OneLease == \A l, m \in Leased : queue[l].node = queue[m].node => l = m

\* The manager scans, launches and takes back leases only.
LoopOK ==
  /\ at \in {"scan", "scanLaunch", "requeue"} => todo \subseteq Leased
  /\ at \in {"scanLaunch", "grantLaunch"} => lease \in Leased

\* In the manager's loop a worker has its node's lease, and what is left of a
\* killed one is of a layer that is completed.
Own ==
  at \in ManagerLoop =>
    /\ \A n \in Nodes : workers[n] # None =>
         /\ workers[n].layer \in Leased /\ queue[workers[n].layer].node = n
         /\ workers[n].attempt = queue[workers[n].layer].attempt
    /\ \A t \in traps : t.layer \in Completed

\* After a kill of all sessions there is no worker until the loop is entered, and
\* a recovery begins when their traps have run.
Killed == {"stop", "requeue", "blocked", "guardStop", "off"} \cup Recovery
Idle ==
  /\ at \in Killed => \A n \in Nodes : workers[n] = None
  /\ at \in Recovery => traps = {}

\* Nobody else, alive or in its trap, has a worker's lease.
Alone ==
  \A n \in Nodes : workers[n] # None =>
    /\ \A m \in Nodes \ {n} : workers[m] # None => LeaseIn(workers[m]) # LeaseIn(workers[n])
    /\ \A t \in traps : LeaseIn(t) # LeaseIn(workers[n])

\* A worker at work has no result yet, one that writes a failure no passing one.
AtWork == WorkerSteps \ {"begin"}
Fresh ==
  \A n \in Nodes : workers[n] # None /\ workers[n].at \in AtWork =>
    results[LeaseIn(workers[n])] = None
Writes ==
  /\ \A n \in Nodes : workers[n] # None /\ workers[n].at = "trapWrite" =>
       ~Passing(results[LeaseIn(workers[n])])
  /\ \A t \in traps : t.at = "trapWrite" => ~Passing(results[LeaseIn(t)])

Done == \A l \in Completed : ValidResult(l)

IndInv ==
  /\ TypeOK /\ Leasing /\ OneLease /\ LoopOK /\ Own /\ Idle /\ Alone /\ Fresh
  /\ Writes /\ Done

-----------------------------------------------------------------------------
(* Types *)

USE LayersAreNumbers, NodesAreNumbers, NoneIsNobody, BoundsAreNumbers

LEMMA FaultTyped == ASSUME TypeOK, Fault PROVE faults' \in 0 .. MaxFaults
BY DEF TypeOK, Fault

\* Requeueing keeps the records' types and takes leases back.
LEMMA RequeuedTyped ==
  ASSUME TypeOK, NEW S \in SUBSET Layers
  PROVE  /\ Requeued(S) \in [Layers -> Record]
         /\ \A l \in Layers \ S : Requeued(S)[l] = queue[l]
         /\ \A l \in S : Requeued(S)[l] = [queue[l] EXCEPT !.state = "pending"]
<1>1. ASSUME NEW r \in Record PROVE [r EXCEPT !.state = "pending"] \in Record
  BY DEF Record
<1>2. \A l \in Layers : queue[l] \in Record
  BY DEF TypeOK
<1> QED
  BY <1>1, <1>2 DEF Requeued

LEMMA RequeueTypes ==
  ASSUME TypeOK, NEW S \in SUBSET Layers, RequeueAll(S)
  PROVE  queue' \in [Layers -> Record] /\ expired' \subseteq Leased'
<1>1. queue' \in [Layers -> Record] /\ \A l \in Layers \ S : queue'[l] = queue[l]
  BY RequeuedTyped DEF RequeueAll
<1> QED
  BY <1>1 DEF TypeOK, RequeueAll, Leased

LEMMA KillTypes ==
  ASSUME TypeOK, NEW S \in SUBSET Nodes, KillSessions(S)
  PROVE  workers' \in [Nodes -> Worker \cup {None}] /\ traps' \subseteq Trap
<1>1. Orphans(S) \subseteq Trap
  BY DEF TypeOK, Orphans, Trap, Worker, TrapSteps
<1> QED
  BY <1>1 DEF TypeOK, KillSessions

LEMMA StopTypes == ASSUME TypeOK, NEW p \in Stops, StopNode(p) PROVE jobs' \subseteq Job
<1>1. ASSUME NEW j \in Job PROVE [j EXCEPT !.container = "stopped"] \in Job /\ [j EXCEPT !.session = FALSE] \in Job
  BY DEF Job
<1>2. jobs \subseteq Job
  BY DEF TypeOK
<1>3. ASSUME NEW n, StopContainers(n) PROVE jobs' \subseteq Job
  BY <1>1, <1>2, <1>3 DEF StopContainers
<1>4. ASSUME NEW n, StopSessions(n) PROVE jobs' \subseteq Job
  BY <1>1, <1>2, <1>4 DEF StopSessions
<1> QED
  BY <1>3, <1>4 DEF StopNode

LEMMA LaunchTypes ==
  ASSUME TypeOK, Leasing, NEW l \in Leased, Launch(l)
  PROVE  workers' \in [Nodes -> Worker \cup {None}]
<1>1. l \in Layers /\ queue[l].attempt \in Attempts
  BY DEF Leasing, Leased
<1>2. [layer |-> l, attempt |-> queue[l].attempt, at |-> "begin"] \in Worker
  BY <1>1 DEF Worker, WorkerSteps
<1> QED
  BY <1>2 DEF TypeOK, Launch

ControlTyped ==
  /\ at \in ControlSteps /\ todo \subseteq Layers \cup Nodes /\ stops \subseteq Stops
  /\ lease \in Layers \cup {0}

LEMMA GotoTypes ==
  ASSUME NEW label \in ControlSteps, NEW S \in SUBSET (Layers \cup Nodes), Goto(label, S)
  PROVE  ControlTyped'
BY DEF Goto, ControlTyped

LEMMA GotoStopTypes ==
  ASSUME NEW label \in ControlSteps, NEW S \in SUBSET Stops, GotoStop(label, S)
  PROVE  ControlTyped'
BY DEF GotoStop, ControlTyped

LEMMA Labels == ManagerLoop \cup ManagerBlock \cup Guard \cup Recovery \cup {"off", "complete"} = ControlSteps
BY DEF ControlSteps

\* What may happen to a worker at its work.
Works(n) == WorkerStep(n) \/ WorkerFail(n) \/ LookFails(n)

LEMMA WorkerTypes ==
  ASSUME TypeOK, NEW n \in Nodes, workers[n] # None, Works(n)
  PROVE  TypeOK'
<1>1. workers[n] \in Worker
  BY DEF TypeOK
<1>2. ASSUME NEW label \in WorkerSteps \cup TrapSteps \cup {"clean"}, Step(n, label)
      PROVE  workers' \in [Nodes -> Worker \cup {None}]
  <2>1. [workers[n] EXCEPT !.at = label] \in Worker
    BY <1>1 DEF Worker
  <2> QED  BY <1>2, <2>1 DEF TypeOK, Step
<1>3. workers[n].layer \in Layers /\ workers[n].attempt \in Attempts /\ <<workers[n].layer, workers[n].attempt>> \in Leases
  BY <1>1 DEF Worker, Leases
<1>4. ASSUME UNCHANGED <<queue, expired, exits, disk, traps, at, todo, stops, lease, obstacles>>,
             faults' \in 0 .. MaxFaults, jobs' \subseteq Job,
             results' \in [Leases -> Result \cup {None}], published' \in [Layers -> Published],
             workers' \in [Nodes -> Worker \cup {None}]
      PROVE  TypeOK'
  BY <1>4 DEF TypeOK, Leased
<1>5. /\ faults \in 0 .. MaxFaults /\ jobs \subseteq Job /\ results \in [Leases -> Result \cup {None}]
      /\ published \in [Layers -> Published]
  BY DEF TypeOK
<1> USE DEF control, outside, files, remote
<1>6. CASE WorkerBegin(n)
  BY <1>2, <1>4, <1>5, <1>6 DEF WorkerBegin, WorkerSteps, TrapSteps
<1>7. CASE WorkerLaunch(n)
  <2>1. [node |-> n, layer |-> workers[n].layer, attempt |-> workers[n].attempt,
         session |-> TRUE, container |-> "none"] \in Job
    BY <1>3 DEF Job
  <2> QED  BY <1>2, <1>4, <1>5, <1>7, <2>1 DEF WorkerLaunch, WorkerSteps, TrapSteps
<1>8. CASE WorkerStart(n) \/ WorkerSession(n) \/ WorkerWait(n) \/ WorkerVerify(n)
  BY <1>2, <1>4, <1>5, <1>8 DEF WorkerStart, WorkerSession, WorkerWait, WorkerVerify, WorkerSteps, TrapSteps
<1>9. CASE WorkerPublish(n)
  <2>1. published' \in [Layers -> Published]
    BY <1>3, <1>5, <1>9 DEF WorkerPublish, Published, Attempts
  <2> QED  BY <1>2, <1>4, <1>5, <1>9, <2>1 DEF WorkerPublish, WorkerSteps, TrapSteps
<1>10. CASE WorkerResult(n)
  <2>1. [passed |-> TRUE, of |-> published[workers[n].layer]] \in Result
    BY <1>3, <1>5 DEF Result
  <2>2. results' \in [Leases -> Result \cup {None}]
    BY <1>3, <1>5, <1>10, <2>1 DEF WorkerResult
  <2> QED  BY <1>2, <1>4, <1>5, <1>10, <2>2 DEF WorkerResult, WorkerSteps, TrapSteps
<1>11. CASE WorkerClean(n)
  <2>1. workers' \in [Nodes -> Worker \cup {None}]
    BY <1>11 DEF TypeOK, WorkerClean
  <2> QED  BY <1>4, <1>5, <1>11, <2>1 DEF WorkerClean
<1>12. CASE WorkerTrap(n)
  <2>1. [workers[n] EXCEPT !.at = "trapWrite"] \in Worker
    BY <1>1 DEF Worker, TrapSteps
  <2>2. workers' \in [Nodes -> Worker \cup {None}]
    BY <1>12, <2>1 DEF TypeOK, WorkerTrap
  <2>3. Failed \in Result
    BY DEF Failed, Result, Published
  <2>4. results' \in [Leases -> Result \cup {None}]
    BY <1>3, <1>5, <1>12, <2>3 DEF WorkerTrap, WriteFailed
  <2> QED  BY <1>4, <1>5, <1>12, <2>2, <2>4 DEF WorkerTrap
<1>13. CASE WorkerFail(n) \/ LookFails(n)
  BY <1>2, <1>4, <1>5, <1>13, FaultTyped DEF WorkerFail, LookFails, WorkerSteps, TrapSteps
<1> QED
  BY <1>6, <1>7, <1>8, <1>9, <1>10, <1>11, <1>12, <1>13 DEF WorkerStep, Works

LEMMA TrapTypes == ASSUME TypeOK, NEW t \in traps, OrphanTrap(t) PROVE TypeOK'
<1>1. t \in Trap /\ <<t.layer, t.attempt>> \in Leases /\ Failed \in Result
  BY DEF TypeOK, Trap, Leases, Failed, Result, Published
<1>2. [t EXCEPT !.at = "trapWrite"] \in Trap
  BY <1>1 DEF Trap, TrapSteps
<1>3. traps' \subseteq Trap
  BY <1>2 DEF TypeOK, OrphanTrap
<1>4. results' \in [Leases -> Result \cup {None}]
  BY <1>1 DEF TypeOK, OrphanTrap, WriteFailed
<1> QED
  BY <1>3, <1>4 DEF TypeOK, OrphanTrap, Leased, remote, control, outside

\* What the steps of an encoder and of a lease's clock leave alone.
Beside == <<queue, results, published, workers, traps, at, todo, stops, lease, obstacles>>

LEMMA JobTypes ==
  ASSUME TypeOK, NEW j \in jobs, JobStep(j) \/ EncoderFails(j)
  PROVE  TypeOK' /\ UNCHANGED Beside
<1>1. j \in Job /\ jobs \subseteq Job /\ faults \in 0 .. MaxFaults
  BY DEF TypeOK
<1>2. <<j.layer, j.attempt>> \in Leases /\ j.node \in Nodes /\ j.layer \in Layers
  BY <1>1 DEF Job, Leases
<1>3. [j EXCEPT !.container = "running"] \in Job
  BY <1>1 DEF Job
<1>4. ASSUME UNCHANGED <<expired, Beside>>, faults' \in 0 .. MaxFaults, jobs' \subseteq Job,
             exits' \in [Leases -> {"none", "ok", "fail"}],
             disk' \in [Nodes -> [Layers -> {"none", "torn", "partial", "sealed"}]]
      PROVE  TypeOK' /\ UNCHANGED Beside
  BY <1>4 DEF TypeOK, Leased, Beside
<1>5. ASSUME NEW code \in {"ok", "fail"}, Exit(j, code) PROVE exits' \in [Leases -> {"none", "ok", "fail"}]
  BY <1>2, <1>5 DEF TypeOK, Exit
<1>6. ASSUME NEW code \in {"ok", "fail"}, End(j, code)
      PROVE  jobs' \subseteq Job /\ exits' \in [Leases -> {"none", "ok", "fail"}]
  BY <1>1, <1>5, <1>6 DEF End, TypeOK
<1>7. exits \in [Leases -> {"none", "ok", "fail"}] /\ disk \in [Nodes -> [Layers -> {"none", "torn", "partial", "sealed"}]]
  BY DEF TypeOK
<1> USE DEF files, host, control, outside, Beside
<1>8. CASE ContainerStart(j)
  BY <1>1, <1>3, <1>4, <1>5, <1>7, <1>8 DEF ContainerStart
<1>9. CASE Encode(j)
  <2>1. disk[j.node][j.layer] \in {"none", "torn", "partial"}
    <3>1. disk[j.node][j.layer] # "sealed"
      BY <1>9 DEF Encode
    <3>2. disk[j.node][j.layer] \in {"none", "torn", "partial", "sealed"}
      BY <1>2, <1>7
    <3> QED  BY <3>1, <3>2
  <2>2. Progress[disk[j.node][j.layer]] \in {"torn", "partial", "sealed"}
    BY <2>1 DEF Progress
  <2>3. disk' = [disk EXCEPT ![j.node] = [disk[j.node] EXCEPT ![j.layer] = Progress[disk[j.node][j.layer]]]]
    BY <1>9 DEF Encode
  <2>4. [disk[j.node] EXCEPT ![j.layer] = Progress[disk[j.node][j.layer]]] \in [Layers -> {"none", "torn", "partial", "sealed"}]
    BY <1>2, <1>7, <2>2
  <2>5. disk' \in [Nodes -> [Layers -> {"none", "torn", "partial", "sealed"}]]
    BY <1>2, <1>7, <2>3, <2>4
  <2> QED  BY <1>1, <1>4, <1>7, <1>9, <2>5 DEF Encode
<1>10. CASE EncoderEnds(j) \/ StoppedEnds(j)
  BY <1>1, <1>4, <1>6, <1>7, <1>10 DEF EncoderEnds, StoppedEnds
<1>11. CASE EncoderFails(j)
  BY <1>4, <1>6, <1>7, <1>11, FaultTyped DEF EncoderFails
<1> QED
  BY <1>8, <1>9, <1>10, <1>11 DEF JobStep

LEMMA RebootTypes ==
  ASSUME TypeOK, NEW n \in Nodes, NodeReboots(n) PROVE TypeOK' /\ UNCHANGED Beside
BY FaultTyped DEF TypeOK, NodeReboots, Leased, files, host, control, Beside

LEMMA ExpireTypes ==
  ASSUME TypeOK, NEW l \in Layers, StuckExpires(l) \/ SlowExpires(l) PROVE TypeOK' /\ UNCHANGED Beside
<1>1. Expire(l) /\ obstacles' = obstacles /\ faults' \in 0 .. MaxFaults
  BY FaultTyped DEF StuckExpires, SlowExpires, TypeOK, outside
<1>2. expired' \subseteq Leased'
  BY <1>1 DEF Expire, TypeOK, Leased
<1> QED
  BY <1>1, <1>2 DEF TypeOK, Expire, files, remote, host, control, Beside

LEMMA OutsideTypes ==
  ASSUME TypeOK, Outside
  PROVE  TypeOK' /\ UNCHANGED <<queue, expired, results, published, exits, disk, jobs, workers, traps, at, todo, stops, lease>>
<1>1. UNCHANGED <<queue, expired, results, published, exits, disk, jobs, workers, traps, at, todo, stops, lease>>
  BY DEF Outside, files, remote, host, control
<1>2. faults' \in 0 .. MaxFaults /\ obstacles' \subseteq Obstacles
  BY FaultTyped DEF Outside, KernelEvent, ServiceStarts, Obstacles, TypeOK
<1> QED
  BY <1>1, <1>2 DEF TypeOK, Leased

\* A control step that leaves the Sparks' and the workers' files alone.
LEMMA ControlTypesKept ==
  ASSUME TypeOK, ControlTyped', queue' \in [Layers -> Record], expired' \subseteq Leased',
         workers' \in [Nodes -> Worker \cup {None}], traps' \subseteq Trap, jobs' \subseteq Job,
         UNCHANGED <<results, published, exits, disk>>,
         faults' \in 0 .. MaxFaults, obstacles' \subseteq Obstacles
  PROVE  TypeOK'
BY DEF TypeOK, ControlTyped

LEMMA NowTyped ==
  ASSUME TypeOK
  PROVE  /\ ControlTyped /\ queue \in [Layers -> Record] /\ expired \subseteq Leased
         /\ workers \in [Nodes -> Worker \cup {None}] /\ traps \subseteq Trap /\ jobs \subseteq Job
         /\ faults \in 0 .. MaxFaults /\ obstacles \subseteq Obstacles
BY DEF TypeOK, ControlTyped

LEMMA ManagerTypes ==
  ASSUME TypeOK, Leasing, LoopOK, Manager \/ ManagerCrash PROVE TypeOK'
<1> USE DEF files, remote, host, outside, Block
<1>1. Leased \subseteq Layers /\ Nodes \subseteq Layers \cup Nodes
  BY DEF Leased
<1>2. CASE Top
  <2>1. ControlTyped' /\ faults' \in 0 .. MaxFaults
    BY <1>1, <1>2, GotoTypes, FaultTyped, NowTyped, Labels DEF Top, ManagerLoop, ManagerBlock
  <2> QED  BY <1>2, <2>1, NowTyped, ControlTypesKept DEF Top, Leased
<1>3. ASSUME NEW l \in Layers, ScanResult(l) PROVE TypeOK'
  <2>1. todo \subseteq Leased /\ l \in Leased
    BY <1>3 DEF ScanResult, LoopOK, Least
  <2>2. ControlTyped'
    BY <1>1, <1>3, <2>1, GotoTypes, Labels DEF ScanResult, ManagerLoop, ManagerBlock
  <2>3. CASE Finish(l) /\ KillSessions({queue[l].node})
    <3>1. queue[l] \in Record
      BY NowTyped
    <3>2. [queue[l] EXCEPT !.state = "completed"] \in Record
      BY <3>1 DEF Record
    <3>3. queue' = [queue EXCEPT ![l] = [queue[l] EXCEPT !.state = "completed"]]
      BY <2>3 DEF Finish
    <3>4. queue' \in [Layers -> Record] /\ expired' \subseteq Leased'
      BY <2>3, <3>2, <3>3, NowTyped DEF Finish, Leased
    <3>5. workers' \in [Nodes -> Worker \cup {None}] /\ traps' \subseteq Trap
      <4>1. queue[l].node \in Nodes
        BY <2>1 DEF Leasing, Leased
      <4> QED  BY <2>3, <4>1, KillTypes
    <3> QED  BY <1>3, <2>2, <3>4, <3>5, NowTyped, ControlTypesKept DEF ScanResult
  <2>4. CASE RequeueAll({l}) /\ UNCHANGED host
    BY <1>3, <2>2, <2>4, NowTyped, RequeueTypes, ControlTypesKept DEF ScanResult
  <2>5. CASE UNCHANGED <<queue, expired, host>>
    BY <1>3, <2>2, <2>5, NowTyped, ControlTypesKept DEF ScanResult, Leased
  <2> QED  BY <1>3, <2>3, <2>4, <2>5 DEF ScanResult
<1>4. ASSUME NEW l \in Layers, ScanTimeout(l) PROVE TypeOK'
  <2>1. ControlTyped'
    BY <1>4, GotoTypes, Labels DEF ScanTimeout, ManagerBlock
  <2> QED  BY <1>4, <2>1, NowTyped, RequeueTypes, ControlTypesKept DEF ScanTimeout
<1>5. ASSUME NEW l \in Layers, ScanActive(l) PROVE TypeOK'
  <2>1. ControlTyped'
    BY <1>5, NowTyped, Labels DEF ScanActive, ControlTyped, ManagerLoop
  <2> QED  BY <1>5, <2>1, NowTyped, ControlTypesKept DEF ScanActive, Leased
<1>6. CASE ScanLaunch
  <2>1. lease \in Leased /\ todo \subseteq Leased
    BY <1>6 DEF ScanLaunch, LoopOK
  <2>2. ControlTyped'
    BY <1>1, <1>6, <2>1, GotoTypes, Labels DEF ScanLaunch, ManagerLoop
  <2> QED  BY <1>6, <2>1, <2>2, NowTyped, LaunchTypes, ControlTypesKept DEF ScanLaunch, Leased
<1>7. CASE ScanDone \/ GrantDone \/ WriteBlocked
  <2>1. ControlTyped'
    BY <1>7, GotoTypes, Labels DEF ScanDone, GrantDone, WriteBlocked, ManagerLoop, Guard
  <2> QED  BY <1>7, <2>1, NowTyped, ControlTypesKept DEF ScanDone, GrantDone, WriteBlocked, Leased
<1>8. CASE Audit
  <2>1. ControlTyped' /\ faults' \in 0 .. MaxFaults
    BY <1>1, <1>8, GotoTypes, FaultTyped, NowTyped, Labels DEF Audit, ManagerLoop, ManagerBlock
  <2> QED  BY <1>8, <2>1, NowTyped, ControlTypesKept DEF Audit, Leased
<1>9. ASSUME NEW n \in Nodes, Grant(n) PROVE TypeOK'
  <2>1. CASE Goto("grant", todo \ {n}) /\ UNCHANGED queue
    <3>1. ControlTyped'
      BY <2>1, GotoTypes, NowTyped, Labels DEF ControlTyped, ManagerLoop
    <3> QED  BY <1>9, <2>1, <3>1, NowTyped, ControlTypesKept DEF Grant, Leased
  <2>2. CASE \E l \in Layers : /\ Candidate(l, n) /\ LeaseNext(l, n) /\ lease' = l
                               /\ at' = "grantLaunch" /\ todo' = todo \ {n} /\ UNCHANGED stops
    <3>1. PICK l \in Layers : /\ Candidate(l, n) /\ LeaseNext(l, n) /\ lease' = l
                              /\ at' = "grantLaunch" /\ todo' = todo \ {n} /\ UNCHANGED stops
      BY <2>2
    <3>2. ControlTyped'
      BY <3>1, NowTyped, Labels DEF ControlTyped, ManagerLoop
    <3>3. queue[l] \in Record /\ queue[l].attempt < MaxAttempts /\ queue[l].state = "pending"
      BY <3>1, NowTyped DEF Candidate, Grantable, Pending
    <3>4. queue' = [queue EXCEPT ![l] = [queue[l] EXCEPT !.state = "leased", !.node = n, !.attempt = queue[l].attempt + 1]]
      BY <3>1 DEF LeaseNext
    <3>5. [queue[l] EXCEPT !.state = "leased", !.node = n, !.attempt = queue[l].attempt + 1] \in Record
      <4>1. queue[l].attempt + 1 \in Published
        BY <3>3 DEF Record, Published
      <4>2. ASSUME NEW a \in Published
            PROVE  [queue[l] EXCEPT !.state = "leased", !.node = n, !.attempt = a] \in Record
        BY <3>3 DEF Record
      <4>3. \A a \in Published : [queue[l] EXCEPT !.state = "leased", !.node = n, !.attempt = a] \in Record
        BY <4>2, Zenon
      <4> QED  BY <4>1, <4>3, Zenon
    <3>6. queue' \in [Layers -> Record] /\ \A m \in Layers \ {l} : queue'[m] = queue[m]
      BY <3>4, <3>5, NowTyped
    <3>7. expired' \subseteq Leased'
      BY <1>9, <3>3, <3>6, NowTyped DEF Grant, Leased
    <3> QED  BY <1>9, <3>2, <3>6, <3>7, NowTyped, ControlTypesKept DEF Grant
  <2> QED  BY <1>9, <2>1, <2>2 DEF Grant
<1>10. CASE GrantLaunch
  <2>1. lease \in Leased
    BY <1>10 DEF GrantLaunch, LoopOK
  <2>2. ControlTyped'
    BY <1>10, GotoTypes, NowTyped, Labels DEF GrantLaunch, ManagerLoop, ControlTyped
  <2> QED  BY <1>10, <2>1, <2>2, NowTyped, LaunchTypes, ControlTypesKept DEF GrantLaunch, Leased
<1>11. CASE BlockKill
  <2>1. ControlTyped'
    BY <1>11, GotoStopTypes, Labels DEF BlockKill, ManagerBlock
  <2> QED  BY <1>11, <2>1, KillTypes, NowTyped, ControlTypesKept DEF BlockKill, Leased
<1>12. CASE BlockStop
  <2>1. ControlTyped' /\ jobs' \subseteq Job
    BY <1>1, <1>12, GotoTypes, GotoStopTypes, StopTypes, NowTyped, Labels DEF BlockStop, ManagerBlock, ControlTyped
  <2> QED  BY <1>12, <2>1, NowTyped, ControlTypesKept DEF BlockStop, Leased
<1>13. CASE BlockRequeue
  <2>1. ControlTyped'
    BY <1>13, GotoTypes, NowTyped, Labels DEF BlockRequeue, ManagerBlock, ControlTyped
  <2>2. queue' \in [Layers -> Record] /\ expired' \subseteq Leased'
    BY <1>13, RequeueTypes, NowTyped DEF BlockRequeue, Leased
  <2> QED  BY <1>13, <2>1, <2>2, NowTyped, ControlTypesKept DEF BlockRequeue
<1>14. CASE ManagerCrash
  <2>1. ControlTyped' /\ faults' \in 0 .. MaxFaults
    BY <1>14, GotoTypes, FaultTyped, Labels DEF ManagerCrash, Guard
  <2> QED  BY <1>14, <2>1, NowTyped, ControlTypesKept DEF ManagerCrash, Leased
<1> QED
  BY <1>2, <1>3, <1>4, <1>5, <1>6, <1>7, <1>8, <1>9, <1>10, <1>11, <1>12, <1>13, <1>14 DEF Manager

LEMMA OperatorTypes ==
  ASSUME TypeOK, RunGuard \/ Resume \/ Restart \/ RunRestart \/ StopServices \/ Repair \/ Check \/ HostCrash
  PROVE  TypeOK'
<1> USE DEF files, remote, host, outside
<1>1. ASSUME NEW here, NEW next \in ControlSteps, KillAll(here, next) PROVE TypeOK'
  <2>1. ControlTyped'
    BY <1>1, GotoStopTypes DEF KillAll
  <2> QED  BY <1>1, <2>1, KillTypes, NowTyped, ControlTypesKept DEF KillAll, Leased
<1>2. ASSUME NEW here \in ControlSteps, NEW next \in ControlSteps, StopAll(here, next) PROVE TypeOK'
  <2>1. ControlTyped' /\ jobs' \subseteq Job
    <3>1. CASE \E p \in stops : StopNode(p) /\ GotoStop(here, stops \ {p})
      BY <3>1, GotoStopTypes, StopTypes, NowTyped DEF ControlTyped
    <3>2. CASE Goto(next, {}) /\ UNCHANGED jobs
      BY <3>2, GotoTypes, NowTyped
    <3> QED  BY <1>2, <3>1, <3>2 DEF StopAll
  <2> QED  BY <1>2, <2>1, NowTyped, ControlTypesKept DEF StopAll, Leased
<1>3. CASE RunGuard
  BY <1>1, <1>2, <1>3, Labels DEF RunGuard, Guard
<1>4. CASE RunRestart
  BY <1>1, <1>2, <1>4, Labels DEF RunRestart, Recovery
<1>5. CASE Resume
  <2>1. ControlTyped'
    BY <1>5, GotoTypes, Labels DEF Resume, ManagerLoop
  <2> QED  BY <1>5, <2>1, NowTyped, ControlTypesKept DEF Resume, Leased
<1>6. CASE Restart
  <2>1. ControlTyped'
    BY <1>6, GotoTypes, NowTyped, Labels DEF Restart, Recovery
  <2> QED  BY <1>6, <2>1, NowTyped, ControlTypesKept DEF Restart, Leased
<1>10. CASE StopServices
  <2>1. ControlTyped' /\ obstacles' \subseteq Obstacles
    BY <1>10, GotoTypes, NowTyped, Labels DEF StopServices, Recovery
  <2> QED  BY <1>10, <2>1, NowTyped, ControlTypesKept DEF StopServices, Leased
<1>7. CASE Repair
  <2>1. ControlTyped'
    BY <1>7, GotoTypes, Labels DEF Repair, Recovery
  <2>2. queue' \in [Layers -> Record]
    <3>1. ASSUME NEW r \in Record PROVE [r EXCEPT !.state = "completed"] \in Record
      BY DEF Record
    <3>2. Leased \subseteq Layers /\ \A l \in Layers : queue[l] \in Record
      BY NowTyped DEF Leased
    <3> QED  BY <1>7, <3>1, <3>2, RequeuedTyped DEF Repair
  <2> QED  BY <1>7, <2>1, <2>2, NowTyped, ControlTypesKept DEF Repair
<1>8. CASE Check
  <2>1. ControlTyped'
    BY <1>8, GotoTypes, Labels DEF Check, ManagerLoop, Guard
  <2>2. \A l \in Layers : queue'[l] \in Record /\ queue'[l].state = queue[l].state
    <3>1. ASSUME NEW r \in Record
          PROVE  LET s == [r EXCEPT !.preferred = r.node] IN s \in Record /\ s.state = r.state
      BY DEF Record
    <3> QED  BY <1>8, <3>1, NowTyped DEF Check
  <2>3. queue' \in [Layers -> Record]
    BY <1>8, <2>2 DEF Check
  <2>4. expired' \subseteq Leased'
    BY <1>8, <2>2, NowTyped DEF Check, Leased
  <2>5. obstacles' \subseteq Obstacles /\ faults' = faults
    BY <1>8, NowTyped DEF Check
  <2> QED  BY <1>8, <2>1, <2>3, <2>4, <2>5, NowTyped, ControlTypesKept DEF Check
<1>9. CASE HostCrash
  <2>1. ControlTyped' /\ faults' \in 0 .. MaxFaults
    BY <1>9, GotoTypes, FaultTyped, Labels DEF HostCrash
  <2>2. workers' \in [Nodes -> Worker \cup {None}] /\ traps' \subseteq Trap
    BY <1>9 DEF HostCrash
  <2> QED  BY <1>9, <2>1, <2>2, NowTyped, ControlTypesKept DEF HostCrash, Leased
<1> QED
  BY <1>3, <1>4, <1>5, <1>6, <1>7, <1>8, <1>9, <1>10

LEMMA TypesInit == Init => TypeOK
<1> SUFFICES ASSUME Init PROVE TypeOK
  OBVIOUS
<1>1. \A l \in Layers : Preferred(l) \in Nodes \cup {None}
  BY DEF Preferred
<1>2. queue \in [Layers -> Record]
  BY <1>1 DEF Init, Record, Published
<1> QED
  BY <1>2 DEF Init, TypeOK, Leased, Published, Leases, ControlSteps

LEMMA TypesStep == TypeOK /\ Leasing /\ LoopOK /\ [Next]_vars => TypeOK'
<1> SUFFICES ASSUME TypeOK, Leasing, LoopOK, [Next]_vars PROVE TypeOK'
  OBVIOUS
<1>1. CASE Next
  <2>1. CASE ControlStep \/ ManagerCrash \/ Resume \/ Restart \/ HostCrash
    BY <2>1, ManagerTypes, OperatorTypes DEF ControlStep
  <2>2. CASE \E n \in Nodes : workers[n] # None /\ Works(n)
    BY <2>2, WorkerTypes
  <2>3. CASE \E n \in Nodes : NodeReboots(n)
    BY <2>3, RebootTypes
  <2>4. CASE \E t \in traps : OrphanTrap(t)
    BY <2>4, TrapTypes
  <2>5. CASE \E j \in jobs : JobStep(j) \/ EncoderFails(j)
    BY <2>5, JobTypes
  <2>6. CASE \E l \in Layers : StuckExpires(l) \/ SlowExpires(l)
    BY <2>6, ExpireTypes
  <2>7. CASE Finished
    BY <2>7 DEF Finished, vars, TypeOK, Leased
  <2>8. CASE Outside
    BY <2>8, OutsideTypes
  <2> QED
    BY <1>1, <2>1, <2>2, <2>3, <2>4, <2>5, <2>6, <2>7, <2>8 DEF Next, WorkerStep, Works
<1>2. CASE UNCHANGED vars
  BY <1>2 DEF vars, TypeOK, Leased
<1> QED
  BY <1>1, <1>2

-----------------------------------------------------------------------------
(* The queue and the manager's place in its loops *)

\* What a step may do to a layer's record.
Keeps(l) ==
  /\ queue'[l].state = queue[l].state /\ queue'[l].node = queue[l].node
  /\ queue'[l].attempt = queue[l].attempt
Completes(l) ==
  /\ l \in Leased /\ queue'[l].state = "completed" /\ queue'[l].node = queue[l].node
  /\ queue'[l].attempt = queue[l].attempt /\ ValidResult(l)
Returns(l) ==
  /\ l \in Leased /\ queue'[l].state = "pending" /\ queue'[l].node = queue[l].node
  /\ queue'[l].attempt = queue[l].attempt
Granted(l, n) ==
  /\ l \in Pending /\ ~ActiveNode(n) /\ n \in Nodes
  /\ queue'[l].state = "leased" /\ queue'[l].node = n
  /\ queue'[l].attempt = queue[l].attempt + 1 /\ queue'[l].attempt \in Attempts
  /\ \A m \in Layers \ {l} : Keeps(m)

\* A new lease is launched next.
ToLaunch(l) == at' = "grantLaunch" /\ lease' = l /\ UNCHANGED <<exits, jobs>>

QueueMoves ==
  \/ \A l \in Layers : Keeps(l) \/ Completes(l) \/ Returns(l)
  \/ at = "grant" /\ \E l \in Layers, n \in Nodes : Granted(l, n) /\ ToLaunch(l)

LEMMA RequeueMoves ==
  ASSUME TypeOK, NEW S \in SUBSET Leased, RequeueAll(S)
  PROVE  \A l \in Layers : IF l \in S THEN Returns(l) ELSE Keeps(l)
<1>1. S \subseteq Layers
  BY DEF Leased
<1>2. /\ \A l \in Layers \ S : queue'[l] = queue[l]
      /\ \A l \in S : queue'[l] = [queue[l] EXCEPT !.state = "pending"]
  BY <1>1, RequeuedTyped DEF RequeueAll
<1>3. \A l \in S : queue[l] \in Record
  BY <1>1, NowTyped
<1>4. ASSUME NEW l \in S PROVE Returns(l)
  <2>1. [queue[l] EXCEPT !.state = "pending"].node = queue[l].node
        /\ [queue[l] EXCEPT !.state = "pending"].attempt = queue[l].attempt
        /\ [queue[l] EXCEPT !.state = "pending"].state = "pending"
    BY <1>3 DEF Record
  <2> QED  BY <1>2, <2>1 DEF Returns
<1> QED
  BY <1>2, <1>4 DEF Keeps

LEMMA FinishMoves ==
  ASSUME TypeOK, NEW l \in Leased, Finish(l), ValidResult(l)
  PROVE  Completes(l) /\ \A m \in Layers \ {l} : Keeps(m)
<1>1. l \in Layers /\ queue[l] \in Record /\ queue \in [Layers -> Record]
  BY NowTyped DEF Leased
<1>2. queue'[l] = [queue[l] EXCEPT !.state = "completed"] /\ \A m \in Layers \ {l} : queue'[m] = queue[m]
  BY <1>1 DEF Finish
<1>3. LET s == [queue[l] EXCEPT !.state = "completed"]
      IN  s.node = queue[l].node /\ s.attempt = queue[l].attempt /\ s.state = "completed"
  BY <1>1 DEF Record
<1> QED
  BY <1>2, <1>3 DEF Completes, Keeps

LEMMA GrantMoves ==
  ASSUME TypeOK, NEW l \in Layers, NEW n \in Nodes, Candidate(l, n), ~ActiveNode(n), LeaseNext(l, n)
  PROVE  Granted(l, n)
<1>1. queue[l] \in Record /\ queue \in [Layers -> Record] /\ l \in Pending /\ queue[l].attempt < MaxAttempts
  BY NowTyped DEF Candidate, Grantable
<1>2. queue'[l] = [queue[l] EXCEPT !.state = "leased", !.node = n, !.attempt = queue[l].attempt + 1]
      /\ \A m \in Layers \ {l} : queue'[m] = queue[m]
  BY <1>1 DEF LeaseNext
<1>3. ASSUME NEW a
      PROVE  LET s == [queue[l] EXCEPT !.state = "leased", !.node = n, !.attempt = a]
             IN  s.node = n /\ s.attempt = a /\ s.state = "leased"
  BY <1>1 DEF Record
<1>4. queue[l].attempt + 1 \in Attempts
  BY <1>1 DEF Record, Published, Attempts
<1> QED
  BY <1>1, <1>2, <1>3, <1>4 DEF Granted, Keeps

LEMMA RepairMoves == ASSUME TypeOK, Repair PROVE \A l \in Layers : Keeps(l) \/ Completes(l) \/ Returns(l)
<1> DEFINE done == {l \in Leased : ValidResult(l)}
<1>1. queue' = [l \in Layers |-> IF l \in done THEN [queue[l] EXCEPT !.state = "completed"] ELSE Requeued(Leased)[l]]
  BY DEF Repair
<1>2. Leased \in SUBSET Layers /\ \A l \in Layers : queue[l] \in Record
  BY NowTyped DEF Leased
<1>3. \A l \in Layers : Requeued(Leased)[l] = IF l \in Leased THEN [queue[l] EXCEPT !.state = "pending"] ELSE queue[l]
  BY DEF Requeued
<1>4. ASSUME NEW l \in Layers, NEW state
      PROVE  LET s == [queue[l] EXCEPT !.state = state]
             IN  s.node = queue[l].node /\ s.attempt = queue[l].attempt /\ s.state = state
  BY <1>2 DEF Record
<1>5. ASSUME NEW l \in Layers, l \in done PROVE Completes(l)
  <2>1. queue'[l] = [queue[l] EXCEPT !.state = "completed"]
    BY <1>1, <1>5
  <2> QED  BY <1>4, <1>5, <2>1 DEF Completes
<1>6. ASSUME NEW l \in Layers, l \in Leased \ done PROVE Returns(l)
  <2>1. queue'[l] = [queue[l] EXCEPT !.state = "pending"]
    BY <1>1, <1>3, <1>6
  <2> QED  BY <1>4, <1>6, <2>1 DEF Returns
<1>7. ASSUME NEW l \in Layers, l \notin Leased PROVE Keeps(l)
  <2>1. queue'[l] = queue[l]
    BY <1>1, <1>3, <1>7
  <2> QED  BY <2>1 DEF Keeps
<1> QED
  BY <1>5, <1>6, <1>7

LEMMA CheckMoves == ASSUME TypeOK, Check PROVE \A l \in Layers : Keeps(l)
<1>1. ASSUME NEW r \in Record
      PROVE  LET s == [r EXCEPT !.preferred = r.node] IN s.node = r.node /\ s.attempt = r.attempt /\ s.state = r.state
  BY DEF Record
<1> QED
  BY <1>1, NowTyped DEF Check, Keeps

Place == <<at, todo, stops, lease>>

\* What everybody but the control host leaves alone.
Others ==
  \/ \E n \in Nodes : workers[n] # None /\ Works(n)
  \/ \E n \in Nodes : NodeReboots(n)
  \/ \E t \in traps : OrphanTrap(t)
  \/ \E j \in jobs : JobStep(j) \/ EncoderFails(j)
  \/ \E l \in Layers : StuckExpires(l) \/ SlowExpires(l)
  \/ Outside

LEMMA OthersFrame == ASSUME TypeOK, Others PROVE UNCHANGED <<queue, Place>>
<1>1. ASSUME NEW n \in Nodes, Works(n) PROVE UNCHANGED <<queue, Place>>
  BY <1>1 DEF Works, WorkerStep, WorkerFail, LookFails, WorkerBegin, WorkerStart, WorkerSession, WorkerLaunch, WorkerWait, WorkerVerify, WorkerPublish,
     WorkerResult, WorkerClean, WorkerTrap, control, Place
<1>2. ASSUME NEW t \in traps, OrphanTrap(t) PROVE UNCHANGED <<queue, Place>>
  BY <1>2 DEF OrphanTrap, control, Place
<1> QED
  BY <1>1, <1>2, RebootTypes, JobTypes, ExpireTypes, OutsideTypes DEF Beside, Place, Others

LEMMA QueueStep == TypeOK /\ LoopOK /\ [Next]_vars => QueueMoves
<1> SUFFICES ASSUME TypeOK, LoopOK, [Next]_vars PROVE QueueMoves
  OBVIOUS
<1>1. ASSUME UNCHANGED queue PROVE QueueMoves
  BY <1>1 DEF QueueMoves, Keeps
<1>2. CASE Next
  <2>1. ASSUME NEW l \in Layers, ScanResult(l) \/ ScanTimeout(l) PROVE QueueMoves
    <3>1. l \in Leased /\ {l} \in SUBSET Leased
      BY <2>1 DEF ScanResult, ScanTimeout, Least, LoopOK
    <3> QED
      BY <2>1, <3>1, <1>1, FinishMoves, RequeueMoves DEF ScanResult, ScanTimeout, QueueMoves
  <2>2. CASE BlockRequeue
    <3>1. ASSUME NEW l \in Layers, Least(l, todo), RequeueAll({l}), at = "requeue" PROVE QueueMoves
      <4>1. {l} \in SUBSET Leased
        BY <3>1 DEF Least, LoopOK
      <4> QED  BY <3>1, <4>1, RequeueMoves DEF QueueMoves
    <3> QED  BY <2>2, <3>1, <1>1 DEF BlockRequeue
  <2>3. ASSUME NEW n \in Nodes, Grant(n) PROVE QueueMoves
    BY <2>3, <1>1, GrantMoves DEF Grant, QueueMoves, ToLaunch, remote
  <2>4. CASE Repair \/ Check
    BY <2>4, RepairMoves, CheckMoves DEF QueueMoves
  <2>8. CASE StopServices
    BY <2>8, <1>1 DEF StopServices
  <2>5. CASE Top \/ ScanLaunch \/ ScanDone \/ Audit \/ GrantLaunch \/ GrantDone \/ BlockKill \/ BlockStop
             \/ WriteBlocked \/ ManagerCrash \/ Resume \/ Restart \/ HostCrash \/ Finished
    BY <2>5, <1>1 DEF Top, ScanLaunch, ScanDone, Audit, GrantLaunch, GrantDone, BlockKill, BlockStop,
       WriteBlocked, ManagerCrash, Resume, Restart, HostCrash, Finished, vars
  <2>6. CASE RunGuard \/ RunRestart
    BY <2>6, <1>1 DEF RunGuard, RunRestart, KillAll, StopAll
  <2>7. ASSUME NEW l \in Layers, ScanActive(l) PROVE QueueMoves
    BY <2>7, <1>1 DEF ScanActive
  <2> QED
    BY <1>1, <1>2, <2>1, <2>2, <2>3, <2>4, <2>5, <2>6, <2>7, <2>8, OthersFrame DEF Next, ControlStep, Manager, Others, Works, WorkerStep
<1>3. CASE UNCHANGED vars
  BY <1>1, <1>3 DEF vars
<1> QED
  BY <1>2, <1>3

LEMMA LeasingStep == ASSUME Leasing, QueueMoves PROVE Leasing'
BY DEF Leasing, QueueMoves, Keeps, Completes, Returns, Granted, Leased, Pending

LEMMA OneLeaseStep == ASSUME OneLease, QueueMoves PROVE OneLease'
<1>1. CASE \A l \in Layers : Keeps(l) \/ Completes(l) \/ Returns(l)
  <2>1. \A l \in Leased' : l \in Leased /\ queue'[l].node = queue[l].node
    BY <1>1 DEF Keeps, Completes, Returns, Leased
  <2> QED  BY <2>1 DEF OneLease
<1>2. ASSUME NEW l \in Layers, NEW n \in Nodes, Granted(l, n) PROVE OneLease'
  <2>1. \A m \in Leased' : m # l => m \in Leased /\ queue'[m].node = queue[m].node
    BY <1>2 DEF Granted, Keeps, Leased
  <2>2. \A m \in Leased' : m # l => queue'[m].node # n
    BY <1>2, <2>1 DEF Granted, ActiveNode
  <2>3. queue'[l].node = n
    BY <1>2 DEF Granted
  <2> QED  BY <2>1, <2>2, <2>3 DEF OneLease
<1> QED
  BY <1>1, <1>2 DEF QueueMoves

LEMMA LoopStep == TypeOK /\ LoopOK /\ [Next]_vars => LoopOK'
<1> SUFFICES ASSUME TypeOK, LoopOK, [Next]_vars PROVE LoopOK'
  OBVIOUS
<1>1. ASSUME UNCHANGED <<queue, Place>> PROVE LoopOK'
  BY <1>1 DEF Place, LoopOK, Leased
<1>2. ASSUME NEW label, NEW S, Goto(label, S) \/ GotoStop(label, S),
             label \notin {"scan", "scanLaunch", "requeue", "grantLaunch"}
      PROVE  LoopOK'
  BY <1>2 DEF Goto, GotoStop, LoopOK
<1>3. ASSUME NEW label \in {"scan", "requeue"}, NEW S \in SUBSET Leased', Goto(label, S) PROVE LoopOK'
  BY <1>3 DEF Goto, LoopOK
<1>4. ASSUME NEW l \in Leased, \A m \in Layers \ {l} : Keeps(m) PROVE Leased \ {l} \subseteq Leased'
  BY <1>4 DEF Keeps, Leased
<1>5. CASE Next
  <2>1. ASSUME NEW l \in Layers, ScanResult(l) \/ ScanTimeout(l) PROVE LoopOK'
    <3>1. l \in Leased /\ todo \subseteq Leased
      BY <2>1 DEF ScanResult, ScanTimeout, Least, LoopOK
    <3>2. CASE Finish(l) /\ Goto("scan", todo \ {l}) /\ ValidResult(l)
      <4>1. todo \ {l} \in SUBSET Leased'
        BY <1>4, <3>1, <3>2, FinishMoves
      <4> QED  BY <1>3, <3>2, <4>1
    <3>3. CASE Goto("kill", {})
      BY <1>2, <3>3
    <3> QED  BY <2>1, <3>2, <3>3 DEF ScanResult, ScanTimeout, Block
  <2>2. CASE Top
    <3>1. Leased' = Leased
      BY <2>2 DEF Top, Leased
    <3> QED  BY <1>2, <1>3, <2>2, <3>1 DEF Top, Block
  <2>3. ASSUME NEW l \in Layers, ScanActive(l) PROVE LoopOK'
    <3>1. l \in Leased /\ todo \subseteq Leased /\ Leased' = Leased
      BY <2>3 DEF ScanActive, Least, LoopOK, Leased
    <3> QED  BY <2>3, <3>1 DEF ScanActive, LoopOK
  <2>4. CASE ScanLaunch
    <3>1. todo \subseteq Leased /\ Leased' = Leased
      BY <2>4 DEF ScanLaunch, LoopOK, Leased
    <3> QED  BY <1>3, <2>4, <3>1 DEF ScanLaunch
  <2>5. CASE ScanDone \/ Audit \/ GrantLaunch \/ GrantDone \/ BlockKill \/ WriteBlocked \/ ManagerCrash
             \/ Resume \/ Restart \/ HostCrash \/ StopServices \/ Repair \/ Check
    BY <2>5, <1>2 DEF ScanDone, Audit, GrantLaunch, GrantDone, BlockKill, WriteBlocked, ManagerCrash,
       Resume, Restart, HostCrash, StopServices, Repair, Check, Block
  <2>6. ASSUME NEW n \in Nodes, Grant(n) PROVE LoopOK'
    <3>1. ASSUME NEW l \in Layers, Granted(l, n), at' = "grantLaunch", lease' = l PROVE LoopOK'
      BY <3>1 DEF LoopOK, Granted, Leased
    <3> QED  BY <2>6, <1>2, <3>1, GrantMoves DEF Grant
  <2>7. CASE BlockStop
    <3>1. Leased' = Leased
      BY <2>7 DEF BlockStop, Leased
    <3>2. CASE Goto("requeue", Leased)
      BY <1>3, <3>1, <3>2
    <3>3. ASSUME NEW S, GotoStop("stop", S) PROVE LoopOK'
      BY <1>2, <3>3
    <3> QED  BY <2>7, <3>2, <3>3 DEF BlockStop
  <2>8. CASE BlockRequeue
    <3>1. ASSUME NEW l \in Layers, Least(l, todo), RequeueAll({l}), at = "requeue", Goto("requeue", todo \ {l})
          PROVE  LoopOK'
      <4>1. l \in Leased /\ {l} \in SUBSET Leased /\ todo \subseteq Leased
        BY <3>1 DEF Least, LoopOK
      <4>2. todo \ {l} \in SUBSET Leased'
        BY <1>4, <3>1, <4>1, RequeueMoves
      <4> QED  BY <1>3, <3>1, <4>2
    <3> QED  BY <1>2, <2>8, <3>1 DEF BlockRequeue
  <2>9. CASE RunGuard \/ RunRestart
    BY <2>9, <1>2 DEF RunGuard, RunRestart, KillAll, StopAll
  <2>10. CASE Finished
    BY <2>10, <1>1 DEF Finished, vars, Place
  <2> QED
    BY <1>1, <1>5, <2>1, <2>2, <2>3, <2>4, <2>5, <2>6, <2>7, <2>8, <2>9, <2>10, OthersFrame
       DEF Next, ControlStep, Manager, Others, Works, WorkerStep
<1>6. CASE UNCHANGED vars
  BY <1>1, <1>6 DEF vars, Place
<1> QED
  BY <1>5, <1>6

-----------------------------------------------------------------------------
(* Results and publications *)

\* The control host writes neither.
LEMMA ControlFiles ==
  ASSUME ControlStep \/ ManagerCrash \/ Resume \/ Restart \/ HostCrash \/ Finished
  PROVE  UNCHANGED <<results, published>>
<1> USE DEF files, vars
<1>1. CASE Manager
  BY <1>1 DEF Manager, Top, ScanResult, ScanTimeout, ScanActive, ScanLaunch, ScanDone, Audit, Grant,
     GrantLaunch, GrantDone, BlockKill, BlockStop, BlockRequeue, WriteBlocked
<1>2. CASE RunGuard \/ RunRestart \/ StopServices \/ Repair \/ Check
  BY <1>2 DEF RunGuard, RunRestart, KillAll, StopAll, StopServices, Repair, Check
<1>3. CASE ManagerCrash \/ Resume \/ Restart \/ HostCrash \/ Finished
  BY <1>3 DEF ManagerCrash, Resume, Restart, HostCrash, Finished
<1> QED
  BY <1>1, <1>2, <1>3 DEF ControlStep

LEMMA WorkerFiles ==
  ASSUME TypeOK, NEW n \in Nodes, workers[n] # None, Works(n)
  PROVE  /\ results' = results \/ \E r : results' = [results EXCEPT ![LeaseIn(workers[n])] = r]
         /\ results' # results =>
              \/ workers[n].at = "result"
              \/ /\ workers[n].at = "trapWrite"
                 /\ results' = [results EXCEPT ![LeaseIn(workers[n])] = Failed]
         /\ \A l \in Layers : published[l] # 0 => published'[l] = published[l]
<1> USE DEF files
<1>1. published \in [Layers -> Published]
  BY DEF TypeOK
<1>2. CASE WorkerBegin(n) \/ WorkerStart(n) \/ WorkerSession(n) \/ WorkerLaunch(n) \/ WorkerWait(n)
           \/ WorkerVerify(n) \/ WorkerClean(n) \/ WorkerFail(n) \/ LookFails(n)
  BY <1>2 DEF WorkerBegin, WorkerStart, WorkerSession, WorkerLaunch, WorkerWait, WorkerVerify, WorkerClean,
     WorkerFail, LookFails
<1>3. CASE WorkerPublish(n)
  BY <1>1, <1>3 DEF WorkerPublish
<1>4. CASE WorkerResult(n)
  <2>1. /\ results' = [results EXCEPT ![LeaseIn(workers[n])] = [passed |-> TRUE, of |-> published[workers[n].layer]]]
        /\ workers[n].at = "result" /\ published' = published
    BY <1>4 DEF WorkerResult, LeaseIn
  <2>2. \E r : results' = [results EXCEPT ![LeaseIn(workers[n])] = r]
    <3> WITNESS [passed |-> TRUE, of |-> published[workers[n].layer]]
    <3> QED  BY <2>1
  <2>3. workers[n].at = "result" /\ published' = published
    BY <2>1
  <2> QED  BY <2>2, <2>3
<1>5. CASE WorkerTrap(n)
  BY <1>5 DEF WorkerTrap, WriteFailed, LeaseIn
<1> QED
  BY <1>2, <1>3, <1>4, <1>5 DEF WorkerStep, Works

Stands == \A i \in Leases : Passing(results[i]) => results'[i] = results[i]
Final == \A l \in Layers : published[l] # 0 => published'[l] = published[l]

LEMMA FilesStep == TypeOK /\ Fresh /\ Writes /\ [Next]_vars => Stands /\ Final
<1> SUFFICES ASSUME TypeOK, Fresh, Writes, [Next]_vars PROVE Stands /\ Final
  OBVIOUS
<1>1. ASSUME UNCHANGED <<results, published>> PROVE Stands /\ Final
  BY <1>1 DEF Stands, Final
<1>2. results \in [Leases -> Result \cup {None}]
  BY DEF TypeOK
<1>3. ASSUME NEW n \in Nodes, workers[n] # None, Works(n) PROVE Stands /\ Final
  <2>1. ASSUME results' # results PROVE ~Passing(results[LeaseIn(workers[n])])
    BY <1>3, <2>1, WorkerFiles DEF Fresh, Writes, AtWork, WorkerSteps, Passing
  <2> QED  BY <1>2, <1>3, <2>1, WorkerFiles DEF Stands, Final
<1>4. ASSUME NEW t \in traps, OrphanTrap(t) PROVE Stands /\ Final
  BY <1>2, <1>4 DEF OrphanTrap, WriteFailed, LeaseIn, Writes, Stands, Final
<1>5. CASE Next
  BY <1>1, <1>3, <1>4, <1>5, ControlFiles, RebootTypes, JobTypes, ExpireTypes, OutsideTypes DEF Next, Beside, Works, WorkerStep
<1>6. CASE UNCHANGED vars
  BY <1>1, <1>6 DEF vars
<1> QED
  BY <1>5, <1>6

LEMMA DoneStep ==
  ASSUME TypeOK, Leasing, Done, QueueMoves, Stands, Final PROVE Done'
<1>1. ASSUME NEW l \in Layers, queue[l].state # "pending", ValidResult(l), queue'[l].attempt = queue[l].attempt
      PROVE  ValidResult(l)'
  <2>1. LeaseOf(l) \in Leases /\ LeaseOf(l)' = LeaseOf(l)
    BY <1>1 DEF LeaseOf, Leases, Leasing
  <2>2. results'[LeaseOf(l)] = results[LeaseOf(l)] /\ published'[l] = published[l]
    BY <1>1, <2>1 DEF Stands, Final, ValidResult
  <2> QED  BY <1>1, <2>1, <2>2 DEF ValidResult, Passing
<1>2. ASSUME NEW l \in Completed' PROVE ValidResult(l)'
  <2>1. Keeps(l) \/ Completes(l)
    BY <1>2 DEF Completed, QueueMoves, Keeps, Returns, Granted
  <2> QED  BY <1>1, <1>2, <2>1 DEF Keeps, Completes, Done, Completed, Leased
<1> QED
  BY <1>2 DEF Done

-----------------------------------------------------------------------------
(* Workers and traps *)

LEMMA StepMoves ==
  ASSUME TypeOK, NEW n \in Nodes, workers[n] # None, NEW label, Step(n, label)
  PROVE  /\ workers'[n].layer = workers[n].layer /\ workers'[n].attempt = workers[n].attempt
         /\ workers'[n].at = label
         /\ \A m \in Nodes \ {n} : workers'[m] = workers[m]
<1>1. workers[n] \in Worker /\ workers \in [Nodes -> Worker \cup {None}]
  BY DEF TypeOK
<1>2. workers'[n] = [workers[n] EXCEPT !.at = label] /\ \A m \in Nodes \ {n} : workers'[m] = workers[m]
  BY <1>1 DEF Step
<1>3. ASSUME NEW w \in Worker
      PROVE  LET v == [w EXCEPT !.at = label] IN v.layer = w.layer /\ v.attempt = w.attempt /\ v.at = label
  BY DEF Worker
<1> QED
  BY <1>1, <1>2, <1>3

\* A worker keeps its lease; it goes to work, or to write a failure, only where
\* there is no result.
Moved(n) ==
  /\ UNCHANGED <<queue, Place, traps>>
  /\ \A m \in Nodes \ {n} : workers'[m] = workers[m]
  /\ workers'[n] # None =>
       /\ workers'[n].layer = workers[n].layer /\ workers'[n].attempt = workers[n].attempt
       /\ workers'[n].at \in AtWork \cup {"trapWrite"} =>
            results' = results /\ results[LeaseIn(workers[n])] = None

LEMMA WorkerMoves ==
  ASSUME TypeOK, Fresh, NEW n \in Nodes, workers[n] # None, Works(n)
  PROVE  Moved(n)
<1> USE DEF control, files
<1>1. workers[n] \in Worker /\ workers \in [Nodes -> Worker \cup {None}]
  BY DEF TypeOK
<1>2. ASSUME NEW label, Step(n, label), UNCHANGED <<queue, Place, traps>>,
             label \in AtWork \cup {"trapWrite"} => results' = results /\ results[LeaseIn(workers[n])] = None
      PROVE  Moved(n)
  BY <1>2, StepMoves DEF Moved
<1>3. ASSUME workers' = [workers EXCEPT ![n] = None], UNCHANGED <<queue, Place, traps>> PROVE Moved(n)
  BY <1>1, <1>3 DEF Moved
<1>4. CASE WorkerBegin(n)
  <2>1. UNCHANGED <<queue, Place, traps, results>>
    BY <1>4 DEF WorkerBegin, Place
  <2>2. CASE results[LeaseIn(workers[n])] = None
    BY <1>2, <1>4, <2>1, <2>2 DEF WorkerBegin, LeaseIn
  <2>3. CASE results[LeaseIn(workers[n])] # None
    <3>1. Step(n, "trap")
      BY <1>4, <2>3 DEF WorkerBegin, LeaseIn
    <3> QED  BY <1>2, <2>1, <3>1 DEF AtWork, WorkerSteps
  <2> QED  BY <2>2, <2>3
<1>5. CASE WorkerStart(n) \/ WorkerSession(n) \/ WorkerLaunch(n) \/ WorkerWait(n) \/ WorkerVerify(n)
           \/ WorkerPublish(n) \/ LookFails(n)
  <2> USE DEF WorkerStart, WorkerSession, WorkerLaunch, WorkerWait, WorkerVerify, WorkerPublish, LookFails
  <2>1. UNCHANGED <<queue, Place, traps, results>>
    BY <1>5 DEF Place
  <2>2. workers[n].at \in AtWork
    BY <1>5 DEF AtWork, WorkerSteps
  <2>3. results[LeaseIn(workers[n])] = None
    BY <2>2 DEF Fresh
  <2>4. \E label : Step(n, label)
    BY <1>5
  <2> QED  BY <1>2, <2>1, <2>3, <2>4
<1>6. CASE WorkerResult(n)
  <2>1. Step(n, "clean") /\ UNCHANGED <<queue, Place, traps>>
    BY <1>6 DEF WorkerResult, Place
  <2> QED  BY <1>2, <2>1 DEF AtWork, WorkerSteps
<1>7. CASE WorkerClean(n)
  BY <1>3, <1>7 DEF WorkerClean, Place
<1>8. CASE WorkerFail(n)
  <2>1. Step(n, "trap") /\ UNCHANGED <<queue, Place, traps>>
    BY <1>8 DEF WorkerFail, Place
  <2> QED  BY <1>2, <2>1 DEF AtWork, WorkerSteps
<1>9. CASE WorkerTrap(n)
  <2>1. UNCHANGED <<queue, Place, traps>>
    BY <1>9 DEF WorkerTrap, Place
  <2>2. CASE workers' = [workers EXCEPT ![n] = None]
    BY <1>3, <2>1, <2>2
  <2>3. CASE workers' # [workers EXCEPT ![n] = None]
    <3>1. /\ TrapNext(workers[n]) # "gone" /\ results' = results
          /\ workers' = [workers EXCEPT ![n] = [@ EXCEPT !.at = "trapWrite"]]
      BY <1>1, <1>9, <2>3 DEF WorkerTrap
    <3>2. results[LeaseIn(workers[n])] = None
      BY <3>1 DEF TrapNext, LeaseIn
    <3>3. Step(n, "trapWrite")
      BY <1>1, <3>1 DEF Step
    <3> QED  BY <1>2, <2>1, <3>1, <3>2, <3>3
  <2> QED  BY <2>2, <2>3
<1> QED
  BY <1>4, <1>5, <1>6, <1>7, <1>8, <1>9 DEF WorkerStep, Works

\* The part of the invariant about workers and traps.
Hosts == Own /\ Idle /\ Alone /\ Fresh /\ Writes

LEMMA WorkerHosts ==
  ASSUME TypeOK, Hosts, NEW n \in Nodes, workers[n] # None, Works(n)
  PROVE  Hosts'
<1>1. Moved(n)
  BY WorkerMoves DEF Hosts
<1>2. \A m \in Nodes : workers'[m] # None =>
        /\ workers[m] # None
        /\ workers'[m].layer = workers[m].layer /\ workers'[m].attempt = workers[m].attempt
        /\ LeaseIn(workers'[m]) = LeaseIn(workers[m])
  BY <1>1 DEF Moved, LeaseIn
<1>3. at' = at /\ queue' = queue /\ traps' = traps
  BY <1>1 DEF Moved, Place
<1>4. Own'
  BY <1>2, <1>3 DEF Own, Hosts, Leased, Completed
<1>5. Idle'
  BY <1>2, <1>3 DEF Idle, Hosts
<1>6. Alone'
  BY <1>2, <1>3 DEF Alone, Hosts
<1>7. \A m \in Nodes : workers[m] # None => LeaseIn(workers[m]) \in Leases
  BY DEF TypeOK, Worker, LeaseIn, Leases
<1>8. results \in [Leases -> Result \cup {None}]
  BY DEF TypeOK
<1>9. \A m \in Nodes \ {n} : workers[m] # None => results'[LeaseIn(workers[m])] = results[LeaseIn(workers[m])]
  BY <1>7, <1>8, WorkerFiles DEF Hosts, Alone
<1>10. Fresh'
  <2> SUFFICES ASSUME NEW m \in Nodes, workers'[m] # None, workers'[m].at \in AtWork
               PROVE  results'[LeaseIn(workers'[m])] = None
    BY DEF Fresh, AtWork
  <2>1. CASE m = n
    BY <1>1, <1>2, <2>1 DEF Moved
  <2>2. CASE m # n
    <3>1. workers'[m] = workers[m]
      BY <1>1, <2>2 DEF Moved
    <3> QED  BY <1>9, <2>2, <3>1 DEF Hosts, Fresh
  <2> QED  BY <2>1, <2>2
<1>11. Writes'
  <2>1. ASSUME NEW m \in Nodes, workers'[m] # None, workers'[m].at = "trapWrite"
        PROVE  ~Passing(results'[LeaseIn(workers'[m])])
    <3>1. CASE m = n
      <4>1. results'[LeaseIn(workers'[m])] = None
        BY <1>1, <1>2, <2>1, <3>1 DEF Moved
      <4> QED  BY <4>1 DEF Passing
    <3>2. CASE m # n
      <4>1. workers'[m] = workers[m]
        BY <1>1, <3>2 DEF Moved
      <4> QED  BY <1>9, <2>1, <3>2, <4>1 DEF Hosts, Writes
    <3> QED  BY <3>1, <3>2
  <2>2. ASSUME NEW t \in traps, t.at = "trapWrite" PROVE ~Passing(results'[LeaseIn(t)])
    <3>1. LeaseIn(t) # LeaseIn(workers[n])
      BY <2>2 DEF Hosts, Alone
    <3>2. LeaseIn(t) \in Leases
      BY <2>2 DEF TypeOK, Trap, LeaseIn, Leases
    <3>3. results'[LeaseIn(t)] = results[LeaseIn(t)]
      BY <1>7, <1>8, <3>1, <3>2, WorkerFiles
    <3> QED  BY <2>2, <3>3 DEF Hosts, Writes
  <2> QED  BY <1>3, <2>1, <2>2 DEF Writes
<1> QED
  BY <1>4, <1>5, <1>6, <1>10, <1>11 DEF Hosts

\* A trap is of the same lease before and after, and writes a failure only where
\* there is no result.
LEMMA TrapMoves ==
  ASSUME TypeOK, NEW t \in traps, OrphanTrap(t)
  PROVE  /\ UNCHANGED <<workers, queue, Place>>
         /\ \A u \in traps' : \E s \in traps :
              /\ u.layer = s.layer /\ LeaseIn(u) = LeaseIn(s)
              /\ u.at = "trapWrite" => u \in traps \/ (results[LeaseIn(u)] = None /\ results' = results)
         /\ results' = results \/ results' = [results EXCEPT ![LeaseIn(t)] = Failed]
<1>1. UNCHANGED <<workers, queue, Place>>
  BY DEF OrphanTrap, control, Place
<1>2. t \in Trap
  BY DEF TypeOK
<1>3. results' = results \/ results' = [results EXCEPT ![LeaseIn(t)] = Failed]
  BY DEF OrphanTrap, WriteFailed, LeaseIn
<1>4. ASSUME NEW u \in traps'
      PROVE  \E s \in traps :
               /\ u.layer = s.layer /\ LeaseIn(u) = LeaseIn(s)
               /\ u.at = "trapWrite" => u \in traps \/ (results[LeaseIn(u)] = None /\ results' = results)
  <2>1. CASE u \in traps
    BY <2>1
  <2>2. CASE u \notin traps
    <3>1. u = [t EXCEPT !.at = "trapWrite"] /\ TrapNext(t) # "gone" /\ results' = results
      BY <1>4, <2>2 DEF OrphanTrap
    <3>2. u.layer = t.layer /\ LeaseIn(u) = LeaseIn(t)
      BY <1>2, <3>1 DEF Trap, LeaseIn
    <3>3. results[LeaseIn(t)] = None
      BY <3>1 DEF TrapNext, LeaseIn
    <3> QED  BY <3>1, <3>2, <3>3
  <2> QED  BY <2>1, <2>2
<1> QED
  BY <1>1, <1>3, <1>4

LEMMA TrapHosts ==
  ASSUME TypeOK, Hosts, NEW t \in traps, OrphanTrap(t)
  PROVE  Hosts'
<1>1. at' = at /\ queue' = queue /\ workers' = workers
  BY TrapMoves DEF Place
<1>2. \A u \in traps' : \E s \in traps : u.layer = s.layer /\ LeaseIn(u) = LeaseIn(s)
  BY TrapMoves
<1>3. results \in [Leases -> Result \cup {None}] /\ \A i \in Leases : results'[i] = results[i] \/ results'[i] = Failed
  BY TrapMoves DEF TypeOK
<1>4. \A n \in Nodes : workers[n] # None => LeaseIn(workers[n]) \in Leases
  BY DEF TypeOK, Worker, LeaseIn, Leases
<1>5. \A n \in Nodes : workers[n] # None => results'[LeaseIn(workers[n])] = results[LeaseIn(workers[n])]
  BY <1>3, <1>4, TrapMoves DEF Hosts, Alone
<1>6. Own'
  <2>1. at \in ManagerLoop => \A u \in traps' : u.layer \in Completed
    BY <1>2 DEF Hosts, Own
  <2> QED  BY <1>1, <2>1 DEF Own, Hosts, Leased, Completed
<1>7. Idle'
  BY <1>1 DEF Idle, Hosts
<1>8. Alone'
  <2>1. \A n \in Nodes : workers[n] # None => \A u \in traps' : LeaseIn(u) # LeaseIn(workers[n])
    BY <1>2 DEF Hosts, Alone
  <2> QED  BY <1>1, <2>1 DEF Alone, Hosts
<1>9. Fresh'
  BY <1>1, <1>5 DEF Fresh, Hosts
<1>10. Writes'
  <2>1. ASSUME NEW u \in traps', u.at = "trapWrite" PROVE ~Passing(results'[LeaseIn(u)])
    <3>1. CASE u \in traps
      <4>1. LeaseIn(u) \in Leases /\ ~Passing(results[LeaseIn(u)])
        BY <2>1, <3>1 DEF TypeOK, Trap, LeaseIn, Leases, Hosts, Writes
      <4> QED  BY <1>3, <4>1 DEF Passing, Failed
    <3>2. CASE u \notin traps
      <4>1. results'[LeaseIn(u)] = None
        BY <2>1, <3>2, TrapMoves
      <4> QED  BY <4>1 DEF Passing
    <3> QED  BY <3>1, <3>2
  <2>2. \A n \in Nodes : workers'[n] # None /\ workers'[n].at = "trapWrite" => ~Passing(results'[LeaseIn(workers'[n])])
    BY <1>1, <1>5 DEF Hosts, Writes
  <2> QED  BY <2>1, <2>2 DEF Writes
<1> QED
  BY <1>6, <1>7, <1>8, <1>9, <1>10 DEF Hosts

-----------------------------------------------------------------------------
(* What the control host does to workers and traps *)

\* Killing all sessions leaves traps that have not run.
LEMMA KillHosts ==
  ASSUME TypeOK, Hosts, KillSessions(Nodes), UNCHANGED results, at' \in {"stop", "guardStop", "restartStop"},
         at \in Recovery \/ at' # "restartStop"
  PROVE  Hosts'
<1>1. \A n \in Nodes : workers'[n] = None
  BY DEF KillSessions
<1>2. \A t \in traps' : t \in traps \/ t.at = "trap"
  <2>1. \A t \in Orphans(Nodes) : t.at = "trap"
    BY DEF Orphans
  <2> QED  BY <2>1 DEF KillSessions
<1>3. at' = "restartStop" => traps' = {}
  <2> SUFFICES ASSUME at' = "restartStop" PROVE traps' = {}
    OBVIOUS
  <2>1. at \in Recovery /\ traps = {}
    BY DEF Hosts, Idle
  <2>2. \A n \in Nodes : workers[n] = None
    BY <2>1 DEF Hosts, Idle, Killed
  <2>3. Orphans(Nodes) = {}
    BY <2>2 DEF Orphans
  <2> QED  BY <2>1, <2>3 DEF KillSessions
<1>4. Own' /\ Idle'
  BY <1>1, <1>3 DEF Own, Idle, ManagerLoop, Recovery
<1>5. Alone' /\ Fresh' /\ Writes'
  BY <1>1, <1>2 DEF Alone, Fresh, Writes, Hosts
<1> QED
  BY <1>4, <1>5 DEF Hosts

\* A step that touches neither, and enters the loop or a recovery only from there
\* or from a run that is down.
LEMMA PlainHosts ==
  ASSUME Hosts, UNCHANGED <<workers, traps, results>>,
         at' \in ManagerLoop => (at \in ManagerLoop /\ UNCHANGED queue) \/ (at \in Killed /\ traps = {}),
         at' \in Killed => at \in Killed,
         at' \in Recovery => traps = {}
  PROVE  Hosts'
<1>1. Own'
  <2> SUFFICES ASSUME at' \in ManagerLoop PROVE Own'
    BY DEF Own
  <2>1. CASE at \in ManagerLoop /\ UNCHANGED queue
    BY <2>1 DEF Hosts, Own, Leased, Completed
  <2>2. CASE at \in Killed /\ traps = {}
    BY <2>2 DEF Hosts, Own, Idle
  <2> QED  BY <2>1, <2>2
<1>2. Idle'
  BY DEF Hosts, Idle
<1>3. Alone' /\ Fresh' /\ Writes'
  BY DEF Hosts, Alone, Fresh, Writes
<1> QED
  BY <1>1, <1>2, <1>3 DEF Hosts

\* A launched worker has a lease nobody else has.
LEMMA LaunchHosts ==
  ASSUME TypeOK, Leasing, OneLease, Hosts, NEW l \in Leased, Launch(l), UNCHANGED <<queue, traps, results>>,
         at \in ManagerLoop, at' \in ManagerLoop
  PROVE  Hosts'
<1> DEFINE n == queue[l].node
<1> DEFINE w == [layer |-> l, attempt |-> queue[l].attempt, at |-> "begin"]
<1>1. n \in Nodes /\ workers \in [Nodes -> Worker \cup {None}]
  BY DEF TypeOK, Leasing, Leased
<1>2. \A m \in Nodes \ {n} : workers'[m] = workers[m]
  BY <1>1 DEF Launch
<1>3. workers'[n] = workers[n] \/ workers'[n] = w
  BY <1>1 DEF Launch
<1>4. at' \notin Killed /\ at' \notin Recovery
  BY DEF ManagerLoop, Killed, Recovery
<1>5. \A m \in Nodes \ {n} : workers[m] # None => workers[m].layer # l
  BY DEF Hosts, Own
<1>6. \A t \in traps : t.layer # l
  BY DEF Hosts, Own, Completed, Leased
<1>7. Own'
  <2>1. ASSUME NEW m \in Nodes, workers'[m] # None
        PROVE  /\ workers'[m].layer \in Leased /\ queue[workers'[m].layer].node = m
               /\ workers'[m].attempt = queue[workers'[m].layer].attempt
    <3>1. CASE workers'[m] = workers[m]
      BY <2>1, <3>1 DEF Hosts, Own
    <3>2. CASE m = n /\ workers'[m] = w
      BY <3>2
    <3> QED  BY <1>2, <1>3, <3>1, <3>2
  <2> QED  BY <2>1 DEF Own, Hosts, Leased, Completed
<1>8. Idle'
  BY <1>4 DEF Idle
<1>9. CASE workers'[n] = workers[n]
  <2>1. workers' = workers
    BY <1>1, <1>2, <1>9 DEF Launch
  <2> QED  BY <1>7, <1>8, <2>1 DEF Hosts, Alone, Fresh, Writes
<1>10. CASE workers'[n] = w
  <2>1. LeaseIn(w) = <<l, queue[l].attempt>>
    BY DEF LeaseIn
  <2>2. Alone'
    <3>1. \A m \in Nodes \ {n} : workers[m] # None => LeaseIn(workers[m]) # LeaseIn(w)
      BY <1>5, <2>1 DEF LeaseIn
    <3>2. \A t \in traps : LeaseIn(t) # LeaseIn(w)
      BY <1>6, <2>1 DEF LeaseIn
    <3> HIDE DEF w
    <3> QED  BY <1>2, <1>10, <3>1, <3>2 DEF Hosts, Alone
  <2>3. Fresh' /\ Writes'
    BY <1>2, <1>10 DEF Hosts, Fresh, Writes, AtWork, WorkerSteps
  <2> QED  BY <1>7, <1>8, <2>2, <2>3 DEF Hosts
<1> QED
  BY <1>3, <1>9, <1>10

\* A layer is completed: its node's worker is killed, whose layer it is.
LEMMA FinishHosts ==
  ASSUME TypeOK, Leasing, OneLease, Hosts, NEW l \in Leased, Finish(l), ValidResult(l),
         KillSessions({queue[l].node}), UNCHANGED results, at \in ManagerLoop, at' \in ManagerLoop
  PROVE  Hosts'
<1> DEFINE n == queue[l].node
<1>1. n \in Nodes /\ workers \in [Nodes -> Worker \cup {None}] /\ l \in Layers
  BY DEF TypeOK, Leasing, Leased
<1>2. workers'[n] = None /\ \A m \in Nodes \ {n} : workers'[m] = workers[m]
  BY <1>1 DEF KillSessions
<1>3. /\ queue'[l].state = "completed"
      /\ \A m \in Layers \ {l} : queue'[m].state = queue[m].state /\ queue'[m].node = queue[m].node
                                 /\ queue'[m].attempt = queue[m].attempt
  BY FinishMoves DEF Completes, Keeps
<1>4. \A t \in traps' : t \in traps \/ (t.at = "trap" /\ workers[n] # None /\ LeaseIn(t) = LeaseIn(workers[n])
                                         /\ t.layer = workers[n].layer)
  <2>1. \A t \in Orphans({n}) : t.at = "trap" /\ workers[n] # None /\ LeaseIn(t) = LeaseIn(workers[n])
                                /\ t.layer = workers[n].layer
    BY DEF Orphans, LeaseIn
  <2> QED  BY <2>1 DEF KillSessions
<1>5. workers[n] # None => workers[n].layer = l
  BY <1>1, ZenonT(40) DEF Hosts, Own, OneLease
<1>6. \A m \in Nodes \ {n} : workers[m] # None => workers[m].layer \in Leased /\ workers[m].layer # l
  BY DEF Hosts, Own
<1>7. at' \notin Killed /\ at' \notin Recovery
  BY DEF ManagerLoop, Killed, Recovery
<1>8. Own'
  <2>1. ASSUME NEW m \in Nodes, workers'[m] # None
        PROVE  /\ workers'[m].layer \in Leased' /\ queue'[workers'[m].layer].node = m
               /\ workers'[m].attempt = queue'[workers'[m].layer].attempt
    <3>1. m # n /\ workers'[m] = workers[m]
      BY <1>2, <2>1
    <3>2. workers[m].layer \in Layers \ {l} /\ workers[m].layer \in Leased
      BY <1>6, <2>1, <3>1 DEF Leased
    <3>3. queue[workers[m].layer].node = m /\ workers[m].attempt = queue[workers[m].layer].attempt
      BY <2>1, <3>1 DEF Hosts, Own
    <3> QED  BY <1>3, <3>1, <3>2, <3>3 DEF Leased
  <2>2. \A t \in traps' : t.layer \in Completed'
    <3>1. \A k \in Completed : k \in Completed'
      BY <1>3 DEF Completed
    <3>2. l \in Completed'
      BY <1>1, <1>3 DEF Completed
    <3>3. \A t \in traps : t.layer \in Completed
      BY DEF Hosts, Own
    <3> QED  BY <1>4, <1>5, <3>1, <3>2, <3>3
  <2> QED  BY <2>1, <2>2 DEF Own
<1>9. Idle'
  BY <1>7 DEF Idle
<1>10. Alone'
  <2>1. \A m \in Nodes \ {n} : workers[m] # None => \A t \in traps' : LeaseIn(t) # LeaseIn(workers[m])
    BY <1>1, <1>4 DEF Hosts, Alone
  <2> QED  BY <1>2, <2>1 DEF Hosts, Alone
<1>11. Fresh' /\ Writes'
  BY <1>2, <1>4 DEF Hosts, Fresh, Writes
<1> QED
  BY <1>8, <1>9, <1>10, <1>11 DEF Hosts

\* Only the owner of a pending layer is new after a grant.
LEMMA GrantHosts ==
  ASSUME TypeOK, Hosts, NEW l \in Layers, NEW n \in Nodes, Granted(l, n), UNCHANGED <<workers, traps, results>>,
         at \in ManagerLoop, at' \in ManagerLoop
  PROVE  Hosts'
<1>1. at' \notin Killed /\ at' \notin Recovery
  BY DEF ManagerLoop, Killed, Recovery
<1>2. l \notin Leased /\ l \notin Completed
  BY DEF Granted, Pending, Leased, Completed
<1>3. \A m \in Layers \ {l} : /\ queue'[m].state = queue[m].state /\ queue'[m].node = queue[m].node
                              /\ queue'[m].attempt = queue[m].attempt
  BY DEF Granted, Keeps
<1>4. Own'
  <2>1. ASSUME NEW m \in Nodes, workers[m] # None
        PROVE  /\ workers[m].layer \in Leased' /\ queue'[workers[m].layer].node = m
               /\ workers[m].attempt = queue'[workers[m].layer].attempt
    <3>1. /\ workers[m].layer \in Leased /\ queue[workers[m].layer].node = m
          /\ workers[m].attempt = queue[workers[m].layer].attempt
      BY <2>1 DEF Hosts, Own
    <3>2. workers[m].layer \in Layers \ {l}
      BY <1>2, <3>1 DEF Leased
    <3> QED  BY <1>3, <3>1, <3>2 DEF Leased
  <2>2. \A k \in Completed : k \in Completed'
    BY <1>2, <1>3 DEF Completed
  <2>3. \A t \in traps : t.layer \in Completed
    BY DEF Hosts, Own
  <2> QED  BY <2>1, <2>2, <2>3 DEF Own
<1>5. Idle'
  BY <1>1 DEF Idle
<1>6. Alone' /\ Fresh' /\ Writes'
  BY DEF Hosts, Alone, Fresh, Writes
<1> QED
  BY <1>4, <1>5, <1>6 DEF Hosts

LEMMA ControlHosts ==
  ASSUME TypeOK, Leasing, OneLease, LoopOK, Hosts,
         ControlStep \/ ManagerCrash \/ Resume \/ Restart \/ HostCrash \/ Finished
  PROVE  Hosts'
<1> USE DEF files, host
<1>1. UNCHANGED results
  BY ControlFiles
<1>2. ASSUME UNCHANGED host, at \in ManagerLoop, at' \in ManagerLoop, UNCHANGED queue PROVE Hosts'
  <2>1. at' \notin Killed /\ at' \notin Recovery
    BY <1>2 DEF ManagerLoop, Killed, Recovery
  <2> QED  BY <1>1, <1>2, <2>1, PlainHosts
<1>3. ASSUME UNCHANGED host, at' \in {"kill", "guardKill", "complete"} PROVE Hosts'
  <2>1. at' \notin Killed /\ at' \notin Recovery /\ at' \notin ManagerLoop
    BY <1>3 DEF ManagerLoop, Killed, Recovery
  <2> QED  BY <1>1, <1>3, <2>1, PlainHosts
<1>4. ASSUME UNCHANGED host, at \in Killed, at' \notin ManagerLoop, at' \notin Recovery PROVE Hosts'
  BY <1>1, <1>4, PlainHosts
<1>5. ASSUME UNCHANGED host, at \in Killed, traps = {} PROVE Hosts'
  BY <1>1, <1>5, PlainHosts
<1>6. ASSUME NEW l \in Layers, ScanResult(l) PROVE Hosts'
  <2>1. l \in Leased /\ at \in ManagerLoop
    BY <1>6 DEF ScanResult, Least, LoopOK, ManagerLoop
  <2>2. CASE ValidResult(l) /\ Finish(l) /\ KillSessions({queue[l].node}) /\ Goto("scan", todo \ {l})
    <3>1. at' \in ManagerLoop
      BY <2>2 DEF Goto, ManagerLoop
    <3> QED  BY <1>1, <2>1, <2>2, <3>1, FinishHosts
  <2>3. CASE Block /\ UNCHANGED host
    BY <1>3, <2>3 DEF Block, Goto
  <2> QED  BY <1>6, <2>2, <2>3 DEF ScanResult
<1>7. ASSUME NEW l \in Layers, ScanTimeout(l) PROVE Hosts'
  BY <1>3, <1>7 DEF ScanTimeout, Block, Goto
<1>8. ASSUME NEW l \in Layers, ScanActive(l) PROVE Hosts'
  BY <1>2, <1>8 DEF ScanActive, ManagerLoop
<1>9. CASE ScanDone
  BY <1>2, <1>9 DEF ScanDone, Goto, ManagerLoop
<1>10. CASE Top \/ Audit
  BY <1>2, <1>3, <1>10 DEF Top, Audit, Block, Goto, ManagerLoop
<1>11. CASE GrantDone
  BY <1>2, <1>3, <1>11 DEF GrantDone, Goto, ManagerLoop
<1>12. CASE ScanLaunch \/ GrantLaunch
  <2>1. lease \in Leased /\ at \in ManagerLoop /\ at' \in ManagerLoop
    BY <1>12 DEF ScanLaunch, GrantLaunch, LoopOK, Goto, ManagerLoop
  <2>2. Launch(lease) /\ UNCHANGED <<queue, traps>>
    BY <1>12 DEF ScanLaunch, GrantLaunch
  <2> QED  BY <1>1, <2>1, <2>2, LaunchHosts
<1>13. ASSUME NEW n \in Nodes, Grant(n) PROVE Hosts'
  <2>1. at \in ManagerLoop /\ at' \in ManagerLoop /\ UNCHANGED host
    BY <1>13 DEF Grant, Goto, ManagerLoop
  <2>2. UNCHANGED queue \/ \E l \in Layers : Granted(l, n)
    BY <1>13, GrantMoves DEF Grant
  <2> QED  BY <1>1, <1>2, <2>1, <2>2, GrantHosts
<1>14. CASE BlockKill
  <2>1. KillSessions(Nodes) /\ at' = "stop"
    BY <1>14 DEF BlockKill, GotoStop
  <2> QED  BY <1>1, <2>1, KillHosts
<1>15. CASE BlockStop \/ BlockRequeue
  <2>1. UNCHANGED host /\ at \in Killed /\ at' \in {"stop", "requeue", "blocked"}
    BY <1>15 DEF BlockStop, BlockRequeue, Goto, GotoStop, Killed
  <2> QED  BY <1>4, <2>1 DEF ManagerLoop, Recovery
<1>16. CASE WriteBlocked \/ ManagerCrash
  BY <1>3, <1>16 DEF WriteBlocked, ManagerCrash, Goto
<1>17. CASE RunGuard
  <2>1. CASE KillAll("guardKill", "guardStop")
    <3>1. KillSessions(Nodes) /\ at' = "guardStop"
      BY <2>1 DEF KillAll, GotoStop
    <3> QED  BY <1>1, <3>1, KillHosts
  <2>2. CASE StopAll("guardStop", "off")
    <3>1. UNCHANGED host /\ at \in Killed /\ at' \in {"guardStop", "off"}
      BY <2>2 DEF StopAll, Goto, GotoStop, Killed
    <3> QED  BY <1>4, <3>1 DEF ManagerLoop, Recovery
  <2> QED  BY <1>17, <2>1, <2>2 DEF RunGuard
<1>18. CASE RunRestart
  <2>1. at \in Recovery /\ at \in Killed /\ traps = {}
    BY <1>18 DEF RunRestart, KillAll, StopAll, Recovery, Killed, Hosts, Idle
  <2>2. CASE KillAll("restartKill", "restartStop")
    <3>1. KillSessions(Nodes) /\ at' = "restartStop"
      BY <2>2 DEF KillAll, GotoStop
    <3> QED  BY <1>1, <2>1, <3>1, KillHosts
  <2>3. CASE StopAll("restartStop", "services")
    BY <1>5, <2>1, <2>3 DEF StopAll
  <2> QED  BY <1>18, <2>2, <2>3 DEF RunRestart
<1>19. CASE StopServices \/ Repair \/ Check
  <2>1. UNCHANGED host /\ at \in Killed /\ at \in Recovery
    BY <1>19 DEF StopServices, Repair, Check, Killed, Recovery
  <2> QED  BY <1>5, <2>1 DEF Hosts, Idle
<1>20. CASE Resume \/ Restart
  BY <1>5, <1>20 DEF Resume, Restart, Killed
<1>21. CASE HostCrash
  <2>1. (\A n \in Nodes : workers'[n] = None) /\ traps' = {} /\ at' = "off"
    BY <1>21 DEF HostCrash, Goto
  <2> QED  BY <2>1 DEF Hosts, Own, Idle, Alone, Fresh, Writes, ManagerLoop
<1>22. CASE Finished
  BY <1>3, <1>22 DEF Finished, vars
<1> QED
  BY <1>6, <1>7, <1>8, <1>9, <1>10, <1>11, <1>12, <1>13, <1>14, <1>15, <1>16, <1>17, <1>18, <1>19,
     <1>20, <1>21, <1>22 DEF ControlStep, Manager

LEMMA HostsStep == TypeOK /\ Leasing /\ OneLease /\ LoopOK /\ Hosts /\ [Next]_vars => Hosts'
<1> SUFFICES ASSUME TypeOK, Leasing, OneLease, LoopOK, Hosts, [Next]_vars PROVE Hosts'
  OBVIOUS
<1>1. ASSUME UNCHANGED <<queue, results, workers, traps, at>> PROVE Hosts'
  BY <1>1 DEF Hosts, Own, Idle, Alone, Fresh, Writes, Leased, Completed
<1>2. CASE Next
  <2>1. ASSUME NEW j \in jobs, JobStep(j) \/ EncoderFails(j) PROVE Hosts'
    BY <1>1, <2>1, JobTypes DEF Beside
  <2>2. ASSUME NEW n \in Nodes, NodeReboots(n) PROVE Hosts'
    BY <1>1, <2>2, RebootTypes DEF Beside
  <2>3. ASSUME NEW l \in Layers, StuckExpires(l) \/ SlowExpires(l) PROVE Hosts'
    BY <1>1, <2>3, ExpireTypes DEF Beside
  <2>4. CASE Outside
    BY <1>1, <2>4, OutsideTypes
  <2> QED
    BY <1>2, <2>1, <2>2, <2>3, <2>4, ControlHosts, WorkerHosts, TrapHosts DEF Next, Works, WorkerStep
<1>3. CASE UNCHANGED vars
  BY <1>1, <1>3 DEF vars
<1> QED
  BY <1>2, <1>3

-----------------------------------------------------------------------------
(* The theorems *)

LEMMA IndInit == Init => IndInv
<1> SUFFICES ASSUME Init PROVE IndInv
  OBVIOUS
<1>1. Leased = {} /\ Completed = {}
  BY DEF Init, Leased, Completed
<1>2. Leasing
  BY DEF Init, Leasing
<1>3. OneLease /\ LoopOK /\ Done
  BY <1>1 DEF Init, OneLease, LoopOK, Done
<1>4. Own /\ Idle /\ Alone /\ Fresh /\ Writes
  BY DEF Init, Own, Idle, Alone, Fresh, Writes, ManagerLoop
<1> QED
  BY <1>2, <1>3, <1>4, TypesInit DEF IndInv

LEMMA IndStep == IndInv /\ [Next]_vars => IndInv' /\ Stands /\ Final
<1> SUFFICES ASSUME IndInv, [Next]_vars PROVE IndInv' /\ Stands /\ Final
  OBVIOUS
<1>1. TypeOK /\ Leasing /\ OneLease /\ LoopOK /\ Hosts /\ Done
  BY DEF IndInv, Hosts
<1>2. QueueMoves /\ TypeOK' /\ LoopOK' /\ Hosts'
  BY <1>1, QueueStep, TypesStep, LoopStep, HostsStep
<1>3. Stands /\ Final
  BY <1>1, FilesStep DEF Hosts
<1>4. Leasing' /\ OneLease' /\ Done'
  BY <1>1, <1>2, <1>3, LeasingStep, OneLeaseStep, DoneStep
<1> QED
  BY <1>2, <1>3, <1>4 DEF IndInv, Hosts

LEMMA Inductive == Spec => []IndInv
BY IndInit, IndStep, PTL DEF Spec

\* Every variable of the bulk encode keeps its type, in every run.
THEOREM Types == Spec => []TypeOK
<1>1. IndInv => TypeOK
  BY DEF IndInv
<1> QED
  BY <1>1, Inductive, PTL

\* Whatever is killed, crashes, times out, is resumed or recovered, a layer the
\* queue calls completed has a passing result, and that result names what is published
\* (bulk_lease_manager.py, validate_published_result; reconcile_bulk.py).
THEOREM Completed_Published == Spec => []CompletedIsPublished
<1>1. IndInv => CompletedIsPublished
  BY DEF IndInv, Done, ValidResult, Passing, CompletedIsPublished
<1> QED
  BY <1>1, Inductive, PTL

\* A passing result is never replaced: neither by the trap of a killed worker, nor
\* by a worker that is launched again (bulk_lease_worker.sh).
THEOREM Result_Stands == Spec => PassingResultStands
<1>1. IndInv /\ [Next]_vars => [\A i \in Leases : Passing(results[i]) => results'[i] = results[i]]_vars
  BY IndStep DEF Stands
<1> QED
  BY <1>1, Inductive, PTL DEF Spec, PassingResultStands

\* A published layer is never replaced, however often it is leased again
\* (bulk_lease_worker.sh's test of the publication's directory).
THEOREM Publication_Final == Spec => PublicationIsFinal
<1>1. IndInv /\ [Next]_vars => [\A l \in Layers : published[l] # 0 => published'[l] = published[l]]_vars
  BY IndStep DEF Final
<1> QED
  BY <1>1, Inductive, PTL DEF Spec, PublicationIsFinal

-----------------------------------------------------------------------------
(* Encodes and their leases *)

\* The lease that is under way on node n.
Legit(w, n) ==
  w.layer \in Leased /\ queue[w.layer].node = n /\ queue[w.layer].attempt = w.attempt
Legits == \A j \in jobs : j.session => Legit(j, j.node)

\* A lease was given to one node, and later ones of its layer have a later attempt.
Held(w, n) ==
  /\ w.attempt <= queue[w.layer].attempt
  /\ w.attempt = queue[w.layer].attempt => queue[w.layer].node = n
WasLeased ==
  /\ \A j \in jobs : j.session => Held(j, j.node)
  /\ \A t \in traps : t.attempt <= queue[t.layer].attempt
  /\ \A i \in Leases : results[i] # None \/ exits[i] # "none" => i[2] <= queue[i[1]].attempt

\* A worker has the last lease of its layer, outside the manager's loop too.
LastLease ==
  \A n \in Nodes : workers[n] # None =>
    workers[n].attempt = queue[workers[n].layer].attempt /\ queue[workers[n].layer].node = n

\* One remote session runs a lease.
OneSession == \A j, k \in jobs : j.session /\ k.session /\ LeaseIn(k) = LeaseIn(j) => k = j

\* A session is of its layer's last lease, which was not taken back.
Theirs(w, n) ==
  queue[w.layer].state # "pending" /\ queue[w.layer].node = n /\ queue[w.layer].attempt = w.attempt
AllTheirs == \A j \in jobs : j.session => Theirs(j, j.node)

\* What a passing result rests on is an encoder that is over.
Exited ==
  /\ \A i \in Leases : Passing(results[i]) => exits[i] # "none"
  /\ \A n \in Nodes : workers[n] # None /\ workers[n].at \in {"verify", "publish", "result"} =>
       exits[LeaseIn(workers[n])] # "none"

\* A sweep of the nodes leaves no session behind, and a block no lease.
Swept == {"requeue", "blocked", "services", "repair", "check"}
Sweeps ==
  /\ at \in {"stop", "guardStop", "restartStop"} => \A j \in jobs : j.session => <<j.node, 2>> \in stops
  /\ at \in Swept => \A j \in jobs : ~j.session
Requeues == at = "requeue" => Leased \subseteq todo

\* Without a fault, in the loop: an encoder is over before its lease has a result or
\* its worker fails, and what expires is a lease that nobody works on.
Waiting(l) ==
  LET w == workers[queue[l].node] IN
  /\ w # None /\ w.at = "wait" /\ LeaseIn(w) = LeaseOf(l) /\ exits[LeaseOf(l)] = "none"
  /\ \A j \in jobs : j.session => LeaseIn(j) # LeaseOf(l)
CalmLoop ==
  at \in ManagerLoop =>
    /\ \A l \in Leased : results[LeaseOf(l)] # None => exits[LeaseOf(l)] # "none"
    /\ \A n \in Nodes : workers[n] # None /\ workers[n].at \in TrapSteps => exits[LeaseIn(workers[n])] # "none"
    /\ \A l \in expired : Waiting(l)

\* Without a fault, no worker starts an encoder on a lease that is gone, and a run
\* that is down has no lease and no worker.
Starting(n) ==
  /\ workers[n] # None
  /\ workers[n].at \in {"start", "session", "launch"} \/ (workers[n].at = "begin" /\ results[LeaseIn(workers[n])] = None)
Down == {"blocked", "guardKill", "guardStop", "off"} \cup Recovery
CalmDown ==
  /\ at = "kill" => \A n \in Nodes : Starting(n) => workers[n].layer \in Leased
  /\ at \in {"guardKill", "complete"} => \A n \in Nodes : workers[n] = None
  /\ at \in Down => Leased = {}

\* Without a fault no lease is launched twice: a session's lease has no exit code, a
\* worker that has not started its encoder finds neither, and a lease without a result
\* has its worker, or is new.
Beginning == {"begin", "start", "session", "launch"}
Unused(i) == exits[i] = "none" /\ \A j \in jobs : j.session => LeaseIn(j) # i
Attended(l) ==
  \/ results[LeaseOf(l)] # None \/ workers[queue[l].node] # None
  \/ at = "grantLaunch" /\ lease = l /\ Unused(LeaseOf(l))
CalmEncodes ==
  /\ \A j \in jobs : j.session => exits[LeaseIn(j)] = "none"
  /\ \A n \in Nodes : workers[n] # None =>
       /\ workers[n].at \in Beginning => Unused(LeaseIn(workers[n]))
       /\ workers[n].at = "clean" => results[LeaseIn(workers[n])] # None
  /\ at \in ManagerLoop => \A l \in Leased : Attended(l)

Calm == faults = 0 => Legits /\ CalmLoop /\ CalmDown /\ CalmEncodes /\ obstacles = {}
OneFault == faults <= 1 /\ at \in ManagerLoop \cup {"off"} => AllTheirs

LeaseInv ==
  /\ WasLeased /\ LastLease /\ OneSession /\ Exited /\ Sweeps /\ Requeues /\ Calm /\ OneFault

-----------------------------------------------------------------------------
Control == ControlStep \/ ManagerCrash \/ Resume \/ Restart \/ HostCrash \/ Finished

LEMMA NextIs == Next => Control \/ Others
BY DEF Next, Control, Others, Works, WorkerStep

\* The faults, and how a run without a further one comes to a place.
Flow ==
  /\ at' \in Down /\ at \notin Down => at = "requeue" /\ todo = {} /\ UNCHANGED queue
  /\ at' \in ManagerLoop /\ at \notin ManagerLoop => at \in {"off", "check"}
  /\ at' = "off" /\ at # "off" => at = "guardStop" /\ stops = {}
  /\ at' = "kill" /\ at # "kill" => obstacles # {} \/ \E l \in Layers : ScanResult(l) \/ ScanTimeout(l)
  /\ obstacles' \subseteq obstacles
  /\ at' \in {"guardKill", "complete"} /\ at' # at =>
       UNCHANGED workers /\ (at \in {"blocked", "check"} \/ (at = "grant" /\ Completed = Layers))

LEMMA FlowStep ==
  ASSUME TypeOK, [Next]_vars
  PROVE  faults' = faults + 1 \/ (faults' = faults /\ Flow)
<1> USE DEF Flow, Down, ManagerLoop, Recovery, outside, Place, host
<1>1. ASSUME UNCHANGED <<outside, Place>> PROVE faults' = faults /\ Flow
  BY <1>1
<1>2. CASE Others
  <2>1. UNCHANGED Place
    BY <1>2, OthersFrame DEF Others
  <2>2. UNCHANGED outside \/ faults' = faults + 1
    BY <1>2 DEF Others, Works, WorkerStep, WorkerBegin, WorkerStart, WorkerSession, WorkerLaunch, WorkerWait,
       WorkerVerify, WorkerPublish, WorkerResult, WorkerClean, WorkerTrap, WorkerFail, LookFails, NodeReboots,
       OrphanTrap, JobStep, ContainerStart, Encode, EncoderEnds, StoppedEnds, EncoderFails, StuckExpires,
       SlowExpires, Outside, KernelEvent, ServiceStarts, Fault
  <2> QED  BY <1>1, <2>1, <2>2
<1>3. CASE Control
  <2>1. CASE Top
    BY <2>1 DEF Top, Fault, Block, Goto
  <2>2. CASE \E l \in Layers : ScanResult(l)
    BY <2>2 DEF ScanResult, Block, Goto
  <2>3. CASE \E l \in Layers : ScanTimeout(l)
    BY <2>3 DEF ScanTimeout, Block, Goto
  <2>4. CASE \E l \in Layers : ScanActive(l)
    BY <2>4 DEF ScanActive
  <2>5. CASE ScanLaunch \/ ScanDone \/ GrantLaunch
    BY <2>5 DEF ScanLaunch, ScanDone, GrantLaunch, Goto
  <2>6. CASE Audit
    BY <2>6 DEF Audit, Fault, Block, Goto
  <2>7. CASE \E n \in Nodes : Grant(n)
    BY <2>7 DEF Grant, Goto
  <2>8. CASE GrantDone
    BY <2>8 DEF GrantDone, Goto
  <2>9. CASE BlockKill
    BY <2>9 DEF BlockKill, GotoStop
  <2>10. CASE BlockStop \/ BlockRequeue \/ WriteBlocked
    BY <2>10 DEF BlockStop, BlockRequeue, WriteBlocked, Goto, GotoStop
  <2>11. CASE RunGuard \/ RunRestart
    BY <2>11 DEF RunGuard, RunRestart, KillAll, StopAll, Goto, GotoStop
  <2>12. CASE StopServices \/ Repair \/ Check
    BY <2>12 DEF StopServices, Repair, Check, Goto
  <2>13. CASE ManagerCrash \/ HostCrash
    BY <2>13 DEF ManagerCrash, HostCrash, Fault
  <2>14. CASE Resume \/ Restart
    BY <2>14 DEF Resume, Restart, Goto
  <2>15. CASE Finished
    BY <1>1, <2>15 DEF Finished, vars
  <2> QED
    BY <1>3, <2>1, <2>2, <2>3, <2>4, <2>5, <2>6, <2>7, <2>8, <2>9, <2>10, <2>11, <2>12, <2>13, <2>14, <2>15
       DEF Control, ControlStep, Manager
<1>4. CASE UNCHANGED vars
  BY <1>1, <1>4 DEF vars
<1> QED
  BY <1>2, <1>3, <1>4, NextIs
-----------------------------------------------------------------------------
(* Sessions *)

\* A session of the next state was there, or is being started by a worker.
Comes(k) == \E j \in jobs : j.session /\ j.node = k.node /\ LeaseIn(j) = LeaseIn(k)
Starts(k) ==
  \E n \in Nodes : workers[n] # None /\ WorkerLaunch(n) /\ k.node = n /\ LeaseIn(k) = LeaseIn(workers[n])

\* Only a lease's session leaves an exit code, and is gone then.
ExitMoves ==
  \A i \in Leases : exits'[i] # exits[i] =>
    /\ exits'[i] # "none" /\ \E j \in jobs : j.session /\ LeaseIn(j) = i
    /\ \A k \in jobs' : k.session => LeaseIn(k) # i
SessionMoves == ExitMoves /\ \A k \in jobs' : k.session => Comes(k) \/ Starts(k)

LEMMA JobLooks ==
  ASSUME NEW j \in Job, NEW c
  PROVE  LET k == [j EXCEPT !.container = c]
         IN  k.session = j.session /\ k.node = j.node /\ LeaseIn(k) = LeaseIn(j)
BY DEF Job, LeaseIn

\* Steps after which there are no more sessions than before.
LEMMA FewerSessions ==
  ASSUME TypeOK, OneSession, jobs' \subseteq jobs, UNCHANGED exits
  PROVE  OneSession' /\ SessionMoves
BY DEF OneSession, SessionMoves, ExitMoves, Comes

LEMMA EndSessions ==
  ASSUME TypeOK, OneSession, NEW j \in jobs, NEW code \in {"ok", "fail"}, jobs' = jobs \ {j},
         (j.session /\ Exit(j, code)) \/ UNCHANGED exits
  PROVE  OneSession' /\ SessionMoves
<1>1. CASE UNCHANGED exits
  BY <1>1, FewerSessions
<1>2. CASE j.session /\ Exit(j, code)
  <2>1. exits' = [exits EXCEPT ![LeaseIn(j)] = code] /\ LeaseIn(j) \in Leases
    BY <1>2 DEF Exit, LeaseIn, TypeOK, Job, Leases
  <2>2. \A k \in jobs' : k.session => LeaseIn(k) # LeaseIn(j)
    BY <1>2 DEF OneSession
  <2>3. ExitMoves
    BY <1>2, <2>1, <2>2 DEF ExitMoves, TypeOK
  <2> QED  BY <2>3 DEF OneSession, SessionMoves, Comes
<1> QED
  BY <1>1, <1>2

LEMMA StopSteps ==
  ASSUME TypeOK, OneSession, NEW p \in Stops, StopNode(p), UNCHANGED exits
  PROVE  /\ OneSession' /\ SessionMoves
         /\ \A k \in jobs' : k.session => Comes(k) /\ <<k.node, 2>> # p
<1>1. jobs \subseteq Job /\ p \in Nodes \X {1, 2}
  BY DEF TypeOK, Stops
<1>2. CASE StopContainers(p[1]) /\ p[2] = 1
  <2> DEFINE run == {k \in jobs : k.node = p[1] /\ k.container = "running" /\ k.session}
  <2>1. jobs' = {j \in jobs : j.node # p[1] \/ j.container # "running"} \cup {[j EXCEPT !.container = "stopped"] : j \in run}
    BY <1>2 DEF StopContainers
  <2>2. ASSUME NEW j \in run
        PROVE  LET k == [j EXCEPT !.container = "stopped"]
               IN  k.session = j.session /\ k.node = j.node /\ LeaseIn(k) = LeaseIn(j)
    <3>1. j \in Job
      BY <1>1
    <3> QED  BY <3>1, JobLooks
  <2>3. \A k \in jobs' : k \in jobs \ run \/ \E j \in run : k = [j EXCEPT !.container = "stopped"]
    BY <2>1
  <2>4. \A k \in jobs' : k.session => Comes(k)
    <3>1. ASSUME NEW j \in run PROVE Comes([j EXCEPT !.container = "stopped"])
      <4>1. j \in jobs /\ j.session
        OBVIOUS
      <4> QED  BY <2>2, <4>1 DEF Comes
    <3>2. ASSUME NEW k \in jobs, k.session PROVE Comes(k)
      BY <3>2 DEF Comes
    <3> HIDE DEF run
    <3> QED  BY <2>3, <3>1, <3>2
  <2>5. ASSUME NEW k \in jobs', NEW m \in jobs', k.session, m.session, LeaseIn(k) = LeaseIn(m)
        PROVE  k = m
    <3>1. CASE k \in jobs \ run /\ m \in jobs \ run
      BY <2>5, <3>1 DEF OneSession
    <3>2. ASSUME NEW i \in jobs \ run, NEW j \in run, i.session, LeaseIn(i) = LeaseIn([j EXCEPT !.container = "stopped"])
          PROVE  FALSE
      BY <2>2, <3>2 DEF OneSession
    <3>3. ASSUME NEW i \in run, NEW j \in run,
                 LeaseIn([i EXCEPT !.container = "stopped"]) = LeaseIn([j EXCEPT !.container = "stopped"])
          PROVE  i = j
      BY <2>2, <3>3 DEF OneSession
    <3> HIDE DEF run
    <3> QED  BY <2>3, <2>5, <3>1, <3>2, <3>3
  <2>6. OneSession' /\ SessionMoves
    BY <2>4, <2>5 DEF OneSession, SessionMoves, ExitMoves
  <2> QED  BY <1>2, <2>4, <2>6
<1>3. CASE StopSessions(p[1]) /\ p[2] = 2
  <2> DEFINE run == {k \in jobs : k.node = p[1] /\ k.session /\ k.container = "running"}
  <2>1. jobs' = {j \in jobs : j.node # p[1] \/ ~j.session} \cup {[j EXCEPT !.session = FALSE] : j \in run}
    BY <1>3 DEF StopSessions
  <2>2. \A j \in run : ~[j EXCEPT !.session = FALSE].session
    BY <1>1 DEF Job
  <2>3. \A k \in jobs' : k.session => k \in jobs /\ k.node # p[1]
    BY <2>1, <2>2
  <2>4. OneSession' /\ SessionMoves
    BY <2>3 DEF OneSession, SessionMoves, ExitMoves, Comes
  <2> QED  BY <2>3, <2>4 DEF Comes
<1> QED
  BY <1>1, <1>2, <1>3 DEF StopNode

LEMMA EncoderSessions ==
  ASSUME TypeOK, OneSession, NEW j \in jobs, JobStep(j) \/ EncoderFails(j)
  PROVE  OneSession' /\ SessionMoves
<1> USE DEF files, host, control, outside
<1>1. j \in Job
  BY DEF TypeOK
<1>2. CASE ContainerStart(j)
  <2> DEFINE r == [j EXCEPT !.container = "running"]
  <2>1. CASE jobs' = jobs \ {j} /\ Exit(j, "fail")
    BY <1>2, <2>1, EndSessions DEF ContainerStart
  <2>2. CASE jobs' = (jobs \ {j}) \cup {r} /\ UNCHANGED exits
    <3>1. r.session = j.session /\ r.node = j.node /\ LeaseIn(r) = LeaseIn(j)
      BY <1>1, JobLooks
    <3>2. j.session
      BY <1>2 DEF ContainerStart
    <3> HIDE DEF r
    <3>3. \A k \in jobs' : k \in jobs \ {j} \/ k = r
      BY <2>2
    <3>4. \A k \in jobs' : k.session => Comes(k)
      BY <3>1, <3>2, <3>3 DEF Comes
    <3>5. \A k, m \in jobs' : k.session /\ m.session /\ LeaseIn(m) = LeaseIn(k) => m = k
      BY <3>1, <3>2, <3>3 DEF OneSession
    <3> QED  BY <2>2, <3>4, <3>5 DEF OneSession, SessionMoves, ExitMoves
  <2> QED  BY <1>2, <2>1, <2>2 DEF ContainerStart
<1>3. CASE Encode(j)
  BY <1>3, FewerSessions DEF Encode
<1>4. ASSUME NEW code \in {"ok", "fail"}, End(j, code) PROVE OneSession' /\ SessionMoves
  BY <1>4, EndSessions DEF End
<1> QED
  BY <1>2, <1>3, <1>4 DEF JobStep, EncoderEnds, StoppedEnds, EncoderFails

LEMMA StartSessions ==
  ASSUME TypeOK, OneSession, WasLeased, LastLease, NEW n \in Nodes, workers[n] # None, WorkerLaunch(n)
  PROVE  OneSession' /\ SessionMoves
<1> DEFINE w == workers[n]
<1> DEFINE s == [node |-> n, layer |-> w.layer, attempt |-> w.attempt, session |-> TRUE, container |-> "none"]
<1>1. UNCHANGED exits
  BY DEF WorkerLaunch
<1>2. CASE jobs' = jobs
  BY <1>1, <1>2, FewerSessions
<1>3. CASE jobs' # jobs
  <2>1. /\ jobs' = jobs \cup {s}
        /\ ~\E j \in jobs : j.node = n /\ j.layer = w.layer /\ j.attempt = w.attempt /\ j.session
    BY <1>3 DEF WorkerLaunch, SessionOf
  <2>2. s.session /\ s.node = n /\ LeaseIn(s) = LeaseIn(w)
    BY DEF LeaseIn
  <2>3. \A j \in jobs : j.session => LeaseIn(j) # LeaseIn(w)
    <3> SUFFICES ASSUME NEW j \in jobs, j.session, LeaseIn(j) = LeaseIn(w) PROVE FALSE
      OBVIOUS
    <3>1. j.layer = w.layer /\ j.attempt = w.attempt
      BY DEF LeaseIn
    <3>2. j.node = queue[w.layer].node /\ queue[w.layer].node = n
      BY <3>1 DEF WasLeased, Held, LastLease
    <3> QED  BY <2>1, <3>1, <3>2
  <2> HIDE DEF s, w
  <2>4. Starts(s)
    BY <2>2 DEF Starts, w
  <2> QED  BY <1>1, <2>1, <2>2, <2>3, <2>4 DEF OneSession, SessionMoves, ExitMoves, Comes
<1> QED
  BY <1>2, <1>3

\* Nobody else starts, ends or renames a session.
LEMMA OtherSessions ==
  ASSUME TypeOK, [Next]_vars,
         ~\E n \in Nodes : workers[n] # None /\ WorkerLaunch(n),
         ~\E j \in jobs : JobStep(j) \/ EncoderFails(j),
         ~\E p \in Stops : StopNode(p) /\ UNCHANGED exits
  PROVE  jobs' \subseteq jobs /\ UNCHANGED exits
<1> USE DEF remote
<1>1. CASE Others
  BY <1>1 DEF Others, Works, WorkerStep, WorkerBegin, WorkerStart, WorkerSession, WorkerWait, WorkerVerify,
     WorkerPublish, WorkerResult, WorkerClean, WorkerTrap, WorkerFail, LookFails, NodeReboots, OrphanTrap,
     StuckExpires, SlowExpires, Expire, Outside
<1>2. CASE Control
  <2>1. CASE Manager
    BY <2>1 DEF Manager, Top, ScanResult, ScanTimeout, ScanActive, ScanLaunch, ScanDone, Audit, Grant,
       GrantLaunch, GrantDone, BlockKill, BlockStop, BlockRequeue, WriteBlocked
  <2>2. CASE ManagerCrash \/ Resume \/ Restart \/ HostCrash \/ Finished
    BY <2>2 DEF ManagerCrash, Resume, Restart, HostCrash, Finished, vars
  <2>3. CASE ControlStep /\ ~Manager
    <3>1. stops \subseteq Stops
      BY DEF TypeOK
    <3> QED  BY <2>3, <3>1 DEF ControlStep, RunGuard, RunRestart, KillAll, StopAll, StopServices, Repair, Check
  <2> QED  BY <1>2, <2>1, <2>2, <2>3 DEF Control
<1>3. CASE UNCHANGED vars
  BY <1>3 DEF vars
<1> QED
  BY <1>1, <1>2, <1>3, NextIs

LEMMA SessionStep ==
  ASSUME TypeOK, OneSession, WasLeased, LastLease, [Next]_vars
  PROVE  OneSession' /\ SessionMoves
BY OtherSessions, StartSessions, EncoderSessions, StopSteps, FewerSessions
-----------------------------------------------------------------------------
(* Workers, from a lease to its result *)

\* What brings a worker to a place.
Came(n) ==
  LET w == workers[n]
      v == workers'[n]
  IN
  /\ v.at \in TrapSteps =>
       \/ w.at \in TrapSteps \cup {"verify"} \/ exits[LeaseIn(w)] # "none"
       \/ (w.at = "begin" /\ results[LeaseIn(w)] # None)
       \/ (w.at = "launch" /\ SessionOf(w, n))
  /\ v.at \in {"verify", "publish", "result"} =>
       w.at \in {"verify", "publish", "result"} \/ exits[LeaseIn(w)] # "none"
  /\ v.at \in {"start", "session", "launch"} =>
       (w.at = "begin" /\ results[LeaseIn(w)] = None) \/ w.at \in {"start", "session"}
  /\ v.at = "clean" => w.at = "result"
  /\ v.at # "begin"

LEMMA WorkerCame ==
  ASSUME TypeOK, NEW n \in Nodes, workers[n] # None, WorkerStep(n), workers'[n] # None
  PROVE  Came(n) /\ (workers[n].at = "wait" => exits[LeaseIn(workers[n])] # "none")
<1> USE DEF TrapSteps
<1>1. ASSUME NEW label, Step(n, label) PROVE workers'[n].at = label
  BY <1>1, StepMoves
<1>2. CASE WorkerBegin(n)
  <2>1. workers'[n].at = IF results[LeaseIn(workers[n])] = None THEN "start" ELSE "trap"
    BY <1>1, <1>2 DEF WorkerBegin, LeaseIn
  <2> QED  BY <1>2, <2>1 DEF Came, WorkerBegin
<1>3. CASE WorkerStart(n) \/ WorkerSession(n) \/ WorkerLaunch(n)
  <2>1. CASE WorkerStart(n)
    <3>1. workers[n].at = "start" /\ workers'[n].at \in {"session", "wait"}
      BY <1>1, <2>1 DEF WorkerStart
    <3> QED  BY <3>1 DEF Came
  <2>2. CASE WorkerSession(n)
    <3>1. workers[n].at = "session" /\ workers'[n].at \in {"launch", "wait"}
      BY <1>1, <2>2 DEF WorkerSession
    <3> QED  BY <3>1 DEF Came
  <2>3. CASE WorkerLaunch(n)
    <3>1. workers[n].at = "launch" /\ (workers'[n].at = "wait" \/ (workers'[n].at = "trap" /\ SessionOf(workers[n], n)))
      BY <1>1, <2>3 DEF WorkerLaunch
    <3> QED  BY <3>1 DEF Came
  <2> QED  BY <1>3, <2>1, <2>2, <2>3
<1>4. CASE WorkerWait(n)
  <2>1. exits[LeaseIn(workers[n])] # "none" /\ workers'[n].at \in {"verify", "trap"}
    BY <1>1, <1>4 DEF WorkerWait, LeaseIn
  <2> QED  BY <2>1 DEF Came
<1>5. CASE WorkerVerify(n)
  <2>1. workers[n].at = "verify" /\ workers'[n].at \in {"publish", "trap"}
    BY <1>1, <1>5 DEF WorkerVerify
  <2> QED  BY <2>1 DEF Came
<1>6. CASE WorkerPublish(n) \/ WorkerResult(n)
  <2>1. workers[n].at \in {"publish", "result"} /\ workers'[n].at \in {"result", "clean"}
    BY <1>1, <1>6 DEF WorkerPublish, WorkerResult
  <2>2. /\ workers'[n].at = "result" => workers[n].at = "publish"
        /\ workers'[n].at = "clean" => workers[n].at = "result"
    BY <1>1, <1>6 DEF WorkerPublish, WorkerResult
  <2> QED  BY <2>1, <2>2 DEF Came
<1>7. CASE WorkerClean(n)
  BY <1>7 DEF WorkerClean, TypeOK
<1>8. CASE WorkerTrap(n)
  <2>1. workers[n] \in Worker /\ workers \in [Nodes -> Worker \cup {None}] /\ workers[n].at \in TrapSteps
    BY <1>8 DEF TypeOK, WorkerTrap
  <2>2. workers'[n] = [workers[n] EXCEPT !.at = "trapWrite"]
    BY <1>8, <2>1 DEF WorkerTrap
  <2>3. workers'[n].at = "trapWrite"
    BY <2>1, <2>2 DEF Worker
  <2> QED  BY <2>1, <2>3 DEF Came
<1> QED
  BY <1>2, <1>3, <1>4, <1>5, <1>6, <1>7, <1>8 DEF WorkerStep

\* A worker fails with a fault only.
LEMMA FailedCame ==
  ASSUME TypeOK, NEW n \in Nodes, workers[n] # None, WorkerFail(n) \/ LookFails(n)
  PROVE  workers'[n].at \in {"trap", "session", "launch"} /\ faults' = faults + 1
BY StepMoves DEF WorkerFail, LookFails, Fault

\* What the control host does to a worker: nothing, kill it, or launch one.
Launched(n) ==
  /\ workers[n] = None /\ UNCHANGED <<queue, traps>> /\ at \in ManagerLoop /\ at' \in ManagerLoop
  /\ \E l \in Leased : /\ queue[l].node = n /\ results[LeaseOf(l)] = None
                       /\ workers'[n] = [layer |-> l, attempt |-> queue[l].attempt, at |-> "begin"]
TrapsOf == \A t \in traps' : t \in traps \/ \E n \in Nodes : workers[n] # None /\ LeaseIn(t) = LeaseIn(workers[n])

LEMMA ControlWorkers ==
  ASSUME TypeOK, LoopOK, Leasing, Control
  PROVE  /\ \A n \in Nodes : workers'[n] = None \/ workers'[n] = workers[n] \/ Launched(n)
         /\ TrapsOf
<1> USE DEF host
<1>1. ASSUME UNCHANGED host
      PROVE  (\A n \in Nodes : workers'[n] = None \/ workers'[n] = workers[n] \/ Launched(n)) /\ TrapsOf
  BY <1>1 DEF TrapsOf
<1>2. ASSUME NEW S \in SUBSET Nodes, KillSessions(S)
      PROVE  (\A n \in Nodes : workers'[n] = None \/ workers'[n] = workers[n] \/ Launched(n)) /\ TrapsOf
  <2>1. \A n \in Nodes : workers'[n] = None \/ workers'[n] = workers[n]
    BY <1>2 DEF KillSessions
  <2>2. ASSUME NEW t \in Orphans(S)
        PROVE  \E n \in Nodes : workers[n] # None /\ LeaseIn(t) = LeaseIn(workers[n])
    BY DEF Orphans, LeaseIn
  <2> QED  BY <1>2, <2>1, <2>2 DEF KillSessions, TrapsOf
<1>3. ASSUME NEW l \in Leased, Launch(l), at \in ManagerLoop, at' \in ManagerLoop, UNCHANGED <<queue, traps>>
      PROVE  (\A n \in Nodes : workers'[n] = None \/ workers'[n] = workers[n] \/ Launched(n)) /\ TrapsOf
  BY <1>3 DEF Launch, Launched, TypeOK, TrapsOf
<1>4. CASE \E l \in Layers : ScanResult(l)
  <2>1. PICK l \in Layers : ScanResult(l)
    BY <1>4
  <2>2. {queue[l].node} \in SUBSET Nodes
    BY <2>1 DEF ScanResult, Least, LoopOK, Leasing, Leased
  <2> QED  BY <1>1, <1>2, <2>1, <2>2 DEF ScanResult
<1>5. CASE ScanLaunch \/ GrantLaunch
  <2>1. lease \in Leased /\ at \in ManagerLoop /\ at' \in ManagerLoop
    BY <1>5 DEF ScanLaunch, GrantLaunch, LoopOK, Goto, ManagerLoop
  <2> QED  BY <1>3, <1>5, <2>1 DEF ScanLaunch, GrantLaunch
<1>6. CASE BlockKill
  BY <1>2, <1>6 DEF BlockKill
<1>7. CASE RunGuard \/ RunRestart
  BY <1>1, <1>2, <1>7 DEF RunGuard, RunRestart, KillAll, StopAll
<1>8. CASE HostCrash
  BY <1>8 DEF HostCrash, TrapsOf
<1>9. CASE Manager /\ ~(\E l \in Layers : ScanResult(l)) /\ ~ScanLaunch /\ ~GrantLaunch /\ ~BlockKill
  BY <1>1, <1>9 DEF Manager, Top, ScanTimeout, ScanActive, ScanDone, Audit, Grant, GrantDone, BlockStop,
     BlockRequeue, WriteBlocked
<1>10. CASE StopServices \/ Repair \/ Check \/ ManagerCrash \/ Resume \/ Restart \/ Finished
  BY <1>1, <1>10 DEF StopServices, Repair, Check, ManagerCrash, Resume, Restart, Finished, vars
<1> QED
  BY <1>4, <1>5, <1>6, <1>7, <1>8, <1>9, <1>10 DEF Control, ControlStep

\* The control host writes no result and no exit code, and expires no lease.
LEMMA ControlLeaves ==
  ASSUME Control PROVE UNCHANGED <<results, published, exits>>
<1>1. UNCHANGED <<results, published>>
  BY ControlFiles DEF Control
<1>2. UNCHANGED exits
  <2> USE DEF remote
  <2>1. CASE Manager
    BY <2>1 DEF Manager, Top, ScanResult, ScanTimeout, ScanActive, ScanLaunch, ScanDone, Audit, Grant,
       GrantLaunch, GrantDone, BlockKill, BlockStop, BlockRequeue, WriteBlocked
  <2>2. CASE ~Manager
    BY <2>2 DEF Control, ControlStep, RunGuard, RunRestart, KillAll, StopAll, StopServices, Repair, Check, ManagerCrash,
       Resume, Restart, HostCrash, Finished, vars
  <2> QED  BY <2>1, <2>2
<1> QED
  BY <1>1, <1>2

LEMMA ControlExpires ==
  ASSUME TypeOK, Control
  PROVE  expired' \subseteq expired /\ \A l \in Layers : Finish(l) => l \notin expired'
<1>1. expired' \subseteq expired
  <2> USE DEF RequeueAll, Finish
  <2>1. CASE Manager
    BY <2>1 DEF Manager, Top, ScanResult, ScanTimeout, ScanActive, ScanLaunch, ScanDone, Audit, Grant,
       GrantLaunch, GrantDone, BlockKill, BlockStop, BlockRequeue, WriteBlocked
  <2>2. CASE ~Manager
    BY <2>2 DEF Control, ControlStep, RunGuard, RunRestart, KillAll, StopAll, StopServices, Repair, Check, ManagerCrash,
       Resume, Restart, HostCrash, Finished, vars
  <2> QED  BY <2>1, <2>2
<1> QED
  BY <1>1 DEF Finish

\* Who may write the result of a lease, and what.
ResultMoves ==
  \A i \in Leases : results'[i] # results[i] =>
    \/ \E n \in Nodes : /\ workers[n] # None /\ LeaseIn(workers[n]) = i /\ UNCHANGED <<queue, Place>>
                        /\ workers[n].at = "result" \/ (workers[n].at = "trapWrite" /\ results'[i] = Failed)
    \/ results'[i] = Failed /\ UNCHANGED <<queue, Place>> /\ \E t \in traps : LeaseIn(t) = i

LEMMA ResultStep == ASSUME TypeOK, [Next]_vars PROVE ResultMoves
<1>1. results \in [Leases -> Result \cup {None}]
  BY DEF TypeOK
<1>2. ASSUME UNCHANGED results PROVE ResultMoves
  BY <1>2 DEF ResultMoves
<1>3. ASSUME NEW n \in Nodes, workers[n] # None, Works(n) PROVE ResultMoves
  <2>1. UNCHANGED <<queue, Place>>
    BY <1>3, OthersFrame DEF Others
  <2>2. \A i \in Leases : results'[i] # results[i] =>
          /\ i = LeaseIn(workers[n])
          /\ workers[n].at = "result" \/ (workers[n].at = "trapWrite" /\ results'[i] = Failed)
    BY <1>1, <1>3, WorkerFiles
  <2> QED  BY <1>3, <2>1, <2>2 DEF ResultMoves
<1>4. ASSUME NEW t \in traps, OrphanTrap(t) PROVE ResultMoves
  <2>1. UNCHANGED <<queue, Place>>
    BY <1>4, TrapMoves
  <2>2. \A i \in Leases : results'[i] # results[i] => i = LeaseIn(t) /\ results'[i] = Failed
    BY <1>1, <1>4, TrapMoves
  <2> QED  BY <2>1, <2>2 DEF ResultMoves
<1>5. CASE Control \/ UNCHANGED vars
  BY <1>2, <1>5, ControlLeaves DEF vars
<1> QED
  BY <1>2, <1>3, <1>4, <1>5, NextIs, RebootTypes, JobTypes, ExpireTypes, OutsideTypes DEF Others, Beside

\* Who may change a worker.
WorkerChanges(n) ==
  \/ workers'[n] = workers[n]
  \/ workers[n] # None /\ WorkerStep(n) /\ UNCHANGED <<queue, Place>>
  \/ workers[n] # None /\ (WorkerFail(n) \/ LookFails(n)) /\ UNCHANGED <<queue, Place>>
  \/ workers'[n] = None /\ Control
  \/ Launched(n) /\ Control

LEMMA ChangeStep ==
  ASSUME TypeOK, LoopOK, Leasing, Fresh, [Next]_vars, NEW n \in Nodes
  PROVE  WorkerChanges(n)
<1>1. CASE Control
  BY <1>1, ControlWorkers DEF WorkerChanges
<1>2. ASSUME NEW m \in Nodes, workers[m] # None, Works(m) PROVE WorkerChanges(n)
  BY <1>2, WorkerMoves DEF WorkerChanges, Moved, Works
<1>3. ASSUME NEW t \in traps, OrphanTrap(t) PROVE WorkerChanges(n)
  BY <1>3, TrapMoves DEF WorkerChanges
<1>4. CASE UNCHANGED vars
  BY <1>4 DEF vars, WorkerChanges
<1> QED
  BY <1>1, <1>2, <1>3, <1>4, NextIs, RebootTypes, JobTypes, ExpireTypes, OutsideTypes DEF Others, Beside, WorkerChanges
-----------------------------------------------------------------------------
(* Leases that were *)

\* An attempt number is never used again, for another node or another time.
Counts ==
  \A l \in Layers : /\ queue[l].attempt \in Int /\ queue'[l].attempt \in Int
                    /\ queue[l].attempt <= queue'[l].attempt
                    /\ queue'[l].attempt = queue[l].attempt => queue'[l].node = queue[l].node

LEMMA CountStep == ASSUME TypeOK, TypeOK', QueueMoves PROVE Counts
<1>1. \A l \in Layers : queue[l].attempt \in Int /\ queue'[l].attempt \in Int
  BY DEF TypeOK, Record, Published
<1>2. \A l \in Layers : Keeps(l) \/ Completes(l) \/ Returns(l) \/ queue'[l].attempt = queue[l].attempt + 1
  BY DEF QueueMoves, Granted
<1>3. ASSUME NEW l \in Layers, Keeps(l) \/ Completes(l) \/ Returns(l)
      PROVE  queue'[l].attempt = queue[l].attempt /\ queue'[l].node = queue[l].node
  BY <1>3 DEF Keeps, Completes, Returns
<1>4. \A a \in Int : a <= a /\ a <= a + 1 /\ a + 1 # a
  OBVIOUS
<1> QED
  BY <1>1, <1>2, <1>3, <1>4 DEF Counts

LEMMA LaterLease ==
  ASSUME Counts, NEW l \in Layers, NEW a \in Int, a <= queue[l].attempt
  PROVE  a <= queue'[l].attempt
<1> DEFINE b == queue[l].attempt
<1> DEFINE c == queue'[l].attempt
<1>1. b \in Int /\ c \in Int /\ b <= c /\ a <= b
  BY DEF Counts
<1> HIDE DEF b, c
<1>2. a <= c
  BY <1>1
<1> QED
  BY <1>2 DEF c

LEMMA HeldKept ==
  ASSUME Counts, NEW w, NEW n, w.layer \in Layers, w.attempt \in Int, Held(w, n)
  PROVE  Held(w, n)'
<1> DEFINE a == queue[w.layer].attempt
<1> DEFINE b == queue'[w.layer].attempt
<1>1. a \in Int /\ b \in Int /\ a <= b /\ (b = a => queue'[w.layer].node = queue[w.layer].node)
  BY DEF Counts
<1>2. w.attempt <= a /\ (w.attempt = a => queue[w.layer].node = n)
  BY DEF Held
<1> HIDE DEF a, b
<1>3. w.attempt <= b /\ (w.attempt = b => a = b /\ w.attempt = a)
  BY <1>1, <1>2
<1>4. w.attempt = b => queue'[w.layer].node = n
  BY <1>1, <1>2, <1>3
<1> QED
  BY <1>3, <1>4 DEF Held, b

LEMMA TrapStep ==
  ASSUME TypeOK, LoopOK, Leasing, [Next]_vars, NEW t \in traps'
  PROVE  \/ \E s \in traps : LeaseIn(t) = LeaseIn(s)
         \/ \E n \in Nodes : workers[n] # None /\ LeaseIn(t) = LeaseIn(workers[n])
<1>1. CASE Control
  BY <1>1, ControlWorkers DEF TrapsOf
<1>2. CASE traps' = traps
  BY <1>2
<1>3. ASSUME NEW s \in traps, OrphanTrap(s) PROVE \E u \in traps : LeaseIn(t) = LeaseIn(u)
  BY <1>3, TrapMoves
<1>4. ASSUME NEW m \in Nodes, workers[m] # None, Works(m) PROVE traps' = traps
  BY <1>4 DEF Works, WorkerStep, WorkerFail, LookFails, WorkerBegin, WorkerStart, WorkerSession, WorkerLaunch,
     WorkerWait, WorkerVerify, WorkerPublish, WorkerResult, WorkerClean, WorkerTrap
<1>5. CASE UNCHANGED vars
  BY <1>2, <1>5 DEF vars
<1> QED
  BY <1>1, <1>2, <1>3, <1>4, <1>5, NextIs, RebootTypes, JobTypes, ExpireTypes, OutsideTypes DEF Others, Beside

LEMMA WasLeasedStep ==
  ASSUME TypeOK, TypeOK', LoopOK, Leasing, QueueMoves, WasLeased, LastLease, SessionMoves, [Next]_vars
  PROVE  WasLeased'
<1>1. Counts
  BY CountStep
<1>2. \A n \in Nodes : workers[n] # None => workers[n].layer \in Layers /\ workers[n].attempt \in Int
  BY DEF TypeOK, Worker, Attempts
<1>3. ASSUME NEW k \in jobs', k.session PROVE Held(k, k.node)'
  <2>1. k.layer \in Layers /\ k.attempt \in Int
    BY DEF TypeOK, Job, Attempts
  <2>2. CASE Comes(k)
    <3>1. PICK j \in jobs : j.session /\ j.node = k.node /\ LeaseIn(j) = LeaseIn(k)
      BY <2>2 DEF Comes
    <3>2. Held(k, k.node)
      BY <3>1 DEF WasLeased, Held, LeaseIn
    <3> QED  BY <1>1, <2>1, <3>2, HeldKept
  <2>3. CASE Starts(k)
    <3>1. PICK n \in Nodes : workers[n] # None /\ k.node = n /\ LeaseIn(k) = LeaseIn(workers[n])
      BY <2>3 DEF Starts
    <3>2. k.attempt = queue[k.layer].attempt /\ queue[k.layer].node = k.node
      BY <3>1 DEF LastLease, LeaseIn
    <3>3. Held(k, k.node)
      BY <2>1, <3>2 DEF Held
    <3> QED  BY <1>1, <2>1, <3>3, HeldKept
  <2> QED  BY <1>3, <2>2, <2>3 DEF SessionMoves
<1>4. ASSUME NEW t \in traps' PROVE t.attempt <= queue'[t.layer].attempt
  <2>1. t.layer \in Layers /\ t.attempt \in Int
    BY DEF TypeOK, Trap, Attempts
  <2>2. t.attempt <= queue[t.layer].attempt
    <3>1. ASSUME NEW s \in traps, LeaseIn(t) = LeaseIn(s) PROVE t.attempt <= queue[t.layer].attempt
      BY <3>1 DEF WasLeased, LeaseIn
    <3>2. ASSUME NEW n \in Nodes, workers[n] # None, LeaseIn(t) = LeaseIn(workers[n])
          PROVE  t.attempt <= queue[t.layer].attempt
      BY <1>2, <3>2 DEF LastLease, LeaseIn
    <3> QED  BY <3>1, <3>2, TrapStep
  <2> QED  BY <1>1, <2>1, <2>2, LaterLease
<1>5. ASSUME NEW i \in Leases, results'[i] # None \/ exits'[i] # "none" PROVE i[2] <= queue'[i[1]].attempt
  <2>1. i[1] \in Layers /\ i[2] \in Int
    BY DEF Leases, Attempts
  <2>2. i[2] <= queue[i[1]].attempt
    <3>1. CASE results'[i] = results[i] /\ exits'[i] = exits[i]
      BY <1>5, <3>1 DEF WasLeased
    <3>4. CASE exits'[i] # exits[i]
      <4>1. PICK j \in jobs : j.session /\ LeaseIn(j) = i
        BY <3>4 DEF SessionMoves, ExitMoves
      <4> QED  BY <4>1 DEF WasLeased, Held, LeaseIn
    <3>2. ASSUME NEW n \in Nodes, workers[n] # None, LeaseIn(workers[n]) = i PROVE i[2] <= queue[i[1]].attempt
      <4>1. workers[n].layer = i[1] /\ workers[n].attempt = i[2]
        BY <3>2 DEF LeaseIn
      <4>2. workers[n].attempt = queue[workers[n].layer].attempt
        BY <3>2 DEF LastLease
      <4>3. i[2] = queue[i[1]].attempt
        BY <4>1, <4>2, ZenonT(20)
      <4> QED  BY <2>1, <4>3
    <3>3. ASSUME NEW t \in traps, LeaseIn(t) = i PROVE i[2] <= queue[i[1]].attempt
      BY <3>3 DEF WasLeased, LeaseIn
    <3> QED  BY <3>1, <3>2, <3>3, <3>4, ResultStep DEF ResultMoves
  <2> QED  BY <1>1, <2>1, <2>2, LaterLease
<1> QED
  BY <1>3, <1>4, <1>5 DEF WasLeased

LEMMA LastLeaseStep ==
  ASSUME TypeOK, LoopOK, Leasing, Own, Fresh, QueueMoves, LastLease, [Next]_vars
  PROVE  LastLease'
<1> SUFFICES ASSUME NEW n \in Nodes, workers'[n] # None
             PROVE  workers'[n].attempt = queue'[workers'[n].layer].attempt /\ queue'[workers'[n].layer].node = n
  BY DEF LastLease
<1>1. CASE workers'[n] = workers[n]
  <2>1. workers[n].layer \in Layers
    BY <1>1 DEF TypeOK, Worker
  <2>2. CASE \A l \in Layers : Keeps(l) \/ Completes(l) \/ Returns(l)
    BY <1>1, <2>1, <2>2 DEF LastLease, Keeps, Completes, Returns
  <2>3. ASSUME NEW l \in Layers, NEW m \in Nodes, at = "grant", Granted(l, m) PROVE Keeps(workers[n].layer)
    <3>1. workers[n].layer \in Leased /\ l \notin Leased
      BY <1>1, <2>3 DEF Own, ManagerLoop, Granted, Pending, Leased
    <3> QED  BY <2>1, <2>3, <3>1 DEF Granted
  <2>4. CASE Keeps(workers[n].layer)
    BY <1>1, <2>1, <2>4 DEF LastLease, Keeps
  <2> QED  BY <2>2, <2>3, <2>4 DEF QueueMoves
<1>2. CASE workers[n] # None /\ Works(n)
  <2>1. Moved(n)
    BY <1>2, WorkerMoves
  <2> QED  BY <1>2, <2>1 DEF Moved, LastLease
<1>3. CASE Launched(n)
  BY <1>3 DEF Launched
<1> QED
  BY <1>1, <1>2, <1>3, ChangeStep DEF WorkerChanges, Works

LEMMA ExitedStep ==
  ASSUME TypeOK, LoopOK, Leasing, Fresh, Writes, Exited, SessionMoves, [Next]_vars
  PROVE  Exited'
<1>1. \A i \in Leases : exits[i] # "none" => exits'[i] # "none"
  BY DEF SessionMoves, ExitMoves
<1>2. \A n \in Nodes : workers[n] # None => LeaseIn(workers[n]) \in Leases
  BY DEF TypeOK, Worker, LeaseIn, Leases
<1>3. ASSUME NEW i \in Leases, Passing(results'[i]) PROVE exits'[i] # "none"
  <2>1. CASE results'[i] = results[i]
    BY <1>1, <1>3, <2>1 DEF Exited
  <2>2. CASE results'[i] # results[i]
    <3>1. results'[i] # Failed
      BY <1>3 DEF Passing, Failed
    <3>2. PICK n \in Nodes : workers[n] # None /\ LeaseIn(workers[n]) = i /\ workers[n].at = "result"
      BY <2>2, <3>1, ResultStep DEF ResultMoves
    <3> QED  BY <1>1, <3>2 DEF Exited
  <2> QED  BY <2>1, <2>2
<1>4. ASSUME NEW n \in Nodes, workers'[n] # None, workers'[n].at \in {"verify", "publish", "result"}
      PROVE  exits'[LeaseIn(workers'[n])] # "none"
  <2>1. CASE workers'[n] = workers[n]
    BY <1>1, <1>2, <1>4, <2>1 DEF Exited
  <2>2. CASE workers[n] # None /\ WorkerStep(n)
    <3>1. LeaseIn(workers'[n]) = LeaseIn(workers[n])
      BY <1>4, <2>2, WorkerMoves DEF Moved, LeaseIn, Works
    <3>2. exits[LeaseIn(workers[n])] # "none"
      BY <1>4, <2>2, WorkerCame DEF Came, Exited
    <3> QED  BY <1>1, <1>2, <2>2, <3>1, <3>2
  <2>3. CASE workers[n] # None /\ (WorkerFail(n) \/ LookFails(n))
    BY <1>4, <2>3, FailedCame
  <2>4. CASE Launched(n)
    BY <1>4, <2>4 DEF Launched
  <2> QED  BY <1>4, <2>1, <2>2, <2>3, <2>4, ChangeStep DEF WorkerChanges
<1> QED
  BY <1>3, <1>4 DEF Exited
-----------------------------------------------------------------------------
(* Sweeps *)

Stopping == {"stop", "guardStop", "restartStop"}

\* A sweep begins with every stop still to do, does them one by one, and ends when
\* none is left.
SweepMoves ==
  /\ at' \in Stopping =>
       \/ stops' = Stops
       \/ at \in Stopping /\ stops' = stops
       \/ at \in Stopping /\ \E p \in Stops : StopNode(p) /\ UNCHANGED exits /\ stops' = stops \ {p}
  /\ at' \in Swept => at \in Swept \/ (at \in Stopping /\ stops = {})
  /\ at' = "requeue" =>
       \/ at = "requeue" /\ UNCHANGED <<queue, todo>>
       \/ UNCHANGED queue /\ todo' = Leased
       \/ \E l \in todo : at = "requeue" /\ RequeueAll({l}) /\ todo' = todo \ {l}

LEMMA SweepFlow == ASSUME TypeOK, [Next]_vars PROVE SweepMoves
<1> USE DEF SweepMoves, Stopping, Swept, Place
<1>1. ASSUME UNCHANGED <<queue, Place>> PROVE SweepMoves
  BY <1>1
<1>2. ASSUME at' \notin Stopping \cup Swept PROVE SweepMoves
  BY <1>2
<1>3. stops \subseteq Stops
  BY DEF TypeOK
<1>4. CASE Others
  BY <1>1, <1>4, OthersFrame
<1>5. CASE Control
  <2>1. CASE Manager /\ ~BlockStop /\ ~BlockRequeue
    <3>1. at' \notin Stopping \cup Swept \/ stops' = Stops
      BY <2>1 DEF Manager, Top, ScanResult, ScanTimeout, ScanActive, ScanLaunch, ScanDone, Audit, Grant,
         GrantLaunch, GrantDone, BlockKill, WriteBlocked, Block, Goto, GotoStop
    <3>2. at' \notin {"requeue", "blocked", "services", "repair", "check"}
      BY <2>1 DEF Manager, Top, ScanResult, ScanTimeout, ScanActive, ScanLaunch, ScanDone, Audit, Grant,
         GrantLaunch, GrantDone, BlockKill, WriteBlocked, Block, Goto, GotoStop
    <3> QED  BY <3>1, <3>2
  <2>2. CASE BlockStop
    BY <2>2 DEF BlockStop, IsNextStop, Goto, GotoStop, remote
  <2>3. CASE BlockRequeue
    BY <2>3 DEF BlockRequeue, Least, Goto
  <2>4. CASE RunGuard \/ RunRestart
    BY <1>3, <2>4 DEF RunGuard, RunRestart, KillAll, StopAll, Goto, GotoStop
  <2>5. CASE StopServices \/ Repair
    BY <2>5 DEF StopServices, Repair, Goto
  <2>6. CASE Check \/ ManagerCrash \/ Resume \/ Restart \/ HostCrash
    BY <1>2, <2>6 DEF Check, ManagerCrash, Resume, Restart, HostCrash, Goto
  <2>7. CASE Finished
    BY <1>1, <2>7 DEF Finished, vars
  <2> QED
    BY <1>5, <2>1, <2>2, <2>3, <2>4, <2>5, <2>6, <2>7 DEF Control, ControlStep
<1>6. CASE UNCHANGED vars
  BY <1>1, <1>6 DEF vars
<1> QED
  BY <1>4, <1>5, <1>6, NextIs

\* Nobody starts an encoder while there is no worker.
LEMMA NoStarts ==
  ASSUME Idle, SessionMoves, at \in Killed, NEW k \in jobs', k.session PROVE Comes(k)
BY DEF Idle, SessionMoves, Starts

LEMMA SweepsStep ==
  ASSUME TypeOK, TypeOK', Idle, OneSession, Sweeps, SessionMoves, [Next]_vars
  PROVE  Sweeps'
<1>1. SweepMoves
  BY SweepFlow
<1>2. Stopping \cup Swept \subseteq Killed
  BY DEF Stopping, Swept, Killed, Recovery
<1>3. ASSUME NEW k \in jobs', k.session, at' \in Stopping PROVE <<k.node, 2>> \in stops'
  <2>1. CASE stops' = Stops
    BY <2>1 DEF TypeOK, Job, Stops
  <2>2. CASE at \in Stopping /\ stops' = stops
    BY <1>2, <1>3, <2>2, NoStarts DEF Comes, Sweeps, Stopping
  <2>3. ASSUME at \in Stopping, NEW p \in Stops, StopNode(p), UNCHANGED exits, stops' = stops \ {p}
        PROVE  <<k.node, 2>> \in stops'
    <3>1. Comes(k) /\ <<k.node, 2>> # p
      BY <1>3, <2>3, StopSteps
    <3> QED  BY <2>3, <3>1 DEF Comes, Sweeps, Stopping
  <2> QED  BY <1>1, <1>3, <2>1, <2>2, <2>3 DEF SweepMoves
<1>4. ASSUME NEW k \in jobs', k.session, at' \in Swept PROVE FALSE
  <2>1. at \in Swept \/ (at \in Stopping /\ stops = {})
    BY <1>1, <1>4 DEF SweepMoves
  <2>2. Comes(k)
    BY <1>2, <1>4, <2>1, NoStarts
  <2> QED  BY <2>1, <2>2 DEF Comes, Sweeps, Stopping
<1> QED
  BY <1>3, <1>4 DEF Sweeps, Stopping

LEMMA RequeuesStep ==
  ASSUME TypeOK, LoopOK, Requeues, [Next]_vars PROVE Requeues'
<1> SUFFICES ASSUME at' = "requeue" PROVE Leased' \subseteq todo'
  BY DEF Requeues
<1>1. CASE UNCHANGED queue /\ (todo' = Leased \/ (at = "requeue" /\ UNCHANGED todo))
  BY <1>1 DEF Requeues, Leased
<1>2. ASSUME NEW l \in todo, at = "requeue", RequeueAll({l}), todo' = todo \ {l} PROVE Leased' \subseteq todo'
  <2>1. {l} \in SUBSET Leased
    BY <1>2 DEF LoopOK
  <2>2. \A m \in Layers : IF m \in {l} THEN Returns(m) ELSE Keeps(m)
    BY <1>2, <2>1, RequeueMoves
  <2>3. \A m \in Leased' : m # l /\ m \in Leased
    BY <2>2 DEF Leased, Returns, Keeps
  <2> QED  BY <1>2, <2>3 DEF Requeues
<1> QED
  BY <1>1, <1>2, SweepFlow DEF SweepMoves
-----------------------------------------------------------------------------
(* Leases that end *)

\* A lease ends in the scan, or where no session is left.
Ends(l) == ScanResult(l) \/ ScanTimeout(l) \/ at \in Swept

LEMMA EndStep == ASSUME TypeOK, LoopOK, [Next]_vars, NEW l \in Leased PROVE Keeps(l) \/ Ends(l)
<1>1. l \in Layers /\ (UNCHANGED queue => Keeps(l))
  BY DEF Leased, Keeps
<1>2. CASE Others
  BY <1>1, <1>2, OthersFrame DEF Others
<1>3. CASE Control
  <2>1. ASSUME NEW m \in Layers, ScanResult(m) \/ ScanTimeout(m) PROVE Keeps(l) \/ Ends(l)
    <3>1. m \in Leased /\ {m} \in SUBSET Leased
      BY <2>1 DEF ScanResult, ScanTimeout, Least, LoopOK
    <3>2. CASE m = l
      BY <2>1, <3>2 DEF Ends
    <3>3. CASE m # l
      BY <1>1, <2>1, <3>1, <3>3, FinishMoves, RequeueMoves DEF ScanResult, ScanTimeout
    <3> QED  BY <3>2, <3>3
  <2>2. CASE BlockRequeue \/ Repair
    BY <2>2 DEF BlockRequeue, Repair, Ends, Swept
  <2>3. ASSUME NEW n \in Nodes, Grant(n) PROVE Keeps(l)
    <3>1. ASSUME NEW m \in Layers, Granted(m, n) PROVE Keeps(l)
      <4>1. m # l
        BY <3>1 DEF Granted, Pending, Leased
      <4> QED  BY <1>1, <3>1, <4>1 DEF Granted
    <3> QED  BY <1>1, <2>3, <3>1, GrantMoves DEF Grant
  <2>4. CASE Check
    BY <1>1, <2>4, CheckMoves
  <2>7. CASE StopServices
    BY <1>1, <2>7 DEF StopServices
  <2>5. CASE Manager /\ ~BlockRequeue /\ ~(\E m \in Layers : ScanResult(m) \/ ScanTimeout(m)) /\ ~(\E n \in Nodes : Grant(n))
    BY <1>1, <2>5 DEF Manager, Top, ScanActive, ScanLaunch, ScanDone, Audit, GrantLaunch, GrantDone, BlockKill,
       BlockStop, WriteBlocked
  <2>6. CASE RunGuard \/ RunRestart \/ ManagerCrash \/ Resume \/ Restart \/ HostCrash \/ Finished
    BY <1>1, <2>6 DEF RunGuard, RunRestart, KillAll, StopAll, ManagerCrash, Resume, Restart, HostCrash, Finished, vars
  <2> QED
    BY <1>3, <2>1, <2>2, <2>3, <2>4, <2>5, <2>6, <2>7 DEF Control, ControlStep
<1>4. CASE UNCHANGED vars
  BY <1>1, <1>4 DEF vars
<1> QED
  BY <1>2, <1>3, <1>4, NextIs

\* A layer whose lease has an exit code has no session.
LEMMA ExitedLayer ==
  ASSUME Legits, CalmEncodes, NEW l \in Layers, exits[LeaseOf(l)] # "none", NEW j \in jobs, j.session
  PROVE  j.layer # l
BY DEF Legits, Legit, CalmEncodes, LeaseOf, LeaseIn

\* A lease that ends does not leave a session behind, as long as there was no fault.
LEMMA EndsQuietly ==
  ASSUME TypeOK, LoopOK, Legits, CalmEncodes, Exited, Sweeps, NEW l \in Leased, Leasing, Ends(l),
         CalmLoop, NEW j \in jobs, j.session
  PROVE  j.layer # l
<1>1. l \in Layers /\ LeaseOf(l) \in Leases
  BY DEF Leased, Leasing, LeaseOf, Leases
<1>2. CASE at \in Swept
  BY <1>2 DEF Sweeps
<1>3. CASE ScanResult(l) /\ Passing(results[LeaseOf(l)])
  BY <1>1, <1>3, ExitedLayer DEF Exited
<1>4. CASE ScanResult(l) /\ ~Passing(results[LeaseOf(l)])
  <2>1. at \in ManagerLoop /\ at' = "kill" /\ results[LeaseOf(l)] # None
    BY <1>4 DEF ScanResult, ValidResult, Block, Goto, ManagerLoop
  <2>2. exits[LeaseOf(l)] # "none"
    BY <2>1 DEF CalmLoop
  <2> QED  BY <1>1, <2>2, ExitedLayer
<1>5. CASE ScanTimeout(l)
  <2>1. at \in ManagerLoop /\ at' = "kill" /\ l \in expired
    BY <1>5 DEF ScanTimeout, Block, Goto, ManagerLoop
  <2>2. LeaseIn(j) # LeaseOf(l)
    BY <2>1 DEF CalmLoop, Waiting
  <2> QED  BY <2>2 DEF Legits, Legit, LeaseOf, LeaseIn
<1> QED
  BY <1>2, <1>3, <1>4, <1>5 DEF Ends

\* An encode of a lease that stays goes on; a worker starts one on its lease.
LEMMA LegitsKept ==
  ASSUME TypeOK, TypeOK', Legits, SessionMoves,
         \A l \in Leased : Keeps(l) \/ \A j \in jobs : j.session => j.layer # l,
         \A n \in Nodes : workers[n] # None /\ WorkerLaunch(n) => Legit(workers[n], n)
  PROVE  Legits'
<1> SUFFICES ASSUME NEW k \in jobs', k.session PROVE Legit(k, k.node)'
  BY DEF Legits
<1>1. CASE Comes(k)
  <2>1. PICK j \in jobs : j.session /\ j.node = k.node /\ LeaseIn(j) = LeaseIn(k)
    BY <1>1 DEF Comes
  <2>2. Legit(k, k.node) /\ j.layer = k.layer
    BY <2>1 DEF Legits, Legit, LeaseIn
  <2>3. k.layer \in Layers /\ Keeps(k.layer)
    BY <2>1, <2>2 DEF Legit, Leased
  <2> QED  BY <2>2, <2>3 DEF Legit, Keeps, Leased
<1>2. CASE Starts(k)
  <2>1. PICK n \in Nodes : workers[n] # None /\ WorkerLaunch(n) /\ k.node = n /\ LeaseIn(k) = LeaseIn(workers[n])
    BY <1>2 DEF Starts
  <2>2. Legit(k, k.node) /\ UNCHANGED queue
    BY <2>1 DEF Legit, LeaseIn, WorkerLaunch
  <2> QED  BY <2>2 DEF Legit, Leased
<1> QED
  BY <1>1, <1>2 DEF SessionMoves

\* Without a fault a worker that starts an encoder has its lease.
LEMMA CalmStart ==
  ASSUME TypeOK, Own, Idle, LastLease, CalmDown, NEW n \in Nodes, workers[n] # None, WorkerLaunch(n)
  PROVE  Legit(workers[n], n)
<1>1. workers[n].at = "launch"
  BY DEF WorkerLaunch
<1>2. at \notin Killed /\ at \notin {"guardKill", "complete"}
  BY DEF Idle, CalmDown
<1>3. at \in ManagerLoop \cup {"kill"}
  BY <1>2, Labels DEF TypeOK, Killed, ManagerBlock, Guard
<1>4. workers[n].layer \in Leased
  BY <1>1, <1>3 DEF Own, CalmDown, Starting
<1> QED
  BY <1>4 DEF LastLease, Legit

LEMMA CalmLegits ==
  ASSUME IndInv, IndInv', LeaseInv, SessionMoves, [Next]_vars, faults = 0
  PROVE  Legits'
<1>1. Legits /\ CalmLoop /\ CalmDown /\ CalmEncodes
  BY DEF LeaseInv, Calm
<1>2. TypeOK /\ TypeOK' /\ LoopOK /\ Leasing /\ Own /\ Idle /\ LastLease /\ Exited /\ Sweeps
  BY DEF IndInv, LeaseInv
<1>3. \A l \in Leased : Keeps(l) \/ \A j \in jobs : j.session => j.layer # l
  BY <1>1, <1>2, EndStep, EndsQuietly
<1>4. \A n \in Nodes : workers[n] # None /\ WorkerLaunch(n) => Legit(workers[n], n)
  BY <1>1, <1>2, CalmStart
<1> QED
  BY <1>1, <1>2, <1>3, <1>4, LegitsKept

\* With one: a lease that ends is completed, unless the manager gives up or no session
\* is left.
LEMMA EndsKnown ==
  ASSUME TypeOK, LoopOK, QueueMoves, Sweeps, [Next]_vars, NEW l \in Layers, queue[l].state # "pending", at' # "kill"
  PROVE  Keeps(l) \/ Completes(l) \/ \A j \in jobs : ~j.session
<1>1. CASE l \notin Leased
  BY <1>1 DEF QueueMoves, Completes, Returns, Granted, Pending
<1>2. CASE l \in Leased /\ ~Keeps(l)
  <2>1. Ends(l)
    BY <1>2, EndStep
  <2>2. CASE at \in Swept
    BY <2>2 DEF Sweeps
  <2>3. CASE ScanResult(l) \/ ScanTimeout(l)
    <3>1. Finish(l) /\ ValidResult(l)
      BY <2>3 DEF ScanResult, ScanTimeout, Block, Goto
    <3> QED  BY <1>2, <3>1, FinishMoves
  <2> QED  BY <2>1, <2>2, <2>3 DEF Ends
<1> QED
  BY <1>1, <1>2

LEMMA TheirsKept ==
  ASSUME TypeOK, TypeOK', AllTheirs, SessionMoves,
         \A l \in Layers : queue[l].state # "pending" => Keeps(l) \/ Completes(l) \/ \A j \in jobs : ~j.session,
         \A n \in Nodes : workers[n] # None /\ WorkerLaunch(n) => Legit(workers[n], n)
  PROVE  AllTheirs'
<1> SUFFICES ASSUME NEW k \in jobs', k.session PROVE Theirs(k, k.node)'
  BY DEF AllTheirs
<1>1. k.layer \in Layers
  BY DEF TypeOK, Job
<1>2. CASE Comes(k)
  <2>1. PICK j \in jobs : j.session /\ j.node = k.node /\ LeaseIn(j) = LeaseIn(k)
    BY <1>2 DEF Comes
  <2>2. Theirs(k, k.node)
    BY <2>1 DEF AllTheirs, Theirs, LeaseIn
  <2>3. Keeps(k.layer) \/ Completes(k.layer)
    BY <1>1, <2>1, <2>2 DEF Theirs
  <2> QED  BY <2>2, <2>3 DEF Theirs, Keeps, Completes
<1>3. CASE Starts(k)
  <2>1. PICK n \in Nodes : workers[n] # None /\ WorkerLaunch(n) /\ k.node = n /\ LeaseIn(k) = LeaseIn(workers[n])
    BY <1>3 DEF Starts
  <2>2. Theirs(k, k.node) /\ UNCHANGED queue
    BY <2>1 DEF Theirs, Legit, LeaseIn, Leased, WorkerLaunch
  <2> QED  BY <2>2 DEF Theirs
<1> QED
  BY <1>2, <1>3 DEF SessionMoves

LEMMA OneFaultStep ==
  ASSUME IndInv, IndInv', LeaseInv, SessionMoves, QueueMoves, [Next]_vars
  PROVE  OneFault'
<1> SUFFICES ASSUME faults' <= 1, at' \in ManagerLoop \cup {"off"} PROVE AllTheirs'
  BY DEF OneFault
<1>1. TypeOK /\ TypeOK' /\ LoopOK /\ Own /\ Idle /\ Sweeps
  BY DEF IndInv, LeaseInv
<1>2. faults \in Nat
  BY <1>1 DEF TypeOK
<1>3. faults = 0 \/ (faults = 1 /\ faults' = faults /\ Flow)
  BY <1>1, <1>2, FlowStep
<1>4. CASE faults = 0
  <2>1. Legits'
    BY <1>4, CalmLegits
  <2> QED  BY <2>1 DEF Legits, Legit, AllTheirs, Theirs, Leased
<1>5. CASE faults = 1 /\ Flow /\ at \in ManagerLoop \cup {"off"}
  <2>1. AllTheirs
    BY <1>5 DEF LeaseInv, OneFault
  <2>2. at' # "kill"
    BY DEF ManagerLoop
  <2>3. \A l \in Layers : queue[l].state # "pending" => Keeps(l) \/ Completes(l) \/ \A j \in jobs : ~j.session
    BY <1>1, <2>2, EndsKnown
  <2>4. \A n \in Nodes : workers[n] # None /\ WorkerLaunch(n) => Legit(workers[n], n)
    BY <1>1, <1>5 DEF Own, Idle, Killed, Legit
  <2> QED  BY <1>1, <2>1, <2>3, <2>4, TheirsKept
<1>6. CASE Flow /\ at \notin ManagerLoop \cup {"off"}
  <2>1. at = "check" \/ (at = "guardStop" /\ stops = {})
    BY <1>6 DEF Flow
  <2>2. \A j \in jobs : ~j.session
    BY <1>1, <2>1 DEF Sweeps, Swept
  <2>3. \A k \in jobs' : ~k.session
    BY <1>1, <2>1, <2>2, NoStarts DEF Comes, Killed, Recovery
  <2> QED  BY <2>3 DEF AllTheirs
<1> QED
  BY <1>3, <1>4, <1>5, <1>6
-----------------------------------------------------------------------------
(* Without a fault *)

\* The step is not a fault: its premises, for the lemmas that follow.
CalmStep ==
  /\ IndInv /\ IndInv' /\ LeaseInv /\ SessionMoves /\ [Next]_vars
  /\ faults = 0 /\ faults' = 0

LEMMA CalmFacts ==
  ASSUME CalmStep
  PROVE  /\ TypeOK /\ TypeOK' /\ LoopOK /\ Leasing /\ OneLease /\ Own /\ Own' /\ Idle /\ Fresh /\ Alone
         /\ WasLeased /\ LastLease /\ OneSession /\ Exited /\ Requeues
         /\ Legits /\ CalmLoop /\ CalmDown /\ CalmEncodes /\ obstacles = {} /\ Flow /\ QueueMoves /\ ~HostCrash
         /\ \A n \in Nodes : workers[n] # None => ~WorkerFail(n) /\ ~LookFails(n)
         /\ \A l \in Layers : ~SlowExpires(l)
<1>1. TypeOK /\ faults = 0 /\ faults' = 0 /\ [Next]_vars /\ LoopOK
  BY DEF CalmStep, IndInv
<1>2. Flow /\ QueueMoves
  BY <1>1, FlowStep, QueueStep
<1>3. ~Fault
  BY <1>1 DEF Fault
<1> QED
  BY <1>2, <1>3 DEF CalmStep, IndInv, LeaseInv, Calm, HostCrash, WorkerFail, LookFails, SlowExpires

\* The step comes from the loop too, or there was no lease when it was entered.
LEMMA FromLoop ==
  ASSUME CalmStep, at' \in ManagerLoop
  PROVE  at \in ManagerLoop \/ (Leased' = {} /\ \A n \in Nodes : workers'[n] = None)
<1>1. CASE at \notin ManagerLoop
  <2>1. at \in Down /\ at \in Killed /\ at # "grant"
    BY <1>1, CalmFacts DEF Flow, Down, Recovery, Killed
  <2>2. Leased = {} /\ \A n \in Nodes : workers[n] = None
    BY <2>1, CalmFacts DEF CalmDown, Idle
  <2>3. Leased' = {}
    BY <2>1, <2>2, CalmFacts DEF QueueMoves, Leased, Keeps, Completes, Returns
  <2>4. \A n \in Nodes : workers'[n] = None
    <3> TAKE n \in Nodes
    <3>1. WorkerChanges(n)
      BY CalmFacts, ChangeStep DEF CalmStep
    <3> QED  BY <1>1, <2>2, <3>1 DEF WorkerChanges, Launched
  <2> QED  BY <2>3, <2>4
<1> QED
  BY <1>1

\* A lease that is there before and after, or a new one, which has no result.
LEMMA LeaseStays ==
  ASSUME CalmStep, NEW l \in Leased'
  PROVE  \/ l \in Leased /\ Keeps(l) /\ LeaseOf(l)' = LeaseOf(l)
         \/ /\ LeaseOf(l)' \in Leases /\ results'[LeaseOf(l)'] = results[LeaseOf(l)'] /\ results[LeaseOf(l)'] = None
            /\ l \notin expired
<1>1. l \in Layers /\ queue'[l].state = "leased"
  BY DEF Leased
<1>2. CASE \A m \in Layers : Keeps(m) \/ Completes(m) \/ Returns(m)
  BY <1>1, <1>2 DEF Keeps, Completes, Returns, Leased, LeaseOf
<1>3. ASSUME NEW m \in Layers, NEW n \in Nodes, at = "grant", Granted(m, n) PROVE
         \/ l \in Leased /\ Keeps(l) /\ LeaseOf(l)' = LeaseOf(l)
         \/ /\ LeaseOf(l)' \in Leases /\ results'[LeaseOf(l)'] = results[LeaseOf(l)'] /\ results[LeaseOf(l)'] = None
            /\ l \notin expired
  <2>1. CASE l # m
    <3>1. Keeps(l)
      BY <1>1, <1>3, <2>1 DEF Granted
    <3> QED  BY <1>1, <3>1 DEF Keeps, Leased, LeaseOf
  <2>2. CASE l = m
    <3>1. queue'[l].attempt = queue[l].attempt + 1 /\ queue'[l].attempt \in Attempts /\ l \notin Leased
      BY <1>3, <2>2 DEF Granted, Pending, Leased
    <3>2. queue[l].attempt \in Nat
      BY <1>1, CalmFacts DEF TypeOK, Record, Published
    <3> DEFINE i == <<l, queue'[l].attempt>>
    <3>3. i \in Leases /\ i[1] = l /\ i[2] = queue[l].attempt + 1
      BY <1>1, <3>1 DEF Leases
    <3>4. ~(i[2] <= queue[i[1]].attempt)
      BY <3>2, <3>3
    <3>5. results[i] = None
      BY <3>3, <3>4, CalmFacts DEF WasLeased
    <3>6. results'[i] = results[i]
      <4>1. queue' # queue
        BY <3>1, <3>2
      <4> QED  BY <3>3, <4>1, CalmFacts, ResultStep DEF CalmStep, ResultMoves
    <3>7. l \notin expired
      BY <3>1, CalmFacts DEF TypeOK
    <3> QED  BY <3>3, <3>5, <3>6, <3>7 DEF LeaseOf
  <2> QED  BY <2>1, <2>2
<1> QED
  BY <1>2, <1>3, CalmFacts DEF QueueMoves

\* An encoder is over before its lease has a result.
LEMMA CalmResults ==
  ASSUME CalmStep, at' \in ManagerLoop, NEW l \in Leased', results'[LeaseOf(l)'] # None
  PROVE  exits'[LeaseOf(l)'] # "none"
<1>1. at \in ManagerLoop
  BY FromLoop
<1> DEFINE i == LeaseOf(l)
<1>2. l \in Leased /\ Keeps(l) /\ LeaseOf(l)' = i
  BY LeaseStays
<1>3. i \in Leases
  BY <1>2, CalmFacts DEF Leasing, LeaseOf, Leases, Leased
<1>4. exits[i] # "none"
  <2>1. CASE results'[i] = results[i]
    BY <1>1, <1>2, <2>1, CalmFacts DEF CalmLoop
  <2>2. CASE results'[i] # results[i]
    <3>1. ASSUME NEW n \in Nodes, workers[n] # None, LeaseIn(workers[n]) = i, workers[n].at \in {"result", "trapWrite"}
          PROVE  exits[i] # "none"
      BY <1>1, <3>1, CalmFacts DEF Exited, CalmLoop, TrapSteps
    <3>2. ASSUME NEW t \in traps, LeaseIn(t) = i PROVE FALSE
      BY <1>1, <1>2, <3>2, CalmFacts DEF Own, LeaseIn, LeaseOf, Completed, Leased
    <3> QED  BY <1>3, <2>2, <3>1, <3>2, CalmFacts, ResultStep DEF CalmStep, ResultMoves
  <2> QED  BY <2>1, <2>2
<1> QED
  BY <1>2, <1>3, <1>4 DEF CalmStep, SessionMoves, ExitMoves

\* An encoder is over before its worker fails.
LEMMA CalmTraps ==
  ASSUME CalmStep, at' \in ManagerLoop, NEW n \in Nodes, workers'[n] # None, workers'[n].at \in TrapSteps
  PROVE  exits'[LeaseIn(workers'[n])] # "none"
<1>1. at \in ManagerLoop
  BY FromLoop
<1>2. WorkerChanges(n)
  BY CalmFacts, ChangeStep DEF CalmStep
<1>3. \A i \in Leases : exits[i] # "none" => exits'[i] # "none"
  BY DEF CalmStep, SessionMoves, ExitMoves
<1>4. workers[n] # None => LeaseIn(workers[n]) \in Leases
  BY CalmFacts DEF TypeOK, Worker, LeaseIn, Leases
<1>5. CASE workers'[n] = workers[n]
  BY <1>1, <1>3, <1>4, <1>5, CalmFacts DEF CalmLoop
<1>6. CASE workers[n] # None /\ WorkerStep(n)
  <2>1. LeaseIn(workers'[n]) = LeaseIn(workers[n])
    BY <1>6, CalmFacts, WorkerMoves DEF Moved, LeaseIn, Works
  <2>2. Came(n)
    BY <1>6, CalmFacts, WorkerCame
  <2>3. workers[n].layer \in Leased /\ LeaseOf(workers[n].layer) = LeaseIn(workers[n])
    BY <1>1, <1>6, CalmFacts DEF Own, LeaseOf, LeaseIn
  <2>5. ~(workers[n].at = "launch" /\ SessionOf(workers[n], n))
    BY <1>6, CalmFacts DEF CalmEncodes, Beginning, Unused, SessionOf, LeaseIn
  <2>4. exits[LeaseIn(workers[n])] # "none"
    BY <1>1, <1>6, <2>2, <2>3, <2>5, CalmFacts DEF Came, CalmLoop, Exited
  <2> QED  BY <1>3, <1>4, <1>6, <2>1, <2>4
<1>7. CASE Launched(n)
  BY <1>7 DEF Launched, TrapSteps
<1> QED
  BY <1>2, <1>5, <1>6, <1>7, CalmFacts DEF WorkerChanges
\* Only a clock expires a lease.
LEMMA ExpireStep ==
  ASSUME TypeOK, [Next]_vars, NEW l \in expired', l \notin expired
  PROVE  StuckExpires(l) \/ SlowExpires(l)
<1>1. expired' # expired
  OBVIOUS
<1>2. CASE Others
  <2>1. \E m \in Layers : StuckExpires(m) \/ SlowExpires(m)
    BY <1>1, <1>2 DEF Others, Works, WorkerStep, WorkerBegin, WorkerStart, WorkerSession, WorkerLaunch, WorkerWait,
       WorkerVerify, WorkerPublish, WorkerResult, WorkerClean, WorkerTrap, WorkerFail, LookFails, NodeReboots,
       OrphanTrap, JobStep, ContainerStart, Encode, EncoderEnds, StoppedEnds, EncoderFails, Outside
  <2> QED  BY <2>1 DEF StuckExpires, SlowExpires, Expire
<1>3. CASE Control
  BY <1>3, ControlExpires
<1>4. CASE UNCHANGED vars
  BY <1>1, <1>4 DEF vars
<1> QED
  BY <1>2, <1>3, <1>4, NextIs

\* In the loop, a worker is killed only with the completion of its lease.
LEMMA LoopKills ==
  ASSUME TypeOK, LoopOK, Control, at' \in ManagerLoop, NEW n \in Nodes, workers[n] # None, workers'[n] = None
  PROVE  \E m \in Leased : queue[m].node = n /\ Finish(m)
<1> USE DEF host, ManagerLoop
<1>1. ASSUME NEW m \in Layers, ScanResult(m) PROVE \E k \in Leased : queue[k].node = n /\ Finish(k)
  <2>1. m \in Leased
    BY <1>1 DEF ScanResult, Least, LoopOK
  <2> QED  BY <1>1, <2>1 DEF ScanResult, KillSessions
<1>2. CASE ScanLaunch \/ GrantLaunch
  BY <1>2 DEF ScanLaunch, GrantLaunch, Launch, TypeOK
<1>3. CASE Manager /\ ~(\E m \in Layers : ScanResult(m)) /\ ~ScanLaunch /\ ~GrantLaunch
  BY <1>3 DEF Manager, Top, ScanTimeout, ScanActive, ScanDone, Audit, Grant, GrantDone, BlockKill, BlockStop,
     BlockRequeue, WriteBlocked, GotoStop
<1>4. CASE RunGuard \/ RunRestart \/ HostCrash
  BY <1>4 DEF RunGuard, RunRestart, KillAll, StopAll, HostCrash, Goto, GotoStop
<1>5. CASE StopServices \/ Repair \/ Check \/ ManagerCrash \/ Resume \/ Restart \/ Finished
  BY <1>5 DEF StopServices, Repair, Check, ManagerCrash, Resume, Restart, Finished, vars
<1> QED
  BY <1>1, <1>2, <1>3, <1>4, <1>5 DEF Control, ControlStep

\* What expires is a lease whose worker waits for an encoder that is gone.
LEMMA CalmExpired ==
  ASSUME CalmStep, at' \in ManagerLoop, NEW l \in expired'
  PROVE  Waiting(l)'
<1>1. l \in Leased' /\ at \in ManagerLoop
  BY CalmFacts, FromLoop DEF TypeOK
<1> DEFINE n == queue[l].node
<1> DEFINE w == workers[n]
<1>2. CASE l \notin expired
  <2>1. l \in Layers /\ StuckExpires(l)
    BY <1>1, <1>2, CalmFacts, ExpireStep DEF CalmStep, Leased
  <2>2. l \in Leased /\ Stuck(l) /\ UNCHANGED <<queue, exits, jobs, workers>>
    BY <2>1 DEF StuckExpires, Expire, remote, host
  <2>3. n \in Nodes /\ w # None
    BY <2>2, CalmFacts DEF Stuck, Leasing, Leased
  <2>4. LeaseIn(w) = LeaseOf(l)
    <3>1. w.layer \in Leased /\ queue[w.layer].node = n /\ w.attempt = queue[w.layer].attempt
      BY <1>1, <2>3, CalmFacts DEF Own
    <3>2. w.layer = l
      BY <2>2, <3>1, CalmFacts DEF OneLease
    <3> QED  BY <3>1, <3>2 DEF LeaseIn, LeaseOf
  <2>5. Waiting(l)
    BY <2>2, <2>4 DEF Stuck, Waiting, LeaseIn
  <2> QED  BY <2>2, <2>5 DEF Waiting, LeaseOf
<1>3. CASE l \in expired
  <2>1. l \in Leased /\ Keeps(l) /\ LeaseOf(l)' = LeaseOf(l)
    BY <1>1, <1>3, LeaseStays
  <2>2. /\ w # None /\ w.at = "wait" /\ LeaseIn(w) = LeaseOf(l) /\ exits[LeaseOf(l)] = "none"
        /\ \A j \in jobs : j.session => LeaseIn(j) # LeaseOf(l)
    BY <1>1, <1>3, CalmFacts DEF CalmLoop, Waiting
  <2>3. n \in Nodes /\ LeaseOf(l) \in Leases /\ queue'[l].node = n
    BY <2>1, CalmFacts DEF Leasing, Leased, LeaseOf, Leases, Keeps
  <2>4. workers'[n] = w
    <3>1. WorkerChanges(n)
      BY <2>3, CalmFacts, ChangeStep DEF CalmStep
    <3>2. CASE WorkerStep(n)
      BY <2>2, <3>2 DEF WorkerStep, WorkerBegin, WorkerStart, WorkerSession, WorkerLaunch, WorkerWait, WorkerVerify,
         WorkerPublish, WorkerResult, WorkerClean, WorkerTrap, LeaseIn
    <3>3. CASE workers'[n] = None /\ Control
      <4>1. PICK m \in Leased : queue[m].node = n /\ Finish(m)
        BY <2>2, <2>3, <3>3, CalmFacts, LoopKills
      <4>2. m = l
        BY <2>1, <4>1, CalmFacts DEF OneLease
      <4> QED  BY <4>1, <4>2 DEF Finish
    <3> QED  BY <2>2, <2>3, <3>1, <3>2, <3>3, CalmFacts DEF WorkerChanges, Launched
  <2>5. exits'[LeaseOf(l)] = "none"
    BY <2>2, <2>3 DEF CalmStep, SessionMoves, ExitMoves
  <2>6. ASSUME NEW k \in jobs', k.session PROVE LeaseIn(k) # LeaseOf(l)
    <3>1. CASE Comes(k)
      BY <2>2, <3>1 DEF Comes
    <3>2. CASE Starts(k)
      <4>1. PICK m \in Nodes : workers[m] # None /\ WorkerLaunch(m) /\ LeaseIn(k) = LeaseIn(workers[m])
        BY <3>2 DEF Starts
      <4>2. m # n
        BY <2>2, <4>1 DEF WorkerLaunch
      <4> QED  BY <2>2, <2>3, <4>1, <4>2, CalmFacts DEF Alone
    <3> QED  BY <2>6, <3>1, <3>2 DEF CalmStep, SessionMoves
  <2> QED
    BY <2>1, <2>2, <2>3, <2>4, <2>5, <2>6 DEF Waiting
<1> QED
  BY <1>2, <1>3

\* A worker that is about to start an encoder, when the manager gives up, has its lease.
LEMMA CalmKill ==
  ASSUME CalmStep, at' = "kill", NEW n \in Nodes, Starting(n)'
  PROVE  workers'[n].layer \in Leased'
<1>1. workers'[n] # None /\ (workers'[n].at \in {"start", "session", "launch"} \/ (workers'[n].at = "begin" /\ results'[LeaseIn(workers'[n])] = None))
  BY DEF Starting
<1>2. CASE at = "kill"
  <2>1. Leased \subseteq Leased'
    BY <1>2, CalmFacts, EndStep DEF CalmStep, Ends, Swept, ScanResult, ScanTimeout, Keeps, Leased
  <2>2. WorkerChanges(n) /\ ~Launched(n)
    BY <1>2, CalmFacts, ChangeStep DEF CalmStep, Launched, ManagerLoop
  <2>3. workers[n] # None => workers[n] \in Worker /\ LeaseIn(workers[n]) \in Leases
    BY CalmFacts DEF TypeOK, Worker, LeaseIn, Leases
  <2>4. Starting(n) /\ workers'[n].layer = workers[n].layer
    <3>1. CASE workers'[n] = workers[n] /\ workers'[n].at \in {"start", "session", "launch"}
      BY <1>1, <3>1 DEF Starting
    <3>2. CASE workers'[n] = workers[n] /\ workers'[n].at = "begin"
      <4>1. results'[LeaseIn(workers[n])] = results[LeaseIn(workers[n])]
        <5> SUFFICES ASSUME results'[LeaseIn(workers[n])] # results[LeaseIn(workers[n])] PROVE FALSE
          OBVIOUS
        <5>1. ASSUME NEW m \in Nodes, workers[m] # None, LeaseIn(workers[m]) = LeaseIn(workers[n]),
                     workers[m].at \in {"result", "trapWrite"}
              PROVE  FALSE
          BY <1>1, <3>2, <5>1, CalmFacts DEF Alone
        <5>2. ASSUME NEW t \in traps, LeaseIn(t) = LeaseIn(workers[n]) PROVE FALSE
          BY <1>1, <3>2, <5>2, CalmFacts DEF Alone
        <5> QED  BY <1>1, <2>3, <3>2, <5>1, <5>2, CalmFacts, ResultStep DEF CalmStep, ResultMoves
      <4> QED  BY <1>1, <3>2, <4>1 DEF Starting
    <3>3. CASE workers[n] # None /\ WorkerStep(n)
      <4>1. Came(n) /\ workers'[n].layer = workers[n].layer
        BY <1>1, <3>3, CalmFacts, WorkerCame, WorkerMoves DEF Moved, Works
      <4> QED  BY <1>1, <3>3, <4>1 DEF Came, Starting
    <3> QED  BY <1>1, <2>2, <3>1, <3>2, <3>3, CalmFacts DEF WorkerChanges
  <2> QED  BY <1>2, <2>1, <2>4, CalmFacts DEF CalmDown
<1>3. ASSUME NEW l \in Layers, ScanResult(l) \/ ScanTimeout(l) PROVE workers'[n].layer \in Leased'
  <2>1. at = "scan" /\ at \in ManagerLoop /\ UNCHANGED <<workers, results>>
    BY <1>3 DEF ScanResult, ScanTimeout, ManagerLoop, Goto, host, files
  <2> DEFINE m == workers[n].layer
  <2>2. m \in Leased /\ queue[m].node = n /\ LeaseOf(m) = LeaseIn(workers[n]) /\ m \in Layers
    BY <1>1, <2>1, CalmFacts DEF Own, LeaseOf, LeaseIn, Leased
  <2>3. ~ScanResult(m)
    BY <1>1, <2>1, <2>2, CalmFacts DEF ScanResult, Fresh, AtWork, WorkerSteps
  <2>4. ~ScanTimeout(m)
    BY <1>1, <2>1, <2>2, CalmFacts DEF ScanTimeout, CalmLoop, Waiting
  <2>5. Keeps(m)
    BY <2>1, <2>2, <2>3, <2>4, CalmFacts, EndStep DEF CalmStep, Ends, Swept
  <2> QED  BY <2>1, <2>2, <2>5 DEF Keeps, Leased
<1> QED
  BY <1>2, <1>3, CalmFacts DEF Flow

\* A run that is down has no lease, and one that is over or leaves its recovery no worker.
LEMMA CalmRest ==
  ASSUME CalmStep
  PROVE  /\ at' \in {"guardKill", "complete"} => \A n \in Nodes : workers'[n] = None
         /\ at' \in Down => Leased' = {}
<1>1. ASSUME at' \in {"guardKill", "complete"}, NEW n \in Nodes PROVE workers'[n] = None
  <2>1. CASE at' = at
    <3>1. workers[n] = None /\ WorkerChanges(n) /\ ~Launched(n)
      BY <1>1, <2>1, CalmFacts, ChangeStep DEF CalmDown, CalmStep, Launched, ManagerLoop
    <3> QED  BY <3>1 DEF WorkerChanges
  <2>2. CASE at' # at
    <3>1. UNCHANGED workers /\ (at \in {"blocked", "check"} \/ (at = "grant" /\ Completed = Layers))
      BY <1>1, <2>2, CalmFacts DEF Flow
    <3>2. CASE at \in {"blocked", "check"}
      BY <3>1, <3>2, CalmFacts DEF Idle, Killed, Recovery
    <3>3. CASE at = "grant" /\ Completed = Layers
      BY <3>1, <3>3, CalmFacts DEF Own, ManagerLoop, Completed, Leased
    <3> QED  BY <3>1, <3>2, <3>3
  <2> QED  BY <2>1, <2>2
<1>2. ASSUME at' \in Down PROVE Leased' = {}
  <2>1. Leased = {} /\ at # "grant"
    BY <1>2, CalmFacts DEF Flow, CalmDown, Requeues, Down, Recovery
  <2> QED  BY <2>1, CalmFacts DEF QueueMoves, Leased, Keeps, Completes, Returns
<1> QED
  BY <1>1, <1>2

\* What nobody has used stays so, but for the worker that uses it.
UnusedNext(i) == exits'[i] = "none" /\ \A k \in jobs' : k.session => LeaseIn(k) # i

LEMMA UnusedStays ==
  ASSUME CalmStep, NEW i \in Leases, Unused(i),
         \A n \in Nodes : workers[n] # None /\ WorkerLaunch(n) => LeaseIn(workers[n]) # i
  PROVE  UnusedNext(i)
<1>1. exits'[i] = "none"
  BY DEF CalmStep, SessionMoves, ExitMoves, Unused
<1>2. \A k \in jobs' : k.session => LeaseIn(k) # i
  BY DEF CalmStep, SessionMoves, Comes, Starts, Unused
<1> QED
  BY <1>1, <1>2 DEF UnusedNext

\* A result is not taken away.
LEMMA ResultStays ==
  ASSUME TypeOK, [Next]_vars, NEW i \in Leases, results[i] # None PROVE results'[i] # None
<1>1. results \in [Leases -> Result \cup {None}] /\ published \in [Layers -> Published] /\ Failed \in Result
  BY DEF TypeOK, Failed, Result, Published
<1>2. Failed # None
  BY <1>1, NoneIsNoRecord
<1>3. ASSUME NEW n \in Nodes, workers[n] # None, Works(n) PROVE results'[i] # None
  <2>1. CASE WorkerResult(n)
    <3>1. workers[n].layer \in Layers
      BY <1>3 DEF TypeOK, Worker
    <3>2. [passed |-> TRUE, of |-> published[workers[n].layer]] \in Result
      BY <1>1, <3>1 DEF Result
    <3>3. [passed |-> TRUE, of |-> published[workers[n].layer]] # None
      BY <3>2, NoneIsNoRecord
    <3> DEFINE r == [passed |-> TRUE, of |-> published[workers[n].layer]]
    <3>4. results' = [results EXCEPT ![LeaseIn(workers[n])] = r]
      BY <2>1 DEF WorkerResult, LeaseIn
    <3> HIDE DEF r
    <3>5. r # None
      BY <3>3 DEF r
    <3> QED  BY <1>1, <3>4, <3>5
  <2>2. CASE ~WorkerResult(n)
    <3>1. results' = results \/ results' = [results EXCEPT ![LeaseIn(workers[n])] = Failed]
      BY <1>3, <2>2 DEF Works, WorkerStep, WorkerFail, LookFails, WorkerBegin, WorkerStart, WorkerSession,
         WorkerLaunch, WorkerWait, WorkerVerify, WorkerPublish, WorkerClean, WorkerTrap, WriteFailed, LeaseIn, files
    <3> QED  BY <1>1, <1>2, <3>1
  <2> QED  BY <2>1, <2>2
<1>4. ASSUME NEW t \in traps, OrphanTrap(t) PROVE results'[i] # None
  BY <1>1, <1>2, <1>4, TrapMoves
<1>5. CASE Control \/ UNCHANGED vars
  BY <1>5, ControlLeaves DEF vars
<1> QED
  BY <1>3, <1>4, <1>5, NextIs, RebootTypes, JobTypes, ExpireTypes, OutsideTypes DEF Others, Beside

\* No session is started on a lease that has an exit code.
LEMMA CalmSessions ==
  ASSUME CalmStep, NEW k \in jobs', k.session PROVE exits'[LeaseIn(k)] = "none"
<1>1. LeaseIn(k) \in Leases
  BY CalmFacts DEF TypeOK, Job, LeaseIn, Leases
<1>2. exits'[LeaseIn(k)] = exits[LeaseIn(k)]
  BY <1>1 DEF CalmStep, SessionMoves, ExitMoves
<1>3. CASE Comes(k)
  BY <1>2, <1>3, CalmFacts DEF Comes, CalmEncodes
<1>4. CASE Starts(k)
  <2>1. PICK n \in Nodes : workers[n] # None /\ WorkerLaunch(n) /\ LeaseIn(k) = LeaseIn(workers[n])
    BY <1>4 DEF Starts
  <2>2. workers[n].at \in Beginning
    BY <2>1 DEF WorkerLaunch, Beginning
  <2> QED  BY <1>2, <2>1, <2>2, CalmFacts DEF CalmEncodes, Unused
<1> QED
  BY <1>3, <1>4 DEF CalmStep, SessionMoves

\* A worker before its encoder, and after its result.
LEMMA CalmBegins ==
  ASSUME CalmStep, NEW n \in Nodes, workers'[n] # None
  PROVE  /\ workers'[n].at \in Beginning => UnusedNext(LeaseIn(workers'[n]))
         /\ workers'[n].at = "clean" => results'[LeaseIn(workers'[n])] # None
<1> DEFINE w == workers[n]
<1>1. WorkerChanges(n)
  BY CalmFacts, ChangeStep DEF CalmStep
<1>2. w # None => w \in Worker /\ LeaseIn(w) \in Leases
  BY CalmFacts DEF TypeOK, Worker, LeaseIn, Leases
<1>3. ASSUME w # None, w.at \in Beginning, ~WorkerLaunch(n) PROVE UnusedNext(LeaseIn(w))
  <2>1. Unused(LeaseIn(w))
    BY <1>3, CalmFacts DEF CalmEncodes
  <2>2. ASSUME NEW m \in Nodes, workers[m] # None, WorkerLaunch(m) PROVE LeaseIn(workers[m]) # LeaseIn(w)
    BY <1>3, <2>2, CalmFacts DEF Alone
  <2> QED  BY <1>2, <1>3, <2>1, <2>2, UnusedStays
<1>4. CASE workers'[n] = w
  <2>1. ~WorkerLaunch(n)
    <3> SUFFICES ASSUME WorkerLaunch(n) PROVE FALSE
      OBVIOUS
    <3>1. w.at = "launch" /\ w # None /\ (Step(n, "wait") \/ Step(n, "trap"))
      BY <1>4 DEF WorkerLaunch
    <3> QED  BY <1>4, <3>1, CalmFacts, StepMoves
  <2>2. w.at \in Beginning => UnusedNext(LeaseIn(w))
    BY <1>3, <1>4, <2>1
  <2>3. w.at = "clean" => results'[LeaseIn(w)] # None
    BY <1>2, <1>4, CalmFacts, ResultStays DEF CalmStep, CalmEncodes
  <2> QED  BY <1>4, <2>2, <2>3
<1>5. CASE w # None /\ WorkerStep(n)
  <2>1. Came(n) /\ LeaseIn(workers'[n]) = LeaseIn(w)
    BY <1>5, CalmFacts, WorkerCame, WorkerMoves DEF Moved, Works, LeaseIn
  <2>2. ASSUME workers'[n].at \in Beginning PROVE UnusedNext(LeaseIn(w))
    <3>1. w.at \in {"begin", "start", "session"}
      BY <2>1, <2>2 DEF Came, Beginning
    <3> QED  BY <1>3, <1>5, <3>1 DEF Beginning, WorkerLaunch
  <2>3. ASSUME workers'[n].at = "clean" PROVE results'[LeaseIn(w)] # None
    <3>1. w.at = "result"
      BY <2>1, <2>3 DEF Came
    <3>2. WorkerResult(n)
      BY <1>5, <3>1 DEF WorkerStep, WorkerBegin, WorkerStart, WorkerSession, WorkerLaunch, WorkerWait, WorkerVerify,
         WorkerPublish, WorkerClean, WorkerTrap
    <3>3. [passed |-> TRUE, of |-> published[w.layer]] \in Result
      BY <1>2, <1>5, CalmFacts DEF TypeOK, Worker, Result
    <3>4. results'[LeaseIn(w)] = [passed |-> TRUE, of |-> published[w.layer]]
      BY <1>2, <1>5, <3>2, CalmFacts DEF WorkerResult, LeaseIn, TypeOK
    <3> QED  BY <3>3, <3>4, NoneIsNoRecord
  <2> QED  BY <2>1, <2>2, <2>3
<1>6. CASE Launched(n) /\ Control
  <2>1. PICK l \in Leased : /\ queue[l].node = n /\ results[LeaseOf(l)] = None
                            /\ workers'[n] = [layer |-> l, attempt |-> queue[l].attempt, at |-> "begin"]
    BY <1>6 DEF Launched
  <2>2. LeaseOf(l) \in Leases /\ LeaseIn(workers'[n]) = LeaseOf(l) /\ workers'[n].at = "begin"
    BY <2>1, CalmFacts DEF Leasing, Leased, LeaseOf, LeaseIn, Leases
  <2>3. Unused(LeaseOf(l))
    BY <1>6, <2>1, CalmFacts DEF Launched, CalmEncodes, Attended
  <2>4. ASSUME NEW m \in Nodes, workers[m] # None, WorkerLaunch(m) PROVE FALSE
    <3>1. m # n
      BY <1>6, <2>4 DEF Launched
    <3>2. workers'[n] = workers[n]
      BY <2>4, <3>1, CalmFacts, StepMoves DEF WorkerLaunch
    <3> QED  BY <1>6, <3>2 DEF Launched
  <2> QED  BY <2>2, <2>3, <2>4, UnusedStays
<1> QED
  BY <1>1, <1>4, <1>5, <1>6, CalmFacts DEF WorkerChanges

\* Between a lease and its launch nothing else happens to the manager.
LEMMA LaunchNext ==
  ASSUME TypeOK, [Next]_vars, at = "grantLaunch", at' \in ManagerLoop
  PROVE  UNCHANGED <<queue, Place>> \/ GrantLaunch
<1>1. CASE Others
  BY <1>1, OthersFrame
<1>2. CASE Control
  <2>1. CASE Manager
    BY <2>1 DEF Manager, Top, ScanResult, ScanTimeout, ScanActive, ScanLaunch, ScanDone, Audit, Grant,
       GrantDone, BlockKill, BlockStop, BlockRequeue, WriteBlocked
  <2>2. CASE ~Manager
    BY <1>2, <2>2 DEF Control, ControlStep, RunGuard, RunRestart, KillAll, StopAll, StopServices, Repair, Check,
       ManagerCrash, Resume, Restart, HostCrash, Finished, Goto, ManagerLoop
  <2> QED  BY <2>1, <2>2
<1>3. CASE UNCHANGED vars
  BY <1>3 DEF vars, Place
<1> QED
  BY <1>1, <1>2, <1>3, NextIs

\* A worker of the loop that is gone has left a result, or its lease is completed.
LEMMA CalmGone ==
  ASSUME CalmStep, at \in ManagerLoop, at' \in ManagerLoop, NEW l \in Leased, Keeps(l),
         workers[queue[l].node] # None, workers'[queue[l].node] = None
  PROVE  results'[LeaseOf(l)] # None
<1> DEFINE n == queue[l].node
<1> DEFINE w == workers[n]
<1>1. n \in Nodes /\ LeaseOf(l) \in Leases
  BY CalmFacts DEF Leasing, Leased, LeaseOf, Leases
<1>2. w.layer \in Leased /\ queue[w.layer].node = n /\ w.attempt = queue[w.layer].attempt
  BY <1>1, CalmFacts DEF Own
<1>3. w.layer = l
  BY <1>2, CalmFacts DEF OneLease
<1>4. LeaseIn(w) = LeaseOf(l)
  BY <1>2, <1>3 DEF LeaseIn, LeaseOf
<1>5. w \in Worker /\ WorkerChanges(n)
  BY <1>1, CalmFacts, ChangeStep DEF CalmStep, TypeOK
<1>6. CASE WorkerStep(n)
  <2>1. ASSUME NEW label \in WorkerSteps \cup TrapSteps \cup {"clean"}, Step(n, label) PROVE FALSE
    <3>1. workers'[n] = [w EXCEPT !.at = label]
      BY <1>1, <2>1, CalmFacts DEF Step, TypeOK
    <3>2. [w EXCEPT !.at = label] \in Worker
      BY <1>5 DEF Worker
    <3> QED  BY <3>1, <3>2, NoneIsNoRecord
  <2>2. WorkerClean(n) \/ WorkerTrap(n)
    BY <1>6, <2>1 DEF WorkerStep, WorkerBegin, WorkerStart, WorkerSession, WorkerLaunch, WorkerWait, WorkerVerify,
       WorkerPublish, WorkerResult, WorkerSteps, TrapSteps
  <2>3. CASE WorkerClean(n)
    BY <1>1, <1>4, <2>3, CalmFacts, ResultStays DEF CalmStep, CalmEncodes, WorkerClean
  <2>4. CASE WorkerTrap(n) /\ w.at = "trap"
    <3>1. results[LeaseIn(w)] # None
      <4> SUFFICES ASSUME results[LeaseIn(w)] = None PROVE FALSE
        OBVIOUS
      <4>1. workers' = [workers EXCEPT ![n] = [w EXCEPT !.at = "trapWrite"]]
        BY <2>4 DEF WorkerTrap, TrapNext, LeaseIn
      <4>2. Step(n, "trapWrite")
        BY <4>1 DEF Step
      <4> QED  BY <2>1, <4>2 DEF TrapSteps
    <3> QED  BY <1>1, <1>4, <3>1, ResultStays, CalmFacts DEF CalmStep
  <2>5. CASE WorkerTrap(n) /\ w.at = "trapWrite"
    <3>1. results' = [results EXCEPT ![LeaseOf(l)] = Failed]
      BY <1>4, <2>5 DEF WorkerTrap, WriteFailed, LeaseIn
    <3>2. Failed \in Result
      BY DEF Failed, Result, Published
    <3>3. results'[LeaseOf(l)] = Failed
      BY <1>1, <3>1, CalmFacts DEF TypeOK
    <3> QED  BY <3>2, <3>3, NoneIsNoRecord
  <2> QED  BY <2>2, <2>3, <2>4, <2>5 DEF WorkerTrap
<1>7. CASE workers'[n] = None /\ Control
  <2>1. PICK m \in Leased : queue[m].node = n /\ Finish(m)
    BY <1>1, <1>7, CalmFacts, LoopKills
  <2>2. m = l
    BY <2>1, CalmFacts DEF OneLease
  <2>3. queue'[l].state = "completed"
    BY <2>1, <2>2, CalmFacts DEF Finish, TypeOK, Record, Leased
  <2> QED  BY <2>3 DEF Keeps, Leased
<1>8. w # None /\ workers'[n] = None
  OBVIOUS
<1>9. ~WorkerFail(n) /\ ~LookFails(n)
  BY <1>1, <1>8, CalmFacts
<1>10. ~Launched(n) /\ workers'[n] # workers[n]
  BY <1>8 DEF Launched
<1> QED
  BY <1>5, <1>6, <1>7, <1>8, <1>9, <1>10 DEF WorkerChanges

\* A lease has a result, a worker, or is about to be launched for the first time.
LEMMA CalmAttends ==
  ASSUME CalmStep, at' \in ManagerLoop, NEW l \in Leased' PROVE Attended(l)'
<1>1. at \in ManagerLoop
  BY FromLoop
<1> DEFINE n == queue[l].node
<1>2. CASE l \in Leased /\ Keeps(l)
  <2>1. n \in Nodes /\ LeaseOf(l) \in Leases /\ LeaseOf(l)' = LeaseOf(l) /\ queue'[l].node = n
    BY <1>2, CalmFacts DEF Leasing, Leased, LeaseOf, Leases, Keeps
  <2>2. CASE results[LeaseOf(l)] # None
    BY <2>1, <2>2, ResultStays, CalmFacts DEF CalmStep, Attended
  <2>3. CASE workers[n] # None
    <3>1. workers'[n] # None \/ results'[LeaseOf(l)] # None
      BY <1>1, <1>2, <2>3, CalmGone
    <3> QED  BY <2>1, <3>1 DEF Attended
  <2>4. CASE results[LeaseOf(l)] = None /\ workers[n] = None
    <3>1. at = "grantLaunch" /\ lease = l /\ Unused(LeaseOf(l))
      BY <1>1, <1>2, <2>4, CalmFacts DEF CalmEncodes, Attended
    <3>2. CASE UNCHANGED <<queue, Place>>
      <4>1. ASSUME NEW m \in Nodes, workers[m] # None, WorkerLaunch(m) PROVE LeaseIn(workers[m]) # LeaseOf(l)
        <5>1. queue[workers[m].layer].node = m /\ m # n
          BY <1>1, <2>4, <4>1, CalmFacts DEF Own
        <5> QED  BY <5>1 DEF LeaseIn, LeaseOf
      <4>2. UnusedNext(LeaseOf(l))
        BY <2>1, <3>1, <4>1, UnusedStays
      <4>3. Unused(LeaseOf(l))'
        BY <2>1, <4>2 DEF Unused, UnusedNext
      <4> QED  BY <3>1, <3>2, <4>3 DEF Attended, Place
    <3>3. CASE GrantLaunch
      <4>1. workers'[n] = [layer |-> l, attempt |-> queue[l].attempt, at |-> "begin"]
        BY <2>1, <2>4, <3>1, <3>3, CalmFacts DEF GrantLaunch, Launch, TypeOK
      <4>2. [layer |-> l, attempt |-> queue[l].attempt, at |-> "begin"] \in Worker
        BY <1>2, CalmFacts DEF Leasing, Leased, Worker, WorkerSteps
      <4>3. workers'[n] # None
        BY <4>1, <4>2, NoneIsNoRecord
      <4> QED  BY <2>1, <4>3 DEF Attended
    <3> QED  BY <3>1, <3>2, <3>3, LaunchNext, CalmFacts DEF CalmStep
  <2> QED  BY <2>2, <2>3, <2>4
<1>3. CASE ~(l \in Leased /\ Keeps(l))
  <2>1. l \in Layers /\ queue'[l].state = "leased"
    BY DEF Leased
  <2>2. PICK k \in Layers, m \in Nodes : Granted(k, m) /\ ToLaunch(k)
    <3>1. ~(Keeps(l) \/ Completes(l) \/ Returns(l))
      BY <1>3, <2>1 DEF Keeps, Completes, Returns, Leased
    <3> QED  BY <2>1, <3>1, CalmFacts DEF QueueMoves
  <2>3. k = l
    BY <1>3, <2>1, <2>2 DEF Granted, Keeps, Leased
  <2>4. /\ queue'[l].attempt = queue[l].attempt + 1 /\ queue'[l].attempt \in Attempts
        /\ at' = "grantLaunch" /\ lease' = l /\ UNCHANGED <<exits, jobs>>
    BY <2>2, <2>3 DEF Granted, ToLaunch
  <2>5. queue[l].attempt \in Nat
    BY <2>1, CalmFacts DEF TypeOK, Record, Published
  <2> DEFINE i == <<l, queue'[l].attempt>>
  <2>6. i \in Leases /\ i[1] = l /\ i[2] = queue[l].attempt + 1
    BY <2>1, <2>4 DEF Leases
  <2>7. ~(i[2] <= queue[i[1]].attempt)
    BY <2>5, <2>6
  <2>8. exits'[i] = "none"
    BY <2>4, <2>6, <2>7, CalmFacts DEF WasLeased
  <2>9. ASSUME NEW j \in jobs', j.session PROVE LeaseIn(j) # i
    <3>1. j \in jobs /\ j.attempt <= queue[j.layer].attempt
      BY <2>4, <2>9, CalmFacts DEF WasLeased, Held
    <3> QED  BY <2>6, <2>7, <3>1 DEF LeaseIn
  <2>10. Unused(LeaseOf(l))'
    BY <2>8, <2>9 DEF Unused, LeaseOf
  <2> QED  BY <2>4, <2>10 DEF Attended
<1> QED
  BY <1>2, <1>3

LEMMA CalmlyStep ==
  ASSUME IndInv, IndInv', LeaseInv, SessionMoves, [Next]_vars PROVE Calm'
<1> SUFFICES ASSUME faults' = 0 PROVE Legits' /\ CalmLoop' /\ CalmDown' /\ CalmEncodes' /\ obstacles' = {}
  BY DEF Calm
<1>1. faults = 0
  <2>1. TypeOK /\ faults \in Nat
    BY DEF IndInv, TypeOK
  <2> QED  BY <2>1, FlowStep
<1>2. CalmStep
  BY <1>1 DEF CalmStep
<1>3. Legits'
  BY <1>1, CalmLegits
<1>4. CalmLoop'
  BY <1>2, CalmResults, CalmTraps, CalmExpired DEF CalmLoop
<1>5. CalmDown'
  BY <1>2, CalmKill, CalmRest DEF CalmDown
<1>6. CalmEncodes'
  BY <1>2, CalmSessions, CalmBegins, CalmAttends DEF CalmEncodes, Unused, UnusedNext
<1>7. obstacles' = {}
  BY <1>2, CalmFacts DEF Flow
<1> QED
  BY <1>3, <1>4, <1>5, <1>6, <1>7

LEMMA LeaseInit == Init => LeaseInv
<1> SUFFICES ASSUME Init PROVE LeaseInv
  OBVIOUS
<1>1. Leased = {}
  BY DEF Init, Leased
<1>2. WasLeased /\ LastLease /\ OneSession /\ Legits /\ AllTheirs
  BY DEF Init, WasLeased, LastLease, OneSession, Legits, AllTheirs
<1>3. Exited
  BY DEF Init, Exited, Passing
<1>4. Sweeps /\ Requeues /\ CalmLoop /\ CalmDown /\ CalmEncodes /\ obstacles = {}
  BY <1>1 DEF Init, Sweeps, Swept, Requeues, CalmLoop, CalmDown, CalmEncodes, ManagerLoop
<1> QED
  BY <1>2, <1>3, <1>4 DEF LeaseInv, Calm, OneFault

LEMMA LeaseStep == IndInv /\ LeaseInv /\ [Next]_vars => IndInv' /\ LeaseInv'
<1> SUFFICES ASSUME IndInv, LeaseInv, [Next]_vars PROVE IndInv' /\ LeaseInv'
  OBVIOUS
<1>1. IndInv'
  BY IndStep
<1>2. TypeOK /\ LoopOK /\ Leasing /\ Own /\ Idle /\ Fresh /\ Writes /\ TypeOK'
  BY <1>1 DEF IndInv
<1>3. QueueMoves
  BY <1>2, QueueStep
<1>4. OneSession' /\ SessionMoves
  BY <1>2, SessionStep DEF LeaseInv
<1>5. WasLeased' /\ LastLease' /\ Exited' /\ Sweeps' /\ Requeues'
  BY <1>2, <1>3, <1>4, WasLeasedStep, LastLeaseStep, ExitedStep, SweepsStep, RequeuesStep DEF LeaseInv
<1>6. Calm' /\ OneFault'
  BY <1>1, <1>3, <1>4, CalmlyStep, OneFaultStep
<1> QED
  BY <1>1, <1>4, <1>5, <1>6 DEF LeaseInv

\* As long as there was one fault at most, every worker and every encode the manager
\* finds has the last lease of its layer, on its node, and that lease was not taken back
\* (bulk_lease_manager.py's block, run_bulk_manager_guarded.sh,
\* restart_bulk_after_block.sh, resume_bulk.sh); an encode that has outlived its
\* completed lease is a second one (bulk_lease_worker.sh:108-112).
THEOREM Encodes_Have_Leases == Spec => []EncodesHaveLeases
<1>1. Spec => [](IndInv /\ LeaseInv)
  BY IndInit, LeaseInit, LeaseStep, PTL DEF Spec
<1>2. IndInv /\ LeaseInv => EncodesHaveLeases
  <2> SUFFICES ASSUME IndInv, LeaseInv, faults <= 1, at \in ManagerLoop
               PROVE  /\ \A j \in jobs : j.session =>
                            /\ queue[j.layer].node = j.node /\ queue[j.layer].attempt = j.attempt
                            /\ j.layer \in Leased \/ (j.layer \in Completed /\ exits[LeaseIn(j)] # "none")
                      /\ \A n \in Nodes : workers[n] # None => Legit(workers[n], n)
    BY DEF EncodesHaveLeases, Legit, LeaseIn
  <2>1. ASSUME NEW j \in jobs, j.session
        PROVE  /\ queue[j.layer].node = j.node /\ queue[j.layer].attempt = j.attempt
               /\ j.layer \in Leased \/ (j.layer \in Completed /\ exits[LeaseIn(j)] # "none")
    <3>1. Theirs(j, j.node)
      BY <2>1 DEF LeaseInv, OneFault, AllTheirs
    <3>2. j \in Job /\ j.layer \in Layers /\ queue[j.layer] \in Record /\ LeaseIn(j) \in Leases
      BY DEF IndInv, TypeOK, Job, LeaseIn, Leases
    <3>3. j.layer \in Leased \cup Completed
      BY <3>1, <3>2 DEF Theirs, Leased, Completed, Record
    <3>4. ASSUME j.layer \in Completed PROVE exits[LeaseIn(j)] # "none"
      <4>1. Passing(results[LeaseOf(j.layer)]) /\ LeaseOf(j.layer) = LeaseIn(j)
        BY <3>1, <3>4 DEF IndInv, Done, ValidResult, Theirs, LeaseOf, LeaseIn
      <4> QED  BY <3>2, <4>1 DEF LeaseInv, Exited
    <3> QED  BY <3>1, <3>3, <3>4 DEF Theirs
  <2>2. \A n \in Nodes : workers[n] # None => Legit(workers[n], n)
    BY DEF IndInv, Own, Legit
  <2> QED  BY <2>1, <2>2
<1> QED
  BY <1>1, <1>2, PTL
=============================================================================

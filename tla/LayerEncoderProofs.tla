-------------------------- MODULE LayerEncoderProofs --------------------------
(* Proofs about LayerEncoder, for every finite set of experts, every set of*)
(* builds and every number of starts; and, in the second part, about the   *)
(* K2.75 bulk that runs such encoders (K275Bulk), for any layers, nodes,   *)
(* leases and faults.                                                      *)
EXTENDS LayerEncoder, K275Bulk, FiniteSetTheorems, TLAPS

-----------------------------------------------------------------------------
(* The inductive invariant.                                                *)

(* The experts a run is through with are on the disk as it collected them. *)
Collected ==
    at # "off" => \A e \in Experts \ todo :
        shard[e] = got[e] /\ receipt[e] = got[e] /\ got[e] \in Builds

(* As long as no file was replaced under a run, the identity in a receipt  *)
(* is that of the bytes, and the running encoder is the one on the disk.   *)
Honest == ~replaced => receipt = claims
Current ==
    ~replaced /\ at # "off" => build = installed /\ \A e \in Experts \ todo : got[e] = build
OneLedger ==
    ~replaced /\ ledger # NoFile => \E b \in Builds : \A e \in Experts : ledger[e] = b

(* While a run is on an expert, it knows which one.                        *)
Busy == at \in {"encode", "receipt"} => \E e \in Experts : IsNext(e)
Written == at = "receipt" => \A e \in Experts : IsNext(e) => shard[e] = build

(* What was written is still there, but for the shards of killed runs.     *)
Done == {e \in Experts : Valid(e)}
CostOK ==
    /\ at \in {"off", "load"} => written <= Cardinality(Done) + killed
    /\ at = "encode"  => \A e \in Experts :
          IsNext(e) => written <= Cardinality(Done \ {e}) + killed
    /\ at = "receipt" => \A e \in Experts :
          IsNext(e) => written <= Cardinality(Done \ {e}) + killed + 1

IInv == TypeOK /\ Collected /\ Honest /\ Current /\ OneLedger /\ Busy /\ Written
               /\ ReceiptHasShard /\ CostOK

-----------------------------------------------------------------------------
LEMMA OneNext ==
  ASSUME TypeOK, NEW e \in Experts, NEW f \in Experts, IsNext(e), IsNext(f)
  PROVE  e = f
  BY ExpertsAreNumbers DEF IsNext

LEMMA DoneFinite ==
  ASSUME NEW S \in SUBSET Experts
  PROVE  IsFiniteSet(S) /\ Cardinality(S) \in Nat /\ Cardinality(S) <= Cardinality(Experts)
  BY ExpertsAreNumbers, FS_Subset, FS_CardinalityType

(* What growing Done, and taking one expert out of it, does to its size.   *)
LEMMA Grows ==
  ASSUME NEW S \in SUBSET Experts, NEW T \in SUBSET Experts, S \subseteq T
  PROVE  Cardinality(S) <= Cardinality(T)
  BY DoneFinite, FS_Subset

LEMMA GrowsByOne ==
  ASSUME NEW S \in SUBSET Experts, NEW e \in Experts
  PROVE  Cardinality((S \ {e}) \cup {e}) = Cardinality(S \ {e}) + 1
<1>1. IsFiniteSet(S \ {e}) /\ e \notin S \ {e}
  BY DoneFinite
<1> QED
  BY <1>1, FS_AddElement

LEMMA InitInv == Init => IInv
<1> SUFFICES ASSUME Init PROVE IInv
  OBVIOUS
<1>1. TypeOK
  <2>1. Empty \in [Experts -> File] /\ 0 \in 0..MaxStarts /\ 0 \in 0..MaxSyncs
    BY MaxStartsType DEF Empty, File
  <2>2. replaced \in BOOLEAN /\ (at # "off" => build \in Builds)
    BY DEF Init
  <2> QED
    BY <2>1, <2>2 DEF Init, TypeOK, File
<1>2. Collected /\ Honest /\ Current /\ OneLedger /\ Busy /\ Written /\ ReceiptHasShard
  BY DEF Init, Empty, Collected, Honest, Current, OneLedger, Busy, Written, ReceiptHasShard
<1>3. CostOK
  BY DoneFinite DEF Init, CostOK, Done
<1> QED
  BY <1>1, <1>2, <1>3 DEF IInv

LEMMA StartInv == ASSUME IInv, Start PROVE IInv'
<1> USE DEF IInv, Start, disk, project, cost
<1>1. TypeOK'
  <2>1. got' \in [Experts -> File]
    BY DEF Empty, File
  <2> QED
    BY <2>1, MaxStartsType DEF TypeOK, File
<1>2. Collected' /\ Honest' /\ Current' /\ OneLedger' /\ Busy' /\ Written' /\ ReceiptHasShard'
  BY DEF Collected, Honest, Current, OneLedger, Busy, Written, ReceiptHasShard, TypeOK
<1>3. CostOK'
  BY DEF CostOK, Done, Valid
<1> QED
  BY <1>1, <1>2, <1>3

LEMMA LoadInv == ASSUME IInv, NEW e \in Experts, Load(e) PROVE IInv'
<1> USE DEF IInv
<1>0. at = "load" /\ IsNext(e) /\ e \in todo
      /\ UNCHANGED <<shard, receipt, claims, ledger, build, starts, installed, syncs, replaced, written, killed>>
  BY DEF Load, IsNext, disk, project, cost
<1>1. TypeOK'
  BY <1>0 DEF Load, TypeOK, File
<1>2. CASE Valid(e)
  <2>0. at' = "load" /\ got' = [got EXCEPT ![e] = receipt[e]] /\ todo' = todo \ {e}
    BY <1>2, <1>0 DEF Load
  <2>1. receipt[e] = shard[e] /\ claims[e] = installed /\ receipt[e] \in Builds
    BY <1>2, NoFileIsNoBuild DEF Valid, TypeOK, File
  <2>2. Collected'
    BY <1>0, <2>0, <2>1 DEF Collected, TypeOK
  <2>3. Honest' /\ OneLedger'
    BY <1>0 DEF Honest, OneLedger
  <2>4. Current'
    BY <1>0, <2>0, <2>1 DEF Current, Honest, TypeOK
  <2> QED
    BY <1>0, <1>1, <2>0, <2>2, <2>3, <2>4 DEF Busy, Written, ReceiptHasShard, CostOK, Done, Valid
<1>3. CASE ~Valid(e)
  <2>0. at' = "encode" /\ todo' = todo /\ got' = got
    BY <1>3, <1>0 DEF Load
  <2>1. \A f \in Experts : (IsNext(f)' <=> IsNext(f)) /\ (IsNext(f) => f = e)
    BY <2>0, <1>0, OneNext DEF IsNext
  <2>2. Collected' /\ Honest' /\ Current' /\ OneLedger' /\ ReceiptHasShard' /\ Busy' /\ Written'
    BY <1>0, <2>0, <2>1 DEF Collected, Honest, Current, OneLedger, ReceiptHasShard, Busy, Written
  <2>3. Done' = Done /\ Done \ {e} = Done
    BY <1>0, <1>3 DEF Done, Valid
  <2>4. written <= Cardinality(Done \ {e}) + killed
    BY <2>3, <1>0 DEF CostOK
  <2>5. CostOK'
    BY <2>0, <2>1, <2>3, <2>4, <1>0 DEF CostOK
  <2> QED
    BY <1>1, <2>2, <2>5
<1> QED
  BY <1>2, <1>3

LEMMA WriteShardInv == ASSUME IInv, NEW e \in Experts, WriteShard(e) PROVE IInv'
<1> USE DEF IInv
<1>0. /\ at = "encode" /\ at' = "receipt" /\ IsNext(e) /\ e \in todo
      /\ shard' = [shard EXCEPT ![e] = build] /\ build \in Builds
      /\ written' = written + 1
      /\ UNCHANGED <<receipt, claims, ledger, build, todo, got, starts, installed, syncs, replaced, killed>>
  BY DEF WriteShard, IsNext, TypeOK, project
<1>1. TypeOK'
  BY <1>0 DEF TypeOK, File
<1>2. Collected'
  BY <1>0 DEF Collected, TypeOK
<1>3. \A f \in Experts : (IsNext(f)' <=> IsNext(f)) /\ (IsNext(f) => f = e)
  BY <1>0, OneNext DEF IsNext
<1>4. Honest' /\ Current' /\ OneLedger' /\ Busy' /\ Written'
  BY <1>0, <1>3 DEF Honest, Current, OneLedger, Busy, Written, TypeOK
<1>5. ReceiptHasShard'
  BY <1>0, NoFileIsNoBuild DEF ReceiptHasShard, TypeOK
<1>6. CostOK'
  <2>1. Done \ {e} = Done' \ {e}
    BY <1>0 DEF Done, Valid, TypeOK
  <2>2. written <= Cardinality(Done \ {e}) + killed
    BY <1>0 DEF CostOK
  <2>3. Cardinality(Done \ {e}) \in Nat
    BY DoneFinite DEF Done
  <2> DEFINE D == Done \ {e}
  <2>4. written' <= Cardinality(D) + killed' + 1
    <3> HIDE DEF D
    <3> QED
      BY <2>2, <2>3, <1>0 DEF TypeOK, D
  <2>5. Cardinality(Done' \ {e}) = Cardinality(D)
    BY <2>1
  <2> HIDE DEF D
  <2> QED
    BY <1>3, <2>4, <2>5, <1>0 DEF CostOK
<1> QED
  BY <1>1, <1>2, <1>4, <1>5, <1>6

LEMMA WriteReceiptInv == ASSUME IInv, NEW e \in Experts, WriteReceipt(e) PROVE IInv'
<1> USE DEF IInv
<1>0. /\ at = "receipt" /\ at' = "load" /\ IsNext(e) /\ e \in todo
      /\ shard[e] = build /\ build \in Builds
      /\ receipt' = [receipt EXCEPT ![e] = build] /\ claims' = [claims EXCEPT ![e] = installed]
      /\ got' = [got EXCEPT ![e] = build] /\ todo' = todo \ {e}
      /\ UNCHANGED <<shard, ledger, build, starts, installed, syncs, replaced, written, killed>>
  BY DEF WriteReceipt, IsNext, Written, TypeOK, project, cost
<1>1. TypeOK'
  BY <1>0 DEF TypeOK, File
<1>2. Collected'
  BY <1>0 DEF Collected, TypeOK
<1>3. Current' /\ OneLedger' /\ Busy' /\ Written'
  BY <1>0 DEF Current, OneLedger, Busy, Written, TypeOK
<1>4. Honest'
  BY <1>0 DEF Honest, Current
<1>5. ReceiptHasShard'
  BY <1>0, NoFileIsNoBuild DEF ReceiptHasShard, TypeOK
<1>6. CostOK'
  <2>1. Done' = (Done \ {e}) \cup {e}
    BY <1>0, NoFileIsNoBuild DEF Done, Valid, TypeOK
  <2>2. Cardinality(Done') = Cardinality(Done \ {e}) + 1
    BY <2>1, GrowsByOne DEF Done
  <2>3. written <= Cardinality(Done \ {e}) + killed + 1
    BY <1>0 DEF CostOK
  <2>4. Cardinality(Done \ {e}) \in Nat
    BY DoneFinite DEF Done
  <2>5. written' <= Cardinality(Done') + killed'
    BY <2>2, <2>3, <2>4, <1>0 DEF TypeOK
  <2> QED
    BY <2>5, <1>0 DEF CostOK
<1> QED
  BY <1>1, <1>2, <1>3, <1>4, <1>5, <1>6

LEMMA SealInv == ASSUME IInv, Seal PROVE IInv'
<1> USE DEF IInv
<1>0. /\ at = "load" /\ at' = "off" /\ ledger' = got /\ todo = {}
      /\ UNCHANGED <<shard, receipt, claims, build, todo, got, starts, installed, syncs, replaced, written, killed>>
  BY DEF Seal, project, cost
<1>1. \A e \in Experts : got[e] \in Builds /\ (~replaced => got[e] = build)
  BY <1>0 DEF Collected, Current
<1>2. TypeOK'
  <2>1. got \in [Experts -> Builds]
    BY <1>0, <1>1 DEF TypeOK
  <2> QED
    BY <1>0, <2>1 DEF TypeOK
<1>3. Collected' /\ Honest' /\ Current' /\ Busy' /\ Written' /\ ReceiptHasShard'
  BY <1>0 DEF Collected, Honest, Current, Busy, Written, ReceiptHasShard
<1>4. OneLedger'
  BY <1>0, <1>1 DEF OneLedger, TypeOK
<1>5. CostOK'
  BY <1>0 DEF CostOK, Done, Valid
<1> QED
  BY <1>2, <1>3, <1>4, <1>5

LEMMA KillInv == ASSUME IInv, Kill PROVE IInv'
<1> USE DEF IInv
<1>0. /\ at # "off" /\ at' = "off" /\ killed' = killed + 1
      /\ UNCHANGED <<shard, receipt, claims, ledger, build, todo, got, starts, installed, syncs, replaced, written>>
  BY DEF Kill, disk, project
<1>1. TypeOK'
  BY <1>0 DEF TypeOK
<1>2. Collected' /\ Honest' /\ Current' /\ OneLedger' /\ Busy' /\ Written' /\ ReceiptHasShard'
  BY <1>0 DEF Collected, Honest, Current, OneLedger, Busy, Written, ReceiptHasShard
<1>3. CostOK'
  <2>1. Done' = Done /\ Cardinality(Done) \in Nat
    BY <1>0, DoneFinite DEF Done, Valid
  <2>2. CASE at = "load"
    BY <2>1, <2>2, <1>0 DEF CostOK, TypeOK
  <2>3. CASE at # "load"
    <3>1. PICK e \in Experts : IsNext(e)
      BY <2>3, <1>0 DEF Busy, TypeOK
    <3>2. Cardinality(Done \ {e}) <= Cardinality(Done) /\ Cardinality(Done \ {e}) \in Nat
      BY Grows, DoneFinite DEF Done
    <3>3. written <= Cardinality(Done \ {e}) + killed + 1
      BY <2>3, <3>1, <3>2, <1>0 DEF CostOK, TypeOK
    <3> QED
      BY <2>1, <3>2, <3>3, <1>0 DEF CostOK, TypeOK
  <2> QED
    BY <2>2, <2>3
<1> QED
  BY <1>1, <1>2, <1>3

(* A new file: what was written under the old one no longer counts.        *)
LEMMA SyncInv == ASSUME IInv, NEW b \in Builds, Sync(b) PROVE IInv'
<1> USE DEF IInv
<1>0. /\ written' = 0 /\ killed' \in {0, 1} /\ installed' = b /\ (~replaced' => ~replaced /\ at = "off")
      /\ UNCHANGED <<shard, receipt, claims, ledger, at, build, todo, got, starts>>
  BY DEF Sync, disk, run
<1>1. TypeOK'
  BY <1>0, MaxStartsType DEF TypeOK, Sync
<1>2. Collected' /\ Honest' /\ Current' /\ OneLedger' /\ Busy' /\ Written' /\ ReceiptHasShard'
  BY <1>0 DEF Collected, Honest, Current, OneLedger, Busy, Written, ReceiptHasShard, IsNext
<1>3. CostOK'
  <2>1. Done' \in SUBSET Experts /\ \A e \in Experts : Done' \ {e} \in SUBSET Experts
    BY DEF Done
  <2>2. Cardinality(Done') \in Nat /\ \A e \in Experts : Cardinality(Done' \ {e}) \in Nat
    BY <2>1, DoneFinite
  <2> QED
    BY <1>0, <2>2 DEF CostOK
<1> QED
  BY <1>1, <1>2, <1>3

LEMMA StutterInv == ASSUME IInv, UNCHANGED vars PROVE IInv'
  BY DEF vars, disk, run, project, cost, IInv, TypeOK, Collected, Honest, Current, OneLedger,
         Busy, Written, ReceiptHasShard, CostOK, Done, Valid, IsNext

LEMMA NextInv == IInv /\ [Next]_vars => IInv'
  BY StartInv, LoadInv, WriteShardInv, WriteReceiptInv, SealInv, KillInv, SyncInv, StutterInv
  DEF Next, Encode, Idle

LEMMA Invariant == Spec => []IInv
  BY InitInv, NextInv, PTL DEF Spec

-----------------------------------------------------------------------------
(* The state of the encoder and of its directory always has its type.      *)
THEOREM Types == Spec => []TypeOK
<1>1. IInv => TypeOK
  BY DEF IInv
<1> QED
  BY <1>1, Invariant, PTL

(* What verify_layer.py accepts was encoded by one build of the encoder, as*)
(* long as its file was never replaced under a run.                        *)
THEOREM OneBuildTheorem == Spec => []AcceptedIsOneBuild
<1>1. IInv => AcceptedIsOneBuild
  BY DEF IInv, OneLedger, AcceptedIsOneBuild, VerifyLayer
<1> QED
  BY <1>1, Invariant, PTL

(* No receipt is ever without its shard.                                   *)
THEOREM ReceiptTheorem == Spec => []ReceiptHasShard
<1>1. IInv => ReceiptHasShard
  BY DEF IInv
<1> QED
  BY <1>1, Invariant, PTL

(* A killed run costs at most the one expert it was working on.            *)
THEOREM KillTheorem == Spec => []KillCostsOneExpert
<1>1. ASSUME IInv PROVE KillCostsOneExpert
  <2> USE <1>1 DEF IInv
  <2>0. Cardinality(Experts) \in Nat
    BY DoneFinite
  <2>1. CASE at \in {"off", "load"}
    <3>1. written <= Cardinality(Done) + killed
      BY <2>1 DEF CostOK
    <3>2. Cardinality(Done) \in Nat /\ Cardinality(Done) <= Cardinality(Experts)
      BY DoneFinite DEF Done
    <3> QED
      BY <3>1, <3>2, <2>0 DEF KillCostsOneExpert, TypeOK
  <2>2. CASE at \in {"encode", "receipt"}
    <3>1. PICK e \in Experts : IsNext(e)
      BY <2>2 DEF Busy
    <3> DEFINE D == Done \ {e}
    <3>3. Cardinality(D \cup {e}) = Cardinality(D) + 1
      BY GrowsByOne DEF Done
    <3>4. D \cup {e} \in SUBSET Experts /\ D \in SUBSET Experts
      BY DEF Done
    <3>5. Cardinality(D \cup {e}) <= Cardinality(Experts) /\ Cardinality(D) \in Nat
      BY <3>4, DoneFinite
    <3>2. written <= Cardinality(D) + killed + 1
      BY <2>2, <3>1, <3>5 DEF CostOK, TypeOK
    <3> HIDE DEF D
    <3> QED
      BY <3>2, <3>3, <3>5, <2>0 DEF KillCostsOneExpert, TypeOK
  <2> QED
    BY <2>1, <2>2 DEF TypeOK
<1> QED
  BY <1>1, Invariant, PTL

-----------------------------------------------------------------------------
(* K275Bulk                                                                *)
USE K275Assumption

KLeaseIn(w) == <<w.layer, w.attempt>>
Given(l) == queue[l].node \in Nodes /\ queue[l].attempt \in Attempts
KLeasing == \A l \in Layers : queue[l].state # "pending" => Given(l)

\* What the manager scans, kills or launches was leased.
Scanning ==
  /\ place \in {"scan", "kill", "killBlock"} => \A l \in left : l \in Layers /\ Given(l)
  /\ place \in {"kill", "killBlock", "launch"} => lease \in Layers /\ Given(lease)

\* No worker and no result is of a lease to come, and no two workers have one lease.
WasLeased ==
  /\ \A n \in Nodes : workers[n] # None => workers[n].attempt <= queue[workers[n].layer].attempt
  /\ \A i \in Leases : results[i] # "none" => i[2] <= queue[i[1]].attempt
Alone ==
  \A n, m \in Nodes : workers[n] # None /\ workers[m] # None /\ KLeaseIn(workers[n]) = KLeaseIn(workers[m]) => n = m

\* A worker that is not over has no whole result.
AtWork(n) == workers[n] # None /\ workers[n].at \notin {"trap", "result"}
Open ==
  \A n \in Nodes : AtWork(n) =>
    results[KLeaseIn(workers[n])] = IF workers[n].at = "reused" THEN "half" ELSE "none"

\* A lease that is being launched is new.
Launching ==
  place = "launch" =>
    /\ queue[lease].state = "leased" /\ results[LeaseOf(lease)] = "none"
    /\ \A n \in Nodes : workers[n] # None => KLeaseIn(workers[n]) # LeaseOf(lease)

\* The block stops the workers node by node, before it takes a lease back.
StoppedOK ==
  /\ place \in {"stopContainers", "stopSessions", "stopWorker"} => \A n \in Nodes \ left : workers[n] = None
  /\ place = "requeue" => \A n \in Nodes : workers[n] = None

Work == WasLeased /\ Alone /\ WorkersHoldLeases /\ Open
Place == KLeasing /\ Scanning /\ Launching /\ StoppedOK
KInv == K275TypeOK /\ Work /\ Place

-----------------------------------------------------------------------------
\* The types, without the remote and the published files.
Kept == late \subseteq Layers /\ event \in BOOLEAN /\ faults \in 0 .. MaxFaults
Remote ==
  /\ exits \in [Leases -> {"none", "ok", "fail"}]
  /\ encoded \in [Nodes -> [Layers -> {"none", "partial", "complete"}]] /\ jobs \subseteq Job
  /\ published \in [Layers -> {"none", "good", "rotten"}] /\ nested \subseteq Layers
Queue == queue \in [Layers -> Record]
OneLease ==
  \A l, m \in Layers :
    queue[l].state = "leased" /\ queue[m].state = "leased" /\ queue[l].node = queue[m].node => l = m
Workers == workers \in [Nodes -> Worker \cup {None}] /\ results \in [Leases -> Results]
Manager ==
  /\ place \in {"down", "blocked", "complete"} \cup Loop \cup Blocking
  /\ left \subseteq Layers \cup Nodes /\ lease \in {0} \cup Layers

LEMMA TypeParts == K275TypeOK <=> Kept /\ Remote /\ Queue /\ OneLease /\ Workers /\ Manager
BY DEF K275TypeOK, Kept, Remote, Queue, OneLease, Workers, Manager

LEMMA FaultType == ASSUME K275TypeOK, Fault \/ UNCHANGED faults PROVE faults' \in 0 .. MaxFaults
BY DEF K275TypeOK, Fault

LEMMA WorkerLooks ==
  ASSUME Workers, NEW n \in Nodes, workers[n] # None
  PROVE  /\ workers[n] \in Worker /\ workers[n].layer \in Layers /\ workers[n].attempt \in Attempts
         /\ KLeaseIn(workers[n]) \in Leases
BY DEF Workers, Worker, KLeaseIn, Leases

-----------------------------------------------------------------------------
(* A step of one worker, or its end *)

\* It keeps its lease, and nobody else's result is written.
Touch(n) ==
  /\ UNCHANGED queue /\ Workers'
  /\ \A m \in Nodes \ {n} : workers'[m] = workers[m]
  /\ workers'[n] # None =>
       /\ workers[n] # None /\ KLeaseIn(workers'[n]) = KLeaseIn(workers[n])
       /\ workers'[n].at \notin {"trap", "result"} =>
            /\ AtWork(n)
            /\ results'[KLeaseIn(workers[n])] = IF workers'[n].at = "reused" THEN "half" ELSE "none"
  /\ workers[n] = None => UNCHANGED <<workers, results>>
  /\ \A i \in Leases : results'[i] # results[i] => workers[n] # None /\ i = KLeaseIn(workers[n])

LEMMA MoveTouches ==
  ASSUME Workers, NEW n \in Nodes, workers[n] # None, NEW label \in WorkerSteps, Move(n, label)
  PROVE  /\ workers' \in [Nodes -> Worker \cup {None}]
         /\ KLeaseIn(workers'[n]) = KLeaseIn(workers[n]) /\ workers'[n].at = label
         /\ \A m \in Nodes \ {n} : workers'[m] = workers[m]
<1>1. [workers[n] EXCEPT !.at = label] \in Worker
  BY WorkerLooks DEF Worker
<1>2. workers'[n] = [workers[n] EXCEPT !.at = label] /\ \A m \in Nodes \ {n} : workers'[m] = workers[m]
  BY DEF Move, Workers
<1>3. ASSUME NEW w \in Worker
      PROVE  LET v == [w EXCEPT !.at = label] IN KLeaseIn(v) = KLeaseIn(w) /\ v.at = label
  BY DEF Worker, KLeaseIn
<1> QED
  BY <1>1, <1>2, <1>3, WorkerLooks DEF Move, Workers

LEMMA LeaveTouches ==
  ASSUME Workers, NEW n \in Nodes, Leave(n)
  PROVE  /\ workers' \in [Nodes -> Worker \cup {None}] /\ workers'[n] = None
         /\ \A m \in Nodes \ {n} : workers'[m] = workers[m]
BY DEF Workers, Leave

LEMMA WriteTouches ==
  ASSUME Workers, NEW n \in Nodes, workers[n] # None, NEW v \in Results, WriteResult(workers[n], v)
  PROVE  /\ results' \in [Leases -> Results] /\ results'[KLeaseIn(workers[n])] = v
         /\ \A i \in Leases : results'[i] # results[i] => i = KLeaseIn(workers[n])
BY WorkerLooks DEF Workers, WriteResult, KLeaseIn

LEMMA KillTouches ==
  ASSUME Workers, NEW n \in Nodes, KillWorker(n), UNCHANGED queue
  PROVE  Touch(n) /\ workers'[n] = None
<1>1. CASE workers[n] = None
  BY <1>1 DEF KillWorker, Touch, Workers
<1>2. CASE workers[n] # None
  <2>1. Leave(n) /\ TrapWrites(workers[n])
    BY <1>2 DEF KillWorker
  <2>2. "failed" \in Results
    BY DEF Results
  <2>3. results' = results \/ WriteResult(workers[n], "failed")
    BY <2>1 DEF TrapWrites
  <2>4. results' \in [Leases -> Results] /\ \A i \in Leases : results'[i] # results[i] => i = KLeaseIn(workers[n])
    BY <1>2, <2>2, <2>3, WriteTouches DEF Workers
  <2> QED  BY <1>2, <2>1, <2>4, LeaveTouches DEF Touch, Workers
<1> QED
  BY <1>1, <1>2

LEMMA WorkerTouches ==
  ASSUME Workers, Open, NEW n \in Nodes, WorkerStep(n) \/ WorkerFails(n)
  PROVE  Touch(n) /\ UNCHANGED <<late, manager>> /\ (Fault \/ UNCHANGED faults)
<1> DEFINE w == workers[n]
<1>1. w # None /\ UNCHANGED <<queue, late, manager>> /\ (Fault \/ UNCHANGED faults)
  BY DEF WorkerStep, WorkerFails, Begin, Reuse, Wait, Publish, Report, Trap, outside
<1>2. ASSUME NEW label \in WorkerSteps, Move(n, label), UNCHANGED results,
             label = "reused" \/ w.at = "reused" => label \in {"trap", "result"},
             w.at \in {"trap", "result"} => label \in {"trap", "result"}
      PROVE  Touch(n)
  <2>1. label \notin {"trap", "result"} => AtWork(n) /\ results[KLeaseIn(w)] = "none" /\ label # "reused"
    BY <1>1, <1>2 DEF AtWork, Open
  <2> QED  BY <1>1, <1>2, <2>1, MoveTouches DEF Touch, Workers
<1>3. ASSUME Leave(n), NEW v \in Results, WriteResult(w, v) \/ UNCHANGED results PROVE Touch(n)
  <2>1. results' \in [Leases -> Results] /\ \A i \in Leases : results'[i] # results[i] => i = KLeaseIn(w)
    BY <1>1, <1>3, WriteTouches DEF Workers
  <2> QED  BY <1>1, <1>3, <2>1, LeaveTouches DEF Touch, Workers
<1>4. CASE Begin(n, w)
  <2>1. \E label \in {"reuse", "wait"} : Move(n, label)
    BY <1>4 DEF Begin
  <2> QED  BY <1>2, <1>4, <2>1 DEF Begin, files, outside, WorkerSteps
<1>5. CASE Reuse(n, w)
  <2>1. CASE w.at = "reuse" /\ WriteResult(w, "half") /\ Move(n, "reused")
    <3>1. "half" \in Results /\ "reused" \in WorkerSteps
      BY DEF Results, WorkerSteps
    <3> QED  BY <1>1, <2>1, <3>1, MoveTouches, WriteTouches DEF Touch, AtWork, Workers
  <2>2. CASE WriteResult(w, "passed") /\ Leave(n)
    <3>1. "passed" \in Results
      BY DEF Results
    <3>2. WriteResult(w, "passed") \/ UNCHANGED results
      BY <2>2
    <3>3. Leave(n)
      BY <2>2
    <3> HIDE DEF w
    <3> QED  BY <1>1, <1>3, <3>1, <3>2, <3>3
  <2> QED  BY <1>5, <2>1, <2>2 DEF Reuse, outside
<1>6. CASE Wait(n, w)
  <2>1. \E label \in {"publish", "trap"} : Move(n, label)
    BY <1>6 DEF Wait
  <2> QED  BY <1>2, <1>6, <2>1 DEF Wait, files, outside, WorkerSteps
<1>7. CASE Publish(n, w)
  BY <1>2, <1>7 DEF Publish, outside, WorkerSteps
<1>8. CASE Report(n, w)
  BY <1>3, <1>8 DEF Report, outside, Results
<1>9. CASE Trap(n, w)
  <2>1. "failed" \in Results /\ (WriteResult(w, "failed") \/ UNCHANGED results)
    BY <1>9 DEF Trap, TrapWrites, Results
  <2> QED  BY <1>3, <1>9, <2>1 DEF Trap, outside
<1>10. CASE WorkerFails(n)
  BY <1>2, <1>10 DEF WorkerFails, WorkerSteps, files
<1> QED
  BY <1>1, <1>4, <1>5, <1>6, <1>7, <1>8, <1>9, <1>10 DEF WorkerStep

\* So the others' work stays what it was.
LEMMA TouchWork ==
  ASSUME Workers, Work, NEW n \in Nodes, Touch(n)
  PROVE  Work'
<1>1. \A m \in Nodes : workers'[m] # None => workers[m] # None /\ KLeaseIn(workers'[m]) = KLeaseIn(workers[m])
  BY DEF Touch
<1>2. \A m \in Nodes : workers[m] # None => KLeaseIn(workers[m]) \in Leases
  BY WorkerLooks
<1>3. UNCHANGED queue
  BY DEF Touch
<1>4. WasLeased'
  <2>1. \A m \in Nodes : workers'[m] # None => workers'[m].attempt <= queue[workers'[m].layer].attempt
    BY <1>1 DEF Work, WasLeased, KLeaseIn
  <2>2. ASSUME NEW i \in Leases, results'[i] # "none" PROVE i[2] <= queue[i[1]].attempt
    <3>1. CASE results'[i] = results[i]
      BY <2>2, <3>1 DEF Work, WasLeased
    <3>2. CASE workers[n] # None /\ i = KLeaseIn(workers[n])
      BY <3>2 DEF Work, WasLeased, KLeaseIn
    <3> QED  BY <3>1, <3>2 DEF Touch
  <2> QED  BY <1>3, <2>1, <2>2 DEF WasLeased
<1>5. Alone'
  BY <1>1 DEF Work, Alone
<1>6. \A m \in Nodes : AtWork(m)' => AtWork(m)
  BY <1>1 DEF AtWork, Touch
<1>7. WorkersHoldLeases'
  <2> SUFFICES ASSUME NEW m \in Nodes, AtWork(m)'
               PROVE  /\ queue[workers'[m].layer].state = "leased" /\ queue[workers'[m].layer].node = m
                      /\ queue[workers'[m].layer].attempt = workers'[m].attempt
    BY <1>3 DEF WorkersHoldLeases, AtWork
  <2>1. AtWork(m) /\ workers'[m].layer = workers[m].layer /\ workers'[m].attempt = workers[m].attempt
    BY <1>1, <1>6 DEF KLeaseIn, AtWork
  <2> QED  BY <2>1 DEF Work, WorkersHoldLeases, AtWork
<1>8. Open'
  <2> SUFFICES ASSUME NEW m \in Nodes, AtWork(m)'
               PROVE  results'[KLeaseIn(workers'[m])] = IF workers'[m].at = "reused" THEN "half" ELSE "none"
    BY DEF Open
  <2>1. CASE m = n
    BY <1>1, <2>1 DEF Touch, AtWork
  <2>2. CASE m # n
    <3>1. workers'[m] = workers[m] /\ AtWork(m)
      BY <1>6, <2>2 DEF Touch
    <3>2. results'[KLeaseIn(workers[m])] = results[KLeaseIn(workers[m])]
      BY <1>2, <2>2, <3>1 DEF Touch, Work, Alone, AtWork
    <3> QED  BY <3>1, <3>2 DEF Work, Open
  <2> QED  BY <2>1, <2>2
<1> QED
  BY <1>4, <1>5, <1>7, <1>8 DEF Work

-----------------------------------------------------------------------------
(* A step of the queue *)

Same(l) == queue'[l].node = queue[l].node /\ queue'[l].attempt = queue[l].attempt
Stays(l) == Same(l) /\ queue'[l].state = queue[l].state
Drops(l) == Same(l) /\ queue'[l].state # "leased" /\ Given(l)
Gains(l, n) ==
  /\ n \in Nodes /\ ~Active(n) /\ queue[l].state = "pending"
  /\ queue'[l].state = "leased" /\ queue'[l].node = n
  /\ queue'[l].attempt = queue[l].attempt + 1 /\ queue'[l].attempt \in Attempts

QueueStep ==
  /\ Queue'
  /\ \/ \A l \in Layers : Stays(l)
     \/ \E l \in Layers : Drops(l) /\ \A m \in Layers \ {l} : Stays(m)
     \/ place' = "launch" /\ \E l \in Layers, n \in Nodes : Gains(l, n) /\ lease' = l /\ \A m \in Layers \ {l} : Stays(m)

LEMMA RecordLooks ==
  ASSUME Queue, NEW l \in Layers
  PROVE  /\ queue[l] \in Record /\ queue[l].attempt \in Nat
         /\ \A s \in {"pending", "completed"} :
              LET r == [queue[l] EXCEPT !.state = s]
              IN  r \in Record /\ r.state = s /\ r.node = queue[l].node /\ r.attempt = queue[l].attempt
BY DEF Queue, Record

LEMMA DropSteps ==
  ASSUME Queue, NEW l \in Layers, Given(l), Requeue({l}) \/ Finish(l)
  PROVE  QueueStep /\ Drops(l) /\ \A m \in Layers \ {l} : Stays(m)
<1>1. PICK s \in {"pending", "completed"} : queue'[l] = [queue[l] EXCEPT !.state = s]
  BY DEF Requeue, Finish, Queue
<1>2. queue' \in [Layers -> Record] /\ \A m \in Layers \ {l} : queue'[m] = queue[m]
  BY RecordLooks DEF Requeue, Finish, Queue
<1>3. Drops(l) /\ \A m \in Layers \ {l} : Stays(m)
  BY <1>1, <1>2, RecordLooks DEF Drops, Same, Stays
<1> QED
  BY <1>2, <1>3 DEF QueueStep, Queue

LEMMA GrantSteps ==
  ASSUME Queue, NEW n \in Nodes, NEW l \in Layers, ~Active(n), Least(l, Grantable), place' = "launch", lease' = l,
         queue' = [queue EXCEPT ![l] = [state |-> "leased", node |-> n, attempt |-> @.attempt + 1]]
  PROVE  QueueStep /\ Gains(l, n) /\ \A m \in Layers \ {l} : Stays(m)
<1>1. queue[l].state = "pending" /\ queue[l].attempt < MaxAttempts /\ queue[l].attempt \in Nat
  BY RecordLooks DEF Least, Grantable, In
<1>2. queue[l].attempt + 1 \in Attempts /\ queue[l].attempt + 1 \in 0 .. MaxAttempts
  BY <1>1 DEF Attempts
<1>3. queue'[l] = [state |-> "leased", node |-> n, attempt |-> queue[l].attempt + 1]
      /\ \A m \in Layers \ {l} : queue'[m] = queue[m]
  BY DEF Queue
<1>4. Queue'
  BY <1>2, <1>3 DEF Queue, Record
<1>5. Gains(l, n) /\ \A m \in Layers \ {l} : Stays(m)
  BY <1>1, <1>2, <1>3 DEF Gains, Stays, Same
<1> QED
  BY <1>4, <1>5 DEF QueueStep

LEMMA QueueLeases == ASSUME Queue, OneLease, KLeasing, QueueStep PROVE OneLease' /\ KLeasing'
<1>1. CASE \A l \in Layers : Stays(l)
  BY <1>1 DEF OneLease, KLeasing, Given, Stays, Same
<1>2. ASSUME NEW l \in Layers, Drops(l), \A m \in Layers \ {l} : Stays(m) PROVE OneLease' /\ KLeasing'
  BY <1>2 DEF OneLease, KLeasing, Given, Stays, Drops, Same
<1>3. ASSUME NEW l \in Layers, NEW n \in Nodes, Gains(l, n), \A m \in Layers \ {l} : Stays(m)
      PROVE  OneLease' /\ KLeasing'
  <2>1. \A m \in Layers \ {l} : queue'[m].state = "leased" => queue'[m].node # n
    BY <1>3 DEF Gains, Active, In, Stays, Same
  <2> QED  BY <1>3, <2>1 DEF OneLease, KLeasing, Given, Gains, Stays, Same
<1> QED
  BY <1>1, <1>2, <1>3 DEF QueueStep

\* No worker at work has a lease that ends: so their work stays what it was.
LEMMA QueueWork ==
  ASSUME Queue, Workers, Work, QueueStep, UNCHANGED <<workers, results>>,
         \A n \in Nodes : AtWork(n) => Stays(workers[n].layer)
  PROVE  Work'
<1>1. \A n \in Nodes : workers[n] # None => workers[n].layer \in Layers /\ workers[n].attempt \in Nat
  BY WorkerLooks DEF Attempts
<1>2. \A l \in Layers : queue'[l].attempt = queue[l].attempt \/ queue'[l].attempt = queue[l].attempt + 1
  BY DEF QueueStep, Stays, Drops, Gains, Same
<1>3. \A l \in Layers : queue[l].attempt \in Nat
  BY RecordLooks
<1>4. ASSUME NEW l \in Layers, NEW a \in Nat, a <= queue[l].attempt PROVE a <= queue'[l].attempt
  <2> DEFINE b == queue[l].attempt
  <2>1. b \in Nat /\ a <= b /\ (queue'[l].attempt = b \/ queue'[l].attempt = b + 1)
    BY <1>2, <1>3, <1>4
  <2> HIDE DEF b
  <2> QED  BY <2>1
<1>5. WasLeased'
  <2>1. \A n \in Nodes : workers[n] # None => workers[n].attempt <= queue'[workers[n].layer].attempt
    BY <1>1, <1>4 DEF Work, WasLeased
  <2>2. \A i \in Leases : results[i] # "none" => i[2] <= queue'[i[1]].attempt
    BY <1>4 DEF Work, WasLeased, Leases, Attempts
  <2> QED  BY <2>1, <2>2 DEF WasLeased
<1>6. Alone' /\ Open'
  BY DEF Work, Alone, Open, AtWork
<1>7. WorkersHoldLeases'
  BY DEF Work, WorkersHoldLeases, AtWork, Stays, Same
<1> QED
  BY <1>5, <1>6, <1>7 DEF Work

\* A lease whose result is whole has no worker at work; a new one neither.
LEMMA EndedWork ==
  ASSUME Queue, Workers, Work, NEW l \in Layers, results[LeaseOf(l)] \in {"passed", "failed"},
         NEW n \in Nodes, AtWork(n)
  PROVE  workers[n].layer # l
<1>1. results[KLeaseIn(workers[n])] \in {"half", "none"}
  BY DEF Work, Open
<1>2. workers[n].layer = l => KLeaseIn(workers[n]) = LeaseOf(l)
  BY DEF Work, WorkersHoldLeases, AtWork, KLeaseIn, LeaseOf
<1> QED
  BY <1>1, <1>2

LEMMA GainedWork ==
  ASSUME Workers, Work, NEW l \in Layers, queue[l].state = "pending", NEW n \in Nodes, AtWork(n)
  PROVE  workers[n].layer # l
BY DEF Work, WorkersHoldLeases, AtWork

-----------------------------------------------------------------------------
(* The manager *)

\* The manager goes where it knows nothing, or only what the step has made so.
LEMMA GotoPlaces ==
  ASSUME K275TypeOK, KLeasing, UNCHANGED queue,
         NEW label \in {"down", "blocked", "complete", "top", "grant", "scan", "stopContainers", "requeue"},
         NEW S \in SUBSET (Layers \cup Nodes), Goto(label, S),
         label = "scan" => \A l \in S : l \in Layers /\ Given(l),
         label = "stopContainers" => \A n \in Nodes \ S : workers'[n] = None,
         label = "requeue" => \A n \in Nodes : workers'[n] = None
  PROVE  Place' /\ Manager'
<1>1. place' = label /\ left' = S /\ lease' = 0
  BY DEF Goto
<1>2. KLeasing'
  BY DEF KLeasing, Given
<1>3. Scanning'
  BY <1>1 DEF Scanning, Given
<1>4. Launching'
  BY <1>1 DEF Launching
<1>5. StoppedOK'
  BY <1>1 DEF StoppedOK
<1>6. Manager'
  BY <1>1 DEF Manager, Loop, Blocking
<1> QED
  BY <1>2, <1>3, <1>4, <1>5, <1>6 DEF Place

\* Its place is kept beside the steps of the workers.
LEMMA TouchPlace ==
  ASSUME Workers, Place, NEW n \in Nodes, Touch(n), UNCHANGED manager
  PROVE  Place'
<1>1. UNCHANGED <<queue, place, left, lease>>
  BY DEF Touch, manager
<1>2. \A m \in Nodes : workers'[m] # None => workers[m] # None /\ KLeaseIn(workers'[m]) = KLeaseIn(workers[m])
  BY DEF Touch
<1>3. KLeasing' /\ Scanning'
  BY <1>1 DEF Place, KLeasing, Scanning, Given
<1>4. Launching'
  <2> SUFFICES ASSUME place = "launch"
               PROVE  /\ queue[lease].state = "leased" /\ results'[LeaseOf(lease)] = "none"
                      /\ \A m \in Nodes : workers'[m] # None => KLeaseIn(workers'[m]) # LeaseOf(lease)
    BY <1>1 DEF Launching, LeaseOf
  <2>1. LeaseOf(lease) \in Leases
    BY DEF Place, Scanning, Given, LeaseOf, Leases
  <2>2. results'[LeaseOf(lease)] = results[LeaseOf(lease)]
    BY <2>1 DEF Touch, Place, Launching
  <2> QED  BY <1>2, <2>2 DEF Place, Launching
<1>5. StoppedOK'
  BY <1>1, <1>2 DEF Place, StoppedOK
<1> QED
  BY <1>3, <1>4, <1>5 DEF Place

Core == Queue /\ OneLease /\ Workers /\ Manager /\ Work /\ Place

LEMMA TouchCore ==
  ASSUME Core, NEW n \in Nodes, Touch(n), UNCHANGED manager
  PROVE  Core'
<1>1. Work' /\ Place'
  BY TouchWork, TouchPlace DEF Core
<1>2. UNCHANGED queue /\ Workers'
  BY DEF Touch
<1> QED
  BY <1>1, <1>2 DEF Core, Queue, OneLease, Manager, manager

\* A touched worker, or none at all, and a place of GotoPlaces.
LEMMA GotoCore ==
  ASSUME K275TypeOK, Core, UNCHANGED queue,
         UNCHANGED <<workers, results>> \/ \E n \in Nodes : Touch(n),
         Place' /\ Manager'
  PROVE  Core'
<1>1. Work' /\ Workers'
  <2>1. CASE UNCHANGED <<workers, results>>
    BY <2>1 DEF Core, Work, WasLeased, Alone, WorkersHoldLeases, Open, AtWork, Workers
  <2>2. CASE \E n \in Nodes : Touch(n)
    BY <2>2, TouchWork DEF Core, Touch
  <2> QED  BY <2>1, <2>2
<1> QED
  BY <1>1 DEF Core, Queue, OneLease

LEMMA TopCore ==
  ASSUME K275TypeOK, Core, Top \/ Audit \/ Count \/ ManagerDies \/ Resume PROVE Core'
<1>1. UNCHANGED <<queue, workers, results>>
  BY DEF Top, Audit, Count, ManagerDies, Resume, files
<1>2. KLeasing
  BY DEF Core, Place
<1>3. \/ Goto("scan", In("leased")) \/ Goto("stopContainers", Nodes) \/ Goto("grant", Nodes)
      \/ \E label \in {"complete", "top", "down"} : Goto(label, {})
  BY DEF Top, Audit, Count, ManagerDies, Resume, Block
<1>4. CASE Goto("scan", In("leased"))
  BY <1>1, <1>2, <1>4, GotoPlaces, GotoCore DEF In, KLeasing
<1>5. CASE Goto("stopContainers", Nodes)
  BY <1>1, <1>2, <1>5, GotoPlaces, GotoCore
<1>6. CASE Goto("grant", Nodes)
  BY <1>1, <1>2, <1>6, GotoPlaces, GotoCore
<1>7. CASE \E label \in {"complete", "top", "down"} : Goto(label, {})
  BY <1>1, <1>2, <1>7, GotoPlaces, GotoCore
<1> QED
  BY <1>3, <1>4, <1>5, <1>6, <1>7

LEMMA ScanCore == ASSUME K275TypeOK, Core, NEW l \in Layers, Scan(l) PROVE Core'
<1>1. l \in left /\ place = "scan" /\ UNCHANGED <<workers, results>>
  BY DEF Scan, Least, files
<1>2. Given(l) /\ KLeasing /\ left \subseteq Layers \cup Nodes
  BY <1>1 DEF Core, Place, Scanning, Manager
<1>3. CASE Block /\ UNCHANGED queue
  BY <1>1, <1>2, <1>3, GotoPlaces, GotoCore DEF Block
<1>4. CASE Goto("down", {}) /\ UNCHANGED queue
  BY <1>1, <1>2, <1>4, GotoPlaces, GotoCore
<1>5. CASE Goto("scan", left \ {l}) /\ UNCHANGED queue
  <2>1. \A m \in left \ {l} : m \in Layers /\ Given(m)
    BY <1>1 DEF Core, Place, Scanning
  <2>2. left \ {l} \in SUBSET (Layers \cup Nodes)
    BY <1>2
  <2>3. Place' /\ Manager'
    BY <1>2, <1>5, <2>1, <2>2, GotoPlaces
  <2> QED  BY <1>1, <1>5, <2>3, GotoCore
<1>6. ASSUME results[LeaseOf(l)] \in {"passed", "failed"}, Requeue({l}) \/ Finish(l),
             place' \in {"kill", "killBlock"}, lease' = l, UNCHANGED left
      PROVE  Core'
  <2>1. QueueStep /\ Drops(l) /\ \A m \in Layers \ {l} : Stays(m)
    BY <1>2, <1>6, DropSteps DEF Core
  <2>2. Queue' /\ OneLease' /\ KLeasing'
    BY <2>1, QueueLeases DEF Core, Place, QueueStep
  <2>3. \A n \in Nodes : AtWork(n) => Stays(workers[n].layer)
    BY <1>6, <2>1, EndedWork, WorkerLooks DEF Core, AtWork
  <2>4. Work'
    BY <1>1, <2>1, <2>3, QueueWork DEF Core
  <2>5. \A m \in Layers : Given(m) => Given(m)'
    BY <2>1 DEF Given, Stays, Drops, Same
  <2>6. Scanning'
    BY <1>1, <1>2, <1>6, <2>5 DEF Core, Place, Scanning
  <2>7. Launching' /\ StoppedOK'
    BY <1>6 DEF Launching, StoppedOK
  <2>8. Workers' /\ Manager'
    BY <1>1, <1>6 DEF Core, Workers, Manager, Loop
  <2> QED  BY <2>2, <2>4, <2>6, <2>7, <2>8 DEF Core, Place
<1>7. \/ (Block /\ UNCHANGED queue) \/ (Goto("down", {}) /\ UNCHANGED queue)
      \/ (Goto("scan", left \ {l}) /\ UNCHANGED queue)
      \/ /\ results[LeaseOf(l)] \in {"passed", "failed"} /\ (Requeue({l}) \/ Finish(l))
         /\ place' \in {"kill", "killBlock"} /\ lease' = l /\ UNCHANGED left
  BY DEF Scan, At
<1> QED
  BY <1>3, <1>4, <1>5, <1>6, <1>7

LEMMA KillCore == ASSUME K275TypeOK, Core, KillSession PROVE Core'
<1>1. UNCHANGED queue /\ KillWorker(queue[lease].node) /\ queue[lease].node \in Nodes /\ KLeasing
  BY DEF KillSession, Core, Place, Scanning, Given
<1>2. Touch(queue[lease].node)
  BY <1>1, KillTouches DEF Core
<1>3. CASE Block
  BY <1>1, <1>2, <1>3, GotoPlaces, GotoCore DEF Block
<1>4. CASE Goto("scan", left \ {lease})
  <2>1. \A m \in left \ {lease} : m \in Layers /\ Given(m)
    BY DEF KillSession, Core, Place, Scanning
  <2>2. left \ {lease} \in SUBSET (Layers \cup Nodes)
    BY DEF Core, Manager
  <2>3. Place' /\ Manager'
    BY <1>1, <1>4, <2>1, <2>2, GotoPlaces
  <2> QED  BY <1>1, <1>2, <2>3, GotoCore
<1> QED
  BY <1>3, <1>4 DEF KillSession

LEMMA GrantCore == ASSUME K275TypeOK, Core, NEW n \in Nodes, Grant(n) PROVE Core'
<1>1. UNCHANGED <<workers, results>> /\ KLeasing
  BY DEF Grant, files, Core, Place
<1>2. CASE Goto("grant", left \ {n}) /\ UNCHANGED queue
  <2>1. left \ {n} \in SUBSET (Layers \cup Nodes)
    BY DEF Core, Manager
  <2>2. Place' /\ Manager'
    BY <1>1, <1>2, <2>1, GotoPlaces
  <2> QED  BY <1>1, <1>2, <2>2, GotoCore
<1>3. ASSUME NEW l \in Layers, ~Active(n), Least(l, Grantable), place' = "launch", lease' = l, UNCHANGED left,
             queue' = [queue EXCEPT ![l] = [state |-> "leased", node |-> n, attempt |-> @.attempt + 1]]
      PROVE  Core'
  <2>1. QueueStep /\ Gains(l, n) /\ \A m \in Layers \ {l} : Stays(m)
    BY <1>3, GrantSteps DEF Core
  <2>2. Queue' /\ OneLease' /\ KLeasing'
    BY <2>1, QueueLeases DEF Core, Place, QueueStep
  <2>3. \A m \in Nodes : AtWork(m) => Stays(workers[m].layer)
    BY <2>1, GainedWork, WorkerLooks DEF Core, AtWork, Gains
  <2>4. Work'
    BY <1>1, <2>1, <2>3, QueueWork DEF Core
  <2>5. Scanning' /\ StoppedOK'
    BY <1>3, <2>1 DEF Scanning, StoppedOK, Given, Gains
  <2>6. Launching'
    <3> DEFINE b == queue[l].attempt
    <3>1. b \in Nat /\ queue'[l].attempt = b + 1 /\ queue'[l].attempt \in Attempts
      BY <2>1, RecordLooks DEF Core, Gains
    <3>2. LeaseOf(l)' = <<l, b + 1>> /\ <<l, b + 1>> \in Leases
      BY <3>1 DEF LeaseOf, Leases
    <3>3. results[<<l, b + 1>>] # "none" => b + 1 <= b
      BY <3>2 DEF Core, Work, WasLeased
    <3>4. \A m \in Nodes : workers[m] # None /\ KLeaseIn(workers[m]) = <<l, b + 1>> => b + 1 <= b
      BY DEF Core, Work, WasLeased, KLeaseIn
    <3>5. queue'[l].state = "leased"
      BY <2>1 DEF Gains
    <3> HIDE DEF b
    <3>6. ~(b + 1 <= b)
      BY <3>1
    <3> QED  BY <1>1, <1>3, <3>2, <3>3, <3>4, <3>5, <3>6 DEF Launching
  <2>7. Workers' /\ Manager'
    BY <1>1, <1>3 DEF Core, Workers, Manager, Loop
  <2> QED  BY <2>2, <2>4, <2>5, <2>6, <2>7 DEF Core, Place
<1> QED
  BY <1>2, <1>3 DEF Grant, At

LEMMA LaunchCore == ASSUME K275TypeOK, Core, Launch PROVE Core'
<1> DEFINE n == queue[lease].node
           w == [layer |-> lease, attempt |-> queue[lease].attempt, at |-> "begin"]
<1>1. /\ UNCHANGED <<queue, results>> /\ lease \in Layers /\ n \in Nodes /\ queue[lease].attempt \in Attempts
      /\ KLeasing /\ left \ {n} \in SUBSET (Layers \cup Nodes)
  BY DEF Launch, files, Core, Place, Scanning, Given, Manager
<1>2. CASE Goto("down", {}) /\ UNCHANGED workers
  BY <1>1, <1>2, GotoPlaces, GotoCore
<1>3. CASE /\ workers[n] = None /\ workers' = [workers EXCEPT ![n] = w]
           /\ Goto("grant", left \ {n})
  <2>1. Place' /\ Manager'
    BY <1>1, <1>3, GotoPlaces
  <2>2. w \in Worker /\ w.at = "begin" /\ w.layer = lease /\ w.attempt = queue[lease].attempt
        /\ KLeaseIn(w) = LeaseOf(lease)
    BY <1>1 DEF Worker, WorkerSteps, KLeaseIn, LeaseOf
  <2> HIDE DEF w
  <2>3. workers'[n] = w /\ \A m \in Nodes \ {n} : workers'[m] = workers[m]
    BY <1>1, <1>3 DEF Core, Workers
  <2>4. Workers'
    BY <1>1, <1>3, <2>2 DEF Core, Workers
  <2>5. /\ queue[lease].state = "leased" /\ results[LeaseOf(lease)] = "none"
        /\ \A m \in Nodes : workers[m] # None => KLeaseIn(workers[m]) # LeaseOf(lease)
    BY DEF Launch, Core, Place, Launching
  <2>6. queue[lease].attempt <= queue[lease].attempt
    BY <1>1 DEF Attempts
  <2>7. WasLeased'
    BY <1>1, <2>2, <2>3, <2>6 DEF Core, Work, WasLeased
  <2>8. Alone'
    BY <2>2, <2>3, <2>5 DEF Core, Work, Alone
  <2>9. \A m \in Nodes \ {n} : AtWork(m)' <=> AtWork(m)
    BY <2>3 DEF AtWork
  <2>10. WorkersHoldLeases'
    <3> SUFFICES ASSUME NEW m \in Nodes, AtWork(m)'
                 PROVE  /\ queue[workers'[m].layer].state = "leased" /\ queue[workers'[m].layer].node = m
                        /\ queue[workers'[m].layer].attempt = workers'[m].attempt
      BY <1>1 DEF WorkersHoldLeases, AtWork
    <3>1. CASE m = n
      BY <2>2, <2>3, <2>5, <3>1
    <3>2. CASE m # n
      BY <2>3, <2>9, <3>2 DEF Core, Work, WorkersHoldLeases, AtWork
    <3> QED  BY <3>1, <3>2
  <2>11. Open'
    BY <1>1, <2>2, <2>3, <2>5, <2>9 DEF Core, Work, Open
  <2> QED  BY <1>1, <2>1, <2>4, <2>7, <2>8, <2>10, <2>11 DEF Core, Work, Queue, OneLease
<1> QED
  BY <1>2, <1>3 DEF Launch

LEMMA StopCore ==
  ASSUME K275TypeOK, Core, NEW n \in Nodes, StopContainers(n) \/ StopSessions(n)
  PROVE  Core'
<1>1. UNCHANGED <<queue, workers, results, left, lease>> /\ place' \in {"stopSessions", "stopWorker"}
      /\ place \in {"stopContainers", "stopSessions"}
  BY DEF StopContainers, StopSessions, files
<1>2. Place'
  BY <1>1 DEF Core, Place, KLeasing, Scanning, Given, Launching, StoppedOK
<1>3. Manager'
  BY <1>1 DEF Core, Manager, Blocking
<1> QED
  BY <1>1, <1>2, <1>3, GotoCore

LEMMA StopWorkerCore == ASSUME K275TypeOK, Core, NEW n \in Nodes, StopWorker(n) PROVE Core'
<1>1. UNCHANGED queue /\ KLeasing /\ \A m \in Nodes \ left : workers[m] = None
  BY DEF StopWorker, Core, Place, StoppedOK
<1>2. Touch(n) /\ workers'[n] = None
  BY <1>1, KillTouches DEF StopWorker, Core
<1>3. \A m \in Nodes \ (left \ {n}) : workers'[m] = None
  BY <1>1, <1>2 DEF Touch
<1>4. CASE left = {n} /\ Goto("requeue", Layers)
  BY <1>1, <1>2, <1>3, <1>4, GotoPlaces, GotoCore
<1>5. CASE Goto("stopContainers", left \ {n})
  <2>1. left \ {n} \in SUBSET (Layers \cup Nodes)
    BY DEF Core, Manager
  <2>2. Place' /\ Manager'
    BY <1>1, <1>3, <1>5, <2>1, GotoPlaces
  <2> QED  BY <1>1, <1>2, <2>2, GotoCore
<1> QED
  BY <1>4, <1>5 DEF StopWorker

LEMMA RequeueCore == ASSUME K275TypeOK, Core, RequeueLease PROVE Core'
<1>1. UNCHANGED <<workers, results>> /\ KLeasing /\ place = "requeue" /\ \A n \in Nodes : workers[n] = None
  BY DEF RequeueLease, files, Core, Place, StoppedOK
<1>2. CASE Goto("blocked", {}) /\ UNCHANGED queue
  BY <1>1, <1>2, GotoPlaces, GotoCore
<1>3. ASSUME NEW l \in Layers, queue[l].state = "leased", Requeue({l}), UNCHANGED manager PROVE Core'
  <2>1. QueueStep /\ Drops(l) /\ \A m \in Layers \ {l} : Stays(m)
    BY <1>1, <1>3, DropSteps DEF Core, KLeasing
  <2>2. Queue' /\ OneLease' /\ KLeasing'
    BY <2>1, QueueLeases DEF Core, Place, QueueStep
  <2>3. Work'
    BY <1>1, <2>1, QueueWork DEF Core, AtWork
  <2>4. Scanning' /\ Launching' /\ StoppedOK'
    BY <1>1, <1>3 DEF manager, Scanning, Launching, StoppedOK
  <2>5. Workers' /\ Manager'
    BY <1>1, <1>3 DEF Core, Workers, Manager, manager
  <2> QED  BY <2>2, <2>3, <2>4, <2>5 DEF Core, Place
<1> QED
  BY <1>2, <1>3 DEF RequeueLease, In

LEMMA RebootCore == ASSUME K275TypeOK, Core, HostReboots PROVE Core'
<1>1. UNCHANGED <<queue, results>> /\ KLeasing /\ Goto("down", {}) /\ workers' = [n \in Nodes |-> None]
  BY DEF HostReboots, files, Core, Place
<1>2. Place' /\ Manager'
  BY <1>1, GotoPlaces
<1>3. Workers' /\ \A n \in Nodes : workers'[n] = None
  BY <1>1 DEF Core, Workers
<1>4. Work'
  BY <1>1, <1>3 DEF Core, Work, WasLeased, Alone, WorkersHoldLeases, Open, AtWork
<1> QED
  BY <1>1, <1>2, <1>3, <1>4 DEF Core, Queue, OneLease

-----------------------------------------------------------------------------
(* The remote, and the whole step *)

LEMMA OverRemote ==
  ASSUME Remote, NEW j \in jobs, NEW code \in {"ok", "fail"}, Over(j, code)
  PROVE  exits' \in [Leases -> {"none", "ok", "fail"}] /\ jobs' \subseteq Job
BY DEF Remote, Over

LEMMA PhaseType ==
  ASSUME NEW j \in Job, NEW p \in {"starting", "encoding", "stopped", "detached"}
  PROVE  [j EXCEPT !.phase = p] \in Job
BY DEF Job

LEMMA JobRemote ==
  ASSUME K275TypeOK, Remote, NEW j \in jobs, JobStep(j) \/ EncoderFails(j)
  PROVE  Remote' /\ UNCHANGED <<queue, late, results, workers, manager>> /\ (Fault \/ UNCHANGED faults)
<1>1. /\ UNCHANGED <<queue, late, results, published, nested, workers, manager>> /\ (Fault \/ UNCHANGED faults)
      /\ j \in Job /\ j.node \in Nodes /\ j.layer \in Layers
  BY DEF JobStep, EncoderFails, files, outside, Remote, Job
<1>2. CASE UNCHANGED encoded /\ (Over(j, "ok") \/ Over(j, "fail"))
  BY <1>1, <1>2, OverRemote DEF Remote
<1>3. CASE UNCHANGED <<encoded, exits>> /\ Become(j, "encoding")
  BY <1>1, <1>3, PhaseType DEF Remote, Become
<1>4. CASE EncodeSubset(j)
  <2>1. encoded' \in [Nodes -> [Layers -> {"none", "partial", "complete"}]]
    BY <1>1, <1>4 DEF EncodeSubset, Remote
  <2> QED  BY <1>1, <1>4, <2>1 DEF EncodeSubset, Remote
<1> QED
  BY <1>2, <1>3, <1>4 DEF JobStep, EncoderFails, StartContainer, EncoderEnds

LEMMA StopRemote ==
  ASSUME Remote, NEW n \in Nodes, StopContainers(n) \/ StopSessions(n)
  PROVE  Remote'
<1>1. UNCHANGED <<exits, encoded, published, nested>>
  BY DEF StopContainers, StopSessions, files
<1>2. \A p \in {"stopped", "detached"}, S \in SUBSET jobs : {[j EXCEPT !.phase = p] : j \in S} \subseteq Job
  <2> TAKE p \in {"stopped", "detached"}, S \in SUBSET jobs
  <2>1. \A j \in S : [j EXCEPT !.phase = p] \in Job
    BY PhaseType DEF Remote
  <2> HIDE DEF Job
  <2> QED  BY <2>1
<1>3. {k \in jobs : k.node = n /\ k.phase = "encoding"} \in SUBSET jobs
  OBVIOUS
<1>4. jobs' \subseteq Job
  BY <1>2, <1>3 DEF StopContainers, StopSessions, Remote
<1> QED
  BY <1>1, <1>4 DEF Remote

LEMMA WorkerRemote ==
  ASSUME Remote, Workers, NEW n \in Nodes, WorkerStep(n) \/ WorkerFails(n)
  PROVE  Remote'
<1> DEFINE w == workers[n]
<1>1. w # None /\ w.layer \in Layers /\ w.attempt \in Attempts
  BY WorkerLooks DEF WorkerStep, WorkerFails
<1>2. CASE Begin(n, w)
  <2>1. [node |-> n, layer |-> w.layer, attempt |-> w.attempt, phase |-> "starting"] \in Job
    BY <1>1 DEF Job
  <2> HIDE DEF w
  <2> QED  BY <1>2, <2>1 DEF Begin, Remote, files
<1>3. CASE Publish(n, w)
  BY <1>1, <1>3 DEF Publish, Remote, remote
<1>4. CASE Reuse(n, w) \/ Wait(n, w) \/ Report(n, w) \/ Trap(n, w) \/ WorkerFails(n)
  BY <1>4 DEF Reuse, Wait, Report, Trap, WorkerFails, Remote, remote, files
<1> QED
  BY <1>2, <1>3, <1>4 DEF WorkerStep

\* Only the queue's calls and the calendar touch the late leases.
LEMMA KeptStep == ASSUME K275TypeOK, [K275Next]_k275vars PROVE Kept'
<1>1. (Fault \/ UNCHANGED faults) /\ (UNCHANGED event \/ event' = TRUE)
  BY DEF K275Next, ManagerStep, Top, KillSession, Audit, Launch, Count, RequeueLease, Scan, Grant, StopContainers, StopSessions,
         StopWorker, ManagerDies, HostReboots, KernelEvent, Resume, outside, WorkerStep, Begin, Reuse, Wait, Publish, Report, Trap,
         WorkerFails, NodeStep, JobStep, EncoderFails, PublishedRots, IdleExpires, SlowExpires, k275vars
<1>2. UNCHANGED late \/ (\E S \in SUBSET Layers : late' = late \ S) \/ \E l \in Layers : late' = late \cup {l}
  <2>1. CASE ManagerStep
    <3>1. UNCHANGED late \/ \E l \in Layers : Requeue({l}) \/ Finish(l)
      BY <2>1 DEF ManagerStep, Top, KillSession, Audit, Launch, Count, RequeueLease, Scan, Grant, StopContainers, StopSessions,
                  StopWorker, In
    <3>2. ASSUME NEW l \in Layers, Requeue({l}) \/ Finish(l) PROVE {l} \in SUBSET Layers /\ late' = late \ {l}
      BY <3>2 DEF Requeue, Finish
    <3> QED  BY <3>1, <3>2
  <2>2. CASE \E l \in Layers : PublishedRots(l) \/ IdleExpires(l) \/ SlowExpires(l)
    BY <2>2 DEF PublishedRots, IdleExpires, SlowExpires, Expires
  <2>3. CASE ManagerDies \/ HostReboots \/ KernelEvent \/ Resume \/ UNCHANGED k275vars
    BY <2>3 DEF ManagerDies, HostReboots, KernelEvent, Resume, k275vars
  <2>4. CASE \/ \E n \in Nodes : WorkerStep(n) \/ WorkerFails(n) \/ NodeStep(n)
             \/ \E j \in jobs : EncoderFails(j)
    BY <2>4 DEF WorkerStep, Begin, Reuse, Wait, Publish, Report, Trap, WorkerFails, NodeStep, JobStep, EncoderFails
  <2> QED  BY <2>1, <2>2, <2>3, <2>4 DEF K275Next
<1>3. late \subseteq Layers /\ event \in BOOLEAN
  BY DEF K275TypeOK
<1> QED
  BY <1>1, <1>2, <1>3, FaultType DEF Kept

LEMMA ManagerCore == ASSUME K275TypeOK, Core, Remote, ManagerStep PROVE Core' /\ Remote'
<1>1. CASE Top \/ Audit \/ Count
  BY <1>1, TopCore DEF Top, Audit, Count, Remote, files, remote
<1>2. CASE KillSession
  BY <1>2, KillCore DEF KillSession, Remote, remote
<1>3. CASE Launch
  BY <1>3, LaunchCore DEF Launch, Remote, files, remote
<1>4. CASE RequeueLease
  BY <1>4, RequeueCore DEF RequeueLease, Remote, files, remote
<1>5. ASSUME NEW l \in Layers, Scan(l) PROVE Core' /\ Remote'
  BY <1>5, ScanCore DEF Scan, Remote, files, remote
<1>6. ASSUME NEW n \in Nodes, Grant(n) PROVE Core' /\ Remote'
  BY <1>6, GrantCore DEF Grant, Remote, files, remote
<1>7. ASSUME NEW n \in Nodes, StopContainers(n) \/ StopSessions(n) PROVE Core' /\ Remote'
  BY <1>7, StopCore, StopRemote
<1>8. ASSUME NEW n \in Nodes, StopWorker(n) PROVE Core' /\ Remote'
  BY <1>8, StopWorkerCore DEF StopWorker, Remote, remote
<1> QED
  BY <1>1, <1>2, <1>3, <1>4, <1>5, <1>6, <1>7, <1>8 DEF ManagerStep

LEMMA QuietCore ==
  ASSUME Core, UNCHANGED <<queue, results, workers, manager>>
  PROVE  Core'
<1>1. Place' /\ Manager'
  BY DEF Core, Place, KLeasing, Scanning, Given, Launching, LeaseOf, StoppedOK, Manager, manager
<1>2. Work' /\ Queue' /\ OneLease' /\ Workers'
  BY DEF Core, Work, WasLeased, Alone, WorkersHoldLeases, Open, AtWork, Queue, OneLease, Workers
<1> QED
  BY <1>1, <1>2 DEF Core

LEMMA InvParts == KInv <=> Kept /\ Remote /\ Core
BY TypeParts DEF KInv, Core

LEMMA KStep == ASSUME KInv, [K275Next]_k275vars PROVE KInv'
<1>1. K275TypeOK /\ Remote /\ Core /\ Workers /\ Open
  BY InvParts DEF KInv, Core, Work
<1>2. Kept'
  BY <1>1, KeptStep
<1>3. ASSUME ManagerStep PROVE Core' /\ Remote'
  BY <1>1, <1>3, ManagerCore
<1>4. ASSUME ManagerDies \/ Resume PROVE Core' /\ Remote'
  BY <1>1, <1>4, TopCore DEF ManagerDies, Resume, Remote, files, remote
<1>5. ASSUME HostReboots PROVE Core' /\ Remote'
  BY <1>1, <1>5, RebootCore DEF HostReboots, Remote, files, remote
<1>6. ASSUME NEW n \in Nodes, WorkerStep(n) \/ WorkerFails(n) PROVE Core' /\ Remote'
  <2>1. Touch(n) /\ UNCHANGED manager
    BY <1>1, <1>6, WorkerTouches
  <2>2. Core'
    BY <1>1, <2>1, TouchCore
  <2> QED  BY <1>1, <1>6, <2>2, WorkerRemote
<1>7. ASSUME NEW j \in jobs, JobStep(j) \/ EncoderFails(j) PROVE Core' /\ Remote'
  BY <1>1, <1>7, JobRemote, QuietCore
<1>8. ASSUME NEW l \in Layers, PublishedRots(l) \/ Expires(l) PROVE Core' /\ Remote'
  <2>1. UNCHANGED <<queue, results, workers, manager>>
    BY <1>8 DEF PublishedRots, Expires, files
  <2>2. Remote'
    BY <1>1, <1>8 DEF PublishedRots, Expires, Remote, files, remote
  <2> QED  BY <1>1, <2>1, <2>2, QuietCore
<1>9. ASSUME UNCHANGED k275vars PROVE Core' /\ Remote'
  BY <1>1, <1>9, QuietCore DEF k275vars, files, remote, Remote
<1>10. ASSUME KernelEvent PROVE Core' /\ Remote'
  BY <1>1, <1>10, QuietCore DEF KernelEvent, files, remote, Remote
<1>11. Core' /\ Remote'
  BY <1>3, <1>4, <1>5, <1>6, <1>7, <1>8, <1>9, <1>10 DEF K275Next, NodeStep, IdleExpires, SlowExpires
<1>12. (Kept /\ Remote /\ Core)' => KInv'
  BY InvParts, PTL
<1> QED
  BY <1>2, <1>11, <1>12

LEMMA KInit == K275Init => KInv
<1> SUFFICES ASSUME K275Init PROVE KInv
  OBVIOUS
<1>1. \A n \in Nodes : workers[n] = None
  BY DEF K275Init
<1>2. \A l \in Layers : queue[l] = [state |-> "pending", node |-> None, attempt |-> 0]
  BY DEF K275Init
<1>3. Queue
  <2>1. [state |-> "pending", node |-> None, attempt |-> 0] \in Record
    BY DEF Record
  <2> HIDE DEF Record
  <2> QED  BY <2>1 DEF K275Init, Queue
<1>4. OneLease
  BY <1>2 DEF OneLease
<1>5. Workers
  BY DEF K275Init, Workers, Results
<1>6. Manager /\ Kept /\ Remote
  <2>1. 0 \in 0 .. MaxFaults
    OBVIOUS
  <2> QED  BY <2>1 DEF K275Init, Manager, Kept, Remote
<1>7. Work
  BY <1>1 DEF K275Init, Work, WasLeased, Alone, WorkersHoldLeases, Open, AtWork
<1>8. Place
  BY <1>2 DEF K275Init, Place, KLeasing, Scanning, Launching, StoppedOK
<1> QED
  BY <1>3, <1>4, <1>5, <1>6, <1>7, <1>8, InvParts DEF Core

LEMMA KAlways == K275Spec => []KInv
<1>1. KInv /\ [K275Next]_k275vars => KInv'
  BY KStep
<1> QED
  BY <1>1, KInit, PTL DEF K275Spec

\* The state of the K2.75 run always has its type.
THEOREM K275Types == K275Spec => []K275TypeOK
<1>1. KInv => K275TypeOK
  BY DEF KInv
<1> QED
  BY <1>1, KAlways, PTL

\* A K2.75 worker before its result works for the lease the queue holds on its node,
\* whatever dies, expires or is resumed (k275_bulk_manager.py:190-193, 245).
THEOREM Workers_Hold_Leases == K275Spec => []WorkersHoldLeases
<1>1. KInv => WorkersHoldLeases
  BY DEF KInv, Work
<1> QED
  BY <1>1, KAlways, PTL
=============================================================================

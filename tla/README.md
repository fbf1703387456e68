# Specifications of the GLM 5.3 K3/K2.75 project on three Sparks

The repository quantises a large mixture-of-experts model on three DGX Sparks,
publishes the layers, assembles and uploads checkpoints, and serves them with
three ranks of vLLM that the patches in `runtime/` adapt. This directory models
the parts whose correctness depends on the order of things (queues, workers,
crashes, receipts, services, uploads) or on arithmetic that has to fit together
over three ranks (slices, packs, chunks of heads). Numeric work is not modelled:
the codec, the CUDA kernels, the scores.

Paths below are relative to `src/`.

## 1. The system

| Part | Keeps | Does | Meets others in |
|---|---|---|---|
| **Lease queue** `tp3k3/lease_queue.py` | one JSON record per layer in `pending/`, `leased/` or `completed/`, receipts in `failed/` | initialize, lease, finish, requeue, prefer | files; called by both managers and the recovery |
| **K3 manager** `scripts/bulk_lease_manager.py`, guard `run_bulk_manager_guarded.sh` | the queue, `results/`, a lock, `BLOCKED.json` | scan, audit, grant, launch; a block that stops every encoder | workers through tmux and `results/`, Sparks through ssh |
| **K3 worker** `scripts/bulk_lease_worker.sh` | a result per lease, the publish root | stage, encode, poll, verify, publish, write the result; a trap | manager, encoder, publish root |
| **Encoder** `tp3k3/encoder.py`, `scripts/run_encoder.sh`, `verify_layer.py` | a shard and a receipt per expert, a layer receipt, `exit-code.txt` | encode what is missing, reuse what is valid, seal | its container outlives the session that started it |
| **Recovery** `scripts/resume_bulk.sh`, `restart_bulk_after_block.sh`, `reconcile_bulk.py` | repair receipts | stop processes, repair leases, check, resume | all of the above |
| **K2.75 manager, worker** `scripts/k275_bulk_*.{py,sh}` | its own queue, results, publications | as the K3 ones, with other stop and failure rules | the same queue library |
| **Protected services** `scripts/run_distributed_gate.sh`, `start_bulk.sh`, `restore_protected_services.sh`, `kernel_audit.py`, `tp3k3/lifecycle.py` | stamps, restart counts, journal | stop the services for an experiment, restore them, judge the kernel's messages by their window | docker on three hosts, the journal |
| **Candidate** `scripts/start_candidate_cluster*.sh`, `guard_candidate_cluster.sh`, `stop_candidate*.sh`, `watchdog.py`, `runtime/run_candidate_node.sh` | receipts of an attempt, a container and a watchdog per rank | launch, poll, guard, stop | receipts and containers |
| **Checkpoints** `scripts/assemble_*.py`, `verify_*.py`, `seal_checkpoint.py` | an incoming and a final directory, a state directory | assemble, verify, seal, derive the mixed one by hard links | files that several directories share |
| **Upload** `integrations/huggingface/*.py` | `STATUS.json`, receipts; the repositories on the Hub | upload in batches, verify, mark; supervise; restore | the Hub, where others write too |
| **Rank packs** `scripts/build_rank_local_packs.py` | a pack and a receipt per layer, `COMPLETE.json` | pack a rank's slices, resume after a kill | read by the mixed store |
| **Loading** `runtime/tp3_full_model_patch.py`, `tp3_rank_slice_patch.py`, `pp3_all_slices_patch.py`, `lazy_k275_patch.py`, `tp3k3/geometry.py` | which tensors a process has | filter, count, place layers on processes, look experts up | the checkpoint or the packs |
| **Sparse attention** `runtime/sparse_mla_tp3_patch.py` | a call's rows and heads | pad heads, cut them in chunks, mask, combine the ranks | three ranks of a call |
| **Lazy expert store** `runtime/lazy_k3_patch.py` | slots, packs, pointer table, a shared arena | load, evict, chunk, fill | the fused kernels |
| **Quality campaign** `scripts/quality_scale_campaign.py`, `capture_matched_logits.py`, `score_matched_logits.py`, `runtime/quality_experiment_patch.py`, `tp3_logit_capture_patch.py` | a control per rank, scaled vectors, captures | sweep variants, capture and score logits, hand the endpoint over | the served ranks, with other clients |

### What is hard here

* **A crash between two file operations**: of the queue, of a publication, of a
  seal, of a pack and its receipt. Whoever comes next decides by what is there.
* **Detached processes**: a session dies, its container lives on; a script is
  killed, its trap still writes; a client dies, its request is still served.
* **Late answers**: a result after its lease was taken back, a commit whose
  answer was lost, an encoder that ends after its lease was granted again.
* **Other writers**: of the Hub between verification and marker, of the
  endpoint while a capture is armed, of a file through a hard link.
* **Failures of the cleanup**: a stop that is lost, a trap that runs twice, a
  restore that runs after half of the stop.
* **Three ranks that have to fit**: uneven rotating slices, an MTP layer outside
  the rotation, experts of two bit widths, stages of a pipeline, 22 heads in
  kernels that take 16 or 32, rows without a position on a rank.

`PROJECT.json` lists the hazards with their lines and the properties that would
notice them going wrong.

## 2. Modules

| Module | Models | Instance |
|---|---|---|
| `LayerLease` | abstract: what the queue promises of a layer | refined by `LeaseQueue` |
| `LeaseQueue` | `lease_queue.py`, one file operation per action | `MCLeaseQueue` |
| `LayerEncoder` | the file protocol of `encoder.py` and `verify_layer.py` | `MCLayerEncoder` |
| `BulkEncode` | manager, guard, workers, Sparks, resume, recovery | `MCBulkEncode` |
| `K275Bulk` | the second manager with its workers and Sparks | `MCK275Bulk` |
| `Lifecycle` | operators: windows, allowed events, the verdict | used by `ProtectedServices` |
| `ProtectedServices` | the two scripts that stop and restore the services | `MCProtectedServices` |
| `CandidateCluster` | launcher, guard, stop, watchdogs of candidate attempts | `MCCandidateCluster` |
| `Assembly` | K3 and mixed checkpoint, verification, seal | `MCAssembly` |
| `Upload` | controller, supervisor, Hub, restore | `MCUpload` |
| `LazyExpertStore` | slots, chunks and the shared arena | `MCLazyExpertStore` |
| `Geometry` | operators: widths, offsets, slices | used by the next four and by `Campaign` |
| `MixedStore` | operators: the two groups of a mixed layer and their lookup | extends `Geometry` |
| `RankPacks` | the build of rank-local packs | extends `MixedStore` |
| `WeightLoading` | what three processes load, under four placements | extends `RankPacks` |
| `SparseAttention` | a call of sparse attention on three ranks | extends `Geometry` |
| `ServedModel` | packs, loading and attention together | `MCServedModel` |
| `Campaign` | controller, captures, ranks, endpoint, other clients | `MCCampaign` |
| `LeaseQueueProofs`, `LayerEncoderProofs`, `LazyExpertStoreProofs`, `BulkEncodeProofs`, `CandidateClusterProofs`, `AssemblyProofs`, `UploadProofs`, `ServedModelProofs` | theorems | |

A definition marked `mutant` is a plausible bug that some property notices; no
specification uses it.

### How state and actions correspond to the code

**LeaseQueue.** `pending`, `leased`, `completed` map a layer to its record or
`NoFile`, `failed` is the set of receipts, `pc[c]` and `frame[c]` are the call a
coordinator is in with its local variables, `holder` is the flock. Each
`atomic_json`, `os.replace`, read and existence test is an action and `Crash`
comes between any two. `handed` is a ghost: leases returned to a caller and not
given back. `ImplementsLayerLease` shows that a library call may be regarded as
one step, which `BulkEncode` and `K275Bulk` then do.

**LayerEncoder.** `shard`, `receipt` and `ledger` are the files, named by the
build that wrote them: encoding is seeded by layer, expert, projection and rank
(`geometry.py:142-148`), so two runs of one build write the same bytes. `build` is
the code of the running encoder, `installed` the encoder file on the disk, whose
hash a receipt claims (`claims`) and a later run compares (`encoder.py:472`,
`:559`). `Sync` is a worker's rsync (`bulk_lease_worker.sh:101`), which may replace
that file under a running container; the ghost `replaced` remembers it. What a
kill leaves is what `BulkEncode` keeps of a layer: `none`, `torn` (a shard
without its receipt), `partial`, `sealed`.

**BulkEncode.** `queue`, `results`, `published`, `exits`, `disk` are durable.
`workers[n]` is the worker in node n's local session, `traps` the workers whose
session was killed and whose trap has yet to run, `jobs` the remote sessions and
containers. `at`, `todo`, `stops`, `lease` are the control host's program
counter and loop variables: the manager's loop (`top` to `grantLaunch`), its
block (`kill` to `blocked`), the guard, or the recovery (`restartKill` to
`check`). The worker's start is three steps, as it is three ssh calls: the look for
an exit code (`WorkerStart`), the look for a session (`WorkerSession`), the new
session (`WorkerLaunch`). `obstacles` is what stands in a manager's way: a kernel
event in the window the audit reads, which only a recovery renews (`Check`), and a
protected service that runs, which a recovery stops (`StopServices`).

**K275Bulk.** As above, under other names (`place`, `left`, `encoded` for `at`,
`todo`, `disk`), with what differs: a lost worker is never launched
again, a failed worker's lease goes back at once (`k275_bulk_manager.py:245`),
the stop of a node is remote before local (`:83-84`), a result is written in
place (`k275_bulk_worker.sh:116`, the content `"half"`), a publication may
be moved into an existing directory (`nested`), and a kernel event in the audit's
window (`event`) stays there: nobody renews that window
(`k275_bulk_manager.py:222-225`).

**ProtectedServices.** One `script`, `"gate"` or `"bulk"`, with its position
`place` and the hosts a loop has left in `todo`; `mark` holds the stamps and
`journal` the kernel events with the phase they really fell in, which the
property compares with what `Lifecycle` says of the stamps. An event may bear the
very time of the stamp before it, the boundary of two windows (`lifecycle.py:158`).

**CandidateCluster.** Per attempt the launcher (`pc`, `at`, `polls`), the guard,
the stop, and per rank a container and its watchdog. `toStop[a][actor]` are the
ranks whose stop an actor has under way; a stop may be lost (`lost`). Memory is
one bit per node.

**Assembly.** A file's content is what it should be, what the mixed checkpoint
should have, or rot. `own` are the names of the mixed checkpoint that are no
hard links; a write to any other name is a write to the K3 checkpoint.
`base.receipts`, `verification`, `sealed` are the records the tools decide by.

**Upload.** `remote[r]` is the head of a repository: plan, card, attributes,
files, marker. Commits are atomic and named by their parent; their answer may be
lost; somebody else may commit. `supervisor` and `code` are the supervisor and
the controller's exit.

**LazyExpertStore.** An *arena* is what the dictionaries of a store are
together: `slot[a]`, `free[a]`, `payload[a]` (whose tensors a slot holds, or
torn), `packs[a]`, `table[a]`. `ref[s]` is the arena a layer's store is bound
to. A fused call is a sequence of `Prepare` steps, `Launch` and `KernelDone`;
`GetItem` is the reference loop's access, which asks for no session: a layer that
has had one and lost the arena since looks up, and loads into, the dictionaries of
the owner (`Strays`; the ghost `strayed`). Which expert is evicted is left open.

**WeightLoading, RankPacks, SparseAttention.** A process `read`s the tensors of
the checkpoint in file order and `held` is what it keeps; `outcome[p]` says what
the census made of it. The four placements are the deployed patches. The packs
of a rank are built, and the builds killed, meanwhile; a store without
`COMPLETE.json` raises, and the processes are started again (`Relaunch`). A call of
attention is one `ForwardMqa` per rank and a combination; a result is represented by what went into it, the
head and the positions. Channels are numbers, so that the properties are about
the slices' real ends (2048 channels, 640 or 768 wide).

**Campaign.** The controller steps through variants and windows; each rank has
the control `file`, what it `loaded`, its acknowledgement and, per layer, the
`version` and in `applied` the gains really in the vectors; a job passes the
layers and collects the gains it meets. `tap` is the logit capture of rank 0: the
request it is armed for, its sink with the counter of rows, and what it sealed. A
capture's parts are the tensors it wrote, and `Normalized` is what
`normalize_scheduler_singletons` keeps of them. Only the gains of the layers up to
`LastLayer` are followed.

A module that shares a proof module with another has names of its own for `Init`,
`Next`, `Spec`, `TypeOK` (`K275Init`, `ServicesNext`, `CampaignSpec`).

## 3. Runs

Every property of a run has a mutant, with which TLC finds it violated. All
runs pass.

| Run | What it shows | Instance |
|---|---|---|
| `lease_queue` | one place per layer, no lease given twice, completed by its lease and finally, refinement of `LayerLease`, with a crash between any two file operations | 2 layers (one with a preferred node), 2 nodes, 2 coordinators, 3 leases |
| `layer_encoder` | an accepted layer is of one build if no encoder file was replaced under a run, a kill costs one expert, the layer is sealed in the end | 3 experts, 2 builds (the second fails one expert's gate), 4 starts, 2 new encoder files |
| `bulk_encode` | completed means published as the result says; neither is ever replaced | 1 layer, 2 Sparks, 4 attempts, 3 faults, any number of resumptions and recoveries |
| `bulk_encode_live` | in the manager's loop no worker without its lease, and no session but of a lease or of a completed layer; every layer completes unless `DeadEnd` | 2 layers, 2 Sparks, 3 attempts, 1 fault |
| `k275_bulk` | a worker at work holds its lease; the run completes unless `StuckForGood` | 2 layers, 1 node, gives up after 3, 4 attempts, 2 faults |
| `protected_services` | a passed run was clean and its services held; services come back | 3 hosts, 2 rotations, 1 poll, 2 mishaps, cold limit 3, observation 1 |
| `candidate_cluster` | recorded stops happened; a launch ends; a dead rank takes its group down | 1 attempt, 2 ranks, 1 poll, 2 mishaps |
| `assembly` | what is sealed was verified and is never written; the mixed checkpoint is the selection; the assembly is resumed to its seal | 1 auxiliary, 1 carried, 3 experts (two selected), 3 mishaps |
| `upload` | marked means verified; the outcome is recorded; the restore is the sealed checkpoint; the upload is resumed to its end | 2 repositories, 1 weight, 1 metadata file, batches of 1, 2 failures, 2 mishaps |
| `lazy_expert_store` | the kernel and the reference loop read their own experts unless the loop strayed; residents stay; what a failing load costs | 2 layers of 3 experts, all modes, caches of 1 or 2 slots, one failing load |
| `served_model` | every channel of every expert added once, under four placements; every head attends its positions once; a whole checkpoint is accepted | layers 25, 26, 78, 2 experts, 2 projections (one may lack), 1 kill, 1 row, 4 positions |
| `campaign` | evidence is its window's; scores belong to their control; the endpoint is handed over unscaled; an undisturbed campaign completes | layers 3 and 4, 2 chunks, 1 waiting request, 2 runs, 1 mishap |

### Why these bounds

Two layers and nodes are what a collision needs, two coordinators what a restart
or a race needs; three leases let a layer be leased, requeued, leased again
beside another. `MaxAttempts` stops granting, so it has to exceed what the
faults can cost where a run claims completion; with one fault three are enough. `MaxFaults`, `MaxMishaps`, `MaxAccidents`, `MaxKills` bound sums, so any
combination of as many happens. `bulk_encode` takes the life of one layer deep,
`bulk_encode_live` lets two layers interfere. Three experts and two slots are
the least with which a chunk is full, evicts and leaves a rest. The layers 25,
26 and 78 are the last of one pipeline stage, the first of the next and the MTP
layer outside the rotation. Two rotations let the second of the gate fail after
a clean first. One poll before a deadline is a poll that fails and one that times
out. Two attempts of a candidate are beyond TLC with everything else; the
safety half of that run is proved for any number of attempts instead.

`CHECK_DEADLOCK FALSE` is said for `assembly`, `campaign`, `candidate_cluster`,
`k275_bulk`, `protected_services`, `served_model` and `upload`: what they model
ends.

### Fairness

`LeaseQueue` has none; it claims only safety. Elsewhere processes that are alive
go on (weak fairness of each process's steps), and:

* `LayerEncoder`: the worker starts the encoder of an unsealed layer again
  (`bulk_lease_worker.sh:108-114`).
* `BulkEncode`, `K275Bulk`: a lease nobody can finish expires (the managers test
  wall time), and an operator resumes a run that is down, as the documentation
  asks. In `BulkEncode` the operator has two scripts and keeps trying both, so both
  `Resume` and `Restart` are strongly fair: a resumption refuses while a protected
  service runs and does not renew the audit window, and a restart ends at what
  `reconcile_bulk.py` refuses, which a resumption does not look at. None of slow
  leases.
* `ServedModel`: a process reads on, a build goes on and is started again, and so
  are processes one of which asked for its packs too early.
* `Upload`: the operator starts the supervisor again after it has ended.
* `Assembly`: the operator runs the next tool of the runbook; strongly fair for
  verification and seal, which rot may disable for a while.
* `CandidateCluster`: the three scripts and each stop go on; nobody has to start
  them and watchdogs promise nothing.

No fairness is assumed of faults, mishaps or other clients. The exceptions of the
liveness properties are in their comments: a repository the upload refuses
(`Blocked`), a kernel event in the window while a torn encode or an unreported
publication makes `reconcile_bulk.py` refuse (`DeadEnd` of `BulkEncode`), a result
torn in place or a kernel event in the window (`StuckForGood` of `K275Bulk`), a pack
without its receipt (`Stuck`), a temporary file left in the checkpoint and a seal that died between
its move and its receipt (`Assembly`), a mishap (`Campaign`).

### Assumptions about operators and hosts

In `BulkEncode`, `Resume` and `Restart` wait until the traps of killed workers
have run, and `Restart` until `run_encoder.sh` has reached `docker run`: seconds
against a human; a stop reaches its node; a repair and the checks of a recovery
are each one step, as nothing else of the run is alive by then.
`EncodesHaveLeases` holds with one fault only: a failed lease is requeued
(`bulk_lease_manager.py:414`, `:427`) before its encoder is stopped (`:474`), and
a control host that goes down in between and is then resumed gives a Spark a
second encoder. Even with one fault a session may outlive its lease: the worker of a
resumed run finds no exit code, then no session because the encoder has just ended,
starts a second one, reads the first one's exit code, and its layer is completed
beside that session, which reuses every shard. In `Assembly` one tool runs at a time. In `Campaign` a person
starts a failed campaign again only after the request it left behind is gone: nothing in the
code says so (`Rerun`). The seal of a capture and the removal of its arm
(`tp3_logit_capture_patch.py:132-133`) are one step there, since both precede the
answer without which the controller looks at neither.

## 4. Where the code differs from its words

Read in the code while modelling. No run shows them, and the properties are
stated so that they do not depend on them.

* `lease_queue.py:126` offers itself to "a future second coordinator without
  duplicate leasing"; without the flock `lease_next` (`:121`) recreates the file
  of a layer another one has just moved. `requeue` (`:180`) strips the record of
  its lease while it lies in `leased/`; after a crash there
  `bulk_lease_manager.py:401` and `reconcile_bulk.py:156` raise `KeyError`.
* `bulk_lease_manager.py:370` looks into the queue's directories before it takes
  the lock (`:376`): a manager that is about to be refused may create a second
  record.
* A worker killed between publication (`bulk_lease_worker.sh:156`) and result
  (`:175`) leaves a publication that `reconcile_bulk.py:195-199` refuses for ever,
  although `bulk_lease_manager.py:489` names that recovery. So does a shard
  without its receipt (`encoder.py:542`, `:592`; `verify_partial_layer.py:73-75`),
  which the recovery's own stop can leave. If a kernel event then lies in the audit's
  window, every resumed manager blocks too (`bulk_lease_manager.py:368`, `:441-447`):
  no command goes on (`DeadEnd`).
* `k275_bulk_manager.py:2` calls itself crash-resumable; its audit begins where the
  first manager began (`:222-225`), so that one kernel event blocks every later one.
* `encoder.py:472` and `:559` hash the encoder's file for every expert, not once for
  the run: after an rsync under a running container the receipts of that run name a
  build that did not write the shards, and `verify_layer.py` accepts the mixture.
* `lazy_k3_patch.py:424-453` serves a store that joined the shared arena without a
  session: after a change of owner it finds, or overwrites, the owner's experts.
* `resume_bulk.sh:19` uses a variable `service` that the script never sets.
* `k275_bulk_worker.sh:179` moves a new publication into a directory that failed
  its checks (99-121); `k275_bulk_manager.py:95-118` reads only the JSON.
* `docs/REPRODUCE.md:44` says the launcher refuses overlapping GPU workloads: two
  attempts started at once pass each other's preflight
  (`start_candidate_cluster_attempt.sh:211-213`).
* `upload_models.py:132` takes a repository for its own by its plan; files of
  another writer with the same sizes are found by their digests only if stored by
  LFS (`:250-253`, `:321-323`).
* A build of rank packs killed between a pack and its receipt is refused by every
  later one (`build_rank_local_packs.py:181`); `COMPLETE.json` names the
  checkpoint's digest, which the served process does not compare.
* A load that fails in `prepare_chunk` costs its slot; in a store whose slot had
  no pack every later fused call raises (`lazy_k3_patch.py:593`).

## 5. Proofs

TLAPS checks the following for every value of the constants, from the named
assumptions on them. Every invariant of a run is stated by a theorem, and so are
the action properties and the refinement. A proof module has one invariant that is
inductive as a whole (`IInv`, `IndInv`), and the properties follow from it; where
it covers a second module, or a property that needs more, there is another one,
named below. TLC checked each on a small instance before it was proved.

* **LeaseQueueProofs**: `TypeOK`, `OnePlace`, `OneLeasePerNode`,
  `NoDuplicateLease` (with `HandedIsDurable`), `CompletedByItsLease`,
  `CompletedIsFinal` and the refinement `ImplementsLayerLease`. `IInv` adds that
  one coordinator runs a call and holds the flock, that a leased record names its
  lease or was stripped, and for each label of a call what the files look like so
  that the next write is harmless. Writes map to stuttering, renames to the
  abstract steps.
* **LayerEncoderProofs**: `TypeOK`, `AcceptedIsOneBuild`, `ReceiptHasShard`,
  `KillCostsOneExpert`. `IInv` says that an expert under encoding is not yet valid
  and, as long as no file was replaced under a run, that a receipt claims the build
  whose bytes it describes, that the running build is the one installed, that
  collected receipts are its own and a ledger is of one build; the cost bound
  compares cardinalities and pays for a file that changes under a run like for a
  kill.
  Of `K275Bulk`: `K275TypeOK` and `WorkersHoldLeases`. `KInv` adds that no
  two workers have one lease and that a worker before its result has not written one
  (`Work`), and what holds where the manager leases, scans, launches or stops
  (`Place`): a block requeues only after its stops have gone over all nodes.
* **BulkEncodeProofs**: `TypeOK`, `CompletedIsPublished`, `PassingResultStands`,
  `PublicationIsFinal`. That a passing result stands rests on a trap testing for
  a result *before* it writes, in another step. It is safe because nobody else,
  alive or in a trap, has the lease (`Alone`); that holds because in the
  manager's loop a worker has its node's lease and traps are of completed layers
  (`Own`), because a node has one lease (`OneLease`), the loops only work on
  leases (`LoopOK`), and whoever enters the loop has killed all sessions and
  waited for their traps (`Idle`). A worker past its first test has no result
  (`Fresh`), and whoever is about to write a failure has no passing one
  (`Writes`).
  `Encodes_Have_Leases` says that `EncodesHaveLeases` holds as long as there was
  at most one fault, for any other constants; with two it is false (section 3).
  `NoneIsNoRecord` keeps `None` apart from workers and results. `LeaseInv` splits a
  run at its fault. Before it, an encoder is over before its lease has a result or
  its worker fails, no lease is launched twice, so that a worker that looks for an
  exit code and a session finds neither, and a run that is down has no lease left
  (`Calm`); so the one fault meets nothing else amiss (`OneFault`), and a sweep of
  the nodes leaves no session behind (`Sweeps`, `Requeues`). Attempts order the
  leases of a layer (`WasLeased`, `LastLease`), which tells a leftover from its
  successor.
* **CandidateClusterProofs**: `TypeOK`, `StopRecordsAreTrue`, for any number of
  attempts, also at once. What runs of a failing attempt is still to be stopped by
  its trap, unless a stop was lost (`Trapped`); a launch that has written READY
  never launches again, and a stop begins after READY (`Recorded`); so nothing
  starts a rank after a clean stop has seen them exited (`StoppedClean`).
  Of `ProtectedServices`: `ServicesTypeOK` (by `TInv`, which pays for the time of a
  step with a stage, a poll or an accident) and `PassedIsClean`, for any hosts,
  rotations, polls and accidents. `PInv` says by the stage a script has reached which stamps are set
  (`Stamped`), between which of them an event of a phase lies (`Logged`), what the
  restart counters tell of a service that died (`Services`), and that a rotation
  that counted had no bad rank (`RanksOK`); so the verdict, which looks at stamps,
  counters and the journal, says what happened (`Judged`).
* **AssemblyProofs**: `TypeOK`, `SealedIsVerified`, `MixedIsTheSelection`,
  `SealedNeverWritten`. `SealInv` says that what a passing verification read is
  what it should be or rotted since, and that then no receipt is missing, so that
  no later assembly can spoil it; `ViewInv` and `RecordInv` follow what a name of
  the mixed checkpoint reads, through its link, from step to step.
* **UploadProofs**: `TypeOK`, `RestoredIsSealed`, `OutcomeIsRecorded`,
  `MarkerIsVerified`. `MarkInv` says that the revision being marked is the one
  verified unless the head moved, in which case the commit is refused.
* **LazyExpertStoreProofs**: `TypeOK`, `KernelReadsItsExperts`,
  `ServesItsExperts`, `SelectedStayResident`, `FailureCostsOneSlot`,
  `CallsCloseMappings`. `IInv` says which arena a store is bound to, that the slot
  of a resident expert is not free and holds that expert of the arena's tenant (of
  some store, once the reference loop has strayed into the shared arena: `Content`),
  and what a chunk has gained it keeps.
  `RaisesOnlyAfterFailure` needs `OrderInv`: as long as no load has failed, slots
  are taken from the lowest up and what was taken has a pack, so the packs are
  contiguous; a chunk is no larger than the cache; a layer about to be filled is
  untouched and is filled in the order of its experts. So a call finds a free slot
  or a victim with a pack.
* **ServedModelProofs**: that the rotating slices are valid and partition the
  channels of every routed layer (`GeometryIsValid`, `ChannelsArePartitioned`),
  that two fused calls evaluate a routed expert once (`MixedEvaluatesOnce`),
  `AttendsSelectedOnce` for any rows, positions and interleaving (the KV slot that
  stands for no position is an entry of its own),
  `EachChannelOnce` for any layers, experts and file order, and for all channels
  (`EveryOnce`), and that a complete build has packed everything (`PacksWhole`).
  Of `Campaign`: `CampaignTypeOK`, `HandedOverServesIdentity`, `EvidenceIsItsWindow`
  and `ScoresBelongToTheirControl`, for any variants, windows, layers and
  interleaving of other clients. `CampaignInv` is the conjunction of four parts.
  `Serves`: a version in a rank's vectors is that of a control whose gains are there
  (`Applied`); at most one request of the one the controller waits for is in the
  endpoint (`Owned`, `Single`); while it captures, every rank's file has the gains it
  captures for (`Placed`), and a request is served with the gains of one control,
  as a rank reads its file only at the first layer (`Serving`).
  `Captured`: a row of a prompt but its first follows its predecessor in the capture
  (`Chains`, `Continues`), and the rows of the window were served under the control
  aimed at (`Clean`). `Genuine` and `Progress`: evidence is its window's rows, and
  what is scored was gathered. That the code looks at three rows only is enough: if
  the last is the window's last, the chain leads down from it to the first.

The induction over data that the last argument needs (what `Normalized` makes of a
sequence with one more part, that a chain is numbered down to its first row) does not
use the library's induction theorems, which the provers cannot instantiate: `Inductive`
in `ServedModelProofs` derives it for a set of numbers in an interval from the
pigeonhole principle, and the lemmas cite it with sets of positions.

Model-checked only: liveness, which is out of the prover's reach (fairness and
`ENABLED`). `EncodesHaveLeases` in `bulk_encode_live` is checked with the one fault
of its theorem.

## 6. Not modelled, and why

* **Replication** (`scripts/replicate_*.sh`, `repair_k275_replication.sh`): copies by
  rsync that are verified by what `CandidateCluster` tests as a receipt.
* **Speed campaign, test clients, repeated confirmation** (`speed_campaign.py`,
  `real_test_client.py`, `matched_kld.py`, `repeat_quality_confirmation.py`):
  sequential measurements whose outcome is numbers.
* **LibreChat and flash_mia integrations**: one-shot checks of a deployment.
* **Codec library**: not in the repository, only its digests are.
* Within the modelled parts: contents of tensors, progress and status files no
  decision reads, time estimates, messages. A uuid is a number drawn in order. A
  failed ssh is a fault or a mishap. The allocation of blocks inside the arena,
  legacy storage, the shadow comparison of the attention and the padding of the
  vocabulary are left out.

## 7. Plan

1. `EncodesHaveLeases` for more faults, with the order of
   `bulk_lease_manager.py:414` and `:474` as the exception.
2. Replication, as the source of the receipt that `CandidateCluster` tests.
3. A finding run for each of section 4 that a model shows already (an accepted
   mixture of builds, the reference loop of a layer without the arena).
4. The stop that does not reach its node (`restart_bulk_after_block.sh:101`) in
   `BulkEncode`.
5. The allocation inside the arena, and legacy storage, of the lazy store.

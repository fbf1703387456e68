----------------------------- MODULE LayerEncoder -----------------------------
(***************************************************************************)
(* tp3k3/encoder.py: the encoding of one routed layer on one Spark, and    *)
(* verify_layer.py, which reads the directory it leaves behind.            *)
(*                                                                         *)
(* Per expert the directory holds a shard and, written after it, a receipt *)
(* with the shard's digest; LAYER_RECEIPT.json lists all digests at the    *)
(* end.  Each file is replaced atomically, but a run may be killed between *)
(* any two of them (docker stop, the watchdog, a reboot), and a worker's   *)
(* rsync may replace the encoder's own file at any time, which the project *)
(* mounted into a running container shows.  The code of a run is the one   *)
(* it was started from; the identity it compares and writes is the hash of *)
(* the file as it is at that moment.  Encoding is deterministic: the bytes *)
(* of a shard, and their digest, are named by the build that wrote them.   *)
(***************************************************************************)
EXTENDS Integers, FiniteSets

CONSTANTS Experts,    \* expert numbers, encoded in increasing order
          Builds,     \* encoder identities: implementation, core, extension
          Good,       \* build -> the experts it encodes within the RMSE gate
          NoFile,
          MaxStarts,  \* bounds: how often the encoder is started,
          MaxSyncs    \* and its file replaced

ASSUME ExpertsAreNumbers == Experts \subseteq Nat /\ IsFiniteSet(Experts)
ASSUME GoodType == Good \in [Builds -> SUBSET Experts]
ASSUME NoFileIsNoBuild == NoFile \notin Builds
ASSUME NoFileIsNoLedger == NoFile \notin [Experts -> Builds]
ASSUME MaxStartsType == MaxStarts \in Nat /\ MaxSyncs \in Nat

VARIABLES shard,      \* experts/: expert -> the build whose bytes it holds
          receipt,    \* receipts/: expert -> its "output_sha256"
          claims,     \* and its "encoder_identity"
          ledger,     \* LAYER_RECEIPT.json: its list of digests
          at, build,  \* the running encoder: its next step, its code
          todo, got,  \* experts still to do, digests collected so far
          starts,
          installed,  \* the build whose encoder.py is on the disk
          syncs,
          replaced,   \* it was replaced under a running encoder (ghost)
          written,    \* shards written, and runs killed or overtaken by a
          killed      \* new file, since the file last changed (ghosts)

disk == <<shard, receipt, claims, ledger>>
run  == <<at, build, todo, got, starts>>
project == <<installed, syncs, replaced>>
cost == <<written, killed>>
vars == <<disk, run, project, cost>>

File == Builds \cup {NoFile}
Empty == [e \in Experts |-> NoFile]

Init ==
    /\ shard = Empty /\ receipt = Empty /\ claims = Empty /\ ledger = NoFile
    /\ at = "off" /\ build = NoFile /\ todo = {} /\ got = Empty
    /\ starts = 0 /\ installed \in Builds /\ syncs = 0 /\ replaced = FALSE
    /\ written = 0 /\ killed = 0

IsNext(e) == e \in todo /\ \A f \in todo : e <= f

(* load_receipt_if_valid: the receipt names the encoder file on the disk,  *)
(* and its digest is the shard's.  It does not ask for "passed".  (The     *)
(* definitions marked "mutant" are plausible bugs a property would notice; *)
(* no specification uses them.)                                            *)
PairOfAnyBuild(e) == shard[e] # NoFile /\ shard[e] = receipt[e]  \* mutant
ReceiptOnly(e) == claims[e] = installed   \* mutant: the shard is not hashed
NeverValid(e) == FALSE                    \* mutant: receipts are not reused
Valid(e) == claims[e] = installed /\ shard[e] # NoFile /\ shard[e] = receipt[e]

-----------------------------------------------------------------------------
Start ==
    /\ at = "off" /\ starts < MaxStarts
    /\ at' = "load" /\ build' = installed /\ todo' = Experts /\ got' = Empty
    /\ starts' = starts + 1
    /\ UNCHANGED <<disk, project, cost>>

Load(e) ==
    /\ at = "load" /\ IsNext(e)
    /\ IF Valid(e)
       THEN /\ got' = [got EXCEPT ![e] = receipt[e]]
            /\ todo' = todo \ {e}
            /\ UNCHANGED at
       ELSE at' = "encode" /\ UNCHANGED <<got, todo>>
    /\ UNCHANGED <<disk, build, starts, project, cost>>

(* The old shard, if any, is replaced before its receipt is.               *)
WriteShard(e) ==
    /\ at = "encode" /\ IsNext(e)
    /\ shard' = [shard EXCEPT ![e] = build]
    /\ at' = "receipt"
    /\ written' = written + 1
    /\ UNCHANGED <<receipt, claims, ledger, build, todo, got, starts, project, killed>>

(* The digest is of the bytes this run wrote, the identity that of the file*)
(* on the disk.                                                            *)
WriteReceipt(e) ==
    /\ at = "receipt" /\ IsNext(e)
    /\ receipt' = [receipt EXCEPT ![e] = build]
    /\ claims' = [claims EXCEPT ![e] = installed]
    /\ got' = [got EXCEPT ![e] = build]
    /\ todo' = todo \ {e}
    /\ at' = "load"
    /\ UNCHANGED <<shard, ledger, build, starts, project, cost>>

(* seal_layer, from the receipts this run has collected.                   *)
Seal ==
    /\ at = "load" /\ todo = {}
    /\ ledger' = got
    /\ at' = "off"
    /\ UNCHANGED <<shard, receipt, claims, build, todo, got, starts, project, cost>>

(* The process dies or an expert raises; one more start is to come.        *)
Kill ==
    /\ at # "off" /\ starts < MaxStarts
    /\ at' = "off" /\ killed' = killed + 1
    /\ UNCHANGED <<disk, build, todo, got, starts, project, written>>

(* A worker's rsync brings another build of encoder.py, under a running    *)
(* encoder too: nothing stops the container an earlier control host left.  *)
Sync(b) ==
    /\ syncs < MaxSyncs /\ b # installed
    /\ installed' = b /\ syncs' = syncs + 1
    /\ replaced' = (replaced \/ at # "off")
    /\ written' = 0 /\ killed' = IF at = "off" THEN 0 ELSE 1
    /\ UNCHANGED <<disk, run>>

Encode == Seal \/ \E e \in Experts : Load(e) \/ WriteShard(e) \/ WriteReceipt(e)

(* After the last start and seal nothing happens.                          *)
Idle == at = "off" /\ starts = MaxStarts /\ UNCHANGED vars

Next == Start \/ Encode \/ Kill \/ (\E b \in Builds : Sync(b)) \/ Idle

Spec == Init /\ [][Next]_vars

Sealed == ledger # NoFile /\ shard = ledger /\ receipt = ledger

(* A worker starts the encoder of an unsealed layer again.                 *)
Restart == ~Sealed /\ Start

LiveSpec == Spec /\ WF_vars(Encode) /\ WF_vars(Restart)

-----------------------------------------------------------------------------
(* verify_layer.py: every receipt passed, every shard has the digest of    *)
(* its receipt and of the layer receipt.                                   *)
Passed(e) == receipt[e] # NoFile /\ e \in Good[receipt[e]]

VerifyLayer ==
    /\ ledger # NoFile
    /\ \A e \in Experts :
        Passed(e) /\ shard[e] = receipt[e] /\ shard[e] = ledger[e]

-----------------------------------------------------------------------------
(* Properties                                                              *)

TypeOK ==
    /\ shard \in [Experts -> File] /\ receipt \in [Experts -> File]
    /\ claims \in [Experts -> File] /\ installed \in Builds
    /\ syncs \in 0..MaxSyncs /\ replaced \in BOOLEAN
    /\ ledger \in [Experts -> Builds] \cup {NoFile}
    /\ at \in {"off", "load", "encode", "receipt"}
    /\ build \in File /\ (at # "off" => build \in Builds)
    /\ todo \subseteq Experts /\ got \in [Experts -> File]
    /\ starts \in 0..MaxStarts /\ written \in Nat /\ killed \in Nat

(* As long as encoder.py was not replaced under a running encoder, a layer *)
(* that verify_layer.py accepts was encoded by one build: a run of a newer *)
(* encoder that was killed among the shards of an older one never passes,  *)
(* although verify_layer.py does not read the encoder's identity.  (Once   *)
(* the file was replaced under a run the receipts of that run name the new *)
(* file over bytes of the old code, and such a layer can be accepted.)     *)
AcceptedIsOneBuild ==
    VerifyLayer /\ ~replaced => \E b \in Builds : \A e \in Experts : shard[e] = b

(* A receipt is never on disk without its shard.                           *)
ReceiptHasShard == \A e \in Experts : receipt[e] # NoFile => shard[e] # NoFile

(* "Never restart completed matrices": as long as the file stays the same, *)
(* a killed run costs at most the one expert it was working on; so does the*)
(* change of the file to the run it overtakes.                             *)
KillCostsOneExpert == written <= Cardinality(Experts) + killed

(* A layer whose encoder is started again after every kill gets sealed     *)
(* over files that match its layer receipt.                                *)
SealsEventually == <>[]Sealed
=============================================================================

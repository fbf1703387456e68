-------------------------------- MODULE Upload --------------------------------
(***************************************************************************)
(* The publication of the sealed checkpoints on the Hugging Face Hub:      *)
(* upload_models.py, one controller at a time (run_upload.sh takes         *)
(* controller.lock), started and watched by supervise_upload.py, and       *)
(* restore_checkpoint.py on a machine that downloads one.                  *)
(*                                                                         *)
(* A file's content is "good" (the bytes of the sealed manifest) or "bad"  *)
(* (other bytes of the same size).  Each commit on the Hub is atomic; its  *)
(* answer may be lost.  "mutant" marks a plausible bug a property would    *)
(* notice.                                                                 *)
(***************************************************************************)
EXTENDS Naturals, FiniteSets

CONSTANTS
  LastRepo,         \* SPECS: repositories 1..LastRepo, uploaded in this order
  Weights,          \* payload files the Hub stores by LFS
  Metadata,         \* payload files it stores as Git blobs
  MaxBatch,         \* files of one commit (64 in the code)
  MaxFailures,      \* transient failures of one batch (5)
  MaxMishaps        \* bound: failures, kills, rotten files, foreign commits

ASSUME UploadAssumption ==
  /\ LastRepo \in Nat \ {0} /\ MaxBatch \in Nat \ {0} /\ MaxFailures \in Nat \ {0}
  /\ MaxMishaps \in Nat /\ Weights \cap Metadata = {}

Repos == 1 .. LastRepo
Files == Weights \cup Metadata
Content == {"none", "good", "bad"}

VARIABLES
  source,      \* source[r][f]: the sealed checkpoint on the NAS
  remote,      \* remote[r]: the head of the repository on the Hub
  at, repo,    \* where the controller is, and in which repository
  pending,     \* payload files it still has to commit
  batch,       \* those of the commit under way
  failures,    \* transient failures of this batch
  seen,        \* the revision verify_remote reads
  moved,       \* the head has moved since
  receipts,    \* repositories with a local <key>-COMPLETE.json
  status,      \* phase of STATUS.json
  code,        \* how the last controller ended
  supervisor,  \* "off", "watching" or "ended"
  copy,        \* a downloaded snapshot, or what is left of it
  restoring, restored,
  mishaps

controller == <<at, repo, pending, batch, failures, seen>>
records == <<receipts, status>>
restore == <<copy, restoring, restored>>
vars == <<source, remote, controller, moved, records, code, supervisor, restore, mishaps>>

\* plan: whose UPLOAD_PLAN.json the repository has; card: the README; rules:
\* what .gitattributes says, "path" for a rule the Hub has added.
Remote == [plan : {"absent", "bare", "ours", "foreign"}, card : {"none", "ours", "foreign"},
           rules : SUBSET {"base", "path", "other"}, files : [Files -> Content],
           marker : BOOLEAN]
Empty == [plan |-> "absent", card |-> "none", rules |-> {},
          files |-> [f \in Files |-> "none"], marker |-> FALSE]
Phases == {"none", "preparing", "uploading", "rate_limit_wait", "retry_wait",
           "payload_committed", "verifying_remote", "stopped_disk_guard", "failed",
           "complete"}

TypeOK ==
  /\ source \in [Repos -> [Files -> {"good", "bad"}]] /\ remote \in [Repos -> Remote]
  /\ at \in {"down", "prepare", "initialize", "roots", "list", "batch", "commit",
             "read", "verify", "mark"}
  /\ repo \in Repos /\ batch \subseteq pending /\ pending \subseteq Files
  /\ Cardinality(batch) <= MaxBatch
  /\ failures \in 0 .. MaxFailures /\ seen \in Remote /\ moved \in BOOLEAN
  /\ receipts \subseteq Repos /\ status \in Phases
  /\ code \in {"none", "ok", "error", "killed"}
  /\ supervisor \in {"off", "watching", "ended"}
  /\ copy \in Remote /\ restoring \in {"no", "copying", "done", "refused"}
  /\ restored \in [Files -> Content] /\ mishaps \in 0 .. MaxMishaps

Init ==
  /\ source = [r \in Repos |-> [f \in Files |-> "good"]]
  /\ remote \in [Repos -> {Empty, [Empty EXCEPT !.plan = "foreign", !.card = "foreign"]}]
  /\ at = "down" /\ repo = 1 /\ pending = {} /\ batch = {} /\ failures = 0
  /\ seen = Empty /\ moved = FALSE /\ receipts = {} /\ status = "none" /\ code = "none"
  /\ supervisor = "off" /\ mishaps = 0
  /\ copy = Empty /\ restoring = "no" /\ restored = [f \in Files |-> "none"]

Mishap == mishaps < MaxMishaps /\ mishaps' = mishaps + 1
Goto(label) == at' = label /\ UNCHANGED <<repo, pending, batch, failures, seen>>
\* A commit on the Hub: the head of r is new.
Commit(r, new) == remote' = [remote EXCEPT ![r] = new] /\ moved' = TRUE

-----------------------------------------------------------------------------
(* The controller ends *)

\* An exception: status('failed'), exit code 1.
Raise == /\ at' = "down" /\ pending' = {} /\ batch' = {} /\ failures' = 0
         /\ UNCHANGED <<repo, seen, receipts>>
         /\ status' = "failed" /\ code' = "error"

\* Out of memory, or the disk guard, whose status another thread may overwrite.
Kill ==
  /\ at # "down" /\ Mishap
  /\ at' = "down" /\ pending' = {} /\ batch' = {} /\ failures' = 0
  /\ status' \in {status, "stopped_disk_guard"} /\ code' = "killed"
  /\ UNCHANGED <<source, remote, repo, seen, moved, receipts, supervisor, restore>>

\* Any call of the Hub may raise; the commits say so themselves.
CallFails ==
  /\ at \in {"prepare", "initialize", "list", "read", "verify"} /\ Mishap /\ Raise
  /\ UNCHANGED <<source, remote, moved, supervisor, restore>>

-----------------------------------------------------------------------------
(* upload_models.py *)

\* Every source is checked and staged as symbolic links before anything is
\* written: sizes of all files, hashes of the metadata only.
PrepareFails == \E r \in Repos, f \in Metadata : source[r][f] = "bad"
Prepare ==
  /\ at = "prepare"
  /\ \/ ~PrepareFails /\ at' = "initialize" /\ repo' = 1 /\ status' = "preparing"
        /\ UNCHANGED <<pending, batch, failures, seen, receipts, code>>
     \/ PrepareFails /\ Raise
  /\ UNCHANGED <<source, remote, moved, supervisor, restore, mishaps>>

AlwaysForeign(r) == FALSE                    \* mutant: an existing one is refused
Ours(r) == remote[r].plan = "ours"
Initialize ==
  /\ at = "initialize"
  /\ CASE remote[repo].plan = "absent" ->
            /\ Commit(repo, [Empty EXCEPT !.plan = "bare"])
            /\ Goto("roots") /\ UNCHANGED <<records, code>>
       [] Ours(repo) ->
            Goto("roots") /\ UNCHANGED <<remote, moved, records, code>>
       [] OTHER -> Raise /\ UNCHANGED <<remote, moved>>
  /\ UNCHANGED <<source, supervisor, restore, mishaps>>

\* The six publication files, .gitattributes with the rule for safetensors.
CommitRoots ==
  LET with == [remote[repo] EXCEPT !.plan = "ours", !.card = "ours", !.rules = {"base"}]
  IN
  /\ at = "roots"
  /\ \/ /\ Commit(repo, with) /\ UNCHANGED <<records, code, mishaps>>
        /\ IF repo < LastRepo
             THEN at' = "initialize" /\ repo' = repo + 1
             ELSE at' = "list" /\ repo' = 1
        /\ UNCHANGED <<pending, batch, failures, seen>>
     \/ /\ Mishap /\ Raise
        /\ \/ Commit(repo, with)
           \/ UNCHANGED <<remote, moved>>
  /\ UNCHANGED <<source, supervisor, restore>>

\* What identifies a file of the Hub: LFS names the hash of the content, to be
\* that of the manifest; a Git blob is compared with the staged file.
Identical(r, f, c) == IF f \in Weights THEN c = "good" ELSE c = source[r][f]

\* upload_bounded resumes from what the server has.
List ==
  LET there == {f \in Files : remote[repo].files[f] # "none"} IN
  /\ at = "list"
  /\ \/ /\ \A f \in there : Identical(repo, f, remote[repo].files[f])
        /\ pending' = Files \ there /\ at' = "batch" /\ status' = "uploading"
        /\ UNCHANGED <<repo, batch, failures, seen, receipts, code>>
     \/ /\ \E f \in there : ~Identical(repo, f, remote[repo].files[f])
        /\ Raise
  /\ UNCHANGED <<source, remote, moved, supervisor, restore, mishaps>>

\* bounded_batches; the pacing before it only waits.
Bounded(b) == Cardinality(b) \in 1 .. MaxBatch
NextBatch ==
  /\ at = "batch"
  /\ \/ /\ pending # {} /\ at' = "commit" /\ failures' = 0 /\ status' = "uploading"
        /\ batch' \in {b \in SUBSET pending : Bounded(b)}
        /\ UNCHANGED <<repo, pending, seen>>
     \/ pending = {} /\ Goto("read") /\ status' = "verifying_remote"
  /\ UNCHANGED <<source, remote, moved, receipts, code, supervisor, restore, mishaps>>

\* The batch becomes the head's; the Hub may add rules for metadata.
Uploaded(r) ==
  \E rules \in {remote[r].rules} \cup
               IF batch \cap Metadata = {} THEN {} ELSE {remote[r].rules \cup {"path"}} :
    Commit(r, [remote[r] EXCEPT !.rules = rules,
                 !.files = [f \in Files |-> IF f \in batch THEN source[r][f] ELSE @[f]]])

CommitBatch ==
  /\ at = "commit" /\ Uploaded(repo)
  /\ pending' = pending \ batch /\ batch' = {} /\ at' = "batch"
  /\ UNCHANGED <<source, repo, failures, seen, records, code, supervisor, restore, mishaps>>

\* A commit that raises may have been made.  429 waits without a limit; other
\* transient errors have MaxFailures tries; a permanent one raises.
GiveUp == failures + 1 >= MaxFailures
CommitFails ==
  /\ at = "commit" /\ Mishap
  /\ Uploaded(repo) \/ UNCHANGED <<remote, moved>>
  /\ \/ /\ status' = "rate_limit_wait"
        /\ UNCHANGED <<at, repo, pending, batch, failures, seen, receipts, code>>
     \/ /\ ~GiveUp /\ failures' = failures + 1 /\ status' = "retry_wait"
        /\ UNCHANGED <<at, repo, pending, batch, seen, receipts, code>>
     \/ Raise
  /\ UNCHANGED <<source, supervisor, restore>>

ReadHead ==
  /\ at = "read"
  /\ at' = "verify" /\ seen' = remote[repo] /\ moved' = FALSE
  /\ UNCHANGED <<source, remote, repo, pending, batch, failures, records, code, supervisor,
                 restore, mishaps>>

\* verify_remote, on the revision it has read; the receipt is written first.
Verified(r) ==
  /\ seen.plan = "ours" /\ seen.card = "ours"
  /\ "base" \in seen.rules /\ "other" \notin seen.rules
  /\ \A f \in Files : seen.files[f] # "none" /\ Identical(r, f, seen.files[f])
Verify ==
  /\ at = "verify"
  /\ \/ Verified(repo) /\ receipts' = receipts \cup {repo} /\ Goto("mark")
        /\ UNCHANGED <<status, code>>
     \/ ~Verified(repo) /\ Raise
  /\ UNCHANGED <<source, remote, moved, supervisor, restore, mishaps>>

\* UPLOAD_COMPLETE.json, with the verified revision as parent_commit.
AnyParent == TRUE                            \* mutant: no parent_commit
ParentIsHead == ~moved
Mark ==
  LET with == [remote[repo] EXCEPT !.marker = TRUE] IN
  /\ at = "mark"
  /\ \/ /\ ParentIsHead /\ Commit(repo, with) /\ UNCHANGED mishaps
        /\ IF repo < LastRepo
             THEN /\ at' = "list" /\ repo' = repo + 1 /\ status' = "uploading"
                  /\ UNCHANGED code
             ELSE /\ at' = "down" /\ status' = "complete" /\ code' = "ok"
                  /\ UNCHANGED repo
        /\ UNCHANGED <<pending, batch, failures, seen, receipts>>
     \/ ~ParentIsHead /\ Raise /\ UNCHANGED <<remote, moved, mishaps>>
     \/ /\ ParentIsHead /\ Mishap /\ Raise
        /\ Commit(repo, with) \/ UNCHANGED <<remote, moved>>
  /\ UNCHANGED <<source, supervisor, restore>>

-----------------------------------------------------------------------------
(* supervise_upload.py *)

\* An operator starts it when no controller is active and the upload is not
\* complete; another one's lock is then free.
StartSupervisor ==
  /\ supervisor # "watching" /\ at = "down" /\ status # "complete"
  /\ supervisor' = "watching" /\ at' = "prepare" /\ code' = "none"
  /\ repo' = 1 /\ pending' = {} /\ batch' = {} /\ failures' = 0 /\ status' = "preparing"
  /\ UNCHANGED <<source, remote, seen, moved, receipts, restore, mishaps>>

\* The child has ended: anything but success and "complete" is a failure.
RaisedOnly == code = "error"                 \* mutant: a killed child is not noticed
EndedBadly == code # "ok" \/ status # "complete"
Supervise ==
  /\ supervisor = "watching" /\ at = "down"
  /\ supervisor' = "ended" /\ status' = IF EndedBadly THEN "failed" ELSE status
  /\ UNCHANGED <<source, remote, controller, moved, receipts, code, restore, mishaps>>

SupervisorDies ==
  /\ supervisor = "watching" /\ Mishap /\ supervisor' = "off"
  /\ UNCHANGED <<source, remote, controller, moved, records, code, restore>>

-----------------------------------------------------------------------------
(* The others: the NAS, the owner of the repository, a reader *)

Rot(r, f) ==
  /\ source[r][f] = "good" /\ Mishap /\ source' = [source EXCEPT ![r][f] = "bad"]
  /\ UNCHANGED <<remote, controller, moved, records, code, supervisor, restore>>

\* Someone edits the card, the attributes or a file on the Hub.
ForeignCommit(r) ==
  /\ remote[r].plan = "ours" /\ Mishap
  /\ \E new \in {[remote[r] EXCEPT !.card = "foreign"],
                 [remote[r] EXCEPT !.rules = @ \cup {"other"}]}
          \cup {[remote[r] EXCEPT !.files[f] = "bad"] : f \in Files} : Commit(r, new)
  /\ UNCHANGED <<source, controller, records, code, supervisor, restore>>

\* hf download of the head, complete or not, damaged or not.
Download(r) ==
  /\ restoring = "no" /\ copy = Empty /\ remote[r].marker
  /\ \/ copy' = remote[r] /\ UNCHANGED mishaps
     \/ \E f \in Files, c \in {"none", "bad"} :
          Mishap /\ copy' = [remote[r] EXCEPT !.files[f] = c]
  /\ UNCHANGED <<source, remote, controller, moved, records, code, supervisor, restoring,
                 restored>>

\* restore_checkpoint.py --verify: everything is checked before the first link.
CompleteOnly(f) == copy.files[f] # "none"    \* mutant: --verify is forgotten
Intact(f) == copy.files[f] = "good"
Restore ==
  /\ restoring = "no" /\ copy.marker
  /\ restoring' = IF \A f \in Files : Intact(f) THEN "copying" ELSE "refused"
  /\ UNCHANGED <<source, remote, controller, moved, records, code, supervisor, copy,
                 restored, mishaps>>

Link(f) ==
  /\ restoring = "copying" /\ restored[f] = "none"
  /\ restored' = [restored EXCEPT ![f] = copy.files[f]]
  /\ restoring' = IF \A g \in Files \ {f} : restored[g] # "none" THEN "done" ELSE "copying"
  /\ UNCHANGED <<source, remote, controller, moved, records, code, supervisor, copy, mishaps>>

-----------------------------------------------------------------------------
Controller ==
  \/ Prepare \/ Initialize \/ CommitRoots \/ List \/ NextBatch \/ CommitBatch
  \/ ReadHead \/ Verify \/ Mark

Next ==
  \/ Controller \/ CommitFails \/ CallFails \/ Kill
  \/ StartSupervisor \/ Supervise \/ SupervisorDies
  \/ \E r \in Repos : ForeignCommit(r) \/ Download(r) \/ \E f \in Files : Rot(r, f)
  \/ Restore \/ \E f \in Files : Link(f)

Spec == Init /\ [][Next]_vars

\* The controller and its supervisor run on, and the operator starts a failed
\* upload again.
FairSpec == Spec /\ WF_vars(Controller) /\ WF_vars(Supervise) /\ WF_vars(StartSupervisor)

-----------------------------------------------------------------------------
(* Properties *)

\* A completion marker is only put on a head that has our card and every file,
\* the weights as the manifest has them: what was verified is what is marked,
\* whoever commits in between.
MarkerIsVerified ==
  [][\A r \in Repos : (remote'[r].marker /\ ~remote[r].marker) =>
       /\ remote[r].card = "ours" /\ "other" \notin remote[r].rules
       /\ \A f \in Weights : remote[r].files[f] = "good"
       /\ \A f \in Metadata : remote[r].files[f] # "none"]_vars

\* When the supervisor has returned, STATUS.json tells how the upload ended,
\* and "complete" means that every repository is marked.
OutcomeIsRecorded ==
  supervisor = "ended" =>
    /\ at = "down" /\ status \in {"complete", "failed"}
    /\ status = "complete" => \A r \in Repos : remote[r].marker /\ r \in receipts

\* What an upload does not get over: a repository that is not this upload's, or
\* was created without its plan, and a file with wrong bytes.
Blocked ==
  \E r \in Repos : \/ at = "down" /\ remote[r].plan \in {"bare", "foreign"}
                   \/ \E f \in Files : source[r][f] = "bad" \/ remote[r].files[f] = "bad"

\* An upload that fails or is killed, and is started again, resumes from what
\* the Hub has and ends complete, unless it is blocked.
ResumesToCompletion == <>(status = "complete" \/ Blocked)

\* What restore_checkpoint.py --verify restores is the sealed checkpoint.
RestoredIsSealed == restoring = "done" => \A f \in Files : restored[f] = "good"
=============================================================================

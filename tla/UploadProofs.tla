----------------------------- MODULE UploadProofs -----------------------------
(***************************************************************************)
(* Proofs about Upload, for any number of repositories and files, batch    *)
(* sizes and mishaps: the types, that what is marked complete was verified *)
(* and is still the head, that the supervisor's last word is true, and     *)
(* that a restored checkpoint is the sealed one.                           *)
(***************************************************************************)
EXTENDS Upload, FiniteSetTheorems, TLAPS

-----------------------------------------------------------------------------
(* Types                                                                   *)

LEMMA EmptyIsRemote == Empty \in Remote
BY DEF Empty, Remote, Content

\* What a commit may make of a repository is a repository.
LEMMA EditsAreRemote ==
  ASSUME NEW h \in Remote
  PROVE  /\ [h EXCEPT !.plan = "ours", !.card = "ours", !.rules = {"base"}] \in Remote
         /\ [h EXCEPT !.marker = TRUE] \in Remote
         /\ [h EXCEPT !.card = "foreign"] \in Remote
         /\ [h EXCEPT !.rules = h.rules \cup {"other"}] \in Remote
         /\ \A f \in Files, c \in Content : [h EXCEPT !.files[f] = c] \in Remote
         /\ \A rules \in SUBSET {"base", "path", "other"} : \A files \in [Files -> Content] :
              [h EXCEPT !.rules = rules, !.files = files] \in Remote
         /\ h.rules \subseteq {"base", "path", "other"} /\ h.files \in [Files -> Content]
         /\ h.marker \in BOOLEAN
BY DEF Remote, Content

LEMMA BareIsRemote ==
  /\ [Empty EXCEPT !.plan = "bare"] \in Remote
  /\ [Empty EXCEPT !.plan = "foreign", !.card = "foreign"] \in Remote
BY DEF Empty, Remote, Content

LEMMA InitiallyTyped == Init => TypeOK
<1> SUFFICES ASSUME Init PROVE TypeOK
  OBVIOUS
<1>1. remote \in [Repos -> Remote]
  BY EmptyIsRemote, BareIsRemote DEF Init
<1>2. Cardinality(batch) <= MaxBatch
  BY UploadAssumption, FS_EmptySet DEF Init
<1>3. repo \in Repos /\ failures \in 0 .. MaxFailures /\ mishaps \in 0 .. MaxMishaps
  BY UploadAssumption DEF Init, Repos
<1> QED
  BY <1>1, <1>2, <1>3, EmptyIsRemote DEF Init, TypeOK, Phases, Content

LEMMA CommitTyped ==
  ASSUME TypeOK, NEW r \in Repos, NEW new \in Remote, Commit(r, new)
  PROVE  remote' \in [Repos -> Remote] /\ moved' \in BOOLEAN
BY DEF TypeOK, Commit

LEMMA UploadedTyped ==
  ASSUME TypeOK, NEW r \in Repos, Uploaded(r)
  PROVE  remote' \in [Repos -> Remote] /\ moved' \in BOOLEAN
<1>1. PICK rules \in {remote[r].rules} \cup
             IF batch \cap Metadata = {} THEN {} ELSE {remote[r].rules \cup {"path"}} :
        Commit(r, [remote[r] EXCEPT !.rules = rules,
                 !.files = [f \in Files |-> IF f \in batch THEN source[r][f] ELSE remote[r].files[f]]])
  BY DEF Uploaded
<1> DEFINE files == [f \in Files |-> IF f \in batch THEN source[r][f] ELSE remote[r].files[f]]
<1>2. remote[r] \in Remote
  BY DEF TypeOK
<1>3. rules \in SUBSET {"base", "path", "other"}
  BY <1>2, EditsAreRemote
<1>4. files \in [Files -> Content]
  <2>1. remote[r].files \in [Files -> Content]
    BY <1>2, EditsAreRemote
  <2>2. source[r] \in [Files -> {"good", "bad"}]
    BY DEF TypeOK
  <2> QED  BY <2>1, <2>2 DEF Content
<1> HIDE DEF files
<1>5. [remote[r] EXCEPT !.rules = rules, !.files = files] \in Remote
  BY <1>2, <1>3, <1>4, EditsAreRemote
<1> QED
  BY <1>1, <1>5, CommitTyped DEF files

LEMMA RaiseTyped ==
  ASSUME TypeOK, Raise
  PROVE  /\ at' = "down" /\ pending' = {} /\ batch' = {} /\ failures' \in 0 .. MaxFailures
         /\ batch' \subseteq pending' /\ pending' \subseteq Files /\ Cardinality(batch') <= MaxBatch
         /\ repo' = repo /\ seen' = seen /\ receipts' = receipts
         /\ status' \in Phases /\ code' \in {"none", "ok", "error", "killed"}
BY UploadAssumption, FS_EmptySet DEF Raise, Phases

LEMMA MishapTyped == ASSUME TypeOK, Mishap PROVE mishaps' \in 0 .. MaxMishaps
BY UploadAssumption DEF Mishap, TypeOK

\* Between two batches none is under way.
NoBatch == at # "commit" => batch = {}

LEMMA ControllerTyped == ASSUME TypeOK, NoBatch, Controller PROVE TypeOK'
<1> USE DEF TypeOK
<1>a. remote[repo] \in Remote /\ Cardinality({}) <= MaxBatch /\ 1 \in Repos
  BY UploadAssumption, FS_EmptySet DEF Repos
<1>1. CASE Prepare
  BY <1>1, <1>a, RaiseTyped DEF Prepare, restore, Phases
<1>2. CASE Initialize
  <2>1. CASE remote[repo].plan = "absent"
    BY <1>2, <2>1, BareIsRemote, CommitTyped DEF Initialize, Goto, records, restore
  <2>2. CASE remote[repo].plan # "absent"
    BY <1>2, <2>2, RaiseTyped DEF Initialize, Goto, records, restore
  <2> QED  BY <2>1, <2>2
<1>3. CASE CommitRoots
  <2> DEFINE with == [remote[repo] EXCEPT !.plan = "ours", !.card = "ours", !.rules = {"base"}]
  <2>1. with \in Remote
    BY <1>a, EditsAreRemote
  <2>2. \/ /\ Commit(repo, with) /\ UNCHANGED <<records, code, mishaps>>
           /\ IF repo < LastRepo
                THEN at' = "initialize" /\ repo' = repo + 1
                ELSE at' = "list" /\ repo' = 1
           /\ UNCHANGED <<pending, batch, failures, seen>>
        \/ Mishap /\ Raise /\ (Commit(repo, with) \/ UNCHANGED <<remote, moved>>)
    BY <1>3 DEF CommitRoots
  <2>3. UNCHANGED <<source, supervisor, restore>>
    BY <1>3 DEF CommitRoots
  <2> HIDE DEF with
  <2>4. remote' \in [Repos -> Remote] /\ moved' \in BOOLEAN
    BY <2>1, <2>2, CommitTyped
  <2>5. CASE /\ UNCHANGED <<records, code, mishaps>>
             /\ IF repo < LastRepo
                  THEN at' = "initialize" /\ repo' = repo + 1
                  ELSE at' = "list" /\ repo' = 1
             /\ UNCHANGED <<pending, batch, failures, seen>>
    <3>1. repo' \in Repos
      BY <2>5, UploadAssumption DEF Repos
    <3> QED  BY <2>3, <2>4, <2>5, <3>1 DEF records, restore
  <2>6. CASE Mishap /\ Raise
    BY <2>3, <2>4, <2>6, RaiseTyped, MishapTyped DEF restore
  <2> QED  BY <2>2, <2>5, <2>6
<1>4. CASE List
  <2>1. UNCHANGED <<source, remote, moved, supervisor, restore, mishaps>>
    BY <1>4 DEF List
  <2>2. CASE Raise
    BY <2>1, <2>2, RaiseTyped DEF restore
  <2>3. CASE ~Raise
    <3>1. /\ pending' = Files \ {f \in Files : remote[repo].files[f] # "none"} /\ at' = "batch"
          /\ status' = "uploading" /\ UNCHANGED <<repo, batch, failures, seen, receipts, code>>
      BY <1>4, <2>3 DEF List
    <3>2. batch' \subseteq pending'
      BY <1>4, <3>1 DEF List, NoBatch
    <3> QED  BY <2>1, <3>1, <3>2 DEF restore, Phases
  <2> QED  BY <2>2, <2>3
<1>5. CASE NextBatch
  <2>1. CASE at' = "commit"
    <3>1. PICK b \in SUBSET pending : batch' = b /\ Bounded(b)
      BY <1>5, <2>1 DEF NextBatch, Goto
    <3>2. Cardinality(batch') <= MaxBatch
      BY <3>1, UploadAssumption DEF Bounded
    <3> QED  BY <1>5, <2>1, <3>1, <3>2, UploadAssumption DEF NextBatch, Goto, restore, Phases
  <2>2. CASE at' # "commit"
    BY <1>5, <2>2 DEF NextBatch, Goto, restore, Phases
  <2> QED  BY <2>1, <2>2
<1>6. CASE CommitBatch
  BY <1>6, <1>a, UploadedTyped DEF CommitBatch, records, restore
<1>7. CASE ReadHead
  BY <1>7, <1>a DEF ReadHead, records, restore
<1>8. CASE Verify
  BY <1>8, RaiseTyped DEF Verify, Goto, restore
<1>9. CASE Mark
  <2> DEFINE with == [remote[repo] EXCEPT !.marker = TRUE]
  <2>1. with \in Remote
    BY <1>a, EditsAreRemote
  <2>2. \/ /\ Commit(repo, with) /\ UNCHANGED mishaps
           /\ IF repo < LastRepo
                THEN /\ at' = "list" /\ repo' = repo + 1 /\ status' = "uploading"
                     /\ UNCHANGED code
                ELSE /\ at' = "down" /\ status' = "complete" /\ code' = "ok"
                     /\ UNCHANGED repo
           /\ UNCHANGED <<pending, batch, failures, seen, receipts>>
        \/ Raise /\ UNCHANGED <<remote, moved, mishaps>>
        \/ Mishap /\ Raise /\ (Commit(repo, with) \/ UNCHANGED <<remote, moved>>)
    BY <1>9 DEF Mark
  <2>3. UNCHANGED <<source, supervisor, restore>>
    BY <1>9 DEF Mark
  <2> HIDE DEF with
  <2>4. remote' \in [Repos -> Remote] /\ moved' \in BOOLEAN
    BY <2>1, <2>2, CommitTyped
  <2>5. CASE /\ UNCHANGED mishaps
             /\ IF repo < LastRepo
                  THEN /\ at' = "list" /\ repo' = repo + 1 /\ status' = "uploading"
                       /\ UNCHANGED code
                  ELSE /\ at' = "down" /\ status' = "complete" /\ code' = "ok"
                       /\ UNCHANGED repo
             /\ UNCHANGED <<pending, batch, failures, seen, receipts>>
    <3>1. repo' \in Repos
      BY <2>5, UploadAssumption DEF Repos
    <3>2. at' \in {"list", "down"} /\ status' \in Phases /\ code' \in {"none", "ok", "error", "killed"}
      BY <2>5 DEF Phases
    <3> QED  BY <2>3, <2>4, <2>5, <3>1, <3>2 DEF restore
  <2>6. CASE Raise /\ mishaps' \in 0 .. MaxMishaps
    BY <2>3, <2>4, <2>6, RaiseTyped DEF restore
  <2> QED  BY <2>2, <2>5, <2>6, MishapTyped
<1> QED
  BY <1>1, <1>2, <1>3, <1>4, <1>5, <1>6, <1>7, <1>8, <1>9 DEF Controller

LEMMA FaultTyped == ASSUME TypeOK, CommitFails \/ CallFails \/ Kill PROVE TypeOK'
<1> USE DEF TypeOK
<1>1. CASE CommitFails
  <2>1. remote' \in [Repos -> Remote] /\ moved' \in BOOLEAN
    BY <1>1, UploadedTyped DEF CommitFails
  <2>2. mishaps' \in 0 .. MaxMishaps /\ UNCHANGED <<source, supervisor, restore>>
    BY <1>1, MishapTyped DEF CommitFails
  <2>3. CASE Raise
    BY <2>1, <2>2, <2>3, RaiseTyped DEF restore
  <2>4. CASE ~Raise
    <3>1. /\ UNCHANGED <<at, repo, pending, batch, seen, receipts, code>>
          /\ status' \in Phases /\ failures' \in {failures, failures + 1}
          /\ failures' = failures + 1 => ~GiveUp
      BY <1>1, <2>4 DEF CommitFails, Phases
    <3>2. failures' \in 0 .. MaxFailures
      BY <3>1, UploadAssumption DEF GiveUp
    <3> QED  BY <2>1, <2>2, <3>1, <3>2 DEF restore
  <2> QED  BY <2>3, <2>4
<1>2. CASE CallFails
  BY <1>2, RaiseTyped, MishapTyped DEF CallFails, restore
<1>3. CASE Kill
  BY <1>3, MishapTyped, UploadAssumption, FS_EmptySet DEF Kill, restore, Phases
<1> QED
  BY <1>1, <1>2, <1>3

LEMMA SupervisorTyped ==
  ASSUME TypeOK, StartSupervisor \/ Supervise \/ SupervisorDies PROVE TypeOK'
<1> USE DEF TypeOK
<1>1. CASE StartSupervisor
  BY <1>1, UploadAssumption, FS_EmptySet DEF StartSupervisor, restore, Phases, Repos
<1>2. CASE Supervise
  BY <1>2 DEF Supervise, controller, restore, Phases
<1>3. CASE SupervisorDies
  BY <1>3, MishapTyped DEF SupervisorDies, controller, records, restore
<1> QED
  BY <1>1, <1>2, <1>3

LEMMA OthersTyped ==
  ASSUME TypeOK, NEW r \in Repos,
         \/ ForeignCommit(r) \/ Download(r) \/ Restore
         \/ \E f \in Files : Rot(r, f) \/ Link(f)
  PROVE  TypeOK'
<1> USE DEF TypeOK
<1>a. remote[r] \in Remote
  OBVIOUS
<1>1. CASE ForeignCommit(r)
  <2>1. PICK new \in {[remote[r] EXCEPT !.card = "foreign"],
                      [remote[r] EXCEPT !.rules = remote[r].rules \cup {"other"}]}
               \cup {[remote[r] EXCEPT !.files[g] = "bad"] : g \in Files} : Commit(r, new)
    BY <1>1 DEF ForeignCommit
  <2>2. new \in Remote
    <3>1. /\ [remote[r] EXCEPT !.card = "foreign"] \in Remote
          /\ [remote[r] EXCEPT !.rules = remote[r].rules \cup {"other"}] \in Remote
          /\ \A g \in Files : [remote[r] EXCEPT !.files[g] = "bad"] \in Remote
      BY <1>a, EditsAreRemote DEF Content
    <3> QED  BY <2>1, <3>1
  <2> QED  BY <1>1, <2>1, <2>2, CommitTyped, MishapTyped
             DEF ForeignCommit, controller, records, restore
<1>2. CASE Download(r)
  <2>1. \A g \in Files, c \in {"none", "bad"} : [remote[r] EXCEPT !.files[g] = c] \in Remote
    BY <1>a, EditsAreRemote DEF Content
  <2>2. copy' \in Remote /\ mishaps' \in 0 .. MaxMishaps
    BY <1>2, <1>a, <2>1, MishapTyped DEF Download
  <2> QED  BY <1>2, <2>2 DEF Download, controller, records
<1>3. ASSUME NEW f \in Files, Rot(r, f) PROVE TypeOK'
  BY <1>3, MishapTyped DEF Rot, controller, records, restore
<1>4. CASE Restore
  BY <1>4 DEF Restore, controller, records
<1>5. ASSUME NEW f \in Files, Link(f) PROVE TypeOK'
  <2>1. copy.files[f] \in Content
    BY EditsAreRemote
  <2> QED  BY <1>5, <2>1 DEF Link, controller, records
<1> QED
  BY <1>1, <1>2, <1>3, <1>4, <1>5

LEMMA NoBatchStep == ASSUME NoBatch, [Next]_vars PROVE NoBatch'
<1> USE DEF NoBatch
<1>1. CASE Controller
  BY <1>1 DEF Controller, Prepare, Initialize, CommitRoots, List, NextBatch, CommitBatch,
              ReadHead, Verify, Mark, Goto, Raise
<1>2. CASE CommitFails \/ CallFails \/ Kill
  BY <1>2 DEF CommitFails, CallFails, Kill, Raise
<1>3. CASE StartSupervisor \/ Supervise \/ SupervisorDies
  BY <1>3 DEF StartSupervisor, Supervise, SupervisorDies, controller
<1>4. ASSUME NEW r \in Repos, NEW f \in Files, Rot(r, f) PROVE NoBatch'
  BY <1>4 DEF Rot, controller
<1>8. ASSUME NEW f \in Files, Link(f) PROVE NoBatch'
  BY <1>8 DEF Link, controller
<1>5. CASE UNCHANGED vars
  BY <1>5 DEF vars, controller
<1>6. ASSUME NEW r \in Repos, ForeignCommit(r) \/ Download(r) PROVE NoBatch'
  BY <1>6 DEF ForeignCommit, Download, controller
<1>7. CASE Restore
  BY <1>7 DEF Restore, controller
<1> QED
  BY <1>1, <1>2, <1>3, <1>4, <1>5, <1>6, <1>7, <1>8 DEF Next

LEMMA TypesStep == ASSUME TypeOK, NoBatch, [Next]_vars PROVE TypeOK'
<1>1. ASSUME UNCHANGED vars PROVE TypeOK'
  <2>1. /\ UNCHANGED <<source, remote, at, repo, pending, batch, failures, seen, moved>>
        /\ UNCHANGED <<receipts, status, code, supervisor, copy, restoring, restored, mishaps>>
    BY <1>1 DEF vars, controller, records, restore
  <2> QED  BY <2>1 DEF TypeOK
<1>2. 1 \in Repos
  BY UploadAssumption DEF Repos
<1>3. CASE Controller \/ CommitFails \/ CallFails \/ Kill
  BY <1>3, ControllerTyped, FaultTyped
<1>4. CASE StartSupervisor \/ Supervise \/ SupervisorDies
  BY <1>4, SupervisorTyped
<1>5. CASE \/ \E r \in Repos : ForeignCommit(r) \/ Download(r) \/ \E f \in Files : Rot(r, f)
           \/ Restore \/ \E f \in Files : Link(f)
  BY <1>2, <1>5, OthersTyped
<1> QED
  BY <1>1, <1>3, <1>4, <1>5 DEF Next

-----------------------------------------------------------------------------
(* What is restored                                                        *)

RestoreInv ==
  /\ restoring \in {"copying", "done"} => \A f \in Files : copy.files[f] = "good"
  /\ \A f \in Files : restored[f] \in {"none", "good"}
  /\ restoring = "done" => \A f \in Files : restored[f] # "none"

LEMMA RestoreStep == ASSUME TypeOK, RestoreInv, [Next]_vars PROVE RestoreInv'
<1> USE DEF RestoreInv
<1>1. ASSUME UNCHANGED restore PROVE RestoreInv'
  BY <1>1 DEF restore
<1>2. ASSUME NEW r \in Repos, Download(r) PROVE RestoreInv'
  BY <1>2 DEF Download
<1>3. CASE Restore
  BY <1>3 DEF Restore, Intact
<1>4. ASSUME NEW f \in Files, Link(f) PROVE RestoreInv'
  <2>1. copy' = copy /\ restored' = [restored EXCEPT ![f] = copy.files[f]] /\ copy.files[f] = "good"
    BY <1>4 DEF Link
  <2>2. \A g \in Files : restored'[g] = IF g = f THEN "good" ELSE restored[g]
    BY <2>1 DEF TypeOK
  <2>3. restoring' = IF \A g \in Files \ {f} : restored[g] # "none" THEN "done" ELSE "copying"
    BY <1>4 DEF Link
  <2> QED  BY <1>4, <2>1, <2>2, <2>3 DEF Link
<1>5. CASE Controller
  BY <1>1, <1>5 DEF Controller, Prepare, Initialize, CommitRoots, List, NextBatch, CommitBatch,
                    ReadHead, Verify, Mark
<1>6. CASE CommitFails \/ CallFails \/ Kill \/ StartSupervisor \/ Supervise \/ SupervisorDies
  BY <1>1, <1>6 DEF CommitFails, CallFails, Kill, StartSupervisor, Supervise, SupervisorDies
<1>7. ASSUME NEW r \in Repos, ForeignCommit(r) \/ \E f \in Files : Rot(r, f) PROVE RestoreInv'
  BY <1>1, <1>7 DEF ForeignCommit, Rot
<1>8. CASE UNCHANGED vars
  BY <1>1, <1>8 DEF vars
<1> QED
  BY <1>2, <1>3, <1>4, <1>5, <1>6, <1>7, <1>8 DEF Next

-----------------------------------------------------------------------------
(* What is marked                                                          *)

\* The controller marks the revision it has verified, unless the head has moved.
Card(head) ==
  /\ head.card = "ours" /\ "other" \notin head.rules
  /\ \A f \in Weights : head.files[f] = "good"
  /\ \A f \in Metadata : head.files[f] # "none"
MarkInv ==
  /\ at \in {"verify", "mark"} /\ ~moved => seen = remote[repo]
  /\ at = "mark" => Card(seen) /\ repo \in receipts

\* A commit moves the head.
LEMMA HeadMoves == ASSUME [Next]_vars PROVE moved' = TRUE \/ (remote' = remote /\ (moved' = moved \/ at = "read"))
<1>1. CASE Controller
  BY <1>1 DEF Controller, Prepare, Initialize, CommitRoots, List, NextBatch, CommitBatch,
              ReadHead, Verify, Mark, Commit, Uploaded
<1>2. CASE CommitFails \/ CallFails \/ Kill \/ StartSupervisor \/ Supervise \/ SupervisorDies
  BY <1>2 DEF CommitFails, CallFails, Kill, StartSupervisor, Supervise, SupervisorDies, Commit, Uploaded
<1>3. ASSUME NEW r \in Repos, ForeignCommit(r) \/ Download(r) \/ \E f \in Files : Rot(r, f)
      PROVE  moved' = TRUE \/ (remote' = remote /\ moved' = moved)
  BY <1>3 DEF ForeignCommit, Download, Rot, Commit
<1>4. CASE Restore \/ \E f \in Files : Link(f)
  BY <1>4 DEF Restore, Link
<1>5. CASE UNCHANGED vars
  BY <1>5 DEF vars
<1> QED
  BY <1>1, <1>2, <1>3, <1>4, <1>5 DEF Next

\* The controller's variables change by its own steps and the start of it only.
LEMMA ControllerIsAlone ==
  ASSUME [Next]_vars
  PROVE  \/ Controller \/ CommitFails \/ CallFails \/ Kill \/ StartSupervisor
         \/ UNCHANGED <<controller, receipts>>
BY DEF Next, Supervise, SupervisorDies, ForeignCommit, Download, Rot, Restore, Link, vars, records

LEMMA MarkStep == ASSUME MarkInv, [Next]_vars PROVE MarkInv'
<1> USE DEF MarkInv
<1>1. CASE UNCHANGED <<controller, receipts>>
  <2>1. UNCHANGED <<at, repo, seen, receipts>>
    BY <1>1 DEF controller
  <2>2. Card(seen)' = Card(seen)
    BY <2>1 DEF Card
  <2> QED  BY <2>1, <2>2, HeadMoves
<1>2. CASE ReadHead
  BY <1>2 DEF ReadHead
<1>3. CASE Verify
  <2>1. CASE at' = "mark"
    <3>1. /\ Verified(repo) /\ receipts' = receipts \cup {repo} /\ at = "verify"
          /\ UNCHANGED <<repo, seen, remote, moved>>
      BY <1>3, <2>1 DEF Verify, Goto, Raise
    <3>2. Card(seen)
      BY <3>1 DEF Verified, Card, Identical, Files
    <3>3. Card(seen)'
      BY <3>1, <3>2 DEF Card
    <3> QED  BY <2>1, <3>1, <3>3
  <2>2. CASE at' # "mark"
    BY <1>3, <2>2 DEF Verify, Goto, Raise
  <2> QED  BY <2>1, <2>2
<1>4. ASSUME at' \notin {"verify", "mark"} PROVE MarkInv'
  BY <1>4
<1>5. CASE Controller
  BY <1>2, <1>3, <1>4, <1>5 DEF Controller, Prepare, Initialize, CommitRoots, List, NextBatch,
                                CommitBatch, Mark, Goto, Raise
<1>6. CASE CommitFails \/ CallFails \/ Kill \/ StartSupervisor
  BY <1>4, <1>6 DEF CommitFails, CallFails, Kill, StartSupervisor, Raise
<1> QED
  BY <1>1, <1>5, <1>6, ControllerIsAlone

\* The only step that sets a marker, and where.
LEMMA OnlyMark ==
  ASSUME TypeOK, [Next]_vars, NEW r \in Repos, remote'[r].marker, ~remote[r].marker
  PROVE  at = "mark" /\ ~moved /\ r = repo
<1> USE DEF TypeOK
<1>1. ASSUME remote' = remote PROVE FALSE
  BY <1>1
<1>2. ASSUME NEW q \in Repos, NEW new, Commit(q, new), ~new.marker PROVE FALSE
  BY <1>2 DEF Commit
<1>3. ASSUME NEW q \in Repos, NEW new, Commit(q, new), new.marker = remote[q].marker PROVE FALSE
  BY <1>3 DEF Commit
<1>4. \A q \in Repos : remote[q] \in Remote
  OBVIOUS
<1>5. ASSUME NEW q \in Repos, Uploaded(q) PROVE FALSE
  <2>1. PICK rules, files : Commit(q, [remote[q] EXCEPT !.rules = rules, !.files = files])
    BY <1>5 DEF Uploaded
  <2>2. [remote[q] EXCEPT !.rules = rules, !.files = files].marker = remote[q].marker
    BY <1>4 DEF Remote
  <2> QED  BY <1>3, <2>1, <2>2
<1>6. CASE Initialize
  <2>1. ~[Empty EXCEPT !.plan = "bare"].marker
    BY DEF Empty
  <2> QED  BY <1>1, <1>2, <1>6, <2>1 DEF Initialize
<1>7. CASE CommitRoots
  <2> DEFINE with == [remote[repo] EXCEPT !.plan = "ours", !.card = "ours", !.rules = {"base"}]
  <2>1. with.marker = remote[repo].marker
    BY <1>4 DEF Remote
  <2>2. Commit(repo, with) \/ UNCHANGED <<remote, moved>>
    BY <1>7 DEF CommitRoots
  <2> QED  BY <1>1, <1>3, <2>1, <2>2
<1>8. CASE Mark
  <2> DEFINE with == [remote[repo] EXCEPT !.marker = TRUE]
  <2>1. remote' = remote \/ (~moved /\ Commit(repo, with))
    BY <1>8 DEF Mark, ParentIsHead
  <2>2. r = repo
    BY <1>1, <2>1 DEF Commit
  <2> QED  BY <1>1, <1>8, <2>1, <2>2 DEF Mark
<1>9. CASE Prepare \/ List \/ NextBatch \/ CommitBatch \/ ReadHead \/ Verify
  BY <1>1, <1>5, <1>9 DEF Prepare, List, NextBatch, CommitBatch, ReadHead, Verify
<1>10. CASE CommitFails \/ CallFails \/ Kill \/ StartSupervisor \/ Supervise \/ SupervisorDies
  BY <1>1, <1>5, <1>10 DEF CommitFails, CallFails, Kill, StartSupervisor, Supervise, SupervisorDies
<1>11. ASSUME NEW q \in Repos, ForeignCommit(q) PROVE FALSE
  <2>1. PICK new \in {[remote[q] EXCEPT !.card = "foreign"],
                      [remote[q] EXCEPT !.rules = remote[q].rules \cup {"other"}]}
               \cup {[remote[q] EXCEPT !.files[g] = "bad"] : g \in Files} : Commit(q, new)
    BY <1>11 DEF ForeignCommit
  <2>2. new.marker = remote[q].marker
    BY <1>4, <2>1 DEF Remote
  <2> QED  BY <1>3, <2>1, <2>2
<1>12. ASSUME NEW q \in Repos, Download(q) \/ \E f \in Files : Rot(q, f) PROVE FALSE
  BY <1>1, <1>12 DEF Download, Rot
<1>13. CASE Restore \/ \E f \in Files : Link(f)
  BY <1>1, <1>13 DEF Restore, Link
<1>14. CASE UNCHANGED vars
  BY <1>1, <1>14 DEF vars
<1> QED
  BY <1>6, <1>7, <1>8, <1>9, <1>10, <1>11, <1>12, <1>13, <1>14 DEF Next, Controller

\* No step but the creation of a repository unsets a marker.
LEMMA MarkersStay ==
  ASSUME TypeOK, [Next]_vars, at # "initialize", NEW r \in Repos, remote[r].marker
  PROVE  remote'[r].marker
<1> USE DEF TypeOK
<1>1. ASSUME remote' = remote PROVE remote'[r].marker
  BY <1>1
<1>2. ASSUME NEW q \in Repos, NEW new, Commit(q, new), new.marker = remote[q].marker \/ new.marker = TRUE
      PROVE  remote'[r].marker
  BY <1>2 DEF Commit
<1>3. \A q \in Repos : remote[q] \in Remote
  OBVIOUS
<1>4. ASSUME NEW q \in Repos, Uploaded(q) PROVE remote'[r].marker
  <2>1. PICK rules, files : Commit(q, [remote[q] EXCEPT !.rules = rules, !.files = files])
    BY <1>4 DEF Uploaded
  <2>2. [remote[q] EXCEPT !.rules = rules, !.files = files].marker = remote[q].marker
    BY <1>3 DEF Remote
  <2> QED  BY <1>2, <2>1, <2>2
<1>5. CASE CommitRoots
  <2> DEFINE with == [remote[repo] EXCEPT !.plan = "ours", !.card = "ours", !.rules = {"base"}]
  <2>1. with.marker = remote[repo].marker
    BY <1>3 DEF Remote
  <2>2. Commit(repo, with) \/ UNCHANGED <<remote, moved>>
    BY <1>5 DEF CommitRoots
  <2> QED  BY <1>1, <1>2, <2>1, <2>2
<1>6. CASE Mark
  <2> DEFINE with == [remote[repo] EXCEPT !.marker = TRUE]
  <2>1. with.marker = TRUE
    BY <1>3 DEF Remote
  <2>2. Commit(repo, with) \/ remote' = remote
    BY <1>6 DEF Mark
  <2> QED  BY <1>1, <1>2, <2>1, <2>2
<1>7. CASE Prepare \/ Initialize \/ List \/ NextBatch \/ CommitBatch \/ ReadHead \/ Verify
  BY <1>1, <1>4, <1>7 DEF Prepare, Initialize, List, NextBatch, CommitBatch, ReadHead, Verify
<1>8. CASE CommitFails \/ CallFails \/ Kill \/ StartSupervisor \/ Supervise \/ SupervisorDies
  BY <1>1, <1>4, <1>8 DEF CommitFails, CallFails, Kill, StartSupervisor, Supervise, SupervisorDies
<1>9. ASSUME NEW q \in Repos, ForeignCommit(q) PROVE remote'[r].marker
  <2>1. PICK new \in {[remote[q] EXCEPT !.card = "foreign"],
                      [remote[q] EXCEPT !.rules = remote[q].rules \cup {"other"}]}
               \cup {[remote[q] EXCEPT !.files[g] = "bad"] : g \in Files} : Commit(q, new)
    BY <1>9 DEF ForeignCommit
  <2>2. new.marker = remote[q].marker
    BY <1>3, <2>1 DEF Remote
  <2> QED  BY <1>2, <2>1, <2>2
<1>10. ASSUME NEW q \in Repos, Download(q) \/ \E f \in Files : Rot(q, f) PROVE remote'[r].marker
  BY <1>1, <1>10 DEF Download, Rot
<1>11. CASE Restore \/ \E f \in Files : Link(f)
  BY <1>1, <1>11 DEF Restore, Link
<1>12. CASE UNCHANGED vars
  BY <1>1, <1>12 DEF vars
<1> QED
  BY <1>5, <1>6, <1>7, <1>8, <1>9, <1>10, <1>11, <1>12 DEF Next, Controller

-----------------------------------------------------------------------------
(* How an upload ends                                                      *)

\* The repositories before the one under way are marked, and all of them are
\* when the status says so.
Done(r) == remote[r].marker /\ r \in receipts
OutcomeInv ==
  /\ at \in {"list", "batch", "commit", "read", "verify", "mark"} => \A r \in Repos : r < repo => Done(r)
  /\ status = "complete" => at = "down" /\ \A r \in Repos : Done(r)
  /\ supervisor = "ended" => at = "down" /\ status \in {"complete", "failed"}

LEMMA OutcomeStep == ASSUME TypeOK, MarkInv, OutcomeInv, [Next]_vars PROVE OutcomeInv'
<1> USE DEF OutcomeInv
<1>0. receipts \subseteq receipts'
  BY DEF Next, Controller, Prepare, Initialize, CommitRoots, List, NextBatch, CommitBatch, ReadHead,
         Verify, Mark, CommitFails, CallFails, Kill, StartSupervisor, Supervise, SupervisorDies,
         ForeignCommit, Download, Rot, Restore, Link, vars, records, Goto, Raise
<1>1. ASSUME NEW r \in Repos, Done(r), at # "initialize" PROVE Done(r)'
  <2>1. remote'[r].marker
    BY <1>1, MarkersStay DEF Done
  <2> QED  BY <1>0, <1>1, <2>1 DEF Done
\* A step that keeps the label, the repository and the status, or ends badly.
<1>2. ASSUME UNCHANGED <<at, repo, status>>, supervisor' \in {supervisor, "off"} PROVE OutcomeInv'
  BY <1>1, <1>2
<1>3. ASSUME at' = "down", status' # "complete", status' = "failed" \/ supervisor' # "ended"
      PROVE  OutcomeInv'
  BY <1>3
<1>4. ASSUME at # "down", supervisor' = supervisor PROVE supervisor' # "ended" /\ status # "complete"
  BY <1>4
<1>5. CASE Prepare
  BY <1>3, <1>4, <1>5 DEF Prepare, Raise, restore
<1>6. CASE Initialize
  BY <1>3, <1>4, <1>6 DEF Initialize, Raise, Goto, restore, records
<1>7. CASE CommitRoots
  <2>1. at = "roots" /\ supervisor' = supervisor
    BY <1>7 DEF CommitRoots
  <2>2. supervisor' # "ended" /\ status # "complete"
    BY <2>1, <1>4
  <2>3. CASE Raise
    BY <1>3, <2>3 DEF Raise
  <2>4. CASE ~Raise
    <3>1. status' = status /\ (at' = "initialize" \/ (at' = "list" /\ repo' = 1))
      BY <1>7, <2>4 DEF CommitRoots, records
    <3>2. \A r \in Repos : ~(r < 1)
      BY DEF Repos
    <3> QED  BY <2>2, <3>1, <3>2
  <2> QED  BY <2>3, <2>4
<1>8. ASSUME at \in {"list", "batch", "commit", "read", "verify"}, repo' = repo, status' # "complete",
             supervisor' = supervisor
      PROVE  OutcomeInv'
  BY <1>1, <1>4, <1>8
<1>9. CASE List \/ NextBatch \/ CommitBatch \/ ReadHead \/ Verify
  <2>1. at \in {"list", "batch", "commit", "read", "verify"} /\ repo' = repo /\ supervisor' = supervisor
    BY <1>9 DEF List, NextBatch, CommitBatch, ReadHead, Verify, Raise, Goto
  <2>2. status' # "complete"
    <3>1. status' \in {"failed", "uploading", "verifying_remote", status}
      BY <1>9 DEF List, NextBatch, CommitBatch, ReadHead, Verify, Raise, Goto, records
    <3> QED  BY <1>4, <2>1, <3>1
  <2> QED  BY <1>8, <2>1, <2>2
<1>10. CASE Mark
  <2>1. at = "mark" /\ supervisor' = supervisor
    BY <1>10 DEF Mark
  <2>2. supervisor' # "ended" /\ status # "complete"
    BY <2>1, <1>4
  <2>3. CASE Raise
    BY <1>3, <2>3 DEF Raise
  <2>4. CASE ~Raise
    <3>1. /\ Commit(repo, [remote[repo] EXCEPT !.marker = TRUE]) /\ receipts' = receipts
          /\ IF repo < LastRepo
               THEN /\ at' = "list" /\ repo' = repo + 1 /\ status' = "uploading"
               ELSE /\ at' = "down" /\ status' = "complete"
      BY <1>10, <2>4 DEF Mark
    <3>2. remote[repo] \in Remote /\ repo \in Repos /\ remote \in [Repos -> Remote]
      BY DEF TypeOK
    <3>3. remote'[repo].marker
      BY <3>1, <3>2 DEF Commit, Remote
    <3>4. repo \in receipts'
      BY <2>1, <3>1 DEF MarkInv
    <3>5. ASSUME NEW r \in Repos, r <= repo PROVE Done(r)'
      <4>1. CASE r = repo
        BY <3>3, <3>4, <4>1 DEF Done
      <4>2. CASE r # repo
        <5>1. r < repo
          BY <3>2, <3>5, <4>2 DEF Repos
        <5> QED  BY <1>1, <2>1, <5>1
      <4> QED  BY <4>1, <4>2
    <3>6. CASE repo < LastRepo
      <4>1. at' = "list" /\ repo' = repo + 1 /\ status' = "uploading"
        BY <3>1, <3>6
      <4>2. \A r \in Repos : r < repo' => r <= repo
        BY <3>2, <4>1 DEF Repos
      <4> QED  BY <2>2, <3>5, <4>1, <4>2
    <3>7. CASE ~(repo < LastRepo)
      <4>1. at' = "down" /\ status' = "complete"
        BY <3>1, <3>7
      <4>2. \A r \in Repos : r <= repo
        BY <3>2, <3>7, UploadAssumption DEF Repos
      <4> QED  BY <2>2, <3>5, <4>1, <4>2
    <3> QED  BY <3>6, <3>7
  <2> QED  BY <2>3, <2>4
<1>11. CASE CommitFails \/ CallFails \/ Kill
  <2>1. at # "down" /\ supervisor' = supervisor /\ repo' = repo
    BY <1>11 DEF CommitFails, CallFails, Kill, Raise
  <2>2. CASE Raise
    BY <1>3, <2>2 DEF Raise
  <2>3. CASE Kill
    <3>1. at' = "down" /\ status' \in {status, "stopped_disk_guard"}
      BY <2>3 DEF Kill
    <3> QED  BY <1>3, <1>4, <2>1, <3>1
  <2>4. CASE CommitFails /\ ~Raise
    <3>1. at = "commit" /\ status' \in {"rate_limit_wait", "retry_wait"}
      BY <2>4 DEF CommitFails
    <3> QED  BY <1>8, <2>1, <3>1
  <2> QED  BY <1>11, <2>2, <2>3, <2>4 DEF CallFails
<1>12. CASE StartSupervisor
  BY <1>12 DEF StartSupervisor
<1>13. CASE Supervise
  BY <1>1, <1>13 DEF Supervise, EndedBadly, controller
<1>14. CASE SupervisorDies
  BY <1>2, <1>14 DEF SupervisorDies, controller, records
<1>15. ASSUME NEW r \in Repos, ForeignCommit(r) \/ Download(r) \/ \E f \in Files : Rot(r, f)
       PROVE  OutcomeInv'
  BY <1>2, <1>15 DEF ForeignCommit, Download, Rot, controller, records
<1>16. CASE Restore \/ \E f \in Files : Link(f)
  BY <1>2, <1>16 DEF Restore, Link, controller, records
<1>17. CASE UNCHANGED vars
  BY <1>2, <1>17 DEF vars, controller, records
<1> QED
  BY <1>5, <1>6, <1>7, <1>9, <1>10, <1>11, <1>12, <1>13, <1>14, <1>15, <1>16, <1>17 DEF Next, Controller

-----------------------------------------------------------------------------
(* The theorems                                                            *)

IndInv == TypeOK /\ NoBatch /\ RestoreInv /\ MarkInv /\ OutcomeInv

LEMMA InitiallyInd == Init => IndInv
<1> SUFFICES ASSUME Init PROVE IndInv
  OBVIOUS
<1>1. RestoreInv /\ MarkInv /\ OutcomeInv /\ NoBatch
  BY DEF Init, RestoreInv, MarkInv, OutcomeInv, NoBatch
<1> QED
  BY <1>1, InitiallyTyped DEF IndInv

LEMMA IndStep == IndInv /\ [Next]_vars => IndInv'
BY TypesStep, NoBatchStep, RestoreStep, MarkStep, OutcomeStep DEF IndInv

LEMMA IndAlways == Spec => []IndInv
BY InitiallyInd, IndStep, PTL DEF Spec

\* The values of the state: TypeOK.
THEOREM Types == Spec => []TypeOK
<1>1. IndInv => TypeOK
  BY DEF IndInv
<1> QED
  BY <1>1, IndAlways, PTL

\* restore_checkpoint.py --verify restores the sealed checkpoint: RestoredIsSealed.
THEOREM Restored == Spec => []RestoredIsSealed
<1>1. IndInv => RestoredIsSealed
  BY DEF IndInv, RestoreInv, RestoredIsSealed
<1> QED
  BY <1>1, IndAlways, PTL

\* The supervisor's last word on an upload is true: OutcomeIsRecorded.
THEOREM Recorded == Spec => []OutcomeIsRecorded
<1>1. IndInv => OutcomeIsRecorded
  BY DEF IndInv, OutcomeInv, OutcomeIsRecorded, Done
<1> QED
  BY <1>1, IndAlways, PTL

\* What is marked complete is what was verified: MarkerIsVerified.
THEOREM Marked == Spec => MarkerIsVerified
<1>1. IndInv /\ [Next]_vars =>
        [\A r \in Repos : (remote'[r].marker /\ ~remote[r].marker) =>
           /\ remote[r].card = "ours" /\ "other" \notin remote[r].rules
           /\ \A f \in Weights : remote[r].files[f] = "good"
           /\ \A f \in Metadata : remote[r].files[f] # "none"]_vars
  <2> SUFFICES ASSUME IndInv, [Next]_vars, NEW r \in Repos, remote'[r].marker, ~remote[r].marker
               PROVE  Card(remote[r])
    BY DEF Card
  <2>1. at = "mark" /\ ~moved /\ r = repo
    BY OnlyMark DEF IndInv
  <2>2. Card(seen) /\ seen = remote[r]
    BY <2>1 DEF IndInv, MarkInv
  <2> QED  BY <2>2 DEF Card
<1> QED
  BY <1>1, IndAlways, PTL DEF Spec, MarkerIsVerified
=============================================================================

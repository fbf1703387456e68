------------------------------- MODULE Assembly -------------------------------
(***************************************************************************)
(* The checkpoints on the NAS: assemble_checkpoint.py builds the K3        *)
(* checkpoint from the official source and the layer archive,              *)
(* verify_checkpoint.py and seal_checkpoint.py promote it, and             *)
(* assemble_k275.py derives the mixed K2/K3 checkpoint from it by hard     *)
(* links.  One tool runs at a time (the operator's runbook); it may be     *)
(* killed between any two file operations and is started again.            *)
(*                                                                         *)
(* Contents: "base" is what the K3 checkpoint should hold, "mixed" what    *)
(* the K2/K3 one holds where it differs, "rot" other bytes of that size.   *)
(* A digest is the content it was taken of.  Files of one kind are         *)
(* processed in any order.  "mutant" marks a plausible bug.                *)
(***************************************************************************)
EXTENDS Naturals, FiniteSets

CONSTANTS
  Auxiliary,     \* tokenizer and configuration files, copied
  Carried,       \* BF16 passthrough shards, rewritten tensor by tensor
  Experts,       \* expert shards of the layer archive
  Selected,      \* the experts that the K2.75 selection turns to two bits
  Generated,     \* metadata written by the assemblers (one file stands for all)
  MaxMishaps     \* bound: kills, exceptions and rotten files

Source == Auxiliary \cup Carried
Copied == Source \cup Experts
Payload == Copied \cup {Generated}
Records == {"MANIFEST.json", "SHA256SUMS", "ASSEMBLY_COMPLETE.json"}
Names == Payload \cup Records

ASSUME AssemblyAssumption ==
  /\ Selected \subseteq Experts /\ MaxMishaps \in Nat
  /\ Auxiliary \cap (Carried \cup Experts) = {} /\ Carried \cap Experts = {}
  /\ Generated \notin Copied /\ Records \cap Payload = {}

Content == {"none", "base", "mixed", "rot"}
Mixed(f) == f \in Selected \/ f = Generated

VARIABLES
  origin, archive, k2,  \* the inputs: official source, layer archive, K2 layers
  audited,              \* archive-verification.json says passed
  place,                \* where the K3 checkpoint is: "absent", "incoming", "final"
  base,                 \* its files
  litter,               \* a temporary file of a killed tool is left in it
  receipts,             \* passthrough receipts in the state directory
  verification,         \* checkpoint-verification.json
  sealed,               \* checkpoint-seal.json is written
  stage,                \* where the K2/K3 checkpoint is: "absent", "staging", "final"
  own,                  \* names of it that are not hard links into the K3 one
  mixed,                \* the content behind those
  at, todo, output,     \* the running tool: label, files left, output_files
  rotted,               \* K3 files that rotted since they were last verified
  mishaps

inputs == <<origin, archive, k2, audited>>
checkpoint == <<place, base, litter, receipts>>
derived == <<stage, own, mixed>>
tool == <<at, todo, output>>
vars == <<inputs, checkpoint, verification, sealed, derived, tool, rotted, mishaps>>

Digests == [Payload -> Content]
Unwritten == [f \in Payload |-> "none"]
\* MANIFEST.json and SHA256SUMS are the digests they list; the marker holds the
\* digests of both and the path it was written for.
Directory == [files : Digests, manifest : Digests, ledger : Digests,
              marker : [manifest : Digests, ledger : Digests,
                        home : {"none", "incoming", "final", "k275"}]]
NoMarker == [manifest |-> Unwritten, ledger |-> Unwritten, home |-> "none"]
Nothing == [files |-> Unwritten, manifest |-> Unwritten, ledger |-> Unwritten,
            marker |-> NoMarker]

TypeOK ==
  /\ origin \in [Source -> {"base", "rot"}] /\ archive \in [Experts -> {"base", "rot"}]
  /\ k2 \in [Selected -> {"mixed", "rot"}] /\ audited \in BOOLEAN
  /\ place \in {"absent", "incoming", "final"} /\ base \in Directory
  /\ litter \in BOOLEAN /\ receipts \in [Carried -> {"none", "base"}]
  /\ verification \in {"none", "passed", "failed"} /\ sealed \in BOOLEAN
  /\ stage \in {"absent", "staging", "final"} /\ own \subseteq Names /\ mixed \in Directory
  /\ at \in {"down", "auxiliary", "carried", "receipt", "experts", "generated", "manifest",
             "ledger", "marker", "seal", "move", "record", "link", "replace",
             "k275 ledger", "k275 manifest", "k275 marker", "publish"}
  /\ todo \subseteq Copied /\ output \in Digests
  /\ rotted \subseteq Payload /\ mishaps \in 0 .. MaxMishaps
  /\ sealed => place = "final"

Init ==
  /\ origin = [f \in Source |-> "base"] /\ archive = [e \in Experts |-> "base"]
  /\ k2 = [e \in Selected |-> "mixed"] /\ audited = FALSE
  /\ place = "absent" /\ base = Nothing /\ litter = FALSE
  /\ receipts = [c \in Carried |-> "none"] /\ verification = "none" /\ sealed = FALSE
  /\ stage = "absent" /\ own = {} /\ mixed = Nothing
  /\ at = "down" /\ todo = {} /\ output = Unwritten /\ rotted = {} /\ mishaps = 0

Mishap == mishaps < MaxMishaps /\ mishaps' = mishaps + 1
Goto(label, files) == at' = label /\ todo' = files
End == Goto("down", {})
Derives == at \in {"link", "replace", "k275 ledger", "k275 manifest", "k275 marker",
                   "publish"}

-----------------------------------------------------------------------------
(* assemble_checkpoint.py *)

\* verify_layer_archive.py: every archived shard against its layer's ledger.
AuditArchive ==
  /\ at = "down" /\ ~audited /\ \A e \in Experts : archive[e] = "base"
  /\ audited' = TRUE
  /\ UNCHANGED <<origin, archive, k2, checkpoint, verification, sealed, derived, tool,
                 rotted, mishaps>>

Assemble ==
  /\ at = "down" /\ audited /\ place # "final"
  /\ place' = "incoming" /\ Goto("auxiliary", Auxiliary) /\ output' = Unwritten
  /\ UNCHANGED <<inputs, base, litter, receipts, verification, sealed, derived, rotted,
                 mishaps>>

\* The file f of the checkpoint is replaced by a temporary one that is complete.
Put(f, content) ==
  /\ base' = [base EXCEPT !.files[f] = content]
  /\ rotted' = IF content = "base" THEN rotted \ {f} ELSE rotted
  /\ UNCHANGED <<place, litter>>
\* What output_files says of f, and the rest of the list.
Listed(f, content, label) ==
  /\ output' = [output EXCEPT ![f] = content] /\ at' = label /\ todo' = todo \ {f}
Raise == End /\ UNCHANGED output

RefuseOther(f, from) ==                      \* mutant: an existing file is preserved
  \/ base.files[f] = "none" /\ from = "base" /\ Put(f, "base") /\ Listed(f, "base", at)
  \/ /\ base.files[f] = "base" /\ Listed(f, "base", at)
     /\ UNCHANGED <<base, place, litter, rotted>>
  \/ base.files[f] \notin {"none", "base"} /\ Raise /\ UNCHANGED <<base, place, litter, rotted>>
\* copy_or_resume: kept when the bytes have the expected digest, else copied to a
\* temporary file whose digest is checked before it replaces the target.
CopyOrResume(f, from) ==
  \/ /\ base.files[f] = "base" /\ Listed(f, "base", at)
     /\ UNCHANGED <<base, place, litter, rotted>>
  \/ base.files[f] # "base" /\ from = "base" /\ Put(f, "base") /\ Listed(f, "base", at)
  \/ base.files[f] # "base" /\ from # "base" /\ Raise /\ UNCHANGED <<base, place, litter, rotted>>

CopyAuxiliary ==
  /\ at = "auxiliary" /\ \E f \in todo : CopyOrResume(f, origin[f])
  /\ UNCHANGED <<inputs, receipts, verification, sealed, derived, mishaps>>

CopyExpert ==
  /\ at = "experts" /\ \E e \in todo : CopyOrResume(e, archive[e])
  /\ UNCHANGED <<inputs, receipts, verification, sealed, derived, mishaps>>

\* A shard is kept on the word of its receipt, which its bytes must still match.
Kept(c) == receipts[c] = "base" /\ base.files[c] = "base"
SameTensors(c) == origin[c] = "base"
\* write_subset replaces the target before the caller compares the tensor digests;
\* the receipt follows.
CarryShard ==
  /\ at = "carried"
  /\ \E c \in todo :
       \/ Kept(c) /\ Listed(c, "base", at) /\ UNCHANGED <<base, place, litter, rotted>>
       \/ ~Kept(c) /\ Put(c, origin[c])
          /\ IF SameTensors(c)
             THEN Goto("receipt", todo) /\ output' = [output EXCEPT ![c] = origin[c]]
             ELSE Raise
  /\ UNCHANGED <<inputs, receipts, verification, sealed, derived, mishaps>>

RecordCarried ==
  /\ at = "receipt"
  /\ \E c \in todo : /\ output[c] # "none" /\ receipts' = [receipts EXCEPT ![c] = output[c]]
                     /\ Listed(c, output[c], "carried")
  /\ UNCHANGED <<inputs, place, base, litter, verification, sealed, derived, rotted, mishaps>>

NextKind ==
  /\ todo = {}
  /\ \/ at = "auxiliary" /\ Goto("carried", Carried)
     \/ at = "carried" /\ Goto("experts", Experts)
     \/ at = "experts" /\ Goto("generated", {})
  /\ UNCHANGED <<inputs, checkpoint, verification, sealed, derived, output, rotted, mishaps>>

Generate ==
  /\ at = "generated" /\ Put(Generated, "base") /\ Listed(Generated, "base", "manifest")
  /\ UNCHANGED <<inputs, receipts, verification, sealed, derived, mishaps>>

WriteManifest ==
  /\ at = "manifest" /\ base' = [base EXCEPT !.manifest = output] /\ Goto("ledger", {})
  /\ UNCHANGED <<inputs, place, litter, receipts, verification, sealed, derived, output,
                 rotted, mishaps>>

WriteLedger ==
  /\ at = "ledger" /\ base' = [base EXCEPT !.ledger = output] /\ Goto("marker", {})
  /\ UNCHANGED <<inputs, place, litter, receipts, verification, sealed, derived, output,
                 rotted, mishaps>>

WriteMarker ==
  /\ at = "marker" /\ End
  /\ base' = [base EXCEPT !.marker = [manifest |-> base.manifest, ledger |-> base.ledger,
                                      home |-> "incoming"]]
  /\ UNCHANGED <<inputs, place, litter, receipts, verification, sealed, derived, output,
                 rotted, mishaps>>

-----------------------------------------------------------------------------
(* verify_checkpoint.py and seal_checkpoint.py *)

\* Bytes of the files against the manifest, and of the source files against the
\* digests of the official source.
SkipChecksums == \A f \in Payload : base.files[f] # "none" \* mutant: --skip-file-checksums
ChecksumsHold == \A f \in Payload : base.files[f] = base.manifest[f] /\ base.files[f] # "none"
Verified ==
  /\ ~litter /\ ChecksumsHold /\ base.ledger = base.manifest
  /\ base.marker = [manifest |-> base.manifest, ledger |-> base.ledger, home |-> place]
  /\ \A f \in Source : base.files[f] = "base"

Verify ==
  /\ at = "down" /\ place = "incoming" /\ base.marker # NoMarker
  /\ verification' = IF Verified THEN "passed" ELSE "failed"
  /\ rotted' = IF Verified THEN {} ELSE rotted
  /\ UNCHANGED <<inputs, checkpoint, sealed, derived, tool, mishaps>>

\* The gate reads the verification, not whether it is of the present marker.
Seal ==
  /\ at = "down" /\ place = "incoming" /\ verification = "passed" /\ Goto("seal", {})
  /\ UNCHANGED <<inputs, checkpoint, verification, sealed, derived, output, rotted, mishaps>>

SealMarker ==
  /\ at = "seal" /\ base' = [base EXCEPT !.marker.home = "final"] /\ Goto("move", {})
  /\ UNCHANGED <<inputs, place, litter, receipts, verification, sealed, derived, output,
                 rotted, mishaps>>

Promote ==
  /\ at = "move" /\ place' = "final" /\ Goto("record", {})
  /\ UNCHANGED <<inputs, base, litter, receipts, verification, sealed, derived, output,
                 rotted, mishaps>>

RecordSeal ==
  /\ at = "record" /\ sealed' = TRUE /\ End
  /\ UNCHANGED <<inputs, checkpoint, verification, derived, output, rotted, mishaps>>

-----------------------------------------------------------------------------
(* assemble_k275.py *)

\* What the name f of the K2/K3 checkpoint reads.
View(f) == IF f \in own THEN mixed.files[f] ELSE base.files[f]

\* The base is sealed and its two records match its marker (no file of it is read
\* again); the K2 layers were verified when they were published.
AssembleK275 ==
  /\ at = "down" /\ stage = "absent" /\ place = "final" /\ base.marker # NoMarker
  /\ base.manifest = base.marker.manifest /\ base.ledger = base.marker.ledger
  /\ Goto("link", {})
  /\ UNCHANGED <<inputs, checkpoint, verification, sealed, derived, output, rotted, mishaps>>

\* Every name of the base, its records too, is linked; or copied, where the file
\* system cannot link.
CopyTreeLinks ==
  /\ at = "link" /\ stage' = "staging" /\ Goto("replace", Selected)
  /\ \/ own' = {} /\ mixed' = Nothing
     \/ own' = Names /\ mixed' = base
  /\ UNCHANGED <<inputs, checkpoint, verification, sealed, output, rotted, mishaps>>

\* A temporary file takes the name over: a link into the base is cut, not followed.
Cut(names, directory) == own' = own \cup names /\ mixed' = directory /\ UNCHANGED base

ReplaceExpert ==
  /\ at = "replace"
  /\ \E e \in todo : /\ Cut({e}, [mixed EXCEPT !.files[e] = k2[e]])
                     /\ Goto("replace", todo \ {e})
  /\ UNCHANGED <<inputs, place, litter, receipts, verification, sealed, stage, output,
                 rotted, mishaps>>

\* The metadata, then the digests of everything as it is read through the links.
Describe ==
  /\ at = "replace" /\ todo = {}
  /\ Cut({Generated}, [mixed EXCEPT !.files[Generated] = "mixed"])
  /\ output' = [f \in Payload |-> IF f = Generated THEN "mixed" ELSE View(f)]
  /\ Goto("k275 ledger", {})
  /\ UNCHANGED <<inputs, place, litter, receipts, verification, sealed, stage, rotted, mishaps>>

\* atomic_text; it once opened the name for writing, through the link.
WriteThrough(digests) ==                     \* mutant: the ledger is written in place
  IF "SHA256SUMS" \in own THEN Cut({}, [mixed EXCEPT !.ledger = digests])
  ELSE base' = [base EXCEPT !.ledger = digests] /\ UNCHANGED <<own, mixed>>
AtomicText(digests) == Cut({"SHA256SUMS"}, [mixed EXCEPT !.ledger = digests])
WriteK275Ledger ==
  /\ at = "k275 ledger" /\ AtomicText(output) /\ Goto("k275 manifest", {})
  /\ UNCHANGED <<inputs, place, litter, receipts, verification, sealed, stage, output,
                 rotted, mishaps>>

WriteK275Manifest ==
  /\ at = "k275 manifest" /\ Cut({"MANIFEST.json"}, [mixed EXCEPT !.manifest = output])
  /\ Goto("k275 marker", {})
  /\ UNCHANGED <<inputs, place, litter, receipts, verification, sealed, stage, output,
                 rotted, mishaps>>

WriteK275Marker ==
  /\ at = "k275 marker" /\ Goto("publish", {})
  /\ Cut({"ASSEMBLY_COMPLETE.json"},
         [mixed EXCEPT !.marker = [manifest |-> mixed.manifest, ledger |-> mixed.ledger,
                                   home |-> "k275"]])
  /\ UNCHANGED <<inputs, place, litter, receipts, verification, sealed, stage, output,
                 rotted, mishaps>>

PublishK275 ==
  /\ at = "publish" /\ stage' = "final" /\ End
  /\ UNCHANGED <<inputs, checkpoint, verification, sealed, own, mixed, output, rotted, mishaps>>

-----------------------------------------------------------------------------
(* Faults *)

\* An exception: temporary files are unlinked, the staging directory removed.
Throw ==
  /\ at # "down" /\ Mishap /\ Raise
  /\ IF Derives THEN stage' = "absent" /\ own' = {} /\ mixed' = Nothing ELSE UNCHANGED derived
  /\ UNCHANGED <<inputs, checkpoint, verification, sealed, rotted>>

\* SIGKILL or power: the temporary file under way stays; a staging directory stays
\* too, under a name no later run uses.
Kill ==
  /\ at # "down" /\ Mishap /\ Raise
  /\ IF Derives THEN stage' = "absent" /\ own' = {} /\ mixed' = Nothing /\ UNCHANGED litter
     ELSE UNCHANGED derived /\ litter' \in (IF at \in {"move", "record"} THEN {litter}
                                            ELSE {litter, TRUE})
  /\ UNCHANGED <<inputs, place, base, receipts, verification, sealed, rotted>>

\* A file rots while no tool runs or between two of its steps.
Rot ==
  /\ Mishap
  /\ \/ \E f \in Source : /\ origin[f] = "base" /\ origin' = [origin EXCEPT ![f] = "rot"]
                          /\ UNCHANGED <<archive, k2, base, mixed, rotted>>
     \/ \E e \in Experts : /\ archive[e] = "base" /\ archive' = [archive EXCEPT ![e] = "rot"]
                           /\ UNCHANGED <<origin, k2, base, mixed, rotted>>
     \/ \E e \in Selected : /\ k2[e] = "mixed" /\ k2' = [k2 EXCEPT ![e] = "rot"]
                            /\ UNCHANGED <<origin, archive, base, mixed, rotted>>
     \/ \E f \in Payload : /\ base.files[f] = "base"
                           /\ base' = [base EXCEPT !.files[f] = "rot"]
                           /\ rotted' = rotted \cup {f}
                           /\ UNCHANGED <<origin, archive, k2, mixed>>
  /\ UNCHANGED <<audited, place, litter, receipts, verification, sealed, stage, own, tool>>

Steps ==
  \/ CopyAuxiliary \/ CarryShard \/ RecordCarried \/ CopyExpert \/ NextKind \/ Generate
  \/ WriteManifest \/ WriteLedger \/ WriteMarker \/ SealMarker \/ Promote \/ RecordSeal
  \/ CopyTreeLinks \/ ReplaceExpert \/ Describe \/ WriteK275Ledger \/ WriteK275Manifest
  \/ WriteK275Marker \/ PublishK275
Next == AuditArchive \/ Assemble \/ Steps \/ Verify \/ Seal \/ AssembleK275 \/ Throw \/ Kill \/ Rot

Spec == Init /\ [][Next]_vars

\* A tool that runs goes on; the operator audits, starts the assembler until it ends
\* with a marker, and, however often it is run, turns to verifying and to sealing.
Assembled == place # "absent" /\ base.marker # NoMarker
FairSpec ==
  /\ Spec /\ WF_vars(Steps) /\ WF_vars(AuditArchive) /\ SF_vars(Seal)
  /\ WF_vars(Assemble /\ (~Assembled \/ verification = "failed"))
  /\ SF_vars(Verify /\ verification # "passed")

-----------------------------------------------------------------------------
(* Properties *)

\* A checkpoint at its final name holds what it should, but for files that rotted
\* after the passing verification its seal rests on: resumption, receipts and kills
\* never let other bytes through (assemble_checkpoint.py, verify_checkpoint.py).
SealedIsVerified ==
  place = "final" => /\ \A f \in Payload \ rotted : base.files[f] = "base"
                     /\ base.manifest = [f \in Payload |-> "base"]

\* Nothing that derives the K2/K3 checkpoint by hard links writes through one of
\* them into the sealed K3 checkpoint (assemble_k275.py:40; its ledger once was).
SealedNeverWritten ==
  [][place = "final" =>
       /\ base'.manifest = base.manifest /\ base'.ledger = base.ledger
       /\ base'.marker = base.marker
       /\ \A f \in Payload : base'.files[f] \in {base.files[f], "rot"}]_vars

\* A published K2/K3 checkpoint differs from the K3 one in the selected experts and
\* the metadata only, and its marker, ledger and manifest are those of the files
\* under its name when they were read, its own and the linked ones.
MixedIsTheSelection ==
  stage = "final" =>
    /\ \A f \in Payload : View(f) \in {IF Mixed(f) THEN "mixed" ELSE "base", "rot"}
    /\ mixed.marker = [manifest |-> mixed.manifest, ledger |-> mixed.ledger, home |-> "k275"]
    /\ mixed.ledger = mixed.manifest /\ Records \subseteq own
    /\ \A f \in Payload : mixed.manifest[f] = View(f) \/ f \in rotted

\* Killed or thrown anywhere, the assembly is resumed until its checkpoint is sealed,
\* unless an input rotted, the kill left a temporary file among the checkpoint's (the
\* verifier then refuses it), or the seal died between its move and its receipt.
ResumesToSeal ==
  <>(\/ sealed \/ litter \/ (place = "final" /\ at = "down")
     \/ \E f \in Source : origin[f] = "rot" \/ \E e \in Experts : archive[e] = "rot")
==============================================================================

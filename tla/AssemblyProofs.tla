---------------------------- MODULE AssemblyProofs ----------------------------
(***************************************************************************)
(* Proofs about Assembly, for any sets of files and any number of mishaps: *)
(* the types, that a sealed checkpoint is the verified one, that deriving  *)
(* the mixed checkpoint never writes into it, and that the mixed one is    *)
(* what the selection says.                                                *)
(***************************************************************************)
EXTENDS Assembly, TLAPS

-----------------------------------------------------------------------------
(* Types                                                                   *)

Markers == [manifest : Digests, ledger : Digests, home : {"none", "incoming", "final", "k275"}]

LEMMA FilesAre ==
  /\ Source \subseteq Payload /\ Experts \subseteq Payload /\ Generated \in Payload
  /\ Selected \subseteq Payload /\ Carried \subseteq Source /\ Auxiliary \subseteq Source
  /\ Copied \subseteq Payload /\ Selected \subseteq Copied /\ Experts \subseteq Copied
BY AssemblyAssumption DEF Payload, Copied, Source

LEMMA NothingTyped == Nothing \in Directory /\ Unwritten \in Digests /\ NoMarker \in Markers
BY DEF Nothing, Directory, Unwritten, Digests, NoMarker, Content, Markers

\* The fields of a directory.
LEMMA Fields ==
  ASSUME NEW d \in Directory
  PROVE  /\ d.files \in Digests /\ d.manifest \in Digests /\ d.ledger \in Digests /\ d.marker \in Markers
         /\ d = [files |-> d.files, manifest |-> d.manifest, ledger |-> d.ledger, marker |-> d.marker]
BY DEF Directory, Markers

LEMMA InitiallyTyped == Init => TypeOK
<1> SUFFICES ASSUME Init PROVE TypeOK
  OBVIOUS
<1>1. /\ origin \in [Source -> {"base", "rot"}] /\ archive \in [Experts -> {"base", "rot"}]
      /\ k2 \in [Selected -> {"mixed", "rot"}] /\ receipts \in [Carried -> {"none", "base"}]
      /\ audited \in BOOLEAN /\ litter \in BOOLEAN /\ sealed \in BOOLEAN /\ ~sealed
  BY DEF Init
<1>2. mishaps \in 0 .. MaxMishaps
  BY AssemblyAssumption DEF Init
<1>3. base \in Directory /\ mixed \in Directory /\ output \in Digests
  BY NothingTyped DEF Init
<1> QED
  BY <1>1, <1>2, <1>3 DEF Init, TypeOK

LEMMA PutTyped ==
  ASSUME TypeOK, NEW f \in Payload, NEW c \in Content, Put(f, c)
  PROVE  /\ base' \in Directory /\ rotted' \subseteq Payload /\ place' = place /\ litter' = litter
         /\ base'.files = [base.files EXCEPT ![f] = c]
         /\ base'.manifest = base.manifest /\ base'.ledger = base.ledger /\ base'.marker = base.marker
         /\ rotted' = IF c = "base" THEN rotted \ {f} ELSE rotted
<1>1. base' = [base EXCEPT !.files[f] = c] /\ UNCHANGED <<place, litter>>
      /\ rotted' = IF c = "base" THEN rotted \ {f} ELSE rotted
  BY DEF Put
<1>2. base \in Directory /\ rotted \subseteq Payload
  BY DEF TypeOK
<1>3. base' \in Directory
  <2>1. [base.files EXCEPT ![f] = c] \in Digests
    BY <1>2, Fields DEF Digests
  <2> QED  BY <1>1, <1>2, <2>1, Fields DEF Directory
<1>4. /\ base'.files = [base.files EXCEPT ![f] = c]
      /\ base'.manifest = base.manifest /\ base'.ledger = base.ledger /\ base'.marker = base.marker
  BY <1>1, <1>2 DEF Directory
<1> QED
  BY <1>1, <1>2, <1>3, <1>4

LEMMA ListedTyped ==
  ASSUME TypeOK, NEW f \in Payload, NEW c \in Content, NEW label, Listed(f, c, label)
  PROVE  /\ output' \in Digests /\ at' = label /\ todo' = todo \ {f} /\ todo' \subseteq Copied
         /\ \A g \in Payload : output'[g] = IF g = f THEN c ELSE output[g]
BY DEF TypeOK, Listed, Digests

LEMMA RaiseTyped == ASSUME Raise PROVE at' = "down" /\ todo' = {} /\ output' = output
BY DEF Raise, End, Goto

\* What an assembler's step on one file does.
CopySteps(f) ==
  \/ /\ base.files[f] = "base" /\ Listed(f, "base", at) /\ UNCHANGED <<base, place, litter, rotted>>
  \/ Put(f, "base") /\ Listed(f, "base", at)
  \/ Raise /\ UNCHANGED <<base, place, litter, rotted>>

LEMMA CopyIs == ASSUME NEW f, NEW from, CopyOrResume(f, from) PROVE CopySteps(f)
BY DEF CopyOrResume, CopySteps

\* The variables that no assembler touches, and those a step of one keeps typed.
Typed ==
  /\ base' \in Directory /\ rotted' \subseteq Payload /\ output' \in Digests /\ todo' \subseteq Copied
  /\ place' = place /\ litter' = litter

LEMMA CopyTyped == ASSUME TypeOK, NEW f \in todo, CopySteps(f) PROVE Typed /\ at' \in {at, "down"}
<1>1. f \in Payload /\ "base" \in Content
  BY FilesAre DEF TypeOK, Content
<1>2. CASE Listed(f, "base", at) /\ UNCHANGED <<base, place, litter, rotted>>
  BY <1>1, <1>2, ListedTyped DEF TypeOK, Typed
<1>3. CASE Put(f, "base") /\ Listed(f, "base", at)
  BY <1>1, <1>3, ListedTyped, PutTyped DEF Typed
<1>4. CASE Raise /\ UNCHANGED <<base, place, litter, rotted>>
  BY <1>4, RaiseTyped DEF TypeOK, Typed
<1> QED
  BY <1>2, <1>3, <1>4 DEF CopySteps

\* What is left to do is of the kind under way.
TodoInv ==
  /\ at = "auxiliary" => todo \subseteq Auxiliary
  /\ at \in {"carried", "receipt"} => todo \subseteq Carried
  /\ at = "experts" => todo \subseteq Experts
  /\ at = "replace" => todo \subseteq Selected

LEMMA CarryTyped ==
  ASSUME TypeOK, TodoInv, CarryShard
  PROVE  Typed /\ at' \in {"carried", "receipt", "down"}
<1>1. at = "carried"
  BY DEF CarryShard
<1>2. PICK c \in todo :
       \/ Kept(c) /\ Listed(c, "base", at) /\ UNCHANGED <<base, place, litter, rotted>>
       \/ ~Kept(c) /\ Put(c, origin[c])
          /\ IF SameTensors(c)
             THEN Goto("receipt", todo) /\ output' = [output EXCEPT ![c] = origin[c]]
             ELSE Raise
  BY DEF CarryShard
<1>3. c \in Payload /\ "base" \in Content
  BY FilesAre DEF TypeOK, Content
<1>4. origin[c] \in Content /\ (SameTensors(c) <=> origin[c] = "base")
  BY <1>1, FilesAre DEF TypeOK, TodoInv, Content, SameTensors
<1>5. CASE Listed(c, "base", at) /\ UNCHANGED <<base, place, litter, rotted>>
  BY <1>1, <1>3, <1>5, ListedTyped DEF TypeOK, Typed
<1>6. CASE Put(c, origin[c]) /\ Raise
  BY <1>3, <1>4, <1>6, PutTyped, RaiseTyped DEF TypeOK, Typed
<1>7. CASE Put(c, origin[c]) /\ Goto("receipt", todo) /\ output' = [output EXCEPT ![c] = origin[c]]
  <2>1. output' \in Digests
    BY <1>3, <1>4, <1>7 DEF TypeOK, Digests
  <2> QED  BY <1>3, <1>4, <1>7, <2>1, PutTyped DEF TypeOK, Typed, Goto
<1> QED
  BY <1>2, <1>5, <1>6, <1>7

-----------------------------------------------------------------------------
(* The order of the tools                                                  *)

\* An assembler and the seal work on the incoming checkpoint, a derivation on
\* the final one.
PhaseInv ==
  /\ at \in {"auxiliary", "carried", "receipt", "experts", "generated", "manifest", "ledger",
             "marker", "seal", "move"} => place = "incoming"
  /\ at = "record" \/ Derives => place = "final"

LEMMA CopyAt == ASSUME NEW f, CopySteps(f) PROVE at' \in {at, "down"} /\ place' = place
BY DEF CopySteps, Put, Listed, Raise, End, Goto

LEMMA PhaseStep == ASSUME PhaseInv, [Next]_vars PROVE PhaseInv'
<1> USE DEF PhaseInv, Derives
<1>1. CASE CopyAuxiliary
  BY <1>1, CopyIs, CopyAt DEF CopyAuxiliary
<1>2. CASE CopyExpert
  BY <1>2, CopyIs, CopyAt DEF CopyExpert
<1>3. CASE CarryShard
  BY <1>3 DEF CarryShard, Listed, Put, Raise, End, Goto
<1>4. CASE RecordCarried \/ NextKind \/ Generate \/ WriteManifest \/ WriteLedger \/ WriteMarker
  BY <1>4 DEF RecordCarried, NextKind, Generate, WriteManifest, WriteLedger, WriteMarker, Listed, Put,
              End, Goto, checkpoint
<1>5. CASE SealMarker \/ Promote \/ RecordSeal
  BY <1>5 DEF SealMarker, Promote, RecordSeal, End, Goto, checkpoint
<1>6. CASE CopyTreeLinks \/ ReplaceExpert \/ Describe
  BY <1>6 DEF CopyTreeLinks, ReplaceExpert, Describe, Goto, checkpoint
<1>7. CASE WriteK275Ledger \/ WriteK275Manifest \/ WriteK275Marker \/ PublishK275
  BY <1>7 DEF WriteK275Ledger, WriteK275Manifest, WriteK275Marker, PublishK275, End, Goto, checkpoint
<1>8. CASE AuditArchive \/ Assemble \/ Verify \/ Seal \/ AssembleK275
  BY <1>8 DEF AuditArchive, Assemble, Verify, Seal, AssembleK275, Goto, checkpoint, tool
<1>9. CASE Throw \/ Kill
  BY <1>9 DEF Throw, Kill, Raise, End, Goto, checkpoint
<1>10. CASE Rot
  BY <1>10 DEF Rot, tool
<1>11. CASE UNCHANGED vars
  BY <1>11 DEF vars, tool, checkpoint
<1> QED
  BY <1>1, <1>2, <1>3, <1>4, <1>5, <1>6, <1>7, <1>8, <1>9, <1>10, <1>11 DEF Next, Steps

LEMMA TodoStep == ASSUME TodoInv, [Next]_vars PROVE TodoInv'
<1> USE DEF TodoInv
<1>0. ASSUME at' = at \/ at' = "down", todo' \subseteq todo PROVE TodoInv'
  BY <1>0
<1>a. ASSUME NEW f, CopySteps(f), at # "receipt" PROVE TodoInv'
  <2>1. CASE Listed(f, "base", at)
    BY <1>0, <2>1 DEF Listed
  <2>2. CASE Raise
    BY <2>2 DEF Raise, End, Goto
  <2> QED  BY <1>a, <2>1, <2>2 DEF CopySteps
<1>1. CASE CopyAuxiliary
  BY <1>1, <1>a, CopyIs DEF CopyAuxiliary
<1>2. CASE CopyExpert
  BY <1>2, <1>a, CopyIs DEF CopyExpert
<1>3. CASE CarryShard
  BY <1>3 DEF CarryShard, Listed, Raise, End, Goto
<1>4. CASE RecordCarried
  BY <1>4 DEF RecordCarried, Listed
<1>5. CASE NextKind \/ Generate \/ WriteManifest \/ WriteLedger \/ WriteMarker
  BY <1>5 DEF NextKind, Generate, WriteManifest, WriteLedger, WriteMarker, Listed, End, Goto
<1>6. CASE SealMarker \/ Promote \/ RecordSeal
  BY <1>6 DEF SealMarker, Promote, RecordSeal, End, Goto
<1>7. CASE CopyTreeLinks \/ Describe
  BY <1>7 DEF CopyTreeLinks, Describe, Goto
<1>8. CASE ReplaceExpert
  BY <1>8 DEF ReplaceExpert, Goto
<1>9. CASE WriteK275Ledger \/ WriteK275Manifest \/ WriteK275Marker \/ PublishK275
  BY <1>9 DEF WriteK275Ledger, WriteK275Manifest, WriteK275Marker, PublishK275, End, Goto
<1>10. CASE AuditArchive \/ Assemble \/ Verify \/ Seal \/ AssembleK275
  BY <1>10 DEF AuditArchive, Assemble, Verify, Seal, AssembleK275, Goto, tool
<1>11. CASE Throw \/ Kill
  BY <1>11 DEF Throw, Kill, Raise, End, Goto
<1>12. CASE Rot \/ UNCHANGED vars
  BY <1>12 DEF Rot, vars, tool
<1> QED
  BY <1>1, <1>2, <1>3, <1>4, <1>5, <1>6, <1>7, <1>8, <1>9, <1>10, <1>11, <1>12 DEF Next, Steps

-----------------------------------------------------------------------------
(* What the assembler has listed                                           *)

AllBase == [f \in Payload |-> "base"]
OutputInv ==
  /\ at \in {"auxiliary", "carried", "receipt", "experts", "generated"} =>
       \A f \in Payload : output[f] \in {"none", "base"}
  /\ at = "auxiliary" => \A f \in Auxiliary \ todo : output[f] = "base"
  /\ at \in {"carried", "receipt"} => \A f \in Source \ todo : output[f] = "base"
  /\ at = "experts" => \A f \in Copied \ todo : output[f] = "base"
  /\ at = "generated" => \A f \in Copied : output[f] = "base"
  /\ at \in {"manifest", "ledger", "marker"} => output = AllBase
  /\ at \in {"carried", "receipt"} => \A c \in Carried \ todo : receipts[c] = "base"
  /\ at \in {"experts", "generated", "manifest", "ledger", "marker"} =>
       \A c \in Carried : receipts[c] = "base"

LEMMA OutputStep == ASSUME TypeOK, TodoInv, OutputInv, [Next]_vars PROVE OutputInv'
<1> USE DEF OutputInv
<1>0. ASSUME at' \notin {"auxiliary", "carried", "receipt", "experts", "generated", "manifest", "ledger", "marker"}
      PROVE  OutputInv'
  BY <1>0
<1>b. "base" \in Content /\ output \in Digests /\ receipts \in [Carried -> {"none", "base"}]
  BY DEF TypeOK, Content
<1>a. ASSUME NEW f \in todo, CopySteps(f), receipts' = receipts, at \in {"auxiliary", "experts"} PROVE OutputInv'
  <2>1. CASE Listed(f, "base", at)
    <3>1. f \in Payload
      BY FilesAre DEF TypeOK
    <3>2. at' = at /\ todo' = todo \ {f} /\ \A g \in Payload : output'[g] = IF g = f THEN "base" ELSE output[g]
      BY <1>b, <2>1, <3>1, ListedTyped
    <3> QED  BY <1>a, <3>1, <3>2, FilesAre
  <2>2. CASE Raise
    BY <1>0, <2>2, RaiseTyped
  <2> QED  BY <1>a, <2>1, <2>2 DEF CopySteps
<1>1. CASE CopyAuxiliary
  BY <1>1, <1>a, CopyIs DEF CopyAuxiliary
<1>2. CASE CopyExpert
  BY <1>2, <1>a, CopyIs DEF CopyExpert
<1>3. CASE CarryShard
  <2>1. PICK c \in todo :
         \/ Kept(c) /\ Listed(c, "base", at) /\ UNCHANGED <<base, place, litter, rotted>>
         \/ ~Kept(c) /\ Put(c, origin[c])
            /\ IF SameTensors(c)
               THEN Goto("receipt", todo) /\ output' = [output EXCEPT ![c] = origin[c]]
               ELSE Raise
    BY <1>3 DEF CarryShard
  <2>2. c \in Payload /\ at = "carried" /\ c \in Carried /\ receipts' = receipts
    BY <1>3, FilesAre DEF TodoInv, TypeOK, CarryShard
  <2>3. CASE Kept(c) /\ Listed(c, "base", at)
    <3>1. at' = at /\ todo' = todo \ {c} /\ \A g \in Payload : output'[g] = IF g = c THEN "base" ELSE output[g]
      BY <1>b, <2>2, <2>3, ListedTyped
    <3>2. receipts[c] = "base"
      BY <2>3 DEF Kept
    <3> QED  BY <2>2, <3>1, <3>2, FilesAre
  <2>4. CASE SameTensors(c) /\ Goto("receipt", todo) /\ output' = [output EXCEPT ![c] = origin[c]]
    <3>1. at' = "receipt" /\ todo' = todo /\ \A g \in Payload : output'[g] = IF g = c THEN "base" ELSE output[g]
      BY <1>b, <2>2, <2>4 DEF Goto, SameTensors, Digests
    <3> QED  BY <2>2, <3>1, FilesAre
  <2>5. CASE Raise
    BY <1>0, <2>5, RaiseTyped
  <2> QED  BY <2>1, <2>3, <2>4, <2>5
<1>4. CASE RecordCarried
  <2>1. PICK c \in todo : /\ output[c] # "none" /\ receipts' = [receipts EXCEPT ![c] = output[c]]
                          /\ Listed(c, output[c], "carried")
    BY <1>4 DEF RecordCarried
  <2>2. c \in Payload /\ at = "receipt" /\ c \in Carried
    BY <1>4, FilesAre DEF TodoInv, TypeOK, RecordCarried
  <2>3. output[c] = "base"
    BY <2>1, <2>2
  <2>4. at' = "carried" /\ todo' = todo \ {c} /\ \A g \in Payload : output'[g] = IF g = c THEN "base" ELSE output[g]
    BY <1>b, <2>1, <2>2, <2>3, ListedTyped
  <2>5. \A d \in Carried : receipts'[d] = IF d = c THEN "base" ELSE receipts[d]
    BY <1>b, <2>1, <2>3
  <2> QED  BY <2>2, <2>4, <2>5, FilesAre
<1>5. CASE NextKind
  <2>1. /\ todo = {} /\ UNCHANGED <<output, receipts>>
        /\ \/ at = "auxiliary" /\ at' = "carried" /\ todo' = Carried
           \/ at = "carried" /\ at' = "experts" /\ todo' = Experts
           \/ at = "experts" /\ at' = "generated" /\ todo' = {}
    BY <1>5 DEF NextKind, Goto, checkpoint
  <2>2. Source \ Carried \subseteq Auxiliary /\ Copied \ Experts \subseteq Source
    BY DEF Source, Copied
  <2> QED  BY <2>1, <2>2, FilesAre
<1>6. CASE Generate
  <2>1. Generated \in Payload /\ receipts' = receipts /\ Listed(Generated, "base", "manifest") /\ at = "generated"
    BY <1>6, FilesAre DEF Generate
  <2>2. at' = "manifest" /\ output' \in Digests
        /\ \A g \in Payload : output'[g] = IF g = Generated THEN "base" ELSE output[g]
    BY <1>b, <2>1, ListedTyped
  <2>3. \A g \in Payload : output'[g] = "base"
    BY <2>1, <2>2 DEF Payload
  <2>4. output' = AllBase
    BY <2>2, <2>3 DEF Digests, AllBase
  <2> QED  BY <2>1, <2>2, <2>4
<1>7. CASE WriteManifest \/ WriteLedger
  BY <1>7 DEF WriteManifest, WriteLedger, Goto
<1>8. CASE WriteMarker \/ SealMarker \/ Promote \/ RecordSeal \/ CopyTreeLinks \/ Describe \/ ReplaceExpert
  BY <1>0, <1>8 DEF WriteMarker, SealMarker, Promote, RecordSeal, CopyTreeLinks, Describe, ReplaceExpert, End, Goto
<1>9. CASE WriteK275Ledger \/ WriteK275Manifest \/ WriteK275Marker \/ PublishK275 \/ Seal \/ AssembleK275 \/ Throw \/ Kill
  BY <1>0, <1>9 DEF WriteK275Ledger, WriteK275Manifest, WriteK275Marker, PublishK275, Seal, AssembleK275,
                    Throw, Kill, Raise, End, Goto
<1>10. CASE Assemble
  <2>1. at' = "auxiliary" /\ todo' = Auxiliary /\ output' = Unwritten
    BY <1>10 DEF Assemble, Goto
  <2> QED  BY <2>1 DEF Unwritten
<1>11. CASE AuditArchive \/ Verify \/ Rot \/ UNCHANGED vars
  BY <1>11 DEF AuditArchive, Verify, Rot, vars, tool, checkpoint
<1> QED
  BY <1>1, <1>2, <1>3, <1>4, <1>5, <1>6, <1>7, <1>8, <1>9, <1>10, <1>11 DEF Next, Steps

LEMMA AssemblerTyped ==
  ASSUME TypeOK, TodoInv, PhaseInv, OutputInv,
         \/ CopyAuxiliary \/ CopyExpert \/ CarryShard \/ RecordCarried \/ NextKind \/ Generate
         \/ WriteManifest \/ WriteLedger \/ WriteMarker \/ SealMarker \/ Promote \/ RecordSeal
  PROVE  TypeOK'
<1> USE DEF TypeOK
<1>1. CASE CopyAuxiliary
  <2>1. Typed /\ at' \in {at, "down"}
    BY <1>1, CopyIs, CopyTyped DEF CopyAuxiliary
  <2> QED  BY <1>1, <2>1 DEF CopyAuxiliary, Typed, inputs, derived
<1>2. CASE CopyExpert
  <2>1. Typed /\ at' \in {at, "down"}
    BY <1>2, CopyIs, CopyTyped DEF CopyExpert
  <2> QED  BY <1>2, <2>1 DEF CopyExpert, Typed, inputs, derived
<1>3. CASE CarryShard
  <2>1. Typed /\ at' \in {"carried", "receipt", "down"}
    BY <1>3, CarryTyped
  <2> QED  BY <1>3, <2>1, ZenonT(40) DEF CarryShard, Typed, inputs, derived
<1>4. CASE RecordCarried
  <2>1. PICK c \in todo : /\ output[c] # "none" /\ receipts' = [receipts EXCEPT ![c] = output[c]]
                          /\ Listed(c, output[c], "carried")
    BY <1>4 DEF RecordCarried
  <2>2. c \in Payload /\ output[c] \in Content
    BY FilesAre DEF Digests
  <2>3. output' \in Digests /\ at' = "carried" /\ todo' \subseteq Copied
    BY <2>1, <2>2, ListedTyped
  <2>4. receipts' \in [Carried -> {"none", "base"}]
    <3>1. c \in Carried /\ output[c] = "base"
      BY <1>4, <2>1, <2>2 DEF TodoInv, OutputInv, RecordCarried
    <3> QED  BY <2>1, <3>1
  <2> QED  BY <1>4, <2>3, <2>4 DEF RecordCarried, inputs, derived
<1>5. CASE NextKind
  <2>1. at' \in {"carried", "experts", "generated"} /\ todo' \subseteq Copied
    BY <1>5, FilesAre DEF NextKind, Goto, Copied, Source
  <2> QED  BY <1>5, <2>1 DEF NextKind, inputs, checkpoint, derived
<1>6. CASE Generate
  <2>1. /\ Put(Generated, "base") /\ Listed(Generated, "base", "manifest")
        /\ UNCHANGED <<inputs, receipts, verification, sealed, derived, mishaps>>
    BY <1>6 DEF Generate
  <2>2. Generated \in Payload /\ "base" \in Content
    BY FilesAre DEF Content
  <2>3. /\ base' \in Directory /\ rotted' \subseteq Payload /\ place' = place /\ litter' = litter
    BY <2>1, <2>2, PutTyped
  <2>4. output' \in Digests /\ at' = "manifest" /\ todo' \subseteq Copied
    BY <2>1, <2>2, ListedTyped
  <2> QED  BY <2>1, <2>3, <2>4 DEF inputs, derived
<1>7. CASE WriteManifest
  <2>1. base' \in Directory
    BY <1>7, Fields DEF WriteManifest, Directory
  <2> QED  BY <1>7, <2>1 DEF WriteManifest, Goto, inputs, derived
<1>8. CASE WriteLedger
  <2>1. base' \in Directory
    BY <1>8, Fields DEF WriteLedger, Directory
  <2> QED  BY <1>8, <2>1 DEF WriteLedger, Goto, inputs, derived
<1>9. CASE WriteMarker
  <2>1. base' \in Directory
    BY <1>9, Fields DEF WriteMarker, Directory
  <2> QED  BY <1>9, <2>1 DEF WriteMarker, End, Goto, inputs, derived
<1>10. CASE SealMarker
  <2>1. [base.marker EXCEPT !.home = "final"] \in Markers
    BY Fields DEF Markers
  <2>2. base' \in Directory
    BY <1>10, <2>1, Fields DEF SealMarker, Directory, Markers
  <2> QED  BY <1>10, <2>2 DEF SealMarker, Goto, inputs, derived
<1>11. CASE Promote
  BY <1>11 DEF Promote, Goto, inputs, derived
<1>12. CASE RecordSeal
  BY <1>12 DEF RecordSeal, PhaseInv, End, Goto, inputs, checkpoint, derived
<1> QED
  BY <1>1, <1>2, <1>3, <1>4, <1>5, <1>6, <1>7, <1>8, <1>9, <1>10, <1>11, <1>12

\* The name f of the mixed checkpoint always reads some content.
LEMMA ViewTyped == ASSUME TypeOK, NEW f \in Payload PROVE View(f) \in Content
<1>1. mixed.files[f] \in Content /\ base.files[f] \in Content
  BY Fields DEF TypeOK, Digests
<1> QED
  BY <1>1 DEF View

LEMMA MishapTyped == ASSUME TypeOK, Mishap PROVE mishaps' \in 0 .. MaxMishaps
<1>1. MaxMishaps \in Nat /\ mishaps \in 0 .. MaxMishaps
  BY AssemblyAssumption DEF TypeOK
<1>2. mishaps < MaxMishaps /\ mishaps' = mishaps + 1
  BY DEF Mishap
<1> QED
  BY <1>1, <1>2

LEMMA OthersTyped ==
  ASSUME TypeOK,
         \/ AuditArchive \/ Assemble \/ Verify \/ Seal \/ AssembleK275 \/ Throw \/ Kill \/ Rot
  PROVE  TypeOK'
<1> USE DEF TypeOK
<1>1. CASE AuditArchive
  BY <1>1 DEF AuditArchive, checkpoint, derived, tool
<1>2. CASE Assemble
  <2>1. Auxiliary \subseteq Copied /\ Unwritten \in Digests
    BY FilesAre, NothingTyped DEF Copied, Source
  <2> QED  BY <1>2, <2>1 DEF Assemble, Goto, inputs, derived
<1>3. CASE Verify
  BY <1>3 DEF Verify, inputs, checkpoint, derived, tool
<1>4. CASE Seal \/ AssembleK275
  <2>1. /\ at' \in {"seal", "link"} /\ todo' = {}
        /\ UNCHANGED <<inputs, checkpoint, verification, sealed, derived, output, rotted, mishaps>>
    BY <1>4 DEF Seal, AssembleK275, Goto
  <2> QED  BY <2>1 DEF inputs, checkpoint, derived
<1>5. CASE Throw
  <2>1. mishaps' \in 0 .. MaxMishaps
    BY <1>5, MishapTyped DEF Throw
  <2>2. stage' \in {"absent", "staging", "final"} /\ own' \subseteq Names /\ mixed' \in Directory
    BY <1>5, NothingTyped DEF Throw, derived
  <2> QED  BY <1>5, <2>1, <2>2, RaiseTyped DEF Throw, inputs, checkpoint
<1>6. CASE Kill
  <2>1. mishaps' \in 0 .. MaxMishaps
    BY <1>6, MishapTyped DEF Kill
  <2>2. /\ stage' \in {"absent", "staging", "final"} /\ own' \subseteq Names /\ mixed' \in Directory
        /\ litter' \in BOOLEAN
    BY <1>6, NothingTyped DEF Kill, derived
  <2> QED  BY <1>6, <2>1, <2>2, RaiseTyped DEF Kill, inputs
<1>7. CASE Rot
  <2>1. mishaps' \in 0 .. MaxMishaps
    BY <1>7, MishapTyped DEF Rot
  <2>2. /\ origin' \in [Source -> {"base", "rot"}] /\ archive' \in [Experts -> {"base", "rot"}]
        /\ k2' \in [Selected -> {"mixed", "rot"}]
    BY <1>7 DEF Rot
  <2>3. base' \in Directory
    <3>1. ASSUME NEW f \in Payload, base' = [base EXCEPT !.files[f] = "rot"] PROVE base' \in Directory
      <4>1. [base.files EXCEPT ![f] = "rot"] \in Digests
        BY Fields DEF Digests, Content
      <4> QED  BY <3>1, <4>1, Fields DEF Directory
    <3> QED  BY <1>7, <3>1 DEF Rot
  <2>4. rotted' \subseteq Payload /\ mixed' = mixed
    BY <1>7 DEF Rot
  <2> QED  BY <1>7, <2>1, <2>2, <2>3, <2>4, ZenonT(40) DEF Rot, tool
<1> QED
  BY <1>1, <1>2, <1>3, <1>4, <1>5, <1>6, <1>7

LEMMA DerivationTyped ==
  ASSUME TypeOK, TodoInv,
         \/ CopyTreeLinks \/ ReplaceExpert \/ Describe \/ WriteK275Ledger \/ WriteK275Manifest
         \/ WriteK275Marker \/ PublishK275
  PROVE  TypeOK'
<1> USE DEF TypeOK
<1>0. Records \subseteq Names /\ Payload \subseteq Names
  BY DEF Names
<1>1. CASE CopyTreeLinks
  <2>1. own' \subseteq Names /\ mixed' \in Directory
    BY <1>1, NothingTyped DEF CopyTreeLinks
  <2>2. Selected \subseteq Copied
    BY FilesAre
  <2> QED  BY <1>1, <2>1, <2>2 DEF CopyTreeLinks, Goto, inputs, checkpoint
<1>2. CASE ReplaceExpert
  <2>1. PICK e \in todo : /\ Cut({e}, [mixed EXCEPT !.files[e] = k2[e]])
                          /\ Goto("replace", todo \ {e})
    BY <1>2 DEF ReplaceExpert
  <2>2. e \in Payload /\ k2[e] \in Content
    BY <1>2, FilesAre DEF TodoInv, ReplaceExpert, Content
  <2>3. mixed' \in Directory
    <3>1. [mixed.files EXCEPT ![e] = k2[e]] \in Digests
      BY <2>2, Fields DEF Digests
    <3> QED  BY <2>1, <3>1, Fields DEF Directory, Cut
  <2>4. own' \subseteq Names
    BY <1>0, <2>1, <2>2 DEF Cut
  <2> QED  BY <1>2, <2>1, <2>3, <2>4 DEF ReplaceExpert, Cut, Goto, inputs
<1>3. CASE Describe
  <2>1. Generated \in Payload
    BY FilesAre
  <2>2. mixed' \in Directory
    <3>1. [mixed.files EXCEPT ![Generated] = "mixed"] \in Digests
      BY <2>1, Fields DEF Digests, Content
    <3> QED  BY <1>3, <3>1, Fields DEF Directory, Cut, Describe
  <2>3. own' \subseteq Names
    BY <1>0, <1>3, <2>1 DEF Cut, Describe
  <2>4. output' \in Digests
    BY <1>3, ViewTyped DEF Describe, Digests, Content
  <2> QED  BY <1>3, <2>2, <2>3, <2>4 DEF Describe, Cut, Goto, inputs
<1>4. CASE WriteK275Ledger
  <2>1. mixed' \in Directory
    BY <1>4, Fields DEF WriteK275Ledger, AtomicText, Cut, Directory
  <2>2. own' \subseteq Names
    BY <1>0, <1>4 DEF WriteK275Ledger, AtomicText, Cut, Records
  <2> QED  BY <1>4, <2>1, <2>2 DEF WriteK275Ledger, AtomicText, Cut, Goto, inputs
<1>5. CASE WriteK275Manifest
  <2>1. mixed' \in Directory
    BY <1>5, Fields DEF WriteK275Manifest, Cut, Directory
  <2>2. own' \subseteq Names
    BY <1>0, <1>5 DEF WriteK275Manifest, Cut, Records
  <2> QED  BY <1>5, <2>1, <2>2 DEF WriteK275Manifest, Cut, Goto, inputs
<1>6. CASE WriteK275Marker
  <2>1. mixed' \in Directory
    BY <1>6, Fields DEF WriteK275Marker, Cut, Directory
  <2>2. own' \subseteq Names
    BY <1>0, <1>6 DEF WriteK275Marker, Cut, Records
  <2> QED  BY <1>6, <2>1, <2>2 DEF WriteK275Marker, Cut, Goto, inputs
<1>7. CASE PublishK275
  BY <1>7 DEF PublishK275, End, Goto, inputs, checkpoint
<1> QED
  BY <1>1, <1>2, <1>3, <1>4, <1>5, <1>6, <1>7

LEMMA TypesStep == ASSUME TypeOK, TodoInv, PhaseInv, OutputInv, [Next]_vars PROVE TypeOK'
<1>1. CASE UNCHANGED vars
  BY <1>1, ZenonT(40) DEF TypeOK, vars, inputs, checkpoint, derived, tool
<1> QED
  BY <1>1, AssemblerTyped, DerivationTyped, OthersTyped DEF Next, Steps

-----------------------------------------------------------------------------
(* The seal                                                                *)

\* What rotted reads "rot", and the manifest lists what the files should be; every
\* file that the passing verification read is what it should be, or rotted since,
\* and no receipt is missing, so that no later assembly can spoil it; what is
\* sealed was verified.
Intact ==
  /\ \A f \in Payload \ rotted : base.files[f] = "base"
  /\ base.manifest = AllBase
SealInv ==
  /\ \A f \in rotted : base.files[f] = "rot"
  /\ base.manifest \in {Unwritten, AllBase}
  /\ base.marker # NoMarker \/ verification = "passed" => \A c \in Carried : receipts[c] = "base"
  /\ verification = "passed" => Intact
  /\ at \in {"seal", "move", "record"} \/ place = "final" => verification = "passed"

\* A file is replaced by what it should be, or by rot where it had rotted.
LEMMA PutKeepsSeal ==
  ASSUME TypeOK, SealInv, NEW f \in Payload, NEW c \in {"base", "rot"}, Put(f, c),
         c = "base" \/ verification # "passed" \/ f \in rotted, receipts' = receipts,
         verification' = verification, place # "final", at' \notin {"seal", "move", "record"}
  PROVE  SealInv'
<1>1. c \in Content
  BY DEF Content
<1>2. /\ base'.files = [base.files EXCEPT ![f] = c] /\ base'.manifest = base.manifest
      /\ base'.marker = base.marker /\ place' = place
      /\ rotted' = IF c = "base" THEN rotted \ {f} ELSE rotted
  BY <1>1, PutTyped
<1>3. base.files \in Digests /\ rotted \subseteq Payload
  BY Fields DEF TypeOK
<1>4. \A g \in Payload : base'.files[g] = IF g = f THEN c ELSE base.files[g]
  BY <1>2, <1>3 DEF Digests
<1>5. \A g \in rotted' : base'.files[g] = "rot"
  BY <1>2, <1>3, <1>4 DEF SealInv
<1>6. verification = "passed" => Intact'
  BY <1>2, <1>3, <1>4 DEF SealInv, Intact
<1> QED
  BY <1>2, <1>5, <1>6 DEF SealInv

\* A step that keeps the files, the verification and the receipts.
LEMMA SameSeal ==
  ASSUME SealInv, base' = base, rotted' = rotted, receipts' = receipts,
         verification' = verification, place # "final" => place' # "final",
         at' \in {"seal", "move", "record"} => verification = "passed"
  PROVE  SealInv'
BY DEF SealInv, Intact

LEMMA CopyKeepsSeal ==
  ASSUME TypeOK, SealInv, NEW f \in todo, CopySteps(f), at \in {"auxiliary", "experts"},
         place = "incoming", receipts' = receipts, verification' = verification
  PROVE  SealInv'
<1>1. f \in Payload
  BY FilesAre DEF TypeOK
<1>2. CASE Listed(f, "base", at) /\ UNCHANGED <<base, place, litter, rotted>>
  BY <1>2, SameSeal DEF Listed
<1>3. CASE Put(f, "base") /\ Listed(f, "base", at)
  BY <1>1, <1>3, PutKeepsSeal DEF Listed
<1>4. CASE Raise /\ UNCHANGED <<base, place, litter, rotted>>
  BY <1>4, SameSeal, RaiseTyped
<1> QED
  BY <1>2, <1>3, <1>4 DEF CopySteps

LEMMA SealStep ==
  ASSUME TypeOK, TodoInv, PhaseInv, OutputInv, SealInv, [Next]_vars
  PROVE  SealInv'
<1>1. CASE CopyAuxiliary
  BY <1>1, CopyIs, CopyKeepsSeal DEF CopyAuxiliary, PhaseInv
<1>2. CASE CopyExpert
  BY <1>2, CopyIs, CopyKeepsSeal DEF CopyExpert, PhaseInv
<1>3. CASE CarryShard
  <2>1. PICK c \in todo :
         \/ Kept(c) /\ Listed(c, "base", at) /\ UNCHANGED <<base, place, litter, rotted>>
         \/ ~Kept(c) /\ Put(c, origin[c])
            /\ IF SameTensors(c)
               THEN Goto("receipt", todo) /\ output' = [output EXCEPT ![c] = origin[c]]
               ELSE Raise
    BY <1>3 DEF CarryShard
  <2>2. /\ c \in Payload /\ c \in Carried /\ at = "carried" /\ place = "incoming"
        /\ receipts' = receipts /\ verification' = verification
    BY <1>3, FilesAre DEF CarryShard, TodoInv, PhaseInv
  <2>3. CASE Listed(c, "base", at) /\ UNCHANGED <<base, place, litter, rotted>>
    BY <2>2, <2>3, SameSeal DEF Listed
  <2>4. CASE ~Kept(c) /\ Put(c, origin[c]) /\ at' \in {"receipt", "down"}
    <3>1. origin[c] \in {"base", "rot"}
      BY <2>2, FilesAre DEF TypeOK
    <3>2. verification = "passed" => c \in rotted
      BY <2>2, <2>4 DEF SealInv, Intact, Kept
    <3> QED  BY <2>2, <2>4, <3>1, <3>2, PutKeepsSeal
  <2> QED  BY <2>1, <2>3, <2>4 DEF Goto, Raise, End
<1>4. CASE RecordCarried
  <2>1. PICK c \in todo : /\ output[c] # "none" /\ receipts' = [receipts EXCEPT ![c] = output[c]]
                          /\ Listed(c, output[c], "carried")
    BY <1>4 DEF RecordCarried
  <2>2. c \in Carried /\ output[c] = "base" /\ place = "incoming" /\ receipts \in [Carried -> {"none", "base"}]
    BY <1>4, <2>1, FilesAre DEF RecordCarried, TodoInv, OutputInv, PhaseInv, TypeOK
  <2>3. \A d \in Carried : receipts[d] = "base" => receipts'[d] = "base"
    BY <2>1, <2>2
  <2>4. UNCHANGED <<base, place, rotted, verification>> /\ at' = "carried"
    BY <1>4, <2>1 DEF RecordCarried, Listed
  <2> QED  BY <2>2, <2>3, <2>4 DEF SealInv, Intact
<1>5. CASE NextKind
  BY <1>5, SameSeal DEF NextKind, Goto, checkpoint
<1>6. CASE Generate
  <2>1. Generated \in Payload
    BY FilesAre
  <2> QED  BY <1>6, <2>1, PutKeepsSeal DEF Generate, Listed, PhaseInv
<1>7. CASE WriteManifest
  <2>1. /\ base' = [base EXCEPT !.manifest = AllBase] /\ at' = "ledger" /\ place = "incoming"
        /\ UNCHANGED <<place, receipts, verification, rotted>>
    BY <1>7 DEF WriteManifest, OutputInv, PhaseInv, Goto
  <2>2. base'.files = base.files /\ base'.manifest = AllBase /\ base'.marker = base.marker
    BY <2>1 DEF TypeOK, Directory
  <2> QED  BY <2>1, <2>2 DEF SealInv, Intact
<1>8. CASE WriteLedger
  <2>1. /\ base' = [base EXCEPT !.ledger = AllBase] /\ at' = "marker" /\ place = "incoming"
        /\ UNCHANGED <<place, receipts, verification, rotted>>
    BY <1>8 DEF WriteLedger, OutputInv, PhaseInv, Goto
  <2>2. base'.files = base.files /\ base'.manifest = base.manifest /\ base'.marker = base.marker
    BY <2>1 DEF TypeOK, Directory
  <2> QED  BY <2>1, <2>2 DEF SealInv, Intact
<1>9. CASE WriteMarker
  <2>1. /\ at' = "down" /\ place = "incoming" /\ UNCHANGED <<place, receipts, verification, rotted>>
        /\ \A c \in Carried : receipts[c] = "base"
    BY <1>9 DEF WriteMarker, OutputInv, PhaseInv, End, Goto
  <2>2. base'.files = base.files /\ base'.manifest = base.manifest
    BY <1>9 DEF TypeOK, Directory, WriteMarker
  <2> QED  BY <2>1, <2>2 DEF SealInv, Intact
<1>10. CASE SealMarker
  <2>1. /\ at = "seal" /\ at' = "move" /\ UNCHANGED <<place, receipts, verification, rotted>>
    BY <1>10 DEF SealMarker, Goto
  <2>2. base'.files = base.files /\ base'.manifest = base.manifest
    BY <1>10 DEF TypeOK, Directory, SealMarker
  <2> QED  BY <2>1, <2>2 DEF SealInv, Intact
<1>11. CASE Promote \/ RecordSeal
  <2>1. /\ at \in {"move", "record"} /\ UNCHANGED <<base, receipts, verification, rotted>>
    BY <1>11 DEF Promote, RecordSeal, checkpoint
  <2> QED  BY <2>1 DEF SealInv, Intact
<1>12. CASE CopyTreeLinks \/ ReplaceExpert \/ Describe
  BY <1>12, SameSeal DEF CopyTreeLinks, ReplaceExpert, Describe, Cut, Goto, checkpoint
<1>13. CASE WriteK275Ledger \/ WriteK275Manifest \/ WriteK275Marker \/ PublishK275
  BY <1>13, SameSeal DEF WriteK275Ledger, WriteK275Manifest, WriteK275Marker, PublishK275, AtomicText, Cut,
                         End, Goto, checkpoint
<1>14. CASE AuditArchive \/ Assemble \/ Seal \/ AssembleK275
  BY <1>14, SameSeal DEF AuditArchive, Assemble, Seal, AssembleK275, Goto, checkpoint, tool, SealInv
<1>15. CASE Verify
  <2>1. /\ at = "down" /\ place = "incoming" /\ base.marker # NoMarker
        /\ UNCHANGED <<base, place, receipts, at>>
        /\ verification' = IF Verified THEN "passed" ELSE "failed"
        /\ rotted' = IF Verified THEN {} ELSE rotted
    BY <1>15 DEF Verify, checkpoint, tool
  <2>2. CASE Verified
    <3>1. \A f \in Payload : base.files[f] = base.manifest[f] /\ base.files[f] # "none"
      BY <2>2 DEF Verified, ChecksumsHold
    <3>2. base.manifest # Unwritten
      BY <3>1, FilesAre DEF Unwritten
    <3>3. base.manifest = AllBase
      BY <3>2 DEF SealInv
    <3>4. \A f \in Payload : base.files[f] = "base"
      BY <3>1, <3>3 DEF AllBase
    <3> QED  BY <2>1, <2>2, <3>3, <3>4 DEF SealInv, Intact
  <2>3. CASE ~Verified
    BY <2>1, <2>3 DEF SealInv, Intact
  <2> QED  BY <2>2, <2>3
<1>16. CASE Throw \/ Kill
  BY <1>16, SameSeal, RaiseTyped DEF Throw, Kill, checkpoint
<1>17. CASE Rot
  <2>1. UNCHANGED <<at, place, receipts, verification>>
    BY <1>17 DEF Rot, tool
  <2>2. CASE base' = base /\ rotted' = rotted
    BY <2>1, <2>2, SameSeal DEF SealInv
  <2>3. ASSUME NEW f \in Payload, base' = [base EXCEPT !.files[f] = "rot"], rotted' = rotted \cup {f}
        PROVE  SealInv'
    <3>1. base.files \in Digests /\ rotted \subseteq Payload
      BY Fields DEF TypeOK
    <3>2. base'.files = [base.files EXCEPT ![f] = "rot"] /\ base'.manifest = base.manifest /\ base'.marker = base.marker
      BY <2>3 DEF TypeOK, Directory
    <3>3. \A g \in Payload : base'.files[g] = IF g = f THEN "rot" ELSE base.files[g]
      BY <3>1, <3>2 DEF Digests
    <3> QED  BY <2>1, <2>3, <3>1, <3>2, <3>3 DEF SealInv, Intact
  <2> QED  BY <1>17, <2>2, <2>3 DEF Rot
<1>18. CASE UNCHANGED vars
  BY <1>18, SameSeal DEF vars, checkpoint, tool, SealInv
<1> QED
  BY <1>1, <1>2, <1>3, <1>4, <1>5, <1>6, <1>7, <1>8, <1>9, <1>10, <1>11, <1>12, <1>13, <1>14, <1>15, <1>16,
     <1>17, <1>18 DEF Next, Steps

-----------------------------------------------------------------------------
(* The derived checkpoint                                                  *)

Staged == {"replace", "k275 ledger", "k275 manifest", "k275 marker", "publish"}
StageInv ==
  /\ stage = "staging" <=> at \in Staged
  /\ stage = "final" => at = "down"
  /\ stage # "absent" => place = "final"

\* What its names read, from the links to the selection.
ViewInv ==
  stage # "absent" =>
    /\ \A f \in Payload : ~Mixed(f) => View(f) \in {"base", "rot"}
    /\ \A e \in Selected : (at = "replace" /\ e \in todo) \/ View(e) \in {"mixed", "rot"}
    /\ at = "replace" \/ View(Generated) = "mixed"

\* What its records list, one after the other.
Lists(digests) == \A f \in Payload : digests[f] = View(f) \/ f \in rotted
K275Marker == [manifest |-> mixed.manifest, ledger |-> mixed.ledger, home |-> "k275"]
RecordInv ==
  /\ at \in Staged \ {"replace"} => Lists(output)
  /\ at \in {"k275 manifest", "k275 marker", "publish"} =>
       mixed.ledger = output /\ "SHA256SUMS" \in own
  /\ at \in {"k275 marker", "publish"} => mixed.manifest = output /\ "MANIFEST.json" \in own
  /\ at = "publish" => mixed.marker = K275Marker /\ "ASSEMBLY_COMPLETE.json" \in own
  /\ stage = "final" => /\ Lists(mixed.manifest) /\ mixed.ledger = mixed.manifest
                        /\ mixed.marker = K275Marker /\ Records \subseteq own

LEMMA StageStep == ASSUME PhaseInv, StageInv, [Next]_vars PROVE StageInv'
<1> USE DEF StageInv, Staged
<1>1. CASE CopyAuxiliary
  BY <1>1, CopyIs, CopyAt DEF CopyAuxiliary, derived
<1>2. CASE CopyExpert
  BY <1>2, CopyIs, CopyAt DEF CopyExpert, derived
<1>3. CASE CarryShard
  BY <1>3 DEF CarryShard, Listed, Put, Raise, End, Goto, derived
<1>4. CASE RecordCarried \/ NextKind \/ Generate \/ WriteManifest \/ WriteLedger \/ WriteMarker
  BY <1>4 DEF RecordCarried, NextKind, Generate, WriteManifest, WriteLedger, WriteMarker, Listed, Put,
              End, Goto, checkpoint, derived
<1>5. CASE SealMarker \/ Promote \/ RecordSeal
  BY <1>5 DEF SealMarker, Promote, RecordSeal, End, Goto, checkpoint, derived
<1>6. CASE CopyTreeLinks
  <2>1. at = "link" /\ at' = "replace" /\ stage' = "staging" /\ place' = place
    BY <1>6 DEF CopyTreeLinks, Goto, checkpoint
  <2> QED  BY <2>1 DEF PhaseInv, Derives
<1>7. CASE ReplaceExpert \/ Describe
  BY <1>7 DEF ReplaceExpert, Describe, Goto
<1>8. CASE WriteK275Ledger \/ WriteK275Manifest \/ WriteK275Marker
  BY <1>8 DEF WriteK275Ledger, WriteK275Manifest, WriteK275Marker, Goto
<1>9. CASE PublishK275
  BY <1>9 DEF PublishK275, End, Goto, checkpoint
<1>10. CASE AuditArchive \/ Verify
  BY <1>10 DEF AuditArchive, Verify, checkpoint, tool, derived
<1>11. CASE Assemble \/ Seal \/ AssembleK275
  BY <1>11 DEF Assemble, Seal, AssembleK275, Goto, checkpoint, derived
<1>12. CASE Throw \/ Kill
  BY <1>12 DEF Throw, Kill, Raise, End, Goto, checkpoint, Derives, derived
<1>13. CASE Rot
  BY <1>13 DEF Rot, tool
<1>14. CASE UNCHANGED vars
  BY <1>14 DEF vars, tool, checkpoint, derived
<1> QED
  BY <1>1, <1>2, <1>3, <1>4, <1>5, <1>6, <1>7, <1>8, <1>9, <1>10, <1>11, <1>12, <1>13, <1>14 DEF Next, Steps

\* With no derived checkpoint there is nothing to say.
LEMMA NotStaged ==
  ASSUME StageInv', stage' = "absent" PROVE ViewInv' /\ RecordInv'
BY DEF StageInv, Staged, ViewInv, RecordInv

\* Steps of the other tools leave it absent, or alone.
LEMMA NotDerived ==
  ASSUME TypeOK, PhaseInv, StageInv, [Next]_vars, StageInv', stage' # "absent"
  PROVE  \/ CopyTreeLinks \/ ReplaceExpert \/ Describe \/ WriteK275Ledger \/ WriteK275Manifest
         \/ WriteK275Marker \/ PublishK275 \/ Rot
         \/ /\ stage = "final" /\ at = "down" /\ at' = "down"
            /\ UNCHANGED <<base, own, mixed, rotted, stage>>
         \/ UNCHANGED vars
<1> SUFFICES ASSUME ~CopyTreeLinks, ~ReplaceExpert, ~Describe, ~WriteK275Ledger, ~WriteK275Manifest,
                    ~WriteK275Marker, ~PublishK275, ~Rot, ~UNCHANGED vars
             PROVE  /\ stage = "final" /\ at = "down" /\ at' = "down"
                    /\ UNCHANGED <<base, own, mixed, rotted, stage>>
  OBVIOUS
<1>0. stage \in {"absent", "staging", "final"}
  BY DEF TypeOK
<1>1. CASE \/ CopyAuxiliary \/ CopyExpert \/ CarryShard \/ RecordCarried \/ NextKind \/ Generate
           \/ WriteManifest \/ WriteLedger \/ WriteMarker \/ SealMarker \/ Promote \/ RecordSeal
  <2>1. stage' = stage
    BY <1>1 DEF CopyAuxiliary, CopyExpert, CarryShard, RecordCarried, NextKind, Generate, WriteManifest,
                WriteLedger, WriteMarker, SealMarker, Promote, RecordSeal, derived
  <2>2. at \in {"auxiliary", "carried", "receipt", "experts", "generated", "manifest", "ledger", "marker",
                "seal", "move", "record"}
    BY <1>1 DEF CopyAuxiliary, CopyExpert, CarryShard, RecordCarried, NextKind, Generate, WriteManifest,
                WriteLedger, WriteMarker, SealMarker, Promote, RecordSeal
  <2>3. stage = "final" \/ stage = "staging"
    BY <1>0, <2>1
  <2> QED  BY <2>2, <2>3 DEF StageInv, Staged
<1>2. CASE AuditArchive
  BY <1>0, <1>2 DEF AuditArchive, StageInv, Staged, checkpoint, derived, tool
<1>3. CASE Assemble \/ Verify \/ Seal \/ AssembleK275
  BY <1>0, <1>3 DEF Assemble, Verify, Seal, AssembleK275, StageInv, checkpoint, derived
<1>4. CASE Throw \/ Kill
  BY <1>0, <1>4 DEF Throw, Kill, StageInv, Staged, Derives, derived
<1> QED
  BY <1>1, <1>2, <1>3, <1>4 DEF Next, Steps

\* The records' names are none of the files'.
LEMMA CutRecord ==
  ASSUME TypeOK, NEW name \in Records, NEW directory \in Directory, directory.files = mixed.files,
         Cut({name}, directory)
  PROVE  \A f \in Payload : View(f)' = View(f)
<1>1. \A f \in Payload : f # name
  BY AssemblyAssumption
<1> QED
  BY <1>1 DEF Cut, View

LEMMA CutFile ==
  ASSUME TypeOK, NEW f \in Payload, NEW c \in Content, Cut({f}, [mixed EXCEPT !.files[f] = c])
  PROVE  /\ \A g \in Payload : View(g)' = IF g = f THEN c ELSE View(g)
         /\ mixed'.manifest = mixed.manifest /\ mixed'.ledger = mixed.ledger /\ mixed'.marker = mixed.marker
<1>1. /\ mixed'.files = [mixed.files EXCEPT ![f] = c] /\ own' = own \cup {f} /\ base' = base
      /\ mixed'.manifest = mixed.manifest /\ mixed'.ledger = mixed.ledger /\ mixed'.marker = mixed.marker
  BY DEF Cut, TypeOK, Directory
<1>2. mixed.files \in Digests
  BY Fields DEF TypeOK
<1>3. \A g \in Payload : mixed'.files[g] = IF g = f THEN c ELSE mixed.files[g]
  BY <1>1, <1>2 DEF Digests
<1> QED
  BY <1>1, <1>3 DEF View

\* A rotten file of the base is read through a link, or not at all.
LEMMA RotViews ==
  ASSUME TypeOK, Rot
  PROVE  /\ UNCHANGED <<at, todo, output, own, mixed, stage>> /\ rotted \subseteq rotted'
         /\ \A f \in Payload : View(f)' = View(f) \/ (View(f)' = "rot" /\ View(f) = "base" /\ f \in rotted')
<1>1. UNCHANGED <<at, todo, output, own, mixed, stage>>
  BY DEF Rot, tool
<1>2. CASE base' = base /\ rotted' = rotted
  BY <1>1, <1>2 DEF View
<1>3. ASSUME NEW f \in Payload, base.files[f] = "base", base' = [base EXCEPT !.files[f] = "rot"],
             rotted' = rotted \cup {f}
      PROVE  /\ rotted \subseteq rotted'
             /\ \A g \in Payload : View(g)' = View(g) \/ (View(g)' = "rot" /\ View(g) = "base" /\ g \in rotted')
  <2>1. base.files \in Digests
    BY Fields DEF TypeOK
  <2>2. base'.files = [base.files EXCEPT ![f] = "rot"]
    BY <1>3 DEF TypeOK, Directory
  <2>3. \A g \in Payload : base'.files[g] = IF g = f THEN "rot" ELSE base.files[g]
    BY <2>1, <2>2 DEF Digests
  <2> QED  BY <1>1, <1>3, <2>3 DEF View
<1> QED
  BY <1>1, <1>2, <1>3 DEF Rot

LEMMA ViewStep ==
  ASSUME TypeOK, TodoInv, PhaseInv, SealInv, StageInv, ViewInv, [Next]_vars, StageInv'
  PROVE  ViewInv'
<1> SUFFICES ASSUME stage' # "absent" PROVE ViewInv'
  BY DEF ViewInv
<1>1. CASE CopyTreeLinks
  <2>1. at' = "replace" /\ todo' = Selected /\ base' = base /\ place = "final"
    BY <1>1 DEF CopyTreeLinks, Goto, checkpoint, PhaseInv, Derives
  <2>2. (own' = {} /\ mixed' = Nothing) \/ (own' = Names /\ mixed' = base)
    BY <1>1 DEF CopyTreeLinks
  <2>3. \A f \in Payload : base.files[f] \in {"base", "rot"}
    BY <2>1 DEF SealInv, Intact
  <2>4. \A f \in Payload : View(f)' = base.files[f]
    BY <2>1, <2>2 DEF View, Names
  <2> QED  BY <2>1, <2>3, <2>4 DEF ViewInv
<1>2. CASE ReplaceExpert
  <2>1. PICK e \in todo : /\ Cut({e}, [mixed EXCEPT !.files[e] = k2[e]])
                          /\ Goto("replace", todo \ {e})
    BY <1>2 DEF ReplaceExpert
  <2>2. e \in Payload /\ e \in Selected /\ k2[e] \in {"mixed", "rot"} /\ k2[e] \in Content /\ at = "replace"
    BY <1>2, FilesAre DEF ReplaceExpert, TodoInv, TypeOK, Content
  <2>3. \A g \in Payload : View(g)' = IF g = e THEN k2[e] ELSE View(g)
    BY <2>1, <2>2, CutFile
  <2>4. stage # "absent" /\ at' = "replace" /\ todo' = todo \ {e} /\ Selected \subseteq Payload
    BY <1>2, <2>1, FilesAre DEF ReplaceExpert, Goto
  <2> QED  BY <2>2, <2>3, <2>4 DEF ViewInv, Mixed
<1>3. CASE Describe
  <2>1. Generated \in Payload /\ "mixed" \in Content /\ Generated \notin Selected /\ Selected \subseteq Payload
    BY AssemblyAssumption, FilesAre DEF Content, Copied
  <2>2. Cut({Generated}, [mixed EXCEPT !.files[Generated] = "mixed"])
    BY <1>3 DEF Describe
  <2>3. \A g \in Payload : View(g)' = IF g = Generated THEN "mixed" ELSE View(g)
    BY <2>1, <2>2, CutFile
  <2>4. stage # "absent" /\ at = "replace" /\ todo = {} /\ at' = "k275 ledger"
    BY <1>3 DEF Describe, Goto
  <2> QED  BY <2>1, <2>3, <2>4 DEF ViewInv, Mixed
<1>4. ASSUME at # "replace", at' # "replace", stage # "absent", \A f \in Payload : View(f)' = View(f)
      PROVE  ViewInv'
  <2>1. Generated \in Payload /\ Selected \subseteq Payload
    BY FilesAre
  <2> QED  BY <1>4, <2>1 DEF ViewInv, Mixed
<1>5. CASE WriteK275Ledger
  <2>1. [mixed EXCEPT !.ledger = output] \in Directory /\ [mixed EXCEPT !.ledger = output].files = mixed.files
    BY DEF TypeOK, Directory
  <2>2. \A f \in Payload : View(f)' = View(f)
    BY <1>5, <2>1, CutRecord DEF WriteK275Ledger, AtomicText, Records
  <2> QED  BY <1>4, <1>5, <2>2 DEF WriteK275Ledger, Goto
<1>6. CASE WriteK275Manifest
  <2>1. [mixed EXCEPT !.manifest = output] \in Directory /\ [mixed EXCEPT !.manifest = output].files = mixed.files
    BY DEF TypeOK, Directory
  <2>2. \A f \in Payload : View(f)' = View(f)
    BY <1>6, <2>1, CutRecord DEF WriteK275Manifest, Records
  <2> QED  BY <1>4, <1>6, <2>2 DEF WriteK275Manifest, Goto
<1>7. CASE WriteK275Marker
  <2>1. [mixed EXCEPT !.marker = K275Marker] \in Directory /\ [mixed EXCEPT !.marker = K275Marker].files = mixed.files
    BY DEF TypeOK, Directory, K275Marker
  <2>2. \A f \in Payload : View(f)' = View(f)
    BY <1>7, <2>1, CutRecord DEF WriteK275Marker, Records, K275Marker
  <2> QED  BY <1>4, <1>7, <2>2 DEF WriteK275Marker, Goto
<1>8. CASE PublishK275
  <2>1. at = "publish" /\ at' = "down" /\ stage = "staging" /\ UNCHANGED <<base, own, mixed>>
    BY <1>8 DEF PublishK275, End, Goto, checkpoint, StageInv, Staged
  <2> QED  BY <1>4, <2>1 DEF View
<1>9. CASE Rot
  <2>1. Generated \in Payload /\ Selected \subseteq Payload
    BY FilesAre
  <2>2. stage # "absent" /\ at' = at /\ todo' = todo
    BY <1>9, RotViews
  <2>3. \A f \in Payload : View(f)' = View(f) \/ (View(f)' = "rot" /\ View(f) = "base")
    BY <1>9, RotViews
  <2> QED  BY <2>1, <2>2, <2>3 DEF ViewInv, Mixed
<1>10. CASE stage = "final" /\ at = "down" /\ at' = "down" /\ UNCHANGED <<base, own, mixed>>
  BY <1>4, <1>10 DEF View
<1>11. CASE UNCHANGED vars
  BY <1>11 DEF vars, checkpoint, derived, tool, ViewInv, View
<1> QED
  BY <1>1, <1>2, <1>3, <1>5, <1>6, <1>7, <1>8, <1>9, <1>10, <1>11, NotDerived

\* Lists survives a step that keeps what the names read.
LEMMA KeptLists ==
  ASSUME NEW digests, Lists(digests), \A f \in Payload : View(f)' = View(f), rotted' = rotted
  PROVE  \A f \in Payload : digests[f] = View(f)' \/ f \in rotted'
BY DEF Lists

LEMMA RecordStep ==
  ASSUME TypeOK, TodoInv, PhaseInv, StageInv, RecordInv, [Next]_vars, StageInv'
  PROVE  RecordInv'
<1> SUFFICES ASSUME stage' # "absent" PROVE RecordInv'
  BY NotStaged DEF RecordInv, StageInv, Staged
<1>0. stage' # "final" \/ at' = "down"
  BY DEF StageInv
<1>1. CASE CopyTreeLinks \/ ReplaceExpert
  <2>1. at' = "replace"
    BY <1>1 DEF CopyTreeLinks, ReplaceExpert, Goto
  <2> QED  BY <1>0, <2>1 DEF RecordInv, Staged
<1>2. CASE Describe
  <2>1. Generated \in Payload /\ "mixed" \in Content
    BY FilesAre DEF Content
  <2>2. Cut({Generated}, [mixed EXCEPT !.files[Generated] = "mixed"]) /\ at' = "k275 ledger"
        /\ output' = [f \in Payload |-> IF f = Generated THEN "mixed" ELSE View(f)]
    BY <1>2 DEF Describe, Goto
  <2>3. \A g \in Payload : View(g)' = IF g = Generated THEN "mixed" ELSE View(g)
    BY <2>1, <2>2, CutFile
  <2>4. Lists(output)'
    BY <2>2, <2>3 DEF Lists
  <2> QED  BY <1>0, <2>2, <2>4 DEF RecordInv, Staged
<1>3. CASE WriteK275Ledger
  <2>1. /\ at = "k275 ledger" /\ at' = "k275 manifest" /\ output' = output /\ rotted' = rotted
        /\ Cut({"SHA256SUMS"}, [mixed EXCEPT !.ledger = output])
    BY <1>3 DEF WriteK275Ledger, AtomicText, Goto
  <2>2. [mixed EXCEPT !.ledger = output] \in Directory /\ [mixed EXCEPT !.ledger = output].files = mixed.files
        /\ [mixed EXCEPT !.ledger = output].ledger = output
    BY DEF TypeOK, Directory
  <2>3. \A f \in Payload : View(f)' = View(f)
    BY <2>1, <2>2, CutRecord DEF Records
  <2>4. Lists(output)'
    BY <2>1, <2>3 DEF RecordInv, Staged, Lists
  <2>5. mixed'.ledger = output /\ "SHA256SUMS" \in own'
    BY <2>1, <2>2 DEF Cut
  <2> QED  BY <1>0, <2>1, <2>4, <2>5 DEF RecordInv, Staged
<1>4. CASE WriteK275Manifest
  <2>1. /\ at = "k275 manifest" /\ at' = "k275 marker" /\ output' = output /\ rotted' = rotted
        /\ Cut({"MANIFEST.json"}, [mixed EXCEPT !.manifest = output])
    BY <1>4 DEF WriteK275Manifest, Goto
  <2>2. [mixed EXCEPT !.manifest = output] \in Directory /\ [mixed EXCEPT !.manifest = output].files = mixed.files
        /\ [mixed EXCEPT !.manifest = output].manifest = output
        /\ [mixed EXCEPT !.manifest = output].ledger = mixed.ledger
    BY DEF TypeOK, Directory
  <2>3. \A f \in Payload : View(f)' = View(f)
    BY <2>1, <2>2, CutRecord DEF Records
  <2>4. Lists(output)'
    BY <2>1, <2>3 DEF RecordInv, Staged, Lists
  <2>5. mixed'.manifest = output /\ mixed'.ledger = mixed.ledger /\ own' = own \cup {"MANIFEST.json"}
    BY <2>1, <2>2 DEF Cut
  <2> QED  BY <1>0, <2>1, <2>4, <2>5 DEF RecordInv, Staged
<1>5. CASE WriteK275Marker
  <2>1. /\ at = "k275 marker" /\ at' = "publish" /\ output' = output /\ rotted' = rotted
        /\ Cut({"ASSEMBLY_COMPLETE.json"}, [mixed EXCEPT !.marker = K275Marker])
    BY <1>5 DEF WriteK275Marker, Goto, K275Marker
  <2>2. [mixed EXCEPT !.marker = K275Marker] \in Directory
        /\ [mixed EXCEPT !.marker = K275Marker].files = mixed.files
        /\ [mixed EXCEPT !.marker = K275Marker].manifest = mixed.manifest
        /\ [mixed EXCEPT !.marker = K275Marker].ledger = mixed.ledger
        /\ [mixed EXCEPT !.marker = K275Marker].marker = K275Marker
    BY DEF TypeOK, Directory, K275Marker
  <2>3. \A f \in Payload : View(f)' = View(f)
    BY <2>1, <2>2, CutRecord DEF Records
  <2>4. Lists(output)'
    BY <2>1, <2>3 DEF RecordInv, Staged, Lists
  <2>5. /\ mixed'.manifest = mixed.manifest /\ mixed'.ledger = mixed.ledger /\ mixed'.marker = K275Marker
        /\ own' = own \cup {"ASSEMBLY_COMPLETE.json"}
    BY <2>1, <2>2 DEF Cut
  <2>6. mixed'.marker = K275Marker'
    BY <2>5 DEF K275Marker
  <2> QED  BY <1>0, <2>1, <2>4, <2>5, <2>6 DEF RecordInv, Staged
<1>6. CASE PublishK275
  <2>1. at = "publish" /\ at' = "down" /\ UNCHANGED <<base, own, mixed, rotted, output>>
    BY <1>6 DEF PublishK275, End, Goto, checkpoint
  <2>2. /\ Lists(output) /\ mixed.ledger = output /\ mixed.manifest = output /\ mixed.marker = K275Marker
        /\ Records \subseteq own
    BY <2>1 DEF RecordInv, Staged, Records
  <2>3. Lists(mixed.manifest)' /\ (mixed.marker = K275Marker)'
    BY <2>1, <2>2 DEF Lists, View, K275Marker
  <2> QED  BY <2>1, <2>2, <2>3 DEF RecordInv, Staged
<1>7. CASE Rot
  <2>1. UNCHANGED <<at, output, own, mixed, stage>> /\ rotted \subseteq rotted'
        /\ \A f \in Payload : View(f)' = View(f) \/ f \in rotted'
    BY <1>7, RotViews
  <2>2. (Lists(output) => Lists(output)') /\ (Lists(mixed.manifest) => Lists(mixed.manifest)')
    BY <2>1 DEF Lists
  <2> QED  BY <2>1, <2>2 DEF RecordInv, Staged, K275Marker
<1>8. CASE stage = "final" /\ at = "down" /\ at' = "down" /\ UNCHANGED <<base, own, mixed, rotted, stage>>
  BY <1>8 DEF RecordInv, Staged, Lists, View, K275Marker
<1>9. CASE UNCHANGED vars
  BY <1>9 DEF vars, checkpoint, derived, tool, RecordInv, Staged, Lists, View, K275Marker
<1> QED
  BY <1>1, <1>2, <1>3, <1>4, <1>5, <1>6, <1>7, <1>8, <1>9, NotDerived

-----------------------------------------------------------------------------
(* The theorems                                                            *)

IndInv ==
  TypeOK /\ TodoInv /\ PhaseInv /\ OutputInv /\ SealInv /\ StageInv /\ ViewInv /\ RecordInv

LEMMA InitiallyInd == Init => IndInv
<1> SUFFICES ASSUME Init PROVE IndInv
  OBVIOUS
<1>1. TodoInv /\ PhaseInv /\ OutputInv /\ StageInv /\ ViewInv /\ RecordInv
  BY DEF Init, TodoInv, PhaseInv, Derives, OutputInv, StageInv, Staged, ViewInv, RecordInv
<1>2. SealInv
  BY DEF Init, SealInv, Nothing
<1> QED
  BY <1>1, <1>2, InitiallyTyped DEF IndInv

LEMMA IndStep == IndInv /\ [Next]_vars => IndInv'
BY TypesStep, TodoStep, PhaseStep, OutputStep, SealStep, StageStep, ViewStep, RecordStep DEF IndInv

LEMMA IndAlways == Spec => []IndInv
BY InitiallyInd, IndStep, PTL DEF Spec

\* The values of the state: TypeOK.
THEOREM Types == Spec => []TypeOK
<1>1. IndInv => TypeOK
  BY DEF IndInv
<1> QED
  BY <1>1, IndAlways, PTL

\* A checkpoint at its final name holds what was verified: SealedIsVerified.
THEOREM Sealed == Spec => []SealedIsVerified
<1>1. IndInv => SealedIsVerified
  BY DEF IndInv, SealInv, Intact, AllBase, SealedIsVerified
<1> QED
  BY <1>1, IndAlways, PTL

\* The published K2/K3 checkpoint is the selection's, and its records are true of
\* it: MixedIsTheSelection.
THEOREM Selection == Spec => []MixedIsTheSelection
<1>1. IndInv => MixedIsTheSelection
  <2> SUFFICES ASSUME IndInv, stage = "final" PROVE MixedIsTheSelection
    BY DEF MixedIsTheSelection
  <2>1. at = "down" /\ ViewInv /\ RecordInv
    BY DEF IndInv, StageInv
  <2>2. \A f \in Payload : View(f) \in {IF Mixed(f) THEN "mixed" ELSE "base", "rot"}
    BY <2>1 DEF ViewInv, Mixed
  <2> QED  BY <2>1, <2>2 DEF RecordInv, Lists, K275Marker, MixedIsTheSelection
<1> QED
  BY <1>1, IndAlways, PTL

\* Deriving by hard links writes through none of them: SealedNeverWritten.
THEOREM NeverWritten == Spec => SealedNeverWritten
<1>1. IndInv /\ [Next]_vars =>
        [place = "final" =>
           /\ base'.manifest = base.manifest /\ base'.ledger = base.ledger
           /\ base'.marker = base.marker
           /\ \A f \in Payload : base'.files[f] \in {base.files[f], "rot"}]_vars
  <2> SUFFICES ASSUME IndInv, [Next]_vars, place = "final"
               PROVE  /\ base'.manifest = base.manifest /\ base'.ledger = base.ledger
                      /\ base'.marker = base.marker
                      /\ \A f \in Payload : base'.files[f] \in {base.files[f], "rot"}
    OBVIOUS
  <2>1. at \notin {"auxiliary", "carried", "receipt", "experts", "generated", "manifest", "ledger",
                   "marker", "seal", "move"}
    BY DEF IndInv, PhaseInv
  <2>2. CASE base' = base
    BY <2>2
  <2>3. CASE Rot
    <3>1. base \in Directory
      BY DEF IndInv, TypeOK
    <3>2. ASSUME NEW f \in Payload, base' = [base EXCEPT !.files[f] = "rot"]
          PROVE  /\ base'.manifest = base.manifest /\ base'.ledger = base.ledger
                 /\ base'.marker = base.marker
                 /\ \A g \in Payload : base'.files[g] \in {base.files[g], "rot"}
      <4>1. base.files \in Digests
        BY <3>1, Fields
      <4>2. /\ base'.files = [base.files EXCEPT ![f] = "rot"] /\ base'.manifest = base.manifest
            /\ base'.ledger = base.ledger /\ base'.marker = base.marker
        BY <3>1, <3>2 DEF Directory
      <4> QED  BY <4>1, <4>2 DEF Digests
    <3> QED  BY <2>2, <2>3, <3>2 DEF Rot
  <2>4. CASE Steps
    BY <2>1, <2>4 DEF Steps, CopyAuxiliary, CarryShard, RecordCarried, CopyExpert, NextKind, Generate,
         WriteManifest, WriteLedger, WriteMarker, SealMarker, Promote, RecordSeal, CopyTreeLinks,
         ReplaceExpert, Describe, WriteK275Ledger, AtomicText, WriteK275Manifest, WriteK275Marker,
         PublishK275, Cut, checkpoint
  <2>5. CASE \/ AuditArchive \/ Assemble \/ Verify \/ Seal \/ AssembleK275 \/ Throw \/ Kill \/ UNCHANGED vars
    BY <2>5 DEF AuditArchive, Assemble, Verify, Seal, AssembleK275, Throw, Kill, vars, checkpoint
  <2> QED  BY <2>2, <2>3, <2>4, <2>5 DEF Next
<1> QED
  BY <1>1, IndAlways, PTL DEF Spec, SealedNeverWritten
=============================================================================

------------------------- MODULE CandidateClusterProofs -------------------------
(***************************************************************************)
(* What CandidateCluster keeps for any number of attempts, ranks, polls    *)
(* and mishaps: a recorded stop, or a recorded failure on which no stop    *)
(* was lost, means that no rank of that attempt is running.  And what      *)
(* ProtectedServices keeps for any hosts, rotations and mishaps: a passed  *)
(* verdict means an undisturbed run.                                       *)
(***************************************************************************)
EXTENDS CandidateCluster, ProtectedServices, TLAPS

\* The launching loop never runs past the last rank.
Looping == \A a \in Attempts : pc[a] = "launch" => at[a] <= LastRank

Typed == TypeOK /\ Looping

-----------------------------------------------------------------------------
(* Types *)

USE ClusterAssumption

LEMMA MishapTyped == ASSUME TypeOK, Mishap PROVE mishaps' \in 0 .. MaxMishaps
BY DEF TypeOK, Mishap

Labels == Armed \cup {"idle", "replication", "refused", "stopping", "ready", "failed", "crashed"}

LEMMA GotoTyped ==
  ASSUME TypeOK, NEW a \in Attempts, NEW label \in Labels, Goto(a, label)
  PROVE  /\ pc' \in [Attempts -> Labels] /\ at' \in [Attempts -> 0 .. Count]
         /\ pc'[a] = label /\ at'[a] = 0
         /\ \A b \in Attempts \ {a} : pc'[b] = pc[b] /\ at'[b] = at[b]
BY DEF TypeOK, Goto, Labels, Count

LEMMA NextTyped ==
  ASSUME TypeOK, NEW a \in Attempts, at[a] <= LastRank, NextRank(a)
  PROVE  /\ pc' = pc /\ at' \in [Attempts -> 0 .. Count]
         /\ at'[a] = at[a] + 1
         /\ \A b \in Attempts \ {a} : at'[b] = at[b]
BY DEF TypeOK, NextRank, Count

LEMMA TypesInit == Init => Typed
BY DEF Init, Typed, TypeOK, Looping, GuardAt, Count, Labels, Armed

\* A step of the launcher's place in the attempt.
LauncherPlace(a) ==
  /\ pc' \in [Attempts -> Labels] /\ at' \in [Attempts -> 0 .. Count]
  /\ pc'[a] = "launch" => at'[a] <= LastRank
  /\ \A b \in Attempts \ {a} : pc'[b] = pc[b] /\ at'[b] = at[b]

LEMMA GotoPlace ==
  ASSUME TypeOK, NEW a \in Attempts, NEW label \in Labels, Goto(a, label) PROVE LauncherPlace(a)
BY GotoTyped DEF LauncherPlace

LEMMA PlaceTyped ==
  ASSUME Typed, NEW a \in Attempts, LauncherPlace(a) PROVE Looping'
BY DEF Typed, Looping, LauncherPlace

LEMMA LauncherTypes ==
  ASSUME Typed, NEW a \in Attempts, StartAttempt(a) \/ Launcher(a) \/ LauncherDies(a)
  PROVE  Typed'
<1> USE DEF launchVars, nodeVars, stopVars, worldVars, others
<1>1. TypeOK /\ Looping
  BY DEF Typed
<1>2. ASSUME LauncherPlace(a), UNCHANGED others,
             mishaps' \in 0 .. MaxMishaps, polls' \in [Attempts -> 0 .. MaxPolls],
             receipts' \in [Attempts -> SUBSET Receipts],
             status' \in [Attempts -> {"none", "preflight", "launching", "loading", "ready", "failed"}]
      PROVE  Typed'
  BY <1>1, <1>2, PlaceTyped DEF Typed, TypeOK, LauncherPlace, Labels
<1>3. CASE StartAttempt(a)
  <2>1. LauncherPlace(a)
    BY <1>1, <1>3, GotoPlace DEF StartAttempt, Labels
  <2> QED  BY <1>1, <1>2, <1>3, <2>1 DEF StartAttempt, TypeOK
<1>4. CASE CheckReplication(a)
  <2>1. LauncherPlace(a) /\ mishaps' \in 0 .. MaxMishaps
    BY <1>1, <1>4, GotoPlace, MishapTyped DEF CheckReplication, Labels, Armed, TypeOK
  <2> QED  BY <1>1, <1>2, <1>4, <2>1 DEF CheckReplication, TypeOK
<1>5. CASE PreflightRank(a)
  <2>1. at[a] <= LastRank /\ at[a] \in Nat
    BY <1>1, <1>5 DEF PreflightRank, TypeOK, Ranks
  <2>2. LauncherPlace(a)
    <3>1. CASE Goto(a, "audit")
      BY <1>1, <3>1, GotoPlace DEF Labels, Armed
    <3>2. CASE NextRank(a)
      BY <1>1, <1>5, <2>1, <3>2, NextTyped DEF LauncherPlace, PreflightRank, TypeOK, Labels
    <3> QED  BY <1>5, <3>1, <3>2 DEF PreflightRank
  <2> QED  BY <1>1, <1>2, <1>5, <2>2 DEF PreflightRank, TypeOK
<1>6. CASE PrelaunchAudit(a)
  <2>1. LauncherPlace(a)
    BY <1>1, <1>6, GotoPlace DEF PrelaunchAudit, Labels, Armed
  <2> QED  BY <1>1, <1>2, <1>6, <2>1 DEF PrelaunchAudit, TypeOK
<1>7. CASE LaunchRank(a)
  <2>1. at[a] \in Ranks
    BY <1>1, <1>7 DEF LaunchRank, TypeOK, Looping, Ranks, Count
  <2>2. LauncherPlace(a) /\ status' \in [Attempts -> {"none", "preflight", "launching", "loading", "ready", "failed"}]
    <3>1. CASE Goto(a, "loading")
      BY <1>1, <1>7, <3>1, GotoPlace DEF LaunchRank, TypeOK, Labels, Armed
    <3>2. CASE NextRank(a) /\ at[a] # LastRank
      <4>1. at'[a] <= LastRank
        BY <1>1, <2>1, <3>2, NextTyped DEF Ranks
      <4> QED  BY <1>1, <1>7, <2>1, <3>2, <4>1, NextTyped, SMTT(20) DEF LauncherPlace, LaunchRank, TypeOK, Labels, Ranks
    <3> QED  BY <1>7, <3>1, <3>2 DEF LaunchRank
  <2>3. /\ container' \in [Attempts -> [Ranks -> {"absent", "running", "exited", "oom"}]]
        /\ dog' \in [Attempts -> [Ranks -> {"none", "watching", "stopping", "ended"}]]
        /\ mishaps' \in 0 .. MaxMishaps
    <3>1. container \in [Attempts -> [Ranks -> {"absent", "running", "exited", "oom"}]]
      BY <1>1 DEF TypeOK
    <3>2. container' = container \/ container' = [container EXCEPT ![a][at[a]] = "running"]
      BY <1>7 DEF LaunchRank
    <3>3. container' \in [Attempts -> [Ranks -> {"absent", "running", "exited", "oom"}]]
      BY <2>1, <3>1, <3>2
    <3>4. dog' \in [Attempts -> [Ranks -> {"none", "watching", "stopping", "ended"}]]
      BY <1>1, <1>7, <2>1 DEF LaunchRank, TypeOK
    <3>5. mishaps' \in 0 .. MaxMishaps
      BY <1>1, <1>7, MishapTyped DEF LaunchRank, TypeOK
    <3> QED  BY <3>3, <3>4, <3>5
  <2>4. UNCHANGED <<stopVars, worldVars, guard, low, polls, receipts, stopMark>>
    BY <1>7 DEF LaunchRank
  <2> QED  BY <1>1, <2>2, <2>3, <2>4, PlaceTyped DEF Typed, TypeOK, LauncherPlace, Labels
<1>8. CASE PollRank(a)
  <2>1. LauncherPlace(a)
    BY <1>1, <1>8, NextTyped DEF PollRank, LauncherPlace, TypeOK, Labels
  <2> QED  BY <1>1, <1>2, <1>8, <2>1 DEF PollRank, TypeOK
<1>9. CASE ProbeHealth(a)
  <2>1. LauncherPlace(a)
    BY <1>1, <1>9, GotoPlace DEF ProbeHealth, Labels, Armed
  <2>2. polls' \in [Attempts -> 0 .. MaxPolls]
    <3>1. polls' = polls \/ (polls[a] < MaxPolls /\ polls' = [polls EXCEPT ![a] = @ + 1])
      BY <1>9 DEF ProbeHealth
    <3>2. polls \in [Attempts -> 0 .. MaxPolls]
      BY <1>1 DEF TypeOK
    <3> QED  BY <3>1, <3>2
  <2> QED  BY <1>1, <1>2, <1>9, <2>1, <2>2 DEF ProbeHealth, TypeOK
<1>10. CASE VerifyRank(a)
  <2>1. at[a] <= LastRank /\ at[a] \in Nat
    BY <1>1, <1>10 DEF VerifyRank, TypeOK, Ranks
  <2>2. LauncherPlace(a)
    <3>1. CASE Goto(a, "startup_audit")
      BY <1>1, <3>1, GotoPlace DEF Labels, Armed
    <3>2. CASE NextRank(a)
      BY <1>1, <1>10, <2>1, <3>2, NextTyped DEF LauncherPlace, VerifyRank, TypeOK, Labels
    <3> QED  BY <1>10, <3>1, <3>2 DEF VerifyRank
  <2> QED  BY <1>1, <1>2, <1>10, <2>2 DEF VerifyRank, TypeOK
<1>11. CASE StartupAudit(a)
  <2>1. LauncherPlace(a)
    BY <1>1, <1>11, GotoPlace DEF StartupAudit, Labels, Armed
  <2> QED  BY <1>1, <1>2, <1>11, <2>1 DEF StartupAudit, TypeOK
<1>12. CASE PublishReady(a)
  <2>1. LauncherPlace(a) /\ receipts' \in [Attempts -> SUBSET Receipts]
    BY <1>1, <1>12, GotoPlace DEF PublishReady, Labels, Armed, Receipts, TypeOK
  <2> QED  BY <1>1, <1>2, <1>12, <2>1 DEF PublishReady, TypeOK
<1>13. CASE AnnounceReady(a)
  <2>1. LauncherPlace(a)
    BY <1>1, <1>13, GotoPlace DEF AnnounceReady, Labels
  <2> QED  BY <1>1, <1>2, <1>13, <2>1 DEF AnnounceReady, TypeOK
<1>14. CASE LaunchFails(a)
  <2>1. LauncherPlace(a)
    BY <1>1, <1>14, GotoPlace DEF LaunchFails, diagnose_failure, Labels
  <2>2. mishaps' \in 0 .. MaxMishaps /\ toStop' \in [Attempts -> [Actors -> SUBSET Ranks]]
    BY <1>1, <1>14, MishapTyped DEF LaunchFails, diagnose_failure, TypeOK, Actors
  <2>3. UNCHANGED <<nodeVars, worldVars, guard, lost, polls, receipts, status, stopper>>
    BY <1>14 DEF LaunchFails
  <2> QED  BY <1>1, <2>1, <2>2, <2>3, PlaceTyped DEF Typed, TypeOK, LauncherPlace, Labels
<1>15. CASE RecordFailure(a)
  <2>1. LauncherPlace(a) /\ receipts' \in [Attempts -> SUBSET Receipts]
    BY <1>1, <1>15, GotoPlace DEF RecordFailure, Labels, Receipts, TypeOK
  <2> QED  BY <1>1, <1>2, <1>15, <2>1 DEF RecordFailure, TypeOK
<1>16. CASE LauncherDies(a)
  <2>1. LauncherPlace(a)
    BY <1>1, <1>16, GotoPlace DEF LauncherDies, Labels
  <2>2. mishaps' \in 0 .. MaxMishaps /\ toStop' \in [Attempts -> [Actors -> SUBSET Ranks]]
    BY <1>1, <1>16, MishapTyped DEF LauncherDies, TypeOK, Actors
  <2>3. UNCHANGED <<nodeVars, worldVars, guard, lost, polls, receipts, status, stopper>>
    BY <1>16 DEF LauncherDies
  <2> QED  BY <1>1, <2>1, <2>2, <2>3, PlaceTyped DEF Typed, TypeOK, LauncherPlace, Labels
<1> QED
  BY <1>3, <1>4, <1>5, <1>6, <1>7, <1>8, <1>9, <1>10, <1>11, <1>12, <1>13, <1>14, <1>15, <1>16 DEF Launcher

LEMMA Update ==
  ASSUME NEW S, NEW T, NEW f \in [S -> T], NEW x \in S, NEW v \in T
  PROVE  [f EXCEPT ![x] = v] \in [S -> T]
OBVIOUS

LEMMA Update2 ==
  ASSUME NEW S, NEW T, NEW V, NEW f \in [S -> [T -> V]], NEW x \in S, NEW y \in T, NEW v \in V
  PROVE  [f EXCEPT ![x][y] = v] \in [S -> [T -> V]]
OBVIOUS

States == {"absent", "running", "exited", "oom"}
LEMMA ContainerStops ==
  ASSUME TypeOK, NEW a \in Attempts, NEW r \in Ranks,
         container' = container \/ container' = [container EXCEPT ![a][r] = Stopped(@)]
  PROVE  container' \in [Attempts -> [Ranks -> States]]
<1>1. container \in [Attempts -> [Ranks -> States]]
  BY DEF TypeOK, States
<1>2. Stopped(container[a][r]) \in States
  BY <1>1 DEF Stopped, States
<1>3. [container EXCEPT ![a][r] = Stopped(container[a][r])] \in [Attempts -> [Ranks -> States]]
  BY <1>1, <1>2, Update2
<1> QED
  BY <1>1, <1>3

LEMMA DogKilled ==
  ASSUME TypeOK, NEW a \in Attempts, NEW r \in Ranks, UNCHANGED <<dog, low>> \/ KillDog(a, r)
  PROVE  /\ dog' \in [Attempts -> [Ranks -> {"none", "watching", "stopping", "ended"}]]
         /\ low' \in [Attempts -> [Ranks -> 0 .. 3]]
<1>1. /\ dog \in [Attempts -> [Ranks -> {"none", "watching", "stopping", "ended"}]]
      /\ low \in [Attempts -> [Ranks -> 0 .. 3]]
  BY DEF TypeOK
<1>2. CASE KillDog(a, r)
  BY <1>1, <1>2, Update2 DEF KillDog
<1> QED
  BY <1>1, <1>2

LEMMA MarkKept ==
  ASSUME NEW f \in [Attempts -> SUBSET Ranks], NEW a \in Attempts, NEW r \in Ranks
  PROVE  [f EXCEPT ![a] = @ \cup {r}] \in [Attempts -> SUBSET Ranks]
OBVIOUS

LEMMA ReceiptKept ==
  ASSUME TypeOK, NEW a \in Attempts, NEW receipt \in Receipts
  PROVE  [receipts EXCEPT ![a] = @ \cup {receipt}] \in [Attempts -> SUBSET Receipts]
BY DEF TypeOK

\* The launcher's variables, for the steps of everybody else.
LEMMA OthersPlace ==
  ASSUME Typed, UNCHANGED launchVars, TypeOK' PROVE Typed'
BY DEF Typed, Looping, launchVars

LEMMA ScriptTypes ==
  ASSUME Typed, NEW a \in Attempts,
         \/ GuardStarts(a) \/ Guard(a) \/ StopAttempt(a) \/ Stopper(a)
         \/ \E w \in Actors, r \in Ranks : StopRank(a, w, r)
  PROVE  Typed'
<1> USE DEF launchVars, nodeVars, stopVars, worldVars
<1>1. TypeOK
  BY DEF Typed
<1> DEFINE GuardType == [pc : {"off", "polling", "stopping", "exited", "killed"},
                         at : 0 .. Count, reason : BOOLEAN, misses : 0 .. 2]
<1>2. \A label \in {"off", "polling", "stopping", "exited", "killed"} : GuardAt(label) \in GuardType
  BY DEF GuardAt, Count
<1>3. guard \in [Attempts -> GuardType] /\ guard[a] \in GuardType
  BY <1>1 DEF TypeOK
<1>4. CASE GuardStarts(a)
  <2>1. guard' \in [Attempts -> GuardType]
    BY <1>2, <1>3, <1>4 DEF GuardStarts
  <2> QED  BY <1>1, <1>4, <2>1, OthersPlace DEF GuardStarts, TypeOK
<1>5. CASE GuardPollsRank(a)
  <2>1. \E reason \in BOOLEAN : guard' = [guard EXCEPT ![a].at = @ + 1, ![a].reason = reason]
    <3>1. PICK silent \in BOOLEAN :
            guard' = [guard EXCEPT ![a].at = @ + 1, ![a].reason = @ \/ silent \/ Bad(a, guard[a].at)]
      BY <1>5 DEF GuardPollsRank
    <3> DEFINE reason == guard[a].reason \/ silent \/ Bad(a, guard[a].at)
    <3>2. guard' = [guard EXCEPT ![a].at = @ + 1, ![a].reason = reason]
      BY <3>1
    <3>3. reason \in BOOLEAN
      BY <1>3
    <3> HIDE DEF reason
    <3> QED  BY <3>2, <3>3
  <2>2. PICK reason \in BOOLEAN : guard' = [guard EXCEPT ![a].at = @ + 1, ![a].reason = reason]
    BY <2>1
  <2>3. guard[a].at \in 0 .. Count /\ guard[a].at + 1 \in 0 .. Count
    BY <1>3, <1>5 DEF GuardPollsRank, Count
  <2>4. ASSUME NEW g \in GuardType, NEW k \in 0 .. Count
        PROVE  [g EXCEPT !.at = k, !.reason = reason] \in GuardType
    OBVIOUS
  <2>5. guard' = [guard EXCEPT ![a] = [guard[a] EXCEPT !.at = guard[a].at + 1, !.reason = reason]]
    BY <1>3, <2>2
  <2>6. guard' \in [Attempts -> GuardType]
    BY <1>3, <2>3, <2>4, <2>5
  <2>7. mishaps' \in 0 .. MaxMishaps
    BY <1>1, <1>5, MishapTyped DEF GuardPollsRank, TypeOK
  <2> QED  BY <1>1, <1>5, <2>6, <2>7, OthersPlace DEF GuardPollsRank, TypeOK
<1>6. CASE GuardDecides(a)
  <2>1. PICK answered \in BOOLEAN :
          LET misses == IF answered THEN 0 ELSE guard[a].misses + 1
              reason == guard[a].reason \/ TooMany(misses)
          IN  /\ guard' = [guard EXCEPT ![a] = IF reason THEN GuardAt("stopping")
                                               ELSE [GuardAt("polling") EXCEPT !.misses = misses]]
              /\ receipts' = [receipts EXCEPT ![a] = IF reason THEN @ \cup {"GUARD_STOP"} ELSE @]
              /\ toStop' = [toStop EXCEPT ![a]["guard"] = IF reason THEN Ranks ELSE @]
    BY <1>6 DEF GuardDecides
  <2> DEFINE misses == IF answered THEN 0 ELSE guard[a].misses + 1
  <2>2. misses \in Nat /\ (TooMany(misses) \/ misses \in 0 .. 2)
    BY <1>3 DEF TooMany
  <2>3. ~TooMany(misses) => [GuardAt("polling") EXCEPT !.misses = misses] \in GuardType
    <3> HIDE DEF misses
    <3> QED  BY <1>2, <2>2
  <2>4. guard' \in [Attempts -> GuardType]
    <3>1. GuardAt("stopping") \in GuardType
      BY <1>2
    <3> QED  BY <1>3, <2>1, <2>3, <3>1
  <2>5. receipts' \in [Attempts -> SUBSET Receipts]
    <3>1. receipts' = receipts \/ receipts' = [receipts EXCEPT ![a] = @ \cup {"GUARD_STOP"}]
      BY <1>1, <2>1 DEF TypeOK
    <3>2. receipts \in [Attempts -> SUBSET Receipts] /\ "GUARD_STOP" \in Receipts
      BY <1>1 DEF TypeOK, Receipts
    <3> QED  BY <1>1, <3>1, <3>2, ReceiptKept
  <2>6. toStop' \in [Attempts -> [Actors -> SUBSET Ranks]]
    BY <1>1, <2>1 DEF TypeOK, Actors
  <2>7. UNCHANGED <<launchVars, nodeVars, worldVars, lost, mishaps, stopper>>
    BY <1>6 DEF GuardDecides
  <2> QED  BY <1>1, <2>4, <2>5, <2>6, <2>7, OthersPlace DEF TypeOK
<1>7. CASE GuardExits(a)
  <2>1. guard' \in [Attempts -> GuardType]
    BY <1>2, <1>3, <1>7 DEF GuardExits
  <2> QED  BY <1>1, <1>7, <2>1, OthersPlace DEF GuardExits, TypeOK
<1>8. CASE StopAttempt(a)
  BY <1>1, <1>8, OthersPlace DEF StopAttempt, TypeOK
<1>9. CASE KillGuards(a)
  <2>1. guard' \in [Attempts -> GuardType]
    <3>1. GuardAt("killed") \in GuardType
      BY <1>2
    <3> QED  BY <1>3, <1>9, <3>1 DEF KillGuards
  <2>2. toStop' \in [Attempts -> [Actors -> SUBSET Ranks]]
    <3>1. toStop \in [Attempts -> [Actors -> SUBSET Ranks]]
      BY <1>1 DEF TypeOK
    <3>2. \/ toStop' = [toStop EXCEPT ![a] = [toStop[a] EXCEPT !["guard"] = {}, !["stop"] = Ranks]]
          \/ toStop' = [toStop EXCEPT ![a]["stop"] = Ranks]
      BY <1>9 DEF KillGuards
    <3>3. [toStop[a] EXCEPT !["guard"] = {}, !["stop"] = Ranks] \in [Actors -> SUBSET Ranks]
      BY <3>1 DEF Actors
    <3> QED  BY <3>1, <3>2, <3>3, Update, Update2 DEF Actors
  <2>3. mishaps' \in 0 .. MaxMishaps
    BY <1>1, <1>9, MishapTyped DEF KillGuards, TypeOK
  <2>4. stopper' = [stopper EXCEPT ![a] = "ranks"] /\ UNCHANGED <<launchVars, nodeVars, worldVars, lost, receipts>>
    BY <1>9 DEF KillGuards
  <2> QED  BY <1>1, <2>1, <2>2, <2>3, <2>4, OthersPlace DEF TypeOK
<1>10. CASE RecordStop(a)
  <2>1. receipts' \in [Attempts -> SUBSET Receipts]
    <3>1. receipts' = receipts \/ \E receipt \in {"STOPPED", "STOPPED_UNCLEAN"} :
                                     receipts' = [receipts EXCEPT ![a] = @ \cup {receipt}]
      BY <1>10 DEF RecordStop
    <3>2. receipts \in [Attempts -> SUBSET Receipts] /\ {"STOPPED", "STOPPED_UNCLEAN"} \subseteq Receipts
      BY <1>1 DEF TypeOK, Receipts
    <3> QED  BY <1>1, <3>1, <3>2, ReceiptKept
  <2>2. mishaps' \in 0 .. MaxMishaps /\ stopper' \in [Attempts -> {"off", "guards", "ranks", "done"}]
    <3>1. stopper' = [stopper EXCEPT ![a] = "done"] \/ stopper' = [stopper EXCEPT ![a] = "off"]
      BY <1>10 DEF RecordStop
    <3>2. mishaps' = mishaps \/ Mishap
      BY <1>10 DEF RecordStop
    <3> QED  BY <1>1, <3>1, <3>2, MishapTyped DEF TypeOK
  <2>3. UNCHANGED <<launchVars, nodeVars, worldVars, guard, lost, toStop>>
    BY <1>10 DEF RecordStop
  <2> QED  BY <1>1, <2>1, <2>2, <2>3, OthersPlace DEF TypeOK
<1>11. ASSUME NEW w \in Actors, NEW r \in Ranks, StopRank(a, w, r) PROVE Typed'
  <2>1. /\ container' = container \/ container' = [container EXCEPT ![a][r] = Stopped(@)]
        /\ lost' = lost \/ lost' = [lost EXCEPT ![a] = @ \cup {r}]
        /\ UNCHANGED <<dog, low>> \/ KillDog(a, r)
        /\ mishaps' = mishaps \/ Mishap
        /\ toStop' = [toStop EXCEPT ![a][w] = @ \ {r}]
        /\ UNCHANGED <<launchVars, worldVars, guard, receipts, stopMark, stopper>>
    BY <1>11 DEF StopRank
  <2>2. container' \in [Attempts -> [Ranks -> {"absent", "running", "exited", "oom"}]]
    BY <1>1, <2>1, ContainerStops DEF States
  <2>3. lost' \in [Attempts -> SUBSET Ranks]
    <3>1. lost \in [Attempts -> SUBSET Ranks]
      BY <1>1 DEF TypeOK
    <3> QED  BY <2>1, <3>1, MarkKept
  <2>4. dog' \in [Attempts -> [Ranks -> {"none", "watching", "stopping", "ended"}]]
        /\ low' \in [Attempts -> [Ranks -> 0 .. 3]]
    BY <1>1, <2>1, DogKilled
  <2>5. toStop' \in [Attempts -> [Actors -> SUBSET Ranks]] /\ mishaps' \in 0 .. MaxMishaps
    BY <1>1, <2>1, MishapTyped DEF TypeOK
  <2> QED  BY <1>1, <2>1, <2>2, <2>3, <2>4, <2>5, OthersPlace DEF TypeOK
<1> QED
  BY <1>4, <1>5, <1>6, <1>7, <1>8, <1>9, <1>10, <1>11 DEF Guard, Stopper

LEMMA NodeTypes ==
  ASSUME Typed, NEW a \in Attempts, NEW r \in Ranks, Dog(a, r) \/ RankDies(a, r)
  PROVE  Typed'
<1> USE DEF launchVars, stopVars, worldVars
<1>1. TypeOK
  BY DEF Typed
<1>2. CASE DogSamples(a, r)
  <2>1. /\ \E k \in 0 .. 2 : low' = [low EXCEPT ![a][r] = k]
        /\ mishaps' = mishaps \/ Mishap
        /\ stopMark' = stopMark \/ stopMark' = [stopMark EXCEPT ![a] = @ \cup {r}]
        /\ dog' = dog \/ dog' = [dog EXCEPT ![a][r] = "stopping"]
    <3>1. PICK unavailable \in BOOLEAN :
            LET samples == IF r \in ample THEN 0 ELSE low[a][r] + 1
                reason == \/ unavailable \/ samples >= 3
                          \/ faults[a][r] \cap {"startup", "late"} # {}
            IN /\ low' = [low EXCEPT ![a][r] = IF reason THEN 0 ELSE samples]
               /\ IF unavailable THEN Mishap ELSE UNCHANGED mishaps
               /\ stopMark' = [stopMark EXCEPT ![a] = IF reason THEN @ \cup {r} ELSE @]
               /\ dog' = [dog EXCEPT ![a][r] = IF reason THEN "stopping" ELSE @]
      BY <1>2 DEF DogSamples
    <3> DEFINE samples == IF r \in ample THEN 0 ELSE low[a][r] + 1
               reason == \/ unavailable \/ samples >= 3
                         \/ faults[a][r] \cap {"startup", "late"} # {}
    <3>2. samples \in Nat /\ (~reason => samples \in 0 .. 2)
      <4>1. low[a][r] \in 0 .. 3
        BY <1>1 DEF TypeOK
      <4> QED  BY <4>1
    <3>3. CASE reason
      <4>1. low' = [low EXCEPT ![a][r] = 0] /\ dog' = [dog EXCEPT ![a][r] = "stopping"]
            /\ stopMark' = [stopMark EXCEPT ![a] = @ \cup {r}]
        BY <3>1, <3>3
      <4>2. mishaps' = mishaps \/ Mishap
        BY <3>1
      <4>3. \E k \in 0 .. 2 : low' = [low EXCEPT ![a][r] = k]
        <5> WITNESS 0 \in 0 .. 2
        <5> QED  BY <4>1
      <4> QED  BY <4>1, <4>2, <4>3
    <3>4. CASE ~reason
      BY <1>1, <3>1, <3>2, <3>4, ZenonT(40) DEF TypeOK
    <3> QED  BY <3>3, <3>4
  <2>2. low' \in [Attempts -> [Ranks -> 0 .. 3]] /\ mishaps' \in 0 .. MaxMishaps
    BY <1>1, <2>1, MishapTyped DEF TypeOK
  <2>3. stopMark' \in [Attempts -> SUBSET Ranks]
    <3>1. stopMark \in [Attempts -> SUBSET Ranks]
      BY <1>1 DEF TypeOK
    <3> QED  BY <2>1, <3>1, MarkKept
  <2>4. dog' \in [Attempts -> [Ranks -> {"none", "watching", "stopping", "ended"}]]
    <3>1. dog \in [Attempts -> [Ranks -> {"none", "watching", "stopping", "ended"}]]
      BY <1>1 DEF TypeOK
    <3>2. CASE dog' = [dog EXCEPT ![a][r] = "stopping"]
      BY <3>1, <3>2, Update2
    <3> QED  BY <2>1, <3>1, <3>2
  <2>5. UNCHANGED <<launchVars, stopVars, worldVars, container, guard, receipts>>
    BY <1>2 DEF DogSamples
  <2> QED  BY <1>1, <2>2, <2>3, <2>4, <2>5, OthersPlace DEF TypeOK
<1>3. CASE DogStops(a, r)
  <2>1. /\ dog' = [dog EXCEPT ![a][r] = "ended"]
        /\ container' = container \/ container' = [container EXCEPT ![a][r] = Stopped(@)]
        /\ lost' = lost \/ lost' = [lost EXCEPT ![a] = @ \cup {r}]
        /\ mishaps' = mishaps \/ Mishap
        /\ UNCHANGED <<stopper, toStop, launchVars, worldVars, guard, low, receipts, stopMark>>
    BY <1>3 DEF DogStops
  <2>2. container' \in [Attempts -> [Ranks -> {"absent", "running", "exited", "oom"}]]
    BY <1>1, <2>1, ContainerStops DEF States
  <2>3. lost' \in [Attempts -> SUBSET Ranks] /\ mishaps' \in 0 .. MaxMishaps
    <3>1. lost \in [Attempts -> SUBSET Ranks] /\ mishaps \in 0 .. MaxMishaps
      BY <1>1 DEF TypeOK
    <3> QED  BY <1>1, <2>1, <3>1, MarkKept, MishapTyped
  <2>4. dog' \in [Attempts -> [Ranks -> {"none", "watching", "stopping", "ended"}]]
    BY <1>1, <2>1 DEF TypeOK
  <2> QED  BY <1>1, <2>1, <2>2, <2>3, <2>4, OthersPlace DEF TypeOK
<1>4. CASE DogEnds(a, r)
  <2>1. dog' \in [Attempts -> [Ranks -> {"none", "watching", "stopping", "ended"}]]
        /\ low' \in [Attempts -> [Ranks -> 0 .. 3]]
    BY <1>1, <1>4 DEF DogEnds, TypeOK
  <2> QED  BY <1>1, <1>4, <2>1, OthersPlace DEF DogEnds, TypeOK
<1>5. CASE RankDies(a, r)
  <2>1. container' \in [Attempts -> [Ranks -> {"absent", "running", "exited", "oom"}]]
        /\ mishaps' \in 0 .. MaxMishaps
    BY <1>1, <1>5, MishapTyped DEF RankDies, TypeOK
  <2> QED  BY <1>1, <1>5, <2>1, OthersPlace DEF RankDies, TypeOK
<1> QED
  BY <1>2, <1>3, <1>4, <1>5 DEF Dog

LEMMA WorldTypes ==
  ASSUME Typed, NEW r \in Ranks, KernelFault(r) \/ MemoryChanges(r)
  PROVE  Typed'
<1> USE DEF launchVars, nodeVars, stopVars
<1>1. TypeOK
  BY DEF Typed
<1>2. CASE KernelFault(r)
  <2>1. \A b \in Attempts : When(b, r) \in {"prelaunch", "startup", "late"}
    BY DEF When
  <2>2. faults' \in [Attempts -> [Ranks -> SUBSET {"prelaunch", "startup", "late"}]]
    BY <1>1, <1>2, <2>1 DEF KernelFault, TypeOK
  <2>3. mishaps' \in 0 .. MaxMishaps
    BY <1>1, <1>2, MishapTyped DEF KernelFault
  <2> QED  BY <1>1, <1>2, <2>2, <2>3, OthersPlace DEF KernelFault, TypeOK
<1>3. CASE MemoryChanges(r)
  <2>1. mishaps' \in 0 .. MaxMishaps /\ ample' \subseteq Ranks
    BY <1>1, <1>3, MishapTyped DEF MemoryChanges, TypeOK
  <2> QED  BY <1>1, <1>3, <2>1, OthersPlace DEF MemoryChanges, TypeOK
<1> QED
  BY <1>2, <1>3

LEMMA TypesStep == Typed /\ [Next]_vars => Typed'
<1> SUFFICES ASSUME Typed, [Next]_vars PROVE Typed'
  OBVIOUS
<1>1. CASE Next
  BY <1>1, LauncherTypes, ScriptTypes, NodeTypes, WorldTypes DEF Next
<1>2. CASE UNCHANGED vars
  BY <1>2 DEF Typed, TypeOK, Looping, vars, launchVars, nodeVars, stopVars, worldVars, others
<1> QED
  BY <1>1, <1>2

-----------------------------------------------------------------------------
(* A recorded stop *)

\* READY is written by a launch that is past its launching, FAILED by one that
\* has ended; a stop begins where there is READY.
Past == {"announce", "ready", "stopping", "failed", "crashed"}
Recorded(a) ==
  /\ "READY" \in receipts[a] => pc[a] \in Past
  /\ "FAILED" \in receipts[a] => pc[a] = "failed"
  /\ stopper[a] # "off" => "READY" \in receipts[a]

\* Of a launch that failed, a rank that runs is one its trap still has to stop,
\* if no stop was lost.
Caught(a) ==
  lost[a] = {} =>
    /\ pc[a] = "stopping" => \A r \in Ranks : Running(a, r) => r \in toStop[a]["launch"]
    /\ pc[a] = "failed" => \A r \in Ranks : ~Running(a, r)

\* A clean stop has seen every rank exited, and nothing starts one again.
StoppedClean(a) ==
  "STOPPED" \in receipts[a] => "READY" \in receipts[a] /\ \A r \in Ranks : ~Running(a, r)

Safe(a) == Recorded(a) /\ Caught(a) /\ StoppedClean(a)
IndInv == Typed /\ \A a \in Attempts : Safe(a)

\* No step starts a rank of attempt a, none takes back a lost stop.
Untouched(a) ==
  /\ \A r \in Ranks : Running(a, r)' => Running(a, r)
  /\ lost'[a] = {} => lost[a] = {}

\* A step that leaves attempt b's launch, receipts and stop alone, and takes a
\* rank from the trap only by stopping it or losing the stop.
LEMMA AloneSafe ==
  ASSUME NEW b, Safe(b), Untouched(b), pc'[b] = pc[b], receipts'[b] = receipts[b],
         stopper'[b] # "off" => stopper[b] # "off" \/ "READY" \in receipts[b],
         lost'[b] = {} => \A r \in Ranks :
            Running(b, r)' /\ r \in toStop[b]["launch"] => r \in toStop'[b]["launch"]
  PROVE  Safe(b)'
BY DEF Safe, Recorded, Caught, StoppedClean, Untouched, Running

\* All that Safe(b) is about.
LEMMA SameSafe ==
  ASSUME NEW b, Safe(b), pc'[b] = pc[b], receipts'[b] = receipts[b], stopper'[b] = stopper[b],
         lost'[b] = lost[b], toStop'[b] = toStop[b], container'[b] = container[b]
  PROVE  Safe(b)'
BY DEF Safe, Recorded, Caught, StoppedClean, Running

LEMMA LauncherFrame ==
  ASSUME Typed, NEW a \in Attempts, StartAttempt(a) \/ Launcher(a) \/ LauncherDies(a)
  PROVE  /\ \A b \in Attempts \ {a} : pc'[b] = pc[b] /\ receipts'[b] = receipts[b]
                                      /\ toStop'[b] = toStop[b] /\ container'[b] = container[b]
         /\ UNCHANGED <<stopper, lost>>
<1> USE DEF nodeVars, stopVars, worldVars, others
<1>1. /\ pc \in [Attempts -> Labels] /\ receipts \in [Attempts -> SUBSET Receipts]
      /\ toStop \in [Attempts -> [Actors -> SUBSET Ranks]] /\ container \in [Attempts -> [Ranks -> States]]
  BY DEF Typed, TypeOK, Labels, States
<1>2. CASE StartAttempt(a) \/ CheckReplication(a) \/ PreflightRank(a) \/ PrelaunchAudit(a)
  BY <1>1, <1>2 DEF StartAttempt, CheckReplication, PreflightRank, PrelaunchAudit, Goto, NextRank
<1>3. CASE PollRank(a) \/ ProbeHealth(a) \/ VerifyRank(a) \/ StartupAudit(a) \/ AnnounceReady(a)
  BY <1>1, <1>3 DEF PollRank, ProbeHealth, VerifyRank, StartupAudit, AnnounceReady, Goto, NextRank
<1>4. CASE LaunchRank(a)
  BY <1>1, <1>4 DEF LaunchRank, Goto, NextRank
<1>5. CASE PublishReady(a) \/ RecordFailure(a)
  BY <1>1, <1>5 DEF PublishReady, RecordFailure, Goto
<1>6. CASE LaunchFails(a) \/ LauncherDies(a)
  BY <1>1, <1>6 DEF LaunchFails, LauncherDies, diagnose_failure, Goto
<1> QED
  BY <1>2, <1>3, <1>4, <1>5, <1>6 DEF Launcher

LEMMA LauncherSafe ==
  ASSUME IndInv, NEW a \in Attempts, StartAttempt(a) \/ Launcher(a) \/ LauncherDies(a)
  PROVE  \A b \in Attempts : Safe(b)'
<1> USE DEF nodeVars, stopVars, worldVars, others
<1>1. /\ pc \in [Attempts -> Labels] /\ receipts \in [Attempts -> SUBSET Receipts]
      /\ toStop \in [Attempts -> [Actors -> SUBSET Ranks]] /\ container \in [Attempts -> [Ranks -> States]]
      /\ Safe(a)
  BY DEF IndInv, Typed, TypeOK, Labels, States
<1>2. \A b \in Attempts \ {a} : Safe(b)'
  BY LauncherFrame, SameSafe DEF IndInv
<1> SUFFICES Safe(a)'
  BY <1>2
<1>3. lost'[a] = lost[a] /\ stopper'[a] = stopper[a]
  BY LauncherFrame DEF IndInv
<1>4. ASSUME receipts'[a] = receipts[a], container'[a] = container[a],
             pc[a] \in Past => pc'[a] \in Past, pc[a] # "failed", pc'[a] \notin {"stopping", "failed"}
      PROVE  Safe(a)'
  BY <1>1, <1>3, <1>4 DEF Safe, Recorded, Caught, StoppedClean, Running
<1>5. CASE StartAttempt(a) \/ CheckReplication(a) \/ PreflightRank(a) \/ PrelaunchAudit(a)
  BY <1>1, <1>4, <1>5 DEF StartAttempt, CheckReplication, PreflightRank, PrelaunchAudit, Goto, NextRank, Past
<1>6. CASE PollRank(a) \/ ProbeHealth(a) \/ VerifyRank(a) \/ StartupAudit(a) \/ AnnounceReady(a)
  BY <1>1, <1>4, <1>6 DEF PollRank, ProbeHealth, VerifyRank, StartupAudit, AnnounceReady, Goto, NextRank, Past
<1>7. CASE LaunchRank(a)
  <2>1. pc[a] = "launch" /\ pc'[a] \in {"launch", "loading"} /\ receipts'[a] = receipts[a]
    BY <1>1, <1>7 DEF LaunchRank, Goto, NextRank
  <2> QED  BY <1>1, <1>3, <2>1 DEF Safe, Recorded, Caught, StoppedClean, Past
<1>8. CASE PublishReady(a)
  <2>1. /\ pc[a] = "publish" /\ pc'[a] = "announce" /\ container' = container
        /\ receipts'[a] = receipts[a] \cup {"READY"}
    BY <1>1, <1>8 DEF PublishReady, Goto
  <2> QED  BY <1>1, <1>3, <2>1 DEF Safe, Recorded, Caught, StoppedClean, Past, Running
<1>9. CASE RecordFailure(a)
  <2>1. /\ pc[a] = "stopping" /\ pc'[a] = "failed" /\ container' = container
        /\ toStop[a]["launch"] = {} /\ receipts'[a] = receipts[a] \cup {"FAILED"}
    BY <1>1, <1>9 DEF RecordFailure, Goto
  <2> QED  BY <1>1, <1>3, <2>1 DEF Safe, Recorded, Caught, StoppedClean, Past, Running
<1>10. CASE LaunchFails(a)
  <2>1. /\ pc[a] \in Armed /\ pc'[a] = "stopping" /\ container' = container
        /\ receipts' = receipts /\ toStop'[a]["launch"] = Ranks
    BY <1>1, <1>10 DEF LaunchFails, diagnose_failure, Goto, Actors
  <2> QED  BY <1>1, <1>3, <2>1 DEF Safe, Recorded, Caught, StoppedClean, Past, Running, Armed
<1>11. CASE LauncherDies(a)
  <2>1. /\ pc[a] # "failed" /\ pc'[a] = "crashed" /\ container' = container /\ receipts' = receipts
    BY <1>1, <1>11 DEF LauncherDies, Goto, Armed
  <2> QED  BY <1>4, <2>1 DEF Past
<1> QED
  BY <1>5, <1>6, <1>7, <1>8, <1>9, <1>10, <1>11 DEF Launcher

LEMMA ScriptSafe ==
  ASSUME IndInv, NEW a \in Attempts,
         \/ GuardStarts(a) \/ Guard(a) \/ StopAttempt(a) \/ Stopper(a)
         \/ \E w \in Actors, r \in Ranks : StopRank(a, w, r)
  PROVE  \A b \in Attempts : Safe(b)'
<1> USE DEF launchVars, nodeVars, stopVars, worldVars
<1>1. /\ receipts \in [Attempts -> SUBSET Receipts] /\ stopper \in [Attempts -> {"off", "guards", "ranks", "done"}]
      /\ toStop \in [Attempts -> [Actors -> SUBSET Ranks]] /\ container \in [Attempts -> [Ranks -> States]]
      /\ lost \in [Attempts -> SUBSET Ranks] /\ \A b \in Attempts : Safe(b)
  BY DEF IndInv, Typed, TypeOK, States
<1>2. CASE GuardStarts(a) \/ GuardPollsRank(a) \/ GuardExits(a)
  BY <1>1, <1>2, SameSafe DEF GuardStarts, GuardPollsRank, GuardExits
<1>3. CASE GuardDecides(a)
  <2>1. PICK answered \in BOOLEAN :
          LET misses == IF answered THEN 0 ELSE guard[a].misses + 1
              reason == guard[a].reason \/ TooMany(misses)
          IN  /\ receipts' = [receipts EXCEPT ![a] = IF reason THEN @ \cup {"GUARD_STOP"} ELSE @]
              /\ toStop' = [toStop EXCEPT ![a]["guard"] = IF reason THEN Ranks ELSE @]
    BY <1>3 DEF GuardDecides
  <2>2. UNCHANGED <<pc, container, lost, stopper>>
    BY <1>3 DEF GuardDecides
  <2>3. \A b \in Attempts : /\ receipts'[b] \cap {"READY", "FAILED", "STOPPED"} = receipts[b] \cap {"READY", "FAILED", "STOPPED"}
                            /\ toStop'[b]["launch"] = toStop[b]["launch"]
    BY <1>1, <2>1 DEF Actors
  <2> QED  BY <1>1, <2>2, <2>3, ZenonT(40) DEF Safe, Recorded, Caught, StoppedClean, Running
<1>4. CASE StopAttempt(a)
  <2>1. /\ "READY" \in receipts[a] /\ stopper' = [stopper EXCEPT ![a] = "guards"]
        /\ UNCHANGED <<pc, container, lost, receipts, toStop>>
    BY <1>4 DEF StopAttempt
  <2> QED  BY <1>1, <2>1 DEF Safe, Recorded, Caught, StoppedClean, Running
<1>5. CASE KillGuards(a)
  <2>1. /\ stopper[a] = "guards" /\ stopper' = [stopper EXCEPT ![a] = "ranks"]
        /\ UNCHANGED <<pc, container, lost, receipts>>
    BY <1>5 DEF KillGuards
  <2>2. \A b \in Attempts : toStop'[b]["launch"] = toStop[b]["launch"]
    <3>1. \/ toStop' = [toStop EXCEPT ![a] = [toStop[a] EXCEPT !["guard"] = {}, !["stop"] = Ranks]]
          \/ toStop' = [toStop EXCEPT ![a]["stop"] = Ranks]
      BY <1>5 DEF KillGuards
    <3>2. [toStop[a] EXCEPT !["guard"] = {}, !["stop"] = Ranks]["launch"] = toStop[a]["launch"]
      BY <1>1 DEF Actors
    <3>3. ASSUME NEW f, toStop' = [toStop EXCEPT ![a] = f], f["launch"] = toStop[a]["launch"], NEW b \in Attempts
          PROVE  toStop'[b]["launch"] = toStop[b]["launch"]
      BY <1>1, <3>3
    <3>4. CASE toStop' = [toStop EXCEPT ![a]["stop"] = Ranks]
      BY <1>1, <3>4 DEF Actors
    <3> QED  BY <3>1, <3>2, <3>3, <3>4
  <2> QED  BY <1>1, <2>1, <2>2 DEF Safe, Recorded, Caught, StoppedClean, Running
<1>6. CASE RecordStop(a)
  <2>1. /\ stopper[a] = "ranks" /\ \A b \in Attempts \ {a} : stopper'[b] = stopper[b] /\ receipts'[b] = receipts[b]
        /\ UNCHANGED <<pc, container, lost, toStop>>
    BY <1>1, <1>6 DEF RecordStop
  <2>2. \A b \in Attempts \ {a} : Safe(b)'
    BY <1>1, <2>1, SameSafe
  <2>3. \/ receipts'[a] = receipts[a] \/ receipts'[a] = receipts[a] \cup {"STOPPED_UNCLEAN"}
        \/ receipts'[a] = receipts[a] \cup {"STOPPED"} /\ \A r \in Ranks : Clean(a, r)
    BY <1>1, <1>6 DEF RecordStop
  <2>4. "READY" \in receipts[a]
    BY <1>1, <2>1 DEF Safe, Recorded
  <2>5. (\A r \in Ranks : Clean(a, r)) => \A r \in Ranks : ~Running(a, r)
    BY DEF Clean, Running
  <2>6. Safe(a)'
    BY <1>1, <2>1, <2>3, <2>4, <2>5 DEF Safe, Recorded, Caught, StoppedClean, Running
  <2> QED  BY <2>2, <2>6
<1>7. ASSUME NEW w \in Actors, NEW r \in Ranks, StopRank(a, w, r) PROVE \A b \in Attempts : Safe(b)'
  <2>1. /\ UNCHANGED <<pc, receipts, stopper>> /\ toStop' = [toStop EXCEPT ![a][w] = @ \ {r}]
        /\ \/ container' = [container EXCEPT ![a][r] = Stopped(@)] /\ UNCHANGED lost
           \/ container' = container /\ lost' = [lost EXCEPT ![a] = @ \cup {r}]
    BY <1>7 DEF StopRank
  <2>2. \A b \in Attempts \ {a} : Safe(b)'
    BY <1>1, <2>1, SameSafe
  <2>3. \A q \in Ranks \ {r} : q \in toStop[a]["launch"] => q \in toStop'[a]["launch"]
    BY <1>1, <2>1 DEF Actors
  <2>4. Untouched(a) /\ (lost'[a] = {} => ~Running(a, r)')
    <3>1. Stopped(container[a][r]) # "running"
      BY DEF Stopped
    <3>2. CASE container' = [container EXCEPT ![a][r] = Stopped(@)] /\ UNCHANGED lost
      BY <1>1, <3>1, <3>2 DEF Untouched, Running
    <3>3. CASE container' = container /\ lost' = [lost EXCEPT ![a] = @ \cup {r}]
      BY <1>1, <3>3 DEF Untouched, Running
    <3> QED  BY <2>1, <3>2, <3>3
  <2>5. Safe(a)'
    BY <1>1, <2>1, <2>3, <2>4, AloneSafe
  <2> QED  BY <2>2, <2>5
<1> QED
  BY <1>2, <1>3, <1>4, <1>5, <1>6, <1>7 DEF Guard, Stopper

LEMMA NodeSafe ==
  ASSUME IndInv, NEW a \in Attempts, NEW r \in Ranks, Dog(a, r) \/ RankDies(a, r)
  PROVE  \A b \in Attempts : Safe(b)'
<1> USE DEF launchVars, stopVars, worldVars
<1>1. /\ container \in [Attempts -> [Ranks -> States]]
      /\ lost \in [Attempts -> SUBSET Ranks] /\ \A b \in Attempts : Safe(b)
  BY DEF IndInv, Typed, TypeOK, States
<1>2. UNCHANGED <<pc, receipts, stopper, toStop>>
  BY DEF Dog, DogSamples, DogStops, DogEnds, RankDies
<1>3. /\ container' = container \/ \E state \in {"exited", "oom"} : container' = [container EXCEPT ![a][r] = state]
         \/ container' = [container EXCEPT ![a][r] = Stopped(@)]
      /\ lost' = lost \/ lost' = [lost EXCEPT ![a] = @ \cup {r}]
  BY DEF Dog, DogSamples, DogStops, DogEnds, RankDies
<1>4. \A b \in Attempts : Untouched(b)
  <2>1. \A b \in Attempts : lost'[b] = {} => lost[b] = {}
    BY <1>1, <1>3
  <2>2. Stopped(container[a][r]) = "running" => container[a][r] = "running"
    BY DEF Stopped
  <2>3. \A b \in Attempts, q \in Ranks : container'[b][q] = "running" => container[b][q] = "running"
    BY <1>1, <1>3, <2>2
  <2> QED  BY <2>1, <2>3 DEF Untouched, Running
<1> QED
  BY <1>1, <1>2, <1>4, AloneSafe

LEMMA WorldSafe ==
  ASSUME IndInv, NEW r \in Ranks, KernelFault(r) \/ MemoryChanges(r)
  PROVE  \A b \in Attempts : Safe(b)'
<1>1. UNCHANGED <<pc, receipts, stopper, lost, toStop, container>>
  BY DEF KernelFault, MemoryChanges, launchVars, nodeVars, stopVars
<1> QED
  BY <1>1, SameSafe DEF IndInv

LEMMA IndInit == Init => IndInv
<1> SUFFICES ASSUME Init PROVE IndInv
  OBVIOUS
<1>1. \A a \in Attempts : Safe(a)
  BY DEF Init, Safe, Recorded, Caught, StoppedClean
<1> QED
  BY <1>1, TypesInit DEF IndInv

LEMMA IndStep == IndInv /\ [Next]_vars => IndInv'
<1> SUFFICES ASSUME IndInv, [Next]_vars PROVE IndInv'
  OBVIOUS
<1>1. Typed'
  BY TypesStep DEF IndInv
<1>2. \A b \in Attempts : Safe(b)'
  <2>1. CASE Next
    BY <2>1, LauncherSafe, ScriptSafe, NodeSafe, WorldSafe DEF Next
  <2>2. CASE UNCHANGED vars
    BY <2>2, SameSafe DEF IndInv, vars, launchVars, nodeVars, stopVars, others
  <2> QED  BY <2>1, <2>2
<1> QED
  BY <1>1, <1>2 DEF IndInv

LEMMA Inductive == Spec => []IndInv
BY IndInit, IndStep, PTL DEF Spec

\* Every variable of the attempts keeps its type.
THEOREM Types == Spec => []TypeOK
<1>1. IndInv => TypeOK
  BY DEF IndInv, Typed
<1> QED
  BY <1>1, Inductive, PTL

\* However many attempts there are, and whoever stops whom while what is lost: a
\* clean STOPPED receipt, or a FAILED one of an attempt none of whose stops was
\* lost, means that no rank of that attempt runs (stop_candidate_attempt.sh,
\* start_candidate_cluster_attempt.sh).
THEOREM RecordsTrue == Spec => []StopRecordsAreTrue
<1>1. IndInv => StopRecordsAreTrue
  BY DEF IndInv, Safe, Recorded, Caught, StoppedClean, StopRecordsAreTrue
<1> QED
  BY <1>1, Inductive, PTL

-----------------------------------------------------------------------------
(* The scripts that stop and restore the services: a passed verdict is true *)

HIDE ClusterAssumption

\* How far a script has come on its way to a verdict; "trap", "failed" and "killed" are
\* off it.
Stage(p) ==
  IF p \in {"idle", "baseline", "stop", "check"} THEN 0
  ELSE IF p \in {"launch", "wait", "collect", "manager", "bulk"} THEN 1
  ELSE IF p = "ended" THEN 2
  ELSE IF p \in {"restore", "head", "poll"} THEN 3
  ELSE IF p \in {"canary", "inspect"} THEN 4
  ELSE IF p \in {"audit", "passed"} THEN 5 ELSE 6
OnWay == Stage(place) < 6
Stamps == {"start", "end", "cold", "ready", "postEnd"}

Shapes ==
  /\ script \in {"gate", "bulk"} /\ failed \in BOOLEAN /\ todo \subseteq Hosts
  /\ service \in [Hosts -> [running : BOOLEAN, oom : BOOLEAN, restarts : Nat]]
  /\ DOMAIN mark = Stamps /\ clock \in Nat
  /\ DOMAIN seen = {"containers", "death", "health", "generation"}
  /\ rotation \in Nat /\ work \in [Hosts -> {"none", "running", "ok", "bad"}]
  /\ \A e \in journal : e.at \in Nat /\ e.at <= clock

\* The stamps of the stages behind, and where the events lie between them.
Stamped ==
  OnWay =>
    /\ Stage(place) >= 1 => mark["start"] \in Nat /\ mark["start"] <= clock
    /\ Stage(place) >= 2 => mark["end"] \in Nat /\ mark["end"] <= clock
    /\ Stage(place) >= 3 => mark["cold"] \in Nat /\ mark["cold"] <= clock
    /\ Stage(place) >= 4 /\ ~failed => mark["ready"] \in Nat /\ mark["ready"] <= clock
    /\ Stage(place) = 5 => mark["postEnd"] \in Nat
Logged ==
  OnWay => \A e \in journal :
    /\ Stage(e.phase) <= Stage(place)
    /\ Stage(place) >= 1 /\ Stage(e.phase) >= 1 => mark["start"] <= e.at
    /\ Stage(place) >= 2 /\ Stage(e.phase) = 1 => e.at <= mark["end"]
    /\ Stage(place) >= 2 /\ Stage(e.phase) >= 2 => mark["end"] <= e.at
    /\ Stage(place) >= 3 /\ Stage(e.phase) <= 2 => e.at < mark["cold"]
    /\ Stage(place) >= 4 /\ Stage(e.phase) = 4 /\ ~failed => mark["ready"] <= e.at
    /\ Stage(place) = 5 /\ Stage(e.phase) <= 4 => e.at <= mark["postEnd"]

\* The services between the stop and the restart, and those that died after it.
Unstarted == IF place = "restore" THEN todo \cup {Head} ELSE IF place = "head" THEN {Head} ELSE {}
Services ==
  OnWay =>
    /\ place = "restore" => Head \notin todo
    /\ Stage(place) \in {1, 2} => \A h \in Hosts : ~service[h].running
    /\ \A h \in Unstarted : ~service[h].running
    /\ Stage(place) <= 2 => died = {}
    /\ died \subseteq Hosts \ Unstarted
    /\ Stage(place) \in {3, 4} => \A h \in died : ~service[h].running \/ service[h].restarts >= 1
    /\ Stage(place) = 5 => \A h \in Hosts :
         /\ seen.containers[h].before = CountBefore(h) /\ seen.containers[h].after \in Nat
         /\ h \in died => ~seen.containers[h].running \/ seen.containers[h].after >= 1

\* A rotation that counts has no bad rank, and none of its ranks runs any more.
RanksOK ==
  /\ script = "bulk" => badRanks = {} /\ place \notin {"launch", "wait", "collect", "ended", "trap"}
  /\ script = "gate" => place \notin {"manager", "bulk"}
  /\ OnWay /\ script = "gate" => 
       /\ badRanks \subseteq 0 .. rotation /\ rotation <= LastRotation
       /\ Stage(place) <= 1 => rotations \subseteq 0 .. rotation - 1
       /\ ~failed => badRanks \cap rotations = {}
       /\ ~failed /\ place \in {"launch", "wait", "collect"} /\ rotation \in badRanks => \E h \in Hosts : work[h] = "bad" /\ (place = "launch" => h \notin todo)
       /\ ~failed /\ place = "launch" => \A h \in todo : work[h] # "running"
       /\ Stage(place) = 0 => badRanks = {} /\ \A h \in Hosts : work[h] = "none"
       /\ ~failed /\ Stage(place) >= 2 => \A h \in Hosts : work[h] # "running"

Judged ==
  place = "passed" =>
    /\ ~failed /\ EvaluateLifecycle(mark, Collected(mark, journal), seen)
    /\ script = "gate" => rotations = Rotations

PInv == Shapes /\ Stamped /\ Logged /\ Services /\ RanksOK /\ Judged

LEMMA Stages ==
  /\ \A p \in {"idle", "baseline", "stop", "check"} : Stage(p) = 0
  /\ \A p \in {"launch", "wait", "collect", "manager", "bulk"} : Stage(p) = 1
  /\ Stage("ended") = 2 /\ \A p \in {"restore", "head", "poll"} : Stage(p) = 3
  /\ \A p \in {"canary", "inspect"} : Stage(p) = 4 /\ \A q \in {"audit", "passed"} : Stage(q) = 5
  /\ \A p \in {"trap", "failed", "killed"} : Stage(p) = 6
BY DEF Stage

LEMMA StageType == ASSUME NEW p PROVE Stage(p) \in 0 .. 6
BY DEF Stage

-----------------------------------------------------------------------------
(* The time *)

\* What is stamped, and what is logged, when the script comes to a stage.
Moves(names) == clock' = clock + 1 /\ mark' = [m \in Stamps |-> IF m \in names THEN clock + 1 ELSE mark[m]]
Quietly == /\ UNCHANGED mark /\ clock' \in Nat /\ clock <= clock' /\ (failed => failed')
           /\ Stage(place') = Stage(place)

LEMMA TimeQuiet ==
  ASSUME Shapes, Stamped, Logged, Quietly, UNCHANGED journal, failed' \in BOOLEAN
  PROVE  Stamped' /\ Logged'
<1>1. Stamped'
  BY DEF Quietly, Stamped, OnWay, Shapes
<1>2. Logged'
  BY DEF Quietly, Logged, OnWay, Shapes
<1> QED
  BY <1>1, <1>2


\* A stamp, or the end of the observation, and the stage that begins with it.
LEMMA TimeStart ==
  ASSUME Shapes, Stamped, Logged, Stage(place) = 0, Stage(place') = 1, UNCHANGED journal, Stamp({"start"})
  PROVE  Stamped' /\ Logged'
<1>1. clock' = clock + 1 /\ mark'["start"] = clock + 1 /\ clock \in Nat
  BY DEF Stamp, Shapes, Stamps
<1>2. Stamped'
  BY <1>1 DEF Stamped, OnWay
<1>3. \A e \in journal : Stage(e.phase) <= 0
  BY DEF Logged, OnWay
<1>4. \A e \in journal : Stage(e.phase) \in 0 .. 6
  BY StageType
<1>5. Logged'
  BY <1>3, <1>4 DEF Logged, OnWay
<1> QED
  BY <1>2, <1>5

LEMMA TimeEnd ==
  ASSUME Shapes, Stamped, Logged, Stage(place) = 1, Stage(place') = 2, UNCHANGED journal, Stamp({"end"})
  PROVE  Stamped' /\ Logged'
<1>1. clock' = clock + 1 /\ mark'["end"] = clock + 1 /\ clock \in Nat /\ mark'["start"] = mark["start"]
  BY DEF Stamp, Shapes, Stamps
<1>2. Stamped'
  BY <1>1 DEF Stamped, OnWay
<1>3. \A e \in journal : Stage(e.phase) <= 1 /\ e.at <= clock /\ e.at \in Nat
  BY DEF Logged, OnWay, Shapes
<1>4. \A e \in journal : Stage(e.phase) \in 0 .. 6
  BY StageType
<1>5. Logged'
  BY <1>1, <1>3, <1>4 DEF Logged, OnWay
<1> QED
  BY <1>2, <1>5

LEMMA TimeCold ==
  ASSUME Shapes, Stamped, Logged, Stage(place') = 3, UNCHANGED journal,
         (Stage(place) = 1 /\ Stamp({"end", "cold"})) \/ (Stage(place) = 2 /\ Stamp({"cold"}))
  PROVE  Stamped' /\ Logged'
<1>1. /\ clock' = clock + 1 /\ mark'["cold"] = clock + 1 /\ clock \in Nat /\ mark'["start"] = mark["start"]
      /\ mark'["end"] = IF Stage(place) = 1 THEN clock + 1 ELSE mark["end"]
  BY DEF Stamp, Shapes, Stamps
<1>2. Stamped'
  BY <1>1 DEF Stamped, OnWay
<1>3. \A e \in journal : Stage(e.phase) <= Stage(place) /\ e.at <= clock /\ e.at \in Nat
  BY DEF Logged, OnWay, Shapes
<1>4. \A e \in journal : Stage(e.phase) \in 0 .. 6
  BY StageType
<1>5. Logged'
  BY <1>1, <1>3, <1>4 DEF Logged, OnWay
<1> QED
  BY <1>2, <1>5

LEMMA TimeReady ==
  ASSUME Shapes, Stamped, Logged, Stage(place) = 3, Stage(place') = 4, UNCHANGED journal,
         Stamp({"ready"}) \/ (failed' /\ UNCHANGED timeVars)
  PROVE  Stamped' /\ Logged'
<1>1. /\ mark'["start"] = mark["start"] /\ mark'["end"] = mark["end"] /\ mark'["cold"] = mark["cold"]
      /\ clock \in Nat /\ clock' \in Nat /\ clock <= clock'
      /\ ~failed' => clock' = clock + 1 /\ mark'["ready"] = clock + 1
  BY DEF Stamp, Shapes, Stamps, timeVars
<1>2. Stamped'
  BY <1>1 DEF Stamped, OnWay
<1>3. \A e \in journal : Stage(e.phase) <= 3
  BY DEF Logged, OnWay
<1>4. \A e \in journal : Stage(e.phase) \in 0 .. 6
  BY StageType
<1>5. Logged'
  BY <1>1, <1>3, <1>4 DEF Logged, OnWay
<1> QED
  BY <1>2, <1>5

LEMMA TimeObserved ==
  ASSUME Shapes, Stamped, Logged, Stage(place) = 4, Stage(place') = 5, UNCHANGED <<journal, failed>>,
         clock' = clock + PostSleep, mark' = [mark EXCEPT !["postEnd"] = clock + PostSleep]
  PROVE  Stamped' /\ Logged'
<1>1. PostSleep \in Nat
  BY LifecycleAssumption DEF PostSleep
<1>2. /\ clock \in Nat /\ clock' \in Nat /\ clock <= clock' /\ mark'["postEnd"] = clock'
      /\ \A m \in Stamps \ {"postEnd"} : mark'[m] = mark[m]
  BY <1>1 DEF Shapes, Stamps
<1>3. /\ mark'["start"] = mark["start"] /\ mark'["end"] = mark["end"] /\ mark'["cold"] = mark["cold"]
      /\ mark'["ready"] = mark["ready"]
  BY <1>2 DEF Stamps
<1>4. Stamped'
  BY <1>2, <1>3 DEF Stamped, OnWay
<1>5. \A e \in journal : Stage(e.phase) <= 4 /\ e.at \in Nat /\ e.at <= clock /\ Stage(e.phase) \in 0 .. 6
  BY StageType DEF Logged, OnWay, Shapes
<1>6. Logged'
  BY <1>2, <1>3, <1>5 DEF Logged, OnWay
<1> QED
  BY <1>4, <1>6

LEMMA TimeLogs ==
  ASSUME Shapes, Stamped, Logged, NEW h \in Hosts, KernelEvent(h)
  PROVE  Stamped' /\ Logged'
<1>1. clock' \in {clock, clock + 1} /\ clock \in Nat /\ UNCHANGED <<place, mark, failed>> /\ place # "passed"
  BY DEF KernelEvent, Shapes
<1>2. PICK kind \in {"alloc", "fault"} :
        journal' = journal \cup {[host |-> h, at |-> clock', kind |-> kind, phase |-> place]}
  BY DEF KernelEvent
<1>3. Stamped'
  BY <1>1 DEF Stamped, OnWay
<1> DEFINE OK(e) ==
      /\ Stage(e.phase) <= Stage(place)
      /\ Stage(place) >= 1 /\ Stage(e.phase) >= 1 => mark["start"] <= e.at
      /\ Stage(place) >= 2 /\ Stage(e.phase) = 1 => e.at <= mark["end"]
      /\ Stage(place) >= 2 /\ Stage(e.phase) >= 2 => mark["end"] <= e.at
      /\ Stage(place) >= 3 /\ Stage(e.phase) <= 2 => e.at < mark["cold"]
      /\ Stage(place) >= 4 /\ Stage(e.phase) = 4 /\ ~failed => mark["ready"] <= e.at
      /\ Stage(place) = 5 /\ Stage(e.phase) <= 4 => e.at <= mark["postEnd"]
<1>4. ASSUME OnWay, NEW e, e.at = clock', e.phase = place PROVE OK(e)
  <2> DEFINE k == Stage(place)
  <2>1. k \in 0 .. 6
    BY StageType
  <2> HIDE DEF k
  <2> QED  BY <1>1, <1>4, <2>1 DEF Stamped, k
<1>5. ASSUME OnWay PROVE \A e \in journal' : OK(e)
  <2>1. \A e \in journal : OK(e)
    BY <1>5 DEF Logged
  <2> DEFINE new == [host |-> h, at |-> clock', kind |-> kind, phase |-> place]
  <2>2. new.at = clock' /\ new.phase = place
    OBVIOUS
  <2>3. OK(new)
    BY <1>4, <1>5, <2>2
  <2> HIDE DEF new, OK
  <2> QED  BY <1>2, <2>1, <2>3 DEF new
<1>6. Logged'
  BY <1>1, <1>5 DEF Logged, OnWay
<1> QED
  BY <1>3, <1>6

LEMMA TimeOff == ASSUME Stage(place') = 6 PROVE Stamped' /\ Logged'
BY DEF Stamped, Logged, OnWay

LEMMA TimeStep ==
  ASSUME Shapes, Stamped, Logged, RanksOK, ServicesNext
  PROVE  Stamped' /\ Logged'
<1> USE Stages
<1>1. CASE Begin
  BY <1>1, TimeQuiet DEF Begin, Proceed, Quietly, timeVars, Shapes
<1>2. ASSUME NEW h \in Hosts, TakeBaseline(h) \/ StopService(h) PROVE Stamped' /\ Logged'
  BY <1>2, TimeQuiet DEF TakeBaseline, StopService, Proceed, Quietly, timeVars, Shapes
<1>3. CASE CheckStopped
  BY <1>3, TimeStart DEF CheckStopped, Proceed
<1>4. ASSUME NEW h \in Hosts, LaunchGateRank(h) PROVE Stamped' /\ Logged'
  BY <1>4, TimeQuiet DEF LaunchGateRank, Proceed, Quietly, timeVars, Shapes
<1>5. ASSUME NEW h \in Hosts, RankEnds(h) PROVE Stamped' /\ Logged'
  BY <1>5, TimeQuiet DEF RankEnds, Quietly, timeVars, Shapes
<1>6. CASE Wait
  <2>1. (failed' = failed \/ failed' = TRUE) /\ UNCHANGED <<journal, clock, mark>>
    BY <1>6 DEF Wait, timeVars
  <2>2. place = "wait" /\ place' = "collect"
    BY <1>6 DEF Wait, Proceed
  <2>3. Stage(place') = Stage(place)
    BY <2>2
  <2>4. failed' \in BOOLEAN /\ (failed => failed')
    BY <2>1 DEF Shapes
  <2>5. Quietly
    BY <2>1, <2>3, <2>4 DEF Quietly, Shapes
  <2> QED  BY <2>1, <2>4, <2>5, TimeQuiet
<1>7. CASE Collect
  <2>1. (failed => failed') /\ failed' \in BOOLEAN /\ UNCHANGED journal /\ place = "collect"
    BY <1>7 DEF Collect, Shapes
  <2>2. CASE Stamp({"end"}) /\ Proceed("ended", Hosts)
    BY <2>1, <2>2, TimeEnd DEF Proceed
  <2>3. CASE Proceed("launch", Hosts) /\ UNCHANGED timeVars
    BY <2>1, <2>3, TimeQuiet DEF Proceed, Quietly, timeVars, Shapes
  <2> QED  BY <1>7, <2>2, <2>3 DEF Collect
<1>8. ASSUME NEW h \in Hosts, StopGate(h) PROVE Stamped' /\ Logged'
  <2>1. UNCHANGED <<journal, failed>> /\ place = "ended"
    BY <1>8 DEF StopGate
  <2>2. CASE Stamp({"cold"}) /\ Proceed("restore", Hosts \ {Head})
    BY <2>1, <2>2, TimeCold DEF Proceed
  <2>3. CASE Proceed("ended", todo \ {h}) /\ UNCHANGED timeVars
    BY <2>1, <2>3, TimeQuiet DEF Proceed, Quietly, timeVars, Shapes
  <2> QED  BY <1>8, <2>2, <2>3 DEF StopGate
<1>9. CASE StartManager
  <2>1. CASE Proceed("bulk", {}) /\ UNCHANGED failed
    BY <1>9, <2>1, TimeQuiet DEF StartManager, Proceed, Quietly, timeVars, Shapes
  <2>2. CASE Proceed("failed", {})
    BY <2>2, TimeOff DEF Proceed
  <2> QED  BY <1>9, <2>1, <2>2 DEF StartManager
<1>10. CASE BeginRestore
  <2>1. place = "bulk" /\ place' = "restore" /\ UNCHANGED journal /\ Stamp({"end", "cold"})
    BY <1>10 DEF BeginRestore, Proceed
  <2>2. Stage(place) = 1 /\ Stage(place') = 3
    BY <2>1
  <2> QED  BY <2>1, <2>2, TimeCold
<1>11. ASSUME NEW h \in Hosts, StartService(h) PROVE Stamped' /\ Logged'
  BY <1>11, TimeQuiet DEF StartService, Proceed, Quietly, timeVars, Shapes
<1>12. CASE StartHead
  BY <1>12, TimeQuiet DEF StartHead, Proceed, Quietly, timeVars, Shapes
<1>13. CASE Poll
  <2>1. UNCHANGED journal /\ place = "poll"
    BY <1>13 DEF Poll
  <2>2. CASE failed' = TRUE /\ Proceed("inspect", {}) /\ UNCHANGED timeVars
    BY <2>1, <2>2, TimeReady DEF Proceed
  <2>3. CASE Stamp({"ready"}) /\ Proceed("canary", {})
    BY <2>1, <2>3, TimeReady DEF Proceed
  <2>4. CASE UNCHANGED <<place, failed, mark>> /\ \E slow \in 1 .. 2 : clock' = clock + slow
    BY <2>1, <2>4, TimeQuiet DEF Quietly, Shapes
  <2> QED  BY <1>13, <2>2, <2>3, <2>4 DEF Poll
<1>14. CASE Canary
  <2>1. (failed' = failed \/ failed' = TRUE) /\ UNCHANGED <<journal, clock, mark>>
    BY <1>14 DEF Canary, timeVars
  <2>2. place = "canary" /\ place' = "inspect"
    BY <1>14 DEF Canary, Proceed
  <2>3. Stage(place') = Stage(place)
    BY <2>2
  <2>4. failed' \in BOOLEAN /\ (failed => failed')
    BY <2>1 DEF Shapes
  <2>5. Quietly
    BY <2>1, <2>3, <2>4 DEF Quietly, Shapes
  <2> QED  BY <2>1, <2>4, <2>5, TimeQuiet
<1>15. CASE Inspect
  BY <1>15, TimeObserved DEF Inspect, Proceed
<1>16. CASE Audit
  <2>1. CASE place' = "passed"
    BY <1>16, <2>1, TimeQuiet DEF Audit, Quietly, timeVars, Shapes
  <2>2. CASE place' = "failed"
    BY <2>2, TimeOff
  <2> QED  BY <1>16, <2>1, <2>2 DEF Audit, Proceed
<1>17. ASSUME Exit \/ Killed \/ \E h \in Hosts : TrapStart(h) PROVE Stamped' /\ Logged'
  <2>1. place' \in {"trap", "failed", "killed"}
    BY <1>17 DEF Exit, Killed, TrapStart, Proceed
  <2> QED  BY <2>1, TimeOff
<1>18. ASSUME NEW h \in Hosts, ServiceDies(h) PROVE Stamped' /\ Logged'
  BY <1>18, TimeQuiet DEF ServiceDies, Quietly, timeVars, Shapes
<1>19. ASSUME NEW h \in Hosts, KernelEvent(h) PROVE Stamped' /\ Logged'
  BY <1>19, TimeLogs
<1> QED
  BY <1>1, <1>2, <1>3, <1>4, <1>5, <1>6, <1>7, <1>8, <1>9, <1>10, <1>11, <1>12, <1>13, <1>14, <1>15, <1>16, <1>17,
     <1>18, <1>19 DEF ServicesNext, Script

-----------------------------------------------------------------------------
(* The shapes *)

LEMMA DockerStarts ==
  ASSUME Shapes, NEW h \in Hosts, DockerStart(h)
  PROVE  /\ service' \in [Hosts -> [running : BOOLEAN, oom : BOOLEAN, restarts : Nat]]
         /\ \A g \in Hosts : g # h => service'[g] = service[g]
<1>1. [running |-> TRUE, oom |-> FALSE, restarts |-> 0] \in [running : BOOLEAN, oom : BOOLEAN, restarts : Nat]
  OBVIOUS
<1>2. service \in [Hosts -> [running : BOOLEAN, oom : BOOLEAN, restarts : Nat]]
  BY DEF Shapes
<1> DEFINE r == [running |-> TRUE, oom |-> FALSE, restarts |-> 0]
<1>3. service' = service \/ service' = [service EXCEPT ![h] = r]
  BY DEF DockerStart
<1> HIDE DEF r
<1>4. r \in [running : BOOLEAN, oom : BOOLEAN, restarts : Nat]
  BY <1>1 DEF r
<1> QED
  BY <1>2, <1>3, <1>4

LEMMA Dies ==
  ASSUME Shapes, NEW h \in Hosts, ServiceDies(h)
  PROVE  /\ service' \in [Hosts -> [running : BOOLEAN, oom : BOOLEAN, restarts : Nat]]
         /\ \A g \in Hosts : g # h => service'[g] = service[g]
         /\ service[h].running /\ (~service'[h].running \/ service'[h].restarts >= 1)
<1>1. PICK again \in BOOLEAN, oom \in BOOLEAN :
        service' = [service EXCEPT ![h] = [running |-> again, oom |-> oom /\ ~again,
                      restarts |-> IF again THEN service[h].restarts + 1 ELSE service[h].restarts]]
  BY DEF ServiceDies, Shapes
<1>2. service[h].restarts \in Nat /\ service[h].running
  BY DEF Shapes, ServiceDies
<1> DEFINE n == IF again THEN service[h].restarts + 1 ELSE service[h].restarts
           r == [running |-> again, oom |-> oom /\ ~again, restarts |-> n]
<1>3. n \in Nat /\ (again => n >= 1)
  BY <1>2
<1>4. service' = [service EXCEPT ![h] = r]
  BY <1>1
<1> HIDE DEF n
<1>5. r \in [running : BOOLEAN, oom : BOOLEAN, restarts : Nat] /\ r.running = again /\ r.restarts = n
  BY <1>3
<1> HIDE DEF r
<1>6. service'[h] = r /\ \A g \in Hosts : g # h => service'[g] = service[g]
  BY <1>4 DEF Shapes
<1>7. ~service'[h].running \/ service'[h].restarts >= 1
  BY <1>3, <1>5, <1>6
<1>8. service' \in [Hosts -> [running : BOOLEAN, oom : BOOLEAN, restarts : Nat]]
  BY <1>4, <1>5 DEF Shapes
<1> QED
  BY <1>2, <1>6, <1>7, <1>8

LEMMA StampShapes ==
  ASSUME Shapes, NEW names, Stamp(names), UNCHANGED journal
  PROVE  DOMAIN mark' = Stamps /\ clock' \in Nat /\ \A e \in journal' : e.at \in Nat /\ e.at <= clock'
BY DEF Shapes, Stamp

\* The parts a step may change.
Clocks == DOMAIN mark = Stamps /\ clock \in Nat /\ \A e \in journal : e.at \in Nat /\ e.at <= clock
Working == rotation \in Nat /\ work \in [Hosts -> {"none", "running", "ok", "bad"}]
Seen == DOMAIN seen = {"containers", "death", "health", "generation"}
Serving == service \in [Hosts -> [running : BOOLEAN, oom : BOOLEAN, restarts : Nat]]
Flags == script \in {"gate", "bulk"} /\ failed \in BOOLEAN /\ todo \subseteq Hosts

LEMMA FlagsStep == ASSUME Shapes, ServicesNext PROVE Flags'
<1> USE ServicesAssumption
<1>1. CASE Begin \/ CheckStopped \/ Wait \/ StartManager \/ BeginRestore \/ StartHead
  BY <1>1 DEF Begin, CheckStopped, Wait, StartManager, BeginRestore, StartHead, Proceed, Flags, Shapes
<1>2. CASE Poll \/ Canary \/ Inspect \/ Audit \/ Exit \/ Killed
  BY <1>2 DEF Poll, Canary, Inspect, Audit, Exit, Killed, Proceed, Flags, Shapes
<1>3. CASE Collect
  <2>1. UNCHANGED script /\ todo' = Hosts
    BY <1>3 DEF Collect, Proceed
  <2>2. failed' \in BOOLEAN
    BY <1>3 DEF Collect
  <2> QED  BY <2>1, <2>2 DEF Flags, Shapes
<1>4. ASSUME NEW h \in Hosts, TakeBaseline(h) \/ StopService(h) \/ LaunchGateRank(h) \/ StopGate(h) PROVE Flags'
  BY <1>4 DEF TakeBaseline, StopService, LaunchGateRank, StopGate, Proceed, Flags, Shapes
<1>5. ASSUME NEW h \in Hosts, StartService(h) \/ TrapStart(h) \/ RankEnds(h) \/ ServiceDies(h) \/ KernelEvent(h)
      PROVE  Flags'
  BY <1>5 DEF StartService, TrapStart, RankEnds, ServiceDies, KernelEvent, Proceed, Flags, Shapes
<1> QED
  BY <1>1, <1>2, <1>3, <1>4, <1>5 DEF ServicesNext, Script

LEMMA ServingStep == ASSUME Shapes, ServicesNext PROVE Serving'
<1>1. CASE Begin \/ CheckStopped \/ Wait \/ StartManager \/ BeginRestore \/ Collect
  BY <1>1 DEF Begin, CheckStopped, Wait, StartManager, BeginRestore, Collect, Serving, Shapes, serviceVars
<1>2. CASE Poll \/ Canary \/ Inspect \/ Audit \/ Exit \/ Killed
  BY <1>2 DEF Poll, Canary, Inspect, Audit, Exit, Killed, Serving, Shapes, serviceVars
<1>3. ASSUME NEW h \in Hosts, TakeBaseline(h) \/ LaunchGateRank(h) \/ StopGate(h) \/ RankEnds(h) \/ KernelEvent(h)
      PROVE  Serving'
  BY <1>3 DEF TakeBaseline, LaunchGateRank, StopGate, RankEnds, KernelEvent, Serving, Shapes, serviceVars
<1>4. ASSUME NEW h \in Hosts, StopService(h) PROVE Serving'
  <2>1. [service EXCEPT ![h].running = FALSE]
          \in [Hosts -> [running : BOOLEAN, oom : BOOLEAN, restarts : Nat]]
    <3>1. service[h] \in [running : BOOLEAN, oom : BOOLEAN, restarts : Nat]
      BY DEF Shapes
    <3>2. [service[h] EXCEPT !.running = FALSE] \in [running : BOOLEAN, oom : BOOLEAN, restarts : Nat]
      BY <3>1
    <3> QED  BY <3>2 DEF Shapes
  <2>2. service' = [service EXCEPT ![h].running = FALSE] \/ service' = service
    BY <1>4 DEF StopService
  <2> QED  BY <2>1, <2>2 DEF Serving, Shapes
<1>5. ASSUME NEW h \in Hosts, StartService(h) \/ TrapStart(h) PROVE Serving'
  BY <1>5, DockerStarts DEF StartService, TrapStart, Serving
<1>6. CASE StartHead
  BY <1>6, DockerStarts, ServicesAssumption DEF StartHead, Serving
<1>7. ASSUME NEW h \in Hosts, ServiceDies(h) PROVE Serving'
  BY <1>7, Dies DEF Serving
<1> QED
  BY <1>1, <1>2, <1>3, <1>4, <1>5, <1>6, <1>7 DEF ServicesNext, Script

LEMMA SeenStep == ASSUME Shapes, ServicesNext PROVE Seen'
<1>1. CASE Begin \/ CheckStopped \/ Wait \/ StartManager \/ BeginRestore \/ Collect
  BY <1>1 DEF Begin, CheckStopped, Wait, StartManager, BeginRestore, Collect, Seen, Shapes, restoreVars
<1>2. CASE StartHead \/ Poll \/ Canary \/ Inspect
  BY <1>2 DEF StartHead, Poll, Canary, Inspect, Seen, Shapes, restoreVars
<1>3. CASE Audit \/ Exit \/ Killed
  BY <1>3 DEF Audit, Exit, Killed, Seen, Shapes, restoreVars
<1>4. ASSUME NEW h \in Hosts, TakeBaseline(h) \/ LaunchGateRank(h) \/ StopGate(h) \/ RankEnds(h) \/ KernelEvent(h)
      PROVE  Seen'
  BY <1>4 DEF TakeBaseline, LaunchGateRank, StopGate, RankEnds, KernelEvent, Seen, Shapes, restoreVars
<1>5. ASSUME NEW h \in Hosts, StopService(h) \/ StartService(h) \/ TrapStart(h) \/ ServiceDies(h) PROVE Seen'
  BY <1>5 DEF StopService, StartService, TrapStart, ServiceDies, Seen, Shapes, restoreVars
<1> QED
  BY <1>1, <1>2, <1>3, <1>4, <1>5 DEF ServicesNext, Script

LEMMA ClocksStep == ASSUME Shapes, ServicesNext PROVE Clocks'
<1>1. CASE Begin \/ Wait \/ StartManager \/ StartHead \/ Canary \/ Audit \/ Exit \/ Killed
  BY <1>1 DEF Begin, Wait, StartManager, StartHead, Canary, Audit, Exit, Killed, Clocks, Shapes, timeVars
<1>2. CASE CheckStopped \/ BeginRestore
  BY <1>2, StampShapes DEF CheckStopped, BeginRestore, Clocks
<1>3. CASE Collect
  <2>1. (\E names : Stamp(names)) \/ UNCHANGED timeVars
    BY <1>3 DEF Collect
  <2> QED  BY <1>3, <2>1, StampShapes DEF Collect, Clocks, Shapes, timeVars
<1>4. CASE Poll
  <2>1. (\E names : Stamp(names)) \/ UNCHANGED timeVars \/ (UNCHANGED mark /\ \E slow \in 1 .. 2 : clock' = clock + slow)
    BY <1>4 DEF Poll
  <2> QED  BY <1>4, <2>1, StampShapes DEF Poll, Clocks, Shapes, timeVars
<1>5. CASE Inspect
  <2>1. PostSleep \in Nat
    BY LifecycleAssumption DEF PostSleep
  <2> QED  BY <1>5, <2>1 DEF Inspect, Clocks, Shapes
<1>6. ASSUME NEW h \in Hosts, StopGate(h) PROVE Clocks'
  <2>1. (\E names : Stamp(names)) \/ UNCHANGED timeVars
    BY <1>6 DEF StopGate
  <2> QED  BY <1>6, <2>1, StampShapes DEF StopGate, Clocks, Shapes, timeVars
<1>7. ASSUME NEW h \in Hosts, TakeBaseline(h) \/ LaunchGateRank(h) \/ RankEnds(h) \/ StopService(h) \/ StartService(h)
                               \/ TrapStart(h) \/ ServiceDies(h)
      PROVE  Clocks'
  BY <1>7 DEF TakeBaseline, LaunchGateRank, RankEnds, StopService, StartService, TrapStart, ServiceDies, Clocks, Shapes,
              timeVars
<1>8. ASSUME NEW h \in Hosts, KernelEvent(h) PROVE Clocks'
  <2>1. PICK kind \in {"alloc", "fault"} :
          journal' = journal \cup {[host |-> h, at |-> clock', kind |-> kind, phase |-> place]}
    BY <1>8 DEF KernelEvent
  <2>2. clock' \in {clock, clock + 1} /\ UNCHANGED mark
    BY <1>8 DEF KernelEvent
  <2> QED  BY <2>1, <2>2 DEF Clocks, Shapes
<1> QED
  BY <1>1, <1>2, <1>3, <1>4, <1>5, <1>6, <1>7, <1>8 DEF ServicesNext, Script

LEMMA WorkingStep == ASSUME Shapes, ServicesNext PROVE Working'
<1>1. CASE Begin \/ CheckStopped \/ StartHead \/ Poll \/ Canary \/ Inspect \/ Audit \/ Killed
  BY <1>1 DEF Begin, CheckStopped, StartHead, Poll, Canary, Inspect, Audit, Killed, Working, Shapes, runVars
<1>2. CASE Wait \/ Collect \/ StartManager \/ BeginRestore \/ Exit
  BY <1>2 DEF Wait, Collect, StartManager, BeginRestore, Exit, Working, Shapes, runVars
<1>3. ASSUME NEW h \in Hosts, LaunchGateRank(h) \/ RankEnds(h) \/ StopGate(h) PROVE Working'
  BY <1>3 DEF LaunchGateRank, RankEnds, StopGate, Working, Shapes
<1>4. ASSUME NEW h \in Hosts, TakeBaseline(h) \/ StopService(h) \/ StartService(h) \/ TrapStart(h) \/ ServiceDies(h)
                               \/ KernelEvent(h)
      PROVE  Working'
  BY <1>4 DEF TakeBaseline, StopService, StartService, TrapStart, ServiceDies, KernelEvent, Working, Shapes, runVars
<1> QED
  BY <1>1, <1>2, <1>3, <1>4 DEF ServicesNext, Script

LEMMA ShapesStep == ASSUME Shapes, ServicesNext PROVE Shapes'
<1>1. Clocks' /\ Working' /\ Seen' /\ Serving' /\ Flags'
  BY ClocksStep, WorkingStep, SeenStep, ServingStep, FlagsStep
<1> QED
  BY <1>1 DEF Shapes, Clocks, Working, Seen, Serving, Flags

-----------------------------------------------------------------------------
(* The services *)

\* Nothing is started, and the script stays where no more is known, or is told less.
LEMMA ServicesRest ==
  ASSUME Services, UNCHANGED <<service, died, baseline>>,
         \/ Stage(place') = 6
         \/ /\ Stage(place') = Stage(place) /\ place' \notin {"restore", "head"} /\ UNCHANGED seen
         \/ /\ Stage(place) = 3 /\ Stage(place') = 4 /\ place # "restore" /\ place # "head"
  PROVE  Services'
BY Stages DEF Services, OnWay, Unstarted, CountBefore

LEMMA ServicesStep == ASSUME Shapes, Services, RanksOK, ServicesNext PROVE Services'
<1> USE Stages
<1>1. CASE Begin \/ Wait \/ StartManager
  BY <1>1, ServicesRest DEF Begin, Wait, StartManager, Proceed, serviceVars, restoreVars
<1>2. CASE Collect
  BY <1>2 DEF Collect, Proceed, serviceVars, Services, OnWay, Unstarted
<1>3. ASSUME NEW h \in Hosts, TakeBaseline(h) \/ LaunchGateRank(h) PROVE Services'
  BY <1>3 DEF TakeBaseline, LaunchGateRank, Proceed, serviceVars, Services, OnWay, Unstarted
<1>4. ASSUME NEW h \in Hosts, StopService(h) PROVE Services'
  BY <1>4 DEF StopService, Proceed, Services, OnWay, Unstarted
<1>5. CASE CheckStopped
  BY <1>5 DEF CheckStopped, Proceed, serviceVars, Services, OnWay, Unstarted
<1>6. ASSUME NEW h \in Hosts, StopGate(h) PROVE Services'
  BY <1>6, ServicesAssumption DEF StopGate, Proceed, serviceVars, Services, OnWay, Unstarted
<1>7. CASE BeginRestore
  BY <1>7, ServicesAssumption DEF BeginRestore, Proceed, serviceVars, Services, OnWay, Unstarted
<1>8. ASSUME NEW h \in Hosts, StartService(h) PROVE Services'
  <2>1. /\ place = "restore" /\ h \in todo /\ UNCHANGED died /\ \A g \in Hosts : g # h => service'[g] = service[g]
        /\ (todo = {h} /\ place' = "head") \/ (place' = "restore" /\ todo' = todo \ {h})
    BY <1>8, DockerStarts DEF StartService, Proceed
  <2>2. Head \notin todo /\ h # Head /\ died \subseteq Hosts \ (todo \cup {Head})
        /\ \A g \in todo \cup {Head} : ~service[g].running
    BY <2>1 DEF Services, OnWay, Unstarted
  <2>3. Unstarted' \subseteq (todo \cup {Head}) \ {h} /\ (place' = "restore" => Head \notin todo')
    BY <2>1, <2>2 DEF Unstarted
  <2>4. Unstarted' \subseteq Hosts
    BY <2>3, ServicesAssumption DEF Shapes
  <2>5. \A g \in died : g # h /\ service'[g] = service[g]
    BY <2>1, <2>2
  <2>6. Stage(place) = 3 /\ Stage(place') = 3
    BY <2>1
  <2> QED  BY <2>1, <2>2, <2>3, <2>4, <2>5, <2>6 DEF Services, OnWay
<1>9. CASE StartHead
  <2>1. /\ place = "head" /\ place' = "poll" /\ UNCHANGED died /\ \A g \in Hosts : g # Head => service'[g] = service[g]
    BY <1>9, DockerStarts, ServicesAssumption DEF StartHead, Proceed
  <2>2. died \subseteq Hosts \ {Head}
    BY <2>1 DEF Services, OnWay, Unstarted
  <2>3. Unstarted' = {} /\ Stage(place) = 3 /\ Stage(place') = 3
    BY <2>1 DEF Unstarted
  <2>4. \A g \in died : service'[g] = service[g]
    BY <2>1, <2>2
  <2> QED  BY <2>1, <2>2, <2>3, <2>4 DEF Services, OnWay
<1>10. CASE Poll
  <2>1. UNCHANGED <<service, died, baseline>> /\ place = "poll" /\ place' \in {"poll", "canary", "inspect"}
        /\ (place' = "poll" => UNCHANGED seen)
    BY <1>10 DEF Poll, Proceed, serviceVars
  <2> QED  BY <2>1, ServicesRest
<1>11. CASE Canary
  BY <1>11 DEF Canary, Proceed, serviceVars, Services, OnWay, Unstarted
<1>12. CASE Inspect
  <2>1. UNCHANGED <<service, died, baseline>> /\ place = "inspect" /\ place' = "audit"
    BY <1>12 DEF Inspect, Proceed, serviceVars
  <2>2. seen'.containers = [h \in Hosts |-> [running |-> service[h].running, oom |-> service[h].oom,
                              before |-> CountBefore(h), after |-> service[h].restarts]]
    BY <1>12 DEF Inspect, Shapes
  <2>3. Unstarted' = {} /\ Stage(place) = 4 /\ Stage(place') = 5 /\ died \subseteq Hosts
    BY <2>1 DEF Unstarted, Services, OnWay
  <2>4. \A h \in Hosts : service[h].restarts \in Nat
    BY DEF Shapes
  <2>5. \A h \in Hosts : CountBefore(h)' = CountBefore(h)
    BY <2>1 DEF CountBefore
  <2>6. \A h \in Hosts :
          /\ seen'.containers[h].before = CountBefore(h)' /\ seen'.containers[h].after \in Nat
          /\ h \in died => ~seen'.containers[h].running \/ seen'.containers[h].after >= 1
    BY <2>2, <2>3, <2>4, <2>5 DEF Services, OnWay
  <2> QED  BY <2>1, <2>3, <2>6 DEF Services, OnWay
<1>13. CASE Audit
  <2>1. place = "audit" /\ place' \in {"passed", "failed"} /\ UNCHANGED <<service, died, baseline, seen>>
    BY <1>13 DEF Audit, Proceed, serviceVars, restoreVars
  <2> QED  BY <2>1, ServicesRest
<1>14. ASSUME Exit \/ Killed PROVE Services'
  <2>1. place' \in {"trap", "failed", "killed"}
    BY <1>14 DEF Exit, Killed, Proceed
  <2> QED  BY <2>1 DEF Services, OnWay
<1>15. ASSUME NEW h \in Hosts, TrapStart(h) PROVE Services'
  <2>1. place' \in {"trap", "failed", "killed"}
    BY <1>15 DEF TrapStart, Proceed
  <2> QED  BY <2>1 DEF Services, OnWay
<1>16. ASSUME NEW h \in Hosts, RankEnds(h) \/ KernelEvent(h) PROVE Services'
  BY <1>16 DEF RankEnds, KernelEvent, serviceVars, restoreVars, Services, OnWay, Unstarted, CountBefore
<1>17. ASSUME NEW h \in Hosts, ServiceDies(h) PROVE Services'
  <2>1. /\ UNCHANGED <<place, todo, baseline, seen>> /\ service[h].running
        /\ \A g \in Hosts : g # h => service'[g] = service[g]
        /\ ~service'[h].running \/ service'[h].restarts >= 1
        /\ died' = IF place \in {"restore", "head", "poll", "canary", "inspect", "trap"} THEN died \cup {h} ELSE died
    BY <1>17, Dies DEF ServiceDies, restoreVars
  <2>2. UNCHANGED Unstarted /\ \A g \in Hosts : CountBefore(g)' = CountBefore(g)
    BY <2>1 DEF Unstarted, CountBefore
  <2>3. ASSUME OnWay
        PROVE  /\ Stage(place) \notin {1, 2} /\ h \notin Unstarted /\ (Stage(place) = 0 \/ Stage(place) = 5 => died' = died)
    BY <2>1, <2>3, StageType DEF Services, OnWay, Stage
  <2>4. \A g \in Unstarted : g \in Hosts
    BY ServicesAssumption DEF Unstarted, Shapes
  <2> QED  BY <2>1, <2>2, <2>3, <2>4, StageType DEF Services, OnWay
<1> QED
  BY <1>1, <1>2, <1>3, <1>4, <1>5, <1>6, <1>7, <1>8, <1>9, <1>10, <1>11, <1>12, <1>13, <1>14, <1>15, <1>16, <1>17
     DEF ServicesNext, Script

-----------------------------------------------------------------------------
(* The ranks *)

\* What a rotation that has not failed is sure of.
Sure ==
  /\ badRanks \cap rotations = {}
  /\ place \in {"launch", "wait", "collect"} /\ rotation \in badRanks =>
       \E h \in Hosts : work[h] = "bad" /\ (place = "launch" => h \notin todo)
  /\ place = "launch" => \A h \in todo : work[h] # "running"
  /\ Stage(place) >= 2 => \A h \in Hosts : work[h] # "running"
Ways ==
  /\ script = "bulk" => badRanks = {} /\ place \notin {"launch", "wait", "collect", "ended", "trap"}
  /\ script = "gate" => place \notin {"manager", "bulk"}
Numbers ==
  /\ badRanks \subseteq 0 .. rotation /\ rotation <= LastRotation
  /\ Stage(place) <= 1 => rotations \subseteq 0 .. rotation - 1
  /\ Stage(place) = 0 => badRanks = {} /\ \A h \in Hosts : work[h] = "none"
LEMMA RankParts == RanksOK <=> Ways /\ (OnWay /\ script = "gate" => Numbers /\ (~failed => Sure))
BY DEF RanksOK, Ways, Numbers, Sure

\* Only the script's place changes.
LEMMA RanksRest ==
  ASSUME RanksOK, UNCHANGED <<runVars, script>>, (failed => failed') \/ Stage(place') = 6, Ways',
         \/ Stage(place') = 6
         \/ Stage(place') = Stage(place) /\ place' \notin {"launch", "wait", "collect"}
         \/ Stage(place) \in 2 .. 5 /\ Stage(place') >= 2
  PROVE  RanksOK'
<1>1. UNCHANGED <<rotation, rotations, work, badRanks, script>>
  BY DEF runVars
<1>2. ASSUME OnWay', script = "gate" PROVE Numbers' /\ (~failed' => Sure')
  <2>1. Stage(place') # 6 /\ OnWay
    BY <1>2, StageType DEF OnWay
  <2>2. Stage(place') \in 0 .. 6 /\ Stage(place) \in 0 .. 6
    BY StageType
  <2>3. place' \notin {"launch", "wait", "collect"}
    BY <2>1, <2>2, Stages
  <2>4. Numbers /\ (~failed => Sure)
    BY <1>2, <2>1, RankParts
  <2>5. Numbers'
    BY <1>1, <2>1, <2>2, <2>4 DEF Numbers
  <2>6. ASSUME ~failed' PROVE Sure'
    <3>1. Sure
      BY <2>1, <2>4, <2>6
    <3> QED  BY <1>1, <2>1, <2>2, <2>3, <3>1 DEF Sure
  <2> QED  BY <2>5, <2>6
<1>3. (Ways /\ (OnWay /\ script = "gate" => Numbers /\ (~failed => Sure)))' => RanksOK'
  BY RankParts, PTL
<1> QED
  BY <1>1, <1>2, <1>3

LEMMA RanksStep == ASSUME Shapes, RanksOK, ServicesNext PROVE RanksOK'
<1> USE Stages
<1>0. (Ways /\ (OnWay /\ script = "gate" => Numbers /\ (~failed => Sure)))' => RanksOK'
  BY RankParts, PTL
<1>a. Ways /\ script \in {"gate", "bulk"}
  BY RankParts DEF Shapes
<1>b. ASSUME OnWay, script = "gate" PROVE Numbers /\ (~failed => Sure)
  BY <1>b, RankParts
<1>c. rotation \in Nat /\ LastRotation \in Nat /\ rotation \in 0 .. rotation
  BY ServicesAssumption DEF Shapes
<1>1. CASE Begin
  BY <1>1, <1>a, RanksRest DEF Begin, Proceed, Ways, runVars
<1>2. ASSUME NEW h \in Hosts, TakeBaseline(h) \/ StopService(h) PROVE RanksOK'
  BY <1>2, <1>a, RanksRest DEF TakeBaseline, StopService, Proceed, Ways, runVars
<1>3. CASE CheckStopped
  <2>1. UNCHANGED <<script, failed, runVars>> /\ place = "check" /\ (script = "gate" => place' = "launch")
        /\ (script # "gate" => place' = "manager")
    BY <1>3 DEF CheckStopped, Proceed
  <2>2. Ways'
    BY <1>a, <2>1 DEF Ways, runVars
  <2>3. ASSUME script = "gate" PROVE Numbers' /\ (~failed' => Sure')
    <3>1. Numbers /\ (~failed => Sure) /\ place' = "launch" /\ UNCHANGED <<rotation, rotations, work, badRanks, failed>>
      BY <1>b, <2>1, <2>3 DEF OnWay, runVars
    <3>2. badRanks = {} /\ rotations \subseteq 0 .. rotation - 1 /\ \A h \in Hosts : work[h] = "none"
      BY <2>1, <3>1 DEF Numbers
    <3>3. todo' \subseteq Hosts /\ Stage(place') = 1
      BY <3>1, <1>3, <2>3 DEF CheckStopped, Proceed
    <3>4. Numbers'
      BY <3>1, <3>2, <3>3 DEF Numbers
    <3>5. Sure'
      BY <3>1, <3>2, <3>3 DEF Sure
    <3> QED  BY <3>4, <3>5
  <2> QED  BY <1>0, <2>1, <2>2, <2>3
<1>4. ASSUME NEW h \in Hosts, LaunchGateRank(h) PROVE RanksOK'
  <2>1. /\ UNCHANGED <<script, failed, rotation, rotations, badRanks>> /\ place = "launch" /\ h \in todo
        /\ work' = [work EXCEPT ![h] = "running"]
        /\ (todo = {h} /\ place' = "wait") \/ (place' = "launch" /\ todo' = todo \ {h})
    BY <1>4 DEF LaunchGateRank, Proceed
  <2>2. Ways'
    BY <1>a, <2>1 DEF Ways
  <2>3. Numbers /\ (~failed => Sure) /\ script = "gate"
    BY <1>a, <1>b, <2>1 DEF OnWay, Ways
  <2>4. Numbers'
    BY <2>1, <2>3 DEF Numbers
  <2>5. ASSUME ~failed PROVE Sure'
    <3>1. \A g \in Hosts : g # h => work'[g] = work[g]
      BY <2>1 DEF Shapes
    <3>2. todo \subseteq Hosts
      BY DEF Shapes
    <3>3. place' = "launch" => \A g \in todo' : work'[g] # "running"
      BY <2>1, <2>3, <2>5, <3>1, <3>2 DEF Sure
    <3>4. rotation \in badRanks => \E g \in Hosts : work'[g] = "bad" /\ (place' = "launch" => g \notin todo')
      BY <2>1, <2>3, <2>5, <3>1 DEF Sure
    <3> QED  BY <2>1, <2>3, <2>5, <3>3, <3>4 DEF Sure
  <2> QED  BY <1>0, <2>1, <2>2, <2>4, <2>5
<1>5. ASSUME NEW h \in Hosts, RankEnds(h) PROVE RanksOK'
  <2>1. /\ UNCHANGED <<script, failed, place, todo, rotation, rotations>> /\ script = "gate" /\ work[h] = "running"
        /\ \/ work' = [work EXCEPT ![h] = "ok"] /\ UNCHANGED badRanks
           \/ work' = [work EXCEPT ![h] = "bad"] /\ badRanks' = badRanks \cup {rotation}
    BY <1>5 DEF RankEnds
  <2>2. Ways'
    BY <1>a, <2>1 DEF Ways
  <2>3. ASSUME OnWay PROVE Numbers' /\ (~failed => Sure')
    <3>1. Numbers /\ (~failed => Sure) /\ Stage(place) \in 0 .. 6
      BY <1>b, <2>1, <2>3, StageType
    <3>2. Stage(place) # 0
      BY <2>1, <3>1 DEF Numbers
    <3>3. Numbers'
      BY <1>c, <2>1, <3>1, <3>2 DEF Numbers
    <3>4. ASSUME ~failed PROVE Sure'
      <4>1. Sure /\ Stage(place) = 1
        BY <2>1, <3>1, <3>2, <3>4 DEF Sure
      <4>2. rotation \notin rotations
        BY <1>c, <3>1, <4>1 DEF Numbers
      <4>3. \A g \in Hosts : g # h => work'[g] = work[g]
        BY <2>1 DEF Shapes
      <4>4. todo \subseteq Hosts /\ (place = "launch" => h \notin todo)
        BY <2>1, <4>1 DEF Shapes, Sure
      <4>5. place = "launch" => \A g \in todo : work'[g] # "running"
        BY <4>1, <4>3, <4>4 DEF Sure
      <4>6. place \in {"launch", "wait", "collect"} /\ rotation \in badRanks' =>
              \E g \in Hosts : work'[g] = "bad" /\ (place = "launch" => g \notin todo)
        <5>1. CASE rotation \in badRanks
          BY <2>1, <4>1, <4>3, <5>1 DEF Sure
        <5>2. CASE work' = [work EXCEPT ![h] = "bad"]
          BY <4>4, <5>2 DEF Shapes
        <5> QED  BY <2>1, <5>1, <5>2
      <4>7. badRanks' \cap rotations = {}
        BY <2>1, <4>1, <4>2 DEF Sure
      <4> QED  BY <2>1, <4>1, <4>5, <4>6, <4>7 DEF Sure
    <3> QED  BY <3>3, <3>4
  <2>4. UNCHANGED OnWay
    BY <2>1 DEF OnWay
  <2> QED  BY <1>0, <2>1, <2>2, <2>3, <2>4
<1>6. CASE Wait
  <2>1. /\ UNCHANGED <<script, rotation, rotations>> /\ place = "wait" /\ place' = "collect"
        /\ \/ UNCHANGED <<work, badRanks, failed>>
           \/ failed' = TRUE /\ badRanks' = badRanks \cup {rotation}
    BY <1>6 DEF Wait, Proceed
  <2>2. Numbers /\ (~failed => Sure) /\ script = "gate"
    BY <1>a, <1>b, <2>1 DEF OnWay, Ways
  <2>3. Ways'
    BY <1>a, <2>1, <2>2 DEF Ways
  <2>4. Stage(place) = 1 /\ Stage(place') = 1 /\ badRanks' \subseteq badRanks \cup {rotation}
    BY <2>1
  <2>5. Numbers'
    BY <1>c, <2>1, <2>2, <2>4 DEF Numbers
  <2>6. ~failed' => Sure'
    BY <2>1, <2>2, <2>4 DEF Sure
  <2> QED  BY <1>0, <2>3, <2>5, <2>6
<1>7. CASE Collect
  <2>1. PICK missing \in BOOLEAN :
          LET passed == ~missing /\ \A h \in Hosts : ExitedWell(h)
          IN /\ failed' = (failed \/ ~passed)
             /\ rotations' = IF passed THEN rotations \cup {rotation} ELSE rotations
    BY <1>7 DEF Collect
  <2>2. PICK stuck \in SUBSET Active : work' = [h \in Hosts |-> IF h \in Active \ stuck THEN "bad" ELSE work[h]]
    BY <1>7 DEF Collect
  <2>3. /\ UNCHANGED <<script, badRanks>> /\ place = "collect"
        /\ \/ rotation = LastRotation /\ place' = "ended" /\ UNCHANGED rotation
           \/ rotation # LastRotation /\ place' = "launch" /\ todo' = Hosts /\ rotation' = rotation + 1
    BY <1>7 DEF Collect, Proceed
  <2>4. Numbers /\ (~failed => Sure) /\ script = "gate"
    BY <1>a, <1>b, <2>3 DEF OnWay, Ways
  <2>5. Ways'
    BY <1>a, <2>3, <2>4 DEF Ways
  <2>6. rotations' \subseteq rotations \cup {rotation}
    BY <2>1
  <2>7. Numbers'
    BY <1>c, <2>3, <2>4, <2>6 DEF Numbers
  <2>8. ASSUME ~failed' PROVE Sure'
    <3>1. ~failed /\ (\A h \in Hosts : work[h] = "ok") /\ rotations' = rotations \cup {rotation}
      BY <2>1, <2>8 DEF ExitedWell
    <3>2. Sure /\ rotation \notin badRanks
      BY <2>3, <2>4, <3>1 DEF Sure
    <3>3. \A h \in Hosts : work'[h] = "ok"
      BY <2>2, <3>1 DEF Active
    <3>4. rotation' \notin badRanks \/ place' = "ended"
      BY <1>c, <2>3, <2>4 DEF Numbers
    <3> QED  BY <2>3, <3>1, <3>2, <3>3, <3>4 DEF Sure
  <2> QED  BY <1>0, <2>5, <2>7, <2>8
<1>8. ASSUME NEW h \in Hosts, StopGate(h) PROVE RanksOK'
  <2>1. /\ UNCHANGED <<script, failed, rotation, rotations, badRanks>> /\ place = "ended" /\ place' \in {"ended", "restore"}
        /\ \A g \in Hosts : work'[g] = work[g] \/ work'[g] = "bad"
    BY <1>8 DEF StopGate, Proceed, Shapes
  <2>2. Numbers /\ (~failed => Sure) /\ script = "gate"
    BY <1>a, <1>b, <2>1 DEF OnWay, Ways
  <2>3. Ways'
    BY <1>a, <2>1, <2>2 DEF Ways
  <2>4. Stage(place) = 2 /\ Stage(place') \in {2, 3}
    BY <2>1
  <2>5. Numbers'
    BY <2>1, <2>2, <2>4 DEF Numbers
  <2>6. ~failed' => Sure'
    BY <2>1, <2>2, <2>4 DEF Sure
  <2> QED  BY <1>0, <2>3, <2>5, <2>6
<1>9. CASE StartManager \/ BeginRestore
  <2>1. script = "bulk" /\ UNCHANGED <<script, badRanks>> /\ place' \in {"bulk", "failed", "restore"}
    BY <1>9, <1>a DEF StartManager, BeginRestore, Proceed, Ways
  <2> QED  BY <1>0, <1>a, <2>1 DEF Ways
<1>10. ASSUME NEW h \in Hosts, StartService(h) PROVE RanksOK'
  BY <1>10, <1>a, RanksRest DEF StartService, Proceed, Ways, runVars
<1>11. CASE StartHead \/ Inspect
  BY <1>11, <1>a, RanksRest DEF StartHead, Inspect, Proceed, Ways, runVars
<1>12. CASE Poll
  <2>1. /\ place = "poll" /\ place' \in {"poll", "canary", "inspect"} /\ UNCHANGED <<runVars, script>>
        /\ (failed' = failed \/ failed' = TRUE)
    BY <1>12 DEF Poll, Proceed
  <2>2. Ways'
    BY <1>a, <2>1 DEF Ways, runVars
  <2> QED  BY <2>1, <2>2, RanksRest
<1>13. CASE Canary
  <2>1. /\ place = "canary" /\ place' = "inspect" /\ UNCHANGED <<runVars, script>>
        /\ (failed' = failed \/ failed' = TRUE)
    BY <1>13 DEF Canary, Proceed
  <2>2. Ways'
    BY <1>a, <2>1 DEF Ways, runVars
  <2> QED  BY <2>1, <2>2, RanksRest
<1>14. CASE Audit
  BY <1>14, <1>a, RanksRest DEF Audit, Proceed, Ways, runVars
<1>15. CASE Exit
  <2>1. UNCHANGED <<script, badRanks>> /\ (script = "gate" => place' = "trap") /\ (script # "gate" => place' = "failed")
    BY <1>15 DEF Exit, Proceed, Trapped
  <2>2. Stage(place') = 6
    BY <1>a, <2>1
  <2>3. Ways'
    BY <1>a, <2>1 DEF Ways
  <2> QED  BY <1>0, <2>2, <2>3 DEF OnWay
<1>16. CASE Killed
  BY <1>16, <1>a, RanksRest DEF Killed, Proceed, Ways, runVars
<1>17. ASSUME NEW h \in Hosts, TrapStart(h) PROVE RanksOK'
  BY <1>17, <1>a, RanksRest DEF TrapStart, Proceed, Ways, runVars
<1>18. ASSUME NEW h \in Hosts, ServiceDies(h) \/ KernelEvent(h) PROVE RanksOK'
  <2>1. UNCHANGED <<place, todo, failed, rotation, rotations, work, badRanks, script>>
    BY <1>18 DEF ServiceDies, KernelEvent, runVars
  <2> QED  BY <2>1 DEF RanksOK, OnWay
<1> QED
  BY <1>1, <1>2, <1>3, <1>4, <1>5, <1>6, <1>7, <1>8, <1>9, <1>10, <1>11, <1>12, <1>13, <1>14, <1>15, <1>16, <1>17,
     <1>18 DEF ServicesNext, Script

-----------------------------------------------------------------------------
(* The verdict *)

LEMMA JudgedStep == ASSUME Judged, ServicesNext PROVE Judged'
<1> SUFFICES ASSUME place' = "passed"
             PROVE  /\ ~failed' /\ EvaluateLifecycle(mark, Collected(mark, journal), seen)'
                    /\ script' = "gate" => rotations' = Rotations
  BY DEF Judged
<1>1. CASE Audit
  <2>1. /\ EvaluateLifecycle(mark, Collected(mark, journal), seen) /\ ~failed
        /\ script = "gate" => rotations = Rotations
    BY <1>1 DEF Audit, Proceed
  <2>2. UNCHANGED <<mark, journal, seen, failed, script, rotations>>
    BY <1>1 DEF Audit, runVars, restoreVars, timeVars
  <2>3. UNCHANGED EvaluateLifecycle(mark, Collected(mark, journal), seen)
    BY <2>2
  <2> QED  BY <2>1, <2>2, <2>3
<1>2. ASSUME NEW h \in Hosts, RankEnds(h) \/ ServiceDies(h) \/ KernelEvent(h)
      PROVE  /\ ~failed' /\ EvaluateLifecycle(mark, Collected(mark, journal), seen)'
             /\ script' = "gate" => rotations' = Rotations
  <2>1. place = "passed" /\ UNCHANGED <<mark, journal, seen, failed, script, rotations>>
    BY <1>2 DEF RankEnds, ServiceDies, KernelEvent, restoreVars, timeVars
  <2>2. UNCHANGED EvaluateLifecycle(mark, Collected(mark, journal), seen)
    BY <2>1
  <2> QED  BY <2>1, <2>2 DEF Judged
<1>3. ~(Begin \/ CheckStopped \/ Wait \/ Collect \/ StartManager \/ BeginRestore \/ StartHead \/ Exit \/ Killed)
  BY DEF Begin, CheckStopped, Wait, Collect, StartManager, BeginRestore, StartHead, Exit, Killed, Proceed
<1>4. ~(Poll \/ Canary \/ Inspect)
  BY DEF Poll, Canary, Inspect, Proceed
<1>5. ASSUME NEW h \in Hosts
      PROVE  ~(TakeBaseline(h) \/ StopService(h) \/ LaunchGateRank(h) \/ StopGate(h) \/ StartService(h) \/ TrapStart(h))
  BY DEF TakeBaseline, StopService, LaunchGateRank, StopGate, StartService, TrapStart, Proceed
<1> QED
  BY <1>1, <1>2, <1>3, <1>4, <1>5 DEF ServicesNext, Script

LEMMA ServicesBegin == ServicesInit => PInv
<1> SUFFICES ASSUME ServicesInit PROVE PInv
  OBVIOUS
<1>1. place = "idle" /\ Stage(place) = 0 /\ journal = {} /\ died = {} /\ badRanks = {} /\ rotations = {} /\ rotation = 0
  BY Stages DEF ServicesInit
<1>2. Shapes
  <2>1. service \in [Hosts -> [running : BOOLEAN, oom : BOOLEAN, restarts : Nat]]
    BY DEF ServicesInit
  <2>2. DOMAIN seen = {"containers", "death", "health", "generation"}
    BY DEF ServicesInit, Unseen
  <2>3. DOMAIN mark = Stamps
    BY DEF ServicesInit, Stamps
  <2>4. script \in {"gate", "bulk"} /\ failed \in BOOLEAN /\ todo \subseteq Hosts /\ clock \in Nat
    BY DEF ServicesInit
  <2>5. work \in [Hosts -> {"none", "running", "ok", "bad"}]
    BY DEF ServicesInit
  <2> QED  BY <1>1, <2>1, <2>2, <2>3, <2>4, <2>5 DEF Shapes
<1>3. Stamped /\ Logged /\ Judged
  BY <1>1 DEF Stamped, Logged, Judged
<1>4. Services
  BY <1>1 DEF Services, Unstarted
<1>5. RanksOK
  BY <1>1, ServicesAssumption DEF ServicesInit, RanksOK
<1> QED
  BY <1>2, <1>3, <1>4, <1>5 DEF PInv

LEMMA ServicesKept == PInv /\ [ServicesNext]_allVars => PInv'
<1>1. ASSUME PInv, ServicesNext PROVE PInv'
  BY <1>1, ShapesStep, TimeStep, ServicesStep, RanksStep, JudgedStep DEF PInv
<1>2. ASSUME PInv, UNCHANGED allVars PROVE PInv'
  <2>1. UNCHANGED <<script, place, todo, baseline, failed, journal, accidents, rotation, rotations, work, badRanks,
                    probes, seen, lostStarts, service, died, clock, mark>>
    BY <1>2 DEF allVars, runVars, restoreVars, serviceVars, timeVars
  <2>2. Shapes' /\ Stamped' /\ Logged'
    BY <1>2, <2>1 DEF PInv, Shapes, Stamped, Logged, OnWay
  <2>3. Services' /\ RanksOK'
    BY <1>2, <2>1 DEF PInv, Services, RanksOK, OnWay, Unstarted, CountBefore
  <2>4. UNCHANGED EvaluateLifecycle(mark, Collected(mark, journal), seen)
    BY <2>1
  <2>5. Judged'
    BY <1>2, <2>1, <2>4 DEF PInv, Judged
  <2> QED  BY <2>2, <2>3, <2>5 DEF PInv
<1> QED
  BY <1>1, <1>2

LEMMA PassedImplies == ASSUME PInv, place = "passed" PROVE PassedIsClean
<1>1. Stage(place) = 5 /\ OnWay
  BY Stages DEF OnWay
<1>2. ~failed /\ EvaluateLifecycle(mark, Collected(mark, journal), seen) /\ (script = "gate" => rotations = Rotations)
  BY DEF PInv, Judged
<1>3. badRanks = {}
  <2>1. CASE script = "bulk"
    BY <2>1 DEF PInv, RanksOK
  <2>2. CASE script = "gate"
    <3>1. badRanks \subseteq 0 .. rotation /\ rotation <= LastRotation /\ badRanks \cap rotations = {}
      BY <1>1, <1>2, <2>2 DEF PInv, RanksOK
    <3>2. 0 .. rotation \subseteq Rotations
      BY <3>1, ServicesAssumption DEF PInv, Shapes, Rotations
    <3> QED  BY <1>2, <2>2, <3>1, <3>2
  <2> QED  BY <2>1, <2>2 DEF PInv, Shapes
<1>4. ServicesHold(seen) /\ WindowsInOrder(mark) /\ \A e \in Collected(mark, journal) : Allowed(mark, e)
  BY <1>2 DEF EvaluateLifecycle
<1>5. \A h \in Hosts : seen.containers[h].running /\ seen.containers[h].before = seen.containers[h].after
  BY <1>4 DEF ServicesHold
<1>6. \A h \in died : baseline[h] > 0
  <2> TAKE h \in died
  <2>1. h \in Hosts /\ seen.containers[h].before = CountBefore(h) /\ seen.containers[h].after \in Nat
        /\ (~seen.containers[h].running \/ seen.containers[h].after >= 1)
    BY <1>1 DEF PInv, Services
  <2> DEFINE a == seen.containers[h].after
  <2>2. a \in Nat /\ a >= 1 /\ CountBefore(h) = a
    BY <1>5, <2>1
  <2> HIDE DEF a
  <2> QED  BY <2>2 DEF CountBefore
<1>7. ASSUME NEW e \in journal
      PROVE  e.phase \notin Quiet /\ (e.phase \in Starting => e.kind = "alloc" /\ e.host \in FlashHosts)
  <2> DEFINE t == mark
             k == Stage(e.phase)
  <2>1. k \in 0 .. 6 /\ e.at \in Nat
    BY StageType DEF PInv, Shapes
  <2>2. /\ k >= 1 => t["start"] <= e.at
        /\ k = 1 => e.at <= t["end"]
        /\ k >= 2 => t["end"] <= e.at
        /\ k <= 2 => e.at < t["cold"]
        /\ k = 4 => t["ready"] <= e.at
        /\ k <= 4 => e.at <= t["postEnd"]
    BY <1>1, <1>2 DEF PInv, Logged
  <2>3. /\ t["start"] \in Nat /\ t["end"] \in Nat /\ t["cold"] \in Nat /\ t["ready"] \in Nat
        /\ t["postEnd"] \in Nat
    BY <1>1, <1>2 DEF PInv, Stamped
  <2>4. (e.phase \in Quiet => k \in {1, 2, 4}) /\ (e.phase \in Starting => k = 3)
    BY Stages DEF Quiet, Starting
  <2>5. /\ t["start"] = t.start /\ t["end"] = t.end /\ t["cold"] = t.cold /\ t["ready"] = t.ready
        /\ t["postEnd"] = t.postEnd
    OBVIOUS
  <2> HIDE DEF t, k
  <2>6. CASE k \in 1 .. 4
    <3>1. t.start <= e.at /\ e.at <= t.postEnd
      BY <2>1, <2>2, <2>3, <2>5, <2>6
    <3>2. e \in Collected(mark, journal)
      BY <3>1 DEF Collected, t
    <3>3. e.kind = "alloc" /\ e.host \in FlashHosts /\ Window(t, e) = "protected_flash_cold_start"
      BY <1>4, <3>2 DEF Allowed, t
    <3>4. ~(t.start <= e.at /\ e.at <= t.end) /\ t.cold <= e.at /\ (t.ready = None \/ e.at < t.ready)
      BY <3>3 DEF Window
    <3>5. t.ready # None
      BY <1>4 DEF WindowsInOrder, t
    <3>6. k = 3
      BY <2>1, <2>2, <2>3, <2>5, <2>6, <3>4, <3>5
    <3> QED  BY <2>4, <3>3, <3>6
  <2>7. CASE k \notin 1 .. 4
    BY <2>4, <2>7
  <2> QED  BY <2>6, <2>7
<1> QED
  BY <1>3, <1>5, <1>6, <1>7 DEF PassedIsClean

\* A verdict PASSED is true: every rank of every rotation ended well, no service died
\* unseen since its restart, and the kernels logged nothing that is not forgiven.
THEOREM PassedTheorem == ServicesSpec => []PassedIsClean
<1>1. PInv => PassedIsClean
  BY PassedImplies DEF PassedIsClean
<1> QED
  BY <1>1, ServicesBegin, ServicesKept, PTL DEF ServicesSpec

-----------------------------------------------------------------------------
(* The types of the scripts *)

\* Docker counts no more restarts than services have died, and the clock is behind the
\* stamps of the stage, the polls and the accidents so far.
Ticks(k) == IF k <= 4 THEN k ELSE 4 + PostSleep
Counts == probes \in 0 .. MaxProbes /\ accidents \in 0 .. MaxAccidents
Restarts == \A h \in Hosts : service[h].restarts <= accidents
Baselines == baseline \in [Hosts -> (0 .. MaxAccidents) \cup {None}]
Spread == died \subseteq Hosts /\ lostStarts \subseteq Hosts
Rounds == rotation \in Rotations /\ rotations \subseteq Rotations /\ badRanks \subseteq Rotations
OnTime == clock <= Ticks(Stage(place)) + 2 * probes + accidents
Marks == mark \in [Stamps -> (0 .. Horizon) \cup {None}]
Events == \A e \in journal : e.host \in Hosts /\ e.at \in 0 .. clock
Places == {"idle", "baseline", "stop", "check", "launch", "wait", "collect", "manager", "bulk", "ended",
           "restore", "head", "poll", "canary", "inspect", "audit", "trap", "passed", "failed", "killed"}
TInv ==
  /\ Shapes /\ Counts /\ Restarts /\ Baselines /\ Spread /\ Rounds /\ OnTime /\ Marks /\ Events
  /\ place \in Places

\* An accident is counted, and nothing takes one back.
LEMMA CountsStep ==
  ASSUME Counts, ServicesNext
  PROVE  Counts' /\ probes <= probes' /\ accidents <= accidents'
<1> DEFINE Later == accidents' = accidents \/ Accident
<1>1. Later
  <2>1. CASE Begin \/ CheckStopped \/ Wait \/ StartManager \/ BeginRestore \/ Collect
    BY <2>1 DEF Begin, CheckStopped, Wait, StartManager, BeginRestore, Collect
  <2>2. CASE StartHead \/ Poll \/ Canary \/ Inspect \/ Audit \/ Exit \/ Killed
    BY <2>2 DEF StartHead, DockerStart, Poll, Canary, Inspect, Audit, Exit, Killed
  <2>3. ASSUME NEW h \in Hosts, TakeBaseline(h) \/ StopService(h) \/ LaunchGateRank(h) \/ StopGate(h) \/ RankEnds(h)
        PROVE  Later
    BY <2>3 DEF TakeBaseline, StopService, LaunchGateRank, StopGate, RankEnds
  <2>4. ASSUME NEW h \in Hosts, StartService(h) \/ TrapStart(h) \/ ServiceDies(h) \/ KernelEvent(h)
        PROVE  Later
    BY <2>4 DEF StartService, TrapStart, DockerStart, ServiceDies, KernelEvent
  <2> QED  BY <2>1, <2>2, <2>3, <2>4 DEF ServicesNext, Script
<1>2. probes' = probes \/ (AnotherPoll /\ probes' = probes + 1)
  <2>1. CASE Begin \/ CheckStopped \/ Wait \/ StartManager \/ BeginRestore \/ Collect
    BY <2>1 DEF Begin, CheckStopped, Wait, StartManager, BeginRestore, Collect, restoreVars
  <2>2. CASE StartHead \/ Poll \/ Canary \/ Inspect \/ Audit \/ Exit \/ Killed
    BY <2>2 DEF StartHead, Poll, Canary, Inspect, Audit, Exit, Killed, restoreVars
  <2>3. ASSUME NEW h \in Hosts, TakeBaseline(h) \/ StopService(h) \/ LaunchGateRank(h) \/ StopGate(h) \/ RankEnds(h)
        PROVE  probes' = probes
    BY <2>3 DEF TakeBaseline, StopService, LaunchGateRank, StopGate, RankEnds, restoreVars
  <2>4. ASSUME NEW h \in Hosts, StartService(h) \/ TrapStart(h) \/ ServiceDies(h) \/ KernelEvent(h)
        PROVE  probes' = probes
    BY <2>4 DEF StartService, TrapStart, ServiceDies, KernelEvent, restoreVars
  <2> QED  BY <2>1, <2>2, <2>3, <2>4 DEF ServicesNext, Script
<1>3. accidents <= accidents' /\ accidents' \in 0 .. MaxAccidents
  BY <1>1, ServicesAssumption DEF Accident, Counts
<1>4. probes <= probes' /\ probes' \in 0 .. MaxProbes
  BY <1>2, ServicesAssumption DEF AnotherPoll, Counts
<1> QED
  BY <1>3, <1>4 DEF Counts

LEMMA DiesCounted ==
  ASSUME Shapes, Counts, Restarts, NEW h \in Hosts, ServiceDies(h)
  PROVE  Restarts'
<1>1. PICK again \in BOOLEAN, oom \in BOOLEAN :
        service' = [service EXCEPT ![h] = [running |-> again, oom |-> oom /\ ~again,
                      restarts |-> IF again THEN service[h].restarts + 1 ELSE service[h].restarts]]
  BY DEF ServiceDies, Shapes
<1> DEFINE n == IF again THEN service[h].restarts + 1 ELSE service[h].restarts
           r == [running |-> again, oom |-> oom /\ ~again, restarts |-> n]
<1>2. accidents' = accidents + 1 /\ accidents \in Nat /\ service[h].restarts \in Nat
  BY ServicesAssumption DEF ServiceDies, Accident, Counts, Shapes
<1>3. n <= accidents'
  BY <1>2 DEF Restarts
<1>4. service' = [service EXCEPT ![h] = r]
  BY <1>1
<1> HIDE DEF n
<1>5. r.restarts = n
  OBVIOUS
<1> HIDE DEF r
<1>6. service'[h] = r /\ \A g \in Hosts : g # h => service'[g] = service[g]
  BY <1>4 DEF Shapes
<1>7. ASSUME NEW g \in Hosts, g # h PROVE service'[g].restarts <= accidents'
  BY <1>2, <1>6, <1>7 DEF Restarts, Shapes
<1> QED
  BY <1>3, <1>5, <1>6, <1>7 DEF Restarts

\* Another step changes no count, or sets it to 0.
LEMMA RestartsStep == ASSUME Shapes, Counts, Restarts, ServicesNext PROVE Restarts'
<1> DEFINE Kept(h) == service'[h].restarts = service[h].restarts \/ service'[h].restarts = 0
<1>1. ASSUME NEW h \in Hosts, ServiceDies(h) PROVE Restarts'
  BY <1>1, DiesCounted
<1>2. ASSUME UNCHANGED service PROVE \A g \in Hosts : Kept(g)
  BY <1>2
<1>3. ASSUME NEW h \in Hosts, StopService(h) PROVE \A g \in Hosts : Kept(g)
  <2>1. CASE service' = [service EXCEPT ![h].running = FALSE]
    <3>1. service[h] \in [running : BOOLEAN, oom : BOOLEAN, restarts : Nat]
      BY DEF Shapes
    <3> DEFINE r == [service[h] EXCEPT !.running = FALSE]
    <3>2. r.restarts = service[h].restarts
      BY <3>1
    <3> HIDE DEF r
    <3>3. service' = [service EXCEPT ![h] = r]
      BY <2>1 DEF r
    <3> QED  BY <3>2, <3>3 DEF Shapes
  <2> QED  BY <1>3, <2>1 DEF StopService
<1>4. ASSUME NEW h \in Hosts, DockerStart(h) PROVE \A g \in Hosts : Kept(g)
  <2> DEFINE r == [running |-> TRUE, oom |-> FALSE, restarts |-> 0]
  <2>1. r.restarts = 0
    OBVIOUS
  <2>2. service' = service \/ service' = [service EXCEPT ![h] = r]
    BY <1>4 DEF DockerStart
  <2> HIDE DEF r
  <2> QED  BY <2>1, <2>2 DEF Shapes
<1>5. UNCHANGED service \/ \E h \in Hosts : ServiceDies(h) \/ StopService(h) \/ DockerStart(h)
  <2>1. CASE Begin \/ CheckStopped \/ Wait \/ StartManager \/ BeginRestore \/ Collect
    BY <2>1 DEF Begin, CheckStopped, Wait, StartManager, BeginRestore, Collect, serviceVars
  <2>2. CASE StartHead \/ Poll \/ Canary \/ Inspect \/ Audit \/ Exit \/ Killed
    BY <2>2, ServicesAssumption DEF StartHead, Poll, Canary, Inspect, Audit, Exit, Killed, serviceVars
  <2>3. ASSUME NEW h \in Hosts, TakeBaseline(h) \/ LaunchGateRank(h) \/ StopGate(h) \/ RankEnds(h) \/ KernelEvent(h)
        PROVE  UNCHANGED service
    BY <2>3 DEF TakeBaseline, LaunchGateRank, StopGate, RankEnds, KernelEvent, serviceVars
  <2> QED  BY <2>1, <2>2, <2>3 DEF ServicesNext, Script, StartService, TrapStart
<1>6. ASSUME \A g \in Hosts : Kept(g) PROVE Restarts'
  <2>1. accidents \in Nat /\ accidents' \in Nat /\ accidents <= accidents'
    BY CountsStep, ServicesAssumption DEF Counts
  <2>2. ASSUME NEW g \in Hosts PROVE service'[g].restarts <= accidents'
    BY <1>6, <2>1 DEF Restarts, Shapes
  <2> QED  BY <2>2 DEF Restarts
<1> QED
  BY <1>1, <1>2, <1>3, <1>4, <1>5, <1>6

LEMMA BaselinesStep == ASSUME Shapes, Counts, Restarts, Baselines, ServicesNext PROVE Baselines'
<1>1. CASE UNCHANGED baseline
  BY <1>1 DEF Baselines
<1>2. ASSUME NEW h \in Hosts, TakeBaseline(h) PROVE Baselines'
  <2>1. service[h].restarts \in 0 .. MaxAccidents
    BY ServicesAssumption DEF Shapes, Counts, Restarts
  <2> QED  BY <1>2, <2>1 DEF TakeBaseline, Baselines
<1>3. UNCHANGED baseline \/ \E h \in Hosts : TakeBaseline(h)
  <2>1. CASE Begin \/ CheckStopped \/ Wait \/ StartManager \/ BeginRestore \/ Collect
    BY <2>1 DEF Begin, CheckStopped, Wait, StartManager, BeginRestore, Collect
  <2>2. CASE StartHead \/ Poll \/ Canary \/ Inspect \/ Audit \/ Exit \/ Killed
    BY <2>2 DEF StartHead, Poll, Canary, Inspect, Audit, Exit, Killed
  <2>3. ASSUME NEW h \in Hosts, StopService(h) \/ LaunchGateRank(h) \/ StopGate(h) \/ RankEnds(h) \/ KernelEvent(h)
        PROVE  UNCHANGED baseline
    BY <2>3 DEF StopService, LaunchGateRank, StopGate, RankEnds, KernelEvent
  <2>4. ASSUME NEW h \in Hosts, StartService(h) \/ TrapStart(h) \/ ServiceDies(h) PROVE UNCHANGED baseline
    BY <2>4 DEF StartService, TrapStart, ServiceDies
  <2> QED  BY <2>1, <2>2, <2>3, <2>4 DEF ServicesNext, Script
<1> QED
  BY <1>1, <1>2, <1>3

LEMMA SpreadStep == ASSUME Spread, ServicesNext PROVE Spread'
<1>1. CASE Begin \/ CheckStopped \/ Wait \/ StartManager \/ BeginRestore \/ Collect
  BY <1>1 DEF Begin, CheckStopped, Wait, StartManager, BeginRestore, Collect, Spread, serviceVars, restoreVars
<1>2. CASE StartHead \/ Poll \/ Canary \/ Inspect \/ Audit \/ Exit \/ Killed
  BY <1>2, ServicesAssumption DEF StartHead, DockerStart, Poll, Canary, Inspect, Audit, Exit, Killed, Spread, serviceVars,
     restoreVars
<1>3. ASSUME NEW h \in Hosts, TakeBaseline(h) \/ StopService(h) \/ LaunchGateRank(h) \/ StopGate(h) \/ RankEnds(h)
      PROVE  Spread'
  BY <1>3 DEF TakeBaseline, StopService, LaunchGateRank, StopGate, RankEnds, Spread, serviceVars, restoreVars
<1>4. ASSUME NEW h \in Hosts, StartService(h) \/ TrapStart(h) \/ ServiceDies(h) \/ KernelEvent(h) PROVE Spread'
  BY <1>4 DEF StartService, TrapStart, DockerStart, ServiceDies, KernelEvent, Spread, serviceVars, restoreVars
<1> QED
  BY <1>1, <1>2, <1>3, <1>4 DEF ServicesNext, Script

LEMMA RoundsStep == ASSUME Rounds, ServicesNext PROVE Rounds'
<1>1. CASE Begin \/ CheckStopped \/ StartHead \/ Poll \/ Canary \/ Inspect \/ Audit \/ Killed
  BY <1>1 DEF Begin, CheckStopped, StartHead, Poll, Canary, Inspect, Audit, Killed, Rounds, runVars
<1>2. CASE StartManager \/ BeginRestore \/ Exit \/ Wait
  BY <1>2 DEF StartManager, BeginRestore, Exit, Wait, Rounds
<1>3. CASE Collect
  <2>1. rotation' = rotation \/ (rotation # LastRotation /\ rotation' = rotation + 1)
    BY <1>3 DEF Collect
  <2>2. rotation' \in Rotations
    BY <2>1, ServicesAssumption DEF Rounds, Rotations
  <2>3. (rotations' = rotations \/ rotations' = rotations \cup {rotation}) /\ UNCHANGED badRanks
    BY <1>3 DEF Collect
  <2> QED  BY <2>2, <2>3 DEF Rounds, Rotations
<1>4. ASSUME NEW h \in Hosts, TakeBaseline(h) \/ StopService(h) \/ LaunchGateRank(h) \/ StopGate(h) \/ RankEnds(h)
      PROVE  Rounds'
  BY <1>4 DEF TakeBaseline, StopService, LaunchGateRank, StopGate, RankEnds, Rounds, runVars
<1>5. ASSUME NEW h \in Hosts, StartService(h) \/ TrapStart(h) \/ ServiceDies(h) \/ KernelEvent(h) PROVE Rounds'
  BY <1>5 DEF StartService, TrapStart, ServiceDies, KernelEvent, Rounds, runVars
<1> QED
  BY <1>1, <1>2, <1>3, <1>4, <1>5 DEF ServicesNext, Script

LEMMA PlacesStep == ASSUME place \in Places, ServicesNext PROVE place' \in Places
<1>1. CASE Begin \/ CheckStopped \/ Wait \/ StartManager \/ BeginRestore \/ Collect
  BY <1>1 DEF Begin, CheckStopped, Wait, StartManager, BeginRestore, Collect, Proceed, Places
<1>2. CASE StartHead \/ Poll \/ Canary \/ Inspect \/ Audit \/ Exit \/ Killed
  BY <1>2 DEF StartHead, Poll, Canary, Inspect, Audit, Exit, Killed, Proceed, Places
<1>3. ASSUME NEW h \in Hosts, TakeBaseline(h) \/ StopService(h) \/ LaunchGateRank(h) \/ StopGate(h) \/ RankEnds(h)
      PROVE  place' \in Places
  BY <1>3 DEF TakeBaseline, StopService, LaunchGateRank, StopGate, RankEnds, Proceed, Places
<1>4. ASSUME NEW h \in Hosts, StartService(h) \/ TrapStart(h) \/ ServiceDies(h) \/ KernelEvent(h) PROVE place' \in Places
  BY <1>4 DEF StartService, TrapStart, ServiceDies, KernelEvent, Proceed, Places
<1> QED
  BY <1>1, <1>2, <1>3, <1>4 DEF ServicesNext, Script

\* What the time of a step costs: a stage, a poll or an accident.
Ordinary == UNCHANGED clock /\ Stage(place) <= Stage(place')
Stamping == (\E names : Stamp(names)) /\ Stage(place) < Stage(place') /\ Stage(place') <= 4
Polling == UNCHANGED <<place, mark>> /\ probes' = probes + 1 /\ clock' \in {clock + 1, clock + 2}
Observing == /\ Stage(place) = 4 /\ Stage(place') = 5 /\ clock' = clock + PostSleep
             /\ mark' = [mark EXCEPT !["postEnd"] = clock + PostSleep]
Logging == UNCHANGED <<place, mark>> /\ accidents' = accidents + 1 /\ clock' \in {clock, clock + 1}

LEMMA TimeSpent ==
  ASSUME place \in Places, ServicesNext
  PROVE  (Ordinary /\ UNCHANGED mark) \/ Stamping \/ Polling \/ Observing \/ Logging
<1> USE Stages
<1> DEFINE Goal == (Ordinary /\ UNCHANGED mark) \/ Stamping \/ Polling \/ Observing \/ Logging
<1>1. CASE Begin \/ Wait \/ StartHead \/ Canary
  BY <1>1 DEF Begin, Wait, StartHead, Canary, Proceed, Ordinary, timeVars
<1>2. CASE StartManager \/ Audit
  BY <1>2 DEF StartManager, Audit, Proceed, Ordinary, timeVars
<1>3. CASE CheckStopped
  BY <1>3 DEF CheckStopped, Proceed, Stamping
<1>4. CASE BeginRestore
  BY <1>4 DEF BeginRestore, Proceed, Stamping
<1>5. CASE Collect
  <2>1. CASE Stamp({"end"}) /\ Proceed("ended", Hosts)
    BY <1>5, <2>1 DEF Collect, Proceed, Stamping
  <2>2. CASE Proceed("launch", Hosts) /\ UNCHANGED timeVars
    BY <1>5, <2>2 DEF Collect, Proceed, Ordinary, timeVars
  <2> QED  BY <1>5, <2>1, <2>2 DEF Collect
<1>6. CASE Poll
  <2>1. place = "poll"
    BY <1>6 DEF Poll
  <2>2. CASE Proceed("inspect", {}) /\ UNCHANGED timeVars
    BY <2>1, <2>2 DEF Proceed, Ordinary, timeVars
  <2>3. CASE Stamp({"ready"}) /\ Proceed("canary", {})
    BY <2>1, <2>3 DEF Proceed, Stamping
  <2>4. CASE UNCHANGED <<place, mark>> /\ probes' = probes + 1 /\ \E slow \in 1 .. 2 : clock' = clock + slow
    <3>1. clock' \in {clock + 1, clock + 2}
      <4>1. PICK slow \in 1 .. 2 : clock' = clock + slow
        BY <2>4
      <4>2. slow = 1 \/ slow = 2
        OBVIOUS
      <4> QED  BY <4>1, <4>2
    <3> QED  BY <2>4, <3>1 DEF Polling
  <2> QED  BY <1>6, <2>2, <2>3, <2>4 DEF Poll
<1>7. CASE Inspect
  BY <1>7 DEF Inspect, Proceed, Observing
<1>8. ASSUME Exit \/ Killed \/ \E h \in Hosts : TrapStart(h) PROVE Goal
  <2>1. Stage(place') = 6 /\ UNCHANGED <<clock, mark>>
    BY <1>8 DEF Exit, Killed, TrapStart, Proceed, timeVars
  <2>2. Stage(place) \in 0 .. 6
    BY StageType
  <2> QED  BY <2>1, <2>2 DEF Ordinary
<1>9. ASSUME NEW h \in Hosts, TakeBaseline(h) \/ StopService(h) \/ LaunchGateRank(h) \/ StartService(h) PROVE Goal
  BY <1>9 DEF TakeBaseline, StopService, LaunchGateRank, StartService, Proceed, Ordinary, timeVars
<1>10. ASSUME NEW h \in Hosts, RankEnds(h) \/ ServiceDies(h) PROVE Goal
  <2>1. UNCHANGED <<place, clock, mark>> /\ Stage(place) \in 0 .. 6
    BY <1>10, StageType DEF RankEnds, ServiceDies, timeVars
  <2> QED  BY <2>1 DEF Ordinary
<1>11. ASSUME NEW h \in Hosts, StopGate(h) PROVE Goal
  <2>1. CASE Stamp({"cold"}) /\ Proceed("restore", Hosts \ {Head})
    BY <1>11, <2>1 DEF StopGate, Proceed, Stamping
  <2>2. CASE Proceed("ended", todo \ {h}) /\ UNCHANGED timeVars
    BY <1>11, <2>2 DEF StopGate, Proceed, Ordinary, timeVars
  <2> QED  BY <1>11, <2>1, <2>2 DEF StopGate
<1>12. ASSUME NEW h \in Hosts, KernelEvent(h) PROVE Goal
  BY <1>12 DEF KernelEvent, Accident, Logging
<1> HIDE DEF Goal
<1>13. Goal
  BY <1>1, <1>2, <1>3, <1>4, <1>5, <1>6, <1>7, <1>8, <1>9, <1>10, <1>11, <1>12 DEF ServicesNext, Script, Goal
<1> QED
  BY <1>13 DEF Goal

LEMMA OnTimeStep ==
  ASSUME Shapes, Counts, OnTime, place \in Places, ServicesNext
  PROVE  OnTime'
<1> DEFINE k == Stage(place)
           m == Stage(place')
           s == PostSleep
<1>1. k \in 0 .. 6 /\ m \in 0 .. 6
  BY StageType
<1>2. s \in Nat
  BY LifecycleAssumption DEF PostSleep
<1>3. /\ probes \in Nat /\ probes' \in Nat /\ probes <= probes'
      /\ accidents \in Nat /\ accidents' \in Nat /\ accidents <= accidents' /\ clock \in Nat
  BY CountsStep, ServicesAssumption DEF Counts, Shapes
<1>4. clock <= (IF k <= 4 THEN k ELSE 4 + s) + 2 * probes + accidents
  BY DEF OnTime, Ticks
<1>5. \/ clock' = clock /\ k <= m
      \/ clock' = clock + 1 /\ k < m /\ m <= 4
      \/ m = k /\ probes' = probes + 1 /\ clock' \in {clock + 1, clock + 2}
      \/ k = 4 /\ m = 5 /\ clock' = clock + s
      \/ m = k /\ accidents' = accidents + 1 /\ clock' \in {clock, clock + 1}
  BY TimeSpent DEF Ordinary, Stamping, Polling, Observing, Logging, Stamp
<1> HIDE DEF k, m, s
<1>6. clock' <= (IF m <= 4 THEN m ELSE 4 + s) + 2 * probes' + accidents'
  BY <1>1, <1>2, <1>3, <1>4, <1>5
<1> QED
  BY <1>6 DEF OnTime, Ticks, m, s

LEMMA WithinHorizon ==
  ASSUME NEW k \in 0 .. 6, NEW c \in Nat, NEW p \in 0 .. MaxProbes, NEW a \in 0 .. MaxAccidents,
         c <= Ticks(k) + 2 * p + a
  PROVE  c \in 0 .. Horizon
<1>1. PostSleep \in Nat
  BY LifecycleAssumption DEF PostSleep
<1>2. p \in Nat /\ p <= MaxProbes /\ a \in Nat /\ a <= MaxAccidents /\ MaxProbes \in Nat /\ MaxAccidents \in Nat
  BY ServicesAssumption
<1>3. c <= (IF k <= 4 THEN k ELSE 4 + PostSleep) + 2 * p + a
  BY DEF Ticks
<1>4. c <= 5 + 2 * MaxProbes + PostSleep + MaxAccidents
  BY <1>1, <1>2, <1>3
<1> QED
  BY <1>4 DEF Horizon

LEMMA MarksStep ==
  ASSUME Shapes, Shapes', Marks, clock' \in 0 .. Horizon, place \in Places, ServicesNext
  PROVE  Marks'
<1>1. CASE UNCHANGED mark
  BY <1>1 DEF Marks, Horizon
<1>2. ASSUME NEW names, Stamp(names) PROVE Marks'
  BY <1>2 DEF Stamp, Marks, Shapes, Horizon
<1>3. CASE Observing
  BY <1>3 DEF Observing, Marks, Horizon
<1> QED
  BY <1>1, <1>2, <1>3, TimeSpent DEF Stamping, Polling, Logging

LEMMA EventsStep == ASSUME Shapes, Events, place \in Places, ServicesNext PROVE Events'
<1>1. CASE UNCHANGED journal /\ clock' \in Nat /\ clock <= clock'
  BY <1>1 DEF Events, Shapes
<1>2. ASSUME NEW h \in Hosts, KernelEvent(h) PROVE Events'
  <2>1. PICK kind \in {"alloc", "fault"} :
          journal' = journal \cup {[host |-> h, at |-> clock', kind |-> kind, phase |-> place]}
    BY <1>2 DEF KernelEvent
  <2>2. clock' \in {clock, clock + 1} /\ clock \in Nat
    BY <1>2 DEF KernelEvent, Shapes
  <2> DEFINE new == [host |-> h, at |-> clock', kind |-> kind, phase |-> place]
  <2>3. new.host = h /\ new.at \in 0 .. clock'
    BY <2>2
  <2> HIDE DEF new
  <2>4. \A e \in journal : e.host \in Hosts /\ e.at \in 0 .. clock'
    BY <2>2 DEF Events
  <2> QED  BY <2>1, <2>3, <2>4 DEF Events, new
<1>3. UNCHANGED journal \/ \E h \in Hosts : KernelEvent(h)
  <2>1. CASE Begin \/ CheckStopped \/ Wait \/ StartManager \/ BeginRestore \/ Collect
    BY <2>1 DEF Begin, CheckStopped, Wait, StartManager, BeginRestore, Collect
  <2>2. CASE StartHead \/ Poll \/ Canary \/ Inspect \/ Audit \/ Exit \/ Killed
    BY <2>2 DEF StartHead, Poll, Canary, Inspect, Audit, Exit, Killed
  <2>3. ASSUME NEW h \in Hosts, TakeBaseline(h) \/ StopService(h) \/ LaunchGateRank(h) \/ StopGate(h) \/ RankEnds(h)
        PROVE  UNCHANGED journal
    BY <2>3 DEF TakeBaseline, StopService, LaunchGateRank, StopGate, RankEnds
  <2>4. ASSUME NEW h \in Hosts, StartService(h) \/ TrapStart(h) \/ ServiceDies(h) PROVE UNCHANGED journal
    BY <2>4 DEF StartService, TrapStart, ServiceDies
  <2> QED  BY <2>1, <2>2, <2>3, <2>4 DEF ServicesNext, Script
<1>4. clock' \in Nat /\ clock <= clock'
  <2>1. PostSleep \in Nat /\ clock \in Nat
    BY LifecycleAssumption DEF PostSleep, Shapes
  <2> QED  BY <2>1, TimeSpent DEF Ordinary, Stamping, Polling, Observing, Logging, Stamp
<1> QED
  BY <1>1, <1>2, <1>3, <1>4

LEMMA TypesBegin == ServicesInit => TInv
<1> SUFFICES ASSUME ServicesInit PROVE TInv
  OBVIOUS
<1> USE ServicesAssumption
<1>1. Shapes
  BY ServicesBegin DEF PInv
<1>2. Counts /\ Baselines /\ Spread /\ Events
  BY DEF ServicesInit, Counts, Baselines, Spread, Events
<1>3. Restarts
  BY DEF ServicesInit, Restarts
<1>4. Rounds /\ place \in Places
  BY DEF ServicesInit, Rounds, Rotations, Places
<1>5. OnTime
  BY Stages DEF ServicesInit, OnTime, Ticks
<1>6. Marks
  BY DEF ServicesInit, Marks, Stamps
<1> QED
  BY <1>1, <1>2, <1>3, <1>4, <1>5, <1>6 DEF TInv

LEMMA TypesKept == TInv /\ [ServicesNext]_allVars => TInv'
<1>1. ASSUME TInv, ServicesNext PROVE TInv'
  <2>1. Shapes' /\ Counts' /\ OnTime' /\ place' \in Places
    BY <1>1, ShapesStep, CountsStep, OnTimeStep, PlacesStep DEF TInv
  <2>2. clock' \in 0 .. Horizon
    <3>1. Stage(place') \in 0 .. 6
      BY StageType
    <3>2. /\ clock' \in Nat /\ probes' \in 0 .. MaxProbes /\ accidents' \in 0 .. MaxAccidents
          /\ clock' <= Ticks(Stage(place')) + 2 * probes' + accidents'
      BY <2>1 DEF Shapes, Counts, OnTime
    <3> QED  BY <3>1, <3>2, WithinHorizon
  <2>3. Restarts' /\ Baselines' /\ Spread' /\ Rounds'
    BY <1>1, RestartsStep, BaselinesStep, SpreadStep, RoundsStep DEF TInv
  <2>4. Marks' /\ Events'
    BY <1>1, <2>1, <2>2, MarksStep, EventsStep DEF TInv
  <2> QED  BY <2>1, <2>3, <2>4 DEF TInv
<1>2. ASSUME TInv, UNCHANGED allVars PROVE TInv'
  <2>1. UNCHANGED <<script, place, todo, baseline, failed, journal, accidents, rotation, rotations, work, badRanks,
                    probes, seen, lostStarts, service, died, clock, mark>>
    BY <1>2 DEF allVars, runVars, restoreVars, serviceVars, timeVars
  <2>2. Shapes' /\ Counts' /\ Restarts' /\ Baselines' /\ Spread'
    BY <1>2, <2>1 DEF TInv, Shapes, Counts, Restarts, Baselines, Spread
  <2>3. Rounds' /\ OnTime' /\ Marks' /\ Events'
    BY <1>2, <2>1 DEF TInv, Rounds, OnTime, Marks, Events, Horizon
  <2> QED  BY <1>2, <2>1, <2>2, <2>3 DEF TInv
<1> QED
  BY <1>1, <1>2

\* Every variable of the scripts keeps its type; the clock stays behind the Horizon.
THEOREM ServicesTypes == ServicesSpec => []ServicesTypeOK
<1>1. TInv => ServicesTypeOK
  <2> SUFFICES ASSUME TInv PROVE ServicesTypeOK
    OBVIOUS
  <2>1. service \in [Hosts -> [running : BOOLEAN, oom : BOOLEAN, restarts : 0 .. MaxAccidents]]
    <3>1. service \in [Hosts -> [running : BOOLEAN, oom : BOOLEAN, restarts : Nat]]
      BY DEF TInv, Shapes
    <3>2. ASSUME NEW h \in Hosts PROVE service[h] \in [running : BOOLEAN, oom : BOOLEAN, restarts : 0 .. MaxAccidents]
      <4>1. service[h].restarts <= accidents /\ accidents \in 0 .. MaxAccidents
        BY DEF TInv, Restarts, Counts
      <4>2. service[h] \in [running : BOOLEAN, oom : BOOLEAN, restarts : Nat]
        BY <3>1
      <4>3. service[h].restarts \in 0 .. MaxAccidents
        BY <4>1, <4>2, ServicesAssumption
      <4> QED  BY <4>2, <4>3
    <3> QED  BY <3>1, <3>2
  <2>2. clock \in 0 .. Horizon
    BY StageType, WithinHorizon DEF TInv, Shapes, Counts, OnTime
  <2>3. /\ script \in {"gate", "bulk"} /\ failed \in BOOLEAN /\ place \in Places /\ todo \subseteq Hosts
        /\ work \in [Hosts -> {"none", "running", "ok", "bad"}]
    BY DEF TInv, Shapes
  <2>4. Spread /\ Baselines /\ Rounds /\ Counts /\ Marks /\ Events
    BY DEF TInv
  <2> QED  BY <2>1, <2>2, <2>3, <2>4 DEF ServicesTypeOK, Spread, Baselines, Rounds, Counts, Marks, Events, Places, Stamps
<1> QED
  BY <1>1, TypesBegin, TypesKept, PTL DEF ServicesSpec

=============================================================================

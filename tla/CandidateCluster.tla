---------------------------- MODULE CandidateCluster ----------------------------
(***************************************************************************)
(* A candidate: one vLLM container per rank on the three Sparks, each with *)
(* a watchdog on its own node.  From the control host, one script starts   *)
(* the attempt (start_candidate_cluster_attempt.sh), one guards it         *)
(* (guard_candidate_cluster.sh) and one stops it intentionally             *)
(* (stop_candidate_attempt.sh).  They meet in the attempt's receipts and   *)
(* in the containers; each can be interrupted, and each ssh can be lost.   *)
(*                                                                         *)
(* Memory is one bit per node: whether MemAvailable reaches the reserve.   *)
(* scripts/start_speed_winner.sh, whose profile is modelled, sets the      *)
(* launcher's floor and the watchdog's reserve to the guard's 12 GiB.      *)
(* "mutant" marks a plausible bug a property would notice; no action uses  *)
(* it.                                                                     *)
(***************************************************************************)
EXTENDS Naturals, FiniteSets

CONSTANTS
  Attempts,     \* attempt labels
  LastRank,     \* ranks are 0..LastRank; rank 0 serves the endpoint
  MaxPolls,     \* bound: polls of the endpoint before the 3600 s deadline
  MaxMishaps    \* bound: lost commands, dying containers, kernel faults, ...

ASSUME ClusterAssumption ==
  /\ LastRank \in Nat /\ MaxPolls \in Nat /\ MaxMishaps \in Nat

Ranks == 0 .. LastRank
Count == LastRank + 1
Actors == {"launch", "guard", "stop"}    \* who stops the ranks of an attempt

VARIABLES
  pc,          \* pc[a]: where the launcher of attempt a stands
  at,          \* at[a]: the rank its loop has reached
  polls,       \* polls[a]: unanswered polls of the endpoint
  container,   \* container[a][r]: "absent", "running", "exited" or "oom"
  dog,         \* dog[a][r]: the watchdog of the container
  low,         \* low[a][r]: its consecutive samples under the reserve
  stopMark,    \* stopMark[a]: ranks whose watchdog has written STOP.json
  receipts,    \* receipts[a]: READY, FAILED, STOPPED, guard STOP on disk
  status,      \* status[a]: the phase in STATUS.json
  guard,       \* guard[a]: [pc, at, reason, misses]
  stopper,     \* stopper[a]: where stop_candidate_attempt.sh stands
  toStop,      \* toStop[a][actor]: ranks whose stop is under way
  lost,        \* lost[a]: ranks some stop of which failed silently
  faults,      \* faults[a][r]: kernel faults, by when they were logged
  ample,       \* ample: nodes whose available memory reaches the reserve
  mishaps      \* how many of the bounded mishaps have happened

launchVars == <<pc, at, polls, status>>
nodeVars == <<container, dog, low, stopMark>>
stopVars == <<stopper, toStop, lost>>
worldVars == <<faults, ample>>
others == <<nodeVars, guard, stopVars, worldVars>>    \* beside the launcher's
vars == <<launchVars, receipts, mishaps, others>>

Armed == {"preflight", "audit", "launch", "loading", "verify",
          "startup_audit", "publish", "announce"}   \* the EXIT trap is set
Receipts == {"READY", "FAILED", "STOPPED", "STOPPED_UNCLEAN", "GUARD_STOP"}

TypeOK ==
  /\ pc \in [Attempts -> Armed \cup {"idle", "replication", "refused",
                                     "stopping", "ready", "failed", "crashed"}]
  /\ at \in [Attempts -> 0 .. Count]
  /\ polls \in [Attempts -> 0 .. MaxPolls] /\ mishaps \in 0 .. MaxMishaps
  /\ container \in [Attempts -> [Ranks -> {"absent", "running", "exited", "oom"}]]
  /\ dog \in [Attempts -> [Ranks -> {"none", "watching", "stopping", "ended"}]]
  /\ low \in [Attempts -> [Ranks -> 0 .. 3]]
  /\ stopMark \in [Attempts -> SUBSET Ranks]
  /\ receipts \in [Attempts -> SUBSET Receipts]
  /\ status \in [Attempts -> {"none", "preflight", "launching", "loading",
                              "ready", "failed"}]
  /\ guard \in [Attempts -> [pc : {"off", "polling", "stopping", "exited", "killed"},
                             at : 0 .. Count, reason : BOOLEAN, misses : 0 .. 2]]
  /\ stopper \in [Attempts -> {"off", "guards", "ranks", "done"}]
  /\ toStop \in [Attempts -> [Actors -> SUBSET Ranks]]
  /\ lost \in [Attempts -> SUBSET Ranks]
  /\ faults \in [Attempts -> [Ranks -> SUBSET {"prelaunch", "startup", "late"}]]
  /\ ample \subseteq Ranks

GuardAt(label) == [pc |-> label, at |-> 0, reason |-> FALSE, misses |-> 0]

Init ==
  /\ pc = [a \in Attempts |-> "idle"]
  /\ at = [a \in Attempts |-> 0] /\ polls = [a \in Attempts |-> 0]
  /\ container = [a \in Attempts |-> [r \in Ranks |-> "absent"]]
  /\ dog = [a \in Attempts |-> [r \in Ranks |-> "none"]]
  /\ low = [a \in Attempts |-> [r \in Ranks |-> 0]]
  /\ stopMark = [a \in Attempts |-> {}] /\ receipts = [a \in Attempts |-> {}]
  /\ status = [a \in Attempts |-> "none"]
  /\ guard = [a \in Attempts |-> GuardAt("off")]
  /\ stopper = [a \in Attempts |-> "off"]
  /\ toStop = [a \in Attempts |-> [w \in Actors |-> {}]]
  /\ lost = [a \in Attempts |-> {}]
  /\ faults = [a \in Attempts |-> [r \in Ranks |-> {}]]
  /\ ample = Ranks /\ mishaps = 0

Running(a, r) == container[a][r] = "running"

\* One of the bounded mishaps happens in this step.
Mishap == mishaps < MaxMishaps /\ mishaps' = mishaps + 1

Goto(a, label) == pc' = [pc EXCEPT ![a] = label] /\ at' = [at EXCEPT ![a] = 0]
NextRank(a) == at' = [at EXCEPT ![a] = @ + 1] /\ UNCHANGED pc

\* The EXIT trap: collect what there is, then stop every rank in parallel.
diagnose_failure(a) ==
  /\ Goto(a, "stopping")
  /\ toStop' = [toStop EXCEPT ![a]["launch"] = Ranks]

-----------------------------------------------------------------------------
(* start_candidate_cluster_attempt.sh *)

\* start_speed_winner.sh first refuses a node with a GPU process; the launcher
\* refuses a state directory that exists, then creates it.
StartAttempt(a) ==
  /\ pc[a] = "idle"
  /\ \A b \in Attempts, r \in Ranks : ~Running(b, r)
  /\ Goto(a, "replication")
  /\ status' = [status EXCEPT ![a] = "preflight"]
  /\ UNCHANGED <<others, mishaps, polls, receipts>>

\* The replication receipt is tested before the trap is set.
CheckReplication(a) ==
  /\ pc[a] = "replication"
  /\ \/ Goto(a, "preflight") /\ UNCHANGED mishaps
     \/ Goto(a, "refused") /\ Mishap
  /\ UNCHANGED <<others, polls, receipts, status>>

\* One node: the reserve, then three tests joined by ";", of which only the
\* last (no container of that name) decides.
PreflightRank(a) ==
  /\ pc[a] = "preflight"
  /\ LET r == at[a] IN
     /\ r \in ample /\ container[a][r] = "absent"
     /\ IF r = LastRank THEN Goto(a, "audit") ELSE NextRank(a)
  /\ UNCHANGED <<others, mishaps, polls, receipts, status>>

PrelaunchAudit(a) ==
  /\ pc[a] = "audit"
  /\ \A r \in Ranks : faults[a][r] = {}
  /\ Goto(a, "launch")
  /\ status' = [status EXCEPT ![a] = "launching"]
  /\ UNCHANGED <<others, mishaps, polls, receipts>>

\* docker run, then the watchdog's session: joined by ";" too, so a container
\* that could not be created is noticed by the loading loop only.
LaunchRank(a) ==
  /\ pc[a] = "launch"
  /\ LET r == at[a] IN
     /\ \/ container' = [container EXCEPT ![a][r] = "running"] /\ UNCHANGED mishaps
        \/ UNCHANGED container /\ Mishap
     /\ dog' = [dog EXCEPT ![a][r] = "watching"]
     /\ IF r = LastRank
          THEN Goto(a, "loading") /\ status' = [status EXCEPT ![a] = "loading"]
          ELSE NextRank(a) /\ UNCHANGED status
  /\ UNCHANGED <<stopVars, worldVars, guard, low, polls, receipts, stopMark>>

PollRank(a) ==
  /\ pc[a] = "loading" /\ at[a] <= LastRank
  /\ Running(a, at[a]) /\ at[a] \notin stopMark[a]
  /\ NextRank(a)
  /\ UNCHANGED <<others, mishaps, polls, receipts, status>>

\* The endpoint is a port of rank 0's host: whichever candidate listens there
\* answers.
Answers == \E b \in Attempts : Running(b, 0)

ProbeHealth(a) ==
  /\ pc[a] = "loading" /\ at[a] = Count
  /\ \/ Answers /\ Goto(a, "verify") /\ UNCHANGED polls
     \/ /\ polls[a] < MaxPolls
        /\ polls' = [polls EXCEPT ![a] = @ + 1]
        /\ Goto(a, "loading")
  /\ UNCHANGED <<others, mishaps, receipts, status>>

\* After 200: evict the page cache, inspect (an exited container can be
\* inspected as well) and test the reserve; nothing asks whether it still runs.
VerifyRank(a) ==
  /\ pc[a] = "verify"
  /\ LET r == at[a] IN
     /\ r \in ample /\ container[a][r] # "absent"
     /\ IF r = LastRank THEN Goto(a, "startup_audit") ELSE NextRank(a)
  /\ UNCHANGED <<others, mishaps, polls, receipts, status>>

\* The audited window ends where the endpoint first answered.
StartupAudit(a) ==
  /\ pc[a] = "startup_audit"
  /\ \A r \in Ranks : faults[a][r] \subseteq {"late"}
  /\ Goto(a, "publish")
  /\ UNCHANGED <<others, mishaps, polls, receipts, status>>

PublishReady(a) ==
  /\ pc[a] = "publish"
  /\ receipts' = [receipts EXCEPT ![a] = @ \cup {"READY"}]
  /\ Goto(a, "announce")
  /\ UNCHANGED <<others, mishaps, polls, status>>

AnnounceReady(a) ==
  /\ pc[a] = "announce"
  /\ status' = [status EXCEPT ![a] = "ready"]
  /\ Goto(a, "ready")
  /\ UNCHANGED <<others, mishaps, polls, receipts>>

NoDeadline(a) == FALSE                      \* mutant: it waits for ever
TimedOut(a) == pc[a] = "loading" /\ at[a] = Count /\ polls[a] = MaxPolls

\* What makes a step of the launcher exit under `set -e`.
CheckFails(a) ==
  LET r == at[a] IN
  \/ pc[a] = "preflight" /\ ~(r \in ample /\ container[a][r] = "absent")
  \/ pc[a] = "audit" /\ \E q \in Ranks : faults[a][q] # {}
  \/ pc[a] = "loading" /\ r <= LastRank /\ (~Running(a, r) \/ r \in stopMark[a])
  \/ TimedOut(a)
  \/ pc[a] = "verify" /\ ~(r \in ample /\ container[a][r] # "absent")
  \/ pc[a] = "startup_audit" /\ \E q \in Ranks : ~(faults[a][q] \subseteq {"late"})

\* A check fails, or a command of the script does: ssh, rsync, jq, mv, and the
\* tests that the protected service is stopped and the rank pack complete.
LaunchFails(a) ==
  /\ pc[a] \in Armed
  /\ \/ CheckFails(a) /\ UNCHANGED mishaps
     \/ ~CheckFails(a) /\ Mishap
  /\ diagnose_failure(a)
  /\ UNCHANGED <<nodeVars, worldVars, guard, lost, polls, receipts, status,
                 stopper>>

RecordFailure(a) ==
  /\ pc[a] = "stopping" /\ toStop[a]["launch"] = {}
  /\ receipts' = [receipts EXCEPT ![a] = @ \cup {"FAILED"}]
  /\ status' = [status EXCEPT ![a] = "failed"]
  /\ Goto(a, "failed")
  /\ UNCHANGED <<others, mishaps, polls>>

\* The launcher dies without its trap (power, SIGKILL).
LauncherDies(a) ==
  /\ pc[a] \in Armed \cup {"replication", "stopping"}
  /\ Mishap
  /\ Goto(a, "crashed")
  /\ toStop' = [toStop EXCEPT ![a]["launch"] = {}]
  /\ UNCHANGED <<nodeVars, worldVars, guard, lost, polls, receipts, status,
                 stopper>>

-----------------------------------------------------------------------------
(* docker stop and kill-session on one node, for any of the three scripts *)

Stopped(state) == IF state = "running" THEN "exited" ELSE state

\* kill-session of the watchdog.
KillDog(a, r) ==
  /\ dog' = [dog EXCEPT ![a][r] = IF @ = "none" THEN @ ELSE "ended"]
  /\ low' = [low EXCEPT ![a][r] = 0]

\* The ssh is lost, or docker stop fails ("|| true") and only the sessions die.
StopRank(a, w, r) ==
  /\ r \in toStop[a][w]
  /\ toStop' = [toStop EXCEPT ![a][w] = @ \ {r}]
  /\ \/ /\ container' = [container EXCEPT ![a][r] = Stopped(@)]
        /\ KillDog(a, r)
        /\ UNCHANGED <<lost, mishaps>>
     \/ /\ Mishap /\ lost' = [lost EXCEPT ![a] = @ \cup {r}]
        /\ UNCHANGED container
        /\ UNCHANGED <<dog, low>> \/ KillDog(a, r)
  /\ UNCHANGED <<launchVars, worldVars, guard, receipts, stopMark, stopper>>

-----------------------------------------------------------------------------
(* watchdog.py, beside each container *)

DogSamples(a, r) ==
  /\ dog[a][r] = "watching" /\ Running(a, r)
  /\ \E unavailable \in BOOLEAN :   \* the journal, or three samples of swapping
       LET samples == IF r \in ample THEN 0 ELSE low[a][r] + 1
           reason == \/ unavailable \/ samples >= 3
                     \/ faults[a][r] \cap {"startup", "late"} # {}
       IN /\ low' = [low EXCEPT ![a][r] = IF reason THEN 0 ELSE samples]
          /\ IF unavailable THEN Mishap ELSE UNCHANGED mishaps
          /\ stopMark' = [stopMark EXCEPT ![a] = IF reason THEN @ \cup {r} ELSE @]
          /\ dog' = [dog EXCEPT ![a][r] = IF reason THEN "stopping" ELSE @]
  /\ UNCHANGED <<launchVars, stopVars, worldVars, container, guard, receipts>>

\* STOP.json is on disk; docker stop follows, and the watchdog exits.
DogStops(a, r) ==
  /\ dog[a][r] = "stopping"
  /\ dog' = [dog EXCEPT ![a][r] = "ended"]
  /\ \/ container' = [container EXCEPT ![a][r] = Stopped(@)] /\ UNCHANGED stopVars
        /\ UNCHANGED mishaps
     \/ Running(a, r) /\ Mishap /\ lost' = [lost EXCEPT ![a] = @ \cup {r}]
        /\ UNCHANGED <<container, stopper, toStop>>
  /\ UNCHANGED <<launchVars, worldVars, guard, low, receipts, stopMark>>

DogEnds(a, r) ==
  /\ dog[a][r] = "watching" /\ ~Running(a, r)
  /\ dog' = [dog EXCEPT ![a][r] = "ended"] /\ low' = [low EXCEPT ![a][r] = 0]
  /\ UNCHANGED <<launchVars, stopVars, worldVars, container, guard, mishaps,
                 receipts, stopMark>>

-----------------------------------------------------------------------------
(* guard_candidate_cluster.sh *)

GuardStarts(a) ==
  /\ guard[a].pc = "off"
  /\ "READY" \in receipts[a] /\ "GUARD_STOP" \notin receipts[a]
  /\ guard' = [guard EXCEPT ![a] = GuardAt("polling")]
  /\ UNCHANGED <<launchVars, nodeVars, stopVars, worldVars, mishaps, receipts>>

BadMark(a, r) == r \in stopMark[a]            \* mutant: the container is not asked
Bad(a, r) == r \in stopMark[a] \/ ~Running(a, r) \/ r \notin ample

\* A node that cannot be asked counts as one whose watchdog has stopped it.
GuardPollsRank(a) ==
  /\ guard[a].pc = "polling" /\ guard[a].at <= LastRank
  /\ \E silent \in BOOLEAN :
       /\ IF silent THEN Mishap ELSE UNCHANGED mishaps
       /\ guard' = [guard EXCEPT ![a].at = @ + 1,
                       ![a].reason = @ \/ silent \/ Bad(a, guard[a].at)]
  /\ UNCHANGED <<launchVars, nodeVars, stopVars, worldVars, receipts>>

TooMany(misses) == misses >= 3

\* Three unanswered polls in a row are a reason; with one, the guard records
\* it and stops every rank.
GuardDecides(a) ==
  /\ guard[a].pc = "polling" /\ guard[a].at = Count
  /\ \E answered \in (IF Answers THEN BOOLEAN ELSE {FALSE}) :
       LET misses == IF answered THEN 0 ELSE guard[a].misses + 1
           reason == guard[a].reason \/ TooMany(misses)
       IN /\ guard' = [guard EXCEPT ![a] =
                         IF reason THEN GuardAt("stopping")
                                   ELSE [GuardAt("polling") EXCEPT !.misses = misses]]
          /\ receipts' = [receipts EXCEPT ![a] =
                            IF reason THEN @ \cup {"GUARD_STOP"} ELSE @]
          /\ toStop' = [toStop EXCEPT ![a]["guard"] = IF reason THEN Ranks ELSE @]
  /\ UNCHANGED <<launchVars, nodeVars, worldVars, lost, mishaps, stopper>>

GuardExits(a) ==
  /\ guard[a].pc = "stopping" /\ toStop[a]["guard"] = {}
  /\ guard' = [guard EXCEPT ![a] = GuardAt("exited")]
  /\ UNCHANGED <<launchVars, nodeVars, stopVars, worldVars, mishaps, receipts>>

-----------------------------------------------------------------------------
(* stop_candidate_attempt.sh *)

StopAttempt(a) ==
  /\ stopper[a] = "off"
  /\ "READY" \in receipts[a] /\ receipts[a] \cap {"STOPPED", "STOPPED_UNCLEAN"} = {}
  /\ stopper' = [stopper EXCEPT ![a] = "guards"]
  /\ UNCHANGED <<launchVars, nodeVars, worldVars, guard, lost, mishaps,
                 receipts, toStop>>

\* The guards that name the attempt are killed before the ranks are stopped; a
\* listing that fails kills none.
KillGuards(a) ==
  /\ stopper[a] = "guards"
  /\ \/ /\ guard' = [guard EXCEPT ![a] =
                       IF @.pc \in {"polling", "stopping"} THEN GuardAt("killed") ELSE @]
        /\ toStop' = [toStop EXCEPT ![a] = [@ EXCEPT !["guard"] = {}, !["stop"] = Ranks]]
        /\ UNCHANGED mishaps
     \/ /\ Mishap /\ UNCHANGED guard
        /\ toStop' = [toStop EXCEPT ![a]["stop"] = Ranks]
  /\ stopper' = [stopper EXCEPT ![a] = "ranks"]
  /\ UNCHANGED <<launchVars, nodeVars, worldVars, lost, receipts>>

CleanKernel(a, r) == faults[a][r] = {}      \* mutant: State.Running not asked
Clean(a, r) == container[a][r] = "exited" /\ faults[a][r] = {}

\* The final state of every rank is collected after the stops, and decides
\* between a clean receipt and an unclean one.  A rank that cannot be
\* inspected ends the script without a receipt.
RecordStop(a) ==
  /\ stopper[a] = "ranks" /\ toStop[a]["stop"] = {}
  /\ LET clean == \A r \in Ranks : Clean(a, r)
         found == \A r \in Ranks : container[a][r] # "absent"
     IN \/ /\ found
           /\ \E memoryClean \in BOOLEAN :
                receipts' = [receipts EXCEPT ![a] = @ \cup
                  {IF clean /\ memoryClean THEN "STOPPED" ELSE "STOPPED_UNCLEAN"}]
           /\ stopper' = [stopper EXCEPT ![a] = "done"] /\ UNCHANGED mishaps
        \/ /\ ~found /\ UNCHANGED <<mishaps, receipts>>
           /\ stopper' = [stopper EXCEPT ![a] = "off"]
        \/ /\ found /\ Mishap /\ UNCHANGED receipts
           /\ stopper' = [stopper EXCEPT ![a] = "off"]
  /\ UNCHANGED <<launchVars, nodeVars, worldVars, guard, lost, toStop>>

-----------------------------------------------------------------------------
(* The world *)

RankDies(a, r) ==
  /\ Running(a, r) /\ Mishap
  /\ \E state \in {"exited", "oom"} : container' = [container EXCEPT ![a][r] = state]
  /\ UNCHANGED <<launchVars, stopVars, worldVars, dog, guard, low, receipts,
                 stopMark>>

\* Where a fault at this moment falls for attempt a: before the watchdog of
\* the node looks, before the endpoint has answered, or later.
When(a, r) ==
  IF dog[a][r] = "none" THEN "prelaunch"
  ELSE IF pc[a] \in {"launch", "loading"} THEN "startup" ELSE "late"

KernelFault(r) ==
  /\ Mishap
  /\ faults' = [a \in Attempts |-> IF pc[a] \in {"idle", "refused"} THEN faults[a]
                  ELSE [faults[a] EXCEPT ![r] = @ \cup {When(a, r)}]]
  /\ UNCHANGED <<launchVars, nodeVars, stopVars, ample, guard, receipts>>

MemoryChanges(r) ==
  /\ \/ r \in ample /\ ample' = ample \ {r} /\ Mishap
     \/ r \notin ample /\ ample' = ample \cup {r} /\ UNCHANGED mishaps
  /\ UNCHANGED <<launchVars, nodeVars, stopVars, faults, guard, receipts>>

-----------------------------------------------------------------------------
Launcher(a) ==
  \/ CheckReplication(a) \/ PreflightRank(a) \/ PrelaunchAudit(a) \/ LaunchRank(a)
  \/ PollRank(a) \/ ProbeHealth(a) \/ VerifyRank(a) \/ StartupAudit(a)
  \/ PublishReady(a) \/ AnnounceReady(a) \/ LaunchFails(a) \/ RecordFailure(a)
Guard(a) == GuardPollsRank(a) \/ GuardDecides(a) \/ GuardExits(a)
Stopper(a) == KillGuards(a) \/ RecordStop(a)
Dog(a, r) == DogSamples(a, r) \/ DogStops(a, r) \/ DogEnds(a, r)

Next ==
  \/ \E a \in Attempts :
       \/ StartAttempt(a) \/ Launcher(a) \/ LauncherDies(a)
       \/ GuardStarts(a) \/ Guard(a) \/ StopAttempt(a) \/ Stopper(a)
       \/ \E r \in Ranks : Dog(a, r) \/ RankDies(a, r)
       \/ \E r \in Ranks, w \in Actors : StopRank(a, w, r)
  \/ \E r \in Ranks : KernelFault(r) \/ MemoryChanges(r)

Spec == Init /\ [][Next]_vars

\* The scripts run on; nobody has to start them, and no mishap has to happen.
FairSpec ==
  /\ Spec
  /\ \A a \in Attempts :
       /\ WF_vars(Launcher(a)) /\ WF_vars(Guard(a)) /\ WF_vars(Stopper(a))
       /\ \A w \in Actors, r \in Ranks : WF_vars(StopRank(a, w, r))

-----------------------------------------------------------------------------
(* Properties *)

\* A clean STOPPED receipt, and a FAILED one no stop was lost on, mean that no
\* rank of the attempt is running: restoring the services next to it is safe.
StopRecordsAreTrue ==
  \A a \in Attempts :
    \/ "STOPPED" \in receipts[a]
    \/ "FAILED" \in receipts[a] /\ lost[a] = {}
    => \A r \in Ranks : ~Running(a, r)

\* The launch of an attempt comes to an end (ready, failed, refused by the
\* replication receipt) unless its launcher dies.
LaunchResolves ==
  \A a \in Attempts :
    pc[a] \in Armed ~> pc[a] \in {"ready", "failed", "crashed"}

\* A rank that is gone takes the whole group down when the attempt is guarded,
\* whether it died before READY was written or after, unless a stop is lost or
\* the guard is killed by an intentional stop.
DeadRankTakesGroupDown ==
  \A a \in Attempts :
    guard[a].pc = "polling" /\ (\E r \in Ranks : ~Running(a, r))
      ~> \/ \A r \in Ranks : ~Running(a, r)
         \/ guard[a].pc = "killed" \/ lost[a] # {}
=============================================================================

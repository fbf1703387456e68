--------------------------- MODULE ProtectedServices ---------------------------
(***************************************************************************)
(* The protected services (Flash's head and worker, H3), one per Spark,    *)
(* are stopped for an experiment and restored after it.  Two scripts do so *)
(* from the control host:                                                  *)
(*  "gate": run_distributed_gate.sh stops them, runs one container per     *)
(*     rank for each rotation, and restores them, from its EXIT trap if it *)
(*     has to;                                                             *)
(*  "bulk": start_bulk.sh stops them and hands over to the bulk manager;   *)
(*     restore_protected_services.sh restores them when the bulk is over.  *)
(* Both end in the lifecycle audit of module Lifecycle.                    *)
(* Time advances with what is stamped and with what sleeps, one unit for a *)
(* poll; two stamps never coincide.                                        *)
(* "mutant" marks a plausible bug a property would notice.                 *)
(***************************************************************************)
EXTENDS Lifecycle

CONSTANTS
  Head,             \* the host of Flash's head, started last
  LastRotation,     \* rotations of the gate are 0..LastRotation
  MaxProbes,        \* bound: polls of the restored services (180 in the code)
  MaxAccidents      \* bound: lost commands, dying containers, kernel events

ASSUME ServicesAssumption ==
  Head \in Hosts /\ LastRotation \in Nat /\ MaxProbes \in Nat /\ MaxAccidents \in Nat

PostSleep == MinObservation + 1               \* sleep 15 for the 10 s required

VARIABLES
  script,      \* "gate" or "bulk"
  place,       \* where it stands
  todo,        \* hosts the loop or the parallel ssh has not reached
  service,     \* service[h]: [running, oom, restarts]
  baseline,    \* baseline[h]: the restart count before the stop, or None
  work,        \* work[h]: the experimental container of the host
  rotation,    \* the rotation the gate runs
  rotations,   \* rotations whose SUMMARY.json passed
  failed,      \* the script's flag
  probes,      \* polls done of the restored services
  mark,        \* the stamps: start, end, cold, ready, postEnd
  seen,        \* the service state the audit is given
  journal,     \* kernel events of all hosts, with the phase they fell in
  clock, accidents,
  died,        \* services that went down since their restore began
  lostStarts,  \* services whose docker start was lost
  badRanks     \* rotations some rank of which did not end well

runVars == <<rotation, rotations, work, badRanks>>
restoreVars == <<probes, seen, lostStarts>>
serviceVars == <<service, died>>
timeVars == <<clock, mark>>
allVars == <<script, place, todo, baseline, failed, journal, accidents, runVars, restoreVars,
             serviceVars, timeVars>>

Rotations == 0 .. LastRotation
Unseen == [containers |-> [h \in Hosts |-> [running |-> FALSE, oom |-> TRUE,
                                            before |-> 0, after |-> -1]],
           death |-> FALSE, health |-> FALSE, generation |-> FALSE]

\* The latest time: every stamp, event and poll, and the sleep at the end.
Horizon == 5 + 2 * MaxProbes + PostSleep + MaxAccidents

ServicesTypeOK ==
  /\ script \in {"gate", "bulk"} /\ failed \in BOOLEAN
  /\ place \in {"idle", "baseline", "stop", "check", "launch", "wait", "collect",
             "manager", "bulk", "ended", "restore", "head", "poll", "canary",
             "inspect", "audit", "trap", "passed", "failed", "killed"}
  /\ todo \subseteq Hosts /\ died \subseteq Hosts /\ lostStarts \subseteq Hosts
  /\ service \in [Hosts -> [running : BOOLEAN, oom : BOOLEAN, restarts : 0 .. MaxAccidents]]
  /\ baseline \in [Hosts -> (0 .. MaxAccidents) \cup {None}]
  /\ work \in [Hosts -> {"none", "running", "ok", "bad"}]
  /\ rotation \in Rotations /\ rotations \subseteq Rotations /\ badRanks \subseteq Rotations
  /\ probes \in 0 .. MaxProbes /\ accidents \in 0 .. MaxAccidents /\ clock \in 0 .. Horizon
  /\ mark \in [{"start", "end", "cold", "ready", "postEnd"} -> (0 .. Horizon) \cup {None}]
  /\ \A e \in journal : e.host \in Hosts /\ e.at \in 0 .. clock

ServicesInit ==
  /\ script \in {"gate", "bulk"} /\ place = "idle" /\ todo = {} /\ failed = FALSE
  /\ service = [h \in Hosts |-> [running |-> TRUE, oom |-> FALSE, restarts |-> 0]]
  /\ baseline = [h \in Hosts |-> None] /\ work = [h \in Hosts |-> "none"]
  /\ rotation = 0 /\ rotations = {} /\ badRanks = {}
  /\ probes = 0 /\ seen = Unseen /\ journal = {} /\ clock = 0 /\ accidents = 0
  /\ mark = [m \in {"start", "end", "cold", "ready", "postEnd"} |-> None]
  /\ died = {} /\ lostStarts = {}

Accident == accidents < MaxAccidents /\ accidents' = accidents + 1
Stamp(names) == /\ clock' = clock + 1
                /\ mark' = [m \in DOMAIN mark |-> IF m \in names THEN clock + 1 ELSE mark[m]]
Proceed(label, hosts) == place' = label /\ todo' = hosts

-----------------------------------------------------------------------------
(* Stopping the services: both scripts *)

\* The EXIT trap is set and the restart counts are taken.
Begin ==
  /\ place = "idle" /\ Proceed("baseline", Hosts)
  /\ UNCHANGED <<script, baseline, failed, journal, accidents, runVars, restoreVars,
                 serviceVars, timeVars>>

\* start_bulk.sh also requires that the service is running and well.
TakeBaseline(h) ==
  /\ place = "baseline" /\ h \in todo
  /\ script = "bulk" => service[h].running /\ ~service[h].oom
  /\ baseline' = [baseline EXCEPT ![h] = service[h].restarts]
  /\ IF todo = {h} THEN Proceed("stop", Hosts) ELSE Proceed("baseline", todo \ {h})
  /\ UNCHANGED <<script, failed, journal, accidents, runVars, restoreVars, serviceVars,
                 timeVars>>

\* The stops run in parallel; `wait` does not look at how they ended.
StopService(h) ==
  /\ place = "stop" /\ h \in todo
  /\ \/ service' = [service EXCEPT ![h].running = FALSE] /\ UNCHANGED accidents
     \/ UNCHANGED service /\ Accident
  /\ IF todo = {h} THEN Proceed("check", Hosts) ELSE Proceed("stop", todo \ {h})
  /\ UNCHANGED <<script, baseline, failed, journal, died, runVars, restoreVars, timeVars>>

\* Then every service must be down, with the reserve available (the reserve is
\* among the mishaps).  The window of the experiment starts.
CheckStopped ==
  /\ place = "check"
  /\ \A h \in Hosts : ~service[h].running
  /\ Stamp({"start"})
  /\ IF script = "gate" THEN Proceed("launch", Hosts) ELSE Proceed("manager", {})
  /\ UNCHANGED <<script, baseline, failed, journal, accidents, runVars, restoreVars,
                 serviceVars>>

-----------------------------------------------------------------------------
(* run_distributed_gate.sh: the rotations *)

\* start_runtime_gate_rank.sh refuses a host whose service is up; it removes the
\* container of the last rotation, which fails if that one still runs.
LaunchGateRank(h) ==
  /\ place = "launch" /\ h \in todo
  /\ ~service[h].running /\ work[h] # "running"
  /\ work' = [work EXCEPT ![h] = "running"]
  /\ IF todo = {h} THEN Proceed("wait", {}) ELSE Proceed("launch", todo \ {h})
  /\ UNCHANGED <<script, baseline, failed, journal, accidents, rotation, rotations,
                 badRanks, restoreVars, serviceVars, timeVars>>

RankEnds(h) ==
  /\ script = "gate" /\ work[h] = "running"
  /\ \/ work' = [work EXCEPT ![h] = "ok"] /\ UNCHANGED <<badRanks, accidents>>
     \/ /\ Accident /\ work' = [work EXCEPT ![h] = "bad"]
        /\ badRanks' = badRanks \cup {rotation}
  /\ UNCHANGED <<script, place, todo, baseline, failed, journal, rotation, rotations,
                 restoreVars, serviceVars, timeVars>>

Active == {h \in Hosts : work[h] = "running"}

\* No rank is active, or the 1800 s are over: the rotation has failed and the
\* containers are stopped, each ssh for itself.
Wait ==
  /\ place = "wait"
  /\ \/ Active = {} /\ UNCHANGED <<work, badRanks, failed, accidents>>
     \/ /\ Active # {} /\ Accident /\ failed' = TRUE
        /\ badRanks' = badRanks \cup {rotation}
        /\ \E stuck \in SUBSET Active :
             work' = [h \in Hosts |-> IF h \in Active \ stuck THEN "bad" ELSE work[h]]
  /\ Proceed("collect", {})
  /\ UNCHANGED <<script, baseline, journal, rotation, rotations, restoreVars,
                 serviceVars, timeVars>>

\* Exit codes, logs and rank receipts; a missing one fails the rotation.  The
\* containers are stopped once more before the next rotation.
CollectCodesIgnored(h) == TRUE               \* mutant: only the receipts count
ExitedWell(h) == work[h] = "ok"
Collect ==
  /\ place = "collect"
  /\ \E stuck \in SUBSET Active :
       work' = [h \in Hosts |-> IF h \in Active \ stuck THEN "bad" ELSE work[h]]
  /\ \E missing \in BOOLEAN :
       LET passed == ~missing /\ \A h \in Hosts : ExitedWell(h)
       IN /\ IF missing THEN Accident ELSE UNCHANGED accidents
          /\ failed' = (failed \/ ~passed)
          /\ rotations' = IF passed THEN rotations \cup {rotation} ELSE rotations
  /\ IF rotation = LastRotation
       THEN Stamp({"end"}) /\ Proceed("ended", Hosts) /\ UNCHANGED rotation
       ELSE /\ rotation' = rotation + 1 /\ Proceed("launch", Hosts)
            /\ UNCHANGED timeVars
  /\ UNCHANGED <<script, baseline, journal, badRanks, restoreVars, serviceVars>>

\* stop_gate_containers, before the restore; a lost stop is not noticed.
StopGate(h) ==
  /\ place = "ended" /\ script = "gate" /\ h \in todo
  /\ \/ UNCHANGED accidents /\ work' = [work EXCEPT ![h] = IF @ = "running" THEN "bad" ELSE @]
     \/ work[h] = "running" /\ Accident /\ UNCHANGED work
  /\ IF todo = {h} THEN Stamp({"cold"}) /\ Proceed("restore", Hosts \ {Head})
                   ELSE Proceed("ended", todo \ {h}) /\ UNCHANGED timeVars
  /\ UNCHANGED <<script, baseline, failed, journal, rotation, rotations, badRanks,
                 restoreVars, serviceVars>>

-----------------------------------------------------------------------------
(* start_bulk.sh: the manager's session, and the end of the bulk *)

\* The manager starts its encoders.  One that has not written a status in time
\* fails the start, and goes on: the trap stops containers, not its session.
StartManager ==
  /\ place = "manager"
  /\ work' = [h \in Hosts |-> "running"]
  /\ \/ Proceed("bulk", {}) /\ UNCHANGED <<failed, accidents>>
     \/ Proceed("failed", {}) /\ Accident /\ failed' = TRUE
  /\ UNCHANGED <<script, baseline, journal, rotation, rotations, badRanks,
                 restoreVars, serviceVars, timeVars>>

\* The encoders are over, and restore_protected_services.sh is run: it stamps
\* the end of the experiment and the start of the restore.
BeginRestore ==
  /\ place = "bulk"
  /\ work' = [h \in Hosts |-> "none"]
  /\ Stamp({"end", "cold"}) /\ Proceed("restore", Hosts \ {Head})
  /\ UNCHANGED <<script, baseline, failed, journal, accidents, rotation, rotations,
                 badRanks, restoreVars, serviceVars>>

-----------------------------------------------------------------------------
(* The restore *)

\* Docker sets the restart count of a container that is started by hand to 0.
DockerStart(h) ==
  \/ /\ service' = IF service[h].running THEN service
                   ELSE [service EXCEPT ![h] = [running |-> TRUE, oom |-> FALSE,
                                                restarts |-> 0]]
     /\ UNCHANGED <<lostStarts, accidents>>
  \/ /\ ~service[h].running /\ Accident
     /\ lostStarts' = lostStarts \cup {h} /\ UNCHANGED service

\* The worker and H3 in parallel, then the head; "|| true" hides a failure.
StartService(h) ==
  /\ place = "restore" /\ h \in todo
  /\ DockerStart(h)
  /\ IF todo = {h} THEN Proceed("head", {Head}) ELSE Proceed("restore", todo \ {h})
  /\ UNCHANGED <<script, baseline, failed, journal, probes, seen, died, runVars, timeVars>>

StartHead ==
  /\ place = "head" /\ DockerStart(Head) /\ Proceed("poll", {})
  /\ UNCHANGED <<script, baseline, failed, journal, probes, seen, died, runVars, timeVars>>

AnotherPoll == probes < MaxProbes
FlashUp == \A h \in FlashHosts : service[h].running

\* One poll: a service of Flash that is down ends the polling; two healthy
\* answers end it as ready; else it sleeps, until the polls are over.  A poll
\* that waits for its answers takes longer than its sleep.
Poll ==
  /\ place = "poll"
  /\ \/ /\ ~FlashUp
        /\ seen' = [seen EXCEPT !.death = TRUE] /\ failed' = TRUE
        /\ Proceed("inspect", {}) /\ UNCHANGED <<probes, timeVars>>
     \/ /\ \A h \in Hosts : service[h].running
        /\ seen' = [seen EXCEPT !.health = TRUE]
        /\ Stamp({"ready"}) /\ Proceed("canary", {}) /\ UNCHANGED <<failed, probes>>
     \/ /\ FlashUp /\ AnotherPoll
        /\ probes' = probes + 1 /\ \E slow \in 1 .. 2 : clock' = clock + slow
        /\ UNCHANGED <<place, todo, seen, failed, mark>>
     \/ /\ FlashUp /\ ~AnotherPoll
        /\ failed' = TRUE /\ Proceed("inspect", {}) /\ UNCHANGED <<probes, seen, timeVars>>
  /\ UNCHANGED <<script, baseline, journal, accidents, lostStarts, runVars, serviceVars>>

\* verify_flash_generation.sh: a real answer of the restored model.
Canary ==
  /\ place = "canary" /\ Proceed("inspect", {})
  /\ \/ FlashUp /\ seen' = [seen EXCEPT !.generation = TRUE] /\ UNCHANGED <<failed, accidents>>
     \/ ~FlashUp /\ failed' = TRUE /\ UNCHANGED <<seen, accidents>>
     \/ Accident /\ failed' = TRUE /\ UNCHANGED seen
  /\ UNCHANGED <<script, baseline, journal, probes, lostStarts, runVars, serviceVars, timeVars>>

\* After the sleep, the end of the observation is stamped and every service
\* inspected.
CountBefore(h) == IF baseline[h] = None THEN -2 ELSE baseline[h]
Inspect ==
  /\ place = "inspect" /\ Proceed("audit", {})
  /\ clock' = clock + PostSleep /\ mark' = [mark EXCEPT !["postEnd"] = clock + PostSleep]
  /\ seen' = [seen EXCEPT !.containers = [h \in Hosts |->
                [running |-> service[h].running, oom |-> service[h].oom,
                 before |-> CountBefore(h), after |-> service[h].restarts]]]
  /\ UNCHANGED <<script, baseline, failed, journal, accidents, probes, lostStarts, runVars,
                 serviceVars>>

\* kernel_audit.py --timeline.  A journal that cannot be read fails it; the
\* gate's verdict also needs its rotations.
Audit ==
  /\ place = "audit"
  /\ LET t == mark
         clean == /\ EvaluateLifecycle(t, Collected(t, journal), seen)
                  /\ script = "gate" => rotations = Rotations
     IN \/ Proceed(IF clean /\ ~failed THEN "passed" ELSE "failed", {}) /\ UNCHANGED accidents
        \/ Proceed("failed", {}) /\ Accident
  /\ UNCHANGED <<script, baseline, failed, journal, runVars, restoreVars, serviceVars,
                 timeVars>>

-----------------------------------------------------------------------------
(* Failures *)

Exiting == {"baseline", "stop", "check", "launch", "wait", "collect", "ended", "manager"}
Refused ==
  \/ place = "check" /\ \E h \in Hosts : service[h].running
  \/ place = "launch" /\ \E h \in todo : service[h].running \/ work[h] = "running"
  \/ place = "baseline" /\ script = "bulk" /\ \E h \in todo : ~service[h].running

TrappedBefore == script = "gate" /\ place \notin {"launch", "wait", "collect"}  \* mutant: the
                                             \* trap is dropped once the gate runs
Trapped == script = "gate"

\* `set -e`: a check or a command fails.  The gate's trap stops its containers
\* and starts the services again; start_bulk.sh's leaves them stopped.
Exit ==
  /\ place \in Exiting
  /\ \/ Refused /\ UNCHANGED accidents
     \/ ~Refused /\ Accident
  /\ failed' = TRUE
  /\ \E stuck \in SUBSET Active :
       work' = [h \in Hosts |-> IF h \in Active \ stuck THEN "bad" ELSE work[h]]
  /\ IF Trapped THEN Proceed("trap", Hosts) ELSE Proceed("failed", {})
  /\ UNCHANGED <<script, baseline, journal, rotation, rotations, badRanks, restoreVars,
                 serviceVars, timeVars>>

TrapStart(h) ==
  /\ place = "trap" /\ h \in todo
  /\ h = Head => todo = {Head}
  /\ DockerStart(h)
  /\ IF todo = {h} THEN Proceed("failed", {}) ELSE Proceed("trap", todo \ {h})
  /\ UNCHANGED <<script, baseline, failed, journal, probes, seen, died, runVars, timeVars>>

\* The script is killed without its trap.
Killed ==
  /\ place \notin {"idle", "passed", "failed", "killed"} /\ Accident /\ Proceed("killed", {})
  /\ UNCHANGED <<script, baseline, failed, journal, runVars, restoreVars, serviceVars,
                 timeVars>>

\* A service dies; Docker may start it again by its restart policy.
ServiceDies(h) ==
  /\ service[h].running /\ place \notin {"passed", "failed", "killed"} /\ Accident
  /\ \E again \in BOOLEAN, oom \in BOOLEAN :
       service' = [service EXCEPT ![h] = [running |-> again, oom |-> oom /\ ~again,
                     restarts |-> IF again THEN @.restarts + 1 ELSE @.restarts]]
  /\ died' = IF place \in {"restore", "head", "poll", "canary", "inspect", "trap"}
               THEN died \cup {h} ELSE died
  /\ UNCHANGED <<script, place, todo, baseline, failed, journal, runVars, restoreVars,
                 timeVars>>

\* A kernel event, perhaps in the unit of the last stamp (utc_now cuts a stamp to the
\* millisecond, so that it comes first); phase says where the script stood, for the
\* properties.
KernelEvent(h) ==
  /\ place \notin {"idle", "passed", "failed", "killed"} /\ Accident
  /\ clock' \in {clock, clock + 1}
  /\ \E kind \in {"alloc", "fault"} :
       journal' = journal \cup {[host |-> h, at |-> clock', kind |-> kind, phase |-> place]}
  /\ UNCHANGED <<script, place, todo, baseline, failed, mark, runVars, restoreVars,
                 serviceVars>>

-----------------------------------------------------------------------------
Script ==
  \/ CheckStopped \/ Wait \/ Collect \/ StartManager \/ BeginRestore \/ StartHead
  \/ Poll \/ Canary \/ Inspect \/ Audit \/ Exit
  \/ \E h \in Hosts : \/ TakeBaseline(h) \/ StopService(h) \/ LaunchGateRank(h)
                      \/ StopGate(h) \/ StartService(h) \/ TrapStart(h)

ServicesNext ==
  \/ Begin \/ Script \/ Killed
  \/ \E h \in Hosts : RankEnds(h) \/ ServiceDies(h) \/ KernelEvent(h)

ServicesSpec == ServicesInit /\ [][ServicesNext]_allVars

\* The scripts run on, and an experimental container ends by itself.
ServicesFairSpec ==
  ServicesSpec /\ WF_allVars(Script) /\ \A h \in Hosts : WF_allVars(RankEnds(h))

-----------------------------------------------------------------------------
(* Properties *)

\* Where the services are down by the script's doing: from the first stop, and
\* while the kernels must log nothing.
Down == {"stop", "check", "launch", "wait", "collect", "ended", "trap"}
Quiet == {"launch", "wait", "collect", "ended", "manager", "bulk", "canary", "inspect"}
Starting == {"restore", "head", "poll"}

\* PASSED of the gate and of the restore: every rank of every rotation ended
\* well, no service went down between its restart and the inspection (unless it
\* had been restarted before: Docker forgets that count, and as many deaths are
\* hidden), and the kernels logged nothing from the start stamp to the end of
\* the observation but allocation retries of Flash's hosts while they started.
PassedIsClean ==
  place = "passed" =>
    /\ badRanks = {} /\ \A h \in died : baseline[h] > 0
    /\ \A h \in Hosts : seen.containers[h].running
    /\ \A e \in journal : /\ e.phase \notin Quiet
                          /\ e.phase \in Starting => e.kind = "alloc" /\ e.host \in FlashHosts

\* However the gate fails, the services it stops are started again, unless it
\* is killed, a start is lost, or the service dies.
ServicesComeBack ==
  script = "gate" /\ place \in Down
    ~> \/ \A h \in Hosts : service[h].running
       \/ lostStarts # {} \/ died # {} \/ place = "killed"
=============================================================================

------------------------------- MODULE Lifecycle -------------------------------
(***************************************************************************)
(* tp3k3/lifecycle.py: which kernel events of a run with experimental      *)
(* containers and a restore of the protected services are forgiven, and    *)
(* whether the run passes.  Times are integers; None is a missing time.    *)
(***************************************************************************)
EXTENDS Integers, FiniteSets

CONSTANTS
  None,
  Hosts,            \* the Sparks
  FlashHosts,       \* those whose service may retry an allocation at cold start
  RetrySpan,        \* maximum_retry_span_seconds
  ColdLimit,        \* timeout_seconds of the cold start
  MinObservation    \* minimum_observation_seconds after ready

ASSUME LifecycleAssumption ==
  /\ FlashHosts \subseteq Hosts
  /\ RetrySpan \in Nat /\ ColdLimit \in Nat /\ MinObservation \in Nat

\* An event is [host, at, kind]: "alloc" for the recoverable NVRM allocation
\* failure, "fault" for every other line the pattern matches.
Window(t, e) ==
  IF t.start <= e.at /\ e.at <= t.end THEN "candidate_runtime"
  ELSE IF t.cold <= e.at /\ (t.ready = None \/ e.at < t.ready)
    THEN "protected_flash_cold_start"
  ELSE IF t.ready # None /\ t.ready <= e.at /\ e.at <= t.postEnd THEN "post_ready"
  ELSE "unclassified_gap"

Allowed(t, e) ==
  /\ e.kind = "alloc" /\ e.host \in FlashHosts
  /\ Window(t, e) = "protected_flash_cold_start"

WindowsInOrder(t) ==
  /\ t.start < t.end /\ t.end <= t.cold /\ t.cold < t.postEnd
  /\ t.ready # None /\ t.cold < t.ready /\ t.ready <= t.postEnd

Timely(t, events) ==
  /\ t.ready - t.cold <= ColdLimit
  /\ t.postEnd - t.ready >= MinObservation
  /\ \A d, e \in {x \in events : Allowed(t, x)} : d.at - e.at <= RetrySpan

\* containers: the state of each protected service after the observation, and
\* its restart count before and after; death: a service was seen down while
\* the start was polled; health and generation: the last answers.
ServicesHold(s) ==
  /\ \A h \in Hosts : /\ s.containers[h].running /\ ~s.containers[h].oom
                      /\ s.containers[h].before = s.containers[h].after
  /\ ~s.death /\ s.health /\ s.generation

\* evaluate_lifecycle's "passed": no reason to fail.
EvaluateLifecycle(t, events, s) ==
  /\ WindowsInOrder(t) /\ Timely(t, events)
  /\ \A e \in events : Allowed(t, e)
  /\ ServicesHold(s)

\* kernel_audit.py queries the journal for the span of the timeline.
Collected(t, journal) == {e \in journal : t.start <= e.at /\ e.at <= t.postEnd}
=============================================================================

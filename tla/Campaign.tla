-------------------------------- MODULE Campaign --------------------------------
(***************************************************************************)
(* A campaign of output-scale experiments on a serving candidate.          *)
(* quality_scale_campaign.py, on the control host, gives the three ranks a *)
(* control file, has each evaluation window captured by                    *)
(* capture_matched_logits.py, and scores the captures.  In the ranks,      *)
(* quality_experiment_patch.py loads the control and rescales the stored   *)
(* vectors of a layer when the layer is next used; tp3_logit_capture_patch *)
(* writes the logits of rank 0 while a file ARM.json is there.             *)
(* The endpoint serves one request at a time; a prompt is served in chunks *)
(* each of which passes the layers, the ranks of a layer in any order.  A  *)
(* chunk's logits are one row for sampling and then, if the client asked   *)
(* for prompt logprobs, BatchRows rows.                                    *)
(* "mutant" marks a plausible bug a property would notice.                 *)
(***************************************************************************)
EXTENDS Geometry, FiniteSets, SequencesExt

CONSTANTS
  Nil,
  Variants,        \* the variants in the order of the sweep; the first scales nothing
  Windows,         \* Windows[stage]: the windows of "development" and "confirmation"
  LastLayer,       \* the routed layers are 3..LastLayer
  Chunks,          \* chunks of a window's prompt
  MaxQueue,        \* bound: requests waiting at the endpoint
  MaxRuns,         \* bound: starts of the campaign
  MaxMishaps       \* bound: failing commands, kills, requests of other clients

Stages == {"development", "confirmation"}
AllWindows == UNION {ToSet(Windows[stage]) : stage \in Stages}
ScaledLayers == 3 .. LastLayer

Baseline == Variants[1]
Gains(variant) == IF variant = Baseline THEN "one" ELSE variant
AllGains == {Gains(variant) : variant \in ToSet(Variants)}

Tokens == AllWindows \cup {"other"}              \* of a prompt
LogitRows == [tokens : Tokens, pos : Nat, gains : SUBSET AllGains]
Parts == Seq(Seq(LogitRows))                     \* the files of a capture
Sinks == [id : Nat, rows : Nat, parts : Parts]   \* a capture that is being written

\* Another client's prompt is no window of the evaluation.
ASSUME CampaignAssumption ==
  /\ Variants \in Seq(ToSet(Variants)) /\ Len(Variants) > 0
  /\ \A stage \in Stages : Windows[stage] \in Seq(AllWindows)
  /\ "other" \notin AllWindows /\ Nil \notin Parts \cup Sinks
  /\ LastLayer \in ROUTED_LAYERS
  /\ Chunks \in Nat \ {0} /\ {MaxQueue, MaxRuns, MaxMishaps} \subseteq Nat

BatchRows == 2
PromptRows == Chunks * BatchRows                 \* 2047 in the code
OneRowMore == PromptRows + Chunks + 1             \* mutant: a capture is never sealed
ExpectedRows == PromptRows + Chunks              \* with the sampled rows: 2055, 2063

VARIABLES
  pc, todo,      \* the controller, and the ranks its set_control has left
  item,          \* [stage, variant] in work
  window,        \* which of the item's windows
  control,       \* the control it sets: [id, gains]
  best,          \* the variant chosen after development
  results,       \* the items scored
  id,            \* captures armed so far; the last is the controller's
  answered,      \* the capture whose completion request was answered last
  evidence,      \* evidence[stage, variant, window]: the parts received, or Nil
  file, loaded, ack,  \* per rank: the control file, the control in force, the receipt
  version, applied, \* per rank and layer: the control applied, the gains in the vectors
  job, queue,    \* the request served and those waiting
  tap,           \* rank 0: [arm, sink, sealed] of the logit capture
  mishaps, runs

itemVars == <<item, window, best, results, evidence>>
rankVars == <<file, loaded, ack, version, applied>>
engineVars == <<job, queue, tap, answered>>
campaignVars == <<pc, todo, control, id, mishaps, runs, itemVars, rankVars, engineVars>>

Items == [stage : Stages, variant : ToSet(Variants)]
First == [stage |-> "development", variant |-> Baseline]
Identity(name) == [id |-> <<"identity", name>>, gains |-> "one"]
ControlOf(i) == [id |-> <<i.stage, i.variant>>, gains |-> Gains(i.variant)]
Controls == {Identity(name) : name \in {"start", "after-sweep", "after-failure"}}
            \cup {ControlOf(i) : i \in Items}
Requests == [own : Nat, tokens : Tokens, echo : BOOLEAN, chunk : 1 .. Chunks,
             layer : ScaledLayers, ran : SUBSET Ranks, gains : SUBSET AllGains, free : BOOLEAN]
Ended == {"complete", "failed", "killed"}

Least(S) == CHOOSE r \in S : \A q \in S : r <= q

CampaignTypeOK ==
  /\ pc \in {"next", "control", "window", "arm", "request", "wait", "poll", "fetch",
             "ack", "score", "handover", "except"} \cup Ended
  /\ todo \subseteq Ranks /\ window \in Nat \ {0} /\ item \in Items
  /\ best \in ToSet(Variants) \cup {Nil} /\ results \in Seq(Items)
  /\ id \in Nat /\ answered \in Nat
  /\ evidence \in [Stages \X ToSet(Variants) \X AllWindows -> Parts \cup {Nil}]
  /\ control \in Controls /\ {file, loaded, ack} \subseteq [Ranks -> Controls]
  /\ version \in [Ranks -> [ScaledLayers -> {c.id : c \in Controls}]]
  /\ applied \in [Ranks -> [ScaledLayers -> AllGains]]
  /\ job \in Requests \cup {Nil} /\ queue \in Seq(Requests)
  /\ tap \in [arm : Nat \cup {Nil},
              sink : Sinks \cup {Nil},
              sealed : [id : Nat, parts : Parts] \cup {Nil}]
  /\ mishaps \in Nat /\ runs \in Nat

CampaignInit ==
  /\ pc = "next" /\ todo = {} /\ item = First /\ window = 1 /\ control = Identity("start")
  /\ best = Nil /\ results = <<>> /\ id = 0 /\ answered = 0
  /\ evidence = [k \in Stages \X ToSet(Variants) \X AllWindows |-> Nil]
  /\ file = [r \in Ranks |-> control] /\ loaded = file /\ ack = file
  /\ version = [r \in Ranks |-> [layer \in ScaledLayers |-> control.id]]
  /\ applied = [r \in Ranks |-> [layer \in ScaledLayers |-> "one"]]
  /\ job = Nil /\ queue = <<>> /\ tap = [arm |-> Nil, sink |-> Nil, sealed |-> Nil]
  /\ mishaps = 0 /\ runs = 1

Mishap == mishaps < MaxMishaps /\ mishaps' = mishaps + 1

-----------------------------------------------------------------------------
(* quality_scale_campaign.py *)

Sweep == Len(results) < Len(Variants)
Confirmed == IF best = Baseline THEN <<Baseline>> ELSE <<Baseline, best>>
Done == best # Nil /\ Len(results) = Len(Variants) + Len(Confirmed)
NextItem ==
  IF Sweep THEN [stage |-> "development", variant |-> Variants[Len(results) + 1]]
  ELSE [stage |-> "confirmation", variant |-> Confirmed[Len(results) - Len(Variants) + 1]]

\* The least development score; any variant may have it.
Choose ==
  /\ pc = "next" /\ ~Sweep /\ best = Nil
  /\ best' \in ToSet(Variants)
  /\ UNCHANGED <<pc, todo, control, id, mishaps, runs, item, window, results, evidence,
                 rankVars, engineVars>>

StartItem ==
  /\ pc = "next" /\ (Sweep \/ best # Nil) /\ ~Done
  /\ item' = NextItem /\ window' = 1
  /\ control' = ControlOf(NextItem)
  /\ pc' = "control" /\ todo' = Ranks
  /\ UNCHANGED <<id, mishaps, runs, best, results, evidence, rankVars, engineVars>>

\* The endpoint is handed back with the identity control.
KeepBest == control                              \* mutant: the winner stays loaded
AfterSweep == Identity("after-sweep")
HandOver ==
  /\ pc = "next" /\ Done
  /\ control' = AfterSweep /\ pc' = "handover" /\ todo' = Ranks
  /\ UNCHANGED <<id, mishaps, runs, itemVars, rankVars, engineVars>>

\* set_control, rank after rank; each file is replaced atomically.
SetControl(r) ==
  /\ pc \in {"control", "handover", "except"} /\ r \in todo /\ r = Least(todo)
  /\ file' = [file EXCEPT ![r] = control]
  /\ todo' = todo \ {r}
  /\ pc' = IF todo # {r} THEN pc ELSE
             CASE pc = "control" -> "window" [] pc = "handover" -> "complete"
               [] pc = "except" -> "failed"
  /\ UNCHANGED <<control, id, mishaps, runs, itemVars, loaded, ack, version, applied, engineVars>>

\* capture_window: evidence that is there is not captured again.
Key == <<item.stage, item.variant, Windows[item.stage][window]>>
CaptureWindow ==
  /\ pc = "window"
  /\ IF window > Len(Windows[item.stage])
       THEN /\ pc' = IF item.stage = "development" THEN "ack" ELSE "score"
            /\ UNCHANGED window
       ELSE IF evidence[Key] # Nil THEN window' = window + 1 /\ UNCHANGED pc
       ELSE pc' = "arm" /\ UNCHANGED window
  /\ UNCHANGED <<todo, control, id, mishaps, runs, item, best, results, evidence, rankVars,
                 engineVars>>

\* Every rank's receipt names the digest of the control, or the campaign fails.
Except ==
  /\ control' = Identity("after-failure") /\ pc' = "except" /\ todo' = Ranks
Acknowledge ==
  /\ pc = "ack"
  /\ IF \A r \in Ranks : ack[r] = control THEN pc' = "score" /\ UNCHANGED <<todo, control>>
                                          ELSE Except
  /\ UNCHANGED <<id, mishaps, runs, itemVars, rankVars, engineVars>>

\* score_windows and the audit of the ranks.
Score ==
  /\ pc = "score" /\ results' = Append(results, item) /\ pc' = "next"
  /\ UNCHANGED <<todo, control, id, mishaps, runs, item, window, best, evidence, rankVars,
                 engineVars>>

\* A command fails, a capture at its deadline for one.  If it is one of the
\* handler's own, the handler ends.
CommandFails ==
  /\ pc \notin Ended /\ Mishap
  /\ IF pc = "except" THEN pc' = "failed" /\ UNCHANGED <<todo, control>> ELSE Except
  /\ UNCHANGED <<id, runs, itemVars, rankVars, engineVars>>

Killed ==
  /\ pc \notin Ended /\ Mishap /\ pc' = "killed"
  /\ UNCHANGED <<todo, control, id, runs, itemVars, rankVars, engineVars>>

\* The pipeline is started again over the evidence it has, by a person and so
\* after the endpoint has dropped the request a capture that died has left.
Rerun ==
  /\ pc \in {"failed", "killed"} /\ runs < MaxRuns
  /\ \A n \in DOMAIN queue : queue[n].own = 0
  /\ job # Nil => job.own = 0
  /\ runs' = runs + 1 /\ pc' = "next" /\ todo' = {} /\ results' = <<>> /\ best' = Nil
  /\ job' = IF job = Nil THEN Nil ELSE [job EXCEPT !.free = FALSE]
  /\ UNCHANGED <<control, id, mishaps, item, window, evidence, rankVars, queue, tap, answered>>

-----------------------------------------------------------------------------
(* capture_matched_logits.py *)

Request(own, tokens, echo) ==
  [own |-> own, tokens |-> tokens, echo |-> echo, chunk |-> IF echo THEN 1 ELSE Chunks,
   layer |-> 3, ran |-> {}, gains |-> {}, free |-> FALSE]

\* An arm that is there is another capture's, perhaps one that never completed.
Arm ==
  /\ pc = "arm"
  /\ IF tap.arm = Nil
       THEN /\ id' = id + 1 /\ tap' = [tap EXCEPT !.arm = id + 1]
            /\ pc' = "request" /\ UNCHANGED <<todo, control>>
       ELSE Except /\ UNCHANGED <<id, tap>>
  /\ UNCHANGED <<mishaps, runs, itemVars, rankVars, job, queue, answered>>

SendRequest ==
  /\ pc = "request" /\ pc' = "wait"
  /\ queue' = Append(queue, Request(id, Windows[item.stage][window], TRUE))
  /\ UNCHANGED <<todo, control, id, mishaps, runs, itemVars, rankVars, job, tap, answered>>

Receive ==
  /\ pc = "wait" /\ answered = id /\ pc' = "poll"
  /\ UNCHANGED <<todo, control, id, mishaps, runs, itemVars, rankVars, engineVars>>

Sealed == tap.sealed # Nil /\ tap.sealed.id = id

Poll ==
  /\ pc = "poll" /\ Sealed /\ pc' = "fetch"
  /\ UNCHANGED <<todo, control, id, mishaps, runs, itemVars, rankVars, engineVars>>

\* normalize_scheduler_singletons drops every part of one row.
Normalized(parts) ==
  LET rows[n \in 0 .. Len(parts)] ==
        IF n = 0 THEN <<>>
        ELSE IF Len(parts[n]) > 1 THEN rows[n - 1] \o parts[n] ELSE rows[n - 1]
  IN rows[Len(parts)]
IsRow(row, w, p) == row.tokens = w /\ row.pos = p

\* The rows must be as many as the prompt's, and the first, the middle and the
\* last agree with the response.  (Gains may shift a logprob by less than the
\* tolerance, so they are not looked at.)
CountOnly(parts, w) == Len(Normalized(parts)) = PromptRows    \* mutant: rows only counted
Ordered(parts, w) ==
  LET rows == Normalized(parts)
  IN /\ Len(rows) = PromptRows
     /\ \A p \in {1, (PromptRows + 1) \div 2, PromptRows} : IsRow(rows[p], w, p)

Fetch ==
  /\ pc = "fetch" /\ Sealed
  /\ IF evidence[Key] = Nil /\ Ordered(tap.sealed.parts, Windows[item.stage][window])
       THEN /\ evidence' = [evidence EXCEPT ![Key] = tap.sealed.parts]
            /\ window' = window + 1 /\ pc' = "window" /\ UNCHANGED <<todo, control>>
       ELSE Except /\ UNCHANGED <<evidence, window>>
  /\ UNCHANGED <<id, mishaps, runs, item, best, results, rankVars, engineVars>>

-----------------------------------------------------------------------------
(* The endpoint *)

\* Other clients: with prompt logprobs or without.
OtherRequest ==
  /\ Mishap /\ Len(queue) < MaxQueue
  /\ \E echo \in BOOLEAN : queue' = Append(queue, Request(0, "other", echo))
  /\ UNCHANGED <<pc, todo, control, id, runs, itemVars, rankVars, job, tap, answered>>

StartRequest ==
  /\ job = Nil /\ queue # <<>>
  /\ job' = [Head(queue) EXCEPT !.free = pc = "complete" \/ (pc = "failed" /\ todo = {})]
  /\ queue' = Tail(queue)
  /\ UNCHANGED <<pc, todo, control, id, mishaps, runs, itemVars, rankVars, tap, answered>>

\* The server may drop the request of a client that has gone.
Abandoned(request) == request.own # 0 /\ ~(pc = "wait" /\ request.own = id)
DropRequest ==
  /\ \/ job # Nil /\ Abandoned(job) /\ job' = Nil /\ UNCHANGED queue
     \/ queue # <<>> /\ Abandoned(Head(queue)) /\ queue' = Tail(queue) /\ UNCHANGED job
  /\ UNCHANGED <<pc, todo, control, id, mishaps, runs, itemVars, rankVars, tap, answered>>

\* apply_stored_scales: the new vectors are computed from the originals.
InPlace(old, gains) == IF old = "one" \/ gains = old THEN gains ELSE "compound"  \* mutant:
                                                 \* they are scaled once more
Rescaled(old, gains) == gains

\* A rank runs the layer: at the first it reads its control file again.
RunLayer(r) ==
  /\ job # Nil /\ r \notin job.ran
  /\ LET layer == job.layer
         now == IF layer = 3 THEN file[r] ELSE loaded[r]
         gains == IF version[r][layer] = now.id THEN applied[r][layer]
                  ELSE Rescaled(applied[r][layer], now.gains)
     IN /\ loaded' = [loaded EXCEPT ![r] = now]
        /\ ack' = [ack EXCEPT ![r] = now]
        /\ version' = [version EXCEPT ![r][layer] = now.id]
        /\ applied' = [applied EXCEPT ![r][layer] = gains]
        /\ job' = [job EXCEPT !.ran = @ \cup {r}, !.gains = @ \cup {gains}]
  /\ UNCHANGED <<pc, todo, control, id, mishaps, runs, itemVars, file, queue, tap, answered>>

\* The ranks' outputs are added up before the next layer.
NextLayer ==
  /\ job # Nil /\ job.ran = Ranks /\ job.layer # LastLayer
  /\ job' = [job EXCEPT !.layer = @ + 1, !.ran = {}]
  /\ UNCHANGED <<pc, todo, control, id, mishaps, runs, itemVars, rankVars, queue, tap, answered>>

\* tp3_logit_capture_patch._capture for one call with the rows given: they go
\* to the capture that is armed, which is sealed when it has all its rows.  The seal
\* and the removal of the arm are one step: both come before the answer of the
\* request, and the controller looks at neither until it has that answer.
Capture(t, rows) ==
  IF t.arm = Nil THEN t
  ELSE LET sink == IF t.sink # Nil /\ t.sink.id = t.arm THEN t.sink
                   ELSE [id |-> t.arm, rows |-> 0, parts |-> <<>>]
           left == ExpectedRows - sink.rows
           take == IF Len(rows) < left THEN Len(rows) ELSE left
           now == Append(sink.parts, SubSeq(rows, 1, take))
       IN IF take = left
            THEN [arm |-> Nil, sink |-> Nil, sealed |-> [id |-> t.arm, parts |-> now]]
            ELSE [t EXCEPT !.sink = [id |-> t.arm, rows |-> sink.rows + take, parts |-> now]]

Row(p) == [tokens |-> job.tokens, pos |-> p, gains |-> job.gains]
Batch == [n \in 1 .. BatchRows |-> Row((job.chunk - 1) * BatchRows + n)]

\* The logits of the chunk; the last chunk's token answers the request.
Emit ==
  /\ job # Nil /\ job.ran = Ranks /\ job.layer = LastLayer
  /\ LET sampled == Capture(tap, <<Row(0)>>)
     IN tap' = IF job.echo THEN Capture(sampled, Batch) ELSE sampled
  /\ IF job.chunk < Chunks
       THEN job' = [job EXCEPT !.chunk = @ + 1, !.layer = 3, !.ran = {}] /\ UNCHANGED answered
       ELSE job' = Nil /\ answered' = IF job.own # 0 THEN job.own ELSE answered
  /\ UNCHANGED <<pc, todo, control, id, mishaps, runs, itemVars, rankVars, queue>>

\* The operator removes an arm that a failed campaign has left.
ClearArm ==
  /\ pc \in {"failed", "killed"} /\ tap.arm # Nil
  /\ tap' = [tap EXCEPT !.arm = Nil]
  /\ UNCHANGED <<pc, todo, control, id, mishaps, runs, itemVars, rankVars, job, queue, answered>>

-----------------------------------------------------------------------------
Controller ==
  \/ Choose \/ StartItem \/ HandOver \/ CaptureWindow \/ Acknowledge \/ Score
  \/ Arm \/ SendRequest \/ Receive \/ Poll \/ Fetch
  \/ \E r \in Ranks : SetControl(r)

Endpoint == StartRequest \/ NextLayer \/ Emit \/ \E r \in Ranks : RunLayer(r)

CampaignNext ==
  \/ Controller \/ CommandFails \/ Killed \/ Rerun
  \/ Endpoint \/ OtherRequest \/ DropRequest \/ ClearArm

CampaignSpec == CampaignInit /\ [][CampaignNext]_campaignVars

\* The controller and the endpoint run on.
CampaignFairSpec == CampaignSpec /\ WF_campaignVars(Controller) /\ WF_campaignVars(Endpoint)

-----------------------------------------------------------------------------
(* Properties *)

\* Evidence of a window is exactly the logits of that window's prompt, in
\* order, whatever else the endpoint served while the capture was armed and
\* whatever earlier captures were left behind.
EvidenceIsItsWindow ==
  \A k \in DOMAIN evidence : evidence[k] # Nil =>
    LET rows == Normalized(evidence[k])
    IN Len(rows) = PromptRows /\ \A p \in 1 .. PromptRows : IsRow(rows[p], k[3], p)

\* A score belongs to the control it names: every row it was computed from was
\* served with the variant's gains in every layer of every rank.
ScoresBelongToTheirControl ==
  \A n \in 1 .. Len(results) : \A w \in ToSet(Windows[results[n].stage]) :
    LET parts == evidence[<<results[n].stage, results[n].variant, w>>]
    IN /\ parts # Nil
       /\ \A row \in ToSet(Normalized(parts)) : row.gains = {Gains(results[n].variant)}

\* Once the campaign has completed, or has failed and reset the control on all
\* ranks, whoever uses the endpoint next gets the unscaled model.
HandedOverServesIdentity ==
  job # Nil /\ job.free => job.gains \subseteq {"one"}

\* An undisturbed campaign completes: every capture is sealed, every receipt is
\* refreshed by the requests of its own windows, no capture is left armed.
UndisturbedCompletes == <>(pc = "complete" \/ mishaps > 0)
=============================================================================

------------------------------ MODULE DeviceRing ------------------------------
(***************************************************************************)
(* Build-ahead without multi-token prediction, for several requests: the   *)
(* batch scheduler that launches a second ScheduleOutput before the first  *)
(* has come back, the Preprocess thread that builds a batch for one of two *)
(* ModelInput slots, and the Execute thread that replaces placeholders     *)
(* from the device ring of the other slot, samples, and writes its ring.   *)
(*                                                                         *)
(* A request is InferRequest without drafts, kept always one step ahead    *)
(* (its Bubbles = FALSE), so that every decode step ends in a placeholder. *)
(* The text of request r is <<r, 1>>, <<r, 2>>, ...; the model continues   *)
(* <<r, p>> by <<r, p + 1>> and samples Garbage behind any other token.    *)
(***************************************************************************)
EXTENDS Integers, Sequences, FiniteSets, SequencesExt

CONSTANTS
  Requests,      \* request ids
  PromptLen,     \* length of every prompt
  EosPositions,  \* positions at which a text may end
  MaxRecompute,  \* how often a request is recomputed, over all requests (bound)
  MixChunks,     \* TRUE: a batch may hold a prompt's inner chunk beside
                 \* requests that sample
  Replay         \* TRUE: a request may be recomputed while an output that
                 \* planned a step for it waits to be launched

ASSUME DeviceRingAssumption ==
  /\ Requests \subseteq Nat \ {0}
  /\ IsFiniteSet(Requests)
  /\ PromptLen \in Nat \ {0}
  /\ EosPositions \subseteq Nat
  /\ \A e \in EosPositions : e > PromptLen
  /\ MaxRecompute \in Nat
  /\ MixChunks \in BOOLEAN
  /\ Replay \in BOOLEAN

VARIABLES
  req,          \* the Engine's requests
  eos,          \* where each text ends
  planned,      \* running_reqs of the output that waits to be launched
  executor_pipeline_depth,
  finish_ids, recompute_ids, \* what the next output tells the executor to drop
  recomputes

engine == <<req, eos, planned, executor_pipeline_depth, finish_ids,
            recompute_ids, recomputes>>

VARIABLES
  schedule_output_queue,  \* FIFO Engine -> Preprocess
  req_cache,              \* the shared ExecutorInferRequests: r's newest step
  resources,              \* requests that own their per-request resources
  cur_ring_slot,
  input_slot,             \* two ModelInputs: <<request, last input token>>
  model_input_queue       \* FIFO Preprocess -> Execute

preprocess == <<req_cache, resources, cur_ring_slot, input_slot>>

VARIABLES
  output,         \* the NewModelOutput between Forward and HandlePostprocess
  device_tokens,  \* device_output_tokens of the two slots
  ring,           \* the two device rings: <<request, token>> pairs
  results         \* FIFO Execute -> Engine

execute == <<output, device_tokens, ring>>
vars == <<engine, schedule_output_queue, preprocess, model_input_queue, execute,
          results>>

Placeholder == <<0, 0>>
Garbage == <<0, 1>>
kExecutorPipelineMaxDepth == 2
max_depth == 2

NoTask == -1
NoPlan == {}
NoStep == [kind |-> "none", len |-> 0, kv |-> 0, sampling |-> 0,
           last |-> Garbage, offset |-> 0]
NoOutput == [slot |-> -1, reqs |-> <<>>, steps |-> <<>>, offsets |-> <<>>,
             inputs |-> <<>>, logits |-> <<>>, hidden |-> 0]

Text(r, n) == [p \in 1..n |-> <<r, p>>]

Init ==
  /\ eos \in [Requests -> EosPositions]
  /\ req = [r \in Requests |->
       [out |-> Text(r, PromptLen), prefilling |-> PromptLen, left |-> PromptLen,
        task |-> NoTask, fwd |-> 0, inflight |-> <<>>,
        stopped |-> FALSE, ended |-> FALSE]]
  /\ planned = NoPlan
  /\ executor_pipeline_depth = 0
  /\ finish_ids = {} /\ recompute_ids = {}
  /\ recomputes = 0
  /\ schedule_output_queue = <<>>
  /\ req_cache = [r \in Requests |-> NoStep]
  /\ resources = {}
  /\ cur_ring_slot = 0
  /\ input_slot = [s \in 0..1 |-> <<>>]
  /\ model_input_queue = <<>>
  /\ output = NoOutput
  /\ device_tokens = [s \in 0..1 |-> [i \in 1..Cardinality(Requests) |-> Garbage]]
  /\ ring = [s \in 0..1 |-> <<>>]
  /\ results = <<>>

-----------------------------------------------------------------------------
(***************************************************************************)
(* Engine: planning.  A task is the number of prompt tokens it forwards, 0  *)
(* for a decode step.  The strategy is not in the repository; it keeps      *)
(* every request that samples one step ahead.                              *)
(***************************************************************************)

HasPlanningTask(r) == req[r].task # NoTask

MidChunk(r, n) == n > 0 /\ n < req[r].left

Tasks(r) ==
  IF req[r].left > 0 THEN 1..req[r].left
  ELSE IF req[r].inflight # <<>> THEN {0} ELSE {}

Plannable(r) ==
  /\ ~req[r].stopped /\ ~req[r].ended /\ ~HasPlanningTask(r)
  /\ Tasks(r) # {}

\* The newest step in flight samples, so the next output must go on with r.
MustContinue(r) ==
  /\ Plannable(r)
  /\ req[r].inflight # <<>>
  /\ Last(req[r].inflight) # "prefill_chunk_mid"

Schedule ==
  /\ planned = NoPlan
  /\ \E S \in SUBSET {r \in Requests : Plannable(r)} :
       /\ S # {}
       /\ \A r \in Requests : MustContinue(r) => r \in S
       /\ \E task \in [S -> 0..Max({PromptLen} \cup {req[r].left : r \in S})] :
            /\ \A r \in S : task[r] \in Tasks(r)
            /\ \/ MixChunks
               \/ \A r \in S : MidChunk(r, task[r])
               \/ \A r \in S : ~MidChunk(r, task[r])
            /\ planned' = S
            /\ req' = [r \in Requests |-> IF r \in S
                 THEN [req[r] EXCEPT !.task = task[r], !.left = @ - task[r]]
                 ELSE req[r]]
  /\ UNCHANGED <<eos, executor_pipeline_depth, finish_ids, recompute_ids,
                 recomputes, schedule_output_queue, preprocess,
                 model_input_queue, execute, results>>

-----------------------------------------------------------------------------
(***************************************************************************)
(* Engine: TryToLaunchPlannedScheduleOutput.                               *)
(***************************************************************************)

Stopped(S) == {r \in S : req[r].stopped}
Launching(S) == {r \in S : ~req[r].stopped /\ HasPlanningTask(r)}

IsLaunchable(S) ==
  /\ Launching(S) # {}
  /\ \A r \in Launching(S) : Len(req[r].inflight) < max_depth

PipelineFull_OneTooMany == executor_pipeline_depth > kExecutorPipelineMaxDepth
PipelineFull == executor_pipeline_depth >= kExecutorPipelineMaxDepth

\* LaunchPlanningTask: the snapshot of the launched step.
LaunchedStep(r) ==
  LET q == req[r]
      n == IF q.task = 0 THEN q.fwd + 1 ELSE q.fwd + q.task
      kind == IF q.task = 0 THEN "decode"
              ELSE IF n < q.prefilling THEN "prefill_chunk_mid" ELSE "prefill"
  IN  [kind |-> kind, len |-> n, kv |-> q.fwd,
       sampling |-> IF kind = "prefill_chunk_mid" THEN 0 ELSE 1,
       last |-> IF q.task = 0 THEN Placeholder ELSE q.out[n], offset |-> 0]

\* A running request that has nothing to launch is sent without a snapshot,
\* as it is: just reset.
LiveStep(r) ==
  [kind |-> "prefill", len |-> 0, kv |-> 0, sampling |-> 1, last |-> Garbage,
   offset |-> 0]

\* Stopped requests leave the output even if it then has to wait.
DropStopped ==
  /\ IsLaunchable(planned)
  /\ PipelineFull
  /\ Stopped(planned) # {}
  /\ planned' = planned \ Stopped(planned)
  /\ UNCHANGED <<req, eos, executor_pipeline_depth, finish_ids, recompute_ids,
                 recomputes, schedule_output_queue, preprocess,
                 model_input_queue, execute, results>>

TryToLaunchPlannedScheduleOutput ==
  LET running == planned \ Stopped(planned)
      launched == Launching(planned)
  IN  /\ IsLaunchable(planned)
      /\ ~PipelineFull
      /\ schedule_output_queue' = Append(schedule_output_queue,
           [steps |-> [r \in running |->
                         IF r \in launched THEN LaunchedStep(r) ELSE LiveStep(r)],
            finish |-> finish_ids, recompute |-> recompute_ids])
      /\ req' = [r \in Requests |-> IF r \in launched
           THEN [req[r] EXCEPT !.task = NoTask,
                               !.fwd = LaunchedStep(r).len,
                               !.inflight = Append(@, LaunchedStep(r).kind)]
           ELSE req[r]]
      /\ executor_pipeline_depth' = executor_pipeline_depth + 1
      /\ planned' = NoPlan
      /\ finish_ids' = {} /\ recompute_ids' = {}
      /\ UNCHANGED <<eos, recomputes, preprocess, model_input_queue, execute,
                     results>>

\* The ScheduleProcessor drops an output nothing of which can be launched.
DropStaleOutput ==
  /\ planned # NoPlan
  /\ Launching(planned) = {}
  /\ planned' = NoPlan
  /\ UNCHANGED <<req, eos, executor_pipeline_depth, finish_ids, recompute_ids,
                 recomputes, schedule_output_queue, preprocess,
                 model_input_queue, execute, results>>

-----------------------------------------------------------------------------
(***************************************************************************)
(* Engine: an output comes back.                                           *)
(***************************************************************************)

\* UpdateAfterInflightTaskFinished and ResetInflightTask of request r.
Retired(r, gen) ==
  LET q == req[r]
      discard == q.ended \/ Head(q.inflight) = "prefill_chunk_mid"
      out == IF discard THEN q.out ELSE q.out \o gen
      ended == q.ended \/ Last(out) = <<r, eos[r]>>
  IN  [q EXCEPT !.out = out, !.ended = ended, !.stopped = @ \/ ended,
                !.inflight = Tail(@)]

\* The next step of r was launched behind a sampling one, or never will be.
LaunchedAhead(r) ==
  \/ req[r].stopped
  \/ Head(req[r].inflight) = "prefill_chunk_mid"
  \/ Len(req[r].inflight) = max_depth

DepthAfterReturn_Leaked == executor_pipeline_depth
DepthAfterReturn ==
  IF executor_pipeline_depth > 0 THEN executor_pipeline_depth - 1 ELSE 0

UpdateWithGenerationResult ==
  LET gen == Head(results)
      back == {r \in DOMAIN gen : req[r].inflight # <<>>}
  IN  /\ results # <<>>
      /\ \A r \in back : LaunchedAhead(r)
      /\ executor_pipeline_depth' = DepthAfterReturn
      /\ req' = [r \in Requests |-> IF r \in back THEN Retired(r, gen[r])
                                                   ELSE req[r]]
      /\ finish_ids' = finish_ids \cup
           {r \in back : req'[r].ended /\ req'[r].inflight = <<>>}
      /\ results' = Tail(results)
      /\ UNCHANGED <<eos, planned, recompute_ids, recomputes,
                     schedule_output_queue, preprocess, model_input_queue,
                     execute>>

\* Block pressure: r drains and is then prefilled again (one request at a time).
Stop(r) ==
  /\ recomputes < MaxRecompute
  /\ ~req[r].stopped
  /\ req[r].inflight # <<>> /\ \A i \in DOMAIN req[r].inflight :
                                 req[r].inflight[i] = "decode"
  /\ \A x \in Requests \ {r} : ~req[x].stopped \/ req[x].ended
  /\ req' = [req EXCEPT ![r].stopped = TRUE]
  /\ UNCHANGED <<eos, planned, executor_pipeline_depth, finish_ids,
                 recompute_ids, recomputes, schedule_output_queue, preprocess,
                 model_input_queue, execute, results>>

Recompute(r) ==
  /\ req[r].stopped /\ ~req[r].ended
  /\ req[r].inflight = <<>>
  /\ Replay \/ r \notin planned
  /\ req' = [req EXCEPT ![r] =
       [@ EXCEPT !.prefilling = Len(req[r].out), !.left = Len(req[r].out),
                 !.task = NoTask, !.fwd = 0, !.stopped = FALSE]]
  /\ recompute_ids' = recompute_ids \cup {r}
  /\ recomputes' = recomputes + 1
  /\ UNCHANGED <<eos, planned, executor_pipeline_depth, finish_ids,
                 schedule_output_queue, preprocess, model_input_queue, execute,
                 results>>

-----------------------------------------------------------------------------
(***************************************************************************)
(* Preprocess thread: one iteration of HandlePreprocess, both H2D streams   *)
(* enabled.                                                                *)
(***************************************************************************)

\* ReorderInferRequestsBuildAhead: what is not paged first, longer inputs
\* first, then less cached tokens, then the smaller id.
IsPaged(s) == s.len - s.kv = 1 /\ s.kv > 0

Before(steps, a, b) ==
  LET sa == steps[a]  sb == steps[b]
      na == sa.len - sa.kv  nb == sb.len - sb.kv
  IN  \/ ~IsPaged(sa) /\ IsPaged(sb)
      \/ /\ IsPaged(sa) = IsPaged(sb)
         /\ \/ na > nb
            \/ na = nb /\ sa.kv < sb.kv
            \/ na = nb /\ sa.kv = sb.kv /\ a < b

Reordered(steps) ==
  {order \in [1..Cardinality(DOMAIN steps) -> DOMAIN steps] :
     /\ ToSet(order) = DOMAIN steps
     /\ \A i, j \in DOMAIN order : i < j => Before(steps, order[i], order[j])}

\* ResetLogitsOffsetsAfterReorder: where each request's logits start.
LogitsOffsets(order, steps) ==
  [i \in DOMAIN order |->
     SumFunctionOnSet([j \in DOMAIN order |-> steps[order[j]].sampling], 1..i - 1)]

\* ProcessScheduleOutput frees what finished or is recomputed, then gives every
\* running request its own.
AfterProcess_AllocFirst(o) ==
  (resources \cup DOMAIN o.steps) \ (o.finish \cup o.recompute)
AfterProcess(o) ==
  (resources \ (o.finish \cup o.recompute)) \cup DOMAIN o.steps

NextSlot_Same == cur_ring_slot
NextSlot == 1 - cur_ring_slot

\* The elements of s at the indices in T, in their order.
Selected(s, T) ==
  [i \in 1..Cardinality(T) |-> s[CHOOSE j \in T : Cardinality(T \cap 1..j) = i]]

\* PrepareInputIds: the pairs and last tokens of the requests with input.
Input(order, steps) ==
  LET some == Selected(order, {i \in DOMAIN order :
                                 steps[order[i]].len > steps[order[i]].kv})
  IN  [i \in DOMAIN some |-> <<some[i], steps[some[i]].last>>]

HandlePreprocess ==
  LET o == Head(schedule_output_queue)
  IN  /\ schedule_output_queue # <<>>
      /\ schedule_output_queue' = Tail(schedule_output_queue)
      /\ resources' = AfterProcess(o)
      /\ cur_ring_slot' = NextSlot
      /\ \E order \in Reordered(o.steps) :
           LET offsets == LogitsOffsets(order, o.steps)
           IN  /\ req_cache' = [r \in Requests |->
                    IF r \in DOMAIN o.steps
                      THEN [o.steps[r] EXCEPT !.offset =
                              offsets[SelectInSeq(order, LAMBDA x : x = r)]]
                      ELSE req_cache[r]]
               /\ input_slot' =
                    [input_slot EXCEPT ![NextSlot] = Input(order, o.steps)]
               /\ model_input_queue' = Append(model_input_queue,
                    [slot |-> NextSlot, reqs |-> order,
                     steps |-> o.steps, offsets |-> offsets])
      /\ UNCHANGED <<engine, execute, results>>

-----------------------------------------------------------------------------
(***************************************************************************)
(* Execute thread: HandleExecute up to the end of Forward.                 *)
(***************************************************************************)

HiddenTokens(steps, order) ==
  SumFunctionOnSet([i \in DOMAIN order |-> steps[order[i]].len - steps[order[i]].kv],
                   DOMAIN order)

PrevSlot_Own(slot) == slot
PrevSlot(slot) == 1 - slot

\* ReplaceLastTokenKernel: a placeholder becomes the token of its request in the
\* ring of the step before, if that ring has one.
Replace(pairs, prev) ==
  LET found(r) == {i \in DOMAIN prev : prev[i][1] = r}
  IN  [i \in DOMAIN pairs |->
         IF pairs[i][2] = Placeholder /\ found(pairs[i][1]) # {}
           THEN prev[Min(found(pairs[i][1]))]
           ELSE pairs[i]]

\* The model's answer behind request r's last input token.
NextToken(r, inputs) ==
  LET last == {inputs[i][2] : i \in {j \in DOMAIN inputs : inputs[j][1] = r}}
  IN  IF \E t \in last : t[1] = r THEN <<r, (CHOOSE t \in last : TRUE)[2] + 1>>
                                  ELSE Garbage

\* LmHead writes logits only for the requests that sample, one row after another.
Logits(m, inputs) ==
  LET rows == Selected(m.reqs, {i \in DOMAIN m.reqs :
                                  m.steps[m.reqs[i]].sampling > 0})
  IN  [i \in DOMAIN rows |-> NextToken(rows[i], inputs)]

ExecuteForward ==
  LET m == Head(model_input_queue)
      inputs == Replace(input_slot[m.slot], ring[PrevSlot(m.slot)])
  IN  /\ output = NoOutput
      /\ model_input_queue # <<>>
      /\ model_input_queue' = Tail(model_input_queue)
      /\ output' = [slot |-> m.slot, reqs |-> m.reqs, steps |-> m.steps,
                    offsets |-> m.offsets, inputs |-> inputs,
                    logits |-> Logits(m, inputs),
                    hidden |-> HiddenTokens(req_cache, m.reqs)]
      /\ UNCHANGED <<engine, schedule_output_queue, preprocess, device_tokens,
                     ring, results>>

-----------------------------------------------------------------------------
(***************************************************************************)
(* Execute thread: HandlePostprocessInline.  forward_step_kind and         *)
(* sampling_token_num are read from the shared requests.                   *)
(***************************************************************************)

LiveMid(r) == req_cache[r].kind = "prefill_chunk_mid"

NeedSampling == \E i \in DOMAIN output.reqs : ~LiveMid(output.reqs[i])

FrozenOffset_Live(i) == req_cache[output.reqs[i]].offset
FrozenOffset(i) == output.offsets[i]

\* SelectTopkTokens samples the first bs rows; a row Forward did not write this
\* time holds an older step's logits.
Sampled ==
  LET bs == SumFunctionOnSet([i \in DOMAIN output.reqs |->
                                req_cache[output.reqs[i]].sampling],
                             DOMAIN output.reqs)
      old == device_tokens[output.slot]
  IN  [i \in DOMAIN old |->
         IF i > bs THEN old[i]
         ELSE IF i \in DOMAIN output.logits THEN output.logits[i] ELSE Garbage]

\* CopyProbsOutputToRequests, and nothing for what looks like an inner chunk.
Generated(tokens) ==
  [r \in ToSet(output.reqs) |->
     LET first == FrozenOffset(SelectInSeq(output.reqs, LAMBDA x : x = r))
     IN  IF LiveMid(r) THEN <<>>
         ELSE SubSeq(tokens, first + 1, first + req_cache[r].sampling)]

\* WriteRingKernel: the i-th pair of the slot gets the i-th sampled token.
RingAfter(tokens) ==
  [i \in DOMAIN input_slot[output.slot] |->
     <<input_slot[output.slot][i][1], tokens[i]>>]

HandlePostprocess ==
  LET tokens == IF NeedSampling THEN Sampled ELSE device_tokens[output.slot]
  IN  /\ output # NoOutput
      /\ device_tokens' = [device_tokens EXCEPT ![output.slot] = tokens]
      /\ ring' = IF NeedSampling /\ output.inputs # <<>>
                   THEN [ring EXCEPT ![output.slot] = RingAfter(tokens)]
                   ELSE ring
      /\ results' = Append(results, Generated(tokens))
      /\ output' = NoOutput
      /\ UNCHANGED <<engine, schedule_output_queue, preprocess,
                     model_input_queue>>

-----------------------------------------------------------------------------

Done ==
  /\ \A r \in Requests : req[r].ended
  /\ planned = NoPlan
  /\ executor_pipeline_depth = 0

Idle == Done /\ UNCHANGED vars

Next ==
  \/ Schedule
  \/ DropStopped
  \/ TryToLaunchPlannedScheduleOutput
  \/ DropStaleOutput
  \/ UpdateWithGenerationResult
  \/ \E r \in Requests : Stop(r) \/ Recompute(r)
  \/ HandlePreprocess
  \/ ExecuteForward
  \/ HandlePostprocess
  \/ Idle

Spec == Init /\ [][Next]_vars

\* The strategy plans whenever it can, recomputation waits only for the drain,
\* and every thread keeps running.
Fairness ==
  /\ WF_vars(Schedule)
  /\ WF_vars(TryToLaunchPlannedScheduleOutput)
  /\ WF_vars(DropStaleOutput)
  /\ WF_vars(UpdateWithGenerationResult)
  /\ \A r \in Requests : WF_vars(Recompute(r))
  /\ WF_vars(HandlePreprocess)
  /\ WF_vars(ExecuteForward)
  /\ WF_vars(HandlePostprocess)

FairSpec == Spec /\ Fairness

-----------------------------------------------------------------------------
\* executor_pipeline_depth counts the outputs between launch and return: the
\* two ModelInput slots, rings and launch slots of a request rely on it.
DepthCountsOutputs ==
  /\ executor_pipeline_depth =
       Len(schedule_output_queue) + Len(model_input_queue) + Len(results)
         + (IF output = NoOutput THEN 0 ELSE 1)
  /\ executor_pipeline_depth <= kExecutorPipelineMaxDepth

\* Preprocess never writes a ModelInput slot whose batch still has to be
\* forwarded, sampled and written to the ring.
SlotsIntact ==
  /\ \A i \in DOMAIN model_input_queue :
       LET m == model_input_queue[i]
       IN  input_slot[m.slot] = Input(m.reqs, m.steps)
  /\ output # NoOutput => input_slot[output.slot] = Input(output.reqs, output.steps)

\* What Forward embeds as the last token of a request is the token of its text
\* that ends the step: each placeholder has been replaced, by its own request's
\* newest sample.
ForwardsText ==
  \A i \in DOMAIN output.inputs :
    LET r == output.inputs[i][1]
    IN  output.inputs[i][2] = <<r, output.steps[r].len>>

\* Whatever overlaps, a request's output is its text and stops at its end.
OutputsAreTexts ==
  \A r \in Requests :
    /\ req[r].out = Text(r, Len(req[r].out))
    /\ Len(req[r].out) <= eos[r]

\* A request keeps its per-request resources from Preprocess until its batch
\* has been sampled, although later outputs free what finished before.
ResourcesHeld ==
  /\ \A i \in DOMAIN model_input_queue :
       ToSet(model_input_queue[i].reqs) \subseteq resources
  /\ ToSet(output.reqs) \subseteq resources

\* Nothing that a batch uses is given to another before it is sampled: neither
\* its input slot, by the Preprocess of the next but one, nor the resources of
\* its requests, by the one that drops or replaces them.
NothingReusedEarly == SlotsIntact /\ ResourcesHeld

\* Every request reaches the end of its text and the pipeline drains.
EventuallyFinished == <>[]Done

\* An output carries only what was launched with it: a request whose task was
\* consumed meanwhile is skipped by SerializeScheduleOutput.  Replay breaks it.
NoGhostPatch ==
  \A i \in DOMAIN schedule_output_queue :
    \A r \in DOMAIN schedule_output_queue[i].steps :
      req[r].inflight # <<>>

\* HandlePostprocess forwards the inner chunk of a split prompt and samples
\* nothing for it.  It reads the shared request, which Preprocess may have moved
\* on to the next chunk, and breaks it.
MidChunkNotSampled ==
  \A i \in DOMAIN output.reqs :
    HandlePostprocess /\ output.steps[output.reqs[i]].kind = "prefill_chunk_mid"
      => results'[Len(results')][output.reqs[i]] = <<>>

\* The hidden buffer has the shape of the batch Forward runs on.  GetHiddenShape
\* reads the shared requests as well, and breaks it.
HiddenShapeIsOwn ==
  output # NoOutput => output.hidden = HiddenTokens(output.steps, output.reqs)

\* What Execute reads of the shared requests behind Preprocess is its own
\* batch's: "Preprocess and Execute may overlap without overwriting each other"
\* (model_runner.cpp:355).  Either of the two reads above breaks it.
LateReadsAreOwn == [][MidChunkNotSampled /\ HiddenShapeIsOwn']_vars
===============================================================================

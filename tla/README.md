# Verifying ksanallm-build-ahead

TLA+ models, model-checking runs and proofs for the build-ahead scheduling of
`src/projects/ksanallm-build-ahead` (written `K/` below): an LLM inference
engine that launches a request's next decode step before the token of the
current one is known.

## 1. The system

A *request* is a text that grows: its prompt is forwarded in one or more chunks
(*prefill*), then each *decode* step forwards the newest token and samples the
next. The **Engine** plans and launches steps; the **Executor**, in another
process, runs them on the device and reports what it sampled.

Without build-ahead (the *slow path*) a request has one step in flight. With it
(the *fast path*) it has up to two: the second is launched with a *placeholder*
(-1) where the token of the first belongs, and the placeholder is replaced once
the token is known. Two mechanisms do that:

* **MTP serial** (multi-token prediction): a step forwards a main token and up to
  M draft tokens, of which the model accepts a prefix. The Execute thread repairs
  the placeholder block `[main | draft x M]` on the CPU, from a *host ring* that
  holds what the previous step sampled and accepted.
* **Device ring** (no drafts): a kernel writes `(request, token)` pairs into the
  ring of one of two slots behind each step, another kernel replaces the last
  placeholder of each request from the other slot's ring before the next.

### Components

| Component | Code | State | Operations | Modelled by |
|---|---|---|---|---|
| InferRequest | `K/runtime/infer_request.{h,cpp}`, `infer_stage.h` | token vectors, KV length, in-flight queue, planned task, workloads, FIFO of placeholder blocks | plan, launch, retire, stop, recompute, prefix-cache hit | `InferRequest`, `Decode` |
| ScheduleOutput | `K/runtime/schedule_output.{h,cpp}` | running requests, snapshots, ids to finish and to recompute | launchable test, launch, serialize | `ScheduleTransfer` (transfer, patches, pool), `MtpSerial`, `DeviceRing` (not the byte layout) |
| BatchScheduler | `K/batch_scheduler/*` | pipeline depth, waiting queues, batch states, ADP counters | add, schedule, launch, update with results, balance | `BatchScheduler` (queues), `DeviceRing` (launch, return, depth) |
| ModelRunner | `K/executor/model_runner.*` | thread queues, current slot, host ring, last blocks, frozen drafts | Preprocess, Execute, Postprocess, report, stop | `RunnerThreads` (threads, queues, lock, Stop), `MtpSerial`, `DeviceRing` (data) |
| ModelBuilder, ModelSampler, ModelInput, CommonModel | `K/executor/model_builder.*`, `model_sampler.*`, `K/models/*` | the two ModelInputs | order the batch, fill pairs, forward, freeze offsets | `DeviceRing` |
| Sampler and ring kernels | `K/samplers/*`, `K/layers/*` | sampled tokens and ring of each slot | sample, write ring, replace | `DeviceRing` |
| InflightResourceManager | `K/executor/inflight_resource.*` | who owns resources | free, free what is not live, allocate | `DeviceRing`, `BatchScheduler` |
| FastPathController | `K/runtime/fast_path_controller.*` | one Boolean | decide at start-up | `ScheduleConfig`; `BatchScheduler`; the constant `FastPath` of `InferRequest` |
| ForwardingContext | `K/models/forwarding_context.*` | device buffers, model inputs | size, prepare, forward | `ScheduleConfig` (sizes and slots) |
| Configuration | `K/configure/*` | a dozen structures with copies of each other's values | parse, normalise, check, count blocks | `ScheduleConfig` |
| pd_v2, salary page | `src/projects/pd_v2`, `src/projects/ai-infra-salary` | - | scripts, a web page | not modelled |

### How they interact

Engine: `Schedule` (strategies plan a workload per request) ->
`TryToLaunchPlannedScheduleOutput` (launch, snapshot, depth + 1) -> serialize ->
Executor: Preprocess -> queue -> Execute (forward, sample, ring) -> result queue
-> report -> Engine: `UpdateWithGenerationResult` (depth - 1) -> each request's
`UpdateAfterInflightTaskFinished`. Launch and return are serialized by
`schedule_mutex_`; between the threads of the executor there are only FIFO
queues, and the executor's copy of a request is *shared* by all its steps.

The schedule strategies, the IPC layer, the model itself, draft generation and
verification are not in this repository. They are modelled from how the code here
uses them and marked external in the map.

### What is hard, and what must hold

| Where | Hard because | Must hold |
|---|---|---|
| InferRequest | a step comes back when its successor's tokens already stand behind its own; blocks move when drafts are rejected; a stop token cancels steps that are under way | the text is the one token-by-token decoding gives; every placeholder is filled, each once; every launched step has a token to forward; KV is counted up to the right block |
| Pipeline depth | incremented and decremented in two functions; an output that cannot be launched waits and goes stale | depth counts what is under way and never exceeds 2; nothing is sent that was not launched |
| Host ring | a step reads what another one left; requests are stopped, recomputed, finished in between | every step forwards the right tokens at the right KV positions |
| Slots and device ring | two threads and two slots without a lock; batches reorder and change members | no slot is overwritten while in use; every placeholder becomes its own request's token |
| Shared executor requests | a later batch overwrites the fields while an earlier one runs | what a batch reads late is frozen |
| Resources | freed by ids that arrive with later outputs | held until the batch is sampled |
| Runner threads | up to four threads and four queues, in another arrangement for every kind of runner; two threads forward on one model; Stop may come at any time | every step is answered once and in order; no thread is left blocked; nothing a step holds leaks |
| Transfer between nodes | a request is sent whole once and as a patch afterwards; serialization happens after later launches | what arrives is what was launched; a patch has something to change |
| Start-up | a setting is copied into several structures, and some copies are taken before a later stage changes it | the copies agree when the node serves; buffers fit what the scheduler may plan |
| Waiting queues, ADP balance | requests move between four queues under two locks, and are held back on purpose | none is lost, duplicated or forgotten; the balance holds nobody back for long and balances; the executor is told of every live request |

## 2. Modules

* `Decode` - the abstract specification: a text that grows by a non-empty piece
  at a time, never beyond its end, until it is finished.
* `InferRequest` - one request, every operation of `infer_request.cpp` that
  changes what is forwarded or returned. The executor is an oracle that knows
  the text. `PlanPrefill`/`PlanDecode`/`PrefixCacheHit`/... are the strategy's
  calls, `LaunchPlanningTask` the launch, `FinishStep` the return of the oldest
  step (it runs `Retire`, one operator per branch of
  `UpdateAfterInflightTaskFinished`), `Stop`/`Recompute`/`Recover` what block
  pressure does.
* `MtpSerial` - extends `InferRequest` with the queue of launched outputs, the
  Execute thread and its host ring, in place of the oracle: `HandleExecute` is
  one iteration of the thread (clear, repair, forward, verify, ring, freeze).
* `DeviceRing` - several requests without drafts: Engine (`Schedule`,
  `TryToLaunchPlannedScheduleOutput`, `UpdateWithGenerationResult`, ...),
  Preprocess (`HandlePreprocess`) and Execute (`ExecuteForward`, then
  `HandlePostprocess`; Preprocess may run between the two).
* `BatchScheduler` - the queues a request waits in, for several data-parallel
  ranks and pipelined batches. Clients add and stop; one loop thread per batch
  sleeps while `IsIdle`, runs `Schedule` in three steps (collect `waiting_reqs_`
  under its mutex; balance; strategies and `FillLiveReqIds`), and launches;
  results return. The steps of one `Schedule` exclude those of others, launches
  and returns (`schedule_mutex_`), not `AddInferRequest` and `IsIdle`. Build-ahead
  is decided by `IsEnabledAtStartup`; every configuration is an initial state.
  Order within a queue decides nothing here, so queues are sets.
* `RunnerThreads` - the four threads of a `ModelRunner`, a step being its number.
  A thread's `pc` is the point of its loop; it changes where the thread can block
  or another can see what it did. `preprocess`, `execute`, `postprocess` and
  `report` run or not according to the kind of `runner`: on the fast path Execute
  postprocesses inline and a thread of its own reports, on the slow path
  Postprocess is a thread and reports itself, on a node that does not sample
  there is neither. `Stop` sets the flags, stops the queues and joins the threads one by one
  while they go on. Every get, put, lock and wait is a step of its own.
* `LaunchChannel` - the abstract specification of the transfer: a FIFO that takes
  the steps of a launched output and gives them to the executor unchanged.
* `ScheduleTransfer` - the Engine launches (`LaunchScheduleOutput`, with its
  snapshots), the driver decides between whole and patch
  (`SetInferRequestTransferMode`), `PutSendScheduleOutput` serializes,
  `Receive` takes a free output object and reads the packet,
  `UpdateCachedRequests` applies it, `Report` answers, the object is cleared and
  returned to the pool.
* `ScheduleConfig` - start-up of one node: one action per stage, from the yaml
  file to the agreed block number, in the order of the calls. `dep` is what is
  read from outside (yaml, environment, model, device memory); the other
  variables are the structures of `ScheduleConfigParser`, the decision of
  `FastPathController`, and the sizes that `ForwardingContext` and `ModelInput`
  compute. A check that throws ends in `"rejected"`.
* `MCScheduleConfig`, `MCRunnerThreads`, `MCScheduleTransfer` - the instances of
  the three for TLC.
* `InferRequestProofs`, `MtpSerialProofs`, `BatchSchedulerProofs`,
  `RunnerThreadsProofs`, `DeviceRingProofs`, `ScheduleTransferProofs`,
  `ScheduleConfigProofs` - theorems about the module each is named after;
  `DataFacts` - the lemmas about data that they share: FIFOs (`DeviceRingProofs`,
  `ScheduleTransferProofs`), and sums over finite sets with the induction they
  need (`BatchSchedulerProofs`, `DeviceRingProofs`).

Tokens. What a request says is fixed in advance: in `InferRequest` and
`MtpSerial` the token at position p is the number p, a rejected draft is `Wrong`;
in `DeviceRing` it is `<<request, p>>`, and `Garbage` is anything else. "The
right token in the right place" is then visible in the state, and an oracle (or
a model that sees the right context) continues with the next number. The code
branches on a token only for the stop token and the placeholder, so nothing is
lost. Positions in the code count from 0, sequences here from 1.

## 3. Runs

| Run | Question | Result |
|---|---|---|
| `ahead` | Does a request that is kept one step ahead behave like plain decoding? | holds, refines `Decode`, finishes |
| `slow` | The same with depth 1, under every schedule, with the lengths the scheduler plans with | holds |
| `mtp_serial` | Does ring, repair and snapshot machinery realise the oracle? | refines `InferRequest` |
| `device_ring` | Do two slots, two rings and two threads give every request its own tokens? | holds |
| `batch_scheduler` | Does every accepted request get through the queues, the balance and the pipeline of every configuration? | holds |
| `runner_threads` | Do the threads of every kind of runner answer, exclude each other, and stop? | holds |
| `schedule_transfer` | Does the executor on another node get what was launched? | holds, implements `LaunchChannel` |
| `schedule_config` | Do the configurations of a node that serves fit together? | holds |
| `bubble_text` | What if the next step is *not* launched ahead in time? | violated, see below |
| `ring_chunk` | May a batch mix inner prompt chunks and sampling requests? | violated |
| `mid_chunk` | Is what Execute and Postprocess read late their own batch's? | violated |
| `ghost_patch` | Is everything that is sent launched? | violated |

The violated ones are recorded as findings with the comment or document each
contradicts. In short:

1. `TryRetireBackfillNextPlaceholderBlock` also takes steps with drafts that were
   launched without a placeholder and loses their accepted drafts
   (`infer_request.cpp:253`).
2. Ring pairs count inner chunks, sampled tokens do not (`model_input.cpp:949`,
   `replace_last_token.cu:45`).
3. `HandlePostprocess` and `GetHiddenShape` read shared requests that Preprocess
   may have moved to the next step (`model_runner.cpp:549`, `:453`). The run's
   property is the conjunction of the two readings (`MidChunkNotSampled`,
   `HiddenShapeIsOwn`); whichever is met first ends it.
4. A request that was skipped at launch is still serialized, from its live state
   (`schedule_output.cpp:779`).

Three more limits are no runs of their own. Two show when a constant of an
existing run or the property it checks is changed, the third is read off `StartupChecks`:

* `RetireOwnPlaceholderBlockAndShift` clears the bonus token of a placeholder step
  whose successor was not launched yet (`infer_request.cpp:366`): with
  `MtpStepNum = 0`, `LaunchedStepsHaveWork` fails in `InferRequestBubbleText.cfg`.
* `GetPlanningSequenceLen` does not count the block that the launch will append
  when a placeholder block ends the sequence (`infer_request.cpp:172`), although
  the comment at `infer_request.cpp:371-374` says that the reservation is there
  for it: `PlanningLenCoversLaunch`, which `slow` checks for the path without
  reservations, fails in `InferRequestAhead.cfg`, so nothing here covers that
  comment.
* The gate of build-ahead is said to exclude data, expert and pipeline parallelism
  (`fast_path_controller.cpp:53`). It looks at the size of each group and at the
  number of pipelined batches, not at the number of nodes: several nodes with one
  pipelined batch, or several expert nodes with one group each, pass
  (`StartupChecks`; `FastPathIffEligible` is stated accordingly).

Where several promises belong together a run checks their conjunction, each part
a definition of its own: `BuffersSuffice` and `BlocksFitMemory` (`ScheduleConfig`),
`RequestsComplete` (`ScheduleTransfer`), `StepsAccounted` (`RunnerThreads`),
`NothingReusedEarly` and `LateReadsAreOwn` (`DeviceRing`). The type invariants of
`BatchScheduler`, `ScheduleConfig` and `ScheduleTransfer` are parts of
`EachInOnePlace`, `CopiesAgree` and `RequestsComplete`; that of `RunnerThreads` is
proved (`Shape`).

### Bounds

* Drafts: `MtpStepNum = 2`, the least with a partly accepted block. Prompt of 3
  tokens: two cuts, so a first, an inner and a last chunk.
* The stop token at every distance from 1 to 5 behind the prompt (`ahead`), so
  that it falls on a main token, on either draft and on a bonus token, with up to
  one step behind it in flight; `mtp_serial` takes three of these positions.
* One recomputation (`MaxRecompute`) meets every queue state; a second starts
  from a state that differs only in the length of the prompt.
* `DeviceRing`: two requests, as a wrong pairing needs two; prompts of two tokens
  so that a prompt can be split; texts that end on the first or the third sampled
  token, so that both slots are written, read and reused. One request is
  recomputed at a time.

* `BatchScheduler`: three requests, since the balance holds back only a third one
  when each of two ranks runs one; two of them come as one group, so that a group
  can be refused by a queue of two and equal lengths are sorted. At most two
  batch states (`MaxBatchStates`): two ranks or two pipelined batches. A request
  takes a prefill and a decode step (`Steps`); block pressure strikes once
  (`MaxPressure`) and leaves one request out of the batch, recomputes it or takes
  it out while its step is under way. Clients stop two requests of different
  groups (`Stoppable`), so that one that is stopped with a step under way and one
  without meet in an output that a full pipeline makes wait. `max_waiting_steps = 1`, so that the limit
  is met; no prompt is too long for `max_token_len`.

* `RunnerThreads`: three steps (`StepNum`), one more than the deepest pipeline, so
  that a step meets a full one; two draft passes in a `MtpForward`
  (`mtp_step_num_`), so that the main `Forward` can come between them; every kind of runner that the constructor can
  build, depth one and two; no mid-chunk step, or the second one.
* `ScheduleTransfer`: two requests, prompts of one or two tokens, texts of three,
  one recomputation; an output then carries whole requests, patches or both, and
  a recomputed request is sent again. No property is temporal except the
  refinement's safety, so the symmetry of the requests is sound.
* `ScheduleConfig`: every deployment that differs in at most two settings from a
  plain dense node, one with build-ahead, a node with latent attention and experts
  on two nodes, or a pd_v2 decode node (`TwoAway`). Sizes are a few units, chosen so that a rounding or a limit
  shows: memory of some dozens of blocks, odd vocabulary, block lengths that do
  not divide prompts. Pairs are where the settings meet; a third setting at an
  unusual value at the same time is not covered.

### Assumptions the runs make about the environment

* `Bubbles = FALSE` (`ahead`, `mtp_serial`; built into `DeviceRing`): a step that
  samples comes back only after its successor was launched, or the request was
  stopped. Nothing here enforces it: `bubble_text` shows what happens
  otherwise.
* `MixChunks = FALSE`: the strategy does not put an inner chunk into a batch with
  requests that sample (`ring_chunk` otherwise).
* `Replay = FALSE`: a request is not recomputed while an output that planned a
  step for it waits (`ghost_patch` otherwise).
* A request is recomputed only when its steps have drained, as the comment in
  `inflight_resource.cpp:28-52` requires of the strategy.

* `BatchScheduler`: a strategy takes over every request that was handed to its
  rank (`dp_waiting_reqs_`), admits what waits unless blocks are short, and puts a
  request whose newest step is back into the decoding queue, where `IsIdle` sees
  it. A request left in `dp_waiting_reqs_` would be slept on: `IsIdle` does not
  look there. The loop that calls `TryToLaunchPlannedScheduleOutput` is not in the
  repository either. It is taken to finish the `stopped_reqs` of every attempt that
  have no step under way, also of one that returns false because the pipeline is
  full; those with a step under way finish when it is back. It retries an output
  that the full pipeline kept, and discards one that holds stopped requests only
  (`IsLaunchable` is false for it).

* `RunnerThreads`: `BlockingQueue` and the wait of `ExecutorRuntime` for hidden
  units are external. A `Get` of a stopped queue returns nothing, a wait may end at
  any time and ends at shutdown. The test of `terminated_` is one step with the end
  of the iteration before it. `MtpForward`, external, calls `Forward`
  `mtp_step_num_` times, each under the lock of its own: another thread's `Forward`
  may run between two passes. The depth bound is that of the rank that reports: another rank receives outputs as fast as
  they are sent. Collectives are not modelled.
* `ScheduleTransfer`: launch with snapshots, and serialization, each run under one
  lock and are one step. The send queue, the channel and the receive queue are one
  FIFO. The driver, which sets the transfer mode, and the executor's
  `UpdateCachedRequests` are external. An output object is returned to the pool
  after its answer.
* `ScheduleConfig`: `Environment`, external, calls the stages in the order of
  `Stages`, once: `Reset` leaves `pd_v2_runtime_config_` and
  `global_cache_connector_config_` as they were, so a second parse would start from
  other values. The node samples; `mla_head_size` is the larger of the head sizes
  of latent attention's keys and values; memory ratios are whole percents or
  tenths, where the code multiplies floating-point numbers. `expert_master` says
  whether `EXPERT_MASTER_HOST` and `EXPERT_MASTER_PORT` are set; what other
  environment variables several nodes need is there. A peer in a pipeline has
  `peer_block_num` blocks.

### Fairness

Each thread of the executor is an endless loop on a FIFO, hence weak fairness of
its action; the Engine retries a planned output until it is launched or stale and
takes every result. Weak fairness of planning (`PlanPrefill`, `PlanDecode`,
`SetInflightTaskGenResultEstimation`, `Schedule`) and of `Recompute`/`Recover` says that the strategy does not starve a
request: that is an assumption on code outside the repository. There is none on
`Stop`, on cache hits or on which drafts are right. In `MtpSerial` fairness of the
Execute thread is stated as `WF_dispatched(TakeStep)`, where `TakeStep` says only
that the queue shrinks: the thread is the only one that shrinks it and can always
do so when it is not empty, and the weaker-looking form is the one whose
enabledness is cheap to evaluate. In `BatchScheduler` each loop thread and the
return of results are weakly fair: threads are endless loops, and `schedule_mutex_`
is held for three steps at most. Clients and the passing of time are not fair.
In `RunnerThreads` each thread and `Stop`, once called, are weakly fair: they are
threads of the operating system, and every wait in them is for something that
another one does. Sending and calling `Stop` are not fair.

## 4. Proofs

Each theorem holds for every value of the constants that the module's named
assumption allows; every run that extends the module evaluates that assumption.
Every argument is an inductive invariant: `Init` implies it, each step keeps it
(one lemma per action or per effect, one step of the proof per disjunct of
`Next`), and it implies the property. TLC checked each of them on the module's
run before it was proved.

### `InferRequestProofs`

For every prompt length, every number of drafts, every set of stop positions,
every answer of the executor, and both paths:

| Theorem | States | Hypothesis |
|---|---|---|
| `LayoutCorrect`, `TypeCorrect` | `LayoutInv`, `TypeOK` | - |
| `PromptPartitionCorrect` | `PromptPartition` | - |
| `TextCorrect` | `TextInv` | `AheadOfTime` |
| `OutputIsTextCorrect` | `OutputIsText` | `AheadOfTime` |
| `ForwardingIsTextCorrect` | `ForwardingIsText` | `AheadOfTime` |
| `PlaceholderFifoCorrect` | `PlaceholderFifo` | `AheadOfTime` |
| `KvAtBlockStartCorrect` | `KvAtBlockStart` | `AheadOfTime` |
| `LaunchedStepsHaveWorkCorrect` | `LaunchedStepsHaveWork` | `AheadOfTime` |
| `RefinesDecodeCorrect` | the refinement of `Decode` | `AheadOfTime` |
| `PlanningLenCoversLaunchCorrect` | `PlanningLenCoversLaunch` | `~FastPath` |

`TypeOK` alone is not inductive: the retirement of a block computes lengths and
offsets by subtraction, which stay natural numbers only because of how blocks,
tokens and steps relate. `LayoutInv` adds that blocks exist only behind a
complete prompt and lie behind each other inside `forwarding_tokens`.

`ChunksTile` says that the chunks in flight follow each other and that the next
one follows them; with `LayoutInv` it gives `PromptPartition`, whatever is hit in
the prefix cache and whenever the request is recomputed.

`AheadOfTime` is `FastPath => ~Bubbles`. It is not a convenience: the run
`bubble_text` shows that without it the text is wrong, so no proof can do
without. It holds on the whole slow path, and on the fast path when a step that
samples comes back only after its successor was launched (see the assumptions in
section 3). Under it a request whose stop token has not come is in one of five
shapes: `Prompting` (chunks behind each other), `FirstAhead` (the last chunk and
an empty block behind it), `OneStep` (one decode step, its block filled),
`TwoSteps` (and another one behind it, whose block is empty), `Drained`. A shape
says of every token of `forwarding_tokens` whether it is the text, a draft or a
placeholder, and to which step each block belongs. Behind the stop token
(`Ended`) only the queues are left. The proof shows for each way of retirement
which shape follows which, token by token (what `TrimBlock`, `FillBlock` and
`Shifted` leave at each position); every property is read off the shapes.
The slow path needs no placeholders, and there `PlannedInv` relates the length a
step was planned with to what its launch appends.

### `MtpSerialProofs`

For every prompt length, every number of drafts, every acceptance of them, every
set of stop positions, and recomputation at any moment the code allows:

| Theorem | States | Hypothesis |
|---|---|---|
| `SerialCorrect` | `SerialInv` | `NoBubbles` |
| `ExecutorForwardsTextCorrect` | `ExecutorForwardsText` | `NoBubbles` |
| `BlocksAgreeCorrect` | `BlocksAgree` | `NoBubbles` |
| `RefinesInferRequestCorrect` | `Spec` of `InferRequest`, the safety part of `RefinesInferRequest` | `NoBubbles` |
| `SerialOutputIsText` | `OutputIsText` | `NoBubbles` |

`NoBubbles` is `~Bubbles`, which is `AheadOfTime` above on this path (the module
assumes `FastPath`), and as necessary: a step that retires before its successor
is launched leaves a text that no repair corrects.

`ExecutorForwardsText` is not inductive. What the thread forwards next depends on
a snapshot taken one or two steps ago, when the Engine did not know which drafts
would be accepted, and on what the thread kept of the step before.
`SerialInv` says of each what it is, on top of the shapes of `TextInv`:

* `QueueInv` - the steps in flight are the answers that the Engine has not taken,
  then the snapshots that the thread has not.
* `AnswersInv` - an answer is what the oracle would say: the text behind what was
  forwarded, as many drafts accepted as are right.
* `SnapInv` - a snapshot is a chunk of the prompt, or the text up to the drafts of
  the step before, these drafts (right or wrong), and its own empty block.
* `RanInv` - ring, last block, frozen drafts and KV cache are those of the last
  step that ran; or fresh, when none has; or anything, while the next step has
  them cleared because the request was recomputed.

Each of the thread's three kinds of step (chunk, first sample, decode) turns the
oldest `SnapInv` into the newest `AnswersInv` and the next `RanInv`
(`RepairMtpSerialBlock` moves the block to the accepted length, the KV cache is
cut there); each of the Engine's retirements shortens the queues while the text
it appends is the one `RanInv` was about. `AnswersInv` is what makes
`UpdateWithGenerationResult` a `FinishStep` of `InferRequest` and `HandleExecute`
a stutter: the refinement. `SerialOutputIsText` then needs no argument of its
own. Behind the stop token only `QueueInv` is left.

### `RunnerThreadsProofs`

For every kind of runner, any number of steps and of draft passes and any choice of
mid-chunk steps, with `Stop` at any moment: `ForwardExclusiveCorrect`, `PutNeverBlocksCorrect`,
`CacheIsOfStepCorrect`, `StepsAccountedCorrect`, and `ThreadInvCorrect` on which
they rest.

`ThreadInv` is `Shape` (each thread is a record of a point and a step, each queue a
sequence), `LockOwner` (who is inside `Forward`, its own or one of `MtpForward`, holds the lock, so
two never are) and `Counted`: the steps that the four threads hold and the queues
contain are at most the steps sent less the answers, which the Engine keeps within
the depth. A full input queue would hold two of them and Preprocess, waiting in
`Put`, a third. `ModeInv` says which threads a runner has. `Numbered` puts
the queues and the threads behind each other: the numbers of the steps between the
Engine and the last answer are consecutive, which gives the order of the answers;
`HeldInHands` says which thread or queue has the step of which a buffer or an
epoch is held; `CacheInv` that Preprocess updates the cached requests only when
no other step uses them.

### `DeviceRingProofs`

For every set of requests, prompt length, place where a text may end, and number
of recomputations:

| Theorem | States | Hypothesis |
|---|---|---|
| `DepthCountsOutputsCorrect` | `DepthCountsOutputs` | - |
| `SlotsIntactCorrect` | `SlotsIntact` | - |
| `NothingReusedEarlyCorrect` | `NothingReusedEarly` | `~Replay` |
| `ForwardsTextCorrect` | `ForwardsText` | `~MixChunks`, `~Replay` |
| `OutputsAreTextsCorrect` | `OutputsAreTexts` | `~MixChunks`, `~Replay` |

`PipelineInv` says which outputs are under way and that the newest batch that was
built and not yet sampled is in `cur_ring_slot`: two outputs, two slots,
and Preprocess turns to the one nobody uses. `FlightsInv` counts for each request
the outputs under way that hold a step of it: as many as it has steps in flight.
A request that an output drops had none when the output was launched, so no
output before it uses its resources. A request recomputed while a planned output
holds it is sent without a launched step and is in no count: that is `Replay`,
which `ghost_patch` shows.

`ForwardsText` and `OutputsAreTexts` need each other. A token that Forward embeds
was sampled one output before, from what that one embedded; it passes through the
sampled rows, the ring and the answer, and which of its tokens a request waits for
depends on its other steps in flight. `TextInv` follows it:

* `RequestOK` - how far a request is: before its last chunk is launched, what is
  forwarded, planned and left is the prompt; behind it the newest step is one
  sample ahead of the output, or two.
* `StepsInv`, `DecodesFollow` - the k-th output under way holds, for each of its
  requests, the step that the request has in flight there, and ends in the prompt's
  token or in a placeholder; a placeholder's request is in the output before.
* `BatchesInv`, `SlotsAlternate`, `OutputInv` - order and offsets of a batch are
  those of its steps; neighbours use different slots; what was forwarded embeds the
  text, and its i-th row of logits is the i-th request's next token.
* `CacheInv`, `ResultsInv`, `RingInv` - what Postprocess reads late of a request
  that samples still says that it samples; an answer is the next token; between two
  batches the ring written last has every token the next batch replaces.

Both hypotheses are necessary: `ring_chunk` and `ghost_patch` show what goes
wrong without them. `~MixChunks` makes all requests of an output sample or none
(`Alike`), so that sums and selections over a batch, of any length, are its
positions: `OffsetsOf`, `SelectedAll`, `RowsOf`.

### `ScheduleTransferProofs`

For every set of requests, prompt lengths, text length and number of
recomputations: `PoolBoundedCorrect`, `RequestsCompleteCorrect`, and
`ChannelCorrect`, the refinement `Spec => ChannelSpec` of `LaunchChannel`, on the
invariant `IInv` (`Invariant`).

`Place(k)` is the k-th output under way wherever it is, in one of four queues or
being executed; a step that passes an output on leaves it at its place, which
reduces the queues to two places. `IInv` is `TypeInv`; `PoolInv` (each object of
the pool is in one place, empty when it is free); `FlowInv` (a request has as many
steps in flight as places hold it, so an output drops nothing that an earlier one
holds); `HeldInv` (`transferred`, by which the driver decides between whole and
patch ahead of the Executor, is what the Executor will hold when it comes to that
output); `RunInv` (what is cached is of the request's present run unless an output
under way drops it). The abstract FIFO is the contents of the places (`QueueIs`):
launching appends to it, running a batch takes its head, everything
else stutters.

### `BatchSchedulerProofs`

For any number of requests, ranks and batches: `HeldBackBoundedCorrect`,
`EachInOnePlaceCorrect`, `LiveKeepsResourcesCorrect` and `NoBetterRankCorrect`.

`HeldInv` is for the balance. The counter
of rounds is shared by all requests and reset when the waiting ones are
distributed, so the bound is not inductive: one that escaped a distribution could
be held back for another full count. `HeldInv` adds that none escapes (`HeldWaits`:
what was held back is where the next round collects it) and that nobody was held
back more often than the counter says (`HeldInRounds`).

`PlacesInv` says of each request in which one place it is, a formula per kind of
queue (`OnlyWaiting`, `OnlyRunning`, ...) in place of the counts of `EachInOnePlace`,
which the proof computes from them once. A result moves requests out of the
running ones, so the invariant needs `FlightInv`: what has a step under way
is in the batch or was taken out of it for recomputation.

`ResourceInv` adds what a launch may free. The ids of a batch are
taken at the end of `Schedule`, and results, additions and other batches'
schedules come in before the launch; `LiveNamed` says that until then the ids name
every running, decoding and recomputed request of the batch, `KvInv` that nothing
else has KV.

`NoBetterRank` is about one step, `DistributeRequestsByToken`: longest first, each
to the rank with the least work. `GreedyBalances`: the request that a rank got last
is the shortest on it and went where there was least work, so moving any request of
that rank elsewhere gains nothing; the work of the others has only grown since. That
a workload is the sum of its requests' tokens, over any number of requests and
batches (`TotalTokensIs`, `WorkloadIs`), rests on `SumFacts`.

### `ScheduleConfigProofs`

For every deployment, so for any sizes of devices, memory, model and batch: all
seven invariants of the run (`FastPathIffEligible`, `CopiesAgree`,
`ParallelTopology`, `MtpSupported`, `BuffersSuffice`, `PromptFits`,
`BlocksFitMemory`).

They speak of the serving node only, the facts behind them come from fourteen
stages. `StartInv` gives each fact the stages in which it holds: `ParallelParsed`
from the first stage on, `ModelUpdated` from the model's on, but `FlexibleParsed`
(the cache manager's copy is the setting) only until the model may clear it, and
`StepCopied` (scheduler and executor have the same step) only until the blocks are
counted. The frames (`RtFrames`, `SchedFrames`, ...) say which stages change a
part of a structure, so that a fact is carried over all others at once; adding a
stage that writes such a part breaks its frame. `Types` is part of the invariant
because the arithmetic is not total: a division is one of natural numbers by a
positive one only since an earlier stage checked or rounded its operands. In
particular a step never becomes empty when the blocks lower it, which the
rounding of the expert exchange over the step's tokens depends on.

The properties then follow by lemmas about rounding: what is rounded up to a
multiple covers it (`RoundUpFacts`), blocks with their share of a sliding-window
block take no more than the division said but for a byte each (`RatioSplit`),
equal groups cover the devices (`GroupsCover`).

### What stays with TLC

* Liveness (`EventuallyFinished`, `EventuallyServed`, `StopReturns`,
  `EveryStepAnswered`): the prover cannot reason about fairness and ENABLED.
* The fairness half of `RefinesInferRequest` of `MtpSerial`, for the same reason as
  liveness: `FairSpec` is `Spec`, which is proved, and the fairness of its actions.

Every safety invariant that a passing run checks is proved. Two kinds of fact about
data needed more than the provers offer. The library states induction with an
operator as parameter, which they cannot instantiate; `DataFacts` has it as
`SetInduction`, where the property is a set, derived from the least element of a
set of naturals (`LeastOf`). And the sums of the model are folds, a `CHOOSE` of a
function that satisfies a recursion; `SumExists` and `SumUnique` show that there is
exactly one, `SumFacts` is what the proofs use.

## 5. Not modelled

* Formatting, logging, tracing, metrics, sampling parameters, beam search.
* `InferRequest::AppendCachedTokens` (`infer_request.cpp:442-455`), which nothing in
  the repository calls: tokens that a global cache holds join both the output and
  the prompt of a request that goes straight to decoding.
* Of the transfer: the byte layout and the 64 MB packet, stopping the pool, two
  threads that take an output from it at once, the fields of structured
  generation, `kv_from_remote`.
* Of the configuration: expert load balancing and the w4afp8 and fp4 back ends
  (`schedule_config_parser.cpp:109-196`), the choice of a flash attention
  (480-522), the connector's and pd_v2's transport settings (736-845); a second
  parse.
* Of `ForwardingContext` and `ModelInput`: the attention metadata of a pass,
  grouping into flash and paged requests, rotary and sliding-window inputs. They
  are arithmetic over one batch, with no state that outlives it.
* The exchange of hidden units between nodes, collectives, the tensor-parallel
  broadcast of the ring, and the remote KV transfer of pd_v2: their code is not in
  the repository, only the calls are.
* Of `BatchScheduler`: mock requests, the transfer queue, the balancer of pipelined
  batches.
* The scripts of pd_v2 and the web page: no state machine.

Hazards met in the code that no property covers, because what would show them is
outside the repository or the code only logs:

* `schedule_config_parser.cpp:1352`: the global cache connector copies
  `max_step_tokens` before `UpdateModelConfig` may raise it.
* `schedule_config_parser.cpp:1237`: the agreed, lower block number of a pipeline
  changes neither `max_step_token_num` nor is it compared with the launch
  threshold; `StepFitsBlocks` is stated for a node of its own.
* `schedule_config_parser.cpp:578`: the low-latency token limit divides
  `max_batch_size` and ignores that a request may decode several tokens.
* `schedule_config_parser.cpp:1299`: `use_tcp` is set on the member before an
  earlier copy is stored over it.
* `schedule_config_parser.h:529`: a V1 role without a router address is parsed, but
  its configuration cannot be read afterwards.
* `model_input.cpp:305`: a batch of a decode node is compared with
  `max_step_token_num`, tensors have room for `max_batch_size` requests.
* `model_runner.cpp:641`: `MtpForward` is skipped for a batch of inner chunks,
  while a `Forward` may wait for its notification.
* `schedule_output.cpp:757`: a patch takes `infer_stage` from the live request, its
  tokens from the snapshot; `:879`: the pool tests for emptiness, then blocks;
  `:717`: every packet is taken to fit 64 MB; `schedule_output.h:140`: `Clear`
  leaves the list of patches.
* `batch_scheduler.cpp:381`: `stopped_reqs` is cleared by the next attempt if a
  launch returned false; `:533`: `dp_waiting_reqs_` is read for the log under the
  other mutex; `:562`: the block utilisation divides by zero before blocks are
  reported.

## 6. Plan

Done: 1. `Decode`, `InferRequest`; 2. `MtpSerial`; 3. `DeviceRing`; 4. layout and
type proofs; 5. `BatchScheduler` and the bound on its balance; 6. `RunnerThreads`
and its proofs; 7. `ScheduleConfig`; 8. `ScheduleTransfer` and its refinement of
`LaunchChannel`; 9. proofs about `DeviceRing`, `ScheduleTransfer` with its
refinement, the text of `InferRequest` with its refinement of `Decode`, the
queues of `BatchScheduler`, and all of `ScheduleConfig`; 10. proofs about
`MtpSerial` and its refinement of `InferRequest`, the texts of `DeviceRing`, and the
balance of `BatchScheduler`.

Next, in this order:

11. `MtpSerial` for several requests: the flat ring vector, `FreeInactive`.
12. `BatchScheduler` with mock requests (`expert_world_size > 1`), whose one object
    is shared by all pipelined batches.

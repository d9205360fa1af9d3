---------------------------- MODULE ScheduleTransfer ----------------------------
(***************************************************************************)
(* The way of a ScheduleOutput from the Engine to the Executor:            *)
(* LaunchScheduleOutput freezes a snapshot of every launched request, the  *)
(* transfer mode and the serialization follow later, while the scheduler   *)
(* may plan, launch and retire other steps of the same requests, and the   *)
(* Executor rebuilds the output in an object of its ScheduleOutputPool.    *)
(*                                                                         *)
(* A step is the part of a request that changes between two launches: its  *)
(* kind, the length and last token of forwarding_tokens, the cached tokens *)
(* and blocks (one token each), and the offset of its placeholder.  Drafts *)
(* are in MtpSerial, what the Executor computes in DeviceRing.             *)
(***************************************************************************)
EXTENDS Integers, Sequences, FiniteSets, SequencesExt

CONSTANTS
  Requests,     \* request ids
  PromptLens,   \* lengths a prompt may have
  TextLen,      \* length at which every text ends
  MaxRecompute  \* how often requests are recomputed, in all (bound)

ASSUME ScheduleTransferAssumption ==
  /\ IsFiniteSet(Requests)
  /\ PromptLens \subseteq Nat \ {0}
  /\ TextLen \in Nat /\ \A n \in PromptLens : TextLen > n
  /\ MaxRecompute \in Nat

VARIABLES
  req,           \* the Engine's InferRequests
  planned,       \* running_reqs of the output that waits to be launched
  executor_pipeline_depth,
  finish_ids, recompute_ids  \* what the next output tells the Executor to drop

engine == <<req, planned, executor_pipeline_depth, finish_ids, recompute_ids>>

VARIABLES
  launched,      \* outputs that still have to be serialized, oldest first
  transferred,   \* ModelDriver: requests the Executor was sent whole
  packets        \* serialized_send_queue, the data channel and
                 \* serialized_recv_queue: three FIFOs in a row are one

transfer == <<launched, transferred, packets>>

VARIABLES
  objects,       \* the Executor's ScheduleOutputs
  free_queue,    \* ScheduleOutputPool: indices of the free ones
  pending,       \* indices of those to be run, oldest first
  current,       \* index of the one in use, or None
  cached,        \* the cached ExecutorInferRequests
  batch,         \* the cached requests that are being run
  results        \* FIFO Executor -> Engine: the requests of each output

executor == <<objects, free_queue, pending, current, cached, batch>>
vars == <<engine, transfer, executor, results>>

kExecutorPipelineMaxDepth == 2
max_depth == 2

None == 0            \* no object, and SIZE_MAX for a placeholder's offset
NoTask == -1
NoPlan == {}
NoBatch == <<>>
EmptyOutput == [finish |-> {}, recompute |-> {}, full |-> <<>>, patches |-> <<>>]

NewRequest(n) ==
  [out |-> n, prefilling |-> n, left |-> n, blocks |-> 0, task |-> NoTask,
   len |-> 0, kv |-> 0, last |-> "token", kind |-> "prefill",
   infer_stage |-> "context", inflight |-> <<>>, patch_transfer |-> FALSE,
   stopped |-> FALSE, ended |-> FALSE, run |-> 0]

Init ==
  /\ \E n \in [Requests -> PromptLens] :
       req = [r \in Requests |-> NewRequest(n[r])]
  /\ planned = NoPlan
  /\ executor_pipeline_depth = 0
  /\ finish_ids = {} /\ recompute_ids = {}
  /\ launched = <<>> /\ transferred = {}
  /\ packets = <<>>
  /\ objects = <<>> /\ free_queue = <<>> /\ pending = <<>> /\ current = None
  /\ cached = <<>> /\ batch = NoBatch
  /\ results = <<>>

-----------------------------------------------------------------------------
(***************************************************************************)
(* Engine: planning, launch, return, recomputation.  schedule_mutex_ makes *)
(* each of them, and each serialization, one step.  The strategy that      *)
(* plans is not in the repository.                                         *)
(***************************************************************************)

HasPlanningTask(r) == req[r].task # NoTask

\* A step that samples is in flight, or its token has come back.
HasToken(r) ==
  \/ req[r].inflight = <<>>
  \/ Last(req[r].inflight) # "prefill_chunk_mid"

Tasks(r) ==
  IF req[r].left > 0 THEN 1..req[r].left
  ELSE IF req[r].len < TextLen /\ HasToken(r) THEN {0} ELSE {}

Plannable(r) == ~req[r].stopped /\ ~HasPlanningTask(r) /\ Tasks(r) # {}

\* Planning gives a request its task and the blocks for it.
Planned(q, task) ==
  [q EXCEPT !.task = task, !.left = @ - task,
            !.blocks = q.len + (IF task = 0 THEN 1 ELSE task)]

Schedule ==
  /\ planned = NoPlan
  /\ \E S \in (SUBSET {r \in Requests : Plannable(r)}) \ {{}} :
       \E task \in [S -> 0..TextLen] :
         /\ \A r \in S : task[r] \in Tasks(r)
         /\ planned' = S
         /\ req' = [r \in Requests |-> IF r \in S THEN Planned(req[r], task[r])
                                                  ELSE req[r]]
  /\ UNCHANGED <<executor_pipeline_depth, finish_ids, recompute_ids, transfer,
                 executor, results>>

Stopped(S) == {r \in S : req[r].stopped}
Launching(S) == {r \in S : ~req[r].stopped /\ HasPlanningTask(r)}

IsLaunchable(S) ==
  /\ Launching(S) # {}
  /\ \A r \in Launching(S) : Len(req[r].inflight) < max_depth

PipelineFull_OneTooMany == executor_pipeline_depth > kExecutorPipelineMaxDepth
PipelineFull == executor_pipeline_depth >= kExecutorPipelineMaxDepth

\* LaunchPlanningTask: behind a step in flight the last token is a placeholder.
LaunchPlanningTask(q) ==
  LET decode == q.task = 0
      len == IF decode THEN q.len + 1 ELSE q.len + q.task
      kind == IF decode THEN "decode"
              ELSE IF len < q.prefilling THEN "prefill_chunk_mid" ELSE "prefill"
  IN  [q EXCEPT !.task = NoTask, !.len = len, !.kv = q.len, !.kind = kind,
                !.last = IF decode /\ q.inflight # <<>> THEN "placeholder"
                                                        ELSE "token",
                !.inflight = Append(@, kind)]

\* The fields of a request that its steps change, as they are now.
StepOf(q, offset) ==
  [kind |-> q.kind, len |-> q.len, kv |-> q.kv, last |-> q.last,
   blocks |-> q.blocks, offset |-> offset]

\* InferRequestSerializationSnapshot of a request just launched.
Snapshot(q) ==
  [step |-> StepOf(q, IF q.last = "placeholder" THEN q.len ELSE None),
   patch_transfer |-> FALSE, populated |-> FALSE]

\* Stopped requests leave the output even if it then has to wait.
DropStopped ==
  /\ IsLaunchable(planned)
  /\ PipelineFull
  /\ Stopped(planned) # {}
  /\ planned' = planned \ Stopped(planned)
  /\ UNCHANGED <<req, executor_pipeline_depth, finish_ids, recompute_ids,
                 transfer, executor, results>>

\* TryToLaunchPlannedScheduleOutput and LaunchScheduleOutput.
LaunchScheduleOutput ==
  LET running == planned \ Stopped(planned)
  IN  /\ IsLaunchable(planned)
      /\ ~PipelineFull
      /\ req' = [r \in Requests |-> IF r \in Launching(planned)
                   THEN LaunchPlanningTask(req[r]) ELSE req[r]]
      /\ launched' = Append(launched,
           [running |-> running, finish |-> finish_ids, recompute |-> recompute_ids,
            snapshots |-> [r \in Launching(planned) |-> Snapshot(req'[r])]])
      /\ executor_pipeline_depth' = executor_pipeline_depth + 1
      /\ planned' = NoPlan
      /\ finish_ids' = {} /\ recompute_ids' = {}
      /\ UNCHANGED <<transferred, packets, executor, results>>

\* The ScheduleProcessor drops an output nothing of which can be launched.
DropStaleOutput ==
  /\ planned # NoPlan
  /\ Launching(planned) = {}
  /\ planned' = NoPlan
  /\ UNCHANGED <<req, executor_pipeline_depth, finish_ids, recompute_ids,
                 transfer, executor, results>>

\* UpdateAfterInflightTaskFinished and ResetInflightTask of a request whose
\* oldest step has come back.  A step launched ahead may overrun the text's end.
Retired(q) ==
  LET discard == q.ended \/ Head(q.inflight) = "prefill_chunk_mid"
      eos == ~discard /\ q.out + 1 = TextLen
      \* A placeholder that is still open is the newest step's: fill it.
      next_open == Len(q.inflight) > 1 /\ q.last = "placeholder"
  IN  IF q.ended THEN [q EXCEPT !.inflight = Tail(@)]
      ELSE [q EXCEPT !.inflight = Tail(@),
              !.out = IF discard THEN @ ELSE @ + 1,
              !.last = "token",
              !.kv = IF next_open THEN @ ELSE q.len,
              !.infer_stage = IF discard THEN @ ELSE "decode",
              !.ended = eos, !.stopped = @ \/ eos]

UpdateWithGenerationResult ==
  LET back == {r \in Head(results) : req[r].inflight # <<>>}
  IN  /\ results # <<>>
      /\ req' = [r \in Requests |-> IF r \in back THEN Retired(req[r])
                                                   ELSE req[r]]
      /\ executor_pipeline_depth' =
           IF executor_pipeline_depth > 0 THEN executor_pipeline_depth - 1 ELSE 0
      /\ finish_ids' = finish_ids \cup
           {r \in back : req'[r].ended /\ req'[r].inflight = <<>>}
      /\ results' = Tail(results)
      /\ UNCHANGED <<planned, recompute_ids, transfer, executor>>

\* Block pressure: a request drains and is then prefilled again.
Stop(r) ==
  /\ SumFunction([x \in Requests |-> req[x].run]) < MaxRecompute
  /\ ~req[r].stopped
  /\ req[r].inflight # <<>>
  /\ req' = [req EXCEPT ![r].stopped = TRUE]
  /\ UNCHANGED <<planned, executor_pipeline_depth, finish_ids, recompute_ids,
                 transfer, executor, results>>

\* ResetPrefillingTokens starts over, with what was generated as the prompt.
ResetPrefillingTokens_KeepsStage(q) ==
  [NewRequest(q.out) EXCEPT !.patch_transfer = q.patch_transfer,
                            !.run = q.run + 1, !.infer_stage = q.infer_stage]
ResetPrefillingTokens(q) ==
  [NewRequest(q.out) EXCEPT !.patch_transfer = q.patch_transfer,
                            !.run = q.run + 1]

Recompute(r) ==
  /\ req[r].stopped /\ ~req[r].ended
  /\ req[r].inflight = <<>>
  /\ r \notin planned
  /\ req' = [req EXCEPT ![r] = ResetPrefillingTokens(@)]
  /\ recompute_ids' = recompute_ids \cup {r}
  /\ UNCHANGED <<planned, executor_pipeline_depth, finish_ids, transfer,
                 executor, results>>

-----------------------------------------------------------------------------
(***************************************************************************)
(* Engine: transfer mode and serialization, behind the scheduler.          *)
(***************************************************************************)

\* ModelDriver::SetInferRequestTransferMode, not in the repository: whole what
\* the Executor does not have, or drops with this output.  It overwrites the
\* request's mode, and notes it in the snapshot.
SetInferRequestTransferMode ==
  \E i \in DOMAIN launched :
    LET o == launched[i]
        held == transferred \ (o.finish \cup o.recompute)
    IN  /\ \A r \in DOMAIN o.snapshots : ~o.snapshots[r].populated
        /\ \A j \in 1..i - 1 : \A r \in DOMAIN launched[j].snapshots :
             launched[j].snapshots[r].populated
        /\ transferred' = held \cup o.running
        /\ req' = [r \in Requests |-> IF r \in o.running
             THEN [req[r] EXCEPT !.patch_transfer = r \in held] ELSE req[r]]
        /\ launched' = [launched EXCEPT ![i].snapshots =
             [r \in DOMAIN @ |-> [@[r] EXCEPT !.patch_transfer = r \in held,
                                              !.populated = TRUE]]]
        /\ UNCHANGED <<planned, executor_pipeline_depth, finish_ids,
                       recompute_ids, packets, executor, results>>

\* FindReqSnapshot: what was frozen, or else the request as it is.
StepFor_Live(o, r) ==
  [StepOf(req[r], None) EXCEPT
     !.offset = IF r \in DOMAIN o.snapshots THEN o.snapshots[r].step.offset ELSE None]
StepFor(o, r) ==
  IF r \in DOMAIN o.snapshots THEN o.snapshots[r].step
                              ELSE StepOf(req[r], None)

PatchTransfer_Live(o, r) == req[r].patch_transfer
PatchTransfer(o, r) ==
  IF r \in DOMAIN o.snapshots /\ o.snapshots[r].populated
    THEN o.snapshots[r].patch_transfer
    ELSE req[r].patch_transfer

\* SerializeInferRequests: a whole request, its embedding only in the context
\* stage, and without the offset of a placeholder.
FullEntry(o, r) ==
  [step |-> [StepFor(o, r) EXCEPT !.offset = None],
   embedding |-> req[r].infer_stage = "context", run |-> req[r].run]

\* SerializeInferRequestPatches.
PatchEntry(o, r) == [step |-> StepFor(o, r)]

SerializeScheduleOutput(o) ==
  LET patched == {r \in o.running : PatchTransfer(o, r)}
  IN  [finish |-> o.finish, recompute |-> o.recompute,
       full |-> [r \in o.running \ patched |-> FullEntry(o, r)],
       patches |-> [r \in patched |-> PatchEntry(o, r)]]

PutSendScheduleOutput ==
  /\ launched # <<>>
  /\ \A r \in DOMAIN Head(launched).snapshots : Head(launched).snapshots[r].populated
  /\ packets' = Append(packets, SerializeScheduleOutput(Head(launched)))
  /\ launched' = Tail(launched)
  /\ UNCHANGED <<engine, transferred, executor, results>>

-----------------------------------------------------------------------------
(***************************************************************************)
(* Executor: a packet is rebuilt in an object of the pool, run, and the     *)
(* object returned to the pool.                                            *)
(***************************************************************************)

\* GetFreeScheduleOutput makes a new object when none is free.
FreeScheduleOutputIndex_AlwaysNew == Len(objects) + 1
FreeScheduleOutputIndex ==
  IF free_queue = <<>> THEN Len(objects) + 1 ELSE Head(free_queue)

\* f, and g where f is not defined.
Over(f, g) ==
  [x \in DOMAIN f \cup DOMAIN g |-> IF x \in DOMAIN f THEN f[x] ELSE g[x]]

\* Whole requests and patches are appended to what the object still holds, which
\* would be run as well.
DeserializeInferRequests(full, packet) == Over(packet.full, full)
DeserializeInferRequestPatches(patches, packet) == Over(packet.patches, patches)

\* The lists of ids are assigned.
DeserializeScheduleOutput(object, packet) ==
  [packet EXCEPT
     !.full = DeserializeInferRequests(object.full, packet),
     !.patches = DeserializeInferRequestPatches(object.patches, packet)]

Receive ==
  LET i == FreeScheduleOutputIndex
      object == IF i \in DOMAIN objects THEN objects[i] ELSE EmptyOutput
      rebuilt == DeserializeScheduleOutput(object, Head(packets))
  IN  /\ packets # <<>>
      /\ packets' = Tail(packets)
      /\ objects' = IF i \in DOMAIN objects THEN [objects EXCEPT ![i] = rebuilt]
                                            ELSE Append(objects, rebuilt)
      /\ free_queue' = IF i \in DOMAIN objects THEN Tail(free_queue)
                                               ELSE free_queue
      /\ pending' = Append(pending, i)
      /\ UNCHANGED <<engine, launched, transferred, current, cached, batch,
                     results>>

\* UpdateCachedRequests, not in the repository: drop what finished or is
\* recomputed, keep what came whole, apply and take the patches.
Received(o) == DOMAIN o.full \cup DOMAIN o.patches

Unknown == [step |-> StepOf(NewRequest(0), None), embedding |-> FALSE, run |-> -1]

AfterUpdate(o) ==
  LET kept == Restrict(cached, DOMAIN cached \ (o.finish \cup o.recompute))
      base == Over(o.full, kept)
  IN  [r \in DOMAIN base \cup DOMAIN o.patches |->
         IF r \in DOMAIN o.patches
           THEN [(IF r \in DOMAIN base THEN base[r] ELSE Unknown)
                   EXCEPT !.step = o.patches[r].step]
           ELSE base[r]]

UpdateCachedRequests ==
  LET i == Head(pending)
  IN  /\ current = None /\ pending # <<>>
      /\ current' = i
      /\ pending' = Tail(pending)
      /\ cached' = AfterUpdate(objects[i])
      /\ batch' = Restrict(cached', Received(objects[i]))
      /\ objects' = [objects EXCEPT ![i].patches = <<>>]
      /\ UNCHANGED <<engine, transfer, free_queue, results>>

\* The batch is answered; the object is freed behind that.
Report ==
  /\ batch # NoBatch
  /\ results' = Append(results, DOMAIN batch)
  /\ batch' = NoBatch
  /\ UNCHANGED <<engine, transfer, objects, free_queue, pending, current, cached>>

\* ScheduleOutput::Clear leaves the patches: they have been taken.
Clear(o) == [EmptyOutput EXCEPT !.patches = o.patches]

FreeScheduleOutput ==
  /\ current # None /\ batch = NoBatch
  /\ objects' = [objects EXCEPT ![current] = Clear(@)]
  /\ free_queue' = Append(free_queue, current)
  /\ current' = None
  /\ UNCHANGED <<engine, transfer, pending, cached, batch, results>>

-----------------------------------------------------------------------------

Done ==
  /\ \A r \in Requests : req[r].ended
  /\ planned = NoPlan
  /\ executor_pipeline_depth = 0 /\ current = None

Idle == Done /\ UNCHANGED vars

Next ==
  \/ Schedule
  \/ DropStopped
  \/ LaunchScheduleOutput
  \/ DropStaleOutput
  \/ UpdateWithGenerationResult
  \/ \E r \in Requests : Stop(r) \/ Recompute(r)
  \/ SetInferRequestTransferMode
  \/ PutSendScheduleOutput
  \/ Receive
  \/ UpdateCachedRequests
  \/ Report
  \/ FreeScheduleOutput
  \/ Idle

Spec == Init /\ [][Next]_vars

-----------------------------------------------------------------------------
Steps(packet) ==
  [r \in Received(packet) |->
     IF r \in DOMAIN packet.patches THEN packet.patches[r].step
                                    ELSE packet.full[r].step]

InOrder ==
  [i \in DOMAIN pending |-> Steps(objects[pending[i]])]
    \o [i \in DOMAIN packets |-> Steps(packets[i])]
    \o [i \in DOMAIN launched |->
          [r \in launched[i].running |-> StepFor(launched[i], r)]]

Channel == INSTANCE LaunchChannel WITH
  queue <- InOrder,
  batch <- [r \in DOMAIN batch |-> batch[r].step]

\* Snapshot, transfer mode, serialization and the pool implement the FIFO of
\* launches: the Executor runs every step as it was when it was launched, with
\* the offset of its placeholder if it has one, although the Engine launches and
\* retires other steps of the same requests before the packet is written.
ChannelSpec == Channel!Spec

StepType ==
  [kind : {"decode", "prefill", "prefill_chunk_mid"}, len : 0..TextLen,
   kv : 0..TextLen, last : {"token", "placeholder"}, blocks : 0..TextLen,
   offset : 0..TextLen]

TypeOK ==
  /\ planned \subseteq Requests
  /\ \A r \in Requests :
       /\ StepOf(req[r], None) \in StepType
       /\ req[r].task \in {NoTask} \cup 0..TextLen
       /\ Len(req[r].inflight) <= max_depth
  /\ executor_pipeline_depth \in 0..kExecutorPipelineMaxDepth
  /\ transferred \subseteq Requests
  /\ \A i \in DOMAIN launched : \A r \in DOMAIN launched[i].snapshots :
       launched[i].snapshots[r].step \in StepType
  /\ ToSet(free_queue) \cup ToSet(pending) \subseteq DOMAIN objects
  /\ current \in {None} \cup DOMAIN objects
  /\ DOMAIN cached \subseteq Requests
  /\ \A r \in DOMAIN cached : cached[r].step \in StepType

\* A patch is applied to the request it was made for: the Executor got that
\* request whole since it was last recomputed, although the mode of an output is
\* decided, and overwritten by the next one, before the output is serialized.
PatchesHaveBase ==
  \A r \in DOMAIN batch : batch[r].run = req[r].run

\* input_refit_embedding travels once, with a whole request in the context
\* stage; infer_stage is read when the packet is written, and still says so.
EmbeddingArrives ==
  \A r \in DOMAIN batch : batch[r].embedding

\* In every state of these types, the requests that are run are complete: what
\* later packets do not repeat has arrived with an earlier one.
RequestsComplete == TypeOK /\ PatchesHaveBase /\ EmbeddingArrives

\* Every object of the pool is free, waiting or in use, each in one place, and
\* the pipeline's depth bounds how many there are: one more, because an output
\* is answered before its object is freed.
PoolBounded ==
  /\ Len(free_queue) + Len(pending) + (IF current = None THEN 0 ELSE 1)
       = Len(objects)
  /\ Cardinality(ToSet(free_queue) \cup ToSet(pending) \cup ({current} \ {None}))
       = Len(objects)
  /\ Len(objects) <= kExecutorPipelineMaxDepth + 1
================================================================================

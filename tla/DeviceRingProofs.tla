---------------------------- MODULE DeviceRingProofs ----------------------------
(***************************************************************************)
(* Five theorems about DeviceRing, for every set of requests, prompt length, *)
(* place at which a text may end and number of recomputations.             *)
(*                                                                         *)
(* PipelineInv says where the outputs under way are: executor_pipeline_depth *)
(* counts them, it never passes two, and the newest batch that was built   *)
(* and not yet sampled is in cur_ring_slot.  Preprocess therefore builds   *)
(* the next batch in the slot nobody uses: SlotsIntact.                    *)
(*                                                                         *)
(* FlightsInv counts, for each request, the outputs under way that hold a  *)
(* step of it: as many as it has steps in flight.  A request that an output *)
(* tells the executor to drop had none when the output was launched, so no *)
(* earlier output holds it: ResourcesHeld.  This needs ~Replay: a request  *)
(* recomputed while a planned output holds it is sent without a launched   *)
(* step, which is in no count.                                             *)
(*                                                                         *)
(* TextInv says what is under way of the texts: how far each request is and *)
(* what its steps in flight will add (RequestOK), which step each output   *)
(* holds (StepsInv), that a decode step follows the step that samples what *)
(* it embeds, one output before (DecodesFollow), which token each answer   *)
(* is (ResultsInv), and that between two batches the ring written last has *)
(* each token the next batch replaces a placeholder by (RingInv): so       *)
(* ForwardsText and OutputsAreTexts.  This needs ~MixChunks as well: an    *)
(* inner chunk has an input pair and no sampled token, and the ring would  *)
(* pair the requests behind it with each other's.                          *)
(***************************************************************************)
EXTENDS DeviceRing, DataFacts, FiniteSetTheorems

-----------------------------------------------------------------------------
(* The pipeline *)

QueueShape ==
  /\ Sequence(schedule_output_queue)
  /\ Sequence(model_input_queue)
  /\ Sequence(results)
  /\ DOMAIN input_slot = 0..1

\* The newest batch built and not yet sampled is in cur_ring_slot.
Slots ==
  /\ cur_ring_slot \in 0..1
  /\ \A i \in DOMAIN model_input_queue : model_input_queue[i].slot \in 0..1
  /\ model_input_queue # <<>> =>
       model_input_queue[Len(model_input_queue)].slot = cur_ring_slot
  /\ output # NoOutput =>
       /\ output.slot \in 0..1
       /\ model_input_queue = <<>> => output.slot = cur_ring_slot

PipelineInv == QueueShape /\ Slots /\ DepthCountsOutputs /\ SlotsIntact

\* At the start nothing is under way.
LEMMA InitPipeline == Init => PipelineInv
<1> SUFFICES ASSUME Init PROVE PipelineInv
  OBVIOUS
<1>1. QueueShape
  BY SequenceEmpty DEF Init, QueueShape
<1>2. Slots
  BY SequenceEmpty DEF Init, Slots
<1>3. DepthCountsOutputs
  BY SequenceEmpty DEF Init, DepthCountsOutputs, kExecutorPipelineMaxDepth
<1>4. SlotsIntact
  BY SequenceEmpty DEF Init, SlotsIntact
<1> QED BY <1>1, <1>2, <1>3, <1>4 DEF PipelineInv

\* What the Engine does with its requests between two outputs moves none.
LEMMA FramePipeline ==
  ASSUME PipelineInv,
         UNCHANGED <<executor_pipeline_depth, schedule_output_queue,
                     cur_ring_slot, input_slot, model_input_queue, output,
                     results>>
  PROVE  PipelineInv'
BY DEF PipelineInv, QueueShape, Slots, DepthCountsOutputs, SlotsIntact

\* A launch needs room in the pipeline.
LEMMA LaunchPipeline ==
  ASSUME PipelineInv, TryToLaunchPlannedScheduleOutput
  PROVE  PipelineInv'
<1>1. PICK o : schedule_output_queue' = Append(schedule_output_queue, o)
  BY DEF TryToLaunchPlannedScheduleOutput
<1>2. /\ executor_pipeline_depth' = executor_pipeline_depth + 1
      /\ ~(executor_pipeline_depth >= kExecutorPipelineMaxDepth)
      /\ UNCHANGED <<cur_ring_slot, input_slot, model_input_queue, output,
                     results>>
  BY DEF TryToLaunchPlannedScheduleOutput, PipelineFull, preprocess, execute
<1>3. /\ Sequence(schedule_output_queue')
      /\ Len(schedule_output_queue') = Len(schedule_output_queue) + 1
  BY <1>1, SequenceAppend DEF PipelineInv, QueueShape
<1>4. QueueShape' /\ Slots' /\ SlotsIntact'
  BY <1>2, <1>3 DEF PipelineInv, QueueShape, Slots, SlotsIntact
<1>5. DepthCountsOutputs'
  <2>1. /\ Len(schedule_output_queue) \in Nat
        /\ Len(model_input_queue) \in Nat
        /\ Len(results) \in Nat
    BY SequenceLen DEF PipelineInv, QueueShape
  <2> QED BY <1>2, <1>3, <2>1
         DEF PipelineInv, DepthCountsOutputs, kExecutorPipelineMaxDepth
<1> QED BY <1>4, <1>5 DEF PipelineInv

\* An output that comes back was counted.
LEMMA ReturnPipeline ==
  ASSUME PipelineInv, UpdateWithGenerationResult
  PROVE  PipelineInv'
<1>1. /\ results # <<>>
      /\ results' = Tail(results)
      /\ executor_pipeline_depth' = DepthAfterReturn
      /\ UNCHANGED <<schedule_output_queue, cur_ring_slot, input_slot,
                     model_input_queue, output>>
  BY DEF UpdateWithGenerationResult, preprocess, execute
<1>2. /\ Sequence(results')
      /\ Len(results) > 0
      /\ Len(results') = Len(results) - 1
  BY <1>1, SequenceTail DEF PipelineInv, QueueShape
<1>3. QueueShape' /\ Slots' /\ SlotsIntact'
  BY <1>1, <1>2 DEF PipelineInv, QueueShape, Slots, SlotsIntact
<1>4. DepthCountsOutputs'
  <2>1. /\ Len(schedule_output_queue) \in Nat
        /\ Len(model_input_queue) \in Nat
        /\ Len(results) \in Nat
    BY SequenceLen DEF PipelineInv, QueueShape
  <2> QED BY <1>1, <1>2, <2>1
         DEF PipelineInv, DepthCountsOutputs, DepthAfterReturn,
             kExecutorPipelineMaxDepth
<1> QED BY <1>3, <1>4 DEF PipelineInv

\* What HandlePreprocess leaves behind: one more batch, in the slot that its
\* order was written to.
LEMMA PreprocessStep ==
  ASSUME PipelineInv, HandlePreprocess
  PROVE  \E order \in Reordered(Head(schedule_output_queue).steps) :
           /\ schedule_output_queue # <<>>
           /\ schedule_output_queue' = Tail(schedule_output_queue)
           /\ cur_ring_slot' = 1 - cur_ring_slot
           /\ input_slot' = [input_slot EXCEPT ![1 - cur_ring_slot] =
                Input(order, Head(schedule_output_queue).steps)]
           /\ model_input_queue' = Append(model_input_queue,
                [slot |-> 1 - cur_ring_slot, reqs |-> order,
                 steps |-> Head(schedule_output_queue).steps,
                 offsets |-> LogitsOffsets(order,
                               Head(schedule_output_queue).steps)])
           /\ resources' = AfterProcess(Head(schedule_output_queue))
           /\ UNCHANGED <<executor_pipeline_depth, output, results, req,
                          planned, finish_ids, recompute_ids>>
BY DEF HandlePreprocess, NextSlot, engine, execute

\* Preprocess builds in the slot that no batch under way uses: with the output
\* it takes there is room for one, and that one is in cur_ring_slot.
LEMMA PreprocessPipeline ==
  ASSUME PipelineInv, HandlePreprocess
  PROVE  PipelineInv'
<1> DEFINE o == Head(schedule_output_queue)
           new == 1 - cur_ring_slot
<1>1. PICK order \in Reordered(o.steps) :
         /\ schedule_output_queue # <<>>
         /\ schedule_output_queue' = Tail(schedule_output_queue)
         /\ cur_ring_slot' = new
         /\ input_slot' = [input_slot EXCEPT ![new] = Input(order, o.steps)]
         /\ model_input_queue' = Append(model_input_queue,
              [slot |-> new, reqs |-> order, steps |-> o.steps,
               offsets |-> LogitsOffsets(order, o.steps)])
         /\ UNCHANGED <<executor_pipeline_depth, output, results>>
  BY PreprocessStep
<1> DEFINE m == [slot |-> new, reqs |-> order, steps |-> o.steps,
                 offsets |-> LogitsOffsets(order, o.steps)]
<1>2. /\ m.slot = new /\ m.reqs = order /\ m.steps = o.steps
      /\ model_input_queue' = Append(model_input_queue, m)
  BY <1>1
<1>3. input_slot' = [input_slot EXCEPT ![new] = Input(m.reqs, m.steps)]
  BY <1>1, <1>2
<1> HIDE DEF m, o, new
<1>4. /\ Sequence(schedule_output_queue')
      /\ Len(schedule_output_queue) > 0
      /\ Len(schedule_output_queue') = Len(schedule_output_queue) - 1
  BY <1>1, SequenceTail DEF PipelineInv, QueueShape
<1>5. /\ Sequence(model_input_queue')
      /\ model_input_queue' # <<>>
      /\ Len(model_input_queue') = Len(model_input_queue) + 1
      /\ DOMAIN model_input_queue' = 1..(Len(model_input_queue) + 1)
      /\ \A i \in 1..Len(model_input_queue) :
           model_input_queue'[i] = model_input_queue[i]
      /\ model_input_queue'[Len(model_input_queue) + 1] = m
  BY <1>2, SequenceAppend DEF PipelineInv, QueueShape
<1>6. /\ Len(schedule_output_queue) \in Nat
      /\ Len(model_input_queue) \in Nat
      /\ Len(results) \in Nat
      /\ DOMAIN model_input_queue = 1..Len(model_input_queue)
      /\ model_input_queue = <<>> <=> Len(model_input_queue) = 0
  BY SequenceLen DEF PipelineInv, QueueShape
<1>7. new \in 0..1 /\ cur_ring_slot \in 0..1 /\ new # cur_ring_slot
  BY DEF PipelineInv, Slots, new
<1>8. QueueShape'
  BY <1>1, <1>3, <1>4, <1>5 DEF PipelineInv, QueueShape
<1>9. DepthCountsOutputs'
  BY <1>1, <1>4, <1>5, <1>6 DEF PipelineInv, DepthCountsOutputs
<1>10. Slots'
  <2>1. \A i \in DOMAIN model_input_queue' : model_input_queue'[i].slot \in 0..1
    BY <1>2, <1>5, <1>6, <1>7 DEF PipelineInv, Slots
  <2> QED BY <1>1, <1>2, <1>5, <1>6, <1>7, <2>1 DEF PipelineInv, Slots
\* Every batch under way is in cur_ring_slot.
<1>11. /\ \A i \in DOMAIN model_input_queue :
            model_input_queue[i].slot = cur_ring_slot
       /\ output # NoOutput => output.slot = cur_ring_slot
  <2>1. Len(model_input_queue) + (IF output = NoOutput THEN 0 ELSE 1) <= 1
    BY <1>4, <1>6
       DEF PipelineInv, DepthCountsOutputs, kExecutorPipelineMaxDepth
  <2>2. CASE model_input_queue = <<>>
    BY <2>2, <1>6 DEF PipelineInv, Slots
  <2>3. CASE model_input_queue # <<>>
    <3>1. Len(model_input_queue) = 1 /\ output = NoOutput
      BY <2>1, <2>3, <1>6
    <3> QED BY <3>1, <2>3, <1>6 DEF PipelineInv, Slots
  <2> QED BY <2>2, <2>3
<1>12. input_slot'[cur_ring_slot] = input_slot[cur_ring_slot]
  BY <1>3, <1>7 DEF PipelineInv, QueueShape
<1>13. input_slot'[new] = Input(m.reqs, m.steps)
  BY <1>3, <1>7 DEF PipelineInv, QueueShape
<1>14. SlotsIntact'
  <2>1. ASSUME NEW i \in DOMAIN model_input_queue'
        PROVE  input_slot'[model_input_queue'[i].slot] =
                 Input(model_input_queue'[i].reqs, model_input_queue'[i].steps)
    <3>1. CASE i \in 1..Len(model_input_queue)
      BY <3>1, <1>5, <1>6, <1>11, <1>12 DEF PipelineInv, SlotsIntact
    <3>2. CASE i = Len(model_input_queue) + 1
      BY <3>2, <1>2, <1>5, <1>13
    <3> QED BY <3>1, <3>2, <2>1, <1>5, <1>6
  <2>2. output' # NoOutput =>
          input_slot'[output'.slot] = Input(output'.reqs, output'.steps)
    BY <1>1, <1>11, <1>12 DEF PipelineInv, SlotsIntact
  <2> QED BY <2>1, <2>2 DEF SlotsIntact
<1> QED BY <1>8, <1>9, <1>10, <1>14 DEF PipelineInv

\* Forward takes the oldest batch, its slot with it.
LEMMA ForwardPipeline ==
  ASSUME PipelineInv, ExecuteForward
  PROVE  PipelineInv'
<1> DEFINE m == Head(model_input_queue)
<1>1. /\ output = NoOutput
      /\ model_input_queue # <<>>
      /\ model_input_queue' = Tail(model_input_queue)
      /\ output'.slot = m.slot
      /\ output'.reqs = m.reqs
      /\ output'.steps = m.steps
      /\ UNCHANGED <<executor_pipeline_depth, schedule_output_queue, input_slot,
                     cur_ring_slot, results>>
  BY DEF ExecuteForward, engine, preprocess
<1>2. /\ Sequence(model_input_queue')
      /\ Len(model_input_queue) > 0
      /\ Len(model_input_queue') = Len(model_input_queue) - 1
      /\ DOMAIN model_input_queue' = 1..(Len(model_input_queue) - 1)
      /\ \A i \in 1..(Len(model_input_queue) - 1) :
           model_input_queue'[i] = model_input_queue[i + 1]
      /\ m = model_input_queue[1]
  BY <1>1, SequenceTail DEF PipelineInv, QueueShape
<1> HIDE DEF m
<1>3. /\ Len(schedule_output_queue) \in Nat
      /\ Len(model_input_queue) \in Nat
      /\ Len(results) \in Nat
      /\ DOMAIN model_input_queue = 1..Len(model_input_queue)
  BY SequenceLen DEF PipelineInv, QueueShape
<1>4. m.slot \in 0..1 /\ output' # NoOutput
  <2>1. m.slot \in 0..1
    BY <1>2, <1>3 DEF PipelineInv, Slots
  <2>2. NoOutput.slot = -1
    BY DEF NoOutput
  <2> QED BY <2>1, <2>2, <1>1
<1>5. QueueShape'
  BY <1>1, <1>2 DEF PipelineInv, QueueShape
<1>6. DepthCountsOutputs'
  BY <1>1, <1>2, <1>3, <1>4 DEF PipelineInv, DepthCountsOutputs
<1>7. Slots'
  <2>1. model_input_queue' = <<>> <=> Len(model_input_queue) = 1
    BY <1>2, <1>3, SequenceLen
  <2>2. \A i \in DOMAIN model_input_queue' : model_input_queue'[i].slot \in 0..1
    BY <1>2, <1>3 DEF PipelineInv, Slots
  <2>3. model_input_queue' # <<>> =>
          model_input_queue'[Len(model_input_queue')].slot = cur_ring_slot
    BY <1>1, <1>2, <1>3, <2>1 DEF PipelineInv, Slots
  <2>4. model_input_queue' = <<>> => output'.slot = cur_ring_slot
    BY <1>1, <1>2, <1>3, <2>1 DEF PipelineInv, Slots
  <2> QED BY <1>1, <1>4, <2>2, <2>3, <2>4 DEF PipelineInv, Slots
<1>8. SlotsIntact'
  BY <1>1, <1>2, <1>3 DEF PipelineInv, SlotsIntact
<1> QED BY <1>5, <1>6, <1>7, <1>8 DEF PipelineInv

\* A sampled batch goes to the Engine.
LEMMA PostprocessPipeline ==
  ASSUME PipelineInv, HandlePostprocess
  PROVE  PipelineInv'
<1>1. PICK gen :
         /\ output # NoOutput
         /\ output' = NoOutput
         /\ results' = Append(results, gen)
         /\ UNCHANGED <<executor_pipeline_depth, schedule_output_queue,
                        input_slot, cur_ring_slot, model_input_queue>>
  BY DEF HandlePostprocess, engine, preprocess
<1>2. Sequence(results') /\ Len(results') = Len(results) + 1
  BY <1>1, SequenceAppend DEF PipelineInv, QueueShape
<1>3. /\ Len(schedule_output_queue) \in Nat
      /\ Len(model_input_queue) \in Nat
      /\ Len(results) \in Nat
  BY SequenceLen DEF PipelineInv, QueueShape
<1>4. QueueShape' /\ Slots' /\ SlotsIntact'
  BY <1>1, <1>2 DEF PipelineInv, QueueShape, Slots, SlotsIntact
<1>5. DepthCountsOutputs'
  BY <1>1, <1>2, <1>3 DEF PipelineInv, DepthCountsOutputs
<1> QED BY <1>4, <1>5 DEF PipelineInv

\* Every step keeps the pipeline.
LEMMA NextPipeline == PipelineInv /\ [Next]_vars => PipelineInv'
<1> SUFFICES ASSUME PipelineInv, [Next]_vars PROVE PipelineInv'
  OBVIOUS
<1>1. CASE Schedule
  BY <1>1, FramePipeline DEF Schedule, preprocess, execute
<1>2. CASE DropStopped
  BY <1>2, FramePipeline DEF DropStopped, preprocess, execute
<1>3. CASE TryToLaunchPlannedScheduleOutput
  BY <1>3, LaunchPipeline
<1>4. CASE DropStaleOutput
  BY <1>4, FramePipeline DEF DropStaleOutput, preprocess, execute
<1>5. CASE UpdateWithGenerationResult
  BY <1>5, ReturnPipeline
<1>6. ASSUME NEW r \in Requests, Stop(r) PROVE PipelineInv'
  BY <1>6, FramePipeline DEF Stop, preprocess, execute
<1>7. ASSUME NEW r \in Requests, Recompute(r) PROVE PipelineInv'
  BY <1>7, FramePipeline DEF Recompute, preprocess, execute
<1>8. CASE HandlePreprocess
  BY <1>8, PreprocessPipeline
<1>9. CASE ExecuteForward
  BY <1>9, ForwardPipeline
<1>10. CASE HandlePostprocess
  BY <1>10, PostprocessPipeline
<1>11. CASE Idle \/ UNCHANGED vars
  BY <1>11, FramePipeline DEF Idle, vars, engine, preprocess, execute
<1> QED BY <1>1, <1>2, <1>3, <1>4, <1>5, <1>6, <1>7, <1>8, <1>9, <1>10, <1>11
       DEF Next

\* executor_pipeline_depth counts the outputs between launch and return and
\* never passes kExecutorPipelineMaxDepth, whatever is planned, stopped,
\* recomputed or dropped meanwhile.
THEOREM DepthCountsOutputsCorrect == Spec => []DepthCountsOutputs
<1>1. PipelineInv => DepthCountsOutputs
  BY DEF PipelineInv
<1> QED BY <1>1, InitPipeline, NextPipeline, PTL DEF Spec

\* Preprocess never writes an input slot whose batch waits to be forwarded or
\* to be sampled: two slots are enough for the depth the Engine allows.
THEOREM SlotsIntactCorrect == Spec => []SlotsIntact
<1>1. PipelineInv => SlotsIntact
  BY DEF PipelineInv
<1> QED BY <1>1, InitPipeline, NextPipeline, PTL DEF Spec

-----------------------------------------------------------------------------
(* Which requests have a step in the k-th output under way, oldest first *)

Returned == Len(results)
Sampling == Returned + (IF output = NoOutput THEN 0 ELSE 1)
Built == Sampling + Len(model_input_queue)

InStep(k) ==
  IF k <= Returned THEN DOMAIN results[k]
  ELSE IF k <= Sampling THEN ToSet(output.reqs)
  ELSE IF k <= Built THEN ToSet(model_input_queue[k - Sampling].reqs)
  ELSE DOMAIN schedule_output_queue[k - Built].steps

\* The lengths of the queues, for the arithmetic of the steps below.
LEMMA Lengths ==
  ASSUME PipelineInv
  PROVE  /\ Len(schedule_output_queue) \in Nat
         /\ Len(model_input_queue) \in Nat
         /\ Len(results) \in Nat
         /\ DOMAIN schedule_output_queue = 1..Len(schedule_output_queue)
         /\ DOMAIN model_input_queue = 1..Len(model_input_queue)
         /\ Returned \in Nat /\ Sampling \in Nat /\ Built \in Nat
         /\ Returned <= Sampling /\ Sampling <= Returned + 1
         /\ Built = Sampling + Len(model_input_queue)
         /\ executor_pipeline_depth = Built + Len(schedule_output_queue)
         /\ executor_pipeline_depth \in 0..2
<1>1. /\ Len(schedule_output_queue) \in Nat
      /\ Len(model_input_queue) \in Nat
      /\ Len(results) \in Nat
      /\ DOMAIN schedule_output_queue = 1..Len(schedule_output_queue)
      /\ DOMAIN model_input_queue = 1..Len(model_input_queue)
  BY SequenceLen DEF PipelineInv, QueueShape
<1>2. /\ Returned \in Nat /\ Sampling \in Nat /\ Built \in Nat
      /\ Returned <= Sampling /\ Sampling <= Returned + 1
      /\ Built = Sampling + Len(model_input_queue)
  BY <1>1 DEF Returned, Sampling, Built
<1>3. executor_pipeline_depth = Built + Len(schedule_output_queue)
  BY <1>1 DEF PipelineInv, DepthCountsOutputs, Returned, Sampling, Built
<1>4. executor_pipeline_depth \in 0..2
  BY <1>1, <1>2, <1>3
     DEF PipelineInv, DepthCountsOutputs, kExecutorPipelineMaxDepth
<1> QED BY <1>1, <1>2, <1>3, <1>4

\* An output is launched behind all that are under way.
LEMMA InStepLaunch ==
  ASSUME PipelineInv, TryToLaunchPlannedScheduleOutput
  PROVE  /\ executor_pipeline_depth' = executor_pipeline_depth + 1
         /\ executor_pipeline_depth' \in 1..2
         /\ Built' = Built /\ Returned' = Returned
         /\ \A k \in 1..executor_pipeline_depth : InStep(k)' = InStep(k)
         /\ InStep(executor_pipeline_depth)' = planned \ Stopped(planned)
<1>1. PICK o :
         /\ schedule_output_queue' = Append(schedule_output_queue, o)
         /\ DOMAIN o.steps = planned \ Stopped(planned)
         /\ ~PipelineFull
         /\ executor_pipeline_depth' = executor_pipeline_depth + 1
         /\ UNCHANGED <<model_input_queue, output, results>>
  BY DEF TryToLaunchPlannedScheduleOutput, preprocess, execute
<1>2. /\ Len(schedule_output_queue') = Len(schedule_output_queue) + 1
      /\ \A i \in 1..Len(schedule_output_queue) :
           schedule_output_queue'[i] = schedule_output_queue[i]
      /\ schedule_output_queue'[Len(schedule_output_queue) + 1] = o
  BY <1>1, SequenceAppend DEF PipelineInv, QueueShape
<1>3. Returned' = Returned /\ Sampling' = Sampling /\ Built' = Built
  BY <1>1 DEF Returned, Sampling, Built
<1>4. executor_pipeline_depth' \in 1..2
  BY <1>1, Lengths DEF PipelineFull, kExecutorPipelineMaxDepth
<1>5. ASSUME NEW k \in 1..executor_pipeline_depth
      PROVE  InStep(k)' = InStep(k)
  BY <1>1, <1>2, <1>3, Lengths DEF InStep
<1>6. InStep(executor_pipeline_depth)' = planned \ Stopped(planned)
  <2>1. /\ ~(executor_pipeline_depth' <= Returned')
        /\ ~(executor_pipeline_depth' <= Sampling')
        /\ ~(executor_pipeline_depth' <= Built')
        /\ executor_pipeline_depth' - Built' = Len(schedule_output_queue) + 1
    BY <1>1, <1>3, Lengths
  <2>2. schedule_output_queue'[executor_pipeline_depth' - Built'] = o
    BY <1>2, <2>1
  <2> QED BY <1>1, <2>1, <2>2 DEF InStep
<1> QED BY <1>1, <1>3, <1>4, <1>5, <1>6

\* An output that comes back was the oldest.
LEMMA InStepReturn ==
  ASSUME PipelineInv, UpdateWithGenerationResult
  PROVE  /\ executor_pipeline_depth \in 1..2
         /\ executor_pipeline_depth' = executor_pipeline_depth - 1
         /\ Built' = Built - 1 /\ Returned' = Returned - 1 /\ Returned > 0
         /\ \A k \in 1..executor_pipeline_depth' : InStep(k)' = InStep(k + 1)
         /\ InStep(1) = DOMAIN Head(results)
<1>1. /\ results # <<>>
      /\ results' = Tail(results)
      /\ executor_pipeline_depth' = DepthAfterReturn
      /\ UNCHANGED <<schedule_output_queue, model_input_queue, output>>
  BY DEF UpdateWithGenerationResult, preprocess, execute
<1>2. /\ Len(results) > 0
      /\ Len(results') = Len(results) - 1
      /\ \A i \in 1..(Len(results) - 1) : results'[i] = results[i + 1]
      /\ Head(results) = results[1]
  BY <1>1, SequenceTail DEF PipelineInv, QueueShape
<1>3. /\ Returned' = Returned - 1 /\ Sampling' = Sampling - 1
      /\ Built' = Built - 1 /\ Returned > 0
  <2>1. Returned' = Returned - 1 /\ Returned > 0
    BY <1>2 DEF Returned
  <2>2. Sampling' = Sampling - 1
    BY <1>1, <2>1, Lengths DEF Sampling
  <2>3. Built' = Built - 1
    BY <1>1, <2>2, Lengths DEF Built
  <2> QED BY <2>1, <2>2, <2>3
<1>4. /\ executor_pipeline_depth \in 1..2
      /\ executor_pipeline_depth' = executor_pipeline_depth - 1
  <2>1. executor_pipeline_depth > 0
    BY <1>3, Lengths
  <2> QED BY <2>1, <1>1, Lengths DEF DepthAfterReturn
<1>5. ASSUME NEW k \in 1..executor_pipeline_depth'
      PROVE  InStep(k)' = InStep(k + 1)
  <2>1. k \in Nat /\ k > 0 /\ Returned \in Nat /\ Sampling \in Nat /\ Built \in Nat
    BY <1>4, Lengths
  <2>2. (k + 1) - Sampling = k - Sampling' /\ (k <= Sampling' <=> k + 1 <= Sampling)
    BY <2>1, <1>3
  <2>3. (k + 1) - Built = k - Built' /\ (k <= Built' <=> k + 1 <= Built)
    BY <2>1, <1>3
  <2>4. CASE k <= Returned'
    BY <2>1, <2>4, <1>1, <1>2, <1>3, Lengths DEF InStep, Returned
  <2>5. CASE ~(k <= Returned')
    <3>1. ~(k + 1 <= Returned)
      BY <2>1, <2>5, <1>3
    <3>2. /\ ToSet(output'.reqs) = ToSet(output.reqs)
          /\ ToSet(model_input_queue'[k - Sampling'].reqs) =
               ToSet(model_input_queue[(k + 1) - Sampling].reqs)
          /\ DOMAIN schedule_output_queue'[k - Built'].steps =
               DOMAIN schedule_output_queue[(k + 1) - Built].steps
      BY <2>2, <2>3, <1>1
    <3>3. InStep(k + 1) = IF k + 1 <= Sampling THEN ToSet(output.reqs)
                   ELSE IF k + 1 <= Built
                     THEN ToSet(model_input_queue[(k + 1) - Sampling].reqs)
                     ELSE DOMAIN schedule_output_queue[(k + 1) - Built].steps
      BY <3>1 DEF InStep
    <3> QED BY <2>2, <2>3, <2>5, <3>2, <3>3 DEF InStep
  <2> QED BY <2>4, <2>5
<1>6. InStep(1) = DOMAIN Head(results)
  BY <1>2, <1>3, Lengths DEF InStep
<1> QED BY <1>3, <1>4, <1>5, <1>6

\* HandlePreprocess moves an output on with all its requests.
LEMMA InStepPreprocess ==
  ASSUME PipelineInv, HandlePreprocess
  PROVE  /\ executor_pipeline_depth' = executor_pipeline_depth
         /\ Built' = Built + 1 /\ Returned' = Returned
         /\ Built + 1 <= executor_pipeline_depth
         /\ InStep(Built + 1) = DOMAIN Head(schedule_output_queue).steps
         /\ \A k \in 1..executor_pipeline_depth : InStep(k)' = InStep(k)
<1> DEFINE o == Head(schedule_output_queue)
<1>1. PICK m :
         /\ schedule_output_queue # <<>>
         /\ schedule_output_queue' = Tail(schedule_output_queue)
         /\ model_input_queue' = Append(model_input_queue, m)
         /\ m.reqs \in Reordered(o.steps)
         /\ UNCHANGED <<executor_pipeline_depth, output, results>>
  BY PreprocessStep
<1>2. ToSet(m.reqs) = DOMAIN o.steps
  BY <1>1 DEF Reordered
<1> HIDE DEF o
<1>3. /\ Len(schedule_output_queue) > 0
      /\ Len(schedule_output_queue') = Len(schedule_output_queue) - 1
      /\ \A i \in 1..(Len(schedule_output_queue) - 1) :
           schedule_output_queue'[i] = schedule_output_queue[i + 1]
      /\ o = schedule_output_queue[1]
  BY <1>1, SequenceTail DEF PipelineInv, QueueShape, o
<1>4. /\ Len(model_input_queue') = Len(model_input_queue) + 1
      /\ \A i \in 1..Len(model_input_queue) :
           model_input_queue'[i] = model_input_queue[i]
      /\ model_input_queue'[Len(model_input_queue) + 1] = m
  BY <1>1, SequenceAppend DEF PipelineInv, QueueShape
<1>5. Returned' = Returned /\ Sampling' = Sampling
  BY <1>1 DEF Returned, Sampling
<1>6. Built' = Built + 1
  BY <1>4, <1>5, Lengths DEF Built
<1>7. Built + 1 <= executor_pipeline_depth
  BY <1>3, Lengths
<1>8. InStep(Built + 1) = DOMAIN o.steps
  BY <1>3, Lengths DEF InStep
<1>9. ASSUME NEW k \in 1..executor_pipeline_depth
      PROVE  InStep(k)' = InStep(k)
  <2>1. CASE k <= Built
    BY <2>1, <1>1, <1>4, <1>5, <1>6, Lengths DEF InStep
  <2>2. CASE k = Built + 1
    <3>1. InStep(k)' = ToSet(m.reqs)
      <4>1. k - Sampling = Len(model_input_queue) + 1
        BY <2>2, Lengths
      <4>2. ~(k <= Returned) /\ ~(k <= Sampling) /\ k <= Built'
        BY <2>2, <1>6, Lengths
      <4> QED BY <4>1, <4>2, <1>4, <1>5 DEF InStep
    <3> QED BY <2>2, <3>1, <1>2, <1>8
  <2>3. CASE k > Built + 1
    <3>1. k - Built' \in 1..(Len(schedule_output_queue) - 1)
      BY <2>3, <1>6, Lengths
    <3>2. (k - Built') + 1 = k - Built
      <4>1. k \in Int /\ Built \in Int
        BY Lengths
      <4> QED BY <4>1, <1>6
    <3>3. schedule_output_queue'[k - Built'] = schedule_output_queue[k - Built]
      BY <3>1, <3>2, <1>3
    <3>4. ~(k <= Returned) /\ ~(k <= Sampling) /\ ~(k <= Built) /\ ~(k <= Built')
      BY <2>3, <1>6, Lengths
    <3> QED BY <3>3, <3>4, <1>5 DEF InStep
  <2> QED BY <2>1, <2>2, <2>3, Lengths
<1> QED BY <1>1, <1>5, <1>6, <1>7, <1>8, <1>9 DEF o

\* Forward moves a batch on with all its requests.
LEMMA InStepForward ==
  ASSUME PipelineInv, ExecuteForward
  PROVE  /\ executor_pipeline_depth' = executor_pipeline_depth
         /\ Built' = Built /\ Returned' = Returned
         /\ \A k \in 1..executor_pipeline_depth : InStep(k)' = InStep(k)
<1> DEFINE m == Head(model_input_queue)
<1>1. /\ output = NoOutput
      /\ model_input_queue # <<>>
      /\ model_input_queue' = Tail(model_input_queue)
      /\ output'.slot = m.slot
      /\ output'.reqs = m.reqs
      /\ UNCHANGED <<executor_pipeline_depth, schedule_output_queue, results>>
  BY DEF ExecuteForward, engine, preprocess
<1> HIDE DEF m
<1>2. /\ Len(model_input_queue) > 0
      /\ Len(model_input_queue') = Len(model_input_queue) - 1
      /\ \A i \in 1..(Len(model_input_queue) - 1) :
           model_input_queue'[i] = model_input_queue[i + 1]
      /\ m = model_input_queue[1]
  BY <1>1, SequenceTail DEF PipelineInv, QueueShape, m
<1>3. output' # NoOutput
  <2>1. m.slot \in 0..1
    BY <1>2, Lengths DEF PipelineInv, Slots
  <2>2. NoOutput.slot = -1
    BY DEF NoOutput
  <2> QED BY <2>1, <2>2, <1>1
<1>4. /\ Returned' = Returned /\ Sampling = Returned /\ Sampling' = Sampling + 1
      /\ Built' = Built
  <2>1. Returned' = Returned /\ Sampling = Returned
    BY <1>1, Lengths DEF Returned, Sampling
  <2>2. Sampling' = Sampling + 1
    BY <2>1, <1>3, Lengths DEF Sampling
  <2>3. Built' = Built
    BY <2>2, <1>2, Lengths DEF Built
  <2> QED BY <2>1, <2>2, <2>3
<1>5. ASSUME NEW k \in 1..executor_pipeline_depth
      PROVE  InStep(k)' = InStep(k)
  <2>1. CASE k <= Returned
    BY <2>1, <1>1, <1>4, Lengths DEF InStep
  <2>2. CASE k = Sampling + 1
    <3>1. InStep(k)' = ToSet(m.reqs)
      BY <2>2, <1>1, <1>4, Lengths DEF InStep
    <3>2. k - Sampling = 1 /\ k <= Built /\ ~(k <= Sampling) /\ ~(k <= Returned)
      BY <2>2, <1>2, <1>4, Lengths
    <3> QED BY <3>1, <3>2, <1>2 DEF InStep
  <2>3. CASE k > Sampling + 1 /\ k <= Built
    <3>1. /\ k - Sampling' \in 1..(Len(model_input_queue) - 1)
          /\ (k - Sampling') + 1 = k - Sampling
      BY <2>3, <1>4, Lengths
    <3>2. model_input_queue'[k - Sampling'] = model_input_queue[k - Sampling]
      BY <3>1, <1>2
    <3>3. ~(k <= Returned) /\ ~(k <= Sampling) /\ ~(k <= Sampling')
      BY <2>3, <1>4, Lengths
    <3> QED BY <2>3, <3>2, <3>3, <1>4 DEF InStep
  <2>4. CASE k > Built
    BY <2>4, <1>1, <1>2, <1>4, Lengths DEF InStep
  <2> QED BY <2>1, <2>2, <2>3, <2>4, <1>4, Lengths
<1> QED BY <1>1, <1>4, <1>5

\* HandlePostprocess answers for all the requests of its batch.
LEMMA InStepPostprocess ==
  ASSUME PipelineInv, HandlePostprocess
  PROVE  /\ executor_pipeline_depth' = executor_pipeline_depth
         /\ Built' = Built /\ Returned' = Returned + 1
         /\ \A k \in 1..executor_pipeline_depth : InStep(k)' = InStep(k)
<1>1. PICK gen :
         /\ output # NoOutput
         /\ output' = NoOutput
         /\ results' = Append(results, gen)
         /\ DOMAIN gen = ToSet(output.reqs)
         /\ UNCHANGED <<executor_pipeline_depth, schedule_output_queue,
                        model_input_queue>>
  BY DEF HandlePostprocess, Generated, engine, preprocess
<1>2. /\ Len(results') = Len(results) + 1
      /\ \A i \in 1..Len(results) : results'[i] = results[i]
      /\ results'[Len(results) + 1] = gen
  BY <1>1, SequenceAppend DEF PipelineInv, QueueShape
<1>3. /\ Returned' = Returned + 1 /\ Sampling = Returned + 1
      /\ Sampling' = Sampling /\ Built' = Built
  <2>1. Returned' = Returned + 1 /\ Sampling = Returned + 1
    BY <1>1, <1>2, Lengths DEF Returned, Sampling
  <2>2. Sampling' = Sampling
    BY <2>1, <1>1, <1>2, Lengths DEF Returned, Sampling
  <2>3. Built' = Built
    BY <2>2, <1>1 DEF Built
  <2> QED BY <2>1, <2>2, <2>3
<1>4. ASSUME NEW k \in 1..executor_pipeline_depth
      PROVE  InStep(k)' = InStep(k)
  <2>1. CASE k <= Returned
    BY <2>1, <1>2, <1>3, Lengths DEF InStep, Returned
  <2>2. CASE k = Returned + 1
    BY <2>2, <1>1, <1>2, <1>3, Lengths DEF InStep, Returned
  <2>3. CASE k > Returned + 1
    BY <2>3, <1>1, <1>3, Lengths DEF InStep
  <2> QED BY <2>1, <2>2, <2>3, Lengths
<1> QED BY <1>1, <1>3, <1>4

-----------------------------------------------------------------------------
(* The requests and their steps in flight *)

ReqFields ==
  {"out", "prefilling", "left", "task", "fwd", "inflight", "stopped", "ended"}

EngineShape ==
  /\ DOMAIN req = Requests
  /\ \A r \in Requests : DOMAIN req[r] = ReqFields /\ Sequence(req[r].inflight)
  /\ planned \subseteq Requests

\* 1 if the k-th output under way has a step of request r.
Flights(r, k) == IF k <= executor_pipeline_depth /\ r \in InStep(k) THEN 1 ELSE 0

StepsInFlight ==
  /\ \A r \in Requests : Len(req[r].inflight) = Flights(r, 1) + Flights(r, 2)
  /\ \A k \in 1..executor_pipeline_depth : InStep(k) \subseteq Requests

PlannedHaveTasks == \A r \in planned : HasPlanningTask(r)

\* A request that the next output drops has no step in flight, and an output
\* that was launched drops none that an earlier one holds.
DroppedIsDrained ==
  \A r \in finish_ids \cup recompute_ids :
    r \in Requests /\ req[r].inflight = <<>>

DropsNoneBefore ==
  \A i \in DOMAIN schedule_output_queue : \A k \in 1..(Built + i - 1) :
    InStep(k) \cap (schedule_output_queue[i].finish
                      \cup schedule_output_queue[i].recompute) = {}

HeldWhileBuilt == \A k \in (Returned + 1)..Built : InStep(k) \subseteq resources

FlightsInv ==
  /\ EngineShape
  /\ StepsInFlight
  /\ PlannedHaveTasks
  /\ DroppedIsDrained
  /\ DropsNoneBefore
  /\ HeldWhileBuilt

\* At the start no output is under way and no request has a step.
LEMMA InitFlights == Init => FlightsInv
<1> SUFFICES ASSUME Init PROVE FlightsInv
  OBVIOUS
<1>1. EngineShape
  BY SequenceEmpty DEF Init, EngineShape, ReqFields, NoPlan
<1>2. StepsInFlight
  BY SequenceEmpty DEF Init, StepsInFlight, Flights
<1>3. PlannedHaveTasks /\ DroppedIsDrained
  BY DEF Init, PlannedHaveTasks, DroppedIsDrained, NoPlan
<1>4. DropsNoneBefore
  BY SequenceEmpty DEF Init, DropsNoneBefore
<1>5. HeldWhileBuilt
  BY SequenceEmpty DEF Init, HeldWhileBuilt, Returned, Built, Sampling
<1> QED BY <1>1, <1>2, <1>3, <1>4, <1>5 DEF FlightsInv

\* Outside the pipeline nothing changes which output holds which request.
LEMMA InStepFrame ==
  ASSUME UNCHANGED <<schedule_output_queue, model_input_queue, output, results>>
  PROVE  /\ Returned' = Returned /\ Built' = Built
         /\ \A k : InStep(k)' = InStep(k)
<1>1. Returned' = Returned /\ Sampling' = Sampling /\ Built' = Built
  BY DEF Returned, Sampling, Built
<1> QED BY <1>1 DEF InStep

\* The Engine's steps that leave the pipeline and every request's steps alone.
LEMMA FrameFlights ==
  ASSUME FlightsInv, EngineShape', PlannedHaveTasks',
         \A r \in Requests : req'[r].inflight = req[r].inflight,
         DroppedIsDrained',
         UNCHANGED <<executor_pipeline_depth, schedule_output_queue, resources,
                     model_input_queue, output, results>>
  PROVE  FlightsInv'
<1>1. /\ Returned' = Returned /\ Built' = Built
      /\ \A k : InStep(k)' = InStep(k)
  BY InStepFrame
<1>2. \A r, k : Flights(r, k)' = Flights(r, k)
  BY <1>1 DEF Flights
<1>3. StepsInFlight'
  BY <1>1, <1>2 DEF FlightsInv, StepsInFlight
<1>4. DropsNoneBefore' /\ HeldWhileBuilt'
  BY <1>1 DEF FlightsInv, DropsNoneBefore, HeldWhileBuilt
<1> QED BY <1>3, <1>4 DEF FlightsInv

\* Planning gives each planned request a task.
LEMMA ScheduleFlights ==
  ASSUME FlightsInv, Schedule
  PROVE  FlightsInv'
<1>0. PICK S \in SUBSET {r \in Requests : Plannable(r)} :
         \E task \in [S -> 0..Max({PromptLen} \cup {req[r].left : r \in S})] :
           /\ planned' = S
           /\ req' = [r \in Requests |-> IF r \in S
                THEN [req[r] EXCEPT !.task = task[r], !.left = @ - task[r]]
                ELSE req[r]]
  BY Zenon DEF Schedule
<1>1. PICK task \in [S -> 0..Max({PromptLen} \cup {req[r].left : r \in S})] :
         /\ planned' = S
         /\ req' = [r \in Requests |-> IF r \in S
              THEN [req[r] EXCEPT !.task = task[r], !.left = @ - task[r]]
              ELSE req[r]]
  BY <1>0
<1>2. /\ \A r \in Requests : /\ DOMAIN req'[r] = DOMAIN req[r]
                             /\ req'[r].inflight = req[r].inflight
      /\ DOMAIN req' = Requests
  BY <1>1 DEF FlightsInv, EngineShape, ReqFields
<1>3. EngineShape'
  BY <1>1, <1>2 DEF FlightsInv, EngineShape
<1>4. PlannedHaveTasks'
  <2>1. \A r \in S : req'[r].task = task[r]
    BY <1>1 DEF FlightsInv, EngineShape, ReqFields
  <2>2. \A r \in S : task[r] # -1
    <3> DEFINE top == Max({PromptLen} \cup {req[r].left : r \in S})
    <3>1. task \in [S -> 0..top]
      BY <1>1
    <3> HIDE DEF top
    <3> QED BY <3>1
  <2> QED BY <1>1, <2>1, <2>2 DEF PlannedHaveTasks, HasPlanningTask, NoTask
<1>5. UNCHANGED <<finish_ids, recompute_ids, executor_pipeline_depth,
                  schedule_output_queue, resources, model_input_queue, output,
                  results>>
  BY Zenon DEF Schedule, preprocess, execute
<1>6. DroppedIsDrained'
  BY <1>2, <1>5 DEF FlightsInv, DroppedIsDrained
<1> QED BY <1>2, <1>3, <1>4, <1>5, <1>6, FrameFlights

\* Requests leave a planned output, or the output is dropped.
LEMMA DropFlights ==
  ASSUME FlightsInv, DropStopped \/ DropStaleOutput
  PROVE  FlightsInv'
<1>1. /\ planned' \subseteq planned
      /\ UNCHANGED <<req, finish_ids, recompute_ids, executor_pipeline_depth,
                     schedule_output_queue, resources, model_input_queue,
                     output, results>>
  BY DEF DropStopped, DropStaleOutput, NoPlan, preprocess, execute
<1>2. EngineShape' /\ PlannedHaveTasks' /\ DroppedIsDrained'
  BY <1>1 DEF FlightsInv, EngineShape, PlannedHaveTasks, DroppedIsDrained,
              HasPlanningTask
<1> QED BY <1>1, <1>2, FrameFlights

\* Block pressure stops a request; its steps stay in flight.
LEMMA StopFlights ==
  ASSUME FlightsInv, NEW r \in Requests, Stop(r)
  PROVE  FlightsInv'
<1>1. req' = [req EXCEPT ![r].stopped = TRUE]
  BY DEF Stop
<1>2. /\ DOMAIN req' = Requests
      /\ \A x \in Requests : /\ DOMAIN req'[x] = DOMAIN req[x]
                             /\ req'[x].inflight = req[x].inflight
                             /\ req'[x].task = req[x].task
  BY <1>1 DEF FlightsInv, EngineShape, ReqFields
<1>3. EngineShape' /\ PlannedHaveTasks' /\ DroppedIsDrained'
  BY <1>2 DEF FlightsInv, EngineShape, PlannedHaveTasks, DroppedIsDrained,
              HasPlanningTask, Stop
<1> QED BY <1>2, <1>3, FrameFlights DEF Stop, preprocess, execute

\* A recomputed request has drained, and no planned output holds it.
LEMMA RecomputeFlights ==
  ASSUME FlightsInv, NEW r \in Requests, Recompute(r), ~Replay
  PROVE  FlightsInv'
<1>1. /\ req[r].inflight = <<>>
      /\ r \notin planned
      /\ recompute_ids' = recompute_ids \cup {r}
      /\ UNCHANGED <<planned, finish_ids>>
      /\ req' = [req EXCEPT ![r] =
           [@ EXCEPT !.prefilling = Len(req[r].out), !.left = Len(req[r].out),
                     !.task = NoTask, !.fwd = 0, !.stopped = FALSE]]
  BY DEF Recompute
<1>2. /\ DOMAIN req' = Requests
      /\ \A x \in Requests : /\ DOMAIN req'[x] = DOMAIN req[x]
                             /\ req'[x].inflight = req[x].inflight
                             /\ x # r => req'[x].task = req[x].task
  BY <1>1 DEF FlightsInv, EngineShape, ReqFields
<1>3. EngineShape' /\ PlannedHaveTasks' /\ DroppedIsDrained'
  BY <1>1, <1>2 DEF FlightsInv, EngineShape, PlannedHaveTasks,
                    DroppedIsDrained, HasPlanningTask
<1> QED BY <1>2, <1>3, FrameFlights DEF Recompute, preprocess, execute

\* A launch starts one step of each request that is still running, and the
\* requests it drops have none.
LEMMA LaunchFlights ==
  ASSUME PipelineInv, FlightsInv, TryToLaunchPlannedScheduleOutput
  PROVE  FlightsInv'
<1> DEFINE running == planned \ Stopped(planned)
           depth == executor_pipeline_depth
<1>1. Launching(planned) = running /\ running \subseteq Requests
  BY DEF FlightsInv, EngineShape, PlannedHaveTasks, Launching, Stopped
<1>2. /\ planned' = {} /\ finish_ids' = {} /\ recompute_ids' = {}
      /\ UNCHANGED <<resources, model_input_queue, output, results>>
      /\ req' = [r \in Requests |-> IF r \in running
           THEN [req[r] EXCEPT !.task = NoTask,
                               !.fwd = LaunchedStep(r).len,
                               !.inflight = Append(@, LaunchedStep(r).kind)]
           ELSE req[r]]
  BY <1>1, Zenon DEF TryToLaunchPlannedScheduleOutput, NoPlan, preprocess, execute
<1>3. PICK o :
         /\ schedule_output_queue' = Append(schedule_output_queue, o)
         /\ o.finish = finish_ids /\ o.recompute = recompute_ids
  <2> DEFINE steps == [r \in running |->
               IF r \in Launching(planned) THEN LaunchedStep(r) ELSE LiveStep(r)]
             new == [steps |-> steps, finish |-> finish_ids,
                     recompute |-> recompute_ids]
  <2>1. schedule_output_queue' = Append(schedule_output_queue, new)
    BY Zenon DEF TryToLaunchPlannedScheduleOutput
  <2>2. new.finish = finish_ids /\ new.recompute = recompute_ids
    OBVIOUS
  <2> HIDE DEF new
  <2> QED BY <2>1, <2>2
<1>4. /\ depth' = depth + 1 /\ depth' \in 1..2
      /\ Built' = Built /\ Returned' = Returned
      /\ \A k \in 1..depth : InStep(k)' = InStep(k)
      /\ InStep(executor_pipeline_depth)' = running
  BY InStepLaunch
<1>5. depth \in 0..1 /\ Built \in Nat /\ Built <= depth
      /\ depth = Built + Len(schedule_output_queue)
  BY <1>4, Lengths
<1>6. /\ DOMAIN req' = Requests
      /\ \A r \in Requests :
           /\ DOMAIN req'[r] = ReqFields
           /\ r \in running => \E x : req'[r].inflight = Append(req[r].inflight, x)
           /\ r \notin running => req'[r].inflight = req[r].inflight
  <2>1. DOMAIN req' = Requests
    BY <1>2
  <2>2. ASSUME NEW r \in Requests
        PROVE  /\ DOMAIN req'[r] = ReqFields
               /\ r \in running =>
                    \E x : req'[r].inflight = Append(req[r].inflight, x)
               /\ r \notin running => req'[r].inflight = req[r].inflight
    <3>1. CASE r \in running
      <4>1. req'[r] = [req[r] EXCEPT !.task = NoTask,
                                     !.fwd = LaunchedStep(r).len,
                                     !.inflight = Append(@, LaunchedStep(r).kind)]
        BY <1>2, <3>1
      <4>2. DOMAIN req[r] = ReqFields /\ "inflight" \in ReqFields
        BY DEF FlightsInv, EngineShape, ReqFields
      <4> HIDE DEF running
      <4>3. req'[r].inflight = Append(req[r].inflight, LaunchedStep(r).kind)
        BY <4>1, <4>2
      <4> QED BY <4>1, <4>2, <4>3, <3>1
    <3>2. CASE r \notin running
      BY <1>2, <3>2 DEF FlightsInv, EngineShape
    <3> QED BY <3>1, <3>2
  <2> QED BY <2>1, <2>2
<1>7. \A r \in Requests :
        /\ Sequence(req'[r].inflight)
        /\ Len(req'[r].inflight) =
             Len(req[r].inflight) + (IF r \in running THEN 1 ELSE 0)
        /\ Len(req[r].inflight) \in Nat
  <2> SUFFICES ASSUME NEW r \in Requests
               PROVE  /\ Sequence(req'[r].inflight)
                      /\ Len(req'[r].inflight) =
                           Len(req[r].inflight) + (IF r \in running THEN 1 ELSE 0)
                      /\ Len(req[r].inflight) \in Nat
    OBVIOUS
  <2> HIDE DEF running
  <2>1. Sequence(req[r].inflight)
    BY DEF FlightsInv, EngineShape
  <2>2. Len(req[r].inflight) \in Nat
    BY <2>1, SequenceLen
  <2>3. CASE r \in running
    <3>1. PICK x : req'[r].inflight = Append(req[r].inflight, x)
      BY <2>3, <1>6
    <3>2. /\ Sequence(Append(req[r].inflight, x))
          /\ Len(Append(req[r].inflight, x)) = Len(req[r].inflight) + 1
      BY <2>1, SequenceAppend
    <3> QED BY <2>2, <2>3, <3>1, <3>2
  <2>4. CASE r \notin running
    <3>1. req'[r].inflight = req[r].inflight
      BY <2>4, <1>6
    <3> QED BY <2>1, <2>2, <2>4, <3>1
  <2> QED BY <2>3, <2>4
<1>8. EngineShape'
  BY <1>2, <1>6, <1>7 DEF EngineShape
<1>9. ASSUME NEW r \in Requests
      PROVE  Flights(r, 1)' + Flights(r, 2)' =
               Flights(r, 1) + Flights(r, 2) + (IF r \in running THEN 1 ELSE 0)
  <2>1. CASE depth = 0
    <3>1. InStep(1)' = running
      BY <1>4, <2>1
    <3> QED BY <2>1, <3>1, <1>4 DEF Flights
  <2>2. CASE depth = 1
    <3>1. InStep(1)' = InStep(1) /\ InStep(2)' = running
      BY <1>4, <2>2
    <3> QED BY <2>2, <3>1, <1>4 DEF Flights
  <2> QED BY <2>1, <2>2, <1>5
<1>10. StepsInFlight'
  <2>1. \A r \in Requests :
          Len(req'[r].inflight) = Flights(r, 1)' + Flights(r, 2)'
    BY <1>7, <1>9 DEF FlightsInv, StepsInFlight
  <2>2. \A k \in 1..depth' : InStep(k)' \subseteq Requests
    BY <1>1, <1>4, <1>5 DEF FlightsInv, StepsInFlight
  <2> QED BY <2>1, <2>2 DEF StepsInFlight
<1>11. PlannedHaveTasks' /\ DroppedIsDrained'
  BY <1>2 DEF PlannedHaveTasks, DroppedIsDrained
\* What the new output drops is in no output under way.
<1>12. \A k \in 1..depth : InStep(k) \cap (o.finish \cup o.recompute) = {}
  <2> SUFFICES ASSUME NEW k \in 1..depth, NEW r \in InStep(k),
                      r \in finish_ids \cup recompute_ids
               PROVE  FALSE
    BY <1>3
  <2>1. r \in Requests /\ Len(req[r].inflight) = 0
    BY SequenceEmpty DEF FlightsInv, DroppedIsDrained
  <2>2. k = 1 /\ Flights(r, 1) = 1 /\ Flights(r, 2) \in 0..1
    BY <1>5 DEF Flights
  <2> QED BY <2>1, <2>2 DEF FlightsInv, StepsInFlight
<1>13. DropsNoneBefore'
  <2>1. /\ DOMAIN schedule_output_queue' = 1..(Len(schedule_output_queue) + 1)
        /\ \A i \in 1..Len(schedule_output_queue) :
             schedule_output_queue'[i] = schedule_output_queue[i]
        /\ schedule_output_queue'[Len(schedule_output_queue) + 1] = o
    BY <1>3, SequenceAppend DEF PipelineInv, QueueShape
  <2>2. Len(schedule_output_queue) \in Nat
        /\ DOMAIN schedule_output_queue = 1..Len(schedule_output_queue)
    BY Lengths
  <2> SUFFICES ASSUME NEW i \in DOMAIN schedule_output_queue',
                      NEW k \in 1..(Built + i - 1)
               PROVE  InStep(k)' \cap (schedule_output_queue'[i].finish
                        \cup schedule_output_queue'[i].recompute) = {}
    BY <1>4 DEF DropsNoneBefore
  <2>3. i \in Nat /\ i <= Len(schedule_output_queue) + 1
    BY <2>1, <2>2
  <2>4. k \in 1..depth /\ InStep(k)' = InStep(k)
    BY <2>3, <1>4, <1>5
  <2>5. CASE i = Len(schedule_output_queue) + 1
    BY <2>1, <2>4, <2>5, <1>12
  <2>6. CASE i \in 1..Len(schedule_output_queue)
    BY <2>1, <2>2, <2>4, <2>6 DEF FlightsInv, DropsNoneBefore
  <2> QED BY <2>1, <2>5, <2>6, <2>2, <2>3
<1>14. HeldWhileBuilt'
  <2>1. ASSUME NEW k \in (Returned' + 1)..Built'
        PROVE  InStep(k)' \subseteq resources'
    <3>1. k \in 1..depth /\ k \in (Returned + 1)..Built
      BY <1>4, Lengths
    <3> QED BY <3>1, <1>2, <1>4 DEF FlightsInv, HeldWhileBuilt
  <2> QED BY <2>1 DEF HeldWhileBuilt
<1> QED BY <1>8, <1>10, <1>11, <1>13, <1>14 DEF FlightsInv

\* An output that comes back ends one step of each request it holds.
LEMMA ReturnFlights ==
  ASSUME PipelineInv, FlightsInv, UpdateWithGenerationResult
  PROVE  FlightsInv'
<1> DEFINE gen == Head(results)
           back == {r \in DOMAIN gen : req[r].inflight # <<>>}
           depth == executor_pipeline_depth
<1>1. /\ req' = [r \in Requests |-> IF r \in back THEN Retired(r, gen[r])
                                                  ELSE req[r]]
      /\ finish_ids' = finish_ids \cup
           {r \in back : req'[r].ended /\ req'[r].inflight = <<>>}
      /\ UNCHANGED <<planned, recompute_ids, schedule_output_queue, resources,
                     model_input_queue, output>>
  BY Zenon DEF UpdateWithGenerationResult, preprocess, execute
<1>2. /\ depth \in 1..2
      /\ depth' = depth - 1
      /\ Built' = Built - 1 /\ Returned' = Returned - 1 /\ Returned > 0
      /\ \A k \in 1..depth' : InStep(k)' = InStep(k + 1)
      /\ InStep(1) = DOMAIN gen
  BY InStepReturn
<1> HIDE DEF gen
<1>3. \A r \in Requests :
        /\ Sequence(req[r].inflight)
        /\ Len(req[r].inflight) \in Nat
        /\ req[r].inflight = <<>> <=> Len(req[r].inflight) = 0
        /\ Len(req[r].inflight) = Flights(r, 1) + Flights(r, 2)
        /\ DOMAIN req[r] = ReqFields
  BY SequenceLen DEF FlightsInv, EngineShape, StepsInFlight
<1>4. back = InStep(1) /\ back \subseteq Requests
  <2>1. InStep(1) \subseteq Requests
    BY <1>2 DEF FlightsInv, StepsInFlight
  <2>2. ASSUME NEW r \in InStep(1) PROVE req[r].inflight # <<>>
    <3>1. Flights(r, 1) = 1 /\ Flights(r, 2) \in 0..1
      BY <1>2 DEF Flights
    <3> QED BY <2>1, <3>1, <1>3
  <2> QED BY <2>1, <2>2, <1>2
<1> HIDE DEF back
<1>5. /\ DOMAIN req' = Requests
      /\ \A r \in back : /\ DOMAIN req'[r] = ReqFields
                         /\ req'[r].inflight = Tail(req[r].inflight)
                         /\ req'[r].task = req[r].task
      /\ \A r \in Requests \ back : req'[r] = req[r]
  <2>1. DOMAIN req' = Requests
    BY <1>1
  <2>2. \A r \in Requests \ back : req'[r] = req[r]
    BY <1>1
  <2>3. ASSUME NEW r \in back
        PROVE  /\ DOMAIN req'[r] = ReqFields
               /\ req'[r].inflight = Tail(req[r].inflight)
               /\ req'[r].task = req[r].task
    <3>1. req'[r] = Retired(r, gen[r])
      BY <1>1, <1>4
    <3>2. DOMAIN req[r] = ReqFields
      BY <1>3, <1>4
    <3> QED BY <3>1, <3>2 DEF Retired, ReqFields
  <2> QED BY <2>1, <2>2, <2>3
<1>6. \A r \in Requests :
        /\ Sequence(req'[r].inflight)
        /\ Len(req'[r].inflight) =
             Len(req[r].inflight) - (IF r \in back THEN 1 ELSE 0)
  <2> SUFFICES ASSUME NEW r \in Requests
               PROVE  /\ Sequence(req'[r].inflight)
                      /\ Len(req'[r].inflight) =
                           Len(req[r].inflight) - (IF r \in back THEN 1 ELSE 0)
    OBVIOUS
  <2>1. CASE r \in back
    <3>1. Sequence(req[r].inflight) /\ Len(req[r].inflight) \in Nat
      BY <1>3
    <3>2. req[r].inflight # <<>>
      BY <2>1 DEF back
    <3>3. /\ Sequence(Tail(req[r].inflight))
          /\ Len(Tail(req[r].inflight)) = Len(req[r].inflight) - 1
      BY <3>1, <3>2, SequenceTail
    <3> QED BY <2>1, <3>3, <1>5
  <2>2. CASE r \notin back
    <3>1. req'[r] = req[r]
      BY <2>2, <1>5
    <3>2. Sequence(req[r].inflight) /\ Len(req[r].inflight) \in Nat
      BY <1>3
    <3> QED BY <2>2, <3>1, <3>2
  <2> QED BY <2>1, <2>2
<1>7. EngineShape'
  <2>1. \A r \in Requests : DOMAIN req'[r] = ReqFields
    BY <1>3, <1>5
  <2> QED BY <2>1, <1>1, <1>5, <1>6 DEF FlightsInv, EngineShape
<1>8. ASSUME NEW r \in Requests
      PROVE  Flights(r, 1)' + Flights(r, 2)' =
               (Flights(r, 1) + Flights(r, 2)) - (IF r \in back THEN 1 ELSE 0)
  <2>1. CASE depth = 1
    BY <2>1, <1>2, <1>4 DEF Flights
  <2>2. CASE depth = 2
    <3>1. InStep(1)' = InStep(2)
      BY <1>2, <2>2
    <3> QED BY <2>2, <3>1, <1>2, <1>4 DEF Flights
  <2> QED BY <2>1, <2>2, <1>2
<1>9. StepsInFlight'
  <2>1. ASSUME NEW r \in Requests
        PROVE  Len(req'[r].inflight) = Flights(r, 1)' + Flights(r, 2)'
    <3>1. /\ Len(req'[r].inflight) =
               Len(req[r].inflight) - (IF r \in back THEN 1 ELSE 0)
          /\ Len(req[r].inflight) = Flights(r, 1) + Flights(r, 2)
      BY <1>3, <1>6
    <3> QED BY <3>1, <1>8
  <2>2. \A k \in 1..depth' : InStep(k)' \subseteq Requests
    BY <1>2 DEF FlightsInv, StepsInFlight
  <2> QED BY <2>1, <2>2 DEF StepsInFlight
<1>10. PlannedHaveTasks'
  <2>1. \A r \in Requests : req'[r].task = req[r].task
    BY <1>5
  <2> QED BY <2>1, <1>1 DEF FlightsInv, EngineShape, PlannedHaveTasks,
                            HasPlanningTask
<1>11. DroppedIsDrained'
  <2> SUFFICES ASSUME NEW r \in finish_ids' \cup recompute_ids'
               PROVE  r \in Requests /\ req'[r].inflight = <<>>
    BY DEF DroppedIsDrained
  <2>1. CASE r \in finish_ids \cup recompute_ids
    <3>1. r \in Requests /\ req[r].inflight = <<>>
      BY <2>1 DEF FlightsInv, DroppedIsDrained
    <3> QED BY <3>1, <1>5 DEF back
  <2>2. CASE r \in back /\ req'[r].inflight = <<>>
    BY <2>2, <1>4
  <2> QED BY <2>1, <2>2, <1>1
<1>12. DropsNoneBefore'
  <2>1. ASSUME NEW i \in DOMAIN schedule_output_queue,
               NEW k \in 1..(Built' + i - 1)
        PROVE  InStep(k)' \cap (schedule_output_queue[i].finish
                 \cup schedule_output_queue[i].recompute) = {}
    <3>1. i \in 1..Len(schedule_output_queue) /\ Built \in Nat
          /\ depth = Built + Len(schedule_output_queue)
      BY Lengths
    <3>2. k \in 1..depth' /\ k + 1 \in 1..(Built + i - 1)
      BY <3>1, <1>2
    <3> QED BY <3>2, <1>2 DEF FlightsInv, DropsNoneBefore
  <2> QED BY <2>1, <1>1 DEF DropsNoneBefore
<1>13. HeldWhileBuilt'
  <2>1. ASSUME NEW k \in (Returned' + 1)..Built'
        PROVE  InStep(k)' \subseteq resources
    <3>1. /\ Returned \in Nat /\ Built \in Nat /\ Returned > 0
          /\ depth = Built + Len(schedule_output_queue)
          /\ Len(schedule_output_queue) \in Nat
      BY <1>2, Lengths
    <3>2. k \in 1..depth' /\ k + 1 \in (Returned + 1)..Built
      BY <3>1, <1>2
    <3> QED BY <3>2, <1>2 DEF FlightsInv, HeldWhileBuilt
  <2> QED BY <2>1, <1>1 DEF HeldWhileBuilt
<1> QED BY <1>7, <1>9, <1>10, <1>11, <1>12, <1>13 DEF FlightsInv

\* HandlePreprocess frees what the output drops and gives to each request it
\* holds: the batch that is already built keeps what it has.
LEMMA PreprocessFlights ==
  ASSUME PipelineInv, FlightsInv, HandlePreprocess
  PROVE  FlightsInv'
<1> DEFINE o == Head(schedule_output_queue)
           depth == executor_pipeline_depth
<1>1. /\ schedule_output_queue # <<>>
      /\ schedule_output_queue' = Tail(schedule_output_queue)
      /\ resources' = (resources \ (o.finish \cup o.recompute)) \cup DOMAIN o.steps
      /\ UNCHANGED <<req, planned, finish_ids, recompute_ids>>
  BY PreprocessStep DEF AfterProcess
<1>2. /\ depth' = depth
      /\ Built' = Built + 1 /\ Returned' = Returned
      /\ Built + 1 <= depth
      /\ InStep(Built + 1) = DOMAIN o.steps
      /\ \A k \in 1..depth : InStep(k)' = InStep(k)
  BY InStepPreprocess
<1> HIDE DEF o
<1>3. /\ Len(schedule_output_queue) > 0
      /\ DOMAIN schedule_output_queue' = 1..(Len(schedule_output_queue) - 1)
      /\ \A i \in 1..(Len(schedule_output_queue) - 1) :
           schedule_output_queue'[i] = schedule_output_queue[i + 1]
      /\ o = schedule_output_queue[1]
  BY <1>1, SequenceTail DEF PipelineInv, QueueShape, o
<1>4. /\ Built \in Nat /\ Returned \in Nat /\ Len(schedule_output_queue) \in Nat
      /\ DOMAIN schedule_output_queue = 1..Len(schedule_output_queue)
      /\ depth = Built + Len(schedule_output_queue)
      /\ depth \in 0..2
  BY Lengths
<1>5. EngineShape' /\ PlannedHaveTasks' /\ DroppedIsDrained'
  BY <1>1 DEF FlightsInv, EngineShape, PlannedHaveTasks, DroppedIsDrained,
              HasPlanningTask
<1>6. StepsInFlight'
  <2>1. ASSUME NEW r, NEW k \in 1..2 PROVE Flights(r, k)' = Flights(r, k)
    BY <1>2, <1>4 DEF Flights
  <2>2. \A k \in 1..depth' : InStep(k)' \subseteq Requests
    BY <1>2 DEF FlightsInv, StepsInFlight
  <2> QED BY <2>1, <2>2, <1>1 DEF FlightsInv, StepsInFlight
<1>7. DropsNoneBefore'
  <2>1. ASSUME NEW i \in DOMAIN schedule_output_queue',
               NEW k \in 1..(Built' + i - 1)
        PROVE  InStep(k)' \cap (schedule_output_queue'[i].finish
                 \cup schedule_output_queue'[i].recompute) = {}
    <3>1. i + 1 \in DOMAIN schedule_output_queue
          /\ schedule_output_queue'[i] = schedule_output_queue[i + 1]
      BY <1>3, <1>4
    <3>2. k \in 1..(Built + (i + 1) - 1) /\ k \in 1..depth
      BY <1>2, <1>3, <1>4
    <3> QED BY <3>1, <3>2, <1>2 DEF FlightsInv, DropsNoneBefore
  <2> QED BY <2>1 DEF DropsNoneBefore
<1>8. HeldWhileBuilt'
  <2>1. ASSUME NEW k \in (Returned' + 1)..Built'
        PROVE  InStep(k)' \subseteq resources'
    <3>1. k \in 1..depth /\ k <= Built + 1 /\ k >= Returned + 1
      BY <1>2, <1>4
    <3>2. CASE k = Built + 1
      BY <3>1, <3>2, <1>1, <1>2
    <3>3. CASE k <= Built
      <4>1. InStep(k) \subseteq resources
        BY <3>1, <3>3, <1>4 DEF FlightsInv, HeldWhileBuilt
      <4>2. InStep(k) \cap (o.finish \cup o.recompute) = {}
        <5>1. 1 \in DOMAIN schedule_output_queue /\ k \in 1..(Built + 1 - 1)
          BY <3>1, <3>3, <1>3, <1>4
        <5> QED BY <5>1, <1>3 DEF FlightsInv, DropsNoneBefore
      <4> QED BY <3>1, <4>1, <4>2, <1>1, <1>2
    <3> QED BY <3>1, <3>2, <3>3, <1>4
  <2> QED BY <2>1 DEF HeldWhileBuilt
<1> QED BY <1>5, <1>6, <1>7, <1>8 DEF FlightsInv

\* Forward and HandlePostprocess move a batch on; the one that is sampled
\* needs its resources no longer.
LEMMA ExecuteFlights ==
  ASSUME PipelineInv, FlightsInv, ExecuteForward \/ HandlePostprocess
  PROVE  FlightsInv'
<1> DEFINE depth == executor_pipeline_depth
<1>1. /\ depth' = depth /\ Built' = Built
      /\ Returned' \in {Returned, Returned + 1}
      /\ \A k \in 1..depth : InStep(k)' = InStep(k)
  BY InStepForward, InStepPostprocess
<1>2. UNCHANGED <<req, planned, finish_ids, recompute_ids, resources,
                  schedule_output_queue>>
  BY DEF ExecuteForward, HandlePostprocess, engine, preprocess
<1>3. /\ Built \in Nat /\ Returned \in Nat /\ Len(schedule_output_queue) \in Nat
      /\ DOMAIN schedule_output_queue = 1..Len(schedule_output_queue)
      /\ depth = Built + Len(schedule_output_queue)
      /\ depth \in 0..2
  BY Lengths
<1>4. EngineShape' /\ PlannedHaveTasks' /\ DroppedIsDrained'
  BY <1>2 DEF FlightsInv, EngineShape, PlannedHaveTasks, DroppedIsDrained,
              HasPlanningTask
<1>5. StepsInFlight'
  <2>1. ASSUME NEW r, NEW k \in 1..2 PROVE Flights(r, k)' = Flights(r, k)
    BY <1>1, <1>3 DEF Flights
  <2>2. \A k \in 1..depth' : InStep(k)' \subseteq Requests
    BY <1>1 DEF FlightsInv, StepsInFlight
  <2> QED BY <2>1, <2>2, <1>2 DEF FlightsInv, StepsInFlight
<1>6. DropsNoneBefore'
  <2>1. ASSUME NEW i \in DOMAIN schedule_output_queue,
               NEW k \in 1..(Built + i - 1)
        PROVE  InStep(k)' \cap (schedule_output_queue[i].finish
                 \cup schedule_output_queue[i].recompute) = {}
    <3>1. k \in 1..depth
      BY <1>3
    <3> QED BY <3>1, <1>1 DEF FlightsInv, DropsNoneBefore
  <2> QED BY <2>1, <1>1, <1>2 DEF DropsNoneBefore
<1>7. HeldWhileBuilt'
  <2>1. ASSUME NEW k \in (Returned' + 1)..Built'
        PROVE  InStep(k)' \subseteq resources
    <3>1. k \in (Returned + 1)..Built
      <4>1. CASE Returned' = Returned
        BY <4>1, <1>1, <1>3
      <4>2. CASE Returned' = Returned + 1
        BY <4>2, <1>1, <1>3
      <4> QED BY <4>1, <4>2, <1>1
    <3>2. k \in 1..depth
      BY <3>1, <1>3
    <3> QED BY <3>1, <3>2, <1>1 DEF FlightsInv, HeldWhileBuilt
  <2> QED BY <2>1, <1>2 DEF HeldWhileBuilt
<1> QED BY <1>4, <1>5, <1>6, <1>7 DEF FlightsInv

\* Every step keeps the flights.
LEMMA NextFlights ==
  PipelineInv /\ FlightsInv /\ ~Replay /\ [Next]_vars => FlightsInv'
<1> SUFFICES ASSUME PipelineInv, FlightsInv, ~Replay, [Next]_vars
             PROVE  FlightsInv'
  OBVIOUS
<1>1. CASE Schedule
  BY <1>1, ScheduleFlights
<1>2. CASE DropStopped \/ DropStaleOutput
  BY <1>2, DropFlights
<1>3. CASE TryToLaunchPlannedScheduleOutput
  BY <1>3, LaunchFlights
<1>4. CASE UpdateWithGenerationResult
  BY <1>4, ReturnFlights
<1>5. ASSUME NEW r \in Requests, Stop(r) PROVE FlightsInv'
  BY <1>5, StopFlights
<1>6. ASSUME NEW r \in Requests, Recompute(r) PROVE FlightsInv'
  BY <1>6, RecomputeFlights
<1>7. CASE HandlePreprocess
  BY <1>7, PreprocessFlights
<1>8. CASE ExecuteForward \/ HandlePostprocess
  BY <1>8, ExecuteFlights
<1>9. CASE Idle \/ UNCHANGED vars
  <2>1. UNCHANGED <<req, planned, finish_ids, recompute_ids, resources,
                    executor_pipeline_depth, schedule_output_queue,
                    model_input_queue, output, results>>
    BY <1>9 DEF Idle, vars, engine, preprocess, execute
  <2>2. EngineShape' /\ PlannedHaveTasks' /\ DroppedIsDrained'
    BY <2>1 DEF FlightsInv, EngineShape, PlannedHaveTasks, DroppedIsDrained,
                HasPlanningTask
  <2> QED BY <2>1, <2>2, FrameFlights
<1> QED BY <1>1, <1>2, <1>3, <1>4, <1>5, <1>6, <1>7, <1>8, <1>9 DEF Next

\* What HeldWhileBuilt says of positions, said of batches.
LEMMA HeldResources ==
  ASSUME PipelineInv, FlightsInv
  PROVE  ResourcesHeld
<1>1. ASSUME NEW i \in DOMAIN model_input_queue
      PROVE  ToSet(model_input_queue[i].reqs) \subseteq resources
  <2> DEFINE k == Sampling + i
  <2>1. /\ k \in (Returned + 1)..Built /\ k - Sampling = i
        /\ ~(k <= Returned) /\ ~(k <= Sampling) /\ k <= Built
    BY Lengths
  <2> HIDE DEF k
  <2>2. InStep(k) = ToSet(model_input_queue[i].reqs)
    BY <2>1 DEF InStep
  <2> QED BY <2>1, <2>2 DEF FlightsInv, HeldWhileBuilt
<1>2. ToSet(output.reqs) \subseteq resources
  <2>1. CASE output = NoOutput
    BY <2>1, SequenceEmpty DEF NoOutput, ToSet
  <2>2. CASE output # NoOutput
    <3>1. Sampling = Returned + 1
      BY <2>2 DEF Sampling
    <3>2. /\ Sampling \in (Returned + 1)..Built
          /\ ~(Sampling <= Returned) /\ Sampling <= Sampling
      BY <3>1, Lengths
    <3>3. InStep(Sampling) = ToSet(output.reqs)
      BY <3>2 DEF InStep
    <3> QED BY <3>2, <3>3 DEF FlightsInv, HeldWhileBuilt
  <2> QED BY <2>1, <2>2
<1> QED BY <1>1, <1>2 DEF ResourcesHeld

\* Nothing that a batch uses is given to another before the batch is sampled:
\* neither its input slot nor, as long as no request is recomputed while a
\* planned output holds it, the resources of its requests.
THEOREM NothingReusedEarlyCorrect ==
  ASSUME ~Replay
  PROVE  Spec => []NothingReusedEarly
<1>1. Init => PipelineInv /\ FlightsInv
  BY InitPipeline, InitFlights
<1>2. PipelineInv /\ FlightsInv /\ [Next]_vars => (PipelineInv /\ FlightsInv)'
  BY NextPipeline, NextFlights
<1>3. PipelineInv /\ FlightsInv => NothingReusedEarly
  BY HeldResources DEF PipelineInv, NothingReusedEarly
<1> QED BY <1>1, <1>2, <1>3, PTL DEF Spec

-----------------------------------------------------------------------------
(* What a request has of its text *)

Mid == "prefill_chunk_mid"
Kinds == {Mid, "prefill", "decode"}
InPrompt(q) == q.left > 0 \/ q.task > 0

\* The output is the text, and open as long as the request goes on.
OutIsText(r, q, end) ==
  /\ Len(q.out) \in Nat \ {0}
  /\ q.out = Text(r, Len(q.out))
  /\ Len(q.out) <= end
  /\ ~q.ended => Len(q.out) < end

Counters(q) ==
  /\ q.left \in Nat /\ q.fwd \in Nat
  /\ q.task \in Nat \cup {NoTask}
  /\ q.task = 0 => q.left = 0
  /\ q.stopped \in BOOLEAN /\ q.ended \in BOOLEAN
  /\ q.ended => q.stopped

\* Behind a step that samples only a decode step is in flight, and a decode step
\* only behind one.
InflightKinds(q) ==
  /\ \A i \in 1..Len(q.inflight) : q.inflight[i] \in Kinds
  /\ Len(q.inflight) = 2 => (q.inflight[1] # Mid <=> q.inflight[2] = "decode")

\* Until its last chunk is launched the prompt is split into what was
\* forwarded, what is planned and what is left.
PromptPhase(q) ==
  InPrompt(q) =>
    /\ ~q.stopped
    /\ \A i \in 1..Len(q.inflight) : q.inflight[i] = Mid
    /\ q.fwd + (IF q.task > 0 THEN q.task ELSE 0) + q.left = q.prefilling
    /\ q.prefilling = Len(q.out)

\* Then it is one sample behind its newest step, or two.
DecodePhase(q) ==
  ~InPrompt(q) =>
    /\ q.inflight # <<>> => q.inflight[Len(q.inflight)] # Mid /\ q.fwd > 0
    /\ ~q.stopped => q.inflight # <<>>
    /\ ~q.ended /\ q.inflight # <<>> =>
         q.fwd = Len(q.out)
                   + (IF Len(q.inflight) = 2 /\ q.inflight[1] # Mid THEN 1 ELSE 0)

RequestOK(r, q, end) ==
  /\ OutIsText(r, q, end)
  /\ Counters(q)
  /\ InflightKinds(q)
  /\ PromptPhase(q)
  /\ DecodePhase(q)

\* A text and its length.
LEMMA TextFacts ==
  ASSUME NEW r, NEW n \in Nat
  PROVE  /\ Sequence(Text(r, n))
         /\ Len(Text(r, n)) = n
         /\ \A p \in 1..n : Text(r, n)[p] = <<r, p>>
<1>1. Text(r, n) = [p \in 1..n |-> Text(r, n)[p]]
  BY DEF Text
<1> QED BY <1>1, SequenceOfFunction DEF Text

\* One more token.
LEMMA TextGrows ==
  ASSUME NEW r, NEW n \in Nat
  PROVE  Text(r, n) \o <<<<r, n + 1>>>> = Text(r, n + 1)
<1> DEFINE S == {<<r, p>> : p \in Nat}
           t == <<<<r, n + 1>>>>
           u == Text(r, n) \o t
<1>1. Text(r, n) \in Seq(S) /\ Len(Text(r, n)) = n
  <2>1. Text(r, n) \in [1..n -> S]
    BY DEF Text
  <2> QED BY <2>1, TextFacts, SeqDef
<1>2. t \in Seq(S) /\ Len(t) = 1 /\ t[1] = <<r, n + 1>>
  <2>1. <<r, n + 1>> \in S
    OBVIOUS
  <2> HIDE DEF S
  <2> QED BY <2>1
<1> HIDE DEF S, t
<1>3. /\ u \in Seq(S)
      /\ Len(u) = n + 1
      /\ \A i \in 1..(n + 1) : u[i] = IF i <= n THEN Text(r, n)[i] ELSE t[i - n]
  <2> DEFINE v == Text(r, n)
  <2>1. v \in Seq(S) /\ Len(v) = n
    BY <1>1
  <2> HIDE DEF v
  <2>2. /\ v \o t \in Seq(S)
        /\ Len(v \o t) = Len(v) + Len(t)
        /\ \A i \in 1..(Len(v) + Len(t)) :
             (v \o t)[i] = IF i <= Len(v) THEN v[i] ELSE t[i - Len(v)]
    BY <1>2, <2>1, ConcatProperties
  <2> QED BY <1>2, <2>1, <2>2 DEF u, v
<1> HIDE DEF u
<1>4. u = [i \in 1..(n + 1) |-> u[i]]
  BY <1>3, LenProperties
<1>5. ASSUME NEW i \in 1..(n + 1) PROVE u[i] = <<r, i>>
  <2>1. CASE i <= n
    BY <2>1, <1>3, TextFacts
  <2>2. CASE i = n + 1
    <3>1. ~(i <= n) /\ i - n = 1
      BY <2>2
    <3> QED BY <2>2, <3>1, <1>2, <1>3
  <2> QED BY <2>1, <2>2
<1>6. u = Text(r, n + 1)
  BY <1>4, <1>5 DEF Text
<1> QED BY <1>6 DEF u, t

\* Planning takes a chunk of the prompt, or a decode step when none is left.
LEMMA PlanRequest ==
  ASSUME NEW r, NEW end, NEW q, RequestOK(r, q, end), Sequence(q.inflight),
         ~q.stopped, q.task = NoTask,
         NEW t, t \in IF q.left > 0 THEN 1..q.left
                      ELSE IF q.inflight # <<>> THEN {0} ELSE {},
         NEW p, p.task = t, p.left = q.left - t,
         p.out = q.out, p.prefilling = q.prefilling, p.fwd = q.fwd,
         p.inflight = q.inflight, p.stopped = q.stopped, p.ended = q.ended
  PROVE  RequestOK(r, p, end)
<1>1. q.left \in Nat /\ q.fwd \in Nat
  BY DEF RequestOK, Counters
<1>2. /\ t \in Nat /\ p.left \in Nat /\ (q.left > 0 => t > 0)
      /\ (q.left = 0 => t = 0) /\ t + p.left = q.left
  BY <1>1
<1>3. InPrompt(q) <=> q.left > 0
  BY DEF InPrompt, NoTask
<1>4. InPrompt(p) <=> q.left > 0
  BY <1>1, <1>2 DEF InPrompt
<1>5. OutIsText(r, p, end) /\ InflightKinds(p)
  BY DEF RequestOK, OutIsText, InflightKinds
<1>6. Counters(p)
  BY <1>1, <1>2 DEF RequestOK, Counters
<1>7. PromptPhase(p)
  BY <1>1, <1>2, <1>3, <1>4 DEF RequestOK, PromptPhase, NoTask
<1>8. DecodePhase(p)
  BY <1>1, <1>2, <1>3, <1>4 DEF RequestOK, DecodePhase
<1> QED BY <1>5, <1>6, <1>7, <1>8 DEF RequestOK

\* What a launch makes of the task.
LaunchedLen(q) == IF q.task = 0 THEN q.fwd + 1 ELSE q.fwd + q.task
LaunchedKind(q) ==
  IF q.task = 0 THEN "decode"
  ELSE IF LaunchedLen(q) < q.prefilling THEN Mid ELSE "prefill"

\* A task that is launched goes on where the last step ended: a chunk inside
\* the known text, or a decode step behind the one step in flight.
LEMMA TaskFacts ==
  ASSUME NEW r, NEW end, NEW q, RequestOK(r, q, end), Sequence(q.inflight),
         Len(q.inflight) \in 0..1, ~q.stopped, q.task # NoTask
  PROVE  /\ LaunchedLen(q) \in Nat /\ q.fwd \in Nat /\ q.fwd < LaunchedLen(q)
         /\ LaunchedKind(q) \in Kinds
         /\ LaunchedKind(q) = Mid <=> q.task > 0 /\ q.left > 0
         /\ LaunchedKind(q) = "decode" <=> q.task = 0
         /\ q.task = 0 => /\ Len(q.inflight) = 1 /\ q.inflight[1] # Mid
                          /\ ~InPrompt(q) /\ LaunchedLen(q) = Len(q.out) + 1
         /\ q.task # 0 => /\ InPrompt(q)
                          /\ LaunchedLen(q) <= Len(q.out)
                          /\ LaunchedLen(q) + q.left = Len(q.out)
                          /\ q.out[LaunchedLen(q)] = <<r, LaunchedLen(q)>>
<1>1. /\ q.task \in Nat /\ q.left \in Nat /\ q.fwd \in Nat
      /\ q.task = 0 => q.left = 0
  BY DEF RequestOK, Counters
<1>2. ~q.ended
  BY DEF RequestOK, Counters
<1>3. Len(q.out) \in Nat /\ q.out = Text(r, Len(q.out))
  BY DEF RequestOK, OutIsText
<1>4. q.inflight = <<>> <=> Len(q.inflight) = 0
  BY SequenceLen
<1>5. CASE q.task = 0
  <2>1. ~InPrompt(q)
    BY <1>1, <1>5 DEF InPrompt
  <2>2. /\ Len(q.inflight) = 1 /\ q.inflight[1] # Mid
        /\ q.fwd = Len(q.out)
    <3>1. q.inflight # <<>>
      BY <2>1 DEF RequestOK, DecodePhase
    <3>2. Len(q.inflight) = 1
      BY <1>4, <3>1
    <3> QED BY <2>1, <1>2, <1>3, <3>1, <3>2 DEF RequestOK, DecodePhase
  <2>3. LaunchedLen(q) = q.fwd + 1 /\ LaunchedKind(q) = "decode"
    BY <1>5 DEF LaunchedLen, LaunchedKind
  <2> QED BY <1>1, <1>3, <1>5, <2>1, <2>2, <2>3 DEF Kinds, Mid
<1>6. CASE q.task # 0
  <2>1. InPrompt(q) /\ q.task > 0
    BY <1>1, <1>6 DEF InPrompt
  <2>2. q.fwd + q.task + q.left = q.prefilling /\ q.prefilling = Len(q.out)
    BY <2>1 DEF RequestOK, PromptPhase
  <2>3. LaunchedLen(q) = q.fwd + q.task
    BY <1>6 DEF LaunchedLen
  <2>4. LaunchedLen(q) + q.left = Len(q.out) /\ LaunchedLen(q) \in Nat
    BY <1>1, <1>3, <2>2, <2>3
  <2>5. q.fwd < LaunchedLen(q) /\ LaunchedLen(q) <= Len(q.out)
    BY <1>1, <1>3, <2>1, <2>3, <2>4
  <2>6. /\ LaunchedKind(q) \in Kinds /\ LaunchedKind(q) # "decode"
        /\ LaunchedKind(q) = Mid <=> q.left > 0
    BY <1>1, <1>3, <1>6, <2>2, <2>4 DEF LaunchedKind, Kinds, Mid
  <2>7. q.out[LaunchedLen(q)] = <<r, LaunchedLen(q)>>
    <3>1. LaunchedLen(q) \in 1..Len(q.out)
      BY <1>1, <2>4, <2>5
    <3> QED BY <1>3, <3>1, TextFacts
  <2> QED BY <1>1, <1>6, <2>1, <2>4, <2>5, <2>6, <2>7
<1> QED BY <1>5, <1>6

\* The request behind the launch.
LEMMA LaunchRequest ==
  ASSUME NEW r, NEW end, NEW q, RequestOK(r, q, end), Sequence(q.inflight),
         Len(q.inflight) \in 0..1, ~q.stopped, q.task # NoTask,
         NEW p, p.task = NoTask, p.fwd = LaunchedLen(q),
         p.inflight = Append(q.inflight, LaunchedKind(q)),
         p.out = q.out, p.prefilling = q.prefilling, p.left = q.left,
         p.stopped = q.stopped, p.ended = q.ended
  PROVE  RequestOK(r, p, end)
<1> DEFINE n == Len(q.inflight)
<1>1. /\ q.task \in Nat /\ q.left \in Nat /\ q.fwd \in Nat
      /\ q.task = 0 => q.left = 0
      /\ Len(q.out) \in Nat
  BY DEF RequestOK, Counters, OutIsText
<1>2. ~q.ended /\ p.inflight # <<>>
  BY SequenceAppend DEF RequestOK, Counters
<1>3. /\ Len(p.inflight) = n + 1
      /\ \A i \in 1..n : p.inflight[i] = q.inflight[i]
      /\ p.inflight[n + 1] = LaunchedKind(q)
  BY SequenceAppend
<1>4. InPrompt(p) <=> q.left > 0
  BY DEF InPrompt, NoTask
<1>5. OutIsText(r, p, end)
  BY DEF RequestOK, OutIsText
<1>6. Counters(p)
  BY <1>1, TaskFacts DEF RequestOK, Counters, NoTask
<1> HIDE DEF n
<1>7. n \in 0..1
  BY DEF n
<1>8. InflightKinds(p)
  <2>1. \A i \in 1..Len(p.inflight) : p.inflight[i] \in Kinds
    <3>1. LaunchedKind(q) \in Kinds /\ \A i \in 1..n : q.inflight[i] \in Kinds
      BY TaskFacts DEF RequestOK, InflightKinds, n
    <3> QED BY <3>1, <1>3, <1>7
  <2>2. ASSUME n = 1 PROVE p.inflight[1] # Mid <=> p.inflight[2] = "decode"
    <3>1. p.inflight[1] = q.inflight[1] /\ p.inflight[2] = LaunchedKind(q)
      BY <1>3, <2>2
    <3>2. q.task = 0 => q.inflight[1] # Mid
      BY TaskFacts
    <3>3. q.task # 0 => q.inflight[1] = Mid
      BY TaskFacts, <2>2 DEF RequestOK, PromptPhase, n
    <3>4. LaunchedKind(q) = "decode" <=> q.task = 0
      BY TaskFacts
    <3> QED BY <3>1, <3>2, <3>3, <3>4
  <2> QED BY <1>3, <1>7, <2>1, <2>2 DEF InflightKinds
<1>9. PromptPhase(p)
  <2> SUFFICES ASSUME InPrompt(p)
               PROVE  /\ ~p.stopped
                      /\ \A i \in 1..Len(p.inflight) : p.inflight[i] = Mid
                      /\ p.fwd + (IF p.task > 0 THEN p.task ELSE 0) + p.left
                           = p.prefilling
                      /\ p.prefilling = Len(p.out)
    BY DEF PromptPhase
  <2>1. q.left > 0 /\ q.task # 0 /\ q.task > 0
    BY <1>1, <1>4
  <2>2. /\ LaunchedKind(q) = Mid /\ InPrompt(q)
        /\ LaunchedLen(q) + q.left = Len(q.out) /\ LaunchedLen(q) \in Nat
    BY <2>1, TaskFacts
  <2>3. \A i \in 1..n : q.inflight[i] = Mid
    BY <2>2 DEF RequestOK, PromptPhase, n
  <2>4. q.prefilling = Len(q.out)
    BY <2>2 DEF RequestOK, PromptPhase
  <2> QED BY <1>1, <1>3, <1>7, <2>2, <2>3, <2>4 DEF NoTask
<1>10. DecodePhase(p)
  <2> SUFFICES ASSUME ~InPrompt(p)
               PROVE  /\ p.inflight[Len(p.inflight)] # Mid /\ p.fwd > 0
                      /\ p.fwd = Len(p.out) + (IF Len(p.inflight) = 2
                                    /\ p.inflight[1] # Mid THEN 1 ELSE 0)
    BY <1>2 DEF DecodePhase
  <2>1. q.left = 0
    BY <1>1, <1>4
  <2>2. LaunchedKind(q) # Mid /\ LaunchedLen(q) > 0
    BY <2>1, TaskFacts
  <2>3. p.inflight[Len(p.inflight)] # Mid
    BY <2>2, <1>3
  <2>4. CASE q.task = 0
    <3>1. /\ n = 1 /\ q.inflight[1] # Mid
          /\ LaunchedLen(q) = Len(q.out) + 1
      BY <2>4, TaskFacts DEF n
    <3>2. Len(p.inflight) = 2 /\ p.inflight[1] # Mid
      BY <1>3, <3>1
    <3> QED BY <2>2, <2>3, <3>1, <3>2
  <2>5. CASE q.task # 0
    <3>1. InPrompt(q) /\ LaunchedLen(q) + q.left = Len(q.out)
      BY <2>5, TaskFacts
    <3>2. \A i \in 1..n : q.inflight[i] = Mid
      BY <3>1 DEF RequestOK, PromptPhase, n
    <3>3. ~(Len(p.inflight) = 2 /\ p.inflight[1] # Mid)
      BY <1>3, <1>7, <3>2
    <3>4. LaunchedLen(q) = Len(q.out)
      BY <1>1, <2>1, <3>1, TaskFacts
    <3>5. (IF Len(p.inflight) = 2 /\ p.inflight[1] # Mid THEN 1 ELSE 0) = 0
      BY <3>3
    <3>6. p.fwd = Len(p.out) + 0
      BY <1>1, <3>4
    <3> QED BY <2>2, <2>3, <3>5, <3>6
  <2> QED BY <2>4, <2>5
<1> QED BY <1>5, <1>6, <1>8, <1>9, <1>10 DEF RequestOK

\* What a step that samples leaves for its request, by the place it has among
\* the request's steps in flight.
SampledLen(q, i) == IF i = Len(q.inflight) THEN q.fwd ELSE q.fwd - 1

\* Request q becomes p when the result gen comes back.
BecomesRetired(r, end, q, gen, p) ==
  /\ p.out = IF q.ended \/ q.inflight[1] = Mid THEN q.out ELSE q.out \o gen
  /\ p.ended = (q.ended \/ Last(p.out) = <<r, end>>)
  /\ p.stopped = (q.stopped \/ p.ended)
  /\ p.inflight = Tail(q.inflight) /\ p.prefilling = q.prefilling
  /\ p.left = q.left /\ p.task = q.task /\ p.fwd = q.fwd

\* A result adds the next token of the text, unless it is of an inner chunk or
\* comes behind the end.
LEMMA RetireRequest ==
  ASSUME NEW r, NEW end \in Nat, NEW q, RequestOK(r, q, end), Sequence(q.inflight),
         Len(q.inflight) \in 1..2,
         q.stopped \/ q.inflight[1] = Mid \/ Len(q.inflight) = 2,
         NEW gen,
         q.inflight[1] # Mid => gen = <<<<r, SampledLen(q, 1) + 1>>>>,
         NEW p, BecomesRetired(r, end, q, gen, p)
  PROVE  RequestOK(r, p, end)
<1> DEFINE n == Len(q.inflight)
           L == Len(q.out)
<1>1. /\ q.left \in Nat /\ q.fwd \in Nat /\ q.task \in Nat \cup {NoTask}
      /\ q.task = 0 => q.left = 0
      /\ q.stopped \in BOOLEAN /\ q.ended \in BOOLEAN
      /\ q.ended => q.stopped
  BY DEF RequestOK, Counters
<1>a. /\ p.inflight = Tail(q.inflight) /\ p.prefilling = q.prefilling
      /\ p.left = q.left /\ p.task = q.task /\ p.fwd = q.fwd
      /\ q.ended \/ q.inflight[1] = Mid => p.out = q.out
      /\ ~(q.ended \/ q.inflight[1] = Mid) => p.out = q.out \o gen
  BY DEF BecomesRetired
<1>b. /\ p.ended \in BOOLEAN
      /\ p.ended <=> (q.ended \/ Last(p.out) = <<r, end>>)
      /\ p.stopped \in BOOLEAN
      /\ p.stopped <=> (q.stopped \/ p.ended)
  BY Zenon DEF BecomesRetired
<1>2. /\ L \in Nat \ {0} /\ q.out = Text(r, L) /\ L <= end
      /\ ~q.ended => L < end
  BY DEF RequestOK, OutIsText
<1>3. /\ q.inflight # <<>>
      /\ Len(p.inflight) = n - 1
      /\ \A i \in 1..(n - 1) : p.inflight[i] = q.inflight[i + 1]
      /\ p.inflight = <<>> <=> n = 1
  <2>1. q.inflight # <<>>
    BY SequenceLen
  <2>2. /\ Sequence(Tail(q.inflight)) /\ Len(Tail(q.inflight)) = n - 1
        /\ \A i \in 1..(n - 1) : Tail(q.inflight)[i] = q.inflight[i + 1]
    BY <2>1, SequenceTail
  <2>3. Tail(q.inflight) = <<>> <=> n - 1 = 0
    BY <2>2, SequenceLen
  <2> QED BY <2>1, <2>2, <2>3, <1>a
<1>4. InPrompt(p) <=> InPrompt(q)
  BY <1>a DEF InPrompt
<1>5. InPrompt(q) => q.inflight[1] = Mid /\ ~q.ended /\ ~q.stopped
                     /\ \A i \in 1..n : q.inflight[i] = Mid
  BY <1>1 DEF RequestOK, PromptPhase
\* The output behind the result.
<1>6. /\ Len(p.out) \in Nat \ {0} /\ p.out = Text(r, Len(p.out))
      /\ Len(p.out) <= end
      /\ ~p.ended => Len(p.out) < end
      /\ Len(p.out) = IF q.ended \/ q.inflight[1] = Mid THEN L ELSE L + 1
  <2>1. \A m \in Nat \ {0} : Len(Text(r, m)) = m /\ Last(Text(r, m)) = <<r, m>>
    BY TextFacts DEF Last
  <2>2. CASE q.ended \/ q.inflight[1] = Mid
    <3>1. p.out = q.out
      BY <2>2, <1>a
    <3>2. p.ended <=> q.ended
      <4>1. CASE q.ended
        BY <4>1, <1>b
      <4>2. CASE ~q.ended
        <5>1. Last(p.out) = <<r, L>> /\ L # end
          BY <4>2, <1>2, <2>1, <3>1
        <5>2. Last(p.out) # <<r, end>>
          BY <5>1
        <5> QED BY <4>2, <5>2, <1>1, <1>b
      <4> QED BY <4>1, <4>2
    <3> QED BY <1>1, <1>2, <2>2, <3>1, <3>2
  <2>3. CASE ~(q.ended \/ q.inflight[1] = Mid)
    <3>1. ~InPrompt(q)
      BY <2>3, <1>5
    <3>2. q.fwd = L + (IF n = 2 /\ q.inflight[1] # Mid THEN 1 ELSE 0)
      BY <2>3, <3>1, <1>3 DEF RequestOK, DecodePhase
    <3>3. SampledLen(q, 1) = L
      <4>1. CASE n = 1
        BY <4>1, <3>2, <1>2 DEF SampledLen
      <4>2. CASE n = 2
        <5>1. q.fwd = L + 1
          BY <4>2, <2>3, <3>2
        <5>2. SampledLen(q, 1) = q.fwd - 1
          BY <4>2 DEF SampledLen
        <5> QED BY <5>1, <5>2, <1>2
      <4> QED BY <4>1, <4>2
    <3>4. p.out = Text(r, L + 1)
      BY <2>3, <3>3, <1>2, <1>a, TextGrows
    <3>5. Len(p.out) = L + 1 /\ Last(p.out) = <<r, L + 1>>
      <4>1. L + 1 \in Nat \ {0}
        BY <1>2
      <4> HIDE DEF L
      <4> QED BY <2>1, <3>4, <4>1
    <3>6. p.ended <=> L + 1 = end
      <4>1. <<r, L + 1>> = <<r, end>> <=> L + 1 = end
        OBVIOUS
      <4>2. p.ended <=> <<r, L + 1>> = <<r, end>>
        BY <2>3, <3>5, <1>b
      <4> QED BY <4>1, <4>2
    <3>7. L < end
      BY <2>3, <1>2
    <3>8. L + 1 <= end /\ (L + 1 # end => L + 1 < end) /\ L + 1 \in Nat \ {0}
      BY <3>7, <1>2
    <3> QED BY <2>3, <3>4, <3>5, <3>6, <3>8, <1>b
  <2> QED BY <2>2, <2>3
<1>7. OutIsText(r, p, end)
  BY <1>6 DEF OutIsText
<1>8. Counters(p)
  <2>1. /\ p.left \in Nat /\ p.fwd \in Nat /\ p.task \in Nat \cup {NoTask}
        /\ p.task = 0 => p.left = 0
    BY <1>1, <1>a
  <2>2. p.stopped \in BOOLEAN /\ p.ended \in BOOLEAN /\ (p.ended => p.stopped)
    BY <1>b, Zenon
  <2> QED BY <2>1, <2>2 DEF Counters
<1> HIDE DEF n, L
<1>9. n \in 1..2
  BY DEF n
<1>10. InflightKinds(p)
  <2>1. \A i \in 1..n : q.inflight[i] \in Kinds
    BY DEF RequestOK, InflightKinds, n
  <2>2. \A i \in 1..(n - 1) : i + 1 \in 1..n
    BY <1>9
  <2>3. Len(p.inflight) # 2
    <3>1. n - 1 # 2
      BY <1>9
    <3> QED BY <1>3, <3>1
  <2> QED BY <1>3, <2>1, <2>2, <2>3 DEF InflightKinds
<1>11. PromptPhase(p)
  <2> SUFFICES ASSUME InPrompt(p)
               PROVE  /\ ~p.stopped
                      /\ \A i \in 1..Len(p.inflight) : p.inflight[i] = Mid
                      /\ p.fwd + (IF p.task > 0 THEN p.task ELSE 0) + p.left
                           = p.prefilling
                      /\ p.prefilling = Len(p.out)
    BY DEF PromptPhase
  <2>1. /\ q.inflight[1] = Mid /\ ~q.ended /\ ~q.stopped
        /\ \A i \in 1..n : q.inflight[i] = Mid
    BY <1>4, <1>5
  <2>2. p.out = q.out /\ ~p.ended
    <3>1. p.out = q.out
      BY <2>1, <1>a
    <3>2. Last(p.out) = <<r, L>> /\ L # end
      BY <2>1, <3>1, <1>2, TextFacts DEF Last
    <3>3. <<r, L>> # <<r, end>>
      BY <3>2
    <3> QED BY <2>1, <3>1, <3>2, <3>3, <1>b
  <2>3. /\ q.fwd + (IF q.task > 0 THEN q.task ELSE 0) + q.left = q.prefilling
        /\ q.prefilling = L
    BY <1>4 DEF RequestOK, PromptPhase, L
  <2>4. \A i \in 1..(n - 1) : i + 1 \in 1..n
    BY <1>9
  <2> QED BY <1>3, <1>a, <1>b, <2>1, <2>2, <2>3, <2>4 DEF L
<1>12. DecodePhase(p)
  <2> SUFFICES ASSUME ~InPrompt(p)
               PROVE  /\ p.inflight # <<>> =>
                           p.inflight[Len(p.inflight)] # Mid /\ p.fwd > 0
                      /\ ~p.stopped => p.inflight # <<>>
                      /\ ~p.ended /\ p.inflight # <<>> => p.fwd = Len(p.out)
    <3>1. Len(p.inflight) # 2
      <4>1. n - 1 # 2
        BY <1>9
      <4> QED BY <1>3, <4>1
    <3>2. Len(p.out) \in Nat
      BY <1>6
    <3> DEFINE more == IF Len(p.inflight) = 2 /\ p.inflight[1] # Mid THEN 1 ELSE 0
    <3>3. more = 0
      BY <3>1
    <3>4. Len(p.out) + more = Len(p.out)
      <4> HIDE DEF more
      <4> QED BY <3>2, <3>3
    <3> QED BY <3>4, Zenon DEF DecodePhase
  <2>1. /\ q.inflight[n] # Mid /\ q.fwd > 0
        /\ ~q.ended => q.fwd = L + (IF n = 2 /\ q.inflight[1] # Mid THEN 1 ELSE 0)
    BY <1>3, <1>4 DEF RequestOK, DecodePhase, n, L
  <2>2. CASE n = 1
    <3>1. q.stopped
      BY <2>1, <2>2 DEF n
    <3> QED BY <2>2, <3>1, <1>3, <1>b
  <2>3. CASE n = 2
    <3>1. /\ Len(p.inflight) = 1 /\ p.inflight[1] = q.inflight[2]
          /\ p.inflight # <<>>
      BY <2>3, <1>3
    <3>2. ~p.ended => ~q.ended
      BY <1>b
    <3>3. ~q.ended => q.fwd = Len(p.out)
      <4>1. CASE q.inflight[1] = Mid
        BY <4>1, <2>1, <1>2, <1>6
      <4>2. CASE q.inflight[1] # Mid
        BY <4>2, <2>1, <2>3, <1>2, <1>6
      <4> QED BY <4>1, <4>2
    <3> QED BY <2>1, <2>3, <3>1, <3>2, <3>3, <1>a
  <2> QED BY <2>2, <2>3, <1>9
<1> QED BY <1>7, <1>8, <1>10, <1>11, <1>12 DEF RequestOK

\* Block pressure stops a request whose steps in flight all decode.
LEMMA StopRequest ==
  ASSUME NEW r, NEW end, NEW q, RequestOK(r, q, end), Sequence(q.inflight),
         q.inflight # <<>>,
         \A i \in DOMAIN q.inflight : q.inflight[i] = "decode",
         NEW p, p.stopped = TRUE,
         p.out = q.out, p.prefilling = q.prefilling, p.left = q.left,
         p.task = q.task, p.fwd = q.fwd, p.inflight = q.inflight,
         p.ended = q.ended
  PROVE  RequestOK(r, p, end)
<1>1. 1 \in 1..Len(q.inflight) /\ q.inflight[1] # Mid
  BY SequenceLen DEF Mid
<1>2. ~InPrompt(q)
  BY <1>1 DEF RequestOK, PromptPhase
<1>3. ~InPrompt(p)
  BY <1>2 DEF InPrompt
<1> QED BY <1>2, <1>3
       DEF RequestOK, OutIsText, Counters, InflightKinds, PromptPhase, DecodePhase

\* A request that drained is prefilled again, with all it has.
LEMMA RecomputeRequest ==
  ASSUME NEW r, NEW end, NEW q, RequestOK(r, q, end),
         q.inflight = <<>>, ~q.ended,
         NEW p, p.prefilling = Len(q.out), p.left = Len(q.out),
         p.task = NoTask, p.fwd = 0, p.stopped = FALSE,
         p.out = q.out, p.inflight = q.inflight, p.ended = q.ended
  PROVE  RequestOK(r, p, end)
<1>1. Len(p.inflight) = 0
  BY SequenceEmpty
<1>2. Len(q.out) \in Nat \ {0}
  BY DEF RequestOK, OutIsText
<1>3. InPrompt(p)
  BY <1>2 DEF InPrompt
<1>4. OutIsText(r, p, end)
  BY DEF RequestOK, OutIsText
<1>5. Counters(p)
  <2>1. p.left \in Nat /\ p.fwd \in Nat /\ p.task = NoTask /\ p.task # 0
    BY <1>2 DEF NoTask
  <2>2. p.stopped \in BOOLEAN /\ p.ended \in BOOLEAN /\ (p.ended => p.stopped)
    BY Zenon DEF RequestOK, Counters
  <2> QED BY <2>1, <2>2 DEF Counters
<1>6. InflightKinds(p) /\ DecodePhase(p)
  BY <1>1, <1>3 DEF InflightKinds, DecodePhase
<1>7. PromptPhase(p)
  BY <1>1, <1>2 DEF PromptPhase, NoTask
<1> QED BY <1>4, <1>5, <1>6, <1>7 DEF RequestOK

\* A request begins with its prompt, and nothing of it is forwarded.
LEMMA InitRequest ==
  ASSUME NEW r, NEW end \in Nat, end > PromptLen,
         NEW p, p.out = Text(r, PromptLen), p.prefilling = PromptLen,
         p.left = PromptLen, p.task = NoTask, p.fwd = 0, p.inflight = <<>>,
         p.stopped = FALSE, p.ended = FALSE
  PROVE  RequestOK(r, p, end)
<1>1. PromptLen \in Nat \ {0}
  BY DeviceRingAssumption
<1>2. Len(p.out) = PromptLen /\ Len(p.inflight) = 0
  BY <1>1, TextFacts, SequenceEmpty
<1>3. OutIsText(r, p, end)
  BY <1>1, <1>2 DEF OutIsText
<1>4. Counters(p) /\ InPrompt(p)
  <2>1. /\ p.left \in Nat /\ p.fwd \in Nat /\ p.task = NoTask /\ p.task # 0
        /\ p.left > 0
    BY <1>1 DEF NoTask
  <2>2. p.stopped \in BOOLEAN /\ p.ended \in BOOLEAN /\ (p.ended => p.stopped)
    BY Zenon
  <2> QED BY <2>1, <2>2 DEF Counters, InPrompt
<1>5. InflightKinds(p) /\ DecodePhase(p)
  BY <1>2, <1>4 DEF InflightKinds, DecodePhase
<1>6. PromptPhase(p)
  BY <1>1, <1>2 DEF PromptPhase, NoTask
<1> QED BY <1>3, <1>4, <1>5, <1>6 DEF RequestOK

-----------------------------------------------------------------------------
(* The steps of the k-th output under way, until it is sampled *)

StepsIn(k) ==
  IF k <= Sampling THEN output.steps
  ELSE IF k <= Built THEN model_input_queue[k - Sampling].steps
  ELSE schedule_output_queue[k - Built].steps

\* The new output's steps are behind all others.
LEMMA StepsInLaunch ==
  ASSUME PipelineInv, TryToLaunchPlannedScheduleOutput, NEW o,
         schedule_output_queue' = Append(schedule_output_queue, o)
  PROVE  /\ \A k \in 1..executor_pipeline_depth : StepsIn(k)' = StepsIn(k)
         /\ StepsIn(executor_pipeline_depth)' = o.steps
<1>1. UNCHANGED <<model_input_queue, output, results>>
  BY DEF TryToLaunchPlannedScheduleOutput, execute
<1>2. /\ \A i \in 1..Len(schedule_output_queue) :
           schedule_output_queue'[i] = schedule_output_queue[i]
      /\ schedule_output_queue'[Len(schedule_output_queue) + 1] = o
  BY SequenceAppend DEF PipelineInv, QueueShape
<1>3. Sampling' = Sampling /\ Built' = Built
  BY <1>1 DEF Returned, Sampling, Built
<1>4. executor_pipeline_depth' = executor_pipeline_depth + 1
  BY InStepLaunch
<1>5. ASSUME NEW k \in 1..executor_pipeline_depth
      PROVE  StepsIn(k)' = StepsIn(k)
  BY <1>1, <1>2, <1>3, Lengths DEF StepsIn
<1>6. StepsIn(executor_pipeline_depth)' = o.steps
  <2>1. /\ ~(executor_pipeline_depth' <= Sampling')
        /\ ~(executor_pipeline_depth' <= Built')
        /\ executor_pipeline_depth' - Built' = Len(schedule_output_queue) + 1
    BY <1>3, <1>4, Lengths
  <2>2. schedule_output_queue'[executor_pipeline_depth' - Built'] = o
    BY <1>2, <2>1
  <2> QED BY <2>1, <2>2 DEF StepsIn
<1> QED BY <1>5, <1>6

\* A return moves the others up.
LEMMA StepsInReturn ==
  ASSUME PipelineInv, UpdateWithGenerationResult
  PROVE  /\ Sampling' = Sampling - 1
         /\ \A k \in 1..executor_pipeline_depth' : StepsIn(k)' = StepsIn(k + 1)
<1>1. UNCHANGED <<schedule_output_queue, model_input_queue, output>>
  BY DEF UpdateWithGenerationResult, execute
<1>2. /\ Returned' = Returned - 1 /\ Built' = Built - 1
      /\ executor_pipeline_depth \in 1..2
      /\ executor_pipeline_depth' = executor_pipeline_depth - 1
  BY InStepReturn
<1>3. Sampling' = Sampling - 1
  <2>1. Returned \in Nat
    BY Lengths
  <2>2. CASE output = NoOutput
    BY <2>1, <2>2, <1>1, <1>2 DEF Sampling
  <2>3. CASE output # NoOutput
    BY <2>1, <2>3, <1>1, <1>2 DEF Sampling
  <2> QED BY <2>2, <2>3
<1>4. ASSUME NEW k \in 1..executor_pipeline_depth'
      PROVE  StepsIn(k)' = StepsIn(k + 1)
  <2>1. k \in Nat /\ Sampling \in Nat /\ Built \in Nat
    BY <1>2, Lengths
  <2>2. (k + 1) - Sampling = k - Sampling' /\ (k <= Sampling' <=> k + 1 <= Sampling)
    BY <2>1, <1>3
  <2>3. (k + 1) - Built = k - Built' /\ (k <= Built' <=> k + 1 <= Built)
    BY <2>1, <1>2
  <2>4. /\ output'.steps = output.steps
        /\ model_input_queue'[k - Sampling'].steps =
             model_input_queue[(k + 1) - Sampling].steps
        /\ schedule_output_queue'[k - Built'].steps =
             schedule_output_queue[(k + 1) - Built].steps
    BY <1>1, <2>2, <2>3
  <2> QED BY <2>2, <2>3, <2>4 DEF StepsIn
<1> QED BY <1>3, <1>4

\* Preprocess keeps the steps of the output it takes.
LEMMA StepsInPreprocess ==
  ASSUME PipelineInv, HandlePreprocess
  PROVE  /\ StepsIn(Built + 1) = Head(schedule_output_queue).steps
         /\ Sampling' = Sampling
         /\ \A k \in (Returned + 1)..executor_pipeline_depth :
              StepsIn(k)' = StepsIn(k)
<1> DEFINE o == Head(schedule_output_queue)
<1>1. PICK m :
         /\ schedule_output_queue # <<>>
         /\ schedule_output_queue' = Tail(schedule_output_queue)
         /\ model_input_queue' = Append(model_input_queue, m)
         /\ m.steps = o.steps
         /\ UNCHANGED <<executor_pipeline_depth, output, results>>
  BY PreprocessStep
<1> HIDE DEF o
<1>2. /\ Len(schedule_output_queue) > 0
      /\ \A i \in 1..(Len(schedule_output_queue) - 1) :
           schedule_output_queue'[i] = schedule_output_queue[i + 1]
      /\ o = schedule_output_queue[1]
  BY <1>1, SequenceTail DEF PipelineInv, QueueShape, o
<1>3. /\ \A i \in 1..Len(model_input_queue) :
           model_input_queue'[i] = model_input_queue[i]
      /\ model_input_queue'[Len(model_input_queue) + 1] = m
  BY <1>1, SequenceAppend DEF PipelineInv, QueueShape
<1>4. Sampling' = Sampling
  BY <1>1 DEF Returned, Sampling
<1>5. Built' = Built + 1
  BY InStepPreprocess
<1>6. StepsIn(Built + 1) = o.steps
  BY <1>2, Lengths DEF StepsIn
<1>7. ASSUME NEW k \in (Returned + 1)..executor_pipeline_depth
      PROVE  StepsIn(k)' = StepsIn(k)
  <2>1. CASE k <= Built
    BY <2>1, <1>1, <1>3, <1>4, <1>5, Lengths DEF StepsIn
  <2>2. CASE k = Built + 1
    <3>1. StepsIn(k)' = m.steps
      <4>1. k - Sampling = Len(model_input_queue) + 1
        BY <2>2, Lengths
      <4>2. ~(k <= Sampling) /\ k <= Built'
        BY <2>2, <1>5, Lengths
      <4> QED BY <4>1, <4>2, <1>3, <1>4 DEF StepsIn
    <3> QED BY <2>2, <3>1, <1>1, <1>6
  <2>3. CASE k > Built + 1
    <3>1. k - Built' \in 1..(Len(schedule_output_queue) - 1)
      BY <2>3, <1>5, Lengths
    <3>2. (k - Built') + 1 = k - Built
      <4>1. k \in Int /\ Built \in Int
        BY Lengths
      <4> QED BY <4>1, <1>5
    <3>3. schedule_output_queue'[k - Built'] = schedule_output_queue[k - Built]
      BY <3>1, <3>2, <1>2
    <3>4. ~(k <= Sampling) /\ ~(k <= Built) /\ ~(k <= Built')
      BY <2>3, <1>5, Lengths
    <3> QED BY <3>3, <3>4, <1>4 DEF StepsIn
  <2> QED BY <2>1, <2>2, <2>3, Lengths
<1> QED BY <1>4, <1>6, <1>7 DEF o

\* Forward keeps the steps of the batch it takes, the first that is built.
LEMMA StepsInForward ==
  ASSUME PipelineInv, ExecuteForward
  PROVE  /\ Sampling = Returned /\ Sampling' = Returned + 1
         /\ StepsIn(Returned + 1) = model_input_queue[1].steps
         /\ InStep(Returned + 1) = ToSet(model_input_queue[1].reqs)
         /\ Returned + 1 <= Built
         /\ output' # NoOutput
         /\ \A k \in (Returned + 1)..executor_pipeline_depth :
              StepsIn(k)' = StepsIn(k)
<1> DEFINE m == Head(model_input_queue)
<1>1. /\ output = NoOutput
      /\ model_input_queue # <<>>
      /\ model_input_queue' = Tail(model_input_queue)
      /\ output'.slot = m.slot
      /\ output'.steps = m.steps
      /\ UNCHANGED <<executor_pipeline_depth, schedule_output_queue, results>>
  BY DEF ExecuteForward, engine, preprocess
<1> HIDE DEF m
<1>2. /\ Len(model_input_queue) > 0
      /\ Len(model_input_queue') = Len(model_input_queue) - 1
      /\ \A i \in 1..(Len(model_input_queue) - 1) :
           model_input_queue'[i] = model_input_queue[i + 1]
      /\ m = model_input_queue[1]
  BY <1>1, SequenceTail DEF PipelineInv, QueueShape, m
<1>3. output' # NoOutput
  <2>1. m.slot \in 0..1
    BY <1>2, Lengths DEF PipelineInv, Slots
  <2>2. NoOutput.slot = -1
    BY DEF NoOutput
  <2> QED BY <2>1, <2>2, <1>1
<1>4. /\ Returned' = Returned /\ Sampling = Returned /\ Sampling' = Sampling + 1
      /\ Built' = Built
  <2>1. Returned' = Returned /\ Sampling = Returned
    BY <1>1, Lengths DEF Returned, Sampling
  <2>2. Sampling' = Sampling + 1
    BY <2>1, <1>3, Lengths DEF Sampling
  <2> QED BY <2>1, <2>2, InStepForward
<1>5. ASSUME NEW k \in (Returned + 1)..executor_pipeline_depth
      PROVE  StepsIn(k)' = StepsIn(k)
  <2>1. CASE k = Sampling + 1
    <3>1. StepsIn(k)' = m.steps
      BY <2>1, <1>1, <1>4, Lengths DEF StepsIn
    <3>2. k - Sampling = 1 /\ k <= Built /\ ~(k <= Sampling)
      BY <2>1, <1>2, <1>4, Lengths
    <3> QED BY <3>1, <3>2, <1>2 DEF StepsIn
  <2>2. CASE k > Sampling + 1 /\ k <= Built
    <3>1. /\ k - Sampling' \in 1..(Len(model_input_queue) - 1)
          /\ (k - Sampling') + 1 = k - Sampling
      BY <2>2, <1>4, Lengths
    <3>2. model_input_queue'[k - Sampling'] = model_input_queue[k - Sampling]
      BY <3>1, <1>2
    <3>3. ~(k <= Sampling) /\ ~(k <= Sampling')
      BY <2>2, <1>4, Lengths
    <3> QED BY <2>2, <3>2, <3>3, <1>4 DEF StepsIn
  <2>3. CASE k > Built
    BY <2>3, <1>1, <1>2, <1>4, Lengths DEF StepsIn
  <2> QED BY <2>1, <2>2, <2>3, <1>4, Lengths
<1>6. /\ Returned + 1 <= Built
      /\ ~(Returned + 1 <= Returned) /\ (Returned + 1) - Returned = 1
  BY <1>2, <1>4, Lengths
<1>7. StepsIn(Returned + 1) = model_input_queue[1].steps
  BY <1>4, <1>6 DEF StepsIn
<1>8. InStep(Returned + 1) = ToSet(model_input_queue[1].reqs)
  BY <1>4, <1>6 DEF InStep
<1> QED BY <1>3, <1>4, <1>5, <1>6, <1>7, <1>8

\* The output that is sampled is the first that was not; the others stay.
LEMMA StepsInPostprocess ==
  ASSUME PipelineInv, HandlePostprocess
  PROVE  /\ Sampling = Returned + 1 /\ Sampling' = Sampling
         /\ StepsIn(Returned + 1) = output.steps
         /\ InStep(Returned + 1) = ToSet(output.reqs)
         /\ Returned + 1 <= executor_pipeline_depth
         /\ \A k \in (Returned + 2)..executor_pipeline_depth :
              StepsIn(k)' = StepsIn(k)
<1>1. /\ output # NoOutput /\ output' = NoOutput
      /\ UNCHANGED <<schedule_output_queue, model_input_queue>>
  BY DEF HandlePostprocess, engine
<1>2. Sampling = Returned + 1 /\ Returned' = Returned + 1 /\ Built' = Built
  BY <1>1, InStepPostprocess DEF Sampling
<1>3. Sampling' = Sampling
  BY <1>1, <1>2, Lengths DEF Sampling
<1>4. ASSUME NEW k \in (Returned + 2)..executor_pipeline_depth
      PROVE  StepsIn(k)' = StepsIn(k)
  <2>1. ~(k <= Sampling)
    BY <1>2, Lengths
  <2> QED BY <2>1, <1>1, <1>2, <1>3 DEF StepsIn
<1>5. /\ Returned + 1 <= executor_pipeline_depth /\ Returned + 1 <= Sampling
      /\ ~(Returned + 1 <= Returned)
  BY <1>2, Lengths
<1> QED BY <1>2, <1>3, <1>4, <1>5 DEF StepsIn, InStep

\* The steps outside the pipeline's own actions.
LEMMA StepsInFrame ==
  ASSUME UNCHANGED <<schedule_output_queue, model_input_queue, output, results>>
  PROVE  Sampling' = Sampling /\ \A k : StepsIn(k)' = StepsIn(k)
<1>1. Sampling' = Sampling /\ Built' = Built
  BY DEF Returned, Sampling, Built
<1> QED BY <1>1 DEF StepsIn

-----------------------------------------------------------------------------
(* A request's steps in flight and the outputs that hold them *)

\* Which of its steps in flight the k-th output holds.
Flight(r, k) == IF k = 2 /\ r \in InStep(1) THEN 2 ELSE 1
Kind(r, k) == req[r].inflight[Flight(r, k)]
Length(r, k) == SampledLen(req[r], Flight(r, k))

\* The steps of an output are its request's.
LEMMA FlightFacts ==
  ASSUME PipelineInv, FlightsInv,
         NEW k \in 1..executor_pipeline_depth, NEW r \in InStep(k)
  PROVE  /\ r \in Requests
         /\ Sequence(req[r].inflight) /\ req[r].inflight # <<>>
         /\ Len(req[r].inflight) \in 1..2
         /\ Flight(r, k) \in 1..Len(req[r].inflight)
         /\ k = 1 => Flight(r, k) = 1
         /\ k = 2 => Flight(r, k) = Len(req[r].inflight)
         /\ k = 2 => (Len(req[r].inflight) = 2 <=> r \in InStep(1))
         /\ k = 1 => (Len(req[r].inflight) = 2
                        <=> executor_pipeline_depth = 2 /\ r \in InStep(2))
         /\ k \in 1..2
<1>1. r \in Requests /\ executor_pipeline_depth \in 0..2
  BY Lengths DEF FlightsInv, StepsInFlight
<1>2. /\ Sequence(req[r].inflight)
      /\ Len(req[r].inflight) = Flights(r, 1) + Flights(r, 2)
  BY <1>1 DEF FlightsInv, EngineShape, StepsInFlight
<1>3. CASE k = 1
  <2>1. Flights(r, 1) = 1 /\ Flight(r, k) = 1
    BY <1>1, <1>3 DEF Flights, Flight
  <2>2. Flights(r, 2) = IF executor_pipeline_depth = 2 /\ r \in InStep(2) THEN 1 ELSE 0
    BY <1>1 DEF Flights
  <2>3. Len(req[r].inflight) \in 1..2 /\ req[r].inflight # <<>>
    BY <1>2, <2>1, <2>2, SequenceLen
  <2> QED BY <1>1, <1>2, <1>3, <2>1, <2>2, <2>3
<1>4. CASE k = 2
  <2>1. executor_pipeline_depth = 2 /\ Flights(r, 2) = 1
    BY <1>1, <1>4 DEF Flights
  <2>2. Flights(r, 1) = IF r \in InStep(1) THEN 1 ELSE 0
    BY <2>1 DEF Flights
  <2>3. Len(req[r].inflight) = IF r \in InStep(1) THEN 2 ELSE 1
    BY <1>2, <2>1, <2>2
  <2>4. Flight(r, k) = Len(req[r].inflight)
    BY <1>4, <2>3 DEF Flight
  <2>5. Len(req[r].inflight) \in 1..2 /\ req[r].inflight # <<>>
    BY <1>2, <2>3, SequenceLen
  <2> QED BY <1>1, <1>2, <1>4, <2>3, <2>4, <2>5
<1> QED BY <1>1, <1>3, <1>4

\* A request without a step in flight is in no output.
LEMMA NotInFlight ==
  ASSUME PipelineInv, FlightsInv, NEW r, req[r].inflight = <<>>
  PROVE  \A k \in 1..executor_pipeline_depth : r \notin InStep(k)
BY FlightFacts

\* Steps that leave the requests in flight as they are keep Kind and Length.
LEMMA FlightFrame ==
  ASSUME PipelineInv, FlightsInv,
         \A k \in 1..executor_pipeline_depth : InStep(k)' = InStep(k),
         \A r \in Requests : req[r].inflight # <<>> =>
           /\ req'[r].inflight = req[r].inflight
           /\ req'[r].fwd = req[r].fwd
  PROVE  \A k \in 1..executor_pipeline_depth : \A r \in InStep(k) :
           Kind(r, k)' = Kind(r, k) /\ Length(r, k)' = Length(r, k)
<1> SUFFICES ASSUME NEW k \in 1..executor_pipeline_depth, NEW r \in InStep(k)
             PROVE  Kind(r, k)' = Kind(r, k) /\ Length(r, k)' = Length(r, k)
  OBVIOUS
<1>1. /\ r \in Requests /\ req[r].inflight # <<>>
  BY FlightFacts
<1>2. Flight(r, k)' = Flight(r, k)
  <2>1. 1 \in 1..executor_pipeline_depth
    BY Lengths
  <2> QED BY <2>1 DEF Flight
<1> QED BY <1>1, <1>2 DEF Kind, Length, SampledLen

\* A return takes the first away and leaves the other.
LEMMA FlightReturn ==
  ASSUME PipelineInv, FlightsInv, UpdateWithGenerationResult,
         \A r \in Requests :
           /\ req'[r].fwd = req[r].fwd
           /\ req'[r].inflight = IF r \in InStep(1) THEN Tail(req[r].inflight)
                                                   ELSE req[r].inflight
  PROVE  \A k \in 1..executor_pipeline_depth' : \A r \in InStep(k)' :
           /\ k = 1 /\ executor_pipeline_depth = 2
           /\ r \in InStep(k + 1)
           /\ Kind(r, k)' = Kind(r, k + 1) /\ Length(r, k)' = Length(r, k + 1)
<1> SUFFICES ASSUME NEW k \in 1..executor_pipeline_depth', NEW r \in InStep(k)'
             PROVE  /\ k = 1 /\ executor_pipeline_depth = 2
                    /\ r \in InStep(k + 1)
                    /\ Kind(r, k)' = Kind(r, k + 1)
                    /\ Length(r, k)' = Length(r, k + 1)
  OBVIOUS
<1>1. /\ k = 1 /\ executor_pipeline_depth = 2 /\ k + 1 = 2
      /\ r \in InStep(2)
  BY InStepReturn
<1>2. Flight(r, k)' = 1
  BY <1>1 DEF Flight
<1>3. /\ r \in Requests
      /\ Sequence(req[r].inflight) /\ req[r].inflight # <<>>
      /\ Flight(r, 2) = Len(req[r].inflight)
      /\ Len(req[r].inflight) = IF r \in InStep(1) THEN 2 ELSE 1
  <2>1. 2 \in 1..executor_pipeline_depth
    BY <1>1
  <2>2. /\ r \in Requests
        /\ Sequence(req[r].inflight) /\ req[r].inflight # <<>>
        /\ Flight(r, 2) = Len(req[r].inflight)
        /\ Len(req[r].inflight) \in 1..2
        /\ Len(req[r].inflight) = 2 <=> r \in InStep(1)
    BY <1>1, <2>1, FlightFacts
  <2>3. CASE r \in InStep(1)
    BY <2>2, <2>3
  <2>4. CASE r \notin InStep(1)
    <3>1. Len(req[r].inflight) = 1
      BY <2>2, <2>4
    <3> QED BY <2>2, <2>4, <3>1
  <2> QED BY <2>3, <2>4
<1>4. CASE r \in InStep(1)
  <2>1. req'[r].inflight = Tail(req[r].inflight)
    BY <1>3, <1>4
  <2>2. /\ Len(req'[r].inflight) = 1
        /\ req'[r].inflight[1] = req[r].inflight[2]
    BY <1>3, <1>4, <2>1, SequenceTail
  <2> QED BY <1>1, <1>2, <1>3, <1>4, <2>2 DEF Kind, Length, SampledLen
<1>5. CASE r \notin InStep(1)
  <2>1. req'[r].inflight = req[r].inflight
    BY <1>3, <1>5
  <2> QED BY <1>1, <1>2, <1>3, <1>5, <2>1 DEF Kind, Length, SampledLen
<1> QED BY <1>4, <1>5

\* A launch keeps those that are in flight; of an inner chunk the length is not
\* asked for.
LEMMA FlightLaunch ==
  ASSUME PipelineInv, FlightsInv, TryToLaunchPlannedScheduleOutput,
         NEW R, InStep(executor_pipeline_depth)' = R,
         \A r \in Requests :
           IF r \in R
             THEN \E x : /\ req'[r].inflight = Append(req[r].inflight, x)
                         /\ req[r].inflight # <<>> /\ req[r].inflight[1] # Mid =>
                              req'[r].fwd = req[r].fwd + 1
             ELSE req'[r] = req[r],
         \A r \in Requests : req[r].fwd \in Nat
  PROVE  /\ \A k \in 1..executor_pipeline_depth : \A r \in InStep(k) :
              /\ Kind(r, k)' = Kind(r, k)
              /\ Kind(r, k) # Mid => Length(r, k)' = Length(r, k)
         /\ \A r \in R \cap Requests :
              Flight(r, executor_pipeline_depth)' = Len(req[r].inflight) + 1
<1>0. /\ executor_pipeline_depth \in 0..1
      /\ executor_pipeline_depth' = executor_pipeline_depth + 1
      /\ \A k \in 1..executor_pipeline_depth : InStep(k)' = InStep(k)
  BY InStepLaunch, Lengths
<1>1. ASSUME NEW k \in 1..executor_pipeline_depth, NEW r \in InStep(k)
      PROVE  /\ Kind(r, k)' = Kind(r, k)
             /\ Kind(r, k) # Mid => Length(r, k)' = Length(r, k)
  <2>1. k = 1 /\ Flight(r, k)' = 1 /\ Flight(r, k) = 1
    BY <1>0 DEF Flight
  <2>2. /\ r \in Requests /\ Sequence(req[r].inflight)
        /\ Len(req[r].inflight) = 1 /\ req[r].inflight # <<>>
    BY <1>0, <2>1, FlightFacts
  <2>3. CASE r \in R
    <3>1. PICK x : /\ req'[r].inflight = Append(req[r].inflight, x)
                   /\ req[r].inflight[1] # Mid => req'[r].fwd = req[r].fwd + 1
      BY <2>2, <2>3
    <3>2. /\ Len(req'[r].inflight) = 2
          /\ req'[r].inflight[1] = req[r].inflight[1]
      <4>1. /\ Len(Append(req[r].inflight, x)) = Len(req[r].inflight) + 1
            /\ \A i \in 1..Len(req[r].inflight) :
                 Append(req[r].inflight, x)[i] = req[r].inflight[i]
        BY <2>2, SequenceAppend
      <4> QED BY <2>2, <3>1, <4>1
    <3>3. Kind(r, k)' = Kind(r, k) /\ Kind(r, k) = req[r].inflight[1]
      BY <2>1, <3>2 DEF Kind
    <3>4. Length(r, k)' = req'[r].fwd - 1 /\ Length(r, k) = req[r].fwd
      BY <2>1, <2>2, <3>2 DEF Length, SampledLen
    <3> QED BY <2>2, <3>1, <3>3, <3>4
  <2>4. CASE r \notin R
    <3>1. req'[r] = req[r]
      BY <2>2, <2>4
    <3> QED BY <2>1, <3>1 DEF Kind, Length
  <2> QED BY <2>3, <2>4
<1>2. ASSUME NEW r \in R \cap Requests
      PROVE  Flight(r, executor_pipeline_depth)' = Len(req[r].inflight) + 1
  <2>1. Len(req[r].inflight) = Flights(r, 1) + Flights(r, 2)
    BY DEF FlightsInv, StepsInFlight
  <2>2. CASE executor_pipeline_depth = 0
    BY <1>0, <2>1, <2>2 DEF Flights, Flight
  <2>3. CASE executor_pipeline_depth = 1
    <3>1. Flights(r, 2) = 0
      BY <2>3 DEF Flights
    <3>2. InStep(1)' = InStep(1)
      BY <1>0, <2>3
    <3> QED BY <1>0, <2>1, <2>3, <3>1, <3>2 DEF Flights, Flight
  <2> QED BY <1>0, <2>2, <2>3
<1> QED BY <1>1, <1>2

-----------------------------------------------------------------------------
(* A batch: its order, its input pairs, its offsets *)

\* Selecting every element selects the sequence.
LEMMA SelectedAll ==
  ASSUME NEW n \in Nat, NEW s, s = [i \in 1..n |-> s[i]]
  PROVE  Selected(s, 1..n) = s
<1>1. Cardinality(1..n) = n
  <2>1. 1 \in Int /\ n \in Int
    OBVIOUS
  <2>2. Cardinality(1..n) = IF 1 > n THEN 0 ELSE n - 1 + 1
    BY <2>1, FS_Interval
  <2> QED BY <2>2
<1>2. ASSUME NEW j \in 1..n PROVE Cardinality(1..n \cap 1..j) = j
  <2>1. 1..n \cap 1..j = 1..j
    OBVIOUS
  <2>2. 1 \in Int /\ j \in Int
    OBVIOUS
  <2>3. Cardinality(1..j) = IF 1 > j THEN 0 ELSE j - 1 + 1
    BY <2>2, FS_Interval
  <2>4. ~(1 > j) /\ j - 1 + 1 = j
    OBVIOUS
  <2>5. Cardinality(1..j) = j
    BY <2>3, <2>4
  <2> QED BY <2>1, <2>5
<1>3. ASSUME NEW i \in 1..n
      PROVE  (CHOOSE j \in 1..n : Cardinality(1..n \cap 1..j) = i) = i
  BY <1>2
<1>4. Selected(s, 1..n) = [i \in 1..n |-> s[i]]
  BY <1>1, <1>3 DEF Selected
<1> QED BY <1>4

\* The order of a batch lists each of its requests once.
OrderOf(reqs, R, n) ==
  /\ n \in Nat
  /\ DOMAIN reqs = 1..n
  /\ reqs = [i \in 1..n |-> reqs[i]]
  /\ \A i \in 1..n : reqs[i] \in R
  /\ \A r \in R : \E i \in 1..n : reqs[i] = r
  /\ \A i, j \in 1..n : reqs[i] = reqs[j] => i = j

\* What Preprocess orders is an order of the output's requests.
LEMMA OrderFacts ==
  ASSUME NEW steps, IsFiniteSet(DOMAIN steps), NEW reqs \in Reordered(steps)
  PROVE  /\ OrderOf(reqs, DOMAIN steps, Cardinality(DOMAIN steps))
         /\ Sequence(reqs) /\ Len(reqs) = Cardinality(DOMAIN steps)
         /\ ToSet(reqs) = DOMAIN steps
<1> DEFINE R == DOMAIN steps
           n == Cardinality(R)
<1>1. n \in Nat
  BY FS_CardinalityType
<1>2. reqs \in [1..n -> R] /\ ToSet(reqs) = R
  BY DEF Reordered
<1> HIDE DEF R, n
<1>3. \A r \in R : \E i \in 1..n : reqs[i] = r
  BY <1>2 DEF ToSet
<1>4. Cardinality(1..n) = n /\ IsFiniteSet(1..n)
  <2>1. Cardinality(1..n) = IF 1 > n THEN 0 ELSE n - 1 + 1
    BY <1>1, FS_Interval
  <2> QED BY <1>1, <2>1, FS_Interval
<1>5. reqs \in Injection(1..n, R)
  <2>1. reqs \in Surjection(1..n, R)
    BY <1>2, <1>3 DEF Surjection
  <2> QED BY <2>1, <1>4, FS_SurjSameCardinalityImpliesInj DEF n
<1>6. \A i, j \in 1..n : reqs[i] = reqs[j] => i = j
  BY <1>5 DEF Injection, IsInjective
<1>7. Sequence(reqs) /\ Len(reqs) = n
  BY <1>1, <1>2, SequenceOfFunction
<1> QED BY <1>1, <1>2, <1>3, <1>6, <1>7 DEF OrderOf, R, n

\* Where a request is in it.
Place(reqs, r) ==
  LET I == {j \in 1..Len(reqs) : reqs[j] = r} IN IF I # {} THEN Min(I) ELSE 0

\* A request is where the order has it.
LEMMA PlaceInOrder ==
  ASSUME NEW reqs, NEW R, NEW n, OrderOf(reqs, R, n), Len(reqs) = n,
         NEW i \in 1..n
  PROVE  Place(reqs, reqs[i]) = i
<1>1. {j \in 1..Len(reqs) : reqs[j] = reqs[i]} = {i}
  BY DEF OrderOf
<1>2. Min({i}) = i
  BY DEF Min, OrderOf
<1> QED BY <1>1, <1>2 DEF Place

\* When each request has input, each has its pair.
LEMMA InputOf ==
  ASSUME NEW steps, NEW reqs, NEW R, NEW n, OrderOf(reqs, R, n),
         \A r \in R : steps[r].len > steps[r].kv
  PROVE  Input(reqs, steps) = [i \in 1..n |-> <<reqs[i], steps[reqs[i]].last>>]
<1>1. {i \in DOMAIN reqs : steps[reqs[i]].len > steps[reqs[i]].kv} = 1..n
  BY DEF OrderOf
<1>2. Selected(reqs, 1..n) = reqs
  BY SelectedAll DEF OrderOf
<1> QED BY <1>1, <1>2 DEF Input, OrderOf

\* Each request of the batch samples one token.
AllSample(steps, R) == \A r \in R : steps[r].sampling = 1

\* Then the i-th has the i-th row of logits.
LEMMA OffsetsOf ==
  ASSUME NEW steps, NEW reqs, NEW R, NEW n, OrderOf(reqs, R, n),
         AllSample(steps, R)
  PROVE  \A i \in 1..n : LogitsOffsets(reqs, steps)[i] = i - 1
<1> DEFINE w == [j \in DOMAIN reqs |-> steps[reqs[j]].sampling]
<1>1. n \in Nat /\ DOMAIN reqs = 1..n /\ \A j \in 1..n : w[j] = 1
  BY DEF OrderOf, AllSample
<1>2. IsFiniteSet(1..n)
  BY <1>1, FS_Interval
<1> HIDE DEF w
<1>3. ASSUME NEW i \in 1..n PROVE SumFunctionOnSet(w, 1..(i - 1)) = i - 1
  <2>1. 1..(i - 1) \in SUBSET (1..n)
    BY <1>1
  <2>2. Cardinality(1..(i - 1)) = i - 1
    <3>1. i - 1 \in Int /\ i - 1 \in Nat
      BY <1>1
    <3>2. Cardinality(1..(i - 1)) = IF 1 > i - 1 THEN 0 ELSE (i - 1) - 1 + 1
      BY <3>1, FS_Interval
    <3> QED BY <3>1, <3>2
  <2>3. SumFunctionOnSet(w, 1..(i - 1)) = Cardinality(1..(i - 1))
    BY <1>1, <1>2, <2>1, SumOnes
  <2> QED BY <2>2, <2>3
<1> QED BY <1>1, <1>3 DEF LogitsOffsets, w

\* The rows of a batch in which each request samples.
RowsFor(m, n, inputs) == [i \in 1..n |-> NextToken(m.reqs[i], inputs)]

\* LmHead writes one row for each request of it, in their order.
LEMMA RowsOf ==
  ASSUME NEW m, NEW R, NEW n, OrderOf(m.reqs, R, n),
         AllSample(m.steps, R), NEW inputs
  PROVE  Logits(m, inputs) = RowsFor(m, n, inputs)
<1>1. {i \in DOMAIN m.reqs : m.steps[m.reqs[i]].sampling > 0} = 1..n
  BY DEF OrderOf, AllSample
<1>2. Selected(m.reqs, 1..n) = m.reqs
  BY SelectedAll DEF OrderOf
<1>3. Logits(m, inputs) = [i \in DOMAIN m.reqs |-> NextToken(m.reqs[i], inputs)]
  BY <1>1, <1>2 DEF Logits
<1>4. DOMAIN m.reqs = 1..n
  BY DEF OrderOf
<1> QED BY <1>3, <1>4 DEF RowsFor

\* Each request of a batch with a token of its own text.
Embedded(reqs, n, len) == [i \in 1..n |-> <<reqs[i], <<reqs[i], len[reqs[i]]>>>>]

\* Behind the last token of its text a request gets the next one.
LEMMA NextTokenOf ==
  ASSUME NEW reqs, NEW R, NEW n, OrderOf(reqs, R, n), NEW len,
         NEW inputs, inputs = Embedded(reqs, n, len), NEW i \in 1..n
  PROVE  NextToken(reqs[i], inputs) = <<reqs[i], len[reqs[i]] + 1>>
<1> DEFINE r == reqs[i]
           t == <<r, len[r]>>
           same == {j \in DOMAIN inputs : inputs[j][1] = r}
           last == {inputs[j][2] : j \in same}
<1>1. same = {i}
  BY DEF OrderOf, Embedded
<1>2. inputs[i][2] = t
  BY DEF Embedded
<1> HIDE DEF same, t
<1>3. last = {t}
  BY <1>1, <1>2
<1>4. t[1] = r /\ t[2] = len[r]
  BY DEF t
<1> HIDE DEF last, r
<1>5. (\E x \in last : x[1] = r) /\ (CHOOSE x \in last : TRUE) = t
  BY <1>3, <1>4
<1>6. NextToken(r, inputs) = IF \E x \in last : x[1] = r
                               THEN <<r, (CHOOSE x \in last : TRUE)[2] + 1>>
                               ELSE Garbage
  BY DEF NextToken, last, same
<1>7. NextToken(r, inputs) = <<r, len[r] + 1>>
  BY <1>4, <1>5, <1>6
<1> QED BY <1>7 DEF r

\* A ring that has request r's n-th token, and nothing else of r.
Has(pairs, r, n) ==
  /\ DOMAIN pairs \subseteq Nat
  /\ \E i \in DOMAIN pairs : pairs[i][1] = r
  /\ \A i \in DOMAIN pairs : pairs[i][1] = r => pairs[i] = <<r, <<r, n>>>>

\* A pair that has its token, or a placeholder for one the ring has.
Replaceable(pair, prev, r, n) ==
  \/ pair[1] = r /\ pair[2] = Placeholder /\ Has(prev, r, n)
  \/ pair = <<r, <<r, n>>>>

\* A pair that is its own text's, or can be made so, is so afterwards.
LEMMA ReplaceOf ==
  ASSUME NEW pairs, NEW prev, NEW i \in DOMAIN pairs, NEW r, NEW n,
         r # 0, Replaceable(pairs[i], prev, r, n)
  PROVE  Replace(pairs, prev)[i] = <<r, <<r, n>>>>
<1> DEFINE found == {j \in DOMAIN prev : prev[j][1] = r}
<1>0. pairs[i][1] = r
  BY DEF Replaceable
<1>1. Replace(pairs, prev)[i] = IF pairs[i][2] = Placeholder /\ found # {}
                                  THEN prev[Min(found)] ELSE pairs[i]
  BY <1>0 DEF Replace
<1>2. CASE pairs[i] = <<r, <<r, n>>>>
  <2>1. pairs[i][2] = <<r, n>> /\ <<r, n>> # Placeholder
    BY <1>2 DEF Placeholder
  <2> QED BY <1>1, <1>2, <2>1
<1>3. CASE pairs[i][2] = Placeholder /\ Has(prev, r, n)
  <2>1. found # {} /\ found \subseteq Nat
    BY <1>3 DEF Has
  <2>2. Min(found) \in found
    <3>1. \E x \in found : \A y \in found : x <= y
      BY <2>1, LeastOf
    <3> HIDE DEF found
    <3> QED BY <3>1 DEF Min
  <2>3. prev[Min(found)] = <<r, <<r, n>>>>
    BY <1>3, <2>2 DEF Has
  <2> QED BY <1>1, <1>3, <2>1, <2>3
<1> QED BY <1>2, <1>3 DEF Replaceable

-----------------------------------------------------------------------------
(* What the requests, the queues and the rings hold of the texts *)

RequestsInv ==
  \A r \in Requests : eos[r] \in Nat /\ RequestOK(r, req[r], eos[r])

\* An output plans an inner chunk for all its requests or for none (~MixChunks).
TaskInner(q) == q.task > 0 /\ q.left > 0
PlannedAlike ==
  \/ \A r \in planned : TaskInner(req[r])
  \/ \A r \in planned : ~TaskInner(req[r])

\* Step s of request r, the one of that kind that ends at position n.
StepFields == {"kind", "len", "kv", "sampling", "last", "offset"}
StepIs(r, s, kind, n) ==
  /\ DOMAIN s = StepFields
  /\ s.kind = kind /\ kind \in Kinds
  /\ s.kv \in Nat /\ s.len \in Nat /\ s.kv < s.len
  /\ s.sampling = IF kind = Mid THEN 0 ELSE 1
  /\ s.last = IF kind = "decode" THEN Placeholder ELSE <<r, s.len>>
  /\ kind # Mid => s.len = n

\* All requests of an output are in the middle of a prompt, or none is.
Alike(k) ==
  (\A r \in InStep(k) : Kind(r, k) = Mid) \/ (\A r \in InStep(k) : Kind(r, k) # Mid)

StepsInv ==
  \A k \in (Returned + 1)..executor_pipeline_depth :
    /\ DOMAIN StepsIn(k) = InStep(k)
    /\ \A r \in InStep(k) : StepIs(r, StepsIn(k)[r], Kind(r, k), Length(r, k))
    /\ Alike(k)

\* A decode step goes behind its request's last one, in the output before.
DecodesFollow ==
  executor_pipeline_depth = 2 =>
    \A r \in InStep(2) : Kind(r, 2) = "decode" => r \in InStep(1)

BuiltBatch(m) ==
  /\ m.reqs \in Reordered(m.steps)
  /\ m.offsets = LogitsOffsets(m.reqs, m.steps)
BatchesInv ==
  /\ \A i \in DOMAIN model_input_queue : BuiltBatch(model_input_queue[i])
  /\ output # NoOutput => BuiltBatch(output)

SlotsAlternate ==
  /\ output # NoOutput /\ model_input_queue # <<>> =>
       model_input_queue[1].slot = 1 - output.slot
  /\ Len(model_input_queue) = 2 =>
       model_input_queue[2].slot = 1 - model_input_queue[1].slot

ExecuteShape ==
  /\ DOMAIN req_cache = Requests
  /\ DOMAIN ring = 0..1
  /\ DOMAIN device_tokens = 0..1
  /\ \A s \in 0..1 : DOMAIN device_tokens[s] = 1..Cardinality(Requests)

\* What the forwarded batch has embedded, and what it goes on with.
OutputInv ==
  output # NoOutput =>
    /\ output.inputs = [i \in DOMAIN output.reqs |->
         <<output.reqs[i], <<output.reqs[i], output.steps[output.reqs[i]].len>>>>]
    /\ (\A r \in ToSet(output.reqs) : output.steps[r].sampling = 1) =>
         output.logits = [i \in DOMAIN output.reqs |->
           <<output.reqs[i], output.steps[output.reqs[i]].len + 1>>]

\* A request whose step will be sampled looks like one that samples.
CacheInv ==
  \A k \in (Returned + 1)..Built : \A r \in InStep(k) :
    Kind(r, k) # Mid => req_cache[r].kind # Mid /\ req_cache[r].sampling = 1

\* Each answer is the next token of the text.
ResultsInv ==
  \A k \in 1..Returned : \A r \in InStep(k) :
    Kind(r, k) # Mid => results[k][r] = <<<<r, Length(r, k) + 1>>>>

\* Between two batches the ring of the last has what it sampled, and with that
\* what the next one will replace.
LastRing ==
  IF model_input_queue = <<>> THEN cur_ring_slot ELSE 1 - model_input_queue[1].slot
RingInv ==
  output = NoOutput =>
    /\ Returned > 0 =>
         \A r \in InStep(Returned) :
           Kind(r, Returned) # Mid =>
             Has(ring[LastRing], r, Length(r, Returned) + 1)
    /\ Returned < executor_pipeline_depth =>
         \A r \in InStep(Returned + 1) :
           Kind(r, Returned + 1) = "decode" =>
             Has(ring[LastRing], r, Length(r, Returned + 1))

EngineInv == RequestsInv /\ PlannedAlike
ExecutorInv ==
  /\ StepsInv /\ DecodesFollow /\ BatchesInv /\ SlotsAlternate /\ ExecuteShape
  /\ OutputInv /\ CacheInv /\ ResultsInv /\ RingInv
TextInv == EngineInv /\ ExecutorInv

\* At the start there is the prompt, and nothing under way.
LEMMA InitText == Init => TextInv
<1> SUFFICES ASSUME Init PROVE TextInv
  OBVIOUS
<1>1. RequestsInv
  <2> SUFFICES ASSUME NEW r \in Requests
               PROVE  eos[r] \in Nat /\ RequestOK(r, req[r], eos[r])
    BY DEF RequestsInv
  <2>1. eos[r] \in Nat /\ eos[r] > PromptLen
    BY DeviceRingAssumption DEF Init
  <2>2. req[r] = [out |-> Text(r, PromptLen), prefilling |-> PromptLen,
                  left |-> PromptLen, task |-> NoTask, fwd |-> 0,
                  inflight |-> <<>>, stopped |-> FALSE, ended |-> FALSE]
    BY DEF Init
  <2>3. RequestOK(r, req[r], eos[r])
    BY <2>1, <2>2, InitRequest
  <2> QED BY <2>1, <2>3
<1>2. PlannedAlike
  BY DEF Init, NoPlan, PlannedAlike
<1>3. /\ Returned = 0 /\ Built = 0 /\ executor_pipeline_depth = 0
      /\ output = NoOutput /\ DOMAIN model_input_queue = {}
      /\ Len(model_input_queue) = 0 /\ model_input_queue = <<>>
  BY SequenceEmpty DEF Init, Returned, Built, Sampling
<1>4. /\ (Returned + 1)..executor_pipeline_depth = {} /\ 1..Returned = {}
      /\ (Returned + 1)..Built = {}
      /\ executor_pipeline_depth # 2 /\ Len(model_input_queue) # 2
  BY <1>3
<1>5. StepsInv /\ DecodesFollow /\ CacheInv /\ ResultsInv
  BY <1>4 DEF StepsInv, DecodesFollow, CacheInv, ResultsInv
<1>6. BatchesInv /\ SlotsAlternate /\ OutputInv
  BY <1>3, <1>4 DEF BatchesInv, SlotsAlternate, OutputInv
<1>7. RingInv
  BY <1>3 DEF RingInv
<1>8. ExecuteShape
  BY DEF Init, ExecuteShape
<1> QED BY <1>1, <1>2, <1>5, <1>6, <1>7, <1>8 DEF TextInv, EngineInv, ExecutorInv

\* What the Engine does with its requests between two outputs leaves the rest.
LEMMA FrameText ==
  ASSUME PipelineInv, FlightsInv, ExecutorInv,
         \A r \in Requests : req[r].inflight # <<>> =>
           /\ req'[r].inflight = req[r].inflight
           /\ req'[r].fwd = req[r].fwd,
         UNCHANGED <<executor_pipeline_depth, schedule_output_queue,
                     model_input_queue, output, results, req_cache,
                     cur_ring_slot, device_tokens, ring>>
  PROVE  ExecutorInv'
<1>1. /\ Returned' = Returned /\ Built' = Built
      /\ \A k : InStep(k)' = InStep(k)
      /\ \A k : StepsIn(k)' = StepsIn(k)
  BY InStepFrame, StepsInFrame
<1>2. \A k \in 1..executor_pipeline_depth : \A r \in InStep(k) :
        Kind(r, k)' = Kind(r, k) /\ Length(r, k)' = Length(r, k)
  BY <1>1, FlightFrame
<1>3. /\ Returned \in Nat /\ Built \in Nat /\ Built <= executor_pipeline_depth
      /\ Returned <= executor_pipeline_depth
      /\ executor_pipeline_depth \in 0..2
  BY Lengths
<1>4. StepsInv'
  <2> SUFFICES ASSUME NEW k \in (Returned + 1)..executor_pipeline_depth
               PROVE  /\ DOMAIN StepsIn(k) = InStep(k)
                      /\ \A r \in InStep(k) :
                           StepIs(r, StepsIn(k)[r], Kind(r, k)', Length(r, k)')
                      /\ \/ \A r \in InStep(k) : Kind(r, k)' = Mid
                         \/ \A r \in InStep(k) : Kind(r, k)' # Mid
    BY <1>1 DEF StepsInv, Alike
  <2>1. k \in 1..executor_pipeline_depth
    BY <1>3
  <2> QED BY <2>1, <1>2 DEF ExecutorInv, StepsInv, Alike
<1>5. DecodesFollow'
  BY <1>1, <1>2 DEF ExecutorInv, DecodesFollow
<1>6. BatchesInv' /\ SlotsAlternate' /\ ExecuteShape' /\ OutputInv'
  BY DEF ExecutorInv, BatchesInv, BuiltBatch, SlotsAlternate, ExecuteShape, OutputInv
<1>7. CacheInv' /\ ResultsInv'
  <2>1. ASSUME NEW k \in (Returned + 1)..Built, NEW r \in InStep(k),
               Kind(r, k)' # Mid
        PROVE  req_cache[r].kind # Mid /\ req_cache[r].sampling = 1
    <3>1. k \in 1..executor_pipeline_depth
      BY <1>3
    <3> QED BY <3>1, <2>1, <1>2 DEF ExecutorInv, CacheInv
  <2>2. ASSUME NEW k \in 1..Returned, NEW r \in InStep(k), Kind(r, k)' # Mid
        PROVE  results[k][r] = <<<<r, Length(r, k)' + 1>>>>
    <3>1. k \in 1..executor_pipeline_depth
      BY <1>3
    <3> QED BY <3>1, <2>2, <1>2 DEF ExecutorInv, ResultsInv
  <2> QED BY <2>1, <2>2, <1>1 DEF CacheInv, ResultsInv
<1>8. RingInv'
  <2>1. LastRing' = LastRing
    BY DEF LastRing
  <2>2. Returned > 0 => Returned \in 1..executor_pipeline_depth
    BY <1>3
  <2>3. Returned < executor_pipeline_depth =>
          Returned + 1 \in 1..executor_pipeline_depth
    BY <1>3
  <2> QED BY <2>1, <2>2, <2>3, <1>1, <1>2 DEF ExecutorInv, RingInv
<1> QED BY <1>4, <1>5, <1>6, <1>7, <1>8 DEF ExecutorInv

\* Planning.
LEMMA ScheduleText ==
  ASSUME PipelineInv, FlightsInv, TextInv, Schedule, ~MixChunks
  PROVE  TextInv'
<1> DEFINE Planning(S, task) ==
             /\ \A r \in S : task[r] \in Tasks(r)
             /\ \/ \A r \in S : MidChunk(r, task[r])
                \/ \A r \in S : ~MidChunk(r, task[r])
             /\ planned' = S
             /\ req' = [r \in Requests |-> IF r \in S
                  THEN [req[r] EXCEPT !.task = task[r], !.left = @ - task[r]]
                  ELSE req[r]]
<1>a. \E S \in SUBSET {r \in Requests : Plannable(r)} : \E task : Planning(S, task)
  BY DEF Schedule
<1>b. PICK S \in SUBSET {r \in Requests : Plannable(r)} : \E task : Planning(S, task)
  <2> HIDE DEF Planning
  <2> QED BY <1>a
<1>1. PICK task : Planning(S, task)
  <2> HIDE DEF Planning
  <2> QED BY <1>b
<1>2. UNCHANGED <<eos, executor_pipeline_depth, schedule_output_queue,
                  model_input_queue, output, results, req_cache,
                  cur_ring_slot, device_tokens, ring>>
  BY DEF Schedule, preprocess, execute
<1>3. ASSUME NEW r \in S
      PROVE  /\ req'[r].task = task[r] /\ req'[r].left = req[r].left - task[r]
             /\ req'[r].out = req[r].out /\ req'[r].fwd = req[r].fwd
             /\ req'[r].prefilling = req[r].prefilling
             /\ req'[r].inflight = req[r].inflight
             /\ req'[r].stopped = req[r].stopped
             /\ req'[r].ended = req[r].ended
  <2>1. r \in Requests /\ DOMAIN req[r] = ReqFields
    BY DEF FlightsInv, EngineShape
  <2>2. req'[r] = [req[r] EXCEPT !.task = task[r], !.left = @ - task[r]]
    BY <1>1, <2>1
  <2> QED BY <2>1, <2>2 DEF ReqFields
<1>4. \A r \in Requests \ S : req'[r] = req[r]
  BY <1>1
<1>5. RequestsInv'
  <2> SUFFICES ASSUME NEW r \in Requests
               PROVE  eos[r] \in Nat /\ RequestOK(r, req'[r], eos[r])
    BY <1>2 DEF RequestsInv
  <2>1. eos[r] \in Nat /\ RequestOK(r, req[r], eos[r]) /\ Sequence(req[r].inflight)
    BY DEF TextInv, EngineInv, RequestsInv, FlightsInv, EngineShape
  <2>2. CASE r \in S
    <3>1. ~req[r].stopped /\ req[r].task = NoTask
      BY <1>1, <2>2 DEF Plannable, HasPlanningTask
    <3>2. task[r] \in IF req[r].left > 0 THEN 1..req[r].left
                      ELSE IF req[r].inflight # <<>> THEN {0} ELSE {}
      BY <1>1, <2>2 DEF Tasks
    <3>3. RequestOK(r, req'[r], eos[r])
      BY <2>1, <2>2, <3>1, <3>2, <1>3, PlanRequest
    <3> QED BY <2>1, <3>3
  <2>3. CASE r \notin S
    BY <2>1, <2>3, <1>4
  <2> QED BY <2>2, <2>3
<1>6. PlannedAlike'
  <2>1. ASSUME NEW r \in S PROVE MidChunk(r, task[r]) <=> TaskInner(req'[r])
    <3>1. req[r].left \in Nat
      BY DEF TextInv, EngineInv, RequestsInv, RequestOK, Counters
    <3>2. task[r] \in Nat
      <4>1. task[r] \in Tasks(r)
        BY <1>1
      <4> QED BY <4>1, <3>1 DEF Tasks
    <3> QED BY <3>1, <3>2, <1>3 DEF MidChunk, TaskInner
  <2> QED BY <2>1, <1>1 DEF PlannedAlike
<1>7. ExecutorInv'
  <2>1. \A r \in Requests : req'[r].inflight = req[r].inflight
                            /\ req'[r].fwd = req[r].fwd
    BY <1>3, <1>4
  <2> QED BY <2>1, <1>2, FrameText DEF TextInv
<1> QED BY <1>5, <1>6, <1>7 DEF TextInv, EngineInv

\* A planned output that waits, or is dropped, loses requests.
LEMMA DropText ==
  ASSUME PipelineInv, FlightsInv, TextInv, DropStopped \/ DropStaleOutput
  PROVE  TextInv'
<1>1. /\ planned' \subseteq planned
      /\ UNCHANGED <<req, eos, executor_pipeline_depth, schedule_output_queue,
                     model_input_queue, output, results, req_cache,
                     cur_ring_slot, device_tokens, ring>>
  BY DEF DropStopped, DropStaleOutput, NoPlan, preprocess, execute
<1>2. EngineInv'
  BY <1>1 DEF TextInv, EngineInv, RequestsInv, PlannedAlike
<1>3. ExecutorInv'
  BY <1>1, FrameText DEF TextInv
<1> QED BY <1>2, <1>3 DEF TextInv

\* Block pressure.
LEMMA StopText ==
  ASSUME PipelineInv, FlightsInv, TextInv, NEW r \in Requests, Stop(r)
  PROVE  TextInv'
<1>1. /\ req' = [req EXCEPT ![r].stopped = TRUE]
      /\ UNCHANGED <<eos, planned, executor_pipeline_depth, schedule_output_queue,
                     model_input_queue, output, results, req_cache,
                     cur_ring_slot, device_tokens, ring>>
      /\ req[r].inflight # <<>>
      /\ \A i \in DOMAIN req[r].inflight : req[r].inflight[i] = "decode"
  BY DEF Stop, preprocess, execute
<1>2. /\ req'[r].stopped = TRUE
      /\ req'[r].out = req[r].out /\ req'[r].fwd = req[r].fwd
      /\ req'[r].left = req[r].left /\ req'[r].task = req[r].task
      /\ req'[r].prefilling = req[r].prefilling
      /\ req'[r].inflight = req[r].inflight
      /\ req'[r].ended = req[r].ended
      /\ \A x \in Requests \ {r} : req'[x] = req[x]
  BY <1>1 DEF FlightsInv, EngineShape, ReqFields
<1>3. RequestsInv'
  <2> SUFFICES ASSUME NEW x \in Requests
               PROVE  eos[x] \in Nat /\ RequestOK(x, req'[x], eos[x])
    BY <1>1 DEF RequestsInv
  <2>1. eos[x] \in Nat /\ RequestOK(x, req[x], eos[x]) /\ Sequence(req[x].inflight)
    BY DEF TextInv, EngineInv, RequestsInv, FlightsInv, EngineShape
  <2>2. CASE x = r
    BY <2>1, <2>2, <1>1, <1>2, StopRequest
  <2> QED BY <2>1, <2>2, <1>2
<1>4. PlannedAlike'
  <2>1. \A x \in planned : req'[x].task = req[x].task /\ req'[x].left = req[x].left
    BY <1>2 DEF FlightsInv, EngineShape
  <2> QED BY <2>1, <1>1 DEF TextInv, EngineInv, PlannedAlike, TaskInner
<1>5. ExecutorInv'
  <2>1. \A x \in Requests : req'[x].inflight = req[x].inflight
                            /\ req'[x].fwd = req[x].fwd
    BY <1>2
  <2> QED BY <2>1, <1>1, FrameText DEF TextInv
<1> QED BY <1>3, <1>4, <1>5 DEF TextInv, EngineInv

\* A request that drained begins again.
LEMMA RecomputeText ==
  ASSUME PipelineInv, FlightsInv, TextInv, ~Replay,
         NEW r \in Requests, Recompute(r)
  PROVE  TextInv'
<1>1. /\ req' = [req EXCEPT ![r] =
           [@ EXCEPT !.prefilling = Len(req[r].out), !.left = Len(req[r].out),
                     !.task = NoTask, !.fwd = 0, !.stopped = FALSE]]
      /\ UNCHANGED <<eos, planned, executor_pipeline_depth, schedule_output_queue,
                     model_input_queue, output, results, req_cache,
                     cur_ring_slot, device_tokens, ring>>
      /\ ~req[r].ended /\ req[r].inflight = <<>> /\ r \notin planned
  BY DEF Recompute, preprocess, execute
<1>2. /\ req'[r].prefilling = Len(req[r].out)
      /\ req'[r].left = Len(req[r].out) /\ req'[r].task = NoTask
      /\ req'[r].fwd = 0 /\ req'[r].stopped = FALSE
      /\ req'[r].out = req[r].out
      /\ req'[r].inflight = req[r].inflight
      /\ req'[r].ended = req[r].ended
      /\ \A x \in Requests \ {r} : req'[x] = req[x]
  BY <1>1 DEF FlightsInv, EngineShape, ReqFields
<1>3. RequestsInv'
  <2> SUFFICES ASSUME NEW x \in Requests
               PROVE  eos[x] \in Nat /\ RequestOK(x, req'[x], eos[x])
    BY <1>1 DEF RequestsInv
  <2>1. eos[x] \in Nat /\ RequestOK(x, req[x], eos[x])
    BY DEF TextInv, EngineInv, RequestsInv
  <2>2. CASE x = r
    BY <2>1, <2>2, <1>1, <1>2, RecomputeRequest
  <2> QED BY <2>1, <2>2, <1>2
<1>4. PlannedAlike'
  <2>1. \A x \in planned : req'[x] = req[x]
    BY <1>1, <1>2 DEF FlightsInv, EngineShape
  <2> QED BY <2>1, <1>1 DEF TextInv, EngineInv, PlannedAlike
<1>5. ExecutorInv'
  <2>1. \A x \in Requests : req[x].inflight # <<>> =>
          req'[x].inflight = req[x].inflight /\ req'[x].fwd = req[x].fwd
    BY <1>1, <1>2
  <2> QED BY <2>1, <1>1, FrameText DEF TextInv
<1> QED BY <1>3, <1>4, <1>5 DEF TextInv, EngineInv

\* The step that is launched for a request with a task.
LEMMA LaunchedStepFacts ==
  ASSUME NEW r, NEW end, RequestOK(r, req[r], end), Sequence(req[r].inflight),
         Len(req[r].inflight) \in 0..1, ~req[r].stopped, req[r].task # NoTask
  PROVE  /\ LaunchedStep(r).len = LaunchedLen(req[r])
         /\ LaunchedStep(r).kind = LaunchedKind(req[r])
         /\ StepIs(r, LaunchedStep(r), LaunchedKind(req[r]), LaunchedLen(req[r]))
<1> DEFINE q == req[r]
           s == LaunchedStep(r)
           n == LaunchedLen(q)
           kind == LaunchedKind(q)
<1>1. s = [kind |-> kind, len |-> n, kv |-> q.fwd,
           sampling |-> IF kind = Mid THEN 0 ELSE 1,
           last |-> IF q.task = 0 THEN Placeholder ELSE q.out[n], offset |-> 0]
  BY DEF LaunchedStep, LaunchedLen, LaunchedKind, Mid
<1>2. /\ n \in Nat /\ q.fwd \in Nat /\ q.fwd < n
      /\ kind \in Kinds
      /\ kind = "decode" <=> q.task = 0
      /\ q.task # 0 => q.out[n] = <<r, n>>
  BY TaskFacts
<1> HIDE DEF q, n, kind, s
<1>3. DOMAIN s = StepFields
  BY <1>1 DEF StepFields
<1>4. /\ s.kind = kind /\ s.len = n /\ s.kv = q.fwd
      /\ s.sampling = IF kind = Mid THEN 0 ELSE 1
      /\ s.last = IF q.task = 0 THEN Placeholder ELSE q.out[n]
  BY <1>1
<1>5. StepIs(r, s, kind, n)
  BY <1>2, <1>3, <1>4 DEF StepIs
<1> QED BY <1>4, <1>5 DEF q, n, kind, s

\* What a launch does to requests and queue.
LEMMA LaunchStep ==
  ASSUME PipelineInv, FlightsInv, RequestsInv, TryToLaunchPlannedScheduleOutput
  PROVE  /\ UNCHANGED <<eos, model_input_queue, output, results, req_cache,
                        cur_ring_slot, device_tokens, ring>>
         /\ planned' = {}
         /\ \E o : /\ schedule_output_queue' = Append(schedule_output_queue, o)
                   /\ DOMAIN o.steps = planned \ Stopped(planned)
                   /\ \A r \in planned \ Stopped(planned) :
                        o.steps[r] = LaunchedStep(r)
         /\ \A r \in Requests \ (planned \ Stopped(planned)) : req'[r] = req[r]
         /\ \A r \in planned \ Stopped(planned) :
              /\ r \in Requests /\ ~req[r].stopped /\ req[r].task # NoTask
              /\ Sequence(req[r].inflight) /\ Len(req[r].inflight) \in 0..1
              /\ req'[r].task = NoTask
              /\ req'[r].fwd = LaunchedStep(r).len
              /\ req'[r].inflight = Append(req[r].inflight, LaunchedStep(r).kind)
              /\ req'[r].out = req[r].out /\ req'[r].left = req[r].left
              /\ req'[r].prefilling = req[r].prefilling
              /\ req'[r].stopped = req[r].stopped
              /\ req'[r].ended = req[r].ended
<1> DEFINE running == planned \ Stopped(planned)
           steps == [r \in running |->
               IF r \in Launching(planned) THEN LaunchedStep(r) ELSE LiveStep(r)]
           new == [steps |-> steps, finish |-> finish_ids,
                   recompute |-> recompute_ids]
<1>1. Launching(planned) = running /\ running \subseteq Requests
  BY DEF FlightsInv, EngineShape, PlannedHaveTasks, Launching, Stopped
<1>2. /\ planned' = {}
      /\ UNCHANGED <<eos, model_input_queue, output, results, req_cache,
                     cur_ring_slot, device_tokens, ring>>
      /\ \A r \in Launching(planned) : Len(req[r].inflight) < max_depth
      /\ req' = [r \in Requests |-> IF r \in running
           THEN [req[r] EXCEPT !.task = NoTask,
                               !.fwd = LaunchedStep(r).len,
                               !.inflight = Append(@, LaunchedStep(r).kind)]
           ELSE req[r]]
  BY <1>1, Zenon DEF TryToLaunchPlannedScheduleOutput, IsLaunchable, NoPlan,
                     preprocess, execute
<1>3. \E o : /\ schedule_output_queue' = Append(schedule_output_queue, o)
             /\ DOMAIN o.steps = running
             /\ \A r \in running : o.steps[r] = LaunchedStep(r)
  <2>1. schedule_output_queue' = Append(schedule_output_queue, new)
    BY Zenon DEF TryToLaunchPlannedScheduleOutput
  <2>2. new.steps = steps
    OBVIOUS
  <2>3. DOMAIN steps = running /\ \A r \in running : steps[r] = LaunchedStep(r)
    BY <1>1
  <2> HIDE DEF new, steps, running
  <2> QED BY <2>1, <2>2, <2>3
<1>4. ASSUME NEW r \in running
      PROVE  /\ r \in Requests /\ ~req[r].stopped /\ req[r].task # NoTask
             /\ Sequence(req[r].inflight) /\ Len(req[r].inflight) \in 0..1
             /\ req'[r].task = NoTask
             /\ req'[r].fwd = LaunchedStep(r).len
             /\ req'[r].inflight = Append(req[r].inflight, LaunchedStep(r).kind)
             /\ req'[r].out = req[r].out /\ req'[r].left = req[r].left
             /\ req'[r].prefilling = req[r].prefilling
             /\ req'[r].stopped = req[r].stopped
             /\ req'[r].ended = req[r].ended
  <2>1. /\ r \in Requests /\ ~req[r].stopped /\ req[r].task # NoTask
        /\ Sequence(req[r].inflight) /\ DOMAIN req[r] = ReqFields
    BY <1>1 DEF Launching, HasPlanningTask, FlightsInv, EngineShape
  <2>2. Len(req[r].inflight) \in 0..1
    <3>1. Len(req[r].inflight) \in Nat /\ Len(req[r].inflight) < 2
      BY <1>1, <1>2, <2>1, SequenceLen DEF max_depth
    <3>2. \A i \in Nat : i < 2 => i \in 0..1
      OBVIOUS
    <3> QED BY <3>1, <3>2
  <2>3. req'[r] = [req[r] EXCEPT !.task = NoTask,
                                 !.fwd = LaunchedStep(r).len,
                                 !.inflight = Append(@, LaunchedStep(r).kind)]
    BY <1>2, <2>1
  <2> HIDE DEF running
  <2> QED BY <2>1, <2>2, <2>3 DEF ReqFields
<1>5. \A r \in Requests \ running : req'[r] = req[r]
  BY <1>2
<1> QED BY <1>2, <1>3, <1>4, <1>5

\* A launch: the new output's steps go on where the requests' last ones end.
LEMMA LaunchText ==
  ASSUME PipelineInv, FlightsInv, TextInv, TryToLaunchPlannedScheduleOutput
  PROVE  TextInv'
<1> DEFINE running == planned \ Stopped(planned)
           depth == executor_pipeline_depth
           new == depth + 1
<1>0. RequestsInv /\ PlannedAlike /\ ExecutorInv
  BY DEF TextInv, EngineInv
<1>1. /\ UNCHANGED <<eos, model_input_queue, output, results, req_cache,
                     cur_ring_slot, device_tokens, ring>>
      /\ planned' = {}
  BY <1>0, LaunchStep
<1>2. PICK o : /\ schedule_output_queue' = Append(schedule_output_queue, o)
               /\ DOMAIN o.steps = running
               /\ \A r \in running : o.steps[r] = LaunchedStep(r)
  BY <1>0, LaunchStep
<1>3. \A r \in Requests \ running : req'[r] = req[r]
  BY <1>0, LaunchStep
<1>4. ASSUME NEW r \in running
      PROVE  /\ r \in Requests /\ ~req[r].stopped /\ req[r].task # NoTask
             /\ Sequence(req[r].inflight) /\ Len(req[r].inflight) \in 0..1
             /\ req'[r].task = NoTask
             /\ req'[r].fwd = LaunchedStep(r).len
             /\ req'[r].inflight = Append(req[r].inflight, LaunchedStep(r).kind)
             /\ req'[r].out = req[r].out /\ req'[r].left = req[r].left
             /\ req'[r].prefilling = req[r].prefilling
             /\ req'[r].stopped = req[r].stopped
             /\ req'[r].ended = req[r].ended
  BY <1>0, LaunchStep
<1>5. /\ depth' = new /\ depth \in 0..1
      /\ Built' = Built /\ Returned' = Returned
      /\ \A k \in 1..depth : InStep(k)' = InStep(k)
      /\ \A k \in 1..depth : StepsIn(k)' = StepsIn(k)
      /\ InStep(depth)' = running
      /\ StepsIn(depth)' = o.steps
  BY <1>2, InStepLaunch, StepsInLaunch, Lengths
<1>6. /\ Returned \in Nat /\ Built \in Nat /\ Built <= depth
      /\ Returned <= depth
  BY Lengths
<1> HIDE DEF running, depth, new
<1>7. ASSUME NEW r \in running
      PROVE  /\ RequestOK(r, req[r], eos[r])
             /\ req'[r].fwd = LaunchedLen(req[r])
             /\ req'[r].inflight = Append(req[r].inflight, LaunchedKind(req[r]))
             /\ StepIs(r, o.steps[r], LaunchedKind(req[r]), LaunchedLen(req[r]))
  <2>1. RequestOK(r, req[r], eos[r])
    BY <1>0, <1>4 DEF RequestsInv
  <2>2. /\ LaunchedStep(r).len = LaunchedLen(req[r])
        /\ LaunchedStep(r).kind = LaunchedKind(req[r])
        /\ StepIs(r, LaunchedStep(r), LaunchedKind(req[r]), LaunchedLen(req[r]))
    BY <1>4, <2>1, LaunchedStepFacts
  <2> QED BY <1>2, <1>4, <2>1, <2>2
<1>8. RequestsInv'
  <2> SUFFICES ASSUME NEW r \in Requests
               PROVE  eos[r] \in Nat /\ RequestOK(r, req'[r], eos[r])
    BY <1>1 DEF RequestsInv
  <2>1. eos[r] \in Nat /\ RequestOK(r, req[r], eos[r])
    BY <1>0 DEF RequestsInv
  <2>2. CASE r \in running
    <3>1. RequestOK(r, req'[r], eos[r])
      BY <2>1, <2>2, <1>4, <1>7, LaunchRequest
    <3> QED BY <2>1, <3>1
  <2> QED BY <2>1, <2>2, <1>3
<1>9. PlannedAlike'
  BY <1>1 DEF PlannedAlike
\* The steps that were in flight, and those that are new.
<1>10. \A r \in Requests :
         IF r \in running
           THEN \E x : /\ req'[r].inflight = Append(req[r].inflight, x)
                       /\ req[r].inflight # <<>> /\ req[r].inflight[1] # Mid =>
                            req'[r].fwd = req[r].fwd + 1
           ELSE req'[r] = req[r]
  <2> SUFFICES ASSUME NEW r \in running
               PROVE  \E x : /\ req'[r].inflight = Append(req[r].inflight, x)
                             /\ req[r].inflight # <<>> /\ req[r].inflight[1] # Mid =>
                                  req'[r].fwd = req[r].fwd + 1
    BY <1>3
  <2>1. ASSUME req[r].inflight # <<>>, req[r].inflight[1] # Mid
        PROVE  req'[r].fwd = req[r].fwd + 1
    <3>1. Len(req[r].inflight) = 1
      BY <2>1, <1>4, SequenceLen
    <3>2. req[r].task = 0
      <4>1. SUFFICES ASSUME req[r].task # 0 PROVE FALSE
        OBVIOUS
      <4>2. InPrompt(req[r])
        BY <4>1, <1>4, <1>7, TaskFacts
      <4> QED BY <2>1, <3>1, <4>2, <1>7 DEF RequestOK, PromptPhase
    <3> QED BY <3>2, <1>7 DEF LaunchedLen
  <2> QED BY <2>1, <1>7
<1>11. /\ \A k \in 1..depth : \A r \in InStep(k) :
            /\ Kind(r, k)' = Kind(r, k)
            /\ Kind(r, k) # Mid => Length(r, k)' = Length(r, k)
       /\ \A r \in running : Flight(r, depth)' = Len(req[r].inflight) + 1
  <2>1. \A r \in Requests : req[r].fwd \in Nat
    BY <1>0 DEF RequestsInv, RequestOK, Counters
  <2>2. /\ \A k \in 1..depth : \A r \in InStep(k) :
             /\ Kind(r, k)' = Kind(r, k)
             /\ Kind(r, k) # Mid => Length(r, k)' = Length(r, k)
        /\ \A r \in running \cap Requests :
             Flight(r, depth)' = Len(req[r].inflight) + 1
    BY <2>1, <1>5, <1>10, FlightLaunch DEF depth
  <2> QED BY <2>2, <1>4
<1>12. ASSUME NEW r \in running
       PROVE  /\ Kind(r, depth)' = LaunchedKind(req[r])
              /\ Length(r, depth)' = LaunchedLen(req[r])
  <2>1. /\ Len(req'[r].inflight) = Len(req[r].inflight) + 1
        /\ req'[r].inflight[Len(req[r].inflight) + 1] = LaunchedKind(req[r])
    <3>1. /\ Len(Append(req[r].inflight, LaunchedKind(req[r])))
               = Len(req[r].inflight) + 1
          /\ Append(req[r].inflight, LaunchedKind(req[r]))[Len(req[r].inflight) + 1]
               = LaunchedKind(req[r])
      BY <1>4, SequenceAppend
    <3> QED BY <3>1, <1>7
  <2>2. Flight(r, depth)' = Len(req[r].inflight) + 1
    BY <1>11
  <2> QED BY <2>1, <2>2, <1>7 DEF Kind, Length, SampledLen
<1>13. StepsInv'
  <2> SUFFICES ASSUME NEW k \in (Returned + 1)..new
               PROVE  /\ DOMAIN StepsIn(k)' = InStep(k)'
                      /\ \A r \in InStep(k)' :
                           StepIs(r, StepsIn(k)'[r], Kind(r, k)', Length(r, k)')
                      /\ \/ \A r \in InStep(k)' : Kind(r, k)' = Mid
                         \/ \A r \in InStep(k)' : Kind(r, k)' # Mid
    BY <1>5 DEF StepsInv, Alike, depth
  <2>1. CASE k \in 1..depth
    <3>1. /\ DOMAIN StepsIn(k) = InStep(k)
          /\ \A r \in InStep(k) : StepIs(r, StepsIn(k)[r], Kind(r, k), Length(r, k))
          /\ Alike(k)
      <4>1. k \in (Returned + 1)..executor_pipeline_depth
        BY <2>1 DEF depth
      <4> QED BY <4>1, <1>0 DEF ExecutorInv, StepsInv
    <3>2. \A r \in InStep(k) : StepIs(r, StepsIn(k)[r], Kind(r, k)', Length(r, k)')
      BY <3>1, <2>1, <1>11 DEF StepIs
    <3>3. \/ \A r \in InStep(k) : Kind(r, k)' = Mid
          \/ \A r \in InStep(k) : Kind(r, k)' # Mid
      BY <3>1, <2>1, <1>11 DEF Alike
    <3> QED BY <3>1, <3>2, <3>3, <2>1, <1>5
  <2>2. CASE k = new
    <3>1. /\ InStep(k)' = running /\ StepsIn(k)' = o.steps
          /\ \A r \in running : Kind(r, k)' = LaunchedKind(req[r])
          /\ \A r \in running : Length(r, k)' = LaunchedLen(req[r])
      <4>1. k = depth'
        BY <2>2, <1>5
      <4> QED BY <4>1, <1>5, <1>12
    <3>2. \A r \in running : LaunchedKind(req[r]) = Mid <=> TaskInner(req[r])
      <4> SUFFICES ASSUME NEW r \in running
                   PROVE  LaunchedKind(req[r]) = Mid <=> TaskInner(req[r])
        OBVIOUS
      <4>1. LaunchedKind(req[r]) = Mid <=> req[r].task > 0 /\ req[r].left > 0
        BY <1>4, <1>7, TaskFacts
      <4> QED BY <4>1 DEF TaskInner
    <3>3. \/ \A r \in running : LaunchedKind(req[r]) = Mid
          \/ \A r \in running : LaunchedKind(req[r]) # Mid
      BY <3>2, <1>0 DEF PlannedAlike, running
    <3> QED BY <3>1, <3>3, <1>2, <1>7
  <2> QED BY <2>1, <2>2, <1>5, <1>6 DEF new
\* A decode step goes behind the one step its request has in flight.
<1>14. ASSUME NEW r \in running, LaunchedKind(req[r]) = "decode"
       PROVE  /\ depth = 1 /\ r \in InStep(1) /\ Kind(r, 1) # Mid
              /\ LaunchedLen(req[r]) = Length(r, 1) + 1
  <2>1. Len(req[r].inflight) = 1 /\ req[r].inflight[1] # Mid /\ req[r].task = 0
    BY <1>4, <1>7, <1>14, TaskFacts
  <2>2. Len(req[r].inflight) = Flights(r, 1) + Flights(r, 2)
    BY <1>4 DEF FlightsInv, StepsInFlight
  <2>3. Flights(r, 2) = 0
    BY <1>5 DEF Flights, depth
  <2>4. depth = 1 /\ r \in InStep(1)
    BY <2>1, <2>2, <2>3, <1>5 DEF Flights, depth
  <2>5. Flight(r, 1) = 1
    BY DEF Flight
  <2>6. Kind(r, 1) # Mid /\ Length(r, 1) = req[r].fwd
    BY <2>1, <2>5 DEF Kind, Length, SampledLen
  <2> QED BY <2>1, <2>4, <2>6 DEF LaunchedLen
<1>15. DecodesFollow'
  <2> SUFFICES ASSUME depth' = 2, NEW r \in InStep(2)', Kind(r, 2)' = "decode"
               PROVE  r \in InStep(1)'
    BY DEF DecodesFollow, depth
  <2>1. depth = 1 /\ r \in running
    BY <1>5 DEF new
  <2>2. LaunchedKind(req[r]) = "decode"
    BY <2>1, <1>12
  <2> QED BY <2>1, <2>2, <1>5, <1>14
<1>16. BatchesInv' /\ SlotsAlternate' /\ ExecuteShape' /\ OutputInv'
  BY <1>0, <1>1
     DEF ExecutorInv, BatchesInv, BuiltBatch, SlotsAlternate, ExecuteShape, OutputInv
<1>17. CacheInv' /\ ResultsInv'
  <2>1. ASSUME NEW k \in (Returned + 1)..Built, NEW r \in InStep(k),
               Kind(r, k)' # Mid
        PROVE  req_cache[r].kind # Mid /\ req_cache[r].sampling = 1
    <3>1. k \in 1..depth
      BY <1>5, <1>6
    <3> QED BY <3>1, <2>1, <1>0, <1>11 DEF ExecutorInv, CacheInv
  <2>2. ASSUME NEW k \in 1..Returned, NEW r \in InStep(k), Kind(r, k)' # Mid
        PROVE  results[k][r] = <<<<r, Length(r, k)' + 1>>>>
    <3>1. k \in 1..depth
      BY <1>5, <1>6
    <3> QED BY <3>1, <2>2, <1>0, <1>11 DEF ExecutorInv, ResultsInv
  <2>3. \A k \in (Returned + 1)..Built : InStep(k)' = InStep(k)
    BY <1>5, <1>6
  <2>4. \A k \in 1..Returned : InStep(k)' = InStep(k)
    BY <1>5, <1>6
  <2> QED BY <2>1, <2>2, <2>3, <2>4, <1>1, <1>5 DEF CacheInv, ResultsInv
<1>18. RingInv'
  <2>1. LastRing' = LastRing
    BY <1>1 DEF LastRing
  <2> SUFFICES ASSUME output = NoOutput
               PROVE  /\ Returned > 0 =>
                           \A r \in InStep(Returned)' :
                             Kind(r, Returned)' # Mid =>
                               Has(ring[LastRing], r, Length(r, Returned)' + 1)
                      /\ Returned < new =>
                           \A r \in InStep(Returned + 1)' :
                             Kind(r, Returned + 1)' = "decode" =>
                               Has(ring[LastRing], r, Length(r, Returned + 1)')
    BY <2>1, <1>1, <1>5 DEF RingInv, depth
  <2>2. /\ Returned > 0 =>
             \A r \in InStep(Returned) :
               Kind(r, Returned) # Mid =>
                 Has(ring[LastRing], r, Length(r, Returned) + 1)
        /\ Returned < depth =>
             \A r \in InStep(Returned + 1) :
               Kind(r, Returned + 1) = "decode" =>
                 Has(ring[LastRing], r, Length(r, Returned + 1))
    BY <1>0 DEF ExecutorInv, RingInv, depth
  <2>3. Returned > 0 => Returned \in 1..depth
    BY <1>6
  <2>4. ASSUME Returned > 0, NEW r \in InStep(Returned)', Kind(r, Returned)' # Mid
        PROVE  Has(ring[LastRing], r, Length(r, Returned)' + 1)
    BY <2>2, <2>3, <2>4, <1>5, <1>11
  <2>5. ASSUME NEW r \in InStep(Returned + 1)', Kind(r, Returned + 1)' = "decode"
        PROVE  Has(ring[LastRing], r, Length(r, Returned + 1)')
    <3>1. CASE Returned < depth
      <4>1. Returned + 1 \in 1..depth /\ "decode" # Mid
        BY <3>1, <1>5, <1>6 DEF Mid
      <4> QED BY <4>1, <2>2, <2>5, <3>1, <1>5, <1>11
    <3>2. CASE Returned = depth
      <4>1. Returned + 1 = depth'
        BY <3>2, <1>5 DEF new
      <4>2. r \in running /\ LaunchedKind(req[r]) = "decode"
            /\ Length(r, Returned + 1)' = LaunchedLen(req[r])
        BY <2>5, <4>1, <1>5, <1>12
      <4>3. /\ depth = 1 /\ r \in InStep(1) /\ Kind(r, 1) # Mid
            /\ LaunchedLen(req[r]) = Length(r, 1) + 1
        BY <4>2, <1>14
      <4> QED BY <2>2, <3>2, <4>2, <4>3
    <3> QED BY <3>1, <3>2, <1>5, <1>6
  <2> QED BY <2>4, <2>5
<1> QED BY <1>8, <1>9, <1>13, <1>15, <1>16, <1>17, <1>18
       DEF TextInv, EngineInv, ExecutorInv

\* What comes back, and what becomes of its requests.
LEMMA ReturnStep ==
  ASSUME PipelineInv, FlightsInv, UpdateWithGenerationResult
  PROVE  /\ UNCHANGED <<eos, planned, schedule_output_queue, model_input_queue,
                        output, req_cache, cur_ring_slot, device_tokens, ring>>
         /\ results # <<>> /\ results' = Tail(results)
         /\ \A r \in Requests \ InStep(1) : req'[r] = req[r]
         /\ \A r \in InStep(1) :
              /\ r \in Requests /\ Sequence(req[r].inflight)
              /\ Len(req[r].inflight) \in 1..2
              /\ req[r].stopped \/ req[r].inflight[1] = Mid
                   \/ Len(req[r].inflight) = 2
              /\ BecomesRetired(r, eos[r], req[r], results[1][r], req'[r])
<1> DEFINE gen == Head(results)
           back == {r \in DOMAIN gen : req[r].inflight # <<>>}
<1>1. /\ req' = [r \in Requests |-> IF r \in back THEN Retired(r, gen[r])
                                                  ELSE req[r]]
      /\ \A r \in back : LaunchedAhead(r)
      /\ results # <<>> /\ results' = Tail(results)
      /\ UNCHANGED <<eos, planned, schedule_output_queue, model_input_queue,
                     output, req_cache, cur_ring_slot, device_tokens, ring>>
  BY Zenon DEF UpdateWithGenerationResult, preprocess, execute
<1>2. gen = results[1]
  <2>1. Sequence(results) /\ results # <<>>
    BY <1>1 DEF PipelineInv, QueueShape
  <2> QED BY <2>1, SequenceTail
<1>3. InStep(1) = DOMAIN gen /\ 1 \in 1..executor_pipeline_depth
  BY InStepReturn
<1> HIDE DEF gen
<1>4. ASSUME NEW r \in InStep(1)
      PROVE  /\ r \in Requests /\ Sequence(req[r].inflight) /\ r \in back
             /\ Len(req[r].inflight) \in 1..2 /\ req[r].inflight # <<>>
  BY <1>3, FlightFacts
<1> HIDE DEF back
<1>5. ASSUME NEW r \in InStep(1)
      PROVE  /\ req[r].stopped \/ req[r].inflight[1] = Mid
                  \/ Len(req[r].inflight) = 2
             /\ BecomesRetired(r, eos[r], req[r], results[1][r], req'[r])
  <2>1. Head(req[r].inflight) = req[r].inflight[1]
    BY <1>4, SequenceTail
  <2>2. req[r].stopped \/ req[r].inflight[1] = Mid \/ Len(req[r].inflight) = 2
    BY <1>1, <1>4, <2>1 DEF LaunchedAhead, max_depth, Mid
  <2>3. req'[r] = Retired(r, gen[r])
    BY <1>1, <1>4
  <2> DEFINE q == req[r]
             discard == q.ended \/ q.inflight[1] = Mid
             out == IF discard THEN q.out ELSE q.out \o gen[r]
             ended == q.ended \/ Last(out) = <<r, eos[r]>>
  <2>4. req'[r] = [q EXCEPT !.out = out, !.ended = ended,
                            !.stopped = @ \/ ended, !.inflight = Tail(@)]
    BY <2>1, <2>3 DEF Retired, Mid
  <2>5. DOMAIN q = ReqFields
    BY <1>4 DEF FlightsInv, EngineShape
  <2> HIDE DEF ended
  <2>6. /\ req'[r].out = out /\ req'[r].ended = ended
        /\ req'[r].stopped = (q.stopped \/ ended)
        /\ req'[r].inflight = Tail(q.inflight)
        /\ req'[r].prefilling = q.prefilling /\ req'[r].left = q.left
        /\ req'[r].task = q.task /\ req'[r].fwd = q.fwd
    BY <2>4, <2>5 DEF ReqFields
  <2>7. out = IF discard THEN q.out ELSE q.out \o results[1][r]
    BY <1>2
  <2> HIDE DEF out, discard
  <2>8. req'[r].ended = (q.ended \/ Last(req'[r].out) = <<r, eos[r]>>)
    BY <2>6 DEF ended
  <2>9. req'[r].stopped = (q.stopped \/ req'[r].ended)
    BY <2>6, Zenon
  <2>10. BecomesRetired(r, eos[r], q, results[1][r], req'[r])
    BY <2>6, <2>7, <2>8, <2>9, Zenon DEF BecomesRetired, discard
  <2> QED BY <2>2, <2>10
<1>6. \A r \in Requests \ InStep(1) : req'[r] = req[r]
  BY <1>1, <1>3 DEF back
<1> QED BY <1>1, <1>4, <1>5, <1>6

\* An output comes back: its requests get the next token of their texts.
LEMMA ReturnText ==
  ASSUME PipelineInv, FlightsInv, TextInv, UpdateWithGenerationResult
  PROVE  TextInv'
<1> DEFINE depth == executor_pipeline_depth
<1>0. RequestsInv /\ PlannedAlike /\ ExecutorInv
  BY DEF TextInv, EngineInv
<1>1. /\ UNCHANGED <<eos, planned, schedule_output_queue, model_input_queue,
                     output, req_cache, cur_ring_slot, device_tokens, ring>>
      /\ results # <<>> /\ results' = Tail(results)
      /\ \A r \in Requests \ InStep(1) : req'[r] = req[r]
  BY ReturnStep
<1>2. ASSUME NEW r \in InStep(1)
      PROVE  /\ r \in Requests /\ Sequence(req[r].inflight)
             /\ Len(req[r].inflight) \in 1..2
             /\ req[r].stopped \/ req[r].inflight[1] = Mid
                  \/ Len(req[r].inflight) = 2
             /\ BecomesRetired(r, eos[r], req[r], results[1][r], req'[r])
  BY ReturnStep
<1>3. /\ depth \in 1..2 /\ depth' = depth - 1
      /\ Built' = Built - 1 /\ Returned' = Returned - 1 /\ Returned > 0
      /\ \A k \in 1..depth' : InStep(k)' = InStep(k + 1)
      /\ \A k \in 1..depth' : StepsIn(k)' = StepsIn(k + 1)
  BY InStepReturn, StepsInReturn
<1>4. /\ Returned \in Nat /\ Built \in Nat /\ Built <= depth
      /\ Returned <= depth /\ Returned = Len(results)
  BY Lengths DEF Returned
<1>5. RequestsInv'
  <2> SUFFICES ASSUME NEW r \in Requests
               PROVE  eos[r] \in Nat /\ RequestOK(r, req'[r], eos[r])
    BY <1>1 DEF RequestsInv
  <2>1. eos[r] \in Nat /\ RequestOK(r, req[r], eos[r])
    BY <1>0 DEF RequestsInv
  <2>2. CASE r \in InStep(1)
    <3>1. ASSUME req[r].inflight[1] # Mid
          PROVE  results[1][r] = <<<<r, SampledLen(req[r], 1) + 1>>>>
      <4>1. Flight(r, 1) = 1
        BY DEF Flight
      <4>2. Kind(r, 1) # Mid /\ Length(r, 1) = SampledLen(req[r], 1)
        BY <3>1, <4>1 DEF Kind, Length
      <4>3. 1 \in 1..Returned
        BY <1>3, <1>4
      <4> QED BY <2>2, <4>2, <4>3, <1>0 DEF ExecutorInv, ResultsInv
    <3>2. RequestOK(r, req'[r], eos[r])
      BY <2>1, <2>2, <3>1, <1>2, RetireRequest
    <3> QED BY <2>1, <3>2
  <2> QED BY <2>1, <2>2, <1>1
<1>6. \A r \in Requests :
        /\ req'[r].fwd = req[r].fwd /\ req'[r].task = req[r].task
        /\ req'[r].left = req[r].left
        /\ req'[r].inflight = IF r \in InStep(1) THEN Tail(req[r].inflight)
                                                 ELSE req[r].inflight
  BY <1>1, <1>2 DEF BecomesRetired
<1>7. PlannedAlike'
  <2>1. \A r \in planned : TaskInner(req[r])' <=> TaskInner(req[r])
    BY <1>6 DEF FlightsInv, EngineShape, TaskInner
  <2> QED BY <2>1, <1>0, <1>1 DEF PlannedAlike
<1>8. \A k \in 1..depth' : \A r \in InStep(k)' :
        /\ k = 1 /\ depth = 2
        /\ r \in InStep(k + 1)
        /\ Kind(r, k)' = Kind(r, k + 1) /\ Length(r, k)' = Length(r, k + 1)
  BY <1>6, FlightReturn
<1> HIDE DEF depth
<1>9. StepsInv'
  <2> SUFFICES ASSUME NEW k \in (Returned' + 1)..depth'
               PROVE  /\ DOMAIN StepsIn(k)' = InStep(k)'
                      /\ \A r \in InStep(k)' :
                           StepIs(r, StepsIn(k)'[r], Kind(r, k)', Length(r, k)')
                      /\ \/ \A r \in InStep(k)' : Kind(r, k)' = Mid
                         \/ \A r \in InStep(k)' : Kind(r, k)' # Mid
    BY DEF StepsInv, Alike, depth
  <2>1. k \in 1..depth' /\ k + 1 \in (Returned + 1)..depth
    BY <1>3, <1>4
  <2>2. /\ DOMAIN StepsIn(k + 1) = InStep(k + 1)
        /\ \A r \in InStep(k + 1) :
             StepIs(r, StepsIn(k + 1)[r], Kind(r, k + 1), Length(r, k + 1))
        /\ Alike(k + 1)
    BY <2>1, <1>0 DEF ExecutorInv, StepsInv, depth
  <2>3. InStep(k)' = InStep(k + 1) /\ StepsIn(k)' = StepsIn(k + 1)
    BY <2>1, <1>3
  <2>4. \A r \in InStep(k + 1) : Kind(r, k)' = Kind(r, k + 1)
                                 /\ Length(r, k)' = Length(r, k + 1)
    BY <2>1, <2>3, <1>8
  <2> QED BY <2>2, <2>3, <2>4 DEF Alike
<1>10. DecodesFollow'
  BY <1>3 DEF DecodesFollow, depth
<1>11. BatchesInv' /\ SlotsAlternate' /\ ExecuteShape' /\ OutputInv'
  BY <1>0, <1>1
     DEF ExecutorInv, BatchesInv, BuiltBatch, SlotsAlternate, ExecuteShape, OutputInv
<1>12. CacheInv'
  <2> SUFFICES ASSUME NEW k \in (Returned' + 1)..Built', NEW r \in InStep(k)',
                      Kind(r, k)' # Mid
               PROVE  req_cache[r].kind # Mid /\ req_cache[r].sampling = 1
    BY <1>1 DEF CacheInv
  <2>1. k \in 1..depth' /\ k + 1 \in (Returned + 1)..Built
    BY <1>3, <1>4
  <2> QED BY <2>1, <1>0, <1>8 DEF ExecutorInv, CacheInv
<1>13. ResultsInv'
  <2> SUFFICES ASSUME NEW k \in 1..Returned', NEW r \in InStep(k)',
                      Kind(r, k)' # Mid
               PROVE  results'[k][r] = <<<<r, Length(r, k)' + 1>>>>
    BY DEF ResultsInv
  <2>1. k \in 1..depth' /\ k + 1 \in 1..Returned /\ k \in 1..(Len(results) - 1)
    BY <1>3, <1>4
  <2>2. results'[k] = results[k + 1]
    BY <2>1, <1>1, SequenceTail DEF PipelineInv, QueueShape
  <2> QED BY <2>1, <2>2, <1>0, <1>8 DEF ExecutorInv, ResultsInv
<1>14. RingInv'
  <2>1. LastRing' = LastRing
    BY <1>1 DEF LastRing
  <2> SUFFICES ASSUME output = NoOutput
               PROVE  /\ Returned' > 0 =>
                           \A r \in InStep(Returned)' :
                             Kind(r, Returned)' # Mid =>
                               Has(ring[LastRing], r, Length(r, Returned)' + 1)
                      /\ Returned' < depth' =>
                           \A r \in InStep(Returned + 1)' :
                             Kind(r, Returned + 1)' = "decode" =>
                               Has(ring[LastRing], r, Length(r, Returned + 1)')
    BY <2>1, <1>1 DEF RingInv, depth
  <2>2. /\ Returned > 0 =>
             \A r \in InStep(Returned) :
               Kind(r, Returned) # Mid =>
                 Has(ring[LastRing], r, Length(r, Returned) + 1)
        /\ Returned < depth =>
             \A r \in InStep(Returned + 1) :
               Kind(r, Returned + 1) = "decode" =>
                 Has(ring[LastRing], r, Length(r, Returned + 1))
    BY <1>0 DEF ExecutorInv, RingInv, depth
  <2>3. ASSUME NEW k \in 1..depth', NEW r \in InStep(k)'
        PROVE  /\ r \in InStep(k + 1) /\ Kind(r, k)' = Kind(r, k + 1)
               /\ Length(r, k)' = Length(r, k + 1)
    BY <2>3, <1>8
  <2>4. ASSUME Returned' > 0, NEW r \in InStep(Returned)', Kind(r, Returned)' # Mid
        PROVE  Has(ring[LastRing], r, Length(r, Returned)' + 1)
    <3> DEFINE k == Returned'
    <3>1. k \in 1..depth' /\ k + 1 = Returned
      BY <2>4, <1>3, <1>4
    <3>2. /\ r \in InStep(k + 1) /\ Kind(r, Returned)' = Kind(r, k + 1)
          /\ Length(r, Returned)' = Length(r, k + 1)
      BY <3>1, <2>3, <2>4
    <3> QED BY <2>2, <2>4, <3>1, <3>2, <1>3
  <2>5. ASSUME Returned' < depth', NEW r \in InStep(Returned + 1)',
               Kind(r, Returned + 1)' = "decode"
        PROVE  Has(ring[LastRing], r, Length(r, Returned + 1)')
    <3> DEFINE k == Returned' + 1
    <3>1. k \in 1..depth' /\ k + 1 = Returned + 1 /\ Returned < depth
      BY <2>5, <1>3, <1>4
    <3>2. /\ r \in InStep(k + 1) /\ Kind(r, Returned + 1)' = Kind(r, k + 1)
          /\ Length(r, Returned + 1)' = Length(r, k + 1)
      BY <3>1, <2>3, <2>5
    <3> QED BY <2>2, <2>5, <3>1, <3>2
  <2> QED BY <2>4, <2>5
<1> QED BY <1>5, <1>7, <1>9, <1>10, <1>11, <1>12, <1>13, <1>14
       DEF TextInv, EngineInv, ExecutorInv

\* Beside the batch it builds, Preprocess moves the shared requests on to it.
LEMMA PreprocessCache ==
  ASSUME HandlePreprocess
  PROVE  /\ UNCHANGED <<req, eos, planned, executor_pipeline_depth, output,
                        results, device_tokens, ring>>
         /\ DOMAIN req_cache' = Requests
         /\ \A r \in Requests :
              /\ r \notin DOMAIN Head(schedule_output_queue).steps =>
                   req_cache'[r] = req_cache[r]
              /\ r \in DOMAIN Head(schedule_output_queue).steps =>
                   \E x : req_cache'[r] =
                     [Head(schedule_output_queue).steps[r] EXCEPT !.offset = x]
<1> DEFINE o == Head(schedule_output_queue)
<1>1. \E place :
        req_cache' = [r \in Requests |->
          IF r \in DOMAIN o.steps THEN [o.steps[r] EXCEPT !.offset = place[r]]
                                  ELSE req_cache[r]]
  <2>1. PICK order \in Reordered(o.steps) :
          req_cache' = [r \in Requests |->
            IF r \in DOMAIN o.steps
              THEN [o.steps[r] EXCEPT !.offset =
                      LogitsOffsets(order, o.steps)
                        [SelectInSeq(order, LAMBDA x : x = r)]]
              ELSE req_cache[r]]
    BY Zenon DEF HandlePreprocess
  <2> DEFINE place == [r \in Requests |-> LogitsOffsets(order, o.steps)
                                            [SelectInSeq(order, LAMBDA x : x = r)]]
  <2>2. \A r \in Requests : place[r] = LogitsOffsets(order, o.steps)
                                         [SelectInSeq(order, LAMBDA x : x = r)]
    OBVIOUS
  <2> HIDE DEF o, place
  <2> QED BY <2>1, <2>2
<1>2. UNCHANGED <<req, eos, planned, executor_pipeline_depth, output, results,
                  device_tokens, ring>>
  BY DEF HandlePreprocess, engine, execute
<1> HIDE DEF o
<1>3. /\ DOMAIN req_cache' = Requests
      /\ \A r \in Requests :
           /\ r \notin DOMAIN o.steps => req_cache'[r] = req_cache[r]
           /\ r \in DOMAIN o.steps =>
                \E x : req_cache'[r] = [o.steps[r] EXCEPT !.offset = x]
  BY <1>1
<1> QED BY <1>2, <1>3 DEF o

\* Preprocess: where a request is in both batches, the new step decodes, so the
\* older one still looks like a step that samples.
LEMMA PreprocessText ==
  ASSUME PipelineInv, FlightsInv, TextInv, HandlePreprocess
  PROVE  TextInv'
<1> DEFINE o == Head(schedule_output_queue)
           depth == executor_pipeline_depth
<1>0. RequestsInv /\ PlannedAlike /\ ExecutorInv
  BY DEF TextInv, EngineInv
<1>1. /\ UNCHANGED <<req, eos, planned, depth, output, results, device_tokens, ring>>
      /\ DOMAIN req_cache' = Requests
      /\ \A r \in Requests :
           /\ r \notin DOMAIN o.steps => req_cache'[r] = req_cache[r]
           /\ r \in DOMAIN o.steps =>
                \E x : req_cache'[r] = [o.steps[r] EXCEPT !.offset = x]
  BY PreprocessCache
<1>2. PICK m : /\ model_input_queue' = Append(model_input_queue, m)
               /\ BuiltBatch(m) /\ m.slot = 1 - cur_ring_slot
               /\ cur_ring_slot' = 1 - cur_ring_slot
  <2>1. PICK order \in Reordered(o.steps) :
          /\ cur_ring_slot' = 1 - cur_ring_slot
          /\ model_input_queue' = Append(model_input_queue,
               [slot |-> 1 - cur_ring_slot, reqs |-> order, steps |-> o.steps,
                offsets |-> LogitsOffsets(order, o.steps)])
    BY PreprocessStep
  <2> DEFINE new == [slot |-> 1 - cur_ring_slot, reqs |-> order,
                     steps |-> o.steps,
                     offsets |-> LogitsOffsets(order, o.steps)]
  <2>2. BuiltBatch(new) /\ new.slot = 1 - cur_ring_slot
    BY DEF BuiltBatch
  <2>3. model_input_queue' = Append(model_input_queue, new)
    BY <2>1
  <2> HIDE DEF new
  <2> QED BY <2>1, <2>2, <2>3
<1>3. /\ Returned' = Returned /\ Built' = Built + 1
      /\ Built + 1 <= depth
      /\ InStep(Built + 1) = DOMAIN o.steps
      /\ StepsIn(Built + 1) = o.steps
      /\ \A k \in 1..depth : InStep(k)' = InStep(k)
      /\ \A k \in (Returned + 1)..depth : StepsIn(k)' = StepsIn(k)
  BY InStepPreprocess, StepsInPreprocess
<1>4. /\ Returned \in Nat /\ Built \in Nat /\ Returned <= Built
      /\ depth \in 0..2
      /\ Len(model_input_queue) \in Nat
      /\ Built = Sampling + Len(model_input_queue)
      /\ Sampling \in Nat
      /\ DOMAIN model_input_queue = 1..Len(model_input_queue)
      /\ model_input_queue = <<>> <=> Len(model_input_queue) = 0
  BY Lengths, SequenceLen DEF PipelineInv, QueueShape
<1>5. /\ model_input_queue' # <<>>
      /\ Len(model_input_queue') = Len(model_input_queue) + 1
      /\ DOMAIN model_input_queue' = 1..(Len(model_input_queue) + 1)
      /\ \A i \in 1..Len(model_input_queue) :
           model_input_queue'[i] = model_input_queue[i]
      /\ model_input_queue'[Len(model_input_queue) + 1] = m
  BY <1>2, SequenceAppend DEF PipelineInv, QueueShape
<1>6. \A k \in 1..depth : \A r \in InStep(k) :
        Kind(r, k)' = Kind(r, k) /\ Length(r, k)' = Length(r, k)
  BY <1>1, <1>3, FlightFrame
<1>7. cur_ring_slot \in 0..1
  BY DEF PipelineInv, Slots
<1> HIDE DEF depth, o
<1>8. EngineInv'
  BY <1>0, <1>1 DEF EngineInv, RequestsInv, PlannedAlike
<1>9. StepsInv'
  <2> SUFFICES ASSUME NEW k \in (Returned + 1)..depth
               PROVE  /\ DOMAIN StepsIn(k)' = InStep(k)'
                      /\ \A r \in InStep(k)' :
                           StepIs(r, StepsIn(k)'[r], Kind(r, k)', Length(r, k)')
                      /\ \/ \A r \in InStep(k)' : Kind(r, k)' = Mid
                         \/ \A r \in InStep(k)' : Kind(r, k)' # Mid
    BY <1>1, <1>3 DEF StepsInv, Alike, depth
  <2>1. k \in 1..depth
    BY <1>4
  <2> QED BY <2>1, <1>0, <1>3, <1>6 DEF ExecutorInv, StepsInv, Alike, depth
<1>10. DecodesFollow'
  <2>1. depth = 2 => 1 \in 1..depth /\ 2 \in 1..depth
    OBVIOUS
  <2> QED BY <2>1, <1>0, <1>1, <1>3, <1>6 DEF ExecutorInv, DecodesFollow, depth
<1>11. BatchesInv'
  <2>1. \A i \in 1..(Len(model_input_queue) + 1) : BuiltBatch(model_input_queue'[i])
    BY <1>0, <1>2, <1>4, <1>5 DEF ExecutorInv, BatchesInv
  <2>2. output' # NoOutput => BuiltBatch(output')
    BY <1>0, <1>1 DEF ExecutorInv, BatchesInv
  <2>3. \A i \in DOMAIN model_input_queue' : BuiltBatch(model_input_queue'[i])
    BY <2>1, <1>5
  <2> QED BY <2>2, <2>3 DEF BatchesInv, BuiltBatch
<1>12. SlotsAlternate'
  <2>1. CASE model_input_queue = <<>>
    <3>1. model_input_queue'[1] = m /\ Len(model_input_queue') # 2
      BY <2>1, <1>4, <1>5
    <3>2. output # NoOutput => output.slot = cur_ring_slot
      BY <2>1 DEF PipelineInv, Slots
    <3> QED BY <3>1, <3>2, <1>1, <1>2 DEF SlotsAlternate
  <2>2. CASE model_input_queue # <<>>
    <3>1. /\ model_input_queue'[1] = model_input_queue[1]
          /\ Len(model_input_queue') = 2 =>
               Len(model_input_queue) = 1 /\ model_input_queue'[2] = m
      BY <2>2, <1>4, <1>5
    <3>2. model_input_queue[Len(model_input_queue)].slot = cur_ring_slot
      BY <2>2 DEF PipelineInv, Slots
    <3>3. output # NoOutput => model_input_queue[1].slot = 1 - output.slot
      BY <2>2, <1>0 DEF ExecutorInv, SlotsAlternate
    <3> QED BY <3>1, <3>2, <3>3, <1>1, <1>2 DEF SlotsAlternate
  <2> QED BY <2>1, <2>2
<1>13. ExecuteShape' /\ OutputInv'
  BY <1>0, <1>1 DEF ExecutorInv, ExecuteShape, OutputInv
<1>14. CacheInv'
  <2> SUFFICES ASSUME NEW k \in (Returned + 1)..(Built + 1), NEW r \in InStep(k),
                      Kind(r, k) # Mid
               PROVE  req_cache'[r].kind # Mid /\ req_cache'[r].sampling = 1
    <3>1. (Returned + 1)..(Built + 1) \subseteq 1..depth
      BY <1>3, <1>4
    <3> QED BY <3>1, <1>3, <1>6 DEF CacheInv
  <2>1. k \in 1..depth /\ Built + 1 \in (Returned + 1)..depth
    BY <1>3, <1>4
  <2>2. r \in Requests
    BY <2>1, FlightFacts DEF depth
  <2>3. ASSUME r \in DOMAIN o.steps, Kind(r, Built + 1) # Mid
        PROVE  req_cache'[r].kind # Mid /\ req_cache'[r].sampling = 1
    <3>1. StepIs(r, o.steps[r], Kind(r, Built + 1), Length(r, Built + 1))
      BY <2>1, <2>3, <1>0, <1>3 DEF ExecutorInv, StepsInv, depth
    <3>2. /\ DOMAIN o.steps[r] = StepFields
          /\ o.steps[r].kind # Mid /\ o.steps[r].sampling = 1
      BY <2>3, <3>1 DEF StepIs
    <3>3. PICK x : req_cache'[r] = [o.steps[r] EXCEPT !.offset = x]
      BY <2>2, <2>3, <1>1
    <3> QED BY <3>2, <3>3 DEF StepFields
  <2>4. CASE k = Built + 1
    BY <2>3, <2>4, <1>3
  <2>5. CASE k # Built + 1 /\ r \notin DOMAIN o.steps
    <3>1. k \in (Returned + 1)..Built
      BY <2>5, <1>4
    <3> QED BY <2>2, <2>5, <3>1, <1>0, <1>1 DEF ExecutorInv, CacheInv
  <2>6. CASE k # Built + 1 /\ r \in DOMAIN o.steps
    <3>1. k = 1 /\ Built + 1 = 2 /\ depth = 2
      BY <2>1, <2>6, <1>3, <1>4
    <3>2. r \in InStep(1) /\ r \in InStep(2)
      BY <2>6, <3>1, <1>3
    <3>3. Len(req[r].inflight) = 2
      <4>1. 2 \in 1..executor_pipeline_depth
        BY <3>1 DEF depth
      <4>2. (2 = 2) => (Len(req[r].inflight) = 2 <=> r \in InStep(1))
        BY <3>2, <4>1, FlightFacts
      <4> QED BY <3>2, <4>2
    <3>4. Kind(r, 1) = req[r].inflight[1] /\ Kind(r, 2) = req[r].inflight[2]
      BY <3>2 DEF Kind, Flight
    <3>5. req[r].inflight[1] # Mid <=> req[r].inflight[2] = "decode"
      BY <2>2, <3>3, <1>0 DEF RequestsInv, RequestOK, InflightKinds
    <3>6. Kind(r, Built + 1) # Mid
      BY <3>1, <3>4, <3>5 DEF Mid
    <3> QED BY <2>3, <2>6, <3>6
  <2> QED BY <2>4, <2>5, <2>6
<1>15. ResultsInv'
  <2> SUFFICES ASSUME NEW k \in 1..Returned, NEW r \in InStep(k)', Kind(r, k)' # Mid
               PROVE  results[k][r] = <<<<r, Length(r, k)' + 1>>>>
    BY <1>1, <1>3 DEF ResultsInv
  <2>1. k \in 1..depth
    BY <1>3, <1>4
  <2> QED BY <2>1, <1>0, <1>3, <1>6 DEF ExecutorInv, ResultsInv
<1>16. RingInv'
  <2>1. LastRing' = LastRing
    <3>1. CASE model_input_queue = <<>>
      <4>1. LastRing' = 1 - m.slot /\ LastRing = cur_ring_slot
        BY <3>1, <1>4, <1>5 DEF LastRing
      <4> QED BY <4>1, <1>2, <1>7
    <3>2. CASE model_input_queue # <<>>
      <4>1. model_input_queue'[1] = model_input_queue[1]
        BY <3>2, <1>4, <1>5
      <4> QED BY <3>2, <4>1, <1>5 DEF LastRing
    <3> QED BY <3>1, <3>2
  <2>2. Returned > 0 => Returned \in 1..depth
    BY <1>3, <1>4
  <2>3. Returned < depth => Returned + 1 \in 1..depth
    BY <1>4
  <2> QED BY <2>1, <2>2, <2>3, <1>0, <1>1, <1>3, <1>6 DEF ExecutorInv, RingInv, depth
<1> QED BY <1>8, <1>9, <1>10, <1>11, <1>12, <1>13, <1>14, <1>15, <1>16
       DEF TextInv, ExecutorInv

\* A batch that was built: its order, its steps and its input pairs.
LEMMA BatchFacts ==
  ASSUME PipelineInv, FlightsInv, StepsInv, NEW m, BuiltBatch(m),
         NEW k \in (Returned + 1)..executor_pipeline_depth, m.steps = StepsIn(k),
         NEW n, n = Cardinality(InStep(k))
  PROVE  /\ OrderOf(m.reqs, InStep(k), n)
         /\ Sequence(m.reqs) /\ Len(m.reqs) = n /\ ToSet(m.reqs) = InStep(k)
         /\ n <= Cardinality(Requests) /\ Cardinality(Requests) \in Nat
         /\ \A r \in InStep(k) :
              r # 0 /\ StepIs(r, m.steps[r], Kind(r, k), Length(r, k))
         /\ Input(m.reqs, m.steps) =
              [i \in 1..n |-> <<m.reqs[i], m.steps[m.reqs[i]].last>>]
<1>1. /\ DOMAIN m.steps = InStep(k)
      /\ \A r \in InStep(k) : StepIs(r, m.steps[r], Kind(r, k), Length(r, k))
  BY DEF StepsInv
<1>2. k \in 1..executor_pipeline_depth
  BY Lengths
<1>3. InStep(k) \subseteq Requests
  BY <1>2 DEF FlightsInv, StepsInFlight
<1>4. /\ IsFiniteSet(InStep(k)) /\ n <= Cardinality(Requests)
      /\ Cardinality(Requests) \in Nat
  BY <1>3, FS_Subset, FS_CardinalityType, DeviceRingAssumption
<1>5. /\ OrderOf(m.reqs, InStep(k), n)
      /\ Sequence(m.reqs) /\ Len(m.reqs) = n /\ ToSet(m.reqs) = InStep(k)
  BY <1>1, <1>4, OrderFacts DEF BuiltBatch
<1>6. \A r \in InStep(k) : r # 0
  BY <1>3, DeviceRingAssumption
<1>7. \A r \in InStep(k) : m.steps[r].len > m.steps[r].kv
  BY <1>1 DEF StepIs
<1>8. Input(m.reqs, m.steps) =
        [i \in 1..n |-> <<m.reqs[i], m.steps[m.reqs[i]].last>>]
  BY <1>5, <1>7, InputOf
<1> QED BY <1>1, <1>4, <1>5, <1>6, <1>8

\* Forward: the ring of the batch before has what the placeholders stand for,
\* and the model goes on behind it.
LEMMA ForwardText ==
  ASSUME PipelineInv, FlightsInv, TextInv, ExecuteForward
  PROVE  TextInv'
<1> DEFINE m == Head(model_input_queue)
           depth == executor_pipeline_depth
           k == Returned + 1
           n == Cardinality(InStep(k))
           pairs == input_slot[m.slot]
           prev == ring[1 - m.slot]
<1>0. EngineInv /\ ExecutorInv
  BY DEF TextInv
<1>1. /\ UNCHANGED <<req, eos, planned, depth, schedule_output_queue, results,
                     req_cache, cur_ring_slot, device_tokens, ring>>
      /\ model_input_queue # <<>> /\ output = NoOutput
      /\ model_input_queue' = Tail(model_input_queue)
      /\ output'.slot = m.slot /\ output'.reqs = m.reqs /\ output'.steps = m.steps
      /\ output'.offsets = m.offsets
      /\ output'.inputs = Replace(pairs, prev)
      /\ output'.logits = Logits(m, output'.inputs)
  BY DEF ExecuteForward, PrevSlot, engine, preprocess
<1>2. /\ m = model_input_queue[1]
      /\ Len(model_input_queue) > 0
      /\ Len(model_input_queue') = Len(model_input_queue) - 1
      /\ DOMAIN model_input_queue' = 1..(Len(model_input_queue) - 1)
      /\ \A i \in 1..(Len(model_input_queue) - 1) :
           model_input_queue'[i] = model_input_queue[i + 1]
  BY <1>1, SequenceTail DEF PipelineInv, QueueShape
<1>3. /\ Built' = Built /\ Returned' = Returned
      /\ k <= Built
      /\ InStep(k) = ToSet(m.reqs) /\ StepsIn(k) = m.steps
      /\ output' # NoOutput
      /\ \A j \in 1..depth : InStep(j)' = InStep(j)
      /\ \A j \in (Returned + 1)..depth : StepsIn(j)' = StepsIn(j)
  BY <1>2, InStepForward, StepsInForward
<1>4. /\ Returned \in Nat /\ Built \in Nat /\ Built <= depth /\ depth \in 0..2
      /\ Len(model_input_queue) \in Nat
      /\ Built = Sampling + Len(model_input_queue) /\ Sampling \in Nat
      /\ DOMAIN model_input_queue = 1..Len(model_input_queue)
  BY Lengths
<1>5. \A j \in 1..depth : \A r \in InStep(j) :
        Kind(r, j)' = Kind(r, j) /\ Length(r, j)' = Length(r, j)
  BY <1>1, <1>3, FlightFrame
<1>6. k \in (Returned + 1)..depth /\ k \in 1..depth
  BY <1>3, <1>4
<1>7. BuiltBatch(m) /\ m.slot \in 0..1 /\ pairs = Input(m.reqs, m.steps)
  <2>1. 1 \in DOMAIN model_input_queue
    BY <1>2, <1>4
  <2> QED BY <2>1, <1>0, <1>2
         DEF ExecutorInv, BatchesInv, PipelineInv, Slots, SlotsIntact
<1> HIDE DEF m
<1>8. /\ OrderOf(m.reqs, InStep(k), n)
      /\ \A r \in InStep(k) :
           r # 0 /\ StepIs(r, m.steps[r], Kind(r, k), Length(r, k))
      /\ pairs = [i \in 1..n |-> <<m.reqs[i], m.steps[m.reqs[i]].last>>]
  BY <1>0, <1>3, <1>6, <1>7, BatchFacts DEF ExecutorInv
<1>9. DOMAIN m.reqs = 1..n /\ \A i \in 1..n : m.reqs[i] \in InStep(k)
  BY <1>8 DEF OrderOf
<1> HIDE DEF depth, pairs, prev, n
\* A placeholder stands for the token that the batch before sampled.
<1>10. prev = ring[LastRing]
  BY <1>1, <1>2 DEF LastRing, prev
<1>11. ASSUME NEW i \in 1..n
       PROVE  Replace(pairs, prev)[i] =
                <<m.reqs[i], <<m.reqs[i], m.steps[m.reqs[i]].len>>>>
  <2> DEFINE r == m.reqs[i]
             s == m.steps[r]
  <2>1. r \in InStep(k) /\ r # 0 /\ StepIs(r, s, Kind(r, k), Length(r, k))
    BY <1>8, <1>9
  <2>2. i \in DOMAIN pairs /\ pairs[i] = <<r, s.last>>
    BY <1>8
  <2> HIDE DEF r, s, k
  <2>3. pairs[i][1] = r /\ pairs[i][2] = s.last
    BY <2>2
  <2>4. CASE Kind(r, k) = "decode"
    <3>1. s.last = Placeholder /\ s.len = Length(r, k)
      BY <2>1, <2>4 DEF StepIs, Mid
    <3>2. Has(prev, r, s.len)
      <4>1. Returned < executor_pipeline_depth
        BY <1>3, <1>4 DEF depth, k
      <4>2. Has(ring[LastRing], r, Length(r, k))
        BY <2>1, <2>4, <4>1, <1>0, <1>1 DEF ExecutorInv, RingInv, k
      <4> QED BY <3>1, <4>2, <1>10
    <3>3. Replace(pairs, prev)[i] = <<r, <<r, s.len>>>>
      <4>1. Replaceable(pairs[i], prev, r, s.len)
        BY <2>3, <3>1, <3>2 DEF Replaceable
      <4> QED BY <2>1, <2>2, <4>1, ReplaceOf
    <3> QED BY <3>3 DEF r, s
  <2>5. CASE Kind(r, k) # "decode"
    <3>1. s.last = <<r, s.len>>
      BY <2>1, <2>5 DEF StepIs
    <3>2. Replaceable(pairs[i], prev, r, s.len)
      BY <2>2, <3>1 DEF Replaceable
    <3>3. Replace(pairs, prev)[i] = <<r, <<r, s.len>>>>
      BY <2>1, <2>2, <3>2, ReplaceOf
    <3> QED BY <3>3 DEF r, s
  <2> QED BY <2>4, <2>5
<1>12. output'.inputs = [i \in 1..n |->
         <<m.reqs[i], <<m.reqs[i], m.steps[m.reqs[i]].len>>>>]
  <2>1. DOMAIN pairs = 1..n
    BY <1>8
  <2>2. Replace(pairs, prev) = [i \in 1..n |-> Replace(pairs, prev)[i]]
    BY <2>1 DEF Replace
  <2> QED BY <2>2, <1>1, <1>11
<1>13. ASSUME \A r \in InStep(k) : m.steps[r].sampling = 1
       PROVE  output'.logits = [i \in 1..n |->
                <<m.reqs[i], m.steps[m.reqs[i]].len + 1>>]
  <2>1. output'.logits = [i \in 1..n |-> NextToken(m.reqs[i], output'.inputs)]
    <3>1. AllSample(m.steps, InStep(k))
      BY <1>13 DEF AllSample
    <3> HIDE DEF k
    <3>2. OrderOf(m.reqs, InStep(k), n)
      BY <1>8
    <3>3. Logits(m, output'.inputs) = RowsFor(m, n, output'.inputs)
      BY <3>1, <3>2, RowsOf
    <3> QED BY <1>1, <3>3 DEF RowsFor
  <2> DEFINE len == [r \in InStep(k) |-> m.steps[r].len]
             inputs == output'.inputs
  <2>2. inputs = Embedded(m.reqs, n, len)
    BY <1>9, <1>12 DEF Embedded
  <2>3. \A i \in 1..n : len[m.reqs[i]] = m.steps[m.reqs[i]].len
    BY <1>9
  <2> HIDE DEF len, inputs, k
  <2>4. \A i \in 1..n : NextToken(m.reqs[i], inputs) =
                          <<m.reqs[i], len[m.reqs[i]] + 1>>
    BY <1>8, <2>2, NextTokenOf
  <2> QED BY <2>1, <2>3, <2>4 DEF inputs
<1>14. OutputInv'
  <2>1. ToSet(output'.reqs) = InStep(k)
    BY <1>1, <1>3
  <2> QED BY <2>1, <1>1, <1>9, <1>12, <1>13 DEF OutputInv
<1>15. EngineInv'
  BY <1>0, <1>1 DEF EngineInv, RequestsInv, PlannedAlike
<1>16. StepsInv'
  <2> SUFFICES ASSUME NEW j \in (Returned + 1)..depth
               PROVE  /\ DOMAIN StepsIn(j)' = InStep(j)'
                      /\ \A r \in InStep(j)' :
                           StepIs(r, StepsIn(j)'[r], Kind(r, j)', Length(r, j)')
                      /\ \/ \A r \in InStep(j)' : Kind(r, j)' = Mid
                         \/ \A r \in InStep(j)' : Kind(r, j)' # Mid
    BY <1>1, <1>3 DEF StepsInv, Alike, depth
  <2>1. j \in 1..depth
    BY <1>4
  <2> QED BY <2>1, <1>0, <1>3, <1>5 DEF ExecutorInv, StepsInv, Alike, depth
<1>17. DecodesFollow'
  <2>1. depth = 2 => 1 \in 1..depth /\ 2 \in 1..depth
    OBVIOUS
  <2> QED BY <2>1, <1>0, <1>1, <1>3, <1>5 DEF ExecutorInv, DecodesFollow, depth
<1>18. BatchesInv'
  <2>1. \A i \in DOMAIN model_input_queue' : BuiltBatch(model_input_queue'[i])
    <3>1. \A i \in 1..(Len(model_input_queue) - 1) : i + 1 \in 1..Len(model_input_queue)
      BY <1>4
    <3> QED BY <3>1, <1>0, <1>2, <1>4 DEF ExecutorInv, BatchesInv
  <2>2. BuiltBatch(output')
    BY <1>1, <1>7 DEF BuiltBatch
  <2> QED BY <2>1, <2>2 DEF BatchesInv, BuiltBatch
<1>19. SlotsAlternate'
  <2>1. Len(model_input_queue) <= 2
    BY <1>4
  <2>2. model_input_queue' # <<>> => Len(model_input_queue) = 2
    BY <2>1, <1>1, <1>2, <1>4, SequenceTail, SequenceLen DEF PipelineInv, QueueShape
  <2>3. Len(model_input_queue) = 2 => model_input_queue'[1] = model_input_queue[2]
    BY <1>2
  <2>4. Len(model_input_queue') # 2
    BY <2>1, <1>2, <1>4
  <2> QED BY <2>2, <2>3, <2>4, <1>0, <1>1, <1>2 DEF ExecutorInv, SlotsAlternate
<1>20. ExecuteShape' /\ RingInv'
  BY <1>0, <1>1, <1>3 DEF ExecutorInv, ExecuteShape, RingInv
<1>21. CacheInv' /\ ResultsInv'
  <2>1. \A j \in (Returned + 1)..Built : j \in 1..depth
    BY <1>4
  <2>2. \A j \in 1..Returned : j \in 1..depth
    BY <1>3, <1>4
  <2> QED BY <2>1, <2>2, <1>0, <1>1, <1>3, <1>5 DEF ExecutorInv, CacheInv, ResultsInv
<1> QED BY <1>14, <1>15, <1>16, <1>17, <1>18, <1>19, <1>20, <1>21
       DEF TextInv, ExecutorInv

\* A batch of which one request samples: all do, each gets the token of its own
\* row, and the ring pairs each with it.
LEMMA SampledBatch ==
  ASSUME PipelineInv, FlightsInv, ExecutorInv, output # NoOutput,
         NEW k, k = Returned + 1, NEW n, n = Cardinality(InStep(k)),
         NEW x \in InStep(k), Kind(x, k) # Mid
  PROVE  /\ NeedSampling /\ output.inputs # <<>>
         /\ OrderOf(output.reqs, InStep(k), n)
         /\ \A r \in InStep(k) :
              Generated(Sampled)[r] = <<<<r, Length(r, k) + 1>>>>
         /\ RingAfter(Sampled) =
              [i \in 1..n |->
                 <<output.reqs[i],
                   <<output.reqs[i], Length(output.reqs[i], k) + 1>>>>]
<1> DEFINE reqs == output.reqs
           steps == output.steps
<1>1. /\ Sampling = k /\ k \in (Returned + 1)..executor_pipeline_depth
      /\ k \in (Returned + 1)..Built
      /\ ~(k <= Returned) /\ k <= Sampling
      /\ k \in 1..executor_pipeline_depth
  <2>1. Sampling = Returned + 1
    BY DEF Sampling
  <2> QED BY <2>1, Lengths
<1>2. StepsIn(k) = steps /\ InStep(k) = ToSet(reqs)
  BY <1>1 DEF StepsIn, InStep
<1>3. BuiltBatch(output)
  BY DEF ExecutorInv, BatchesInv
<1>4. /\ OrderOf(reqs, InStep(k), n)
      /\ Sequence(reqs) /\ Len(reqs) = n
      /\ n <= Cardinality(Requests) /\ Cardinality(Requests) \in Nat
      /\ \A r \in InStep(k) :
           r # 0 /\ StepIs(r, steps[r], Kind(r, k), Length(r, k))
      /\ Input(reqs, steps) = [i \in 1..n |-> <<reqs[i], steps[reqs[i]].last>>]
  BY <1>1, <1>2, <1>3, BatchFacts DEF ExecutorInv
<1>5. \A r \in InStep(k) : Kind(r, k) # Mid
  BY <1>1 DEF ExecutorInv, StepsInv, Alike
<1>6. \A r \in InStep(k) : steps[r].sampling = 1 /\ steps[r].len = Length(r, k)
                           /\ Length(r, k) \in Nat
  BY <1>4, <1>5 DEF StepIs
<1>7. /\ n \in Nat /\ DOMAIN reqs = 1..n
      /\ \A i \in 1..n : reqs[i] \in InStep(k)
      /\ \A r \in InStep(k) : \E i \in 1..n : reqs[i] = r
  BY <1>4 DEF OrderOf
<1>8. \A r \in InStep(k) : req_cache[r].kind # Mid /\ req_cache[r].sampling = 1
  BY <1>1, <1>5 DEF ExecutorInv, CacheInv
<1>9. /\ output.inputs = [i \in 1..n |-> <<reqs[i], <<reqs[i], steps[reqs[i]].len>>>>]
      /\ output.logits = [i \in 1..n |-> <<reqs[i], steps[reqs[i]].len + 1>>]
  BY <1>2, <1>6, <1>7 DEF ExecutorInv, OutputInv
<1>10. PICK j \in 1..n : reqs[j] = x
  BY <1>7
<1>11. NeedSampling
  BY <1>7, <1>8, <1>10 DEF NeedSampling, LiveMid, Mid
<1>12. output.inputs # <<>>
  <2>1. DOMAIN output.inputs = 1..n
    BY <1>9
  <2> QED BY <2>1, <1>10, SequenceEmpty
<1>13. output.slot \in 0..1
  BY DEF PipelineInv, Slots
\* The rows of the batch are the first n.
<1>14. SumFunctionOnSet([i \in DOMAIN reqs |-> req_cache[reqs[i]].sampling],
                        DOMAIN reqs) = n
  <2> DEFINE w == [i \in DOMAIN reqs |-> req_cache[reqs[i]].sampling]
  <2>1. \A i \in 1..n : w[i] = 1
    BY <1>7, <1>8
  <2> HIDE DEF w
  <2>2. IsFiniteSet(1..n) /\ Cardinality(1..n) = n
    <3>1. 1 \in Int /\ n \in Int
      BY <1>7
    <3>2. IsFiniteSet(1..n) /\ Cardinality(1..n) = IF 1 > n THEN 0 ELSE n - 1 + 1
      BY <3>1, FS_Interval
    <3> QED BY <3>2, <1>7
  <2>3. SumFunctionOnSet(w, 1..n) = n
    <3> DEFINE S == 1..n
    <3>1. IsFiniteSet(S) /\ S \in SUBSET S /\ \A i \in S : w[i] = 1
      BY <2>1, <2>2
    <3> HIDE DEF S
    <3>2. SumFunctionOnSet(w, S) = Cardinality(S)
      BY <3>1, SumOnes
    <3> QED BY <2>2, <3>2 DEF S
  <2> QED BY <2>3, <1>7 DEF w
<1>15. ASSUME NEW i \in 1..n
       PROVE  Sampled[i] = <<reqs[i], Length(reqs[i], k) + 1>>
  <2> DEFINE old == device_tokens[output.slot]
  <2>1. DOMAIN old = 1..Cardinality(Requests)
    BY <1>13 DEF ExecutorInv, ExecuteShape
  <2>2. i \in DOMAIN old /\ ~(i > n)
    BY <2>1, <1>4, <1>7
  <2>3. i \in DOMAIN output.logits
        /\ output.logits[i] = <<reqs[i], Length(reqs[i], k) + 1>>
    <3>1. reqs[i] \in InStep(k)
      BY <1>7
    <3>2. steps[reqs[i]].len = Length(reqs[i], k)
      BY <3>1, <1>6
    <3> QED BY <3>2, <1>9
  <2>4. Sampled[i] = IF i > n THEN old[i]
                     ELSE IF i \in DOMAIN output.logits THEN output.logits[i]
                                                        ELSE Garbage
    BY <2>2, <1>14 DEF Sampled
  <2> QED BY <2>2, <2>3, <2>4
<1>16. Sequence(Sampled) /\ Len(Sampled) = Cardinality(Requests)
  <2>1. DOMAIN Sampled = 1..Cardinality(Requests)
    BY <1>13 DEF ExecutorInv, ExecuteShape, Sampled
  <2>2. Sampled = [i \in 1..Cardinality(Requests) |-> Sampled[i]]
    BY <2>1 DEF Sampled
  <2> HIDE DEF Sampled
  <2> QED BY <2>2, <1>4, SequenceOfFunction
<1>17. ASSUME NEW r \in InStep(k)
       PROVE  Generated(Sampled)[r] = <<<<r, Length(r, k) + 1>>>>
  <2>1. PICK i \in 1..n : reqs[i] = r
    BY <1>7
  <2>2. SelectInSeq(reqs, LAMBDA y : y = r) = i
    <3>1. Place(reqs, reqs[i]) = i
      BY <1>4, PlaceInOrder
    <3>2. SelectInSeq(reqs, LAMBDA y : y = r) = Place(reqs, r)
      BY DEF SelectInSeq, Place
    <3> QED BY <2>1, <3>1, <3>2
  <2>3. FrozenOffset(i) = i - 1
    <3>1. AllSample(steps, InStep(k))
      BY <1>6 DEF AllSample
    <3>2. LogitsOffsets(reqs, steps)[i] = i - 1
      BY <1>4, <3>1, OffsetsOf
    <3> QED BY <3>2, <1>3 DEF FrozenOffset, BuiltBatch
  <2>4. Generated(Sampled)[r] =
          SubSeq(Sampled, FrozenOffset(i) + 1, FrozenOffset(i) + 1)
    BY <2>2, <1>2, <1>8 DEF Generated, LiveMid, Mid
  <2>5. FrozenOffset(i) + 1 = i
    BY <2>3
  <2>6. SubSeq(Sampled, i, i) = <<Sampled[i]>>
    <3>1. i \in 1..Len(Sampled)
      BY <1>4, <1>7, <1>16
    <3> QED BY <3>1, <1>16, SubSeqOne
  <2> QED BY <2>1, <2>4, <2>5, <2>6, <1>15
<1>18. RingAfter(Sampled) =
         [i \in 1..n |-> <<reqs[i], <<reqs[i], Length(reqs[i], k) + 1>>>>]
  <2>1. input_slot[output.slot] = [i \in 1..n |-> <<reqs[i], steps[reqs[i]].last>>]
    BY <1>4 DEF PipelineInv, SlotsIntact
  <2>2. /\ DOMAIN input_slot[output.slot] = 1..n
        /\ \A i \in 1..n : input_slot[output.slot][i][1] = reqs[i]
    BY <2>1
  <2> QED BY <2>2, <1>15 DEF RingAfter
<1> QED BY <1>4, <1>11, <1>12, <1>17, <1>18

\* What sampling leaves: the answers of the batch, and its ring.
LEMMA PostprocessStep ==
  ASSUME PipelineInv, FlightsInv, ExecutorInv, HandlePostprocess,
         NEW k, k = Returned + 1
  PROVE  /\ UNCHANGED <<req, eos, planned, executor_pipeline_depth,
                        schedule_output_queue, model_input_queue, req_cache,
                        cur_ring_slot>>
         /\ output # NoOutput /\ output' = NoOutput
         /\ ExecuteShape'
         /\ \A i \in 1..Returned : results'[i] = results[i]
         /\ \A r \in InStep(k) : Kind(r, k) # Mid =>
              /\ results'[k][r] = <<<<r, Length(r, k) + 1>>>>
              /\ Has(ring'[output.slot], r, Length(r, k) + 1)
<1> DEFINE tokens == IF NeedSampling THEN Sampled ELSE device_tokens[output.slot]
           n == Cardinality(InStep(k))
           slot == output.slot
<1>1. /\ UNCHANGED <<req, eos, planned, executor_pipeline_depth,
                     schedule_output_queue, model_input_queue, req_cache,
                     cur_ring_slot>>
      /\ output # NoOutput /\ output' = NoOutput
      /\ device_tokens' = [device_tokens EXCEPT ![slot] = tokens]
      /\ ring' = IF NeedSampling /\ output.inputs # <<>>
                   THEN [ring EXCEPT ![slot] = RingAfter(tokens)]
                   ELSE ring
      /\ results' = Append(results, Generated(tokens))
  BY DEF HandlePostprocess, engine, preprocess
<1>2. /\ \A i \in 1..Returned : results'[i] = results[i]
      /\ results'[k] = Generated(tokens)
  BY <1>1, SequenceAppend DEF PipelineInv, QueueShape, Returned
<1>3. slot \in 0..1
  BY <1>1 DEF PipelineInv, Slots
<1>4. /\ DOMAIN req_cache = Requests
      /\ DOMAIN ring = 0..1 /\ DOMAIN device_tokens = 0..1
      /\ \A s \in 0..1 : DOMAIN device_tokens[s] = 1..Cardinality(Requests)
  BY DEF ExecutorInv, ExecuteShape
<1>5. DOMAIN tokens = 1..Cardinality(Requests)
  <2>1. DOMAIN Sampled = DOMAIN device_tokens[slot]
    BY DEF Sampled
  <2> QED BY <2>1, <1>3, <1>4
<1>6. ASSUME NEW x \in InStep(k), Kind(x, k) # Mid
      PROVE  /\ results'[k][x] = <<<<x, Length(x, k) + 1>>>>
             /\ Has(ring'[slot], x, Length(x, k) + 1)
  <2>1. /\ NeedSampling /\ output.inputs # <<>>
        /\ OrderOf(output.reqs, InStep(k), n)
        /\ \A r \in InStep(k) :
             Generated(Sampled)[r] = <<<<r, Length(r, k) + 1>>>>
        /\ RingAfter(Sampled) =
             [i \in 1..n |->
                <<output.reqs[i],
                  <<output.reqs[i], Length(output.reqs[i], k) + 1>>>>]
    BY <1>1, <1>6, SampledBatch
  <2>2. ring'[slot] = RingAfter(Sampled) /\ tokens = Sampled
    BY <2>1, <1>1, <1>3, <1>4
  <2>3. Has(RingAfter(Sampled), x, Length(x, k) + 1)
    <3> DEFINE pairs == RingAfter(Sampled)
    <3>1. DOMAIN pairs = 1..n
      BY <2>1
    <3>2. \A i \in 1..n :
            pairs[i] = <<output.reqs[i],
                         <<output.reqs[i], Length(output.reqs[i], k) + 1>>>>
      BY <2>1
    <3>3. n \in Nat /\ \E i \in 1..n : output.reqs[i] = x
      BY <2>1 DEF OrderOf
    <3> HIDE DEF pairs, n
    <3>4. DOMAIN pairs \subseteq Nat
      BY <3>1, <3>3
    <3>5. \E i \in DOMAIN pairs : pairs[i][1] = x
      BY <3>1, <3>2, <3>3
    <3>6. \A i \in DOMAIN pairs : pairs[i][1] = x =>
            pairs[i] = <<x, <<x, Length(x, k) + 1>>>>
      BY <3>1, <3>2
    <3>7. Has(pairs, x, Length(x, k) + 1)
      BY <3>4, <3>5, <3>6 DEF Has
    <3> QED BY <3>7 DEF pairs
  <2> QED BY <2>1, <2>2, <2>3, <1>2
<1>7. ExecuteShape'
  <2>1. DOMAIN ring' = 0..1
    BY <1>1, <1>3, <1>4
  <2> HIDE DEF tokens
  <2>2. DOMAIN device_tokens' = 0..1
    BY <1>1, <1>3, <1>4
  <2>3. ASSUME NEW s \in 0..1
        PROVE  DOMAIN device_tokens'[s] = 1..Cardinality(Requests)
    BY <1>1, <1>3, <1>4, <1>5
  <2> QED BY <2>1, <2>2, <2>3, <1>1, <1>4 DEF ExecuteShape
<1> QED BY <1>1, <1>2, <1>6, <1>7

\* The batch is answered with the next token of each text, and its ring has what
\* the batch behind it will replace.
LEMMA PostprocessText ==
  ASSUME PipelineInv, FlightsInv, TextInv, HandlePostprocess
  PROVE  TextInv'
<1> DEFINE depth == executor_pipeline_depth
<1>0. EngineInv /\ ExecutorInv
  BY DEF TextInv
<1>k. PICK k : k = Returned + 1
  OBVIOUS
<1>1. /\ UNCHANGED <<req, eos, planned, depth, schedule_output_queue,
                     model_input_queue, req_cache, cur_ring_slot>>
      /\ output # NoOutput /\ output' = NoOutput
      /\ ExecuteShape'
      /\ \A i \in 1..Returned : results'[i] = results[i]
      /\ \A r \in InStep(k) : Kind(r, k) # Mid =>
           /\ results'[k][r] = <<<<r, Length(r, k) + 1>>>>
           /\ Has(ring'[output.slot], r, Length(r, k) + 1)
  BY <1>k, <1>0, PostprocessStep
<1>2. /\ Built' = Built /\ Returned' = k
      /\ \A j \in 1..depth : InStep(j)' = InStep(j)
      /\ \A j \in (Returned + 2)..depth : StepsIn(j)' = StepsIn(j)
      /\ Sampling = k
  BY <1>k, InStepPostprocess, StepsInPostprocess
<1>3. /\ Returned \in Nat /\ Built \in Nat /\ Built <= depth /\ depth \in 0..2
      /\ Len(model_input_queue) \in Nat
      /\ Built = Sampling + Len(model_input_queue)
      /\ DOMAIN model_input_queue = 1..Len(model_input_queue)
  BY Lengths
<1>4. \A j \in 1..depth : \A r \in InStep(j) :
        Kind(r, j)' = Kind(r, j) /\ Length(r, j)' = Length(r, j)
  BY <1>1, <1>2, FlightFrame
<1>5. k \in 1..depth /\ k \in (Returned + 1)..depth
  BY <1>k, <1>2, <1>3
<1> HIDE DEF depth
<1>6. EngineInv'
  BY <1>0, <1>1 DEF EngineInv, RequestsInv, PlannedAlike
<1>7. StepsInv'
  <2> SUFFICES ASSUME NEW j \in (Returned + 2)..depth
               PROVE  /\ DOMAIN StepsIn(j)' = InStep(j)'
                      /\ \A r \in InStep(j)' :
                           StepIs(r, StepsIn(j)'[r], Kind(r, j)', Length(r, j)')
                      /\ \/ \A r \in InStep(j)' : Kind(r, j)' = Mid
                         \/ \A r \in InStep(j)' : Kind(r, j)' # Mid
    <3>1. \A j \in (Returned' + 1)..depth : j \in (Returned + 2)..depth
      BY <1>k, <1>2, <1>3
    <3> QED BY <3>1, <1>1 DEF StepsInv, Alike, depth
  <2>1. j \in 1..depth /\ j \in (Returned + 1)..depth
    BY <1>3
  <2> QED BY <2>1, <1>0, <1>2, <1>4 DEF ExecutorInv, StepsInv, Alike, depth
<1>8. DecodesFollow'
  <2>1. depth = 2 => 1 \in 1..depth /\ 2 \in 1..depth
    OBVIOUS
  <2> QED BY <2>1, <1>0, <1>1, <1>2, <1>4 DEF ExecutorInv, DecodesFollow, depth
<1>9. BatchesInv' /\ OutputInv' /\ SlotsAlternate'
  BY <1>0, <1>1 DEF ExecutorInv, BatchesInv, BuiltBatch, OutputInv, SlotsAlternate
<1>10. CacheInv'
  <2>1. \A j \in (Returned' + 1)..Built : j \in 1..depth /\ j \in (Returned + 1)..Built
    BY <1>k, <1>2, <1>3
  <2> QED BY <2>1, <1>0, <1>1, <1>2, <1>4 DEF ExecutorInv, CacheInv
<1>11. ResultsInv'
  <2> SUFFICES ASSUME NEW j \in 1..k, NEW r \in InStep(j)', Kind(r, j)' # Mid
               PROVE  results'[j][r] = <<<<r, Length(r, j)' + 1>>>>
    BY <1>2 DEF ResultsInv
  <2>1. j \in 1..depth
    BY <1>3, <1>5
  <2>2. r \in InStep(j) /\ Kind(r, j) # Mid /\ Length(r, j)' = Length(r, j)
    BY <2>1, <1>2, <1>4
  <2>3. CASE j = k
    BY <2>2, <2>3, <1>1
  <2>4. CASE j # k
    <3>1. j \in 1..Returned
      BY <2>4, <1>k, <1>3
    <3> QED BY <2>2, <3>1, <1>0, <1>1 DEF ExecutorInv, ResultsInv
  <2> QED BY <2>3, <2>4
\* The ring written last is the one the next batch reads.
<1>12. LastRing' = output.slot
  <2>1. CASE model_input_queue = <<>>
    BY <2>1, <1>1 DEF LastRing, PipelineInv, Slots
  <2>2. CASE model_input_queue # <<>>
    <3>1. model_input_queue[1].slot = 1 - output.slot
      BY <2>2, <1>0, <1>1 DEF ExecutorInv, SlotsAlternate
    <3>2. output.slot \in 0..1
      BY <1>1 DEF PipelineInv, Slots
    <3> QED BY <2>2, <3>1, <3>2, <1>1 DEF LastRing
  <2> QED BY <2>1, <2>2
<1>13. ASSUME NEW r \in InStep(k), Kind(r, k)' # Mid
       PROVE  Has(ring'[LastRing'], r, Length(r, k)' + 1)
  BY <1>1, <1>4, <1>5, <1>12, <1>13
<1>14. ASSUME k < depth, NEW r \in InStep(k + 1), Kind(r, k + 1)' = "decode"
       PROVE  Has(ring'[LastRing'], r, Length(r, k + 1)')
  <2>1. k = 1 /\ depth = 2 /\ k + 1 = 2 /\ k + 1 \in 1..depth /\ 1 \in 1..depth
    BY <1>k, <1>3, <1>14
  <2>2. Kind(r, 2) = "decode" /\ Length(r, 2)' = Length(r, 2) /\ r \in InStep(2)
    BY <2>1, <1>4, <1>14
  <2>3. r \in InStep(1)
    BY <2>1, <2>2, <1>0 DEF ExecutorInv, DecodesFollow, depth
  <2>4. /\ r \in Requests /\ Len(req[r].inflight) = 2
        /\ Flight(r, 1) = 1 /\ Flight(r, 2) = 2
    <3>1. /\ r \in Requests /\ Flight(r, 1) = 1
          /\ depth = 2 /\ r \in InStep(2) => Len(req[r].inflight) = 2
      BY <2>1, <2>2, <2>3, FlightFacts DEF depth
    <3> QED BY <3>1, <2>1, <2>2, <2>3 DEF Flight
  <2>5. Kind(r, 1) # Mid
    <3>1. InflightKinds(req[r])
      BY <2>4, <1>0 DEF EngineInv, RequestsInv, RequestOK
    <3>2. req[r].inflight[2] = "decode"
      BY <2>2, <2>4 DEF Kind
    <3> QED BY <3>1, <3>2, <2>4 DEF InflightKinds, Kind
  <2>6. Length(r, 2) = Length(r, 1) + 1
    <3>1. req[r].fwd \in Nat
      BY <2>4, <1>0 DEF EngineInv, RequestsInv, RequestOK, Counters
    <3>2. Length(r, 2) = req[r].fwd /\ Length(r, 1) = req[r].fwd - 1
      BY <2>4 DEF Length, SampledLen
    <3> QED BY <3>1, <3>2
  <2>7. Kind(r, 1)' # Mid /\ Length(r, 1)' = Length(r, 1)
    BY <2>1, <2>3, <2>5, <1>4
  <2>8. Has(ring'[LastRing'], r, Length(r, 1) + 1)
    BY <2>1, <2>3, <2>7, <1>13
  <2> QED BY <2>1, <2>2, <2>6, <2>8
<1>15. RingInv'
  <2>1. ASSUME NEW r \in InStep(Returned)', Kind(r, Returned)' # Mid
        PROVE  Has(ring'[LastRing'], r, Length(r, Returned)' + 1)
    BY <2>1, <1>2, <1>5, <1>13
  <2>2. ASSUME Returned' < depth, NEW r \in InStep(Returned + 1)',
               Kind(r, Returned + 1)' = "decode"
        PROVE  Has(ring'[LastRing'], r, Length(r, Returned + 1)')
    <3>1. k + 1 \in 1..depth
      BY <2>2, <1>k, <1>2, <1>3
    <3> QED BY <2>2, <3>1, <1>2, <1>14
  <2> QED BY <2>1, <2>2, <1>1 DEF RingInv, depth
<1> QED BY <1>1, <1>6, <1>7, <1>8, <1>9, <1>10, <1>11, <1>15
       DEF TextInv, ExecutorInv

\* Every step keeps the texts, if batches are not mixed and no request is
\* recomputed while a planned output holds it.
LEMMA NextText ==
  ASSUME ~MixChunks, ~Replay
  PROVE  PipelineInv /\ FlightsInv /\ TextInv /\ [Next]_vars => TextInv'
<1> SUFFICES ASSUME PipelineInv, FlightsInv, TextInv, [Next]_vars PROVE TextInv'
  OBVIOUS
<1>1. CASE Schedule
  BY <1>1, ScheduleText
<1>2. CASE DropStopped \/ DropStaleOutput
  BY <1>2, DropText
<1>3. CASE TryToLaunchPlannedScheduleOutput
  BY <1>3, LaunchText
<1>4. CASE UpdateWithGenerationResult
  BY <1>4, ReturnText
<1>5. ASSUME NEW r \in Requests, Stop(r) PROVE TextInv'
  BY <1>5, StopText
<1>6. ASSUME NEW r \in Requests, Recompute(r) PROVE TextInv'
  BY <1>6, RecomputeText
<1>7. CASE HandlePreprocess
  BY <1>7, PreprocessText
<1>8. CASE ExecuteForward
  BY <1>8, ForwardText
<1>9. CASE HandlePostprocess
  BY <1>9, PostprocessText
<1>10. CASE Idle \/ UNCHANGED vars
  <2>1. UNCHANGED <<req, eos, planned, executor_pipeline_depth,
                    schedule_output_queue, model_input_queue, output, results,
                    req_cache, cur_ring_slot, device_tokens, ring>>
    BY <1>10 DEF Idle, vars, engine, preprocess, execute
  <2>2. EngineInv'
    BY <2>1 DEF TextInv, EngineInv, RequestsInv, PlannedAlike
  <2>3. ExecutorInv'
    BY <2>1, FrameText DEF TextInv
  <2> QED BY <2>2, <2>3 DEF TextInv
<1> QED BY <1>1, <1>2, <1>3, <1>4, <1>5, <1>6, <1>7, <1>8, <1>9, <1>10 DEF Next

\* A batch that was forwarded has embedded texts.
LEMMA ForwardedText == TextInv => ForwardsText
<1> SUFFICES ASSUME TextInv, NEW i \in DOMAIN output.inputs
             PROVE  output.inputs[i][2] =
                      <<output.inputs[i][1], output.steps[output.inputs[i][1]].len>>
  BY DEF ForwardsText
<1>1. output # NoOutput
  <2>1. DOMAIN NoOutput.inputs = {}
    BY SequenceEmpty DEF NoOutput
  <2> QED BY <2>1
<1>2. output.inputs = [j \in DOMAIN output.reqs |->
         <<output.reqs[j], <<output.reqs[j], output.steps[output.reqs[j]].len>>>>]
  BY <1>1 DEF TextInv, ExecutorInv, OutputInv
<1>3. output.inputs[i] =
        <<output.reqs[i], <<output.reqs[i], output.steps[output.reqs[i]].len>>>>
  BY <1>2
<1> QED BY <1>3

\* What a request holds is its text.
LEMMA HeldText == TextInv => OutputsAreTexts
BY DEF TextInv, EngineInv, RequestsInv, RequestOK, OutIsText, OutputsAreTexts

\* The texts with what they rest on.
LEMMA TextInvariant ==
  ASSUME ~MixChunks, ~Replay
  PROVE  Spec => [](PipelineInv /\ FlightsInv /\ TextInv)
<1>1. Init => PipelineInv /\ FlightsInv /\ TextInv
  BY InitPipeline, InitFlights, InitText
<1>2. PipelineInv /\ FlightsInv /\ TextInv /\ [Next]_vars
        => (PipelineInv /\ FlightsInv /\ TextInv)'
  BY NextPipeline, NextFlights, NextText
<1> QED BY <1>1, <1>2, PTL DEF Spec

\* Forward never embeds a placeholder, an older token or another request's: the
\* ring of the slot before holds each token it needs by then, however launch,
\* Preprocess, Execute and return interleave, and for any number of requests,
\* prompts and recomputations.
THEOREM ForwardsTextCorrect ==
  ASSUME ~MixChunks, ~Replay
  PROVE  Spec => []ForwardsText
<1>1. PipelineInv /\ FlightsInv /\ TextInv => ForwardsText
  BY ForwardedText
<1> QED BY <1>1, TextInvariant, PTL

\* What a request returns is its own text, each token once and in order, and
\* nothing behind its end, although a step was launched behind it.
THEOREM OutputsAreTextsCorrect ==
  ASSUME ~MixChunks, ~Replay
  PROVE  Spec => []OutputsAreTexts
<1>1. PipelineInv /\ FlightsInv /\ TextInv => OutputsAreTexts
  BY HeldText
<1> QED BY <1>1, TextInvariant, PTL
================================================================================

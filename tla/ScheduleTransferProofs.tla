------------------------- MODULE ScheduleTransferProofs -------------------------
(***************************************************************************)
(* The transfer of outputs between nodes, proved for every set of requests, *)
(* prompt lengths, text length and number of recomputations: the pool      *)
(* (PoolBounded), the completeness of what is run (RequestsComplete) and   *)
(* the FIFO of launches that the transfer implements (ChannelSpec).        *)
(*                                                                         *)
(* An output goes from launched over packets and the objects of the pool   *)
(* to batch and results.  Place(k) is the k-th output under way, the       *)
(* oldest first, wherever it is; a step that passes an output on leaves it *)
(* at its place, which reduces the five queues to two places.              *)
(*                                                                         *)
(* IInv has these parts.                                                   *)
(*   PoolInv: executor_pipeline_depth counts the outputs under way, and    *)
(*     each object of the pool is in one place, empty when it is free.     *)
(*   FlowInv: a request has as many steps in flight as places hold it, so  *)
(*     what the next output drops is in no place, and an output drops      *)
(*     nothing that an earlier one holds.                                  *)
(*   HeldInv: transferred, which the transfer mode is decided by and which *)
(*     runs ahead of the Executor, is what the Executor will hold (Held)   *)
(*     when it comes to the output.  A patch is therefore of a request it  *)
(*     has, and what comes whole is in no output before, thus in the       *)
(*     context stage when the packet is written, and without placeholder.  *)
(*   RunInv: what is cached is of the request's present run unless an      *)
(*     output under way, or the next, drops it.                            *)
(***************************************************************************)
EXTENDS ScheduleTransfer, DataFacts, FiniteSetTheorems

-----------------------------------------------------------------------------
(* Types *)

Kinds == {"decode", "prefill", "prefill_chunk_mid"}
Lengths == 0..TextLen

ReqType ==
  [out : Lengths, prefilling : Lengths, left : Lengths, blocks : Lengths,
   task : {NoTask} \cup Lengths, len : Lengths, kv : Lengths,
   last : {"token", "placeholder"}, kind : Kinds,
   infer_stage : {"context", "decode"}, inflight : Seq(Kinds),
   patch_transfer : BOOLEAN, stopped : BOOLEAN, ended : BOOLEAN, run : Nat]

\* A text that has not ended has room for a token, what is planned, left and
\* done of a prompt make up the prompt, and an ended request is stopped.
WithinText(q) ==
  /\ ~q.ended => q.out < TextLen
  /\ q.task = NoTask /\ q.left > 0 => q.len + q.left = q.prefilling
  /\ q.task > 0 => q.len + q.left + q.task = q.prefilling
  /\ q.task = 0 => q.left = 0 /\ q.len < TextLen
  /\ q.ended => q.stopped

\* Functions on some of the requests.
Partial(T) == UNION {[S -> T] : S \in SUBSET Requests}

SnapshotType == [step : StepType, patch_transfer : BOOLEAN, populated : BOOLEAN]
LaunchedType ==
  [running : SUBSET Requests, finish : SUBSET Requests,
   recompute : SUBSET Requests, snapshots : Partial(SnapshotType)]
Entry == [step : StepType, embedding : BOOLEAN, run : Int]
Patch == [step : StepType]
PacketType ==
  [finish : SUBSET Requests, recompute : SUBSET Requests,
   full : Partial(Entry), patches : Partial(Patch)]

EngineType ==
  /\ req \in [Requests -> ReqType]
  /\ \A r \in Requests : WithinText(req[r])
  /\ planned \subseteq Requests
  /\ executor_pipeline_depth \in Nat
  /\ finish_ids \subseteq Requests
  /\ recompute_ids \subseteq Requests

TransferType ==
  /\ launched \in Seq(LaunchedType)
  /\ transferred \subseteq Requests
  /\ packets \in Seq(PacketType)

ExecutorType ==
  /\ objects \in Seq(PacketType)
  /\ free_queue \in Seq(DOMAIN objects)
  /\ pending \in Seq(DOMAIN objects)
  /\ current \in {None} \cup DOMAIN objects
  /\ cached \in Partial(Entry)
  /\ batch \in Partial(Entry)
  /\ results \in Seq(SUBSET Requests)

TypeInv == EngineType /\ TransferType /\ ExecutorType

\* A function on some of the requests, seen from outside and from inside.
LEMMA PartialIntro ==
  ASSUME NEW T, NEW S \in SUBSET Requests, NEW f \in [S -> T]
  PROVE  f \in Partial(T)
BY DEF Partial

\* And back: the domain and the values of one.
LEMMA PartialElim ==
  ASSUME NEW T, NEW f \in Partial(T)
  PROVE  /\ DOMAIN f \subseteq Requests
         /\ f \in [DOMAIN f -> T]
         /\ \A r \in DOMAIN f : f[r] \in T
BY DEF Partial

\* The empty one.
LEMMA EmptyPartial == \A T : <<>> \in Partial(T) /\ DOMAIN <<>> = {}
<1> SUFFICES ASSUME NEW T PROVE <<>> \in Partial(T) /\ DOMAIN <<>> = {}
  OBVIOUS
<1>1. <<>> \in Seq(T) /\ Len(<<>>) = 0
  BY EmptySeq
<1>2. <<>> \in [1..0 -> T] /\ DOMAIN <<>> = 1..0
  BY <1>1, LenProperties
<1>3. 1..0 = {}
  OBVIOUS
<1> QED BY <1>2, <1>3 DEF Partial

\* A request that has just arrived or starts over.
LEMMA NewRequestType ==
  ASSUME NEW n \in Nat, n < TextLen
  PROVE  NewRequest(n) \in ReqType /\ WithinText(NewRequest(n))
<1>1. TextLen \in Nat
  BY ScheduleTransferAssumption
<1>2. <<>> \in Seq(Kinds)
  BY EmptySeq
<1> QED BY <1>1, <1>2
       DEF NewRequest, ReqType, WithinText, NoTask, Lengths, Kinds

\* A planned task stays within what is left of the prompt or of the text.
LEMMA PlannedType ==
  ASSUME NEW q \in ReqType, WithinText(q), NEW task,
         q.task = NoTask,
         task \in (IF q.left > 0 THEN 1..q.left
                   ELSE IF q.len < TextLen THEN {0} ELSE {})
  PROVE  /\ Planned(q, task) \in ReqType
         /\ WithinText(Planned(q, task))
         /\ Planned(q, task).task # NoTask
         /\ \A f \in {"inflight", "infer_stage", "ended", "run"} :
              Planned(q, task)[f] = q[f]
<1>1. TextLen \in Nat
  BY ScheduleTransferAssumption
<1>2. task \in Nat /\ q.left \in Nat /\ q.len \in Nat /\ q.prefilling \in Lengths
      /\ task <= q.left
  BY DEF ReqType, Lengths
<1>3. q.len + (IF task = 0 THEN 1 ELSE task) \in Lengths
  BY <1>1, <1>2 DEF WithinText, Lengths
<1>4. q.left - task \in Lengths /\ task \in {NoTask} \cup Lengths
  BY <1>1, <1>2 DEF ReqType, Lengths
<1>5. Planned(q, task) \in ReqType
  BY <1>3, <1>4 DEF Planned, ReqType
<1>6. /\ Planned(q, task).task = task /\ Planned(q, task).left = q.left - task
      /\ Planned(q, task).len = q.len /\ Planned(q, task).out = q.out
      /\ Planned(q, task).ended = q.ended
      /\ Planned(q, task).stopped = q.stopped
      /\ Planned(q, task).prefilling = q.prefilling
  BY DEF Planned, ReqType
<1>7. WithinText(Planned(q, task))
  BY <1>1, <1>2, <1>6 DEF WithinText, NoTask, Lengths
<1>8. \A f \in {"inflight", "infer_stage", "ended", "run"} :
        Planned(q, task)[f] = q[f]
  BY DEF Planned, ReqType
<1> QED BY <1>2, <1>5, <1>6, <1>7, <1>8 DEF NoTask

\* A launch: the step ends behind the task, and one more step is in flight.
LEMMA LaunchedRequestType ==
  ASSUME NEW q \in ReqType, WithinText(q), q.task # NoTask
  PROVE  LET l == LaunchPlanningTask(q) IN
         /\ l \in ReqType
         /\ WithinText(l)
         /\ \E kind \in Kinds : l.inflight = Append(q.inflight, kind)
         /\ q.inflight = <<>> => l.last = "token"
         /\ \A f \in {"infer_stage", "ended", "run"} : l[f] = q[f]
<1> DEFINE l == LaunchPlanningTask(q)
           len == IF q.task = 0 THEN q.len + 1 ELSE q.len + q.task
           kind == IF q.task = 0 THEN "decode"
                   ELSE IF len < q.prefilling THEN "prefill_chunk_mid"
                                              ELSE "prefill"
           last == IF q.task = 0 /\ q.inflight # <<>> THEN "placeholder"
                                                       ELSE "token"
<1>1. TextLen \in Nat
  BY ScheduleTransferAssumption
<1>2. /\ q.task \in Lengths /\ q.left \in Lengths /\ q.len \in Lengths
      /\ q.prefilling \in Lengths
  BY DEF ReqType
<1>3. len \in Lengths
  BY <1>1, <1>2 DEF WithinText, Lengths
<1>4. kind \in Kinds /\ last \in {"token", "placeholder"}
  BY DEF Kinds
<1>5. l = [q EXCEPT !.task = NoTask, !.len = len, !.kv = q.len, !.kind = kind,
                    !.last = last, !.inflight = Append(@, kind)]
  BY Zenon DEF LaunchPlanningTask
<1>6. len = q.len + (IF q.task = 0 THEN 1 ELSE q.task)
  OBVIOUS
<1>7. q.inflight = <<>> => last = "token"
  OBVIOUS
<1> HIDE DEF l, len, kind, last
<1>8. Append(q.inflight, kind) \in Seq(Kinds)
  BY <1>4, AppendProperties DEF ReqType
<1>9. l \in ReqType
  BY <1>2, <1>3, <1>4, <1>5, <1>8 DEF ReqType
<1>10. /\ l.task = NoTask /\ l.len = len /\ l.left = q.left /\ l.out = q.out
       /\ l.ended = q.ended /\ l.stopped = q.stopped
       /\ l.prefilling = q.prefilling
       /\ l.inflight = Append(q.inflight, kind) /\ l.last = last
       /\ l.infer_stage = q.infer_stage /\ l.run = q.run
  BY <1>5 DEF ReqType
<1>11. WithinText(l)
  BY <1>1, <1>2, <1>3, <1>6, <1>10 DEF WithinText, NoTask, Lengths
<1> QED BY <1>4, <1>7, <1>9, <1>10, <1>11 DEF l

\* A step that came back: at most one token more, and one step less in flight.
LEMMA RetiredType ==
  ASSUME NEW q \in ReqType, WithinText(q), q.inflight # <<>>
  PROVE  /\ Retired(q) \in ReqType
         /\ WithinText(Retired(q))
         /\ Retired(q).inflight = Tail(q.inflight)
         /\ Retired(q).run = q.run
         /\ Retired(q).task = q.task
         /\ q.ended => Retired(q).ended
         /\ Retired(q).infer_stage = q.infer_stage \/ ~q.ended
<1>1. TextLen \in Nat
  BY ScheduleTransferAssumption
<1>2. Tail(q.inflight) \in Seq(Kinds)
  BY HeadTailProperties DEF ReqType
<1>3. CASE q.ended
  <2>1. Retired(q) = [q EXCEPT !.inflight = Tail(@)]
    BY <1>3 DEF Retired
  <2> QED BY <2>1, <1>2, <1>3 DEF ReqType, WithinText
<1>4. CASE ~q.ended
  <2> DEFINE discard == q.ended \/ Head(q.inflight) = "prefill_chunk_mid"
             eos == ~discard /\ q.out + 1 = TextLen
             open == Len(q.inflight) > 1 /\ q.last = "placeholder"
             out == IF discard THEN q.out ELSE q.out + 1
             stage == IF discard THEN q.infer_stage ELSE "decode"
             kv == IF open THEN q.kv ELSE q.len
             stopped == q.stopped \/ eos
  <2>1. Retired(q) = [q EXCEPT !.inflight = Tail(@), !.out = out,
                               !.last = "token", !.kv = kv,
                               !.infer_stage = stage, !.ended = eos,
                               !.stopped = stopped]
    BY <1>4, Zenon DEF Retired
  <2>2. q.out \in Nat /\ q.out < TextLen
    BY <1>4 DEF ReqType, WithinText, Lengths
  <2>3. out \in Lengths /\ (~eos => out < TextLen)
    BY <1>1, <2>2 DEF Lengths
  <2>4. /\ stage \in {"context", "decode"} /\ kv \in Lengths
        /\ eos \in BOOLEAN /\ stopped \in BOOLEAN /\ (eos => stopped)
    BY DEF ReqType
  <2> HIDE DEF discard, eos, open, out, stage, kv, stopped
  <2>5. Retired(q) \in ReqType
    BY <2>1, <2>3, <2>4, <1>2 DEF ReqType
  <2>6. /\ Retired(q).ended = eos /\ Retired(q).stopped = stopped
        /\ Retired(q).out = out
        /\ \A f \in {"task", "left", "len", "prefilling", "run"} :
             Retired(q)[f] = q[f]
        /\ Retired(q).inflight = Tail(q.inflight)
    BY <2>1 DEF ReqType
  <2> QED BY <2>3, <2>4, <2>5, <2>6, <1>4 DEF WithinText
<1> QED BY <1>3, <1>4

\* What is frozen of a request is a step.
LEMMA StepOfType ==
  ASSUME NEW q \in ReqType, NEW offset \in Lengths
  PROVE  StepOf(q, offset) \in StepType /\ StepOf(q, offset).offset = offset
BY DEF StepOf, StepType, ReqType, Lengths, Kinds

\* No placeholder is at offset 0.
LEMMA NoneIsLength == None \in Lengths
BY ScheduleTransferAssumption DEF None, Lengths

\* A snapshot has an offset only of a placeholder.
LEMMA SnapshotIsTyped ==
  ASSUME NEW q \in ReqType
  PROVE  /\ Snapshot(q) \in SnapshotType
         /\ q.last = "token" => Snapshot(q).step.offset = None
<1> DEFINE offset == IF q.last = "placeholder" THEN q.len ELSE None
<1>1. offset \in Lengths
  BY NoneIsLength DEF ReqType
<1>2. StepOf(q, offset) \in StepType /\ StepOf(q, offset).offset = offset
  BY <1>1, StepOfType
<1>3. q.last = "token" => offset = None
  OBVIOUS
<1> HIDE DEF offset
<1>4. Snapshot(q) = [step |-> StepOf(q, offset), patch_transfer |-> FALSE,
                     populated |-> FALSE]
  BY DEF Snapshot, offset
<1> QED BY <1>2, <1>3, <1>4 DEF SnapshotType

\* Init has every type.
LEMMA InitType == Init => TypeInv
<1> SUFFICES ASSUME Init PROVE TypeInv
  OBVIOUS
<1>1. PICK n \in [Requests -> PromptLens] :
        req = [r \in Requests |-> NewRequest(n[r])]
  BY DEF Init
<1>2. \A r \in Requests : n[r] \in Nat /\ n[r] < TextLen
  BY ScheduleTransferAssumption
<1>3. EngineType
  <2>1. \A r \in Requests : req[r] \in ReqType /\ WithinText(req[r])
    BY <1>1, <1>2, NewRequestType
  <2> QED BY <1>1, <2>1 DEF Init, EngineType, NoPlan
<1>4. TransferType
  BY EmptySeq DEF Init, TransferType
<1>5. ExecutorType
  BY EmptySeq, EmptyPartial DEF Init, ExecutorType, NoBatch
<1> QED BY <1>3, <1>4, <1>5 DEF TypeInv

\* The Engine's own steps, by what they make of each request.
LEMMA ScheduleType ==
  ASSUME EngineType, Schedule
  PROVE  /\ EngineType'
         /\ \A r \in planned' : req'[r].task # NoTask
         /\ \A r \in Requests : \A f \in {"inflight", "infer_stage", "ended", "run"} :
              req'[r][f] = req[r][f]
<1>1. PICK S \in (SUBSET {r \in Requests : Plannable(r)}) \ {{}} :
        \E task \in [S -> 0..TextLen] :
          /\ \A r \in S : task[r] \in Tasks(r)
          /\ planned' = S
          /\ req' = [r \in Requests |-> IF r \in S THEN Planned(req[r], task[r])
                                                   ELSE req[r]]
  BY DEF Schedule
<1>2. PICK task \in [S -> 0..TextLen] :
        /\ \A r \in S : task[r] \in Tasks(r)
        /\ planned' = S
        /\ req' = [r \in Requests |-> IF r \in S THEN Planned(req[r], task[r])
                                                 ELSE req[r]]
  BY <1>1
<1>3. ASSUME NEW r \in S
      PROVE  /\ r \in Requests /\ req'[r] = Planned(req[r], task[r])
             /\ req'[r] \in ReqType /\ WithinText(req'[r])
             /\ req'[r].task # NoTask
             /\ \A f \in {"inflight", "infer_stage", "ended", "run"} :
                  req'[r][f] = req[r][f]
  <2>1. r \in Requests /\ Plannable(r) /\ req'[r] = Planned(req[r], task[r])
    BY <1>2
  <2>2. req[r] \in ReqType /\ WithinText(req[r]) /\ req[r].task = NoTask
    BY <2>1 DEF EngineType, Plannable, HasPlanningTask
  <2>3. task[r] \in (IF req[r].left > 0 THEN 1..req[r].left
                     ELSE IF req[r].len < TextLen THEN {0} ELSE {})
    <3>1. task[r] \in Tasks(r)
      BY <1>2
    <3> QED BY <3>1 DEF Tasks
  <2> QED BY <2>1, <2>2, <2>3, PlannedType
<1>4. ASSUME NEW r \in Requests \ S PROVE req'[r] = req[r]
  BY <1>2
<1>5. \A r \in Requests : req'[r] \in ReqType /\ WithinText(req'[r])
  BY <1>3, <1>4 DEF EngineType
<1>6. req' \in [Requests -> ReqType]
  BY <1>2, <1>5
<1> QED BY <1>2, <1>3, <1>4, <1>5, <1>6 DEF EngineType, Schedule

\* A launch adds a step in flight to each of its requests, and nothing to the
\* others; behind no step in flight the last token is known.
LEMMA LaunchType ==
  ASSUME EngineType, TransferType, LaunchScheduleOutput
  PROVE  /\ EngineType' /\ TransferType'
         /\ \A r \in Launching(planned) :
              /\ \E kind \in Kinds :
                   req'[r].inflight = Append(req[r].inflight, kind)
              /\ req[r].inflight = <<>> =>
                   Snapshot(req'[r]).step.offset = None
         /\ \A r \in Requests \ Launching(planned) : req'[r] = req[r]
         /\ \A r \in Requests : \A f \in {"infer_stage", "ended", "run"} :
              req'[r][f] = req[r][f]
         /\ launched' = Append(launched,
              [running |-> planned \ Stopped(planned), finish |-> finish_ids,
               recompute |-> recompute_ids,
               snapshots |-> [r \in Launching(planned) |-> Snapshot(req'[r])]])
<1> DEFINE S == Launching(planned)
           snapshots == [r \in S |-> Snapshot(req'[r])]
           o == [running |-> planned \ Stopped(planned), finish |-> finish_ids,
                 recompute |-> recompute_ids, snapshots |-> snapshots]
<1>1. /\ req' = [r \in Requests |-> IF r \in S THEN LaunchPlanningTask(req[r])
                                               ELSE req[r]]
      /\ launched' = Append(launched, o)
      /\ executor_pipeline_depth' = executor_pipeline_depth + 1
      /\ planned' = {} /\ finish_ids' = {} /\ recompute_ids' = {}
      /\ UNCHANGED <<transferred, packets>>
  BY Zenon DEF LaunchScheduleOutput, NoPlan
<1>2. S \subseteq Requests /\ \A r \in S : req[r].task # NoTask
  BY DEF EngineType, Launching, HasPlanningTask
<1>3. ASSUME NEW r \in S
      PROVE  /\ req'[r] \in ReqType /\ WithinText(req'[r])
             /\ \E kind \in Kinds : req'[r].inflight = Append(req[r].inflight, kind)
             /\ req[r].inflight = <<>> => req'[r].last = "token"
             /\ \A f \in {"infer_stage", "ended", "run"} : req'[r][f] = req[r][f]
  <2>1. req'[r] = LaunchPlanningTask(req[r])
    BY <1>1, <1>2
  <2>2. req[r] \in ReqType /\ WithinText(req[r]) /\ req[r].task # NoTask
    BY <1>2 DEF EngineType
  <2> HIDE DEF S
  <2> QED BY <2>1, <2>2, LaunchedRequestType
<1>4. \A r \in Requests \ S : req'[r] = req[r]
  BY <1>1
<1>5. ASSUME NEW r \in S
      PROVE  /\ Snapshot(req'[r]) \in SnapshotType
             /\ req[r].inflight = <<>> => Snapshot(req'[r]).step.offset = None
  BY <1>3, SnapshotIsTyped
<1> HIDE DEF S
<1>6. o \in LaunchedType
  <2>1. snapshots \in [S -> SnapshotType]
    BY <1>5
  <2>2. snapshots \in Partial(SnapshotType)
    BY <2>1, <1>2, PartialIntro
  <2> HIDE DEF snapshots
  <2> QED BY <2>2 DEF EngineType, LaunchedType
<1>7. launched' \in Seq(LaunchedType)
  <2> HIDE DEF o
  <2> QED BY <1>1, <1>6, AppendProperties DEF TransferType
<1>8. \A r \in Requests : req'[r] \in ReqType /\ WithinText(req'[r])
  BY <1>3, <1>4 DEF EngineType
<1>9. req' \in [Requests -> ReqType]
  BY <1>1, <1>8
<1>10. EngineType'
  BY <1>1, <1>8, <1>9 DEF EngineType
<1>11. TransferType'
  BY <1>1, <1>7 DEF TransferType
<1> QED BY <1>1, <1>3, <1>4, <1>5, <1>10, <1>11 DEF S

\* What comes back takes one step off; an ended request stays as it is.
LEMMA ReturnType ==
  ASSUME EngineType, results \in Seq(SUBSET Requests), UpdateWithGenerationResult
  PROVE  LET back == {r \in Head(results) : req[r].inflight # <<>>} IN
         /\ EngineType'
         /\ results' \in Seq(SUBSET Requests)
         /\ back \subseteq Requests
         /\ \A r \in back :
              /\ req'[r].inflight = Tail(req[r].inflight)
              /\ req[r].ended => req'[r].ended
              /\ req'[r].infer_stage = req[r].infer_stage \/ ~req[r].ended
         /\ \A r \in Requests \ back : req'[r] = req[r]
         /\ \A r \in Requests : req'[r].run = req[r].run
                             /\ req'[r].task = req[r].task
<1> DEFINE back == {r \in Head(results) : req[r].inflight # <<>>}
<1>1. /\ results # <<>>
      /\ req' = [r \in Requests |-> IF r \in back THEN Retired(req[r])
                                                   ELSE req[r]]
      /\ executor_pipeline_depth' =
           IF executor_pipeline_depth > 0 THEN executor_pipeline_depth - 1 ELSE 0
      /\ finish_ids' = finish_ids \cup
           {r \in back : req'[r].ended /\ req'[r].inflight = <<>>}
      /\ results' = Tail(results)
      /\ UNCHANGED <<planned, recompute_ids>>
  BY Zenon DEF UpdateWithGenerationResult
<1>2. /\ Head(results) \in SUBSET Requests
      /\ results' \in Seq(SUBSET Requests)
  BY <1>1, HeadTailProperties
<1>3. back \subseteq Requests /\ \A r \in back : req[r].inflight # <<>>
  BY <1>2
<1> HIDE DEF back
<1>4. ASSUME NEW r \in back
      PROVE  /\ req'[r] \in ReqType /\ WithinText(req'[r])
             /\ req'[r].inflight = Tail(req[r].inflight)
             /\ req'[r].run = req[r].run
             /\ req'[r].task = req[r].task
             /\ req[r].ended => req'[r].ended
             /\ req'[r].infer_stage = req[r].infer_stage \/ ~req[r].ended
  <2>1. req'[r] = Retired(req[r])
    BY <1>1, <1>3
  <2>2. req[r] \in ReqType /\ WithinText(req[r]) /\ req[r].inflight # <<>>
    BY <1>3 DEF EngineType
  <2> QED BY <2>1, <2>2, RetiredType
<1>5. \A r \in Requests \ back : req'[r] = req[r]
  BY <1>1
<1>6. \A r \in Requests : req'[r] \in ReqType /\ WithinText(req'[r])
  BY <1>4, <1>5 DEF EngineType
<1>7. req' \in [Requests -> ReqType]
  BY <1>1, <1>6
<1>8. finish_ids' \subseteq Requests
  BY <1>1, <1>3 DEF EngineType
<1>9. executor_pipeline_depth' \in Nat
  BY <1>1 DEF EngineType
<1>10. EngineType'
  BY <1>1, <1>6, <1>7, <1>8, <1>9 DEF EngineType
<1> QED BY <1>2, <1>3, <1>4, <1>5, <1>10 DEF back

\* To stop a request changes no step of it.
LEMMA StopType ==
  ASSUME EngineType, NEW r \in Requests, Stop(r)
  PROVE  /\ EngineType'
         /\ \A x \in Requests :
              \A f \in {"inflight", "infer_stage", "ended", "run", "task"} :
                req'[x][f] = req[x][f]
<1>1. req' = [req EXCEPT ![r].stopped = TRUE]
  BY DEF Stop
<1>2. ASSUME NEW x \in Requests
      PROVE  /\ req'[x] \in ReqType /\ WithinText(req'[x])
             /\ \A f \in {"inflight", "infer_stage", "ended", "run", "task"} :
                  req'[x][f] = req[x][f]
  <2>1. CASE x = r
    <3>1. req'[x] = [req[x] EXCEPT !.stopped = TRUE]
      BY <1>1, <2>1 DEF EngineType
    <3>2. req[x] \in ReqType /\ WithinText(req[x])
      BY DEF EngineType
    <3> QED BY <3>1, <3>2 DEF ReqType, WithinText
  <2>2. CASE x # r
    BY <1>1, <2>2 DEF EngineType
  <2> QED BY <2>1, <2>2
<1>3. req' \in [Requests -> ReqType]
  BY <1>1, <1>2 DEF EngineType
<1> QED BY <1>2, <1>3 DEF EngineType, Stop

\* A recomputed request is as a new one, of the next run.
LEMMA RecomputeType ==
  ASSUME EngineType, NEW r \in Requests, Recompute(r)
  PROVE  /\ EngineType'
         /\ req'[r].inflight = <<>> /\ req'[r].infer_stage = "context"
         /\ \A x \in Requests \ {r} : req'[x] = req[x]
<1>1. /\ req' = [req EXCEPT ![r] = ResetPrefillingTokens(@)]
      /\ ~req[r].ended
      /\ recompute_ids' = recompute_ids \cup {r}
  BY DEF Recompute
<1>2. req[r] \in ReqType /\ req[r].out \in Nat /\ req[r].out < TextLen
  BY <1>1 DEF EngineType, ReqType, WithinText, Lengths
<1>3. NewRequest(req[r].out) \in ReqType /\ WithinText(NewRequest(req[r].out))
  BY <1>2, NewRequestType
<1>4. /\ ResetPrefillingTokens(req[r]) \in ReqType
      /\ WithinText(ResetPrefillingTokens(req[r]))
      /\ ResetPrefillingTokens(req[r]).inflight = NewRequest(req[r].out).inflight
      /\ ResetPrefillingTokens(req[r]).infer_stage =
           NewRequest(req[r].out).infer_stage
  <2> DEFINE n == NewRequest(req[r].out)
             patch == req[r].patch_transfer
             run == req[r].run + 1
  <2>1. patch \in BOOLEAN /\ run \in Nat
    BY <1>2 DEF ReqType
  <2>2. ResetPrefillingTokens(req[r]) =
          [n EXCEPT !.patch_transfer = patch, !.run = run]
    BY DEF ResetPrefillingTokens
  <2>3. n \in ReqType /\ WithinText(n)
    BY <1>3
  <2> HIDE DEF n, patch, run
  <2>4. [n EXCEPT !.patch_transfer = patch, !.run = run] \in ReqType
    BY <2>1, <2>3 DEF ReqType
  <2>5. \A f \in {"out", "ended", "stopped", "task", "left", "len",
                  "prefilling", "inflight", "infer_stage"} :
          [n EXCEPT !.patch_transfer = patch, !.run = run][f] = n[f]
    BY <2>3 DEF ReqType
  <2>6. WithinText([n EXCEPT !.patch_transfer = patch, !.run = run])
    BY <2>3, <2>5 DEF WithinText
  <2> QED BY <2>2, <2>4, <2>5, <2>6 DEF n
<1>5. req'[r] = ResetPrefillingTokens(req[r])
  BY <1>1 DEF EngineType
<1>6. \A x \in Requests \ {r} : req'[x] = req[x]
  BY <1>1 DEF EngineType
<1>7. \A x \in Requests : req'[x] \in ReqType /\ WithinText(req'[x])
  BY <1>4, <1>5, <1>6 DEF EngineType
<1>8. req' \in [Requests -> ReqType]
  BY <1>1, <1>7 DEF EngineType
<1>9. EngineType'
  BY <1>1, <1>7, <1>8 DEF EngineType, Recompute
<1> QED BY <1>4, <1>5, <1>6, <1>9 DEF NewRequest

-----------------------------------------------------------------------------
(* Types: transfer and Executor *)

\* An output in the queue, and its snapshots.
LEMMA LaunchedIsTyped ==
  ASSUME TransferType, NEW i \in DOMAIN launched
  PROVE  /\ launched[i] \in LaunchedType
         /\ DOMAIN launched[i].snapshots \subseteq Requests
         /\ \A r \in DOMAIN launched[i].snapshots :
              launched[i].snapshots[r] \in SnapshotType
<1>1. launched[i] \in LaunchedType
  BY LenProperties DEF TransferType
<1>2. launched[i].snapshots \in Partial(SnapshotType)
  BY <1>1 DEF LaunchedType
<1> QED BY <1>1, <1>2, PartialElim

\* Setting the mode changes patch_transfer and populated of one output, and
\* patch_transfer of its requests.
LEMMA ModeType ==
  ASSUME EngineType, TransferType, SetInferRequestTransferMode
  PROVE  /\ EngineType' /\ TransferType'
         /\ \A r \in Requests :
              \A f \in {"inflight", "infer_stage", "ended", "run", "task"} :
                req'[r][f] = req[r][f]
         /\ Len(launched') = Len(launched)
         /\ DOMAIN launched' = DOMAIN launched
         /\ \E i \in DOMAIN launched :
              LET o == launched[i]
                  held == transferred \ (o.finish \cup o.recompute)
              IN  /\ \A r \in DOMAIN o.snapshots : ~o.snapshots[r].populated
                  /\ \A j \in 1..i - 1 : \A r \in DOMAIN launched[j].snapshots :
                       launched[j].snapshots[r].populated
                  /\ transferred' = held \cup o.running
                  /\ \A j \in DOMAIN launched \ {i} : launched'[j] = launched[j]
                  /\ launched'[i].running = o.running
                  /\ launched'[i].finish = o.finish
                  /\ launched'[i].recompute = o.recompute
                  /\ DOMAIN launched'[i].snapshots = DOMAIN o.snapshots
                  /\ \A r \in DOMAIN o.snapshots :
                       /\ launched'[i].snapshots[r].step = o.snapshots[r].step
                       /\ launched'[i].snapshots[r].populated
                       /\ launched'[i].snapshots[r].patch_transfer <=> r \in held
<1>1. PICK i \in DOMAIN launched :
        LET o == launched[i]
            held == transferred \ (o.finish \cup o.recompute)
        IN  /\ \A r \in DOMAIN o.snapshots : ~o.snapshots[r].populated
            /\ \A j \in 1..i - 1 : \A r \in DOMAIN launched[j].snapshots :
                 launched[j].snapshots[r].populated
            /\ transferred' = held \cup o.running
            /\ req' = [r \in Requests |-> IF r \in o.running
                 THEN [req[r] EXCEPT !.patch_transfer = r \in held] ELSE req[r]]
            /\ launched' = [launched EXCEPT ![i].snapshots =
                 [r \in DOMAIN @ |-> [@[r] EXCEPT !.patch_transfer = r \in held,
                                                  !.populated = TRUE]]]
  BY DEF SetInferRequestTransferMode
<1> DEFINE o == launched[i]
           held == transferred \ (o.finish \cup o.recompute)
           snapshots == [r \in DOMAIN o.snapshots |->
                           [o.snapshots[r] EXCEPT !.patch_transfer = r \in held,
                                                  !.populated = TRUE]]
           new == [o EXCEPT !.snapshots = snapshots]
<1>2. /\ o \in LaunchedType
      /\ DOMAIN o.snapshots \subseteq Requests
      /\ \A r \in DOMAIN o.snapshots : o.snapshots[r] \in SnapshotType
  BY LaunchedIsTyped
<1>3. /\ DOMAIN snapshots = DOMAIN o.snapshots
      /\ \A r \in DOMAIN o.snapshots :
           /\ snapshots[r] \in SnapshotType
           /\ snapshots[r].step = o.snapshots[r].step
           /\ snapshots[r].populated
           /\ snapshots[r].patch_transfer <=> r \in held
  <2> SUFFICES ASSUME NEW r \in DOMAIN o.snapshots
               PROVE  /\ snapshots[r] \in SnapshotType
                      /\ snapshots[r].step = o.snapshots[r].step
                      /\ snapshots[r].populated
                      /\ snapshots[r].patch_transfer <=> r \in held
    OBVIOUS
  <2> DEFINE b == r \in held
  <2>0. b \in BOOLEAN
    OBVIOUS
  <2>1. snapshots[r] = [o.snapshots[r] EXCEPT !.patch_transfer = b,
                                              !.populated = TRUE]
    BY Zenon
  <2>2. o.snapshots[r] \in SnapshotType
    BY <1>2
  <2>3. b <=> r \in held
    OBVIOUS
  <2> HIDE DEF b, snapshots
  <2>4. /\ snapshots[r] \in SnapshotType
        /\ snapshots[r].step = o.snapshots[r].step
        /\ snapshots[r].populated = TRUE
        /\ snapshots[r].patch_transfer = b
    BY <2>0, <2>1, <2>2 DEF SnapshotType
  <2> QED BY <2>3, <2>4
<1>4. launched' = [launched EXCEPT ![i] = new]
  BY <1>1, Zenon
<1>5. snapshots \in Partial(SnapshotType)
  <2>1. snapshots \in [DOMAIN o.snapshots -> SnapshotType]
    BY <1>3
  <2> HIDE DEF snapshots
  <2> QED BY <2>1, <1>2, PartialIntro
<1>6. /\ \A r \in DOMAIN o.snapshots : ~o.snapshots[r].populated
      /\ \A j \in 1..i - 1 : \A r \in DOMAIN launched[j].snapshots :
           launched[j].snapshots[r].populated
      /\ transferred' = held \cup o.running
  BY <1>1
<1>7. /\ new \in LaunchedType
      /\ new.running = o.running /\ new.finish = o.finish
      /\ new.recompute = o.recompute /\ new.snapshots = snapshots
  <2> HIDE DEF snapshots, o
  <2> QED BY <1>2, <1>5 DEF LaunchedType
<1>8. /\ launched' \in Seq(LaunchedType)
      /\ Len(launched') = Len(launched)
      /\ DOMAIN launched' = DOMAIN launched
      /\ launched'[i] = new
      /\ \A j \in DOMAIN launched \ {i} : launched'[j] = launched[j]
  <2>1. i \in 1..Len(launched) /\ DOMAIN launched = 1..Len(launched)
    BY LenProperties DEF TransferType
  <2> HIDE DEF new
  <2> QED BY <2>1, <1>4, <1>7, ExceptSeq, LenProperties DEF TransferType
<1>9. ASSUME NEW r \in Requests
      PROVE  /\ req'[r] \in ReqType /\ WithinText(req'[r])
             /\ \A f \in {"inflight", "infer_stage", "ended", "run", "task"} :
                  req'[r][f] = req[r][f]
  <2>1. req'[r] = req[r] \/ \E b \in BOOLEAN :
                              req'[r] = [req[r] EXCEPT !.patch_transfer = b]
    <3>1. req'[r] = IF r \in o.running
                      THEN [req[r] EXCEPT !.patch_transfer = r \in held] ELSE req[r]
      BY <1>1
    <3> DEFINE b == r \in held
    <3>2. b \in BOOLEAN
      OBVIOUS
    <3>3. req'[r] = IF r \in o.running
                      THEN [req[r] EXCEPT !.patch_transfer = b] ELSE req[r]
      BY <3>1
    <3> HIDE DEF b
    <3> QED BY <3>2, <3>3
  <2>2. req[r] \in ReqType /\ WithinText(req[r])
    BY DEF EngineType
  <2> QED BY <2>1, <2>2 DEF ReqType, WithinText
<1>10. req' \in [Requests -> ReqType]
  BY <1>1, <1>9
<1>11. EngineType'
  BY <1>9, <1>10 DEF EngineType, SetInferRequestTransferMode
<1>12. TransferType'
  <2>1. transferred' \subseteq Requests
    BY <1>2, <1>6 DEF TransferType, LaunchedType
  <2>2. packets' = packets
    BY DEF SetInferRequestTransferMode
  <2> QED BY <2>1, <2>2, <1>8 DEF TransferType
<1> HIDE DEF new, snapshots
<1> QED BY <1>3, <1>6, <1>7, <1>8, <1>9, <1>11, <1>12

\* A serialized output has the type of a packet, and each request in it is
\* either whole or patched.
LEMMA SerializedType ==
  ASSUME EngineType, NEW o \in LaunchedType
  PROVE  LET p == SerializeScheduleOutput(o)
             patched == {r \in o.running : PatchTransfer(o, r)}
         IN  /\ p \in PacketType
             /\ p.finish = o.finish /\ p.recompute = o.recompute
             /\ DOMAIN p.patches = patched
             /\ DOMAIN p.full = o.running \ patched
             /\ \A r \in DOMAIN p.patches : p.patches[r] = PatchEntry(o, r)
             /\ \A r \in DOMAIN p.full : p.full[r] = FullEntry(o, r)
<1> DEFINE patched == {r \in o.running : PatchTransfer(o, r)}
           full == [r \in o.running \ patched |-> FullEntry(o, r)]
           patches == [r \in patched |-> PatchEntry(o, r)]
<1>1. o.running \subseteq Requests /\ o.snapshots \in Partial(SnapshotType)
      /\ o.finish \subseteq Requests /\ o.recompute \subseteq Requests
  BY DEF LaunchedType
<1>2. ASSUME NEW r \in o.running PROVE StepFor(o, r) \in StepType
  <2>1. CASE r \in DOMAIN o.snapshots
    <3>1. o.snapshots[r] \in SnapshotType
      BY <1>1, <2>1, PartialElim
    <3> QED BY <3>1, <2>1 DEF StepFor, SnapshotType
  <2>2. CASE r \notin DOMAIN o.snapshots
    <3>1. req[r] \in ReqType
      BY <1>1 DEF EngineType
    <3> QED BY <3>1, <2>2, StepOfType, NoneIsLength DEF StepFor
  <2> QED BY <2>1, <2>2
<1>3. full \in [o.running \ patched -> Entry]
  <2>1. ASSUME NEW r \in o.running PROVE FullEntry(o, r) \in Entry
    <3>1. [StepFor(o, r) EXCEPT !.offset = None] \in StepType
      BY <1>2, NoneIsLength DEF StepType, Lengths
    <3>2. req[r] \in ReqType
      BY <1>1 DEF EngineType
    <3>3. (req[r].infer_stage = "context") \in BOOLEAN /\ req[r].run \in Int
      BY <3>2 DEF ReqType
    <3> QED BY <3>1, <3>3 DEF FullEntry, Entry
  <2> QED BY <2>1
<1>4. patches \in [patched -> Patch]
  BY <1>2 DEF PatchEntry, Patch
<1>5. full \in Partial(Entry) /\ patches \in Partial(Patch)
  <2>1. (o.running \ patched) \subseteq Requests /\ patched \subseteq Requests
    BY <1>1
  <2> HIDE DEF full, patches, patched
  <2> QED BY <2>1, <1>3, <1>4, PartialIntro
<1>6. SerializeScheduleOutput(o) =
        [finish |-> o.finish, recompute |-> o.recompute,
         full |-> full, patches |-> patches]
  BY DEF SerializeScheduleOutput
<1>7. /\ DOMAIN full = o.running \ patched /\ DOMAIN patches = patched
      /\ \A r \in DOMAIN full : full[r] = FullEntry(o, r)
      /\ \A r \in DOMAIN patches : patches[r] = PatchEntry(o, r)
  OBVIOUS
<1> HIDE DEF full, patches
<1> QED BY <1>1, <1>5, <1>6, <1>7 DEF PacketType

\* A packet is written of an output of the queue.
LEMMA SendType ==
  ASSUME EngineType, TransferType, PutSendScheduleOutput
  PROVE  /\ TransferType'
         /\ Head(launched) \in LaunchedType
         /\ SerializeScheduleOutput(Head(launched)) \in PacketType
<1>1. /\ launched # <<>> /\ launched' = Tail(launched)
      /\ packets' = Append(packets, SerializeScheduleOutput(Head(launched)))
      /\ transferred' = transferred
  BY DEF PutSendScheduleOutput
<1>2. Head(launched) \in LaunchedType /\ launched' \in Seq(LaunchedType)
  BY <1>1, HeadTailProperties DEF TransferType
<1>3. SerializeScheduleOutput(Head(launched)) \in PacketType
  BY <1>2, SerializedType
<1>4. packets' \in Seq(PacketType)
  BY <1>1, <1>3, AppendProperties DEF TransferType
<1> QED BY <1>1, <1>2, <1>3, <1>4 DEF TransferType

\* One partial function over another.
LEMMA OverType ==
  ASSUME NEW T, NEW f \in Partial(T), NEW g \in Partial(T)
  PROVE  Over(f, g) \in Partial(T)
<1>1. /\ DOMAIN f \subseteq Requests /\ \A r \in DOMAIN f : f[r] \in T
      /\ DOMAIN g \subseteq Requests /\ \A r \in DOMAIN g : g[r] \in T
  BY PartialElim
<1>2. Over(f, g) \in [DOMAIN f \cup DOMAIN g -> T]
  BY <1>1 DEF Over
<1> QED BY <1>1, <1>2, PartialIntro

\* The empty object is a packet.
LEMMA EmptyOutputType == EmptyOutput \in PacketType
BY EmptyPartial DEF EmptyOutput, PacketType

\* The objects after a packet was rebuilt in the i-th.
LEMMA ReceiveType ==
  ASSUME TransferType, ExecutorType, Receive
  PROVE  LET i == FreeScheduleOutputIndex
             object == IF i \in DOMAIN objects THEN objects[i] ELSE EmptyOutput
             rebuilt == DeserializeScheduleOutput(object, Head(packets))
         IN  /\ TransferType' /\ ExecutorType'
             /\ rebuilt \in PacketType
             /\ Len(objects') = IF i \in DOMAIN objects THEN Len(objects)
                                                        ELSE Len(objects) + 1
             /\ i \in DOMAIN objects'
             /\ DOMAIN objects \subseteq DOMAIN objects'
             /\ objects'[i] = rebuilt
             /\ \A j \in DOMAIN objects \ {i} : objects'[j] = objects[j]
             /\ free_queue = <<>> => i = Len(objects) + 1
             /\ free_queue # <<>> => i = Head(free_queue) /\ i \in DOMAIN objects
<1> DEFINE i == FreeScheduleOutputIndex
           object == IF i \in DOMAIN objects THEN objects[i] ELSE EmptyOutput
           rebuilt == DeserializeScheduleOutput(object, Head(packets))
<1>1. /\ packets # <<>> /\ packets' = Tail(packets)
      /\ objects' = IF i \in DOMAIN objects THEN [objects EXCEPT ![i] = rebuilt]
                                            ELSE Append(objects, rebuilt)
      /\ free_queue' = IF i \in DOMAIN objects THEN Tail(free_queue)
                                               ELSE free_queue
      /\ pending' = Append(pending, i)
      /\ UNCHANGED <<launched, transferred, current, cached, batch, results>>
  BY Zenon DEF Receive
<1>2. Head(packets) \in PacketType /\ packets' \in Seq(PacketType)
  BY <1>1, HeadTailProperties DEF TransferType
<1>3. DOMAIN objects = 1..Len(objects) /\ Len(objects) \in Nat
  BY LenProperties DEF ExecutorType
<1>4. object \in PacketType
  <2>1. \A j \in DOMAIN objects : objects[j] \in PacketType
    BY LenProperties DEF ExecutorType
  <2> QED BY <2>1, EmptyOutputType
<1> HIDE DEF object
<1>5. rebuilt \in PacketType
  <2> DEFINE p == Head(packets)
             full == DeserializeInferRequests(object.full, p)
             patches == DeserializeInferRequestPatches(object.patches, p)
  <2>1. full \in Partial(Entry) /\ patches \in Partial(Patch)
    BY <1>2, <1>4, OverType
       DEF PacketType, DeserializeInferRequests, DeserializeInferRequestPatches
  <2>2. rebuilt = [p EXCEPT !.full = full, !.patches = patches]
    BY DEF DeserializeScheduleOutput
  <2> HIDE DEF full, patches, p, rebuilt
  <2>3. p \in PacketType
    BY <1>2 DEF p
  <2> QED BY <2>1, <2>2, <2>3 DEF PacketType
<1>6. /\ free_queue = <<>> => i = Len(objects) + 1
      /\ free_queue # <<>> => i = Head(free_queue) /\ i \in DOMAIN objects
  BY HeadTailProperties DEF FreeScheduleOutputIndex, ExecutorType
<1> HIDE DEF i, rebuilt
<1>7. /\ objects' \in Seq(PacketType)
      /\ Len(objects') = IF i \in DOMAIN objects THEN Len(objects)
                                                 ELSE Len(objects) + 1
      /\ i \in DOMAIN objects'
      /\ DOMAIN objects \subseteq DOMAIN objects'
      /\ objects'[i] = rebuilt
      /\ \A j \in DOMAIN objects \ {i} : objects'[j] = objects[j]
  <2>1. CASE i \in DOMAIN objects
    <3>1. objects' = [objects EXCEPT ![i] = rebuilt]
      BY <1>1, <2>1
    <3>2. /\ objects' \in Seq(PacketType) /\ Len(objects') = Len(objects)
          /\ \A j \in 1..Len(objects) :
               objects'[j] = IF j = i THEN rebuilt ELSE objects[j]
      BY <3>1, <2>1, <1>3, <1>5, ExceptSeq DEF ExecutorType
    <3>3. DOMAIN objects' = 1..Len(objects)
      BY <3>2, LenProperties
    <3> QED BY <3>2, <3>3, <2>1, <1>3
  <2>2. CASE i \notin DOMAIN objects
    <3>1. objects' = Append(objects, rebuilt) /\ i = Len(objects) + 1
      BY <1>1, <1>6, <2>2
    <3>2. /\ objects' \in Seq(PacketType) /\ Len(objects') = Len(objects) + 1
          /\ \A j \in 1..Len(objects) : objects'[j] = objects[j]
          /\ objects'[Len(objects) + 1] = rebuilt
      BY <3>1, <1>5, AppendProperties DEF ExecutorType
    <3>3. DOMAIN objects' = 1..(Len(objects) + 1)
      BY <3>2, LenProperties
    <3> QED BY <3>1, <3>2, <3>3, <2>2, <1>3
  <2> QED BY <2>1, <2>2
<1>8. TransferType'
  BY <1>1, <1>2 DEF TransferType
<1>9. free_queue' \in Seq(DOMAIN objects')
  <2>1. free_queue' \in Seq(DOMAIN objects)
    <3>1. CASE free_queue = <<>>
      <4>1. i \notin DOMAIN objects
        BY <3>1, <1>3, <1>6
      <4> QED BY <4>1, <1>1 DEF ExecutorType
    <3>2. CASE free_queue # <<>>
      <4>1. Tail(free_queue) \in Seq(DOMAIN objects)
        BY <3>2, HeadTailProperties DEF ExecutorType
      <4> QED BY <3>2, <4>1, <1>1, <1>6
    <3> QED BY <3>1, <3>2
  <2> QED BY <2>1, <1>7, SeqMonotonic
<1>10. pending' \in Seq(DOMAIN objects')
  <2>1. pending \in Seq(DOMAIN objects')
    BY <1>7, SeqMonotonic DEF ExecutorType
  <2> QED BY <2>1, <1>1, <1>7, AppendProperties
<1>11. ExecutorType'
  BY <1>1, <1>7, <1>9, <1>10 DEF ExecutorType
<1> QED BY <1>5, <1>6, <1>7, <1>8, <1>11 DEF i, rebuilt, object

\* The entry of a request after an object was taken up: what the object holds
\* whole, or what was cached and is not dropped, with the step of its patch.
LEMMA AfterUpdateIs ==
  ASSUME NEW o \in PacketType, cached \in Partial(Entry)
  PROVE  LET kept == DOMAIN cached \ (o.finish \cup o.recompute)
             a == AfterUpdate(o)
         IN  /\ a \in Partial(Entry)
             /\ DOMAIN a = kept \cup Received(o)
             /\ \A r \in DOMAIN a \ DOMAIN o.patches :
                  a[r] = IF r \in DOMAIN o.full THEN o.full[r] ELSE cached[r]
             /\ \A r \in DOMAIN o.patches : a[r].step = o.patches[r].step
             /\ \A r \in DOMAIN o.patches \cap DOMAIN o.full :
                  /\ a[r].run = o.full[r].run
                  /\ a[r].embedding = o.full[r].embedding
             /\ \A r \in (DOMAIN o.patches \cap kept) \ DOMAIN o.full :
                  /\ a[r].run = cached[r].run
                  /\ a[r].embedding = cached[r].embedding
<1> DEFINE kept == DOMAIN cached \ (o.finish \cup o.recompute)
           base == Over(o.full, Restrict(cached, kept))
           old(r) == IF r \in DOMAIN base THEN base[r] ELSE Unknown
           a == AfterUpdate(o)
<1>1. /\ DOMAIN o.full \subseteq Requests
      /\ \A r \in DOMAIN o.full : o.full[r] \in Entry
      /\ DOMAIN o.patches \subseteq Requests
      /\ \A r \in DOMAIN o.patches : o.patches[r] \in Patch
      /\ DOMAIN cached \subseteq Requests
      /\ \A r \in DOMAIN cached : cached[r] \in Entry
  <2>1. o.full \in Partial(Entry) /\ o.patches \in Partial(Patch)
    BY DEF PacketType
  <2> QED BY <2>1, PartialElim
<1>2. /\ DOMAIN base = DOMAIN o.full \cup kept
      /\ \A r \in DOMAIN o.full : base[r] = o.full[r]
      /\ \A r \in kept \ DOMAIN o.full : base[r] = cached[r]
  BY DEF Over, Restrict
<1>3. \A r \in DOMAIN base : base[r] \in Entry
  BY <1>1, <1>2
<1>4. Unknown \in Entry
  <2>1. StepOf(NewRequest(0), None) \in StepType
    <3>1. 0 \in Nat /\ 0 \in Lengths /\ None \in Lengths
      BY NoneIsLength, ScheduleTransferAssumption DEF Lengths
    <3> QED BY <3>1 DEF StepOf, NewRequest, StepType, Lengths
  <2> QED BY <2>1 DEF Unknown, Entry
<1>5. a = [r \in DOMAIN base \cup DOMAIN o.patches |->
             IF r \in DOMAIN o.patches
               THEN [old(r) EXCEPT !.step = o.patches[r].step] ELSE base[r]]
  BY Zenon DEF AfterUpdate
<1> HIDE DEF base, kept, a
<1>6. DOMAIN a = DOMAIN base \cup DOMAIN o.patches
  BY <1>5
<1>7. \A r \in DOMAIN a \ DOMAIN o.patches : a[r] = base[r]
  BY <1>5
<1>8. ASSUME NEW r \in DOMAIN o.patches
      PROVE  /\ a[r] \in Entry
             /\ a[r].step = o.patches[r].step
             /\ a[r].run = old(r).run
             /\ a[r].embedding = old(r).embedding
  <2>1. old(r) \in Entry
    BY <1>3, <1>4
  <2>2. o.patches[r].step \in StepType
    BY <1>1 DEF Patch
  <2>3. a[r] = [old(r) EXCEPT !.step = o.patches[r].step]
    BY <1>5
  <2> HIDE DEF old
  <2> QED BY <2>1, <2>2, <2>3 DEF Entry
<1>9. a \in [DOMAIN a -> Entry]
  <2>1. \A r \in DOMAIN a : a[r] \in Entry
    BY <1>3, <1>6, <1>7, <1>8
  <2>2. a = [r \in DOMAIN a |-> a[r]]
    BY <1>5, <1>6
  <2> QED BY <2>1, <2>2
<1>10. DOMAIN a \subseteq Requests
  BY <1>1, <1>2, <1>6 DEF kept
<1>11. a \in Partial(Entry)
  BY <1>9, <1>10, PartialIntro
<1>12. \A r \in DOMAIN a \ DOMAIN o.patches :
         a[r] = IF r \in DOMAIN o.full THEN o.full[r] ELSE cached[r]
  BY <1>2, <1>6, <1>7
<1> QED BY <1>2, <1>6, <1>8, <1>11, <1>12 DEF Received, a, kept

\* An object of the sequence is replaced by another.
LEMMA ReplaceObject ==
  ASSUME objects \in Seq(PacketType), NEW i \in DOMAIN objects,
         NEW o \in PacketType, objects' = [objects EXCEPT ![i] = o]
  PROVE  /\ objects' \in Seq(PacketType)
         /\ Len(objects') = Len(objects)
         /\ DOMAIN objects' = DOMAIN objects
         /\ objects'[i] = o
         /\ \A j \in DOMAIN objects \ {i} : objects'[j] = objects[j]
<1>1. i \in 1..Len(objects) /\ DOMAIN objects = 1..Len(objects)
  BY LenProperties
<1> QED BY <1>1, ExceptSeq, LenProperties

\* The batch are the requests of the packet, as they are cached then; the object
\* keeps the whole ones.
LEMMA UpdateType ==
  ASSUME ExecutorType, UpdateCachedRequests
  PROVE  LET i == Head(pending) IN
         /\ ExecutorType'
         /\ i \in DOMAIN objects /\ objects[i] \in PacketType
         /\ cached' = AfterUpdate(objects[i])
         /\ DOMAIN batch' = Received(objects[i])
         /\ \A r \in DOMAIN batch' : batch'[r] = cached'[r]
         /\ DOMAIN objects' = DOMAIN objects
         /\ Len(objects') = Len(objects)
         /\ objects'[i].patches = <<>>
         /\ \A j \in DOMAIN objects \ {i} : objects'[j] = objects[j]
<1> DEFINE i == Head(pending)
           o == objects[i]
           taken == [o EXCEPT !.patches = <<>>]
<1>1. /\ current = None /\ pending # <<>>
      /\ current' = i
      /\ pending' = Tail(pending)
      /\ cached' = AfterUpdate(o)
      /\ batch' = Restrict(cached', Received(o))
      /\ objects' = [objects EXCEPT ![i].patches = <<>>]
      /\ UNCHANGED <<free_queue, results>>
  BY Zenon DEF UpdateCachedRequests
<1>2. i \in DOMAIN objects /\ pending' \in Seq(DOMAIN objects)
  BY <1>1, HeadTailProperties DEF ExecutorType
<1>3. o \in PacketType
  BY <1>2, LenProperties DEF ExecutorType
<1>4. taken \in PacketType /\ taken.patches = <<>>
  BY <1>3, EmptyPartial DEF PacketType
<1>5. objects' = [objects EXCEPT ![i] = taken]
  BY <1>1, Zenon
<1>6. /\ objects' \in Seq(PacketType)
      /\ Len(objects') = Len(objects)
      /\ DOMAIN objects' = DOMAIN objects
      /\ objects'[i] = taken
      /\ \A j \in DOMAIN objects \ {i} : objects'[j] = objects[j]
  <2> HIDE DEF i, taken
  <2> QED BY <1>2, <1>4, <1>5, ReplaceObject DEF ExecutorType
<1>7. cached' \in Partial(Entry) /\ Received(o) \subseteq DOMAIN cached'
  BY <1>1, <1>3, AfterUpdateIs DEF ExecutorType
<1>8. /\ DOMAIN batch' = Received(o)
      /\ \A r \in DOMAIN batch' : batch'[r] = cached'[r]
      /\ batch' \in [Received(o) -> Entry]
  <2>1. /\ \A r \in DOMAIN cached' : cached'[r] \in Entry
    BY <1>7, PartialElim
  <2> QED BY <1>1, <1>7, <2>1 DEF Restrict
<1>9. Received(o) \subseteq Requests
  BY <1>7, PartialElim
<1>10. batch' \in Partial(Entry)
  BY <1>8, <1>9, PartialIntro
<1>11. ExecutorType'
  BY <1>1, <1>2, <1>6, <1>7, <1>10 DEF ExecutorType
<1> HIDE DEF taken
<1> QED BY <1>1, <1>2, <1>3, <1>4, <1>6, <1>8, <1>11

\* The requests of the batch are the answer.
LEMMA ReportType ==
  ASSUME ExecutorType, Report
  PROVE  ExecutorType'
<1>1. DOMAIN batch \in SUBSET Requests
  BY PartialElim DEF ExecutorType
<1>2. results' \in Seq(SUBSET Requests)
  BY <1>1, AppendProperties DEF Report, ExecutorType
<1>3. batch' \in Partial(Entry)
  BY EmptyPartial DEF Report, NoBatch
<1> QED BY <1>2, <1>3 DEF Report, ExecutorType

\* The object in use is emptied, and no other changes.
LEMMA FreeType ==
  ASSUME ExecutorType, FreeScheduleOutput
  PROVE  /\ ExecutorType'
         /\ current \in DOMAIN objects
         /\ Len(objects') = Len(objects)
         /\ DOMAIN objects' = DOMAIN objects
         /\ objects'[current] = Clear(objects[current])
         /\ \A j \in DOMAIN objects \ {current} : objects'[j] = objects[j]
<1>1. /\ current # None /\ batch = NoBatch
      /\ objects' = [objects EXCEPT ![current] = Clear(@)]
      /\ free_queue' = Append(free_queue, current)
      /\ current' = None
      /\ UNCHANGED <<pending, cached, batch, results>>
  BY DEF FreeScheduleOutput
<1>2. current \in DOMAIN objects
  BY <1>1 DEF ExecutorType
<1>3. objects[current] \in PacketType
  BY <1>2, LenProperties DEF ExecutorType
<1>4. Clear(objects[current]) \in PacketType
  BY <1>3, EmptyOutputType DEF Clear, PacketType
<1>5. objects' = [objects EXCEPT ![current] = Clear(objects[current])]
  BY <1>1
<1>6. /\ objects' \in Seq(PacketType)
      /\ Len(objects') = Len(objects)
      /\ DOMAIN objects' = DOMAIN objects
      /\ objects'[current] = Clear(objects[current])
      /\ \A j \in DOMAIN objects \ {current} : objects'[j] = objects[j]
  BY <1>2, <1>4, <1>5, ReplaceObject DEF ExecutorType
<1>7. free_queue' \in Seq(DOMAIN objects)
  BY <1>1, <1>2, AppendProperties DEF ExecutorType
<1>8. ExecutorType'
  BY <1>1, <1>6, <1>7 DEF ExecutorType
<1> QED BY <1>2, <1>6, <1>8

\* Every step keeps every type.
LEMMA NextType == TypeInv /\ [Next]_vars => TypeInv'
<1> SUFFICES ASSUME TypeInv, [Next]_vars PROVE TypeInv'
  OBVIOUS
<1> USE DEF TypeInv
<1>1. CASE Schedule
  <2>1. TransferType' /\ ExecutorType'
    BY <1>1, Zenon DEF Schedule, transfer, executor, TransferType, ExecutorType
  <2> QED BY <1>1, <2>1, ScheduleType
<1>2. CASE DropStopped
  BY <1>2 DEF DropStopped, EngineType, transfer, executor, TransferType,
              ExecutorType
<1>3. CASE LaunchScheduleOutput
  <2>1. ExecutorType'
    BY <1>3, Zenon DEF LaunchScheduleOutput, executor, ExecutorType
  <2> QED BY <1>3, <2>1, LaunchType
<1>4. CASE DropStaleOutput
  BY <1>4 DEF DropStaleOutput, NoPlan, EngineType, transfer, executor,
              TransferType, ExecutorType
<1>5. CASE UpdateWithGenerationResult
  <2>1. UNCHANGED <<launched, transferred, packets, objects, free_queue, pending,
                    current, cached, batch>>
    BY <1>5, Zenon DEF UpdateWithGenerationResult, transfer, executor
  <2>2. EngineType' /\ results' \in Seq(SUBSET Requests)
    BY <1>5, ReturnType DEF ExecutorType
  <2> QED BY <2>1, <2>2 DEF TransferType, ExecutorType
<1>6. ASSUME NEW r \in Requests, Stop(r) PROVE TypeInv'
  <2>1. TransferType' /\ ExecutorType'
    BY <1>6 DEF Stop, transfer, executor, TransferType, ExecutorType
  <2> QED BY <1>6, <2>1, StopType
<1>7. ASSUME NEW r \in Requests, Recompute(r) PROVE TypeInv'
  <2>1. TransferType' /\ ExecutorType'
    BY <1>7 DEF Recompute, transfer, executor, TransferType, ExecutorType
  <2> QED BY <1>7, <2>1, RecomputeType
<1>8. CASE SetInferRequestTransferMode
  <2>1. UNCHANGED <<executor, results>>
    BY <1>8 DEF SetInferRequestTransferMode
  <2>2. ExecutorType'
    BY <2>1 DEF executor, ExecutorType
  <2> QED BY <1>8, <2>2, ModeType
<1>9. CASE PutSendScheduleOutput
  <2>1. EngineType' /\ ExecutorType'
    BY <1>9 DEF PutSendScheduleOutput, engine, executor, EngineType, ExecutorType
  <2> QED BY <1>9, <2>1, SendType
<1>10. CASE Receive
  <2>1. EngineType'
    BY <1>10, Zenon DEF Receive, engine, EngineType
  <2> QED BY <1>10, <2>1, ReceiveType
<1>11. CASE UpdateCachedRequests
  <2>1. EngineType' /\ TransferType'
    BY <1>11, Zenon DEF UpdateCachedRequests, engine, transfer, EngineType,
                        TransferType
  <2> QED BY <1>11, <2>1, UpdateType
<1>12. CASE Report
  <2>1. EngineType' /\ TransferType'
    BY <1>12 DEF Report, engine, transfer, EngineType, TransferType
  <2> QED BY <1>12, <2>1, ReportType
<1>13. CASE FreeScheduleOutput
  <2>1. EngineType' /\ TransferType'
    BY <1>13 DEF FreeScheduleOutput, engine, transfer, EngineType, TransferType
  <2> QED BY <1>13, <2>1, FreeType
<1>14. CASE Idle \/ UNCHANGED vars
  BY <1>14 DEF Idle, vars, engine, transfer, executor, EngineType, TransferType,
               ExecutorType
<1> QED BY <1>1, <1>2, <1>3, <1>4, <1>5, <1>6, <1>7, <1>8, <1>9, <1>10, <1>11,
           <1>12, <1>13, <1>14 DEF Next

-----------------------------------------------------------------------------
(* The pool: each object is in one place, and a free one is empty *)

\* The outputs that were answered, with the one that is run, the packets that
\* are rebuilt and those that are not, from the oldest on.
Returned == Len(results)
Begun == Returned + (IF batch = NoBatch THEN 0 ELSE 1)
Rebuilt == Begun + Len(pending)
Sent == Rebuilt + Len(packets)

DepthCounts ==
  /\ executor_pipeline_depth = Sent + Len(launched)
  /\ executor_pipeline_depth <= kExecutorPipelineMaxDepth

EachInOnePlace ==
  /\ IsInjective(free_queue) /\ IsInjective(pending)
  /\ ToSet(free_queue) \cap ToSet(pending) = {}
  /\ current \notin ToSet(free_queue) \cup ToSet(pending)
  /\ ToSet(free_queue) \cup ToSet(pending) \cup ({current} \ {None})
       = DOMAIN objects
  /\ Len(free_queue) + Len(pending) + (IF current = None THEN 0 ELSE 1)
       = Len(objects)

\* An object goes back to the pool without requests and without patches.
FreeAreEmpty ==
  /\ \A i \in ToSet(free_queue) : objects[i].full = <<>> /\ objects[i].patches = <<>>
  /\ current # None => objects[current].patches = <<>>
  /\ current = None => batch = NoBatch

PoolInv ==
  /\ EachInOnePlace
  /\ FreeAreEmpty
  /\ DepthCounts
  /\ Len(objects) <= kExecutorPipelineMaxDepth + 1

\* The lengths of the queues, for the arithmetic of the steps below.
LEMMA Sizes ==
  ASSUME TypeInv
  PROVE  /\ Len(results) \in Nat /\ Len(pending) \in Nat /\ Len(packets) \in Nat
         /\ Len(launched) \in Nat /\ Len(free_queue) \in Nat
         /\ Len(objects) \in Nat
         /\ DOMAIN results = 1..Len(results) /\ DOMAIN pending = 1..Len(pending)
         /\ DOMAIN packets = 1..Len(packets) /\ DOMAIN launched = 1..Len(launched)
         /\ DOMAIN objects = 1..Len(objects)
         /\ Sequence(results) /\ Sequence(pending) /\ Sequence(packets)
         /\ Sequence(launched) /\ Sequence(free_queue)
         /\ Returned = Len(results)
         /\ Begun = Returned \/ Begun = Returned + 1
         /\ Rebuilt = Begun + Len(pending)
         /\ Sent = Rebuilt + Len(packets)
         /\ Returned \in Nat /\ Begun \in Nat /\ Rebuilt \in Nat /\ Sent \in Nat
<1>1. /\ Sequence(results) /\ Sequence(pending) /\ Sequence(packets)
      /\ Sequence(launched) /\ Sequence(free_queue)
      /\ Sequence(objects)
  BY SequenceOver DEF TypeInv, TransferType, ExecutorType
<1>2. /\ Len(results) \in Nat /\ Len(pending) \in Nat /\ Len(packets) \in Nat
      /\ Len(launched) \in Nat /\ Len(free_queue) \in Nat
      /\ Len(objects) \in Nat
      /\ DOMAIN results = 1..Len(results) /\ DOMAIN pending = 1..Len(pending)
      /\ DOMAIN packets = 1..Len(packets) /\ DOMAIN launched = 1..Len(launched)
      /\ DOMAIN objects = 1..Len(objects)
  BY <1>1, SequenceLen
<1>3. /\ Returned = Len(results)
      /\ Begun = Returned \/ Begun = Returned + 1
      /\ Rebuilt = Begun + Len(pending)
      /\ Sent = Rebuilt + Len(packets)
  BY DEF Returned, Begun, Rebuilt, Sent
<1>4. Returned \in Nat /\ Begun \in Nat /\ Rebuilt \in Nat /\ Sent \in Nat
  <2>1. Returned \in Nat /\ Len(pending) \in Nat /\ Len(packets) \in Nat
    BY <1>2, <1>3
  <2>2. Begun \in Nat
    BY <2>1, <1>3
  <2>3. Rebuilt \in Nat
    BY <2>1, <2>2, <1>3
  <2>4. Sent \in Nat
    BY <2>1, <2>3, <1>3
  <2> QED BY <2>1, <2>2, <2>3, <2>4
<1> QED BY <1>1, <1>2, <1>3, <1>4

\* The pool and the pipeline are empty at the start.
LEMMA InitPool == Init => PoolInv
<1> SUFFICES ASSUME Init PROVE PoolInv
  OBVIOUS
<1>1. ToSet(<<>>) = {} /\ IsInjective(<<>>)
  BY SequenceEmpty DEF ToSet, IsInjective
<1>2. EachInOnePlace
  BY <1>1, SequenceEmpty DEF Init, EachInOnePlace, None
<1>3. FreeAreEmpty
  BY <1>1 DEF Init, FreeAreEmpty, None
<1>4. DepthCounts
  BY SequenceEmpty DEF Init, DepthCounts, Returned, Begun, Rebuilt, Sent,
                       kExecutorPipelineMaxDepth
<1> QED BY <1>2, <1>3, <1>4, SequenceEmpty
       DEF Init, PoolInv, kExecutorPipelineMaxDepth

\* The Engine's steps that launch nothing and take nothing back.
LEMMA FramePool ==
  ASSUME PoolInv, Len(launched') = Len(launched),
         UNCHANGED <<executor_pipeline_depth, packets, objects, free_queue,
                     pending, current, batch, results>>
  PROVE  PoolInv'
BY DEF PoolInv, EachInOnePlace, FreeAreEmpty, DepthCounts, Returned, Begun,
       Rebuilt, Sent

\* What a step does to the queues' lengths keeps the sum: a launch, a return, a
\* packet that is written.
LEMMA LaunchPool ==
  ASSUME TypeInv, PoolInv, LaunchScheduleOutput
  PROVE  PoolInv'
<1>1. /\ ~PipelineFull
      /\ executor_pipeline_depth' = executor_pipeline_depth + 1
      /\ UNCHANGED <<packets, objects, free_queue, pending, current, batch,
                     results>>
  BY Zenon DEF LaunchScheduleOutput, executor
<1>2. Len(launched') = Len(launched) + 1
  BY LaunchType, Sizes, SequenceAppend DEF TypeInv
<1>3. EachInOnePlace' /\ FreeAreEmpty'
  BY <1>1, Zenon DEF PoolInv, EachInOnePlace, FreeAreEmpty
<1>4. Sent' = Sent
  BY <1>1, Zenon DEF Sent, Rebuilt, Begun, Returned
<1>5. DepthCounts'
  <2>1. Sent \in Nat /\ Len(launched) \in Nat
    BY Sizes
  <2> QED BY <2>1, <1>1, <1>2, <1>4
         DEF PoolInv, DepthCounts, PipelineFull, kExecutorPipelineMaxDepth
<1> QED BY <1>1, <1>3, <1>5 DEF PoolInv

\* What comes back was counted.
LEMMA ReturnPool ==
  ASSUME TypeInv, PoolInv, UpdateWithGenerationResult
  PROVE  PoolInv'
<1>1. /\ results # <<>> /\ results' = Tail(results)
      /\ executor_pipeline_depth' =
           IF executor_pipeline_depth > 0 THEN executor_pipeline_depth - 1 ELSE 0
      /\ UNCHANGED <<launched, packets, objects, free_queue, pending, current,
                     batch>>
  BY Zenon DEF UpdateWithGenerationResult, transfer, executor
<1>2. Len(results') = Len(results) - 1 /\ Len(results) > 0
  BY <1>1, Sizes, SequenceTail
<1>3. EachInOnePlace' /\ FreeAreEmpty'
  BY <1>1, Zenon DEF PoolInv, EachInOnePlace, FreeAreEmpty
<1>4. Returned' = Returned - 1
  BY <1>2 DEF Returned
<1>5. Begun' = Begun - 1
  BY <1>1, <1>4, Sizes DEF Begun
<1>6. Sent' = Sent - 1 /\ Sent > 0
  <2>1. Begun \in Nat /\ Len(pending) \in Nat /\ Len(packets) \in Nat
        /\ Begun >= Len(results)
    BY Sizes
  <2> QED BY <2>1, <1>1, <1>2, <1>5 DEF Sent, Rebuilt
<1>7. DepthCounts'
  <2>1. Sent \in Nat /\ Len(launched) \in Nat
    BY Sizes
  <2> QED BY <2>1, <1>1, <1>6
         DEF PoolInv, DepthCounts, kExecutorPipelineMaxDepth
<1> QED BY <1>1, <1>3, <1>7 DEF PoolInv

\* A packet that is written was counted.
LEMMA SendPool ==
  ASSUME TypeInv, PoolInv, PutSendScheduleOutput
  PROVE  PoolInv'
<1>1. /\ launched # <<>> /\ launched' = Tail(launched)
      /\ packets' = Append(packets, SerializeScheduleOutput(Head(launched)))
      /\ UNCHANGED <<executor_pipeline_depth, objects, free_queue, pending,
                     current, batch, results>>
  BY DEF PutSendScheduleOutput, engine, executor
<1>2. Len(launched') = Len(launched) - 1 /\ Len(packets') = Len(packets) + 1
  BY <1>1, Sizes, SequenceTail, SequenceAppend
<1>3. EachInOnePlace' /\ FreeAreEmpty'
  BY <1>1, Zenon DEF PoolInv, EachInOnePlace, FreeAreEmpty
<1>4. Rebuilt' = Rebuilt
  BY <1>1, Zenon DEF Rebuilt, Begun, Returned
<1>5. DepthCounts'
  <2>1. Rebuilt \in Nat /\ Len(packets) \in Nat /\ Len(launched) \in Nat
    BY Sizes
  <2>2. Sent' = Sent + 1
    BY <2>1, <1>2, <1>4 DEF Sent
  <2> QED BY <2>1, <2>2, <1>1, <1>2 DEF PoolInv, DepthCounts, Sent
<1> QED BY <1>1, <1>3, <1>5 DEF PoolInv

\* A packet is rebuilt in an object that was free and empty, or in a new one; a
\* new one is made only if none was free, and then at most two were in use.
LEMMA ReceivePool ==
  ASSUME TypeInv, PoolInv, Receive
  PROVE  /\ PoolInv'
         /\ pending' = Append(pending, FreeScheduleOutputIndex)
         /\ FreeScheduleOutputIndex \notin ToSet(pending)
         /\ objects'[FreeScheduleOutputIndex] = Head(packets)
         /\ \A j \in ToSet(pending) : objects'[j] = objects[j]
<1> DEFINE i == FreeScheduleOutputIndex
           object == IF i \in DOMAIN objects THEN objects[i] ELSE EmptyOutput
           p == Head(packets)
<1>1. /\ packets # <<>> /\ packets' = Tail(packets)
      /\ free_queue' = IF i \in DOMAIN objects THEN Tail(free_queue)
                                               ELSE free_queue
      /\ pending' = Append(pending, i)
      /\ UNCHANGED <<executor_pipeline_depth, launched, current, batch, results>>
  BY Zenon DEF Receive, engine
<1>2. /\ Len(objects') = IF i \in DOMAIN objects THEN Len(objects)
                                                 ELSE Len(objects) + 1
      /\ objects'[i] = DeserializeScheduleOutput(object, p)
      /\ \A j \in DOMAIN objects \ {i} : objects'[j] = objects[j]
      /\ free_queue = <<>> => i = Len(objects) + 1
      /\ free_queue # <<>> => i = Head(free_queue) /\ i \in DOMAIN objects
      /\ objects' \in Seq(PacketType)
      /\ p \in PacketType
  <2>1. p \in PacketType
    BY <1>1, HeadTailProperties DEF TypeInv, TransferType
  <2> QED BY <2>1, ReceiveType DEF TypeInv, ExecutorType
<1>3. /\ Len(objects) \in Nat /\ DOMAIN objects = 1..Len(objects)
      /\ Len(pending) \in Nat /\ Len(free_queue) \in Nat /\ Len(packets) \in Nat
      /\ Sequence(pending) /\ Sequence(free_queue) /\ Sequence(packets)
      /\ Rebuilt \in Nat /\ Begun \in Nat /\ Len(launched) \in Nat
  BY Sizes
<1>4. /\ Len(packets') = Len(packets) - 1 /\ Len(packets) > 0
      /\ Len(pending') = Len(pending) + 1
      /\ ToSet(pending') = ToSet(pending) \cup {i}
  BY <1>1, <1>3, SequenceTail, SequenceAppend, SequenceAppendSet
<1> HIDE DEF i, object, p
<1>5. /\ free_queue = <<>> <=> i \notin DOMAIN objects
      /\ free_queue # <<>> => i = Head(free_queue)
  BY <1>2, <1>3
<1>6. ToSet(free_queue) \cup ToSet(pending) \subseteq DOMAIN objects
  BY DEF PoolInv, EachInOnePlace
<1> DEFINE used == IF current = None THEN 0 ELSE 1
<1>7. used \in 0..1 /\ used' = used
  BY <1>1
<1>8. Len(free_queue) + Len(pending) + used = Len(objects)
  BY DEF PoolInv, EachInOnePlace
<1> HIDE DEF used
<1>9. ASSUME free_queue = <<>>
      PROVE  /\ EachInOnePlace' /\ Len(objects') <= 3
             /\ i \notin ToSet(pending) /\ i # current
             /\ object = EmptyOutput /\ free_queue' = free_queue
  <2>1. i \notin DOMAIN objects /\ i = Len(objects) + 1 /\ free_queue' = free_queue
    BY <1>1, <1>2, <1>5, <1>9
  <2>2. DOMAIN objects' = DOMAIN objects \cup {i}
        /\ Len(objects') = Len(objects) + 1
    <3>1. Len(objects') = Len(objects) + 1
      BY <2>1, <1>2
    <3>2. DOMAIN objects' = 1..Len(objects')
      BY <1>2, LenProperties
    <3> QED BY <2>1, <3>1, <3>2, <1>3
  <2>3. i \notin ToSet(pending) \cup ToSet(free_queue) /\ i # current /\ i # None
    <3>1. current \in {None} \cup DOMAIN objects
      BY DEF PoolInv, EachInOnePlace
    <3>2. i # None
      BY <2>1, <1>3 DEF None
    <3> QED BY <2>1, <1>6, <3>1, <3>2
  <2>4. EachInOnePlace'
    <3>1. IsInjective(pending')
      BY <2>3, <1>1, <1>3, SequenceAppendSet DEF PoolInv, EachInOnePlace
    <3>2. Len(free_queue') + Len(pending') + used' = Len(objects')
      BY <1>3, <1>4, <1>7, <1>8, <2>1, <2>2
    <3> QED BY <1>1, <1>4, <2>1, <2>2, <2>3, <3>1, <3>2
           DEF PoolInv, EachInOnePlace, used
  <2>5. Len(objects') <= 3
    <3>1. Len(free_queue) = 0
      BY <1>9, SequenceEmpty
    <3>2. Len(pending) + Len(packets) <= 2
      BY <1>3 DEF PoolInv, DepthCounts, Sent, Rebuilt, kExecutorPipelineMaxDepth
    <3> QED BY <3>1, <3>2, <2>2, <1>3, <1>4, <1>7, <1>8
  <2>6. object = EmptyOutput
    BY <2>1 DEF object
  <2> QED BY <2>1, <2>3, <2>4, <2>5, <2>6
<1>10. ASSUME free_queue # <<>>
       PROVE  /\ EachInOnePlace' /\ Len(objects') <= 3
              /\ i \notin ToSet(pending) /\ i # current
              /\ object.full = <<>> /\ object.patches = <<>>
              /\ ToSet(free_queue') \subseteq ToSet(free_queue) \ {i}
  <2>1. i = Head(free_queue) /\ i \in DOMAIN objects /\ free_queue' = Tail(free_queue)
        /\ Len(objects') = Len(objects)
    BY <1>1, <1>2, <1>5, <1>10
  <2>2. /\ ToSet(free_queue') = ToSet(free_queue) \ {i}
        /\ i \in ToSet(free_queue)
        /\ IsInjective(free_queue')
        /\ Len(free_queue') = Len(free_queue) - 1
    BY <2>1, <1>3, <1>10, SequenceTail, SequenceTailSet
       DEF PoolInv, EachInOnePlace
  <2>3. DOMAIN objects' = DOMAIN objects
    BY <2>1, <1>2, <1>3, LenProperties
  <2>4. i \notin ToSet(pending) /\ i # current
    BY <2>2 DEF PoolInv, EachInOnePlace
  <2>5. EachInOnePlace'
    <3>1. IsInjective(pending')
      BY <2>4, <1>1, <1>3, SequenceAppendSet DEF PoolInv, EachInOnePlace
    <3>2. Len(free_queue') + Len(pending') + used' = Len(objects')
      <4>1. /\ Len(free_queue') = Len(free_queue) - 1
            /\ Len(pending') = Len(pending) + 1 /\ used' = used
            /\ Len(objects') = Len(objects)
            /\ Len(free_queue) \in Nat /\ Len(pending) \in Nat /\ used \in 0..1
        BY <1>3, <1>4, <1>7, <2>1, <2>2
      <4> QED BY <4>1, <1>8
    <3> QED BY <1>1, <1>4, <2>2, <2>3, <2>4, <3>1, <3>2
           DEF PoolInv, EachInOnePlace, used
  <2>6. Len(objects') <= 3
    BY <2>1 DEF PoolInv, kExecutorPipelineMaxDepth
  <2>7. object.full = <<>> /\ object.patches = <<>>
    BY <2>1, <2>2 DEF object, PoolInv, FreeAreEmpty
  <2> QED BY <2>2, <2>4, <2>5, <2>6, <2>7
<1>11. /\ EachInOnePlace' /\ Len(objects') <= 3
       /\ object.full = <<>> /\ object.patches = <<>>
       /\ i \notin ToSet(pending) /\ i # current
       /\ ToSet(free_queue') \subseteq ToSet(free_queue) \ {i}
  <2>1. EmptyOutput.full = <<>> /\ EmptyOutput.patches = <<>>
    BY DEF EmptyOutput
  <2>2. ToSet(<<>>) = {}
    BY SequenceEmpty DEF ToSet
  <2> QED BY <2>1, <2>2, <1>9, <1>10
<1>12. objects'[i] = p
  <2>1. /\ p \in PacketType
        /\ p.full \in [DOMAIN p.full -> Entry]
        /\ p.patches \in [DOMAIN p.patches -> Patch]
    BY <1>2, PartialElim DEF PacketType
  <2>2. Over(p.full, <<>>) = p.full /\ Over(p.patches, <<>>) = p.patches
    BY <2>1, SequenceEmpty DEF Over
  <2>3. DeserializeScheduleOutput(object, p) =
          [p EXCEPT !.full = p.full, !.patches = p.patches]
    BY <2>2, <1>11 DEF DeserializeScheduleOutput, DeserializeInferRequests,
                       DeserializeInferRequestPatches
  <2> QED BY <2>1, <2>3, <1>2 DEF PacketType
<1>13. FreeAreEmpty'
  <2>1. \A j \in ToSet(free_queue') : j \in DOMAIN objects \ {i}
    BY <1>6, <1>11
  <2>2. current # None => current \in DOMAIN objects \ {i}
    BY <1>11 DEF PoolInv, EachInOnePlace
  <2> QED BY <2>1, <2>2, <1>1, <1>2, <1>11 DEF PoolInv, FreeAreEmpty
<1>14. DepthCounts'
  <2>1. Begun' = Begun
    BY <1>1 DEF Begun, Returned
  <2>2. Sent' = Sent
    BY <2>1, <1>3, <1>4 DEF Sent, Rebuilt
  <2> QED BY <2>2, <1>1 DEF PoolInv, DepthCounts
<1>15. PoolInv'
  BY <1>11, <1>13, <1>14 DEF PoolInv, kExecutorPipelineMaxDepth
<1>16. \A j \in ToSet(pending) : objects'[j] = objects[j]
  BY <1>2, <1>6, <1>11
<1> QED BY <1>1, <1>11, <1>12, <1>15, <1>16 DEF i, p

\* The oldest packet is taken up: its object is in use, without its patches.
LEMMA UpdatePool ==
  ASSUME TypeInv, PoolInv, UpdateCachedRequests, Received(objects[Head(pending)]) # {}
  PROVE  /\ PoolInv'
         /\ batch = NoBatch /\ batch' # NoBatch
         /\ pending # <<>> /\ pending' = Tail(pending)
         /\ Begun' = Begun + 1
         /\ \A j \in ToSet(pending') : objects'[j] = objects[j]
<1> DEFINE i == Head(pending)
<1>1. /\ current = None /\ pending # <<>>
      /\ current' = i
      /\ pending' = Tail(pending)
      /\ UNCHANGED <<free_queue, results, executor_pipeline_depth, launched,
                     packets>>
  BY Zenon DEF UpdateCachedRequests, engine, transfer
<1>2. /\ i \in DOMAIN objects
      /\ DOMAIN batch' = Received(objects[i])
      /\ DOMAIN objects' = DOMAIN objects
      /\ Len(objects') = Len(objects)
      /\ objects'[i].patches = <<>>
      /\ \A j \in DOMAIN objects \ {i} : objects'[j] = objects[j]
  BY UpdateType DEF TypeInv
<1>3. batch = NoBatch
  BY <1>1 DEF PoolInv, FreeAreEmpty
<1>4. batch' # NoBatch
  <2>1. DOMAIN batch' # {}
    BY <1>2
  <2> QED BY <2>1, SequenceEmpty DEF NoBatch
<1>5. /\ Sequence(pending) /\ Len(pending) \in Nat /\ Len(free_queue) \in Nat
      /\ Returned \in Nat /\ DOMAIN objects = 1..Len(objects)
      /\ Len(packets) \in Nat
  BY Sizes
<1>6. /\ ToSet(pending') = ToSet(pending) \ {i} /\ i \in ToSet(pending)
      /\ IsInjective(pending') /\ Len(pending') = Len(pending) - 1
  BY <1>1, <1>5, SequenceTail, SequenceTailSet DEF PoolInv, EachInOnePlace
<1> HIDE DEF i
<1>7. i # None
  BY <1>2, <1>5 DEF None
<1>8. EachInOnePlace'
  <2>1. Len(free_queue') + Len(pending') + 1 = Len(objects')
    <3>1. Len(free_queue) + Len(pending) = Len(objects)
      <4>1. Len(free_queue) + Len(pending) + 0 = Len(objects)
        BY <1>1 DEF PoolInv, EachInOnePlace
      <4> QED BY <4>1, <1>5
    <3> QED BY <3>1, <1>1, <1>2, <1>5, <1>6
  <2>2. current' # None
    BY <1>1, <1>7
  <2> QED BY <2>1, <2>2, <1>1, <1>2, <1>6, <1>7 DEF PoolInv, EachInOnePlace
<1>9. \A j \in ToSet(free_queue) \cup ToSet(pending') :
        j \in DOMAIN objects /\ j # i
  BY <1>6 DEF PoolInv, EachInOnePlace
<1>10. FreeAreEmpty'
  BY <1>1, <1>2, <1>7, <1>9 DEF PoolInv, FreeAreEmpty
<1>11. Begun' = Begun + 1
  BY <1>1, <1>3, <1>4, <1>5 DEF Begun, Returned
<1>12. DepthCounts'
  <2>1. Begun \in Nat
    BY Sizes
  <2>2. Sent' = Sent
    BY <2>1, <1>1, <1>5, <1>6, <1>11 DEF Sent, Rebuilt
  <2> QED BY <2>2, <1>1 DEF PoolInv, DepthCounts
<1>13. PoolInv'
  BY <1>2, <1>8, <1>10, <1>12 DEF PoolInv
<1> QED BY <1>1, <1>2, <1>3, <1>4, <1>9, <1>11, <1>13 DEF i

\* An answered output is counted until the Engine has it.
LEMMA ReportPool ==
  ASSUME TypeInv, PoolInv, Report
  PROVE  /\ PoolInv'
         /\ Returned' = Returned + 1 /\ Begun = Returned + 1 /\ Begun' = Begun
<1>1. /\ batch # NoBatch /\ batch' = NoBatch
      /\ results' = Append(results, DOMAIN batch)
      /\ UNCHANGED <<executor_pipeline_depth, launched, packets, objects,
                     free_queue, pending, current>>
  BY Zenon DEF Report, engine, transfer
<1>2. Len(results') = Len(results) + 1
  BY <1>1, Sizes, SequenceAppend
<1>3. Returned' = Returned + 1
  BY <1>2 DEF Returned
<1>4. Begun = Returned + 1 /\ Begun' = Begun
  <2>1. Returned \in Nat
    BY Sizes
  <2> QED BY <2>1, <1>1, <1>3 DEF Begun
<1>5. EachInOnePlace' /\ FreeAreEmpty'
  BY <1>1, Zenon DEF PoolInv, EachInOnePlace, FreeAreEmpty
<1>6. DepthCounts'
  BY <1>1, <1>4 DEF PoolInv, DepthCounts, Sent, Rebuilt
<1> QED BY <1>1, <1>3, <1>4, <1>5, <1>6 DEF PoolInv

\* The object is freed behind that, without the requests it held.
LEMMA FreePool ==
  ASSUME TypeInv, PoolInv, FreeScheduleOutput
  PROVE  /\ PoolInv'
         /\ \A j \in ToSet(pending) : objects'[j] = objects[j]
<1>1. /\ current # None /\ batch = NoBatch
      /\ free_queue' = Append(free_queue, current)
      /\ current' = None
      /\ UNCHANGED <<executor_pipeline_depth, launched, packets, pending, batch,
                     results>>
  BY DEF FreeScheduleOutput, engine, transfer
<1>2. /\ current \in DOMAIN objects
      /\ Len(objects') = Len(objects)
      /\ DOMAIN objects' = DOMAIN objects
      /\ objects'[current] = Clear(objects[current])
      /\ \A j \in DOMAIN objects \ {current} : objects'[j] = objects[j]
  BY FreeType DEF TypeInv
<1>3. /\ Sequence(free_queue) /\ Len(free_queue) \in Nat /\ Len(pending) \in Nat
  BY Sizes
<1>4. /\ ToSet(free_queue') = ToSet(free_queue) \cup {current}
      /\ IsInjective(free_queue')
      /\ Len(free_queue') = Len(free_queue) + 1
  BY <1>1, <1>3, SequenceAppend, SequenceAppendSet DEF PoolInv, EachInOnePlace
<1>5. EachInOnePlace'
  <2>1. Len(free_queue) + Len(pending) + 1 = Len(objects)
    BY <1>1 DEF PoolInv, EachInOnePlace
  <2>2. Len(free_queue') + Len(pending') + 0 = Len(objects')
    BY <2>1, <1>1, <1>2, <1>3, <1>4
  <2>3. current \notin ToSet(pending) /\ None \notin ToSet(free_queue') \cup ToSet(pending)
    <3>1. None \notin DOMAIN objects
      BY Sizes DEF None
    <3> QED BY <3>1, <1>2, <1>4 DEF PoolInv, EachInOnePlace
  <2> QED BY <2>2, <2>3, <1>1, <1>2, <1>4 DEF PoolInv, EachInOnePlace
<1>6. FreeAreEmpty'
  <2>1. objects'[current].full = <<>> /\ objects'[current].patches = <<>>
    <3>1. objects[current].patches = <<>>
      BY <1>1 DEF PoolInv, FreeAreEmpty
    <3> QED BY <3>1, <1>2 DEF Clear, EmptyOutput
  <2>2. \A j \in ToSet(free_queue) : j \in DOMAIN objects \ {current}
    BY DEF PoolInv, EachInOnePlace
  <2> QED BY <2>1, <2>2, <1>1, <1>2, <1>4 DEF PoolInv, FreeAreEmpty
<1>7. DepthCounts'
  BY <1>1 DEF PoolInv, DepthCounts, Sent, Rebuilt, Begun, Returned
<1>8. \A j \in ToSet(pending) : j \in DOMAIN objects \ {current}
  BY DEF PoolInv, EachInOnePlace
<1> QED BY <1>2, <1>5, <1>6, <1>7, <1>8 DEF PoolInv

-----------------------------------------------------------------------------
(* What is at the k-th place of the pipeline, oldest first *)

\* Of an output that was answered or is run, its requests are left; of a packet
\* and of an output that is not yet one, what they drop, patch and run as well.
OfBatch(S) ==
  [out |-> S, drops |-> {}, patched |-> {}, populated |-> TRUE, item |-> <<>>]
OfPacket(p) ==
  [out |-> Received(p), drops |-> p.finish \cup p.recompute,
   patched |-> DOMAIN p.patches, populated |-> TRUE, item |-> Steps(p)]
OfOutput(o) ==
  [out |-> o.running, drops |-> o.finish \cup o.recompute,
   patched |-> {r \in o.running : o.snapshots[r].patch_transfer},
   populated |-> (\A r \in DOMAIN o.snapshots : o.snapshots[r].populated),
   item |-> [r \in o.running |-> o.snapshots[r].step]]

Place(k) ==
  IF k <= Returned THEN OfBatch(results[k])
  ELSE IF k <= Begun THEN OfBatch(DOMAIN batch)
  ELSE IF k <= Rebuilt THEN OfPacket(objects[pending[k - Begun]])
  ELSE IF k <= Sent THEN OfPacket(packets[k - Rebuilt])
  ELSE OfOutput(launched[k - Sent])

\* Snapshots were taken of all the requests of an output.
AllFrozen ==
  \A i \in DOMAIN launched : launched[i].running = DOMAIN launched[i].snapshots

\* What the outputs under way, or the next one, tell the Executor to drop.
Dropping ==
  recompute_ids \cup UNION {Place(k).drops : k \in 1..executor_pipeline_depth}

\* What the depth says of the lengths of the queues.
LEMMA DepthIs ==
  ASSUME TypeInv, PoolInv
  PROVE  /\ executor_pipeline_depth \in 0..2
         /\ executor_pipeline_depth = Sent + Len(launched)
         /\ Returned \in 0..2 /\ Begun \in 0..2 /\ Rebuilt \in 0..2 /\ Sent \in 0..2
         /\ Returned <= Begun /\ Begun <= Rebuilt /\ Rebuilt <= Sent
         /\ Sent <= executor_pipeline_depth
         /\ Returned <= Sent /\ Begun <= Sent
         /\ Len(launched) \in Nat /\ DOMAIN launched = 1..Len(launched)
<1>1. /\ Returned \in Nat /\ Begun \in Nat /\ Rebuilt \in Nat /\ Sent \in Nat
      /\ Begun = Returned \/ Begun = Returned + 1
      /\ Rebuilt = Begun + Len(pending)
      /\ Sent = Rebuilt + Len(packets)
      /\ Len(pending) \in Nat /\ Len(packets) \in Nat /\ Len(launched) \in Nat
      /\ DOMAIN launched = 1..Len(launched)
  BY Sizes
<1>2. executor_pipeline_depth = Sent + Len(launched) /\ executor_pipeline_depth <= 2
  BY DEF PoolInv, DepthCounts, kExecutorPipelineMaxDepth
<1> QED BY <1>1, <1>2

\* Outside the pipeline nothing changes what is at which place.
LEMMA PlaceFrame ==
  ASSUME UNCHANGED <<launched, packets, objects, pending, batch, results>>
  PROVE  /\ Returned' = Returned /\ Begun' = Begun /\ Sent' = Sent
         /\ \A k : Place(k)' = Place(k)
<1>1. Returned' = Returned /\ Begun' = Begun /\ Rebuilt' = Rebuilt /\ Sent' = Sent
  BY DEF Returned, Begun, Rebuilt, Sent
<1> QED BY <1>1 DEF Place

\* An output is launched behind all that are under way.
LEMMA PlaceLaunch ==
  ASSUME TypeInv, PoolInv, LaunchScheduleOutput
  PROVE  LET o == [running |-> planned \ Stopped(planned), finish |-> finish_ids,
                   recompute |-> recompute_ids,
                   snapshots |-> [r \in Launching(planned) |-> Snapshot(req'[r])]]
         IN  /\ executor_pipeline_depth' = executor_pipeline_depth + 1
             /\ Begun' = Begun /\ Sent' = Sent
             /\ \A k \in 1..executor_pipeline_depth : Place(k)' = Place(k)
             /\ Place(executor_pipeline_depth)' = OfOutput(o)
<1> DEFINE o == [running |-> planned \ Stopped(planned), finish |-> finish_ids,
                 recompute |-> recompute_ids,
                 snapshots |-> [r \in Launching(planned) |-> Snapshot(req'[r])]]
           depth == executor_pipeline_depth
<1>1. /\ depth' = depth + 1
      /\ UNCHANGED <<packets, objects, pending, batch, results>>
  BY Zenon DEF LaunchScheduleOutput, executor
<1>2. launched' = Append(launched, o)
  BY LaunchType DEF TypeInv
<1> HIDE DEF o
<1>3. /\ \A i \in 1..Len(launched) : launched'[i] = launched[i]
      /\ launched'[Len(launched) + 1] = o
  BY <1>2, Sizes, SequenceAppend
<1>4. Returned' = Returned /\ Begun' = Begun /\ Rebuilt' = Rebuilt /\ Sent' = Sent
  BY <1>1, Zenon DEF Returned, Begun, Rebuilt, Sent
<1>5. /\ depth = Sent + Len(launched) /\ Len(launched) \in Nat /\ Sent \in 0..2
      /\ Returned <= Sent /\ Begun <= Sent /\ Rebuilt <= Sent
      /\ Returned \in 0..2 /\ Begun \in 0..2 /\ Rebuilt \in 0..2
  BY DepthIs
<1>6. ASSUME NEW k \in 1..depth PROVE Place(k)' = Place(k)
  <2>1. CASE k <= Sent
    <3>1. UNCHANGED <<packets, objects, pending, batch, results>>
      BY <1>1
    <3>2. k <= Sent'
      BY <2>1, <1>4
    <3> QED BY <2>1, <3>1, <3>2, <1>4 DEF Place
  <2>2. CASE ~(k <= Sent)
    <3>1. launched'[k - Sent] = launched[k - Sent]
      BY <2>2, <1>3, <1>5
    <3>2. ~(k <= Returned) /\ ~(k <= Begun) /\ ~(k <= Rebuilt)
      BY <2>2, <1>5
    <3> QED BY <2>2, <3>1, <3>2, <1>4 DEF Place
  <2> QED BY <2>1, <2>2
<1>7. Place(depth)' = OfOutput(o)
  <2>1. /\ ~(depth + 1 <= Returned) /\ ~(depth + 1 <= Begun)
        /\ ~(depth + 1 <= Rebuilt) /\ ~(depth + 1 <= Sent)
        /\ (depth + 1) - Sent = Len(launched) + 1
    BY <1>5
  <2>2. launched'[(depth + 1) - Sent] = o
    BY <2>1, <1>3
  <2>3. Place(depth)' = OfOutput(launched'[(depth + 1) - Sent])
    BY <2>1, <1>1, <1>4 DEF Place
  <2> QED BY <2>2, <2>3
<1> QED BY <1>1, <1>4, <1>6, <1>7 DEF o

\* An output that comes back was the oldest.
LEMMA PlaceReturn ==
  ASSUME TypeInv, PoolInv, UpdateWithGenerationResult
  PROVE  /\ executor_pipeline_depth \in 1..2
         /\ executor_pipeline_depth' = executor_pipeline_depth - 1
         /\ Returned > 0 /\ Begun' = Begun - 1 /\ Returned' = Returned - 1
         /\ Sent' = Sent - 1
         /\ \A k \in 1..(executor_pipeline_depth - 1) : Place(k)' = Place(k + 1)
         /\ Place(1) = OfBatch(Head(results))
<1> DEFINE depth == executor_pipeline_depth
<1>1. /\ results # <<>> /\ results' = Tail(results)
      /\ depth' = IF depth > 0 THEN depth - 1 ELSE 0
      /\ UNCHANGED <<launched, packets, objects, pending, batch>>
  BY Zenon DEF UpdateWithGenerationResult, transfer, executor
<1>2. /\ Len(results) > 0 /\ Len(results') = Len(results) - 1
      /\ \A i \in 1..(Len(results) - 1) : results'[i] = results[i + 1]
      /\ Head(results) = results[1]
  BY <1>1, Sizes, SequenceTail
<1>3. /\ Len(pending) \in Nat /\ Len(packets) \in Nat /\ Len(launched) \in Nat
      /\ Returned \in Nat /\ Begun \in Nat /\ Rebuilt \in Nat /\ Sent \in Nat
      /\ Returned = Len(results)
      /\ Returned <= Begun /\ Begun <= Rebuilt /\ Rebuilt <= Sent
      /\ depth \in 0..2 /\ Sent <= depth
  BY DepthIs, Sizes
<1>4. Returned' = Returned - 1 /\ Returned > 0
  BY <1>2, <1>3 DEF Returned
<1>5. Begun' = Begun - 1
  BY <1>1, <1>3, <1>4 DEF Begun
<1>6. Rebuilt' = Rebuilt - 1
  BY <1>1, <1>3, <1>5 DEF Rebuilt
<1>7. Sent' = Sent - 1
  BY <1>1, <1>3, <1>6 DEF Sent
<1>8. depth \in 1..2 /\ depth' = depth - 1
  BY <1>1, <1>3, <1>4
<1>9. ASSUME NEW k \in 1..(depth - 1) PROVE Place(k)' = Place(k + 1)
  <2>1. /\ k <= Returned' <=> k + 1 <= Returned
        /\ k <= Begun' <=> k + 1 <= Begun
        /\ k <= Rebuilt' <=> k + 1 <= Rebuilt
        /\ k <= Sent' <=> k + 1 <= Sent
        /\ k - Begun' = (k + 1) - Begun
        /\ k - Rebuilt' = (k + 1) - Rebuilt
        /\ k - Sent' = (k + 1) - Sent
    BY <1>3, <1>4, <1>5, <1>6, <1>7, <1>8
  <2>2. k + 1 <= Returned => results'[k] = results[k + 1]
    BY <1>2, <1>3, <1>8
  <2> QED BY <2>1, <2>2, <1>1 DEF Place
<1>10. Place(1) = OfBatch(Head(results))
  BY <1>2, <1>3, <1>4 DEF Place
<1> QED BY <1>4, <1>5, <1>7, <1>8, <1>9, <1>10

\* The transfer mode is set of the oldest output that has none, and nothing
\* else of it changes, nor another output.
LEMMA PlaceMode ==
  ASSUME TypeInv, PoolInv, AllFrozen, SetInferRequestTransferMode,
         \A i \in DOMAIN launched : launched[i].running # {}
  PROVE  /\ Begun' = Begun /\ Sent' = Sent
         /\ \E p \in (Sent + 1)..executor_pipeline_depth :
              LET held == transferred \ Place(p).drops
              IN  /\ \A k \in 1..executor_pipeline_depth \ {p} :
                       Place(k)' = Place(k)
                  /\ \A k \in 1..(p - 1) : Place(k).populated
                  /\ ~Place(p).populated
                  /\ Place(p)'.populated
                  /\ Place(p)'.out = Place(p).out
                  /\ Place(p)'.drops = Place(p).drops
                  /\ Place(p)'.item = Place(p).item
                  /\ Place(p)'.patched = Place(p).out \cap held
                  /\ transferred' = held \cup Place(p).out
         /\ AllFrozen'
<1> DEFINE depth == executor_pipeline_depth
<1>1. PICK i \in DOMAIN launched :
        LET o == launched[i]
            held == transferred \ (o.finish \cup o.recompute)
        IN  /\ \A r \in DOMAIN o.snapshots : ~o.snapshots[r].populated
            /\ \A j \in 1..i - 1 : \A r \in DOMAIN launched[j].snapshots :
                 launched[j].snapshots[r].populated
            /\ transferred' = held \cup o.running
            /\ \A j \in DOMAIN launched \ {i} : launched'[j] = launched[j]
            /\ launched'[i].running = o.running
            /\ launched'[i].finish = o.finish
            /\ launched'[i].recompute = o.recompute
            /\ DOMAIN launched'[i].snapshots = DOMAIN o.snapshots
            /\ \A r \in DOMAIN o.snapshots :
                 /\ launched'[i].snapshots[r].step = o.snapshots[r].step
                 /\ launched'[i].snapshots[r].populated
                 /\ launched'[i].snapshots[r].patch_transfer <=> r \in held
  BY ModeType DEF TypeInv
<1>2. /\ DOMAIN launched' = DOMAIN launched
      /\ UNCHANGED <<packets, objects, pending, batch, results>>
  BY ModeType DEF TypeInv, SetInferRequestTransferMode, executor
<1>3. Returned' = Returned /\ Begun' = Begun /\ Rebuilt' = Rebuilt /\ Sent' = Sent
  BY <1>2, Zenon DEF Returned, Begun, Rebuilt, Sent
<1>4. /\ depth = Sent + Len(launched) /\ Len(launched) \in Nat /\ Sent \in 0..2
      /\ Returned <= Sent /\ Begun <= Sent /\ Rebuilt <= Sent
      /\ Returned \in 0..2 /\ Begun \in 0..2 /\ Rebuilt \in 0..2
      /\ DOMAIN launched = 1..Len(launched)
  BY DepthIs
<1>0. PICK p : p = Sent + i
  OBVIOUS
<1> DEFINE o == launched[i]
           n == launched'[i]
           held == transferred \ (o.finish \cup o.recompute)
<1>5. \A j \in DOMAIN launched : /\ Place(Sent + j) = OfOutput(launched[j])
                                 /\ Place(Sent + j)' = OfOutput(launched'[j])
  <2> SUFFICES ASSUME NEW j \in DOMAIN launched
               PROVE  /\ Place(Sent + j) = OfOutput(launched[j])
                      /\ Place(Sent + j)' = OfOutput(launched'[j])
    OBVIOUS
  <2> DEFINE k == Sent + j
  <2>1. /\ ~(k <= Returned) /\ ~(k <= Begun) /\ ~(k <= Rebuilt) /\ ~(k <= Sent)
        /\ k - Sent = j
    BY <1>4
  <2> HIDE DEF k
  <2>2. Place(k) = OfOutput(launched[j])
    BY <2>1 DEF Place
  <2>3. Place(k)' = OfOutput(launched'[j])
    BY <2>1, <1>3 DEF Place, k
  <2> QED BY <2>2, <2>3 DEF k
<1>6. p \in (Sent + 1)..depth
  BY <1>4, <1>0
<1>7. ASSUME NEW k \in 1..depth, k # p PROVE Place(k)' = Place(k)
  <2>1. CASE k <= Sent
    BY <2>1, <1>2, <1>3 DEF Place
  <2>2. CASE ~(k <= Sent)
    <3>1. k - Sent \in DOMAIN launched \ {i} /\ Sent + (k - Sent) = k
      BY <2>2, <1>4, <1>7, <1>0
    <3>2. launched'[k - Sent] = launched[k - Sent]
      BY <3>1, <1>1
    <3>3. k - Sent \in DOMAIN launched /\ ~(k <= Returned) /\ ~(k <= Begun)
          /\ ~(k <= Rebuilt)
      BY <2>2, <3>1, <1>4
    <3> QED BY <2>2, <3>2, <3>3, <1>2, <1>3 DEF Place
  <2> QED BY <2>1, <2>2
<1>8. ASSUME NEW k \in 1..(p - 1) PROVE Place(k).populated
  <2>1. CASE k <= Sent
    BY <2>1 DEF Place, OfBatch, OfPacket
  <2>2. CASE ~(k <= Sent)
    <3>1. k - Sent \in 1..i - 1 /\ Sent + (k - Sent) = k /\ k - Sent \in DOMAIN launched
      BY <2>2, <1>4, <1>8, <1>0
    <3>2. Place(k) = OfOutput(launched[k - Sent])
      BY <3>1, <1>5
    <3> QED BY <3>1, <3>2, <1>1 DEF OfOutput
  <2> QED BY <2>1, <2>2
<1>9. Place(p) = OfOutput(o) /\ Place(p)' = OfOutput(n)
  BY <1>3, <1>5, <1>0
<1>10. /\ \A r \in DOMAIN o.snapshots : ~o.snapshots[r].populated
       /\ transferred' = held \cup o.running
       /\ n.running = o.running /\ n.finish = o.finish /\ n.recompute = o.recompute
       /\ DOMAIN n.snapshots = DOMAIN o.snapshots
       /\ \A r \in DOMAIN o.snapshots :
            /\ n.snapshots[r].step = o.snapshots[r].step
            /\ n.snapshots[r].populated
            /\ n.snapshots[r].patch_transfer <=> r \in held
       /\ o.running = DOMAIN o.snapshots /\ o.running # {}
  BY <1>1 DEF AllFrozen
<1> HIDE DEF o, n
<1>11. /\ ~OfOutput(o).populated /\ OfOutput(n).populated
       /\ OfOutput(n).out = OfOutput(o).out
       /\ OfOutput(n).drops = OfOutput(o).drops
       /\ OfOutput(n).item = OfOutput(o).item
       /\ OfOutput(n).patched = OfOutput(o).out \cap held
       /\ OfOutput(o).out = o.running
       /\ OfOutput(o).drops = o.finish \cup o.recompute
  BY <1>10 DEF OfOutput
<1>12. AllFrozen'
  BY <1>1, <1>2, <1>10 DEF AllFrozen, o, n
<1>13. held = transferred \ Place(p).drops
  BY <1>9, <1>11
<1> HIDE DEF held
<1>14. /\ ~Place(p).populated
       /\ Place(p)'.populated
       /\ Place(p)'.out = Place(p).out
       /\ Place(p)'.drops = Place(p).drops
       /\ Place(p)'.item = Place(p).item
       /\ Place(p)'.patched = Place(p).out \cap held
       /\ transferred' = held \cup Place(p).out
  BY <1>9, <1>10, <1>11
<1>15. \E x \in (Sent + 1)..depth :
         LET h == transferred \ Place(x).drops
         IN  /\ \A k \in 1..depth \ {x} : Place(k)' = Place(k)
             /\ \A k \in 1..(x - 1) : Place(k).populated
             /\ ~Place(x).populated
             /\ Place(x)'.populated
             /\ Place(x)'.out = Place(x).out
             /\ Place(x)'.drops = Place(x).drops
             /\ Place(x)'.item = Place(x).item
             /\ Place(x)'.patched = Place(x).out \cap h
             /\ transferred' = h \cup Place(x).out
  <2>1. \A k \in 1..depth \ {p} : Place(k)' = Place(k)
    BY <1>7
  <2> USE <1>6
  <2> WITNESS p \in (Sent + 1)..depth
  <2> QED BY <2>1, <1>8, <1>13, <1>14
<1> QED BY <1>3, <1>12, <1>15

\* A packet that is written holds what was frozen, if the requests in it that
\* are whole need no offset.
LEMMA PacketOfOutput ==
  ASSUME EngineType, NEW o \in LaunchedType, o.running = DOMAIN o.snapshots,
         \A r \in DOMAIN o.snapshots : o.snapshots[r].populated,
         \A r \in o.running :
           ~o.snapshots[r].patch_transfer => o.snapshots[r].step.offset = None
  PROVE  LET p == SerializeScheduleOutput(o)
         IN  /\ OfPacket(p) = OfOutput(o)
             /\ DOMAIN p.full = {r \in o.running : ~o.snapshots[r].patch_transfer}
             /\ \A r \in DOMAIN p.full :
                  /\ p.full[r].run = req[r].run
                  /\ p.full[r].embedding = (req[r].infer_stage = "context")
<1> DEFINE p == SerializeScheduleOutput(o)
           patched == {r \in o.running : o.snapshots[r].patch_transfer}
<1>1. {r \in o.running : PatchTransfer(o, r)} = patched
  BY DEF PatchTransfer
<1>2. /\ p.finish = o.finish /\ p.recompute = o.recompute
      /\ DOMAIN p.patches = patched
      /\ DOMAIN p.full = o.running \ patched
      /\ \A r \in DOMAIN p.patches : p.patches[r] = PatchEntry(o, r)
      /\ \A r \in DOMAIN p.full : p.full[r] = FullEntry(o, r)
  BY <1>1, SerializedType
<1> HIDE DEF p
<1>3. ASSUME NEW r \in patched PROVE p.patches[r].step = o.snapshots[r].step
  <2>1. p.patches[r] = PatchEntry(o, r)
    BY <1>2
  <2>2. StepFor(o, r) = o.snapshots[r].step
    BY DEF StepFor
  <2> QED BY <2>1, <2>2 DEF PatchEntry
<1>4. ASSUME NEW r \in o.running \ patched
      PROVE  /\ p.full[r].step = o.snapshots[r].step
             /\ p.full[r].run = req[r].run
             /\ p.full[r].embedding = (req[r].infer_stage = "context")
  <2>1. p.full[r] = FullEntry(o, r)
    BY <1>2
  <2>2. o.snapshots[r].step \in StepType
    <3>1. o.snapshots \in Partial(SnapshotType)
      BY DEF LaunchedType
    <3>2. o.snapshots[r] \in SnapshotType
      BY <3>1, PartialElim
    <3> QED BY <3>2 DEF SnapshotType
  <2>3. o.snapshots[r].step.offset = None
    OBVIOUS
  <2>4. [o.snapshots[r].step EXCEPT !.offset = None] = o.snapshots[r].step
    BY <2>2, <2>3 DEF StepType
  <2>5. StepFor(o, r) = o.snapshots[r].step
    BY DEF StepFor
  <2> QED BY <2>1, <2>4, <2>5 DEF FullEntry
<1>5. Received(p) = o.running
  BY <1>2 DEF Received
<1>6. Steps(p) = [r \in o.running |-> o.snapshots[r].step]
  BY <1>2, <1>3, <1>4, <1>5 DEF Steps
<1>7. (\A r \in DOMAIN o.snapshots : o.snapshots[r].populated) = TRUE
  OBVIOUS
<1>8. OfPacket(p) = OfOutput(o)
  BY <1>2, <1>5, <1>6, <1>7 DEF OfPacket, OfOutput
<1> QED BY <1>2, <1>4, <1>8 DEF p

\* A packet that is written stays at its place, and the outputs behind it move up.
LEMMA PlaceSend ==
  ASSUME TypeInv, PoolInv, AllFrozen, PutSendScheduleOutput,
         \A r \in Head(launched).running :
           ~Head(launched).snapshots[r].patch_transfer =>
             Head(launched).snapshots[r].step.offset = None
  PROVE  /\ Begun' = Begun /\ Sent' = Sent + 1
         /\ \A k \in 1..executor_pipeline_depth : Place(k)' = Place(k)
         /\ AllFrozen'
         /\ \A i \in DOMAIN launched' :
              i + 1 \in DOMAIN launched /\ launched'[i] = launched[i + 1]
<1> DEFINE depth == executor_pipeline_depth
           o == Head(launched)
           p == SerializeScheduleOutput(o)
<1>1. /\ launched # <<>> /\ launched' = Tail(launched)
      /\ packets' = Append(packets, p)
      /\ \A r \in DOMAIN o.snapshots : o.snapshots[r].populated
      /\ UNCHANGED <<objects, pending, batch, results>>
  BY DEF PutSendScheduleOutput, executor
<1>2. o \in LaunchedType
  BY <1>1, HeadTailProperties DEF TypeInv, TransferType
<1>3. /\ o = launched[1] /\ DOMAIN launched' = 1..(Len(launched) - 1)
      /\ \A i \in 1..(Len(launched) - 1) : launched'[i] = launched[i + 1]
      /\ Len(launched) > 0
  BY <1>1, Sizes, SequenceTail
<1>4. /\ depth = Sent + Len(launched) /\ Len(launched) \in Nat /\ Sent \in 0..2
      /\ Returned <= Sent /\ Begun <= Sent /\ Rebuilt <= Sent
      /\ Returned \in 0..2 /\ Begun \in 0..2 /\ Rebuilt \in 0..2
      /\ DOMAIN launched = 1..Len(launched)
  BY DepthIs
<1>5. /\ Len(packets) \in Nat /\ Sent = Rebuilt + Len(packets)
      /\ Len(packets') = Len(packets) + 1
      /\ \A j \in 1..Len(packets) : packets'[j] = packets[j]
      /\ packets'[Len(packets) + 1] = p
  BY <1>1, Sizes, SequenceAppend
<1>6. o.running = DOMAIN o.snapshots
  BY <1>3, <1>4 DEF AllFrozen
<1>7. OfPacket(p) = OfOutput(o)
  BY <1>1, <1>2, <1>6, PacketOfOutput DEF TypeInv
<1> HIDE DEF p, o
<1>8. Returned' = Returned /\ Begun' = Begun /\ Rebuilt' = Rebuilt
  BY <1>1 DEF Returned, Begun, Rebuilt
<1>9. Sent' = Sent + 1
  BY <1>4, <1>5, <1>8 DEF Sent
<1>10. ASSUME NEW k \in 1..depth PROVE Place(k)' = Place(k)
  <2>1. CASE k <= Rebuilt
    BY <2>1, <1>1, <1>8 DEF Place
  <2>2. CASE ~(k <= Rebuilt) /\ k <= Sent
    <3>1. k - Rebuilt \in 1..Len(packets) /\ k <= Sent + 1
      <4>1. k \in Int /\ Len(packets) = Sent - Rebuilt
        BY <1>4, <1>5
      <4> QED BY <2>2, <4>1, <1>4
    <3>2. packets'[k - Rebuilt] = packets[k - Rebuilt] /\ k <= Sent'
      BY <3>1, <1>5, <1>9
    <3> QED BY <2>2, <3>2, <1>1, <1>8 DEF Place
  <2>3. CASE k = Sent + 1
    <3>1. /\ ~(k <= Returned) /\ ~(k <= Begun) /\ ~(k <= Rebuilt) /\ ~(k <= Sent)
          /\ k - Sent = 1 /\ k <= Sent' /\ k - Rebuilt = Len(packets) + 1
      <4>1. Len(packets) = Sent - Rebuilt
        BY <1>4, <1>5
      <4> QED BY <2>3, <4>1, <1>4, <1>9
    <3>2. packets'[k - Rebuilt] = p
      BY <3>1, <1>5
    <3>3. Place(k) = OfOutput(o)
      BY <3>1, <1>3 DEF Place
    <3>4. Place(k)' = OfPacket(p)
      BY <3>1, <3>2, <1>8 DEF Place
    <3> QED BY <3>3, <3>4, <1>7
  <2>4. CASE k > Sent + 1
    <3>1. /\ ~(k <= Returned) /\ ~(k <= Begun) /\ ~(k <= Rebuilt) /\ ~(k <= Sent)
          /\ ~(k <= Sent')
      BY <2>4, <1>4, <1>9
    <3>2. k - Sent' \in 1..(Len(launched) - 1) /\ (k - Sent') + 1 = k - Sent
      BY <2>4, <1>4, <1>9
    <3>3. launched'[k - Sent'] = launched[k - Sent]
      BY <3>2, <1>3
    <3> QED BY <3>1, <3>3, <1>8 DEF Place
  <2> QED BY <2>1, <2>2, <2>3, <2>4, <1>4
<1>11. \A i \in DOMAIN launched' :
         i + 1 \in DOMAIN launched /\ launched'[i] = launched[i + 1]
  BY <1>3, <1>4
<1>12. AllFrozen'
  BY <1>11 DEF AllFrozen
<1> QED BY <1>8, <1>9, <1>10, <1>11, <1>12

\* A packet that is rebuilt is as it was sent.
LEMMA PlaceReceive ==
  ASSUME TypeInv, PoolInv, Receive
  PROVE  /\ Begun' = Begun /\ Sent' = Sent
         /\ \A k \in 1..executor_pipeline_depth : Place(k)' = Place(k)
<1> DEFINE depth == executor_pipeline_depth
           i == FreeScheduleOutputIndex
<1>1. /\ packets # <<>> /\ packets' = Tail(packets)
      /\ UNCHANGED <<launched, batch, results>>
  BY Zenon DEF Receive
<1>2. /\ pending' = Append(pending, i)
      /\ objects'[i] = Head(packets)
      /\ \A j \in ToSet(pending) : objects'[j] = objects[j]
  BY ReceivePool
<1> HIDE DEF i
<1>3. /\ depth = Sent + Len(launched) /\ Sent \in 0..2
      /\ Returned <= Begun /\ Begun <= Rebuilt /\ Rebuilt <= Sent
      /\ Returned \in 0..2 /\ Begun \in 0..2 /\ Rebuilt \in 0..2
  BY DepthIs
<1>4. /\ Len(packets) \in Nat /\ Sent = Rebuilt + Len(packets)
      /\ Len(pending) \in Nat /\ Rebuilt = Begun + Len(pending)
      /\ DOMAIN pending = 1..Len(pending)
  BY Sizes
<1>5. /\ Len(packets') = Len(packets) - 1 /\ Len(packets) > 0
      /\ \A j \in 1..(Len(packets) - 1) : packets'[j] = packets[j + 1]
      /\ Head(packets) = packets[1]
  BY <1>1, Sizes, SequenceTail
<1>6. /\ Len(pending') = Len(pending) + 1
      /\ \A j \in 1..Len(pending) : pending'[j] = pending[j]
      /\ pending'[Len(pending) + 1] = i
  BY <1>2, Sizes, SequenceAppend
<1>7. Returned' = Returned /\ Begun' = Begun
  BY <1>1 DEF Returned, Begun
<1>8. Rebuilt' = Rebuilt + 1
  BY <1>3, <1>4, <1>6, <1>7 DEF Rebuilt
<1>9. Sent' = Sent
  BY <1>3, <1>4, <1>5, <1>8 DEF Sent
<1>10. ASSUME NEW k \in 1..depth PROVE Place(k)' = Place(k)
  <2>1. CASE k <= Begun
    BY <2>1, <1>1, <1>7 DEF Place
  <2>2. CASE ~(k <= Begun) /\ k <= Rebuilt
    <3>1. k - Begun \in 1..Len(pending) /\ ~(k <= Returned) /\ k <= Rebuilt'
      BY <2>2, <1>3, <1>4, <1>8
    <3>2. pending'[k - Begun] = pending[k - Begun] /\ pending[k - Begun] \in ToSet(pending)
      BY <3>1, <1>4, <1>6 DEF ToSet
    <3>3. objects'[pending'[k - Begun]] = objects[pending[k - Begun]]
      BY <3>2, <1>2
    <3> QED BY <2>2, <3>1, <3>3, <1>7 DEF Place
  <2>3. CASE k = Rebuilt + 1
    <3>1. /\ ~(k <= Returned) /\ ~(k <= Begun) /\ ~(k <= Rebuilt) /\ k <= Sent
          /\ k <= Rebuilt' /\ k - Begun = Len(pending) + 1 /\ k - Rebuilt = 1
      BY <2>3, <1>3, <1>4, <1>5, <1>8
    <3>2. objects'[pending'[k - Begun]] = packets[k - Rebuilt]
      BY <3>1, <1>2, <1>5, <1>6
    <3> QED BY <3>1, <3>2, <1>7 DEF Place
  <2>4. CASE k > Rebuilt + 1 /\ k <= Sent
    <3>1. /\ ~(k <= Returned) /\ ~(k <= Begun) /\ ~(k <= Rebuilt) /\ ~(k <= Rebuilt')
          /\ k <= Sent'
      BY <2>4, <1>3, <1>8, <1>9
    <3>2. k - Rebuilt' \in 1..(Len(packets) - 1) /\ (k - Rebuilt') + 1 = k - Rebuilt
      BY <2>4, <1>3, <1>4, <1>8
    <3>3. packets'[k - Rebuilt'] = packets[k - Rebuilt]
      BY <3>2, <1>5
    <3> QED BY <2>4, <3>1, <3>3, <1>7 DEF Place
  <2>5. CASE k > Sent
    <3>1. /\ ~(k <= Returned) /\ ~(k <= Begun) /\ ~(k <= Rebuilt) /\ ~(k <= Sent)
          /\ ~(k <= Rebuilt')
      BY <2>5, <1>3, <1>4, <1>5, <1>8
    <3> QED BY <3>1, <1>1, <1>7, <1>9 DEF Place
  <2> QED BY <2>1, <2>2, <2>3, <2>4, <2>5, <1>3
<1> QED BY <1>7, <1>9, <1>10

\* A packet that is taken up leaves its requests to the batch.
LEMMA PlaceUpdate ==
  ASSUME TypeInv, PoolInv, UpdateCachedRequests,
         Received(objects[Head(pending)]) # {}
  PROVE  LET o == objects[Head(pending)] IN
         /\ PoolInv'
         /\ Begun' = Begun + 1 /\ Sent' = Sent /\ Begun + 1 <= Sent
         /\ Place(Begun + 1) = OfPacket(o)
         /\ Place(Begun)' = OfBatch(Received(o))
         /\ \A k \in 1..executor_pipeline_depth \ {Begun + 1} : Place(k)' = Place(k)
         /\ batch = NoBatch /\ pending # <<>> /\ pending' = Tail(pending)
         /\ \A j \in ToSet(pending') : objects'[j] = objects[j]
<1> DEFINE depth == executor_pipeline_depth
           i == Head(pending)
           o == objects[i]
<1>1. /\ PoolInv'
      /\ batch = NoBatch /\ batch' # NoBatch
      /\ pending # <<>> /\ pending' = Tail(pending)
      /\ Begun' = Begun + 1
      /\ \A j \in ToSet(pending') : objects'[j] = objects[j]
  BY UpdatePool
<1>2. DOMAIN batch' = Received(o)
  BY UpdateType DEF TypeInv
<1>3. UNCHANGED <<results, launched, packets>>
  BY Zenon DEF UpdateCachedRequests, transfer
<1>4. /\ depth = Sent + Len(launched) /\ Sent \in 0..2
      /\ Returned <= Begun /\ Begun <= Rebuilt /\ Rebuilt <= Sent
      /\ Returned \in 0..2 /\ Begun \in 0..2 /\ Rebuilt \in 0..2
  BY DepthIs
<1>5. /\ Len(pending) \in Nat /\ Rebuilt = Begun + Len(pending)
      /\ Len(packets) \in Nat /\ Len(launched) \in Nat
  BY Sizes
<1>6. /\ Len(pending') = Len(pending) - 1 /\ Len(pending) > 0
      /\ DOMAIN pending' = 1..(Len(pending) - 1)
      /\ \A j \in 1..(Len(pending) - 1) : pending'[j] = pending[j + 1]
      /\ i = pending[1]
  BY <1>1, Sizes, SequenceTail
<1>7. Returned' = Returned /\ Begun = Returned
  BY <1>1, <1>3, <1>4 DEF Returned, Begun
<1>8. Rebuilt' = Rebuilt
  BY <1>1, <1>4, <1>5, <1>6 DEF Rebuilt
<1>9. Sent' = Sent
  BY <1>3, <1>8 DEF Sent
<1>10. Begun + 1 <= Sent
  BY <1>4, <1>5, <1>6
<1>11. Place(Begun + 1) = OfPacket(o)
  <2>1. /\ ~(Begun + 1 <= Returned) /\ ~(Begun + 1 <= Begun) /\ Begun + 1 <= Rebuilt
        /\ (Begun + 1) - Begun = 1
    BY <1>4, <1>5, <1>6
  <2> QED BY <2>1, <1>6 DEF Place
<1> HIDE DEF o, i
<1>12. Place(Begun)' = OfBatch(Received(o))
  <2>1. ~(Begun' <= Returned') /\ Begun' <= Begun'
    BY <1>1, <1>4, <1>7
  <2> QED BY <2>1, <1>2 DEF Place
<1>13. ASSUME NEW k \in 1..depth, k # Begun + 1 PROVE Place(k)' = Place(k)
  <2>1. CASE k <= Returned
    BY <2>1, <1>3, <1>7 DEF Place
  <2>2. CASE k > Begun + 1
    <3>1. ~(k <= Returned) /\ ~(k <= Begun) /\ ~(k <= Begun')
      BY <2>2, <1>1, <1>4
    <3>2. CASE k <= Rebuilt
      <4>1. /\ k - Begun' \in 1..(Len(pending) - 1)
            /\ (k - Begun') + 1 = k - Begun
        BY <2>2, <3>2, <1>1, <1>4, <1>5
      <4>2. /\ pending'[k - Begun'] = pending[k - Begun]
            /\ pending'[k - Begun'] \in ToSet(pending')
        BY <4>1, <1>6 DEF ToSet
      <4>3. objects'[pending'[k - Begun']] = objects[pending[k - Begun]]
        BY <4>2, <1>1
      <4> QED BY <3>1, <3>2, <4>3, <1>7, <1>8 DEF Place
    <3>3. CASE ~(k <= Rebuilt)
      BY <3>1, <3>3, <1>3, <1>7, <1>8, <1>9 DEF Place
    <3> QED BY <3>2, <3>3
  <2> QED BY <2>1, <2>2, <1>4, <1>7, <1>13
<1> QED BY <1>1, <1>9, <1>10, <1>11, <1>12, <1>13 DEF o, i

\* An answered batch has the requests it was run with.
LEMMA PlaceReport ==
  ASSUME TypeInv, PoolInv, Report
  PROVE  /\ Begun' = Begun /\ Sent' = Sent
         /\ \A k \in 1..executor_pipeline_depth : Place(k)' = Place(k)
<1>1. /\ results' = Append(results, DOMAIN batch)
      /\ UNCHANGED <<launched, packets, objects, pending>>
  BY Zenon DEF Report, transfer
<1>2. Returned' = Returned + 1 /\ Begun = Returned + 1 /\ Begun' = Begun
  BY ReportPool
<1>3. /\ \A j \in 1..Len(results) : results'[j] = results[j]
      /\ results'[Len(results) + 1] = DOMAIN batch
  BY <1>1, Sizes, SequenceAppend
<1>4. /\ executor_pipeline_depth \in 0..2 /\ Returned = Len(results)
      /\ Returned \in 0..2 /\ Begun \in 0..2
  BY DepthIs, Sizes
<1>5. Rebuilt' = Rebuilt /\ Sent' = Sent
  BY <1>1, <1>2 DEF Rebuilt, Sent
<1>6. ASSUME NEW k \in 1..executor_pipeline_depth PROVE Place(k)' = Place(k)
  <2>1. CASE k <= Returned
    BY <2>1, <1>2, <1>3, <1>4 DEF Place
  <2>2. CASE k = Begun
    BY <2>2, <1>2, <1>3, <1>4 DEF Place
  <2>3. CASE k > Begun
    <3>1. ~(k <= Returned) /\ ~(k <= Begun) /\ ~(k <= Returned')
      BY <2>3, <1>2, <1>4
    <3> QED BY <3>1, <1>1, <1>2, <1>5 DEF Place
  <2> QED BY <2>1, <2>2, <2>3, <1>2, <1>4
<1> QED BY <1>2, <1>5, <1>6

\* Freeing an object touches none that waits.
LEMMA PlaceFree ==
  ASSUME TypeInv, PoolInv, FreeScheduleOutput
  PROVE  /\ Begun' = Begun /\ Sent' = Sent
         /\ \A k \in 1..executor_pipeline_depth : Place(k)' = Place(k)
<1>1. UNCHANGED <<launched, packets, pending, batch, results>>
  BY DEF FreeScheduleOutput, transfer
<1>2. \A j \in ToSet(pending) : objects'[j] = objects[j]
  BY FreePool
<1>3. Returned' = Returned /\ Begun' = Begun /\ Rebuilt' = Rebuilt /\ Sent' = Sent
  BY <1>1 DEF Returned, Begun, Rebuilt, Sent
<1>4. /\ Begun \in 0..2 /\ Rebuilt \in 0..2 /\ Rebuilt = Begun + Len(pending)
      /\ Len(pending) \in Nat /\ DOMAIN pending = 1..Len(pending)
      /\ executor_pipeline_depth \in 0..2
  BY DepthIs, Sizes
<1>5. ASSUME NEW k \in 1..executor_pipeline_depth PROVE Place(k)' = Place(k)
  <2>1. CASE ~(k <= Begun) /\ k <= Rebuilt
    <3>1. k - Begun \in DOMAIN pending
      BY <2>1, <1>4
    <3>2. objects'[pending[k - Begun]] = objects[pending[k - Begun]]
      BY <3>1, <1>2 DEF ToSet
    <3> QED BY <2>1, <3>2, <1>1, <1>3 DEF Place
  <2>2. CASE k <= Begun \/ ~(k <= Rebuilt)
    BY <2>2, <1>1, <1>3 DEF Place
  <2> QED BY <2>1, <2>2
<1> QED BY <1>3, <1>5

-----------------------------------------------------------------------------
(* Which requests are at which place, and what the outputs drop *)

\* 1 if the k-th output under way has a step of request r.
Flights(r, k) == IF k <= executor_pipeline_depth /\ r \in Place(k).out THEN 1 ELSE 0

PlannedHaveTasks == \A r \in planned : HasPlanningTask(r)

StepsInFlight ==
  /\ \A r \in Requests : Len(req[r].inflight) = Flights(r, 1) + Flights(r, 2)
  /\ \A k \in 1..executor_pipeline_depth :
       Place(k).out # {} /\ Place(k).out \subseteq Requests

\* A request that the next output drops has no step in flight, and an output
\* drops none that an earlier one holds.
DroppedIsDrained ==
  \A r \in finish_ids \cup recompute_ids : req[r].inflight = <<>>

DropsNoneBefore ==
  \A i \in 1..executor_pipeline_depth : \A k \in 1..(i - 1) :
    Place(k).out \cap Place(i).drops = {}

FlowInv ==
  /\ AllFrozen
  /\ PlannedHaveTasks
  /\ StepsInFlight
  /\ DroppedIsDrained
  /\ DropsNoneBefore

\* A request has a step in flight as long as an output under way holds it.
LEMMA InFlight ==
  ASSUME TypeInv, PoolInv, FlowInv
  PROVE  \A r \in Requests :
           /\ Len(req[r].inflight) <= 2
           /\ req[r].inflight = <<>> <=>
                \A k \in 1..executor_pipeline_depth : r \notin Place(k).out
<1> SUFFICES ASSUME NEW r \in Requests
             PROVE  /\ Len(req[r].inflight) <= 2
                    /\ req[r].inflight = <<>> <=>
                         \A k \in 1..executor_pipeline_depth : r \notin Place(k).out
  OBVIOUS
<1>1. req[r].inflight = <<>> <=> Len(req[r].inflight) = 0
  <2>1. Sequence(req[r].inflight)
    BY SequenceOver DEF TypeInv, EngineType, ReqType
  <2> QED BY <2>1, SequenceLen
<1>2. executor_pipeline_depth \in 0..2
  BY DepthIs
<1>3. Len(req[r].inflight) = Flights(r, 1) + Flights(r, 2)
  BY DEF FlowInv, StepsInFlight
<1>4. Flights(r, 1) \in 0..1 /\ Flights(r, 2) \in 0..1
  BY DEF Flights
<1>5. Flights(r, 1) + Flights(r, 2) = 0 <=>
        \A k \in 1..executor_pipeline_depth : r \notin Place(k).out
  BY <1>2 DEF Flights
<1>6. Len(req[r].inflight) <= 2
  BY <1>3, <1>4
<1>7. req[r].inflight = <<>> <=> Flights(r, 1) + Flights(r, 2) = 0
  BY <1>1, <1>3
<1> QED BY <1>5, <1>6, <1>7, Zenon

\* At the start no output is under way.
LEMMA InitFlow == Init => FlowInv
<1> SUFFICES ASSUME Init PROVE FlowInv
  OBVIOUS
<1>1. AllFrozen /\ PlannedHaveTasks /\ DroppedIsDrained
  BY SequenceEmpty DEF Init, AllFrozen, PlannedHaveTasks, DroppedIsDrained, NoPlan
<1>2. StepsInFlight
  <2>1. \A r \in Requests : req[r].inflight = <<>>
    BY DEF Init, NewRequest
  <2> QED BY <2>1, SequenceEmpty DEF Init, StepsInFlight, Flights
<1>3. DropsNoneBefore
  BY DEF Init, DropsNoneBefore
<1> QED BY <1>1, <1>2, <1>3 DEF FlowInv

\* Steps that leave every request its steps and every place its requests.
LEMMA FlowFrame ==
  ASSUME TypeInv, PoolInv, FlowInv, AllFrozen', PlannedHaveTasks',
         UNCHANGED <<executor_pipeline_depth, finish_ids, recompute_ids>>,
         \A r \in Requests : req'[r].inflight = req[r].inflight,
         \A k \in 1..executor_pipeline_depth :
           /\ Place(k)'.out = Place(k).out
           /\ Place(k)'.drops \subseteq Place(k).drops
  PROVE  FlowInv'
<1>1. executor_pipeline_depth \in 0..2
  BY DepthIs
<1>2. \A r, k : k \in 1..2 => Flights(r, k)' = Flights(r, k)
  BY <1>1 DEF Flights
<1>3. StepsInFlight'
  BY <1>2 DEF FlowInv, StepsInFlight
<1>4. DroppedIsDrained'
  BY DEF FlowInv, DroppedIsDrained, TypeInv, EngineType
<1>5. DropsNoneBefore'
  <2> SUFFICES ASSUME NEW i \in 1..executor_pipeline_depth, NEW k \in 1..(i - 1)
               PROVE  Place(k)'.out \cap Place(i)'.drops = {}
    BY DEF DropsNoneBefore
  <2>1. k \in 1..executor_pipeline_depth
    BY <1>1
  <2> QED BY <2>1 DEF FlowInv, DropsNoneBefore
<1> QED BY <1>3, <1>4, <1>5 DEF FlowInv

\* What an output is when it has just been launched.
LEMMA LaunchedPlace ==
  ASSUME TypeInv, PoolInv, FlowInv, LaunchScheduleOutput,
         NEW d, d = executor_pipeline_depth
  PROVE  /\ d \in 0..1 /\ executor_pipeline_depth' = d + 1
         /\ Begun' = Begun /\ Sent' = Sent
         /\ \A k \in 1..d : Place(k)' = Place(k)
         /\ Place(d + 1)'.out = Launching(planned)
         /\ Place(d + 1)'.drops = finish_ids \cup recompute_ids
         /\ ~Place(d + 1)'.populated
         /\ \A r \in Launching(planned) :
              /\ r \in Requests /\ ~req[r].ended
              /\ req[r].inflight = <<>> => Place(d + 1)'.item[r].offset = None
         /\ Launching(planned) # {}
         /\ AllFrozen'
<1> DEFINE o == [running |-> planned \ Stopped(planned), finish |-> finish_ids,
                 recompute |-> recompute_ids,
                 snapshots |-> [r \in Launching(planned) |-> Snapshot(req'[r])]]
<1>1. /\ executor_pipeline_depth' = executor_pipeline_depth + 1
      /\ Begun' = Begun /\ Sent' = Sent
      /\ \A k \in 1..executor_pipeline_depth : Place(k)' = Place(k)
      /\ Place(executor_pipeline_depth)' = OfOutput(o)
  BY PlaceLaunch
<1>2. ~PipelineFull /\ Launching(planned) # {}
  BY Zenon DEF LaunchScheduleOutput, IsLaunchable
<1>3. d \in 0..1
  BY <1>2, DepthIs DEF PipelineFull, kExecutorPipelineMaxDepth
<1>4. planned \ Stopped(planned) = Launching(planned)
  BY DEF FlowInv, PlannedHaveTasks, Stopped, Launching
<1>5. \A r \in Launching(planned) :
        /\ r \in Requests /\ ~req[r].ended
        /\ req[r].inflight = <<>> => Snapshot(req'[r]).step.offset = None
  <2>1. \A r \in Launching(planned) : r \in Requests /\ ~req[r].stopped
    BY DEF Launching, TypeInv, EngineType
  <2>2. \A r \in Launching(planned) : ~req[r].ended
    BY <2>1 DEF TypeInv, EngineType, WithinText
  <2>3. \A r \in Launching(planned) :
          req[r].inflight = <<>> => Snapshot(req'[r]).step.offset = None
    BY LaunchType DEF TypeInv
  <2> QED BY <2>1, <2>2, <2>3
<1>6. \A r \in Launching(planned) : ~Snapshot(req'[r]).populated
  BY DEF Snapshot
<1>7. /\ o.running = Launching(planned) /\ DOMAIN o.snapshots = Launching(planned)
      /\ o.finish = finish_ids /\ o.recompute = recompute_ids
      /\ \A r \in Launching(planned) : o.snapshots[r] = Snapshot(req'[r])
  BY <1>4
<1>8. launched' = Append(launched, o)
  BY LaunchType DEF TypeInv
<1> HIDE DEF o
<1>9. /\ OfOutput(o).out = Launching(planned)
      /\ OfOutput(o).drops = finish_ids \cup recompute_ids
      /\ ~OfOutput(o).populated
      /\ \A r \in Launching(planned) :
           OfOutput(o).item[r] = Snapshot(req'[r]).step
  BY <1>2, <1>6, <1>7 DEF OfOutput
<1>10. Place(d + 1)' = OfOutput(o)
  <2>1. executor_pipeline_depth' = d + 1
    BY <1>1
  <2>2. Place(executor_pipeline_depth)' = Place(d + 1)'
    BY <2>1 DEF Place
  <2> QED BY <2>2, <1>1
<1>11. AllFrozen'
  <2>1. /\ DOMAIN launched' = 1..(Len(launched) + 1)
        /\ \A i \in 1..Len(launched) : launched'[i] = launched[i]
        /\ launched'[Len(launched) + 1] = o
        /\ DOMAIN launched = 1..Len(launched) /\ Len(launched) \in Nat
    BY <1>8, Sizes, SequenceAppend
  <2> SUFFICES ASSUME NEW i \in DOMAIN launched'
               PROVE  launched'[i].running = DOMAIN launched'[i].snapshots
    BY DEF AllFrozen
  <2>2. CASE i \in 1..Len(launched)
    BY <2>1, <2>2 DEF FlowInv, AllFrozen
  <2>3. CASE i = Len(launched) + 1
    BY <2>1, <2>3, <1>7
  <2> QED BY <2>1, <2>2, <2>3
<1> QED BY <1>1, <1>2, <1>3, <1>5, <1>9, <1>10, <1>11

\* A launch is one more flight of each of its requests; what it drops has none.
LEMMA FlowLaunch ==
  ASSUME TypeInv, PoolInv, FlowInv, LaunchScheduleOutput
  PROVE  FlowInv'
<1>0. PICK d : d = executor_pipeline_depth
  OBVIOUS
<1> DEFINE S == Launching(planned)
<1>1. /\ d \in 0..1 /\ executor_pipeline_depth' = d + 1
      /\ \A k \in 1..d : Place(k)' = Place(k)
      /\ Place(d + 1)'.out = S
      /\ Place(d + 1)'.drops = finish_ids \cup recompute_ids
      /\ \A r \in S : r \in Requests
      /\ S # {}
      /\ AllFrozen'
  BY <1>0, LaunchedPlace
<1>2. planned' = {} /\ finish_ids' = {} /\ recompute_ids' = {}
  BY Zenon DEF LaunchScheduleOutput, NoPlan
<1>3. /\ \A r \in S : \E kind \in Kinds :
           req'[r].inflight = Append(req[r].inflight, kind)
      /\ \A r \in Requests \ S : req'[r] = req[r]
  BY LaunchType DEF TypeInv
<1> HIDE DEF S
<1>4. ASSUME NEW r \in Requests
      PROVE  Len(req'[r].inflight) = Len(req[r].inflight) + (IF r \in S THEN 1 ELSE 0)
  <2>1. req[r].inflight \in Seq(Kinds)
    BY DEF TypeInv, EngineType, ReqType
  <2>2. CASE r \in S
    <3>1. PICK kind \in Kinds : req'[r].inflight = Append(req[r].inflight, kind)
      BY <2>2, <1>3
    <3> QED BY <2>1, <2>2, <3>1, AppendProperties
  <2>3. CASE r \notin S
    <3>1. Len(req[r].inflight) \in Nat /\ req'[r] = req[r]
      BY <2>1, <2>3, <1>3, LenProperties
    <3> QED BY <2>3, <3>1
  <2> QED BY <2>2, <2>3
<1>5. ASSUME NEW r \in Requests
      PROVE  Flights(r, 1)' + Flights(r, 2)' =
               Flights(r, 1) + Flights(r, 2) + (IF r \in S THEN 1 ELSE 0)
  <2>1. CASE d = 0
    BY <2>1, <1>0, <1>1 DEF Flights
  <2>2. CASE d = 1
    <3>1. Place(1)' = Place(1) /\ Place(2)'.out = S
      BY <2>2, <1>1
    <3> QED BY <2>2, <3>1, <1>0, <1>1 DEF Flights
  <2> QED BY <2>1, <2>2, <1>1
<1>6. StepsInFlight'
  <2>1. \A r \in Requests : Len(req'[r].inflight) = Flights(r, 1)' + Flights(r, 2)'
    <3> SUFFICES ASSUME NEW r \in Requests
                 PROVE  Len(req'[r].inflight) = Flights(r, 1)' + Flights(r, 2)'
      OBVIOUS
    <3>1. Len(req[r].inflight) = Flights(r, 1) + Flights(r, 2)
      BY DEF FlowInv, StepsInFlight
    <3> QED BY <3>1, <1>4, <1>5
  <2>2. ASSUME NEW k \in 1..(d + 1)
        PROVE  Place(k)'.out # {} /\ Place(k)'.out \subseteq Requests
    <3>1. CASE k \in 1..d
      BY <3>1, <1>0, <1>1 DEF FlowInv, StepsInFlight
    <3>2. CASE k = d + 1
      BY <3>2, <1>1
    <3> QED BY <3>1, <3>2, <1>1
  <2> QED BY <2>1, <2>2, <1>1 DEF StepsInFlight
<1>7. DropsNoneBefore'
  <2> SUFFICES ASSUME NEW i \in 1..(d + 1), NEW k \in 1..(i - 1)
               PROVE  Place(k)'.out \cap Place(i)'.drops = {}
    BY <1>1 DEF DropsNoneBefore
  <2>1. k \in 1..d /\ Place(k)' = Place(k)
    BY <1>1
  <2>2. CASE i \in 1..d
    BY <2>1, <2>2, <1>0, <1>1 DEF FlowInv, DropsNoneBefore
  <2>3. CASE i = d + 1
    <3> SUFFICES ASSUME NEW r \in Place(k).out PROVE r \notin finish_ids \cup recompute_ids
      BY <2>1, <2>3, <1>1
    <3>1. r \in Requests /\ req[r].inflight # <<>>
      BY <2>1, <1>0, InFlight DEF FlowInv, StepsInFlight
    <3> QED BY <3>1 DEF FlowInv, DroppedIsDrained
  <2> QED BY <2>2, <2>3, <1>1
<1>8. PlannedHaveTasks' /\ DroppedIsDrained'
  BY <1>2 DEF PlannedHaveTasks, DroppedIsDrained
<1> QED BY <1>1, <1>6, <1>7, <1>8 DEF FlowInv

\* What comes back is taken off the flights of its requests.
LEMMA FlowReturn ==
  ASSUME TypeInv, PoolInv, FlowInv, UpdateWithGenerationResult
  PROVE  FlowInv'
<1>0. PICK d : d = executor_pipeline_depth
  OBVIOUS
<1> DEFINE back == {r \in Head(results) : req[r].inflight # <<>>}
<1>1. /\ d \in 1..2 /\ executor_pipeline_depth' = d - 1
      /\ \A k \in 1..(d - 1) : Place(k)' = Place(k + 1)
      /\ Place(1).out = Head(results)
  BY <1>0, PlaceReturn DEF OfBatch
<1>2. /\ finish_ids' = finish_ids \cup
           {r \in back : req'[r].ended /\ req'[r].inflight = <<>>}
      /\ UNCHANGED <<planned, recompute_ids, launched>>
  BY Zenon DEF UpdateWithGenerationResult, transfer
<1>3. /\ \A r \in back : req'[r].inflight = Tail(req[r].inflight)
      /\ \A r \in Requests \ back : req'[r] = req[r]
      /\ \A r \in Requests : req'[r].task = req[r].task
  BY ReturnType DEF TypeInv, ExecutorType
<1>4. back = Place(1).out /\ back \subseteq Requests
  <2>1. Place(1).out \subseteq Requests
    BY <1>0, <1>1 DEF FlowInv, StepsInFlight
  <2>2. \A r \in Place(1).out : req[r].inflight # <<>>
    BY <2>1, <1>0, <1>1, InFlight
  <2> QED BY <2>1, <2>2, <1>1
<1>5. \A r \in back : req[r].inflight # <<>>
  OBVIOUS
<1> HIDE DEF back
<1>6. ASSUME NEW r \in Requests
      PROVE  Len(req'[r].inflight) = Len(req[r].inflight) - (IF r \in back THEN 1 ELSE 0)
  <2>1. req[r].inflight \in Seq(Kinds)
    BY DEF TypeInv, EngineType, ReqType
  <2>2. CASE r \in back
    <3>1. req'[r].inflight = Tail(req[r].inflight) /\ req[r].inflight # <<>>
      BY <2>2, <1>3, <1>5
    <3> QED BY <2>1, <2>2, <3>1, HeadTailProperties
  <2>3. CASE r \notin back
    <3>1. Len(req[r].inflight) \in Nat /\ req'[r] = req[r]
      BY <2>1, <2>3, <1>3, LenProperties
    <3> QED BY <2>3, <3>1
  <2> QED BY <2>2, <2>3
<1>7. ASSUME NEW r \in Requests
      PROVE  Flights(r, 1)' + Flights(r, 2)' =
               (Flights(r, 1) + Flights(r, 2)) - (IF r \in back THEN 1 ELSE 0)
  <2>1. CASE d = 1
    BY <2>1, <1>0, <1>1, <1>4 DEF Flights
  <2>2. CASE d = 2
    <3>1. Place(1)' = Place(2)
      BY <2>2, <1>1
    <3> QED BY <2>2, <3>1, <1>0, <1>1, <1>4 DEF Flights
  <2> QED BY <2>1, <2>2, <1>1
<1>8. StepsInFlight'
  <2>1. \A r \in Requests : Len(req'[r].inflight) = Flights(r, 1)' + Flights(r, 2)'
    <3> SUFFICES ASSUME NEW r \in Requests
                 PROVE  Len(req'[r].inflight) = Flights(r, 1)' + Flights(r, 2)'
      OBVIOUS
    <3>1. Len(req[r].inflight) = Flights(r, 1) + Flights(r, 2)
      BY DEF FlowInv, StepsInFlight
    <3> QED BY <3>1, <1>6, <1>7
  <2>2. \A k \in 1..(d - 1) : k + 1 \in 1..d
    BY <1>1
  <2> QED BY <2>1, <2>2, <1>0, <1>1 DEF FlowInv, StepsInFlight
<1>9. DroppedIsDrained'
  <2> SUFFICES ASSUME NEW r \in finish_ids' \cup recompute_ids'
               PROVE  req'[r].inflight = <<>>
    BY DEF DroppedIsDrained
  <2>1. CASE r \in finish_ids \cup recompute_ids
    <3>1. r \in Requests /\ req[r].inflight = <<>>
      BY <2>1 DEF FlowInv, DroppedIsDrained, TypeInv, EngineType
    <3> QED BY <3>1, <1>3, <1>5
  <2> QED BY <2>1, <1>2
<1>10. DropsNoneBefore'
  <2> SUFFICES ASSUME NEW i \in 1..(d - 1), NEW k \in 1..(i - 1)
               PROVE  Place(k)'.out \cap Place(i)'.drops = {}
    BY <1>1 DEF DropsNoneBefore
  <2>1. /\ Place(k)' = Place(k + 1) /\ Place(i)' = Place(i + 1)
        /\ i + 1 \in 1..d /\ k + 1 \in 1..((i + 1) - 1)
    BY <1>1
  <2> QED BY <2>1, <1>0 DEF FlowInv, DropsNoneBefore
<1>11. PlannedHaveTasks' /\ AllFrozen'
  BY <1>2, <1>3 DEF FlowInv, PlannedHaveTasks, HasPlanningTask, AllFrozen, TypeInv,
                    EngineType
<1> QED BY <1>8, <1>9, <1>10, <1>11 DEF FlowInv

\* Only a request without a step in flight is recomputed.
LEMMA FlowRecompute ==
  ASSUME TypeInv, PoolInv, FlowInv, NEW r \in Requests, Recompute(r)
  PROVE  FlowInv'
<1>1. /\ req[r].inflight = <<>> /\ r \notin planned
      /\ recompute_ids' = recompute_ids \cup {r}
      /\ UNCHANGED <<executor_pipeline_depth, planned, finish_ids, launched,
                     packets, objects, pending, batch, results>>
  BY DEF Recompute, transfer, executor
<1>2. /\ req'[r].inflight = <<>>
      /\ \A x \in Requests \ {r} : req'[x] = req[x]
  BY RecomputeType DEF TypeInv
<1>3. \A k : Place(k)' = Place(k)
  BY <1>1, PlaceFrame
<1>4. StepsInFlight'
  <2>1. \A x, k : Flights(x, k)' = Flights(x, k)
    BY <1>1, <1>3 DEF Flights
  <2>2. \A x \in Requests : req'[x].inflight = req[x].inflight
    BY <1>1, <1>2
  <2> QED BY <2>1, <2>2, <1>1, <1>3 DEF FlowInv, StepsInFlight
<1>5. DropsNoneBefore'
  BY <1>1, <1>3 DEF FlowInv, DropsNoneBefore
<1>6. DroppedIsDrained'
  BY <1>1, <1>2 DEF FlowInv, DroppedIsDrained, TypeInv, EngineType
<1>7. PlannedHaveTasks' /\ AllFrozen'
  <2>1. \A x \in planned : req'[x] = req[x]
    BY <1>1, <1>2 DEF TypeInv, EngineType
  <2> QED BY <2>1, <1>1 DEF FlowInv, PlannedHaveTasks, HasPlanningTask, AllFrozen
<1> QED BY <1>4, <1>5, <1>6, <1>7 DEF FlowInv

-----------------------------------------------------------------------------
(* What the Executor will hold, and what it is therefore sent *)

\* The requests the Executor has cached when it comes to the k-th output.
Held(k) ==
  {r \in DOMAIN cached : \A i \in 1..(k - 1) : r \notin Place(i).drops}
    \cup UNION {Place(j).out : j \in 1..(k - 1)}

BatchesAreCached == \A k \in 1..Begun : Place(k).out \subseteq DOMAIN cached

\* The modes are set in the order of the launches, and transferred is what the
\* Executor will hold behind the last output that has one.
ModesInOrder ==
  \E m \in 0..executor_pipeline_depth :
    /\ \A k \in 1..executor_pipeline_depth : Place(k).populated <=> k <= m
    /\ transferred = Held(m + 1)

\* A patch is sent of a request that is held then, and only of one.
PatchedAreHeld ==
  \A k \in (Begun + 1)..executor_pipeline_depth : Place(k).populated =>
    Place(k).patched = Place(k).out \cap (Held(k) \ Place(k).drops)

\* What will be sent whole is at its first step: in the context stage, without
\* a placeholder, and in no output before.
NewAreFirst ==
  \A k \in (Sent + 1)..executor_pipeline_depth :
    \A r \in Place(k).out : r \notin Held(k) \ Place(k).drops =>
      /\ req[r].infer_stage = "context"
      /\ Place(k).item[r].offset = None
      /\ \A j \in 1..(k - 1) : r \notin Place(j).out

\* A request that has left the context stage is held.
DecodesAreHeld ==
  \A r \in Requests : req[r].infer_stage # "context" /\ ~req[r].ended =>
    /\ r \in Held(executor_pipeline_depth + 1)
    /\ r \notin finish_ids \cup recompute_ids

HeldInv ==
  /\ BatchesAreCached
  /\ ModesInOrder
  /\ PatchedAreHeld
  /\ NewAreFirst
  /\ DecodesAreHeld

\* At the start the Executor holds nothing, and every request is new.
LEMMA InitHeld == Init => HeldInv
<1> SUFFICES ASSUME Init PROVE HeldInv
  OBVIOUS
<1>1. /\ executor_pipeline_depth = 0 /\ Begun = 0 /\ transferred = {}
      /\ DOMAIN cached = {} /\ Sent \in Nat
  BY SequenceEmpty DEF Init, Returned, Begun, Rebuilt, Sent
<1>2. Held(1) = {}
  BY <1>1 DEF Held
<1>3. ModesInOrder
  BY <1>1, <1>2 DEF ModesInOrder
<1>4. DecodesAreHeld
  BY DEF Init, DecodesAreHeld, NewRequest
<1>5. BatchesAreCached /\ PatchedAreHeld /\ NewAreFirst
  BY <1>1 DEF BatchesAreCached, PatchedAreHeld, NewAreFirst
<1> QED BY <1>3, <1>4, <1>5 DEF HeldInv

\* Steps that leave the cache and the places alone; a packet that is written
\* only has to do less.
LEMMA HeldFrame ==
  ASSUME TypeInv, PoolInv, HeldInv,
         UNCHANGED <<executor_pipeline_depth, transferred, cached>>,
         Begun' = Begun, Sent' \in {Sent, Sent + 1},
         \A k \in 1..executor_pipeline_depth : Place(k)' = Place(k),
         \A r \in Requests : req'[r].infer_stage = req[r].infer_stage
                          /\ req'[r].ended = req[r].ended,
         UNCHANGED <<finish_ids, recompute_ids>>,
         \A k \in 1..executor_pipeline_depth : Place(k).out \subseteq Requests
  PROVE  HeldInv'
<1>0. PICK d : d = executor_pipeline_depth
  OBVIOUS
<1>1. d \in 0..2 /\ Begun \in 0..2 /\ Sent \in 0..2 /\ Begun <= d
  BY <1>0, DepthIs
<1>2. ASSUME NEW k \in 1..(d + 1) PROVE Held(k)' = Held(k)
  <2>1. \A i \in 1..(k - 1) : Place(i)' = Place(i)
    BY <1>0, <1>1
  <2> QED BY <2>1 DEF Held
<1>3. BatchesAreCached'
  BY <1>0, <1>1 DEF HeldInv, BatchesAreCached
<1>4. ModesInOrder'
  <2>1. PICK m \in 0..d :
          /\ \A k \in 1..d : Place(k).populated <=> k <= m
          /\ transferred = Held(m + 1)
    BY <1>0 DEF HeldInv, ModesInOrder
  <2>2. transferred' = Held(m + 1)'
    BY <2>1, <1>1, <1>2
  <2>3. \A k \in 1..d : Place(k)'.populated <=> k <= m
    BY <2>1, <1>0
  <2> QED BY <2>2, <2>3, <1>0 DEF ModesInOrder
<1>5. PatchedAreHeld'
  <2> SUFFICES ASSUME NEW k \in (Begun + 1)..d, Place(k)'.populated
               PROVE  Place(k)'.patched =
                        Place(k)'.out \cap (Held(k)' \ Place(k)'.drops)
    BY <1>0 DEF PatchedAreHeld
  <2>1. k \in 1..d /\ k \in 1..(d + 1)
    BY <1>1
  <2> QED BY <2>1, <1>0, <1>2 DEF HeldInv, PatchedAreHeld
<1>6. NewAreFirst'
  <2> SUFFICES ASSUME NEW k \in (Sent' + 1)..d, NEW r \in Place(k)'.out,
                      r \notin Held(k)' \ Place(k)'.drops
               PROVE  /\ req'[r].infer_stage = "context"
                      /\ Place(k)'.item[r].offset = None
                      /\ \A j \in 1..(k - 1) : r \notin Place(j)'.out
    BY <1>0 DEF NewAreFirst
  <2>1. k \in (Sent + 1)..d /\ k \in 1..d /\ k \in 1..(d + 1)
    <3>1. CASE Sent' = Sent
      BY <3>1, <1>1
    <3>2. CASE Sent' = Sent + 1
      <4>1. k \in ((Sent + 1) + 1)..d
        BY <3>2
      <4> QED BY <4>1, <1>1
    <3> QED BY <3>1, <3>2
  <2>2. Place(k)' = Place(k) /\ Held(k)' = Held(k)
    BY <2>1, <1>0, <1>2
  <2>3. /\ req[r].infer_stage = "context"
        /\ Place(k).item[r].offset = None
        /\ \A j \in 1..(k - 1) : r \notin Place(j).out
    BY <2>1, <2>2, <1>0 DEF HeldInv, NewAreFirst
  <2>4. \A j \in 1..(k - 1) : Place(j)' = Place(j)
    BY <2>1, <1>0, <1>1
  <2>5. r \in Requests
    BY <2>1, <2>2, <1>0
  <2> QED BY <2>2, <2>3, <2>4, <2>5
<1>7. DecodesAreHeld'
  <2>1. Held(d + 1)' = Held(d + 1)
    BY <1>1, <1>2
  <2> QED BY <2>1, <1>0 DEF HeldInv, DecodesAreHeld
<1> QED BY <1>3, <1>4, <1>5, <1>6, <1>7 DEF HeldInv

\* What is held behind an output: what was before and is not dropped, and what
\* it brings.
LEMMA HeldNext ==
  ASSUME TypeInv, PoolInv, FlowInv, NEW k \in 1..executor_pipeline_depth
  PROVE  Held(k + 1) = (Held(k) \ Place(k).drops) \cup Place(k).out
<1>1. executor_pipeline_depth \in 0..2 /\ k \in Nat
  BY DepthIs
<1>2. 1..((k + 1) - 1) = (1..(k - 1)) \cup {k}
  BY <1>1
<1>3. \A j \in 1..(k - 1) : Place(j).out \cap Place(k).drops = {}
  BY DEF FlowInv, DropsNoneBefore
<1>4. \A r : r \in Held(k + 1) <=>
               \/ /\ r \in DOMAIN cached /\ r \notin Place(k).drops
                  /\ \A i \in 1..(k - 1) : r \notin Place(i).drops
               \/ \E j \in 1..(k - 1) : r \in Place(j).out
               \/ r \in Place(k).out
  BY <1>2 DEF Held
<1>5. \A r : r \in Held(k) <=>
               \/ /\ r \in DOMAIN cached
                  /\ \A i \in 1..(k - 1) : r \notin Place(i).drops
               \/ \E j \in 1..(k - 1) : r \in Place(j).out
  BY DEF Held
<1> QED BY <1>3, <1>4, <1>5

\* A request that is launched and not held starts: it has no step in flight, so
\* no output under way holds it, and its last token is known.
LEMMA HeldLaunch ==
  ASSUME TypeInv, PoolInv, FlowInv, HeldInv, LaunchScheduleOutput
  PROVE  HeldInv'
<1>0. PICK d : d = executor_pipeline_depth
  OBVIOUS
<1> DEFINE S == Launching(planned)
<1>1. /\ d \in 0..1 /\ executor_pipeline_depth' = d + 1
      /\ Begun' = Begun /\ Sent' = Sent
      /\ \A k \in 1..d : Place(k)' = Place(k)
      /\ Place(d + 1)'.out = S
      /\ Place(d + 1)'.drops = finish_ids \cup recompute_ids
      /\ ~Place(d + 1)'.populated
      /\ \A r \in S :
           /\ r \in Requests /\ ~req[r].ended
           /\ req[r].inflight = <<>> => Place(d + 1)'.item[r].offset = None
  BY <1>0, LaunchedPlace
<1> HIDE DEF S
<1>2. /\ finish_ids' = {} /\ recompute_ids' = {}
      /\ UNCHANGED <<transferred, cached>>
  BY Zenon DEF LaunchScheduleOutput, executor
<1>3. \A r \in Requests : req'[r].infer_stage = req[r].infer_stage
                       /\ req'[r].ended = req[r].ended
  BY LaunchType DEF TypeInv
<1>4. Begun \in 0..2 /\ Sent \in 0..2 /\ Begun <= d /\ Sent <= d
  BY <1>0, DepthIs
<1>5. ASSUME NEW k \in 1..(d + 1) PROVE Held(k)' = Held(k)
  <2>1. \A i \in 1..(k - 1) : Place(i)' = Place(i)
    BY <1>1
  <2> QED BY <2>1, <1>2 DEF Held
<1>6. \A k \in 1..d : Place(k).out \subseteq Requests
  BY <1>0 DEF FlowInv, StepsInFlight
<1>7. BatchesAreCached'
  <2>1. \A k \in 1..Begun : Place(k)' = Place(k)
    BY <1>1, <1>4
  <2> QED BY <2>1, <1>1, <1>2 DEF HeldInv, BatchesAreCached
<1>8. ModesInOrder'
  <2>1. PICK m \in 0..d :
          /\ \A k \in 1..d : Place(k).populated <=> k <= m
          /\ transferred = Held(m + 1)
    BY <1>0 DEF HeldInv, ModesInOrder
  <2>2. transferred' = Held(m + 1)'
    BY <2>1, <1>1, <1>2, <1>5
  <2>3. \A k \in 1..(d + 1) : Place(k)'.populated <=> k <= m
    <3> SUFFICES ASSUME NEW k \in 1..(d + 1) PROVE Place(k)'.populated <=> k <= m
      OBVIOUS
    <3>1. CASE k \in 1..d
      BY <3>1, <2>1, <1>1
    <3>2. CASE k = d + 1
      <4>1. ~(k <= m)
        BY <3>2, <1>1
      <4> QED BY <4>1, <3>2, <1>1
    <3> QED BY <3>1, <3>2, <1>1
  <2>4. m \in 0..(d + 1)
    BY <1>1
  <2> QED BY <2>2, <2>3, <2>4, <1>1 DEF ModesInOrder
<1>9. PatchedAreHeld'
  <2> SUFFICES ASSUME NEW k \in (Begun + 1)..(d + 1), Place(k)'.populated
               PROVE  Place(k)'.patched =
                        Place(k)'.out \cap (Held(k)' \ Place(k)'.drops)
    BY <1>1 DEF PatchedAreHeld
  <2>1. k \in 1..(d + 1) /\ k # d + 1
    BY <1>1, <1>4
  <2>2. k \in 1..d /\ k \in (Begun + 1)..d
    BY <2>1, <1>1, <1>4
  <2> QED BY <2>1, <2>2, <1>0, <1>1, <1>5 DEF HeldInv, PatchedAreHeld
<1>10. NewAreFirst'
  <2> SUFFICES ASSUME NEW k \in (Sent + 1)..(d + 1), NEW r \in Place(k)'.out,
                      r \notin Held(k)' \ Place(k)'.drops
               PROVE  /\ req'[r].infer_stage = "context"
                      /\ Place(k)'.item[r].offset = None
                      /\ \A j \in 1..(k - 1) : r \notin Place(j)'.out
    BY <1>1 DEF NewAreFirst
  <2>1. k \in 1..(d + 1) /\ \A j \in 1..(k - 1) : Place(j)' = Place(j)
    BY <1>1, <1>4
  <2>2. CASE k \in 1..d
    <3>1. k \in (Sent + 1)..d /\ Place(k)' = Place(k) /\ Held(k)' = Held(k)
      BY <2>2, <1>1, <1>4, <1>5
    <3>2. /\ req[r].infer_stage = "context"
          /\ Place(k).item[r].offset = None
          /\ \A j \in 1..(k - 1) : r \notin Place(j).out
      BY <3>1, <1>0 DEF HeldInv, NewAreFirst
    <3>3. r \in Requests
      BY <2>2, <3>1, <1>6
    <3> QED BY <2>1, <3>1, <3>2, <3>3, <1>3
  <2>3. CASE k = d + 1
    <3>1. r \in S /\ r \in Requests /\ ~req[r].ended
      BY <2>3, <1>1
    <3>2. r \notin Held(d + 1) \/ r \in finish_ids \cup recompute_ids
      BY <2>1, <2>3, <1>1, <1>5
    <3>3. req[r].infer_stage = "context"
      BY <3>1, <3>2, <1>0 DEF HeldInv, DecodesAreHeld
    <3>4. req[r].inflight = <<>>
      <4>1. CASE r \in finish_ids \cup recompute_ids
        BY <4>1 DEF FlowInv, DroppedIsDrained
      <4>2. CASE r \notin Held(d + 1)
        <5>1. \A j \in 1..d : r \notin Place(j).out
          <6>1. 1..((d + 1) - 1) = 1..d
            BY <1>1
          <6> QED BY <4>2, <6>1 DEF Held
        <5> QED BY <5>1, <3>1, <1>0, InFlight
      <4> QED BY <3>2, <4>1, <4>2
    <3>5. \A j \in 1..d : r \notin Place(j).out
      BY <3>1, <3>4, <1>0, InFlight
    <3>6. 1..(k - 1) = 1..d
      BY <2>3, <1>1
    <3> QED BY <2>1, <2>3, <3>1, <3>3, <3>4, <3>5, <3>6, <1>1, <1>3
  <2> QED BY <2>1, <2>2, <2>3, <1>1
<1>11. DecodesAreHeld'
  <2> SUFFICES ASSUME NEW r \in Requests,
                      req'[r].infer_stage # "context" /\ ~req'[r].ended
               PROVE  r \in Held(d + 2)'
    <3>1. executor_pipeline_depth' + 1 = d + 2
      BY <1>1
    <3> QED BY <3>1, <1>2 DEF DecodesAreHeld, Held
  <2>1. r \in Held(d + 1) /\ r \notin finish_ids \cup recompute_ids
    BY <1>0, <1>3 DEF HeldInv, DecodesAreHeld
  <2>2. 1..((d + 2) - 1) = (1..d) \cup {d + 1} /\ 1..((d + 1) - 1) = 1..d
    BY <1>1
  <2>3. \/ r \in DOMAIN cached /\ \A i \in 1..d : r \notin Place(i).drops
        \/ \E j \in 1..d : r \in Place(j).out
    BY <2>1, <2>2 DEF Held
  <2>4. \/ r \in DOMAIN cached' /\ \A i \in 1..(d + 2) - 1 : r \notin Place(i)'.drops
        \/ \E j \in 1..(d + 2) - 1 : r \in Place(j)'.out
    BY <2>1, <2>2, <2>3, <1>1, <1>2
  <2> QED BY <2>4 DEF Held
<1> QED BY <1>7, <1>8, <1>9, <1>10, <1>11 DEF HeldInv

\* What comes back was held, as it will be behind all that follow.
LEMMA HeldReturn ==
  ASSUME TypeInv, PoolInv, FlowInv, HeldInv, UpdateWithGenerationResult
  PROVE  HeldInv'
<1>0. PICK d : d = executor_pipeline_depth
  OBVIOUS
<1> DEFINE back == {r \in Head(results) : req[r].inflight # <<>>}
<1>1. /\ d \in 1..2 /\ executor_pipeline_depth' = d - 1
      /\ Begun' = Begun - 1 /\ Sent' = Sent - 1
      /\ \A k \in 1..(d - 1) : Place(k)' = Place(k + 1)
      /\ Place(1).out = Head(results) /\ Place(1).drops = {}
      /\ Place(1).populated
  BY <1>0, PlaceReturn DEF OfBatch
<1>2. /\ finish_ids' = finish_ids \cup
           {r \in back : req'[r].ended /\ req'[r].inflight = <<>>}
      /\ UNCHANGED <<recompute_ids, transferred, cached>>
  BY Zenon DEF UpdateWithGenerationResult, transfer, executor
<1>3. \A r \in Requests \ back : req'[r] = req[r]
  BY ReturnType DEF TypeInv, ExecutorType
<1>4. back \subseteq Place(1).out
  BY <1>1
<1> HIDE DEF back
<1>5. Begun \in 1..2 /\ Sent \in 0..2 /\ Begun <= d /\ Sent <= d /\ Begun <= Sent
  <2>1. Returned > 0 /\ Returned \in 0..2 /\ Returned <= Begun
    BY PlaceReturn, DepthIs
  <2> QED BY <2>1, <1>0, DepthIs
<1>6. \A k \in 1..d : Place(k).out \subseteq Requests
  BY <1>0 DEF FlowInv, StepsInFlight
<1>7. Place(1).out \subseteq DOMAIN cached
  BY <1>5 DEF HeldInv, BatchesAreCached
<1>8. ASSUME NEW k \in 1..d PROVE Held(k)' = Held(k + 1)
  <2>1. \A i \in 1..(k - 1) : i + 1 \in 2..k /\ Place(i)' = Place(i + 1)
    BY <1>1
  <2>2. \A i \in 2..k : i - 1 \in 1..(k - 1) /\ (i - 1) + 1 = i
    BY <1>1
  <2>3. 1..((k + 1) - 1) = {1} \cup (2..k)
    BY <1>1
  <2>4. \A i \in 2..k : Place(1).out \cap Place(i).drops = {}
    <3> SUFFICES ASSUME NEW i \in 2..k PROVE Place(1).out \cap Place(i).drops = {}
      OBVIOUS
    <3>1. i \in 1..d /\ 1 \in 1..(i - 1)
      BY <1>1
    <3> QED BY <3>1, <1>0 DEF FlowInv, DropsNoneBefore
  <2>5. \A r : r \in Held(k)' <=>
                 \/ r \in DOMAIN cached /\ \A i \in 2..k : r \notin Place(i).drops
                 \/ \E j \in 2..k : r \in Place(j).out
    <3>1. \A r : r \in Held(k)' <=>
                   \/ r \in DOMAIN cached /\ \A i \in 1..(k - 1) : r \notin Place(i)'.drops
                   \/ \E j \in 1..(k - 1) : r \in Place(j)'.out
      BY <1>2 DEF Held
    <3>2. \A r : (\A i \in 1..(k - 1) : r \notin Place(i)'.drops)
                   <=> (\A i \in 2..k : r \notin Place(i).drops)
      BY <2>1, <2>2
    <3>3. \A r : (\E i \in 1..(k - 1) : r \in Place(i)'.out)
                   <=> (\E i \in 2..k : r \in Place(i).out)
      BY <2>1, <2>2
    <3> QED BY <3>1, <3>2, <3>3
  <2>6. \A r : r \in Held(k + 1) <=>
                 \/ r \in DOMAIN cached /\ \A i \in 2..k : r \notin Place(i).drops
                 \/ \E j \in 2..k : r \in Place(j).out
    <3>1. \A r : r \in Held(k + 1) <=>
                   \/ /\ r \in DOMAIN cached /\ r \notin Place(1).drops
                      /\ \A i \in 2..k : r \notin Place(i).drops
                   \/ r \in Place(1).out
                   \/ \E j \in 2..k : r \in Place(j).out
      BY <2>3 DEF Held
    <3> QED BY <3>1, <2>4, <1>1, <1>7
  <2> QED BY <2>5, <2>6
<1>9. BatchesAreCached'
  <2> SUFFICES ASSUME NEW k \in 1..(Begun - 1) PROVE Place(k)'.out \subseteq DOMAIN cached
    BY <1>1, <1>2 DEF BatchesAreCached
  <2>1. k \in 1..(d - 1) /\ k + 1 \in 1..Begun
    BY <1>1, <1>5
  <2> QED BY <2>1, <1>1 DEF HeldInv, BatchesAreCached
<1>10. ModesInOrder'
  <2>1. PICK m \in 0..d :
          /\ \A k \in 1..d : Place(k).populated <=> k <= m
          /\ transferred = Held(m + 1)
    BY <1>0 DEF HeldInv, ModesInOrder
  <2>2. m \in 1..d
    BY <2>1, <1>1
  <2>3. \A k \in 1..(d - 1) : Place(k)'.populated <=> k <= m - 1
    <3> SUFFICES ASSUME NEW k \in 1..(d - 1) PROVE Place(k)'.populated <=> k <= m - 1
      OBVIOUS
    <3>1. k + 1 \in 1..d /\ (k + 1 <= m <=> k <= m - 1)
      BY <2>2, <1>1
    <3> QED BY <3>1, <2>1, <1>1
  <2>4. transferred' = Held((m - 1) + 1)'
    <3>1. (m - 1) + 1 = m
      BY <2>2
    <3>2. Held(m)' = Held(m + 1)
      BY <2>2, <1>8
    <3>3. Held((m - 1) + 1)' = Held(m)'
      BY <3>1
    <3> QED BY <3>2, <3>3, <2>1, <1>2
  <2>5. m - 1 \in 0..(d - 1)
    BY <2>2, <1>1
  <2> QED BY <2>3, <2>4, <2>5, <1>1 DEF ModesInOrder
<1>11. PatchedAreHeld'
  <2> SUFFICES ASSUME NEW k \in ((Begun - 1) + 1)..(d - 1), Place(k)'.populated
               PROVE  Place(k)'.patched =
                        Place(k)'.out \cap (Held(k)' \ Place(k)'.drops)
    BY <1>1 DEF PatchedAreHeld
  <2>1. k \in 1..(d - 1) /\ k \in 1..d /\ k + 1 \in (Begun + 1)..d
    BY <1>1, <1>5
  <2> QED BY <2>1, <1>0, <1>1, <1>8 DEF HeldInv, PatchedAreHeld
<1>12. NewAreFirst'
  <2> SUFFICES ASSUME NEW k \in ((Sent - 1) + 1)..(d - 1), NEW r \in Place(k)'.out,
                      r \notin Held(k)' \ Place(k)'.drops
               PROVE  /\ req'[r].infer_stage = "context"
                      /\ Place(k)'.item[r].offset = None
                      /\ \A j \in 1..(k - 1) : r \notin Place(j)'.out
    BY <1>1 DEF NewAreFirst
  <2>1. /\ k \in 1..(d - 1) /\ k \in 1..d /\ k + 1 \in (Sent + 1)..d /\ k + 1 \in 1..d
        /\ 1 \in 1..((k + 1) - 1)
        /\ \A j \in 1..(k - 1) : j \in 1..(d - 1) /\ j + 1 \in 1..((k + 1) - 1)
    BY <1>1, <1>5
  <2>2. Place(k)' = Place(k + 1) /\ Held(k)' = Held(k + 1)
    BY <2>1, <1>1, <1>8
  <2>3. /\ req[r].infer_stage = "context"
        /\ Place(k + 1).item[r].offset = None
        /\ \A j \in 1..((k + 1) - 1) : r \notin Place(j).out
    BY <2>1, <2>2, <1>0 DEF HeldInv, NewAreFirst
  <2>4. req'[r] = req[r]
    <3>1. r \notin Place(1).out
      BY <2>1, <2>3
    <3>2. r \in Requests
      BY <2>1, <2>2, <1>6
    <3> QED BY <3>1, <3>2, <1>3, <1>4
  <2>5. \A j \in 1..(k - 1) : r \notin Place(j)'.out
    BY <2>1, <2>3, <1>1
  <2> QED BY <2>2, <2>3, <2>4, <2>5
<1>13. DecodesAreHeld'
  <2> SUFFICES ASSUME NEW r \in Requests,
                      req'[r].infer_stage # "context" /\ ~req'[r].ended
               PROVE  r \in Held(d)' /\ r \notin finish_ids' \cup recompute_ids'
    <3>1. executor_pipeline_depth' + 1 = d
      BY <1>1
    <3> QED BY <3>1 DEF DecodesAreHeld, Held
  <2>1. Held(d)' = Held(d + 1)
    BY <1>1, <1>8
  <2>2. r \notin finish_ids' \/ r \in finish_ids
    BY <1>2
  <2>3. CASE r \notin back
    <3>1. req'[r] = req[r]
      BY <2>3, <1>3
    <3> QED BY <2>1, <2>2, <3>1, <1>0, <1>2 DEF HeldInv, DecodesAreHeld
  <2>4. CASE r \in back
    <3>1. r \in Place(1).out /\ 1 \in 1..((d + 1) - 1) /\ 1 \in 1..d
      BY <2>4, <1>1, <1>4
    <3>2. r \in Held(d + 1)
      BY <3>1 DEF Held
    <3>3. req[r].inflight # <<>>
      BY <3>1, <1>0, InFlight
    <3>4. r \notin finish_ids \cup recompute_ids
      BY <3>3 DEF FlowInv, DroppedIsDrained
    <3> QED BY <2>1, <2>2, <3>2, <3>4, <1>2
  <2> QED BY <2>3, <2>4
<1> QED BY <1>9, <1>10, <1>11, <1>12, <1>13 DEF HeldInv

\* A recomputed request starts anew, and no output under way holds it.
LEMMA HeldRecompute ==
  ASSUME TypeInv, PoolInv, FlowInv, HeldInv, NEW r \in Requests, Recompute(r)
  PROVE  HeldInv'
<1>0. PICK d : d = executor_pipeline_depth
  OBVIOUS
<1>1. /\ req[r].inflight = <<>>
      /\ recompute_ids' = recompute_ids \cup {r}
      /\ UNCHANGED <<executor_pipeline_depth, finish_ids, transferred, launched,
                     packets, objects, pending, batch, results, cached>>
  BY DEF Recompute, transfer, executor
<1>2. /\ req'[r].infer_stage = "context"
      /\ \A x \in Requests \ {r} : req'[x] = req[x]
  BY RecomputeType DEF TypeInv
<1>3. Begun' = Begun /\ Sent' = Sent /\ \A k : Place(k)' = Place(k)
  BY <1>1, PlaceFrame
<1>4. \A k : Held(k)' = Held(k)
  BY <1>1, <1>3 DEF Held
<1>5. BatchesAreCached'
  BY <1>1, <1>3 DEF HeldInv, BatchesAreCached
<1>6. ModesInOrder'
  BY <1>1, <1>3, <1>4 DEF HeldInv, ModesInOrder
<1>7. PatchedAreHeld'
  BY <1>1, <1>3, <1>4 DEF HeldInv, PatchedAreHeld
<1>8. NewAreFirst'
  <2> SUFFICES ASSUME NEW k \in (Sent + 1)..d, NEW x \in Place(k).out,
                      x \notin Held(k) \ Place(k).drops
               PROVE  /\ req'[x].infer_stage = "context"
                      /\ Place(k).item[x].offset = None
                      /\ \A j \in 1..(k - 1) : x \notin Place(j).out
    BY <1>0, <1>1, <1>3, <1>4 DEF NewAreFirst
  <2>1. /\ req[x].infer_stage = "context"
        /\ Place(k).item[x].offset = None
        /\ \A j \in 1..(k - 1) : x \notin Place(j).out
    BY <1>0 DEF HeldInv, NewAreFirst
  <2>2. x \in Requests
    <3>1. k \in 1..d
      BY <1>0, DepthIs
    <3> QED BY <3>1, <1>0 DEF FlowInv, StepsInFlight
  <2> QED BY <2>1, <2>2, <1>2
<1>9. DecodesAreHeld'
  <2> SUFFICES ASSUME NEW x \in Requests,
                      req'[x].infer_stage # "context" /\ ~req'[x].ended
               PROVE  /\ x \in Held(d + 1)
                      /\ x \notin finish_ids \cup recompute_ids'
    BY <1>0, <1>1, <1>4 DEF DecodesAreHeld
  <2>1. x # r /\ req'[x] = req[x]
    BY <1>2
  <2> QED BY <2>1, <1>0, <1>1 DEF HeldInv, DecodesAreHeld
<1> QED BY <1>5, <1>6, <1>7, <1>8, <1>9 DEF HeldInv

\* The mode of the oldest output without one is set after what the Executor will
\* hold behind the output before it.
LEMMA HeldMode ==
  ASSUME TypeInv, PoolInv, FlowInv, HeldInv, SetInferRequestTransferMode
  PROVE  /\ HeldInv' /\ FlowInv' /\ Dropping' = Dropping /\ Begun' = Begun
         /\ \A k \in 1..executor_pipeline_depth : Place(k)'.item = Place(k).item
<1>0. PICK d : d = executor_pipeline_depth
  OBVIOUS
<1>1. \A i \in DOMAIN launched : launched[i].running # {}
  <2> SUFFICES ASSUME NEW i \in DOMAIN launched PROVE launched[i].running # {}
    OBVIOUS
  <2>1. /\ Sent + i \in 1..d /\ (Sent + i) - Sent = i
        /\ ~(Sent + i <= Returned) /\ ~(Sent + i <= Begun)
        /\ ~(Sent + i <= Rebuilt) /\ ~(Sent + i <= Sent)
    BY <1>0, DepthIs
  <2>2. Place(Sent + i) = OfOutput(launched[i])
    BY <2>1 DEF Place
  <2> QED BY <2>1, <2>2, <1>0 DEF FlowInv, StepsInFlight, OfOutput
<1>2. /\ \A r \in Requests : \A f \in {"inflight", "infer_stage", "ended", "run", "task"} :
              req'[r][f] = req[r][f]
      /\ UNCHANGED <<planned, executor_pipeline_depth, finish_ids, recompute_ids,
                     cached>>
  BY ModeType DEF TypeInv, SetInferRequestTransferMode, executor
<1>3. Begun' = Begun /\ Sent' = Sent /\ AllFrozen'
  BY <1>1, PlaceMode DEF FlowInv
<1>4. PICK p \in (Sent + 1)..d :
        /\ \A k \in 1..d \ {p} : Place(k)' = Place(k)
        /\ \A k \in 1..(p - 1) : Place(k).populated
        /\ ~Place(p).populated
        /\ Place(p)'.populated
        /\ Place(p)'.out = Place(p).out
        /\ Place(p)'.drops = Place(p).drops
        /\ Place(p)'.item = Place(p).item
        /\ Place(p)'.patched = Place(p).out \cap (transferred \ Place(p).drops)
        /\ transferred' = (transferred \ Place(p).drops) \cup Place(p).out
  BY <1>0, <1>1, PlaceMode DEF FlowInv
<1>5. /\ d \in 0..2 /\ Begun \in 0..2 /\ Sent \in 0..2 /\ Begun <= Sent /\ Sent <= d
      /\ p \in 1..d
  BY <1>0, <1>4, DepthIs
<1>6. \A k \in 1..d : /\ Place(k)'.out = Place(k).out
                      /\ Place(k)'.drops = Place(k).drops
                      /\ Place(k)'.item = Place(k).item
  BY <1>4
<1>7. ASSUME NEW k \in 1..(d + 1) PROVE Held(k)' = Held(k)
  <2>1. \A i \in 1..(k - 1) : i \in 1..d
    BY <1>5
  <2> QED BY <2>1, <1>2, <1>6 DEF Held
<1>8. FlowInv'
  <2>1. PlannedHaveTasks'
    BY <1>2 DEF FlowInv, PlannedHaveTasks, HasPlanningTask, TypeInv, EngineType
  <2> QED BY <2>1, <1>0, <1>2, <1>3, <1>6, FlowFrame
<1>9. BatchesAreCached'
  <2>1. \A k \in 1..Begun : k \in 1..d
    BY <1>5
  <2> QED BY <2>1, <1>2, <1>3, <1>6 DEF HeldInv, BatchesAreCached
<1>10. PICK m \in 0..d : /\ \A k \in 1..d : Place(k).populated <=> k <= m
                         /\ transferred = Held(m + 1)
  BY <1>0 DEF HeldInv, ModesInOrder
<1>11. m = p - 1
  <2>1. ~(p <= m)
    BY <1>4, <1>5, <1>10
  <2>2. CASE p = 1
    BY <2>1, <2>2, <1>10
  <2>3. CASE p > 1
    <3>1. p - 1 \in 1..d /\ p - 1 \in 1..(p - 1)
      BY <2>3, <1>5
    <3>2. p - 1 <= m
      BY <3>1, <1>4, <1>10
    <3> QED BY <2>1, <3>1, <3>2, <1>5, <1>10
  <2> QED BY <2>2, <2>3, <1>5
<1>12. transferred = Held(p)
  <2>1. m + 1 = p
    BY <1>5, <1>11
  <2> QED BY <2>1, <1>10
<1>13. ModesInOrder'
  <2>1. transferred' = Held(p + 1)'
    <3>1. Held(p + 1) = (Held(p) \ Place(p).drops) \cup Place(p).out
      BY <1>0, <1>5, HeldNext
    <3>2. p + 1 \in 1..(d + 1)
      BY <1>5
    <3> QED BY <3>1, <3>2, <1>4, <1>7, <1>12
  <2>2. \A k \in 1..d : Place(k)'.populated <=> k <= p
    <3> SUFFICES ASSUME NEW k \in 1..d PROVE Place(k)'.populated <=> k <= p
      OBVIOUS
    <3>1. CASE k = p
      BY <3>1, <1>4, <1>5
    <3>2. CASE k # p
      <4>1. k <= m <=> k <= p
        BY <3>2, <1>5, <1>11
      <4> QED BY <3>2, <4>1, <1>4, <1>10
    <3> QED BY <3>1, <3>2
  <2>3. p \in 0..d
    BY <1>5
  <2> QED BY <2>1, <2>2, <2>3, <1>0, <1>2 DEF ModesInOrder
<1>14. PatchedAreHeld'
  <2> SUFFICES ASSUME NEW k \in (Begun + 1)..d, Place(k)'.populated
               PROVE  Place(k)'.patched =
                        Place(k)'.out \cap (Held(k)' \ Place(k)'.drops)
    BY <1>0, <1>2, <1>3 DEF PatchedAreHeld
  <2>1. k \in 1..d /\ k \in 1..(d + 1)
    BY <1>5
  <2>2. CASE k = p
    BY <2>1, <2>2, <1>4, <1>7, <1>12
  <2>3. CASE k # p
    <3>1. Place(k)' = Place(k) /\ Held(k)' = Held(k)
      BY <2>1, <2>3, <1>4, <1>7
    <3> QED BY <3>1, <1>0 DEF HeldInv, PatchedAreHeld
  <2> QED BY <2>2, <2>3
<1>15. NewAreFirst'
  <2> SUFFICES ASSUME NEW k \in (Sent + 1)..d, NEW r \in Place(k)'.out,
                      r \notin Held(k)' \ Place(k)'.drops
               PROVE  /\ req'[r].infer_stage = "context"
                      /\ Place(k)'.item[r].offset = None
                      /\ \A j \in 1..(k - 1) : r \notin Place(j)'.out
    BY <1>0, <1>2, <1>3 DEF NewAreFirst
  <2>1. /\ k \in 1..d /\ k \in 1..(d + 1)
        /\ \A j \in 1..(k - 1) : j \in 1..d
    BY <1>5
  <2>2. r \in Place(k).out /\ r \notin Held(k) \ Place(k).drops
    BY <2>1, <1>6, <1>7
  <2>3. /\ req[r].infer_stage = "context"
        /\ Place(k).item[r].offset = None
        /\ \A j \in 1..(k - 1) : r \notin Place(j).out
    BY <2>2, <1>0 DEF HeldInv, NewAreFirst
  <2>4. r \in Requests
    BY <2>1, <2>2, <1>0 DEF FlowInv, StepsInFlight
  <2> QED BY <2>1, <2>3, <2>4, <1>2, <1>6
<1>16. DecodesAreHeld'
  <2>1. Held(d + 1)' = Held(d + 1)
    BY <1>5, <1>7
  <2>2. \A r \in Requests : req'[r].infer_stage = req[r].infer_stage
                         /\ req'[r].ended = req[r].ended
    BY <1>2
  <2> QED BY <2>1, <2>2, <1>0, <1>2 DEF HeldInv, DecodesAreHeld
<1>17. Dropping' = Dropping
  <2>1. UNION {Place(k)'.drops : k \in 1..d} = UNION {Place(k).drops : k \in 1..d}
    BY <1>6
  <2> QED BY <2>1, <1>0, <1>2 DEF Dropping
<1> QED BY <1>0, <1>3, <1>6, <1>8, <1>9, <1>13, <1>14, <1>15, <1>16, <1>17 DEF HeldInv

\* No output under way is without requests.
LEMMA TakenIsNotEmpty ==
  ASSUME TypeInv, PoolInv, FlowInv, UpdateCachedRequests
  PROVE  Received(objects[Head(pending)]) # {}
<1>1. pending # <<>> /\ batch = NoBatch
  BY DEF UpdateCachedRequests, PoolInv, FreeAreEmpty
<1>2. Len(pending) > 0 /\ Head(pending) = pending[1]
  BY <1>1, Sizes, SequenceTail
<1>3. /\ Begun \in Nat /\ Begun = Returned /\ Rebuilt = Begun + Len(pending)
      /\ Len(pending) \in Nat /\ Rebuilt <= executor_pipeline_depth
      /\ executor_pipeline_depth \in 0..2
  <2>1. /\ executor_pipeline_depth \in 0..2 /\ Rebuilt <= Sent
        /\ Sent <= executor_pipeline_depth /\ Rebuilt \in 0..2 /\ Sent \in 0..2
    BY DepthIs
  <2>2. Begun = Returned /\ Rebuilt = Begun + Len(pending)
    <3>1. Returned \in Nat /\ Rebuilt = Begun + Len(pending)
      BY Sizes
    <3> QED BY <3>1, <1>1 DEF Begun
  <2>3. Begun \in Nat /\ Len(pending) \in Nat
    BY Sizes
  <2> QED BY <2>1, <2>2, <2>3
<1>4. /\ Begun + 1 \in 1..executor_pipeline_depth
      /\ ~(Begun + 1 <= Returned) /\ ~(Begun + 1 <= Begun) /\ Begun + 1 <= Rebuilt
      /\ (Begun + 1) - Begun = 1
  BY <1>2, <1>3
<1>5. Place(Begun + 1).out = Received(objects[pending[1]])
  BY <1>4 DEF Place, OfPacket
<1> QED BY <1>2, <1>4, <1>5 DEF FlowInv, StepsInFlight

\* What an output brings is cached when it is taken up, and what it drops is not
\* any more; behind the outputs that follow the same is held as before.
LEMMA HeldUpdate ==
  ASSUME TypeInv, PoolInv, FlowInv, HeldInv, UpdateCachedRequests
  PROVE  HeldInv' /\ FlowInv'
<1>0. PICK d, b : d = executor_pipeline_depth /\ b = Begun
  OBVIOUS
<1> DEFINE o == objects[Head(pending)]
<1>1. Received(o) # {}
  BY TakenIsNotEmpty
<1>2. /\ UNCHANGED <<req, planned, executor_pipeline_depth, finish_ids,
                     recompute_ids, transferred, launched>>
  BY Zenon DEF UpdateCachedRequests, engine, transfer
<1>3. /\ Begun' = b + 1 /\ Sent' = Sent /\ b + 1 <= Sent
      /\ Place(b + 1) = OfPacket(o)
      /\ Place(b + 1)' = OfBatch(Received(o))
      /\ \A k \in 1..d \ {b + 1} : Place(k)' = Place(k)
      /\ batch = NoBatch
  <2>1. /\ Begun' = Begun + 1 /\ Sent' = Sent /\ Begun + 1 <= Sent
        /\ Place(Begun + 1) = OfPacket(o)
        /\ Place(Begun)' = OfBatch(Received(o))
        /\ \A k \in 1..executor_pipeline_depth \ {Begun + 1} : Place(k)' = Place(k)
        /\ batch = NoBatch
    BY <1>1, PlaceUpdate
  <2>2. Place(b + 1)' = Place(Begun)'
    BY <2>1, <1>0 DEF Place
  <2> QED BY <2>1, <2>2, <1>0
<1>4. /\ d \in 0..2 /\ b \in 0..2 /\ Sent \in 0..2 /\ Sent <= d /\ Returned = b
  BY <1>0, <1>3, DepthIs DEF Begun
<1>5. /\ Place(b + 1).out = Received(o)
      /\ Place(b + 1).drops = o.finish \cup o.recompute
      /\ Place(b + 1)'.out = Received(o)
      /\ Place(b + 1)'.drops = {}
      /\ Place(b + 1).populated /\ Place(b + 1)'.populated
  BY <1>3 DEF OfPacket, OfBatch
<1>6. DOMAIN cached' = (DOMAIN cached \ Place(b + 1).drops) \cup Place(b + 1).out
  <2>1. cached' = AfterUpdate(o) /\ o \in PacketType /\ cached \in Partial(Entry)
    BY UpdateType DEF TypeInv, ExecutorType
  <2>2. DOMAIN AfterUpdate(o) = (DOMAIN cached \ (o.finish \cup o.recompute))
                                  \cup Received(o)
    BY <2>1, AfterUpdateIs
  <2> QED BY <2>1, <2>2, <1>5
<1> HIDE DEF o
<1>7. \A k \in 1..d : /\ Place(k)'.out = Place(k).out
                      /\ Place(k)'.drops \subseteq Place(k).drops
                      /\ Place(k)'.populated <=> Place(k).populated
  BY <1>3, <1>5
<1>8. \A k \in 1..b : Place(k).drops = {}
  BY <1>4 DEF Place, OfBatch
<1>9. FlowInv'
  <2>1. AllFrozen' /\ PlannedHaveTasks'
    BY <1>2 DEF FlowInv, AllFrozen, PlannedHaveTasks, HasPlanningTask
  <2> QED BY <2>1, <1>0, <1>2, <1>7, FlowFrame
<1>10. ASSUME NEW k \in (b + 2)..(d + 1) PROVE Held(k)' = Held(k)
  <2>1. /\ \A j \in 1..(k - 1) : j \in 1..d
        /\ b + 1 \in 1..(k - 1)
    BY <1>4
  <2>2. \A r : r \in Held(k)' <=>
                 \/ r \in DOMAIN cached' /\ \A i \in 1..(k - 1) : r \notin Place(i)'.drops
                 \/ \E j \in 1..(k - 1) : r \in Place(j).out
    BY <2>1, <1>7 DEF Held
  <2>3. \A r : r \in Held(k) <=>
                 \/ r \in DOMAIN cached /\ \A i \in 1..(k - 1) : r \notin Place(i).drops
                 \/ \E j \in 1..(k - 1) : r \in Place(j).out
    BY DEF Held
  <2>4. \A r : (\A i \in 1..(k - 1) : r \notin Place(i).drops) <=>
                 /\ r \notin Place(b + 1).drops
                 /\ \A i \in 1..(k - 1) : r \notin Place(i)'.drops
    BY <2>1, <1>3, <1>5
  <2> QED BY <2>1, <2>2, <2>3, <2>4, <1>6
<1>11. BatchesAreCached'
  <2> SUFFICES ASSUME NEW k \in 1..(b + 1) PROVE Place(k)'.out \subseteq DOMAIN cached'
    BY <1>3 DEF BatchesAreCached
  <2>1. CASE k = b + 1
    BY <2>1, <1>5, <1>6
  <2>2. CASE k # b + 1
    <3>1. /\ k \in 1..b /\ k \in 1..d /\ b + 1 \in 1..d /\ k \in 1..((b + 1) - 1)
      BY <2>2, <1>3, <1>4
    <3>2. Place(k).out \subseteq DOMAIN cached
      BY <3>1, <1>0 DEF HeldInv, BatchesAreCached
    <3>3. Place(k).out \cap Place(b + 1).drops = {}
      BY <3>1, <1>0 DEF FlowInv, DropsNoneBefore
    <3> QED BY <3>1, <3>2, <3>3, <1>6, <1>7
  <2> QED BY <2>1, <2>2
<1>12. ModesInOrder'
  <2>1. PICK m \in 0..d : /\ \A k \in 1..d : Place(k).populated <=> k <= m
                          /\ transferred = Held(m + 1)
    BY <1>0 DEF HeldInv, ModesInOrder
  <2>2. m + 1 \in (b + 2)..(d + 1)
    <3>1. b + 1 \in 1..d
      BY <1>3, <1>4
    <3>2. b + 1 <= m
      BY <2>1, <3>1, <1>5
    <3> QED BY <2>1, <3>2, <1>4
  <2>3. transferred' = Held(m + 1)'
    BY <2>1, <2>2, <1>2, <1>10
  <2> QED BY <2>1, <2>3, <1>0, <1>2, <1>7 DEF ModesInOrder
<1>13. PatchedAreHeld'
  <2> SUFFICES ASSUME NEW k \in ((b + 1) + 1)..d, Place(k)'.populated
               PROVE  Place(k)'.patched =
                        Place(k)'.out \cap (Held(k)' \ Place(k)'.drops)
    BY <1>0, <1>2, <1>3 DEF PatchedAreHeld
  <2>1. /\ k \in 1..d /\ k # b + 1 /\ k \in (b + 1)..d /\ k \in (b + 2)..(d + 1)
    BY <1>4
  <2>2. Place(k)' = Place(k) /\ Held(k)' = Held(k)
    BY <2>1, <1>3, <1>10
  <2> QED BY <2>1, <2>2, <1>0 DEF HeldInv, PatchedAreHeld
<1>14. NewAreFirst'
  <2> SUFFICES ASSUME NEW k \in (Sent + 1)..d, NEW r \in Place(k)'.out,
                      r \notin Held(k)' \ Place(k)'.drops
               PROVE  /\ req'[r].infer_stage = "context"
                      /\ Place(k)'.item[r].offset = None
                      /\ \A j \in 1..(k - 1) : r \notin Place(j)'.out
    BY <1>0, <1>2, <1>3 DEF NewAreFirst
  <2>1. /\ k \in 1..d /\ k # b + 1 /\ k \in (b + 2)..(d + 1)
        /\ \A j \in 1..(k - 1) : j \in 1..d
    BY <1>3, <1>4
  <2>2. Place(k)' = Place(k) /\ Held(k)' = Held(k)
    BY <2>1, <1>3, <1>10
  <2>3. /\ req[r].infer_stage = "context"
        /\ Place(k).item[r].offset = None
        /\ \A j \in 1..(k - 1) : r \notin Place(j).out
    BY <2>2, <1>0 DEF HeldInv, NewAreFirst
  <2> QED BY <2>1, <2>2, <2>3, <1>2, <1>7
<1>15. DecodesAreHeld'
  <2>1. d + 1 \in (b + 2)..(d + 1)
    BY <1>3, <1>4
  <2>2. Held(d + 1)' = Held(d + 1)
    BY <2>1, <1>10
  <2> QED BY <2>2, <1>0, <1>2 DEF HeldInv, DecodesAreHeld
<1> QED BY <1>9, <1>11, <1>12, <1>13, <1>14, <1>15 DEF HeldInv

\* What is sent whole has its requests' last token, and their embedding.
LEMMA SentIsFirst ==
  ASSUME TypeInv, PoolInv, FlowInv, HeldInv, PutSendScheduleOutput
  PROVE  /\ \A r \in Head(launched).running :
              ~Head(launched).snapshots[r].patch_transfer =>
                /\ Head(launched).snapshots[r].step.offset = None
                /\ req[r].infer_stage = "context"
         /\ Head(launched).running = DOMAIN Head(launched).snapshots
<1>0. PICK d, s : d = executor_pipeline_depth /\ s = Sent
  OBVIOUS
<1> DEFINE o == Head(launched)
<1>1. /\ launched # <<>>
      /\ \A r \in DOMAIN o.snapshots : o.snapshots[r].populated
  BY DEF PutSendScheduleOutput
<1>2. o = launched[1] /\ Len(launched) > 0
  BY <1>1, Sizes, SequenceTail
<1>3. /\ d = s + Len(launched) /\ Len(launched) \in Nat /\ s \in 0..2 /\ d \in 0..2
      /\ Returned <= s /\ Begun <= s /\ Rebuilt <= s /\ Begun \in 0..2
      /\ Returned \in 0..2 /\ Rebuilt \in 0..2
      /\ DOMAIN launched = 1..Len(launched)
  BY <1>0, DepthIs
<1>4. /\ ~(s + 1 <= Returned) /\ ~(s + 1 <= Begun) /\ ~(s + 1 <= Rebuilt)
      /\ ~(s + 1 <= s) /\ (s + 1) - s = 1
      /\ s + 1 \in (Begun + 1)..d /\ s + 1 \in (s + 1)..d
  BY <1>2, <1>3
<1>5. Place(s + 1) = OfOutput(o)
  BY <1>0, <1>2, <1>4 DEF Place
<1>6. o.running = DOMAIN o.snapshots
  BY <1>2, <1>3 DEF FlowInv, AllFrozen
<1> HIDE DEF o
<1>7. Place(s + 1).populated
  BY <1>1, <1>5 DEF OfOutput
<1>8. Place(s + 1).patched = Place(s + 1).out \cap (Held(s + 1) \ Place(s + 1).drops)
  BY <1>0, <1>4, <1>7 DEF HeldInv, PatchedAreHeld
<1>9. ASSUME NEW r \in o.running, ~o.snapshots[r].patch_transfer
      PROVE  o.snapshots[r].step.offset = None /\ req[r].infer_stage = "context"
  <2>1. r \in Place(s + 1).out /\ r \notin Place(s + 1).patched
    BY <1>5, <1>9 DEF OfOutput
  <2>2. r \notin Held(s + 1) \ Place(s + 1).drops
    BY <2>1, <1>8
  <2>3. req[r].infer_stage = "context" /\ Place(s + 1).item[r].offset = None
    BY <2>1, <2>2, <1>0, <1>4 DEF HeldInv, NewAreFirst
  <2>4. Place(s + 1).item[r] = o.snapshots[r].step
    BY <1>5, <1>9 DEF OfOutput
  <2> QED BY <2>3, <2>4
<1> QED BY <1>6, <1>9 DEF o

\* A packet that is written is of an output whose mode is set.
LEMMA HeldSend ==
  ASSUME TypeInv, PoolInv, FlowInv, HeldInv, PutSendScheduleOutput
  PROVE  HeldInv' /\ FlowInv'
<1>1. \A r \in Head(launched).running :
        ~Head(launched).snapshots[r].patch_transfer =>
          Head(launched).snapshots[r].step.offset = None
  BY SentIsFirst
<1>2. /\ Begun' = Begun /\ Sent' = Sent + 1
      /\ \A k \in 1..executor_pipeline_depth : Place(k)' = Place(k)
      /\ AllFrozen'
  BY <1>1, PlaceSend DEF FlowInv
<1>3. UNCHANGED <<engine, transferred, cached>>
  BY Zenon DEF PutSendScheduleOutput, executor
<1>4. PlannedHaveTasks'
  BY <1>3 DEF engine, FlowInv, PlannedHaveTasks, HasPlanningTask
<1>5. FlowInv'
  BY <1>2, <1>3, <1>4, FlowFrame DEF engine
<1>6. \A k \in 1..executor_pipeline_depth : Place(k).out \subseteq Requests
  BY DEF FlowInv, StepsInFlight
<1>7. HeldInv'
  BY <1>2, <1>3, <1>6, HeldFrame DEF engine
<1> QED BY <1>5, <1>7

-----------------------------------------------------------------------------
(* Of which run the requests are that the Executor has or is sent *)

Undelivered == {objects[i] : i \in ToSet(pending)} \cup ToSet(packets)

WholeAreCurrent ==
  \A p \in Undelivered : \A r \in DOMAIN p.full :
    p.full[r].run = req[r].run /\ p.full[r].embedding = TRUE

CachedAreCurrent ==
  \A r \in DOMAIN cached :
    /\ cached[r].embedding = TRUE
    /\ cached[r].run = req[r].run \/ r \in Dropping

BatchIsCached ==
  \A r \in DOMAIN batch : r \in DOMAIN cached /\ batch[r] = cached[r]

RunInv == WholeAreCurrent /\ CachedAreCurrent /\ BatchIsCached

\* At the start nothing is cached and nothing sent.
LEMMA InitRun == Init => RunInv
<1> SUFFICES ASSUME Init PROVE RunInv
  OBVIOUS
<1>1. Undelivered = {}
  BY SequenceEmpty DEF Init, Undelivered, ToSet
<1>2. DOMAIN cached = {} /\ DOMAIN batch = {}
  BY DEF Init, NoBatch
<1> QED BY <1>1, <1>2 DEF RunInv, WholeAreCurrent, CachedAreCurrent, BatchIsCached

\* A packet that is not taken up yet is at a place behind the batch.
LEMMA UndeliveredPlace ==
  ASSUME TypeInv, PoolInv, NEW p \in Undelivered
  PROVE  \E k \in (Begun + 1)..executor_pipeline_depth : Place(k) = OfPacket(p)
<1>1. /\ executor_pipeline_depth \in 0..2 /\ Sent <= executor_pipeline_depth
      /\ Returned <= Begun /\ Begun <= Rebuilt /\ Rebuilt <= Sent
      /\ Returned \in 0..2 /\ Begun \in 0..2 /\ Rebuilt \in 0..2 /\ Sent \in 0..2
  BY DepthIs
<1>2. /\ Len(packets) \in Nat /\ Sent = Rebuilt + Len(packets)
      /\ Len(pending) \in Nat /\ Rebuilt = Begun + Len(pending)
      /\ DOMAIN pending = 1..Len(pending) /\ DOMAIN packets = 1..Len(packets)
  BY Sizes
<1>3. CASE p \in {objects[i] : i \in ToSet(pending)}
  <2>1. PICK j \in 1..Len(pending) : p = objects[pending[j]]
    BY <1>2, <1>3 DEF ToSet
  <2>2. /\ Begun + j \in (Begun + 1)..executor_pipeline_depth
        /\ ~(Begun + j <= Returned) /\ ~(Begun + j <= Begun) /\ Begun + j <= Rebuilt
        /\ (Begun + j) - Begun = j
    BY <1>1, <1>2
  <2>3. Place(Begun + j) = OfPacket(p)
    BY <2>1, <2>2 DEF Place
  <2> QED BY <2>2, <2>3
<1>4. CASE p \in ToSet(packets)
  <2>1. PICK j \in 1..Len(packets) : p = packets[j]
    BY <1>2, <1>4 DEF ToSet
  <2>2. /\ Rebuilt + j \in (Begun + 1)..executor_pipeline_depth
        /\ ~(Rebuilt + j <= Returned) /\ ~(Rebuilt + j <= Begun)
        /\ ~(Rebuilt + j <= Rebuilt) /\ Rebuilt + j <= Sent
        /\ (Rebuilt + j) - Rebuilt = j
    BY <1>1, <1>2
  <2>3. Place(Rebuilt + j) = OfPacket(p)
    BY <2>1, <2>2 DEF Place
  <2> QED BY <2>2, <2>3
<1> QED BY <1>3, <1>4 DEF Undelivered

\* A request that is sent whole has a step in flight.
LEMMA WholeInFlight ==
  ASSUME TypeInv, PoolInv, FlowInv, NEW p \in Undelivered, NEW r \in DOMAIN p.full
  PROVE  r \in Requests /\ req[r].inflight # <<>>
<1>1. PICK k \in (Begun + 1)..executor_pipeline_depth : Place(k) = OfPacket(p)
  BY UndeliveredPlace
<1>2. k \in 1..executor_pipeline_depth
  BY DepthIs
<1>3. r \in Place(k).out
  BY <1>1 DEF OfPacket, Received
<1>4. r \in Requests
  BY <1>2, <1>3 DEF FlowInv, StepsInFlight
<1> QED BY <1>2, <1>3, <1>4, InFlight

\* Steps that neither write a packet nor take one up, nor recompute.
LEMMA RunFrame ==
  ASSUME TypeInv, PoolInv, FlowInv, RunInv,
         cached' = cached, batch' = batch \/ batch' = NoBatch,
         Undelivered' \subseteq Undelivered,
         \A r \in Requests : req'[r].run = req[r].run,
         Dropping \subseteq Dropping'
  PROVE  RunInv'
<1>1. WholeAreCurrent'
  <2> SUFFICES ASSUME NEW p \in Undelivered', NEW r \in DOMAIN p.full
               PROVE  p.full[r].run = req'[r].run /\ p.full[r].embedding = TRUE
    BY DEF WholeAreCurrent
  <2>1. p \in Undelivered
    OBVIOUS
  <2>2. r \in Requests
    BY <2>1, WholeInFlight
  <2> QED BY <2>1, <2>2 DEF RunInv, WholeAreCurrent
<1>2. DOMAIN cached \subseteq Requests
  BY PartialElim DEF TypeInv, ExecutorType
<1>3. CachedAreCurrent'
  BY <1>2 DEF RunInv, CachedAreCurrent
<1>4. BatchIsCached'
  BY DEF RunInv, BatchIsCached, NoBatch
<1> QED BY <1>1, <1>3, <1>4 DEF RunInv

\* A recomputed request is to be dropped, and is not being sent.
LEMMA RunRecompute ==
  ASSUME TypeInv, PoolInv, FlowInv, RunInv, NEW r \in Requests, Recompute(r)
  PROVE  RunInv'
<1>1. /\ req[r].inflight = <<>>
      /\ recompute_ids' = recompute_ids \cup {r}
      /\ UNCHANGED <<executor_pipeline_depth, launched, packets, objects, pending,
                     batch, results, cached>>
  BY DEF Recompute, transfer, executor
<1>2. \A x \in Requests \ {r} : req'[x] = req[x]
  BY RecomputeType DEF TypeInv
<1>3. \A k : Place(k)' = Place(k)
  BY <1>1, PlaceFrame
<1>4. Dropping' = Dropping \cup {r}
  BY <1>1, <1>3 DEF Dropping
<1>5. Undelivered' = Undelivered
  BY <1>1 DEF Undelivered
<1>6. WholeAreCurrent'
  <2> SUFFICES ASSUME NEW p \in Undelivered, NEW x \in DOMAIN p.full
               PROVE  p.full[x].run = req'[x].run /\ p.full[x].embedding = TRUE
    BY <1>5 DEF WholeAreCurrent
  <2>1. x \in Requests /\ x # r
    BY <1>1, WholeInFlight
  <2> QED BY <2>1, <1>2 DEF RunInv, WholeAreCurrent
<1>7. CachedAreCurrent'
  <2>1. DOMAIN cached \subseteq Requests
    BY PartialElim DEF TypeInv, ExecutorType
  <2> SUFFICES ASSUME NEW x \in DOMAIN cached
               PROVE  /\ cached[x].embedding = TRUE
                      /\ cached[x].run = req'[x].run \/ x \in Dropping'
    BY <1>1 DEF CachedAreCurrent
  <2>2. cached[x].embedding = TRUE /\ (cached[x].run = req[x].run \/ x \in Dropping)
    BY DEF RunInv, CachedAreCurrent
  <2>3. CASE x = r
    BY <2>2, <2>3, <1>4
  <2>4. CASE x # r
    BY <2>1, <2>2, <2>4, <1>2, <1>4
  <2> QED BY <2>3, <2>4
<1>8. BatchIsCached'
  BY <1>1 DEF RunInv, BatchIsCached
<1> QED BY <1>6, <1>7, <1>8 DEF RunInv

\* A packet is written with the requests' present run.
LEMMA RunSend ==
  ASSUME TypeInv, PoolInv, FlowInv, HeldInv, RunInv, PutSendScheduleOutput
  PROVE  RunInv'
<1> DEFINE o == Head(launched)
           p == SerializeScheduleOutput(o)
<1>1. /\ \A r \in o.running : ~o.snapshots[r].patch_transfer =>
           /\ o.snapshots[r].step.offset = None
           /\ req[r].infer_stage = "context"
      /\ o.running = DOMAIN o.snapshots
  BY SentIsFirst
<1>2. o \in LaunchedType
  BY SendType DEF TypeInv
<1>3. /\ packets' = Append(packets, p)
      /\ \A r \in DOMAIN o.snapshots : o.snapshots[r].populated
      /\ UNCHANGED <<req, executor_pipeline_depth, recompute_ids, objects, pending,
                     cached, batch>>
  BY DEF PutSendScheduleOutput, engine, executor
<1>4. /\ DOMAIN p.full = {r \in o.running : ~o.snapshots[r].patch_transfer}
      /\ \A r \in DOMAIN p.full :
           /\ p.full[r].run = req[r].run
           /\ p.full[r].embedding = (req[r].infer_stage = "context")
  BY <1>1, <1>2, <1>3, PacketOfOutput DEF TypeInv
<1>5. \A r \in DOMAIN p.full : p.full[r].run = req[r].run /\ p.full[r].embedding = TRUE
  BY <1>1, <1>4
<1>6. \A k \in 1..executor_pipeline_depth : Place(k)' = Place(k)
  BY <1>1, PlaceSend DEF FlowInv
<1> HIDE DEF p
<1>7. Undelivered' = Undelivered \cup {p}
  <2>1. ToSet(packets') = ToSet(packets) \cup {p}
    BY <1>3, Sizes, SequenceAppendSet
  <2> QED BY <2>1, <1>3 DEF Undelivered
<1>8. Dropping' = Dropping
  BY <1>3, <1>6 DEF Dropping
<1>9. WholeAreCurrent'
  BY <1>3, <1>5, <1>7 DEF RunInv, WholeAreCurrent
<1>10. CachedAreCurrent' /\ BatchIsCached'
  BY <1>3, <1>8 DEF RunInv, CachedAreCurrent, BatchIsCached
<1> QED BY <1>9, <1>10 DEF RunInv

\* A packet that is rebuilt was sent.
LEMMA RunReceive ==
  ASSUME TypeInv, PoolInv, FlowInv, RunInv, Receive
  PROVE  RunInv'
<1>1. /\ packets # <<>> /\ packets' = Tail(packets)
      /\ UNCHANGED <<req, executor_pipeline_depth, recompute_ids, cached, batch>>
  BY Zenon DEF Receive, engine
<1> DEFINE i == FreeScheduleOutputIndex
<1>2. /\ pending' = Append(pending, i)
      /\ objects'[i] = Head(packets)
      /\ \A j \in ToSet(pending) : objects'[j] = objects[j]
  BY ReceivePool
<1> HIDE DEF i
<1>3. ToSet(pending') = ToSet(pending) \cup {i}
  BY <1>2, Sizes, SequenceAppendSet
<1>4. Head(packets) \in ToSet(packets) /\ ToSet(packets') \subseteq ToSet(packets)
  <2>1. Sequence(packets)
    BY Sizes
  <2>2. /\ Len(packets) > 0 /\ Head(packets) = packets[1]
        /\ Len(packets') = Len(packets) - 1
        /\ DOMAIN packets' = 1..(Len(packets) - 1)
        /\ \A j \in 1..(Len(packets) - 1) : packets'[j] = packets[j + 1]
    BY <1>1, <2>1, SequenceTail
  <2>3. DOMAIN packets = 1..Len(packets) /\ Len(packets) \in Nat
    BY Sizes
  <2>4. 1 \in DOMAIN packets
    BY <2>2, <2>3
  <2>5. \A j \in DOMAIN packets' : j + 1 \in DOMAIN packets /\ packets'[j] = packets[j + 1]
    BY <2>2, <2>3
  <2> QED BY <2>2, <2>4, <2>5 DEF ToSet
<1>5. Undelivered' \subseteq Undelivered
  <2> SUFFICES ASSUME NEW p \in Undelivered' PROVE p \in Undelivered
    OBVIOUS
  <2>1. CASE p \in ToSet(packets')
    BY <2>1, <1>4 DEF Undelivered
  <2>2. CASE p \in {objects'[j] : j \in ToSet(pending')}
    <3>1. PICK j \in ToSet(pending') : p = objects'[j]
      BY <2>2
    <3>2. CASE j = i
      BY <3>1, <3>2, <1>2, <1>4 DEF Undelivered
    <3>3. CASE j \in ToSet(pending)
      BY <3>1, <3>3, <1>2 DEF Undelivered
    <3> QED BY <3>1, <3>2, <3>3, <1>3
  <2> QED BY <2>1, <2>2 DEF Undelivered
<1>6. Dropping' = Dropping
  <2>1. \A k \in 1..executor_pipeline_depth : Place(k)' = Place(k)
    BY PlaceReceive
  <2> QED BY <2>1, <1>1 DEF Dropping
<1> QED BY <1>1, <1>5, <1>6, RunFrame

\* What is taken up is current: it comes whole, or patches a request that is
\* cached and not dropped.
LEMMA RunUpdate ==
  ASSUME TypeInv, PoolInv, FlowInv, HeldInv, RunInv, UpdateCachedRequests
  PROVE  RunInv'
<1>0. PICK d, b : d = executor_pipeline_depth /\ b = Begun
  OBVIOUS
<1> DEFINE o == objects[Head(pending)]
           kept == DOMAIN cached \ (o.finish \cup o.recompute)
<1>1. UNCHANGED <<req, executor_pipeline_depth, recompute_ids, packets>>
  BY Zenon DEF UpdateCachedRequests, engine, transfer
<1>2. /\ b + 1 \in (b + 1)..d /\ b + 1 \in 1..d
      /\ Place(b + 1) = OfPacket(o)
      /\ \A k \in 1..d \ {b + 1} : Place(k)' = Place(k)
      /\ pending # <<>> /\ pending' = Tail(pending)
      /\ \A j \in ToSet(pending') : objects'[j] = objects[j]
      /\ Returned = b
  <2>1. Received(o) # {}
    BY TakenIsNotEmpty
  <2>2. /\ Begun + 1 <= Sent
        /\ Place(Begun + 1) = OfPacket(o)
        /\ \A k \in 1..executor_pipeline_depth \ {Begun + 1} : Place(k)' = Place(k)
        /\ pending # <<>> /\ pending' = Tail(pending)
        /\ \A j \in ToSet(pending') : objects'[j] = objects[j]
        /\ batch = NoBatch
    BY <2>1, PlaceUpdate
  <2>3. b \in 0..2 /\ Sent <= d /\ Sent \in 0..2 /\ d \in 0..2 /\ Returned \in 0..2
    BY <1>0, DepthIs
  <2>4. Returned = b
    BY <2>2, <2>3, <1>0 DEF Begun
  <2> QED BY <2>2, <2>3, <2>4, <1>0
<1>3. /\ Head(pending) \in ToSet(pending)
      /\ ToSet(pending') \subseteq ToSet(pending)
  <2>1. Sequence(pending)
    BY Sizes
  <2>2. /\ Len(pending) > 0 /\ Head(pending) = pending[1]
        /\ DOMAIN pending' = 1..(Len(pending) - 1)
        /\ \A j \in 1..(Len(pending) - 1) : pending'[j] = pending[j + 1]
    BY <1>2, <2>1, SequenceTail
  <2>3. DOMAIN pending = 1..Len(pending) /\ Len(pending) \in Nat
    BY Sizes
  <2>4. 1 \in DOMAIN pending
    BY <2>2, <2>3
  <2>5. \A j \in DOMAIN pending' : j + 1 \in DOMAIN pending /\ pending'[j] = pending[j + 1]
    BY <2>2, <2>3
  <2> QED BY <2>2, <2>4, <2>5 DEF ToSet
<1>4. o \in Undelivered /\ Undelivered' \subseteq Undelivered
  BY <1>1, <1>2, <1>3 DEF Undelivered
<1>5. /\ o \in PacketType
      /\ cached \in Partial(Entry)
      /\ cached' = AfterUpdate(o)
      /\ DOMAIN batch' = Received(o)
      /\ \A r \in DOMAIN batch' : batch'[r] = cached'[r]
  BY UpdateType DEF TypeInv, ExecutorType
<1>6. /\ DOMAIN cached' = kept \cup Received(o)
      /\ \A r \in DOMAIN cached' \ DOMAIN o.patches :
           cached'[r] = IF r \in DOMAIN o.full THEN o.full[r] ELSE cached[r]
      /\ \A r \in DOMAIN o.patches \cap DOMAIN o.full :
           /\ cached'[r].run = o.full[r].run
           /\ cached'[r].embedding = o.full[r].embedding
      /\ \A r \in (DOMAIN o.patches \cap kept) \ DOMAIN o.full :
           /\ cached'[r].run = cached[r].run
           /\ cached'[r].embedding = cached[r].embedding
  BY <1>5, AfterUpdateIs
<1>7. Place(b + 1).drops = o.finish \cup o.recompute /\ Place(b + 1).populated
      /\ Place(b + 1).patched = DOMAIN o.patches
  BY <1>2 DEF OfPacket
<1>8. DOMAIN cached \subseteq Requests
  BY <1>5, PartialElim
<1> HIDE DEF o
<1>9. \A r \in DOMAIN o.patches : r \in kept
  <2>1. Held(b + 1) \subseteq DOMAIN cached
    <3>1. (b + 1) - 1 = b
      BY <1>0, DepthIs
    <3>2. \A j \in 1..b : Place(j).out \subseteq DOMAIN cached
      BY <1>0 DEF HeldInv, BatchesAreCached
    <3> QED BY <3>1, <3>2 DEF Held
  <2>2. DOMAIN o.patches = Place(b + 1).out \cap (Held(b + 1) \ Place(b + 1).drops)
    BY <1>0, <1>2, <1>7 DEF HeldInv, PatchedAreHeld
  <2> QED BY <2>1, <2>2, <1>7
<1>10. \A r \in kept :
         /\ cached[r].embedding = TRUE
         /\ cached[r].run = req[r].run \/ r \in Dropping'
  <2> SUFFICES ASSUME NEW r \in kept, cached[r].run # req[r].run
               PROVE  r \in Dropping'
    BY DEF RunInv, CachedAreCurrent
  <2>1. r \in Dropping /\ r \notin Place(b + 1).drops
    BY <1>7 DEF RunInv, CachedAreCurrent
  <2>2. CASE r \in recompute_ids
    BY <2>2, <1>1 DEF Dropping
  <2>3. CASE r \notin recompute_ids
    <3>1. PICK k \in 1..d : r \in Place(k).drops
      BY <2>1, <2>3, <1>0 DEF Dropping
    <3>2. r \in Place(k)'.drops
      BY <2>1, <3>1, <1>2
    <3> QED BY <3>2, <1>0, <1>1 DEF Dropping
  <2> QED BY <2>2, <2>3
<1>11. \A r \in DOMAIN o.full : o.full[r].run = req[r].run /\ o.full[r].embedding = TRUE
  BY <1>4 DEF RunInv, WholeAreCurrent
<1> HIDE DEF kept
<1>12. CachedAreCurrent'
  <2> SUFFICES ASSUME NEW r \in DOMAIN cached'
               PROVE  /\ cached'[r].embedding = TRUE
                      /\ cached'[r].run = req[r].run \/ r \in Dropping'
    BY <1>1 DEF CachedAreCurrent
  <2>1. CASE r \in DOMAIN o.full
    BY <2>1, <1>6, <1>11
  <2>2. CASE r \notin DOMAIN o.full
    <3>1. r \in kept
      BY <2>2, <1>6, <1>9 DEF Received
    <3>2. cached'[r].run = cached[r].run /\ cached'[r].embedding = cached[r].embedding
      BY <2>2, <3>1, <1>6
    <3> QED BY <3>1, <3>2, <1>10
  <2> QED BY <2>1, <2>2
<1>13. WholeAreCurrent'
  BY <1>1, <1>4 DEF RunInv, WholeAreCurrent
<1>14. BatchIsCached'
  BY <1>5, <1>6 DEF BatchIsCached
<1> QED BY <1>12, <1>13, <1>14 DEF RunInv

\* The last token's way back to the Engine leaves what the Executor has.
LEMMA RunReturn ==
  ASSUME TypeInv, PoolInv, FlowInv, RunInv, UpdateWithGenerationResult
  PROVE  RunInv'
<1>0. PICK d : d = executor_pipeline_depth
  OBVIOUS
<1>1. /\ d \in 1..2 /\ executor_pipeline_depth' = d - 1
      /\ \A k \in 1..(d - 1) : Place(k)' = Place(k + 1)
      /\ Place(1).drops = {}
  BY <1>0, PlaceReturn DEF OfBatch
<1>2. UNCHANGED <<recompute_ids, packets, objects, pending, cached, batch>>
  BY Zenon DEF UpdateWithGenerationResult, transfer, executor
<1>3. \A r \in Requests : req'[r].run = req[r].run
  BY ReturnType DEF TypeInv, ExecutorType
<1>4. Undelivered' = Undelivered
  BY <1>2 DEF Undelivered
<1>5. Dropping \subseteq Dropping'
  <2> SUFFICES ASSUME NEW k \in 1..d, NEW r \in Place(k).drops PROVE r \in Dropping'
    BY <1>0, <1>2 DEF Dropping
  <2>1. k # 1
    BY <1>1
  <2>2. k - 1 \in 1..(d - 1) /\ (k - 1) + 1 = k
    BY <2>1, <1>1
  <2>3. Place(k - 1)' = Place(k)
    BY <2>2, <1>1
  <2> QED BY <2>2, <2>3, <1>1 DEF Dropping
<1> QED BY <1>2, <1>3, <1>4, <1>5, RunFrame

\* What is to be dropped goes with the output that is launched.
LEMMA RunLaunch ==
  ASSUME TypeInv, PoolInv, FlowInv, RunInv, LaunchScheduleOutput
  PROVE  RunInv'
<1>0. PICK d : d = executor_pipeline_depth
  OBVIOUS
<1>1. /\ d \in 0..1 /\ executor_pipeline_depth' = d + 1
      /\ \A k \in 1..d : Place(k)' = Place(k)
      /\ Place(d + 1)'.drops = finish_ids \cup recompute_ids
  BY <1>0, LaunchedPlace
<1>2. UNCHANGED <<packets, objects, pending, cached, batch>>
  BY Zenon DEF LaunchScheduleOutput, executor
<1>3. \A r \in Requests : req'[r].run = req[r].run
  BY LaunchType DEF TypeInv
<1>4. Undelivered' = Undelivered
  BY <1>2 DEF Undelivered
<1>5. Dropping \subseteq Dropping'
  <2>1. 1..(d + 1) = (1..d) \cup {d + 1}
    BY <1>1
  <2>2. \A r : r \in Dropping' <=>
          r \in recompute_ids' \/ \E k \in 1..(d + 1) : r \in Place(k)'.drops
    BY <1>1 DEF Dropping
  <2>3. \A r : r \in Dropping <=>
          r \in recompute_ids \/ \E k \in 1..d : r \in Place(k).drops
    BY <1>0 DEF Dropping
  <2> QED BY <2>1, <2>2, <2>3, <1>1
<1> QED BY <1>2, <1>3, <1>4, <1>5, RunFrame

\* The mode says how a request is sent, and not of which run.
LEMMA RunMode ==
  ASSUME TypeInv, PoolInv, FlowInv, RunInv, SetInferRequestTransferMode,
         Dropping' = Dropping
  PROVE  RunInv'
<1>1. UNCHANGED <<packets, objects, pending, cached, batch>>
  BY DEF SetInferRequestTransferMode, executor
<1>2. \A r \in Requests : req'[r].run = req[r].run
  BY ModeType DEF TypeInv
<1>3. Undelivered' = Undelivered
  BY <1>1 DEF Undelivered
<1> QED BY <1>1, <1>2, <1>3, RunFrame

-----------------------------------------------------------------------------
(* The inductive invariant *)

IInv == TypeInv /\ PoolInv /\ FlowInv /\ HeldInv /\ RunInv

\* Steps within the Engine: planning, and requests that are stopped.
LEMMA EngineFrame ==
  ASSUME IInv, PlannedHaveTasks',
         UNCHANGED <<executor_pipeline_depth, finish_ids, recompute_ids, transfer,
                     executor, results>>,
         \A r \in Requests : \A f \in {"inflight", "infer_stage", "ended", "run"} :
           req'[r][f] = req[r][f]
  PROVE  PoolInv' /\ FlowInv' /\ HeldInv' /\ RunInv'
<1>1. /\ TypeInv /\ PoolInv /\ FlowInv /\ HeldInv /\ RunInv
      /\ UNCHANGED <<launched, transferred, packets, objects, free_queue, pending,
                     current, cached, batch>>
  BY Zenon DEF IInv, transfer, executor
<1>2. \A r \in Requests : /\ req'[r].inflight = req[r].inflight
                          /\ req'[r].infer_stage = req[r].infer_stage
                          /\ req'[r].ended = req[r].ended
                          /\ req'[r].run = req[r].run
  OBVIOUS
<1>3. /\ Begun' = Begun /\ Sent' = Sent /\ \A k : Place(k)' = Place(k)
  BY <1>1, PlaceFrame
<1>4. PoolInv'
  BY <1>1, FramePool
<1>5. FlowInv'
  <2>1. AllFrozen'
    BY <1>1 DEF FlowInv, AllFrozen
  <2> QED BY <2>1, <1>1, <1>2, <1>3, FlowFrame
<1>6. HeldInv'
  <2>1. \A k \in 1..executor_pipeline_depth : Place(k).out \subseteq Requests
    BY <1>1 DEF FlowInv, StepsInFlight
  <2> QED BY <2>1, <1>1, <1>2, <1>3, HeldFrame
<1>7. RunInv'
  <2>1. Undelivered' = Undelivered
    BY <1>1 DEF Undelivered
  <2>2. Dropping' = Dropping
    BY <1>3 DEF Dropping
  <2> QED BY <2>1, <2>2, <1>1, <1>2, RunFrame
<1> QED BY <1>4, <1>5, <1>6, <1>7

\* Steps that pass an output on, and leave it at its place.
LEMMA PipeFrame ==
  ASSUME IInv, UNCHANGED <<engine, launched, transferred, cached>>,
         Begun' = Begun, Sent' = Sent,
         \A k \in 1..executor_pipeline_depth : Place(k)' = Place(k)
  PROVE  FlowInv' /\ HeldInv'
<1>1. /\ TypeInv /\ PoolInv /\ FlowInv /\ HeldInv
      /\ UNCHANGED <<req, planned, executor_pipeline_depth, finish_ids,
                     recompute_ids>>
  BY DEF IInv, engine
<1>2. FlowInv'
  <2>1. AllFrozen' /\ PlannedHaveTasks'
    BY <1>1 DEF FlowInv, AllFrozen, PlannedHaveTasks, HasPlanningTask
  <2> QED BY <2>1, <1>1, FlowFrame
<1>3. HeldInv'
  <2>1. \A k \in 1..executor_pipeline_depth : Place(k).out \subseteq Requests
    BY <1>1 DEF FlowInv, StepsInFlight
  <2> QED BY <2>1, <1>1, HeldFrame
<1> QED BY <1>2, <1>3

\* The initial states have every part.
LEMMA InitInv == Init => IInv
BY InitType, InitPool, InitFlow, InitHeld, InitRun DEF IInv

\* Every step keeps every part.
LEMMA NextInv == IInv /\ [Next]_vars => IInv'
<1> SUFFICES ASSUME IInv, [Next]_vars PROVE IInv'
  OBVIOUS
<1>0. TypeInv /\ PoolInv /\ FlowInv /\ HeldInv /\ RunInv /\ TypeInv'
  BY NextType DEF IInv
<1>1. CASE Schedule
  <2>1. /\ \A r \in planned' : req'[r].task # NoTask
        /\ \A r \in Requests : \A f \in {"inflight", "infer_stage", "ended", "run"} :
             req'[r][f] = req[r][f]
    BY <1>0, <1>1, ScheduleType DEF TypeInv
  <2>2. UNCHANGED <<executor_pipeline_depth, finish_ids, recompute_ids, transfer,
                    executor, results>>
    BY <1>1, Zenon DEF Schedule
  <2>3. PlannedHaveTasks'
    BY <2>1 DEF PlannedHaveTasks, HasPlanningTask
  <2> QED BY <2>1, <2>2, <2>3, <1>0, EngineFrame DEF IInv
<1>2. CASE DropStopped \/ DropStaleOutput
  <2>1. /\ planned' \subseteq planned /\ req' = req
        /\ UNCHANGED <<executor_pipeline_depth, finish_ids, recompute_ids, transfer,
                       executor, results>>
    BY <1>2 DEF DropStopped, DropStaleOutput, NoPlan
  <2>2. PlannedHaveTasks'
    BY <2>1, <1>0 DEF FlowInv, PlannedHaveTasks, HasPlanningTask
  <2> QED BY <2>1, <2>2, <1>0, EngineFrame DEF IInv
<1>3. CASE LaunchScheduleOutput
  BY <1>0, <1>3, LaunchPool, FlowLaunch, HeldLaunch, RunLaunch DEF IInv
<1>4. CASE UpdateWithGenerationResult
  BY <1>0, <1>4, ReturnPool, FlowReturn, HeldReturn, RunReturn DEF IInv
<1>5. ASSUME NEW r \in Requests, Stop(r) PROVE IInv'
  <2>1. \A x \in Requests :
          \A f \in {"inflight", "infer_stage", "ended", "run", "task"} :
            req'[x][f] = req[x][f]
    BY <1>0, <1>5, StopType DEF TypeInv
  <2>2. UNCHANGED <<planned, executor_pipeline_depth, finish_ids, recompute_ids,
                    transfer, executor, results>>
    BY <1>5 DEF Stop
  <2>3. PlannedHaveTasks'
    BY <2>1, <2>2, <1>0 DEF FlowInv, PlannedHaveTasks, HasPlanningTask, TypeInv,
                            EngineType
  <2>4. \A x \in Requests : \A f \in {"inflight", "infer_stage", "ended", "run"} :
          req'[x][f] = req[x][f]
    BY <2>1
  <2> QED BY <2>2, <2>3, <2>4, <1>0, EngineFrame DEF IInv
<1>6. ASSUME NEW r \in Requests, Recompute(r) PROVE IInv'
  <2>1. PoolInv'
    <3>1. UNCHANGED <<executor_pipeline_depth, launched, packets, objects,
                      free_queue, pending, current, batch, results>>
      BY <1>6 DEF Recompute, transfer, executor
    <3> QED BY <3>1, <1>0, FramePool
  <2> QED BY <2>1, <1>0, <1>6, FlowRecompute, HeldRecompute, RunRecompute DEF IInv
<1>7. CASE SetInferRequestTransferMode
  <2>1. PoolInv'
    <3>1. Len(launched') = Len(launched)
      BY <1>0, <1>7, ModeType DEF TypeInv
    <3>2. UNCHANGED <<executor_pipeline_depth, packets, objects, free_queue,
                      pending, current, batch, results>>
      BY <1>7 DEF SetInferRequestTransferMode, executor
    <3> QED BY <3>1, <3>2, <1>0, FramePool
  <2>2. FlowInv' /\ HeldInv' /\ Dropping' = Dropping
    BY <1>0, <1>7, HeldMode
  <2>3. RunInv'
    BY <2>2, <1>0, <1>7, RunMode
  <2> QED BY <2>1, <2>2, <2>3, <1>0 DEF IInv
<1>8. CASE PutSendScheduleOutput
  BY <1>0, <1>8, SendPool, HeldSend, RunSend DEF IInv
<1>9. CASE Receive
  <2>1. /\ Begun' = Begun /\ Sent' = Sent
        /\ \A k \in 1..executor_pipeline_depth : Place(k)' = Place(k)
        /\ PoolInv'
    BY <1>0, <1>9, PlaceReceive, ReceivePool
  <2>2. UNCHANGED <<engine, launched, transferred, cached>>
    BY <1>9, Zenon DEF Receive
  <2>3. RunInv'
    BY <1>0, <1>9, RunReceive
  <2> QED BY <2>1, <2>2, <2>3, <1>0, PipeFrame DEF IInv
<1>10. CASE UpdateCachedRequests
  <2>1. PoolInv'
    BY <1>0, <1>10, TakenIsNotEmpty, UpdatePool
  <2> QED BY <2>1, <1>0, <1>10, HeldUpdate, RunUpdate DEF IInv
<1>11. CASE Report
  <2>1. /\ Begun' = Begun /\ Sent' = Sent
        /\ \A k \in 1..executor_pipeline_depth : Place(k)' = Place(k)
        /\ PoolInv'
    BY <1>0, <1>11, PlaceReport, ReportPool
  <2>2. UNCHANGED <<engine, launched, transferred, cached, packets, objects,
                    pending>> /\ batch' = NoBatch
    BY <1>11 DEF Report, transfer
  <2>3. UNCHANGED <<req, recompute_ids, executor_pipeline_depth>>
    BY <2>2 DEF engine
  <2>4. Undelivered' = Undelivered /\ Dropping' = Dropping
    BY <2>1, <2>2, <2>3 DEF Undelivered, Dropping
  <2>5. RunInv'
    BY <2>2, <2>3, <2>4, <1>0, RunFrame
  <2> QED BY <2>1, <2>2, <2>5, <1>0, PipeFrame DEF IInv
<1>12. CASE FreeScheduleOutput
  <2>1. /\ Begun' = Begun /\ Sent' = Sent
        /\ \A k \in 1..executor_pipeline_depth : Place(k)' = Place(k)
        /\ PoolInv' /\ \A j \in ToSet(pending) : objects'[j] = objects[j]
    BY <1>0, <1>12, PlaceFree, FreePool
  <2>2. UNCHANGED <<engine, launched, transferred, cached, packets, pending, batch>>
    BY <1>12 DEF FreeScheduleOutput, transfer
  <2>3. UNCHANGED <<req, recompute_ids, executor_pipeline_depth>>
    BY <2>2 DEF engine
  <2>4. Undelivered' = Undelivered /\ Dropping' = Dropping
    BY <2>1, <2>2, <2>3 DEF Undelivered, Dropping
  <2>5. RunInv'
    BY <2>2, <2>3, <2>4, <1>0, RunFrame
  <2> QED BY <2>1, <2>2, <2>5, <1>0, PipeFrame DEF IInv
<1>13. CASE Idle \/ UNCHANGED vars
  <2>1. UNCHANGED vars
    BY <1>13 DEF Idle
  <2>2. /\ UNCHANGED <<executor_pipeline_depth, finish_ids, recompute_ids, transfer,
                       executor, results>>
        /\ UNCHANGED <<req, planned>>
    BY <2>1 DEF vars, engine
  <2>3. PlannedHaveTasks'
    BY <2>2, <1>0 DEF FlowInv, PlannedHaveTasks, HasPlanningTask
  <2> QED BY <2>2, <2>3, <1>0, EngineFrame DEF IInv
<1> QED BY <1>1, <1>2, <1>3, <1>4, <1>5, <1>6, <1>7, <1>8, <1>9, <1>10, <1>11,
           <1>12, <1>13 DEF Next

\* In every state.
THEOREM Invariant == Spec => []IInv
<1>1. Init => IInv
  BY InitInv
<1>2. IInv /\ [Next]_vars => IInv'
  BY NextInv
<1> QED BY <1>1, <1>2, PTL DEF Spec

-----------------------------------------------------------------------------
(* What the runs check *)

\* Every object of the pool is free, waiting or in use, each in one place, and
\* there are never more than three, for any number of requests: they follow from
\* PoolInv.
LEMMA PoolOfInv == IInv => PoolBounded
<1> SUFFICES ASSUME IInv PROVE PoolBounded
  OBVIOUS
<1>1. EachInOnePlace /\ Len(objects) <= kExecutorPipelineMaxDepth + 1
  BY DEF IInv, PoolInv
<1>2. DOMAIN objects = 1..Len(objects) /\ Len(objects) \in Nat
  BY Sizes DEF IInv
<1>3. Cardinality(DOMAIN objects) = Len(objects)
  <2>1. Cardinality(1..Len(objects)) =
          IF 1 > Len(objects) THEN 0 ELSE Len(objects) - 1 + 1
    BY <1>2, FS_Interval
  <2> QED BY <2>1, <1>2
<1> QED BY <1>1, <1>3, Zenon DEF PoolBounded, EachInOnePlace

\* ScheduleOutputPool never has more than three objects, each of them free, waiting
\* or in use, although GetFreeScheduleOutput bounds nothing.
THEOREM PoolBoundedCorrect == Spec => []PoolBounded
BY Invariant, PoolOfInv, PTL

\* The values stay in their bounds.
LEMMA TypesOfInv == IInv => TypeOK
<1> SUFFICES ASSUME IInv PROVE TypeOK
  OBVIOUS
<1>1. TypeInv /\ PoolInv /\ FlowInv
  BY DEF IInv
<1>2. ASSUME NEW r \in Requests
      PROVE  /\ StepOf(req[r], None) \in StepType
             /\ req[r].task \in {NoTask} \cup 0..TextLen
             /\ Len(req[r].inflight) <= max_depth
  <2>1. req[r] \in ReqType
    BY <1>1 DEF TypeInv, EngineType
  <2>2. StepOf(req[r], None) \in StepType
    BY <2>1, StepOfType, NoneIsLength
  <2>3. req[r].task \in {NoTask} \cup 0..TextLen
    BY <2>1 DEF ReqType, Lengths
  <2>4. Len(req[r].inflight) <= max_depth
    BY <1>1, InFlight DEF max_depth
  <2> QED BY <2>2, <2>3, <2>4
<1>3. executor_pipeline_depth \in 0..kExecutorPipelineMaxDepth
  BY <1>1, DepthIs DEF kExecutorPipelineMaxDepth
<1>4. ASSUME NEW i \in DOMAIN launched, NEW r \in DOMAIN launched[i].snapshots
      PROVE  launched[i].snapshots[r].step \in StepType
  <2>1. launched[i] \in LaunchedType
    BY <1>1, LenProperties DEF TypeInv, TransferType
  <2>2. launched[i].snapshots \in Partial(SnapshotType)
    BY <2>1 DEF LaunchedType
  <2>3. launched[i].snapshots[r] \in SnapshotType
    BY <2>2, PartialElim
  <2> QED BY <2>3 DEF SnapshotType
<1>5. ToSet(free_queue) \cup ToSet(pending) \subseteq DOMAIN objects
  BY <1>1 DEF PoolInv, EachInOnePlace
<1>6. current \in {None} \cup DOMAIN objects
  BY <1>1 DEF TypeInv, ExecutorType
<1>7. DOMAIN cached \subseteq Requests /\ \A r \in DOMAIN cached : cached[r].step \in StepType
  <2>1. cached \in Partial(Entry)
    BY <1>1 DEF TypeInv, ExecutorType
  <2>2. DOMAIN cached \subseteq Requests /\ \A r \in DOMAIN cached : cached[r] \in Entry
    BY <2>1, PartialElim
  <2> QED BY <2>2 DEF Entry
<1>8. planned \subseteq Requests /\ transferred \subseteq Requests
  BY <1>1 DEF TypeInv, EngineType, TransferType
<1> QED BY <1>2, <1>3, <1>4, <1>5, <1>6, <1>7, <1>8 DEF TypeOK

\* A request that is run has a step in flight, so nothing under way drops it: its
\* cached entry is of its present run, and has the embedding.
LEMMA CompleteOfInv == IInv => PatchesHaveBase /\ EmbeddingArrives
<1> SUFFICES ASSUME IInv, NEW r \in DOMAIN batch
             PROVE  batch[r].run = req[r].run /\ batch[r].embedding
  BY DEF PatchesHaveBase, EmbeddingArrives
<1>0. PICK d, b : d = executor_pipeline_depth /\ b = Begun
  OBVIOUS
<1>1. TypeInv /\ PoolInv /\ FlowInv /\ RunInv
  BY DEF IInv
<1>2. /\ r \in DOMAIN cached /\ batch[r] = cached[r]
      /\ cached[r].embedding = TRUE
      /\ cached[r].run = req[r].run \/ r \in Dropping
  BY <1>1 DEF RunInv, BatchIsCached, CachedAreCurrent
<1>3. batch # NoBatch
  BY DEF NoBatch
<1>4. /\ b \in 1..d /\ b = Returned + 1 /\ Returned \in 0..2
      /\ Place(b).out = DOMAIN batch /\ \A k \in 1..b : Place(k).drops = {}
  <2>1. b = Returned + 1
    BY <1>0, <1>3 DEF Begun
  <2>2. d \in 0..2 /\ b \in 0..2 /\ Returned \in 0..2 /\ b <= Sent /\ Sent <= d /\ Sent \in 0..2
    BY <1>0, <1>1, DepthIs
  <2>3. b \in 1..d /\ ~(b <= Returned) /\ b <= Begun
    BY <1>0, <2>1, <2>2
  <2>4. Place(b).out = DOMAIN batch
    BY <2>3 DEF Place, OfBatch
  <2>5. \A k \in 1..b : Place(k).drops = {}
    BY <1>0 DEF Place, OfBatch
  <2> QED BY <2>1, <2>2, <2>3, <2>4, <2>5
<1>5. r \notin recompute_ids
  <2>1. r \in Requests
    BY <1>0, <1>1, <1>4 DEF FlowInv, StepsInFlight
  <2>2. req[r].inflight # <<>>
    BY <2>1, <1>0, <1>1, <1>4, InFlight
  <2> QED BY <2>2, <1>1 DEF FlowInv, DroppedIsDrained
<1>6. ASSUME NEW k \in 1..d PROVE r \notin Place(k).drops
  <2>1. CASE k \in 1..b
    BY <2>1, <1>4
  <2>2. CASE k \notin 1..b
    <3>1. b \in 1..(k - 1)
      BY <2>2, <1>4
    <3> QED BY <3>1, <1>0, <1>1, <1>4 DEF FlowInv, DropsNoneBefore
  <2> QED BY <2>1, <2>2
<1>7. r \notin Dropping
  BY <1>0, <1>5, <1>6 DEF Dropping
<1> QED BY <1>2, <1>7

\* What is run is complete: every request in the batch is of the run the Engine
\* has it in, and its embedding has arrived, for every interleaving of launches,
\* returns, transfer modes and serialization.
THEOREM RequestsCompleteCorrect == Spec => []RequestsComplete
<1>1. IInv => RequestsComplete
  BY TypesOfInv, CompleteOfInv DEF RequestsComplete
<1> QED BY <1>1, Invariant, PTL

-----------------------------------------------------------------------------
(* The FIFO of launches that the transfer implements *)

\* The abstract queue is what is at the places behind the batch, the abstract
\* batch the steps that are run.
QueueIs ==
  \A b, d : b = Begun /\ d = executor_pipeline_depth =>
    /\ b \in 0..2 /\ d \in 0..2 /\ b <= d
    /\ Sequence(InOrder)
    /\ Len(InOrder) = d - b
    /\ \A j \in 1..(d - b) : InOrder[j] = Place(b + j).item

Running == [r \in DOMAIN batch |-> batch[r].step]

\* The three stretches of InOrder, at their places.
LEMMA QueueOfInv == IInv => QueueIs
<1> SUFFICES ASSUME IInv, NEW b, NEW d, b = Begun, d = executor_pipeline_depth
             PROVE  /\ b \in 0..2 /\ d \in 0..2 /\ b <= d
                    /\ Sequence(InOrder)
                    /\ Len(InOrder) = d - b
                    /\ \A j \in 1..(d - b) : InOrder[j] = Place(b + j).item
  BY DEF QueueIs
<1>0. TypeInv /\ PoolInv /\ AllFrozen
  BY DEF IInv, FlowInv
<1> DEFINE p == Len(pending)
           q == Len(packets)
           l == Len(launched)
           A == [i \in DOMAIN pending |-> Steps(objects[pending[i]])]
           B == [i \in DOMAIN packets |-> Steps(packets[i])]
           C == [i \in DOMAIN launched |->
                   [r \in launched[i].running |-> StepFor(launched[i], r)]]
<1>1. /\ b \in 0..2 /\ d \in 0..2 /\ Returned \in 0..2 /\ Returned <= b
      /\ d = Sent + l
  BY <1>0, DepthIs
<1>2. /\ p \in Nat /\ q \in Nat /\ l \in Nat
      /\ DOMAIN pending = 1..p /\ DOMAIN packets = 1..q /\ DOMAIN launched = 1..l
      /\ Rebuilt = b + p /\ Sent = Rebuilt + q
  BY <1>0, Sizes
<1>3. InOrder = (A \o B) \o C
  BY DEF InOrder
<1>4. /\ A = [i \in 1..p |-> A[i]] /\ B = [i \in 1..q |-> B[i]]
      /\ C = [i \in 1..l |-> C[i]]
  BY <1>2
<1>5. \A i \in 1..p : A[i] = OfPacket(objects[pending[i]]).item
  BY <1>2 DEF OfPacket
<1>6. \A i \in 1..q : B[i] = OfPacket(packets[i]).item
  BY <1>2 DEF OfPacket
<1>7. \A i \in 1..l : C[i] = OfOutput(launched[i]).item
  BY <1>0, <1>2 DEF AllFrozen, OfOutput, StepFor
<1> HIDE DEF A, B, C, p, q, l
<1>8. /\ Sequence(A) /\ Len(A) = p /\ Sequence(B) /\ Len(B) = q
      /\ Sequence(C) /\ Len(C) = l
  BY <1>2, <1>4, SequenceOfFunction
<1> DEFINE D == A \o B
<1>9. /\ Sequence(D) /\ Len(D) = p + q
      /\ \A i \in 1..(p + q) : D[i] = IF i <= p THEN A[i] ELSE B[i - p]
  BY <1>8, SequenceConcat
<1>9a. InOrder = D \o C
  BY <1>3
<1> HIDE DEF D
<1>10. /\ Sequence(InOrder) /\ Len(InOrder) = (p + q) + l
       /\ \A i \in 1..((p + q) + l) :
            InOrder[i] = IF i <= p + q THEN D[i] ELSE C[i - (p + q)]
  <2>1. /\ Sequence(D \o C) /\ Len(D \o C) = Len(D) + Len(C)
        /\ \A i \in 1..(Len(D) + Len(C)) :
             (D \o C)[i] = IF i <= Len(D) THEN D[i] ELSE C[i - Len(D)]
    BY <1>8, <1>9, SequenceConcat
  <2> QED BY <2>1, <1>8, <1>9, <1>9a
<1>11. d - b = (p + q) + l /\ b <= d
  BY <1>1, <1>2
<1>12. ASSUME NEW j \in 1..(d - b) PROVE InOrder[j] = Place(b + j).item
  <2>0. j \in 1..((p + q) + l) /\ ~(b + j <= Returned) /\ ~(b + j <= b)
        /\ (b + j) - b = j
    BY <1>1, <1>11
  <2>1. CASE j <= p
    <3>1. /\ j \in 1..p /\ j <= p + q /\ j \in 1..(p + q) /\ b + j <= Rebuilt
      BY <2>0, <2>1, <1>1, <1>2
    <3>2. InOrder[j] = A[j]
      BY <2>0, <2>1, <3>1, <1>9, <1>10
    <3>3. Place(b + j) = OfPacket(objects[pending[j]])
      BY <2>0, <3>1 DEF Place
    <3> QED BY <3>1, <3>2, <3>3, <1>5
  <2>2. CASE ~(j <= p) /\ j <= p + q
    <3>1. /\ j \in 1..(p + q) /\ j - p \in 1..q
          /\ ~(b + j <= Rebuilt) /\ b + j <= Sent /\ (b + j) - Rebuilt = j - p
      BY <2>0, <2>2, <1>1, <1>2
    <3>2. InOrder[j] = B[j - p]
      BY <2>0, <2>2, <3>1, <1>9, <1>10
    <3>3. Place(b + j) = OfPacket(packets[j - p])
      BY <2>0, <3>1 DEF Place
    <3> QED BY <3>1, <3>2, <3>3, <1>6
  <2>3. CASE ~(j <= p + q)
    <3>1. /\ j - (p + q) \in 1..l
          /\ ~(b + j <= Rebuilt) /\ ~(b + j <= Sent)
          /\ (b + j) - Sent = j - (p + q)
      BY <2>0, <2>3, <1>1, <1>2
    <3>2. InOrder[j] = C[j - (p + q)]
      BY <2>0, <2>3, <1>10
    <3>3. Place(b + j) = OfOutput(launched[j - (p + q)])
      BY <2>0, <3>1 DEF Place
    <3> QED BY <3>1, <3>2, <3>3, <1>7
  <2>4. j <= p => j <= p + q
    BY <2>0, <1>2
  <2> QED BY <2>1, <2>2, <2>3, <2>4
<1> QED BY <1>1, <1>10, <1>11, <1>12

\* The same of the next state.
LEMMA NextQueue == IInv' => QueueIs'
BY QueueOfInv, PTL

\* The abstract batch is empty when there is no batch.
LEMMA RunningIsNone ==
  ASSUME batch \in Partial(Entry)
  PROVE  Running = <<>> <=> batch = NoBatch
<1>1. DOMAIN <<>> = {} /\ <<>> \in [{} -> {}]
  BY EmptyPartial
<1>2. DOMAIN Running = DOMAIN batch /\ Running = [r \in DOMAIN Running |-> Running[r]]
  BY DEF Running
<1>3. batch = [r \in DOMAIN batch |-> batch[r]]
  BY DEF Partial
<1>4. <<>> = [r \in {} |-> r]
  BY <1>1
<1>5. ASSUME Running = <<>> PROVE batch = NoBatch
  <2>1. DOMAIN batch = {}
    BY <1>1, <1>2, <1>5
  <2> QED BY <2>1, <1>3, <1>4 DEF NoBatch
<1>6. ASSUME batch = NoBatch PROVE Running = <<>>
  <2>1. DOMAIN Running = {}
    BY <1>1, <1>2, <1>6 DEF NoBatch
  <2> QED BY <2>1, <1>2, <1>4
<1> QED BY <1>5, <1>6

\* Steps that leave the places leave the queue.
LEMMA QueueStays ==
  ASSUME QueueIs, QueueIs', Begun' = Begun,
         executor_pipeline_depth' = executor_pipeline_depth,
         \A k \in 1..executor_pipeline_depth : Place(k)'.item = Place(k).item
  PROVE  InOrder' = InOrder
<1>0. PICK b, d : b = Begun /\ d = executor_pipeline_depth
  OBVIOUS
<1>1. /\ b \in 0..2 /\ d \in 0..2 /\ Sequence(InOrder) /\ Len(InOrder) = d - b
      /\ \A j \in 1..(d - b) : InOrder[j] = Place(b + j).item
  BY <1>0 DEF QueueIs
<1>2. /\ Sequence(InOrder') /\ Len(InOrder') = d - b
      /\ \A j \in 1..(d - b) : InOrder'[j] = Place(b + j)'.item
  BY <1>0 DEF QueueIs, Sequence
<1>3. \A j \in 1..(d - b) : b + j \in 1..d
  BY <1>1
<1>4. \A j \in 1..Len(InOrder) : InOrder[j] = InOrder'[j]
  BY <1>0, <1>1, <1>2, <1>3
<1> QED BY <1>1, <1>2, <1>4, SequenceEqual

\* Steps of the abstract FIFO that change nothing in it.
LEMMA ChannelStays ==
  ASSUME InOrder' = InOrder, batch' = batch
  PROVE  UNCHANGED Channel!vars
BY DEF Channel!vars

\* A launch appends, at the place behind all others.
LEMMA ChannelLaunch ==
  ASSUME IInv, QueueIs, QueueIs', LaunchScheduleOutput
  PROVE  Channel!Launch
<1>0. PICK b, d : b = Begun /\ d = executor_pipeline_depth
  OBVIOUS
<1>1. /\ executor_pipeline_depth' = d + 1 /\ Begun' = b
      /\ \A k \in 1..d : Place(k)' = Place(k)
  BY <1>0, LaunchedPlace DEF IInv
<1>2. batch' = batch
  BY Zenon DEF LaunchScheduleOutput, executor
<1>3. /\ b \in 0..2 /\ d \in 0..2 /\ b <= d
      /\ Sequence(InOrder) /\ Len(InOrder) = d - b
      /\ \A j \in 1..(d - b) : InOrder[j] = Place(b + j).item
  BY <1>0 DEF QueueIs
<1>4. /\ Sequence(InOrder') /\ Len(InOrder') = (d + 1) - b
      /\ \A j \in 1..((d + 1) - b) : InOrder'[j] = Place(b + j)'.item
  BY <1>0, <1>1 DEF QueueIs, Sequence
<1>5. \A j \in 1..(d - b) : j \in 1..((d + 1) - b) /\ b + j \in 1..d
  BY <1>3
<1>6. Len(InOrder') = Len(InOrder) + 1 /\ \A j \in 1..Len(InOrder) : InOrder'[j] = InOrder[j]
  BY <1>1, <1>3, <1>4, <1>5
<1>7. SubSeq(InOrder', 1, Len(InOrder)) = InOrder
  BY <1>3, <1>4, <1>6, SequencePrefix
<1> QED BY <1>2, <1>6, <1>7 DEF Channel!Launch

\* What is returned had left the queue, and every place moves up by one.
LEMMA ChannelReturn ==
  ASSUME IInv, QueueIs, QueueIs', UpdateWithGenerationResult
  PROVE  UNCHANGED Channel!vars
<1>0. PICK b, d : b = Begun /\ d = executor_pipeline_depth
  OBVIOUS
<1>1. /\ executor_pipeline_depth' = d - 1 /\ Begun' = b - 1
      /\ \A k \in 1..(d - 1) : Place(k)' = Place(k + 1)
      /\ b > 0
  <2>1. Returned > 0 /\ Returned \in 0..2 /\ Returned <= Begun /\ Begun \in 0..2
    BY PlaceReturn, DepthIs DEF IInv
  <2> QED BY <2>1, <1>0, PlaceReturn DEF IInv
<1>2. batch' = batch
  BY Zenon DEF UpdateWithGenerationResult, executor
<1>3. /\ b \in 0..2 /\ d \in 0..2 /\ b <= d
      /\ Sequence(InOrder) /\ Len(InOrder) = d - b
      /\ \A j \in 1..(d - b) : InOrder[j] = Place(b + j).item
  BY <1>0 DEF QueueIs
<1>4. /\ Sequence(InOrder') /\ Len(InOrder') = (d - 1) - (b - 1)
      /\ \A j \in 1..((d - 1) - (b - 1)) : InOrder'[j] = Place((b - 1) + j)'.item
  BY <1>0, <1>1 DEF QueueIs, Sequence
<1>5. (d - 1) - (b - 1) = d - b
  BY <1>3
<1>6. ASSUME NEW j \in 1..(d - b) PROVE InOrder'[j] = InOrder[j]
  <2>1. (b - 1) + j \in 1..(d - 1) /\ ((b - 1) + j) + 1 = b + j
    BY <1>1, <1>3
  <2>2. Place((b - 1) + j)' = Place(b + j)
    BY <2>1, <1>1
  <2> QED BY <2>2, <1>3, <1>4, <1>5
<1>7. InOrder' = InOrder
  BY <1>3, <1>4, <1>5, <1>6, SequenceEqual
<1> QED BY <1>2, <1>7, ChannelStays

\* What is run are the steps of the packet that is taken up.
LEMMA RunningIsTaken ==
  ASSUME TypeInv, UpdateCachedRequests
  PROVE  Running' = Steps(objects[Head(pending)])
<1> DEFINE o == objects[Head(pending)]
<1>1. /\ o \in PacketType /\ cached \in Partial(Entry)
      /\ cached' = AfterUpdate(o)
      /\ DOMAIN batch' = Received(o)
      /\ \A r \in DOMAIN batch' : batch'[r] = cached'[r]
  BY UpdateType DEF TypeInv, ExecutorType
<1> HIDE DEF o
<1>2. /\ DOMAIN cached' = (DOMAIN cached \ (o.finish \cup o.recompute)) \cup Received(o)
      /\ \A r \in DOMAIN cached' \ DOMAIN o.patches :
           cached'[r] = IF r \in DOMAIN o.full THEN o.full[r] ELSE cached[r]
      /\ \A r \in DOMAIN o.patches : cached'[r].step = o.patches[r].step
  BY <1>1, AfterUpdateIs
<1>3. ASSUME NEW r \in Received(o)
      PROVE  batch'[r].step = IF r \in DOMAIN o.patches THEN o.patches[r].step
                                                        ELSE o.full[r].step
  <2>1. batch'[r] = cached'[r] /\ r \in DOMAIN cached'
    BY <1>1, <1>2
  <2>2. CASE r \in DOMAIN o.patches
    BY <2>1, <2>2, <1>2
  <2>3. CASE r \notin DOMAIN o.patches
    <3>1. r \in DOMAIN o.full
      BY <2>3 DEF Received
    <3> QED BY <2>1, <2>3, <3>1, <1>2
  <2> QED BY <2>2, <2>3
<1>4. Running' = [r \in Received(o) |-> batch'[r].step]
  BY <1>1 DEF Running
<1>5. Steps(o) = [r \in Received(o) |-> IF r \in DOMAIN o.patches
                                          THEN o.patches[r].step ELSE o.full[r].step]
  BY DEF Steps
<1>6. Running' = Steps(o)
  BY <1>3, <1>4, <1>5
<1> QED BY <1>6 DEF o

\* The oldest output of the queue is taken up, as it was launched.
LEMMA ChannelRun ==
  ASSUME IInv, QueueIs, QueueIs', UpdateCachedRequests
  PROVE  Channel!Run
<1>0. PICK b, d : b = Begun /\ d = executor_pipeline_depth
  OBVIOUS
<1> DEFINE o == objects[Head(pending)]
<1>1. TypeInv /\ PoolInv /\ FlowInv
  BY DEF IInv
<1>2. /\ Begun' = b + 1 /\ b + 1 \in 1..d
      /\ Place(b + 1) = OfPacket(o)
      /\ \A k \in 1..d \ {b + 1} : Place(k)' = Place(k)
      /\ batch = NoBatch
  <2>1. Received(o) # {}
    BY <1>1, TakenIsNotEmpty
  <2>2. /\ Begun' = Begun + 1 /\ Begun + 1 <= Sent
        /\ Place(Begun + 1) = OfPacket(o)
        /\ \A k \in 1..executor_pipeline_depth \ {Begun + 1} : Place(k)' = Place(k)
        /\ batch = NoBatch
    BY <1>1, <2>1, PlaceUpdate
  <2>3. b \in 0..2 /\ Sent <= d /\ Sent \in 0..2 /\ d \in 0..2
    BY <1>0, <1>1, DepthIs
  <2> QED BY <2>2, <2>3, <1>0
<1>3. executor_pipeline_depth' = d
  BY <1>0, Zenon DEF UpdateCachedRequests, engine
<1>4. Running' = Steps(o)
  BY <1>1, RunningIsTaken
<1>5. Place(b + 1).item = Steps(o)
  BY <1>2 DEF OfPacket
<1> HIDE DEF o
<1>6. /\ b \in 0..2 /\ d \in 0..2 /\ b <= d
      /\ Sequence(InOrder) /\ Len(InOrder) = d - b
      /\ \A j \in 1..(d - b) : InOrder[j] = Place(b + j).item
  BY <1>0 DEF QueueIs
<1>7. /\ Sequence(InOrder') /\ Len(InOrder') = d - (b + 1)
      /\ \A j \in 1..(d - (b + 1)) : InOrder'[j] = Place((b + 1) + j)'.item
  BY <1>0, <1>2, <1>3 DEF QueueIs, Sequence
<1>8. InOrder # <<>> /\ Head(InOrder) = Steps(o)
  <2>1. 1 \in 1..(d - b) /\ Len(InOrder) # 0
    BY <1>2, <1>6
  <2>2. InOrder # <<>>
    BY <2>1, <1>6, SequenceLen
  <2>3. Head(InOrder) = InOrder[1]
    BY <2>2, <1>6, SequenceTail
  <2> QED BY <2>1, <2>2, <2>3, <1>5, <1>6
<1>9. InOrder' = Tail(InOrder)
  <2>1. ASSUME NEW j \in 1..((d - b) - 1) PROVE InOrder'[j] = InOrder[j + 1]
    <3>1. /\ j \in 1..(d - (b + 1)) /\ j + 1 \in 1..(d - b)
          /\ (b + 1) + j \in 1..d \ {b + 1} /\ b + (j + 1) = (b + 1) + j
      BY <1>6
    <3> QED BY <3>1, <1>2, <1>6, <1>7
  <2>2. Len(InOrder') = Len(InOrder) - 1
    BY <1>6, <1>7
  <2> QED BY <2>1, <2>2, <1>6, <1>7, <1>8, SequenceRest
<1>10. Running = <<>>
  BY <1>1, <1>2, RunningIsNone DEF TypeInv, ExecutorType
<1> QED BY <1>4, <1>8, <1>9, <1>10 DEF Channel!Run, Channel!NoBatch, Running

\* The batch is answered.
LEMMA ChannelFinish ==
  ASSUME IInv, QueueIs, QueueIs', TypeInv', Report
  PROVE  Channel!Finish
<1>1. /\ Begun' = Begun
      /\ \A k \in 1..executor_pipeline_depth : Place(k)' = Place(k)
  BY PlaceReport DEF IInv
<1>2. /\ batch # NoBatch /\ batch' = NoBatch
      /\ executor_pipeline_depth' = executor_pipeline_depth
  BY Zenon DEF Report, engine
<1>3. InOrder' = InOrder
  BY <1>1, <1>2, QueueStays
<1>4. Running # <<>>
  BY <1>2, RunningIsNone DEF IInv, TypeInv, ExecutorType
<1>5. Running' = <<>>
  <2>1. DOMAIN Running' = {} /\ Running' = [r \in DOMAIN Running' |-> Running'[r]]
    BY <1>2, EmptyPartial DEF Running, NoBatch
  <2>2. DOMAIN <<>> = {} /\ <<>> \in [{} -> {}]
    BY EmptyPartial
  <2>3. <<>> = [r \in {} |-> r]
    BY <2>2
  <2> QED BY <2>1, <2>3
<1> QED BY <1>2, <1>3, <1>4, <1>5 DEF Channel!Finish, Channel!NoBatch, Running

\* Every step is one of the FIFO, or changes nothing in it.
LEMMA NextChannel ==
  IInv /\ IInv' /\ [Next]_vars => [Channel!Next]_(Channel!vars)
<1>1. IInv /\ IInv' => QueueIs /\ QueueIs'
  BY QueueOfInv, NextQueue
<1> SUFFICES ASSUME IInv, IInv', QueueIs, QueueIs', [Next]_vars
             PROVE  [Channel!Next]_(Channel!vars)
  BY <1>1
<1>0. TypeInv /\ PoolInv /\ FlowInv /\ HeldInv /\ TypeInv'
  BY DEF IInv
<1>2. ASSUME UNCHANGED <<executor_pipeline_depth, launched, packets, objects,
                         pending, batch, results>>
      PROVE  UNCHANGED Channel!vars
  <2>1. Begun' = Begun /\ \A k : Place(k)' = Place(k)
    BY <1>2, PlaceFrame
  <2> QED BY <2>1, <1>2, QueueStays, ChannelStays
<1>3. CASE Schedule \/ DropStopped \/ DropStaleOutput
  <2>1. UNCHANGED <<executor_pipeline_depth, transfer, executor, results>>
    BY <1>3, Zenon DEF Schedule, DropStopped, DropStaleOutput
  <2> QED BY <2>1, <1>2 DEF transfer, executor
<1>4. CASE LaunchScheduleOutput
  BY <1>4, ChannelLaunch DEF Channel!Next
<1>5. CASE UpdateWithGenerationResult
  BY <1>5, ChannelReturn
<1>6. CASE \E r \in Requests : Stop(r) \/ Recompute(r)
  <2>1. UNCHANGED <<executor_pipeline_depth, transfer, executor, results>>
    BY <1>6, Zenon DEF Stop, Recompute
  <2> QED BY <2>1, <1>2 DEF transfer, executor
<1>7. CASE SetInferRequestTransferMode
  <2>1. /\ Begun' = Begun
        /\ \A k \in 1..executor_pipeline_depth : Place(k)'.item = Place(k).item
    BY <1>0, <1>7, HeldMode
  <2>2. batch' = batch /\ executor_pipeline_depth' = executor_pipeline_depth
    BY <1>7 DEF SetInferRequestTransferMode, executor
  <2> QED BY <2>1, <2>2, QueueStays, ChannelStays
<1>8. CASE PutSendScheduleOutput
  <2>1. /\ Begun' = Begun
        /\ \A k \in 1..executor_pipeline_depth : Place(k)' = Place(k)
    BY <1>0, <1>8, SentIsFirst, PlaceSend DEF FlowInv
  <2>2. batch' = batch /\ executor_pipeline_depth' = executor_pipeline_depth
    BY <1>8 DEF PutSendScheduleOutput, engine, executor
  <2> QED BY <2>1, <2>2, QueueStays, ChannelStays
<1>9. CASE Receive
  <2>1. /\ Begun' = Begun
        /\ \A k \in 1..executor_pipeline_depth : Place(k)' = Place(k)
    BY <1>0, <1>9, PlaceReceive
  <2>2. batch' = batch /\ executor_pipeline_depth' = executor_pipeline_depth
    BY <1>9, Zenon DEF Receive, engine
  <2> QED BY <2>1, <2>2, QueueStays, ChannelStays
<1>10. CASE UpdateCachedRequests
  BY <1>10, ChannelRun DEF Channel!Next
<1>11. CASE Report
  BY <1>0, <1>11, ChannelFinish DEF Channel!Next
<1>12. CASE FreeScheduleOutput
  <2>1. /\ Begun' = Begun
        /\ \A k \in 1..executor_pipeline_depth : Place(k)' = Place(k)
    BY <1>0, <1>12, PlaceFree
  <2>2. batch' = batch /\ executor_pipeline_depth' = executor_pipeline_depth
    BY <1>12 DEF FreeScheduleOutput, engine
  <2> QED BY <2>1, <2>2, QueueStays, ChannelStays
<1>13. CASE Idle \/ UNCHANGED vars
  <2>1. UNCHANGED <<executor_pipeline_depth, launched, packets, objects, pending,
                    batch, results>>
    BY <1>13 DEF Idle, vars, engine, transfer, executor
  <2> QED BY <2>1, <1>2
<1> QED BY <1>3, <1>4, <1>5, <1>6, <1>7, <1>8, <1>9, <1>10, <1>11, <1>12, <1>13
        DEF Next

\* The FIFO is empty at the start.
LEMMA InitChannel == Init => Channel!Init
<1> SUFFICES ASSUME Init PROVE Channel!Init
  OBVIOUS
<1>1. IInv /\ QueueIs
  BY InitInv, QueueOfInv
<1>2. executor_pipeline_depth = 0 /\ batch = NoBatch
  BY DEF Init
<1>3. Sequence(InOrder) /\ Len(InOrder) = 0
  <2>1. PICK b : b = Begun
    OBVIOUS
  <2>2. b \in 0..2 /\ b <= 0 /\ Sequence(InOrder) /\ Len(InOrder) = 0 - b
    BY <1>1, <1>2, <2>1 DEF QueueIs
  <2> QED BY <2>2
<1>4. InOrder = <<>>
  BY <1>3, SequenceLen
<1>5. Running = <<>>
  BY <1>1, <1>2, RunningIsNone DEF IInv, TypeInv, ExecutorType
<1> QED BY <1>4, <1>5 DEF Channel!Init, Channel!NoBatch, Running

\* Snapshots, transfer modes, serialization and the pool of objects implement a
\* FIFO of launches, for any number of requests and any length of their texts:
\* every output is run in its turn and as it was when it was launched.
THEOREM ChannelCorrect == Spec => ChannelSpec
<1>1. Init => Channel!Init
  BY InitChannel
<1>2. IInv /\ IInv' /\ [Next]_vars => [Channel!Next]_(Channel!vars)
  BY NextChannel
<1> QED BY <1>1, <1>2, Invariant, PTL DEF Spec, ChannelSpec, Channel!Spec
================================================================================
